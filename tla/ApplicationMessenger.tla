------------------------ MODULE ApplicationMessenger ------------------------
(***************************************************************************)
(* CApplicationMessenger (xbmc/messaging/ApplicationMessenger.cpp): other  *)
(* threads, among them the job manager's workers, post messages to the     *)
(* application thread or send them and wait.  The application thread takes *)
(* them in its main loop and, since a handler may open a dialog or wait    *)
(* for a script, in loops nested in handlers.  One of the messages makes   *)
(* it run CApplication::Stop, which waits for the jobs and then cleans up. *)
(*                                                                         *)
(* A section that holds m_critSection is one action.  The graphics lock,   *)
(* which a sender gives up while it waits, is part of the model.  A        *)
(* message sent by the application thread itself and waited for is handled *)
(* at once and changes nothing here.                                       *)
(***************************************************************************)
EXTENDS Naturals, Sequences, FiniteSets, SequencesExt

CONSTANTS
  Senders,       \* threads other than the application's
  Workers,       \* those of them that belong to the job manager
  MaxMessages,   \* how many messages are made (a bound)
  MaxDepth       \* how deep message loops are nested (a bound)

ASSUME SendersAssumption ==
  /\ IsFiniteSet(Senders) /\ Workers \subseteq Senders
  /\ MaxMessages \in Nat /\ MaxDepth \in Nat \ {0}

Queues == {"window", "normal"}
Kinds == {"gui", "call", "quit"}     \* "quit" is TMSG_QUIT

VARIABLES
  queue,       \* m_vecWindowMessages and m_vecMessages
  m_bStop,     \* the flag that Stop sets, here and in the application
  frames,      \* the application thread's nested message loops
  pc,          \* where each sender is
  message,     \* the message it sends
  exited,      \* whether its CSingleExit has to take the graphics lock again
  made,        \* how many messages were made
  answered,    \* the messages whose waitEvent is set
  gfx,         \* the sender that holds the graphics lock, or "none"
  working,     \* the workers that are in a job
  cleaned,     \* Cleanup has run (the window system may go from now on)
  late         \* (history) the messages pushed after it

queues == <<queue, made>>
app == <<m_bStop, frames, cleaned>>
senders == <<pc, message, exited, gfx, working, late>>
vars == <<queues, app, senders, answered>>

Message(from, kind, wait) == [n |-> made + 1, from |-> from, kind |-> kind, wait |-> wait]
NoMessage == [n |-> 0, from |-> "app", kind |-> "call", wait |-> FALSE]
Frame(q) == [queue |-> q, at |-> "loop", msg |-> NoMessage]

Init ==
  /\ queue = [q \in Queues |-> <<>>]
  /\ m_bStop = FALSE /\ cleaned = FALSE
  /\ frames = <<>>
  /\ pc = [s \in Senders |-> "idle"]
  /\ message = [s \in Senders |-> NoMessage]
  /\ exited = [s \in Senders |-> FALSE]
  /\ made = 0 /\ answered = {} /\ late = {}
  /\ gfx = "none"
  /\ working = {}

-----------------------------------------------------------------------------
(* The senders                                                             *)

Goto(s, step) == pc' = [pc EXCEPT ![s] = step]
Done(s) == Goto(s, "idle") /\ message' = [message EXCEPT ![s] = NoMessage]

(* Mutant: everything goes to one queue.                                   *)
EnqueueNormal(m) == queue' = [queue EXCEPT !["normal"] = Append(@, m)]

Enqueue(m) ==
  queue' = [queue EXCEPT ![IF m.kind = "gui" THEN "window" ELSE "normal"] = Append(@, m)]

(* Mutant: jobs are begun while the manager is being stopped.              *)
StartJobAlways(s) ==
  /\ s \in Workers \ working
  /\ working' = working \cup {s}
  /\ UNCHANGED <<queues, app, pc, message, exited, gfx, late, answered>>

(* A worker begins a job, which the manager does until it is stopped, ...  *)
StartJob(s) ==
  /\ s \in Workers \ working
  /\ ~m_bStop
  /\ working' = working \cup {s}
  /\ UNCHANGED <<queues, app, pc, message, exited, gfx, late, answered>>

(* ... and ends it.                                                        *)
EndJob(s) ==
  /\ s \in working /\ pc[s] = "idle" /\ gfx # s
  /\ working' = working \ {s}
  /\ UNCHANGED <<queues, app, pc, message, exited, gfx, late, answered>>

UnlockGfx(s) ==
  /\ pc[s] = "idle" /\ gfx = s
  /\ gfx' = "none"
  /\ UNCHANGED <<queues, app, pc, message, exited, working, late, answered>>

(* SendMsg and PostMsg, by a thread that may hold the graphics lock: the   *)
(* stop flag is tested without the messenger's lock ...                    *)
SendMsg(s, kind, wait) ==
  /\ s \in Workers => s \in working
  /\ pc[s] = "idle" /\ made < MaxMessages
  /\ ~m_bStop
  /\ kind = "quit" => ~wait
  /\ \/ UNCHANGED gfx
     \/ gfx = "none" /\ gfx' = s
  /\ message' = [message EXCEPT ![s] = Message(s, kind, wait)]
  /\ made' = made + 1
  /\ Goto(s, "checked")
  /\ UNCHANGED <<queue, app, exited, working, late, answered>>

(* ... and the message is pushed with it.                                  *)
Push(s) ==
  /\ pc[s] = "checked"
  /\ Enqueue(message[s])
  /\ late' = IF cleaned THEN late \cup {message[s].n} ELSE late
  /\ \/ message[s].wait /\ Goto(s, "pushed") /\ UNCHANGED message
     \/ ~message[s].wait /\ Done(s)
  /\ UNCHANGED <<made, app, exited, gfx, working, answered>>

(* Without a window system SendMsg does not wait, ...                      *)
NoWait(s) ==
  /\ pc[s] = "pushed" /\ cleaned
  /\ Done(s)
  /\ UNCHANGED <<queues, app, exited, gfx, working, late, answered>>

(* Mutant: the graphics lock is kept during the wait.                      *)
WaitLocked(s) ==
  /\ pc[s] = "pushed"
  /\ exited' = [exited EXCEPT ![s] = FALSE]
  /\ Goto(s, "waiting")
  /\ UNCHANGED <<queues, app, message, gfx, working, late, answered>>

(* ... else it leaves the graphics lock, should it hold it, for the wait.  *)
Wait(s) ==
  /\ pc[s] = "pushed"
  /\ exited' = [exited EXCEPT ![s] = gfx = s]
  /\ gfx' = IF gfx = s THEN "none" ELSE gfx
  /\ Goto(s, "waiting")
  /\ UNCHANGED <<queues, app, message, working, late, answered>>

Return(s) ==
  /\ pc[s] = "waiting" /\ message[s].n \in answered
  /\ exited[s] => gfx = "none"
  /\ gfx' = IF exited[s] THEN s ELSE gfx
  /\ exited' = [exited EXCEPT ![s] = FALSE]
  /\ answered' = answered \ {message[s].n}
  /\ Done(s)
  /\ UNCHANGED <<queues, app, working, late>>

-----------------------------------------------------------------------------
(* The application thread                                                  *)

Top == Last(frames)
SetTop(frame) == frames' = [frames EXCEPT ![Len(frames)] = frame]
In(step) == frames # <<>> /\ Top.at = step
Handling == (In("handle") /\ Top.msg.kind # "quit") \/ In("stopped")

(* CApplication::Process: the window messages, then the others.  The main  *)
(* loop begins it until Stop, a handler with a dialog whenever it likes;   *)
(* one that waits for a script only begins the second part.  A pass that   *)
(* would find nothing is left out.                                         *)
Process(q) ==
  /\ queue["normal"] # <<>> \/ (q = "window" /\ queue["window"] # <<>>)
  /\ \/ frames = <<>> /\ ~m_bStop /\ q = "window"
     \/ Handling /\ Len(frames) < MaxDepth
  /\ frames' = Append(frames, Frame(q))
  /\ UNCHANGED <<queues, m_bStop, cleaned, senders, answered>>

(* Mutant: the sender is told before its message is handled.               *)
TakeMessageEarly ==
  /\ In("loop") /\ queue[Top.queue] # <<>>
  /\ LET m == Head(queue[Top.queue]) IN
     /\ SetTop([Top EXCEPT !.at = "handle", !.msg = m])
     /\ answered' = answered \cup (IF m.wait THEN {m.n} ELSE {})
  /\ queue' = [queue EXCEPT ![Top.queue] = Tail(@)]
  /\ UNCHANGED <<made, m_bStop, cleaned, senders>>

(* ProcessWindowMessages and ProcessMessages: the next message ...         *)
TakeMessage ==
  /\ In("loop") /\ queue[Top.queue] # <<>>
  /\ SetTop([Top EXCEPT !.at = "handle", !.msg = Head(queue[Top.queue])])
  /\ queue' = [queue EXCEPT ![Top.queue] = Tail(@)]
  /\ UNCHANGED <<made, m_bStop, cleaned, senders, answered>>

(* ... is handled, maybe under the graphics lock, and answered.            *)
EndMessage ==
  /\ Handling
  /\ Top.msg.kind = "gui" => gfx = "none"
  /\ answered' = answered \cup (IF Top.msg.wait THEN {Top.msg.n} ELSE {})
  /\ SetTop(Frame(Top.queue))
  /\ UNCHANGED <<queues, m_bStop, cleaned, senders>>

(* A handler posts a message.                                              *)
PostMsg(kind) ==
  /\ Handling /\ ~m_bStop /\ made < MaxMessages
  /\ Enqueue(Message("app", kind, FALSE))
  /\ made' = made + 1
  /\ UNCHANGED <<app, senders, answered>>

EndLoop ==
  /\ In("loop") /\ queue[Top.queue] = <<>>
  /\ frames' = IF Top.queue = "window" THEN Append(Front(frames), Frame("normal"))
               ELSE Front(frames)
  /\ UNCHANGED <<queues, m_bStop, cleaned, senders, answered>>

(* CApplication::Stop: it tells the messenger, ...                         *)
Stop ==
  /\ In("handle") /\ Top.msg.kind = "quit"
  /\ m_bStop' = TRUE
  /\ SetTop([Top EXCEPT !.at = "cancel"])
  /\ UNCHANGED <<queues, cleaned, senders, answered>>

(* ... waits in CJobManager::CancelJobs for the jobs in progress, ...      *)
CancelJobs ==
  /\ In("cancel") /\ working = {}
  /\ SetTop([Top EXCEPT !.at = "clean"])
  /\ UNCHANGED <<queues, m_bStop, cleaned, senders, answered>>

Waited(q) == {i \in DOMAIN queue[q] : queue[q][i].wait}

(* ... and answers and deletes what is queued.                             *)
Cleanup ==
  /\ In("clean")
  /\ SetTop([Top EXCEPT !.at = "stopped"])
  /\ answered' = answered \cup UNION {{queue[q][i].n : i \in Waited(q)} : q \in Queues}
  /\ queue' = [q \in Queues |-> <<>>]
  /\ cleaned' = TRUE
  /\ UNCHANGED <<made, m_bStop, senders>>

-----------------------------------------------------------------------------
SenderStep(s) ==
  UnlockGfx(s) \/ EndJob(s) \/ Push(s) \/ Wait(s) \/ Return(s)

AppStep ==
  \/ TakeMessage \/ EndMessage \/ EndLoop \/ Stop \/ CancelJobs \/ Cleanup
  \/ frames = <<>> /\ Process("window")

Next ==
  \/ AppStep
  \/ \E q \in Queues : Process(q)
  \/ \E kind \in Kinds : PostMsg(kind)
  \/ \E s \in Senders :
       \/ SenderStep(s) \/ StartJob(s) \/ NoWait(s)
       \/ \E kind \in Kinds, wait \in BOOLEAN : SendMsg(s, kind, wait)

Spec == Init /\ [][Next]_vars

(* Threads are scheduled, jobs end and handlers return; nobody has to send *)
(* or to nest.                                                             *)
Fairness ==
  /\ WF_vars(AppStep)
  /\ \A s \in Senders : WF_vars(SenderStep(s))

FairSpec == Spec /\ Fairness

-----------------------------------------------------------------------------
(* Properties                                                              *)

Messages == [n : 0..MaxMessages, from : Senders \cup {"app"}, kind : Kinds, wait : BOOLEAN]

(* Types; each queue has its own kinds of messages.                        *)
MTypeOK ==
  /\ queue \in [Queues -> Seq(Messages)]
  /\ \A q \in Queues : \A m \in ToSet(queue[q]) : q = "window" <=> m.kind = "gui"
  /\ m_bStop \in BOOLEAN /\ cleaned \in BOOLEAN
  /\ frames \in Seq([queue : Queues, msg : Messages,
                     at : {"loop", "handle", "cancel", "clean", "stopped"}])
  /\ Len(frames) <= MaxDepth
  /\ pc \in [Senders -> {"idle", "checked", "pushed", "waiting"}]
  /\ message \in [Senders -> Messages]
  /\ exited \in [Senders -> BOOLEAN]
  /\ made \in 0..MaxMessages
  /\ answered \subseteq 1..MaxMessages /\ late \subseteq 1..MaxMessages
  /\ gfx \in Senders \cup {"none"}
  /\ working \subseteq Workers

InQueues(n) == UNION {{q} \X {i \in DOMAIN queue[q] : queue[q][i].n = n} : q \in Queues}
InHands(n) == {i \in DOMAIN frames : frames[i].at # "loop" /\ frames[i].msg.n = n}
Places(n) == InQueues(n) \cup InHands(n)

(* A sender's message is in one queue or in the hands of one handler until *)
(* it is answered, and then nowhere: no answer comes early, none is lost   *)
(* with a message that nested loops or Cleanup took away.                  *)
AnswerOrMessage ==
  \A s \in Senders :
    pc[s] \in {"pushed", "waiting"} =>
      Cardinality(Places(message[s].n)) = (IF message[s].n \in answered THEN 0 ELSE 1)

(* The application waits, in CancelJobs, for a job that waits for it: the  *)
(* one way in which Stop can hang.                                         *)
JobsWaitForStop ==
  \E i \in DOMAIN frames : frames[i].at = "cancel"
    /\ \E s \in working : pc[s] = "waiting" /\ message[s].n \notin answered

(* "Send a blocking message and wait for a response": a sender that waits  *)
(* returns, unless its message came after Cleanup or Stop hangs.           *)
SendersReturn ==
  \A s \in Senders :
    pc[s] = "waiting" ~> pc[s] = "idle" \/ message[s].n \in late \/ JobsWaitForStop

(* Stop ends, and the message loops with it, unless it hangs.              *)
StopEnds == m_bStop ~> frames = <<>> \/ JobsWaitForStop
=============================================================================

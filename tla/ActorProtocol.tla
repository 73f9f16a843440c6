---------------------------- MODULE ActorProtocol ----------------------------
(***************************************************************************)
(* Actor::Protocol and Actor::Message (xbmc/utils/ActorProtocol.cpp): the  *)
(* port between an engine thread (ActiveAE, its sink, the outputs of VAAPI *)
(* and VDPAU) and its clients.  Messages are recycled: a message is an     *)
(* object that is handed out, sent, received, released and handed out      *)
(* again.  A synchronous one is released twice, by its sender and by the   *)
(* engine, and the second of them recycles it.                             *)
(*                                                                         *)
(* A section of code that holds criticalSection is one action.  Steps of a *)
(* thread on a message only it can reach are part of the action before.    *)
(***************************************************************************)
EXTENDS Queues, FiniteSets

CONSTANTS
  Clients,       \* threads that send to the engine
  Engine,        \* the thread that serves the port
  Sends,         \* what each client sends: <<client, signal or "sync">>
  MaxMessages    \* how many Message objects memory has (a bound)

Signals == {"plain", "change"}   \* "change" is the one that gets purged

ASSUME ThreadsAssumption ==
  /\ IsFiniteSet(Clients) /\ Engine \notin Clients
  /\ Sends \subseteq Clients \X (Signals \cup {"sync"})
  /\ MaxMessages \in Nat \ {0}

VARIABLES
  outMessages, inMessages, freeMessageQueue,   \* queues of messages
  made,        \* how many messages were created with new: 1 .. made
  msg,         \* the fields of each message
  pc,          \* where each thread is
  mine,        \* the message a thread sends, waits on, handles or releases
  other,       \* a client's *retMsg; the message the engine is about to send
  outEvent,    \* *containerOutEvent, auto-reset: the engine sleeps on it
  resume,      \* what the engine goes on with after a release
  dropped      \* (history) messages taken out of a queue by PurgeOut

queues == <<outMessages, inMessages>>
pool == <<freeMessageQueue, made>>
threads == <<pc, mine, other>>
vars == <<queues, pool, msg, threads, outEvent, resume, dropped>>

Threads == Clients \cup {Engine}
Messages == 1..MaxMessages
NoMsg == 0

(* A message's fields as GetMessage leaves them; signal and direction are  *)
(* set by the sender, the event only for a synchronous message.            *)
Cleared(signal, isOut) ==
  [signal |-> signal, isOut |-> isOut, isSync |-> FALSE, isSyncFini |-> FALSE,
   isSyncTimeout |-> FALSE, event |-> "none", replyMessage |-> NoMsg]

Init ==
  /\ outMessages = <<>> /\ inMessages = <<>> /\ freeMessageQueue = <<>>
  /\ made = 0
  /\ msg = [m \in Messages |-> Cleared("plain", FALSE)]
  /\ pc = [t \in Threads |-> "idle"]
  /\ mine = [t \in Threads |-> NoMsg]
  /\ other = [t \in Threads |-> NoMsg]
  /\ outEvent = FALSE
  /\ resume = "idle"
  /\ dropped = {}

Goto(t, step) == pc' = [pc EXCEPT ![t] = step]

(* Message m is the next free one, or a new one.                           *)
GetMessage(m) ==
  \/ /\ freeMessageQueue # <<>>
     /\ m = Head(freeMessageQueue)
     /\ freeMessageQueue' = Tail(freeMessageQueue)
     /\ UNCHANGED made
  \/ /\ freeMessageQueue = <<>>
     /\ made < MaxMessages
     /\ m = made + 1
     /\ made' = m
     /\ UNCHANGED freeMessageQueue

-----------------------------------------------------------------------------
(* A client                                                                *)

(* SendOutMessage and SendOutMessageSync get a message and fill it ...     *)
SendOutMessage(c, signal) ==
  /\ pc[c] = "idle" /\ <<c, signal>> \in Sends
  /\ \E m \in Messages :
       /\ GetMessage(m)
       /\ msg' = [msg EXCEPT ![m] = Cleared(signal, TRUE)]
       /\ mine' = [mine EXCEPT ![c] = m]
  /\ Goto(c, "push")
  /\ UNCHANGED <<queues, other, outEvent, resume, dropped>>

SendOutMessageSync(c) ==
  /\ pc[c] = "idle" /\ <<c, "sync">> \in Sends
  /\ \E m \in Messages :
       /\ GetMessage(m)
       /\ msg' = [msg EXCEPT ![m] = [Cleared("plain", TRUE) EXCEPT !.isSync = TRUE,
                                                                  !.event = "unset"]]
       /\ mine' = [mine EXCEPT ![c] = m]
  /\ Goto(c, "push")
  /\ UNCHANGED <<queues, other, outEvent, resume, dropped>>

(* ... push it; only a synchronous sender keeps hold of it ...             *)
Push(c) ==
  /\ pc[c] = "push"
  /\ outMessages' = Append(outMessages, mine[c])
  /\ mine' = [mine EXCEPT ![c] = IF msg[mine[c]].isSync THEN @ ELSE NoMsg]
  /\ Goto(c, "signal")
  /\ UNCHANGED <<inMessages, pool, msg, other, outEvent, resume, dropped>>

(* Mutant: only a synchronous message is announced.                        *)
SetOutEventSync(c) ==
  /\ pc[c] = "signal"
  /\ outEvent' = (outEvent \/ mine[c] # NoMsg)
  /\ Goto(c, IF mine[c] = NoMsg THEN "idle" ELSE "wait")
  /\ UNCHANGED <<queues, pool, msg, mine, other, resume, dropped>>

(* ... and set the engine's event.                                         *)
SetOutEvent(c) ==
  /\ pc[c] = "signal"
  /\ outEvent' = TRUE
  /\ Goto(c, IF mine[c] = NoMsg THEN "idle" ELSE "wait")
  /\ UNCHANGED <<queues, pool, msg, mine, other, resume, dropped>>

(* The wait ends with the event, and *retMsg is read without a lock.       *)
Answered(c) ==
  /\ pc[c] = "wait"
  /\ msg[mine[c]].event = "set"
  /\ msg' = [msg EXCEPT ![mine[c]].event = "unset"]
  /\ other' = [other EXCEPT ![c] = msg[mine[c]].replyMessage]
  /\ Goto(c, "release")
  /\ UNCHANGED <<queues, pool, mine, outEvent, resume, dropped>>

(* The wait times out.                                                     *)
TimeOut(c) ==
  /\ pc[c] = "wait"
  /\ msg[mine[c]].event # "set"
  /\ Goto(c, "late")
  /\ UNCHANGED <<queues, pool, msg, mine, other, outEvent, resume, dropped>>

(* Mutant: the reply that came meanwhile is not looked for.                *)
CheckReplyGivesUp(c) ==
  /\ pc[c] = "late"
  /\ msg' = [msg EXCEPT ![mine[c]].isSyncTimeout = TRUE]
  /\ Goto(c, "release")
  /\ UNCHANGED <<queues, pool, mine, other, outEvent, resume, dropped>>

(* Under the lock: take a reply made in the meantime, or record that none  *)
(* will be taken any more.                                                 *)
CheckReply(c) ==
  /\ pc[c] = "late"
  /\ other' = [other EXCEPT ![c] = msg[mine[c]].replyMessage]
  /\ msg' = [msg EXCEPT ![mine[c]].isSyncTimeout = (msg[mine[c]].replyMessage = NoMsg)]
  /\ Goto(c, "release")
  /\ UNCHANGED <<queues, pool, mine, outEvent, resume, dropped>>

(* ReceiveInMessage: the client looks at it and releases it.               *)
ReceiveInMessage(c) ==
  /\ pc[c] = "idle"
  /\ inMessages # <<>>
  /\ mine' = [mine EXCEPT ![c] = Head(inMessages)]
  /\ inMessages' = Tail(inMessages)
  /\ Goto(c, "release")
  /\ UNCHANGED <<outMessages, pool, msg, other, outEvent, resume, dropped>>

-----------------------------------------------------------------------------
(* Release, by any thread                                                  *)

(* A thread goes on: a client with its reply, the engine with its loop.    *)
GoOn(t) ==
  /\ mine' = [mine EXCEPT ![t] = other[t]]
  /\ other' = [other EXCEPT ![t] = NoMsg]
  /\ Goto(t, IF other[t] # NoMsg THEN "release" ELSE IF t = Engine THEN resume ELSE "idle")

(* Mutant: nobody is skipped.                                              *)
ReleaseAlways(t) ==
  /\ pc[t] = "release"
  /\ msg' = [msg EXCEPT ![mine[t]].isSyncFini = TRUE]
  /\ Goto(t, "return") /\ UNCHANGED <<mine, other>>
  /\ UNCHANGED <<queues, pool, outEvent, resume, dropped>>

(* The first of the two to release a synchronous message leaves it to the  *)
(* other; the other, and whoever releases any other message, goes on to    *)
(* free it.                                                                *)
Release(t) ==
  /\ pc[t] = "release"
  /\ msg' = [msg EXCEPT ![mine[t]].isSyncFini = TRUE]
  /\ IF msg[mine[t]].isSync /\ ~msg[mine[t]].isSyncFini
     THEN GoOn(t)
     ELSE Goto(t, "return") /\ UNCHANGED <<mine, other>>
  /\ UNCHANGED <<queues, pool, outEvent, resume, dropped>>

(* Mutant: the reply is returned instead of the message.                   *)
ReturnMessageOther(t) ==
  /\ pc[t] = "return"
  /\ msg' = [msg EXCEPT ![mine[t]] = Cleared("plain", FALSE)]
  /\ freeMessageQueue' = Append(freeMessageQueue, other[t])
  /\ GoOn(t)
  /\ UNCHANGED <<queues, made, outEvent, resume, dropped>>

(* delete event; ReturnMessage.  Whatever else the message keeps,          *)
(* GetMessage overwrites before anybody reads it, and is forgotten here.   *)
ReturnMessage(t) ==
  /\ pc[t] = "return"
  /\ msg' = [msg EXCEPT ![mine[t]] = Cleared("plain", FALSE)]
  /\ freeMessageQueue' = Append(freeMessageQueue, mine[t])
  /\ GoOn(t)
  /\ UNCHANGED <<queues, made, outEvent, resume, dropped>>

-----------------------------------------------------------------------------
(* The engine                                                              *)

ReceiveOutMessage ==
  /\ pc[Engine] = "idle"
  /\ outMessages # <<>>
  /\ mine' = [mine EXCEPT ![Engine] = Head(outMessages)]
  /\ outMessages' = Tail(outMessages)
  /\ Goto(Engine, "handle")
  /\ UNCHANGED <<inMessages, pool, msg, other, outEvent, resume, dropped>>

(* There is none: it waits for its event (the time-out of that wait is     *)
(* left out, lest it hide a message that was not announced).               *)
FindNone ==
  /\ pc[Engine] = "idle"
  /\ outMessages = <<>>
  /\ Goto(Engine, "asleep")
  /\ UNCHANGED <<queues, pool, msg, mine, other, outEvent, resume, dropped>>

Wake ==
  /\ pc[Engine] = "asleep"
  /\ outEvent
  /\ outEvent' = FALSE
  /\ Goto(Engine, "idle")
  /\ UNCHANGED <<queues, pool, msg, mine, other, resume, dropped>>

(* It handles the message without a reply.                                 *)
NoReply ==
  /\ pc[Engine] = "handle"
  /\ Goto(Engine, "release")
  /\ UNCHANGED <<queues, pool, msg, mine, other, outEvent, resume, dropped>>

(* Mutant: a reply is made although the sender has given up.               *)
ReplySyncLate ==
  /\ pc[Engine] = "handle"
  /\ msg[mine[Engine]].isSync
  /\ \E r \in Messages :
       /\ GetMessage(r)
       /\ msg' = [msg EXCEPT ![r] = Cleared("plain", FALSE), ![mine[Engine]].replyMessage = r]
  /\ Goto(Engine, "set")
  /\ UNCHANGED <<queues, mine, other, outEvent, resume, dropped>>

(* Reply to a synchronous message, unless its sender has given up ...      *)
ReplySync ==
  /\ pc[Engine] = "handle"
  /\ msg[mine[Engine]].isSync
  /\ IF msg[mine[Engine]].isSyncTimeout THEN UNCHANGED <<pool, msg>>
     ELSE \E r \in Messages :
            /\ GetMessage(r)
            /\ msg' = [msg EXCEPT ![r] = Cleared("plain", FALSE), ![mine[Engine]].replyMessage = r]
  /\ Goto(Engine, "set")
  /\ UNCHANGED <<queues, mine, other, outEvent, resume, dropped>>

(* ... and, after the lock, its event.                                     *)
SetEvent ==
  /\ pc[Engine] = "set"
  /\ msg' = [msg EXCEPT ![mine[Engine]].event = IF @ = "none" THEN @ ELSE "set"]
  /\ Goto(Engine, "release")
  /\ UNCHANGED <<queues, pool, mine, other, outEvent, resume, dropped>>

(* SendInMessage, of its own accord or as the reply to an asynchronous     *)
(* message ...                                                             *)
SendInMessage ==
  /\ \/ pc[Engine] = "idle"
     \/ pc[Engine] = "handle" /\ ~msg[mine[Engine]].isSync
  /\ \E r \in Messages :
       /\ GetMessage(r)
       /\ msg' = [msg EXCEPT ![r] = Cleared("plain", FALSE)]
       /\ other' = [other EXCEPT ![Engine] = r]
  /\ Goto(Engine, "pushin")
  /\ UNCHANGED <<queues, mine, outEvent, resume, dropped>>

(* ... and its push.                                                       *)
PushIn ==
  /\ pc[Engine] = "pushin"
  /\ inMessages' = Append(inMessages, other[Engine])
  /\ other' = [other EXCEPT ![Engine] = NoMsg]
  /\ Goto(Engine, IF mine[Engine] = NoMsg THEN "idle" ELSE "release")
  /\ UNCHANGED <<outMessages, pool, msg, mine, outEvent, resume, dropped>>

(* PurgeOut(signal) while a message is handled: nobody releases what it    *)
(* takes out of the queue.                                                 *)
PurgeOut(signal) ==
  /\ pc[Engine] = "handle"
  /\ outMessages' = Kept(outMessages, {m \in Messages : msg[m].signal # signal})
  /\ dropped' = dropped \cup (ToSet(outMessages) \ ToSet(outMessages'))
  /\ UNCHANGED <<inMessages, pool, msg, threads, outEvent, resume>>

(* The engine is stopped and joined; the thread that did so goes on in its *)
(* place: Purge receives and releases what is in both queues ...           *)
Purge ==
  /\ pc[Engine] \in {"idle", "asleep"}
  /\ Goto(Engine, "purgein")
  /\ resume' = "purgein"
  /\ UNCHANGED <<queues, pool, msg, mine, other, outEvent, dropped>>

PurgeNext ==
  \/ /\ pc[Engine] = "purgein" /\ inMessages # <<>>
     /\ mine' = [mine EXCEPT ![Engine] = Head(inMessages)]
     /\ inMessages' = Tail(inMessages)
     /\ Goto(Engine, "release")
     /\ UNCHANGED <<outMessages, pool, msg, other, outEvent, resume, dropped>>
  \/ /\ pc[Engine] = "purgeout" /\ outMessages # <<>>
     /\ mine' = [mine EXCEPT ![Engine] = Head(outMessages)]
     /\ outMessages' = Tail(outMessages)
     /\ Goto(Engine, "release")
     /\ UNCHANGED <<inMessages, pool, msg, other, outEvent, resume, dropped>>

(* ... first the in queue, then the out queue; then it is started again.   *)
PurgeDone ==
  /\ \/ pc[Engine] = "purgein" /\ inMessages = <<>> /\ resume' = "purgeout"
     \/ pc[Engine] = "purgeout" /\ outMessages = <<>> /\ resume' = "idle"
  /\ Goto(Engine, resume')
  /\ UNCHANGED <<queues, pool, msg, mine, other, outEvent, dropped>>

-----------------------------------------------------------------------------
ClientCalls(c) ==
  \/ \E s \in Signals : SendOutMessage(c, s)
  \/ SendOutMessageSync(c) \/ ReceiveInMessage(c)

(* The steps of a call in progress.                                        *)
ClientStep(c) ==
  \/ Push(c) \/ SetOutEvent(c) \/ Answered(c) \/ TimeOut(c) \/ CheckReply(c)
  \/ Release(c) \/ ReturnMessage(c)

Handle == NoReply \/ ReplySync

EngineStep ==
  \/ FindNone \/ Wake \/ Handle \/ SetEvent \/ PushIn \/ PurgeNext \/ PurgeDone
  \/ Release(Engine) \/ ReturnMessage(Engine)

EngineMay ==
  \/ Purge \/ SendInMessage \/ PurgeOut("change")

Next ==
  \/ \E c \in Clients : ClientCalls(c) \/ ClientStep(c)
  \/ ReceiveOutMessage \/ EngineStep \/ EngineMay

Spec == Init /\ [][Next]_vars

(* Threads are scheduled, and the engine's loop looks at its port before   *)
(* anything else; nobody is obliged to send, to receive or to purge.       *)
Fairness ==
  /\ \A c \in Clients : WF_vars(ClientStep(c))
  /\ WF_vars(EngineStep)
  /\ SF_vars(ReceiveOutMessage)

FairSpec == Spec /\ Fairness

-----------------------------------------------------------------------------
(* Properties                                                              *)

Steps == {"idle", "push", "signal", "wait", "late", "release", "return", "handle",
          "set", "pushin", "asleep", "purgein", "purgeout"}

Fields ==
  [signal : Signals, isOut : BOOLEAN, isSync : BOOLEAN, isSyncFini : BOOLEAN,
   isSyncTimeout : BOOLEAN, event : {"none", "unset", "set"},
   replyMessage : Messages \cup {NoMsg}]

ATypeOK ==
  /\ outMessages \in Seq(Messages) /\ inMessages \in Seq(Messages)
  /\ freeMessageQueue \in Seq(Messages)
  /\ made \in 0..MaxMessages
  /\ msg \in [Messages -> Fields]
  /\ pc \in [Threads -> Steps]
  /\ mine \in [Threads -> Messages \cup {NoMsg}]
  /\ other \in [Threads -> Messages \cup {NoMsg}]
  /\ outEvent \in BOOLEAN
  /\ resume \in {"idle", "purgein", "purgeout"}
  /\ dropped \subseteq Messages

Free == ToSet(freeMessageQueue)
Queued == ToSet(outMessages) \cup ToSet(inMessages)
Held == {mine[t] : t \in Threads} \cup {other[t] : t \in Threads}

(* A client that still looks for its reply.                                *)
Calling(c) ==
  /\ pc[c] \in {"push", "signal", "wait", "late"}
  /\ mine[c] # NoMsg /\ msg[mine[c]].isSync
Replies == {msg[mine[c]].replyMessage : c \in {d \in Clients : Calling(d)}}

(* Two releases, a time-out and a reply race for each synchronous message: *)
(* still no message is recycled twice, or while it is queued, somebody     *)
(* uses it, or it is a reply that a caller may still take.                 *)
NoUseAfterRecycle ==
  /\ IsInjective(freeMessageQueue)
  /\ IsInjective(outMessages \o inMessages)
  /\ Free \cap (Queued \cup Held \cup Replies) = {}

(* The messages that are free, queued, held or a reply to be taken ...     *)
Places == Free \cup Queued \cup Held \cup Replies

(* ... are all there are but those that PurgeOut took: no order of         *)
(* time-out, reply, releases and Purge loses a message, and one that       *)
(* PurgeOut took, which nobody releases (ActorProtocol.cpp:351-371), never *)
(* comes back.                                                             *)
LostByPurgeOut == (1..made) \ Places = dropped

(* A client's call as the client sees it.                                  *)
Call(c) ==
  IF mine[c] = NoMsg \/ ~msg[mine[c]].isSync THEN "none"
  ELSE IF other[c] # NoMsg THEN "taken"
  ELSE IF msg[mine[c]].replyMessage # NoMsg THEN "answered"
  ELSE IF pc[c] \in {"release", "return"} THEN "expired" ELSE "open"

Calls == INSTANCE ActorCalls WITH call <- [c \in Clients |-> Call(c)]

(* A synchronous call is answered or expires, and an answer the engine     *)
(* made before the time-out was recorded is given to the caller, even if   *)
(* the caller's wait had timed out by then.                                *)
ImplementsCalls == Calls!Spec

(* Every message sent to the engine is recycled at last (or forgotten by a *)
(* purge): the engine is woken for it, and one of the two releases of a    *)
(* synchronous message frees it.                                           *)
SentMessagesComeBack ==
  \A m \in Messages : m \in ToSet(outMessages) ~> m \in Free \cup dropped
=============================================================================

--------------------- MODULE ApplicationMessengerProofs ---------------------
(***************************************************************************)
(* What holds of the application messenger for any number of senders and   *)
(* messages and any nesting of message loops.                              *)
(*                                                                         *)
(* A message has a number of its own and is in one place at most: in one   *)
(* of the queues, or with the handler of one message loop.  Answered       *)
(* messages are in none.                                                   *)
(***************************************************************************)
EXTENDS ApplicationMessenger, QueueLemmas, TLAPS, FiniteSetTheorems

(* The loops that are at a message, and where messages are.                *)
Busy == {i \in DOMAIN frames : frames[i].at # "loop"}
Queued == ToSet(queue["window"]) \cup ToSet(queue["normal"])
Handled == {frames[i].msg : i \in Busy}
Placed == Queued \cup Handled

Frames == [queue : Queues, msg : Messages, at : {"loop", "handle", "cancel", "clean", "stopped"}]

StackInv ==
  /\ \A q \in Queues : IsInjective(queue[q])
  /\ \A i, j \in Busy : frames[i].msg = frames[j].msg => i = j
  /\ Queued \cap Handled = {}

NumberInv ==
  /\ answered \subseteq 1..made
  /\ \A m \in Placed : m.n \in 1..made /\ m.n \notin answered
  /\ \A m, k \in Placed : m.n = k.n => m = k

SenderInv ==
  /\ \A s \in Senders : pc[s] # "idle" => message[s].n \in 1..made
  /\ \A s, t \in Senders :
       pc[s] # "idle" /\ pc[t] # "idle" /\ message[s].n = message[t].n => s = t
  /\ \A s \in Senders :
       pc[s] = "checked" => /\ message[s].n \notin answered
                            /\ \A m \in Placed : m.n # message[s].n
  /\ \A s \in Senders :
       pc[s] \in {"pushed", "waiting"} =>
         message[s].wait /\ (message[s].n \in answered \/ message[s] \in Placed)

MInv == MTypeOK /\ StackInv /\ NumberInv /\ SenderInv

-----------------------------------------------------------------------------
(* Messages and places                                                     *)

(* What the types say of the parts of the state.                           *)
LEMMA MParts ==
  ASSUME MTypeOK
  PROVE  /\ made \in Nat /\ MaxMessages \in Nat /\ MaxDepth \in Nat \ {0}
         /\ made <= MaxMessages
         /\ queue \in [Queues -> Seq(Messages)]
         /\ queue["window"] \in Seq(Messages) /\ queue["normal"] \in Seq(Messages)
         /\ frames \in Seq(Frames) /\ Len(frames) \in Nat
         /\ Queued \subseteq Messages /\ Handled \subseteq Messages
         /\ Placed \subseteq Messages
         /\ ToSet(queue["window"]) \cap ToSet(queue["normal"]) = {}
<1>1. /\ made \in Nat /\ MaxMessages \in Nat /\ MaxDepth \in Nat \ {0}
      /\ made <= MaxMessages
  BY SendersAssumption DEF MTypeOK
<1>2. /\ queue \in [Queues -> Seq(Messages)]
      /\ queue["window"] \in Seq(Messages) /\ queue["normal"] \in Seq(Messages)
  BY DEF MTypeOK, Queues
<1>3. frames \in Seq(Frames) /\ Len(frames) \in Nat
  BY DEF MTypeOK, Frames
<1>4. Queued \subseteq Messages
  BY <1>2 DEF Queued, ToSet
<1>5. Handled \subseteq Messages
  <2>1. \A i \in DOMAIN frames : frames[i] \in Frames
    BY <1>3
  <2>2. \A f \in Frames : f.msg \in Messages
    BY DEF Frames
  <2> QED BY <2>1, <2>2 DEF Handled, Busy
<1>6. ToSet(queue["window"]) \cap ToSet(queue["normal"]) = {}
  BY DEF MTypeOK, Queues
<1> QED BY <1>1, <1>2, <1>3, <1>4, <1>5, <1>6 DEF Placed

(* Nothing changes hands: the same loops are at the same messages.         *)
LEMMA SameHands ==
  ASSUME StackInv, UNCHANGED queue, Busy' = Busy,
         \A i \in Busy : frames'[i].msg = frames[i].msg
  PROVE  StackInv' /\ Placed' = Placed
<1>1. Queued' = Queued
  BY DEF Queued
<1>2. Handled' = Handled
  BY DEF Handled
<1> QED BY <1>1, <1>2 DEF StackInv, Placed

(* The senders and the numbers do not look at more than this.              *)
LEMMA SameNumbers ==
  ASSUME NumberInv, SenderInv, Placed' = Placed, UNCHANGED <<made, answered, pc, message>>
  PROVE  NumberInv' /\ SenderInv'
BY DEF NumberInv, SenderInv

(* Some messages are answered, at least if they are waited for, and gone.  *)
LEMMA Answers ==
  ASSUME NumberInv, SenderInv, UNCHANGED <<made, pc, message>>,
         Placed' \subseteq Placed,
         answered' = answered \cup {m.n : m \in {k \in Placed \ Placed' : k.wait}}
  PROVE  NumberInv' /\ SenderInv'
<1>1. NumberInv'
  BY DEF NumberInv
<1>2. \A s \in Senders :
        pc[s] = "checked" => /\ message[s].n \notin answered'
                             /\ \A m \in Placed' : m.n # message[s].n
  BY DEF SenderInv
<1>3. \A s \in Senders :
        pc[s] \in {"pushed", "waiting"} =>
          message[s].wait /\ (message[s].n \in answered' \/ message[s] \in Placed')
  BY DEF SenderInv
<1> QED BY <1>1, <1>2, <1>3 DEF SenderInv

(* The top of the stack of loops.                                          *)
LEMMA TopIs ==
  ASSUME MTypeOK, frames # <<>>
  PROVE  /\ Len(frames) \in DOMAIN frames /\ Top = frames[Len(frames)] /\ Top \in Frames
         /\ Top.queue \in Queues /\ Top.msg \in Messages
<1>1. frames \in Seq(Frames) /\ Len(frames) \in Nat \ {0}
  BY MParts, EmptySeq
<1>2. Len(frames) \in DOMAIN frames /\ Top = frames[Len(frames)] /\ Top \in Frames
  BY <1>1 DEF Top, Last
<1> QED BY <1>2 DEF Frames

LEMMA SetTopIs ==
  ASSUME MTypeOK, frames # <<>>, NEW f \in Frames, SetTop(f)
  PROVE  /\ frames' \in Seq(Frames) /\ Len(frames') = Len(frames)
         /\ DOMAIN frames' = DOMAIN frames
         /\ frames'[Len(frames)] = f
         /\ \A i \in DOMAIN frames : i # Len(frames) => frames'[i] = frames[i]
         /\ frames' # <<>>
BY MParts, TopIs, EmptySeq DEF SetTop

-----------------------------------------------------------------------------
(* The steps that move no message                                          *)

LEMMA MInitHolds ==
  ASSUME Init
  PROVE  MInv
<1>1. \A q \in Queues : queue[q] = <<>>
  BY DEF Init
<1>2. queue["window"] = <<>> /\ queue["normal"] = <<>> /\ frames = <<>>
  BY <1>1 DEF Init, Queues
<1>3. Placed = {}
  BY <1>2 DEF Placed, Queued, Handled, Busy, ToSet
<1>4. NoMessage \in Messages
  BY SendersAssumption DEF NoMessage, Messages, Kinds
<1>5. MTypeOK
  <2>1. queue \in [Queues -> Seq(Messages)]
    BY <1>1 DEF Init
  <2>2. \A q \in Queues : \A m \in ToSet(queue[q]) : q = "window" <=> m.kind = "gui"
    BY <1>1 DEF ToSet
  <2>3. frames \in Seq(Frames) /\ Len(frames) <= MaxDepth
    BY <1>2, SendersAssumption
  <2>4. frames \in Seq([queue : Queues, msg : Messages,
                         at : {"loop", "handle", "cancel", "clean", "stopped"}])
    BY <2>3 DEF Frames
  <2>5. /\ pc \in [Senders -> {"idle", "checked", "pushed", "waiting"}]
        /\ message \in [Senders -> Messages] /\ exited \in [Senders -> BOOLEAN]
    BY <1>4 DEF Init
  <2>6. m_bStop \in BOOLEAN /\ cleaned \in BOOLEAN
    BY DEF Init
  <2>7. made \in 0..MaxMessages
    BY SendersAssumption DEF Init
  <2>8. /\ answered \subseteq 1..MaxMessages /\ late \subseteq 1..MaxMessages
        /\ gfx \in Senders \cup {"none"} /\ working \subseteq Workers
    BY DEF Init
  <2> QED BY <2>1, <2>2, <2>3, <2>4, <2>5, <2>6, <2>7, <2>8 DEF MTypeOK
<1>6. StackInv
  BY <1>1, <1>2, <1>3 DEF StackInv, Busy, IsInjective, Placed
<1>7. NumberInv /\ SenderInv
  BY <1>3 DEF NumberInv, SenderInv, Init
<1> QED BY <1>5, <1>6, <1>7 DEF MInv

(* What a step of a sender that touches neither queues nor loops keeps.    *)
LEMMA Elsewhere ==
  ASSUME StackInv, UNCHANGED <<queue, frames>>
  PROVE  StackInv' /\ Placed' = Placed
BY SameHands DEF Busy

LEMMA SendMsgStep ==
  ASSUME MInv, NEW s \in Senders, NEW kind \in Kinds, NEW wait \in BOOLEAN,
         SendMsg(s, kind, wait)
  PROVE  MInv'
<1>0. /\ MTypeOK /\ StackInv /\ NumberInv /\ SenderInv
      /\ made \in Nat /\ made < MaxMessages /\ MaxMessages \in Nat
      /\ made' = made + 1 /\ answered' = answered
      /\ message' = [message EXCEPT ![s] = Message(s, kind, wait)]
      /\ pc' = [pc EXCEPT ![s] = "checked"]
      /\ UNCHANGED <<queue, frames>>
  BY MParts DEF MInv, SendMsg, Goto, app
<1>1. Message(s, kind, wait) \in Messages /\ Message(s, kind, wait).n = made + 1
  BY <1>0 DEF Message, Messages
<1>2. MTypeOK'
  BY <1>0, <1>1 DEF MTypeOK, SendMsg, app
<1>3. StackInv' /\ Placed' = Placed
  BY <1>0, Elsewhere
<1>4. /\ pc'[s] = "checked" /\ message'[s].n = made + 1
      /\ \A t \in Senders \ {s} : pc'[t] = pc[t] /\ message'[t] = message[t]
  BY <1>0, <1>1 DEF MTypeOK
<1>5. \A n \in 1..made : n \in 1..made' /\ n # made + 1
  BY <1>0
<1>6. NumberInv'
  BY <1>0, <1>3, <1>5 DEF NumberInv
<1>7. SenderInv'
  <2>1. \A t \in Senders : pc'[t] # "idle" => message'[t].n \in 1..made'
    BY <1>0, <1>4, <1>5 DEF SenderInv
  <2>2. \A t, u \in Senders :
          pc'[t] # "idle" /\ pc'[u] # "idle" /\ message'[t].n = message'[u].n => t = u
    BY <1>0, <1>4, <1>5 DEF SenderInv
  <2>3. made + 1 \notin answered' /\ \A m \in Placed' : m.n # made + 1
    BY <1>0, <1>3, <1>5 DEF NumberInv
  <2>4. \A t \in Senders :
          pc'[t] = "checked" => /\ message'[t].n \notin answered'
                                /\ \A m \in Placed' : m.n # message'[t].n
    BY <1>0, <1>3, <1>4, <2>3 DEF SenderInv
  <2>5. \A t \in Senders :
          pc'[t] \in {"pushed", "waiting"} =>
            message'[t].wait /\ (message'[t].n \in answered' \/ message'[t] \in Placed')
    BY <1>0, <1>3, <1>4 DEF SenderInv
  <2> QED BY <2>1, <2>2, <2>4, <2>5 DEF SenderInv
<1> QED BY <1>2, <1>3, <1>6, <1>7 DEF MInv

(* UnlockGfx, EndJob and StartJob do not concern messages.                 *)
LEMMA OtherStep ==
  ASSUME MInv, NEW s \in Senders, UnlockGfx(s) \/ EndJob(s) \/ StartJob(s)
  PROVE  MInv'
<1>0. /\ MTypeOK /\ StackInv /\ NumberInv /\ SenderInv
      /\ UNCHANGED <<queue, frames, made, answered, pc, message>>
  BY DEF MInv, UnlockGfx, EndJob, StartJob, queues, app
<1>1. MTypeOK'
  BY <1>0 DEF MTypeOK, UnlockGfx, EndJob, StartJob, queues, app
<1>2. StackInv' /\ Placed' = Placed
  BY <1>0, Elsewhere
<1> QED BY <1>0, <1>1, <1>2, SameNumbers DEF MInv

LEMMA NoWaitStep ==
  ASSUME MInv, NEW s \in Senders, NoWait(s)
  PROVE  MInv'
<1>0. /\ MTypeOK /\ StackInv /\ NumberInv /\ SenderInv
      /\ UNCHANGED <<queue, frames, made, answered>>
      /\ pc' = [pc EXCEPT ![s] = "idle"] /\ message' = [message EXCEPT ![s] = NoMessage]
  BY DEF MInv, NoWait, Done, Goto, queues, app
<1>1. NoMessage \in Messages
  BY SendersAssumption DEF NoMessage, Messages, Kinds
<1>2. MTypeOK'
  BY <1>0, <1>1 DEF MTypeOK, NoWait, queues, app
<1>3. StackInv' /\ Placed' = Placed
  BY <1>0, Elsewhere
<1>4. pc'[s] = "idle" /\ \A t \in Senders \ {s} : pc'[t] = pc[t] /\ message'[t] = message[t]
  BY <1>0 DEF MTypeOK
<1>5. NumberInv' /\ SenderInv'
  BY <1>0, <1>3, <1>4 DEF NumberInv, SenderInv
<1> QED BY <1>2, <1>3, <1>5 DEF MInv

LEMMA WaitStep ==
  ASSUME MInv, NEW s \in Senders, Wait(s)
  PROVE  MInv'
<1>0. /\ MTypeOK /\ StackInv /\ NumberInv /\ SenderInv
      /\ UNCHANGED <<queue, frames, made, answered, message>>
      /\ pc[s] = "pushed" /\ pc' = [pc EXCEPT ![s] = "waiting"]
  BY DEF MInv, Wait, Goto, queues, app
<1>1. MTypeOK'
  BY <1>0 DEF MTypeOK, Wait, queues, app
<1>2. StackInv' /\ Placed' = Placed
  BY <1>0, Elsewhere
<1>3. pc'[s] = "waiting" /\ \A t \in Senders \ {s} : pc'[t] = pc[t]
  BY <1>0 DEF MTypeOK
<1>4. NumberInv' /\ SenderInv'
  BY <1>0, <1>2, <1>3 DEF NumberInv, SenderInv
<1> QED BY <1>1, <1>2, <1>4 DEF MInv

(* The number of a message that was waited for is used up.                 *)
LEMMA ReturnStep ==
  ASSUME MInv, NEW s \in Senders, Return(s)
  PROVE  MInv'
<1>0. /\ MTypeOK /\ StackInv /\ NumberInv /\ SenderInv
      /\ UNCHANGED <<queue, frames, made>>
      /\ pc[s] = "waiting" /\ message[s].n \in answered
      /\ answered' = answered \ {message[s].n}
      /\ pc' = [pc EXCEPT ![s] = "idle"] /\ message' = [message EXCEPT ![s] = NoMessage]
  BY DEF MInv, Return, Done, Goto, queues, app
<1>1. NoMessage \in Messages
  BY SendersAssumption DEF NoMessage, Messages, Kinds
<1>2. MTypeOK'
  BY <1>0, <1>1 DEF MTypeOK, Return, queues, app
<1>3. StackInv' /\ Placed' = Placed
  BY <1>0, Elsewhere
<1>4. pc'[s] = "idle" /\ \A t \in Senders \ {s} : pc'[t] = pc[t] /\ message'[t] = message[t]
  BY <1>0 DEF MTypeOK
<1>5. NumberInv'
  BY <1>0, <1>3 DEF NumberInv
<1>6. \A t \in Senders \ {s} : pc[t] # "idle" => message[t].n # message[s].n
  BY <1>0 DEF SenderInv
<1>7. SenderInv'
  BY <1>0, <1>3, <1>4, <1>6 DEF SenderInv
<1> QED BY <1>2, <1>3, <1>5, <1>7 DEF MInv

-----------------------------------------------------------------------------
(* The steps that move messages                                            *)

(* A message with a new number enters a queue.                             *)
LEMMA Enqueued ==
  ASSUME MInv, NEW m \in Messages, Enqueue(m), UNCHANGED frames,
         \A k \in Placed : k.n # m.n
  PROVE  /\ StackInv' /\ Placed' = Placed \cup {m}
         /\ queue' \in [Queues -> Seq(Messages)]
         /\ \A q \in Queues : \A k \in ToSet(queue[q])' : q = "window" <=> k.kind = "gui"
<1> DEFINE b == IF m.kind = "gui" THEN "window" ELSE "normal"
<1>0. /\ MTypeOK /\ StackInv /\ queue \in [Queues -> Seq(Messages)]
      /\ ToSet(queue["window"]) \cup ToSet(queue["normal"]) = Queued
  BY MParts DEF MInv, Queued
<1>1. b \in Queues /\ (b = "window" <=> m.kind = "gui")
  BY DEF Queues
<1>2. queue' = [queue EXCEPT ![b] = Append(queue[b], m)]
  BY DEF Enqueue
<1> HIDE DEF b
<1>3. queue'[b] = Append(queue[b], m) /\ \A q \in Queues \ {b} : queue'[q] = queue[q]
  BY <1>0, <1>1, <1>2
<1>4. m \notin Queued /\ m \notin Handled
  BY DEF Placed
<1>5. m \notin ToSet(queue[b]) /\ queue[b] \in Seq(Messages) /\ IsInjective(queue[b])
  BY <1>0, <1>1, <1>4 DEF Queues, StackInv
<1>6. /\ Append(queue[b], m) \in Seq(Messages) /\ IsInjective(Append(queue[b], m))
      /\ ToSet(Append(queue[b], m)) = ToSet(queue[b]) \cup {m}
  BY <1>5, AppendElements
<1>7. \A q \in Queues : /\ queue'[q] \in Seq(Messages) /\ IsInjective(queue'[q])
                        /\ ToSet(queue'[q]) = ToSet(queue[q]) \cup (IF q = b THEN {m} ELSE {})
  BY <1>0, <1>3, <1>6 DEF StackInv
<1>8. queue' \in [Queues -> Seq(Messages)]
  BY <1>0, <1>2, <1>7
<1>9. Queued' = Queued \cup {m}
  <2>1. "window" \in Queues /\ "normal" \in Queues /\ (b = "window" \/ b = "normal")
    BY <1>1 DEF Queues
  <2> QED BY <1>7, <2>1 DEF Queued
<1>10. Busy' = Busy /\ Handled' = Handled
  BY DEF Busy, Handled
<1>11. StackInv'
  BY <1>0, <1>4, <1>7, <1>9, <1>10 DEF StackInv
<1>12. \A q \in Queues : \A k \in ToSet(queue[q])' : q = "window" <=> k.kind = "gui"
  BY <1>0, <1>1, <1>7 DEF MTypeOK
<1> QED BY <1>8, <1>9, <1>10, <1>11, <1>12 DEF Placed

LEMMA PushStep ==
  ASSUME MInv, NEW s \in Senders, Push(s)
  PROVE  MInv'
<1>0. /\ MTypeOK /\ StackInv /\ NumberInv /\ SenderInv
      /\ UNCHANGED <<frames, made, answered>> /\ Enqueue(message[s])
      /\ pc[s] = "checked"
      /\ \/ /\ message[s].wait /\ pc' = [pc EXCEPT ![s] = "pushed"] /\ message' = message
         \/ /\ pc' = [pc EXCEPT ![s] = "idle"]
            /\ message' = [message EXCEPT ![s] = NoMessage]
  BY DEF MInv, Push, Done, Goto, app
<1>1. /\ message[s] \in Messages /\ message[s].n \notin answered
      /\ message[s].n \in 1..made /\ message[s].n \in 1..MaxMessages
      /\ \A k \in Placed : k.n # message[s].n
  BY <1>0, MParts DEF SenderInv, MTypeOK
<1>2. /\ StackInv' /\ Placed' = Placed \cup {message[s]}
      /\ queue' \in [Queues -> Seq(Messages)]
      /\ \A q \in Queues : \A k \in ToSet(queue[q])' : q = "window" <=> k.kind = "gui"
  BY <1>0, <1>1, Enqueued
<1>3. NoMessage \in Messages
  BY SendersAssumption DEF NoMessage, Messages, Kinds
<1>4. MTypeOK'
  <2>1. late' \subseteq 1..MaxMessages
    BY <1>0, <1>1 DEF MTypeOK, Push
  <2>2. /\ pc' \in [Senders -> {"idle", "checked", "pushed", "waiting"}]
        /\ message' \in [Senders -> Messages]
    BY <1>0, <1>3 DEF MTypeOK
  <2> QED BY <1>0, <1>2, <2>1, <2>2 DEF MTypeOK, Push, app
<1>5. /\ \A t \in Senders \ {s} : pc'[t] = pc[t] /\ message'[t] = message[t]
      /\ \/ pc'[s] = "pushed" /\ message'[s] = message[s] /\ message[s].wait
         \/ pc'[s] = "idle"
  BY <1>0 DEF MTypeOK
<1>6. NumberInv'
  BY <1>0, <1>1, <1>2 DEF NumberInv
<1>7. SenderInv'
  <2>1. \A t \in Senders : pc'[t] # "idle" => message'[t].n \in 1..made'
    BY <1>0, <1>1, <1>5 DEF SenderInv
  <2>2. \A t, u \in Senders :
          pc'[t] # "idle" /\ pc'[u] # "idle" /\ message'[t].n = message'[u].n => t = u
    BY <1>0, <1>1, <1>5 DEF SenderInv
  <2>3. \A t \in Senders \ {s} : pc[t] # "idle" => message[t].n # message[s].n
    BY <1>0 DEF SenderInv
  <2>4. \A t \in Senders :
          pc'[t] = "checked" => /\ message'[t].n \notin answered'
                                /\ \A m \in Placed' : m.n # message'[t].n
    BY <1>0, <1>2, <1>5, <2>3 DEF SenderInv
  <2>5. \A t \in Senders :
          pc'[t] \in {"pushed", "waiting"} =>
            message'[t].wait /\ (message'[t].n \in answered' \/ message'[t] \in Placed')
    BY <1>0, <1>2, <1>5 DEF SenderInv
  <2> QED BY <2>1, <2>2, <2>4, <2>5 DEF SenderInv
<1> QED BY <1>2, <1>4, <1>6, <1>7 DEF MInv

LEMMA PostMsgStep ==
  ASSUME MInv, NEW kind \in Kinds, PostMsg(kind)
  PROVE  MInv'
<1> DEFINE m == Message("app", kind, FALSE)
<1>0. /\ MTypeOK /\ StackInv /\ NumberInv /\ SenderInv
      /\ made \in Nat /\ made < MaxMessages /\ MaxMessages \in Nat
      /\ UNCHANGED <<frames, answered, pc, message>> /\ Enqueue(m)
      /\ made' = made + 1
  BY MParts DEF MInv, PostMsg, app, senders
<1>1. m \in Messages /\ m.n = made + 1
  BY <1>0 DEF Message, Messages
<1>2. \A n \in 1..made : n \in 1..made' /\ n # made + 1
  BY <1>0
<1>3. \A k \in Placed : k.n # m.n
  BY <1>0, <1>1, <1>2 DEF NumberInv
<1> HIDE DEF m
<1>4. /\ StackInv' /\ Placed' = Placed \cup {m}
      /\ queue' \in [Queues -> Seq(Messages)]
      /\ \A q \in Queues : \A k \in ToSet(queue[q])' : q = "window" <=> k.kind = "gui"
  BY <1>0, <1>1, <1>3, Enqueued
<1>5. MTypeOK'
  BY <1>0, <1>4 DEF MTypeOK, PostMsg, app, senders
<1>6. made + 1 \in 1..made' /\ made + 1 \notin answered
  BY <1>0 DEF NumberInv
<1>7. NumberInv'
  BY <1>0, <1>1, <1>2, <1>3, <1>4, <1>6 DEF NumberInv
<1>8. SenderInv'
  BY <1>0, <1>1, <1>2, <1>4 DEF SenderInv
<1> QED BY <1>4, <1>5, <1>7, <1>8 DEF MInv

-----------------------------------------------------------------------------
(* The application thread's steps                                          *)

(* A frame that looks for a message.                                       *)
LEMMA FrameIs ==
  ASSUME NEW q \in Queues
  PROVE  Frame(q) \in Frames /\ Frame(q).at = "loop"
BY SendersAssumption DEF Frame, Frames, NoMessage, Messages, Kinds

LEMMA ProcessStep ==
  ASSUME MInv, NEW q \in Queues, Process(q)
  PROVE  MInv'
<1>0. /\ MTypeOK /\ StackInv /\ NumberInv /\ SenderInv
      /\ UNCHANGED <<queue, made, answered, pc, message>>
      /\ frames' = Append(frames, Frame(q))
      /\ frames \in Seq(Frames) /\ Len(frames) \in Nat /\ MaxDepth \in Nat \ {0}
  BY MParts DEF MInv, Process, queues, senders
<1>1. Len(frames) < MaxDepth
  BY <1>0 DEF Process
<1>2. Frame(q) \in Frames /\ Frame(q).at = "loop"
  BY FrameIs
<1>3. /\ frames' \in Seq(Frames) /\ Len(frames') = Len(frames) + 1
      /\ DOMAIN frames = 1..Len(frames) /\ DOMAIN frames' = 1..(Len(frames) + 1)
      /\ frames'[Len(frames) + 1] = Frame(q)
      /\ \A i \in 1..Len(frames) : frames'[i] = frames[i]
  BY <1>0, <1>2
<1>4. Busy' = Busy /\ \A i \in Busy : frames'[i].msg = frames[i].msg
  BY <1>0, <1>2, <1>3 DEF Busy
<1>5. StackInv' /\ Placed' = Placed
  BY <1>0, <1>4, SameHands
<1>6. Len(frames') <= MaxDepth
  BY <1>0, <1>1, <1>3
<1>7. MTypeOK'
  BY <1>0, <1>3, <1>6 DEF MTypeOK, Process, queues, senders, Frames
<1> QED BY <1>0, <1>5, <1>7, SameNumbers DEF MInv

LEMMA EndLoopStep ==
  ASSUME MInv, EndLoop
  PROVE  MInv'
<1>0. /\ MTypeOK /\ StackInv /\ NumberInv /\ SenderInv
      /\ UNCHANGED <<queue, made, answered, pc, message>>
      /\ frames # <<>> /\ Top.at = "loop"
      /\ frames' = IF Top.queue = "window" THEN Append(Front(frames), Frame("normal"))
                   ELSE Front(frames)
      /\ frames \in Seq(Frames) /\ Len(frames) \in Nat \ {0} /\ MaxDepth \in Nat \ {0}
  BY MParts, EmptySeq DEF MInv, EndLoop, In, queues, senders
<1>1. Frame("normal") \in Frames /\ Frame("normal").at = "loop"
  BY FrameIs DEF Queues
<1>2. /\ Front(frames) \in Seq(Frames) /\ Len(Front(frames)) = Len(frames) - 1
      /\ \A i \in 1..(Len(frames) - 1) : Front(frames)[i] = frames[i]
  BY <1>0, FrontIs
<1>3. frames[Len(frames)].at = "loop" /\ DOMAIN frames = 1..Len(frames)
  BY <1>0 DEF Top, Last
<1>4. /\ frames' \in Seq(Frames) /\ Len(frames') <= Len(frames)
      /\ DOMAIN frames' \in {1..Len(frames), 1..(Len(frames) - 1)}
      /\ \A i \in 1..(Len(frames) - 1) : frames'[i] = frames[i]
      /\ Len(frames) \in DOMAIN frames' => frames'[Len(frames)].at = "loop"
  <2>1. CASE Top.queue = "window"
    BY <1>0, <1>1, <1>2, <2>1
  <2>2. CASE Top.queue # "window"
    BY <1>0, <1>2, <2>2
  <2> QED BY <2>1, <2>2
<1>5. Busy' = Busy /\ \A i \in Busy : frames'[i].msg = frames[i].msg
  <2>1. Busy = {i \in 1..(Len(frames) - 1) : frames[i].at # "loop"}
    BY <1>0, <1>3 DEF Busy
  <2>2. Busy' = {i \in 1..(Len(frames) - 1) : frames'[i].at # "loop"}
    BY <1>0, <1>4 DEF Busy
  <2> QED BY <1>4, <2>1, <2>2
<1>6. StackInv' /\ Placed' = Placed
  BY <1>0, <1>5, SameHands
<1>7. Len(frames') <= MaxDepth
  BY <1>0, <1>4 DEF MTypeOK
<1>8. MTypeOK'
  BY <1>0, <1>4, <1>7 DEF MTypeOK, EndLoop, queues, senders, Frames
<1> QED BY <1>0, <1>6, <1>8, SameNumbers DEF MInv

(* Stop and CancelJobs keep their message in hand.                         *)
LEMMA StopOrCancelJobsStep ==
  ASSUME MInv, Stop \/ CancelJobs
  PROVE  MInv'
<1>0. /\ MTypeOK /\ StackInv /\ NumberInv /\ SenderInv
      /\ UNCHANGED <<queue, made, answered, pc, message>>
      /\ frames # <<>> /\ Top.at # "loop"
  BY DEF MInv, Stop, CancelJobs, In, queues, senders
<1>1. PICK f \in Frames : SetTop(f) /\ f.msg = Top.msg /\ f.at # "loop"
  <2>1. \A at \in {"cancel", "clean"} :
          /\ [Top EXCEPT !.at = at] \in Frames
          /\ [Top EXCEPT !.at = at].msg = Top.msg /\ [Top EXCEPT !.at = at].at # "loop"
    BY <1>0, TopIs DEF Frames
  <2> QED BY <2>1 DEF Stop, CancelJobs
<1>2. /\ frames' \in Seq(Frames) /\ Len(frames') = Len(frames)
      /\ DOMAIN frames' = DOMAIN frames /\ frames'[Len(frames)] = f
      /\ \A i \in DOMAIN frames : i # Len(frames) => frames'[i] = frames[i]
  BY <1>0, <1>1, SetTopIs
<1>3. Top = frames[Len(frames)] /\ Len(frames) \in DOMAIN frames
  BY <1>0, TopIs
<1>4. Busy' = Busy /\ \A i \in Busy : frames'[i].msg = frames[i].msg
  BY <1>0, <1>1, <1>2, <1>3 DEF Busy
<1>5. StackInv' /\ Placed' = Placed
  BY <1>0, <1>4, SameHands
<1>6. MTypeOK'
  BY <1>0, <1>2 DEF MTypeOK, Stop, CancelJobs, queues, senders, Frames
<1> QED BY <1>0, <1>5, <1>6, SameNumbers DEF MInv

(* A message goes from the front of a queue to a handler.                  *)
LEMMA TakeMessageStep ==
  ASSUME MInv, TakeMessage
  PROVE  MInv'
<1> DEFINE b == Top.queue
           m == Head(queue[b])
           T == Len(frames)
<1>0. /\ MTypeOK /\ StackInv /\ NumberInv /\ SenderInv
      /\ UNCHANGED <<made, answered, pc, message>>
      /\ frames # <<>> /\ Top.at = "loop" /\ queue[b] # <<>>
      /\ queue' = [queue EXCEPT ![b] = Tail(queue[b])]
      /\ SetTop([Top EXCEPT !.at = "handle", !.msg = m])
  BY DEF MInv, TakeMessage, In, senders
<1>1. /\ b \in Queues /\ Top = frames[T] /\ T \in DOMAIN frames /\ Top \in Frames
      /\ queue \in [Queues -> Seq(Messages)] /\ queue[b] \in Seq(Messages)
      /\ ToSet(queue["window"]) \cap ToSet(queue["normal"]) = {}
      /\ IsInjective(queue[b])
  BY <1>0, TopIs, MParts DEF StackInv
<1>2. /\ Tail(queue[b]) \in Seq(Messages) /\ m \in ToSet(queue[b])
      /\ ToSet(Tail(queue[b])) = ToSet(queue[b]) \ {m} /\ IsInjective(Tail(queue[b]))
  BY <1>0, <1>1, TailElements
<1>3. m \in Messages
  BY <1>1, <1>2 DEF ToSet
<1> HIDE DEF b, m
<1>4. PICK f \in Frames : SetTop(f) /\ f.msg = m /\ f.at = "handle"
  <2>1. \A t \in Frames, k \in Messages :
          /\ [t EXCEPT !.at = "handle", !.msg = k] \in Frames
          /\ [t EXCEPT !.at = "handle", !.msg = k].msg = k
          /\ [t EXCEPT !.at = "handle", !.msg = k].at = "handle"
    BY DEF Frames
  <2>2. [Top EXCEPT !.at = "handle", !.msg = m] \in Frames
    BY <1>1, <1>3, <2>1
  <2> QED BY <1>0, <1>1, <1>3, <2>1, <2>2
<1>5. /\ frames' \in Seq(Frames) /\ Len(frames') = Len(frames)
      /\ DOMAIN frames' = DOMAIN frames /\ frames'[T] = f
      /\ \A i \in DOMAIN frames : i # T => frames'[i] = frames[i]
  BY <1>0, <1>4, SetTopIs
<1> HIDE DEF T
<1>6. \A q \in Queues : /\ queue'[q] \in Seq(Messages) /\ IsInjective(queue'[q])
                        /\ ToSet(queue'[q]) = ToSet(queue[q]) \ (IF q = b THEN {m} ELSE {})
  BY <1>0, <1>1, <1>2 DEF StackInv
<1>7. queue' \in [Queues -> Seq(Messages)]
  BY <1>0, <1>1, <1>6
<1>8. Queued' = Queued \ {m} /\ m \in Queued
  <2>1. "window" \in Queues /\ "normal" \in Queues /\ (b = "window" \/ b = "normal")
    BY <1>1 DEF Queues
  <2> QED BY <1>1, <1>2, <1>6, <2>1 DEF Queued
<1>9. T \notin Busy /\ Busy' = Busy \cup {T}
  BY <1>0, <1>1, <1>4, <1>5 DEF Busy
<1>10. Handled' = Handled \cup {m} /\ m \notin Handled
  <2>1. \A i \in Busy : i \in DOMAIN frames /\ i # T
    BY <1>9 DEF Busy
  <2>2. m \notin Handled
    BY <1>0, <1>8 DEF StackInv
  <2> QED BY <1>4, <1>5, <1>9, <2>1, <2>2 DEF Handled
<1>11. Placed' = Placed
  BY <1>8, <1>10 DEF Placed
<1>12. \A i, j \in Busy' : frames'[i].msg = frames'[j].msg => i = j
  <2>1. \A i \in Busy : i # T /\ frames'[i] = frames[i] /\ frames[i].msg \in Handled
    BY <1>5, <1>9 DEF Busy, Handled
  <2>2. \A i \in Busy : frames'[i].msg # frames'[T].msg
    BY <1>4, <1>5, <1>10, <2>1
  <2> QED BY <1>0, <1>9, <2>1, <2>2 DEF StackInv
<1>13. StackInv'
  BY <1>0, <1>6, <1>8, <1>10, <1>12 DEF StackInv
<1>14. MTypeOK'
  <2>1. \A q \in Queues : \A k \in ToSet(queue[q])' : q = "window" <=> k.kind = "gui"
    BY <1>0, <1>6 DEF MTypeOK
  <2> QED BY <1>0, <1>5, <1>7, <2>1 DEF MTypeOK, TakeMessage, senders, Frames
<1> QED BY <1>0, <1>11, <1>13, <1>14, SameNumbers DEF MInv

(* A handler's message is answered if its sender waits, and deleted.       *)
LEMMA EndMessageStep ==
  ASSUME MInv, EndMessage
  PROVE  MInv'
<1> DEFINE m == Top.msg
           T == Len(frames)
<1>0. /\ MTypeOK /\ StackInv /\ NumberInv /\ SenderInv
      /\ UNCHANGED <<queue, made, pc, message>>
      /\ frames # <<>> /\ Top.at # "loop"
      /\ answered' = answered \cup (IF m.wait THEN {m.n} ELSE {})
      /\ SetTop(Frame(Top.queue))
  BY DEF MInv, EndMessage, Handling, In, queues, senders
<1>1. Top = frames[T] /\ T \in DOMAIN frames /\ Top.queue \in Queues
  BY <1>0, TopIs
<1>2. Frame(Top.queue) \in Frames /\ Frame(Top.queue).at = "loop"
  BY <1>1, FrameIs
<1>3. /\ frames' \in Seq(Frames) /\ Len(frames') = Len(frames)
      /\ DOMAIN frames' = DOMAIN frames /\ frames'[T] = Frame(Top.queue)
      /\ \A i \in DOMAIN frames : i # T => frames'[i] = frames[i]
  BY <1>0, <1>2, SetTopIs
<1>4. T \in Busy /\ Busy' = Busy \ {T}
  BY <1>0, <1>1, <1>2, <1>3 DEF Busy
<1>5. \A i \in Busy' : i \in Busy /\ i # T /\ frames'[i] = frames[i]
  BY <1>3, <1>4 DEF Busy
<1>6. frames[T].msg = m
  BY <1>1
<1> HIDE DEF m, T
<1>7. Handled' = Handled \ {m} /\ m \in Handled
  <2>1. \A i \in Busy : frames[i].msg = m => i = T
    BY <1>0, <1>4, <1>6 DEF StackInv
  <2> QED BY <1>4, <1>5, <1>6, <2>1 DEF Handled
<1>8. Queued' = Queued
  BY <1>0 DEF Queued
<1>9. Placed' = Placed \ {m} /\ m \in Placed
  BY <1>0, <1>7, <1>8 DEF StackInv, Placed
<1>10. StackInv'
  BY <1>0, <1>5, <1>7, <1>8 DEF StackInv
<1>11. answered' = answered \cup {k.n : k \in {l \in Placed \ Placed' : l.wait}}
  <2>1. Placed \ Placed' = {m}
    BY <1>9
  <2> QED BY <1>0, <2>1
<1>12. NumberInv' /\ SenderInv'
  BY <1>0, <1>9, <1>11, Answers
<1>13. MTypeOK'
  <2>1. answered' \subseteq 1..MaxMessages
    BY <1>0, <1>12, MParts DEF NumberInv
  <2> QED BY <1>0, <1>3, <2>1 DEF MTypeOK, EndMessage, queues, senders, Frames
<1> QED BY <1>10, <1>12, <1>13 DEF MInv

(* Cleanup answers and deletes what is queued, and that only.              *)
LEMMA CleanupStep ==
  ASSUME MInv, Cleanup
  PROVE  MInv'
<1> DEFINE T == Len(frames)
<1>0. /\ MTypeOK /\ StackInv /\ NumberInv /\ SenderInv
      /\ UNCHANGED <<made, pc, message>>
      /\ frames # <<>> /\ Top.at # "loop"
      /\ answered' = answered \cup UNION {{queue[q][i].n : i \in Waited(q)} : q \in Queues}
      /\ SetTop([Top EXCEPT !.at = "stopped"])
      /\ queue' = [q \in Queues |-> <<>>]
  BY DEF MInv, Cleanup, In, senders
<1>1. PICK f \in Frames : SetTop(f) /\ f.msg = Top.msg /\ f.at # "loop"
  BY <1>0, TopIs DEF Frames
<1>2. /\ frames' \in Seq(Frames) /\ Len(frames') = Len(frames)
      /\ DOMAIN frames' = DOMAIN frames /\ frames'[T] = f
      /\ \A i \in DOMAIN frames : i # T => frames'[i] = frames[i]
  BY <1>0, <1>1, SetTopIs
<1>3. Top = frames[T] /\ T \in DOMAIN frames
  BY <1>0, TopIs
<1>4. Busy' = Busy /\ \A i \in Busy : frames'[i].msg = frames[i].msg
  BY <1>0, <1>1, <1>2, <1>3 DEF Busy
<1>5. Handled' = Handled
  BY <1>4 DEF Handled
<1>6. /\ \A q \in Queues : queue'[q] = <<>> /\ ToSet(queue'[q]) = {} /\ IsInjective(queue'[q])
      /\ queue' \in [Queues -> Seq(Messages)]
  BY <1>0 DEF ToSet, IsInjective
<1>7. Queued' = {}
  BY <1>6 DEF Queued, Queues
<1>8. Placed' = Handled /\ Placed \ Placed' = Queued
  BY <1>0, <1>5, <1>7 DEF Placed, StackInv
<1>9. StackInv'
  BY <1>0, <1>4, <1>6, <1>7 DEF StackInv
<1>10. answered' = answered \cup {k.n : k \in {l \in Placed \ Placed' : l.wait}}
  <2>1. \A q \in Queues : {queue[q][i].n : i \in Waited(q)} = {k.n : k \in {l \in ToSet(queue[q]) : l.wait}}
    BY DEF Waited, ToSet
  <2>2. UNION {{queue[q][i].n : i \in Waited(q)} : q \in Queues}
          = {k.n : k \in {l \in Queued : l.wait}}
    <3>1. \A n : (\E q \in Queues : n \in {queue[q][i].n : i \in Waited(q)})
                    <=> \E q \in Queues : \E l \in ToSet(queue[q]) : l.wait /\ n = l.n
      <4>1. ASSUME NEW q \in Queues, NEW n
            PROVE  n \in {queue[q][i].n : i \in Waited(q)}
                     <=> \E l \in ToSet(queue[q]) : l.wait /\ n = l.n
        <5>1. n \in {queue[q][i].n : i \in Waited(q)}
                <=> n \in {k.n : k \in {l \in ToSet(queue[q]) : l.wait}}
          BY <2>1
        <5> QED BY <5>1
      <4> QED BY <4>1
    <3>2. \A l : l \in Queued <=> \E q \in Queues : l \in ToSet(queue[q])
      BY DEF Queued, Queues
    <3>3. \A n : n \in {k.n : k \in {l \in Queued : l.wait}}
                    <=> \E q \in Queues : \E l \in ToSet(queue[q]) : l.wait /\ n = l.n
      BY <3>2
    <3>4. \A n : n \in UNION {{queue[q][i].n : i \in Waited(q)} : q \in Queues}
                    <=> \E q \in Queues : n \in {queue[q][i].n : i \in Waited(q)}
      OBVIOUS
    <3>5. \A n : n \in UNION {{queue[q][i].n : i \in Waited(q)} : q \in Queues}
                    <=> n \in {k.n : k \in {l \in Queued : l.wait}}
      BY <3>1, <3>3, <3>4
    <3> QED BY <3>5
  <2> QED BY <1>0, <1>8, <2>2
<1>11. NumberInv' /\ SenderInv'
  <2>1. Placed' \subseteq Placed
    BY <1>8 DEF Placed
  <2> QED BY <1>0, <1>10, <2>1, Answers
<1>12. MTypeOK'
  <2>1. answered' \subseteq 1..MaxMessages
    BY <1>0, <1>11, MParts DEF NumberInv
  <2> QED BY <1>0, <1>2, <1>6, <2>1 DEF MTypeOK, Cleanup, senders, Frames
<1> QED BY <1>9, <1>11, <1>12 DEF MInv

-----------------------------------------------------------------------------
(* The theorems                                                            *)

LEMMA MInvStep ==
  ASSUME MInv, [Next]_vars
  PROVE  MInv'
<1>1. CASE AppStep
  <2>1. CASE frames = <<>> /\ Process("window")
    BY <2>1, ProcessStep DEF Queues
  <2> QED BY <1>1, <2>1, TakeMessageStep, EndMessageStep, EndLoopStep, StopOrCancelJobsStep,
             CleanupStep DEF AppStep
<1>2. CASE \E q \in Queues : Process(q)
  BY <1>2, ProcessStep
<1>3. CASE \E kind \in Kinds : PostMsg(kind)
  BY <1>3, PostMsgStep
<1>4. ASSUME NEW s \in Senders, SenderStep(s) \/ StartJob(s) \/ NoWait(s)
      PROVE  MInv'
  BY <1>4, OtherStep, PushStep, WaitStep, ReturnStep, NoWaitStep DEF SenderStep
<1>5. ASSUME NEW s \in Senders, NEW kind \in Kinds, NEW wait \in BOOLEAN,
             SendMsg(s, kind, wait)
      PROVE  MInv'
  BY <1>5, SendMsgStep
<1>6. CASE UNCHANGED vars
  <2>1. /\ MTypeOK /\ StackInv /\ NumberInv /\ SenderInv
        /\ UNCHANGED <<queue, frames, made, answered, pc, message>>
    BY <1>6 DEF MInv, vars, queues, app, senders
  <2>2. MTypeOK'
    BY <1>6, <2>1 DEF MTypeOK, vars, queues, app, senders
  <2>3. StackInv' /\ Placed' = Placed
    BY <2>1, Elsewhere
  <2> QED BY <2>1, <2>2, <2>3, SameNumbers DEF MInv
<1> QED BY <1>1, <1>2, <1>3, <1>4, <1>5, <1>6 DEF Next

THEOREM MInvCorrect == Spec => []MInv
<1>1. Init => MInv
  BY MInitHolds
<1>2. MInv /\ [Next]_vars => MInv'
  BY MInvStep
<1> QED BY <1>1, <1>2, PTL DEF Spec

(* The messenger's variables keep their types, and its two queues their    *)
(* kinds of messages (ProcessWindowMessages handles "gui" messages only).  *)
THEOREM MessengerTypeCorrect == Spec => []MTypeOK
<1>1. MInv => MTypeOK
  BY DEF MInv
<1> QED BY <1>1, MInvCorrect, PTL

(* The number of a message that is in a place is in that place only.       *)
LEMMA OnePlace ==
  ASSUME MInv, NEW m \in Placed
  PROVE  \E p : Places(m.n) = {p}
<1>0. /\ MTypeOK /\ StackInv /\ NumberInv
      /\ ToSet(queue["window"]) \cap ToSet(queue["normal"]) = {}
  BY MParts DEF MInv
<1>1. \A k \in Placed : k.n = m.n => k = m
  BY <1>0 DEF NumberInv
<1>2. \A q \in Queues : \A i : i \in DOMAIN queue[q] => queue[q][i] \in Placed
  BY DEF Queues, Placed, Queued, ToSet
<1>3. \A i \in Busy : frames[i].msg \in Placed
  BY DEF Placed, Handled
<1>4. \A p : p \in Places(m.n) <=>
         \/ \E q \in Queues : \E i \in DOMAIN queue[q] : p = <<q, i>> /\ queue[q][i] = m
         \/ p \in Busy /\ frames[p].msg = m
  <2>1. \A p : p \in Places(m.n) <=>
           \/ \E q \in Queues : \E i \in DOMAIN queue[q] : p = <<q, i>> /\ queue[q][i].n = m.n
           \/ p \in Busy /\ frames[p].msg.n = m.n
    <3> DEFINE At(q) == {i \in DOMAIN queue[q] : queue[q][i].n = m.n}
    <3>1. \A q, p : p \in {q} \X At(q) <=> \E i \in At(q) : p = <<q, i>>
      OBVIOUS
    <3>2. \A p : p \in InQueues(m.n) <=> \E q \in Queues : p \in {q} \X At(q)
      BY DEF InQueues
    <3>3. \A p : p \in InHands(m.n) <=> p \in Busy /\ frames[p].msg.n = m.n
      BY DEF InHands, Busy
    <3> QED BY <3>1, <3>2, <3>3 DEF Places
  <2> QED BY <1>1, <1>2, <1>3, <2>1
<1>5. CASE m \in Queued
  <2>1. PICK q \in Queues : m \in ToSet(queue[q])
    BY <1>5 DEF Queued, Queues
  <2>2. PICK i \in DOMAIN queue[q] : queue[q][i] = m
    BY <2>1 DEF ToSet
  <2>3. \A r \in Queues : \A j : j \in DOMAIN queue[r] /\ queue[r][j] = m => r = q /\ j = i
    <3>1. \A r \in Queues : m \in ToSet(queue[r]) => r = q
      BY <1>0, <2>1 DEF Queues
    <3>2. \A r \in Queues : \A j : j \in DOMAIN queue[r] /\ queue[r][j] = m => m \in ToSet(queue[r])
      BY DEF ToSet
    <3>3. \A j \in DOMAIN queue[q] : queue[q][j] = m => j = i
      BY <1>0, <2>2 DEF StackInv, IsInjective
    <3> QED BY <3>1, <3>2, <3>3
  <2>4. \A j \in Busy : frames[j].msg # m
    BY <1>0, <1>5 DEF StackInv, Handled
  <2>5. \A p : p \in Places(m.n) <=> p = <<q, i>>
    BY <1>4, <2>2, <2>3, <2>4
  <2>6. Places(m.n) = {<<q, i>>}
    BY <2>5
  <2> QED BY <2>6
<1>6. CASE m \in Handled
  <2>1. PICK i \in Busy : frames[i].msg = m
    BY <1>6 DEF Handled
  <2>2. \A j \in Busy : frames[j].msg = m => j = i
    BY <1>0, <2>1 DEF StackInv
  <2>3. \A q \in Queues : \A j \in DOMAIN queue[q] : queue[q][j] # m
    BY <1>0, <1>6 DEF StackInv, Queued, Queues, ToSet
  <2>4. \A p : p \in Places(m.n) <=> p = i
    BY <1>4, <2>1, <2>2, <2>3
  <2> QED BY <2>4
<1> QED BY <1>5, <1>6 DEF Placed

(* SendMsg's waitEvent is set once its message has been handled or deleted *)
(* and not before, and no message that is waited for is lost, whatever     *)
(* loops its handling is nested in.                                        *)
THEOREM AnsweredOnce == Spec => []AnswerOrMessage
<1>1. ASSUME MInv, NEW s \in Senders, pc[s] \in {"pushed", "waiting"}
      PROVE  Cardinality(Places(message[s].n)) = (IF message[s].n \in answered THEN 0 ELSE 1)
  <2>0. /\ NumberInv /\ (message[s].n \in answered \/ message[s] \in Placed)
    BY <1>1 DEF MInv, SenderInv
  <2>1. CASE message[s].n \in answered
    <3>1. \A m \in Placed : m.n # message[s].n
      BY <2>0, <2>1 DEF NumberInv
    <3>2. \A p : p \notin Places(message[s].n)
      BY <3>1 DEF Places, InQueues, InHands, Placed, Queued, Queues, Handled, Busy, ToSet
    <3>3. Places(message[s].n) = {}
      BY <3>2
    <3> QED BY <2>1, <3>3, FS_EmptySet
  <2>2. CASE message[s].n \notin answered
    <3>1. PICK p : Places(message[s].n) = {p}
      BY <1>1, <2>0, <2>2, OnePlace
    <3>2. Cardinality({p}) = 1
      BY FS_Singleton
    <3> QED BY <2>2, <3>1, <3>2
  <2> QED BY <2>1, <2>2
<1>2. MInv => AnswerOrMessage
  BY <1>1 DEF AnswerOrMessage
<1> QED BY <1>2, MInvCorrect, PTL
=============================================================================

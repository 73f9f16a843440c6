------------------------- MODULE ActorProtocolProofs -------------------------
(***************************************************************************)
(* Proofs of ActorProtocol's safety properties and of its refinement, for  *)
(* every number of clients and messages.                                   *)
(***************************************************************************)
EXTENDS ActorProtocol, QueueLemmas

-----------------------------------------------------------------------------
(* The inductive invariant                                                 *)

Out == ToSet(outMessages)
In == ToSet(inMessages)

(* The engine's side has m: it will release it.                            *)
EngineHas(m) == m \in Out \/ mine[Engine] = m

(* The reply a thread has, or may still get: its second message.           *)
Second(t) == IF t \in Clients /\ Calling(t) THEN msg[mine[t]].replyMessage ELSE other[t]

(* What a thread holds where: a second message only in the way of a        *)
(* release or, the engine, on its way into the in queue.                   *)
PcInv ==
  /\ \A t \in Threads : pc[t] \in {"push", "wait", "late", "release", "return", "handle", "set"}
                          => mine[t] # NoMsg
  /\ \A t \in Threads : pc[t] \in {"idle", "asleep", "purgein", "purgeout"} => mine[t] = NoMsg
  /\ \A t \in Threads : mine[t] # NoMsg /\ pc[t] \in {"signal", "wait", "late", "set"}
                          => msg[mine[t]].isSync
  /\ \A c \in Clients : pc[c] \in {"idle", "push", "signal", "wait", "late", "release", "return"}
  /\ \A c \in Clients : other[c] # NoMsg => pc[c] \in {"release", "return"} /\ msg[mine[c]].isSync
  /\ pc[Engine] \notin {"push", "signal", "wait", "late"}
  /\ other[Engine] # NoMsg <=> pc[Engine] = "pushin"
  /\ pc[Engine] = "pushin" /\ mine[Engine] # NoMsg => ~msg[mine[Engine]].isSync

(* Nobody has, or may get, what another has, but for a synchronous message *)
(* that is its sender's and the engine's.                                  *)
OwnInv ==
  /\ IsInjective(freeMessageQueue) /\ IsInjective(outMessages) /\ IsInjective(inMessages)
  /\ Out \cap In = {}
  /\ Free \cap (Out \cup In) = {}
  /\ mine[Engine] \notin Out
  /\ \A t \in Threads : {mine[t], Second(t)} \cap (Free \cup In) = {}
  /\ \A t \in Threads : Second(t) \notin Out
  /\ \A t, u \in Threads : Second(t) = Second(u) /\ t # u => Second(t) = NoMsg
  /\ \A t, u \in Threads : mine[t] = Second(u) => mine[t] = NoMsg
  /\ \A c, d \in Clients : mine[c] = mine[d] /\ c # d => mine[c] = NoMsg
  /\ \A c \in Clients : EngineHas(mine[c]) => mine[c] = NoMsg \/ msg[mine[c]].isSync

(* Only messages that exist are anywhere; what is in the in queue or a     *)
(* second message was never synchronous.                                   *)
MadeInv ==
  /\ Free \cup Out \cup In \subseteq 1..made
  /\ \A t \in Threads : mine[t] \in 0..made /\ Second(t) \in 0..made
  /\ \A m \in In : ~msg[m].isSync
  /\ \A t \in Threads : Second(t) # NoMsg => ~msg[Second(t)].isSync

(* The life of a synchronous message: somebody sent it, who has it until   *)
(* released; ...                                                           *)
HasSender(m) == \E c \in Clients : mine[c] = m
InPush(m) == \E c \in Clients : mine[c] = m /\ pc[c] = "push"
Waits(m) == \E c \in Clients : mine[c] = m /\ pc[c] \in {"push", "signal", "wait", "late"}

(* ... until it is released once its sender has it and, when it was        *)
(* pushed, the engine's side; from then on one of them; ...                *)
FirstRelease(m) ==
  ~msg[m].isSyncFini => /\ HasSender(m) /\ (InPush(m) <=> ~EngineHas(m))
                        /\ \A t \in Threads : mine[t] = m => pc[t] # "return"

SecondRelease(m) ==
  msg[m].isSyncFini => /\ EngineHas(m) <=> ~HasSender(m)
                       /\ ~InPush(m)

(* ... the engine answers it when it is handled and not before, ...        *)
NotAnswered(m) ==
  m \in Out \/ (mine[Engine] = m /\ pc[Engine] = "handle") \/ InPush(m) =>
    msg[m].event = "unset" /\ msg[m].replyMessage = NoMsg

(* ... while its sender waits, who has expired or is given the answer.     *)
Outcome(m) ==
  /\ msg[m].isSyncTimeout => msg[m].replyMessage = NoMsg /\ ~Waits(m)
  /\ msg[m].isSyncTimeout \/ msg[m].replyMessage # NoMsg \/ Waits(m)
  /\ msg[m].event = "set" \/ (mine[Engine] = m /\ pc[Engine] = "set") =>
       msg[m].replyMessage # NoMsg \/ msg[m].isSyncTimeout
  /\ \A c \in Clients : mine[c] = m /\ pc[c] \in {"release", "return"} =>
       other[c] = msg[m].replyMessage

SyncOK(m) ==
  /\ msg[m].signal = "plain" /\ msg[m].event # "none"
  /\ FirstRelease(m) /\ SecondRelease(m) /\ NotAnswered(m) /\ Outcome(m)

SyncInv == \A m \in Messages : msg[m].isSync => SyncOK(m)

(* Whatever exists is somewhere.                                           *)
PlaceInv ==
  \A m \in 1..made : \/ m \in Free \cup Out \cup In \cup dropped
                     \/ \E t \in Threads : mine[t] = m \/ Second(t) = m

AInv == ATypeOK /\ PcInv /\ OwnInv /\ MadeInv /\ SyncInv /\ PlaceInv

-----------------------------------------------------------------------------
(* Types                                                                   *)

LEMMA TypeInit == Init => ATypeOK
<1> SUFFICES ASSUME Init PROVE ATypeOK
  OBVIOUS
<1>1. msg \in [Messages -> Fields]
  BY DEF Init, Cleared, Signals, Fields
<1>2. /\ outMessages \in Seq(Messages) /\ inMessages \in Seq(Messages)
      /\ freeMessageQueue \in Seq(Messages)
  BY DEF Init
<1>3. made \in 0..MaxMessages
  BY ThreadsAssumption DEF Init
<1>4. /\ pc \in [Threads -> Steps]
      /\ mine \in [Threads -> Messages \cup {NoMsg}]
      /\ other \in [Threads -> Messages \cup {NoMsg}]
  BY DEF Init, Steps
<1> QED BY <1>1, <1>2, <1>3, <1>4 DEF Init, ATypeOK

(* GetMessage's message was free or is new.                                *)
LEMMA GetMessageIs ==
  ASSUME ATypeOK, OwnInv, MadeInv, SyncInv, NEW m, GetMessage(m)
  PROVE  /\ m \in Messages /\ m \in 1..made' /\ m # NoMsg
         /\ made' \in 0..MaxMessages /\ made <= made' /\ 1..made' \subseteq 1..made \cup {m}
         /\ freeMessageQueue' \in Seq(Messages) /\ IsInjective(freeMessageQueue')
         /\ Free' = Free \ {m}
         /\ m \notin Out /\ m \notin In
         /\ \A t \in Threads : mine[t] # m /\ Second(t) # m
<1>0. MaxMessages \in Nat \ {0} /\ made \in 0..MaxMessages /\ Free \subseteq 1..made
  BY ThreadsAssumption DEF ATypeOK, MadeInv
<1>1. CASE freeMessageQueue # <<>>
  <2>1. /\ m = Head(freeMessageQueue) /\ freeMessageQueue' = Tail(freeMessageQueue)
        /\ made' = made
    BY <1>1 DEF GetMessage
  <2>2. freeMessageQueue \in Seq(Messages) /\ IsInjective(freeMessageQueue)
    BY DEF ATypeOK, OwnInv
  <2>3. /\ freeMessageQueue' \in Seq(Messages) /\ IsInjective(freeMessageQueue')
        /\ m \in Free /\ ToSet(freeMessageQueue') = Free \ {m}
    BY <1>1, <2>1, <2>2, TailElements DEF Free
  <2>4. m \notin Out /\ m \notin In /\ \A t \in Threads : mine[t] # m /\ Second(t) # m
    BY <2>3 DEF OwnInv
  <2> QED BY <1>0, <2>1, <2>3, <2>4 DEF Messages, NoMsg, Free
<1>2. CASE freeMessageQueue = <<>>
  <2>1. /\ made < MaxMessages /\ m = made + 1 /\ made' = m
        /\ freeMessageQueue' = freeMessageQueue
    BY <1>2 DEF GetMessage
  <2>2. m \notin Free /\ m \notin Out /\ m \notin In
        /\ \A t \in Threads : mine[t] # m /\ Second(t) # m
    BY <1>0, <2>1 DEF MadeInv
  <2>3. Free' = Free /\ Free = Free \ {m}
    BY <2>1, <2>2 DEF Free
  <2> QED BY <1>0, <2>1, <2>2, <2>3 DEF Messages, NoMsg, ATypeOK, OwnInv
<1> QED BY <1>1, <1>2

LEMMA TypeNext ==
  ASSUME AInv, [Next]_vars
  PROVE  ATypeOK'
<1>0. /\ outMessages \in Seq(Messages) /\ inMessages \in Seq(Messages)
      /\ freeMessageQueue \in Seq(Messages)
      /\ made \in 0..MaxMessages
      /\ msg \in [Messages -> Fields]
      /\ pc \in [Threads -> Steps]
      /\ mine \in [Threads -> Messages \cup {NoMsg}]
      /\ other \in [Threads -> Messages \cup {NoMsg}]
      /\ outEvent \in BOOLEAN
      /\ resume \in {"idle", "purgein", "purgeout"}
      /\ dropped \subseteq Messages
      /\ Engine \in Threads /\ Clients \subseteq Threads
  BY DEF AInv, ATypeOK, Threads
<1>a. /\ \A s \in Signals, b \in BOOLEAN : Cleared(s, b) \in Fields
      /\ "plain" \in Signals
      /\ [Cleared("plain", TRUE) EXCEPT !.isSync = TRUE, !.event = "unset"] \in Fields
  BY DEF Cleared, Signals, Fields
<1>b. ASSUME NEW m \in Messages
      PROVE  /\ [msg EXCEPT ![m].isSyncFini = TRUE] \in [Messages -> Fields]
             /\ \A b \in BOOLEAN : [msg EXCEPT ![m].isSyncTimeout = b] \in [Messages -> Fields]
             /\ \A e \in {"none", "unset", "set"} :
                  [msg EXCEPT ![m].event = e] \in [Messages -> Fields]
             /\ [msg EXCEPT ![m].event = IF @ = "none" THEN @ ELSE "set"] \in [Messages -> Fields]
  <2>1. msg[m] \in Fields
    BY <1>0
  <2>2. /\ [msg[m] EXCEPT !.isSyncFini = TRUE] \in Fields
        /\ \A b \in BOOLEAN : [msg[m] EXCEPT !.isSyncTimeout = b] \in Fields
        /\ \A e \in {"none", "unset", "set"} : [msg[m] EXCEPT !.event = e] \in Fields
        /\ [msg[m] EXCEPT !.event = IF @ = "none" THEN @ ELSE "set"] \in Fields
    BY <2>1 DEF Fields
  <2> QED BY <1>0, <2>2
<1>c. ASSUME NEW m, GetMessage(m)
      PROVE  /\ m \in Messages /\ made' \in 0..MaxMessages
             /\ freeMessageQueue' \in Seq(Messages)
  BY <1>c, GetMessageIs DEF AInv
<1>d. \A t \in Threads : mine[t] # NoMsg => mine[t] \in Messages /\ msg[mine[t]] \in Fields
  BY <1>0
<1>e. \A t \in Threads, step \in Steps : Goto(t, step) => pc' \in [Threads -> Steps]
  BY <1>0 DEF Goto
<1>f. \A t \in Threads : GoOn(t) => /\ pc' \in [Threads -> Steps]
                                    /\ mine' \in [Threads -> Messages \cup {NoMsg}]
                                    /\ other' \in [Threads -> Messages \cup {NoMsg}]
  BY <1>0 DEF GoOn, Goto, Steps
<1>g. \A s \in Seq(Messages), m \in Messages : Append(s, m) \in Seq(Messages)
  BY AppendProperties
<1>h. \A s \in Seq(Messages) : s # <<>> => Head(s) \in Messages /\ Tail(s) \in Seq(Messages)
  BY HeadTailProperties
<1>p. PcInv
  BY DEF AInv
<1>1. ASSUME NEW c \in Clients, NEW s \in Signals, SendOutMessage(c, s) PROVE ATypeOK'
  <2>1. mine' \in [Threads -> Messages \cup {NoMsg}] /\ pc' \in [Threads -> Steps]
    BY <1>0, <1>1 DEF SendOutMessage, Goto, Steps
  <2>2. msg' \in [Messages -> Fields] /\ made' \in 0..MaxMessages
        /\ freeMessageQueue' \in Seq(Messages)
    BY <1>0, <1>1, <1>a, <1>c DEF SendOutMessage
  <2> QED BY <1>0, <1>1, <2>1, <2>2 DEF SendOutMessage, ATypeOK, queues
<1>2. ASSUME NEW c \in Clients, SendOutMessageSync(c) PROVE ATypeOK'
  <2>1. mine' \in [Threads -> Messages \cup {NoMsg}] /\ pc' \in [Threads -> Steps]
    BY <1>0, <1>2 DEF SendOutMessageSync, Goto, Steps
  <2>2. msg' \in [Messages -> Fields] /\ made' \in 0..MaxMessages
        /\ freeMessageQueue' \in Seq(Messages)
    BY <1>0, <1>2, <1>a, <1>c DEF SendOutMessageSync
  <2> QED BY <1>0, <1>2, <2>1, <2>2 DEF SendOutMessageSync, ATypeOK, queues
<1>3. ASSUME NEW c \in Clients, Push(c) PROVE ATypeOK'
  <2>1. mine[c] \in Messages
    BY <1>0, <1>3, <1>p, <1>d DEF PcInv, Push
  <2>2. mine' \in [Threads -> Messages \cup {NoMsg}] /\ pc' \in [Threads -> Steps]
    BY <1>0, <1>3, <2>1 DEF Push, Goto, Steps
  <2> QED BY <1>0, <1>3, <1>g, <2>1, <2>2 DEF Push, ATypeOK, pool
<1>4. ASSUME NEW c \in Clients, SetOutEvent(c) PROVE ATypeOK'
  BY <1>0, <1>4, <1>e DEF SetOutEvent, ATypeOK, pool, queues, Steps
<1>5. ASSUME NEW c \in Clients, Answered(c) PROVE ATypeOK'
  <2>1. mine[c] \in Messages /\ msg[mine[c]] \in Fields
    BY <1>0, <1>5, <1>p, <1>d DEF PcInv, Answered
  <2>2. msg' \in [Messages -> Fields] /\ pc' \in [Threads -> Steps]
    BY <1>0, <1>5, <1>b, <1>e, <2>1 DEF Answered, Steps
  <2>3. other' \in [Threads -> Messages \cup {NoMsg}]
    BY <1>0, <1>5, <2>1 DEF Answered, Fields
  <2> QED BY <1>0, <1>5, <2>2, <2>3 DEF Answered, ATypeOK, pool, queues
<1>6. ASSUME NEW c \in Clients, TimeOut(c) PROVE ATypeOK'
  BY <1>0, <1>6, <1>e DEF TimeOut, ATypeOK, pool, queues, Steps
<1>7. ASSUME NEW c \in Clients, CheckReply(c) PROVE ATypeOK'
  <2>1. mine[c] \in Messages /\ msg[mine[c]] \in Fields
    BY <1>0, <1>7, <1>p, <1>d DEF PcInv, CheckReply
  <2>2. msg' \in [Messages -> Fields] /\ pc' \in [Threads -> Steps]
    BY <1>0, <1>7, <1>b, <1>e, <2>1 DEF CheckReply, Steps
  <2>3. other' \in [Threads -> Messages \cup {NoMsg}]
    BY <1>0, <1>7, <2>1 DEF CheckReply, Fields
  <2> QED BY <1>0, <1>7, <2>2, <2>3 DEF CheckReply, ATypeOK, pool, queues
<1>8. ASSUME NEW c \in Clients, ReceiveInMessage(c) PROVE ATypeOK'
  <2>1. mine' \in [Threads -> Messages \cup {NoMsg}] /\ pc' \in [Threads -> Steps]
    BY <1>0, <1>8, <1>e, <1>h DEF ReceiveInMessage, Steps
  <2> QED BY <1>0, <1>8, <1>h, <2>1 DEF ReceiveInMessage, ATypeOK, pool
<1>9. ASSUME NEW t \in Threads, Release(t) PROVE ATypeOK'
  <2>1. mine[t] \in Messages
    BY <1>0, <1>9, <1>p, <1>d DEF PcInv, Release
  <2>2. msg' \in [Messages -> Fields]
    BY <1>9, <1>b, <2>1 DEF Release
  <2>3. /\ pc' \in [Threads -> Steps]
        /\ mine' \in [Threads -> Messages \cup {NoMsg}]
        /\ other' \in [Threads -> Messages \cup {NoMsg}]
    BY <1>0, <1>9, <1>e, <1>f DEF Release, Steps
  <2> QED BY <1>0, <1>9, <2>2, <2>3 DEF Release, ATypeOK, pool, queues
<1>10. ASSUME NEW t \in Threads, ReturnMessage(t) PROVE ATypeOK'
  <2>1. mine[t] \in Messages
    BY <1>0, <1>10, <1>p, <1>d DEF PcInv, ReturnMessage
  <2>2. msg' \in [Messages -> Fields] /\ freeMessageQueue' \in Seq(Messages)
    BY <1>0, <1>10, <1>a, <1>b, <1>g, <2>1 DEF ReturnMessage
  <2>3. /\ pc' \in [Threads -> Steps]
        /\ mine' \in [Threads -> Messages \cup {NoMsg}]
        /\ other' \in [Threads -> Messages \cup {NoMsg}]
    BY <1>10, <1>f DEF ReturnMessage
  <2> QED BY <1>0, <1>10, <2>2, <2>3 DEF ReturnMessage, ATypeOK, queues
<1>11. ASSUME ReceiveOutMessage PROVE ATypeOK'
  <2>1. mine' \in [Threads -> Messages \cup {NoMsg}] /\ pc' \in [Threads -> Steps]
    BY <1>0, <1>11, <1>e, <1>h DEF ReceiveOutMessage, Steps
  <2> QED BY <1>0, <1>11, <1>h, <2>1 DEF ReceiveOutMessage, ATypeOK, pool
<1>12. ASSUME FindNone \/ Wake \/ NoReply \/ Purge \/ PurgeDone PROVE ATypeOK'
  <2>1. pc' \in [Threads -> Steps] /\ resume' \in {"idle", "purgein", "purgeout"}
    BY <1>0, <1>12, <1>e DEF FindNone, Wake, NoReply, Purge, PurgeDone, Steps
  <2> QED BY <1>0, <1>12, <2>1
          DEF FindNone, Wake, NoReply, Purge, PurgeDone, ATypeOK, pool, queues
<1>13. ASSUME ReplySync PROVE ATypeOK'
  <2>1. mine[Engine] \in Messages
    BY <1>0, <1>13, <1>p, <1>d DEF PcInv, ReplySync
  <2>2. /\ msg' \in [Messages -> Fields] /\ made' \in 0..MaxMessages
        /\ freeMessageQueue' \in Seq(Messages)
    <3>1. CASE UNCHANGED <<pool, msg>>
      BY <1>0, <3>1 DEF pool
    <3>2. ASSUME NEW r \in Messages, GetMessage(r),
                 msg' = [msg EXCEPT ![r] = Cleared("plain", FALSE), ![mine[Engine]].replyMessage = r]
          PROVE  msg' \in [Messages -> Fields]
      <4> DEFINE M == [msg EXCEPT ![r] = Cleared("plain", FALSE)]
      <4>1. M \in [Messages -> Fields]
        BY <1>0, <1>a
      <4>2. msg' = [M EXCEPT ![mine[Engine]].replyMessage = r]
        BY <3>2
      <4> HIDE DEF M
      <4>3. [M[mine[Engine]] EXCEPT !.replyMessage = r] \in Fields
        BY <2>1, <4>1 DEF Fields
      <4> QED BY <2>1, <4>1, <4>2, <4>3
    <3> QED BY <1>13, <1>c, <3>1, <3>2 DEF ReplySync
  <2>3. pc' \in [Threads -> Steps]
    BY <1>0, <1>13, <1>e DEF ReplySync, Steps
  <2> QED BY <1>0, <1>13, <2>2, <2>3 DEF ReplySync, ATypeOK, queues
<1>14. ASSUME SetEvent PROVE ATypeOK'
  <2>1. mine[Engine] \in Messages
    BY <1>0, <1>14, <1>p, <1>d DEF PcInv, SetEvent
  <2>2. msg' \in [Messages -> Fields] /\ pc' \in [Threads -> Steps]
    BY <1>0, <1>14, <1>b, <1>e, <2>1 DEF SetEvent, Steps
  <2> QED BY <1>0, <1>14, <2>2 DEF SetEvent, ATypeOK, pool, queues
<1>15. ASSUME SendInMessage PROVE ATypeOK'
  <2>1. other' \in [Threads -> Messages \cup {NoMsg}] /\ pc' \in [Threads -> Steps]
    BY <1>0, <1>15, <1>e DEF SendInMessage, Steps
  <2>2. /\ msg' \in [Messages -> Fields] /\ made' \in 0..MaxMessages
        /\ freeMessageQueue' \in Seq(Messages)
    <3>1. PICK r \in Messages : /\ GetMessage(r)
                               /\ msg' = [msg EXCEPT ![r] = Cleared("plain", FALSE)]
      BY <1>15 DEF SendInMessage
    <3>2. Cleared("plain", FALSE) \in Fields
      BY <1>a
    <3>3. msg' \in [Messages -> Fields]
      BY <1>0, <3>1, <3>2
    <3> QED BY <1>c, <3>1, <3>3
  <2> QED BY <1>0, <1>15, <2>1, <2>2 DEF SendInMessage, ATypeOK, queues
<1>16. ASSUME PushIn PROVE ATypeOK'
  <2>1. other[Engine] \in Messages
    BY <1>0, <1>16, <1>p DEF PcInv, PushIn
  <2>2. other' \in [Threads -> Messages \cup {NoMsg}] /\ pc' \in [Threads -> Steps]
    BY <1>0, <1>16, <1>e DEF PushIn, Steps
  <2> QED BY <1>0, <1>16, <1>g, <2>1, <2>2 DEF PushIn, ATypeOK, pool
<1>17. ASSUME PurgeNext PROVE ATypeOK'
  <2>1. /\ mine' \in [Threads -> Messages \cup {NoMsg}] /\ pc' \in [Threads -> Steps]
        /\ inMessages' \in Seq(Messages) /\ outMessages' \in Seq(Messages)
    BY <1>0, <1>17, <1>e, <1>h DEF PurgeNext, Steps
  <2> QED BY <1>0, <1>17, <2>1 DEF PurgeNext, ATypeOK, pool
<1>18. ASSUME NEW s, PurgeOut(s) PROVE ATypeOK'
  <2>1. outMessages' \in Seq(Messages) /\ ToSet(outMessages) \subseteq Messages
    BY <1>0, <1>18, KeptElements DEF PurgeOut, ToSet
  <2>2. dropped' \subseteq Messages
    BY <1>0, <1>18, <2>1 DEF PurgeOut
  <2> QED BY <1>0, <1>18, <2>1, <2>2 DEF PurgeOut, ATypeOK, pool, threads
<1>19. CASE UNCHANGED vars
  BY <1>0, <1>19 DEF vars, queues, pool, threads, ATypeOK
<1> QED
  BY <1>0, <1>1, <1>2, <1>3, <1>4, <1>5, <1>6, <1>7, <1>8, <1>9, <1>10, <1>11, <1>12, <1>13,
     <1>14, <1>15, <1>16, <1>17, <1>18, <1>19
  DEF Next, ClientCalls, ClientStep, EngineStep, EngineMay, Handle

-----------------------------------------------------------------------------
(* Steps that only move a thread on                                        *)

LEMMA ThreadsAre ==
  /\ Engine \in Threads /\ Clients \subseteq Threads /\ Engine \notin Clients
  /\ Threads \ Clients = {Engine}
BY ThreadsAssumption DEF Threads

(* The steps of a thread that change nothing but where it is.              *)
Moves(t) ==
  \/ t \in Clients /\ pc[t] = "signal" /\ pc'[t] = (IF mine[t] = NoMsg THEN "idle" ELSE "wait")
  \/ t \in Clients /\ pc[t] = "wait" /\ pc'[t] = "late"
  \/ t = Engine /\ pc[t] = "handle" /\ pc'[t] = "release"
  \/ t = Engine /\ /\ pc[t] \in {"idle", "asleep", "purgein", "purgeout"}
                   /\ pc'[t] \in {"idle", "asleep", "purgein", "purgeout"}

LEMMA MoveStep ==
  ASSUME AInv, NEW t \in Threads, Moves(t), \A u \in Threads \ {t} : pc'[u] = pc[u],
         UNCHANGED <<queues, pool, msg, mine, other, dropped>>
  PROVE  PcInv' /\ OwnInv' /\ MadeInv' /\ SyncInv' /\ PlaceInv'
<1>0. /\ ATypeOK /\ PcInv /\ OwnInv /\ MadeInv /\ SyncInv /\ PlaceInv
      /\ Engine \in Threads /\ Clients \subseteq Threads /\ Engine \notin Clients
      /\ \A u \in Threads : u \in Clients \/ u = Engine
  BY ThreadsAre DEF AInv
<1>1. UNCHANGED <<outMessages, inMessages, freeMessageQueue, made, msg, mine, other, dropped>>
  BY DEF queues, pool
<1>2. Out' = Out /\ In' = In /\ Free' = Free /\ \A m : EngineHas(m)' <=> EngineHas(m)
  BY <1>1 DEF Out, In, Free, EngineHas
<1>3. \A u \in Threads : Second(u)' = Second(u)
  BY <1>0, <1>1 DEF Second, Calling, Moves
<1>4. PcInv'
  BY <1>0, <1>1 DEF PcInv, Moves
<1>5. OwnInv'
  BY <1>0, <1>1, <1>2, <1>3 DEF OwnInv
<1>6. MadeInv'
  BY <1>0, <1>1, <1>2, <1>3 DEF MadeInv
<1>7. SyncInv'
  <2>0. /\ \A u \in Threads : pc'[u] = "return" <=> pc[u] = "return"
        /\ \A c \in Clients :
             /\ pc'[c] = "push" <=> pc[c] = "push"
             /\ mine[c] # NoMsg => /\ pc'[c] \in {"push", "signal", "wait", "late"}
                                       <=> pc[c] \in {"push", "signal", "wait", "late"}
                                   /\ pc'[c] \in {"release", "return"}
                                       <=> pc[c] \in {"release", "return"}
        /\ pc'[Engine] = "handle" => pc[Engine] = "handle"
        /\ pc'[Engine] = "set" <=> pc[Engine] = "set"
    BY <1>0 DEF Moves
  <2> SUFFICES ASSUME NEW m \in Messages, msg[m].isSync, SyncOK(m) PROVE SyncOK(m)'
    BY <1>0, <1>1 DEF SyncInv
  <2>1. m # NoMsg
    BY DEF Messages, NoMsg
  <2>2. HasSender(m)' <=> HasSender(m)
    BY <1>1 DEF HasSender
  <2>3. InPush(m)' <=> InPush(m)
    BY <1>1, <2>0 DEF InPush
  <2>4. Waits(m)' <=> Waits(m)
    BY <1>1, <2>0, <2>1 DEF Waits
  <2>5. FirstRelease(m)' /\ SecondRelease(m)'
    BY <1>1, <1>2, <2>0, <2>2, <2>3 DEF SyncOK, FirstRelease, SecondRelease
  <2>6. NotAnswered(m)'
    BY <1>1, <1>2, <2>0, <2>3 DEF SyncOK, NotAnswered
  <2>7. Outcome(m)'
    BY <1>0, <1>1, <2>0, <2>1, <2>4 DEF SyncOK, Outcome
  <2> QED BY <1>1, <2>5, <2>6, <2>7 DEF SyncOK
<1>8. PlaceInv'
  BY <1>1, <1>2, <1>3, <1>0 DEF PlaceInv
<1> QED BY <1>4, <1>5, <1>6, <1>7, <1>8

-----------------------------------------------------------------------------
(* Steps of the clients                                                    *)

LEMMA Parts ==
  ASSUME AInv
  PROVE  /\ ATypeOK /\ PcInv /\ OwnInv /\ MadeInv /\ SyncInv /\ PlaceInv
         /\ Engine \in Threads /\ Clients \subseteq Threads /\ Engine \notin Clients
         /\ \A u \in Threads : u \in Clients \/ u = Engine
         /\ \A u \in Threads : mine[u] # NoMsg => mine[u] \in Messages
         /\ \A u \in Threads : Second(u) # NoMsg => Second(u) \in Messages
         /\ NoMsg \notin Messages
         /\ Free \subseteq Messages /\ Out \subseteq Messages /\ In \subseteq Messages
<1>1. MaxMessages \in Nat /\ made \in 0..MaxMessages /\ NoMsg \notin Messages
  BY ThreadsAssumption DEF AInv, ATypeOK, Messages, NoMsg
<1>2. 1..made \subseteq Messages
  BY <1>1 DEF Messages
<1>3. \A u \in Threads : Second(u) # NoMsg => Second(u) \in 1..made
  BY <1>1 DEF AInv, MadeInv, NoMsg
<1>4. Free \subseteq Messages /\ Out \subseteq Messages /\ In \subseteq Messages
  BY <1>2 DEF AInv, MadeInv
<1> QED BY <1>1, <1>2, <1>3, <1>4, ThreadsAre DEF AInv, ATypeOK

(* A step does not disturb a synchronous message it has nothing to do with. *)
LEMMA SyncFrame ==
  ASSUME AInv, NEW m \in Messages, SyncOK(m),
         msg'[m] = msg[m], m \in Out' <=> m \in Out,
         \A t \in Threads : /\ mine'[t] = m <=> mine[t] = m
                            /\ mine[t] = m => pc'[t] = pc[t] /\ other'[t] = other[t]
  PROVE  SyncOK(m)'
<1>0. Engine \in Threads /\ Clients \subseteq Threads
  BY ThreadsAre
<1>1. EngineHas(m)' <=> EngineHas(m)
  BY <1>0 DEF EngineHas
<1>2. /\ HasSender(m)' <=> HasSender(m)
      /\ InPush(m)' <=> InPush(m)
      /\ Waits(m)' <=> Waits(m)
  BY <1>0 DEF HasSender, InPush, Waits
<1>3. FirstRelease(m)' /\ SecondRelease(m)'
  BY <1>1, <1>2 DEF SyncOK, FirstRelease, SecondRelease
<1>4. NotAnswered(m)'
  BY <1>0, <1>2 DEF SyncOK, NotAnswered
<1>5. Outcome(m)'
  BY <1>0, <1>2 DEF SyncOK, Outcome
<1> QED BY <1>3, <1>4, <1>5 DEF SyncOK

(* SendOutMessage and SendOutMessageSync, which fill the message with f.   *)
LEMMA SendStep ==
  ASSUME AInv, ATypeOK', NEW c \in Clients, pc[c] = "idle", NEW m \in Messages, GetMessage(m),
         NEW f \in Fields, ~f.isSyncFini, ~f.isSyncTimeout, f.replyMessage = NoMsg,
         f.isSync => f.event = "unset" /\ f.signal = "plain",
         msg' = [msg EXCEPT ![m] = f], mine' = [mine EXCEPT ![c] = m], Goto(c, "push"),
         UNCHANGED <<outMessages, inMessages, other, dropped>>
  PROVE  PcInv' /\ OwnInv' /\ MadeInv' /\ SyncInv' /\ PlaceInv'
<1>0. /\ ATypeOK /\ PcInv /\ OwnInv /\ MadeInv /\ SyncInv /\ PlaceInv
      /\ Engine \in Threads /\ Clients \subseteq Threads /\ Engine \notin Clients
      /\ \A u \in Threads : u \in Clients \/ u = Engine
      /\ \A u \in Threads : mine[u] # NoMsg => mine[u] \in Messages
      /\ \A u \in Threads : Second(u) # NoMsg => Second(u) \in Messages
      /\ NoMsg \notin Free /\ NoMsg \notin In /\ NoMsg \notin Out /\ In \subseteq Messages
  BY Parts
<1>1. /\ m \in 1..made' /\ m # NoMsg
      /\ made' \in 0..MaxMessages /\ made <= made' /\ 1..made' \subseteq 1..made \cup {m}
      /\ IsInjective(freeMessageQueue')
      /\ Free' = Free \ {m} /\ m \notin Out /\ m \notin In
      /\ \A t \in Threads : mine[t] # m /\ Second(t) # m
  BY <1>0, GetMessageIs
<1>2. mine[c] = NoMsg /\ other[c] = NoMsg
  BY <1>0 DEF PcInv
<1>3. /\ mine'[c] = m /\ \A u \in Threads \ {c} : mine'[u] = mine[u]
      /\ pc'[c] = "push" /\ \A u \in Threads \ {c} : pc'[u] = pc[u]
      /\ other' = other
      /\ msg'[m] = f /\ \A x \in Messages \ {m} : msg'[x] = msg[x]
  BY <1>0 DEF ATypeOK, Goto
<1>4. Out' = Out /\ In' = In /\ \A x : EngineHas(x)' <=> EngineHas(x)
  BY <1>0, <1>3 DEF Out, In, EngineHas
<1>5. Second(c)' = NoMsg /\ \A u \in Threads \ {c} : Second(u)' = Second(u)
  <2>1. Second(c)' = NoMsg
    BY <1>0, <1>2, <1>3 DEF Second, Calling
  <2>2. ASSUME NEW u \in Threads \ {c} PROVE Second(u)' = Second(u)
    <3>1. mine[u] # NoMsg => msg'[mine[u]] = msg[mine[u]]
      BY <1>0, <1>1, <1>3
    <3> QED BY <1>3, <3>1 DEF Second, Calling
  <2> QED BY <2>1, <2>2
<1>6. PcInv'
  <2>1. \A u \in Threads \ {c} : mine[u] # NoMsg => msg'[mine[u]] = msg[mine[u]]
    BY <1>0, <1>1, <1>3
  <2> QED BY <1>0, <1>1, <1>2, <1>3, <2>1 DEF PcInv
<1>7. OwnInv'
  <2>1. \A u \in Threads \ {c} : mine[u] # NoMsg => msg'[mine[u]] = msg[mine[u]]
    BY <1>0, <1>1, <1>3
  <2>2. \A t, u \in Threads : Second(t)' = Second(u)' /\ t # u => Second(t)' = NoMsg
    BY <1>0, <1>5 DEF OwnInv
  <2>3. \A t, u \in Threads : mine'[t] = Second(u)' => mine'[t] = NoMsg
    BY <1>0, <1>1, <1>3, <1>5 DEF OwnInv
  <2>4. \A d, e \in Clients : mine'[d] = mine'[e] /\ d # e => mine'[d] = NoMsg
    BY <1>0, <1>1, <1>3 DEF OwnInv
  <2>5. \A d \in Clients : EngineHas(mine[d])' => mine'[d] = NoMsg \/ msg'[mine'[d]].isSync
    BY <1>0, <1>1, <1>3, <1>4, <2>1 DEF OwnInv, EngineHas
  <2>6. \A t \in Threads : /\ {mine'[t], Second(t)'} \cap (Free' \cup In') = {}
                           /\ Second(t)' \notin Out'
    BY <1>0, <1>1, <1>3, <1>4, <1>5 DEF OwnInv
  <2> QED BY <1>0, <1>1, <1>3, <1>4, <2>2, <2>3, <2>4, <2>5, <2>6 DEF OwnInv
<1>8. MadeInv'
  <2>1. 0..made \subseteq 0..made' /\ 1..made \subseteq 1..made' /\ NoMsg \in 0..made'
    BY <1>0, <1>1 DEF ATypeOK, NoMsg
  <2>2. Free' \cup Out' \cup In' \subseteq 1..made'
    BY <1>0, <1>1, <1>4, <2>1 DEF MadeInv
  <2>3. \A t \in Threads : mine'[t] \in 0..made' /\ Second(t)' \in 0..made'
    BY <1>0, <1>1, <1>3, <1>5, <2>1 DEF MadeInv
  <2>4. \A x \in In' : ~msg'[x].isSync
    BY <1>0, <1>1, <1>3, <1>4 DEF MadeInv
  <2>5. \A t \in Threads : Second(t)' # NoMsg => ~msg'[Second(t)'].isSync
    BY <1>0, <1>1, <1>3, <1>5 DEF MadeInv
  <2> QED BY <2>2, <2>3, <2>4, <2>5 DEF MadeInv
<1>9. SyncInv'
  <2> SUFFICES ASSUME NEW x \in Messages, msg'[x].isSync PROVE SyncOK(x)'
    BY DEF SyncInv
  <2>1. CASE x # m
    <3>1. msg'[x] = msg[x] /\ SyncOK(x)
      BY <1>0, <1>3, <2>1 DEF SyncInv
    <3>2. \A t \in Threads : /\ mine'[t] = x <=> mine[t] = x
                             /\ mine[t] = x => pc'[t] = pc[t] /\ other'[t] = other[t]
      BY <1>0, <1>2, <1>3, <2>1, Parts
    <3> QED BY <1>4, <3>1, <3>2, SyncFrame
  <2>2. CASE x = m
    <3>1. /\ ~EngineHas(m)' /\ HasSender(m)' /\ InPush(m)' /\ Waits(m)'
          /\ \A t \in Threads : mine'[t] = m => t = c
      BY <1>0, <1>1, <1>3, <1>4 DEF EngineHas, HasSender, InPush, Waits
    <3>2. FirstRelease(m)' /\ SecondRelease(m)' /\ NotAnswered(m)'
      BY <1>0, <1>3, <2>2, <3>1 DEF FirstRelease, SecondRelease, NotAnswered
    <3>3. Outcome(m)'
      BY <1>0, <1>1, <1>3, <2>2, <3>1 DEF Outcome
    <3> QED BY <1>3, <2>2, <3>2, <3>3 DEF SyncOK
  <2> QED BY <2>1, <2>2
<1>10. PlaceInv'
  <2> SUFFICES ASSUME NEW x \in 1..made', x # m, x \notin Free' \cup Out' \cup In' \cup dropped'
               PROVE  \E t \in Threads : mine'[t] = x \/ Second(t)' = x
    BY <1>0, <1>3 DEF PlaceInv
  <2>1. PICK t \in Threads : mine[t] = x \/ Second(t) = x
    BY <1>0, <1>1, <1>4 DEF PlaceInv
  <2>2. x # NoMsg
    BY <1>1 DEF NoMsg
  <2>3. t # c
    BY <1>2, <2>1, <2>2 DEF Second, Calling
  <2> QED BY <1>3, <1>5, <2>1, <2>3
<1> QED BY <1>6, <1>7, <1>8, <1>9, <1>10

(* The push; only a synchronous message stays with its sender.             *)
LEMMA PushStep ==
  ASSUME AInv, ATypeOK', NEW c \in Clients, Push(c)
  PROVE  PcInv' /\ OwnInv' /\ MadeInv' /\ SyncInv' /\ PlaceInv'
<1>m. PICK m : m = mine[c]
  OBVIOUS
<1>0. /\ ATypeOK /\ PcInv /\ OwnInv /\ MadeInv /\ SyncInv /\ PlaceInv
      /\ Engine \in Threads /\ Clients \subseteq Threads /\ Engine \notin Clients
      /\ \A u \in Threads : u \in Clients \/ u = Engine
      /\ NoMsg \notin Free /\ NoMsg \notin In /\ NoMsg \notin Out
  BY Parts
<1>1. m \in Messages /\ m # NoMsg /\ other[c] = NoMsg /\ pc[c] = "push"
  BY <1>m, <1>0, Parts DEF PcInv, Push
<1>2. /\ mine'[c] = (IF msg[m].isSync THEN m ELSE NoMsg)
      /\ \A u \in Threads \ {c} : mine'[u] = mine[u]
      /\ pc'[c] = "signal" /\ \A u \in Threads \ {c} : pc'[u] = pc[u]
      /\ UNCHANGED <<other, msg, made, inMessages, freeMessageQueue, dropped>>
  BY <1>m, <1>0 DEF ATypeOK, Goto, Push, pool
<1>3. m \notin Out /\ m \notin In /\ m \notin Free /\ ~EngineHas(m)
  <2>1. CASE msg[m].isSync
    <3>1. InPush(m)
      BY <1>m, <1>1 DEF InPush
    <3>2. ~EngineHas(m)
      BY <1>0, <1>1, <2>1, <3>1 DEF SyncInv, SyncOK, FirstRelease, SecondRelease
    <3> QED BY <1>m, <1>0, <1>1, <3>2 DEF OwnInv, EngineHas
  <2>2. CASE ~msg[m].isSync
    BY <1>m, <1>0, <1>1, <2>2 DEF OwnInv, EngineHas
  <2> QED BY <2>1, <2>2
<1>4. Out' = Out \cup {m} /\ IsInjective(outMessages') /\ In' = In /\ Free' = Free
  BY <1>m, <1>0, <1>1, <1>2, <1>3, AppendElements DEF Out, In, Free, Push, ATypeOK, OwnInv
<1>5. \A u \in Threads : Second(u)' = Second(u)
  <2>1. Second(c)' = Second(c)
    BY <1>m, <1>0, <1>1, <1>2 DEF Second, Calling
  <2>2. \A u \in Threads \ {c} : Second(u)' = Second(u)
    BY <1>2 DEF Second, Calling
  <2> QED BY <2>1, <2>2
<1>6. PcInv'
  BY <1>0, <1>1, <1>2 DEF PcInv
<1>7. OwnInv'
  <2>1. mine'[Engine] \notin Out'
    BY <1>0, <1>2, <1>3, <1>4 DEF OwnInv, EngineHas
  <2>2. \A t \in Threads : {mine'[t], Second(t)'} \cap (Free' \cup In') = {}
    BY <1>0, <1>1, <1>2, <1>3, <1>4, <1>5 DEF OwnInv
  <2>3. \A t \in Threads : Second(t)' \notin Out'
    BY <1>m, <1>0, <1>1, <1>4, <1>5 DEF OwnInv
  <2>4. \A t, u \in Threads : Second(t)' = Second(u)' /\ t # u => Second(t)' = NoMsg
    BY <1>0, <1>5 DEF OwnInv
  <2>5. \A t, u \in Threads : mine'[t] = Second(u)' => mine'[t] = NoMsg
    BY <1>m, <1>0, <1>2, <1>5 DEF OwnInv
  <2>6. \A d, e \in Clients : mine'[d] = mine'[e] /\ d # e => mine'[d] = NoMsg
    BY <1>m, <1>0, <1>2 DEF OwnInv
  <2>7. \A d \in Clients : EngineHas(mine[d])' => mine'[d] = NoMsg \/ msg'[mine'[d]].isSync
    BY <1>m, <1>0, <1>1, <1>2, <1>4 DEF OwnInv, EngineHas
  <2> QED BY <1>0, <1>2, <1>3, <1>4, <2>1, <2>2, <2>3, <2>4, <2>5, <2>6, <2>7 DEF OwnInv
<1>8. MadeInv'
  <2>1. m \in 1..made /\ NoMsg \in 0..made
    BY <1>m, <1>0, <1>1 DEF MadeInv, ATypeOK, NoMsg
  <2> QED BY <1>m, <1>0, <1>2, <1>4, <1>5, <2>1 DEF MadeInv
<1>9. SyncInv'
  <2> SUFFICES ASSUME NEW x \in Messages, msg'[x].isSync PROVE SyncOK(x)'
    BY DEF SyncInv
  <2>0. msg[x].isSync /\ SyncOK(x)
    BY <1>0, <1>2 DEF SyncInv
  <2>1. CASE x # m
    <3>1. \A t \in Threads : /\ mine'[t] = x <=> mine[t] = x
                             /\ mine[t] = x => pc'[t] = pc[t] /\ other'[t] = other[t]
      BY <1>m, <1>0, <1>2, <2>1, Parts
    <3> QED BY <1>2, <1>4, <2>0, <2>1, <3>1, SyncFrame
  <2>2. CASE x = m
    <3>0. ~msg[m].isSyncFini
      BY <1>m, <1>1, <2>0, <2>2 DEF SyncOK, SecondRelease, InPush
    <3>1. /\ EngineHas(m)' /\ HasSender(m)' /\ ~InPush(m)' /\ Waits(m)' /\ mine'[Engine] # m
          /\ \A t \in Threads : mine'[t] = m <=> t = c
      BY <1>m, <1>0, <1>1, <1>2, <1>3, <1>4, <2>0, <2>2
      DEF EngineHas, HasSender, InPush, Waits, OwnInv
    <3>2. FirstRelease(m)' /\ SecondRelease(m)'
      BY <1>0, <1>2, <3>0, <3>1 DEF FirstRelease, SecondRelease
    <3>3. InPush(m) /\ Waits(m)
      BY <1>m, <1>1 DEF InPush, Waits
    <3>4. NotAnswered(m)' /\ Outcome(m)'
      BY <1>0, <1>2, <2>0, <2>2, <3>1, <3>3 DEF SyncOK, NotAnswered, Outcome
    <3> QED BY <1>2, <2>0, <2>2, <3>2, <3>4 DEF SyncOK
  <2> QED BY <2>1, <2>2
<1>10. PlaceInv'
  BY <1>m, <1>0, <1>2, <1>4, <1>5 DEF PlaceInv
<1> QED BY <1>6, <1>7, <1>8, <1>9, <1>10

(* The end of a wait: with the answer, or without when it expired.         *)
LEMMA TakeStep ==
  ASSUME AInv, ATypeOK', NEW c \in Clients, Answered(c) \/ CheckReply(c)
  PROVE  PcInv' /\ OwnInv' /\ MadeInv' /\ SyncInv' /\ PlaceInv'
<1>m. PICK m : m = mine[c]
  OBVIOUS
<1>0. /\ ATypeOK /\ PcInv /\ OwnInv /\ MadeInv /\ SyncInv /\ PlaceInv
      /\ Engine \in Threads /\ Clients \subseteq Threads /\ Engine \notin Clients
      /\ \A u \in Threads : u \in Clients \/ u = Engine
  BY Parts
<1>1. /\ m \in Messages /\ m # NoMsg /\ msg[m].isSync /\ other[c] = NoMsg
      /\ pc[c] \in {"wait", "late"} /\ Calling(c)
  BY <1>m, <1>0, Parts DEF PcInv, Answered, CheckReply, Calling
<1>2. /\ pc'[c] = "release" /\ \A u \in Threads \ {c} : pc'[u] = pc[u]
      /\ other'[c] = msg[m].replyMessage /\ \A u \in Threads \ {c} : other'[u] = other[u]
      /\ UNCHANGED <<mine, made, outMessages, inMessages, freeMessageQueue, dropped>>
  BY <1>m, <1>0 DEF ATypeOK, Goto, Answered, CheckReply, pool, queues
<1>3. /\ \A x \in Messages \ {m} : msg'[x] = msg[x]
      /\ \A x \in Messages : /\ msg'[x].isSync = msg[x].isSync
                             /\ msg'[x].isSyncFini = msg[x].isSyncFini
                             /\ msg'[x].replyMessage = msg[x].replyMessage
                             /\ msg'[x].signal = msg[x].signal
      /\ \/ /\ msg[m].event = "set" /\ msg'[m].event = "unset"
            /\ msg'[m].isSyncTimeout = msg[m].isSyncTimeout
         \/ /\ msg'[m].event = msg[m].event
            /\ msg'[m].isSyncTimeout = (msg[m].replyMessage = NoMsg)
  <2>1. msg \in [Messages -> Fields] /\ msg[m] \in Fields
    BY <1>0, <1>1 DEF ATypeOK
  <2>2. CASE Answered(c)
    <3>1. msg[m].event = "set" /\ msg' = [msg EXCEPT ![m].event = "unset"]
      BY <1>m, <2>2 DEF Answered
    <3>2. msg'[m] = [msg[m] EXCEPT !.event = "unset"] /\ \A x \in Messages \ {m} : msg'[x] = msg[x]
      BY <1>1, <2>1, <3>1
    <3>3. /\ msg'[m].event = "unset" /\ msg'[m].isSyncTimeout = msg[m].isSyncTimeout
          /\ msg'[m].isSync = msg[m].isSync /\ msg'[m].isSyncFini = msg[m].isSyncFini
          /\ msg'[m].replyMessage = msg[m].replyMessage /\ msg'[m].signal = msg[m].signal
      BY <2>1, <3>2 DEF Fields
    <3> QED BY <3>1, <3>2, <3>3
  <2>3. CASE CheckReply(c)
    <3>1. msg' = [msg EXCEPT ![m].isSyncTimeout = (msg[m].replyMessage = NoMsg)]
      BY <1>m, <2>3 DEF CheckReply
    <3>2. /\ msg'[m] = [msg[m] EXCEPT !.isSyncTimeout = (msg[m].replyMessage = NoMsg)]
          /\ \A x \in Messages \ {m} : msg'[x] = msg[x]
      BY <1>1, <2>1, <3>1
    <3>3. /\ msg'[m].event = msg[m].event
          /\ msg'[m].isSyncTimeout = (msg[m].replyMessage = NoMsg)
          /\ msg'[m].isSync = msg[m].isSync /\ msg'[m].isSyncFini = msg[m].isSyncFini
          /\ msg'[m].replyMessage = msg[m].replyMessage /\ msg'[m].signal = msg[m].signal
      BY <2>1, <3>2 DEF Fields
    <3> QED BY <3>2, <3>3
  <2> QED BY <2>2, <2>3
<1>4. Out' = Out /\ In' = In /\ Free' = Free /\ \A x : EngineHas(x)' <=> EngineHas(x)
  BY <1>2 DEF Out, In, Free, EngineHas
<1>5. \A u \in Threads : Second(u)' = Second(u)
  <2>1. Second(c)' = Second(c)
    BY <1>m, <1>1, <1>2 DEF Second, Calling
  <2>2. \A u \in Threads \ {c} : mine[u] # NoMsg => mine[u] \in Messages
    BY Parts
  <2>3. \A u \in Threads \ {c} : Second(u)' = Second(u)
    BY <1>2, <1>3, <2>2 DEF Second, Calling
  <2> QED BY <2>1, <2>3
<1>6. PcInv'
  <2>1. \A u \in Threads : mine[u] # NoMsg => msg'[mine[u]].isSync = msg[mine[u]].isSync
    BY <1>3, Parts
  <2> QED BY <1>m, <1>0, <1>1, <1>2, <2>1 DEF PcInv
<1>7. OwnInv'
  <2>1. \A u \in Threads : mine[u] # NoMsg => msg'[mine[u]].isSync = msg[mine[u]].isSync
    BY <1>3, Parts
  <2> QED BY <1>0, <1>2, <1>4, <1>5, <2>1 DEF OwnInv
<1>8. MadeInv'
  <2>1. \A x \in In : msg'[x].isSync = msg[x].isSync
    BY <1>3, Parts
  <2>2. \A u \in Threads : Second(u) # NoMsg => msg'[Second(u)].isSync = msg[Second(u)].isSync
    BY <1>3, Parts
  <2> QED BY <1>0, <1>2, <1>4, <1>5, <2>1, <2>2 DEF MadeInv
<1>9. SyncInv'
  <2> SUFFICES ASSUME NEW x \in Messages, msg'[x].isSync PROVE SyncOK(x)'
    BY DEF SyncInv
  <2>0. msg[x].isSync /\ SyncOK(x)
    BY <1>0, <1>3 DEF SyncInv
  <2>1. CASE x # m
    <3>1. \A t \in Threads : /\ mine'[t] = x <=> mine[t] = x
                             /\ mine[t] = x => pc'[t] = pc[t] /\ other'[t] = other[t]
      BY <1>m, <1>2, <2>1
    <3> QED BY <1>3, <1>4, <2>0, <2>1, <3>1, SyncFrame
  <2>2. CASE x = m
    <3>1. (HasSender(m)' <=> HasSender(m)) /\ (InPush(m)' <=> InPush(m))
      <4>1. \A d \in Clients : mine'[d] = mine[d] /\ (pc'[d] = "push" <=> pc[d] = "push")
        BY <1>0, <1>1, <1>2
      <4>2. HasSender(m)' <=> HasSender(m)
        BY <4>1 DEF HasSender
      <4>3. InPush(m)' <=> InPush(m)
        BY <4>1 DEF InPush
      <4> QED BY <4>2, <4>3
    <3>2. ~Waits(m)' /\ Waits(m) /\ ~InPush(m)
      BY <1>m, <1>0, <1>1, <1>2 DEF Waits, InPush, OwnInv
    <3>3. FirstRelease(m)' /\ SecondRelease(m)'
      <4>1. \A t \in Threads : mine'[t] = m /\ pc'[t] = "return" => mine[t] = m /\ pc[t] = "return"
        BY <1>2
      <4> QED BY <1>1, <1>3, <1>4, <2>0, <2>2, <3>1, <4>1
              DEF SyncOK, FirstRelease, SecondRelease
    <3>4. NotAnswered(m)'
      BY <1>0, <1>1, <1>2, <1>3, <1>4, <2>0, <2>2, <3>1 DEF SyncOK, NotAnswered
    <3>5. Outcome(m)'
      <4>1. ~msg[m].isSyncTimeout
        BY <2>0, <2>2, <3>2 DEF SyncOK, Outcome
      <4>2. msg[m].event = "set" \/ (mine[Engine] = m /\ pc[Engine] = "set")
              => msg[m].replyMessage # NoMsg
        BY <2>0, <2>2, <4>1 DEF SyncOK, Outcome
      <4>3. msg'[m].isSyncTimeout = (msg[m].replyMessage = NoMsg)
        BY <1>0, <1>1, <1>3, <4>1, <4>2 DEF ATypeOK, Fields
      <4>4. \A d \in Clients : mine'[d] = m => d = c
        BY <1>m, <1>0, <1>1, <1>2 DEF OwnInv
      <4> QED BY <1>0, <1>1, <1>2, <1>3, <3>2, <4>2, <4>3, <4>4 DEF Outcome
    <3> QED BY <1>1, <1>3, <2>0, <2>2, <3>3, <3>4, <3>5 DEF SyncOK
  <2> QED BY <2>1, <2>2
<1>10. PlaceInv'
  BY <1>0, <1>2, <1>4, <1>5 DEF PlaceInv
<1> QED BY <1>6, <1>7, <1>8, <1>9, <1>10

(* ReceiveInMessage, by a client or by the Purge of the engine's port.     *)
LEMMA ReceiveInStep ==
  ASSUME AInv, ATypeOK', NEW t \in Threads, pc[t] \in {"idle", "purgein"}, inMessages # <<>>,
         mine' = [mine EXCEPT ![t] = Head(inMessages)], inMessages' = Tail(inMessages),
         Goto(t, "release"),
         UNCHANGED <<outMessages, freeMessageQueue, made, msg, other, dropped>>
  PROVE  PcInv' /\ OwnInv' /\ MadeInv' /\ SyncInv' /\ PlaceInv'
<1>m. PICK m : m = Head(inMessages)
  OBVIOUS
<1>0. /\ ATypeOK /\ PcInv /\ OwnInv /\ MadeInv /\ SyncInv /\ PlaceInv
      /\ Engine \in Threads /\ Clients \subseteq Threads /\ Engine \notin Clients
      /\ \A u \in Threads : u \in Clients \/ u = Engine
      /\ NoMsg \notin In /\ NoMsg \notin Out /\ In \subseteq Messages /\ NoMsg \notin Messages
  BY Parts
<1>1. mine[t] = NoMsg /\ other[t] = NoMsg /\ Second(t) = NoMsg
  BY <1>0 DEF PcInv, Second, Calling
<1>2. /\ m \in In /\ In' = In \ {m} /\ IsInjective(inMessages')
      /\ m \in Messages /\ m # NoMsg /\ ~msg[m].isSync
      /\ m \notin Out /\ m \notin Free
      /\ \A u \in Threads : mine[u] # m /\ Second(u) # m
  <2>1. m \in In /\ In' = In \ {m} /\ IsInjective(inMessages')
    BY <1>m, <1>0, TailElements DEF In, ATypeOK, OwnInv
  <2> QED BY <1>0, <2>1 DEF OwnInv, MadeInv
<1>3. /\ mine'[t] = m /\ \A u \in Threads \ {t} : mine'[u] = mine[u]
      /\ pc'[t] = "release" /\ \A u \in Threads \ {t} : pc'[u] = pc[u]
  BY <1>m, <1>0 DEF ATypeOK, Goto
<1>4. /\ Out' = Out /\ Free' = Free
      /\ \A x \in Messages : x # m => (EngineHas(x)' <=> EngineHas(x))
      /\ EngineHas(m)' => t = Engine
  BY <1>0, <1>1, <1>2, <1>3 DEF Out, Free, EngineHas
<1>5. \A u \in Threads : Second(u)' = Second(u)
  <2>1. Second(t)' = NoMsg
    BY <1>1, <1>3 DEF Second, Calling
  <2>2. \A u \in Threads \ {t} : Second(u)' = Second(u)
    BY <1>3 DEF Second, Calling
  <2> QED BY <1>1, <2>1, <2>2
<1>6. PcInv'
  BY <1>0, <1>1, <1>2, <1>3 DEF PcInv
<1>7. OwnInv'
  <2>1. mine'[Engine] \notin Out'
    BY <1>0, <1>2, <1>3, <1>4 DEF OwnInv
  <2>2. \A u \in Threads : {mine'[u], Second(u)'} \cap (Free' \cup In') = {}
    BY <1>0, <1>2, <1>3, <1>4, <1>5 DEF OwnInv
  <2>3. \A u, v \in Threads : mine'[u] = Second(v)' => mine'[u] = NoMsg
    BY <1>0, <1>2, <1>3, <1>5 DEF OwnInv
  <2>4. \A d, e \in Clients : mine'[d] = mine'[e] /\ d # e => mine'[d] = NoMsg
    BY <1>0, <1>2, <1>3 DEF OwnInv
  <2>5. \A d \in Clients : EngineHas(mine[d])' => mine'[d] = NoMsg \/ msg'[mine'[d]].isSync
    <3> SUFFICES ASSUME NEW d \in Clients, EngineHas(mine[d])', mine'[d] # NoMsg
                 PROVE  msg'[mine'[d]].isSync
      OBVIOUS
    <3>1. d # t
      BY <1>0, <1>3, <1>4
    <3>2. mine'[d] = mine[d] /\ mine[d] # m /\ mine[d] \in Messages
      BY <1>0, <1>2, <1>3, <3>1, Parts
    <3>3. EngineHas(mine[d])
      BY <1>0, <1>2, <1>3, <1>4, <3>1, <3>2 DEF EngineHas
    <3> QED BY <1>0, <3>2, <3>3 DEF OwnInv
  <2> QED BY <1>0, <1>2, <1>4, <1>5, <2>1, <2>2, <2>3, <2>4, <2>5 DEF OwnInv
<1>8. MadeInv'
  <2>1. m \in 0..made
    BY <1>0, <1>2 DEF MadeInv, ATypeOK
  <2> QED BY <1>0, <1>2, <1>3, <1>4, <1>5, <2>1 DEF MadeInv
<1>9. SyncInv'
  <2> SUFFICES ASSUME NEW x \in Messages, msg'[x].isSync PROVE SyncOK(x)'
    BY DEF SyncInv
  <2>1. SyncOK(x) /\ x # m /\ x # NoMsg
    BY <1>0, <1>2 DEF SyncInv
  <2>2. \A u \in Threads : /\ mine'[u] = x <=> mine[u] = x
                           /\ mine[u] = x => pc'[u] = pc[u] /\ other'[u] = other[u]
    BY <1>1, <1>3, <2>1
  <2> QED BY <1>4, <2>1, <2>2, SyncFrame
<1>10. PlaceInv'
  <2> SUFFICES ASSUME NEW x \in 1..made, x # m, x \notin Free' \cup Out' \cup In' \cup dropped'
               PROVE  \E u \in Threads : mine'[u] = x \/ Second(u)' = x
    BY <1>3 DEF PlaceInv
  <2>1. PICK u \in Threads : mine[u] = x \/ Second(u) = x
    BY <1>0, <1>2, <1>4 DEF PlaceInv
  <2>2. x # NoMsg
    BY DEF NoMsg
  <2> QED BY <1>1, <1>3, <1>5, <2>1, <2>2
<1> QED BY <1>6, <1>7, <1>8, <1>9, <1>10

(* ReceiveOutMessage, by the engine or by the Purge of its port.           *)
LEMMA ReceiveOutStep ==
  ASSUME AInv, ATypeOK', pc[Engine] \in {"idle", "purgeout"}, outMessages # <<>>,
         mine' = [mine EXCEPT ![Engine] = Head(outMessages)], outMessages' = Tail(outMessages),
         NEW step \in {"handle", "release"}, Goto(Engine, step),
         UNCHANGED <<inMessages, freeMessageQueue, made, msg, other, dropped>>
  PROVE  PcInv' /\ OwnInv' /\ MadeInv' /\ SyncInv' /\ PlaceInv'
<1>m. PICK m : m = Head(outMessages)
  OBVIOUS
<1>0. /\ ATypeOK /\ PcInv /\ OwnInv /\ MadeInv /\ SyncInv /\ PlaceInv
      /\ Engine \in Threads /\ Clients \subseteq Threads /\ Engine \notin Clients
      /\ \A u \in Threads : u \in Clients \/ u = Engine
      /\ NoMsg \notin In /\ NoMsg \notin Out /\ Out \subseteq Messages /\ NoMsg \notin Messages
  BY Parts
<1>1. mine[Engine] = NoMsg /\ other[Engine] = NoMsg
  BY <1>0 DEF PcInv
<1>2. /\ m \in Out /\ Out' = Out \ {m} /\ IsInjective(outMessages')
      /\ m \in Messages /\ m # NoMsg
      /\ m \notin In /\ m \notin Free
      /\ \A u \in Threads : Second(u) # m
  <2>1. m \in Out /\ Out' = Out \ {m} /\ IsInjective(outMessages')
    BY <1>m, <1>0, TailElements DEF Out, ATypeOK, OwnInv
  <2> QED BY <1>0, <2>1 DEF OwnInv
<1>3. /\ mine'[Engine] = m /\ \A u \in Threads \ {Engine} : mine'[u] = mine[u]
      /\ pc'[Engine] \in {"handle", "release"} /\ \A u \in Threads \ {Engine} : pc'[u] = pc[u]
  BY <1>m, <1>0 DEF ATypeOK, Goto
<1>4. /\ In' = In /\ Free' = Free
      /\ \A x \in Messages : EngineHas(x)' <=> EngineHas(x)
  BY <1>0, <1>1, <1>2, <1>3 DEF In, Free, EngineHas
<1>5. \A u \in Threads : Second(u)' = Second(u)
  BY <1>0, <1>3 DEF Second, Calling
<1>6. PcInv'
  BY <1>0, <1>1, <1>2, <1>3 DEF PcInv
<1>7. OwnInv'
  <2>2. \A u \in Threads : {mine'[u], Second(u)'} \cap (Free' \cup In') = {}
    BY <1>0, <1>2, <1>3, <1>4, <1>5 DEF OwnInv
  <2>3. \A u, v \in Threads : mine'[u] = Second(v)' => mine'[u] = NoMsg
    BY <1>0, <1>2, <1>3, <1>5 DEF OwnInv
  <2>4. \A d, e \in Clients : mine'[d] = mine'[e] /\ d # e => mine'[d] = NoMsg
    BY <1>0, <1>3 DEF OwnInv
  <2>5. \A d \in Clients : EngineHas(mine[d])' => mine'[d] = NoMsg \/ msg'[mine'[d]].isSync
    <3> SUFFICES ASSUME NEW d \in Clients, EngineHas(mine[d])', mine'[d] # NoMsg
                 PROVE  msg'[mine'[d]].isSync
      OBVIOUS
    <3>1. mine'[d] = mine[d] /\ mine[d] \in Messages
      BY <1>0, <1>3, Parts
    <3>2. EngineHas(mine[d])
      BY <1>0, <1>2, <1>3, <3>1 DEF EngineHas
    <3> QED BY <1>0, <3>1, <3>2 DEF OwnInv
  <2> QED BY <1>0, <1>2, <1>3, <1>4, <1>5, <2>2, <2>3, <2>4, <2>5 DEF OwnInv
<1>8. MadeInv'
  <2>1. m \in 0..made
    BY <1>0, <1>2 DEF MadeInv, ATypeOK
  <2> QED BY <1>0, <1>2, <1>3, <1>4, <1>5, <2>1 DEF MadeInv
<1>9. SyncInv'
  <2> SUFFICES ASSUME NEW x \in Messages, msg'[x].isSync PROVE SyncOK(x)'
    BY DEF SyncInv
  <2>0. SyncOK(x) /\ x # NoMsg
    BY <1>0 DEF SyncInv
  <2>1. CASE x # m
    <3>1. \A u \in Threads : /\ mine'[u] = x <=> mine[u] = x
                             /\ mine[u] = x => pc'[u] = pc[u] /\ other'[u] = other[u]
      BY <1>1, <1>3, <2>0, <2>1
    <3>2. x \in Out' <=> x \in Out
      BY <1>2, <2>1
    <3> QED BY <2>0, <3>1, <3>2, SyncFrame
  <2>2. CASE x = m
    <3>0. \A d \in Clients : mine'[d] = mine[d] /\ pc'[d] = pc[d]
      BY <1>0, <1>3
    <3>1. (HasSender(m)' <=> HasSender(m)) /\ (InPush(m)' <=> InPush(m)) /\ (Waits(m)' <=> Waits(m))
      BY <3>0 DEF HasSender, InPush, Waits
    <3>2. FirstRelease(m)' /\ SecondRelease(m)'
      BY <1>2, <1>3, <1>4, <2>0, <2>2, <3>1 DEF SyncOK, FirstRelease, SecondRelease
    <3>3. NotAnswered(m)'
      BY <1>2, <2>0, <2>2 DEF SyncOK, NotAnswered
    <3>4. Outcome(m)'
      <4>1. msg[m].event = "unset" /\ msg[m].replyMessage = NoMsg
        BY <1>2, <2>0, <2>2 DEF SyncOK, NotAnswered
      <4> QED BY <1>3, <2>0, <2>2, <3>0, <3>1, <4>1 DEF SyncOK, Outcome
    <3> QED BY <2>0, <2>2, <3>2, <3>3, <3>4 DEF SyncOK
  <2> QED BY <2>1, <2>2
<1>10. PlaceInv'
  <2> SUFFICES ASSUME NEW x \in 1..made, x # m, x \notin Free' \cup Out' \cup In' \cup dropped'
               PROVE  \E u \in Threads : mine'[u] = x \/ Second(u)' = x
    BY <1>0, <1>3 DEF PlaceInv
  <2>1. PICK u \in Threads : mine[u] = x \/ Second(u) = x
    BY <1>0, <1>2, <1>4 DEF PlaceInv
  <2>2. x # NoMsg
    BY DEF NoMsg
  <2> QED BY <1>1, <1>3, <1>5, <2>1, <2>2
<1> QED BY <1>6, <1>7, <1>8, <1>9, <1>10

-----------------------------------------------------------------------------
(* Release                                                                 *)

(* A thread that was done with m has gone on with its second message.      *)
WentOn(t, m) ==
  /\ m \in Messages /\ m # NoMsg /\ m \notin In /\ m \notin Free
  /\ mine'[t] = Second(t) /\ mine'[t] # m /\ \A u \in Threads \ {t} : mine'[u] = mine[u]
  /\ pc'[t] \in {"release", "idle", "purgein", "purgeout"}
  /\ \A u \in Threads \ {t} : pc'[u] = pc[u]
  /\ other'[t] = NoMsg /\ \A u \in Threads \ {t} : other'[u] = other[u]
  /\ Out' = Out /\ In' = In
  /\ \A u \in Threads : Second(u) # m
  /\ Second(t)' = NoMsg
  /\ \A u \in Threads \ {t} : mine[u] # m => Second(u)' = Second(u)
  /\ \A u \in Threads : mine'[u] # NoMsg /\ mine'[u] # m
       => mine'[u] \in Messages /\ msg'[mine'[u]] = msg[mine'[u]]
  /\ mine'[t] # NoMsg => ~msg[mine'[t]].isSync /\ ~EngineHas(mine'[t])
  /\ t = Engine => mine'[t] = NoMsg
  /\ t \in Clients => \A x : EngineHas(x)' <=> EngineHas(x)
  /\ t = Engine => \A x \in Messages : EngineHas(x)' <=> x \in Out

LEMMA GoOnIs ==
  ASSUME AInv, ATypeOK', NEW t \in Threads, pc[t] \in {"release", "return"}, GoOn(t),
         NEW m, m = mine[t], \A x \in Messages : x # m => msg'[x] = msg[x],
         UNCHANGED <<outMessages, inMessages, made, dropped>>
  PROVE  WentOn(t, m)
<1>0. /\ ATypeOK /\ PcInv /\ OwnInv /\ MadeInv
      /\ Engine \in Threads /\ Clients \subseteq Threads /\ Engine \notin Clients
      /\ \A u \in Threads : u \in Clients \/ u = Engine
      /\ NoMsg \notin Messages
  BY Parts
<1>1. m \in Messages /\ m # NoMsg /\ m \notin In /\ m \notin Free
  BY <1>0, Parts DEF PcInv, OwnInv
<1>2. Second(t) = other[t] /\ \A u \in Threads : Second(u) # m
  BY <1>0, <1>1 DEF Second, Calling, OwnInv
<1>3. t = Engine => other[t] = NoMsg
  BY <1>0 DEF PcInv
<1>4. /\ mine'[t] = Second(t) /\ mine'[t] # m /\ \A u \in Threads \ {t} : mine'[u] = mine[u]
      /\ \A u \in Threads \ {t} : pc'[u] = pc[u]
      /\ other'[t] = NoMsg /\ \A u \in Threads \ {t} : other'[u] = other[u]
  BY <1>0, <1>2 DEF GoOn, Goto, ATypeOK
<1>5. pc'[t] \in {"release", "idle", "purgein", "purgeout"}
  BY <1>0 DEF GoOn, Goto, ATypeOK
<1>6. Out' = Out /\ In' = In
  BY DEF Out, In
<1>7. Second(t)' = NoMsg
  BY <1>4, <1>5 DEF Second, Calling
<1>8. ASSUME NEW u \in Threads \ {t}, mine[u] # m PROVE Second(u)' = Second(u)
  <2>1. mine[u] # NoMsg => msg'[mine[u]] = msg[mine[u]]
    BY <1>8, Parts
  <2> QED BY <1>4, <2>1 DEF Second, Calling
<1>9. \A u \in Threads : mine'[u] # NoMsg /\ mine'[u] # m
        => mine'[u] \in Messages /\ msg'[mine'[u]] = msg[mine'[u]]
  BY <1>4, Parts
<1>10. mine'[t] # NoMsg => ~msg[mine'[t]].isSync /\ ~EngineHas(mine'[t])
  BY <1>0, <1>4 DEF MadeInv, OwnInv, EngineHas
<1>11. t = Engine => mine'[t] = NoMsg
  BY <1>2, <1>3, <1>4
<1>12. t \in Clients => \A x : EngineHas(x)' <=> EngineHas(x)
  BY <1>0, <1>4, <1>6 DEF EngineHas
<1>13. t = Engine => \A x \in Messages : EngineHas(x)' <=> x \in Out
  BY <1>0, <1>6, <1>11 DEF EngineHas
<1> QED BY <1>1, <1>2, <1>4, <1>5, <1>6, <1>7, <1>8, <1>9, <1>10, <1>11, <1>12, <1>13 DEF WentOn

(* Who frees a message is the last that has it.                            *)
LEMMA LastHolder ==
  ASSUME AInv, NEW t \in Threads, pc[t] = "return"
  PROVE  mine[t] \notin Out /\ \A u \in Threads \ {t} : mine[u] # mine[t]
<1>m. PICK m : m = mine[t]
  OBVIOUS
<1>0. /\ PcInv /\ OwnInv /\ SyncInv
      /\ Engine \in Threads /\ Clients \subseteq Threads /\ Engine \notin Clients
      /\ \A u \in Threads : u \in Clients \/ u = Engine
      /\ m \in Messages /\ m # NoMsg
  BY <1>m, Parts DEF PcInv
<1>1. CASE msg[m].isSync
  <2>1. msg[m].isSyncFini /\ (EngineHas(m) <=> ~HasSender(m))
    BY <1>m, <1>0, <1>1 DEF SyncInv, SyncOK, FirstRelease, SecondRelease
  <2>2. CASE t = Engine
    <3>1. ~HasSender(m)
      BY <1>m, <2>1, <2>2 DEF EngineHas
    <3> QED BY <1>m, <1>0, <2>2, <3>1 DEF HasSender, OwnInv
  <2>3. CASE t \in Clients
    <3>1. ~EngineHas(m)
      BY <1>m, <2>1, <2>3 DEF HasSender
    <3> QED BY <1>m, <1>0, <2>3, <3>1 DEF EngineHas, OwnInv
  <2> QED BY <1>0, <2>2, <2>3
<1>2. CASE ~msg[m].isSync
  <2>2. CASE t = Engine
    BY <1>m, <1>0, <1>2, <2>2 DEF EngineHas, OwnInv
  <2>3. CASE t \in Clients
    BY <1>m, <1>0, <1>2, <2>3 DEF EngineHas, OwnInv
  <2> QED BY <1>0, <2>2, <2>3
<1> QED BY <1>1, <1>2

(* What the two ways to go on have in common: all but the fate of m.       *)
GoneOn(t, m) ==
  /\ PcInv' /\ OwnInv' /\ MadeInv'
  /\ \A x \in Messages : x # m /\ msg'[x].isSync => SyncOK(x)'
  /\ \A x \in 1..made : x # m => \/ x \in Free' \cup Out' \cup In' \cup dropped'
                                 \/ \E u \in Threads : mine'[u] = x \/ Second(u)' = x

LEMMA GoOnStep ==
  ASSUME AInv, ATypeOK', NEW t \in Threads, pc[t] \in {"release", "return"}, GoOn(t),
         NEW m, m = mine[t], \A x \in Messages : x # m => msg'[x] = msg[x],
         \/ /\ msg[m].isSync /\ msg'[m].isSync /\ msg'[m].replyMessage = msg[m].replyMessage
            /\ Free' = Free
         \/ /\ ~msg'[m].isSync /\ m \notin Out /\ \A u \in Threads \ {t} : mine[u] # m
            /\ Free' = Free \cup {m},
         IsInjective(freeMessageQueue'),
         UNCHANGED <<outMessages, inMessages, made, dropped>>
  PROVE  GoneOn(t, m)
<1>0. /\ ATypeOK /\ PcInv /\ OwnInv /\ MadeInv /\ SyncInv /\ PlaceInv
      /\ Engine \in Threads /\ Clients \subseteq Threads /\ Engine \notin Clients
      /\ \A u \in Threads : u \in Clients \/ u = Engine
      /\ NoMsg \notin Messages /\ NoMsg \notin Out /\ NoMsg \notin In /\ NoMsg \notin Free
  BY Parts
<1>1. /\ m \in Messages /\ m # NoMsg /\ m \notin In /\ m \notin Free
      /\ mine'[t] = Second(t) /\ mine'[t] # m /\ \A u \in Threads \ {t} : mine'[u] = mine[u]
      /\ pc'[t] \in {"release", "idle", "purgein", "purgeout"}
      /\ \A u \in Threads \ {t} : pc'[u] = pc[u]
      /\ other'[t] = NoMsg /\ \A u \in Threads \ {t} : other'[u] = other[u]
      /\ Out' = Out /\ In' = In
      /\ \A u \in Threads : Second(u) # m
      /\ Second(t)' = NoMsg
      /\ \A u \in Threads \ {t} : mine[u] # m => Second(u)' = Second(u)
      /\ \A u \in Threads : mine'[u] # NoMsg /\ mine'[u] # m
           => mine'[u] \in Messages /\ msg'[mine'[u]] = msg[mine'[u]]
      /\ mine'[t] # NoMsg => ~msg[mine'[t]].isSync /\ ~EngineHas(mine'[t])
      /\ t = Engine => mine'[t] = NoMsg
      /\ t \in Clients => \A x : EngineHas(x)' <=> EngineHas(x)
      /\ t = Engine => \A x \in Messages : EngineHas(x)' <=> x \in Out
  <2>1. WentOn(t, m)
    BY GoOnIs
  <2> QED BY <2>1 DEF WentOn
<1>2. \A u \in Threads \ {t} : Second(u)' = Second(u)
  <2> SUFFICES ASSUME NEW u \in Threads \ {t}, mine[u] = m PROVE Second(u)' = Second(u)
    BY <1>1
  <2>1. msg'[m].isSync = msg[m].isSync /\ msg'[m].replyMessage = msg[m].replyMessage
    OBVIOUS
  <2> QED BY <1>1, <2>1 DEF Second, Calling
<1>3. \A u \in Threads \ {t} : mine'[u] # NoMsg => (msg'[mine'[u]].isSync <=> msg[mine[u]].isSync)
  <2> SUFFICES ASSUME NEW u \in Threads \ {t}, mine'[u] # NoMsg
               PROVE  msg'[mine'[u]].isSync <=> msg[mine[u]].isSync
    OBVIOUS
  <2>1. mine'[u] = mine[u]
    BY <1>1
  <2>2. CASE mine[u] = m
    BY <2>1, <2>2
  <2>3. CASE mine[u] # m
    BY <1>1, <2>1, <2>3
  <2> QED BY <2>2, <2>3
<1>4. PcInv'
  <2>1. mine'[t] = NoMsg <=> pc'[t] # "release"
    BY <1>0, <1>1 DEF GoOn, Goto, ATypeOK
  <2>2. \A u \in Threads : pc'[u] \in {"push", "wait", "late", "release", "return", "handle", "set"}
                           => mine'[u] # NoMsg
    BY <1>0, <1>1, <2>1 DEF PcInv
  <2>3. \A u \in Threads : pc'[u] \in {"idle", "asleep", "purgein", "purgeout"} => mine'[u] = NoMsg
    BY <1>0, <1>1, <2>1 DEF PcInv
  <2>4. \A u \in Threads : mine'[u] # NoMsg /\ pc'[u] \in {"signal", "wait", "late", "set"}
                           => msg'[mine'[u]].isSync
    BY <1>0, <1>1, <1>3 DEF PcInv
  <2>5. ASSUME NEW c \in Clients, other'[c] # NoMsg
        PROVE  pc'[c] \in {"release", "return"} /\ msg'[mine'[c]].isSync
    <3>1. c # t /\ pc'[c] = pc[c] /\ other'[c] = other[c] /\ mine'[c] = mine[c]
      BY <1>0, <1>1, <2>5
    <3>2. pc[c] \in {"release", "return"} /\ msg[mine[c]].isSync /\ mine[c] # NoMsg
      BY <1>0, <2>5, <3>1 DEF PcInv
    <3> QED BY <1>0, <1>3, <3>1, <3>2
  <2>9. \A c \in Clients : pc'[c] \in {"idle", "push", "signal", "wait", "late", "release", "return"}
    <3>1. t \in Clients => pc'[t] \in {"release", "idle"}
      BY <1>0 DEF GoOn, Goto, ATypeOK
    <3> QED BY <1>0, <1>1, <3>1 DEF PcInv
  <2>6. pc'[Engine] \notin {"push", "signal", "wait", "late"}
    BY <1>0, <1>1 DEF PcInv
  <2>7. other'[Engine] # NoMsg <=> pc'[Engine] = "pushin"
    BY <1>0, <1>1 DEF PcInv
  <2>8. pc'[Engine] = "pushin" /\ mine'[Engine] # NoMsg => ~msg'[mine'[Engine]].isSync
    BY <1>0, <1>1, <1>3 DEF PcInv
  <2> QED BY <2>2, <2>3, <2>4, <2>5, <2>6, <2>7, <2>8, <2>9 DEF PcInv
<1>5. OwnInv'
  <2>1. mine'[Engine] \notin Out'
    BY <1>0, <1>1 DEF OwnInv
  <2>2. \A u \in Threads : {mine'[u], Second(u)'} \cap (Free' \cup In') = {}
    <3>1. \A u \in Threads : mine'[u] \notin Free \cup In /\ Second(u)' \notin Free \cup In
      BY <1>0, <1>1, <1>2 DEF OwnInv
    <3>2. \A u \in Threads : Second(u)' # m
      BY <1>1, <1>2
    <3> QED BY <1>1, <3>1, <3>2
  <2>3. \A u \in Threads : Second(u)' \notin Out'
    BY <1>0, <1>1, <1>2 DEF OwnInv
  <2>4. \A u, v \in Threads : Second(u)' = Second(v)' /\ u # v => Second(u)' = NoMsg
    BY <1>0, <1>1, <1>2 DEF OwnInv
  <2>5. \A u, v \in Threads : mine'[u] = Second(v)' => mine'[u] = NoMsg
    <3> SUFFICES ASSUME NEW u \in Threads, NEW v \in Threads, mine'[u] = Second(v)', v # t
                 PROVE  mine'[u] = NoMsg
      BY <1>1
    <3>1. CASE u = t
      BY <1>0, <1>1, <1>2, <3>1 DEF OwnInv
    <3>2. CASE u # t
      BY <1>0, <1>1, <1>2, <3>2 DEF OwnInv
    <3> QED BY <3>1, <3>2
  <2>6. \A d, e \in Clients : mine'[d] = mine'[e] /\ d # e => mine'[d] = NoMsg
    BY <1>0, <1>1 DEF OwnInv
  <2>7. \A d \in Clients : EngineHas(mine[d])' => mine'[d] = NoMsg \/ msg'[mine'[d]].isSync
    <3> SUFFICES ASSUME NEW d \in Clients, EngineHas(mine[d])', mine'[d] # NoMsg
                 PROVE  msg'[mine'[d]].isSync
      OBVIOUS
    <3>0. mine'[d] \in Out \/ mine'[Engine] = mine'[d]
      BY <1>1 DEF EngineHas
    <3>1. EngineHas(mine'[d])
      BY <1>0, <1>1, <3>0 DEF EngineHas
    <3>2. d # t
      BY <1>1, <3>1
    <3> QED BY <1>0, <1>1, <1>3, <3>1, <3>2 DEF OwnInv
  <2>8. Free' \cap (Out' \cup In') = {}
    BY <1>0, <1>1, LastHolder DEF OwnInv
  <2> QED BY <1>0, <1>1, <2>1, <2>2, <2>3, <2>4, <2>5, <2>6, <2>7, <2>8 DEF OwnInv
<1>6. MadeInv'
  <2>1. m \in 1..made /\ NoMsg \in 0..made
    BY <1>0, <1>1 DEF MadeInv, ATypeOK, NoMsg
  <2>2. \A x \in In : msg'[x] = msg[x]
    BY <1>1, Parts
  <2>3. \A u \in Threads : Second(u) # NoMsg => msg'[Second(u)] = msg[Second(u)]
    BY <1>1, Parts
  <2>4. Free' \cup Out' \cup In' \subseteq 1..made'
    BY <1>0, <1>1, <2>1 DEF MadeInv
  <2>5. \A u \in Threads : mine'[u] \in 0..made' /\ Second(u)' \in 0..made'
    BY <1>0, <1>1, <1>2, <2>1 DEF MadeInv
  <2>6. \A u \in Threads : Second(u)' # NoMsg => ~msg'[Second(u)'].isSync
    BY <1>0, <1>1, <1>2, <2>3 DEF MadeInv
  <2> QED BY <1>0, <1>1, <2>2, <2>4, <2>5, <2>6 DEF MadeInv
<1>7. ASSUME NEW x \in Messages, x # m, msg'[x].isSync PROVE SyncOK(x)'
  <2>1. msg'[x] = msg[x] /\ SyncOK(x) /\ x # NoMsg
    BY <1>0, <1>7 DEF SyncInv
  <2>2. mine'[t] # x /\ mine[t] # x
    BY <1>1, <1>7, <2>1
  <2>3. \A u \in Threads : /\ mine'[u] = x <=> mine[u] = x
                           /\ mine[u] = x => pc'[u] = pc[u] /\ other'[u] = other[u]
    BY <1>1, <2>2
  <2> QED BY <1>1, <2>1, <2>3, SyncFrame
<1>8. ASSUME NEW x \in 1..made, x # m
      PROVE  \/ x \in Free' \cup Out' \cup In' \cup dropped'
             \/ \E u \in Threads : mine'[u] = x \/ Second(u)' = x
  BY <1>0, <1>1, <1>2, <1>8 DEF PlaceInv
<1> QED BY <1>4, <1>5, <1>6, <1>7, <1>8 DEF GoneOn

(* The first of two releases leaves the message to the second one.         *)
LEMMA ReleaseStep ==
  ASSUME AInv, ATypeOK', NEW t \in Threads, Release(t)
  PROVE  PcInv' /\ OwnInv' /\ MadeInv' /\ SyncInv' /\ PlaceInv'
<1>m. PICK m : m = mine[t]
  OBVIOUS
<1>0. /\ ATypeOK /\ PcInv /\ OwnInv /\ MadeInv /\ SyncInv /\ PlaceInv
      /\ Engine \in Threads /\ Clients \subseteq Threads /\ Engine \notin Clients
      /\ \A u \in Threads : u \in Clients \/ u = Engine
      /\ NoMsg \notin Out /\ NoMsg \notin Messages
  BY Parts
<1>1. m \in Messages /\ m # NoMsg /\ pc[t] = "release"
  BY <1>m, <1>0, Parts DEF PcInv, Release
<1>2. /\ \A x \in Messages : x # m => msg'[x] = msg[x]
      /\ msg'[m].isSync = msg[m].isSync /\ msg'[m].isSyncFini
      /\ msg'[m].isSyncTimeout = msg[m].isSyncTimeout
      /\ msg'[m].replyMessage = msg[m].replyMessage
      /\ msg'[m].signal = msg[m].signal /\ msg'[m].event = msg[m].event
  <2>1. msg \in [Messages -> Fields] /\ msg[m] \in Fields
    BY <1>0, <1>1 DEF ATypeOK
  <2>2. /\ msg'[m] = [msg[m] EXCEPT !.isSyncFini = TRUE]
        /\ \A x \in Messages : x # m => msg'[x] = msg[x]
    BY <1>m, <1>1, <2>1 DEF Release
  <2> QED BY <2>1, <2>2 DEF Fields
<1>3. UNCHANGED <<outMessages, inMessages, freeMessageQueue, made, dropped>>
  BY DEF Release, queues, pool
<1>4. Out' = Out /\ In' = In /\ Free' = Free
  BY <1>3 DEF Out, In, Free
<1>5. CASE msg[m].isSync /\ ~msg[m].isSyncFini
  <2>1. GoOn(t)
    BY <1>m, <1>5 DEF Release
  <2>2. /\ mine'[t] # m /\ \A u \in Threads \ {t} : mine'[u] = mine[u]
        /\ \A u \in Threads \ {t} : pc'[u] = pc[u]
        /\ \A u \in Threads \ {t} : other'[u] = other[u]
        /\ mine'[t] = Second(t)
        /\ t \in Clients => \A x : EngineHas(x)' <=> EngineHas(x)
        /\ t = Engine => \A x \in Messages : EngineHas(x)' <=> x \in Out
    BY <1>m, <1>1, <1>2, <1>3, <2>1, GoOnIs DEF WentOn
  <2>3. /\ PcInv' /\ OwnInv' /\ MadeInv'
        /\ \A x \in Messages : x # m /\ msg'[x].isSync => SyncOK(x)'
        /\ \A x \in 1..made : x # m => \/ x \in Free' \cup Out' \cup In' \cup dropped'
                                       \/ \E u \in Threads : mine'[u] = x \/ Second(u)' = x
    <3>1. IsInjective(freeMessageQueue')
      BY <1>0, <1>3 DEF OwnInv
    <3>2. GoneOn(t, m)
      BY <1>m, <1>1, <1>2, <1>3, <1>4, <1>5, <2>1, <3>1, GoOnStep
    <3> QED BY <3>2 DEF GoneOn
  <2>4. /\ SyncOK(m) /\ HasSender(m) /\ (InPush(m) <=> ~EngineHas(m))
        /\ \A u \in Threads : mine[u] = m => pc[u] # "return"
    BY <1>0, <1>1, <1>5 DEF SyncInv, SyncOK, FirstRelease
  <2>5. ASSUME t \in Clients
        PROVE  /\ EngineHas(m)' /\ EngineHas(m) /\ ~HasSender(m)' /\ ~InPush(m)' /\ ~Waits(m) /\ ~Waits(m)'
               /\ \A d \in Clients : mine'[d] # m
    <3>1. \A d \in Clients : mine[d] = m => d = t
      BY <1>m, <1>0, <1>1, <2>5 DEF OwnInv
    <3>2. ~InPush(m) /\ ~Waits(m)
      BY <1>1, <3>1 DEF InPush, Waits
    <3>3. \A d \in Clients : mine'[d] # m
      BY <1>0, <2>2, <3>1
    <3>4. ~HasSender(m)' /\ ~InPush(m)' /\ ~Waits(m)'
      BY <3>3 DEF HasSender, InPush, Waits
    <3> QED BY <2>2, <2>4, <2>5, <3>2, <3>3, <3>4
  <2>6. ASSUME t = Engine
        PROVE  /\ ~EngineHas(m)' /\ HasSender(m)' /\ ~InPush(m)' /\ (Waits(m)' <=> Waits(m))
               /\ \A d \in Clients : mine'[d] = mine[d] /\ pc'[d] = pc[d] /\ other'[d] = other[d]
    <3>1. EngineHas(m) /\ m \notin Out
      BY <1>m, <1>0, <2>6 DEF EngineHas, OwnInv
    <3>2. \A d \in Clients : mine'[d] = mine[d] /\ pc'[d] = pc[d] /\ other'[d] = other[d]
      BY <1>0, <2>2, <2>6
    <3>3. HasSender(m)' <=> HasSender(m)
      BY <3>2 DEF HasSender
    <3>4. InPush(m)' <=> InPush(m)
      BY <3>2 DEF InPush
    <3>5. Waits(m)' <=> Waits(m)
      BY <3>2 DEF Waits
    <3> QED BY <1>1, <2>2, <2>4, <2>6, <3>1, <3>2, <3>3, <3>4, <3>5
  <2>7. SyncOK(m)'
    <3>1. FirstRelease(m)' /\ SecondRelease(m)'
      BY <1>0, <1>2, <2>5, <2>6 DEF FirstRelease, SecondRelease
    <3>2. NotAnswered(m)'
      <4>1. mine'[Engine] = m => mine[Engine] = m /\ pc'[Engine] = pc[Engine]
        BY <1>0, <2>2
      <4> QED BY <1>0, <1>2, <1>4, <2>4, <2>5, <2>6, <4>1 DEF SyncOK, NotAnswered
    <3>3. Outcome(m)'
      <4>1. mine'[Engine] = m => mine[Engine] = m /\ pc'[Engine] = pc[Engine]
        BY <1>0, <2>2
      <4> QED BY <1>0, <1>2, <2>4, <2>5, <2>6, <4>1 DEF SyncOK, Outcome
    <3> QED BY <1>2, <2>4, <3>1, <3>2, <3>3 DEF SyncOK
  <2>8. \/ m \in Out'
        \/ \E u \in Threads : mine'[u] = m
    BY <1>0, <2>5, <2>6 DEF EngineHas, HasSender
  <2>9. SyncInv' /\ PlaceInv'
    BY <1>3, <2>3, <2>7, <2>8 DEF SyncInv, PlaceInv
  <2> QED BY <2>3, <2>9
<1>6. CASE ~(msg[m].isSync /\ ~msg[m].isSyncFini)
  <2>1. /\ pc'[t] = "return" /\ \A u \in Threads \ {t} : pc'[u] = pc[u]
        /\ mine' = mine /\ other' = other
    BY <1>m, <1>0, <1>6 DEF Release, Goto, ATypeOK
  <2>2. \A u \in Threads : mine[u] # NoMsg => /\ msg'[mine[u]].isSync = msg[mine[u]].isSync
                                              /\ msg'[mine[u]].replyMessage = msg[mine[u]].replyMessage
    BY <1>2, Parts
  <2>3. \A u \in Threads : Second(u)' = Second(u)
    <3>1. Second(t)' = Second(t)
      BY <1>1, <2>1 DEF Second, Calling
    <3>2. \A u \in Threads \ {t} : Second(u)' = Second(u)
      BY <2>1, <2>2 DEF Second, Calling
    <3> QED BY <3>1, <3>2
  <2>4. \A x : EngineHas(x)' <=> EngineHas(x)
    BY <1>4, <2>1 DEF EngineHas
  <2>5. PcInv'
    BY <1>0, <1>1, <2>1, <2>2 DEF PcInv
  <2>6. OwnInv'
    BY <1>0, <1>3, <1>4, <2>1, <2>2, <2>3, <2>4 DEF OwnInv
  <2>7. MadeInv'
    <3>1. \A x \in Messages : msg'[x].isSync = msg[x].isSync
      BY <1>2
    <3> QED BY <1>0, <1>3, <1>4, <2>1, <2>3, <3>1, Parts DEF MadeInv
  <2>8. SyncInv'
    <3> SUFFICES ASSUME NEW x \in Messages, msg'[x].isSync PROVE SyncOK(x)'
      BY DEF SyncInv
    <3>0. SyncOK(x) /\ msg[x].isSync
      BY <1>0, <1>2 DEF SyncInv
    <3>1. CASE x # m
      BY <1>m, <1>2, <1>4, <2>1, <3>0, <3>1, SyncFrame
    <3>2. CASE x = m
      <4>0. msg[m].isSyncFini
        BY <1>6, <3>0, <3>2
      <4>1. HasSender(m)' <=> HasSender(m)
        BY <2>1 DEF HasSender
      <4>2. \A d \in Clients : /\ pc'[d] = "push" <=> pc[d] = "push"
                               /\ pc'[d] \in {"push", "signal", "wait", "late"}
                                    <=> pc[d] \in {"push", "signal", "wait", "late"}
                               /\ pc'[d] \in {"release", "return"} <=> pc[d] \in {"release", "return"}
        BY <1>0, <1>1, <2>1
      <4>3. (InPush(m)' <=> InPush(m)) /\ (Waits(m)' <=> Waits(m))
        BY <2>1, <4>2 DEF InPush, Waits
      <4>4. pc'[Engine] = "handle" => pc[Engine] = "handle"
        BY <1>0, <2>1
      <4>5. pc'[Engine] = "set" => pc[Engine] = "set"
        BY <1>0, <2>1
      <4>6. FirstRelease(m)' /\ SecondRelease(m)'
        BY <1>2, <2>4, <3>0, <3>2, <4>0, <4>1, <4>3 DEF SyncOK, FirstRelease, SecondRelease
      <4>7. NotAnswered(m)'
        BY <1>2, <1>4, <2>1, <3>0, <3>2, <4>3, <4>4 DEF SyncOK, NotAnswered
      <4>8. Outcome(m)'
        BY <1>2, <2>1, <3>0, <3>2, <4>2, <4>3, <4>5 DEF SyncOK, Outcome
      <4> QED BY <1>2, <3>0, <3>2, <4>6, <4>7, <4>8 DEF SyncOK
    <3> QED BY <3>1, <3>2
  <2>9. PlaceInv'
    BY <1>0, <1>3, <1>4, <2>1, <2>3 DEF PlaceInv
  <2> QED BY <2>5, <2>6, <2>7, <2>8, <2>9
<1> QED BY <1>5, <1>6

(* The message is freed, and nobody has it any more.                       *)
LEMMA ReturnStep ==
  ASSUME AInv, ATypeOK', NEW t \in Threads, ReturnMessage(t)
  PROVE  PcInv' /\ OwnInv' /\ MadeInv' /\ SyncInv' /\ PlaceInv'
<1>m. PICK m : m = mine[t]
  OBVIOUS
<1>0. /\ ATypeOK /\ PcInv /\ OwnInv /\ m \in Messages /\ m # NoMsg /\ m \notin Free
      /\ pc[t] = "return" /\ GoOn(t)
  BY <1>m, Parts DEF PcInv, OwnInv, ReturnMessage
<1>1. /\ \A x \in Messages : x # m => msg'[x] = msg[x]
      /\ msg'[m].isSync = FALSE
  BY <1>m, <1>0 DEF ReturnMessage, ATypeOK, Cleared
<1>2. m \notin Out /\ \A u \in Threads \ {t} : mine[u] # m
  BY <1>m, <1>0, LastHolder
<1>3. UNCHANGED <<outMessages, inMessages, made, dropped>>
  BY DEF ReturnMessage, queues
<1>4. Free' = Free \cup {m} /\ IsInjective(freeMessageQueue')
  BY <1>m, <1>0, AppendElements DEF Free, ReturnMessage, ATypeOK, OwnInv
<1>5. /\ PcInv' /\ OwnInv' /\ MadeInv'
      /\ \A x \in Messages : x # m /\ msg'[x].isSync => SyncOK(x)'
      /\ \A x \in 1..made : x # m => \/ x \in Free' \cup Out' \cup In' \cup dropped'
                                     \/ \E u \in Threads : mine'[u] = x \/ Second(u)' = x
  <2>1. GoneOn(t, m)
    BY <1>m, <1>0, <1>1, <1>2, <1>3, <1>4, GoOnStep
  <2> QED BY <2>1 DEF GoneOn
<1>6. SyncInv' /\ PlaceInv'
  BY <1>1, <1>3, <1>4, <1>5 DEF SyncInv, PlaceInv
<1> QED BY <1>5, <1>6

-----------------------------------------------------------------------------
(* Steps of the engine                                                     *)

(* A synchronous message the engine handles or has just answered has been  *)
(* pushed, and is nobody's but its sender's.                               *)
LEMMA Handled ==
  ASSUME AInv, NEW m, m = mine[Engine], pc[Engine] \in {"handle", "set"}, msg[m].isSync
  PROVE  /\ m \in Messages /\ m # NoMsg /\ m \notin Out /\ SyncOK(m)
         /\ EngineHas(m) /\ ~InPush(m) /\ other[Engine] = NoMsg
<1>0. /\ PcInv /\ OwnInv /\ SyncInv /\ Engine \in Threads
      /\ m \in Messages /\ m # NoMsg /\ m \notin Out
  BY Parts DEF PcInv, OwnInv
<1>1. SyncOK(m) /\ EngineHas(m)
  BY <1>0 DEF SyncInv, EngineHas
<1>2. ~InPush(m)
  BY <1>1 DEF SyncOK, FirstRelease, SecondRelease
<1> QED BY <1>0, <1>1, <1>2 DEF PcInv

(* A reply is made and given to a sender that still waits for it.          *)
LEMMA ReplyStep ==
  ASSUME AInv, ATypeOK', ReplySync
  PROVE  PcInv' /\ OwnInv' /\ MadeInv' /\ SyncInv' /\ PlaceInv'
<1>m. PICK m : m = mine[Engine]
  OBVIOUS
<1>0. /\ ATypeOK /\ PcInv /\ OwnInv /\ MadeInv /\ SyncInv /\ PlaceInv
      /\ Engine \in Threads /\ Clients \subseteq Threads /\ Engine \notin Clients
      /\ \A u \in Threads : u \in Clients \/ u = Engine
      /\ NoMsg \notin Out /\ NoMsg \notin In /\ NoMsg \notin Free /\ NoMsg \notin Messages
      /\ In \subseteq Messages
  BY Parts
<1>1. /\ m \in Messages /\ m # NoMsg /\ m \notin Out /\ msg[m].isSync /\ SyncOK(m)
      /\ EngineHas(m) /\ ~InPush(m) /\ other[Engine] = NoMsg /\ pc[Engine] = "handle"
  BY <1>m, Handled DEF ReplySync
<1>2. /\ UNCHANGED <<outMessages, inMessages, mine, other, dropped>>
      /\ pc'[Engine] = "set" /\ \A u \in Threads \ {Engine} : pc'[u] = pc[u]
  BY <1>0 DEF ReplySync, queues, Goto, ATypeOK
<1>3. Out' = Out /\ In' = In /\ \A x : EngineHas(x)' <=> EngineHas(x)
  BY <1>2 DEF Out, In, EngineHas
<1>4. (HasSender(m)' <=> HasSender(m)) /\ (InPush(m)' <=> InPush(m)) /\ (Waits(m)' <=> Waits(m))
  <2>1. \A d \in Clients : mine'[d] = mine[d] /\ pc'[d] = pc[d]
    BY <1>0, <1>2
  <2> QED BY <2>1 DEF HasSender, InPush, Waits
<1>5. CASE UNCHANGED <<pool, msg>> /\ msg[m].isSyncTimeout
  <2>1. UNCHANGED <<freeMessageQueue, made, msg>> /\ Free' = Free
    BY <1>5 DEF pool, Free
  <2>2. \A u \in Threads : Second(u)' = Second(u)
    BY <1>0, <1>2, <2>1 DEF Second, Calling
  <2>3. PcInv' /\ OwnInv' /\ MadeInv' /\ PlaceInv'
    <3>1. PcInv'
      BY <1>m, <1>0, <1>1, <1>2, <2>1 DEF PcInv
    <3>2. OwnInv'
      BY <1>0, <1>2, <1>3, <2>1, <2>2 DEF OwnInv
    <3>3. MadeInv' /\ PlaceInv'
      BY <1>0, <1>2, <1>3, <2>1, <2>2 DEF MadeInv, PlaceInv
    <3> QED BY <3>1, <3>2, <3>3
  <2>4. SyncInv'
    <3> SUFFICES ASSUME NEW x \in Messages, msg[x].isSync, SyncOK(x) PROVE SyncOK(x)'
      BY <1>0, <2>1 DEF SyncInv
    <3>1. CASE x # m
      BY <1>m, <1>2, <1>3, <2>1, <3>1, SyncFrame
    <3>2. CASE x = m
      <4>1. FirstRelease(m)' /\ SecondRelease(m)'
        BY <1>0, <1>1, <1>2, <1>3, <1>4, <2>1 DEF SyncOK, FirstRelease, SecondRelease
      <4>2. NotAnswered(m)'
        BY <1>1, <1>2, <1>3, <1>4, <2>1 DEF SyncOK, NotAnswered
      <4>3. Outcome(m)'
        BY <1>0, <1>1, <1>2, <1>4, <1>5, <2>1 DEF SyncOK, Outcome
      <4> QED BY <1>1, <2>1, <3>2, <4>1, <4>2, <4>3 DEF SyncOK
    <3> QED BY <3>1, <3>2
  <2> QED BY <2>3, <2>4
<1>6. ASSUME NEW r \in Messages, GetMessage(r), ~msg[m].isSyncTimeout,
             msg' = [msg EXCEPT ![r] = Cleared("plain", FALSE), ![mine[Engine]].replyMessage = r]
      PROVE  PcInv' /\ OwnInv' /\ MadeInv' /\ SyncInv' /\ PlaceInv'
  <2>1. /\ r \in 1..made' /\ r # NoMsg
        /\ made' \in 0..MaxMessages /\ made <= made' /\ 1..made' \subseteq 1..made \cup {r}
        /\ IsInjective(freeMessageQueue')
        /\ Free' = Free \ {r} /\ r \notin Out /\ r \notin In
        /\ \A u \in Threads : mine[u] # r /\ Second(u) # r
    BY <1>0, <1>6, GetMessageIs
  <2>2. /\ \A x \in Messages : x # m /\ x # r => msg'[x] = msg[x]
        /\ ~msg'[r].isSync
        /\ msg'[m].replyMessage = r
        /\ msg'[m].isSync = msg[m].isSync /\ msg'[m].isSyncFini = msg[m].isSyncFini
        /\ msg'[m].isSyncTimeout = msg[m].isSyncTimeout
        /\ msg'[m].signal = msg[m].signal /\ msg'[m].event = msg[m].event
    <3>0. r # m /\ msg \in [Messages -> Fields] /\ msg[m] \in Fields
      BY <1>m, <1>0, <1>1, <2>1 DEF ATypeOK
    <3>1. /\ msg'[m] = [msg[m] EXCEPT !.replyMessage = r]
          /\ msg'[r] = Cleared("plain", FALSE)
          /\ \A x \in Messages : x # m /\ x # r => msg'[x] = msg[x]
      BY <1>m, <1>1, <1>6, <3>0
    <3> QED BY <3>0, <3>1 DEF Fields, Cleared
  <2>3. PICK c \in Clients : mine[c] = m /\ pc[c] \in {"signal", "wait", "late"}
    <3>1. msg[m].replyMessage = NoMsg
      BY <1>m, <1>1 DEF SyncOK, NotAnswered
    <3>2. Waits(m)
      BY <1>1, <1>6, <3>1 DEF SyncOK, Outcome
    <3> QED BY <1>1, <3>2 DEF Waits, InPush
  <2>4. \A u \in Clients \ {c} : mine[u] # m
    BY <1>0, <1>1, <2>3 DEF OwnInv
  <2>5. \A u \in Threads : mine[u] # NoMsg => msg'[mine[u]].isSync = msg[mine[u]].isSync
    BY <2>1, <2>2, Parts
  <2>6. Second(c) = NoMsg /\ Second(c)' = r /\ \A u \in Threads \ {c} : Second(u)' = Second(u)
    <3>1. Second(c) = NoMsg
      BY <1>m, <1>1, <2>3 DEF Second, Calling, SyncOK, NotAnswered
    <3>2. Second(c)' = r
      BY <1>0, <1>1, <1>2, <2>2, <2>3 DEF Second, Calling
    <3>3. ASSUME NEW u \in Clients \ {c} PROVE Second(u)' = Second(u)
      <4>1. mine[u] # NoMsg => msg'[mine[u]] = msg[mine[u]]
        BY <1>0, <2>1, <2>2, <2>4, Parts
      <4> QED BY <1>0, <1>2, <4>1 DEF Second, Calling
    <3>4. Second(Engine)' = Second(Engine)
      BY <1>0, <1>2 DEF Second
    <3> QED BY <1>0, <3>1, <3>2, <3>3, <3>4
  <2>7. PcInv'
    BY <1>m, <1>0, <1>1, <1>2, <2>5 DEF PcInv
  <2>8. OwnInv'
    <3>1. \A u \in Threads : /\ {mine'[u], Second(u)'} \cap (Free' \cup In') = {}
                             /\ Second(u)' \notin Out'
      BY <1>0, <1>2, <1>3, <2>1, <2>6 DEF OwnInv
    <3>2. \A u, v \in Threads : Second(u)' = Second(v)' /\ u # v => Second(u)' = NoMsg
      BY <1>0, <2>1, <2>6 DEF OwnInv
    <3>3. \A u, v \in Threads : mine'[u] = Second(v)' => mine'[u] = NoMsg
      BY <1>0, <1>2, <2>1, <2>6 DEF OwnInv
    <3>4. \A d \in Clients : EngineHas(mine[d])' => mine'[d] = NoMsg \/ msg'[mine'[d]].isSync
      <4>1. \A d \in Clients : EngineHas(mine[d])' <=> EngineHas(mine[d])
        BY <1>2 DEF EngineHas, Out
      <4> QED BY <1>0, <1>2, <2>5, <4>1 DEF OwnInv
    <3> QED BY <1>0, <1>2, <1>3, <2>1, <3>1, <3>2, <3>3, <3>4 DEF OwnInv
  <2>9. MadeInv'
    <3>1. 0..made \subseteq 0..made' /\ 1..made \subseteq 1..made' /\ NoMsg \in 0..made' /\ r \in 0..made'
      BY <1>0, <2>1 DEF ATypeOK, NoMsg
    <3>2. Free' \cup Out' \cup In' \subseteq 1..made'
      BY <1>0, <1>3, <2>1, <3>1 DEF MadeInv
    <3>3. \A u \in Threads : mine'[u] \in 0..made' /\ Second(u)' \in 0..made'
      BY <1>0, <1>2, <2>6, <3>1 DEF MadeInv
    <3>4. \A x \in Messages : x # r => msg'[x].isSync = msg[x].isSync
      BY <2>2
    <3>5. \A x \in In' : ~msg'[x].isSync
      BY <1>0, <1>3, <2>1, <3>4 DEF MadeInv
    <3>6. \A u \in Threads : Second(u)' # NoMsg => ~msg'[Second(u)'].isSync
      <4>1. \A u \in Threads \ {c} : Second(u) # NoMsg => ~msg'[Second(u)].isSync
        BY <1>0, <2>1, <3>4, Parts DEF MadeInv
      <4> QED BY <2>2, <2>6, <4>1
    <3> QED BY <3>2, <3>3, <3>5, <3>6 DEF MadeInv
  <2>10. SyncInv'
    <3> SUFFICES ASSUME NEW x \in Messages, msg'[x].isSync PROVE SyncOK(x)'
      BY DEF SyncInv
    <3>0. x # r /\ msg[x].isSync /\ SyncOK(x)
      BY <1>0, <1>1, <2>2 DEF SyncInv
    <3>1. CASE x # m
      BY <1>m, <1>2, <1>3, <2>2, <3>0, <3>1, SyncFrame
    <3>2. CASE x = m
      <4>1. FirstRelease(m)' /\ SecondRelease(m)'
        BY <1>0, <1>1, <1>2, <1>3, <1>4, <2>2 DEF SyncOK, FirstRelease, SecondRelease
      <4>2. NotAnswered(m)'
        BY <1>1, <1>2, <1>3, <1>4, <2>2 DEF NotAnswered
      <4>3. Outcome(m)'
        <5>1. \A d \in Clients : mine'[d] = m => pc'[d] \notin {"release", "return"}
          <6>1. \A d \in Clients : mine'[d] = mine[d] /\ pc'[d] = pc[d]
            BY <1>0, <1>2
          <6> QED BY <2>3, <2>4, <6>1
        <5>2. msg'[m].replyMessage # NoMsg /\ ~msg'[m].isSyncTimeout
          BY <1>6, <2>1, <2>2
        <5> QED BY <5>1, <5>2 DEF Outcome
      <4> QED BY <1>1, <2>2, <3>2, <4>1, <4>2, <4>3 DEF SyncOK
    <3> QED BY <3>1, <3>2
  <2>11. PlaceInv'
    <3> SUFFICES ASSUME NEW x \in 1..made', x # r, x \notin Free' \cup Out' \cup In' \cup dropped'
                 PROVE  \E u \in Threads : mine'[u] = x \/ Second(u)' = x
      BY <1>0, <2>6 DEF PlaceInv
    <3>1. PICK u \in Threads : mine[u] = x \/ Second(u) = x
      BY <1>0, <1>2, <1>3, <2>1 DEF PlaceInv
    <3>2. x # NoMsg
      BY <2>1 DEF NoMsg
    <3> QED BY <1>2, <2>6, <3>1, <3>2
  <2> QED BY <2>7, <2>8, <2>9, <2>10, <2>11
<1> QED BY <1>m, <1>5, <1>6 DEF ReplySync

(* The event of an answered message is set.                                *)
LEMMA SetStep ==
  ASSUME AInv, ATypeOK', SetEvent
  PROVE  PcInv' /\ OwnInv' /\ MadeInv' /\ SyncInv' /\ PlaceInv'
<1>m. PICK m : m = mine[Engine]
  OBVIOUS
<1>0. /\ ATypeOK /\ PcInv /\ OwnInv /\ MadeInv /\ SyncInv /\ PlaceInv
      /\ Engine \in Threads /\ Clients \subseteq Threads /\ Engine \notin Clients
      /\ \A u \in Threads : u \in Clients \/ u = Engine
  BY Parts
<1>1. /\ m \in Messages /\ m # NoMsg /\ m \notin Out /\ msg[m].isSync /\ SyncOK(m)
      /\ EngineHas(m) /\ ~InPush(m) /\ other[Engine] = NoMsg /\ pc[Engine] = "set"
  <2>1. mine[Engine] # NoMsg /\ pc[Engine] = "set"
    BY <1>0 DEF PcInv, SetEvent
  <2>2. msg[m].isSync
    BY <1>m, <1>0, <2>1 DEF PcInv
  <2> QED BY <1>m, <2>1, <2>2, Handled
<1>2. /\ UNCHANGED <<outMessages, inMessages, freeMessageQueue, made, mine, other, dropped>>
      /\ pc'[Engine] = "release" /\ \A u \in Threads \ {Engine} : pc'[u] = pc[u]
  BY <1>0 DEF SetEvent, queues, pool, Goto, ATypeOK
<1>3. Out' = Out /\ In' = In /\ Free' = Free /\ \A x : EngineHas(x)' <=> EngineHas(x)
  BY <1>2 DEF Out, In, Free, EngineHas
<1>4. (HasSender(m)' <=> HasSender(m)) /\ (InPush(m)' <=> InPush(m)) /\ (Waits(m)' <=> Waits(m))
  <2>1. \A d \in Clients : mine'[d] = mine[d] /\ pc'[d] = pc[d]
    BY <1>0, <1>2
  <2> QED BY <2>1 DEF HasSender, InPush, Waits
<1>5. /\ \A x \in Messages : x # m => msg'[x] = msg[x]
      /\ msg'[m].event = "set"
      /\ msg'[m].isSync = msg[m].isSync /\ msg'[m].isSyncFini = msg[m].isSyncFini
      /\ msg'[m].isSyncTimeout = msg[m].isSyncTimeout
      /\ msg'[m].replyMessage = msg[m].replyMessage /\ msg'[m].signal = msg[m].signal
  <2>1. msg \in [Messages -> Fields] /\ msg[m] \in Fields
    BY <1>0, <1>1 DEF ATypeOK
  <2>2. msg[m].event # "none"
    BY <1>1 DEF SyncOK
  <2>3. /\ msg'[m] = [msg[m] EXCEPT !.event = "set"]
        /\ \A x \in Messages : x # m => msg'[x] = msg[x]
    BY <1>m, <1>1, <2>1, <2>2 DEF SetEvent
  <2> QED BY <2>1, <2>3 DEF Fields
<1>6. \A u \in Threads : mine[u] # NoMsg => /\ msg'[mine[u]].isSync = msg[mine[u]].isSync
                                            /\ msg'[mine[u]].replyMessage = msg[mine[u]].replyMessage
  BY <1>5, Parts
<1>7. \A u \in Threads : Second(u)' = Second(u)
  BY <1>0, <1>2, <1>6 DEF Second, Calling
<1>8. PcInv'
  BY <1>0, <1>1, <1>2, <1>6 DEF PcInv
<1>9. OwnInv'
  BY <1>0, <1>2, <1>3, <1>6, <1>7 DEF OwnInv
<1>10. MadeInv'
  <2>1. \A x \in Messages : msg'[x].isSync = msg[x].isSync
    BY <1>5
  <2> QED BY <1>0, <1>2, <1>3, <1>7, <2>1, Parts DEF MadeInv
<1>11. SyncInv'
  <2> SUFFICES ASSUME NEW x \in Messages, msg'[x].isSync PROVE SyncOK(x)'
    BY DEF SyncInv
  <2>0. msg[x].isSync /\ SyncOK(x)
    BY <1>0, <1>5 DEF SyncInv
  <2>1. CASE x # m
    BY <1>m, <1>2, <1>3, <1>5, <2>0, <2>1, SyncFrame
  <2>2. CASE x = m
    <3>1. FirstRelease(m)' /\ SecondRelease(m)'
      BY <1>0, <1>1, <1>2, <1>3, <1>4, <1>5 DEF SyncOK, FirstRelease, SecondRelease
    <3>2. NotAnswered(m)'
      BY <1>1, <1>2, <1>3, <1>4, <1>5 DEF NotAnswered
    <3>3. Outcome(m)'
      <4>1. msg[m].replyMessage # NoMsg \/ msg[m].isSyncTimeout
        BY <1>m, <1>1 DEF SyncOK, Outcome
      <4> QED BY <1>0, <1>1, <1>2, <1>4, <1>5, <4>1 DEF SyncOK, Outcome
    <3> QED BY <1>1, <1>5, <2>2, <3>1, <3>2, <3>3 DEF SyncOK
  <2> QED BY <2>1, <2>2
<1>12. PlaceInv'
  BY <1>0, <1>2, <1>3, <1>7 DEF PlaceInv
<1> QED BY <1>8, <1>9, <1>10, <1>11, <1>12

(* The engine gets a message for its clients.                              *)
LEMMA SendInStep ==
  ASSUME AInv, ATypeOK', NEW r, GetMessage(r), msg' = [msg EXCEPT ![r] = Cleared("plain", FALSE)],
         other' = [other EXCEPT ![Engine] = r],
         pc[Engine] = "idle" \/ (pc[Engine] = "handle" /\ ~msg[mine[Engine]].isSync),
         Goto(Engine, "pushin"),
         UNCHANGED <<outMessages, inMessages, mine, dropped>>
  PROVE  PcInv' /\ OwnInv' /\ MadeInv' /\ SyncInv' /\ PlaceInv'
<1>0. /\ ATypeOK /\ PcInv /\ OwnInv /\ MadeInv /\ SyncInv /\ PlaceInv
      /\ Engine \in Threads /\ Clients \subseteq Threads /\ Engine \notin Clients
      /\ \A u \in Threads : u \in Clients \/ u = Engine
      /\ NoMsg \notin Out /\ NoMsg \notin In /\ NoMsg \notin Free /\ NoMsg \notin Messages
      /\ In \subseteq Messages
  BY Parts
<1>1. /\ r \in Messages /\ r \in 1..made' /\ r # NoMsg
      /\ made' \in 0..MaxMessages /\ made <= made' /\ 1..made' \subseteq 1..made \cup {r}
      /\ IsInjective(freeMessageQueue')
      /\ Free' = Free \ {r} /\ r \notin Out /\ r \notin In
      /\ \A u \in Threads : mine[u] # r /\ Second(u) # r
  BY <1>0, GetMessageIs
<1>2. /\ other[Engine] = NoMsg /\ other'[Engine] = r
      /\ \A u \in Threads \ {Engine} : other'[u] = other[u]
      /\ pc'[Engine] = "pushin" /\ \A u \in Threads \ {Engine} : pc'[u] = pc[u]
      /\ mine[Engine] # NoMsg => ~msg[mine[Engine]].isSync
      /\ ~msg'[r].isSync /\ \A x \in Messages : x # r => msg'[x] = msg[x]
  <2>1. other[Engine] = NoMsg /\ (mine[Engine] # NoMsg => ~msg[mine[Engine]].isSync)
    BY <1>0 DEF PcInv
  <2>2. ~msg'[r].isSync /\ \A x \in Messages : x # r => msg'[x] = msg[x]
    BY <1>0, <1>1 DEF ATypeOK, Cleared
  <2> QED BY <1>0, <2>1, <2>2 DEF ATypeOK, Goto
<1>3. Out' = Out /\ In' = In /\ \A x : EngineHas(x)' <=> EngineHas(x)
  BY DEF Out, In, EngineHas
<1>4. \A u \in Threads : mine[u] # NoMsg => msg'[mine[u]] = msg[mine[u]]
  BY <1>1, <1>2, Parts
<1>5. Second(Engine) = NoMsg /\ Second(Engine)' = r
      /\ \A u \in Threads \ {Engine} : Second(u)' = Second(u)
  <2>1. \A u \in Threads \ {Engine} : Second(u)' = Second(u)
    <3> SUFFICES ASSUME NEW u \in Threads \ {Engine} PROVE Second(u)' = Second(u)
      OBVIOUS
    <3>1. pc'[u] = pc[u] /\ other'[u] = other[u] /\ mine'[u] = mine[u]
      BY <1>2
    <3>2. mine[u] # NoMsg => msg'[mine[u]] = msg[mine[u]]
      BY <1>4
    <3>3. CASE u \in Clients
      <4>1. mine[u] = NoMsg => ~Calling(u) /\ ~Calling(u)'
        BY <3>1 DEF Calling
      <4>2. mine[u] # NoMsg => msg'[mine'[u]] = msg[mine[u]]
        BY <3>1, <3>2
      <4>3. Calling(u)' = Calling(u)
        BY <3>1, <4>1, <4>2 DEF Calling
      <4>4. Calling(u) => msg'[mine'[u]] = msg[mine[u]]
        BY <4>2 DEF Calling
      <4>5. CASE Calling(u)
        <5>1. Calling(u)' /\ msg'[mine'[u]].replyMessage = msg[mine[u]].replyMessage
          BY <4>3, <4>4, <4>5
        <5> QED BY <3>3, <4>5, <5>1 DEF Second
      <4>6. CASE ~Calling(u)
        <5>1. ~Calling(u)'
          BY <4>3, <4>6
        <5> QED BY <3>1, <4>6, <5>1 DEF Second
      <4> QED BY <4>5, <4>6
    <3>4. CASE u \notin Clients
      BY <3>1, <3>4 DEF Second
    <3> QED BY <3>3, <3>4
  <2>2. Second(Engine) = NoMsg /\ Second(Engine)' = r
    BY <1>0, <1>2 DEF Second
  <2> QED BY <2>1, <2>2
<1>6. PcInv'
  <2>1. UNCHANGED mine
    OBVIOUS
  <2>2. \A u \in Threads \ {Engine} : pc'[u] = pc[u] /\ other'[u] = other[u]
    BY <1>2
  <2>3. \A u \in Threads : pc'[u] \in {"push", "wait", "late", "release", "return", "handle", "set"}
                           => mine'[u] # NoMsg
    BY <1>0, <1>2, <2>1, <2>2 DEF PcInv
  <2>4. \A u \in Threads : pc'[u] \in {"idle", "asleep", "purgein", "purgeout"} => mine'[u] = NoMsg
    BY <1>0, <1>2, <2>1, <2>2 DEF PcInv
  <2>5. \A u \in Threads : mine'[u] # NoMsg /\ pc'[u] \in {"signal", "wait", "late", "set"}
                           => msg'[mine'[u]].isSync
    <3>1. \A u \in Threads : mine[u] # NoMsg /\ pc[u] \in {"signal", "wait", "late", "set"}
                             => msg[mine[u]].isSync
      BY <1>0 DEF PcInv
    <3>2. pc'[Engine] \notin {"signal", "wait", "late", "set"}
      BY <1>2
    <3>3. ASSUME NEW u \in Threads, mine'[u] # NoMsg, pc'[u] \in {"signal", "wait", "late", "set"}
          PROVE  msg'[mine'[u]].isSync
      <4>1. u # Engine
        BY <3>2, <3>3
      <4>2. pc[u] = pc'[u] /\ mine'[u] = mine[u]
        BY <2>1, <2>2, <4>1
      <4>3. msg'[mine[u]] = msg[mine[u]]
        BY <1>4, <3>3, <4>2
      <4>4. msg[mine[u]].isSync
        BY <3>1, <3>3, <4>2
      <4> QED BY <4>2, <4>3, <4>4
    <3> QED BY <3>3
  <2>6. \A c \in Clients : pc'[c] \in {"idle", "push", "signal", "wait", "late", "release", "return"}
    BY <1>0, <2>2 DEF PcInv
  <2>7. ASSUME NEW c \in Clients, other'[c] # NoMsg
        PROVE  pc'[c] \in {"release", "return"} /\ msg'[mine'[c]].isSync
    <3>1. c \in Threads \ {Engine} /\ other[c] # NoMsg /\ pc'[c] = pc[c] /\ mine'[c] = mine[c]
      BY <1>0, <2>1, <2>2, <2>7
    <3>2. pc[c] \in {"release", "return"} /\ msg[mine[c]].isSync /\ mine[c] # NoMsg
      BY <1>0, <2>7, <3>1 DEF PcInv
    <3> QED BY <1>4, <3>1, <3>2
  <2>8. /\ pc'[Engine] \notin {"push", "signal", "wait", "late"}
        /\ other'[Engine] # NoMsg <=> pc'[Engine] = "pushin"
    BY <1>1, <1>2
  <2>9. mine'[Engine] # NoMsg => ~msg'[mine'[Engine]].isSync
    BY <1>0, <1>2, <1>4, <2>1
  <2> QED BY <2>3, <2>4, <2>5, <2>6, <2>7, <2>8, <2>9 DEF PcInv
<1>7. OwnInv'
  <2>1. \A u \in Threads : /\ {mine'[u], Second(u)'} \cap (Free' \cup In') = {}
                           /\ Second(u)' \notin Out'
    BY <1>0, <1>1, <1>3, <1>5 DEF OwnInv
  <2>2. \A u, v \in Threads : Second(u)' = Second(v)' /\ u # v => Second(u)' = NoMsg
    BY <1>0, <1>1, <1>5 DEF OwnInv
  <2>3. \A u, v \in Threads : mine'[u] = Second(v)' => mine'[u] = NoMsg
    BY <1>0, <1>1, <1>5 DEF OwnInv
  <2>4. \A d \in Clients : EngineHas(mine[d])' => mine'[d] = NoMsg \/ msg'[mine'[d]].isSync
    <3>1. \A d \in Clients : EngineHas(mine[d])' <=> EngineHas(mine[d])
      BY DEF EngineHas, Out
    <3> QED BY <1>0, <1>4, <3>1 DEF OwnInv
  <2> QED BY <1>0, <1>1, <1>3, <2>1, <2>2, <2>3, <2>4 DEF OwnInv
<1>8. MadeInv'
  <2>1. 0..made \subseteq 0..made' /\ 1..made \subseteq 1..made' /\ r \in 0..made'
    BY <1>0, <1>1 DEF ATypeOK, NoMsg
  <2>2. Free' \cup Out' \cup In' \subseteq 1..made'
    BY <1>0, <1>1, <1>3, <2>1 DEF MadeInv
  <2>3. \A u \in Threads : mine'[u] \in 0..made' /\ Second(u)' \in 0..made'
    BY <1>0, <1>5, <2>1 DEF MadeInv
  <2>4. \A x \in In' : ~msg'[x].isSync
    BY <1>0, <1>1, <1>2, <1>3 DEF MadeInv
  <2>5. \A u \in Threads : Second(u)' # NoMsg => ~msg'[Second(u)'].isSync
    <3>1. \A u \in Threads \ {Engine} : Second(u) # NoMsg => ~msg'[Second(u)].isSync
      BY <1>0, <1>1, <1>2, Parts DEF MadeInv
    <3>2. Second(Engine)' = r /\ ~msg'[r].isSync
      BY <1>2, <1>5
    <3>3. ASSUME NEW u \in Threads \ {Engine}, Second(u)' # NoMsg PROVE ~msg'[Second(u)'].isSync
      BY <1>5, <3>1, <3>3
    <3> QED BY <3>2, <3>3
  <2> QED BY <2>2, <2>3, <2>4, <2>5 DEF MadeInv
<1>9. SyncInv'
  <2> SUFFICES ASSUME NEW x \in Messages, msg'[x].isSync PROVE SyncOK(x)'
    BY DEF SyncInv
  <2>1. x # r /\ msg'[x] = msg[x] /\ SyncOK(x) /\ x # NoMsg
    BY <1>0, <1>2 DEF SyncInv
  <2>2. x # mine[Engine]
    BY <1>2, <2>1
  <2> QED BY <1>2, <1>3, <2>1, <2>2, SyncFrame
<1>10. PlaceInv'
  <2> SUFFICES ASSUME NEW x \in 1..made', x # r, x \notin Free' \cup Out' \cup In' \cup dropped'
               PROVE  \E u \in Threads : mine'[u] = x \/ Second(u)' = x
    BY <1>0, <1>5 DEF PlaceInv
  <2>1. PICK u \in Threads : mine[u] = x \/ Second(u) = x
    BY <1>0, <1>1, <1>3 DEF PlaceInv
  <2>2. x # NoMsg
    BY <1>1 DEF NoMsg
  <2> QED BY <1>5, <2>1, <2>2
<1> QED BY <1>6, <1>7, <1>8, <1>9, <1>10

(* It pushes it.                                                           *)
LEMMA PushInStep ==
  ASSUME AInv, ATypeOK', PushIn
  PROVE  PcInv' /\ OwnInv' /\ MadeInv' /\ SyncInv' /\ PlaceInv'
<1>r. PICK r : r = other[Engine]
  OBVIOUS
<1>0. /\ ATypeOK /\ PcInv /\ OwnInv /\ MadeInv /\ SyncInv /\ PlaceInv
      /\ Engine \in Threads /\ Clients \subseteq Threads /\ Engine \notin Clients
      /\ \A u \in Threads : u \in Clients \/ u = Engine
      /\ NoMsg \notin Out /\ NoMsg \notin In /\ NoMsg \notin Free /\ NoMsg \notin Messages
  BY Parts
<1>1. /\ pc[Engine] = "pushin" /\ r \in Messages /\ r # NoMsg /\ Second(Engine) = r
      /\ mine[Engine] # NoMsg => ~msg[mine[Engine]].isSync
  BY <1>r, <1>0, Parts DEF PcInv, PushIn, Second
<1>2. /\ UNCHANGED <<outMessages, freeMessageQueue, made, msg, mine, dropped>>
      /\ other'[Engine] = NoMsg /\ \A u \in Threads \ {Engine} : other'[u] = other[u]
      /\ pc'[Engine] = (IF mine[Engine] = NoMsg THEN "idle" ELSE "release")
      /\ \A u \in Threads \ {Engine} : pc'[u] = pc[u]
  BY <1>0 DEF PushIn, pool, Goto, ATypeOK
<1>3. /\ r \notin In /\ r \notin Out /\ r \notin Free /\ ~msg[r].isSync /\ r \in 1..made
      /\ \A u \in Threads : mine[u] # r /\ (u # Engine => Second(u) # r)
  <2>1. r \in 0..made
    BY <1>0, <1>1 DEF MadeInv
  <2> QED BY <1>0, <1>1, <2>1 DEF OwnInv, MadeInv, ATypeOK, NoMsg
<1>4. In' = In \cup {r} /\ IsInjective(inMessages')
  BY <1>r, <1>0, <1>1, <1>3, AppendElements DEF In, PushIn, ATypeOK, OwnInv
<1>5. Out' = Out /\ Free' = Free /\ \A x : EngineHas(x)' <=> EngineHas(x)
  BY <1>2 DEF Out, Free, EngineHas
<1>6. Second(Engine)' = NoMsg /\ \A u \in Threads \ {Engine} : Second(u)' = Second(u)
  BY <1>0, <1>2 DEF Second, Calling
<1>7. PcInv'
  BY <1>0, <1>1, <1>2 DEF PcInv
<1>8. OwnInv'
  <2>1. \A u \in Threads : /\ {mine'[u], Second(u)'} \cap (Free' \cup In') = {}
                           /\ Second(u)' \notin Out'
    BY <1>0, <1>1, <1>2, <1>3, <1>4, <1>5, <1>6 DEF OwnInv
  <2>2. \A u, v \in Threads : Second(u)' = Second(v)' /\ u # v => Second(u)' = NoMsg
    BY <1>0, <1>6 DEF OwnInv
  <2>3. \A u, v \in Threads : mine'[u] = Second(v)' => mine'[u] = NoMsg
    BY <1>0, <1>2, <1>6 DEF OwnInv
  <2> QED BY <1>0, <1>2, <1>3, <1>4, <1>5, <2>1, <2>2, <2>3 DEF OwnInv
<1>9. MadeInv'
  <2>1. NoMsg \in 0..made
    BY <1>0 DEF ATypeOK, NoMsg
  <2> QED BY <1>0, <1>2, <1>3, <1>4, <1>5, <1>6, <2>1 DEF MadeInv
<1>10. SyncInv'
  <2> SUFFICES ASSUME NEW x \in Messages, msg[x].isSync, SyncOK(x) PROVE SyncOK(x)'
    BY <1>0, <1>2 DEF SyncInv
  <2>1. x # mine[Engine]
    BY <1>0, <1>1
  <2> QED BY <1>2, <1>5, <2>1, SyncFrame
<1>11. PlaceInv'
  BY <1>0, <1>1, <1>2, <1>4, <1>5, <1>6 DEF PlaceInv
<1> QED BY <1>7, <1>8, <1>9, <1>10, <1>11

(* A purge of "change" takes no synchronous message away from its sender.  *)
LEMMA PurgeOutStep ==
  ASSUME AInv, ATypeOK', PurgeOut("change")
  PROVE  PcInv' /\ OwnInv' /\ MadeInv' /\ SyncInv' /\ PlaceInv'
<1>0. /\ ATypeOK /\ PcInv /\ OwnInv /\ MadeInv /\ SyncInv /\ PlaceInv
      /\ Engine \in Threads /\ Clients \subseteq Threads /\ Engine \notin Clients
      /\ \A u \in Threads : u \in Clients \/ u = Engine
      /\ Out \subseteq Messages
  BY Parts
<1>1. /\ UNCHANGED <<inMessages, freeMessageQueue, made, msg, pc, mine, other>>
      /\ In' = In /\ Free' = Free /\ \A u \in Threads : Second(u)' = Second(u)
  BY DEF PurgeOut, pool, threads, In, Free, Second, Calling
<1>2. /\ Out' = Out \cap {m \in Messages : msg[m].signal # "change"}
      /\ IsInjective(outMessages') /\ dropped' = dropped \cup (Out \ Out')
  BY <1>0, KeptElements DEF PurgeOut, Out, ATypeOK, OwnInv
<1>3. PcInv'
  BY <1>0, <1>1 DEF PcInv
<1>4. OwnInv'
  BY <1>0, <1>1, <1>2 DEF OwnInv, EngineHas
<1>5. MadeInv'
  BY <1>0, <1>1, <1>2 DEF MadeInv
<1>6. SyncInv'
  <2> SUFFICES ASSUME NEW x \in Messages, msg[x].isSync, SyncOK(x) PROVE SyncOK(x)'
    BY <1>0, <1>1 DEF SyncInv
  <2>1. x \in Out' <=> x \in Out
    BY <1>2 DEF SyncOK
  <2> QED BY <1>1, <2>1, SyncFrame
<1>7. PlaceInv'
  BY <1>0, <1>1, <1>2 DEF PlaceInv
<1> QED BY <1>3, <1>4, <1>5, <1>6, <1>7

-----------------------------------------------------------------------------
(* The invariant                                                           *)

(* A new port has no messages.                                             *)
LEMMA InitAInv == Init => AInv
<1> SUFFICES ASSUME Init PROVE AInv
  OBVIOUS
<1>0. /\ ATypeOK /\ Engine \in Threads /\ Clients \subseteq Threads /\ Engine \notin Clients
      /\ \A t \in Threads : t \in Clients \/ t = Engine
  BY TypeInit, ThreadsAre
<1>1. /\ outMessages = <<>> /\ inMessages = <<>> /\ freeMessageQueue = <<>> /\ made = 0
      /\ \A t \in Threads : pc[t] = "idle" /\ mine[t] = NoMsg /\ other[t] = NoMsg
      /\ \A m \in Messages : ~msg[m].isSync
  BY DEF Init, Cleared
<1>2. Out = {} /\ In = {} /\ Free = {}
  BY <1>1 DEF Out, In, Free, ToSet
<1>3. \A t \in Threads : Second(t) = NoMsg
  BY <1>1 DEF Second, Calling
<1>4. PcInv
  BY <1>0, <1>1 DEF PcInv
<1>5. OwnInv
  <2>1. IsInjective(<<>>)
    BY DEF IsInjective
  <2>2. IsInjective(freeMessageQueue) /\ IsInjective(outMessages) /\ IsInjective(inMessages)
    BY <1>1, <2>1
  <2> QED BY <1>0, <1>1, <1>2, <1>3, <2>2 DEF OwnInv, EngineHas
<1>6. MadeInv
  BY <1>1, <1>2, <1>3 DEF MadeInv, NoMsg
<1>7. SyncInv /\ PlaceInv
  BY <1>1 DEF SyncInv, PlaceInv
<1> QED BY <1>0, <1>4, <1>5, <1>6, <1>7 DEF AInv

(* The invariant is inductive: one step per action, a lemma each.          *)
LEMMA NextAInv ==
  ASSUME AInv, [Next]_vars
  PROVE  AInv'
<1>0. /\ ATypeOK' /\ ATypeOK /\ Engine \in Threads /\ Clients \subseteq Threads
      /\ Engine \notin Clients
  BY TypeNext, Parts
<1> DEFINE Done == PcInv' /\ OwnInv' /\ MadeInv' /\ SyncInv' /\ PlaceInv'
<1>p. \A t \in Threads : \A step :
       Goto(t, step) => pc'[t] = step /\ \A u \in Threads \ {t} : pc'[u] = pc[u]
  BY <1>0 DEF Goto, ATypeOK
<1>1. ASSUME NEW c \in Clients, NEW s \in Signals, SendOutMessage(c, s) PROVE Done
  <2> DEFINE f == Cleared(s, TRUE)
  <2>1. /\ f \in Fields /\ ~f.isSync /\ ~f.isSyncFini /\ ~f.isSyncTimeout /\ f.replyMessage = NoMsg
    BY DEF Cleared, Fields
  <2>2. PICK m \in Messages : /\ GetMessage(m) /\ msg' = [msg EXCEPT ![m] = f]
                              /\ mine' = [mine EXCEPT ![c] = m]
    BY <1>1 DEF SendOutMessage
  <2>3. /\ pc[c] = "idle" /\ Goto(c, "push")
        /\ UNCHANGED <<outMessages, inMessages, other, dropped>>
    BY <1>1 DEF SendOutMessage, queues
  <2> HIDE DEF f
  <2> QED BY <1>0, <2>1, <2>2, <2>3, SendStep
<1>2. ASSUME NEW c \in Clients, SendOutMessageSync(c) PROVE Done
  <2> DEFINE f == [Cleared("plain", TRUE) EXCEPT !.isSync = TRUE, !.event = "unset"]
  <2>1. /\ f \in Fields /\ ~f.isSyncFini /\ ~f.isSyncTimeout /\ f.replyMessage = NoMsg
        /\ f.event = "unset" /\ f.signal = "plain"
    BY DEF Cleared, Fields, Signals
  <2>2. PICK m \in Messages : /\ GetMessage(m) /\ msg' = [msg EXCEPT ![m] = f]
                              /\ mine' = [mine EXCEPT ![c] = m]
    BY <1>2 DEF SendOutMessageSync
  <2>3. /\ pc[c] = "idle" /\ Goto(c, "push")
        /\ UNCHANGED <<outMessages, inMessages, other, dropped>>
    BY <1>2 DEF SendOutMessageSync, queues
  <2> HIDE DEF f
  <2> QED BY <1>0, <2>1, <2>2, <2>3, SendStep
<1>3. ASSUME NEW c \in Clients, Push(c) PROVE Done
  BY <1>0, <1>3, PushStep
<1>4. ASSUME NEW c \in Clients, SetOutEvent(c) PROVE Done
  <2>1. Moves(c)
    BY <1>0, <1>4, <1>p DEF SetOutEvent, Moves
  <2> QED BY <1>0, <1>4, <1>p, <2>1, MoveStep DEF SetOutEvent
<1>5. ASSUME NEW c \in Clients, TimeOut(c) PROVE Done
  <2>1. Moves(c)
    BY <1>0, <1>5, <1>p DEF TimeOut, Moves
  <2> QED BY <1>0, <1>5, <1>p, <2>1, MoveStep DEF TimeOut
<1>6. ASSUME FindNone \/ Wake \/ NoReply \/ Purge \/ PurgeDone PROVE Done
  <2>1. Moves(Engine) /\ \A u \in Threads \ {Engine} : pc'[u] = pc[u]
    BY <1>0, <1>6, <1>p DEF FindNone, Wake, NoReply, Purge, PurgeDone, Moves
  <2> QED BY <1>0, <1>6, <2>1, MoveStep DEF FindNone, Wake, NoReply, Purge, PurgeDone
<1>7. ASSUME NEW c \in Clients, Answered(c) \/ CheckReply(c) PROVE Done
  BY <1>0, <1>7, TakeStep
<1>8. ASSUME NEW c \in Clients, ReceiveInMessage(c) PROVE Done
  BY <1>0, <1>8, ReceiveInStep DEF ReceiveInMessage, pool
<1>9. ASSUME NEW t \in Threads, Release(t) PROVE Done
  BY <1>0, <1>9, ReleaseStep
<1>10. ASSUME NEW t \in Threads, ReturnMessage(t) PROVE Done
  BY <1>0, <1>10, ReturnStep
<1>11. ASSUME ReceiveOutMessage PROVE Done
  BY <1>0, <1>11, ReceiveOutStep DEF ReceiveOutMessage, pool
<1>12. ASSUME PurgeNext PROVE Done
  BY <1>0, <1>12, ReceiveInStep, ReceiveOutStep DEF PurgeNext, pool
<1>13. ASSUME ReplySync PROVE Done
  BY <1>0, <1>13, ReplyStep
<1>14. ASSUME SetEvent PROVE Done
  BY <1>0, <1>14, SetStep
<1>15. ASSUME SendInMessage PROVE Done
  <2>1. PICK r \in Messages : /\ GetMessage(r) /\ msg' = [msg EXCEPT ![r] = Cleared("plain", FALSE)]
                              /\ other' = [other EXCEPT ![Engine] = r]
    BY <1>15 DEF SendInMessage
  <2> QED BY <1>0, <1>15, <2>1, SendInStep DEF SendInMessage, queues
<1>16. ASSUME PushIn PROVE Done
  BY <1>0, <1>16, PushInStep
<1>17. ASSUME PurgeOut("change") PROVE Done
  BY <1>0, <1>17, PurgeOutStep
<1>18. ASSUME UNCHANGED vars PROVE Done
  <2>1. /\ UNCHANGED <<outMessages, inMessages, freeMessageQueue, made, msg, pc, mine, other, dropped>>
    BY <1>18 DEF vars, queues, pool, threads
  <2>2. /\ Out' = Out /\ In' = In /\ Free' = Free
        /\ \A t : Second(t)' = Second(t) /\ \A m : EngineHas(m)' <=> EngineHas(m)
    BY <2>1 DEF Out, In, Free, Second, Calling, EngineHas
  <2>3. PcInv' /\ OwnInv' /\ MadeInv' /\ PlaceInv'
    BY <2>1, <2>2, Parts DEF PcInv, OwnInv, MadeInv, PlaceInv
  <2>4. SyncInv'
    BY <2>1, <2>2, Parts, SyncFrame DEF SyncInv
  <2> QED BY <2>3, <2>4
<1>19. Done
  <2> HIDE DEF Done
  <2> QED
    BY <1>0, <1>1, <1>2, <1>3, <1>4, <1>5, <1>6, <1>7, <1>8, <1>9, <1>10, <1>11, <1>12, <1>13,
       <1>14, <1>15, <1>16, <1>17, <1>18
    DEF Next, ClientCalls, ClientStep, EngineStep, EngineMay, Handle
<1> QED BY <1>0, <1>19 DEF AInv

(* It holds always.                                                        *)
LEMMA Invariance == Spec => []AInv
<1>1. AInv /\ [Next]_vars => AInv'
  BY NextAInv
<1> QED BY <1>1, InitAInv, PTL DEF Spec

-----------------------------------------------------------------------------
(* What PurgeOut took                                                      *)

Somewhere(m) ==
  m \in Free \cup Out \cup In \/ \E t \in Threads : mine[t] = m \/ Second(t) = m

GoneInv == dropped \subseteq 1..made /\ \A m \in dropped : ~Somewhere(m)

(* A message that is nowhere is not what a client's reply or a thread's    *)
(* second message is either.                                               *)
LEMMA NowhereIs ==
  ASSUME AInv, NEW x \in 1..made, ~Somewhere(x)
  PROVE  /\ x # NoMsg /\ x \notin Free /\ x \notin Out /\ x \notin In
         /\ \A t \in Threads : mine[t] # x /\ other[t] # x
         /\ \A c \in Clients : Calling(c) => msg[mine[c]].replyMessage # x
         /\ \A m : GetMessage(m) => m # x
<1>0. /\ PcInv /\ Clients \subseteq Threads /\ made \in Nat
      /\ x # NoMsg /\ x \notin Free /\ x \notin Out /\ x \notin In
      /\ \A t \in Threads : mine[t] # x /\ Second(t) # x
  BY Parts, ThreadsAssumption DEF Somewhere, NoMsg, AInv, ATypeOK
<1>1. \A c \in Clients : Calling(c) => other[c] = NoMsg /\ msg[mine[c]].replyMessage # x
  BY <1>0 DEF PcInv, Calling, Second
<1>2. \A t \in Threads : other[t] # x
  BY <1>0, <1>1 DEF Second
<1>3. ASSUME NEW m, GetMessage(m) PROVE m # x
  <2>1. CASE freeMessageQueue # <<>> /\ m = Head(freeMessageQueue)
    <3>1. freeMessageQueue \in Seq(Messages) /\ IsInjective(freeMessageQueue)
      BY Parts DEF ATypeOK, OwnInv
    <3>2. m \in Free
      BY <2>1, <3>1, TailElements DEF Free
    <3> QED BY <1>0, <3>2
  <2>2. CASE m = made + 1
    BY <1>0, <2>2
  <2> QED BY <1>3, <2>1, <2>2 DEF GetMessage
<1> QED BY <1>0, <1>1, <1>2, <1>3

(* Such a message is handed out, queued or taken by nobody.                *)
LEMMA NothingReturns ==
  ASSUME AInv, AInv', Next, NEW x \in 1..made, ~Somewhere(x)
  PROVE  ~Somewhere(x)'
<1>0. /\ x # NoMsg /\ x \notin Free /\ x \notin Out /\ x \notin In
      /\ \A t \in Threads : mine[t] # x /\ other[t] # x
      /\ \A c \in Clients : Calling(c) => msg[mine[c]].replyMessage # x
      /\ \A m : GetMessage(m) => m # x
  BY NowhereIs
<1>1. /\ ATypeOK /\ PcInv /\ OwnInv /\ MadeInv /\ SyncInv /\ PcInv'
      /\ Engine \in Threads /\ Clients \subseteq Threads /\ Engine \notin Clients
      /\ \A t \in Threads : t \in Clients \/ t = Engine
  BY Parts DEF AInv
<1>2. /\ outMessages \in Seq(Messages) /\ inMessages \in Seq(Messages)
      /\ freeMessageQueue \in Seq(Messages) /\ msg \in [Messages -> Fields]
      /\ pc \in [Threads -> Steps] /\ DOMAIN mine = Threads /\ DOMAIN other = Threads
      /\ \A t \in Threads : mine[t] # NoMsg => mine[t] \in Messages
  BY <1>1 DEF ATypeOK
<1> DEFINE Reply(c) == Calling(c)' => msg'[mine'[c]].replyMessage # x
           Nowhere == /\ x \notin Free' /\ x \notin Out' /\ x \notin In'
                      /\ \A t \in Threads : mine'[t] # x /\ other'[t] # x
                      /\ \A c \in Clients : Reply(c)
<1>3. SUFFICES Nowhere
  BY <1>1 DEF Somewhere, Second
<1>4. \A m : GetMessage(m) => /\ m # x /\ m \in Messages /\ x \notin Free'
                              /\ \A t \in Threads : mine[t] # m
  <2> SUFFICES ASSUME NEW m, GetMessage(m)
               PROVE  /\ m # x /\ m \in Messages /\ x \notin Free'
                      /\ \A t \in Threads : mine[t] # m
    OBVIOUS
  <2> QED BY <1>0, <1>1, GetMessageIs
<1>5. /\ UNCHANGED outMessages => x \notin Out'
      /\ UNCHANGED inMessages => x \notin In'
      /\ UNCHANGED freeMessageQueue => x \notin Free'
  BY <1>0 DEF Out, In, Free
<1>6. ASSUME NEW c \in Clients, Calling(c)' => Calling(c), mine'[c] = mine[c],
             Calling(c) => msg'[mine[c]].replyMessage = msg[mine[c]].replyMessage
      PROVE  Reply(c)
  BY <1>0, <1>6
<1>7. /\ outMessages # <<>> => ToSet(Tail(outMessages)) \subseteq Out /\ Head(outMessages) \in Out
      /\ inMessages # <<>> => ToSet(Tail(inMessages)) \subseteq In /\ Head(inMessages) \in In
  BY <1>1, <1>2, TailElements DEF OwnInv, Out, In
<1>8. \A t \in Threads : \A step : Goto(t, step) =>
        pc'[t] = step /\ \A u \in Threads : u # t => pc'[u] = pc[u]
  BY <1>1, <1>2 DEF Goto, ATypeOK
<1>9. \A m \in Messages, s \in {outMessages, inMessages, freeMessageQueue} :
        ToSet(Append(s, m)) = ToSet(s) \cup {m}
  BY <1>2, AppendElements
<1> HIDE DEF Reply
<1>10. ASSUME NEW c \in Clients, NEW s \in Signals, SendOutMessage(c, s) \/ SendOutMessageSync(c)
       PROVE  Nowhere
  <2>1. PICK m, f :
          /\ m \in Messages
          /\ GetMessage(m) /\ f.replyMessage = NoMsg
          /\ msg' = [msg EXCEPT ![m] = f] /\ mine' = [mine EXCEPT ![c] = m]
    <3>1. CASE SendOutMessage(c, s)
      BY <3>1 DEF SendOutMessage, Cleared
    <3>2. CASE SendOutMessageSync(c)
      <4> DEFINE f == [Cleared("plain", TRUE) EXCEPT !.isSync = TRUE, !.event = "unset"]
      <4>1. f.replyMessage = NoMsg
        BY DEF Cleared
      <4> HIDE DEF f
      <4> QED BY <3>2, <4>1 DEF SendOutMessageSync, f
    <3> QED BY <1>10, <3>1, <3>2
  <2>2. /\ UNCHANGED <<outMessages, inMessages, other>>
        /\ pc[c] = "idle" /\ Goto(c, "push")
    BY <1>10 DEF SendOutMessage, SendOutMessageSync, queues
  <2>3. \A t \in Threads : mine'[t] # x /\ other'[t] # x
    BY <1>0, <1>2, <1>4, <2>1, <2>2
  <2>4. ASSUME NEW d \in Clients PROVE Reply(d)
    <3>1. CASE d = c
      <4>1. msg'[mine'[c]].replyMessage = NoMsg
        BY <1>1, <1>2, <2>1
      <4> QED BY <1>0, <3>1, <4>1 DEF Reply
    <3>2. CASE d # c
      <4>1. mine'[d] = mine[d] /\ pc'[d] = pc[d] /\ mine[d] # m
        BY <1>1, <1>2, <1>4, <1>8, <2>1, <2>2, <3>2
      <4>2. msg'[mine[d]] = msg[mine[d]]
        BY <1>1, <1>2, <2>1, <4>1 DEF Reply
      <4>3. Calling(d)' <=> Calling(d)
        BY <4>1, <4>2 DEF Calling
      <4> QED BY <1>6, <4>1, <4>2, <4>3
    <3> QED BY <3>1, <3>2
  <2> QED BY <1>4, <1>5, <2>1, <2>2, <2>3, <2>4
<1>11. ASSUME NEW c \in Clients, Push(c) PROVE Nowhere
  <2>1. /\ pc[c] = "push" /\ mine[c] # NoMsg /\ mine[c] \in Messages
        /\ outMessages' = Append(outMessages, mine[c])
        /\ mine' = [mine EXCEPT ![c] = IF msg[mine[c]].isSync THEN @ ELSE NoMsg]
        /\ Goto(c, "signal")
        /\ UNCHANGED <<inMessages, freeMessageQueue, msg, other>>
    BY <1>1, <1>2, <1>11 DEF Push, PcInv, pool
  <2>2. x \notin Out'
    BY <1>0, <1>1, <1>9, <2>1 DEF Out
  <2>3. \A t \in Threads : mine'[t] # x /\ other'[t] # x
    BY <1>0, <1>1, <1>2, <2>1
  <2>4. ASSUME NEW d \in Clients PROVE Reply(d)
    <3>1. mine'[d] = mine[d] \/ mine'[d] = NoMsg
      BY <1>1, <1>2, <2>1
    <3>2. pc'[d] \in {"push", "signal", "wait", "late"} => pc[d] \in {"push", "signal", "wait", "late"}
      BY <1>1, <1>8, <2>1
    <3> QED BY <1>0, <2>1, <3>1, <3>2 DEF Reply, Calling
  <2> QED BY <1>5, <2>1, <2>2, <2>3, <2>4
<1>12. ASSUME NEW c \in Clients, SetOutEvent(c) \/ TimeOut(c) PROVE Nowhere
  <2>1. /\ pc[c] \in {"push", "signal", "wait", "late"}
        /\ \E step : Goto(c, step)
        /\ UNCHANGED <<outMessages, inMessages, freeMessageQueue, msg, mine, other>>
    BY <1>12 DEF SetOutEvent, TimeOut, queues, pool
  <2>2. ASSUME NEW d \in Clients PROVE Reply(d)
    <3>1. pc'[d] \in {"push", "signal", "wait", "late"} => pc[d] \in {"push", "signal", "wait", "late"}
      BY <1>1, <1>8, <2>1
    <3> QED BY <1>0, <2>1, <3>1 DEF Reply, Calling
  <2> QED BY <1>0, <1>5, <2>1, <2>2
<1>13. ASSUME NEW c \in Clients, Answered(c) \/ CheckReply(c) PROVE Nowhere
  <2>1. /\ pc[c] \in {"wait", "late"} /\ mine[c] # NoMsg /\ mine[c] \in Messages
        /\ msg[mine[c]].isSync
    BY <1>1, <1>2, <1>13 DEF PcInv, Answered, CheckReply
  <2>2. /\ Goto(c, "release")
        /\ UNCHANGED <<outMessages, inMessages, freeMessageQueue, mine>>
        /\ other' = [other EXCEPT ![c] = msg[mine[c]].replyMessage]
    BY <1>13 DEF Answered, CheckReply, queues, pool
  <2>3. \A m \in Messages : /\ msg'[m].replyMessage = msg[m].replyMessage
                             /\ msg'[m].isSync = msg[m].isSync
    <3>0. \A m \in Messages : msg[m] \in Fields
      BY <1>2
    <3>1. CASE Answered(c)
      BY <1>2, <2>1, <3>0, <3>1 DEF Answered, Fields
    <3>2. CASE CheckReply(c)
      BY <1>2, <2>1, <3>0, <3>2 DEF CheckReply, Fields
    <3> QED BY <1>13, <3>1, <3>2
  <2>4. Calling(c)
    BY <2>1 DEF Calling
  <2>5. \A t \in Threads : mine'[t] # x /\ other'[t] # x
    BY <1>0, <1>1, <1>2, <2>2, <2>4
  <2>6. ASSUME NEW d \in Clients PROVE Reply(d)
    <3>1. pc'[d] \in {"push", "signal", "wait", "late"} => pc[d] \in {"push", "signal", "wait", "late"}
      BY <1>1, <1>8, <2>2
    <3>2. mine[d] # NoMsg => mine[d] \in Messages
      BY <1>1, <1>2
    <3> QED BY <1>0, <2>2, <2>3, <3>1, <3>2 DEF Reply, Calling
  <2> QED BY <1>5, <2>2, <2>5, <2>6
<1>14. ASSUME NEW t \in Threads, (ReceiveInMessage(t) /\ t \in Clients)
                              \/ (t = Engine /\ (ReceiveOutMessage \/ PurgeNext))
       PROVE  Nowhere
  <2>1. /\ \/ /\ inMessages # <<>> /\ mine' = [mine EXCEPT ![t] = Head(inMessages)]
              /\ inMessages' = Tail(inMessages) /\ outMessages' = outMessages
           \/ /\ outMessages # <<>> /\ mine' = [mine EXCEPT ![t] = Head(outMessages)]
              /\ outMessages' = Tail(outMessages) /\ inMessages' = inMessages
        /\ \E step \in {"release", "handle"} : Goto(t, step)
        /\ UNCHANGED <<freeMessageQueue, msg, other>>
    BY <1>14 DEF ReceiveInMessage, ReceiveOutMessage, PurgeNext, pool
  <2>2. x \notin Out' /\ x \notin In'
    BY <1>0, <1>7, <2>1 DEF Out, In
  <2>3. \A u \in Threads : mine'[u] # x /\ other'[u] # x
    BY <1>0, <1>2, <1>7, <2>1
  <2>4. ASSUME NEW d \in Clients PROVE Reply(d)
    <3>1. CASE d = t
      <4>1. ~Calling(d)'
        BY <1>1, <1>8, <2>1, <3>1 DEF Calling
      <4> QED BY <4>1 DEF Reply
    <3>2. CASE d # t
      <4>1. pc'[d] = pc[d] /\ mine'[d] = mine[d]
        BY <1>1, <1>2, <1>8, <2>1, <3>2
      <4> QED BY <1>0, <2>1, <4>1 DEF Reply, Calling
    <3> QED BY <3>1, <3>2
  <2> QED BY <1>5, <2>1, <2>2, <2>3, <2>4
<1>15. ASSUME NEW t \in Threads, Release(t) \/ ReturnMessage(t) PROVE Nowhere
  <2>1. /\ pc[t] \in {"release", "return"} /\ mine[t] # NoMsg /\ mine[t] \in Messages
        /\ UNCHANGED <<outMessages, inMessages>>
        /\ GoOn(t) \/ (Goto(t, "return") /\ UNCHANGED <<mine, other>>)
        /\ freeMessageQueue' \in {freeMessageQueue, Append(freeMessageQueue, mine[t])}
    BY <1>1, <1>2, <1>15 DEF PcInv, Release, ReturnMessage, queues, pool
  <2>2. x \notin Free'
    <3>1. CASE freeMessageQueue' = freeMessageQueue
      BY <1>0, <3>1 DEF Free
    <3>2. CASE freeMessageQueue' = Append(freeMessageQueue, mine[t])
      <4>1. ToSet(Append(freeMessageQueue, mine[t])) = Free \cup {mine[t]}
        BY <1>9, <2>1 DEF Free
      <4> QED BY <1>0, <3>2, <4>1 DEF Free
    <3> QED BY <2>1, <3>1, <3>2
  <2>3. \A u \in Threads : mine'[u] # x /\ other'[u] # x
    BY <1>0, <1>2, <2>1 DEF GoOn
  <2>4. /\ \A u \in Threads : u # t => mine'[u] = mine[u] /\ pc'[u] = pc[u]
        /\ t \in Clients => pc'[t] \notin {"push", "signal", "wait", "late"}
    BY <1>1, <1>2, <1>8, <2>1 DEF GoOn
  <2>5. ASSUME NEW d \in Clients PROVE Reply(d)
    <3>1. CASE d = t
      BY <2>4, <3>1 DEF Reply, Calling
    <3>2. CASE d # t
      <4>0. d \in Threads /\ mine'[d] = mine[d] /\ pc'[d] = pc[d]
        BY <1>1, <2>4, <3>2
      <4>1. CASE mine[d] = NoMsg
        BY <4>0, <4>1 DEF Reply, Calling
      <4>2. CASE mine[d] # NoMsg /\ Release(t)
        <5>1. mine[d] \in Messages /\ msg[mine[d]] \in Fields
          BY <1>2, <4>0, <4>2
        <5>2. /\ msg'[mine[d]].replyMessage = msg[mine[d]].replyMessage
              /\ msg'[mine[d]].isSync = msg[mine[d]].isSync
          BY <1>2, <2>1, <4>2, <5>1 DEF Release, Fields
        <5> QED BY <1>0, <4>0, <5>2 DEF Reply, Calling
      <4>3. CASE mine[d] # NoMsg /\ ReturnMessage(t)
        <5>1. mine[d] \in Messages /\ msg[mine[d]] \in Fields
          BY <1>2, <4>0, <4>3
        <5>2. \/ msg'[mine[d]] = msg[mine[d]]
              \/ msg'[mine[d]].replyMessage = NoMsg
          BY <1>2, <2>1, <4>3, <5>1 DEF ReturnMessage, Cleared
        <5> QED BY <1>0, <4>0, <5>2 DEF Reply, Calling
      <4> QED BY <1>15, <4>1, <4>2, <4>3
    <3> QED BY <3>1, <3>2
  <2> QED BY <1>5, <2>1, <2>2, <2>3, <2>5
<1>16. ASSUME FindNone \/ Wake \/ NoReply \/ Purge \/ PurgeDone \/ SetEvent PROVE Nowhere
  <2>1. /\ UNCHANGED <<outMessages, inMessages, freeMessageQueue, mine, other>>
        /\ \E step : Goto(Engine, step)
    BY <1>16 DEF FindNone, Wake, NoReply, Purge, PurgeDone, SetEvent, queues, pool
  <2>2. \A m \in Messages : /\ msg'[m].replyMessage = msg[m].replyMessage
                             /\ msg'[m].isSync = msg[m].isSync
    <3>1. CASE SetEvent
      <4>1. mine[Engine] \in Messages /\ \A m \in Messages : msg[m] \in Fields
        BY <1>1, <1>2, <3>1 DEF SetEvent, PcInv
      <4> QED BY <1>2, <3>1, <4>1 DEF SetEvent, Fields
    <3>2. CASE msg' = msg
      BY <3>2
    <3> QED BY <1>16, <3>1, <3>2 DEF FindNone, Wake, NoReply, Purge, PurgeDone
  <2>3. ASSUME NEW d \in Clients PROVE Reply(d)
    <3>1. pc'[d] = pc[d] /\ (mine[d] # NoMsg => mine[d] \in Messages)
      BY <1>1, <1>2, <1>8, <2>1
    <3> QED BY <1>0, <2>1, <2>2, <3>1 DEF Reply, Calling
  <2> QED BY <1>0, <1>5, <2>1, <2>3
<1>17. ASSUME ReplySync PROVE Nowhere
  <2>1. /\ UNCHANGED <<outMessages, inMessages, mine, other>> /\ Goto(Engine, "set")
        /\ mine[Engine] \in Messages
    BY <1>1, <1>2, <1>17 DEF ReplySync, PcInv, queues
  <2>2. x \notin Free' /\ \A m \in Messages :
          \/ msg'[m] = msg[m] \/ \A t \in Threads : mine[t] # m
          \/ msg'[m].replyMessage # x /\ msg'[m].isSync = msg[m].isSync
    <3>1. CASE UNCHANGED <<pool, msg>>
      BY <1>5, <3>1 DEF pool
    <3>2. ASSUME NEW r \in Messages, GetMessage(r),
                 msg' = [msg EXCEPT ![r] = Cleared("plain", FALSE),
                                    ![mine[Engine]].replyMessage = r]
          PROVE  \A m \in Messages :
                   \/ msg'[m] = msg[m] \/ \A t \in Threads : mine[t] # m
                   \/ msg'[m].replyMessage # x /\ msg'[m].isSync = msg[m].isSync
      <4>1. r # x /\ mine[Engine] # r /\ \A t \in Threads : mine[t] # r
        BY <1>1, <1>4, <3>2
      <4>2. msg[mine[Engine]] \in Fields
        BY <1>2, <2>1
      <4>3. \A m \in Messages : m # r /\ m # mine[Engine] => msg'[m] = msg[m]
        BY <1>2, <3>2
      <4>4. msg'[mine[Engine]] = [msg[mine[Engine]] EXCEPT !.replyMessage = r]
        BY <1>2, <2>1, <3>2, <4>1
      <4>5. msg'[mine[Engine]].replyMessage = r
            /\ msg'[mine[Engine]].isSync = msg[mine[Engine]].isSync
        BY <4>2, <4>4 DEF Fields
      <4> QED BY <4>1, <4>3, <4>5
    <3> QED BY <1>4, <1>17, <3>1, <3>2 DEF ReplySync
  <2>3. ASSUME NEW d \in Clients PROVE Reply(d)
    <3>1. d \in Threads /\ pc'[d] = pc[d] /\ (mine[d] # NoMsg => mine[d] \in Messages)
      BY <1>1, <1>2, <1>8, <2>1
    <3> QED BY <1>0, <2>1, <2>2, <3>1 DEF Reply, Calling
  <2> QED BY <1>0, <1>5, <2>1, <2>2, <2>3
<1>18. ASSUME SendInMessage PROVE Nowhere
  <2>1. PICK r \in Messages : /\ GetMessage(r)
                              /\ msg' = [msg EXCEPT ![r] = Cleared("plain", FALSE)]
                              /\ other' = [other EXCEPT ![Engine] = r]
    BY <1>18 DEF SendInMessage
  <2>2. UNCHANGED <<outMessages, inMessages, mine>> /\ Goto(Engine, "pushin")
    BY <1>18 DEF SendInMessage, queues
  <2>3. ASSUME NEW d \in Clients PROVE Reply(d)
    <3>1. d \in Threads /\ pc'[d] = pc[d] /\ mine[d] # r
      BY <1>1, <1>4, <1>8, <2>1, <2>2
    <3>2. mine[d] # NoMsg => msg'[mine[d]] = msg[mine[d]]
      BY <1>2, <2>1, <3>1
    <3> QED BY <1>0, <2>2, <3>1, <3>2 DEF Reply, Calling
  <2>4. \A t \in Threads : mine'[t] # x /\ other'[t] # x
    BY <1>0, <1>2, <1>4, <2>1, <2>2
  <2> QED BY <1>4, <1>5, <2>1, <2>2, <2>3, <2>4
<1>19. ASSUME PushIn PROVE Nowhere
  <2>1. /\ other[Engine] \in Messages /\ inMessages' = Append(inMessages, other[Engine])
        /\ other' = [other EXCEPT ![Engine] = NoMsg]
        /\ UNCHANGED <<outMessages, freeMessageQueue, msg, mine>>
        /\ \E step : Goto(Engine, step)
    BY <1>1, <1>19 DEF PushIn, PcInv, ATypeOK, pool
  <2>2. x \notin In'
    BY <1>0, <1>1, <1>9, <2>1 DEF In
  <2>3. ASSUME NEW d \in Clients PROVE Reply(d)
    <3>1. pc'[d] = pc[d]
      BY <1>1, <1>8, <2>1
    <3> QED BY <1>0, <2>1, <3>1 DEF Reply, Calling
  <2> QED BY <1>0, <1>2, <1>5, <2>1, <2>2, <2>3
<1>20. ASSUME NEW s, PurgeOut(s) PROVE Nowhere
  <2>1. /\ UNCHANGED <<inMessages, freeMessageQueue, msg, pc, mine, other>>
        /\ ToSet(outMessages') \subseteq ToSet(outMessages)
    BY <1>2, <1>20, KeptElements DEF PurgeOut, pool, threads
  <2>2. \A d \in Clients : Reply(d)
    BY <1>0, <2>1 DEF Reply, Calling
  <2> QED BY <1>0, <1>5, <2>1, <2>2 DEF Out
<1> HIDE DEF Nowhere
<1>21. ASSUME NEW c \in Clients, ClientCalls(c) \/ ClientStep(c) PROVE Nowhere
  <2>1. c \in Threads /\ "plain" \in Signals
    BY <1>1 DEF Signals
  <2>2. CASE ClientCalls(c)
    BY <1>10, <1>14, <2>1, <2>2 DEF ClientCalls
  <2>3. CASE ClientStep(c)
    BY <1>11, <1>12, <1>13, <1>15, <2>1, <2>3 DEF ClientStep
  <2> QED BY <1>21, <2>2, <2>3
<1>22. ReceiveOutMessage \/ EngineStep => Nowhere
  BY <1>1, <1>14, <1>15, <1>16, <1>17, <1>19 DEF EngineStep, Handle
<1>23. EngineMay => Nowhere
  BY <1>16, <1>18, <1>20 DEF EngineMay
<1> QED BY <1>21, <1>22, <1>23 DEF Next

(* Messages are created and never deleted.                                 *)
LEMMA MadeGrows ==
  ASSUME AInv, Next
  PROVE  1..made \subseteq 1..made'
<1>0. ATypeOK /\ OwnInv /\ MadeInv /\ SyncInv /\ made \in Nat
  BY Parts, ThreadsAssumption DEF ATypeOK
<1>1. \A m : GetMessage(m) => made' = made \/ made' = made + 1
  BY DEF GetMessage
<1>2. made' = made \/ \E m : GetMessage(m)
  BY DEF Next, ClientCalls, ClientStep, EngineStep, EngineMay, Handle, SendOutMessage,
    SendOutMessageSync, ReceiveInMessage, Push, SetOutEvent, Answered, TimeOut, CheckReply,
    Release, ReturnMessage, ReceiveOutMessage, FindNone, Wake, NoReply, ReplySync, SetEvent,
    PushIn, PurgeNext, PurgeDone, Purge, SendInMessage, PurgeOut, pool
<1> QED BY <1>0, <1>1, <1>2

(* PurgeOut keeps its messages for ever.                                   *)
LEMMA NextGone ==
  ASSUME AInv, AInv', GoneInv, [Next]_vars
  PROVE  GoneInv'
<1>0. /\ ATypeOK /\ PcInv /\ OwnInv /\ MadeInv /\ SyncInv
      /\ Engine \in Threads /\ Clients \subseteq Threads
      /\ \A t \in Threads : t \in Clients \/ t = Engine
      /\ NoMsg \notin Messages /\ Out \subseteq Messages
  BY Parts
<1>1. CASE UNCHANGED vars
  BY <1>1 DEF vars, queues, pool, threads, GoneInv, Somewhere, Free, Out, In, Second, Calling
<1>2. CASE Next /\ dropped' = dropped
  <2>1. 1..made \subseteq 1..made'
    BY <1>2, MadeGrows
  <2>2. \A x \in dropped : ~Somewhere(x)'
    BY <1>2, NothingReturns DEF GoneInv
  <2> QED BY <1>2, <2>1, <2>2 DEF GoneInv
<1>3. CASE PurgeOut("change")
  <2>1. /\ UNCHANGED <<inMessages, freeMessageQueue, made, msg, pc, mine, other>>
        /\ Out' = Out \cap {m \in Messages : msg[m].signal # "change"}
        /\ dropped' = dropped \cup (Out \ Out')
    BY <1>0, <1>3, KeptElements DEF PurgeOut, pool, threads, Out, ATypeOK
  <2>2. ASSUME NEW x \in Out \ Out' PROVE x \in 1..made' /\ ~Somewhere(x)'
    <3>1. x \in Messages /\ msg[x].signal = "change" /\ x # NoMsg
      BY <1>0, <2>1
    <3>2. ~msg[x].isSync
      BY <1>0, <3>1 DEF SyncInv, SyncOK
    <3>3. \A t \in Threads : mine[t] # x
      BY <1>0, <3>1, <3>2 DEF OwnInv, EngineHas
    <3>4. \A t \in Threads : Second(t) # x /\ Second(t)' = Second(t)
      BY <1>0, <2>1 DEF OwnInv, Second, Calling
    <3>5. x \notin Free' /\ x \notin In'
      BY <1>0, <2>1 DEF OwnInv, Free, In
    <3> QED BY <1>0, <2>1, <3>3, <3>4, <3>5 DEF Somewhere, MadeInv
  <2>3. \A x \in dropped : x \in 1..made' /\ ~Somewhere(x)'
    <3>1. Next
      BY <1>3 DEF Next, EngineMay
    <3> QED BY <2>1, <3>1, NothingReturns DEF GoneInv
  <2> QED BY <2>1, <2>2, <2>3 DEF GoneInv
<1>4. Next => dropped' = dropped \/ PurgeOut("change")
  <2>1. \A t : Release(t) \/ ReturnMessage(t) => dropped' = dropped
    BY DEF Release, ReturnMessage
  <2>2. \A c \in Clients : ClientCalls(c) \/ ClientStep(c) => dropped' = dropped
    BY <2>1 DEF ClientCalls, ClientStep, SendOutMessage, SendOutMessageSync, ReceiveInMessage,
      Push, SetOutEvent, Answered, TimeOut, CheckReply
  <2>3. ReceiveOutMessage \/ EngineStep => dropped' = dropped
    BY <2>1 DEF ReceiveOutMessage, EngineStep, FindNone, Wake, Handle, NoReply, ReplySync,
      SetEvent, PushIn, PurgeNext, PurgeDone
  <2>4. EngineMay => dropped' = dropped \/ PurgeOut("change")
    BY DEF EngineMay, Purge, SendInMessage
  <2> QED BY <2>2, <2>3, <2>4 DEF Next
<1> QED BY <1>1, <1>2, <1>3, <1>4

-----------------------------------------------------------------------------
(* Theorems                                                                *)

(* Every queue holds messages and every field of a message is one of its   *)
(* values: no code path leaves a field behind that another cannot read.    *)
THEOREM TypeCorrect == Spec => []ATypeOK
<1>1. AInv => ATypeOK
  BY DEF AInv
<1> QED BY <1>1, Invariance, PTL

(* However the two releases, the time-out and the reply of synchronous     *)
(* messages interleave, a recycled message is in nobody's hands, in no     *)
(* queue, and no reply that a caller may still take.                       *)
THEOREM RecycledIsUnused == Spec => []NoUseAfterRecycle
<1>1. ASSUME AInv PROVE NoUseAfterRecycle
  <2>0. /\ ATypeOK /\ PcInv /\ OwnInv /\ NoMsg \notin Free
        /\ Clients \subseteq Threads
    BY <1>1, Parts
  <2>1. IsInjective(outMessages \o inMessages)
    <3> DEFINE a == outMessages
               b == inMessages
               s == a \o b
    <3>1. a \in Seq(Messages) /\ b \in Seq(Messages) /\ IsInjective(a) /\ IsInjective(b)
          /\ ToSet(a) \cap ToSet(b) = {}
      BY <2>0 DEF ATypeOK, OwnInv, Out, In
    <3> HIDE DEF a, b
    <3>2. /\ s \in Seq(Messages) /\ Len(s) = Len(a) + Len(b)
          /\ \A i \in 1..Len(s) : s[i] = IF i <= Len(a) THEN a[i] ELSE b[i - Len(a)]
      BY <3>1, ConcatProperties
    <3>3. /\ Len(a) \in Nat /\ Len(b) \in Nat /\ DOMAIN a = 1..Len(a) /\ DOMAIN b = 1..Len(b)
          /\ DOMAIN s = 1..Len(s)
      BY <3>1, <3>2
    <3> HIDE DEF s
    <3>4. \A i \in 1..Len(a) : s[i] = a[i] /\ a[i] \in ToSet(a)
      BY <3>2, <3>3 DEF ToSet
    <3>5. \A i \in Len(a) + 1 .. Len(s) :
            i - Len(a) \in 1..Len(b) /\ s[i] = b[i - Len(a)] /\ b[i - Len(a)] \in ToSet(b)
      BY <3>2, <3>3 DEF ToSet
    <3>6. ASSUME NEW i \in 1..Len(s), NEW j \in 1..Len(s), s[i] = s[j] PROVE i = j
      <4>1. CASE i <= Len(a) /\ j <= Len(a)
        BY <3>1, <3>3, <3>4, <3>6, <4>1 DEF IsInjective
      <4>2. CASE i > Len(a) /\ j > Len(a)
        <5>0. /\ i - Len(a) \in DOMAIN b /\ j - Len(a) \in DOMAIN b
              /\ b[i - Len(a)] = b[j - Len(a)]
          <6>1. i \in Len(a) + 1 .. Len(s) /\ j \in Len(a) + 1 .. Len(s)
            BY <3>2, <3>3, <4>2
          <6> QED BY <3>3, <3>5, <3>6, <6>1
        <5>1. i - Len(a) = j - Len(a)
          BY <3>1, <5>0 DEF IsInjective
        <5> QED BY <3>2, <3>3, <5>1
      <4>3. CASE (i <= Len(a) /\ j > Len(a)) \/ (i > Len(a) /\ j <= Len(a))
        BY <3>1, <3>2, <3>3, <3>4, <3>5, <3>6, <4>3
      <4> QED BY <3>2, <3>3, <4>1, <4>2, <4>3
    <3> QED BY <3>3, <3>6 DEF IsInjective, s, a, b
  <2>2. \A t \in Threads : mine[t] \notin Free /\ Second(t) \notin Free
    BY <2>0 DEF OwnInv
  <2>3. \A t \in Threads : other[t] \notin Free
    <3>1. \A t \in Threads : t \in Clients /\ Calling(t) => other[t] = NoMsg
      BY <2>0 DEF PcInv, Calling
    <3> QED BY <2>0, <2>2, <3>1 DEF Second
  <2>4. \A c \in Clients : Calling(c) => msg[mine[c]].replyMessage \notin Free
    BY <2>0, <2>2 DEF Second
  <2>5. Free \cap (Queued \cup Held \cup Replies) = {}
    BY <2>0, <2>2, <2>3, <2>4 DEF OwnInv, Queued, Held, Replies, Out, In
  <2> QED BY <2>0, <2>1, <2>5 DEF OwnInv, NoUseAfterRecycle
<1> QED BY <1>1, Invariance, PTL

(* Every Message that was ever created is free, queued, held or a reply to *)
(* be taken, or PurgeOut took it; and what PurgeOut took is none of these  *)
(* ever again.                                                             *)
THEOREM OnlyPurgeOutLoses == Spec => []LostByPurgeOut
<1>1. ASSUME AInv, GoneInv PROVE LostByPurgeOut
  <2>0. PcInv /\ PlaceInv /\ Clients \subseteq Threads
    BY <1>1, Parts
  <2>1. ASSUME NEW m \in 1..made PROVE m \in Places <=> Somewhere(m)
    <3>0. m # NoMsg
      BY <1>1 DEF NoMsg, AInv, ATypeOK
    <3>1. \A t \in Threads : t \in Clients /\ Calling(t) => other[t] = NoMsg
      BY <2>0 DEF PcInv, Calling
    <3>2. \A t \in Threads : other[t] = m => Second(t) = m
      BY <3>0, <3>1 DEF Second
    <3>3. \A c \in Clients : Calling(c) /\ msg[mine[c]].replyMessage = m => Second(c) = m
      BY DEF Second
    <3>4. ASSUME NEW t \in Threads, Second(t) = m PROVE m \in Held \cup Replies
      BY <3>4 DEF Second, Held, Replies
    <3>5. m \in Places => Somewhere(m)
      BY <2>0, <3>2, <3>3 DEF Places, Queued, Held, Replies, Somewhere, Out, In
    <3>6. Somewhere(m) => m \in Places
      BY <3>4 DEF Places, Queued, Held, Somewhere, Out, In
    <3> QED BY <3>5, <3>6
  <2>2. \A m \in 1..made : m \in dropped \/ Somewhere(m)
    BY <2>0 DEF PlaceInv, Somewhere
  <2> QED BY <1>1, <2>1, <2>2 DEF LostByPurgeOut, GoneInv
<1>2. AInv /\ GoneInv /\ [Next]_vars => GoneInv'
  BY NextGone, NextAInv
<1>3. Init => GoneInv
  BY DEF Init, GoneInv
<1> QED BY <1>1, <1>2, <1>3, Invariance, PTL DEF Spec

-----------------------------------------------------------------------------
(* The refinement                                                          *)

(* A client's call is where it was if nothing that tells it changed.       *)
LEMMA CallFrame ==
  ASSUME NEW c \in Clients, mine'[c] = mine[c], other'[c] = other[c],
         pc'[c] \in {"release", "return"} <=> pc[c] \in {"release", "return"},
         mine[c] # NoMsg => /\ msg'[mine[c]].isSync = msg[mine[c]].isSync
                            /\ msg'[mine[c]].replyMessage = msg[mine[c]].replyMessage
  PROVE  Call(c)' = Call(c)
BY DEF Call

(* Between calls a client has no synchronous message; a call that ends was *)
(* answered or has expired.                                                *)
LEMMA CallIs ==
  ASSUME AInv, NEW c \in Clients
  PROVE  /\ mine[c] = NoMsg \/ ~msg[mine[c]].isSync => Call(c) = "none"
         /\ mine[c] # NoMsg /\ msg[mine[c]].isSync /\ pc[c] \in {"release", "return"}
              => Call(c) \in {"taken", "expired"}
         /\ mine[c] # NoMsg /\ msg[mine[c]].isSync /\ pc[c] \in {"push", "signal", "wait", "late"}
              => Call(c) = IF msg[mine[c]].replyMessage # NoMsg THEN "answered" ELSE "open"
<1>0. PcInv /\ SyncInv /\ (mine[c] # NoMsg => mine[c] \in Messages) /\ Clients \subseteq Threads
  BY Parts
<1>1. mine[c] = NoMsg \/ ~msg[mine[c]].isSync => Call(c) = "none"
  BY DEF Call
<1>2. ASSUME mine[c] # NoMsg, msg[mine[c]].isSync, pc[c] \in {"release", "return"}
      PROVE  Call(c) \in {"taken", "expired"}
  <2>1. other[c] = msg[mine[c]].replyMessage
    BY <1>0, <1>2 DEF SyncInv, SyncOK, Outcome
  <2> QED BY <1>2, <2>1 DEF Call
<1>3. ASSUME mine[c] # NoMsg, msg[mine[c]].isSync, pc[c] \in {"push", "signal", "wait", "late"}
      PROVE  Call(c) = IF msg[mine[c]].replyMessage # NoMsg THEN "answered" ELSE "open"
  <2>1. other[c] = NoMsg
    BY <1>0, <1>3 DEF PcInv
  <2> QED BY <1>3, <2>1 DEF Call
<1> QED BY <1>1, <1>2, <1>3

(* What a step of the abstract specification needs.                        *)
OneMoves(c) ==
  /\ \/ Call(c) = "none" /\ Call(c)' = "open"
     \/ Call(c) = "open" /\ Call(c)' \in {"answered", "expired"}
     \/ Call(c) = "answered" /\ Call(c)' = "taken"
     \/ Call(c) \in {"taken", "expired"} /\ Call(c)' = "none"
     \/ Call(c)' = Call(c)
  /\ \A d \in Clients \ {c} : Call(d)' = Call(d)

(* Such a step is one of the abstract specification.                       *)
LEMMA OneMovesImplements ==
  ASSUME NEW c \in Clients, OneMoves(c)
  PROVE  [Calls!Next]_(Calls!vars)
<1> DEFINE K == [d \in Clients |-> Call(d)]
           L == [d \in Clients |-> Call(d)']
<1>1. \A to : Call(c)' = to => L = [K EXCEPT ![c] = to]
  BY DEF OneMoves
<1>2. Call(c)' = Call(c) => L = K
  BY DEF OneMoves
<1>3. K[c] = Call(c)
  OBVIOUS
<1> QED BY <1>1, <1>2, <1>3
        DEF OneMoves, Calls!Next, Calls!vars, Calls!Open, Calls!Answer, Calls!Take, Calls!Expire, Calls!Return, Calls!Move

(* A thread that goes on after a release ends its call, if it had one.     *)
LEMMA GoOnCalls ==
  ASSUME AInv, ATypeOK', NEW t \in Threads, pc[t] \in {"release", "return"}, GoOn(t),
         NEW m, m = mine[t], \A x \in Messages : x # m => msg'[x] = msg[x],
         msg'[m].isSync => msg[m].isSync,
         \A u \in Threads \ {t} : mine[u] = m => /\ msg'[m].isSync = msg[m].isSync
                                                 /\ msg'[m].replyMessage = msg[m].replyMessage,
         UNCHANGED <<outMessages, inMessages, made, dropped>>
  PROVE  \/ \E c \in Clients : OneMoves(c)
         \/ \A d \in Clients : Call(d)' = Call(d)
<1>0. /\ Clients \subseteq Threads /\ Engine \notin Clients
      /\ \A u \in Threads : u \in Clients \/ u = Engine
      /\ \A u \in Threads : mine[u] # NoMsg => mine[u] \in Messages
  BY Parts
<1>1. /\ m # NoMsg
      /\ \A u \in Threads \ {t} : mine'[u] = mine[u] /\ pc'[u] = pc[u] /\ other'[u] = other[u]
      /\ mine'[t] # m
      /\ mine'[t] # NoMsg /\ mine'[t] # m => msg'[mine'[t]] = msg[mine'[t]]
      /\ mine'[t] # NoMsg => ~msg[mine'[t]].isSync
  <2>1. WentOn(t, m)
    BY GoOnIs
  <2> QED BY <2>1 DEF WentOn
<1>2. \A u \in Clients \ {t} : Call(u)' = Call(u)
  <2> SUFFICES ASSUME NEW u \in Clients \ {t} PROVE Call(u)' = Call(u)
    OBVIOUS
  <2>1. mine[u] # NoMsg => /\ msg'[mine[u]].isSync = msg[mine[u]].isSync
                           /\ msg'[mine[u]].replyMessage = msg[mine[u]].replyMessage
    BY <1>0
  <2> QED BY <1>0, <1>1, <2>1, CallFrame
<1>3. CASE t \in Clients
  <2>1. Call(t)' = "none"
    BY <1>1 DEF Call
  <2>2. Call(t) \in {"none", "taken", "expired"}
    BY <1>1, <1>3, CallIs
  <2> QED BY <1>2, <1>3, <2>1, <2>2 DEF OneMoves
<1>4. CASE t = Engine
  BY <1>0, <1>2, <1>4 DEF OneMoves
<1> QED BY <1>0, <1>3, <1>4

(* Every step of the port is a step of the calls, or none.                 *)
LEMMA StepImplements ==
  ASSUME AInv, AInv', [Next]_vars
  PROVE  [Calls!Next]_(Calls!vars)
<1>0. /\ ATypeOK /\ ATypeOK' /\ PcInv /\ OwnInv /\ MadeInv /\ SyncInv
      /\ Engine \in Threads /\ Clients \subseteq Threads /\ Engine \notin Clients
      /\ \A u \in Threads : u \in Clients \/ u = Engine
      /\ \A u \in Threads : mine[u] # NoMsg => mine[u] \in Messages
      /\ NoMsg \notin Messages
  BY Parts DEF AInv
<1> DEFINE Same == \A d \in Clients : Call(d)' = Call(d)
           Some == \E c \in Clients : OneMoves(c)
<1>p. \A t \in Threads : \A step :
       Goto(t, step) => pc'[t] = step /\ \A u \in Threads \ {t} : pc'[u] = pc[u]
  BY <1>0 DEF Goto, ATypeOK
<1>g. ASSUME NEW m, GetMessage(m)
      PROVE  m \in Messages /\ m # NoMsg /\ \A u \in Threads : mine[u] # m
  BY <1>0, <1>g, GetMessageIs
<1>1. ASSUME NEW c \in Clients, NEW f, NEW m, GetMessage(m), pc[c] = "idle",
             msg' = [msg EXCEPT ![m] = f], mine' = [mine EXCEPT ![c] = m],
             Goto(c, "push"), UNCHANGED other,
             f.isSync => f.replyMessage = NoMsg
      PROVE  OneMoves(c)
  <2>1. m \in Messages /\ m # NoMsg /\ \A u \in Threads : mine[u] # m
    BY <1>1, <1>g
  <2>2. mine[c] = NoMsg /\ other[c] = NoMsg
    BY <1>0, <1>1 DEF PcInv
  <2>3. /\ msg'[m] = f /\ \A x \in Messages \ {m} : msg'[x] = msg[x]
        /\ mine'[c] = m /\ \A u \in Threads \ {c} : mine'[u] = mine[u]
    BY <1>0, <1>1, <2>1 DEF ATypeOK
  <2>4. Call(c) = "none" /\ Call(c)' \in {"none", "open"}
    BY <1>0, <1>1, <1>p, <2>1, <2>2, <2>3 DEF Call
  <2>5. \A d \in Clients \ {c} : Call(d)' = Call(d)
    <3> SUFFICES ASSUME NEW d \in Clients \ {c} PROVE Call(d)' = Call(d)
      OBVIOUS
    <3>1. mine[d] # NoMsg => msg'[mine[d]] = msg[mine[d]]
      BY <1>0, <2>1, <2>3
    <3> QED BY <1>0, <1>1, <1>p, <2>3, <3>1, CallFrame
  <2> QED BY <2>4, <2>5 DEF OneMoves
<1>2. ASSUME NEW c \in Clients, NEW s \in Signals, SendOutMessage(c, s) PROVE Some
  <2> DEFINE f == Cleared(s, TRUE)
  <2>1. ~f.isSync
    BY DEF Cleared
  <2>2. PICK m \in Messages : /\ GetMessage(m) /\ msg' = [msg EXCEPT ![m] = f]
                              /\ mine' = [mine EXCEPT ![c] = m]
    BY <1>2 DEF SendOutMessage
  <2>3. pc[c] = "idle" /\ Goto(c, "push") /\ UNCHANGED other
    BY <1>2 DEF SendOutMessage
  <2> HIDE DEF f
  <2> QED BY <1>1, <2>1, <2>2, <2>3
<1>3. ASSUME NEW c \in Clients, SendOutMessageSync(c) PROVE Some
  <2> DEFINE f == [Cleared("plain", TRUE) EXCEPT !.isSync = TRUE, !.event = "unset"]
  <2>1. f.replyMessage = NoMsg
    BY DEF Cleared
  <2>2. PICK m \in Messages : /\ GetMessage(m) /\ msg' = [msg EXCEPT ![m] = f]
                              /\ mine' = [mine EXCEPT ![c] = m]
    BY <1>3 DEF SendOutMessageSync
  <2>3. pc[c] = "idle" /\ Goto(c, "push") /\ UNCHANGED other
    BY <1>3 DEF SendOutMessageSync
  <2> HIDE DEF f
  <2> QED BY <1>1, <2>1, <2>2, <2>3
<1>4. ASSUME NEW c \in Clients, Push(c) PROVE Same
  <2>1. /\ mine'[c] = (IF msg[mine[c]].isSync THEN mine[c] ELSE NoMsg)
        /\ \A u \in Threads \ {c} : mine'[u] = mine[u]
        /\ pc[c] = "push" /\ pc'[c] = "signal" /\ \A u \in Threads \ {c} : pc'[u] = pc[u]
        /\ UNCHANGED <<msg, other>>
    BY <1>0, <1>4, <1>p DEF Push, ATypeOK
  <2>2. Call(c)' = Call(c)
    BY <2>1 DEF Call
  <2>3. \A d \in Clients \ {c} : Call(d)' = Call(d)
    BY <1>0, <2>1 DEF Call
  <2> QED BY <2>2, <2>3
<1>5. ASSUME NEW c \in Clients, SetOutEvent(c) \/ TimeOut(c) PROVE Same
  <2>1. /\ UNCHANGED <<msg, mine, other>>
        /\ pc[c] \in {"signal", "wait"} /\ pc'[c] \notin {"release", "return"}
        /\ \A u \in Threads \ {c} : pc'[u] = pc[u]
    BY <1>0, <1>5, <1>p DEF SetOutEvent, TimeOut
  <2>2. \A d \in Clients : pc'[d] \in {"release", "return"} <=> pc[d] \in {"release", "return"}
    BY <1>0, <2>1
  <2> QED BY <2>1, <2>2, CallFrame
<1>6. ASSUME NEW c \in Clients, Answered(c) \/ CheckReply(c) PROVE Some
  <2>m. PICK m : m = mine[c]
    OBVIOUS
  <2>1. /\ m \in Messages /\ m # NoMsg /\ msg[m].isSync /\ SyncOK(m)
        /\ pc[c] \in {"wait", "late"} /\ Waits(m) /\ ~msg[m].isSyncTimeout
    <3>1. m \in Messages /\ m # NoMsg /\ msg[m].isSync /\ pc[c] \in {"wait", "late"}
      BY <2>m, <1>0, <1>6 DEF PcInv, Answered, CheckReply
    <3>2. SyncOK(m) /\ Waits(m)
      BY <2>m, <1>0, <3>1 DEF SyncInv, Waits
    <3> QED BY <3>1, <3>2 DEF SyncOK, Outcome
  <2>2. /\ UNCHANGED mine
        /\ other'[c] = msg[m].replyMessage /\ \A u \in Threads \ {c} : other'[u] = other[u]
        /\ pc'[c] = "release" /\ \A u \in Threads \ {c} : pc'[u] = pc[u]
        /\ \A x \in Messages \ {m} : msg'[x] = msg[x]
        /\ msg'[m].isSync = msg[m].isSync /\ msg'[m].replyMessage = msg[m].replyMessage
    <3>0. msg \in [Messages -> Fields] /\ msg[m] \in Fields /\ other \in [Threads -> Messages \cup {NoMsg}]
      BY <1>0, <2>1 DEF ATypeOK
    <3>1. CASE Answered(c)
      <4>1. msg'[m] = [msg[m] EXCEPT !.event = "unset"] /\ \A x \in Messages \ {m} : msg'[x] = msg[x]
        BY <2>m, <2>1, <3>0, <3>1 DEF Answered
      <4>2. msg'[m].isSync = msg[m].isSync /\ msg'[m].replyMessage = msg[m].replyMessage
        BY <3>0, <4>1 DEF Fields
      <4> QED BY <2>m, <1>0, <1>p, <3>0, <3>1, <4>1, <4>2 DEF Answered
    <3>2. CASE CheckReply(c)
      <4>1. /\ msg'[m] = [msg[m] EXCEPT !.isSyncTimeout = (msg[m].replyMessage = NoMsg)]
            /\ \A x \in Messages \ {m} : msg'[x] = msg[x]
        BY <2>m, <2>1, <3>0, <3>2 DEF CheckReply
      <4>2. msg'[m].isSync = msg[m].isSync /\ msg'[m].replyMessage = msg[m].replyMessage
        BY <3>0, <4>1 DEF Fields
      <4> QED BY <2>m, <1>0, <1>p, <3>0, <3>2, <4>1, <4>2 DEF CheckReply
    <3> QED BY <1>6, <3>1, <3>2
  <2>3. Call(c) = IF msg[m].replyMessage # NoMsg THEN "answered" ELSE "open"
    BY <2>m, <2>1, CallIs
  <2>4. Call(c)' = IF msg[m].replyMessage # NoMsg THEN "taken" ELSE "expired"
    BY <2>m, <2>1, <2>2 DEF Call
  <2>5. \A d \in Clients \ {c} : Call(d)' = Call(d)
    <3> SUFFICES ASSUME NEW d \in Clients \ {c} PROVE Call(d)' = Call(d)
      OBVIOUS
    <3>1. mine[d] # NoMsg => /\ msg'[mine[d]].isSync = msg[mine[d]].isSync
                             /\ msg'[mine[d]].replyMessage = msg[mine[d]].replyMessage
      BY <1>0, <2>2
    <3> QED BY <1>0, <2>2, <3>1, CallFrame
  <2> QED BY <2>3, <2>4, <2>5 DEF OneMoves
<1>7. ASSUME NEW c \in Clients, ReceiveInMessage(c) PROVE Same
  <2>1. /\ UNCHANGED <<msg, other>>
        /\ pc[c] = "idle" /\ mine'[c] \in In
        /\ \A u \in Threads \ {c} : mine'[u] = mine[u] /\ pc'[u] = pc[u]
    BY <1>0, <1>7, <1>p, TailElements DEF ReceiveInMessage, ATypeOK, OwnInv, In
  <2>2. mine[c] = NoMsg /\ ~msg[mine'[c]].isSync
    BY <1>0, <2>1 DEF PcInv, MadeInv
  <2>3. Call(c)' = Call(c)
    BY <2>1, <2>2 DEF Call
  <2>4. \A d \in Clients \ {c} : Call(d)' = Call(d)
    BY <1>0, <2>1 DEF Call
  <2> QED BY <2>3, <2>4
<1>8. ASSUME NEW t \in Threads, Release(t) PROVE Same \/ Some
  <2>m. PICK m : m = mine[t]
    OBVIOUS
  <2>1. m \in Messages /\ m # NoMsg /\ pc[t] = "release"
    BY <2>m, <1>0, <1>8 DEF PcInv, Release
  <2>2. /\ \A x \in Messages : x # m => msg'[x] = msg[x]
        /\ msg'[m].isSync = msg[m].isSync /\ msg'[m].replyMessage = msg[m].replyMessage
    <3>1. msg \in [Messages -> Fields] /\ msg[m] \in Fields
      BY <1>0, <2>1 DEF ATypeOK
    <3>2. /\ msg'[m] = [msg[m] EXCEPT !.isSyncFini = TRUE]
          /\ \A x \in Messages : x # m => msg'[x] = msg[x]
      BY <2>m, <1>8, <2>1, <3>1 DEF Release
    <3> QED BY <3>1, <3>2 DEF Fields
  <2>3. CASE GoOn(t)
    <3>1. UNCHANGED <<outMessages, inMessages, made, dropped>>
      BY <1>8 DEF Release, queues, pool
    <3> QED BY <2>m, <1>0, <2>1, <2>2, <2>3, <3>1, GoOnCalls
  <2>4. CASE Goto(t, "return") /\ UNCHANGED <<mine, other>>
    <3>1. \A d \in Clients : pc'[d] \in {"release", "return"} <=> pc[d] \in {"release", "return"}
      BY <1>0, <1>p, <2>1, <2>4
    <3>2. \A d \in Clients : mine[d] # NoMsg => /\ msg'[mine[d]].isSync = msg[mine[d]].isSync
                                                /\ msg'[mine[d]].replyMessage = msg[mine[d]].replyMessage
      BY <1>0, <2>2
    <3> QED BY <2>4, <3>1, <3>2, CallFrame
  <2> QED BY <1>8, <2>3, <2>4 DEF Release
<1>9. ASSUME NEW t \in Threads, ReturnMessage(t) PROVE Same \/ Some
  <2>m. PICK m : m = mine[t]
    OBVIOUS
  <2>1. m \in Messages /\ m # NoMsg /\ pc[t] = "return" /\ GoOn(t)
    BY <2>m, <1>0, <1>9 DEF PcInv, ReturnMessage
  <2>2. (\A x \in Messages : x # m => msg'[x] = msg[x]) /\ ~msg'[m].isSync
    BY <2>m, <1>0, <1>9, <2>1 DEF ReturnMessage, ATypeOK, Cleared
  <2>3. \A u \in Threads \ {t} : mine[u] # m
    BY <2>m, <2>1, LastHolder
  <2>4. UNCHANGED <<outMessages, inMessages, made, dropped>>
    BY <1>9 DEF ReturnMessage, queues
  <2> QED BY <2>m, <1>0, <2>1, <2>2, <2>3, <2>4, GoOnCalls
<1>10. ASSUME \A d \in Clients : mine'[d] = mine[d] /\ pc'[d] = pc[d] /\ other'[d] = other[d],
              \A d \in Clients : mine[d] # NoMsg => /\ msg'[mine[d]].isSync = msg[mine[d]].isSync
                                                    /\ msg'[mine[d]].replyMessage = msg[mine[d]].replyMessage
       PROVE  Same
  BY <1>10, CallFrame
<1>11. ASSUME FindNone \/ Wake \/ NoReply \/ Purge \/ PurgeDone PROVE Same
  <2>1. UNCHANGED <<msg, mine, other>> /\ \A d \in Clients : pc'[d] = pc[d]
    BY <1>0, <1>11, <1>p DEF FindNone, Wake, NoReply, Purge, PurgeDone
  <2> QED BY <1>10, <2>1
<1>12. ASSUME ReceiveOutMessage \/ PurgeNext PROVE Same
  <2>1. /\ UNCHANGED <<msg, other>>
        /\ \A d \in Clients : mine'[d] = mine[d] /\ pc'[d] = pc[d]
    BY <1>0, <1>12, <1>p DEF ReceiveOutMessage, PurgeNext, ATypeOK
  <2> QED BY <1>10, <2>1
<1>13. ASSUME ReplySync PROVE Same \/ Some
  <2>m. PICK m : m = mine[Engine]
    OBVIOUS
  <2>1. /\ m \in Messages /\ m # NoMsg /\ SyncOK(m) /\ ~InPush(m) /\ pc[Engine] = "handle"
    BY <2>m, <1>13, Handled DEF ReplySync
  <2>2. UNCHANGED <<mine, other>> /\ \A d \in Clients : pc'[d] = pc[d]
    BY <1>0, <1>13, <1>p DEF ReplySync
  <2>3. CASE UNCHANGED msg
    BY <1>10, <2>2, <2>3
  <2>4. ASSUME NEW r \in Messages, GetMessage(r), ~msg[m].isSyncTimeout,
               msg' = [msg EXCEPT ![r] = Cleared("plain", FALSE), ![mine[Engine]].replyMessage = r]
        PROVE  Same \/ Some
    <3>1. r # NoMsg /\ \A u \in Threads : mine[u] # r
      BY <1>g, <2>4
    <3>2. /\ \A x \in Messages : x # m /\ x # r => msg'[x] = msg[x]
          /\ msg'[m].replyMessage = r /\ msg'[m].isSync = msg[m].isSync
      <4>0. r # m /\ msg \in [Messages -> Fields] /\ msg[m] \in Fields
        BY <2>m, <1>0, <2>1, <3>1 DEF ATypeOK
      <4>1. /\ msg'[m] = [msg[m] EXCEPT !.replyMessage = r]
            /\ \A x \in Messages : x # m /\ x # r => msg'[x] = msg[x]
        BY <2>m, <2>1, <2>4, <4>0
      <4> QED BY <4>0, <4>1 DEF Fields
    <3>3. msg[m].isSync /\ msg[m].replyMessage = NoMsg /\ Waits(m)
      BY <2>m, <1>13, <2>1, <2>4 DEF ReplySync, SyncOK, NotAnswered, Outcome
    <3>4. PICK c \in Clients : mine[c] = m /\ pc[c] \in {"push", "signal", "wait", "late"}
      BY <3>3 DEF Waits
    <3>5. Call(c) = "open"
      BY <2>1, <3>3, <3>4, CallIs
    <3>6. Call(c)' = "answered"
      <4>1. other[c] = NoMsg
        BY <1>0, <3>4 DEF PcInv
      <4> QED BY <2>1, <2>2, <3>1, <3>2, <3>3, <3>4, <4>1 DEF Call
    <3>7. ASSUME NEW d \in Clients \ {c} PROVE Call(d)' = Call(d)
      <4>1. mine[d] # m
        BY <1>0, <2>1, <3>4 DEF OwnInv
      <4>2. mine[d] # NoMsg => msg'[mine[d]] = msg[mine[d]]
        BY <1>0, <3>1, <3>2, <4>1
      <4> QED BY <2>2, <4>2, CallFrame
    <3> QED BY <3>5, <3>6, <3>7 DEF OneMoves
  <2> QED BY <2>m, <1>13, <2>3, <2>4 DEF ReplySync
<1>14. ASSUME SetEvent PROVE Same
  <2>m. PICK m : m = mine[Engine]
    OBVIOUS
  <2>1. m \in Messages /\ msg \in [Messages -> Fields] /\ msg[m] \in Fields
    BY <2>m, <1>0, <1>14 DEF PcInv, SetEvent, ATypeOK
  <2>2. /\ msg'[m] = [msg[m] EXCEPT !.event = IF @ = "none" THEN @ ELSE "set"]
        /\ \A x \in Messages : x # m => msg'[x] = msg[x]
    BY <2>m, <1>14, <2>1 DEF SetEvent
  <2>3. msg'[m].isSync = msg[m].isSync /\ msg'[m].replyMessage = msg[m].replyMessage
    BY <2>1, <2>2 DEF Fields
  <2>4. UNCHANGED <<mine, other>> /\ \A d \in Clients : pc'[d] = pc[d]
    BY <1>0, <1>14, <1>p DEF SetEvent
  <2>5. \A d \in Clients : mine[d] # NoMsg => /\ msg'[mine[d]].isSync = msg[mine[d]].isSync
                                              /\ msg'[mine[d]].replyMessage = msg[mine[d]].replyMessage
    BY <1>0, <2>2, <2>3
  <2> QED BY <1>10, <2>4, <2>5
<1>15. ASSUME SendInMessage PROVE Same
  <2>1. PICK r \in Messages : /\ GetMessage(r) /\ msg' = [msg EXCEPT ![r] = Cleared("plain", FALSE)]
                              /\ other' = [other EXCEPT ![Engine] = r]
    BY <1>15 DEF SendInMessage
  <2>2. UNCHANGED mine /\ \A d \in Clients : pc'[d] = pc[d] /\ other'[d] = other[d]
    BY <1>0, <1>15, <1>p, <2>1 DEF SendInMessage, ATypeOK
  <2>3. \A d \in Clients : mine[d] # NoMsg => msg'[mine[d]] = msg[mine[d]]
    BY <1>0, <1>g, <2>1 DEF ATypeOK
  <2> QED BY <1>10, <2>2, <2>3
<1>16. ASSUME PushIn PROVE Same
  <2>1. UNCHANGED <<msg, mine>> /\ \A d \in Clients : pc'[d] = pc[d] /\ other'[d] = other[d]
    BY <1>0, <1>16, <1>p DEF PushIn, ATypeOK
  <2> QED BY <1>10, <2>1
<1>17. ASSUME PurgeOut("change") \/ UNCHANGED vars PROVE Same
  <2>1. UNCHANGED <<msg, pc, mine, other>>
    BY <1>17 DEF PurgeOut, vars, threads
  <2> QED BY <1>10, <2>1
<1>18. Same \/ Some
  <2> HIDE DEF Same, Some
  <2> QED
    BY <1>0, <1>2, <1>3, <1>4, <1>5, <1>6, <1>7, <1>8, <1>9, <1>11, <1>12, <1>13, <1>14, <1>15,
       <1>16, <1>17
    DEF Next, ClientCalls, ClientStep, EngineStep, EngineMay, Handle
<1>19. Same => [Calls!Next]_(Calls!vars)
  BY DEF Calls!vars
<1> QED BY <1>18, <1>19, OneMovesImplements

(* A port that starts has no calls.                                        *)
LEMMA InitImplements == Init => Calls!Init
BY ThreadsAre DEF Init, Calls!Init, Call

(* The port implements the calls: each is answered or expires, never both, *)
(* and its caller takes the answer made before the time-out was recorded,  *)
(* however the engine, the time-out and the purges interleave.             *)
THEOREM Refinement == Spec => ImplementsCalls
BY InitImplements, StepImplements, Invariance, PTL DEF Spec, ImplementsCalls, Calls!Spec
=============================================================================

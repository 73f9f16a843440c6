---------------------------- MODULE StreamPlayers ----------------------------
(***************************************************************************)
(* The threads around the player's message queues: CVideoPlayer's, which   *)
(* opens and closes streams, feeds them and flushes them on a seek         *)
(* (FlushBuffers), and those of CVideoPlayerAudio and CVideoPlayerVideo,   *)
(* each the only reader of its queue.  They also meet in synchronization   *)
(* messages (DVDMessage.cpp), which end when all their sources have        *)
(* reached them or their time is over.                                     *)
(*                                                                         *)
(* A section that holds a queue's or a message's lock is one action.  Why  *)
(* a stream asks for any message or for urgent ones only, whether it takes *)
(* a packet or puts it back, and when its codec loses its state, is left   *)
(* to chance.                                                              *)
(***************************************************************************)
EXTENDS DVDMessageQueue, FiniteSets

CONSTANTS
  MaxPackets,    \* how many packets the player has for each stream (bounds)
  MaxSyncs,      \* how many synchronization messages are made (a bound)
  MaxCalls       \* how often streams are opened, flushed and closed (a bound)

Streams == {"audio", "video"}

ASSUME BoundsAssumption ==
  MaxPackets \in [Streams -> Nat] /\ MaxSyncs \in Nat /\ MaxCalls \in Nat

VARIABLES
  queue,       \* each stream's CDVDMessageQueue
  thread,      \* where each stream's thread is, "none" when it has ended
  held,        \* the message it has got
  want,        \* the priority it waits for, 0 when it does not wait
  m_bStop,     \* its stop flag
  player,      \* where the player's thread is: step, stream, message waited for
  sync,        \* the synchronization messages made so far
  sent,        \* the last packet put for each stream
  calls,       \* (bound) how often streams were opened, flushed and closed
  m_packets,   \* the packets the video stream keeps for its codec, oldest first
  decoded,     \* (history) the newest packet each stream has decoded
  flushed,     \* (history) the last packet put before the stream's flush
  clean        \* (history) FlushBuffers returned since both streams answered

streams == <<thread, held, want, m_bStop>>
history == <<decoded, flushed, clean>>
vars == <<queue, streams, player, sync, sent, calls, m_packets, history>>

At(step, q, s) == [step |-> step, q |-> q, sync |-> s]
Run == At("run", "audio", 0)

Init ==
  /\ queue = [q \in Streams |-> NewQueue]
  /\ thread = [q \in Streams |-> "none"]
  /\ held = [q \in Streams |-> NoItem]
  /\ want = [q \in Streams |-> 0]
  /\ m_bStop = [q \in Streams |-> FALSE]
  /\ player = Run
  /\ sync = <<>>
  /\ sent = [q \in Streams |-> 0]
  /\ calls = 0
  /\ m_packets = <<>>
  /\ decoded = [q \in Streams |-> 0]
  /\ flushed = [q \in Streams |-> 0]
  /\ clean = FALSE

Change(q, newQueue) == queue' = [queue EXCEPT ![q] = newQueue]
Goto(q, step) == thread' = [thread EXCEPT ![q] = step]

-----------------------------------------------------------------------------
(* Synchronization messages                                                *)

NewSync(sources) == [sources |-> sources, reached |-> {}, expired |-> FALSE]

(* Wait's first half: the source has got there.                            *)
Reach(s, source) ==
  [sync EXCEPT ![s].reached = @ \cup ({source, "any"} \cap sync[s].sources)]

Reached(s) == sync[s].reached = sync[s].sources

(* The message's own time is over: every wait for it ends (as it would,    *)
(* had all its sources reached it).                                        *)
Expire(s) ==
  /\ s \in DOMAIN sync
  /\ ~sync[s].expired /\ ~Reached(s)
  /\ sync' = [sync EXCEPT ![s].expired = TRUE]
  /\ UNCHANGED <<queue, streams, player, sent, calls, m_packets, history>>

-----------------------------------------------------------------------------
(* A stream's thread                                                       *)

(* Get, inside the queue's lock, for a message of at least priority p.     *)
GetSection(q, p, Q) ==
  \/ /\ ~Q.m_bInitialized \/ Q.m_bAbortRequest
     /\ Change(q, Q)
     /\ Goto(q, "none")
     /\ want' = [want EXCEPT ![q] = 0]
     /\ UNCHANGED held
  \/ /\ Q.m_bInitialized /\ ~Q.m_bAbortRequest /\ Ready(Q, p)
     /\ Change(q, AfterTake(Q, p))
     /\ held' = [held EXCEPT ![q] = Taken(Q, p)]
     /\ Goto(q, Taken(Q, p).kind)
     /\ want' = [want EXCEPT ![q] = 0]
  \/ /\ Q.m_bInitialized /\ ~Q.m_bAbortRequest /\ ~Ready(Q, p)
     /\ Change(q, [Q EXCEPT !.m_hEvent = FALSE])
     /\ want' = [want EXCEPT ![q] = p]
     /\ Goto(q, "wait")
     /\ UNCHANGED held

(* The loop's turn: stop, or ask for any message or for urgent ones only.  *)
Get(q) ==
  /\ thread[q] = "get"
  /\ \/ m_bStop[q] /\ Goto(q, "none") /\ UNCHANGED <<queue, held, want>>
     \/ ~m_bStop[q] /\ \E p \in {0, 1} : GetSection(q, p, queue[q])
  /\ UNCHANGED <<m_bStop, player, sync, sent, calls, m_packets, history>>

(* The wait ends with the event, and Get looks again ...                   *)
WakeUp(q) ==
  /\ thread[q] = "wait"
  /\ queue[q].m_hEvent
  /\ GetSection(q, want[q], [queue[q] EXCEPT !.m_hEvent = FALSE])
  /\ UNCHANGED <<m_bStop, player, sync, sent, calls, m_packets, history>>

(* The video stream has asked its codec for a picture: the codec may say   *)
(* that it has lost its state (VC_FLUSHED, VC_REOPEN).                     *)
ProcessDecoderOutput(q) ==
  \/ Goto(q, "get")
  \/ q = "video" /\ m_packets' # <<>> /\ Goto(q, "replay")

(* ... or Get returns MSGQ_TIMEOUT.                                        *)
TimeOut(q) ==
  /\ thread[q] = "wait"
  /\ ~queue[q].m_hEvent
  /\ UNCHANGED m_packets
  /\ ProcessDecoderOutput(q)
  /\ want' = [want EXCEPT ![q] = 0]
  /\ UNCHANGED <<queue, held, m_bStop, player, sync, sent, calls, history>>

Release(q) == held' = [held EXCEPT ![q] = NoItem]
Done(q) == Goto(q, "get") /\ Release(q)

(* What the video stream keeps of a packet its codec took: the last few,   *)
(* if the codec has a GetConvergeCount.                                    *)
Keep(q) ==
  LET all == Append(m_packets, held[q])
  IN  m_packets' \in {m_packets} \cup IF q = "video" THEN {all, Tail(all)} ELSE {}

(* The codec takes the packet ...                                          *)
Decode(q) ==
  /\ thread[q] = "packet"
  /\ decoded' = [decoded EXCEPT ![q] = IF held[q].n > @ THEN held[q].n ELSE @]
  /\ Keep(q)
  /\ ProcessDecoderOutput(q)
  /\ Release(q)
  /\ UNCHANGED <<queue, want, m_bStop, player, sync, sent, calls, flushed, clean>>

(* Mutant: they queue up behind the packets.                               *)
ReplayLast(q) ==
  /\ thread[q] = "replay"
  /\ Change(q, Put(queue[q], Head(m_packets), 0))
  /\ m_packets' = Tail(m_packets)
  /\ Goto(q, IF m_packets' = <<>> THEN "get" ELSE "replay")
  /\ UNCHANGED <<held, want, m_bStop, player, sync, sent, calls, history>>

(* ... all that was kept is put again, one after the other, the oldest     *)
(* first, before any other message, ...                                    *)
Replay(q) ==
  /\ thread[q] = "replay"
  /\ Change(q, Put(queue[q], Head(m_packets), 10))
  /\ m_packets' = Tail(m_packets)
  /\ Goto(q, IF m_packets' = <<>> THEN "get" ELSE "replay")
  /\ UNCHANGED <<held, want, m_bStop, player, sync, sent, calls, history>>

(* ... or does not, and it is put back among the others.                   *)
GiveBack(q) ==
  /\ thread[q] = "packet"
  /\ Change(q, PutBack(queue[q], held[q], 0))
  /\ Done(q)
  /\ UNCHANGED <<want, m_bStop, player, sync, sent, calls, m_packets, history>>

(* Mutant: the packets kept for the codec stay.                            *)
HandleFlushKeeps(q) ==
  /\ thread[q] = "flush"
  /\ Change(q, IF q = "video" THEN Flush(queue[q]) ELSE queue[q])
  /\ Done(q)
  /\ UNCHANGED <<want, m_bStop, player, sync, sent, calls, m_packets, history>>

(* GENERAL_FLUSH: the video stream flushes its queue (again) and forgets   *)
(* what it kept.                                                           *)
HandleFlush(q) ==
  /\ thread[q] = "flush"
  /\ Change(q, IF q = "video" THEN Flush(queue[q]) ELSE queue[q])
  /\ m_packets' = IF q = "video" THEN <<>> ELSE m_packets
  /\ Done(q)
  /\ UNCHANGED <<want, m_bStop, player, sync, sent, calls, history>>

(* GENERAL_SYNCHRONIZE: the stream reports and waits for a while ...       *)
EnterSync(q) ==
  /\ thread[q] = "sync"
  /\ sync' = Reach(held[q].n, q)
  /\ Goto(q, "syncing")
  /\ UNCHANGED <<queue, held, want, m_bStop, player, sent, calls, m_packets, history>>

LeaveSync(q) ==
  /\ thread[q] = "syncing"
  /\ Reached(held[q].n) \/ sync[held[q].n].expired
  /\ Done(q)
  /\ UNCHANGED <<queue, want, m_bStop, player, sync, sent, calls, m_packets, history>>

(* Mutant: it queues up behind the packets.                                *)
RetrySyncLast(q) ==
  /\ thread[q] = "syncing"
  /\ ~Reached(held[q].n) /\ ~sync[held[q].n].expired
  /\ Change(q, Put(queue[q], held[q], 0))
  /\ Done(q)
  /\ UNCHANGED <<want, m_bStop, player, sync, sent, calls, m_packets, history>>

(* ... and queues the message again, as an urgent one.                     *)
RetrySync(q) ==
  /\ thread[q] = "syncing"
  /\ ~Reached(held[q].n) /\ ~sync[held[q].n].expired
  /\ Change(q, Put(queue[q], held[q], 1))
  /\ Done(q)
  /\ UNCHANGED <<want, m_bStop, player, sync, sent, calls, m_packets, history>>

StreamStep(q) ==
  \/ Get(q) \/ WakeUp(q) \/ Decode(q) \/ Replay(q) \/ GiveBack(q)
  \/ HandleFlush(q) \/ EnterSync(q) \/ LeaveSync(q) \/ RetrySync(q)

-----------------------------------------------------------------------------
(* The player's thread                                                     *)

Step(from, to) == player = from /\ player' = to
Begin(to) == Step(Run, to) /\ calls < MaxCalls /\ calls' = calls + 1

(* OpenStream, when the stream is closed: Init and a new thread.           *)
OpenStream(q) ==
  /\ Begin(Run)
  /\ ~queue[q].m_bInitialized
  /\ Change(q, InitQueue(queue[q]))
  /\ Goto(q, "get")
  /\ m_bStop' = [m_bStop EXCEPT ![q] = FALSE]
  /\ m_packets' = IF q = "video" THEN <<>> ELSE m_packets
  /\ UNCHANGED <<held, want, sync, sent, history>>

(* A packet is sent to its stream if that is open.                         *)
SendPacket(q) ==
  /\ player = Run
  /\ queue[q].m_bInitialized
  /\ sent[q] < MaxPackets[q]
  /\ sent' = [sent EXCEPT ![q] = @ + 1]
  /\ Change(q, Put(queue[q], Item("packet", sent[q] + 1), 0))
  /\ UNCHANGED <<streams, player, sync, calls, m_packets, history>>

(* FlushBuffers empties the audio queue and sends each stream an urgent    *)
(* GENERAL_FLUSH ...                                                       *)
FlushAudio ==
  /\ Begin(At("flush", "audio", 0))
  /\ Change("audio", Flush(queue["audio"]))
  /\ clean' = FALSE
  /\ UNCHANGED <<streams, sync, sent, m_packets, decoded, flushed>>

SendFlush(q) ==
  /\ \/ q = "audio" /\ Step(At("flush", "audio", 0), At("flush", "video", 0))
     \/ q = "video" /\ Step(At("flush", "video", 0), At("flushed", "video", 0))
  /\ Change(q, Put(queue[q], Item("flush", 0), 1))
  /\ flushed' = [flushed EXCEPT ![q] = sent[q]]
  /\ UNCHANGED <<streams, sync, sent, calls, m_packets, decoded, clean>>

(* ... and, at normal speed or paused, "make sure players are properly     *)
(* flushed": both are sent an urgent synchronization message ...           *)
NoSync ==
  /\ Step(At("flushed", "video", 0), Run)
  /\ UNCHANGED <<queue, streams, sync, sent, calls, m_packets, history>>

SyncAudio ==
  /\ Len(sync) < MaxSyncs
  /\ Step(At("flushed", "video", 0), At("sync", "video", Len(sync) + 1))
  /\ sync' = Append(sync, NewSync(Streams))
  /\ Change("audio", Put(queue["audio"], Item("sync", Len(sync) + 1), 1))
  /\ UNCHANGED <<streams, sent, calls, m_packets, history>>

SyncVideo ==
  /\ player.step = "sync"
  /\ player' = [player EXCEPT !.step = "waitsync"]
  /\ Change("video", Put(queue["video"], Item("sync", player.sync), 1))
  /\ UNCHANGED <<streams, sync, sent, calls, m_packets, history>>

(* ... and waited for.                                                     *)
SyncEnds ==
  /\ player.step = "waitsync"
  /\ Reached(player.sync) \/ sync[player.sync].expired
  /\ player' = Run
  /\ clean' = Reached(player.sync)
  /\ UNCHANGED <<queue, streams, sync, sent, calls, m_packets, decoded, flushed>>

(* CloseStream: with bWaitForBuffers WaitUntilEmpty first, which sets      *)
(* m_drain, puts a message for anybody to reach at the end ...             *)
StartDrain(q) ==
  /\ queue[q].m_bInitialized
  /\ Len(sync) < MaxSyncs
  /\ Begin(At("drain", q, Len(sync) + 1))
  /\ Change(q, [queue[q] EXCEPT !.m_drain = TRUE])
  /\ sync' = Append(sync, NewSync({"any"}))
  /\ UNCHANGED <<streams, sent, m_packets, history>>

(* Mutant: the message overtakes the packets.                              *)
PutDrainUrgent(q) ==
  /\ player.step = "drain" /\ player.q = q
  /\ player' = [player EXCEPT !.step = "waitdrain"]
  /\ Change(q, Put(queue[q], Item("sync", player.sync), 1))
  /\ UNCHANGED <<streams, sync, sent, calls, m_packets, history>>

PutDrain(q) ==
  /\ player.step = "drain" /\ player.q = q
  /\ player' = [player EXCEPT !.step = "waitdrain"]
  /\ Change(q, Put(queue[q], Item("sync", player.sync), 0))
  /\ UNCHANGED <<streams, sync, sent, calls, m_packets, history>>

(* ... waits for it, and clears m_drain.                                   *)
EndDrain(q) ==
  /\ player.step = "waitdrain" /\ player.q = q
  /\ Reached(player.sync) \/ sync[player.sync].expired
  /\ player' = At("abort", q, 0)
  /\ Change(q, [queue[q] EXCEPT !.m_drain = FALSE])
  /\ UNCHANGED <<streams, sync, sent, calls, m_packets, history>>

(* Then Abort, ...                                                         *)
CloseStream(q) ==
  /\ queue[q].m_bInitialized
  /\ \/ Begin(At("stop", q, 0))
     \/ Step(At("abort", q, 0), At("stop", q, 0)) /\ UNCHANGED calls
  /\ Change(q, Abort(queue[q]))
  /\ UNCHANGED <<streams, sync, sent, m_packets, history>>

(* ... StopThread: set the flag, join, ...                                 *)
StopThread(q) ==
  /\ Step(At("stop", q, 0), At("join", q, 0))
  /\ m_bStop' = [m_bStop EXCEPT ![q] = TRUE]
  /\ UNCHANGED <<queue, thread, held, want, sync, sent, calls, m_packets, history>>

(* ... End.                                                                *)
EndStream(q) ==
  /\ thread[q] = "none"
  /\ Step(At("join", q, 0), Run)
  /\ Change(q, End(queue[q]))
  /\ UNCHANGED <<streams, sync, sent, calls, m_packets, history>>

PlayerCalls == FlushAudio \/ \E q \in Streams :
  OpenStream(q) \/ SendPacket(q) \/ StartDrain(q) \/ CloseStream(q)

PlayerStep ==
  \/ NoSync \/ SyncAudio \/ SyncVideo \/ SyncEnds
  \/ \E q \in Streams :
       \/ SendFlush(q) \/ PutDrain(q) \/ EndDrain(q)
       \/ CloseStream(q) \/ StopThread(q) \/ EndStream(q)

Next ==
  \/ PlayerCalls \/ PlayerStep
  \/ \E q \in Streams : StreamStep(q) \/ TimeOut(q)
  \/ \E s \in 1..MaxSyncs : Expire(s)

Spec == Init /\ [][Next]_vars

(* Threads are scheduled and a synchronization message's time passes; the  *)
(* time-out of Get is not relied upon, so that it hides no missed event.   *)
Fairness ==
  /\ WF_vars(player # Run /\ PlayerStep)
  /\ \A q \in Streams : WF_vars(StreamStep(q))
  /\ \A s \in 1..MaxSyncs : WF_vars(Expire(s))

FairSpec == Spec /\ Fairness

-----------------------------------------------------------------------------
(* Properties                                                              *)

Kinds == {"none", "packet", "flush", "sync"}
Items == [kind : Kinds, n : Nat, priority : {0, 1, 10}]

STypeOK ==
  /\ queue \in [Streams ->
       [m_messages : Seq(Items), m_prioMessages : Seq(Items), m_iDataSize : Nat,
        m_bAbortRequest : BOOLEAN, m_bInitialized : BOOLEAN, m_drain : BOOLEAN,
        m_hEvent : BOOLEAN]]
  /\ thread \in [Streams -> {"none", "get", "wait", "packet", "replay", "flush", "sync", "syncing"}]
  /\ held \in [Streams -> Items]
  /\ want \in [Streams -> {0, 1}]
  /\ m_bStop \in [Streams -> BOOLEAN]
  /\ player.q \in Streams /\ player.sync \in 0..Len(sync)
  /\ Len(sync) <= MaxSyncs
  /\ \A q \in Streams : sent[q] \in 0..MaxPackets[q]
  /\ m_packets \in Seq(Items)

(* The size a queue reports, from which the player decides whether to read *)
(* on, is that of the packets in it, whatever puts, flushes and put-backs  *)
(* of two threads came before.                                             *)
DataSizeIsRight == \A q \in Streams : queue[q].m_iDataSize = DataSize(queue[q])

(* All that a stream has yet to handle: the next message last, ...         *)
Line(q) == queue[q].m_messages \o queue[q].m_prioMessages \o <<held[q]>>

(* ... and the packets among it.                                           *)
Packets(q) == {it \in ToSet(Line(q)) : it.kind = "packet"}

(* Packets reach the decoder for the first time in the order they were     *)
(* sent, also after some were put back, and never while one that has to be *)
(* decoded again waits behind them.  Only the video stream decodes again.  *)
PacketsInOrder ==
  \A q \in Streams :
    LET line == Line(q)
        Packet(i) == line[i].kind = "packet"
    IN  /\ \A i, j \in DOMAIN line :
             i < j /\ Packet(i) /\ Packet(j) /\ line[j].n > decoded[q] => line[i].n > line[j].n
        /\ q = "audio" => \A it \in Packets(q) : it.n > decoded[q]

(* A stream that waits with its event not set has nothing to wait for: no  *)
(* message it would take is queued and nobody has aborted the queue.       *)
NoMissedMessage ==
  \A q \in Streams :
    thread[q] = "wait" /\ ~queue[q].m_hEvent =>
      ~Ready(queue[q], want[q]) /\ ~queue[q].m_bAbortRequest

Has(q, kind) ==
  held[q].kind = kind \/ \E i \in DOMAIN queue[q].m_prioMessages :
                           queue[q].m_prioMessages[i].kind = kind

(* VideoPlayer.cpp:3807 "make sure players are properly flushed": once     *)
(* both streams have answered, no flush message is left that would throw   *)
(* away new packets, and the video stream has no packet from before, not   *)
(* even to decode it again.                                                *)
FlushIsComplete ==
  clean =>
    /\ \A q \in Streams : ~Has(q, "flush")
    /\ \A it \in Packets("video") : it.n > flushed["video"]

(* The same for the audio stream.                                          *)
AudioFlushIsComplete ==
  clean => \A it \in Packets("audio") : it.n > flushed["audio"]

(* The stream has reached FlushBuffers' message and not yet left it.       *)
AtBarrier(q) == \E it \in ToSet(Line(q)) : it.kind = "sync" /\ q \in sync[it.n].reached

(* While a stream waits for the other at FlushBuffers' message it decodes  *)
(* nothing, neither new nor again, however often its wait is retried.      *)
NothingPastTheBarrier == [][\A q \in Streams : Decode(q) => ~AtBarrier(q)]_vars

(* When WaitUntilEmpty returns because the stream has reached its message, *)
(* every packet sent has been decoded or flushed: what is left is there to *)
(* be decoded again.                                                       *)
DrainedWhenReached ==
  [][\A q \in Streams :
       player.step = "waitdrain" /\ player.q = q /\ player' # player
         /\ Reached(player.sync)
       => \A it \in Packets(q) : it.n <= decoded[q]]_vars

(* Whatever the player has begun (a flush, a close with or without         *)
(* draining) ends, and without the time-outs of Get.                       *)
PlayerComesBack == player # Run ~> player = Run
=============================================================================

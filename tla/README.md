# Formal models of the media center's concurrent core

The program is a fork of Kodi (XBMC): a media center in C++ whose services run
on many threads and meet in queues, caches and events. This directory holds
TLA+ models of the parts where the interleaving of threads carries the
correctness, TLC configurations that check them on small instances, and proofs
for TLAPS that hold for every instance. Paths are relative to the repository's
root (`src/...`); a comment above each property names the code it is about.

    tlc -config MCFileCache.cfg MCFileCache.tla      # one run
    tlapm FileCacheProofs.tla                        # one module of proofs

`PROJECT.json` lists components, runs, the mutation that breaks each property,
the source lines behind each definition, the findings, the hazards and the
theorems.

## 1. Inventory

| Component | State | Operations | Meets |
|---|---|---|---|
| **Job manager** `utils/JobManager.cpp`, `Job.h` | five deques of jobs by priority, the work items in progress, the workers, `m_running`, `m_pauseJobs`, a counter of ids, an event | AddJob, CancelJob, CancelJobs, Restart, PauseJobs, UnPauseJobs; in a worker GetNextJob, PopJob, OnJobProgress, OnJobComplete | its clients by callbacks from worker threads |
| **Job queue** `CJobQueue`, same file | a deque of waiting jobs, the entries handed to the manager | AddJob, CancelJob, CancelJobs, OnJobComplete, QueueNextJob | the job manager, as a client and as the target of its callbacks |
| **Event** `threads/Event.*` | a flag and a count of waiters | Set, Reset, Wait, WaitMSec, groups | everything |
| **Circular cache** `filesystem/CircularCache.cpp` | a ring buffer and three positions | WriteToCache, ReadFromCache, Seek, Reset, GetMaxWriteSize, WaitForData | the file cache's two threads |
| **File cache** `filesystem/FileCache.cpp` | positions, a stop flag, two events, the source file | Process (the filler's loop), Read, Seek, Close | the source, the cache, the player |
| **Disk and double cache** `filesystem/CacheStrategy.cpp` | a growing file; two caches and which is active | as the circular cache | the file cache |
| **Actor protocol** `utils/ActorProtocol.cpp` | two queues of messages, a free list, each message's flags and event | Send, SendSync with a time-out, Receive, Reply, Release, Purge, PurgeOut | the audio engine, its sink, the outputs of hardware decoders |
| **Player message queue** `cores/VideoPlayer/DVDMessageQueue.cpp` | a normal and a priority list, sizes and times, abort and drain flags, an event | Put, PutBack, Get, Flush, Abort, End, WaitUntilEmpty | the player's thread and one thread per stream, which also meet in synchronization messages (`DVDMessage.cpp`) |
| **Application messenger** `messaging/ApplicationMessenger.cpp` | two queues, receivers, a stop flag | SendMsg, PostMsg, ProcessMessages, ProcessWindowMessages, Stop, Cleanup | every thread, towards the application thread; the graphics lock; the job manager, when the application stops |
| **Threads, timers** `threads/` | a handle, a stop flag, two events | Create, StopThread, Sleep; Start, Stop, Restart | everything |
| **Render manager, audio engine, video player** `cores/` | buffers, clocks, decoders | | each other, by messages and time |
| **The rest** application, user interface, databases, television, settings, add-ons, interfaces, platforms, vendored libraries | | | mostly one thread each, on top of the above |

What is hard, by component, and what makes it correct:

* *Job manager.* Four kinds of actors (clients, the controller that stops it,
  workers, the workers' callbacks) share one lock that GetNextJob,
  OnJobProgress, OnJobComplete and CancelJobs leave in the middle. Workers
  come and go with a 30 s time-out, are counted instead of named, and are woken
  by an auto-reset event. Correct means: no job is deleted twice, leaked or used
  after its deletion; a queued job always has a worker; each priority keeps its
  limit; CancelJobs returns and leaves nothing behind; a job that has been
  cancelled gets no new callback (the one copied before may still be called).
* *Job queue.* It counts on one callback per job; CancelJob takes that callback
  away. Correct means: never more than `m_jobsAtOnce`, no slot lost, no job
  stranded, and after CancelJobs, which the destructor relies on, neither a job
  left nor a callback on its way. The last is not so: see section 4.
* *Circular and file cache.* The filler asks for room, reads the source without
  any lock and then writes, while the reader moves the positions that room was
  computed from. Seeks are answered through two events and three unlocked
  variables. Correct means: what the window claims is there, no byte is
  overwritten while it counts, the reader gets the file's bytes in order,
  neither thread waits for ever for the other, Close returns.
* *Actor protocol.* The time-out of a synchronous send races its reply. Such a
  message is released twice, once by each side, and must be recycled once, after
  both. Correct means: no message is recycled twice or while somebody uses it,
  none is lost but those PurgeOut throws away, and a call is answered or expires,
  never both.
* *Player message queue.* The player empties, fills, aborts and ends queues whose
  readers wait, hold a packet, or put one back. After a seek a flush message and a
  barrier must separate the old packets from the new. A video codec that has lost
  its state is given its last packets again, through the same queue. Correct means:
  packets decoded in order, those to be decoded again before any new one, the right
  size, no wait that misses its message, a complete flush, and a player that always
  comes back from closing or draining a stream.
* *Messenger.* Senders wait for an application thread whose handlers run message
  loops of their own and one of whose messages stops everything. Correct means: a
  message that is waited for is handled or answered exactly once, the sender
  returns, and Stop ends.

## 2. Modules

| Module | What it is |
|---|---|
| `JobService` | abstract: what the manager promises its clients. A job is refused, or accepted and then dropped, or run under its priority's limit, and deleted once; a closed service has nothing left. |
| `JobManager` | `CJobManager` and its `CJobWorker` threads; `Service` is its refinement mapping to `JobService` |
| `JobManagerProofs` | the inductive invariant, the safety theorems, and the proof that `JobManager` implements `JobService` |
| `JobQueue` | `CJobQueue` composed with the whole manager: it extends `JobManager`, its steps call the manager's actions |
| `JobQueueProofs` | the manager's invariant under the queue's calls, the queue's own, and its safety theorems |
| `CircularCache` | `CCircularCache`, with a specification of its own (`CSpec`): any methods in any order, data written byte after byte |
| `CircularCacheProofs` | arithmetic of the ring's slots, and what every method keeps |
| `FileCache` | `CFileCache`'s two threads on a `CircularCache`; `CacheUsedInOrder` says that they follow `CSpec` |
| `FileCacheProofs` | theorems about the two threads: window, room, bytes, types, and that they follow `CSpec` |
| `ActorCalls` | abstract: what a synchronous call promises its caller, without queues, events or recycling |
| `ActorProtocol` | `Actor::Protocol` and `Actor::Message`: clients, an engine and their messages; `Calls` is its refinement mapping to `ActorCalls` |
| `ActorProtocolProofs` | who has a message when, the life of a synchronous message, and the proof that the port implements `ActorCalls` |
| `Queues` | what is kept of a queue, and the sum over a queue, as recursive functions |
| `QueueLemmas` | facts on queues that the proofs cite: elements, order, sums, and the induction behind them |
| `DVDMessageQueue` | `CDVDMessageQueue` as a record and one operator per method |
| `StreamPlayers` | the threads around two such queues: `CVideoPlayer`'s, `CVideoPlayerAudio`'s and `CVideoPlayerVideo`'s, and their synchronization messages |
| `StreamPlayersProofs` | what each method of a queue keeps, the players' invariant, and its safety theorems |
| `ApplicationMessenger` | `CApplicationMessenger` with its senders, the application thread's nested loops, the graphics lock, the jobs, `CApplication::Stop` |
| `ApplicationMessengerProofs` | where a message is until it is answered |
| `MCJobManager`, `MCJobQueue`, `MCFileCache`, `MCActorProtocol`, `MCStreamPlayers`, `MCApplicationMessenger` | instances for TLC |

**How state and steps correspond.** A variable has the name of the member it models.
A stretch of code that holds the component's lock without leaving it is one action
with the name of the function; a function that leaves its lock is cut there, and a
thread's place in the code is a string (`pc`, `stopper`, `filler`, `reader`).
Variables of the file cache that no lock protects are read and written at those
places, in the code's order. History variables (`cancelled`, `released`, `failed`,
`skipped`, `decoded`, `flushed`, `clean`) are read by no guard; `owner` only keeps a
client from adding a job twice. `released` counts the slots of a job queue that
CancelJob gave back while jobs waited and that nobody has filled since.

*Jobs* are model values with a `life`: deleting what is not live makes it
"corrupt", so a double deletion is visible. Work items are records of id,
priority and whether the callback is set; the copy that OnJobProgress and
OnJobComplete make is the worker's `copy`. The event is `m_jobEvent`; as in
`threads/Event.h`, the last waiter to leave clears it. Ids wrap at `MaxId`, the largest
unsigned int. An id is not issued again while a job that has it is alive (2^32
jobs within one job's life): the guard of `AddJob` says so.

*A byte* of a file is named by its position, so a slot of the ring that holds `p`
holds the file's byte `p`, and "the reader gets the right data" is a statement about
positions. A Seek to the position the reader believes to be at returns at once
(`SeekNowhere`), any other asks the cache first (`StartSeek`). WriteToCache,
ReadFromCache, Reset and GetMaxWriteSize are one action or operator each; Seek
leaves the lock to wait and is two. In `FileCache` the source may give less than
asked, nothing, or a fatal error, and may refuse to seek. A wait with a time-out may
end at any time.

*A message of a port* is a number, and `msg` gives its fields. `mine` is the
message a thread sends, waits for, handles or releases, `other` the second one in
its hands: a caller's `*retMsg`, or what the engine is about to send. The test in
Release (under the lock) and the freeing (after it) are two steps; so are the
push of a message and the setting of the engine's event, the making of a reply
and the setting of its sender's event. A reply is the caller's from
the time-out on only if the caller, under the lock, finds it there (`CheckReply`).

*A stream's queue* keeps its items as the code does: the front of a list is its
newest item and Get takes the back. A packet is named by the order in which the
player sent it, which is its size as well: a wrong sum and a wrong order both show.
Why a stream asks for urgent messages only (paused, waiting for the clock, a full
decoder), whether its codec takes a packet, and when it loses its state is left to
chance. What the video stream keeps for that case is `m_packets`: a packet the codec
takes is added, and the oldest may go (`Keep`, for any `GetConvergeCount`, which is
0 by default). When GetPicture says VC_FLUSHED or VC_REOPEN, after a packet or
a time-out of Get, all of it is put into the queue again with priority 10, one
packet per step of `Replay`, since the player puts messages meanwhile. A flush and a
new codec forget it. The player's thread is a small machine (`player`):
FlushBuffers, WaitUntilEmpty and CloseStream are cut at each call on a queue,
because streams run in between. `sync` holds the barrier and drain messages with the
sources that have reached them; a stream's wait of 100 ms that fails (`RetrySync`)
queues the message again.

*The application thread* is a stack of message loops (`frames`): a handler may
begin another loop (a dialog, a script it waits for). `queue` holds the two queues
by name; a message is a record of number, sender, kind and whether it is waited
for; of the kinds, "gui" goes to the window queue and its handler needs the
graphics lock, "quit" runs `CApplication::Stop`. Job manager workers appear as
senders that must end their job before Stop's CancelJobs returns. `late` is the
history of messages pushed after Cleanup.

## 3. Runs

| Run | Question | Result |
|---|---|---|
| `jobs` | is the manager safe under all interleavings, does it implement `JobService`, do jobs finish and does CancelJobs return? | holds |
| `jobs_unpause` | are pausable jobs resumed after UnPauseJobs (`JobManager.h:300`)? | refuted |
| `queue` | does a queue keep its share, lose no slot, leave idle only those CancelJob gave back, and clear itself? | holds |
| `queue_cancel` | is no OnJobComplete performed after CancelJobs has returned (`JobManager.h:134`)? | refuted |
| `filecache` | is the window sound, does the reader get the file, is there room when there must be? | holds |
| `filecache_live` | do Seek and Close return? | holds, with one exception |
| `filecache_close` | does Close always return (`FileCache.cpp:588`)? | refuted |
| `filecache_seek` | is a Seek that returns its target there (`Filesystem.h:2052`)? | refuted |
| `actor` | is every message recycled once and in time, is none lost but to PurgeOut, is a call answered or expired, does what is sent come back? | holds |
| `players` | are sizes, order, waits, flushes, barriers and drains right, and does the player come back? | holds |
| `players_flush` | has the audio stream, too, nothing left from before a confirmed flush (`VideoPlayer.cpp:3807`)? | refuted |
| `messenger` | is a message handled or answered once, do senders return, does Stop end? | holds, with two exceptions |

**Bounds and why they are enough.**

* `jobs`: three jobs and two workers with `max_workers = 4`: two pausable jobs of
  which one at a time may run, so that one waits for its limit, and a DEDICATED
  job without a limit. A job can be queued, in progress and cancelled at once,
  and a worker asleep or ending while the other is busy. One worker more only
  adds copies of these roles. Ids do not wrap in this instance; the theorems
  hold for every `MaxId`.
* `queue`: four jobs, two at once, two workers: two jobs wait while two run, and
  each of the two that run may be cancelled or completing, so that several slots
  may be free at once while a job waits. With three jobs that cannot happen.
  Priority 0, so pausing matters.
  Jobs and workers are symmetric; the safety run needs no fairness. The refuted
  claim (`queue_cancel`) needs one worker; it has two jobs.
* `filecache`: a ring of four, a back buffer of one (`m_size / 4`), a file of
  five: data wrap around the ring's end, history is dropped, and the last chunk is
  shorter than the chunk size of two. `SeekMargin = 2` stands for the 100000
  bytes a seek waits past the end of the data, so positions near the end, further
  on, in the back buffer and dropped from it all exist. Seeks go up to one position
  past the file's end, which stands for all of those. The ring is smaller than
  the file, as for a remote film; the proofs cover the ring as large as the file.
* `filecache_live`: a ring of two, no back buffer, one byte at a time, a file of
  four: the least in which a seek may find the ring full, empty, or past the end.
* `actor`: two clients that call synchronously, one of which also sends the signal
  that gets purged; three message objects. Two calls in flight and a third
  message (a reply, a purged signal, an unsolicited message) make every message
  object change its role. A client that finds no free object waits, where the
  program would allocate: fewer objects mean more recycling.
* `players`: two packets for the video stream and one for the audio stream, one
  synchronization message, three calls that open, flush or close: a stream opened, fed
  and flushed or drained and closed, with packets before and after the flush, and
  with one packet to be decoded again while another is new, or both again. Both
  streams, since the barrier needs two. Only the video stream decodes
  again; audio with one packet is put back, flushed and drained as with two, and
  their order among themselves is proved. The refuted claim needs one packet only.
* `messenger`: one free thread and one job, three messages, two loops: a message
  that is waited for, one that quits and one that is posted or handled in between,
  in a nested loop.

**Fairness.** Threads are scheduled and calls that wait end, nothing more.
Jobs: weak fairness of each worker's own steps and of CancelJobs' loop; strong
fairness of `CompleteWork`, since a job that reports progress again and again
passes through other places (a `DoWork` that never ends is a client's bug). No
client is obliged to call anything. File cache: weak fairness of the filler
thread as a whole and of the steps of a call in progress; reads, seeks and Close
need never be begun. Actor: weak fairness of each thread's own steps, and strong
fairness of `ReceiveOutMessage`, since the engine's loop looks at its port first
however often it sends on its own account; the engine's time-out is left out, so
that it cannot hide a message that was not announced. Players: weak fairness of
each stream's thread without the time-out of Get (again, it would hide a missed
event), of the player once it has begun something, and of a synchronization
message's time. Messenger: weak fairness of the application thread and of each
sender; handlers return and jobs end; nobody has to send, or to nest a loop.
A choice inside a step (which bytes the source gives,
whether it fails) is never fair. Deadlock is not checked: without clients
everything may rest, and a closed file is the end.

**Mutations.** For each property of a passing run `PROJECT.json` names a
definition with a plausible bug (a dropped guard, an off-by-one, a missing
reset), under which TLC finds the property violated in the same run.

## 4. What the violated runs show

Each states what a comment or a header of the repository says; the trace
follows the code line by line. In short:

1. `UnPauseJobs` wakes no one: a pausable job added during a pause stays queued,
   possibly without any worker, until some other job is added.
2. `CJobQueue::CancelJobs` may return with an OnJobComplete on its way: the
   worker that copied its work item (`JobManager.cpp:388`) before the callback was
   cleared calls the queue by the copy. The destructor has only CancelJobs to rely on.
3. `CFileCache::Close` may wait for ever: the loop that drains the cache after a
   fatal read error looks at the seek event only, and that may be used up.
   `CloseReturnsUnlessDraining` shows that this is the only such state.
4. `CFileCache::Seek` returns its target and sets `m_readPos` although the source
   did not seek and the next Read gives the old position's bytes. There is a
   second way: a Seek that fails has by then moved `m_cur` (`CircularCache.cpp:217`)
   and not `m_readPos`, and the next Seek to `m_readPos` returns it at once.
5. `CVideoPlayerAudio::Flush` empties the queue in the player's thread. A packet
   the audio thread holds at that time is put back afterwards and outlives the
   flush and its barrier. The video stream empties its queue in its own thread
   for this very reason (`VideoPlayerVideo.cpp:779`).

One more disagreement is stated as an exception in a property that holds. `NoIdleSlot`
says that, while jobs wait, the free slots of a job queue are exactly those that
CancelJob gave back without handing over another job. The jobs behind wait for
the next AddJob or completion, and for ever if there is none, where `JobManager.h:52`
says that they are processed.

The two exceptions of `messenger` contradict no text of the repository and are
stated in the properties instead. A message pushed after Cleanup (`late`: the stop
flag was read before the lock was taken) is never answered, and whoever waits for it
with a window system still there waits for ever. And Stop may hang: it waits in
CancelJobs, on the application thread, for a job that itself waits in SendMsg for
that thread (`JobsWaitForStop`; `VideoLibraryRefreshingJob.cpp:142` opens a dialog
that way). The properties show that nothing else goes wrong.

## 5. What is proved

TLAPS checks every step of the proofs. Every invariant and every action property
or refinement that a passing run checks is also a theorem, for every value of the
constants. The proofs assume only the named assumptions on them:

* `JobsAssumption`, `LimitsAssumption`: finitely many jobs; `max_workers` leaves
  each priority a worker.
* `QueueAssumption`: a job queue has at least one slot and one of the priorities.
* `CacheAssumption`, `OpenAssumption`: the sizes `CFileCache::Open` may choose, at
  least two chunks or the whole file, with a quarter of the ring for the back.
* `ThreadsAssumption`: a port has finitely many clients, its engine is not one of
  them, and `Sends` says who sends what.
* `SendersAssumption`: finitely many senders; the application thread has a loop.
* `BoundsAssumption`: the bounds on what the player sends are natural numbers.

The bounds of the models (`MaxMessages`, `MaxDepth`, `MaxPackets`, ...) are
constants too: a theorem that holds for each of them holds for a run of any length.

**Jobs.** No safety property is inductive alone. `IInv` adds to the types: a queue
holds each job once, live and in nobody's hands (`QueueInv`); a worker holds a job
exactly between PopJob and its deletion, nobody else holds it, and `m_processing` is
what is held and not yet erased (`HoldInv`); a live job is queued or held
(`LifeInv`); `m_workers` is what the workers' places say, and a stopped manager is
empty once CancelJobs has returned (`StopInv`); a cancelled job has lost its
callback (`CancelInv`). From it follow, for any number of jobs and workers,
`MemorySafety`, `ShutdownIsComplete` and `CancelIsFinal`. `LimitsHold` adds a count:
PopJob tests all of `m_processing` against one priority's limit, and limits grow
with the priority. `NoJobIsStranded` rests on this: a worker gives up only when
PopJob finds nothing, so a job that is left in a queue is held back by its limit,
and then other workers are busy. `Refinement` maps every step of the threads to a
step or a stutter of `JobService`.

**Job queue.** `IInv` is kept by the queue's calls as well, also by those it makes
from a callback (`QueueMemorySafety`). `QIInv` adds what relates the two
components: what waits is new to the manager and queued once (`WaitingInv`);
entries are distinct and no more than the slots (`EntryInv`); an entry has its job's
id, and live jobs have different ones (`IdInv`); the manager will call back for
every entry and for nothing else (`CallInv`), and CancelJob takes away
entry and callback together; a job in the manager's hands has an entry
until its worker has called OnJobComplete (`HandedInv`); and the free slots while
jobs wait are those CancelJob left (`SlotInv`). The last was a Boolean first, "no
slot is free unless a cancellation has freed one"; its proof failed, because the
next completion fills one slot and may leave a second one that another
cancellation freed. That takes four jobs. The property counts the slots now. From
`QIInv` follow `AtOnceHolds`, `SlotsAreGivenBack`, `OnlyCancelIdles` and
`CancelJobsIsFinal`. The last says what CancelJobs does achieve, no job left to be run and
no job in progress with a callback; the copies it cannot reach are the finding.

**Ring.** `DivMod`, `SlotsDiffer` and `SlotsInARow` are the arithmetic: positions
less than `m_size` apart have different slots, and a run of positions that does not
cross the ring's end has slots in a row. `CInv` (types, `Window`, `CachedBytes`)
is inductive for `CSpec`: `RingHoldsTheFile`; `BackBufferIsKept` is an action
property on top of it.

**File cache.** `WInv` says that the cache ends where the filler's file position
and its block say, and that a block does not reach past the file. It gives
`WindowIsSound` and `FillerFindsRoom` (with an empty front a chunk always fits,
which is what the choice of sizes in Open is for) even if seeks of the source
fail. `BytesInv` is about why the data are right: a seek is answered once, and
no event is left over for the next call while the filler runs (`EventsInv`); the
source stands where the cache ends, or a seek is pending that will put it there
before anything is read (`SourceInv`); the reader is where it was told to be
(`ReaderInv`). It gives `CacheIsUsedInOrder` (the two threads implement
`CSpec`) and `ReaderGetsTheFile`, both as long as no seek of the source has
failed: run `filecache_seek` shows that they cannot be had otherwise.
`ReaderGetsTheFile` holds whatever the last Seek returned, with one more exception:
once a Seek has moved the cache to the end of its data (`CircularCache.cpp:217`) the
reader and the cache are apart (`skipped`), until a Seek is carried through. A Seek
to `m_readPos` does not bring them together, since it looks at `m_readPos` only.
`FileCacheTypeCorrect` and `ReaderCanGoBack` hold after failed seeks too. For the
types this needs that the reader's position, wrong then, is wrong by no more than
the file's size (`ReadPosOK`).

**Actor protocol.** `AInv` says what a thread holds at each of its places
(`PcInv`); that nobody has, or may still get, what another has, except that a
synchronous message is its sender's and the engine's at once (`OwnInv`); and that
whatever was made is somewhere, or PurgeOut took it (`PlaceInv`). `SyncInv` is the life of a
synchronous message: before its first release its sender has it, and once pushed the
engine's side too (`FirstRelease`); after it exactly one of them (`SecondRelease`);
nothing answers it before it is handled (`NotAnswered`); and it is expired or
answered or waited for, where expired and answered exclude each other (`Outcome`).
A caller's possible reply counts as the caller's as soon as it is made (`Second`):
without this a reply that meets a time-out would be nobody's. From `AInv` follow
`RecycledIsUnused` and, step by step, `Refinement` to `ActorCalls`. With `GoneInv` (what
PurgeOut took is nowhere, not even a possible reply, so nothing can put it back)
follows `OnlyPurgeOutLoses`: the messages that are lost are exactly those.

**Players.** `SInv` has a part for each stream and a part for what relates the
streams and the player. Each stream: its normal list holds packets and drain
messages, its priority list flushes, barriers and, in front of them, packets to be
decoded again; its size is the sum of the normal list's packets, and it is empty
when closed (`Good`); what its thread holds fits its place, and a thread that waits
with its event not set finds nothing it would take (`ThreadOK`); packets that have
not been decoded are queued newest first, behind them is the one at hand
(`OrderOK`); packets with priority have been decoded before, and while there are any
the thread has neither a new packet nor another message at hand (`AgainOK`); what is
kept for the codec has been decoded (`KeptOK`); and the audio stream decodes none
twice (`OnceOK`). Between them: old packets are left to the video stream, in its
queue or kept for its codec, only while it still has a flush to take (`OldInv`);
messages name synchronization messages that exist (`SyncInv`, `UnmetInv`); no stream
meets FlushBuffers' message before it has taken each flush queued ahead of it, nor
decodes while it waits there, be it again (`BarrierInv`); and WaitUntilEmpty's
message stays behind the packets that have not been decoded (`DrainInv`). From them
follow the theorems named after the properties. The audio stream has no counterpart
of `OldInv`: that is what `players_flush` refutes.

**Messenger.** `MInv` says that a message is in one queue or in the handler of one
loop (`StackInv`), that numbers identify messages and an answered one is in no
place (`NumberInv`), and that a sender's message is answered or placed from the
push on, and not before it (`SenderInv`). `AnsweredOnce` follows for any number of
senders and any nesting.

**How induction is done.** What a queue keeps or sums up runs through all its
elements. The models use for this `Kept` and `Total`, recursive functions on
`0..Len(s)`. `QueueLemmas` derives their values from their definitions, and
proves facts about them by induction stated over a set of indices (`UpTo`), since
an operator cannot be passed to the library's theorems.

**Only model-checked.** All liveness, since temporal reasoning under fairness and
ENABLED are out of the prover's reach: `JobsFinish`, `StopReturns`, `SeekReturns`,
`CloseReturnsUnlessDraining`, `SentMessagesComeBack`, `PlayerComesBack`,
`SendersReturn` and `StopEnds`. So are, of course, the five refuted claims.

## 6. Abstractions, and what is not modelled

* Jobs compare by address, as those of `Submit` do (`CLambdaJob`, `JobManager.h:79`);
  AddJob's branch that deletes a duplicate (`JobManager.cpp:113-119`) is then never
  taken. Not covered are jobs with a value equality, whose completion may erase
  another job's entry, and jobs with the default `operator==` (`Job.h:139-142`),
  which is never true, so that neither OnJobComplete nor CancelJob finds their
  entry and the slot is lost.
* The job queue's model keeps its manager running; stopping is modelled in
  `JobManager` only.
* Time is a choice: a time-out may happen whenever its wait has begun. Rates, the
  throttle's sums, the fill level and statistics only choose waiting times.
* A Read of the file cache that gets nothing changes nothing; its return value
  (0 for end of file, time-out and error alike) is not part of the state.
* The file's length is known: `FileSize` is constant and not 0 (a source that does not
  know its length has 0). Seeks go to positions from 0 on; the cache refuses others.
  Files that grow while they are read, IoControl, caches on disk and in two halves
  are left out, as is `Reset` with `clearAnyway`.
* Events are modelled where they are used; event groups are not.
* The actor protocol's payloads, its PurgeIn, DeferIn and DeferOut (which nothing
  in the repository calls) and the engines' state machines are left out.
* The players' queues without the packets' times; of the players' other messages
  VIDEO_DRAIN, which asks the codec for its last pictures, GENERAL_RESET and
  GENERAL_STREAMCHANGE, after which the kept packets are forgotten, are left out.
  A player that is stopped from outside in the middle of FlushBuffers leaves its
  wait at once (`m_bStop`); in the model it waits for the message's time.
* In which order packets are decoded again is not claimed. They are queued oldest
  first, but one that the codec then rejects goes back to the normal list
  (`VideoPlayerVideo.cpp:582`), so that all others to be decoded again overtake it.
* A message the application thread sends to itself and waits for is handled at
  once, and needs no model; receivers are registered throughout; delayed messages
  are a thread that sleeps and posts.
* Components marked `not_modelled` in `PROJECT.json`: those of the next section, and
  those that are glue, drawing, parsing, databases, drivers or vendored code.

## 7. Plan

Done: the modules of section 2, their runs, and the proofs of section 5. Next, in
this order:

1. Jobs that compare by value, or never, in `JobQueue`: a completion may erase the
   entry of another job, or none. `IdInv` and `CallInv` say what the present proof
   rests on.
2. `JobQueue` on a manager that stops: an entry for a job that was refused.
3. `CDoubleCache` and `CSimpleFileCache` under `FileCache`'s reader: a seek that
   swaps caches must keep the reader's bytes.
4. Files that grow while they are read, in `FileCache`.
5. The rewind memory of RetroPlayer.

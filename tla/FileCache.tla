----------------------------- MODULE FileCache -----------------------------
(***************************************************************************)
(* CFileCache (xbmc/filesystem/FileCache.cpp) on a CCircularCache: the     *)
(* filler, a thread that reads the source ahead into the cache, and the    *)
(* reader, the thread that calls Read, Seek and Close.                     *)
(*                                                                         *)
(* They meet in the cache (each of its methods is one action), in the      *)
(* events m_seekEvent and m_seekEnded, which a wait that sees them clears, *)
(* and in m_seekPos, m_readPos and m_bStop, which no lock protects.  Every *)
(* wait of the code has a time-out or polls; here it may end at any time.  *)
(* Rates, the throttle's arithmetic and the fill level only choose how     *)
(* long the filler waits and are left out.                                 *)
(***************************************************************************)
EXTENDS CircularCache

CONSTANT m_chunkSize   \* how much the filler asks the source for

(* The sizes Open chooses: the whole (small) file, or two chunks at least. *)
ASSUME OpenAssumption ==
  /\ m_chunkSize \in Nat \ {0} /\ FileSize > 0
  /\ m_size_back = m_size \div 4
  /\ (m_size = FileSize /\ m_chunkSize <= m_size) \/ m_size >= 2 * m_chunkSize

VARIABLES
  m_seekEvent, m_seekEnded,   \* auto-reset events, TRUE when signalled
  m_seekPos, m_readPos, m_writePos,
  m_bStop, m_bEndOfInput, m_seekPossible,
  source,      \* the position of the source file
  block,       \* what the filler has read: bytes from first on, done are written
  filler,      \* where Process is
  reader,      \* where the reader's call is
  target,      \* iTarget of the Seek in progress, else 0
  result,      \* what the last Seek returned: its target, or an error
  failed,      \* (history) a Seek was told it had ended that had not been done
  skipped      \* (history) a Seek has moved the reader to the end of the cache's
               \* data, and nothing has brought it back to where it says it is

fillVars == <<m_writePos, source, block>>
flags == <<m_bEndOfInput, m_seekPossible>>
callVars == <<reader, target, result, m_bStop, failed, skipped>>
fillerVars == <<fillVars, flags, filler>>
vars == <<cvars, fillerVars, callVars, m_seekEvent, m_seekEnded, m_seekPos, m_readPos>>

NoBlock == [first |-> 0, len |-> 0, done |-> 0]

FInit ==
  /\ CInit
  /\ m_seekEvent = FALSE /\ m_seekEnded = FALSE
  /\ m_seekPos = 0 /\ m_readPos = 0 /\ m_writePos = 0
  /\ m_bStop = FALSE /\ m_bEndOfInput = FALSE /\ m_seekPossible \in BOOLEAN
  /\ source = 0 /\ block = NoBlock /\ failed = FALSE /\ skipped = FALSE
  /\ filler = "top" /\ reader = "idle" /\ target = 0 /\ result = "ok"

-----------------------------------------------------------------------------
(* Process, the filler: from one place of its loop to the next.            *)
From(here, there) == filler = here /\ filler' = there

Top ==
  /\ From("top", IF m_bStop THEN "exit" ELSE "seek")
  /\ UNCHANGED <<cvars, fillVars, flags, callVars, m_seekEvent, m_seekEnded, m_seekPos, m_readPos>>

NoSeekAsked ==
  /\ From("seek", "fill") /\ ~m_seekEvent
  /\ UNCHANGED <<cvars, fillVars, flags, callVars, m_seekEvent, m_seekEnded, m_seekPos, m_readPos>>

(* A mutant: the source goes to the position asked for.                    *)
SeekDoneToPos ==
  /\ From("seek", "fill") /\ m_seekEvent
  /\ m_seekEvent' = FALSE /\ m_seekEnded' = TRUE
  /\ source' = m_seekPos
  /\ Reset(m_seekPos)
  /\ m_readPos' = m_seekPos
  /\ m_writePos' = m_end'
  /\ skipped' = FALSE
  /\ UNCHANGED <<block, flags, reader, target, result, m_bStop, failed, m_seekPos>>

(* A seek was asked for: the source goes to where the cache will continue, *)
(* unless that is the end of the file, and the cache to m_seekPos.         *)
SeekDone ==
  LET cacheMaxPos == CachedDataEndPosIfSeekTo(m_seekPos) IN
  /\ From("seek", "fill") /\ m_seekEvent
  /\ m_seekEvent' = FALSE /\ m_seekEnded' = TRUE
  /\ source' = IF cacheMaxPos = FileSize THEN source ELSE cacheMaxPos
  /\ Reset(m_seekPos)
  /\ m_readPos' = m_seekPos
  /\ m_writePos' = m_end'
  /\ skipped' = FALSE
  /\ UNCHANGED <<block, flags, reader, target, result, m_bStop, failed, m_seekPos>>

(* The source did not seek: nothing moves, but the seek has ended.         *)
SeekFails ==
  /\ From("seek", "fill") /\ m_seekEvent
  /\ CachedDataEndPosIfSeekTo(m_seekPos) # FileSize
  /\ m_seekEvent' = FALSE /\ m_seekEnded' = TRUE
  /\ m_seekPossible' \in BOOLEAN
  /\ failed' = TRUE
  /\ UNCHANGED <<cvars, fillVars, m_bEndOfInput, reader, target, result, m_bStop, skipped,
                 m_seekPos, m_readPos>>

(* The throttle passes a seek event on, but not once it is stopping.       *)
ThrottleStop ==
  /\ From("fill", "fill") /\ m_bStop /\ m_seekEvent
  /\ m_seekEvent' = FALSE
  /\ UNCHANGED <<cvars, fillVars, flags, callVars, m_seekEnded, m_seekPos, m_readPos>>

MaxSourceRead == Lesser(m_chunkSize, FileSize - m_writePos)

RoomForChunk == GetMaxWriteSize(m_chunkSize) >= MaxSourceRead

(* The source is read only if the cache has room for all that may come.    *)
CheckRoom ==
  /\ From("fill", IF RoomForChunk THEN "read" ELSE "top")
  /\ UNCHANGED <<cvars, fillVars, flags, callVars, m_seekEvent, m_seekEnded, m_seekPos, m_readPos>>

ReadSource(n) ==
  /\ From("read", "write")
  /\ n <= MaxSourceRead /\ source + n <= FileSize
  /\ source' = source + n
  /\ block' = [first |-> source, len |-> n, done |-> 0]
  /\ UNCHANGED <<cvars, m_writePos, flags, callVars, m_seekEvent, m_seekEnded, m_seekPos, m_readPos>>

(* The source gave nothing.  Before the end of the file, and with data     *)
(* left for the reader: wait for a while, or for a seek event, and retry.  *)
Retry == m_writePos < FileSize /\ Front > 0

ReadNothing ==
  /\ From("read", "top") /\ Retry
  /\ m_seekEvent' = (m_seekEvent /\ ~m_bStop)
  /\ UNCHANGED <<cvars, fillVars, flags, callVars, m_seekEnded, m_seekPos, m_readPos>>

HitEof ==
  /\ From("read", "eof") /\ ~Retry
  /\ m_bEndOfInput' = TRUE
  /\ UNCHANGED <<cvars, fillVars, m_seekPossible, callVars, m_seekEvent, m_seekEnded, m_seekPos,
                 m_readPos>>

ReadFatal ==
  /\ From("read", "drain") /\ MaxSourceRead > 0
  /\ m_bEndOfInput' = TRUE
  /\ UNCHANGED <<cvars, fillVars, m_seekPossible, callVars, m_seekEvent, m_seekEnded, m_seekPos,
                 m_readPos>>

(* A mutant: only a seek event ends the sleep.                             *)
LeaveEofNoAbort ==
  /\ From("eof", "top") /\ m_seekEvent
  /\ m_seekEvent' = ~m_bStop
  /\ m_bEndOfInput' = FALSE
  /\ UNCHANGED <<cvars, fillVars, m_seekPossible, callVars, m_seekEnded, m_seekPos, m_readPos>>

(* At the end of the input the filler sleeps until a seek, or the thread's *)
(* stop event, which StopThread sets last.                                 *)
LeaveEof ==
  /\ \/ /\ From("eof", "top") /\ m_seekEvent
        /\ m_seekEvent' = ~m_bStop
        /\ m_bEndOfInput' = FALSE
     \/ /\ From("eof", "exit") /\ reader = "joining"
        /\ UNCHANGED <<m_seekEvent, m_bEndOfInput>>
  /\ UNCHANGED <<cvars, fillVars, m_seekPossible, callVars, m_seekEnded, m_seekPos, m_readPos>>

(* After a fatal error it waits for an empty cache, or for a seek event.   *)
Drained ==
  /\ From("drain", "exit")
  /\ \/ Front = 0 /\ UNCHANGED m_seekEvent
     \/ Front > 0 /\ m_seekEvent /\ m_seekEvent' = FALSE
  /\ UNCHANGED <<cvars, fillVars, flags, callVars, m_seekEnded, m_seekPos, m_readPos>>

(* Mutants: each round writes the block from its first byte; no round      *)
(* looks at the seek event.                                                *)
WriteBlockAgain ==
  /\ From("write", "written") /\ ~m_bStop /\ block.done < block.len
  /\ WriteToCache(block.first, block.len - block.done)
  /\ block' = [block EXCEPT !.done = @ + Written(block.len - block.done)]
  /\ UNCHANGED <<m_writePos, source, flags, callVars, m_seekEvent, m_seekEnded, m_seekPos, m_readPos>>

WriteBlockOnly ==
  /\ From("write", "write") /\ ~m_bStop /\ block.done < block.len
  /\ WriteToCache(block.first + block.done, block.len - block.done)
  /\ block' = [block EXCEPT !.done = @ + Written(block.len - block.done)]
  /\ UNCHANGED <<m_writePos, source, flags, callVars, m_seekEvent, m_seekEnded, m_seekPos, m_readPos>>

(* The write loop: one round, and its look at the seek event, since "if    *)
(* cache is full we'll freeze".                                            *)
WriteBlock ==
  /\ From("write", "written") /\ ~m_bStop /\ block.done < block.len
  /\ WriteToCache(block.first + block.done, block.len - block.done)
  /\ block' = [block EXCEPT !.done = @ + Written(block.len - block.done)]
  /\ UNCHANGED <<m_writePos, source, flags, callVars, m_seekEvent, m_seekEnded, m_seekPos, m_readPos>>

NextRound ==
  /\ From("written", "write") /\ ~m_seekEvent
  /\ UNCHANGED <<cvars, fillVars, flags, callVars, m_seekEvent, m_seekEnded, m_seekPos, m_readPos>>

EndWrite ==
  /\ \/ From("written", "top") /\ m_seekEvent /\ m_seekEvent' = ~m_bStop
     \/ From("write", "top") /\ (m_bStop \/ block.done = block.len) /\ UNCHANGED m_seekEvent
  /\ m_writePos' = m_writePos + block.done
  /\ block' = NoBlock
  /\ UNCHANGED <<cvars, source, flags, callVars, m_seekEnded, m_seekPos, m_readPos>>

OnExit ==
  /\ From("exit", "dead")
  /\ m_bStop' = TRUE /\ m_bEndOfInput' = TRUE /\ m_seekEnded' = TRUE
  /\ UNCHANGED <<cvars, fillVars, m_seekPossible, reader, target, result, failed, skipped,
                 m_seekEvent, m_seekPos, m_readPos>>

FillerStep ==
  \/ Top \/ NoSeekAsked \/ SeekDone \/ SeekFails \/ ThrottleStop \/ CheckRoom
  \/ \E n \in 1..m_chunkSize : ReadSource(n)
  \/ ReadNothing \/ HitEof \/ ReadFatal \/ LeaveEof \/ Drained
  \/ WriteBlock \/ NextRound \/ EndWrite \/ OnExit

-----------------------------------------------------------------------------
(* The reader.  Read gives what the cache has, up to the ring's end; if it *)
(* has nothing, Read waits and at last returns 0, and nothing has changed. *)
Read(n) ==
  /\ reader = "idle"
  /\ ReadFromCache(n)
  /\ m_readPos' = m_readPos + Given(n)
  /\ UNCHANGED <<fillerVars, callVars, m_seekEvent, m_seekEnded, m_seekPos>>

(* A step of a call, and its return.                                       *)
Call(here, there) ==
  /\ reader = here /\ reader' = there
  /\ UNCHANGED <<target, result, m_bStop>>

Return(here, res) ==
  /\ reader = here /\ reader' = "idle"
  /\ target' = 0 /\ result' = res
  /\ UNCHANGED m_bStop

(* The position past the end stands for all of them.                       *)
Targets == 0 .. FileSize + 1

(* A Seek to m_readPos returns at once: it does not ask where the cache is. *)
SeekNowhere ==
  /\ reader = "idle"
  /\ result' = "ok"
  /\ UNCHANGED <<cvars, fillerVars, reader, target, m_bStop, failed, skipped, m_seekEvent,
                 m_seekEnded, m_seekPos, m_readPos>>

(* Any other asks the cache first, which may make all its data back buffer *)
(* before it waits for what is missing, ...                                *)
StartSeek(t) ==
  /\ reader = "idle" /\ t # m_readPos
  /\ IF NearEnd(t) THEN SeekNearEnd(t) ELSE UNCHANGED cvars
  /\ skipped' = (skipped \/ NearEnd(t))
  /\ target' = t
  /\ reader' = "cacheseek"
  /\ UNCHANGED <<fillerVars, result, m_bStop, failed, m_seekEvent, m_seekEnded, m_seekPos, m_readPos>>

FoundInCache ==
  /\ Return("cacheseek", "ok")
  /\ SeekCached(target)
  /\ m_readPos' = target
  /\ skipped' = FALSE
  /\ UNCHANGED <<fillerVars, failed, m_seekEvent, m_seekEnded, m_seekPos>>

(* ... gives up if the source cannot seek, ...                             *)
CannotSeek ==
  /\ Return("cacheseek", "error") /\ ~IsCachedPosition(target) /\ ~m_seekPossible
  /\ UNCHANGED <<cvars, fillerVars, failed, skipped, m_seekEvent, m_seekEnded, m_seekPos, m_readPos>>

(* ... or asks the filler for a position a chunk before the end at most.   *)
AskFiller ==
  /\ Call("cacheseek", "waitended") /\ ~IsCachedPosition(target) /\ m_seekPossible
  /\ m_seekPos' = Lesser(target, Greater(0, FileSize - m_chunkSize))
  /\ m_seekEvent' = TRUE
  /\ UNCHANGED <<cvars, fillerVars, failed, skipped, m_seekEnded, m_readPos>>

(* It waits for the filler's answer (the last one is its end), looking at  *)
(* times if it still runs.                                                 *)
SeekEnded ==
  /\ Call("waitended", "remaining") /\ m_seekEnded
  /\ m_seekEnded' = FALSE
  /\ failed' = (failed \/ filler = "dead")
  /\ UNCHANGED <<cvars, fillerVars, skipped, m_seekEvent, m_seekPos, m_readPos>>

TimedOut ==
  /\ Call("waitended", "checkrunning") /\ ~m_seekEnded
  /\ UNCHANGED <<cvars, fillerVars, failed, skipped, m_seekEvent, m_seekEnded, m_seekPos, m_readPos>>

CheckRunning ==
  /\ IF filler = "dead" THEN Return("checkrunning", "error")
                        ELSE Call("checkrunning", "waitended")
  /\ UNCHANGED <<cvars, fillerVars, failed, skipped, m_seekEvent, m_seekEnded, m_seekPos, m_readPos>>

(* The rest of the way, if the filler was asked for less than the target:  *)
(* wait for that much, and let the cache seek.                             *)
TooLittleData ==
  /\ Return("remaining", "error") /\ m_seekPos < target /\ Front < target - m_seekPos
  /\ UNCHANGED <<cvars, fillerVars, failed, skipped, m_seekEvent, m_seekEnded, m_seekPos, m_readPos>>

SeekRemaining ==
  /\ Call("remaining", "lastseek") /\ m_seekPos < target /\ Front >= target - m_seekPos
  /\ IF NearEnd(target) THEN SeekNearEnd(target) ELSE UNCHANGED cvars
  /\ skipped' = (skipped \/ NearEnd(target))
  /\ UNCHANGED <<fillerVars, failed, m_seekEvent, m_seekEnded, m_seekPos, m_readPos>>

(* Seek believes the cache and the filler to have done as they were asked. *)
EndSeek ==
  /\ \/ Return("remaining", "ok") /\ m_seekPos >= target /\ UNCHANGED cvars
     \/ /\ Return("lastseek", "ok")
        /\ IF IsCachedPosition(target) THEN SeekCached(target) ELSE UNCHANGED cvars
  /\ m_readPos' = target
  /\ skipped' = FALSE
  /\ m_seekEvent' = FALSE
  /\ UNCHANGED <<fillerVars, failed, m_seekEnded, m_seekPos>>

(* Close stops the filler and waits for its end.                           *)
Close ==
  /\ reader = "idle" /\ reader' = "stopping"
  /\ m_bStop' = TRUE
  /\ UNCHANGED <<cvars, fillerVars, target, result, failed, skipped, m_seekEvent, m_seekEnded,
                 m_seekPos, m_readPos>>

WakeFiller ==
  /\ Call("stopping", "joining")
  /\ m_seekEvent' = TRUE
  /\ UNCHANGED <<cvars, fillerVars, failed, skipped, m_seekEnded, m_seekPos, m_readPos>>

Join ==
  /\ Call("joining", "closed") /\ filler = "dead"
  /\ UNCHANGED <<cvars, fillerVars, failed, skipped, m_seekEvent, m_seekEnded, m_seekPos, m_readPos>>

(* What a call does once it has begun.                                     *)
CallStep ==
  \/ FoundInCache \/ CannotSeek \/ AskFiller \/ SeekEnded \/ TimedOut \/ CheckRunning
  \/ TooLittleData \/ SeekRemaining \/ EndSeek \/ WakeFiller \/ Join

ReaderStep ==
  \/ \E n \in 1..FileSize : Read(n)
  \/ SeekNowhere
  \/ \E t \in Targets : StartSeek(t)
  \/ Close
  \/ CallStep

FNext == FillerStep \/ ReaderStep

FSpec == FInit /\ [][FNext]_vars

(* The scheduler runs both threads, and the waits of a call come to an end. *)
FFairness == WF_vars(FillerStep) /\ WF_vars(CallStep)

FLiveSpec == FSpec /\ FFairness

-----------------------------------------------------------------------------
FTypeOK ==
  /\ CTypeOK
  /\ {m_seekEvent, m_seekEnded, m_bStop, m_bEndOfInput, m_seekPossible, failed,
      skipped} \subseteq BOOLEAN
  /\ {m_seekPos, m_writePos, source} \subseteq Positions /\ target \in Targets
  /\ m_readPos \in 0 .. 2 * FileSize + 1
  /\ block \in [first : Positions, len : Positions, done : Positions]
  /\ filler \in {"top", "seek", "fill", "read", "eof", "drain", "write", "written", "exit", "dead"}
  /\ reader \in {"idle", "cacheseek", "waitended", "checkrunning", "remaining", "lastseek",
                 "stopping", "joining", "closed"}
  /\ result \in {"ok", "error"}

(* Whatever the filler wrote, dropped and was sent back to, and whatever   *)
(* Seek returned, the next bytes Read gives are those of the file from the *)
(* reader's position on.  Two things in the code break this, each from the *)
(* step on that does it and no earlier: a seek of the source that fails    *)
(* but is reported ended (failed), and a Seek that moves the reader in the *)
(* cache and then cannot go on (skipped); SeekTellsErrors is about both.   *)
ReadsTheFile ==
  reader = "idle" /\ ~skipped /\ ~failed =>
    \A i \in 0 .. Front - 1 : m_buf[(m_cur + i) % m_size] = m_readPos + i

(* The filler uses the cache as CSpec says: it writes byte after byte,     *)
(* however seeks and broken-off writes follow each other.                  *)
CacheUsedInOrder == [][CNext \/ failed]_cvars

(* FileCache.cpp:315-318: the filler does not read while the cache has no  *)
(* room for a chunk.  It cannot wait for ever for that, since there is     *)
(* room when the reader has read everything.                               *)
NoStarvation == filler = "fill" /\ Front = 0 => RoomForChunk

(* FileCache.cpp:401 "otherwise if cache is full we'll freeze": Seek       *)
(* returns, whatever the filler is doing and even if it has ended.         *)
SeekReturns == (reader = "cacheseek") ~> (reader = "idle")

(* FileCache.cpp:588 "Process could be waiting for seekEvent": StopThread  *)
(* wakes it, and Close returns ...                                         *)
CloseReturns == (reader = "joining") ~> (reader = "closed")

(* ... unless the filler met a fatal error with the event already used up. *)
DrainsForEver == filler = "drain" /\ ~m_seekEvent /\ Front > 0
CloseReturnsUnlessDraining == (reader = "joining") ~> (reader = "closed" \/ DrainsForEver)

(* addons/kodi-addon-dev-kit/include/kodi/Filesystem.h:2052 says that a    *)
(* seek returns "the resulting offset location" or -1: a Seek that returns *)
(* its target is there.  It need not be when the source failed to seek, nor *)
(* when an earlier Seek failed having moved the reader and this one is to  *)
(* m_readPos.                                                              *)
SeekTellsErrors == reader = "idle" /\ result = "ok" => m_cur = m_readPos
=============================================================================

-------------------------- MODULE FileCacheProofs --------------------------
(***************************************************************************)
(* Theorems about CFileCache for every size of file, chunk and ring that   *)
(* Open may choose, with a source that may fail in every way modelled: the *)
(* ring's window stays sound under the two threads, and the filler never   *)
(* waits for room that cannot come.                                        *)
(***************************************************************************)
EXTENDS FileCache, CircularCacheProofs

(* What the filler has written of the file and of its block is what the    *)
(* cache ends with, and the block does not reach past the file.            *)
BlockOK ==
  /\ m_writePos \in Nat
  /\ block \in [first : Int, len : Nat, done : Nat]
  /\ block.done <= block.len
  /\ m_end = m_writePos + block.done
  /\ m_writePos + block.len <= FileSize
  /\ filler \notin {"write", "written"} => block = NoBlock

AskedOK == m_seekPos \in Positions /\ target \in Targets /\ source \in Int

WInv == PosOK /\ Window /\ BlockOK /\ AskedOK

LEMMA InitWInv == FInit => WInv
<1> SUFFICES ASSUME FInit PROVE WInv OBVIOUS
<1>1. CInv BY InitCInv DEF FInit
<1>2. PosOK /\ Window BY <1>1 DEF CInv, CTypeOK, Positions, PosOK
<1>3. BlockOK BY CacheAssumption DEF FInit, CInit, BlockOK, NoBlock
<1>4. AskedOK BY CacheAssumption DEF FInit, AskedOK, Positions, Targets
<1> QED BY <1>2, <1>3, <1>4 DEF WInv

(* Between blocks the cache ends where the filler will go on.              *)
LEMMA EmptyBlockOK ==
  ASSUME m_end' \in Nat, m_end' <= FileSize, m_writePos' = m_end', block' = NoBlock,
         filler' \notin {"write", "written"}
  PROVE  BlockOK'
<1>1. NoBlock \in [first : Int, len : Nat, done : Nat] /\ NoBlock.len = 0 /\ NoBlock.done = 0
  BY DEF NoBlock
<1>2. \A e \in Nat : e + 0 = e OBVIOUS
<1>3. m_end' + 0 = m_end' BY <1>2
<1>4. m_end' = m_writePos' + block'.done BY <1>1, <1>3
<1>5. m_writePos' + block'.len <= FileSize BY <1>1, <1>3
<1>6. block'.done <= block'.len BY <1>1
<1>7. m_writePos' \in Nat /\ block' \in [first : Int, len : Nat, done : Nat] BY <1>1
<1> QED BY <1>4, <1>5, <1>6, <1>7 DEF BlockOK

(* Steps that leave the cache, the block and the seek's positions alone.   *)
LEMMA UnchangedKeepsWInv ==
  ASSUME WInv, UNCHANGED <<cvars, m_writePos, block>>,
         filler' \notin {"write", "written"} => block = NoBlock,
         AskedOK'
  PROVE  WInv'
<1>1. PosOK' /\ Window' BY DEF WInv, cvars, PosOK, Window, Limit, Back, Front
<1>2. BlockOK' BY DEF WInv, BlockOK, cvars
<1> QED BY <1>1, <1>2 DEF WInv

LEMMA FillerKeepsWInv == ASSUME WInv, FillerStep PROVE WInv'
<1> USE DEF From
<1>0. PosOK /\ Window /\ BlockOK /\ AskedOK BY DEF WInv
<1>a. FileSize \in Nat /\ m_chunkSize \in Nat \ {0} BY CacheAssumption, OpenAssumption
<1>1. CASE Top \/ NoSeekAsked \/ SeekFails \/ ThrottleStop \/ CheckRoom \/ ReadNothing \/ HitEof
           \/ ReadFatal \/ LeaveEof \/ Drained \/ OnExit
  <2>1. /\ UNCHANGED <<cvars, m_writePos, block, source, target, m_seekPos>>
        /\ filler \notin {"write", "written"}
    BY <1>1 DEF Top, NoSeekAsked, SeekFails, ThrottleStop, CheckRoom, ReadNothing, HitEof,
                ReadFatal, LeaveEof, Drained, OnExit, fillVars, callVars
  <2> QED BY <2>1, <1>0, UnchangedKeepsWInv DEF BlockOK, AskedOK
<1>2. CASE NextRound
  <2>1. UNCHANGED <<cvars, m_writePos, block, source, target, m_seekPos>> /\ filler' = "write"
    BY <1>2 DEF NextRound, fillVars, callVars
  <2> QED BY <2>1, <1>0, UnchangedKeepsWInv DEF AskedOK
<1>3. CASE SeekDone
  <2>1. m_seekPos \in Nat BY <1>0, <1>a DEF AskedOK, Positions, Targets
  <2>2. Reset(m_seekPos) BY <1>3 DEF SeekDone
  <2>3. PosOK' /\ Window' /\ m_end' = CachedDataEndPosIfSeekTo(m_seekPos)
    BY <1>0, <2>1, <2>2, ResetKeepsWindow
  <2>4. /\ m_writePos' = m_end' /\ UNCHANGED <<block, target, m_seekPos>>
        /\ filler = "seek" /\ filler' = "fill"
        /\ source' = source \/ source' = m_end'
    BY <1>3, <2>3 DEF SeekDone, callVars
  <2>5. block = NoBlock BY <1>0, <2>4 DEF BlockOK
  <2>6. m_end' \in Nat /\ m_end' <= FileSize
    BY <1>0, <1>a, <2>3 DEF CachedDataEndPosIfSeekTo, PosOK, BlockOK, AskedOK, Positions, Targets
  <2>7. BlockOK' BY <1>0, <2>4, <2>5, <2>6, EmptyBlockOK DEF BlockOK
  <2>8. AskedOK' BY <1>0, <2>4, <2>6 DEF AskedOK
  <2> QED BY <2>3, <2>7, <2>8 DEF WInv
<1>4. CASE \E n \in 1..m_chunkSize : ReadSource(n)
  <2>1. PICK n \in 1..m_chunkSize : ReadSource(n) BY <1>4
  <2>2. /\ UNCHANGED <<cvars, m_writePos, target, m_seekPos>> /\ source' = source + n
        /\ block' = [first |-> source, len |-> n, done |-> 0]
        /\ filler = "read" /\ filler' = "write" /\ n <= MaxSourceRead /\ n \in Nat
    BY <2>1, <1>a DEF ReadSource, callVars
  <2>3. n <= FileSize - m_writePos
    BY <2>2, <1>0, <1>a DEF MaxSourceRead, Lesser, BlockOK
  <2>4. block = NoBlock BY <1>0, <2>2 DEF BlockOK
  <2>5. BlockOK' BY <1>0, <1>a, <2>2, <2>3, <2>4 DEF BlockOK, NoBlock, AskedOK, cvars
  <2>6. PosOK' /\ Window' BY <1>0, <2>2 DEF cvars, PosOK, Window, Limit, Back, Front
  <2>7. AskedOK' BY <1>0, <2>2 DEF AskedOK
  <2> QED BY <2>5, <2>6, <2>7 DEF WInv
<1>5. CASE WriteBlock
  <2> DEFINE len == block.len - block.done
  <2>1. len \in Nat BY <1>0 DEF BlockOK
  <2>2. /\ WriteToCache(block.first + block.done, len)
        /\ block' = [block EXCEPT !.done = @ + Written(len)]
        /\ UNCHANGED <<m_writePos, source, target, m_seekPos>> /\ filler' = "written"
    BY <1>5 DEF WriteBlock, callVars
  <2>3. Written(len) \in Nat /\ Written(len) <= len BY <1>0, <2>1, WrittenFits
  <2>4. PosOK' /\ Window' /\ m_end' = m_end + Written(len)
    BY <1>0, <2>1, <2>2, WriteKeepsWindow
  <2> DEFINE n == Written(len)
  <2> HIDE DEF n
  <2>5. n \in Nat /\ n <= block.len - block.done /\ m_end' = m_end + n
        /\ block' = [block EXCEPT !.done = @ + n]
    BY <2>2, <2>3, <2>4 DEF n
  <2>6. BlockOK' BY <1>0, <1>a, <2>2, <2>5 DEF BlockOK
  <2>7. AskedOK' BY <1>0, <2>2 DEF AskedOK
  <2> QED BY <2>4, <2>6, <2>7 DEF WInv
<1>6. CASE EndWrite
  <2>1. /\ UNCHANGED <<cvars, source, target, m_seekPos>> /\ filler' = "top"
        /\ m_writePos' = m_writePos + block.done /\ block' = NoBlock
    BY <1>6 DEF EndWrite, callVars
  <2>2. PosOK' /\ Window' BY <1>0, <2>1 DEF cvars, PosOK, Window, Limit, Back, Front
  <2>3. m_writePos' \in Nat /\ m_end' = m_writePos' /\ m_writePos' <= FileSize
    BY <1>0, <1>a, <2>1 DEF BlockOK, cvars
  <2>4. BlockOK' BY <2>1, <2>3 DEF BlockOK, NoBlock
  <2>5. AskedOK' BY <1>0, <2>1 DEF AskedOK
  <2> QED BY <2>2, <2>4, <2>5 DEF WInv
<1> QED BY <1>1, <1>2, <1>3, <1>4, <1>5, <1>6 DEF FillerStep

LEMMA ReaderKeepsWInv == ASSUME WInv, ReaderStep PROVE WInv'
<1>0. PosOK /\ Window /\ BlockOK /\ AskedOK BY DEF WInv
<1>a. FileSize \in Nat /\ m_chunkSize \in Nat \ {0} BY CacheAssumption, OpenAssumption
<1>1. UNCHANGED <<m_writePos, source, block, filler>>
  BY DEF ReaderStep, CallStep, Read, SeekNowhere, StartSeek, FoundInCache, CannotSeek, AskFiller, SeekEnded,
         TimedOut, CheckRunning, TooLittleData, SeekRemaining, EndSeek, Close, WakeFiller, Join,
         fillerVars, fillVars
<1>2. m_seekPos' \in Positions /\ target' \in Targets
  <2>1. CASE AskFiller
    BY <2>1, <1>0, <1>a DEF AskFiller, Call, AskedOK, Positions, Targets, Lesser, Greater
  <2>2. CASE ReaderStep /\ ~AskFiller
    BY <2>2, <1>0, <1>a DEF ReaderStep, CallStep, Read, SeekNowhere, StartSeek, FoundInCache, CannotSeek,
         SeekEnded, TimedOut, CheckRunning, TooLittleData, SeekRemaining, EndSeek, Close,
         WakeFiller, Join, Call, Return, callVars, AskedOK, Positions, Targets
  <2> QED BY <2>1, <2>2
<1>3. \/ UNCHANGED cvars
      \/ \E n \in Nat : ReadFromCache(n)
      \/ \E pos \in Nat : SeekNearEnd(pos) \/ SeekCached(pos)
  BY <1>0, <1>a DEF ReaderStep, CallStep, Read, SeekNowhere, StartSeek, FoundInCache, CannotSeek, AskFiller,
         SeekEnded, TimedOut, CheckRunning, TooLittleData, SeekRemaining, EndSeek, Close,
         WakeFiller, Join, AskedOK, Positions, Targets
<1>4. PosOK' /\ Window' /\ m_end' = m_end
  <2>1. CASE UNCHANGED cvars
    BY <2>1, <1>0 DEF cvars, PosOK, Window, Limit, Back, Front
  <2>2. CASE \E n \in Nat : ReadFromCache(n)
    BY <2>2, <1>0, ReadKeepsWindow DEF ReadFromCache
  <2>3. CASE \E pos \in Nat : SeekNearEnd(pos) \/ SeekCached(pos)
    BY <2>3, <1>0, SeekKeepsWindow
  <2> QED BY <1>3, <2>1, <2>2, <2>3
<1>5. BlockOK' BY <1>0, <1>1, <1>4 DEF BlockOK
<1>6. AskedOK' BY <1>0, <1>1, <1>2 DEF AskedOK
<1> QED BY <1>4, <1>5, <1>6 DEF WInv

LEMMA NextKeepsWInv == WInv /\ [FNext]_vars => WInv'
<1> SUFFICES ASSUME WInv, [FNext]_vars PROVE WInv' OBVIOUS
<1>1. CASE FillerStep BY <1>1, FillerKeepsWInv
<1>2. CASE ReaderStep BY <1>2, ReaderKeepsWInv
<1>3. CASE UNCHANGED vars
  <2>1. UNCHANGED <<cvars, m_writePos, block, filler, m_seekPos, target, source>>
    BY <1>3 DEF vars, fillerVars, fillVars, callVars
  <2> QED BY <2>1, UnchangedKeepsWInv DEF WInv, BlockOK, AskedOK
<1> QED BY <1>1, <1>2, <1>3 DEF FNext

LEMMA WInvHolds == FSpec => []WInv
<1>1. FInit => WInv BY InitWInv
<1>2. WInv /\ [FNext]_vars => WInv' BY NextKeepsWInv
<1> QED BY <1>1, <1>2, PTL DEF FSpec

(* CircularCache.cpp:95-97: the window is sound whatever the two threads   *)
(* and the source do, also when seeks of the source fail.                  *)
THEOREM WindowIsSound == FSpec => []Window
<1>1. WInv => Window BY DEF WInv
<1> QED BY <1>1, WInvHolds, PTL

-----------------------------------------------------------------------------
(* The sizes Open chooses leave room for a chunk once the reader has read  *)
(* everything: a quarter of the ring at most is kept for the back, and a   *)
(* ring as large as the file has room for all that is left of the file.    *)
LEMMA RoomWhenAllIsRead ==
  ASSUME WInv, filler = "fill", Front = 0
  PROVE  RoomForChunk
<1>1. /\ m_size \in Nat \ {0} /\ m_size_back \in Nat /\ FileSize \in Nat
      /\ m_chunkSize \in Nat \ {0}
  BY CacheAssumption, OpenAssumption
<1>2. m_beg \in Nat /\ m_cur \in Nat /\ m_end \in Nat /\ m_beg <= m_cur
  BY DEF WInv, PosOK, Window
<1>3. m_writePos = m_end /\ m_end <= FileSize /\ m_cur = m_end
  <2>1. block = NoBlock BY DEF WInv, BlockOK
  <2>2. block.len = 0 /\ block.done = 0 BY <2>1 DEF NoBlock
  <2>3. m_writePos \in Nat /\ m_end = m_writePos + 0 /\ m_writePos + 0 <= FileSize
    BY <2>2 DEF WInv, BlockOK
  <2> QED BY <1>1, <1>2, <2>3 DEF Front
<1>4. Back \in Nat /\ Back <= m_end BY <1>2, <1>3 DEF Back
<1>5. Limit = m_size - Lesser(Back, m_size_back) BY <1>1, <1>4 DEF Limit, Lesser
<1>6. MaxSourceRead <= m_chunkSize /\ MaxSourceRead <= FileSize - m_end /\ MaxSourceRead \in Int
  BY <1>1, <1>2, <1>3 DEF MaxSourceRead, Lesser
<1>7. Limit \in Int /\ Limit >= m_size - Back /\ Limit >= m_size - m_size_back
  BY <1>1, <1>4, <1>5 DEF Lesser
<1>8. Limit >= MaxSourceRead
  <2>1. CASE m_size = FileSize BY <2>1, <1>1, <1>2, <1>4, <1>6, <1>7
  <2>2. CASE m_size >= 2 * m_chunkSize
    <3>1. m_size = 4 * (m_size \div 4) + (m_size % 4) /\ m_size % 4 \in 0..3 BY <1>1, DivMod
    <3>2. m_size_back = m_size \div 4 BY OpenAssumption
    <3>3. m_size >= 4 * m_size_back
      <4> DEFINE r == m_size % 4
      <4>1. m_size = 4 * m_size_back + r /\ r \in 0..3 BY <3>1, <3>2
      <4> HIDE DEF r
      <4> QED BY <4>1, <1>1
    <3> QED BY <3>3, <2>2, <1>1, <1>6, <1>7
  <2> QED BY <2>1, <2>2, OpenAssumption
<1> QED BY <1>1, <1>6, <1>7, <1>8 DEF RoomForChunk, GetMaxWriteSize, Lesser

(* FileCache.cpp:315-318: the wait for room ends when the reader reads.    *)
THEOREM FillerFindsRoom == FSpec => []NoStarvation
<1>1. WInv => NoStarvation BY RoomWhenAllIsRead DEF NoStarvation
<1> QED BY <1>1, WInvHolds, PTL

-----------------------------------------------------------------------------
(* Why the bytes are right.  A seek is asked for by a reader that waits,   *)
(* or by one that closes, and answered once: no event is left over for the *)
(* next call while the filler runs.                                        *)
Waiting == reader \in {"waitended", "checkrunning"}

EventsInv ==
  /\ m_seekEvent => Waiting \/ reader \in {"joining", "closed"} \/ filler = "dead"
  /\ m_seekEnded => Waiting \/ reader \in {"joining", "closed"} \/ filler = "dead"
  /\ m_seekEnded /\ m_seekEvent => reader \in {"joining", "closed"} \/ filler = "dead"

(* The filler writes the bytes that come next in the cache: the block it   *)
(* read begins there, and the source stands behind it, unless a seek will  *)
(* put it there before the next read, or nothing more is read.             *)
InStep == source = m_writePos \/ m_writePos = FileSize

SourceInv ==
  /\ filler \in {"write", "written"} =>
       block.first = m_writePos /\ source = block.first + block.len
  /\ filler \in {"fill", "read", "eof"} => InStep
  /\ filler = "seek" => InStep \/ m_seekEvent
  /\ filler = "top" => InStep \/ m_seekEvent \/ m_bStop

(* The reader is where it says, unless a Seek has moved it; in a Seek it is *)
(* where the filler put it, and at last where it was to go.                *)
ReaderInv ==
  /\ skipped \/ m_cur = m_readPos
  /\ Waiting \/ reader \in {"remaining", "lastseek"} => m_seekPos <= target
  /\ Waiting /\ m_seekEnded => m_cur = m_seekPos \/ filler = "dead"
  /\ reader = "remaining" => m_cur = m_seekPos
  /\ reader = "lastseek" => m_cur <= target /\ target <= m_end

BytesInv == EventsInv /\ (failed \/ (CachedBytes /\ SourceInv /\ ReaderInv))

LEMMA InitBytesInv == FInit => BytesInv
<1> SUFFICES ASSUME FInit PROVE BytesInv OBVIOUS
<1>1. CachedBytes BY InitCInv DEF FInit, CInv
<1>2. EventsInv /\ SourceInv /\ ReaderInv
  BY DEF FInit, CInit, EventsInv, Waiting, SourceInv, InStep, ReaderInv
<1> QED BY <1>1, <1>2 DEF BytesInv

LEMMA FillerKeepsEvents == ASSUME EventsInv, FillerStep PROVE EventsInv'
<1> USE DEF From, EventsInv, Waiting
<1>1. CASE Top \/ NoSeekAsked \/ CheckRoom \/ (\E n \in 1..m_chunkSize : ReadSource(n)) \/ HitEof
           \/ ReadFatal \/ WriteBlock \/ NextRound
  <2>1. UNCHANGED <<m_seekEvent, m_seekEnded, reader>> /\ filler # "dead"
    BY <1>1 DEF Top, NoSeekAsked, CheckRoom, ReadSource, HitEof, ReadFatal, WriteBlock, NextRound,
                callVars
  <2> QED BY <2>1
<1>2. CASE ThrottleStop \/ ReadNothing \/ LeaveEof \/ Drained \/ EndWrite
  <2>1. UNCHANGED <<m_seekEnded, reader>> /\ filler # "dead"
    BY <1>2 DEF ThrottleStop, ReadNothing, LeaveEof, Drained, EndWrite, callVars
  <2>2. m_seekEvent' => m_seekEvent
    <3>1. CASE ThrottleStop \/ LeaveEof \/ Drained \/ EndWrite
      BY <3>1 DEF ThrottleStop, LeaveEof, Drained, EndWrite
    <3>2. CASE ReadNothing BY <3>2, Zenon DEF ReadNothing
    <3> QED BY <1>2, <3>1, <3>2
  <2> QED BY <2>1, <2>2
<1>3. CASE SeekDone \/ SeekFails
  <2>1. reader' = reader /\ filler = "seek" /\ m_seekEvent /\ ~m_seekEvent'
    BY <1>3 DEF SeekDone, SeekFails, callVars
  <2> QED BY <2>1
<1>4. CASE OnExit
  <2>1. filler' = "dead" BY <1>4 DEF OnExit
  <2> QED BY <2>1
<1> QED BY <1>1, <1>2, <1>3, <1>4 DEF FillerStep

LEMMA ReaderKeepsEvents == ASSUME EventsInv, ReaderStep PROVE EventsInv'
<1> USE DEF EventsInv, Waiting, fillerVars
<1>1. CASE (\E n \in 1..FileSize : Read(n)) \/ SeekNowhere \/ (\E t \in Targets : StartSeek(t)) \/ FoundInCache
           \/ CannotSeek \/ TimedOut \/ CheckRunning \/ TooLittleData \/ SeekRemaining \/ Close
           \/ Join
  <2>1. UNCHANGED <<m_seekEvent, m_seekEnded, filler>>
    BY <1>1 DEF Read, SeekNowhere, StartSeek, FoundInCache, CannotSeek, TimedOut, CheckRunning, TooLittleData,
                SeekRemaining, Close, Join
  <2>2. \/ reader \notin {"waitended", "checkrunning", "joining", "closed"}
        \/ reader' \in {"waitended", "checkrunning"} /\ reader \in {"waitended", "checkrunning"}
        \/ reader' \in {"joining", "closed"} \/ filler = "dead"
    BY <1>1 DEF Read, SeekNowhere, StartSeek, FoundInCache, CannotSeek, TimedOut, CheckRunning, TooLittleData,
                SeekRemaining, Close, Join, Call, Return, callVars
  <2> QED BY <2>1, <2>2
<1>2. CASE AskFiller \/ WakeFiller
  <2>1. /\ UNCHANGED <<m_seekEnded, filler>> /\ reader \in {"cacheseek", "stopping"}
        /\ reader' \in {"waitended", "joining"}
    BY <1>2 DEF AskFiller, WakeFiller, Call
  <2> QED BY <2>1
<1>3. CASE SeekEnded
  <2>1. /\ UNCHANGED <<m_seekEvent, filler>> /\ reader = "waitended"
        /\ m_seekEnded /\ ~m_seekEnded'
    BY <1>3 DEF SeekEnded, Call
  <2> QED BY <2>1
<1>4. CASE EndSeek
  <2>1. /\ UNCHANGED <<m_seekEnded, filler>> /\ reader \in {"remaining", "lastseek"}
        /\ ~m_seekEvent'
    BY <1>4 DEF EndSeek, Return
  <2> QED BY <2>1
<1> QED BY <1>1, <1>2, <1>3, <1>4 DEF ReaderStep, CallStep

(* A source that did seek is where the cache will go on when it is read.   *)
LEMMA FillerKeepsSource ==
  ASSUME WInv, SourceInv, FillerStep, ~SeekFails
  PROVE  SourceInv'
<1> USE DEF From, SourceInv, InStep, fillVars
<1>0. m_writePos \in Nat /\ source \in Int /\ FileSize \in Nat
  BY CacheAssumption DEF WInv, BlockOK, AskedOK
<1>1. CASE Top \/ NoSeekAsked \/ ThrottleStop \/ CheckRoom
  <2>1. /\ UNCHANGED <<source, m_writePos>> /\ UNCHANGED <<m_bStop>>
        /\ \/ filler = "top" /\ filler' = "exit"
           \/ filler = "top" /\ filler' = "seek" /\ ~m_bStop /\ UNCHANGED m_seekEvent
           \/ filler = "seek" /\ filler' = "fill" /\ ~m_seekEvent
           \/ filler = "fill" /\ filler' \in {"fill", "read", "top"}
    BY <1>1 DEF Top, NoSeekAsked, ThrottleStop, CheckRoom, callVars
  <2> QED BY <2>1
<1>2. CASE ReadNothing \/ HitEof \/ ReadFatal \/ LeaveEof \/ Drained \/ OnExit
  <2>1. /\ UNCHANGED <<source, m_writePos>> /\ filler' \in {"top", "eof", "drain", "exit", "dead"}
        /\ filler' \in {"top", "eof"} => filler \in {"read", "eof"}
    BY <1>2 DEF ReadNothing, HitEof, ReadFatal, LeaveEof, Drained, OnExit
  <2> QED BY <2>1
<1>3. CASE SeekDone
  <2>1. m_writePos' = CachedDataEndPosIfSeekTo(m_seekPos)
    <3>1. m_end' = CachedDataEndPosIfSeekTo(m_seekPos)
      BY <1>3, ResetKeepsWindow, CacheAssumption DEF SeekDone, WInv, AskedOK, Positions, Targets
    <3> QED BY <3>1, <1>3 DEF SeekDone
  <2>2. source' = m_writePos' \/ m_writePos' = FileSize BY <2>1, <1>3 DEF SeekDone
  <2>3. filler' = "fill" BY <1>3 DEF SeekDone
  <2> QED BY <2>2, <2>3
<1>4. CASE \E n \in 1..m_chunkSize : ReadSource(n)
  <2>1. PICK n \in 1..m_chunkSize : ReadSource(n) BY <1>4
  <2>2. /\ m_writePos' = m_writePos /\ filler = "read" /\ filler' = "write" /\ n <= MaxSourceRead
        /\ source' = source + n /\ block' = [first |-> source, len |-> n, done |-> 0]
    BY <2>1 DEF ReadSource
  <2>3. m_writePos # FileSize
    BY <2>1, <2>2, <1>0, OpenAssumption DEF MaxSourceRead, Lesser
  <2> QED BY <2>2, <2>3
<1>5. CASE WriteBlock \/ NextRound
  <2>1. /\ UNCHANGED <<m_writePos, source>> /\ block'.first = block.first /\ block'.len = block.len
        /\ filler \in {"write", "written"} /\ filler' \in {"write", "written"}
    BY <1>5 DEF WriteBlock, NextRound, WInv, BlockOK
  <2> QED BY <2>1
<1>6. CASE EndWrite
  <2>1. /\ source' = source /\ m_writePos' = m_writePos + block.done /\ m_bStop' = m_bStop
        /\ filler \in {"write", "written"} /\ filler' = "top"
        /\ m_seekEvent' \/ m_bStop \/ block.done = block.len
    BY <1>6 DEF EndWrite, callVars
  <2>2. source = m_writePos + block.len BY <2>1
  <2> QED BY <2>1, <2>2
<1> QED BY <1>1, <1>2, <1>3, <1>4, <1>5, <1>6 DEF FillerStep

LEMMA ReaderKeepsSource ==
  ASSUME EventsInv, SourceInv, ReaderStep
  PROVE  SourceInv'
<1>1. UNCHANGED <<m_writePos, source, block, filler>>
  BY DEF ReaderStep, CallStep, Read, SeekNowhere, StartSeek, FoundInCache, CannotSeek, AskFiller, SeekEnded,
         TimedOut, CheckRunning, TooLittleData, SeekRemaining, EndSeek, Close, WakeFiller, Join,
         fillerVars, fillVars
<1>2. m_bStop => m_bStop'
  BY DEF ReaderStep, CallStep, Read, SeekNowhere, StartSeek, FoundInCache, CannotSeek, AskFiller, SeekEnded,
         TimedOut, CheckRunning, TooLittleData, SeekRemaining, EndSeek, Close, WakeFiller, Join,
         Call, Return, callVars
<1>3. m_seekEvent => m_seekEvent' \/ filler = "dead"
  <2>1. CASE EndSeek BY <2>1 DEF EndSeek, Return, EventsInv, Waiting
  <2>2. CASE ~EndSeek
    BY <2>2 DEF ReaderStep, CallStep, Read, SeekNowhere, StartSeek, FoundInCache, CannotSeek, AskFiller,
         SeekEnded, TimedOut, CheckRunning, TooLittleData, SeekRemaining, Close, WakeFiller, Join
  <2> QED BY <2>1, <2>2
<1> QED BY <1>1, <1>2, <1>3 DEF SourceInv, InStep

(* The filler moves the reader's position only to answer a seek.           *)
LEMMA FillerKeepsReader ==
  ASSUME WInv, EventsInv, ReaderInv, FillerStep, ~SeekFails
  PROVE  ReaderInv'
<1> USE DEF From, ReaderInv, Waiting, callVars
<1>1. CASE Top \/ NoSeekAsked \/ ThrottleStop \/ CheckRoom \/ (\E n \in 1..m_chunkSize : ReadSource(n))
           \/ ReadNothing \/ HitEof \/ ReadFatal \/ LeaveEof \/ Drained \/ NextRound \/ EndWrite
  <2>1. /\ UNCHANGED <<cvars, m_readPos, m_seekPos, m_seekEnded, reader, target, skipped>>
        /\ filler # "dead"
    BY <1>1 DEF Top, NoSeekAsked, ThrottleStop, CheckRoom, ReadSource, ReadNothing, HitEof,
                ReadFatal, LeaveEof, Drained, NextRound, EndWrite
  <2> QED BY <2>1 DEF cvars
<1>2. CASE SeekDone
  <2>1. /\ m_cur' = m_seekPos /\ m_readPos' = m_seekPos
        /\ UNCHANGED <<m_seekPos, reader, target>>
        /\ m_seekEvent /\ filler = "seek"
    BY <1>2 DEF SeekDone, Reset
  <2>2. reader \in {"waitended", "checkrunning", "joining", "closed"} BY <2>1 DEF EventsInv
  <2> QED BY <2>1, <2>2
<1>3. CASE WriteBlock
  <2>1. /\ UNCHANGED <<m_readPos, m_seekPos, m_seekEnded, reader, target, skipped>>
        /\ filler # "dead" /\ WriteToCache(block.first + block.done, block.len - block.done)
    BY <1>3 DEF WriteBlock
  <2>2. block.len - block.done \in Nat BY DEF WInv, BlockOK
  <2>3. m_cur' = m_cur /\ m_end' >= m_end
    <3> DEFINE n == Written(block.len - block.done)
    <3>1. m_cur' = m_cur /\ m_end' = m_end + n BY <2>1, <2>2, WriteKeepsWindow DEF WInv
    <3>2. n \in Nat BY <2>2, WrittenFits DEF WInv
    <3> HIDE DEF n
    <3> QED BY <3>1, <3>2 DEF WInv, PosOK
  <2>4. target <= m_end => target <= m_end'
    <3>1. m_end' \in Nat BY <2>1, <2>2, WriteKeepsWindow DEF WInv, PosOK
    <3>2. target \in Nat /\ m_end \in Nat BY CacheAssumption DEF WInv, PosOK, AskedOK, Positions, Targets
    <3> QED BY <2>3, <3>1, <3>2
  <2> QED BY <2>1, <2>3, <2>4
<1>4. CASE OnExit
  <2>1. /\ UNCHANGED <<cvars, m_readPos, m_seekPos, reader, target, skipped>> /\ filler' = "dead"
    BY <1>4 DEF OnExit
  <2> QED BY <2>1 DEF cvars
<1> QED BY <1>1, <1>2, <1>3, <1>4 DEF FillerStep

(* The reader believes what it was told, and that is so while the filler   *)
(* has not ended nor failed to seek.                                       *)
LEMMA ReaderKeepsReader ==
  ASSUME WInv, EventsInv, ReaderInv, ReaderStep, ~failed'
  PROVE  ReaderInv'
<1> USE DEF ReaderInv, Waiting, fillerVars, callVars
<1>0. /\ FileSize \in Nat /\ m_chunkSize \in Nat \ {0}
      /\ m_cur \in Nat /\ m_end \in Nat /\ m_beg \in Nat /\ m_beg <= m_cur /\ m_cur <= m_end
      /\ target \in Nat /\ m_seekPos \in Nat
  BY CacheAssumption, OpenAssumption DEF WInv, PosOK, Window, AskedOK, Positions, Targets
<1>1. CASE \E n \in 1..FileSize : Read(n)
  <2>1. PICK n \in 1..FileSize : Read(n) BY <1>1
  <2>2. /\ m_cur' = m_cur + Given(n) /\ m_readPos' = m_readPos + Given(n)
        /\ reader = "idle" /\ reader' = "idle" /\ skipped' = skipped
    BY <2>1 DEF Read, ReadFromCache
  <2> QED BY <2>2
<1>2. CASE \/ SeekNowhere \/ (\E t \in Targets : StartSeek(t)) \/ Close \/ WakeFiller \/ Join
           \/ CannotSeek \/ TooLittleData
  <2>1. reader' \in {"cacheseek", "stopping", "joining", "closed", "idle"}
    BY <1>2 DEF SeekNowhere, StartSeek, Close, WakeFiller, Join, CannotSeek, TooLittleData, Call,
         Return
  <2>2. (skipped => skipped') /\ (skipped' \/ UNCHANGED <<m_cur, m_readPos>>)
    <3>1. ASSUME NEW t \in Targets, StartSeek(t)
          PROVE  (skipped => skipped') /\ (skipped' \/ UNCHANGED <<m_cur, m_readPos>>)
      <4>1. m_readPos' = m_readPos /\ (skipped' <=> (skipped \/ NearEnd(t)))
        BY <3>1, Zenon DEF StartSeek
      <4>2. NearEnd(t) \/ m_cur' = m_cur BY <3>1, Zenon DEF StartSeek, cvars
      <4> QED BY <4>1, <4>2
    <3>2. ASSUME SeekNowhere \/ Close \/ WakeFiller \/ Join \/ CannotSeek \/ TooLittleData
          PROVE  UNCHANGED <<m_cur, m_readPos, skipped>>
      BY <3>2 DEF SeekNowhere, Close, WakeFiller, Join, CannotSeek, TooLittleData, cvars
    <3> QED BY <1>2, <3>1, <3>2
  <2> QED BY <2>1, <2>2
<1>3. CASE FoundInCache
  <2>1. m_cur' = target /\ m_readPos' = target /\ reader' = "idle"
    BY <1>3 DEF FoundInCache, SeekCached, Return
  <2> QED BY <2>1
<1>4. CASE AskFiller
  <2>1. /\ UNCHANGED <<target, m_seekEnded, filler>> /\ reader = "cacheseek"
        /\ reader' = "waitended" /\ m_seekPos' = Lesser(target, Greater(0, FileSize - m_chunkSize))
        /\ UNCHANGED <<m_cur, m_readPos, skipped>>
    BY <1>4 DEF AskFiller, Call, cvars
  <2>2. m_seekPos' <= target' BY <2>1, <1>0 DEF Lesser, Greater
  <2>3. m_seekEnded' => filler' = "dead" BY <2>1 DEF EventsInv
  <2> QED BY <2>1, <2>2, <2>3
<1>5. CASE SeekEnded
  <2>1. /\ UNCHANGED <<cvars, target, m_seekPos, filler, m_readPos, skipped>>
        /\ reader = "waitended"
        /\ reader' = "remaining" /\ m_seekEnded /\ filler # "dead"
    BY <1>5 DEF SeekEnded, Call
  <2> QED BY <2>1 DEF cvars
<1>6. CASE TimedOut \/ CheckRunning
  <2>1. /\ UNCHANGED <<cvars, m_seekPos, m_seekEnded, filler, m_readPos, skipped>>
        /\ \/ reader \in {"waitended", "checkrunning"} /\ reader' \in {"waitended", "checkrunning"}
              /\ UNCHANGED target
           \/ reader' = "idle"
    BY <1>6 DEF TimedOut, CheckRunning, Call, Return
  <2> QED BY <2>1 DEF cvars
<1>7. CASE SeekRemaining
  <2>1. /\ UNCHANGED <<target, m_seekPos, m_readPos>>
        /\ reader = "remaining" /\ reader' = "lastseek"
        /\ Front >= target - m_seekPos /\ m_end' = m_end
        /\ \/ m_cur' = m_end /\ m_end <= target
           \/ m_cur' = m_cur
    BY <1>7 DEF SeekRemaining, Call, SeekNearEnd, NearEnd, cvars
  <2>5. (skipped => skipped') /\ (skipped' \/ m_cur' = m_cur)
    <3>1. skipped' <=> (skipped \/ NearEnd(target)) BY <1>7, Zenon DEF SeekRemaining
    <3>2. NearEnd(target) \/ m_cur' = m_cur BY <1>7, Zenon DEF SeekRemaining, cvars
    <3> QED BY <3>1, <3>2
  <2>2. m_cur = m_seekPos /\ m_seekPos <= target BY <2>1
  <2>3. target <= m_end BY <1>0, <2>1, <2>2 DEF Front
  <2>4. m_cur' <= target' /\ target' <= m_end' BY <1>0, <2>1, <2>2, <2>3
  <2> QED BY <2>1, <2>2, <2>4, <2>5
<1>8. CASE EndSeek
  <2>1. m_readPos' = target /\ reader' = "idle" BY <1>8 DEF EndSeek, Return
  <2>2. m_cur' = target
    <3>1. CASE reader = "remaining"
      <4>1. m_seekPos >= target /\ m_cur' = m_cur BY <1>8, <3>1 DEF EndSeek, Return, cvars
      <4> QED BY <1>0, <3>1, <4>1
    <3>2. CASE reader = "lastseek"
      <4>1. IsCachedPosition(target) BY <1>0, <3>2 DEF IsCachedPosition
      <4> QED BY <1>8, <3>2, <4>1 DEF EndSeek, Return, SeekCached
    <3> QED BY <1>8, <3>1, <3>2 DEF EndSeek, Return
  <2> QED BY <2>1, <2>2
<1> QED BY <1>1, <1>2, <1>3, <1>4, <1>5, <1>6, <1>7, <1>8 DEF ReaderStep, CallStep

-----------------------------------------------------------------------------
(* The two threads use the ring as its own specification says.             *)
LEMMA FillerUsesRing ==
  ASSUME WInv, SourceInv, FillerStep
  PROVE  CNext \/ UNCHANGED cvars
<1> USE DEF From
<1>1. CASE SeekDone
  <2>1. Reset(m_seekPos) /\ m_seekPos \in Positions BY <1>1 DEF SeekDone, WInv, AskedOK
  <2> QED BY <2>1 DEF CNext
<1>2. CASE WriteBlock
  <2> DEFINE len == block.len - block.done
  <2>1. /\ block.first = m_writePos /\ m_end = m_writePos + block.done
        /\ m_writePos \in Nat /\ block.len \in Nat /\ block.done \in Nat
        /\ m_writePos + block.len <= FileSize /\ block.done < block.len
    BY <1>2 DEF WriteBlock, SourceInv, WInv, BlockOK
  <2>2. /\ len \in 1..FileSize /\ m_end + len <= FileSize /\ m_end = block.first + block.done
    BY <2>1, CacheAssumption
  <2>3. WriteToCache(m_end, len) BY <1>2, <2>2 DEF WriteBlock
  <2> HIDE DEF len
  <2> QED BY <2>2, <2>3 DEF CNext
<1>3. CASE FillerStep /\ ~SeekDone /\ ~WriteBlock
  BY <1>3 DEF FillerStep, Top, NoSeekAsked, SeekFails, ThrottleStop, CheckRoom, ReadSource,
              ReadNothing, HitEof, ReadFatal, LeaveEof, Drained, NextRound, EndWrite, OnExit
<1> QED BY <1>1, <1>2, <1>3

LEMMA ReaderUsesRing ==
  ASSUME WInv, ReaderStep
  PROVE  CNext \/ UNCHANGED cvars
<1>0. /\ m_end \in Positions /\ SeekMargin \in Nat
      /\ \A pos \in Targets : pos <= m_end => pos \in Positions
      /\ Targets \subseteq Int
  BY CacheAssumption DEF WInv, BlockOK, PosOK, Positions, Targets
<1>1. \/ UNCHANGED cvars
      \/ \E n \in 1..FileSize : ReadFromCache(n)
      \/ \E pos \in Targets : SeekNearEnd(pos) \/ SeekCached(pos)
  BY DEF ReaderStep, CallStep, Read, SeekNowhere, StartSeek, FoundInCache, CannotSeek, AskFiller, SeekEnded,
         TimedOut, CheckRunning, TooLittleData, SeekRemaining, EndSeek, Close, WakeFiller, Join,
         WInv, AskedOK
<1>2. ASSUME NEW pos \in Targets, SeekNearEnd(pos) PROVE SeekNearEnd(m_end)
  BY <1>0, <1>2 DEF SeekNearEnd, NearEnd, Positions
<1>3. ASSUME NEW pos \in Targets, SeekCached(pos) PROVE pos \in Positions
  BY <1>0, <1>3 DEF SeekCached, IsCachedPosition
<1> QED BY <1>0, <1>1, <1>2, <1>3 DEF CNext

LEMMA RingKeepsBytes ==
  ASSUME WInv, CachedBytes, CNext \/ UNCHANGED cvars
  PROVE  CachedBytes'
<1>0. PosOK /\ Window /\ FileSize \in Nat BY CacheAssumption DEF WInv
<1>1. CASE \E len \in 1..FileSize : m_end + len <= FileSize /\ WriteToCache(m_end, len)
  BY <1>0, <1>1, WriteKeepsBytes
<1>2. CASE \/ \E len \in 1..FileSize : ReadFromCache(len)
           \/ \E pos \in Positions : SeekNearEnd(pos) \/ SeekCached(pos) \/ Reset(pos)
  BY <1>0, <1>2, MovesKeepBytes DEF Positions
<1>3. CASE UNCHANGED cvars BY <1>3 DEF cvars, CachedBytes
<1> QED BY <1>1, <1>2, <1>3 DEF CNext

LEMMA FailedStays == ASSUME FNext, ~failed' PROVE ~failed /\ ~SeekFails
<1>1. ~SeekFails BY DEF SeekFails
<1>2. CASE FillerStep
  <2>1. failed' = failed
    BY <1>1, <1>2 DEF FillerStep, Top, NoSeekAsked, SeekDone, ThrottleStop, CheckRoom, ReadSource,
         ReadNothing, HitEof, ReadFatal, LeaveEof, Drained, WriteBlock, NextRound, EndWrite,
         OnExit, callVars
  <2> QED BY <1>1, <2>1
<1>3. CASE SeekEnded BY <1>1, <1>3 DEF SeekEnded
<1>4. CASE ReaderStep /\ ~SeekEnded
  <2>1. failed' = failed
    BY <1>4 DEF ReaderStep, CallStep, Read, SeekNowhere, StartSeek, FoundInCache, CannotSeek, AskFiller,
         TimedOut, CheckRunning, TooLittleData, SeekRemaining, EndSeek, Close, WakeFiller, Join,
         callVars
  <2> QED BY <1>1, <2>1
<1> QED BY <1>2, <1>3, <1>4 DEF FNext

LEMMA NextKeepsBytesInv == WInv /\ BytesInv /\ [FNext]_vars => BytesInv'
<1> SUFFICES ASSUME WInv, BytesInv, [FNext]_vars PROVE BytesInv' OBVIOUS
<1>1. CASE FNext
  <2>1. EventsInv' BY <1>1, FillerKeepsEvents, ReaderKeepsEvents DEF FNext, BytesInv
  <2>2. ASSUME ~failed' PROVE CachedBytes' /\ SourceInv' /\ ReaderInv'
    <3>1. ~SeekFails /\ EventsInv /\ CachedBytes /\ SourceInv /\ ReaderInv
      BY <1>1, <2>2, FailedStays DEF BytesInv
    <3>2. CachedBytes'
      BY <1>1, <3>1, FillerUsesRing, ReaderUsesRing, RingKeepsBytes DEF FNext
    <3>3. SourceInv' BY <1>1, <3>1, FillerKeepsSource, ReaderKeepsSource DEF FNext
    <3>4. ReaderInv' BY <1>1, <2>2, <3>1, FillerKeepsReader, ReaderKeepsReader DEF FNext
    <3> QED BY <3>2, <3>3, <3>4
  <2> QED BY <2>1, <2>2 DEF BytesInv
<1>2. CASE UNCHANGED vars
  BY <1>2 DEF vars, cvars, fillerVars, fillVars, callVars, BytesInv, EventsInv, Waiting,
              CachedBytes, SourceInv, InStep, ReaderInv
<1> QED BY <1>1, <1>2

LEMMA BytesInvHolds == FSpec => [](WInv /\ BytesInv)
<1>1. FInit => BytesInv BY InitBytesInv
<1>2. WInv /\ BytesInv /\ [FNext]_vars => BytesInv' BY NextKeepsBytesInv
<1> QED BY <1>1, <1>2, WInvHolds, PTL DEF FSpec

(* FileCache.cpp:226-438, 462-561: the reader is given the file's bytes,   *)
(* for every size of file, chunk and ring.                                 *)
THEOREM ReaderGetsTheFile == FSpec => []ReadsTheFile
<1>1. WInv /\ BytesInv => ReadsTheFile
  <2> SUFFICES ASSUME WInv, BytesInv, reader = "idle", ~skipped, ~failed,
                      NEW i \in 0 .. Front - 1
               PROVE  m_buf[(m_cur + i) % m_size] = m_readPos + i
    BY DEF ReadsTheFile
  <2>1. m_cur = m_readPos BY DEF BytesInv, ReaderInv
  <2>2. m_cur + i \in m_beg .. m_end - 1 BY DEF WInv, PosOK, Window, Front
  <2> QED BY <2>1, <2>2 DEF BytesInv, CachedBytes
<1> QED BY <1>1, BytesInvHolds, PTL

(* FileCache.cpp:380-436: the filler writes the file byte after byte.      *)
THEOREM CacheIsUsedInOrder == FSpec => CacheUsedInOrder
<1>1. WInv /\ BytesInv /\ [FNext]_vars => [CNext \/ failed]_cvars
  <2> SUFFICES ASSUME WInv, BytesInv, [FNext]_vars, ~failed
               PROVE  CNext \/ UNCHANGED cvars
    OBVIOUS
  <2>1. SourceInv BY DEF BytesInv
  <2>2. CASE FNext BY <2>1, <2>2, FillerUsesRing, ReaderUsesRing DEF FNext
  <2>3. CASE UNCHANGED vars BY <2>3 DEF vars
  <2> QED BY <2>2, <2>3
<1> QED BY <1>1, BytesInvHolds, PTL DEF FSpec, CacheUsedInOrder

-----------------------------------------------------------------------------
(* The types, also after a seek that failed.  The bytes a block names and  *)
(* the source's positions are those of the file; the reader's position may *)
(* be wrong, but not by more than the file's size.                         *)
DataOK ==
  /\ m_buf \in [Slots -> {Unwritten} \cup Positions]
  /\ source \in Positions
  /\ block.first \in Nat /\ block.first + block.len <= FileSize

ReadPosOK == m_readPos \in Nat /\ m_readPos <= m_cur + FileSize + 1

FlagsOK ==
  /\ m_seekEvent \in BOOLEAN /\ m_seekEnded \in BOOLEAN /\ m_bStop \in BOOLEAN
  /\ m_bEndOfInput \in BOOLEAN /\ m_seekPossible \in BOOLEAN /\ failed \in BOOLEAN
  /\ skipped \in BOOLEAN

PlacesOK ==
  /\ filler \in {"top", "seek", "fill", "read", "eof", "drain", "write", "written", "exit", "dead"}
  /\ reader \in {"idle", "cacheseek", "waitended", "checkrunning", "remaining", "lastseek",
                 "stopping", "joining", "closed"}
  /\ result \in {"ok", "error"}

TypesInv == DataOK /\ ReadPosOK /\ FlagsOK /\ PlacesOK

LEMMA TypesAre == WInv /\ TypesInv => FTypeOK
<1> SUFFICES ASSUME WInv, TypesInv PROVE FTypeOK OBVIOUS
<1>1. FileSize \in Nat BY CacheAssumption
<1>2. /\ m_beg \in Nat /\ m_cur \in Nat /\ m_end \in Nat /\ m_beg <= m_cur /\ m_cur <= m_end
      /\ m_writePos \in Nat /\ m_seekPos \in Positions /\ target \in Targets
      /\ block \in [first : Int, len : Nat, done : Nat] /\ block.done <= block.len
      /\ m_end = m_writePos + block.done /\ m_writePos + block.len <= FileSize
  BY DEF WInv, PosOK, Window, BlockOK, AskedOK
<1>3. m_end <= FileSize /\ m_writePos <= FileSize BY <1>1, <1>2
<1>4. CTypeOK BY <1>1, <1>2, <1>3 DEF CTypeOK, TypesInv, DataOK, Positions
<1>5. {m_seekPos, m_writePos, source} \subseteq Positions /\ target \in Targets
  BY <1>1, <1>2, <1>3 DEF TypesInv, DataOK, Positions
<1>6. m_readPos \in 0 .. 2 * FileSize + 1 BY <1>1, <1>2, <1>3 DEF TypesInv, ReadPosOK
<1>7. block \in [first : Positions, len : Positions, done : Positions]
  <2>1. block.first \in Positions /\ block.len \in Positions /\ block.done \in Positions
    BY <1>1, <1>2 DEF TypesInv, DataOK, Positions
  <2> QED BY <1>2, <2>1
<1> QED BY <1>4, <1>5, <1>6, <1>7 DEF FTypeOK, TypesInv, FlagsOK, PlacesOK

LEMMA InitTypesInv == FInit => TypesInv
<1> SUFFICES ASSUME FInit PROVE TypesInv OBVIOUS
<1>1. FileSize \in Nat BY CacheAssumption
<1>2. DataOK
  <2>1. m_buf \in [Slots -> {Unwritten} \cup Positions] BY DEF FInit, CInit
  <2>2. source = 0 /\ block.first = 0 /\ block.len = 0 BY DEF FInit, NoBlock
  <2> QED BY <1>1, <2>1, <2>2 DEF DataOK, Positions
<1>3. ReadPosOK BY <1>1 DEF FInit, CInit, ReadPosOK
<1>4. FlagsOK /\ PlacesOK BY DEF FInit, FlagsOK, PlacesOK
<1> QED BY <1>2, <1>3, <1>4 DEF TypesInv

LEMMA FillerKeepsData == ASSUME WInv, DataOK, FillerStep PROVE DataOK'
<1>0. /\ FileSize \in Nat /\ m_chunkSize \in Nat /\ PosOK /\ Window
      /\ block \in [first : Int, len : Nat, done : Nat] /\ block.done <= block.len
      /\ m_end \in Nat /\ m_end <= FileSize
  <2>1. FileSize \in Nat /\ m_chunkSize \in Nat BY CacheAssumption, OpenAssumption
  <2>2. /\ PosOK /\ Window /\ m_writePos \in Nat /\ m_end \in Nat
        /\ block \in [first : Int, len : Nat, done : Nat] /\ block.done <= block.len
        /\ m_end = m_writePos + block.done /\ m_writePos + block.len <= FileSize
    BY DEF WInv, BlockOK, PosOK
  <2>3. m_end <= FileSize BY <2>1, <2>2
  <2> QED BY <2>1, <2>2, <2>3
<1>1. CASE SeekDone
  <2>1. UNCHANGED <<m_buf, block>> /\ source' \in {source, CachedDataEndPosIfSeekTo(m_seekPos)}
    BY <1>1 DEF SeekDone, Reset
  <2>2. CachedDataEndPosIfSeekTo(m_seekPos) \in Positions
    BY <1>0 DEF CachedDataEndPosIfSeekTo, WInv, AskedOK, Positions, Targets
  <2> QED BY <2>1, <2>2 DEF DataOK
<1>2. CASE \E n \in 1..m_chunkSize : ReadSource(n)
  <2>1. PICK n \in 1..m_chunkSize : ReadSource(n) BY <1>2
  <2>2. /\ m_buf' = m_buf /\ source' = source + n /\ source + n <= FileSize
        /\ block' = [first |-> source, len |-> n, done |-> 0]
    BY <2>1 DEF ReadSource, cvars
  <2>3. source \in Nat /\ n \in Nat BY <1>0 DEF DataOK, Positions
  <2>4. source' \in Positions BY <1>0, <2>2, <2>3 DEF Positions
  <2>5. block'.first \in Nat /\ block'.first + block'.len <= FileSize BY <2>2, <2>3
  <2> QED BY <2>2, <2>4, <2>5 DEF DataOK
<1>3. CASE WriteBlock
  <2>1. PICK len, first, n : /\ len = block.len - block.done /\ first = block.first + block.done
                             /\ n = Written(len)
    OBVIOUS
  <2>2. /\ WriteToCache(first, len) /\ source' = source
        /\ block' = [block EXCEPT !.done = @ + n]
    BY <1>3, <2>1 DEF WriteBlock
  <2>3. len \in Nat /\ first \in Nat /\ first + len <= FileSize
    BY <1>0, <2>1 DEF DataOK
  <2>4. n \in Nat /\ n <= len /\ m_end % m_size \in Slots
    BY <1>0, <2>1, <2>3, WrittenFits
  <2>5. m_buf' \in [Slots -> {Unwritten} \cup Positions]
    <3> DEFINE at == m_end % m_size
    <3>1. m_buf' = [s \in Slots |-> IF at <= s /\ s < at + n THEN first + (s - at) ELSE m_buf[s]]
      BY <2>1, <2>2 DEF WriteToCache
    <3>2. at \in Int /\ Slots \subseteq Int BY <2>4, CacheAssumption DEF Slots
    <3> HIDE DEF at
    <3>3. ASSUME NEW s \in Slots, at <= s, s < at + n PROVE first + (s - at) \in Positions
      BY <1>0, <2>3, <2>4, <3>2, <3>3 DEF Positions
    <3>4. \A s \in Slots : m_buf[s] \in {Unwritten} \cup Positions BY DEF DataOK
    <3> QED BY <3>1, <3>3, <3>4
  <2>6. block'.first = block.first /\ block'.len = block.len BY <1>0, <2>2
  <2> QED BY <2>2, <2>5, <2>6 DEF DataOK
<1>4. CASE EndWrite
  <2>1. UNCHANGED <<m_buf, source>> /\ block' = NoBlock BY <1>4 DEF EndWrite, cvars
  <2>2. block'.first = 0 /\ block'.len = 0 BY <2>1 DEF NoBlock
  <2> QED BY <1>0, <2>1, <2>2 DEF DataOK
<1>5. CASE \/ Top \/ NoSeekAsked \/ SeekFails \/ ThrottleStop \/ CheckRoom \/ ReadNothing
           \/ HitEof \/ ReadFatal \/ LeaveEof \/ Drained \/ NextRound \/ OnExit
  <2>1. UNCHANGED <<m_buf, source, block>>
    BY <1>5 DEF Top, NoSeekAsked, SeekFails, ThrottleStop, CheckRoom, ReadNothing, HitEof,
         ReadFatal, LeaveEof, Drained, NextRound, OnExit, cvars, fillVars
  <2> QED BY <2>1 DEF DataOK
<1> QED BY <1>1, <1>2, <1>3, <1>4, <1>5 DEF FillerStep

LEMMA ReaderKeepsData == ASSUME DataOK, ReaderStep PROVE DataOK'
<1>1. UNCHANGED <<source, block>>
  BY DEF ReaderStep, CallStep, Read, SeekNowhere, StartSeek, FoundInCache, CannotSeek, AskFiller, SeekEnded,
         TimedOut, CheckRunning, TooLittleData, SeekRemaining, EndSeek, Close, WakeFiller, Join,
         fillerVars, fillVars
<1>2. UNCHANGED m_buf
  BY DEF ReaderStep, CallStep, Read, SeekNowhere, StartSeek, FoundInCache, CannotSeek, AskFiller, SeekEnded,
         TimedOut, CheckRunning, TooLittleData, SeekRemaining, EndSeek, Close, WakeFiller, Join,
         cvars, ReadFromCache, SeekNearEnd, SeekCached
<1> QED BY <1>1, <1>2 DEF DataOK

LEMMA FillerKeepsReadPos == ASSUME WInv, ReadPosOK, FillerStep PROVE ReadPosOK'
<1>1. CASE SeekDone
  <2>1. m_readPos' = m_seekPos /\ m_cur' = m_seekPos BY <1>1 DEF SeekDone, Reset
  <2> QED BY <2>1, CacheAssumption DEF WInv, AskedOK, Positions, Targets, ReadPosOK
<1>2. CASE ~SeekDone
  <2>1. m_readPos' = m_readPos /\ m_cur' = m_cur
    BY <1>2 DEF FillerStep, Top, NoSeekAsked, SeekFails, ThrottleStop, CheckRoom, ReadSource,
         ReadNothing, HitEof, ReadFatal, LeaveEof, Drained, WriteBlock, WriteToCache, NextRound,
         EndWrite, OnExit, cvars
  <2> QED BY <2>1 DEF ReadPosOK
<1> QED BY <1>1, <1>2

LEMMA ReaderKeepsReadPos == ASSUME WInv, ReadPosOK, ReaderStep PROVE ReadPosOK'
<1>0. /\ FileSize \in Nat /\ PosOK /\ Window /\ target \in Nat /\ target <= FileSize + 1
      /\ m_cur \in Nat /\ m_end \in Nat /\ m_cur <= m_end /\ m_readPos \in Nat
      /\ m_readPos <= m_cur + FileSize + 1
  BY CacheAssumption DEF WInv, PosOK, Window, AskedOK, Positions, Targets, ReadPosOK
<1>1. CASE \E n \in 1..FileSize : Read(n)
  <2>1. PICK n \in 1..FileSize : Read(n) BY <1>1
  <2>2. ReadFromCache(n) /\ m_readPos' = m_readPos + Given(n) /\ n \in Nat
    BY <1>0, <2>1 DEF Read
  <2>3. m_cur' = m_cur + Given(n) /\ Given(n) \in 0..Front
    BY <1>0, <2>2, ReadKeepsWindow
  <2>4. Given(n) \in Nat BY <1>0, <2>3 DEF Front
  <2> QED BY <1>0, <2>2, <2>3, <2>4 DEF ReadPosOK
<1>2. CASE SeekNowhere \/ (\E t \in Targets : StartSeek(t)) \/ SeekRemaining
  <2>1. m_readPos' = m_readPos /\ (m_cur' = m_cur \/ m_cur' = m_end)
    BY <1>2 DEF SeekNowhere, StartSeek, SeekRemaining, SeekNearEnd, cvars
  <2>2. m_readPos <= m_end + FileSize + 1 BY <1>0
  <2> QED BY <1>0, <2>1, <2>2 DEF ReadPosOK
<1>3. CASE FoundInCache \/ EndSeek
  <2>1. m_readPos' = target /\ (m_cur' = m_cur \/ m_cur' = target)
    BY <1>3 DEF FoundInCache, EndSeek, SeekCached, cvars
  <2>2. target <= m_cur + FileSize + 1 /\ target <= target + FileSize + 1 BY <1>0
  <2> QED BY <1>0, <2>1, <2>2 DEF ReadPosOK
<1>4. CASE \/ CannotSeek \/ AskFiller \/ SeekEnded \/ TimedOut \/ CheckRunning \/ TooLittleData
           \/ Close \/ WakeFiller \/ Join
  <2>1. m_readPos' = m_readPos /\ m_cur' = m_cur
    BY <1>4 DEF CannotSeek, AskFiller, SeekEnded, TimedOut, CheckRunning, TooLittleData, Close,
         WakeFiller, Join, cvars
  <2> QED BY <2>1 DEF ReadPosOK
<1> QED BY <1>1, <1>2, <1>3, <1>4 DEF ReaderStep, CallStep

LEMMA FlagsKept == ASSUME FlagsOK, FNext PROVE FlagsOK'
<1> USE DEF FlagsOK
<1>1. CASE FillerStep
  <2>1. CASE Top \/ NoSeekAsked \/ CheckRoom \/ (\E n \in 1..m_chunkSize : ReadSource(n))
             \/ WriteBlock \/ NextRound
    BY <2>1 DEF Top, NoSeekAsked, CheckRoom, ReadSource, WriteBlock, NextRound, flags, callVars
  <2>2. CASE SeekDone \/ SeekFails \/ ThrottleStop \/ Drained
    BY <2>2 DEF SeekDone, SeekFails, ThrottleStop, Drained, flags, callVars
  <2>3. CASE HitEof \/ ReadFatal \/ OnExit
    BY <2>3 DEF HitEof, ReadFatal, OnExit, callVars
  <2>4. CASE ReadNothing
    BY <2>4, Zenon DEF ReadNothing, flags, callVars
  <2>5. CASE LeaveEof \/ EndWrite
    BY <2>5 DEF LeaveEof, EndWrite, flags, callVars
  <2> QED BY <1>1, <2>1, <2>2, <2>3, <2>4, <2>5 DEF FillerStep
<1>2. CASE ReaderStep
  <2>1. UNCHANGED <<m_bEndOfInput, m_seekPossible>>
    BY <1>2 DEF ReaderStep, CallStep, Read, SeekNowhere, StartSeek, FoundInCache, CannotSeek, AskFiller,
         SeekEnded, TimedOut, CheckRunning, TooLittleData, SeekRemaining, EndSeek, Close,
         WakeFiller, Join, fillerVars, flags
  <2>2. failed' \in BOOLEAN
    <3>1. CASE SeekEnded BY <3>1 DEF SeekEnded
    <3>2. CASE ~SeekEnded
      <4>1. failed' = failed
        BY <1>2, <3>2 DEF ReaderStep, CallStep, Read, SeekNowhere, StartSeek, FoundInCache, CannotSeek,
             AskFiller, TimedOut, CheckRunning, TooLittleData, SeekRemaining, EndSeek, Close,
             WakeFiller, Join, callVars
      <4> QED BY <4>1
    <3> QED BY <3>1, <3>2
  <2>3. m_bStop' = m_bStop \/ m_bStop' = TRUE
    BY <1>2 DEF ReaderStep, CallStep, Read, SeekNowhere, StartSeek, FoundInCache, CannotSeek, AskFiller,
         SeekEnded, TimedOut, CheckRunning, TooLittleData, SeekRemaining, EndSeek, Close,
         WakeFiller, Join, callVars, Call, Return
  <2>4. /\ m_seekEvent' = m_seekEvent \/ m_seekEvent' = TRUE \/ m_seekEvent' = FALSE
        /\ m_seekEnded' = m_seekEnded \/ m_seekEnded' = FALSE
    BY <1>2 DEF ReaderStep, CallStep, Read, SeekNowhere, StartSeek, FoundInCache, CannotSeek, AskFiller,
         SeekEnded, TimedOut, CheckRunning, TooLittleData, SeekRemaining, EndSeek, Close,
         WakeFiller, Join
  <2>5. skipped' \in BOOLEAN
    BY <1>2 DEF ReaderStep, CallStep, Read, SeekNowhere, StartSeek, FoundInCache, CannotSeek,
         AskFiller, SeekEnded, TimedOut, CheckRunning, TooLittleData, SeekRemaining, EndSeek,
         Close, WakeFiller, Join, callVars
  <2> QED BY <2>1, <2>2, <2>3, <2>4, <2>5
<1> QED BY <1>1, <1>2 DEF FNext

LEMMA PlacesKept == ASSUME PlacesOK, FNext PROVE PlacesOK'
<1> USE DEF PlacesOK
<1>1. CASE FillerStep
  BY <1>1 DEF FillerStep, From, Top, NoSeekAsked, SeekDone, SeekFails, ThrottleStop, CheckRoom,
       ReadSource, ReadNothing, HitEof, ReadFatal, LeaveEof, Drained, WriteBlock, NextRound,
       EndWrite, OnExit, callVars
<1>2. CASE ReaderStep
  <2>1. filler' = filler
    BY <1>2 DEF ReaderStep, CallStep, Read, SeekNowhere, StartSeek, FoundInCache, CannotSeek, AskFiller,
         SeekEnded, TimedOut, CheckRunning, TooLittleData, SeekRemaining, EndSeek, Close,
         WakeFiller, Join, fillerVars
  <2> QED BY <1>2, <2>1 DEF ReaderStep, CallStep, Read, SeekNowhere, StartSeek, FoundInCache, CannotSeek,
       AskFiller, SeekEnded, TimedOut, CheckRunning, TooLittleData, SeekRemaining, EndSeek, Close,
       WakeFiller, Join, Call, Return, callVars
<1> QED BY <1>1, <1>2 DEF FNext

(* Every variable of the cache and its two threads keeps its type, also    *)
(* after seeks that failed.                                                *)
THEOREM FileCacheTypeCorrect == FSpec => []FTypeOK
<1>1. FInit => TypesInv BY InitTypesInv
<1>2. WInv /\ TypesInv /\ [FNext]_vars => TypesInv'
  <2> SUFFICES ASSUME WInv, TypesInv, [FNext]_vars PROVE TypesInv' OBVIOUS
  <2>1. CASE FNext
    <3>1. DataOK' BY <2>1, FillerKeepsData, ReaderKeepsData DEF FNext, TypesInv
    <3>2. ReadPosOK' BY <2>1, FillerKeepsReadPos, ReaderKeepsReadPos DEF FNext, TypesInv
    <3>3. FlagsOK' /\ PlacesOK' BY <2>1, FlagsKept, PlacesKept DEF TypesInv
    <3> QED BY <3>1, <3>2, <3>3 DEF TypesInv
  <2>2. CASE UNCHANGED vars
    BY <2>2 DEF vars, cvars, fillerVars, fillVars, flags, callVars, TypesInv, DataOK, ReadPosOK,
                FlagsOK, PlacesOK
  <2> QED BY <2>1, <2>2
<1>3. WInv /\ TypesInv => FTypeOK BY TypesAre
<1> QED BY <1>1, <1>2, <1>3, WInvHolds, PTL DEF FSpec

(* CircularCache.cpp:87-93 for the ring as the two threads use it, also    *)
(* after seeks that failed: whatever the filler writes, the reader keeps   *)
(* m_size_back bytes to go back to, or all it had if that was less.        *)
THEOREM ReaderCanGoBack == FSpec => BackBufferKept
<1> DEFINE A == m_end' > m_end /\ m_cur' = m_cur => m_cur - m_beg' >= Lesser(Back, m_size_back)
<1>1. WInv /\ [FNext]_vars => [A]_cvars
  <2> SUFFICES ASSUME WInv, [FNext]_vars, m_end' > m_end, m_cur' = m_cur
               PROVE  m_cur - m_beg' >= Lesser(Back, m_size_back)
    OBVIOUS
  <2>1. /\ PosOK /\ Window /\ m_cur \in Nat /\ m_end \in Nat /\ m_cur <= m_end
        /\ block \in [first : Int, len : Nat, done : Nat] /\ block.done <= block.len
        /\ m_seekPos \in Nat
    BY CacheAssumption DEF WInv, PosOK, Window, BlockOK, AskedOK, Positions, Targets
  <2>2. m_end' # m_end BY <2>1
  <2>3. CASE WriteBlock
    <3>1. WriteToCache(block.first + block.done, block.len - block.done)
      BY <2>3 DEF WriteBlock
    <3>2. block.len - block.done \in Nat BY <2>1
    <3> QED BY <2>1, <3>1, <3>2, WriteKeepsWindow
  <2>4. CASE SeekDone
    <3>1. m_cur' = m_seekPos /\ (m_end' = m_end \/ m_end' = m_seekPos)
      BY <2>4 DEF SeekDone, Reset
    <3> QED BY <2>1, <2>2, <3>1
  <2>5. CASE FillerStep /\ ~WriteBlock /\ ~SeekDone
    <3>1. m_end' = m_end
      BY <2>5 DEF FillerStep, Top, NoSeekAsked, SeekFails, ThrottleStop, CheckRoom, ReadSource,
           ReadNothing, HitEof, ReadFatal, LeaveEof, Drained, NextRound, EndWrite, OnExit, cvars
    <3> QED BY <2>2, <3>1
  <2>6. CASE ReaderStep
    <3>1. m_end' = m_end
      BY <2>6 DEF ReaderStep, CallStep, Read, SeekNowhere, StartSeek, FoundInCache, CannotSeek, AskFiller,
           SeekEnded, TimedOut, CheckRunning, TooLittleData, SeekRemaining, EndSeek, Close,
           WakeFiller, Join, cvars, ReadFromCache, SeekNearEnd, SeekCached
    <3> QED BY <2>2, <3>1
  <2>7. CASE UNCHANGED vars BY <2>2, <2>7 DEF vars, cvars
  <2> QED BY <2>3, <2>4, <2>5, <2>6, <2>7 DEF FNext
<1> QED BY <1>1, WInvHolds, PTL DEF FSpec, BackBufferKept
=============================================================================

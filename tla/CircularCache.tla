--------------------------- MODULE CircularCache ---------------------------
(***************************************************************************)
(* CCircularCache (xbmc/filesystem/CircularCache.cpp): the ring buffer     *)
(* between the thread that reads a file ahead and the one that consumes    *)
(* it.  m_beg, m_cur and m_end are positions in the file; position p is    *)
(* kept in slot p % m_size.  A byte is named by its position in the file,  *)
(* so what a slot holds tells which byte it is.                            *)
(*                                                                         *)
(* Each method holds m_sync and is one action; Seek, which leaves m_sync   *)
(* to wait for data, is two.                                               *)
(***************************************************************************)
EXTENDS Integers

CONSTANTS
  m_size,          \* the ring's size
  m_size_back,     \* how much of what has been read a write must leave
  FileSize,        \* the positions of the file's bytes are 0..FileSize - 1
  SeekMargin       \* how far past m_end Seek waits for data, 100000 in the code

ASSUME CacheAssumption ==
  /\ m_size \in Nat \ {0} /\ m_size_back \in 0..m_size
  /\ FileSize \in Nat /\ SeekMargin \in Nat

VARIABLES m_beg, m_end, m_cur, m_buf

cvars == <<m_beg, m_end, m_cur, m_buf>>

Slots == 0..(m_size - 1)
Positions == 0..FileSize
Unwritten == -1

Lesser(a, b) == IF a <= b THEN a ELSE b
Greater(a, b) == IF a >= b THEN a ELSE b

CInit ==
  /\ m_beg = 0 /\ m_end = 0 /\ m_cur = 0
  /\ m_buf = [s \in Slots |-> Unwritten]

Back == m_cur - m_beg
Front == m_end - m_cur

(* Mutants: all of the back buffer is kept; none of it.                    *)
LimitKeepAll == m_size - Back - Front
LimitKeepNone == m_size - Front

(* The room for writing: what was read is given up but for m_size_back.    *)
Limit == m_size - Lesser(Back, m_size_back) - Front

GetMaxWriteSize(n) == Lesser(n, Limit)

(* A mutant: only the ring's end limits a write.                           *)
WrittenToEnd(len) == Lesser(len, m_size - (m_end % m_size))

(* How much of len bytes WriteToCache takes: not past the ring's end.      *)
Written(len) == Lesser(GetMaxWriteSize(len), m_size - (m_end % m_size))

(* WriteToCache of the file's bytes from position first on.                *)
WriteToCache(first, len) ==
  LET n == Written(len)
      pos == m_end % m_size IN
  /\ m_buf' = [s \in Slots |-> IF pos <= s /\ s < pos + n THEN first + (s - pos)
                               ELSE m_buf[s]]
  /\ m_end' = m_end + n
  /\ m_beg' = Greater(m_beg, m_end + n - m_size)
  /\ UNCHANGED m_cur

(* A mutant: the end of the data is forgotten.                             *)
GivenToEnd(len) == Lesser(len, m_size - (m_cur % m_size))

(* How much of len bytes ReadFromCache gives: not past the ring's end.     *)
Given(len) == Lesser(len, Lesser(Front, m_size - (m_cur % m_size)))

ReadFromCache(len) ==
  /\ Front > 0
  /\ m_cur' = m_cur + Given(len)
  /\ UNCHANGED <<m_beg, m_end, m_buf>>

IsCachedPosition(pos) == m_beg <= pos /\ pos <= m_end

CachedDataEndPosIfSeekTo(pos) == IF IsCachedPosition(pos) THEN m_end ELSE pos

(* Seek first makes everything back buffer if pos is a bit over m_end ...  *)
NearEnd(pos) == m_end <= pos /\ pos < m_end + SeekMargin

SeekNearEnd(pos) ==
  /\ NearEnd(pos)
  /\ m_cur' = m_end
  /\ UNCHANGED <<m_beg, m_end, m_buf>>

(* ... and, when it has waited, moves there if the position is cached.     *)
SeekCached(pos) ==
  /\ IsCachedPosition(pos)
  /\ m_cur' = pos
  /\ UNCHANGED <<m_beg, m_end, m_buf>>

(* Reset(pos, false): a cached position is kept, another empties the cache. *)
Reset(pos) ==
  /\ m_cur' = pos
  /\ IF IsCachedPosition(pos) THEN UNCHANGED <<m_beg, m_end>>
                              ELSE m_beg' = pos /\ m_end' = pos
  /\ UNCHANGED m_buf

(* Its users write the file's bytes one after the other.                   *)
CNext ==
  \/ \E len \in 1..FileSize : m_end + len <= FileSize /\ WriteToCache(m_end, len)
  \/ \E len \in 1..FileSize : ReadFromCache(len)
  \/ \E pos \in Positions : SeekNearEnd(pos) \/ SeekCached(pos) \/ Reset(pos)

CSpec == CInit /\ [][CNext]_cvars

-----------------------------------------------------------------------------
CTypeOK ==
  /\ m_beg \in Positions /\ m_end \in Positions /\ m_cur \in Positions
  /\ m_buf \in [Slots -> {Unwritten} \cup Positions]

(* CircularCache.cpp:95-97 "The following always apply", the first of them *)
(* with its slip of the pen mended: m_cur lies between m_beg and m_end,    *)
(* these are no more than the ring's size apart, and so Limit, an unsigned *)
(* number in the code, does not wrap around.                               *)
Window ==
  /\ m_beg <= m_cur /\ m_cur <= m_end
  /\ m_end - m_beg <= m_size
  /\ Limit >= 0

(* No write has overwritten a byte that still counts as cached: each slot  *)
(* of the window holds the byte of its position.                           *)
CachedBytes == \A p \in m_beg .. m_end - 1 : m_buf[p % m_size] = p

(* CircularCache.cpp:87 "It will always leave m_size_back of the           *)
(* backbuffer intact": a write takes nothing from a back buffer that is no *)
(* larger, and leaves that much of a larger one.                           *)
BackBufferKept ==
  [][m_end' > m_end /\ m_cur' = m_cur => m_cur - m_beg' >= Lesser(Back, m_size_back)]_cvars

CInv == CTypeOK /\ Window /\ CachedBytes
=============================================================================

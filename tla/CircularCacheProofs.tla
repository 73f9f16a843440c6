------------------------ MODULE CircularCacheProofs ------------------------
(***************************************************************************)
(* Theorems about CCircularCache for every size of the ring, of its back   *)
(* buffer and of the file: the arithmetic of its slots, the invariant CInv *)
(* (types, window, contents), and what a write leaves of the back buffer.  *)
(***************************************************************************)
EXTENDS CircularCache, TLAPS

(* Slots of the ring.  Division with a remainder, and two multiples.       *)
LEMMA DivMod ==
  ASSUME NEW m \in Nat \ {0}, NEW a \in Nat
  PROVE  /\ a \div m \in Nat /\ a % m \in 0..(m - 1)
         /\ a = m * (a \div m) + (a % m)
<1>1. a \div m \in Nat BY Z3
<1>2. a % m \in 0..(m - 1) BY Z3
<1>3. a = m * (a \div m) + (a % m) BY Z3
<1> QED BY <1>1, <1>2, <1>3

LEMMA MultiplesApart ==
  ASSUME NEW m \in Nat \ {0}, NEW b \in Int, NEW c \in Int, c > b
  PROVE  m * c >= m * b + m
<1>1. m * (c - b) >= m BY Z3
<1>2. m * c - m * b = m * (c - b) BY Z3
<1>3. m * c \in Int /\ m * b \in Int OBVIOUS
<1> QED BY <1>1, <1>2, <1>3

(* Positions less than a ring apart are in different slots.                *)
LEMMA SlotsDiffer ==
  ASSUME NEW m \in Nat \ {0}, NEW p \in Nat, NEW q \in Nat, p < q, q - p < m
  PROVE  p % m # q % m
<1> SUFFICES ASSUME p % m = q % m PROVE FALSE OBVIOUS
<1> DEFINE a == p \div m
           b == q \div m
           r == p % m
<1>1. a \in Nat /\ b \in Nat /\ r \in 0..(m - 1) /\ p = m * a + r /\ q = m * b + r BY DivMod
<1> HIDE DEF a, b, r
<1>2. m * a \in Int /\ m * b \in Int BY <1>1
<1>3. CASE b > a
  <2>1. m * b >= m * a + m BY <1>1, <1>3, MultiplesApart
  <2> QED BY <2>1, <1>1, <1>2
<1>4. CASE b = a BY <1>1, <1>4
<1>5. CASE a > b
  <2>1. m * a >= m * b + m BY <1>1, <1>5, MultiplesApart
  <2> QED BY <2>1, <1>1, <1>2
<1> QED BY <1>3, <1>4, <1>5, <1>1

(* Up to the ring's end, positions in a row are in slots in a row.         *)
LEMMA SlotsInARow ==
  ASSUME NEW m \in Nat \ {0}, NEW e \in Nat, NEW i \in Nat, (e % m) + i < m
  PROVE  (e + i) % m = (e % m) + i
<1> DEFINE a == e \div m
           b == (e + i) \div m
           r == e % m
           s == (e + i) % m
<1>1. a \in Nat /\ r \in 0..(m - 1) /\ e = m * a + r BY DivMod
<1>2. b \in Nat /\ s \in 0..(m - 1) /\ e + i = m * b + s
  <2>1. e + i \in Nat OBVIOUS
  <2> QED BY <2>1, DivMod
<1>3. r + i < m OBVIOUS
<1> HIDE DEF a, b, r, s
<1>4. m * a \in Int /\ m * b \in Int BY <1>1, <1>2
<1>5. m * a + (r + i) = m * b + s BY <1>1, <1>2, <1>4
<1>6. CASE b > a
  <2>1. m * b >= m * a + m BY <1>1, <1>2, <1>6, MultiplesApart
  <2> QED BY <2>1, <1>1, <1>2, <1>3, <1>4, <1>5
<1>7. CASE a > b
  <2>1. m * a >= m * b + m BY <1>1, <1>2, <1>7, MultiplesApart
  <2> QED BY <2>1, <1>1, <1>2, <1>3, <1>4, <1>5
<1>8. CASE a = b
  <2>1. s = r + i BY <1>8, <1>1, <1>2, <1>4, <1>5
  <2> QED BY <2>1 DEF s, r
<1> QED BY <1>6, <1>7, <1>8, <1>1, <1>2

-----------------------------------------------------------------------------
(* The positions are numbers, in Positions or not: all that the window     *)
(* needs, also of a user that does not write byte after byte.              *)
PosOK == m_beg \in Nat /\ m_cur \in Nat /\ m_end \in Nat

(* If the window is no larger than the ring, Limit does not wrap around.   *)
LEMMA RoomLeft ==
  ASSUME PosOK', m_beg' <= m_cur', m_cur' <= m_end', m_end' - m_beg' <= m_size
  PROVE  Limit' >= 0
<1>1. m_size \in Nat /\ m_size_back \in Nat BY CacheAssumption
<1>2. \A beg, cur, end \in Nat : beg <= cur /\ cur <= end /\ end - beg <= m_size =>
        m_size - (IF cur - beg <= m_size_back THEN cur - beg ELSE m_size_back) - (end - cur) >= 0
  BY <1>1
<1>3. m_beg' \in Nat /\ m_cur' \in Nat /\ m_end' \in Nat BY DEF PosOK
<1> QED BY <1>2, <1>3 DEF Limit, Lesser, Back, Front

(* What WriteToCache takes fits: in front of the bytes it must keep, in    *)
(* the slots up to the ring's end, and in what it was given.               *)
LEMMA WrittenFits ==
  ASSUME PosOK, Window, NEW len \in Nat
  PROVE  /\ Written(len) \in Nat /\ Written(len) <= len /\ Written(len) <= Limit
         /\ m_end % m_size \in Slots
         /\ Written(len) <= m_size - (m_end % m_size)
<1>1. m_end % m_size \in 0..(m_size - 1) BY CacheAssumption, DivMod DEF PosOK
<1>2. Limit \in Nat
  <2>1. Back \in Nat /\ Front \in Nat BY DEF PosOK, Window, Back, Front
  <2> QED BY <2>1, CacheAssumption DEF Window, Limit, Lesser
<1> QED BY <1>1, <1>2, CacheAssumption DEF Written, GetMaxWriteSize, Lesser, Slots

(* Each method keeps the window.                                           *)
LEMMA WriteKeepsWindow ==
  ASSUME PosOK, Window, NEW first, NEW len \in Nat, WriteToCache(first, len)
  PROVE  PosOK' /\ Window' /\ m_end' = m_end + Written(len) /\ m_cur' = m_cur
         /\ m_cur - m_beg' >= Lesser(Back, m_size_back) /\ m_beg' >= m_beg
         /\ m_beg' >= m_end' - m_size
<1> DEFINE n == Written(len)
<1>1. n \in Nat /\ n <= Limit BY WrittenFits
<1>2. m_end' = m_end + n /\ m_beg' = Greater(m_beg, m_end + n - m_size) /\ m_cur' = m_cur
  BY DEF WriteToCache
<1> HIDE DEF n
<1>3. m_size \in Nat /\ m_size_back \in Nat /\ m_size_back <= m_size BY CacheAssumption
<1>4. m_beg' >= m_beg /\ m_beg' >= m_end' - m_size /\ m_beg' \in Nat
  BY <1>1, <1>2, <1>3 DEF Greater, PosOK
<1>5. m_end + n - m_size <= m_cur - Lesser(Back, m_size_back)
  BY <1>1, <1>3 DEF Limit, Front, Back, Lesser, PosOK, Window
<1>6. m_cur - m_beg' >= Lesser(Back, m_size_back)
  BY <1>2, <1>3, <1>5 DEF Greater, PosOK, Window, Back, Lesser
<1>7. Back \in Nat BY DEF Back, PosOK, Window
<1>8. m_beg' <= m_cur' /\ m_cur' <= m_end' BY <1>1, <1>2, <1>3, <1>4, <1>6, <1>7 DEF Lesser, PosOK, Window
<1>9. m_end' - m_beg' <= m_size BY <1>1, <1>2, <1>3, <1>4 DEF PosOK
<1>10. PosOK' BY <1>1, <1>2, <1>4 DEF PosOK
<1>11. Limit' >= 0 BY <1>8, <1>9, <1>10, RoomLeft
<1> QED BY <1>1, <1>2, <1>4, <1>6, <1>8, <1>9, <1>10, <1>11 DEF Window, n

LEMMA ReadKeepsWindow ==
  ASSUME PosOK, Window, NEW len \in Nat, ReadFromCache(len)
  PROVE  PosOK' /\ Window' /\ m_cur' = m_cur + Given(len) /\ Given(len) \in 0..Front
<1>1. m_cur % m_size \in 0..(m_size - 1) BY CacheAssumption, DivMod DEF PosOK
<1>2. Front \in Nat BY DEF PosOK, Window, Front
<1>3. Given(len) \in 0..Front BY <1>1, <1>2, CacheAssumption DEF Given, Lesser
<1>4. m_cur' = m_cur + Given(len) /\ m_beg' = m_beg /\ m_end' = m_end BY DEF ReadFromCache
<1>5. PosOK' /\ m_beg' <= m_cur' /\ m_cur' <= m_end' /\ m_end' - m_beg' <= m_size
  BY <1>3, <1>4 DEF PosOK, Window, Front
<1>6. Limit' >= 0 BY <1>5, RoomLeft
<1> QED BY <1>3, <1>4, <1>5, <1>6 DEF Window

LEMMA SeekKeepsWindow ==
  ASSUME PosOK, Window, NEW pos \in Nat, SeekNearEnd(pos) \/ SeekCached(pos)
  PROVE  PosOK' /\ Window' /\ m_beg' = m_beg /\ m_end' = m_end
<1>1. /\ m_beg' = m_beg /\ m_end' = m_end
      /\ m_cur' = m_end \/ (m_cur' = pos /\ m_beg <= pos /\ pos <= m_end)
  BY DEF SeekNearEnd, SeekCached, IsCachedPosition
<1>2. PosOK' /\ m_beg' <= m_cur' /\ m_cur' <= m_end' /\ m_end' - m_beg' <= m_size
  BY <1>1 DEF PosOK, Window
<1>3. Limit' >= 0 BY <1>2, RoomLeft
<1> QED BY <1>1, <1>2, <1>3 DEF Window

LEMMA ResetKeepsWindow ==
  ASSUME PosOK, Window, NEW pos \in Nat, Reset(pos)
  PROVE  PosOK' /\ Window' /\ m_end' = CachedDataEndPosIfSeekTo(pos)
<1>1. CASE IsCachedPosition(pos)
  <2>1. m_cur' = pos /\ m_beg' = m_beg /\ m_end' = m_end /\ m_beg <= pos /\ pos <= m_end
    BY <1>1 DEF Reset, IsCachedPosition
  <2>2. PosOK' /\ m_beg' <= m_cur' /\ m_cur' <= m_end' /\ m_end' - m_beg' <= m_size
    BY <2>1 DEF PosOK, Window
  <2> QED BY <1>1, <2>1, <2>2, RoomLeft DEF Window, CachedDataEndPosIfSeekTo
<1>2. CASE ~IsCachedPosition(pos)
  <2>1. m_cur' = pos /\ m_beg' = pos /\ m_end' = pos BY <1>2 DEF Reset
  <2>2. PosOK' /\ m_beg' <= m_cur' /\ m_cur' <= m_end' /\ m_end' - m_beg' <= m_size
    BY <2>1, CacheAssumption DEF PosOK
  <2> QED BY <1>2, <2>1, <2>2, RoomLeft DEF Window, CachedDataEndPosIfSeekTo
<1> QED BY <1>1, <1>2

-----------------------------------------------------------------------------
(* A write of the next bytes keeps what the window holds: the new bytes    *)
(* are where their positions say, and in no slot of a byte that is kept.   *)
LEMMA WriteKeepsBytes ==
  ASSUME PosOK, Window, CachedBytes, NEW len \in Nat, WriteToCache(m_end, len)
  PROVE  CachedBytes'
<1> DEFINE n == Written(len)
           at == m_end % m_size
<1>1. n \in Nat /\ at \in Slots /\ n <= m_size - at BY WrittenFits
<1>2. m_end' = m_end + n /\ m_beg' >= m_beg /\ m_beg' >= m_end' - m_size /\ PosOK'
  BY WriteKeepsWindow
<1>3. m_buf' = [s \in Slots |-> IF at <= s /\ s < at + n THEN m_end + (s - at) ELSE m_buf[s]]
  BY DEF WriteToCache
<1>4. m_size \in Nat \ {0} BY CacheAssumption
<1>5. \A i \in 0 .. n - 1 : (m_end + i) % m_size = at + i
  <2>1. TAKE i \in 0 .. n - 1
  <2>2. i \in Nat /\ at + i < m_size BY <1>1, <1>4 DEF Slots
  <2> QED BY <2>2, <1>4, SlotsInARow DEF PosOK
<1> HIDE DEF n, at
<1> SUFFICES ASSUME NEW p \in m_beg' .. m_end' - 1 PROVE m_buf'[p % m_size] = p
  BY DEF CachedBytes
<1>6. p \in Nat /\ p % m_size \in Slots BY <1>2, <1>4, DivMod DEF PosOK, Slots
<1>7. CASE p >= m_end
  <2>1. PICK i \in 0 .. n - 1 : p = m_end + i BY <1>1, <1>2, <1>6, <1>7 DEF PosOK
  <2>2. p % m_size = at + i BY <2>1, <1>5
  <2> QED BY <2>1, <2>2, <1>1, <1>3, <1>6 DEF Slots, PosOK
<1>8. CASE p < m_end
  <2>1. m_buf[p % m_size] = p BY <1>2, <1>6, <1>8 DEF CachedBytes, PosOK
  <2>2. \A i \in 0 .. n - 1 : p % m_size # at + i
    <3>1. TAKE i \in 0 .. n - 1
    <3>2. m_end + i \in Nat /\ p < m_end + i /\ (m_end + i) - p < m_size
      BY <1>1, <1>2, <1>4, <1>6, <1>8 DEF PosOK
    <3>3. p % m_size # (m_end + i) % m_size BY <3>2, <1>4, <1>6, SlotsDiffer
    <3> QED BY <3>3, <1>5
  <2>3. ~(at <= p % m_size /\ p % m_size < at + n)
    <3>1. SUFFICES ASSUME at <= p % m_size, p % m_size < at + n PROVE FALSE OBVIOUS
    <3>2. (p % m_size) - at \in 0 .. n - 1 BY <3>1, <1>1, <1>6 DEF Slots
    <3>3. p % m_size # at + ((p % m_size) - at) BY <3>2, <2>2
    <3> QED BY <3>3, <1>1, <1>6 DEF Slots
  <2> QED BY <2>1, <2>3, <1>3, <1>6
<1> QED BY <1>2, <1>6, <1>7, <1>8 DEF PosOK

(* The other methods write nothing, and a Reset that moves the window      *)
(* leaves it empty.                                                        *)
LEMMA MovesKeepBytes ==
  ASSUME PosOK, CachedBytes,
         \/ \E len \in Nat : ReadFromCache(len)
         \/ \E pos \in Nat : SeekNearEnd(pos) \/ SeekCached(pos) \/ Reset(pos)
  PROVE  CachedBytes'
<1>1. m_buf' = m_buf BY DEF ReadFromCache, SeekNearEnd, SeekCached, Reset
<1>2. \/ m_beg' = m_beg /\ m_end' = m_end
      \/ \E pos \in Nat : m_beg' = pos /\ m_end' = pos
  BY DEF ReadFromCache, SeekNearEnd, SeekCached, Reset
<1> QED BY <1>1, <1>2 DEF CachedBytes

-----------------------------------------------------------------------------
LEMMA InitCInv == CInit => CInv
<1> SUFFICES ASSUME CInit PROVE CInv OBVIOUS
<1>1. CTypeOK BY CacheAssumption DEF CInit, CTypeOK, Positions, Slots, Unwritten
<1>2. Window BY CacheAssumption DEF CInit, Window, Limit, Back, Front, Lesser
<1>3. CachedBytes BY DEF CInit, CachedBytes
<1> QED BY <1>1, <1>2, <1>3 DEF CInv

LEMMA WriteKeepsCInv ==
  ASSUME CInv, NEW len \in 1..FileSize, m_end + len <= FileSize, WriteToCache(m_end, len)
  PROVE  CInv'
<1>1. PosOK /\ Window /\ CachedBytes /\ len \in Nat
  BY DEF CInv, CTypeOK, Positions, PosOK
<1>2. FileSize \in Nat /\ m_size \in Nat \ {0} BY CacheAssumption
<1>3. /\ PosOK' /\ Window' /\ m_end' = m_end + Written(len) /\ m_cur' = m_cur
      /\ Written(len) \in Nat /\ Written(len) <= len
  BY <1>1, WriteKeepsWindow, WrittenFits
<1>4. m_end' \in Positions /\ m_end' <= FileSize BY <1>1, <1>2, <1>3 DEF Positions, PosOK
<1>5. m_beg' \in Positions /\ m_cur' \in Positions
  BY <1>2, <1>3, <1>4 DEF Positions, PosOK, Window
<1>6. m_buf' \in [Slots -> {Unwritten} \cup Positions]
  <2>1. m_end % m_size \in Slots BY <1>1, WrittenFits
  <2>2. SUFFICES ASSUME NEW s \in Slots, m_end % m_size <= s, s < (m_end % m_size) + Written(len)
                 PROVE m_end + (s - (m_end % m_size)) \in Positions
    BY DEF WriteToCache, CInv, CTypeOK
  <2> QED BY <1>1, <1>2, <1>3, <1>4, <2>1, <2>2 DEF Positions, Slots, PosOK
<1>7. CachedBytes' BY <1>1, WriteKeepsBytes
<1> QED BY <1>3, <1>4, <1>5, <1>6, <1>7 DEF CInv, CTypeOK

LEMMA MovesKeepCInv ==
  ASSUME CInv,
         \/ \E len \in 1..FileSize : ReadFromCache(len)
         \/ \E pos \in Positions : SeekNearEnd(pos) \/ SeekCached(pos) \/ Reset(pos)
  PROVE  CInv'
<1>1. PosOK /\ Window /\ CachedBytes BY DEF CInv, CTypeOK, Positions, PosOK
<1>2. FileSize \in Nat BY CacheAssumption
<1>3. CachedBytes' BY <1>1, <1>2, MovesKeepBytes DEF Positions
<1>4. m_buf' = m_buf BY DEF ReadFromCache, SeekNearEnd, SeekCached, Reset
<1>5. CASE \E len \in 1..FileSize : ReadFromCache(len)
  <2>1. PICK len \in 1..FileSize : ReadFromCache(len) BY <1>5
  <2>2. len \in Nat BY <1>2
  <2>3. PosOK' /\ Window' BY <1>1, <2>1, <2>2, ReadKeepsWindow
  <2>4. m_beg' = m_beg /\ m_end' = m_end BY <2>1 DEF ReadFromCache
  <2>5. m_cur' \in Positions BY <1>2, <2>3, <2>4 DEF CInv, CTypeOK, Positions, PosOK, Window
  <2> QED BY <1>3, <1>4, <2>3, <2>4, <2>5 DEF CInv, CTypeOK
<1>6. CASE \E pos \in Positions : SeekNearEnd(pos) \/ SeekCached(pos)
  <2>1. PICK pos \in Positions : SeekNearEnd(pos) \/ SeekCached(pos) BY <1>6
  <2>2. PosOK' /\ Window' /\ m_beg' = m_beg /\ m_end' = m_end
    BY <1>1, <1>2, <2>1, SeekKeepsWindow DEF Positions
  <2>3. m_cur' \in Positions BY <1>2, <2>2 DEF CInv, CTypeOK, Positions, PosOK, Window
  <2> QED BY <1>3, <1>4, <2>2, <2>3 DEF CInv, CTypeOK
<1>7. CASE \E pos \in Positions : Reset(pos)
  <2>1. PICK pos \in Positions : Reset(pos) BY <1>7
  <2>2. PosOK' /\ Window' BY <1>1, <1>2, <2>1, ResetKeepsWindow DEF Positions
  <2>3. m_cur' \in Positions /\ m_beg' \in Positions /\ m_end' \in Positions
    BY <2>1 DEF Reset, CInv, CTypeOK
  <2> QED BY <1>3, <1>4, <2>2, <2>3 DEF CInv, CTypeOK
<1> QED BY <1>5, <1>6, <1>7

LEMMA NextKeepsCInv == CInv /\ [CNext]_cvars => CInv'
<1> SUFFICES ASSUME CInv, [CNext]_cvars PROVE CInv' OBVIOUS
<1>1. CASE \E len \in 1..FileSize : m_end + len <= FileSize /\ WriteToCache(m_end, len)
  BY <1>1, WriteKeepsCInv
<1>2. CASE \/ \E len \in 1..FileSize : ReadFromCache(len)
           \/ \E pos \in Positions : SeekNearEnd(pos) \/ SeekCached(pos) \/ Reset(pos)
  BY <1>2, MovesKeepCInv
<1>3. CASE UNCHANGED cvars
  BY <1>3 DEF cvars, CInv, CTypeOK, Window, CachedBytes, Limit, Back, Front
<1> QED BY <1>1, <1>2, <1>3 DEF CNext

(* For every size of ring, back buffer and file: the window is sound and   *)
(* each slot of it holds the byte of its position, whatever calls of       *)
(* WriteToCache, ReadFromCache, Seek and Reset follow each other.          *)
THEOREM RingHoldsTheFile == CSpec => []CInv
<1>1. CInit => CInv BY InitCInv
<1>2. CInv /\ [CNext]_cvars => CInv' BY NextKeepsCInv
<1> QED BY <1>1, <1>2, PTL DEF CSpec

(* CircularCache.cpp:87-93: what a write leaves of the back buffer.        *)
THEOREM BackBufferIsKept == CSpec => BackBufferKept
<1> DEFINE A == m_end' > m_end /\ m_cur' = m_cur => m_cur - m_beg' >= Lesser(Back, m_size_back)
<1>1. CInv /\ [CNext]_cvars => [A]_cvars
  <2> SUFFICES ASSUME CInv, CNext, m_end' > m_end, m_cur' = m_cur
               PROVE m_cur - m_beg' >= Lesser(Back, m_size_back)
    OBVIOUS
  <2>1. PosOK /\ Window BY DEF CInv, CTypeOK, Positions, PosOK
  <2>2. CASE \E len \in 1..FileSize : m_end + len <= FileSize /\ WriteToCache(m_end, len)
    <3>1. PICK len \in 1..FileSize : WriteToCache(m_end, len) BY <2>2
    <3>2. len \in Nat BY CacheAssumption
    <3> QED BY <2>1, <3>1, <3>2, WriteKeepsWindow
  <2>3. CASE \/ \E len \in 1..FileSize : ReadFromCache(len)
             \/ \E pos \in Positions : SeekNearEnd(pos) \/ SeekCached(pos)
    <3>1. m_end' = m_end BY <2>3 DEF ReadFromCache, SeekNearEnd, SeekCached
    <3> QED BY <3>1, <2>1 DEF PosOK
  <2>4. CASE \E pos \in Positions : Reset(pos)
    <3>1. m_end' = m_end \/ m_end' = m_cur' BY <2>4 DEF Reset
    <3> QED BY <3>1, <2>1 DEF PosOK, Window
  <2> QED BY <2>2, <2>3, <2>4 DEF CNext
<1>2. CSpec => []CInv BY RingHoldsTheFile
<1> QED BY <1>1, <1>2, PTL DEF CSpec, BackBufferKept
=============================================================================

-------------------------- MODULE StreamPlayersProofs --------------------------
(***************************************************************************)
(* What holds of the player's message queues and of the threads around     *)
(* them for any number of packets, synchronization messages and calls.     *)
(*                                                                         *)
(* The first part is about a queue alone: which queues the methods of      *)
(* CDVDMessageQueue leave behind, when they are used as the player does.   *)
(***************************************************************************)
EXTENDS StreamPlayers, QueueLemmas, TLAPS

QueueType ==
  [m_messages : Seq(Items), m_prioMessages : Seq(Items), m_iDataSize : Nat,
   m_bAbortRequest : BOOLEAN, m_bInitialized : BOOLEAN, m_drain : BOOLEAN,
   m_hEvent : BOOLEAN]

Ordinary(m) == m.priority = 0 /\ m.kind \in {"packet", "sync"}
Urgent(m) ==
  \/ m.priority = 1 /\ m.kind \in {"flush", "sync"}
  \/ m.priority = 10 /\ m.kind = "packet"

(* Get takes them first.                                                   *)
PacketsLast(s) == \A a, b : InOrder(s, a, b) /\ a.kind = "packet" => b.kind = "packet"

(* The urgent packets, which are to be decoded again, come before other    *)
(* urgent messages; flushes are always urgent; a closed queue is empty.    *)
Good(Q) ==
  /\ Q \in QueueType
  /\ \A m \in ToSet(Q.m_messages) : Ordinary(m)
  /\ \A m \in ToSet(Q.m_prioMessages) : Urgent(m)
  /\ PacketsLast(Q.m_prioMessages)
  /\ ~Q.m_bInitialized => Q.m_messages = <<>> /\ Q.m_prioMessages = <<>>
  /\ Q.m_iDataSize = DataSize(Q)

-----------------------------------------------------------------------------
(* Sizes                                                                   *)

Sizes(s) == [i \in DOMAIN s |-> Size(s[i])]
TotalSize(s) == Total(Sizes(s))

LEMMA ItemParts ==
  ASSUME NEW m \in Items
  PROVE  /\ m.kind \in Kinds /\ m.n \in Nat /\ m.priority \in {0, 1, 10}
         /\ Size(m) \in Nat
         /\ \A p \in {0, 1, 10} : [m EXCEPT !.priority = p] \in Items
         /\ \A p \in {0, 1, 10} : /\ [m EXCEPT !.priority = p].kind = m.kind
                                  /\ [m EXCEPT !.priority = p].n = m.n
                                  /\ [m EXCEPT !.priority = p].priority = p
BY DEF Items, Size

LEMMA SizesIs ==
  ASSUME NEW s \in Seq(Items)
  PROVE  /\ Sizes(s) \in Seq(Nat) /\ Sizes(s) \in Seq(Int) /\ Len(Sizes(s)) = Len(s)
         /\ Len(s) \in Nat
         /\ \A i \in 1..Len(s) : Sizes(s)[i] = Size(s[i])
         /\ TotalSize(s) \in Nat
<1> DEFINE n == Len(s)
           z == Sizes(s)
<1>1. n \in Nat /\ DOMAIN s = 1..n /\ \A i \in 1..n : s[i] \in Items
  OBVIOUS
<1>2. \A i \in 1..n : Size(s[i]) \in Nat
  BY <1>1, ItemParts
<1>3. z = [i \in 1..n |-> Size(s[i])]
  BY <1>1 DEF Sizes
<1> HIDE DEF n, z
<1>4. z \in Seq(Nat) /\ Len(z) = n /\ \A i \in 1..n : z[i] = Size(s[i])
  BY <1>1, <1>2, <1>3
<1>5. z \in Seq(Int)
  BY <1>4
<1>6. Total(z) \in Nat
  BY <1>4, TotalNat
<1> QED BY <1>1, <1>4, <1>5, <1>6 DEF n, z, TotalSize

LEMMA EmptySize == TotalSize(<<>>) = 0
<1>1. <<>> \in Seq(Items) /\ Len(<<>>) = 0
  OBVIOUS
<1>2. Sizes(<<>>) \in Seq(Nat) /\ Len(Sizes(<<>>)) = 0
  BY <1>1, SizesIs
<1>3. \A i \in 1..Len(Sizes(<<>>)) : Sizes(<<>>)[i] = 0
  BY <1>2
<1> QED BY <1>2, <1>3, TotalZero DEF TotalSize

LEMMA PrependSize ==
  ASSUME NEW s \in Seq(Items), NEW e \in Items
  PROVE  TotalSize(<<e>> \o s) = TotalSize(s) + Size(e)
<1> DEFINE r == <<e>> \o s
<1>1. r \in Seq(Items) /\ Len(r) = Len(s) + 1 /\ Len(s) \in Nat
      /\ r[1] = e /\ \A k \in 1..Len(s) : r[k + 1] = s[k]
  BY PrependIs
<1> HIDE DEF r
<1>2. /\ Sizes(r) \in Seq(Int) /\ Len(Sizes(r)) = Len(r)
      /\ \A i \in 1..Len(r) : Sizes(r)[i] = Size(r[i])
  BY <1>1, SizesIs
<1>3. /\ Sizes(s) \in Seq(Int) /\ Len(Sizes(s)) = Len(s)
      /\ \A i \in 1..Len(s) : Sizes(s)[i] = Size(s[i])
  BY SizesIs
<1>4. Sizes(r)[1] = Size(e)
  <2>1. 1 \in 1..Len(r)
    BY <1>1
  <2> QED BY <1>1, <1>2, <2>1
<1>5. ASSUME NEW i \in 1..Len(s) PROVE Sizes(r)[i + 1] = Sizes(s)[i]
  <2>1. i + 1 \in 1..Len(r) /\ r[i + 1] = s[i]
    BY <1>1
  <2>2. Sizes(r)[i + 1] = Size(r[i + 1])
    BY <1>2, <2>1
  <2> QED BY <1>3, <2>1, <2>2
<1>6. Total(Sizes(r)) = Total(Sizes(s)) + Sizes(r)[1]
  BY <1>1, <1>2, <1>3, <1>5, TotalPrepend
<1> QED BY <1>4, <1>6 DEF TotalSize, r

LEMMA AppendSize ==
  ASSUME NEW s \in Seq(Items), NEW e \in Items
  PROVE  TotalSize(Append(s, e)) = TotalSize(s) + Size(e)
<1> DEFINE r == Append(s, e)
<1>1. r \in Seq(Items) /\ Len(r) = Len(s) + 1 /\ Len(s) \in Nat
      /\ r[Len(s) + 1] = e /\ \A k \in 1..Len(s) : r[k] = s[k]
  BY AppendProperties
<1> HIDE DEF r
<1>2. /\ Sizes(r) \in Seq(Int) /\ Len(Sizes(r)) = Len(r)
      /\ \A i \in 1..Len(r) : Sizes(r)[i] = Size(r[i])
  BY <1>1, SizesIs
<1>3. /\ Sizes(s) \in Seq(Int) /\ Len(Sizes(s)) = Len(s)
      /\ \A i \in 1..Len(s) : Sizes(s)[i] = Size(s[i])
  BY SizesIs
<1>4. Sizes(r)[Len(r)] = Size(e)
  BY <1>1, <1>2
<1>5. ASSUME NEW i \in 1..Len(s) PROVE Sizes(r)[i] = Sizes(s)[i]
  <2>1. i \in 1..Len(r) /\ r[i] = s[i]
    BY <1>1
  <2> QED BY <1>2, <1>3, <2>1
<1>6. Total(Sizes(r)) = Total(Sizes(s)) + Sizes(r)[Len(Sizes(r))]
  <2>1. Len(Sizes(r)) = Len(Sizes(s)) + 1 /\ \A i \in 1..Len(Sizes(s)) : Sizes(r)[i] = Sizes(s)[i]
    BY <1>1, <1>2, <1>3, <1>5
  <2> QED BY <1>2, <1>3, <2>1, TotalAppend
<1> QED BY <1>2, <1>4, <1>6 DEF TotalSize, r

LEMMA FrontSize ==
  ASSUME NEW s \in Seq(Items), s # <<>>
  PROVE  TotalSize(Front(s)) = TotalSize(s) - Size(Last(s))
<1> DEFINE t == Front(s)
<1>1. /\ t \in Seq(Items) /\ Len(t) = Len(s) - 1
      /\ \A i \in 1..(Len(s) - 1) : t[i] = s[i]
      /\ Last(s) = s[Len(s)] /\ Len(s) \in Nat \ {0}
  BY FrontIs
<1> HIDE DEF t
<1>2. /\ Sizes(t) \in Seq(Int) /\ Len(Sizes(t)) = Len(t) /\ TotalSize(t) \in Nat
      /\ \A i \in 1..Len(t) : Sizes(t)[i] = Size(t[i])
  BY <1>1, SizesIs
<1>3. /\ Sizes(s) \in Seq(Int) /\ Len(Sizes(s)) = Len(s)
      /\ \A i \in 1..Len(s) : Sizes(s)[i] = Size(s[i])
  BY SizesIs
<1>4. \A i \in 1..Len(Sizes(t)) : Sizes(s)[i] = Sizes(t)[i]
  <2> SUFFICES ASSUME NEW i \in 1..Len(t) PROVE Sizes(s)[i] = Sizes(t)[i]
    BY <1>2
  <2>1. i \in 1..Len(s) /\ i \in 1..(Len(s) - 1)
    BY <1>1
  <2> QED BY <1>1, <1>2, <1>3, <2>1
<1>5. Total(Sizes(s)) = Total(Sizes(t)) + Sizes(s)[Len(Sizes(s))]
  <2>1. Len(Sizes(s)) = Len(Sizes(t)) + 1
    BY <1>1, <1>2, <1>3
  <2> QED BY <1>2, <1>3, <1>4, <2>1, TotalAppend
<1>6. Sizes(s)[Len(Sizes(s))] = Size(Last(s)) /\ Size(Last(s)) \in Nat
  <2>1. Len(s) \in 1..Len(s) /\ Last(s) \in Items
    BY <1>1
  <2> QED BY <1>1, <1>3, <2>1, ItemParts
<1> QED BY <1>2, <1>5, <1>6 DEF TotalSize, t

LEMMA NoPacketsSize ==
  ASSUME NEW s \in Seq(Items), \A m \in ToSet(s) : m.kind # "packet"
  PROVE  TotalSize(s) = 0
<1>1. /\ Sizes(s) \in Seq(Nat) /\ Len(Sizes(s)) = Len(s) /\ DOMAIN s = 1..Len(s)
      /\ \A i \in 1..Len(s) : Sizes(s)[i] = Size(s[i])
  BY SizesIs
<1>2. \A i \in 1..Len(Sizes(s)) : Sizes(s)[i] = 0
  BY <1>1 DEF ToSet, Size
<1> QED BY <1>1, <1>2, TotalZero DEF TotalSize

-----------------------------------------------------------------------------
(* The methods of a queue                                                  *)

LEMMA GoodParts ==
  ASSUME NEW Q, Good(Q)
  PROVE  /\ Q.m_messages \in Seq(Items) /\ Q.m_prioMessages \in Seq(Items)
         /\ Q.m_iDataSize \in Nat /\ Q.m_iDataSize = TotalSize(Q.m_messages)
         /\ Q.m_bAbortRequest \in BOOLEAN /\ Q.m_bInitialized \in BOOLEAN
         /\ Q.m_drain \in BOOLEAN /\ Q.m_hEvent \in BOOLEAN
         /\ ToSet(Q.m_messages) \subseteq Items /\ ToSet(Q.m_prioMessages) \subseteq Items
         /\ \A m \in ToSet(Q.m_messages) : Ordinary(m)
         /\ \A m \in ToSet(Q.m_prioMessages) : Urgent(m)
         /\ PacketsLast(Q.m_prioMessages)
<1>1. /\ Q.m_messages \in Seq(Items) /\ Q.m_prioMessages \in Seq(Items)
      /\ Q.m_iDataSize \in Nat
      /\ Q.m_bAbortRequest \in BOOLEAN /\ Q.m_bInitialized \in BOOLEAN
      /\ Q.m_drain \in BOOLEAN /\ Q.m_hEvent \in BOOLEAN
  BY DEF Good, QueueType
<1>2. Q.m_iDataSize = TotalSize(Q.m_messages)
  BY DEF Good, DataSize, TotalSize, Sizes
<1>3. \A s \in Seq(Items) : ToSet(s) \subseteq Items
  BY DEF ToSet
<1> QED BY <1>1, <1>2, <1>3 DEF Good

(* A queue is good when it holds the right messages and counts them.       *)
LEMMA GoodFrom ==
  ASSUME NEW R, R \in QueueType,
         \A m \in ToSet(R.m_messages) : Ordinary(m),
         \A m \in ToSet(R.m_prioMessages) : Urgent(m), PacketsLast(R.m_prioMessages),
         R.m_bInitialized \/ (R.m_messages = <<>> /\ R.m_prioMessages = <<>>),
         R.m_iDataSize = TotalSize(R.m_messages)
  PROVE  Good(R)
BY DEF Good, DataSize, TotalSize, Sizes

(* Only flags change.                                                      *)
LEMMA GoodFlags ==
  ASSUME NEW Q, Good(Q), NEW R, R \in QueueType,
         R.m_messages = Q.m_messages, R.m_prioMessages = Q.m_prioMessages,
         R.m_iDataSize = Q.m_iDataSize, Q.m_bInitialized => R.m_bInitialized
  PROVE  Good(R)
BY DEF Good, DataSize

LEMMA EmptyToSet == ToSet(<<>>) = {} /\ PacketsLast(<<>>)
BY DEF ToSet, PacketsLast, InOrder

LEMMA GoodNew == Good(NewQueue) /\ ~NewQueue.m_bInitialized /\ NewQueue.m_messages = <<>>
<1>1. NewQueue \in QueueType
  BY DEF NewQueue, QueueType
<1>2. /\ NewQueue.m_messages = <<>> /\ NewQueue.m_prioMessages = <<>>
      /\ NewQueue.m_iDataSize = 0 /\ ~NewQueue.m_bInitialized
  BY DEF NewQueue
<1> QED BY <1>1, <1>2, GoodFrom, EmptyToSet, EmptySize

LEMMA InitQueueIs ==
  ASSUME NEW Q, Good(Q), ~Q.m_bInitialized, NEW R, R = InitQueue(Q)
  PROVE  /\ Good(R) /\ R.m_messages = <<>> /\ R.m_prioMessages = <<>>
         /\ R.m_bInitialized /\ ~R.m_bAbortRequest /\ R.m_hEvent = Q.m_hEvent
<1>1. Q \in QueueType /\ Q.m_messages = <<>> /\ Q.m_prioMessages = <<>>
  BY DEF Good
<1>2. R \in QueueType
  BY <1>1 DEF InitQueue, QueueType
<1>3. /\ R.m_messages = <<>> /\ R.m_prioMessages = <<>> /\ R.m_iDataSize = 0
      /\ R.m_bInitialized /\ ~R.m_bAbortRequest /\ R.m_hEvent = Q.m_hEvent
  BY <1>1 DEF InitQueue, QueueType
<1> QED BY <1>2, <1>3, GoodFrom, EmptyToSet, EmptySize

LEMMA EndIs ==
  ASSUME NEW Q, Good(Q), NEW R, R = End(Q)
  PROVE  /\ Good(R) /\ R.m_messages = <<>> /\ R.m_prioMessages = <<>>
         /\ ~R.m_bInitialized /\ ~R.m_bAbortRequest
<1>1. Q \in QueueType /\ <<>> \in Seq(Items)
  BY DEF Good
<1>2. R \in QueueType
  <2> DEFINE I == Seq(Items)
  <2>1. <<>> \in I
    BY <1>1
  <2> HIDE DEF I
  <2> QED BY <1>1, <2>1 DEF End, QueueType, I
<1>3. /\ R.m_messages = <<>> /\ R.m_prioMessages = <<>> /\ R.m_iDataSize = 0
      /\ ~R.m_bInitialized /\ ~R.m_bAbortRequest
  BY <1>1 DEF End, QueueType
<1> QED BY <1>2, <1>3, GoodFrom, EmptyToSet, EmptySize

LEMMA AbortIs ==
  ASSUME NEW Q, Good(Q), NEW R, R = Abort(Q)
  PROVE  /\ Good(R) /\ R.m_messages = Q.m_messages /\ R.m_prioMessages = Q.m_prioMessages
         /\ R.m_bInitialized = Q.m_bInitialized /\ R.m_hEvent
<1>1. Q \in QueueType
  BY DEF Good
<1>2. /\ R \in QueueType /\ R.m_iDataSize = Q.m_iDataSize
      /\ R.m_messages = Q.m_messages /\ R.m_prioMessages = Q.m_prioMessages
      /\ R.m_bInitialized = Q.m_bInitialized /\ R.m_hEvent
  BY <1>1 DEF Abort, QueueType
<1> QED BY <1>2, GoodFlags

(* m_drain and the event tell nothing of what is queued.                   *)
LEMMA EventIs ==
  ASSUME NEW Q, Good(Q), NEW b \in BOOLEAN, NEW R, R = [Q EXCEPT !.m_hEvent = b]
  PROVE  /\ Good(R) /\ R.m_messages = Q.m_messages /\ R.m_prioMessages = Q.m_prioMessages
         /\ R.m_bInitialized = Q.m_bInitialized /\ R.m_hEvent = b
         /\ R.m_bAbortRequest = Q.m_bAbortRequest /\ R.m_drain = Q.m_drain
<1>1. Q \in QueueType
  BY DEF Good
<1>2. R \in QueueType
  BY <1>1 DEF QueueType
<1>3. /\ R.m_iDataSize = Q.m_iDataSize
      /\ R.m_messages = Q.m_messages /\ R.m_prioMessages = Q.m_prioMessages
      /\ R.m_bInitialized = Q.m_bInitialized /\ R.m_hEvent = b
      /\ R.m_bAbortRequest = Q.m_bAbortRequest /\ R.m_drain = Q.m_drain
  BY <1>1 DEF QueueType
<1>4. Good(R)
  BY <1>2, <1>3, GoodFlags
<1> QED BY <1>3, <1>4

LEMMA DrainIs ==
  ASSUME NEW Q, Good(Q), NEW b \in BOOLEAN, NEW R, R = [Q EXCEPT !.m_drain = b]
  PROVE  /\ Good(R) /\ R.m_messages = Q.m_messages /\ R.m_prioMessages = Q.m_prioMessages
         /\ R.m_bInitialized = Q.m_bInitialized /\ R.m_hEvent = Q.m_hEvent
         /\ R.m_bAbortRequest = Q.m_bAbortRequest
<1>1. Q \in QueueType
  BY DEF Good
<1>2. R \in QueueType
  BY <1>1 DEF QueueType
<1>3. /\ R.m_iDataSize = Q.m_iDataSize
      /\ R.m_messages = Q.m_messages /\ R.m_prioMessages = Q.m_prioMessages
      /\ R.m_bInitialized = Q.m_bInitialized /\ R.m_hEvent = Q.m_hEvent
      /\ R.m_bAbortRequest = Q.m_bAbortRequest
  BY <1>1 DEF QueueType
<1>4. Good(R)
  BY <1>2, <1>3, GoodFlags
<1> QED BY <1>3, <1>4

(* Flush leaves no packet and every other message, in its order.           *)
LEMMA FlushIs ==
  ASSUME NEW Q, Good(Q), NEW R, R = Flush(Q)
  PROVE  /\ Good(R)
         /\ ToSet(R.m_messages) = {m \in ToSet(Q.m_messages) : m.kind # "packet"}
         /\ ToSet(R.m_prioMessages) = {m \in ToSet(Q.m_prioMessages) : m.kind # "packet"}
         /\ \A a, b : InOrder(R.m_messages, a, b) => InOrder(Q.m_messages, a, b)
         /\ \A a, b : InOrder(R.m_prioMessages, a, b) => InOrder(Q.m_prioMessages, a, b)
         /\ Q.m_messages = <<>> => R.m_messages = <<>>
         /\ Q.m_prioMessages = <<>> => R.m_prioMessages = <<>>
         /\ R.m_bInitialized = Q.m_bInitialized /\ R.m_hEvent = Q.m_hEvent
         /\ R.m_bAbortRequest = Q.m_bAbortRequest
<1> DEFINE s == Q.m_messages
           t == Q.m_prioMessages
           K == {i \in ToSet(s) : i.kind # "packet"}
           L == {i \in ToSet(t) : i.kind # "packet"}
           u == Kept(s, K)
           v == Kept(t, L)
<1>0. Q \in QueueType /\ s \in Seq(Items) /\ t \in Seq(Items)
  BY GoodParts DEF Good
<1>1. /\ u \in Seq(Items) /\ ToSet(u) = ToSet(s) \cap K
      /\ \A a, b : InOrder(u, a, b) => InOrder(s, a, b)
  <2> HIDE DEF s, K
  <2> QED BY <1>0, KeptElements, KeptOrder
<1>2. /\ v \in Seq(Items) /\ ToSet(v) = ToSet(t) \cap L
      /\ \A a, b : InOrder(v, a, b) => InOrder(t, a, b)
  <2> HIDE DEF t, L
  <2> QED BY <1>0, KeptElements, KeptOrder
<1>3. ToSet(u) = {m \in ToSet(s) : m.kind # "packet"}
  BY <1>1
<1>4. ToSet(v) = {m \in ToSet(t) : m.kind # "packet"}
  BY <1>2
<1>5. R = [Q EXCEPT !.m_messages = u, !.m_prioMessages = v, !.m_iDataSize = 0]
  BY DEF Flush
<1> HIDE DEF u, v, s, t, K, L
<1>6. /\ R \in QueueType /\ R.m_messages = u /\ R.m_prioMessages = v /\ R.m_iDataSize = 0
      /\ R.m_bInitialized = Q.m_bInitialized /\ R.m_hEvent = Q.m_hEvent
      /\ R.m_bAbortRequest = Q.m_bAbortRequest
  <2>1. u \in Seq(Items) /\ v \in Seq(Items) /\ 0 \in Nat
    BY <1>1, <1>2
  <2>2. Q \in QueueType
    BY <1>0
  <2>3. R \in QueueType
    BY <1>5, <2>1, <2>2 DEF QueueType
  <2>4. /\ R.m_messages = u /\ R.m_prioMessages = v /\ R.m_iDataSize = 0
        /\ R.m_bInitialized = Q.m_bInitialized /\ R.m_hEvent = Q.m_hEvent
        /\ R.m_bAbortRequest = Q.m_bAbortRequest
    BY <1>5, <2>2 DEF QueueType
  <2> QED BY <2>3, <2>4
<1>7. \A w \in Seq(Items) : ToSet(w) = {} => w = <<>>
  BY EmptySeq DEF ToSet
<1>8. /\ s = <<>> => u = <<>>
      /\ t = <<>> => v = <<>>
  BY <1>1, <1>2, <1>3, <1>4, <1>7, EmptyToSet
<1>9. TotalSize(u) = 0
  BY <1>1, <1>3, NoPacketsSize
<1>10. Q.m_bInitialized \/ (s = <<>> /\ t = <<>>)
  BY DEF Good, s, t
<1>11. Good(R)
  <2>1. \A m \in ToSet(u) : Ordinary(m)
    BY <1>3, GoodParts DEF s
  <2>2. \A m \in ToSet(v) : Urgent(m)
    BY <1>4, GoodParts DEF t
  <2>3. PacketsLast(v)
    BY <1>2, GoodParts DEF PacketsLast, t
  <2> QED BY <1>6, <1>8, <1>9, <1>10, <2>1, <2>2, <2>3, GoodFrom
<1> QED BY <1>1, <1>2, <1>3, <1>4, <1>6, <1>8, <1>11 DEF s, t

(* Put, for an ordinary message: it comes before all others.               *)
LEMMA PutIs ==
  ASSUME NEW Q, Good(Q), Q.m_bInitialized, NEW item \in Items,
         item.kind \in {"packet", "sync"}, NEW R, R = Put(Q, item, 0)
  PROVE  /\ Good(R) /\ R.m_messages = <<[item EXCEPT !.priority = 0]>> \o Q.m_messages
         /\ R.m_prioMessages = Q.m_prioMessages
         /\ R.m_bInitialized /\ R.m_hEvent /\ R.m_bAbortRequest = Q.m_bAbortRequest
<1> DEFINE it == [item EXCEPT !.priority = 0]
           s == Q.m_messages
           u == <<it>> \o s
           d == TotalSize(u)
<1>1. Q \in QueueType /\ s \in Seq(Items) /\ Q.m_iDataSize = TotalSize(s)
  BY GoodParts DEF Good
<1>2. /\ it \in Items /\ it.kind = item.kind /\ it.n = item.n /\ it.priority = 0
      /\ Size(it) \in Nat /\ Size(it) = Size(item)
  <2>1. it \in Items /\ it.kind = item.kind /\ it.n = item.n /\ it.priority = 0
    BY ItemParts
  <2> HIDE DEF it
  <2> QED BY <2>1, ItemParts DEF Size
<1> HIDE DEF it, s
<1>3. u \in Seq(Items) /\ ToSet(u) = ToSet(s) \cup {it} /\ d \in Nat
  BY <1>1, <1>2, PrependOrder, SizesIs
<1>4. d = (IF s = <<>> THEN 0 ELSE Q.m_iDataSize) + Size(item)
  <2>1. d = TotalSize(s) + Size(it)
    BY <1>1, <1>2, PrependSize
  <2>2. TotalSize(s) = IF s = <<>> THEN 0 ELSE Q.m_iDataSize
    BY <1>1, EmptySize
  <2> QED BY <1>2, <2>1, <2>2
<1>5. R = [Q EXCEPT !.m_messages = u, !.m_iDataSize = d, !.m_hEvent = TRUE]
  <2>1. R = [Q EXCEPT !.m_messages = <<it>> \o @,
                      !.m_iDataSize = (IF Q.m_messages = <<>> THEN 0 ELSE @) + Size(item),
                      !.m_hEvent = TRUE]
    BY DEF Put, PutItem, it
  <2> HIDE DEF d
  <2> QED BY <1>4, <2>1 DEF s
<1> HIDE DEF u, d
<1>6. R \in QueueType
  BY <1>1, <1>3, <1>5 DEF QueueType
<1>7. /\ R.m_messages = u /\ R.m_iDataSize = d /\ R.m_hEvent
      /\ R.m_prioMessages = Q.m_prioMessages /\ R.m_bInitialized
      /\ R.m_bAbortRequest = Q.m_bAbortRequest
  BY <1>1, <1>5 DEF QueueType
<1>8. \A m \in ToSet(u) : Ordinary(m)
  BY <1>2, <1>3, GoodParts DEF s, Ordinary
<1>9. (\A m \in ToSet(Q.m_prioMessages) : Urgent(m)) /\ PacketsLast(Q.m_prioMessages)
  BY GoodParts
<1>10. Good(R)
  BY <1>6, <1>7, <1>8, <1>9, GoodFrom DEF d
<1> QED BY <1>7, <1>10 DEF u, s, it

(* PutBack: it comes after all others.                                     *)
LEMMA PutBackIs ==
  ASSUME NEW Q, Good(Q), Q.m_bInitialized, NEW item \in Items,
         item.kind \in {"packet", "sync"}, NEW R, R = PutBack(Q, item, 0)
  PROVE  /\ Good(R) /\ R.m_messages = Append(Q.m_messages, [item EXCEPT !.priority = 0])
         /\ R.m_prioMessages = Q.m_prioMessages
         /\ R.m_bInitialized /\ R.m_hEvent /\ R.m_bAbortRequest = Q.m_bAbortRequest
<1> DEFINE it == [item EXCEPT !.priority = 0]
           s == Q.m_messages
           u == Append(s, it)
           d == TotalSize(u)
<1>1. Q \in QueueType /\ s \in Seq(Items) /\ Q.m_iDataSize = TotalSize(s)
  BY GoodParts DEF Good
<1>2. /\ it \in Items /\ it.kind = item.kind /\ it.n = item.n /\ it.priority = 0
      /\ Size(it) \in Nat /\ Size(it) = Size(item)
  <2>1. it \in Items /\ it.kind = item.kind /\ it.n = item.n /\ it.priority = 0
    BY ItemParts
  <2> HIDE DEF it
  <2> QED BY <2>1, ItemParts DEF Size
<1> HIDE DEF it, s
<1>3. u \in Seq(Items) /\ ToSet(u) = ToSet(s) \cup {it} /\ d \in Nat
  <2>1. u \in Seq(Items) /\ ToSet(u) = ToSet(s) \cup {it}
    BY <1>1, <1>2, AppendElements
  <2> QED BY <2>1, SizesIs
<1>4. d = (IF s = <<>> THEN 0 ELSE Q.m_iDataSize) + Size(item)
  <2>1. d = TotalSize(s) + Size(it)
    BY <1>1, <1>2, AppendSize
  <2>2. TotalSize(s) = IF s = <<>> THEN 0 ELSE Q.m_iDataSize
    BY <1>1, EmptySize
  <2> QED BY <1>2, <2>1, <2>2
<1>5. R = [Q EXCEPT !.m_messages = u, !.m_iDataSize = d, !.m_hEvent = TRUE]
  <2>1. R = [Q EXCEPT !.m_messages = Append(@, it),
                      !.m_iDataSize = (IF Q.m_messages = <<>> THEN 0 ELSE @) + Size(item),
                      !.m_hEvent = TRUE]
    BY DEF PutBack, PutItem, it
  <2> HIDE DEF d
  <2> QED BY <1>4, <2>1 DEF s
<1> HIDE DEF u, d
<1>6. R \in QueueType
  BY <1>1, <1>3, <1>5 DEF QueueType
<1>7. /\ R.m_messages = u /\ R.m_iDataSize = d /\ R.m_hEvent
      /\ R.m_prioMessages = Q.m_prioMessages /\ R.m_bInitialized
      /\ R.m_bAbortRequest = Q.m_bAbortRequest
  BY <1>1, <1>5 DEF QueueType
<1>8. \A m \in ToSet(u) : Ordinary(m)
  BY <1>2, <1>3, GoodParts DEF s, Ordinary
<1>9. (\A m \in ToSet(Q.m_prioMessages) : Urgent(m)) /\ PacketsLast(Q.m_prioMessages)
  BY GoodParts
<1>10. Good(R)
  BY <1>6, <1>7, <1>8, <1>9, GoodFrom DEF d
<1> QED BY <1>7, <1>10 DEF u, s, it

(* All urgent messages have at least priority 1: a new one comes before.   *)
LEMMA InsertFirst ==
  ASSUME NEW s \in Seq(Items), \A m \in ToSet(s) : Urgent(m), NEW e \in Items
  PROVE  InsertAt(s, Place(s, 1), e) = <<e>> \o s
<1>1. Place(s, 1) = 1
  <2> DEFINE after == {i \in DOMAIN s : 1 <= s[i].priority}
  <2>1. \A i \in DOMAIN s : s[i].priority = 1 \/ s[i].priority = 10
    BY DEF ToSet, Urgent
  <2>2. \A i \in DOMAIN s : 1 <= s[i].priority
    BY <2>1
  <2>3. after = DOMAIN s
    BY <2>2
  <2>4. Place(s, 1) = IF after = {} THEN Len(s) + 1 ELSE Min(after)
    BY DEF Place
  <2>5. Len(s) \in Nat /\ DOMAIN s = 1..Len(s)
    OBVIOUS
  <2> HIDE DEF after
  <2>6. CASE Len(s) = 0
    BY <2>3, <2>4, <2>5, <2>6
  <2>7. CASE Len(s) # 0
    <3>1. 1 \in DOMAIN s /\ \A y \in DOMAIN s : 1 <= y
      BY <2>5, <2>7
    <3>2. PICK m : m = Min(DOMAIN s)
      OBVIOUS
    <3>3. m \in DOMAIN s /\ \A y \in DOMAIN s : m <= y
      BY <3>1, <3>2 DEF Min
    <3>4. m <= 1 /\ 1 <= m /\ m \in Nat
      BY <2>5, <3>1, <3>3
    <3>5. m = 1
      BY <3>4
    <3> QED BY <2>3, <2>4, <3>1, <3>2, <3>5
  <2> QED BY <2>6, <2>7
<1>2. SubSeq(s, 1, 0) = <<>> /\ SubSeq(s, 1, Len(s)) = s
  OBVIOUS
<1>3. <<>> \o <<e>> = <<e>>
  OBVIOUS
<1> QED BY <1>1, <1>2, <1>3 DEF InsertAt

(* Put, for an urgent message.                                             *)
LEMMA PutUrgentIs ==
  ASSUME NEW Q, Good(Q), Q.m_bInitialized, NEW item \in Items,
         item.kind \in {"flush", "sync"}, NEW R, R = Put(Q, item, 1)
  PROVE  /\ Good(R) /\ R.m_prioMessages = <<[item EXCEPT !.priority = 1]>> \o Q.m_prioMessages
         /\ R.m_messages = Q.m_messages
         /\ R.m_bInitialized /\ R.m_hEvent /\ R.m_bAbortRequest = Q.m_bAbortRequest
<1> DEFINE it == [item EXCEPT !.priority = 1]
           s == Q.m_prioMessages
           u == <<it>> \o s
<1>1. Q \in QueueType /\ s \in Seq(Items) /\ Q.m_iDataSize = TotalSize(Q.m_messages)
      /\ (\A m \in ToSet(s) : Urgent(m)) /\ PacketsLast(s)
  BY GoodParts DEF Good
<1>2. it \in Items /\ it.kind = item.kind /\ it.priority = 1
  BY ItemParts
<1> HIDE DEF it, s
<1>3. /\ u \in Seq(Items) /\ ToSet(u) = ToSet(s) \cup {it}
      /\ \A a, b : InOrder(u, a, b) => InOrder(s, a, b) \/ a = it
  BY <1>1, <1>2, PrependOrder
<1>4. R = [Q EXCEPT !.m_prioMessages = u, !.m_hEvent = TRUE]
  <2>1. R = [Q EXCEPT !.m_prioMessages = InsertAt(@, Place(@, 1), it), !.m_hEvent = TRUE]
    BY DEF Put, PutItem, it
  <2>2. InsertAt(s, Place(s, 1), it) = u
    BY <1>1, <1>2, InsertFirst
  <2> QED BY <2>1, <2>2 DEF s
<1> HIDE DEF u
<1>5. R \in QueueType
  BY <1>1, <1>3, <1>4 DEF QueueType
<1>6. /\ R.m_prioMessages = u /\ R.m_hEvent /\ R.m_iDataSize = Q.m_iDataSize
      /\ R.m_messages = Q.m_messages /\ R.m_bInitialized
      /\ R.m_bAbortRequest = Q.m_bAbortRequest
  BY <1>1, <1>4 DEF QueueType
<1>7. (\A m \in ToSet(u) : Urgent(m)) /\ PacketsLast(u)
  BY <1>1, <1>2, <1>3 DEF Urgent, PacketsLast
<1>8. \A m \in ToSet(Q.m_messages) : Ordinary(m)
  BY GoodParts
<1>9. Good(R)
  BY <1>1, <1>5, <1>6, <1>7, <1>8, GoodFrom
<1> QED BY <1>6, <1>9 DEF u, s, it

LEMMA LeastIs ==
  ASSUME NEW U, U \subseteq Nat, U # {}
  PROVE  Min(U) \in U /\ \A i \in U : Min(U) <= i
<1> DEFINE R == OpToRel(<, Nat)
<1>1. PICK m \in U : \A j \in U : <<j, m>> \notin R
  <2>1. IsWellFoundedOn(R, Nat)
    BY NatLessThanWellFounded
  <2>2. U \subseteq Nat /\ U # {}
    OBVIOUS
  <2> HIDE DEF R
  <2> QED BY <2>1, <2>2, WFMin, Zenon
<1>2. ASSUME NEW j \in U PROVE m <= j
  <2>1. j \in Nat /\ m \in Nat /\ <<j, m>> \notin R
    BY <1>1
  <2>2. j < m => <<j, m>> \in R
    BY <2>1, SMT DEF OpToRel
  <2> HIDE DEF R
  <2> QED BY <2>1, <2>2
<1> QED BY <1>2 DEF Min

Inserted(s, e) == InsertAt(s, Place(s, 10), e)

(* A packet to be decoded again comes behind all that is no packet.        *)
LEMMA InsertAgain ==
  ASSUME NEW s \in Seq(Items), \A m \in ToSet(s) : Urgent(m), PacketsLast(s),
         NEW e \in Items, e.kind = "packet"
  PROVE  /\ Inserted(s, e) \in Seq(Items) /\ ToSet(Inserted(s, e)) = ToSet(s) \cup {e}
         /\ \A a, b : InOrder(Inserted(s, e), a, b) =>
                InOrder(s, a, b) \/ b = e \/ (a = e /\ b.kind = "packet")
<1> DEFINE u == Inserted(s, e)
           n == Len(s)
           p == Place(s, 10)
           after == {i \in DOMAIN s : 10 <= s[i].priority}
           x == SubSeq(s, 1, p - 1)
           y == SubSeq(s, p, n)
<1>1. n \in Nat /\ DOMAIN s = 1..n /\ \A i \in 1..n : s[i] \in Items
  OBVIOUS
<1>2. p \in 1..(n + 1) /\ \A i \in 1..n : p <= i => s[i].kind = "packet"
  <2>1. p = IF after = {} THEN n + 1 ELSE Min(after)
    BY DEF Place
  <2>2. CASE after = {}
    BY <1>1, <2>1, <2>2
  <2>3. CASE after # {}
    <3>1. after \subseteq Nat
      BY <1>1
    <3>2. Min(after) \in after /\ \A i \in after : Min(after) <= i
      <4> HIDE DEF after
      <4> QED BY <2>3, <3>1, LeastIs
    <3>3. p \in 1..n /\ 10 <= s[p].priority
      BY <1>1, <2>1, <2>3, <3>2
    <3>4. s[p].kind = "packet"
      BY <1>1, <3>3 DEF Urgent, ToSet
    <3>5. ASSUME NEW i \in 1..n, p < i PROVE s[i].kind = "packet"
      <4>1. InOrder(s, s[p], s[i])
        BY <1>1, <3>3, <3>5 DEF InOrder
      <4> QED BY <3>4, <4>1 DEF PacketsLast
    <3> HIDE DEF p
    <3> QED BY <1>1, <3>3, <3>4, <3>5
  <2> QED BY <2>2, <2>3
<1> HIDE DEF p, after, n, u
<1>3. /\ u \in Seq(Items) /\ Len(u) = n + 1 /\ DOMAIN u = 1..(n + 1)
      /\ u[p] = e
      /\ \A i \in 1..(n + 1) : i < p => i \in 1..n /\ u[i] = s[i]
      /\ \A i \in 1..(n + 1) : i > p => i - 1 \in 1..n /\ u[i] = s[i - 1]
  <2>1. x \in Seq(Items) /\ Len(x) = p - 1 /\ \A i \in 1..(p - 1) : x[i] = s[i]
    BY <1>1, <1>2, SubSeqProperties DEF n
  <2>2. y \in Seq(Items) /\ Len(y) = n - p + 1 /\ \A i \in 1..(n - p + 1) : y[i] = s[p + i - 1]
    BY <1>1, <1>2, SubSeqProperties DEF n
  <2>3. u = x \o <<e>> \o y
    BY DEF u, Inserted, InsertAt, n, p
  <2> HIDE DEF x, y
  <2>4. /\ x \o <<e>> \in Seq(Items) /\ Len(x \o <<e>>) = p
        /\ (x \o <<e>>)[p] = e /\ \A i \in 1..(p - 1) : (x \o <<e>>)[i] = s[i]
    <3>1. <<e>> \in Seq(Items) /\ Len(<<e>>) = 1 /\ <<e>>[1] = e
      OBVIOUS
    <3>2. /\ x \o <<e>> \in Seq(Items) /\ Len(x \o <<e>>) = Len(x) + 1
          /\ \A i \in 1..(Len(x) + 1) :
               (x \o <<e>>)[i] = IF i <= Len(x) THEN x[i] ELSE <<e>>[i - Len(x)]
      BY <2>1, <3>1, ConcatProperties
    <3>3. n \in Nat /\ p \in 1..(n + 1)
      BY <1>1, <1>2
    <3>4. p \in Nat /\ p \in 1..(Len(x) + 1) /\ ~(p <= Len(x)) /\ p - Len(x) = 1 /\ Len(x) + 1 = p
      BY <2>1, <3>3
    <3>5. (x \o <<e>>)[p] = e
      BY <3>1, <3>2, <3>4
    <3>6. ASSUME NEW i \in 1..(p - 1) PROVE (x \o <<e>>)[i] = s[i]
      <4>1. i \in 1..(Len(x) + 1) /\ i <= Len(x)
        BY <2>1, <3>4
      <4>2. (x \o <<e>>)[i] = x[i]
        BY <3>2, <4>1
      <4> QED BY <2>1, <4>2
    <3> QED BY <3>2, <3>4, <3>5, <3>6
  <2>5. PICK z \in Seq(Items) : z = x \o <<e>>
    BY <2>4
  <2>6. /\ u \in Seq(Items) /\ Len(u) = Len(z) + Len(y)
        /\ \A i \in 1..(Len(z) + Len(y)) : u[i] = IF i <= Len(z) THEN z[i] ELSE y[i - Len(z)]
    <3>1. u = z \o y
      <4>1. u = (x \o <<e>>) \o y
        BY <2>1, <2>2, <2>3
      <4> QED BY <2>5, <4>1
    <3>2. /\ z \o y \in Seq(Items) /\ Len(z \o y) = Len(z) + Len(y)
          /\ \A i \in 1..(Len(z) + Len(y)) :
               (z \o y)[i] = IF i <= Len(z) THEN z[i] ELSE y[i - Len(z)]
      BY <2>2, ConcatProperties
    <3> QED BY <3>1, <3>2
  <2>7. Len(u) = n + 1 /\ DOMAIN u = 1..(n + 1)
    <3>1. Len(z) = p /\ Len(y) = n - p + 1 /\ n \in Nat /\ p \in Nat
      BY <1>1, <1>2, <2>2, <2>4, <2>5
    <3>2. Len(u) = n + 1
      BY <2>6, <3>1
    <3>3. DOMAIN u = 1..Len(u)
      BY <2>6
    <3> QED BY <3>2, <3>3
  <2>8. u[p] = e
    <3>1. p \in 1..(Len(z) + Len(y)) /\ p <= Len(z)
      BY <1>1, <1>2, <2>2, <2>4, <2>5
    <3>2. u[p] = z[p]
      BY <2>6, <3>1
    <3> QED BY <2>4, <2>5, <3>2
  <2>9. ASSUME NEW i \in 1..(n + 1), i < p PROVE i \in 1..n /\ u[i] = s[i]
    <3>1. i \in 1..n /\ i \in 1..(p - 1) /\ i <= p /\ i \in 1..(Len(z) + Len(y))
      BY <1>1, <1>2, <2>2, <2>4, <2>5, <2>9
    <3>2. u[i] = z[i]
      BY <2>4, <2>5, <2>6, <3>1
    <3> QED BY <2>4, <2>5, <3>1, <3>2
  <2>10. ASSUME NEW i \in 1..(n + 1), i > p PROVE i - 1 \in 1..n /\ u[i] = s[i - 1]
    <3>1. i - p \in 1..(n - p + 1) /\ i - 1 \in 1..n /\ p + (i - p) - 1 = i - 1
      BY <1>1, <1>2, <2>10
    <3>2. i \in 1..(Len(z) + Len(y)) /\ ~(i <= Len(z)) /\ Len(z) = p
      BY <1>1, <1>2, <2>2, <2>4, <2>5, <2>10
    <3>3. u[i] = y[i - p]
      BY <2>6, <3>2
    <3> QED BY <2>2, <3>1, <3>3
  <2> QED BY <2>6, <2>7, <2>8, <2>9, <2>10
<1>4. ToSet(u) \subseteq ToSet(s) \cup {e}
  <2> SUFFICES ASSUME NEW i \in 1..(n + 1) PROVE u[i] \in ToSet(s) \cup {e}
    BY <1>3 DEF ToSet
  <2>1. i < p \/ i = p \/ i > p
    BY <1>1, <1>2
  <2> QED BY <1>1, <1>3, <2>1 DEF ToSet
<1>5. ToSet(s) \cup {e} \subseteq ToSet(u)
  <2>1. e \in ToSet(u)
    BY <1>2, <1>3 DEF ToSet
  <2>2. ASSUME NEW i \in 1..n PROVE s[i] \in ToSet(u)
    <3>1. CASE i < p
      <4>1. i \in 1..(n + 1)
        BY <1>1
      <4> QED BY <1>3, <3>1, <4>1 DEF ToSet
    <3>2. CASE ~(i < p)
      <4>1. i + 1 \in 1..(n + 1) /\ i + 1 > p /\ (i + 1) - 1 = i
        BY <1>1, <1>2, <3>2
      <4>2. u[i + 1] = s[i]
        BY <1>3, <4>1
      <4> QED BY <1>3, <4>1, <4>2 DEF ToSet
    <3> QED BY <3>1, <3>2
  <2> QED BY <1>1, <2>1, <2>2 DEF ToSet
<1>6. ASSUME NEW a, NEW b, InOrder(u, a, b)
      PROVE  InOrder(s, a, b) \/ b = e \/ (a = e /\ b.kind = "packet")
  <2>1. PICK i \in 1..(n + 1), j \in 1..(n + 1) : i < j /\ u[i] = a /\ u[j] = b
    BY <1>3, <1>6 DEF InOrder
  <2>2. CASE j = p
    BY <1>3, <2>1, <2>2
  <2>3. CASE i = p
    <3>1. j > p /\ p <= j - 1
      BY <1>2, <2>1, <2>3
    <3> QED BY <1>2, <1>3, <2>1, <2>3, <3>1
  <2>4. CASE j < p
    <3>1. i < p
      BY <1>2, <2>1, <2>4
    <3> QED BY <1>1, <1>3, <2>1, <2>4, <3>1 DEF InOrder
  <2>5. CASE i < p /\ j > p
    <3>1. i < j - 1
      BY <1>2, <2>1, <2>5
    <3> QED BY <1>1, <1>3, <2>1, <2>5, <3>1 DEF InOrder
  <2>6. CASE i > p
    <3>1. j > p /\ i - 1 < j - 1
      BY <1>2, <2>1, <2>6
    <3> QED BY <1>1, <1>3, <2>1, <2>6, <3>1 DEF InOrder
  <2> QED BY <1>2, <2>2, <2>3, <2>4, <2>5, <2>6
<1> QED BY <1>3, <1>4, <1>5, <1>6 DEF u

(* Put, for a packet to be decoded again.                                  *)
LEMMA PutAgainIs ==
  ASSUME NEW Q, Good(Q), Q.m_bInitialized, NEW item \in Items, item.kind = "packet",
         NEW R, R = Put(Q, item, 10), NEW it, it = [item EXCEPT !.priority = 10]
  PROVE  /\ Good(R) /\ ToSet(R.m_prioMessages) = ToSet(Q.m_prioMessages) \cup {it}
         /\ \A a, b : InOrder(R.m_prioMessages, a, b) =>
                InOrder(Q.m_prioMessages, a, b) \/ b = it \/ (a = it /\ b.kind = "packet")
         /\ R.m_messages = Q.m_messages
         /\ R.m_bInitialized /\ R.m_hEvent /\ R.m_bAbortRequest = Q.m_bAbortRequest
<1> DEFINE s == Q.m_prioMessages
           u == Inserted(s, it)
<1>1. Q \in QueueType /\ s \in Seq(Items) /\ Q.m_iDataSize = TotalSize(Q.m_messages)
      /\ (\A m \in ToSet(s) : Urgent(m)) /\ PacketsLast(s)
  BY GoodParts DEF Good
<1>2. it \in Items /\ it.kind = "packet" /\ it.priority = 10
  BY ItemParts
<1>3. R = [Q EXCEPT !.m_prioMessages = u, !.m_hEvent = TRUE]
  BY DEF Put, PutItem, Inserted
<1> HIDE DEF u, s
<1>4. /\ u \in Seq(Items) /\ ToSet(u) = ToSet(s) \cup {it}
      /\ \A a, b : InOrder(u, a, b) =>
             InOrder(s, a, b) \/ b = it \/ (a = it /\ b.kind = "packet")
  BY <1>1, <1>2, InsertAgain DEF u
<1>5. R \in QueueType
  BY <1>1, <1>3, <1>4 DEF QueueType
<1>6. /\ R.m_prioMessages = u /\ R.m_hEvent /\ R.m_iDataSize = Q.m_iDataSize
      /\ R.m_messages = Q.m_messages /\ R.m_bInitialized
      /\ R.m_bAbortRequest = Q.m_bAbortRequest
  BY <1>1, <1>3 DEF QueueType
<1>7. (\A m \in ToSet(u) : Urgent(m)) /\ PacketsLast(u)
  BY <1>1, <1>2, <1>4 DEF Urgent, PacketsLast
<1>8. \A m \in ToSet(Q.m_messages) : Ordinary(m)
  BY GoodParts
<1>9. Good(R)
  BY <1>1, <1>5, <1>6, <1>7, <1>8, GoodFrom
<1> QED BY <1>4, <1>6, <1>9 DEF s

(* A closed queue takes nothing.                                           *)
LEMMA ClosedIs ==
  ASSUME NEW Q, ~Q.m_bInitialized, NEW item, NEW p
  PROVE  Put(Q, item, p) = Q /\ PutBack(Q, item, p) = Q
BY DEF Put, PutBack, PutItem

(* Get finds nothing only when there is nothing ...                        *)
LEMMA ReadyIs ==
  ASSUME NEW Q, Good(Q), NEW p \in {0, 1}
  PROVE  Ready(Q, p) <=> List(Q, p) # <<>>
<1>1. SUFFICES ASSUME List(Q, p) # <<>>
               PROVE  Last(List(Q, p)).priority >= p
  BY DEF Ready
<1>2. CASE List(Q, p) = Q.m_prioMessages
  <2>1. Last(Q.m_prioMessages) \in ToSet(Q.m_prioMessages)
    <3>1. Q.m_prioMessages \in Seq(Items)
      BY GoodParts
    <3>2. Q.m_prioMessages # <<>>
      BY <1>1, <1>2
    <3>3. ToSet(Q.m_prioMessages) = ToSet(Front(Q.m_prioMessages)) \cup {Last(Q.m_prioMessages)}
      BY <3>1, <3>2, FrontOrder
    <3> QED BY <3>3
  <2>2. Urgent(Last(Q.m_prioMessages))
    BY <2>1, GoodParts
  <2>3. Last(Q.m_prioMessages).priority \in {1, 10}
    BY <2>2 DEF Urgent
  <2> QED BY <1>2, <2>3
<1>3. CASE p = 0 /\ List(Q, p) = Q.m_messages
  <2>1. Last(Q.m_messages) \in ToSet(Q.m_messages)
    <3>1. Q.m_messages \in Seq(Items)
      BY GoodParts
    <3>2. Q.m_messages # <<>>
      BY <1>1, <1>3
    <3>3. ToSet(Q.m_messages) = ToSet(Front(Q.m_messages)) \cup {Last(Q.m_messages)}
      BY <3>1, <3>2, FrontOrder
    <3> QED BY <3>3
  <2>2. Last(Q.m_messages).priority = 0
    BY <2>1, GoodParts DEF Ordinary
  <2> QED BY <1>3, <2>2
<1> QED BY <1>2, <1>3 DEF List

(* ... and takes the last of the urgent messages, or, when it may and      *)
(* there are none, the last of the others.                                 *)
LEMMA TakeIs ==
  ASSUME NEW Q, Good(Q), Q.m_bInitialized, NEW p \in {0, 1}, Ready(Q, p),
         NEW R, R = AfterTake(Q, p), NEW it, it = Taken(Q, p)
  PROVE  /\ Good(R) /\ it \in Items
         /\ \/ /\ Q.m_prioMessages # <<>> /\ it = Last(Q.m_prioMessages)
               /\ R.m_prioMessages = Front(Q.m_prioMessages) /\ R.m_messages = Q.m_messages
            \/ /\ Q.m_prioMessages = <<>> /\ Q.m_messages # <<>> /\ it = Last(Q.m_messages)
               /\ R.m_messages = Front(Q.m_messages) /\ R.m_prioMessages = <<>>
         /\ R.m_bInitialized
<1>1. Q \in QueueType /\ List(Q, p) # <<>>
  BY ReadyIs DEF Good
<1>2. CASE List(Q, p) = Q.m_prioMessages
  <2> DEFINE s == Q.m_prioMessages
             t == Front(s)
  <2>1. s \in Seq(Items) /\ s # <<>>
    BY <1>1, <1>2, GoodParts
  <2>2. /\ t \in Seq(Items) /\ Last(s) \in Items /\ ToSet(s) = ToSet(t) \cup {Last(s)}
        /\ \A a, b : InOrder(t, a, b) => InOrder(s, a, b)
    <3> HIDE DEF s
    <3> QED BY <2>1, FrontOrder
  <2>3. it = Last(s)
    BY <1>2 DEF Taken
  <2>4. it.priority > 0
    BY <2>2, <2>3, GoodParts DEF Urgent
  <2>5. R = [Q EXCEPT !.m_prioMessages = t]
    BY <1>2, <2>3, <2>4 DEF AfterTake, Taken
  <2> HIDE DEF t
  <2>6. R \in QueueType
    BY <1>1, <2>2, <2>5 DEF QueueType
  <2>7. /\ R.m_prioMessages = t /\ R.m_messages = Q.m_messages /\ R.m_bInitialized
        /\ R.m_iDataSize = Q.m_iDataSize
    BY <1>1, <2>5 DEF QueueType
  <2>8. Good(R)
    <3>1. (\A m \in ToSet(t) : Urgent(m)) /\ PacketsLast(t)
      BY <2>2, GoodParts DEF PacketsLast
    <3> QED BY <2>6, <2>7, <3>1, GoodParts, GoodFrom
  <2> QED BY <2>1, <2>2, <2>3, <2>7, <2>8 DEF t
<1>3. CASE List(Q, p) # Q.m_prioMessages
  <2> DEFINE s == Q.m_messages
             t == Front(s)
             d == TotalSize(t)
  <2>1. s \in Seq(Items) /\ s # <<>> /\ Q.m_prioMessages = <<>> /\ List(Q, p) = s
    BY <1>1, <1>3, GoodParts DEF List
  <2>2. t \in Seq(Items) /\ Last(s) \in Items /\ ToSet(s) = ToSet(t) \cup {Last(s)}
        /\ d = TotalSize(s) - Size(Last(s))
    <3> HIDE DEF s
    <3> QED BY <2>1, FrontOrder, FrontSize
  <2>3. it = Last(s)
    BY <2>1 DEF Taken
  <2>4. it.priority = 0 /\ Q.m_iDataSize = TotalSize(s)
    BY <2>2, <2>3, GoodParts DEF Ordinary
  <2>5. d \in Nat
    BY <2>2, SizesIs
  <2>6. R = [Q EXCEPT !.m_messages = t, !.m_iDataSize = d]
    <3>1. R = [Q EXCEPT !.m_messages = t, !.m_iDataSize = @ - Size(it)]
      BY <2>1, <2>3, <2>4 DEF AfterTake, Taken
    <3> HIDE DEF d, s, t
    <3> QED BY <2>2, <2>3, <2>4, <3>1
  <2> HIDE DEF t, d
  <2>7. R \in QueueType
    BY <1>1, <2>2, <2>5, <2>6 DEF QueueType
  <2>8. /\ R.m_prioMessages = Q.m_prioMessages /\ R.m_messages = t /\ R.m_bInitialized
        /\ R.m_iDataSize = d
    BY <1>1, <2>6 DEF QueueType
  <2>9. Good(R)
    <3>1. \A m \in ToSet(t) : Ordinary(m)
      BY <2>2, GoodParts
    <3> QED BY <2>7, <2>8, <3>1, GoodParts, GoodFrom DEF d
  <2> QED BY <2>1, <2>2, <2>3, <2>8, <2>9 DEF t
<1> QED BY <1>2, <1>3

-----------------------------------------------------------------------------
(* The inductive invariant                                                 *)

(* What is queued for a stream, and what it has at hand as well.           *)
M(q) == ToSet(queue[q].m_messages)
P(q) == ToSet(queue[q].m_prioMessages)
Hands(q) == M(q) \cup P(q) \cup {held[q]}

(* m is the synchronization message s.                                     *)
Is(m, s) == m.kind = "sync" /\ m.n = s

Threads == {"none", "get", "wait", "packet", "replay", "flush", "sync", "syncing"}
Steps == {"run", "flush", "flushed", "sync", "waitsync", "drain", "waitdrain",
          "abort", "stop", "join"}
Players == [step : Steps, q : Streams, sync : Nat]
Sources == Streams \cup {"any"}
Syncs == [sources : {Streams, {"any"}}, reached : SUBSET Sources, expired : BOOLEAN]

TypeInv ==
  /\ queue \in [Streams -> QueueType]
  /\ thread \in [Streams -> Threads]
  /\ held \in [Streams -> Items]
  /\ want \in [Streams -> {0, 1}]
  /\ m_bStop \in [Streams -> BOOLEAN]
  /\ player \in Players /\ player.sync <= Len(sync)
  /\ sync \in Seq(Syncs) /\ Len(sync) <= MaxSyncs
  /\ sent \in [Streams -> Nat] /\ \A q \in Streams : sent[q] <= MaxPackets[q]
  /\ m_packets \in Seq(Items)
  /\ decoded \in [Streams -> Nat] /\ flushed \in [Streams -> Nat]
  /\ clean \in BOOLEAN

(* A stream has a message in its hands exactly while it is at it.  When it *)
(* waits and its event is not set there is nothing for it to take.         *)
ThreadOK(Q, at, h, w) ==
  /\ at \in {"none", "get", "wait", "replay"} => h = NoItem
  /\ at \in {"packet", "flush", "sync"} => h.kind = at
  /\ at = "syncing" => h.kind = "sync"
  /\ ~Q.m_bInitialized => at = "none"
  /\ at = "wait" /\ ~Q.m_hEvent =>
       /\ Q.m_prioMessages = <<>> /\ (w = 0 => Q.m_messages = <<>>)
       /\ ~Q.m_bAbortRequest

(* Packets are queued newest first, behind them is the one at hand, and    *)
(* then those decoded, but for some that are to be decoded again.          *)
OrderOK(Q, h, last, done) ==
  /\ \A a, b : /\ InOrder(Q.m_messages, a, b) /\ a.kind = "packet" /\ b.kind = "packet"
               /\ b.n > done
             => a.n > b.n
  /\ \A m \in ToSet(Q.m_messages) : m.kind = "packet" => m.n <= last
  /\ h.kind = "packet" => h.n <= last
  /\ h.kind = "packet" /\ h.n > done =>
       \A m \in ToSet(Q.m_messages) : m.kind = "packet" => m.n > h.n
  /\ done <= last

(* Urgent packets were decoded before, and they are taken first.           *)
AgainOK(Q, h, done) ==
  /\ \A m \in ToSet(Q.m_prioMessages) : m.kind = "packet" => m.n <= done
  /\ h.kind \in {"flush", "sync"} \/ (h.kind = "packet" /\ h.n > done) =>
       \A m \in ToSet(Q.m_prioMessages) : m.kind # "packet"

(* The video stream keeps packets that were decoded; ...                   *)
KeptOK(kept, at, done) ==
  /\ \A m \in ToSet(kept) : m.kind = "packet" /\ m.n <= done
  /\ at = "replay" => kept # <<>>

(* ... the audio stream decodes none again.                                *)
OnceOK(Q, at, h, done) ==
  /\ at # "replay"
  /\ \A m \in ToSet(Q.m_prioMessages) : m.kind # "packet"
  /\ \A m \in ToSet(Q.m_messages) : m.kind = "packet" => m.n > done
  /\ h.kind = "packet" => h.n > done

PacketsOK(q) ==
  /\ OrderOK(queue[q], held[q], sent[q], decoded[q])
  /\ AgainOK(queue[q], held[q], decoded[q])
  /\ q = "video" => KeptOK(m_packets, thread[q], decoded[q])
  /\ q = "audio" => OnceOK(queue[q], thread[q], held[q], decoded[q])

StreamInv(q) ==
  /\ Good(queue[q])
  /\ ThreadOK(queue[q], thread[q], held[q], want[q])
  /\ PacketsOK(q)
  /\ flushed[q] <= sent[q]

(* All that the video stream may still decode, while it is open.           *)
Stock == Hands("video") \cup (IF queue["video"].m_bInitialized THEN ToSet(m_packets) ELSE {})

(* Only a flush that is still to come leaves old packets to the video.     *)
OldInv ==
  ~Has("video", "flush") => \A m \in Stock : m.kind = "packet" => m.n > flushed["video"]

(* Messages name synchronization messages that were made: those among the  *)
(* packets WaitUntilEmpty's, and the player waits for its own.             *)
SyncInv ==
  /\ \A s \in DOMAIN sync : sync[s].reached \subseteq sync[s].sources
  /\ \A q \in Streams :
       /\ \A m \in Hands(q) : m.kind = "sync" => m.n \in DOMAIN sync
       /\ \A m \in M(q) : m.kind = "sync" => sync[m.n].sources = {"any"}
  /\ player.step \in {"sync", "waitsync"} =>
       player.sync \in DOMAIN sync /\ sync[player.sync].sources = Streams
  /\ player.step \in {"drain", "waitdrain"} =>
       player.sync \in DOMAIN sync /\ sync[player.sync].sources = {"any"}

(* FlushBuffers' message is not there before it is sent to the video.      *)
UnmetInv ==
  player.step = "sync" =>
    /\ \A m \in Hands("video") : ~Is(m, player.sync)
    /\ "video" \notin sync[player.sync].reached

(* A stream takes a packet only when no other urgent message is left, and  *)
(* decodes none again while it waits at a synchronization message.  It     *)
(* meets FlushBuffers' message only when it has taken every flush before.  *)
Decoding(q) == thread[q] = "replay" \/ \E m \in P(q) \cup {held[q]} : m.kind = "packet"

BarrierInv(q) ==
  /\ Decoding(q) => \A m \in P(q) : m.kind = "sync" => q \notin sync[m.n].reached
  /\ player.step \in {"sync", "waitsync"} =>
       /\ \A a, b : InOrder(queue[q].m_prioMessages, a, b) => a.kind # "flush" \/ ~Is(b, player.sync)
       /\ Is(held[q], player.sync) => \A m \in P(q) : m.kind # "flush"
       /\ q \in sync[player.sync].reached => ~Has(q, "flush")
  /\ clean => ~Has(q, "flush")
  /\ player.step = "flush" => ~clean

(* WaitUntilEmpty's message stays behind the packets, so that none is left *)
(* to be decoded for the first time when the stream has taken it; no other *)
(* stream ever has it.                                                     *)
Drained(q) == \A m \in M(q) \cup {held[q]} : m.kind = "packet" => m.n <= decoded[q]

DrainInv(q) ==
  /\ player.step \in {"drain", "waitdrain"} /\ (q # player.q \/ player.step = "drain") =>
       \A m \in Hands(q) : ~Is(m, player.sync)
  /\ player.step = "drain" => sync[player.sync].reached = {}
  /\ player.step = "waitdrain" /\ player.q = q =>
       /\ \A a, b : InOrder(queue[q].m_messages, a, b) => a.kind # "packet" \/ ~Is(b, player.sync)
       /\ (\E m \in P(q) \cup {held[q]} : Is(m, player.sync)) \/ sync[player.sync].reached # {} =>
            Drained(q)

GlobalInv ==
  /\ OldInv
  /\ SyncInv
  /\ UnmetInv
  /\ \A q \in Streams : BarrierInv(q) /\ DrainInv(q)

SInv == TypeInv /\ (\A q \in Streams : StreamInv(q)) /\ GlobalInv

-----------------------------------------------------------------------------
(* The state's parts                                                       *)

LEMMA InOrderElements ==
  ASSUME NEW s, NEW a, NEW b, InOrder(s, a, b)
  PROVE  a \in ToSet(s) /\ b \in ToSet(s)
BY DEF InOrder, ToSet

LEMMA EmptyOrder ==
  ASSUME NEW a, NEW b
  PROVE  ~InOrder(<<>>, a, b)
BY DEF InOrder

LEMMA NoItemIs == NoItem \in Items /\ NoItem.kind = "none"
BY DEF NoItem, Item, Items, Kinds

LEMMA ItemIs ==
  ASSUME NEW kind \in Kinds, NEW n \in Nat
  PROVE  /\ Item(kind, n) \in Items /\ Item(kind, n).kind = kind /\ Item(kind, n).n = n
         /\ \A p \in {0, 1} : [Item(kind, n) EXCEPT !.priority = p] \in Items
         /\ \A p \in {0, 1} : /\ [Item(kind, n) EXCEPT !.priority = p].kind = kind
                              /\ [Item(kind, n) EXCEPT !.priority = p].n = n
<1>1. Item(kind, n) \in Items /\ Item(kind, n).kind = kind /\ Item(kind, n).n = n
  BY DEF Item, Items
<1> QED BY <1>1, ItemParts

LEMMA TypeIs == TypeInv => STypeOK
BY BoundsAssumption DEF TypeInv, STypeOK, QueueType, Threads, Players

LEMMA StreamParts ==
  ASSUME TypeInv, NEW q \in Streams, StreamInv(q)
  PROVE  /\ Good(queue[q]) /\ queue[q].m_bInitialized \in BOOLEAN
         /\ M(q) \subseteq Items /\ P(q) \subseteq Items /\ held[q] \in Items
         /\ queue[q].m_messages \in Seq(Items) /\ queue[q].m_prioMessages \in Seq(Items)
         /\ \A m \in M(q) : m.kind \in {"packet", "sync"}
         /\ \A m \in P(q) : m.kind \in {"flush", "sync", "packet"}
         /\ \A a, b : InOrder(queue[q].m_prioMessages, a, b) /\ a.kind = "packet" => b.kind = "packet"
         /\ thread[q] \in Threads /\ want[q] \in {0, 1}
         /\ sent[q] \in Nat /\ decoded[q] \in Nat /\ flushed[q] \in Nat
         /\ sent[q] <= MaxPackets[q] /\ MaxPackets[q] \in Nat
         /\ m_packets \in Seq(Items)
         /\ queue[q].m_messages = <<>> => M(q) = {}
         /\ queue[q].m_prioMessages = <<>> => P(q) = {}
         /\ ~queue[q].m_bInitialized =>
              /\ queue[q].m_messages = <<>> /\ queue[q].m_prioMessages = <<>>
              /\ M(q) = {} /\ P(q) = {} /\ held[q] = NoItem
<1>1. Good(queue[q])
  BY DEF StreamInv
<1>2. /\ held[q] \in Items /\ thread[q] \in Threads /\ want[q] \in {0, 1}
      /\ sent[q] \in Nat /\ decoded[q] \in Nat /\ flushed[q] \in Nat
      /\ sent[q] <= MaxPackets[q] /\ MaxPackets[q] \in Nat /\ m_packets \in Seq(Items)
  BY BoundsAssumption DEF TypeInv
<1>3. ~queue[q].m_bInitialized =>
        queue[q].m_messages = <<>> /\ queue[q].m_prioMessages = <<>> /\ held[q] = NoItem
  BY DEF StreamInv, Good, ThreadOK
<1>4. /\ M(q) \subseteq Items /\ P(q) \subseteq Items
      /\ queue[q].m_messages \in Seq(Items) /\ queue[q].m_prioMessages \in Seq(Items)
      /\ queue[q].m_bInitialized \in BOOLEAN
      /\ \A m \in M(q) : m.kind \in {"packet", "sync"}
      /\ \A m \in P(q) : m.kind \in {"flush", "sync", "packet"}
      /\ \A a, b : InOrder(queue[q].m_prioMessages, a, b) /\ a.kind = "packet" => b.kind = "packet"
  BY <1>1, GoodParts DEF M, P, Ordinary, Urgent, PacketsLast
<1>5. /\ queue[q].m_messages = <<>> => M(q) = {}
      /\ queue[q].m_prioMessages = <<>> => P(q) = {}
  BY EmptyToSet DEF M, P
<1> QED BY <1>1, <1>2, <1>3, <1>4, <1>5

(* A step of one stream leaves the others alone.                           *)
Only(q) ==
  /\ \A r \in Streams \ {q} :
       /\ queue'[r] = queue[r] /\ thread'[r] = thread[r] /\ held'[r] = held[r]
       /\ want'[r] = want[r] /\ sent'[r] = sent[r] /\ decoded'[r] = decoded[r]
       /\ flushed'[r] = flushed[r]
  /\ q = "video" \/ UNCHANGED m_packets

LEMMA OthersKeep ==
  ASSUME NEW q \in Streams, Only(q), \A r \in Streams : StreamInv(r), StreamInv(q)'
  PROVE  /\ \A r \in Streams : StreamInv(r)'
         /\ \A r \in Streams \ {q} :
              /\ M(r)' = M(r) /\ P(r)' = P(r) /\ held'[r] = held[r]
              /\ Hands(r)' = Hands(r)
              /\ queue'[r].m_messages = queue[r].m_messages
              /\ queue'[r].m_prioMessages = queue[r].m_prioMessages
<1>1. ASSUME NEW r \in Streams \ {q} PROVE StreamInv(r)'
  <2>1. StreamInv(r)
    OBVIOUS
  <2> QED BY <2>1 DEF StreamInv, PacketsOK, Only
<1> QED BY <1>1 DEF Only, M, P, Hands

-----------------------------------------------------------------------------
(* What the global invariants allow                                        *)

(* No message moves, and the player is where it was or nowhere special.    *)
LEMMA Unmoved ==
  ASSUME GlobalInv, UNCHANGED <<held, sync, m_packets, decoded, flushed, clean>>,
         \A r \in Streams : /\ queue'[r].m_messages = queue[r].m_messages
                            /\ queue'[r].m_prioMessages = queue[r].m_prioMessages
                            /\ queue'[r].m_bInitialized => queue[r].m_bInitialized
                            /\ thread'[r] = "replay" =>
                                 thread[r] = "replay" \/ queue[r].m_prioMessages = <<>>,
         \/ player' = player
         \/ player'.step \notin {"flush", "sync", "waitsync", "drain", "waitdrain"}
  PROVE  GlobalInv'
<1>1. \A r \in Streams : M(r)' = M(r) /\ P(r)' = P(r) /\ Hands(r)' = Hands(r)
  BY DEF M, P, Hands
<1>2. \A r \in Streams, k \in Kinds : Has(r, k)' = Has(r, k)
  BY DEF Has
<1>3. OldInv'
  <2>1. Stock' \subseteq Stock
    BY <1>1 DEF Stock, Streams
  <2> QED BY <1>2, <2>1 DEF GlobalInv, OldInv, Streams, Kinds
<1>4. SyncInv'
  BY <1>1 DEF GlobalInv, SyncInv
<1>5. ASSUME NEW q \in Streams PROVE BarrierInv(q)'
  <2>1. BarrierInv(q) /\ (Has(q, "flush")' <=> Has(q, "flush"))
    BY <1>2 DEF GlobalInv, Kinds
  <2>2. Decoding(q)' => Decoding(q) \/ P(q) = {}
    BY <1>1, EmptyToSet DEF Decoding, P
  <2> QED BY <1>1, <2>1, <2>2 DEF BarrierInv
<1>6. ASSUME NEW q \in Streams PROVE DrainInv(q)'
  <2>1. DrainInv(q)
    BY DEF GlobalInv
  <2> QED BY <1>1, <2>1 DEF DrainInv, Drained
<1>7. UnmetInv'
  BY <1>1 DEF GlobalInv, UnmetInv, Streams
<1> QED BY <1>3, <1>4, <1>5, <1>6, <1>7 DEF GlobalInv

(* The stream has taken the last urgent message, ...                       *)
UrgentTaken(q) ==
  /\ P(q) = P(q)' \cup {held'[q]}
  /\ \A a \in P(q)' : InOrder(queue[q].m_prioMessages, a, held'[q])
  /\ \A a, b : InOrder(queue'[q].m_prioMessages, a, b) => InOrder(queue[q].m_prioMessages, a, b)
  /\ queue'[q].m_messages = queue[q].m_messages

(* ... or, for want of one, the last of the others.                        *)
OtherTaken(q) ==
  /\ M(q) = M(q)' \cup {held'[q]}
  /\ \A a \in M(q)' : InOrder(queue[q].m_messages, a, held'[q])
  /\ \A a, b : InOrder(queue'[q].m_messages, a, b) => InOrder(queue[q].m_messages, a, b)
  /\ queue[q].m_prioMessages = <<>> /\ queue'[q].m_prioMessages = <<>>

LEMMA HasIs ==
  ASSUME NEW q, NEW k
  PROVE  /\ Has(q, k) <=> held[q].kind = k \/ \E m \in P(q) : m.kind = k
         /\ Has(q, k)' <=> held'[q].kind = k \/ \E m \in P(q)' : m.kind = k
BY DEF Has, P, ToSet

(* What a step of one stream cannot disturb.                               *)
LEMMA OthersStay ==
  ASSUME GlobalInv, NEW q \in Streams, Only(q)
  PROVE  \A r \in Streams \ {q} :
           /\ M(r)' = M(r) /\ P(r)' = P(r) /\ held'[r] = held[r] /\ Hands(r)' = Hands(r)
           /\ queue'[r].m_messages = queue[r].m_messages
           /\ queue'[r].m_prioMessages = queue[r].m_prioMessages
           /\ \A k \in Kinds : Has(r, k)' <=> Has(r, k)
           /\ UNCHANGED <<player, sync, clean>> => BarrierInv(r)' /\ DrainInv(r)'
           /\ r = "video" => OldInv'
<1> SUFFICES ASSUME NEW r \in Streams \ {q}
             PROVE  /\ M(r)' = M(r) /\ P(r)' = P(r) /\ held'[r] = held[r] /\ Hands(r)' = Hands(r)
                    /\ queue'[r].m_messages = queue[r].m_messages
                    /\ queue'[r].m_prioMessages = queue[r].m_prioMessages
                    /\ \A k \in Kinds : Has(r, k)' <=> Has(r, k)
                    /\ UNCHANGED <<player, sync, clean>> => BarrierInv(r)' /\ DrainInv(r)'
                    /\ r = "video" => OldInv'
  OBVIOUS
<1>1. /\ queue'[r] = queue[r] /\ held'[r] = held[r] /\ flushed'[r] = flushed[r]
      /\ M(r)' = M(r) /\ P(r)' = P(r) /\ Hands(r)' = Hands(r)
  BY DEF Only, M, P, Hands
<1>2. \A k \in Kinds : Has(r, k)' <=> Has(r, k)
  BY <1>1 DEF Has
<1>3. Has(r, "flush")' <=> Has(r, "flush")
  BY <1>2 DEF Kinds
<1>4. BarrierInv(r) /\ DrainInv(r) /\ OldInv
  BY DEF GlobalInv
<1>5. ASSUME UNCHANGED <<player, sync, clean>> PROVE BarrierInv(r)' /\ DrainInv(r)'
  <2>1. (Decoding(r)' <=> Decoding(r)) /\ (Drained(r)' <=> Drained(r))
    BY <1>1 DEF Decoding, Drained, Only
  <2> QED BY <1>1, <1>3, <1>4, <1>5, <2>1 DEF BarrierInv, DrainInv
<1>6. ASSUME r = "video" PROVE OldInv'
  <2>1. Stock' = Stock
    BY <1>1, <1>6 DEF Stock, Only
  <2> QED BY <1>1, <1>3, <1>4, <1>6, <2>1 DEF OldInv
<1> QED BY <1>1, <1>2, <1>5, <1>6

(* Synchronization messages may move and go, but none comes.               *)
NoNewSyncs(q) ==
  /\ \A m \in Hands(q)' : m.kind = "sync" => \E k \in Hands(q) : k.kind = "sync" /\ k.n = m.n
  /\ \A m \in M(q)' : m.kind = "sync" => \E k \in M(q) : k.kind = "sync" /\ k.n = m.n

LEMMA SameSyncs ==
  ASSUME GlobalInv, NEW q \in Streams, Only(q), NoNewSyncs(q), UNCHANGED sync,
         \/ player' = player
         \/ player'.step \notin {"sync", "waitsync", "drain", "waitdrain"}
  PROVE  SyncInv' /\ UnmetInv'
<1>1. \A r \in Streams \ {q} : M(r)' = M(r) /\ Hands(r)' = Hands(r)
  BY OthersStay
<1>2. SyncInv'
  <2>1. SyncInv
    BY DEF GlobalInv
  <2>2. ASSUME NEW r \in Streams
        PROVE  /\ \A m \in Hands(r)' : m.kind = "sync" => m.n \in DOMAIN sync
               /\ \A m \in M(r)' : m.kind = "sync" => sync[m.n].sources = {"any"}
    <3>1. /\ \A m \in Hands(r) : m.kind = "sync" => m.n \in DOMAIN sync
          /\ \A m \in M(r) : m.kind = "sync" => sync[m.n].sources = {"any"}
      BY <2>1 DEF SyncInv
    <3>2. CASE r = q
      <4>1. ASSUME NEW m \in Hands(q)', m.kind = "sync" PROVE m.n \in DOMAIN sync
        <5>1. PICK k \in Hands(q) : k.kind = "sync" /\ k.n = m.n
          BY <4>1 DEF NoNewSyncs
        <5> QED BY <3>1, <3>2, <5>1
      <4>2. ASSUME NEW m \in M(q)', m.kind = "sync" PROVE sync[m.n].sources = {"any"}
        <5>1. PICK k \in M(q) : k.kind = "sync" /\ k.n = m.n
          BY <4>2 DEF NoNewSyncs
        <5> QED BY <3>1, <3>2, <5>1
      <4> QED BY <3>2, <4>1, <4>2
    <3>3. CASE r # q
      BY <1>1, <3>1, <3>3
    <3> QED BY <3>2, <3>3
  <2> QED BY <2>1, <2>2 DEF SyncInv
<1>3. UnmetInv'
  <2>1. SUFFICES ASSUME player.step = "sync", player' = player
                 PROVE  \A m \in Hands("video")' : ~Is(m, player.sync)
    BY DEF GlobalInv, UnmetInv
  <2>2. \A m \in Hands("video") : ~Is(m, player.sync)
    BY <2>1 DEF GlobalInv, UnmetInv
  <2>3. CASE q = "video"
    BY <2>2, <2>3 DEF NoNewSyncs, Is
  <2>4. CASE q # "video"
    BY <1>1, <2>2, <2>4 DEF Streams
  <2> QED BY <2>3, <2>4
<1> QED BY <1>2, <1>3

-----------------------------------------------------------------------------
(* What a stream does with its messages                                    *)

(* The rest of the invariant, when only this stream's part can change.     *)
LEMMA OneStream ==
  ASSUME GlobalInv, NEW q \in Streams, Only(q), NoNewSyncs(q), UNCHANGED <<player, sync, clean>>,
         BarrierInv(q)', DrainInv(q)', q = "video" => OldInv'
  PROVE  GlobalInv'
<1>1. SyncInv' /\ UnmetInv'
  BY SameSyncs
<1>2. \A r \in Streams \ {q} : BarrierInv(r)' /\ DrainInv(r)' /\ (r = "video" => OldInv')
  BY OthersStay
<1>3. OldInv'
  BY <1>2 DEF Streams
<1> QED BY <1>1, <1>2, <1>3 DEF GlobalInv

LEMMA TakenUrgent ==
  ASSUME SInv, NEW q \in Streams, Only(q),
         UNCHANGED <<player, sync, clean, flushed, decoded, m_packets>>,
         queue'[q].m_bInitialized => queue[q].m_bInitialized, thread'[q] # "replay",
         held[q] = NoItem, UrgentTaken(q)
  PROVE  GlobalInv'
<1>1. GlobalInv /\ BarrierInv(q) /\ DrainInv(q)
  BY DEF SInv, GlobalInv
<1>2. /\ M(q)' = M(q) /\ P(q)' \subseteq P(q) /\ held'[q] \in P(q)
      /\ \A m \in P(q) : m.kind = "packet" => m.n <= decoded[q]
      /\ held[q].kind = "none"
  BY NoItemIs DEF SInv, StreamInv, PacketsOK, AgainOK, UrgentTaken, M, P
<1>3. NoNewSyncs(q)
  BY <1>2 DEF NoNewSyncs, Hands
<1>4. Has(q, "flush")' => Has(q, "flush")
  BY <1>2, HasIs
<1>5. BarrierInv(q)'
  <2>1. Decoding(q)' => Decoding(q)
    BY <1>2 DEF Decoding
  <2>2. ASSUME player.step \in {"sync", "waitsync"}
        PROVE  /\ \A a, b : InOrder(queue'[q].m_prioMessages, a, b) =>
                              a.kind # "flush" \/ ~Is(b, player.sync)
               /\ Is(held'[q], player.sync) => \A m \in P(q)' : m.kind # "flush"
               /\ q \in sync[player.sync].reached => ~Has(q, "flush")'
    BY <1>1, <1>4, <2>2 DEF BarrierInv, UrgentTaken
  <2> QED BY <1>1, <1>2, <1>4, <2>1, <2>2 DEF BarrierInv
<1>6. DrainInv(q)'
  <2>1. ASSUME player.step \in {"drain", "waitdrain"}, q # player.q \/ player.step = "drain"
        PROVE  \A m \in Hands(q)' : ~Is(m, player.sync)
    BY <1>1, <1>2, <2>1 DEF DrainInv, Hands
  <2>2. Drained(q) => Drained(q)'
    BY <1>2 DEF Drained
  <2>3. ASSUME player.step = "waitdrain", player.q = q
        PROVE  (\E m \in P(q)' \cup {held'[q]} : Is(m, player.sync)) \/ sync[player.sync].reached # {} =>
                  Drained(q)'
    BY <1>1, <1>2, <2>2, <2>3 DEF DrainInv
  <2> QED BY <1>1, <2>1, <2>3 DEF DrainInv, UrgentTaken
<1>7. ASSUME q = "video" PROVE OldInv'
  <2>1. Has("video", "flush") => Has("video", "flush")'
    BY <1>2, <1>7, HasIs DEF UrgentTaken
  <2>2. Stock' \subseteq Stock
    BY <1>2, <1>7 DEF Stock, Hands
  <2> QED BY <1>1, <2>1, <2>2 DEF GlobalInv, OldInv
<1> QED BY <1>1, <1>3, <1>5, <1>6, <1>7, OneStream

LEMMA TakenOther ==
  ASSUME SInv, NEW q \in Streams, Only(q),
         UNCHANGED <<player, sync, clean, flushed, decoded, m_packets>>,
         queue'[q].m_bInitialized => queue[q].m_bInitialized,
         held[q] = NoItem, OtherTaken(q)
  PROVE  GlobalInv'
<1>1. GlobalInv /\ BarrierInv(q) /\ DrainInv(q)
  BY DEF SInv, GlobalInv
<1>2. /\ P(q)' = {} /\ P(q) = {} /\ M(q) = M(q)' \cup {held'[q]}
      /\ \A m \in M(q) : m.kind \in {"packet", "sync"}
      /\ held[q].kind = "none"
  BY StreamParts, NoItemIs, EmptyToSet DEF SInv, OtherTaken, P
<1>3. NoNewSyncs(q)
  BY <1>2 DEF NoNewSyncs, Hands
<1>4. ~Has(q, "flush")' /\ ~Has(q, "flush")
  BY <1>2, HasIs
<1>5. BarrierInv(q)'
  <2>1. \A a, b : ~InOrder(queue'[q].m_prioMessages, a, b)
    BY EmptyOrder DEF OtherTaken
  <2> QED BY <1>1, <1>2, <1>4, <2>1 DEF BarrierInv
<1>6. DrainInv(q)'
  <2>1. ASSUME player.step \in {"drain", "waitdrain"}, q # player.q \/ player.step = "drain"
        PROVE  \A m \in Hands(q)' : ~Is(m, player.sync)
    BY <1>1, <1>2, <2>1 DEF DrainInv, Hands
  <2>2. ASSUME player.step = "waitdrain", player.q = q
        PROVE  /\ \A a, b : InOrder(queue'[q].m_messages, a, b) =>
                               a.kind # "packet" \/ ~Is(b, player.sync)
               /\ (\E m \in P(q)' \cup {held'[q]} : Is(m, player.sync)) \/ sync[player.sync].reached # {} =>
                     Drained(q)'
    <3>1. \A a, b : InOrder(queue[q].m_messages, a, b) => a.kind # "packet" \/ ~Is(b, player.sync)
      BY <1>1, <2>2 DEF DrainInv
    <3>2. CASE Is(held'[q], player.sync)
      <4>1. \A a \in M(q)' : a.kind # "packet"
        BY <3>1, <3>2 DEF OtherTaken
      <4> QED BY <3>1, <3>2, <4>1 DEF OtherTaken, Drained, Is
    <3>3. CASE ~Is(held'[q], player.sync)
      <4>1. Drained(q) => Drained(q)'
        BY <1>2 DEF Drained
      <4>2. sync[player.sync].reached # {} => Drained(q)
        BY <1>1, <2>2 DEF DrainInv
      <4> QED BY <1>2, <3>1, <3>3, <4>1, <4>2 DEF OtherTaken
    <3> QED BY <3>2, <3>3
  <2> QED BY <1>1, <2>1, <2>2 DEF DrainInv
<1>7. ASSUME q = "video" PROVE OldInv'
  <2>1. Stock' \subseteq Stock
    BY <1>2, <1>7 DEF Stock, Hands
  <2> QED BY <1>1, <1>4, <1>7, <2>1 DEF GlobalInv, OldInv
<1> QED BY <1>1, <1>3, <1>5, <1>6, <1>7, OneStream

(* The stream is done with its message, which was no flush of the video's, *)
(* or takes every packet out of its queue.                                 *)
LEMMA Dropped ==
  ASSUME SInv, NEW q \in Streams, Only(q), UNCHANGED <<player, sync, clean, flushed>>,
         queue'[q].m_bInitialized => queue[q].m_bInitialized,
         decoded'[q] \in Nat, decoded[q] <= decoded'[q],
         \A m \in ToSet(m_packets)' : m \in ToSet(m_packets) \/ m = held[q],
         thread'[q] = "replay" => held[q].kind = "packet",
         held'[q] = NoItem, M(q)' \subseteq M(q), P(q)' \subseteq P(q),
         \A m \in P(q) : m.kind # "packet" => m \in P(q)',
         \A a, b : InOrder(queue'[q].m_messages, a, b) => InOrder(queue[q].m_messages, a, b),
         \A a, b : InOrder(queue'[q].m_prioMessages, a, b) => InOrder(queue[q].m_prioMessages, a, b),
         \/ held[q].kind # "flush"
         \/ q = "video" => \A m \in M(q)' \cup P(q)' \cup ToSet(m_packets)' : m.kind # "packet"
  PROVE  GlobalInv'
<1>1. GlobalInv /\ BarrierInv(q) /\ DrainInv(q)
  BY DEF SInv, GlobalInv
<1>2. held'[q].kind = "none"
  BY NoItemIs
<1>3. NoNewSyncs(q)
  BY <1>2 DEF NoNewSyncs, Hands
<1>4. Has(q, "flush")' => Has(q, "flush")
  BY <1>2, HasIs
<1>5. BarrierInv(q)'
  <2>1. Decoding(q)' => Decoding(q)
    BY <1>2 DEF Decoding
  <2> QED BY <1>1, <1>2, <1>4, <2>1 DEF BarrierInv, Is
<1>6. DrainInv(q)'
  <2>1. ASSUME player.step \in {"drain", "waitdrain"}, q # player.q \/ player.step = "drain"
        PROVE  \A m \in Hands(q)' : ~Is(m, player.sync)
    BY <1>1, <1>2, <2>1 DEF DrainInv, Hands, Is
  <2>2. Drained(q) => Drained(q)'
    <3>1. decoded[q] \in Nat /\ \A m \in M(q) : m.n \in Nat
      BY StreamParts, ItemParts DEF SInv
    <3> QED BY <1>2, <3>1 DEF Drained
  <2>3. ASSUME player.step = "waitdrain", player.q = q
        PROVE  (\E m \in P(q)' \cup {held'[q]} : Is(m, player.sync)) \/ sync[player.sync].reached # {} =>
                  Drained(q)'
    BY <1>1, <1>2, <2>2, <2>3 DEF DrainInv, Is
  <2> QED BY <1>1, <2>1, <2>3 DEF DrainInv
<1>7. ASSUME q = "video" PROVE OldInv'
  <2>1. CASE held[q].kind # "flush"
    <3>1. Has("video", "flush") => Has("video", "flush")'
      BY <1>7, <2>1, HasIs
    <3>2. \A m \in Stock' : m \in Stock \/ m.kind = "none"
      BY <1>2, <1>7 DEF Stock, Hands
    <3> QED BY <1>1, <3>1, <3>2 DEF GlobalInv, OldInv
  <2>2. CASE \A m \in M(q)' \cup P(q)' \cup ToSet(m_packets)' : m.kind # "packet"
    BY <1>2, <1>7, <2>2 DEF OldInv, Stock, Hands
  <2> QED BY <1>7, <2>1, <2>2
<1> QED BY <1>1, <1>3, <1>5, <1>6, <1>7, OneStream

(* The packet at hand goes behind the others.                              *)
LEMMA GivenBack ==
  ASSUME SInv, NEW q \in Streams, Only(q),
         UNCHANGED <<player, sync, clean, flushed, decoded, m_packets>>,
         queue'[q].m_bInitialized => queue[q].m_bInitialized, thread'[q] # "replay",
         held[q].kind = "packet", held'[q] = NoItem, P(q)' = P(q),
         queue'[q].m_prioMessages = queue[q].m_prioMessages,
         NEW it, it.kind = "packet", it.n = held[q].n, M(q)' = M(q) \cup {it},
         \A a, b : InOrder(queue'[q].m_messages, a, b) =>
                     InOrder(queue[q].m_messages, a, b) \/ b = it
  PROVE  GlobalInv'
<1>1. GlobalInv /\ BarrierInv(q) /\ DrainInv(q)
  BY DEF SInv, GlobalInv
<1>2. held'[q].kind = "none"
  BY NoItemIs
<1>3. NoNewSyncs(q)
  BY <1>2 DEF NoNewSyncs, Hands
<1>4. Has(q, "flush")' <=> Has(q, "flush")
  BY <1>2, HasIs
<1>5. BarrierInv(q)'
  <2>1. Decoding(q)' => Decoding(q)
    BY <1>2 DEF Decoding
  <2> QED BY <1>1, <1>2, <1>4, <2>1 DEF BarrierInv, Is
<1>6. DrainInv(q)'
  <2>1. ASSUME player.step \in {"drain", "waitdrain"}, q # player.q \/ player.step = "drain"
        PROVE  \A m \in Hands(q)' : ~Is(m, player.sync)
    BY <1>1, <1>2, <2>1 DEF DrainInv, Hands, Is
  <2>2. ASSUME player.step = "waitdrain", player.q = q,
               (\E m \in P(q)' \cup {held'[q]} : Is(m, player.sync)) \/ sync[player.sync].reached # {}
        PROVE  Drained(q)'
    <3>1. Drained(q)
      BY <1>1, <1>2, <2>2 DEF DrainInv, Is
    <3> QED BY <1>2, <3>1 DEF Drained
  <2>3. ASSUME player.step = "waitdrain", player.q = q, NEW a, NEW b,
               InOrder(queue'[q].m_messages, a, b)
        PROVE  a.kind # "packet" \/ ~Is(b, player.sync)
    BY <1>1, <2>3 DEF DrainInv, Is
  <2> QED BY <1>1, <2>1, <2>2, <2>3 DEF DrainInv
<1>7. ASSUME q = "video" PROVE OldInv'
  <2>1. ~Has("video", "flush") => it.n > flushed["video"]
    BY <1>1, <1>7 DEF GlobalInv, OldInv, Stock, Hands
  <2>2. \A m \in Stock' : m \in Stock \/ m = it \/ m.kind = "none"
    BY <1>2, <1>7 DEF Stock, Hands
  <2> QED BY <1>1, <1>2, <1>4, <1>7, <2>1, <2>2 DEF GlobalInv, OldInv
<1> QED BY <1>1, <1>3, <1>5, <1>6, <1>7, OneStream

(* The synchronization message at hand becomes the newest urgent one.      *)
LEMMA Retried ==
  ASSUME SInv, NEW q \in Streams, Only(q),
         UNCHANGED <<player, sync, clean, flushed, decoded, m_packets>>,
         queue'[q].m_bInitialized => queue[q].m_bInitialized, thread'[q] # "replay",
         held[q].kind = "sync", held'[q] = NoItem, M(q)' = M(q),
         queue'[q].m_messages = queue[q].m_messages,
         NEW it, it.kind = "sync", it.n = held[q].n, P(q)' = P(q) \cup {it},
         \A a, b : InOrder(queue'[q].m_prioMessages, a, b) =>
                     InOrder(queue[q].m_prioMessages, a, b) \/ a = it
  PROVE  GlobalInv'
<1>1. GlobalInv /\ BarrierInv(q) /\ DrainInv(q)
  BY DEF SInv, GlobalInv
<1>2. held'[q].kind = "none"
  BY NoItemIs
<1>3. NoNewSyncs(q)
  BY <1>2 DEF NoNewSyncs, Hands
<1>4. Has(q, "flush")' <=> Has(q, "flush")
  BY <1>2, HasIs
<1>5. BarrierInv(q)'
  <2>1. ~Decoding(q)'
    BY <1>2 DEF Decoding, SInv, StreamInv, PacketsOK, AgainOK, P
  <2> QED BY <1>1, <1>2, <1>4, <2>1 DEF BarrierInv, Is
<1>6. DrainInv(q)'
  <2>1. ASSUME player.step \in {"drain", "waitdrain"}, q # player.q \/ player.step = "drain"
        PROVE  \A m \in Hands(q)' : ~Is(m, player.sync)
    BY <1>1, <1>2, <2>1 DEF DrainInv, Hands, Is
  <2>2. Drained(q) => Drained(q)'
    BY <1>2 DEF Drained
  <2>3. ASSUME player.step = "waitdrain", player.q = q
        PROVE  (\E m \in P(q)' \cup {held'[q]} : Is(m, player.sync)) \/ sync[player.sync].reached # {} =>
                  Drained(q)'
    BY <1>1, <1>2, <2>2, <2>3 DEF DrainInv, Is
  <2> QED BY <1>1, <2>1, <2>3 DEF DrainInv
<1>7. ASSUME q = "video" PROVE OldInv'
  <2>1. \A m \in Stock' : m \in Stock \/ m = it \/ m.kind = "none"
    BY <1>2, <1>7 DEF Stock, Hands
  <2> QED BY <1>1, <1>2, <1>4, <1>7, <2>1 DEF GlobalInv, OldInv
<1> QED BY <1>1, <1>3, <1>5, <1>6, <1>7, OneStream

(* A packet kept for the codec becomes an urgent one.                      *)
LEMMA DecodedAgain ==
  ASSUME SInv, NEW q \in Streams, Only(q),
         UNCHANGED <<player, sync, clean, flushed, decoded, held>>,
         queue'[q].m_bInitialized => queue[q].m_bInitialized, thread[q] = "replay",
         q = "video", ToSet(m_packets)' \subseteq ToSet(m_packets),
         queue'[q].m_messages = queue[q].m_messages, M(q)' = M(q),
         NEW k \in ToSet(m_packets), NEW it, it.kind = "packet", it.n = k.n,
         P(q)' = P(q) \cup {it},
         \A a, b : InOrder(queue'[q].m_prioMessages, a, b) =>
             InOrder(queue[q].m_prioMessages, a, b) \/ b = it \/ (a = it /\ b.kind = "packet")
  PROVE  GlobalInv'
<1>1. GlobalInv /\ BarrierInv(q) /\ DrainInv(q)
  BY DEF SInv, GlobalInv
<1>2. k.kind = "packet" /\ queue[q].m_bInitialized /\ Decoding(q) /\ held[q].kind = "none"
  BY NoItemIs DEF SInv, StreamInv, ThreadOK, PacketsOK, KeptOK, Decoding
<1>3. NoNewSyncs(q)
  BY DEF NoNewSyncs, Hands
<1>4. Has(q, "flush")' <=> Has(q, "flush")
  BY HasIs
<1>5. BarrierInv(q)'
  BY <1>1, <1>2, <1>4 DEF BarrierInv, Is
<1>6. DrainInv(q)'
  <2>1. ASSUME player.step \in {"drain", "waitdrain"}, q # player.q \/ player.step = "drain"
        PROVE  \A m \in Hands(q)' : ~Is(m, player.sync)
    BY <1>1, <2>1 DEF DrainInv, Hands, Is
  <2>2. Drained(q) => Drained(q)'
    BY DEF Drained
  <2>3. ASSUME player.step = "waitdrain", player.q = q
        PROVE  (\E m \in P(q)' \cup {held'[q]} : Is(m, player.sync)) \/ sync[player.sync].reached # {} =>
                  Drained(q)'
    BY <1>1, <2>2, <2>3 DEF DrainInv, Is
  <2> QED BY <1>1, <2>1, <2>3 DEF DrainInv
<1>7. OldInv'
  <2>1. \A m \in Stock' : m \in Stock \/ m = it
    BY <1>2 DEF Stock, Hands
  <2>2. ~Has("video", "flush") => it.n > flushed["video"]
    BY <1>1, <1>2 DEF GlobalInv, OldInv, Stock
  <2> QED BY <1>1, <1>4, <2>1, <2>2 DEF GlobalInv, OldInv
<1> QED BY <1>1, <1>3, <1>5, <1>6, <1>7, OneStream

(* A synchronization message says of one more stream that it was reached.  *)
LEMMA ReachIs ==
  ASSUME sync \in Seq(Syncs), NEW s \in DOMAIN sync, NEW q \in Streams, sync' = Reach(s, q)
  PROVE  /\ sync' \in Seq(Syncs) /\ Len(sync') = Len(sync) /\ DOMAIN sync' = DOMAIN sync
         /\ \A k \in DOMAIN sync :
              /\ sync'[k].sources = sync[k].sources
              /\ k # s => sync'[k] = sync[k]
              /\ sync'[k].reached \subseteq sync[k].reached \cup {q, "any"}
              /\ sync'[k].reached \subseteq sync[k].reached \cup sync[k].sources
<1> DEFINE new == [sync[s] EXCEPT !.reached = @ \cup ({q, "any"} \cap sync[s].sources)]
<1>1. /\ Len(sync) \in Nat /\ DOMAIN sync = 1..Len(sync)
      /\ sync[s] \in Syncs /\ \A k \in DOMAIN sync : sync[k] \in Syncs
  OBVIOUS
<1>2. /\ new \in Syncs /\ new.sources = sync[s].sources
      /\ new.reached = sync[s].reached \cup ({q, "any"} \cap sync[s].sources)
  <2>1. q \in Sources /\ "any" \in Sources
    BY DEF Sources
  <2> QED BY <1>1, <2>1 DEF Syncs
<1>3. sync' = [sync EXCEPT ![s] = new]
  BY DEF Reach
<1> HIDE DEF new
<1>4. sync' \in Seq(Syncs) /\ Len(sync') = Len(sync) /\ DOMAIN sync' = DOMAIN sync
      /\ sync'[s] = new /\ \A k \in DOMAIN sync : k # s => sync'[k] = sync[k]
  BY <1>1, <1>2, <1>3
<1>5. ASSUME NEW k \in DOMAIN sync
      PROVE  /\ sync'[k].sources = sync[k].sources
             /\ k # s => sync'[k] = sync[k]
             /\ sync'[k].reached \subseteq sync[k].reached \cup {q, "any"}
             /\ sync'[k].reached \subseteq sync[k].reached \cup sync[k].sources
  <2>1. CASE k = s
    BY <1>2, <1>4, <2>1
  <2>2. CASE k # s
    BY <1>4, <2>2
  <2> QED BY <2>1, <2>2
<1> QED BY <1>4, <1>5

LEMMA SameMessages ==
  ASSUME SyncInv, UNCHANGED player, DOMAIN sync' = DOMAIN sync,
         \A k \in DOMAIN sync : /\ sync'[k].sources = sync[k].sources
                               /\ sync'[k].reached \subseteq sync[k].reached \cup sync[k].sources,
         \A r \in Streams : M(r)' = M(r) /\ Hands(r)' = Hands(r)
  PROVE  SyncInv'
<1>1. \A s \in DOMAIN sync' : sync'[s].reached \subseteq sync'[s].sources
  <2> SUFFICES ASSUME NEW s \in DOMAIN sync PROVE sync'[s].reached \subseteq sync'[s].sources
    OBVIOUS
  <2>1. sync[s].reached \subseteq sync[s].sources
    BY DEF SyncInv
  <2> QED BY <2>1
<1>2. ASSUME NEW q \in Streams
      PROVE  /\ \A m \in Hands(q)' : m.kind = "sync" => m.n \in DOMAIN sync'
             /\ \A m \in M(q)' : m.kind = "sync" => sync'[m.n].sources = {"any"}
  <2>1. /\ \A m \in Hands(q) : m.kind = "sync" => m.n \in DOMAIN sync
        /\ \A m \in M(q) : m.kind = "sync" => sync[m.n].sources = {"any"}
    BY DEF SyncInv
  <2>2. M(q) \subseteq Hands(q)
    BY DEF Hands
  <2> QED BY <2>1, <2>2
<1>3. /\ player.step \in {"sync", "waitsync"} =>
            player.sync \in DOMAIN sync' /\ sync'[player.sync].sources = Streams
      /\ player.step \in {"drain", "waitdrain"} =>
            player.sync \in DOMAIN sync' /\ sync'[player.sync].sources = {"any"}
  BY DEF SyncInv
<1> QED BY <1>1, <1>2, <1>3 DEF SyncInv

LEMMA Entered ==
  ASSUME SInv, NEW q \in Streams, UNCHANGED <<queue, held, player, clean, flushed, decoded, m_packets>>,
         \A r \in Streams : thread'[r] = "replay" => thread[r] = "replay",
         thread'[q] # "replay", held[q].kind = "sync", sync' = Reach(held[q].n, q)
  PROVE  GlobalInv'
<1> DEFINE s == held[q].n
           p == player.sync
<1>1. GlobalInv /\ SyncInv /\ sync \in Seq(Syncs) /\ s \in DOMAIN sync
  BY DEF SInv, GlobalInv, SyncInv, Hands, TypeInv
<1>2. /\ DOMAIN sync' = DOMAIN sync
      /\ \A k \in DOMAIN sync :
           /\ sync'[k].sources = sync[k].sources
           /\ k # s => sync'[k] = sync[k]
           /\ sync'[k].reached \subseteq sync[k].reached \cup {q, "any"}
           /\ sync'[k].reached \subseteq sync[k].reached \cup sync[k].sources
  BY <1>1, ReachIs
<1>3. \A r \in Streams : M(r)' = M(r) /\ P(r)' = P(r) /\ Hands(r)' = Hands(r)
  BY DEF M, P, Hands
<1>4. \A r \in Streams : Has(r, "flush")' <=> Has(r, "flush")
  BY DEF Has
<1>5. OldInv'
  <2>1. Stock' = Stock
    BY <1>3 DEF Stock, Streams
  <2> QED BY <1>1, <1>4, <2>1 DEF GlobalInv, OldInv, Streams
<1>6. SyncInv'
  BY <1>1, <1>2, <1>3, SameMessages
<1> HIDE DEF s
<1>7. UnmetInv'
  <2> SUFFICES ASSUME player.step = "sync"
               PROVE  (\A m \in Hands("video")' : ~Is(m, p)) /\ "video" \notin sync'[p].reached
    BY DEF UnmetInv
  <2>1. p \in DOMAIN sync
    BY <1>1 DEF SyncInv
  <2>2. (\A m \in Hands("video") : ~Is(m, p)) /\ "video" \notin sync[p].reached
    BY <1>1 DEF GlobalInv, UnmetInv
  <2>3. CASE q = "video"
    <3>1. s # p
      BY <2>2, <2>3 DEF Hands, Is, s
    <3> QED BY <1>2, <1>3, <2>1, <2>2, <3>1 DEF Streams
  <2>4. CASE q # "video"
    <3>1. "video" \notin sync'[p].reached
      BY <1>2, <2>1, <2>2, <2>4
    <3> QED BY <1>3, <2>2, <3>1 DEF Streams
  <2> QED BY <2>3, <2>4
<1>8. ASSUME NEW r \in Streams PROVE BarrierInv(r)'
  <2>1. BarrierInv(r)
    BY <1>1 DEF GlobalInv
  <2>2. r # "any"
    BY DEF Streams
  <2>3. ASSUME Decoding(r)', NEW m \in P(r), m.kind = "sync"
        PROVE  r \notin sync'[m.n].reached
    <3>1. r # q /\ Decoding(r)
      BY <1>3, <2>3 DEF Decoding, SInv, StreamInv, PacketsOK, AgainOK, P
    <3>2. m.n \in DOMAIN sync
      BY <1>1, <2>3 DEF SyncInv, Hands
    <3>3. r \notin sync[m.n].reached
      BY <2>1, <2>3, <3>1 DEF BarrierInv
    <3> QED BY <1>2, <2>2, <3>1, <3>2, <3>3
  <2>4. ASSUME player.step \in {"sync", "waitsync"}, r \in sync'[p].reached
        PROVE  ~Has(r, "flush")
    <3>1. p \in DOMAIN sync
      BY <1>1, <2>4 DEF SyncInv
    <3>2. CASE r \in sync[p].reached
      BY <2>1, <2>4, <3>2 DEF BarrierInv
    <3>3. CASE r \notin sync[p].reached
      <4>1. r = q /\ s = p
        BY <1>2, <2>2, <2>4, <3>1, <3>3
      <4>2. Is(held[r], p)
        BY <4>1 DEF Is, s
      <4>3. \A m \in P(r) : m.kind # "flush"
        BY <2>1, <2>4, <4>2 DEF BarrierInv
      <4> QED BY <4>1, <4>3, HasIs
    <3> QED BY <3>2, <3>3
  <2>5. player.step \in {"sync", "waitsync"} =>
          /\ \A a, b : InOrder(queue[r].m_prioMessages, a, b) => a.kind # "flush" \/ ~Is(b, p)
          /\ Is(held[r], p) => \A m \in P(r) : m.kind # "flush"
    BY <2>1 DEF BarrierInv
  <2>6. (clean => ~Has(r, "flush")) /\ (player.step = "flush" => ~clean)
    BY <2>1 DEF BarrierInv
  <2> QED BY <1>3, <1>4, <2>3, <2>4, <2>5, <2>6 DEF BarrierInv
<1>9. ASSUME NEW r \in Streams PROVE DrainInv(r)'
  <2>1. DrainInv(r) /\ DrainInv(q)
    BY <1>1 DEF GlobalInv
  <2>2. ASSUME player.step \in {"drain", "waitdrain"}, s = p
        PROVE  player.step = "waitdrain" /\ player.q = q /\ Drained(q)
    <3>1. Is(held[q], p) /\ held[q] \in Hands(q)
      BY <2>2 DEF Is, Hands, s
    <3>2. player.step = "waitdrain" /\ player.q = q
      BY <2>1, <2>2, <3>1 DEF DrainInv
    <3> QED BY <2>1, <3>1, <3>2 DEF DrainInv
  <2>3. player.step \in {"drain", "waitdrain"} => p \in DOMAIN sync
    BY <1>1 DEF SyncInv
  <2>4. player.step = "drain" => sync'[p] = sync[p]
    BY <1>2, <2>2, <2>3
  <2>5. player.step = "waitdrain" /\ player.q = r => sync'[p] = sync[p] \/ Drained(r)
    BY <1>2, <2>2, <2>3
  <2>6. Drained(r)' <=> Drained(r)
    BY <1>3 DEF Drained
  <2> QED BY <1>3, <2>1, <2>4, <2>5, <2>6 DEF DrainInv
<1> QED BY <1>5, <1>6, <1>7, <1>8, <1>9 DEF GlobalInv

(* The time of a synchronization message is over.                          *)
LEMMA ExpireStep ==
  ASSUME SInv, NEW s, Expire(s)
  PROVE  SInv'
<1>1. /\ s \in DOMAIN sync /\ sync' = [sync EXCEPT ![s].expired = TRUE]
      /\ UNCHANGED <<queue, thread, held, want, m_bStop, player, sent, m_packets, decoded, flushed, clean>>
  BY DEF Expire, streams, history
<1>2. /\ Len(sync) \in Nat /\ DOMAIN sync = 1..Len(sync) /\ sync \in Seq(Syncs)
      /\ sync[s] \in Syncs
  BY <1>1 DEF SInv, TypeInv
<1>3. /\ [sync[s] EXCEPT !.expired = TRUE] \in Syncs
      /\ [sync[s] EXCEPT !.expired = TRUE].sources = sync[s].sources
      /\ [sync[s] EXCEPT !.expired = TRUE].reached = sync[s].reached
  BY <1>2 DEF Syncs
<1>4. /\ sync' \in Seq(Syncs) /\ Len(sync') = Len(sync) /\ DOMAIN sync' = DOMAIN sync
      /\ sync'[s] = [sync[s] EXCEPT !.expired = TRUE]
      /\ \A k \in DOMAIN sync : k # s => sync'[k] = sync[k]
  BY <1>1, <1>2, <1>3
<1>5. \A k \in DOMAIN sync : sync'[k].sources = sync[k].sources /\ sync'[k].reached = sync[k].reached
  BY <1>3, <1>4
<1>6. TypeInv'
  BY <1>1, <1>4 DEF SInv, TypeInv
<1>7. \A q \in Streams : StreamInv(q)'
  BY <1>1 DEF SInv, StreamInv, PacketsOK
<1>8. \A r \in Streams : /\ M(r)' = M(r) /\ P(r)' = P(r) /\ Hands(r)' = Hands(r)
                         /\ (Has(r, "flush")' <=> Has(r, "flush"))
  BY <1>1 DEF M, P, Hands, Has
<1>9. GlobalInv /\ SyncInv /\ UnmetInv /\ OldInv
  BY DEF SInv, GlobalInv
<1>10. /\ player.step \in {"sync", "waitsync", "drain", "waitdrain"} => player.sync \in DOMAIN sync
       /\ \A r \in Streams : \A m \in P(r) : m.kind = "sync" => m.n \in DOMAIN sync
  BY <1>9 DEF SyncInv, Hands
<1>11. OldInv'
  BY <1>1, <1>8, <1>9 DEF OldInv, Stock, Streams
<1>12. SyncInv' /\ UnmetInv'
  <2>1. SyncInv'
    BY <1>1, <1>4, <1>5, <1>8, <1>9, SameMessages
  <2>2. UnmetInv'
    BY <1>1, <1>5, <1>8, <1>9, <1>10 DEF UnmetInv, Streams
  <2> QED BY <2>1, <2>2
<1>13. ASSUME NEW q \in Streams PROVE BarrierInv(q)' /\ DrainInv(q)'
  <2>1. BarrierInv(q) /\ DrainInv(q)
    BY <1>9 DEF GlobalInv
  <2>2. BarrierInv(q)'
    <3>1. Decoding(q)' <=> Decoding(q)
      BY <1>1, <1>8 DEF Decoding
    <3> QED BY <1>1, <1>5, <1>8, <1>10, <2>1, <3>1 DEF BarrierInv
  <2>3. DrainInv(q)'
    BY <1>1, <1>5, <1>8, <1>10, <2>1 DEF DrainInv, Drained
  <2> QED BY <2>2, <2>3
<1> QED BY <1>6, <1>7, <1>11, <1>12, <1>13 DEF SInv, GlobalInv

-----------------------------------------------------------------------------
(* The steps of a stream's thread                                          *)

(* No packet moves, and none is decoded.                                   *)
LEMMA SamePackets ==
  ASSUME NEW q \in Streams, StreamInv(q), UNCHANGED m_packets,
         sent'[q] = sent[q], decoded'[q] = decoded[q], held'[q] = held[q],
         queue'[q].m_messages = queue[q].m_messages,
         queue'[q].m_prioMessages = queue[q].m_prioMessages,
         thread'[q] = "replay" => thread[q] = "replay" \/ (q = "video" /\ m_packets # <<>>)
  PROVE  PacketsOK(q)'
BY DEF StreamInv, PacketsOK, OrderOK, AgainOK, KeptOK, OnceOK, Streams

LEMMA TailIn ==
  ASSUME NEW s \in Seq(Items)
  PROVE  ToSet(Tail(s)) \subseteq ToSet(s)
BY DEF ToSet

(* The stream is done with its message, and packets may go.                *)
LEMMA FewerPackets ==
  ASSUME SInv, NEW q \in Streams, sent'[q] = sent[q], decoded'[q] = decoded[q],
         held'[q] = NoItem, thread'[q] # "replay",
         ToSet(m_packets)' \subseteq ToSet(m_packets), M(q)' \subseteq M(q),
         \A m \in P(q)' : m.kind = "packet" => m \in P(q),
         \A a, b : InOrder(queue'[q].m_messages, a, b) => InOrder(queue[q].m_messages, a, b)
  PROVE  PacketsOK(q)'
<1>1. PacketsOK(q) /\ held'[q].kind = "none"
  BY NoItemIs DEF SInv, StreamInv
<1>2. OrderOK(queue'[q], held'[q], sent'[q], decoded'[q])
  BY <1>1 DEF PacketsOK, OrderOK, M
<1>3. AgainOK(queue'[q], held'[q], decoded'[q])
  BY <1>1 DEF PacketsOK, AgainOK, P
<1>4. q = "video" => KeptOK(m_packets', thread'[q], decoded'[q])
  BY <1>1 DEF PacketsOK, KeptOK
<1>5. q = "audio" => OnceOK(queue'[q], thread'[q], held'[q], decoded'[q])
  BY <1>1 DEF PacketsOK, OnceOK, M, P
<1> QED BY <1>2, <1>3, <1>4, <1>5 DEF PacketsOK

(* Get, with the queue as it was but for the event.                        *)
LEMMA GetSectionStep ==
  ASSUME SInv, NEW q \in Streams, NEW p \in {0, 1}, NEW Q, Good(Q),
         Q.m_messages = queue[q].m_messages, Q.m_prioMessages = queue[q].m_prioMessages,
         Q.m_bInitialized = queue[q].m_bInitialized,
         thread[q] \in {"get", "wait"}, GetSection(q, p, Q),
         UNCHANGED <<m_bStop, player, sync, sent, calls, m_packets, history>>
  PROVE  SInv'
<1>1. /\ TypeInv /\ StreamInv(q) /\ GlobalInv /\ Good(queue[q])
      /\ held[q] = NoItem /\ queue[q].m_bInitialized
      /\ PacketsOK(q) /\ OrderOK(queue[q], NoItem, sent[q], decoded[q])
      /\ AgainOK(queue[q], NoItem, decoded[q]) /\ flushed[q] <= sent[q]
  BY DEF SInv, StreamInv, ThreadOK, PacketsOK
<1>2. /\ Q \in QueueType /\ Q.m_bInitialized
      /\ UNCHANGED <<m_bStop, player, sync, sent, m_packets, decoded, flushed, clean>>
  BY <1>1 DEF Good, history
<1>3. CASE Q.m_bAbortRequest
  <2>1. /\ queue' = [queue EXCEPT ![q] = Q] /\ thread' = [thread EXCEPT ![q] = "none"]
        /\ want' = [want EXCEPT ![q] = 0] /\ held' = held
    BY <1>2, <1>3 DEF GetSection, Change, Goto
  <2>2. TypeInv'
    BY <1>1, <1>2, <2>1 DEF TypeInv, Threads
  <2>3. /\ queue'[q] = Q /\ thread'[q] = "none" /\ held'[q] = NoItem
        /\ \A r \in Streams \ {q} : queue'[r] = queue[r] /\ thread'[r] = thread[r] /\ want'[r] = want[r]
    BY <1>1, <2>1 DEF TypeInv
  <2>4. StreamInv(q)'
    <3>1. PacketsOK(q)'
      BY <1>1, <1>2, <2>1, <2>3, SamePackets
    <3> QED BY <1>1, <1>2, <2>3, <3>1 DEF StreamInv, ThreadOK
  <2>5. Only(q)
    BY <1>2, <2>1, <2>3 DEF Only
  <2>6. \A r \in Streams : StreamInv(r)'
    BY <2>4, <2>5, OthersKeep DEF SInv
  <2>7. GlobalInv'
    BY <1>1, <1>2, <2>1, <2>3, Unmoved
  <2> QED BY <2>2, <2>6, <2>7 DEF SInv
<1>4. CASE ~Q.m_bAbortRequest /\ ~Ready(Q, p)
  <2> DEFINE R == [Q EXCEPT !.m_hEvent = FALSE]
  <2>1. /\ queue' = [queue EXCEPT ![q] = R] /\ thread' = [thread EXCEPT ![q] = "wait"]
        /\ want' = [want EXCEPT ![q] = p] /\ held' = held
    BY <1>2, <1>4 DEF GetSection, Change, Goto
  <2>2. /\ Good(R) /\ R.m_messages = queue[q].m_messages
        /\ R.m_prioMessages = queue[q].m_prioMessages /\ R.m_bInitialized
        /\ ~R.m_bAbortRequest
    BY <1>2, <1>4, EventIs
  <2>3. List(Q, p) = <<>>
    BY <1>4, ReadyIs
  <2>4. R.m_prioMessages = <<>> /\ (p = 0 => R.m_messages = <<>>)
    BY <2>2, <2>3 DEF List
  <2> HIDE DEF R
  <2>5. TypeInv'
    BY <1>1, <1>2, <2>1, <2>2 DEF TypeInv, Threads, Good
  <2>6. /\ queue'[q] = R /\ thread'[q] = "wait" /\ held'[q] = NoItem /\ want'[q] = p
        /\ \A r \in Streams \ {q} : queue'[r] = queue[r] /\ thread'[r] = thread[r] /\ want'[r] = want[r]
    BY <1>1, <2>1 DEF TypeInv
  <2>7. StreamInv(q)'
    <3>1. PacketsOK(q)'
      BY <1>1, <1>2, <2>1, <2>2, <2>6, SamePackets
    <3> QED BY <1>1, <1>2, <2>2, <2>4, <2>6, <3>1 DEF StreamInv, ThreadOK
  <2>8. Only(q)
    BY <1>2, <2>1, <2>6 DEF Only
  <2>9. \A r \in Streams : StreamInv(r)'
    BY <2>7, <2>8, OthersKeep DEF SInv
  <2>10. GlobalInv'
    BY <1>1, <1>2, <2>1, <2>2, <2>6, Unmoved
  <2> QED BY <2>5, <2>9, <2>10 DEF SInv
<1>5. CASE ~Q.m_bAbortRequest /\ Ready(Q, p)
  <2>1. PICK R, it : R = AfterTake(Q, p) /\ it = Taken(Q, p)
    OBVIOUS
  <2>2. /\ queue' = [queue EXCEPT ![q] = R] /\ thread' = [thread EXCEPT ![q] = it.kind]
        /\ want' = [want EXCEPT ![q] = 0] /\ held' = [held EXCEPT ![q] = it]
    BY <1>2, <1>5, <2>1 DEF GetSection, Change, Goto
  <2>3. /\ Good(R) /\ it \in Items /\ R.m_bInitialized
        /\ \/ /\ queue[q].m_prioMessages # <<>> /\ it = Last(queue[q].m_prioMessages)
              /\ R.m_prioMessages = Front(queue[q].m_prioMessages)
              /\ R.m_messages = queue[q].m_messages
           \/ /\ queue[q].m_prioMessages = <<>> /\ queue[q].m_messages # <<>>
              /\ it = Last(queue[q].m_messages)
              /\ R.m_messages = Front(queue[q].m_messages) /\ R.m_prioMessages = <<>>
    BY <1>2, <1>5, <2>1, TakeIs
  <2>4. /\ queue'[q] = R /\ thread'[q] = it.kind /\ held'[q] = it
        /\ \A r \in Streams \ {q} : /\ queue'[r] = queue[r] /\ thread'[r] = thread[r]
                                    /\ want'[r] = want[r] /\ held'[r] = held[r]
    BY <1>1, <2>2 DEF TypeInv
  <2>5. Only(q)
    BY <1>2, <2>4 DEF Only
  <2>6. CASE /\ queue[q].m_prioMessages # <<>> /\ it = Last(queue[q].m_prioMessages)
             /\ R.m_prioMessages = Front(queue[q].m_prioMessages)
             /\ R.m_messages = queue[q].m_messages
    <3> DEFINE s == queue[q].m_prioMessages
    <3>1. s \in Seq(Items)
      BY <1>1, GoodParts
    <3>2. /\ ToSet(s) = ToSet(R.m_prioMessages) \cup {it}
          /\ \A a, b : InOrder(R.m_prioMessages, a, b) => InOrder(s, a, b)
          /\ \A a \in ToSet(R.m_prioMessages) : InOrder(s, a, it)
      BY <2>6, <3>1, FrontOrder
    <3>3. it.kind \in {"flush", "sync", "packet"}
      BY <1>1, <3>2, GoodParts DEF Urgent
    <3>4. UrgentTaken(q)
      BY <2>4, <2>6, <3>2 DEF UrgentTaken, P
    <3>5. StreamInv(q)'
      <4>1. it.kind = "packet" => it.n <= decoded[q]
        BY <1>1, <3>2 DEF AgainOK
      <4>2. ASSUME it.kind # "packet", NEW m \in ToSet(R.m_prioMessages)
            PROVE  m.kind # "packet"
        BY <1>1, <3>2, <4>2, GoodParts DEF PacketsLast
      <4>3. OrderOK(R, it, sent[q], decoded[q])
        <5>1. decoded[q] \in Nat /\ sent[q] \in Nat /\ it.n \in Nat
          BY <1>1, <2>3, ItemParts DEF TypeInv
        <5> QED BY <1>1, <2>6, <4>1, <5>1 DEF OrderOK
      <4>4. AgainOK(R, it, decoded[q])
        <5>1. decoded[q] \in Nat /\ it.n \in Nat
          BY <1>1, <2>3, ItemParts DEF TypeInv
        <5>2. \A m \in ToSet(R.m_prioMessages) : m.kind = "packet" => m.n <= decoded[q]
          BY <1>1, <3>2 DEF AgainOK
        <5> QED BY <3>3, <4>1, <4>2, <5>1, <5>2 DEF AgainOK
      <4>5. ThreadOK(R, it.kind, it, want'[q])
        BY <2>3, <3>3 DEF ThreadOK
      <4>6. q = "video" => KeptOK(m_packets, it.kind, decoded[q])
        BY <1>1, <3>3 DEF PacketsOK, KeptOK
      <4>7. q = "audio" => OnceOK(R, it.kind, it, decoded[q])
        BY <1>1, <2>6, <3>2, <3>3 DEF PacketsOK, OnceOK
      <4> QED BY <1>1, <1>2, <2>3, <2>4, <4>3, <4>4, <4>5, <4>6, <4>7 DEF StreamInv, PacketsOK
    <3>6. GlobalInv'
      BY <1>1, <1>2, <2>3, <2>4, <2>5, <3>3, <3>4, TakenUrgent
    <3>7. TypeInv'
      BY <1>1, <1>2, <2>2, <2>3, <3>3 DEF TypeInv, Threads, Good
    <3>8. \A r \in Streams : StreamInv(r)'
      BY <2>5, <3>5, OthersKeep DEF SInv
    <3> QED BY <3>6, <3>7, <3>8 DEF SInv
  <2>7. CASE /\ queue[q].m_prioMessages = <<>> /\ queue[q].m_messages # <<>>
             /\ it = Last(queue[q].m_messages)
             /\ R.m_messages = Front(queue[q].m_messages) /\ R.m_prioMessages = <<>>
    <3> DEFINE s == queue[q].m_messages
    <3>1. s \in Seq(Items)
      BY <1>1, GoodParts
    <3>2. /\ ToSet(s) = ToSet(R.m_messages) \cup {it}
          /\ \A a, b : InOrder(R.m_messages, a, b) => InOrder(s, a, b)
          /\ \A a \in ToSet(R.m_messages) : InOrder(s, a, it)
      BY <2>7, <3>1, FrontOrder
    <3>3. it.kind \in {"packet", "sync"}
      BY <1>1, <3>2, GoodParts DEF Ordinary
    <3>4. OtherTaken(q)
      BY <2>4, <2>7, <3>2 DEF OtherTaken, M
    <3>5. StreamInv(q)'
      <4>1. OrderOK(R, it, sent[q], decoded[q])
        BY <1>1, <3>2 DEF OrderOK
      <4>2. ThreadOK(R, it.kind, it, want'[q])
        BY <2>3, <3>3 DEF ThreadOK
      <4>3. AgainOK(R, it, decoded[q])
        BY <2>7, EmptyToSet DEF AgainOK
      <4>4. q = "video" => KeptOK(m_packets, it.kind, decoded[q])
        BY <1>1, <3>3 DEF PacketsOK, KeptOK
      <4>5. q = "audio" => OnceOK(R, it.kind, it, decoded[q])
        BY <1>1, <2>7, <3>2, <3>3, EmptyToSet DEF PacketsOK, OnceOK
      <4> QED BY <1>1, <1>2, <2>3, <2>4, <4>1, <4>2, <4>3, <4>4, <4>5 DEF StreamInv, PacketsOK
    <3>6. GlobalInv'
      BY <1>1, <1>2, <2>3, <2>4, <2>5, <3>4, TakenOther
    <3>7. TypeInv'
      BY <1>1, <1>2, <2>2, <2>3, <3>3 DEF TypeInv, Threads, Good
    <3>8. \A r \in Streams : StreamInv(r)'
      BY <2>5, <3>5, OthersKeep DEF SInv
    <3> QED BY <3>6, <3>7, <3>8 DEF SInv
  <2> QED BY <2>3, <2>6, <2>7
<1> QED BY <1>3, <1>4, <1>5

LEMMA GetStep ==
  ASSUME SInv, NEW q \in Streams, Get(q)
  PROVE  SInv'
<1>1. /\ thread[q] = "get" /\ Good(queue[q]) /\ TypeInv /\ GlobalInv
      /\ UNCHANGED <<m_bStop, player, sync, sent, calls, m_packets, history>>
  BY DEF Get, SInv, StreamInv
<1>2. CASE m_bStop[q]
  <2>1. thread' = [thread EXCEPT ![q] = "none"] /\ UNCHANGED <<queue, held, want>>
    BY <1>2 DEF Get, Goto
  <2>2. UNCHANGED <<m_bStop, player, sync, sent, m_packets, decoded, flushed, clean>>
    BY <1>1 DEF history
  <2>3. TypeInv'
    BY <1>1, <2>1, <2>2 DEF TypeInv, Threads
  <2>4. thread'[q] = "none" /\ \A r \in Streams \ {q} : thread'[r] = thread[r]
    BY <1>1, <2>1 DEF TypeInv
  <2>5. Only(q)
    BY <2>1, <2>2, <2>4 DEF Only
  <2>6. StreamInv(q)'
    <3>1. PacketsOK(q)'
      BY <2>1, <2>2, <2>4, SamePackets DEF SInv
    <3> QED BY <1>1, <2>1, <2>2, <2>4, <3>1 DEF SInv, StreamInv, ThreadOK
  <2>7. GlobalInv'
    BY <1>1, <2>1, <2>2, <2>4, Unmoved
  <2>8. \A r \in Streams : StreamInv(r)'
    BY <2>5, <2>6, OthersKeep DEF SInv
  <2> QED BY <2>3, <2>7, <2>8 DEF SInv
<1>3. CASE ~m_bStop[q]
  <2>1. PICK p \in {0, 1} : GetSection(q, p, queue[q])
    BY <1>3 DEF Get
  <2> QED BY <1>1, <2>1, GetSectionStep
<1> QED BY <1>2, <1>3

LEMMA WakeUpStep ==
  ASSUME SInv, NEW q \in Streams, WakeUp(q)
  PROVE  SInv'
<1>1. /\ thread[q] = "wait" /\ Good(queue[q]) /\ want[q] \in {0, 1}
      /\ UNCHANGED <<m_bStop, player, sync, sent, calls, m_packets, history>>
  BY DEF WakeUp, SInv, StreamInv, TypeInv
<1>2. PICK Q : Q = [queue[q] EXCEPT !.m_hEvent = FALSE]
  OBVIOUS
<1>3. /\ Good(Q) /\ Q.m_messages = queue[q].m_messages
      /\ Q.m_prioMessages = queue[q].m_prioMessages
      /\ Q.m_bInitialized = queue[q].m_bInitialized
  BY <1>1, <1>2, EventIs
<1>4. GetSection(q, want[q], Q)
  BY <1>2 DEF WakeUp
<1> QED BY <1>1, <1>3, <1>4, GetSectionStep

LEMMA TimeOutStep ==
  ASSUME SInv, NEW q \in Streams, TimeOut(q)
  PROVE  SInv'
<1>1. /\ thread[q] = "wait" /\ TypeInv /\ GlobalInv /\ want' = [want EXCEPT ![q] = 0]
      /\ UNCHANGED <<queue, held, m_bStop, player, sync, sent, m_packets, decoded, flushed, clean>>
      /\ queue[q].m_prioMessages = <<>> /\ held[q] = NoItem /\ queue[q].m_bInitialized
  BY DEF TimeOut, SInv, StreamInv, ThreadOK, history
<1>2. PICK at \in {"get", "replay"} :
        /\ thread' = [thread EXCEPT ![q] = at]
        /\ at = "replay" => q = "video" /\ m_packets # <<>>
  BY <1>1 DEF TimeOut, ProcessDecoderOutput, Goto
<1>3. /\ thread'[q] = at
      /\ \A r \in Streams \ {q} : thread'[r] = thread[r] /\ want'[r] = want[r]
  BY <1>1, <1>2 DEF TypeInv
<1>4. Only(q)
  BY <1>1, <1>3 DEF Only
<1>5. TypeInv'
  BY <1>1, <1>2 DEF TypeInv, Threads
<1>6. StreamInv(q)'
  <2>1. PacketsOK(q)'
    BY <1>1, <1>2, <1>3, SamePackets DEF SInv
  <2> QED BY <1>1, <1>3, <2>1 DEF SInv, StreamInv, ThreadOK
<1>7. GlobalInv'
  BY <1>1, <1>3, Unmoved
<1>8. \A r \in Streams : StreamInv(r)'
  BY <1>4, <1>6, OthersKeep DEF SInv
<1> QED BY <1>5, <1>7, <1>8 DEF SInv

(* What the video stream keeps was kept before, or it is the packet at hand.*)
LEMMA KeepIs ==
  ASSUME NEW q, Keep(q), m_packets \in Seq(Items), held[q] \in Items
  PROVE  /\ m_packets' \in Seq(Items)
         /\ \A m \in ToSet(m_packets)' : m \in ToSet(m_packets) \/ m = held[q]
         /\ q # "video" => UNCHANGED m_packets
<1> DEFINE all == Append(m_packets, held[q])
<1>1. /\ m_packets' = m_packets \/ m_packets' = all \/ m_packets' = Tail(all)
      /\ q # "video" => m_packets' = m_packets
  BY DEF Keep
<1>2. /\ all \in Seq(Items) /\ Tail(all) \in Seq(Items)
      /\ ToSet(all) = ToSet(m_packets) \cup {held[q]}
  <2>1. all \in Seq(Items) /\ all # <<>>
    OBVIOUS
  <2>2. ToSet(all) = ToSet(m_packets) \cup {held[q]}
    BY AppendElements
  <2> QED BY <2>1, <2>2
<1>3. ToSet(Tail(all)) \subseteq ToSet(all)
  BY <1>2, TailIn
<1> HIDE DEF all
<1>4. ToSet(m_packets') \subseteq ToSet(all)
  BY <1>1, <1>2, <1>3
<1> QED BY <1>1, <1>2, <1>4

LEMMA DecodeStep ==
  ASSUME SInv, NEW q \in Streams, Decode(q)
  PROVE  SInv'
<1>1. /\ TypeInv /\ StreamInv(q) /\ PacketsOK(q) /\ held[q].kind = "packet"
      /\ held' = [held EXCEPT ![q] = NoItem] /\ Keep(q)
      /\ UNCHANGED <<queue, want, m_bStop, player, sync, sent, flushed, clean>>
  BY DEF Decode, SInv, StreamInv, ThreadOK, Release
<1>2. /\ held[q] \in Items /\ held[q].n \in Nat /\ decoded[q] \in Nat /\ sent[q] \in Nat
      /\ m_packets \in Seq(Items) /\ queue[q].m_bInitialized
      /\ \A m \in M(q) \cup P(q) : m.n \in Nat
  BY <1>1, StreamParts, ItemParts, NoItemIs
<1>3. PICK n : /\ n = IF held[q].n > decoded[q] THEN held[q].n ELSE decoded[q]
               /\ decoded' = [decoded EXCEPT ![q] = n]
  BY DEF Decode
<1>4. n \in Nat /\ n \in {decoded[q], held[q].n} /\ decoded[q] <= n /\ held[q].n <= n
  BY <1>2, <1>3
<1>5. PICK at \in {"get", "replay"} :
        /\ thread' = [thread EXCEPT ![q] = at]
        /\ at = "replay" => q = "video" /\ m_packets' # <<>>
  BY DEF Decode, ProcessDecoderOutput, Goto
<1>6. /\ m_packets' \in Seq(Items)
      /\ \A m \in ToSet(m_packets)' : m \in ToSet(m_packets) \/ m = held[q]
      /\ q = "video" \/ UNCHANGED m_packets
  BY <1>1, <1>2, KeepIs
<1>7. /\ queue'[q] = queue[q] /\ thread'[q] = at /\ held'[q] = NoItem /\ decoded'[q] = n
      /\ \A r \in Streams \ {q} :
           thread'[r] = thread[r] /\ held'[r] = held[r] /\ decoded'[r] = decoded[r]
  BY <1>1, <1>3, <1>5 DEF TypeInv
<1>8. TypeInv'
  BY <1>1, <1>3, <1>4, <1>5, <1>6, NoItemIs DEF TypeInv, Threads
<1>9. Only(q)
  BY <1>1, <1>6, <1>7 DEF Only
<1>10. OrderOK(queue[q], NoItem, sent[q], n)
  <2>1. OrderOK(queue[q], held[q], sent[q], decoded[q])
    BY <1>1 DEF PacketsOK
  <2>2. n <= sent[q]
    BY <1>1, <1>3, <1>4, <2>1 DEF OrderOK
  <2>3. ASSUME NEW x, NEW y, InOrder(queue[q].m_messages, x, y), x.kind = "packet",
               y.kind = "packet", y.n > n
        PROVE  x.n > y.n
    <3>1. y \in M(q)
      BY <2>3, InOrderElements DEF M
    <3>2. y.n > decoded[q]
      BY <1>2, <1>3, <1>4, <2>3, <3>1
    <3> QED BY <2>1, <2>3, <3>2 DEF OrderOK
  <2> QED BY <2>1, <2>2, <2>3, NoItemIs DEF OrderOK
<1>11. AgainOK(queue[q], NoItem, n)
  <2>1. \A m \in P(q) : m.kind = "packet" => m.n <= decoded[q]
    BY <1>1 DEF PacketsOK, AgainOK, P
  <2>2. \A m \in P(q) : m.kind = "packet" => m.n <= n
    BY <1>2, <1>3, <1>4, <2>1
  <2> QED BY <2>2, NoItemIs DEF AgainOK, P
<1>12. q = "video" => KeptOK(m_packets', at, n)
  <2> SUFFICES ASSUME q = "video" PROVE KeptOK(m_packets', at, n)
    OBVIOUS
  <2>1. ASSUME NEW m \in ToSet(m_packets') PROVE m.kind = "packet" /\ m.n <= n
    <3>1. CASE m = held[q]
      BY <1>1, <1>3, <1>4, <3>1
    <3>2. CASE m \in ToSet(m_packets)
      <4>1. m.kind = "packet" /\ m.n <= decoded[q]
        BY <1>1, <3>2 DEF PacketsOK, KeptOK
      <4>2. m \in Items
        BY <1>2, <3>2 DEF ToSet
      <4>3. m.n \in Nat
        BY <4>2, ItemParts
      <4> QED BY <1>2, <1>3, <1>4, <4>1, <4>3
    <3> QED BY <1>6, <2>1, <3>1, <3>2
  <2> QED BY <1>5, <2>1 DEF KeptOK
<1>13. q = "audio" => OnceOK(queue[q], at, NoItem, n)
  <2> SUFFICES ASSUME q = "audio" PROVE OnceOK(queue[q], at, NoItem, n)
    OBVIOUS
  <2>1. OnceOK(queue[q], thread[q], held[q], decoded[q]) /\ held[q].n > decoded[q]
    BY <1>1 DEF PacketsOK, OnceOK
  <2>2. \A m \in M(q) : m.kind = "packet" => m.n > held[q].n
    BY <1>1, <2>1 DEF PacketsOK, OrderOK, M
  <2>3. n = held[q].n
    BY <1>2, <1>3, <1>4, <2>1
  <2> QED BY <1>5, <2>1, <2>2, <2>3, NoItemIs DEF OnceOK, M
<1>14. StreamInv(q)'
  <2>1. ThreadOK(queue[q], at, NoItem, want[q])
    BY <1>2 DEF ThreadOK
  <2> QED BY <1>1, <1>7, <1>10, <1>11, <1>12, <1>13, <2>1 DEF StreamInv, PacketsOK
<1>15. GlobalInv'
  BY <1>1, <1>2, <1>3, <1>4, <1>6, <1>7, <1>9, Dropped DEF M, P
<1>16. \A r \in Streams : StreamInv(r)'
  BY <1>9, <1>14, OthersKeep DEF SInv
<1> QED BY <1>8, <1>15, <1>16 DEF SInv

LEMMA ReplayStep ==
  ASSUME SInv, NEW q \in Streams, Replay(q)
  PROVE  SInv'
<1>0. PICK k : k = Head(m_packets)
  OBVIOUS
<1>1. /\ TypeInv /\ StreamInv(q) /\ PacketsOK(q) /\ thread[q] = "replay"
      /\ queue' = [queue EXCEPT ![q] = Put(queue[q], k, 10)] /\ m_packets' = Tail(m_packets)
      /\ UNCHANGED <<held, want, m_bStop, player, sync, sent, decoded, flushed, clean>>
  BY <1>0 DEF Replay, SInv, StreamInv, Change, history
<1>2. /\ q = "video" /\ m_packets # <<>> /\ held[q] = NoItem /\ queue[q].m_bInitialized
      /\ \A m \in ToSet(m_packets) : m.kind = "packet" /\ m.n <= decoded[q]
  BY <1>1 DEF StreamInv, ThreadOK, PacketsOK, KeptOK, OnceOK, Streams
<1>3. /\ Good(queue[q]) /\ m_packets \in Seq(Items) /\ Tail(m_packets) \in Seq(Items)
      /\ k \in ToSet(m_packets) /\ k \in Items /\ k.kind = "packet"
      /\ ToSet(Tail(m_packets)) \subseteq ToSet(m_packets)
  <2>1. m_packets \in Seq(Items) /\ Good(queue[q])
    BY <1>1 DEF TypeInv, StreamInv
  <2>2. k \in ToSet(m_packets) /\ k \in Items
    BY <1>0, <1>2, <2>1 DEF ToSet
  <2> QED BY <1>2, <2>1, <2>2, TailIn
<1>4. PICK at \in {"get", "replay"} :
        /\ thread' = [thread EXCEPT ![q] = at]
        /\ at = "replay" => m_packets' # <<>>
  BY DEF Replay, Goto
<1>5. PICK R, it : R = Put(queue[q], k, 10) /\ it = [k EXCEPT !.priority = 10]
  OBVIOUS
<1>6. it.kind = "packet" /\ it.n = k.n
  BY <1>3, <1>5, ItemParts
<1>7. /\ Good(R) /\ ToSet(R.m_prioMessages) = P(q) \cup {it}
      /\ \A a, b : InOrder(R.m_prioMessages, a, b) =>
             InOrder(queue[q].m_prioMessages, a, b) \/ b = it \/ (a = it /\ b.kind = "packet")
      /\ R.m_messages = queue[q].m_messages /\ R.m_bInitialized
  <2>1. Good(queue[q]) /\ queue[q].m_bInitialized /\ k \in Items /\ k.kind = "packet"
    BY <1>2, <1>3
  <2> QED BY <1>5, <2>1, PutAgainIs DEF P
<1>8. /\ queue'[q] = R /\ thread'[q] = at /\ held'[q] = NoItem
      /\ \A r \in Streams \ {q} : queue'[r] = queue[r] /\ thread'[r] = thread[r]
  <2>1. held[q] = NoItem
    BY <1>2
  <2> QED BY <1>1, <1>4, <1>5, <2>1 DEF TypeInv
<1>9. TypeInv'
  BY <1>1, <1>3, <1>4, <1>5, <1>7 DEF TypeInv, Threads, Good
<1>10. Only(q)
  BY <1>1, <1>2, <1>8 DEF Only
<1>11. StreamInv(q)'
  <2>1. OrderOK(R, NoItem, sent[q], decoded[q])
    BY <1>1, <1>2, <1>7 DEF PacketsOK, OrderOK
  <2>2. AgainOK(R, NoItem, decoded[q])
    BY <1>1, <1>2, <1>3, <1>6, <1>7, NoItemIs DEF PacketsOK, AgainOK, P
  <2>3. KeptOK(m_packets', at, decoded[q])
    <3>1. ToSet(m_packets') \subseteq ToSet(m_packets)
      BY <1>1, <1>3
    <3> QED BY <1>2, <1>4, <3>1 DEF KeptOK
  <2>4. ThreadOK(R, at, NoItem, want[q])
    BY <1>7 DEF ThreadOK
  <2>5. flushed[q] <= sent[q]
    BY <1>1 DEF StreamInv
  <2> QED BY <1>1, <1>2, <1>7, <1>8, <2>1, <2>2, <2>3, <2>4, <2>5 DEF StreamInv, PacketsOK
<1>12. GlobalInv'
  <2>1. M(q)' = M(q) /\ P(q)' = P(q) \cup {it} /\ ToSet(m_packets)' \subseteq ToSet(m_packets)
    BY <1>1, <1>3, <1>7, <1>8 DEF M, P
  <2> QED BY <1>1, <1>2, <1>3, <1>6, <1>7, <1>8, <1>10, <2>1, DecodedAgain
<1>13. \A r \in Streams : StreamInv(r)'
  BY <1>10, <1>11, OthersKeep DEF SInv
<1> QED BY <1>9, <1>12, <1>13 DEF SInv

LEMMA GiveBackStep ==
  ASSUME SInv, NEW q \in Streams, GiveBack(q)
  PROVE  SInv'
<1>1. /\ TypeInv /\ StreamInv(q) /\ held[q].kind = "packet"
      /\ thread' = [thread EXCEPT ![q] = "get"] /\ held' = [held EXCEPT ![q] = NoItem]
      /\ queue' = [queue EXCEPT ![q] = PutBack(queue[q], held[q], 0)]
      /\ UNCHANGED <<want, m_bStop, player, sync, sent, m_packets, decoded, flushed, clean>>
  BY DEF GiveBack, SInv, StreamInv, ThreadOK, Done, Release, Goto, Change, history
<1>2. PICK R, it : R = PutBack(queue[q], held[q], 0) /\ it = [held[q] EXCEPT !.priority = 0]
  OBVIOUS
<1>3. /\ Good(queue[q]) /\ queue[q].m_bInitialized /\ held[q] \in Items
      /\ queue[q].m_messages \in Seq(Items)
  BY <1>1, StreamParts, NoItemIs
<1>4. it \in Items /\ it.kind = "packet" /\ it.n = held[q].n
  BY <1>1, <1>2, <1>3, ItemParts
<1>5. /\ Good(R) /\ R.m_messages = Append(queue[q].m_messages, it)
      /\ R.m_prioMessages = queue[q].m_prioMessages /\ R.m_bInitialized
  BY <1>1, <1>2, <1>3, PutBackIs
<1>6. TypeInv'
  BY <1>1, <1>2, <1>5, NoItemIs DEF TypeInv, Threads, Good
<1>7. /\ queue'[q] = R /\ thread'[q] = "get" /\ held'[q] = NoItem
      /\ \A r \in Streams \ {q} :
           queue'[r] = queue[r] /\ thread'[r] = thread[r] /\ held'[r] = held[r]
  BY <1>1, <1>2 DEF TypeInv
<1>8. Only(q)
  BY <1>1, <1>7 DEF Only
<1>9. /\ ToSet(R.m_messages) = M(q) \cup {it}
      /\ \A a, b : InOrder(R.m_messages, a, b) <=>
                     InOrder(queue[q].m_messages, a, b) \/ (a \in M(q) /\ b = it)
  BY <1>3, <1>4, <1>5, AppendElements, AppendOrder DEF M
<1>10. StreamInv(q)'
  <2>1. OrderOK(R, NoItem, sent[q], decoded[q])
    BY <1>1, <1>4, <1>9, NoItemIs DEF StreamInv, PacketsOK, OrderOK, M
  <2>2. ThreadOK(R, "get", NoItem, want[q])
    BY <1>5 DEF ThreadOK
  <2>3. AgainOK(R, NoItem, decoded[q])
    BY <1>1, <1>5, NoItemIs DEF StreamInv, PacketsOK, AgainOK
  <2>4. q = "video" => KeptOK(m_packets, "get", decoded[q])
    BY <1>1 DEF StreamInv, PacketsOK, KeptOK
  <2>5. q = "audio" => OnceOK(R, "get", NoItem, decoded[q])
    BY <1>1, <1>4, <1>5, <1>9, NoItemIs DEF StreamInv, PacketsOK, OnceOK, M
  <2> QED BY <1>1, <1>5, <1>7, <2>1, <2>2, <2>3, <2>4, <2>5 DEF StreamInv, PacketsOK
<1>11. GlobalInv'
  <2>1. M(q)' = M(q) \cup {it} /\ P(q)' = P(q)
    BY <1>5, <1>7, <1>9 DEF M, P
  <2> QED BY <1>1, <1>3, <1>4, <1>5, <1>7, <1>8, <1>9, <2>1, GivenBack
<1>12. \A r \in Streams : StreamInv(r)'
  BY <1>8, <1>10, OthersKeep DEF SInv
<1> QED BY <1>6, <1>11, <1>12 DEF SInv

LEMMA HandleFlushStep ==
  ASSUME SInv, NEW q \in Streams, HandleFlush(q)
  PROVE  SInv'
<1>1. /\ TypeInv /\ StreamInv(q) /\ held[q].kind = "flush"
      /\ thread' = [thread EXCEPT ![q] = "get"] /\ held' = [held EXCEPT ![q] = NoItem]
      /\ queue' = [queue EXCEPT ![q] = IF q = "video" THEN Flush(queue[q]) ELSE queue[q]]
      /\ m_packets' = IF q = "video" THEN <<>> ELSE m_packets
      /\ UNCHANGED <<want, m_bStop, player, sync, sent, decoded, flushed, clean>>
  BY DEF HandleFlush, SInv, StreamInv, ThreadOK, Done, Release, Goto, Change, history
<1>2. PICK R : R = IF q = "video" THEN Flush(queue[q]) ELSE queue[q]
  OBVIOUS
<1>3. Good(queue[q]) /\ queue[q].m_bInitialized
  BY <1>1, StreamParts, NoItemIs
<1>4. /\ Good(R) /\ ToSet(R.m_messages) \subseteq M(q) /\ ToSet(R.m_prioMessages) \subseteq P(q)
      /\ \A m \in P(q) : m.kind # "packet" => m \in ToSet(R.m_prioMessages)
      /\ \A a, b : InOrder(R.m_messages, a, b) => InOrder(queue[q].m_messages, a, b)
      /\ \A a, b : InOrder(R.m_prioMessages, a, b) => InOrder(queue[q].m_prioMessages, a, b)
      /\ R.m_bInitialized
      /\ q = "video" => \A m \in ToSet(R.m_messages) \cup ToSet(R.m_prioMessages) : m.kind # "packet"
  <2>1. CASE q = "video"
    <3>1. /\ Good(R) /\ R.m_bInitialized
          /\ ToSet(R.m_messages) = {m \in M(q) : m.kind # "packet"}
          /\ ToSet(R.m_prioMessages) = {m \in P(q) : m.kind # "packet"}
          /\ \A a, b : InOrder(R.m_messages, a, b) => InOrder(queue[q].m_messages, a, b)
          /\ \A a, b : InOrder(R.m_prioMessages, a, b) => InOrder(queue[q].m_prioMessages, a, b)
      BY <1>2, <1>3, <2>1, FlushIs DEF M, P
    <3> QED BY <3>1
  <2>2. CASE q # "video"
    BY <1>2, <1>3, <2>2 DEF M, P
  <2> QED BY <2>1, <2>2
<1>5. TypeInv'
  <2>1. m_packets' \in Seq(Items)
    BY <1>1 DEF TypeInv
  <2> QED BY <1>1, <1>2, <1>4, <2>1, NoItemIs DEF TypeInv, Threads, Good
<1>6. /\ queue'[q] = R /\ thread'[q] = "get" /\ held'[q] = NoItem
      /\ \A r \in Streams \ {q} :
           queue'[r] = queue[r] /\ thread'[r] = thread[r] /\ held'[r] = held[r]
  BY <1>1, <1>2 DEF TypeInv
<1>7. Only(q)
  BY <1>1, <1>6 DEF Only
<1>8. /\ M(q)' = ToSet(R.m_messages) /\ P(q)' = ToSet(R.m_prioMessages)
      /\ ToSet(m_packets)' \subseteq ToSet(m_packets)
      /\ q = "video" => ToSet(m_packets)' = {}
  BY <1>1, <1>6, EmptyToSet DEF M, P
<1>9. StreamInv(q)'
  <2>1. PacketsOK(q)'
    BY <1>1, <1>4, <1>6, <1>8, FewerPackets
  <2>2. ThreadOK(R, "get", NoItem, want[q])
    BY <1>4 DEF ThreadOK
  <2> QED BY <1>1, <1>4, <1>6, <2>1, <2>2 DEF StreamInv
<1>10. GlobalInv'
  <2>1. decoded'[q] \in Nat /\ decoded[q] <= decoded'[q]
    BY <1>1, StreamParts
  <2> QED BY <1>1, <1>3, <1>4, <1>6, <1>7, <1>8, <2>1, NoItemIs, Dropped
<1>11. \A r \in Streams : StreamInv(r)'
  BY <1>7, <1>9, OthersKeep DEF SInv
<1> QED BY <1>5, <1>10, <1>11 DEF SInv

LEMMA EnterSyncStep ==
  ASSUME SInv, NEW q \in Streams, EnterSync(q)
  PROVE  SInv'
<1>1. /\ TypeInv /\ StreamInv(q) /\ held[q].kind = "sync"
      /\ thread' = [thread EXCEPT ![q] = "syncing"] /\ sync' = Reach(held[q].n, q)
      /\ UNCHANGED <<queue, held, want, m_bStop, player, sent, m_packets, decoded, flushed, clean>>
  BY DEF EnterSync, SInv, StreamInv, ThreadOK, Goto, history
<1>2. held[q].n \in DOMAIN sync /\ sync \in Seq(Syncs)
  BY <1>1 DEF SInv, GlobalInv, SyncInv, Hands, TypeInv
<1>3. sync' \in Seq(Syncs) /\ Len(sync') = Len(sync)
  BY <1>1, <1>2, ReachIs
<1>4. TypeInv'
  BY <1>1, <1>3 DEF TypeInv, Threads
<1>5. thread'[q] = "syncing" /\ \A r \in Streams \ {q} : thread'[r] = thread[r]
  BY <1>1 DEF TypeInv
<1>6. Only(q)
  BY <1>1, <1>5 DEF Only
<1>7. StreamInv(q)'
  <2>1. queue[q].m_bInitialized
    BY <1>1, StreamParts, NoItemIs
  <2>2. PacketsOK(q)'
    BY <1>1, <1>5, SamePackets
  <2> QED BY <1>1, <1>5, <2>1, <2>2 DEF StreamInv, ThreadOK
<1>8. GlobalInv'
  BY <1>1, <1>5, Entered
<1>9. \A r \in Streams : StreamInv(r)'
  BY <1>6, <1>7, OthersKeep DEF SInv
<1> QED BY <1>4, <1>8, <1>9 DEF SInv

LEMMA LeaveSyncStep ==
  ASSUME SInv, NEW q \in Streams, LeaveSync(q)
  PROVE  SInv'
<1>1. /\ TypeInv /\ StreamInv(q) /\ held[q].kind = "sync"
      /\ thread' = [thread EXCEPT ![q] = "get"] /\ held' = [held EXCEPT ![q] = NoItem]
      /\ UNCHANGED <<queue, want, m_bStop, player, sync, sent, m_packets, decoded, flushed, clean>>
  BY DEF LeaveSync, SInv, StreamInv, ThreadOK, Done, Release, Goto, history
<1>2. TypeInv'
  BY <1>1, NoItemIs DEF TypeInv, Threads
<1>3. /\ queue'[q] = queue[q] /\ thread'[q] = "get" /\ held'[q] = NoItem
      /\ \A r \in Streams \ {q} : thread'[r] = thread[r] /\ held'[r] = held[r]
  BY <1>1 DEF TypeInv
<1>4. Only(q)
  BY <1>1, <1>3 DEF Only
<1>5. StreamInv(q)'
  <2>1. PacketsOK(q)'
    BY <1>1, <1>3, FewerPackets DEF M, P
  <2>2. ThreadOK(queue[q], "get", NoItem, want[q])
    <3>1. queue[q].m_bInitialized
      BY <1>1, StreamParts, NoItemIs
    <3> QED BY <3>1 DEF ThreadOK
  <2> QED BY <1>1, <1>3, <2>1, <2>2 DEF StreamInv
<1>6. GlobalInv'
  <2>1. decoded'[q] \in Nat /\ decoded[q] <= decoded'[q]
    BY <1>1, StreamParts
  <2> QED BY <1>1, <1>3, <1>4, <2>1, Dropped DEF M, P
<1>7. \A r \in Streams : StreamInv(r)'
  BY <1>4, <1>5, OthersKeep DEF SInv
<1> QED BY <1>2, <1>6, <1>7 DEF SInv

LEMMA RetrySyncStep ==
  ASSUME SInv, NEW q \in Streams, RetrySync(q)
  PROVE  SInv'
<1>1. /\ TypeInv /\ StreamInv(q) /\ held[q].kind = "sync"
      /\ thread' = [thread EXCEPT ![q] = "get"] /\ held' = [held EXCEPT ![q] = NoItem]
      /\ queue' = [queue EXCEPT ![q] = Put(queue[q], held[q], 1)]
      /\ UNCHANGED <<want, m_bStop, player, sync, sent, m_packets, decoded, flushed, clean>>
  BY DEF RetrySync, SInv, StreamInv, ThreadOK, Done, Release, Goto, Change, history
<1>2. PICK R, it : R = Put(queue[q], held[q], 1) /\ it = [held[q] EXCEPT !.priority = 1]
  OBVIOUS
<1>3. /\ Good(queue[q]) /\ queue[q].m_bInitialized /\ held[q] \in Items
      /\ queue[q].m_prioMessages \in Seq(Items)
  BY <1>1, StreamParts, NoItemIs
<1>4. it \in Items /\ it.kind = "sync" /\ it.n = held[q].n
  BY <1>1, <1>2, <1>3, ItemParts
<1>5. /\ Good(R) /\ R.m_prioMessages = <<it>> \o queue[q].m_prioMessages
      /\ R.m_messages = queue[q].m_messages /\ R.m_bInitialized
  BY <1>1, <1>2, <1>3, PutUrgentIs
<1>6. TypeInv'
  BY <1>1, <1>2, <1>5, NoItemIs DEF TypeInv, Threads, Good
<1>7. /\ queue'[q] = R /\ thread'[q] = "get" /\ held'[q] = NoItem
      /\ \A r \in Streams \ {q} :
           queue'[r] = queue[r] /\ thread'[r] = thread[r] /\ held'[r] = held[r]
  BY <1>1, <1>2 DEF TypeInv
<1>8. Only(q)
  BY <1>1, <1>7 DEF Only
<1>9. /\ ToSet(R.m_prioMessages) = P(q) \cup {it}
      /\ \A a, b : InOrder(R.m_prioMessages, a, b) =>
                     InOrder(queue[q].m_prioMessages, a, b) \/ a = it
  BY <1>3, <1>4, <1>5, PrependOrder DEF P
<1>10. StreamInv(q)'
  <2>1. PacketsOK(q)'
    <3>1. M(q)' = M(q) /\ \A m \in P(q)' : m.kind = "packet" => m \in P(q)
      BY <1>4, <1>5, <1>7, <1>9 DEF M, P
    <3> QED BY <1>1, <1>5, <1>7, <3>1, FewerPackets
  <2>2. ThreadOK(R, "get", NoItem, want[q])
    BY <1>5 DEF ThreadOK
  <2> QED BY <1>1, <1>5, <1>7, <2>1, <2>2 DEF StreamInv
<1>11. GlobalInv'
  <2>1. P(q)' = P(q) \cup {it} /\ M(q)' = M(q)
    BY <1>5, <1>7, <1>9 DEF M, P
  <2> QED BY <1>1, <1>3, <1>4, <1>5, <1>7, <1>8, <1>9, <2>1, Retried
<1>12. \A r \in Streams : StreamInv(r)'
  BY <1>8, <1>10, OthersKeep DEF SInv
<1> QED BY <1>6, <1>11, <1>12 DEF SInv

-----------------------------------------------------------------------------
(* The steps of the player's thread                                        *)

LEMMA PlayersIs ==
  ASSUME NEW step \in Steps, NEW q \in Streams, NEW s \in Nat
  PROVE  /\ At(step, q, s) \in Players /\ At(step, q, s).step = step
         /\ At(step, q, s).q = q /\ At(step, q, s).sync = s
         /\ Run \in Players /\ Run.step = "run" /\ Run.sync = 0
BY DEF At, Players, Run, Steps, Streams

(* The player is on its way, and waits for no synchronization message.     *)
LEMMA Elsewhere ==
  ASSUME SInv, NEW q \in Streams, Only(q), NoNewSyncs(q), UNCHANGED sync,
         player'.step \notin {"sync", "waitsync", "drain", "waitdrain"},
         player'.step = "flush" => ~clean',
         clean' => \A r \in Streams : ~Has(r, "flush")',
         Decoding(q)' => \A m \in P(q)' : m.kind = "sync" => q \notin sync[m.n].reached,
         q = "video" => OldInv'
  PROVE  GlobalInv'
<1>1. GlobalInv
  BY DEF SInv
<1>2. SyncInv' /\ UnmetInv'
  BY <1>1, SameSyncs
<1>3. OldInv'
  BY <1>1, OthersStay DEF Streams
<1>4. ASSUME NEW r \in Streams PROVE BarrierInv(r)' /\ DrainInv(r)'
  <2>1. Decoding(r)' => \A m \in P(r)' : m.kind = "sync" => r \notin sync[m.n].reached
    <3>1. CASE r = q
      BY <3>1
    <3>2. CASE r # q
      <4>1. held'[r] = held[r] /\ P(r)' = P(r) /\ thread'[r] = thread[r]
        BY <1>1, <3>2, OthersStay DEF Only
      <4>2. Decoding(r)' <=> Decoding(r)
        BY <4>1 DEF Decoding
      <4> QED BY <1>1, <4>1, <4>2 DEF GlobalInv, BarrierInv
    <3> QED BY <3>1, <3>2
  <2>2. BarrierInv(r)'
    BY <2>1 DEF BarrierInv
  <2>3. DrainInv(r)'
    BY DEF DrainInv
  <2> QED BY <2>2, <2>3
<1> QED BY <1>2, <1>3, <1>4 DEF GlobalInv

LEMMA OpenStreamStep ==
  ASSUME SInv, NEW q \in Streams, OpenStream(q)
  PROVE  SInv'
<1>1. /\ TypeInv /\ StreamInv(q) /\ GlobalInv /\ ~queue[q].m_bInitialized
      /\ player' = Run
      /\ queue' = [queue EXCEPT ![q] = InitQueue(queue[q])]
      /\ thread' = [thread EXCEPT ![q] = "get"]
      /\ m_bStop' = [m_bStop EXCEPT ![q] = FALSE]
      /\ m_packets' = IF q = "video" THEN <<>> ELSE m_packets
      /\ UNCHANGED <<held, want, sync, sent, decoded, flushed, clean>>
  BY DEF OpenStream, Begin, Step, SInv, Change, Goto, history
<1>2. PICK R : R = InitQueue(queue[q])
  OBVIOUS
<1>3. /\ Good(queue[q]) /\ held[q] = NoItem /\ held[q].kind = "none"
      /\ queue[q].m_messages = <<>> /\ queue[q].m_prioMessages = <<>>
  BY <1>1, StreamParts, NoItemIs
<1>4. Good(R) /\ R.m_messages = <<>> /\ R.m_prioMessages = <<>> /\ R.m_bInitialized
  BY <1>1, <1>2, <1>3, InitQueueIs
<1>5. Run \in Players /\ Run.step = "run" /\ Run.sync = 0
  BY PlayersIs DEF Steps
<1>6. TypeInv'
  <2>1. m_packets' \in Seq(Items)
    BY <1>1 DEF TypeInv
  <2> QED BY <1>1, <1>2, <1>4, <1>5, <2>1 DEF TypeInv, Threads, Good
<1>7. /\ queue'[q] = R /\ thread'[q] = "get"
      /\ \A r \in Streams \ {q} : queue'[r] = queue[r] /\ thread'[r] = thread[r]
  BY <1>1, <1>2 DEF TypeInv
<1>8. Only(q)
  BY <1>1, <1>7 DEF Only
<1>9. /\ M(q)' = {} /\ P(q)' = {} /\ ToSet(m_packets)' \subseteq ToSet(m_packets)
      /\ q = "video" => ToSet(m_packets)' = {}
  BY <1>1, <1>4, <1>7, EmptyToSet DEF M, P
<1>10. StreamInv(q)'
  <2>1. PacketsOK(q)'
    BY <1>1, <1>3, <1>4, <1>7, <1>9, EmptyOrder, FewerPackets
  <2> QED BY <1>1, <1>3, <1>4, <1>7, <2>1 DEF StreamInv, ThreadOK
<1>11. GlobalInv'
  <2>1. NoNewSyncs(q)
    BY <1>1, <1>3, <1>9 DEF NoNewSyncs, Hands
  <2>2. ASSUME clean', NEW r \in Streams PROVE ~Has(r, "flush")'
    <3>1. ~Has(r, "flush")
      BY <1>1, <2>2 DEF GlobalInv, BarrierInv
    <3>2. CASE r = q
      BY <1>1, <1>3, <1>9, <3>2, HasIs
    <3>3. CASE r # q
      BY <1>1, <1>8, <3>1, <3>3, OthersStay DEF Kinds
    <3> QED BY <3>2, <3>3
  <2>3. q = "video" => OldInv'
    BY <1>1, <1>3, <1>9 DEF OldInv, Stock, Hands
  <2> QED BY <1>1, <1>5, <1>8, <1>9, <2>1, <2>2, <2>3, Elsewhere
<1>12. \A r \in Streams : StreamInv(r)'
  BY <1>8, <1>10, OthersKeep DEF SInv
<1> QED BY <1>6, <1>11, <1>12 DEF SInv

LEMMA CloseStreamStep ==
  ASSUME SInv, NEW q \in Streams, CloseStream(q)
  PROVE  SInv'
<1>1. /\ TypeInv /\ StreamInv(q) /\ GlobalInv /\ queue[q].m_bInitialized
      /\ player' = At("stop", q, 0)
      /\ queue' = [queue EXCEPT ![q] = Abort(queue[q])]
      /\ UNCHANGED <<thread, held, want, m_bStop, sync, sent, m_packets, decoded, flushed, clean>>
  BY DEF CloseStream, Begin, Step, SInv, Change, streams, history
<1>2. PICK R : R = Abort(queue[q])
  OBVIOUS
<1>3. /\ Good(R) /\ R.m_messages = queue[q].m_messages
      /\ R.m_prioMessages = queue[q].m_prioMessages /\ R.m_bInitialized /\ R.m_hEvent
  BY <1>1, <1>2, AbortIs DEF StreamInv
<1>4. player' \in Players /\ player'.step = "stop" /\ player'.sync = 0
  BY <1>1, PlayersIs DEF Steps
<1>5. TypeInv'
  BY <1>1, <1>2, <1>3, <1>4 DEF TypeInv, Good
<1>6. queue'[q] = R /\ \A r \in Streams \ {q} : queue'[r] = queue[r]
  BY <1>1, <1>2 DEF TypeInv
<1>7. Only(q)
  BY <1>1, <1>6 DEF Only
<1>8. StreamInv(q)'
  <2>1. PacketsOK(q)'
    BY <1>1, <1>3, <1>6, SamePackets
  <2> QED BY <1>1, <1>3, <1>6, <2>1 DEF StreamInv, ThreadOK
<1>9. GlobalInv'
  BY <1>1, <1>3, <1>4, <1>6, Unmoved
<1>10. \A r \in Streams : StreamInv(r)'
  BY <1>7, <1>8, OthersKeep DEF SInv
<1> QED BY <1>5, <1>9, <1>10 DEF SInv

LEMMA EndDrainStep ==
  ASSUME SInv, NEW q \in Streams, EndDrain(q)
  PROVE  SInv'
<1>1. /\ TypeInv /\ StreamInv(q) /\ GlobalInv
      /\ player' = At("abort", q, 0)
      /\ queue' = [queue EXCEPT ![q] = [queue[q] EXCEPT !.m_drain = FALSE]]
      /\ UNCHANGED <<thread, held, want, m_bStop, sync, sent, m_packets, decoded, flushed, clean>>
  BY DEF EndDrain, SInv, Change, streams, history
<1>2. PICK R : R = [queue[q] EXCEPT !.m_drain = FALSE]
  OBVIOUS
<1>3. /\ Good(R) /\ R.m_messages = queue[q].m_messages
      /\ R.m_prioMessages = queue[q].m_prioMessages
      /\ R.m_bInitialized = queue[q].m_bInitialized /\ R.m_hEvent = queue[q].m_hEvent
      /\ R.m_bAbortRequest = queue[q].m_bAbortRequest
  BY <1>1, <1>2, DrainIs DEF StreamInv
<1>4. player' \in Players /\ player'.step = "abort" /\ player'.sync = 0
  BY <1>1, PlayersIs DEF Steps
<1>5. TypeInv'
  BY <1>1, <1>2, <1>3, <1>4 DEF TypeInv, Good
<1>6. queue'[q] = R /\ \A r \in Streams \ {q} : queue'[r] = queue[r]
  BY <1>1, <1>2 DEF TypeInv
<1>7. Only(q)
  BY <1>1, <1>6 DEF Only
<1>8. StreamInv(q)'
  <2>1. PacketsOK(q)'
    BY <1>1, <1>3, <1>6, SamePackets
  <2> QED BY <1>1, <1>3, <1>6, <2>1 DEF StreamInv, ThreadOK
<1>9. GlobalInv'
  BY <1>1, <1>3, <1>4, <1>6, Unmoved
<1>10. \A r \in Streams : StreamInv(r)'
  BY <1>7, <1>8, OthersKeep DEF SInv
<1> QED BY <1>5, <1>9, <1>10 DEF SInv

LEMMA StopThreadStep ==
  ASSUME SInv, NEW q \in Streams, StopThread(q)
  PROVE  SInv'
<1>1. /\ TypeInv /\ GlobalInv /\ player' = At("join", q, 0)
      /\ m_bStop' = [m_bStop EXCEPT ![q] = TRUE]
      /\ UNCHANGED <<queue, thread, held, want, sync, sent, m_packets, decoded, flushed, clean>>
  BY DEF StopThread, Step, SInv, history
<1>2. player' \in Players /\ player'.step = "join" /\ player'.sync = 0
  BY <1>1, PlayersIs DEF Steps
<1>3. TypeInv'
  BY <1>1, <1>2 DEF TypeInv
<1>4. \A r \in Streams : StreamInv(r)'
  BY <1>1 DEF SInv, StreamInv, PacketsOK
<1>5. GlobalInv'
  BY <1>1, <1>2, Unmoved
<1> QED BY <1>3, <1>4, <1>5 DEF SInv

LEMMA NoSyncStep ==
  ASSUME SInv, NoSync
  PROVE  SInv'
<1>1. /\ TypeInv /\ GlobalInv /\ player' = Run
      /\ UNCHANGED <<queue, thread, held, want, m_bStop, sync, sent, m_packets, decoded, flushed, clean>>
  BY DEF NoSync, Step, SInv, streams, history
<1>2. player' \in Players /\ player'.step = "run" /\ player'.sync = 0
  BY <1>1, PlayersIs DEF Steps, Streams
<1>3. TypeInv'
  BY <1>1, <1>2 DEF TypeInv
<1>4. \A r \in Streams : StreamInv(r)'
  BY <1>1 DEF SInv, StreamInv, PacketsOK
<1>5. GlobalInv'
  BY <1>1, <1>2, Unmoved
<1> QED BY <1>3, <1>4, <1>5 DEF SInv

LEMMA EndStreamStep ==
  ASSUME SInv, NEW q \in Streams, EndStream(q)
  PROVE  SInv'
<1>1. /\ TypeInv /\ StreamInv(q) /\ thread[q] = "none" /\ player' = Run
      /\ queue' = [queue EXCEPT ![q] = End(queue[q])]
      /\ UNCHANGED <<thread, held, want, m_bStop, sync, sent, m_packets, decoded, flushed, clean>>
  BY DEF EndStream, Step, SInv, Change, streams, history
<1>2. PICK R : R = End(queue[q])
  OBVIOUS
<1>3. Good(R) /\ R.m_messages = <<>> /\ R.m_prioMessages = <<>> /\ ~R.m_bInitialized
  BY <1>1, <1>2, EndIs DEF StreamInv
<1>4. held[q] = NoItem /\ held[q].kind = "none"
  BY <1>1, NoItemIs DEF StreamInv, ThreadOK
<1>5. player' \in Players /\ player'.step = "run" /\ player'.sync = 0
  BY <1>1, PlayersIs DEF Steps
<1>6. TypeInv'
  BY <1>1, <1>2, <1>3, <1>5 DEF TypeInv, Good
<1>7. queue'[q] = R /\ \A r \in Streams \ {q} : queue'[r] = queue[r]
  BY <1>1, <1>2 DEF TypeInv
<1>8. Only(q)
  BY <1>1, <1>7 DEF Only
<1>9. M(q)' = {} /\ P(q)' = {}
  BY <1>3, <1>7, EmptyToSet DEF M, P
<1>10. StreamInv(q)'
  <2>1. PacketsOK(q)'
    BY <1>1, <1>3, <1>4, <1>7, <1>9, EmptyOrder, FewerPackets
  <2> QED BY <1>1, <1>3, <1>4, <1>7, <2>1 DEF StreamInv, ThreadOK
<1>11. GlobalInv'
  <2>1. NoNewSyncs(q)
    BY <1>1, <1>4, <1>9 DEF NoNewSyncs, Hands
  <2>2. ASSUME clean', NEW r \in Streams PROVE ~Has(r, "flush")'
    <3>1. ~Has(r, "flush")
      BY <1>1, <2>2 DEF SInv, GlobalInv, BarrierInv
    <3>2. CASE r = q
      BY <1>1, <1>4, <1>9, <3>2, HasIs
    <3>3. CASE r # q
      BY <1>8, <3>1, <3>3, OthersStay DEF SInv, Kinds
    <3> QED BY <3>2, <3>3
  <2>3. q = "video" => OldInv'
    BY <1>1, <1>3, <1>4, <1>7, <1>9 DEF OldInv, Stock, Hands
  <2> QED BY <1>1, <1>5, <1>8, <1>9, <2>1, <2>2, <2>3, Elsewhere
<1>12. \A r \in Streams : StreamInv(r)'
  BY <1>8, <1>10, OthersKeep DEF SInv
<1> QED BY <1>6, <1>11, <1>12 DEF SInv

LEMMA SendPacketStep ==
  ASSUME SInv, NEW q \in Streams, SendPacket(q)
  PROVE  SInv'
<1>1. /\ TypeInv /\ StreamInv(q) /\ GlobalInv /\ player = Run /\ sent[q] < MaxPackets[q]
      /\ queue[q].m_bInitialized
      /\ sent' = [sent EXCEPT ![q] = sent[q] + 1]
      /\ queue' = [queue EXCEPT ![q] = Put(queue[q], Item("packet", sent[q] + 1), 0)]
      /\ UNCHANGED <<thread, held, want, m_bStop, player, sync, m_packets, decoded, flushed, clean>>
  BY DEF SendPacket, SInv, Change, streams, history
<1>2. PICK R, new, it : /\ new = Item("packet", sent[q] + 1) /\ R = Put(queue[q], new, 0)
                        /\ it = [new EXCEPT !.priority = 0]
  OBVIOUS
<1>3. /\ Good(queue[q]) /\ queue[q].m_messages \in Seq(Items) /\ sent[q] \in Nat
      /\ flushed[q] \in Nat /\ decoded[q] \in Nat
      /\ sent[q] + 1 \in Nat /\ sent[q] + 1 <= MaxPackets[q]
  BY <1>1, StreamParts
<1>4. /\ new \in Items /\ new.kind = "packet"
      /\ it \in Items /\ it.kind = "packet" /\ it.n = sent[q] + 1
  <2>1. new \in Items /\ new.kind = "packet" /\ new.n = sent[q] + 1
    <3>1. "packet" \in Kinds
      BY DEF Kinds
    <3>2. PICK n : n = sent[q] + 1 /\ n \in Nat
      BY <1>3
    <3>3. new = Item("packet", n)
      BY <1>2, <3>2
    <3>4. Item("packet", n) \in Items /\ Item("packet", n).kind = "packet" /\ Item("packet", n).n = n
      BY <3>1, <3>2, ItemIs
    <3> QED BY <3>2, <3>3, <3>4
  <2> QED BY <1>2, <2>1, ItemParts
<1>5. /\ Good(R) /\ R.m_messages = <<it>> \o queue[q].m_messages
      /\ R.m_prioMessages = queue[q].m_prioMessages /\ R.m_bInitialized /\ R.m_hEvent
  <2>1. R = Put(queue[q], new, 0) /\ it = [new EXCEPT !.priority = 0]
    BY <1>2
  <2>2. /\ Good(queue[q]) /\ queue[q].m_bInitialized
        /\ new \in Items /\ new.kind \in {"packet", "sync"}
    BY <1>1, <1>3, <1>4
  <2> QED BY <2>1, <2>2, PutIs
<1>6. TypeInv'
  <2>1. sent' \in [Streams -> Nat] /\ \A r \in Streams : sent'[r] <= MaxPackets[r]
    BY <1>1, <1>3 DEF TypeInv
  <2> QED BY <1>1, <1>2, <1>5, <2>1 DEF TypeInv, Good
<1>7. /\ queue'[q] = R /\ sent'[q] = sent[q] + 1
      /\ \A r \in Streams \ {q} : queue'[r] = queue[r] /\ sent'[r] = sent[r]
  BY <1>1, <1>2 DEF TypeInv
<1>8. Only(q)
  BY <1>1, <1>7 DEF Only
<1>9. /\ ToSet(R.m_messages) = M(q) \cup {it}
      /\ \A a, b : InOrder(R.m_messages, a, b) <=>
                     InOrder(queue[q].m_messages, a, b) \/ (a = it /\ b \in M(q))
  BY <1>3, <1>4, <1>5, PrependOrder DEF M
<1>10. M(q)' = M(q) \cup {it} /\ P(q)' = P(q)
  BY <1>5, <1>7, <1>9 DEF M, P
<1>11. StreamInv(q)'
  <2>1. OrderOK(R, held[q], sent[q] + 1, decoded[q])
    <3>1. \A m \in M(q) \cup {held[q]} : m.kind = "packet" => m.n \in Nat /\ m.n <= sent[q]
      BY <1>1, StreamParts, ItemParts DEF StreamInv, PacketsOK, OrderOK, M
    <3> QED BY <1>1, <1>3, <1>4, <1>9, <3>1 DEF StreamInv, PacketsOK, OrderOK, M
  <2>2. ThreadOK(R, thread[q], held[q], want[q])
    BY <1>1, <1>5 DEF StreamInv, ThreadOK
  <2>3. flushed[q] <= sent[q] + 1
    BY <1>1, <1>3 DEF StreamInv
  <2>4. AgainOK(R, held[q], decoded[q])
    BY <1>1, <1>5 DEF StreamInv, PacketsOK, AgainOK
  <2>5. q = "audio" => OnceOK(R, thread[q], held[q], decoded[q])
    <3>1. decoded[q] <= sent[q]
      BY <1>1 DEF StreamInv, PacketsOK, OrderOK
    <3>2. it.n > decoded[q]
      BY <1>3, <1>4, <3>1
    <3> QED BY <1>1, <1>5, <1>9, <3>2 DEF StreamInv, PacketsOK, OnceOK, M
  <2>6. q = "video" => KeptOK(m_packets, thread[q], decoded[q])
    BY <1>1 DEF StreamInv, PacketsOK
  <2> QED BY <1>1, <1>5, <1>7, <2>1, <2>2, <2>3, <2>4, <2>5, <2>6 DEF StreamInv, PacketsOK
<1>12. GlobalInv'
  <2>1. NoNewSyncs(q)
    BY <1>1, <1>4, <1>10 DEF NoNewSyncs, Hands
  <2>2. Run.step = "run"
    BY PlayersIs DEF Steps
  <2>3. Has(q, "flush")' <=> Has(q, "flush")
    BY <1>1, <1>10, HasIs
  <2>4. BarrierInv(q)'
    BY <1>1, <1>10, <2>2, <2>3 DEF GlobalInv, BarrierInv, Decoding
  <2>5. DrainInv(q)'
    BY <1>1, <2>2 DEF DrainInv
  <2>6. ASSUME q = "video" PROVE OldInv'
    <3>1. it.n > flushed[q]
      BY <1>1, <1>3, <1>4 DEF StreamInv
    <3>2. Stock' \subseteq Stock \cup {it}
      BY <1>1, <1>10, <2>6 DEF Stock, Hands
    <3> QED BY <1>1, <2>3, <2>6, <3>1, <3>2 DEF GlobalInv, OldInv
  <2> QED BY <1>1, <1>8, <2>1, <2>4, <2>5, <2>6, OneStream
<1>13. \A r \in Streams : StreamInv(r)'
  BY <1>8, <1>11, OthersKeep DEF SInv
<1> QED BY <1>6, <1>12, <1>13 DEF SInv

LEMMA FlushAudioStep ==
  ASSUME SInv, FlushAudio
  PROVE  SInv'
<1> DEFINE q == "audio"
<1>1. /\ q \in Streams /\ TypeInv /\ StreamInv(q) /\ GlobalInv
      /\ player' = At("flush", q, 0) /\ clean' = FALSE
      /\ queue' = [queue EXCEPT ![q] = Flush(queue[q])]
      /\ UNCHANGED <<thread, held, want, m_bStop, sync, sent, m_packets, decoded, flushed>>
  BY DEF FlushAudio, Begin, Step, SInv, Change, streams, Streams
<1>2. q # "video"
  OBVIOUS
<1> HIDE DEF q
<1>3. PICK R : R = Flush(queue[q])
  OBVIOUS
<1>4. /\ Good(R) /\ ToSet(R.m_messages) \subseteq M(q) /\ ToSet(R.m_prioMessages) = P(q)
      /\ \A a, b : InOrder(R.m_messages, a, b) => InOrder(queue[q].m_messages, a, b)
      /\ queue[q].m_messages = <<>> => R.m_messages = <<>>
      /\ queue[q].m_prioMessages = <<>> => R.m_prioMessages = <<>>
      /\ R.m_bInitialized = queue[q].m_bInitialized /\ R.m_hEvent = queue[q].m_hEvent
      /\ R.m_bAbortRequest = queue[q].m_bAbortRequest
  <2>1. \A m \in P(q) : m.kind # "packet"
    BY <1>1, <1>2 DEF StreamInv, PacketsOK, OnceOK, P, Streams
  <2>2. /\ Good(R)
        /\ ToSet(R.m_messages) = {m \in M(q) : m.kind # "packet"}
        /\ ToSet(R.m_prioMessages) = {m \in P(q) : m.kind # "packet"}
        /\ \A a, b : InOrder(R.m_messages, a, b) => InOrder(queue[q].m_messages, a, b)
        /\ queue[q].m_messages = <<>> => R.m_messages = <<>>
        /\ queue[q].m_prioMessages = <<>> => R.m_prioMessages = <<>>
        /\ R.m_bInitialized = queue[q].m_bInitialized /\ R.m_hEvent = queue[q].m_hEvent
        /\ R.m_bAbortRequest = queue[q].m_bAbortRequest
    BY <1>1, <1>3, FlushIs DEF StreamInv, M, P
  <2>3. ToSet(R.m_prioMessages) = P(q)
    BY <2>1, <2>2
  <2> QED BY <2>2, <2>3
<1>5. player' \in Players /\ player'.step = "flush" /\ player'.sync = 0
  BY <1>1, PlayersIs DEF Steps
<1>6. TypeInv'
  <2>1. clean' \in BOOLEAN
    BY <1>1
  <2>2. R \in QueueType /\ Len(sync) \in Nat
    BY <1>1, <1>4 DEF Good, TypeInv
  <2>3. queue' \in [Streams -> QueueType]
    BY <1>1, <1>3, <2>2 DEF TypeInv
  <2>4. player'.sync <= Len(sync')
    BY <1>1, <1>5, <2>2
  <2> QED BY <1>1, <1>5, <2>1, <2>3, <2>4 DEF TypeInv
<1>7. queue'[q] = R /\ \A r \in Streams \ {q} : queue'[r] = queue[r]
  BY <1>1, <1>3 DEF TypeInv
<1>8. Only(q)
  BY <1>1, <1>7 DEF Only
<1>9. M(q)' \subseteq M(q) /\ P(q)' = P(q)
  BY <1>4, <1>7 DEF M, P
<1>10. StreamInv(q)'
  <2>1. OrderOK(R, held[q], sent[q], decoded[q])
    BY <1>1, <1>4 DEF StreamInv, PacketsOK, OrderOK, M
  <2>2. ThreadOK(R, thread[q], held[q], want[q])
    BY <1>1, <1>4 DEF StreamInv, ThreadOK
  <2>3. AgainOK(R, held[q], decoded[q])
    BY <1>1, <1>4 DEF StreamInv, PacketsOK, AgainOK, P
  <2>4. q = "audio" => OnceOK(R, thread[q], held[q], decoded[q])
    BY <1>1, <1>4 DEF StreamInv, PacketsOK, OnceOK, M, P
  <2> QED BY <1>1, <1>2, <1>4, <1>7, <2>1, <2>2, <2>3, <2>4 DEF StreamInv, PacketsOK
<1>11. GlobalInv'
  <2>1. NoNewSyncs(q)
    BY <1>1, <1>9 DEF NoNewSyncs, Hands
  <2>2. Decoding(q)' => \A m \in P(q)' : m.kind = "sync" => q \notin sync[m.n].reached
    BY <1>1, <1>9 DEF GlobalInv, BarrierInv, Decoding
  <2> QED BY <1>1, <1>2, <1>5, <1>8, <2>1, <2>2, Elsewhere
<1>12. \A r \in Streams : StreamInv(r)'
  BY <1>8, <1>10, OthersKeep, <1>1 DEF SInv
<1> QED BY <1>6, <1>11, <1>12 DEF SInv

(* What an urgent message does to a queue, open or not.                    *)
UrgentlyPut(q, kind, n) ==
  \/ UNCHANGED queue /\ ~queue[q].m_bInitialized
  \/ \E it : /\ it.kind = kind /\ it.n = n
             /\ P(q)' = P(q) \cup {it}
             /\ \A a, b : InOrder(queue'[q].m_prioMessages, a, b) <=>
                            \/ InOrder(queue[q].m_prioMessages, a, b)
                            \/ a = it /\ b \in P(q)

LEMMA UrgentPut ==
  ASSUME SInv, NEW q \in Streams, NEW kind \in {"flush", "sync"}, NEW n \in Nat,
         NEW R, R = Put(queue[q], Item(kind, n), 1), queue' = [queue EXCEPT ![q] = R],
         UNCHANGED <<thread, held, want, sent, m_packets, decoded>>, flushed'[q] <= sent[q],
         \A r \in Streams \ {q} : flushed'[r] = flushed[r]
  PROVE  /\ R \in QueueType /\ Only(q)
         /\ \A r \in Streams : StreamInv(r)'
         /\ M(q)' = M(q) /\ queue'[q].m_messages = queue[q].m_messages
         /\ UrgentlyPut(q, kind, n)
<1>1. /\ TypeInv /\ StreamInv(q) /\ Good(queue[q])
      /\ queue[q].m_prioMessages \in Seq(Items)
  BY StreamParts DEF SInv
<1>2. /\ queue'[q] = R
      /\ \A r \in Streams \ {q} : queue'[r] = queue[r]
  BY <1>1 DEF TypeInv
<1>3. Only(q)
  BY <1>2 DEF Only
<1>4. CASE ~queue[q].m_bInitialized
  <2>1. R = queue[q]
    BY <1>4, ClosedIs
  <2>2. queue' = queue
    BY <1>1, <2>1 DEF TypeInv
  <2>3. StreamInv(q)'
    BY <1>1, <2>2 DEF StreamInv, PacketsOK
  <2>4. \A r \in Streams : StreamInv(r)'
    BY <1>3, <2>3, OthersKeep DEF SInv
  <2> QED BY <1>1, <1>3, <1>4, <2>1, <2>2, <2>4 DEF Good, M, UrgentlyPut
<1>5. CASE queue[q].m_bInitialized
  <2>1. PICK new, it : new = Item(kind, n) /\ it = [new EXCEPT !.priority = 1]
    OBVIOUS
  <2>2. new \in Items /\ new.kind = kind /\ new.n = n
    <3>1. kind \in Kinds /\ n \in Nat
      BY DEF Kinds
    <3> QED BY <2>1, <3>1, ItemIs
  <2>3. it \in Items /\ it.kind = kind /\ it.n = n
    BY <2>1, <2>2, ItemParts
  <2>4. /\ Good(R) /\ R.m_prioMessages = <<it>> \o queue[q].m_prioMessages
        /\ R.m_messages = queue[q].m_messages /\ R.m_bInitialized /\ R.m_hEvent
    <3>1. R = Put(queue[q], new, 1) /\ new.kind \in {"flush", "sync"}
      BY <2>1, <2>2
    <3>2. PICK Q : Q = queue[q]
      OBVIOUS
    <3>3. Good(Q) /\ Q.m_bInitialized /\ R = Put(Q, new, 1)
      BY <1>1, <1>5, <3>1, <3>2
    <3>4. /\ Good(R) /\ R.m_prioMessages = <<[new EXCEPT !.priority = 1]>> \o Q.m_prioMessages
          /\ R.m_messages = Q.m_messages /\ R.m_bInitialized /\ R.m_hEvent
      BY <2>2, <3>1, <3>3, PutUrgentIs
    <3> QED BY <2>1, <3>2, <3>4
  <2>5. /\ ToSet(R.m_prioMessages) = P(q) \cup {it}
        /\ \A a, b : InOrder(R.m_prioMessages, a, b) <=>
                       InOrder(queue[q].m_prioMessages, a, b) \/ (a = it /\ b \in P(q))
    <3>1. PICK s : s = queue[q].m_prioMessages
      OBVIOUS
    <3>2. s \in Seq(Items) /\ R.m_prioMessages = <<it>> \o s /\ P(q) = ToSet(s)
      BY <1>1, <2>4, <3>1 DEF P
    <3>3. /\ ToSet(<<it>> \o s) = ToSet(s) \cup {it}
          /\ \A a, b : InOrder(<<it>> \o s, a, b) <=> InOrder(s, a, b) \/ (a = it /\ b \in ToSet(s))
      BY <2>3, <3>2, PrependOrder
    <3> QED BY <3>1, <3>2, <3>3
  <2>6. StreamInv(q)'
    <3>1. OrderOK(R, held[q], sent[q], decoded[q])
      BY <1>1, <2>4 DEF StreamInv, PacketsOK, OrderOK
    <3>2. AgainOK(R, held[q], decoded[q])
      BY <1>1, <2>3, <2>5 DEF StreamInv, PacketsOK, AgainOK, P
    <3>3. q = "audio" => OnceOK(R, thread[q], held[q], decoded[q])
      BY <1>1, <2>3, <2>4, <2>5 DEF StreamInv, PacketsOK, OnceOK, P
    <3>4. q = "video" => KeptOK(m_packets, thread[q], decoded[q])
      BY <1>1 DEF StreamInv, PacketsOK
    <3>5. ThreadOK(R, thread[q], held[q], want[q])
      BY <1>1, <2>4 DEF StreamInv, ThreadOK
    <3> QED BY <1>1, <1>2, <2>4, <3>1, <3>2, <3>3, <3>4, <3>5 DEF StreamInv, PacketsOK
  <2>7. \A r \in Streams : StreamInv(r)'
    BY <1>3, <2>6, OthersKeep DEF SInv
  <2>8. M(q)' = M(q) /\ P(q)' = P(q) \cup {it}
    BY <1>2, <2>4, <2>5 DEF M, P
  <2>9. UrgentlyPut(q, kind, n)
    BY <1>2, <2>3, <2>5, <2>8 DEF UrgentlyPut
  <2> QED BY <1>2, <1>3, <2>4, <2>7, <2>8, <2>9 DEF Good
<1> QED BY <1>4, <1>5

LEMMA SendFlushStep ==
  ASSUME SInv, NEW q \in Streams, SendFlush(q)
  PROVE  SInv'
<1>1. /\ TypeInv /\ GlobalInv /\ player.step = "flush"
      /\ player' \in {At("flush", "video", 0), At("flushed", "video", 0)}
      /\ queue' = [queue EXCEPT ![q] = Put(queue[q], Item("flush", 0), 1)]
      /\ flushed' = [flushed EXCEPT ![q] = sent[q]]
      /\ UNCHANGED <<thread, held, want, m_bStop, sync, sent, m_packets, decoded, clean>>
  <2>1. player \in {At("flush", "audio", 0), At("flush", "video", 0)}
    BY DEF SendFlush, Step
  <2>2. player.step = "flush"
    BY <2>1 DEF At
  <2> QED BY <2>2 DEF SendFlush, Step, SInv, Change, streams
<1>2. /\ sent[q] \in Nat /\ flushed'[q] = sent[q] /\ held[q] \in Items
      /\ \A r \in Streams \ {q} : flushed'[r] = flushed[r]
  BY <1>1, StreamParts DEF TypeInv, SInv
<1>3. PICK R : R = Put(queue[q], Item("flush", 0), 1)
  OBVIOUS
<1>4. /\ R \in QueueType /\ Only(q) /\ (\A r \in Streams : StreamInv(r)')
      /\ M(q)' = M(q)
      /\ \/ UNCHANGED queue /\ ~queue[q].m_bInitialized
         \/ \E it : it.kind = "flush" /\ P(q)' = P(q) \cup {it}
  <2>1. flushed'[q] <= sent[q] /\ "flush" \in {"flush", "sync"}
    BY <1>2
  <2>2. queue' = [queue EXCEPT ![q] = R]
    BY <1>1, <1>3
  <2>3. /\ R \in QueueType /\ Only(q) /\ (\A r \in Streams : StreamInv(r)')
        /\ M(q)' = M(q) /\ UrgentlyPut(q, "flush", 0)
    BY <1>1, <1>2, <1>3, <2>1, <2>2, UrgentPut
  <2> QED BY <2>3 DEF UrgentlyPut
<1>5. /\ player' \in Players /\ player'.step \in {"flush", "flushed"} /\ player'.sync = 0
  BY <1>1 DEF At, Players, Steps, Streams
<1>6. TypeInv'
  BY <1>1, <1>2, <1>3, <1>4, <1>5 DEF TypeInv
<1>7. GlobalInv'
  <2>1. NoNewSyncs(q)
    BY <1>1, <1>4 DEF NoNewSyncs, Hands, M, P
  <2>2. ~clean'
    BY <1>1 DEF GlobalInv, BarrierInv
  <2>3. Decoding(q)' => \A m \in P(q)' : m.kind = "sync" => q \notin sync[m.n].reached
    <3>1. \A m \in P(q)' : m.kind \in {"sync", "packet"} => m \in P(q)
      BY <1>4 DEF P
    <3>2. Decoding(q)' => Decoding(q)
      BY <1>1, <3>1 DEF Decoding
    <3> QED BY <1>1, <3>1, <3>2 DEF GlobalInv, BarrierInv
  <2>4. ASSUME q = "video" PROVE OldInv'
    <3>1. CASE UNCHANGED queue /\ ~queue[q].m_bInitialized
      <4>1. M(q)' = {} /\ P(q)' = {} /\ held'[q].kind = "none" /\ ~queue'[q].m_bInitialized
        BY <1>1, <1>4, <3>1, StreamParts, NoItemIs DEF SInv, P
      <4> QED BY <2>4, <4>1 DEF OldInv, Stock, Hands
    <3>2. CASE \E it : it.kind = "flush" /\ P(q)' = P(q) \cup {it}
      <4>1. Has(q, "flush")'
        BY <3>2, HasIs
      <4> QED BY <2>4, <4>1 DEF OldInv
    <3> QED BY <1>4, <3>1, <3>2
  <2> QED BY <1>1, <1>4, <1>5, <2>1, <2>2, <2>3, <2>4, Elsewhere
<1> QED BY <1>4, <1>6, <1>7 DEF SInv

(* One more synchronization message.                                       *)
LEMMA OneMoreSync ==
  ASSUME sync \in Seq(Syncs), NEW sources \in {Streams, {"any"}},
         sync' = Append(sync, NewSync(sources))
  PROVE  /\ Len(sync) \in Nat /\ DOMAIN sync = 1..Len(sync)
         /\ sync' \in Seq(Syncs) /\ Len(sync') = Len(sync) + 1
         /\ DOMAIN sync' = DOMAIN sync \cup {Len(sync) + 1}
         /\ Len(sync) + 1 \notin DOMAIN sync
         /\ \A k \in DOMAIN sync : sync'[k] = sync[k]
         /\ sync'[Len(sync) + 1].sources = sources /\ sync'[Len(sync) + 1].reached = {}
<1>1. /\ NewSync(sources) \in Syncs
      /\ NewSync(sources).sources = sources /\ NewSync(sources).reached = {}
  BY DEF NewSync, Syncs
<1> QED BY <1>1, AppendProperties

(* The messages there are do not name it.                                  *)
LEMMA NotYetMade ==
  ASSUME SInv, NEW r \in Streams, NEW m \in Hands(r)
  PROVE  ~Is(m, Len(sync) + 1)
<1>1. m.kind = "sync" => m.n \in DOMAIN sync
  BY DEF SInv, GlobalInv, SyncInv
<1>2. Len(sync) \in Nat /\ DOMAIN sync = 1..Len(sync)
  BY DEF SInv, TypeInv
<1> QED BY <1>1, <1>2 DEF Is

LEMMA SyncAudioStep ==
  ASSUME SInv, SyncAudio
  PROVE  SInv'
<1> DEFINE q == "audio"
<1>1. /\ q \in Streams /\ TypeInv /\ GlobalInv /\ Len(sync) < MaxSyncs
      /\ player' = At("sync", "video", Len(sync) + 1)
      /\ sync' = Append(sync, NewSync(Streams))
      /\ queue' = [queue EXCEPT ![q] = Put(queue[q], Item("sync", Len(sync) + 1), 1)]
      /\ UNCHANGED <<thread, held, want, m_bStop, sent, m_packets, decoded, flushed, clean>>
  BY DEF SyncAudio, Step, SInv, Change, streams, history, Streams
<1>2. q # "video"
  OBVIOUS
<1> HIDE DEF q
<1>3. PICK n : n = Len(sync) + 1
  OBVIOUS
<1>4. /\ Len(sync) \in Nat /\ DOMAIN sync = 1..Len(sync)
      /\ sync' \in Seq(Syncs) /\ Len(sync') = n
      /\ DOMAIN sync' = DOMAIN sync \cup {n} /\ n \notin DOMAIN sync
      /\ \A k \in DOMAIN sync : sync'[k] = sync[k]
      /\ sync'[n].sources = Streams /\ sync'[n].reached = {}
  BY <1>1, <1>3, OneMoreSync DEF TypeInv
<1>5. n \in Nat /\ n <= MaxSyncs
  BY <1>1, <1>3, <1>4, BoundsAssumption
<1>6. PICK R : R = Put(queue[q], Item("sync", n), 1)
  OBVIOUS
<1>7. /\ R \in QueueType /\ Only(q) /\ (\A r \in Streams : StreamInv(r)')
      /\ M(q)' = M(q) /\ queue'[q].m_messages = queue[q].m_messages
      /\ UrgentlyPut(q, "sync", n)
  <2>1. queue' = [queue EXCEPT ![q] = R] /\ flushed'[q] <= sent[q]
    BY <1>1, <1>3, <1>6 DEF SInv, StreamInv
  <2> QED BY <1>1, <1>5, <1>6, <2>1, UrgentPut
<1>8. /\ player' \in Players /\ player'.step = "sync" /\ player'.sync = n
  BY <1>1, <1>3, <1>5, PlayersIs DEF Steps, Streams
<1>9. TypeInv'
  <2>1. queue' \in [Streams -> QueueType]
    BY <1>1, <1>3, <1>6, <1>7 DEF TypeInv
  <2>2. player'.sync <= Len(sync')
    BY <1>4, <1>5, <1>8
  <2> QED BY <1>1, <1>4, <1>5, <1>8, <2>1, <2>2 DEF TypeInv
<1>10. \A r \in Streams : \A m \in Hands(r) : ~Is(m, n)
  BY <1>3, NotYetMade
<1>11. \A r \in Streams : /\ M(r)' = M(r) /\ held'[r] = held[r]
                          /\ queue'[r].m_messages = queue[r].m_messages
                          /\ \A m \in P(r)' : m \in P(r) \/ (r = q /\ m.kind = "sync" /\ m.n = n)
  <2>1. \A r \in Streams \ {q} : /\ M(r)' = M(r) /\ P(r)' = P(r)
                                 /\ queue'[r].m_messages = queue[r].m_messages
    BY <1>1, <1>7, OthersStay
  <2>2. \A m \in P(q)' : m \in P(q) \/ (m.kind = "sync" /\ m.n = n)
    BY <1>7 DEF UrgentlyPut, P
  <2> QED BY <1>1, <1>7, <2>1, <2>2
<1>12. \A r \in Streams : Has(r, "flush")' => Has(r, "flush")
  BY <1>11, HasIs
<1>13. OldInv'
  <2>1. "video" \in Streams \ {q}
    BY <1>2 DEF Streams
  <2> QED BY <1>1, <1>7, <2>1, OthersStay
<1>14. SyncInv'
  <2>1. SyncInv
    BY <1>1 DEF GlobalInv
  <2>2. \A s \in DOMAIN sync' : sync'[s].reached \subseteq sync'[s].sources
    BY <1>4, <2>1 DEF SyncInv
  <2>3. ASSUME NEW r \in Streams
        PROVE  /\ \A m \in Hands(r)' : m.kind = "sync" => m.n \in DOMAIN sync'
               /\ \A m \in M(r)' : m.kind = "sync" => sync'[m.n].sources = {"any"}
    <3>1. /\ \A m \in Hands(r) : m.kind = "sync" => m.n \in DOMAIN sync
          /\ \A m \in M(r) : m.kind = "sync" => sync[m.n].sources = {"any"}
      BY <2>1 DEF SyncInv
    <3>2. \A m \in Hands(r)' : m \in Hands(r) \/ m.n = n
      BY <1>11 DEF Hands
    <3>3. M(r)' = M(r) /\ M(r) \subseteq Hands(r)
      BY <1>11 DEF Hands
    <3> QED BY <1>4, <3>1, <3>2, <3>3
  <2> QED BY <1>4, <1>8, <2>2, <2>3 DEF SyncInv
<1>15. UnmetInv'
  <2>1. Hands("video")' = Hands("video") /\ "video" \in Streams
    BY <1>1, <1>2, <1>7, OthersStay DEF Streams
  <2> QED BY <1>4, <1>8, <1>10, <2>1 DEF UnmetInv
<1>16. ASSUME NEW r \in Streams PROVE BarrierInv(r)'
  <2>1. BarrierInv(r) /\ SyncInv
    BY <1>1 DEF GlobalInv
  <2>2. ASSUME Decoding(r)', NEW m \in P(r)', m.kind = "sync"
        PROVE  r \notin sync'[m.n].reached
    <3>1. CASE m \in P(r)
      <4>1. Decoding(r)
        BY <1>1, <1>11, <2>2 DEF Decoding
      <4>2. m.n \in DOMAIN sync /\ r \notin sync[m.n].reached
        BY <2>1, <2>2, <3>1, <4>1 DEF SyncInv, Hands, BarrierInv
      <4> QED BY <1>4, <4>2
    <3>2. CASE m.n = n
      BY <1>4, <3>2
    <3> QED BY <1>11, <2>2, <3>1, <3>2
  <2>3. ASSUME NEW a, NEW b, InOrder(queue'[r].m_prioMessages, a, b)
        PROVE  a.kind # "flush" \/ ~Is(b, n)
    <3>1. InOrder(queue[r].m_prioMessages, a, b) \/ a.kind = "sync"
      <4>1. CASE r = q
        BY <1>7, <2>3, <4>1 DEF UrgentlyPut
      <4>2. CASE r # q
        BY <1>1, <1>7, <2>3, <4>2, OthersStay
      <4> QED BY <4>1, <4>2
    <3>2. InOrder(queue[r].m_prioMessages, a, b) => ~Is(b, n)
      BY <1>10, InOrderElements DEF Hands, P
    <3> QED BY <3>1, <3>2
  <2>4. ~Is(held'[r], n)
    BY <1>10, <1>11 DEF Hands
  <2>5. clean' => ~Has(r, "flush")'
    BY <1>1, <1>12, <2>1 DEF BarrierInv
  <2> QED BY <1>4, <1>8, <1>11, <2>2, <2>3, <2>4, <2>5 DEF BarrierInv
<1>17. \A r \in Streams : DrainInv(r)'
  BY <1>8 DEF DrainInv
<1> QED BY <1>7, <1>9, <1>13, <1>14, <1>15, <1>16, <1>17 DEF SInv, GlobalInv

LEMMA SyncVideoStep ==
  ASSUME SInv, SyncVideo
  PROVE  SInv'
<1> DEFINE q == "video"
<1>1. /\ q \in Streams /\ TypeInv /\ GlobalInv /\ player.step = "sync"
      /\ player' = [player EXCEPT !.step = "waitsync"]
      /\ queue' = [queue EXCEPT ![q] = Put(queue[q], Item("sync", player.sync), 1)]
      /\ UNCHANGED <<thread, held, want, m_bStop, sync, sent, m_packets, decoded, flushed, clean>>
  BY DEF SyncVideo, SInv, Change, streams, history, Streams
<1>2. /\ \A m \in Hands(q) : ~Is(m, player.sync)
      /\ q \notin sync[player.sync].reached
  BY <1>1 DEF GlobalInv, UnmetInv
<1>3. \A r \in Streams : r # q => r = "audio"
  BY DEF Streams
<1>4. /\ OldInv <=> (~Has(q, "flush") =>
            \A m \in Stock : m.kind = "packet" => m.n > flushed[q])
      /\ OldInv' <=> (~Has(q, "flush")' =>
            \A m \in Stock' : m.kind = "packet" => m.n > flushed'[q])
  BY DEF OldInv
<1>5. /\ Stock = M(q) \cup P(q) \cup {held[q]}
                 \cup (IF queue[q].m_bInitialized THEN ToSet(m_packets) ELSE {})
      /\ Stock' = M(q)' \cup P(q)' \cup {held'[q]}
                 \cup (IF queue'[q].m_bInitialized THEN ToSet(m_packets') ELSE {})
  BY DEF Stock, Hands
<1> HIDE DEF q
<1>6. PICK n : n = player.sync
  OBVIOUS
<1>7. n \in DOMAIN sync /\ sync[n].sources = Streams /\ n \in Nat
  BY <1>1, <1>6 DEF GlobalInv, SyncInv, TypeInv
<1>8. PICK R : R = Put(queue[q], Item("sync", n), 1)
  OBVIOUS
<1>9. /\ R \in QueueType /\ Only(q) /\ (\A r \in Streams : StreamInv(r)')
      /\ M(q)' = M(q) /\ queue'[q].m_messages = queue[q].m_messages
      /\ UrgentlyPut(q, "sync", n)
  <2>1. queue' = [queue EXCEPT ![q] = R] /\ flushed'[q] <= sent[q]
    BY <1>1, <1>6, <1>8 DEF SInv, StreamInv
  <2> QED BY <1>1, <1>7, <1>8, <2>1, UrgentPut
<1>10. /\ player' \in Players /\ player'.step = "waitsync" /\ player'.sync = n
  BY <1>1, <1>6 DEF TypeInv, Players, Steps
<1>11. TypeInv'
  <2>1. queue' \in [Streams -> QueueType]
    BY <1>1, <1>6, <1>8, <1>9 DEF TypeInv
  <2>2. player'.sync <= Len(sync')
    BY <1>1, <1>6, <1>10 DEF TypeInv
  <2> QED BY <1>1, <1>10, <2>1, <2>2 DEF TypeInv
<1>12. \A r \in Streams : /\ M(r)' = M(r) /\ held'[r] = held[r]
                          /\ \A m \in P(r)' : m \in P(r) \/ (r = q /\ m.kind = "sync" /\ m.n = n)
  <2>1. \A r \in Streams \ {q} : M(r)' = M(r) /\ P(r)' = P(r)
    BY <1>1, <1>9, OthersStay
  <2>2. \A m \in P(q)' : m \in P(q) \/ (m.kind = "sync" /\ m.n = n)
    BY <1>9 DEF UrgentlyPut, P
  <2> QED BY <1>1, <1>9, <2>1, <2>2
<1>13. \A r \in Streams : Has(r, "flush")' <=> Has(r, "flush")
  <2>1. \A r \in Streams \ {q} : Has(r, "flush")' <=> Has(r, "flush")
    BY <1>1, <1>9, OthersStay DEF Kinds
  <2>2. P(q) \subseteq P(q)'
    BY <1>9 DEF UrgentlyPut, P
  <2>3. Has(q, "flush")' <=> Has(q, "flush")
    BY <1>1, <1>12, <2>2, HasIs
  <2> QED BY <2>1, <2>3
<1>14. OldInv'
  <2>1. \A m \in P(q)' : m \in P(q) \/ m.kind = "sync"
    BY <1>1, <1>12
  <2>2. queue'[q].m_bInitialized => queue[q].m_bInitialized
    <3>1. R.m_bInitialized => queue[q].m_bInitialized
      BY <1>8, ClosedIs
    <3> QED BY <1>1, <1>6, <1>8, <3>1 DEF TypeInv
  <2>3. \A m \in Stock' : m \in Stock \/ m.kind = "sync"
    BY <1>1, <1>5, <1>9, <2>1, <2>2
  <2> QED BY <1>1, <1>4, <1>13, <2>3 DEF GlobalInv
<1>15. SyncInv'
  <2>1. SyncInv
    BY <1>1 DEF GlobalInv
  <2>2. ASSUME NEW r \in Streams
        PROVE  /\ \A m \in Hands(r)' : m.kind = "sync" => m.n \in DOMAIN sync
               /\ \A m \in M(r)' : m.kind = "sync" => sync[m.n].sources = {"any"}
    <3>1. /\ \A m \in Hands(r) : m.kind = "sync" => m.n \in DOMAIN sync
          /\ \A m \in M(r) : m.kind = "sync" => sync[m.n].sources = {"any"}
      BY <2>1 DEF SyncInv
    <3>2. \A m \in Hands(r)' : m \in Hands(r) \/ m.n = n
      BY <1>12 DEF Hands
    <3> QED BY <1>7, <1>12, <3>1, <3>2
  <2> QED BY <1>1, <1>7, <1>10, <2>1, <2>2 DEF SyncInv
<1>16. UnmetInv'
  BY <1>10 DEF UnmetInv
<1>17. ASSUME NEW r \in Streams PROVE BarrierInv(r)'
  <2>1. BarrierInv(r)
    BY <1>1 DEF GlobalInv
  <2>2. ASSUME Decoding(r)', NEW m \in P(r)', m.kind = "sync"
        PROVE  r \notin sync[m.n].reached
    <3>1. Decoding(r)
      BY <1>1, <1>12, <2>2 DEF Decoding
    <3> QED BY <1>2, <1>6, <1>12, <2>1, <2>2, <3>1 DEF BarrierInv
  <2>3. ASSUME NEW a, NEW b, InOrder(queue'[r].m_prioMessages, a, b)
        PROVE  a.kind # "flush" \/ ~Is(b, n)
    <3>1. InOrder(queue[r].m_prioMessages, a, b) \/ a.kind = "sync"
      <4>1. CASE r = q
        BY <1>9, <2>3, <4>1 DEF UrgentlyPut
      <4>2. CASE r # q
        BY <1>1, <1>9, <2>3, <4>2, OthersStay
      <4> QED BY <4>1, <4>2
    <3> QED BY <1>1, <1>6, <2>1, <3>1 DEF BarrierInv
  <2>4. Is(held'[r], n) => \A m \in P(r)' : m.kind # "flush"
    <3>1. Is(held[r], n) => \A m \in P(r) : m.kind # "flush"
      BY <1>1, <1>6, <2>1 DEF BarrierInv
    <3> QED BY <1>12, <3>1
  <2>5. /\ r \in sync[n].reached => ~Has(r, "flush")'
        /\ clean' => ~Has(r, "flush")'
    BY <1>1, <1>6, <1>13, <2>1 DEF BarrierInv
  <2> QED BY <1>1, <1>10, <1>12, <2>2, <2>3, <2>4, <2>5 DEF BarrierInv
<1>18. \A r \in Streams : DrainInv(r)'
  BY <1>10 DEF DrainInv
<1> QED BY <1>9, <1>11, <1>14, <1>15, <1>16, <1>17, <1>18 DEF SInv, GlobalInv

LEMMA SyncEndsStep ==
  ASSUME SInv, SyncEnds
  PROVE  SInv'
<1>1. /\ TypeInv /\ GlobalInv /\ player.step = "waitsync" /\ player' = Run
      /\ clean' = Reached(player.sync)
      /\ UNCHANGED <<queue, thread, held, want, m_bStop, sync, sent, m_packets, decoded, flushed>>
  BY DEF SyncEnds, SInv, streams
<1>2. player' \in Players /\ player'.step = "run" /\ player'.sync = 0
  BY <1>1, PlayersIs DEF Steps, Streams
<1>3. clean' \in BOOLEAN
  BY <1>1 DEF Reached
<1>4. TypeInv'
  BY <1>1, <1>2, <1>3 DEF TypeInv
<1>5. \A r \in Streams : StreamInv(r)'
  BY <1>1 DEF SInv, StreamInv, PacketsOK
<1>6. "video" \in Streams /\ Only("video")
  BY <1>1 DEF Streams, Only
<1>7. M("video")' = M("video") /\ P("video")' = P("video") /\ Hands("video")' = Hands("video")
  BY <1>1 DEF M, P, Hands
<1>8. NoNewSyncs("video")
  BY <1>7 DEF NoNewSyncs
<1>9. ASSUME clean', NEW r \in Streams PROVE ~Has(r, "flush")'
  <2>1. r \in sync[player.sync].reached
    BY <1>1, <1>9 DEF Reached, GlobalInv, SyncInv
  <2>2. ~Has(r, "flush")
    BY <1>1, <2>1 DEF GlobalInv, BarrierInv
  <2> QED BY <1>1, <2>2 DEF Has
<1>10. Decoding("video")' =>
         \A m \in P("video")' : m.kind = "sync" => "video" \notin sync[m.n].reached
  BY <1>1, <1>6, <1>7 DEF GlobalInv, BarrierInv, Decoding
<1>11. OldInv'
  <2>1. Has("video", "flush")' <=> Has("video", "flush")
    BY <1>1 DEF Has
  <2> QED BY <1>1, <1>7, <2>1 DEF GlobalInv, OldInv, Stock
<1>12. GlobalInv'
  BY <1>1, <1>2, <1>6, <1>8, <1>9, <1>10, <1>11, Elsewhere
<1> QED BY <1>4, <1>5, <1>12 DEF SInv

LEMMA StartDrainStep ==
  ASSUME SInv, NEW q \in Streams, StartDrain(q)
  PROVE  SInv'
<1>1. /\ TypeInv /\ StreamInv(q) /\ GlobalInv /\ Len(sync) < MaxSyncs
      /\ player' = At("drain", q, Len(sync) + 1)
      /\ sync' = Append(sync, NewSync({"any"}))
      /\ queue' = [queue EXCEPT ![q] = [queue[q] EXCEPT !.m_drain = TRUE]]
      /\ UNCHANGED <<thread, held, want, m_bStop, sent, m_packets, decoded, flushed, clean>>
  BY DEF StartDrain, Begin, Step, SInv, Change, streams, history
<1>2. PICK n, R : n = Len(sync) + 1 /\ R = [queue[q] EXCEPT !.m_drain = TRUE]
  OBVIOUS
<1>3. /\ Len(sync) \in Nat /\ DOMAIN sync = 1..Len(sync)
      /\ sync' \in Seq(Syncs) /\ Len(sync') = n
      /\ DOMAIN sync' = DOMAIN sync \cup {n} /\ n \notin DOMAIN sync
      /\ \A k \in DOMAIN sync : sync'[k] = sync[k]
      /\ sync'[n].sources = {"any"} /\ sync'[n].reached = {}
  BY <1>1, <1>2, OneMoreSync DEF TypeInv
<1>4. n \in Nat /\ n <= MaxSyncs
  BY <1>1, <1>2, <1>3, BoundsAssumption
<1>5. /\ Good(R) /\ R.m_messages = queue[q].m_messages
      /\ R.m_prioMessages = queue[q].m_prioMessages
      /\ R.m_bInitialized = queue[q].m_bInitialized /\ R.m_hEvent = queue[q].m_hEvent
      /\ R.m_bAbortRequest = queue[q].m_bAbortRequest
  BY <1>1, <1>2, DrainIs DEF StreamInv
<1>6. /\ player' \in Players /\ player'.step = "drain" /\ player'.q = q /\ player'.sync = n
  BY <1>1, <1>2, <1>4, PlayersIs DEF Steps
<1>7. TypeInv'
  <2>1. queue' \in [Streams -> QueueType]
    BY <1>1, <1>2, <1>5 DEF TypeInv, Good
  <2>2. player'.sync <= Len(sync')
    BY <1>3, <1>4, <1>6
  <2> QED BY <1>1, <1>3, <1>4, <1>6, <2>1, <2>2 DEF TypeInv
<1>8. queue'[q] = R /\ \A r \in Streams \ {q} : queue'[r] = queue[r]
  BY <1>1, <1>2 DEF TypeInv
<1>9. Only(q)
  BY <1>1, <1>8 DEF Only
<1>10. StreamInv(q)'
  <2>1. PacketsOK(q)'
    BY <1>1, <1>5, <1>8, SamePackets
  <2> QED BY <1>1, <1>5, <1>8, <2>1 DEF StreamInv, ThreadOK
<1>11. \A r \in Streams : StreamInv(r)'
  BY <1>9, <1>10, OthersKeep DEF SInv
<1>12. \A r \in Streams : /\ queue'[r].m_messages = queue[r].m_messages
                          /\ queue'[r].m_prioMessages = queue[r].m_prioMessages
  BY <1>5, <1>8
<1>13. \A r \in Streams : M(r)' = M(r) /\ P(r)' = P(r) /\ Hands(r)' = Hands(r)
  BY <1>1, <1>12 DEF M, P, Hands
<1>14. \A r \in Streams : Has(r, "flush")' <=> Has(r, "flush")
  BY <1>1, <1>13, HasIs
<1>15. OldInv'
  <2>1. \A r \in Streams : queue'[r].m_bInitialized = queue[r].m_bInitialized
    BY <1>5, <1>8
  <2>2. Stock' = Stock
    BY <1>1, <1>13, <2>1 DEF Stock, Streams
  <2> QED BY <1>1, <1>14, <2>2 DEF GlobalInv, OldInv, Streams
<1>16. SyncInv'
  <2>1. SyncInv
    BY <1>1 DEF GlobalInv
  <2>2. \A s \in DOMAIN sync' : sync'[s].reached \subseteq sync'[s].sources
    BY <1>3, <2>1 DEF SyncInv
  <2>3. ASSUME NEW r \in Streams
        PROVE  /\ \A m \in Hands(r)' : m.kind = "sync" => m.n \in DOMAIN sync'
               /\ \A m \in M(r)' : m.kind = "sync" => sync'[m.n].sources = {"any"}
    <3>1. /\ \A m \in Hands(r) : m.kind = "sync" => m.n \in DOMAIN sync
          /\ \A m \in M(r) : m.kind = "sync" => sync[m.n].sources = {"any"}
      BY <2>1 DEF SyncInv
    <3>2. M(r) \subseteq Hands(r)
      BY DEF Hands
    <3> QED BY <1>3, <1>13, <3>1, <3>2
  <2> QED BY <1>3, <1>6, <2>2, <2>3 DEF SyncInv
<1>17. UnmetInv'
  BY <1>6 DEF UnmetInv
<1>18. ASSUME NEW r \in Streams PROVE BarrierInv(r)'
  <2>1. BarrierInv(r) /\ SyncInv
    BY <1>1 DEF GlobalInv
  <2>2. ASSUME Decoding(r)', NEW m \in P(r), m.kind = "sync"
        PROVE  r \notin sync'[m.n].reached
    <3>1. Decoding(r)
      BY <1>1, <1>13, <2>2 DEF Decoding
    <3>2. m.n \in DOMAIN sync /\ r \notin sync[m.n].reached
      BY <2>1, <2>2, <3>1 DEF SyncInv, Hands, BarrierInv
    <3> QED BY <1>3, <3>2
  <2>3. clean' => ~Has(r, "flush")'
    BY <1>1, <1>14, <2>1 DEF BarrierInv
  <2> QED BY <1>1, <1>6, <1>13, <2>2, <2>3 DEF BarrierInv
<1>19. ASSUME NEW r \in Streams PROVE DrainInv(r)'
  <2>1. \A m \in Hands(r)' : ~Is(m, n)
    BY <1>2, <1>13, NotYetMade
  <2> QED BY <1>3, <1>6, <2>1 DEF DrainInv
<1> QED BY <1>7, <1>11, <1>15, <1>16, <1>17, <1>18, <1>19 DEF SInv, GlobalInv

LEMMA PutDrainStep ==
  ASSUME SInv, NEW q \in Streams, PutDrain(q)
  PROVE  SInv'
<1>1. /\ TypeInv /\ StreamInv(q) /\ GlobalInv
      /\ player.step = "drain" /\ player.q = q
      /\ player' = [player EXCEPT !.step = "waitdrain"]
      /\ queue' = [queue EXCEPT ![q] = Put(queue[q], Item("sync", player.sync), 0)]
      /\ UNCHANGED <<thread, held, want, m_bStop, sync, sent, m_packets, decoded, flushed, clean>>
  BY DEF PutDrain, SInv, Change, streams, history
<1>2. PICK n, new, R : n = player.sync /\ new = Item("sync", n) /\ R = Put(queue[q], new, 0)
  OBVIOUS
<1>3. n \in DOMAIN sync /\ sync[n].sources = {"any"} /\ n \in Nat /\ n <= MaxSyncs
  BY <1>1, <1>2, BoundsAssumption DEF GlobalInv, SyncInv, TypeInv
<1>4. PICK it : it = [new EXCEPT !.priority = 0]
  OBVIOUS
<1>5. /\ new \in Items /\ new.kind = "sync"
      /\ it \in Items /\ it.kind = "sync" /\ it.n = n
  <2>1. new \in Items /\ new.kind = "sync" /\ new.n = n
    <3>1. "sync" \in Kinds
      BY DEF Kinds
    <3>2. new = Item("sync", n)
      BY <1>2
    <3>3. /\ Item("sync", n) \in Items
          /\ Item("sync", n).kind = "sync" /\ Item("sync", n).n = n
      BY <1>3, <3>1, ItemIs
    <3> QED BY <3>2, <3>3
  <2> QED BY <1>4, <2>1, ItemParts
<1>6. /\ Good(queue[q]) /\ queue[q].m_bInitialized \in BOOLEAN
      /\ queue[q].m_messages \in Seq(Items)
  BY <1>1, StreamParts
<1>7. Good(R)
  <2>1. CASE ~queue[q].m_bInitialized
    BY <1>2, <1>6, <2>1, ClosedIs
  <2>2. CASE queue[q].m_bInitialized
    BY <1>2, <1>5, <1>6, <2>2, PutIs
  <2> QED BY <2>1, <2>2
<1>8. /\ queue' = [queue EXCEPT ![q] = R] /\ queue'[q] = R
      /\ \A r \in Streams \ {q} : queue'[r] = queue[r]
  BY <1>1, <1>2 DEF TypeInv
<1>9. Only(q)
  BY <1>1, <1>8 DEF Only
<1>10. /\ player' \in Players /\ player'.step = "waitdrain" /\ player'.q = q
       /\ player'.sync = n
  BY <1>1, <1>2 DEF TypeInv, Players, Steps
<1>11. TypeInv'
  <2>1. queue' \in [Streams -> QueueType]
    BY <1>1, <1>7, <1>8 DEF TypeInv, Good
  <2>2. player'.sync <= Len(sync')
    BY <1>1, <1>2, <1>10 DEF TypeInv
  <2> QED BY <1>1, <1>10, <2>1, <2>2 DEF TypeInv
<1>12. \/ R = queue[q]
       \/ /\ R.m_messages = <<it>> \o queue[q].m_messages
          /\ R.m_prioMessages = queue[q].m_prioMessages
          /\ R.m_bInitialized /\ R.m_hEvent
  <2>1. CASE ~queue[q].m_bInitialized
    BY <1>2, <2>1, ClosedIs
  <2>2. CASE queue[q].m_bInitialized
    <3>1. R = Put(queue[q], new, 0) /\ it = [new EXCEPT !.priority = 0]
      BY <1>2, <1>4
    <3>2. /\ Good(queue[q]) /\ new \in Items /\ new.kind \in {"packet", "sync"}
      BY <1>5, <1>6
    <3> QED BY <2>2, <3>1, <3>2, PutIs
  <2> QED BY <2>1, <2>2
<1>13. /\ M(q)' \subseteq M(q) \cup {it} /\ P(q)' = P(q)
       /\ R.m_prioMessages = queue[q].m_prioMessages
       /\ \A a, b : InOrder(R.m_messages, a, b) =>
                      InOrder(queue[q].m_messages, a, b) \/ (a = it /\ b \in M(q))
  <2>1. CASE R = queue[q]
    BY <1>8, <2>1 DEF M, P
  <2>2. CASE R.m_messages = <<it>> \o queue[q].m_messages /\ R.m_prioMessages = queue[q].m_prioMessages
    <3>1. /\ ToSet(R.m_messages) = M(q) \cup {it}
          /\ \A a, b : InOrder(R.m_messages, a, b) <=>
                         InOrder(queue[q].m_messages, a, b) \/ (a = it /\ b \in M(q))
      BY <1>5, <1>6, <2>2, PrependOrder DEF M
    <3> QED BY <1>8, <2>2, <3>1 DEF M, P
  <2> QED BY <1>12, <2>1, <2>2
<1>14. StreamInv(q)'
  <2>1. \A m \in ToSet(R.m_messages) : m \in M(q) \/ m.kind = "sync"
    BY <1>5, <1>8, <1>13 DEF M
  <2>2. OrderOK(R, held[q], sent[q], decoded[q])
    <3>1. \A a, b : InOrder(R.m_messages, a, b) /\ a.kind = "packet" => InOrder(queue[q].m_messages, a, b)
      BY <1>5, <1>13
    <3> QED BY <1>1, <2>1, <3>1 DEF StreamInv, PacketsOK, OrderOK, M
  <2>3. ThreadOK(R, thread[q], held[q], want[q])
    BY <1>1, <1>12 DEF StreamInv, ThreadOK
  <2>4. AgainOK(R, held[q], decoded[q])
    BY <1>1, <1>13 DEF StreamInv, PacketsOK, AgainOK
  <2>5. q = "audio" => OnceOK(R, thread[q], held[q], decoded[q])
    BY <1>1, <1>13, <2>1 DEF StreamInv, PacketsOK, OnceOK, M
  <2>6. q = "video" => KeptOK(m_packets, thread[q], decoded[q])
    BY <1>1 DEF StreamInv, PacketsOK
  <2> QED BY <1>1, <1>7, <1>8, <2>2, <2>3, <2>4, <2>5, <2>6 DEF StreamInv, PacketsOK
<1>15. \A r \in Streams : StreamInv(r)'
  BY <1>9, <1>14, OthersKeep DEF SInv
<1>16. \A r \in Streams : Has(r, "flush")' <=> Has(r, "flush")
  <2>1. \A r \in Streams \ {q} : Has(r, "flush")' <=> Has(r, "flush")
    BY <1>1, <1>9, OthersStay DEF Kinds
  <2>2. Has(q, "flush")' <=> Has(q, "flush")
    BY <1>1, <1>13, HasIs
  <2> QED BY <2>1, <2>2
<1>17. \A r \in Streams : /\ P(r)' = P(r) /\ held'[r] = held[r]
                          /\ queue'[r].m_prioMessages = queue[r].m_prioMessages
                          /\ \A m \in M(r)' : m \in M(r) \/ (r = q /\ m = it)
  <2>1. \A r \in Streams \ {q} : /\ P(r)' = P(r) /\ M(r)' = M(r)
                                 /\ queue'[r].m_prioMessages = queue[r].m_prioMessages
    BY <1>1, <1>9, OthersStay
  <2> QED BY <1>1, <1>8, <1>13, <2>1
<1>18. OldInv'
  <2>1. "video" \in Streams /\ (\A m \in M("video")' : m \in M("video") \/ m.kind = "sync")
    BY <1>5, <1>17 DEF Streams
  <2>2. queue'["video"].m_bInitialized => queue["video"].m_bInitialized
    <3>1. R.m_bInitialized => queue[q].m_bInitialized
      BY <1>2, ClosedIs
    <3> QED BY <1>8, <2>1, <3>1
  <2>3. \A m \in Stock' : m \in Stock \/ m.kind = "sync"
    BY <1>1, <1>17, <2>1, <2>2 DEF Stock, Hands
  <2> QED BY <1>1, <1>16, <2>1, <2>3 DEF GlobalInv, OldInv
<1>19. SyncInv'
  <2>1. SyncInv
    BY <1>1 DEF GlobalInv
  <2>2. ASSUME NEW r \in Streams
        PROVE  /\ \A m \in Hands(r)' : m.kind = "sync" => m.n \in DOMAIN sync
               /\ \A m \in M(r)' : m.kind = "sync" => sync[m.n].sources = {"any"}
    <3>1. /\ \A m \in Hands(r) : m.kind = "sync" => m.n \in DOMAIN sync
          /\ \A m \in M(r) : m.kind = "sync" => sync[m.n].sources = {"any"}
      BY <2>1 DEF SyncInv
    <3>2. \A m \in Hands(r)' : m \in Hands(r) \/ m = it
      BY <1>17 DEF Hands
    <3> QED BY <1>3, <1>5, <1>17, <3>1, <3>2
  <2> QED BY <1>1, <1>3, <1>10, <2>1, <2>2 DEF SyncInv
<1>20. UnmetInv'
  BY <1>10 DEF UnmetInv
<1>21. ASSUME NEW r \in Streams PROVE BarrierInv(r)'
  <2>1. Decoding(r)' <=> Decoding(r)
    BY <1>1, <1>17 DEF Decoding
  <2> QED BY <1>1, <1>10, <1>16, <1>17, <2>1 DEF GlobalInv, BarrierInv
<1>22. ASSUME NEW r \in Streams PROVE DrainInv(r)'
  <2>1. \A m \in Hands(r) : ~Is(m, n)
    BY <1>1, <1>2 DEF GlobalInv, DrainInv
  <2>2. sync[n].reached = {}
    BY <1>1, <1>2 DEF GlobalInv, DrainInv
  <2>3. ASSUME r # q PROVE \A m \in Hands(r)' : ~Is(m, n)
    BY <1>1, <1>9, <2>1, <2>3, OthersStay
  <2>4. ASSUME r = q, NEW a, NEW b, InOrder(queue'[r].m_messages, a, b)
        PROVE  a.kind # "packet" \/ ~Is(b, n)
    <3>1. InOrder(queue[q].m_messages, a, b) \/ a = it
      BY <1>8, <1>13, <2>4
    <3>2. InOrder(queue[q].m_messages, a, b) => ~Is(b, n)
      BY <2>1, <2>4, InOrderElements DEF Hands, M
    <3> QED BY <1>5, <3>1, <3>2
  <2>5. \A m \in P(r)' \cup {held'[r]} : ~Is(m, n)
    BY <1>17, <2>1 DEF Hands
  <2> QED BY <1>1, <1>10, <2>2, <2>3, <2>4, <2>5 DEF DrainInv
<1> QED BY <1>11, <1>15, <1>18, <1>19, <1>20, <1>21, <1>22 DEF SInv, GlobalInv

-----------------------------------------------------------------------------
(* The invariant holds                                                     *)

LEMMA SInitHolds == Init => SInv
<1> SUFFICES ASSUME Init PROVE SInv
  OBVIOUS
<1>1. /\ \A q \in Streams : /\ queue[q] = NewQueue /\ thread[q] = "none" /\ held[q] = NoItem
                            /\ sent[q] = 0 /\ decoded[q] = 0 /\ flushed[q] = 0
      /\ player = Run /\ sync = <<>> /\ m_packets = <<>> /\ ~clean
  BY DEF Init
<1>2. /\ Good(NewQueue) /\ NewQueue \in QueueType /\ ~NewQueue.m_bInitialized
      /\ NewQueue.m_messages = <<>> /\ NewQueue.m_prioMessages = <<>>
  BY GoodNew DEF Good
<1>3. NoItem \in Items /\ NoItem.kind = "none"
  BY NoItemIs
<1>4. Run \in Players /\ Run.step = "run" /\ Run.sync = 0
  BY PlayersIs DEF Steps, Streams
<1>5. TypeInv
  <2>1. <<>> \in Seq(Syncs) /\ Len(<<>>) = 0
    OBVIOUS
  <2>2. sync \in Seq(Syncs) /\ Len(sync) = 0
    BY <1>1, <2>1
  <2>3. /\ Len(sync) <= MaxSyncs /\ player \in Players /\ player.sync <= Len(sync)
    BY <1>1, <1>4, <2>2, BoundsAssumption
  <2>4. /\ queue \in [Streams -> QueueType] /\ thread \in [Streams -> Threads]
        /\ held \in [Streams -> Items] /\ want \in [Streams -> {0, 1}]
        /\ m_bStop \in [Streams -> BOOLEAN]
    BY <1>2, <1>3 DEF Init, Threads
  <2>5. /\ sent \in [Streams -> Nat] /\ \A q \in Streams : sent[q] <= MaxPackets[q]
        /\ decoded \in [Streams -> Nat] /\ flushed \in [Streams -> Nat]
    BY BoundsAssumption DEF Init
  <2>6. clean \in BOOLEAN /\ m_packets \in Seq(Items)
    <3>1. clean \in BOOLEAN
      BY DEF Init
    <3>2. <<>> \in Seq(Items)
      OBVIOUS
    <3>3. m_packets \in Seq(Items)
      BY <1>1, <3>2
    <3> QED BY <3>1, <3>3
  <2> QED BY <2>2, <2>3, <2>4, <2>5, <2>6 DEF TypeInv
<1>6. \A q \in Streams : M(q) = {} /\ P(q) = {}
  BY <1>1, <1>2, EmptyToSet DEF M, P
<1>7. ASSUME NEW q \in Streams PROVE StreamInv(q)
  <2>1. PacketsOK(q)
    BY <1>1, <1>2, <1>3, EmptyToSet, EmptyOrder DEF PacketsOK, OrderOK, AgainOK, KeptOK, OnceOK
  <2> QED BY <1>1, <1>2, <1>3, <2>1 DEF StreamInv, ThreadOK
<1>8. OldInv
  BY <1>1, <1>3, <1>6, EmptyToSet DEF OldInv, Stock, Hands, Streams
<1>9. SyncInv
  BY <1>1, <1>3, <1>4, <1>6 DEF SyncInv, Hands
<1>10. UnmetInv
  BY <1>1, <1>4 DEF UnmetInv
<1>11. ASSUME NEW q \in Streams PROVE BarrierInv(q) /\ DrainInv(q)
  BY <1>1, <1>3, <1>4, <1>6 DEF BarrierInv, DrainInv
<1> QED BY <1>5, <1>7, <1>8, <1>9, <1>10, <1>11 DEF SInv, GlobalInv

LEMMA SNextStep == SInv /\ [Next]_vars => SInv'
<1> SUFFICES ASSUME SInv, [Next]_vars PROVE SInv'
  OBVIOUS
<1>1. CASE PlayerCalls
  BY <1>1, FlushAudioStep, OpenStreamStep, SendPacketStep, StartDrainStep, CloseStreamStep
     DEF PlayerCalls
<1>2. CASE PlayerStep
  BY <1>2, NoSyncStep, SyncAudioStep, SyncVideoStep, SyncEndsStep, SendFlushStep, PutDrainStep,
     EndDrainStep, CloseStreamStep, StopThreadStep, EndStreamStep DEF PlayerStep
<1>3. ASSUME NEW q \in Streams, StreamStep(q) \/ TimeOut(q) PROVE SInv'
  BY <1>3, GetStep, WakeUpStep, TimeOutStep, DecodeStep, ReplayStep, GiveBackStep,
     HandleFlushStep, EnterSyncStep, LeaveSyncStep, RetrySyncStep DEF StreamStep
<1>4. ASSUME NEW s \in 1..MaxSyncs, Expire(s) PROVE SInv'
  BY <1>4, ExpireStep
<1>5. CASE UNCHANGED vars
  <2>1. /\ TypeInv /\ GlobalInv
        /\ UNCHANGED <<queue, thread, held, want, m_bStop, player, sync, sent, m_packets,
                       decoded, flushed, clean>>
    BY <1>5 DEF SInv, vars, streams, history
  <2>2. TypeInv'
    BY <2>1 DEF TypeInv
  <2>3. \A q \in Streams : StreamInv(q)'
    BY <2>1 DEF SInv, StreamInv, PacketsOK
  <2>4. GlobalInv'
    BY <2>1, Unmoved
  <2> QED BY <2>2, <2>3, <2>4 DEF SInv
<1> QED BY <1>1, <1>2, <1>3, <1>4, <1>5 DEF Next

(* The player, its streams and their queues keep the invariant, however    *)
(* many packets, synchronization messages and calls there are.             *)
THEOREM SInvCorrect == Spec => []SInv
<1>1. Init => SInv
  BY SInitHolds
<1>2. SInv /\ [Next]_vars => SInv'
  BY SNextStep
<1> QED BY <1>1, <1>2, PTL DEF Spec

-----------------------------------------------------------------------------
(* What it shows                                                           *)

(* Every variable of the player and its streams keeps its type; no message *)
(* is numbered or counted beyond the bounds.                               *)
THEOREM PlayersTypeCorrect == Spec => []STypeOK
<1>1. SInv => STypeOK
  BY TypeIs DEF SInv
<1> QED BY <1>1, SInvCorrect, PTL

(* The size a queue reports is that of the packets in it, after any puts,  *)
(* flushes and put-backs of its two threads.                               *)
THEOREM DataSizeCorrect == Spec => []DataSizeIsRight
<1>1. SInv => DataSizeIsRight
  BY DEF SInv, StreamInv, Good, DataSizeIsRight
<1> QED BY <1>1, SInvCorrect, PTL

(* No stream sleeps in Get while a message it would take is queued or its  *)
(* queue is aborted.                                                       *)
THEOREM NoMessageIsMissed == Spec => []NoMissedMessage
<1>1. ASSUME SInv PROVE NoMissedMessage
  <2>1. SUFFICES ASSUME NEW q \in Streams, thread[q] = "wait", ~queue[q].m_hEvent
                 PROVE  ~Ready(queue[q], want[q]) /\ ~queue[q].m_bAbortRequest
    BY DEF NoMissedMessage
  <2>2. /\ Good(queue[q]) /\ want[q] \in {0, 1}
        /\ queue[q].m_prioMessages = <<>> /\ (want[q] = 0 => queue[q].m_messages = <<>>)
        /\ ~queue[q].m_bAbortRequest
    BY <1>1, <2>1 DEF SInv, TypeInv, StreamInv, ThreadOK
  <2>3. List(queue[q], want[q]) = <<>>
    BY <2>2 DEF List
  <2> QED BY <2>2, <2>3, ReadyIs
<1> QED BY <1>1, SInvCorrect, PTL

(* A stream's line is what is queued and, behind it, what is at hand.      *)
LEMMA LineIs ==
  ASSUME SInv, NEW q \in Streams
  PROVE  /\ ToSet(Line(q)) = Hands(q)
         /\ \A i, j \in DOMAIN Line(q) : i < j =>
              \/ InOrder(queue[q].m_messages, Line(q)[i], Line(q)[j])
              \/ InOrder(queue[q].m_prioMessages, Line(q)[i], Line(q)[j])
              \/ Line(q)[i] \in M(q) /\ Line(q)[j] \in P(q) \cup {held[q]}
              \/ Line(q)[i] \in P(q) /\ Line(q)[j] = held[q]
<1> DEFINE s == queue[q].m_messages
           t == queue[q].m_prioMessages
           h == held[q]
<1>1. s \in Seq(Items) /\ t \in Seq(Items) /\ h \in Items
  BY StreamParts DEF SInv
<1>2. Line(q) = (s \o t) \o <<h>> /\ M(q) = ToSet(s) /\ P(q) = ToSet(t) /\ Hands(q) = M(q) \cup P(q) \cup {h}
  BY DEF Line, M, P, Hands
<1> HIDE DEF s, t, h
<1> DEFINE l == (s \o t) \o <<h>>
<1>3. /\ Len(s) \in Nat /\ Len(t) \in Nat
      /\ DOMAIN s = 1..Len(s) /\ DOMAIN t = 1..Len(t) /\ DOMAIN l = 1..(Len(s) + Len(t) + 1)
      /\ \A i \in 1..Len(s) : l[i] = s[i]
      /\ \A i \in (Len(s) + 1)..(Len(s) + Len(t)) : l[i] = t[i - Len(s)]
      /\ l[Len(s) + Len(t) + 1] = h
  BY <1>1
<1> HIDE DEF l
<1>4. ASSUME NEW i \in DOMAIN l
      PROVE  \/ i \in DOMAIN s /\ l[i] = s[i] /\ s[i] \in M(q)
             \/ i > Len(s) /\ i - Len(s) \in DOMAIN t /\ l[i] = t[i - Len(s)] /\ t[i - Len(s)] \in P(q)
             \/ i = Len(s) + Len(t) + 1 /\ l[i] = h
  <2>1. CASE i <= Len(s)
    BY <1>2, <1>3, <2>1 DEF ToSet
  <2>2. CASE i > Len(s) /\ i <= Len(s) + Len(t)
    <3>1. i - Len(s) \in DOMAIN t /\ l[i] = t[i - Len(s)]
      BY <1>3, <2>2
    <3> QED BY <1>2, <2>2, <3>1 DEF ToSet
  <2>3. CASE i = Len(s) + Len(t) + 1
    BY <1>3, <2>3
  <2> QED BY <1>3, <2>1, <2>2, <2>3
<1>5. ToSet(l) = Hands(q)
  <2>1. ToSet(l) \subseteq Hands(q)
    BY <1>2, <1>4 DEF ToSet
  <2>2. ASSUME NEW m \in M(q) PROVE m \in ToSet(l)
    <3>1. PICK i \in DOMAIN s : m = s[i]
      BY <1>2 DEF ToSet
    <3>2. i \in DOMAIN l /\ l[i] = m
      BY <1>3, <3>1
    <3> QED BY <3>2 DEF ToSet
  <2>3. ASSUME NEW m \in P(q) PROVE m \in ToSet(l)
    <3>1. PICK i \in DOMAIN t : m = t[i]
      BY <1>2 DEF ToSet
    <3> DEFINE k == Len(s) + i
    <3>2. i \in 1..Len(t)
      BY <1>3
    <3>3. k \in (Len(s) + 1)..(Len(s) + Len(t)) /\ k - Len(s) = i /\ k \in 1..(Len(s) + Len(t) + 1)
      BY <1>3, <3>2
    <3> HIDE DEF k
    <3>4. k \in DOMAIN l /\ l[k] = t[i]
      BY <1>3, <3>3
    <3> QED BY <3>1, <3>4 DEF ToSet
  <2>4. h \in ToSet(l)
    <3>1. Len(s) + Len(t) + 1 \in DOMAIN l
      BY <1>3
    <3> QED BY <1>3, <3>1 DEF ToSet
  <2> QED BY <1>2, <2>1, <2>2, <2>3, <2>4
<1>6. ASSUME NEW i \in DOMAIN l, NEW j \in DOMAIN l, i < j
      PROVE  \/ InOrder(s, l[i], l[j]) \/ InOrder(t, l[i], l[j])
             \/ l[i] \in M(q) /\ l[j] \in P(q) \cup {h}
             \/ l[i] \in P(q) /\ l[j] = h
  <2>1. CASE i \in DOMAIN s /\ j \in DOMAIN s
    BY <1>4, <1>6, <2>1, <1>3 DEF InOrder
  <2>2. CASE i \in DOMAIN s /\ j \notin DOMAIN s
    BY <1>3, <1>4, <2>2
  <2>3. CASE i \notin DOMAIN s /\ j = Len(s) + Len(t) + 1
    BY <1>3, <1>4, <1>6, <2>3
  <2>4. CASE i \notin DOMAIN s /\ j # Len(s) + Len(t) + 1
    <3>1. /\ i - Len(s) \in DOMAIN t /\ j - Len(s) \in DOMAIN t /\ i - Len(s) < j - Len(s)
          /\ l[i] = t[i - Len(s)] /\ l[j] = t[j - Len(s)]
      BY <1>3, <1>4, <1>6, <2>4
    <3> QED BY <3>1 DEF InOrder
  <2> QED BY <1>3, <2>1, <2>2, <2>3, <2>4
<1>7. Line(q) = l
  BY <1>2 DEF l
<1>8. /\ ToSet(Line(q)) = Hands(q)
      /\ \A i, j \in DOMAIN Line(q) : i < j =>
           \/ InOrder(s, Line(q)[i], Line(q)[j]) \/ InOrder(t, Line(q)[i], Line(q)[j])
           \/ Line(q)[i] \in M(q) /\ Line(q)[j] \in P(q) \cup {h}
           \/ Line(q)[i] \in P(q) /\ Line(q)[j] = h
  BY <1>5, <1>6, <1>7
<1> QED BY <1>8 DEF s, t, h

(* Packets reach the decoder for the first time in the order in which the  *)
(* player sent them, also after some were put back; those to be decoded    *)
(* again never wait behind one that has not been decoded; and the audio    *)
(* stream decodes none again.                                              *)
THEOREM PacketOrderCorrect == Spec => []PacketsInOrder
<1>1. ASSUME SInv PROVE PacketsInOrder
  <2>1. ASSUME NEW q \in Streams, NEW i \in DOMAIN Line(q), NEW j \in DOMAIN Line(q), i < j,
               Line(q)[i].kind = "packet", Line(q)[j].kind = "packet", Line(q)[j].n > decoded[q]
        PROVE  Line(q)[i].n > Line(q)[j].n
    <3> DEFINE a == Line(q)[i]
               b == Line(q)[j]
    <3>1. /\ OrderOK(queue[q], held[q], sent[q], decoded[q])
          /\ AgainOK(queue[q], held[q], decoded[q])
      BY <1>1 DEF SInv, StreamInv, PacketsOK
    <3>2. \/ InOrder(queue[q].m_messages, a, b) \/ InOrder(queue[q].m_prioMessages, a, b)
          \/ a \in M(q) /\ b \in P(q) \cup {held[q]}
          \/ a \in P(q) /\ b = held[q]
      BY <1>1, <2>1, LineIs
    <3>3. b \in Hands(q) /\ b.n \in Nat /\ decoded[q] \in Nat
      <4>1. b \in ToSet(Line(q))
        BY DEF ToSet
      <4>2. b \in Hands(q)
        BY <1>1, <4>1, LineIs
      <4>3. TypeInv /\ StreamInv(q)
        BY <1>1 DEF SInv
      <4>4. Hands(q) \subseteq Items /\ decoded[q] \in Nat
        BY <4>3, StreamParts DEF Hands
      <4>5. b \in Items
        BY <4>2, <4>4
      <4> QED BY <4>2, <4>4, <4>5 DEF Items
    <3> HIDE DEF a, b
    <3>4. b \notin P(q)
      <4>1. \A m \in P(q) : m.kind = "packet" => m.n <= decoded[q]
        BY <3>1 DEF AgainOK, P
      <4> QED BY <2>1, <3>3, <4>1 DEF b
    <3>5. CASE InOrder(queue[q].m_messages, a, b)
      BY <2>1, <3>1, <3>5 DEF OrderOK, a, b
    <3>6. CASE InOrder(queue[q].m_prioMessages, a, b)
      BY <3>4, <3>6, InOrderElements DEF P
    <3>7. CASE a \in M(q) /\ b = held[q]
      BY <2>1, <3>1, <3>7 DEF OrderOK, M, a, b
    <3>8. CASE a \in P(q) /\ b = held[q]
      BY <2>1, <3>1, <3>8 DEF AgainOK, P, a, b
    <3> QED BY <3>2, <3>4, <3>5, <3>6, <3>7, <3>8 DEF a, b
  <2>2. ASSUME NEW it \in Packets("audio") PROVE it.n > decoded["audio"]
    <3>1. "audio" \in Streams
      BY DEF Streams
    <3>2. it \in Hands("audio") /\ it.kind = "packet"
      BY <1>1, <3>1, LineIs DEF Packets
    <3>3. OnceOK(queue["audio"], thread["audio"], held["audio"], decoded["audio"])
      BY <1>1, <3>1 DEF SInv, StreamInv, PacketsOK
    <3> QED BY <3>2, <3>3 DEF OnceOK, Hands, M, P
  <2> QED BY <2>1, <2>2 DEF PacketsInOrder
<1> QED BY <1>1, SInvCorrect, PTL

(* VideoPlayer.cpp's "make sure players are properly flushed": after a     *)
(* flush that both streams have answered, neither has a flush message left *)
(* and the video stream has no packet from before, not even to decode it   *)
(* again.                                                                  *)
THEOREM FlushCompleteCorrect == Spec => []FlushIsComplete
<1>1. ASSUME SInv, clean
      PROVE  /\ \A q \in Streams : ~Has(q, "flush")
             /\ \A it \in Packets("video") : it.n > flushed["video"]
  <2>1. "video" \in Streams /\ \A q \in Streams : ~Has(q, "flush")
    BY <1>1 DEF SInv, GlobalInv, BarrierInv, Streams
  <2>2. \A m \in Hands("video") : m.kind = "packet" => m.n > flushed["video"]
    BY <1>1, <2>1 DEF SInv, GlobalInv, OldInv, Stock
  <2> QED BY <1>1, <2>1, <2>2, LineIs DEF Packets
<1>2. SInv => FlushIsComplete
  BY <1>1 DEF FlushIsComplete
<1> QED BY <1>2, SInvCorrect, PTL

(* A stream that has reached FlushBuffers' message and may not go on yet   *)
(* decodes nothing, neither new nor again, however often its wait is       *)
(* retried.                                                                *)
THEOREM BarrierHolds == Spec => NothingPastTheBarrier
<1>1. SInv /\ [Next]_vars => [\A q \in Streams : Decode(q) => ~AtBarrier(q)]_vars
  <2> SUFFICES ASSUME SInv, NEW q \in Streams, Decode(q), NEW m \in ToSet(Line(q)),
                      m.kind = "sync", q \in sync[m.n].reached
               PROVE  FALSE
    BY DEF AtBarrier
  <2>1. /\ thread[q] = "packet" /\ TypeInv /\ StreamInv(q) /\ BarrierInv(q) /\ SyncInv
    BY DEF Decode, SInv, GlobalInv
  <2>2. held[q].kind = "packet" /\ Decoding(q)
    BY <2>1 DEF StreamInv, ThreadOK, Decoding
  <2>3. m \in M(q) /\ m \in Hands(q)
    BY <2>1, <2>2, LineIs DEF BarrierInv, Hands
  <2>4. m.n \in DOMAIN sync /\ sync[m.n].sources = {"any"}
    BY <2>1, <2>3 DEF SyncInv
  <2>5. q \in {"any"}
    BY <2>1, <2>4 DEF SyncInv
  <2> QED BY <2>5 DEF Streams
<1> QED BY <1>1, SInvCorrect, PTL DEF Spec, NothingPastTheBarrier

(* When WaitUntilEmpty ends because the stream has reached its message,    *)
(* every packet that is left was decoded before.                           *)
THEOREM DrainCorrect == Spec => DrainedWhenReached
<1>1. SInv /\ [Next]_vars =>
        [\A q \in Streams :
           player.step = "waitdrain" /\ player.q = q /\ player' # player
             /\ Reached(player.sync)
           => \A it \in Packets(q) : it.n <= decoded[q]]_vars
  <2> SUFFICES ASSUME SInv, NEW q \in Streams, player.step = "waitdrain", player.q = q,
                      Reached(player.sync), NEW it \in Packets(q)
               PROVE  it.n <= decoded[q]
    OBVIOUS
  <2>1. sync[player.sync].reached # {}
    BY DEF Reached, SInv, GlobalInv, SyncInv
  <2>2. \A m \in M(q) \cup {held[q]} : m.kind = "packet" => m.n <= decoded[q]
    BY <2>1 DEF SInv, GlobalInv, DrainInv, Drained
  <2>3. \A m \in P(q) : m.kind = "packet" => m.n <= decoded[q]
    BY DEF SInv, StreamInv, PacketsOK, AgainOK, P
  <2>4. it \in Hands(q) /\ it.kind = "packet"
    BY LineIs DEF Packets
  <2> QED BY <2>2, <2>3, <2>4 DEF Hands
<1> QED BY <1>1, SInvCorrect, PTL DEF Spec, DrainedWhenReached
=============================================================================

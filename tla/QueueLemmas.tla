---------------------------- MODULE QueueLemmas ----------------------------
(***************************************************************************)
(* Facts about queues that the proofs of several components cite: what the *)
(* operations on a sequence do to its elements, their order and their sum. *)
(***************************************************************************)
EXTENDS Queues, WellFoundedInduction, SequenceTheorems, TLAPS

-----------------------------------------------------------------------------
(* Both ends, and the middle                                               *)

(* A deque without duplicates gains exactly the job pushed at its back.    *)
LEMMA AppendElements ==
  ASSUME NEW S, NEW s \in Seq(S), NEW e \in S
  PROVE  /\ Append(s, e) \in Seq(S)
         /\ ToSet(Append(s, e)) = ToSet(s) \cup {e}
         /\ IsInjective(s) /\ e \notin ToSet(s) => IsInjective(Append(s, e))
BY AppendProperties DEF ToSet, IsInjective

(* pop_front takes exactly the front job out of a deque without duplicates. *)
LEMMA TailElements ==
  ASSUME NEW S, NEW s \in Seq(S), s # <<>>, IsInjective(s)
  PROVE  /\ Tail(s) \in Seq(S)
         /\ Head(s) \in ToSet(s)
         /\ ToSet(Tail(s)) = ToSet(s) \ {Head(s)}
         /\ IsInjective(Tail(s))
<1> DEFINE t == Tail(s)
           h == Head(s)
           n == Len(s)
<1>1. n \in Nat \ {0} /\ DOMAIN s = 1..n /\ h = s[1]
  OBVIOUS
<1>2. /\ t \in Seq(S) /\ Len(t) = n - 1
      /\ \A i \in 1..Len(t) : t[i] = s[i + 1]
  BY HeadTailProperties
<1>3. DOMAIN t = 1..(n - 1) /\ \A i \in 1..(n - 1) : t[i] = s[i + 1]
  <2> HIDE DEF t, n
  <2> QED BY <1>1, <1>2
<1> HIDE DEF t, h, n
<1>4. ToSet(t) \subseteq ToSet(s) \ {h}
  BY <1>1, <1>3 DEF ToSet, IsInjective
<1>5. ASSUME NEW x \in ToSet(s), x # h PROVE x \in ToSet(t)
  <2>1. PICK i \in 1..n : x = s[i]
    BY <1>1, <1>5 DEF ToSet
  <2>2. i - 1 \in 1..(n - 1) /\ t[i - 1] = x
    BY <1>1, <1>3, <1>5, <2>1
  <2> QED BY <1>3, <2>2 DEF ToSet
<1>6. IsInjective(t)
  <2> SUFFICES ASSUME NEW k \in 1..(n - 1), NEW l \in 1..(n - 1), s[k + 1] = s[l + 1]
               PROVE  k = l
    BY <1>3 DEF IsInjective
  <2>1. k + 1 \in DOMAIN s /\ l + 1 \in DOMAIN s
    BY <1>1
  <2>2. k + 1 = l + 1
    BY <2>1 DEF IsInjective
  <2> QED BY <2>2
<1>7. h \in ToSet(s)
  BY <1>1 DEF ToSet
<1> QED BY <1>2, <1>4, <1>5, <1>6, <1>7 DEF t, h

(* Erasing an element of a deque without duplicates takes that element out. *)
LEMMA RemoveAtElements ==
  ASSUME NEW S, NEW s \in Seq(S), NEW i \in DOMAIN s, IsInjective(s)
  PROVE  /\ RemoveAt(s, i) \in Seq(S) /\ Len(RemoveAt(s, i)) = Len(s) - 1
         /\ ToSet(RemoveAt(s, i)) = ToSet(s) \ {s[i]}
         /\ IsInjective(RemoveAt(s, i))
<1> DEFINE a == SubSeq(s, 1, i - 1)
           b == SubSeq(s, i + 1, Len(s))
           r == RemoveAt(s, i)
<1>1. Len(s) \in Nat /\ DOMAIN s = 1..Len(s) /\ i \in 1..Len(s)
      /\ \A k \in 1..Len(s) : s[k] \in S
  OBVIOUS
<1>2. a \in Seq(S) /\ Len(a) = i - 1 /\ \A k \in 1..(i - 1) : a[k] = s[k]
  BY <1>1, SubSeqProperties
<1>3. b \in Seq(S) /\ Len(b) = Len(s) - i /\ \A k \in 1..(Len(s) - i) : b[k] = s[k + i]
  BY <1>1, SubSeqProperties
<1>4. r \in Seq(S) /\ Len(r) = Len(s) - 1
      /\ \A k \in 1..(Len(s) - 1) : r[k] = IF k <= i - 1 THEN a[k] ELSE b[k - (i - 1)]
  <2>1. r = a \o b
    BY DEF RemoveAt
  <2> HIDE DEF a, b, r
  <2>2. /\ a \o b \in Seq(S) /\ Len(a \o b) = Len(a) + Len(b)
        /\ \A k \in 1..(Len(a) + Len(b)) :
             (a \o b)[k] = IF k <= Len(a) THEN a[k] ELSE b[k - Len(a)]
    BY <1>2, <1>3, ConcatProperties
  <2> QED BY SMTT(40), <1>1, <1>2, <1>3, <2>1, <2>2
<1>5. /\ DOMAIN r = 1..(Len(s) - 1)
      /\ \A k \in 1..(Len(s) - 1) : r[k] = IF k < i THEN s[k] ELSE s[k + 1]
  <2> HIDE DEF a, b, r
  <2>1. ASSUME NEW k \in 1..(Len(s) - 1), k < i PROVE r[k] = s[k]
    <3>1. k \in 1..(i - 1)
      BY <1>1, <2>1
    <3>2. k <= i - 1
      BY <1>1, <3>1
    <3>3. r[k] = IF k <= i - 1 THEN a[k] ELSE b[k - (i - 1)]
      BY <1>4
    <3>4. a[k] = s[k]
      BY <1>2, <3>1
    <3> QED BY <3>2, <3>3, <3>4
  <2>2. ASSUME NEW k \in 1..(Len(s) - 1), ~(k < i) PROVE r[k] = s[k + 1]
    <3>0. r[k] = IF k <= i - 1 THEN a[k] ELSE b[k - (i - 1)]
      BY <1>4
    <3>1. r[k] = b[k - (i - 1)] /\ k - (i - 1) \in 1..(Len(s) - i)
      BY <1>1, <2>2, <3>0
    <3>2. b[k - (i - 1)] = s[k - (i - 1) + i]
      BY <1>3, <3>1
    <3>3. k - (i - 1) + i = k + 1
      BY <1>1
    <3> QED BY <3>1, <3>2, <3>3
  <2> QED BY <1>1, <1>4, <2>1, <2>2
<1> HIDE DEF r
<1>6. ToSet(r) \subseteq ToSet(s) \ {s[i]}
  BY <1>1, <1>5 DEF ToSet, IsInjective
<1>7. ASSUME NEW x \in ToSet(s), x # s[i] PROVE x \in ToSet(r)
  <2>1. PICK k \in 1..Len(s) : x = s[k]
    BY <1>1, <1>7 DEF ToSet
  <2>2. CASE k < i
    BY <1>1, <1>5, <2>1, <2>2 DEF ToSet
  <2>3. CASE k > i
    <3>1. k - 1 \in 1..(Len(s) - 1) /\ r[k - 1] = x
      BY <1>1, <1>5, <2>1, <2>3
    <3> QED BY <1>5, <3>1 DEF ToSet
  <2> QED BY <1>1, <1>7, <2>1, <2>2, <2>3
<1>8. IsInjective(r)
  BY <1>1, <1>5 DEF IsInjective
<1> QED BY <1>4, <1>6, <1>7, <1>8 DEF r

(* What push_front puts where.                                             *)
LEMMA PrependIs ==
  ASSUME NEW S, NEW s \in Seq(S), NEW e \in S
  PROVE  /\ <<e>> \o s \in Seq(S) /\ Len(<<e>> \o s) = Len(s) + 1 /\ Len(s) \in Nat
         /\ DOMAIN (<<e>> \o s) = 1..(Len(s) + 1) /\ DOMAIN s = 1..Len(s)
         /\ (<<e>> \o s)[1] = e
         /\ \A k \in 1..Len(s) : k + 1 \in DOMAIN (<<e>> \o s) /\ (<<e>> \o s)[k + 1] = s[k]
         /\ \A k \in DOMAIN (<<e>> \o s) :
              k = 1 \/ (k - 1 \in DOMAIN s /\ (<<e>> \o s)[k] = s[k - 1])
<1> DEFINE r == <<e>> \o s
<1>1. /\ r \in Seq(S) /\ Len(r) = Len(s) + 1 /\ Len(s) \in Nat
      /\ \A k \in 1..(Len(s) + 1) : r[k] = IF k <= 1 THEN e ELSE s[k - 1]
  <2>1. <<e>> \in Seq(S) /\ Len(<<e>>) = 1 /\ <<e>>[1] = e
    OBVIOUS
  <2>2. /\ <<e>> \o s \in Seq(S) /\ Len(<<e>> \o s) = 1 + Len(s)
        /\ \A k \in 1..(1 + Len(s)) : (<<e>> \o s)[k] = IF k <= 1 THEN <<e>>[k] ELSE s[k - 1]
    BY <2>1, ConcatProperties
  <2> QED BY <2>1, <2>2
<1> HIDE DEF r
<1>2. DOMAIN r = 1..(Len(s) + 1) /\ DOMAIN s = 1..Len(s)
  BY <1>1
<1>3. r[1] = e /\ \A k \in 1..Len(s) : k + 1 \in DOMAIN r /\ r[k + 1] = s[k]
  BY <1>1, <1>2
<1>4. \A k \in DOMAIN r : k = 1 \/ (k - 1 \in DOMAIN s /\ r[k] = s[k - 1])
  BY <1>1, <1>2
<1> QED BY <1>1, <1>2, <1>3, <1>4 DEF r

(* push_front adds exactly the job pushed.                                 *)
LEMMA PrependElements ==
  ASSUME NEW S, NEW s \in Seq(S), NEW e \in S
  PROVE  /\ <<e>> \o s \in Seq(S) /\ Len(<<e>> \o s) = Len(s) + 1
         /\ ToSet(<<e>> \o s) = ToSet(s) \cup {e}
         /\ IsInjective(s) /\ e \notin ToSet(s) => IsInjective(<<e>> \o s)
<1> DEFINE r == <<e>> \o s
<1>1. /\ r \in Seq(S) /\ Len(r) = Len(s) + 1 /\ Len(s) \in Nat
  BY PrependIs
<1>2. DOMAIN r = 1..(Len(s) + 1) /\ DOMAIN s = 1..Len(s)
  BY PrependIs
<1>3. r[1] = e /\ \A k \in 1..Len(s) : k + 1 \in DOMAIN r /\ r[k + 1] = s[k]
  BY PrependIs
<1>4. \A k \in DOMAIN r : k = 1 \/ (k - 1 \in DOMAIN s /\ r[k] = s[k - 1])
  BY PrependIs
<1> HIDE DEF r
<1>5. ToSet(r) = ToSet(s) \cup {e}
  <2>1. ToSet(r) \subseteq ToSet(s) \cup {e}
    BY <1>3, <1>4 DEF ToSet
  <2>2. ToSet(s) \cup {e} \subseteq ToSet(r)
    BY <1>1, <1>2, <1>3 DEF ToSet
  <2> QED BY <2>1, <2>2
<1>6. ASSUME IsInjective(s), e \notin ToSet(s) PROVE IsInjective(r)
  <2> SUFFICES ASSUME NEW k \in DOMAIN r, NEW l \in DOMAIN r, r[k] = r[l] PROVE k = l
    BY DEF IsInjective
  <2>1. CASE k = 1 \/ l = 1
    BY <1>3, <1>4, <1>6, <2>1 DEF ToSet
  <2>2. CASE k # 1 /\ l # 1
    <3>1. k - 1 = l - 1
      BY <1>4, <1>6, <2>2 DEF IsInjective
    <3> QED BY <1>1, <1>2, <3>1
  <2> QED BY <2>1, <2>2
<1> QED BY <1>1, <1>5, <1>6 DEF r

(* What is left of a sequence without its last element.                    *)
LEMMA FrontIs ==
  ASSUME NEW S, NEW s \in Seq(S), s # <<>>
  PROVE  /\ Front(s) \in Seq(S) /\ Len(Front(s)) = Len(s) - 1
         /\ DOMAIN Front(s) = 1..(Len(s) - 1)
         /\ \A i \in 1..(Len(s) - 1) : Front(s)[i] = s[i]
         /\ Last(s) = s[Len(s)] /\ Len(s) \in DOMAIN s /\ Len(s) \in Nat \ {0}
<1> DEFINE t == Front(s)
           n == Len(s)
<1>1. n \in Nat \ {0} /\ DOMAIN s = 1..n /\ Last(s) = s[n] /\ n \in 1..n
  BY EmptySeq DEF Last
<1>2. t \in Seq(S) /\ Len(t) = n - 1 /\ \A i \in 1..(n - 1) : t[i] = s[i]
  <2>1. \A i \in 1..(n - 1) : s[i] \in S
    BY <1>1
  <2> HIDE DEF n
  <2>2. /\ SubSeq(s, 1, n - 1) \in Seq(S)
        /\ Len(SubSeq(s, 1, n - 1)) = IF 1 <= n - 1 THEN n - 1 - 1 + 1 ELSE 0
        /\ \A i \in 1..(n - 1 - 1 + 1) : SubSeq(s, 1, n - 1)[i] = s[1 + i - 1]
    BY <1>1, <2>1, SubSeqProperties
  <2> QED BY <1>1, <2>2 DEF Front, n
<1> HIDE DEF t, n
<1>3. DOMAIN t = 1..(n - 1)
  BY <1>1, <1>2
<1> QED BY <1>1, <1>2, <1>3 DEF t, n

(* pop_back takes exactly the job at the back.                             *)
LEMMA FrontElements ==
  ASSUME NEW S, NEW s \in Seq(S), s # <<>>, IsInjective(s)
  PROVE  /\ Front(s) \in Seq(S) /\ Len(Front(s)) = Len(s) - 1
         /\ Last(s) \in ToSet(s)
         /\ ToSet(Front(s)) = ToSet(s) \ {Last(s)}
         /\ IsInjective(Front(s))
<1> DEFINE t == Front(s)
           n == Len(s)
<1>1. n \in Nat \ {0} /\ DOMAIN s = 1..n /\ Last(s) = s[n] /\ n \in 1..n
  BY EmptySeq DEF Last
<1>2. /\ t \in Seq(S) /\ Len(t) = n - 1 /\ \A i \in 1..(n - 1) : t[i] = s[i]
      /\ DOMAIN t = 1..(n - 1)
  BY FrontIs
<1> HIDE DEF t, n
<1>4. IsInjective(t)
  BY <1>1, <1>2 DEF IsInjective
<1>5. Last(s) \in ToSet(s)
  BY <1>1 DEF ToSet
<1>6. ToSet(t) \subseteq ToSet(s) \ {Last(s)}
  BY <1>1, <1>2 DEF ToSet, IsInjective
<1>7. ToSet(s) \ {Last(s)} \subseteq ToSet(t)
  BY <1>1, <1>2 DEF ToSet
<1> QED BY <1>2, <1>4, <1>5, <1>6, <1>7 DEF t, n

-----------------------------------------------------------------------------
(* Recursion                                                               *)

(* Induction up to n, on a set instead of a predicate.                     *)
LEMMA UpTo ==
  ASSUME NEW n \in Nat, NEW T,
         0 \in T, \A i \in 0..(n - 1) : i \in T => i + 1 \in T
  PROVE  \A i \in 0..n : i \in T
<1> DEFINE R == OpToRel(<, Nat)
           U == {i \in 0..n : i \notin T}
<1> SUFFICES ASSUME U # {} PROVE FALSE
  OBVIOUS
<1>1. PICK i \in U : \A j \in U : <<j, i>> \notin R
  <2>1. IsWellFoundedOn(R, Nat)
    BY NatLessThanWellFounded
  <2>2. U \subseteq Nat
    OBVIOUS
  <2> HIDE DEF R, U
  <2> QED BY <2>1, <2>2, WFMin, Zenon
<1>2. i - 1 \in U /\ i \in Nat /\ i - 1 \in Nat /\ i - 1 < i
  OBVIOUS
<1>3. <<i - 1, i>> \in R
  BY <1>2, SMT DEF OpToRel
<1> QED BY <1>1, <1>2, <1>3

(* f holds the values of a computation on V, one step after the other.     *)
Computes(f, n, V, base, step) ==
  /\ f \in [0..n -> V]
  /\ f[0] = base
  /\ \A i \in 1..n : f[i] = step[i][f[i - 1]]

(* There is such an f, whatever the steps are.                             *)
LEMMA Recursion ==
  ASSUME NEW n \in Nat, NEW V, NEW base \in V, NEW step \in [1..n -> [V -> V]]
  PROVE  \E f : Computes(f, n, V, base, step)
<1> DEFINE T == {m \in 0..n : \E f : Computes(f, m, V, base, step)}
<1>1. 0 \in T
  <2> DEFINE h == [i \in 0..0 |-> base]
  <2>1. Computes(h, 0, V, base, step)
    BY DEF Computes
  <2> HIDE DEF h
  <2> QED BY <2>1
<1>2. ASSUME NEW m \in 0..(n - 1), m \in T PROVE m + 1 \in T
  <2>1. PICK g : Computes(g, m, V, base, step)
    BY <1>2
  <2> DEFINE h == [i \in 0..(m + 1) |-> IF i = m + 1 THEN step[m + 1][g[m]] ELSE g[i]]
  <2>2. h \in [0..(m + 1) -> V] /\ h[0] = base
    BY <2>1 DEF Computes
  <2>3. ASSUME NEW i \in 1..(m + 1) PROVE h[i] = step[i][h[i - 1]]
    BY <2>1 DEF Computes
  <2>4. Computes(h, m + 1, V, base, step)
    BY <2>2, <2>3 DEF Computes
  <2> HIDE DEF h
  <2> QED BY <2>4
<1>3. n \in T
  <2> HIDE DEF T
  <2>1. \A i \in 0..n : i \in T
    BY <1>1, <1>2, UpTo, Zenon
  <2> QED BY <2>1
<1> QED BY <1>3

(* What the recursion of Kept computes.                                    *)
LEMMA KeptUpToIs ==
  ASSUME NEW S, NEW s \in Seq(S), NEW K
  PROVE  /\ KeptUpTo(s, K) \in [0..Len(s) -> Seq(S)]
         /\ KeptUpTo(s, K)[0] = <<>>
         /\ \A i \in 1..Len(s) :
              KeptUpTo(s, K)[i] = IF s[i] \in K THEN Append(KeptUpTo(s, K)[i - 1], s[i])
                                  ELSE KeptUpTo(s, K)[i - 1]
<1> DEFINE n == Len(s)
           k == KeptUpTo(s, K)
           step == [i \in 1..n |-> [r \in Seq(S) |-> IF s[i] \in K THEN Append(r, s[i]) ELSE r]]
           B(f) == [i \in 0..n |-> IF i = 0 THEN <<>>
                                   ELSE IF s[i] \in K THEN Append(f[i - 1], s[i]) ELSE f[i - 1]]
<1>0. n \in Nat /\ <<>> \in Seq(S) /\ \A i \in 1..n : s[i] \in S
  OBVIOUS
<1>1. step \in [1..n -> [Seq(S) -> Seq(S)]]
  BY <1>0
<1>2. PICK g \in [0..n -> Seq(S)] : g[0] = <<>> /\ \A i \in 1..n : g[i] = step[i][g[i - 1]]
  <2> DEFINE V == Seq(S)
             base == <<>>
  <2>1. n \in Nat /\ base \in V /\ step \in [1..n -> [V -> V]]
    BY <1>0, <1>1
  <2> HIDE DEF n, step, V, base
  <2>2. \E f : Computes(f, n, V, base, step)
    BY <2>1, Recursion
  <2> QED BY <2>2 DEF V, base, Computes
<1>3. ASSUME NEW i \in 1..n
      PROVE  g[i] = IF s[i] \in K THEN Append(g[i - 1], s[i]) ELSE g[i - 1]
  <2>1. g[i - 1] \in Seq(S)
    BY <1>0, <1>2
  <2>2. step[i] = [r \in Seq(S) |-> IF s[i] \in K THEN Append(r, s[i]) ELSE r]
    OBVIOUS
  <2>3. g[i] = step[i][g[i - 1]]
    BY <1>2
  <2> HIDE DEF n, step
  <2> QED BY <2>1, <2>2, <2>3
<1>4. g = B(g)
  <2>1. ASSUME NEW i \in 0..n PROVE B(g)[i] = g[i]
    <3> HIDE DEF n, step
    <3>1. CASE i = 0
      BY <1>2, <3>1
    <3>2. CASE i # 0
      <4>1. i \in 1..n
        BY <1>0, <3>2
      <4> QED BY <1>3, <4>1, <3>2
    <3> QED BY <3>1, <3>2
  <2>2. DOMAIN B(g) = 0..n /\ B(g) = [i \in 0..n |-> B(g)[i]] /\ g = [i \in 0..n |-> g[i]]
    BY <1>2
  <2> HIDE DEF B
  <2> QED BY <2>1, <2>2
<1>5. k = CHOOSE f : f = B(f)
  BY DEF KeptUpTo
<1>6. k = B(k)
  <2> HIDE DEF B, k
  <2> QED BY <1>4, <1>5, Zenon
<1>7. \A f : \A i \in 0..n : B(f)[i] = IF i = 0 THEN <<>>
              ELSE IF s[i] \in K THEN Append(f[i - 1], s[i]) ELSE f[i - 1]
  OBVIOUS
<1>8. \A i \in 0..n : k[i] = IF i = 0 THEN <<>>
              ELSE IF s[i] \in K THEN Append(k[i - 1], s[i]) ELSE k[i - 1]
  <2> HIDE DEF k, n, B
  <2> QED BY <1>6, <1>7, Zenon
<1>9. DOMAIN k = 0..n /\ k = [i \in 0..n |-> k[i]]
  <2>1. \A f : DOMAIN B(f) = 0..n /\ B(f) = [i \in 0..n |-> B(f)[i]]
    OBVIOUS
  <2> HIDE DEF k, n, B
  <2> QED BY <1>6, <2>1, Zenon
<1>10. \A i \in 0..n : k[i] \in Seq(S)
  <2> DEFINE T == {i \in 0..n : k[i] \in Seq(S)}
  <2> HIDE DEF k, n
  <2>0. k[0] = <<>>
    BY <1>0, <1>8
  <2>1. 0 \in T
    <3>1. 0 \in 0..n
      BY <1>0
    <3> QED BY <1>0, <2>0, <3>1, Zenon
  <2>2. ASSUME NEW i \in 0..(n - 1), i \in T PROVE i + 1 \in T
    <3>1. i + 1 \in 1..n /\ i + 1 \in 0..n /\ (i + 1) - 1 = i
      BY <1>0
    <3>2. k[i + 1] = IF s[i + 1] \in K THEN Append(k[i], s[i + 1]) ELSE k[i]
      BY <1>0, <1>8, <3>1
    <3>3. k[i] \in Seq(S) /\ s[i + 1] \in S
      BY <1>0, <2>2, <3>1
    <3>4. Append(k[i], s[i + 1]) \in Seq(S)
      BY <3>3, AppendProperties
    <3> QED BY <3>1, <3>2, <3>3, <3>4
  <2> HIDE DEF T
  <2>3. \A i \in 0..n : i \in T
    BY <1>0, <2>1, <2>2, UpTo, Zenon
  <2> QED BY <2>3 DEF T
<1> HIDE DEF k, n
<1>11. k \in [0..n -> Seq(S)]
  BY <1>9, <1>10
<1>12. k[0] = <<>> /\ \A i \in 1..n : k[i] = IF s[i] \in K THEN Append(k[i - 1], s[i]) ELSE k[i - 1]
  BY <1>0, <1>8
<1> QED BY <1>11, <1>12 DEF k, n

(* at maps the places of t, in order, to the places up to i of s whose     *)
(* elements are in K.                                                      *)
Selects(at, t, s, i, K) ==
  /\ at \in [1..Len(t) -> 1..i]
  /\ \A p \in 1..Len(t) : t[p] = s[at[p]] /\ s[at[p]] \in K
  /\ \A p, q \in 1..Len(t) : p < q => at[p] < at[q]
  /\ \A j \in 1..i : s[j] \in K => \E p \in 1..Len(t) : at[p] = j

(* Kept takes exactly the elements in K and leaves them in order.          *)
LEMMA KeptSelects ==
  ASSUME NEW S, NEW s \in Seq(S), NEW K
  PROVE  /\ Kept(s, K) \in Seq(S)
         /\ \E at : Selects(at, Kept(s, K), s, Len(s), K)
<1> DEFINE n == Len(s)
           k == KeptUpTo(s, K)
           T == {i \in 0..n : \E at : Selects(at, k[i], s, i, K)}
<1>0. n \in Nat /\ \A i \in 1..n : s[i] \in S
  OBVIOUS
<1>1. /\ k \in [0..n -> Seq(S)]
      /\ k[0] = <<>>
      /\ \A i \in 1..n : k[i] = IF s[i] \in K THEN Append(k[i - 1], s[i]) ELSE k[i - 1]
  BY KeptUpToIs
<1> HIDE DEF k, n
<1>2. 0 \in T
  <2> DEFINE h == [p \in 1..0 |-> 1]
  <2>1. Len(k[0]) = 0
    BY <1>1
  <2>2. Selects(h, k[0], s, 0, K)
    BY <2>1 DEF Selects
  <2> HIDE DEF h
  <2> QED BY <1>0, <2>2
<1>3. ASSUME NEW i \in 0..(n - 1), i \in T PROVE i + 1 \in T
  <2>1. PICK at : Selects(at, k[i], s, i, K)
    BY <1>3
  <2>2. i \in Nat /\ i + 1 \in 1..n /\ i + 1 \in 0..n /\ i \in 0..n /\ (i + 1) - 1 = i
    BY <1>0
  <2> DEFINE r == k[i]
             m == Len(r)
             x == s[i + 1]
             e == k[i + 1]
  <2>3. r \in Seq(S) /\ m \in Nat /\ x \in S
    BY <1>0, <1>1, <2>2
  <2>4. e = IF x \in K THEN Append(r, x) ELSE r
    BY <1>1, <2>2
  <2>5. CASE x \notin K
    <3>1. Selects(at, e, s, i + 1, K)
      <4>1. e = r
        BY <2>4, <2>5
      <4> HIDE DEF r, e
      <4>2. Selects(at, r, s, i, K)
        BY <2>1 DEF r
      <4> QED BY <2>2, <2>3, <2>5, <4>1, <4>2 DEF Selects
    <3> QED BY <2>2, <3>1
  <2>6. CASE x \in K
    <3> DEFINE h == [p \in 1..(m + 1) |-> IF p = m + 1 THEN i + 1 ELSE at[p]]
    <3>1. e = Append(r, x)
      BY <2>4, <2>6
    <3>2. /\ Len(e) = m + 1 /\ e[m + 1] = x
          /\ \A p \in 1..m : e[p] = r[p]
      <4> HIDE DEF r, x, e
      <4> QED BY <2>3, <3>1, AppendProperties DEF m
    <3> HIDE DEF e, r
    <3>3. /\ at \in [1..m -> 1..i]
          /\ \A p \in 1..m : r[p] = s[at[p]] /\ s[at[p]] \in K
          /\ \A p, q \in 1..m : p < q => at[p] < at[q]
          /\ \A j \in 1..i : s[j] \in K => \E p \in 1..m : at[p] = j
      BY <2>1 DEF Selects, r
    <3> HIDE DEF m
    <3>4. h \in [1..(m + 1) -> 1..(i + 1)]
      BY <2>2, <2>3, <3>3
    <3>5. \A p \in 1..(m + 1) : e[p] = s[h[p]] /\ s[h[p]] \in K
      BY <2>2, <2>3, <2>6, <3>2, <3>3
    <3>6. \A p, q \in 1..(m + 1) : p < q => h[p] < h[q]
      BY <2>2, <2>3, <3>3
    <3>7. ASSUME NEW j \in 1..(i + 1), s[j] \in K
          PROVE  \E p \in 1..(m + 1) : h[p] = j
      <4>1. CASE j = i + 1
        BY <2>3, <4>1
      <4>2. CASE j # i + 1
        <5>1. j \in 1..i
          BY <2>2, <4>2
        <5>2. PICK p \in 1..m : at[p] = j
          BY <3>3, <3>7, <5>1
        <5>3. p \in 1..(m + 1) /\ h[p] = j
          BY <2>3, <5>2
        <5> QED BY <5>3
      <4> QED BY <4>1, <4>2
    <3> HIDE DEF h
    <3>8. Selects(h, e, s, i + 1, K)
      BY <3>2, <3>4, <3>5, <3>6, <3>7 DEF Selects
    <3> QED BY <2>2, <3>8 DEF e
  <2> QED BY <2>5, <2>6
<1>4. n \in T
  <2> HIDE DEF T
  <2>1. \A i \in 0..n : i \in T
    BY <1>0, <1>2, <1>3, UpTo, Zenon
  <2> QED BY <1>0, <2>1
<1>5. Kept(s, K) = k[n] /\ k[n] \in Seq(S)
  BY <1>0, <1>1 DEF Kept, k, n
<1> QED BY <1>4, <1>5 DEF n

(* Without duplicates before there are none after.                         *)
LEMMA KeptElements ==
  ASSUME NEW S, NEW s \in Seq(S), NEW K
  PROVE  /\ Kept(s, K) \in Seq(S)
         /\ ToSet(Kept(s, K)) = ToSet(s) \cap K
         /\ IsInjective(s) => IsInjective(Kept(s, K))
<1> DEFINE t == Kept(s, K)
<1>0. Len(s) \in Nat /\ DOMAIN s = 1..Len(s)
  OBVIOUS
<1>1. PICK at : Selects(at, t, s, Len(s), K)
  BY KeptSelects
<1>2. t \in Seq(S)
  BY KeptSelects
<1> HIDE DEF t
<1>3. Len(t) \in Nat /\ DOMAIN t = 1..Len(t)
  BY <1>2
<1>4. ToSet(t) \subseteq ToSet(s) \cap K
  BY <1>0, <1>1, <1>3 DEF Selects, ToSet
<1>5. ToSet(s) \cap K \subseteq ToSet(t)
  BY <1>0, <1>1, <1>3 DEF Selects, ToSet
<1>6. ASSUME IsInjective(s) PROVE IsInjective(t)
  <2> SUFFICES ASSUME NEW p \in 1..Len(t), NEW q \in 1..Len(t), t[p] = t[q]
               PROVE  p = q
    BY <1>3 DEF IsInjective
  <2>1. at[p] \in 1..Len(s) /\ at[q] \in 1..Len(s) /\ s[at[p]] = s[at[q]]
    BY <1>1 DEF Selects
  <2>2. at[p] = at[q]
    BY <1>0, <1>6, <2>1 DEF IsInjective
  <2>3. ~(p < q) /\ ~(q < p)
    BY <1>1, <2>1, <2>2 DEF Selects
  <2> QED BY <1>3, <2>3
<1> QED BY <1>2, <1>4, <1>5, <1>6 DEF t

(* What the recursion of Total computes.                                   *)
LEMMA TotalUpToIs ==
  ASSUME NEW s \in Seq(Int)
  PROVE  /\ TotalUpTo(s) \in [0..Len(s) -> Int]
         /\ TotalUpTo(s)[0] = 0
         /\ \A i \in 1..Len(s) : TotalUpTo(s)[i] = TotalUpTo(s)[i - 1] + s[i]
<1> DEFINE n == Len(s)
           k == TotalUpTo(s)
           step == [i \in 1..n |-> [r \in Int |-> r + s[i]]]
           B(f) == [i \in 0..n |-> IF i = 0 THEN 0 ELSE f[i - 1] + s[i]]
<1>0. n \in Nat /\ 0 \in Int /\ \A i \in 1..n : s[i] \in Int
  OBVIOUS
<1>1. step \in [1..n -> [Int -> Int]]
  BY <1>0
<1>2. PICK g \in [0..n -> Int] : g[0] = 0 /\ \A i \in 1..n : g[i] = step[i][g[i - 1]]
  <2> DEFINE V == Int
             base == 0
  <2>1. n \in Nat /\ base \in V /\ step \in [1..n -> [V -> V]]
    BY <1>0, <1>1
  <2> HIDE DEF n, step, V, base
  <2>2. \E f : Computes(f, n, V, base, step)
    BY <2>1, Recursion
  <2> QED BY <2>2 DEF V, base, Computes
<1>3. ASSUME NEW i \in 1..n PROVE g[i] = g[i - 1] + s[i]
  <2>1. g[i - 1] \in Int
    BY <1>0, <1>2
  <2>2. step[i] = [r \in Int |-> r + s[i]]
    OBVIOUS
  <2>3. g[i] = step[i][g[i - 1]]
    BY <1>2
  <2> HIDE DEF n, step
  <2> QED BY <2>1, <2>2, <2>3
<1>4. g = B(g)
  <2> HIDE DEF n, step
  <2> QED BY <1>0, <1>2, <1>3
<1>5. k = CHOOSE f : f = B(f)
  BY DEF TotalUpTo
<1>6. k = B(k)
  <2> HIDE DEF B, k
  <2> QED BY <1>4, <1>5, Zenon
<1>7. \A f : \A i \in 0..n : B(f)[i] = IF i = 0 THEN 0 ELSE f[i - 1] + s[i]
  OBVIOUS
<1>8. \A i \in 0..n : k[i] = IF i = 0 THEN 0 ELSE k[i - 1] + s[i]
  <2> HIDE DEF k, n, B
  <2> QED BY <1>6, <1>7, Zenon
<1>9. DOMAIN k = 0..n /\ k = [i \in 0..n |-> k[i]]
  <2>1. \A f : DOMAIN B(f) = 0..n /\ B(f) = [i \in 0..n |-> B(f)[i]]
    OBVIOUS
  <2> HIDE DEF k, n, B
  <2> QED BY <1>6, <2>1, Zenon
<1>10. \A i \in 0..n : k[i] \in Int
  <2> DEFINE T == {i \in 0..n : k[i] \in Int}
  <2> HIDE DEF k, n
  <2>1. 0 \in T
    BY <1>0, <1>8
  <2>2. ASSUME NEW i \in 0..(n - 1), i \in T PROVE i + 1 \in T
    <3>1. i + 1 \in 1..n /\ (i + 1) - 1 = i
      BY <1>0
    <3>2. k[i + 1] = k[i] + s[i + 1]
      BY <1>0, <1>8, <3>1
    <3> QED BY <1>0, <2>2, <3>1, <3>2
  <2> HIDE DEF T
  <2>3. \A i \in 0..n : i \in T
    BY <1>0, <2>1, <2>2, UpTo, Zenon
  <2> QED BY <2>3 DEF T
<1> HIDE DEF k, n
<1>11. k \in [0..n -> Int]
  BY <1>9, <1>10
<1>12. k[0] = 0 /\ \A i \in 1..n : k[i] = k[i - 1] + s[i]
  BY <1>0, <1>8
<1> QED BY <1>11, <1>12 DEF k, n

-----------------------------------------------------------------------------
(* Order                                                                   *)

(* a is somewhere before b.                                                *)
InOrder(s, a, b) == \E i, j \in DOMAIN s : i < j /\ s[i] = a /\ s[j] = b

(* What push_front adds comes before everything else, ...                  *)
LEMMA PrependOrder ==
  ASSUME NEW S, NEW s \in Seq(S), NEW e \in S
  PROVE  /\ <<e>> \o s \in Seq(S) /\ ToSet(<<e>> \o s) = ToSet(s) \cup {e}
         /\ \A a, b : InOrder(<<e>> \o s, a, b) <=>
                        InOrder(s, a, b) \/ (a = e /\ b \in ToSet(s))
<1> DEFINE r == <<e>> \o s
<1>1. /\ Len(s) \in Nat /\ DOMAIN r = 1..(Len(s) + 1) /\ DOMAIN s = 1..Len(s)
      /\ r[1] = e /\ \A k \in 1..Len(s) : k + 1 \in DOMAIN r /\ r[k + 1] = s[k]
      /\ \A k \in DOMAIN r : k = 1 \/ (k - 1 \in DOMAIN s /\ r[k] = s[k - 1])
  BY PrependIs
<1> HIDE DEF r
<1>2. ASSUME NEW a, NEW b, InOrder(r, a, b)
      PROVE  InOrder(s, a, b) \/ (a = e /\ b \in ToSet(s))
  <2>1. PICK i \in DOMAIN r, j \in DOMAIN r : i < j /\ r[i] = a /\ r[j] = b
    BY <1>2 DEF InOrder
  <2>2. j - 1 \in DOMAIN s /\ b = s[j - 1]
    BY <1>1, <2>1
  <2>3. CASE i = 1
    BY <1>1, <2>1, <2>2, <2>3 DEF ToSet
  <2>4. CASE i # 1
    <3>1. i - 1 \in DOMAIN s /\ a = s[i - 1] /\ i - 1 < j - 1
      BY <1>1, <2>1, <2>4
    <3> QED BY <2>2, <3>1 DEF InOrder
  <2> QED BY <2>3, <2>4
<1>3. ASSUME NEW a, NEW b, InOrder(s, a, b) PROVE InOrder(r, a, b)
  <2>1. PICK i \in DOMAIN s, j \in DOMAIN s : i < j /\ s[i] = a /\ s[j] = b
    BY <1>3 DEF InOrder
  <2>2. i + 1 \in DOMAIN r /\ j + 1 \in DOMAIN r /\ i + 1 < j + 1 /\ r[i + 1] = a /\ r[j + 1] = b
    BY <1>1, <2>1
  <2> QED BY <2>2 DEF InOrder
<1>4. ASSUME NEW b \in ToSet(s) PROVE InOrder(r, e, b)
  <2>1. PICK j \in DOMAIN s : s[j] = b
    BY DEF ToSet
  <2>2. 1 \in DOMAIN r /\ j + 1 \in DOMAIN r /\ 1 < j + 1 /\ r[1] = e /\ r[j + 1] = b
    BY <1>1, <2>1
  <2> QED BY <2>2 DEF InOrder
<1>5. \A a, b : InOrder(r, a, b) <=> InOrder(s, a, b) \/ (a = e /\ b \in ToSet(s))
  BY <1>2, <1>3, <1>4
<1> QED BY <1>5, PrependElements DEF r

(* ... what push_back adds after everything else, ...                      *)
LEMMA AppendOrder ==
  ASSUME NEW S, NEW s \in Seq(S), NEW e \in S
  PROVE  \A a, b : InOrder(Append(s, e), a, b) <=>
                     InOrder(s, a, b) \/ (a \in ToSet(s) /\ b = e)
<1> DEFINE r == Append(s, e)
           n == Len(s)
<1>1. /\ n \in Nat /\ DOMAIN r = 1..(n + 1) /\ DOMAIN s = 1..n
      /\ r[n + 1] = e /\ \A k \in 1..n : r[k] = s[k]
  BY AppendProperties
<1> HIDE DEF r, n
<1>2. ASSUME NEW a, NEW b, InOrder(r, a, b)
      PROVE  InOrder(s, a, b) \/ (a \in ToSet(s) /\ b = e)
  <2>1. PICK i \in DOMAIN r, j \in DOMAIN r : i < j /\ r[i] = a /\ r[j] = b
    BY <1>2 DEF InOrder
  <2>2. i \in DOMAIN s /\ a = s[i]
    BY <1>1, <2>1
  <2>3. CASE j = n + 1
    BY <1>1, <2>1, <2>2, <2>3 DEF ToSet
  <2>4. CASE j # n + 1
    <3>1. j \in DOMAIN s /\ b = s[j]
      BY <1>1, <2>1, <2>4
    <3> QED BY <2>1, <2>2, <3>1 DEF InOrder
  <2> QED BY <2>3, <2>4
<1>3. ASSUME NEW a, NEW b, InOrder(s, a, b) PROVE InOrder(r, a, b)
  <2>1. PICK i \in DOMAIN s, j \in DOMAIN s : i < j /\ s[i] = a /\ s[j] = b
    BY <1>3 DEF InOrder
  <2>2. i \in DOMAIN r /\ j \in DOMAIN r /\ r[i] = a /\ r[j] = b
    BY <1>1, <2>1
  <2> QED BY <2>1, <2>2 DEF InOrder
<1>4. ASSUME NEW a \in ToSet(s) PROVE InOrder(r, a, e)
  <2>1. PICK i \in DOMAIN s : s[i] = a
    BY DEF ToSet
  <2>2. i \in DOMAIN r /\ n + 1 \in DOMAIN r /\ i < n + 1 /\ r[i] = a /\ r[n + 1] = e
    BY <1>1, <2>1
  <2> QED BY <2>2 DEF InOrder
<1>5. \A a, b : InOrder(r, a, b) <=> InOrder(s, a, b) \/ (a \in ToSet(s) /\ b = e)
  BY <1>2, <1>3, <1>4
<1> QED BY <1>5 DEF r

(* ... pop_back takes what everything left comes before, ...               *)
LEMMA FrontOrder ==
  ASSUME NEW S, NEW s \in Seq(S), s # <<>>
  PROVE  /\ Front(s) \in Seq(S) /\ Last(s) \in S
         /\ ToSet(s) = ToSet(Front(s)) \cup {Last(s)}
         /\ \A a, b : InOrder(Front(s), a, b) => InOrder(s, a, b)
         /\ \A a \in ToSet(Front(s)) : InOrder(s, a, Last(s))
<1> DEFINE t == Front(s)
           n == Len(s)
<1>1. /\ t \in Seq(S) /\ DOMAIN t = 1..(n - 1)
      /\ \A i \in 1..(n - 1) : t[i] = s[i]
      /\ Last(s) = s[n] /\ n \in Nat \ {0} /\ DOMAIN s = 1..n
  BY FrontIs
<1> HIDE DEF t, n
<1>2. Last(s) \in S
  BY <1>1
<1>3. ToSet(s) = ToSet(t) \cup {Last(s)}
  <2>1. \A i \in DOMAIN s : i = n \/ (i \in DOMAIN t /\ t[i] = s[i])
    BY <1>1
  <2>2. n \in DOMAIN s /\ \A i \in DOMAIN t : i \in DOMAIN s /\ s[i] = t[i]
    BY <1>1
  <2> QED BY <1>1, <2>1, <2>2 DEF ToSet
<1>4. ASSUME NEW a, NEW b, InOrder(t, a, b) PROVE InOrder(s, a, b)
  <2>1. PICK i \in DOMAIN t, j \in DOMAIN t : i < j /\ t[i] = a /\ t[j] = b
    BY <1>4 DEF InOrder
  <2>2. i \in DOMAIN s /\ j \in DOMAIN s /\ s[i] = a /\ s[j] = b
    BY <1>1, <2>1
  <2> QED BY <2>1, <2>2 DEF InOrder
<1>5. ASSUME NEW a \in ToSet(t) PROVE InOrder(s, a, Last(s))
  <2>1. PICK i \in DOMAIN t : t[i] = a
    BY DEF ToSet
  <2>2. i \in DOMAIN s /\ n \in DOMAIN s /\ i < n /\ s[i] = a /\ s[n] = Last(s)
    BY <1>1, <2>1
  <2> QED BY <2>2 DEF InOrder
<1> QED BY <1>1, <1>2, <1>3, <1>4, <1>5 DEF t

(* ... and what is kept stays in order.                                    *)
LEMMA KeptOrder ==
  ASSUME NEW S, NEW s \in Seq(S), NEW K
  PROVE  \A a, b : InOrder(Kept(s, K), a, b) => InOrder(s, a, b)
<1> DEFINE t == Kept(s, K)
<1>1. PICK at : Selects(at, t, s, Len(s), K)
  BY KeptSelects
<1>2. t \in Seq(S)
  BY KeptSelects
<1> HIDE DEF t
<1>3. DOMAIN t = 1..Len(t) /\ DOMAIN s = 1..Len(s)
  BY <1>2
<1>4. ASSUME NEW a, NEW b, InOrder(t, a, b) PROVE InOrder(s, a, b)
  <2>1. PICK p \in DOMAIN t, q \in DOMAIN t : p < q /\ t[p] = a /\ t[q] = b
    BY <1>4 DEF InOrder
  <2>2. /\ at[p] \in DOMAIN s /\ at[q] \in DOMAIN s /\ at[p] < at[q]
        /\ s[at[p]] = a /\ s[at[q]] = b
    BY <1>1, <1>3, <2>1 DEF Selects
  <2> QED BY <2>2 DEF InOrder
<1> QED BY <1>4 DEF t
-----------------------------------------------------------------------------
(* Sums                                                                    *)

(* Sequences that begin alike have the same sum up to there.               *)
LEMMA TotalSame ==
  ASSUME NEW s \in Seq(Int), NEW t \in Seq(Int), NEW n \in Nat,
         n <= Len(s), n <= Len(t), \A i \in 1..n : s[i] = t[i]
  PROVE  TotalUpTo(s)[n] = TotalUpTo(t)[n]
<1> DEFINE f == TotalUpTo(s)
           g == TotalUpTo(t)
           T == {i \in 0..n : f[i] = g[i]}
<1>1. Len(s) \in Nat /\ Len(t) \in Nat
  OBVIOUS
<1>2. f[0] = 0 /\ g[0] = 0
  BY TotalUpToIs
<1>3. \A i \in 1..Len(s) : f[i] = f[i - 1] + s[i]
  BY TotalUpToIs
<1>4. \A i \in 1..Len(t) : g[i] = g[i - 1] + t[i]
  BY TotalUpToIs
<1> HIDE DEF f, g
<1>5. 0 \in T
  BY <1>2
<1>6. ASSUME NEW i \in 0..(n - 1), i \in T PROVE i + 1 \in T
  <2>1. /\ i + 1 \in 0..n /\ i + 1 \in 1..n /\ i + 1 \in 1..Len(s) /\ i + 1 \in 1..Len(t)
        /\ (i + 1) - 1 = i
    BY <1>1
  <2>2. f[i + 1] = f[i] + s[i + 1]
    BY <1>3, <2>1
  <2>3. g[i + 1] = g[i] + t[i + 1]
    BY <1>4, <2>1
  <2>4. s[i + 1] = t[i + 1] /\ f[i] = g[i]
    BY <1>6, <2>1
  <2> QED BY <2>1, <2>2, <2>3, <2>4
<1>7. \A i \in 0..n : i \in T
  <2> HIDE DEF T
  <2> QED BY <1>5, <1>6, UpTo, Zenon
<1>8. n \in 0..n
  OBVIOUS
<1> QED BY <1>7, <1>8 DEF f, g

(* One more number at the back ...                                         *)
LEMMA TotalAppend ==
  ASSUME NEW s \in Seq(Int), NEW t \in Seq(Int), Len(t) = Len(s) + 1,
         \A i \in 1..Len(s) : t[i] = s[i]
  PROVE  Total(t) = Total(s) + t[Len(t)]
<1> DEFINE n == Len(s)
<1>1. n \in Nat
  OBVIOUS
<1>2. \A i \in 1..Len(t) : TotalUpTo(t)[i] = TotalUpTo(t)[i - 1] + t[i]
  BY TotalUpToIs
<1> HIDE DEF n
<1>3. n + 1 \in 1..Len(t) /\ (n + 1) - 1 = n
  BY <1>1 DEF n
<1>4. TotalUpTo(t)[n + 1] = TotalUpTo(t)[n] + t[n + 1]
  BY <1>2, <1>3
<1>5. TotalUpTo(t)[n] = TotalUpTo(s)[n]
  <2>1. n <= Len(s) /\ n <= Len(t) /\ \A i \in 1..n : s[i] = t[i]
    BY <1>1 DEF n
  <2> QED BY <1>1, <2>1, TotalSame
<1> QED BY <1>4, <1>5 DEF Total, n

(* ... or at the front.                                                    *)
LEMMA TotalPrepend ==
  ASSUME NEW s \in Seq(Int), NEW t \in Seq(Int), Len(t) = Len(s) + 1,
         \A i \in 1..Len(s) : t[i + 1] = s[i]
  PROVE  Total(t) = Total(s) + t[1]
<1> DEFINE n == Len(s)
           f == TotalUpTo(s)
           g == TotalUpTo(t)
           T == {i \in 0..n : g[i + 1] = f[i] + t[1]}
<1>1. n \in Nat /\ Len(t) = n + 1 /\ t[1] \in Int
  OBVIOUS
<1>2. f[0] = 0 /\ g[0] = 0
  BY TotalUpToIs
<1>3. f \in [0..n -> Int] /\ \A i \in 1..n : f[i] = f[i - 1] + s[i]
  BY TotalUpToIs
<1>4. \A i \in 1..Len(t) : g[i] = g[i - 1] + t[i]
  BY TotalUpToIs
<1>5. \A i \in 1..n : t[i + 1] = s[i] /\ s[i] \in Int
  OBVIOUS
<1>6. Total(t) = g[n + 1] /\ Total(s) = f[n]
  BY DEF Total
<1> HIDE DEF f, g, n
<1>7. 0 \in T
  <2>1. 1 \in 1..Len(t) /\ 1 - 1 = 0 /\ 0 + 1 = 1
    BY <1>1
  <2>2. g[1] = g[0] + t[1]
    BY <1>4, <2>1
  <2> QED BY <1>1, <1>2, <2>1, <2>2
<1>8. ASSUME NEW i \in 0..(n - 1), i \in T PROVE i + 1 \in T
  <2>1. /\ i \in 0..n /\ i + 1 \in 0..n /\ i + 1 \in 1..n /\ (i + 1) + 1 \in 1..Len(t)
        /\ (i + 1) - 1 = i /\ ((i + 1) + 1) - 1 = i + 1
    BY <1>1
  <2>2. f[i + 1] = f[i] + s[i + 1] /\ f[i] \in Int
    BY <1>3, <2>1
  <2>3. g[(i + 1) + 1] = g[i + 1] + t[(i + 1) + 1]
    BY <1>4, <2>1
  <2>4. t[(i + 1) + 1] = s[i + 1] /\ s[i + 1] \in Int /\ g[i + 1] = f[i] + t[1]
    BY <1>5, <1>8, <2>1
  <2>5. g[(i + 1) + 1] = f[i + 1] + t[1]
    <3>1. \A a, b, c \in Int : (a + b) + c = (a + c) + b
      OBVIOUS
    <3>2. t[1] \in Int
      BY <1>1
    <3>3. (f[i] + t[1]) + s[i + 1] = (f[i] + s[i + 1]) + t[1]
      BY <2>2, <2>4, <3>1, <3>2
    <3> QED BY <2>2, <2>3, <2>4, <3>3, Zenon
  <2> QED BY <2>1, <2>5
<1>9. \A i \in 0..n : i \in T
  <2> HIDE DEF T
  <2> QED BY <1>1, <1>7, <1>8, UpTo, Zenon
<1>10. n \in T
  <2>1. n \in 0..n
    BY <1>1
  <2> HIDE DEF T
  <2> QED BY <1>9, <2>1
<1> QED BY <1>6, <1>10

(* A sum of natural numbers is one, ...                                    *)
LEMMA TotalNat ==
  ASSUME NEW s \in Seq(Nat)
  PROVE  Total(s) \in Nat
<1> DEFINE n == Len(s)
           f == TotalUpTo(s)
           T == {i \in 0..n : f[i] \in Nat}
<1>1. n \in Nat /\ s \in Seq(Int) /\ \A i \in 1..n : s[i] \in Nat
  OBVIOUS
<1>2. f[0] = 0
  BY <1>1, TotalUpToIs
<1>3. \A i \in 1..n : f[i] = f[i - 1] + s[i]
  BY <1>1, TotalUpToIs
<1>4. Total(s) = f[n]
  BY DEF Total
<1> HIDE DEF f, n
<1>5. 0 \in T
  BY <1>1, <1>2
<1>6. ASSUME NEW i \in 0..(n - 1), i \in T PROVE i + 1 \in T
  <2>1. i + 1 \in 0..n /\ i + 1 \in 1..n /\ (i + 1) - 1 = i
    BY <1>1
  <2>2. f[i + 1] = f[i] + s[i + 1] /\ s[i + 1] \in Nat /\ f[i] \in Nat
    BY <1>1, <1>3, <1>6, <2>1
  <2> QED BY <2>1, <2>2
<1>7. \A i \in 0..n : i \in T
  <2> HIDE DEF T
  <2> QED BY <1>1, <1>5, <1>6, UpTo, Zenon
<1>8. n \in 0..n
  BY <1>1
<1> QED BY <1>4, <1>7, <1>8

(* ... and of zeros zero.                                                  *)
LEMMA TotalZero ==
  ASSUME NEW s \in Seq(Nat), \A i \in 1..Len(s) : s[i] = 0
  PROVE  Total(s) = 0
<1> DEFINE n == Len(s)
           f == TotalUpTo(s)
           T == {i \in 0..n : f[i] = 0}
<1>1. n \in Nat /\ s \in Seq(Int) /\ \A i \in 1..n : s[i] = 0
  OBVIOUS
<1>2. f[0] = 0
  BY <1>1, TotalUpToIs
<1>3. \A i \in 1..n : f[i] = f[i - 1] + s[i]
  BY <1>1, TotalUpToIs
<1>4. Total(s) = f[n]
  BY DEF Total
<1> HIDE DEF f, n
<1>5. 0 \in T
  BY <1>1, <1>2
<1>6. ASSUME NEW i \in 0..(n - 1), i \in T PROVE i + 1 \in T
  <2>1. i + 1 \in 0..n /\ i + 1 \in 1..n /\ (i + 1) - 1 = i
    BY <1>1
  <2>2. f[i + 1] = f[i] + s[i + 1] /\ s[i + 1] = 0 /\ f[i] = 0
    BY <1>1, <1>3, <1>6, <2>1
  <2> QED BY <2>1, <2>2
<1>7. \A i \in 0..n : i \in T
  <2> HIDE DEF T
  <2> QED BY <1>1, <1>5, <1>6, UpTo, Zenon
<1>8. n \in 0..n
  BY <1>1
<1> QED BY <1>4, <1>7, <1>8
=============================================================================

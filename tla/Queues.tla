------------------------------- MODULE Queues -------------------------------
(***************************************************************************)
(* Operators on queues that run through all of a queue.  They are written  *)
(* as recursive functions, whose values can be proved (QueueLemmas.tla);   *)
(* of SelectSeq and the folds the provers know nothing.                    *)
(***************************************************************************)
EXTENDS Integers, Sequences, SequencesExt

(* What of the first i elements of s is in K, in its order.                *)
KeptUpTo(s, K) ==
  LET kept[i \in 0..Len(s)] ==
        IF i = 0 THEN <<>>
        ELSE IF s[i] \in K THEN Append(kept[i - 1], s[i]) ELSE kept[i - 1]
  IN  kept

Kept(s, K) == KeptUpTo(s, K)[Len(s)]

(* The sum of the first i numbers of s.                                    *)
TotalUpTo(s) ==
  LET total[i \in 0..Len(s)] == IF i = 0 THEN 0 ELSE total[i - 1] + s[i]
  IN  total

Total(s) == TotalUpTo(s)[Len(s)]
=============================================================================

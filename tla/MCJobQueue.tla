----------------------------- MODULE MCJobQueue -----------------------------
(* CJobQueue with a few jobs; see the configurations.                      *)
EXTENDS JobQueue, TLC

MCSymmetry == Permutations(Workers) \cup Permutations(Jobs)
=============================================================================

----------------------------- MODULE JobService -----------------------------
(***************************************************************************)
(* What CJobManager promises its clients, without threads, queues or       *)
(* locks: a job that is accepted is either dropped before it starts or is  *)
(* run once and then deleted once, only a limited number of jobs of low    *)
(* priority runs at a time, and once the manager is closed nothing it      *)
(* accepted is left.  JobManager.tla is shown to implement it.             *)
(***************************************************************************)
EXTENDS Naturals, FiniteSets

CONSTANTS
  Jobs,          \* CJob objects
  Priorities,    \* CJob::PRIORITY
  Limit(_)       \* jobs that may run when one of this priority starts

VARIABLES
  status,        \* where each job is in its life
  class,         \* the priority it was accepted with
  phase          \* "open", "closing" or "closed"

vars == <<status, class, phase>>

With(st) == {j \in Jobs : status[j] = st}

Init ==
  /\ status = [j \in Jobs |-> "new"]
  /\ class \in [Jobs -> Priorities]
  /\ phase = "open"

Move(j, from, to) ==
  /\ status[j] = from
  /\ status' = [status EXCEPT ![j] = to]
  /\ UNCHANGED phase

Accept(j, p) ==
  /\ phase = "open"
  /\ Move(j, "new", "queued")
  /\ class' = [class EXCEPT ![j] = p]

Refuse(j) == phase # "open" /\ Move(j, "new", "refused") /\ UNCHANGED class

Drop(j) == Move(j, "queued", "freed") /\ UNCHANGED class

Start(j) ==
  /\ Cardinality(With("running")) < Limit(class[j])
  /\ Move(j, "queued", "running")
  /\ UNCHANGED class

Finish(j) == Move(j, "running", "finished") /\ UNCHANGED class

Delete(j) == Move(j, "finished", "freed") /\ UNCHANGED class

Close ==
  /\ status' = [j \in Jobs |-> IF status[j] = "queued" THEN "freed" ELSE status[j]]
  /\ UNCHANGED class
  /\ \/ phase' = "closing"
     \/ With("running") \cup With("finished") = {} /\ phase' = "closed"

Closed ==
  /\ phase = "closing"
  /\ With("queued") \cup With("running") \cup With("finished") = {}
  /\ phase' = "closed"
  /\ UNCHANGED <<status, class>>

Reopen == phase = "closed" /\ phase' = "open" /\ UNCHANGED <<status, class>>

Next ==
  \/ \E j \in Jobs :
       \/ \E p \in Priorities : Accept(j, p)
       \/ Refuse(j) \/ Drop(j) \/ Start(j) \/ Finish(j) \/ Delete(j)
  \/ Close \/ Closed \/ Reopen

Spec == Init /\ [][Next]_vars
=============================================================================

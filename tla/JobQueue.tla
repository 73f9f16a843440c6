------------------------------ MODULE JobQueue ------------------------------
(***************************************************************************)
(* CJobQueue (xbmc/utils/JobManager.cpp) on top of CJobManager: a queue of *)
(* jobs of which m_jobsAtOnce at a time are handed to the manager.         *)
(*                                                                         *)
(* The queue has a lock of its own, held over its calls to the manager; a  *)
(* worker takes it in OnJobComplete, holding no other.  Each operation     *)
(* makes at most one call to the manager and is one action, except         *)
(* CancelJobs, which makes one per entry.  The manager is not stopped      *)
(* while the queue is in use, and every job given to it comes from this    *)
(* queue.                                                                  *)
(*                                                                         *)
(* The code finds jobs by the job's virtual operator==.  The model is of   *)
(* jobs that compare by address (CLambdaJob, JobManager.h:79-84), which is *)
(* what Submit queues.  Of others nothing here is claimed: the default     *)
(* operator== (Job.h:139-142) is never true, so that such an entry is      *)
(* never erased and keeps its slot, and one that compares by value may     *)
(* erase the entry of another job.                                         *)
(***************************************************************************)
EXTENDS JobManager

CONSTANTS
  m_jobsAtOnce,
  m_priority,
  m_lifo

ASSUME QueueAssumption ==
  /\ m_jobsAtOnce \in Nat \ {0}
  /\ m_priority \in Priorities
  /\ m_lifo \in BOOLEAN

VARIABLES
  waiting,      \* m_jobQueue: a deque of jobs; the next one is at its back
  handed,       \* m_processing: <<[job, id], ...>>, what the manager was given
  cancelling,   \* the entries CancelJobs, which holds the lock, has yet to cancel
  locked,       \* whether CancelJobs holds the lock
  called,       \* the workers whose callback has run OnJobComplete
  owner,        \* history: each job's owner as the clients see it
  released      \* history: the slots CancelJob gave back while jobs waited, and
                \* that no job was handed over for since

qvars == <<waiting, handed, cancelling, locked, called, owner, released>>
allvars == <<vars, qvars>>

QInit ==
  /\ Init
  /\ waiting = <<>> /\ handed = <<>> /\ cancelling = <<>>
  /\ locked = FALSE
  /\ called = {}
  /\ owner = [j \in Jobs |-> "client"]
  /\ released = 0

JobsOf(entries) == {entries[i].job : i \in DOMAIN entries}

(* find and erase, where jobs compare by address: of the entries, which    *)
(* are of different jobs, j's.                                             *)
Without(entries, j) ==
  IF j \in JobsOf(entries)
  THEN RemoveAt(entries, CHOOSE i \in DOMAIN entries : entries[i].job = j)
  ELSE entries

(* What is still owed of the slots CancelJob gave back: nothing once no    *)
(* job waits.                                                              *)
Released(slots) == released' = IF waiting' = <<>> THEN 0 ELSE slots

(* Mutation: the slots in use are counted one too low.                     *)
QueueNextJobOffByOne(queue, entries) ==
  IF queue # <<>> /\ Len(entries) <= m_jobsAtOnce
  THEN /\ AddJob(Last(queue), m_priority, TRUE)
       /\ handed' = Append(entries, [job |-> Last(queue), id |-> NextId])
       /\ waiting' = Front(queue)
  ELSE /\ handed' = entries
       /\ waiting' = queue
       /\ UNCHANGED vars

(* Mutation: the entry is stored before the manager has given the id.      *)
QueueNextJobOldId(queue, entries) ==
  IF queue # <<>> /\ Len(entries) < m_jobsAtOnce
  THEN /\ AddJob(Last(queue), m_priority, TRUE)
       /\ handed' = Append(entries, [job |-> Last(queue), id |-> 0])
       /\ waiting' = Front(queue)
  ELSE /\ handed' = entries
       /\ waiting' = queue
       /\ UNCHANGED vars

(* QueueNextJob, on the deque and entries its caller leaves: hand the job  *)
(* at the back to the manager if a slot is free.                           *)
QueueNextJob(queue, entries) ==
  IF queue # <<>> /\ Len(entries) < m_jobsAtOnce
  THEN /\ AddJob(Last(queue), m_priority, TRUE)
       /\ handed' = Append(entries, [job |-> Last(queue), id |-> NextId])
       /\ waiting' = Front(queue)
  ELSE /\ handed' = entries
       /\ waiting' = queue
       /\ UNCHANGED vars

(* AddJob of a new job.  Compared by address it cannot equal one the queue *)
(* has, so the branch that deletes a duplicate is never taken.             *)
QAddJob(j) ==
  /\ ~locked
  /\ owner[j] = "client"
  /\ QueueNextJob(IF m_lifo THEN Append(waiting, j) ELSE <<j>> \o waiting, handed)
  /\ owner' = [owner EXCEPT ![j] = "queue"]
  /\ Released(IF Len(handed') > Len(handed) THEN released - 1 ELSE released)
  /\ UNCHANGED <<cancelling, locked, called>>

(* CJobPointer::CancelJob: the manager's CancelJob by the entry's id, which *)
(* does nothing if the manager has no such job any more.                   *)
CancelEntry(e) ==
  \/ CancelQueued(e.id)
  \/ CancelProcessing(e.id)
  \/ /\ \A j \in QueuedJobs \cup m_processing : item[j].id # e.id
     /\ UNCHANGED vars

(* CancelJob of a job handed over: it gives the slot back and hands over   *)
(* nothing for it.                                                         *)
QCancelHanded(j) ==
  /\ ~locked
  /\ \E i \in DOMAIN handed : handed[i].job = j /\ CancelEntry(handed[i])
  /\ handed' = Without(handed, j)
  /\ owner' = [owner EXCEPT ![j] = "cancelled"]
  /\ UNCHANGED <<waiting, cancelling, locked, called>>
  /\ Released(released + 1)

(* CancelJob of a job that only waits: deleted.                            *)
QCancelWaiting(j) ==
  /\ ~locked
  /\ j \notin JobsOf(handed)
  /\ \E i \in DOMAIN waiting : waiting[i] = j /\ waiting' = RemoveAt(waiting, i)
  /\ owner' = [owner EXCEPT ![j] = "deleted"]
  /\ Released(released)
  /\ UNCHANGED <<vars, handed, cancelling, locked, called>>

(* CancelJobs (and the destructor) takes the lock ...                      *)
QCancelJobs ==
  /\ ~locked
  /\ locked' = TRUE
  /\ cancelling' = handed
  /\ UNCHANGED <<vars, waiting, handed, called, owner, released>>

(* ... cancels one entry after the other, while the workers go on ...      *)
QCancelNext ==
  /\ locked
  /\ cancelling # <<>>
  /\ CancelEntry(Head(cancelling))
  /\ cancelling' = Tail(cancelling)
  /\ owner' = [owner EXCEPT ![Head(cancelling).job] = "cancelled"]
  /\ UNCHANGED <<waiting, handed, locked, called, released>>

(* ... then deletes what waits and clears both lists.                      *)
QCancelDone ==
  /\ locked
  /\ cancelling = <<>>
  /\ locked' = FALSE
  /\ owner' = [j \in Jobs |-> IF j \in ToSet(waiting) THEN "deleted" ELSE owner[j]]
  /\ waiting' = <<>>
  /\ handed' = <<>>
  /\ released' = 0
  /\ UNCHANGED <<vars, cancelling, called>>

(* Mutation: the lock is not taken.                                        *)
QOnJobCompleteUnlocked(w) ==
  /\ pc[w] = "callback"
  /\ w \notin called
  /\ QueueNextJob(waiting, Without(handed, job[w]))
  /\ called' = called \cup {w}
  /\ Released(IF Len(handed') > Len(handed) THEN released - 1 ELSE released)
  /\ UNCHANGED <<cancelling, locked, owner>>

(* Mutation: the entry of the completed job stays.                         *)
QOnJobCompleteKeeps(w) ==
  /\ pc[w] = "callback"
  /\ w \notin called
  /\ ~locked
  /\ QueueNextJob(waiting, handed)
  /\ called' = called \cup {w}
  /\ Released(IF Len(handed') > Len(handed) THEN released - 1 ELSE released)
  /\ UNCHANGED <<cancelling, locked, owner>>

(* Mutation: no job is queued next.                                        *)
QOnJobCompleteOnly(w) ==
  /\ pc[w] = "callback"
  /\ w \notin called
  /\ ~locked
  /\ handed' = Without(handed, job[w])
  /\ called' = called \cup {w}
  /\ UNCHANGED <<vars, waiting, cancelling, locked, owner, released>>

(* The worker's callback: OnJobComplete drops the entry, if it is still    *)
(* there, and hands over the next job.                                     *)
QOnJobComplete(w) ==
  /\ pc[w] = "callback"
  /\ w \notin called
  /\ ~locked
  /\ QueueNextJob(waiting, Without(handed, job[w]))
  /\ called' = called \cup {w}
  /\ Released(IF Len(handed') > Len(handed) THEN released - 1 ELSE released)
  /\ UNCHANGED <<cancelling, locked, owner>>

QCallbackReturn(w) ==
  /\ w \in called
  /\ CallbackReturn(w)
  /\ called' = called \ {w}
  /\ UNCHANGED <<waiting, handed, cancelling, locked, owner, released>>

QWorkerStep(w) ==
  \/ QOnJobComplete(w) \/ QCallbackReturn(w)
  \/ WorkerStep(w) /\ ~CallbackReturn(w) /\ UNCHANGED qvars

QDoWork(w) == DoWork(w) /\ UNCHANGED qvars

QNext ==
  \/ \E j \in Jobs : QAddJob(j) \/ QCancelHanded(j) \/ QCancelWaiting(j)
  \/ QCancelJobs \/ QCancelNext \/ QCancelDone
  \/ (PauseJobs \/ UnPauseJobs) /\ UNCHANGED qvars
  \/ \E w \in Workers : QWorkerStep(w) \/ QDoWork(w)

QSpec == QInit /\ [][QNext]_allvars

-----------------------------------------------------------------------------
QTypeOK ==
  /\ waiting \in Seq(Jobs)
  /\ handed \in Seq([job : Jobs, id : 1..MaxId])
  /\ cancelling \in Seq([job : Jobs, id : 1..MaxId])
  /\ locked \in BOOLEAN
  /\ called \subseteq Workers
  /\ owner \in [Jobs -> {"client", "queue", "cancelled", "deleted"}]
  /\ released \in 0..m_jobsAtOnce

(* A cancelled job can end only silently or in a callback copied before it *)
(* was cancelled; whether it does or not, at most m_jobsAtOnce jobs that   *)
(* are not cancelled are in the manager's hands at any time.               *)
AtOnce ==
  Cardinality({j \in Live : owner[j] = "queue"
                            /\ ~\E w \in called \cup {v \in Workers : pc[v] \in {"erase", "free"}} :
                                  job[w] = j}) <= m_jobsAtOnce

(* Every slot that is taken is given back: the manager still has the job   *)
(* of each entry, and will call OnJobComplete for it, unless CancelJobs is *)
(* at work on it.                                                          *)
WillCallBack(j) ==
  /\ j \in Live
  /\ \/ j \in QueuedJobs /\ item[j].callback
     \/ \E w \in Workers \ called :
          /\ job[w] = j
          /\ \/ pc[w] \in {"work", "progress"} /\ item[j].callback
             \/ pc[w] \in {"notify", "callback"} /\ copy[w]

SlotsComeBack ==
  ~locked => \A i \in DOMAIN handed :
               /\ WillCallBack(handed[i].job)
               /\ item[handed[i].job].id = handed[i].id

(* JobManager.h:52 "Holds a queue of jobs to be processed sequentially":   *)
(* no slot is idle while jobs wait, but those that CancelJob gave back     *)
(* without handing over another job for them: each hand-over, by AddJob or *)
(* OnJobComplete, fills one slot however many are free.                    *)
NoIdleSlot ==
  waiting # <<>> => m_jobsAtOnce - Len(handed) = released

(* When CancelJobs returns none of the queue's jobs is left to be run, and *)
(* no job in progress can get a callback any more.  It may have one: the   *)
(* copy that the manager's OnJobComplete made before is out of reach, see  *)
(* NotPerformedAfterCancelJobs.                                            *)
CancelJobsClears ==
  [][locked /\ ~locked' =>
       /\ waiting' = <<>> /\ QueuedJobs' = {}
       /\ \A w \in Workers : pc[w] \in {"work", "progress"} => ~item[job[w]].callback]_allvars

(* JobManager.h:134-135 on CancelJobs: "Any job currently being processed  *)
(* may complete after this call has completed, but OnJobComplete will not  *)
(* be performed": when CancelJobs returns no worker is on its way there    *)
(* with a callback.  The destructor, which only calls CancelJobs, relies   *)
(* on this: OnJobComplete would use a queue that is gone.                  *)
NotPerformedAfterCancelJobs ==
  [][locked /\ ~locked' =>
       \A w \in Workers \ called : ~(pc[w] \in {"notify", "callback"} /\ copy[w])]_allvars
=============================================================================

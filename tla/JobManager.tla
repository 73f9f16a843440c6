----------------------------- MODULE JobManager -----------------------------
(***************************************************************************)
(* CJobManager and its CJobWorker threads (xbmc/utils/JobManager.cpp).     *)
(*                                                                         *)
(* A section of code that holds m_section without leaving it is one        *)
(* action; a function that leaves the section (GetNextJob, OnJobProgress,  *)
(* OnJobComplete, CancelJobs) is cut where it leaves.  m_jobEvent is an    *)
(* auto-reset CEvent: it wakes every waiter, and the last one to leave the *)
(* wait resets it.  Clients are threads that may call any operation at any *)
(* time; one of them, the controller, calls CancelJobs and Restart.        *)
(***************************************************************************)
EXTENDS Integers, Sequences, FiniteSets, SequencesExt

CONSTANTS
  Jobs,              \* CJob objects; each is handed to AddJob at most once
  Workers,           \* CJobWorker objects (a deleted one may be created again)
  max_workers,       \* GetMaxWorkers' static const, 5 in the code
  Calls,             \* the AddJob calls clients make: <<job, priority, has callback>>
  MaxId,             \* the largest unsigned int: m_jobCounter wraps after it
  NoJob

PRIORITY_LOW_PAUSABLE == 0
PRIORITY_LOW == 1
PRIORITY_NORMAL == 2
PRIORITY_HIGH == 3
PRIORITY_DEDICATED == 4

Priorities == PRIORITY_LOW_PAUSABLE .. PRIORITY_DEDICATED

(* A job's memory and every id are finite; max_workers leaves a worker to  *)
(* each priority.                                                          *)
ASSUME JobsAssumption ==
  /\ IsFiniteSet(Jobs)
  /\ NoJob \notin Jobs
ASSUME LimitsAssumption ==
  /\ max_workers \in Nat /\ max_workers > PRIORITY_HIGH
  /\ Calls \subseteq Jobs \X Priorities \X BOOLEAN
  /\ MaxId \in Nat \ {0}

VARIABLES
  m_jobCounter,
  m_jobQueue,      \* a deque of jobs per priority
  m_pauseJobs,
  m_processing,    \* the jobs of the work items being processed
  m_workers,       \* the workers GetNextJob still serves
  m_running,
  m_jobEvent,      \* CEvent::signaled
  item,            \* each job's CWorkItem: m_id, m_priority, m_callback # NULL
  life,            \* each job's memory
  pc,              \* where each worker thread is
  job,             \* the job a worker holds
  copy,            \* OnJobProgress' and OnJobComplete's copy of m_callback # NULL
  stopper,         \* where the controller is in CancelJobs
  cancelled        \* history: jobs whose CancelJob returned while they ran

mvars == <<m_jobCounter, m_jobQueue, m_pauseJobs, m_processing, m_workers,
           m_running, m_jobEvent, item>>
tvars == <<pc, job, copy>>
vars == <<mvars, life, tvars, stopper, cancelled>>

Lives == {"new", "refused", "live", "freed", "corrupt"}
Steps == {"none", "getjob", "towait", "waiting", "timedout", "work",
          "progress", "notify", "callback", "erase", "free", "ending"}

(* GetMaxWorkers: DEDICATED jobs are as good as unlimited.                 *)
GetMaxWorkers(priority) ==
  IF priority = PRIORITY_DEDICATED THEN 10000
  ELSE max_workers - (PRIORITY_HIGH - priority)

Init ==
  /\ m_jobCounter = 0
  /\ m_jobQueue = [p \in Priorities |-> <<>>]
  /\ m_pauseJobs = FALSE
  /\ m_processing = {}
  /\ m_workers = {}
  /\ m_running = TRUE
  /\ m_jobEvent = FALSE
  /\ item = [j \in Jobs |-> [id |-> 0, priority |-> PRIORITY_LOW, callback |-> FALSE]]
  /\ life = [j \in Jobs |-> "new"]
  /\ pc = [w \in Workers |-> "none"]
  /\ job = [w \in Workers |-> NoJob]
  /\ copy = [w \in Workers |-> FALSE]
  /\ stopper = "idle"
  /\ cancelled = {}

Goto(w, step) == pc' = [pc EXCEPT ![w] = step]

(* delete m_job: deleting what is not live corrupts the heap.              *)
AfterFree(js) ==
  [j \in Jobs |-> IF j \notin js THEN life[j]
                  ELSE IF life[j] = "live" THEN "freed" ELSE "corrupt"]

(* The unsigned counter's next value, 0 (invalid job) skipped.             *)
NextId == IF m_jobCounter = MaxId THEN 1 ELSE m_jobCounter + 1

Live == {j \in Jobs : life[j] = "live"}

-----------------------------------------------------------------------------
(* Clients                                                                 *)

(* Mutation: as many workers as work items counts as one to spare.         *)
StartWorkersOffByOne(priority) ==
  IF Cardinality(m_processing) >= GetMaxWorkers(priority)
  THEN UNCHANGED <<m_jobEvent, m_workers, pc>>
  ELSE IF Cardinality(m_processing) <= Cardinality(m_workers)
  THEN m_jobEvent' = TRUE /\ UNCHANGED <<m_workers, pc>>
  ELSE \E w \in Workers :
         /\ pc[w] = "none"
         /\ m_workers' = m_workers \cup {w}
         /\ Goto(w, "getjob")
         /\ UNCHANGED m_jobEvent

(* StartWorkers, inside AddJob's section: wake a sleeper if there are more *)
(* workers than work items, otherwise create a worker.                     *)
StartWorkers(priority) ==
  IF Cardinality(m_processing) >= GetMaxWorkers(priority)
  THEN UNCHANGED <<m_jobEvent, m_workers, pc>>
  ELSE IF Cardinality(m_processing) < Cardinality(m_workers)
  THEN m_jobEvent' = TRUE /\ UNCHANGED <<m_workers, pc>>
  ELSE \E w \in Workers :
         /\ pc[w] = "none"
         /\ m_workers' = m_workers \cup {w}
         /\ Goto(w, "getjob")
         /\ UNCHANGED m_jobEvent

(* AddJob while m_running.  An id is not issued again while a job that has *)
(* it lives: 2^32 jobs would have to be added during that job's life.      *)
AddJob(j, priority, callback) ==
  /\ life[j] = "new"
  /\ m_running
  /\ \A k \in Live : item[k].id # NextId
  /\ m_jobCounter' = NextId
  /\ item' = [item EXCEPT ![j] = [id |-> NextId, priority |-> priority,
                                  callback |-> callback]]
  /\ m_jobQueue' = [m_jobQueue EXCEPT ![priority] = Append(@, j)]
  /\ life' = [life EXCEPT ![j] = "live"]
  /\ StartWorkers(priority)
  /\ UNCHANGED <<m_pauseJobs, m_processing, m_running, job, copy, stopper, cancelled>>

(* AddJob returns 0 once the manager is stopped; it does not take the job. *)
AddJobRefused(j) ==
  /\ life[j] = "new"
  /\ ~m_running
  /\ life' = [life EXCEPT ![j] = "refused"]
  /\ UNCHANGED <<mvars, tvars, stopper, cancelled>>

(* Mutation: the job is deleted and its work item stays in the queue.      *)
CancelQueuedNoErase(jobID) ==
  \E p \in Priorities : \E i \in DOMAIN m_jobQueue[p] :
    /\ item[m_jobQueue[p][i]].id = jobID
    /\ life' = AfterFree({m_jobQueue[p][i]})
    /\ UNCHANGED <<mvars, tvars, stopper, cancelled>>

(* CancelJob of a job that is still queued: deleted, never run.            *)
CancelQueued(jobID) ==
  \E p \in Priorities : \E i \in DOMAIN m_jobQueue[p] :
    /\ item[m_jobQueue[p][i]].id = jobID
    /\ m_jobQueue' = [m_jobQueue EXCEPT ![p] = RemoveAt(@, i)]
    /\ life' = AfterFree({m_jobQueue[p][i]})
    /\ UNCHANGED <<m_jobCounter, m_pauseJobs, m_processing, m_workers, m_running,
                   m_jobEvent, item, tvars, stopper, cancelled>>

(* Mutation: a job in progress keeps its callback.                         *)
CancelProcessingKeepsCallback(jobID) ==
  /\ \A p \in Priorities : \A i \in DOMAIN m_jobQueue[p] :
       item[m_jobQueue[p][i]].id # jobID
  /\ \E j \in m_processing :
       /\ item[j].id = jobID
       /\ cancelled' = cancelled \cup {j}
  /\ UNCHANGED <<mvars, life, tvars, stopper>>

(* CancelJob of a job in progress: only its callback is taken away.        *)
CancelProcessing(jobID) ==
  /\ \A p \in Priorities : \A i \in DOMAIN m_jobQueue[p] :
       item[m_jobQueue[p][i]].id # jobID
  /\ \E j \in m_processing :
       /\ item[j].id = jobID
       /\ item' = [item EXCEPT ![j].callback = FALSE]
       /\ cancelled' = cancelled \cup {j}
  /\ UNCHANGED <<m_jobCounter, m_jobQueue, m_pauseJobs, m_processing, m_workers,
                 m_running, m_jobEvent, life, tvars, stopper>>

PauseJobs ==
  /\ m_pauseJobs' = TRUE
  /\ UNCHANGED <<m_jobCounter, m_jobQueue, m_processing, m_workers, m_running,
                 m_jobEvent, item, life, tvars, stopper, cancelled>>

UnPauseJobs ==
  /\ m_pauseJobs' = FALSE
  /\ UNCHANGED <<m_jobCounter, m_jobQueue, m_processing, m_workers, m_running,
                 m_jobEvent, item, life, tvars, stopper, cancelled>>

(* What a client is told by IsProcessing(priority).                        *)
IsProcessing(priority) ==
  ~m_pauseJobs /\ \E j \in m_processing : item[j].priority = priority

(* CancelJobs up to its loop: stop, delete what is queued, take the        *)
(* callbacks of what is processing; the loop only if a worker is left.     *)
QueuedJobs == UNION {ToSet(m_jobQueue[p]) : p \in Priorities}

(* Mutation: it returns without waiting for the workers.                   *)
CancelJobsNoWait ==
  /\ stopper = "idle"
  /\ m_running' = FALSE
  /\ life' = AfterFree(QueuedJobs)
  /\ m_jobQueue' = [p \in Priorities |-> <<>>]
  /\ item' = [j \in Jobs |-> IF j \in m_processing
                             THEN [item[j] EXCEPT !.callback = FALSE] ELSE item[j]]
  /\ cancelled' = cancelled \cup m_processing
  /\ UNCHANGED <<m_jobCounter, m_pauseJobs, m_processing, m_workers, m_jobEvent,
                 tvars, stopper>>

(* Mutation: m_running is left set.                                        *)
CancelJobsStillRunning ==
  /\ stopper = "idle"
  /\ life' = AfterFree(QueuedJobs)
  /\ m_jobQueue' = [p \in Priorities |-> <<>>]
  /\ item' = [j \in Jobs |-> IF j \in m_processing
                             THEN [item[j] EXCEPT !.callback = FALSE] ELSE item[j]]
  /\ stopper' = IF m_workers = {} THEN "idle" ELSE "set"
  /\ cancelled' = cancelled \cup m_processing
  /\ UNCHANGED <<m_jobCounter, m_pauseJobs, m_processing, m_workers, m_running,
                 m_jobEvent, tvars>>

CancelJobs ==
  /\ stopper = "idle"
  /\ m_running' = FALSE
  /\ life' = AfterFree(QueuedJobs)
  /\ m_jobQueue' = [p \in Priorities |-> <<>>]
  /\ item' = [j \in Jobs |-> IF j \in m_processing
                             THEN [item[j] EXCEPT !.callback = FALSE] ELSE item[j]]
  /\ stopper' = IF m_workers = {} THEN "idle" ELSE "set"
  /\ cancelled' = cancelled \cup m_processing
  /\ UNCHANGED <<m_jobCounter, m_pauseJobs, m_processing, m_workers, m_jobEvent, tvars>>

(* Its loop, outside the section: m_jobEvent.Set() ...                     *)
StopSet ==
  /\ stopper = "set"
  /\ m_jobEvent' = TRUE
  /\ stopper' = "check"
  /\ UNCHANGED <<m_jobCounter, m_jobQueue, m_pauseJobs, m_processing, m_workers,
                 m_running, item, life, tvars, cancelled>>

(* ... and back inside: while (m_workers.size()).                          *)
StopCheck ==
  /\ stopper = "check"
  /\ stopper' = IF m_workers = {} THEN "idle" ELSE "set"
  /\ UNCHANGED <<mvars, life, tvars, cancelled>>

(* Restart throws if the manager runs; CancelJobs has returned before it.  *)
Restart ==
  /\ stopper = "idle"
  /\ ~m_running
  /\ m_running' = TRUE
  /\ UNCHANGED <<m_jobCounter, m_jobQueue, m_pauseJobs, m_processing, m_workers,
                 m_jobEvent, item, life, tvars, stopper, cancelled>>

-----------------------------------------------------------------------------
(* A worker                                                                *)

(* Mutation: one job too many may run.                                     *)
PoppableOffByOne ==
  {p \in Priorities :
     /\ m_jobQueue[p] # <<>>
     /\ Cardinality(m_processing) <= GetMaxWorkers(p)
     /\ ~(p = PRIORITY_LOW_PAUSABLE /\ m_pauseJobs)}

(* The priorities PopJob may take from.                                    *)
Poppable ==
  {p \in Priorities :
     /\ m_jobQueue[p] # <<>>
     /\ Cardinality(m_processing) < GetMaxWorkers(p)
     /\ ~(p = PRIORITY_LOW_PAUSABLE /\ m_pauseJobs)}

(* PopJob: the front of the highest of them.                               *)
PopJob(w) ==
  \E p \in Poppable :
    /\ \A q \in Poppable : q <= p
    /\ m_jobQueue' = [m_jobQueue EXCEPT ![p] = Tail(@)]
    /\ m_processing' = m_processing \cup {Head(m_jobQueue[p])}
    /\ job' = [job EXCEPT ![w] = Head(m_jobQueue[p])]

(* GetNextJob finds a job: in its loop, after the loop when the manager    *)
(* was stopped, or after the wait timed out.                               *)
TakeJob(w) ==
  /\ pc[w] \in {"getjob", "timedout"}
  /\ PopJob(w)
  /\ Goto(w, "work")
  /\ UNCHANGED <<m_jobCounter, m_pauseJobs, m_workers, m_running, m_jobEvent, item,
                 life, copy, stopper, cancelled>>

(* GetNextJob finds none while m_running and leaves the section to wait.   *)
FindNoJob(w) ==
  /\ pc[w] = "getjob"
  /\ m_running
  /\ Poppable = {}
  /\ Goto(w, "towait")
  /\ UNCHANGED <<mvars, life, job, copy, stopper, cancelled>>

Waiting == {w \in Workers : pc[w] = "waiting"}

(* m_jobEvent.WaitMSec(30000) starts: it returns at once if signalled, and *)
(* resets the event unless others still wait.                              *)
StartWait(w) ==
  /\ pc[w] = "towait"
  /\ IF m_jobEvent THEN Goto(w, "getjob") /\ m_jobEvent' = (Waiting # {})
                   ELSE Goto(w, "waiting") /\ UNCHANGED m_jobEvent
  /\ UNCHANGED <<m_jobCounter, m_jobQueue, m_pauseJobs, m_processing, m_workers,
                 m_running, item, life, job, copy, stopper, cancelled>>

Wake(w) ==
  /\ pc[w] = "waiting"
  /\ m_jobEvent
  /\ Goto(w, "getjob")
  /\ m_jobEvent' = (Waiting # {w})
  /\ UNCHANGED <<m_jobCounter, m_jobQueue, m_pauseJobs, m_processing, m_workers,
                 m_running, item, life, job, copy, stopper, cancelled>>

(* The 30 seconds are over and the event is still not signalled.           *)
TimeOut(w) ==
  /\ pc[w] = "waiting"
  /\ ~m_jobEvent
  /\ Goto(w, "timedout")
  /\ UNCHANGED <<mvars, life, job, copy, stopper, cancelled>>

(* Mutation: after the wait has timed out the queues are not looked at.    *)
RetireAtOnce(w) ==
  /\ \/ pc[w] = "timedout"
     \/ pc[w] = "getjob" /\ ~m_running /\ Poppable = {}
  /\ m_workers' = m_workers \ {w}
  /\ Goto(w, "ending")
  /\ UNCHANGED <<m_jobCounter, m_jobQueue, m_pauseJobs, m_processing, m_running,
                 m_jobEvent, item, life, job, copy, stopper, cancelled>>

(* GetNextJob gives up: RemoveWorker, return NULL.                         *)
Retire(w) ==
  /\ \/ pc[w] = "timedout"
     \/ pc[w] = "getjob" /\ ~m_running
  /\ Poppable = {}
  /\ m_workers' = m_workers \ {w}
  /\ Goto(w, "ending")
  /\ UNCHANGED <<m_jobCounter, m_jobQueue, m_pauseJobs, m_processing, m_running,
                 m_jobEvent, item, life, job, copy, stopper, cancelled>>

(* The thread ends and deletes its CJobWorker, which is removed again.     *)
EndWorker(w) ==
  /\ pc[w] = "ending"
  /\ m_workers' = m_workers \ {w}
  /\ Goto(w, "none")
  /\ UNCHANGED <<m_jobCounter, m_jobQueue, m_pauseJobs, m_processing, m_running,
                 m_jobEvent, item, life, job, copy, stopper, cancelled>>

(* DoWork calls ShouldCancel: OnJobProgress copies the work item and       *)
(* leaves the section to call the client (or says "cancelled") ...         *)
ReportProgress(w) ==
  /\ pc[w] = "work"
  /\ job[w] \in m_processing
  /\ copy' = [copy EXCEPT ![w] = item[job[w]].callback]
  /\ Goto(w, "progress")
  /\ UNCHANGED <<mvars, life, job, stopper, cancelled>>

(* ... and DoWork goes on.                                                 *)
ProgressReturn(w) ==
  /\ pc[w] = "progress"
  /\ Goto(w, "work")
  /\ copy' = [copy EXCEPT ![w] = FALSE]
  /\ UNCHANGED <<mvars, life, job, stopper, cancelled>>

(* DoWork returned or threw: OnJobComplete finds the job, copies its work  *)
(* item and leaves the section.                                            *)
CompleteWork(w) ==
  /\ pc[w] = "work"
  /\ job[w] \in m_processing
  /\ copy' = [copy EXCEPT ![w] = item[job[w]].callback]
  /\ Goto(w, "notify")
  /\ UNCHANGED <<mvars, life, job, stopper, cancelled>>

(* Outside the section: the client's OnJobComplete, if the copy has one.   *)
Notify(w) ==
  /\ pc[w] = "notify"
  /\ Goto(w, IF copy[w] THEN "callback" ELSE "erase")
  /\ UNCHANGED <<mvars, life, job, copy, stopper, cancelled>>

CallbackReturn(w) ==
  /\ pc[w] = "callback"
  /\ Goto(w, "erase")
  /\ UNCHANGED <<mvars, life, job, copy, stopper, cancelled>>

(* Mutation: the work item is erased and its job never deleted.            *)
EraseJobNoFree(w) ==
  /\ pc[w] = "erase"
  /\ m_processing' = m_processing \ {job[w]}
  /\ job' = [job EXCEPT ![w] = NoJob]
  /\ copy' = [copy EXCEPT ![w] = FALSE]
  /\ Goto(w, "getjob")
  /\ UNCHANGED <<m_jobCounter, m_jobQueue, m_pauseJobs, m_workers, m_running,
                 m_jobEvent, item, life, stopper, cancelled>>

(* Mutation: the job is deleted before its work item is erased.            *)
EraseJobLate(w) ==
  /\ pc[w] = "erase"
  /\ life' = AfterFree({job[w]})
  /\ Goto(w, "free")
  /\ UNCHANGED <<mvars, job, copy, stopper, cancelled>>

EraseJob(w) ==
  /\ pc[w] = "erase"
  /\ m_processing' = m_processing \ {job[w]}
  /\ Goto(w, "free")
  /\ UNCHANGED <<m_jobCounter, m_jobQueue, m_pauseJobs, m_workers, m_running,
                 m_jobEvent, item, life, job, copy, stopper, cancelled>>

FreeJob(w) ==
  /\ pc[w] = "free"
  /\ life' = AfterFree({job[w]})
  /\ job' = [job EXCEPT ![w] = NoJob]
  /\ copy' = [copy EXCEPT ![w] = FALSE]
  /\ Goto(w, "getjob")
  /\ UNCHANGED <<mvars, stopper, cancelled>>

-----------------------------------------------------------------------------
Client ==
  \/ \E c \in Calls : AddJob(c[1], c[2], c[3]) \/ AddJobRefused(c[1])
  \/ \E n \in 1..MaxId : CancelQueued(n) \/ CancelProcessing(n)
  \/ PauseJobs \/ UnPauseJobs \/ CancelJobs \/ Restart

StopLoop == StopSet \/ StopCheck

(* The steps a worker takes by itself, DoWork's own apart.                 *)
WorkerStep(w) ==
  \/ TakeJob(w) \/ FindNoJob(w) \/ StartWait(w) \/ Wake(w) \/ TimeOut(w)
  \/ Retire(w) \/ EndWorker(w) \/ ProgressReturn(w) \/ Notify(w)
  \/ CallbackReturn(w) \/ EraseJob(w) \/ FreeJob(w)

DoWork(w) == ReportProgress(w) \/ CompleteWork(w)

Next == Client \/ StopLoop \/ \E w \in Workers : WorkerStep(w) \/ DoWork(w)

Spec == Init /\ [][Next]_vars

(* Threads are scheduled, the 30 s wait ends, callbacks return, and DoWork *)
(* ends however often it reports progress; no client must ever call.       *)
Fairness ==
  /\ WF_vars(StopLoop)
  /\ \A w \in Workers : WF_vars(WorkerStep(w)) /\ SF_vars(CompleteWork(w))

FairSpec == Spec /\ Fairness

-----------------------------------------------------------------------------
(* Properties                                                              *)

(* Types, and the steps at which a worker holds a job.                     *)
TypeOK ==
  /\ m_jobCounter \in 0..MaxId
  /\ m_jobQueue \in [Priorities -> Seq(Jobs)]
  /\ m_pauseJobs \in BOOLEAN /\ m_running \in BOOLEAN /\ m_jobEvent \in BOOLEAN
  /\ m_processing \subseteq Jobs
  /\ m_workers \subseteq Workers
  /\ item \in [Jobs -> [id : 0..MaxId, priority : Priorities, callback : BOOLEAN]]
  /\ life \in [Jobs -> Lives]
  /\ pc \in [Workers -> Steps]
  /\ job \in [Workers -> Jobs \cup {NoJob}]
  /\ copy \in [Workers -> BOOLEAN]
  /\ stopper \in {"idle", "set", "check"}
  /\ cancelled \subseteq Jobs

(* No job is deleted twice, and whatever the manager can still reach (a    *)
(* queue, m_processing or a worker) has not been deleted, however CancelJob *)
(* and CancelJobs interleave with the workers.                             *)
NoUseAfterFree ==
  /\ \A j \in Jobs : life[j] # "corrupt"
  /\ QueuedJobs \cup m_processing \cup {job[w] : w \in Workers} \subseteq Live \cup {NoJob}

(* "Lower priority jobs are executed only if there are sufficient spare    *)
(* worker threads free": at no time do more than GetMaxWorkers(p) jobs of  *)
(* priority p or lower run, although each PopJob looks at one priority.    *)
WorkLimits ==
  \A p \in PRIORITY_LOW_PAUSABLE .. PRIORITY_HIGH :
    Cardinality({j \in m_processing : item[j].priority <= p}) <= GetMaxWorkers(p)

(* AddJob may rely on an existing worker instead of creating one, and a    *)
(* worker may give up after 30 s: still no job that is not pausable is     *)
(* left in a queue with no worker to take it.                              *)
QueuedJobHasWorker ==
  \A p \in Priorities \ {PRIORITY_LOW_PAUSABLE} :
    m_jobQueue[p] # <<>> => m_workers # {}

(* When CancelJobs has returned, nothing of the manager can touch a client *)
(* any more: no worker runs a job or is in a callback, and every job that  *)
(* was accepted is deleted.                                                *)
ShutdownComplete ==
  ~m_running /\ stopper = "idle" =>
    /\ \A w \in Workers : pc[w] \in {"none", "ending"}
    /\ Live = {}

(* Once a job is cancelled no worker sets off a new progress or completion *)
(* callback for it: only one copied before the cancellation may still come. *)
NoNewCallbackAfterCancel ==
  [][\A w \in Workers : ~copy[w] /\ copy'[w] => job[w] \notin cancelled]_vars

(* The life of every job as the manager's clients see it.                  *)
Status(j) ==
  IF life[j] # "live" THEN life[j]
  ELSE IF j \in QueuedJobs THEN "queued"
  ELSE IF j \in m_processing THEN "running" ELSE "finished"

Phase == IF m_running THEN "open" ELSE IF stopper = "idle" THEN "closed" ELSE "closing"

Service == INSTANCE JobService
  WITH status <- [j \in Jobs |-> Status(j)],
       class <- [j \in Jobs |-> item[j].priority],
       phase <- Phase,
       Limit <- GetMaxWorkers

(* The manager implements the service: whatever its threads do, each job   *)
(* it accepts is dropped unrun or run once, and deleted once.              *)
ImplementsService == Service!Spec

(* Every job the manager accepts at a priority that cannot be paused is    *)
(* run (or dropped) and deleted, whether or not a client ever calls again. *)
JobsFinish ==
  \A j \in Jobs : life[j] = "live" /\ item[j].priority # PRIORITY_LOW_PAUSABLE
                    ~> life[j] = "freed"

(* CancelJobs returns: its loop ends once every worker has seen m_running. *)
StopReturns == stopper # "idle" ~> stopper = "idle"

(* JobManager.h:300 "Resumes queueing of (previously paused) jobs": a      *)
(* pausable job that is not paused again is run or dropped.                *)
UnPausedJobsRun ==
  \A j \in Jobs : life[j] = "live" ~> life[j] = "freed" \/ m_pauseJobs

-----------------------------------------------------------------------------
(* The inductive invariant                                                 *)

Busy == {"work", "progress", "notify", "callback", "erase"}

(* A queue holds no job twice, and only jobs of its priority that are live *)
(* and in no worker's hands.                                               *)
QueueInv ==
  \A p \in Priorities :
    /\ IsInjective(m_jobQueue[p])
    /\ \A j \in ToSet(m_jobQueue[p]) :
         /\ item[j].priority = p
         /\ life[j] = "live"
         /\ j \notin m_processing

(* A worker holds a job from PopJob until it has freed it; no job is held  *)
(* twice; m_processing has exactly the jobs held and not yet erased.       *)
HoldInv ==
  /\ \A w \in Workers :
       /\ job[w] # NoJob <=> pc[w] \in Busy \cup {"free"}
       /\ job[w] # NoJob => life[job[w]] = "live" /\ job[w] \notin QueuedJobs
       /\ job[w] \in m_processing <=> pc[w] \in Busy
       /\ \A v \in Workers : v # w /\ job[v] = job[w] => job[w] = NoJob
  /\ \A j \in m_processing : \E w \in Workers : job[w] = j

(* A live job is queued or held: nothing is leaked.                        *)
LifeInv ==
  /\ \A j \in Jobs : life[j] # "corrupt"
  /\ \A j \in Live : j \in QueuedJobs \/ \E w \in Workers : job[w] = j

(* m_workers has the workers that GetNextJob has not let go, and a stopped *)
(* manager has none once CancelJobs has returned.                          *)
StopInv ==
  /\ m_workers = {w \in Workers : pc[w] \notin {"none", "ending"}}
  /\ stopper # "idle" => ~m_running
  /\ ~m_running => \A p \in Priorities : m_jobQueue[p] = <<>>
  /\ ~m_running /\ stopper = "idle" => m_workers = {}

(* A cancelled job has lost its callback, and is never added again.        *)
CancelInv ==
  \A j \in cancelled : life[j] # "new" /\ ~item[j].callback

IInv == TypeOK /\ QueueInv /\ HoldInv /\ LifeInv /\ StopInv /\ CancelInv
=============================================================================

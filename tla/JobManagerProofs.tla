-------------------------- MODULE JobManagerProofs --------------------------
(***************************************************************************)
(* Proofs of JobManager's safety properties, for every number of jobs and  *)
(* workers.                                                                *)
(***************************************************************************)
EXTENDS JobManager, QueueLemmas, FiniteSetTheorems

-----------------------------------------------------------------------------
(* Types                                                                   *)

LEMMA PrioritiesAre == Priorities = 0..4
BY DEF Priorities, PRIORITY_LOW_PAUSABLE, PRIORITY_DEDICATED

LEMMA NoQueues == [p \in Priorities |-> <<>>] \in [Priorities -> Seq(Jobs)]
<1>1. <<>> \in Seq(Jobs)
  OBVIOUS
<1> QED BY <1>1

LEMMA TypeInit == Init => TypeOK
<1> SUFFICES ASSUME Init PROVE TypeOK
  OBVIOUS
<1>1. m_jobQueue \in [Priorities -> Seq(Jobs)]
  BY NoQueues DEF Init
<1>2. item \in [Jobs -> [id : 0..MaxId, priority : Priorities, callback : BOOLEAN]]
  BY LimitsAssumption, PrioritiesAre DEF Init, PRIORITY_LOW
<1>3. 0 \in 0..MaxId
  BY LimitsAssumption
<1>4. /\ life \in [Jobs -> Lives] /\ pc \in [Workers -> Steps]
      /\ job \in [Workers -> Jobs \cup {NoJob}] /\ copy \in [Workers -> BOOLEAN]
  BY DEF Init, Lives, Steps
<1> QED BY <1>1, <1>2, <1>3, <1>4 DEF Init, TypeOK

LEMMA AfterFreeType ==
  ASSUME NEW js, TypeOK
  PROVE  AfterFree(js) \in [Jobs -> Lives]
BY DEF AfterFree, TypeOK, Lives

LEMMA AddJobType ==
  ASSUME TypeOK, NEW j \in Jobs, NEW p \in Priorities, NEW cb \in BOOLEAN, AddJob(j, p, cb)
  PROVE  TypeOK'
<1> USE DEF TypeOK, tvars, mvars
<1>1. NextId \in 0..MaxId
  BY LimitsAssumption DEF NextId
<1>2. Append(m_jobQueue[p], j) \in Seq(Jobs)
  OBVIOUS
<1>3. m_jobQueue' \in [Priorities -> Seq(Jobs)]
  BY <1>2 DEF AddJob
<1>4. item' \in [Jobs -> [id : 0..MaxId, priority : Priorities, callback : BOOLEAN]]
  BY <1>1 DEF AddJob
<1>5. life' \in [Jobs -> Lives]
  BY DEF AddJob, Lives
<1>6. m_jobEvent' \in BOOLEAN /\ m_workers' \subseteq Workers /\ pc' \in [Workers -> Steps]
  BY ZenonT(40) DEF AddJob, StartWorkers, Goto, Steps
<1> QED BY <1>1, <1>3, <1>4, <1>5, <1>6 DEF AddJob

LEMMA CancelQueuedType ==
  ASSUME TypeOK, NEW n, CancelQueued(n)
  PROVE  TypeOK'
<1> USE DEF TypeOK, tvars, mvars
<1>1. PICK p \in Priorities : \E i \in DOMAIN m_jobQueue[p] :
        /\ m_jobQueue' = [m_jobQueue EXCEPT ![p] = RemoveAt(@, i)]
        /\ life' = AfterFree({m_jobQueue[p][i]})
        /\ UNCHANGED <<m_jobCounter, m_pauseJobs, m_processing, m_workers, m_running,
                       m_jobEvent, item, tvars, stopper, cancelled>>
  BY DEF CancelQueued
<1>2. PICK i \in DOMAIN m_jobQueue[p] :
        /\ m_jobQueue' = [m_jobQueue EXCEPT ![p] = RemoveAt(@, i)]
        /\ life' = AfterFree({m_jobQueue[p][i]})
        /\ UNCHANGED <<m_jobCounter, m_pauseJobs, m_processing, m_workers, m_running,
                       m_jobEvent, item, tvars, stopper, cancelled>>
  BY <1>1
<1>3. RemoveAt(m_jobQueue[p], i) \in Seq(Jobs)
  BY SMTT(40) DEF RemoveAt
<1>4. life' \in [Jobs -> Lives]
  BY <1>2, AfterFreeType
<1> QED BY <1>2, <1>3, <1>4

LEMMA CancelProcessingType ==
  ASSUME TypeOK, NEW n, CancelProcessing(n)
  PROVE  TypeOK'
<1> USE DEF TypeOK, tvars, mvars
<1>1. PICK j \in m_processing : item' = [item EXCEPT ![j].callback = FALSE]
                             /\ cancelled' = cancelled \cup {j}
  BY DEF CancelProcessing
<1>2. item' \in [Jobs -> [id : 0..MaxId, priority : Priorities, callback : BOOLEAN]]
  BY <1>1
<1> QED BY <1>1, <1>2 DEF CancelProcessing

LEMMA TypeClient == TypeOK /\ (Client \/ StopLoop) => TypeOK'
<1> SUFFICES ASSUME TypeOK, Client \/ StopLoop PROVE TypeOK'
  OBVIOUS
<1> USE DEF TypeOK, tvars, mvars
<1>1. ASSUME NEW c \in Calls, AddJob(c[1], c[2], c[3]) PROVE TypeOK'
  <2>1. c[1] \in Jobs /\ c[2] \in Priorities /\ c[3] \in BOOLEAN
    BY LimitsAssumption
  <2> HIDE DEF TypeOK, tvars, mvars
  <2> QED BY <1>1, <2>1, AddJobType
<1>2. ASSUME NEW c \in Calls, AddJobRefused(c[1]) PROVE TypeOK'
  BY <1>2 DEF AddJobRefused, Lives
<1>3. ASSUME NEW n \in 1..MaxId, CancelQueued(n) \/ CancelProcessing(n) PROVE TypeOK'
  BY <1>3, CancelQueuedType, CancelProcessingType
<1>5. CASE PauseJobs \/ UnPauseJobs \/ Restart \/ StopSet \/ StopCheck
  BY <1>5 DEF PauseJobs, UnPauseJobs, Restart, StopSet, StopCheck
<1>6. CASE CancelJobs
  <2>1. life' \in [Jobs -> Lives]
    BY <1>6, AfterFreeType DEF CancelJobs
  <2>2. item' \in [Jobs -> [id : 0..MaxId, priority : Priorities, callback : BOOLEAN]]
    BY <1>6 DEF CancelJobs
  <2>3. m_jobQueue' \in [Priorities -> Seq(Jobs)]
    BY <1>6, NoQueues DEF CancelJobs
  <2>4. cancelled' \subseteq Jobs /\ m_running' \in BOOLEAN /\ stopper' \in {"idle", "set", "check"}
    BY <1>6 DEF CancelJobs
  <2> QED BY <1>6, <2>1, <2>2, <2>3, <2>4 DEF CancelJobs
<1> QED BY <1>1, <1>2, <1>3, <1>5, <1>6 DEF Client, StopLoop

LEMMA TypeWorker ==
  ASSUME TypeOK, NEW w \in Workers, WorkerStep(w) \/ DoWork(w)
  PROVE  TypeOK'
<1> USE DEF TypeOK, tvars, mvars, Goto, Steps
<1>1. CASE TakeJob(w)
  <2>1. PICK p \in Poppable :
          /\ m_jobQueue' = [m_jobQueue EXCEPT ![p] = Tail(@)]
          /\ m_processing' = m_processing \cup {Head(m_jobQueue[p])}
          /\ job' = [job EXCEPT ![w] = Head(m_jobQueue[p])]
    BY <1>1 DEF TakeJob, PopJob
  <2>2. p \in Priorities /\ m_jobQueue[p] \in Seq(Jobs) /\ m_jobQueue[p] # <<>>
    BY DEF Poppable
  <2>3. Head(m_jobQueue[p]) \in Jobs /\ Tail(m_jobQueue[p]) \in Seq(Jobs)
    BY <2>2
  <2> QED BY <1>1, <2>1, <2>2, <2>3 DEF TakeJob
<1>2. CASE FindNoJob(w) \/ TimeOut(w) \/ Retire(w) \/ EndWorker(w) \/ ProgressReturn(w)
           \/ Notify(w) \/ CallbackReturn(w) \/ EraseJob(w)
  BY <1>2 DEF FindNoJob, TimeOut, Retire, EndWorker, ProgressReturn, Notify,
     CallbackReturn, EraseJob
<1>3. CASE StartWait(w) \/ Wake(w)
  BY <1>3 DEF StartWait, Wake
<1>4. CASE FreeJob(w)
  BY <1>4, AfterFreeType DEF FreeJob
<1>5. CASE ReportProgress(w) \/ CompleteWork(w)
  BY <1>5 DEF ReportProgress, CompleteWork
<1> QED BY <1>1, <1>2, <1>3, <1>4, <1>5 DEF WorkerStep, DoWork

LEMMA TypeStep == TypeOK /\ [Next]_vars => TypeOK'
<1>1. TypeOK /\ UNCHANGED vars => TypeOK'
  BY DEF TypeOK, vars, mvars, tvars
<1> QED BY <1>1, TypeClient, TypeWorker DEF Next

(* The manager's state has its type in every behaviour.                    *)
THEOREM TypeCorrect == Spec => []TypeOK
BY TypeInit, TypeStep, PTL DEF Spec

-----------------------------------------------------------------------------
(* The inductive invariant                                                 *)

LEMMA IInvInit == Init => IInv
<1> SUFFICES ASSUME Init PROVE IInv
  OBVIOUS
<1>1. QueuedJobs = {} /\ \A p \in Priorities : m_jobQueue[p] = <<>> /\ ToSet(m_jobQueue[p]) = {}
  BY DEF Init, QueuedJobs, ToSet
<1>2. QueueInv
  BY <1>1 DEF Init, QueueInv, IsInjective
<1>3. HoldInv /\ LifeInv /\ StopInv /\ CancelInv
  BY DEF Init, HoldInv, LifeInv, StopInv, CancelInv, Live, Busy
<1> QED BY <1>2, <1>3, TypeInit DEF IInv

(* A step that moves one worker between steps of the same kind.            *)
LEMMA PcStep ==
  ASSUME IInv, TypeOK', NEW w \in Workers, NEW x,
         UNCHANGED <<m_jobQueue, m_processing, m_workers, m_running, item, life, job,
                     stopper, cancelled>>,
         pc' = [pc EXCEPT ![w] = x],
         pc[w] \in Busy <=> x \in Busy,
         {pc[w], x} \cap {"free", "none", "ending"} = {}
  PROVE  IInv'
<1>1. QueuedJobs' = QueuedJobs /\ Live' = Live
  BY DEF QueuedJobs, Live
<1>2. QueueInv'
  BY DEF IInv, QueueInv
<1>3. HoldInv'
  BY <1>1 DEF IInv, HoldInv, TypeOK
<1>4. LifeInv' /\ CancelInv'
  BY <1>1 DEF IInv, LifeInv, CancelInv
<1>5. StopInv'
  BY DEF IInv, StopInv, TypeOK
<1> QED BY <1>2, <1>3, <1>4, <1>5 DEF IInv

LEMMA WaitSteps ==
  ASSUME IInv, TypeOK', NEW w \in Workers,
         \/ FindNoJob(w) \/ StartWait(w) \/ Wake(w) \/ TimeOut(w)
         \/ ReportProgress(w) \/ ProgressReturn(w) \/ CompleteWork(w)
         \/ Notify(w) \/ CallbackReturn(w)
  PROVE  IInv'
<1> USE DEF Goto, mvars, Busy
<1>1. CASE FindNoJob(w)
  BY <1>1, PcStep DEF FindNoJob
<1>2. CASE StartWait(w)
  BY <1>2, PcStep DEF StartWait
<1>3. CASE Wake(w)
  BY <1>3, PcStep DEF Wake
<1>4. CASE TimeOut(w)
  BY <1>4, PcStep DEF TimeOut
<1>5. CASE ReportProgress(w)
  BY <1>5, PcStep DEF ReportProgress
<1>6. CASE ProgressReturn(w)
  BY <1>6, PcStep DEF ProgressReturn
<1>7. CASE CompleteWork(w)
  BY <1>7, PcStep DEF CompleteWork
<1>8. CASE Notify(w)
  BY <1>8, PcStep DEF Notify
<1>9. CASE CallbackReturn(w)
  BY <1>9, PcStep DEF CallbackReturn
<1> QED BY <1>1, <1>2, <1>3, <1>4, <1>5, <1>6, <1>7, <1>8, <1>9

(* PopJob moves the front job of one queue to one worker.                  *)
LEMMA TakeJobStep ==
  ASSUME IInv, TypeOK', NEW w \in Workers, TakeJob(w)
  PROVE  IInv'
<1>1. PICK p \in Priorities :
        /\ m_jobQueue[p] # <<>>
        /\ m_jobQueue' = [m_jobQueue EXCEPT ![p] = Tail(@)]
        /\ m_processing' = m_processing \cup {Head(m_jobQueue[p])}
        /\ job' = [job EXCEPT ![w] = Head(m_jobQueue[p])]
  BY DEF TakeJob, PopJob, Poppable
<1> DEFINE j == Head(m_jobQueue[p])
<1>2. /\ j \in ToSet(m_jobQueue[p])
      /\ ToSet(Tail(m_jobQueue[p])) = ToSet(m_jobQueue[p]) \ {j}
      /\ IsInjective(Tail(m_jobQueue[p]))
  BY <1>1, TailElements DEF IInv, QueueInv, TypeOK
<1> HIDE DEF j
<1>3. /\ pc' = [pc EXCEPT ![w] = "work"] /\ pc[w] \in {"getjob", "timedout"}
      /\ UNCHANGED <<m_workers, m_running, item, life, stopper, cancelled>>
      /\ job' = [job EXCEPT ![w] = j] /\ m_processing' = m_processing \cup {j}
  BY <1>1 DEF TakeJob, Goto, j
<1>4. /\ j \in Jobs /\ j # NoJob /\ j \in QueuedJobs
      /\ life[j] = "live" /\ j \notin m_processing /\ item[j].priority = p
      /\ \A v \in Workers : job[v] # j
  <2>1. j \in Jobs /\ j # NoJob
    BY <1>1, HeadTailProperties, JobsAssumption DEF IInv, TypeOK, j
  <2>2. j \in QueuedJobs
    BY <1>2 DEF QueuedJobs
  <2>3. life[j] = "live" /\ j \notin m_processing /\ item[j].priority = p
    BY <1>2 DEF IInv, QueueInv
  <2>4. \A v \in Workers : job[v] # j
    BY <2>1, <2>2 DEF IInv, HoldInv
  <2> QED BY <2>1, <2>2, <2>3, <2>4
<1>5. \A q \in Priorities : ToSet(m_jobQueue'[q]) = ToSet(m_jobQueue[q]) \ {j}
                            /\ IsInjective(m_jobQueue'[q])
  BY SMTT(40), <1>1, <1>2, <1>4 DEF IInv, QueueInv, TypeOK
<1>6. QueuedJobs' = QueuedJobs \ {j} /\ Live' = Live
  BY <1>3, <1>5 DEF QueuedJobs, Live
<1>7. QueueInv'
  BY <1>3, <1>5 DEF IInv, QueueInv
<1>8. /\ job'[w] = j /\ pc'[w] = "work" /\ job[w] = NoJob
      /\ \A v \in Workers \ {w} : job'[v] = job[v] /\ pc'[v] = pc[v]
  BY ZenonT(40), <1>3 DEF IInv, HoldInv, TypeOK, Busy
<1>9. HoldInv'
  <2>1. ASSUME NEW v \in Workers
        PROVE  /\ job'[v] # NoJob <=> pc'[v] \in Busy \cup {"free"}
               /\ job'[v] # NoJob => life'[job'[v]] = "live" /\ job'[v] \notin QueuedJobs'
               /\ job'[v] \in m_processing' <=> pc'[v] \in Busy
    BY <1>3, <1>4, <1>6, <1>8 DEF IInv, HoldInv, Busy
  <2>2. ASSUME NEW v \in Workers, NEW u \in Workers, u # v, job'[u] = job'[v]
        PROVE  job'[v] = NoJob
    BY <1>4, <1>8, <2>2 DEF IInv, HoldInv
  <2>3. ASSUME NEW k \in m_processing' PROVE \E v \in Workers : job'[v] = k
    <3>1. CASE k = j
      BY <1>8, <3>1
    <3>2. CASE k # j
      <4>1. PICK v \in Workers : job[v] = k
        BY <1>3, <3>2, <2>3 DEF IInv, HoldInv
      <4>2. k # NoJob
        BY <1>3, <3>2, <2>3, JobsAssumption DEF IInv, TypeOK
      <4> QED BY <1>8, <4>1, <4>2
    <3> QED BY <3>1, <3>2
  <2> QED BY <2>1, <2>2, <2>3 DEF HoldInv
<1>11. LifeInv'
  <2>1. ASSUME NEW k \in Live, k # j PROVE k \in QueuedJobs' \/ \E v \in Workers : job'[v] = k
    <3>1. CASE k \in QueuedJobs
      BY <1>6, <2>1, <3>1
    <3>2. ASSUME NEW v \in Workers, job[v] = k PROVE job'[v] = k
      BY <1>8, <3>2, JobsAssumption DEF Live
    <3> QED BY <2>1, <3>1, <3>2 DEF IInv, LifeInv
  <2> QED BY <1>3, <1>6, <1>8, <2>1 DEF IInv, LifeInv
<1>12. CancelInv'
  BY <1>3 DEF IInv, CancelInv
<1>10. StopInv'
  BY <1>1, <1>3 DEF IInv, StopInv, TypeOK
<1> QED BY <1>7, <1>9, <1>10, <1>11, <1>12 DEF IInv

LEMMA RetireSteps ==
  ASSUME IInv, TypeOK', NEW w \in Workers, Retire(w) \/ EndWorker(w)
  PROVE  IInv'
<1>1. QueuedJobs' = QueuedJobs /\ Live' = Live
  BY DEF QueuedJobs, Live, Retire, EndWorker
<1> USE DEF Goto, Retire, EndWorker
<1>2. QueueInv' /\ LifeInv' /\ CancelInv'
  BY <1>1 DEF IInv, QueueInv, LifeInv, CancelInv
<1>3. HoldInv'
  BY SMTT(40), <1>1 DEF IInv, HoldInv, TypeOK, Busy
<1>4. StopInv'
  BY DEF IInv, StopInv, TypeOK
<1> QED BY <1>2, <1>3, <1>4 DEF IInv

LEMMA EraseStep ==
  ASSUME IInv, TypeOK', NEW w \in Workers, EraseJob(w)
  PROVE  IInv'
<1>1. QueuedJobs' = QueuedJobs /\ Live' = Live
  BY DEF QueuedJobs, Live, EraseJob
<1> USE DEF Goto, EraseJob
<1>2. QueueInv' /\ LifeInv' /\ CancelInv'
  BY <1>1 DEF IInv, QueueInv, LifeInv, CancelInv
<1>3. HoldInv'
  BY <1>1 DEF IInv, HoldInv, TypeOK, Busy
<1>4. StopInv'
  BY DEF IInv, StopInv, TypeOK
<1> QED BY <1>2, <1>3, <1>4 DEF IInv

LEMMA FreeStep ==
  ASSUME IInv, TypeOK', NEW w \in Workers, FreeJob(w)
  PROVE  IInv'
<1> DEFINE j == job[w]
<1>1. /\ pc[w] = "free" /\ pc' = [pc EXCEPT ![w] = "getjob"]
      /\ job' = [job EXCEPT ![w] = NoJob] /\ life' = AfterFree({j})
      /\ UNCHANGED <<m_jobQueue, m_processing, m_workers, m_running, item, stopper, cancelled>>
  BY DEF FreeJob, Goto, mvars
<1>2. QueuedJobs' = QueuedJobs
  BY <1>1 DEF QueuedJobs
<1>3. j # NoJob /\ life[j] = "live" /\ j \notin m_processing /\ j \notin QueuedJobs
  BY <1>1 DEF IInv, HoldInv, Busy
<1>4. j \in Jobs
  BY <1>3 DEF IInv, TypeOK
<1>5. life' = [life EXCEPT ![j] = "freed"]
  BY <1>1, <1>3 DEF AfterFree, IInv, TypeOK
<1>6. /\ job'[w] = NoJob /\ pc'[w] = "getjob"
      /\ \A v \in Workers \ {w} : job'[v] = job[v] /\ pc'[v] = pc[v] /\ job[v] # j
  BY <1>1, <1>3 DEF IInv, HoldInv, TypeOK
<1>7. \A k \in Jobs \ {j} : life'[k] = life[k]
  BY <1>5 DEF IInv, TypeOK
<1> HIDE DEF j
<1>8. QueueInv'
  <2>1. \A p \in Priorities : \A k \in ToSet(m_jobQueue[p]) : k \in QueuedJobs /\ life'[k] = life[k]
    BY <1>3, <1>5 DEF QueuedJobs, IInv, TypeOK
  <2> QED BY <1>1, <2>1 DEF IInv, QueueInv
<1>9. HoldInv'
  <2>1. ASSUME NEW v \in Workers
        PROVE  /\ job'[v] # NoJob <=> pc'[v] \in Busy \cup {"free"}
               /\ job'[v] # NoJob => life'[job'[v]] = "live" /\ job'[v] \notin QueuedJobs'
               /\ job'[v] \in m_processing' <=> pc'[v] \in Busy
    <3>1. CASE v = w
      BY <1>1, <1>6, <3>1, JobsAssumption DEF IInv, TypeOK, Busy
    <3>2. CASE v # w
      <4>1. job'[v] = job[v] /\ pc'[v] = pc[v] /\ job[v] # j
        BY <1>6, <3>2
      <4>2. job[v] # NoJob => life'[job[v]] = life[job[v]]
        BY <1>7, <4>1 DEF IInv, TypeOK
      <4> QED BY <1>1, <1>2, <4>1, <4>2 DEF IInv, HoldInv
    <3> QED BY <3>1, <3>2
  <2>2. ASSUME NEW v \in Workers, NEW u \in Workers, u # v, job'[u] = job'[v]
        PROVE  job'[v] = NoJob
    BY <1>6, <2>2 DEF IInv, HoldInv
  <2>3. ASSUME NEW k \in m_processing PROVE \E v \in Workers : job'[v] = k
    BY <1>3, <1>6, <2>3 DEF IInv, HoldInv, j
  <2> QED BY <1>1, <2>1, <2>2, <2>3 DEF HoldInv
<1>10. LifeInv'
  <2>1. ASSUME NEW k \in Jobs, life'[k] = "live"
        PROVE  k \in QueuedJobs \/ \E v \in Workers : job'[v] = k
    <3>1. k # j /\ k \in Live
      BY <1>4, <1>5, <1>7, <2>1 DEF IInv, TypeOK, Live
    <3>2. ASSUME NEW v \in Workers, job[v] = k PROVE job'[v] = k
      BY <1>6, <3>1, <3>2 DEF j
    <3> QED BY <3>1, <3>2 DEF IInv, LifeInv
  <2>2. \A k \in Jobs : life'[k] # "corrupt"
    BY <1>4, <1>5 DEF IInv, LifeInv, TypeOK
  <2> QED BY <1>2, <2>1, <2>2 DEF LifeInv, Live
<1>11. CancelInv'
  BY <1>1, <1>5 DEF IInv, CancelInv, TypeOK
<1>12. StopInv'
  BY <1>1 DEF IInv, StopInv, TypeOK
<1> QED BY <1>8, <1>9, <1>10, <1>11, <1>12 DEF IInv

(* Client steps that touch no job.                                         *)
LEMMA FlagSteps ==
  ASSUME IInv, TypeOK', PauseJobs \/ UnPauseJobs \/ StopSet \/ StopCheck \/ Restart
  PROVE  IInv'
<1> USE DEF PauseJobs, UnPauseJobs, StopSet, StopCheck, Restart, tvars, mvars
<1>1. QueuedJobs' = QueuedJobs /\ Live' = Live
  BY DEF QueuedJobs, Live
<1>2. QueueInv' /\ LifeInv' /\ CancelInv'
  BY <1>1 DEF IInv, QueueInv, LifeInv, CancelInv
<1>3. HoldInv'
  BY <1>1 DEF IInv, HoldInv
<1>4. StopInv'
  BY DEF IInv, StopInv
<1> QED BY <1>2, <1>3, <1>4 DEF IInv

LEMMA RefuseStep ==
  ASSUME IInv, TypeOK', NEW j \in Jobs, AddJobRefused(j)
  PROVE  IInv'
<1>1. /\ life[j] = "new" /\ life' = [life EXCEPT ![j] = "refused"]
      /\ UNCHANGED <<mvars, tvars, stopper, cancelled>>
  BY DEF AddJobRefused
<1> USE DEF tvars, mvars
<1>2. QueuedJobs' = QueuedJobs /\ Live' = Live
  BY <1>1 DEF QueuedJobs, Live, IInv, TypeOK
<1>3. \A k \in Jobs : life[k] = "live" => life'[k] = "live"
  BY <1>1 DEF IInv, TypeOK
<1>4. QueueInv'
  <2>1. \A p \in Priorities : ToSet(m_jobQueue[p]) \subseteq Jobs
    BY DEF IInv, TypeOK, ToSet
  <2> QED BY <1>1, <1>3, <2>1 DEF IInv, QueueInv
<1>5. HoldInv'
  BY <1>1, <1>2, <1>3 DEF IInv, HoldInv, TypeOK
<1>6. LifeInv'
  BY <1>1, <1>2 DEF IInv, LifeInv, TypeOK
<1>7. CancelInv' /\ StopInv'
  BY <1>1 DEF IInv, CancelInv, StopInv, TypeOK
<1> QED BY <1>4, <1>5, <1>6, <1>7 DEF IInv

(* AddJob queues a new job; StartWorkers at most wakes or creates a worker. *)
LEMMA AddJobStep ==
  ASSUME IInv, TypeOK', NEW j \in Jobs, NEW p \in Priorities, NEW cb \in BOOLEAN,
         AddJob(j, p, cb)
  PROVE  IInv'
<1>1. /\ life[j] = "new" /\ m_running
      /\ item' = [item EXCEPT ![j] = [id |-> NextId, priority |-> p, callback |-> cb]]
      /\ m_jobQueue' = [m_jobQueue EXCEPT ![p] = Append(@, j)]
      /\ life' = [life EXCEPT ![j] = "live"]
      /\ UNCHANGED <<m_processing, m_running, job, copy, stopper, cancelled>>
  BY DEF AddJob
<1>2. /\ j \notin QueuedJobs /\ j \notin m_processing /\ j \notin cancelled
      /\ \A w \in Workers : job[w] # j
  <2>1. \A q \in Priorities : j \notin ToSet(m_jobQueue[q])
    BY <1>1 DEF IInv, QueueInv
  <2>2. \A w \in Workers : job[w] # j
    BY <1>1, JobsAssumption DEF IInv, HoldInv
  <2>3. j \notin m_processing
    BY <2>2 DEF IInv, HoldInv
  <2> QED BY <1>1, <2>1, <2>2, <2>3 DEF QueuedJobs, IInv, CancelInv
<1>3. \A q \in Priorities :
        /\ ToSet(m_jobQueue'[q]) = ToSet(m_jobQueue[q]) \cup (IF q = p THEN {j} ELSE {})
        /\ IsInjective(m_jobQueue'[q])
  <2>1. j \notin ToSet(m_jobQueue[p])
    BY <1>2 DEF QueuedJobs
  <2>2. /\ ToSet(Append(m_jobQueue[p], j)) = ToSet(m_jobQueue[p]) \cup {j}
        /\ IsInjective(Append(m_jobQueue[p], j))
    BY <2>1, AppendElements DEF IInv, QueueInv, TypeOK
  <2> QED BY <1>1, <2>2 DEF IInv, QueueInv, TypeOK
<1>4. QueuedJobs' = QueuedJobs \cup {j}
  BY <1>3 DEF QueuedJobs
<1>5. /\ life'[j] = "live" /\ item'[j].priority = p
      /\ \A k \in Jobs \ {j} : life'[k] = life[k] /\ item'[k] = item[k]
  BY <1>1 DEF IInv, TypeOK
<1>6. /\ m_workers' = {w \in Workers : pc'[w] \notin {"none", "ending"}}
      /\ \A w \in Workers : pc'[w] = pc[w] \/ (pc[w] = "none" /\ pc'[w] = "getjob")
  BY DEF AddJob, StartWorkers, Goto, IInv, StopInv, TypeOK
<1>7. QueueInv'
  <2>1. \A q \in Priorities : ToSet(m_jobQueue[q]) \subseteq Jobs \ {j}
    BY <1>2 DEF IInv, TypeOK, ToSet, QueuedJobs
  <2> QED BY <1>1, <1>2, <1>3, <1>5, <2>1 DEF IInv, QueueInv
<1>8. HoldInv'
  <2>1. ASSUME NEW w \in Workers
        PROVE  /\ job'[w] # NoJob <=> pc'[w] \in Busy \cup {"free"}
               /\ job'[w] # NoJob => life'[job'[w]] = "live" /\ job'[w] \notin QueuedJobs'
               /\ job'[w] \in m_processing' <=> pc'[w] \in Busy
    <3>1. job[w] # NoJob => life'[job[w]] = life[job[w]]
      BY <1>2, <1>5 DEF IInv, TypeOK
    <3> QED BY <1>1, <1>2, <1>4, <1>6, <3>1 DEF IInv, HoldInv, Busy
  <2> QED BY <1>1, <2>1 DEF IInv, HoldInv
<1>9. LifeInv'
  BY <1>1, <1>4, <1>5 DEF IInv, LifeInv, Live
<1>10. CancelInv'
  BY <1>1, <1>2, <1>5 DEF IInv, CancelInv, TypeOK
<1>11. StopInv'
  BY <1>1, <1>6 DEF IInv, StopInv
<1> QED BY <1>7, <1>8, <1>9, <1>10, <1>11 DEF IInv

LEMMA CancelQueuedStep ==
  ASSUME IInv, TypeOK', NEW n, CancelQueued(n)
  PROVE  IInv'
<1>1. PICK p \in Priorities : \E i \in DOMAIN m_jobQueue[p] :
        /\ m_jobQueue' = [m_jobQueue EXCEPT ![p] = RemoveAt(@, i)]
        /\ life' = AfterFree({m_jobQueue[p][i]})
  BY DEF CancelQueued
<1>2. PICK i \in DOMAIN m_jobQueue[p] :
        /\ m_jobQueue' = [m_jobQueue EXCEPT ![p] = RemoveAt(@, i)]
        /\ life' = AfterFree({m_jobQueue[p][i]})
  BY <1>1
<1>3. UNCHANGED <<m_processing, m_workers, m_running, item, pc, job, stopper, cancelled>>
  BY DEF CancelQueued, tvars
<1> DEFINE j == m_jobQueue[p][i]
<1>4. /\ j \in Jobs /\ j \in ToSet(m_jobQueue[p])
      /\ ToSet(RemoveAt(m_jobQueue[p], i)) = ToSet(m_jobQueue[p]) \ {j}
      /\ IsInjective(RemoveAt(m_jobQueue[p], i))
  <2>1. m_jobQueue[p] \in Seq(Jobs) /\ IsInjective(m_jobQueue[p])
    BY DEF IInv, TypeOK, QueueInv
  <2>2. j \in Jobs /\ j \in ToSet(m_jobQueue[p])
    BY <2>1 DEF ToSet
  <2>3. /\ ToSet(RemoveAt(m_jobQueue[p], i)) = ToSet(m_jobQueue[p]) \ {j}
        /\ IsInjective(RemoveAt(m_jobQueue[p], i))
    BY <2>1, RemoveAtElements
  <2> QED BY <2>2, <2>3
<1> HIDE DEF j
<1>5. /\ j \in QueuedJobs /\ life[j] = "live" /\ j \notin m_processing
      /\ item[j].priority = p
  BY <1>4 DEF IInv, QueueInv, QueuedJobs
<1>6. \A w \in Workers : job[w] # j
  BY <1>4, <1>5, JobsAssumption DEF IInv, HoldInv
<1>7. \A q \in Priorities : ToSet(m_jobQueue'[q]) = ToSet(m_jobQueue[q]) \ {j}
                            /\ IsInjective(m_jobQueue'[q])
  <2>1. \A q \in Priorities \ {p} : j \notin ToSet(m_jobQueue[q])
    BY <1>5 DEF IInv, QueueInv
  <2>2. /\ m_jobQueue'[p] = RemoveAt(m_jobQueue[p], i)
        /\ \A q \in Priorities \ {p} : m_jobQueue'[q] = m_jobQueue[q]
    BY <1>2 DEF IInv, TypeOK
  <2> QED BY <1>4, <2>1, <2>2 DEF IInv, QueueInv
<1>8. QueuedJobs' = QueuedJobs \ {j}
  BY <1>7 DEF QueuedJobs
<1>9. /\ life'[j] = "freed" /\ \A k \in Jobs \ {j} : life'[k] = life[k]
  BY <1>2, <1>4, <1>5 DEF AfterFree, j
<1>10. QueueInv'
  <2>1. \A q \in Priorities : ToSet(m_jobQueue[q]) \subseteq Jobs
    BY DEF IInv, TypeOK, ToSet
  <2> QED BY <1>3, <1>7, <1>9, <2>1 DEF IInv, QueueInv
<1>11. HoldInv'
  <2>1. \A w \in Workers : job[w] # NoJob => life'[job[w]] = life[job[w]]
    BY <1>6, <1>9 DEF IInv, TypeOK
  <2> QED BY <1>3, <1>8, <2>1 DEF IInv, HoldInv
<1>12. LifeInv'
  BY <1>3, <1>8, <1>9 DEF IInv, LifeInv, Live
<1>13. CancelInv'
  BY <1>3, <1>9 DEF IInv, CancelInv, TypeOK
<1>14. StopInv'
  <2>1. m_running \/ m_jobQueue[p] = <<>>
    BY DEF IInv, StopInv
  <2>2. m_running
    BY <1>4, <2>1 DEF ToSet
  <2> QED BY <1>3, <2>2 DEF IInv, StopInv
<1> QED BY <1>10, <1>11, <1>12, <1>13, <1>14 DEF IInv

LEMMA CancelProcessingStep ==
  ASSUME IInv, TypeOK', NEW n, CancelProcessing(n)
  PROVE  IInv'
<1>1. PICK j \in m_processing : item' = [item EXCEPT ![j].callback = FALSE]
                               /\ cancelled' = cancelled \cup {j}
  BY DEF CancelProcessing
<1>2. UNCHANGED <<m_jobQueue, m_processing, m_workers, m_running, life, pc, job, stopper>>
  BY DEF CancelProcessing, tvars
<1>3. QueuedJobs' = QueuedJobs /\ Live' = Live
  BY <1>2 DEF QueuedJobs, Live
<1>4. /\ ~item'[j].callback
      /\ \A k \in Jobs : item'[k].priority = item[k].priority
      /\ \A k \in Jobs : ~item[k].callback => ~item'[k].callback
  BY <1>1 DEF IInv, TypeOK
<1>5. QueueInv'
  <2>1. \A q \in Priorities : ToSet(m_jobQueue[q]) \subseteq Jobs
    BY DEF IInv, TypeOK, ToSet
  <2> QED BY <1>2, <1>4, <2>1 DEF IInv, QueueInv
<1>6. HoldInv'
  BY <1>2, <1>3 DEF IInv, HoldInv
<1>7. LifeInv' /\ StopInv'
  BY <1>2, <1>3 DEF IInv, LifeInv, StopInv
<1>8. life[j] = "live"
  <2>1. PICK w \in Workers : job[w] = j
    BY <1>1 DEF IInv, HoldInv
  <2> QED BY <2>1, JobsAssumption DEF IInv, HoldInv, TypeOK
<1>9. CancelInv'
  BY <1>1, <1>2, <1>4, <1>8 DEF IInv, CancelInv, TypeOK
<1> QED BY <1>5, <1>6, <1>7, <1>9 DEF IInv

LEMMA CancelJobsStep ==
  ASSUME IInv, TypeOK', CancelJobs
  PROVE  IInv'
<1>1. /\ m_running' = FALSE /\ life' = AfterFree(QueuedJobs)
      /\ m_jobQueue' = [p \in Priorities |-> <<>>]
      /\ item' = [j \in Jobs |-> IF j \in m_processing
                                THEN [item[j] EXCEPT !.callback = FALSE] ELSE item[j]]
      /\ stopper' = IF m_workers = {} THEN "idle" ELSE "set"
      /\ cancelled' = cancelled \cup m_processing
      /\ UNCHANGED <<m_processing, m_workers, pc, job>>
  BY DEF CancelJobs, tvars
<1>2. QueuedJobs' = {} /\ \A p \in Priorities : ToSet(m_jobQueue'[p]) = {}
  BY <1>1 DEF QueuedJobs, ToSet
<1>3. \A j \in QueuedJobs : life[j] = "live"
  BY DEF QueuedJobs, IInv, QueueInv
<1>4. \A j \in Jobs : life'[j] = IF j \in QueuedJobs THEN "freed" ELSE life[j]
  BY <1>1, <1>3 DEF AfterFree
<1>5. \A w \in Workers : job[w] # NoJob => life'[job[w]] = "live"
  BY <1>4 DEF IInv, HoldInv, TypeOK
<1>6. QueueInv'
  BY <1>1, <1>2 DEF QueueInv, IsInjective
<1>7. HoldInv'
  BY <1>1, <1>2, <1>5 DEF IInv, HoldInv
<1>8. LifeInv'
  BY <1>1, <1>2, <1>4 DEF IInv, LifeInv, Live
<1>9. StopInv'
  BY <1>1 DEF IInv, StopInv
<1>10. \A j \in m_processing : life[j] = "live" /\ j \notin QueuedJobs
  <2> TAKE j \in m_processing
  <2>1. PICK w \in Workers : job[w] = j
    BY DEF IInv, HoldInv
  <2> QED BY <2>1, JobsAssumption DEF IInv, HoldInv, TypeOK
<1>11. CancelInv'
  <2>1. \A j \in cancelled' : life'[j] # "new"
    BY <1>1, <1>4, <1>10 DEF IInv, CancelInv, TypeOK
  <2>2. \A j \in cancelled' : ~item'[j].callback
    BY <1>1 DEF IInv, CancelInv, TypeOK
  <2> QED BY <2>1, <2>2 DEF CancelInv
<1> QED BY <1>6, <1>7, <1>8, <1>9, <1>11 DEF IInv

LEMMA IInvStep == IInv /\ [Next]_vars => IInv'
<1> SUFFICES ASSUME IInv, [Next]_vars PROVE IInv'
  OBVIOUS
<1>1. TypeOK'
  BY TypeStep DEF IInv
<1>2. ASSUME NEW w \in Workers, WorkerStep(w) \/ DoWork(w) PROVE IInv'
  BY <1>1, <1>2, WaitSteps, TakeJobStep, RetireSteps, EraseStep, FreeStep
     DEF WorkerStep, DoWork
<1>3. ASSUME NEW c \in Calls, AddJob(c[1], c[2], c[3]) \/ AddJobRefused(c[1]) PROVE IInv'
  <2>1. c[1] \in Jobs /\ c[2] \in Priorities /\ c[3] \in BOOLEAN
    BY LimitsAssumption
  <2> QED BY <1>1, <1>3, <2>1, AddJobStep, RefuseStep
<1>4. ASSUME NEW n, CancelQueued(n) \/ CancelProcessing(n) PROVE IInv'
  BY <1>1, <1>4, CancelQueuedStep, CancelProcessingStep
<1>5. CASE PauseJobs \/ UnPauseJobs \/ CancelJobs \/ Restart \/ StopLoop
  BY <1>1, <1>5, FlagSteps, CancelJobsStep DEF StopLoop
<1>6. CASE UNCHANGED vars
  <2>1. QueuedJobs' = QueuedJobs /\ Live' = Live
    BY <1>6 DEF QueuedJobs, Live, vars, mvars
  <2> QED BY <1>1, <1>6, <2>1 DEF IInv, QueueInv, HoldInv, LifeInv, StopInv, CancelInv,
       vars, mvars, tvars
<1> QED BY <1>2, <1>3, <1>4, <1>5, <1>6 DEF Next, Client

(* The inductive invariant holds in every behaviour.                       *)
THEOREM IInvCorrect == Spec => []IInv
BY IInvInit, IInvStep, PTL DEF Spec

(* No job is deleted twice or reachable after it is deleted.               *)
THEOREM MemorySafety == Spec => []NoUseAfterFree
<1>1. IInv => NoUseAfterFree
  <2> SUFFICES ASSUME IInv PROVE NoUseAfterFree
    OBVIOUS
  <2>1. QueuedJobs \subseteq Live
    BY DEF IInv, QueueInv, QueuedJobs, Live, ToSet, TypeOK
  <2>2. {job[w] : w \in Workers} \subseteq Live \cup {NoJob}
    BY DEF IInv, HoldInv, Live, TypeOK
  <2>3. m_processing \subseteq Live
    BY <2>2, JobsAssumption DEF IInv, HoldInv, TypeOK
  <2> QED BY <2>1, <2>2, <2>3 DEF NoUseAfterFree, IInv, LifeInv
<1> QED BY <1>1, IInvCorrect, PTL

(* When CancelJobs has returned no worker is left in a job or a callback,  *)
(* and no accepted job is left.                                            *)
THEOREM ShutdownIsComplete == Spec => []ShutdownComplete
<1>1. IInv => ShutdownComplete
  <2> SUFFICES ASSUME IInv, ~m_running, stopper = "idle"
               PROVE  (\A w \in Workers : pc[w] \in {"none", "ending"}) /\ Live = {}
    BY DEF ShutdownComplete
  <2>1. \A w \in Workers : pc[w] \in {"none", "ending"}
    BY DEF IInv, StopInv
  <2>2. \A w \in Workers : job[w] = NoJob
    BY <2>1 DEF IInv, HoldInv, Busy
  <2>3. QueuedJobs = {}
    BY DEF IInv, StopInv, QueuedJobs, ToSet
  <2>4. Live = {}
    BY <2>2, <2>3, JobsAssumption DEF IInv, LifeInv, Live
  <2> QED BY <2>1, <2>4
<1> QED BY <1>1, IInvCorrect, PTL

(* A cancelled job's callback is not copied again by any worker.           *)
THEOREM CancelIsFinal == Spec => NoNewCallbackAfterCancel
<1>1. IInv /\ [Next]_vars
        => [\A w \in Workers : ~copy[w] /\ copy'[w] => job[w] \notin cancelled]_vars
  <2> SUFFICES ASSUME IInv, Next, NEW w \in Workers, ~copy[w], copy'[w]
               PROVE  job[w] \notin cancelled
    OBVIOUS
  <2>1. copy'[w] # copy[w]
    OBVIOUS
  <2>2. ReportProgress(w) \/ CompleteWork(w)
    <3>1. ASSUME Client \/ StopLoop PROVE copy' = copy
      BY <3>1 DEF Client, StopLoop, AddJob, AddJobRefused, CancelQueued, CancelProcessing,
         PauseJobs, UnPauseJobs, CancelJobs, Restart, StopSet, StopCheck, tvars
    <3>2. ASSUME NEW v \in Workers, WorkerStep(v) PROVE copy'[w] => copy[w]
      BY <3>2 DEF WorkerStep, TakeJob, FindNoJob, StartWait, Wake, TimeOut, Retire,
         EndWorker, ProgressReturn, Notify, CallbackReturn, EraseJob, FreeJob, IInv, TypeOK
    <3>3. ASSUME NEW v \in Workers \ {w}, DoWork(v) PROVE copy'[w] = copy[w]
      BY <3>3 DEF DoWork, ReportProgress, CompleteWork, IInv, TypeOK
    <3> QED BY <2>1, <3>1, <3>2, <3>3 DEF Next, DoWork
  <2>3. item[job[w]].callback
    BY <2>2 DEF ReportProgress, CompleteWork, IInv, TypeOK
  <2> QED BY <2>3 DEF IInv, CancelInv
<1> QED BY <1>1, IInvCorrect, PTL DEF Spec, NoNewCallbackAfterCancel

-----------------------------------------------------------------------------
(* Limits                                                                  *)

LEMMA ProcessingFinite ==
  ASSUME IInv
  PROVE  IsFiniteSet(m_processing) /\ Cardinality(m_processing) \in Nat
BY JobsAssumption, FS_Subset, FS_CardinalityType DEF IInv, TypeOK

(* The limits of the priorities below DEDICATED grow with the priority.    *)
LEMMA LimitsGrow ==
  ASSUME NEW p \in 0..3, NEW q \in 0..3, q <= p
  PROVE  /\ GetMaxWorkers(p) \in Nat \ {0}
         /\ GetMaxWorkers(q) <= GetMaxWorkers(p)
BY LimitsAssumption DEF GetMaxWorkers, PRIORITY_DEDICATED, PRIORITY_HIGH

(* A step other than PopJob's adds nothing to m_processing and changes the *)
(* priority of nothing in it.                                              *)
LEMMA ProcessingStep ==
  ASSUME IInv, [Next]_vars, \A w \in Workers : ~TakeJob(w)
  PROVE  /\ m_processing' \subseteq m_processing
         /\ \A j \in m_processing : item'[j].priority = item[j].priority
<1> USE DEF tvars, mvars, vars
<1>1. ASSUME NEW w \in Workers, WorkerStep(w) \/ DoWork(w)
      PROVE  m_processing' \subseteq m_processing /\ item' = item
  BY <1>1 DEF WorkerStep, DoWork, FindNoJob, StartWait, Wake, TimeOut, Retire, EndWorker,
     ProgressReturn, Notify, CallbackReturn, EraseJob, FreeJob, ReportProgress, CompleteWork
<1>2. ASSUME NEW c \in Calls, AddJob(c[1], c[2], c[3]) \/ AddJobRefused(c[1])
      PROVE  /\ m_processing' = m_processing
             /\ \A j \in m_processing : item'[j] = item[j]
  <2>1. CASE AddJobRefused(c[1])
    BY <2>1 DEF AddJobRefused
  <2>2. CASE AddJob(c[1], c[2], c[3])
    <3>1. \A j \in m_processing : life[j] = "live" /\ j \in Jobs
      <4> TAKE j \in m_processing
      <4>1. PICK w \in Workers : job[w] = j
        BY DEF IInv, HoldInv
      <4> QED BY <4>1, JobsAssumption DEF IInv, HoldInv, TypeOK
    <3>2. life[c[1]] = "new" /\ m_processing' = m_processing
      BY <2>2 DEF AddJob
    <3>3. \A j \in Jobs \ {c[1]} : item'[j] = item[j]
      BY <2>2 DEF AddJob, IInv, TypeOK
    <3> QED BY <3>1, <3>2, <3>3
  <2> QED BY <1>2, <2>1, <2>2
<1>3. ASSUME NEW n, CancelProcessing(n)
      PROVE  /\ m_processing' = m_processing
             /\ \A j \in m_processing : item'[j].priority = item[j].priority
  BY <1>3 DEF CancelProcessing, IInv, TypeOK
<1>4. CASE CancelJobs
  BY <1>4 DEF CancelJobs, IInv, TypeOK
<1>5. ASSUME NEW n, CancelQueued(n) PROVE m_processing' = m_processing /\ item' = item
  BY <1>5 DEF CancelQueued
<1>6. CASE PauseJobs \/ UnPauseJobs \/ Restart \/ StopLoop \/ UNCHANGED vars
  BY <1>6 DEF PauseJobs, UnPauseJobs, Restart, StopLoop, StopSet, StopCheck
<1> QED BY <1>1, <1>2, <1>3, <1>4, <1>5, <1>6 DEF Next, Client

(* At no time do more than GetMaxWorkers(p) jobs of priority p or lower run. *)
THEOREM LimitsHold == Spec => []WorkLimits
<1> DEFINE Low(p) == {j \in m_processing : item[j].priority <= p}
<1>1. Init => WorkLimits
  <2> SUFFICES ASSUME Init, NEW p \in 0..3 PROVE Cardinality(Low(p)) <= GetMaxWorkers(p)
    BY DEF WorkLimits, PRIORITY_LOW_PAUSABLE, PRIORITY_HIGH
  <2>1. Low(p) = {}
    BY DEF Init
  <2> HIDE DEF Low
  <2> QED BY <2>1, FS_EmptySet, LimitsGrow
<1>2. IInv /\ WorkLimits /\ [Next]_vars => WorkLimits'
  <2> SUFFICES ASSUME IInv, WorkLimits, [Next]_vars, NEW p \in 0..3
               PROVE  Cardinality(Low(p)') <= GetMaxWorkers(p)
    BY DEF WorkLimits, PRIORITY_LOW_PAUSABLE, PRIORITY_HIGH
  <2>1. /\ IsFiniteSet(Low(p)) /\ Cardinality(Low(p)) \in Nat
        /\ Cardinality(Low(p)) <= GetMaxWorkers(p)
    BY ProcessingFinite, FS_Subset, FS_CardinalityType
       DEF WorkLimits, PRIORITY_LOW_PAUSABLE, PRIORITY_HIGH
  <2>2. GetMaxWorkers(p) \in Nat
    BY LimitsGrow
  <2>3. CASE \A w \in Workers : ~TakeJob(w)
    <3>1. Low(p)' \subseteq Low(p)
      BY <2>3, ProcessingStep
    <3> HIDE DEF Low
    <3>2. IsFiniteSet(Low(p)') /\ Cardinality(Low(p)') <= Cardinality(Low(p))
      BY <2>1, <3>1, FS_Subset
    <3>3. Cardinality(Low(p)') \in Nat
      BY <3>2, FS_CardinalityType
    <3> QED BY <2>1, <2>2, <3>2, <3>3
  <2>4. ASSUME NEW w \in Workers, TakeJob(w) PROVE Cardinality(Low(p)') <= GetMaxWorkers(p)
    <3>1. PICK q \in Poppable : m_processing' = m_processing \cup {Head(m_jobQueue[q])}
      BY <2>4 DEF TakeJob, PopJob
    <3> DEFINE j == Head(m_jobQueue[q])
    <3>2. /\ q \in Priorities /\ Cardinality(m_processing) < GetMaxWorkers(q)
          /\ m_jobQueue[q] # <<>> /\ m_jobQueue[q] \in Seq(Jobs)
      BY DEF Poppable, IInv, TypeOK
    <3>3. item' = item /\ item[j].priority = q
      <4>1. j \in ToSet(m_jobQueue[q])
        BY <3>2, TailElements DEF IInv, QueueInv
      <4> QED BY <2>4, <3>2, <4>1 DEF TakeJob, IInv, QueueInv
    <3> HIDE DEF j
    <3>4. CASE q > p
      <4>1. Low(p)' = Low(p)
        BY <3>1, <3>2, <3>3, <3>4, PrioritiesAre DEF j
      <4> HIDE DEF Low
      <4> QED BY <2>1, <4>1
    <3>5. CASE q <= p
      <4>1. q \in 0..3 /\ GetMaxWorkers(q) <= GetMaxWorkers(p) /\ GetMaxWorkers(q) \in Nat
        BY <3>2, <3>5, LimitsGrow, PrioritiesAre
      <4>2. Low(p)' \subseteq m_processing \cup {j}
        BY <3>1 DEF j
      <4>3. /\ IsFiniteSet(m_processing \cup {j})
            /\ Cardinality(m_processing \cup {j}) <= Cardinality(m_processing) + 1
            /\ Cardinality(m_processing \cup {j}) \in Nat
        <5>1. IsFiniteSet(m_processing) /\ Cardinality(m_processing) \in Nat
          BY ProcessingFinite
        <5>2. /\ IsFiniteSet(m_processing \cup {j})
              /\ Cardinality(m_processing \cup {j}) =
                   IF j \in m_processing THEN Cardinality(m_processing)
                   ELSE Cardinality(m_processing) + 1
          BY <5>1, FS_AddElement
        <5> QED BY <5>1, <5>2
      <4> HIDE DEF Low
      <4>4. /\ Cardinality(Low(p)') <= Cardinality(m_processing \cup {j})
            /\ Cardinality(Low(p)') \in Nat
        BY <4>2, <4>3, FS_Subset, FS_CardinalityType
      <4>5. Cardinality(m_processing) \in Nat
        BY ProcessingFinite
      <4> QED BY <2>2, <3>2, <4>1, <4>3, <4>4, <4>5
    <3> QED BY <3>2, <3>4, <3>5, PrioritiesAre
  <2> QED BY <2>3, <2>4
<1> QED BY <1>1, <1>2, IInvCorrect, PTL DEF Spec

LEMMA BusyWorker ==
  ASSUME IInv, Cardinality(m_processing) >= 1
  PROVE  \E w \in m_workers : pc[w] \in Busy
<1>1. m_processing # {}
  BY FS_EmptySet
<1>2. PICK w \in Workers : job[w] \in m_processing
  BY <1>1 DEF IInv, HoldInv
<1> QED BY <1>2 DEF IInv, HoldInv, StopInv, Busy

LEMMA SomeWorkerAllowed ==
  ASSUME NEW p \in Priorities
  PROVE  GetMaxWorkers(p) \in Nat \ {0}
BY LimitsAssumption, PrioritiesAre DEF GetMaxWorkers, PRIORITY_DEDICATED, PRIORITY_HIGH

(* No job that cannot be paused is left in a queue without a worker.       *)
THEOREM NoJobIsStranded == Spec => []QueuedJobHasWorker
<1>1. Init => QueuedJobHasWorker
  BY DEF Init, QueuedJobHasWorker
<1>2. IInv /\ QueuedJobHasWorker /\ [Next]_vars => QueuedJobHasWorker'
  <2> SUFFICES ASSUME IInv, QueuedJobHasWorker, [Next]_vars, NEW p \in Priorities,
                      p # PRIORITY_LOW_PAUSABLE, m_jobQueue'[p] # <<>>
               PROVE  m_workers' # {}
    BY DEF QueuedJobHasWorker
  <2> USE DEF tvars, mvars, vars
  <2>1. ASSUME NEW c \in Calls, AddJob(c[1], c[2], c[3]) PROVE m_workers' # {}
    <3>1. c[2] \in Priorities /\ StartWorkers(c[2])
      BY <2>1, LimitsAssumption DEF AddJob
    <3>2. GetMaxWorkers(c[2]) \in Nat \ {0} /\ Cardinality(m_processing) \in Nat
      BY <3>1, SomeWorkerAllowed, ProcessingFinite
    <3>3. CASE Cardinality(m_processing) >= GetMaxWorkers(c[2])
      <4>1. m_workers' = m_workers
        BY <3>1, <3>3 DEF StartWorkers
      <4> QED BY <3>2, <3>3, <4>1, BusyWorker
    <3>4. CASE /\ Cardinality(m_processing) < GetMaxWorkers(c[2])
               /\ Cardinality(m_processing) < Cardinality(m_workers)
      <4>1. m_workers' = m_workers
        BY <3>1, <3>2, <3>4 DEF StartWorkers
      <4>2. Cardinality({}) = 0
        BY FS_EmptySet
      <4> QED BY <3>2, <3>4, <4>1, <4>2
    <3>5. CASE /\ Cardinality(m_processing) < GetMaxWorkers(c[2])
               /\ ~(Cardinality(m_processing) < Cardinality(m_workers))
      <4>1. ~(Cardinality(m_processing) >= GetMaxWorkers(c[2]))
        BY <3>2, <3>5
      <4>2. PICK w \in Workers : m_workers' = m_workers \cup {w}
        BY <3>1, <3>5, <4>1, Zenon DEF StartWorkers
      <4> QED BY <4>2
    <3> QED BY <3>2, <3>3, <3>4, <3>5
  <2>2. ASSUME NEW w \in Workers, Retire(w) PROVE m_workers' # {}
    <3>1. Cardinality(m_processing) >= 1
      <4>1. m_jobQueue[p] # <<>> /\ p \notin Poppable
        BY <2>2 DEF Retire
      <4>2. ~(Cardinality(m_processing) < GetMaxWorkers(p))
        BY <4>1 DEF Poppable
      <4> QED BY <4>2, SomeWorkerAllowed, ProcessingFinite
    <3>2. PICK v \in m_workers : pc[v] \in Busy
      BY <3>1, BusyWorker
    <3> QED BY <2>2, <3>2 DEF Retire, Busy
  <2>3. ASSUME NEW w \in Workers, TakeJob(w) PROVE m_workers' # {}
    BY <2>3 DEF TakeJob, IInv, StopInv
  <2>4. ASSUME NEW w \in Workers, EndWorker(w) PROVE m_workers' # {}
    BY <2>4 DEF EndWorker, IInv, StopInv, QueuedJobHasWorker
  <2>5. ASSUME NEW n, CancelQueued(n) PROVE m_workers' # {}
    <3>1. PICK q \in Priorities : m_jobQueue[q] # <<>>
                                /\ \A r \in Priorities \ {q} : m_jobQueue'[r] = m_jobQueue[r]
      BY <2>5 DEF CancelQueued, IInv, TypeOK
    <3> QED BY <2>5, <3>1 DEF CancelQueued, QueuedJobHasWorker
  <2>6. CASE CancelJobs
    BY <2>6 DEF CancelJobs
  <2>7. CASE \/ PauseJobs \/ UnPauseJobs \/ Restart \/ StopLoop \/ UNCHANGED vars
             \/ \E n \in 1..MaxId : CancelProcessing(n)
             \/ \E c \in Calls : AddJobRefused(c[1])
             \/ \E w \in Workers : \/ FindNoJob(w) \/ StartWait(w) \/ Wake(w) \/ TimeOut(w)
                                   \/ ProgressReturn(w) \/ Notify(w) \/ CallbackReturn(w)
                                   \/ EraseJob(w) \/ FreeJob(w) \/ DoWork(w)
    <3>1. m_jobQueue' = m_jobQueue /\ m_workers' = m_workers
      BY <2>7 DEF PauseJobs, UnPauseJobs, Restart, StopLoop, StopSet, StopCheck,
         CancelProcessing, AddJobRefused, FindNoJob, StartWait, Wake, TimeOut,
         ProgressReturn, Notify, CallbackReturn, EraseJob, FreeJob, DoWork,
         ReportProgress, CompleteWork
    <3> QED BY <3>1 DEF QueuedJobHasWorker
  <2> QED BY <2>1, <2>2, <2>3, <2>4, <2>5, <2>6, <2>7 DEF Next, Client, WorkerStep
<1> QED BY <1>1, <1>2, IInvCorrect, PTL DEF Spec

-----------------------------------------------------------------------------
(* JobManager implements JobService: each of its steps is a step of the    *)
(* service or changes nothing a client can see.                            *)

(* What Status says of a job, given the inductive invariant.               *)
LEMMA StatusIs ==
  ASSUME IInv, NEW j \in Jobs
  PROVE  /\ Status(j) = "queued" <=> j \in QueuedJobs
         /\ Status(j) = "running" <=> j \in m_processing
         /\ Status(j) = "finished" <=> \E w \in Workers : job[w] = j /\ pc[w] = "free"
         /\ life[j] # "live" => Status(j) = life[j]
         /\ Status(j) \in {"new", "refused", "freed"} => Status(j) = life[j]
<1>1. j \in QueuedJobs => life[j] = "live" /\ j \notin m_processing
  BY DEF IInv, QueueInv, QueuedJobs
<1>2. j \in m_processing => life[j] = "live"
  BY JobsAssumption DEF IInv, HoldInv
<1>3. ASSUME NEW w \in Workers, job[w] = j, pc[w] = "free"
      PROVE  life[j] = "live" /\ j \notin QueuedJobs /\ j \notin m_processing
  BY <1>3, JobsAssumption DEF IInv, HoldInv, Busy
<1>4. ASSUME j \in Live, j \notin QueuedJobs, j \notin m_processing
      PROVE  \E w \in Workers : job[w] = j /\ pc[w] = "free"
  BY <1>4, JobsAssumption DEF IInv, HoldInv, LifeInv
<1>5. life[j] \in Lives
  BY DEF IInv, TypeOK
<1> QED BY <1>1, <1>2, <1>3, <1>4, <1>5 DEF Status, Live, Lives

(* The abstract state, under names of its own for the provers.             *)
status == [j \in Jobs |-> Status(j)]
class == [j \in Jobs |-> item[j].priority]

LEMMA RunningIs ==
  ASSUME IInv
  PROVE  /\ {j \in Jobs : status[j] = "running"} = m_processing
         /\ {j \in Jobs : status[j] = "queued"} = QueuedJobs
<1>1. m_processing \subseteq Jobs /\ QueuedJobs \subseteq Jobs
  BY DEF IInv, TypeOK, QueuedJobs, ToSet
<1> QED BY <1>1, StatusIs DEF status

(* One job moves, the others and the phase stay.                           *)
LEMMA StatusMoves ==
  ASSUME NEW j \in Jobs, NEW to, Status(j)' = to,
         \A k \in Jobs \ {j} : /\ life'[k] = life[k]
                               /\ k \in QueuedJobs' <=> k \in QueuedJobs
                               /\ k \in m_processing' <=> k \in m_processing
  PROVE  status' = [status EXCEPT ![j] = to]
<1>1. \A k \in Jobs \ {j} : Status(k)' = Status(k)
  BY DEF Status
<1>2. /\ status' = [k \in Jobs |-> Status(k)']
      /\ status = [k \in Jobs |-> Status(k)]
  BY DEF status
<1> HIDE DEF status
<1> QED BY <1>1, <1>2

(* JobService counts with its own copy of the standard operator.            *)
LEMMA SameCardinality == \A S : Service!Cardinality(S) = Cardinality(S)
BY DEF Service!Cardinality, Cardinality

LEMMA ServiceInit == Init => Service!Init
<1> SUFFICES ASSUME Init PROVE Service!Init
  OBVIOUS
<1>1. \A j \in Jobs : Status(j) = "new"
  BY DEF Init, Status
<1>2. \A j \in Jobs : item[j].priority \in Priorities
  BY TypeInit DEF TypeOK
<1>3. Phase = "open"
  BY DEF Init, Phase
<1> QED BY <1>1, <1>2, <1>3 DEF Service!Init

(* What the service sees is one tuple; a step that leaves it alone.        *)
LEMMA ServiceStutter ==
  ASSUME UNCHANGED <<life, m_jobQueue, m_processing, m_running, stopper>>,
         \A j \in Jobs : item'[j].priority = item[j].priority
  PROVE  UNCHANGED Service!vars
<1>1. QueuedJobs' = QueuedJobs
  BY DEF QueuedJobs
<1>2. \A j \in Jobs : Status(j)' = Status(j)
  BY <1>1 DEF Status
<1>3. Phase' = Phase
  BY DEF Phase
<1> QED BY <1>2, <1>3 DEF Service!vars

LEMMA ServiceMove ==
  ASSUME IInv, NEW j \in Jobs, NEW from, NEW to, Status(j) = from,
         status' = [status EXCEPT ![j] = to], Phase' = Phase
  PROVE  Service!Move(j, from, to)
BY DEF Service!Move, status

LEMMA WorkerImplements ==
  ASSUME IInv, IInv', NEW w \in Workers, WorkerStep(w) \/ DoWork(w)
  PROVE  Service!Next \/ UNCHANGED Service!vars
<1> USE DEF Goto, tvars, mvars
<1>1. CASE TakeJob(w)
  <2>1. PICK p \in Priorities :
          /\ m_jobQueue[p] # <<>> /\ Cardinality(m_processing) < GetMaxWorkers(p)
          /\ m_jobQueue' = [m_jobQueue EXCEPT ![p] = Tail(@)]
          /\ m_processing' = m_processing \cup {Head(m_jobQueue[p])}
    BY <1>1 DEF TakeJob, PopJob, Poppable
  <2>0. Head(m_jobQueue[p]) \in Jobs
    BY <2>1, HeadTailProperties DEF IInv, TypeOK
  <2>j. PICK j \in Jobs : j = Head(m_jobQueue[p])
    BY <2>0
  <2>2. /\ j \in ToSet(m_jobQueue[p]) /\ j \in Jobs
        /\ ToSet(Tail(m_jobQueue[p])) = ToSet(m_jobQueue[p]) \ {j}
    BY <2>1, <2>j, TailElements DEF IInv, QueueInv, TypeOK
  <2>3. j \in QueuedJobs /\ item[j].priority = p
    BY <2>2 DEF QueuedJobs, IInv, QueueInv
  <2>4. \A q \in Priorities : ToSet(m_jobQueue'[q]) = ToSet(m_jobQueue[q]) \ {j}
    BY SMTT(40), <2>1, <2>2 DEF IInv, QueueInv, TypeOK
  <2>5. QueuedJobs' = QueuedJobs \ {j}
    BY <2>4 DEF QueuedJobs
  <2>6. status' = [status EXCEPT ![j] = "running"]
    <3>1. Status(j)' = "running"
      <4>1. life'[j] = "live" /\ j \notin QueuedJobs' /\ j \in m_processing'
        BY <1>1, <2>1, <2>j, <2>2, <2>5 DEF TakeJob, IInv, QueueInv
      <4> QED BY <4>1 DEF Status
    <3>2. /\ life' = life /\ m_processing' = m_processing \cup {j}
      BY <1>1, <2>1, <2>j DEF TakeJob
    <3>3. \A k \in Jobs \ {j} : /\ life'[k] = life[k]
                                /\ k \in QueuedJobs' <=> k \in QueuedJobs
                                /\ k \in m_processing' <=> k \in m_processing
      BY <2>5, <3>2
    <3> QED BY <2>2, <3>1, <3>3, StatusMoves
  <2>7. Service!Move(j, "queued", "running")
    <3>1. Phase' = Phase
      BY <1>1 DEF TakeJob, Phase
    <3>2. Status(j) = "queued"
      BY <2>2, <2>3, StatusIs
    <3> QED BY <2>2, <2>6, <3>1, <3>2, ServiceMove
  <2>8. Service!Start(j)
    <3>1. Cardinality(Service!With("running")) < GetMaxWorkers(item[j].priority)
      <4>1. Service!With("running") = m_processing
        BY RunningIs DEF Service!With, status
      <4> QED BY <2>1, <2>3, <4>1
    <3>2. item' = item
      BY <1>1 DEF TakeJob
    <3> QED BY <2>2, <2>7, <3>1, <3>2, SameCardinality DEF Service!Start
  <2> QED BY <2>2, <2>8 DEF Service!Next
<1>2. CASE EraseJob(w)
  <2>0. job[w] \in Jobs
    BY <1>2 DEF EraseJob, IInv, HoldInv, TypeOK, Busy
  <2>j. PICK j \in Jobs : j = job[w]
    BY <2>0
  <2>1. /\ j \in m_processing /\ j \in Jobs /\ m_processing' = m_processing \ {j}
        /\ job'[w] = j /\ pc'[w] = "free"
        /\ UNCHANGED <<m_jobQueue, life, item, m_running, stopper>>
    BY <1>2, <2>j DEF EraseJob, IInv, HoldInv, TypeOK, Busy
  <2>2. QueuedJobs' = QueuedJobs
    BY <2>1 DEF QueuedJobs
  <2>3. status' = [status EXCEPT ![j] = "finished"]
    <3>1. life[j] = "live" /\ j \notin QueuedJobs
      BY <2>j, JobsAssumption DEF IInv, HoldInv
    <3>2. Status(j)' = "finished"
      BY <2>1, <2>2, <3>1 DEF Status
    <3>3. \A k \in Jobs \ {j} : /\ life'[k] = life[k]
                                /\ k \in QueuedJobs' <=> k \in QueuedJobs
                                /\ k \in m_processing' <=> k \in m_processing
      BY <2>1, <2>2
    <3> QED BY <2>1, <3>2, <3>3, StatusMoves
  <2>4. Service!Move(j, "running", "finished")
    <3>1. Status(j) = "running" /\ Phase' = Phase
      BY <2>1, StatusIs DEF Phase
    <3> QED BY <2>1, <2>3, <3>1, ServiceMove
  <2> QED BY <2>1, <2>4 DEF Service!Next, Service!Finish
<1>3. CASE FreeJob(w)
  <2>0. job[w] \in Jobs
    BY <1>3 DEF FreeJob, IInv, HoldInv, TypeOK, Busy
  <2>j. PICK j \in Jobs : j = job[w]
    BY <2>0
  <2>1. /\ j \in Jobs /\ life[j] = "live" /\ pc[w] = "free" /\ life' = AfterFree({j})
        /\ UNCHANGED <<m_jobQueue, m_processing, item, m_running, stopper>>
    BY <1>3, <2>j, JobsAssumption DEF FreeJob, IInv, HoldInv, TypeOK
  <2>2. Status(j) = "finished"
    BY <2>1, <2>j, StatusIs
  <2>3. life'[j] = "freed" /\ \A k \in Jobs \ {j} : life'[k] = life[k]
    BY <2>1 DEF AfterFree
  <2>4. QueuedJobs' = QueuedJobs
    BY <2>1 DEF QueuedJobs
  <2>5. status' = [status EXCEPT ![j] = "freed"]
    <3>1. Status(j)' = "freed"
      BY <2>3 DEF Status
    <3>2. \A k \in Jobs \ {j} : /\ life'[k] = life[k]
                                /\ k \in QueuedJobs' <=> k \in QueuedJobs
                                /\ k \in m_processing' <=> k \in m_processing
      BY <2>1, <2>3, <2>4
    <3> QED BY <2>1, <3>1, <3>2, StatusMoves
  <2>6. Service!Move(j, "finished", "freed")
    <3>1. Phase' = Phase
      BY <2>1 DEF Phase
    <3> QED BY <2>1, <2>2, <2>5, <3>1, ServiceMove
  <2> QED BY <2>1, <2>6 DEF Service!Next, Service!Delete
<1>4. CASE \/ FindNoJob(w) \/ StartWait(w) \/ Wake(w) \/ TimeOut(w) \/ Retire(w)
           \/ EndWorker(w) \/ ProgressReturn(w) \/ Notify(w) \/ CallbackReturn(w)
           \/ ReportProgress(w) \/ CompleteWork(w)
  BY <1>4, ServiceStutter DEF FindNoJob, StartWait, Wake, TimeOut, Retire, EndWorker,
     ProgressReturn, Notify, CallbackReturn, ReportProgress, CompleteWork
<1> QED BY <1>1, <1>2, <1>3, <1>4 DEF WorkerStep, DoWork

LEMMA AddJobImplements ==
  ASSUME IInv, IInv', NEW j \in Jobs, NEW p \in Priorities, NEW cb \in BOOLEAN,
         AddJob(j, p, cb)
  PROVE  Service!Accept(j, p)
<1>1. /\ life[j] = "new" /\ m_running /\ m_running' = m_running
      /\ item' = [item EXCEPT ![j] = [id |-> NextId, priority |-> p, callback |-> cb]]
      /\ m_jobQueue' = [m_jobQueue EXCEPT ![p] = Append(@, j)]
      /\ life' = [life EXCEPT ![j] = "live"]
      /\ UNCHANGED <<m_processing, stopper>>
  BY DEF AddJob
<1>2. \A q \in Priorities :
        ToSet(m_jobQueue'[q]) = ToSet(m_jobQueue[q]) \cup (IF q = p THEN {j} ELSE {})
  <2>1. ToSet(Append(m_jobQueue[p], j)) = ToSet(m_jobQueue[p]) \cup {j}
    BY AppendElements DEF IInv, TypeOK
  <2> QED BY <1>1, <2>1 DEF IInv, TypeOK
<1>3. QueuedJobs' = QueuedJobs \cup {j}
  BY <1>2 DEF QueuedJobs
<1>4. life'[j] = "live" /\ \A k \in Jobs \ {j} : life'[k] = life[k]
  BY <1>1 DEF IInv, TypeOK
<1>5. status' = [status EXCEPT ![j] = "queued"]
  <2>1. Status(j)' = "queued"
    BY <1>3, <1>4 DEF Status
  <2> QED BY <1>1, <1>3, <1>4, <2>1, StatusMoves
<1>6. Service!Move(j, "new", "queued")
  <2>1. Status(j) = "new" /\ Phase' = Phase
    BY <1>1 DEF Status, Phase
  <2> QED BY <1>5, <2>1, ServiceMove
<1>7. class' = [class EXCEPT ![j] = p]
  BY <1>1 DEF class, IInv, TypeOK
<1> QED BY <1>1, <1>6, <1>7 DEF Service!Accept, Phase, class

LEMMA RefuseImplements ==
  ASSUME IInv, NEW j \in Jobs, AddJobRefused(j)
  PROVE  Service!Refuse(j)
<1>1. /\ life[j] = "new" /\ ~m_running /\ life' = [life EXCEPT ![j] = "refused"]
      /\ UNCHANGED <<m_running, m_jobQueue, m_processing, item, stopper>>
  BY DEF AddJobRefused, mvars
<1>2. QueuedJobs' = QueuedJobs
  BY <1>1 DEF QueuedJobs
<1>3. life'[j] = "refused" /\ \A k \in Jobs \ {j} : life'[k] = life[k]
  BY <1>1 DEF IInv, TypeOK
<1>4. status' = [status EXCEPT ![j] = "refused"]
  <2>1. Status(j)' = "refused"
    BY <1>3 DEF Status
  <2> QED BY <1>1, <1>2, <1>3, <2>1, StatusMoves
<1>5. Service!Move(j, "new", "refused")
  <2>1. Status(j) = "new" /\ Phase' = Phase
    BY <1>1 DEF Status, Phase
  <2> QED BY <1>4, <2>1, ServiceMove
<1> QED BY <1>1, <1>5 DEF Service!Refuse, Phase

LEMMA CancelQueuedImplements ==
  ASSUME IInv, NEW n, CancelQueued(n)
  PROVE  \E j \in Jobs : Service!Drop(j)
<1>1. PICK p \in Priorities : \E i \in DOMAIN m_jobQueue[p] :
        /\ m_jobQueue' = [m_jobQueue EXCEPT ![p] = RemoveAt(@, i)]
        /\ life' = AfterFree({m_jobQueue[p][i]})
  BY DEF CancelQueued
<1>2. PICK i \in DOMAIN m_jobQueue[p] :
        /\ m_jobQueue' = [m_jobQueue EXCEPT ![p] = RemoveAt(@, i)]
        /\ life' = AfterFree({m_jobQueue[p][i]})
  BY <1>1
<1>3. m_jobQueue[p] \in Seq(Jobs) /\ IsInjective(m_jobQueue[p])
  BY DEF IInv, TypeOK, QueueInv
<1>4. PICK j \in Jobs : j = m_jobQueue[p][i]
  BY <1>3
<1>5. j \in ToSet(m_jobQueue[p]) /\ ToSet(RemoveAt(m_jobQueue[p], i)) = ToSet(m_jobQueue[p]) \ {j}
  <2>1. j \in ToSet(m_jobQueue[p])
    BY <1>4 DEF ToSet
  <2> QED BY <1>3, <1>4, <2>1, RemoveAtElements
<1>6. /\ j \in QueuedJobs /\ life[j] = "live"
      /\ \A q \in Priorities \ {p} : j \notin ToSet(m_jobQueue[q])
  BY <1>5 DEF IInv, QueueInv, QueuedJobs
<1>7. \A q \in Priorities : ToSet(m_jobQueue'[q]) = ToSet(m_jobQueue[q]) \ {j}
  <2>1. /\ m_jobQueue'[p] = RemoveAt(m_jobQueue[p], i)
        /\ \A q \in Priorities \ {p} : m_jobQueue'[q] = m_jobQueue[q]
    BY <1>2 DEF IInv, TypeOK
  <2> QED BY <1>5, <1>6, <2>1
<1>8. QueuedJobs' = QueuedJobs \ {j}
  BY <1>7 DEF QueuedJobs
<1>9. life'[j] = "freed" /\ \A k \in Jobs \ {j} : life'[k] = life[k]
  BY <1>2, <1>4, <1>6 DEF AfterFree
<1>10. UNCHANGED <<m_processing, m_running, item, stopper>>
  BY DEF CancelQueued
<1>11. status' = [status EXCEPT ![j] = "freed"]
  <2>1. Status(j)' = "freed"
    BY <1>9 DEF Status
  <2> QED BY <1>8, <1>9, <1>10, <2>1, StatusMoves
<1>12. Service!Move(j, "queued", "freed")
  <2>1. Status(j) = "queued" /\ Phase' = Phase
    BY <1>6, <1>10 DEF Status, Phase
  <2> QED BY <1>11, <2>1, ServiceMove
<1> QED BY <1>10, <1>12 DEF Service!Drop

LEMMA CancelJobsImplements ==
  ASSUME IInv, CancelJobs
  PROVE  Service!Close
<1>1. /\ m_running' = FALSE /\ life' = AfterFree(QueuedJobs)
      /\ m_jobQueue' = [p \in Priorities |-> <<>>]
      /\ stopper' = IF m_workers = {} THEN "idle" ELSE "set"
      /\ m_processing' = m_processing
  BY DEF CancelJobs
<1>2. \A j \in Jobs : item'[j].priority = item[j].priority
  BY DEF CancelJobs, IInv, TypeOK
<1>3. QueuedJobs' = {}
  BY <1>1 DEF QueuedJobs, ToSet
<1>4. ASSUME NEW j \in Jobs
      PROVE  Status(j)' = IF Status(j) = "queued" THEN "freed" ELSE Status(j)
  <2>1. j \in QueuedJobs => life[j] = "live"
    BY DEF IInv, QueueInv, QueuedJobs
  <2>2. life'[j] = IF j \in QueuedJobs THEN "freed" ELSE life[j]
    BY <1>1, <2>1 DEF AfterFree
  <2>3. Status(j) = "queued" <=> j \in QueuedJobs
    BY StatusIs
  <2> QED BY <1>1, <1>3, <2>1, <2>2, <2>3 DEF Status
<1>5. Phase' \in {"closing", "closed"}
  BY <1>1 DEF Phase
<1>6. ASSUME Phase' = "closed" PROVE Service!With("running") \cup Service!With("finished") = {}
  <2>1. m_workers = {}
    BY <1>1, <1>6 DEF Phase
  <2>2. \A w \in Workers : job[w] = NoJob
    BY <2>1 DEF IInv, StopInv, HoldInv, Busy
  <2>3. \A j \in Jobs : Status(j) \notin {"running", "finished"}
    BY <2>2, StatusIs, JobsAssumption DEF IInv, HoldInv
  <2> QED BY <2>3 DEF Service!With
<1>7. [j \in Jobs |-> Status(j)]' =
        [j \in Jobs |-> IF Status(j) = "queued" THEN "freed" ELSE Status(j)]
  BY <1>4
<1> QED BY <1>2, <1>5, <1>6, <1>7 DEF Service!Close

LEMMA StopCheckImplements ==
  ASSUME IInv, StopCheck
  PROVE  Service!Closed \/ UNCHANGED Service!vars
<1>1. stopper = "check" /\ UNCHANGED <<life, m_jobQueue, m_processing, m_running, item>>
      /\ ~m_running
  BY DEF StopCheck, mvars, IInv, StopInv
<1>2. \A j \in Jobs : Status(j)' = Status(j) /\ item'[j] = item[j]
  BY <1>1 DEF Status, QueuedJobs
<1>3. CASE m_workers # {}
  <2>1. Phase' = Phase
    BY <1>1, <1>3 DEF StopCheck, Phase
  <2> QED BY <1>2, <2>1 DEF Service!vars
<1>4. CASE m_workers = {}
  <2>1. Phase = "closing" /\ Phase' = "closed"
    BY <1>1, <1>4 DEF StopCheck, Phase
  <2>2. QueuedJobs = {}
    BY <1>1 DEF IInv, StopInv, QueuedJobs, ToSet
  <2>3. \A w \in Workers : job[w] = NoJob
    BY <1>4 DEF IInv, StopInv, HoldInv, Busy
  <2>4. \A j \in Jobs : Status(j) \notin {"queued", "running", "finished"}
    BY <2>2, <2>3, StatusIs, JobsAssumption DEF IInv, HoldInv
  <2> QED BY <1>2, <2>1, <2>4 DEF Service!Closed, Service!With
<1> QED BY <1>3, <1>4

LEMMA StepImplements ==
  ASSUME IInv, IInv', [Next]_vars
  PROVE  [Service!Next]_Service!vars
<1>1. ASSUME NEW w \in Workers, WorkerStep(w) \/ DoWork(w)
      PROVE  Service!Next \/ UNCHANGED Service!vars
  BY <1>1, WorkerImplements
<1>2. ASSUME NEW c \in Calls, AddJob(c[1], c[2], c[3]) \/ AddJobRefused(c[1])
      PROVE  Service!Next
  <2>1. c[1] \in Jobs /\ c[2] \in Priorities /\ c[3] \in BOOLEAN
    BY LimitsAssumption
  <2> QED BY <1>2, <2>1, AddJobImplements, RefuseImplements DEF Service!Next
<1>3. ASSUME NEW n, CancelQueued(n) PROVE Service!Next
  BY <1>3, CancelQueuedImplements DEF Service!Next
<1>4. ASSUME NEW n, CancelProcessing(n) PROVE UNCHANGED Service!vars
  BY <1>4, ServiceStutter DEF CancelProcessing, IInv, TypeOK
<1>5. CASE CancelJobs
  BY <1>5, CancelJobsImplements DEF Service!Next
<1>6. CASE StopCheck
  BY <1>6, StopCheckImplements DEF Service!Next
<1>7. CASE Restart
  <2>1. \A j \in Jobs : Status(j)' = Status(j) /\ item'[j] = item[j]
    BY <1>7 DEF Restart, Status, QueuedJobs
  <2>2. Phase = "closed" /\ Phase' = "open"
    BY <1>7 DEF Restart, Phase
  <2> QED BY <2>1, <2>2 DEF Service!Next, Service!Reopen
<1>8. CASE StopSet
  <2>1. \A j \in Jobs : Status(j)' = Status(j) /\ item'[j] = item[j]
    BY <1>8 DEF StopSet, Status, QueuedJobs
  <2>2. Phase' = Phase
    BY <1>8 DEF StopSet, Phase
  <2> QED BY <2>1, <2>2 DEF Service!vars
<1>9. CASE PauseJobs \/ UnPauseJobs \/ UNCHANGED vars
  BY <1>9, ServiceStutter DEF PauseJobs, UnPauseJobs, vars, mvars
<1> QED BY <1>1, <1>2, <1>3, <1>4, <1>5, <1>6, <1>7, <1>8, <1>9 DEF Next, Client, StopLoop

(* CJobManager implements the job service.                                 *)
THEOREM Refinement == Spec => ImplementsService
BY ServiceInit, StepImplements, IInvCorrect, PTL DEF Spec, ImplementsService, Service!Spec
=============================================================================

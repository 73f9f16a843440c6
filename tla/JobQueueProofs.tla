--------------------------- MODULE JobQueueProofs ---------------------------
(***************************************************************************)
(* Proofs of CJobQueue's safety properties, for every number of jobs, of   *)
(* workers and of slots: the manager's inductive invariant is preserved by *)
(* the queue's calls, and the queue's own is stated over both.             *)
(***************************************************************************)
EXTENDS JobQueue, JobManagerProofs

-----------------------------------------------------------------------------
(* The inductive invariant                                                 *)

Distinct(entries) ==
  /\ IsInjective(entries)
  /\ \A d, e \in ToSet(entries) : d.job = e.job => d = e

(* The entries whose jobs the manager has yet to call back or be told to   *)
(* cancel.                                                                 *)
Pending == IF locked THEN cancelling ELSE handed

(* What waits is new to the manager, and the queue has it once.            *)
WaitingInv ==
  /\ IsInjective(waiting)
  /\ \A j \in ToSet(waiting) : life[j] = "new" /\ owner[j] = "queue"
  /\ \A j \in Jobs : owner[j] = "client" => life[j] = "new" /\ j \notin ToSet(waiting)

(* What was handed over is not new, and no more than the slots.            *)
EntryInv ==
  /\ Distinct(handed) /\ Distinct(cancelling)
  /\ \A j \in JobsOf(handed) : life[j] # "new"
  /\ Len(handed) <= m_jobsAtOnce
  /\ ~locked => cancelling = <<>>
  /\ locked => \A j \in JobsOf(handed) : j \in JobsOf(cancelling) \/ owner[j] = "cancelled"

(* Live jobs have ids of their own, an entry has its job's.                *)
IdInv ==
  /\ \A j, k \in Live : item[j].id = item[k].id => j = k
  /\ \A e \in ToSet(Pending) : item[e.job].id = e.id

(* The worker has not run OnJobComplete for its job, but will.             *)
CallsBack(w) ==
  /\ w \notin called
  /\ \/ pc[w] \in {"work", "progress"} /\ item[job[w]].callback
     \/ pc[w] \in {"notify", "callback"} /\ copy[w]

(* The manager calls back for every entry; what it has without one is not  *)
(* queued, and its callback is taken away.                                 *)
CallInv ==
  /\ \A w \in called : pc[w] = "callback"
  /\ \A j \in JobsOf(Pending) : WillCallBack(j)
  /\ QueuedJobs \subseteq JobsOf(Pending)
  /\ \A w \in Workers : pc[w] \in {"work", "progress"} /\ item[job[w]].callback
                           => job[w] \in JobsOf(Pending)

(* A job that is in the manager's hands for the queue has an entry until   *)
(* its worker has called OnJobComplete, or will not.                       *)
Over(j) == \E w \in called \cup {v \in Workers : pc[v] \in {"erase", "free"}} : job[w] = j

HandedInv == \A j \in Live : owner[j] = "queue" => j \in JobsOf(handed) \/ Over(j)

SlotInv == NoIdleSlot /\ (waiting = <<>> => released = 0)

QIInv ==
  IInv /\ QTypeOK /\ WaitingInv /\ EntryInv /\ IdInv /\ CallInv /\ HandedInv /\ SlotInv

-----------------------------------------------------------------------------
(* Entries                                                                 *)

Entries == [job : Jobs, id : 1..MaxId]

LEMMA JobsOfIs ==
  ASSUME NEW entries
  PROVE  JobsOf(entries) = {e.job : e \in ToSet(entries)}
BY DEF JobsOf, ToSet

(* Erasing a job's entry takes out its one entry.                          *)
LEMMA WithoutIs ==
  ASSUME NEW entries \in Seq(Entries), Distinct(entries), NEW j
  PROVE  /\ Without(entries, j) \in Seq(Entries)
         /\ Distinct(Without(entries, j))
         /\ ToSet(Without(entries, j)) = {e \in ToSet(entries) : e.job # j}
         /\ JobsOf(Without(entries, j)) = JobsOf(entries) \ {j}
         /\ Len(Without(entries, j)) = IF j \in JobsOf(entries) THEN Len(entries) - 1
                                                                ELSE Len(entries)
<1>1. ToSet(entries) \subseteq Entries
  BY DEF ToSet
<1>2. CASE j \notin JobsOf(entries)
  <2>1. \A e \in ToSet(entries) : e.job # j
    BY <1>2, JobsOfIs
  <2> QED BY <1>2, <2>1, JobsOfIs DEF Without
<1>3. CASE j \in JobsOf(entries)
  <2> DEFINE i == CHOOSE k \in DOMAIN entries : entries[k].job = j
  <2>1. i \in DOMAIN entries /\ entries[i].job = j
    BY <1>3 DEF JobsOf
  <2>2. Without(entries, j) = RemoveAt(entries, i)
    BY <1>3 DEF Without
  <2> HIDE DEF i
  <2>3. /\ RemoveAt(entries, i) \in Seq(Entries) /\ Len(RemoveAt(entries, i)) = Len(entries) - 1
        /\ ToSet(RemoveAt(entries, i)) = ToSet(entries) \ {entries[i]}
        /\ IsInjective(RemoveAt(entries, i))
    BY <2>1, RemoveAtElements DEF Distinct
  <2>4. entries[i] \in ToSet(entries)
    BY <2>1 DEF ToSet
  <2>5. ToSet(entries) \ {entries[i]} = {e \in ToSet(entries) : e.job # j}
    BY <2>1, <2>4 DEF Distinct
  <2>6. JobsOf(Without(entries, j)) = JobsOf(entries) \ {j}
    BY <2>2, <2>3, <2>5, JobsOfIs
  <2> QED BY <1>3, <2>2, <2>3, <2>5, <2>6 DEF Distinct
<1> QED BY <1>2, <1>3

-----------------------------------------------------------------------------
(* What the manager's steps do to what the queue can see                   *)

(* A new job is queued.                                                    *)
Queued(j) ==
  /\ life[j] = "new" /\ j \notin QueuedJobs /\ \A w \in Workers : job[w] # j
  /\ QueuedJobs' = QueuedJobs \cup {j}
  /\ Live' = Live \cup {j} /\ life'[j] = "live"
  /\ item'[j].id = NextId /\ item'[j].callback
  /\ \A k \in Live : item[k].id # NextId
  /\ \A k \in Jobs \ {j} : life'[k] = life[k] /\ item'[k] = item[k]
  /\ job' = job /\ copy' = copy
  /\ \A w \in Workers : pc'[w] = pc[w] \/ (pc[w] = "none" /\ pc'[w] = "getjob")

LEMMA AddJobIs ==
  ASSUME IInv, NEW j \in Jobs, NEW p \in Priorities, AddJob(j, p, TRUE)
  PROVE  IInv' /\ Queued(j)
<1>0. TypeOK' /\ IInv'
  <2>1. TypeOK'
    BY AddJobType DEF IInv
  <2> QED BY <2>1, AddJobStep
<1>1. /\ life[j] = "new"
      /\ item' = [item EXCEPT ![j] = [id |-> NextId, priority |-> p, callback |-> TRUE]]
      /\ m_jobQueue' = [m_jobQueue EXCEPT ![p] = Append(@, j)]
      /\ life' = [life EXCEPT ![j] = "live"]
      /\ \A k \in Live : item[k].id # NextId
      /\ UNCHANGED <<job, copy>>
  BY DEF AddJob
<1>2. j \notin QueuedJobs /\ \A w \in Workers : job[w] # j
  <2>1. \A q \in Priorities : j \notin ToSet(m_jobQueue[q])
    BY <1>1 DEF IInv, QueueInv
  <2>2. \A w \in Workers : job[w] # j
    BY <1>1, JobsAssumption DEF IInv, HoldInv
  <2> QED BY <2>1, <2>2 DEF QueuedJobs
<1>3. QueuedJobs' = QueuedJobs \cup {j}
  <2>1. ToSet(Append(m_jobQueue[p], j)) = ToSet(m_jobQueue[p]) \cup {j}
    BY AppendElements DEF IInv, TypeOK
  <2>2. \A q \in Priorities :
          ToSet(m_jobQueue'[q]) = ToSet(m_jobQueue[q]) \cup (IF q = p THEN {j} ELSE {})
    BY <1>1, <2>1 DEF IInv, TypeOK
  <2> QED BY <2>2 DEF QueuedJobs
<1>4. /\ life'[j] = "live" /\ item'[j].id = NextId /\ item'[j].callback
      /\ \A k \in Jobs \ {j} : life'[k] = life[k] /\ item'[k] = item[k]
  BY <1>1 DEF IInv, TypeOK
<1>5. \A w \in Workers : pc'[w] = pc[w] \/ (pc[w] = "none" /\ pc'[w] = "getjob")
  BY DEF AddJob, StartWorkers, Goto, IInv, TypeOK
<1>6. Live' = Live \cup {j}
  BY <1>4 DEF Live
<1> QED BY <1>0, <1>1, <1>2, <1>3, <1>4, <1>5, <1>6 DEF Queued

(* A queued job is deleted, or a job in progress loses its callback.       *)
Dropped(j) ==
  /\ j \in QueuedJobs /\ QueuedJobs' = QueuedJobs \ {j} /\ Live' = Live \ {j}
  /\ life'[j] = "freed"
  /\ \A k \in Jobs \ {j} : life'[k] = life[k]
  /\ item' = item

Silenced(j) ==
  /\ j \in m_processing /\ QueuedJobs' = QueuedJobs /\ Live' = Live
  /\ life' = life
  /\ ~item'[j].callback /\ item'[j].id = item[j].id
  /\ \A k \in Jobs \ {j} : item'[k] = item[k]

LEMMA CancelQueuedIs ==
  ASSUME IInv, NEW n, CancelQueued(n)
  PROVE  /\ IInv' /\ pc' = pc /\ job' = job /\ copy' = copy
         /\ \E j \in QueuedJobs : item[j].id = n /\ Dropped(j)
<1>0. IInv'
  BY CancelQueuedType, CancelQueuedStep DEF IInv
<1>1. PICK p \in Priorities : \E i \in DOMAIN m_jobQueue[p] :
        /\ item[m_jobQueue[p][i]].id = n
        /\ m_jobQueue' = [m_jobQueue EXCEPT ![p] = RemoveAt(@, i)]
        /\ life' = AfterFree({m_jobQueue[p][i]})
  BY DEF CancelQueued
<1>2. PICK i \in DOMAIN m_jobQueue[p] :
        /\ item[m_jobQueue[p][i]].id = n
        /\ m_jobQueue' = [m_jobQueue EXCEPT ![p] = RemoveAt(@, i)]
        /\ life' = AfterFree({m_jobQueue[p][i]})
  BY <1>1
<1>3. UNCHANGED <<item, pc, job, copy>>
  BY DEF CancelQueued, tvars
<1>j. PICK j : j = m_jobQueue[p][i]
  OBVIOUS
<1>4. /\ j \in Jobs /\ j \in ToSet(m_jobQueue[p])
      /\ ToSet(RemoveAt(m_jobQueue[p], i)) = ToSet(m_jobQueue[p]) \ {j}
  <2>1. m_jobQueue[p] \in Seq(Jobs) /\ IsInjective(m_jobQueue[p])
    BY DEF IInv, TypeOK, QueueInv
  <2>2. j \in Jobs /\ j \in ToSet(m_jobQueue[p])
    BY <1>j, <2>1 DEF ToSet
  <2> QED BY <1>j, <2>1, <2>2, RemoveAtElements
<1>5. j \in QueuedJobs /\ life[j] = "live" /\ item[j].priority = p
  BY <1>4 DEF IInv, QueueInv, QueuedJobs
<1>6. \A q \in Priorities : ToSet(m_jobQueue'[q]) = ToSet(m_jobQueue[q]) \ {j}
  <2>1. \A q \in Priorities \ {p} : j \notin ToSet(m_jobQueue[q])
    BY <1>5 DEF IInv, QueueInv
  <2>2. /\ m_jobQueue'[p] = RemoveAt(m_jobQueue[p], i)
        /\ \A q \in Priorities \ {p} : m_jobQueue'[q] = m_jobQueue[q]
    BY <1>2 DEF IInv, TypeOK
  <2> QED BY <1>4, <2>1, <2>2
<1>7. QueuedJobs' = QueuedJobs \ {j}
  BY <1>6 DEF QueuedJobs
<1>8. life'[j] = "freed" /\ \A k \in Jobs \ {j} : life'[k] = life[k]
  BY <1>j, <1>2, <1>4, <1>5 DEF AfterFree
<1>9. Live' = Live \ {j}
  BY <1>4, <1>8 DEF Live
<1> QED BY <1>j, <1>0, <1>2, <1>3, <1>5, <1>7, <1>8, <1>9 DEF Dropped

LEMMA CancelProcessingIs ==
  ASSUME IInv, NEW n, CancelProcessing(n)
  PROVE  /\ IInv' /\ pc' = pc /\ job' = job /\ copy' = copy
         /\ \E j \in m_processing : item[j].id = n /\ Silenced(j)
<1>0. IInv'
  BY CancelProcessingType, CancelProcessingStep DEF IInv
<1>1. PICK j \in m_processing : /\ item[j].id = n
                               /\ item' = [item EXCEPT ![j].callback = FALSE]
  BY DEF CancelProcessing
<1>2. UNCHANGED <<m_jobQueue, life, pc, job, copy>>
  BY DEF CancelProcessing, tvars
<1>3. QueuedJobs' = QueuedJobs /\ Live' = Live
  BY <1>2 DEF QueuedJobs, Live
<1>4. /\ ~item'[j].callback /\ item'[j].id = item[j].id
      /\ \A k \in Jobs \ {j} : item'[k] = item[k]
  BY <1>1 DEF IInv, TypeOK
<1> QED BY <1>0, <1>1, <1>2, <1>3, <1>4 DEF Silenced


-----------------------------------------------------------------------------
(* The steps                                                               *)

LEMMA QParts ==
  ASSUME QIInv
  PROVE  /\ IInv /\ QTypeOK /\ WaitingInv /\ EntryInv /\ IdInv /\ CallInv /\ HandedInv
         /\ SlotInv
         /\ handed \in Seq(Entries) /\ cancelling \in Seq(Entries)
         /\ QueuedJobs \subseteq Live /\ Live \subseteq Jobs
         /\ \A w \in Workers : job[w] # NoJob => job[w] \in Live /\ job[w] \notin QueuedJobs
         /\ \A w \in Workers : pc[w] \in Busy \cup {"free"} => job[w] # NoJob
         /\ \A v, w \in Workers : job[v] = job[w] /\ job[v] # NoJob => v = w
         /\ NoJob \notin Jobs
         /\ JobsOf(Pending) \subseteq Live /\ JobsOf(handed) \subseteq Jobs
<1>1. /\ IInv /\ QTypeOK /\ WaitingInv /\ EntryInv /\ IdInv /\ CallInv /\ HandedInv
      /\ SlotInv
  BY DEF QIInv
<1>2. handed \in Seq(Entries) /\ cancelling \in Seq(Entries)
  BY <1>1 DEF QTypeOK, Entries
<1>3. QueuedJobs \subseteq Live
  BY <1>1 DEF QueuedJobs, Live, IInv, TypeOK, QueueInv, ToSet
<1>4. /\ \A w \in Workers : job[w] # NoJob => job[w] \in Live /\ job[w] \notin QueuedJobs
      /\ \A w \in Workers : pc[w] \in Busy \cup {"free"} => job[w] # NoJob
      /\ \A v, w \in Workers : job[v] = job[w] /\ job[v] # NoJob => v = w
  BY <1>1 DEF Live, IInv, TypeOK, HoldInv
<1>5. JobsOf(Pending) \subseteq Live
  BY <1>1 DEF CallInv, WillCallBack
<1>6. JobsOf(handed) \subseteq Jobs
  <2>1. ToSet(handed) \subseteq Entries
    BY <1>2 DEF ToSet
  <2>2. JobsOf(handed) = {d.job : d \in ToSet(handed)}
    BY JobsOfIs
  <2> QED BY <2>1, <2>2 DEF Entries
<1> QED BY <1>1, <1>2, <1>3, <1>4, <1>5, <1>6, JobsAssumption DEF Live

LEMMA WillCallBackIs ==
  ASSUME NEW j
  PROVE  WillCallBack(j) <=> /\ j \in Live
                             /\ \/ j \in QueuedJobs /\ item[j].callback
                                \/ \E w \in Workers : job[w] = j /\ CallsBack(w)
BY DEF WillCallBack, CallsBack

(* What CancelJob cancels for a pending entry is the job of that entry.    *)
LEMMA CancelEntryIs ==
  ASSUME QIInv, NEW e \in ToSet(Pending), CancelEntry(e)
  PROVE  /\ IInv' /\ pc' = pc /\ job' = job /\ copy' = copy
         /\ Dropped(e.job) \/ Silenced(e.job)
<1>1. /\ e.job \in Live /\ item[e.job].id = e.id
      /\ e.job \in QueuedJobs \cup m_processing
  <2>1. e.job \in JobsOf(Pending) /\ item[e.job].id = e.id
    BY QParts, JobsOfIs DEF IdInv
  <2>2. WillCallBack(e.job)
    BY <2>1, QParts DEF CallInv
  <2>3. ASSUME NEW w \in Workers, job[w] = e.job,
               pc[w] \in {"work", "progress", "notify", "callback"}
        PROVE  e.job \in m_processing
    BY <2>3, QParts DEF IInv, HoldInv, Busy
  <2> QED BY <2>1, <2>2, <2>3 DEF WillCallBack
<1>2. \A j \in QueuedJobs \cup m_processing : item[j].id = e.id => j = e.job
  <2>1. m_processing \subseteq Live
    <3>1. ASSUME NEW j \in m_processing PROVE j \in Live
      <4>1. PICK w \in Workers : job[w] = j
        BY QParts DEF IInv, HoldInv
      <4>2. j \in Jobs
        BY QParts DEF IInv, TypeOK
      <4> QED BY <4>1, <4>2, QParts
    <3> QED BY <3>1
  <2> QED BY <1>1, <2>1, QParts DEF IdInv
<1>3. CASE CancelQueued(e.id)
  <2>1. /\ IInv' /\ pc' = pc /\ job' = job /\ copy' = copy
        /\ \E j \in QueuedJobs : item[j].id = e.id /\ Dropped(j)
    BY <1>3, QParts, CancelQueuedIs
  <2> QED BY <1>2, <2>1
<1>4. CASE CancelProcessing(e.id)
  <2>1. /\ IInv' /\ pc' = pc /\ job' = job /\ copy' = copy
        /\ \E j \in m_processing : item[j].id = e.id /\ Silenced(j)
    BY <1>4, QParts, CancelProcessingIs
  <2> QED BY <1>2, <2>1
<1> QED BY <1>1, <1>3, <1>4 DEF CancelEntry

(* An entry is cancelled and leaves the pending ones.                      *)
LEMMA CancelStep ==
  ASSUME QIInv, NEW e \in ToSet(Pending), CancelEntry(e), called' = called,
         ToSet(Pending)' = ToSet(Pending) \ {e}
  PROVE  /\ IInv' /\ IdInv' /\ CallInv'
         /\ Live' \subseteq Live
         /\ \A j \in Jobs : life'[j] = "new" <=> life[j] = "new"
         /\ \A j : Over(j)' <=> Over(j)
<1>1. /\ IInv' /\ pc' = pc /\ job' = job /\ copy' = copy
      /\ Dropped(e.job) \/ Silenced(e.job)
  BY CancelEntryIs
<1>2. /\ e.job \in Jobs /\ life[e.job] = "live"
      /\ Live \subseteq Jobs /\ QueuedJobs \subseteq Live
      /\ e.job \in JobsOf(Pending)
  BY QParts, JobsOfIs DEF Live
<1>3. /\ Live' \subseteq Live
      /\ \A j \in Jobs \ {e.job} : /\ j \in Live' <=> j \in Live
                                   /\ j \in QueuedJobs' <=> j \in QueuedJobs
                                   /\ item'[j] = item[j] /\ life'[j] = life[j]
      /\ \A j \in Jobs : life'[j] = "new" <=> life[j] = "new"
      /\ \A j \in Jobs : item'[j].id = item[j].id
      /\ e.job \notin QueuedJobs'
      /\ e.job \in QueuedJobs \/ ~item'[e.job].callback
  <2>1. CASE Dropped(e.job)
    BY <1>2, <2>1 DEF Dropped
  <2>2. CASE Silenced(e.job)
    <3>1. e.job \notin QueuedJobs
      <4>1. PICK w \in Workers : job[w] = e.job
        BY <2>2, QParts DEF Silenced, IInv, HoldInv
      <4> QED BY <1>2, <4>1, QParts
    <3> QED BY <1>2, <2>2, <3>1 DEF Silenced
  <2> QED BY <1>1, <2>1, <2>2
<1>4. JobsOf(Pending)' = JobsOf(Pending) \ {e.job}
  <2>1. \A d \in ToSet(Pending) : d.job = e.job => d = e
    BY QParts DEF EntryInv, Distinct, Pending
  <2>2. /\ JobsOf(Pending) = {d.job : d \in ToSet(Pending)}
        /\ JobsOf(Pending)' = {d.job : d \in ToSet(Pending)'}
    BY JobsOfIs
  <2> QED BY <2>1, <2>2
<1>5. IdInv'
  <2>1. \A j, k \in Live' : item'[j].id = item'[k].id => j = k
    BY <1>2, <1>3, QParts DEF IdInv
  <2>2. \A d \in ToSet(Pending)' : item'[d.job].id = d.id
    <3>1. \A d \in ToSet(Pending) : d.job \in Jobs
      BY <1>2, QParts, JobsOfIs
    <3> QED BY <1>3, <3>1, QParts DEF IdInv
  <2> QED BY <2>1, <2>2 DEF IdInv
<1>6. CallInv'
  <2>1. ASSUME NEW j \in JobsOf(Pending)' PROVE WillCallBack(j)'
    <3>1. j \in JobsOf(Pending) /\ j # e.job /\ WillCallBack(j)
      BY <1>4, QParts DEF CallInv
    <3>2. j \in Jobs /\ j \in Live' /\ item'[j] = item[j] /\ (j \in QueuedJobs => j \in QueuedJobs')
      BY <1>2, <1>3, <3>1, QParts
    <3> QED BY <1>1, <3>1, <3>2 DEF WillCallBack
  <2>2. QueuedJobs' \subseteq JobsOf(Pending)'
    <3>1. QueuedJobs' \subseteq QueuedJobs \ {e.job}
      BY <1>1, <1>3 DEF Dropped, Silenced
    <3> QED BY <1>4, <3>1, QParts DEF CallInv
  <2>3. ASSUME NEW w \in Workers, pc'[w] \in {"work", "progress"}, item'[job'[w]].callback
        PROVE  job'[w] \in JobsOf(Pending)'
    <3>1. job[w] \in Live /\ job[w] \notin QueuedJobs /\ job'[w] = job[w] /\ pc'[w] = pc[w]
      BY <1>1, <2>3, QParts DEF Busy
    <3>2. job[w] # e.job
      BY <1>3, <2>3, <3>1
    <3>3. item[job[w]].callback
      BY <1>2, <1>3, <2>3, <3>1, <3>2
    <3> QED BY <1>4, <2>3, <3>1, <3>2, <3>3, QParts DEF CallInv
  <2> QED BY <1>1, <2>1, <2>2, <2>3, QParts DEF CallInv
<1>7. \A j : Over(j)' <=> Over(j)
  BY <1>1 DEF Over
<1> QED BY <1>1, <1>3, <1>5, <1>6, <1>7

LEMMA NextIdIs == IInv => NextId \in 1..MaxId
BY LimitsAssumption DEF NextId, IInv, TypeOK

(* QueueNextJob, on what its caller leaves of the deque and the entries:   *)
(* the entries taken out are of workers that have called.                  *)
LEMMA HandOver ==
  ASSUME QIInv, ~locked, UNCHANGED <<cancelling, locked>>,
         NEW queue \in Seq(Jobs), NEW entries \in Seq(Entries), QueueNextJob(queue, entries),
         IsInjective(queue),
         \A j \in ToSet(queue) : life[j] = "new" /\ owner'[j] = "queue",
         \A j \in Jobs : owner'[j] = "client" => life[j] = "new" /\ j \notin ToSet(queue),
         \A j \in Jobs : life[j] # "new" => owner'[j] = owner[j],
         Distinct(entries), ToSet(entries) \subseteq ToSet(handed), Len(entries) <= Len(handed),
         called \subseteq called', called' \subseteq Workers,
         \A w \in called' : pc[w] = "callback",
         \A w \in called' \ called : job[w] \notin JobsOf(entries),
         \A j \in JobsOf(handed) \ JobsOf(entries) : \E w \in called' : job[w] = j
  PROVE  /\ IInv' /\ WaitingInv' /\ EntryInv' /\ IdInv' /\ CallInv' /\ HandedInv'
         /\ waiting' \in Seq(Jobs) /\ handed' \in Seq(Entries)
         /\ \/ /\ queue # <<>> /\ Len(entries) < m_jobsAtOnce
               /\ Len(waiting') = Len(queue) - 1 /\ Len(handed') = Len(entries) + 1
            \/ /\ queue = <<>> \/ Len(entries) >= m_jobsAtOnce
               /\ waiting' = queue /\ handed' = entries
<1>0. /\ IInv /\ QTypeOK /\ WaitingInv /\ EntryInv /\ IdInv /\ CallInv /\ HandedInv
      /\ QueuedJobs \subseteq Live /\ Live \subseteq Jobs
      /\ \A w \in Workers : job[w] # NoJob => job[w] \in Live /\ job[w] \notin QueuedJobs
      /\ \A w \in Workers : pc[w] \in Busy \cup {"free"} => job[w] # NoJob
      /\ \A v, w \in Workers : job[v] = job[w] /\ job[v] # NoJob => v = w
      /\ Pending = handed /\ Pending' = handed'
      /\ \A j \in Live : life[j] # "new"
      /\ m_jobsAtOnce \in Nat /\ Len(entries) \in Nat /\ Len(handed) \in Nat
      /\ JobsOf(handed) \subseteq Live /\ called \subseteq Workers
  BY QParts, QueueAssumption DEF Pending, Live, QTypeOK
<1>1. /\ JobsOf(entries) = {e.job : e \in ToSet(entries)}
      /\ JobsOf(handed) = {e.job : e \in ToSet(handed)}
      /\ JobsOf(entries) \subseteq JobsOf(handed)
  <2>1. /\ JobsOf(entries) = {e.job : e \in ToSet(entries)}
        /\ JobsOf(handed) = {e.job : e \in ToSet(handed)}
    BY JobsOfIs
  <2> QED BY <2>1
<1>2. \A w \in Workers : CallsBack(w) /\ job[w] \in JobsOf(entries) => w \notin called'
  BY DEF CallsBack
<1>3. \A j \in JobsOf(handed) \ JobsOf(entries) :
         j \notin QueuedJobs /\ \A w \in Workers : job[w] = j => pc[w] = "callback"
  <2> SUFFICES ASSUME NEW j \in JobsOf(handed) \ JobsOf(entries)
               PROVE  j \notin QueuedJobs /\ \A w \in Workers : job[w] = j => pc[w] = "callback"
    OBVIOUS
  <2>1. PICK w \in called' : job[w] = j
    OBVIOUS
  <2>2. job[w] # NoJob /\ w \in Workers
    BY <1>0, <2>1 DEF Busy
  <2> QED BY <1>0, <2>1, <2>2
<1>4. QueuedJobs \subseteq JobsOf(entries)
  BY <1>0, <1>3 DEF CallInv
<1>5. \A w \in Workers : pc[w] \in {"work", "progress"} /\ item[job[w]].callback
                           => job[w] \in JobsOf(entries)
  BY <1>0, <1>3 DEF CallInv
<1>6. \A j \in Live : owner[j] = "queue"
        => j \in JobsOf(entries)
           \/ \E w \in called' \cup {v \in Workers : pc[v] \in {"erase", "free"}} : job[w] = j
  BY <1>0 DEF HandedInv, Over
<1>7. CASE queue # <<>> /\ Len(entries) < m_jobsAtOnce
  <2>j. PICK j : j = Last(queue)
    OBVIOUS
  <2>e. PICK e : e = [job |-> j, id |-> NextId]
    OBVIOUS
  <2>1. /\ AddJob(j, m_priority, TRUE) /\ waiting' = Front(queue)
        /\ handed' = Append(entries, e)
    BY <1>7, <2>j, <2>e DEF QueueNextJob
  <2>2. /\ waiting' \in Seq(Jobs) /\ Len(waiting') = Len(queue) - 1
        /\ j \in ToSet(queue) /\ j \in Jobs
        /\ ToSet(waiting') = ToSet(queue) \ {j} /\ IsInjective(waiting')
    <3>1. /\ Front(queue) \in Seq(Jobs) /\ Len(Front(queue)) = Len(queue) - 1
          /\ Last(queue) \in ToSet(queue)
          /\ ToSet(Front(queue)) = ToSet(queue) \ {Last(queue)}
          /\ IsInjective(Front(queue))
      BY <1>7, FrontElements
    <3>2. ToSet(queue) \subseteq Jobs
      BY DEF ToSet
    <3> QED BY <2>j, <2>1, <3>1, <3>2
  <2>3. IInv' /\ Queued(j)
    BY <1>0, <2>1, <2>2, AddJobIs, QueueAssumption
  <2>4. /\ e \in Entries /\ e.job = j /\ e.id = NextId
    BY <1>0, <2>e, <2>2, NextIdIs DEF Entries
  <2>5. j \notin JobsOf(entries) /\ j \notin Live /\ e \notin ToSet(entries)
    <3>1. j \notin Live
      BY <2>2 DEF Live
    <3> QED BY <1>0, <1>1, <2>4, <3>1
  <2>6. /\ handed' \in Seq(Entries) /\ Len(handed') = Len(entries) + 1
        /\ ToSet(handed') = ToSet(entries) \cup {e} /\ IsInjective(handed')
    <3>1. /\ Append(entries, e) \in Seq(Entries)
          /\ ToSet(Append(entries, e)) = ToSet(entries) \cup {e}
          /\ IsInjective(Append(entries, e))
      BY <2>4, <2>5, AppendElements DEF Distinct
    <3>2. Len(Append(entries, e)) = Len(entries) + 1
      BY <2>4
    <3> QED BY <2>1, <3>1, <3>2
  <2>7. JobsOf(handed') = JobsOf(entries) \cup {j}
    <3>1. JobsOf(handed') = {d.job : d \in ToSet(handed')}
      BY JobsOfIs
    <3> QED BY <1>1, <2>4, <2>6, <3>1
  <2>8. WaitingInv'
    <3>1. \A k \in ToSet(queue) : k \in Jobs
      BY DEF ToSet
    <3>2. \A k \in Jobs \ {j} : life'[k] = life[k]
      BY <2>3 DEF Queued
    <3>3. \A k \in ToSet(waiting') : life'[k] = "new" /\ owner'[k] = "queue"
      BY <2>2, <3>1, <3>2
    <3>4. ASSUME NEW k \in Jobs, owner'[k] = "client"
          PROVE  life'[k] = "new" /\ k \notin ToSet(waiting')
      BY <2>2, <3>2, <3>4
    <3> QED BY <2>2, <3>3, <3>4 DEF WaitingInv
  <2>9. EntryInv'
    <3>1. Distinct(handed')
      BY <1>1, <2>4, <2>5, <2>6 DEF Distinct
    <3>2. \A k \in JobsOf(handed') : life'[k] # "new"
      BY <1>0, <1>1, <2>3, <2>7 DEF Queued
    <3>3. Len(handed') <= m_jobsAtOnce
      BY <1>0, <1>7, <2>6
    <3> QED BY <1>0, <3>1, <3>2, <3>3 DEF EntryInv
  <2>10. IdInv'
    <3>1. \A k, l \in Live' : item'[k].id = item'[l].id => k = l
      BY <1>0, <2>3, <2>5 DEF Queued, IdInv
    <3>2. \A d \in ToSet(entries) : item'[d.job].id = d.id
      <4>1. \A d \in ToSet(entries) : item[d.job].id = d.id /\ d.job \in Live
        BY <1>0, <1>1 DEF IdInv
      <4> QED BY <1>0, <2>3, <2>5, <4>1 DEF Queued
    <3>3. item'[e.job].id = e.id
      BY <2>3, <2>4 DEF Queued
    <3>4. \A d \in ToSet(handed') : item'[d.job].id = d.id
      BY <2>6, <3>2, <3>3
    <3> QED BY <1>0, <3>1, <3>4 DEF IdInv
  <2>11. CallInv'
    <3>1. \A w \in called' : pc'[w] = "callback"
      BY <2>3 DEF Queued
    <3>2. ASSUME NEW k \in JobsOf(handed') PROVE WillCallBack(k)'
      <4>1. CASE k = j
        BY <2>3, <4>1 DEF Queued, WillCallBack
      <4>2. CASE k # j
        <5>1. k \in JobsOf(entries) /\ k \in Live /\ WillCallBack(k)
          BY <1>0, <1>1, <2>7, <3>2, <4>2 DEF CallInv
        <5>2. k \in Live' /\ item'[k] = item[k]
          BY <1>0, <2>3, <4>2, <5>1 DEF Queued
        <5>3. CASE k \in QueuedJobs /\ item[k].callback
          BY <2>3, <5>2, <5>3 DEF Queued, WillCallBack
        <5>4. ASSUME NEW w \in Workers, job[w] = k, CallsBack(w) PROVE WillCallBack(k)'
          <6>1. w \notin called'
            BY <1>2, <5>1, <5>4
          <6>2. pc'[w] = pc[w]
            BY <2>3, <5>4 DEF Queued, CallsBack
          <6> QED BY <2>3, <5>2, <5>4, <6>1, <6>2 DEF Queued, WillCallBack, CallsBack
        <5> QED BY <5>1, <5>3, <5>4, WillCallBackIs
      <4> QED BY <4>1, <4>2
    <3>3. QueuedJobs' \subseteq JobsOf(handed')
      BY <1>4, <2>3, <2>7 DEF Queued
    <3>4. ASSUME NEW w \in Workers, pc'[w] \in {"work", "progress"}, item'[job'[w]].callback
          PROVE  job'[w] \in JobsOf(handed')
      <4>1. pc'[w] = pc[w] /\ job'[w] = job[w] /\ job[w] # j
        BY <2>3, <3>4 DEF Queued
      <4>2. job[w] \in Live
        BY <1>0, <3>4, <4>1 DEF Busy
      <4>3. item'[job[w]] = item[job[w]]
        BY <1>0, <2>3, <4>1, <4>2 DEF Queued
      <4> QED BY <1>5, <2>7, <3>4, <4>1, <4>3
    <3> QED BY <1>0, <3>1, <3>2, <3>3, <3>4 DEF CallInv
  <2>12. HandedInv'
    <3> SUFFICES ASSUME NEW k \in Live', owner'[k] = "queue", k \notin JobsOf(handed')
                 PROVE  Over(k)'
      BY DEF HandedInv
    <3>1. k \in Live /\ owner[k] = "queue"
      BY <1>0, <2>3, <2>7 DEF Queued
    <3>2. PICK w \in called' \cup {v \in Workers : pc[v] \in {"erase", "free"}} : job[w] = k
      BY <1>6, <2>7, <3>1
    <3>3. w \in Workers /\ job'[w] = k /\ (pc[w] \in {"erase", "free"} => pc'[w] = pc[w])
      BY <2>3, <3>2 DEF Queued
    <3> QED BY <3>2, <3>3 DEF Over
  <2> QED BY <1>7, <2>2, <2>3, <2>6, <2>8, <2>9, <2>10, <2>11, <2>12
<1>8. CASE ~(queue # <<>> /\ Len(entries) < m_jobsAtOnce)
  <2>1. handed' = entries /\ waiting' = queue /\ UNCHANGED vars
    BY <1>8 DEF QueueNextJob
  <2>2. /\ IInv' /\ Live' = Live /\ QueuedJobs' = QueuedJobs /\ pc' = pc /\ job' = job
        /\ copy' = copy /\ item' = item /\ life' = life
    BY <1>0, <2>1, IInvStep DEF vars, mvars, tvars, Live, QueuedJobs
  <2>3. WaitingInv'
    BY <2>1, <2>2 DEF WaitingInv
  <2>4. EntryInv'
    BY <1>0, <1>1, <2>1, <2>2 DEF EntryInv
  <2>5. IdInv'
    BY <1>0, <2>1, <2>2 DEF IdInv
  <2>6. CallInv'
    <3>1. ASSUME NEW k \in JobsOf(entries) PROVE WillCallBack(k)'
      <4>1. k \in Live /\ WillCallBack(k)
        BY <1>0, <1>1 DEF CallInv
      <4>2. ASSUME NEW w \in Workers, job[w] = k, CallsBack(w) PROVE WillCallBack(k)'
        <5>1. w \notin called'
          BY <1>2, <4>2
        <5> QED BY <2>2, <4>1, <4>2, <5>1 DEF WillCallBack, CallsBack
      <4> QED BY <2>2, <4>1, <4>2, WillCallBackIs DEF WillCallBack
    <3> QED BY <1>0, <1>4, <1>5, <2>1, <2>2, <3>1 DEF CallInv
  <2>7. HandedInv'
    BY <1>0, <1>6, <2>1, <2>2 DEF HandedInv, Over
  <2> QED BY <1>0, <1>8, <2>1, <2>2, <2>3, <2>4, <2>5, <2>6, <2>7
<1> QED BY <1>7, <1>8

(* A slot is owed for, whichever of the two things QueueNextJob does.      *)
LEMMA HandOverSlots ==
  ASSUME QIInv, NEW queue \in Seq(Jobs), NEW entries \in Seq(Entries),
         waiting' \in Seq(Jobs), handed' \in Seq(Entries),
         \/ /\ queue # <<>> /\ Len(entries) < m_jobsAtOnce
            /\ Len(waiting') = Len(queue) - 1 /\ Len(handed') = Len(entries) + 1
         \/ /\ queue = <<>> \/ Len(entries) >= m_jobsAtOnce
            /\ waiting' = queue /\ handed' = entries,
         \/ Len(queue) = Len(waiting) + 1 /\ Len(entries) = Len(handed)
         \/ queue = waiting /\ Len(entries) \in {Len(handed) - 1, Len(handed)},
         Released(IF Len(handed') > Len(handed) THEN released - 1 ELSE released)
  PROVE  SlotInv' /\ released' \in 0..m_jobsAtOnce
<1>1. /\ waiting \in Seq(Jobs) /\ handed \in Seq(Entries)
      /\ Len(handed) <= m_jobsAtOnce /\ m_jobsAtOnce \in Nat \ {0}
      /\ waiting # <<>> => m_jobsAtOnce - Len(handed) = released
      /\ waiting = <<>> => released = 0
      /\ released \in Int
  BY QParts, QueueAssumption DEF QTypeOK, EntryInv, SlotInv, NoIdleSlot
<1>2. \A s \in Seq(Jobs) : Len(s) \in Nat /\ (s = <<>> <=> Len(s) = 0)
  BY EmptySeq
<1>3. Len(entries) \in Nat /\ Len(handed) \in Nat /\ Len(handed') \in Nat
  BY <1>1
<1>4. CASE waiting' = <<>>
  BY <1>1, <1>4 DEF Released, SlotInv, NoIdleSlot
<1>5. CASE waiting' # <<>>
  <2>1. released' = IF Len(handed') > Len(handed) THEN released - 1 ELSE released
    BY <1>5 DEF Released
  <2>2. released' = m_jobsAtOnce - Len(handed') /\ Len(handed') <= m_jobsAtOnce
    <3>1. CASE Len(queue) = Len(waiting) + 1 /\ Len(entries) = Len(handed)
      BY <1>1, <1>2, <1>3, <1>5, <2>1, <3>1
    <3>2. CASE queue = waiting /\ Len(entries) \in {Len(handed) - 1, Len(handed)}
      <4>1. waiting # <<>>
        BY <1>1, <1>2, <1>5, <3>2
      <4>2. m_jobsAtOnce - Len(handed) = released /\ released \in Int
        BY <1>1, <4>1
      <4>3. /\ m_jobsAtOnce \in Nat /\ Len(handed) <= m_jobsAtOnce /\ Len(handed) \in Nat
            /\ Len(entries) \in Nat /\ Len(handed') \in Nat
            /\ Len(entries) = Len(handed) - 1 \/ Len(entries) = Len(handed)
        BY <1>1, <1>3, <3>2
      <4>4. \/ Len(entries) < m_jobsAtOnce /\ Len(handed') = Len(entries) + 1
            \/ Len(entries) >= m_jobsAtOnce /\ Len(handed') = Len(entries)
        BY <3>2, <4>1
      <4>5. CASE Len(handed') > Len(handed)
        <5>1. Len(handed') = Len(handed) + 1 /\ Len(handed) < m_jobsAtOnce
          BY <4>3, <4>4, <4>5
        <5>2. released' = released - 1
          BY <2>1, <4>5
        <5> QED BY <4>2, <4>3, <5>1, <5>2
      <4>6. CASE ~(Len(handed') > Len(handed))
        <5>1. Len(handed') = Len(handed)
          BY <4>3, <4>4, <4>6
        <5>2. released' = released
          BY <2>1, <4>6
        <5> QED BY <4>2, <4>3, <5>1, <5>2
      <4> QED BY <4>5, <4>6
    <3> QED BY <3>1, <3>2
  <2> QED BY <1>1, <1>3, <1>5, <2>2 DEF SlotInv, NoIdleSlot
<1> QED BY <1>4, <1>5

LEMMA QAddJobStep ==
  ASSUME QIInv, NEW j \in Jobs, QAddJob(j)
  PROVE  QIInv'
<1>q. PICK queue : queue = IF m_lifo THEN Append(waiting, j) ELSE <<j>> \o waiting
  OBVIOUS
<1>0. /\ QTypeOK /\ WaitingInv /\ EntryInv /\ handed \in Seq(Entries)
      /\ Len(handed) \in Nat /\ waiting \in Seq(Jobs) /\ owner[j] = "client"
      /\ ~locked /\ UNCHANGED <<cancelling, locked, called>>
      /\ owner' = [owner EXCEPT ![j] = "queue"]
      /\ Released(IF Len(handed') > Len(handed) THEN released - 1 ELSE released)
      /\ QueueNextJob(queue, handed)
  BY <1>q, QParts DEF QAddJob, QTypeOK
<1>1. /\ queue \in Seq(Jobs) /\ Len(queue) = Len(waiting) + 1
      /\ ToSet(queue) = ToSet(waiting) \cup {j} /\ IsInjective(queue)
  <2>1. j \notin ToSet(waiting) /\ IsInjective(waiting)
    BY <1>0 DEF WaitingInv
  <2>2. Len(Append(waiting, j)) = Len(waiting) + 1
    BY <1>0
  <2>3. CASE m_lifo
    BY <1>q, <1>0, <2>1, <2>2, <2>3, AppendElements
  <2>4. CASE ~m_lifo
    BY <1>q, <1>0, <2>1, <2>4, PrependElements
  <2> QED BY <2>3, <2>4
<1>2. /\ owner' \in [Jobs -> {"client", "queue", "cancelled", "deleted"}]
      /\ owner'[j] = "queue" /\ \A k \in Jobs \ {j} : owner'[k] = owner[k]
      /\ life[j] = "new"
  BY <1>0 DEF QTypeOK, WaitingInv
<1>3. \A k \in ToSet(queue) : life[k] = "new" /\ owner'[k] = "queue"
  <2>1. \A k \in ToSet(waiting) : k \in Jobs
    BY <1>0 DEF ToSet
  <2> QED BY <1>0, <1>1, <1>2, <2>1 DEF WaitingInv
<1>4. \A k \in Jobs : owner'[k] = "client" => life[k] = "new" /\ k \notin ToSet(queue)
  BY <1>0, <1>1, <1>2 DEF WaitingInv
<1>5. \A k \in Jobs : life[k] # "new" => owner'[k] = owner[k]
  BY <1>2
<1>6. Distinct(handed) /\ called \subseteq Workers /\ \A w \in called : pc[w] = "callback"
  BY <1>0, QParts DEF EntryInv, QTypeOK, CallInv
<1>7. /\ IInv' /\ WaitingInv' /\ EntryInv' /\ IdInv' /\ CallInv' /\ HandedInv'
      /\ waiting' \in Seq(Jobs) /\ handed' \in Seq(Entries)
      /\ \/ /\ queue # <<>> /\ Len(handed) < m_jobsAtOnce
            /\ Len(waiting') = Len(queue) - 1 /\ Len(handed') = Len(handed) + 1
         \/ /\ queue = <<>> \/ Len(handed) >= m_jobsAtOnce
            /\ waiting' = queue /\ handed' = handed
  BY <1>0, <1>1, <1>3, <1>4, <1>5, <1>6, HandOver
<1>8. SlotInv' /\ released' \in 0..m_jobsAtOnce
  BY <1>0, <1>1, <1>7, HandOverSlots
<1>9. QTypeOK'
  BY <1>0, <1>2, <1>7, <1>8 DEF QTypeOK, Entries
<1> QED BY <1>7, <1>8, <1>9 DEF QIInv

LEMMA QOnJobCompleteStep ==
  ASSUME QIInv, NEW w \in Workers, QOnJobComplete(w)
  PROVE  QIInv'
<1>e. PICK entries : entries = Without(handed, job[w])
  OBVIOUS
<1>0. /\ QTypeOK /\ WaitingInv /\ EntryInv /\ CallInv /\ handed \in Seq(Entries)
      /\ Len(handed) \in Nat /\ waiting \in Seq(Jobs) /\ pc[w] = "callback"
      /\ ~locked /\ UNCHANGED <<cancelling, locked, owner>> /\ called' = called \cup {w}
      /\ Released(IF Len(handed') > Len(handed) THEN released - 1 ELSE released)
      /\ QueueNextJob(waiting, entries)
  BY <1>e, QParts DEF QOnJobComplete, QTypeOK
<1>1. /\ entries \in Seq(Entries) /\ Distinct(entries)
      /\ ToSet(entries) \subseteq ToSet(handed)
      /\ JobsOf(entries) = JobsOf(handed) \ {job[w]}
      /\ Len(entries) \in {Len(handed) - 1, Len(handed)}
  BY <1>e, <1>0, WithoutIs DEF EntryInv
<1>2. /\ IsInjective(waiting)
      /\ \A j \in ToSet(waiting) : life[j] = "new" /\ owner'[j] = "queue"
      /\ \A j \in Jobs : owner'[j] = "client" => life[j] = "new" /\ j \notin ToSet(waiting)
  BY <1>0 DEF WaitingInv
<1>3. /\ called \subseteq called' /\ called' \subseteq Workers
      /\ \A v \in called' : pc[v] = "callback"
      /\ \A v \in called' \ called : job[v] \notin JobsOf(entries)
      /\ \A j \in JobsOf(handed) \ JobsOf(entries) : \E v \in called' : job[v] = j
  BY <1>0, <1>1 DEF QTypeOK, CallInv
<1>4. \A j \in Jobs : life[j] # "new" => owner'[j] = owner[j]
  BY <1>0
<1>5. /\ IInv' /\ WaitingInv' /\ EntryInv' /\ IdInv' /\ CallInv' /\ HandedInv'
      /\ waiting' \in Seq(Jobs) /\ handed' \in Seq(Entries)
      /\ \/ /\ waiting # <<>> /\ Len(entries) < m_jobsAtOnce
            /\ Len(waiting') = Len(waiting) - 1 /\ Len(handed') = Len(entries) + 1
         \/ /\ waiting = <<>> \/ Len(entries) >= m_jobsAtOnce
            /\ waiting' = waiting /\ handed' = entries
  BY <1>0, <1>1, <1>2, <1>3, <1>4, HandOver
<1>6. SlotInv' /\ released' \in 0..m_jobsAtOnce
  BY <1>0, <1>1, <1>5, HandOverSlots
<1>7. QTypeOK'
  BY <1>0, <1>3, <1>5, <1>6 DEF QTypeOK, Entries
<1> QED BY <1>5, <1>6, <1>7 DEF QIInv

LEMMA QCancelHandedStep ==
  ASSUME QIInv, NEW j \in Jobs, QCancelHanded(j)
  PROVE  QIInv'
<1>1. PICK i \in DOMAIN handed : handed[i].job = j /\ CancelEntry(handed[i])
  BY DEF QCancelHanded
<1>e. PICK e : e = handed[i]
  OBVIOUS
<1>0. /\ QTypeOK /\ WaitingInv /\ EntryInv /\ HandedInv /\ SlotInv
      /\ handed \in Seq(Entries) /\ Len(handed) \in Nat /\ waiting \in Seq(Jobs)
      /\ Live \subseteq Jobs
      /\ ~locked /\ UNCHANGED <<waiting, cancelling, locked, called>>
      /\ handed' = Without(handed, j) /\ owner' = [owner EXCEPT ![j] = "cancelled"]
      /\ Released(released + 1)
      /\ e \in ToSet(handed) /\ e.job = j /\ CancelEntry(e) /\ j \in JobsOf(handed)
      /\ Pending = handed /\ Pending' = handed'
  BY <1>1, <1>e, QParts DEF QCancelHanded, QTypeOK, ToSet, JobsOf, Pending
<1>2. /\ handed' \in Seq(Entries) /\ Distinct(handed')
      /\ ToSet(handed') = ToSet(handed) \ {e}
      /\ JobsOf(handed') = JobsOf(handed) \ {j}
      /\ Len(handed') = Len(handed) - 1
  BY <1>0, WithoutIs DEF EntryInv, Distinct
<1>3. /\ IInv' /\ IdInv' /\ CallInv'
      /\ Live' \subseteq Live
      /\ \A k \in Jobs : life'[k] = "new" <=> life[k] = "new"
      /\ \A k : Over(k)' <=> Over(k)
  BY <1>0, <1>2, CancelStep
<1>4. /\ owner' \in [Jobs -> {"client", "queue", "cancelled", "deleted"}]
      /\ owner'[j] = "cancelled" /\ \A k \in Jobs \ {j} : owner'[k] = owner[k]
      /\ life[j] # "new" /\ j \notin ToSet(waiting)
  BY <1>0 DEF QTypeOK, WaitingInv, EntryInv
<1>5. WaitingInv'
  <2>1. \A k \in ToSet(waiting) : k \in Jobs
    BY <1>0 DEF ToSet
  <2> QED BY <1>0, <1>3, <1>4, <2>1 DEF WaitingInv
<1>6. EntryInv'
  <2>1. JobsOf(handed) \subseteq Jobs
    BY <1>0, QParts
  <2>2. Len(handed') <= m_jobsAtOnce
    BY <1>0, <1>2, QueueAssumption DEF EntryInv
  <2> QED BY <1>0, <1>2, <1>3, <2>1, <2>2 DEF EntryInv
<1>7. HandedInv'
  BY <1>0, <1>2, <1>3, <1>4 DEF HandedInv
<1>8. SlotInv' /\ released' \in 0..m_jobsAtOnce
  <2>1. m_jobsAtOnce \in Nat /\ Len(handed) <= m_jobsAtOnce /\ Len(handed') \in Nat
    BY <1>0, <1>2, QueueAssumption DEF EntryInv
  <2>2. CASE waiting = <<>>
    <3>1. waiting' = <<>> /\ released' = 0
      BY <1>0, <2>2 DEF Released
    <3> QED BY <2>1, <3>1 DEF SlotInv, NoIdleSlot
  <2>3. CASE waiting # <<>>
    <3>1. waiting' # <<>> /\ released' = released + 1 /\ released = m_jobsAtOnce - Len(handed)
      BY <1>0, <2>3 DEF Released, SlotInv, NoIdleSlot
    <3>2. released' = m_jobsAtOnce - Len(handed')
      BY <1>0, <1>2, <2>1, <3>1
    <3>3. released' \in 0..m_jobsAtOnce
      BY <1>0, <1>2, <2>1, <3>2
    <3> QED BY <3>1, <3>2, <3>3 DEF SlotInv, NoIdleSlot
  <2> QED BY <2>2, <2>3
<1>9. QTypeOK'
  BY <1>0, <1>2, <1>4, <1>8 DEF QTypeOK, Entries
<1> QED BY <1>3, <1>5, <1>6, <1>7, <1>8, <1>9 DEF QIInv

(* The manager does nothing.                                               *)
LEMMA ManagerRests ==
  ASSUME QIInv, UNCHANGED vars
  PROVE  /\ IInv' /\ Live' = Live /\ QueuedJobs' = QueuedJobs /\ pc' = pc /\ job' = job
         /\ copy' = copy /\ item' = item /\ life' = life
         /\ \A j : called' = called => (WillCallBack(j)' <=> WillCallBack(j))
         /\ \A j : called' = called => (Over(j)' <=> Over(j))
<1>1. /\ IInv' /\ Live' = Live /\ QueuedJobs' = QueuedJobs /\ pc' = pc /\ job' = job
      /\ copy' = copy /\ item' = item /\ life' = life
  BY QParts, IInvStep DEF vars, mvars, tvars, Live, QueuedJobs
<1> QED BY <1>1 DEF WillCallBack, Over

LEMMA QCancelWaitingStep ==
  ASSUME QIInv, NEW j \in Jobs, QCancelWaiting(j)
  PROVE  QIInv'
<1>1. PICK i \in DOMAIN waiting : waiting[i] = j /\ waiting' = RemoveAt(waiting, i)
  BY DEF QCancelWaiting
<1>0. /\ QTypeOK /\ WaitingInv /\ EntryInv /\ IdInv /\ CallInv /\ HandedInv /\ SlotInv
      /\ waiting \in Seq(Jobs) /\ Live \subseteq Jobs
      /\ ~locked /\ UNCHANGED <<vars, handed, cancelling, locked, called>>
      /\ owner' = [owner EXCEPT ![j] = "deleted"] /\ Released(released)
      /\ Pending' = Pending
  BY QParts DEF QCancelWaiting, QTypeOK, Pending
<1>2. /\ waiting' \in Seq(Jobs) /\ ToSet(waiting') = ToSet(waiting) \ {j}
      /\ IsInjective(waiting') /\ waiting # <<>>
  BY <1>0, <1>1, RemoveAtElements DEF WaitingInv
<1>3. j \in ToSet(waiting) /\ life[j] = "new" /\ j \notin Live
  BY <1>0, <1>1 DEF ToSet, WaitingInv, Live
<1>4. /\ IInv' /\ Live' = Live /\ QueuedJobs' = QueuedJobs /\ pc' = pc /\ job' = job
      /\ copy' = copy /\ item' = item /\ life' = life
      /\ \A k : WillCallBack(k)' <=> WillCallBack(k)
      /\ \A k : Over(k)' <=> Over(k)
  BY <1>0, ManagerRests
<1>5. /\ owner' \in [Jobs -> {"client", "queue", "cancelled", "deleted"}]
      /\ owner'[j] = "deleted" /\ \A k \in Jobs \ {j} : owner'[k] = owner[k]
  BY <1>0 DEF QTypeOK
<1>6. WaitingInv'
  <2>1. \A k \in ToSet(waiting) : k \in Jobs
    BY <1>0 DEF ToSet
  <2> QED BY <1>0, <1>2, <1>4, <1>5, <2>1 DEF WaitingInv
<1>7. EntryInv' /\ IdInv'
  BY <1>0, <1>4 DEF EntryInv, IdInv
<1>8. CallInv' /\ HandedInv'
  <2>1. CallInv'
    BY <1>0, <1>4 DEF CallInv
  <2>2. HandedInv'
    BY <1>0, <1>3, <1>4, <1>5 DEF HandedInv
  <2> QED BY <2>1, <2>2
<1>9. SlotInv' /\ released' \in 0..m_jobsAtOnce
  BY <1>0, <1>2, QueueAssumption DEF SlotInv, NoIdleSlot, Released, QTypeOK
<1>10. QTypeOK'
  BY <1>0, <1>2, <1>5, <1>9 DEF QTypeOK
<1> QED BY <1>4, <1>6, <1>7, <1>8, <1>9, <1>10 DEF QIInv

LEMMA QCancelJobsStep ==
  ASSUME QIInv, QCancelJobs
  PROVE  QIInv'
<1>0. /\ QTypeOK /\ WaitingInv /\ EntryInv /\ IdInv /\ CallInv /\ HandedInv /\ SlotInv
      /\ ~locked /\ locked' /\ cancelling' = handed
      /\ UNCHANGED <<vars, waiting, handed, called, owner, released>>
      /\ Pending' = Pending
  BY QParts DEF QCancelJobs, Pending
<1>1. /\ IInv' /\ Live' = Live /\ QueuedJobs' = QueuedJobs /\ pc' = pc /\ job' = job
      /\ copy' = copy /\ item' = item /\ life' = life
      /\ \A k : WillCallBack(k)' <=> WillCallBack(k)
      /\ \A k : Over(k)' <=> Over(k)
  BY <1>0, ManagerRests
<1>2. QTypeOK' /\ WaitingInv' /\ EntryInv' /\ IdInv' /\ SlotInv'
  BY <1>0, <1>1 DEF QCancelJobs, QTypeOK, WaitingInv, EntryInv, IdInv, SlotInv, NoIdleSlot
<1>3. CallInv' /\ HandedInv'
  BY <1>0, <1>1 DEF CallInv, HandedInv
<1> QED BY <1>1, <1>2, <1>3 DEF QIInv

LEMMA QCancelNextStep ==
  ASSUME QIInv, QCancelNext
  PROVE  QIInv'
<1>e. PICK e : e = Head(cancelling)
  OBVIOUS
<1>0. /\ QTypeOK /\ WaitingInv /\ EntryInv /\ HandedInv /\ SlotInv
      /\ cancelling \in Seq(Entries) /\ cancelling # <<>>
      /\ Live \subseteq Jobs /\ locked /\ CancelEntry(e)
      /\ cancelling' = Tail(cancelling)
      /\ owner' = [owner EXCEPT ![e.job] = "cancelled"]
      /\ UNCHANGED <<waiting, handed, locked, called, released>>
      /\ Pending = cancelling /\ Pending' = cancelling'
      /\ JobsOf(Pending) \subseteq Live
  BY <1>e, QParts DEF QCancelNext, Pending
<1>1. /\ cancelling' \in Seq(Entries) /\ e \in ToSet(cancelling)
      /\ ToSet(cancelling') = ToSet(cancelling) \ {e} /\ IsInjective(cancelling')
  BY <1>e, <1>0, TailElements DEF EntryInv, Distinct
<1>2. /\ IInv' /\ IdInv' /\ CallInv'
      /\ Live' \subseteq Live
      /\ \A k \in Jobs : life'[k] = "new" <=> life[k] = "new"
      /\ \A k : Over(k)' <=> Over(k)
  BY <1>0, <1>1, CancelStep
<1>3. /\ JobsOf(cancelling) \subseteq JobsOf(cancelling') \cup {e.job} /\ e.job \in Live
      /\ Distinct(cancelling')
  <2>1. /\ JobsOf(cancelling) = {d.job : d \in ToSet(cancelling)}
        /\ JobsOf(cancelling') = {d.job : d \in ToSet(cancelling')}
    BY JobsOfIs
  <2> QED BY <1>0, <1>1, <2>1 DEF EntryInv, Distinct
<1>4. /\ owner' \in [Jobs -> {"client", "queue", "cancelled", "deleted"}]
      /\ owner'[e.job] = "cancelled" /\ \A k \in Jobs \ {e.job} : owner'[k] = owner[k]
      /\ life[e.job] # "new"
  BY <1>0, <1>3 DEF QTypeOK, Live
<1>5. WaitingInv'
  <2>1. \A k \in ToSet(waiting) : k \in Jobs
    BY <1>0 DEF ToSet, QTypeOK
  <2> QED BY <1>0, <1>2, <1>4, <2>1 DEF WaitingInv
<1>6. EntryInv'
  <2>1. JobsOf(handed) \subseteq Jobs
    BY QParts
  <2>2. \A k \in JobsOf(handed) : k \in JobsOf(cancelling') \/ owner'[k] = "cancelled"
    BY <1>0, <1>3, <1>4, <2>1 DEF EntryInv
  <2> QED BY <1>0, <1>2, <1>3, <2>1, <2>2 DEF EntryInv
<1>7. HandedInv'
  BY <1>0, <1>2, <1>4 DEF HandedInv
<1>8. SlotInv' /\ QTypeOK'
  BY <1>0, <1>1, <1>4 DEF SlotInv, NoIdleSlot, QTypeOK, Entries
<1> QED BY <1>2, <1>5, <1>6, <1>7, <1>8 DEF QIInv

LEMMA QCancelDoneStep ==
  ASSUME QIInv, QCancelDone
  PROVE  QIInv'
<1>0. /\ QTypeOK /\ WaitingInv /\ EntryInv /\ IdInv /\ CallInv /\ HandedInv /\ SlotInv
      /\ Live \subseteq Jobs
      /\ locked /\ cancelling = <<>> /\ locked' = FALSE /\ waiting' = <<>> /\ handed' = <<>>
      /\ released' = 0
      /\ owner' = [j \in Jobs |-> IF j \in ToSet(waiting) THEN "deleted" ELSE owner[j]]
      /\ UNCHANGED <<vars, cancelling, called>>
      /\ Pending = <<>> /\ Pending' = <<>>
  BY QParts DEF QCancelDone, Pending
<1>1. /\ IInv' /\ Live' = Live /\ QueuedJobs' = QueuedJobs /\ pc' = pc /\ job' = job
      /\ copy' = copy /\ item' = item /\ life' = life
      /\ \A k : WillCallBack(k)' <=> WillCallBack(k)
      /\ \A k : Over(k)' <=> Over(k)
  BY <1>0, ManagerRests
<1>2. /\ ToSet(<<>>) = {} /\ JobsOf(<<>>) = {} /\ Distinct(<<>>) /\ Len(<<>>) = 0
  BY DEF ToSet, JobsOf, Distinct, IsInjective
<1>3. WaitingInv'
  <2>1. \A k \in Jobs : owner'[k] = "client" => owner[k] = "client"
    BY <1>0
  <2> QED BY <1>0, <1>1, <1>2, <2>1 DEF WaitingInv, Distinct
<1>4. EntryInv' /\ IdInv'
  BY <1>0, <1>1, <1>2, QueueAssumption DEF EntryInv, IdInv
<1>5. CallInv'
  BY <1>0, <1>1 DEF CallInv
<1>6. HandedInv'
  <2> SUFFICES ASSUME NEW j \in Live, owner'[j] = "queue" PROVE Over(j)
    BY <1>1 DEF HandedInv
  <2>1. owner[j] = "queue" /\ (j \in JobsOf(handed) \/ Over(j))
    BY <1>0 DEF HandedInv
  <2>2. j \notin JobsOf(handed)
    BY <1>0, <1>2, <2>1 DEF EntryInv
  <2> QED BY <2>1, <2>2
<1>7. SlotInv' /\ QTypeOK'
  <2>1. SlotInv' /\ released' \in 0..m_jobsAtOnce
    BY <1>0, QueueAssumption DEF SlotInv, NoIdleSlot
  <2>2. owner' \in [Jobs -> {"client", "queue", "cancelled", "deleted"}]
    BY <1>0 DEF QTypeOK
  <2>3. waiting' \in Seq(Jobs) /\ handed' \in Seq([job : Jobs, id : 1..MaxId])
    BY <1>0
  <2> QED BY <1>0, <2>1, <2>2, <2>3 DEF QTypeOK
<1> QED BY <1>1, <1>3, <1>4, <1>5, <1>6, <1>7 DEF QIInv

(* A worker's step that is not OnJobComplete's: the jobs it still calls    *)
(* back for, it calls back for afterwards.                                 *)
LEMMA QWorkerMoves ==
  ASSUME QIInv, NEW w \in Workers, UNCHANGED qvars, IInv',
         (WorkerStep(w) /\ ~CallbackReturn(w)) \/ DoWork(w)
  PROVE  /\ item' = item /\ Live' \subseteq Live
         /\ \A j \in Jobs : life'[j] = "new" <=> life[j] = "new"
         /\ \A v \in called : pc'[v] = "callback"
         /\ \A j \in Jobs : WillCallBack(j) => WillCallBack(j)'
         /\ QueuedJobs' \subseteq QueuedJobs
         /\ \A v \in Workers : pc'[v] \in {"work", "progress"} /\ item[job'[v]].callback
              => \/ job'[v] \in QueuedJobs
                 \/ pc[v] \in {"work", "progress"} /\ job'[v] = job[v]
         /\ \A j \in Live' : Over(j) => Over(j)'
<1>0. /\ IInv /\ TypeOK /\ CallInv /\ QueuedJobs \subseteq Live /\ Live \subseteq Jobs
      /\ \A v \in Workers : job[v] # NoJob => job[v] \in Live /\ job[v] \notin QueuedJobs
      /\ \A v \in Workers : pc[v] \in Busy \cup {"free"} => job[v] # NoJob
      /\ \A v \in Workers : job[v] # NoJob => pc[v] \in Busy \cup {"free"}
      /\ \A u, v \in Workers : job[u] = job[v] /\ job[u] # NoJob => u = v
      /\ NoJob \notin Jobs /\ called \subseteq Workers /\ called' = called
      /\ \A v \in called : pc[v] = "callback"
  BY QParts DEF IInv, HoldInv, CallInv, QTypeOK, qvars
<1>1. CASE TakeJob(w)
  <2>1. PICK p \in Poppable :
          /\ m_jobQueue' = [m_jobQueue EXCEPT ![p] = Tail(@)]
          /\ job' = [job EXCEPT ![w] = Head(m_jobQueue[p])]
    BY <1>1 DEF TakeJob, PopJob
  <2>j. PICK j : j = Head(m_jobQueue[p])
    OBVIOUS
  <2>2. /\ pc[w] \in {"getjob", "timedout"} /\ pc' = [pc EXCEPT ![w] = "work"]
        /\ UNCHANGED <<item, life, copy>>
    BY <1>1 DEF TakeJob, Goto
  <2>3. p \in Priorities /\ m_jobQueue[p] \in Seq(Jobs) /\ m_jobQueue[p] # <<>>
        /\ IsInjective(m_jobQueue[p])
    BY <1>0 DEF Poppable, IInv, TypeOK, QueueInv
  <2>4. j \in ToSet(m_jobQueue[p]) /\ ToSet(Tail(m_jobQueue[p])) = ToSet(m_jobQueue[p]) \ {j}
    BY <2>j, <2>3, TailElements
  <2>5. \A q \in Priorities \ {p} : m_jobQueue'[q] = m_jobQueue[q]
    BY <1>0, <2>1 DEF TypeOK
  <2>6. m_jobQueue'[p] = Tail(m_jobQueue[p])
    BY <1>0, <2>1, <2>3 DEF TypeOK
  <2>7. /\ j \in QueuedJobs /\ QueuedJobs' \subseteq QueuedJobs
        /\ \A k \in QueuedJobs \ {j} : k \in QueuedJobs'
    BY <2>3, <2>4, <2>5, <2>6 DEF QueuedJobs
  <2>8. /\ Live' = Live /\ job[w] = NoJob /\ job'[w] = j /\ pc'[w] = "work"
        /\ \A v \in Workers \ {w} : job'[v] = job[v] /\ pc'[v] = pc[v]
        /\ w \notin called /\ j \in Jobs
    BY <1>0, <2>j, <2>1, <2>2, <2>7 DEF Live, TypeOK, Busy
  <2>9. ASSUME NEW k \in Jobs, WillCallBack(k) PROVE WillCallBack(k)'
    <3>0. k \in Live
      BY <2>9 DEF WillCallBack
    <3>1. CASE k = j
      <4>1. item[k].callback
        BY <1>0, <2>7, <2>9, <3>1 DEF WillCallBack, Busy
      <4> QED BY <1>0, <2>2, <2>8, <3>0, <3>1, <4>1 DEF WillCallBack
    <3>2. CASE k # j /\ k \in QueuedJobs /\ item[k].callback
      BY <2>2, <2>7, <2>8, <3>0, <3>2 DEF WillCallBack
    <3>3. ASSUME NEW v \in Workers, job[v] = k, CallsBack(v) PROVE WillCallBack(k)'
      <4>1. v # w
        BY <1>0, <2>8, <3>3
      <4> QED BY <1>0, <2>2, <2>8, <3>0, <3>3, <4>1 DEF WillCallBack, CallsBack
    <3> QED BY <2>9, <3>1, <3>2, <3>3, WillCallBackIs
  <2>10. ASSUME NEW k \in Live', Over(k) PROVE Over(k)'
    <3>1. PICK v \in called \cup {u \in Workers : pc[u] \in {"erase", "free"}} : job[v] = k
      BY <2>10 DEF Over
    <3>2. v \in Workers /\ v # w
      BY <1>0, <2>2, <3>1
    <3> QED BY <1>0, <2>8, <3>1, <3>2 DEF Over
  <2>11. \A v \in called : pc'[v] = "callback"
    BY <1>0, <2>8
  <2>12. ASSUME NEW v \in Workers, pc'[v] \in {"work", "progress"}
         PROVE  job'[v] \in QueuedJobs \/ (pc[v] \in {"work", "progress"} /\ job'[v] = job[v])
    BY <2>7, <2>8, <2>12
  <2> QED BY <2>2, <2>7, <2>8, <2>9, <2>10, <2>11, <2>12
<1>2. CASE FreeJob(w)
  <2>1. /\ pc[w] = "free" /\ pc'[w] = "getjob" /\ job'[w] = NoJob
        /\ \A v \in Workers \ {w} : pc'[v] = pc[v] /\ job'[v] = job[v] /\ copy'[v] = copy[v]
        /\ life' = AfterFree({job[w]}) /\ item' = item /\ m_jobQueue' = m_jobQueue
    BY <1>0, <1>2 DEF FreeJob, Goto, mvars, TypeOK
  <2>2. /\ Live' = Live \ {job[w]} /\ job[w] \in Live /\ QueuedJobs' = QueuedJobs
        /\ \A j \in Jobs : life'[j] = "new" <=> life[j] = "new"
    BY <1>0, <2>1 DEF Live, AfterFree, QueuedJobs
  <2>3. w \notin called /\ \A v \in called : pc'[v] = "callback"
    BY <1>0, <2>1
  <2>4. ASSUME NEW k \in Jobs, WillCallBack(k) PROVE WillCallBack(k)'
    <3>1. ~CallsBack(w)
      BY <2>1 DEF CallsBack
    <3>2. k # job[w]
      BY <1>0, <2>1, <2>2, <2>4, <3>1, WillCallBackIs
    <3>3. k \in Live'
      BY <2>2, <2>4, <3>2 DEF WillCallBack
    <3>4. ASSUME NEW v \in Workers, job[v] = k, CallsBack(v) PROVE WillCallBack(k)'
      BY <1>0, <2>1, <3>1, <3>3, <3>4 DEF WillCallBack, CallsBack
    <3> QED BY <2>1, <2>2, <2>4, <3>3, <3>4, WillCallBackIs DEF WillCallBack
  <2>5. ASSUME NEW k \in Live', Over(k) PROVE Over(k)'
    <3>1. PICK v \in called \cup {u \in Workers : pc[u] \in {"erase", "free"}} : job[v] = k
      BY <2>5 DEF Over
    <3>2. v \in Workers /\ v # w
      BY <1>0, <2>2, <2>5, <3>1
    <3> QED BY <1>0, <2>1, <3>1, <3>2 DEF Over
  <2>6. ASSUME NEW v \in Workers, pc'[v] \in {"work", "progress"}
        PROVE  pc[v] \in {"work", "progress"} /\ job'[v] = job[v]
    BY <2>1, <2>6
  <2> QED BY <2>1, <2>2, <2>3, <2>4, <2>5, <2>6
<1>3. ASSUME ~TakeJob(w), ~FreeJob(w)
      PROVE  /\ item' = item /\ Live' = Live /\ life' = life /\ job' = job
             /\ QueuedJobs' = QueuedJobs
             /\ \A v \in Workers \ {w} : pc'[v] = pc[v] /\ copy'[v] = copy[v]
             /\ CallsBack(w) => CallsBack(w)'
             /\ w \notin called
             /\ pc'[w] \in {"work", "progress"} => pc[w] \in {"work", "progress"}
             /\ pc[w] \in {"erase", "free"} => pc'[w] \in {"erase", "free"}
  <2>1. /\ item' = item /\ life' = life /\ job' = job /\ m_jobQueue' = m_jobQueue
    BY <1>3 DEF WorkerStep, DoWork, FindNoJob, StartWait, Wake, TimeOut, Retire, EndWorker,
       ProgressReturn, Notify, CallbackReturn, EraseJob, ReportProgress, CompleteWork, mvars
  <2>2. QueuedJobs' = QueuedJobs /\ Live' = Live
    BY <2>1 DEF QueuedJobs, Live
  <2>3. /\ \A v \in Workers \ {w} : pc'[v] = pc[v] /\ copy'[v] = copy[v]
        /\ w \notin called
        /\ pc'[w] \in {"work", "progress"} => pc[w] \in {"work", "progress"}
        /\ pc[w] \in {"erase", "free"} => pc'[w] \in {"erase", "free"}
    BY <1>0, <1>3 DEF WorkerStep, DoWork, FindNoJob, StartWait, Wake, TimeOut, Retire,
       EndWorker, ProgressReturn, Notify, CallbackReturn, EraseJob, ReportProgress,
       CompleteWork, Goto, TypeOK
  <2>4. CallsBack(w) => CallsBack(w)'
    <3>1. CASE FindNoJob(w) \/ StartWait(w) \/ Wake(w) \/ TimeOut(w) \/ Retire(w)
               \/ EndWorker(w) \/ EraseJob(w)
      BY <3>1 DEF CallsBack, FindNoJob, StartWait, Wake, TimeOut, Retire, EndWorker, EraseJob
    <3>2. CASE ReportProgress(w) \/ ProgressReturn(w)
      BY <1>0, <2>1, <3>2 DEF CallsBack, ReportProgress, ProgressReturn, Goto, TypeOK
    <3>3. CASE CompleteWork(w)
      BY <1>0, <2>1, <3>3 DEF CallsBack, CompleteWork, Goto, TypeOK
    <3>4. CASE Notify(w)
      BY <1>0, <2>1, <3>4 DEF CallsBack, Notify, Goto, TypeOK
    <3> QED BY <1>3, <3>1, <3>2, <3>3, <3>4 DEF WorkerStep, DoWork
  <2> QED BY <2>1, <2>2, <2>3, <2>4
<1>4. CASE ~TakeJob(w) /\ ~FreeJob(w)
  <2>1. \A v \in Workers : CallsBack(v) => CallsBack(v)'
    BY <1>0, <1>3, <1>4 DEF CallsBack
  <2>2. ASSUME NEW k \in Jobs, WillCallBack(k) PROVE WillCallBack(k)'
    <3>1. k \in Live'
      BY <1>3, <1>4, <2>2 DEF WillCallBack
    <3>2. ASSUME NEW v \in Workers, job[v] = k, CallsBack(v) PROVE WillCallBack(k)'
      BY <1>3, <1>4, <2>1, <3>1, <3>2 DEF WillCallBack, CallsBack
    <3> QED BY <1>3, <1>4, <2>2, <3>1, <3>2, WillCallBackIs DEF WillCallBack
  <2>3. \A k : Over(k) => Over(k)'
    BY <1>0, <1>3, <1>4 DEF Over
  <2>4. \A v \in called : pc'[v] = "callback"
    BY <1>0, <1>3, <1>4
  <2>5. ASSUME NEW v \in Workers, pc'[v] \in {"work", "progress"}
        PROVE  pc[v] \in {"work", "progress"} /\ job'[v] = job[v]
    BY <1>3, <1>4, <2>5
  <2> QED BY <1>3, <1>4, <2>2, <2>3, <2>4, <2>5
<1> QED BY <1>1, <1>2, <1>4

LEMMA QWorkerQuiet ==
  ASSUME QIInv, NEW w \in Workers, UNCHANGED qvars,
         (WorkerStep(w) /\ ~CallbackReturn(w)) \/ DoWork(w)
  PROVE  QIInv'
<1>0. /\ IInv /\ QTypeOK /\ WaitingInv /\ EntryInv /\ IdInv /\ CallInv /\ HandedInv /\ SlotInv
      /\ Live \subseteq Jobs /\ JobsOf(Pending) \subseteq Live
      /\ Pending' = Pending
      /\ UNCHANGED <<waiting, handed, cancelling, locked, called, owner, released>>
      /\ waiting \in Seq(Jobs) /\ handed \in Seq(Entries)
  BY QParts DEF Pending, qvars, QTypeOK
<1>1. IInv'
  BY <1>0, IInvStep DEF Next
<1>2. /\ item' = item /\ Live' \subseteq Live
      /\ \A j \in Jobs : life'[j] = "new" <=> life[j] = "new"
      /\ \A v \in called : pc'[v] = "callback"
      /\ \A j \in Jobs : WillCallBack(j) => WillCallBack(j)'
      /\ QueuedJobs' \subseteq QueuedJobs
      /\ \A v \in Workers : pc'[v] \in {"work", "progress"} /\ item[job'[v]].callback
           => \/ job'[v] \in QueuedJobs
              \/ pc[v] \in {"work", "progress"} /\ job'[v] = job[v]
      /\ \A j \in Live' : Over(j) => Over(j)'
  BY <1>1, QWorkerMoves
<1>3. WaitingInv'
  <2>1. \A k \in ToSet(waiting) : k \in Jobs
    BY <1>0 DEF ToSet
  <2> QED BY <1>0, <1>2, <2>1 DEF WaitingInv
<1>4. EntryInv'
  <2>1. \A k \in JobsOf(handed) : k \in Jobs
    BY QParts
  <2> QED BY <1>0, <1>2, <2>1 DEF EntryInv
<1>5. IdInv' /\ SlotInv' /\ QTypeOK'
  BY <1>0, <1>2 DEF IdInv, SlotInv, NoIdleSlot, QTypeOK
<1>6. CallInv'
  <2>1. \A j \in JobsOf(Pending) : WillCallBack(j)'
    BY <1>0, <1>2 DEF CallInv
  <2>2. ASSUME NEW v \in Workers, pc'[v] \in {"work", "progress"}, item'[job'[v]].callback
        PROVE  job'[v] \in JobsOf(Pending)
    BY <1>0, <1>2, <2>2 DEF CallInv
  <2> QED BY <1>0, <1>2, <2>1, <2>2 DEF CallInv
<1>7. HandedInv'
  BY <1>0, <1>2 DEF HandedInv
<1> QED BY <1>1, <1>3, <1>4, <1>5, <1>6, <1>7 DEF QIInv

LEMMA QCallbackReturnStep ==
  ASSUME QIInv, NEW w \in Workers, QCallbackReturn(w)
  PROVE  QIInv'
<1>0. /\ IInv /\ QTypeOK /\ WaitingInv /\ EntryInv /\ IdInv /\ CallInv /\ HandedInv /\ SlotInv
      /\ w \in called /\ called' = called \ {w} /\ CallbackReturn(w)
      /\ pc[w] = "callback" /\ pc'[w] = "erase"
      /\ \A v \in Workers \ {w} : pc'[v] = pc[v]
      /\ UNCHANGED <<m_jobQueue, item, life, job, copy>>
      /\ UNCHANGED <<waiting, handed, cancelling, locked, owner, released>>
      /\ Pending' = Pending
  BY QParts DEF QCallbackReturn, CallbackReturn, Goto, IInv, TypeOK, mvars, Pending
<1>1. IInv'
  BY <1>0, IInvStep DEF Next, WorkerStep
<1>2. QueuedJobs' = QueuedJobs /\ Live' = Live
  BY <1>0 DEF QueuedJobs, Live
<1>3. WaitingInv' /\ EntryInv' /\ IdInv' /\ SlotInv' /\ QTypeOK'
  BY <1>0, <1>2 DEF WaitingInv, EntryInv, IdInv, SlotInv, NoIdleSlot, QTypeOK
<1>4. CallInv'
  <2>1. ASSUME NEW j \in JobsOf(Pending) PROVE WillCallBack(j)'
    <3>1. WillCallBack(j)
      BY <1>0 DEF CallInv
    <3>2. ASSUME NEW v \in Workers, job[v] = j, CallsBack(v), j \in Live PROVE WillCallBack(j)'
      BY <1>0, <1>2, <3>2 DEF WillCallBack, CallsBack
    <3>3. CASE j \in Live /\ j \in QueuedJobs /\ item[j].callback
      BY <1>0, <1>2, <3>3 DEF WillCallBack
    <3> QED BY <3>1, <3>2, <3>3, WillCallBackIs
  <2>2. \A v \in called' : pc'[v] = "callback"
    BY <1>0 DEF CallInv, QTypeOK
  <2>3. \A v \in Workers : pc'[v] \in {"work", "progress"} /\ item'[job'[v]].callback
                             => job'[v] \in JobsOf(Pending)
    BY <1>0 DEF CallInv
  <2> QED BY <1>0, <1>2, <2>1, <2>2, <2>3 DEF CallInv
<1>5. HandedInv'
  <2>1. \A j : Over(j) => Over(j)'
    BY <1>0 DEF Over, QTypeOK
  <2> QED BY <1>0, <1>2, <2>1 DEF HandedInv
<1> QED BY <1>1, <1>3, <1>4, <1>5 DEF QIInv

LEMMA QPauseStep ==
  ASSUME QIInv, PauseJobs \/ UnPauseJobs \/ UNCHANGED vars, UNCHANGED qvars
  PROVE  QIInv'
<1>0. /\ IInv /\ QTypeOK /\ WaitingInv /\ EntryInv /\ IdInv /\ CallInv /\ HandedInv /\ SlotInv
      /\ UNCHANGED <<m_jobQueue, item, life, pc, job, copy>>
      /\ UNCHANGED <<waiting, handed, cancelling, locked, called, owner, released>>
      /\ Pending' = Pending
  BY QParts DEF PauseJobs, UnPauseJobs, vars, mvars, tvars, qvars, Pending
<1>1. IInv'
  BY <1>0, IInvStep DEF Next, Client
<1>2. QueuedJobs' = QueuedJobs /\ Live' = Live
  BY <1>0 DEF QueuedJobs, Live
<1>3. /\ \A j : WillCallBack(j)' <=> WillCallBack(j)
      /\ \A j : Over(j)' <=> Over(j)
  BY <1>0, <1>2 DEF WillCallBack, Over
<1>4. WaitingInv' /\ EntryInv' /\ IdInv' /\ SlotInv' /\ QTypeOK'
  BY <1>0, <1>2 DEF WaitingInv, EntryInv, IdInv, SlotInv, NoIdleSlot, QTypeOK
<1>5. CallInv' /\ HandedInv'
  BY <1>0, <1>2, <1>3 DEF CallInv, HandedInv
<1> QED BY <1>1, <1>4, <1>5 DEF QIInv

LEMMA QIInvInit == QInit => QIInv
<1> SUFFICES ASSUME QInit PROVE QIInv
  OBVIOUS
<1>1. /\ IInv /\ Init /\ waiting = <<>> /\ handed = <<>> /\ cancelling = <<>>
      /\ locked = FALSE /\ called = {} /\ owner = [j \in Jobs |-> "client"] /\ released = 0
      /\ Pending = <<>>
  BY IInvInit DEF QInit, Pending
<1>2. ToSet(<<>>) = {} /\ JobsOf(<<>>) = {} /\ Distinct(<<>>) /\ Len(<<>>) = 0
  BY DEF ToSet, JobsOf, Distinct, IsInjective
<1>3. /\ Live = {} /\ QueuedJobs = {} /\ \A j \in Jobs : life[j] = "new"
      /\ \A w \in Workers : pc[w] = "none"
  BY <1>1 DEF Init, Live, QueuedJobs, ToSet
<1>4. QTypeOK
  <2>1. <<>> \in Seq(Jobs) /\ <<>> \in Seq([job : Jobs, id : 1..MaxId])
    OBVIOUS
  <2>2. owner \in [Jobs -> {"client", "queue", "cancelled", "deleted"}]
    BY <1>1
  <2>3. released \in 0..m_jobsAtOnce
    BY <1>1, QueueAssumption
  <2> QED BY <1>1, <2>1, <2>2, <2>3 DEF QTypeOK
<1>5. WaitingInv
  BY <1>1, <1>2, <1>3 DEF WaitingInv, Distinct
<1>6. EntryInv /\ IdInv
  BY <1>1, <1>2, <1>3, QueueAssumption DEF EntryInv, IdInv
<1>7. CallInv /\ HandedInv
  BY <1>1, <1>2, <1>3 DEF CallInv, HandedInv
<1>8. SlotInv
  BY <1>1 DEF SlotInv, NoIdleSlot
<1> QED BY <1>1, <1>4, <1>5, <1>6, <1>7, <1>8 DEF QIInv

LEMMA QIInvStep == QIInv /\ [QNext]_allvars => QIInv'
<1> SUFFICES ASSUME QIInv, [QNext]_allvars PROVE QIInv'
  OBVIOUS
<1>1. ASSUME NEW j \in Jobs, QAddJob(j) \/ QCancelHanded(j) \/ QCancelWaiting(j) PROVE QIInv'
  BY <1>1, QAddJobStep, QCancelHandedStep, QCancelWaitingStep
<1>2. CASE QCancelJobs \/ QCancelNext \/ QCancelDone
  BY <1>2, QCancelJobsStep, QCancelNextStep, QCancelDoneStep
<1>3. CASE (PauseJobs \/ UnPauseJobs) /\ UNCHANGED qvars
  BY <1>3, QPauseStep
<1>4. ASSUME NEW w \in Workers, QWorkerStep(w) \/ QDoWork(w) PROVE QIInv'
  BY <1>4, QOnJobCompleteStep, QCallbackReturnStep, QWorkerQuiet DEF QWorkerStep, QDoWork
<1>5. CASE UNCHANGED allvars
  BY <1>5, QPauseStep DEF allvars
<1> QED BY <1>1, <1>2, <1>3, <1>4, <1>5 DEF QNext

LEMMA QInvariance == QSpec => []QIInv
BY QIInvInit, QIInvStep, PTL DEF QSpec

-----------------------------------------------------------------------------
(* The theorems                                                            *)

(* The queue's state has its type in every behaviour.                      *)
THEOREM QueueTypeCorrect == QSpec => []QTypeOK
<1>1. QIInv => QTypeOK
  BY DEF QIInv
<1> QED BY <1>1, QInvariance, PTL

(* The manager's own invariant survives the queue's calls, so that no job  *)
(* the queue gives it is deleted twice or used after it was deleted.       *)
THEOREM QueueMemorySafety == QSpec => []NoUseAfterFree
<1>1. QIInv => NoUseAfterFree
  <2> SUFFICES ASSUME QIInv PROVE NoUseAfterFree
    OBVIOUS
  <2>1. QueuedJobs \cup m_processing \cup {job[w] : w \in Workers} \subseteq Live \cup {NoJob}
    <3>1. \A w \in Workers : job[w] \in Live \cup {NoJob}
      BY QParts
    <3>2. m_processing \subseteq Live \cup {NoJob}
      BY <3>1, QParts DEF IInv, HoldInv
    <3> QED BY <3>1, <3>2, QParts
  <2> QED BY <2>1, QParts DEF NoUseAfterFree, IInv, LifeInv
<1> QED BY <1>1, QInvariance, PTL

(* For each slot that is taken the manager still has the job, under the id *)
(* the queue knows, and will call OnJobComplete.                           *)
THEOREM SlotsAreGivenBack == QSpec => []SlotsComeBack
<1>1. QIInv => SlotsComeBack
  <2> SUFFICES ASSUME QIInv, ~locked, NEW i \in DOMAIN handed
               PROVE  /\ WillCallBack(handed[i].job)
                      /\ item[handed[i].job].id = handed[i].id
    BY DEF SlotsComeBack
  <2>1. handed[i] \in ToSet(handed) /\ handed[i].job \in JobsOf(handed) /\ Pending = handed
    BY DEF ToSet, JobsOf, Pending
  <2> QED BY <2>1, QParts DEF CallInv, IdInv
<1> QED BY <1>1, QInvariance, PTL

(* While jobs wait, the free slots are the ones CancelJob gave back.       *)
THEOREM OnlyCancelIdles == QSpec => []NoIdleSlot
<1>1. QIInv => NoIdleSlot
  BY DEF QIInv, SlotInv
<1> QED BY <1>1, QInvariance, PTL

(* The jobs in the manager's hands are never more than m_jobsAtOnce.       *)
THEOREM AtOnceHolds == QSpec => []AtOnce
<1>1. QIInv => AtOnce
  <2> SUFFICES ASSUME QIInv PROVE AtOnce
    OBVIOUS
  <2> DEFINE J == {j \in Live : owner[j] = "queue"
                     /\ ~\E w \in called \cup {v \in Workers : pc[v] \in {"erase", "free"}} :
                           job[w] = j}
             n == Len(handed)
             T == {handed[i].job : i \in 1..n}
  <2>1. n \in Nat /\ DOMAIN handed = 1..n /\ n <= m_jobsAtOnce /\ m_jobsAtOnce \in Nat
    BY QParts, QueueAssumption DEF EntryInv
  <2>2. JobsOf(handed) = T
    BY <2>1 DEF JobsOf
  <2>3. J \subseteq T
    BY <2>2, QParts DEF HandedInv, Over
  <2> HIDE DEF n
  <2>4. IsFiniteSet(1..n) /\ Cardinality(1..n) = n
    BY <2>1, FS_Interval
  <2>5. IsFiniteSet(T) /\ Cardinality(T) <= n
    <3> DEFINE f == [i \in 1..n |-> handed[i].job]
    <3>1. f \in Surjection(1..n, T)
      BY DEF Surjection
    <3> HIDE DEF f, T
    <3>2. IsFiniteSet(T) /\ Cardinality(T) <= Cardinality(1..n)
      BY <2>4, <3>1, FS_Surjection
    <3> QED BY <2>4, <3>2
  <2>6. IsFiniteSet(J) /\ Cardinality(J) <= Cardinality(T)
    BY <2>3, <2>5, FS_Subset
  <2>7. Cardinality(J) \in Nat /\ Cardinality(T) \in Nat
    BY <2>5, <2>6, FS_CardinalityType
  <2>8. Cardinality(J) <= m_jobsAtOnce
    <3> HIDE DEF J, T
    <3> QED BY <2>1, <2>5, <2>6, <2>7
  <2> QED BY <2>8 DEF AtOnce
<1> QED BY <1>1, QInvariance, PTL

(* When CancelJobs returns the manager has none of the queue's jobs to run *)
(* or to call back for.                                                    *)
THEOREM CancelJobsIsFinal == QSpec => CancelJobsClears
<1>1. QIInv /\ [QNext]_allvars =>
        [locked /\ ~locked' =>
           /\ waiting' = <<>> /\ QueuedJobs' = {}
           /\ \A w \in Workers : pc[w] \in {"work", "progress"} => ~item[job[w]].callback]_allvars
  <2> SUFFICES ASSUME QIInv, [QNext]_allvars, locked, ~locked'
               PROVE  /\ waiting' = <<>> /\ QueuedJobs' = {}
                      /\ \A w \in Workers : pc[w] \in {"work", "progress"}
                                              => ~item[job[w]].callback
    OBVIOUS
  <2>1. QCancelDone
    BY DEF QNext, QAddJob, QCancelHanded, QCancelWaiting, QCancelJobs, QCancelNext,
       QWorkerStep, QDoWork, QOnJobComplete, QCallbackReturn, allvars, qvars
  <2>2. waiting' = <<>> /\ JobsOf(Pending) = {} /\ UNCHANGED vars
    BY <2>1 DEF QCancelDone, Pending, JobsOf
  <2>3. QueuedJobs' = QueuedJobs
    BY <2>2, ManagerRests
  <2> QED BY <2>2, <2>3, QParts DEF CallInv
<1> QED BY <1>1, QInvariance, PTL DEF QSpec, CancelJobsClears
=============================================================================

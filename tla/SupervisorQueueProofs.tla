----------------------- MODULE SupervisorQueueProofs -----------------------
(***************************************************************************)
(* Proofs about SupervisorQueue, for any number of incidents, workers,     *)
(* calls, retries, restarts, deletions and database failures: its          *)
(* inductive invariant, how many jobs it can hold at once, and that it     *)
(* implements AnalysisJobs.                                                *)
(***************************************************************************)
EXTENDS SupervisorQueue, FiniteSetTheorems, FunctionTheorems, TLAPS

\* The rows a transaction writes are rows.
LEMMA RowTypes ==
    /\ Absent \in Job
    /\ Pending \in Job
    /\ \A row \in Job, s \in Status : [row EXCEPT !.status = s] \in Job
  BY QueueAssumption DEF Job, Absent, Pending, Status, ActiveStatus

\* So are the local states of a worker.
LEMMA WorkerTypes ==
    /\ Idle \in Worker /\ Idle.pc \notin Holding
    /\ Stopped \in Worker /\ Stopped.pc \notin Holding
  BY DEF Idle, Stopped, Worker, WorkerPc, Holding

\* A move of one worker to another program counter keeps the worker's type.
LEMMA GoToTypeOK ==
    ASSUME TypeOK, NEW w \in Workers, NEW pc \in WorkerPc,
           workers[w].pc \in Holding, GoTo(w, pc)
    PROVE  /\ workers' \in [Workers -> Worker]
           /\ \A v \in Workers :
                workers'[v].pc \in Holding => workers'[v].job \in Requests
  BY DEF TypeOK, GoTo, Worker

\* A call keeps all but its program counter when its transaction ends, and the
\* calls of other transactions are not touched.
LEMMA EndFacts ==
    ASSUME TypeOK, NEW some \in SUBSET Requests, NEW pc \in {"done", "error"},
           End(some, pc)
    PROVE  /\ calls' \in [Requests -> Call]
           /\ \A r \in some : calls'[r].pc = pc
           /\ \A r \in Requests \ some : calls'[r] = calls[r]
           /\ \A r \in Requests :
                /\ calls'[r].kind = calls[r].kind /\ calls'[r].inc = calls[r].inc
                /\ calls'[r].key = calls[r].key /\ calls'[r].batch = calls[r].batch
                /\ calls'[r].verdict = calls[r].verdict
           /\ OpenCalls' = OpenCalls \ some
  <1>1. \A r \in Requests : calls'[r] = IF r \in some THEN [calls[r] EXCEPT !.pc = pc]
                                                    ELSE calls[r]
    BY DEF End
  <1>2. \A r \in Requests : calls[r] \in Call
    BY DEF TypeOK
  <1>3. \A r \in Requests : [calls[r] EXCEPT !.pc = pc] \in Call
    BY <1>2 DEF Call
  <1>4. calls' \in [Requests -> Call]
    BY <1>2, <1>3 DEF End
  <1>5. /\ \A r \in some : calls'[r].pc = pc
        /\ \A r \in Requests :
             /\ calls'[r].kind = calls[r].kind /\ calls'[r].inc = calls[r].inc
             /\ calls'[r].key = calls[r].key /\ calls'[r].batch = calls[r].batch
             /\ calls'[r].verdict = calls[r].verdict
    BY <1>1, <1>2 DEF Call
  <1>6. OpenCalls' = OpenCalls \ some
    BY <1>1, <1>5 DEF OpenCalls
  <1>7. QED
    BY <1>1, <1>4, <1>5, <1>6

\* What a call that reads and decides leaves: it becomes one of the open calls.
LEMMA CheckFacts ==
    ASSUME TypeOK, NEW r \in Requests, NEW kind \in Kinds, NEW i \in Incidents,
           NEW k \in Keys \cup {r}, NEW b \in OpenBatches \cup {r},
           EnqueueCheck(r, kind, i, k, b)
    PROVE  /\ calls' \in [Requests -> Call] /\ b \in Requests
           /\ calls[r].pc = "new" /\ calls'[r].pc = "checked"
           /\ calls'[r].kind = kind /\ calls'[r].inc = i /\ calls'[r].key = k
           /\ calls'[r].batch = b /\ calls'[r].verdict = Verdict(i, k, b)
           /\ \A q \in Requests \ {r} : calls'[q] = calls[q]
           /\ OpenCalls' = OpenCalls \cup {r} /\ r \notin OpenCalls
  <1> DEFINE row == [pc |-> "checked", kind |-> kind, inc |-> i, key |-> k,
                     batch |-> b, verdict |-> Verdict(i, k, b)]
  <1>1. b \in Requests
    BY DEF OpenBatches, OpenCalls, TypeOK, Call
  <1>2. Verdict(i, k, b) \in {"reuse", "full", "insert"}
    BY DEF Verdict
  <1>3. row \in Call
    BY <1>1, <1>2, QueueAssumption DEF Call, Kinds
  <1>4. calls[r].pc = "new" /\ calls' = [calls EXCEPT ![r] = row]
    BY DEF EnqueueCheck, MayCall
  <1>5. /\ calls'[r] = row /\ \A q \in Requests \ {r} : calls'[q] = calls[q]
        /\ calls' \in [Requests -> Call]
    BY <1>3, <1>4 DEF TypeOK
  <1>6. OpenCalls' = OpenCalls \cup {r} /\ r \notin OpenCalls
    BY <1>4, <1>5 DEF OpenCalls
  <1>7. QED
    BY <1>1, <1>4, <1>5, <1>6

\* A transaction of a caller keeps every variable in its type.
LEMMA EnqueueTypeOK ==
    ASSUME TypeOK, EnqueueStep
    PROVE  TypeOK'
  <1> USE DEF bounds, queue, effects
  <1>1. ASSUME NEW r \in Requests, NEW kind \in Kinds, NEW i \in Incidents,
               NEW k \in Keys \cup {r}, NEW b \in OpenBatches \cup {r},
               EnqueueCheck(r, kind, i, k, b)
        PROVE  TypeOK'
    <2>1. calls' \in [Requests -> Call]
      BY <1>1, CheckFacts
    <2>2. QED
      BY <1>1, <2>1 DEF EnqueueCheck, TypeOK
  <1>2. ASSUME NEW r \in Requests, NEW kind \in Kinds, NEW i \in Incidents,
               NEW k \in Keys \cup {r}, NEW b \in OpenBatches \cup {r},
               EnqueueRaises(r, kind, i, k, b)
        PROVE  TypeOK'
    <2>1. calls' \in [Requests -> Call]
      <3>1. CallsOf(b) \cup {r} \in SUBSET Requests
        BY DEF CallsOf, OpenCalls
      <3>2. End(CallsOf(b) \cup {r}, "error")
        BY <1>2 DEF EnqueueRaises
      <3>3. QED
        BY <3>1, <3>2, EndFacts
    <2>2. QED
      BY <1>2, <2>1 DEF EnqueueRaises, TypeOK
  <1>3. ASSUME NEW b \in Requests, EnqueueCommit(b)
        PROVE  TypeOK'
    <2>1. CallsOf(b) \in SUBSET Requests
      BY DEF CallsOf, OpenCalls
    <2>2. jobs' \in [Requests -> Job]
      BY <1>3, RowTypes DEF EnqueueCommit, TypeOK
    <2>3. calls' \in [Requests -> Call]
      BY <1>3, <2>1, EndFacts DEF EnqueueCommit
    <2>4. QED
      BY <1>3, <2>1, <2>2, <2>3 DEF EnqueueCommit, TypeOK
  <1>4. ASSUME NEW b \in Requests, EnqueueConflict(b) \/ EnqueueFails(b)
        PROVE  TypeOK'
    <2>1. CallsOf(b) \in SUBSET Requests
      BY DEF CallsOf, OpenCalls
    <2>2. calls' \in [Requests -> Call]
      BY <1>4, <2>1, EndFacts DEF EnqueueConflict, EnqueueFails
    <2>3. QED
      BY <1>4, <2>2 DEF EnqueueConflict, EnqueueFails, TypeOK
  <1>5. QED
    BY <1>1, <1>2, <1>3, <1>4 DEF EnqueueStep

\* The rows that retry_job writes are rows: the retry count never passes
\* MaxRetries, because only a job that still has a retry left is retried.
LEMMA RetryTypeOK ==
    ASSUME TypeOK, NEW j \in Requests, RetryJob(j), jobs[j].tries < MaxRetries
    PROVE  /\ jobs' \in [Requests -> Job]
           /\ delayed' \subseteq Requests
           /\ dlq' \subseteq Requests
  <1>1. jobs[j].tries \in 0 .. MaxRetries
    BY DEF TypeOK, Job
  <1>2. jobs[j].tries + 1 \in 0 .. MaxRetries
    BY <1>1, QueueAssumption
  <1>3. \E s \in {"FAILED", "RETRYING"} :
          jobs' = [jobs EXCEPT ![j] = [status |-> s, tries |-> jobs[j].tries + 1]]
    BY DEF RetryJob
  <1>4. \A s \in {"FAILED", "RETRYING"} : [status |-> s, tries |-> jobs[j].tries + 1] \in Job
    BY <1>2 DEF Job, Status, ActiveStatus
  <1>5. jobs' \in [Requests -> Job]
    BY <1>3, <1>4 DEF TypeOK
  <1>6. QED
    BY <1>5 DEF RetryJob, TypeOK

\* A held job still has a retry left: it is not FAILED.
LEMMA HeldHasRetryLeft ==
    ASSUME IInv, NEW w \in Workers, workers[w].pc \in Holding, Exists(workers[w].job)
    PROVE  /\ workers[w].job \in Requests
           /\ jobs[workers[w].job].tries < MaxRetries
  <1>1. workers[w].job \in Requests
    BY DEF IInv, TypeOK
  <1>2. jobs[workers[w].job].status # "FAILED"
    BY <1>1 DEF IInv, HeldExclusively, Holds, Exists
  <1>3. jobs[workers[w].job].tries # MaxRetries
    BY <1>1, <1>2 DEF IInv, DeadLetterIffFailed
  <1>4. jobs[workers[w].job].tries \in 0 .. MaxRetries
    BY <1>1 DEF IInv, TypeOK, Job
  <1>5. QED
    BY <1>1, <1>3, <1>4, QueueAssumption

\* A step of a worker keeps every variable in its type.
LEMMA WorkerTypeOK ==
    ASSUME IInv, NEW w \in Workers, WorkerStep(w) \/ WorkerFault(w) \/ Restart(w)
    PROVE  TypeOK'
  <1> USE DEF bounds, queue, effects
  <1>0. TypeOK
    BY DEF IInv
  <1>1. ASSUME NEW j \in Requests, ClaimNextJob(j)
        PROVE  jobs' \in [Requests -> Job]
    BY <1>0, <1>1, RowTypes DEF ClaimNextJob, TypeOK, Status, ActiveStatus
  <1>2. ASSUME NEW j \in Requests, MarkJobComplete(j)
        PROVE  jobs' \in [Requests -> Job]
    BY <1>0, <1>2, RowTypes DEF MarkJobComplete, TypeOK, Status
  <1>3. ASSUME NEW j \in Requests, Claim(w, j)
        PROVE  TypeOK'
    <2>1. [pc |-> "fetch", job |-> j, bundle |-> {}] \in Worker
      BY DEF Worker, WorkerPc
    <2>2. QED
      BY <1>0, <1>1, <1>3, <2>1 DEF Claim, TypeOK
  <1>4. CASE ClaimFails(w)
    BY <1>0, <1>1, <1>4, WorkerTypes, QueueAssumption
       DEF ClaimFails, Claimable, DbFault, TypeOK
  <1>5. CASE FetchIncident(w)
    <2>1. workers[w].pc \in Holding
      BY <1>5 DEF FetchIncident, At, Holding, WorkerPc
    <2>2. workers' \in [Workers -> Worker]
      BY <1>0, <1>5 DEF FetchIncident, TypeOK, Worker, WorkerPc
    <2>3. \A v \in Workers : workers'[v].pc \in Holding => workers'[v].job \in Requests
      BY <1>0, <1>5, <2>1 DEF FetchIncident, TypeOK, Worker
    <2>4. QED
      BY <1>0, <1>5, <2>2, <2>3 DEF FetchIncident, TypeOK
  <1>6. CASE SelectIncident(w) \/ CommitAnalysis(w) \/ CommitAnalysisUnanswered(w)
             \/ PostReport(w) \/ ReportAnswered(w) \/ AttemptFails(w)
    <2>1. workers[w].pc \in Holding
      BY <1>6 DEF SelectIncident, CommitAnalysis, CommitAnalysisUnanswered, PostReport,
                  ReportAnswered, AttemptFails, At, Holding, WorkerPc
    <2>2. \E pc \in WorkerPc : GoTo(w, pc)
      BY <1>6 DEF SelectIncident, CommitAnalysis, CommitAnalysisUnanswered, PostReport,
                  ReportAnswered, AttemptFails, WorkerPc
    <2>3. /\ workers' \in [Workers -> Worker]
          /\ \A v \in Workers : workers'[v].pc \in Holding => workers'[v].job \in Requests
      BY <1>0, <2>1, <2>2, GoToTypeOK
    <2>4. workers[w].job \in Requests
      BY <1>0, <2>1 DEF TypeOK
    <2>5. KeyOf(workers[w].job) \in Requests \cup Keys /\ workers[w].bundle \subseteq Requests
      BY <1>0, <2>4 DEF KeyOf, TypeOK, Call, Worker
    <2>6. QED
      BY <1>0, <1>6, <2>3, <2>4, <2>5, QueueAssumption
         DEF SelectIncident, CommitAnalysis, CommitAnalysisUnanswered, PostReport,
             ReportAnswered, AttemptFails, AppendAnalysis, DbFault, TypeOK
  <1>7. CASE Complete(w)
    <2>1. workers[w].job \in Requests
      BY <1>0, <1>7 DEF Complete, At, TypeOK, Holding, WorkerPc
    <2>2. QED
      BY <1>0, <1>2, <1>7, <2>1, WorkerTypes DEF Complete, TypeOK
  <1>8. CASE CompleteFails(w)
    <2>1. workers[w].pc \in Holding /\ "failed" \in WorkerPc
      BY <1>8 DEF CompleteFails, At, Holding, WorkerPc
    <2>2. workers[w].job \in Requests
      BY <1>0, <2>1 DEF TypeOK
    <2>3. /\ workers' \in [Workers -> Worker]
          /\ \A v \in Workers : workers'[v].pc \in Holding => workers'[v].job \in Requests
      BY <1>0, <1>8, <2>1, GoToTypeOK DEF CompleteFails
    <2>4. QED
      BY <1>0, <1>2, <1>8, <2>2, <2>3, QueueAssumption DEF CompleteFails, DbFault, TypeOK
  <1>9. CASE Retry(w) \/ RetryFails(w)
    <2>1. workers[w].pc \in Holding
      BY <1>9 DEF Retry, RetryFails, At, Holding, WorkerPc
    <2>2. workers[w].job \in Requests /\ jobs[workers[w].job].tries < MaxRetries
      BY <1>9, <2>1, HeldHasRetryLeft DEF Retry, RetryFails
    <2>3. RetryJob(workers[w].job) => /\ jobs' \in [Requests -> Job]
                                      /\ delayed' \subseteq Requests
                                      /\ dlq' \subseteq Requests
      BY <1>0, <2>2, RetryTypeOK
    <2>4. QED
      BY <1>0, <1>9, <2>3, WorkerTypes, QueueAssumption DEF Retry, RetryFails, DbFault, TypeOK
  <1>10. CASE RetryFindsNoJob(w)
    BY <1>0, <1>10, WorkerTypes DEF RetryFindsNoJob, TypeOK
  <1>11. CASE Restart(w)
    BY <1>0, <1>11, WorkerTypes, QueueAssumption DEF Restart, TypeOK
  <1>12. QED
    BY <1>3, <1>4, <1>5, <1>6, <1>7, <1>8, <1>9, <1>10, <1>11 DEF WorkerStep, WorkerFault

\* Every step keeps every variable in its type.
LEMMA NextTypeOK ==
    ASSUME IInv, [Next]_vars
    PROVE  TypeOK'
  <1> USE DEF bounds, queue, effects
  <1>0. TypeOK
    BY DEF IInv
  <1>1. CASE EnqueueStep
    BY <1>0, <1>1, EnqueueTypeOK
  <1>2. CASE \E w \in Workers : WorkerStep(w) \/ WorkerFault(w) \/ Restart(w)
    BY <1>2, WorkerTypeOK
  <1>3. ASSUME NEW j \in Requests, GenerateReport(j) \/ DelayElapsed(j)
        PROVE  TypeOK'
    BY <1>0, <1>3 DEF GenerateReport, DelayElapsed, TypeOK
  <1>4. ASSUME NEW i \in Incidents, DeleteIncident(i)
        PROVE  TypeOK'
    BY <1>0, <1>4, RowTypes, QueueAssumption DEF DeleteIncident, TypeOK
  <1>5. CASE UNCHANGED vars
    BY <1>0, <1>5 DEF vars, TypeOK
  <1>6. QED
    BY <1>1, <1>2, <1>3, <1>4, <1>5 DEF Next

(***************************************************************************)
(* IInv is inductive.  Each lemma below takes one action: it first says    *)
(* what the action does to the rows, calls and workers it touches, then    *)
(* why every conjunct it can disturb still holds.                          *)
(***************************************************************************)

\* At most the row of j, the calls in some, the worker w differ after the step.
OnlyRow(j) == \A q \in Requests \ {j} : jobs'[q] = jobs[q]
OnlyCalls(some) == \A q \in Requests \ some : calls'[q] = calls[q]
OnlyWorker(w) == \A v \in Workers \ {w} : workers'[v] = workers[v]

\* The calls of a batch stay together: its transaction ends with all of them.
LEMMA NextBatchesWhole ==
    ASSUME TypeOK, BatchesWhole, [Next]_vars
    PROVE  BatchesWhole'
  <1>1. ASSUME NEW some \in SUBSET Requests, NEW pc \in {"done", "error"}, End(some, pc),
               \A r \in OpenCalls : r \in some <=> calls[r].batch \in some
        PROVE  BatchesWhole'
    <2>1. OpenCalls' = OpenCalls \ some /\ \A r \in Requests \ some : calls'[r] = calls[r]
      BY <1>1, EndFacts
    <2>2. QED
      BY <1>1, <2>1 DEF BatchesWhole, OpenCalls
  <1>2. ASSUME NEW b
        PROVE  /\ CallsOf(b) \in SUBSET Requests
               /\ \A r \in OpenCalls : r \in CallsOf(b) <=> calls[r].batch \in CallsOf(b)
    BY DEF CallsOf, OpenCalls, BatchesWhole
  <1>3. ASSUME NEW r \in Requests, NEW kind \in Kinds, NEW i \in Incidents,
               NEW k \in Keys \cup {r}, NEW b \in OpenBatches \cup {r},
               EnqueueCheck(r, kind, i, k, b)
        PROVE  BatchesWhole'
    <2>1. /\ b = r \/ (kind = "ingest" /\ b \in OpenBatches /\ calls[b].kind = "ingest")
          /\ kind = "ingest" => k = r
      BY <1>3 DEF EnqueueCheck, MayCall, Opens, Continues
    <2>2. /\ calls'[r].kind = kind /\ calls'[r].key = k /\ calls'[r].batch = b
          /\ OpenCalls' = OpenCalls \cup {r} /\ r \notin OpenCalls
          /\ \A q \in Requests \ {r} : calls'[q] = calls[q]
      BY <1>3, CheckFacts
    <2>3. b # r => b \in OpenCalls /\ calls[b].batch = b
      BY <2>1 DEF OpenBatches, BatchesWhole
    <2>4. \A q \in OpenCalls : calls[q].batch \in OpenCalls /\ calls[q].batch # r /\ q # r
      BY <2>2 DEF BatchesWhole
    <2>5. OpenCalls \subseteq Requests
      BY DEF OpenCalls
    <2>6. QED
      BY <2>1, <2>2, <2>3, <2>4, <2>5 DEF BatchesWhole
  <1>4. ASSUME NEW r \in Requests, NEW kind \in Kinds, NEW i \in Incidents,
               NEW k \in Keys \cup {r}, NEW b \in OpenBatches \cup {r},
               EnqueueRaises(r, kind, i, k, b)
        PROVE  BatchesWhole'
    <2>1. r \notin OpenCalls /\ End(CallsOf(b) \cup {r}, "error")
      BY <1>4 DEF EnqueueRaises, MayCall, OpenCalls
    <2>2. \A q \in OpenCalls : q # r /\ calls[q].batch # r
      BY <2>1 DEF BatchesWhole
    <2>3. CallsOf(b) \cup {r} \in SUBSET Requests
          /\ \A q \in OpenCalls :
               q \in CallsOf(b) \cup {r} <=> calls[q].batch \in CallsOf(b) \cup {r}
      BY <1>2, <2>2
    <2>4. QED
      BY <1>1, <2>1, <2>3
  <1>5. ASSUME NEW b \in Requests, EnqueueCommit(b) \/ EnqueueConflict(b) \/ EnqueueFails(b)
        PROVE  BatchesWhole'
    <2>1. PICK pc \in {"done", "error"} : End(CallsOf(b), pc)
      BY <1>5 DEF EnqueueCommit, EnqueueConflict, EnqueueFails
    <2>2. QED
      BY <1>1, <1>2, <2>1
  <1>6. CASE UNCHANGED calls
    BY <1>6 DEF BatchesWhole, OpenCalls
  <1>7. ASSUME NEW w \in Workers, WorkerStep(w) \/ WorkerFault(w) \/ Restart(w)
        PROVE  UNCHANGED calls
    BY <1>7
       DEF WorkerStep, WorkerFault, Claim, ClaimFails, FetchIncident, SelectIncident,
           CommitAnalysis, CommitAnalysisUnanswered, PostReport, ReportAnswered,
           AttemptFails, Complete, CompleteFails, Retry, RetryFails, RetryFindsNoJob, Restart
  <1>8. QED
    BY <1>3, <1>4, <1>5, <1>6, <1>7
       DEF Next, EnqueueStep, GenerateReport, DelayElapsed, DeleteIncident, vars

\* What GoTo does to the worker that moves and to the others.
LEMMA GoToFacts ==
    ASSUME TypeOK, NEW w \in Workers, NEW pc, GoTo(w, pc)
    PROVE  workers'[w].pc = pc /\ workers'[w].job = workers[w].job /\ OnlyWorker(w)
  BY DEF TypeOK, GoTo, Worker, OnlyWorker

\* A worker that is not idle or stopped holds its job.
LEMMA HoldsItsJob ==
    ASSUME TypeOK, NEW w \in Workers, workers[w].pc \in Holding
    PROVE  workers[w].job \in Requests /\ Holds(w, workers[w].job)
  BY DEF TypeOK, Holds

\* The conjuncts that a step can disturb only through calls survive it when
\* the calls that change have no row and nothing that stands for it.
LEMMA CallIInv ==
    ASSUME IInv, TypeOK', NEW some \in SUBSET Requests, OnlyCalls(some),
           \A r \in some : calls[r].pc # "done" /\ calls'[r].pc # "done",
           UNCHANGED <<queue, workers, incidents, effects>>
    PROVE  IInv'
  <1> USE DEF queue, effects, Exists, KeyOf, IncidentOf, Holds, At
  <1>1. \A r \in some : /\ ~Exists(r) /\ r \notin posted /\ r \notin reports
                       /\ \A w \in Workers : ~Holds(w, r)
    BY DEF IInv, NothingBeforeCommit
  <1>2. HeldExclusively' /\ DeadLetterIffFailed'
    BY DEF IInv, HeldExclusively, DeadLetterIffFailed
  <1>3. NothingBeforeCommit'
    BY DEF IInv, NothingBeforeCommit, OnlyCalls
  <1>4. KeysUnique'
    BY <1>1 DEF IInv, KeysUnique, JobsWithKey, OnlyCalls
  <1>5. RowsKept'
    BY <1>1 DEF IInv, RowsKept, OnlyCalls, TypeOK
  <1>6. StepsDone'
    BY <1>1 DEF IInv, StepsDone, OnlyCalls, TypeOK
  <1>7. AnalysisNotRepeated'
    BY <1>1 DEF IInv, AnalysisNotRepeated, OnlyCalls, TypeOK, Holding, WorkerPc
  <1>8. EffectsInOrder'
    BY <1>1 DEF IInv, EffectsInOrder, OnlyCalls
  <1>9. QED
    BY <1>2, <1>3, <1>4, <1>5, <1>6, <1>7, <1>8 DEF IInv

\* A committed transaction inserts rows with new keys, which nobody holds yet.
LEMMA EnqueueCommitIInv ==
    ASSUME IInv, BatchesWhole, TypeOK', NEW b \in Requests, EnqueueCommit(b)
    PROVE  IInv'
  <1> USE DEF Exists, KeyOf, IncidentOf, Holds, At
  <1> DEFINE all == CallsOf(b)
             new == InsertsOf(b)
  <1>0. all \in SUBSET Requests /\ new \in SUBSET all /\ TypeOK
    BY DEF CallsOf, InsertsOf, OpenCalls, IInv
  <1>1. \A r \in all : /\ ~Exists(r) /\ r \notin posted /\ r \notin reports /\ r \notin dlq
                      /\ \A w \in Workers : ~Holds(w, r)
    BY DEF IInv, NothingBeforeCommit, CallsOf, OpenCalls
  <1>2. /\ OnlyCalls(all) /\ \A r \in all : calls'[r].pc = "done"
        /\ \A r \in Requests : calls'[r].key = calls[r].key /\ calls'[r].inc = calls[r].inc
    BY <1>0, EndFacts DEF EnqueueCommit, OnlyCalls
  <1>3. \A r \in Requests : jobs'[r] = IF r \in new THEN Pending ELSE jobs[r]
    BY DEF EnqueueCommit
  <1>4. UNCHANGED <<workers, incidents, recorded, posted, reports, dlq>>
    BY DEF EnqueueCommit
  <1>5. /\ \A r \in new, q \in Requests : Exists(q) => KeyOf(q) # KeyOf(r)
        /\ \A r, q \in new : KeyOf(q) = KeyOf(r) => q = r
    <2>1. \A r \in new, q \in Requests : Exists(q) => KeyOf(q) # KeyOf(r)
      BY DEF EnqueueCommit, KeysFree, JobsWithKey
    <2>2. \A r, q \in new : calls[r].kind = calls[q].kind
                           /\ IF calls[r].kind = "ingest" THEN calls[r].key = r ELSE b = r
      BY DEF BatchesWhole, InsertsOf, CallsOf
    <2>3. QED
      BY <2>1, <2>2
  <1>6. \A r \in Requests : Exists(r)' <=> Exists(r) \/ r \in new
    BY <1>3 DEF Pending
  <1> HIDE DEF all, new
  <1> USE DEF Pending
  <1>7. HeldExclusively'
    BY <1>0, <1>1, <1>3, <1>4 DEF IInv, HeldExclusively
  <1>8. DeadLetterIffFailed'
    BY <1>0, <1>1, <1>3, <1>4, QueueAssumption DEF IInv, DeadLetterIffFailed
  <1>9. NothingBeforeCommit'
    BY <1>0, <1>2, <1>3, <1>4 DEF IInv, NothingBeforeCommit, OnlyCalls
  <1>10. KeysUnique'
    <2>1. \A j, q \in Requests : Exists(j)' /\ Exists(q)' /\ KeyOf(j) = KeyOf(q) => j = q
      BY <1>0, <1>5, <1>6 DEF IInv, KeysUnique
    <2>2. \A k \in recorded : JobsWithKey(k)' # {}
      BY <1>2, <1>6 DEF IInv, KeysUnique, JobsWithKey
    <2>3. QED
      BY <1>2, <1>4, <2>1, <2>2 DEF KeysUnique
  <1>11. RowsKept'
    BY <1>0, <1>1, <1>2, <1>4, <1>6 DEF IInv, RowsKept, TypeOK
  <1>12. StepsDone'
    BY <1>0, <1>1, <1>2, <1>4, <1>6 DEF IInv, StepsDone, TypeOK
  <1>13. AnalysisNotRepeated'
    BY <1>0, <1>1, <1>2, <1>4, <1>6
       DEF IInv, AnalysisNotRepeated, TypeOK, Holding, WorkerPc
  <1>14. EffectsInOrder'
    BY <1>0, <1>1, <1>2, <1>3, <1>4 DEF IInv, EffectsInOrder
  <1>15. QED
    BY <1>7, <1>8, <1>9, <1>10, <1>11, <1>12, <1>13, <1>14 DEF IInv

\* A transaction of a caller preserves the invariant.
LEMMA EnqueueIInv ==
    ASSUME IInv, BatchesWhole, TypeOK', EnqueueStep
    PROVE  IInv'
  <1>0. TypeOK
    BY DEF IInv
  <1>1. ASSUME NEW r \in Requests, NEW kind \in Kinds, NEW i \in Incidents,
               NEW k \in Keys \cup {r}, NEW b \in OpenBatches \cup {r},
               EnqueueCheck(r, kind, i, k, b)
        PROVE  IInv'
    <2>1. OnlyCalls({r}) /\ calls[r].pc = "new" /\ calls'[r].pc = "checked"
      BY <1>0, <1>1, CheckFacts DEF OnlyCalls
    <2>2. {r} \in SUBSET Requests /\ \A q \in {r} : calls[q].pc # "done" /\ calls'[q].pc # "done"
      BY <2>1
    <2>3. QED
      BY <1>1, <2>1, <2>2, CallIInv DEF EnqueueCheck
  <1>2. ASSUME NEW some \in SUBSET Requests, \A r \in some : calls[r].pc # "done",
               End(some, "error"), UNCHANGED <<queue, workers, incidents, effects>>
        PROVE  IInv'
    <2>1. OnlyCalls(some) /\ \A r \in some : calls'[r].pc = "error"
      BY <1>0, <1>2, EndFacts DEF OnlyCalls
    <2>2. QED
      BY <1>2, <2>1, CallIInv
  <1>3. ASSUME NEW r \in Requests, NEW kind \in Kinds, NEW i \in Incidents,
               NEW k \in Keys \cup {r}, NEW b \in OpenBatches \cup {r},
               EnqueueRaises(r, kind, i, k, b)
        PROVE  IInv'
    <2>1. /\ CallsOf(b) \cup {r} \in SUBSET Requests
          /\ \A q \in CallsOf(b) \cup {r} : calls[q].pc # "done"
      BY <1>3 DEF EnqueueRaises, MayCall, CallsOf, OpenCalls
    <2>2. QED
      BY <1>2, <1>3, <2>1 DEF EnqueueRaises
  <1>4. ASSUME NEW b \in Requests, EnqueueCommit(b)
        PROVE  IInv'
    BY <1>4, EnqueueCommitIInv
  <1>5. ASSUME NEW b \in Requests, EnqueueConflict(b) \/ EnqueueFails(b)
        PROVE  IInv'
    <2>1. /\ CallsOf(b) \in SUBSET Requests
          /\ \A q \in CallsOf(b) : calls[q].pc # "done"
      BY DEF CallsOf, OpenCalls
    <2>2. QED
      BY <1>2, <1>5, <2>1 DEF EnqueueConflict, EnqueueFails
  <1>6. QED
    BY <1>1, <1>3, <1>4, <1>5 DEF EnqueueStep

\* A worker that lets go of its job without touching a row: what the invariant
\* says of the jobs still held is unchanged.
LEMMA ReleaseIInv ==
    ASSUME IInv, TypeOK', NEW w \in Workers, OnlyWorker(w), workers'[w].pc \notin Holding,
           UNCHANGED <<jobs, calls, incidents, recorded, posted, reports, dlq>>
    PROVE  IInv'
  <1> USE DEF Exists, KeyOf, IncidentOf
  <1>1. \A v \in Workers, q \in Requests :
          Holds(v, q)' => Holds(v, q) /\ workers'[v] = workers[v]
    BY DEF Holds, OnlyWorker
  <1>2. \A v \in Workers : At(v, "decide")' => At(v, "decide") /\ workers'[v] = workers[v]
    BY DEF At, OnlyWorker, Holding, WorkerPc
  <1>3. HeldExclusively'
    BY <1>1 DEF IInv, HeldExclusively, At
  <1>4. DeadLetterIffFailed' /\ KeysUnique' /\ EffectsInOrder'
    BY DEF IInv, DeadLetterIffFailed, KeysUnique, EffectsInOrder, JobsWithKey
  <1>5. NothingBeforeCommit' /\ RowsKept'
    BY <1>1 DEF IInv, NothingBeforeCommit, RowsKept
  <1>6. StepsDone'
    BY <1>1 DEF IInv, StepsDone, At
  <1>7. AnalysisNotRepeated'
    BY <1>2 DEF IInv, AnalysisNotRepeated
  <1>8. QED
    BY <1>3, <1>4, <1>5, <1>6, <1>7 DEF IInv

\* A worker that claims a job: nobody held it, and its status becomes
\* PROCESSING whether or not the worker learns of it.
LEMMA ClaimIInv ==
    ASSUME IInv, TypeOK', NEW w \in Workers, NEW j \in Requests, ClaimNextJob(j),
           OnlyWorker(w), UNCHANGED <<calls, incidents, recorded, posted, reports, dlq>>,
           \/ workers'[w].pc = "fetch" /\ workers'[w].job = j
           \/ workers'[w].pc \notin Holding
    PROVE  IInv'
  <1> USE DEF Exists, KeyOf, IncidentOf
  <1>1. /\ OnlyRow(j) /\ jobs[j].status \in {"PENDING", "RETRYING"}
        /\ jobs'[j].status = "PROCESSING" /\ jobs'[j].tries = jobs[j].tries
    BY DEF ClaimNextJob, Claimable, OnlyRow, IInv, TypeOK, Job
  <1>2. \A v \in Workers : ~Holds(v, j)
    BY <1>1 DEF IInv, HeldExclusively
  <1>3. \A v \in Workers, q \in Requests :
          Holds(v, q)' => \/ v = w /\ q = j /\ workers'[w].pc = "fetch"
                          \/ v # w /\ q # j /\ Holds(v, q) /\ workers'[v] = workers[v]
    BY <1>2 DEF Holds, OnlyWorker
  <1>4. \A v \in Workers : At(v, "decide")' => At(v, "decide") /\ workers'[v] = workers[v]
    BY DEF At, OnlyWorker, Holding, WorkerPc
  <1>5. \A q \in Requests : Exists(q)' <=> Exists(q)
    BY <1>1 DEF OnlyRow
  <1>6. HeldExclusively'
    BY <1>1, <1>3 DEF IInv, HeldExclusively, OnlyRow, At
  <1>7. DeadLetterIffFailed'
    BY <1>1 DEF IInv, DeadLetterIffFailed, OnlyRow
  <1>8. NothingBeforeCommit'
    BY <1>1, <1>3, <1>5 DEF IInv, NothingBeforeCommit
  <1>9. KeysUnique'
    BY <1>5 DEF IInv, KeysUnique, JobsWithKey
  <1>10. RowsKept'
    BY <1>1, <1>3, <1>5 DEF IInv, RowsKept, TypeOK
  <1>11. StepsDone'
    BY <1>3, <1>5 DEF IInv, StepsDone, At, TypeOK
  <1>12. AnalysisNotRepeated'
    BY <1>4, <1>5 DEF IInv, AnalysisNotRepeated, TypeOK, At, Holding, WorkerPc
  <1>13. EffectsInOrder'
    BY <1>1 DEF IInv, EffectsInOrder, OnlyRow
  <1>14. QED
    BY <1>6, <1>7, <1>8, <1>9, <1>10, <1>11, <1>12, <1>13 DEF IInv

\* A worker that goes on with its job, having stored what its next program
\* counter stands for.
LEMMA MoveIInv ==
    ASSUME IInv, TypeOK', NEW w \in Workers, NEW pc \in Holding \ {"decide"},
           OnlyWorker(w), workers'[w].pc = pc, workers'[w].job = workers[w].job,
           workers[w].pc \in Holding,
           pc \in {"report", "await", "complete"} =>
              KeyOf(workers[w].job) \in recorded \/ ~Exists(workers[w].job),
           pc = "complete" => workers[w].job \in reports,
           jobs[workers[w].job].status = "COMPLETED" => pc = "failed",
           UNCHANGED <<jobs, calls, incidents, recorded, posted, reports, dlq>>
    PROVE  IInv'
  <1> USE DEF Exists, KeyOf, IncidentOf
  <1>1. workers[w].job \in Requests /\ Holds(w, workers[w].job)
    BY HoldsItsJob DEF IInv
  <1>2. \A v \in Workers, q \in Requests : Holds(v, q)' <=> Holds(v, q)
    BY DEF Holds, OnlyWorker
  <1>3. \A v \in Workers : v # w => workers'[v] = workers[v]
    BY DEF OnlyWorker
  <1>4. HeldExclusively'
    BY <1>1, <1>2, <1>3 DEF IInv, HeldExclusively, At, Holds
  <1>5. DeadLetterIffFailed' /\ KeysUnique' /\ EffectsInOrder'
    BY DEF IInv, DeadLetterIffFailed, KeysUnique, EffectsInOrder, JobsWithKey
  <1>6. NothingBeforeCommit' /\ RowsKept'
    BY <1>2 DEF IInv, NothingBeforeCommit, RowsKept
  <1>7. StepsDone'
    BY <1>1, <1>2, <1>3 DEF IInv, StepsDone, At, Holds
  <1>8. AnalysisNotRepeated'
    BY <1>3 DEF IInv, AnalysisNotRepeated, At
  <1>9. QED
    BY <1>4, <1>5, <1>6, <1>7, <1>8 DEF IInv

\* A row of the held job changes while its worker finishes or lets go: the
\* status it gets is the one the other conjuncts ask for.
LEMMA SettleIInv ==
    ASSUME IInv, TypeOK', NEW w \in Workers, NEW j \in Requests, Holds(w, j), Exists(j),
           OnlyRow(j), OnlyWorker(w), jobs'[j].status # "ABSENT",
           \/ workers'[w].pc \notin Holding
           \/ /\ workers'[w].pc = "failed" /\ workers'[w].job = j
              /\ jobs'[j].status \in {"PROCESSING", "COMPLETED"},
           jobs'[j].status = "COMPLETED" => j \in reports,
           /\ jobs'[j].status = "FAILED" <=> j \in dlq'
           /\ jobs'[j].status = "FAILED" <=> jobs'[j].tries = MaxRetries,
           dlq' = dlq \/ dlq' = dlq \cup {j},
           UNCHANGED <<calls, incidents, recorded, posted, reports>>
    PROVE  IInv'
  <1> USE DEF Exists, KeyOf, IncidentOf
  <1>1. \A v \in Workers, q \in Requests :
          Holds(v, q)' => \/ v = w /\ q = j /\ workers'[w].pc = "failed"
                          \/ v # w /\ q # j /\ Holds(v, q) /\ workers'[v] = workers[v]
    BY DEF Holds, OnlyWorker, IInv, HeldExclusively
  <1>2. \A v \in Workers : At(v, "decide")' => At(v, "decide") /\ workers'[v] = workers[v]
    BY DEF At, OnlyWorker, Holding, WorkerPc
  <1>3. \A q \in Requests : Exists(q)' <=> Exists(q)
    BY DEF OnlyRow
  <1>4. calls[j].pc = "done"
    BY DEF IInv, NothingBeforeCommit
  <1>5. HeldExclusively'
    <2> SUFFICES ASSUME NEW v \in Workers, NEW q \in Requests, Holds(v, q)'
                 PROVE  /\ \A u \in Workers : Holds(u, q)' => u = v
                        /\ \/ jobs'[q].status \in {"PROCESSING", "ABSENT"}
                           \/ At(v, "failed")' /\ jobs'[q].status = "COMPLETED"
      BY DEF HeldExclusively
    <2>1. \A u \in Workers : Holds(u, q)' => u = v
      BY <1>1 DEF IInv, HeldExclusively
    <2>2. CASE v = w
      BY <1>1, <2>2 DEF At, Holding, WorkerPc
    <2>3. CASE v # w
      BY <1>1, <2>3 DEF IInv, HeldExclusively, OnlyRow, At
    <2>4. QED
      BY <2>1, <2>2, <2>3
  <1>6. DeadLetterIffFailed'
    BY DEF IInv, DeadLetterIffFailed, OnlyRow
  <1>7. NothingBeforeCommit'
    BY <1>1, <1>3, <1>4 DEF IInv, NothingBeforeCommit
  <1>8. KeysUnique'
    BY <1>3 DEF IInv, KeysUnique, JobsWithKey
  <1>9. RowsKept'
    BY <1>1, <1>3 DEF IInv, RowsKept, TypeOK
  <1>10. StepsDone'
    BY <1>1, <1>3 DEF IInv, StepsDone, At, TypeOK
  <1>11. AnalysisNotRepeated'
    BY <1>2, <1>3 DEF IInv, AnalysisNotRepeated, TypeOK, At, Holding, WorkerPc
  <1>12. EffectsInOrder'
    BY DEF IInv, EffectsInOrder, OnlyRow
  <1>13. QED
    BY <1>5, <1>6, <1>7, <1>8, <1>9, <1>10, <1>11, <1>12 DEF IInv

\* The analysis transaction found no event with the key of the job, and the
\* worker goes on to the model: nobody else stores the event meanwhile,
\* because nobody else holds a row with that key.
LEMMA DecideIInv ==
    ASSUME IInv, TypeOK', NEW w \in Workers, SelectIncident(w),
           ~AlreadyAnalysed(workers[w].job)
    PROVE  IInv'
  <1> USE DEF queue, effects, Exists, KeyOf, IncidentOf
  <1>1. workers'[w].pc = "decide" /\ workers'[w].job = workers[w].job /\ OnlyWorker(w)
    BY GoToFacts DEF SelectIncident, IInv
  <1>2. workers[w].pc \in Holding /\ At(w, "select")
    BY DEF SelectIncident, At, Holding, WorkerPc
  <1>3. workers[w].job \in Requests /\ Holds(w, workers[w].job)
    BY <1>2, HoldsItsJob DEF IInv
  <1>4. \A v \in Workers, q \in Requests : Holds(v, q)' <=> Holds(v, q)
    BY <1>1, <1>2 DEF Holds, OnlyWorker, Holding, WorkerPc
  <1>5. UNCHANGED <<jobs, calls, incidents, recorded, posted, reports, dlq>>
    BY DEF SelectIncident
  <1>6. HeldExclusively'
    BY <1>1, <1>2, <1>4, <1>5 DEF IInv, HeldExclusively, At, OnlyWorker
  <1>7. DeadLetterIffFailed' /\ KeysUnique' /\ EffectsInOrder'
    BY <1>5 DEF IInv, DeadLetterIffFailed, KeysUnique, EffectsInOrder, JobsWithKey
  <1>8. NothingBeforeCommit' /\ RowsKept'
    BY <1>4, <1>5 DEF IInv, NothingBeforeCommit, RowsKept
  <1>9. StepsDone'
    BY <1>1, <1>4, <1>5 DEF IInv, StepsDone, At, OnlyWorker
  <1>10. AnalysisNotRepeated'
    BY <1>1, <1>5 DEF IInv, AnalysisNotRepeated, AlreadyAnalysed, At, OnlyWorker
  <1>11. QED
    BY <1>6, <1>7, <1>8, <1>9, <1>10 DEF IInv

\* The analysis is stored.  Only the worker that holds the job was about to
\* store an event with its key.
LEMMA AppendIInv ==
    ASSUME IInv, TypeOK', NEW w \in Workers, NEW pc \in {"report", "failed"},
           At(w, "decide"), AppendAnalysis(w), GoTo(w, pc),
           UNCHANGED <<jobs, calls, incidents, posted, reports, dlq>>
    PROVE  IInv'
  <1> USE DEF Exists, KeyOf, IncidentOf
  <1> DEFINE j == workers[w].job
  <1>1. workers'[w].pc = pc /\ workers'[w].job = j /\ OnlyWorker(w)
    BY GoToFacts DEF IInv
  <1>2. workers[w].pc \in Holding
    BY DEF At, Holding, WorkerPc
  <1>3. j \in Requests /\ Holds(w, j)
    BY <1>2, HoldsItsJob DEF IInv
  <1>4. Exists(j) /\ recorded' = recorded \cup {KeyOf(j)}
    BY <1>3 DEF AppendAnalysis, IInv, RowsKept
  <1>5. \A v \in Workers, q \in Requests : Holds(v, q)' <=> Holds(v, q)
    BY <1>1, <1>2 DEF Holds, OnlyWorker, Holding, WorkerPc
  <1>6. HeldExclusively'
    BY <1>1, <1>2, <1>5 DEF IInv, HeldExclusively, At, OnlyWorker
  <1>7. DeadLetterIffFailed'
    BY DEF IInv, DeadLetterIffFailed
  <1>8. KeysUnique'
    BY <1>3, <1>4 DEF IInv, KeysUnique, JobsWithKey
  <1>9. NothingBeforeCommit' /\ RowsKept'
    BY <1>5 DEF IInv, NothingBeforeCommit, RowsKept
  <1>10. StepsDone'
    BY <1>1, <1>3, <1>4, <1>5 DEF IInv, StepsDone, At, OnlyWorker, Holds
  <1>11. AnalysisNotRepeated'
    <2> SUFFICES ASSUME NEW v \in Workers, At(v, "decide")', Exists(workers[v].job)'
                 PROVE  KeyOf(workers[v].job)' \notin recorded'
      BY DEF AnalysisNotRepeated
    <2>1. v # w /\ workers'[v] = workers[v] /\ At(v, "decide")
      BY <1>1 DEF At, OnlyWorker
    <2>2. workers[v].job \in Requests /\ Holds(v, workers[v].job)
      BY <2>1, HoldsItsJob DEF IInv, At, Holding, WorkerPc
    <2>3. workers[v].job # j
      BY <1>3, <2>1, <2>2 DEF IInv, HeldExclusively
    <2>4. KeyOf(workers[v].job) # KeyOf(j)
      BY <1>3, <1>4, <2>1, <2>2, <2>3 DEF IInv, KeysUnique
    <2>5. KeyOf(workers[v].job) \notin recorded
      BY <2>1 DEF IInv, AnalysisNotRepeated
    <2>6. QED
      BY <1>4, <2>1, <2>4, <2>5
  <1>12. EffectsInOrder'
    BY <1>4 DEF IInv, EffectsInOrder
  <1>13. QED
    BY <1>6, <1>7, <1>8, <1>9, <1>10, <1>11, <1>12 DEF IInv

\* A report request is on its way only for a job whose analysis is stored.
LEMMA PostReportIInv ==
    ASSUME IInv, TypeOK', NEW w \in Workers, PostReport(w)
    PROVE  IInv'
  <1> USE DEF queue, effects, Exists, KeyOf, IncidentOf
  <1> DEFINE j == workers[w].job
  <1>1. workers'[w].pc = "await" /\ workers'[w].job = j /\ OnlyWorker(w)
    BY GoToFacts DEF PostReport, IInv
  <1>2. workers[w].pc \in Holding /\ At(w, "report")
    BY DEF PostReport, At, Holding, WorkerPc
  <1>3. j \in Requests /\ Holds(w, j)
    BY <1>2, HoldsItsJob DEF IInv
  <1>4. \A v \in Workers, q \in Requests : Holds(v, q)' <=> Holds(v, q)
    BY <1>1, <1>2 DEF Holds, OnlyWorker, Holding, WorkerPc
  <1>5. /\ Exists(j) => KeyOf(j) \in recorded
        /\ IncidentOf(j) \in incidents => Exists(j)
        /\ calls[j].pc = "done"
    BY <1>2, <1>3 DEF IInv, StepsDone, RowsKept, NothingBeforeCommit, At
  <1>6. /\ posted' = posted \cup {j}
        /\ UNCHANGED <<jobs, calls, incidents, recorded, reports, dlq>>
    BY DEF PostReport
  <1>7. HeldExclusively'
    BY <1>1, <1>2, <1>4, <1>6 DEF IInv, HeldExclusively, At, OnlyWorker
  <1>8. DeadLetterIffFailed' /\ KeysUnique' /\ EffectsInOrder'
    BY <1>6 DEF IInv, DeadLetterIffFailed, KeysUnique, EffectsInOrder, JobsWithKey
  <1>9. NothingBeforeCommit' /\ RowsKept'
    BY <1>4, <1>5, <1>6 DEF IInv, NothingBeforeCommit, RowsKept
  <1>10. StepsDone'
    BY <1>1, <1>2, <1>3, <1>4, <1>5, <1>6 DEF IInv, StepsDone, At, OnlyWorker, Holds
  <1>11. AnalysisNotRepeated'
    BY <1>1, <1>6 DEF IInv, AnalysisNotRepeated, At, OnlyWorker
  <1>12. QED
    BY <1>7, <1>8, <1>9, <1>10, <1>11 DEF IInv

\* A step of a worker preserves the invariant.
LEMMA WorkerIInv ==
    ASSUME IInv, TypeOK', NEW w \in Workers, WorkerStep(w) \/ WorkerFault(w) \/ Restart(w)
    PROVE  IInv'
  <1> USE DEF queue, effects
  <1> DEFINE j == workers[w].job
  <1>0. workers[w].pc \in Holding => j \in Requests /\ Holds(w, j)
    BY HoldsItsJob DEF IInv
  <1>1. ASSUME NEW q \in Requests, Claim(w, q)
        PROVE  IInv'
    <2>1. OnlyWorker(w) /\ workers'[w].pc = "fetch" /\ workers'[w].job = q
      BY <1>1 DEF Claim, OnlyWorker, IInv, TypeOK
    <2>2. QED
      BY <1>1, <2>1, ClaimIInv DEF Claim
  <1>2. CASE ClaimFails(w)
    <2>1. OnlyWorker(w) /\ workers'[w].pc \notin Holding
      BY <1>2, WorkerTypes DEF ClaimFails, OnlyWorker, IInv, TypeOK
    <2>2. CASE UNCHANGED jobs
      BY <1>2, <2>1, <2>2, ReleaseIInv DEF ClaimFails
    <2>3. CASE \E q \in Claimable : ClaimNextJob(q)
      BY <1>2, <2>1, <2>3, ClaimIInv DEF ClaimFails, Claimable
    <2>4. QED
      BY <1>2, <2>2, <2>3 DEF ClaimFails
  <1>3. CASE FetchIncident(w)
    <2>1. /\ OnlyWorker(w) /\ workers'[w].pc = "select" /\ workers'[w].job = j
          /\ At(w, "fetch")
      BY <1>3 DEF FetchIncident, OnlyWorker, IInv, TypeOK, Worker
    <2>2. jobs[j].status # "COMPLETED"
      BY <1>0, <2>1 DEF At, IInv, HeldExclusively, Holding, WorkerPc
    <2>3. QED
      BY <1>3, <2>1, <2>2, MoveIInv DEF FetchIncident, At, Holding, WorkerPc
  <1>4. CASE SelectIncident(w)
    <2>1. CASE ~AlreadyAnalysed(j)
      BY <1>4, <2>1, DecideIInv
    <2>2. CASE AlreadyAnalysed(j)
      <3>1. OnlyWorker(w) /\ workers'[w].pc = "report" /\ workers'[w].job = j
        BY <1>4, <2>2, GoToFacts DEF SelectIncident, IInv
      <3>2. jobs[j].status # "COMPLETED"
        BY <1>0, <1>4 DEF SelectIncident, At, IInv, HeldExclusively, Holding, WorkerPc
      <3>3. QED
        BY <1>4, <2>2, <3>1, <3>2, MoveIInv
           DEF SelectIncident, AlreadyAnalysed, At, Holding, WorkerPc
    <2>3. QED
      BY <2>1, <2>2
  <1>5. CASE CommitAnalysis(w)
    BY <1>5, AppendIInv DEF CommitAnalysis
  <1>6. CASE CommitAnalysisUnanswered(w)
    BY <1>6, AppendIInv DEF CommitAnalysisUnanswered
  <1>7. CASE ReportAnswered(w)
    <2>1. OnlyWorker(w) /\ workers'[w].pc = "complete" /\ workers'[w].job = j
      BY <1>7, GoToFacts DEF ReportAnswered, IInv
    <2>2. Holds(w, j) /\ At(w, "await") /\ workers[w].pc \in Holding
      BY <1>0, <1>7 DEF ReportAnswered, At, Holding, WorkerPc
    <2>3. jobs[j].status # "COMPLETED" /\ (KeyOf(j) \in recorded \/ ~Exists(j))
      BY <1>0, <2>2 DEF At, IInv, HeldExclusively, StepsDone
    <2>4. QED
      BY <1>7, <2>1, <2>2, <2>3, MoveIInv DEF ReportAnswered, Holding, WorkerPc
  <1>8. CASE AttemptFails(w)
    <2>1. OnlyWorker(w) /\ workers'[w].pc = "failed" /\ workers'[w].job = j
      BY <1>8, GoToFacts DEF AttemptFails, IInv
    <2>2. workers[w].pc \in Holding
      BY <1>8 DEF AttemptFails, At, Holding, WorkerPc
    <2>3. QED
      BY <1>8, <2>1, <2>2, MoveIInv DEF AttemptFails, Holding, WorkerPc
  <1>9. CASE PostReport(w)
    BY <1>9, PostReportIInv
  <1>10. CASE Complete(w) \/ CompleteFails(w)
    <2>1. /\ j \in Requests /\ Holds(w, j) /\ At(w, "complete") /\ Exists(j)
      BY <1>0, <1>10 DEF Complete, CompleteFails, At, Holding, WorkerPc
    <2>2. j \in reports /\ jobs[j].status = "PROCESSING"
      BY <2>1 DEF IInv, StepsDone, HeldExclusively, At, Exists
    <2>3. jobs[j].status # "FAILED" /\ j \notin dlq /\ jobs[j].tries # MaxRetries
      BY <2>1, <2>2 DEF IInv, DeadLetterIffFailed
    <2>4. /\ OnlyRow(j) /\ jobs'[j].status \in {"PROCESSING", "COMPLETED"}
          /\ jobs'[j].tries = jobs[j].tries
      BY <1>10, <2>1, <2>2
         DEF Complete, CompleteFails, MarkJobComplete, OnlyRow, IInv, TypeOK, Job
    <2>5. /\ OnlyWorker(w)
          /\ \/ workers'[w].pc \notin Holding
             \/ workers'[w].pc = "failed" /\ workers'[w].job = j
      <3>1. CASE Complete(w)
        <4>1. workers' = [workers EXCEPT ![w] = Idle] /\ workers \in [Workers -> Worker]
          BY <3>1 DEF Complete, IInv, TypeOK
        <4>2. QED
          BY <4>1, WorkerTypes DEF OnlyWorker
      <3>2. CASE CompleteFails(w)
        BY <3>2, GoToFacts DEF CompleteFails, IInv
      <3>3. QED
        BY <1>10, <3>1, <3>2
    <2>6. UNCHANGED <<calls, incidents, recorded, posted, reports, dlq>>
      BY <1>10 DEF Complete, CompleteFails
    <2>7. QED
      BY <2>1, <2>2, <2>3, <2>4, <2>5, <2>6, SettleIInv
  <1>11. CASE Retry(w) \/ RetryFails(w)
    <2>1. j \in Requests /\ Holds(w, j) /\ Exists(j) /\ workers[w].pc \in Holding
      BY <1>0, <1>11 DEF Retry, RetryFails, At, Holding, WorkerPc
    <2>2. OnlyWorker(w) /\ workers'[w].pc \notin Holding
      BY <1>11, WorkerTypes DEF Retry, RetryFails, OnlyWorker, IInv, TypeOK
    <2>3. UNCHANGED <<calls, incidents, recorded, posted, reports>>
      BY <1>11 DEF Retry, RetryFails
    <2>4. CASE RetryJob(j)
      <3>1. jobs[j].tries < MaxRetries
        BY <2>1, HeldHasRetryLeft
      <3>2. jobs[j].tries \in 0 .. MaxRetries /\ jobs[j].status # "FAILED"
        BY <2>1 DEF IInv, TypeOK, Job, HeldExclusively, Exists
      <3>3. j \notin dlq
        BY <2>1, <3>2 DEF IInv, DeadLetterIffFailed
      <3>4. OnlyRow(j) /\ jobs'[j].tries = jobs[j].tries + 1
        BY <2>1, <2>4 DEF RetryJob, OnlyRow, IInv, TypeOK
      <3>5. CASE RetriesSpent(jobs[j].tries + 1)
        <4>1. jobs'[j].status = "FAILED" /\ dlq' = dlq \cup {j}
          BY <2>1, <2>4, <3>5 DEF RetryJob, IInv, TypeOK
        <4>2. jobs'[j].tries = MaxRetries
          BY <3>1, <3>2, <3>4, <3>5, QueueAssumption DEF RetriesSpent
        <4>3. QED
          BY <2>1, <2>2, <2>3, <3>4, <4>1, <4>2, SettleIInv
      <3>6. CASE ~RetriesSpent(jobs[j].tries + 1)
        <4>1. jobs'[j].status = "RETRYING" /\ dlq' = dlq
          BY <2>1, <2>4, <3>6 DEF RetryJob, IInv, TypeOK
        <4>2. jobs'[j].tries # MaxRetries
          BY <3>2, <3>4, <3>6, QueueAssumption DEF RetriesSpent
        <4>3. QED
          BY <2>1, <2>2, <2>3, <3>3, <3>4, <4>1, <4>2, SettleIInv
      <3>7. QED
        BY <3>5, <3>6
    <2>5. CASE UNCHANGED <<queue, dlq>>
      BY <2>2, <2>3, <2>5, ReleaseIInv
    <2>6. QED
      BY <1>11, <2>4, <2>5 DEF Retry, RetryFails
  <1>12. CASE RetryFindsNoJob(w) \/ Restart(w)
    <2>1. OnlyWorker(w) /\ workers'[w].pc \notin Holding
      BY <1>12, WorkerTypes DEF RetryFindsNoJob, Restart, OnlyWorker, IInv, TypeOK
    <2>2. QED
      BY <1>12, <2>1, ReleaseIInv DEF RetryFindsNoJob, Restart
  <1>13. QED
    BY <1>1, <1>2, <1>3, <1>4, <1>5, <1>6, <1>7, <1>8, <1>9, <1>10, <1>11, <1>12
       DEF WorkerStep, WorkerFault

\* report-agent stores a report: the job it is for has its analysis.
LEMMA GenerateReportIInv ==
    ASSUME IInv, TypeOK', NEW j \in Requests, GenerateReport(j)
    PROVE  IInv'
  <1> USE DEF queue, Exists, KeyOf, IncidentOf, Holds, At
  <1>1. /\ j \in posted /\ IncidentOf(j) \in incidents
        /\ reports' = reports \cup {j}
        /\ UNCHANGED <<jobs, calls, workers, incidents, recorded, posted, dlq>>
    BY DEF GenerateReport
  <1>2. KeyOf(j) \in recorded /\ calls[j].pc = "done"
    BY <1>1 DEF IInv, RowsKept, StepsDone, NothingBeforeCommit
  <1>3. HeldExclusively' /\ DeadLetterIffFailed' /\ KeysUnique' /\ AnalysisNotRepeated'
    BY <1>1 DEF IInv, HeldExclusively, DeadLetterIffFailed, KeysUnique,
                AnalysisNotRepeated, JobsWithKey
  <1>4. NothingBeforeCommit' /\ RowsKept'
    BY <1>1, <1>2 DEF IInv, NothingBeforeCommit, RowsKept
  <1>5. StepsDone' /\ EffectsInOrder'
    BY <1>1, <1>2 DEF IInv, StepsDone, EffectsInOrder
  <1>6. QED
    BY <1>3, <1>4, <1>5 DEF IInv

\* A deleted incident takes with it its rows, its reports and the keys of its
\* rows: no key of another incident's row is among them.
LEMMA DeleteIncidentIInv ==
    ASSUME IInv, TypeOK', NEW i \in Incidents, DeleteIncident(i)
    PROVE  IInv'
  <1> USE DEF Exists, KeyOf, IncidentOf, Holds, At
  <1> DEFINE Gone(q) == calls[q].inc = i
  <1>1. UNCHANGED <<calls, workers, posted, dlq>> /\ incidents' = incidents \ {i}
    BY DEF DeleteIncident
  <1>2. \A q \in Requests : jobs'[q] = IF Gone(q) THEN Absent ELSE jobs[q]
    BY DEF DeleteIncident
  <1>3. \A q \in Requests : Exists(q)' <=> Exists(q) /\ ~Gone(q)
    BY <1>2 DEF Absent
  <1>4. \A q \in Requests : q \in reports' <=> q \in reports /\ ~Gone(q)
    BY DEF DeleteIncident
  <1>5. recorded' = recorded \ {calls[q].key : q \in {r \in Requests : Gone(r) /\ Exists(r)}}
    BY DEF DeleteIncident
  <1>6. \A q \in Requests : Exists(q)' /\ KeyOf(q) \in recorded => KeyOf(q) \in recorded'
    BY <1>3, <1>5 DEF IInv, KeysUnique
  <1>7. HeldExclusively'
    BY <1>1, <1>2 DEF IInv, HeldExclusively, Absent
  <1>8. DeadLetterIffFailed'
    BY <1>1, <1>2 DEF IInv, DeadLetterIffFailed, Absent
  <1>9. NothingBeforeCommit'
    BY <1>1, <1>3, <1>4 DEF IInv, NothingBeforeCommit
  <1>10. KeysUnique'
    <2>1. ASSUME NEW k \in recorded'
          PROVE  JobsWithKey(k)' # {}
      <3>1. PICK q \in Requests : Exists(q) /\ KeyOf(q) = k
        BY <1>5 DEF IInv, KeysUnique, JobsWithKey
      <3>2. ~Gone(q)
        BY <1>5, <3>1
      <3>3. QED
        BY <1>1, <1>3, <3>1, <3>2 DEF JobsWithKey
    <2>2. QED
      BY <1>1, <1>3, <2>1 DEF IInv, KeysUnique
  <1>11. RowsKept'
    BY <1>1, <1>3, <1>4 DEF IInv, RowsKept, TypeOK
  <1>12. StepsDone'
    BY <1>1, <1>3, <1>4, <1>6 DEF IInv, StepsDone, TypeOK
  <1>13. AnalysisNotRepeated'
    <2> SUFFICES ASSUME NEW w \in Workers, At(w, "decide")', Exists(workers[w].job)'
                 PROVE  KeyOf(workers[w].job)' \notin recorded'
      BY DEF AnalysisNotRepeated
    <2>1. workers[w].job \in Requests
      BY <1>1 DEF IInv, TypeOK, Holding, WorkerPc
    <2>2. KeyOf(workers[w].job) \notin recorded
      BY <1>1, <1>3, <2>1 DEF IInv, AnalysisNotRepeated
    <2>3. QED
      BY <1>1, <1>5, <2>2
  <1>14. EffectsInOrder'
    <2> SUFFICES ASSUME NEW q \in Requests
                 PROVE  /\ jobs'[q].status = "COMPLETED" => q \in reports'
                        /\ q \in reports' => KeyOf(q)' \in recorded'
      BY DEF EffectsInOrder
    <2>1. jobs'[q].status = "COMPLETED" => q \in reports'
      BY <1>2, <1>4 DEF IInv, EffectsInOrder, Absent
    <2>2. ASSUME q \in reports'
          PROVE  KeyOf(q)' \in recorded'
      <3>1. q \in reports /\ ~Gone(q) /\ KeyOf(q) \in recorded
        BY <1>4, <2>2 DEF IInv, EffectsInOrder
      <3>2. Exists(q)
        BY <3>1 DEF IInv, RowsKept
      <3>3. QED
        BY <1>1, <1>3, <1>6, <3>1, <3>2
    <2>3. QED
      BY <2>1, <2>2
  <1>15. QED
    BY <1>7, <1>8, <1>9, <1>10, <1>11, <1>12, <1>13, <1>14 DEF IInv

\* The invariant holds initially.
LEMMA InitIInv == Init => IInv
  <1> SUFFICES ASSUME Init
               PROVE  IInv
    OBVIOUS
  <1> USE DEF Init, Exists, Holds, At
  <1>1. TypeOK
    <2>1. calls \in [Requests -> Call]
      BY DEF Call
    <2>2. QED
      BY <2>1, RowTypes, WorkerTypes, QueueAssumption DEF TypeOK
  <1>2. \A w \in Workers : workers[w].pc = "idle"
    BY DEF Idle
  <1>3. \A j \in Requests : jobs[j].status = "ABSENT"
    BY DEF Absent
  <1>4. HeldExclusively /\ DeadLetterIffFailed /\ NothingBeforeCommit
    BY <1>2, <1>3 DEF HeldExclusively, DeadLetterIffFailed, NothingBeforeCommit, Holding, WorkerPc
  <1>5. KeysUnique /\ RowsKept /\ StepsDone
    BY <1>2, <1>3 DEF KeysUnique, RowsKept, StepsDone, Holding, WorkerPc
  <1>6. AnalysisNotRepeated /\ EffectsInOrder
    BY <1>2, <1>3 DEF AnalysisNotRepeated, EffectsInOrder
  <1>7. QED
    BY <1>1, <1>4, <1>5, <1>6 DEF IInv

\* Every step preserves the invariant.
LEMMA NextIInv ==
    ASSUME IInv, BatchesWhole, [Next]_vars
    PROVE  IInv'
  <1>0. TypeOK'
    BY NextTypeOK
  <1>1. CASE EnqueueStep
    BY <1>0, <1>1, EnqueueIInv
  <1>2. CASE \E w \in Workers : WorkerStep(w) \/ WorkerFault(w) \/ Restart(w)
    BY <1>0, <1>2, WorkerIInv
  <1>3. ASSUME NEW j \in Requests, GenerateReport(j)
        PROVE  IInv'
    BY <1>0, <1>3, GenerateReportIInv
  <1>4. ASSUME NEW i \in Incidents, DeleteIncident(i)
        PROVE  IInv'
    BY <1>0, <1>4, DeleteIncidentIInv
  <1>5. CASE UNCHANGED <<jobs, calls, workers, incidents, effects>>
    BY <1>0, <1>5
       DEF effects, IInv, HeldExclusively, DeadLetterIffFailed, NothingBeforeCommit,
           KeysUnique, RowsKept, StepsDone, AnalysisNotRepeated, EffectsInOrder,
           JobsWithKey, Exists, KeyOf, IncidentOf, Holds, At
  <1>6. QED
    BY <1>1, <1>2, <1>3, <1>4, <1>5 DEF Next, DelayElapsed, vars, effects

\* The calls of a transaction stay together, in every reachable state.
LEMMA AlwaysWhole == Spec => [](TypeOK /\ IInv /\ BatchesWhole)
  <1>1. Init => BatchesWhole
    BY DEF Init, BatchesWhole, OpenCalls
  <1>2. TypeOK /\ IInv /\ BatchesWhole /\ [Next]_vars => (TypeOK /\ IInv /\ BatchesWhole)'
    BY NextIInv, NextTypeOK, NextBatchesWhole
  <1>3. Init => TypeOK
    BY InitIInv DEF IInv
  <1>4. QED
    BY <1>1, <1>2, <1>3, InitIInv, PTL DEF Spec

\* The invariant holds in every reachable state.
THEOREM Invariance == Spec => []IInv
  BY AlwaysWhole, PTL

\* Every variable keeps its shape, whatever the number of workers, calls,
\* restarts, deletions and faults.
THEOREM TypeCorrect == Spec => []TypeOK
  BY Invariance, PTL DEF IInv

\* claim_next_job gives a job to one worker at a time.
THEOREM Exclusion == Spec => []HeldExclusively
  BY Invariance, PTL DEF IInv

\* The look-up of the job's key makes a second analysis impossible.
THEOREM NoSecondAnalysis == Spec => []AnalysisNotRepeated
  BY Invariance, PTL DEF IInv

\* A job is COMPLETED only after its report, and reported only after its
\* analysis, through every retry, restart and lost answer.
THEOREM OrderedEffects == Spec => []EffectsInOrder
  BY Invariance, PTL DEF IInv

\* The dead-letter queue holds exactly the existing jobs that were given up,
\* and these are exactly the ones whose retries are spent.
THEOREM DeadLetters == Spec => []DeadLetterIffFailed
  BY Invariance, PTL DEF IInv

\* FAILED is final: no step of any actor gives a job that was given up another
\* status, except the deletion of its incident.
THEOREM FailedStays == Spec => FailedIsFinal
  <1>1. ASSUME IInv, [Next]_vars, NEW j \in Requests, jobs[j].status = "FAILED"
        PROVE  jobs'[j].status \in {"FAILED", "ABSENT"}
    <2> USE DEF queue, effects
    <2>1. Exists(j) /\ \A w \in Workers : ~Holds(w, j)
      BY <1>1 DEF Exists, IInv, HeldExclusively
    <2>2. \A w \in Workers : workers[w].pc \in Holding => workers[w].job # j
      BY <2>1, <1>1 DEF Holds
    <2>3. CASE EnqueueStep
      <3>1. \A b \in Requests : j \notin InsertsOf(b)
        BY <1>1, <2>1 DEF IInv, NothingBeforeCommit, InsertsOf, CallsOf, OpenCalls
      <3>2. \/ UNCHANGED jobs
            \/ \E b \in Requests :
                 jobs' = [q \in Requests |-> IF q \in InsertsOf(b) THEN Pending ELSE jobs[q]]
        <4>1. CASE \E r \in Requests, kind \in Kinds, i \in Incidents :
                     \E k \in Keys \cup {r}, b \in OpenBatches \cup {r} :
                        EnqueueCheck(r, kind, i, k, b) \/ EnqueueRaises(r, kind, i, k, b)
          BY <4>1 DEF EnqueueCheck, EnqueueRaises
        <4>2. ASSUME NEW b \in Requests,
                     EnqueueCommit(b) \/ EnqueueConflict(b) \/ EnqueueFails(b)
              PROVE  \/ UNCHANGED jobs
                     \/ jobs' = [q \in Requests |->
                                   IF q \in InsertsOf(b) THEN Pending ELSE jobs[q]]
          BY <4>2 DEF EnqueueCommit, EnqueueConflict, EnqueueFails
        <4>3. QED
          BY <2>3, <4>1, <4>2 DEF EnqueueStep
      <3>3. QED
        BY <1>1, <3>1, <3>2
    <2>4. ASSUME NEW w \in Workers, WorkerStep(w) \/ WorkerFault(w) \/ Restart(w)
          PROVE  jobs'[j] = jobs[j]
      <3>1. CASE workers[w].job # j
        BY <1>1, <2>4, <3>1
           DEF WorkerStep, WorkerFault, Claim, ClaimFails, ClaimNextJob, Claimable,
               FetchIncident, SelectIncident, CommitAnalysis, CommitAnalysisUnanswered,
               PostReport, ReportAnswered, AttemptFails, Complete, CompleteFails,
               MarkJobComplete, Retry, RetryFails, RetryJob, RetryFindsNoJob, Restart,
               IInv, TypeOK
      <3>2. CASE workers[w].pc \notin Holding
        BY <1>1, <2>4, <3>2
           DEF WorkerStep, WorkerFault, Claim, ClaimFails, ClaimNextJob, Claimable,
               FetchIncident, SelectIncident, CommitAnalysis, CommitAnalysisUnanswered,
               PostReport, ReportAnswered, AttemptFails, Complete, CompleteFails,
               Retry, RetryFails, RetryFindsNoJob, Restart, At, Holding, WorkerPc,
               IInv, TypeOK
      <3>3. QED
        BY <2>2, <3>1, <3>2
    <2>5. CASE \E q \in Requests : GenerateReport(q) \/ DelayElapsed(q)
      BY <1>1, <2>5 DEF GenerateReport, DelayElapsed
    <2>6. CASE \E i \in Incidents : DeleteIncident(i)
      BY <1>1, <2>6 DEF DeleteIncident, Absent
    <2>7. CASE UNCHANGED vars
      BY <1>1, <2>7 DEF vars
    <2>8. QED
      BY <1>1, <2>3, <2>4, <2>5, <2>6, <2>7 DEF Next
  <1>2. IInv /\ [Next]_vars =>
          [\A j \in Requests : jobs[j].status = "FAILED" =>
                                   jobs'[j].status \in {"FAILED", "ABSENT"}]_vars
    BY <1>1
  <1>3. QED
    BY <1>2, Invariance, PTL DEF Spec, FailedIsFinal

-----------------------------------------------------------------------------
(* How many jobs the queue can hold at once, for any value of the bounds:  *)
(* BacklogBounded and OneIngestedJobPerIncident.                           *)

\* Completed jobs whose worker was not told: it will take them back.
Undone == {j \in Requests :
             jobs[j].status = "COMPLETED" /\ \E w \in Workers : Holds(w, j)}

\* Calls that have decided to insert a job and have not committed.
Inserting == {r \in OpenCalls : calls[r].verdict = "insert"}

\* All that is, may become, or may become again, an active job.
Load == ActiveJobs \cup Inserting \cup Undone
IngestedLoad(i) == {j \in Load : calls[j].kind = "ingest" /\ calls[j].inc = i}

\* What transactions may insert without seeing each other.
Slack == (MaxOpen - 1) * InsertsUnseen

\* Each lost answer undoes one completion, and only that raises the two bounds.
Counted ==
    /\ Cardinality(Undone) <= dbFaults
    /\ Cardinality(Load) <= MaxPending + Slack + dbFaults
    /\ \A i \in Incidents : Cardinality(IngestedLoad(i)) <= 1 + dbFaults

\* Requests are finitely many, and so is every set of them.
LEMMA SetsOfRequests ==
    ASSUME NEW S \in SUBSET Requests
    PROVE  /\ IsFiniteSet(S)
           /\ Cardinality(S) \in Nat
           /\ \A T \in SUBSET S : Cardinality(T) <= Cardinality(S)
  <1>1. IsFiniteSet(Requests)
    BY FS_Interval, QueueAssumption DEF Requests
  <1>2. IsFiniteSet(S)
    BY <1>1, FS_Subset
  <1>3. QED
    BY <1>2, FS_Subset, FS_CardinalityType

\* Two sets together have no more elements than the two added up.
LEMMA UnionBound ==
    ASSUME NEW S \in SUBSET Requests, NEW T \in SUBSET Requests
    PROVE  /\ Cardinality(S \cup T) <= Cardinality(S) + Cardinality(T)
           /\ Cardinality(S \cup T) \in Nat /\ S \cup T \in SUBSET Requests
  <1>1. S \cup T \in SUBSET Requests /\ S \cap T \in SUBSET Requests
    OBVIOUS
  <1>2. /\ Cardinality(S \cup T) \in Nat /\ Cardinality(S \cap T) \in Nat
        /\ Cardinality(S) \in Nat /\ Cardinality(T) \in Nat
        /\ IsFiniteSet(S) /\ IsFiniteSet(T)
    BY <1>1, SetsOfRequests
  <1>3. Cardinality(S \cup T) = Cardinality(S) + Cardinality(T) - Cardinality(S \cap T)
    BY <1>2, FS_Union
  <1>4. QED
    BY <1>1, <1>2, <1>3

\* The sets that are counted are sets of requests.
LEMMA Counts ==
    /\ Undone \in SUBSET Requests
    /\ OpenCalls \in SUBSET Requests /\ Inserting \in SUBSET OpenCalls
    /\ ActiveJobs \in SUBSET Requests /\ Load \in SUBSET Requests
    /\ \A i : IngestedLoad(i) \in SUBSET Load
  BY DEF Undone, OpenCalls, Inserting, ActiveJobs, Load, IngestedLoad

\* No more than MaxOpen transactions are open; each has at most MaxBatch calls
\* and sees its own inserts, so it inserts no more than the limit.
BatchesBounded ==
    /\ Cardinality(OpenBatches) <= MaxOpen
    /\ \A b \in Requests : /\ Cardinality(CallsOf(b)) <= MaxBatch
                           /\ Cardinality(InsertsOf(b)) <= InsertsUnseen

\* The calls and inserts of a transaction, and the transactions, are requests.
LEMMA Batches ==
    ASSUME TypeOK
    PROVE  /\ OpenBatches \in SUBSET Requests
           /\ \A b : /\ CallsOf(b) \in SUBSET Requests /\ CallsOf(b) \in SUBSET OpenCalls
                     /\ InsertsOf(b) \in SUBSET CallsOf(b) /\ InsertsOf(b) \in SUBSET Requests
                     /\ InsertsOf(b) = {r \in Inserting : calls[r].batch = b}
  BY DEF OpenBatches, CallsOf, InsertsOf, Inserting, OpenCalls, TypeOK, Call

\* The bounds are numbers, and so is what they add up to.
LEMMA SlackBounds ==
    /\ InsertsUnseen \in Nat /\ InsertsUnseen <= MaxBatch /\ InsertsUnseen <= MaxPending
    /\ MaxBatch \in Nat /\ MaxBatch >= 1 /\ MaxPending \in Nat
    /\ MaxOpen \in Nat /\ MaxOpen >= 1
    /\ Slack \in Nat
    /\ \A n \in Nat : n <= MaxOpen - 1 => n * InsertsUnseen <= Slack
  <1>1. /\ InsertsUnseen \in Nat /\ InsertsUnseen <= MaxBatch /\ InsertsUnseen <= MaxPending
        /\ MaxBatch \in Nat /\ MaxBatch >= 1 /\ MaxPending \in Nat
        /\ MaxOpen \in Nat /\ MaxOpen >= 1
    BY QueueAssumption DEF InsertsUnseen
  <1>2. \A m, k \in Nat : m * k \in Nat /\ \A n \in Nat : n <= m => n * k <= m * k
    OBVIOUS
  <1>3. MaxOpen - 1 \in Nat
    BY <1>1
  <1>4. QED
    BY <1>1, <1>2, <1>3 DEF Slack

\* A set in parts of at most k elements each has at most k elements for each part.
LEMMA PartsBound ==
    ASSUME NEW S \in SUBSET Requests, NEW P \in SUBSET Requests, NEW k \in Nat,
           NEW part \in [S -> P],
           \A p \in P : Cardinality({x \in S : part[x] = p}) <= k
    PROVE  Cardinality(S) <= Cardinality(P) * k
  <1> DEFINE Part(p) == {x \in S : part[x] = p}
             rank == [p \in P |-> CHOOSE f : f \in Injection(Part(p), 1 .. k)]
             place == [x \in S |-> <<part[x], rank[part[x]][x]>>]
  <1>1. ASSUME NEW p \in P
        PROVE  \E f : f \in Injection(Part(p), 1 .. k)
    <2>1. Part(p) \in SUBSET Requests
      OBVIOUS
    <2>2. PICK n \in Nat : n = Cardinality(Part(p))
      BY <2>1, SetsOfRequests
    <2>3. IsFiniteSet(Part(p)) /\ n <= k
      BY <2>1, <2>2, SetsOfRequests
    <2> HIDE DEF Part
    <2>4. ExistsBijection(1 .. n, Part(p))
      BY <2>2, <2>3, FS_CardinalityType
    <2>5. ExistsBijection(Part(p), 1 .. n)
      BY <2>4, Fun_ExistsBijSymmetric
    <2>6. PICK f : f \in Bijection(Part(p), 1 .. n)
      BY <2>5 DEF ExistsBijection
    <2>7. 1 .. n \subseteq 1 .. k
      BY <2>3
    <2>8. f \in Injection(Part(p), 1 .. k)
      BY <2>6, <2>7 DEF Bijection, Injection
    <2>9. QED
      BY <2>8
  <1>2. \A p \in P : rank[p] \in Injection(Part(p), 1 .. k)
    BY <1>1
  <1> HIDE DEF rank
  <1>3. place \in Injection(S, P \X (1 .. k))
    <2>1. \A x \in S : rank[part[x]][x] \in 1 .. k
      BY <1>2 DEF Injection
    <2>2. ASSUME NEW x \in S, NEW y \in S, part[x] = part[y],
                 rank[part[x]][x] = rank[part[x]][y]
          PROVE  x = y
      <3>1. part[x] \in P /\ x \in Part(part[x]) /\ y \in Part(part[x])
        BY <2>2
      <3>2. PICK f \in [Part(part[x]) -> 1 .. k] : f = rank[part[x]] /\ IsInjective(f)
        BY <1>2, <3>1 DEF Injection
      <3>3. DOMAIN f = Part(part[x])
        BY <3>2
      <3>4. QED
        BY <2>2, <3>1, <3>2, <3>3 DEF IsInjective
    <2>3. QED
      BY <2>1, <2>2 DEF Injection, IsInjective
  <1>4. /\ IsFiniteSet(P \X (1 .. k)) /\ IsFiniteSet(S)
        /\ Cardinality(P \X (1 .. k)) = Cardinality(P) * k
    <2>1. IsFiniteSet(P) /\ IsFiniteSet(S)
      BY SetsOfRequests
    <2>2. IsFiniteSet(1 .. k) /\ Cardinality(1 .. k) = IF 1 > k THEN 0 ELSE k - 1 + 1
      BY FS_Interval
    <2>3. Cardinality(1 .. k) = k
      BY <2>2
    <2>4. QED
      BY <2>1, <2>2, <2>3, FS_Product
  <1> HIDE DEF place
  <1>5. QED
    BY <1>3, <1>4, FS_Injection

\* Every step keeps the transactions within their bounds.
LEMMA NextBatchesBounded ==
    ASSUME IInv, BatchesWhole, BatchesBounded, [Next]_vars
    PROVE  BatchesBounded'
  <1>0. TypeOK /\ TypeOK'
    BY NextTypeOK DEF IInv
  <1>1. ASSUME NEW some \in SUBSET Requests, NEW pc \in {"done", "error"}, End(some, pc)
        PROVE  BatchesBounded'
    <2>1. /\ OpenCalls' = OpenCalls \ some
          /\ \A r \in Requests : /\ calls'[r].batch = calls[r].batch
                                 /\ calls'[r].verdict = calls[r].verdict
      BY <1>0, <1>1, EndFacts
    <2>2. OpenCalls \subseteq Requests
      BY DEF OpenCalls
    <2>3. /\ OpenBatches' \subseteq OpenBatches
          /\ \A b : CallsOf(b)' \subseteq CallsOf(b) /\ InsertsOf(b)' \subseteq InsertsOf(b)
      BY <2>1, <2>2 DEF OpenBatches, CallsOf, InsertsOf
    <2>4. /\ Cardinality(OpenBatches') <= Cardinality(OpenBatches)
          /\ Cardinality(OpenBatches') \in Nat /\ Cardinality(OpenBatches) \in Nat
      BY <1>0, <2>3, Batches, SetsOfRequests
    <2>5. ASSUME NEW b \in Requests
          PROVE  /\ Cardinality(CallsOf(b)') <= Cardinality(CallsOf(b))
                 /\ Cardinality(CallsOf(b)') \in Nat /\ Cardinality(CallsOf(b)) \in Nat
                 /\ Cardinality(InsertsOf(b)') <= Cardinality(InsertsOf(b))
                 /\ Cardinality(InsertsOf(b)') \in Nat /\ Cardinality(InsertsOf(b)) \in Nat
      <3>1. CallsOf(b)' \in SUBSET CallsOf(b) /\ InsertsOf(b)' \in SUBSET InsertsOf(b)
        BY <2>3
      <3>2. CallsOf(b) \in SUBSET Requests /\ InsertsOf(b) \in SUBSET Requests
        BY <1>0, Batches
      <3>3. CallsOf(b)' \in SUBSET Requests /\ InsertsOf(b)' \in SUBSET Requests
        BY <3>1, <3>2
      <3>4. QED
        BY <3>1, <3>2, <3>3, SetsOfRequests
    <2>6. QED
      BY <2>4, <2>5, SlackBounds DEF BatchesBounded, InsertsUnseen
  <1>2. ASSUME NEW r \in Requests, NEW kind \in Kinds, NEW i \in Incidents,
               NEW k \in Keys \cup {r}, NEW b \in OpenBatches \cup {r},
               EnqueueCheck(r, kind, i, k, b)
        PROVE  BatchesBounded'
    <2>1. /\ b \in Requests /\ OpenCalls' = OpenCalls \cup {r} /\ r \notin OpenCalls
          /\ calls'[r].batch = b /\ calls'[r].verdict = Verdict(i, k, b)
          /\ \A q \in Requests \ {r} : calls'[q] = calls[q]
      BY <1>0, <1>2, CheckFacts
    <2>2. OpenCalls \subseteq Requests
      BY DEF OpenCalls
    <2>3. /\ OpenBatches' = OpenBatches \cup {b}
          /\ CallsOf(b)' = CallsOf(b) \cup {r}
          /\ InsertsOf(b)' \subseteq InsertsOf(b) \cup {r}
          /\ Verdict(i, k, b) # "insert" => InsertsOf(b)' = InsertsOf(b)
          /\ \A c \in Requests : c # b => CallsOf(c)' = CallsOf(c) /\ InsertsOf(c)' = InsertsOf(c)
      BY <2>1, <2>2 DEF OpenBatches, CallsOf, InsertsOf
    <2>4. /\ OpenBatches \in SUBSET Requests /\ CallsOf(b) \in SUBSET Requests
          /\ InsertsOf(b) \in SUBSET Requests /\ InsertsOf(b)' \in SUBSET Requests
          /\ InsertsOf(b)' \in SUBSET CallsOf(b)'
      <3>1. /\ OpenBatches \in SUBSET Requests /\ CallsOf(b) \in SUBSET Requests
            /\ InsertsOf(b) \in SUBSET Requests
        BY <1>0, Batches
      <3>2. InsertsOf(b)' \in SUBSET CallsOf(b)'
        BY DEF InsertsOf
      <3>3. QED
        BY <2>3, <3>1, <3>2
    <2>5. ASSUME b \in OpenBatches, Cardinality(CallsOf(b)) < MaxBatch
          PROVE  Cardinality(OpenBatches') <= MaxOpen /\ Cardinality(CallsOf(b)') <= MaxBatch
      <3>1. OpenBatches' = OpenBatches
        BY <2>3, <2>5
      <3>2. Cardinality(CallsOf(b)') <= MaxBatch
        <4>1. Cardinality(CallsOf(b) \cup {r}) <= Cardinality(CallsOf(b)) + 1
              /\ Cardinality(CallsOf(b)) \in Nat
          BY <2>4, SetsOfRequests, FS_AddElement
        <4>2. Cardinality(CallsOf(b) \cup {r}) \in Nat
          <5>1. CallsOf(b) \cup {r} \in SUBSET Requests
            BY <2>4
          <5>2. QED
            BY <5>1, SetsOfRequests
        <4>3. QED
          BY <2>3, <2>5, <4>1, <4>2, SlackBounds
      <3>3. Cardinality(OpenBatches') <= MaxOpen
        BY <3>1 DEF BatchesBounded
      <3>4. QED
        BY <3>2, <3>3
    <2>6. ASSUME b = r, Cardinality(OpenBatches) < MaxOpen
          PROVE  Cardinality(OpenBatches') <= MaxOpen /\ Cardinality(CallsOf(b)') <= MaxBatch
      <3>1. Cardinality(OpenBatches') <= MaxOpen
        <4>1. Cardinality(OpenBatches \cup {b}) <= Cardinality(OpenBatches) + 1
              /\ Cardinality(OpenBatches) \in Nat
          BY <2>4, SetsOfRequests, FS_AddElement
        <4>2. Cardinality(OpenBatches \cup {b}) \in Nat
          <5>1. OpenBatches \cup {b} \in SUBSET Requests
            BY <2>1, <2>4
          <5>2. QED
            BY <5>1, SetsOfRequests
        <4>3. QED
          BY <2>3, <2>6, <4>1, <4>2, SlackBounds
      <3>2. CallsOf(b)' = {r}
        BY <2>1, <2>3, <2>6 DEF CallsOf, BatchesWhole
      <3>3. Cardinality(CallsOf(b)') <= MaxBatch
        BY <3>2, FS_Singleton, SlackBounds
      <3>4. QED
        BY <3>1, <3>3
    <2>7. /\ Cardinality(OpenBatches') <= MaxOpen /\ Cardinality(CallsOf(b)') <= MaxBatch
      <3>1. Opens(r, b) \/ Continues(b)
        BY <1>2, Zenon DEF EnqueueCheck, MayCall
      <3>2. QED
        BY <2>5, <2>6, <3>1 DEF Opens, Continues
    <2>8. Cardinality(InsertsOf(b)') <= InsertsUnseen
      <3>1. CASE Verdict(i, k, b) # "insert"
        BY <2>1, <2>3, <3>1 DEF BatchesBounded, InsertsUnseen
      <3>2. CASE Verdict(i, k, b) = "insert"
        <4>1. ActiveJobsSeen(b) \in SUBSET Requests /\ InsertsOf(b) \in SUBSET ActiveJobsSeen(b)
          BY <2>4, Counts DEF ActiveJobsSeen
        <4>2. Cardinality(ActiveJobsSeen(b)) < MaxPending
          BY <3>2, <4>1, SetsOfRequests, SlackBounds DEF Verdict, BacklogFull
        <4>3. Cardinality(InsertsOf(b)) <= Cardinality(ActiveJobsSeen(b))
              /\ Cardinality(InsertsOf(b)) \in Nat /\ Cardinality(ActiveJobsSeen(b)) \in Nat
          BY <2>4, <4>1, SetsOfRequests
        <4>4. InsertsOf(b) \cup {r} \in SUBSET Requests
          BY <2>4
        <4>5. /\ Cardinality(InsertsOf(b)') <= Cardinality(InsertsOf(b) \cup {r})
              /\ Cardinality(InsertsOf(b)') \in Nat
              /\ Cardinality(InsertsOf(b) \cup {r}) \in Nat
          BY <2>3, <2>4, <4>4, SetsOfRequests
        <4>6. Cardinality(InsertsOf(b) \cup {r}) <= Cardinality(InsertsOf(b)) + 1
          BY <2>4, <4>3, SetsOfRequests, FS_AddElement
        <4>7. Cardinality(InsertsOf(b)') <= MaxPending
          BY <4>2, <4>3, <4>5, <4>6, SlackBounds
        <4>8. CallsOf(b)' \in SUBSET Requests
          BY <2>3, <2>4
        <4>9. Cardinality(InsertsOf(b)') <= Cardinality(CallsOf(b)')
              /\ Cardinality(CallsOf(b)') \in Nat
          BY <2>4, <4>8, SetsOfRequests
        <4>10. Cardinality(InsertsOf(b)') <= MaxBatch
          BY <2>7, <4>5, <4>9, SlackBounds
        <4>11. QED
          BY <4>7, <4>10 DEF InsertsUnseen
      <3>3. QED
        BY <3>1, <3>2
    <2>9. ASSUME NEW c \in Requests
          PROVE  Cardinality(CallsOf(c)') <= MaxBatch /\ Cardinality(InsertsOf(c)') <= InsertsUnseen
      BY <2>3, <2>7, <2>8 DEF BatchesBounded
    <2>10. QED
      BY <2>7, <2>9 DEF BatchesBounded, InsertsUnseen
  <1>3. ASSUME NEW r \in Requests, NEW kind \in Kinds, NEW i \in Incidents,
               NEW k \in Keys \cup {r}, NEW b \in OpenBatches \cup {r},
               EnqueueRaises(r, kind, i, k, b)
        PROVE  BatchesBounded'
    <2>1. CallsOf(b) \cup {r} \in SUBSET Requests /\ End(CallsOf(b) \cup {r}, "error")
      BY <1>0, <1>3, Batches DEF EnqueueRaises
    <2>2. QED
      BY <1>1, <2>1
  <1>4. ASSUME NEW b \in Requests, EnqueueCommit(b) \/ EnqueueConflict(b) \/ EnqueueFails(b)
        PROVE  BatchesBounded'
    <2>1. CallsOf(b) \in SUBSET Requests
      BY <1>0, Batches
    <2>2. PICK pc \in {"done", "error"} : End(CallsOf(b), pc)
      BY <1>4 DEF EnqueueCommit, EnqueueConflict, EnqueueFails
    <2>3. QED
      BY <1>1, <2>1, <2>2
  <1>5. CASE UNCHANGED calls
    BY <1>5 DEF BatchesBounded, OpenBatches, CallsOf, InsertsOf, OpenCalls, InsertsUnseen
  <1>6. ASSUME NEW w \in Workers, WorkerStep(w) \/ WorkerFault(w) \/ Restart(w)
        PROVE  UNCHANGED calls
    BY <1>6
       DEF WorkerStep, WorkerFault, Claim, ClaimFails, FetchIncident, SelectIncident,
           CommitAnalysis, CommitAnalysisUnanswered, PostReport, ReportAnswered,
           AttemptFails, Complete, CompleteFails, Retry, RetryFails, RetryFindsNoJob, Restart
  <1>7. QED
    BY <1>2, <1>3, <1>4, <1>5, <1>6
       DEF Next, EnqueueStep, GenerateReport, DelayElapsed, DeleteIncident, vars

\* A step that adds nothing to the load, and no undone completion but one with
\* the failure that undid it, keeps the counts.
LEMMA NothingAdded ==
    ASSUME Counted, TypeOK, TypeOK', Load' \subseteq Load,
           \A j \in Load' : calls'[j].kind = calls[j].kind /\ calls'[j].inc = calls[j].inc,
           dbFaults' >= dbFaults,
           \/ Undone' \subseteq Undone
           \/ /\ dbFaults' = dbFaults + 1
              /\ \E j \in Requests : Undone' \subseteq Undone \cup {j}
    PROVE  Counted'
  <1>0. dbFaults \in Nat /\ dbFaults' \in Nat
    BY QueueAssumption DEF TypeOK
  <1>1. Load \in SUBSET Requests /\ Load' \in SUBSET Load /\ Undone \in SUBSET Requests
    BY Counts
  <1>2. /\ Cardinality(Load') <= Cardinality(Load)
        /\ Cardinality(Load) \in Nat /\ Cardinality(Load') \in Nat
    BY <1>1, SetsOfRequests
  <1>3. Cardinality(Load') <= MaxPending + Slack + dbFaults'
    BY <1>0, <1>2, SlackBounds DEF Counted
  <1>4. ASSUME NEW i \in Incidents
        PROVE  Cardinality(IngestedLoad(i)') <= 1 + dbFaults'
    <2>1. IngestedLoad(i)' \in SUBSET IngestedLoad(i)
      BY <1>1 DEF IngestedLoad
    <2>2. IngestedLoad(i) \in SUBSET Requests
      BY <1>1 DEF IngestedLoad
    <2>3. /\ Cardinality(IngestedLoad(i)') <= Cardinality(IngestedLoad(i))
          /\ Cardinality(IngestedLoad(i)) \in Nat /\ Cardinality(IngestedLoad(i)') \in Nat
      BY <2>1, <2>2, SetsOfRequests
    <2>4. QED
      BY <1>0, <2>3 DEF Counted
  <1>5. Cardinality(Undone') <= dbFaults'
    <2>1. CASE Undone' \subseteq Undone
      <3>1. /\ Cardinality(Undone') <= Cardinality(Undone)
            /\ Cardinality(Undone) \in Nat /\ Cardinality(Undone') \in Nat
        BY <1>1, <2>1, SetsOfRequests
      <3>2. QED
        BY <1>0, <3>1 DEF Counted
    <2>2. ASSUME NEW j \in Requests, Undone' \subseteq Undone \cup {j},
                 dbFaults' = dbFaults + 1
          PROVE  Cardinality(Undone') <= dbFaults'
      <3>1. Undone \cup {j} \in SUBSET Requests
        BY <1>1
      <3>2. /\ Cardinality(Undone') <= Cardinality(Undone \cup {j})
            /\ Cardinality(Undone \cup {j}) \in Nat /\ Cardinality(Undone') \in Nat
        BY <2>2, <3>1, SetsOfRequests
      <3>3. Cardinality(Undone \cup {j}) <= Cardinality(Undone) + 1
            /\ Cardinality(Undone) \in Nat
        BY <1>1, SetsOfRequests, FS_AddElement
      <3>4. QED
        BY <1>0, <2>2, <3>2, <3>3 DEF Counted
    <2>3. QED
      BY <2>1, <2>2
  <1>6. QED
    BY <1>3, <1>4, <1>5 DEF Counted

\* A call that decides to insert found the backlog it sees below its limit, and
\* no active job of its incident; an ingestion found no other one under way.
LEMMA InsertDecided ==
    ASSUME IInv, Counted, BatchesBounded, TypeOK', NEW r \in Requests, NEW kind \in Kinds,
           NEW i \in Incidents, NEW k \in Keys \cup {r}, NEW b \in OpenBatches \cup {r},
           EnqueueCheck(r, kind, i, k, b), Verdict(i, k, b) = "insert"
    PROVE  Counted'
  <1> USE DEF queue, effects, bounds
  <1>0. TypeOK /\ dbFaults \in Nat /\ UNCHANGED <<jobs, workers, dbFaults>>
    BY QueueAssumption DEF IInv, TypeOK, EnqueueCheck
  <1>1. /\ OnlyCalls({r}) /\ calls[r].pc = "new" /\ ~Exists(r)
        /\ calls'[r].kind = kind /\ calls'[r].inc = i /\ b \in Requests
        /\ r \notin OpenCalls
    BY <1>0, CheckFacts DEF OnlyCalls, IInv, NothingBeforeCommit
  <1>2. /\ Cardinality(ActiveJobsSeen(b)) < MaxPending
        /\ StreamJobsSeen(i, b) = {}
        /\ Cardinality(OpenBatches \ {b}) <= MaxOpen - 1
        /\ Cardinality(OpenBatches \ {b}) \in Nat
        /\ kind = "ingest" => ~StreamLocked(i, b)
    <2>1. ActiveJobsSeen(b) \in SUBSET Requests
      BY <1>0, Counts, Batches DEF ActiveJobsSeen
    <2>2. Cardinality(ActiveJobsSeen(b)) \in Nat
      BY <2>1, SetsOfRequests
    <2>3. /\ OpenBatches \in SUBSET Requests /\ IsFiniteSet(OpenBatches)
          /\ Cardinality(OpenBatches) \in Nat
          /\ OpenBatches \ {b} \in SUBSET Requests
          /\ Cardinality(OpenBatches \ {b}) \in Nat
      BY <1>0, Batches, SetsOfRequests
    <2>4. Cardinality(OpenBatches \ {b})
            = IF b \in OpenBatches THEN Cardinality(OpenBatches) - 1 ELSE Cardinality(OpenBatches)
      BY <2>3, FS_RemoveElement
    <2>5. b \in OpenBatches \/ Cardinality(OpenBatches) < MaxOpen
      BY DEF EnqueueCheck, MayCall, Opens, Continues
    <2>6. Cardinality(OpenBatches \ {b}) <= MaxOpen - 1
      BY <2>3, <2>4, <2>5, SlackBounds DEF BatchesBounded
    <2>7. QED
      BY <2>2, <2>3, <2>6, SlackBounds DEF Verdict, BacklogFull, EnqueueCheck, MayCall
  <1>3. Undone' = Undone /\ ActiveJobs' = ActiveJobs
    BY <1>0 DEF Undone, ActiveJobs, Holds
  <1>4. Inserting' \subseteq Inserting \cup {r}
    BY <1>1 DEF Inserting, OpenCalls, OnlyCalls
  <1>5. /\ Undone \in SUBSET Requests /\ IsFiniteSet(Undone) /\ Cardinality(Undone) \in Nat
        /\ ActiveJobs \in SUBSET Requests
        /\ Inserting \in SUBSET Requests
    BY Counts, SetsOfRequests
  <1>6. Cardinality(Undone') <= dbFaults'
    BY <1>0, <1>3 DEF Counted
  <1>7. Cardinality(Load') <= MaxPending + Slack + dbFaults'
    <2> DEFINE seen == ActiveJobsSeen(b) \cup {r}
               unseen == {q \in Inserting : calls[q].batch # b}
    <2>1. Load' \in SUBSET ((seen \cup unseen) \cup Undone)
      <3>1. Inserting \subseteq InsertsOf(b) \cup unseen
        BY <1>0, Batches
      <3>2. QED
        BY <1>3, <1>4, <3>1 DEF Load, ActiveJobsSeen
    <2>2. /\ seen \in SUBSET Requests /\ Cardinality(seen) \in Nat
          /\ Cardinality(seen) <= MaxPending
      <3>1. ActiveJobsSeen(b) \in SUBSET Requests
        BY <1>0, Counts, Batches DEF ActiveJobsSeen
      <3>2. Cardinality(seen) <= Cardinality(ActiveJobsSeen(b)) + 1
            /\ Cardinality(ActiveJobsSeen(b)) \in Nat
        BY <3>1, SetsOfRequests, FS_AddElement
      <3>3. seen \in SUBSET Requests
        BY <3>1
      <3>4. Cardinality(seen) \in Nat
        BY <3>3, SetsOfRequests
      <3> HIDE DEF seen
      <3>5. QED
        BY <1>2, <3>2, <3>3, <3>4, SlackBounds
    <2>3. /\ unseen \in SUBSET Requests /\ Cardinality(unseen) \in Nat
          /\ Cardinality(unseen) <= Slack
      <3> DEFINE others == OpenBatches \ {b}
                 part == [q \in unseen |-> calls[q].batch]
      <3>1. unseen \in SUBSET Requests /\ others \in SUBSET Requests
        BY <1>0, <1>5, Batches
      <3>2. part \in [unseen -> others]
        BY Counts DEF OpenBatches
      <3>3. ASSUME NEW p \in others
            PROVE  Cardinality({q \in unseen : part[q] = p}) <= InsertsUnseen
        <4>1. {q \in unseen : part[q] = p} = InsertsOf(p)
          BY <1>0, Batches
        <4>2. p \in Requests
          BY <3>1
        <4>3. QED
          BY <4>1, <4>2 DEF BatchesBounded
      <3> HIDE DEF part, unseen, others
      <3>4. Cardinality(unseen) <= Cardinality(others) * InsertsUnseen
        BY <3>1, <3>2, <3>3, SlackBounds, PartsBound
      <3>5. Cardinality(others) \in Nat /\ Cardinality(others) <= MaxOpen - 1
        BY <1>2 DEF others
      <3>6. Cardinality(others) * InsertsUnseen <= Slack
            /\ Cardinality(others) * InsertsUnseen \in Nat
        <4>1. PICK n \in Nat : n = Cardinality(others)
          BY <3>5
        <4>2. n * InsertsUnseen <= Slack /\ n * InsertsUnseen \in Nat
          <5>1. \A x, y \in Nat : x * y \in Nat
            OBVIOUS
          <5>2. QED
            BY <3>5, <4>1, <5>1, SlackBounds
        <4>3. QED
          BY <4>1, <4>2
      <3>7. Cardinality(unseen) \in Nat
        BY <3>1, SetsOfRequests
      <3>8. QED
        BY <3>1, <3>4, <3>6, <3>7, SlackBounds
    <2> HIDE DEF seen, unseen
    <2>4. /\ Cardinality(seen \cup unseen) <= Cardinality(seen) + Cardinality(unseen)
          /\ Cardinality(seen \cup unseen) \in Nat /\ seen \cup unseen \in SUBSET Requests
      BY <2>2, <2>3, UnionBound
    <2>5. /\ Cardinality((seen \cup unseen) \cup Undone)
                <= Cardinality(seen \cup unseen) + Cardinality(Undone)
          /\ Cardinality((seen \cup unseen) \cup Undone) \in Nat
          /\ (seen \cup unseen) \cup Undone \in SUBSET Requests
      BY <1>5, <2>4, UnionBound
    <2>6. /\ Cardinality(Load') <= Cardinality((seen \cup unseen) \cup Undone)
          /\ Cardinality(Load') \in Nat
      <3>1. Load' \in SUBSET Requests
        BY <2>1, <2>5
      <3>2. QED
        BY <2>1, <2>5, <3>1, SetsOfRequests
    <2>7. QED
      BY <1>0, <1>5, <2>2, <2>3, <2>4, <2>5, <2>6, SlackBounds DEF Counted
  <1>8. ASSUME NEW c \in Incidents
        PROVE  Cardinality(IngestedLoad(c)') <= 1 + dbFaults'
    <2>1. CASE kind = "ingest" /\ c = i
      <3>1. IngestedLoad(c)' \in SUBSET (Undone \cup {r})
        <4>1. ASSUME NEW q \in IngestedLoad(c)', q # r
              PROVE  q \in Undone
          <5>1. q \in Load' /\ calls'[q].kind = "ingest" /\ calls'[q].inc = i
            BY <2>1, <4>1 DEF IngestedLoad
          <5>2. q \in Requests /\ calls[q].kind = "ingest" /\ calls[q].inc = i
            <6>1. q \in Requests
              BY <5>1, Counts DEF Load, ActiveJobs, Inserting, OpenCalls, Undone
            <6>2. QED
              BY <1>1, <4>1, <5>1, <6>1 DEF OnlyCalls
          <5>3. q \in ActiveJobs \/ q \in Inserting \/ q \in Undone
            BY <1>3, <1>4, <4>1, <5>1 DEF Load
          <5>4. q \notin ActiveJobs
            BY <1>2, <5>2 DEF StreamJobsSeen, ActiveJobsSeen, IncidentOf
          <5>5. q \notin Inserting
            <6>1. ASSUME q \in Inserting
                  PROVE  calls[q].batch = b
              BY <1>2, <2>1, <5>2, <6>1 DEF Inserting, StreamLocked
            <6>2. ASSUME q \in Inserting
                  PROVE  q \in InsertsOf(b)
              BY <1>0, <6>1, <6>2, Batches
            <6>3. QED
              BY <1>2, <5>2, <6>2 DEF StreamJobsSeen, ActiveJobsSeen, IncidentOf
          <5>6. QED
            BY <5>3, <5>4, <5>5
        <4>2. QED
          BY <4>1
      <3>2. Undone \cup {r} \in SUBSET Requests
        BY <1>5
      <3>3. /\ Cardinality(IngestedLoad(c)') <= Cardinality(Undone \cup {r})
            /\ Cardinality(Undone \cup {r}) \in Nat /\ Cardinality(IngestedLoad(c)') \in Nat
        BY <3>1, <3>2, SetsOfRequests
      <3>4. Cardinality(Undone \cup {r}) <= Cardinality(Undone) + 1
        <4>1. Cardinality(Undone \cup {r})
                = IF r \in Undone THEN Cardinality(Undone) ELSE Cardinality(Undone) + 1
          BY <1>5, FS_AddElement
        <4>2. QED
          BY <1>5, <4>1
      <3>5. QED
        BY <1>0, <1>5, <3>3, <3>4 DEF Counted
    <2>2. CASE ~(kind = "ingest" /\ c = i)
      <3>1. IngestedLoad(c)' \in SUBSET IngestedLoad(c)
        <4>1. ASSUME NEW q \in IngestedLoad(c)'
              PROVE  q \in IngestedLoad(c)
          <5>1. q \in Load' /\ calls'[q].kind = "ingest" /\ calls'[q].inc = c
            BY <4>1 DEF IngestedLoad
          <5>2. q \in Requests /\ q # r
            BY <1>1, <2>2, <5>1 DEF Load, ActiveJobs, Inserting, OpenCalls, Undone
          <5>3. q \in Load
            BY <1>3, <1>4, <5>1, <5>2 DEF Load
          <5>4. QED
            BY <1>1, <5>1, <5>2, <5>3 DEF IngestedLoad, OnlyCalls
        <4>2. QED
          BY <4>1
      <3>2. IngestedLoad(c) \in SUBSET Requests
        BY Counts
      <3>3. /\ Cardinality(IngestedLoad(c)') <= Cardinality(IngestedLoad(c))
            /\ Cardinality(IngestedLoad(c)) \in Nat /\ Cardinality(IngestedLoad(c)') \in Nat
        BY <3>1, <3>2, SetsOfRequests
      <3>4. QED
        BY <1>0, <3>3 DEF Counted
    <2>3. QED
      BY <2>1, <2>2
  <1>9. QED
    BY <1>6, <1>7, <1>8 DEF Counted

\* Calls that read another verdict, commit or fail add nothing: an insert was
\* counted from the moment it was decided.
LEMMA CallAddsNothing ==
    ASSUME IInv, Counted, TypeOK', NEW some \in SUBSET Requests, OnlyCalls(some),
           \A r \in some : ~(calls'[r].pc = "checked" /\ calls'[r].verdict = "insert"),
           \A r \in Requests : jobs'[r] = jobs[r] \/ (r \in Inserting /\ jobs'[r] = Pending),
           \A r \in some : calls[r].pc # "new" => /\ calls'[r].kind = calls[r].kind
                                                /\ calls'[r].inc = calls[r].inc,
           UNCHANGED <<workers, dbFaults>>
    PROVE  Counted'
  <1>0. dbFaults' >= dbFaults
    BY QueueAssumption DEF IInv, TypeOK
  <1>1. Inserting' \subseteq Inserting
    BY DEF Inserting, OpenCalls, OnlyCalls
  <1>2. ActiveJobs' \subseteq ActiveJobs \cup Inserting
    BY DEF ActiveJobs
  <1>3. Undone' \subseteq Undone
    BY DEF Undone, Holds, Pending
  <1>4. Load' \subseteq Load
    BY <1>1, <1>2, <1>3 DEF Load
  <1>5. \A r \in Requests : calls[r].pc = "new" => r \notin Load
    BY DEF Load, ActiveJobs, Inserting, OpenCalls, Undone, IInv, NothingBeforeCommit, Exists,
           ActiveStatus
  <1>6. \A j \in Load' : calls'[j].kind = calls[j].kind /\ calls'[j].inc = calls[j].inc
    BY <1>4, <1>5, Counts DEF OnlyCalls
  <1>7. QED
    BY <1>0, <1>3, <1>4, <1>6, NothingAdded DEF IInv

\* A transaction of a caller keeps the counts.
LEMMA EnqueueCounted ==
    ASSUME IInv, Counted, BatchesBounded, TypeOK', EnqueueStep
    PROVE  Counted'
  <1> USE DEF queue, effects, bounds
  <1>0. TypeOK
    BY DEF IInv
  <1>1. ASSUME NEW r \in Requests, NEW kind \in Kinds, NEW i \in Incidents,
               NEW k \in Keys \cup {r}, NEW b \in OpenBatches \cup {r},
               EnqueueCheck(r, kind, i, k, b)
        PROVE  Counted'
    <2>1. CASE Verdict(i, k, b) = "insert"
      BY <1>1, <2>1, InsertDecided
    <2>2. CASE Verdict(i, k, b) # "insert"
      <3>1. OnlyCalls({r}) /\ calls[r].pc = "new" /\ calls'[r].verdict # "insert"
        BY <1>0, <1>1, <2>2, CheckFacts DEF OnlyCalls
      <3>2. {r} \in SUBSET Requests /\ UNCHANGED <<jobs, workers, dbFaults>>
        BY <1>1 DEF EnqueueCheck
      <3>3. QED
        BY <3>1, <3>2, CallAddsNothing
    <2>3. QED
      BY <2>1, <2>2
  <1>2. ASSUME NEW some \in SUBSET Requests, NEW pc \in {"done", "error"}, End(some, pc),
               \A r \in Requests : jobs'[r] = jobs[r] \/ (r \in Inserting /\ jobs'[r] = Pending),
               UNCHANGED <<workers, dbFaults>>
        PROVE  Counted'
    <2>1. /\ OnlyCalls(some)
          /\ \A r \in some : /\ calls'[r].pc # "checked"
                             /\ calls'[r].kind = calls[r].kind /\ calls'[r].inc = calls[r].inc
      BY <1>0, <1>2, EndFacts DEF OnlyCalls
    <2>2. QED
      BY <1>2, <2>1, CallAddsNothing
  <1>3. ASSUME NEW r \in Requests, NEW kind \in Kinds, NEW i \in Incidents,
               NEW k \in Keys \cup {r}, NEW b \in OpenBatches \cup {r},
               EnqueueRaises(r, kind, i, k, b)
        PROVE  Counted'
    <2>1. CallsOf(b) \cup {r} \in SUBSET Requests
      BY <1>0, Batches
    <2>2. QED
      BY <1>2, <1>3, <2>1 DEF EnqueueRaises
  <1>4. ASSUME NEW b \in Requests, EnqueueCommit(b)
        PROVE  Counted'
    <2>1. CallsOf(b) \in SUBSET Requests /\ \A r \in InsertsOf(b) : r \in Inserting
      BY <1>0, Batches
    <2>2. QED
      BY <1>2, <1>4, <2>1 DEF EnqueueCommit
  <1>5. ASSUME NEW b \in Requests, EnqueueConflict(b) \/ EnqueueFails(b)
        PROVE  Counted'
    <2>1. CallsOf(b) \in SUBSET Requests
      BY <1>0, Batches
    <2>2. QED
      BY <1>2, <1>5, <2>1 DEF EnqueueConflict, EnqueueFails
  <1>6. QED
    BY <1>1, <1>3, <1>4, <1>5 DEF EnqueueStep

\* A step of the workers or of the environment that makes no job active that
\* was not, or was not about to be, keeps the counts.
LEMMA JobsAddNothing ==
    ASSUME IInv, Counted, TypeOK', UNCHANGED calls,
           ActiveJobs' \subseteq ActiveJobs \cup Undone,
           \/ Undone' \subseteq Undone /\ dbFaults' \in {dbFaults, dbFaults + 1}
           \/ /\ dbFaults' = dbFaults + 1
              /\ \E j \in ActiveJobs : Undone' \subseteq Undone \cup {j}
    PROVE  Counted'
  <1>0. dbFaults' >= dbFaults
    BY QueueAssumption DEF IInv, TypeOK
  <1>1. Inserting' = Inserting
    BY DEF Inserting, OpenCalls
  <1>2. Load' \subseteq Load
    BY <1>1 DEF Load
  <1>3. \/ Undone' \subseteq Undone
        \/ /\ dbFaults' = dbFaults + 1
           /\ \E j \in Requests : Undone' \subseteq Undone \cup {j}
    BY Counts
  <1>4. QED
    BY <1>0, <1>2, <1>3, NothingAdded DEF IInv

\* A worker that changes no row: what it holds, it held.
LEMMA RowsUntouched ==
    ASSUME IInv, Counted, TypeOK', UNCHANGED <<jobs, calls>>,
           \A v \in Workers, q \in Requests : Holds(v, q)' => Holds(v, q),
           dbFaults' \in {dbFaults, dbFaults + 1}
    PROVE  Counted'
  <1>1. ActiveJobs' = ActiveJobs /\ Undone' \subseteq Undone
    BY DEF ActiveJobs, Undone
  <1>2. QED
    BY <1>1, JobsAddNothing

\* A worker that changes one row: the job was active or undone.
LEMMA RowTouched ==
    ASSUME IInv, Counted, TypeOK', UNCHANGED calls, NEW j \in Requests, OnlyRow(j),
           j \in ActiveJobs \cup Undone,
           \A v \in Workers, q \in Requests : q # j /\ Holds(v, q)' => Holds(v, q),
           \/ /\ dbFaults' \in {dbFaults, dbFaults + 1}
              /\ jobs'[j].status = "COMPLETED" => \A v \in Workers : ~Holds(v, j)'
           \/ dbFaults' = dbFaults + 1 /\ j \in ActiveJobs
    PROVE  Counted'
  <1>1. ActiveJobs' \subseteq ActiveJobs \cup Undone
    BY DEF ActiveJobs, OnlyRow
  <1>2. Undone' \subseteq Undone \cup {j}
    BY DEF Undone, OnlyRow
  <1>3. (jobs'[j].status = "COMPLETED" => \A v \in Workers : ~Holds(v, j)')
          => Undone' \subseteq Undone
    BY <1>2 DEF Undone
  <1>4. QED
    BY <1>1, <1>2, <1>3, JobsAddNothing

\* Marking a row as taken.
LEMMA ClaimCounted ==
    ASSUME IInv, Counted, TypeOK', NEW w \in Workers, NEW j \in Requests, ClaimNextJob(j),
           UNCHANGED calls, OnlyWorker(w),
           workers'[w].job = j \/ workers'[w].pc \notin Holding,
           dbFaults' \in {dbFaults, dbFaults + 1}
    PROVE  Counted'
  <1>1. OnlyRow(j) /\ j \in ActiveJobs /\ jobs'[j].status = "PROCESSING"
    BY DEF ClaimNextJob, Claimable, OnlyRow, ActiveJobs, ActiveStatus, IInv, TypeOK, Job
  <1>2. \A v \in Workers, q \in Requests : q # j /\ Holds(v, q)' => Holds(v, q)
    BY DEF Holds, OnlyWorker
  <1>3. QED
    BY <1>1, <1>2, RowTouched

\* A worker finishes with its job, or lets it go: nobody holds it afterwards.
LEMMA SettleCounted ==
    ASSUME IInv, Counted, TypeOK', NEW w \in Workers, NEW j \in Requests, Holds(w, j),
           Exists(j), OnlyRow(j), OnlyWorker(w), UNCHANGED calls,
           workers'[w].pc \notin Holding,
           dbFaults' \in {dbFaults, dbFaults + 1}
    PROVE  Counted'
  <1>1. j \in ActiveJobs \cup Undone
    BY DEF IInv, HeldExclusively, ActiveJobs, ActiveStatus, Undone, Exists
  <1>2. \A v \in Workers, q \in Requests : Holds(v, q)' => Holds(v, q) /\ v # w
    BY DEF Holds, OnlyWorker
  <1>3. \A v \in Workers : ~Holds(v, j)'
    BY <1>2 DEF IInv, HeldExclusively
  <1>4. QED
    BY <1>1, <1>2, <1>3, RowTouched

\* A step of a worker keeps the counts.
LEMMA WorkerCounted ==
    ASSUME IInv, Counted, TypeOK', NEW w \in Workers,
           WorkerStep(w) \/ WorkerFault(w) \/ Restart(w)
    PROVE  Counted'
  <1> USE DEF queue, effects, bounds
  <1>0. TypeOK
    BY DEF IInv
  <1>1. ASSUME workers[w].pc \in Holding, NEW pc, GoTo(w, pc)
        PROVE  \A v \in Workers, q \in Requests : Holds(v, q)' => Holds(v, q)
    BY <1>0, <1>1, GoToFacts DEF Holds, OnlyWorker
  <1>2. ASSUME workers'[w].pc \notin Holding, OnlyWorker(w)
        PROVE  \A v \in Workers, q \in Requests : Holds(v, q)' => Holds(v, q)
    BY <1>2 DEF Holds, OnlyWorker
  <1>3. ASSUME NEW j \in Requests, Claim(w, j)
        PROVE  Counted'
    <2>1. OnlyWorker(w) /\ workers'[w].job = j
      BY <1>0, <1>3 DEF Claim, OnlyWorker, TypeOK
    <2>2. QED
      BY <1>3, <2>1, ClaimCounted DEF Claim
  <1>4. CASE ClaimFails(w)
    <2>1. OnlyWorker(w) /\ workers'[w].pc \notin Holding
      BY <1>0, <1>4, WorkerTypes DEF ClaimFails, OnlyWorker, TypeOK
    <2>2. dbFaults' = dbFaults + 1 /\ UNCHANGED calls
      BY <1>4 DEF ClaimFails, DbFault
    <2>3. CASE UNCHANGED jobs
      BY <1>2, <2>1, <2>2, <2>3, RowsUntouched
    <2>4. ASSUME NEW j \in Claimable, ClaimNextJob(j)
          PROVE  Counted'
      <3>1. j \in Requests
        BY <2>4 DEF Claimable
      <3>2. QED
        BY <2>1, <2>2, <2>4, <3>1, ClaimCounted
    <2>5. QED
      BY <1>4, <2>3, <2>4 DEF ClaimFails
  <1>5. CASE FetchIncident(w)
    <2>1. workers[w].pc \in Holding
      BY <1>5 DEF FetchIncident, At, Holding, WorkerPc
    <2>2. workers'[w].job = workers[w].job /\ OnlyWorker(w)
      BY <1>0, <1>5 DEF FetchIncident, OnlyWorker, TypeOK, Worker
    <2>3. \A v \in Workers, q \in Requests : Holds(v, q)' => Holds(v, q)
      BY <2>1, <2>2 DEF Holds, OnlyWorker
    <2>4. QED
      BY <1>5, <2>3, RowsUntouched DEF FetchIncident
  <1>6. CASE \/ SelectIncident(w) \/ CommitAnalysis(w) \/ CommitAnalysisUnanswered(w)
             \/ PostReport(w) \/ ReportAnswered(w) \/ AttemptFails(w)
    <2>1. workers[w].pc \in Holding /\ \E pc \in WorkerPc : GoTo(w, pc)
      BY <1>6 DEF SelectIncident, CommitAnalysis, CommitAnalysisUnanswered, PostReport,
                  ReportAnswered, AttemptFails, At, Holding, WorkerPc
    <2>2. UNCHANGED <<jobs, calls>> /\ dbFaults' \in {dbFaults, dbFaults + 1}
      BY <1>6 DEF SelectIncident, CommitAnalysis, CommitAnalysisUnanswered, PostReport,
                  ReportAnswered, AttemptFails, DbFault
    <2>3. QED
      BY <1>1, <2>1, <2>2, RowsUntouched
  <1>7. CASE Complete(w)
    <2> DEFINE j == workers[w].job
    <2>1. j \in Requests /\ Holds(w, j) /\ Exists(j)
      BY <1>0, <1>7, HoldsItsJob DEF Complete, At, Holding, WorkerPc
    <2>2. OnlyRow(j) /\ OnlyWorker(w) /\ workers'[w].pc \notin Holding
      BY <1>0, <1>7, WorkerTypes DEF Complete, MarkJobComplete, OnlyRow, OnlyWorker, TypeOK
    <2>3. QED
      BY <1>7, <2>1, <2>2, SettleCounted DEF Complete
  <1>8. CASE CompleteFails(w)
    <2> DEFINE j == workers[w].job
    <2>1. j \in Requests /\ Holds(w, j) /\ Exists(j)
      BY <1>0, <1>8, HoldsItsJob DEF CompleteFails, At, Holding, WorkerPc
    <2>2. jobs[j].status = "PROCESSING"
      BY <1>8, <2>1 DEF CompleteFails, IInv, HeldExclusively, Exists, At
    <2>3. /\ \A v \in Workers, q \in Requests : Holds(v, q)' => Holds(v, q)
          /\ UNCHANGED calls /\ dbFaults' = dbFaults + 1
      BY <1>1, <1>8 DEF CompleteFails, DbFault, At, Holding, WorkerPc
    <2>4. j \in ActiveJobs
      BY <2>1, <2>2 DEF ActiveJobs, ActiveStatus
    <2>5. CASE UNCHANGED jobs
      BY <2>3, <2>5, RowsUntouched
    <2>6. CASE MarkJobComplete(j)
      <3>1. OnlyRow(j)
        BY <1>0, <2>6 DEF MarkJobComplete, OnlyRow, TypeOK
      <3>2. QED
        BY <2>1, <2>3, <2>4, <3>1, RowTouched
    <2>7. QED
      BY <1>8, <2>5, <2>6 DEF CompleteFails
  <1>9. CASE Retry(w) \/ RetryFails(w)
    <2> DEFINE j == workers[w].job
    <2>1. j \in Requests /\ Holds(w, j) /\ Exists(j)
      BY <1>0, <1>9, HoldsItsJob DEF Retry, RetryFails, At, Holding, WorkerPc
    <2>2. OnlyWorker(w) /\ workers'[w].pc \notin Holding
      BY <1>0, <1>9, WorkerTypes DEF Retry, RetryFails, OnlyWorker, TypeOK
    <2>3. UNCHANGED calls /\ dbFaults' \in {dbFaults, dbFaults + 1}
      BY <1>9 DEF Retry, RetryFails, DbFault
    <2>4. OnlyRow(j)
      BY <1>0, <1>9 DEF Retry, RetryFails, RetryJob, OnlyRow, TypeOK
    <2>5. QED
      BY <2>1, <2>2, <2>3, <2>4, SettleCounted
  <1>10. CASE RetryFindsNoJob(w) \/ Restart(w)
    <2>1. OnlyWorker(w) /\ workers'[w].pc \notin Holding
      BY <1>0, <1>10, WorkerTypes DEF RetryFindsNoJob, Restart, OnlyWorker, TypeOK
    <2>2. QED
      BY <1>2, <1>10, <2>1, RowsUntouched DEF RetryFindsNoJob, Restart
  <1>11. QED
    BY <1>3, <1>4, <1>5, <1>6, <1>7, <1>8, <1>9, <1>10 DEF WorkerStep, WorkerFault

\* Every step keeps the counts.
LEMMA NextCounted ==
    ASSUME IInv, Counted, BatchesBounded, [Next]_vars
    PROVE  Counted'
  <1> USE DEF queue, effects, bounds
  <1>0. TypeOK'
    BY NextTypeOK
  <1>1. CASE EnqueueStep
    BY <1>0, <1>1, EnqueueCounted
  <1>2. CASE \E w \in Workers : WorkerStep(w) \/ WorkerFault(w) \/ Restart(w)
    BY <1>0, <1>2, WorkerCounted
  <1>3. ASSUME NEW j \in Requests, GenerateReport(j) \/ DelayElapsed(j)
        PROVE  Counted'
    BY <1>0, <1>3, RowsUntouched DEF GenerateReport, DelayElapsed, Holds
  <1>4. ASSUME NEW i \in Incidents, DeleteIncident(i)
        PROVE  Counted'
    <2>1. ActiveJobs' \subseteq ActiveJobs
      BY <1>4 DEF DeleteIncident, ActiveJobs, Absent, ActiveStatus
    <2>2. Undone' \subseteq Undone
      BY <1>4 DEF DeleteIncident, Undone, Absent, Holds
    <2>3. UNCHANGED <<calls, dbFaults>>
      BY <1>4 DEF DeleteIncident
    <2>4. QED
      BY <1>0, <2>1, <2>2, <2>3, JobsAddNothing
  <1>5. CASE UNCHANGED vars
    BY <1>0, <1>5, RowsUntouched DEF vars, Holds
  <1>6. QED
    BY <1>1, <1>2, <1>3, <1>4, <1>5 DEF Next

\* At the start there is nothing to count.
LEMMA InitCounted == Init => Counted /\ BatchesBounded
  <1> SUFFICES ASSUME Init PROVE Counted /\ BatchesBounded
    OBVIOUS
  <1>1. Load = {} /\ Undone = {} /\ OpenCalls = {}
    BY DEF Init, Load, ActiveJobs, Inserting, OpenCalls, Undone, Absent, ActiveStatus
  <1>2. \A i : IngestedLoad(i) = {}
    BY <1>1 DEF IngestedLoad
  <1>3. OpenBatches = {} /\ \A b : CallsOf(b) = {} /\ InsertsOf(b) = {}
    BY <1>1 DEF OpenBatches, CallsOf, InsertsOf
  <1>4. dbFaults = 0
    BY DEF Init
  <1>5. Counted
    BY <1>1, <1>2, <1>4, FS_EmptySet, SlackBounds DEF Counted
  <1>6. BatchesBounded
    BY <1>3, FS_EmptySet, SlackBounds DEF BatchesBounded
  <1>7. QED
    BY <1>5, <1>6

\* The counts hold throughout.
LEMMA AlwaysCounted == Spec => []Counted
  <1>1. IInv /\ BatchesWhole /\ Counted /\ BatchesBounded /\ [Next]_vars
          => (Counted /\ BatchesBounded)'
    BY NextCounted, NextBatchesBounded
  <1>2. QED
    BY <1>1, InitCounted, AlwaysWhole, PTL DEF Spec

\* The backlog exceeds its limit by no more than what the other transactions
\* that may be open insert unseen, a batch or the limit each, whichever is less,
\* and the completions that were undone by a lost answer.
THEOREM BacklogIsBounded == Spec => []BacklogBounded
  <1>1. IInv /\ Counted => BacklogBounded
    <2> SUFFICES ASSUME IInv, Counted PROVE BacklogBounded
      OBVIOUS
    <2>1. /\ ActiveJobs \cup Inserting \in SUBSET Load
          /\ ActiveJobs \cup Inserting \in SUBSET Requests
          /\ Load \in SUBSET Requests
      BY Counts DEF Load
    <2>2. /\ Cardinality(ActiveJobs \cup Inserting) <= Cardinality(Load)
          /\ Cardinality(Load) \in Nat
          /\ Cardinality(ActiveJobs \cup Inserting) \in Nat
      BY <2>1, SetsOfRequests
    <2>3. Cardinality(ActiveJobs \cup Inserting) <= MaxPending + Slack + dbFaults
      BY <2>2, SlackBounds, QueueAssumption DEF Counted, IInv, TypeOK
    <2>4. QED
      BY <2>3 DEF BacklogBounded, Inserting, Slack
  <1>2. QED
    BY <1>1, AlwaysCounted, Invariance, PTL

\* Ingestion alone never gives an incident a second active job: only a
\* completion that was undone by a lost answer brings another one back.
THEOREM OneIngestedJob == Spec => []OneIngestedJobPerIncident
  <1>1. IInv /\ Counted => OneIngestedJobPerIncident
    <2> SUFFICES ASSUME IInv, Counted, NEW i \in Incidents
                 PROVE  Cardinality({j \in ActiveJobsOf(i) : calls[j].kind = "ingest"})
                           <= 1 + dbFaults
      BY DEF OneIngestedJobPerIncident
    <2> DEFINE active == {j \in ActiveJobsOf(i) : calls[j].kind = "ingest"}
    <2>1. active \in SUBSET IngestedLoad(i)
      BY DEF ActiveJobsOf, IngestedLoad, Load, IncidentOf
    <2>2. IngestedLoad(i) \in SUBSET Requests /\ active \in SUBSET Requests
      BY <2>1, Counts
    <2> HIDE DEF active
    <2>3. /\ Cardinality(active) <= Cardinality(IngestedLoad(i))
          /\ Cardinality(IngestedLoad(i)) \in Nat /\ Cardinality(active) \in Nat
      BY <2>1, <2>2, SetsOfRequests
    <2>4. Cardinality(active) <= 1 + dbFaults
      BY <2>3, QueueAssumption DEF Counted, IInv, TypeOK
    <2>5. QED
      BY <2>4 DEF active
  <1>2. QED
    BY <1>1, AlwaysCounted, Invariance, PTL

-----------------------------------------------------------------------------
(* The queue implements AnalysisJobs: under the refinement mapping of      *)
(* SupervisorQueue every initial state is an initial state of AnalysisJobs *)
(* and every step is one of its steps, or changes nothing it can see.      *)

\* The phase that each status stands for.
LEMMA Phases ==
    /\ PhaseOf("ABSENT") = "none"
    /\ PhaseOf("PENDING") = "waiting" /\ PhaseOf("RETRYING") = "waiting"
    /\ PhaseOf("PROCESSING") = "running"
    /\ PhaseOf("COMPLETED") = "settled"
    /\ PhaseOf("FAILED") = "dead"
  BY DEF PhaseOf

\* What AnalysisJobs sees of each job, as SupervisorQueue maps it.
Phase(j) == PhaseOf(jobs[j].status)
Analysed(j) == Exists(j) /\ KeyOf(j) \in recorded
Reported(j) == j \in reports

\* A step that keeps the phases and the effects of all jobs is a stutter.
LEMMA Stutter ==
    ASSUME \A q \in Requests : /\ Phase(q)' = Phase(q)
                               /\ Analysed(q)' = Analysed(q)
                               /\ Reported(q)' = Reported(q)
    PROVE  UNCHANGED Abstract!vars
  BY DEF Abstract!vars, Phase, Analysed, Reported

\* A step of one job that changes its phase only.
LEMMA MoveOne ==
    ASSUME NEW j \in Requests, NEW from, NEW to,
           Phase(j) \in from, Phase(j)' = to,
           \A q \in Requests : q # j => Phase(q)' = Phase(q),
           \A q \in Requests : /\ Analysed(q)' = Analysed(q)
                               /\ Reported(q)' = Reported(q)
    PROVE  Abstract!Move(j, from, to)
  BY DEF Abstract!Move, Phase, Analysed, Reported

\* A step of one job that stores its analysis.
LEMMA AnalyseOne ==
    ASSUME NEW j \in Requests,
           Phase(j) = "running", ~Analysed(j), Analysed(j)',
           \A q \in Requests : q # j => Analysed(q)' = Analysed(q),
           \A q \in Requests : /\ Phase(q)' = Phase(q)
                               /\ Reported(q)' = Reported(q)
    PROVE  Abstract!Analyse(j)
  <1>1. Analysed(j)' = TRUE
    BY DEF Analysed
  <1>2. QED
    BY <1>1 DEF Abstract!Analyse, Phase, Analysed, Reported

\* A step of one job that stores its report.
LEMMA ReportOne ==
    ASSUME NEW j \in Requests, Analysed(j), Reported(j)',
           \A q \in Requests : q # j => Reported(q)' = Reported(q),
           \A q \in Requests : /\ Phase(q)' = Phase(q)
                               /\ Analysed(q)' = Analysed(q)
    PROVE  Abstract!Report(j)
  <1>1. Reported(j)' = TRUE
    BY DEF Reported
  <1>2. QED
    BY <1>1 DEF Abstract!Report, Phase, Analysed, Reported

\* The effects of the jobs follow from what is stored.
LEMMA SameEffects ==
    ASSUME UNCHANGED <<recorded, reports>>,
           \A q \in Requests : Exists(q)' = Exists(q),
           \A q \in Requests : Exists(q) => KeyOf(q)' = KeyOf(q)
    PROVE  \A q \in Requests : Analysed(q)' = Analysed(q) /\ Reported(q)' = Reported(q)
  BY DEF Analysed, Reported

\* Rows that stay as they are keep their phase.
LEMMA SamePhases ==
    ASSUME UNCHANGED jobs
    PROVE  \A q \in Requests : Phase(q)' = Phase(q) /\ Exists(q)' = Exists(q)
  BY DEF Phase, Exists

\* A transaction of a caller submits jobs, or shows nothing: an event's key has
\* a row, so a new row with a free key is the row of no event.
LEMMA EnqueueRefines ==
    ASSUME IInv, EnqueueStep
    PROVE  \/ \E some \in SUBSET Requests : Abstract!Submit(some)
           \/ UNCHANGED Abstract!vars
  <1> USE DEF queue, effects
  <1>0. TypeOK
    BY DEF IInv
  <1>1. ASSUME NEW r \in Requests, NEW kind \in Kinds, NEW i \in Incidents,
               NEW k \in Keys \cup {r}, NEW b \in OpenBatches \cup {r},
               EnqueueCheck(r, kind, i, k, b)
        PROVE  UNCHANGED Abstract!vars
    <2>1. OnlyCalls({r}) /\ ~Exists(r)
      BY <1>0, <1>1, CheckFacts DEF OnlyCalls, IInv, NothingBeforeCommit
    <2>2. \A q \in Requests : Exists(q) => KeyOf(q)' = KeyOf(q)
      BY <2>1 DEF OnlyCalls, KeyOf
    <2>3. QED
      BY <1>1, <2>2, SamePhases, SameEffects, Stutter DEF EnqueueCheck
  <1>2. ASSUME NEW some \in SUBSET Requests, End(some, "error"),
               UNCHANGED <<jobs, recorded, reports>>
        PROVE  UNCHANGED Abstract!vars
    <2>1. \A q \in Requests : KeyOf(q)' = KeyOf(q)
      BY <1>0, <1>2, EndFacts DEF KeyOf
    <2>2. QED
      BY <1>2, <2>1, SamePhases, SameEffects, Stutter
  <1>3. ASSUME NEW r \in Requests, NEW kind \in Kinds, NEW i \in Incidents,
               NEW k \in Keys \cup {r}, NEW b \in OpenBatches \cup {r},
               EnqueueRaises(r, kind, i, k, b)
        PROVE  UNCHANGED Abstract!vars
    <2>1. CallsOf(b) \cup {r} \in SUBSET Requests
      BY <1>0, Batches
    <2>2. QED
      BY <1>2, <1>3, <2>1 DEF EnqueueRaises
  <1>4. ASSUME NEW b \in Requests, EnqueueConflict(b) \/ EnqueueFails(b)
        PROVE  UNCHANGED Abstract!vars
    <2>1. CallsOf(b) \in SUBSET Requests
      BY <1>0, Batches
    <2>2. QED
      BY <1>2, <1>4, <2>1 DEF EnqueueConflict, EnqueueFails
  <1>5. ASSUME NEW b \in Requests, EnqueueCommit(b)
        PROVE  \E some \in SUBSET Requests : Abstract!Submit(some)
    <2>0. PICK some \in SUBSET Requests : some = InsertsOf(b)
      BY <1>0, Batches
    <2>1. \A q \in Requests : jobs'[q] = IF q \in some THEN Pending ELSE jobs[q]
      BY <1>5, <2>0 DEF EnqueueCommit
    <2>2. /\ \A q \in Requests : KeyOf(q)' = KeyOf(q)
          /\ UNCHANGED <<recorded, reports>>
      <3>1. CallsOf(b) \in SUBSET Requests
        BY <1>0, Batches
      <3>2. QED
        BY <1>0, <1>5, <3>1, EndFacts DEF EnqueueCommit, KeyOf
    <2>3. \A q \in some : ~Exists(q) /\ KeyOf(q) \notin recorded
      <3>1. \A q \in some : calls[q].pc = "checked"
        BY <2>0 DEF InsertsOf, CallsOf, OpenCalls
      <3>2. \A q \in some : JobsWithKey(KeyOf(q)) = {}
        BY <1>5, <2>0 DEF EnqueueCommit, KeysFree
      <3>3. QED
        BY <3>1, <3>2 DEF IInv, NothingBeforeCommit, KeysUnique
    <2>4. \A q \in some : Phase(q) = "none"
      BY <2>3, Phases DEF Exists, Phase
    <2>5. \A q \in Requests : Phase(q)' = IF q \in some THEN "waiting" ELSE Phase(q)
      BY <2>1, Phases DEF Phase, Pending
    <2>6. \A q \in Requests : Reported(q)' = Reported(q)
      BY <2>2 DEF Reported
    <2>7. ASSUME NEW q \in Requests
          PROVE  Analysed(q)' = Analysed(q)
      <3>1. CASE q \in some
        BY <2>2, <2>3, <3>1 DEF Analysed
      <3>2. CASE q \notin some
        <4>1. Exists(q)' = Exists(q)
          BY <2>1, <3>2 DEF Exists
        <4>2. QED
          BY <2>2, <4>1 DEF Analysed
      <3>3. QED
        BY <3>1, <3>2
    <2>8. Abstract!Submit(some)
      BY <2>4, <2>5, <2>6, <2>7 DEF Abstract!Submit, Phase, Analysed, Reported
    <2>9. QED
      BY <2>8
  <1>6. QED
    BY <1>1, <1>3, <1>4, <1>5 DEF EnqueueStep

\* A step that gives one row another status and stores nothing moves its job.
LEMMA StatusMoves ==
    ASSUME IInv, NEW j \in Requests, NEW row, NEW from, NEW to,
           jobs' = [jobs EXCEPT ![j] = row], row.status # "ABSENT", Exists(j),
           PhaseOf(jobs[j].status) \in from, PhaseOf(row.status) = to,
           UNCHANGED <<calls, recorded, reports>>
    PROVE  Abstract!Move(j, from, to)
  <1>1. /\ \A q \in Requests : Exists(q)' = Exists(q)
        /\ \A q \in Requests : q # j => Phase(q)' = Phase(q)
        /\ Phase(j) \in from /\ Phase(j)' = to
    BY DEF IInv, TypeOK, Exists, Phase
  <1>2. \A q \in Requests : KeyOf(q)' = KeyOf(q)
    BY DEF KeyOf
  <1>3. QED
    BY <1>1, <1>2, SameEffects, MoveOne

\* Marking a row as taken is the start of its job.
LEMMA ClaimRefines ==
    ASSUME IInv, NEW j \in Requests, ClaimNextJob(j), UNCHANGED <<calls, recorded, reports>>
    PROVE  Abstract!Start(j)
  <1>1. jobs[j].status \in {"PENDING", "RETRYING"}
        /\ jobs' = [jobs EXCEPT ![j] = [jobs[j] EXCEPT !.status = "PROCESSING"]]
    BY DEF ClaimNextJob, Claimable
  <1>2. [jobs[j] EXCEPT !.status = "PROCESSING"].status = "PROCESSING"
    BY DEF IInv, TypeOK, Job
  <1>3. QED
    BY <1>1, <1>2, Phases, StatusMoves DEF Exists, Abstract!Start

\* A job is completed with its analysis and its report stored.
LEMMA CompleteRefines ==
    ASSUME IInv, NEW w \in Workers, At(w, "complete"), Exists(workers[w].job),
           MarkJobComplete(workers[w].job), UNCHANGED <<calls, recorded, reports>>
    PROVE  Abstract!Settle(workers[w].job)
  <1> DEFINE j == workers[w].job
  <1>1. j \in Requests /\ Holds(w, j)
    BY HoldsItsJob DEF IInv, At, Holding, WorkerPc
  <1>2. jobs[j].status = "PROCESSING"
    BY <1>1 DEF IInv, HeldExclusively, Exists, At
  <1>3. jobs' = [jobs EXCEPT ![j] = [jobs[j] EXCEPT !.status = "COMPLETED"]]
        /\ [jobs[j] EXCEPT !.status = "COMPLETED"].status = "COMPLETED"
    BY <1>1 DEF MarkJobComplete, IInv, TypeOK, Job
  <1>4. Abstract!Move(j, {"running"}, "settled")
    BY <1>1, <1>2, <1>3, Phases, StatusMoves
  <1>5. KeyOf(j) \in recorded /\ j \in reports
    BY <1>1 DEF IInv, StepsDone, At
  <1>6. QED
    BY <1>1, <1>4, <1>5 DEF Abstract!Settle

\* A job whose attempt failed goes back or is given up, from "settled" too: its
\* completion may have been applied although the worker was told otherwise.
LEMMA RetryRefines ==
    ASSUME IInv, NEW w \in Workers, At(w, "failed"), Exists(workers[w].job),
           RetryJob(workers[w].job), UNCHANGED <<calls, recorded, reports>>
    PROVE  \E j \in Requests :
             Abstract!GiveBack(j) \/ Abstract!Bury(j) \/ Abstract!Unsettle(j)
  <1> DEFINE j == workers[w].job
  <1>1. j \in Requests /\ Holds(w, j)
    BY HoldsItsJob DEF IInv, At, Holding, WorkerPc
  <1>2. jobs[j].status \in {"PROCESSING", "COMPLETED"}
    BY <1>1 DEF IInv, HeldExclusively, Exists
  <1>3. PICK from \in {"running", "settled"} : PhaseOf(jobs[j].status) = from
    BY <1>2, Phases
  <1>4. PICK row \in {[status |-> "FAILED", tries |-> jobs[j].tries + 1],
                      [status |-> "RETRYING", tries |-> jobs[j].tries + 1]} :
          jobs' = [jobs EXCEPT ![j] = row]
    BY DEF RetryJob
  <1>5. row.status \in {"FAILED", "RETRYING"}
    BY <1>4
  <1>6. PICK to \in {"dead", "waiting"} : PhaseOf(row.status) = to
    BY <1>5, Phases
  <1>7. Abstract!Move(j, {from}, to)
    BY <1>1, <1>3, <1>4, <1>5, <1>6, StatusMoves
  <1>8. QED
    BY <1>1, <1>7 DEF Abstract!GiveBack, Abstract!Bury, Abstract!Unsettle

\* The analysis of a job is stored once, by its worker, while it runs.
LEMMA AnalyseRefines ==
    ASSUME IInv, NEW w \in Workers, At(w, "decide"), AppendAnalysis(w),
           NEW j \in Requests, workers[w].job = j, UNCHANGED <<jobs, calls, reports>>
    PROVE  Abstract!Analyse(j)
  <1>1. Holds(w, j)
    BY HoldsItsJob DEF IInv, At, Holding, WorkerPc
  <1>2. Exists(j)
    BY <1>1 DEF IInv, RowsKept, AppendAnalysis
  <1>3. Phase(j) = "running"
    BY <1>1, <1>2, Phases DEF IInv, HeldExclusively, Exists, At, Phase
  <1>4. /\ ~Analysed(j) /\ Analysed(j)'
        /\ recorded' = recorded \cup {KeyOf(j)}
    BY <1>2 DEF AppendAnalysis, Analysed, Exists, KeyOf
  <1>5. \A q \in Requests : q # j => Analysed(q)' = Analysed(q)
    <2>1. \A q \in Requests : q # j /\ Exists(q) => KeyOf(q) # KeyOf(j)
      BY <1>1, <1>2 DEF IInv, KeysUnique
    <2>2. \A q \in Requests : Exists(q)' = Exists(q) /\ KeyOf(q)' = KeyOf(q)
      BY DEF Exists, KeyOf
    <2>3. QED
      BY <1>4, <2>1, <2>2 DEF Analysed
  <1>6. \A q \in Requests : Phase(q)' = Phase(q) /\ Reported(q)' = Reported(q)
    BY DEF Phase, Reported
  <1>7. QED
    BY <1>1, <1>3, <1>4, <1>5, <1>6, AnalyseOne

\* A step that leaves calls, rows and stored events alone is a stutter.
LEMMA NothingStored ==
    ASSUME UNCHANGED <<jobs, calls, recorded, reports>>
    PROVE  UNCHANGED Abstract!vars
  <1>1. \A q \in Requests : KeyOf(q)' = KeyOf(q)
    BY DEF KeyOf
  <1>2. QED
    BY <1>1, SamePhases, SameEffects, Stutter

\* What a worker does is a step of its job, or shows nothing.
LEMMA WorkerRefines ==
    ASSUME IInv, NEW w \in Workers, WorkerStep(w) \/ WorkerFault(w) \/ Restart(w)
    PROVE  Abstract!Next \/ UNCHANGED Abstract!vars
  <1> USE DEF queue, effects
  <1> DEFINE j == workers[w].job
  <1>1. CASE \/ FetchIncident(w) \/ SelectIncident(w) \/ PostReport(w)
             \/ ReportAnswered(w) \/ AttemptFails(w) \/ RetryFindsNoJob(w) \/ Restart(w)
    BY <1>1, NothingStored
       DEF FetchIncident, SelectIncident, PostReport, ReportAnswered, AttemptFails,
           RetryFindsNoJob, Restart, GoTo
  <1>2. ASSUME NEW q \in Requests, Claim(w, q)
        PROVE  Abstract!Next
    <2>1. Abstract!Start(q)
      BY <1>2, ClaimRefines DEF Claim
    <2>2. QED
      BY <2>1 DEF Abstract!Next
  <1>3. CASE ClaimFails(w)
    <2>1. CASE UNCHANGED jobs
      BY <1>3, <2>1, NothingStored DEF ClaimFails
    <2>2. ASSUME NEW q \in Claimable, ClaimNextJob(q)
          PROVE  Abstract!Next
      <3>1. q \in Requests
        BY <2>2 DEF Claimable
      <3>2. Abstract!Start(q)
        BY <1>3, <2>2, <3>1, ClaimRefines DEF ClaimFails
      <3>3. QED
        BY <3>1, <3>2 DEF Abstract!Next
    <2>3. QED
      BY <1>3, <2>1, <2>2 DEF ClaimFails
  <1>4. CASE CommitAnalysis(w) \/ CommitAnalysisUnanswered(w)
    <2>1. j \in Requests
      BY <1>4, HoldsItsJob
         DEF CommitAnalysis, CommitAnalysisUnanswered, IInv, At, Holding, WorkerPc
    <2>2. Abstract!Analyse(j)
      BY <1>4, <2>1, AnalyseRefines DEF CommitAnalysis, CommitAnalysisUnanswered
    <2>3. QED
      BY <2>1, <2>2 DEF Abstract!Next
  <1>5. CASE Complete(w) \/ CompleteFails(w)
    <2>1. j \in Requests /\ At(w, "complete") /\ Exists(j)
      BY <1>5, HoldsItsJob DEF Complete, CompleteFails, IInv, At, Holding, WorkerPc
    <2>2. CASE UNCHANGED jobs
      BY <1>5, <2>2, NothingStored DEF Complete, CompleteFails
    <2>3. CASE MarkJobComplete(j)
      <3>1. Abstract!Settle(j)
        BY <1>5, <2>1, <2>3, CompleteRefines DEF Complete, CompleteFails
      <3>2. QED
        BY <2>1, <3>1 DEF Abstract!Next
    <2>4. QED
      BY <1>5, <2>2, <2>3 DEF Complete, CompleteFails
  <1>6. CASE Retry(w) \/ RetryFails(w)
    <2>1. At(w, "failed") /\ Exists(j) /\ UNCHANGED <<calls, recorded, reports>>
      BY <1>6 DEF Retry, RetryFails
    <2>2. CASE UNCHANGED jobs
      BY <2>1, <2>2, NothingStored
    <2>3. CASE RetryJob(j)
      <3>1. \E q \in Requests :
              Abstract!GiveBack(q) \/ Abstract!Bury(q) \/ Abstract!Unsettle(q)
        BY <2>1, <2>3, RetryRefines
      <3>2. QED
        BY <3>1 DEF Abstract!Next
    <2>4. QED
      BY <1>6, <2>2, <2>3 DEF Retry, RetryFails
  <1>7. QED
    BY <1>1, <1>2, <1>3, <1>4, <1>5, <1>6 DEF WorkerStep, WorkerFault

\* A stored report is the report of an analysed job.
LEMMA GenerateReportRefines ==
    ASSUME IInv, NEW j \in Requests, GenerateReport(j)
    PROVE  Abstract!Report(j)
  <1> USE DEF queue
  <1>1. Analysed(j)
    BY DEF GenerateReport, IInv, RowsKept, StepsDone, Analysed
  <1>2. Reported(j)' /\ \A q \in Requests : q # j => Reported(q)' = Reported(q)
    BY DEF GenerateReport, Reported
  <1>3. \A q \in Requests : Phase(q)' = Phase(q) /\ Analysed(q)' = Analysed(q)
    BY DEF GenerateReport, Phase, Analysed, Exists, KeyOf
  <1>4. QED
    BY <1>1, <1>2, <1>3, ReportOne

\* Dropping any set of jobs is a step of AnalysisJobs.
LEMMA DropIsAStep ==
    ASSUME NEW some \in SUBSET Requests, Abstract!Drop(some)
    PROVE  Abstract!Next
  BY Zenon DEF Abstract!Next

\* Deleting an incident drops its jobs with all they produced, and no others.
LEMMA DeleteRefines ==
    ASSUME IInv, NEW i \in Incidents, DeleteIncident(i)
    PROVE  Abstract!Next
  <1>0. PICK gone \in SUBSET Requests : gone = {r \in Requests : calls[r].inc = i}
    OBVIOUS
  <1>1. \A q \in Requests : jobs'[q] = IF q \in gone THEN Absent ELSE jobs[q]
    BY <1>0 DEF DeleteIncident
  <1>2. /\ recorded' = recorded \ {KeyOf(q) : q \in {r \in gone : Exists(r)}}
        /\ reports' = reports \ gone
        /\ \A q \in Requests : KeyOf(q)' = KeyOf(q)
    BY <1>0 DEF DeleteIncident, KeyOf
  <1>3. \A q \in Requests : Phase(q)' = IF q \in gone THEN "none" ELSE Phase(q)
    BY <1>1, Phases DEF Phase, Absent
  <1>4. \A q \in Requests : Reported(q)' = (q \notin gone /\ Reported(q))
    BY <1>2 DEF Reported
  <1>5. \A q \in Requests : Analysed(q)' = (q \notin gone /\ Analysed(q))
    <2>1. ASSUME NEW q \in gone PROVE ~Analysed(q)'
      BY <1>1, <2>1 DEF Analysed, Exists, Absent
    <2>2. ASSUME NEW q \in Requests \ gone, Exists(q)
          PROVE  KeyOf(q) \notin {KeyOf(p) : p \in {r \in gone : Exists(r)}}
      BY <1>0, <2>2 DEF IInv, KeysUnique
    <2>3. ASSUME NEW q \in Requests \ gone PROVE Analysed(q)' = Analysed(q)
      <3>1. Exists(q)' = Exists(q)
        BY <1>1, <2>3 DEF Exists
      <3>2. QED
        BY <1>2, <2>2, <3>1 DEF Analysed
    <2>4. QED
      BY <2>1, <2>3 DEF Analysed
  <1>6. Abstract!Drop(gone)
    BY <1>3, <1>4, <1>5 DEF Abstract!Drop, Phase, Analysed, Reported
  <1>7. QED
    BY <1>6, DropIsAStep

\* Every step of the queue is a step of AnalysisJobs or a stutter.
LEMMA StepRefines ==
    ASSUME IInv, [Next]_vars
    PROVE  [Abstract!Next]_Abstract!vars
  <1>1. CASE EnqueueStep
    <2>1. ASSUME NEW some \in SUBSET Requests, Abstract!Submit(some)
          PROVE  Abstract!Next
      BY <2>1, Zenon DEF Abstract!Next
    <2>2. QED
      BY <1>1, <2>1, EnqueueRefines
  <1>2. CASE \E w \in Workers : WorkerStep(w) \/ WorkerFault(w) \/ Restart(w)
    BY <1>2, WorkerRefines
  <1>3. ASSUME NEW j \in Requests, GenerateReport(j)
        PROVE  Abstract!Next
    BY <1>3, GenerateReportRefines DEF Abstract!Next
  <1>4. ASSUME NEW j \in Requests, DelayElapsed(j)
        PROVE  UNCHANGED Abstract!vars
    BY <1>4, NothingStored DEF DelayElapsed, effects
  <1>5. CASE \E i \in Incidents : DeleteIncident(i)
    BY <1>5, DeleteRefines
  <1>6. CASE UNCHANGED vars
    BY <1>6, NothingStored DEF vars
  <1>7. QED
    BY <1>1, <1>2, <1>3, <1>4, <1>5, <1>6 DEF Next

\* No job exists at the start, so none is analysed or reported.
LEMMA InitRefines == Init => Abstract!Init
  <1>1. ASSUME Init
        PROVE  \A q \in Requests : Phase(q) = "none" /\ Analysed(q) = FALSE /\ Reported(q) = FALSE
    BY <1>1, Phases DEF Init, Phase, Analysed, Reported, Exists, Absent
  <1>2. QED
    BY <1>1 DEF Abstract!Init, Phase, Analysed, Reported

\* The queue, with its workers, retries, restarts, lost answers and deletions,
\* implements AnalysisJobs: what it does to a job, seen from outside, is what
\* an unfailing queue could have done.
THEOREM Refinement == Spec => ImplementsAnalysisJobs
  <1>1. IInv /\ [Next]_vars => [Abstract!Next]_Abstract!vars
    BY StepRefines
  <1>2. QED
    BY <1>1, InitRefines, Invariance, PTL DEF Spec, ImplementsAnalysisJobs, Abstract!Spec
=============================================================================

-------------------------- MODULE SupervisorQueue --------------------------
(***************************************************************************)
(* The queue of topic `supervisor.analyze': the rows of table event_queue, *)
(* the callers of enqueue_job (alert ingestion in history-agent and        *)
(* POST /queue/analyze in supervisor-agent) and the workers that run       *)
(* run_supervisor_queue_worker, one per supervisor-agent process (the      *)
(* blue/green deployment runs two against one database).                   *)
(*                                                                         *)
(* One action is one committed transaction, or one remote call, or the     *)
(* failure of either; a transaction that calls enqueue_job has one more    *)
(* action for each call, because POST /alerts ingests a batch of alerts in *)
(* one transaction.  A row is named by the request that inserts it, and    *)
(* requests are numbered in the order they are made.                       *)
(***************************************************************************)
EXTENDS Integers, FiniteSets

CONSTANTS
    Incidents,     \* incidents that exist when the behaviour starts
    Workers,       \* queue worker tasks, one per supervisor-agent process
    Keys,          \* Idempotency-Key headers a client may send twice
    Callers,       \* who calls enqueue_job for which incident: <<kind, incident>>
    MaxRequests,   \* bound: calls of enqueue_job
    MaxBatch,      \* alerts of one POST /alerts
    MaxOpen,       \* enqueueing transactions open at once (connection pool)
    MaxPending,    \* QUEUE_MAX_PENDING_PER_TOPIC
    MaxRetries,    \* max_retries of retry_job
    MaxDeletes,    \* bound: DELETE /incidents/{id}
    MaxCrashes,    \* bound: restarts of a supervisor process
    MaxDbFaults    \* bound: worker transactions that fail, or lose their answer

Requests == 1 .. MaxRequests
Kinds == {"ingest", "manual"}

(* An operator named Action_Mistake is Action with a mistake that would be   *)
(* easy to make; it stands for nothing in the code and no specification uses *)
(* it.  It shows that some property tells the two apart.                     *)

ASSUME QueueAssumption ==
    /\ Callers \subseteq Kinds \X Incidents
    /\ Keys \cap Requests = {}
    /\ MaxRequests \in Nat
    /\ MaxBatch \in Nat \ {0}
    /\ MaxOpen \in Nat \ {0}
    /\ MaxPending \in Nat
    /\ MaxRetries \in Nat \ {0}
    /\ MaxDeletes \in Nat
    /\ MaxCrashes \in Nat
    /\ MaxDbFaults \in Nat

VARIABLES
    jobs,       \* event_queue: one row per request, "ABSENT" when there is none
    delayed,    \* jobs whose not_before lies in the future
    calls,      \* progress of each call of enqueue_job
    workers,    \* local state of each worker task
    incidents,  \* incidents that have not been deleted
    alerts,     \* ingest calls that committed their alert
    analysed,   \* alerts that were in the bundle of a committed analysis
    recorded,   \* idempotency keys of the action_recorded events
    posted,     \* report requests on their way to report-agent, by job
    reports,    \* jobs whose report event is stored
    dlq,        \* jobs with a dead_letter_queue row (queue_key `queue:{id}')
    deletes, crashes, dbFaults      \* bounded occurrences so far

vars == <<jobs, delayed, calls, workers, incidents, alerts, analysed,
          recorded, posted, reports, dlq, deletes, crashes, dbFaults>>

queue == <<jobs, delayed>>
effects == <<alerts, analysed, recorded, posted, reports, dlq>>
bounds == <<deletes, crashes, dbFaults>>

-----------------------------------------------------------------------------
(* Rows, calls and workers.                                                *)

NoJob == 0
ActiveStatus == {"PENDING", "PROCESSING", "RETRYING"}
Status == ActiveStatus \cup {"COMPLETED", "FAILED", "ABSENT"}

Job == [status : Status, tries : 0 .. MaxRetries]
Absent == [status |-> "ABSENT", tries |-> 0]
Pending == [status |-> "PENDING", tries |-> 0]

\* "checked": enqueue_job has read the table and decided, not yet committed.
Call == [pc      : {"new", "checked", "done", "error"},
         kind    : {"none", "ingest", "manual"},
         inc     : Incidents \cup {NoJob},
         key     : Requests \cup Keys,
         batch   : Requests,   \* the first call of the same transaction
         verdict : {"none", "reuse", "full", "insert"}]

WorkerPc == {"idle", "fetch", "select", "decide", "report", "await",
             "complete", "failed", "stopped"}
Holding == WorkerPc \ {"idle", "stopped"}

Worker == [pc : WorkerPc, job : Requests \cup {NoJob}, bundle : SUBSET Requests]
Idle == [pc |-> "idle", job |-> NoJob, bundle |-> {}]
Stopped == [Idle EXCEPT !.pc = "stopped"]

IncidentOf(j) == calls[j].inc
KeyOf(j) == calls[j].key
Exists(j) == jobs[j].status # "ABSENT"
Holds(w, j) == workers[w].pc \in Holding /\ workers[w].job = j

ActiveJobs == {j \in Requests : jobs[j].status \in ActiveStatus}
ActiveJobsOf(i) == {j \in ActiveJobs : IncidentOf(j) = i}
JobsWithKey(k) == {j \in Requests : Exists(j) /\ KeyOf(j) = k}
OpenCalls == {r \in Requests : calls[r].pc = "checked"}

\* A transaction is named by its first call.
OpenBatches == {calls[r].batch : r \in OpenCalls}
CallsOf(b) == {r \in OpenCalls : calls[r].batch = b}
InsertsOf(b) == {r \in CallsOf(b) : calls[r].verdict = "insert"}

\* A transaction of a worker fails: the database refuses it or does not answer.
DbFault == /\ dbFaults < MaxDbFaults
           /\ dbFaults' = dbFaults + 1
           /\ UNCHANGED <<deletes, crashes>>

-----------------------------------------------------------------------------
Init ==
    /\ jobs = [j \in Requests |-> Absent]
    /\ delayed = {}
    /\ calls = [r \in Requests |-> [pc |-> "new", kind |-> "none", inc |-> NoJob,
                                    key |-> r, batch |-> r, verdict |-> "none"]]
    /\ workers = [w \in Workers |-> Idle]
    /\ incidents = Incidents
    /\ alerts = {} /\ analysed = {} /\ recorded = {}
    /\ posted = {} /\ reports = {} /\ dlq = {}
    /\ deletes = 0 /\ crashes = 0 /\ dbFaults = 0

-----------------------------------------------------------------------------
(* enqueue_job, in the caller's transaction b.                             *)

\* ingest_alert appends to the incident's stream before it enqueues, so its
\* transaction holds the stream's advisory lock; queue_analyze takes no lock.
StreamLocked_NoLock(i, b) == FALSE
StreamLocked(i, b) ==
    \E r \in OpenCalls :
        calls[r].kind = "ingest" /\ calls[r].inc = i /\ calls[r].batch # b

\* A statement reads the committed rows and those its transaction inserted.
ActiveJobsSeen_Unflushed(b) == ActiveJobs
ActiveJobsSeen(b) == ActiveJobs \cup InsertsOf(b)
StreamJobsSeen(i, b) == {j \in ActiveJobsSeen(b) : IncidentOf(j) = i}

BacklogFull(b) == Cardinality(ActiveJobsSeen(b)) >= MaxPending

\* What the reads of enqueue_job make of the call: the row with its key, or
\* the active row of its stream, is returned; a full backlog refuses it.  No
\* two calls of a batch have the same key.
Verdict(i, k, b) ==
    IF JobsWithKey(k) \cup StreamJobsSeen(i, b) # {} THEN "reuse"
    ELSE IF BacklogFull(b) THEN "full"
    ELSE "insert"

\* scalar_one_or_none() raises when it meets a second row.
Ambiguous(i, k, b) ==
    JobsWithKey(k) = {} /\ Cardinality(StreamJobsSeen(i, b)) > 1

\* The call opens a transaction, or it is that of the next alert of a batch.
Opens(r, b) == b = r /\ Cardinality(OpenBatches) < MaxOpen
Continues(b) == /\ b \in OpenBatches /\ calls[b].kind = "ingest"
                /\ Cardinality(CallsOf(b)) < MaxBatch

MayCall(r, kind, i, k, b) ==
    /\ <<kind, i>> \in Callers
    /\ calls[r].pc = "new"
    /\ \A q \in 1 .. r - 1 : calls[q].pc # "new"
    /\ Opens(r, b) \/ (kind = "ingest" /\ Continues(b))
    /\ kind = "ingest" => i \in incidents /\ ~StreamLocked(i, b) /\ k = r

EnqueueCheck(r, kind, i, k, b) ==
    /\ MayCall(r, kind, i, k, b)
    /\ ~Ambiguous(i, k, b)
    /\ calls' = [calls EXCEPT ![r] =
                   [pc |-> "checked", kind |-> kind, inc |-> i, key |-> k,
                    batch |-> b, verdict |-> Verdict(i, k, b)]]
    /\ UNCHANGED <<queue, workers, incidents, effects, bounds>>

\* A transaction ends, with all its calls.
End(some, pc) ==
    calls' = [r \in Requests |->
                IF r \in some THEN [calls[r] EXCEPT !.pc = pc] ELSE calls[r]]

\* Nothing catches MultipleResultsFound: the whole batch is rolled back.
EnqueueRaises(r, kind, i, k, b) ==
    /\ MayCall(r, kind, i, k, b)
    /\ Ambiguous(i, k, b)
    /\ End(CallsOf(b) \cup {r}, "error")
    /\ UNCHANGED <<queue, workers, incidents, effects, bounds>>

KeysFree(b) == \A r \in InsertsOf(b) : JobsWithKey(KeyOf(r)) = {}

\* The commit: ingestion keeps its alerts also when the queue is full
\* (BackpressureExceededError is swallowed) or a job is reused.
EnqueueCommit(b) ==
    /\ b \in OpenBatches
    /\ KeysFree(b)
    /\ End(CallsOf(b), "done")
    /\ jobs' = [j \in Requests |-> IF j \in InsertsOf(b) THEN Pending ELSE jobs[j]]
    /\ alerts' = alerts \cup {r \in CallsOf(b) : calls[r].kind = "ingest"}
    /\ UNCHANGED <<delayed, workers, incidents, analysed, recorded, posted,
                   reports, dlq, bounds>>

\* UNIQUE (idempotency_key): a racing call committed the key first.
EnqueueConflict(b) ==
    /\ b \in OpenBatches
    /\ ~KeysFree(b)
    /\ End(CallsOf(b), "error")
    /\ UNCHANGED <<queue, workers, incidents, effects, bounds>>

\* The transaction is rolled back: an alert of the batch is a duplicate, or
\* the batch is the victim of a deadlock, or the database fails.
EnqueueFails(b) ==
    /\ b \in OpenBatches
    /\ End(CallsOf(b), "error")
    /\ UNCHANGED <<queue, workers, incidents, effects, bounds>>

-----------------------------------------------------------------------------
(* The worker loop.                                                        *)

At(w, pc) == workers[w].pc = pc
GoTo(w, pc) == workers' = [workers EXCEPT ![w].pc = pc]

Claimable_Running == {j \in Requests \ delayed : jobs[j].status \in ActiveStatus}
Claimable_NoRetries == {j \in Requests \ delayed : jobs[j].status = "PENDING"}
Claimable == {j \in Requests \ delayed : jobs[j].status \in {"PENDING", "RETRYING"}}

ClaimNextJob_NotMarked(j) ==
    /\ j \in Claimable
    /\ \A other \in Claimable : calls[j].batch <= calls[other].batch
    /\ UNCHANGED jobs

\* ORDER BY created_at ... FOR UPDATE SKIP LOCKED LIMIT 1; created_at is now(),
\* the start of the transaction, the same for all jobs of a batch.
ClaimNextJob(j) ==
    /\ j \in Claimable
    /\ \A other \in Claimable : calls[j].batch <= calls[other].batch
    /\ jobs' = [jobs EXCEPT ![j].status = "PROCESSING"]

Claim(w, j) ==
    /\ At(w, "idle")
    /\ ClaimNextJob(j)
    /\ workers' = [workers EXCEPT ![w] = [pc |-> "fetch", job |-> j, bundle |-> {}]]
    /\ UNCHANGED <<delayed, calls, incidents, effects, bounds>>

\* The claim stands outside the worker's try block: its failure ends the task.
\* The commit may have been applied although its answer was lost.
ClaimFails(w) ==
    /\ At(w, "idle")
    /\ DbFault
    /\ workers' = [workers EXCEPT ![w] = Stopped]
    /\ \/ \E j \in Claimable : ClaimNextJob(j)
       \/ UNCHANGED jobs
    /\ UNCHANGED <<delayed, calls, incidents, effects>>

\* GET history-agent /incidents/{id}: the bundle holds the alerts of this moment.
FetchIncident(w) ==
    LET i == IncidentOf(workers[w].job) IN
    /\ At(w, "fetch")
    /\ i \in incidents
    /\ workers' = [workers EXCEPT ![w].pc = "select",
                                  ![w].bundle = {a \in alerts : calls[a].inc = i}]
    /\ UNCHANGED <<queue, calls, incidents, effects, bounds>>

AlreadyAnalysed_NotChecked(j) == FALSE
AlreadyAnalysed(j) == KeyOf(j) \in recorded

\* First half of the analysis transaction: the incident and the event that
\* an earlier attempt at this job may have stored.
SelectIncident(w) ==
    LET j == workers[w].job IN
    /\ At(w, "select")
    /\ IncidentOf(j) \in incidents
    /\ GoTo(w, IF AlreadyAnalysed(j) THEN "report" ELSE "decide")
    /\ UNCHANGED <<queue, calls, incidents, effects, bounds>>

\* The rows analyze() leaves: action_recorded carries the job's key, which is
\* UNIQUE, and a foreign key to the incident; append_event waits for the
\* stream's advisory lock.
AppendAnalysis(w) ==
    LET j == workers[w].job IN
    /\ IncidentOf(j) \in incidents
    /\ ~StreamLocked(IncidentOf(j), NoJob)
    /\ KeyOf(j) \notin recorded
    /\ recorded' = recorded \cup {KeyOf(j)}
    /\ analysed' = analysed \cup workers[w].bundle

\* Second half, after the model has answered: append and commit.
CommitAnalysis(w) ==
    /\ At(w, "decide")
    /\ AppendAnalysis(w)
    /\ GoTo(w, "report")
    /\ UNCHANGED <<queue, calls, incidents, alerts, posted, reports, dlq,
                   bounds>>

\* The commit is applied but its answer is lost: the worker sees an exception.
CommitAnalysisUnanswered(w) ==
    /\ At(w, "decide")
    /\ DbFault
    /\ AppendAnalysis(w)
    /\ GoTo(w, "failed")
    /\ UNCHANGED <<queue, calls, incidents, alerts, posted, reports, dlq>>

\* POST report-agent /report/{id} with key report:{incident}:{job}.
PostReport(w) ==
    /\ At(w, "report")
    /\ posted' = posted \cup {workers[w].job}
    /\ GoTo(w, "await")
    /\ UNCHANGED <<queue, calls, incidents, alerts, analysed, recorded,
                   reports, dlq, bounds>>

\* report-agent stores the report event of a request, also of one whose
\* sender has given up; the key makes a second delivery change nothing.
GenerateReport(j) ==
    /\ j \in posted
    /\ IncidentOf(j) \in incidents
    /\ reports' = reports \cup {j}
    /\ UNCHANGED <<queue, calls, workers, incidents, alerts, analysed,
                   recorded, posted, dlq, bounds>>

ReportAnswered_AnyAnswer(w) ==
    /\ At(w, "await")
    /\ GoTo(w, "complete")
    /\ UNCHANGED <<queue, calls, incidents, effects, bounds>>

\* Only a 2xx answer of report-agent gets here.
ReportAnswered(w) ==
    /\ At(w, "await")
    /\ workers[w].job \in reports
    /\ GoTo(w, "complete")
    /\ UNCHANGED <<queue, calls, incidents, effects, bounds>>

\* Any exception inside the try block: an HTTP error or timeout, an open
\* circuit breaker, no incident row, a refused transaction, or no job row.
\* In "complete", scalar_one() misses a job row that was deleted.
AttemptFails(w) ==
    /\ \/ workers[w].pc \in {"fetch", "select", "decide", "report", "await"}
       \/ At(w, "complete") /\ ~Exists(workers[w].job)
    /\ GoTo(w, "failed")
    /\ UNCHANGED <<queue, calls, incidents, effects, bounds>>

MarkJobComplete(j) == jobs' = [jobs EXCEPT ![j].status = "COMPLETED"]

Complete(w) ==
    LET j == workers[w].job IN
    /\ At(w, "complete")
    /\ Exists(j)
    /\ MarkJobComplete(j)
    /\ workers' = [workers EXCEPT ![w] = Idle]
    /\ UNCHANGED <<delayed, calls, incidents, effects, bounds>>

CompleteFails(w) ==
    LET j == workers[w].job IN
    /\ At(w, "complete")
    /\ Exists(j)
    /\ DbFault
    /\ GoTo(w, "failed")
    /\ MarkJobComplete(j) \/ UNCHANGED jobs
    /\ UNCHANGED <<delayed, calls, incidents, effects>>

-----------------------------------------------------------------------------
(* The except branch: retry_job, and enqueue_dead_letter when it gives up. *)

RetriesSpent_OffByOne(tries) == tries > MaxRetries
RetriesSpent(tries) == tries >= MaxRetries

RetryJob(j) ==
    LET tries == jobs[j].tries + 1 IN
    IF RetriesSpent(tries)
    THEN /\ jobs' = [jobs EXCEPT ![j] = [status |-> "FAILED", tries |-> tries]]
         /\ dlq' = dlq \cup {j}
         /\ UNCHANGED delayed
    ELSE /\ jobs' = [jobs EXCEPT ![j] = [status |-> "RETRYING", tries |-> tries]]
         /\ delayed' = delayed \cup {j}
         /\ UNCHANGED dlq

Retry(w) ==
    LET j == workers[w].job IN
    /\ At(w, "failed")
    /\ Exists(j)
    /\ RetryJob(j)
    /\ workers' = [workers EXCEPT ![w] = Idle]
    /\ UNCHANGED <<calls, incidents, alerts, analysed, recorded, posted,
                   reports, bounds>>

\* Nothing catches what the except branch itself raises: the task ends.
RetryFails(w) ==
    LET j == workers[w].job IN
    /\ At(w, "failed")
    /\ Exists(j)
    /\ DbFault
    /\ RetryJob(j) \/ UNCHANGED <<queue, dlq>>
    /\ workers' = [workers EXCEPT ![w] = Stopped]
    /\ UNCHANGED <<calls, incidents, alerts, analysed, recorded, posted,
                   reports>>

\* scalar_one() finds no row: the incident, and the job with it, was deleted.
RetryFindsNoJob(w) ==
    /\ At(w, "failed")
    /\ ~Exists(workers[w].job)
    /\ workers' = [workers EXCEPT ![w] = Stopped]
    /\ UNCHANGED <<queue, calls, incidents, effects, bounds>>

\* not_before is reached.
DelayElapsed(j) ==
    /\ j \in delayed
    /\ delayed' = delayed \ {j}
    /\ UNCHANGED <<jobs, calls, workers, incidents, effects, bounds>>

-----------------------------------------------------------------------------
(* The environment of the workers.                                         *)

\* The process of w stops (lifespan cancels the task: CancelledError is not an
\* Exception, so no retry_job runs) or dies, and starts again.
Restart(w) ==
    /\ crashes < MaxCrashes
    /\ crashes' = crashes + 1
    /\ workers' = [workers EXCEPT ![w] = Idle]
    /\ UNCHANGED <<queue, calls, incidents, effects, deletes, dbFaults>>

\* DELETE /incidents/{id}: the jobs of the stream, then the incident, whose
\* alerts and events cascade.  ALTER TABLE incident_events waits for every
\* transaction that has appended an event, an ingestion among them.
DeleteIncident(i) ==
    LET gone == {r \in Requests : calls[r].inc = i} IN
    /\ deletes < MaxDeletes
    /\ i \in incidents
    /\ ~StreamLocked(i, NoJob)
    /\ deletes' = deletes + 1
    /\ incidents' = incidents \ {i}
    /\ jobs' = [j \in Requests |-> IF j \in gone THEN Absent ELSE jobs[j]]
    /\ delayed' = delayed \ gone
    /\ alerts' = alerts \ gone
    /\ analysed' = analysed \ gone
    /\ reports' = reports \ gone
    /\ recorded' = recorded \ {KeyOf(j) : j \in {r \in gone : Exists(r)}}
    /\ UNCHANGED <<calls, workers, posted, dlq, crashes, dbFaults>>

-----------------------------------------------------------------------------
EnqueueStep ==
    \/ \E r \in Requests, kind \in Kinds, i \in Incidents :
         \E k \in Keys \cup {r}, b \in OpenBatches \cup {r} :
            EnqueueCheck(r, kind, i, k, b) \/ EnqueueRaises(r, kind, i, k, b)
    \/ \E b \in Requests :
         EnqueueCommit(b) \/ EnqueueConflict(b) \/ EnqueueFails(b)

WorkerStep(w) ==
    \/ \E j \in Requests : Claim(w, j)
    \/ FetchIncident(w) \/ SelectIncident(w) \/ CommitAnalysis(w)
    \/ PostReport(w) \/ ReportAnswered(w) \/ Complete(w)
    \/ AttemptFails(w) \/ Retry(w) \/ RetryFindsNoJob(w)

WorkerFault(w) ==
    \/ ClaimFails(w) \/ CommitAnalysisUnanswered(w)
    \/ CompleteFails(w) \/ RetryFails(w)

Next ==
    \/ EnqueueStep
    \/ \E w \in Workers : WorkerStep(w) \/ WorkerFault(w) \/ Restart(w)
    \/ \E j \in Requests : GenerateReport(j) \/ DelayElapsed(j)
    \/ \E i \in Incidents : DeleteIncident(i)

Spec == Init /\ [][Next]_vars

\* A running worker keeps taking steps and not_before passes; nothing is
\* assumed of callers, of report-agent, of restarts or of deletions.
Fairness ==
    /\ \A w \in Workers : WF_vars(WorkerStep(w))
    /\ \A j \in Requests : WF_vars(DelayElapsed(j))
    /\ \A b \in Requests : WF_vars(EnqueueCommit(b))

FairSpec == Spec /\ Fairness
-----------------------------------------------------------------------------
(* Properties.                                                             *)

\* Every variable has its shape.
TypeOK ==
    /\ jobs \in [Requests -> Job]
    /\ delayed \subseteq Requests
    /\ calls \in [Requests -> Call]
    /\ workers \in [Workers -> Worker]
    /\ \A w \in Workers : workers[w].pc \in Holding => workers[w].job \in Requests
    /\ incidents \subseteq Incidents
    /\ alerts \subseteq Requests /\ analysed \subseteq Requests
    /\ recorded \subseteq Requests \cup Keys
    /\ posted \subseteq Requests /\ reports \subseteq Requests /\ dlq \subseteq Requests
    /\ deletes \in 0 .. MaxDeletes
    /\ crashes \in 0 .. MaxCrashes
    /\ dbFaults \in 0 .. MaxDbFaults

\* claim_next_job hands a job to one worker: no two workers hold the same job,
\* and nobody else can claim, retry or bury it while its worker has it.  Only
\* a completion whose answer was lost shows a held job as COMPLETED.
HeldExclusively ==
    \A w \in Workers, j \in Requests : Holds(w, j) =>
        /\ \A v \in Workers : Holds(v, j) => v = w
        /\ \/ jobs[j].status \in {"PROCESSING", "ABSENT"}
           \/ At(w, "failed") /\ jobs[j].status = "COMPLETED"

\* The look-up of the job's key before the analysis (worker.py) is enough: no
\* worker pays for a model run on a job whose event is already stored, so the
\* UNIQUE constraint on the key is never what stops a second analysis.  (The
\* job of a deleted incident may lose its key to a later request.)
AnalysisNotRepeated ==
    \A w \in Workers :
        At(w, "decide") /\ Exists(workers[w].job)
            => KeyOf(workers[w].job) \notin recorded

\* Effects are in order and none is skipped, whatever was retried or lost: a
\* completed job has its report, and a reported job has its analysis (as long
\* as no operator deletes one of the two events: that call is not modelled).
EffectsInOrder ==
    \A j \in Requests :
        /\ jobs[j].status = "COMPLETED" => j \in reports
        /\ j \in reports => KeyOf(j) \in recorded

\* A job is given up exactly when the retries are spent, and what is given up
\* is in the dead-letter queue: nothing is dropped, nothing is there that the
\* queue still works on.
DeadLetterIffFailed ==
    \A j \in Requests : Exists(j) =>
        /\ jobs[j].status = "FAILED" <=> j \in dlq
        /\ jobs[j].status = "FAILED" <=> jobs[j].tries = MaxRetries

\* Ingestion checks and inserts under the stream's advisory lock, so it alone
\* never gives an incident a second active job, whatever queue_analyze does; only
\* a completion that was undone by a lost answer brings another one back.
OneIngestedJobPerIncident ==
    \A i \in Incidents :
        Cardinality({j \in ActiveJobsOf(i) : calls[j].kind = "ingest"})
            <= 1 + dbFaults

\* The backlog check is not atomic with the insert: a transaction sees its own
\* inserts and the committed ones, so the backlog, with the inserts under way,
\* can exceed the limit by what every other transaction open at once inserts
\* unseen: a whole batch, but no more than the limit each (and by the
\* completions that were undone by a lost answer).
InsertsUnseen == IF MaxBatch < MaxPending THEN MaxBatch ELSE MaxPending

BacklogBounded ==
    LET inserting == {r \in OpenCalls : calls[r].verdict = "insert"} IN
    Cardinality(ActiveJobs \cup inserting)
        <= MaxPending + (MaxOpen - 1) * InsertsUnseen + dbFaults

\* FAILED is final: no late answer, retry or second worker revives a job whose
\* retries are spent; only deleting the incident removes it.
FailedIsFinal ==
    [][\A j \in Requests : jobs[j].status = "FAILED" =>
                               jobs'[j].status \in {"FAILED", "ABSENT"}]_vars

\* Every job reaches its report or the dead-letter queue (or is deleted).
EveryJobSettles ==
    \A j \in Requests :
        jobs[j].status \in ActiveStatus
            ~> jobs[j].status \in {"COMPLETED", "FAILED", "ABSENT"}

\* Every alert that was ingested is in the bundle of some analysis, unless the
\* queue gave up on its incident (or the incident was deleted).
EveryAlertAnalysed ==
    \A a \in Requests :
        a \in alerts ~> \/ a \notin alerts
                        \/ a \in analysed
                        \/ \E j \in dlq : IncidentOf(j) = IncidentOf(a)

\* The queue implements AnalysisJobs: each row is a job, its phase is the row's
\* status, and its effects are the event with its key and its report.
PhaseOf(status) ==
    CASE status = "ABSENT" -> "none"
      [] status \in {"PENDING", "RETRYING"} -> "waiting"
      [] status = "PROCESSING" -> "running"
      [] status = "COMPLETED" -> "settled"
      [] status = "FAILED" -> "dead"

Abstract == INSTANCE AnalysisJobs WITH
    Jobs <- Requests,
    phase <- [j \in Requests |-> PhaseOf(jobs[j].status)],
    analysed <- [j \in Requests |-> Exists(j) /\ KeyOf(j) \in recorded],
    reported <- [j \in Requests |-> j \in reports]

ImplementsAnalysisJobs == Abstract!Spec
-----------------------------------------------------------------------------
(* The inductive invariant behind the safety properties: IInv, with        *)
(* BatchesWhole, which is inductive by itself.                             *)

\* A call that has not committed an insert has left nothing behind.
NothingBeforeCommit ==
    \A r \in Requests : calls[r].pc # "done" =>
        /\ ~Exists(r)
        /\ r \notin posted \cup reports \cup dlq
        /\ \A w \in Workers : ~Holds(w, r)

\* The calls of an open transaction belong to its first one; only ingestion
\* makes several, and their keys differ.
BatchesWhole ==
    \A r \in OpenCalls :
        LET b == calls[r].batch IN
        /\ b \in OpenCalls /\ calls[b].batch = b /\ calls[b].kind = calls[r].kind
        /\ IF calls[r].kind = "ingest" THEN calls[r].key = r ELSE b = r

\* A key names one row, and is the key of an event only while it has its row.
KeysUnique ==
    /\ \A j, q \in Requests : Exists(j) /\ Exists(q) /\ KeyOf(j) = KeyOf(q) => j = q
    /\ \A k \in recorded : JobsWithKey(k) # {}

\* A job in use is missing only because its incident was deleted.
RowsKept ==
    /\ \A w \in Workers, j \in Requests :
         Holds(w, j) /\ IncidentOf(j) \in incidents => Exists(j)
    /\ \A j \in posted : IncidentOf(j) \in incidents => Exists(j)
    /\ \A j \in reports : Exists(j) /\ IncidentOf(j) \in incidents

\* What a worker, or a report request, stands for is stored already.
StepsDone ==
    /\ \A w \in Workers, j \in Requests :
         Holds(w, j) /\ Exists(j) =>
           /\ workers[w].pc \in {"report", "await", "complete"}
                 => KeyOf(j) \in recorded
           /\ At(w, "complete") => j \in reports
    /\ \A j \in posted : Exists(j) => KeyOf(j) \in recorded

IInv ==
    /\ TypeOK
    /\ HeldExclusively
    /\ DeadLetterIffFailed
    /\ NothingBeforeCommit
    /\ KeysUnique
    /\ RowsKept
    /\ StepsDone
    /\ AnalysisNotRepeated
    /\ EffectsInOrder
=============================================================================

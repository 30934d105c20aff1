# SRE-AI in TLA+

TLA+ models of the SRE-AI incident system, the TLC runs that check them and the
TLAPS proofs about them. Paths below are relative to the repository (`src/`).

Contents: 1 the system · 2 modules and the code · 3 runs · 4 bounds · 5 fairness ·
6 proofs · 7 disagreements found · 8 what is not modelled · 9 what is left

## 1. The system

Four Python services around one PostgreSQL database. Alerts enter at
**history-agent**, which appends events to the stream of an incident and keeps a
row of table `incidents` as their projection. Each firing alert puts a job in
table `event_queue`. A worker task inside each **supervisor-agent** process
claims the job, fetches the incident, asks a model what to do, appends the
decision and asks **report-agent** for a report, which report-agent stores in
the stream and posts to Mattermost. **observability-agent** and **repo-agent**
fetch data for the model. A blue/green deployment (`README.md:740`,
`docker-compose.bluegreen.yml`) runs two processes of a service on one database
and one directory of configuration files. Operators use the same HTTP routes as
the services.

    alert --> history-agent --+--> incident_events, incidents <-- status requests
                              |                        ^                (operators)
                              +--> event_queue         | append decision, report
                                      | claim          |
                                supervisor worker -----+--> report-agent --> Mattermost
                                      | gives up                 | fails
                                      +--> dead_letter_queue <---+

| Component (code) | State | Operations | What makes it correct |
|---|---|---|---|
| Supervisor queue (`shared/aiops_shared/queue.py`) | rows of `event_queue`: status, `retry_count`, `not_before`, `idempotency_key` | `enqueue_job`, `claim_next_job`, `mark_job_complete`, `retry_job` | one holder per job; bounded backlog; one active job per incident; nothing lost, nothing revived |
| Queue worker (`supervisor-agent/core/worker.py`) | the job in hand, the bundle it fetched | claim, fetch, analyse, report, complete, retry | effects in order, not repeated by a retry; every job settles |
| Event store (`event_store.py`, `projector.py`, `idempotency.py`) | `incident_events`, `incidents`, advisory and row locks | `append_event`, `next_sequence_number`, `apply_event_to_projection`, look-up by key | numbers unique and in commit order; row = projection of the log; a key works once |
| Lifecycle (`fsm.py`, `supervisor-agent/api/routes.py`, `analyzer.py`) | `incidents.status` | `_change_status`, `analyze` | status follows `ALLOWED_TRANSITIONS` |
| Ingestion (`history-agent/core/storage.py`) | incidents by grouping key | `ingest_alert`, `ingest_alert_batch`, the deletions | an alert joins the right incident and is analysed |
| Alertmanager poller (`alertmanager_poll.py`) | none but the database | poll, ingest each alert | an alert that stays active is ingested once |
| Replay (`replay.py`, `projector.py`) | state folded from a log | `apply_event_to_state`, `replay_incident_stream` | the replayed state is the live row |
| Report agent (`report-agent/api/routes.py`) | report and delivery events | `generate_report` | posted once, or recorded as not posted |
| Mattermost integration (`report-agent/core/mattermost.py`) | `report_integrations.json` | load, merge, replace; send | the record of a delivery is true; no change of the file is lost |
| Advisor and war room (`llm_client.py`, `memory.py`, `analyzer.py`) | conversation of one analysis; session memory in Redis; connections of the pool | ReAct loop with tools, fallback by rule; `answer_question` | bounded steps; the rule only when needed; doubt goes to a human; no deadlock on the pool |
| Model routing (`llm_config.py`, `secret_store.py`, `llm_client.py` in `shared`) | `llm_config.json`, runtime secrets, kept clients | validate, load, save; `run_llm` | what was accepted loads again; a call uses route, key and URL of the configuration, or of the environment |
| HTTP client (`http_client.py`) | of each client: breaker state, failure count, opening time, shared by all targets | `AsyncServiceClient.request` with retries | open exactly at the threshold; recovers when the services do |
| Dead letters (`dlq.py`, `dlq_worker.py`) | rows of `dead_letter_queue` | `enqueue_dead_letter`, `claim_dlq_items`, `mark_dlq_success`, `mark_dlq_failed` | nothing given up is forgotten |
| Observability, repo agent, UI, migrations, scripts | none that a property is about | fetches, pages | – |

**What is hard.** Everything shared lies in PostgreSQL at READ COMMITTED, and the
code reads rows without locking them, does something slow (a model call, a wait
for a lock, an HTTP request) and then writes. Transactions of different services
take the same two locks in different orders. Every HTTP call is retried by its
caller after a timeout, while the callee may still be working on it. Workers are
cancelled at shutdown between two transactions of one job. Configuration files are
read, changed and replaced by processes that do not know of each other.
`PROJECT.json` lists these hazards line by line, with the properties about each.

## 2. The modules and the code

| Module | What it is |
|---|---|
| `AnalysisJobs` | abstract: what the queue promises of each job |
| `SupervisorQueue` | queue, its two callers, the workers, restart and deletion |
| `EventLog` | abstract: what the event store promises of an incident's row and log |
| `IncidentStream` | one incident under concurrent transactions of all services |
| `EventReplay` | the columns of an incident against the replay of its log |
| `AlertGroups` | how alerts find, open and reopen incidents; batches and the poller |
| `Advisor` | an analysis and a war-room question with model, tools, pool and memory |
| `ReportDelivery` | `generate_report` in report-agent, and the Mattermost file |
| `ModelRouting` | routing file, secrets, kept clients, attempts of a model call |
| `CircuitBreaker`, `DeadLetters` | the HTTP client's breaker; the dead-letter table |
| `ServiceCalls` | composes the two: requests that fetch through the breaker and bury what fails |
| `MC…` | instances of the above for TLC: symmetry sets, sample inputs |
| `SupervisorQueueProofs`, `IncidentStreamProofs`, `EventReplayProofs`, `AlertGroupsProofs`, `AdvisorProofs`, `ReportDeliveryProofs`, `ModelRoutingProofs`, `ServiceCallsProofs` | theorems about the module each is named after |

In all modules an action is one committed transaction, one remote call, one wait
for a lock, or the failure of one of these. Between two actions every other
process may run. Failure of a transaction comes in the two forms a client sees:
it was refused, or it was applied and the answer was lost. An operator called
`Something_Mistake`, such as `Claimable_Running`, is the operator with a mistake in
it. No specification uses one; putting one in the place of its original shows
which property notices.

The modules meet in what they share of the code. A firing alert that `AlertGroups`
inserts is the ingest call of `SupervisorQueue` and the `"firing"` transaction of
`IncidentStream` and `EventReplay`; the analysis that `SupervisorQueue` commits is
the one whose decision `Advisor` makes and whose events `IncidentStream` appends;
its report request is a call of `ReportDelivery`; the dead letters of a worker or
of a failed fetch are rows of `DeadLetters`. Each module abstracts from what the
others have: `SupervisorQueue` knows of an analysis only whether it was stored.

### SupervisorQueue

A row is named by the call of `enqueue_job` that inserted it; calls are numbered in
the order in which they are made. `POST /alerts` ingests a batch of alerts in one
transaction, with one call of `enqueue_job` for each firing alert; the transaction is
named by its first call, and the order of these names is the order of `created_at`.

| Variable | Code |
|---|---|
| `jobs[j]` | `event_queue.status` and `retry_count`; `"ABSENT"`: no row |
| `delayed` | rows whose `not_before` lies ahead (`retry_job`'s backoff, length abstracted) |
| `calls[r]` | a call of `enqueue_job`: before it, between its reads and the commit of its transaction (`batch`), after it; what it decided (`verdict`) |
| `workers[w]` | `pc`: the next await of `run_supervisor_queue_worker`; the job; the alerts in the fetched bundle |
| `alerts`, `analysed` | alerts that are stored; those in the bundle of a stored analysis |
| `recorded` | keys of the `action_recorded` events (`UNIQUE`) |
| `posted`, `reports` | report requests sent to report-agent; jobs whose report event is stored |
| `dlq` | jobs with a dead letter |

| Action | Code |
|---|---|
| `EnqueueCheck`, `EnqueueRaises` | one call of `enqueue_job`: the first of a transaction (`Opens`), or for the next alert of a batch (`Continues`). It sees committed rows and those of its own transaction (`ActiveJobsSeen`). In `ingest_alert` it has the stream's advisory lock, which `append_event` took; `queue_analyze` has no lock. A second active row of the stream makes `scalar_one_or_none` raise |
| `EnqueueCommit`, `EnqueueConflict`, `EnqueueFails` | the end of a transaction with all its calls: all rows, or none |
| `Claim`, `ClaimFails` | `claim_next_job`: `ORDER BY created_at FOR UPDATE SKIP LOCKED LIMIT 1`; outside the `try`, so that a failure ends the task |
| `FetchIncident` | `GET history-agent /incidents/{id}` |
| `SelectIncident`, `CommitAnalysis`, `CommitAnalysisUnanswered` | the analysis transaction: look-up of the key, model, append, commit |
| `PostReport`, `GenerateReport`, `ReportAnswered` | `POST report-agent /report/{id}`; report-agent may store a report after the worker gave up |
| `AttemptFails` | anything that raises in the `try`: HTTP error, timeout, open breaker, missing row |
| `Complete`, `CompleteFails` | `mark_job_complete` |
| `Retry`, `RetryFails`, `RetryFindsNoJob` | the `except` branch: `retry_job`, `enqueue_dead_letter`; it can raise itself, which ends the task |
| `Restart`, `DeleteIncident`, `DelayElapsed` | cancellation or crash; `DELETE /incidents/{id}` with its cascades; `not_before` passes |

`AnalysisJobs` knows neither workers nor transactions: a job waits, runs, settles
or dies; it is analysed at most once and only while it runs; its report comes
after its analysis. The refinement mapping (`Abstract`) reads the phase off the
row, "analysed" off the keys in `recorded` and "reported" off `reports`.
`Unsettle` is in the abstract specification because a completion whose answer was
lost is taken back into the queue by the code.

### IncidentStream

One incident and its row `[status, version]`, its `log` of events, the
transactions that are open, what each has inserted and not committed
(`pending`), and the holders of the row lock and of the stream's advisory lock.

| Action | Code |
|---|---|
| `Begin` | a request; look-up of its key (`get_existing_event_by_idempotency`), which ingestion does not do |
| `ReadIncident` | the unlocked `SELECT`, and what is decided on it (`MayWant`): `apply_transition`, `analyze()` dropping a transition that is not allowed, `resolves` in `ingest_alert` |
| `LockRow`, `LockStream` | the flush of an `UPDATE`; `pg_advisory_xact_lock`. Ingestion takes the row first; a status change takes the stream first, because its `UPDATE` is flushed by the query for the largest number |
| `Append`, `AppendConflict` | `append_event` (`NewEvent`) and `apply_event_to_projection`; `IntegrityError` on the key |
| `Commit`, `Fail`, `BreakDeadlock` | the end of a transaction; the database's deadlock detector |
| `DeleteEvent` | `DELETE /incidents/{id}/events/{event_id}`, which leaves the row as it is |

Event types that leave status and version alone are one type, `"note"`: action
records, reports, delivery records, chat, review requests. `report.delivery_recorded`
and chat append in the same way as a report and are covered by its kind.
`Written` models SQLAlchemy writing only the columns that differ from those it
loaded. The trigger `validate_incident_status_transition` (`init.sql`) is not a
guard of the model: it compares the event with the row, which the same
transaction has already updated.

`EventLog` has only the row and the log. A request appends its events in one step, at
the numbers that follow without a gap, with keys that are free and under a name that
has not appended before; the row takes its status and version from these events and
from nothing else; a deletion leaves it alone. The stream implements it with its own
`row` and `log`: locks, unlocked reads, deadlocks and failures are steps in which
neither moves.

### EventReplay

Here the locks are left to `IncidentStream`: a transaction reads in one step and
writes in another. What it has instead is every column that an event sets, so that
the row can be compared with `GET /incidents/{id}/events/replay`.

| Variable | Code |
|---|---|
| `row` | the columns of `incidents` that events set: status, severity, `source_count`, `last_seen_at`, the times of acknowledgement, mitigation, resolution and closing, `mttr_seconds`, version. A time is the number of the event it came from |
| `log`, `opening` | the events in order; whether the first one opened the incident or reopened a problem |
| `txns[t]` | a request: what it is, what it read, what it wants |
| `active`, `settled`, `silenced` | numbers in the job keys `analyze:{id}:{n}` that are in the queue, over, or were met as over by a firing alert |
| `overtaken` | history: an ingestion wrote columns computed from a row that another had changed |

| Operator or action | Code |
|---|---|
| `ApplyEvent`, `Reached` | `apply_event_to_state`, used for both sides |
| `ApplyEvents`, `Replayed` | `replay_incident_stream`: the fold of `ApplyEvent` over a log, from a blank state |
| `ReadIncident`, `Prepared`, `ProjectedEvents`, `OtherEvents`, `Written`, `Commit` | a transaction of ingestion, `_change_status`, `analyze` or `generate_report`; `Written` is again the columns that changed |
| `JobNumber`, `Enqueue`, `SettleJob` | the key of the job, `enqueue_job`, the worker |
| `DeleteEvent` | as above; a deleted last event lets its number be given again |

### AlertGroups

The incidents of each grouping key, and the sessions that ingest into them: a
`POST /alerts` request is one transaction for all its alerts, a poll is one
transaction for each alert in one session. A behaviour starts (`Starts`) without
incidents or with some that earlier alerts opened (`Earlier`). Here an alert is its `event_key`, and a
lock stands for the row lock and the advisory lock of an incident, which
`IncidentStream` tells apart.

| Variable | Code |
|---|---|
| `about` | grouping key of each alert, and whether it is firing or resolved |
| `incidents[i]` | group, `status` (active or over), `last_seen_at` |
| `stored` | `event_key`s in table `alerts` |
| `sessions[s]` | the next await of `ingest_alert`; whether a transaction is open and when it began; alerts to come; the alert in hand; what was read for it |
| `own[s]`, `inserted[s]` | rows and alerts that the open transaction has written |
| `clock` | commits so far. `last_seen_at` becomes `created_at` of the attached event, which is the start of its transaction, not its commit |
| `touched`, `disturbed` | history: when a group was last ingested into; groups whose order of `last_seen_at` is lost |

| Action | Code |
|---|---|
| `Post`, `Poll` | a request; `poll_once` with the firing alerts |
| `Select(s, a, fresh)` | the `SELECT ... ORDER BY last_seen_at DESC LIMIT 1` and `should_reopen_incident`. Times of observation come from the alert and are free, and with them the limit of 24 hours |
| `Lock`, `Insert(s, a)` | the flush of the `UPDATE`; the new incident, the alert and its events; `UNIQUE event_key` waits for another open transaction |
| `Duplicate`, `Fail`, `BreakDeadlock` | 409 or the next alert of the poll; the end of request or poll |
| `Commit` | end of the transaction, and the next alert of a poll |
| `Settle` | an operator or an analysis resolves an incident (one of the `faults`) |

SQLAlchemy keeps no strong reference to a row that it has flushed, so each
`ingest_alert` of a batch reads its incident again, its own changes included
(`View`); but a resolved alert decides with the status from that read, not from
after the lock (`saw`). Deleting an incident is modelled in `SupervisorQueue` and
`ReportDelivery` and left out here.

### Advisor

| Variable | Code |
|---|---|
| `runs[r]` | an analysis (`AnalysisService.analyze` with `build_decision`) or a question (`answer_question`): its next await, what it found, the iteration, who gave the advice, and whether anything failed |
| `outcome[r]` | the transition and the review request that `analyze` appends |
| `memory` | the entries of one war-room session in Redis |
| `shown`, `earlier` | history: what a question was given; the questions answered before it |

| Action | Code |
|---|---|
| `StartAnalysis`, `SelectIncident` | the bundle has come; the transaction reads the row, which may have gone on since |
| `BeginQuery`, `EndQuery`, `QueryFails` | `retrieve_similar_incidents` on a second connection of the pool |
| `PoolTimeout` | SQLAlchemy's `QueuePool` gives up after `pool_timeout`: a failed request, or advice by rule |
| `AskTool`, `ToolAnswers`, `ToolFails` | an iteration that ends in a tool; a tool never raises |
| `AskFinal`, `AskFails` | a final reply, `_coerce_final_decision`; no reply, or no JSON |
| `Conclude`, `ConcludeFails` | `analyze`: threshold, `can_transition`, append, commit (`Unsure`, `Decide`) |
| `StartQuestion`, `StartQuestionBlind`, `StoreQuestion`, `StoreAnswer`, `StoreFails`, `Expire` | the war room: history of the last entries, two appends, failures that `WarRoomMemory` swallows, the TTL |

`Rule` is `build_fallback_decision` on classes of alerts instead of alerts; `Clamp`
is `max(0.0, min(1.0, c))`, in which NaN becomes 1.0. `shown` of a question is
what its prompt contains; what a reply says beyond confidence, status and "ask a
human" is data.

### ReportDelivery

One action per transaction or call of `generate_report`: `LookUp`,
`FetchIncident`/`FetchFails`/`BuryFetch`, `Store`/`StoreConflict`/
`StoreFindsNoIncident`, `Deliver`/`DeliverFails`/`BuryDelivery`,
`RecordDelivery`/`RecordFindsNoIncident`, `TransactionFails`; around it `Crash`
and `DeleteIncident`. `DeliverFails` lets the message arrive although the call
raises. `FetchIncident` may also end the request: rendering reads the model
routing file, which may be unreadable. Retry counts of dead letters are left out.

`LoadConfig` and `SaveConfig` are the two halves of `save_mattermost_config`. Within
one process no await is between them; two processes share the file. `Merged` keeps
the stored webhook when the new one is blank and removes it when it is spaces only,
`Complete` is the check that delivery has a webhook. `wish` folds all accepted
changes, `crossed` says that a writer replaced a file it had not read, and
`unwanted` the reports that were due while operators did not want delivery.

### ModelRouting

| Variable | Code |
|---|---|
| `file`, `secrets` | `config/llm_config.json`, `llm_runtime_secrets.json` |
| `view[w]`, `ring[w]` | what a page or a handler has loaded of each |
| `kept` | `_gapgpt_client_cache`: each client with its id (provider, first eight characters of the key, URL), its key and its URL, which may be another one (`torn`, history) |
| `call[c]` | a call: the provider of its route, the name of the key, the key and the URL as it has read them so far, attempts; what the last attempt used |
| `call[c].settings`, `.withdrawn`, `.want` | history: URLs and names of keys that its provider was configured with since the route was chosen; whether it was withdrawn meanwhile; the key that operators were told is saved |
| `chosen`, `told`, `clash` | history: routes and keys that operators were told are saved; files written from an outdated view |

| Operator or action | Code |
|---|---|
| `Valid`, `Normal`, `Loads`, `Loaded` | `validate_llm_config` (its errors, its result), `load_llm_config` |
| `Deduped`, `Noted` | the models of a provider without repetitions, in the order of their first mention |
| `Edited`, `LoadConfig`, `SaveConfig` | what the page or `PUT /settings` changes; `save_llm_config` |
| `LoadSecrets`, `SaveSecrets` | `save_runtime_secrets`: blank fields keep the old key |
| `NameOf`, `KeyOf` | `_api_key_env`: the name of the key, which operators may change; `_api_key`: under that name the environment, then the runtime secrets, then the provider's own variables (`Fallbacks`) |
| `BaseUrl`, `FixedUrl` | `_base_url`: the environment's URL whenever it is not empty, then the configured one |
| `Select`, `Begin`, `FindKey`, `FindUrl` | `get_agent_llm_config`; the reads of `run_llm`, between which another process may replace the files |
| `Attempt` | one attempt of a provider whose clients are not kept |
| `UseKept`, `MissKept`, `Make` | `_run_gapgpt`: the client that is kept for the key's prefix and the URL; else the URL is read for the id, and again for the client |

### CircuitBreaker, DeadLetters, ServiceCalls

`CircuitBreaker` has the state, the failure count (up to the threshold) and whether
`reset_timeout` has passed, and the coroutines that call: `Start` (`_can_attempt`),
`Succeed`, `TryAgain`, `GiveUp`, `Refused`. All targets share it. The module is about one
`AsyncServiceClient`; the supervisor has two, one for its worker (`core/worker.py:19`)
and one for its requests (`api/routes.py:70`), with a breaker each. A 404 counts as a
failure like a timeout: `Start(r, FALSE)` asks a target for what it does not know.

`DeadLetters` has the table and two users of it. `ReadLetter`/`WriteLetter` are
`enqueue_dead_letter`, whose read and write may have a clerk between them; `Claim`,
`MarkProcessed`, `MarkFailed`, `ClerkDies` and `FallDue` are `run_dlq_worker`.

`ServiceCalls` joins them as `POST /analyze` does (and `POST /report`): fetch the
incident; when that fails, bury it in a transaction of its own and answer 502.
Clients may ask for unknown incidents at any time (`FetchUnknown`), and clerks may fail
at any time; only outages are counted. No
service starts a clerk at this commit (`main.py` of the supervisor lists its
tasks), so the module lets some of them be dead from the start and the
properties about clerks are about `run_dlq_worker` as it is written.

## 3. Runs

| Run | Question | Answer |
|---|---|---|
| `queue_safety` | With two supervisors, both callers, a restart, a deletion and a failed transaction anywhere: is a job ever held twice, analysed twice, completed without its report, lost or revived? Can ingestion alone give an incident two jobs? Does the queue implement `AnalysisJobs`? | No; no; yes. |
| `queue_liveness` | Batches and calls by hand race for the last place in the backlog: how far is the limit overshot? Does every job settle when every remote call may fail or time out? | By the limit again with two transactions, since neither sees what the other inserts; yes, without restarts and database failures. |
| `queue_coalesced` | Is every alert analysed? | No, see 7. |
| `queue_restart` | Does every job settle when a supervisor restarts once? | No, see 7. |
| `stream_safety` | Do overlapping transactions with stale reads keep numbers unique, the row the projection of the log, a repeated key harmless, and the lifecycle forward unless a writer was overtaken? Two lock orders deadlock: does every transaction end? Does all of it implement `EventLog`? | Yes; yes, because the database breaks the deadlock; yes. |
| `stream_status_race` | Does the status move forward only? | No, see 7. |
| `replay_safety` | Is the replayed incident the live one, column by column? Is a firing alert ever given a job that is over? | In what the properties below list; only after a deletion. |
| `groups` | Does a grouping key have one active incident, the one that the next alert finds? Polls and a request post the same alerts and meet duplicates, or two batches lock two existing incidents in opposite orders: is every active alert ingested, do all requests and polls end? | Yes, as long as ingestions of the group do not overlap, see 7; yes; yes, because the database breaks the deadlock. |
| `advisor_safety` | When does the rule decide, and which decisions go to a human? Does a question see the last answer? Do analyses that hold and wait for connections all end? | As stated below; yes, by the pool's timeout. |
| `report_safety` | Overlapping and repeated requests with everything going wrong once: is a report posted twice, recorded falsely, answered but not stored, or lost? | No; lost only by a restart or a failed transaction. |
| `routing_safety` | Is an accepted configuration readable, does a saved route stay, and is a call made with the right key at the right place? | Yes, with the exceptions that the properties name. |
| `service_calls` | Is anything buried forgotten while clerks hold letters together? Does the breaker recover, does every letter settle? | No; yes and yes, once the targets stay up and nobody asks for what they do not know, and while a clerk is left. |

The properties, by what would have to go wrong:

- `HeldExclusively`: two workers have one job, or somebody retries, buries or
  claims a job its worker still has. The one exception the code allows is stated
  in it: the completion was applied and its answer lost.
- `AnalysisNotRepeated`: a retry pays for a second model run. The look-up before
  the analysis must prevent that; the `UNIQUE` key would only refuse the result.
- `EffectsInOrder`: `COMPLETED` without a report, a report without an analysis.
- `DeadLetterIffFailed`: a job given up too early, or silently, or revived.
- `BacklogBounded`: `count` and `insert` are not atomic, and a transaction may insert a
  whole batch that no other one sees. The overshoot is bounded by what the other open
  transactions insert, each no more than its batch and no more than the limit, and by
  completions that are undone.
- `OneIngestedJobPerIncident`: the advisory lock of the stream is held across
  check and insert, so ingestion does not race itself.
- `EveryJobSettles`: a job is neither completed nor given up, however long one waits.
- `RowIsProjection`: a transaction that read the row early overwrites what came
  between. It holds because SQLAlchemy writes changed columns only and the
  stream lock puts the writers in log order.
- `KeyUsedOnce`: the look-up misses a transaction that is still open; the `UNIQUE`
  key must then undo all of the second one.
- `StatusForwardUnlessOvertaken`: the lifecycle breaks in some other way than the
  one that `stream_status_race` shows.
- `ImplementsEventLog`: a number read under the lock is used after someone else's, or is
  skipped; half of a transaction shows; a request appends twice; or the row moves
  without an event. Unlike `RowIsProjection` it says something after a deletion, too.
- `EveryTransactionEnds`: a transaction waits for a lock that nobody will free.
- `LifecycleReplays`: row and replay disagree on the status, a time of the lifecycle
  or the last alert, because transactions computed them from what they had read. The
  one difference that the code always has is stated: `mttr_seconds` of a reopened
  incident.
- `DetailsUnlessOvertaken`: severity or number of alerts disagree though no
  ingestion overtook another. It fixes what the counts are: 2 for each alert live,
  1 for each alert in a replay (and 1 for an opening).
- `SilencedOnlyAfterDeletion`: the key of a job is given to a second alert, whose
  `enqueue_job` then finds the settled job and queues nothing.
- `OneActiveUnlessDisturbed`: nothing in the schema keeps a group to one active
  incident; only that the newest one is found, and only when it is over replaced.
- `EveryActiveAlertIngested`, `EverySessionEnds`: a duplicate ends the poll, is
  retried for ever, or leaves a transaction open that others wait for; batches wait in
  a circle for each other's incidents.
- `RuleOnlyWhenNeeded`: a failing tool, an answer in the last iteration or a low
  confidence makes the rule decide instead of the model.
- `ReviewedIfDoubtful`: a doubtful decision changes the status without a human, at
  the threshold, at a missing field, or by the rule's own confidence.
- `LastAnswerShown`: the model answers a question without what was said just before.
- `EveryRunEnds`: analyses hold one connection each and wait for another.
- `PostedAtMostOnce`, `RecordIsTrue`, `NothingLostByFailures`: two calls with one key,
  a lost answer of Mattermost or of the database, a deletion or a change of
  configuration half way.
- `SavedConfigLoads`: something that `validate_llm_config` accepts is refused or
  changed when it is read back. One such thing exists and is excepted: a base URL
  of slashes.
- `RoutesKept`: saving something else moves an agent to another model.
- `CalledAsConfigured`: a call is sent with a key, under a name or to a URL that was not
  its provider's at any time since its route was chosen, or past the URL of the
  environment. Excepted are saves of secrets that crossed, two keys with the same first
  eight characters, a client that was made while the URL changed, and a provider that
  was withdrawn during the call. The property takes name, key and URL one by one: a call
  may well combine those of different moments.
- `LetterKept`: a letter that was buried cannot be claimed any more, though nobody
  settled it. One crossing of a burial with a clerk is excepted.
- `BreakerRecovers`, `EveryLetterSettles`: late results of old calls, or what failures
  of before have left (counts, dates, letters held twice), put recovery off for ever.
  Both assume that from some time on nothing gives a new reason to fail (`Calm`).

Every property of a passing run is violated when one definition is replaced by
the `_Mistake` form that `PROJECT.json` names.

## 4. Bounds

| Constant | Value | Why it is enough |
|---|---|---|
| `Workers` | 2 in `queue_safety`, 1 in `queue_liveness` | blue and green; a third adds no new way for two to meet. That a second worker cannot disturb the first is `HeldExclusively`, proved for any number |
| `Incidents` | 2 | one job in hand while another waits; deletion of one beside work on the other; a batch that enqueues twice |
| `Callers` | ingestion for both incidents; in `queue_safety` also calls by hand for both, in `queue_liveness` for one of them | callers that race for one incident beside a batch with another one |
| `MaxRequests` | 2; 3 in `queue_liveness` | two jobs, or a job and a call that reuses it; two active jobs of one incident and the call that meets them; a batch of two beside a call that does not see it |
| `MaxBatch` | 2 | the second alert of a batch sees what the first one inserted, and nobody else does |
| `MaxRetries` (queue) | 2 (code: 5) | one retry and one exhaustion; further retries repeat the first |
| `MaxPending`, `MaxOpen` | 1 or 2; 2 | with a limit of 1 a batch of two reaches it by itself, while another transaction inserts unseen; a batch that inserts several jobs unseen needs a higher limit and more calls than a run with workers can afford, and is covered by the theorem |
| `MaxCrashes`, `MaxDeletes`, `MaxDbFaults`, `MaxFaults` | 0 or 1 each, together in the safety runs; in `groups` 1 for the first alerts, 0 beside two batches; in `service_calls` `MaxFaults` counts outages only (1 with one clerk, 0 with two), requests for unknown incidents and failures of clerks are not counted | at any place of any behaviour |
| `Txns` | 2 in `stream_safety`, 3 in `replay_safety` | a writer and the one that overtakes it, of any two kinds, and a cycle of locks; three for an alert after a job settled and an event was deleted |
| `Severities` | 2 | one higher than the other |
| `Keys` | 1; 2 in `report_safety`, 3 in `routing_safety` | a key used twice; two API keys of one prefix and one of another |
| `Providers`, `EnvKey`, `EnvUrl` | 3 | one with URL and key in the environment, one with a key under a further variable, one with neither, whose clients are kept |
| `Calls` | 3 | two overlapping calls and a late repetition |
| `Writers`, `MaxSaves` | 2; 2 in `report_safety`, 3 in `routing_safety` | a writer and one that comes between; a third write upon the result |
| `EnvWebhook` | FALSE | with a webhook in the environment nothing is ever incomplete; the theorems are for both |
| `Sessions`, `Alerts` | 2, 2 | a poll beside a request, or two polls; a pair of one group, the second firing or resolved, or of two groups |
| `MaxIncidents` | 3 | each alert opens one at most, and where two exist from the start the alerts join them: the bound is not the reason to stop |
| `Starts`, `MaxPosts` | no incident and 1 request beside any number of polls; an active incident of each of two groups and 2 requests | a batch against the poller; two batches that hold one incident's locks each and wait for the other's. The theorems are for any number, and for any table with one incident of each group at most |
| `PoolSize` | 2 (code: 10 + 20 overflow) | two analyses hold it all and both want a second connection |
| `MaxIterations` | 3 | first, middle and last |
| `HistoryLimit` | 1 (code: 20) | with two questions the limit is reached and the last answer is just in it |
| `Replies`, `Situations` | 5, 2 | at and below the threshold, NaN, no number, a human wanted; a rule that is sure and one that is not |
| `Threshold`, `MaxAttempts` | 2, 2 | a count below the threshold; a retry |
| `MaxRetries` (letters) | 2 | a failure that is retried and one that is the last |
| `Clerks` | 1 with an outage, or 2 with none | two clerks hold one letter; one clerk dies, or fails a letter for good |
| `Retries`, `MaxCalls` | {0, 2}, 2 | one attempt (`max(1, …)`) or two; a call that finds a client kept by the one before |

Symmetry is used in `queue_safety` (workers, incidents), `report_safety` (calls,
keys, writers), `replay_safety` (transactions) and `routing_safety` (writers), and
in no run that checks liveness. Requests of `SupervisorQueue` are ordered and
therefore not symmetric. Deadlock checking is off where the number of requests is
bounded and a model that has answered them all rests; it is on for `groups`,
where a poll can always begin, and for `service_calls`, where requests keep coming.

## 5. Fairness

`SupervisorQueue!FairSpec`: weak fairness of `WorkerStep(w)` (the event loop runs a
ready task, and each remote call has a timeout, so it returns or raises), of
`DelayElapsed` (time passes) and of `EnqueueCommit` (an open transaction is
committed by its request handler). `AttemptFails` is part of `WorkerStep`: fairness
never demands that a call succeeds. Nothing is assumed of callers, of
report-agent, of restarts or of deletions, and `WorkerFault` is not fair.

`IncidentStream!FairSpec`: weak fairness of `Step(t)` for each open transaction. A
handler goes on, the database grants a free lock, and its deadlock detector
(`deadlock_timeout`) aborts one of two transactions that wait for each other; the
code catches nothing there and the request fails. Weak fairness of a transaction is
enough for its locks: a lock is only held between two steps of a transaction that
runs to its end, and the number of transactions is finite.

`AlertGroups!FairSpec`: strong fairness of `Ingest(s)` for each session, and weak
fairness of a poll beginning. Polls never stop, so a waiting transaction could see
its lock taken by others again and again; PostgreSQL grants a lock in the order in
which it was asked for, and that is what strong fairness of a step that is enabled
again and again says. `_poll_forever` begins a poll after each sleep. Faults are
not fair and bounded: an error that comes back at the same alert at each poll does
starve the alerts after it (`alertmanager_poll.py:149`).

`Advisor!FairSpec`: weak fairness of `Step(r)`. Model and tools have timeouts, and a
caller that waits for a connection gets one or, after `pool_timeout` (30 s by
default), an exception: that `PoolTimeout` is a step of the run is what makes
`EveryRunEnds` true, and its mutant is a pool that waits for ever. Arrivals and
faults are not fair.

`ServiceCalls!FairSpec`: weak fairness of each request's call and of its burial
(calls have timeouts, transactions end, and the workers of the supervisor keep
calling), of `reset_timeout` and `next_retry_at` passing, and of each clerk's loop.
Outages, repairs, requests for unknown incidents and failures of clerks are not fair.
The properties assume `Calm` from some time on: all targets are up, and no call asks
for an incident that history-agent does not know. That second half is needed. The
breaker counts the 404 of a healthy target as it counts a timeout
(`http_client.py:36-41`, `88`), so clients that go on asking for unknown incidents reopen
it again and again; and as long as requests for one incident go on failing, each
burial moves `next_retry_at` of its letter on, and the letter need never fall due. With
"all targets are up" alone both properties are violated. `EveryLetterSettles` assumes
further that a clerk is left; that its processor may fail any number of times, up to the
retries of the letter, is part of what it says.

## 6. Proofs

All theorems hold for every value of the constants, from the named `ASSUME`s only
(bounds are natural numbers, thresholds positive, special values distinct; in
`Advisor` the questions of a session are finitely many; in `ModelRouting` the built-in
defaults are valid and have base URLs and names of keys, `DefaultsAssumption`; in
`AlertGroups` a behaviour starts with one incident of each group at most,
`StartsAssumption`). Every invariant and every
safety or refinement property of a passing run is a theorem.

### The queue

`SupervisorQueueProofs`, `Invariance`: `Spec => []IInv`, where `IInv` is the
conjunction of

- the properties `TypeOK`, `HeldExclusively`, `DeadLetterIffFailed`,
  `AnalysisNotRepeated`, `EffectsInOrder`, which are not inductive by themselves,
- `NothingBeforeCommit`: a call that has not committed an insert has no row, no
  worker and no effect. Without it `EnqueueCommit` could create a job that is
  already held or already in the dead-letter queue.
- `KeysUnique`: a key names one row, and a recorded key has its row. Without it
  recording one job's key could make another job look analysed.
- `RowsKept`: a job in use has its row as long as its incident is there. Without it
  a stored report might have no job.
- `StepsDone`: what the position of a worker, or a sent report request, implies is
  stored. It carries `EffectsInOrder` across the remote call.

`Init => IInv` is one lemma; the step `IInv /\ [Next]_vars => IInv'` has one lemma
for each action or group of actions that change the same variables.

`Refinement`: `Spec => ImplementsAnalysisJobs`. `Phases`
and `StatusMoves` say how a row's status moves its job; `Stutter`, `MoveOne`,
`AnalyseOne` and `ReportOne` put the abstract step together; then one lemma for each
action. It rests on `IInv` and `IInv'`: `KeysUnique` so that recording a key analyses
one job, `StepsDone` so that a report is of an analysed job.

`BacklogIsBounded`, `OneIngestedJob`: `BacklogBounded` and `OneIngestedJobPerIncident` count rows,
and a completion whose answer was lost puts a row back without any check. The
invariant `Counted` therefore bounds the whole load: active rows, inserts that are
decided, and completions that are still to be undone, of which there are no more
than lost answers. A step either adds nothing to the load or is the check of an
insert, which saw room for it among the rows that its transaction sees. What it does
not see lies in the other open transactions, whose inserts `BatchesBounded` limits to
a batch, and to the backlog limit, since each transaction sees its own (`PartsBound`:
a set in `n` parts of at most `k` has at most `n * k` elements).

### The stream, the replay, the groups, the reports

`IncidentStreamProofs`: the safety properties of `stream_safety`, and
`StatusForwardUnlessOvertaken` as an action property. `IInv` adds that locks are
held by transactions that have read, that uncommitted events lie behind the log and
belong to one transaction, that their key is still free, and that a wished status is
allowed from the one that was read. `MaxSequence` is a `CHOOSE`; that a bounded set of
numbers has a largest one is proved by a well-founded minimum of the distances to the
bound.

`StreamImplementsLog` adds `PendingNext` to it: uncommitted events have the very numbers
that follow the log as it is now, though they were given some time before, and carry
their key once. Then a commit is an append (`CommitAppends`) and every other step but a
deletion leaves row and log alone (`StepIsPromised`). `NumbersUnique` is the part of this
that is about numbers, for events that are not committed, too; no run checks it by itself.

`EventReplayProofs`: the safety properties of `replay_safety`. The replay is a fold, which
the library defines with a `CHOOSE` of a function. That there is one such function for a
log of any length, and only one, is proved by a least counterexample (`StepsExist`,
`StepsUnique`); after that `ApplyOneMore` says what one more event does, and `EffectIsFold`
what the events of a transaction do, column by column. `EffectColumns` puts
this beside `WrittenColumns`, which says the same of the columns that a commit writes. The
invariant adds

- `ReplayKnown` and `OriginKnown`: what replay and row know of the opening, so that
  `mttr_seconds` agrees or is the stated exception;
- `SeenTimely`: every time in the row, or in what a transaction read, is a number of the
  log. The number of the next event is then a time that nobody has yet, and a column
  written with it differs from what was read: SQLAlchemy does write it;
- `DetailsCurrent`: who has seen the last alert has seen its severity and count. Who has
  not is overtaken if it ingests;
- `JobsNumbered`: numbers in job keys are numbers of the log, so the number of the next
  job is new.

`AlertGroupsProofs`: `OneActiveUnlessDisturbed`. The invariant says, of each group
that is not disturbed, that one session at most is about it (`Alone`), that this
session sees one active incident of the group at most and it is the newest, and that
what it has in hand fits (`Sees`); and for all groups that a row is written by one
transaction, and that committed rows are older than the last commit of their group
(`Times`). A transaction that begins later is therefore newer than all that it finds,
which is why refreshing an incident keeps the order and a new incident is the newest.
`OneMoves` reduces each step of a session to its own part of the invariant;
committing and settling, which change the tables under all sessions, are proved
apart.

`ReportDeliveryProofs`: all safety properties of `report_safety`. Only the
transaction that stores a report gives the right to deliver it (`OneOwner`); before
that nothing is posted or recorded (`DeliveredLater`); what a call is about to record
is true already (`OutcomesTrue`); and the file is what operators wish until two
writers cross (`WishKept`).

### The advisor

`AdvisorProofs`, first part: `TypeOK` (with it the bound on iterations and on the history that is
shown), `RuleOnlyWhenNeeded`, `ReviewedIfDoubtful`. `AdviceInv` says when there is
advice and that a reply without a usable confidence never becomes one; `StoredInv`
that what was stored is what was decided. `ClampThreshold` shows that clamping never
moves a number across the threshold.

`LastAnswerIsShown`: `MemoryInv` says that, unless a call to Redis failed, an answer of a
finished question is in the session and behind it lie no more entries than there are
questions between their two appends. A question that begins finds an answer among the
last `HistoryLimit` entries when fewer than that are open. The count of open
questions is a cardinality, so that the step of a question moves it by one.

### Model routing

`ModelRoutingProofs`: all safety properties of `routing_safety`. `Deduped` is a recursive
function of a list of any length; that it exists and what it has (each model once, none
lost, the same list when there was no repetition) is again proved by a least
counterexample. `NormalIsNormalised` and `NormalisedIsNormal` show that
`validate_llm_config` is idempotent: what it accepts has a form (`Normalised`) that it
leaves as it is, and this form can be read back unless a URL was slashes only.
The invariant adds `FilesNormalised` (the file and all that writers hold have this form),
`RoutesTold` and `SecretsTold` (the files say what operators were told, until two
writers crossed), `ClientsKnown` (a kept client has a key of the prefix in its id, and
the URL in its id unless it is `torn`) and `CallsKnown` (what a call has read at each of
its positions: a name that its provider had since the route was chosen, the key of that
name, a URL that it may go to, `Goes`). Its hardest step is saving a configuration while
calls are under way (`ReconfiguredCalls`); that a `torn` client is of a provider without
a URL in the environment follows because `FixedUrl` makes both reads the same.

### The breaker and the letters

`ServiceCallsProofs`: `TypeOK`, in which the breaker is closed exactly below its
threshold, and `LetterKept`. Both are inductive as they stand.

| Module | Theorems |
|---|---|
| `SupervisorQueueProofs` | `Invariance`, `TypeCorrect`, `Exclusion`, `NoSecondAnalysis`, `OrderedEffects`, `DeadLetters`, `BacklogIsBounded`, `OneIngestedJob`, `Refinement`; `FailedStays`: a `FAILED` row is revived by nothing (`FailedIsFinal`; no run checks it, `ImplementsAnalysisJobs` has it in abstract form) |
| `IncidentStreamProofs` | `TypeCorrect`, `NumbersUnique`, `RowProjects`, `KeysUsedOnce`, `ForwardUnlessOvertaken`, `StreamImplementsLog` |
| `EventReplayProofs` | `Invariance`, `TypeCorrect`, `ReplayAgrees`, `DetailsAgree`, `NeverSilenced` |
| `AlertGroupsProofs` | `Invariance`, `TypeCorrect`, `OneActiveIncident` |
| `ReportDeliveryProofs` | `TypeCorrect`, `PostedOnce`, `RecordsAreTrue`, `NothingLost` |
| `AdvisorProofs` | `TypeCorrect`, `RuleIsLastResort`, `DoubtIsReviewed`, `LastAnswerIsShown` |
| `ModelRoutingProofs` | `Invariance`, `TypeCorrect`, `SavedConfigsLoad`, `RoutesAreKept`, `CallsAreConfigured` |
| `ServiceCallsProofs` | `TypeCorrect`, `LettersKept` |

Only model-checked: liveness (`EveryJobSettles`, `EveryTransactionEnds`,
`EverySessionEnds`, `EveryActiveAlertIngested`, `EveryRunEnds`, `BreakerRecovers`,
`EveryLetterSettles`), since the prover has no rules for `ENABLED` and fairness.

## 7. Disagreements found

With a run that ends in a violation:

| Run | What the code does |
|---|---|
| `queue_coalesced` | An alert that arrives after the worker fetched the incident is attached to the running job (`queue.py:42`); the analysis does not contain it and no other job is queued (`EveryAlertAnalysed`). |
| `queue_restart` | A worker that stops leaves its job `PROCESSING`; `claim_next_job` never selects that status again (`queue.py:70`), and later alerts of the incident join the dead job. |
| `stream_status_race` | `analyze()` validates the transition against the status from before the model call (`analyzer.py:80`) and overwrites `resolved` with an earlier status. |

Met while modelling, without a run of their own. The models do what the code does
here, and properties that would be false name the exception.

*Queue and lifecycle*

- `queue_analyze` takes no lock, so it and an ingestion both insert a job; from then
  on `scalar_one_or_none()` (`queue.py:41`) raises in every `enqueue_job` of the
  incident until one of the two settles. `OneIngestedJobPerIncident` is about
  ingestion alone for this reason.
- Deleting an incident while its job runs ends the worker task: `retry_job` finds no
  row inside the `except` branch (`worker.py:90`, action `RetryFindsNoJob`).
- Two status requests without a key that read the same status both store the
  transition (`supervisor-agent/api/routes.py:373`).
- Deleting a status event leaves the row showing it (`history-agent/api/routes.py:329`);
  deleting the last event lets its number, and the number in a job's key, be given again.

- Batches overshoot the limit of the backlog: `POST /alerts` enqueues once for each alert
  in one transaction, and the count (`queue.py:44`) does not see what other open
  transactions insert. Two batches reach twice the limit.

*Ingestion and replay*

- Two overlapping ingestions of one grouping key open two active incidents
  (`history-agent/core/storage.py:75`: no lock, no `UNIQUE`). A batch that joins one
  alert to an incident that is over and reopens it with the next gives both the same
  `last_seen_at`, and the query has no second key to order by. `disturbed` holds the
  groups in which one of these happened.
- An alert that fires more than 24 hours after the resolution joins the old incident
  instead of opening one (line 54).
- An error that comes back at one alert ends every poll there
  (`alertmanager_poll.py:149`), so the alerts after it are never ingested.
- Live ingestion counts each alert twice in `source_count`, a replay once; a replay
  does not know `history.incident_reopened`; `escalated_to` is set by a replay only.

*Reports, breaker, dead letters*

- A restart between storing and posting a report loses the post: the repeated request
  is answered as deduplicated (`README.md:551` says that every new report is posted).
- A webhook of spaces removes the stored one, while a blank one keeps it.
- The breaker counts a 404 like a timeout and is shared by all targets of a client.
  Requests for unknown incidents therefore open it against services that are well, and
  postpone the retry of the incident's letter each time (see 5).
  A `ConnectError` is retried by `run_llm`, not by the HTTP client.
- A letter that is buried again keeps its `retry_count`, so its next failure may be its
  last. No service starts `run_supervisor_dlq_worker` (`worker.py:115`), and the
  processor it would use only logs, yet the letter becomes `PROCESSED`.

*Model configuration*

- A base URL of slashes only is accepted and saved; the file can then no longer be read
  (`llm_config.py:673`), which makes `analyze` raise.
- `PUT /settings` and the page load and replace the routing file without a lock
  (`supervisor-agent/api/routes.py:754`); normalising a proxy URL twice may change it.
- A confidence of NaN counts as 1.0 (`analyzer.py:27`).
- The client cache knows a key by its first eight characters (`llm_client.py:217` in
  `shared`); a client made with one key serves another with the same ones.
- `_run_gapgpt` reads the URL for the cache key and again for the client (lines 217 and
  223); if the file is replaced in between, the client is kept under a URL that it does
  not call.
- A base URL in the environment takes precedence over the configured one (lines 81-84),
  and `docker-compose.yml:41`, `44` and `47` set it for every provider: there, saving a
  base URL on the page is accepted and has no effect.

## 8. What is not modelled

- Read-only queries, pages, the UI, metrics, logging, tracing, authentication,
  schemas, prompts, provider tables, embeddings and similarity search: no state that a
  property is about. A model call is any answer, or a failure.
- `observability-agent` and `repo-agent`: stateless fetches. Their configuration files,
  and history-agent's for Alertmanager, are each read, merged and replaced by one
  route, as the one of the Mattermost integration is, which stands for them. What it
  does not show is that they write through a temporary file of a fixed name
  (`with_suffix('.tmp')`), which writers in two processes share.
- `ai_client`, `rebuild_incident_projection`: called by no service.
- Incident chat and approvals of recommendations, which append one event or knowledge
  row each; `test_workflow` and the route that sends a sample to Mattermost.
- Proxies of model calls: they are part of a client's id as the URL is, and are read from
  environment and configuration in the same way.
- In `SupervisorQueue` and `ReportDelivery`, the deletion of a single event
  (`DELETE /incidents/{id}/events/{event_id}`), which `IncidentStream` and `EventReplay`
  have. An operator who deletes an action or a report event gives its key back: the job
  may then be analysed, or the report posted, a second time, and "stored" in the
  properties of the two modules means stored and not deleted by hand.
- Fingerprints and grouping keys as hashes: they are model values.
- Migrations, compose, nginx and monitoring files. The blue/green file is the reason
  for two workers.
- Time: a delay is over at some moment; backoff lengths, timeouts and the limit of 24
  hours have no size.

## 9. What is left

1. `AlertGroups` and `SupervisorQueue` composed: that each group's alerts end in an
   analysis of its one active incident. The two are joined by the common code only.
2. Alertmanager's configuration file beside the poller that reads it.

--------------------------- MODULE ReportDelivery ---------------------------
(***************************************************************************)
(* POST /report/{incident_id} of report-agent (generate_report): fetch the *)
(* incident, render the report, store it, post it to Mattermost and record *)
(* the delivery.  Each database access is a transaction of its own, and    *)
(* the caller sends a request again when it has no good answer: several    *)
(* calls with one idempotency key may run at once, or one after a crash.   *)
(*                                                                         *)
(* One incident; a key stands for `report:{incident}:{job}', or for a      *)
(* client's own Idempotency-Key.                                           *)
(***************************************************************************)
EXTENDS Integers, FiniteSets

CONSTANTS
    Calls,        \* HTTP requests that report-agent receives
    Keys,         \* idempotency keys of the reports
    Fetching,     \* TRUE if the fetch of the incident may fail
    EnvWebhook,   \* MATTERMOST_WEBHOOK_URL is set
    Writers,      \* processes that change the Mattermost configuration
    NotLoaded,    \* a writer has nothing in hand
    MaxSaves,     \* bound: PUT of the Mattermost configuration
    MaxDeletes,   \* bound: deletion of the incident
    MaxCrashes,   \* bound: restarts of report-agent
    MaxDbFaults   \* bound: transactions that fail, or lose their answer

ASSUME ReportAssumption ==
    /\ Fetching \in BOOLEAN /\ EnvWebhook \in BOOLEAN
    /\ MaxSaves \in Nat
    /\ MaxDeletes \in Nat
    /\ MaxCrashes \in Nat
    /\ MaxDbFaults \in Nat

VARIABLES
    calls,      \* progress of each call
    exists,     \* the incident is there
    config,     \* report_integrations.json: delivery is enabled, and has a webhook
    view,       \* the configuration as a writer has loaded it
    reports,    \* keys of the report.report_generated events
    recorded,   \* by key, the outcome in report.delivery_recorded
    posts,      \* by key, messages that reached the channel
    dlq,        \* dead letters: <<operation, key>>
    wish,       \* history variable: what the accepted changes say together
    crossed,    \* history variable: a writer wrote over a newer configuration
    unwanted,   \* history variable: keys that were due while delivery was not wished
    saves, deletes, crashes, dbFaults      \* bounded occurrences so far

settings == <<config, view, wish, crossed>>
vars == <<calls, exists, settings, reports, recorded, posts, dlq, unwanted,
          saves, deletes, crashes, dbFaults>>
stored == <<reports, recorded, dlq>>
bounds == <<saves, deletes, crashes, dbFaults>>

-----------------------------------------------------------------------------
\* "fetch" .. "record": what the call does next; "answered" is a 2xx answer,
\* "error" any other end of the call, a crash included.
Pc == {"new", "fetch", "bury_fetch", "store", "deliver", "bury", "record",
       "answered", "error"}
Outcome == {"none", "sent", "skipped", "failed"}
Call == [pc : Pc, key : Keys, outcome : Outcome]

At(c, pc) == calls[c].pc = pc
KeyOf(c) == calls[c].key
GoTo(c, pc) == calls' = [calls EXCEPT ![c].pc = pc]
Working == {c \in Calls : calls[c].pc \notin {"new", "answered", "error"}}

DbFault == /\ dbFaults < MaxDbFaults
           /\ dbFaults' = dbFaults + 1
           /\ UNCHANGED <<saves, deletes, crashes>>

\* Channel, user name and icon are left out: they decide nothing.
Settings == [enabled : BOOLEAN, webhook : BOOLEAN]
Complete(c) == c.enabled => c.webhook \/ EnvWebhook
Change == [enabled : {"on", "off", "absent"}, webhook : {"given", "blank", "spaces", "malformed"}]

Init ==
    /\ calls \in [Calls -> {[pc |-> "new", key |-> k, outcome |-> "none"] : k \in Keys}]
    /\ exists = TRUE
    /\ config \in {c \in Settings : Complete(c)}
    /\ wish = config
    /\ view = [w \in Writers |-> NotLoaded]
    /\ crossed = FALSE /\ unwanted = {}
    /\ reports = {}
    /\ recorded = [k \in Keys |-> "none"]
    /\ posts = [k \in Keys |-> 0]
    /\ dlq = {}
    /\ saves = 0 /\ deletes = 0 /\ crashes = 0 /\ dbFaults = 0

-----------------------------------------------------------------------------
(* generate_report.                                                        *)

AlreadyReported(k) == k \in reports

\* get_existing_event_by_idempotency: a report that is stored is answered.
LookUp(c) ==
    /\ At(c, "new")
    /\ GoTo(c, IF AlreadyReported(KeyOf(c)) THEN "answered" ELSE "fetch")
    /\ UNCHANGED <<exists, settings, stored, posts, unwanted, bounds>>

\* GET history-agent /incidents/{id}; rendering always gives a text, but the file
\* that names its model may be unreadable, which ends the request.
FetchIncident(c) ==
    /\ At(c, "fetch")
    /\ exists
    /\ GoTo(c, "store") \/ GoTo(c, "error")
    /\ UNCHANGED <<exists, settings, stored, posts, unwanted, bounds>>

FetchFails(c) ==
    /\ At(c, "fetch")
    /\ Fetching \/ ~exists
    /\ GoTo(c, "bury_fetch")
    /\ UNCHANGED <<exists, settings, stored, posts, unwanted, bounds>>

\* enqueue_dead_letter: the row with this queue_key is made or found.
Bury(operation, k) == dlq' = dlq \cup {<<operation, k>>}

BuryFetch(c) ==
    /\ At(c, "bury_fetch")
    /\ Bury("fetch", KeyOf(c))
    /\ GoTo(c, "error")
    /\ UNCHANGED <<exists, settings, reports, recorded, posts, unwanted, bounds>>

AppendReport_KeyNotUnique(k) == exists /\ reports' = reports \cup {k}

\* append_event with the key, which is UNIQUE.
AppendReport(k) ==
    /\ exists
    /\ k \notin reports
    /\ reports' = reports \cup {k}

Store(c) ==
    /\ At(c, "store")
    /\ AppendReport(KeyOf(c))
    /\ GoTo(c, "deliver")
    /\ UNCHANGED <<exists, settings, recorded, dlq, posts, unwanted, bounds>>

\* IntegrityError: another call stored the report; this one answers with it.
StoreConflict(c) ==
    /\ At(c, "store")
    /\ AlreadyReported(KeyOf(c))
    /\ GoTo(c, "answered")
    /\ UNCHANGED <<exists, settings, stored, posts, unwanted, bounds>>

\* 404: the incident was deleted since it was fetched.
StoreFindsNoIncident(c) ==
    /\ At(c, "store")
    /\ ~exists
    /\ GoTo(c, "error")
    /\ UNCHANGED <<exists, settings, stored, posts, unwanted, bounds>>

\* The report is due now: was its delivery wished?
Due(c) == unwanted' = IF wish.enabled THEN unwanted ELSE unwanted \cup {KeyOf(c)}
Reaches(k) == posts' = [posts EXCEPT ![k] = @ + 1]

Deliver_OutcomeForgotten(c) ==
    /\ At(c, "deliver")
    /\ GoTo(c, "record")
    /\ Due(c)
    /\ IF config.enabled THEN Reaches(KeyOf(c)) ELSE UNCHANGED posts
    /\ UNCHANGED <<exists, settings, stored, bounds>>

\* send_report_to_mattermost returns.
Deliver(c) ==
    /\ At(c, "deliver")
    /\ calls' = [calls EXCEPT
         ![c] = [@ EXCEPT !.pc = "record",
                          !.outcome = IF config.enabled THEN "sent" ELSE "skipped"]]
    /\ Due(c)
    /\ IF config.enabled THEN Reaches(KeyOf(c)) ELSE UNCHANGED posts
    /\ UNCHANGED <<exists, settings, stored, bounds>>

\* It raises: no answer (the message may have arrived) or a refusal.
DeliverFails(c) ==
    /\ At(c, "deliver")
    /\ config.enabled
    /\ calls' = [calls EXCEPT ![c] = [@ EXCEPT !.pc = "bury", !.outcome = "failed"]]
    /\ Due(c)
    /\ Reaches(KeyOf(c)) \/ UNCHANGED posts
    /\ UNCHANGED <<exists, settings, stored, bounds>>

BuryDelivery_Skipped(c) ==
    /\ At(c, "bury")
    /\ GoTo(c, "record")
    /\ UNCHANGED <<exists, settings, stored, posts, unwanted, bounds>>
BuryDelivery(c) ==
    /\ At(c, "bury")
    /\ Bury("deliver", KeyOf(c))
    /\ GoTo(c, "record")
    /\ UNCHANGED <<exists, settings, reports, recorded, posts, unwanted, bounds>>

\* report.delivery_recorded, with the key `delivery:{key}'.
AppendDelivery(c) ==
    /\ exists
    /\ recorded' = [recorded EXCEPT ![KeyOf(c)] = calls[c].outcome]

RecordDelivery(c) ==
    /\ At(c, "record")
    /\ AppendDelivery(c)
    /\ GoTo(c, "answered")
    /\ UNCHANGED <<exists, settings, reports, dlq, posts, unwanted, bounds>>

\* Foreign key: the incident was deleted while the report was delivered.
RecordFindsNoIncident(c) ==
    /\ At(c, "record")
    /\ ~exists
    /\ GoTo(c, "error")
    /\ UNCHANGED <<exists, settings, stored, posts, unwanted, bounds>>

\* A transaction is refused, or it is applied but its answer is lost: the
\* handler ends with a 500.
TransactionFails(c) ==
    /\ calls[c].pc \in {"bury_fetch", "store", "bury", "record"}
    /\ DbFault
    /\ GoTo(c, "error")
    /\ \/ UNCHANGED stored
       \/ At(c, "store") /\ AppendReport(KeyOf(c)) /\ UNCHANGED <<recorded, dlq>>
       \/ At(c, "bury") /\ Bury("deliver", KeyOf(c)) /\ UNCHANGED <<reports, recorded>>
       \/ At(c, "record") /\ AppendDelivery(c) /\ UNCHANGED <<reports, dlq>>
    /\ UNCHANGED <<exists, settings, posts, unwanted>>

-----------------------------------------------------------------------------
(* PUT /report/integrations/mattermost (save_mattermost_config): load, merge, *)
(* check and replace; each process does that without an await, but blue and   *)
(* green have one file.                                                       *)

LoadConfig(w) ==
    /\ saves < MaxSaves
    /\ view[w] = NotLoaded
    /\ view' = [view EXCEPT ![w] = config]
    /\ UNCHANGED <<calls, exists, config, wish, crossed, stored, posts, unwanted, bounds>>

\* A blank webhook keeps the one there is, one of spaces removes it; a flag that is
\* absent keeps its value.
Merged(current, change) ==
    [enabled |-> IF change.enabled = "absent" THEN current.enabled ELSE change.enabled = "on",
     webhook |-> \/ change.webhook = "given"
                 \/ change.webhook = "blank" /\ current.webhook]

SaveConfig(w, change) ==
    LET new == Merged(view[w], change) IN
    /\ saves < MaxSaves
    /\ view[w] # NotLoaded
    /\ IF change.webhook # "malformed" /\ Complete(new)
       THEN /\ config' = new
            /\ wish' = Merged(wish, change)
            /\ crossed' = (crossed \/ view[w] # config)
       ELSE UNCHANGED <<config, wish, crossed>>    \* MattermostConfigError: 422
    /\ view' = [view EXCEPT ![w] = NotLoaded]
    /\ saves' = saves + 1
    /\ UNCHANGED <<calls, exists, stored, posts, unwanted, deletes, crashes, dbFaults>>

-----------------------------------------------------------------------------
(* The environment of the handler.                                         *)

\* report-agent stops: every call it was working on ends.
Crash ==
    /\ crashes < MaxCrashes
    /\ Working # {}
    /\ crashes' = crashes + 1
    /\ calls' = [c \in Calls |-> IF c \in Working THEN [calls[c] EXCEPT !.pc = "error"]
                                                 ELSE calls[c]]
    /\ UNCHANGED <<exists, settings, stored, posts, unwanted, saves, deletes, dbFaults>>

\* DELETE /incidents/{id}: its events go with it, dead letters stay.
DeleteIncident ==
    /\ deletes < MaxDeletes
    /\ exists
    /\ deletes' = deletes + 1
    /\ exists' = FALSE
    /\ reports' = {}
    /\ recorded' = [k \in Keys |-> "none"]
    /\ UNCHANGED <<calls, settings, posts, dlq, unwanted, saves, crashes, dbFaults>>

Handle(c) ==
    \/ LookUp(c) \/ FetchIncident(c) \/ FetchFails(c) \/ BuryFetch(c)
    \/ Store(c) \/ StoreConflict(c) \/ StoreFindsNoIncident(c)
    \/ Deliver(c) \/ DeliverFails(c) \/ BuryDelivery(c)
    \/ RecordDelivery(c) \/ RecordFindsNoIncident(c)

Next ==
    \/ \E c \in Calls : Handle(c) \/ TransactionFails(c)
    \/ \E w \in Writers : LoadConfig(w) \/ \E change \in Change : SaveConfig(w, change)
    \/ Crash \/ DeleteIncident

Spec == Init /\ [][Next]_vars
-----------------------------------------------------------------------------
(* Properties.                                                             *)

\* Every variable has its shape; a call has an outcome once it has delivered.
TypeOK ==
    /\ calls \in [Calls -> Call]
    /\ \A c \in Calls : calls[c].pc \in {"bury", "record"} => calls[c].outcome # "none"
    /\ exists \in BOOLEAN
    /\ config \in Settings /\ Complete(config)
    /\ \A w \in Writers : view[w] = NotLoaded \/ view[w] \in Settings
    /\ wish \in Settings /\ crossed \in BOOLEAN
    /\ unwanted \subseteq Keys
    /\ reports \subseteq Keys
    /\ recorded \in [Keys -> Outcome]
    /\ posts \in [Keys -> Nat]
    /\ dlq \subseteq {"fetch", "deliver"} \X Keys
    /\ saves \in 0 .. MaxSaves /\ deletes \in 0 .. MaxDeletes
    /\ crashes \in 0 .. MaxCrashes /\ dbFaults \in 0 .. MaxDbFaults

\* However often a request is sent, and whatever crashes, the channel gets a
\* report at most once: only the call that stored it posts it.  (An operator who
\* deletes the report event gives its key back; that call is not modelled.)
PostedAtMostOnce == \A k \in Keys : posts[k] <= 1

\* What report-agent says is true, of the past and to its callers.  A report
\* recorded as sent is in the channel; one recorded as skipped is not, and was due
\* while operators did not want it delivered (unless one of them wrote over another's
\* settings); a failure is in the dead-letter queue; and a report that a caller has a 2xx
\* answer for is stored as long as the incident is there and nobody deletes the
\* event by itself (the queue worker completes its job on that answer).
RecordIsTrue ==
    /\ \A c \in Calls : At(c, "answered") /\ exists => KeyOf(c) \in reports
    /\ \A k \in Keys :
        /\ recorded[k] = "sent" => posts[k] = 1
        /\ recorded[k] = "skipped" => posts[k] = 0 /\ (k \in unwanted \/ crossed)
        /\ recorded[k] = "failed" => <<"deliver", k>> \in dlq

\* A stored report that no call works on any more was posted, or its failure
\* is a dead letter, or delivery was disabled when it was ready.
PostedOrBuried ==
    \A k \in reports :
        \/ \E c \in Working : KeyOf(c) = k
        \/ posts[k] > 0
        \/ <<"deliver", k>> \in dlq
        \/ recorded[k] = "skipped"

\* Refused fetches, failing deliveries, repeated requests, deletions and changes
\* of the configuration lose no report: only a restart or a failed transaction
\* between storing and burying does.
NothingLostByFailures == crashes = 0 /\ dbFaults = 0 => PostedOrBuried
=============================================================================

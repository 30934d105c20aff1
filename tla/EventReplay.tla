---------------------------- MODULE EventReplay ----------------------------
(***************************************************************************)
(* The row of an incident against the replay of its events.                *)
(*                                                                         *)
(* Every service keeps the row up to date by apply_event_to_projection,    *)
(* which applies one event to the columns that its transaction has read;   *)
(* GET /incidents/{id}/events/replay applies all events of the stream to a *)
(* blank state.  Both use apply_event_to_state.  Transactions overlap, and *)
(* an event may be deleted.                                                *)
(*                                                                         *)
(* A transaction holds the locks of the row and of the stream from its     *)
(* first UPDATE to its commit (IncidentStream); here it reads in one step  *)
(* and writes in another.  A time is named by the event it belongs to.     *)
(***************************************************************************)
EXTENDS Integers, FiniteSets, Sequences, SequencesExt

CONSTANTS
    Txns,        \* requests, each one transaction
    Severities,  \* ranks of severities, from SEVERITY_RANK
    MaxDeletes   \* bound: DELETE /incidents/{id}/events/{event_id}

ASSUME ReplayAssumption ==
    /\ Severities \subseteq Nat \ {0}
    /\ MaxDeletes \in Nat

VARIABLES
    opening,    \* the type of the first event: opened or reopened
    row,        \* the incident
    log,        \* its events, by sequence number
    txns,       \* progress of each transaction
    active,     \* numbers n of unfinished jobs `analyze:{id}:{n}'
    settled,    \* ... and of those that are over; their rows stay
    overtaken,  \* history variable: an ingestion wrote what it had read before another
    silenced,   \* history variable: firing alerts that were given a job that is over
    deletes     \* deletions so far

vars == <<opening, row, log, txns, active, settled, overtaken, silenced, deletes>>
queue == <<active, settled, silenced>>

-----------------------------------------------------------------------------
Status == {"open", "investigating", "mitigating", "resolved", "closed"}
Over == {"resolved", "closed"}

AllowedTransitions(s) ==
    CASE s = "open" -> {"investigating"}
      [] s = "investigating" -> {"mitigating"}
      [] s = "mitigating" -> {"resolved"}
      [] s = "resolved" -> {"closed"}
      [] s = "closed" -> {}

\* "action" is supervisor.action_recorded; "note" is any type that
\* apply_event_to_state does not know.
Event == [seq : Nat \ {0}, severity : Nat, to : Status,
          type : {"opened", "reopened", "attached", "status", "resolved", "action", "note"}]

\* IncidentProjectionState.  origin: first_seen_at and sla_deadline are known.
State == [status : Status, severity : Nat, count : Nat, origin : BOOLEAN,
          seen : Nat, ack : Nat, mit : Nat, res : Nat, closed : Nat,
          mttr : BOOLEAN, escalated : Status \cup {"none"}, version : Nat]
Blank == [status |-> "open", severity |-> 0, count |-> 0, origin |-> FALSE,
          seen |-> 0, ack |-> 0, mit |-> 0, res |-> 0, closed |-> 0,
          mttr |-> FALSE, escalated |-> "none", version |-> 0]

\* A status and when it was reached; mttr_seconds needs first_seen_at.
Reached(s, to, n) ==
    [s EXCEPT !.status = to,
              !.ack    = IF to = "investigating" THEN n ELSE @,
              !.mit    = IF to = "mitigating" THEN n ELSE @,
              !.res    = IF to = "resolved" THEN n ELSE @,
              !.mttr   = IF to = "resolved" THEN s.origin ELSE @,
              !.closed = IF to = "closed" THEN n ELSE @]

\* apply_event_to_state
ApplyEvent(state, e) ==
    LET s == [state EXCEPT !.version = e.seq] IN
    CASE e.type = "opened" ->
           [s EXCEPT !.severity = e.severity, !.status = "open", !.origin = TRUE,
                     !.seen = e.seq, !.count = IF @ < 1 THEN 1 ELSE @]
      [] e.type = "attached" ->
           [s EXCEPT !.severity = e.severity, !.seen = e.seq, !.count = @ + 1]
      [] e.type \in {"status", "resolved"} -> Reached(s, e.to, e.seq)
      [] e.type = "action" -> [s EXCEPT !.escalated = e.to]
      [] OTHER -> s

\* The events of a stream one after the other.
ApplyEvents(state, events) == FoldLeft(ApplyEvent, state, events)

\* replay_incident_stream
Replayed == ApplyEvents(Blank, log)

MaxSequence(events) == IF events = <<>> THEN 0 ELSE Last(events).seq
Attached == {i \in DOMAIN log : log[i].type = "attached"}

-----------------------------------------------------------------------------
\* Types of transaction: ingest_alert of a firing or a resolved alert,
\* _change_status, AnalysisService.analyze, generate_report.
Kinds == {"firing", "resolved", "change", "analyze", "report"}
Txn == [pc : {"new", "read", "done"}, kind : Kinds, severity : Nat, to : Status, saw : State]
At(t, pc) == txns[t].pc = pc
Ingestion(t) == txns[t].kind \in {"firing", "resolved"}

E(n, type, severity, to) == [seq |-> n, type |-> type, severity |-> severity, to |-> to]

\* The alert that opened the incident, or reopened a problem in a new incident
\* (INSERT with source_count 1), and its job.
Init ==
    /\ opening \in {"opened", "reopened"}
    /\ \E severity \in Severities :
         /\ log = <<E(1, opening, severity, "open"), E(2, "attached", severity, "open")>>
         /\ row = ApplyEvents([Blank EXCEPT !.severity = severity, !.count = 1, !.origin = TRUE],
                           log)
    /\ txns = [t \in Txns |-> [pc |-> "new", kind |-> "report", severity |-> 0,
                               to |-> "open", saw |-> Blank]]
    /\ active = {2} /\ settled = {} /\ silenced = {}
    /\ overtaken = FALSE
    /\ deletes = 0

\* A transaction reads the incident.  A status change that is not allowed ends
\* here; an analysis drops one and keeps the status.
ReadIncident(t, kind, severity, to) ==
    /\ At(t, "new")
    /\ CASE kind = "change" -> to \in AllowedTransitions(row.status)
         [] kind = "analyze" -> to \in {row.status} \cup AllowedTransitions(row.status)
         [] kind = "resolved" -> to = IF row.status \in Over THEN row.status ELSE "resolved"
         [] OTHER -> to = row.status
    /\ txns' = [txns EXCEPT ![t] = [pc |-> "read", kind |-> kind, severity |-> severity,
                                    to |-> to, saw |-> row]]
    /\ UNCHANGED <<opening, row, log, queue, overtaken, deletes>>

\* The columns that ingest_alert sets on the incident before any event.
Higher(s, t) == IF t >= s THEN t ELSE s
Prepared_NotCounted(t) ==
    LET saw == txns[t].saw IN
    IF Ingestion(t) THEN [saw EXCEPT !.severity = Higher(@, txns[t].severity)] ELSE saw
Prepared(t) ==
    LET saw == txns[t].saw IN
    IF Ingestion(t)
    THEN [saw EXCEPT !.severity = Higher(@, txns[t].severity), !.count = @ + 1]
    ELSE saw

\* The events of the transaction: those that are projected, and the others.  The
\* number of the first one follows the last number in the table.
NextSequence_Count == Len(log) + 1
NextSequence == MaxSequence(log) + 1
ProjectedEvents(t) ==
    LET x == txns[t]
        n == NextSequence
        changes == x.to # x.saw.status
    IN CASE x.kind = "firing" -> <<E(n, "attached", x.severity, x.to)>>
         [] x.kind = "resolved" ->
              <<E(n, "attached", x.severity, x.to)>>
                \o IF changes THEN <<E(n + 1, "resolved", 0, x.to)>> ELSE <<>>
         [] x.kind \in {"change", "analyze"} ->
              IF changes THEN <<E(n, "status", 0, x.to)>> ELSE <<>>
         [] x.kind = "report" -> <<>>
OtherEvents(t, review) ==
    LET x == txns[t]
        n == NextSequence + Len(ProjectedEvents(t))
        asks == review /\ x.to = x.saw.status
    IN CASE x.kind = "change" -> <<E(n, "action", 0, x.to)>>
         [] x.kind = "analyze" ->
              IF asks THEN <<E(n, "note", 0, x.to), E(n + 1, "action", 0, x.to)>>
              ELSE <<E(n, "action", 0, x.to)>>
         [] x.kind = "report" -> <<E(n, "note", 0, x.to)>>
         [] OTHER -> <<>>

\* apply_event_to_projection computes the columns from those that were read, and
\* the UPDATEs write those that changed on the way.
Written_EveryColumn(t) == ApplyEvents(Prepared(t), ProjectedEvents(t))
Written(t) ==
    LET saw == txns[t].saw
        prepared == Prepared(t)
        final == ApplyEvents(prepared, ProjectedEvents(t))
    IN [c \in DOMAIN row |->
          IF saw[c] = prepared[c] /\ prepared[c] = final[c] THEN row[c] ELSE final[c]]

\* enqueue_job with the key `analyze:{id}:{number of the attached event}': a row
\* with this key, then an active job of the incident, then a new job unless the
\* backlog is full.
JobNumber_Count(t) == Written(t).count
JobNumber(t) == NextSequence
Enqueue(t, full) ==
    LET n == JobNumber(t) IN
    /\ active' = IF n \in settled \/ active # {} \/ full THEN active ELSE {n}
    /\ silenced' = IF n \in settled THEN silenced \cup {t} ELSE silenced
    /\ UNCHANGED settled

Commit(t, review, full) ==
    /\ At(t, "read")
    /\ row' = Written(t)
    /\ log' = log \o ProjectedEvents(t) \o OtherEvents(t, review)
    /\ IF txns[t].kind = "firing" THEN Enqueue(t, full) ELSE UNCHANGED queue
    /\ overtaken' = (overtaken \/ (Ingestion(t) /\ row.seen # txns[t].saw.seen))
    /\ txns' = [txns EXCEPT ![t].pc = "done", ![t].saw = Blank]
    /\ UNCHANGED <<opening, deletes>>

\* The worker ends a job.
SettleJob(n) ==
    /\ active' = active \ {n}
    /\ settled' = settled \cup {n}
    /\ UNCHANGED <<opening, row, log, txns, overtaken, silenced, deletes>>

\* DELETE /incidents/{id}/events/{event_id}: neither the row nor the queue is
\* changed.
DeleteEvent(i) ==
    /\ deletes < MaxDeletes
    /\ deletes' = deletes + 1
    /\ log' = RemoveAt(log, i)
    /\ UNCHANGED <<opening, row, txns, queue, overtaken>>

Next ==
    \/ \E t \in Txns :
         \/ \E kind \in {"firing", "resolved"}, s \in Severities, to \in Status :
              ReadIncident(t, kind, s, to)
         \/ \E kind \in {"change", "analyze", "report"}, to \in Status :
              ReadIncident(t, kind, 0, to)
         \/ \E review, full \in BOOLEAN : Commit(t, review, full)
    \/ \E n \in active : SettleJob(n)
    \/ \E i \in DOMAIN log : DeleteEvent(i)

Spec == Init /\ [][Next]_vars

-----------------------------------------------------------------------------
(* Properties.                                                             *)

\* Every variable has its shape, and numbers grow along the log.
TypeOK ==
    /\ opening \in {"opened", "reopened"}
    /\ row \in State
    /\ log \in Seq(Event)
    /\ \A i, j \in DOMAIN log : i < j => log[i].seq < log[j].seq
    /\ txns \in [Txns -> Txn]
    /\ active \subseteq Nat /\ settled \subseteq Nat
    /\ overtaken \in BOOLEAN
    /\ silenced \subseteq Txns
    /\ deletes \in 0 .. MaxDeletes

Lifecycle(s) == <<s.status, s.ack, s.mit, s.res, s.closed, s.seen>>

\* Whatever the order in which overlapping transactions read and write, the row
\* and the replay agree on the status, on when the incident was acknowledged,
\* mitigated, resolved and closed, and on the last alert, until an event is deleted.
\* They agree on how long the incident took if it was opened: apply_event_to_state
\* does not know incident_reopened, and never knows that of a reopened one.
LifecycleReplays ==
    deletes = 0 =>
        /\ Lifecycle(Replayed) = Lifecycle(row)
        /\ Replayed.mttr = (row.mttr /\ opening = "opened")

\* Severity and number of alerts are absolute values computed from what was read:
\* they follow the events unless one ingestion overtakes another.  The live count
\* is 2 for each alert, since ingest_alert and the projector both add one; the
\* replay counts each alert once, and the opening of an incident once more.
DetailsUnlessOvertaken ==
    deletes = 0 /\ ~overtaken =>
        /\ row.severity = Replayed.severity
        /\ row.count = 2 * Cardinality(Attached)
        /\ Replayed.count = Cardinality(Attached) + IF opening = "opened" THEN 1 ELSE 0

\* A firing alert is never given a job that is over, as long as no event of the
\* incident has been deleted: numbers, and so the keys of jobs, are not repeated.
SilencedOnlyAfterDeletion == silenced # {} => deletes > 0
=============================================================================

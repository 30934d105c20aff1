--------------------------- MODULE IncidentStream ---------------------------
(***************************************************************************)
(* One incident: its row in table incidents, its events in incident_events *)
(* and the concurrent transactions that write them.                        *)
(*   history-agent     ingest_alert, a firing or a resolved alert          *)
(*   supervisor-agent  _change_status, an operator's status request        *)
(*                     AnalysisService.analyze, a model's decision         *)
(*   report-agent      generate_report                                     *)
(*                                                                         *)
(* The database is PostgreSQL at READ COMMITTED.  A transaction reads the  *)
(* incident without locking it and may be slow after that: a model is      *)
(* asked, a lock is waited for.  An UPDATE locks the row, append_event     *)
(* takes the advisory lock of the stream, and both are held to the end of  *)
(* the transaction.  Ingestion updates before it appends; a status change  *)
(* takes the advisory lock first, because SQLAlchemy flushes its UPDATE    *)
(* only with the query for the largest sequence number.                    *)
(***************************************************************************)
EXTENDS Integers, FiniteSets

CONSTANTS
    Txns,        \* requests, each one transaction
    Keys,        \* Idempotency-Key headers a client may send twice
    NoKey,       \* a request without the header: its key is unique
    NoTxn,       \* a lock that nobody holds
    Kinds,       \* subset of AllKinds
    MaxOpen,     \* transactions open at once (connection pool)
    MaxDeletes,  \* bound: DELETE /incidents/{id}/events/{event_id}
    MaxFaults    \* bound: transactions that fail before they commit

AllKinds == {"firing", "resolved", "change", "analyze", "report"}

ASSUME StreamAssumption ==
    /\ NoKey \notin Keys
    /\ NoTxn \notin Txns
    /\ Kinds \subseteq AllKinds
    /\ MaxOpen \in Nat \ {0}
    /\ MaxDeletes \in Nat
    /\ MaxFaults \in Nat

VARIABLES
    row,         \* the incident: [status, version]
    log,         \* its committed events
    txns,        \* progress of each transaction
    pending,     \* events a transaction has inserted and not committed
    rowLock,     \* holder of the lock on the incident's row
    streamLock,  \* holder of the advisory lock of the stream
    deletes, faults     \* bounded occurrences so far

vars == <<row, log, txns, pending, rowLock, streamLock, deletes, faults>>
store == <<row, log>>
locks == <<rowLock, streamLock>>
bounds == <<deletes, faults>>

-----------------------------------------------------------------------------
(* Status, events and transactions.                                        *)

Status == {"open", "investigating", "mitigating", "resolved", "closed"}

\* ALLOWED_TRANSITIONS: one step forward.
AllowedTransitions ==
    [open |-> {"investigating"}, investigating |-> {"mitigating"},
     mitigating |-> {"resolved"}, resolved |-> {"closed"}, closed |-> {}]

CanTransition_Any(current, target) == TRUE
CanTransition(current, target) ==
    current = target \/ target \in AllowedTransitions[current]

\* "opened" and "attached" keep the status; "status" is status_changed and
\* "resolved" is incident_resolved; every other event type is a "note".
Event == [seq : Nat \ {0}, type : {"opened", "attached", "status", "resolved", "note"},
          from : Status, to : Status, key : Keys \cup {NoKey}, by : Txns \cup {NoTxn}]

StatusEvents(events) == {e \in events : e.type \in {"status", "resolved"}}
Projected(events) == {e \in events : e.type # "note"}

\* select max(sequence_number), 0 when there is no event.
MaxSequence(events) ==
    IF events = {} THEN 0
    ELSE CHOOSE n \in {e.seq : e \in events} : \A e \in events : e.seq <= n

KeyTaken_Never(k) == FALSE
KeyTaken(k) == k # NoKey /\ \E e \in log : e.key = k

Txn == [pc     : {"new", "begun", "read", "appended", "done", "aborted"},
        kind   : AllKinds,
        key    : Keys \cup {NoKey},
        seen   : Status,       \* the status that was read
        target : Status]       \* the status that is wanted

At(t, pc) == txns[t].pc = pc
OpenTxns == {t \in Txns : txns[t].pc \in {"begun", "read", "appended"}}
Ingestion(t) == txns[t].kind \in {"firing", "resolved"}

\* The row is updated by an ingestion, and by a change of status.
UpdatesRow(t) ==
    Ingestion(t) \/ (txns[t].kind # "report" /\ txns[t].target # txns[t].seen)

\* The transaction ends: its locks are freed, its inserts applied or gone.
Release_KeepsStreamLock(t) ==
    /\ rowLock' = IF rowLock = t THEN NoTxn ELSE rowLock
    /\ UNCHANGED streamLock
Release(t) ==
    /\ rowLock' = IF rowLock = t THEN NoTxn ELSE rowLock
    /\ streamLock' = IF streamLock = t THEN NoTxn ELSE streamLock

End(t, pc) ==
    /\ txns' = [txns EXCEPT ![t].pc = pc]
    /\ pending' = [pending EXCEPT ![t] = {}]
    /\ Release(t)

-----------------------------------------------------------------------------
\* The alert that opened the incident: incident_opened and alert_attached.
Opening == {[seq |-> 1, type |-> "opened", from |-> "open", to |-> "open",
             key |-> NoKey, by |-> NoTxn],
            [seq |-> 2, type |-> "attached", from |-> "open", to |-> "open",
             key |-> NoKey, by |-> NoTxn]}

Init ==
    /\ row = [status |-> "open", version |-> 2]
    /\ log = Opening
    /\ txns = [t \in Txns |-> [pc |-> "new", kind |-> "report", key |-> NoKey,
                               seen |-> "open", target |-> "open"]]
    /\ pending = [t \in Txns |-> {}]
    /\ rowLock = NoTxn /\ streamLock = NoTxn
    /\ deletes = 0 /\ faults = 0

\* A request arrives.  Status changes, analyses and reports look their key up
\* (get_existing_event_by_idempotency) and answer `deduplicated'; ingestion
\* leaves the key to the UNIQUE constraint.
Begin(t, kind, key) ==
    /\ At(t, "new")
    /\ Cardinality(OpenTxns) < MaxOpen
    /\ txns' = [txns EXCEPT ![t] =
                  [pc |-> IF KeyTaken(key) /\ kind \notin {"firing", "resolved"}
                          THEN "done" ELSE "begun",
                   kind |-> kind, key |-> key, seen |-> "open", target |-> "open"]]
    /\ UNCHANGED <<store, pending, locks, bounds>>

\* What a transaction may want: an analysis drops a choice that the status does not
\* allow; an alert that resolves the incident does so unless it is over already.
Over == {"resolved", "closed"}
MayWant(kind, current, target) ==
    /\ kind = "analyze" => CanTransition(current, target)
    /\ kind = "resolved" => target = IF current \in Over THEN current ELSE "resolved"
    /\ kind \in {"firing", "report"} => target = current

\* The transaction reads the incident and decides; a status request may be refused
\* (apply_transition raises) or find nothing to do.
ReadIncident(t, target) ==
    LET current == row.status
        wish    == IF txns[t].kind # "change" THEN "read"
                   ELSE IF target = current THEN "done"
                   ELSE IF CanTransition(current, target) THEN "read" ELSE "aborted"
    IN /\ At(t, "begun")
       /\ MayWant(txns[t].kind, current, target)
       /\ txns' = [txns EXCEPT
                     ![t] = [@ EXCEPT !.pc = wish, !.seen = current, !.target = target]]
       /\ UNCHANGED <<store, pending, locks, bounds>>

\* The UPDATE of the incident waits for the row.
LockRow(t) ==
    /\ At(t, "read")
    /\ UpdatesRow(t)
    /\ rowLock = NoTxn
    /\ ~Ingestion(t) => streamLock = t
    /\ rowLock' = t
    /\ UNCHANGED <<store, txns, pending, streamLock, bounds>>

\* pg_advisory_xact_lock, in next_sequence_number.
LockStream_NotTaken(t) ==
    /\ At(t, "read")
    /\ Ingestion(t) => rowLock = t
    /\ streamLock' = t
    /\ UNCHANGED <<store, txns, pending, rowLock, bounds>>
LockStream(t) ==
    /\ At(t, "read")
    /\ streamLock = NoTxn
    /\ Ingestion(t) => rowLock = t
    /\ streamLock' = t
    /\ UNCHANGED <<store, txns, pending, rowLock, bounds>>

Locked(t) ==
    /\ At(t, "read")
    /\ streamLock = t
    /\ UpdatesRow(t) => rowLock = t

\* An event of transaction t, the n-th after the last in the log.
NewEvent(t, n, type, key) ==
    [seq |-> MaxSequence(log) + n, type |-> type, from |-> txns[t].seen,
     to |-> IF type \in {"status", "resolved"} THEN txns[t].target ELSE txns[t].seen,
     key |-> key, by |-> t]

\* What a transaction inserts.  The key goes with the alert, with the status, with
\* the decision or with the report; a change of status also records an action, and an
\* analysis that leaves the status alone may first ask for a human review.
EventsOf(t, review) ==
    LET E(n, type, key) == NewEvent(t, n, type, key)
        x == txns[t]
    IN IF Ingestion(t)
       THEN {E(1, "attached", x.key)}
              \cup IF x.target # x.seen THEN {E(2, "resolved", NoKey)} ELSE {}
       ELSE IF x.kind = "change" THEN {E(1, "status", x.key), E(2, "note", NoKey)}
       ELSE IF x.target # x.seen THEN {E(1, "status", NoKey), E(2, "note", x.key)}
       ELSE IF review THEN {E(1, "note", NoKey), E(2, "note", x.key)}
       ELSE {E(1, "note", x.key)}

\* append_event, once or twice, and apply_event_to_projection.
Append(t, review) ==
    /\ Locked(t)
    /\ review => txns[t].kind = "analyze"
    /\ ~KeyTaken(txns[t].key)
    /\ txns' = [txns EXCEPT ![t].pc = "appended"]
    /\ pending' = [pending EXCEPT ![t] = EventsOf(t, review)]
    /\ UNCHANGED <<store, locks, bounds>>

\* UNIQUE (idempotency_key): IntegrityError, and everything is rolled back.
AppendConflict(t) ==
    /\ Locked(t)
    /\ KeyTaken(txns[t].key)
    /\ End(t, "aborted")
    /\ UNCHANGED <<store, bounds>>

\* What the UPDATEs of the transaction write: the columns that it changed, the
\* status only when it is not the one that was read.
Written_EveryColumn(t) ==
    [status  |-> txns[t].target,
     version |-> IF Projected(pending[t]) = {} THEN row.version
                 ELSE MaxSequence(Projected(pending[t]))]
Written(t) ==
    [status  |-> IF StatusEvents(pending[t]) = {} THEN row.status ELSE txns[t].target,
     version |-> IF Projected(pending[t]) = {} THEN row.version
                 ELSE MaxSequence(Projected(pending[t]))]

Commit(t) ==
    /\ At(t, "appended")
    /\ row' = Written(t)
    /\ log' = log \cup pending[t]
    /\ End(t, "done")
    /\ UNCHANGED bounds

\* The database fails, the client disconnects or the process stops.
Fail(t) ==
    /\ t \in OpenTxns
    /\ faults < MaxFaults
    /\ faults' = faults + 1
    /\ End(t, "aborted")
    /\ UNCHANGED <<store, deletes>>

\* An ingestion holds the row and waits for the stream, a change of status
\* holds the stream and waits for the row.
Opposed(t, u) ==
    /\ rowLock = t /\ At(t, "read") /\ streamLock = u
    /\ t # u /\ At(u, "read") /\ UpdatesRow(u)

\* PostgreSQL's deadlock detector aborts one of the two.
BreakDeadlock(t) ==
    /\ \E u \in Txns : Opposed(t, u) \/ Opposed(u, t)
    /\ End(t, "aborted")
    /\ UNCHANGED <<store, bounds>>

\* DELETE /incidents/{id}/events/{event_id}: ALTER TABLE waits for every
\* transaction that has inserted an event; the incident's row is not updated.
DeleteEvent(e) ==
    /\ deletes < MaxDeletes
    /\ \A t \in Txns : pending[t] = {}
    /\ e \in log
    /\ deletes' = deletes + 1
    /\ log' = log \ {e}
    /\ UNCHANGED <<row, txns, pending, locks, faults>>

-----------------------------------------------------------------------------
Step(t) ==
    \/ \E target \in Status : ReadIncident(t, target)
    \/ LockRow(t) \/ LockStream(t)
    \/ \E review \in BOOLEAN : Append(t, review)
    \/ AppendConflict(t) \/ Commit(t) \/ BreakDeadlock(t)

Next ==
    \/ \E t \in Txns :
         \/ \E kind \in Kinds, key \in Keys \cup {NoKey} : Begin(t, kind, key)
         \/ Step(t)
         \/ Fail(t)
    \/ \E e \in log : DeleteEvent(e)

Spec == Init /\ [][Next]_vars

\* An open transaction goes on, and the deadlock detector runs.
FairSpec == Spec /\ \A t \in Txns : WF_vars(Step(t))
-----------------------------------------------------------------------------
(* Properties.                                                             *)

\* Every variable has its shape; a lock is held by an open transaction, and
\* inserts that are not committed belong to the one that holds the stream.
TypeOK ==
    /\ row \in [status : Status, version : Nat]
    /\ log \subseteq Event
    /\ txns \in [Txns -> Txn]
    /\ pending \in [Txns -> SUBSET Event]
    /\ rowLock \in OpenTxns \cup {NoTxn} /\ streamLock \in OpenTxns \cup {NoTxn}
    /\ \A t \in Txns : pending[t] # {} => At(t, "appended") /\ streamLock = t
    /\ deletes \in 0 .. MaxDeletes /\ faults \in 0 .. MaxFaults

\* next_sequence_number never hands out a number twice, though it is read
\* long before the commit: events are told apart by their number, also those
\* not committed yet, and what is about to be committed comes last.
SequenceNumbersUnique ==
    /\ \A e, f \in log : e.seq = f.seq => e = f
    /\ \A t, u \in Txns : \A e \in pending[t], f \in log \cup pending[u] :
         e.seq = f.seq => e = f
    /\ \A t \in Txns : \A e \in pending[t], f \in log : f.seq < e.seq

\* The status of the row is the one the last status event sets, whatever
\* stale status the writers of either had read.
StatusFromLog ==
    IF StatusEvents(log) = {} THEN row.status = "open"
    ELSE \A e \in StatusEvents(log) :
           e.seq = MaxSequence(StatusEvents(log)) => row.status = e.to

\* The row is the projection of the log: its status comes from the last status
\* event, and its version is the last event that was projected.  Only the
\* deletion of an event, which leaves the row alone, sets them apart.
RowIsProjection ==
    deletes = 0 =>
        /\ row.version = MaxSequence(Projected(log))
        /\ StatusFromLog

\* A key that is sent again does its work at most once: no two transactions
\* with one key have events in the log, with or without the key on them.  (A
\* deleted event takes its key with it.)
KeyUsedOnce ==
    deletes = 0 => \A e, f \in log :
        /\ e.by # NoTxn /\ f.by # NoTxn
        /\ txns[e.by].key = txns[f.by].key
        /\ txns[e.by].key # NoKey
        => e.by = f.by

Forward(before, after) ==
    \/ after \in AllowedTransitions[before]
    \/ after = "resolved" /\ before # "closed"

\* The status moves forward along ALLOWED_TRANSITIONS, or is resolved by an
\* alert while the incident is not over.
StatusForward ==
    [][row'.status # row.status => Forward(row.status, row'.status)]_vars

\* It does so unless the transaction that writes it was overtaken by one that
\* changed the status it had read: nothing else can break the lifecycle.
StatusForwardUnlessOvertaken ==
    [][row'.status # row.status =>
         \/ Forward(row.status, row'.status)
         \/ \E t \in Txns : /\ At(t, "appended") /\ txns'[t].pc = "done"
                            /\ txns[t].seen # row.status]_vars

\* The stream, with its locks, stale reads, deadlocks and failures, implements
\* EventLog: seen from outside, the events of a transaction are appended in one
\* step at the next numbers, and the row changes by them alone.
Promised == INSTANCE EventLog
ImplementsEventLog == Promised!Spec

\* Every transaction ends, also one that met another in a deadlock.
EveryTransactionEnds ==
    \A t \in Txns : t \in OpenTxns ~> txns[t].pc \in {"done", "aborted"}
=============================================================================

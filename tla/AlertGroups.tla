---------------------------- MODULE AlertGroups ----------------------------
(***************************************************************************)
(* How alerts find, open and reopen incidents in history-agent: ingest_-   *)
(* alert, called for each alert of a POST /alerts (one transaction for the *)
(* whole batch), and by poll_once for each alert that Alertmanager reports *)
(* (one transaction for each alert, all in one database session).          *)
(*                                                                         *)
(* An alert is named by its event_key.  A lock of an incident stands for   *)
(* the lock of its row and the advisory lock of its stream, which the      *)
(* transaction takes one after the other; IncidentStream tells them apart. *)
(***************************************************************************)
EXTENDS Integers

CONSTANTS
    Groups,        \* grouping keys
    Alerts,        \* alerts, by event_key
    Sessions,      \* database sessions, each serving one request or one poll at a time
    MaxPosts,      \* bound: POST /alerts requests
    MaxIncidents,  \* bound: incidents
    MaxFaults,     \* bound: transactions that fail before they commit, and
                   \* incidents resolved by an operator or an analysis
    Starts         \* what the alerts are, what table incidents holds before
                   \* them, and how many requests and faults there may be then

ASSUME GroupAssumption ==
    MaxPosts \in Nat /\ MaxIncidents \in Nat /\ MaxFaults \in Nat

Ids == 1 .. MaxIncidents
NoIncident == 0
Scenario == [Alerts -> [group : Groups, kind : {"firing", "resolved"}]]

VARIABLES
    about,      \* group and kind of each alert
    incidents,  \* table incidents
    stored,     \* table alerts
    sessions,   \* progress of each request and poll
    own,        \* rows that a transaction has written: it holds their locks
    inserted,   \* alerts that a transaction has inserted
    clock,      \* counts commits; a transaction starts at the time it reads here
    touched,    \* history variable: when the last ingestion of a group committed
    disturbed,  \* history variable: groups that lost the order of their incidents
    posts, faults     \* bounded occurrences so far

vars == <<about, incidents, stored, sessions, own, inserted, clock,
          touched, disturbed, posts, faults>>
tables == <<incidents, stored, clock, touched>>
writes == <<own, inserted>>
bounds == <<posts, faults>>

-----------------------------------------------------------------------------
\* "over" is resolved or closed.  seen is created_at of the last event that
\* attached an alert: the time its transaction started, 0 for earlier alerts.
Row == [group : Groups, status : {"active", "over"}, seen : Nat]
NoRow == [status |-> "none"]

\* Earlier alerts of a group came one after the other, and opened one incident.
Earlier ==
    {rows \in [Ids -> [group : Groups, status : {"active", "over"}, seen : {0}] \cup {NoRow}] :
        \A i, k \in Ids :
            rows[i] # NoRow /\ rows[k] # NoRow /\ rows[i].group = rows[k].group => i = k}

ASSUME StartsAssumption ==
    Starts \subseteq [about : Scenario, rows : Earlier,
                     posts : 0 .. MaxPosts, faults : 0 .. MaxFaults]

Session == [pc    : {"idle", "select", "lock", "insert", "commit"},
            batch : BOOLEAN,                     \* one transaction for all alerts
            open  : BOOLEAN,                     \* a transaction is open
            begun : Nat,                         \* when it started
            todo  : SUBSET Alerts,
            alert : SUBSET Alerts,               \* the alert in hand
            inc   : Ids \cup {NoIncident},       \* the incident found for it
            saw   : {"none", "active", "over"}]  \* and its status then
Idle == [pc |-> "idle", batch |-> FALSE, open |-> FALSE, begun |-> 0,
         todo |-> {}, alert |-> {}, inc |-> NoIncident, saw |-> "none"]

At(s, pc) == sessions[s].pc = pc
GroupOf(a) == about[a].group
Firing(a) == about[a].kind = "firing"

\* What the transaction of s reads: its own writes and committed rows.
View(s, i) == IF own[s][i] # NoRow THEN own[s][i] ELSE incidents[i]

Init ==
    /\ \E start \in Starts :
         /\ about = start.about /\ incidents = start.rows
         /\ posts = MaxPosts - start.posts /\ faults = MaxFaults - start.faults
    /\ stored = {}
    /\ sessions = [s \in Sessions |-> Idle]
    /\ own = [s \in Sessions |-> [i \in Ids |-> NoRow]]
    /\ inserted = [s \in Sessions |-> {}]
    /\ clock = 1
    /\ touched = [g \in Groups |-> 1]
    /\ disturbed = {}

-----------------------------------------------------------------------------
\* A batch is posted.
Post(s, alerts) ==
    /\ At(s, "idle")
    /\ alerts # {}
    /\ posts < MaxPosts
    /\ posts' = posts + 1
    /\ sessions' = [sessions EXCEPT ![s] = [Idle EXCEPT !.pc = "select", !.batch = TRUE,
                                                       !.todo = alerts]]
    /\ UNCHANGED <<about, tables, writes, disturbed, faults>>

\* poll_once fetches the alerts that are active, the firing ones (a fetch that
\* fails is a poll that did not begin).
Poll(s) ==
    LET active == {a \in Alerts : Firing(a)} IN
    /\ At(s, "idle")
    /\ active # {}
    /\ sessions' = [sessions EXCEPT ![s] = [Idle EXCEPT !.pc = "select", !.todo = active]]
    /\ UNCHANGED <<about, tables, writes, disturbed, bounds>>

\* ORDER BY last_seen_at DESC LIMIT 1, among the incidents of the group.
Newest(s, g) ==
    LET known == {i \in Ids : View(s, i) # NoRow /\ View(s, i).group = g}
    IN {i \in known : \A k \in known : View(s, k).seen <= View(s, i).seen}

\* should_reopen_incident: the alert was observed after the resolution, and not
\* too long after it.  The time comes with the alert, or is read from the clock
\* of the service: `fresh' is free, for an incident resolved in this transaction too.
Reopens_AnyStatus(s, i, a, fresh) == Firing(a) /\ fresh
Reopens(s, i, a, fresh) == Firing(a) /\ fresh /\ View(s, i).status = "over"

\* The times in last_seen_at stop to tell which incident of a group is the
\* newest: another ingestion of the group is open or has committed since this one
\* began, or this one opens an incident after it has used an older one.
Disturbs(s, g, begun, opens) ==
    \/ \E u \in Sessions \ {s} : \E a \in inserted[u] \cup sessions[u].alert : GroupOf(a) = g
    \/ begun < touched[g]
    \/ opens /\ \E i \in Ids : own[s][i] # NoRow /\ own[s][i].group = g

\* ingest_alert looks for the incident of an alert, and decides: to open a new
\* one (NoIncident) or to use the one that it found.
Select(s, a, fresh) ==
    LET x == sessions[s]
        begun == IF x.open THEN x.begun ELSE clock
        candidates == Newest(s, GroupOf(a))
        Use(i, status) ==
            /\ sessions' = [sessions EXCEPT ![s] =
                 [pc |-> IF i = NoIncident THEN "insert" ELSE "lock",
                  batch |-> x.batch, open |-> TRUE, begun |-> begun, todo |-> x.todo,
                  alert |-> {a}, inc |-> i, saw |-> status]]
            /\ disturbed' = IF Disturbs(s, GroupOf(a), begun, i = NoIncident)
                            THEN disturbed \cup {GroupOf(a)} ELSE disturbed
    IN
    /\ x.pc = "select"
    /\ a \in x.todo
    /\ \/ candidates = {} /\ Use(NoIncident, "active")
       \/ \E i \in candidates :
            IF Reopens(s, i, a, fresh) THEN Use(NoIncident, "active")
            ELSE Use(i, View(s, i).status)
    /\ UNCHANGED <<about, tables, writes, bounds>>

LockFree(s, i) == \A u \in Sessions \ {s} : own[u][i] = NoRow

\* The UPDATE of the incident waits for its lock.
Lock(s) ==
    LET i == sessions[s].inc IN
    /\ At(s, "lock")
    /\ LockFree(s, i)
    /\ own' = [own EXCEPT ![s][i] = [View(s, i) EXCEPT !.seen = sessions[s].begun]]
    /\ sessions' = [sessions EXCEPT ![s].pc = "insert"]
    /\ UNCHANGED <<about, tables, inserted, disturbed, bounds>>

\* A new row; rows that open transactions have inserted have other ids.
NewId == CHOOSE i \in Ids \cup {NoIncident} :
    LET unused == {k \in Ids : incidents[k] = NoRow /\ \A s \in Sessions : own[s][k] = NoRow}
    IN IF unused = {} THEN i = NoIncident ELSE i \in unused /\ \A k \in unused : i <= k

\* A resolved alert resolves the incident unless it was over when it was read.
Attach(row, a, saw) ==
    IF Firing(a) \/ saw = "over" THEN row ELSE [row EXCEPT !.status = "over"]

\* The alert and its events; a firing alert is enqueued (SupervisorQueue).  A
\* UNIQUE event_key waits for the transaction that has inserted the same one.
Insert(s, a) ==
    LET x == sessions[s]
        i == IF x.inc = NoIncident THEN NewId ELSE x.inc
        row == IF x.inc = NoIncident
               THEN [group |-> GroupOf(a), status |-> "active", seen |-> x.begun]
               ELSE own[s][i]
    IN
    /\ At(s, "insert")
    /\ x.alert = {a}
    /\ i # NoIncident
    /\ a \notin stored
    /\ \A u \in Sessions \ {s} : a \notin inserted[u]
    /\ own' = [own EXCEPT ![s][i] = Attach(row, a, x.saw)]
    /\ inserted' = [inserted EXCEPT ![s] = @ \cup {a}]
    /\ sessions' = [sessions EXCEPT
         ![s] = [x EXCEPT !.pc = IF x.batch /\ x.todo # {a} THEN "select" ELSE "commit",
                          !.todo = x.todo \ {a}, !.inc = i]]
    /\ UNCHANGED <<about, tables, disturbed, bounds>>

\* The transaction ends: its writes are applied or gone, its locks are free.
Release(s) ==
    /\ own' = [own EXCEPT ![s] = [i \in Ids |-> NoRow]]
    /\ inserted' = [inserted EXCEPT ![s] = {}]

\* A request has one transaction; a poll goes on with the next alert.
Continue(s, todo) ==
    sessions' = [sessions EXCEPT ![s] =
        IF @.batch \/ todo = {} THEN Idle ELSE [Idle EXCEPT !.pc = "select", !.todo = todo]]

Commit(s) ==
    /\ At(s, "commit")
    /\ incidents' = [i \in Ids |-> View(s, i)]
    /\ stored' = stored \cup inserted[s]
    /\ clock' = clock + 1
    /\ touched' = [g \in Groups |-> IF \E a \in inserted[s] : GroupOf(a) = g
                                    THEN clock' ELSE touched[g]]
    /\ Release(s)
    /\ Continue(s, sessions[s].todo)
    /\ UNCHANGED <<about, disturbed, bounds>>

Rollback(s, todo) ==
    /\ Release(s)
    /\ Continue(s, todo)
    /\ UNCHANGED <<about, tables, disturbed>>

\* `duplicate event_key': a request is answered 409; a poll counts it and
\* goes on.
Duplicate_InTransaction(s) ==
    /\ At(s, "insert")
    /\ sessions[s].alert \subseteq stored
    /\ Continue(s, sessions[s].todo \ sessions[s].alert)
    /\ UNCHANGED <<about, tables, writes, disturbed, bounds>>
Duplicate_EndsPoll(s) ==
    /\ At(s, "insert")
    /\ sessions[s].alert \subseteq stored
    /\ Rollback(s, {})
    /\ UNCHANGED bounds
Duplicate_Retried(s) ==
    /\ At(s, "insert")
    /\ sessions[s].alert \subseteq stored
    /\ Rollback(s, sessions[s].todo)
    /\ UNCHANGED bounds
Duplicate(s) ==
    /\ At(s, "insert")
    /\ sessions[s].alert \subseteq stored
    /\ Rollback(s, sessions[s].todo \ sessions[s].alert)
    /\ UNCHANGED bounds

\* Any other error ends the request, and the poll.
Fail(s) ==
    /\ sessions[s].open
    /\ faults < MaxFaults
    /\ faults' = faults + 1
    /\ Rollback(s, {})
    /\ UNCHANGED posts

\* Whose end a transaction waits for: the holder of the incident's lock, or
\* the transaction that has inserted the same event_key.
WaitsFor(s, u) ==
    /\ s # u
    /\ \/ At(s, "lock") /\ own[u][sessions[s].inc] # NoRow
       \/ At(s, "insert") /\ sessions[s].alert \cap inserted[u] # {}

\* The database aborts one of the transactions that wait in a circle.
BreakDeadlock(s) ==
    /\ \E circle \in SUBSET Sessions :
         /\ s \in circle
         /\ \A u \in circle : /\ \E v \in circle : WaitsFor(u, v)
                              /\ \E v \in circle : WaitsFor(v, u)
    /\ Rollback(s, {})
    /\ UNCHANGED bounds

-----------------------------------------------------------------------------
\* An operator or an analysis resolves an incident: last_seen_at stays.
Settle(i) ==
    /\ faults < MaxFaults
    /\ faults' = faults + 1
    /\ incidents[i] # NoRow /\ incidents[i].status = "active"
    /\ \A s \in Sessions : own[s][i] = NoRow
    /\ incidents' = [incidents EXCEPT ![i].status = "over"]
    /\ UNCHANGED <<about, stored, clock, sessions, writes, touched, disturbed, posts>>

Ingest(s) ==
    \/ \E a \in Alerts : Insert(s, a) \/ \E fresh \in BOOLEAN : Select(s, a, fresh)
    \/ Lock(s) \/ Duplicate(s) \/ Commit(s) \/ BreakDeadlock(s)

Next ==
    \/ \E s \in Sessions, alerts \in SUBSET Alerts : Post(s, alerts)
    \/ \E s \in Sessions : Poll(s) \/ Ingest(s) \/ Fail(s)
    \/ \E i \in Ids : Settle(i)

Spec == Init /\ [][Next]_vars

\* A handler and the poll loop go on, and the database grants its locks in the
\* order in which they were asked for.  Nothing is assumed of operators or clients.
FairSpec ==
    /\ Spec
    /\ \A s \in Sessions : SF_vars(Ingest(s))
    /\ WF_vars(\E s \in Sessions : Poll(s))
-----------------------------------------------------------------------------
(* Properties.                                                             *)

\* Every variable has its shape; only an open transaction has locks.
TypeOK ==
    /\ about \in Scenario /\ stored \subseteq Alerts
    /\ incidents \in [Ids -> Row \cup {NoRow}]
    /\ sessions \in [Sessions -> Session]
    /\ own \in [Sessions -> [Ids -> Row \cup {NoRow}]]
    /\ inserted \in [Sessions -> SUBSET Alerts]
    /\ \A s \in Sessions : ~sessions[s].open =>
         inserted[s] = {} /\ \A i \in Ids : own[s][i] = NoRow
    /\ clock \in Nat /\ touched \in [Groups -> Nat] /\ disturbed \subseteq Groups
    /\ posts \in 0 .. MaxPosts
    /\ faults \in 0 .. MaxFaults

Known(g) == {i \in Ids : incidents[i] # NoRow /\ incidents[i].group = g}

\* Ingestions that do not overlap keep a group to one active incident, and the
\* next alert of the group finds it: it is the one that was seen last.
\* Nothing but their order enforces that (no lock, no UNIQUE grouping_key).
OneActiveUnlessDisturbed ==
    \A g \in Groups \ disturbed :
        \A i \in Known(g) : incidents[i].status = "active" =>
            \A k \in Known(g) \ {i} : /\ incidents[k].status = "over"
                                      /\ incidents[k].seen < incidents[i].seen

\* An active alert is ingested, although each poll starts with the duplicates
\* of the one before, and batches lock and post the same alerts.
EveryActiveAlertIngested ==
    \A a \in Alerts : Firing(a) ~> a \in stored

\* Every request and every poll ends: batches that lock several incidents in
\* opposite orders, or post the same alerts, do not wait for ever.
EverySessionEnds ==
    \A s \in Sessions : At(s, "select") ~> At(s, "idle")
=============================================================================

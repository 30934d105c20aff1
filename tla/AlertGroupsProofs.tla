------------------------- MODULE AlertGroupsProofs -------------------------
(***************************************************************************)
(* Proofs about AlertGroups, for any number of groups, alerts, sessions,   *)
(* requests, polls, incidents and faults: a group whose ingestions do not  *)
(* overlap has one active incident, the one that was seen last.            *)
(***************************************************************************)
EXTENDS AlertGroups, WellFoundedInduction, TLAPS

-----------------------------------------------------------------------------
(* First and last of a set of numbers.                                     *)

\* Every set of numbers has a least one.
LEMMA Least ==
    ASSUME NEW S \in SUBSET Nat, S # {}
    PROVE  \E m \in S : \A n \in S : m <= n
  <1> DEFINE Less == {pair \in Nat \X Nat : pair[1] < pair[2]}
  <1>1. IsWellFoundedOn(Less, Nat)
    BY NatLessThanWellFounded DEF OpToRel
  <1>2. \A m, n \in Nat : n < m => <<n, m>> \in Less
    OBVIOUS
  <1> HIDE DEF Less
  <1>3. PICK m \in S : \A n \in S : ~(<<n, m>> \in Less)
    BY <1>1, WFMin
  <1>4. \A n \in S : ~(n < m)
    BY <1>2, <1>3
  <1>5. QED
    BY <1>4

\* A bounded set of numbers has a largest one: the least distance to the bound.
LEMMA Largest ==
    ASSUME NEW S \in SUBSET Nat, S # {}, NEW bound \in Nat, \A n \in S : n <= bound
    PROVE  \E m \in S : \A n \in S : n <= m
  <1> DEFINE distances == {bound - n : n \in S}
  <1>1. distances \in SUBSET Nat /\ distances # {}
    <2>1. \A n \in S : bound - n \in Nat
      OBVIOUS
    <2>2. QED
      BY <2>1
  <1>2. \A n \in S : bound - n \in distances
    OBVIOUS
  <1>3. PICK d \in distances : \A e \in distances : d <= e
    <2> HIDE DEF distances
    <2>1. QED
      BY <1>1, Least
  <1>4. PICK m \in S : d = bound - m
    BY <1>3
  <1>5. \A n \in S : bound - m <= bound - n
    BY <1>2, <1>3, <1>4
  <1>6. QED
    BY <1>5

-----------------------------------------------------------------------------
(* Rows as a transaction sees them.                                        *)

\* A session is about a group from the alert in hand to the end of the
\* transaction that has inserted it.
Engaged(s, g) == \E a \in inserted[s] \cup sessions[s].alert : GroupOf(a) = g

InGroup(s, i, g) == View(s, i) # NoRow /\ View(s, i).group = g
Active(s, i) == View(s, i).status = "active"
Wrote(s, i, g) == own[s][i] # NoRow /\ own[s][i].group = g

\* A row is none or has a group, a status and a time.
LEMMA Rows ==
    /\ NoRow \notin Row
    /\ NoIncident \notin Ids
    /\ \A r \in Row : /\ r.group \in Groups /\ r.status \in {"active", "over"} /\ r.seen \in Nat
                      /\ r # NoRow
  BY GroupAssumption DEF Row, NoRow, NoIncident, Ids

\* What a session sees are rows.
LEMMA Views ==
    ASSUME TypeOK, NEW s \in Sessions, NEW i \in Ids
    PROVE  /\ View(s, i) \in Row \cup {NoRow}
           /\ View(s, i) # NoRow => View(s, i) \in Row
           /\ own[s][i] \in Row \cup {NoRow}
           /\ incidents[i] \in Row \cup {NoRow}
  BY DEF TypeOK, View

\* A new incident has an id that no row has, committed or not.
LEMMA NewIdUnused ==
    NewId # NoIncident =>
      NewId \in Ids /\ incidents[NewId] = NoRow /\ \A s \in Sessions : own[s][NewId] = NoRow
  <1> DEFINE unused == {k \in Ids : incidents[k] = NoRow /\ \A s \in Sessions : own[s][k] = NoRow}
             Chosen(i) == IF unused = {} THEN i = NoIncident
                          ELSE i \in unused /\ \A k \in unused : i <= k
  <1>1. \E i \in Ids \cup {NoIncident} : Chosen(i)
    <2>1. unused \in SUBSET Nat
      BY GroupAssumption DEF Ids
    <2>2. CASE unused = {}
      BY <2>2
    <2>3. CASE unused # {}
      <3>1. \E i \in unused : \A k \in unused : i <= k
        BY <2>1, <2>3, Least
      <3>2. QED
        BY <2>3, <3>1
    <2>4. QED
      BY <2>2, <2>3
  <1>2. NewId = CHOOSE i \in Ids \cup {NoIncident} : Chosen(i)
    BY DEF NewId
  <1> HIDE DEF Chosen
  <1>3. Chosen(NewId)
    BY <1>1, <1>2
  <1>4. QED
    BY <1>3 DEF Chosen

-----------------------------------------------------------------------------
(* The inductive invariant.                                                *)

\* A row is written by one transaction at a time.
LocksExclusive ==
    \A s, u \in Sessions, i \in Ids : own[s][i] # NoRow /\ own[u][i] # NoRow => s = u

\* No transaction starts in the future, and what is committed was seen before
\* the last ingestion of its group committed.
Times ==
    /\ \A g \in Groups : touched[g] <= clock
    /\ \A s \in Sessions : sessions[s].begun <= clock
    /\ \A i \in Ids : incidents[i] # NoRow => incidents[i].seen < touched[incidents[i].group]

\* The rows of a transaction were seen when it began, and belong to a group
\* that it is about; writing a row does not change its group.
OwnRows(s) ==
    \A i \in Ids : own[s][i] # NoRow =>
        /\ own[s][i].seen = sessions[s].begun
        /\ Engaged(s, own[s][i].group)
        /\ incidents[i] # NoRow => incidents[i].group = own[s][i].group

\* What the next await of ingest_alert implies.
InHand(s) ==
    LET x == sessions[s] IN
    /\ x.pc \in {"lock", "insert", "commit"} =>
         x.open /\ \E a \in Alerts : x.alert = {a}
    /\ x.pc = "idle" => ~x.open
    /\ x.pc \in {"idle", "select", "commit"} => x.alert \subseteq inserted[s]
    /\ x.pc = "lock" => x.inc \in Ids /\ \A a \in x.alert : InGroup(s, x.inc, GroupOf(a))
    /\ x.pc = "insert" /\ x.inc # NoIncident =>
         own[s][x.inc] # NoRow /\ \A a \in x.alert : own[s][x.inc].group = GroupOf(a)

\* Sessions are about different groups ...
Alone(g) == \A s, u \in Sessions : Engaged(s, g) /\ Engaged(u, g) => s = u

\* ... and each sees one active incident of its group at most, the newest; it
\* uses the newest, and opens one only when there is none that is active.
Sees(s, g) ==
    /\ touched[g] <= sessions[s].begun
    /\ \A i, k \in Ids : Wrote(s, i, g) /\ Wrote(s, k, g) => i = k
    /\ \A i, k \in Ids :
         InGroup(s, i, g) /\ Active(s, i) /\ k # i /\ InGroup(s, k, g) =>
           View(s, k).status = "over" /\ View(s, k).seen < View(s, i).seen
    /\ \A a \in sessions[s].alert : GroupOf(a) = g =>
         /\ At(s, "lock") => \A i, k \in Ids : i = sessions[s].inc /\ InGroup(s, k, g) =>
                               View(s, k).seen <= View(s, i).seen
         /\ At(s, "insert") /\ sessions[s].inc = NoIncident =>
              \A k \in Ids : InGroup(s, k, g) =>
                own[s][k] = NoRow /\ View(s, k).status = "over"

\* The property, for one group.
OneActive(g) ==
    \A i \in Known(g) : incidents[i].status = "active" =>
        \A k \in Known(g) \ {i} : incidents[k].status = "over"
                                  /\ incidents[k].seen < incidents[i].seen

Orderly(g) ==
    /\ OneActive(g)
    /\ Alone(g)
    /\ \A s \in Sessions : Engaged(s, g) => Sees(s, g)

IInv ==
    /\ TypeOK
    /\ LocksExclusive
    /\ Times
    /\ \A s \in Sessions : OwnRows(s) /\ InHand(s)
    /\ \A g \in Groups \ disturbed : Orderly(g)

-----------------------------------------------------------------------------
\* A session that does not move, while the tables stay as they are.
Still(u) == own'[u] = own[u] /\ inserted'[u] = inserted[u] /\ sessions'[u] = sessions[u]

LEMMA StillSees ==
    ASSUME NEW u, Still(u), UNCHANGED <<about, incidents>>
    PROVE  /\ \A i : View(u, i)' = View(u, i)
           /\ \A g : Engaged(u, g)' <=> Engaged(u, g)
           /\ \A g, i : InGroup(u, i, g)' <=> InGroup(u, i, g)
           /\ \A i : Active(u, i)' <=> Active(u, i)
           /\ OwnRows(u) => OwnRows(u)'
           /\ InHand(u) => InHand(u)'
           /\ \A g : touched'[g] = touched[g] /\ Sees(u, g) => Sees(u, g)'
  <1>1. \A i : View(u, i)' = View(u, i)
    BY DEF Still, View
  <1>2. \A g : Engaged(u, g)' <=> Engaged(u, g)
    BY DEF Still, Engaged, GroupOf
  <1>3. \A g, i : InGroup(u, i, g)' <=> InGroup(u, i, g)
    BY <1>1 DEF InGroup
  <1>4. \A i : Active(u, i)' <=> Active(u, i)
    BY <1>1 DEF Active
  <1>5. OwnRows(u) => OwnRows(u)'
    BY <1>2 DEF OwnRows, Still
  <1>6. InHand(u) => InHand(u)'
    BY <1>3 DEF InHand, Still, GroupOf
  <1>7. \A g : touched'[g] = touched[g] /\ Sees(u, g) => Sees(u, g)'
    BY <1>1, <1>3, <1>4 DEF Sees, Still, At, GroupOf, Wrote
  <1>8. QED
    BY <1>1, <1>2, <1>3, <1>4, <1>5, <1>6, <1>7

-----------------------------------------------------------------------------
(* Type correctness.                                                       *)

\* The blank session is a session.
LEMMA IdleType ==
    /\ Idle \in Session /\ Idle.pc = "idle" /\ ~Idle.open /\ Idle.alert = {}
    /\ \A todo \in SUBSET Alerts, batch \in BOOLEAN :
         LET x == [Idle EXCEPT !.pc = "select", !.batch = batch, !.todo = todo] IN
         x \in Session /\ x.pc = "select" /\ ~x.open /\ x.alert = {} /\ x.begun = 0
    /\ \A todo \in SUBSET Alerts :
         LET x == [Idle EXCEPT !.pc = "select", !.todo = todo] IN
         x \in Session /\ x.pc = "select" /\ ~x.open /\ x.alert = {} /\ x.begun = 0
    /\ Idle.begun = 0
  BY DEF Idle, Session

\* After Continue a session has nothing in hand and no transaction.
LEMMA ContinueType ==
    ASSUME TypeOK, NEW s \in Sessions, NEW todo \in SUBSET Alerts, Continue(s, todo)
    PROVE  /\ sessions' \in [Sessions -> Session]
           /\ \A u \in Sessions \ {s} : sessions'[u] = sessions[u]
           /\ sessions'[s].pc \in {"idle", "select"} /\ ~sessions'[s].open
           /\ sessions'[s].alert = {} /\ sessions'[s].begun = 0
  <1>1. \E x \in {Idle, [Idle EXCEPT !.pc = "select", !.todo = todo]} :
          sessions' = [sessions EXCEPT ![s] = x]
    BY DEF Continue, TypeOK
  <1>2. PICK x \in {Idle, [Idle EXCEPT !.pc = "select", !.todo = todo]} :
          sessions' = [sessions EXCEPT ![s] = x]
    BY <1>1
  <1>3. /\ x \in Session /\ x.pc \in {"idle", "select"} /\ ~x.open
        /\ x.alert = {} /\ x.begun = 0
    BY <1>2, IdleType
  <1>4. QED
    BY <1>2, <1>3 DEF TypeOK

\* After Release a transaction has no rows left.
LEMMA ReleaseType ==
    ASSUME TypeOK, NEW s \in Sessions, Release(s)
    PROVE  /\ own' \in [Sessions -> [Ids -> Row \cup {NoRow}]]
           /\ inserted' \in [Sessions -> SUBSET Alerts]
           /\ inserted'[s] = {} /\ \A i \in Ids : own'[s][i] = NoRow
           /\ \A u \in Sessions \ {s} : own'[u] = own[u] /\ inserted'[u] = inserted[u]
  BY DEF Release, TypeOK

\* A transaction that ends without effect.
LEMMA RollbackType ==
    ASSUME TypeOK, NEW s \in Sessions, NEW todo \in SUBSET Alerts, Rollback(s, todo),
           UNCHANGED bounds \/ (faults' = faults + 1 /\ faults < MaxFaults /\ UNCHANGED posts)
    PROVE  TypeOK'
  <1>1. Release(s) /\ Continue(s, todo) /\ UNCHANGED <<about, tables, disturbed>>
    BY DEF Rollback
  <1>2. /\ sessions' \in [Sessions -> Session]
        /\ \A u \in Sessions \ {s} : sessions'[u] = sessions[u]
    BY <1>1, ContinueType
  <1>3. /\ own' \in [Sessions -> [Ids -> Row \cup {NoRow}]]
        /\ inserted' \in [Sessions -> SUBSET Alerts]
        /\ inserted'[s] = {} /\ \A i \in Ids : own'[s][i] = NoRow
        /\ \A u \in Sessions \ {s} : own'[u] = own[u] /\ inserted'[u] = inserted[u]
    BY <1>1, ReleaseType
  <1>4. \A u \in Sessions : ~sessions'[u].open =>
          inserted'[u] = {} /\ \A i \in Ids : own'[u][i] = NoRow
    BY <1>2, <1>3 DEF TypeOK
  <1>5. QED
    BY <1>1, <1>2, <1>3, <1>4, GroupAssumption DEF TypeOK, tables, bounds

\* The next state of a session whose rows stay.
LEMMA SessionTypeOK ==
    ASSUME TypeOK, NEW s \in Sessions, NEW x \in Session,
           sessions' = [sessions EXCEPT ![s] = x], sessions[s].open => x.open,
           UNCHANGED <<about, tables, writes>>,
           disturbed' \subseteq Groups,
           UNCHANGED bounds \/ (posts' = posts + 1 /\ posts < MaxPosts /\ UNCHANGED faults)
    PROVE  TypeOK'
  BY GroupAssumption DEF TypeOK, tables, writes, bounds

\* The incident that an alert finds is an incident.
LEMMA SelectFacts ==
    ASSUME TypeOK, NEW s \in Sessions, NEW a \in Alerts, NEW fresh \in BOOLEAN,
           Select(s, a, fresh)
    PROVE  \E i \in Ids \cup {NoIncident}, status \in {"active", "over"}, begun \in Nat :
             /\ sessions[s].pc = "select"
             /\ begun = IF sessions[s].open THEN sessions[s].begun ELSE clock
             /\ sessions' = [sessions EXCEPT ![s] =
                  [pc |-> IF i = NoIncident THEN "insert" ELSE "lock",
                   batch |-> sessions[s].batch, open |-> TRUE, begun |-> begun,
                   todo |-> sessions[s].todo, alert |-> {a}, inc |-> i, saw |-> status]]
             /\ disturbed' = IF Disturbs(s, GroupOf(a), begun, i = NoIncident)
                             THEN disturbed \cup {GroupOf(a)} ELSE disturbed
             /\ \/ i = NoIncident /\ Newest(s, GroupOf(a)) = {}
                \/ /\ i = NoIncident
                   /\ \E k \in Newest(s, GroupOf(a)) : View(s, k).status = "over"
                \/ i \in Newest(s, GroupOf(a))
             /\ UNCHANGED <<about, tables, writes, bounds>>
  <1> DEFINE x == sessions[s]
             begun == IF x.open THEN x.begun ELSE clock
             Use(i, status) ==
               /\ sessions' = [sessions EXCEPT ![s] =
                    [pc |-> IF i = NoIncident THEN "insert" ELSE "lock",
                     batch |-> x.batch, open |-> TRUE, begun |-> begun, todo |-> x.todo,
                     alert |-> {a}, inc |-> i, saw |-> status]]
               /\ disturbed' = IF Disturbs(s, GroupOf(a), begun, i = NoIncident)
                               THEN disturbed \cup {GroupOf(a)} ELSE disturbed
  <1>1. begun \in Nat /\ x.pc = "select" /\ UNCHANGED <<about, tables, writes, bounds>>
    BY DEF Select, TypeOK, Session
  <1>2. ASSUME NEW k \in Newest(s, GroupOf(a))
        PROVE  k \in Ids /\ View(s, k).status \in {"active", "over"}
    BY <1>2, Views, Rows DEF Newest
  <1>3. \/ Newest(s, GroupOf(a)) = {} /\ Use(NoIncident, "active")
        \/ \E k \in Newest(s, GroupOf(a)) :
             IF Reopens(s, k, a, fresh) THEN Use(NoIncident, "active")
             ELSE Use(k, View(s, k).status)
    BY DEF Select
  <1> HIDE DEF Use
  <1>4. CASE Newest(s, GroupOf(a)) = {} /\ Use(NoIncident, "active")
    BY <1>1, <1>4 DEF Use
  <1>5. ASSUME NEW k \in Newest(s, GroupOf(a)), View(s, k).status = "over",
               Use(NoIncident, "active")
        PROVE  \E i \in Ids \cup {NoIncident}, status \in {"active", "over"} :
                 /\ Use(i, status) /\ i = NoIncident
                 /\ \E q \in Newest(s, GroupOf(a)) : View(s, q).status = "over"
    BY <1>5
  <1>6. ASSUME NEW k \in Newest(s, GroupOf(a)), Use(k, View(s, k).status)
        PROVE  \E i \in Ids \cup {NoIncident}, status \in {"active", "over"} :
                 Use(i, status) /\ i \in Newest(s, GroupOf(a))
    BY <1>2, <1>6
  <1>7. \E i \in Ids \cup {NoIncident}, status \in {"active", "over"} :
          /\ Use(i, status)
          /\ \/ i = NoIncident /\ Newest(s, GroupOf(a)) = {}
             \/ i = NoIncident /\ \E q \in Newest(s, GroupOf(a)) : View(s, q).status = "over"
             \/ i \in Newest(s, GroupOf(a))
    BY <1>3, <1>5, <1>6 DEF Reopens
  <1>8. QED
    BY <1>1, <1>7 DEF Use

\* Only the rows of s, or its inserts, or its progress, differ after the step.
OnlySession(s) == \A u \in Sessions \ {s} : Still(u)

\* The row that Lock writes: the one in view, seen when the transaction began.
LEMMA LockFacts ==
    ASSUME IInv, NEW s \in Sessions, Lock(s)
    PROVE  \E i \in Ids, row \in Row :
             /\ i = sessions[s].inc /\ View(s, i) \in Row
             /\ row.group = View(s, i).group /\ row.status = View(s, i).status
             /\ row.seen = sessions[s].begun
             /\ own' = [own EXCEPT ![s] = [own[s] EXCEPT ![i] = row]]
             /\ sessions' = [sessions EXCEPT ![s] = [sessions[s] EXCEPT !.pc = "insert"]]
             /\ [sessions[s] EXCEPT !.pc = "insert"] \in Session
             /\ At(s, "lock") /\ sessions[s].open /\ LockFree(s, i)
             /\ \E a \in Alerts : sessions[s].alert = {a} /\ View(s, i).group = GroupOf(a)
             /\ UNCHANGED <<about, tables, inserted, disturbed, bounds>>
  <1> DEFINE i == sessions[s].inc
             row == [View(s, i) EXCEPT !.seen = sessions[s].begun]
  <1>1. TypeOK /\ InHand(s) /\ At(s, "lock") /\ LockFree(s, i)
    BY DEF IInv, Lock
  <1>2. /\ i \in Ids /\ sessions[s].open
        /\ \E a \in Alerts : sessions[s].alert = {a} /\ InGroup(s, i, GroupOf(a))
    BY <1>1 DEF InHand, At
  <1>3. View(s, i) \in Row
    BY <1>1, <1>2, Views DEF InGroup
  <1>4. sessions[s].begun \in Nat /\ [sessions[s] EXCEPT !.pc = "insert"] \in Session
    <2>1. sessions[s] \in Session
      BY <1>1 DEF TypeOK
    <2>2. QED
      BY <2>1 DEF Session
  <1>5. /\ row \in Row /\ row.group = View(s, i).group /\ row.status = View(s, i).status
        /\ row.seen = sessions[s].begun
    BY <1>3, <1>4 DEF Row
  <1>6. /\ own' = [own EXCEPT ![s] = [own[s] EXCEPT ![i] = row]]
        /\ sessions' = [sessions EXCEPT ![s] = [sessions[s] EXCEPT !.pc = "insert"]]
        /\ UNCHANGED <<about, tables, inserted, disturbed, bounds>>
    BY DEF Lock
  <1> HIDE DEF row
  <1>7. QED
    BY <1>1, <1>2, <1>3, <1>4, <1>5, <1>6 DEF InGroup

\* The row that Insert writes: a new one, or the one that Lock has written.
LEMMA InsertFacts ==
    ASSUME IInv, NEW s \in Sessions, NEW a \in Alerts, Insert(s, a)
    PROVE  \E i \in Ids, row \in Row, x \in Session :
             /\ At(s, "insert") /\ sessions[s].alert = {a} /\ sessions[s].open
             /\ \/ /\ sessions[s].inc = NoIncident
                   /\ incidents[i] = NoRow /\ \A u \in Sessions : own[u][i] = NoRow
                \/ /\ sessions[s].inc = i /\ own[s][i] # NoRow
                   /\ row.group = own[s][i].group
                   /\ row.status = "active" => own[s][i].status = "active"
             /\ row.group = GroupOf(a) /\ row.seen = sessions[s].begun
             /\ own' = [own EXCEPT ![s] = [own[s] EXCEPT ![i] = row]]
             /\ inserted' = [inserted EXCEPT ![s] = inserted[s] \cup {a}]
             /\ sessions' = [sessions EXCEPT ![s] = x]
             /\ x.pc \in {"select", "commit"} /\ x.open /\ x.alert = {a}
             /\ x.begun = sessions[s].begun
             /\ UNCHANGED <<about, tables, disturbed, bounds>>
  <1>1. TypeOK /\ InHand(s) /\ OwnRows(s) /\ At(s, "insert")
    BY DEF IInv, Insert
  <1>2. sessions[s].alert = {a}
    BY DEF Insert
  <1> DEFINE i == IF sessions[s].inc = NoIncident THEN NewId ELSE sessions[s].inc
             old == IF sessions[s].inc = NoIncident
                    THEN [group |-> GroupOf(a), status |-> "active", seen |-> sessions[s].begun]
                    ELSE own[s][i]
             row == Attach(old, a, sessions[s].saw)
             x == [sessions[s] EXCEPT
                     !.pc = IF sessions[s].batch /\ sessions[s].todo # {a}
                            THEN "select" ELSE "commit",
                     !.todo = sessions[s].todo \ {a}, !.inc = i]
  <1>4. /\ i # NoIncident
        /\ own' = [own EXCEPT ![s] = [own[s] EXCEPT ![i] = row]]
        /\ inserted' = [inserted EXCEPT ![s] = inserted[s] \cup {a}]
        /\ sessions' = [sessions EXCEPT ![s] = x]
        /\ UNCHANGED <<about, tables, disturbed, bounds>>
    BY DEF Insert
  <1>5. /\ sessions[s].open /\ sessions[s].begun \in Nat /\ sessions[s] \in Session
        /\ sessions[s].inc \in Ids \cup {NoIncident} /\ GroupOf(a) \in Groups
    BY <1>1, <1>2, GroupAssumption DEF InHand, At, TypeOK, Session, GroupOf, Scenario
  <1>6. \/ /\ sessions[s].inc = NoIncident /\ i \in Ids
           /\ incidents[i] = NoRow /\ \A u \in Sessions : own[u][i] = NoRow
        \/ /\ sessions[s].inc = i /\ i \in Ids /\ own[s][i] # NoRow
           /\ sessions[s].inc # NoIncident
    BY <1>1, <1>2, <1>4, <1>5, NewIdUnused DEF InHand, At
  <1>7. /\ old \in Row /\ old.group = GroupOf(a) /\ old.seen = sessions[s].begun
    <2>1. CASE sessions[s].inc = NoIncident
      BY <1>5, <2>1 DEF Row
    <2>2. CASE sessions[s].inc # NoIncident
      BY <1>1, <1>2, <1>6, <2>2, Views DEF InHand, At, OwnRows
    <2>3. QED
      BY <2>1, <2>2
  <1>8. /\ row \in Row /\ row.group = old.group /\ row.seen = old.seen
        /\ row.status = "active" => old.status = "active"
    <2> HIDE DEF old
    <2>1. QED
      BY <1>7 DEF Attach, Row
  <1>9. sessions[s].inc # NoIncident => old = own[s][i]
    OBVIOUS
  <1>10. /\ x \in Session /\ x.pc \in {"select", "commit"} /\ x.open /\ x.alert = {a}
         /\ x.begun = sessions[s].begun
    <2>1. i \in Ids
      BY <1>6
    <2> HIDE DEF i
    <2>2. QED
      BY <1>2, <1>5, <2>1 DEF Session
  <1> HIDE DEF i, old, row, x
  <1>11. \/ /\ sessions[s].inc = NoIncident
            /\ incidents[i] = NoRow /\ \A u \in Sessions : own[u][i] = NoRow
         \/ /\ sessions[s].inc = i /\ own[s][i] # NoRow
            /\ row.group = own[s][i].group
            /\ row.status = "active" => own[s][i].status = "active"
    BY <1>6, <1>8, <1>9
  <1>12. i \in Ids /\ row.group = GroupOf(a) /\ row.seen = sessions[s].begun
    BY <1>6, <1>7, <1>8
  <1>13. QED
    BY <1>1, <1>2, <1>4, <1>5, <1>8, <1>10, <1>11, <1>12

\* Every step keeps every variable in its type.
LEMMA NextTypeOK ==
    ASSUME IInv, [Next]_vars
    PROVE  TypeOK'
  <1>0. TypeOK
    BY DEF IInv
  <1>1. \A s \in Sessions : sessions[s] \in Session /\ sessions[s].todo \in SUBSET Alerts
    BY <1>0 DEF TypeOK, Session
  <1>2. ASSUME NEW s \in Sessions, NEW alerts \in SUBSET Alerts, Post(s, alerts)
        PROVE  TypeOK'
    <2>1. PICK x \in Session :
            /\ sessions' = [sessions EXCEPT ![s] = x] /\ ~x.open
            /\ UNCHANGED <<about, tables, writes, disturbed, faults>>
      BY <1>2, IdleType DEF Post
    <2>2. ~sessions[s].open /\ posts' = posts + 1 /\ posts < MaxPosts
      BY <1>2 DEF Post, IInv, InHand, At
    <2>3. QED
      BY <1>0, <2>1, <2>2, SessionTypeOK DEF TypeOK
  <1>3. ASSUME NEW s \in Sessions, Poll(s)
        PROVE  TypeOK'
    <2>1. {a \in Alerts : Firing(a)} \in SUBSET Alerts
      OBVIOUS
    <2>2. PICK x \in Session :
            /\ sessions' = [sessions EXCEPT ![s] = x] /\ ~x.open
            /\ UNCHANGED <<about, tables, writes, disturbed, bounds>>
      BY <1>3, <2>1, IdleType DEF Poll
    <2>3. ~sessions[s].open
      BY <1>3 DEF Poll, IInv, InHand, At
    <2>4. QED
      BY <1>0, <2>2, <2>3, SessionTypeOK DEF TypeOK
  <1>4. ASSUME NEW s \in Sessions, NEW a \in Alerts, NEW fresh \in BOOLEAN, Select(s, a, fresh)
        PROVE  TypeOK'
    <2>1. GroupOf(a) \in Groups
      BY <1>0, GroupAssumption DEF TypeOK, GroupOf, Scenario
    <2>2. PICK i \in Ids \cup {NoIncident}, status \in {"active", "over"}, begun \in Nat :
            /\ sessions' = [sessions EXCEPT ![s] =
                 [pc |-> IF i = NoIncident THEN "insert" ELSE "lock",
                  batch |-> sessions[s].batch, open |-> TRUE, begun |-> begun,
                  todo |-> sessions[s].todo, alert |-> {a}, inc |-> i, saw |-> status]]
            /\ disturbed' \in {disturbed, disturbed \cup {GroupOf(a)}}
            /\ UNCHANGED <<about, tables, writes, bounds>>
      BY <1>0, <1>4, SelectFacts
    <2>3. [pc |-> IF i = NoIncident THEN "insert" ELSE "lock",
           batch |-> sessions[s].batch, open |-> TRUE, begun |-> begun,
           todo |-> sessions[s].todo, alert |-> {a}, inc |-> i, saw |-> status] \in Session
      BY <1>1 DEF Session
    <2>4. disturbed' \subseteq Groups
      BY <1>0, <2>1, <2>2 DEF TypeOK
    <2>5. QED
      BY <1>0, <2>2, <2>3, <2>4, SessionTypeOK
  <1>5. ASSUME NEW s \in Sessions, Lock(s)
        PROVE  TypeOK'
    <2>1. PICK i \in Ids, row \in Row, x \in Session :
            /\ own' = [own EXCEPT ![s] = [own[s] EXCEPT ![i] = row]]
            /\ sessions' = [sessions EXCEPT ![s] = x] /\ x.open
            /\ UNCHANGED <<about, tables, inserted, disturbed, bounds>>
      <3>1. sessions[s].open => [sessions[s] EXCEPT !.pc = "insert"].open
        BY <1>1 DEF Session
      <3>2. QED
        BY <1>5, <3>1, LockFacts
    <2>2. QED
      BY <1>0, <2>1 DEF TypeOK, tables, bounds
  <1>6. ASSUME NEW s \in Sessions, NEW a \in Alerts, Insert(s, a)
        PROVE  TypeOK'
    <2>1. PICK i \in Ids, row \in Row, x \in Session :
            /\ own' = [own EXCEPT ![s] = [own[s] EXCEPT ![i] = row]]
            /\ inserted' = [inserted EXCEPT ![s] = inserted[s] \cup {a}]
            /\ sessions' = [sessions EXCEPT ![s] = x] /\ x.open
            /\ UNCHANGED <<about, tables, disturbed, bounds>>
      BY <1>6, InsertFacts
    <2>2. QED
      BY <1>0, <2>1 DEF TypeOK, tables, bounds
  <1>7. ASSUME NEW s \in Sessions, Duplicate(s) \/ BreakDeadlock(s) \/ Fail(s)
        PROVE  TypeOK'
    <2>1. \E todo \in SUBSET Alerts : Rollback(s, todo)
      BY <1>1, <1>7 DEF Duplicate, BreakDeadlock, Fail
    <2>2. UNCHANGED bounds \/ (faults' = faults + 1 /\ faults < MaxFaults /\ UNCHANGED posts)
      BY <1>7 DEF Duplicate, BreakDeadlock, Fail
    <2>3. QED
      BY <1>0, <2>1, <2>2, RollbackType
  <1>8. ASSUME NEW s \in Sessions, Commit(s)
        PROVE  TypeOK'
    <2>1. Release(s) /\ Continue(s, sessions[s].todo)
      BY <1>8 DEF Commit
    <2>2. /\ sessions' \in [Sessions -> Session]
          /\ \A u \in Sessions \ {s} : sessions'[u] = sessions[u]
      BY <1>0, <1>1, <2>1, ContinueType
    <2>3. /\ own' \in [Sessions -> [Ids -> Row \cup {NoRow}]]
          /\ inserted' \in [Sessions -> SUBSET Alerts]
          /\ inserted'[s] = {} /\ \A i \in Ids : own'[s][i] = NoRow
          /\ \A u \in Sessions \ {s} : own'[u] = own[u] /\ inserted'[u] = inserted[u]
      BY <1>0, <2>1, ReleaseType
    <2>4. incidents' \in [Ids -> Row \cup {NoRow}]
      BY <1>0, <1>8, Views DEF Commit
    <2>5. \A u \in Sessions : ~sessions'[u].open =>
            inserted'[u] = {} /\ \A i \in Ids : own'[u][i] = NoRow
      BY <1>0, <2>2, <2>3 DEF TypeOK
    <2>6. /\ stored' \subseteq Alerts
          /\ clock' \in Nat /\ touched' \in [Groups -> Nat]
          /\ UNCHANGED <<about, disturbed, posts, faults>>
      BY <1>0, <1>8 DEF Commit, TypeOK, bounds
    <2>7. QED
      BY <1>0, <2>2, <2>3, <2>4, <2>5, <2>6 DEF TypeOK
  <1>9. ASSUME NEW i \in Ids, Settle(i)
        PROVE  TypeOK'
    <2>1. incidents[i] \in Row
      BY <1>0, <1>9 DEF Settle, TypeOK
    <2>2. [incidents[i] EXCEPT !.status = "over"] \in Row
      BY <2>1 DEF Row
    <2>3. incidents' \in [Ids -> Row \cup {NoRow}]
      BY <1>0, <1>9, <2>2 DEF Settle, TypeOK
    <2>4. QED
      BY <1>0, <1>9, <2>3, GroupAssumption DEF Settle, TypeOK, writes
  <1>10. CASE UNCHANGED vars
    BY <1>0, <1>10 DEF vars, TypeOK, tables, writes, bounds
  <1>11. QED
    BY <1>2, <1>3, <1>4, <1>5, <1>6, <1>7, <1>8, <1>9, <1>10 DEF Next, Ingest

-----------------------------------------------------------------------------
(* Steps of one session that leave the tables alone.                       *)

\* Such a step keeps the invariant if the session that moves keeps its part of
\* it, is alone with its groups, and disturbs no group that it spoils.
LEMMA OneMoves ==
    ASSUME IInv, TypeOK', NEW s \in Sessions, OnlySession(s),
           UNCHANGED <<about, incidents, clock, touched>>, disturbed \subseteq disturbed',
           sessions'[s].begun <= clock,
           \A i \in Ids, u \in Sessions \ {s} : own'[s][i] # NoRow => own[u][i] = NoRow,
           OwnRows(s)', InHand(s)',
           \A g \in Groups \ disturbed' : Engaged(s, g)' =>
             Sees(s, g)' /\ \A u \in Sessions \ {s} : ~Engaged(u, g)
    PROVE  IInv'
  <1>1. \A u \in Sessions \ {s} : Still(u)
    BY DEF OnlySession
  <1>2. LocksExclusive'
    BY <1>1 DEF IInv, LocksExclusive, Still
  <1>3. Times'
    BY <1>1 DEF IInv, Times, Still
  <1>4. \A u \in Sessions : OwnRows(u)' /\ InHand(u)'
    BY <1>1, StillSees DEF IInv
  <1>5. ASSUME NEW g \in Groups \ disturbed'
        PROVE  Orderly(g)'
    <2>1. Orderly(g)
      BY <1>5 DEF IInv
    <2>2. \A u \in Sessions \ {s} : Engaged(u, g)' <=> Engaged(u, g)
      BY <1>1, StillSees
    <2>3. OneActive(g)'
      BY <2>1 DEF Orderly, OneActive, Known
    <2>4. Alone(g)'
      BY <1>5, <2>1, <2>2 DEF Orderly, Alone
    <2>5. ASSUME NEW u \in Sessions, Engaged(u, g)'
          PROVE  Sees(u, g)'
      <3>1. CASE u = s
        BY <1>5, <2>5, <3>1
      <3>2. CASE u # s
        BY <1>1, <2>1, <2>2, <2>5, <3>2, StillSees DEF Orderly
      <3>3. QED
        BY <3>1, <3>2
    <2>6. QED
      BY <2>3, <2>4, <2>5 DEF Orderly
  <1>6. QED
    BY <1>2, <1>3, <1>4, <1>5 DEF IInv

\* A session that has nothing in hand and nothing written.
LEMMA NothingInHand ==
    ASSUME IInv, TypeOK', NEW s \in Sessions, OnlySession(s),
           UNCHANGED <<about, incidents, clock, touched, disturbed>>,
           sessions'[s].begun = 0, ~sessions'[s].open, sessions'[s].alert = {},
           sessions'[s].pc \in {"idle", "select"},
           inserted'[s] = {}, \A i \in Ids : own'[s][i] = NoRow
    PROVE  IInv'
  <1>1. sessions'[s].begun <= clock
    BY DEF IInv, TypeOK
  <1>2. OwnRows(s)' /\ \A g : ~Engaged(s, g)'
    BY DEF OwnRows, Engaged
  <1>3. InHand(s)'
    BY DEF InHand
  <1>4. QED
    BY <1>1, <1>2, <1>3, OneMoves

\* A request comes, or a poll begins.
LEMMA BeginIInv ==
    ASSUME IInv, TypeOK', NEW s \in Sessions,
           Poll(s) \/ \E alerts \in SUBSET Alerts : Post(s, alerts)
    PROVE  IInv'
  <1>1. At(s, "idle") /\ ~sessions[s].open
    BY DEF Poll, Post, IInv, InHand, At
  <1>2. inserted[s] = {} /\ \A i \in Ids : own[s][i] = NoRow
    BY <1>1 DEF IInv, TypeOK
  <1>3. \E x \in Session :
          /\ sessions' = [sessions EXCEPT ![s] = x]
          /\ x.pc = "select" /\ ~x.open /\ x.alert = {} /\ x.begun = 0
    <2>1. CASE Poll(s)
      <3>1. {a \in Alerts : Firing(a)} \in SUBSET Alerts
        OBVIOUS
      <3>2. QED
        BY <2>1, <3>1, IdleType DEF Poll
    <2>2. ASSUME NEW alerts \in SUBSET Alerts, Post(s, alerts)
          PROVE  \E x \in Session :
                   /\ sessions' = [sessions EXCEPT ![s] = x]
                   /\ x.pc = "select" /\ ~x.open /\ x.alert = {} /\ x.begun = 0
      BY <2>2, IdleType DEF Post
    <2>3. QED
      BY <2>1, <2>2
  <1>4. UNCHANGED <<about, tables, writes, disturbed>>
    BY DEF Poll, Post
  <1>5. OnlySession(s) /\ sessions'[s].pc = "select" /\ ~sessions'[s].open
        /\ sessions'[s].alert = {} /\ sessions'[s].begun = 0
    BY <1>3, <1>4 DEF OnlySession, Still, writes, IInv, TypeOK
  <1>6. QED
    BY <1>2, <1>4, <1>5, NothingInHand DEF tables, writes

\* A transaction ends without effect.
LEMMA RollbackIInv ==
    ASSUME IInv, TypeOK', NEW s \in Sessions, NEW todo \in SUBSET Alerts, Rollback(s, todo)
    PROVE  IInv'
  <1>0. TypeOK
    BY DEF IInv
  <1>1. Release(s) /\ Continue(s, todo) /\ UNCHANGED <<about, tables, disturbed>>
    BY DEF Rollback
  <1>2. OnlySession(s)
    BY <1>0, <1>1, ContinueType, ReleaseType DEF OnlySession, Still
  <1>3. QED
    BY <1>0, <1>1, <1>2, ContinueType, ReleaseType, NothingInHand DEF tables

\* Of the incidents of a group that a session sees, some are the newest.
LEMMA NewestExists ==
    ASSUME IInv, NEW s \in Sessions, NEW g \in Groups, Newest(s, g) = {}
    PROVE  \A i \in Ids : ~InGroup(s, i, g)
  <1> DEFINE known == {i \in Ids : InGroup(s, i, g)}
             seen == {View(s, i).seen : i \in known}
  <1> SUFFICES ASSUME known # {} PROVE FALSE
    OBVIOUS
  <1>1. \A i \in known : View(s, i) \in Row
    BY Views DEF IInv, InGroup
  <1>2. \A i \in known : View(s, i).seen \in Nat /\ View(s, i).seen <= clock
    <2>1. ASSUME NEW i \in known
          PROVE  View(s, i).seen <= clock
      <3>1. CASE own[s][i] # NoRow
        BY <3>1 DEF IInv, Times, OwnRows, View
      <3>2. CASE own[s][i] = NoRow
        <4>1. incidents[i] = View(s, i) /\ incidents[i] \in Row /\ incidents[i] # NoRow
          BY <1>1, <3>2 DEF View, InGroup
        <4>2. incidents[i].seen < touched[g] /\ touched[g] <= clock
          BY <4>1 DEF IInv, Times, InGroup
        <4>3. QED
          BY <1>1, <4>1, <4>2, Rows DEF IInv, TypeOK
      <3>3. QED
        BY <3>1, <3>2
    <2>2. QED
      BY <1>1, <2>1, Rows
  <1>3. seen \in SUBSET Nat /\ seen # {} /\ \A n \in seen : n <= clock
    BY <1>2
  <1>4. \E m \in seen : \A n \in seen : n <= m
    <2> HIDE DEF seen
    <2>1. QED
      BY <1>3, Largest DEF IInv, TypeOK
  <1>5. \E i \in known : \A k \in known : View(s, k).seen <= View(s, i).seen
    BY <1>4
  <1>6. QED
    BY <1>5 DEF Newest, InGroup

\* What a session sees of a group that it is not about is committed.
LEMMA Outside ==
    ASSUME IInv, NEW s \in Sessions, NEW g, ~Engaged(s, g)
    PROVE  /\ \A i \in Ids : own[s][i] # NoRow => own[s][i].group # g
           /\ \A i \in Ids : InGroup(s, i, g) <=> i \in Known(g)
           /\ \A i \in Known(g) : own[s][i] = NoRow /\ View(s, i) = incidents[i]
  <1>1. \A i \in Ids : own[s][i] # NoRow => own[s][i].group # g
    BY DEF IInv, OwnRows
  <1>2. \A i \in Known(g) : own[s][i] = NoRow
    BY <1>1 DEF IInv, OwnRows, Known
  <1>3. QED
    BY <1>1, <1>2 DEF InGroup, View, Known

\* A row that a transaction has not written is older than the transaction.
LEMMA Older ==
    ASSUME IInv, NEW s \in Sessions, NEW g \in Groups, touched[g] <= sessions[s].begun,
           NEW i \in Ids, InGroup(s, i, g), own[s][i] = NoRow
    PROVE  View(s, i).seen < sessions[s].begun
  <1>1. View(s, i) = incidents[i] /\ incidents[i] # NoRow /\ incidents[i].group = g
    BY DEF View, InGroup
  <1>2. incidents[i].seen < touched[g]
    BY <1>1 DEF IInv, Times
  <1>3. incidents[i].seen \in Nat /\ touched[g] \in Nat /\ sessions[s].begun \in Nat
    BY <1>1, Rows DEF IInv, TypeOK, Session
  <1>4. QED
    BY <1>1, <1>2, <1>3

\* ingest_alert takes an alert and finds its incident, or decides to open one.
LEMMA SelectIInv ==
    ASSUME IInv, TypeOK', NEW s \in Sessions, NEW a \in Alerts, NEW fresh \in BOOLEAN,
           Select(s, a, fresh)
    PROVE  IInv'
  <1>0. TypeOK /\ InHand(s) /\ OwnRows(s)
    BY DEF IInv
  <1>g. PICK g \in Groups : g = GroupOf(a)
    BY <1>0, GroupAssumption DEF TypeOK, GroupOf, Scenario
  <1>1. PICK i \in Ids \cup {NoIncident}, status \in {"active", "over"}, begun \in Nat :
          /\ sessions[s].pc = "select"
          /\ begun = IF sessions[s].open THEN sessions[s].begun ELSE clock
          /\ sessions' = [sessions EXCEPT ![s] =
               [pc |-> IF i = NoIncident THEN "insert" ELSE "lock",
                batch |-> sessions[s].batch, open |-> TRUE, begun |-> begun,
                todo |-> sessions[s].todo, alert |-> {a}, inc |-> i, saw |-> status]]
          /\ disturbed' = IF Disturbs(s, GroupOf(a), begun, i = NoIncident)
                          THEN disturbed \cup {GroupOf(a)} ELSE disturbed
          /\ \/ i = NoIncident /\ Newest(s, GroupOf(a)) = {}
             \/ /\ i = NoIncident
                /\ \E k \in Newest(s, GroupOf(a)) : View(s, k).status = "over"
             \/ i \in Newest(s, GroupOf(a))
          /\ UNCHANGED <<about, tables, writes, bounds>>
    BY <1>0, SelectFacts
  <1>2. /\ sessions'[s].pc = (IF i = NoIncident THEN "insert" ELSE "lock")
        /\ sessions'[s].open /\ sessions'[s].begun = begun
        /\ sessions'[s].alert = {a} /\ sessions'[s].inc = i
    BY <1>0, <1>1 DEF TypeOK
  <1>3. OnlySession(s) /\ UNCHANGED <<about, incidents, clock, touched, own, inserted>>
    BY <1>0, <1>1 DEF OnlySession, Still, TypeOK, tables, writes
  <1>4. GroupOf(a) = g /\ GroupOf(a)' = g
    BY <1>g, <1>3 DEF GroupOf
  <1>5. sessions[s].alert \subseteq inserted[s]
    BY <1>0, <1>1 DEF InHand
  <1>6. \A h : Engaged(s, h)' <=> (Engaged(s, h) \/ h = g)
    BY <1>2, <1>3, <1>4, <1>5 DEF Engaged, GroupOf
  <1>7. /\ \A k : View(s, k)' = View(s, k)
        /\ \A h, k : InGroup(s, k, h)' <=> InGroup(s, k, h)
        /\ \A k : Active(s, k)' <=> Active(s, k)
    BY <1>3 DEF View, InGroup, Active
  <1>8. \A h : Engaged(s, h) => sessions[s].open /\ begun = sessions[s].begun
    BY <1>0, <1>1, <1>5 DEF Engaged, TypeOK
  <1>9. begun <= clock
    BY <1>1, <1>0 DEF IInv, Times, TypeOK
  <1>10. OwnRows(s)'
    BY <1>0, <1>2, <1>3, <1>6, <1>8 DEF OwnRows
  <1>11. i # NoIncident => i \in Newest(s, g) /\ i \in Ids /\ InGroup(s, i, g)
    BY <1>1, <1>4 DEF Newest, InGroup
  <1>12. InHand(s)'
    BY <1>2, <1>4, <1>7, <1>11 DEF InHand
  <1>13. ASSUME NEW h \in Groups \ disturbed', Engaged(s, h)'
         PROVE  Sees(s, h)' /\ \A u \in Sessions \ {s} : ~Engaged(u, h)
    <2>0. h \in Groups \ disturbed /\ Orderly(h)
      BY <1>1, <1>13 DEF IInv
    <2>1. CASE h # g
      <3>1. Engaged(s, h) /\ Sees(s, h) /\ begun = sessions[s].begun
        BY <1>6, <1>8, <1>13, <2>0, <2>1 DEF Orderly
      <3>2. Sees(s, h)'
        BY <1>2, <1>3, <1>4, <1>7, <2>1, <3>1 DEF Sees, Wrote
      <3>3. QED
        BY <2>0, <3>1, <3>2 DEF Orderly, Alone
    <2>2. CASE h = g
      <3>1. ~Disturbs(s, g, begun, i = NoIncident)
        BY <1>1, <1>4, <1>13, <2>2
      <3>2. \A u \in Sessions \ {s} : ~Engaged(u, g)
        BY <3>1 DEF Disturbs, Engaged
      <3>3. touched[g] <= begun
        BY <1>0, <1>4, <3>1 DEF Disturbs, TypeOK
      <3>4. i = NoIncident => \A k \in Ids : own[s][k] # NoRow => own[s][k].group # g
        BY <3>1 DEF Disturbs
      <3>5. /\ \A p, k \in Ids : Wrote(s, p, g) /\ Wrote(s, k, g) => p = k
            /\ \A p, k \in Ids :
                 InGroup(s, p, g) /\ Active(s, p) /\ k # p /\ InGroup(s, k, g) =>
                   View(s, k).status = "over" /\ View(s, k).seen < View(s, p).seen
        <4>1. CASE Engaged(s, g)
          BY <2>0, <2>2, <4>1 DEF Orderly, Sees
        <4>2. CASE ~Engaged(s, g)
          <5>1. \A p \in Ids : own[s][p] # NoRow => own[s][p].group # g
            BY <4>2, Outside
          <5>2. \A p \in Ids : InGroup(s, p, g) =>
                  p \in Known(g) /\ View(s, p) = incidents[p]
            BY <4>2, Outside
          <5>3. OneActive(g)
            BY <2>0, <2>2 DEF Orderly
          <5>4. ASSUME NEW p \in Ids, NEW k \in Ids,
                       InGroup(s, p, g), Active(s, p), k # p, InGroup(s, k, g)
                PROVE  View(s, k).status = "over" /\ View(s, k).seen < View(s, p).seen
            BY <5>2, <5>3, <5>4 DEF OneActive, Active
          <5>5. \A p, k \in Ids : Wrote(s, p, g) /\ Wrote(s, k, g) => p = k
            BY <5>1 DEF Wrote
          <5>6. \A p, k \in Ids :
                  InGroup(s, p, g) /\ Active(s, p) /\ k # p /\ InGroup(s, k, g) =>
                    View(s, k).status = "over" /\ View(s, k).seen < View(s, p).seen
            BY <5>4
          <5>7. QED
            BY <5>5, <5>6
        <4>3. QED
          BY <4>1, <4>2
      <3>6. i = NoIncident => \A k \in Ids : InGroup(s, k, g) =>
                                own[s][k] = NoRow /\ View(s, k).status = "over"
        <4>1. ASSUME i = NoIncident, NEW k \in Ids, InGroup(s, k, g)
              PROVE  own[s][k] = NoRow
          BY <3>4, <4>1 DEF InGroup, View
        <4>2. ASSUME i = NoIncident, NEW k \in Ids, InGroup(s, k, g)
              PROVE  View(s, k).status = "over"
          <5>1. Newest(s, g) # {}
            BY <4>2, NewestExists
          <5>2. i \notin Newest(s, g)
            BY <4>2, Rows DEF Newest
          <5>3. PICK q \in Newest(s, g) : View(s, q).status = "over"
            BY <1>1, <1>4, <5>1, <5>2
          <5>4. q \in Ids /\ InGroup(s, q, g) /\ View(s, k).seen <= View(s, q).seen
            BY <4>2, <5>3 DEF Newest, InGroup
          <5>5. View(s, k) \in Row /\ View(s, q) \in Row
            BY <1>0, <4>2, <5>4, Views DEF InGroup
          <5>6. ~Active(s, k)
            <6>1. CASE k = q
              BY <5>3, <6>1 DEF Active
            <6>2. CASE k # q
              BY <3>5, <4>2, <5>4, <5>5, <6>2, Rows
            <6>3. QED
              BY <6>1, <6>2
          <5>7. QED
            BY <5>5, <5>6, Rows DEF Active
        <4>3. QED
          BY <4>1, <4>2
      <3>7. i # NoIncident => \A k \in Ids : InGroup(s, k, g) =>
                                View(s, k).seen <= View(s, i).seen
        BY <1>11 DEF Newest, InGroup
      <3>8. Sees(s, g)'
        BY <1>2, <1>3, <1>7, <3>3, <3>5, <3>6, <3>7 DEF Sees, At, Wrote
      <3>9. QED
        BY <2>2, <3>2, <3>8
    <2>3. QED
      BY <2>1, <2>2
  <1>14. disturbed \subseteq disturbed'
    BY <1>1
  <1>15. \A k \in Ids, u \in Sessions \ {s} : own'[s][k] # NoRow => own[u][k] = NoRow
    BY <1>3 DEF IInv, LocksExclusive
  <1>16. QED
    BY <1>2, <1>3, <1>9, <1>10, <1>12, <1>13, <1>14, <1>15, OneMoves

\* The UPDATE of the incident: it was the newest, and stays it.
LEMMA LockIInv ==
    ASSUME IInv, TypeOK', NEW s \in Sessions, Lock(s)
    PROVE  IInv'
  <1>0. TypeOK /\ InHand(s) /\ OwnRows(s)
    BY DEF IInv
  <1>1. PICK i \in Ids, row \in Row :
          /\ i = sessions[s].inc /\ View(s, i) \in Row
          /\ row.group = View(s, i).group /\ row.status = View(s, i).status
          /\ row.seen = sessions[s].begun
          /\ own' = [own EXCEPT ![s] = [own[s] EXCEPT ![i] = row]]
          /\ sessions' = [sessions EXCEPT ![s] = [sessions[s] EXCEPT !.pc = "insert"]]
          /\ [sessions[s] EXCEPT !.pc = "insert"] \in Session
          /\ At(s, "lock") /\ sessions[s].open /\ LockFree(s, i)
          /\ \E a \in Alerts : sessions[s].alert = {a} /\ View(s, i).group = GroupOf(a)
          /\ UNCHANGED <<about, tables, inserted, disturbed, bounds>>
    BY LockFacts
  <1>2. PICK a \in Alerts : sessions[s].alert = {a} /\ View(s, i).group = GroupOf(a)
    BY <1>1
  <1>3. PICK g \in Groups : g = GroupOf(a) /\ GroupOf(a)' = g
    BY <1>0, <1>1, GroupAssumption DEF TypeOK, GroupOf, Scenario
  <1>4. /\ sessions'[s].pc = "insert" /\ sessions'[s].open
        /\ sessions'[s].begun = sessions[s].begun
        /\ sessions'[s].alert = {a} /\ sessions'[s].inc = i
    <2>1. sessions[s] \in Session
      BY <1>0 DEF TypeOK
    <2>2. sessions'[s] = [sessions[s] EXCEPT !.pc = "insert"]
      BY <1>0, <1>1 DEF TypeOK
    <2>3. QED
      BY <1>1, <1>2, <2>1, <2>2 DEF Session
  <1>5. /\ OnlySession(s)
        /\ UNCHANGED <<about, incidents, clock, touched, inserted, disturbed>>
    BY <1>0, <1>1 DEF OnlySession, Still, TypeOK, tables
  <1>6. /\ own'[s][i] = row /\ row # NoRow
        /\ \A k \in Ids \ {i} : own'[s][k] = own[s][k]
    BY <1>0, <1>1, Rows DEF TypeOK
  <1>7. \A h : Engaged(s, h)' <=> Engaged(s, h)
    BY <1>2, <1>4, <1>5 DEF Engaged, GroupOf
  <1>8. /\ View(s, i)' = row
        /\ \A k \in Ids \ {i} : View(s, k)' = View(s, k)
    BY <1>5, <1>6 DEF View
  <1>9. InGroup(s, i, g) /\ row.group = g /\ Engaged(s, g)
    BY <1>1, <1>2, <1>3, Rows DEF InGroup, Engaged
  <1>10. /\ \A h : \A k \in Ids : InGroup(s, k, h)' <=> InGroup(s, k, h)
         /\ \A k \in Ids : Active(s, k)' <=> Active(s, k)
    BY <1>1, <1>6, <1>8, <1>9 DEF InGroup, Active
  <1>11. \A h : \A k \in Ids : Wrote(s, k, h)' <=> Wrote(s, k, h) \/ (k = i /\ h = g)
    <2>1. ASSUME NEW h PROVE Wrote(s, i, h)' <=> h = g
      BY <1>6, <1>9 DEF Wrote
    <2>2. ASSUME NEW h, Wrote(s, i, h) PROVE h = g
      BY <1>9, <2>2 DEF Wrote, InGroup, View
    <2>3. ASSUME NEW k \in Ids \ {i}, NEW h PROVE Wrote(s, k, h)' <=> Wrote(s, k, h)
      BY <1>6 DEF Wrote
    <2>4. QED
      BY <2>1, <2>2, <2>3
  <1>12. OwnRows(s)'
    <2>1. ASSUME NEW k \in Ids \ {i}, own'[s][k] # NoRow
          PROVE  /\ own'[s][k].seen = sessions'[s].begun
                 /\ Engaged(s, own[s][k].group)'
                 /\ incidents'[k] # NoRow => incidents'[k].group = own'[s][k].group
      BY <1>0, <1>4, <1>5, <1>6, <1>7, <2>1 DEF OwnRows, Engaged, GroupOf
    <2>2. incidents[i] # NoRow => incidents[i].group = g
      BY <1>0, <1>9 DEF InGroup, View, OwnRows
    <2>3. Engaged(s, g)'
      BY <1>7, <1>9
    <2>4. QED
      BY <1>1, <1>4, <1>5, <1>6, <1>9, <2>1, <2>2, <2>3 DEF OwnRows, Engaged, GroupOf
  <1>13. InHand(s)'
    BY <1>3, <1>4, <1>6, <1>9 DEF InHand
  <1>14. ASSUME NEW h \in Groups \ disturbed', Engaged(s, h)'
         PROVE  Sees(s, h)' /\ \A u \in Sessions \ {s} : ~Engaged(u, h)
    <2>0. /\ Orderly(h) /\ Sees(s, h)
          /\ \A u \in Sessions \ {s} : ~Engaged(u, h)
      BY <1>5, <1>7, <1>14 DEF IInv, Orderly, Alone
    <2>1. CASE h # g
      <3>1. \A k \in Ids : InGroup(s, k, h) => k # i
        BY <1>9, <2>1 DEF InGroup
      <3>2. \A p, k \in Ids : Wrote(s, p, h)' /\ Wrote(s, k, h)' => p = k
        BY <1>11, <2>0, <2>1 DEF Sees
      <3>3. \A p, k \in Ids :
              InGroup(s, p, h)' /\ Active(s, p)' /\ k # p /\ InGroup(s, k, h)' =>
                View(s, k)'.status = "over" /\ View(s, k)'.seen < View(s, p)'.seen
        BY <1>8, <1>10, <2>0, <3>1 DEF Sees
      <3>4. touched'[h] <= sessions'[s].begun
        BY <1>4, <1>5, <2>0 DEF Sees
      <3>5. Sees(s, h)'
        BY <1>3, <1>4, <2>1, <3>2, <3>3, <3>4 DEF Sees
      <3>6. QED
        BY <2>0, <3>5
    <2>2. CASE h = g
      <3>0. touched[g] <= sessions[s].begun /\ sessions[s].begun \in Nat
        BY <1>0, <2>0, <2>2 DEF Sees, TypeOK, Session
      <3>1. \A k \in Ids : InGroup(s, k, g) => View(s, k).seen <= View(s, i).seen
        BY <1>1, <1>2, <1>3, <2>0, <2>2 DEF Sees
      <3>2. \A k \in Ids : InGroup(s, k, g) => View(s, k) \in Row /\ View(s, k).seen \in Nat
        BY <1>0, Views, Rows DEF InGroup
      <3>3. ASSUME NEW k \in Ids, Wrote(s, k, g)
            PROVE  k = i
        <4>1. InGroup(s, k, g) /\ View(s, k).seen = sessions[s].begun
          BY <1>0, <3>3 DEF Wrote, InGroup, View, OwnRows
        <4>2. CASE own[s][i] = NoRow
          <5>1. View(s, i).seen < sessions[s].begun
            BY <1>9, <3>0, <4>2, Older
          <5>2. QED
            BY <1>9, <3>0, <3>1, <3>2, <4>1, <5>1
        <4>3. CASE own[s][i] # NoRow
          <5>1. Wrote(s, i, g)
            BY <1>9, <4>3 DEF Wrote, InGroup, View
          <5>2. QED
            BY <2>0, <2>2, <3>3, <5>1 DEF Sees
        <4>4. QED
          BY <4>2, <4>3
      <3>4. \A p, k \in Ids : Wrote(s, p, g)' /\ Wrote(s, k, g)' => p = k
        BY <1>11, <3>3
      <3>5. ASSUME NEW p \in Ids, NEW k \in Ids,
                   InGroup(s, p, g)', Active(s, p)', k # p, InGroup(s, k, g)'
            PROVE  View(s, k)'.status = "over" /\ View(s, k)'.seen < View(s, p)'.seen
        <4>1. /\ InGroup(s, p, g) /\ Active(s, p) /\ InGroup(s, k, g)
              /\ View(s, k).status = "over" /\ View(s, k).seen < View(s, p).seen
          <5>1. InGroup(s, p, g) /\ Active(s, p) /\ InGroup(s, k, g)
            BY <1>10, <3>5
          <5>2. QED
            BY <2>0, <2>2, <3>5, <5>1 DEF Sees
        <4>2. p = i
          BY <1>9, <3>1, <3>2, <4>1, <2>0, <2>2 DEF Sees
        <4>3. own[s][k] = NoRow
          BY <3>3, <3>5, <4>1, <4>2 DEF Wrote, InGroup, View
        <4>4. View(s, k).seen < sessions[s].begun
          BY <3>0, <4>1, <4>3, Older
        <4>5. QED
          BY <1>1, <1>8, <3>5, <4>1, <4>2, <4>4
      <3>6. touched'[g] <= sessions'[s].begun
        BY <1>4, <1>5, <3>0
      <3>7. Sees(s, g)'
        BY <1>4, <3>4, <3>5, <3>6, Rows DEF Sees, At
      <3>8. QED
        BY <2>0, <2>2, <3>7
    <2>3. QED
      BY <2>1, <2>2
  <1>15. \A k \in Ids, u \in Sessions \ {s} : own'[s][k] # NoRow => own[u][k] = NoRow
    BY <1>1, <1>6 DEF IInv, LocksExclusive, LockFree
  <1>16. sessions'[s].begun <= clock
    BY <1>4 DEF IInv, Times
  <1>17. QED
    BY <1>5, <1>12, <1>13, <1>14, <1>15, <1>16, OneMoves

\* The alert is stored: a new incident is the newest and the only active one
\* of its group; an incident that was found is the newest already.
LEMMA InsertIInv ==
    ASSUME IInv, TypeOK', NEW s \in Sessions, NEW a \in Alerts, Insert(s, a)
    PROVE  IInv'
  <1>0. TypeOK /\ InHand(s) /\ OwnRows(s)
    BY DEF IInv
  <1>1. PICK i \in Ids, row \in Row, x \in Session :
          /\ At(s, "insert") /\ sessions[s].alert = {a} /\ sessions[s].open
          /\ \/ /\ sessions[s].inc = NoIncident
                /\ incidents[i] = NoRow /\ \A u \in Sessions : own[u][i] = NoRow
             \/ /\ sessions[s].inc = i /\ own[s][i] # NoRow
                /\ row.group = own[s][i].group
                /\ row.status = "active" => own[s][i].status = "active"
          /\ row.group = GroupOf(a) /\ row.seen = sessions[s].begun
          /\ own' = [own EXCEPT ![s] = [own[s] EXCEPT ![i] = row]]
          /\ inserted' = [inserted EXCEPT ![s] = inserted[s] \cup {a}]
          /\ sessions' = [sessions EXCEPT ![s] = x]
          /\ x.pc \in {"select", "commit"} /\ x.open /\ x.alert = {a}
          /\ x.begun = sessions[s].begun
          /\ UNCHANGED <<about, tables, disturbed, bounds>>
    BY InsertFacts
  <1>3. PICK g \in Groups : g = GroupOf(a) /\ GroupOf(a)' = g
    BY <1>0, <1>1, GroupAssumption DEF TypeOK, GroupOf, Scenario
  <1>4. sessions'[s] = x /\ inserted'[s] = inserted[s] \cup {a}
    BY <1>0, <1>1 DEF TypeOK
  <1>5. /\ OnlySession(s)
        /\ UNCHANGED <<about, incidents, clock, touched, disturbed>>
    BY <1>0, <1>1 DEF OnlySession, Still, TypeOK, tables
  <1>6. /\ own'[s][i] = row /\ row # NoRow
        /\ \A k \in Ids \ {i} : own'[s][k] = own[s][k]
    BY <1>0, <1>1, Rows DEF TypeOK
  <1>7. \A h : Engaged(s, h)' <=> Engaged(s, h)
    BY <1>1, <1>4, <1>5 DEF Engaged, GroupOf
  <1>8. /\ View(s, i)' = row
        /\ \A k \in Ids \ {i} : View(s, k)' = View(s, k)
    BY <1>5, <1>6 DEF View
  <1>9. row.group = g /\ Engaged(s, g)
    BY <1>1, <1>3 DEF Engaged
  <1>10. sessions[s].inc = NoIncident => \A h : ~InGroup(s, i, h)
    BY <1>1, Rows DEF InGroup, View
  <1>11. sessions[s].inc # NoIncident =>
           /\ View(s, i) = own[s][i] /\ Wrote(s, i, g) /\ InGroup(s, i, g)
           /\ own[s][i].seen = sessions[s].begun
    BY <1>0, <1>1, <1>9 DEF View, Wrote, InGroup, OwnRows
  <1>12. OwnRows(s)'
    <2>1. ASSUME NEW k \in Ids \ {i}, own'[s][k] # NoRow
          PROVE  /\ own'[s][k].seen = sessions'[s].begun
                 /\ Engaged(s, own[s][k].group)'
                 /\ incidents'[k] # NoRow => incidents'[k].group = own'[s][k].group
      <3>1. /\ own[s][k] # NoRow /\ own[s][k].seen = sessions[s].begun
            /\ Engaged(s, own[s][k].group)
            /\ incidents[k] # NoRow => incidents[k].group = own[s][k].group
        BY <1>0, <1>6, <2>1 DEF OwnRows
      <3>2. Engaged(s, own[s][k].group)'
        BY <1>1, <1>4, <1>5, <1>6, <3>1 DEF Engaged, GroupOf
      <3>3. QED
        BY <1>1, <1>4, <1>5, <1>6, <3>1, <3>2
    <2>2. incidents[i] # NoRow => incidents[i].group = g
      BY <1>0, <1>1, <1>9 DEF OwnRows
    <2>3. Engaged(s, g)'
      BY <1>7, <1>9
    <2>4. QED
      BY <1>1, <1>4, <1>5, <1>6, <1>9, <2>1, <2>2, <2>3 DEF OwnRows, Engaged, GroupOf
  <1>13. InHand(s)'
    BY <1>1, <1>4 DEF InHand
  <1>14. ASSUME NEW h \in Groups \ disturbed', Engaged(s, h)'
         PROVE  Sees(s, h)' /\ \A u \in Sessions \ {s} : ~Engaged(u, h)
    <2>0. /\ Orderly(h) /\ Sees(s, h)
          /\ \A u \in Sessions \ {s} : ~Engaged(u, h)
      BY <1>5, <1>7, <1>14 DEF IInv, Orderly, Alone
    <2>1. touched'[h] <= sessions'[s].begun
      BY <1>1, <1>4, <1>5, <2>0 DEF Sees
    <2>2. \A k \in Ids \ {i} : /\ InGroup(s, k, h)' <=> InGroup(s, k, h)
                               /\ Active(s, k)' <=> Active(s, k)
                               /\ Wrote(s, k, h)' <=> Wrote(s, k, h)
      BY <1>6, <1>8 DEF InGroup, Active, Wrote
    <2>3. /\ InGroup(s, i, h)' <=> h = g
          /\ Wrote(s, i, h)' <=> h = g
      BY <1>6, <1>8, <1>9 DEF InGroup, Wrote
    <2>4. CASE h # g
      <3>1. \A p, k \in Ids : Wrote(s, p, h)' /\ Wrote(s, k, h)' => p = k
        BY <2>0, <2>2, <2>3, <2>4 DEF Sees
      <3>2. \A p, k \in Ids :
              InGroup(s, p, h)' /\ Active(s, p)' /\ k # p /\ InGroup(s, k, h)' =>
                View(s, k)'.status = "over" /\ View(s, k)'.seen < View(s, p)'.seen
        BY <1>8, <2>0, <2>2, <2>3, <2>4 DEF Sees
      <3>3. Sees(s, h)'
        BY <1>1, <1>4, <2>1, <3>1, <3>2 DEF Sees, At
      <3>4. QED
        BY <2>0, <3>3
    <2>5. CASE h = g
      <3>0. touched[g] <= sessions[s].begun
        BY <2>0, <2>5 DEF Sees
      <3>1. ASSUME sessions[s].inc = NoIncident, NEW k \in Ids, InGroup(s, k, g)
            PROVE  own[s][k] = NoRow /\ View(s, k).status = "over"
        BY <1>1, <1>3, <2>0, <2>5, <3>1 DEF Sees
      <3>2. \A p, k \in Ids : Wrote(s, p, g)' /\ Wrote(s, k, g)' => p = k
        <4>1. ASSUME NEW k \in Ids \ {i}, Wrote(s, k, g) PROVE FALSE
          <5>1. InGroup(s, k, g) /\ own[s][k] # NoRow
            BY <4>1 DEF Wrote, InGroup, View
          <5>2. sessions[s].inc # NoIncident
            BY <3>1, <5>1
          <5>3. QED
            BY <1>11, <2>0, <2>5, <4>1, <5>2 DEF Sees
        <4>2. QED
          BY <2>2, <2>5, <4>1
      <3>3. ASSUME NEW p \in Ids, NEW k \in Ids,
                   InGroup(s, p, g)', Active(s, p)', k # p, InGroup(s, k, g)'
            PROVE  View(s, k)'.status = "over" /\ View(s, k)'.seen < View(s, p)'.seen
        <4>1. CASE sessions[s].inc = NoIncident
          <5>1. p = i
            BY <2>2, <2>5, <3>1, <3>3, <4>1 DEF Active
          <5>2. InGroup(s, k, g) /\ View(s, k)' = View(s, k)
            BY <1>8, <2>2, <2>5, <3>3, <5>1
          <5>3. own[s][k] = NoRow /\ View(s, k).status = "over"
            BY <3>1, <4>1, <5>2
          <5>4. View(s, k).seen < sessions[s].begun
            BY <3>0, <5>2, <5>3, Older
          <5>5. QED
            BY <1>1, <1>8, <5>1, <5>2, <5>3, <5>4
        <4>2. CASE sessions[s].inc # NoIncident
          <5>1. /\ InGroup(s, i, g) /\ View(s, i).seen = row.seen
                /\ row.status = "active" => Active(s, i)
                /\ View(s, i).status = "over" => row.status = "over"
            BY <1>1, <1>11, <4>2, Rows DEF Active
          <5>2. InGroup(s, p, g) /\ Active(s, p) /\ InGroup(s, k, g)
            BY <1>8, <2>2, <2>5, <3>3, <5>1 DEF Active
          <5>3. View(s, k).status = "over" /\ View(s, k).seen < View(s, p).seen
            BY <2>0, <2>5, <3>3, <5>2 DEF Sees
          <5>4. QED
            BY <1>8, <3>3, <5>1, <5>3
        <4>3. QED
          BY <4>1, <4>2
      <3>4. Sees(s, g)'
        BY <1>1, <1>4, <2>1, <2>5, <3>2, <3>3 DEF Sees, At
      <3>5. QED
        BY <2>0, <2>5, <3>4
    <2>6. QED
      BY <2>4, <2>5
  <1>15. \A k \in Ids, u \in Sessions \ {s} : own'[s][k] # NoRow => own[u][k] = NoRow
    BY <1>1, <1>6 DEF IInv, LocksExclusive
  <1>16. sessions'[s].begun <= clock
    BY <1>1, <1>4 DEF IInv, Times
  <1>17. QED
    BY <1>5, <1>12, <1>13, <1>14, <1>15, <1>16, OneMoves

\* The transaction commits: its groups are touched, its rows are in the table.
LEMMA CommitIInv ==
    ASSUME IInv, TypeOK', NEW s \in Sessions, Commit(s)
    PROVE  IInv'
  <1>0. TypeOK /\ InHand(s) /\ OwnRows(s) /\ Times /\ LocksExclusive
    BY DEF IInv
  <1>1. /\ At(s, "commit") /\ Release(s) /\ Continue(s, sessions[s].todo)
        /\ incidents' = [i \in Ids |-> View(s, i)] /\ clock' = clock + 1
        /\ touched' = [g \in Groups |-> IF \E a \in inserted[s] : GroupOf(a) = g
                                        THEN clock' ELSE touched[g]]
        /\ UNCHANGED <<about, disturbed>>
    BY DEF Commit
  <1>2. \A i \in Ids : incidents'[i] = View(s, i)
    BY <1>1
  <1>3. sessions[s].todo \in SUBSET Alerts /\ sessions[s].begun \in Nat /\ clock \in Nat
    BY <1>0 DEF TypeOK, Session
  <1>4. /\ sessions'[s].pc \in {"idle", "select"} /\ ~sessions'[s].open
        /\ sessions'[s].alert = {} /\ sessions'[s].begun = 0
        /\ \A u \in Sessions \ {s} : sessions'[u] = sessions[u]
    BY <1>0, <1>1, <1>3, ContinueType
  <1>5. /\ inserted'[s] = {} /\ \A i \in Ids : own'[s][i] = NoRow
        /\ \A u \in Sessions \ {s} : own'[u] = own[u] /\ inserted'[u] = inserted[u]
    BY <1>0, <1>1, ReleaseType
  <1>6. sessions[s].alert \subseteq inserted[s]
    BY <1>0, <1>1 DEF InHand, At
  <1>7. \A g \in Groups : touched'[g] = IF Engaged(s, g) THEN clock + 1 ELSE touched[g]
    BY <1>1, <1>6 DEF Engaged
  <1>8. \A g \in Groups : touched[g] \in Nat /\ touched[g] <= clock
    BY <1>0 DEF TypeOK, Times
  <1>9. \A g : ~Engaged(s, g)'
    BY <1>4, <1>5 DEF Engaged
  <1>10. \A g : \A u \in Sessions \ {s} : Engaged(u, g)' <=> Engaged(u, g)
    BY <1>1, <1>4, <1>5 DEF Engaged, GroupOf
  <1>11. ASSUME NEW i \in Ids, own[s][i] = NoRow
         PROVE  incidents'[i] = incidents[i]
    BY <1>2, <1>11 DEF View
  <1>12. LocksExclusive'
    BY <1>0, <1>5 DEF LocksExclusive
  <1>13. ASSUME NEW i \in Ids, incidents'[i] # NoRow
         PROVE  incidents'[i].seen < touched'[incidents'[i].group]
    <2>1. incidents'[i] \in Row /\ incidents'[i].group \in Groups /\ incidents'[i].seen \in Nat
      BY <1>0, <1>2, <1>13, Views, Rows
    <2>2. CASE own[s][i] # NoRow
      <3>1. /\ incidents'[i].seen = sessions[s].begun
            /\ Engaged(s, incidents'[i].group)
        BY <1>0, <1>2, <2>2 DEF OwnRows, View
      <3>2. sessions[s].begun <= clock
        BY <1>0 DEF Times
      <3>3. QED
        BY <1>3, <1>7, <2>1, <3>1, <3>2
    <2>3. CASE own[s][i] = NoRow
      <3>1. incidents[i] = incidents'[i] /\ incidents[i].seen < touched[incidents[i].group]
        BY <1>0, <1>11, <1>13, <2>3 DEF Times
      <3>2. PICK g \in Groups : g = incidents'[i].group
        BY <2>1
      <3>3. touched[g] <= touched'[g] /\ touched'[g] \in Nat
        BY <1>3, <1>7, <1>8
      <3>4. QED
        BY <1>8, <2>1, <3>1, <3>2, <3>3
    <2>4. QED
      BY <2>2, <2>3
  <1>14. Times'
    <2>1. \A g \in Groups : touched'[g] <= clock'
      BY <1>1, <1>3, <1>7, <1>8
    <2>2. \A u \in Sessions : sessions[u].begun \in Nat /\ sessions[u].begun <= clock
      BY <1>0 DEF Times, TypeOK, Session
    <2>3. \A u \in Sessions : sessions'[u].begun <= clock'
      BY <1>1, <1>3, <1>4, <2>2
    <2>4. QED
      BY <1>13, <2>1, <2>3 DEF Times
  <1>15. ASSUME NEW u \in Sessions \ {s}, NEW i \in Ids, NEW g, InGroup(u, i, g)
         PROVE  InGroup(u, i, g)'
    <2>1. CASE own[u][i] # NoRow
      BY <1>5, <1>15, <2>1 DEF InGroup, View
    <2>2. CASE own[u][i] = NoRow
      <3>1. incidents[i] # NoRow /\ incidents[i].group = g
        BY <1>15, <2>2 DEF InGroup, View
      <3>2. incidents'[i] # NoRow /\ incidents'[i].group = g
        BY <1>0, <1>2, <3>1 DEF OwnRows, View
      <3>3. QED
        BY <1>5, <2>2, <3>2 DEF InGroup, View
    <2>3. QED
      BY <2>1, <2>2
  <1>16. ASSUME NEW u \in Sessions
         PROVE  OwnRows(u)' /\ InHand(u)'
    <2>1. CASE u = s
      BY <1>4, <1>5, <2>1 DEF OwnRows, InHand
    <2>2. CASE u # s
      <3>1. OwnRows(u) /\ InHand(u)
        BY DEF IInv
      <3>2. OwnRows(u)'
        <4>1. ASSUME NEW i \in Ids, own'[u][i] # NoRow
              PROVE  /\ own'[u][i].seen = sessions'[u].begun
                     /\ Engaged(u, own[u][i].group)'
                     /\ incidents'[i] # NoRow => incidents'[i].group = own'[u][i].group
          <5>1. own[u][i] # NoRow /\ own'[u][i] = own[u][i] /\ own[s][i] = NoRow
            BY <1>0, <1>5, <2>2, <4>1 DEF LocksExclusive
          <5>2. PICK g : g = own[u][i].group
            OBVIOUS
          <5>3. own[u][i].seen = sessions[u].begun /\ Engaged(u, g)
            BY <3>1, <5>1, <5>2 DEF OwnRows
          <5>4. Engaged(u, g)' /\ own[u][i].group' = g
            BY <1>10, <2>2, <5>1, <5>2, <5>3
          <5>5. Engaged(u, own[u][i].group)'
            BY <5>4 DEF Engaged
          <5>6. incidents'[i] # NoRow => incidents'[i].group = own'[u][i].group
            BY <1>11, <3>1, <5>1 DEF OwnRows
          <5>7. QED
            BY <1>4, <2>2, <5>1, <5>3, <5>5, <5>6
        <4>2. QED
          BY <4>1 DEF OwnRows
      <3>3. InHand(u)'
        <4>1. \A g, i : i \in Ids /\ InGroup(u, i, g) => InGroup(u, i, g)'
          BY <1>15, <2>2
        <4>2. /\ sessions'[u] = sessions[u] /\ own'[u] = own[u] /\ inserted'[u] = inserted[u]
              /\ about' = about
          BY <1>1, <1>4, <1>5, <2>2
        <4>3. sessions[u].pc = "lock" => sessions[u].inc \in Ids
          BY <3>1 DEF InHand
        <4>4. QED
          BY <3>1, <4>1, <4>2, <4>3 DEF InHand, GroupOf
      <3>4. QED
        BY <3>2, <3>3
    <2>3. QED
      BY <2>1, <2>2
  <1>17. ASSUME NEW g \in Groups \ disturbed'
         PROVE  Orderly(g)'
    <2>1. Orderly(g)
      BY <1>1 DEF IInv
    <2>2. \A i \in Ids : i \in Known(g)' <=> InGroup(s, i, g)
      BY <1>2 DEF Known, InGroup
    <2>3. OneActive(g)'
      <3>1. ASSUME NEW i \in Ids, NEW k \in Ids, k # i,
                   InGroup(s, i, g), InGroup(s, k, g), View(s, i).status = "active"
            PROVE  View(s, k).status = "over" /\ View(s, k).seen < View(s, i).seen
        <4>1. CASE Engaged(s, g)
          BY <2>1, <3>1, <4>1 DEF Orderly, Sees, Active
        <4>2. CASE ~Engaged(s, g)
          <5>1. /\ i \in Known(g) /\ View(s, i) = incidents[i]
                /\ k \in Known(g) /\ View(s, k) = incidents[k]
            BY <3>1, <4>2, Outside
          <5>2. QED
            BY <2>1, <3>1, <5>1 DEF Orderly, OneActive
        <4>3. QED
          BY <4>1, <4>2
      <3>2. Known(g)' \subseteq Ids
        BY DEF Known
      <3>3. QED
        BY <1>2, <2>2, <3>1, <3>2 DEF OneActive
    <2>4. Alone(g)'
      BY <1>9, <1>10, <2>1 DEF Orderly, Alone
    <2>5. ASSUME NEW u \in Sessions, Engaged(u, g)'
          PROVE  Sees(u, g)'
      <3>1. u # s /\ Engaged(u, g) /\ ~Engaged(s, g)
        BY <1>9, <1>10, <2>1, <2>5 DEF Orderly, Alone
      <3>2. Sees(u, g) /\ touched'[g] = touched[g]
        BY <1>7, <2>1, <3>1 DEF Orderly
      <3>3. \A i \in Ids : own[s][i] # NoRow =>
              own[s][i].group # g /\ (incidents[i] # NoRow => incidents[i].group # g)
        BY <1>0, <3>1 DEF OwnRows
      <3>4. \A i \in Ids : View(u, i)' = IF own[u][i] # NoRow THEN own[u][i] ELSE View(s, i)
        BY <1>2, <1>5, <3>1 DEF View
      <3>5. ASSUME NEW i \in Ids
            PROVE  /\ InGroup(u, i, g)' <=> InGroup(u, i, g)
                   /\ InGroup(u, i, g) => View(u, i)' = View(u, i)
        <4>1. CASE own[u][i] # NoRow \/ own[s][i] = NoRow
          BY <3>4, <4>1 DEF InGroup, View
        <4>2. CASE own[u][i] = NoRow /\ own[s][i] # NoRow
          BY <3>3, <3>4, <4>2 DEF InGroup, View
        <4>3. QED
          BY <4>1, <4>2
      <3>6. \A i : Wrote(u, i, g)' <=> Wrote(u, i, g)
        BY <1>5, <3>1 DEF Wrote
      <3>7. \A i, k \in Ids :
              InGroup(u, i, g)' /\ Active(u, i)' /\ k # i /\ InGroup(u, k, g)' =>
                View(u, k)'.status = "over" /\ View(u, k)'.seen < View(u, i)'.seen
        BY <3>2, <3>5 DEF Sees, Active
      <3>8. /\ sessions'[u] = sessions[u] /\ own'[u] = own[u] /\ about' = about
        BY <1>1, <1>4, <1>5, <3>1
      <3>9. \A a \in sessions'[u].alert : GroupOf(a)' = g =>
              /\ At(u, "lock")' => \A i, k \in Ids :
                   i = sessions'[u].inc /\ InGroup(u, k, g)' => View(u, k)'.seen <= View(u, i)'.seen
              /\ At(u, "insert")' /\ sessions'[u].inc = NoIncident =>
                   \A k \in Ids : InGroup(u, k, g)' =>
                     own'[u][k] = NoRow /\ View(u, k)'.status = "over"
        <4>1. ASSUME NEW a \in sessions[u].alert, GroupOf(a) = g, At(u, "lock"),
                     NEW i \in Ids, NEW k \in Ids, i = sessions[u].inc, InGroup(u, k, g)
              PROVE  View(u, k)'.seen <= View(u, i)'.seen
          <5>1. InGroup(u, i, g)
            BY <4>1 DEF IInv, InHand, At
          <5>2. View(u, k).seen <= View(u, i).seen
            BY <3>2, <4>1 DEF Sees
          <5>3. QED
            BY <3>5, <4>1, <5>1, <5>2
        <4>2. ASSUME NEW a \in sessions[u].alert, GroupOf(a) = g, At(u, "insert"),
                     sessions[u].inc = NoIncident, NEW k \in Ids, InGroup(u, k, g)
              PROVE  own[u][k] = NoRow /\ View(u, k)'.status = "over"
          BY <3>2, <3>5, <4>2 DEF Sees
        <4>3. QED
          BY <3>5, <3>8, <4>1, <4>2 DEF At, GroupOf
      <3>10. QED
        BY <3>2, <3>6, <3>7, <3>8, <3>9 DEF Sees
    <2>6. QED
      BY <2>3, <2>4, <2>5 DEF Orderly
  <1>18. QED
    BY <1>12, <1>14, <1>16, <1>17 DEF IInv

\* An incident ends between ingestions: nobody has its row in hand, and a group
\* that had one active incident has none.
LEMMA SettleIInv ==
    ASSUME IInv, TypeOK', NEW i \in Ids, Settle(i)
    PROVE  IInv'
  <1>0. TypeOK
    BY DEF IInv
  <1>1. /\ UNCHANGED <<about, clock, sessions, own, inserted, touched, disturbed>>
        /\ \A s \in Sessions : own[s][i] = NoRow
        /\ incidents' = [incidents EXCEPT ![i] = [incidents[i] EXCEPT !.status = "over"]]
    BY DEF Settle, writes
  <1>2. incidents[i] \in Row
    BY <1>0 DEF Settle, TypeOK
  <1>3. /\ \A k \in Ids \ {i} : incidents'[k] = incidents[k]
        /\ incidents'[i] \in Row /\ incidents'[i].status = "over"
        /\ incidents'[i].group = incidents[i].group /\ incidents'[i].seen = incidents[i].seen
    <2>1. LET row == [incidents[i] EXCEPT !.status = "over"] IN
          /\ row \in Row /\ row.status = "over" /\ row.group = incidents[i].group
          /\ row.seen = incidents[i].seen
      BY <1>2 DEF Row
    <2>2. QED
      BY <1>0, <1>1, <2>1 DEF TypeOK
  <1>4. \A k \in Ids : /\ incidents'[k] # NoRow <=> incidents[k] # NoRow
                       /\ incidents[k] # NoRow =>
                            /\ incidents'[k].group = incidents[k].group
                            /\ incidents'[k].seen = incidents[k].seen
                            /\ incidents'[k].status \in {incidents[k].status, "over"}
    BY <1>2, <1>3, Rows
  <1>5. ASSUME NEW s \in Sessions, NEW k \in Ids
        PROVE  /\ View(s, k) # NoRow <=> View(s, k)' # NoRow
               /\ View(s, k) # NoRow =>
                    /\ View(s, k)'.group = View(s, k).group
                    /\ View(s, k)'.seen = View(s, k).seen
                    /\ View(s, k)'.status \in {View(s, k).status, "over"}
    BY <1>1, <1>4 DEF View
  <1>6. \A g : \A s \in Sessions, k \in Ids : InGroup(s, k, g)' <=> InGroup(s, k, g)
    BY <1>5 DEF InGroup
  <1>7. \A s, g : Engaged(s, g)' <=> Engaged(s, g)
    BY <1>1 DEF Engaged, GroupOf
  <1>8. LocksExclusive' /\ Times'
    BY <1>1, <1>4 DEF IInv, LocksExclusive, Times
  <1>9. ASSUME NEW s \in Sessions
        PROVE  OwnRows(s)' /\ InHand(s)'
    <2>1. OwnRows(s) /\ InHand(s)
      BY DEF IInv
    <2>2. OwnRows(s)'
      BY <1>1, <1>4, <1>7, <2>1 DEF OwnRows
    <2>3. InHand(s)'
      BY <1>1, <1>6, <2>1 DEF InHand, GroupOf
    <2>4. QED
      BY <2>2, <2>3
  <1>10. ASSUME NEW g \in Groups \ disturbed'
         PROVE  Orderly(g)'
    <2>1. Orderly(g)
      BY <1>1 DEF IInv
    <2>2. Known(g)' = Known(g)
      BY <1>4 DEF Known
    <2>3. OneActive(g)'
      <3>1. ASSUME NEW p \in Known(g), incidents'[p].status = "active", NEW k \in Known(g) \ {p}
            PROVE  incidents'[k].status = "over" /\ incidents'[k].seen < incidents'[p].seen
        <4>1. p \in Ids /\ k \in Ids /\ incidents[p] # NoRow /\ incidents[k] # NoRow
          BY <3>1 DEF Known
        <4>2. incidents[p].status = "active"
          BY <1>4, <3>1, <4>1
        <4>3. incidents[k].status = "over" /\ incidents[k].seen < incidents[p].seen
          BY <2>1, <3>1, <4>2 DEF Orderly, OneActive
        <4>4. QED
          BY <1>4, <4>1, <4>3
      <3>2. QED
        BY <2>2, <3>1 DEF OneActive
    <2>4. Alone(g)'
      BY <1>7, <2>1 DEF Orderly, Alone
    <2>5. ASSUME NEW s \in Sessions, Engaged(s, g)'
          PROVE  Sees(s, g)'
      <3>1. Sees(s, g)
        BY <1>7, <2>1, <2>5 DEF Orderly
      <3>2. \A p, k \in Ids :
              InGroup(s, p, g)' /\ Active(s, p)' /\ k # p /\ InGroup(s, k, g)' =>
                View(s, k)'.status = "over" /\ View(s, k)'.seen < View(s, p)'.seen
        <4>1. ASSUME NEW p \in Ids, NEW k \in Ids, k # p,
                     InGroup(s, p, g), Active(s, p)', InGroup(s, k, g)
              PROVE  View(s, k)'.status = "over" /\ View(s, k)'.seen < View(s, p)'.seen
          <5>1. View(s, p) # NoRow /\ View(s, k) # NoRow
            BY <4>1 DEF InGroup
          <5>2. Active(s, p)
            BY <1>5, <4>1, <5>1 DEF Active
          <5>3. View(s, k).status = "over" /\ View(s, k).seen < View(s, p).seen
            BY <3>1, <4>1, <5>2 DEF Sees
          <5>4. QED
            BY <1>5, <5>1, <5>3
        <4>2. QED
          BY <1>6, <4>1
      <3>3. \A k \in Ids : View(s, k) # NoRow => View(s, k)'.seen = View(s, k).seen
        BY <1>5
      <3>4. \A k \in Ids : InGroup(s, k, g) /\ View(s, k).status = "over" =>
              View(s, k)'.status = "over"
        BY <1>5 DEF InGroup
      <3>5. \A a \in sessions[s].alert : GroupOf(a) = g =>
              /\ At(s, "lock") => \A p, k \in Ids :
                   p = sessions[s].inc /\ InGroup(s, k, g) => View(s, k)'.seen <= View(s, p)'.seen
              /\ At(s, "insert") /\ sessions[s].inc = NoIncident =>
                   \A k \in Ids : InGroup(s, k, g) =>
                     own[s][k] = NoRow /\ View(s, k)'.status = "over"
        <4>1. ASSUME NEW a \in sessions[s].alert, GroupOf(a) = g, At(s, "lock"),
                     NEW p \in Ids, NEW k \in Ids, p = sessions[s].inc, InGroup(s, k, g)
              PROVE  View(s, k)'.seen <= View(s, p)'.seen
          <5>1. InGroup(s, p, g)
            BY <4>1 DEF IInv, InHand, At
          <5>2. View(s, k).seen <= View(s, p).seen
            BY <3>1, <4>1 DEF Sees
          <5>3. QED
            BY <3>3, <4>1, <5>1, <5>2 DEF InGroup
        <4>2. ASSUME NEW a \in sessions[s].alert, GroupOf(a) = g, At(s, "insert"),
                     sessions[s].inc = NoIncident, NEW k \in Ids, InGroup(s, k, g)
              PROVE  own[s][k] = NoRow /\ View(s, k)'.status = "over"
          BY <3>1, <3>4, <4>2 DEF Sees
        <4>3. QED
          BY <4>1, <4>2
      <3>6. QED
        BY <1>1, <1>6, <3>1, <3>2, <3>5 DEF Sees, At, Wrote, GroupOf
    <2>6. QED
      BY <2>3, <2>4, <2>5 DEF Orderly
  <1>11. QED
    BY <1>8, <1>9, <1>10 DEF IInv

-----------------------------------------------------------------------------
(* The theorems.                                                           *)

\* At first a group has one incident at most.
LEMMA InitIInv == Init => IInv
  <1> SUFFICES ASSUME Init PROVE IInv
    OBVIOUS
  <1>1. \A s \in Sessions : /\ sessions[s] = Idle /\ inserted[s] = {}
                            /\ \A i \in Ids : own[s][i] = NoRow
    BY DEF Init
  <1>2. /\ incidents \in [Ids -> [group : Groups, status : {"active", "over"}, seen : {0}]
                                  \cup {NoRow}]
        /\ \A i, k \in Ids :
             /\ incidents[i] # NoRow /\ incidents[k] # NoRow
             /\ incidents[i].group = incidents[k].group
             => i = k
    BY StartsAssumption DEF Init, Earlier
  <1>3. \A g : \A s \in Sessions : ~Engaged(s, g)
    BY <1>1, IdleType DEF Engaged
  <1>4. TypeOK
    <2>1. Idle \in Session
      BY IdleType
    <2>2. incidents \in [Ids -> Row \cup {NoRow}]
      BY <1>2 DEF Row
    <2>3. /\ sessions \in [Sessions -> Session]
          /\ own \in [Sessions -> [Ids -> Row \cup {NoRow}]]
          /\ inserted \in [Sessions -> SUBSET Alerts]
      BY <2>1 DEF Init
    <2>4. clock \in Nat /\ touched \in [Groups -> Nat]
      BY DEF Init
    <2>5. posts \in 0 .. MaxPosts /\ faults \in 0 .. MaxFaults
      BY GroupAssumption, StartsAssumption DEF Init
    <2>6. about \in Scenario /\ stored \subseteq Alerts /\ disturbed \subseteq Groups
      BY StartsAssumption DEF Init
    <2>7. QED
      BY <1>1, <2>2, <2>3, <2>4, <2>5, <2>6 DEF TypeOK
  <1>5. LocksExclusive /\ Times
    <2>1. clock = 1 /\ \A g \in Groups : touched[g] = 1
      BY DEF Init
    <2>2. \A s \in Sessions : sessions[s].begun = 0
      BY <1>1, IdleType
    <2>3. \A i \in Ids : incidents[i] # NoRow =>
             incidents[i].group \in Groups /\ incidents[i].seen = 0
      BY <1>2
    <2>4. Times
      BY <2>1, <2>2, <2>3 DEF Times
    <2>5. QED
      BY <1>1, <2>4 DEF LocksExclusive
  <1>6. \A s \in Sessions : OwnRows(s) /\ InHand(s)
    BY <1>1, IdleType DEF OwnRows, InHand
  <1>7. \A g \in Groups : Orderly(g)
    BY <1>2, <1>3 DEF Orderly, OneActive, Known, Alone
  <1>8. QED
    BY <1>4, <1>5, <1>6, <1>7 DEF IInv

\* Every step keeps the invariant.
LEMMA NextIInv ==
    ASSUME IInv, [Next]_vars
    PROVE  IInv'
  <1>0. TypeOK /\ TypeOK'
    BY NextTypeOK DEF IInv
  <1>1. ASSUME NEW s \in Sessions, Duplicate(s) \/ BreakDeadlock(s) \/ Fail(s)
        PROVE  IInv'
    <2>1. sessions[s].todo \in SUBSET Alerts
      BY <1>0 DEF TypeOK, Session
    <2>2. \E todo \in SUBSET Alerts : Rollback(s, todo)
      BY <1>1, <2>1 DEF Duplicate, BreakDeadlock, Fail
    <2>3. QED
      BY <1>0, <2>2, RollbackIInv
  <1>2. ASSUME NEW s \in Sessions, Ingest(s)
        PROVE  IInv'
    BY <1>0, <1>1, <1>2, SelectIInv, LockIInv, InsertIInv, CommitIInv DEF Ingest
  <1>3. CASE UNCHANGED vars
    <2>1. /\ UNCHANGED <<about, incidents, clock, touched, disturbed>>
          /\ UNCHANGED <<sessions, own, inserted>>
      BY <1>3 DEF vars, tables, writes
    <2>2. \A s \in Sessions : Still(s)
      BY <2>1 DEF Still
    <2>3. LocksExclusive' /\ Times'
      BY <2>1 DEF IInv, LocksExclusive, Times
    <2>4. \A s \in Sessions : OwnRows(s)' /\ InHand(s)'
      BY <2>1, <2>2, StillSees DEF IInv
    <2>5. ASSUME NEW g \in Groups \ disturbed'
          PROVE  Orderly(g)'
      <3>1. Orderly(g) /\ touched'[g] = touched[g]
        BY <2>1 DEF IInv
      <3>2. OneActive(g)'
        BY <2>1, <3>1 DEF Orderly, OneActive, Known
      <3>3. \A s \in Sessions : Engaged(s, g)' <=> Engaged(s, g)
        BY <2>1, <2>2, StillSees
      <3>4. \A s \in Sessions : Sees(s, g) => Sees(s, g)'
        BY <2>1, <2>2, <3>1, StillSees
      <3>5. QED
        BY <3>1, <3>2, <3>3, <3>4 DEF Orderly, Alone
    <2>6. QED
      BY <1>0, <2>3, <2>4, <2>5 DEF IInv
  <1>4. QED
    BY <1>0, <1>1, <1>2, <1>3, BeginIInv, SettleIInv DEF Next

\* The inductive invariant: transactions that are alone with their groups, and
\* committed incidents that are older than they are.
THEOREM Invariance == Spec => []IInv
  <1>1. IInv /\ [Next]_vars => IInv'
    BY NextIInv
  <1>2. QED
    BY InitIInv, <1>1, PTL DEF Spec

\* Every variable of ingest_alert's tables and sessions keeps its shape.
THEOREM TypeCorrect == Spec => []TypeOK
  <1>1. IInv => TypeOK
    BY DEF IInv
  <1>2. QED
    BY Invariance, <1>1, PTL

\* A group whose ingestions do not overlap has one active incident at most, and
\* the next alert finds it, although neither a lock nor a constraint says so.
THEOREM OneActiveIncident == Spec => []OneActiveUnlessDisturbed
  <1>1. IInv => OneActiveUnlessDisturbed
    BY DEF IInv, Orderly, OneActive, OneActiveUnlessDisturbed
  <1>2. QED
    BY Invariance, <1>1, PTL
=============================================================================

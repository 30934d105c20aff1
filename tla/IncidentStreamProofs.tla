------------------------ MODULE IncidentStreamProofs ------------------------
(***************************************************************************)
(* Theorems about the event stream of an incident, for every number of     *)
(* transactions, keys, deletions and failures.                             *)
(***************************************************************************)
EXTENDS IncidentStream, WellFoundedInduction, TLAPS

-----------------------------------------------------------------------------
(* The largest sequence number.                                            *)

\* A bounded set of numbers has a largest one: the least distance to the bound.
LEMMA Largest ==
    ASSUME NEW S \in SUBSET Nat, S # {}, NEW bound \in Nat, \A n \in S : n <= bound
    PROVE  \E m \in S : \A n \in S : n <= m
    <1> DEFINE Less == {ss \in Nat \X Nat : ss[1] < ss[2]}
               Distances == {bound - n : n \in S}
    <1>1. IsWellFoundedOn(Less, Nat)
        BY NatLessThanWellFounded DEF OpToRel
    <1>2. Distances \subseteq Nat /\ Distances # {}
        <2>1. \A n \in S : bound - n \in Nat
            OBVIOUS
        <2> QED BY <2>1
    <1>3. \A d, e \in Nat : d < e => <<d, e>> \in Less
        OBVIOUS
    <1> HIDE DEF Less, Distances
    <1>4. PICK d \in Distances : \A e \in Distances : ~(<<e, d>> \in Less)
        BY <1>1, <1>2, WFMin
    <1>5. PICK m \in S : d = bound - m
        BY DEF Distances
    <1>6. \A n \in S : bound - n \in Distances /\ bound - n \in Nat
        BY <1>2 DEF Distances
    <1>7. \A n \in S : ~(bound - n < bound - m)
        BY <1>2, <1>3, <1>4, <1>5, <1>6
    <1> QED BY <1>7

\* All numbers of a set of events are at most n.
UpTo(events, n) == \A e \in events : e.seq <= n

\* MaxSequence is what its name says, for a set of events with a bound.
LEMMA MaxIs ==
    ASSUME NEW events \in SUBSET Event, NEW bound \in Nat, UpTo(events, bound)
    PROVE  /\ MaxSequence(events) \in Nat
           /\ UpTo(events, MaxSequence(events))
           /\ events # {} => \E e \in events : e.seq = MaxSequence(events)
    <1>1. \A e \in events : e.seq \in Nat /\ e.seq <= bound
        BY DEF Event, UpTo
    <1>2. CASE events = {}
        BY <1>2 DEF MaxSequence, UpTo
    <1>3. CASE events # {}
        <2> DEFINE numbers == {e.seq : e \in events}
        <2>1. numbers \in SUBSET Nat /\ numbers # {} /\ \A n \in numbers : n <= bound
            BY <1>1, <1>3
        <2>2. \E m \in numbers : \A n \in numbers : n <= m
            BY <2>1, Largest
        <2>3. \E m \in numbers : \A e \in events : e.seq <= m
            BY <2>2
        <2>4. MaxSequence(events) = CHOOSE n \in numbers : \A e \in events : e.seq <= n
            BY <1>3 DEF MaxSequence
        <2>5. MaxSequence(events) \in numbers /\ \A e \in events : e.seq <= MaxSequence(events)
            BY <2>3, <2>4
        <2> QED BY <1>1, <2>5 DEF UpTo
    <1> QED BY <1>2, <1>3

\* A number that is reached and not passed is the largest.
LEMMA MaxReached ==
    ASSUME NEW events \in SUBSET Event, NEW e \in events, UpTo(events, e.seq)
    PROVE  MaxSequence(events) = e.seq
    <1>1. e.seq \in Nat
        BY DEF Event
    <1>2. PICK f \in events : f.seq = MaxSequence(events)
        BY <1>1, MaxIs
    <1>3. e.seq <= MaxSequence(events) /\ MaxSequence(events) \in Nat
        BY <1>1, MaxIs DEF UpTo
    <1>4. MaxSequence(events) <= e.seq
        BY <1>2 DEF UpTo
    <1> QED BY <1>1, <1>3, <1>4

-----------------------------------------------------------------------------
(* The inductive invariant.                                                *)

Writing(t) == txns[t].pc \in {"read", "appended"}

\* Only a transaction that has read the incident holds a lock.
HeldByWriters ==
    /\ rowLock # NoTxn => Writing(rowLock)
    /\ streamLock # NoTxn => Writing(streamLock)

LogBounded == \E n \in Nat : UpTo(log, n)

\* What is about to be committed: events of its transaction, which set the status that it
\* wants, carry its key and come while that key is free.
PendingOK ==
    \A t \in Txns :
        /\ \E n \in Nat : UpTo(pending[t], n)
        /\ \A e \in pending[t] : e.by = t
        /\ \A e \in StatusEvents(pending[t]) : e.to = txns[t].target
        /\ pending[t] # {} => /\ ~KeyTaken(txns[t].key)
                              /\ \E e \in pending[t] : e.key = txns[t].key

\* What is in the log comes from transactions that are over, and has taken their keys.
LogOK ==
    /\ \A e \in log : e.by # NoTxn => txns[e.by].pc = "done"
    /\ deletes = 0 =>
         \A e \in log : e.by # NoTxn /\ txns[e.by].key # NoKey => KeyTaken(txns[e.by].key)

\* What a transaction wants is allowed from what it has read.
WishesAllowed ==
    \A t \in Txns : Writing(t) /\ txns[t].target # txns[t].seen
                    => Forward(txns[t].seen, txns[t].target)

\* The numbers that come after the last one, and a key that is used once.
Numbered(events, last) ==
    \E k \in {1, 2} : {e.seq : e \in events} = last + 1 .. last + k
KeyedOnce(events, key) ==
    \A e \in events : e.key # NoKey => /\ e.key = key
                                      /\ \A f \in events : f.key = e.key => f = e

\* What is about to be committed continues the log as it is now.
PendingNext ==
    \A t \in Txns : pending[t] # {} => /\ Numbered(pending[t], MaxSequence(log))
                                       /\ KeyedOnce(pending[t], txns[t].key)

IInv == /\ TypeOK /\ HeldByWriters
        /\ LogBounded /\ SequenceNumbersUnique
        /\ PendingOK /\ LogOK /\ KeyUsedOnce
        /\ RowIsProjection
        /\ WishesAllowed

-----------------------------------------------------------------------------
(* Lemmas about the state.                                                 *)

\* A transaction is a record of its own shape.
LEMMA TxnShape ==
    ASSUME TypeOK, NEW t \in Txns
    PROVE  /\ txns[t] \in Txn /\ txns[t].key \in Keys \cup {NoKey} /\ txns[t].kind \in AllKinds
           /\ txns[t].seen \in Status /\ txns[t].target \in Status
           /\ pending[t] \in SUBSET Event
    BY DEF TypeOK, Txn

\* Only the holder of the stream has events that are not committed.
LEMMA OneWriter ==
    ASSUME TypeOK, NEW t \in Txns, NEW u \in Txns, pending[t] # {}, pending[u] # {}
    PROVE  t = u
    BY DEF TypeOK

\* MaxSequence of the log is a bound of it.
LEMMA LogMax ==
    ASSUME TypeOK, LogBounded
    PROVE  MaxSequence(log) \in Nat /\ UpTo(log, MaxSequence(log))
    BY MaxIs DEF TypeOK, LogBounded

\* Where an event gets its number, its author and its status from.
LEMMA NewEventShape ==
    ASSUME TypeOK, LogBounded, NEW t \in Txns, NEW n \in {1, 2},
           NEW type \in {"opened", "attached", "status", "resolved", "note"},
           NEW key \in Keys \cup {NoKey}
    PROVE  LET e == NewEvent(t, n, type, key) IN
           /\ e \in Event
           /\ e.seq = MaxSequence(log) + n /\ e.by = t /\ e.key = key /\ e.type = type
           /\ type \in {"status", "resolved"} => e.to = txns[t].target
    <1>1. MaxSequence(log) + n \in Nat \ {0}
        BY LogMax
    <1> QED BY <1>1, TxnShape DEF NewEvent, Event

\* The events of a transaction: one or two, in a row behind the log, with its key.
LEMMA EventsOfShape ==
    ASSUME TypeOK, LogBounded, NEW t \in Txns, NEW review \in BOOLEAN
    PROVE  LET events == EventsOf(t, review)
               last == MaxSequence(log)
           IN /\ events \in SUBSET Event /\ events # {}
              /\ \A e \in events : e.by = t /\ e.seq \in {last + 1, last + 2}
              /\ \A e, f \in events : e.seq = f.seq => e = f
              /\ \A e \in StatusEvents(events) : e.to = txns[t].target
              /\ \E e \in events : e.key = txns[t].key
              /\ Numbered(events, last) /\ KeyedOnce(events, txns[t].key)
    <1> DEFINE E(n, type, key) == NewEvent(t, n, type, key)
               k == txns[t].key
               last == MaxSequence(log)
               types == {"opened", "attached", "status", "resolved", "note"}
               Fine(e, n, key) == /\ e \in Event /\ e.by = t /\ e.seq = last + n /\ e.key = key
                                  /\ e.type \in {"status", "resolved"} => e.to = txns[t].target
               One(events) == \E e \in Event : events = {e} /\ Fine(e, 1, k)
               Two(events) == \E e, f \in Event, c, d \in Keys \cup {NoKey} :
                                /\ events = {e, f} /\ Fine(e, 1, c) /\ Fine(f, 2, d)
                                /\ (c = k /\ d = NoKey) \/ (c = NoKey /\ d = k)
    <1>1. k \in Keys \cup {NoKey} /\ last \in Nat
        BY TxnShape, LogMax
    <1>2. \A n \in {1, 2}, type \in types, key \in Keys \cup {NoKey} : Fine(E(n, type, key), n, key)
        BY NewEventShape
    <1> HIDE DEF E, k, last
    <1>3. One(EventsOf(t, review)) \/ Two(EventsOf(t, review))
        <2>1. CASE \E type \in types : EventsOf(t, review) = {E(1, type, k)}
            <3>1. PICK type \in types : EventsOf(t, review) = {E(1, type, k)}
                BY <2>1
            <3>2. Fine(E(1, type, k), 1, k)
                BY <1>1, <1>2
            <3> QED BY <3>1, <3>2
        <2>2. CASE \E u, v \in types, c, d \in Keys \cup {NoKey} :
                      /\ (c = k /\ d = NoKey) \/ (c = NoKey /\ d = k)
                      /\ EventsOf(t, review) = {E(1, u, c), E(2, v, d)}
            <3>1. PICK u, v \in types, c, d \in Keys \cup {NoKey} :
                      /\ (c = k /\ d = NoKey) \/ (c = NoKey /\ d = k)
                      /\ EventsOf(t, review) = {E(1, u, c), E(2, v, d)}
                BY <2>2
            <3>2. Fine(E(1, u, c), 1, c) /\ Fine(E(2, v, d), 2, d)
                BY <1>2
            <3> QED BY <3>1, <3>2
        <2>3. \/ \E type \in {"attached", "note"} : EventsOf(t, review) = {E(1, type, k)}
              \/ EventsOf(t, review) = {E(1, "attached", k), E(2, "resolved", NoKey)}
              \/ EventsOf(t, review) = {E(1, "status", k), E(2, "note", NoKey)}
              \/ EventsOf(t, review) = {E(1, "status", NoKey), E(2, "note", k)}
              \/ EventsOf(t, review) = {E(1, "note", NoKey), E(2, "note", k)}
            BY DEF EventsOf, E, k
        <2> QED BY <1>1, <2>1, <2>2, <2>3
    <1>4. CASE One(EventsOf(t, review))
        <2>1. PICK e \in Event : EventsOf(t, review) = {e} /\ Fine(e, 1, k)
            BY <1>4
        <2>2. Numbered({e}, last)
            <3>1. {x.seq : x \in {e}} = last + 1 .. last + 1
                BY <1>1, <2>1
            <3> QED BY <3>1 DEF Numbered
        <2>3. KeyedOnce({e}, k)
            BY <2>1 DEF KeyedOnce
        <2> QED BY <2>1, <2>2, <2>3 DEF StatusEvents, k, last
    <1>5. CASE Two(EventsOf(t, review))
        <2>1. PICK e, f \in Event, c, d \in Keys \cup {NoKey} :
                  /\ EventsOf(t, review) = {e, f} /\ Fine(e, 1, c) /\ Fine(f, 2, d)
                  /\ (c = k /\ d = NoKey) \/ (c = NoKey /\ d = k)
            BY <1>5
        <2>2. e.seq # f.seq
            BY <1>1, <2>1
        <2>3. Numbered({e, f}, last)
            <3>1. {x.seq : x \in {e, f}} = {last + 1, last + 2}
                BY <2>1
            <3>2. last + 1 .. last + 2 = {last + 1, last + 2}
                BY <1>1
            <3> QED BY <3>1, <3>2 DEF Numbered
        <2>4. KeyedOnce({e, f}, k)
            BY <2>1 DEF KeyedOnce
        <2> QED BY <2>1, <2>2, <2>3, <2>4 DEF StatusEvents, k, last
    <1> QED BY <1>3, <1>4, <1>5

-----------------------------------------------------------------------------
(* The invariant holds at the start, and every step keeps it.              *)

LEMMA InitOK == Init => IInv
    <1> SUFFICES ASSUME Init PROVE IInv
        OBVIOUS
    <1> USE StreamAssumption DEF Init
    <1>1. /\ Opening \in SUBSET Event
          /\ \A e, f \in Opening : e.seq = f.seq => e = f
          /\ \A e \in Opening : e.by = NoTxn
          /\ Projected(Opening) = Opening /\ StatusEvents(Opening) = {}
        BY DEF Opening, Event, Status, Projected, StatusEvents
    <1>2. MaxSequence(Opening) = 2 /\ UpTo(Opening, 2)
        <2> DEFINE e == [seq |-> 2, type |-> "attached", from |-> "open", to |-> "open",
                         key |-> NoKey, by |-> NoTxn]
        <2>1. e \in Opening /\ UpTo(Opening, 2) /\ e.seq = 2
            BY DEF Opening, UpTo
        <2> HIDE DEF e
        <2> QED BY <1>1, <2>1, MaxReached
    <1>3. \A t \in Txns : txns[t] = [pc |-> "new", kind |-> "report", key |-> NoKey,
                                     seen |-> "open", target |-> "open"]
                          /\ pending[t] = {}
        OBVIOUS
    <1>4. TypeOK
        <2>1. txns \in [Txns -> Txn]
            BY DEF Txn, AllKinds, Status
        <2>2. row \in [status : Status, version : Nat]
            BY DEF Status
        <2>3. pending \in [Txns -> SUBSET Event]
            OBVIOUS
        <2>4. deletes \in 0 .. MaxDeletes /\ faults \in 0 .. MaxFaults
            BY DEF StreamAssumption
        <2> QED BY <1>1, <1>3, <2>1, <2>2, <2>3, <2>4 DEF TypeOK
    <1>5. HeldByWriters /\ WishesAllowed
        BY <1>3 DEF HeldByWriters, WishesAllowed, Writing
    <1>6. LogBounded
        BY <1>2 DEF LogBounded
    <1>7. SequenceNumbersUnique
        BY <1>1, <1>3 DEF SequenceNumbersUnique
    <1>8. PendingOK
        <2>1. \A n \in Nat : UpTo({}, n)
            BY DEF UpTo
        <2> QED BY <1>3, <2>1 DEF PendingOK, StatusEvents
    <1>9. LogOK /\ KeyUsedOnce
        BY <1>1 DEF LogOK, KeyUsedOnce
    <1>10. RowIsProjection
        BY <1>1, <1>2 DEF RowIsProjection, StatusFromLog
    <1> QED BY <1>4, <1>5, <1>6, <1>7, <1>8, <1>9, <1>10 DEF IInv

\* Steps that write nothing: a request begins, reads or takes a lock.
LEMMA QuietKeeps ==
    ASSUME IInv, TypeOK', HeldByWriters', WishesAllowed',
           NEW t \in Txns, txns[t].pc \notin {"appended", "done"},
           \A u \in Txns : u # t => txns'[u] = txns[u],
           UNCHANGED <<store, pending, bounds>>
    PROVE  IInv'
    <1> USE DEF IInv, store, bounds
    <1>1. \A u \in Txns : pending[u] # {} => txns'[u] = txns[u]
        BY DEF TypeOK, At
    <1>2. \A e \in log : e.by # NoTxn => txns'[e.by] = txns[e.by]
        BY DEF LogOK, TypeOK, Event
    <1>3. LogBounded' /\ SequenceNumbersUnique' /\ RowIsProjection'
        BY DEF LogBounded, SequenceNumbersUnique, RowIsProjection, StatusFromLog
    <1>4. PendingOK'
        <2>1. \A u \in Txns : \A e \in StatusEvents(pending[u]) : pending[u] # {}
            BY DEF StatusEvents
        <2> QED BY <1>1, <2>1 DEF PendingOK, KeyTaken
    <1>5. LogOK'
        BY <1>2 DEF LogOK, KeyTaken
    <1>6. KeyUsedOnce'
        BY <1>2 DEF KeyUsedOnce
    <1> QED BY <1>3, <1>4, <1>5, <1>6

\* A request arrives.
LEMMA BeginKeeps ==
    ASSUME IInv, NEW t \in Txns, NEW kind \in Kinds, NEW key \in Keys \cup {NoKey},
           Begin(t, kind, key)
    PROVE  IInv'
    <1> USE DEF IInv, Begin, store, locks, bounds
    <1> DEFINE pc == IF KeyTaken(key) /\ kind \notin {"firing", "resolved"} THEN "done" ELSE "begun"
    <1>1. /\ txns' = [txns EXCEPT ![t] = [pc |-> pc, kind |-> kind, key |-> key,
                                         seen |-> "open", target |-> "open"]]
          /\ pc \in {"begun", "done"} /\ txns[t].pc = "new"
        BY DEF At
    <1> HIDE DEF pc
    <1>2. txns' \in [Txns -> Txn] /\ \A u \in Txns : u # t => txns'[u] = txns[u]
        BY <1>1, StreamAssumption DEF TypeOK, Txn, Status, StreamAssumption
    <1>3. HeldByWriters'
        BY <1>1, <1>2, StreamAssumption DEF HeldByWriters, Writing, StreamAssumption, TypeOK, OpenTxns
    <1>4. TypeOK'
        BY <1>1, <1>2, <1>3, StreamAssumption
        DEF TypeOK, HeldByWriters, Writing, OpenTxns, At
    <1>5. WishesAllowed'
        BY <1>1, <1>2 DEF WishesAllowed, Writing, TypeOK
    <1> QED BY <1>1, <1>2, <1>3, <1>4, <1>5, QuietKeeps

\* A transaction reads the incident and decides.
LEMMA ReadKeeps ==
    ASSUME IInv, NEW t \in Txns, NEW target \in Status, ReadIncident(t, target)
    PROVE  IInv'
    <1> USE DEF IInv, store, locks, bounds
    <1> DEFINE current == row.status
               kind == txns[t].kind
               pc == IF kind # "change" THEN "read"
                     ELSE IF target = current THEN "done"
                     ELSE IF CanTransition(current, target) THEN "read" ELSE "aborted"
    <1>1. /\ txns' = [txns EXCEPT ![t] = [@ EXCEPT !.pc = pc, !.seen = current, !.target = target]]
          /\ pc \in {"read", "done", "aborted"} /\ txns[t].pc = "begun"
          /\ MayWant(kind, current, target)
          /\ UNCHANGED <<store, pending, locks, bounds>>
        BY DEF ReadIncident, At
    <1>2. current \in Status /\ kind \in AllKinds
        BY TxnShape DEF TypeOK
    <1>3. pc = "read" /\ target # current => Forward(current, target)
        <2>1. CASE kind \in {"change", "analyze"}
            BY <1>1, <2>1 DEF MayWant, CanTransition, Forward
        <2>2. CASE kind = "resolved"
            BY <1>1, <2>2 DEF MayWant, Forward, Over
        <2>3. CASE kind \in {"firing", "report"}
            BY <1>1, <2>3 DEF MayWant
        <2> QED BY <1>2, <2>1, <2>2, <2>3 DEF AllKinds
    <1> HIDE DEF current, kind, pc
    <1>4. txns' \in [Txns -> Txn] /\ \A u \in Txns : u # t => txns'[u] = txns[u]
        BY <1>1, <1>2 DEF TypeOK, Txn
    <1>5. txns'[t].pc = pc /\ txns'[t].seen = current /\ txns'[t].target = target
        BY <1>1 DEF TypeOK, Txn
    <1>6. HeldByWriters'
        BY <1>1, <1>4 DEF HeldByWriters, Writing, TypeOK, OpenTxns
    <1>7. TypeOK'
        BY <1>1, <1>4, <1>6, StreamAssumption
        DEF TypeOK, HeldByWriters, Writing, OpenTxns, At
    <1>8. WishesAllowed'
        <2>1. Writing(t)' /\ target # current => Forward(current, target)
            BY <1>1, <1>3, <1>5 DEF Writing
        <2>2. \A u \in Txns : u # t => txns'[u] = txns[u]
            BY <1>4
        <2> QED BY <1>5, <2>1, <2>2 DEF WishesAllowed, Writing
    <1> QED BY <1>1, <1>4, <1>6, <1>7, <1>8, QuietKeeps

\* A transaction that has read the incident takes the row, or the stream.
LEMMA LockKeeps ==
    ASSUME IInv, NEW t \in Txns, LockRow(t) \/ LockStream(t)
    PROVE  IInv'
    <1> USE DEF IInv, store, locks, bounds
    <1>1. /\ txns[t].pc = "read" /\ UNCHANGED <<store, txns, pending, bounds>>
          /\ \/ rowLock' = t /\ UNCHANGED streamLock
             \/ streamLock' = t /\ UNCHANGED rowLock /\ streamLock = NoTxn
        BY DEF LockRow, LockStream, At
    <1>2. HeldByWriters'
        BY <1>1 DEF HeldByWriters, Writing
    <1>3. TypeOK'
        BY <1>1, StreamAssumption DEF TypeOK, OpenTxns, At, StreamAssumption
    <1>4. WishesAllowed'
        BY <1>1 DEF WishesAllowed, Writing
    <1> QED BY <1>1, <1>2, <1>3, <1>4, QuietKeeps

\* The holder of the stream inserts its events behind the log.
LEMMA AppendKeeps ==
    ASSUME IInv, NEW t \in Txns, NEW review \in BOOLEAN, Append(t, review)
    PROVE  IInv'
    <1> USE DEF IInv, store, locks, bounds
    <1> DEFINE events == EventsOf(t, review)
               last == MaxSequence(log)
    <1>1. /\ txns[t].pc = "read" /\ streamLock = t /\ ~KeyTaken(txns[t].key)
          /\ txns' = [txns EXCEPT ![t].pc = "appended"]
          /\ pending' = [pending EXCEPT ![t] = events]
          /\ UNCHANGED <<store, locks, bounds>>
        BY DEF Append, Locked, At
    <1>2. /\ events \in SUBSET Event /\ events # {}
          /\ \A e \in events : e.by = t /\ e.seq \in {last + 1, last + 2}
          /\ \A e, f \in events : e.seq = f.seq => e = f
          /\ \A e \in StatusEvents(events) : e.to = txns[t].target
          /\ \E e \in events : e.key = txns[t].key
        BY EventsOfShape
    <1>3. last \in Nat /\ UpTo(log, last)
        BY LogMax
    <1> HIDE DEF events, last
    <1>4. /\ txns' \in [Txns -> Txn]
          /\ \A u \in Txns : /\ u # t => txns'[u] = txns[u]
                             /\ txns'[u].key = txns[u].key
                             /\ txns'[u].seen = txns[u].seen
                             /\ txns'[u].target = txns[u].target
          /\ txns'[t].pc = "appended"
        BY <1>1 DEF TypeOK, Txn
    <1>5. /\ pending' \in [Txns -> SUBSET Event]
          /\ pending'[t] = events
          /\ \A u \in Txns : u # t => pending[u] = {} /\ pending'[u] = {}
        BY <1>1, <1>2 DEF TypeOK
    <1>6. HeldByWriters'
        BY <1>1, <1>4 DEF HeldByWriters, Writing, TypeOK, OpenTxns
    <1>7. TypeOK'
        BY <1>1, <1>4, <1>5, <1>6, StreamAssumption
        DEF TypeOK, HeldByWriters, Writing, OpenTxns, At
    <1>8. LogBounded' /\ RowIsProjection'
        BY <1>1 DEF LogBounded, RowIsProjection, StatusFromLog
    <1>9. SequenceNumbersUnique'
        <2>1. \A e \in events, f \in log : e.seq \in Nat /\ f.seq \in Nat /\ f.seq < e.seq
            BY <1>2, <1>3 DEF UpTo, TypeOK, Event
        <2>2. \A e, f \in log : e.seq = f.seq => e = f
            BY DEF SequenceNumbersUnique
        <2>3. \A u \in Txns : \A e \in pending'[u] : u = t /\ e \in events
            BY <1>5
        <2> QED BY <1>1, <1>2, <2>1, <2>2, <2>3 DEF SequenceNumbersUnique
    <1>10. PendingOK'
        <2>1. UpTo(events, last + 2) /\ last + 2 \in Nat
            BY <1>2, <1>3 DEF UpTo
        <2>2. \A n \in Nat : UpTo({}, n)
            BY DEF UpTo
        <2>3. StatusEvents({}) = {}
            BY DEF StatusEvents
        <2>4. ~KeyTaken(txns[t].key)'
            BY <1>1, <1>4 DEF KeyTaken
        <2>5. \A u \in Txns : \E n \in Nat : UpTo(pending'[u], n)
            BY <1>5, <2>1, <2>2
        <2>6. \A u \in Txns : \A e \in StatusEvents(pending'[u]) : e.to = txns'[u].target
            BY <1>2, <1>4, <1>5, <2>3
        <2> QED BY <1>2, <1>4, <1>5, <2>4, <2>5, <2>6 DEF PendingOK
    <1>11. \A e \in log : e.by # NoTxn => txns'[e.by] = txns[e.by]
        BY <1>1, <1>4 DEF LogOK, TypeOK, Event
    <1>12. LogOK'
        BY <1>1, <1>11 DEF LogOK, KeyTaken
    <1>13. KeyUsedOnce'
        BY <1>1, <1>11 DEF KeyUsedOnce
    <1>14. WishesAllowed'
        <2>1. Writing(t)
            BY <1>1 DEF Writing
        <2> QED BY <1>4, <2>1 DEF WishesAllowed, Writing
    <1> QED BY <1>6, <1>7, <1>8, <1>9, <1>10, <1>12, <1>13, <1>14

\* What the end of a transaction does to the transactions and the locks.
LEMMA EndShape ==
    ASSUME IInv, NEW t \in Txns, t \in OpenTxns, NEW pc \in {"done", "aborted"}, End(t, pc)
    PROVE  /\ txns' \in [Txns -> Txn] /\ txns'[t].pc = pc
           /\ \A u \in Txns : /\ u # t => txns'[u] = txns[u]
                              /\ txns'[u].key = txns[u].key
           /\ pending' \in [Txns -> SUBSET Event] /\ pending'[t] = {}
           /\ \A u \in Txns : u # t => pending'[u] = pending[u]
           /\ rowLock' \in OpenTxns' \cup {NoTxn} /\ streamLock' \in OpenTxns' \cup {NoTxn}
           /\ \A u \in Txns : pending'[u] # {} => At(u, "appended")' /\ streamLock' = u
           /\ HeldByWriters' /\ WishesAllowed'
    <1> USE DEF IInv, End
    <1>1. /\ txns' \in [Txns -> Txn] /\ txns'[t].pc = pc
          /\ \A u \in Txns : /\ u # t => txns'[u] = txns[u]
                             /\ txns'[u].key = txns[u].key
        BY DEF TypeOK, Txn
    <1>2. /\ pending' \in [Txns -> SUBSET Event] /\ pending'[t] = {}
          /\ \A u \in Txns : u # t => pending'[u] = pending[u]
        BY DEF TypeOK
    <1>3. /\ rowLock' # t /\ (rowLock' = rowLock \/ rowLock' = NoTxn)
          /\ streamLock' # t /\ (streamLock' = streamLock \/ streamLock' = NoTxn)
          /\ streamLock # t => streamLock' = streamLock
        BY StreamAssumption DEF Release, StreamAssumption
    <1>4. \A u \in OpenTxns : u # t => u \in OpenTxns'
        BY <1>1 DEF OpenTxns
    <1>5. rowLock' \in OpenTxns' \cup {NoTxn} /\ streamLock' \in OpenTxns' \cup {NoTxn}
        BY <1>3, <1>4 DEF TypeOK
    <1>6. \A u \in Txns : pending'[u] # {} => At(u, "appended")' /\ streamLock' = u
        BY <1>1, <1>2, <1>3 DEF TypeOK, At
    <1>7. HeldByWriters'
        BY <1>1, <1>3 DEF HeldByWriters, Writing, TypeOK, OpenTxns
    <1>8. WishesAllowed'
        BY <1>1 DEF WishesAllowed, Writing
    <1> QED BY <1>1, <1>2, <1>5, <1>6, <1>7, <1>8

\* A transaction that is rolled back leaves nothing behind.
LEMMA AbortKeeps ==
    ASSUME IInv, NEW t \in Txns, t \in OpenTxns, End(t, "aborted"),
           UNCHANGED <<store, deletes>>, faults' \in 0 .. MaxFaults
    PROVE  IInv'
    <1> USE DEF IInv, store
    <1>1. /\ txns' \in [Txns -> Txn]
          /\ \A u \in Txns : /\ u # t => txns'[u] = txns[u]
                             /\ txns'[u].key = txns[u].key
          /\ pending' \in [Txns -> SUBSET Event] /\ pending'[t] = {}
          /\ \A u \in Txns : u # t => pending'[u] = pending[u]
          /\ rowLock' \in OpenTxns' \cup {NoTxn} /\ streamLock' \in OpenTxns' \cup {NoTxn}
          /\ \A u \in Txns : pending'[u] # {} => At(u, "appended")' /\ streamLock' = u
          /\ HeldByWriters' /\ WishesAllowed'
        BY EndShape
    <1>2. TypeOK'
        BY <1>1 DEF TypeOK
    <1>3. LogBounded' /\ RowIsProjection'
        BY DEF LogBounded, RowIsProjection, StatusFromLog
    <1>4. \A u \in Txns : pending'[u] \subseteq pending[u]
        BY <1>1
    <1>5. SequenceNumbersUnique'
        BY <1>4 DEF SequenceNumbersUnique
    <1>6. PendingOK'
        <2>1. ASSUME NEW u \in Txns
              PROVE  /\ \E n \in Nat : UpTo(pending'[u], n)
                     /\ \A e \in pending'[u] : e.by = u
                     /\ \A e \in StatusEvents(pending'[u]) : e.to = txns'[u].target
                     /\ pending'[u] # {} => /\ ~KeyTaken(txns[u].key)'
                                            /\ \E e \in pending'[u] : e.key = txns'[u].key
            <3>1. CASE u = t
                BY <1>1, <3>1 DEF UpTo, StatusEvents
            <3>2. CASE u # t
                BY <1>1, <3>2 DEF PendingOK, KeyTaken
            <3> QED BY <3>1, <3>2
        <2> QED BY <2>1 DEF PendingOK
    <1>7. \A e \in log : e.by # NoTxn => txns'[e.by] = txns[e.by]
        BY <1>1 DEF LogOK, TypeOK, Event, OpenTxns
    <1>8. LogOK'
        BY <1>7 DEF LogOK, KeyTaken
    <1>9. KeyUsedOnce'
        BY <1>7 DEF KeyUsedOnce
    <1> QED BY <1>1, <1>2, <1>3, <1>5, <1>6, <1>8, <1>9

\* The largest number of a log that events are put behind: theirs, if there are any.
LEMMA MaxBehind ==
    ASSUME NEW old \in SUBSET Event, NEW new \in SUBSET Event,
           NEW bound \in Nat, UpTo(new, bound),
           \A e \in new, f \in old : f.seq < e.seq
    PROVE  new # {} => /\ MaxSequence(old \cup new) = MaxSequence(new)
                       /\ \A e \in old : e.seq # MaxSequence(old \cup new)
    <1> SUFFICES ASSUME new # {}
                 PROVE  /\ MaxSequence(old \cup new) = MaxSequence(new)
                        /\ \A e \in old : e.seq # MaxSequence(old \cup new)
        OBVIOUS
    <1>1. PICK e \in new : e.seq = MaxSequence(new)
        BY MaxIs
    <1>2. UpTo(new, e.seq)
        BY <1>1, MaxIs
    <1>3. UpTo(old \cup new, e.seq)
        <2>1. \A f \in old : f.seq \in Nat /\ e.seq \in Nat /\ f.seq < e.seq
            BY DEF Event
        <2> QED BY <1>2, <2>1 DEF UpTo
    <1>4. MaxSequence(old \cup new) = e.seq
        BY <1>3, MaxReached
    <1>5. \A f \in old : f.seq # e.seq
        BY DEF Event
    <1> QED BY <1>1, <1>4, <1>5

\* A commit: its events become the end of the log, and the row follows them.
LEMMA CommitKeeps ==
    ASSUME IInv, NEW t \in Txns, Commit(t)
    PROVE  IInv'
    <1> USE DEF IInv, bounds
    <1> DEFINE events == pending[t]
    <1>1. /\ txns[t].pc = "appended" /\ t \in OpenTxns /\ End(t, "done")
          /\ row' = Written(t) /\ log' = log \cup events
          /\ UNCHANGED <<deletes, faults>>
        BY DEF Commit, At, OpenTxns
    <1>2. /\ txns' \in [Txns -> Txn] /\ txns'[t].pc = "done"
          /\ \A u \in Txns : /\ u # t => txns'[u] = txns[u]
                             /\ txns'[u].key = txns[u].key
          /\ pending' \in [Txns -> SUBSET Event] /\ pending'[t] = {}
          /\ \A u \in Txns : u # t => pending'[u] = pending[u]
          /\ rowLock' \in OpenTxns' \cup {NoTxn} /\ streamLock' \in OpenTxns' \cup {NoTxn}
          /\ \A u \in Txns : pending'[u] # {} => At(u, "appended")' /\ streamLock' = u
          /\ HeldByWriters' /\ WishesAllowed'
        BY <1>1, EndShape
    <1>3. events \in SUBSET Event /\ log \in SUBSET Event
        BY DEF TypeOK
    <1>4. /\ \A e \in events, f \in log : f.seq < e.seq
          /\ \A e \in events : e.by = t
          /\ \A e \in StatusEvents(events) : e.to = txns[t].target
          /\ events # {} => ~KeyTaken(txns[t].key) /\ \E e \in events : e.key = txns[t].key
        BY DEF SequenceNumbersUnique, PendingOK
    <1>5. PICK bound \in Nat : UpTo(events, bound)
        BY DEF PendingOK
    <1>6. events # {} => \A u \in Txns : pending'[u] = {}
        BY <1>2, OneWriter
    <1>7. \A u \in Txns : pending'[u] \subseteq pending[u]
        BY <1>2
    <1> HIDE DEF events
    <1>8. TypeOK'
        <2>1. MaxSequence(Projected(events)) \in Nat
            <3>1. Projected(events) \in SUBSET Event /\ UpTo(Projected(events), bound)
                BY <1>3, <1>5 DEF Projected, UpTo
            <3> QED BY <3>1, MaxIs
        <2>2. row' \in [status : Status, version : Nat]
            BY <1>1, <2>1, TxnShape DEF Written, TypeOK, events
        <2> QED BY <1>1, <1>2, <1>3, <2>2 DEF TypeOK
    <1>9. LogBounded'
        <2>1. PICK n \in Nat : UpTo(log, n)
            BY DEF LogBounded
        <2>2. PICK m \in Nat : m >= n /\ m >= bound
            <3>1. CASE n >= bound BY <3>1
            <3>2. CASE n < bound BY <3>2
            <3> QED BY <3>1, <3>2
        <2>3. UpTo(log', m)
            <3>1. \A e \in log : e.seq \in Nat /\ e.seq <= n
                BY <1>3, <2>1 DEF UpTo, Event
            <3>2. \A e \in events : e.seq \in Nat /\ e.seq <= bound
                BY <1>3, <1>5 DEF UpTo, Event
            <3> QED BY <1>1, <2>2, <3>1, <3>2 DEF UpTo
        <2> QED BY <2>2, <2>3 DEF LogBounded
    <1>10. SequenceNumbersUnique'
        <2>1. \A e, f \in log \cup events : e.seq = f.seq => e = f
            BY DEF SequenceNumbersUnique, events
        <2>2. CASE events = {}
            BY <1>1, <1>7, <2>2 DEF SequenceNumbersUnique
        <2>3. CASE events # {}
            BY <1>1, <1>6, <2>1, <2>3 DEF SequenceNumbersUnique
        <2> QED BY <2>2, <2>3
    <1>11. PendingOK'
        <2>1. ASSUME NEW u \in Txns
              PROVE  /\ \E n \in Nat : UpTo(pending'[u], n)
                     /\ \A e \in pending'[u] : e.by = u
                     /\ \A e \in StatusEvents(pending'[u]) : e.to = txns'[u].target
                     /\ pending'[u] # {} => /\ ~KeyTaken(txns[u].key)'
                                            /\ \E e \in pending'[u] : e.key = txns'[u].key
            <3>1. CASE pending'[u] = {}
                <4>1. UpTo(pending'[u], 0) /\ StatusEvents(pending'[u]) = {}
                    BY <3>1 DEF UpTo, StatusEvents
                <4> QED BY <3>1, <4>1
            <3>2. CASE pending'[u] # {}
                <4>1. u # t /\ log' = log /\ pending'[u] = pending[u] /\ txns'[u] = txns[u]
                    BY <1>1, <1>2, <1>6, <3>2
                <4> QED BY <3>2, <4>1 DEF PendingOK, KeyTaken
            <3> QED BY <3>1, <3>2
        <2> QED BY <2>1 DEF PendingOK
    <1>12. \A e \in log' : e.by # NoTxn => /\ e.by \in Txns
                                           /\ txns'[e.by].pc = "done"
                                           /\ txns'[e.by].key = txns[e.by].key
                                           /\ e.by = t => e \in events
        BY <1>1, <1>2, <1>3, <1>4 DEF LogOK, Event
    <1>13. LogOK'
        <2>1. ASSUME deletes = 0, NEW e \in log', e.by # NoTxn, txns'[e.by].key # NoKey
              PROVE  KeyTaken(txns[e.by].key)'
            <3>1. CASE e \in events
                <4>1. PICK f \in events : f.key = txns[t].key
                    BY <1>4, <3>1
                <4> QED BY <1>1, <1>2, <1>4, <2>1, <3>1, <4>1 DEF KeyTaken
            <3>2. CASE e \in log
                <4>1. txns'[e.by].key = txns[e.by].key
                    BY <1>12, <2>1
                <4>2. KeyTaken(txns[e.by].key)
                    BY <2>1, <3>2, <4>1 DEF LogOK
                <4> QED BY <1>1, <4>1, <4>2 DEF KeyTaken
            <3> QED BY <1>1, <2>1, <3>1, <3>2
        <2>2. \A e \in log' : e.by # NoTxn => txns'[e.by].pc = "done"
            BY <1>12
        <2> QED BY <1>1, <2>1, <2>2 DEF LogOK
    <1>14. KeyUsedOnce'
        <2> SUFFICES ASSUME deletes = 0, NEW e \in log', NEW f \in log',
                            e.by # NoTxn, f.by # NoTxn, txns'[e.by].key = txns'[f.by].key,
                            txns'[e.by].key # NoKey
                     PROVE  e.by = f.by
            BY <1>1 DEF KeyUsedOnce
        <2>0. txns[e.by].key = txns[f.by].key /\ txns[e.by].key # NoKey
            BY <1>12
        <2>1. \A x \in events, y \in log : y.by # NoTxn /\ txns[t].key # NoKey
                                        => txns[y.by].key # txns[t].key
            BY <1>4 DEF LogOK
        <2> QED BY <1>1, <1>4, <2>0, <2>1 DEF KeyUsedOnce
    <1>15. RowIsProjection'
        <2> SUFFICES ASSUME deletes = 0
                     PROVE  row'.version = MaxSequence(Projected(log)') /\ StatusFromLog'
            BY <1>1 DEF RowIsProjection
        <2>1. /\ row.version = MaxSequence(Projected(log))
              /\ StatusFromLog
            BY DEF RowIsProjection
        <2>2. /\ row'.status = IF StatusEvents(events) = {} THEN row.status ELSE txns[t].target
              /\ row'.version = IF Projected(events) = {} THEN row.version
                                ELSE MaxSequence(Projected(events))
            BY <1>1 DEF Written, events
        <2>3. row'.version = MaxSequence(Projected(log)')
            <3> DEFINE old == Projected(log)
                       new == Projected(events)
            <3>1. Projected(log)' = old \cup new
                BY <1>1 DEF Projected
            <3>2. /\ old \in SUBSET Event /\ new \in SUBSET Event /\ UpTo(new, bound)
                  /\ \A e \in new, f \in old : f.seq < e.seq
                BY <1>3, <1>4, <1>5 DEF Projected, UpTo
            <3> HIDE DEF old, new
            <3>3. new # {} => MaxSequence(old \cup new) = MaxSequence(new)
                BY <3>2, MaxBehind
            <3>4. new = {} => old \cup new = old
                OBVIOUS
            <3> QED BY <2>1, <2>2, <3>1, <3>3, <3>4 DEF old, new
        <2>4. StatusFromLog'
            <3> DEFINE old == StatusEvents(log)
                       new == StatusEvents(events)
            <3>1. StatusEvents(log)' = old \cup new
                BY <1>1 DEF StatusEvents
            <3>2. /\ old \in SUBSET Event /\ new \in SUBSET Event /\ UpTo(new, bound)
                  /\ \A e \in new, f \in old : f.seq < e.seq
                BY <1>3, <1>4, <1>5 DEF StatusEvents, UpTo
            <3>3. \A e \in new : e.to = txns[t].target
                BY <1>4
            <3>4. /\ row'.status = IF new = {} THEN row.status ELSE txns[t].target
                  /\ IF old = {} THEN row.status = "open"
                     ELSE \A e \in old : e.seq = MaxSequence(old) => row.status = e.to
                BY <2>1, <2>2 DEF StatusFromLog
            <3> HIDE DEF old, new
            <3>5. CASE new = {}
                <4>1. old \cup new = old
                    BY <3>5
                <4> QED BY <3>1, <3>4, <3>5, <4>1 DEF StatusFromLog
            <3>6. CASE new # {}
                <4>1. \A e \in old : e.seq # MaxSequence(old \cup new)
                    BY <3>2, <3>6, MaxBehind
                <4> QED BY <3>1, <3>3, <3>4, <3>6, <4>1 DEF StatusFromLog
            <3> QED BY <3>5, <3>6
        <2> QED BY <2>3, <2>4
    <1> QED BY <1>2, <1>8, <1>9, <1>10, <1>11, <1>13, <1>14, <1>15

\* While no insert is open an event is deleted: what is left is still in order.
LEMMA DeleteKeeps ==
    ASSUME IInv, NEW e \in log, DeleteEvent(e)
    PROVE  IInv'
    <1> USE DEF IInv, locks
    <1>1. /\ log' \subseteq log /\ deletes' = deletes + 1 /\ deletes' \in 0 .. MaxDeletes
          /\ \A t \in Txns : pending[t] = {}
          /\ UNCHANGED <<row, txns, pending, locks, faults>>
        BY StreamAssumption DEF DeleteEvent, TypeOK, StreamAssumption
    <1>2. deletes' # 0
        BY <1>1 DEF TypeOK
    <1>3. TypeOK' /\ HeldByWriters' /\ WishesAllowed'
        BY <1>1 DEF TypeOK, HeldByWriters, WishesAllowed, Writing, OpenTxns, At
    <1>4. LogBounded' /\ SequenceNumbersUnique'
        BY <1>1 DEF LogBounded, SequenceNumbersUnique, UpTo
    <1>5. PendingOK'
        BY <1>1 DEF PendingOK
    <1>6. LogOK' /\ KeyUsedOnce' /\ RowIsProjection'
        BY <1>1, <1>2 DEF LogOK, KeyUsedOnce, RowIsProjection
    <1> QED BY <1>3, <1>4, <1>5, <1>6

\* Every step keeps the invariant.
LEMMA NextOK == IInv /\ [Next]_vars => IInv'
    <1> SUFFICES ASSUME IInv, [Next]_vars PROVE IInv'
        OBVIOUS
    <1>1. ASSUME NEW t \in Txns, NEW kind \in Kinds, NEW key \in Keys \cup {NoKey}, Begin(t, kind, key)
          PROVE  IInv'
        BY <1>1, BeginKeeps
    <1>2. ASSUME NEW t \in Txns, Step(t)
          PROVE  IInv'
        <2>1. CASE AppendConflict(t) \/ BreakDeadlock(t)
            <3>1. t \in OpenTxns
                BY <2>1 DEF AppendConflict, Locked, BreakDeadlock, Opposed, At, OpenTxns
            <3>2. faults \in 0 .. MaxFaults
                BY DEF IInv, TypeOK
            <3> QED BY <2>1, <3>1, <3>2, AbortKeeps DEF AppendConflict, BreakDeadlock, bounds
        <2> QED BY <1>2, <2>1, ReadKeeps, LockKeeps, AppendKeeps, CommitKeeps DEF Step
    <1>3. ASSUME NEW t \in Txns, Fail(t)
          PROVE  IInv'
        <2>1. faults' \in 0 .. MaxFaults
            BY <1>3, StreamAssumption DEF Fail, IInv, TypeOK, StreamAssumption
        <2> QED BY <1>3, <2>1, AbortKeeps DEF Fail
    <1>4. ASSUME NEW e \in log, DeleteEvent(e)
          PROVE  IInv'
        BY <1>4, DeleteKeeps
    <1>5. CASE UNCHANGED vars
        BY <1>5
        DEF vars, IInv, TypeOK, HeldByWriters, LogBounded, SequenceNumbersUnique, PendingOK, LogOK,
            KeyUsedOnce, RowIsProjection, StatusFromLog, WishesAllowed, Writing, OpenTxns, At, KeyTaken
    <1> QED BY <1>1, <1>2, <1>3, <1>4, <1>5 DEF Next

\* What a commit does to the status: nothing, or what its transaction wants, which is
\* a step forward from the status that it has read.
LEMMA StatusStep ==
    IInv /\ [Next]_vars =>
        (row'.status # row.status =>
            \/ Forward(row.status, row'.status)
            \/ \E t \in Txns : At(t, "appended") /\ txns'[t].pc = "done" /\ txns[t].seen # row.status)
    <1> SUFFICES ASSUME IInv, [Next]_vars, row'.status # row.status
                 PROVE  \/ Forward(row.status, row'.status)
                        \/ \E t \in Txns : /\ At(t, "appended") /\ txns'[t].pc = "done"
                                           /\ txns[t].seen # row.status
        OBVIOUS
    <1>1. PICK t \in Txns : Commit(t)
        BY DEF Next, Step, Begin, ReadIncident, LockRow, LockStream, Append, AppendConflict, Fail,
               BreakDeadlock, DeleteEvent, vars, store
    <1>2. At(t, "appended") /\ row'.status = txns[t].target
        BY <1>1 DEF Commit, Written
    <1>3. txns'[t].pc = "done"
        BY <1>1 DEF Commit, End, IInv, TypeOK, Txn
    <1>4. CASE txns[t].seen = row.status
        BY <1>2, <1>4 DEF IInv, WishesAllowed, Writing, At
    <1> QED BY <1>2, <1>3, <1>4

-----------------------------------------------------------------------------
(* Seen from outside: a commit appends, and nothing else moves the row.    *)

LEMMA InitPending == Init => PendingNext
    BY DEF Init, PendingNext

\* The log stays, and so do the events of everyone who still has some.
LEMMA PendingStays ==
    ASSUME PendingNext, UNCHANGED log,
           \A u \in Txns : pending'[u] # {} => pending'[u] = pending[u] /\ txns'[u].key = txns[u].key
    PROVE  PendingNext'
    <1>1. MaxSequence(log)' = MaxSequence(log)
        BY DEF MaxSequence
    <1> QED BY <1>1 DEF PendingNext, Numbered, KeyedOnce

\* A transaction that has inserted nothing yet begins, reads or takes a lock.
LEMMA PendingQuiet ==
    ASSUME IInv, PendingNext, NEW t \in Txns, txns[t].pc # "appended",
           \A u \in Txns : u # t => txns'[u] = txns[u],
           UNCHANGED <<log, pending>>
    PROVE  PendingNext'
    <1>1. \A u \in Txns : pending[u] # {} => u # t
        BY DEF IInv, TypeOK, At
    <1> QED BY <1>1, PendingStays

\* What is about to be committed goes on where the log ends.
LEMMA PendingOn == IInv /\ PendingNext /\ [Next]_vars => PendingNext'
    <1> SUFFICES ASSUME IInv, PendingNext, [Next]_vars PROVE PendingNext'
        OBVIOUS
    <1> USE DEF store, locks, bounds
    <1>1. ASSUME NEW t \in Txns, NEW kind \in Kinds, NEW key \in Keys \cup {NoKey}, Begin(t, kind, key)
          PROVE  PendingNext'
        <2>1. txns[t].pc # "appended" /\ UNCHANGED <<log, pending>>
            BY <1>1 DEF Begin, At
        <2>2. \A u \in Txns : u # t => txns'[u] = txns[u]
            BY <1>1 DEF Begin, IInv, TypeOK
        <2> QED BY <2>1, <2>2, PendingQuiet
    <1>2. ASSUME NEW t \in Txns, NEW target \in Status, ReadIncident(t, target)
          PROVE  PendingNext'
        <2>1. txns[t].pc # "appended" /\ UNCHANGED <<log, pending>>
            BY <1>2 DEF ReadIncident, At
        <2>2. \A u \in Txns : u # t => txns'[u] = txns[u]
            BY <1>2 DEF ReadIncident, IInv, TypeOK
        <2> QED BY <2>1, <2>2, PendingQuiet
    <1>3. ASSUME NEW t \in Txns, LockRow(t) \/ LockStream(t)
          PROVE  PendingNext'
        <2>1. UNCHANGED <<log, pending, txns>>
            BY <1>3 DEF LockRow, LockStream
        <2> QED BY <2>1, PendingStays
    <1>4. ASSUME NEW t \in Txns, NEW review \in BOOLEAN, Append(t, review)
          PROVE  PendingNext'
        <2>1. Numbered(EventsOf(t, review), MaxSequence(log)) /\ KeyedOnce(EventsOf(t, review), txns[t].key)
            BY EventsOfShape DEF IInv
        <2>2. /\ pending'[t] = EventsOf(t, review) /\ txns'[t].key = txns[t].key
              /\ \A u \in Txns : u # t => pending'[u] = pending[u] /\ txns'[u] = txns[u]
              /\ log' = log
            BY <1>4 DEF Append, IInv, TypeOK, Txn
        <2>3. MaxSequence(log)' = MaxSequence(log)
            BY <2>2 DEF MaxSequence
        <2>4. ASSUME NEW u \in Txns, pending'[u] # {}
              PROVE  Numbered(pending[u], MaxSequence(log))' /\ KeyedOnce(pending[u], txns[u].key)'
            <3>1. CASE u = t
                BY <2>1, <2>2, <2>3, <3>1 DEF Numbered, KeyedOnce
            <3>2. CASE u # t
                <4>1. pending'[u] = pending[u] /\ txns'[u] = txns[u]
                    BY <2>2, <3>2
                <4>2. Numbered(pending[u], MaxSequence(log)) /\ KeyedOnce(pending[u], txns[u].key)
                    BY <2>4, <4>1 DEF PendingNext
                <4> QED BY <2>3, <4>1, <4>2 DEF Numbered, KeyedOnce
            <3> QED BY <3>1, <3>2
        <2> QED BY <2>4 DEF PendingNext
    <1>5. ASSUME NEW t \in Txns, t \in OpenTxns, End(t, "aborted"), UNCHANGED log
          PROVE  PendingNext'
        <2>1. /\ pending'[t] = {} /\ \A u \in Txns : u # t => pending'[u] = pending[u]
              /\ \A u \in Txns : txns'[u].key = txns[u].key
            BY <1>5, EndShape
        <2> QED BY <1>5, <2>1, PendingStays
    <1>6. ASSUME NEW t \in Txns, Commit(t)
          PROVE  PendingNext'
        <2>1. t \in OpenTxns /\ End(t, "done") /\ log' = log \cup pending[t]
            BY <1>6 DEF Commit, At, OpenTxns
        <2>2. /\ pending'[t] = {} /\ \A u \in Txns : u # t => pending'[u] = pending[u]
              /\ \A u \in Txns : txns'[u].key = txns[u].key
            BY <2>1, EndShape
        <2>3. CASE pending[t] = {}
            <3>1. log' = log
                BY <2>1, <2>3
            <3> QED BY <2>2, <3>1, PendingStays
        <2>4. CASE pending[t] # {}
            <3>1. \A u \in Txns : pending'[u] = {}
                BY <2>2, <2>4, OneWriter DEF IInv
            <3> QED BY <3>1 DEF PendingNext
        <2> QED BY <2>3, <2>4
    <1>7. ASSUME NEW e \in log, DeleteEvent(e)
          PROVE  PendingNext'
        <2>1. \A u \in Txns : pending'[u] = {}
            BY <1>7 DEF DeleteEvent
        <2> QED BY <2>1 DEF PendingNext
    <1>8. CASE UNCHANGED vars
        <2>1. UNCHANGED <<log, pending, txns>>
            BY <1>8 DEF vars
        <2> QED BY <2>1, PendingStays
    <1>9. ASSUME NEW t \in Txns, AppendConflict(t) \/ BreakDeadlock(t) \/ Fail(t)
          PROVE  PendingNext'
        <2>1. t \in OpenTxns /\ End(t, "aborted") /\ UNCHANGED log
            BY <1>9 DEF AppendConflict, Locked, BreakDeadlock, Opposed, Fail, At, OpenTxns
        <2> QED BY <1>5, <2>1
    <1> QED BY <1>1, <1>2, <1>3, <1>4, <1>6, <1>7, <1>8, <1>9 DEF Next, Step

\* The incident starts as an alert leaves it that opens one.
LEMMA OpenedInOrder == Init => Promised!Init
    <1> SUFFICES ASSUME Init PROVE Promised!Init
        OBVIOUS
    <1> DEFINE e == [seq |-> 1, type |-> "opened", from |-> "open", to |-> "open",
                     key |-> NoKey, by |-> NoTxn]
               f == [seq |-> 2, type |-> "attached", from |-> "open", to |-> "open",
                     key |-> NoKey, by |-> NoTxn]
    <1>1. log = {e, f} /\ row.status = "open" /\ row.version = 2
        BY DEF Init, Opening
    <1>2. /\ e \in Event /\ e.seq = 1 /\ e.key = NoKey /\ e.by = NoTxn /\ e.type = "opened"
          /\ f \in Event /\ f.seq = 2 /\ f.key = NoKey /\ f.by = NoTxn /\ f.type = "attached"
        BY DEF Event, Status
    <1> HIDE DEF e, f
    <1>3. Promised!Follows(log, {})
        <2>1. Promised!Numbers(log) = {1, 2} /\ Promised!Numbers({}) = {}
            BY <1>1, <1>2 DEF Promised!Numbers
        <2>2. {1, 2} = 0 + 1 .. 2
            OBVIOUS
        <2>3. \A x, y \in log : x.seq = y.seq => x = y
            BY <1>1, <1>2
        <2>4. 0 \in Promised!Numbers({}) \cup {0} /\ 2 \in Promised!Numbers(log)
            BY <2>1
        <2>5. \A n \in Promised!Numbers({}) : n <= 0
            BY <2>1
        <2>6. Promised!Numbers(log) = 0 + 1 .. 2
            BY <2>1, <2>2
        <2> QED BY <2>3, <2>4, <2>5, <2>6, Zenon DEF Promised!Follows
    <1>4. Promised!Fresh(log, {})
        BY <1>1, <1>2 DEF Promised!Fresh
    <1>5. Promised!Projection(log, [status |-> "open", version |-> 0], row)
        <2>1. {x \in log : x.type \in {"status", "resolved"}} = {} /\ {x \in log : x.type # "note"} = log
            BY <1>1, <1>2
        <2>2. f \in log /\ Promised!Last(log, f)
            BY <1>1, <1>2 DEF Promised!Last, Promised!Numbers
        <2> QED BY <1>1, <1>2, <2>1, <2>2 DEF Promised!Projection
    <1> QED BY <1>1, <1>2, <1>3, <1>4, <1>5 DEF Promised!Init

\* The last of a bounded set of events.
LEMMA LastIs ==
    ASSUME NEW events \in SUBSET Event, events # {}, NEW bound \in Nat, UpTo(events, bound)
    PROVE  \E e \in events : Promised!Last(events, e) /\ e.seq = MaxSequence(events)
    <1>1. PICK e \in events : e.seq = MaxSequence(events)
        BY MaxIs
    <1>2. \A f \in events : f.seq <= e.seq
        BY <1>1, MaxIs DEF UpTo
    <1> QED BY <1>1, <1>2 DEF Promised!Last, Promised!Numbers

\* A commit appends the events of its transaction, and the row takes what they set.
LEMMA CommitAppends ==
    ASSUME IInv, PendingNext, NEW t \in Txns, Commit(t)
    PROVE  Promised!AppendEvents \/ UNCHANGED <<row, log>>
    <1> DEFINE events == pending[t]
               last == MaxSequence(log)
    <1>1. /\ txns[t].pc = "appended" /\ row' = Written(t) /\ log' = log \cup events
        BY DEF Commit, At
    <1>2. CASE events = {}
        <2>1. Written(t) = [status |-> row.status, version |-> row.version]
            BY <1>2 DEF Written, StatusEvents, Projected
        <2>2. row = [status |-> row.status, version |-> row.version]
            BY DEF IInv, TypeOK
        <2> QED BY <1>1, <1>2, <2>1, <2>2
    <1>3. CASE events # {}
        <2>1. /\ events \in SUBSET Event /\ log \in SUBSET Event
              /\ \A e \in events, f \in log : f.seq < e.seq
              /\ \A e, f \in events : e.seq = f.seq => e = f
              /\ \A e \in events : e.by = t
              /\ \A e \in StatusEvents(events) : e.to = txns[t].target
              /\ ~KeyTaken(txns[t].key)
              /\ \A f \in log : f.by # NoTxn => txns[f.by].pc = "done"
              /\ Numbered(events, last) /\ KeyedOnce(events, txns[t].key)
            BY <1>3 DEF IInv, TypeOK, SequenceNumbersUnique, PendingOK, LogOK, PendingNext
        <2>2. PICK bound \in Nat : UpTo(events, bound)
            BY DEF IInv, PendingOK
        <2>3. last \in Nat /\ UpTo(log, last) /\ (log # {} => \E f \in log : f.seq = last)
            BY MaxIs DEF IInv, TypeOK, LogBounded
        <2> HIDE DEF events, last
        <2>4. log' \ log = events
            BY <1>1, <2>1 DEF Event
        <2>5. Promised!Follows(events, log)
            <3>1. PICK k \in {1, 2} : {e.seq : e \in events} = last + 1 .. last + k
                BY <2>1 DEF Numbered
            <3>2. last + k \in last + 1 .. last + k
                BY <2>3
            <3>3. Promised!Numbers(events) = last + 1 .. last + k /\ last + k \in Promised!Numbers(events)
                BY <3>1, <3>2 DEF Promised!Numbers
            <3>4. \A n \in Promised!Numbers(log) : n <= last
                BY <2>3 DEF Promised!Numbers, UpTo
            <3>5. last \in Promised!Numbers(log) \cup {0}
                <4>1. CASE log = {}
                    BY <4>1 DEF last, MaxSequence
                <4>2. CASE log # {}
                    BY <2>3, <4>2 DEF Promised!Numbers
                <4> QED BY <4>1, <4>2
            <3> QED BY <2>1, <3>3, <3>4, <3>5 DEF Promised!Follows
        <2>6. Promised!Fresh(events, log)
            <3>1. ASSUME NEW e \in events, e.key # NoKey, NEW f \in log \cup (events \ {e})
                  PROVE  f.key # e.key
                BY <2>1, <3>1 DEF KeyedOnce, KeyTaken
            <3>2. ASSUME NEW e \in events, e.by # NoTxn, NEW f \in log
                  PROVE  f.by # e.by
                BY <1>1, <2>1, <3>2
            <3> QED BY <2>1, <3>1, <3>2 DEF Promised!Fresh
        <2>7. Promised!Projection(events, row, row')
            <3> DEFINE sets == StatusEvents(events)
                       shown == Projected(events)
            <3>1. /\ sets = {e \in events : e.type \in {"status", "resolved"}}
                  /\ shown = {e \in events : e.type # "note"}
                BY DEF StatusEvents, Projected
            <3>2. /\ sets \in SUBSET Event /\ UpTo(sets, bound)
                  /\ shown \in SUBSET Event /\ UpTo(shown, bound)
                BY <2>1, <2>2, <3>1 DEF UpTo
            <3>3. /\ row'.status = IF sets = {} THEN row.status ELSE txns[t].target
                  /\ row'.version = IF shown = {} THEN row.version ELSE MaxSequence(shown)
                BY <1>1 DEF Written, events
            <3>4. \A e \in sets : e.to = txns[t].target
                BY <2>1
            <3> HIDE DEF sets, shown
            <3>5. IF sets = {} THEN row'.status = row.status
                  ELSE \E e \in sets : Promised!Last(sets, e) /\ row'.status = e.to
                <4>1. CASE sets # {}
                    <5>1. PICK e \in sets : Promised!Last(sets, e)
                        BY <3>2, <4>1, LastIs
                    <5> QED BY <3>3, <3>4, <4>1, <5>1
                <4> QED BY <3>3, <4>1
            <3>6. IF shown = {} THEN row'.version = row.version
                  ELSE \E e \in shown : Promised!Last(shown, e) /\ row'.version = e.seq
                <4>1. CASE shown # {}
                    <5>1. PICK e \in shown : Promised!Last(shown, e) /\ e.seq = MaxSequence(shown)
                        BY <3>2, <4>1, LastIs
                    <5> QED BY <3>3, <4>1, <5>1
                <4> QED BY <3>3, <4>1
            <3> QED BY <3>1, <3>5, <3>6 DEF Promised!Projection
        <2> QED BY <1>1, <2>1, <2>4, <2>5, <2>6, <2>7 DEF Promised!AppendEvents
    <1> QED BY <1>2, <1>3

\* Every step appends, deletes or leaves row and log alone.
LEMMA StepIsPromised == IInv /\ PendingNext /\ [Next]_vars => [Promised!Next]_<<row, log>>
    <1> SUFFICES ASSUME IInv, PendingNext, [Next]_vars
                 PROVE  Promised!AppendEvents \/ Promised!DeleteEvent \/ UNCHANGED <<row, log>>
        BY DEF Promised!Next
    <1>1. ASSUME NEW t \in Txns, Commit(t)
          PROVE  Promised!AppendEvents \/ UNCHANGED <<row, log>>
        BY <1>1, CommitAppends
    <1>2. ASSUME NEW e \in log, DeleteEvent(e)
          PROVE  Promised!DeleteEvent
        BY <1>2 DEF DeleteEvent, Promised!DeleteEvent
    <1>3. CASE \/ \E t \in Txns, kind \in Kinds, key \in Keys \cup {NoKey} : Begin(t, kind, key)
               \/ \E t \in Txns, target \in Status : ReadIncident(t, target)
               \/ \E t \in Txns : LockRow(t) \/ LockStream(t) \/ AppendConflict(t)
                                  \/ BreakDeadlock(t) \/ Fail(t)
               \/ \E t \in Txns, review \in BOOLEAN : Append(t, review)
               \/ UNCHANGED vars
        BY <1>3 DEF Begin, ReadIncident, LockRow, LockStream, Append, AppendConflict, BreakDeadlock,
                    Fail, store, vars
    <1> QED BY <1>1, <1>2, <1>3 DEF Next, Step

-----------------------------------------------------------------------------
(* The theorems.                                                           *)

\* The invariant that the other theorems follow from.
THEOREM Invariance == Spec => []IInv
    BY InitOK, NextOK, PTL DEF Spec

\* Every variable has its shape, locks are held by open transactions, and inserts
\* that are not committed belong to the one that holds the stream.
THEOREM TypeCorrect == Spec => []TypeOK
    <1>1. IInv => TypeOK
        BY DEF IInv
    <1> QED BY <1>1, Invariance, PTL

\* next_sequence_number hands out no number twice, whatever fails or is deleted.
THEOREM NumbersUnique == Spec => []SequenceNumbersUnique
    <1>1. IInv => SequenceNumbersUnique
        BY DEF IInv
    <1> QED BY <1>1, Invariance, PTL

\* The row is the projection of its log as long as no event is deleted.
THEOREM RowProjects == Spec => []RowIsProjection
    <1>1. IInv => RowIsProjection
        BY DEF IInv
    <1> QED BY <1>1, Invariance, PTL

\* A key that is sent again does its work at most once.
THEOREM KeysUsedOnce == Spec => []KeyUsedOnce
    <1>1. IInv => KeyUsedOnce
        BY DEF IInv
    <1> QED BY <1>1, Invariance, PTL

\* Only a transaction that was overtaken can move a status other than forward.
THEOREM ForwardUnlessOvertaken == Spec => StatusForwardUnlessOvertaken
    <1>1. IInv /\ [Next]_vars =>
            [row'.status # row.status =>
                \/ Forward(row.status, row'.status)
                \/ \E t \in Txns : /\ At(t, "appended") /\ txns'[t].pc = "done"
                                   /\ txns[t].seen # row.status]_vars
        BY StatusStep
    <1> QED BY <1>1, Invariance, PTL DEF Spec, StatusForwardUnlessOvertaken

\* The stream implements EventLog: append_event and apply_event_to_projection, with all
\* that may happen between their queries and the commit, are one step of the log.
THEOREM StreamImplementsLog == Spec => ImplementsEventLog
    <1>1. Spec => []PendingNext
        BY InitPending, PendingOn, Invariance, PTL DEF Spec
    <1>2. Spec => Promised!Spec
        BY <1>1, OpenedInOrder, StepIsPromised, Invariance, PTL DEF Spec, Promised!Spec, Promised!vars
    <1> QED BY <1>2 DEF ImplementsEventLog
=============================================================================

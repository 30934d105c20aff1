-------------------------- MODULE ServiceCallsProofs --------------------------
(***************************************************************************)
(* Theorems about the circuit breaker and the dead letters, for every      *)
(* number of requests, targets, letters and clerks, and for every bound.   *)
(* Both invariants are inductive: the breaker's count and its state move   *)
(* together, and no write makes an owed letter unfit to be claimed.        *)
(***************************************************************************)
EXTENDS ServiceCalls, TLAPS

IInv == TypeOK /\ LetterKept

USE BreakerAssumption, LettersAssumption, CallsAssumption
    DEF BreakerAssumption, LettersAssumption, CallsAssumption

\* Nothing is buried, open or owed at the start.
LEMMA InitOK == Init => IInv
    <1> SUFFICES ASSUME Init PROVE IInv
        OBVIOUS
    <1>1. BreakerTypeOK
        <2>1. \A t \in Targets : [pc |-> "idle", target |-> t, there |-> TRUE, n |-> 0] \in Request
            BY DEF Request
        <2>2. request \in [Requests -> Request]
            BY <2>1 DEF Init, BreakerInit
        <2>3. health \in [Targets -> Health]
            BY DEF Init, BreakerInit, Health
        <2>4. circuit = "closed" /\ cooled = FALSE /\ failures = 0
            BY DEF Init, BreakerInit
        <2>5. failures \in 0 .. Threshold /\ failures < Threshold
            BY <2>4
        <2>6. cooled => circuit = "open"
            BY <2>4
        <2> QED BY <2>2, <2>3, <2>4, <2>5, <2>6 DEF BreakerTypeOK
    <1>2. LettersTypeOK /\ LetterKept /\ faults \in 0 .. MaxFaults
        <2>1. PICK s \in Starts : LettersInit(Clerks \ s.clerks) /\ faults = MaxFaults - s.faults
            BY DEF Init
        <2>2. faults \in 0 .. MaxFaults
            BY <2>1
        <2>3. row \in [Letters -> Row]
            BY <2>1 DEF LettersInit, Row
        <2>4. copy \in [Buriers -> Row \cup {Unread}]
            BY <2>1 DEF LettersInit
        <2>5. held \in [Clerks -> [Letters -> NotHeld .. MaxRetries]]
            BY <2>1 DEF LettersInit, NotHeld
        <2> QED BY <2>1, <2>2, <2>3, <2>4, <2>5 DEF LettersInit, LettersTypeOK, LetterKept
    <1> QED BY <1>1, <1>2 DEF IInv, TypeOK

-----------------------------------------------------------------------------
(* The breaker.                                                            *)

\* A coroutine is a record with a step, a target and its attempts.
LEMMA RequestShape ==
    ASSUME BreakerTypeOK, NEW r \in Requests
    PROVE  /\ request[r] \in Request /\ request[r].n \in 0 .. MaxAttempts
           /\ request[r].target \in Targets /\ request[r].there \in BOOLEAN
    BY DEF BreakerTypeOK, Request

\* Beginning a call lets the breaker pass to half-open and no further.
LEMMA StartKeeps ==
    ASSUME BreakerTypeOK, NEW r \in Requests, NEW there \in BOOLEAN, Start(r, there)
    PROVE  BreakerTypeOK'
    <1>1. request[r] \in Request /\ request \in [Requests -> Request]
        BY DEF BreakerTypeOK
    <1>2. CASE CanAttempt
        <2>1. /\ circuit' = IF circuit = "open" THEN "half-open" ELSE circuit
              /\ cooled' = FALSE
              /\ request' = [request EXCEPT ![r] = [@ EXCEPT !.pc = "calling", !.there = there]]
              /\ UNCHANGED <<failures, health>>
            BY <1>2 DEF Start
        <2>2. request' \in [Requests -> Request]
            <3>1. [request[r] EXCEPT !.pc = "calling", !.there = there] \in Request
                BY RequestShape DEF Request
            <3> QED BY <1>1, <2>1, <3>1
        <2>3. /\ circuit' \in {"closed", "open", "half-open"}
              /\ circuit' = "closed" <=> circuit = "closed"
            BY <2>1 DEF BreakerTypeOK
        <2> QED BY <2>1, <2>2, <2>3 DEF BreakerTypeOK
    <1>3. CASE ~CanAttempt
        <2>1. /\ request' = [request EXCEPT ![r].pc = "failed"]
              /\ UNCHANGED <<circuit, cooled, failures, health>>
            BY <1>3 DEF Start
        <2>2. request' \in [Requests -> Request]
            BY <1>1, <2>1, RequestShape DEF Request
        <2> QED BY <2>1, <2>2 DEF BreakerTypeOK
    <1> QED BY <1>2, <1>3

\* A failure is counted once, and the breaker opens at the threshold.
LEMMA CountKeeps ==
    ASSUME BreakerTypeOK, NEW r \in Requests, Count(r), UNCHANGED health
    PROVE  BreakerTypeOK'
    <1> DEFINE n == IF failures < Threshold THEN failures + 1 ELSE failures
    <1>1. /\ failures' = n
          /\ circuit' = IF n >= Threshold THEN "open" ELSE circuit
          /\ cooled' = IF n >= Threshold THEN FALSE ELSE cooled
          /\ request' = [request EXCEPT ![r] = [@ EXCEPT !.pc = "failed", !.n = 0, !.there = TRUE]]
        BY DEF Count
    <1>2. request' \in [Requests -> Request]
        <2>1. [request[r] EXCEPT !.pc = "failed", !.n = 0, !.there = TRUE] \in Request
            <3>1. 0 \in 0 .. MaxAttempts /\ TRUE \in BOOLEAN
                OBVIOUS
            <3> QED BY <3>1, RequestShape DEF Request
        <2> QED BY <1>1, <2>1 DEF BreakerTypeOK
    <1>3. failures \in 0 .. Threshold /\ n \in 0 .. Threshold
        BY DEF BreakerTypeOK
    <1>4. CASE n >= Threshold
        <2>1. circuit' = "open" /\ cooled' = FALSE /\ ~(failures' < Threshold)
            BY <1>1, <1>3, <1>4
        <2> QED BY <1>1, <1>2, <1>3, <2>1 DEF BreakerTypeOK
    <1>5. CASE ~(n >= Threshold)
        <2>1. UNCHANGED <<circuit, cooled, health>>
            BY <1>1, <1>5
        <2>2. failures < Threshold
            BY <1>3, <1>5
        <2>3. failures' < Threshold
            BY <1>1, <1>3, <1>5
        <2>4. circuit = "closed"
            BY <2>2 DEF BreakerTypeOK
        <2>5. failures' \in 0 .. Threshold
            BY <1>1, <1>3
        <2> QED BY <1>2, <2>1, <2>3, <2>4, <2>5 DEF BreakerTypeOK
    <1> QED BY <1>4, <1>5

\* Every step of a call keeps the count and the state of the breaker together.
LEMMA CallKeeps ==
    ASSUME BreakerTypeOK, NEW r \in Requests, CallStep(r)
    PROVE  BreakerTypeOK'
    <1>1. CASE Start(r, TRUE)
        BY <1>1, StartKeeps
    <1>2. CASE Succeed(r)
        <2>1. request' \in [Requests -> Request]
            <3>1. [request[r] EXCEPT !.pc = "idle", !.n = 0] \in Request
                <4>1. 0 \in 0 .. MaxAttempts
                    OBVIOUS
                <4> QED BY <4>1, RequestShape DEF Request
            <3> QED BY <1>2, <3>1 DEF Succeed, BreakerTypeOK
        <2>2. circuit' = "closed" /\ cooled' = FALSE /\ failures' = 0 /\ UNCHANGED health
            BY <1>2 DEF Succeed, Close
        <2>3. failures' \in 0 .. Threshold /\ failures' < Threshold
            BY <2>2
        <2> QED BY <2>1, <2>2, <2>3 DEF BreakerTypeOK
    <1>3. CASE TryAgain(r)
        <2>1. request' \in [Requests -> Request]
            BY <1>3, RequestShape DEF TryAgain, BreakerTypeOK, Request
        <2> QED BY <1>3, <2>1 DEF TryAgain, breaker, BreakerTypeOK
    <1>4. CASE GiveUp(r) \/ Refused(r)
        BY <1>4, CountKeeps DEF GiveUp, Refused
    <1> QED BY <1>1, <1>2, <1>3, <1>4 DEF CallStep

-----------------------------------------------------------------------------
(* The letters.                                                            *)

\* Reading a letter changes no letter.
LEMMA ReadKeeps ==
    ASSUME LettersTypeOK, LetterKept, NEW r \in Buriers, ReadLetter(r)
    PROVE  LettersTypeOK' /\ LetterKept'
    <1>1. copy' \in [Buriers -> Row \cup {Unread}]
        BY DEF ReadLetter, LettersTypeOK
    <1> QED BY <1>1 DEF ReadLetter, LettersTypeOK, LetterKept

\* Burying a letter makes it active, unless the row was outdated.
LEMMA WriteKeeps ==
    ASSUME LettersTypeOK, LetterKept, NEW r \in Buriers, WriteLetter(r)
    PROVE  LettersTypeOK' /\ LetterKept'
    <1> DEFINE k == LetterOf[r]
               seen == copy[r]
    <1>1. k \in Letters /\ seen \in Row /\ row[k] \in Row
        BY DEF WriteLetter, LettersTypeOK
    <1>2. copy' \in [Buriers -> Row \cup {Unread}] /\ UNCHANGED <<held, dead>>
        BY DEF WriteLetter, LettersTypeOK
    <1>3. CASE seen.status # "absent"
        <2>1. /\ row' = [row EXCEPT ![k] = Again(seen, row[k])]
              /\ owed' = owed \cup {k}
              /\ crossed' = IF seen.status \in Active /\ row[k].status \notin Active
                            THEN crossed \cup {k} ELSE crossed \ {k}
            BY <1>3 DEF WriteLetter
        <2>2. seen.count \in 0 .. MaxRetries /\ Upto(seen.count + 1) \in 0 .. MaxRetries
            BY <1>1 DEF Row, Upto
        <2>3. /\ row[k].status \in Active \cup {"absent", "processed", "failed"}
              /\ seen.status \in Active \cup {"absent", "processed", "failed"}
            BY <1>1 DEF Row
        <2>4. Again(seen, row[k]) \in Row /\ Again(seen, row[k]).due = "later"
            BY <2>2, <2>3 DEF Again, Row, Active
        <2>5. k \notin crossed' => Again(seen, row[k]).status \in Active
            BY <1>1, <2>1, <2>3 DEF Again, Active
        <2> HIDE DEF k, seen
        <2>6. LettersTypeOK'
            BY <1>1, <1>2, <2>1, <2>4 DEF LettersTypeOK
        <2>7. LetterKept'
            BY <1>1, <2>1, <2>4, <2>5 DEF LettersTypeOK, LetterKept
        <2> QED BY <2>6, <2>7
    <1>4. CASE seen.status = "absent" /\ row[k].status = "absent"
        <2>1. /\ row' = [row EXCEPT ![k] = [status |-> "pending", count |-> 0, due |-> "later"]]
              /\ owed' = owed \cup {k} /\ UNCHANGED crossed
            BY <1>4 DEF WriteLetter
        <2> DEFINE new == [status |-> "pending", count |-> 0, due |-> "later"]
        <2>2. new \in Row /\ new.status \in Active /\ new.due # "never"
            BY DEF Row, Active
        <2> HIDE DEF k, seen, new
        <2>3. LettersTypeOK'
            BY <1>1, <1>2, <2>1, <2>2 DEF LettersTypeOK, new
        <2>4. LetterKept'
            BY <1>1, <2>1, <2>2 DEF LettersTypeOK, LetterKept, new
        <2> QED BY <2>3, <2>4
    <1>5. CASE seen.status = "absent" /\ row[k].status # "absent"
        <2>1. UNCHANGED <<row, owed, crossed>>
            BY <1>5 DEF WriteLetter
        <2> QED BY <1>2, <2>1 DEF LettersTypeOK, LetterKept
    <1> QED BY <1>3, <1>4, <1>5

\* Time makes letters due and forgets none.
LEMMA FallDueKeeps ==
    ASSUME LettersTypeOK, LetterKept, NEW k \in Letters, FallDue(k)
    PROVE  LettersTypeOK' /\ LetterKept'
    <1>1. row[k] \in Row
        BY DEF LettersTypeOK
    <1>2. [row[k] EXCEPT !.due = "now"] \in Row
        BY <1>1 DEF Row
    <1>3. row' \in [Letters -> Row]
        BY <1>2 DEF FallDue, LettersTypeOK
    <1> QED BY <1>1, <1>3 DEF FallDue, LettersTypeOK, LetterKept, Row

\* Claiming changes the status of what is active, to another that is.
LEMMA ClaimKeeps ==
    ASSUME LettersTypeOK, LetterKept, NEW c \in Clerks, Claim(c)
    PROVE  LettersTypeOK' /\ LetterKept'
    <1>1. \A k \in Letters : row[k] \in Row /\ row[k].count \in 0 .. MaxRetries
        BY DEF LettersTypeOK, Row
    <1>2. \A k \in Letters : [row[k] EXCEPT !.status = "retrying"] \in Row
        BY <1>1 DEF Row, Active
    <1>3. row' \in [Letters -> Row]
        BY <1>1, <1>2 DEF Claim
    <1>4. held' \in [Clerks -> [Letters -> NotHeld .. MaxRetries]]
        BY <1>1 DEF Claim, LettersTypeOK, NotHeld
    <1>5. LettersTypeOK'
        BY <1>3, <1>4 DEF Claim, LettersTypeOK
    <1>6. \A k \in Letters : row[k].status \in Active /\ row[k].due # "never"
                             => row'[k].status \in Active /\ row'[k].due # "never"
        BY <1>1 DEF Claim, Row, Active
    <1> QED BY <1>5, <1>6 DEF Claim, LettersTypeOK, LetterKept

\* A clerk settles a letter, or puts it off; what it has read decides.
LEMMA MarkKeeps ==
    ASSUME LettersTypeOK, LetterKept, NEW c \in Clerks, NEW k \in Letters,
           MarkProcessed(c, k) \/ MarkFailed(c, k)
    PROVE  LettersTypeOK' /\ LetterKept'
    <1>1. row[k] \in Row /\ held[c][k] \in NotHeld .. MaxRetries /\ held[c][k] # NotHeld
        BY DEF LettersTypeOK, MarkProcessed, MarkFailed
    <1>2. held' \in [Clerks -> [Letters -> NotHeld .. MaxRetries]]
        BY DEF LettersTypeOK, MarkProcessed, MarkFailed, Drop, NotHeld
    <1>3. UNCHANGED <<copy, dead>>
        BY DEF MarkProcessed, MarkFailed
    <1>4. ASSUME NEW new \in Row, row' = [row EXCEPT ![k] = new], Settle(k)
          PROVE  LettersTypeOK' /\ LetterKept'
        BY <1>2, <1>3, <1>4 DEF LettersTypeOK, LetterKept, Settle
    <1>5. CASE MarkProcessed(c, k)
        <2>1. [row[k] EXCEPT !.status = "processed", !.due = "never"] \in Row
            BY <1>1 DEF Row
        <2> QED BY <1>4, <1>5, <2>1 DEF MarkProcessed
    <1>6. CASE MarkFailed(c, k) /\ held[c][k] + 1 >= MaxRetries
        <2>1. [status |-> "failed", count |-> MaxRetries, due |-> "never"] \in Row
            BY DEF Row
        <2> QED BY <1>4, <1>6, <1>1, <2>1 DEF MarkFailed, NotHeld
    <1>7. CASE MarkFailed(c, k) /\ held[c][k] + 1 < MaxRetries
        <2> DEFINE n == held[c][k] + 1
                   new == [row[k] EXCEPT !.count = n, !.due = "later"]
        <2>1. row' = [row EXCEPT ![k] = new] /\ UNCHANGED <<owed, crossed>>
            BY <1>1, <1>7 DEF MarkFailed, NotHeld
        <2>2. n \in 0 .. MaxRetries
            BY <1>1, <1>7 DEF NotHeld
        <2>3. new \in Row /\ new.status = row[k].status /\ new.due = "later"
            BY <1>1, <2>2 DEF Row
        <2> HIDE DEF new, n
        <2> QED BY <1>2, <1>3, <2>1, <2>3 DEF LettersTypeOK, LetterKept
    <1> QED BY <1>1, <1>5, <1>6, <1>7 DEF NotHeld

\* A clerk that dies leaves its letters to the others.
LEMMA DeathKeeps ==
    ASSUME LettersTypeOK, LetterKept, NEW c \in Clerks, ClerkDies(c)
    PROVE  LettersTypeOK' /\ LetterKept'
    <1>1. held' \in [Clerks -> [Letters -> NotHeld .. MaxRetries]]
        BY DEF ClerkDies, LettersTypeOK, NotHeld
    <1> QED BY <1>1 DEF ClerkDies, LettersTypeOK, LetterKept

-----------------------------------------------------------------------------
(* Both together.                                                          *)

\* Every step keeps the invariant.
LEMMA NextOK == IInv /\ [Next]_vars => IInv'
    <1> SUFFICES ASSUME IInv, [Next]_vars PROVE IInv'
        OBVIOUS
    <1> USE DEF IInv, TypeOK
    <1>1. UNCHANGED letterVars => LettersTypeOK' /\ LetterKept'
        BY DEF letterVars, LettersTypeOK, LetterKept
    <1>2. UNCHANGED breakerVars => BreakerTypeOK'
        BY DEF breakerVars, breaker, BreakerTypeOK
    <1>3. Fault => faults' \in 0 .. MaxFaults
        BY DEF Fault
    <1>4. ASSUME NEW r \in Requests, Fetch(r) \/ FetchUnknown(r)
          PROVE  IInv'
        BY <1>1, <1>4, CallKeeps, StartKeeps DEF Fetch, FetchUnknown
    <1>5. ASSUME NEW r \in Requests, BeginBury(r) \/ EndBury(r)
          PROVE  IInv'
        <2>1. request' \in [Requests -> Request]
            BY <1>5, RequestShape DEF BeginBury, EndBury, BreakerTypeOK, Request
        <2>2. BreakerTypeOK' /\ UNCHANGED faults
            BY <1>5, <2>1 DEF BeginBury, EndBury, breaker, BreakerTypeOK
        <2>3. LettersTypeOK' /\ LetterKept'
            BY <1>5, ReadKeeps, WriteKeeps DEF BeginBury, EndBury
        <2> QED BY <2>2, <2>3
    <1>6. CASE Environment
        <2>1. CASE CoolDown /\ UNCHANGED <<letterVars, faults>>
            BY <1>1, <2>1 DEF CoolDown, BreakerTypeOK
        <2>2. CASE \E k \in Letters : FallDue(k) /\ UNCHANGED <<breakerVars, faults>>
            BY <1>2, <2>2, FallDueKeeps
        <2> QED BY <1>6, <2>1, <2>2 DEF Environment
    <1>7. CASE Outage
        <2>1. PICK t \in Targets : \/ Degrade(t) /\ Fault /\ UNCHANGED letterVars
                                   \/ Restore(t) /\ UNCHANGED <<letterVars, faults>>
            BY <1>7 DEF Outage
        <2>2. health' \in [Targets -> Health]
            BY <2>1 DEF Degrade, Restore, BreakerTypeOK, Health
        <2>3. BreakerTypeOK'
            BY <2>1, <2>2 DEF Degrade, Restore, breaker, BreakerTypeOK
        <2> QED BY <1>1, <1>3, <2>1, <2>3
    <1>8. ASSUME NEW c \in Clerks, Clerk(c) \/ ClerkFails(c)
          PROVE  IInv'
        <2>1. BreakerTypeOK' /\ faults' \in 0 .. MaxFaults
            BY <1>2, <1>8 DEF Clerk, ClerkFails
        <2>2. LettersTypeOK' /\ LetterKept'
            BY <1>8, ClaimKeeps, MarkKeeps, DeathKeeps DEF Clerk, ClerkFails, ClerkStep
        <2> QED BY <2>1, <2>2
    <1>9. CASE UNCHANGED vars
        BY <1>1, <1>2, <1>9 DEF vars
    <1> QED BY <1>4, <1>5, <1>6, <1>7, <1>8, <1>9 DEF Next

\* The invariant that the other theorems follow from.
THEOREM Invariance == Spec => []IInv
    BY InitOK, NextOK, PTL DEF Spec

\* Both tables have their shape, and the breaker is closed exactly while fewer
\* calls than its threshold have failed, whichever calls end when.
THEOREM TypeCorrect == Spec => []TypeOK
    <1>1. IInv => TypeOK
        BY DEF IInv
    <1> QED BY <1>1, Invariance, PTL

\* What a request has buried stays to be tried until it is settled, for every
\* number of clerks that hold it together.
THEOREM LettersKept == Spec => []LetterKept
    <1>1. IInv => LetterKept
        BY DEF IInv
    <1> QED BY <1>1, Invariance, PTL
=============================================================================

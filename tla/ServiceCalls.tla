---------------------------- MODULE ServiceCalls ----------------------------
(***************************************************************************)
(* Requests that fetch an incident through the circuit breaker and bury    *)
(* what fails: POST /analyze of the supervisor (POST /report does the      *)
(* same), with the workers that may try the letters again.                 *)
(***************************************************************************)
EXTENDS CircuitBreaker, DeadLetters

CONSTANTS
    MaxFaults,  \* bound: outages
    Starts      \* clerks that run, and how many outages there may be with them

ASSUME CallsAssumption ==
    /\ Requests = Buriers
    /\ MaxFaults \in Nat
    /\ Starts \subseteq [clerks : SUBSET Clerks, faults : 0 .. MaxFaults]

VARIABLE faults

vars == <<breakerVars, letterVars, faults>>

Fault == /\ faults < MaxFaults
         /\ faults' = faults + 1

Init ==
    /\ BreakerInit
    /\ \E s \in Starts : LettersInit(Clerks \ s.clerks) /\ faults = MaxFaults - s.faults

\* The steps of the call, for an incident that exists.
Fetch(r) == CallStep(r) /\ UNCHANGED <<letterVars, faults>>

\* The incident is unknown to the history-agent, as often as clients ask for one.
FetchUnknown(r) == Start(r, FALSE) /\ UNCHANGED <<letterVars, faults>>

\* except Exception: a transaction of its own, then 502.
BeginBury(r) ==
    /\ request[r].pc = "failed"
    /\ ReadLetter(r)
    /\ request' = [request EXCEPT ![r].pc = "burying"]
    /\ UNCHANGED <<breaker, health, faults>>
EndBury(r) ==
    /\ request[r].pc = "burying"
    /\ WriteLetter(r)
    /\ request' = [request EXCEPT ![r].pc = "idle"]
    /\ UNCHANGED <<breaker, health, faults>>

Environment ==
    \/ CoolDown /\ UNCHANGED <<letterVars, faults>>
    \/ \E k \in Letters : FallDue(k) /\ UNCHANGED <<breakerVars, faults>>
Outage == \E t \in Targets :
    \/ Degrade(t) /\ Fault /\ UNCHANGED letterVars
    \/ Restore(t) /\ UNCHANGED <<letterVars, faults>>

Clerk(c) == ClerkStep(c) /\ UNCHANGED <<breakerVars, faults>>
ClerkFails(c) ==
    /\ \/ \E k \in Letters : MarkFailed(c, k)
       \/ ClerkDies(c)
    /\ UNCHANGED <<breakerVars, faults>>

Next ==
    \/ \E r \in Requests : Fetch(r) \/ FetchUnknown(r) \/ BeginBury(r) \/ EndBury(r)
    \/ Environment \/ Outage
    \/ \E c \in Clerks : Clerk(c) \/ ClerkFails(c)

Spec == Init /\ [][Next]_vars

\* Calls and transactions end, time passes, requests go on coming.
FairSpec ==
    /\ Spec
    /\ \A r \in Requests : WF_vars(Fetch(r)) /\ WF_vars(BeginBury(r)) /\ WF_vars(EndBury(r))
    /\ WF_vars(CoolDown /\ UNCHANGED <<letterVars, faults>>)
    /\ \A k \in Letters : WF_vars(FallDue(k) /\ UNCHANGED <<breakerVars, faults>>)
    /\ \A c \in Clerks : WF_vars(Clerk(c))

-----------------------------------------------------------------------------
\* Both tables have their shape, and the breaker is closed exactly below its
\* threshold.
TypeOK == BreakerTypeOK /\ LettersTypeOK /\ faults \in 0 .. MaxFaults

\* When from some time on all targets are up and no call asks for an unknown
\* incident, and a clerk is left, every buried letter is processed or given up:
\* whatever put its retry off until then, and however often the processing fails.
EveryLetterSettles ==
    <>[]Calm /\ [](dead # Clerks) =>
        \A k \in Letters : row[k].status \in Active ~> row[k].status \notin Active
=============================================================================

--------------------------- MODULE CircuitBreaker ---------------------------
(***************************************************************************)
(* AsyncServiceClient and its CircuitBreaker: coroutines that share one    *)
(* client (of the supervisor, those of the worker share one and the        *)
(* requests another) call every other service through it, and its breaker  *)
(* counts their failures together.  Time is only that reset_timeout has    *)
(* passed.                                                                 *)
(***************************************************************************)
EXTENDS Integers

CONSTANTS
    Requests,       \* coroutines that call
    Targets,        \* services called
    Threshold,      \* HTTP_CIRCUIT_BREAKER_THRESHOLD
    MaxAttempts     \* HTTP_MAX_RETRIES

ASSUME BreakerAssumption == Threshold \in Nat \ {0} /\ MaxAttempts \in Nat \ {0}

\* How a target answers: up; slow (a timeout, or 5xx and the like); gone (no
\* connection, which is no TimeoutException).
Health == {"up", "slow", "gone"}

VARIABLES
    circuit,   \* state of the breaker
    failures,  \* failure_count, as far as the threshold
    cooled,    \* open, and reset_timeout has passed since opened_at
    health,    \* of each target
    request    \* each coroutine: where it is, its target, its attempts

breaker == <<circuit, failures, cooled>>
breakerVars == <<breaker, health, request>>

\* there: the target knows what is asked for (404 otherwise).
Request == [pc : {"idle", "calling", "failed", "burying"}, target : Targets, there : BOOLEAN,
            n : 0 .. MaxAttempts]

BreakerInit ==
    /\ circuit = "closed" /\ failures = 0 /\ cooled = FALSE
    /\ health = [t \in Targets |-> "up"]
    /\ request \in [Requests -> {[pc |-> "idle", target |-> t, there |-> TRUE, n |-> 0] : t \in Targets}]

-----------------------------------------------------------------------------
\* _can_attempt
CanAttempt_ClosedOnly == circuit = "closed"
CanAttempt == circuit \in {"closed", "half-open"} \/ cooled

Start(r, there) ==
    /\ request[r].pc = "idle"
    /\ IF CanAttempt
       THEN /\ circuit' = IF circuit = "open" THEN "half-open" ELSE circuit
            /\ cooled' = FALSE
            /\ request' = [request EXCEPT ![r] = [@ EXCEPT !.pc = "calling", !.there = there]]
       ELSE /\ request' = [request EXCEPT ![r].pc = "failed"]
            /\ UNCHANGED <<circuit, cooled>>
    /\ UNCHANGED <<failures, health>>

\* The call has failed: the breaker counts it, whatever the failure was and
\* whenever the call began; at the threshold it opens, or opens anew.
Count(r) ==
    LET n == IF failures < Threshold THEN failures + 1 ELSE failures IN
    /\ failures' = n
    /\ circuit' = IF n >= Threshold THEN "open" ELSE circuit
    /\ cooled' = IF n >= Threshold THEN FALSE ELSE cooled
    /\ request' = [request EXCEPT ![r] = [@ EXCEPT !.pc = "failed", !.n = 0, !.there = TRUE]]

\* A success closes the breaker, whenever the call began.
Close_KeepsCount(r) == circuit' = "closed" /\ cooled' = FALSE /\ UNCHANGED failures
Close(r) == circuit' = "closed" /\ cooled' = FALSE /\ failures' = 0

Succeed(r) ==
    /\ request[r].pc = "calling"
    /\ health[request[r].target] = "up" /\ request[r].there
    /\ Close(r)
    /\ request' = [request EXCEPT ![r] = [@ EXCEPT !.pc = "idle", !.n = 0]]
    /\ UNCHANGED health

\* Only a timeout and some statuses are worth another attempt.
TryAgain(r) ==
    /\ request[r].pc = "calling"
    /\ health[request[r].target] = "slow"
    /\ request[r].n + 1 < MaxAttempts
    /\ request' = [request EXCEPT ![r].n = request[r].n + 1]
    /\ UNCHANGED <<breaker, health>>
GiveUp(r) ==
    /\ request[r].pc = "calling"
    /\ health[request[r].target] = "slow"
    /\ request[r].n + 1 >= MaxAttempts
    /\ Count(r)
    /\ UNCHANGED health
Refused(r) ==
    /\ request[r].pc = "calling"
    /\ \/ health[request[r].target] = "gone"
       \/ health[request[r].target] = "up" /\ ~request[r].there
    /\ Count(r)
    /\ UNCHANGED health

\* reset_timeout after the breaker was last opened.
CoolDown ==
    /\ circuit = "open" /\ ~cooled
    /\ cooled' = TRUE
    /\ UNCHANGED <<circuit, failures, health, request>>

Restore(t) ==
    /\ health[t] # "up"
    /\ health' = [health EXCEPT ![t] = "up"]
    /\ UNCHANGED <<breaker, request>>
Degrade(t) ==
    /\ \E h \in {"slow", "gone"} : h # health[t] /\ health' = [health EXCEPT ![t] = h]
    /\ UNCHANGED <<breaker, request>>

CallStep(r) == Start(r, TRUE) \/ Succeed(r) \/ TryAgain(r) \/ GiveUp(r) \/ Refused(r)

-----------------------------------------------------------------------------
\* Every variable has its shape, and the breaker is closed exactly while fewer
\* calls than the threshold have failed since the last success, also when calls
\* end that began before it opened.
BreakerTypeOK ==
    /\ circuit \in {"closed", "open", "half-open"}
    /\ failures \in 0 .. Threshold
    /\ cooled \in BOOLEAN
    /\ health \in [Targets -> Health]
    /\ request \in [Requests -> Request]
    /\ circuit = "closed" <=> failures < Threshold
    /\ cooled => circuit = "open"

\* All targets are up, and no call asks one for what it does not know.
Calm == /\ \A t \in Targets : health[t] = "up"
        /\ \A r \in Requests : request[r].there

\* When that holds from some time on, the breaker closes for good: no caller is
\* refused for ever, whichever calls of before end when.  A target that is up but
\* goes on to answer 404 keeps the breaker opening; the hypothesis excludes it.
BreakerRecovers == <>[]Calm => <>[](circuit = "closed")
=============================================================================

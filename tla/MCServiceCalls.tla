--------------------------- MODULE MCServiceCalls ---------------------------
EXTENDS ServiceCalls, TLC

\* Both requests are about the same incident.
SameLetter == [r \in Requests |-> "incident"]

\* One clerk and an outage, or two clerks and none.
CONSTANTS c1, c2
SomeStarts == {[clerks |-> {c1}, faults |-> 1], [clerks |-> {c1, c2}, faults |-> 0]}
=============================================================================

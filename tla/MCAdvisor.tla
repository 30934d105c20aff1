----------------------------- MODULE MCAdvisor -----------------------------
EXTENDS Advisor, TLC

CONSTANTS a1, a2, q1, q2

SomeMixes == {{a1, a2}, {a1, q1}, {q1, q2}}

SomeSituations == {[saw |-> "open", alerts |-> "burst"],
                   [saw |-> "mitigating", alerts |-> "other"]}

\* At the threshold and just below it; no number; a human wanted; nothing said.
SomeReplies == {[confidence |-> Number(60), human |-> FALSE, next |-> "investigating"],
                [confidence |-> Number(59), human |-> FALSE, next |-> "mitigating"],
                [confidence |-> NaN, human |-> FALSE, next |-> "escalated"],
                [confidence |-> Text, human |-> FALSE, next |-> "resolved"],
                [confidence |-> Absent, human |-> TRUE, next |-> "absent"]}
=============================================================================

---------------------------- MODULE MCAlertGroups ----------------------------
(* An instance of AlertGroups for TLC, with two kinds of start.              *)
EXTENDS AlertGroups, TLC

CONSTANTS g1, g2, a1, a2

About(group, kind) == [group |-> group, kind |-> kind]
And(second) == (a1 :> About(g1, "firing")) @@ (a2 :> second)
Active(group) == [group |-> group, status |-> "active", seen |-> 0]

\* One request beside the polls, for a group's first alert; the second alert
\* is of the same group, firing or resolved, or of another one.
First ==
    [about : {And(About(g1, "firing")), And(About(g1, "resolved")), And(About(g2, "firing"))},
     rows : {[i \in Ids |-> NoRow]}, posts : {1}, faults : {1}]

\* Two requests beside the polls, for alerts of two groups, each with an active
\* incident: two batches lock both incidents, in either order.
Later ==
    [about : {And(About(g2, "firing")), And(About(g2, "resolved"))},
     rows : {[i \in Ids |-> CASE i = 1 -> Active(g1) [] i = 2 -> Active(g2) [] OTHER -> NoRow]},
     posts : {2}, faults : {0}]

FirstOrLater == First \cup Later
==============================================================================

\* Two sessions and two alerts: a group's first alerts with one request beside the
\* polls, or later ones with two.
CONSTANTS
    g1 = g1
    g2 = g2
    a1 = a1
    a2 = a2
    Groups = {g1, g2}
    Alerts = {a1, a2}
    Sessions = {s1, s2}
    MaxPosts = 2
    MaxIncidents = 3
    MaxFaults = 1
    Starts <- FirstOrLater
SPECIFICATION FairSpec
INVARIANTS
    TypeOK
    OneActiveUnlessDisturbed
PROPERTIES
    EveryActiveAlertIngested
    EverySessionEnds

\* Three calls, two keys, two operators, and everything that can go wrong at once.
CONSTANTS
    Calls = {c1, c2, c3}
    Keys = {k1, k2}
    Fetching = TRUE
    EnvWebhook = FALSE
    Writers = {w1, w2}
    NotLoaded = NotLoaded
    MaxSaves = 2
    MaxDeletes = 1
    MaxCrashes = 1
    MaxDbFaults = 1
SPECIFICATION Spec
SYMMETRY Symmetry
INVARIANTS
    TypeOK
    PostedAtMostOnce
    RecordIsTrue
    NothingLostByFailures
\* Each call is one request: when all have ended the model rests.
CHECK_DEADLOCK FALSE

--------------------------- MODULE AnalysisJobs ---------------------------
(***************************************************************************)
(* What the queue promises of each analysis job, without workers, retries  *)
(* or transactions: a job waits or runs; it is analysed at most once, and  *)
(* only while it runs; its report comes after its analysis; it settles     *)
(* when both exist, or it is given up for good.                            *)
(***************************************************************************)
CONSTANT Jobs

VARIABLES phase, analysed, reported

vars == <<phase, analysed, reported>>

Phase == {"none", "waiting", "running", "settled", "dead"}

Init ==
    /\ phase = [j \in Jobs |-> "none"]
    /\ analysed = [j \in Jobs |-> FALSE]
    /\ reported = [j \in Jobs |-> FALSE]

Move(j, from, to) ==
    /\ phase[j] \in from
    /\ phase' = [phase EXCEPT ![j] = to]
    /\ UNCHANGED <<analysed, reported>>

\* The alerts of one POST are submitted together.
Submit(some) ==
    /\ \A j \in some : phase[j] = "none"
    /\ phase' = [j \in Jobs |-> IF j \in some THEN "waiting" ELSE phase[j]]
    /\ UNCHANGED <<analysed, reported>>

Start(j) == Move(j, {"waiting"}, "running")
GiveBack(j) == Move(j, {"running"}, "waiting")
Bury(j) == Move(j, {"running"}, "dead")

Settle(j) ==
    /\ analysed[j] /\ reported[j]
    /\ Move(j, {"running"}, "settled")

\* The worker was not told that the job is settled, and takes it for failed.
Unsettle(j) == Move(j, {"settled"}, "waiting") \/ Move(j, {"settled"}, "dead")

Analyse(j) ==
    /\ phase[j] = "running"
    /\ ~analysed[j]
    /\ analysed' = [analysed EXCEPT ![j] = TRUE]
    /\ UNCHANGED <<phase, reported>>

\* A report may come late, when its job waits for a retry or was given up.
Report(j) ==
    /\ analysed[j]
    /\ reported' = [reported EXCEPT ![j] = TRUE]
    /\ UNCHANGED <<phase, analysed>>

\* Jobs are removed with all they produced.
Drop(gone) ==
    /\ phase' = [j \in Jobs |-> IF j \in gone THEN "none" ELSE phase[j]]
    /\ analysed' = [j \in Jobs |-> j \notin gone /\ analysed[j]]
    /\ reported' = [j \in Jobs |-> j \notin gone /\ reported[j]]

Next ==
    \/ \E j \in Jobs :
         \/ Start(j) \/ GiveBack(j) \/ Bury(j) \/ Settle(j)
         \/ Unsettle(j) \/ Analyse(j) \/ Report(j)
    \/ \E some \in SUBSET Jobs : Submit(some) \/ Drop(some)

Spec == Init /\ [][Next]_vars
=============================================================================

------------------------- MODULE MCSupervisorQueue -------------------------
(* Instances of SupervisorQueue for TLC. *)
EXTENDS SupervisorQueue, TLC

Symmetry == Permutations(Workers) \cup Permutations(Incidents)

\* Ingestion calls for every incident; POST /queue/analyze for none, one or all.
Ingestion == {"ingest"} \X Incidents
AndOneByHand == Ingestion \cup {<<"manual", CHOOSE i \in Incidents : TRUE>>}
AndAllByHand == Ingestion \cup {"manual"} \X Incidents
=============================================================================

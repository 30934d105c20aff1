-------------------------- MODULE MCIncidentStream --------------------------
(* Instances of IncidentStream for TLC: no symmetry, the runs check liveness. *)
EXTENDS IncidentStream, TLC
=============================================================================

-------------------------- MODULE MCReportDelivery --------------------------
EXTENDS ReportDelivery, TLC

\* Calls differ in nothing but their key, keys and writers in nothing at all.
Symmetry == Permutations(Calls) \cup Permutations(Keys) \cup Permutations(Writers)
=============================================================================

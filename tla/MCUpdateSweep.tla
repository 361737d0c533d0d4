--------------------------- MODULE MCUpdateSweep ---------------------------
(* Instances of UpdateSweep for TLC: two records, three days. *)
EXTENDS UpdateSweep

CONSTANTS s1, s2
=============================================================================

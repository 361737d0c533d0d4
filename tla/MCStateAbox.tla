---------------------------- MODULE MCStateAbox ----------------------------
(* An instance of StateAbox for TLC; names can be exchanged for each other. *)
EXTENDS StateAbox, TLC

CONSTANTS n1, n2

NameSymmetry == Permutations(Names)
=============================================================================

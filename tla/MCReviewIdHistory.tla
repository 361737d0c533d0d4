------------------------- MODULE MCReviewIdHistory -------------------------
(***************************************************************************)
(* Instances of ReviewIdHistory for TLC: one clone in full detail, the     *)
(* others through PushElsewhere; two refs and five commits are enough for  *)
(* add, delete, a merge and its two parents.                               *)
(***************************************************************************)
EXTENDS ReviewIdHistory
=============================================================================

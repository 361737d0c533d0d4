-------------------------- MODULE MCReviewSurface --------------------------
(* Instance of ReviewSurface for TLC. *)
EXTENDS ReviewSurface, TLC
=============================================================================

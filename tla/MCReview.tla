------------------------------- MODULE MCReview ------------------------------
(* Finite constants for Review: two drafts with different configurations. *)
EXTENDS Review, TLC

CONSTANTS v1, v2, c1, c2

TwoDrafts == v1 :> c1 @@ v2 :> c2
==============================================================================

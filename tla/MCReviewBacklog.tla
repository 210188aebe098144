-------------------------- MODULE MCReviewBacklog --------------------------
(* Small instances of ReviewBacklog. *)
EXTENDS ReviewBacklog
=============================================================================

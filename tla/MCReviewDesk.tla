---------------------------- MODULE MCReviewDesk ----------------------------
(* A patient and a hasty reviewer of one thread.                            *)
EXTENDS ReviewDesk
=============================================================================

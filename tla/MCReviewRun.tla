---------------------------- MODULE MCReviewRun ----------------------------
(* Small instances of ReviewRun.                                           *)
EXTENDS ReviewRun
=============================================================================

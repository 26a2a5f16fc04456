---------------------------- MODULE MCConnection ----------------------------
(* Two attempts that may overlap.  The slots are interchangeable, but the  *)
(* liveness properties forbid a symmetry set.                              *)
EXTENDS Connection, TLC

=============================================================================

---------------------------- MODULE MCMapReduce ----------------------------
(* MapReduce for TLC; without symmetry, since liveness is checked. *)
EXTENDS MapReduce, TLC
=============================================================================

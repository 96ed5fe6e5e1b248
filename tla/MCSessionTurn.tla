--------------------------- MODULE MCSessionTurn ---------------------------
(* SessionTurn on small instances.  Runs are interchangeable; symmetry is  *)
(* used in the runs that check no liveness.                                *)
EXTENDS SessionTurn, TLC
RunSymmetry == Permutations(Runs)
=============================================================================

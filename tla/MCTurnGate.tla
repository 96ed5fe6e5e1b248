----------------------------- MODULE MCTurnGate -----------------------------
(* TurnGate on a small instance: more turns than slots and queue places    *)
(* together, and capacities from none to more than the turns.              *)
EXTENDS TurnGate
=============================================================================

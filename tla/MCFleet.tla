------------------------------ MODULE MCFleet ------------------------------
(* Fleet on a small instance: two turns, one queue place, up to two        *)
(* replicas of one turn each, a floor of none and scale-to-zero.           *)
EXTENDS Fleet
=============================================================================

---------------------------- MODULE MCEnvRunner ----------------------------
(* EnvRunner on small instances: two requests at a time, and one failure   *)
(* of a static workspace's.                                                *)
EXTENDS EnvRunner, TLC
Failures == "static" :> 1 @@ "auto-scaling" :> 0
NoFailures == [m \in Modes |-> 0]
=============================================================================

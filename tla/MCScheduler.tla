---------------------------- MODULE MCScheduler ----------------------------
(* Scheduler on small instances: two jobs of the kinds that share           *)
(* something, with two accidents where notices and sweeps must survive one  *)
(* another's.                                                               *)
EXTENDS Scheduler, TLC

Lives == {"chat"} :> 2 @@ {"batch"} :> 1 @@ {"cron"} :> 1
Crons == {"cron"} :> 1
=============================================================================

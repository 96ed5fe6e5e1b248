------------------------------ MODULE JobQueue ------------------------------
(***************************************************************************)
(* The agent-session queue and the scheduler process that works it         *)
(* (scheduler/src/index.ts, control-plane/src/lib/jobs.ts).                *)
(*                                                                         *)
(* pg-boss keeps one row per job.  A live worker fetches a created job and *)
(* runs its handler; nothing is retried (retryLimit 0).  Heartbeats stop   *)
(* when the process dies, and a monitor then fails the job.  A handler is  *)
(* a promise: once the monitor has failed the job of a live process, the   *)
(* handler still runs to its end, and only its verdict is dropped.  pg-boss*)
(* is external and is modelled from the options the code gives it.         *)
(***************************************************************************)
EXTENDS Naturals, FiniteSets

CONSTANTS Jobs,       \* job ids
          None,
          Workers     \* localConcurrency: handlers that may run at a time

ASSUME QueueAssumption ==
  /\ None \notin Jobs
  /\ Workers \in Nat \ {0}

VARIABLES kind,    \* what each job is: data.trigger.type
          job,     \* the row's state in pg-boss
          pc,      \* where the job's handler stands; "idle": there is none
          up,      \* the scheduler process runs
          dlq,     \* the job's dead-letter copy, and who failed the job
          trouble, \* accidents that may still happen (a bound)
          odd      \* jobs an accident happened to (history)

queueVars == <<job, pc, up, dlq, trouble, odd>>

Kinds == {"chat", "cron", "batch"}
JobState == {"absent", "created", "active", "completed", "failed", "cancelled"}
Ended == {"completed", "failed", "cancelled"}
Of(k) == {j \in Jobs : kind[j] = k}
Serving == {j \in Jobs : pc[j] # "idle"}

(* One more accident, which happens to the jobs of S. *)
Accident(S) ==
  /\ trouble > 0
  /\ trouble' = trouble - 1
  /\ odd' = odd \cup S
NoAccident == UNCHANGED <<trouble, odd>>

(* sendJob: the row appears.  A queued job that is cancelled is never      *)
(* fetched; cancelling a job that runs or has ended is ignored.            *)
Sent(j) == job[j] = "absent" /\ job' = [job EXCEPT ![j] = "created"]
Cancelled(t) == IF t # None /\ job[t] = "created" THEN [job EXCEPT ![t] = "cancelled"] ELSE job

(* boss.work: a free worker fetches the job and calls the handler. *)
Fetch(j, first) ==
  /\ up
  /\ job[j] = "created"
  /\ Cardinality(Serving) < Workers
  /\ job' = [job EXCEPT ![j] = "active"]
  /\ pc' = [pc EXCEPT ![j] = first]
  /\ UNCHANGED <<up, dlq>> /\ NoAccident

(* The handler's promise settles: pg-boss records the verdict, unless the  *)
(* monitor was there first, and copies a failed job to the dead letters.   *)
Settled(j, verdict) ==
  /\ pc' = [pc EXCEPT ![j] = "idle"]
  /\ job' = IF job[j] = "active" THEN [job EXCEPT ![j] = verdict] ELSE job
  /\ dlq' = IF job[j] = "active" /\ verdict = "failed" THEN [dlq EXCEPT ![j] = "own"] ELSE dlq
  /\ UNCHANGED up /\ NoAccident

MMonitorRetries(j) ==
  /\ job[j] = "active"
  /\ pc[j] = "idle"
  /\ job' = [job EXCEPT ![j] = "created"]
  /\ UNCHANGED <<pc, up, dlq>> /\ NoAccident

(* The monitor fails a job without a heartbeat: its process is gone. *)
MonitorFails(j) ==
  /\ job[j] = "active"
  /\ pc[j] = "idle"
  /\ job' = [job EXCEPT ![j] = "failed"]
  /\ dlq' = [dlq EXCEPT ![j] = "lost"]
  /\ UNCHANGED <<pc, up>> /\ NoAccident

(* Heartbeats that did not reach the database, or a job that ran into its  *)
(* 12 hour expiry: the job is failed under a handler that lives on.        *)
MonitorFailsLive(j) ==
  /\ job[j] = "active"
  /\ pc[j] # "idle"
  /\ Accident({j})
  /\ job' = [job EXCEPT ![j] = "failed"]
  /\ dlq' = [dlq EXCEPT ![j] = "lost"]
  /\ UNCHANGED <<pc, up>>

(* The process dies with every handler in it. *)
Die(S) ==
  /\ up
  /\ Accident(S)
  /\ up' = FALSE
  /\ pc' = [j \in Jobs |-> "idle"]
  /\ UNCHANGED <<job, dlq>>

Restarted ==
  /\ ~up
  /\ up' = TRUE
  /\ UNCHANGED <<job, pc, dlq>> /\ NoAccident

(* A step of j's handler that moves it to p and nothing else of the queue. *)
Goes(j, p) == pc' = [pc EXCEPT ![j] = p] /\ UNCHANGED <<job, up, dlq>> /\ NoAccident

QueueTypes ==
  /\ kind \in [Jobs -> Kinds]
  /\ job \in [Jobs -> JobState]
  /\ up \in BOOLEAN
  /\ dlq \in [Jobs -> {"none", "own", "lost", "handled"}]
  /\ trouble \in 0..2
  /\ odd \in SUBSET Jobs
=============================================================================

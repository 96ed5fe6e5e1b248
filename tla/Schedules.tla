----------------------------- MODULE Schedules -----------------------------
(***************************************************************************)
(* A schedule and its timer                                                *)
(* (control-plane/src/routes/workspaces/schedules.ts, lib/jobs.ts).        *)
(*                                                                         *)
(* A one-time schedule is a row that names the delayed job that will fire  *)
(* it; a recurring one is a row plus a cron registration under its key.    *)
(* PATCH and DELETE read the row, write it, cancel the timer they read and *)
(* register a new one, a query or a call at a time, and nothing keeps two  *)
(* of them apart.  The job itself reads the row when it runs and, for a    *)
(* one-time schedule, closes it (scheduler/src/handler.ts).                *)
(***************************************************************************)
EXTENDS JobQueue

CONSTANTS Requests   \* PATCH and DELETE requests that may be under way

VARIABLES mode,   \* "once" (run_at) or "recurring" (cron)
          sched,  \* the schedules row
          cron,   \* pg-boss holds a cron registration for it
          rq,     \* the requests: where each stands and what it has read
          fires   \* turns started for the schedule (history)

schedVars == <<sched, cron, rq, fires>>

AtRest == [at |-> "idle", ex |-> None, on |-> FALSE, new |-> None]
Idle(r) == rq[r].at = "idle"
Leave(r) == rq' = [rq EXCEPT ![r] = AtRest]
Step(r, p) == rq' = [rq EXCEPT ![r].at = p]

(* A schedule that was created and registered: timer is the job that       *)
(* enqueueScheduleTimer sent for it.                                       *)
Created(timer) == [exists |-> TRUE, enabled |-> TRUE, completed |-> FALSE, timer |-> timer]

-----------------------------------------------------------------------------
(* PATCH: read the row; a completed one-time schedule is refused.  The     *)
(* body may set enabled or change the time only, which keeps it.           *)
PatchReads(r) ==
  /\ Idle(r) /\ sched.exists /\ ~sched.completed
  /\ rq' = [rq EXCEPT ![r].at = "read", ![r].ex = sched.timer]
  /\ UNCHANGED <<sched, cron, fires, queueVars>>

(* updateSchedule returns the row it wrote; what follows goes by that row. *)
PatchWrites(r) ==
  /\ rq[r].at = "read"
  /\ IF sched.exists
     THEN \E on \in BOOLEAN :
            /\ sched' = [sched EXCEPT !.enabled = on]
            /\ rq' = [rq EXCEPT ![r].at = "wrote", ![r].on = on]
     ELSE Leave(r) /\ UNCHANGED sched
  /\ UNCHANGED <<cron, fires, queueVars>>

(* cancelScheduleTimer, of the timer that was read at the start. *)
ClearTimer(t) ==
  IF mode = "recurring" THEN cron' = FALSE /\ UNCHANGED job
  ELSE job' = Cancelled(t) /\ UNCHANGED cron

PatchClears(r) ==
  /\ rq[r].at = "wrote"
  /\ ClearTimer(rq[r].ex)
  /\ Step(r, "cleared")
  /\ UNCHANGED <<sched, fires, pc, up, dlq>> /\ NoAccident

MArmAlways(r) == rq[r].at = "cleared" /\ Leave(r) /\ UNCHANGED <<sched, cron, fires, queueVars>>

(* enqueueScheduleTimer for an enabled row; for a disabled one the timer   *)
(* is erased from the row if the row had one when it was read.             *)
PatchArms(r) ==
  /\ rq[r].at = "cleared"
  /\ \/ /\ rq[r].on /\ mode = "recurring"
        /\ cron' = TRUE
        /\ Leave(r) /\ UNCHANGED job
     \/ /\ rq[r].on /\ mode = "once"
        /\ \E j \in Of("cron") :
              Sent(j) /\ rq' = [rq EXCEPT ![r].at = "armed", ![r].new = j]
        /\ UNCHANGED cron
     \/ /\ ~rq[r].on
        /\ IF rq[r].ex # None THEN Step(r, "armed") ELSE Leave(r)
        /\ UNCHANGED <<job, cron>>
  /\ UNCHANGED <<sched, fires, pc, up, dlq>> /\ NoAccident

(* The second updateSchedule: the row names the new timer, or none. *)
PatchNames(r) ==
  /\ rq[r].at = "armed"
  /\ sched' = IF sched.exists THEN [sched EXCEPT !.timer = rq[r].new] ELSE sched
  /\ Leave(r)
  /\ UNCHANGED <<cron, fires, queueVars>>

(* DELETE: read, cancel the timer that was read, delete the row. *)
DeleteReads(r) ==
  /\ Idle(r) /\ sched.exists
  /\ rq' = [rq EXCEPT ![r].at = "doomed", ![r].ex = sched.timer]
  /\ UNCHANGED <<sched, cron, fires, queueVars>>

DeleteClears(r) ==
  /\ rq[r].at = "doomed"
  /\ ClearTimer(rq[r].ex)
  /\ Step(r, "deleting")
  /\ UNCHANGED <<sched, fires, pc, up, dlq>> /\ NoAccident

DeleteDeletes(r) ==
  /\ rq[r].at = "deleting"
  /\ sched' = [sched EXCEPT !.exists = FALSE, !.enabled = FALSE]
  /\ Leave(r)
  /\ UNCHANGED <<cron, fires, queueVars>>

(* POST run: one more job, beside the timer. *)
RunNow(j) ==
  /\ kind[j] = "cron" /\ sched.exists
  /\ Sent(j)
  /\ UNCHANGED <<schedVars, pc, up, dlq>> /\ NoAccident

(* pg-boss sends a job at each tick of a registered cron. *)
CronTick(j) ==
  /\ kind[j] = "cron" /\ cron
  /\ Sent(j)
  /\ UNCHANGED <<schedVars, pc, up, dlq>> /\ NoAccident

-----------------------------------------------------------------------------
(* The cron branch of executeJob: skip a schedule that is gone or          *)
(* disabled, or whose owner has no platform token (an accident).           *)
ReadSchedule(j) ==
  /\ pc[j] = "sched"
  /\ \/ ~sched.enabled /\ Goes(j, "free")
     \/ sched.enabled /\ Goes(j, "mark")
     \/ /\ sched.enabled
        /\ Accident({j})
        /\ pc' = [pc EXCEPT ![j] = "free"]
        /\ UNCHANGED <<job, up, dlq>>
  /\ UNCHANGED schedVars

(* markScheduleCompleted, before executing, if the schedule is one-time. *)
MarkCompleted(j) ==
  /\ pc[j] = "mark"
  /\ sched' = IF mode = "once" /\ sched.exists
              THEN [sched EXCEPT !.completed = TRUE, !.enabled = FALSE, !.timer = None]
              ELSE sched
  /\ fires' = fires + 1
  /\ Goes(j, "turn")
  /\ UNCHANGED <<cron, rq>>

ScheduleRoutes ==
  \/ \E r \in Requests :
        \/ PatchReads(r) \/ PatchWrites(r) \/ PatchClears(r) \/ PatchArms(r) \/ PatchNames(r)
        \/ DeleteReads(r) \/ DeleteClears(r) \/ DeleteDeletes(r)
  \/ \E j \in Jobs : RunNow(j) \/ CronTick(j)

ScheduleRow == [exists : BOOLEAN, enabled : BOOLEAN, completed : BOOLEAN, timer : Jobs \cup {None}]
Request == [at : {"idle", "read", "wrote", "cleared", "armed", "doomed", "deleting"},
            ex : Jobs \cup {None}, on : BOOLEAN, new : Jobs \cup {None}]
ScheduleTypes ==
  /\ mode \in {"once", "recurring"}
  /\ sched \in ScheduleRow
  /\ cron \in BOOLEAN
  /\ rq \in [Requests -> Request]
  /\ fires \in Nat
=============================================================================

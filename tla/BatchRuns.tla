----------------------------- MODULE BatchRuns -----------------------------
(***************************************************************************)
(* A batch run: its creation and cancellation                              *)
(* (control-plane/src/routes/batch-runs.ts) and the handler of its jobs    *)
(* (scheduler/src/handler.ts, handleBatchJob).                             *)
(*                                                                         *)
(* The run's status is written by three parties that do not know of each   *)
(* other: the creator when its tasks are queued, the handler that finds    *)
(* every task done, and the canceller.  A job waits for its task in a loop *)
(* that only a claim of the task ends.                                     *)
(***************************************************************************)
EXTENDS JobQueue

CONSTANTS Concurrency  \* batch_runs.concurrency

VARIABLES task,     \* batch_tasks.status, by the job that runs the task
          run,      \* batch_runs.status
          creating, \* POST /api/batch-runs has not answered
          cancel,   \* DELETE: "idle" or "busy"
          hit       \* the tasks its list still has to cancel

batchVars == <<task, run, creating, cancel, hit>>

TaskDone == {"completed", "failed", "cancelled"}
Tasks == {j \in Jobs : task[j] # "none"}
RunningTasks == {j \in Jobs : task[j] = "running"}
AllDone == \A j \in Tasks : task[j] \in TaskDone

(* updateBatchTask by id: whatever status stands there, if the row exists. *)
TaskSet(j, s) == IF task[j] = "none" THEN task ELSE [task EXCEPT ![j] = s]

-----------------------------------------------------------------------------
(* createBatchTask and sendJob, for each task of the body in turn. *)
CreateTask(j) ==
  /\ kind[j] = "batch" /\ creating
  /\ Sent(j)
  /\ task' = [task EXCEPT ![j] = "queued"]
  /\ UNCHANGED <<run, creating, cancel, hit, pc, up, dlq>> /\ NoAccident

(* "Mark as running", over whatever the handlers have written. *)
MarkRunning ==
  /\ creating
  /\ \A j \in Of("batch") : task[j] # "none"
  /\ run' = "running"
  /\ creating' = FALSE
  /\ UNCHANGED <<task, cancel, hit, queueVars>>

(* DELETE: refused for a run that is over; lists the tasks, cancels those  *)
(* the list shows queued, one update at a time, and closes the run.        *)
CancelLists ==
  /\ cancel = "idle"
  /\ run \in {"queued", "running"}
  /\ Tasks # {}
  /\ cancel' = "busy"
  /\ hit' = {j \in Jobs : task[j] = "queued"}
  /\ UNCHANGED <<task, run, creating, queueVars>>

CancelTask(j) ==
  /\ j \in hit
  /\ task' = TaskSet(j, "cancelled")
  /\ hit' = hit \ {j}
  /\ UNCHANGED <<run, creating, cancel, queueVars>>

CancelCloses ==
  /\ cancel = "busy" /\ hit = {}
  /\ run' = "cancelled"
  /\ cancel' = "idle"
  /\ UNCHANGED <<task, creating, hit, queueVars>>

-----------------------------------------------------------------------------
(* tryClaimBatchTask: the UPDATE counts the running tasks in its snapshot, *)
(* then writes the row if it still reads 'queued'; another claim's write   *)
(* may fall between.  A refused claim is tried again, for ever.            *)
ClaimCounts(j) ==
  /\ pc[j] = "wait"
  /\ task[j] = "queued"
  /\ Cardinality(RunningTasks) < Concurrency
  /\ Goes(j, "take")
  /\ UNCHANGED batchVars

ClaimTakes(j) ==
  /\ pc[j] = "take"
  /\ IF task[j] = "queued"
     THEN task' = [task EXCEPT ![j] = "running"] /\ Goes(j, "run")
     ELSE Goes(j, "wait") /\ UNCHANGED task
  /\ UNCHANGED <<run, creating, cancel, hit>>

(* The turn, and the task's outcome written over whatever stands there. *)
BatchTurn(j) ==
  /\ pc[j] = "run"
  /\ \E outcome \in {"completed", "failed"} : task' = TaskSet(j, outcome)
  /\ Goes(j, "check")
  /\ UNCHANGED <<run, creating, cancel, hit>>

MCheckOnce(j) ==
  /\ pc[j] = "check"
  /\ IF \A i \in Tasks \ {j} : task[i] = "completed" THEN Goes(j, "close") ELSE Goes(j, "done")
  /\ UNCHANGED batchVars

(* checkBatchRunCompletion, over the tasks there are by now. *)
BatchCheck(j) ==
  /\ pc[j] = "check"
  /\ IF AllDone THEN Goes(j, "close") ELSE Goes(j, "done")
  /\ UNCHANGED batchVars

BatchClose(j) ==
  /\ pc[j] = "close"
  /\ run' = "completed"
  /\ Goes(j, "done")
  /\ UNCHANGED <<task, creating, cancel, hit>>

BatchHandler(j) ==
  \/ ClaimCounts(j) \/ ClaimTakes(j) \/ BatchTurn(j) \/ BatchCheck(j) \/ BatchClose(j)

BatchRoutes ==
  \/ \E j \in Jobs : CreateTask(j) \/ CancelTask(j)
  \/ MarkRunning \/ CancelLists \/ CancelCloses

BatchTypes ==
  /\ task \in [Jobs -> {"none", "queued", "running"} \cup TaskDone]
  /\ run \in {"queued", "running", "completed", "cancelled"}
  /\ creating \in BOOLEAN
  /\ cancel \in {"idle", "busy"}
  /\ hit \in SUBSET Jobs
=============================================================================

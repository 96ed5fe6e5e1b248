----------------------------- MODULE Scheduler -----------------------------
(***************************************************************************)
(* The scheduler: the handler of agent-session jobs                        *)
(* (scheduler/src/handler.ts, db.ts, lost-job.ts, index.ts) with the       *)
(* schedules and batch runs it serves, over one queue and one pool of      *)
(* workers.  One workspace, whose slots the jobs share, and one channel    *)
(* thread, whose messages are the "chat" jobs.                             *)
(*                                                                         *)
(* handleJob claims a workspace slot, and executeJob then reads the        *)
(* schedule (cron) or takes the thread's advisory lock and reads the       *)
(* session bound to the thread (chat), runs the turn, answers the source,  *)
(* and binds the thread; its finallys give back lock and slot.  A session  *)
(* is named by the job that started it.                                    *)
(***************************************************************************)
EXTENDS Schedules, BatchRuns

CONSTANTS Cap,    \* workspace_config.max_concurrency
          Budget  \* the sets of kinds of jobs that are put together, and the
                  \* accidents each may meet

(* No more accidents than a lost-job notice has retries. *)
ASSUME SchedulerAssumption ==
  /\ Cap \in Nat \ {0}
  /\ Concurrency \in Nat \ {0}
  /\ DOMAIN Budget \subseteq SUBSET Kinds
  /\ \A mix \in DOMAIN Budget : Budget[mix] \in 0..2

VARIABLES slots,    \* ws_concurrency_slots, by job
          old,      \* those claimed more than three hours ago
          lock,     \* holder of the thread's advisory lock
          row,      \* the thread's session (channel.thread_sessions)
          sess,     \* the session each job's turn resumes or has started
          started,  \* jobs whose turn has sent session.started
          binds,    \* early binds of the thread under way, <<job, session>>
          late,     \* history: sessions that an early bind of an earlier turn put into
                    \* the row since the lock was last taken
          told,     \* what the handler has done about each job's source: sent the answer, an
                    \* error or a notice, tried and was refused, or had nothing to say
          gone      \* the workspace was deleted

chatVars == <<lock, row, sess, started, binds, late>>
schedulerVars == <<slots, old, chatVars, told, gone>>
vars == <<queueVars, schedVars, batchVars, schedulerVars, kind, mode>>

Positions == {"idle", "claim", "insert", "sched", "mark", "lock", "read", "turn", "reply",
              "bind", "oops", "free", "freeF", "done", "doneF",
              "wait", "take", "run", "check", "close"}
Executing == {"sched", "mark", "lock", "read", "turn", "reply", "bind", "oops", "free", "freeF"}
Word == {"answer", "quiet", "error", "lost", "refused"}

Init ==
  /\ kind \in [Jobs -> Kinds]
  /\ \E mix \in DOMAIN Budget : {kind[j] : j \in Jobs} = mix /\ trouble = Budget[mix]
  /\ mode \in (IF Of("cron") = {} THEN {"once"} ELSE {"once", "recurring"})
  /\ \E timer \in Jobs \cup {None} :
        /\ IF mode = "once" /\ Of("cron") # {} THEN timer \in Of("cron") ELSE timer = None
        /\ sched = [Created(timer) EXCEPT !.exists = Of("cron") # {}, !.enabled = Of("cron") # {}]
        /\ job = [j \in Jobs |-> IF j = timer THEN "created" ELSE "absent"]
  /\ cron = (mode = "recurring" /\ Of("cron") # {})
  /\ rq = [r \in Requests |-> AtRest]
  /\ fires = 0
  /\ pc = [j \in Jobs |-> "idle"]
  /\ up = TRUE
  /\ dlq = [j \in Jobs |-> "none"]
  /\ odd = {}
  /\ task = [j \in Jobs |-> "none"]
  /\ run = "queued"
  /\ creating = (Of("batch") # {})
  /\ cancel = "idle"
  /\ hit = {}
  /\ slots = {}
  /\ old = {}
  /\ lock = None
  /\ row = None
  /\ sess = [j \in Jobs |-> None]
  /\ started = {}
  /\ binds = {}
  /\ late = {}
  /\ told = [j \in Jobs |-> {}]
  /\ gone = FALSE

-----------------------------------------------------------------------------
(* The workspace slot *)

Says(j, w) == told' = [told EXCEPT ![j] = @ \cup {w}]

(* A message in the channel becomes a job. *)
SendChat(j) ==
  /\ kind[j] = "chat" /\ ~gone
  /\ Sent(j)
  /\ UNCHANGED <<pc, up, dlq, schedVars, batchVars, schedulerVars>> /\ NoAccident

Take(j) ==
  /\ Fetch(j, IF kind[j] = "batch" THEN "wait" ELSE "claim")
  /\ UNCHANGED <<schedVars, batchVars, schedulerVars>>

(* tryClaimWsSlot is one INSERT: it counts the workspace's slots in its    *)
(* snapshot and then adds a row.  A workspace without its config row is    *)
(* never under its cap (the comparison is with NULL).                      *)
SlotCounts(j) ==
  /\ pc[j] = "claim"
  /\ Cardinality(slots) < Cap /\ ~gone
  /\ Goes(j, "insert")
  /\ UNCHANGED <<schedVars, batchVars, schedulerVars>>

SlotInserts(j) ==
  /\ pc[j] = "insert"
  /\ slots' = slots \cup {j}
  /\ Goes(j, IF kind[j] = "cron" THEN "sched" ELSE "lock")
  /\ UNCHANGED <<schedVars, batchVars, old, chatVars, told, gone>>

MReleaseKeepsOld(j) ==
  /\ pc[j] \in {"free", "freeF"}
  /\ slots' = slots \ {j}
  /\ Goes(j, IF pc[j] = "free" THEN "done" ELSE "doneF")
  /\ UNCHANGED <<schedVars, batchVars, old, chatVars, told, gone>>

(* handleJob's finally: releaseWsSlot, whatever executeJob did. *)
SlotReleases(j) ==
  /\ pc[j] \in {"free", "freeF"}
  /\ slots' = slots \ {j}
  /\ old' = old \ {j}
  /\ Goes(j, IF pc[j] = "free" THEN "done" ELSE "doneF")
  /\ UNCHANGED <<schedVars, batchVars, chatVars, told, gone>>

Settle(j) ==
  /\ \/ pc[j] = "done" /\ Settled(j, "completed")
     \/ pc[j] = "doneF" /\ Settled(j, "failed")
  /\ sess' = [sess EXCEPT ![j] = None]
  /\ started' = started \ {j}
  /\ UNCHANGED <<schedVars, batchVars, slots, old, lock, row, binds, late, told, gone>>

Sweep(states) ==
  /\ up
  /\ \E j \in slots : job[j] \in states
  /\ slots' = {j \in slots : job[j] \notin states}
  /\ old' = old \cap slots'
  /\ UNCHANGED <<queueVars, schedVars, batchVars, chatVars, told, gone>>

MSweepCompletedOnly == Sweep({"completed"})
MSweepActiveToo == Sweep({"active"} \cup Ended)
(* cleanupOrphanedWsSlots: every minute, the slots of jobs that ended. *)
SweepOrphans == Sweep(Ended)

(* A slot held for three hours (a turn's idle timer restarts at every      *)
(* event, and a job waits for the thread's lock with its slot in hand);    *)
(* cleanupStaleWsSlots takes it, at boot and every minute.                 *)
SlotAges(j) ==
  /\ j \in slots \ old
  /\ Accident({j})
  /\ old' = old \cup {j}
  /\ UNCHANGED <<job, pc, up, dlq, schedVars, batchVars, slots, chatVars, told, gone>>

SweepStale ==
  /\ up /\ old # {}
  /\ slots' = slots \ old
  /\ old' = {}
  /\ UNCHANGED <<queueVars, schedVars, batchVars, chatVars, told, gone>>

-----------------------------------------------------------------------------
(* executeJob *)

CronBranch(j) == (ReadSchedule(j) \/ MarkCompleted(j)) /\ UNCHANGED <<batchVars, schedulerVars>>

MAcquireBusy(j) ==
  /\ pc[j] = "lock"
  /\ lock' = j
  /\ late' = {}
  /\ Goes(j, "read")
  /\ UNCHANGED <<schedVars, batchVars, slots, old, row, sess, started, binds, told, gone>>

(* pg_advisory_lock on the thread's key. *)
AcquireLock(j) ==
  /\ pc[j] = "lock"
  /\ lock = None
  /\ lock' = j
  /\ late' = {}
  /\ Goes(j, "read")
  /\ UNCHANGED <<schedVars, batchVars, slots, old, row, sess, started, binds, told, gone>>

(* getThreadSession: the session bound to the thread, unless its TTL has   *)
(* passed.                                                                 *)
ReadThread(j) ==
  /\ pc[j] = "read"
  /\ sess' \in {[sess EXCEPT ![j] = s] : s \in {row, None}}
  /\ Goes(j, "turn")
  /\ UNCHANGED <<schedVars, batchVars, slots, old, lock, row, started, binds, late, told, gone>>

(* session.started: the turn's session is known, and a thread is bound to  *)
(* it at once, by an upsert nobody awaits.                                 *)
SessionStarts(j) ==
  /\ pc[j] = "turn" /\ kind[j] = "chat" /\ j \notin started
  /\ started' = started \cup {j}
  /\ sess' = [sess EXCEPT ![j] = IF @ = None THEN j ELSE @]
  /\ binds' = binds \cup {<<j, sess'[j]>>}
  /\ UNCHANGED <<queueVars, schedVars, batchVars, slots, old, lock, row, late, told, gone>>

(* It lands whenever it does, be it after its turn has let go of the lock  *)
(* and the next one has taken it; or it fails, which is logged.            *)
BindLands(j) ==
  /\ \E b \in binds :
       /\ b[1] = j
       /\ binds' = binds \ {b}
       /\ \/ /\ row' = b[2]
             /\ late' = IF lock = j THEN late ELSE late \cup {b[2]}
             /\ NoAccident
          \/ Accident({j}) /\ UNCHANGED <<row, late>>
  /\ UNCHANGED <<job, pc, up, dlq, schedVars, batchVars, slots, old, lock, sess, started, told, gone>>

(* A resumed session whose stream died before session.started is tried     *)
(* once more as a fresh one.                                               *)
ResumeFails(j) ==
  /\ pc[j] = "turn" /\ j \notin started /\ sess[j] # None
  /\ sess' = [sess EXCEPT ![j] = None]
  /\ UNCHANGED <<queueVars, schedVars, batchVars, slots, old, lock, row, started, binds, late,
                 told, gone>>

(* The turn's end: with a text to send, with nothing to say (the channel   *)
(* then hears nothing), or failed (which it may also do before             *)
(* session.started).  The turn of a schedule has no thread to bind, no     *)
(* connector and nobody to answer.                                         *)
TurnEnds(j) ==
  /\ pc[j] = "turn"
  /\ \/ j \in started /\ Goes(j, "reply") /\ UNCHANGED told
     \/ j \in started /\ Goes(j, "bind") /\ Says(j, "quiet")
     \/ kind[j] = "chat" /\ Goes(j, "oops") /\ UNCHANGED told
     \/ kind[j] = "cron" /\ (Goes(j, "free") \/ Goes(j, "freeF")) /\ UNCHANGED told
  /\ UNCHANGED <<schedVars, batchVars, slots, old, chatVars, gone>>

(* sendReply through the channel gateway: delivered; refused, which is     *)
(* logged and nothing else: the channel hears nothing, and nobody tries    *)
(* again; or thrown, whether or not it got through.                        *)
SendReply(j) ==
  /\ pc[j] = "reply"
  /\ \/ Goes(j, "bind") /\ Says(j, "answer")
     \/ /\ Accident({j})
        /\ \/ pc' = [pc EXCEPT ![j] = "bind"] /\ Says(j, "refused")
           \/ pc' = [pc EXCEPT ![j] = "oops"] /\ (UNCHANGED told \/ Says(j, "answer"))
        /\ UNCHANGED <<job, up, dlq>>
  /\ UNCHANGED <<schedVars, batchVars, slots, old, chatVars, gone>>

(* The upsert after the reply; then executeJob's finally drops the lock    *)
(* with its connection.                                                    *)
BindThread(j) ==
  /\ pc[j] = "bind"
  /\ row' = sess[j]
  /\ lock' = IF lock = j THEN None ELSE lock
  /\ Goes(j, "free")
  /\ UNCHANGED <<schedVars, batchVars, slots, old, sess, started, binds, late, told, gone>>

(* The catch: sendErrorReply, which swallows its own failure; the lock     *)
(* goes, and the job will be failed.                                       *)
SendErrorReply(j) ==
  /\ pc[j] = "oops"
  /\ \/ Goes(j, "freeF") /\ Says(j, "error")
     \/ /\ Accident({j})
        /\ pc' = [pc EXCEPT ![j] = "freeF"]
        /\ Says(j, "refused")
        /\ UNCHANGED <<job, up, dlq>>
  /\ lock' = IF lock = j THEN None ELSE lock
  /\ UNCHANGED <<schedVars, batchVars, slots, old, row, sess, started, binds, late, gone>>

Handler(j) ==
  \/ SlotCounts(j) \/ SlotInserts(j) \/ CronBranch(j) \/ ReadThread(j)
  \/ SessionStarts(j) \/ TurnEnds(j) \/ SendReply(j) \/ BindThread(j) \/ SendErrorReply(j)
  \/ SlotReleases(j) \/ Settle(j)
  \/ BatchHandler(j) /\ UNCHANGED <<schedVars, schedulerVars>>

-----------------------------------------------------------------------------
(* The lost-job worker, the monitor, and what may go wrong *)

MNotifyOnce(j) ==
  /\ up /\ dlq[j] \in {"lost", "own"}
  /\ dlq' = [dlq EXCEPT ![j] = "handled"]
  /\ \/ NoAccident
        /\ IF dlq[j] = "lost" /\ kind[j] = "chat" THEN Says(j, "lost") ELSE UNCHANGED told
     \/ Accident({j}) /\ UNCHANGED told
  /\ UNCHANGED <<job, pc, up, schedVars, batchVars, slots, old, chatVars, gone>>

(* registerLostJobWorker: only a job the monitor failed, and only one with *)
(* a connector; one it cannot deliver is retried (retryLimit 2).           *)
NotifyLost(j) ==
  /\ up /\ dlq[j] \in {"lost", "own"}
  /\ \/ dlq' = [dlq EXCEPT ![j] = "handled"] /\ NoAccident
        /\ IF dlq[j] = "lost" /\ kind[j] = "chat" THEN Says(j, "lost") ELSE UNCHANGED told
     \/ /\ dlq[j] = "lost" /\ kind[j] = "chat"
        /\ Accident({j}) /\ UNCHANGED <<dlq, told>>
  /\ UNCHANGED <<job, pc, up, schedVars, batchVars, slots, old, chatVars, gone>>

Monitor(j) == MonitorFails(j) /\ UNCHANGED <<schedVars, batchVars, schedulerVars>>
Stall(j) == MonitorFailsLive(j) /\ UNCHANGED <<schedVars, batchVars, schedulerVars>>

(* The process dies, and with its connections the locks and the upserts    *)
(* under way.                                                              *)
Crash ==
  /\ Die({j \in Serving : told[j] # {} \/ kind[j] = "cron"})
  /\ lock' = None
  /\ binds' = {}
  /\ sess' = [j \in Jobs |-> None]
  /\ started' = {}
  /\ UNCHANGED <<schedVars, batchVars, slots, old, row, late, told, gone>>

Restart ==
  /\ Restarted
  /\ slots' = slots \ old
  /\ old' = {}
  /\ UNCHANGED <<schedVars, batchVars, chatVars, told, gone>>

(* The lock's connection drops while the handler is parked on the turn:    *)
(* the error is logged and the lock is free.                               *)
LoseLock(j) ==
  /\ lock = j /\ pc[j] = "turn"
  /\ Accident({j})
  /\ lock' = None
  /\ UNCHANGED <<job, pc, up, dlq, schedVars, batchVars, slots, old, row, sess, started, binds,
                 late, told, gone>>

(* destroyWorkspace: its timers are cancelled, and the row goes with its   *)
(* config, its schedules and its batch tasks.  Queued jobs stay.           *)
DeleteWorkspace ==
  /\ ~gone /\ gone' = TRUE
  /\ Accident({})
  /\ IF sched.exists THEN ClearTimer(sched.timer) ELSE UNCHANGED <<cron, job>>
  /\ sched' = [sched EXCEPT !.exists = FALSE, !.enabled = FALSE]
  /\ task' = [j \in Jobs |-> "none"]
  /\ creating' = FALSE
  /\ UNCHANGED <<pc, up, dlq, rq, fires, run, cancel, hit, slots, old, chatVars, told>>

Routes ==
  \/ ScheduleRoutes /\ UNCHANGED <<batchVars, schedulerVars>>
  \/ BatchRoutes /\ UNCHANGED <<schedVars, schedulerVars>>
  \/ \E j \in Jobs : SendChat(j)

Trouble ==
  \/ Crash \/ DeleteWorkspace
  \/ \E j \in Jobs : Stall(j) \/ SlotAges(j) \/ LoseLock(j)

(* What the scheduler process, pg-boss and Postgres do of themselves: the  *)
(* process is restarted, its handlers, workers and sweeps run, the monitor *)
(* looks, a free lock is granted.                                          *)
Work ==
  \/ \E j \in Jobs : \/ Take(j) \/ Handler(j) \/ AcquireLock(j)
                     \/ BindLands(j) \/ NotifyLost(j) \/ Monitor(j)
  \/ SweepOrphans \/ SweepStale \/ Restart

Next ==
  /\ Routes \/ Work \/ Trouble \/ \E j \in Jobs : ResumeFails(j)
  /\ UNCHANGED <<kind, mode>>

(* The scheduler keeps working, which is all that is asked of it: no job,  *)
(* worker or sweep is promised a turn of its own.  A turn ends: the agent's*)
(* doing, or runTurn's idle timer's.  A request on a batch run, once its   *)
(* tasks are all queued or its list is read, goes on to its end.           *)
RequestEnds == MarkRunning \/ CancelCloses \/ \E j \in Jobs : CancelTask(j)
Fairness ==
  /\ WF_vars(Work /\ UNCHANGED <<kind, mode>>)
  /\ WF_vars(RequestEnds /\ UNCHANGED <<schedVars, schedulerVars, kind, mode>>)

Spec == Init /\ [][Next]_vars
FairSpec == Spec /\ Fairness

-----------------------------------------------------------------------------
(* Properties *)

TypeOK ==
  /\ QueueTypes /\ ScheduleTypes /\ BatchTypes
  /\ pc \in [Jobs -> Positions]
  /\ slots \in SUBSET Jobs /\ old \in SUBSET slots
  /\ lock \in Jobs \cup {None} /\ row \in Jobs \cup {None}
  /\ sess \in [Jobs -> Jobs \cup {None}]
  /\ started \in SUBSET Jobs /\ binds \in SUBSET (Jobs \X Jobs) /\ late \in SUBSET Jobs
  /\ told \in [Jobs -> SUBSET Word]
  /\ gone \in BOOLEAN

(* A job that executes has its slot in the table, so that the count the    *)
(* next claim reads is not too low: neither a sweep, nor a restart, nor    *)
(* another job's end takes the slot of a job that runs.  Only the accidents*)
(* do: a slot held for three hours, a live job the monitor failed.         *)
SlotBacksRun ==
  \A j \in Jobs : (pc[j] \in Executing /\ job[j] = "active" /\ j \notin odd) => j \in slots

(* The source of a message is dealt with once: with the answer, the error, *)
(* the notice that the job was lost, a send that was refused, or nothing   *)
(* to say.  Twice only after an accident to that job (a crash between its  *)
(* reply and its end, a live handler that was failed, a reply whose        *)
(* delivery is in doubt).                                                  *)
ToldOnce == \A j \in Jobs \ odd : Cardinality(told[j]) <= 1

(* While a thread's job has its turn running and its early bind is through,*)
(* the thread's row names that turn's session: /cancel finds it            *)
(* (handler.ts, bindThreadSession).  The lock and the order of the binds   *)
(* keep it so, across resumes, fallbacks to a fresh session and queued     *)
(* messages.  The one thing that puts another session there is an early    *)
(* bind of an earlier turn that was still under way when that turn ended   *)
(* and that lands in this one; /cancel then finds the earlier session.     *)
CancelFindsTurn ==
  \A j \in Of("chat") :
    (pc[j] = "turn" /\ j \in started /\ <<j, sess[j]>> \notin binds /\ Of("chat") \cap odd = {})
      => row = sess[j] \/ row \in late

(* An enabled one-time schedule will fire: some job of it is queued or has *)
(* not read the row yet, whatever PATCHes, run-nows and disables overlapped*)
(* before, once the requests are through.                                  *)
WillFire(j) == job[j] = "created" \/ (job[j] = "active" /\ pc[j] \in {"claim", "insert", "sched", "mark"})
EnabledHasTimer ==
  (/\ mode = "once" /\ sched.exists /\ sched.enabled /\ ~sched.completed
   /\ \A r \in Requests : Idle(r)
   /\ Of("cron") \cap odd = {}) => \E j \in Of("cron") : WillFire(j)

(* "One-time schedule fires exactly once" (handler.ts:129): no run-now and *)
(* no replay makes it fire again.  The row is read and closed by two       *)
(* statements with others between them.                                    *)
FiresOnce == mode = "once" => fires <= 1

(* Jobs that nothing will end before their 12 hour expiry: they wait for a *)
(* slot of a workspace that is gone, or for a task that is not queued.     *)
Doomed(j) == (pc[j] = "claim" /\ gone) \/ (pc[j] = "wait" /\ task[j] # "queued")
Hogged == Cardinality({j \in Jobs : Doomed(j)}) >= Workers

(* Rows, handlers, replies, lost-job notices and crashes implement the     *)
(* contract of a job: run at most once, one final verdict, and one attempt *)
(* to tell whoever waits for it, without which its handler does not end.   *)
Contract ==
  INSTANCE JobContract WITH state <- job, serving <- Serving, awaited <- Of("chat"),
                            heard <- told, mishaps <- odd
JobSpec == Contract!Spec

(* A slot is given back whatever happens to its job: by the handler, or,   *)
(* if the process died or the job was failed under it, by the sweeps.      *)
(* (There are finitely many jobs: what holds in the end holds of each.)    *)
SlotReclaimed == <>[](slots = {})

(* Nobody who wrote in the channel is forgotten: there is an answer, an    *)
(* error or the notice that the job was lost, through crashes and          *)
(* undelivered notices, or the handler had its say and it came to nothing: *)
(* the turn ended without a text, or the gateway refused the one send that *)
(* there is (sendReply only logs it, sendErrorReply swallows it).  In those*)
(* two cases the channel hears nothing.  The exceptions are the jobs that  *)
(* wait in a deleted workspace, and a pool whose every worker is held by   *)
(* jobs that wait for nothing.                                             *)
SourceHears ==
  <>[](\A j \in Of("chat") : job[j] = "absent" \/ told[j] # {} \/ Doomed(j) \/ Hogged)

(* A run that still has a task to finish when its creator has answered     *)
(* finishes them all and is closed: of handlers that end together, one sees*)
(* the run done.  Unless one of its jobs died with the process, be it after*)
(* its task's outcome was written.                                         *)
Unfinished == \E j \in Tasks : task[j] \notin TaskDone
RunCloses ==
  (~creating /\ Unfinished) ~>
    (\/ ~Unfinished /\ run \in {"completed", "cancelled"}
     \/ gone \/ Hogged \/ \E i \in Of("batch") : job[i] = "failed")
=============================================================================

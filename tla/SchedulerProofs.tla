-------------------------- MODULE SchedulerProofs --------------------------
(***************************************************************************)
(* Proofs about Scheduler, for any jobs of any kinds, workers, requests on *)
(* the schedule and slots: type correctness, a slot behind every job that  *)
(* executes, one word to the source, the thread's row and the turn that    *)
(* runs, and the timer of an enabled one-time schedule.                    *)
(***************************************************************************)
EXTENDS Scheduler, FiniteSetTheorems, TLAPS

(* How the queue's variables move. *)
LEMMA Moves ==
  ASSUME QueueTypes, pc \in [Jobs -> Positions], NEW j \in Jobs, NEW p \in Positions, Goes(j, p),
         kind' = kind
  PROVE  QueueTypes' /\ pc' \in [Jobs -> Positions]
BY DEF QueueTypes, Goes, NoAccident

LEMMA Meets ==
  ASSUME QueueTypes, NEW S \in SUBSET Jobs, Accident(S)
  PROVE  trouble' \in 0..2 /\ odd' \in SUBSET Jobs
BY DEF QueueTypes, Accident

LEMMA Sends ==
  ASSUME QueueTypes, NEW j \in Jobs, Sent(j)
  PROVE  job' \in [Jobs -> JobState]
BY DEF QueueTypes, Sent, JobState

LEMMA Cancels ==
  ASSUME QueueTypes, NEW t \in Jobs \cup {None}
  PROVE  Cancelled(t) \in [Jobs -> JobState]
BY QueueAssumption DEF QueueTypes, Cancelled, JobState

LEMMA Clears ==
  ASSUME QueueTypes, ScheduleTypes, NEW t \in Jobs \cup {None}, ClearTimer(t)
  PROVE  job' \in [Jobs -> JobState] /\ cron' \in BOOLEAN
BY Cancels DEF QueueTypes, ScheduleTypes, ClearTimer

-----------------------------------------------------------------------------
(* The schedule's routes keep the types. *)
LEMMA AskAt ==
  ASSUME ScheduleTypes, NEW r \in Requests,
         NEW p \in {"idle", "read", "wrote", "cleared", "armed", "doomed", "deleting"}
  PROVE  [rq EXCEPT ![r].at = p] \in [Requests -> Request]
BY DEF ScheduleTypes, Request

LEMMA AskReads ==
  ASSUME ScheduleTypes, NEW r \in Requests, NEW p \in {"read", "doomed"},
         rq' = [rq EXCEPT ![r].at = p, ![r].ex = sched.timer]
  PROVE  rq' \in [Requests -> Request]
BY ZenonT(60) DEF ScheduleTypes, Request, ScheduleRow

LEMMA AskDecides ==
  ASSUME ScheduleTypes, NEW r \in Requests, NEW on \in BOOLEAN,
         rq' = [rq EXCEPT ![r].at = "wrote", ![r].on = on]
  PROVE  rq' \in [Requests -> Request]
BY ZenonT(60) DEF ScheduleTypes, Request

LEMMA AskNames ==
  ASSUME ScheduleTypes, NEW r \in Requests, NEW j \in Jobs,
         rq' = [rq EXCEPT ![r].at = "armed", ![r].new = j]
  PROVE  rq' \in [Requests -> Request]
BY ZenonT(60) DEF ScheduleTypes, Request

LEMMA AskLeaves ==
  ASSUME ScheduleTypes, NEW r \in Requests, Leave(r)
  PROVE  rq' \in [Requests -> Request]
<1>1. AtRest \in Request
  BY DEF AtRest, Request
<1> QED
  BY <1>1 DEF ScheduleTypes, Leave

LEMMA RowMoves ==
  ASSUME ScheduleTypes
  PROVE  /\ \A on \in BOOLEAN : [sched EXCEPT !.enabled = on] \in ScheduleRow
         /\ \A t \in Jobs \cup {None} : [sched EXCEPT !.timer = t] \in ScheduleRow
         /\ [sched EXCEPT !.exists = FALSE, !.enabled = FALSE] \in ScheduleRow
         /\ [sched EXCEPT !.completed = TRUE, !.enabled = FALSE, !.timer = None] \in ScheduleRow
BY DEF ScheduleTypes, ScheduleRow

LEMMA ScheduleRouteTypes ==
  ASSUME QueueTypes, ScheduleTypes, ScheduleRoutes, UNCHANGED <<kind, mode>>
  PROVE  QueueTypes' /\ ScheduleTypes' /\ pc' = pc
<1>1. ASSUME NEW r \in Requests, PatchReads(r) \/ DeleteReads(r)
      PROVE  QueueTypes' /\ ScheduleTypes' /\ pc' = pc
  <2>1. rq' \in [Requests -> Request]
    BY <1>1, AskReads DEF PatchReads, DeleteReads
  <2> QED BY <1>1, <2>1 DEF PatchReads, DeleteReads, QueueTypes, ScheduleTypes, queueVars
<1>2. ASSUME NEW r \in Requests, PatchWrites(r)
      PROVE  QueueTypes' /\ ScheduleTypes' /\ pc' = pc
  <2>1. rq' \in [Requests -> Request] /\ sched' \in ScheduleRow
    BY <1>2, AskDecides, AskLeaves, RowMoves DEF PatchWrites, ScheduleTypes
  <2> QED BY <1>2, <2>1 DEF PatchWrites, QueueTypes, ScheduleTypes, queueVars
<1>3. ASSUME NEW r \in Requests, PatchClears(r) \/ DeleteClears(r)
      PROVE  QueueTypes' /\ ScheduleTypes' /\ pc' = pc
  <2>1. rq[r].ex \in Jobs \cup {None}
    BY DEF ScheduleTypes, Request
  <2>2. job' \in [Jobs -> JobState] /\ cron' \in BOOLEAN
    BY <1>3, <2>1, Clears DEF PatchClears, DeleteClears
  <2>3. rq' \in [Requests -> Request]
    BY ZenonT(60), <1>3, AskAt DEF PatchClears, DeleteClears, Step
  <2> QED
    BY <1>3, <2>2, <2>3 DEF PatchClears, DeleteClears, QueueTypes, ScheduleTypes, NoAccident
<1>4. ASSUME NEW r \in Requests, PatchArms(r)
      PROVE  QueueTypes' /\ ScheduleTypes' /\ pc' = pc
  <2>1. rq' \in [Requests -> Request]
    <3>1. ASSUME NEW j \in Of("cron"), rq' = [rq EXCEPT ![r].at = "armed", ![r].new = j]
          PROVE  rq' \in [Requests -> Request]
      BY <3>1, AskNames DEF Of
    <3>2. ASSUME Step(r, "armed")
          PROVE  rq' \in [Requests -> Request]
      BY <3>2, AskAt DEF Step
    <3> QED BY <1>4, <3>1, <3>2, AskLeaves DEF PatchArms
  <2>2. job' \in [Jobs -> JobState] /\ cron' \in BOOLEAN
    BY <1>4, Sends DEF PatchArms, QueueTypes, ScheduleTypes, Of
  <2> QED BY <1>4, <2>1, <2>2 DEF PatchArms, QueueTypes, ScheduleTypes, NoAccident
<1>5. ASSUME NEW r \in Requests, PatchNames(r) \/ DeleteDeletes(r)
      PROVE  QueueTypes' /\ ScheduleTypes' /\ pc' = pc
  <2>1. rq[r].new \in Jobs \cup {None}
    BY DEF ScheduleTypes, Request
  <2>2. sched' \in ScheduleRow
    BY <1>5, <2>1, RowMoves DEF PatchNames, DeleteDeletes, ScheduleTypes
  <2>3. rq' \in [Requests -> Request]
    BY <1>5, AskLeaves DEF PatchNames, DeleteDeletes
  <2> QED BY <1>5, <2>2, <2>3 DEF PatchNames, DeleteDeletes, QueueTypes, ScheduleTypes, queueVars
<1>6. ASSUME NEW j \in Jobs, RunNow(j) \/ CronTick(j)
      PROVE  QueueTypes' /\ ScheduleTypes' /\ pc' = pc
  BY <1>6, Sends DEF RunNow, CronTick, QueueTypes, ScheduleTypes, schedVars, NoAccident
<1> QED
  BY <1>1, <1>2, <1>3, <1>4, <1>5, <1>6 DEF ScheduleRoutes

(* The cron branch of a handler does, too. *)
LEMMA CronBranchTypes ==
  ASSUME QueueTypes, ScheduleTypes, pc \in [Jobs -> Positions], NEW j \in Jobs,
         ReadSchedule(j) \/ MarkCompleted(j), UNCHANGED <<kind, mode>>
  PROVE  QueueTypes' /\ ScheduleTypes' /\ pc' \in [Jobs -> Positions]
<1>p. {"free", "mark", "turn"} \subseteq Positions
  BY DEF Positions
<1>1. CASE ReadSchedule(j)
  <2>1. ScheduleTypes'
    BY <1>1 DEF ReadSchedule, schedVars, ScheduleTypes
  <2>2. CASE Goes(j, "free") \/ Goes(j, "mark")
    BY <1>p, <2>1, <2>2, Moves
  <2>3. CASE Accident({j}) /\ pc' = [pc EXCEPT ![j] = "free"] /\ UNCHANGED <<job, up, dlq>>
    BY <1>p, <2>1, <2>3, Meets DEF QueueTypes
  <2> QED BY <1>1, <2>2, <2>3 DEF ReadSchedule
<1>2. CASE MarkCompleted(j)
  <2>1. QueueTypes' /\ pc' \in [Jobs -> Positions]
    BY <1>p, <1>2, Moves DEF MarkCompleted
  <2>2. ScheduleTypes'
    BY <1>2, RowMoves DEF MarkCompleted, ScheduleTypes
  <2> QED BY <2>1, <2>2
<1> QED
  BY <1>1, <1>2

-----------------------------------------------------------------------------
(* So do the batch run's routes and the handler of its jobs. *)
LEMMA BatchRouteTypes ==
  ASSUME QueueTypes, BatchTypes, BatchRoutes, UNCHANGED kind
  PROVE  QueueTypes' /\ BatchTypes' /\ pc' = pc
<1>1. ASSUME NEW j \in Jobs, CreateTask(j)
      PROVE  QueueTypes' /\ BatchTypes' /\ pc' = pc
  BY <1>1, Sends DEF CreateTask, QueueTypes, BatchTypes, NoAccident
<1>2. ASSUME NEW j \in Jobs, CancelTask(j)
      PROVE  QueueTypes' /\ BatchTypes' /\ pc' = pc
  <2>1. task' \in [Jobs -> {"none", "queued", "running"} \cup TaskDone]
    BY <1>2 DEF CancelTask, TaskSet, BatchTypes, TaskDone
  <2> QED BY <1>2, <2>1 DEF CancelTask, QueueTypes, BatchTypes, queueVars
<1>3. CASE MarkRunning \/ CancelLists \/ CancelCloses
  BY <1>3 DEF MarkRunning, CancelLists, CancelCloses, QueueTypes, BatchTypes, queueVars
<1> QED
  BY <1>1, <1>2, <1>3 DEF BatchRoutes

LEMMA BatchHandlerTypes ==
  ASSUME QueueTypes, BatchTypes, pc \in [Jobs -> Positions], NEW j \in Jobs, BatchHandler(j),
         UNCHANGED kind
  PROVE  QueueTypes' /\ BatchTypes' /\ pc' \in [Jobs -> Positions]
<1>p. {"take", "run", "wait", "check", "close", "done"} \subseteq Positions
  BY DEF Positions
<1>1. QueueTypes' /\ pc' \in [Jobs -> Positions]
  BY <1>p, Moves DEF BatchHandler, ClaimCounts, ClaimTakes, BatchTurn, BatchCheck, BatchClose
<1>2. CASE ClaimCounts(j) \/ BatchCheck(j) \/ BatchClose(j)
  BY <1>1, <1>2 DEF ClaimCounts, BatchCheck, BatchClose, BatchTypes, batchVars
<1>3. CASE ClaimTakes(j)
  BY <1>1, <1>3 DEF ClaimTakes, BatchTypes
<1>4. CASE BatchTurn(j)
  <2>1. task' \in [Jobs -> {"none", "queued", "running"} \cup TaskDone]
    BY <1>4 DEF BatchTurn, TaskSet, BatchTypes, TaskDone
  <2> QED BY <1>1, <1>4, <2>1 DEF BatchTurn, BatchTypes
<1> QED
  BY <1>2, <1>3, <1>4 DEF BatchHandler

-----------------------------------------------------------------------------
(* The types of what Scheduler adds. *)
ServerTypes ==
  /\ slots \in SUBSET Jobs /\ old \in SUBSET slots
  /\ lock \in Jobs \cup {None} /\ row \in Jobs \cup {None}
  /\ sess \in [Jobs -> Jobs \cup {None}]
  /\ started \in SUBSET Jobs /\ binds \in SUBSET (Jobs \X Jobs) /\ late \in SUBSET Jobs
  /\ told \in [Jobs -> SUBSET Word]
  /\ gone \in BOOLEAN

LEMMA TypeParts ==
  TypeOK <=> QueueTypes /\ ScheduleTypes /\ BatchTypes /\ pc \in [Jobs -> Positions] /\ ServerTypes
BY DEF TypeOK, ServerTypes

(* Steps that leave schedule and batch alone. *)
LEMMA Elsewhere ==
  ASSUME TypeOK, UNCHANGED <<schedVars, batchVars, kind, mode>>,
         QueueTypes', pc' \in [Jobs -> Positions], ServerTypes'
  PROVE  TypeOK'
BY DEF TypeOK, ServerTypes, ScheduleTypes, BatchTypes, schedVars, batchVars

LEMMA SaysTypes ==
  ASSUME ServerTypes, NEW j \in Jobs, NEW w \in Word, Says(j, w)
  PROVE  told' \in [Jobs -> SUBSET Word]
BY DEF ServerTypes, Says

LEMMA SlotTypes ==
  ASSUME TypeOK, NEW j \in Jobs, UNCHANGED <<kind, mode>>,
         \/ Take(j) \/ SlotCounts(j) \/ SlotInserts(j) \/ SlotReleases(j) \/ Settle(j)
         \/ SlotAges(j)
  PROVE  TypeOK'
<1>a. QueueTypes /\ pc \in [Jobs -> Positions] /\ ServerTypes
  BY TypeParts
<1>p. {"wait", "claim", "insert", "sched", "lock", "done", "doneF", "idle"} \subseteq Positions
  BY DEF Positions
<1>1. CASE Take(j)
  <2>1. PICK p \in Positions : Fetch(j, p)
    BY <1>p, <1>1 DEF Take
  <2>2. QueueTypes' /\ pc' \in [Jobs -> Positions]
    BY <1>a, <2>1 DEF Fetch, QueueTypes, NoAccident, JobState
  <2>3. ServerTypes'
    BY <1>a, <1>1 DEF Take, schedulerVars, chatVars, ServerTypes
  <2> QED BY <1>1, <2>2, <2>3, Elsewhere DEF Take
<1>2. CASE SlotCounts(j) \/ SlotInserts(j) \/ SlotReleases(j)
  <2>1. QueueTypes' /\ pc' \in [Jobs -> Positions]
    BY <1>a, <1>p, <1>2, Moves DEF SlotCounts, SlotInserts, SlotReleases
  <2>2. ServerTypes'
    BY <1>a, <1>2 DEF SlotCounts, SlotInserts, SlotReleases, schedulerVars, chatVars, ServerTypes
  <2> QED BY <1>2, <2>1, <2>2, Elsewhere DEF SlotCounts, SlotInserts, SlotReleases
<1>3. CASE Settle(j)
  <2>1. PICK v \in {"completed", "failed"} : Settled(j, v)
    BY <1>3 DEF Settle
  <2>2. QueueTypes' /\ pc' \in [Jobs -> Positions]
    BY <1>a, <1>p, <2>1 DEF Settled, QueueTypes, NoAccident, JobState
  <2>3. ServerTypes'
    BY <1>a, <1>3 DEF Settle, ServerTypes
  <2> QED BY <1>3, <2>2, <2>3, Elsewhere DEF Settle
<1>4. CASE SlotAges(j)
  <2>1. QueueTypes' /\ pc' \in [Jobs -> Positions]
    BY <1>a, <1>4, Meets DEF SlotAges, QueueTypes
  <2>2. ServerTypes'
    BY <1>a, <1>4 DEF SlotAges, chatVars, ServerTypes
  <2> QED BY <1>4, <2>1, <2>2, Elsewhere DEF SlotAges
<1> QED
  BY <1>1, <1>2, <1>3, <1>4

LEMMA SweepTypes ==
  ASSUME TypeOK, UNCHANGED <<kind, mode>>, SweepOrphans \/ SweepStale \/ Restart
  PROVE  TypeOK'
<1>a. QueueTypes /\ pc \in [Jobs -> Positions] /\ ServerTypes
  BY TypeParts
<1>1. QueueTypes' /\ pc' \in [Jobs -> Positions]
  BY <1>a DEF SweepOrphans, Sweep, SweepStale, Restart, Restarted, NoAccident, queueVars, QueueTypes
<1>2. ServerTypes'
  BY <1>a DEF SweepOrphans, Sweep, SweepStale, Restart, chatVars, ServerTypes
<1> QED
  BY <1>1, <1>2, Elsewhere DEF SweepOrphans, Sweep, SweepStale, Restart

LEMMA ChatTypes ==
  ASSUME TypeOK, NEW j \in Jobs, UNCHANGED <<kind, mode>>,
         \/ AcquireLock(j) \/ ReadThread(j) \/ SessionStarts(j) \/ BindLands(j) \/ ResumeFails(j)
         \/ BindThread(j) \/ LoseLock(j)
  PROVE  TypeOK'
<1>a. QueueTypes /\ pc \in [Jobs -> Positions] /\ ServerTypes
  BY TypeParts
<1>p. {"read", "turn", "free"} \subseteq Positions
  BY DEF Positions
<1>1. CASE AcquireLock(j) \/ ReadThread(j) \/ BindThread(j)
  <2>1. QueueTypes' /\ pc' \in [Jobs -> Positions]
    BY <1>a, <1>p, <1>1, Moves DEF AcquireLock, ReadThread, BindThread
  <2>2. ServerTypes'
    BY <1>a, <1>1 DEF AcquireLock, ReadThread, BindThread, ServerTypes
  <2> QED BY <1>1, <2>1, <2>2, Elsewhere DEF AcquireLock, ReadThread, BindThread
<1>2. CASE SessionStarts(j)
  <2>1. sess' \in [Jobs -> Jobs \cup {None}] /\ sess'[j] \in Jobs
    BY <1>a, <1>2 DEF SessionStarts, ServerTypes
  <2>2. ServerTypes'
    BY <1>a, <1>2, <2>1 DEF SessionStarts, ServerTypes
  <2>3. QueueTypes' /\ pc' \in [Jobs -> Positions]
    BY <1>a, <1>2 DEF SessionStarts, queueVars, QueueTypes
  <2> QED BY <1>2, <2>2, <2>3, Elsewhere DEF SessionStarts
<1>3. CASE BindLands(j)
  <2>1. QueueTypes' /\ pc' \in [Jobs -> Positions]
    BY <1>a, <1>3, Meets DEF BindLands, NoAccident, QueueTypes
  <2>2. ServerTypes'
    BY <1>a, <1>3 DEF BindLands, ServerTypes
  <2> QED BY <1>3, <2>1, <2>2, Elsewhere DEF BindLands
<1>4. CASE ResumeFails(j)
  <2>1. QueueTypes' /\ pc' \in [Jobs -> Positions]
    BY <1>a, <1>4 DEF ResumeFails, QueueTypes, queueVars
  <2>2. ServerTypes'
    BY <1>a, <1>4 DEF ResumeFails, ServerTypes
  <2> QED BY <1>4, <2>1, <2>2, Elsewhere DEF ResumeFails
<1>5. CASE LoseLock(j)
  <2>1. QueueTypes' /\ pc' \in [Jobs -> Positions]
    BY <1>a, <1>5, Meets DEF LoseLock, QueueTypes
  <2>2. ServerTypes'
    BY <1>a, <1>5 DEF LoseLock, ServerTypes
  <2> QED BY <1>5, <2>1, <2>2, Elsewhere DEF LoseLock
<1> QED
  BY <1>1, <1>2, <1>3, <1>4, <1>5

LEMMA SpeaksTypes ==
  ASSUME TypeOK, NEW j \in Jobs, UNCHANGED <<kind, mode>>,
         TurnEnds(j) \/ SendReply(j) \/ SendErrorReply(j) \/ NotifyLost(j)
  PROVE  TypeOK'
<1>a. QueueTypes /\ pc \in [Jobs -> Positions] /\ ServerTypes
  BY TypeParts
<1>p. {"reply", "bind", "oops", "free", "freeF"} \subseteq Positions
  BY DEF Positions
<1>w. Word = {"answer", "quiet", "error", "lost", "refused"} /\ told \in [Jobs -> SUBSET Word]
  BY <1>a DEF Word, ServerTypes
<1>1. ASSUME UNCHANGED <<schedVars, batchVars, slots, old, row, sess, started, binds, late, gone>>,
             lock' \in Jobs \cup {None}, told' \in [Jobs -> SUBSET Word],
             QueueTypes', pc' \in [Jobs -> Positions]
      PROVE  TypeOK'
  <2>1. ServerTypes'
    BY <1>a, <1>1 DEF ServerTypes
  <2> QED BY <1>1, <2>1, Elsewhere
<1>2. lock \in Jobs \cup {None}
  BY <1>a DEF ServerTypes
<1>3. ASSUME NEW p \in Positions, Accident({j}), pc' = [pc EXCEPT ![j] = p],
             UNCHANGED <<job, up, dlq>>
      PROVE  QueueTypes' /\ pc' \in [Jobs -> Positions]
  BY <1>a, <1>3, Meets DEF QueueTypes
<1>4. CASE TurnEnds(j)
  <2>1. told' \in [Jobs -> SUBSET Word]
    BY <1>4, <1>a, <1>w, SaysTypes DEF TurnEnds
  <2>2. QueueTypes' /\ pc' \in [Jobs -> Positions]
    BY <1>4, <1>a, <1>p, Moves DEF TurnEnds
  <2> QED BY <1>1, <1>2, <1>4, <2>1, <2>2 DEF TurnEnds, chatVars
<1>5. CASE SendReply(j)
  <2>1. told' \in [Jobs -> SUBSET Word]
    BY <1>5, <1>a, <1>w, SaysTypes DEF SendReply
  <2>2. QueueTypes' /\ pc' \in [Jobs -> Positions]
    BY <1>3, <1>5, <1>a, <1>p, Moves DEF SendReply
  <2> QED BY <1>1, <1>2, <1>5, <2>1, <2>2 DEF SendReply, chatVars
<1>6. CASE SendErrorReply(j)
  <2>1. told' \in [Jobs -> SUBSET Word]
    BY <1>6, <1>a, <1>w, SaysTypes DEF SendErrorReply
  <2>2. QueueTypes' /\ pc' \in [Jobs -> Positions]
    BY <1>3, <1>6, <1>a, <1>p, Moves DEF SendErrorReply
  <2> QED BY <1>1, <1>2, <1>6, <2>1, <2>2 DEF SendErrorReply
<1>7. CASE NotifyLost(j)
  <2>1. told' \in [Jobs -> SUBSET Word]
    BY <1>7, <1>a, <1>w, SaysTypes DEF NotifyLost
  <2>2. trouble' \in 0..2 /\ odd' \in SUBSET Jobs
    BY <1>7, <1>a, Meets DEF NotifyLost, NoAccident, QueueTypes
  <2>3. QueueTypes' /\ pc' \in [Jobs -> Positions]
    BY <1>7, <1>a, <2>2 DEF NotifyLost, QueueTypes
  <2> QED BY <1>1, <1>2, <1>7, <2>1, <2>3 DEF NotifyLost, chatVars
<1> QED
  BY <1>4, <1>5, <1>6, <1>7

LEMMA TroubleTypes ==
  ASSUME TypeOK, UNCHANGED <<kind, mode>>,
         Crash \/ DeleteWorkspace \/ \E j \in Jobs : Monitor(j) \/ Stall(j) \/ SendChat(j)
  PROVE  TypeOK'
<1>a. QueueTypes /\ pc \in [Jobs -> Positions] /\ ServerTypes /\ ScheduleTypes /\ BatchTypes
  BY TypeParts
<1>1. CASE Crash
  <2>1. {j \in Serving : told[j] # {} \/ kind[j] = "cron"} \in SUBSET Jobs /\ "idle" \in Positions
    BY DEF Serving, Positions
  <2>2. QueueTypes' /\ pc' \in [Jobs -> Positions]
    BY <1>a, <1>1, <2>1, Meets DEF Crash, Die, QueueTypes
  <2>3. ServerTypes'
    BY <1>a, <1>1 DEF Crash, ServerTypes
  <2> QED BY <1>1, <2>2, <2>3, Elsewhere DEF Crash
<1>2. CASE DeleteWorkspace
  <2>1. sched.timer \in Jobs \cup {None}
    BY <1>a DEF ScheduleTypes, ScheduleRow
  <2>2. job' \in [Jobs -> JobState] /\ cron' \in BOOLEAN
    BY <1>a, <1>2, <2>1, Clears DEF DeleteWorkspace, QueueTypes, ScheduleTypes
  <2>3. trouble' \in 0..2 /\ odd' \in SUBSET Jobs
    BY <1>a, <1>2, Meets DEF DeleteWorkspace
  <2>4. sched' \in ScheduleRow
    BY <1>a, <1>2, RowMoves DEF DeleteWorkspace
  <2>5. QueueTypes' /\ ScheduleTypes' /\ pc' \in [Jobs -> Positions]
    BY <1>a, <1>2, <2>2, <2>3, <2>4 DEF DeleteWorkspace, QueueTypes, ScheduleTypes
  <2>6. BatchTypes' /\ ServerTypes'
    BY <1>a, <1>2 DEF DeleteWorkspace, BatchTypes, ServerTypes, chatVars
  <2> QED BY <2>5, <2>6 DEF TypeOK, ServerTypes
<1>3. ASSUME NEW j \in Jobs, Monitor(j) \/ Stall(j) PROVE TypeOK'
  <2>1. trouble' \in 0..2 /\ odd' \in SUBSET Jobs
    BY <1>a, <1>3, Meets DEF Monitor, Stall, MonitorFails, MonitorFailsLive, NoAccident, QueueTypes
  <2>2. QueueTypes' /\ pc' \in [Jobs -> Positions]
    BY <1>a, <1>3, <2>1 DEF Monitor, Stall, MonitorFails, MonitorFailsLive, QueueTypes, JobState
  <2>3. ServerTypes'
    BY <1>a, <1>3 DEF Monitor, Stall, schedulerVars, chatVars, ServerTypes
  <2> QED BY <1>3, <2>2, <2>3, Elsewhere DEF Monitor, Stall
<1>4. ASSUME NEW j \in Jobs, SendChat(j) PROVE TypeOK'
  <2>1. QueueTypes' /\ pc' \in [Jobs -> Positions]
    BY <1>a, <1>4, Sends DEF SendChat, QueueTypes, NoAccident
  <2>2. ServerTypes'
    BY <1>a, <1>4 DEF SendChat, schedulerVars, chatVars, ServerTypes
  <2> QED BY <1>4, <2>1, <2>2, Elsewhere DEF SendChat
<1> QED
  BY <1>1, <1>2, <1>3, <1>4

LEMMA RouteTypes ==
  ASSUME TypeOK, UNCHANGED <<kind, mode>>,
         \/ ScheduleRoutes /\ UNCHANGED <<batchVars, schedulerVars>>
         \/ BatchRoutes /\ UNCHANGED <<schedVars, schedulerVars>>
         \/ \E j \in Jobs : CronBranch(j)
         \/ \E j \in Jobs : BatchHandler(j) /\ UNCHANGED <<schedVars, schedulerVars>>
  PROVE  TypeOK'
<1>a. QueueTypes /\ pc \in [Jobs -> Positions] /\ ServerTypes /\ ScheduleTypes /\ BatchTypes
  BY TypeParts
<1>1. ServerTypes'
  BY <1>a DEF ServerTypes, schedulerVars, chatVars, CronBranch
<1>2. UNCHANGED batchVars => BatchTypes'
  BY <1>a DEF BatchTypes, batchVars
<1>3. UNCHANGED schedVars => ScheduleTypes'
  BY <1>a DEF ScheduleTypes, schedVars
<1>4. QueueTypes' /\ ScheduleTypes' /\ BatchTypes' /\ pc' \in [Jobs -> Positions]
  BY <1>a, <1>2, <1>3, ScheduleRouteTypes, BatchRouteTypes, CronBranchTypes, BatchHandlerTypes
     DEF CronBranch
<1> QED
  BY <1>1, <1>4 DEF TypeOK, ServerTypes

-----------------------------------------------------------------------------
(* Which steps there are: the routes, the handlers, the accidents, and     *)
(* what the queue and the sweeps do.                                       *)
Steps ==
  \/ ScheduleRoutes /\ UNCHANGED <<batchVars, schedulerVars>>
  \/ BatchRoutes /\ UNCHANGED <<schedVars, schedulerVars>>
  \/ Crash \/ DeleteWorkspace \/ SweepOrphans \/ SweepStale \/ Restart
  \/ \E j \in Jobs :
        \/ BatchHandler(j) /\ UNCHANGED <<schedVars, schedulerVars>>
        \/ Take(j) \/ SlotCounts(j) \/ SlotInserts(j) \/ SlotReleases(j) \/ Settle(j)
        \/ SlotAges(j)
        \/ CronBranch(j)
        \/ AcquireLock(j) \/ ReadThread(j) \/ SessionStarts(j) \/ BindLands(j) \/ ResumeFails(j)
        \/ BindThread(j) \/ LoseLock(j)
        \/ TurnEnds(j) \/ SendReply(j) \/ SendErrorReply(j) \/ NotifyLost(j)
        \/ Monitor(j) \/ Stall(j) \/ SendChat(j)

LEMMA NextSteps == Next => Steps /\ UNCHANGED <<kind, mode>>
BY DEF Next, Routes, Work, Trouble, Handler, Steps

LEMMA TypesStep == TypeOK /\ [Next]_vars => TypeOK'
<1> SUFFICES ASSUME TypeOK, [Next]_vars PROVE TypeOK'
  OBVIOUS
<1>1. CASE UNCHANGED vars
  BY <1>1 DEF vars, queueVars, schedVars, batchVars, schedulerVars, chatVars, TypeOK, QueueTypes,
              ScheduleTypes, BatchTypes
<1>2. CASE Next
  <2>1. Steps /\ UNCHANGED <<kind, mode>>
    BY <1>2, NextSteps
  <2> QED
    BY <2>1, SlotTypes, SweepTypes, ChatTypes, SpeaksTypes, TroubleTypes, RouteTypes DEF Steps
<1> QED
  BY <1>1, <1>2

LEMMA TypesInit == Init => TypeOK
<1> SUFFICES ASSUME Init PROVE TypeOK
  OBVIOUS
<1>1. QueueTypes
  <2>1. trouble \in 0..2
    BY SchedulerAssumption DEF Init
  <2>2. job \in [Jobs -> JobState]
    BY DEF Init, JobState
  <2> QED BY <2>1, <2>2 DEF Init, QueueTypes
<1>2. ScheduleTypes
  <2>1. sched \in ScheduleRow
    <3>1. PICK t \in Jobs \cup {None} :
             sched = [Created(t) EXCEPT !.exists = Of("cron") # {}, !.enabled = Of("cron") # {}]
      BY DEF Init
    <3>2. ASSUME NEW b \in BOOLEAN
          PROVE  [Created(t) EXCEPT !.exists = b, !.enabled = b] \in ScheduleRow
      BY DEF Created, ScheduleRow
    <3>3. (Of("cron") # {}) \in BOOLEAN
      OBVIOUS
    <3> QED BY <3>1, <3>2, <3>3, Zenon
  <2>2. rq \in [Requests -> Request]
    BY DEF Init, AtRest, Request
  <2>3. mode \in {"once", "recurring"} /\ cron \in BOOLEAN /\ fires \in Nat
    BY DEF Init
  <2> QED BY <2>1, <2>2, <2>3 DEF ScheduleTypes
<1>3. BatchTypes
  BY DEF Init, BatchTypes
<1>4. pc \in [Jobs -> Positions] /\ ServerTypes
  BY DEF Init, Positions, ServerTypes
<1> QED
  BY <1>1, <1>2, <1>3, <1>4, TypeParts

(* The jobs, the schedule, the batch run, the slots and the thread's       *)
(* session keep their types, for any jobs and any overlap of requests.     *)
THEOREM TypeCorrect == Spec => []TypeOK
<1> QED
  BY TypesInit, TypesStep, PTL DEF Spec

-----------------------------------------------------------------------------
(* The inductive invariant. *)

(* The jobs whose handler has not said anything yet, those that hold the   *)
(* thread's lock, and those whose turn has started.                        *)
Silent == {"claim", "insert", "sched", "mark", "lock", "read", "turn", "reply", "oops"}
Holding == {"read", "turn", "reply", "bind", "oops"}
Beyond == {"turn", "reply", "bind", "oops", "free", "freeF", "done", "doneF"}

(* A handler works on a job that was fetched and has not ended, unless the *)
(* monitor has failed it; and an aged slot is an accident.                 *)
Serves ==
  /\ \A j \in Jobs : pc[j] # "idle" => job[j] = "active" \/ (job[j] = "failed" /\ j \in odd)
  /\ old \subseteq odd

(* Which kinds of jobs come where. *)
KindsApart ==
  /\ \A j \in Jobs :
       /\ pc[j] \in {"sched", "mark"} => kind[j] = "cron"
       /\ pc[j] \in {"lock", "read", "reply", "bind", "oops"} => kind[j] = "chat"
       /\ pc[j] \in {"claim", "insert"} => kind[j] # "batch"
       /\ j \in started => kind[j] = "chat" /\ pc[j] \in Beyond
  /\ lock # None => kind[lock] = "chat"

(* A job has said one thing at most, and nothing while it may still say    *)
(* something or be found lost.                                             *)
HeardOnce ==
  \A j \in Jobs \ odd :
    /\ \A v, w \in told[j] : v = w
    /\ \/ pc[j] \in Silent
       \/ job[j] \in {"absent", "created", "cancelled"}
       \/ job[j] = "active" /\ pc[j] = "idle"
       \/ dlq[j] = "lost"
       => told[j] = {}
    /\ dlq[j] = "lost" => job[j] = "failed" /\ pc[j] = "idle"

(* A bind under way names the session of its job's turn, or is left from a *)
(* job that is over; a job whose turn runs holds the lock.                 *)
BindsNameTurns ==
  \A i, s \in Jobs : <<i, s>> \in binds =>
    /\ kind[i] = "chat"
    /\ \/ i \in started /\ s = sess[i]
       \/ pc[i] = "idle" /\ job[i] \notin {"absent", "created"}
Calm == Of("chat") \cap odd = {}
TurnHoldsLock == Calm => \A j \in Of("chat") : pc[j] \in Holding => lock = j

(* An open one-time schedule has a job that will fire it and that no PATCH *)
(* is about to cancel, or a request that has still to arm it or to end it. *)
Known(t) == t = None \/ job[t] # "absent"
Open ==
  mode = "once" /\ sched.exists /\ sched.enabled /\ ~sched.completed /\ Of("cron") \cap odd = {}
Kept(j) == WillFire(j) /\ \A r \in Requests : rq[r].at = "wrote" => rq[r].ex # j
Pending(r) == (rq[r].at \in {"wrote", "cleared"} /\ rq[r].on) \/ rq[r].at \in {"doomed", "deleting"}
TimerKept ==
  /\ Known(sched.timer) /\ \A r \in Requests : Known(rq[r].ex) /\ Known(rq[r].new)
  /\ Open => (\E j \in Of("cron") : Kept(j)) \/ (\E r \in Requests : Pending(r))

IInv ==
  /\ TypeOK /\ Serves /\ KindsApart
  /\ SlotBacksRun /\ HeardOnce
  /\ BindsNameTurns /\ TurnHoldsLock /\ CancelFindsTurn
  /\ TimerKept

-----------------------------------------------------------------------------
(* How a step moves jobs and handlers: a handler goes on to p; or none     *)
(* moves, and at most a job is sent or cancelled in the queue.             *)
Walk(j, p) ==
  /\ pc[j] # "idle"
  /\ pc' = [pc EXCEPT ![j] = p]
  /\ UNCHANGED <<job, dlq>>
  /\ odd \subseteq odd'

JobsRest ==
  /\ pc' = pc /\ dlq' = dlq
  /\ odd \subseteq odd'
  /\ \A j \in Jobs : \/ job'[j] = job[j]
                     \/ job[j] = "absent" /\ job'[j] = "created"
                     \/ job[j] = "created" /\ job'[j] = "cancelled"

LEMMA GoesWalks ==
  ASSUME NEW j \in Jobs, NEW p, Goes(j, p), pc[j] # "idle" PROVE Walk(j, p)
BY DEF Goes, NoAccident, Walk

LEMMA HandlerWalks ==
  ASSUME NEW j \in Jobs,
         \/ SlotCounts(j) \/ SlotInserts(j) \/ SlotReleases(j) \/ CronBranch(j)
         \/ AcquireLock(j) \/ ReadThread(j) \/ BindThread(j)
         \/ TurnEnds(j) \/ SendReply(j) \/ SendErrorReply(j) \/ BatchHandler(j)
  PROVE  \E p \in Positions \ {"idle"} : Walk(j, p)
<1>p. Positions \ {"idle"} =
        {"claim", "insert", "sched", "mark", "lock", "read", "turn", "reply", "bind", "oops",
         "free", "freeF", "done", "doneF", "wait", "take", "run", "check", "close"}
  BY DEF Positions
<1>1. CASE SlotCounts(j) \/ SlotInserts(j) \/ SlotReleases(j) \/ AcquireLock(j) \/ ReadThread(j)
           \/ BindThread(j)
  BY <1>p, <1>1, GoesWalks
     DEF SlotCounts, SlotInserts, SlotReleases, AcquireLock, ReadThread, BindThread
<1>2. CASE CronBranch(j)
  BY <1>p, <1>2, GoesWalks DEF CronBranch, ReadSchedule, MarkCompleted, Walk, Accident
<1>3. CASE TurnEnds(j) \/ SendReply(j)
  BY <1>p, <1>3, GoesWalks DEF TurnEnds, SendReply, Walk, Accident
<1>4. CASE SendErrorReply(j)
  BY <1>p, <1>4, GoesWalks DEF SendErrorReply, Walk, Accident
<1>5. CASE BatchHandler(j)
  BY <1>p, <1>5, GoesWalks
     DEF BatchHandler, ClaimCounts, ClaimTakes, BatchTurn, BatchCheck, BatchClose
<1> QED
  BY <1>1, <1>2, <1>3, <1>4, <1>5

LEMMA SentRests ==
  ASSUME TypeOK, NEW j \in Jobs, Sent(j), UNCHANGED <<pc, dlq, odd>> PROVE JobsRest
BY DEF TypeOK, QueueTypes, Sent, JobsRest

LEMMA ClearRests ==
  ASSUME TypeOK, NEW t \in Jobs \cup {None}, ClearTimer(t), UNCHANGED <<pc, dlq>>,
         odd \subseteq odd'
  PROVE  JobsRest
BY QueueAssumption DEF TypeOK, QueueTypes, ClearTimer, Cancelled, JobsRest

LEMMA UntouchedRests == UNCHANGED <<job, pc, dlq>> /\ odd \subseteq odd' => JobsRest
BY DEF JobsRest

LEMMA RoutesRest ==
  ASSUME TypeOK, ScheduleRoutes \/ BatchRoutes \/ DeleteWorkspace \/ \E j \in Jobs : SendChat(j)
  PROVE  JobsRest
<1>k. ScheduleTypes BY DEF TypeOK
<1>1. ASSUME NEW r \in Requests,
             PatchReads(r) \/ PatchWrites(r) \/ PatchNames(r) \/ DeleteReads(r) \/ DeleteDeletes(r)
      PROVE  JobsRest
  BY <1>1, UntouchedRests
     DEF PatchReads, PatchWrites, PatchNames, DeleteReads, DeleteDeletes, queueVars
<1>2. ASSUME NEW r \in Requests, PatchClears(r) \/ DeleteClears(r) PROVE JobsRest
  <2>1. rq[r].ex \in Jobs \cup {None}
    BY <1>k DEF ScheduleTypes, Request
  <2> QED BY <1>2, <2>1, ClearRests DEF PatchClears, DeleteClears, NoAccident
<1>3. ASSUME NEW r \in Requests, PatchArms(r) PROVE JobsRest
  BY <1>3, SentRests, UntouchedRests DEF PatchArms, NoAccident, Of
<1>4. ASSUME NEW j \in Jobs, RunNow(j) \/ CronTick(j) \/ CreateTask(j) \/ SendChat(j) PROVE JobsRest
  BY <1>4, SentRests DEF RunNow, CronTick, CreateTask, SendChat, NoAccident
<1>5. ASSUME MarkRunning \/ CancelLists \/ CancelCloses \/ \E j \in Jobs : CancelTask(j) PROVE JobsRest
  BY <1>5, UntouchedRests DEF MarkRunning, CancelLists, CancelCloses, CancelTask, queueVars
<1>6. CASE DeleteWorkspace
  <2>1. sched.timer \in Jobs \cup {None}
    BY <1>k DEF ScheduleTypes, ScheduleRow
  <2> QED BY <1>6, <2>1, ClearRests, UntouchedRests DEF DeleteWorkspace, Accident
<1> QED
  BY <1>1, <1>2, <1>3, <1>4, <1>5, <1>6 DEF ScheduleRoutes, BatchRoutes

LEMMA SweepRests == SweepOrphans \/ SweepStale \/ Restart => JobsRest
BY UntouchedRests
   DEF SweepOrphans, Sweep, SweepStale, Restart, Restarted, NoAccident, queueVars

LEMMA QuietRests ==
  ASSUME NEW j \in Jobs,
         \/ SlotAges(j) \/ SessionStarts(j) \/ BindLands(j) \/ ResumeFails(j) \/ LoseLock(j)
  PROVE  JobsRest
BY UntouchedRests
   DEF Accident, NoAccident, SlotAges, SessionStarts, BindLands, ResumeFails, LoseLock, queueVars

-----------------------------------------------------------------------------
(* Handlers serve jobs that were fetched. *)
LEMMA ServesRest ==
  ASSUME IInv, JobsRest, old' \subseteq odd' PROVE Serves'
BY DEF IInv, Serves, JobsRest

LEMMA ServesWalk ==
  ASSUME IInv, NEW j \in Jobs, \E p \in Positions \ {"idle"} : Walk(j, p), old' \subseteq odd'
  PROVE  Serves'
BY DEF IInv, TypeOK, Serves, Walk

LEMMA ServesStep ==
  ASSUME IInv, Steps PROVE Serves'
<1>a. TypeOK /\ Serves /\ old \subseteq odd
  BY DEF IInv, Serves
<1>1. CASE \/ ScheduleRoutes /\ UNCHANGED <<batchVars, schedulerVars>>
           \/ BatchRoutes /\ UNCHANGED <<schedVars, schedulerVars>>
           \/ DeleteWorkspace
           \/ \E j \in Jobs : SendChat(j)
  <2>1. JobsRest /\ old' = old
    BY <1>a, <1>1, RoutesRest DEF schedulerVars, DeleteWorkspace, SendChat
  <2> QED BY <1>a, <2>1, ServesRest DEF JobsRest
<1>s. CASE SweepOrphans \/ SweepStale \/ Restart
  <2>1. old' \subseteq odd'
    BY <1>a, <1>s
       DEF SweepOrphans, Sweep, SweepStale, Restart, Restarted, NoAccident, queueVars
  <2> QED BY <1>s, <2>1, SweepRests, ServesRest
<1>2. ASSUME NEW j \in Jobs,
             SlotAges(j) \/ SessionStarts(j) \/ BindLands(j) \/ ResumeFails(j) \/ LoseLock(j)
      PROVE  Serves'
  <2>1. JobsRest
    BY <1>2, QuietRests
  <2>2. old' \subseteq odd'
    BY <1>a, <1>2 DEF Accident, NoAccident, SlotAges, SessionStarts, BindLands, ResumeFails, LoseLock,
                      queueVars
  <2> QED BY <2>1, <2>2, ServesRest
<1>3. ASSUME NEW j \in Jobs,
         \/ SlotCounts(j) \/ SlotInserts(j) \/ SlotReleases(j) \/ CronBranch(j)
         \/ AcquireLock(j) \/ ReadThread(j) \/ BindThread(j)
         \/ TurnEnds(j) \/ SendReply(j) \/ SendErrorReply(j)
         \/ BatchHandler(j) /\ UNCHANGED <<schedVars, schedulerVars>>
      PROVE  Serves'
  <2>1. \E p \in Positions \ {"idle"} : Walk(j, p)
    BY <1>3, HandlerWalks
  <2>2. old' \subseteq old
    BY <1>3 DEF SlotCounts, SlotInserts, SlotReleases, CronBranch, AcquireLock, ReadThread, BindThread,
                TurnEnds, SendReply, SendErrorReply, schedulerVars
  <2> QED BY <1>a, <2>1, <2>2, ServesWalk DEF Walk
<1>4. ASSUME NEW j \in Jobs, Take(j) \/ Settle(j) \/ Monitor(j) \/ Stall(j) \/ NotifyLost(j)
      PROVE  Serves'
  <2>1. old' = old /\ odd \subseteq odd'
    BY <1>4 DEF Take, Settle, Monitor, Stall, NotifyLost, Fetch, Settled, MonitorFails,
                MonitorFailsLive, NoAccident, Accident, schedulerVars
  <2>2. CASE Take(j)
    BY <1>a, <2>1, <2>2 DEF Take, Fetch, Serves, TypeOK, QueueTypes
  <2>3. CASE Settle(j)
    BY <1>a, <2>1, <2>3 DEF Settle, Settled, Serves, TypeOK, QueueTypes
  <2>4. CASE Monitor(j)
    BY <1>a, <2>1, <2>4 DEF Monitor, MonitorFails, Serves, TypeOK, QueueTypes
  <2>5. CASE Stall(j)
    BY <1>a, <2>1, <2>5 DEF Stall, MonitorFailsLive, Accident, Serves, TypeOK, QueueTypes
  <2>6. CASE NotifyLost(j)
    BY <1>a, <2>1, <2>6 DEF NotifyLost, Serves
  <2> QED BY <1>4, <2>2, <2>3, <2>4, <2>5, <2>6
<1>5. CASE Crash
  BY <1>a, <1>5 DEF Crash, Die, Accident, Serves
<1> QED
  BY <1>1, <1>s, <1>2, <1>3, <1>4, <1>5 DEF Steps

-----------------------------------------------------------------------------
(* A slot behind every job that executes. *)
LEMMA SlotFrame ==
  ASSUME IInv, slots \subseteq slots', odd \subseteq odd',
         \A j \in Jobs : pc'[j] \in Executing /\ job'[j] = "active"
                           => pc[j] \in Executing /\ job[j] = "active"
  PROVE  SlotBacksRun'
BY DEF IInv, SlotBacksRun

LEMMA SlotStep ==
  ASSUME IInv, Steps PROVE SlotBacksRun'
<1>a. TypeOK /\ old \subseteq odd /\ SlotBacksRun
  BY DEF IInv, Serves
<1>e. /\ pc \in [Jobs -> Positions]
      /\ Executing \cap {"idle", "claim", "insert", "done", "doneF", "wait", "take", "run", "check", "close"} = {}
      /\ {"sched", "mark", "lock", "read", "turn", "reply", "bind", "oops", "free", "freeF"} \subseteq Executing
  BY <1>a DEF TypeOK, Executing
<1>r. ASSUME JobsRest, slots \subseteq slots' PROVE SlotBacksRun'
  BY <1>r, SlotFrame DEF JobsRest
<1>1. CASE \/ ScheduleRoutes /\ UNCHANGED <<batchVars, schedulerVars>>
           \/ BatchRoutes /\ UNCHANGED <<schedVars, schedulerVars>>
           \/ DeleteWorkspace
           \/ \E j \in Jobs : SendChat(j)
  <2>1. JobsRest /\ slots' = slots
    BY <1>a, <1>1, RoutesRest DEF schedulerVars, DeleteWorkspace, SendChat
  <2> QED BY <2>1, <1>r
<1>2. ASSUME NEW j \in Jobs,
             SlotAges(j) \/ SessionStarts(j) \/ BindLands(j) \/ ResumeFails(j) \/ LoseLock(j)
      PROVE  SlotBacksRun'
  <2>1. JobsRest /\ slots' = slots
    BY <1>2, QuietRests DEF SlotAges, SessionStarts, BindLands, ResumeFails, LoseLock
  <2> QED BY <2>1, <1>r
<1>3. CASE SweepOrphans
  BY <1>a, <1>3 DEF SweepOrphans, Sweep, Ended, queueVars, SlotBacksRun
<1>4. CASE SweepStale \/ Restart
  BY <1>a, <1>4 DEF SweepStale, Restart, Restarted, NoAccident, queueVars, SlotBacksRun
<1>5. ASSUME NEW j \in Jobs, SlotInserts(j) \/ SlotReleases(j) PROVE SlotBacksRun'
  BY <1>a, <1>e, <1>5 DEF SlotInserts, SlotReleases, Goes, NoAccident, SlotBacksRun
<1>6. ASSUME NEW j \in Jobs,
             \/ BatchHandler(j) /\ UNCHANGED <<schedVars, schedulerVars>>
             \/ SlotCounts(j) \/ Take(j) \/ Settle(j)
      PROVE  SlotBacksRun'
  <2>1. slots' = slots /\ odd' = odd
    BY <1>6 DEF SlotCounts, BatchHandler, Take, Settle, Fetch, Settled, Goes, NoAccident,
                ClaimCounts, ClaimTakes, BatchTurn, BatchCheck, BatchClose, schedulerVars
  <2>2. PICK p \in Positions \ Executing :
           /\ pc' = [pc EXCEPT ![j] = p]
           /\ \A i \in Jobs \ {j} : job'[i] = job[i]
    BY <1>a, <1>6 DEF SlotCounts, BatchHandler, Take, Settle, Fetch, Settled, Goes, Positions, Executing,
                ClaimCounts, ClaimTakes, BatchTurn, BatchCheck, BatchClose, TypeOK, QueueTypes
  <2> QED BY <1>e, <2>1, <2>2, SlotFrame
<1>7. ASSUME NEW j \in Jobs,
             \/ CronBranch(j) \/ AcquireLock(j) \/ ReadThread(j) \/ BindThread(j)
             \/ TurnEnds(j) \/ SendReply(j) \/ SendErrorReply(j)
      PROVE  SlotBacksRun'
  <2>1. PICK p \in Positions : Walk(j, p)
    BY <1>7, HandlerWalks
  <2>2. slots' = slots /\ pc[j] \in Executing
    BY <1>e, <1>7
       DEF CronBranch, ReadSchedule, MarkCompleted, AcquireLock, ReadThread, BindThread,
           TurnEnds, SendReply, SendErrorReply, schedulerVars
  <2> QED BY <1>e, <2>1, <2>2, SlotFrame DEF Walk
<1>8. ASSUME NEW j \in Jobs, Monitor(j) \/ Stall(j) \/ NotifyLost(j) PROVE SlotBacksRun'
  <2>1. /\ slots' = slots /\ odd \subseteq odd' /\ pc' = pc
        /\ \A i \in Jobs : job'[i] = "active" => job[i] = "active"
    BY <1>a, <1>8 DEF Monitor, Stall, NotifyLost, MonitorFails, MonitorFailsLive, NoAccident, Accident,
                schedulerVars, TypeOK, QueueTypes
  <2> QED BY <2>1, SlotFrame
<1>9. CASE Crash
  BY <1>e, <1>9 DEF Crash, Die, Accident, SlotBacksRun
<1> QED
  BY <1>1, <1>2, <1>3, <1>4, <1>5, <1>6, <1>7, <1>8, <1>9 DEF Steps

-----------------------------------------------------------------------------
(* Which kinds of jobs come where. *)
LEMMA KindsWalk ==
  ASSUME IInv, kind' = kind, NEW j \in Jobs,
         pc[j] # "idle" => j \notin started \/ pc[j] \in Beyond,
         NEW p \in Positions, pc' = [pc EXCEPT ![j] = p],
         p \in {"sched", "mark"} => kind[j] = "cron",
         p \in {"lock", "read", "reply", "bind", "oops"} => kind[j] = "chat",
         p \in {"claim", "insert"} => kind[j] # "batch",
         j \in started' => p \in Beyond,
         started' \subseteq started, lock' # None => lock' = lock \/ (lock' = j /\ kind[j] = "chat")
  PROVE  KindsApart'
BY QueueAssumption DEF IInv, TypeOK, KindsApart

LEMMA KindsFrame ==
  ASSUME IInv, kind' = kind, pc' = pc, started' \subseteq started, lock' = lock PROVE KindsApart'
BY DEF IInv, KindsApart

LEMMA KindsStep ==
  ASSUME IInv, Steps, kind' = kind PROVE KindsApart'
<1>a. TypeOK /\ Serves /\ KindsApart
  BY DEF IInv
<1>p. /\ pc \in [Jobs -> Positions] /\ kind \in [Jobs -> {"chat", "cron", "batch"}]
      /\ Beyond = {"turn", "reply", "bind", "oops", "free", "freeF", "done", "doneF"}
      /\ {"idle", "claim", "insert", "sched", "mark", "lock", "read", "turn", "reply", "bind", "oops",
          "free", "freeF", "done", "doneF", "wait", "take", "run", "check", "close"} \subseteq Positions
  BY <1>a DEF TypeOK, QueueTypes, Kinds, Beyond, Positions
<1>j. \A j \in Jobs : /\ pc[j] \in {"sched", "mark"} => kind[j] = "cron"
                      /\ pc[j] \in {"lock", "read", "reply", "bind", "oops"} => kind[j] = "chat"
                      /\ pc[j] \in {"claim", "insert"} => kind[j] # "batch"
                      /\ j \in started => kind[j] = "chat" /\ pc[j] \in Beyond
  BY <1>a DEF KindsApart
<1>1. CASE \/ ScheduleRoutes /\ UNCHANGED <<batchVars, schedulerVars>>
           \/ BatchRoutes /\ UNCHANGED <<schedVars, schedulerVars>>
           \/ DeleteWorkspace
           \/ \E j \in Jobs : SendChat(j)
  <2>1. JobsRest /\ started' = started /\ lock' = lock
    BY <1>a, <1>1, RoutesRest DEF schedulerVars, chatVars, DeleteWorkspace, SendChat
  <2> QED BY <2>1, KindsFrame DEF JobsRest
<1>2. CASE SweepOrphans \/ SweepStale \/ Restart
  <2>1. started' = started /\ lock' = lock
    BY <1>2 DEF SweepOrphans, Sweep, SweepStale, Restart, chatVars
  <2> QED BY <1>2, <2>1, SweepRests, KindsFrame DEF JobsRest
<1>3. ASSUME NEW j \in Jobs, SlotAges(j) \/ BindLands(j) \/ ResumeFails(j) \/ NotifyLost(j)
                             \/ Monitor(j) \/ Stall(j)
      PROVE  KindsApart'
  <2>1. pc' = pc /\ started' = started /\ lock' = lock
    BY <1>3 DEF SlotAges, BindLands, ResumeFails, NotifyLost, Monitor, Stall, MonitorFails,
                MonitorFailsLive, schedulerVars, chatVars, queueVars
  <2> QED BY <2>1, KindsFrame
<1>4. ASSUME NEW j \in Jobs, SessionStarts(j) \/ LoseLock(j) PROVE KindsApart'
  BY <1>a, <1>p, <1>4 DEF SessionStarts, LoseLock, queueVars, KindsApart
<1>5. ASSUME NEW j \in Jobs, NEW p \in Positions, pc' = [pc EXCEPT ![j] = p],
             p \in {"sched", "mark"} => kind[j] = "cron",
             p \in {"lock", "read", "reply", "bind", "oops"} => kind[j] = "chat",
             p \in {"claim", "insert"} => kind[j] # "batch",
             pc[j] \in Beyond => p \in Beyond,
             started' = started, lock' = lock \/ (lock' = j /\ kind[j] = "chat") \/ lock' = None
      PROVE  KindsApart'
  BY <1>5, <1>j, KindsWalk
<1>6. ASSUME NEW j \in Jobs, SlotCounts(j) \/ SlotInserts(j) \/ SlotReleases(j) PROVE KindsApart'
  <2>1. started' = started /\ lock' = lock
    BY <1>6 DEF SlotCounts, SlotInserts, SlotReleases, schedulerVars, chatVars
  <2> QED BY <1>5, <1>6, <1>j, <1>p, <2>1 DEF SlotCounts, SlotInserts, SlotReleases, Goes
<1>7. ASSUME NEW j \in Jobs, CronBranch(j) PROVE KindsApart'
  <2>1. started' = started /\ lock' = lock
    BY <1>7 DEF CronBranch, schedulerVars, chatVars
  <2> QED BY <1>5, <1>7, <1>j, <1>p, <2>1 DEF CronBranch, ReadSchedule, MarkCompleted, Goes
<1>8. ASSUME NEW j \in Jobs, BatchHandler(j), UNCHANGED schedulerVars PROVE KindsApart'
  <2>1. started' = started /\ lock' = lock
    BY <1>8 DEF schedulerVars, chatVars
  <2> QED BY <1>5, <1>8, <1>j, <1>p, <2>1
             DEF BatchHandler, ClaimCounts, ClaimTakes, BatchTurn, BatchCheck, BatchClose, Goes
<1>9. ASSUME NEW j \in Jobs, AcquireLock(j) \/ ReadThread(j) \/ BindThread(j) PROVE KindsApart'
  <2>1. started' = started
    BY <1>9 DEF AcquireLock, ReadThread, BindThread
  <2> QED BY <1>5, <1>9, <1>j, <1>p, <2>1 DEF AcquireLock, ReadThread, BindThread, Goes
<1>10. ASSUME NEW j \in Jobs, TurnEnds(j) \/ SendReply(j) PROVE KindsApart'
  <2>1. started' = started /\ lock' = lock
    BY <1>10 DEF TurnEnds, SendReply, chatVars
  <2> QED BY <1>5, <1>10, <1>j, <1>p, <2>1 DEF TurnEnds, SendReply, Goes
<1>11. ASSUME NEW j \in Jobs, SendErrorReply(j) PROVE KindsApart'
  <2>1. started' = started
    BY <1>11 DEF SendErrorReply
  <2> QED BY <1>5, <1>11, <1>j, <1>p, <2>1 DEF SendErrorReply, Goes
<1>12. ASSUME NEW j \in Jobs, Take(j) PROVE KindsApart'
  <2>1. started' = started /\ lock' = lock /\ pc[j] = "idle"
    BY <1>a, <1>12 DEF Take, Fetch, schedulerVars, chatVars, Serves
  <2> QED BY <1>5, <1>12, <1>p, <2>1 DEF Take, Fetch
<1>13. ASSUME NEW j \in Jobs, Settle(j) PROVE KindsApart'
  <2>1. started' = started \ {j} /\ lock' = lock /\ pc' = [pc EXCEPT ![j] = "idle"]
    BY <1>13 DEF Settle, Settled
  <2> QED BY <1>j, <1>p, <2>1, KindsWalk
<1>14. CASE Crash
  BY <1>p, <1>14 DEF Crash, Die, KindsApart
<1> QED
  BY <1>1, <1>2, <1>3, <1>4, <1>6, <1>7, <1>8, <1>9, <1>10, <1>11, <1>12, <1>13, <1>14 DEF Steps

-----------------------------------------------------------------------------
(* One word about a job. *)
LEMMA HeardFrame ==
  ASSUME IInv, JobsRest, told' = told PROVE HeardOnce'
BY DEF IInv, HeardOnce, JobsRest

LEMMA HeardWalk ==
  ASSUME IInv, NEW j \in Jobs, NEW p \in Positions \ {"idle"}, Walk(j, p),
         \/ told' = told /\ (p \in Silent => pc[j] \in Silent)
         \/ \E w : pc[j] \in Silent /\ p \notin Silent /\ Says(j, w)
         \/ j \in odd' /\ \E w : told' = told \/ Says(j, w)
  PROVE  HeardOnce'
<1>a. TypeOK /\ Serves /\ HeardOnce
  BY DEF IInv
<1>1. \A i \in Jobs \ {j} : pc'[i] = pc[i] /\ told'[i] = told[i] /\ job'[i] = job[i] /\ dlq'[i] = dlq[i]
  BY <1>a DEF Walk, Says, TypeOK
<1>2. ASSUME j \notin odd'
      PROVE  /\ pc'[j] = p /\ job'[j] = "active" /\ dlq'[j] # "lost"
             /\ \A v, w \in told'[j] : v = w
             /\ p \in Silent => told'[j] = {}
  BY <1>a, <1>2 DEF Walk, Says, TypeOK, HeardOnce, Serves
<1>3. odd \subseteq odd'
  BY DEF Walk
<1> QED
  BY <1>a, <1>1, <1>2, <1>3 DEF HeardOnce

LEMMA HeardStep ==
  ASSUME IInv, Steps, kind' = kind PROVE HeardOnce'
<1>a. TypeOK /\ Serves /\ KindsApart /\ HeardOnce
  BY DEF IInv
<1>p. /\ pc \in [Jobs -> Positions] /\ told \in [Jobs -> SUBSET Word]
      /\ {"claim", "insert", "sched", "mark", "lock", "read", "turn", "reply", "oops"} \subseteq Silent
      /\ Silent \cap {"idle", "bind", "free", "freeF", "done", "doneF", "wait", "take", "run", "check", "close"} = {}
      /\ {"claim", "insert", "sched", "mark", "lock", "read", "turn", "reply", "bind", "oops",
          "free", "freeF", "done", "doneF", "wait", "take", "run", "check", "close"} \subseteq Positions \ {"idle"}
  BY <1>a DEF TypeOK, Silent, Positions
<1>1. CASE \/ ScheduleRoutes /\ UNCHANGED <<batchVars, schedulerVars>>
           \/ BatchRoutes /\ UNCHANGED <<schedVars, schedulerVars>>
           \/ DeleteWorkspace
           \/ \E j \in Jobs : SendChat(j)
  <2>1. JobsRest /\ told' = told
    BY <1>a, <1>1, RoutesRest DEF schedulerVars, DeleteWorkspace, SendChat
  <2> QED BY <2>1, HeardFrame
<1>2. CASE SweepOrphans \/ SweepStale \/ Restart
  <2>1. told' = told
    BY <1>2 DEF SweepOrphans, Sweep, SweepStale, Restart
  <2> QED BY <1>2, <2>1, SweepRests, HeardFrame
<1>3. ASSUME NEW j \in Jobs,
             SlotAges(j) \/ SessionStarts(j) \/ BindLands(j) \/ ResumeFails(j) \/ LoseLock(j)
      PROVE  HeardOnce'
  <2>1. told' = told
    BY <1>3 DEF SlotAges, SessionStarts, BindLands, ResumeFails, LoseLock
  <2> QED BY <1>3, <2>1, QuietRests, HeardFrame
<1>4. ASSUME NEW j \in Jobs,
             \/ SlotCounts(j) \/ SlotInserts(j) \/ SlotReleases(j)
             \/ AcquireLock(j) \/ ReadThread(j) \/ BindThread(j)
      PROVE  HeardOnce'
  <2>1. told' = told
    BY <1>4 DEF SlotCounts, SlotInserts, SlotReleases, AcquireLock, ReadThread, BindThread,
                schedulerVars
  <2> QED BY <1>4, <1>p, <2>1, GoesWalks, HeardWalk
             DEF SlotCounts, SlotInserts, SlotReleases, AcquireLock, ReadThread, BindThread
<1>5. ASSUME NEW j \in Jobs, CronBranch(j) PROVE HeardOnce'
  <2>1. told' = told /\ pc[j] \in Silent
    BY <1>5, <1>p DEF CronBranch, ReadSchedule, MarkCompleted, schedulerVars
  <2> QED BY <1>5, <2>1, HandlerWalks, HeardWalk
<1>6. ASSUME NEW j \in Jobs, BatchHandler(j), UNCHANGED schedulerVars PROVE HeardOnce'
  <2>1. told' = told
    BY <1>6 DEF schedulerVars
  <2> QED BY <1>6, <1>p, <2>1, GoesWalks, HeardWalk
             DEF BatchHandler, ClaimCounts, ClaimTakes, BatchTurn, BatchCheck, BatchClose
<1>7. ASSUME NEW j \in Jobs, TurnEnds(j) PROVE HeardOnce'
  BY <1>7, <1>p, GoesWalks, HeardWalk DEF TurnEnds
<1>8. ASSUME NEW j \in Jobs, SendReply(j) PROVE HeardOnce'
  <2>1. CASE Goes(j, "bind") /\ Says(j, "answer")
    BY <1>8, <1>p, <2>1, GoesWalks, HeardWalk DEF SendReply
  <2>2. CASE Accident({j})
    <3>1. j \in odd' /\ \E w : told' = told \/ Says(j, w)
      BY <1>8, <2>2 DEF SendReply, Accident
    <3> QED BY <1>8, <3>1, HandlerWalks, HeardWalk
  <2> QED BY <1>8, <2>1, <2>2 DEF SendReply
<1>9. ASSUME NEW j \in Jobs, SendErrorReply(j) PROVE HeardOnce'
  <2>1. CASE Goes(j, "freeF") /\ Says(j, "error")
    BY <1>9, <1>p, <2>1, GoesWalks, HeardWalk DEF SendErrorReply
  <2>2. CASE Accident({j}) /\ Says(j, "refused")
    BY <1>9, <2>2, HandlerWalks, HeardWalk DEF Accident
  <2> QED BY <1>9, <2>1, <2>2 DEF SendErrorReply
<1>10. ASSUME NEW j \in Jobs, Take(j) PROVE HeardOnce'
  BY <1>a, <1>10 DEF Take, Fetch, NoAccident, schedulerVars, TypeOK, QueueTypes, HeardOnce
<1>11. ASSUME NEW j \in Jobs, Settle(j) PROVE HeardOnce'
  BY <1>a, <1>p, <1>11 DEF Settle, Settled, NoAccident, TypeOK, QueueTypes, HeardOnce, Serves
<1>12. ASSUME NEW j \in Jobs, Monitor(j) PROVE HeardOnce'
  BY <1>a, <1>p, <1>12 DEF Monitor, MonitorFails, NoAccident, schedulerVars, TypeOK, QueueTypes, HeardOnce
<1>13. ASSUME NEW j \in Jobs, Stall(j) PROVE HeardOnce'
  BY <1>a, <1>p, <1>13 DEF Stall, MonitorFailsLive, Accident, schedulerVars, TypeOK, QueueTypes, HeardOnce
<1>14. ASSUME NEW j \in Jobs, NotifyLost(j) PROVE HeardOnce'
  <2>1. odd \subseteq odd' /\ pc' = pc /\ job' = job
    BY <1>14 DEF NotifyLost, NoAccident, Accident
  <2>2. ASSUME NEW i \in Jobs \ odd', i # j
        PROVE  told'[i] = told[i] /\ dlq'[i] = dlq[i]
    BY <1>a, <1>14, <2>2 DEF NotifyLost, Says, TypeOK, QueueTypes
  <2>3. ASSUME j \notin odd'
        PROVE  /\ dlq'[j] = "handled"
               /\ \/ told'[j] = told[j] 
                  \/ dlq[j] = "lost" /\ told'[j] = told[j] \cup {"lost"}
    BY <1>a, <1>14, <2>3 DEF NotifyLost, Says, Accident, TypeOK, QueueTypes
  <2> QED BY <1>a, <1>p, <2>1, <2>2, <2>3 DEF HeardOnce
<1>15. CASE Crash
  BY <1>a, <1>p, <1>15 DEF Crash, Die, Accident, Serving, HeardOnce
<1> QED
  BY <1>1, <1>2, <1>3, <1>4, <1>5, <1>6, <1>7, <1>8, <1>9, <1>10, <1>11, <1>12, <1>13, <1>14, <1>15
     DEF Steps

-----------------------------------------------------------------------------
(* The binds under way. *)
LEMMA BindsFrame ==
  ASSUME IInv, kind' = kind, JobsRest, binds' \subseteq binds, started' = started, sess' = sess
  PROVE  BindsNameTurns'
BY DEF IInv, BindsNameTurns, JobsRest

LEMMA BindsWalk ==
  ASSUME IInv, kind' = kind, NEW j \in Jobs, \E p \in Positions : Walk(j, p),
         binds' = binds, started' = started, \A i \in Jobs : i # j \/ j \in started => sess'[i] = sess[i]
  PROVE  BindsNameTurns'
BY DEF IInv, TypeOK, BindsNameTurns, Walk

LEMMA BindsStep ==
  ASSUME IInv, Steps, kind' = kind PROVE BindsNameTurns'
<1>a. TypeOK /\ Serves /\ KindsApart /\ BindsNameTurns
  BY DEF IInv
<1>1. CASE \/ ScheduleRoutes /\ UNCHANGED <<batchVars, schedulerVars>>
           \/ BatchRoutes /\ UNCHANGED <<schedVars, schedulerVars>>
           \/ DeleteWorkspace
           \/ \E j \in Jobs : SendChat(j)
  <2>1. JobsRest /\ UNCHANGED chatVars
    BY <1>a, <1>1, RoutesRest DEF schedulerVars, DeleteWorkspace, SendChat
  <2> QED BY <2>1, BindsFrame DEF chatVars
<1>2. CASE SweepOrphans \/ SweepStale \/ Restart
  <2>1. UNCHANGED chatVars
    BY <1>2 DEF SweepOrphans, Sweep, SweepStale, Restart
  <2> QED BY <1>2, <2>1, SweepRests, BindsFrame DEF chatVars
<1>3. ASSUME NEW j \in Jobs, SlotAges(j) \/ BindLands(j) \/ LoseLock(j) PROVE BindsNameTurns'
  <2>1. binds' \subseteq binds /\ started' = started /\ sess' = sess
    BY <1>3 DEF SlotAges, BindLands, LoseLock, chatVars
  <2> QED BY <1>3, <2>1, QuietRests, BindsFrame
<1>4. ASSUME NEW j \in Jobs,
             \/ SlotCounts(j) \/ SlotInserts(j) \/ SlotReleases(j) \/ CronBranch(j)
             \/ AcquireLock(j) \/ BindThread(j)
             \/ TurnEnds(j) \/ SendReply(j) \/ SendErrorReply(j)
             \/ BatchHandler(j) /\ UNCHANGED <<schedVars, schedulerVars>>
      PROVE  BindsNameTurns'
  <2>1. binds' = binds /\ started' = started /\ sess' = sess
    BY <1>4 DEF SlotCounts, SlotInserts, SlotReleases, CronBranch, AcquireLock, BindThread,
                TurnEnds, SendReply, SendErrorReply, schedulerVars, chatVars
  <2> QED BY <1>4, <2>1, HandlerWalks, BindsWalk
<1>5. ASSUME NEW j \in Jobs, ReadThread(j) PROVE BindsNameTurns'
  <2>1. /\ binds' = binds /\ started' = started
        /\ j \notin started
        /\ \A i \in Jobs \ {j} : sess'[i] = sess[i]
    BY <1>a, <1>5 DEF ReadThread, KindsApart, Beyond, TypeOK
  <2> QED BY <1>5, <2>1, HandlerWalks, BindsWalk
<1>6. ASSUME NEW j \in Jobs, ResumeFails(j) PROVE BindsNameTurns'
  BY <1>a, <1>6 DEF ResumeFails, queueVars, TypeOK, BindsNameTurns
<1>7. ASSUME NEW j \in Jobs, SessionStarts(j) PROVE BindsNameTurns'
  BY <1>a, <1>7 DEF SessionStarts, queueVars, TypeOK, BindsNameTurns
<1>8. ASSUME NEW j \in Jobs, Take(j) PROVE BindsNameTurns'
  <2>1. /\ UNCHANGED <<binds, started, sess>> /\ job[j] = "created"
        /\ \A i \in Jobs \ {j} : pc'[i] = pc[i] /\ job'[i] = job[i]
    BY <1>a, <1>8 DEF Take, Fetch, schedulerVars, chatVars, TypeOK, QueueTypes
  <2> QED BY <1>a, <2>1 DEF BindsNameTurns
<1>9. ASSUME NEW j \in Jobs, Settle(j) PROVE BindsNameTurns'
  BY <1>a, <1>9 DEF Settle, Settled, TypeOK, QueueTypes, Serves, BindsNameTurns
<1>10. ASSUME NEW j \in Jobs, Monitor(j) \/ Stall(j) \/ NotifyLost(j) PROVE BindsNameTurns'
  <2>1. /\ UNCHANGED <<binds, started, sess, pc>>
        /\ \A i \in Jobs : job'[i] = job[i] \/ job'[i] = "failed"
    BY <1>a, <1>10 DEF Monitor, Stall, NotifyLost, MonitorFails, MonitorFailsLive, schedulerVars,
                       chatVars, TypeOK, QueueTypes
  <2> QED BY <1>a, <2>1 DEF BindsNameTurns
<1>11. CASE Crash
  BY <1>11 DEF Crash, BindsNameTurns
<1> QED
  BY <1>1, <1>2, <1>3, <1>4, <1>5, <1>6, <1>7, <1>8, <1>9, <1>10, <1>11 DEF Steps

-----------------------------------------------------------------------------
(* The lock and the thread's row. *)
LEMMA CalmStays ==
  ASSUME kind' = kind, odd \subseteq odd', Calm' PROVE Calm
BY DEF Calm, Of

LEMMA OddGrows == Steps => odd \subseteq odd'
<1> SUFFICES ASSUME Steps PROVE odd \subseteq odd'
  OBVIOUS
<1>1. ASSUME ScheduleRoutes PROVE odd' = odd
  BY <1>1 DEF ScheduleRoutes, PatchReads, PatchWrites, PatchClears, PatchArms, PatchNames, DeleteReads,
              DeleteClears, DeleteDeletes, RunNow, CronTick, queueVars, NoAccident
<1>2. ASSUME BatchRoutes PROVE odd' = odd
  BY <1>2 DEF BatchRoutes, CreateTask, CancelTask, MarkRunning, CancelLists, CancelCloses, queueVars,
              NoAccident
<1>3. CASE Crash \/ DeleteWorkspace
  BY <1>3 DEF Crash, Die, DeleteWorkspace, Accident
<1>4. CASE SweepOrphans \/ SweepStale \/ Restart
  BY <1>4, SweepRests DEF JobsRest
<1>5. ASSUME NEW j \in Jobs,
             SlotAges(j) \/ SessionStarts(j) \/ BindLands(j) \/ ResumeFails(j) \/ LoseLock(j)
      PROVE  odd \subseteq odd'
  BY <1>5, QuietRests DEF JobsRest
<1>6. ASSUME NEW j \in Jobs,
         \/ SlotCounts(j) \/ SlotInserts(j) \/ SlotReleases(j) \/ CronBranch(j)
         \/ AcquireLock(j) \/ ReadThread(j) \/ BindThread(j)
         \/ TurnEnds(j) \/ SendReply(j) \/ SendErrorReply(j) \/ BatchHandler(j)
      PROVE  odd \subseteq odd'
  BY <1>6, HandlerWalks DEF Walk
<1>7. ASSUME NEW j \in Jobs,
             Take(j) \/ Settle(j) \/ Monitor(j) \/ Stall(j) \/ NotifyLost(j) \/ SendChat(j)
      PROVE  odd \subseteq odd'
  BY <1>7 DEF Take, Settle, Monitor, Stall, NotifyLost, SendChat, Fetch, Settled, MonitorFails,
              MonitorFailsLive, NoAccident, Accident
<1> QED
  BY <1>1, <1>2, <1>3, <1>4, <1>5, <1>6, <1>7 DEF Steps

LEMMA LockFrame ==
  ASSUME IInv, kind' = kind, odd \subseteq odd', lock' = lock,
         \A j \in Of("chat") : pc'[j] \in Holding => pc[j] \in Holding
  PROVE  TurnHoldsLock'
<1> SUFFICES ASSUME Calm' PROVE \A j \in Of("chat") : pc'[j] \in Holding => lock' = j
  BY DEF TurnHoldsLock, Of
<1> QED BY CalmStays DEF IInv, TurnHoldsLock

LEMMA RowFrame ==
  ASSUME IInv, kind' = kind, odd \subseteq odd', row' = row, binds' = binds, late' = late,
         \A j \in Of("chat") : pc'[j] = "turn" /\ j \in started'
                                 => pc[j] = "turn" /\ j \in started /\ sess'[j] = sess[j]
  PROVE  CancelFindsTurn'
<1> SUFFICES ASSUME Calm', NEW j \in Of("chat"), pc'[j] = "turn", j \in started',
                    <<j, sess'[j]>> \notin binds'
             PROVE  row' = sess'[j] \/ row' \in late'
  BY DEF CancelFindsTurn, Of, Calm
<1> QED BY CalmStays DEF IInv, CancelFindsTurn, Calm

LEMMA LockStep ==
  ASSUME IInv, Steps, kind' = kind PROVE TurnHoldsLock' /\ CancelFindsTurn'
<1>a. /\ TypeOK /\ Serves /\ KindsApart /\ BindsNameTurns /\ TurnHoldsLock /\ CancelFindsTurn
      /\ odd \subseteq odd'
  BY OddGrows DEF IInv
<1>p. /\ pc \in [Jobs -> Positions]
      /\ {"read", "turn", "reply", "bind", "oops"} \subseteq Holding
      /\ Holding \cap {"idle", "claim", "insert", "sched", "mark", "lock", "free", "freeF", "done", "doneF",
                       "wait", "take", "run", "check", "close"} = {}
      /\ Of("chat") \subseteq Jobs
  BY <1>a DEF TypeOK, Holding, Of
<1>j. \A j \in Jobs : /\ pc[j] \in {"sched", "mark"} => kind[j] # "chat"
                      /\ pc[j] \in {"lock", "read", "reply", "bind", "oops"} => j \in Of("chat")
                      /\ j \in started => pc[j] \in Beyond
                      /\ pc[j] \in {"sched", "mark", "read", "lock"} => j \notin started
  BY <1>a DEF KindsApart, Of, Beyond
<1>1. CASE \/ ScheduleRoutes /\ UNCHANGED <<batchVars, schedulerVars>>
           \/ BatchRoutes /\ UNCHANGED <<schedVars, schedulerVars>>
           \/ DeleteWorkspace
           \/ \E j \in Jobs : SendChat(j)
  <2>1. JobsRest /\ UNCHANGED chatVars
    BY <1>a, <1>1, RoutesRest DEF schedulerVars, DeleteWorkspace, SendChat
  <2> QED BY <1>a, <2>1, LockFrame, RowFrame DEF chatVars, JobsRest
<1>2. CASE SweepOrphans \/ SweepStale \/ Restart
  <2>1. UNCHANGED chatVars
    BY <1>2 DEF SweepOrphans, Sweep, SweepStale, Restart
  <2> QED BY <1>a, <1>2, <2>1, SweepRests, LockFrame, RowFrame DEF chatVars, JobsRest
<1>3. ASSUME NEW j \in Jobs, SlotAges(j) \/ NotifyLost(j) \/ Monitor(j) \/ Stall(j)
      PROVE  TurnHoldsLock' /\ CancelFindsTurn'
  <2>1. UNCHANGED chatVars /\ pc' = pc
    BY <1>3 DEF SlotAges, NotifyLost, Monitor, Stall, MonitorFails, MonitorFailsLive, schedulerVars
  <2> QED BY <1>a, <2>1, LockFrame, RowFrame DEF chatVars
<1>4. ASSUME NEW j \in Jobs,
             \/ SlotCounts(j) \/ SlotInserts(j) \/ SlotReleases(j)
             \/ TurnEnds(j) \/ SendReply(j) \/ CronBranch(j) \/ Take(j)
             \/ BatchHandler(j) /\ UNCHANGED <<schedVars, schedulerVars>>
      PROVE  TurnHoldsLock' /\ CancelFindsTurn'
  <2>1. UNCHANGED chatVars
    BY <1>4 DEF SlotCounts, SlotInserts, SlotReleases, CronBranch, TurnEnds, SendReply, Take,
                schedulerVars
  <2>2. PICK p : pc' = [pc EXCEPT ![j] = p] /\ (p \in Holding => pc[j] \in Holding \/ pc[j] = "mark")
                 /\ (p = "turn" => pc[j] = "mark")
    BY <1>4, <1>p DEF SlotCounts, SlotInserts, SlotReleases, CronBranch, TurnEnds, SendReply, Take, Goes, Fetch,
                ReadSchedule, MarkCompleted, BatchHandler,
                ClaimCounts, ClaimTakes, BatchTurn, BatchCheck, BatchClose
  <2>3. \A i \in Of("chat") : /\ pc'[i] \in Holding => pc[i] \in Holding
                              /\ pc'[i] = "turn" /\ i \in started => pc[i] = "turn"
    BY <1>j, <1>p, <2>2 DEF Of
  <2> QED BY <1>a, <2>1, <2>3, LockFrame, RowFrame DEF chatVars
<1>5. ASSUME NEW j \in Jobs, AcquireLock(j) PROVE TurnHoldsLock' /\ CancelFindsTurn'
  <2>1. pc' = [pc EXCEPT ![j] = "read"] /\ lock = None /\ lock' = j
    BY <1>5 DEF AcquireLock, Goes
  <2>2. ASSUME Calm', NEW i \in Of("chat"), pc'[i] \in Holding PROVE lock' = i /\ pc'[i] = "read"
    <3>1. i # j => pc[i] \in Holding /\ i \in Jobs
      BY <1>p, <2>1, <2>2
    <3>2. i # j => lock = i
      BY <1>a, <2>2, <3>1, CalmStays DEF TurnHoldsLock
    <3> QED BY <1>p, <2>1, <3>1, <3>2, QueueAssumption
  <2>3. TurnHoldsLock'
    BY <2>2 DEF TurnHoldsLock, Of
  <2>4. CancelFindsTurn'
    BY <1>p, <2>2 DEF CancelFindsTurn, Calm, Of
  <2> QED BY <2>3, <2>4
<1>6. ASSUME NEW j \in Jobs, ReadThread(j) PROVE TurnHoldsLock' /\ CancelFindsTurn'
  <2>1. pc[j] = "read" /\ pc' = [pc EXCEPT ![j] = "turn"] /\ UNCHANGED <<lock, row, started, binds, late>>
        /\ \A i \in Jobs \ {j} : sess'[i] = sess[i]
    BY <1>a, <1>6 DEF ReadThread, Goes, TypeOK
  <2> QED BY <1>a, <1>j, <1>p, <2>1, LockFrame, RowFrame
<1>7. ASSUME NEW j \in Jobs, SessionStarts(j) PROVE TurnHoldsLock' /\ CancelFindsTurn'
  <2>1. /\ UNCHANGED <<pc, lock, row, odd, late>>
        /\ started' = started \cup {j} /\ binds' = binds \cup {<<j, sess'[j]>>}
        /\ \A i \in Jobs \ {j} : sess'[i] = sess[i]
    BY <1>a, <1>7 DEF SessionStarts, queueVars, TypeOK
  <2>2. TurnHoldsLock'
    BY <1>a, <2>1, LockFrame
  <2>3. CancelFindsTurn'
    BY <1>a, <1>p, <2>1 DEF CancelFindsTurn, Of
  <2> QED BY <2>2, <2>3
<1>8. ASSUME NEW j \in Jobs, BindLands(j) PROVE TurnHoldsLock' /\ CancelFindsTurn'
  <2>1. PICK b \in binds :
          /\ b[1] = j
          /\ \/ row' = b[2] /\ late' = (IF lock = j THEN late ELSE late \cup {b[2]})
             \/ Accident({j})
    BY <1>8 DEF BindLands
  <2>2. UNCHANGED <<pc, lock, sess, started>>
    BY <1>8 DEF BindLands
  <2>3. b = <<j, b[2]>> /\ b[2] \in Jobs
    BY <1>a, <2>1 DEF TypeOK
  <2>4. TurnHoldsLock'
    BY <1>a, <2>2, LockFrame
  <2>5. kind[j] = "chat" /\ ((j \in started /\ b[2] = sess[j]) \/ pc[j] = "idle")
    BY <1>a, <2>1, <2>3 DEF BindsNameTurns
  <2>6. ASSUME Calm', NEW i \in Of("chat"), pc[i] = "turn" PROVE row' = sess[i] \/ row' \in late'
    <3>1. ~Accident({j})
      BY <2>5, <2>6 DEF Accident, Calm, Of
    <3>2. lock = i
      BY <1>a, <1>p, <2>6, CalmStays DEF TurnHoldsLock
    <3>3. CASE lock = j
      BY <2>1, <2>5, <2>6, <3>1, <3>2, <3>3
    <3>4. CASE lock # j
      BY <2>1, <3>1, <3>4
    <3> QED BY <3>3, <3>4
  <2>7. CancelFindsTurn'
    BY <2>2, <2>6 DEF CancelFindsTurn, Calm, Of
  <2> QED BY <2>4, <2>7
<1>9. ASSUME NEW j \in Jobs, ResumeFails(j) PROVE TurnHoldsLock' /\ CancelFindsTurn'
  <2>1. UNCHANGED <<pc, lock, row, started, binds, late>> /\ j \notin started
        /\ \A i \in Jobs \ {j} : sess'[i] = sess[i]
    BY <1>a, <1>9 DEF ResumeFails, queueVars, TypeOK
  <2> QED BY <1>a, <1>p, <2>1, LockFrame, RowFrame
<1>10. ASSUME NEW j \in Jobs, BindThread(j) \/ SendErrorReply(j)
       PROVE  TurnHoldsLock' /\ CancelFindsTurn'
  <2>1. PICK p \in {"free", "freeF"} :
          /\ pc' = [pc EXCEPT ![j] = p]
          /\ lock' = IF lock = j THEN None ELSE lock
          /\ UNCHANGED <<sess, started, binds>>
    BY <1>10 DEF BindThread, SendErrorReply, Goes
  <2>2. j \in Of("chat") /\ pc[j] \in Holding
    BY <1>j, <1>p, <1>10 DEF BindThread, SendErrorReply
  <2>3. ASSUME Calm', NEW i \in Of("chat"), pc'[i] \in Holding PROVE FALSE
    <3>1. i # j /\ pc[i] \in Holding
      BY <1>p, <2>1, <2>3
    <3>2. lock = i /\ lock = j
      BY <1>a, <2>2, <2>3, <3>1, CalmStays DEF TurnHoldsLock
    <3> QED BY <3>1, <3>2
  <2>4. TurnHoldsLock'
    BY <2>3 DEF TurnHoldsLock, Of
  <2>5. CancelFindsTurn'
    BY <1>p, <2>3 DEF CancelFindsTurn, Of, Calm
  <2> QED BY <2>4, <2>5
<1>11. ASSUME NEW j \in Jobs, LoseLock(j) PROVE TurnHoldsLock' /\ CancelFindsTurn'
  <2>1. j \in Of("chat") /\ j \in odd' /\ UNCHANGED <<pc, row, sess, started, binds, late>>
    BY <1>a, <1>11, QueueAssumption DEF LoseLock, KindsApart, Accident, Of
  <2>2. ~Calm'
    BY <2>1 DEF Calm, Of
  <2> QED BY <1>a, <2>1, <2>2, RowFrame DEF TurnHoldsLock
<1>12. ASSUME NEW j \in Jobs, Settle(j) PROVE TurnHoldsLock' /\ CancelFindsTurn'
  <2>1. pc' = [pc EXCEPT ![j] = "idle"] /\ UNCHANGED <<lock, row, binds, late>> /\ started' = started \ {j}
        /\ \A i \in Jobs \ {j} : sess'[i] = sess[i]
    BY <1>a, <1>12 DEF Settle, Settled, TypeOK
  <2> QED BY <1>a, <1>p, <2>1, LockFrame, RowFrame
<1>13. CASE Crash
  BY <1>p, <1>13 DEF Crash, Die, TurnHoldsLock, CancelFindsTurn, Of
<1> QED
  BY <1>1, <1>2, <1>3, <1>4, <1>5, <1>6, <1>7, <1>8, <1>9, <1>10, <1>11, <1>12, <1>13 DEF Steps

-----------------------------------------------------------------------------
(* The timer of an open one-time schedule. *)
LEMMA KnownStays ==
  ASSUME IInv, \A j \in Jobs : job[j] # "absent" => job'[j] # "absent",
         NEW t \in Jobs \cup {None}, Known(t)
  PROVE  Known(t)'
BY DEF Known

LEMMA TimerFrame ==
  ASSUME IInv, UNCHANGED <<kind, mode, sched, rq>>, odd \subseteq odd',
         \A j \in Jobs : job[j] # "absent" => job'[j] # "absent",
         \A j \in Of("cron") : WillFire(j) => WillFire(j)' \/ j \in odd'
  PROVE  TimerKept'
<1>1. TypeOK /\ TimerKept
  BY DEF IInv
<1>2. /\ sched.timer \in Jobs \cup {None}
      /\ \A r \in Requests : rq[r].ex \in Jobs \cup {None} /\ rq[r].new \in Jobs \cup {None}
  BY <1>1 DEF TypeOK, ScheduleTypes, ScheduleRow, Request
<1>3. Known(sched.timer)' /\ \A r \in Requests : Known(rq[r].ex)' /\ Known(rq[r].new)'
  BY <1>1, <1>2 DEF TimerKept, Known
<1>4. ASSUME Open'
      PROVE  (\E j \in Of("cron") : Kept(j)') \/ (\E r \in Requests : Pending(r)')
  <2>1. Open /\ \A j \in Of("cron") : j \notin odd'
    BY <1>4 DEF Open, Of
  <2>2. CASE \E r \in Requests : Pending(r)
    BY <2>2 DEF Pending
  <2>3. ASSUME NEW j \in Of("cron"), Kept(j) PROVE Kept(j)'
    BY <2>1, <2>3 DEF Kept
  <2> QED BY <1>1, <2>1, <2>2, <2>3 DEF TimerKept
<1> QED
  BY <1>3, <1>4 DEF TimerKept, Of

(* A step after which the schedule is not open. *)
LEMMA TimerClosed ==
  ASSUME IInv, ~Open', rq' = rq,
         \A j \in Jobs : job[j] # "absent" => job'[j] # "absent",
         sched'.timer = sched.timer \/ sched'.timer = None
  PROVE  TimerKept'
<1>1. TypeOK /\ TimerKept
  BY DEF IInv
<1>2. /\ sched.timer \in Jobs \cup {None}
      /\ \A r \in Requests : rq[r].ex \in Jobs \cup {None} /\ rq[r].new \in Jobs \cup {None}
  BY <1>1 DEF TypeOK, ScheduleTypes, ScheduleRow, Request
<1> QED
  BY <1>1, <1>2 DEF TimerKept, Known

(* The requests.  Reading takes no timer away and leaves nobody pending;   *)
(* what a request has written, cleared or armed is its own to finish.      *)
LEMMA TimerRequest ==
  ASSUME IInv, UNCHANGED <<kind, mode, odd>>, NEW r \in Requests,
         \A i \in Requests \ {r} : rq'[i] = rq[i],
         Known(sched.timer)', Known(rq[r].ex)', Known(rq[r].new)',
         \A j \in Jobs : job[j] # "absent" => job'[j] # "absent",
         ~Open' \/ Pending(r)'
         \/ /\ Open' => Open
            /\ ~Pending(r)
            /\ \A j \in Of("cron") : Kept(j) => WillFire(j)'
            /\ rq'[r].at # "wrote"
         \/ \E j \in Of("cron") : WillFire(j)' /\ \A i \in Requests : rq'[i].at = "wrote" => rq'[i].ex # j
  PROVE  TimerKept'
<1>1. TypeOK /\ TimerKept
  BY DEF IInv
<1>2. \A i \in Requests : rq[i].ex \in Jobs \cup {None} /\ rq[i].new \in Jobs \cup {None}
  BY <1>1 DEF TypeOK, ScheduleTypes, Request
<1>3. \A i \in Requests : Known(rq[i].ex)' /\ Known(rq[i].new)'
  BY <1>1, <1>2 DEF TimerKept, Known
<1>4. ASSUME Open'
      PROVE  (\E j \in Of("cron") : Kept(j)') \/ (\E i \in Requests : Pending(i)')
  <2>1. CASE Pending(r)'
    BY <2>1
  <2>2. CASE \E j \in Of("cron") :
               WillFire(j)' /\ \A i \in Requests : rq'[i].at = "wrote" => rq'[i].ex # j
    BY <2>2 DEF Kept
  <2>3. CASE /\ Open' => Open
             /\ ~Pending(r)
             /\ \A j \in Of("cron") : Kept(j) => WillFire(j)'
             /\ rq'[r].at # "wrote"
    <3>1. (\E j \in Of("cron") : Kept(j)) \/ (\E i \in Requests \ {r} : Pending(i))
      BY <1>1, <1>4, <2>3 DEF TimerKept
    <3>2. ASSUME NEW i \in Requests \ {r}, Pending(i) PROVE Pending(i)'
      BY <3>2 DEF Pending
    <3>3. ASSUME NEW j \in Of("cron"), Kept(j) PROVE Kept(j)'
      BY <2>3, <3>3 DEF Kept
    <3> QED BY <3>1, <3>2, <3>3
  <2> QED BY <1>4, <2>1, <2>2, <2>3
<1> QED
  BY <1>3, <1>4 DEF TimerKept, Of

LEMMA Present ==
  ASSUME JobsRest PROVE \A j \in Jobs : job[j] # "absent" => job'[j] # "absent"
BY DEF JobsRest

LEMMA RequestAsks ==
  ASSUME TypeOK, NEW r \in Requests
  PROVE  /\ rq \in [Requests -> Request]
         /\ rq[r].at \in {"idle", "read", "wrote", "cleared", "armed", "doomed", "deleting"}
         /\ rq[r].on \in BOOLEAN
         /\ rq[r].ex \in Jobs \cup {None} /\ rq[r].new \in Jobs \cup {None}
BY DEF TypeOK, ScheduleTypes, Request

LEMMA AskFields ==
  ASSUME rq \in [Requests -> Request], NEW r \in Requests, NEW p, NEW t, NEW on
  PROVE  /\ [rq EXCEPT ![r].at = p][r] = [rq[r] EXCEPT !.at = p]
         /\ [rq EXCEPT ![r].at = p, ![r].ex = t][r] = [rq[r] EXCEPT !.at = p, !.ex = t]
         /\ [rq EXCEPT ![r].at = p, ![r].on = on][r] = [rq[r] EXCEPT !.at = p, !.on = on]
         /\ [rq EXCEPT ![r].at = p, ![r].new = t][r] = [rq[r] EXCEPT !.at = p, !.new = t]
OBVIOUS

LEMMA Fields ==
  ASSUME NEW x \in Request, NEW p, NEW t, NEW on
  PROVE  /\ LET y == [x EXCEPT !.at = p]
            IN  y.at = p /\ y.ex = x.ex /\ y.on = x.on /\ y.new = x.new
         /\ LET y == [x EXCEPT !.at = p, !.ex = t]
            IN  y.at = p /\ y.ex = t /\ y.on = x.on /\ y.new = x.new
         /\ LET y == [x EXCEPT !.at = p, !.on = on]
            IN  y.at = p /\ y.ex = x.ex /\ y.on = on /\ y.new = x.new
         /\ LET y == [x EXCEPT !.at = p, !.new = t]
            IN  y.at = p /\ y.ex = x.ex /\ y.on = x.on /\ y.new = t
BY DEF Request

LEMMA TimerPatch ==
  ASSUME IInv, UNCHANGED <<kind, mode>>, NEW r \in Requests,
         \/ PatchReads(r) \/ PatchWrites(r) \/ PatchClears(r) \/ PatchArms(r) \/ PatchNames(r)
         \/ DeleteReads(r) \/ DeleteClears(r) \/ DeleteDeletes(r)
  PROVE  TimerKept'
<1>a. TypeOK /\ TimerKept
  BY DEF IInv
<1>b. JobsRest /\ \A j \in Jobs : job[j] # "absent" => job'[j] # "absent"
  BY <1>a, RoutesRest, Present DEF ScheduleRoutes
<1>k. /\ Known(sched.timer) /\ Known(rq[r].ex) /\ Known(rq[r].new)
      /\ rq[r].ex \in Jobs \cup {None} /\ rq[r].new \in Jobs \cup {None}
      /\ sched.timer \in Jobs \cup {None} /\ rq[r].on \in BOOLEAN
  BY <1>a, RequestAsks DEF TimerKept, TypeOK, ScheduleTypes, ScheduleRow
<1>t. \A t \in Jobs \cup {None} : Known(t) => (t = None \/ job'[t] # "absent")
  BY <1>b DEF Known
<1>o. rq \in [Requests -> Request] /\ rq[r] \in Request /\ sched \in ScheduleRow
  BY <1>a DEF TypeOK, ScheduleTypes
<1>1. CASE PatchReads(r)
  <2>1. rq' = [rq EXCEPT ![r].at = "read", ![r].ex = sched.timer] /\ UNCHANGED <<sched, job, pc, odd>>
        /\ rq[r].at = "idle"
    BY <1>1 DEF PatchReads, queueVars, Idle
  <2>2. /\ rq'[r].at = "read" /\ rq'[r].ex = sched.timer /\ rq'[r].new = rq[r].new
        /\ \A i \in Requests \ {r} : rq'[i] = rq[i]
    BY <1>o, <2>1, AskFields, Fields
  <2>3. /\ Known(sched.timer)' /\ Known(rq[r].ex)' /\ Known(rq[r].new)'
        /\ ~Pending(r) /\ (Open' => Open) /\ \A j \in Of("cron") : Kept(j) => WillFire(j)'
    BY <1>k, <1>t, <2>1, <2>2 DEF Known, Pending, Open, Kept, WillFire, Of
  <2> QED BY <1>b, <2>1, <2>2, <2>3, TimerRequest
<1>2. CASE PatchWrites(r)
  <2>1. UNCHANGED <<job, pc, odd>>
    BY <1>2 DEF PatchWrites, queueVars
  <2>2. CASE ~sched.exists
    <3>1. Leave(r) /\ sched' = sched
      BY <1>2, <2>2 DEF PatchWrites
    <3>2. /\ rq'[r].ex = None /\ rq'[r].new = None /\ ~Open'
          /\ \A i \in Requests \ {r} : rq'[i] = rq[i]
      BY <1>o, <2>2, <3>1 DEF Leave, AtRest, Open
    <3>3. Known(sched.timer)' /\ Known(rq[r].ex)' /\ Known(rq[r].new)'
      BY <1>k, <1>t, <3>1, <3>2 DEF Known
    <3> QED BY <1>b, <2>1, <3>2, <3>3, TimerRequest
  <2>3. CASE sched.exists
    <3>1. PICK on \in BOOLEAN : /\ sched' = [sched EXCEPT !.enabled = on]
                                /\ rq' = [rq EXCEPT ![r].at = "wrote", ![r].on = on]
      BY <1>2, <2>3 DEF PatchWrites
    <3>2. /\ rq'[r].at = "wrote" /\ rq'[r].on = on /\ rq'[r].ex = rq[r].ex /\ rq'[r].new = rq[r].new
          /\ \A i \in Requests \ {r} : rq'[i] = rq[i]
      BY <1>o, <3>1, AskFields, Fields
    <3>3. sched'.timer = sched.timer /\ sched'.enabled = on
      BY <1>o, <3>1 DEF ScheduleRow
    <3>4. Known(sched.timer)' /\ Known(rq[r].ex)' /\ Known(rq[r].new)'
      BY <1>k, <1>t, <3>2, <3>3 DEF Known
    <3>5. ~Open' \/ Pending(r)'
      BY <3>2, <3>3 DEF Open, Pending
    <3> QED BY <1>b, <2>1, <3>2, <3>4, <3>5, TimerRequest
  <2> QED BY <2>2, <2>3
<1>3. CASE PatchClears(r)
  <2>1. rq' = [rq EXCEPT ![r].at = "cleared"] /\ ClearTimer(rq[r].ex) /\ UNCHANGED <<sched, pc, odd>>
        /\ rq[r].at = "wrote"
    BY <1>3 DEF PatchClears, Step, NoAccident
  <2>2. /\ rq'[r].at = "cleared" /\ rq'[r].on = rq[r].on /\ rq'[r].ex = rq[r].ex /\ rq'[r].new = rq[r].new
        /\ \A i \in Requests \ {r} : rq'[i] = rq[i]
    BY <1>o, <2>1, AskFields, Fields
  <2>3. Known(sched.timer)' /\ Known(rq[r].ex)' /\ Known(rq[r].new)'
    BY <1>k, <1>t, <2>1, <2>2 DEF Known
  <2>4. CASE rq[r].on
    <3>1. Pending(r)'
      BY <2>2, <2>4 DEF Pending
    <3> QED BY <1>b, <2>1, <2>2, <2>3, <3>1, TimerRequest
  <2>5. CASE ~rq[r].on
    <3>1. ~Pending(r) /\ (Open' => Open)
      BY <2>1, <2>5 DEF Pending, Open, Of
    <3>2. \A j \in Of("cron") : Kept(j) => WillFire(j)'
      BY <1>a, <2>1 DEF Kept, WillFire, ClearTimer, Cancelled, Of, TypeOK, QueueTypes
    <3> QED BY <1>b, <2>1, <2>2, <2>3, <3>1, <3>2, TimerRequest
  <2> QED BY <1>k, <2>4, <2>5
<1>4. CASE PatchArms(r)
  <2>1. UNCHANGED <<sched, pc, odd>> /\ rq[r].at = "cleared"
    BY <1>4 DEF PatchArms, NoAccident
  <2>2. CASE rq[r].on /\ mode = "once"
    <3>1. PICK j \in Of("cron") : Sent(j) /\ rq' = [rq EXCEPT ![r].at = "armed", ![r].new = j]
      BY <1>4, <2>2 DEF PatchArms
    <3>2. /\ rq'[r].at = "armed" /\ rq'[r].ex = rq[r].ex /\ rq'[r].new = j
          /\ \A i \in Requests \ {r} : rq'[i] = rq[i]
      BY <1>o, <3>1, AskFields, Fields
    <3>3. j \in Jobs /\ job[j] = "absent" /\ job'[j] = "created"
      BY <1>a, <3>1 DEF Sent, Of, TypeOK, QueueTypes
    <3>4. Known(sched.timer)' /\ Known(rq[r].ex)' /\ Known(rq[r].new)'
      BY <1>k, <1>t, <2>1, <3>2, <3>3 DEF Known
    <3>5. WillFire(j)' /\ \A i \in Requests : rq'[i].at = "wrote" => rq'[i].ex # j
      BY <1>a, <3>2, <3>3, QueueAssumption DEF WillFire, TimerKept, Known
    <3> QED BY <1>b, <2>1, <3>1, <3>2, <3>4, <3>5, TimerRequest
  <2>3. CASE rq[r].on /\ mode = "recurring"
    <3>1. Leave(r) /\ ~Open'
      BY <1>4, <2>3 DEF PatchArms, Open
    <3>2. rq'[r].ex = None /\ rq'[r].new = None /\ \A i \in Requests \ {r} : rq'[i] = rq[i]
      BY <1>o, <3>1 DEF Leave, AtRest
    <3>3. Known(sched.timer)' /\ Known(rq[r].ex)' /\ Known(rq[r].new)'
      BY <1>k, <1>t, <2>1, <3>2 DEF Known
    <3> QED BY <1>b, <2>1, <3>1, <3>2, <3>3, TimerRequest
  <2>4. CASE ~rq[r].on
    <3>1. job' = job /\ (Step(r, "armed") \/ Leave(r))
      BY <1>4, <2>4 DEF PatchArms
    <3>2. /\ rq'[r].at \in {"armed", "idle"}
          /\ rq'[r].ex \in {None, rq[r].ex} /\ rq'[r].new \in {None, rq[r].new}
          /\ \A i \in Requests \ {r} : rq'[i] = rq[i]
      <4>1. CASE Step(r, "armed")
        BY <1>o, <4>1, AskFields, Fields DEF Step
      <4>2. CASE Leave(r)
        BY <1>o, <4>2 DEF Leave, AtRest
      <4> QED BY <3>1, <4>1, <4>2
    <3>3. Known(sched.timer)' /\ Known(rq[r].ex)' /\ Known(rq[r].new)'
      BY <1>k, <1>t, <2>1, <3>2 DEF Known
    <3>4. ~Pending(r) /\ (Open' => Open) /\ \A j \in Of("cron") : Kept(j) => WillFire(j)'
      BY <2>1, <2>4, <3>1 DEF Pending, Open, Kept, WillFire, Of
    <3> QED BY <1>b, <2>1, <3>2, <3>3, <3>4, TimerRequest
  <2> QED BY <1>4, <2>2, <2>3, <2>4 DEF PatchArms
<1>5. CASE PatchNames(r)
  <2>1. Leave(r) /\ UNCHANGED <<job, pc, odd>> /\ rq[r].at = "armed"
        /\ sched' = IF sched.exists THEN [sched EXCEPT !.timer = rq[r].new] ELSE sched
    BY <1>5 DEF PatchNames, queueVars
  <2>2. rq'[r].at = "idle" /\ rq'[r].ex = None /\ rq'[r].new = None /\ \A i \in Requests \ {r} : rq'[i] = rq[i]
    BY <1>o, <2>1 DEF Leave, AtRest
  <2>3. /\ sched'.timer \in {sched.timer, rq[r].new}
        /\ sched'.exists = sched.exists /\ sched'.enabled = sched.enabled
        /\ sched'.completed = sched.completed
    BY <1>o, <2>1 DEF ScheduleRow
  <2>4. Known(sched.timer)' /\ Known(rq[r].ex)' /\ Known(rq[r].new)'
    BY <1>k, <1>t, <2>2, <2>3 DEF Known
  <2>5. ~Pending(r) /\ (Open' => Open) /\ \A j \in Of("cron") : Kept(j) => WillFire(j)'
    BY <2>1, <2>3 DEF Pending, Open, Kept, WillFire, Of
  <2> QED BY <1>b, <2>1, <2>2, <2>4, <2>5, TimerRequest
<1>6. CASE DeleteReads(r)
  <2>1. rq' = [rq EXCEPT ![r].at = "doomed", ![r].ex = sched.timer] /\ UNCHANGED <<sched, job, pc, odd>>
    BY <1>6 DEF DeleteReads, queueVars
  <2>2. /\ rq'[r].at = "doomed" /\ rq'[r].ex = sched.timer /\ rq'[r].new = rq[r].new
        /\ \A i \in Requests \ {r} : rq'[i] = rq[i]
    BY <1>o, <2>1, AskFields, Fields
  <2>3. Known(sched.timer)' /\ Known(rq[r].ex)' /\ Known(rq[r].new)' /\ Pending(r)'
    BY <1>k, <1>t, <2>1, <2>2 DEF Known, Pending
  <2> QED BY <1>b, <2>1, <2>2, <2>3, TimerRequest
<1>7. CASE DeleteClears(r)
  <2>1. rq' = [rq EXCEPT ![r].at = "deleting"] /\ UNCHANGED <<sched, pc, odd>>
    BY <1>7 DEF DeleteClears, Step, NoAccident
  <2>2. /\ rq'[r].at = "deleting" /\ rq'[r].ex = rq[r].ex /\ rq'[r].new = rq[r].new
        /\ \A i \in Requests \ {r} : rq'[i] = rq[i]
    BY <1>o, <2>1, AskFields, Fields
  <2>3. Known(sched.timer)' /\ Known(rq[r].ex)' /\ Known(rq[r].new)' /\ Pending(r)'
    BY <1>k, <1>t, <2>1, <2>2 DEF Known, Pending
  <2> QED BY <1>b, <2>1, <2>2, <2>3, TimerRequest
<1>8. CASE DeleteDeletes(r)
  <2>1. Leave(r) /\ UNCHANGED <<job, pc, odd>> /\ sched' = [sched EXCEPT !.exists = FALSE, !.enabled = FALSE]
    BY <1>8 DEF DeleteDeletes, queueVars
  <2>2. rq'[r].ex = None /\ rq'[r].new = None /\ \A i \in Requests \ {r} : rq'[i] = rq[i]
    BY <1>o, <2>1 DEF Leave, AtRest
  <2>3. sched'.timer = sched.timer /\ ~Open'
    BY <1>o, <2>1 DEF ScheduleRow, Open
  <2>4. Known(sched.timer)' /\ Known(rq[r].ex)' /\ Known(rq[r].new)'
    BY <1>k, <1>t, <2>2, <2>3 DEF Known
  <2> QED BY <1>b, <2>1, <2>2, <2>3, <2>4, TimerRequest
<1> QED
  BY <1>1, <1>2, <1>3, <1>4, <1>5, <1>6, <1>7, <1>8

Firing == {"claim", "insert", "sched", "mark"}

LEMMA TimerWalk ==
  ASSUME IInv, UNCHANGED <<kind, mode, sched, rq>>, NEW j \in Jobs, NEW p, Walk(j, p),
         pc[j] \in Firing /\ kind[j] = "cron" => p \in Firing \/ j \in odd'
  PROVE  TimerKept'
<1>1. \A i \in Jobs : job'[i] = job[i] /\ (i # j => pc'[i] = pc[i])
  BY DEF IInv, TypeOK, Walk
<1>2. pc'[j] = p /\ odd \subseteq odd'
  BY DEF IInv, TypeOK, Walk
<1>3. \A i \in Of("cron") : WillFire(i) => WillFire(i)' \/ i \in odd'
  BY <1>1, <1>2 DEF WillFire, Of, Firing
<1> QED
  BY <1>1, <1>2, <1>3, TimerFrame

LEMMA TimerRest ==
  ASSUME IInv, UNCHANGED <<kind, mode, sched, rq, pc>>, odd \subseteq odd',
         job' = job \/ \E j \in Jobs : Sent(j)
  PROVE  TimerKept'
<1>1. \A j \in Jobs : job'[j] = job[j] \/ (job[j] = "absent" /\ job'[j] = "created")
  BY DEF IInv, TypeOK, QueueTypes, Sent
<1>2. \A j \in Of("cron") : WillFire(j) => WillFire(j)'
  BY <1>1 DEF WillFire, Of
<1> QED
  BY <1>1, <1>2, TimerFrame

LEMMA TimerStep ==
  ASSUME IInv, Steps, UNCHANGED <<kind, mode>> PROVE TimerKept'
<1>a. TypeOK /\ Serves /\ KindsApart /\ TimerKept /\ odd \subseteq odd'
  BY OddGrows DEF IInv
<1>j. \A j \in Jobs : /\ pc[j] \in {"lock", "read", "reply", "bind", "oops"} => kind[j] = "chat"
                      /\ pc[j] \in {"claim", "insert"} => kind[j] # "batch"
  BY <1>a DEF KindsApart
<1>1. CASE ScheduleRoutes /\ UNCHANGED <<batchVars, schedulerVars>>
  <2>1. ASSUME NEW j \in Jobs, RunNow(j) \/ CronTick(j) PROVE TimerKept'
    BY <1>a, <2>1, TimerRest DEF RunNow, CronTick, schedVars
  <2> QED BY <1>1, <2>1, TimerPatch DEF ScheduleRoutes
<1>2. CASE BatchRoutes /\ UNCHANGED <<schedVars, schedulerVars>>
  <2>1. UNCHANGED <<sched, rq, pc>> /\ (job' = job \/ \E j \in Jobs : Sent(j))
    BY <1>2 DEF BatchRoutes, CreateTask, CancelTask, MarkRunning, CancelLists, CancelCloses, schedVars,
                queueVars
  <2> QED BY <1>a, <2>1, TimerRest
<1>3. ASSUME NEW j \in Jobs,
             \/ SendChat(j)
             \/ SlotAges(j) \/ SessionStarts(j) \/ BindLands(j) \/ ResumeFails(j) \/ LoseLock(j)
             \/ NotifyLost(j)
      PROVE  TimerKept'
  <2>1. UNCHANGED <<sched, rq, pc>> /\ (job' = job \/ Sent(j))
    BY <1>3 DEF SendChat, SlotAges, SessionStarts, BindLands, ResumeFails, LoseLock, NotifyLost,
                schedVars, queueVars
  <2> QED BY <1>a, <2>1, TimerRest
<1>4. CASE SweepOrphans \/ SweepStale \/ Restart
  <2>1. UNCHANGED <<sched, rq, pc, job>>
    BY <1>4 DEF SweepOrphans, Sweep, SweepStale, Restart, Restarted, schedVars, queueVars
  <2> QED BY <1>a, <2>1, TimerRest
<1>5. CASE DeleteWorkspace
  <2>1. sched' = [sched EXCEPT !.exists = FALSE, !.enabled = FALSE] /\ rq' = rq
    BY <1>5 DEF DeleteWorkspace
  <2>2. sched'.timer = sched.timer /\ ~Open'
    BY <1>a, <2>1 DEF TypeOK, ScheduleTypes, ScheduleRow, Open
  <2> QED BY <1>a, <1>5, <2>1, <2>2, RoutesRest, Present, TimerClosed
<1>6. ASSUME NEW j \in Jobs,
             \/ SlotReleases(j)
             \/ AcquireLock(j) \/ ReadThread(j) \/ BindThread(j)
             \/ TurnEnds(j) \/ SendReply(j) \/ SendErrorReply(j)
             \/ BatchHandler(j) /\ UNCHANGED <<schedVars, schedulerVars>>
      PROVE  TimerKept'
  <2>1. UNCHANGED <<sched, rq>> /\ pc[j] \notin Firing
    BY <1>6 DEF SlotReleases, AcquireLock, ReadThread, BindThread, TurnEnds, SendReply, SendErrorReply,
                BatchHandler, ClaimCounts, ClaimTakes, BatchTurn, BatchCheck, BatchClose, schedVars, Firing
  <2> QED BY <1>6, <2>1, HandlerWalks, TimerWalk
<1>7. ASSUME NEW j \in Jobs, SlotCounts(j) \/ SlotInserts(j) PROVE TimerKept'
  <2>1. PICK p : Walk(j, p) /\ (kind[j] = "cron" => p \in Firing)
    BY <1>7, GoesWalks DEF SlotCounts, SlotInserts, Firing
  <2>2. UNCHANGED <<sched, rq>>
    BY <1>7 DEF SlotCounts, SlotInserts, schedVars
  <2> QED BY <2>1, <2>2, TimerWalk
<1>8. ASSUME NEW j \in Jobs, ReadSchedule(j) PROVE TimerKept'
  <2>1. PICK p : Walk(j, p) /\ (p \in Firing \/ j \in odd' \/ ~sched.enabled)
    BY <1>8, GoesWalks DEF ReadSchedule, Walk, Accident, Firing
  <2>2. UNCHANGED <<sched, rq>>
    BY <1>8 DEF ReadSchedule, schedVars
  <2>3. CASE ~sched.enabled
    <3>1. ~Open'
      BY <2>2, <2>3 DEF Open
    <3> QED BY <2>1, <2>2, <3>1, TimerClosed DEF Walk
  <2> QED BY <2>1, <2>2, <2>3, TimerWalk
<1>9. ASSUME NEW j \in Jobs, MarkCompleted(j) PROVE TimerKept'
  <2>1. UNCHANGED <<rq, job>>
    BY <1>9 DEF MarkCompleted, Goes
  <2>2. sched'.timer \in {sched.timer, None} /\ ~Open'
    BY <1>a, <1>9 DEF MarkCompleted, TypeOK, ScheduleTypes, ScheduleRow, Open
  <2> QED BY <2>1, <2>2, TimerClosed
<1>10. ASSUME NEW j \in Jobs, Take(j) PROVE TimerKept'
  <2>1. UNCHANGED <<sched, rq>>
    BY <1>10 DEF Take, schedVars
  <2>2. /\ \A i \in Jobs \ {j} : pc'[i] = pc[i] /\ job'[i] = job[i]
        /\ job'[j] = "active" /\ (kind[j] = "cron" => pc'[j] = "claim")
    BY <1>a, <1>10 DEF Take, Fetch, TypeOK, QueueTypes
  <2>3. \A i \in Of("cron") : WillFire(i) => WillFire(i)'
    BY <2>2 DEF WillFire, Of
  <2>4. \A i \in Jobs : job[i] # "absent" => job'[i] # "absent"
    BY <2>2
  <2> QED BY <1>a, <2>1, <2>3, <2>4, TimerFrame
<1>11. ASSUME NEW j \in Jobs, Settle(j) \/ Monitor(j) \/ Stall(j) PROVE TimerKept'
  <2>1. UNCHANGED <<sched, rq>>
    BY <1>11 DEF Settle, Monitor, Stall, schedVars
  <2>2. /\ \A i \in Jobs \ {j} : pc'[i] = pc[i] /\ job'[i] = job[i]
        /\ job[j] # "absent" => job'[j] # "absent"
    BY <1>a, <1>11 DEF Settle, Settled, Monitor, Stall, MonitorFails, MonitorFailsLive, TypeOK, QueueTypes
  <2>3. WillFire(j) => j \in odd'
    BY <1>a, <1>11 DEF Settle, Settled, Monitor, Stall, MonitorFails, MonitorFailsLive, Accident, WillFire,
                       Serves
  <2>4. \A i \in Of("cron") : WillFire(i) => WillFire(i)' \/ i \in odd'
    BY <2>2, <2>3 DEF WillFire, Of
  <2> QED BY <1>a, <2>1, <2>2, <2>4, TimerFrame
<1>12. CASE Crash
  <2>1. UNCHANGED <<sched, rq, job>>
    BY <1>12 DEF Crash, Die, schedVars
  <2>2. \A i \in Of("cron") : WillFire(i) => WillFire(i)' \/ i \in odd'
    BY <1>a, <1>12 DEF Crash, Die, Accident, Serving, WillFire, Of
  <2> QED BY <1>a, <2>1, <2>2, TimerFrame
<1> QED
  BY <1>1, <1>2, <1>3, <1>4, <1>5, <1>6, <1>7, <1>8, <1>9, <1>10, <1>11, <1>12 DEF Steps, CronBranch

-----------------------------------------------------------------------------
LEMMA Stutters == IInv /\ UNCHANGED vars => IInv'
BY DEF IInv, vars, queueVars, schedVars, batchVars, schedulerVars, chatVars, TypeOK, QueueTypes,
       ScheduleTypes, BatchTypes, Serves, KindsApart, SlotBacksRun, HeardOnce, BindsNameTurns,
       TurnHoldsLock, Calm, CancelFindsTurn, TimerKept, Known, Open, Kept, WillFire, Pending, Of

LEMMA Inductive == IInv /\ [Next]_vars => IInv'
<1> SUFFICES ASSUME IInv, [Next]_vars PROVE IInv'
  OBVIOUS
<1>1. CASE Next
  <2>1. Steps /\ UNCHANGED <<kind, mode>>
    BY <1>1, NextSteps
  <2>2. TypeOK'
    BY TypesStep DEF IInv
  <2> QED
    BY <2>1, <2>2, ServesStep, KindsStep, SlotStep, HeardStep, BindsStep, LockStep, TimerStep DEF IInv
<1> QED
  BY <1>1, Stutters

LEMMA Initially == Init => IInv
<1> SUFFICES ASSUME Init PROVE IInv
  OBVIOUS
<1>1. Serves /\ KindsApart /\ SlotBacksRun /\ BindsNameTurns /\ TurnHoldsLock /\ CancelFindsTurn
  BY DEF Init, Serves, KindsApart, SlotBacksRun, Executing, BindsNameTurns, TurnHoldsLock, Holding,
         CancelFindsTurn, Of
<1>2. HeardOnce
  BY DEF Init, HeardOnce
<1>3. TimerKept
  <2>1. PICK timer \in Jobs \cup {None} :
          /\ IF mode = "once" /\ Of("cron") # {} THEN timer \in Of("cron") ELSE timer = None
          /\ sched = [Created(timer) EXCEPT !.exists = Of("cron") # {}, !.enabled = Of("cron") # {}]
          /\ job = [j \in Jobs |-> IF j = timer THEN "created" ELSE "absent"]
    BY DEF Init
  <2>2. sched.timer = timer /\ sched.exists = (Of("cron") # {})
    BY <2>1 DEF Created
  <2>3. \A r \in Requests : rq[r].ex = None /\ rq[r].new = None /\ rq[r].at = "idle"
    BY DEF Init, AtRest
  <2>4. Known(sched.timer)
    BY <2>1, <2>2 DEF Known
  <2>5. ASSUME Open PROVE \E j \in Of("cron") : Kept(j)
    <3>1. timer \in Of("cron")
      BY <2>1, <2>2, <2>5 DEF Open
    <3>2. job[timer] = "created"
      BY <2>1, <3>1 DEF Of
    <3> QED BY <2>3, <3>1, <3>2 DEF Kept, WillFire
  <2> QED BY SMTT(40), <2>3, <2>4, <2>5 DEF TimerKept, Known
<1> QED
  BY <1>1, <1>2, <1>3, TypesInit DEF IInv

LEMMA Invariant == Spec => []IInv
<1> QED
  BY Initially, Inductive, PTL DEF Spec

(* Whatever sweeps, restarts and ends of other jobs come between, a job    *)
(* that executes has its slot, unless an accident happened to it.          *)
THEOREM SlotAlwaysBacksRun == Spec => []SlotBacksRun
<1>1. IInv => SlotBacksRun
  BY DEF IInv
<1> QED
  BY <1>1, Invariant, PTL

(* The source that waits for a job is dealt with once, by the handler, its *)
(* error path or the dead-letter worker.                                   *)
THEOREM ToldAtMostOnce == Spec => []ToldOnce
<1>1. IInv => ToldOnce
  <2> SUFFICES ASSUME IInv, NEW j \in Jobs \ odd PROVE Cardinality(told[j]) <= 1
    BY DEF ToldOnce
  <2>1. \A v, w \in told[j] : v = w
    BY DEF IInv, HeardOnce
  <2>2. told[j] = {} \/ \E w : told[j] = {w}
    BY <2>1
  <2> QED BY <2>2, FS_EmptySet, FS_Singleton
<1> QED
  BY <1>1, Invariant, PTL

(* With no accident to the thread's jobs, the thread's row names the       *)
(* session of the turn that runs, once its bind has landed, or one that a  *)
(* bind of an earlier turn has put there since the lock was taken: no      *)
(* resume, fallback, bind after the reply or queued message does it.       *)
THEOREM CancelAlwaysFindsTurn == Spec => []CancelFindsTurn
<1>1. IInv => CancelFindsTurn
  BY DEF IInv
<1> QED
  BY <1>1, Invariant, PTL

(* For any number of overlapping PATCHes, DELETEs and run-nows: when they  *)
(* are through, an enabled one-time schedule has a job that will fire it.  *)
THEOREM EnabledAlwaysHasTimer == Spec => []EnabledHasTimer
<1>1. IInv => EnabledHasTimer
  <2> SUFFICES ASSUME IInv, Open, \A r \in Requests : Idle(r) PROVE \E j \in Of("cron") : WillFire(j)
    BY DEF EnabledHasTimer, Open
  <2>1. \A r \in Requests : ~Pending(r)
    BY DEF Idle, Pending
  <2> QED BY <2>1 DEF IInv, TimerKept, Kept
<1> QED
  BY <1>1, Invariant, PTL
=============================================================================

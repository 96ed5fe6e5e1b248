------------------------- MODULE JobContractProofs -------------------------
(***************************************************************************)
(* Proofs that the scheduler implements the contract of a job, for any     *)
(* jobs of any kinds, workers, slots, requests and accidents, and what     *)
(* follows: an ended job stays as it ended, no job gets a second handler,  *)
(* and of a message nobody is left without someone who is still to speak.  *)
(***************************************************************************)
EXTENDS SchedulerProofs

(* The handler has come past all it may have to say; the loop in which a   *)
(* batch's job waits for its task and works on it.                         *)
Closing == {"bind", "free", "freeF", "done", "doneF"}
Loop == {"wait", "take", "run", "check", "close"}

(* A message's handler that is about to end has had its say; only a        *)
(* batch's job is in the loop; and what the monitor gave up has failed.    *)
Answered ==
  /\ \A j \in Of("chat") : pc[j] \in Closing => told[j] # {}
  /\ \A j \in Jobs : pc[j] \in Loop => kind[j] = "batch"
  /\ \A j \in Jobs : dlq[j] = "lost" => job[j] = "failed"

(* No timer of the schedule, and none that a request on it has read or     *)
(* sent, is a message.                                                     *)
IsTimer(t) == t = None \/ t \in Of("cron")
TimersApart == IsTimer(sched.timer) /\ \A r \in Requests : IsTimer(rq[r].ex) /\ IsTimer(rq[r].new)

(* A message that nothing was said of has not ended, or was given up as    *)
(* lost and its notice is still to come.                                   *)
Attended ==
  \A j \in Of("chat") : told[j] = {} =>
    job[j] \in {"absent", "created", "active"} \/ (job[j] = "failed" /\ dlq[j] = "lost")

CInv == IInv /\ Answered /\ TimersApart /\ Attended

-----------------------------------------------------------------------------
(* Answered is kept. *)
LEMMA AnsweredRest ==
  ASSUME Answered, JobsRest, told' = told, kind' = kind PROVE Answered'
<1>1. \A j \in Jobs : job[j] = "failed" => job'[j] = "failed"
  BY DEF JobsRest
<1> QED
  BY <1>1 DEF Answered, JobsRest, Of

LEMMA AnsweredWalk ==
  ASSUME TypeOK, Answered, kind' = kind, NEW j \in Jobs, NEW p, Walk(j, p),
         told' = told \/ \E w : Says(j, w),
         p \in Loop => pc[j] \in Loop,
         p \in Closing /\ kind[j] = "chat" => pc[j] \in Closing \/ \E w : Says(j, w)
  PROVE  Answered'
<1>1. /\ pc'[j] = p /\ \A i \in Jobs \ {j} : pc'[i] = pc[i]
      /\ job' = job /\ dlq' = dlq /\ odd \subseteq odd'
  BY DEF Walk, TypeOK
<1>2. \A i \in Jobs : told[i] \subseteq told'[i]
  BY DEF Says, TypeOK
<1>3. (\E w : Says(j, w)) => told'[j] # {}
  BY DEF Says, TypeOK
<1> QED
  BY <1>1, <1>2, <1>3 DEF Answered, Of

LEMMA AnsweredStep ==
  ASSUME IInv, Answered, Steps, kind' = kind PROVE Answered'
<1>a. TypeOK /\ KindsApart
  BY DEF IInv
<1>p. /\ pc \in [Jobs -> Positions]
      /\ Closing \cap {"idle", "claim", "insert", "sched", "mark", "lock", "read", "turn", "reply", "oops",
                       "wait", "take", "run", "check", "close"} = {}
      /\ Loop \cap {"idle", "claim", "insert", "sched", "mark", "lock", "read", "turn", "reply", "oops",
                    "bind", "free", "freeF", "done", "doneF"} = {}
      /\ {"bind", "free", "freeF", "done", "doneF"} \subseteq Closing
      /\ {"wait", "take", "run", "check", "close"} \subseteq Loop
  BY <1>a DEF TypeOK, Closing, Loop
<1>1. CASE \/ ScheduleRoutes /\ UNCHANGED <<batchVars, schedulerVars>>
           \/ BatchRoutes /\ UNCHANGED <<schedVars, schedulerVars>>
           \/ DeleteWorkspace
           \/ \E j \in Jobs : SendChat(j)
  <2>1. JobsRest /\ told' = told
    BY <1>a, <1>1, RoutesRest DEF schedulerVars, DeleteWorkspace, SendChat
  <2> QED BY <2>1, AnsweredRest
<1>2. CASE SweepOrphans \/ SweepStale \/ Restart
  <2>1. told' = told
    BY <1>2 DEF SweepOrphans, Sweep, SweepStale, Restart
  <2> QED BY <1>2, <2>1, SweepRests, AnsweredRest
<1>3. ASSUME NEW j \in Jobs,
             SlotAges(j) \/ SessionStarts(j) \/ BindLands(j) \/ ResumeFails(j) \/ LoseLock(j)
      PROVE  Answered'
  <2>1. told' = told
    BY <1>3 DEF SlotAges, SessionStarts, BindLands, ResumeFails, LoseLock
  <2> QED BY <1>3, <2>1, QuietRests, AnsweredRest
<1>4. ASSUME NEW j \in Jobs,
             \/ SlotCounts(j) \/ SlotInserts(j) \/ SlotReleases(j)
             \/ AcquireLock(j) \/ ReadThread(j) \/ BindThread(j)
      PROVE  Answered'
  <2>1. told' = told
    BY <1>4 DEF SlotCounts, SlotInserts, SlotReleases, AcquireLock, ReadThread, BindThread,
                schedulerVars
  <2> QED BY <1>4, <1>a, <1>p, <2>1, GoesWalks, AnsweredWalk
             DEF SlotCounts, SlotInserts, SlotReleases, AcquireLock, ReadThread, BindThread
<1>5. ASSUME NEW j \in Jobs, CronBranch(j) PROVE Answered'
  <2>1. told' = told /\ pc[j] \in {"sched", "mark"}
    BY <1>5 DEF CronBranch, ReadSchedule, MarkCompleted, schedulerVars
  <2>2. kind[j] = "cron"
    BY <1>a, <2>1 DEF KindsApart
  <2>3. \E p \in {"free", "mark", "turn"} : Walk(j, p)
    BY <1>5, <2>1, GoesWalks DEF CronBranch, ReadSchedule, MarkCompleted, Walk, Accident
  <2> QED BY <1>a, <1>p, <2>1, <2>2, <2>3, AnsweredWalk
<1>6. ASSUME NEW j \in Jobs, BatchHandler(j), UNCHANGED schedulerVars PROVE Answered'
  <2>1. told' = told /\ pc[j] \in Loop
    BY <1>6, <1>p DEF schedulerVars, BatchHandler, ClaimCounts, ClaimTakes, BatchTurn, BatchCheck, BatchClose
  <2>2. kind[j] = "batch"
    BY <2>1 DEF Answered
  <2>3. \E p \in Positions \ {"idle"} : Walk(j, p)
    BY <1>6, HandlerWalks
  <2> QED BY <1>a, <2>1, <2>2, <2>3, AnsweredWalk
<1>7. ASSUME NEW j \in Jobs, TurnEnds(j) PROVE Answered'
  BY <1>7, <1>a, <1>p, GoesWalks, AnsweredWalk DEF TurnEnds
<1>8. ASSUME NEW j \in Jobs, SendReply(j) PROVE Answered'
  <2>1. told' = told \/ \E w : Says(j, w)
    BY <1>8 DEF SendReply
  <2>2. Walk(j, "oops") \/ (Walk(j, "bind") /\ \E w : Says(j, w))
    BY <1>8, GoesWalks DEF SendReply, Walk, Accident
  <2> QED BY <1>a, <1>p, <2>1, <2>2, AnsweredWalk
<1>9. ASSUME NEW j \in Jobs, SendErrorReply(j) PROVE Answered'
  <2>1. Walk(j, "freeF") /\ \E w : Says(j, w)
    BY <1>9, GoesWalks DEF SendErrorReply, Walk, Accident
  <2> QED BY <1>a, <1>p, <2>1, AnsweredWalk
<1>10. ASSUME NEW j \in Jobs, Take(j) PROVE Answered'
  <2>1. /\ told' = told /\ odd' = odd /\ dlq' = dlq /\ job[j] = "created"
        /\ \A i \in Jobs \ {j} : pc'[i] = pc[i] /\ job'[i] = job[i]
        /\ pc'[j] = (IF kind[j] = "batch" THEN "wait" ELSE "claim")
    BY <1>a, <1>10 DEF Take, Fetch, NoAccident, schedulerVars, TypeOK, QueueTypes
  <2> QED BY <1>p, <2>1 DEF Answered, Of
<1>11. ASSUME NEW j \in Jobs, Settle(j) PROVE Answered'
  <2>1. /\ told' = told /\ odd' = odd
        /\ pc'[j] = "idle" /\ \A i \in Jobs \ {j} : pc'[i] = pc[i]
        /\ \A i \in Jobs \ {j} : job'[i] = job[i] /\ dlq'[i] = dlq[i]
        /\ job[j] # "active" => job'[j] = job[j]
        /\ dlq'[j] \in {dlq[j], "own"}
    BY <1>a, <1>11 DEF Settle, Settled, NoAccident, TypeOK, QueueTypes
  <2>2. dlq'[j] = "lost" => job'[j] = "failed"
    BY <2>1 DEF Answered
  <2> QED BY <1>p, <2>1, <2>2 DEF Answered, Of
<1>12. ASSUME NEW j \in Jobs, Monitor(j) \/ Stall(j) PROVE Answered'
  <2>1. /\ told' = told /\ odd \subseteq odd' /\ pc' = pc
        /\ job'[j] = "failed" /\ \A i \in Jobs \ {j} : job'[i] = job[i] /\ dlq'[i] = dlq[i]
    BY <1>a, <1>12 DEF Monitor, Stall, MonitorFails, MonitorFailsLive, NoAccident, Accident, schedulerVars,
                       TypeOK, QueueTypes
  <2> QED BY <2>1 DEF Answered, Of
<1>13. ASSUME NEW j \in Jobs, NotifyLost(j) PROVE Answered'
  <2>1. /\ odd \subseteq odd' /\ pc' = pc /\ job' = job
        /\ \A i \in Jobs : told[i] \subseteq told'[i] /\ dlq'[i] \in {dlq[i], "handled"}
    BY <1>a, <1>13 DEF NotifyLost, Says, NoAccident, Accident, TypeOK, QueueTypes
  <2> QED BY <2>1 DEF Answered, Of
<1>14. CASE Crash
  BY <1>p, <1>14 DEF Crash, Die, Accident, Answered, Of
<1> QED
  BY <1>1, <1>2, <1>3, <1>4, <1>5, <1>6, <1>7, <1>8, <1>9, <1>10, <1>11, <1>12, <1>13, <1>14 DEF Steps

-----------------------------------------------------------------------------
(* No message is a timer, so no request calls one off. *)
LEMMA TimersFrame ==
  ASSUME TimersApart, kind' = kind, rq' = rq, sched'.timer \in {sched.timer, None}
  PROVE  TimersApart'
BY DEF TimersApart, IsTimer, Of

LEMMA TimersRequest ==
  ASSUME TimersApart, kind' = kind,
         \A r \in Requests : /\ rq'[r].ex \in {rq[r].ex, sched.timer, None}
                             /\ rq'[r].new \in {rq[r].new, None} \cup Of("cron"),
         IsTimer(sched'.timer)
  PROVE  TimersApart'
BY DEF TimersApart, IsTimer, Of

LEMMA TimersStep ==
  ASSUME TypeOK, TimersApart, Steps, kind' = kind PROVE TimersApart'
<1>a. sched \in ScheduleRow /\ rq \in [Requests -> Request]
  BY DEF TypeOK, ScheduleTypes
<1>1. ASSUME NEW r \in Requests, PatchReads(r) \/ DeleteReads(r) PROVE TimersApart'
  <2>1. \A q \in Requests : rq'[q].ex \in {rq[q].ex, sched.timer} /\ rq'[q].new = rq[q].new
    BY <1>a, <1>1 DEF PatchReads, DeleteReads, Request
  <2>2. sched' = sched
    BY <1>1 DEF PatchReads, DeleteReads
  <2> QED BY <2>1, <2>2, TimersRequest DEF TimersApart
<1>2. ASSUME NEW r \in Requests,
             \/ PatchWrites(r) \/ PatchClears(r) \/ PatchArms(r)
             \/ PatchNames(r) \/ DeleteClears(r) \/ DeleteDeletes(r)
      PROVE  TimersApart'
  <2>1. \A q \in Requests : rq'[q].ex \in {rq[q].ex, None}
    BY <1>a, <1>2 DEF PatchWrites, PatchClears, PatchArms, PatchNames, DeleteClears, DeleteDeletes,
                      Step, Leave, AtRest, Request
  <2>2. \A q \in Requests : rq'[q].new \in {rq[q].new, None} \cup Of("cron")
    BY <1>a, <1>2 DEF PatchWrites, PatchClears, PatchArms, PatchNames, DeleteClears, DeleteDeletes,
                      Step, Leave, AtRest, Request
  <2>3. sched'.timer \in {sched.timer, rq[r].new}
    BY <1>a, <1>2 DEF PatchWrites, PatchClears, PatchArms, PatchNames, DeleteClears, DeleteDeletes, ScheduleRow
  <2>4. IsTimer(sched'.timer)
    BY <2>3 DEF TimersApart
  <2> QED BY <2>1, <2>2, <2>4, TimersRequest
<1>3. ASSUME NEW j \in Jobs, RunNow(j) \/ CronTick(j) \/ CronBranch(j) PROVE TimersApart'
  <2>1. rq' = rq /\ sched'.timer \in {sched.timer, None}
    BY <1>a, <1>3 DEF RunNow, CronTick, CronBranch, ReadSchedule, MarkCompleted, schedVars, ScheduleRow
  <2> QED BY <2>1, TimersFrame
<1>4. CASE DeleteWorkspace
  <2>1. rq' = rq /\ sched'.timer = sched.timer
    BY <1>a, <1>4 DEF DeleteWorkspace, ScheduleRow
  <2> QED BY <2>1, TimersFrame
<1>5. CASE BatchRoutes /\ UNCHANGED <<schedVars, schedulerVars>>
  BY <1>5, TimersFrame DEF schedVars
<1>6. CASE Crash \/ SweepOrphans \/ SweepStale \/ Restart
  <2>1. UNCHANGED schedVars
    BY <1>6 DEF Crash, SweepOrphans, Sweep, SweepStale, Restart
  <2> QED BY <2>1, TimersFrame DEF schedVars
<1>7. ASSUME NEW j \in Jobs,
             \/ BatchHandler(j) /\ UNCHANGED <<schedVars, schedulerVars>>
             \/ Take(j) \/ SlotCounts(j) \/ SlotInserts(j) \/ SlotReleases(j) \/ Settle(j)
             \/ SlotAges(j)
             \/ AcquireLock(j) \/ ReadThread(j) \/ SessionStarts(j) \/ BindLands(j) \/ ResumeFails(j)
             \/ BindThread(j) \/ LoseLock(j)
             \/ TurnEnds(j) \/ SendReply(j) \/ SendErrorReply(j) \/ NotifyLost(j)
             \/ Monitor(j) \/ Stall(j) \/ SendChat(j)
      PROVE  TimersApart'
  <2>1. UNCHANGED schedVars
    BY <1>7 DEF Take, SlotCounts, SlotInserts, SlotReleases, Settle, SlotAges, AcquireLock, ReadThread,
                SessionStarts, BindLands, ResumeFails, BindThread, LoseLock, TurnEnds, SendReply,
                SendErrorReply, NotifyLost, Monitor, Stall, SendChat
  <2> QED BY <2>1, TimersFrame DEF schedVars
<1> QED
  BY <1>1, <1>2, <1>3, <1>4, <1>5, <1>6, <1>7 DEF Steps, ScheduleRoutes

-----------------------------------------------------------------------------
(* A message that nothing was said of is not forgotten. *)
LEMMA AttendedRest ==
  ASSUME TypeOK, Attended, kind' = kind, dlq' = dlq,
         \A j \in Jobs : told[j] \subseteq told'[j],
         \A j \in Of("chat") : job'[j] = job[j] \/ job'[j] = "created"
  PROVE  Attended'
BY DEF Attended, Of

LEMMA RoutesLeaveChats ==
  ASSUME TypeOK, TimersApart, kind' = kind,
         ScheduleRoutes \/ BatchRoutes \/ DeleteWorkspace \/ \E j \in Jobs : SendChat(j)
  PROVE  dlq' = dlq /\ \A j \in Of("chat") : job'[j] = job[j] \/ job'[j] = "created"
<1> DEFINE Left == dlq' = dlq /\ \A j \in Of("chat") : job'[j] = job[j] \/ job'[j] = "created"
<1>a. job \in [Jobs -> JobState]
  BY DEF TypeOK, QueueTypes
<1>1. ASSUME NEW t, IsTimer(t), ClearTimer(t), dlq' = dlq PROVE Left
  BY <1>a, <1>1 DEF IsTimer, ClearTimer, Cancelled, Of
<1>2. ASSUME NEW j \in Jobs, Sent(j), dlq' = dlq PROVE Left
  BY <1>a, <1>2 DEF Sent, Of
<1>3. ASSUME UNCHANGED queueVars PROVE Left
  BY <1>3 DEF queueVars
<1>4. ASSUME NEW r \in Requests,
             PatchReads(r) \/ PatchWrites(r) \/ PatchNames(r) \/ DeleteReads(r) \/ DeleteDeletes(r)
      PROVE  Left
  BY <1>3, <1>4 DEF PatchReads, PatchWrites, PatchNames, DeleteReads, DeleteDeletes
<1>5. ASSUME NEW r \in Requests, PatchClears(r) \/ DeleteClears(r) PROVE Left
  BY <1>1, <1>5 DEF PatchClears, DeleteClears, TimersApart
<1>6. ASSUME NEW r \in Requests, PatchArms(r) PROVE Left
  BY <1>2, <1>6 DEF PatchArms, Of
<1>7. ASSUME NEW j \in Jobs, RunNow(j) \/ CronTick(j) \/ CreateTask(j) \/ SendChat(j) PROVE Left
  BY <1>2, <1>7 DEF RunNow, CronTick, CreateTask, SendChat
<1>8. ASSUME MarkRunning \/ CancelLists \/ CancelCloses \/ \E j \in Jobs : CancelTask(j) PROVE Left
  BY <1>3, <1>8 DEF MarkRunning, CancelLists, CancelCloses, CancelTask
<1>9. CASE DeleteWorkspace
  BY <1>1, <1>9 DEF DeleteWorkspace, TimersApart
<1> QED
  BY <1>4, <1>5, <1>6, <1>7, <1>8, <1>9 DEF ScheduleRoutes, BatchRoutes

LEMMA AttendedStep ==
  ASSUME TypeOK, Answered, TimersApart, Attended, Steps, kind' = kind PROVE Attended'
<1>a. /\ job \in [Jobs -> JobState] /\ told \in [Jobs -> SUBSET Word]
      /\ dlq \in [Jobs -> {"none", "own", "lost", "handled"}]
  BY DEF TypeOK, QueueTypes
<1>t. ASSUME NEW j \in Jobs, NEW w, Says(j, w) PROVE \A i \in Jobs : told[i] \subseteq told'[i]
  BY <1>a, <1>t DEF Says
<1>1. CASE \/ ScheduleRoutes /\ UNCHANGED <<batchVars, schedulerVars>>
           \/ BatchRoutes /\ UNCHANGED <<schedVars, schedulerVars>>
           \/ DeleteWorkspace
           \/ \E j \in Jobs : SendChat(j)
  <2>1. told' = told
    BY <1>1 DEF schedulerVars, DeleteWorkspace, SendChat
  <2> QED BY <1>1, <2>1, RoutesLeaveChats, AttendedRest
<1>2. CASE Crash \/ SweepOrphans \/ SweepStale \/ Restart
  <2>1. UNCHANGED <<told, job, dlq>>
    BY <1>2 DEF Crash, Die, SweepOrphans, Sweep, SweepStale, Restart, Restarted, queueVars
  <2> QED BY <2>1, AttendedRest
<1>3. ASSUME NEW j \in Jobs,
             SlotAges(j) \/ SessionStarts(j) \/ BindLands(j) \/ ResumeFails(j) \/ LoseLock(j)
      PROVE  Attended'
  <2>1. UNCHANGED <<told, job, dlq>>
    BY <1>3 DEF SlotAges, SessionStarts, BindLands, ResumeFails, LoseLock, queueVars
  <2> QED BY <2>1, AttendedRest
<1>4. ASSUME NEW j \in Jobs,
             \/ SlotCounts(j) \/ SlotInserts(j) \/ SlotReleases(j) \/ CronBranch(j)
             \/ AcquireLock(j) \/ ReadThread(j) \/ BindThread(j)
             \/ TurnEnds(j) \/ SendReply(j) \/ SendErrorReply(j)
             \/ BatchHandler(j) /\ UNCHANGED <<schedVars, schedulerVars>>
      PROVE  Attended'
  <2>1. job' = job /\ dlq' = dlq
    BY <1>4, HandlerWalks DEF Walk
  <2>2. told' = told \/ \E w : Says(j, w)
    BY <1>4 DEF SlotCounts, SlotInserts, SlotReleases, CronBranch, AcquireLock, ReadThread, BindThread,
                TurnEnds, SendReply, SendErrorReply, schedulerVars
  <2>3. \A i \in Jobs : told[i] \subseteq told'[i]
    BY <1>t, <2>2
  <2> QED BY <2>1, <2>3, AttendedRest
<1>5. ASSUME NEW j \in Jobs, Take(j) PROVE Attended'
  <2>1. /\ told' = told /\ dlq' = dlq
        /\ job'[j] = "active" /\ \A i \in Jobs \ {j} : job'[i] = job[i]
    BY <1>a, <1>5 DEF Take, Fetch, schedulerVars
  <2> QED BY <2>1 DEF Attended, Of
<1>6. ASSUME NEW j \in Jobs, Settle(j) PROVE Attended'
  <2>1. pc[j] \in Closing
    BY <1>6 DEF Settle, Closing
  <2>2. j \in Of("chat") => told[j] # {}
    BY <2>1 DEF Answered
  <2>3. told' = told /\ \A i \in Jobs \ {j} : job'[i] = job[i] /\ dlq'[i] = dlq[i]
    BY <1>a, <1>6 DEF Settle, Settled
  <2> QED BY <2>2, <2>3 DEF Attended, Of
<1>7. ASSUME NEW j \in Jobs, Monitor(j) \/ Stall(j) PROVE Attended'
  <2>1. told' = told /\ \A i \in Jobs \ {j} : job'[i] = job[i] /\ dlq'[i] = dlq[i]
    BY <1>a, <1>7 DEF Monitor, Stall, MonitorFails, MonitorFailsLive, schedulerVars
  <2>2. job'[j] = "failed" /\ dlq'[j] = "lost"
    BY <1>a, <1>7 DEF Monitor, Stall, MonitorFails, MonitorFailsLive
  <2> QED BY <2>1, <2>2 DEF Attended, Of
<1>8. ASSUME NEW j \in Jobs, NotifyLost(j) PROVE Attended'
  <2>1. /\ job' = job /\ \A i \in Jobs : told[i] \subseteq told'[i]
        /\ \A i \in Jobs \ {j} : dlq'[i] = dlq[i]
    BY <1>a, <1>8, <1>t DEF NotifyLost
  <2>2. dlq' = dlq \/ dlq[j] = "own" \/ kind[j] # "chat" \/ Says(j, "lost")
    BY <1>8 DEF NotifyLost
  <2>3. Says(j, "lost") => told'[j] # {}
    BY <1>a DEF Says
  <2> QED BY <2>1, <2>2, <2>3 DEF Attended, Of
<1> QED
  BY <1>1, <1>2, <1>3, <1>4, <1>5, <1>6, <1>7, <1>8 DEF Steps

-----------------------------------------------------------------------------
LEMMA ContractInvariant == Spec => []CInv
<1>1. Init => Answered /\ TimersApart /\ Attended
  <2> SUFFICES ASSUME Init PROVE Answered /\ TimersApart /\ Attended
    OBVIOUS
  <2>1. Answered
    <3>1. \A j \in Jobs : pc[j] = "idle" /\ dlq[j] = "none"
      BY DEF Init
    <3> QED BY <3>1 DEF Answered, Closing, Loop, Of
  <2>2. TimersApart
    <3>1. IsTimer(sched.timer)
      BY DEF Init, Created, IsTimer
    <3>2. \A r \in Requests : rq[r].ex = None /\ rq[r].new = None
      BY DEF Init, AtRest
    <3> QED BY <3>1, <3>2 DEF TimersApart, IsTimer
  <2>3. Attended
    BY DEF Init, Attended, Of
  <2> QED BY <2>1, <2>2, <2>3
<1>2. CInv /\ [Next]_vars => CInv'
  <2> SUFFICES ASSUME CInv, [Next]_vars PROVE CInv'
    OBVIOUS
  <2>1. IInv' /\ TypeOK
    BY Inductive DEF CInv, IInv
  <2>2. CASE Next
    <3>1. Steps /\ kind' = kind
      BY <2>2, NextSteps
    <3> QED BY <2>1, <3>1, AnsweredStep, TimersStep, AttendedStep DEF CInv
  <2>3. CASE UNCHANGED vars
    <3>1. UNCHANGED <<pc, job, dlq, told, kind, sched, rq>>
      BY <2>3 DEF vars, queueVars, schedVars, schedulerVars
    <3> QED BY <2>1, <3>1 DEF CInv, Answered, TimersApart, IsTimer, Attended, Of
  <2> QED BY <2>2, <2>3
<1> QED
  BY <1>1, <1>2, Initially, PTL DEF Spec, CInv

-----------------------------------------------------------------------------
(* The steps of the contract that a step of the scheduler may be.          *)
Keeps == [Contract!Next]_(Contract!jobVars)

LEMMA Audience == kind' = kind => Of("chat")' = Of("chat")
BY DEF Of

LEMMA AtWork ==
  ASSUME TypeOK, NEW j \in Jobs, NEW p \in Positions, pc' = [pc EXCEPT ![j] = p]
  PROVE  Serving' = IF p = "idle" THEN Serving \ {j} ELSE Serving \cup {j}
BY DEF Serving, TypeOK

LEMMA Rests ==
  ASSUME UNCHANGED <<job, Serving, Of("chat"), told, odd>> PROVE Keeps
BY DEF Keeps, Contract!jobVars

LEMMA Accidents ==
  ASSUME NEW S \in SUBSET Jobs, odd' = odd \cup S, UNCHANGED <<job, Serving, Of("chat"), told>>
  PROVE  Keeps
BY DEF Keeps, Contract!Next, Contract!Mishap

LEMMA Sending ==
  ASSUME NEW j \in Jobs, Sent(j), UNCHANGED <<Serving, Of("chat"), told, odd>> PROVE Keeps
BY DEF Sent, Keeps, Contract!Next, Contract!Send, Contract!Moves

LEMMA Clearing ==
  ASSUME NEW t, IsTimer(t), ClearTimer(t), UNCHANGED <<Serving, Of("chat"), told, odd>>
  PROVE  Keeps
<1>1. CASE job' = job
  BY <1>1, Rests
<1>2. CASE t # None /\ job[t] = "created" /\ job' = [job EXCEPT ![t] = "cancelled"]
  <2>1. t \in Jobs \ Of("chat")
    BY <1>2 DEF IsTimer, Of
  <2>2. Contract!Withdraw(t)
    BY <1>2, <2>1 DEF Contract!Withdraw, Contract!Moves
  <2> QED BY <2>1, <2>2 DEF Keeps, Contract!Next
<1> QED
  BY <1>1, <1>2 DEF ClearTimer, Cancelled

(* A handler goes on and says nothing, or says w. *)
LEMMA Silently ==
  ASSUME TypeOK, NEW j \in Jobs, NEW p \in Positions \ {"idle"}, Walk(j, p), kind' = kind,
         told' = told, odd' \in {odd, odd \cup {j}}
  PROVE  Keeps
<1>1. Serving' = Serving
  BY AtWork DEF Walk, Serving
<1>2. job' = job /\ Of("chat")' = Of("chat")
  BY Audience DEF Walk
<1>3. CASE odd' = odd
  BY <1>1, <1>2, <1>3, Rests
<1>4. CASE odd' = odd \cup {j}
  <2>1. {j} \in SUBSET Jobs
    OBVIOUS
  <2> QED BY <1>1, <1>2, <1>4, <2>1, Accidents
<1> QED
  BY <1>3, <1>4

LEMMA Speaking ==
  ASSUME TypeOK, HeardOnce, NEW j \in Of("chat"), NEW p \in Positions \ {"idle"}, Walk(j, p), kind' = kind,
         pc[j] \in Silent, odd' \in {odd, odd \cup {j}},
         NEW w \in {"answer", "quiet", "error", "refused"}, Says(j, w)
  PROVE  Keeps
<1>1. Serving' = Serving /\ j \in Jobs /\ j \in Serving
  BY AtWork DEF Walk, Serving, Of
<1>2. job' = job /\ Of("chat")' = Of("chat")
  BY Audience DEF Walk
<1>3. told[j] = {} \/ j \in odd'
  BY <1>1 DEF HeardOnce
<1>4. Contract!Speak(j)
  BY <1>1, <1>2, <1>3 DEF Says, Contract!Speak, Contract!Hears, Contract!Words
<1> QED
  BY <1>1, <1>4 DEF Keeps, Contract!Next

(* Each step of the scheduler keeps the contract. *)
LEMMA RoutesKeep ==
  ASSUME TypeOK, TimersApart, kind' = kind,
         \/ ScheduleRoutes /\ UNCHANGED <<batchVars, schedulerVars>>
         \/ BatchRoutes /\ UNCHANGED <<schedVars, schedulerVars>>
         \/ DeleteWorkspace
         \/ \E j \in Jobs : SendChat(j)
  PROVE  Keeps
<1>k. ScheduleTypes /\ Of("chat")' = Of("chat")
  BY Audience DEF TypeOK
<1>t. told' = told
  BY DEF schedulerVars, DeleteWorkspace, SendChat
<1>s. pc' = pc => Serving' = Serving
  BY DEF Serving
<1>1. ASSUME NEW r \in Requests,
             PatchReads(r) \/ PatchWrites(r) \/ PatchNames(r) \/ DeleteReads(r) \/ DeleteDeletes(r)
      PROVE  Keeps
  BY <1>1, <1>k, <1>t, <1>s, Rests
     DEF PatchReads, PatchWrites, PatchNames, DeleteReads, DeleteDeletes, queueVars
<1>2. ASSUME NEW r \in Requests, PatchClears(r) \/ DeleteClears(r) PROVE Keeps
  <2>1. IsTimer(rq[r].ex)
    BY DEF TimersApart
  <2> QED BY <1>2, <1>k, <1>t, <1>s, <2>1, Clearing DEF PatchClears, DeleteClears, NoAccident
<1>3. ASSUME NEW r \in Requests, PatchArms(r) PROVE Keeps
  <2>1. job' = job \/ \E j \in Jobs : Sent(j)
    BY <1>3 DEF PatchArms, Of
  <2> QED BY <1>3, <1>k, <1>t, <1>s, <2>1, Rests, Sending DEF PatchArms, NoAccident
<1>4. ASSUME NEW j \in Jobs, RunNow(j) \/ CronTick(j) \/ CreateTask(j) \/ SendChat(j) PROVE Keeps
  BY <1>4, <1>k, <1>t, <1>s, Sending DEF RunNow, CronTick, CreateTask, SendChat, NoAccident
<1>5. ASSUME MarkRunning \/ CancelLists \/ CancelCloses \/ \E j \in Jobs : CancelTask(j) PROVE Keeps
  BY <1>5, <1>k, <1>t, <1>s, Rests DEF MarkRunning, CancelLists, CancelCloses, CancelTask, queueVars
<1>6. CASE DeleteWorkspace
  <2>1. IsTimer(sched.timer)
    BY DEF TimersApart
  <2>2. odd' = odd /\ pc' = pc
    BY <1>6 DEF DeleteWorkspace, Accident
  <2> QED BY <1>6, <1>k, <1>t, <1>s, <2>1, <2>2, Clearing, Rests DEF DeleteWorkspace
<1> QED
  BY <1>1, <1>2, <1>3, <1>4, <1>5, <1>6 DEF ScheduleRoutes, BatchRoutes

LEMMA QuietlyKeeps ==
  ASSUME kind' = kind,
         \/ SweepOrphans \/ SweepStale \/ Restart
         \/ \E j \in Jobs :
              SlotAges(j) \/ SessionStarts(j) \/ BindLands(j) \/ ResumeFails(j) \/ LoseLock(j)
  PROVE  Keeps
<1>1. job' = job /\ pc' = pc /\ told' = told
  BY DEF SweepOrphans, Sweep, SweepStale, Restart, Restarted, SlotAges, SessionStarts, BindLands,
         ResumeFails, LoseLock, queueVars
<1>2. Serving' = Serving /\ Of("chat")' = Of("chat")
  BY <1>1, Audience DEF Serving
<1>3. odd' = odd \/ \E j \in Jobs : odd' = odd \cup {j}
  BY DEF SweepOrphans, Sweep, SweepStale, Restart, Restarted, SlotAges, SessionStarts, BindLands,
         ResumeFails, LoseLock, queueVars, NoAccident, Accident
<1>4. CASE odd' = odd
  BY <1>1, <1>2, <1>4, Rests
<1>5. ASSUME NEW j \in Jobs, odd' = odd \cup {j} PROVE Keeps
  BY <1>1, <1>2, <1>5, Accidents
<1> QED
  BY <1>3, <1>4, <1>5

LEMMA HandlerKeeps ==
  ASSUME IInv, kind' = kind, NEW j \in Jobs,
         \/ SlotCounts(j) \/ SlotInserts(j) \/ SlotReleases(j) \/ CronBranch(j)
         \/ AcquireLock(j) \/ ReadThread(j) \/ BindThread(j)
         \/ TurnEnds(j) \/ SendReply(j) \/ SendErrorReply(j)
         \/ BatchHandler(j) /\ UNCHANGED <<schedVars, schedulerVars>>
  PROVE  Keeps
<1>a. TypeOK /\ KindsApart /\ HeardOnce
  BY DEF IInv
<1>p. PICK p \in Positions \ {"idle"} : Walk(j, p)
  BY HandlerWalks
<1>o. odd' \in {odd, odd \cup {j}}
  BY DEF SlotCounts, SlotInserts, SlotReleases, CronBranch, ReadSchedule, MarkCompleted, AcquireLock,
         ReadThread, BindThread, TurnEnds, SendReply, SendErrorReply, BatchHandler, ClaimCounts,
         ClaimTakes, BatchTurn, BatchCheck, BatchClose, Goes, NoAccident, Accident
<1>1. CASE told' = told
  BY <1>a, <1>p, <1>o, <1>1, Silently
<1>2. ASSUME NEW w \in {"answer", "quiet", "error", "refused"}, Says(j, w),
             (TurnEnds(j) /\ j \in started) \/ SendReply(j) \/ SendErrorReply(j)
      PROVE  Keeps
  <2>1. pc[j] \in Silent /\ j \in Of("chat")
    BY <1>a, <1>2 DEF TurnEnds, SendReply, SendErrorReply, Silent, KindsApart, Of
  <2> QED BY <1>a, <1>p, <1>o, <1>2, <2>1, Speaking
<1>3. \/ told' = told
      \/ /\ (TurnEnds(j) /\ j \in started) \/ SendReply(j) \/ SendErrorReply(j)
         /\ \E w \in {"answer", "quiet", "error", "refused"} : Says(j, w)
  BY DEF SlotCounts, SlotInserts, SlotReleases, CronBranch, AcquireLock, ReadThread, BindThread,
         TurnEnds, SendReply, SendErrorReply, schedulerVars
<1> QED
  BY <1>1, <1>2, <1>3

LEMMA QueueKeeps ==
  ASSUME CInv, kind' = kind, NEW j \in Jobs,
         Take(j) \/ Settle(j) \/ Monitor(j) \/ Stall(j) \/ NotifyLost(j)
  PROVE  Keeps
<1>a. TypeOK /\ KindsApart /\ HeardOnce /\ Serves /\ Answered /\ job \in [Jobs -> JobState]
  BY DEF CInv, IInv, TypeOK, QueueTypes
<1>k. Of("chat")' = Of("chat")
  BY Audience
<1>p. {"idle", "claim", "wait"} \subseteq Positions
  BY DEF Positions
<1>1. CASE Take(j)
  <2>1. pc[j] = "idle"
    BY <1>a, <1>1 DEF Take, Fetch, Serves
  <2>2. Serving' = Serving \cup {j} /\ j \notin Serving
    BY <1>a, <1>p, <1>1, <2>1, AtWork DEF Take, Fetch, Serving
  <2>3. Contract!Begin(j)
    BY <1>1, <1>k, <2>2 DEF Take, Fetch, NoAccident, schedulerVars, Contract!Begin, Contract!Moves
  <2> QED BY <2>3 DEF Keeps, Contract!Next
<1>2. CASE Settle(j)
  <2>1. pc[j] \in Closing /\ j \in Serving
    BY <1>2 DEF Settle, Closing, Serving
  <2>2. j \in Of("chat") => told[j] # {}
    BY <1>a, <2>1 DEF Answered
  <2>3. Serving' = Serving \ {j}
    BY <1>a, <1>p, <1>2, AtWork DEF Settle, Settled
  <2>4. PICK verdict \in {"completed", "failed"} : Settled(j, verdict)
    BY <1>2 DEF Settle
  <2>5. Contract!Conclude(j, verdict)
    BY <1>2, <1>k, <2>1, <2>2, <2>3, <2>4 DEF Settle, Settled, NoAccident, Contract!Conclude
  <2> QED BY <2>4, <2>5 DEF Keeps, Contract!Next, Contract!Verdicts
<1>3. CASE Monitor(j) \/ Stall(j)
  <2>1. Serving' = Serving
    BY <1>3 DEF Monitor, Stall, MonitorFails, MonitorFailsLive, Serving
  <2>2. odd' = IF j \in Serving THEN odd \cup {j} ELSE odd
    BY <1>3 DEF Monitor, Stall, MonitorFails, MonitorFailsLive, NoAccident, Accident, Serving
  <2>3. Contract!GiveUp(j)
    BY <1>3, <1>k, <2>1, <2>2
       DEF Monitor, Stall, MonitorFails, MonitorFailsLive, schedulerVars, Contract!GiveUp, Contract!Moves
  <2> QED BY <2>3 DEF Keeps, Contract!Next
<1>4. CASE NotifyLost(j)
  <2>1. job' = job /\ Serving' = Serving
    BY <1>4 DEF NotifyLost, Serving
  <2>2. CASE told' = told
    <3>1. odd' = odd \/ odd' = odd \cup {j}
      BY <1>4 DEF NotifyLost, NoAccident, Accident
    <3>2. CASE odd' = odd
      BY <1>k, <2>1, <2>2, <3>2, Rests
    <3>3. CASE odd' = odd \cup {j}
      BY <1>k, <2>1, <2>2, <3>3, Accidents
    <3> QED BY <3>1, <3>2, <3>3
  <2>3. CASE dlq[j] = "lost" /\ kind[j] = "chat" /\ Says(j, "lost") /\ odd' = odd
    <3>1. job[j] = "failed" /\ j \in Of("chat")
      BY <1>a, <2>3 DEF Answered, Of
    <3>2. j \in odd \/ (j \notin Serving /\ told[j] = {})
      BY <1>a, <2>3 DEF HeardOnce, Serving
    <3>3. Contract!Report(j)
      BY <1>k, <2>1, <2>3, <3>1, <3>2 DEF Says, Contract!Report, Contract!Hears
    <3> QED BY <3>3 DEF Keeps, Contract!Next
  <2> QED BY <1>4, <2>2, <2>3 DEF NotifyLost, NoAccident
<1> QED
  BY <1>1, <1>2, <1>3, <1>4

LEMMA CrashKeeps ==
  ASSUME kind' = kind, Crash PROVE Keeps
<1>1. Serving' = {} /\ Of("chat")' = Of("chat")
  BY Audience DEF Crash, Die, Serving
<1>2. PICK S \in SUBSET Jobs : odd' = odd \cup S
  BY DEF Crash, Die, Accident, Serving
<1>3. Contract!Die(S)
  BY <1>1, <1>2 DEF Crash, Die, Contract!Die
<1> QED
  BY <1>3 DEF Keeps, Contract!Next

LEMMA StepKeeps == CInv /\ [Next]_vars => Keeps
<1> SUFFICES ASSUME CInv, [Next]_vars PROVE Keeps
  OBVIOUS
<1>1. CASE UNCHANGED vars
  BY <1>1, Rests DEF vars, queueVars, schedulerVars, Serving, Of
<1>2. CASE Next
  <2>1. Steps /\ kind' = kind /\ IInv /\ TypeOK /\ TimersApart
    BY <1>2, NextSteps DEF CInv, IInv
  <2> QED
    BY <2>1, RoutesKeep, QuietlyKeeps, HandlerKeeps, QueueKeeps, CrashKeeps DEF Steps
<1> QED
  BY <1>1, <1>2

LEMMA ContractInit == Init => Contract!Init
<1> SUFFICES ASSUME Init PROVE Contract!Init
  OBVIOUS
<1>1. job \in [Jobs -> {"absent", "created"}]
  BY DEF Init
<1>2. Serving = {}
  BY DEF Init, Serving
<1> QED
  BY <1>1, <1>2 DEF Init, Contract!Init, Of

(* Whatever the queue, the handlers, the monitor, the sweeps and the       *)
(* routes do, and whenever the process dies, each job keeps its contract:  *)
(* it is run at most once and to one verdict, and who waits for it hears   *)
(* one thing, which a handler that ends has said.                          *)
THEOREM ImplementsJobContract == Spec => JobSpec
<1>1. CInv /\ [Next]_vars => [Contract!Next]_(Contract!jobVars)
  BY StepKeeps DEF Keeps
<1> QED
  BY <1>1, ContractInit, ContractInvariant, PTL DEF Spec, JobSpec, Contract!Spec

-----------------------------------------------------------------------------
(* What follows from the contract alone. *)
Fetched(j) == job[j] \notin {"absent", "created"}
VerdictKept == \A j \in Jobs : job[j] \in Ended => job'[j] = job[j]
NotRunAgain == \A j \in Jobs : Fetched(j) => Fetched(j)' /\ (j \in Serving' => j \in Serving)
UnheardIsLost == \A j \in Of("chat") : job[j] \in Ended /\ told[j] = {} => job[j] = "failed"

LEMMA ContractMoves ==
  ASSUME TypeOK, UnheardIsLost, Keeps
  PROVE  VerdictKept /\ NotRunAgain /\ UnheardIsLost'
<1>a. job \in [Jobs -> JobState] /\ told \in [Jobs -> SUBSET Word]
  BY DEF TypeOK, QueueTypes
<1> USE DEF VerdictKept, NotRunAgain, UnheardIsLost, Fetched, Ended
<1>1. ASSUME NEW j \in Jobs, Contract!Send(j) \/ Contract!Withdraw(j)
      PROVE  VerdictKept /\ NotRunAgain /\ UnheardIsLost'
  <2>1. \A i \in Jobs \ {j} : job'[i] = job[i]
    BY <1>a, <1>1 DEF Contract!Send, Contract!Withdraw, Contract!Moves
  <2>2. \/ job[j] = "absent" /\ job'[j] = "created"
        \/ job[j] = "created" /\ job'[j] = "cancelled" /\ j \notin Of("chat")
    BY <1>a, <1>1 DEF Contract!Send, Contract!Withdraw, Contract!Moves
  <2>3. job'[j] \in {"created", "cancelled"} /\ UNCHANGED <<Serving, Of("chat"), told, odd>>
    BY <1>a, <1>1 DEF Contract!Send, Contract!Withdraw, Contract!Moves
  <2> QED BY <2>1, <2>2, <2>3 DEF Of
<1>2. ASSUME NEW j \in Jobs, Contract!Begin(j)
      PROVE  VerdictKept /\ NotRunAgain /\ UnheardIsLost'
  BY <1>a, <1>2 DEF Contract!Begin, Contract!Moves
<1>3. ASSUME NEW j \in Jobs, Contract!Speak(j) \/ Contract!Report(j)
      PROVE  VerdictKept /\ NotRunAgain /\ UnheardIsLost'
  <2>1. /\ job' = job /\ Serving' = Serving /\ Of("chat")' = Of("chat") /\ odd \subseteq odd'
        /\ \E w : told' = [told EXCEPT ![j] = @ \cup {w}]
    BY <1>3 DEF Contract!Speak, Contract!Report, Contract!Hears
  <2>2. \A i \in Jobs : told[i] \subseteq told'[i]
    BY <1>a, <2>1
  <2> QED BY <2>1, <2>2 DEF Of
<1>4. ASSUME NEW j \in Jobs, NEW verdict \in Contract!Verdicts, Contract!Conclude(j, verdict)
      PROVE  VerdictKept /\ NotRunAgain /\ UnheardIsLost'
  <2>1. verdict \in {"completed", "failed"}
    BY DEF Contract!Verdicts
  <2> QED BY <1>a, <1>4, <2>1 DEF Contract!Conclude
<1>5. ASSUME NEW j \in Jobs, Contract!GiveUp(j)
      PROVE  VerdictKept /\ NotRunAgain /\ UnheardIsLost'
  BY <1>a, <1>5 DEF Contract!GiveUp, Contract!Moves
<1>6. ASSUME NEW S \in SUBSET Jobs, Contract!Die(S) \/ Contract!Mishap(S)
      PROVE  VerdictKept /\ NotRunAgain /\ UnheardIsLost'
  BY <1>6 DEF Contract!Die, Contract!Mishap
<1>7. CASE UNCHANGED Contract!jobVars
  BY <1>7 DEF Contract!jobVars
<1> QED
  BY <1>1, <1>2, <1>3, <1>4, <1>5, <1>6, <1>7 DEF Keeps, Contract!Next

(* When the job of a message has ended, its handler has had its say (an    *)
(* answer, an error, a send that was refused, or nothing to say), whatever *)
(* it went through: the reply, its failure, a session that could not be    *)
(* resumed; or the monitor gave the job up.  A refused send and nothing to *)
(* say reach nobody.                                                       *)
THEOREM UnheardIsGivenUp == Spec => []UnheardIsLost
<1>1. Init => UnheardIsLost
  <2> SUFFICES ASSUME Init PROVE UnheardIsLost
    OBVIOUS
  <2>1. \A j \in Jobs : job[j] \in {"absent", "created"}
    BY ContractInit DEF Contract!Init
  <2> QED BY <2>1 DEF UnheardIsLost, Of, Ended
<1>2. CInv /\ UnheardIsLost /\ [Next]_vars => UnheardIsLost'
  BY StepKeeps, ContractMoves DEF CInv, IInv
<1> QED
  BY <1>1, <1>2, ContractInvariant, PTL DEF Spec

(* A job that ended stays as it ended: what the monitor, a cancelled timer *)
(* and the handler's own verdict make of it, the first one counts.         *)
THEOREM VerdictIsFinal == Spec => [][VerdictKept]_vars
<1>1. CInv /\ UnheardIsLost /\ [Next]_vars => [VerdictKept]_vars
  BY StepKeeps, ContractMoves DEF CInv, IInv
<1> QED
  BY <1>1, ContractInvariant, UnheardIsGivenUp, PTL DEF Spec

(* A job that was fetched, or cancelled, is never given a handler again,   *)
(* neither by a restart nor after the monitor has failed it.               *)
THEOREM RunAtMostOnce == Spec => [][NotRunAgain]_vars
<1>1. CInv /\ UnheardIsLost /\ [Next]_vars => [NotRunAgain]_vars
  BY StepKeeps, ContractMoves DEF CInv, IInv
<1> QED
  BY <1>1, ContractInvariant, UnheardIsGivenUp, PTL DEF Spec

-----------------------------------------------------------------------------
(* Nobody is forgotten: of a message that was sent, and that neither its   *)
(* handler nor a notice has dealt with, somebody is still to speak. Its    *)
(* job waits in the queue, or its handler stands before the place where it *)
(* answers, or the process died with it and the monitor will find it       *)
(* active with no handler, or it was given up and its notice is in the     *)
(* dead-letter queue. That each of these comes to have its say is          *)
(* SourceHears, which the run checks; the two cases in which the channel   *)
(* hears nothing all the same are named there.                             *)
Ahead == {"claim", "insert", "lock", "read", "turn", "reply", "oops"}
Forgotten(j) ==
  /\ told[j] = {} /\ job[j] \notin {"absent", "created"} /\ dlq[j] # "lost"
  /\ ~(job[j] = "active" /\ pc[j] \in Ahead \cup {"idle"})

THEOREM NobodyForgotten == Spec => [](\A j \in Of("chat") : ~Forgotten(j))
<1>1. CInv => \A j \in Of("chat") : ~Forgotten(j)
  <2> SUFFICES ASSUME CInv, NEW j \in Of("chat"), told[j] = {} PROVE ~Forgotten(j)
    BY DEF Forgotten
  <2>1. pc[j] \in Positions /\ kind[j] = "chat"
    BY DEF CInv, IInv, TypeOK, Of
  <2>2. pc[j] \notin Closing \cup Loop \cup {"sched", "mark"}
    BY <2>1 DEF CInv, IInv, Answered, KindsApart, Of
  <2>3. pc[j] \in Ahead \cup {"idle"}
    BY <2>1, <2>2 DEF Positions, Closing, Loop, Ahead
  <2> QED BY <2>3 DEF Forgotten, CInv, Attended
<1> QED
  BY <1>1, ContractInvariant, PTL
=============================================================================

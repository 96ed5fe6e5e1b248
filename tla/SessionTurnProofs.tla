-------------------------- MODULE SessionTurnProofs --------------------------
(***************************************************************************)
(* Proofs about SessionTurn, for any number of runs and processes and any  *)
(* number of faults: type correctness, the registry of live streams, that  *)
(* a run that is over leaves nothing behind, that turns never overlap      *)
(* while nothing has failed, that the claim implements SessionLock and     *)
(* what follows from the lock alone, and that a session which is busy is   *)
(* in somebody's hands.                                                    *)
(*                                                                         *)
(* None of the invariants is inductive alone.  Linked adds what ties the   *)
(* sets of runs to their stages (an evicted run no longer renews, a run    *)
(* that renews has a claim to give back); Undisturbed says what a session  *)
(* without faults looks like: one run at most past its claim, and the      *)
(* agent's turn is that run's.                                             *)
(***************************************************************************)
EXTENDS SessionTurn, TLAPS

Linked ==
  /\ RegistryExact
  /\ NothingLeaks
  /\ \A r \in superseded : stage[r] \in Streaming \cup {"closed"} /\ r \notin holding
  /\ \A r \in holding : stage[r] \notin {"free", "calling", "adopting"}
  /\ \A r \in carry : stage[r] \in {"calling", "claimed", "admitted", "dispatched"}

Undisturbed ==
  /\ toRecover = {}
  /\ \A p \in Procs : up[p] = "up"
  /\ \A r \in holding : claim = r
  /\ claim # None => claim \in holding
  /\ \A r \in Runs :
       /\ stage[r] \notin {"broken", "adopting", "attaching", "handedOver"}
       /\ stage[r] \in {"claimed", "admitted", "dispatched", "streaming", "ended"} => claim = r
       /\ stage[r] \in {"dispatched", "streaming"} => writer = r
  /\ turn # "none" => writer # None
  /\ writer # None => stage[writer] \in {"dispatched", "streaming"}

Quiet == trouble = 0 => Undisturbed

IInv == TypeOK /\ Linked /\ Quiet

(* The process that stands for the one a free run is in is a process. *)
LEMMA AnyProcType == AnyProc \in Procs
BY SessionTurnAssumption DEF AnyProc

(* Every step keeps the types. *)
LEMMA TypeStep ==
  ASSUME TypeOK, [Next]_vars
  PROVE  TypeOK'
<1> USE SessionTurnAssumption, AnyProcType DEF Enter, Forget, TakeClaim, GiveBack, RestoreDraft, Trouble, FreeRun,
       claimVars, procVars, agentVars, runVars, TypeOK, Stage
<1>1. CASE UNCHANGED vars
  BY <1>1 DEF vars
<1>2. ASSUME NEW r \in Runs, NEW p \in Procs, Start(r, p) PROVE TypeOK'
  BY <1>2 DEF Start
<1>3. ASSUME NEW r \in Runs, StartDraft(r) PROVE TypeOK'
  BY <1>3 DEF StartDraft
<1>4. ASSUME NEW r \in Runs, RefuseDraft(r) PROVE TypeOK'
  BY <1>4 DEF RefuseDraft, PutBack
<1>5. ASSUME NEW r \in Runs, WorkspaceDown(r) PROVE TypeOK'
  BY <1>5 DEF WorkspaceDown, PutBack
<1>6. ASSUME NEW r \in Runs, Admit(r) PROVE TypeOK'
  BY <1>6 DEF Admit
<1>7. ASSUME NEW r \in Runs, Abort(r) PROVE TypeOK'
  BY <1>7 DEF Abort
<1>8. ASSUME NEW r \in Runs, Dispatch(r) PROVE TypeOK'
  BY <1>8 DEF Dispatch
<1>9. ASSUME NEW r \in Runs, Intercept(r) PROVE TypeOK'
  BY <1>9 DEF Intercept
<1>10. ASSUME NEW r \in Runs, QuestionSeen(r) PROVE TypeOK'
  BY <1>10 DEF QuestionSeen
<1>11. ASSUME NEW r \in Runs, EndSeen(r) PROVE TypeOK'
  BY <1>11 DEF EndSeen
<1>12. ASSUME NEW r \in Runs, Settle(r) PROVE TypeOK'
  BY <1>12 DEF Settle
<1>13. ASSUME NEW r \in Runs, StreamCloses(r) PROVE TypeOK'
  BY <1>13 DEF StreamCloses
<1>14. ASSUME NEW r \in Runs, Reconnect(r) PROVE TypeOK'
  BY <1>14 DEF Reconnect
<1>15. ASSUME NEW r \in Runs, Close(r) PROVE TypeOK'
  BY <1>15 DEF Close, Unregistered
<1>16. ASSUME NEW r \in Runs, FinishSuperseded(r) PROVE TypeOK'
  BY <1>16 DEF FinishSuperseded
<1>17. ASSUME NEW r \in Runs, FinishHandedOver(r) PROVE TypeOK'
  BY <1>17 DEF FinishHandedOver
<1>18. ASSUME NEW r \in Runs, Finish(r) PROVE TypeOK'
  <2> DEFINE drains == reason[r] = "completed" /\ up[at[r]] = "up" /\ draft
  <2>1. draft' \in BOOLEAN
    BY ONLY <1>18, TypeOK DEF Finish, TypeOK
  <2>2. asked' \in BOOLEAN
    BY Zenon, <1>18 DEF Finish
  <2>3. CASE drains
    BY <1>18, <2>1, <2>2, <2>3 DEF Finish
  <2>4. CASE ~drains
    BY <1>18, <2>1, <2>2, <2>4 DEF Finish
  <2> QED
    BY <2>3, <2>4
<1>19. ASSUME NEW r \in Runs, RenewalLost(r) PROVE TypeOK'
  BY <1>19 DEF RenewalLost
<1>20. ASSUME NEW r \in Runs, Adopt(r) PROVE TypeOK'
  BY <1>20 DEF Adopt
<1>21. ASSUME NEW r \in Runs, AbortDispatched(r) PROVE TypeOK'
  BY <1>21 DEF AbortDispatched
<1>22. ASSUME NEW r \in Runs, LoseStream(r) PROVE TypeOK'
  <2>1. asked' \in BOOLEAN
    BY Zenon, <1>22 DEF LoseStream
  <2>2. QED
    BY <1>22, <2>1 DEF LoseStream
<1>23. CASE AgentAsks
  BY <1>23 DEF AgentAsks
<1>24. CASE AgentAnswered
  BY <1>24 DEF AgentAnswered
<1>25. CASE AgentEnds
  BY <1>25 DEF AgentEnds
<1>26. CASE AgentGone
  <2>1. asked' \in BOOLEAN
    BY Zenon, <1>26 DEF AgentGone
  <2>2. draft' \in BOOLEAN
    BY Zenon, <1>26 DEF AgentGone
  <2>3. QED
    BY <1>26, <2>1, <2>2 DEF AgentGone
<1>27. CASE Expire
  BY <1>27 DEF Expire
<1>28. CASE EditDraft
  BY <1>28 DEF EditDraft
<1>29. ASSUME NEW p \in Procs, Boot(p) PROVE TypeOK'
  BY <1>29 DEF Boot
<1>30. ASSUME NEW p \in Procs, Exit(p) PROVE TypeOK'
  BY <1>30 DEF Exit, Gone
<1>31. ASSUME NEW p \in Procs, RecoverSkip(p) PROVE TypeOK'
  BY <1>31 DEF RecoverSkip
<1>32. ASSUME NEW p \in Procs, RecoverForgotten(p) PROVE TypeOK'
  <2>1. draft' \in BOOLEAN /\ asked' \in BOOLEAN
    BY Zenon, <1>32 DEF RecoverForgotten
  <2>2. CASE draft
    BY <1>32, <2>1, <2>2 DEF RecoverForgotten
  <2>3. CASE ~draft
    BY <1>32, <2>1, <2>3 DEF RecoverForgotten
  <2> QED
    BY <2>2, <2>3
<1>33. ASSUME NEW p \in Procs, Crash(p) PROVE TypeOK'
  <2>1. asked' \in BOOLEAN
    BY Zenon, <1>33 DEF Crash, Gone
  <2>2. draft' \in BOOLEAN
    BY Zenon, <1>33 DEF Crash, Gone
  <2>3. trouble' \in 0..MaxTrouble
    BY <1>33 DEF Crash
  <2>4. QED
    BY <1>33, <2>1, <2>2, <2>3 DEF Crash, Gone
<1>34. ASSUME NEW p \in Procs, Sigterm(p) PROVE TypeOK'
  BY <1>34 DEF Sigterm
<1>35. ASSUME NEW p \in Procs, NEW r \in Runs, RecoverTurn(p, r) PROVE TypeOK'
  BY <1>35 DEF RecoverTurn
<1> QED
  BY <1>1, <1>2, <1>3, <1>4, <1>5, <1>6, <1>7, <1>8, <1>9, <1>10, <1>11, <1>12, <1>13, <1>14, <1>15, <1>16, <1>17, <1>18, <1>19, <1>20, <1>21, <1>22, <1>23, <1>24, <1>25, <1>26, <1>27, <1>28, <1>29, <1>30, <1>31, <1>32, <1>33, <1>34, <1>35 DEF Next, RunStep, ProcStep

(* Every step keeps the links between the registry, the claims, the slots  *)
(* and the stages of the runs.                                             *)
LEMMA LinkStep ==
  ASSUME TypeOK, TypeOK', Linked, [Next]_vars
  PROVE  Linked'
<1> USE SessionTurnAssumption DEF Enter, Forget, TakeClaim, GiveBack, FreeRun, claimVars, procVars,
       runVars, TypeOK, Stage, Linked, RegistryExact, NothingLeaks, Streaming
<1>1. CASE UNCHANGED vars
  BY <1>1 DEF vars
<1>2. ASSUME NEW r \in Runs, NEW p \in Procs, Start(r, p) PROVE Linked'
  BY <1>2 DEF Start
<1>3. ASSUME NEW r \in Runs, StartDraft(r) PROVE Linked'
  BY <1>3 DEF StartDraft
<1>4. ASSUME NEW r \in Runs, RefuseDraft(r) PROVE Linked'
  BY <1>4 DEF RefuseDraft, PutBack
<1>5. ASSUME NEW r \in Runs, WorkspaceDown(r) PROVE Linked'
  BY <1>5 DEF WorkspaceDown, PutBack
<1>6. ASSUME NEW r \in Runs, Admit(r) PROVE Linked'
  BY <1>6 DEF Admit
<1>7. ASSUME NEW r \in Runs, Abort(r) PROVE Linked'
  BY <1>7 DEF Abort
<1>8. ASSUME NEW r \in Runs, Dispatch(r) PROVE Linked'
  BY <1>8 DEF Dispatch
<1>9. ASSUME NEW r \in Runs, Intercept(r) PROVE Linked'
  BY <1>9 DEF Intercept
<1>10. ASSUME NEW r \in Runs, QuestionSeen(r) PROVE Linked'
  BY <1>10 DEF QuestionSeen
<1>11. ASSUME NEW r \in Runs, EndSeen(r) PROVE Linked'
  BY <1>11 DEF EndSeen
<1>12. ASSUME NEW r \in Runs, Settle(r) PROVE Linked'
  BY <1>12 DEF Settle
<1>13. ASSUME NEW r \in Runs, StreamCloses(r) PROVE Linked'
  BY <1>13 DEF StreamCloses
<1>14. ASSUME NEW r \in Runs, Reconnect(r) PROVE Linked'
  BY <1>14 DEF Reconnect
<1>15. ASSUME NEW r \in Runs, Close(r) PROVE Linked'
  BY <1>15 DEF Close, Unregistered
<1>16. ASSUME NEW r \in Runs, FinishSuperseded(r) PROVE Linked'
  BY <1>16 DEF FinishSuperseded
<1>17. ASSUME NEW r \in Runs, FinishHandedOver(r) PROVE Linked'
  BY <1>17 DEF FinishHandedOver
<1>18. ASSUME NEW r \in Runs, Finish(r) PROVE Linked'
  BY <1>18 DEF Finish
<1>19. ASSUME NEW r \in Runs, RenewalLost(r) PROVE Linked'
  BY <1>19 DEF RenewalLost
<1>20. ASSUME NEW r \in Runs, Adopt(r) PROVE Linked'
  BY <1>20 DEF Adopt
<1>21. ASSUME NEW r \in Runs, AbortDispatched(r) PROVE Linked'
  BY <1>21 DEF AbortDispatched
<1>22. ASSUME NEW r \in Runs, LoseStream(r) PROVE Linked'
  BY <1>22 DEF LoseStream
<1>23. CASE AgentAsks
  BY <1>23 DEF AgentAsks
<1>24. CASE AgentAnswered
  BY <1>24 DEF AgentAnswered
<1>25. CASE AgentEnds
  BY <1>25 DEF AgentEnds
<1>26. CASE AgentGone
  BY <1>26 DEF AgentGone
<1>27. CASE Expire
  BY <1>27 DEF Expire
<1>28. CASE EditDraft
  BY <1>28 DEF EditDraft
<1>29. ASSUME NEW p \in Procs, Boot(p) PROVE Linked'
  BY <1>29 DEF Boot
<1>30. ASSUME NEW p \in Procs, Exit(p) PROVE Linked'
  BY <1>30 DEF Exit, Gone
<1>31. ASSUME NEW p \in Procs, RecoverSkip(p) PROVE Linked'
  BY <1>31 DEF RecoverSkip
<1>32. ASSUME NEW p \in Procs, RecoverForgotten(p) PROVE Linked'
  BY <1>32 DEF RecoverForgotten
<1>33. ASSUME NEW p \in Procs, Crash(p) PROVE Linked'
  BY <1>33 DEF Crash, Gone
<1>34. ASSUME NEW p \in Procs, Sigterm(p) PROVE Linked'
  BY <1>34 DEF Sigterm
<1>35. ASSUME NEW p \in Procs, NEW r \in Runs, RecoverTurn(p, r) PROVE Linked'
  BY <1>35 DEF RecoverTurn
<1> QED
  BY <1>1, <1>2, <1>3, <1>4, <1>5, <1>6, <1>7, <1>8, <1>9, <1>10, <1>11, <1>12, <1>13, <1>14, <1>15, <1>16, <1>17, <1>18, <1>19, <1>20, <1>21, <1>22, <1>23, <1>24, <1>25, <1>26, <1>27, <1>28, <1>29, <1>30, <1>31, <1>32, <1>33, <1>34, <1>35 DEF Next, RunStep, ProcStep

(* Every step without a fault keeps the session undisturbed. *)
LEMMA QuietStep ==
  ASSUME TypeOK, TypeOK', Linked, Quiet, [Next]_vars
  PROVE  Quiet'
<1> USE SessionTurnAssumption DEF Enter, Forget, TakeClaim, GiveBack, FreeRun, Trouble, Record, TurnLive,
       claimVars, procVars, runVars, agentVars, TypeOK, Stage, Linked, RegistryExact, NothingLeaks,
       Streaming, Quiet, Undisturbed
<1>1. CASE UNCHANGED vars
  BY <1>1 DEF vars
<1>2. ASSUME NEW r \in Runs, NEW p \in Procs, Start(r, p) PROVE Quiet'
  BY <1>2 DEF Start
<1>3. ASSUME NEW r \in Runs, StartDraft(r) PROVE Quiet'
  BY <1>3 DEF StartDraft
<1>4. ASSUME NEW r \in Runs, RefuseDraft(r) PROVE Quiet'
  BY <1>4 DEF RefuseDraft, PutBack
<1>5. ASSUME NEW r \in Runs, WorkspaceDown(r) PROVE Quiet'
  BY <1>5 DEF WorkspaceDown, PutBack
<1>6. ASSUME NEW r \in Runs, Admit(r) PROVE Quiet'
  BY <1>6 DEF Admit
<1>7. ASSUME NEW r \in Runs, Abort(r) PROVE Quiet'
  BY <1>7 DEF Abort
<1>8. ASSUME NEW r \in Runs, Dispatch(r) PROVE Quiet'
  BY <1>8 DEF Dispatch
<1>9. ASSUME NEW r \in Runs, Intercept(r) PROVE Quiet'
  BY <1>9 DEF Intercept
<1>10. ASSUME NEW r \in Runs, QuestionSeen(r) PROVE Quiet'
  BY <1>10 DEF QuestionSeen
<1>11. ASSUME NEW r \in Runs, EndSeen(r) PROVE Quiet'
  BY <1>11 DEF EndSeen
<1>12. ASSUME NEW r \in Runs, Settle(r) PROVE Quiet'
  BY <1>12 DEF Settle
<1>13. ASSUME NEW r \in Runs, StreamCloses(r) PROVE Quiet'
  BY <1>13 DEF StreamCloses
<1>14. ASSUME NEW r \in Runs, Reconnect(r) PROVE Quiet'
  BY <1>14 DEF Reconnect
<1>15. ASSUME NEW r \in Runs, Close(r) PROVE Quiet'
  BY <1>15 DEF Close, Unregistered
<1>16. ASSUME NEW r \in Runs, FinishSuperseded(r) PROVE Quiet'
  BY <1>16 DEF FinishSuperseded
<1>17. ASSUME NEW r \in Runs, FinishHandedOver(r) PROVE Quiet'
  BY <1>17 DEF FinishHandedOver
<1>18. ASSUME NEW r \in Runs, Finish(r) PROVE Quiet'
  BY <1>18 DEF Finish
<1>19. ASSUME NEW r \in Runs, RenewalLost(r) PROVE Quiet'
  BY <1>19 DEF RenewalLost
<1>20. ASSUME NEW r \in Runs, Adopt(r) PROVE Quiet'
  BY <1>20 DEF Adopt
<1>21. ASSUME NEW r \in Runs, AbortDispatched(r) PROVE Quiet'
  BY <1>21 DEF AbortDispatched
<1>22. ASSUME NEW r \in Runs, LoseStream(r) PROVE Quiet'
  BY <1>22 DEF LoseStream
<1>23. CASE AgentAsks
  BY <1>23 DEF AgentAsks
<1>24. CASE AgentAnswered
  BY <1>24 DEF AgentAnswered
<1>25. CASE AgentEnds
  BY <1>25 DEF AgentEnds
<1>26. CASE AgentGone
  BY <1>26 DEF AgentGone
<1>27. CASE Expire
  BY <1>27 DEF Expire
<1>28. CASE EditDraft
  BY <1>28 DEF EditDraft
<1>29. ASSUME NEW p \in Procs, Boot(p) PROVE Quiet'
  BY <1>29 DEF Boot
<1>30. ASSUME NEW p \in Procs, Exit(p) PROVE Quiet'
  BY <1>30 DEF Exit, Gone
<1>31. ASSUME NEW p \in Procs, RecoverSkip(p) PROVE Quiet'
  BY <1>31 DEF RecoverSkip
<1>32. ASSUME NEW p \in Procs, RecoverForgotten(p) PROVE Quiet'
  BY <1>32 DEF RecoverForgotten
<1>33. ASSUME NEW p \in Procs, Crash(p) PROVE Quiet'
  BY <1>33 DEF Crash, Gone
<1>34. ASSUME NEW p \in Procs, Sigterm(p) PROVE Quiet'
  BY <1>34 DEF Sigterm
<1>35. ASSUME NEW p \in Procs, NEW r \in Runs, RecoverTurn(p, r) PROVE Quiet'
  BY SMTT(40), <1>35 DEF RecoverTurn
<1> QED
  BY <1>1, <1>2, <1>3, <1>4, <1>5, <1>6, <1>7, <1>8, <1>9, <1>10, <1>11, <1>12, <1>13, <1>14, <1>15, <1>16, <1>17, <1>18, <1>19, <1>20, <1>21, <1>22, <1>23, <1>24, <1>25, <1>26, <1>27, <1>28, <1>29, <1>30, <1>31, <1>32, <1>33, <1>34, <1>35 DEF Next, RunStep, ProcStep

(* Every step is one of the lock, or none. *)
LEMMA LockStep ==
  ASSUME TypeOK, Linked, [Next]_vars
  PROVE  [Lock!Next]_Lock!lockVars
<1> USE SessionTurnAssumption DEF Enter, Forget, TakeClaim, GiveBack, FreeRun, claimVars, procVars, runVars,
       agentVars, TypeOK, Stage, Linked, RegistryExact, NothingLeaks, Streaming, Lock!Next,
       Lock!Acquire, Lock!Seize, Lock!StartRecovery, Lock!Release, Lock!Die, Lock!Lapse,
       Lock!lockVars
<1>1. CASE UNCHANGED vars
  BY <1>1 DEF vars
<1>2. ASSUME NEW r \in Runs, NEW p \in Procs, Start(r, p) PROVE [Lock!Next]_Lock!lockVars
  BY <1>2 DEF Start
<1>3. ASSUME NEW r \in Runs, StartDraft(r) PROVE [Lock!Next]_Lock!lockVars
  BY <1>3 DEF StartDraft
<1>4. ASSUME NEW r \in Runs, RefuseDraft(r) PROVE [Lock!Next]_Lock!lockVars
  BY <1>4 DEF RefuseDraft, PutBack
<1>5. ASSUME NEW r \in Runs, WorkspaceDown(r) PROVE [Lock!Next]_Lock!lockVars
  BY <1>5 DEF WorkspaceDown, PutBack
<1>6. ASSUME NEW r \in Runs, Admit(r) PROVE [Lock!Next]_Lock!lockVars
  BY <1>6 DEF Admit
<1>7. ASSUME NEW r \in Runs, Abort(r) PROVE [Lock!Next]_Lock!lockVars
  <2>1. {k \in Runs : stage[k] = "adopting"}' = {k \in Runs : stage[k] = "adopting"}
    BY <1>7 DEF Abort
  <2>2. CASE r \in holding
    <3>1. Lock!Release(r)
      BY <1>7, <2>1, <2>2 DEF Abort
    <3>2. QED
      BY <3>1
  <2>3. CASE r \notin holding
    BY <1>7, <2>1, <2>3 DEF Abort
  <2> QED
    BY <2>2, <2>3
<1>8. ASSUME NEW r \in Runs, Dispatch(r) PROVE [Lock!Next]_Lock!lockVars
  BY <1>8 DEF Dispatch
<1>9. ASSUME NEW r \in Runs, Intercept(r) PROVE [Lock!Next]_Lock!lockVars
  <2> DEFINE prev == registry[at[r]]
  <2>1. {k \in Runs : stage[k] = "adopting"}' = {k \in Runs : stage[k] = "adopting"}
    BY <1>9 DEF Intercept
  <2>2. CASE prev # None /\ prev \in holding
    <3>1. prev \in Runs /\ Lock!Release(prev)
      BY <1>9, <2>1, <2>2 DEF Intercept
    <3>2. QED
      BY <3>1
  <2>3. CASE prev = None
    BY <1>9, <2>1, <2>3 DEF Intercept
  <2>4. CASE prev # None /\ prev \notin holding
    <3>1. holding' = holding /\ claim' = claim
      BY <1>9, <2>4 DEF Intercept
    <3>2. QED
      BY <2>1, <3>1
  <2> QED
    BY <2>2, <2>3, <2>4
<1>10. ASSUME NEW r \in Runs, QuestionSeen(r) PROVE [Lock!Next]_Lock!lockVars
  BY <1>10 DEF QuestionSeen
<1>11. ASSUME NEW r \in Runs, EndSeen(r) PROVE [Lock!Next]_Lock!lockVars
  BY <1>11 DEF EndSeen
<1>12. ASSUME NEW r \in Runs, Settle(r) PROVE [Lock!Next]_Lock!lockVars
  BY <1>12 DEF Settle
<1>13. ASSUME NEW r \in Runs, StreamCloses(r) PROVE [Lock!Next]_Lock!lockVars
  BY <1>13 DEF StreamCloses
<1>14. ASSUME NEW r \in Runs, Reconnect(r) PROVE [Lock!Next]_Lock!lockVars
  BY <1>14 DEF Reconnect
<1>15. ASSUME NEW r \in Runs, Close(r) PROVE [Lock!Next]_Lock!lockVars
  BY <1>15 DEF Close, Unregistered
<1>16. ASSUME NEW r \in Runs, FinishSuperseded(r) PROVE [Lock!Next]_Lock!lockVars
  BY <1>16 DEF FinishSuperseded
<1>17. ASSUME NEW r \in Runs, FinishHandedOver(r) PROVE [Lock!Next]_Lock!lockVars
  BY <1>17 DEF FinishHandedOver
<1>18. ASSUME NEW r \in Runs, Finish(r) PROVE [Lock!Next]_Lock!lockVars
  BY <1>18 DEF Finish
<1>19. ASSUME NEW r \in Runs, RenewalLost(r) PROVE [Lock!Next]_Lock!lockVars
  BY <1>19 DEF RenewalLost
<1>20. ASSUME NEW r \in Runs, Adopt(r) PROVE [Lock!Next]_Lock!lockVars
  BY <1>20 DEF Adopt
<1>21. ASSUME NEW r \in Runs, AbortDispatched(r) PROVE [Lock!Next]_Lock!lockVars
  BY <1>21 DEF AbortDispatched
<1>22. ASSUME NEW r \in Runs, LoseStream(r) PROVE [Lock!Next]_Lock!lockVars
  BY <1>22 DEF LoseStream
<1>23. CASE AgentAsks
  BY <1>23 DEF AgentAsks
<1>24. CASE AgentAnswered
  BY <1>24 DEF AgentAnswered
<1>25. CASE AgentEnds
  BY <1>25 DEF AgentEnds
<1>26. CASE AgentGone
  BY <1>26 DEF AgentGone
<1>27. CASE Expire
  BY <1>27 DEF Expire
<1>28. CASE EditDraft
  BY <1>28 DEF EditDraft
<1>29. ASSUME NEW p \in Procs, Boot(p) PROVE [Lock!Next]_Lock!lockVars
  BY <1>29 DEF Boot
<1>30. ASSUME NEW p \in Procs, Exit(p) PROVE [Lock!Next]_Lock!lockVars
  <2> DEFINE R == {k \in Runs : stage[k] # "free" /\ at[k] = p}
  <2>1. {k \in Runs : stage[k] = "adopting"}' = {k \in Runs : stage[k] = "adopting"} \ R
    BY <1>30 DEF Exit, Gone
  <2>2. holding' = holding \ R /\ claim' = claim
    BY <1>30 DEF Exit, Gone
  <2>3. R \in SUBSET Runs /\ Lock!Die(R)
    BY <2>1, <2>2
  <2> QED
    BY <2>3
<1>31. ASSUME NEW p \in Procs, RecoverSkip(p) PROVE [Lock!Next]_Lock!lockVars
  BY <1>31 DEF RecoverSkip
<1>32. ASSUME NEW p \in Procs, RecoverForgotten(p) PROVE [Lock!Next]_Lock!lockVars
  BY <1>32 DEF RecoverForgotten
<1>33. ASSUME NEW p \in Procs, Crash(p) PROVE [Lock!Next]_Lock!lockVars
  <2> DEFINE R == {k \in Runs : stage[k] # "free" /\ at[k] = p}
  <2>1. {k \in Runs : stage[k] = "adopting"}' = {k \in Runs : stage[k] = "adopting"} \ R
    BY <1>33 DEF Crash, Gone
  <2>2. holding' = holding \ R /\ claim' = claim
    BY <1>33 DEF Crash, Gone
  <2>3. R \in SUBSET Runs /\ Lock!Die(R)
    BY <2>1, <2>2
  <2> QED
    BY <2>3
<1>34. ASSUME NEW p \in Procs, Sigterm(p) PROVE [Lock!Next]_Lock!lockVars
  BY <1>34 DEF Sigterm
<1>35. ASSUME NEW p \in Procs, NEW r \in Runs, RecoverTurn(p, r) PROVE [Lock!Next]_Lock!lockVars
  BY <1>35 DEF RecoverTurn
<1> QED
  BY <1>1, <1>2, <1>3, <1>4, <1>5, <1>6, <1>7, <1>8, <1>9, <1>10, <1>11, <1>12, <1>13, <1>14, <1>15, <1>16, <1>17, <1>18, <1>19, <1>20, <1>21, <1>22, <1>23, <1>24, <1>25, <1>26, <1>27, <1>28, <1>29, <1>30, <1>31, <1>32, <1>33, <1>34, <1>35 DEF Next, RunStep, ProcStep

(* What DraftKept says of a step. *)
DraftGoesOn ==
  \/ draft' \/ carry' # {}
  \/ \E r \in carry : stage[r] = "dispatched" /\ stage'[r] = "streaming"
  \/ EditDraft
  \/ \E r \in carry : up'[at[r]] = "down"

(* A run that puts its draft back and is over loses no draft. *)
LEMMA RestoredKept ==
  ASSUME NEW r \in Runs, RestoreDraft(r), Forget({r}), draft \/ carry # {}
  PROVE  draft' \/ carry' # {}
<1>1. CASE draft \/ r \in carry
  <2>1. draft'
    BY <1>1, Zenon DEF RestoreDraft
  <2> QED
    BY <2>1
<1>2. CASE ~draft /\ r \notin carry
  <2>1. carry' = carry \ {r} /\ carry # {}
    BY <1>2, Zenon DEF Forget
  <2> QED
    BY <1>2, <2>1
<1> QED
  BY <1>1, <1>2

(* Every step keeps a draft, but for the exceptions DraftKept names: a run *)
(* that is over carries none (NothingLeaks), so what Forget drops is either*)
(* put back first or dies with its process.                                *)
LEMMA DraftStep ==
  ASSUME TypeOK, Linked, NothingLeaks, [Next]_vars, draft \/ carry # {}
  PROVE  DraftGoesOn
<1> USE SessionTurnAssumption DEF Enter, Forget, claimVars, procVars, runVars, agentVars,
       TypeOK, Stage, DraftGoesOn
<1>1. CASE UNCHANGED vars
  BY <1>1 DEF vars
<1>2. ASSUME NEW r \in Runs, NEW p \in Procs, Start(r, p) PROVE DraftGoesOn
  BY <1>2 DEF Start
<1>3. ASSUME NEW r \in Runs, StartDraft(r) PROVE DraftGoesOn
  BY <1>3 DEF StartDraft
<1>4. ASSUME NEW r \in Runs, RefuseDraft(r) PROVE DraftGoesOn
  <2>1. RestoreDraft(r) /\ Forget({r})
    BY <1>4, Zenon DEF RefuseDraft, PutBack
  <2> QED
    BY <2>1, RestoredKept
<1>5. ASSUME NEW r \in Runs, WorkspaceDown(r) PROVE DraftGoesOn
  <2>1. RestoreDraft(r) /\ Forget({r})
    BY <1>5, Zenon DEF WorkspaceDown, PutBack
  <2> QED
    BY <2>1, RestoredKept
<1>6. ASSUME NEW r \in Runs, Admit(r) PROVE DraftGoesOn
  BY <1>6 DEF Admit
<1>7. ASSUME NEW r \in Runs, Abort(r) PROVE DraftGoesOn
  <2>1. RestoreDraft(r) /\ Forget({r})
    BY <1>7, Zenon DEF Abort
  <2> QED
    BY <2>1, RestoredKept
<1>8. ASSUME NEW r \in Runs, Dispatch(r) PROVE DraftGoesOn
  BY <1>8 DEF Dispatch
<1>9. ASSUME NEW r \in Runs, Intercept(r) PROVE DraftGoesOn
  BY <1>9 DEF Intercept, Linked
<1>10. ASSUME NEW r \in Runs, QuestionSeen(r) PROVE DraftGoesOn
  BY <1>10 DEF QuestionSeen
<1>11. ASSUME NEW r \in Runs, EndSeen(r) PROVE DraftGoesOn
  BY <1>11 DEF EndSeen
<1>12. ASSUME NEW r \in Runs, Settle(r) PROVE DraftGoesOn
  BY <1>12 DEF Settle
<1>13. ASSUME NEW r \in Runs, StreamCloses(r) PROVE DraftGoesOn
  BY <1>13 DEF StreamCloses
<1>14. ASSUME NEW r \in Runs, Reconnect(r) PROVE DraftGoesOn
  BY <1>14 DEF Reconnect
<1>15. ASSUME NEW r \in Runs, Close(r) PROVE DraftGoesOn
  BY <1>15 DEF Close
<1>16. ASSUME NEW r \in Runs, FinishSuperseded(r) PROVE DraftGoesOn
  BY <1>16 DEF FinishSuperseded, Linked
<1>17. ASSUME NEW r \in Runs, FinishHandedOver(r) PROVE DraftGoesOn
  BY <1>17 DEF FinishHandedOver
<1>18. ASSUME NEW r \in Runs, Finish(r) PROVE DraftGoesOn
  BY <1>18 DEF Finish, Linked
<1>19. ASSUME NEW r \in Runs, RenewalLost(r) PROVE DraftGoesOn
  BY <1>19 DEF RenewalLost
<1>20. ASSUME NEW r \in Runs, Adopt(r) PROVE DraftGoesOn
  BY <1>20 DEF Adopt
<1>21. ASSUME NEW r \in Runs, AbortDispatched(r) PROVE DraftGoesOn
  <2>1. RestoreDraft(r) /\ Forget({r})
    BY <1>21, Zenon DEF AbortDispatched
  <2> QED
    BY <2>1, RestoredKept
<1>22. ASSUME NEW r \in Runs, LoseStream(r) PROVE DraftGoesOn
  BY <1>22 DEF LoseStream
<1>23. CASE AgentAsks
  BY <1>23 DEF AgentAsks
<1>24. CASE AgentAnswered
  BY <1>24 DEF AgentAnswered
<1>25. CASE AgentEnds
  BY <1>25 DEF AgentEnds
<1>26. CASE AgentGone
  BY <1>26 DEF AgentGone
<1>27. CASE Expire
  BY <1>27 DEF Expire
<1>28. CASE EditDraft
  BY <1>28
<1>29. ASSUME NEW p \in Procs, Boot(p) PROVE DraftGoesOn
  BY <1>29 DEF Boot
<1>30. ASSUME NEW p \in Procs, Exit(p) PROVE DraftGoesOn
  BY <1>30 DEF Exit, Gone, NothingLeaks
<1>31. ASSUME NEW p \in Procs, RecoverSkip(p) PROVE DraftGoesOn
  BY <1>31 DEF RecoverSkip
<1>32. ASSUME NEW p \in Procs, RecoverForgotten(p) PROVE DraftGoesOn
  BY <1>32 DEF RecoverForgotten
<1>33. ASSUME NEW p \in Procs, NEW r \in Runs, RecoverTurn(p, r) PROVE DraftGoesOn
  BY <1>33 DEF RecoverTurn
<1>34. ASSUME NEW p \in Procs, Crash(p) PROVE DraftGoesOn
  BY <1>34 DEF Crash, Gone, NothingLeaks
<1>35. ASSUME NEW p \in Procs, Sigterm(p) PROVE DraftGoesOn
  BY <1>35 DEF Sigterm
<1> QED
  BY <1>1, <1>2, <1>3, <1>4, <1>5, <1>6, <1>7, <1>8, <1>9, <1>10, <1>11, <1>12, <1>13, <1>14, <1>15, <1>16, <1>17, <1>18, <1>19, <1>20, <1>21, <1>22, <1>23, <1>24, <1>25, <1>26, <1>27, <1>28, <1>29, <1>30, <1>31, <1>32, <1>33, <1>34, <1>35 DEF Next, RunStep, ProcStep

(* The initial states satisfy the invariant. *)
LEMMA InitStep == Init => IInv
<1> SUFFICES ASSUME Init PROVE IInv
  OBVIOUS
<1> USE SessionTurnAssumption, AnyProcType DEF Init
<1>1. TypeOK
  <2>1. trouble \in 0..MaxTrouble
    OBVIOUS
  <2>2. draft \in BOOLEAN /\ asked \in BOOLEAN
    BY Zenon
  <2>3. QED
    BY <2>1, <2>2 DEF TypeOK, Stage
<1>2. Linked
  BY DEF Linked, RegistryExact, NothingLeaks, Streaming
<1>3. Undisturbed
  BY DEF Undisturbed
<1> QED
  BY <1>1, <1>2, <1>3 DEF IInv, Quiet

(* The inductive invariant holds throughout. *)
THEOREM Invariance == Spec => []IInv
<1>1. Init => IInv
  BY InitStep
<1>2. IInv /\ [Next]_vars => IInv'
  BY TypeStep, LinkStep, QuietStep DEF IInv
<1> QED
  BY <1>1, <1>2, PTL DEF Spec

(* Every variable keeps its type. *)
THEOREM TypeCorrect == Spec => []TypeOK
<1>1. IInv => TypeOK
  BY DEF IInv
<1> QED
  BY <1>1, Invariance, PTL

(* activeStreams holds the current stream of a session as long as it is    *)
(* followed, and nothing else (sse.ts, setupActiveStream and the broadcast *)
(* plugin's onEnd).                                                        *)
THEOREM RegistryAlwaysExact == Spec => []RegistryExact
<1>1. IInv => RegistryExact
  BY DEF IInv, Linked
<1> QED
  BY <1>1, Invariance, PTL

(* Whatever way a run ends, it leaves no slot taken, no claim renewed and  *)
(* no draft in hand (executeChat's finally, onReplaced, runTurn's finally).*)
THEOREM NothingEverLeaks == Spec => []NothingLeaks
<1>1. IInv => NothingLeaks
  BY DEF IInv, Linked
<1> QED
  BY <1>1, Invariance, PTL

(* Without a fault the agent is never asked to run a turn in a session     *)
(* whose last turn is still on (session-turn.ts:9-15).                     *)
THEOREM NoOverlap == Spec => TurnsNeverOverlap
<1> DEFINE A == \A r \in Runs :
        (stage[r] = "admitted" /\ stage'[r] = "dispatched" /\ TurnLive) => trouble > 0
<1>1. IInv /\ [Next]_vars => [A]_vars
  <2>1. ASSUME IInv, NEW r \in Runs, stage[r] = "admitted", TurnLive PROVE trouble > 0
    <3>1. trouble \in 0..MaxTrouble /\ (trouble = 0 => Undisturbed)
      BY <2>1 DEF IInv, TypeOK, Quiet
    <3>2. ~Undisturbed
      BY <2>1, SessionTurnAssumption DEF IInv, TypeOK, Undisturbed, TurnLive
    <3> QED
      BY <3>1, <3>2, SessionTurnAssumption
  <2> QED
    BY <2>1
<1> QED
  BY <1>1, Invariance, PTL DEF Spec, TurnsNeverOverlap

(* The claim as stored, renewed, expired, adopted and released implements  *)
(* the lock that SessionLock describes.                                    *)
THEOREM ImplementsLock == Spec => LockSpec
<1>1. Init => Lock!Init
  BY DEF Init, Lock!Init
<1>2. IInv /\ [Next]_vars => [Lock!Next]_Lock!lockVars
  BY LockStep DEF IInv
<1> QED
  BY <1>1, <1>2, Invariance, PTL DEF Spec, LockSpec, Lock!Spec

(* A draft the user queued is in the row or with a run that goes on to a   *)
(* stream, however its dispatch, its drain or a recovery ends, until the   *)
(* process that carries it dies or the user edits it away.                 *)
THEOREM DraftNeverLost == Spec => DraftKept
<1>1. IInv /\ [Next]_vars => ((draft \/ carry # {}) => DraftGoesOn)
  BY DraftStep DEF IInv, Linked
<1>2. IInv /\ [Next]_vars =>
        [(draft \/ carry # {}) =>
           \/ draft' \/ carry' # {}
           \/ \E r \in carry : stage[r] = "dispatched" /\ stage'[r] = "streaming"
           \/ EditDraft
           \/ \E r \in carry : up'[at[r]] = "down"]_vars
  BY <1>1 DEF DraftGoesOn
<1> QED
  BY <1>2, Invariance, PTL DEF Spec, DraftKept

-----------------------------------------------------------------------------
(* What follows from the lock alone *)

(* "The replica running the turn renews it until the turn ends or the      *)
(* process exits" (session-turn.ts:18-19): while a run renews, the session *)
(* goes to another one only through a recovery, and becomes free only by   *)
(* the run's own release, whatever expires or is claimed around it.        *)
OwnerStays ==
  \A r \in Runs : (claim = r /\ r \in holding /\ claim' # r) =>
    \/ \E q \in Runs : stage[q] = "adopting" /\ claim' = q
    \/ claim' = None /\ r \notin holding'

(* A session that has an owner changes hands by a recovery only: a turn    *)
(* that starts anew finds it free first.                                   *)
ChangesHands ==
  \A q \in Runs : (claim' = q /\ claim # q /\ claim # None) => stage[q] = "adopting"

LEMMA LockKeeps ==
  ASSUME [Lock!Next]_Lock!lockVars
  PROVE  OwnerStays /\ ChangesHands
<1>1. CASE UNCHANGED Lock!lockVars
  BY <1>1 DEF Lock!lockVars, OwnerStays, ChangesHands
<1>2. ASSUME NEW r \in Runs, Lock!Acquire(r) PROVE OwnerStays /\ ChangesHands
  BY <1>2, SessionTurnAssumption DEF Lock!Acquire, OwnerStays, ChangesHands
<1>3. ASSUME NEW r \in Runs, Lock!Seize(r) PROVE OwnerStays /\ ChangesHands
  BY <1>3 DEF Lock!Seize, OwnerStays, ChangesHands
<1>4. ASSUME NEW r \in Runs, Lock!Release(r) PROVE OwnerStays /\ ChangesHands
  BY <1>4, SessionTurnAssumption DEF Lock!Release, OwnerStays, ChangesHands
<1>5. ASSUME claim' = claim PROVE OwnerStays /\ ChangesHands
  BY <1>5 DEF OwnerStays, ChangesHands
<1>6. CASE Lock!Lapse
  BY <1>6, SessionTurnAssumption DEF Lock!Lapse, OwnerStays, ChangesHands
<1> QED
  BY <1>1, <1>2, <1>3, <1>4, <1>5, <1>6
  DEF Lock!Next, Lock!StartRecovery, Lock!Die

(* No expiry, claim or end of another run takes the session from a run     *)
(* that renews: only a recovery does, or the run itself.                   *)
THEOREM OwnerKeepsSession == Spec => [][OwnerStays /\ ChangesHands]_vars
<1>1. [Lock!Next]_Lock!lockVars => [OwnerStays /\ ChangesHands]_vars
  BY LockKeeps
<1> QED
  BY <1>1, ImplementsLock, PTL DEF LockSpec, Lock!Spec

-----------------------------------------------------------------------------
(* What keeps a session from looking busy for good *)

(* A run that will take the session out of 'agent': its stream is still to *)
(* end, or to begin, or recovery waits to hear of its dispatch.            *)
Ends(r) ==
  \/ r \notin superseded /\ stage[r] \in {"streaming", "broken"}
  \/ r \notin superseded /\ stage[r] = "stopping" /\ reason[r] = "none"
  \/ stage[r] \in {"dispatched", "adopting", "attaching"}
  \/ r \in recovering /\ stage[r] \in {"calling", "claimed", "admitted"}

(* Otherwise a process that is down lists it when it boots, or one that    *)
(* has listed it and follows nothing there is still to look at it.         *)
Followed ==
  \/ \E r \in Runs : Ends(r)
  \/ \E p \in Procs : up[p] = "down" \/ (p \in toRecover /\ registry[p] = None)

BusyIsFollowed == (chat = "agent" /\ ~WritesFail) => Followed

(* A turn's end is seen once, on its stream; a run lives in a process that *)
(* does.                                                                   *)
Living ==
  /\ \A r \in Runs : stage[r] \notin {"ended", "stopping", "closed", "handedOver"} => reason[r] = "none"
  /\ \A r \in Runs : stage[r] # "free" => up[at[r]] # "down"
  /\ \A p \in toRecover : up[p] # "down"

LEMMA LivingStep ==
  ASSUME TypeOK, TypeOK', Linked, Living, [Next]_vars
  PROVE  Living'
<1> USE SessionTurnAssumption DEF Enter, Forget, TakeClaim, GiveBack, FreeRun, claimVars, procVars,
       runVars, agentVars, TypeOK, Stage, Linked, RegistryExact, NothingLeaks, Streaming, Living
<1>1. CASE UNCHANGED vars
  BY <1>1 DEF vars
<1>2. ASSUME NEW r \in Runs, NEW p \in Procs, Start(r, p) PROVE Living'
  BY <1>2 DEF Start
<1>3. ASSUME NEW r \in Runs, StartDraft(r) PROVE Living'
  BY <1>3 DEF StartDraft
<1>4. ASSUME NEW r \in Runs, RefuseDraft(r) PROVE Living'
  BY <1>4 DEF RefuseDraft, PutBack
<1>5. ASSUME NEW r \in Runs, WorkspaceDown(r) PROVE Living'
  BY <1>5 DEF WorkspaceDown, PutBack
<1>6. ASSUME NEW r \in Runs, Admit(r) PROVE Living'
  BY <1>6 DEF Admit
<1>7. ASSUME NEW r \in Runs, Abort(r) PROVE Living'
  BY <1>7 DEF Abort
<1>8. ASSUME NEW r \in Runs, Dispatch(r) PROVE Living'
  BY <1>8 DEF Dispatch
<1>9. ASSUME NEW r \in Runs, Intercept(r) PROVE Living'
  BY <1>9 DEF Intercept
<1>10. ASSUME NEW r \in Runs, QuestionSeen(r) PROVE Living'
  BY <1>10 DEF QuestionSeen
<1>11. ASSUME NEW r \in Runs, EndSeen(r) PROVE Living'
  BY <1>11 DEF EndSeen
<1>12. ASSUME NEW r \in Runs, Settle(r) PROVE Living'
  BY <1>12 DEF Settle
<1>13. ASSUME NEW r \in Runs, StreamCloses(r) PROVE Living'
  BY <1>13 DEF StreamCloses
<1>14. ASSUME NEW r \in Runs, Reconnect(r) PROVE Living'
  BY SMTT(40), <1>14 DEF Reconnect
<1>15. ASSUME NEW r \in Runs, Close(r) PROVE Living'
  BY <1>15 DEF Close, Unregistered
<1>16. ASSUME NEW r \in Runs, FinishSuperseded(r) PROVE Living'
  BY <1>16 DEF FinishSuperseded
<1>17. ASSUME NEW r \in Runs, FinishHandedOver(r) PROVE Living'
  BY <1>17 DEF FinishHandedOver
<1>18. ASSUME NEW r \in Runs, Finish(r) PROVE Living'
  BY <1>18 DEF Finish
<1>19. ASSUME NEW r \in Runs, RenewalLost(r) PROVE Living'
  BY <1>19 DEF RenewalLost
<1>20. ASSUME NEW r \in Runs, Adopt(r) PROVE Living'
  BY <1>20 DEF Adopt
<1>21. ASSUME NEW r \in Runs, AbortDispatched(r) PROVE Living'
  BY <1>21 DEF AbortDispatched
<1>22. ASSUME NEW r \in Runs, LoseStream(r) PROVE Living'
  BY <1>22 DEF LoseStream
<1>23. CASE AgentAsks
  BY <1>23 DEF AgentAsks
<1>24. CASE AgentAnswered
  BY <1>24 DEF AgentAnswered
<1>25. CASE AgentEnds
  BY <1>25 DEF AgentEnds
<1>26. CASE AgentGone
  BY <1>26 DEF AgentGone
<1>27. CASE Expire
  BY <1>27 DEF Expire
<1>28. CASE EditDraft
  BY <1>28 DEF EditDraft
<1>29. ASSUME NEW p \in Procs, Boot(p) PROVE Living'
  BY <1>29 DEF Boot
<1>30. ASSUME NEW p \in Procs, Exit(p) PROVE Living'
  BY <1>30 DEF Exit, Gone
<1>31. ASSUME NEW p \in Procs, RecoverSkip(p) PROVE Living'
  BY <1>31 DEF RecoverSkip
<1>32. ASSUME NEW p \in Procs, RecoverForgotten(p) PROVE Living'
  BY <1>32 DEF RecoverForgotten
<1>33. ASSUME NEW p \in Procs, Crash(p) PROVE Living'
  BY <1>33 DEF Crash, Gone
<1>34. ASSUME NEW p \in Procs, Sigterm(p) PROVE Living'
  BY <1>34 DEF Sigterm
<1>35. ASSUME NEW p \in Procs, NEW r \in Runs, RecoverTurn(p, r) PROVE Living'
  BY <1>35 DEF RecoverTurn
<1> QED
  BY <1>1, <1>2, <1>3, <1>4, <1>5, <1>6, <1>7, <1>8, <1>9, <1>10, <1>11, <1>12, <1>13, <1>14, <1>15, <1>16, <1>17, <1>18, <1>19, <1>20, <1>21, <1>22, <1>23, <1>24, <1>25, <1>26, <1>27, <1>28, <1>29, <1>30, <1>31, <1>32, <1>33, <1>34, <1>35 DEF Next, RunStep, ProcStep

LEMMA FollowedStep ==
  ASSUME TypeOK, TypeOK', Linked, Living, BusyIsFollowed, [Next]_vars
  PROVE  BusyIsFollowed'
<1> USE SessionTurnAssumption DEF Enter, Forget, TakeClaim, GiveBack, FreeRun, claimVars, procVars,
       runVars, agentVars, TypeOK, Stage, Linked, RegistryExact, NothingLeaks, Streaming, Living,
       BusyIsFollowed, Followed, Ends
<1>1. CASE UNCHANGED vars
  BY <1>1 DEF vars
<1>2. ASSUME NEW r \in Runs, NEW p \in Procs, Start(r, p) PROVE BusyIsFollowed'
  BY <1>2 DEF Start
<1>3. ASSUME NEW r \in Runs, StartDraft(r) PROVE BusyIsFollowed'
  BY <1>3 DEF StartDraft
<1>4. ASSUME NEW r \in Runs, RefuseDraft(r) PROVE BusyIsFollowed'
  BY <1>4 DEF RefuseDraft, PutBack
<1>5. ASSUME NEW r \in Runs, WorkspaceDown(r) PROVE BusyIsFollowed'
  BY <1>5 DEF WorkspaceDown, PutBack
<1>6. ASSUME NEW r \in Runs, Admit(r) PROVE BusyIsFollowed'
  BY <1>6 DEF Admit
<1>7. ASSUME NEW r \in Runs, Abort(r) PROVE BusyIsFollowed'
  BY <1>7 DEF Abort
<1>8. ASSUME NEW r \in Runs, Dispatch(r) PROVE BusyIsFollowed'
  BY <1>8 DEF Dispatch
<1>9. ASSUME NEW r \in Runs, Intercept(r) PROVE BusyIsFollowed'
  BY <1>9 DEF Intercept
<1>10. ASSUME NEW r \in Runs, QuestionSeen(r) PROVE BusyIsFollowed'
  BY <1>10 DEF QuestionSeen
<1>11. ASSUME NEW r \in Runs, EndSeen(r) PROVE BusyIsFollowed'
  BY <1>11 DEF EndSeen
<1>12. ASSUME NEW r \in Runs, Settle(r) PROVE BusyIsFollowed'
  BY <1>12 DEF Settle
<1>13. ASSUME NEW r \in Runs, StreamCloses(r) PROVE BusyIsFollowed'
  BY <1>13 DEF StreamCloses
<1>14. ASSUME NEW r \in Runs, Reconnect(r) PROVE BusyIsFollowed'
  BY <1>14 DEF Reconnect
<1>15. ASSUME NEW r \in Runs, Close(r) PROVE BusyIsFollowed'
  BY <1>15 DEF Close, Unregistered
<1>16. ASSUME NEW r \in Runs, FinishSuperseded(r) PROVE BusyIsFollowed'
  BY <1>16 DEF FinishSuperseded
<1>17. ASSUME NEW r \in Runs, FinishHandedOver(r) PROVE BusyIsFollowed'
  BY <1>17 DEF FinishHandedOver
<1>18. ASSUME NEW r \in Runs, Finish(r) PROVE BusyIsFollowed'
  BY <1>18 DEF Finish
<1>19. ASSUME NEW r \in Runs, RenewalLost(r) PROVE BusyIsFollowed'
  BY <1>19 DEF RenewalLost
<1>20. ASSUME NEW r \in Runs, Adopt(r) PROVE BusyIsFollowed'
  BY <1>20 DEF Adopt
<1>21. ASSUME NEW r \in Runs, AbortDispatched(r) PROVE BusyIsFollowed'
  BY <1>21 DEF AbortDispatched
<1>22. ASSUME NEW r \in Runs, LoseStream(r) PROVE BusyIsFollowed'
  BY <1>22 DEF LoseStream
<1>23. CASE AgentAsks
  BY <1>23 DEF AgentAsks
<1>24. CASE AgentAnswered
  BY <1>24 DEF AgentAnswered
<1>25. CASE AgentEnds
  BY <1>25 DEF AgentEnds
<1>26. CASE AgentGone
  BY <1>26 DEF AgentGone
<1>27. CASE Expire
  BY <1>27 DEF Expire
<1>28. CASE EditDraft
  BY <1>28 DEF EditDraft
<1>29. ASSUME NEW p \in Procs, Boot(p) PROVE BusyIsFollowed'
  BY <1>29 DEF Boot
<1>30. ASSUME NEW p \in Procs, Exit(p) PROVE BusyIsFollowed'
  BY <1>30 DEF Exit, Gone
<1>31. ASSUME NEW p \in Procs, RecoverSkip(p) PROVE BusyIsFollowed'
  BY <1>31 DEF RecoverSkip
<1>32. ASSUME NEW p \in Procs, RecoverForgotten(p) PROVE BusyIsFollowed'
  BY <1>32 DEF RecoverForgotten
<1>33. ASSUME NEW p \in Procs, Crash(p) PROVE BusyIsFollowed'
  BY <1>33 DEF Crash, Gone
<1>34. ASSUME NEW p \in Procs, Sigterm(p) PROVE BusyIsFollowed'
  BY <1>34 DEF Sigterm
<1>35. ASSUME NEW p \in Procs, NEW r \in Runs, RecoverTurn(p, r) PROVE BusyIsFollowed'
  BY <1>35 DEF RecoverTurn
<1> QED
  BY <1>1, <1>2, <1>3, <1>4, <1>5, <1>6, <1>7, <1>8, <1>9, <1>10, <1>11, <1>12, <1>13, <1>14, <1>15, <1>16, <1>17, <1>18, <1>19, <1>20, <1>21, <1>22, <1>23, <1>24, <1>25, <1>26, <1>27, <1>28, <1>29, <1>30, <1>31, <1>32, <1>33, <1>34, <1>35 DEF Next, RunStep, ProcStep

(* A session that reads 'agent' has a run that follows its turn to an end, *)
(* or a process that takes it up when it boots or in its recovery: no end, *)
(* eviction, crash, hand-over or refused draft leaves it to nobody         *)
(* (provided the writes to its row succeed, see AbortDispatched).          *)
THEOREM BusyAlwaysFollowed == Spec => []BusyIsFollowed
<1>1. Init => Living /\ BusyIsFollowed
  BY DEF Init, Living, BusyIsFollowed
<1>2. IInv /\ IInv' /\ Living /\ BusyIsFollowed /\ [Next]_vars => Living' /\ BusyIsFollowed'
  BY LivingStep, FollowedStep DEF IInv
<1> QED
  BY <1>1, <1>2, Invariance, PTL DEF Spec
=============================================================================

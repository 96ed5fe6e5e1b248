------------------------------- MODULE Fleet -------------------------------
(***************************************************************************)
(* The replicas of one auto-scaling workspace under its turns              *)
(* (control-plane/src/services/workspace-autoscaler.ts, replica-router.ts, *)
(* workspace-autostart.ts and the path of a turn in chat/executeChat.ts).  *)
(*                                                                         *)
(* The autoscaler reads the demand off the gate and writes how many        *)
(* replicas it wants; a runner, much later, adds or removes pods; the      *)
(* router polls which of them are ready and gives every turn one.  Before  *)
(* a replica is given up it is marked, so that new turns go elsewhere, and *)
(* looked at for turns that still run on it.  Behaviours begin at a boot   *)
(* of the control plane, with the turns the last process left running:     *)
(* those are followed again, and hold no slot of the gate.  Nor does a     *)
(* turn that the control plane lets go of while its agent goes on.  What   *)
(* call_agent sends to a workspace never asks the gate and is left out.    *)
(***************************************************************************)
EXTENDS TurnGate

CONSTANTS None,
          MinReplicas, \* auto_scaling.min_replicas (max_replicas is MaxReady)
          ScaleToZero, \* scale_to_zero_idle_seconds is set
          Rounds       \* SCALE_DOWN_ROUNDS

ASSUME FleetAssumption ==
  /\ None \notin Nat
  /\ MinReplicas \in 0..MaxReady /\ ScaleToZero \in BOOLEAN
  /\ Rounds \in Nat \ {0}
  /\ MaxReady # 0 /\ MaxPerReplica # 0

VARIABLES row,       \* the placement: phase and count desired, drift of the spec
          pods,      \* the replicas that are up
          scale,     \* the StatefulSet's count
          readyIds,  \* readyReplicas in the router's snapshot
          draining,  \* drainingReplicas
          turn,      \* per turn: its leg, its pod, its session's replica_ordinal
          scaler,    \* the autoscaler's pass: where it stands and what it has read
          lowRounds, idleSince

cpVars == <<readyIds, draining>>
scalerVars == <<scaler, lowRounds, idleSince>>
clusterVars == <<pods, scale>>
fleetVars == <<vars, row, turn, cpVars, scalerVars, clusterVars>>

Ordinals == 0..(MaxReady - 1)
AtRest == [at |-> "rest", count |-> 0, cut |-> {}]
NewTurn == [leg |-> "none", on |-> None, bound |-> None]
LostTurn == [NewTurn EXCEPT !.leg = "lost"]
LeftOn(r) == [leg |-> "live", on |-> r, bound |-> r]

FleetInit ==
  /\ Init
  /\ scale \in 1..MaxReady /\ pods = 0..(scale - 1)
  /\ row = [phase |-> "running", count |-> scale, drift |-> FALSE]
  /\ readyIds = {} /\ draining = {}
  /\ turn \in [Turns -> {NewTurn} \cup {LeftOn(r) : r \in pods}]
  /\ scaler = AtRest /\ lowRounds = 0 /\ idleSince = "none"

Leg(t, l) == turn' = [turn EXCEPT ![t].leg = l]
On(l) == {t \in Turns : turn[t].leg = l}

(* setDesiredReplicas bumps the version of the spec with the count. *)
WithCount(n) == [row EXCEPT !.count = n, !.drift = TRUE]

-----------------------------------------------------------------------------
(* The way of a turn *)

(* executeChat as far as acquireTurn, and the timer of the gate. *)
Arrive(t) ==
  /\ turn[t].leg = "none"
  /\ Acquire(t)
  /\ UNCHANGED <<row, cpVars, turn, scalerVars, clusterVars>>

Refused(t) ==
  /\ Timeout(t)
  /\ UNCHANGED <<row, cpVars, turn, scalerVars, clusterVars>>

(* runEnvProjection's status of the workspace (how it lags is Placement's  *)
(* subject), and ensureWorkspaceRunning: a stopped workspace is started    *)
(* and one that starts is waited for.                                      *)
Known == IF scale = 0 THEN "stopped" ELSE IF pods = {} THEN "starting" ELSE "running"
MStarted == IF row.count = 0 THEN [WithCount(1) EXCEPT !.phase = "running"] ELSE row
Started ==
  LET floored == IF row.count = 0 THEN WithCount(1) ELSE row
  IN  [floored EXCEPT !.phase = "running"]

Wake(t) ==
  /\ status[t] = "held" /\ turn[t].leg = "none" /\ Known # "running"
  /\ row' = IF Known = "stopped" THEN Started ELSE row
  /\ Leg(t, "waking")
  /\ UNCHANGED <<vars, cpVars, scalerVars, clusterVars>>

(* The wait for the agent's /health runs out, or the agent answers the     *)
(* dispatch with an error.                                                 *)
GiveUp(t) ==
  /\ turn[t].leg \in {"waking", "sent", "unnamed"}
  /\ turn' = [turn EXCEPT ![t] = LostTurn]
  /\ UNCHANGED <<vars, row, cpVars, scalerVars, clusterVars>>

(* pickReplicaForTurn, for a session bound to any replica or to none: its  *)
(* own while that is ready and not marked, otherwise the next of the       *)
(* unmarked ones, or of all if all are marked.                             *)
MPool == readyIds
Pool == IF readyIds \subseteq draining THEN readyIds ELSE readyIds \ draining

(* The turn is sent to its pod; with nothing ready in the snapshot, to any *)
(* pod the headless service names.  A pod that is gone does not answer.    *)
Sent(t, l, r) == turn' = [turn EXCEPT ![t].leg = l, ![t].on = r]
Send(t) ==
  /\ status[t] = "held"
  /\ \/ turn[t].leg = "none" /\ Known = "running"
     \/ turn[t].leg = "waking" /\ pods # {}
  /\ IF readyIds # {}
     THEN \E r \in Pool : IF r \in pods THEN Sent(t, "sent", r) ELSE Leg(t, "lost")
     ELSE IF pods # {} THEN \E r \in pods : Sent(t, "unnamed", r) ELSE Leg(t, "lost")
  /\ UNCHANGED <<vars, row, cpVars, scalerVars, clusterVars>>

(* session.started: chat_status is 'agent' and the session is bound to the *)
(* replica that was named.  Where none was, it stays bound as it was; that *)
(* a resumed session reads 'agent' with its old replica a moment earlier   *)
(* is left out.                                                            *)
MRecord(t) ==
  /\ turn[t].leg = "sent" /\ status[t] = "held"
  /\ turn' = [turn EXCEPT ![t].leg = "live", ![t].bound = turn[t].on]
  /\ Release(t)
  /\ UNCHANGED <<row, cpVars, scalerVars, clusterVars>>

Record(t) ==
  /\ turn[t].leg \in {"sent", "unnamed"}
  /\ \E b \in (IF turn[t].leg = "sent" THEN {turn[t].on} ELSE {None} \cup Ordinals) :
        turn' = [turn EXCEPT ![t].leg = "live", ![t].bound = b]
  /\ UNCHANGED <<vars, row, cpVars, scalerVars, clusterVars>>

(* A turn that goes on and is not followed.  Nobody asks on which pod it   *)
(* is, so that is left out; bound is where its session counts as 'agent',  *)
(* None if it does not.                                                    *)
Stray(b) == [NewTurn EXCEPT !.leg = "stray", !.bound = b]

(* The control plane lets go of a turn that its agent goes on with, and    *)
(* the slot is given back: an error after the agent's acceptance leaves    *)
(* executeChat through its finally, or the stream breaks and the one       *)
(* reconnect fails.  The session reads idle from then on, or it is left    *)
(* reading 'agent', with the replica that it had.                          *)
LetGo(t) ==
  /\ turn[t].leg \in {"sent", "unnamed", "live"}
  /\ \E b \in {None} \cup (IF turn[t].leg = "live" THEN {turn[t].bound} ELSE Ordinals) :
        turn' = [turn EXCEPT ![t] = Stray(b)]
  /\ IF status[t] = "held" THEN Release(t) ELSE UNCHANGED vars
  /\ UNCHANGED <<row, cpVars, scalerVars, clusterVars>>

(* The agent of such a turn is done, or gone with its pod.  A session that *)
(* was left reading 'agent' stays so until its next turn, or the           *)
(* projection of a stop, corrects it.                                      *)
Finish(t) ==
  /\ turn[t].leg = "stray"
  /\ turn' = [turn EXCEPT ![t] = NewTurn]
  /\ UNCHANGED <<vars, row, cpVars, scalerVars, clusterVars>>

(* The turn ends, or its loss is noticed; its slot, if it has one, is      *)
(* released.                                                               *)
Ending(t) ==
  /\ turn[t].leg \in {"live", "lost"}
  /\ turn' = [turn EXCEPT ![t] = NewTurn]
  /\ UNCHANGED <<row, cpVars, scalerVars, clusterVars>>

MEnd(t) ==
  /\ Ending(t)
  /\ DrainFrom(active - 1, [status EXCEPT ![t] = "over"])
  /\ UNCHANGED routerVars

End(t) ==
  /\ Ending(t)
  /\ IF status[t] = "held" THEN Release(t) ELSE UNCHANGED vars

-----------------------------------------------------------------------------
(* The router *)

(* refreshReplicaRouter: the replicas the runner has reported; the marks   *)
(* of those that are gone are dropped.  One that finds nothing new changes *)
(* nothing.                                                                *)
MKept == draining
Kept == draining \cap pods

Refresh ==
  /\ readyIds # pods
  /\ RouterRefresh
  /\ readyIds' = pods /\ ready' = Cardinality(pods)
  /\ perReplica' = (IF pods = {} THEN 0 ELSE MaxPerReplica)
  /\ draining' = Kept
  /\ UNCHANGED <<row, turn, scalerVars, clusterVars>>

Continue == DrainAll /\ UNCHANGED <<row, cpVars, turn, scalerVars, clusterVars>>

-----------------------------------------------------------------------------
(* The autoscaler *)

(* desiredReplicas and replicasToRemove. *)
Target ==
  LET need == (TurnDemand + MaxPerReplica - 1) \div MaxPerReplica
      least == IF need < MinReplicas THEN MinReplicas ELSE need
  IN  IF least > MaxReady THEN MaxReady ELSE least
Removing(n) == {r \in readyIds : r >= n}

onlyScaler == <<vars, row, turn, readyIds, clusterVars>>

(* A pass lists the workspaces that should run, with their counts; the     *)
(* clocks of one that should not are dropped.                              *)
Listed == scaler.at = "rest" /\ row.phase = "running"
Forget ==
  /\ scaler.at = "rest" /\ row.phase = "stopped"
  /\ lowRounds' = 0 /\ idleSince' = "none"
  /\ UNCHANGED <<onlyScaler, draining, scaler>>

(* maybeScaleToZero, when the clock has run out. *)
Overdue == TurnDemand = 0 /\ ScaleToZero /\ idleSince = "long"
MIdleNow == IF TurnDemand # 0 THEN "none" ELSE idleSince
IdleNow == IF TurnDemand # 0 THEN "none"
           ELSE IF ScaleToZero /\ idleSince = "none" THEN "since" ELSE idleSince

DecideStop ==
  /\ Listed /\ Overdue
  /\ scaler' = [AtRest EXCEPT !.at = "stop"]
  /\ UNCHANGED <<onlyScaler, draining, lowRounds, idleSince>>

(* The comparison of the target with the count; the low rounds are counted *)
(* up to the last before a removal.                                        *)
MMatched ==
  /\ Target = row.count
  /\ lowRounds' = 0
  /\ UNCHANGED <<draining, scaler>>
Matched ==
  /\ Target = row.count
  /\ lowRounds' = 0 /\ draining' = {}
  /\ UNCHANGED scaler

(* tryScaleDownOne, as far as the look for turns or the write. *)
Removal(n) ==
  /\ draining' = Removing(n)
  /\ scaler' = [at |-> IF draining' = {} THEN "down" ELSE "probe", count |-> n, cut |-> draining']
  /\ UNCHANGED lowRounds
MTakeOff == Removal(Target)
TakeOff == Removal(row.count - 1)

Adjust ==
  \/ /\ Target > row.count
     /\ scaler' = [AtRest EXCEPT !.at = "up", !.count = Target]
     /\ UNCHANGED <<lowRounds, draining>>
  \/ Matched
  \/ /\ Target < row.count /\ lowRounds + 1 < Rounds
     /\ lowRounds' = lowRounds + 1
     /\ UNCHANGED <<draining, scaler>>
  \/ Target < row.count /\ lowRounds + 1 = Rounds /\ TakeOff

DecideSize ==
  /\ Listed /\ ~Overdue
  /\ idleSince' = IdleNow
  /\ Adjust
  /\ UNCHANGED onlyScaler

(* replicasHaveActiveTurn: held back a round if a session reads 'agent'    *)
(* and is bound to one of the marked replicas.                             *)
Probe ==
  /\ scaler.at = "probe"
  /\ scaler' = IF \E t \in Turns : turn[t].leg \in {"live", "stray"} /\ turn[t].bound \in scaler.cut
               THEN AtRest
               ELSE [scaler EXCEPT !.at = "down", !.cut = {}]
  /\ UNCHANGED <<onlyScaler, draining, lowRounds, idleSince>>

(* setDesiredPhase and setDesiredReplicas, and what follows them.  The     *)
(* marks outlive a removal: they go with the replica.                      *)
Decided ==
  /\ scaler.at \in {"stop", "up", "down"}
  /\ row' = IF scaler.at = "stop" THEN [row EXCEPT !.phase = "stopped"] ELSE WithCount(scaler.count)
  /\ draining' = IF scaler.at = "down" THEN draining ELSE {}
  /\ idleSince' = IF scaler.at = "stop" THEN "none" ELSE idleSince
  /\ lowRounds' = 0
  /\ scaler' = AtRest
  /\ UNCHANGED <<vars, turn, readyIds, clusterVars>>

Elapse ==
  /\ idleSince = "since" /\ idleSince' = "long"
  /\ UNCHANGED <<onlyScaler, draining, scaler, lowRounds>>

-----------------------------------------------------------------------------
(* The runner and its cluster, of which EnvRunner has the detail: drift    *)
(* outranks the phase, and a workspace at no replicas that should run is   *)
(* brought to one.  What a pod reports and the turns on it are as good as  *)
(* gone when it is removed.                                                *)
Scaled == IF row.phase = "stopped" THEN 0
          ELSE IF row.drift THEN row.count
          ELSE IF scale = 0 THEN 1 ELSE scale

Lost(kept) == {t \in Turns : turn[t].on # None /\ turn[t].on \notin kept}
RunnerActs ==
  /\ Scaled # scale \/ (row.phase = "running" /\ row.drift)
  /\ scale' = Scaled
  /\ pods' = pods \cap 0..(scale' - 1)
  /\ turn' = [t \in Turns |-> IF t \in Lost(pods') THEN LostTurn ELSE turn[t]]
  /\ row' = [row EXCEPT !.drift = @ /\ row.phase = "stopped"]
  /\ UNCHANGED <<vars, cpVars, scalerVars>>

PodStarts ==
  /\ \E r \in 0..(scale - 1) : r \notin pods /\ pods' = pods \cup {r}
  /\ UNCHANGED <<vars, row, turn, cpVars, scalerVars, scale>>

-----------------------------------------------------------------------------
TurnGoes(t) == Wake(t) \/ GiveUp(t) \/ Send(t) \/ Record(t) \/ End(t) \/ Refused(t)
Strays(t) == LetGo(t) \/ Finish(t)
Pass == Forget \/ DecideStop \/ DecideSize \/ Probe \/ Decided

FleetNext ==
  \/ \E t \in Turns : Arrive(t) \/ TurnGoes(t) \/ Strays(t)
  \/ Refresh \/ Continue \/ Pass \/ Elapse \/ RunnerActs \/ PodStarts

(* Crons fire again, the runner's loop and the cluster go on, and a turn   *)
(* goes on to its end; nobody is obliged to start one, to let go of one or *)
(* to correct what a session reads.                                        *)
FleetFairness ==
  /\ \A t \in Turns : WF_fleetVars(TurnGoes(t))
  /\ WF_fleetVars(Refresh) /\ WF_fleetVars(Continue)
  /\ WF_fleetVars(Pass) /\ WF_fleetVars(Elapse)
  /\ WF_fleetVars(RunnerActs) /\ WF_fleetVars(PodStarts)

FleetSpec == FleetInit /\ [][FleetNext]_fleetVars /\ FleetFairness

-----------------------------------------------------------------------------
(* Properties *)

FleetTypeOK ==
  /\ TypeOK
  /\ row \in [phase : {"running", "stopped"}, count : 0..MaxReady, drift : BOOLEAN]
  /\ scale \in 0..MaxReady /\ pods \subseteq 0..(scale - 1)
  /\ readyIds \subseteq Ordinals /\ draining \subseteq readyIds
  /\ turn \in [Turns -> [leg : {"none", "waking", "sent", "unnamed", "live", "lost", "stray"},
                         on : Ordinals \cup {None}, bound : Ordinals \cup {None}]]
  /\ scaler \in [at : {"rest", "stop", "up", "probe", "down"},
                 count : 0..MaxReady, cut : SUBSET Ordinals]
  /\ lowRounds \in 0..(Rounds - 1) /\ idleSince \in {"none", "since", "long"}

(* The demand that the autoscaler reads off the gate sees every turn that  *)
(* came through it and is still followed: while it is none, a turn on its  *)
(* way or on a pod is one the boot found there or one the control plane    *)
(* has let go of.  A slot given back on any other way before its turn is   *)
(* over would let a stop or a removal take the pod from under it, as if    *)
(* the workspace were idle.                                                *)
IdleIsIdle ==
  TurnDemand = 0 =>
    \A t \in Turns : turn[t].leg \notin {"none", "stray"} => status[t] = "new"

(* The count goes down one replica at a time and not below the floor       *)
(* ("removes one replica at a time", workspace-autoscaler.ts:16), even     *)
(* where wakes come between the reading of the count and the write.        *)
OneAtATime ==
  [][row'.count < row.count => row'.count = row.count - 1 /\ row'.count >= MinReplicas]_fleetVars

(* Whatever replicas come and go under it, the gate is the gate: turns     *)
(* that a boot has found running take and return no slot.                  *)
GateSpec == Spec

(* Marks stay no longer than the low rounds that led to them are counted,  *)
(* or the marked replica is there: a demand that comes back in the middle  *)
(* of a removal gets its capacity back.                                    *)
MarksClear == []<>(draining = {} \/ lowRounds # 0)

(* The count does not stay above what the demand asks for, nor below it:   *)
(* new turns, however many follow each other, do not hold on to a replica  *)
(* that is surplus.  A session that was left reading 'agent' does, for as  *)
(* long as nobody corrects it.                                             *)
Forgotten == \E t \in Turns : turn[t].leg = "stray" /\ turn[t].bound # None
SizeFollows ==
  /\ []<>(row.phase = "running" => Target >= row.count \/ Forgotten)
  /\ []<>(row.phase = "running" => Target <= row.count)

(* Without turns the workspace comes to rest, stopped or, unless such a    *)
(* session holds a replica, at its floor.                                  *)
QuietRests ==
  <>[](TurnDemand = 0 /\ (ScaleToZero \/ ~Forgotten)) =>
    <>[](IF ScaleToZero THEN row.phase = "stopped" /\ pods = {} ELSE row.count = MinReplicas)

(* With turns that keep coming it does not stay down: a stop that crossed  *)
(* with a start is made good by the turns that follow.                     *)
DemandServed == <>[](TurnDemand # 0) => []<>(pods # {})
=============================================================================

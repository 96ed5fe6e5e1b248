----------------------------- MODULE FleetProofs -----------------------------
(***************************************************************************)
(* What holds of Fleet for any number of turns and replicas: it implements *)
(* the gate of TurnGate, with its cap counted in replicas; every variable  *)
(* keeps its type; no demand at the gate means that no turn it let in and  *)
(* still follows is on its way or on a pod (Admitted); and replicas are    *)
(* taken off one at a time, whatever happens between a pass's decision and *)
(* its write (Decision).                                                   *)
(***************************************************************************)
EXTENDS Fleet, TurnGateProofs

(* Every step of the fleet is a step of the gate or leaves it alone.       *)
LEMMA StepMaps == [FleetNext]_fleetVars => [Next]_vars
<1> SUFFICES ASSUME [FleetNext]_fleetVars PROVE [Next]_vars
  OBVIOUS
<1>1. ASSUME NEW t \in Turns, Arrive(t) PROVE [Next]_vars
  BY <1>1 DEF Arrive, Next
<1>2. ASSUME NEW t \in Turns, TurnGoes(t) PROVE [Next]_vars
  <2>1. CASE Wake(t)
    BY <2>1 DEF Wake
  <2>2. CASE GiveUp(t)
    BY <2>2 DEF GiveUp
  <2>3. CASE Send(t)
    BY <2>3 DEF Send
  <2>4. CASE Record(t)
    BY <2>4 DEF Record
  <2>5. CASE End(t)
    BY <2>5 DEF End, Next
  <2>6. CASE Refused(t)
    BY <2>6 DEF Refused, Next
  <2> QED
    BY <1>2, <2>1, <2>2, <2>3, <2>4, <2>5, <2>6 DEF TurnGoes
<1>9. ASSUME NEW t \in Turns, Strays(t) PROVE [Next]_vars
  BY <1>9 DEF Strays, LetGo, Finish, Next
<1>3. CASE Refresh
  BY <1>3 DEF Refresh, Next
<1>4. CASE Continue
  BY <1>4 DEF Continue, Next
<1>5. CASE Pass
  BY <1>5 DEF Pass, Forget, DecideStop, DecideSize, Probe, Decided, onlyScaler
<1>6. CASE Elapse
  BY <1>6 DEF Elapse, onlyScaler
<1>7. CASE RunnerActs \/ PodStarts
  BY <1>7 DEF RunnerActs, PodStarts
<1>8. CASE UNCHANGED fleetVars
  BY <1>8 DEF fleetVars
<1> QED
  BY <1>1, <1>2, <1>3, <1>4, <1>5, <1>6, <1>7, <1>8, <1>9 DEF FleetNext

(* The gate under the replicas that come and go, and under turns that hold *)
(* no slot, is the gate of TurnGate: what is proved there holds here.      *)
THEOREM FleetImplementsGate == FleetSpec => GateSpec
<1>1. FleetInit => Init
  BY DEF FleetInit
<1> QED
  BY <1>1, StepMaps, PTL DEF FleetSpec, GateSpec, Spec

-----------------------------------------------------------------------------
(* The types *)

LEMMA TargetRange == TypeOK => Target \in MinReplicas..MaxReady
<1> SUFFICES ASSUME TypeOK PROVE Target \in MinReplicas..MaxReady
  OBVIOUS
<1> DEFINE need == (TurnDemand + MaxPerReplica - 1) \div MaxPerReplica
<1>1. TurnDemand \in Nat
  BY DEF TypeOK, TurnDemand
<1>2. MaxPerReplica \in Nat \ {0} /\ MaxReady \in Nat /\ MinReplicas \in 0..MaxReady
  BY FleetAssumption, TurnGateAssumption
<1>3. need \in Int
  BY <1>1, <1>2
<1> HIDE DEF need
<1>4. Target = LET least == IF need < MinReplicas THEN MinReplicas ELSE need
               IN  IF least > MaxReady THEN MaxReady ELSE least
  BY DEF Target, need
<1> QED
  BY <1>2, <1>3, <1>4

LEMMA InitTyped == FleetInit => FleetTypeOK
<1> SUFFICES ASSUME FleetInit PROVE FleetTypeOK
  OBVIOUS
<1>1. TypeOK
  BY InitEstablishes DEF FleetInit, IInv
<1>2. MaxReady \in Nat \ {0} /\ scale \in 1..MaxReady /\ pods = 0..(scale - 1)
  BY FleetAssumption, TurnGateAssumption DEF FleetInit
<1>3. pods \subseteq Ordinals /\ row.phase = "running"
  BY <1>2 DEF FleetInit, Ordinals
<1>4. turn \in [Turns -> [leg : {"none", "waking", "sent", "unnamed", "live", "lost", "stray"},
                         on : Ordinals \cup {None}, bound : Ordinals \cup {None}]]
  BY <1>3 DEF FleetInit, NewTurn, LeftOn
<1> QED
  BY <1>1, <1>2, <1>4, FleetAssumption DEF FleetTypeOK, FleetInit, AtRest

(* The typing in parts, by the actions that disturb them.                  *)
Stands == [at : {"rest", "stop", "up", "probe", "down"},
           count : 0..MaxReady, cut : SUBSET Ordinals]
Legs == [leg : {"none", "waking", "sent", "unnamed", "live", "lost", "stray"},
         on : Ordinals \cup {None}, bound : Ordinals \cup {None}]
RowTyped == row \in [phase : {"running", "stopped"}, count : 0..MaxReady, drift : BOOLEAN]
PodsTyped == scale \in 0..MaxReady /\ pods \subseteq 0..(scale - 1)
RouterTyped == readyIds \subseteq Ordinals /\ draining \subseteq readyIds
TurnTyped == turn \in [Turns -> Legs]
ScalerTyped ==
  /\ scaler \in Stands
  /\ lowRounds \in 0..(Rounds - 1) /\ idleSince \in {"none", "since", "long"}

LEMMA TypeParts ==
  FleetTypeOK <=> TypeOK /\ RowTyped /\ PodsTyped /\ RouterTyped /\ TurnTyped /\ ScalerTyped
  BY DEF FleetTypeOK, RowTyped, PodsTyped, RouterTyped, TurnTyped, ScalerTyped, Legs, Stands

LEMMA Constants ==
  /\ MaxReady \in Nat \ {0} /\ MinReplicas \in 0..MaxReady /\ Rounds \in Nat \ {0}
  /\ Ordinals = 0..(MaxReady - 1) /\ None \notin Nat
  BY FleetAssumption, TurnGateAssumption DEF Ordinals

Typed == RowTyped /\ PodsTyped /\ RouterTyped /\ TurnTyped /\ ScalerTyped

LEMMA Unchanged ==
  /\ RowTyped /\ row' = row => RowTyped'
  /\ PodsTyped /\ clusterVars' = clusterVars => PodsTyped'
  /\ RouterTyped /\ cpVars' = cpVars => RouterTyped'
  /\ TurnTyped /\ turn' = turn => TurnTyped'
  /\ ScalerTyped /\ scalerVars' = scalerVars => ScalerTyped'
  BY DEF RowTyped, PodsTyped, RouterTyped, TurnTyped, ScalerTyped, cpVars, scalerVars, clusterVars

LEMMA LegTyped ==
  ASSUME TurnTyped, NEW t \in Turns, NEW e \in Legs,
         turn' = [turn EXCEPT ![t] = e]
  PROVE  TurnTyped'
  BY DEF TurnTyped

LEMMA SendsSomewhere ==
  ASSUME pods \subseteq Ordinals, NEW t \in Turns, Send(t)
  PROVE  \E l \in {"sent", "unnamed", "lost"}, r \in Ordinals \cup {None} :
            turn' = [turn EXCEPT ![t].leg = l, ![t].on = r] \/ turn' = [turn EXCEPT ![t].leg = l]
  BY DEF Send, Sent, Leg

LEMMA TurnKeepsTypes ==
  ASSUME Typed, NEW t \in Turns, TurnGoes(t)
  PROVE  Typed'
<1>1. RowTyped /\ PodsTyped /\ RouterTyped /\ TurnTyped /\ ScalerTyped
  BY DEF Typed
<1>2. turn[t] \in Legs /\ pods \subseteq Ordinals /\ None \in Ordinals \cup {None}
  BY <1>1, Constants DEF TurnTyped, PodsTyped
<1>3. CASE Wake(t)
  <2>1. TurnTyped'
    <3>1. [turn[t] EXCEPT !.leg = "waking"] \in Legs
      BY <1>2 DEF Legs
    <3> QED
      BY <1>1, <1>3, <3>1, LegTyped DEF Wake, Leg
  <2>2. RowTyped'
    <3> DEFINE floored == IF row.count = 0 THEN WithCount(1) ELSE row
    <3>1. WithCount(1) \in [phase : {"running", "stopped"}, count : 0..MaxReady, drift : BOOLEAN]
      <4>1. 1 \in 0..MaxReady
        BY Constants
      <4>2. TRUE \in BOOLEAN
        OBVIOUS
      <4> QED
        BY <1>1, <4>1, <4>2 DEF RowTyped, WithCount
    <3>2. floored \in [phase : {"running", "stopped"}, count : 0..MaxReady, drift : BOOLEAN]
      BY <1>1, <3>1 DEF RowTyped
    <3>3. row' = row \/ row' = [floored EXCEPT !.phase = "running"]
      BY <1>3 DEF Wake, Started
    <3> QED
      BY <1>1, <3>2, <3>3 DEF RowTyped
  <2> QED
    BY <1>1, <1>3, <2>1, <2>2, Unchanged DEF Wake, Typed
<1>4. CASE GiveUp(t)
  <2>1. LostTurn \in Legs
    BY <1>2 DEF LostTurn, NewTurn, Legs
  <2> QED
    BY <1>1, <1>4, <2>1, LegTyped, Unchanged DEF GiveUp, Typed
<1>5. CASE Send(t)
  <2>1. \E l \in {"sent", "unnamed", "lost"}, r \in Ordinals \cup {None} :
           turn' = [turn EXCEPT ![t].leg = l, ![t].on = r] \/ turn' = [turn EXCEPT ![t].leg = l]
    BY <1>2, <1>5, SendsSomewhere
  <2>2. PICK l \in {"sent", "unnamed", "lost"}, r \in Ordinals \cup {None} :
           turn' = [turn EXCEPT ![t].leg = l, ![t].on = r] \/ turn' = [turn EXCEPT ![t].leg = l]
    BY <2>1
  <2>3. [turn[t] EXCEPT !.leg = l, !.on = r] \in Legs /\ [turn[t] EXCEPT !.leg = l] \in Legs
    BY <1>2 DEF Legs
  <2>4. TurnTyped'
    BY <1>1, <2>2, <2>3 DEF TurnTyped
  <2> QED
    BY <1>1, <1>5, <2>4, Unchanged DEF Send, Typed
<1>6. CASE Record(t)
  <2>1. PICK b \in Ordinals \cup {None} : turn' = [turn EXCEPT ![t].leg = "live", ![t].bound = b]
    BY <1>2, <1>6 DEF Record, Legs
  <2>2. [turn[t] EXCEPT !.leg = "live", !.bound = b] \in Legs
    BY <1>2 DEF Legs
  <2> QED
    BY <1>1, <1>6, <2>1, <2>2, Unchanged DEF Record, Typed, TurnTyped
<1>7. CASE End(t)
  <2>1. NewTurn \in Legs
    BY <1>2 DEF NewTurn, Legs
  <2> QED
    BY <1>1, <1>7, <2>1, LegTyped, Unchanged DEF End, Ending, Typed
<1>8. CASE Refused(t)
  BY <1>1, <1>8, Unchanged DEF Refused, Typed
<1> QED
  BY <1>3, <1>4, <1>5, <1>6, <1>7, <1>8 DEF TurnGoes

LEMMA StrayTyped == \A b \in Ordinals \cup {None} : Stray(b) \in Legs
  BY DEF Stray, NewTurn, Legs

LEMMA StrayKeepsTypes ==
  ASSUME Typed, NEW t \in Turns, Strays(t)
  PROVE  Typed'
<1>1. RowTyped /\ PodsTyped /\ RouterTyped /\ TurnTyped /\ ScalerTyped
  BY DEF Typed
<1>2. \E e \in Legs : turn' = [turn EXCEPT ![t] = e]
  <2>1. CASE LetGo(t)
    <3>1. turn[t].bound \in Ordinals \cup {None}
      BY <1>1 DEF TurnTyped, Legs
    <3>2. PICK b \in Ordinals \cup {None} : turn' = [turn EXCEPT ![t] = Stray(b)]
      BY <2>1, <3>1 DEF LetGo
    <3> QED
      BY <3>2, StrayTyped
  <2>2. CASE Finish(t)
    <3>1. NewTurn \in Legs
      BY DEF NewTurn, Legs
    <3> QED
      BY <2>2, <3>1 DEF Finish
  <2> QED
    BY <2>1, <2>2 DEF Strays
<1>3. TurnTyped'
  BY <1>1, <1>2, LegTyped
<1> QED
  BY <1>1, <1>3, Unchanged DEF Strays, LetGo, Finish, Typed

LEMMA PassKeepsTypes ==
  ASSUME Typed, TypeOK, Pass
  PROVE  Typed'
<1>1. RowTyped /\ PodsTyped /\ RouterTyped /\ TurnTyped /\ ScalerTyped
  BY DEF Typed
<1>2. AtRest \in Stands
  BY Constants DEF AtRest, Stands
<1>3. CASE Forget
  BY <1>1, <1>3, Constants, Unchanged DEF Forget, onlyScaler, Typed, ScalerTyped, RouterTyped
<1>4. CASE DecideStop
  <2>1. ScalerTyped'
    BY <1>1, <1>4, <1>2 DEF DecideStop, ScalerTyped, Stands
  <2> QED
    BY <1>1, <1>4, <2>1, Unchanged DEF DecideStop, onlyScaler, Typed, RouterTyped
<1>5. CASE DecideSize
  <2>1. idleSince' \in {"none", "since", "long"}
    BY <1>1, <1>5 DEF DecideSize, IdleNow, ScalerTyped
  <2>2. Target \in 0..MaxReady /\ row.count \in 0..MaxReady /\ lowRounds \in 0..(Rounds - 1)
    BY <1>1, TargetRange, Constants DEF RowTyped, ScalerTyped
  <2>3. lowRounds' \in 0..(Rounds - 1)
    BY <1>5, <2>2, Constants DEF DecideSize, Adjust, Matched, TakeOff, Removal
  <2>4. draining' \subseteq readyIds
    BY <1>1, <1>5 DEF DecideSize, Adjust, Matched, TakeOff, Removal, Removing, RouterTyped
  <2>5. scaler' \in Stands
    <3>1. CASE Target > row.count /\ scaler' = [AtRest EXCEPT !.at = "up", !.count = Target]
      BY <1>2, <2>2, <3>1 DEF AtRest, Stands
    <3>2. CASE UNCHANGED scaler
      BY <1>1, <3>2 DEF ScalerTyped
    <3>3. CASE /\ Target < row.count
               /\ scaler' = [at |-> IF draining' = {} THEN "down" ELSE "probe",
                             count |-> row.count - 1, cut |-> draining']
      <4>1. row.count - 1 \in 0..MaxReady
        BY <2>2, <3>3, Constants
      <4>2. draining' \subseteq Ordinals
        BY <1>1, <2>4 DEF RouterTyped
      <4> QED
        BY <3>3, <4>1, <4>2 DEF Stands
    <3> QED
      BY <1>5, <3>1, <3>2, <3>3 DEF DecideSize, Adjust, Matched, TakeOff, Removal
  <2> QED
    BY <1>1, <1>5, <2>1, <2>3, <2>4, <2>5, Unchanged
    DEF DecideSize, onlyScaler, Typed, RouterTyped, ScalerTyped
<1>6. CASE Probe
  <2>1. ScalerTyped'
    BY <1>1, <1>2, <1>6 DEF Probe, ScalerTyped, Stands
  <2> QED
    BY <1>1, <1>6, <2>1, Unchanged DEF Probe, onlyScaler, Typed, RouterTyped
<1>7. CASE Decided
  <2>1. ScalerTyped'
    BY <1>1, <1>2, <1>7, Constants DEF Decided, ScalerTyped
  <2>2. RowTyped'
    BY <1>1, <1>7 DEF Decided, RowTyped, ScalerTyped, WithCount, Stands
  <2>3. RouterTyped'
    BY <1>1, <1>7 DEF Decided, RouterTyped
  <2> QED
    BY <1>1, <1>7, <2>1, <2>2, <2>3, Unchanged DEF Decided, Typed
<1> QED
  BY <1>3, <1>4, <1>5, <1>6, <1>7 DEF Pass

LEMMA ClusterKeepsTypes ==
  ASSUME Typed, RunnerActs \/ PodStarts \/ Refresh
  PROVE  Typed'
<1>1. RowTyped /\ PodsTyped /\ RouterTyped /\ TurnTyped /\ ScalerTyped
  BY DEF Typed
<1>2. CASE RunnerActs
  <2>1. PodsTyped'
    <3>1. Scaled \in 0..MaxReady
      BY <1>1, Constants DEF Scaled, RowTyped, PodsTyped
    <3> QED
      BY <1>2, <3>1 DEF RunnerActs, PodsTyped
  <2>2. TurnTyped'
    <3>1. LostTurn \in Legs
      BY DEF LostTurn, NewTurn, Legs
    <3> QED
      BY <1>1, <1>2, <3>1 DEF RunnerActs, TurnTyped
  <2>3. RowTyped'
    BY <1>1, <1>2 DEF RunnerActs, RowTyped
  <2> QED
    BY <1>1, <1>2, <2>1, <2>2, <2>3, Unchanged DEF RunnerActs, Typed
<1>3. CASE PodStarts
  <2>1. PodsTyped'
    BY <1>1, <1>3 DEF PodStarts, PodsTyped
  <2> QED
    BY <1>1, <1>3, <2>1, Unchanged DEF PodStarts, Typed
<1>4. CASE Refresh
  <2>1. RouterTyped'
    BY <1>1, <1>4, Constants DEF Refresh, Kept, RouterTyped, PodsTyped
  <2> QED
    BY <1>1, <1>4, <2>1, Unchanged DEF Refresh, Typed
<1> QED
  BY <1>2, <1>3, <1>4

LEMMA StepKeepsTypes == Typed /\ TypeOK /\ [FleetNext]_fleetVars => Typed'
<1> SUFFICES ASSUME Typed, TypeOK, [FleetNext]_fleetVars PROVE Typed'
  OBVIOUS
<1>1. ASSUME NEW t \in Turns, Arrive(t) PROVE Typed'
  BY <1>1, Unchanged DEF Arrive, Typed
<1>2. ASSUME NEW t \in Turns, TurnGoes(t) PROVE Typed'
  BY <1>2, TurnKeepsTypes
<1>8. ASSUME NEW t \in Turns, Strays(t) PROVE Typed'
  BY <1>8, StrayKeepsTypes
<1>3. CASE Continue
  BY <1>3, Unchanged DEF Continue, Typed
<1>4. CASE Pass
  BY <1>4, PassKeepsTypes
<1>5. CASE RunnerActs \/ PodStarts \/ Refresh
  BY <1>5, ClusterKeepsTypes
<1>6. CASE Elapse
  <2>1. ScalerTyped'
    BY <1>6 DEF Elapse, Typed, ScalerTyped
  <2> QED
    BY <1>6, <2>1, Unchanged DEF Elapse, onlyScaler, Typed, cpVars, RouterTyped
<1>7. CASE UNCHANGED fleetVars
  BY <1>7, Unchanged DEF fleetVars, Typed
<1> QED
  BY <1>1, <1>2, <1>3, <1>4, <1>5, <1>6, <1>7, <1>8 DEF FleetNext

(* Whatever the turns, the autoscaler, the runner and the cluster do, in   *)
(* whatever order: counts and ordinals stay within max_replicas, and only  *)
(* replicas that the router knows as ready are marked.                     *)
THEOREM FleetTypeCorrect == FleetSpec => []FleetTypeOK
<1>1. FleetInit => Typed
  BY InitTyped, TypeParts DEF Typed
<1>2. FleetSpec => []TypeOK
  BY FleetImplementsGate, TypeCorrect DEF GateSpec
<1>3. TypeOK /\ Typed => FleetTypeOK
  BY TypeParts DEF Typed
<1> QED
  BY <1>1, <1>2, <1>3, StepKeepsTypes, PTL DEF FleetSpec

-----------------------------------------------------------------------------
(* The gate under the fleet *)

(* What TurnGateProofs shows of the gate holds of the gate in the fleet:   *)
(* its books balance though adopted turns run on beside them, nobody waits *)
(* beside free room, and admission keeps the cap and the order.            *)
THEOREM GateHolds ==
  FleetSpec => []BooksBalance /\ []NoIdleCapacity /\ AdmissionWithinCap /\ FifoAdmission
  BY FleetImplementsGate, BooksAlwaysBalance, WorkConserving, AdmittedWithinCap, AdmittedInOrder
  DEF GateSpec

LEMMA GateInvariance == FleetSpec => []IInv
  BY FleetImplementsGate, Invariance DEF GateSpec

(* What the gate reads is what the router counted: the ready replicas at   *)
(* the full capacity each, or nothing at all.                              *)
Snapshot ==
  /\ ready = Cardinality(readyIds)
  /\ perReplica = (IF readyIds = {} THEN 0 ELSE MaxPerReplica)

LEMMA StepKeepsSnapshot == Snapshot /\ [FleetNext]_fleetVars => Snapshot'
<1> SUFFICES ASSUME Snapshot, [FleetNext]_fleetVars PROVE Snapshot'
  OBVIOUS
<1>1. ASSUME ready' = ready, perReplica' = perReplica, readyIds' = readyIds PROVE Snapshot'
  BY <1>1 DEF Snapshot
<1>2. ASSUME NEW t \in Turns, Arrive(t) PROVE Snapshot'
  BY <1>1, <1>2 DEF Arrive, Acquire, routerVars, cpVars
<1>3. ASSUME NEW t \in Turns, TurnGoes(t) PROVE Snapshot'
  <2>1. CASE Wake(t) \/ GiveUp(t) \/ Send(t) \/ Record(t)
    BY <1>1, <2>1 DEF Wake, GiveUp, Send, Record, vars, cpVars
  <2>2. CASE End(t)
    BY <1>1, <2>2 DEF End, Ending, Release, routerVars, vars, cpVars
  <2>3. CASE Refused(t)
    BY <1>1, <2>3 DEF Refused, Timeout, routerVars, cpVars
  <2> QED
    BY <1>3, <2>1, <2>2, <2>3 DEF TurnGoes
<1>9. ASSUME NEW t \in Turns, Strays(t) PROVE Snapshot'
  BY <1>1, <1>9 DEF Strays, LetGo, Finish, Release, routerVars, vars, cpVars
<1>4. CASE Refresh
  BY <1>4 DEF Refresh, Snapshot
<1>5. CASE Continue
  BY <1>1, <1>5 DEF Continue, DrainAll, cpVars
<1>6. CASE Pass \/ Elapse
  BY <1>1, <1>6 DEF Pass, Forget, DecideStop, DecideSize, Probe, Decided, Elapse, onlyScaler, vars
<1>7. CASE RunnerActs \/ PodStarts
  BY <1>1, <1>7 DEF RunnerActs, PodStarts, vars, cpVars
<1>8. CASE UNCHANGED fleetVars
  BY <1>1, <1>8 DEF fleetVars, vars, cpVars
<1> QED
  BY <1>2, <1>3, <1>4, <1>5, <1>6, <1>7, <1>8, <1>9 DEF FleetNext

LEMMA SnapshotHolds == FleetSpec => []Snapshot
<1>1. FleetInit => Snapshot
  BY FS_EmptySet DEF FleetInit, Init, Snapshot
<1> QED
  BY <1>1, StepKeepsSnapshot, PTL DEF FleetSpec

(* Once the router knows a replica, a slot is handed out only while there  *)
(* are fewer turns in the books than the ready replicas can carry: counted *)
(* in replicas, not in the gate's copy of their number.                    *)
WithinReplicas ==
  [][(\E t \in Turns : status[t] # "held" /\ status'[t] = "held")
       => readyIds = {} \/ active' <= Cardinality(readyIds) * MaxPerReplica]_fleetVars

THEOREM AdmittedWithinReplicas == FleetSpec => WithinReplicas
<1> DEFINE Within ==
      (\E t \in Turns : status[t] # "held" /\ status'[t] = "held")
        => readyIds = {} \/ active' <= Cardinality(readyIds) * MaxPerReplica
<1>1. ASSUME IInv, Snapshot, RouterTyped, [FleetNext]_fleetVars PROVE Within
  <2>1. SUFFICES ASSUME NEW t \in Turns, status[t] # "held", status'[t] = "held", readyIds # {}
                 PROVE  active' <= Cardinality(readyIds) * MaxPerReplica
    OBVIOUS
  <2>2. IsFiniteSet(readyIds)
    <3>1. IsFiniteSet(0..(MaxReady - 1))
      BY Constants, FS_Interval
    <3> QED
      BY <1>1, <3>1, Constants, FS_Subset DEF RouterTyped
  <2>3. ready # 0 /\ perReplica = MaxPerReplica /\ ready = Cardinality(readyIds)
    BY <1>1, <2>1, <2>2, FS_EmptySet DEF Snapshot
  <2>4. Sized
    BY <2>3, FleetAssumption DEF Sized
  <2>5. [Next]_vars
    BY <1>1, StepMaps
  <2>6. Sized => active' <= ready * perReplica
    BY <1>1, <2>1, <2>5, AdmissionStep
  <2> QED
    BY <2>3, <2>4, <2>6
<1>2. IInv /\ Snapshot /\ RouterTyped /\ [FleetNext]_fleetVars => [Within]_fleetVars
  BY <1>1
<1>3. FleetTypeOK => RouterTyped
  BY TypeParts
<1> QED
  BY GateInvariance, SnapshotHolds, FleetTypeCorrect, <1>2, <1>3, PTL DEF FleetSpec, WithinReplicas

-----------------------------------------------------------------------------
(* Idle is idle *)

(* A turn that waits for a slot is nowhere on its way, and one that gave   *)
(* its slot back is not followed; one on its way to a pod holds its slot.  *)
Fits(s, e) ==
  /\ s = "waiting" => e.leg = "none"
  /\ s = "over" => e.leg \in {"none", "stray"}
  /\ e.leg \in {"waking", "sent", "unnamed"} => s = "held"
  /\ e.leg \in {"none", "stray"} => e.on = None
Admitted == \A t \in Turns : Fits(status[t], turn[t])

LEMMA DrainMoves ==
  ASSUME NEW n, NEW st, DrainFrom(n, st), NEW t \in Turns
  PROVE  status'[t] = "held" \/ status'[t] = st[t]
  BY DEF DrainFrom

LEMMA DrainKeepsAdmitted ==
  ASSUME NEW n, NEW st, DrainFrom(n, st), TurnTyped',
         \A t \in Turns : Fits(st[t], turn'[t])
  PROVE  Admitted'
<1> SUFFICES ASSUME NEW t \in Turns PROVE Fits(status'[t], turn'[t])
  BY DEF Admitted
<1>1. status'[t] = "held" \/ status'[t] = st[t]
  BY DrainMoves
<1> QED
  BY <1>1 DEF Fits

LEMMA TurnKeepsAdmitted ==
  ASSUME IInv, PodsTyped, TurnTyped, TurnTyped', Admitted, NEW t \in Turns, Arrive(t) \/ TurnGoes(t)
  PROVE  Admitted'
<1>1. /\ \A u \in Turns : Fits(status[u], turn[u])
      /\ status \in [Turns -> Status] /\ turn \in [Turns -> Legs]
  BY DEF Admitted, IInv, TypeOK, TurnTyped
<1>2. CASE Arrive(t)
  <2>1. turn' = turn /\ turn[t].leg = "none" /\ turn[t].on = None
    BY <1>1, <1>2 DEF Arrive, Fits
  <2>2. \A u \in Turns : u # t => status'[u] = status[u]
    BY <1>1, <1>2 DEF Arrive, Acquire
  <2>3. Fits(status'[t], turn[t])
    BY <2>1 DEF Fits
  <2> QED
    BY <1>1, <2>1, <2>2, <2>3 DEF Admitted
<1>3. CASE Refused(t)
  <2>1. turn' = turn /\ status' = [status EXCEPT ![t] = "over"]
    BY <1>3 DEF Refused, Timeout
  <2>2. status[t] = "waiting"
    BY <1>3 DEF Refused, Timeout, IInv, BooksBalance, QueueIsWaiting
  <2>3. Fits("over", turn[t])
    BY <1>1, <2>2 DEF Fits
  <2> QED
    BY <1>1, <2>1, <2>3 DEF Admitted
<1>4. ASSUME status' = status, NEW e, turn' = [turn EXCEPT ![t] = e], Fits(status[t], e)
      PROVE  Admitted'
  BY <1>1, <1>4 DEF Admitted
<1>5. CASE Wake(t)
  <2> DEFINE e == [turn[t] EXCEPT !.leg = "waking"]
  <2>1. status' = status /\ status[t] = "held" /\ turn' = [turn EXCEPT ![t] = e]
    BY <1>5 DEF Wake, Leg, vars
  <2>2. Fits("held", e)
    BY <1>1 DEF Fits, Legs
  <2> QED
    BY <2>1, <2>2, <1>4
<1>6. CASE GiveUp(t)
  <2>1. status' = status /\ turn' = [turn EXCEPT ![t] = LostTurn] /\ status[t] = "held"
    BY <1>1, <1>6 DEF GiveUp, vars, Fits
  <2>2. Fits("held", LostTurn)
    BY DEF Fits, LostTurn, NewTurn
  <2> QED
    BY <2>1, <2>2, <1>4
<1>7. CASE Send(t)
  <2>1. status' = status /\ status[t] = "held"
    BY <1>7 DEF Send, vars
  <2>2. \E l \in {"sent", "unnamed", "lost"}, r \in Ordinals \cup {None} :
           turn' = [turn EXCEPT ![t].leg = l, ![t].on = r] \/ turn' = [turn EXCEPT ![t].leg = l]
    <3>1. pods \subseteq Ordinals
      BY Constants DEF PodsTyped
    <3> QED
      BY <1>7, <3>1, SendsSomewhere
  <2>3. PICK l \in {"sent", "unnamed", "lost"}, r \in Ordinals \cup {None} :
           turn' = [turn EXCEPT ![t].leg = l, ![t].on = r] \/ turn' = [turn EXCEPT ![t].leg = l]
    BY <2>2
  <2>4. Fits("held", [turn[t] EXCEPT !.leg = l, !.on = r]) /\ Fits("held", [turn[t] EXCEPT !.leg = l])
    BY <1>1 DEF Fits, Legs
  <2>5. CASE turn' = [turn EXCEPT ![t] = [turn[t] EXCEPT !.leg = l, !.on = r]]
    BY <2>1, <2>4, <2>5, <1>4
  <2>6. CASE turn' = [turn EXCEPT ![t] = [turn[t] EXCEPT !.leg = l]]
    BY <2>1, <2>4, <2>6, <1>4
  <2> QED
    BY <1>1, <2>3, <2>5, <2>6
<1>8. CASE Record(t)
  <2>1. status' = status /\ status[t] = "held"
    BY <1>1, <1>8 DEF Record, vars, Fits
  <2>2. PICK b : turn' = [turn EXCEPT ![t].leg = "live", ![t].bound = b]
    BY <1>8 DEF Record
  <2>3. Fits("held", [turn[t] EXCEPT !.leg = "live", !.bound = b])
    BY <1>1 DEF Fits, Legs
  <2> QED
    BY <2>1, <2>2, <2>3, <1>4
<1>9. CASE End(t)
  <2>1. turn' = [turn EXCEPT ![t] = NewTurn]
    BY <1>9 DEF End, Ending
  <2>2. \A s : Fits(s, NewTurn)
    BY DEF Fits, NewTurn
  <2>3. CASE status[t] = "held"
    <3> DEFINE st == [status EXCEPT ![t] = "over"]
    <3>1. DrainFrom(active - 1, st)
      BY <1>9, <2>3 DEF End, Release
    <3>2. \A u \in Turns : Fits(st[u], turn'[u])
      BY <1>1, <2>1, <2>2
    <3> QED
      BY <3>1, <3>2, DrainKeepsAdmitted
  <2>4. CASE status[t] # "held"
    <3>1. status' = status
      BY <1>9, <2>4 DEF End, vars
    <3> QED
      BY <2>1, <2>2, <3>1, <1>4
  <2> QED
    BY <2>3, <2>4
<1> QED
  BY <1>2, <1>3, <1>5, <1>6, <1>7, <1>8, <1>9 DEF TurnGoes

LEMMA StrayKeepsAdmitted ==
  ASSUME IInv, TurnTyped, TurnTyped', Admitted, NEW t \in Turns, Strays(t)
  PROVE  Admitted'
<1>1. /\ \A u \in Turns : Fits(status[u], turn[u])
      /\ status \in [Turns -> Status] /\ turn \in [Turns -> Legs]
  BY DEF Admitted, IInv, TypeOK, TurnTyped
<1>2. CASE LetGo(t)
  <2>1. PICK b : turn' = [turn EXCEPT ![t] = Stray(b)]
    BY <1>2 DEF LetGo
  <2>2. \A s \in {"new", "held", "over"} : Fits(s, Stray(b))
    BY DEF Fits, Stray, NewTurn
  <2>3. CASE status[t] = "held"
    <3> DEFINE st == [status EXCEPT ![t] = "over"]
    <3>1. DrainFrom(active - 1, st)
      BY <1>2, <2>3 DEF LetGo, Release
    <3>2. \A u \in Turns : Fits(st[u], turn'[u])
      BY <1>1, <2>1, <2>2
    <3> QED
      BY <3>1, <3>2, DrainKeepsAdmitted
  <2>4. CASE status[t] # "held"
    <3>1. status' = status
      BY <1>2, <2>4 DEF LetGo, vars
    <3>2. status[t] \in {"new", "over"}
      BY <1>1, <1>2, <2>4 DEF LetGo, Fits, Status
    <3> QED
      BY <1>1, <2>1, <2>2, <3>1, <3>2 DEF Admitted
  <2> QED
    BY <2>3, <2>4
<1>3. CASE Finish(t)
  <2>1. status' = status /\ turn' = [turn EXCEPT ![t] = NewTurn]
    BY <1>3 DEF Finish, vars
  <2>2. Fits(status[t], NewTurn)
    BY DEF Fits, NewTurn
  <2> QED
    BY <1>1, <2>1, <2>2 DEF Admitted
<1> QED
  BY <1>2, <1>3 DEF Strays

LEMMA StepKeepsAdmitted ==
  ASSUME IInv, PodsTyped, TurnTyped, TurnTyped', Admitted, [FleetNext]_fleetVars
  PROVE  Admitted'
<1>1. ASSUME status' = status, turn' = turn PROVE Admitted'
  BY <1>1 DEF Admitted
<1>2. ASSUME NEW t \in Turns, Arrive(t) \/ TurnGoes(t) PROVE Admitted'
  BY <1>2, TurnKeepsAdmitted
<1>9. ASSUME NEW t \in Turns, Strays(t) PROVE Admitted'
  BY <1>9, StrayKeepsAdmitted
<1>3. CASE Refresh
  BY <1>1, <1>3 DEF Refresh, RouterRefresh, gateVars
<1>4. CASE Continue
  <2>1. DrainFrom(active, status) /\ turn' = turn
    BY <1>4 DEF Continue, DrainAll
  <2>2. \A t \in Turns : Fits(status[t], turn'[t])
    BY <2>1 DEF Admitted
  <2> QED
    BY <2>1, <2>2, DrainKeepsAdmitted
<1>5. CASE Pass \/ Elapse
  BY <1>1, <1>5 DEF Pass, Forget, DecideStop, DecideSize, Probe, Decided, Elapse, onlyScaler, vars
<1>6. CASE RunnerActs
  <2>1. status' = status /\ turn' = [t \in Turns |-> IF t \in Lost(pods') THEN LostTurn ELSE turn[t]]
    BY <1>6 DEF RunnerActs, vars
  <2>2. ASSUME NEW t \in Turns PROVE Fits(status'[t], turn'[t])
    <3>1. Fits(status[t], turn[t]) /\ status[t] \in Status
      BY DEF Admitted, IInv, TypeOK
    <3>2. CASE turn[t].on # None
      BY <2>1, <3>1, <3>2 DEF Fits, LostTurn, NewTurn, Status
    <3>3. CASE turn[t].on = None
      BY <2>1, <3>1, <3>3 DEF Lost
    <3> QED
      BY <3>2, <3>3
  <2> QED
    BY <2>2 DEF Admitted
<1>7. CASE PodStarts
  BY <1>1, <1>7 DEF PodStarts, vars
<1>8. CASE UNCHANGED fleetVars
  BY <1>1, <1>8 DEF fleetVars, vars
<1> QED
  BY <1>2, <1>3, <1>4, <1>5, <1>6, <1>7, <1>8, <1>9 DEF FleetNext

LEMMA AlwaysAdmitted == FleetSpec => []Admitted
<1>1. FleetInit => Admitted
  BY DEF FleetInit, Init, Admitted, Fits, NewTurn, LeftOn
<1>2. FleetTypeOK => PodsTyped /\ TurnTyped
  BY TypeParts
<1> QED
  BY <1>1, <1>2, GateInvariance, FleetTypeCorrect, StepKeepsAdmitted, PTL DEF FleetSpec

(* When the gate counts no demand, every turn that is on its way or on a   *)
(* pod is one that the boot found there or one that was let go of: the     *)
(* autoscaler stops nothing for lack of demand that came through the gate  *)
(* and is followed.                                                        *)
THEOREM IdleAlwaysIdle == FleetSpec => []IdleIsIdle
<1>1. ASSUME IInv, Admitted PROVE IdleIsIdle
  <2> SUFFICES ASSUME TurnDemand = 0, NEW t \in Turns, turn[t].leg \notin {"none", "stray"}
               PROVE  status[t] = "new"
    BY DEF IdleIsIdle
  <2>1. active \in Nat /\ queue \in Seq(Turns) /\ status[t] \in Status
    BY <1>1 DEF IInv, TypeOK
  <2>2. active = 0
    <3>1. Len(queue) \in Nat
      BY <2>1, LenProperties
    <3> QED
      BY <2>1, <3>1 DEF TurnDemand
  <2>3. Holding = {}
    <3>1. IsFiniteSet(Holding)
      BY TurnGateAssumption, FS_Subset DEF Holding
    <3> QED
      BY <1>1, <2>2, <3>1, FS_EmptySet DEF IInv, BooksBalance
  <2>4. status[t] # "held"
    BY <2>3 DEF Holding
  <2>5. status[t] \notin {"waiting", "over"}
    BY <1>1 DEF Admitted, Fits
  <2> QED
    BY <2>1, <2>4, <2>5 DEF Status
<1> QED
  BY <1>1, GateInvariance, AlwaysAdmitted, PTL

-----------------------------------------------------------------------------
(* One at a time *)

(* What a pass has decided and not yet written fits the count as it is by  *)
(* now, whatever wakes have come since it was read.                        *)
Decision ==
  /\ scaler.at \in {"probe", "down"} => row.count = scaler.count + 1 /\ scaler.count >= MinReplicas
  /\ scaler.at = "up" => scaler.count >= row.count /\ scaler.count > 0

OneDown == row'.count < row.count => row'.count = row.count - 1 /\ row'.count >= MinReplicas

LEMMA CountStands ==
  ASSUME RowTyped, row'.count = row.count
  PROVE  OneDown /\ (Decision /\ scaler' = scaler => Decision')
  BY DEF OneDown, Decision, RowTyped

LEMMA WakeKeepsDecision ==
  ASSUME RowTyped, ScalerTyped, Decision, NEW t \in Turns, Wake(t)
  PROVE  Decision' /\ OneDown
<1>1. scaler' = scaler /\ row.count \in Nat /\ scaler.count \in Nat /\ MinReplicas \in Nat
  BY Constants DEF Wake, scalerVars, RowTyped, ScalerTyped, Stands
<1>2. row'.count = row.count \/ (row.count = 0 /\ row'.count = 1)
  BY DEF Wake, Started, WithCount, RowTyped
<1>3. CASE row'.count = row.count
  BY <1>1, <1>3, CountStands
<1>4. CASE row.count = 0 /\ row'.count = 1
  BY <1>1, <1>4 DEF Decision, OneDown
<1> QED
  BY <1>2, <1>3, <1>4

LEMMA PassKeepsDecision ==
  ASSUME TypeOK, RowTyped, ScalerTyped, Decision, Pass
  PROVE  Decision' /\ OneDown
<1>1. /\ row.count \in Nat /\ scaler.count \in Nat /\ MinReplicas \in Nat
      /\ Target \in Nat /\ Target >= MinReplicas
  BY TargetRange, Constants DEF RowTyped, ScalerTyped, Stands
<1>2. CASE Forget
  BY <1>2, CountStands DEF Forget, onlyScaler
<1>3. CASE DecideStop
  BY <1>3, CountStands DEF DecideStop, onlyScaler, Decision, AtRest
<1>4. CASE DecideSize
  <2>1. row' = row /\ OneDown
    BY <1>4, CountStands DEF DecideSize, onlyScaler
  <2>2. CASE Target > row.count /\ scaler' = [AtRest EXCEPT !.at = "up", !.count = Target]
    BY <1>1, <2>1, <2>2 DEF Decision, AtRest
  <2>3. CASE scaler' = scaler
    BY <2>1, <2>3, CountStands
  <2>4. CASE Target < row.count /\ TakeOff
    <3>1. scaler'.count = row.count - 1
      BY <2>4 DEF TakeOff, Removal
    <3>2. scaler'.at # "up"
      BY <2>4 DEF TakeOff, Removal
    <3>3. row.count - 1 >= MinReplicas
      BY <1>1, <2>4
    <3> QED
      BY <1>1, <2>1, <3>1, <3>2, <3>3 DEF Decision
  <2> QED
    BY <1>4, <2>2, <2>3, <2>4 DEF DecideSize, Adjust, Matched
<1>5. CASE Probe
  <2>1. row' = row
    BY <1>5 DEF Probe, onlyScaler
  <2>2. scaler' = AtRest \/ scaler' = [scaler EXCEPT !.at = "down", !.cut = {}]
    BY <1>5 DEF Probe
  <2>3. Decision'
    BY <1>5, <2>1, <2>2 DEF Probe, Decision, AtRest, ScalerTyped, Stands
  <2> QED
    BY <2>1, <2>3, CountStands
<1>6. CASE Decided
  <2>1. Decision'
    BY <1>6 DEF Decided, Decision, AtRest
  <2>2. CASE scaler.at = "stop"
    <3>1. row'.count = row.count
      BY <1>6, <2>2 DEF Decided, RowTyped
    <3> QED
      BY <2>1, <3>1, CountStands
  <2>3. CASE scaler.at # "stop"
    <3>1. row'.count = scaler.count
      BY <1>6, <2>3 DEF Decided, WithCount, RowTyped
    <3>2. scaler.at \in {"up", "down"}
      BY <1>6, <2>3 DEF Decided
    <3> QED
      BY <1>1, <2>1, <3>1, <3>2 DEF Decision, OneDown
  <2> QED
    BY <2>2, <2>3
<1> QED
  BY <1>2, <1>3, <1>4, <1>5, <1>6 DEF Pass

LEMMA StepKeepsDecision ==
  ASSUME TypeOK, RowTyped, ScalerTyped, Decision, [FleetNext]_fleetVars
  PROVE  Decision' /\ OneDown
<1>1. ASSUME scaler' = scaler, row'.count = row.count PROVE Decision' /\ OneDown
  BY <1>1, CountStands
<1>2. ASSUME NEW t \in Turns, Arrive(t) PROVE Decision' /\ OneDown
  BY <1>1, <1>2 DEF Arrive, scalerVars
<1>3. ASSUME NEW t \in Turns, TurnGoes(t) PROVE Decision' /\ OneDown
  <2>1. CASE Wake(t)
    BY <2>1, WakeKeepsDecision
  <2>2. CASE GiveUp(t) \/ Send(t) \/ Record(t) \/ End(t) \/ Refused(t)
    BY <1>1, <2>2 DEF GiveUp, Send, Record, End, Ending, Refused, scalerVars
  <2> QED
    BY <1>3, <2>1, <2>2 DEF TurnGoes
<1>9. ASSUME NEW t \in Turns, Strays(t) PROVE Decision' /\ OneDown
  BY <1>1, <1>9 DEF Strays, LetGo, Finish, scalerVars
<1>4. CASE Refresh \/ Continue \/ PodStarts
  BY <1>1, <1>4 DEF Refresh, Continue, PodStarts, scalerVars
<1>5. CASE Pass
  BY <1>5, PassKeepsDecision
<1>6. CASE Elapse
  BY <1>1, <1>6 DEF Elapse, onlyScaler
<1>7. CASE RunnerActs
  <2>1. row'.count = row.count /\ scaler' = scaler
    BY <1>7 DEF RunnerActs, scalerVars, RowTyped
  <2> QED
    BY <1>1, <2>1
<1>8. CASE UNCHANGED fleetVars
  BY <1>1, <1>8 DEF fleetVars, scalerVars
<1> QED
  BY <1>2, <1>3, <1>4, <1>5, <1>6, <1>7, <1>8, <1>9 DEF FleetNext

(* The desired count goes down by one replica at a time and not below the  *)
(* floor of the configuration, for any number of replicas and rounds.      *)
THEOREM OneReplicaAtATime == FleetSpec => OneAtATime
<1>1. FleetInit => Decision
  BY DEF FleetInit, Decision, AtRest
<1>2. FleetTypeOK => TypeOK /\ RowTyped /\ ScalerTyped
  BY TypeParts
<1>3. TypeOK /\ RowTyped /\ ScalerTyped /\ Decision /\ [FleetNext]_fleetVars => Decision'
  BY StepKeepsDecision
<1>4. TypeOK /\ RowTyped /\ ScalerTyped /\ Decision /\ [FleetNext]_fleetVars
        => [row'.count < row.count => row'.count = row.count - 1 /\ row'.count >= MinReplicas]_fleetVars
  BY StepKeepsDecision DEF OneDown
<1> QED
  BY <1>1, <1>2, <1>3, <1>4, FleetTypeCorrect, PTL DEF FleetSpec, OneAtATime
=============================================================================

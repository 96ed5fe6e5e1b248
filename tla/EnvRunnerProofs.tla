-------------------------- MODULE EnvRunnerProofs --------------------------
(***************************************************************************)
(* Proofs about EnvRunner, for any number of requests, replicas, failures  *)
(* and tokens: type correctness, that no version is recorded as observed   *)
(* before the workload was built from it, that a static workspace that is  *)
(* up and settled holds a token the control plane accepts, and that the    *)
(* version that is recorded as applied stands at its count.                *)
(***************************************************************************)
EXTENDS EnvRunner, FiniteSetTheorems, TLAPS

(* What a pass that may apply carries: a version that was the row's when   *)
(* it was listed, and that is not behind what was recorded.  The workload  *)
(* it has applied is built from that version until it is written.          *)
Carries == pass.at = "listed" \/ pass.act = "apply"
VersionsInOrder ==
  /\ Carries => row.applied <= pass.version /\ pass.version <= row.version
  /\ (pass.at = "write" /\ pass.act = "apply") => work.built = pass.version
  /\ ObservedIsBuilt

IInv == TypeOK /\ VersionsInOrder

RequestAt == StartAt \cup {"idle", "revoke", "revokeOnly", "stopped", "rebuild", "resize"}

(* Updates of a request keep it one. *)
LEMMA RequestMoves ==
  ASSUME req \in [Requests -> Request], NEW r \in Requests, NEW p \in RequestAt,
         req' = [req EXCEPT ![r].at = p]
  PROVE  req' \in [Requests -> Request]
BY DEF Request, RequestAt

LEMMA RequestDecides ==
  ASSUME req \in [Requests -> Request], NEW r \in Requests, NEW p \in RequestAt, NEW on \in BOOLEAN,
         req' = [req EXCEPT ![r].at = p, ![r].resuming = on]
  PROVE  req' \in [Requests -> Request]
BY DEF Request, RequestAt

LEMMA RequestReads ==
  ASSUME req \in [Requests -> Request], NEW r \in Requests, NEW p \in RequestAt, NEW n \in 0..MaxReplicas,
         req' = [req EXCEPT ![r].at = p, ![r].replicas = n]
  PROVE  req' \in [Requests -> Request]
BY DEF Request, RequestAt

LEMMA RequestLeaves ==
  ASSUME req \in [Requests -> Request], NEW r \in Requests, Leave(r)
  PROVE  req' \in [Requests -> Request]
BY PlacementAssumption DEF Request, Leave, AtRest, StartAt

(* A step of the control plane keeps IInv if the row's version does not go *)
(* back and what was recorded stays.                                       *)
LEMMA ControlStep ==
  ASSUME IInv, UNCHANGED <<clusterVars, mode, minted>>,
         row' \in Row, row'.version >= row.version, row'.applied = row.applied,
         status' \in Status, live' \subseteq live, req' \in [Requests -> Request],
         left' \in 0..MaxRequests, proj' \in Status \cup {"none"}, missed' \in SUBSET Misses
  PROVE  IInv'
<1>1. row.version \in Nat /\ row.applied \in Nat /\ row'.version \in Nat
  BY DEF IInv, TypeOK, Row
<1>2. pass.version \in Nat
  BY DEF IInv, TypeOK, Pass
<1>3. TypeOK'
  BY <1>1 DEF IInv, TypeOK, clusterVars
<1>4. VersionsInOrder'
  BY <1>1, <1>2 DEF IInv, TypeOK, VersionsInOrder, ObservedIsBuilt, Carries, clusterVars
<1> QED
  BY <1>3, <1>4 DEF IInv

(* What the control plane writes into the row. *)
LEMMA RowTypes ==
  ASSUME TypeOK
  PROVE  /\ row.version \in Nat /\ row.applied \in Nat /\ row.replicas \in 0..MaxReplicas
         /\ row.phase \in Phases /\ row.desired \in {"running", "stopped"}
BY DEF TypeOK, Row

LEMMA Desires ==
  ASSUME TypeOK, NEW d \in {"running", "stopped"}, row' = [row EXCEPT !.desired = d]
  PROVE  row' \in Row /\ row'.version >= row.version /\ row'.applied = row.applied
BY RowTypes DEF TypeOK, Row

LEMMA Bumps ==
  ASSUME TypeOK, NEW n \in 0..MaxReplicas, row' = Bumped(n)
  PROVE  row' \in Row /\ row'.version >= row.version /\ row'.applied = row.applied
<1>1. row.version + 1 \in Nat /\ row.version + 1 >= row.version
  BY RowTypes
<1>2. row' = [[row EXCEPT !.version = row.version + 1] EXCEPT !.replicas = n]
  BY DEF Bumped, TypeOK, Row
<1> QED
  BY <1>1, <1>2 DEF TypeOK, Row

LEMMA RequestStep ==
  ASSUME IInv, NEW r \in Requests,
         RequestStarts(r, Deployed) \/ RequestSteps(r) \/ StartDrift(r, Deployed, StalePass),
         UNCHANGED <<clusterVars, mode>>
  PROVE  IInv'
<1>0. TypeOK BY DEF IInv
<1>a. /\ row \in Row /\ row.version >= row.version /\ status \in Status /\ live \subseteq live
      /\ req \in [Requests -> Request] /\ left \in 0..MaxRequests
      /\ proj \in Status \cup {"none"} /\ missed \in SUBSET Misses
  BY <1>0, RowTypes DEF TypeOK
<1>b. ASSUME Comes(r) PROVE left' \in 0..MaxRequests
  BY <1>a, <1>b, PlacementAssumption DEF Comes
<1>1. CASE Stop(r)
  <2>1. req' \in [Requests -> Request]
    BY <1>1, <1>a, RequestMoves DEF Stop, Arrives, Step, RequestAt
  <2> QED BY <1>0, <1>1, <1>a, <1>b, <2>1, Desires, ControlStep DEF Stop, Arrives
<1>2. CASE Start(r)
  <2>1. req' \in [Requests -> Request]
    BY <1>2, <1>a, RequestDecides DEF Start, RequestAt, StartAt
  <2> QED BY <1>2, <1>a, <1>b, <2>1, ControlStep DEF Start
<1>3. CASE Restart(r) \/ Rebuild(r, Deployed)
  <2>1. PICK p \in {"rebuild", "resize"} : Rereads(r, p)
    BY <1>3 DEF Restart, Rebuild
  <2>2. req' \in [Requests -> Request]
    BY <1>0, <2>1, <1>a, RowTypes, RequestReads DEF Rereads, RequestAt
  <2> QED BY <2>1, <2>2, <1>a, <1>b, ControlStep DEF Rereads
<1>4. CASE StopRevokes(r)
  <2>1. req' \in [Requests -> Request]
    BY <1>4, <1>a, RequestMoves, RequestLeaves DEF StopRevokes, Step, RequestAt
  <2>2. missed' \in SUBSET Misses
    BY <1>4, <1>a DEF StopRevokes, RevokeAll, Notes, Misses
  <2> QED BY <1>4, <1>a, <2>1, <2>2, ControlStep DEF StopRevokes, RevokeAll
<1>5. CASE StopMarks(r)
  BY <1>5, <1>a, RequestLeaves, ControlStep DEF StopMarks, Status
<1>6. CASE StartChecksToken(r)
  <2>1. req' \in [Requests -> Request]
    BY <1>6, <1>a, RequestDecides DEF StartChecksToken, RequestAt, StartAt
  <2> QED BY <1>6, <1>a, <2>1, ControlStep DEF StartChecksToken
<1>7. CASE StartDrift(r, Deployed, StalePass)
  <2>1. req' \in [Requests -> Request]
    BY <1>7, <1>a, RequestMoves DEF StartDrift, Step, Unfloored, RequestAt, StartAt
  <2>2. missed' \in SUBSET Misses
    BY <1>7, <1>a DEF StartDrift, Notes, Misses
  <2> QED BY <1>7, <1>a, <2>1, <2>2, ControlStep DEF StartDrift
<1>8. CASE StartBumps(r)
  <2>1. req' \in [Requests -> Request]
    BY <1>8, <1>a, RequestMoves DEF StartBumps, Step, Unfloored, RequestAt, StartAt
  <2> QED BY <1>0, <1>8, <1>a, <2>1, RowTypes, Bumps, ControlStep DEF StartBumps
<1>9. CASE StartFloors(r)
  <2>1. req' \in [Requests -> Request]
    BY <1>9, <1>a, RequestMoves DEF StartFloors, Step, RequestAt, StartAt
  <2>2. row' \in Row /\ row'.version >= row.version /\ row'.applied = row.applied
    BY <1>0, <1>9, <1>a, Bumps, PlacementAssumption DEF StartFloors
  <2> QED BY <1>9, <1>a, <2>1, <2>2, ControlStep DEF StartFloors
<1>10. CASE StartRuns(r)
  <2>1. req' \in [Requests -> Request]
    BY <1>10, <1>a, RequestMoves DEF StartRuns, Step, RequestAt, StartAt
  <2> QED BY <1>0, <1>10, <1>a, <2>1, Desires, ControlStep DEF StartRuns
<1>11. CASE StartMarks(r)
  BY <1>11, <1>a, RequestLeaves, ControlStep DEF StartMarks, Status
<1>12. CASE RestartBumps(r) \/ RebuildBumps(r)
  <2>1. req' \in [Requests -> Request]
    BY <1>12, <1>a, RequestMoves, RequestLeaves DEF RestartBumps, RebuildBumps, Step, RequestAt, StartAt
  <2>2. req[r].replicas \in 0..MaxReplicas
    BY <1>a DEF Request
  <2>3. left' = left
    BY <1>12 DEF RestartBumps, RebuildBumps
  <2> QED BY <1>0, <1>12, <1>a, <2>1, <2>2, <2>3, Bumps, ControlStep DEF RestartBumps, RebuildBumps
<1> QED
  BY <1>1, <1>2, <1>3, <1>4, <1>5, <1>6, <1>7, <1>8, <1>9, <1>10, <1>11, <1>12 DEF RequestStarts, RequestSteps

(* The rest of the control plane: a change of the count, the sweep, the    *)
(* projection.                                                             *)
LEMMA OtherStep ==
  ASSUME IInv, Rescale \/ SweepTokens \/ Projection, UNCHANGED <<clusterVars, mode>>
  PROVE  IInv'
<1>0. TypeOK BY DEF IInv
<1>a. /\ row \in Row /\ row.version >= row.version /\ status \in Status /\ live \subseteq live
      /\ req \in [Requests -> Request] /\ left \in 0..MaxRequests
      /\ proj \in Status \cup {"none"} /\ missed \in SUBSET Misses
  BY <1>0, RowTypes DEF TypeOK
<1>1. CASE Rescale
  <2>1. left' \in 0..MaxRequests
    BY <1>1, <1>a, PlacementAssumption DEF Rescale
  <2> QED BY <1>0, <1>1, <1>a, <2>1, Bumps, ControlStep DEF Rescale
<1>2. CASE SweepTokens
  BY <1>2, <1>a, ControlStep DEF SweepTokens
<1>3. CASE ProjectLists
  <2>1. Projected(row.phase) \in Status
    BY <1>0, RowTypes DEF Projected, Phases, Status
  <2> QED BY <1>3, <1>a, <2>1, ControlStep DEF ProjectLists
<1>4. CASE ProjectWrites
  BY <1>4, <1>a, ControlStep DEF ProjectWrites
<1> QED
  BY <1>1, <1>2, <1>3, <1>4 DEF Projection

-----------------------------------------------------------------------------
(* The pass and the cluster *)

LEMMA PhaseTypes == Phase \in Phases /\ PhaseOf(work)' \in Phases
BY DEF Phase, PhaseOf, Phases

LEMMA AtEaseTypes == ASSUME TypeOK PROVE AtEase \in Pass(0..minted)
BY PlacementAssumption DEF AtEase, Pass, Phases, TypeOK

(* A step of the pass that neither applies nor writes. *)
LEMMA PassStep ==
  ASSUME IInv, UNCHANGED <<mode, placementVars, work>>, failures' \in 0..MaxFailures[mode],
         pass' \in Pass(0..minted),
         Carries' => row.applied <= pass'.version /\ pass'.version <= row.version,
         ~(pass'.at = "write" /\ pass'.act = "apply")
  PROVE  IInv'
BY DEF IInv, TypeOK, VersionsInOrder, ObservedIsBuilt, Carries, placementVars

LEMMA PassFields ==
  ASSUME TypeOK
  PROVE  /\ pass.version \in Nat /\ pass.token \in 0..minted /\ pass.replicas \in 0..MaxReplicas
         /\ pass.phase \in Phases
         /\ work.exists \in BOOLEAN /\ work.scale \in 0..MaxReplicas /\ work.secret \in 0..minted
         /\ work.pods \in [Ordinals -> 0..minted] /\ work.built \in Nat
BY DEF TypeOK, Pass, Workload

(* A step that leaves only the workload changed. *)
LEMMA WorkStep ==
  ASSUME IInv, UNCHANGED <<mode, placementVars>>, failures' \in 0..MaxFailures[mode],
         pass' \in Pass(0..minted), work' \in Workload(0..minted), work'.built = work.built,
         ~(pass.at = "write" /\ pass.act = "apply") \/ pass' = AtEase \/ pass' = pass,
         Carries' => Carries /\ pass'.version = pass.version,
         (pass'.at = "write" /\ pass'.act = "apply") => pass' = pass
  PROVE  IInv'
BY DEF IInv, TypeOK, VersionsInOrder, ObservedIsBuilt, Carries, placementVars

LEMMA ScaledTypes ==
  ASSUME NEW T, NEW w \in Workload(T), NEW n \in 0..MaxReplicas, 0 \in T
  PROVE  Scaled(w, n) \in Workload(T) /\ Scaled(w, n).built = w.built
<1>1. [o \in Ordinals |-> IF o < n THEN w.pods[o] ELSE 0] \in [Ordinals -> T]
  BY DEF Workload
<1> QED
  BY <1>1 DEF Scaled, Workload

LEMMA RunnerStep ==
  ASSUME IInv, Runner
  PROVE  IInv'
<1>0. TypeOK BY DEF IInv
<1>a. /\ pass \in Pass(0..minted) /\ work \in Workload(0..minted) /\ failures \in 0..MaxFailures[mode]
      /\ minted \in Nat /\ mode' = mode
  BY <1>0 DEF TypeOK, Runner
<1>c. 0 \in 0..minted /\ 0 \in 0..MaxReplicas /\ 1 \in 0..MaxReplicas
  BY <1>a, PlacementAssumption
<1>1. CASE PassLists
  <2>1. /\ pass'.at = "listed" /\ pass'.version = row.version
        /\ pass' \in Pass(0..minted)
    BY <1>0, <1>1, <1>a, RowTypes, AtEaseTypes DEF PassLists, AtEase, Pass
  <2>2. row.applied <= row.version /\ row.version <= row.version
    BY <1>0, RowTypes DEF TypeOK
  <2> QED BY <1>1, <1>a, <2>1, <2>2, PassStep DEF PassLists, onlyPass
<1>2. CASE Observe
  <2>1. CASE ActOn(Phase) = "apply"
    <3>1. pass' = [pass EXCEPT !.at = "mint", !.act = "apply", !.phase = "unknown"]
      BY <1>2, <2>1 DEF Observe
    <3>2. pass' \in Pass(0..minted) /\ pass'.version = pass.version /\ pass'.at = "mint"
      BY <1>a, <3>1 DEF Pass, Phases
    <3> QED BY <1>2, <1>a, <3>2, PassStep DEF Observe, onlyPass, IInv, VersionsInOrder, Carries
  <2>2. CASE ActOn(Phase) # "apply"
    <3>1. /\ pass' \in Pass(0..minted) /\ pass'.at # "listed" /\ pass'.act # "apply"
      BY <1>0, <1>2, <1>a, <2>2, AtEaseTypes, PhaseTypes DEF Observe, ActOn, AtEase, Pass
    <3> QED BY <1>2, <1>a, <3>1, PassStep DEF Observe, onlyPass, Carries
  <2> QED BY <2>1, <2>2
<1>3. CASE Mint
  <2>1. minted' = minted + 1 /\ 0..minted \subseteq 0..minted' /\ minted + 1 \in 0..minted'
    BY <1>3, <1>a DEF Mint
  <2>2. work' \in Workload(0..minted')
    BY <1>3, <1>a, <2>1 DEF Mint, Workload
  <2>3. /\ pass' \in Pass(0..minted') /\ pass'.at = "deliver"
        /\ pass'.version = pass.version /\ pass'.act = pass.act
    BY <1>3, <1>a, <2>1 DEF Mint, Pass
  <2>4. live' \subseteq 1..minted'
    BY <1>0, <1>3, <1>a, <2>1 DEF Mint, TypeOK
  <2>5. TypeOK'
    BY <1>0, <1>3, <1>a, <2>1, <2>2, <2>3, <2>4 DEF Mint, TypeOK
  <2>6. VersionsInOrder'
    BY <1>3, <2>3 DEF Mint, IInv, VersionsInOrder, ObservedIsBuilt, Carries
  <2> QED BY <2>5, <2>6 DEF IInv
<1>4. CASE Deliver
  <2>1. /\ pass' \in Pass(0..minted) /\ pass'.at = "act"
        /\ pass'.version = pass.version /\ pass'.act = pass.act
    <3>1. pass' = [pass EXCEPT !.at = "act", !.token = 0]
      BY <1>4 DEF Deliver
    <3> QED BY <3>1, <1>a, <1>c DEF Pass
  <2>2. work' \in Workload(0..minted) /\ work'.built = work.built
    BY <1>0, <1>4, <1>a, PassFields DEF Deliver, Workload
  <2>3. pass.at = "deliver"
    BY <1>4 DEF Deliver
  <2> QED BY <1>4, <1>a, <2>1, <2>2, <2>3, WorkStep DEF Deliver, Carries
<1>5. CASE Apply
  <2>1. PICK pods \in [Ordinals -> 0..minted] : work' = Built(pods)
    <3>1. NoPods \in [Ordinals -> 0..minted]
      BY <1>c DEF NoPods
    <3> QED BY <1>5, <1>0, <3>1, PassFields DEF Apply
  <2>2. work' \in Workload(0..minted) /\ work'.built = pass.version
    <3> DEFINE new == [work EXCEPT !.exists = TRUE, !.built = pass.version, !.pods = pods]
    <3>1. new \in Workload(0..minted) /\ new.built = pass.version
      BY <1>0, <1>a, <2>1, PassFields DEF Workload
    <3>2. (IF mode = "static" THEN 1 ELSE pass.replicas) \in 0..MaxReplicas
      BY <1>0, <1>c, PassFields
    <3> HIDE DEF new
    <3>3. work' = Scaled(new, IF mode = "static" THEN 1 ELSE pass.replicas)
      BY <2>1 DEF Built, new
    <3> QED BY ZenonT(60), <1>c, <3>1, <3>2, <3>3, ScaledTypes
  <2>3. /\ pass' \in Pass(0..minted) /\ pass'.at = "write" /\ pass'.act = "apply"
        /\ pass'.version = pass.version /\ pass.act = "apply"
    <3>1. /\ pass' = [pass EXCEPT !.at = "write", !.replicas = 0, !.phase = PhaseOf(work')]
          /\ pass.act = "apply"
      BY <1>5 DEF Apply, Looks
    <3>2. PhaseOf(work') \in Phases
      BY DEF PhaseOf, Phases
    <3> QED BY <3>1, <3>2, <1>a, <1>c DEF Pass
  <2>4. TypeOK'
    BY <1>0, <1>5, <1>a, <2>2, <2>3 DEF Apply, TypeOK, placementVars
  <2>5. VersionsInOrder'
    BY <1>5, <2>2, <2>3 DEF Apply, IInv, VersionsInOrder, ObservedIsBuilt, Carries, placementVars
  <2> QED BY <2>4, <2>5 DEF IInv
<1>6. CASE Scale
  <2>1. work' \in Workload(0..minted) /\ work'.built = work.built
    <3>1. (IF pass.act = "start" THEN 1 ELSE 0) \in 0..MaxReplicas
      BY <1>c
    <3> QED BY <1>6, <1>a, <1>c, <3>1, ScaledTypes DEF Scale
  <2>2. /\ pass' \in Pass(0..minted) /\ pass'.at = "write" /\ pass'.act = pass.act
        /\ pass.act # "apply"
    <3>1. /\ pass' = [pass EXCEPT !.at = "write", !.replicas = 0, !.phase = PhaseOf(work')]
          /\ pass.act \in {"start", "stop"}
      BY <1>6 DEF Scale, Looks
    <3>2. PhaseOf(work') \in Phases
      BY DEF PhaseOf, Phases
    <3> QED BY <3>1, <3>2, <1>a, <1>c DEF Pass
  <2> QED BY <1>6, <1>a, <2>1, <2>2, WorkStep DEF Scale, Carries
<1>7. CASE Write
  <2>1. /\ pass.at = "write" /\ pass' = AtEase
        /\ row'.version = row.version
        /\ row'.applied = IF pass.act = "apply" THEN pass.version ELSE row.applied
    BY <1>0, <1>7 DEF Write, TypeOK, Row
  <2>2. row' \in Row
    BY <1>0, <1>7, PassFields DEF Write, TypeOK, Row
  <2>3. row'.applied <= row'.version /\ row'.applied <= work.built
    BY <1>0, <2>1, PassFields, RowTypes DEF IInv, TypeOK, VersionsInOrder, ObservedIsBuilt, Carries
  <2>4. TypeOK'
    BY <1>0, <1>7, <1>a, <2>1, <2>2, <2>3, AtEaseTypes DEF Write, TypeOK
  <2>5. VersionsInOrder'
    BY <1>7, <2>1, <2>3 DEF Write, VersionsInOrder, ObservedIsBuilt, Carries, AtEase
  <2> QED BY <2>4, <2>5 DEF IInv
<1> QED
  BY <1>1, <1>2, <1>3, <1>4, <1>5, <1>6, <1>7 DEF Runner

LEMMA ClusterStep ==
  ASSUME IInv, WatchWrites \/ PassFails \/ (\E o \in Ordinals : PodStarts(o) \/ PodDies(o)), mode' = mode
  PROVE  IInv'
<1>0. TypeOK BY DEF IInv
<1>a. pass \in Pass(0..minted) /\ work \in Workload(0..minted) /\ failures \in 0..MaxFailures[mode]
  BY <1>0 DEF TypeOK
<1>b. MaxFailures[mode] \in Nat
  BY <1>0, RunnerAssumption DEF TypeOK
<1>c. 0 \in 0..minted /\ 0 \in 0..MaxReplicas
  BY <1>0, PlacementAssumption DEF TypeOK
<1>1. CASE WatchWrites
  <2>1. row' \in Row /\ row'.version = row.version /\ row'.applied = row.applied
    BY <1>0, <1>1, PhaseTypes DEF WatchWrites, TypeOK, Row
  <2>2. /\ status \in Status /\ req \in [Requests -> Request] /\ left \in 0..MaxRequests
        /\ proj \in Status \cup {"none"} /\ missed \in SUBSET Misses /\ row'.version >= row.version
    BY <1>0, <2>1, RowTypes DEF TypeOK
  <2> QED BY <1>1, <2>1, <2>2, ControlStep DEF WatchWrites, clusterVars
<1>2. CASE PassFails
  <2>1. failures' \in 0..MaxFailures[mode] /\ pass' = AtEase
    BY <1>2, <1>a, <1>b DEF PassFails
  <2>2. work' \in Workload(0..minted) /\ work'.built = work.built
    <3>1. NoPods \in [Ordinals -> 0..minted]
      BY <1>c DEF NoPods
    <3>2. CASE UNCHANGED work
      BY <3>2, <1>a
    <3>3. CASE work' = [work EXCEPT !.exists = FALSE, !.scale = 0, !.pods = NoPods]
      BY <3>1, <3>3, <1>a, <1>c DEF Workload
    <3> QED BY <1>2, <3>2, <3>3 DEF PassFails
  <2> QED BY <1>0, <1>2, <2>1, <2>2, AtEaseTypes, WorkStep DEF PassFails, Carries, AtEase
<1>3. ASSUME NEW o \in Ordinals, PodStarts(o) PROVE IInv'
  <2>1. work' \in Workload(0..minted) /\ work'.built = work.built
    BY <1>0, <1>3, <1>a, PassFields DEF PodStarts, Workload
  <2>2. UNCHANGED <<placementVars, pass, failures>>
    BY <1>3 DEF PodStarts
  <2> QED BY <1>a, <2>1, <2>2, WorkStep DEF Carries
<1>4. ASSUME NEW o \in Ordinals, PodDies(o) PROVE IInv'
  <2>1. work' \in Workload(0..minted) /\ work'.built = work.built
    <3>1. work' = [work EXCEPT !.pods[o] = 0]
      BY <1>4 DEF PodDies
    <3> QED BY <3>1, <1>a, <1>c DEF Workload
  <2>2. failures' \in 0..MaxFailures[mode]
    BY <1>4, <1>a, <1>b DEF PodDies
  <2>3. UNCHANGED <<placementVars, pass>>
    BY <1>4 DEF PodDies
  <2> QED BY <1>a, <2>1, <2>2, <2>3, WorkStep DEF Carries
<1> QED
  BY <1>1, <1>2, <1>3, <1>4

-----------------------------------------------------------------------------
LEMMA Initially == Init => IInv
<1> SUFFICES ASSUME Init PROVE IInv
  OBVIOUS
<1>1. TypeOK
  <2>1. /\ row \in Row /\ row.applied <= row.version
    BY PlacementAssumption DEF Init, Row, Phases
  <2>2. req \in [Requests -> Request]
    BY PlacementAssumption DEF Init, Request, AtRest
  <2>3. minted = 0 /\ 0 \in 0..minted /\ 0 \in 0..MaxReplicas
    BY PlacementAssumption DEF Init
  <2>4. work \in Workload(0..minted)
    BY <2>3 DEF Init, Workload, NoPods
  <2>5. pass \in Pass(0..minted)
    BY <2>3 DEF Init, Pass, AtEase, Phases
  <2>6. failures \in 0..MaxFailures[mode] /\ left \in 0..MaxRequests
    BY PlacementAssumption, RunnerAssumption DEF Init
  <2>7. minted \in Nat /\ live \subseteq 1..minted
    BY <2>3 DEF Init
  <2>8. status \in Status /\ proj \in Status \cup {"none"}
    BY ZenonT(20) DEF Init, Status
  <2>9. missed \in SUBSET Misses /\ mode \in Modes
    BY DEF Init
  <2> QED BY <2>1, <2>2, <2>4, <2>5, <2>6, <2>7, <2>8, <2>9 DEF TypeOK
<1>2. VersionsInOrder
  BY DEF Init, VersionsInOrder, ObservedIsBuilt, Carries, AtEase
<1> QED
  BY <1>1, <1>2 DEF IInv

LEMMA Inductive == IInv /\ [Next]_vars => IInv'
<1> SUFFICES ASSUME IInv, [Next]_vars PROVE IInv'
  OBVIOUS
<1>1. CASE UNCHANGED vars
  BY <1>1 DEF vars, placementVars, IInv, TypeOK, VersionsInOrder, ObservedIsBuilt, Carries
<1>2. CASE Runner
  BY <1>2, RunnerStep
<1>3. CASE Cluster \/ ((WatchWrites \/ PassFails \/ \E o \in Ordinals : PodDies(o)) /\ UNCHANGED mode)
  BY <1>3, ClusterStep DEF Cluster
<1>4. CASE Progress
  BY <1>4, RequestStep DEF Progress
<1>5. CASE (\E r \in Requests : RequestStarts(r, Deployed)) /\ UNCHANGED <<clusterVars, mode>>
  BY <1>5, RequestStep
<1>6. CASE Projects \/ Sweeps \/ (Rescale /\ UNCHANGED <<clusterVars, mode>>)
  BY <1>6, OtherStep DEF Projects, Sweeps
<1> QED
  BY <1>1, <1>2, <1>3, <1>4, <1>5, <1>6 DEF Next

LEMMA Invariant == Spec => []IInv
BY Initially, Inductive, PTL DEF Spec

(* The placement, its requests, the pass and the cluster keep their types, *)
(* however many requests overlap and failures happen.                      *)
THEOREM TypeCorrect == Spec => []TypeOK
<1>1. IInv => TypeOK
  BY DEF IInv
<1> QED
  BY <1>1, Invariant, PTL

(* What the runner records as observed is at most what the workload was    *)
(* built from: no bump of the spec is ever lost behind an apply that was   *)
(* under way (db-transport.ts, writeObserved).                             *)
THEOREM NoBumpLost == Spec => []ObservedIsBuilt
<1>1. IInv => ObservedIsBuilt
  BY DEF IInv, VersionsInOrder
<1> QED
  BY <1>1, Invariant, PTL

-----------------------------------------------------------------------------
(* Tokens of a static workspace.  What is in use (by the workload, or by   *)
(* the pass that brings it up) may be revoked only while the workspace is  *)
(* on its way down with no token left, so that the start that follows      *)
(* rebuilds it; or while a rebuild is outstanding anyway.                  *)
MayBeUp == work.exists /\ work.scale > 0

(* The row asks for more than the pass is about to record; it asks for more*)
(* than is recorded, and still will once the pass has written.             *)
Overtaken == IF pass.act = "apply" THEN pass.version < row.version ELSE row.applied < row.version
Behind == row.applied < row.version /\ (pass.at = "write" => Overtaken)

TakenDown ==
  /\ row.desired = "stopped" /\ live = {}
  /\ \A r \in Requests : /\ req[r].at \notin {"floor", "run"}
                         /\ req[r].at \in {"drift", "bump"} => req[r].resuming

NoStrayPods == \A o \in Ordinals : work.pods[o] # 0 => o < work.scale

(* A pass mints only for a rebuild that is due, or for what is not up. *)
PassHasCause ==
  /\ (pass.at \in {"listed", "mint", "deliver", "act"} /\ pass.act = "apply")
       => row.applied < pass.version \/ ~work.exists
  /\ (pass.at \in {"mint", "deliver", "act"} /\ pass.act = "start") => ~MayBeUp
  /\ pass.at \in {"mint", "deliver"} => Minting

(* What the sweep spares, the newest token, is the one in use. *)
NewestInUse ==
  /\ pass.at = "deliver" => pass.token = minted /\ minted > 0
  /\ (pass.at = "act" /\ Minting) => work.secret = minted /\ minted > 0
  /\ (MayBeUp /\ ~Behind) => Held \cup {work.secret} = {minted}

StaleWorkload == MayBeUp /\ ~(Held \cup {work.secret} \subseteq live)
StaleWillGo ==
  missed = {} => /\ StaleWorkload => Behind \/ TakenDown
                 /\ StalePass => Overtaken \/ TakenDown

InOrder == NoStrayPods /\ PassHasCause /\ NewestInUse /\ StaleWillGo
TokensInOrder == mode = "static" => InOrder

LEMMA OrderFacts ==
  ASSUME IInv
  PROVE  /\ row.version \in Nat /\ row.applied \in Nat /\ row.applied <= row.version
         /\ pass.version \in Nat
         /\ Carries => row.applied <= pass.version /\ pass.version <= row.version
         /\ minted \in Nat /\ live \subseteq 1..minted
         /\ work.scale \in Nat /\ work.exists \in BOOLEAN
         /\ missed \in SUBSET Misses
BY PassFields, RowTypes DEF IInv, TypeOK, VersionsInOrder

(* A step of the control plane that leaves the tokens alone keeps the      *)
(* order, if it starts nothing that was taken down without a rebuild.      *)
LEMMA ControlKeeps ==
  ASSUME IInv, InOrder, UNCHANGED <<clusterVars, minted, live>>,
         row'.version \in Nat, row'.version >= row.version, row'.applied = row.applied,
         missed \subseteq missed',
         (TakenDown /\ missed' = {} /\ (StaleWorkload \/ StalePass))
            => TakenDown' \/ row'.version > row.version
  PROVE  InOrder'
<1>1. NoStrayPods'
  BY DEF InOrder, NoStrayPods, clusterVars
<1>2. PassHasCause'
  BY DEF InOrder, PassHasCause, MayBeUp, Minting, clusterVars
<1>3. (Behind => Behind') /\ (Overtaken => Overtaken')
  BY OrderFacts DEF Behind, Overtaken, clusterVars
<1>4. NewestInUse'
  BY <1>3 DEF InOrder, NewestInUse, MayBeUp, Minting, Held, Up, clusterVars
<1>5. row'.version > row.version => /\ (pass.at = "act" \/ pass.at = "deliver") => Overtaken'
                                    /\ Behind'
  BY OrderFacts DEF Behind, Overtaken, Carries, clusterVars
<1>6. (StaleWorkload' => StaleWorkload) /\ (StalePass' => StalePass)
  BY DEF StaleWorkload, StalePass, MayBeUp, Minting, Held, Up, clusterVars
<1>7. StaleWillGo'
  BY <1>3, <1>5, <1>6 DEF InOrder, StaleWillGo, StalePass
<1> QED
  BY <1>1, <1>2, <1>4, <1>7 DEF InOrder

(* Tokens are revoked by a stop, or superseded ones by the sweep. *)
LEMMA RevocationKeeps ==
  ASSUME IInv, InOrder, UNCHANGED <<clusterVars, minted, row>>, live' \subseteq live,
         missed \subseteq missed',
         missed' = {} /\ ~Behind => TakenDown' \/ (minted \in live => minted \in live'),
         missed' = {} => TakenDown' \/ pass.at \notin {"deliver", "act"},
         (TakenDown /\ missed' = {}) => TakenDown'
  PROVE  InOrder'
<1>1. NoStrayPods'
  BY DEF InOrder, NoStrayPods, clusterVars
<1>2. PassHasCause'
  BY DEF InOrder, PassHasCause, MayBeUp, Minting, clusterVars
<1>3. (Behind <=> Behind') /\ (Overtaken <=> Overtaken')
  BY DEF Behind, Overtaken, clusterVars
<1>4. NewestInUse'
  BY <1>3 DEF InOrder, NewestInUse, MayBeUp, Minting, Held, Up, clusterVars
<1>5. ASSUME missed' = {}, StaleWorkload', ~Behind'
      PROVE  TakenDown'
  <2>1. MayBeUp /\ Held' = Held /\ work' = work
    BY <1>5 DEF StaleWorkload, MayBeUp, Held, Up, clusterVars
  <2>2. Held \cup {work.secret} = {minted} /\ minted \notin live'
    BY <1>3, <1>5, <2>1 DEF InOrder, NewestInUse, StaleWorkload
  <2>3. CASE minted \in live
    BY <1>3, <1>5, <2>2, <2>3
  <2>4. CASE minted \notin live
    BY <1>3, <1>5, <2>1, <2>2, <2>4 DEF InOrder, StaleWillGo, StaleWorkload
  <2> QED
    BY <2>3, <2>4
<1>6. ASSUME missed' = {}, StalePass'
      PROVE  TakenDown'
  BY <1>6 DEF StalePass, clusterVars
<1> QED
  BY <1>1, <1>2, <1>4, <1>5, <1>6 DEF InOrder, StaleWillGo

(* A change of the count or a rebuild is newer than what anyone holds. *)
LEMMA BumpIsNewer ==
  ASSUME TypeOK, NEW n \in 0..MaxReplicas, row' = Bumped(n)
  PROVE  /\ row'.version \in Nat /\ row'.version > row.version /\ row'.version >= row.version
         /\ row'.applied = row.applied
<1>1. row.version + 1 \in Nat /\ row.version + 1 > row.version
  BY RowTypes
<1>2. row' = [[row EXCEPT !.version = row.version + 1] EXCEPT !.replicas = n]
  BY DEF Bumped, TypeOK, Row
<1> QED
  BY <1>1, <1>2 DEF TypeOK, Row

(* Only the run of a start without a rebuild, or its way there, ends what  *)
(* TakenDown says of the requests.                                         *)
LEMMA TakenDownStays ==
  ASSUME IInv, TakenDown, live' = live, row'.desired = "stopped", NEW r \in Requests,
         \A q \in Requests \ {r} : req'[q] = req[q],
         req'[r].at \notin {"floor", "run"},
         req'[r].at \in {"drift", "bump"} => req'[r].resuming
  PROVE  TakenDown'
BY DEF TakenDown

(* A request that leaves frees its entry, and no other. *)
LEMMA LeavesAlone ==
  ASSUME IInv, NEW r \in Requests, Leave(r)
  PROVE  (\A q \in Requests \ {r} : req'[q] = req[q]) /\ req'[r].at = "idle"
BY DEF Leave, AtRest, IInv, TypeOK, Request

LEMMA RequestKeeps ==
  ASSUME IInv, InOrder, mode = "static", NEW r \in Requests,
         RequestStarts(r, Deployed) \/ RequestSteps(r) \/ StartDrift(r, Deployed, StalePass),
         UNCHANGED <<clusterVars, mode>>
  PROVE  InOrder'
<1> USE OrderFacts
<1>0. TypeOK BY DEF IInv
<1>a. req \in [Requests -> Request]
  BY <1>0 DEF TypeOK
<1>b. row.version >= row.version /\ row.replicas \in 0..MaxReplicas
  BY <1>0, RowTypes
<1>1. CASE Stop(r)
  <2>1. Step(r, "revoke") /\ row' = [row EXCEPT !.desired = "stopped"]
    BY <1>1 DEF Stop, Arrives
  <2>2. row'.desired = "stopped" /\ row'.version = row.version /\ row'.applied = row.applied
    BY <1>0, <2>1 DEF TypeOK, Row
  <2>3. (\A q \in Requests \ {r} : req'[q] = req[q]) /\ req'[r].at = "revoke"
    BY <1>a, <2>1 DEF Step, Request
  <2>4. TakenDown => TakenDown'
    BY <1>1, <2>2, <2>3, TakenDownStays DEF Stop
  <2> QED BY <1>1, <1>b, <2>2, <2>4, ControlKeeps DEF Stop
<1>2. CASE Start(r)
  <2>1. PICK on \in BOOLEAN : /\ on = (status # "running")
                              /\ req' = [req EXCEPT ![r].at = IF status = "running" THEN "check" ELSE "drift",
                                                    ![r].resuming = on]
    BY <1>2 DEF Start
  <2>2. /\ \A q \in Requests \ {r} : req'[q] = req[q]
        /\ req'[r].at \in {"check", "drift"}
        /\ req'[r].at = "drift" => req'[r].resuming
    BY <1>a, <2>1 DEF Request
  <2>3. TakenDown => TakenDown'
    BY <1>2, <2>2, TakenDownStays DEF Start, TakenDown
  <2> QED BY <1>2, <1>b, <2>3, ControlKeeps DEF Start
<1>3. CASE Restart(r) \/ Rebuild(r, Deployed)
  <2>1. PICK p \in {"rebuild", "resize"} : Rereads(r, p)
    BY <1>3 DEF Restart, Rebuild
  <2>2. /\ \A q \in Requests \ {r} : req'[q] = req[q]
        /\ req'[r].at = p
    BY <2>1, <1>a DEF Rereads, Request
  <2>3. TakenDown => TakenDown'
    BY <2>1, <2>2, TakenDownStays DEF Rereads, TakenDown
  <2> QED BY <2>1, <1>b, <2>3, ControlKeeps DEF Rereads
<1>4. CASE StopRevokes(r)
  <2>1. /\ \A q \in Requests \ {r} : req'[q] = req[q]
        /\ req'[r].at \in {"stopped", "idle"}
    BY <1>4, <1>a DEF StopRevokes, Step, Leave, AtRest, Request
  <2>2. /\ live' = {} /\ row' = row /\ minted' = minted /\ missed \subseteq missed'
        /\ live # {} /\ (Committed \/ row.desired = "running") => missed' # {}
    BY <1>4 DEF StopRevokes, RevokeAll, Notes
  <2>3. CASE live = {}
    <3>1. TakenDown => TakenDown'
      BY <2>1, <2>2, <2>3, TakenDownStays DEF TakenDown
    <3> QED BY <1>b, <2>2, <2>3, <3>1, ControlKeeps
  <2>4. CASE live # {}
    <3>1. ASSUME missed' = {} PROVE TakenDown'
      <4>1. ~Committed /\ row.desired # "running"
        BY <2>2, <2>4, <3>1
      <4>2. row'.desired = "stopped"
        BY <1>0, <2>2, <4>1, RowTypes
      <4>3. \A q \in Requests : /\ req'[q].at \notin {"floor", "run"}
                                /\ req'[q].at \in {"drift", "bump"} => req'[q].resuming
        <5>1. ASSUME NEW q \in Requests
              PROVE  /\ req[q].at \notin {"floor", "run"}
                     /\ req[q].at \in {"drift", "bump"} => req[q].resuming
          BY <4>1 DEF Committed
        <5> QED BY <2>1, <5>1
      <4> QED BY <2>2, <4>2, <4>3 DEF TakenDown
    <3> QED BY <2>2, <3>1, RevocationKeeps
  <2> QED BY <2>3, <2>4
<1>5. CASE StopMarks(r)
  <2>1. TakenDown => TakenDown'
    BY <1>5, LeavesAlone, TakenDownStays DEF StopMarks, TakenDown
  <2> QED BY <1>5, <1>b, <2>1, ControlKeeps DEF StopMarks
<1>6. CASE StartChecksToken(r)
  <2>1. PICK on \in BOOLEAN : /\ on = (live = {})
                              /\ req' = [req EXCEPT ![r].at = "drift", ![r].resuming = on]
    BY <1>6 DEF StartChecksToken
  <2>2. /\ \A q \in Requests \ {r} : req'[q] = req[q]
        /\ req'[r].at = "drift"
        /\ live = {} => req'[r].resuming
    BY <1>a, <2>1 DEF Request
  <2>3. TakenDown => TakenDown'
    BY <1>6, <2>2, TakenDownStays DEF StartChecksToken, TakenDown
  <2> QED BY <1>6, <1>b, <2>3, ControlKeeps DEF StartChecksToken
<1>7. CASE StartDrift(r, Deployed, StalePass)
  <2>1. /\ \A q \in Requests \ {r} : req'[q] = req[q]
        /\ req'[r].at = IF work.exists /\ req[r].resuming THEN "bump" ELSE "run"
        /\ req'[r].resuming = req[r].resuming
    BY <1>7, <1>a DEF StartDrift, Step, Unfloored, Deployed, Request
  <2>2. /\ req[r].at = "drift"
        /\ missed \subseteq missed'
        /\ req[r].resuming /\ ~work.exists /\ StalePass => missed' # {}
    BY <1>7 DEF StartDrift, Notes, Deployed
  <2>3. ASSUME TakenDown, missed' = {}, StaleWorkload \/ StalePass PROVE TakenDown'
    <3>1. req[r].resuming
      BY <2>2, <2>3 DEF TakenDown
    <3>2. work.exists
      BY <2>2, <2>3, <3>1 DEF StaleWorkload, MayBeUp
    <3> QED BY <1>7, <2>1, <2>3, <3>1, <3>2, TakenDownStays DEF StartDrift, TakenDown
  <2>4. missed \subseteq missed'
    BY <2>2
  <2> QED BY <1>7, <1>b, <2>3, <2>4, ControlKeeps DEF StartDrift
<1>8. CASE StartBumps(r)
  BY <1>0, <1>8, <1>b, BumpIsNewer, ControlKeeps DEF StartBumps
<1>9. CASE StartFloors(r)
  <2>1. ~TakenDown
    BY <1>9 DEF StartFloors, TakenDown
  <2>2. /\ row'.version \in Nat /\ row'.version >= row.version /\ row'.applied = row.applied
    BY <1>0, <1>9, <1>b, BumpIsNewer, PlacementAssumption DEF StartFloors
  <2> QED BY <1>9, <2>1, <2>2, ControlKeeps DEF StartFloors
<1>10. CASE StartRuns(r)
  <2>1. ~TakenDown
    BY <1>10 DEF StartRuns, TakenDown
  <2>2. row'.version = row.version /\ row'.applied = row.applied
    BY <1>0, <1>10 DEF StartRuns, TypeOK, Row
  <2> QED BY <1>10, <1>b, <2>1, <2>2, ControlKeeps DEF StartRuns
<1>11. CASE StartMarks(r)
  <2>1. TakenDown => TakenDown'
    BY <1>11, LeavesAlone, TakenDownStays DEF StartMarks, TakenDown
  <2> QED BY <1>11, <1>b, <2>1, ControlKeeps DEF StartMarks
<1>12. CASE RestartBumps(r) \/ RebuildBumps(r)
  <2>1. req[r].replicas \in 0..MaxReplicas
    BY <1>a DEF Request
  <2> QED BY <1>0, <1>12, <2>1, BumpIsNewer, ControlKeeps DEF RestartBumps, RebuildBumps
<1> QED
  BY <1>1, <1>2, <1>3, <1>4, <1>5, <1>6, <1>7, <1>8, <1>9, <1>10, <1>11, <1>12 DEF RequestStarts, RequestSteps

(* The sweep runs while nothing is under way, and spares the newest. *)
LEMMA SweepKeeps ==
  ASSUME IInv, InOrder, Sweeps
  PROVE  InOrder'
<1>1. UNCHANGED <<clusterVars, minted, row, missed, req>> /\ pass.at = "rest"
  BY DEF Sweeps, SweepTokens
<1>2. live' = live \ Superseded /\ live # {}
  BY DEF Sweeps, SweepTokens, Superseded
<1>3. minted \notin Superseded
  <2>1. {u \in live : u > minted} = {}
    BY OrderFacts
  <2>2. Cardinality({u \in live : u > minted}) = 0
    BY <2>1, FS_EmptySet
  <2> QED BY <2>2, PlacementAssumption DEF Superseded
<1>4. ~TakenDown
  BY <1>2 DEF TakenDown
<1> QED
  BY <1>1, <1>2, <1>3, <1>4, RevocationKeeps

-----------------------------------------------------------------------------
(* The pass and the cluster change nothing that TakenDown speaks of, but   *)
(* for a mint. *)
LEMMA DownHolds ==
  ASSUME TakenDown, UNCHANGED <<row, live, req>>
  PROVE  TakenDown'
BY DEF TakenDown

(* A pass that lists, looks or gives up. *)
LEMMA PassKeeps ==
  ASSUME IInv, InOrder, UNCHANGED <<placementVars, work>>,
         pass'.at # "deliver", pass'.at \in {"act", "write"} => pass'.act \in {"stop", "record"},
         PassHasCause'
  PROVE  InOrder'
<1>1. NoStrayPods'
  BY DEF InOrder, NoStrayPods
<1>2. ~StalePass' /\ (pass'.at = "act" => ~Minting')
  BY DEF StalePass, Minting
<1>3. MayBeUp' = MayBeUp /\ Held' = Held /\ (Behind => Behind')
  BY DEF MayBeUp, Held, Up, Behind, Overtaken, placementVars
<1>4. NewestInUse'
  BY <1>2, <1>3 DEF InOrder, NewestInUse, placementVars
<1>5. TakenDown => TakenDown'
  BY DownHolds DEF placementVars
<1>6. StaleWillGo'
  BY <1>2, <1>3, <1>5 DEF InOrder, StaleWillGo, StaleWorkload, placementVars
<1> QED
  BY <1>1, <1>4, <1>6 DEF InOrder

(* What is up while a pass mints for it waits for its rebuild. *)
LEMMA MintedForRebuild ==
  ASSUME IInv, InOrder, pass.at \in {"mint", "deliver"} \/ (pass.at = "act" /\ Minting), MayBeUp
  PROVE  row.applied < row.version /\ pass.act = "apply"
<1>1. pass.act = "apply"
  BY DEF InOrder, PassHasCause, Minting
<1>2. row.applied < pass.version
  BY <1>1 DEF InOrder, PassHasCause, MayBeUp
<1> QED
  BY <1>1, <1>2, OrderFacts DEF Carries

(* The workload is given new replicas and pods, from the Secret. *)
LEMMA ScaleKeeps ==
  ASSUME IInv, InOrder, UNCHANGED placementVars, NoStrayPods', pass.at = "act", pass'.at = "write",
         pass'.act = pass.act, pass'.version = pass.version,
         MayBeUp' => Minting /\ Held' = {} /\ work'.secret = work.secret
  PROVE  InOrder'
<1>1. PassHasCause'
  BY DEF PassHasCause
<1>2. NewestInUse'
  BY DEF InOrder, NewestInUse, placementVars
<1>3. ASSUME missed = {}, StaleWorkload' PROVE Behind' \/ TakenDown'
  <2>1. StalePass
    BY <1>3 DEF StaleWorkload, StalePass, placementVars
  <2>2. CASE Overtaken
    BY <2>2, OrderFacts DEF Overtaken, Behind, Carries, placementVars
  <2>3. CASE TakenDown
    BY <2>3, DownHolds DEF placementVars
  <2> QED
    BY <1>3, <2>1, <2>2, <2>3 DEF InOrder, StaleWillGo
<1>4. ~StalePass'
  BY DEF StalePass
<1>5. StaleWillGo'
  BY <1>3, <1>4 DEF StaleWillGo, placementVars
<1> QED
  BY <1>1, <1>2, <1>5 DEF InOrder

(* Pods come up with the Secret's token, or go. *)
LEMMA PodsKeep ==
  ASSUME IInv, InOrder, UNCHANGED <<placementVars, pass>>, NoStrayPods',
         work'.exists = work.exists, work'.scale = work.scale, work'.secret = work.secret,
         Held' \subseteq Held \cup {work.secret}
  PROVE  InOrder'
<1>1. PassHasCause' /\ MayBeUp' = MayBeUp
  BY DEF InOrder, PassHasCause, MayBeUp, Minting, placementVars
<1>2. Behind' = Behind /\ Overtaken' = Overtaken
  BY DEF Behind, Overtaken, placementVars
<1>3. NewestInUse'
  BY <1>1, <1>2 DEF InOrder, NewestInUse, Minting, placementVars
<1>4. (StaleWorkload' => StaleWorkload) /\ (StalePass' => StalePass)
  BY <1>1 DEF StaleWorkload, StalePass, Minting, placementVars
<1>5. TakenDown => TakenDown'
  BY DownHolds DEF placementVars
<1>6. StaleWillGo'
  BY <1>2, <1>4, <1>5 DEF InOrder, StaleWillGo, placementVars
<1> QED
  BY <1>1, <1>3, <1>6 DEF InOrder

LEMMA RunnerKeeps ==
  ASSUME IInv, InOrder, mode = "static", Runner
  PROVE  InOrder'
<1> USE OrderFacts
<1>0. TypeOK BY DEF IInv
<1>a. /\ pass \in Pass(0..minted) /\ work \in Workload(0..minted)
      /\ minted \in Nat /\ mode' = mode
  BY <1>0 DEF TypeOK, Runner
<1>b. AtEase.at = "rest"
  BY DEF AtEase
<1>1. CASE PassLists
  <2>1. /\ pass'.at = "listed" /\ pass'.version = row.version
        /\ pass'.act = "apply" => row.applied < row.version
    BY <1>1 DEF PassLists, AtEase
  <2>2. PassHasCause'
    BY <1>1, <2>1 DEF PassHasCause, PassLists, onlyPass, placementVars
  <2> QED BY <1>1, <2>1, <2>2, PassKeeps DEF PassLists, onlyPass
<1>2. CASE Observe
  <2>1. CASE ActOn(Phase) = "apply"
    <3>1. pass' = [pass EXCEPT !.at = "mint", !.act = "apply", !.phase = "unknown"]
      BY <1>2, <2>1 DEF Observe
    <3>2. pass'.at = "mint" /\ pass'.act = "apply" /\ pass'.version = pass.version
      BY <1>a, <3>1 DEF Pass
    <3>3. pass.act = "apply" \/ ~work.exists
      BY <2>1 DEF ActOn, Phase, PhaseOf
    <3>4. PassHasCause'
      BY <1>2, <3>2, <3>3 DEF Observe, InOrder, PassHasCause, Minting, onlyPass, placementVars
    <3> QED BY <1>2, <3>2, <3>4, PassKeeps DEF Observe, onlyPass
  <2>2. CASE ActOn(Phase) = "start"
    <3>1. pass'.at = "mint" /\ pass'.act = "start"
      BY <1>2, <2>2 DEF Observe, AtEase
    <3>2. ~MayBeUp
      BY <2>2 DEF ActOn, Phase, PhaseOf, MayBeUp
    <3>3. PassHasCause'
      BY <1>2, <3>1, <3>2 DEF Observe, PassHasCause, Minting, MayBeUp, onlyPass
    <3> QED BY <1>2, <3>1, <3>3, PassKeeps DEF Observe, onlyPass
  <2>3. CASE ActOn(Phase) \notin {"apply", "start"}
    <3>1. \/ pass'.at = "act" /\ pass'.act = "stop"
          \/ pass'.at = "write" /\ pass'.act = "record"
          \/ pass'.at = "rest"
      BY <1>2, <2>3 DEF Observe, ActOn, AtEase
    <3>2. PassHasCause'
      BY <3>1 DEF PassHasCause
    <3> QED BY <1>2, <3>1, <3>2, PassKeeps DEF Observe, onlyPass
  <2> QED BY <2>1, <2>2, <2>3
<1>3. CASE Mint
  <2>1. /\ pass.at = "mint" /\ minted' = minted + 1 /\ live' = live \cup {minted + 1}
        /\ UNCHANGED <<row, req, missed, work>>
        /\ pass'.at = "deliver" /\ pass'.token = minted + 1
        /\ pass'.act = pass.act /\ pass'.version = pass.version
    BY <1>3, <1>a DEF Mint, Pass
  <2>2. MayBeUp' => Behind'
    BY <2>1, MintedForRebuild DEF MayBeUp, Behind
  <2>3. PassHasCause'
    BY <2>1 DEF InOrder, PassHasCause, Minting, MayBeUp
  <2>4. NewestInUse' /\ ~StalePass'
    BY <2>1, <2>2 DEF NewestInUse, StalePass
  <2>5. StaleWillGo'
    BY <2>2, <2>4 DEF StaleWillGo, StaleWorkload
  <2>6. NoStrayPods'
    BY <2>1 DEF InOrder, NoStrayPods
  <2> QED BY <2>3, <2>4, <2>5, <2>6 DEF InOrder
<1>4. CASE Deliver
  <2>1. /\ pass.at = "deliver" /\ UNCHANGED placementVars
        /\ pass' = [pass EXCEPT !.at = "act", !.token = 0]
        /\ work' = [work EXCEPT !.secret = pass.token]
    BY <1>4 DEF Deliver
  <2>2. /\ pass'.at = "act" /\ pass'.act = pass.act /\ pass'.version = pass.version
        /\ work'.secret = pass.token /\ work'.exists = work.exists
        /\ work'.scale = work.scale /\ work'.pods = work.pods
    BY <1>a, <2>1 DEF Pass, Workload
  <2>3. MayBeUp' => Behind'
    BY <2>1, <2>2, MintedForRebuild DEF MayBeUp, Behind, placementVars
  <2>4. NoStrayPods' /\ PassHasCause'
    BY <2>1, <2>2 DEF InOrder, NoStrayPods, PassHasCause, Minting, MayBeUp, placementVars
  <2>5. NewestInUse'
    BY <2>1, <2>2, <2>3 DEF InOrder, NewestInUse, placementVars
  <2>6. (StalePass' => StalePass) /\ (Overtaken => Overtaken')
    BY <2>1, <2>2 DEF StalePass, Overtaken, placementVars
  <2>7. TakenDown => TakenDown'
    BY <2>1, DownHolds DEF placementVars
  <2>8. StaleWillGo'
    BY <2>1, <2>3, <2>6, <2>7 DEF InOrder, StaleWillGo, StaleWorkload, placementVars
  <2> QED BY <2>4, <2>5, <2>8 DEF InOrder
<1>5. CASE Apply
  <2>1. /\ pass.at = "act" /\ pass.act = "apply" /\ UNCHANGED placementVars
        /\ work' = Built(NoPods)
        /\ pass' = [pass EXCEPT !.at = "write", !.replicas = 0, !.phase = PhaseOf(work')]
    BY <1>5 DEF Apply, Looks
  <2>2. pass'.at = "write" /\ pass'.act = pass.act /\ pass'.version = pass.version
    BY <1>a, <2>1 DEF Pass
  <2>3. /\ work'.secret = work.secret
        /\ work'.pods = [o \in Ordinals |-> IF o < 1 THEN NoPods[o] ELSE 0]
    BY <1>a, <2>1 DEF Built, Scaled, Workload
  <2>4. \A o \in Ordinals : work'.pods[o] = 0
    BY <2>3 DEF NoPods
  <2>5. NoStrayPods' /\ Held' = {}
    BY <2>4 DEF NoStrayPods, Held, Up
  <2> QED BY <2>1, <2>2, <2>3, <2>5, ScaleKeeps DEF Minting
<1>6. CASE Scale
  <2>1. /\ pass.at = "act" /\ pass.act \in {"start", "stop"} /\ UNCHANGED placementVars
        /\ work' = IF work.exists THEN Scaled(work, IF pass.act = "start" THEN 1 ELSE 0) ELSE work
        /\ pass' = [pass EXCEPT !.at = "write", !.replicas = 0, !.phase = PhaseOf(work')]
    BY <1>6 DEF Scale, Looks
  <2>2. pass'.at = "write" /\ pass'.act = pass.act /\ pass'.version = pass.version
    BY <1>a, <2>1 DEF Pass
  <2>3. CASE ~work.exists
    <3>1. work' = work
      BY <2>1, <2>3
    <3>2. NoStrayPods' /\ ~MayBeUp'
      BY <2>3, <3>1 DEF InOrder, NoStrayPods, MayBeUp
    <3> QED BY <2>1, <2>2, <3>2, ScaleKeeps
  <2>4. CASE work.exists /\ pass.act = "stop"
    <3>1. /\ work'.scale = 0
          /\ work'.pods = [o \in Ordinals |-> IF o < 0 THEN work.pods[o] ELSE 0]
      BY <1>a, <2>1, <2>4 DEF Scaled, Workload
    <3>2. \A o \in Ordinals : work'.pods[o] = 0
      BY <3>1 DEF Ordinals
    <3>3. NoStrayPods' /\ ~MayBeUp'
      BY <3>1, <3>2 DEF NoStrayPods, MayBeUp
    <3> QED BY <2>1, <2>2, <3>3, ScaleKeeps
  <2>5. CASE work.exists /\ pass.act = "start"
    <3>1. /\ work'.secret = work.secret
          /\ work'.pods = [o \in Ordinals |-> IF o < 1 THEN work.pods[o] ELSE 0]
      BY <1>a, <2>1, <2>5 DEF Scaled, Workload
    <3>2. work.scale = 0
      BY <2>1, <2>5 DEF InOrder, PassHasCause, MayBeUp
    <3>3. \A o \in Ordinals : work.pods[o] = 0
      BY <3>2 DEF InOrder, NoStrayPods, Ordinals
    <3>4. \A o \in Ordinals : work'.pods[o] = 0
      BY <3>1, <3>3
    <3>5. NoStrayPods' /\ Held' = {}
      BY <3>4 DEF NoStrayPods, Held, Up
    <3> QED BY <2>1, <2>2, <2>5, <3>1, <3>5, ScaleKeeps DEF Minting
  <2> QED BY <2>1, <2>3, <2>4, <2>5
<1>7. CASE Write
  <2>1. /\ pass.at = "write" /\ pass' = AtEase
        /\ UNCHANGED <<live, minted, req, missed, work>>
        /\ row'.version = row.version /\ row'.desired = row.desired
        /\ row'.applied = IF pass.act = "apply" THEN pass.version ELSE row.applied
    BY <1>0, <1>7 DEF Write, TypeOK, Row
  <2>2. PassHasCause' /\ ~StalePass'
    BY <1>b, <2>1 DEF PassHasCause, StalePass
  <2>3. Behind => Behind'
    BY <1>b, <2>1 DEF Behind, Overtaken
  <2>4. MayBeUp' = MayBeUp /\ Held' = Held /\ NoStrayPods'
    BY <2>1 DEF InOrder, NoStrayPods, MayBeUp, Held, Up
  <2>5. NewestInUse'
    BY <1>b, <2>1, <2>3, <2>4 DEF InOrder, NewestInUse
  <2>6. TakenDown => TakenDown'
    BY <2>1 DEF TakenDown
  <2>7. StaleWillGo'
    BY <2>1, <2>2, <2>3, <2>4, <2>6 DEF InOrder, StaleWillGo, StaleWorkload
  <2> QED BY <2>2, <2>4, <2>5, <2>7 DEF InOrder
<1> QED
  BY <1>1, <1>2, <1>3, <1>4, <1>5, <1>6, <1>7 DEF Runner

LEMMA ClusterKeeps ==
  ASSUME IInv, InOrder, mode = "static",
         WatchWrites \/ PassFails \/ (\E o \in Ordinals : PodStarts(o) \/ PodDies(o)), mode' = mode
  PROVE  InOrder'
<1> USE OrderFacts
<1>0. TypeOK BY DEF IInv
<1>a. work \in Workload(0..minted)
  BY <1>0 DEF TypeOK
<1>1. CASE WatchWrites
  <2>1. row'.version = row.version /\ row'.applied = row.applied /\ row'.desired = row.desired
    BY <1>0, <1>1 DEF WatchWrites, TypeOK, Row
  <2>2. TakenDown => TakenDown'
    BY <1>1, <2>1 DEF WatchWrites, TakenDown
  <2>3. row.version >= row.version
    OBVIOUS
  <2>4. UNCHANGED <<clusterVars, minted, live, missed>>
    BY <1>1 DEF WatchWrites, clusterVars
  <2> QED BY <2>1, <2>2, <2>3, <2>4, ControlKeeps
<1>2. CASE PassFails
  <2>1. pass'.at = "rest" /\ UNCHANGED placementVars
    BY <1>2 DEF PassFails, AtEase
  <2>2. PassHasCause'
    BY <2>1 DEF PassHasCause
  <2>3. CASE UNCHANGED work
    BY <2>1, <2>2, <2>3, PassKeeps
  <2>4. CASE work' = [work EXCEPT !.exists = FALSE, !.scale = 0, !.pods = NoPods]
    <3>1. work'.exists = FALSE /\ work'.pods = NoPods
      BY <1>a, <2>4 DEF Workload
    <3>2. NoStrayPods' /\ ~MayBeUp'
      BY <3>1 DEF NoStrayPods, NoPods, MayBeUp
    <3> QED BY <2>1, <2>2, <3>2 DEF InOrder, NewestInUse, StaleWillGo, StaleWorkload, StalePass
  <2> QED BY <1>2, <2>3, <2>4 DEF PassFails
<1>3. ASSUME NEW o \in Ordinals, PodStarts(o) PROVE InOrder'
  <2>1. /\ work'.exists = work.exists /\ work'.scale = work.scale /\ work'.secret = work.secret
        /\ work'.pods = [work.pods EXCEPT ![o] = work.secret] /\ o < work.scale
    BY <1>3, <1>a DEF PodStarts, Workload
  <2>2. \A k \in Ordinals : work'.pods[k] = IF k = o THEN work.secret ELSE work.pods[k]
    BY <1>a, <2>1 DEF Workload
  <2>3. NoStrayPods' /\ Held' \subseteq Held \cup {work.secret}
    BY <2>1, <2>2 DEF InOrder, NoStrayPods, Held, Up
  <2> QED BY <1>3, <2>1, <2>3, PodsKeep DEF PodStarts
<1>4. ASSUME NEW o \in Ordinals, PodDies(o) PROVE InOrder'
  <2>1. /\ work'.exists = work.exists /\ work'.scale = work.scale /\ work'.secret = work.secret
        /\ work'.pods = [work.pods EXCEPT ![o] = 0]
    BY <1>4, <1>a DEF PodDies, Workload
  <2>2. \A k \in Ordinals : work'.pods[k] = IF k = o THEN 0 ELSE work.pods[k]
    BY <1>a, <2>1 DEF Workload
  <2>3. NoStrayPods' /\ Held' \subseteq Held \cup {work.secret}
    BY <2>1, <2>2 DEF InOrder, NoStrayPods, Held, Up
  <2> QED BY <1>4, <2>1, <2>3, PodsKeep DEF PodDies
<1> QED
  BY <1>1, <1>2, <1>3, <1>4

(* The count of replicas is not a static workspace's to change, and the    *)
(* projection touches no token.                                            *)
LEMMA ProjectionKeeps ==
  ASSUME IInv, InOrder, Projects
  PROVE  InOrder'
<1>1. UNCHANGED <<clusterVars, minted, live, row, req, missed>>
  BY DEF Projects, Projection, ProjectLists, ProjectWrites
<1>2. TakenDown => TakenDown'
  BY <1>1 DEF TakenDown
<1> QED
  BY <1>1, <1>2, OrderFacts, ControlKeeps

LEMMA TokensInitially == Init => TokensInOrder
<1> SUFFICES ASSUME Init PROVE InOrder
  BY DEF TokensInOrder
<1>1. ~MayBeUp /\ pass.at = "rest"
  BY DEF Init, MayBeUp, AtEase
<1>2. NoStrayPods
  BY DEF Init, NoStrayPods, NoPods
<1> QED
  BY <1>1, <1>2 DEF InOrder, PassHasCause, NewestInUse, StaleWillGo, StaleWorkload, StalePass

LEMMA TokensStay == IInv /\ TokensInOrder /\ [Next]_vars => TokensInOrder'
<1> SUFFICES ASSUME IInv, TokensInOrder, [Next]_vars, mode' = "static" PROVE InOrder'
  BY DEF TokensInOrder
<1>0. mode = "static" /\ mode' = mode
  BY DEF Next, Runner, Cluster, Progress, Projects, Sweeps, vars
<1>a. InOrder
  BY <1>0 DEF TokensInOrder
<1>1. CASE UNCHANGED vars
  <2>1. UNCHANGED <<clusterVars, minted, live, row, req, missed>>
    BY <1>1 DEF vars, placementVars, clusterVars
  <2>2. TakenDown => TakenDown'
    BY <2>1 DEF TakenDown
  <2> QED
    BY <1>a, <2>1, <2>2, OrderFacts, ControlKeeps
<1>2. CASE Runner
  BY <1>0, <1>a, <1>2, RunnerKeeps
<1>3. CASE Cluster \/ ((WatchWrites \/ PassFails \/ \E o \in Ordinals : PodDies(o)) /\ UNCHANGED mode)
  BY <1>0, <1>a, <1>3, ClusterKeeps DEF Cluster
<1>4. CASE Progress
  BY <1>0, <1>a, <1>4, RequestKeeps DEF Progress
<1>5. CASE (\E r \in Requests : RequestStarts(r, Deployed)) /\ UNCHANGED <<clusterVars, mode>>
  BY <1>0, <1>a, <1>5, RequestKeeps
<1>6. CASE Projects
  BY <1>a, <1>6, ProjectionKeeps
<1>7. CASE Sweeps
  BY <1>a, <1>7, SweepKeeps
<1>8. CASE Rescale
  BY <1>0, <1>8 DEF Rescale
<1> QED
  BY <1>1, <1>2, <1>3, <1>4, <1>5, <1>6, <1>7, <1>8 DEF Next

(* A settled static workspace's pods hold tokens that are accepted, however*)
(* many stops, starts, rebuilds, sweeps, stale passes and failures went    *)
(* before, but for two orders of events: a stop revoked behind a start that*)
(* had found nothing to rebuild, or a start found no Deployment while one  *)
(* was being created with a token the stop had revoked (StartDrift and     *)
(* provisionToken against setDesiredPhase and the sweep).                  *)
THEOREM UpAlwaysAuthenticates == Spec => []UpPodsAuthenticate
<1>1. IInv /\ TokensInOrder => UpPodsAuthenticate
  <2> SUFFICES ASSUME IInv, InOrder, Settled, missed = {} PROVE Held \subseteq live
    BY DEF TokensInOrder, UpPodsAuthenticate
  <2>1. MayBeUp
    BY OrderFacts DEF Settled, Phase, PhaseOf, MayBeUp
  <2>2. ~TakenDown
    BY DEF Settled, TakenDown
  <2>3. ~Behind
    BY OrderFacts DEF Settled, Behind
  <2> QED
    BY <2>1, <2>2, <2>3 DEF InOrder, StaleWillGo, StaleWorkload
<1> QED
  BY <1>1, Invariant, TokensInitially, TokensStay, PTL DEF Spec
-----------------------------------------------------------------------------
(* The count.  Every write of spec.replicas bumps the version, so a pass   *)
(* that applies the row's version applies its count.                       *)
CountsInOrder ==
  /\ work.built <= row.version
  /\ Carries /\ pass.at # "write" /\ pass.version = row.version => pass.replicas = row.replicas
  /\ work.exists /\ work.built = row.version => work.scale \in {0, 1, row.replicas}

(* Once the last version is recorded as applied, the workload is built     *)
(* from it and stands at its count, at none or at one.                     *)
AppliedIsScaled ==
  work.exists /\ row.applied = row.version =>
    work.built = row.version /\ work.scale \in {0, 1, row.replicas}

KeepsCount ==
  \/ row'.version = row.version /\ row'.replicas = row.replicas
  \/ row'.version = row.version + 1

LEMMA ControlCounts ==
  ASSUME IInv, CountsInOrder, KeepsCount, UNCHANGED <<work, pass>>
  PROVE  CountsInOrder'
<1>1. /\ row.version \in Nat /\ work.built \in Nat /\ pass.version \in Nat
      /\ row'.version >= row.version
  BY RowTypes, PassFields DEF IInv, KeepsCount
<1>2. CASE row'.version = row.version /\ row'.replicas = row.replicas
  BY <1>2 DEF CountsInOrder, Carries
<1>3. CASE row'.version = row.version + 1
  <2>1. work.built # row'.version /\ (Carries => pass.version # row'.version)
    BY <1>1, <1>3 DEF IInv, VersionsInOrder, CountsInOrder
  <2> QED
    BY <1>1, <1>3, <2>1 DEF CountsInOrder, Carries
<1> QED
  BY <1>2, <1>3 DEF KeepsCount

LEMMA BumpsCount ==
  ASSUME TypeOK, NEW n, row' = Bumped(n) PROVE KeepsCount
<1>1. row' = [[row EXCEPT !.version = row.version + 1] EXCEPT !.replicas = n]
  BY DEF Bumped, TypeOK, Row
<1> QED
  BY <1>1 DEF KeepsCount, TypeOK, Row

LEMMA StaysCount ==
  ASSUME TypeOK, NEW d, row' = row \/ row' = [row EXCEPT !.desired = d] \/ row' = [row EXCEPT !.phase = d]
  PROVE  KeepsCount
BY DEF KeepsCount, TypeOK, Row

LEMMA RequestCounts ==
  ASSUME TypeOK, NEW r \in Requests,
         RequestStarts(r, Deployed) \/ RequestSteps(r) \/ StartDrift(r, Deployed, StalePass)
  PROVE  KeepsCount
<1>1. CASE RequestStarts(r, Deployed)
  BY <1>1, StaysCount DEF RequestStarts, Stop, Start, Restart, Rebuild, Rereads
<1>2. CASE StopRevokes(r) \/ StopMarks(r) \/ StartChecksToken(r) \/ StartMarks(r)
  BY <1>2, StaysCount DEF StopRevokes, StopMarks, StartChecksToken, StartMarks
<1>3. CASE StartDrift(r, Deployed, StalePass)
  BY <1>3, StaysCount DEF StartDrift
<1>4. CASE StartBumps(r) \/ StartFloors(r) \/ RestartBumps(r) \/ RebuildBumps(r)
  BY <1>4, StaysCount, BumpsCount DEF StartBumps, StartFloors, RestartBumps, RebuildBumps
<1>5. CASE StartRuns(r)
  BY <1>5, StaysCount DEF StartRuns
<1> QED
  BY <1>1, <1>2, <1>3, <1>4, <1>5 DEF RequestSteps

(* A workload keeps its version and goes to none or one. *)
LEMMA WorkCounts ==
  ASSUME IInv, CountsInOrder, UNCHANGED row,
         work'.built = work.built,
         work'.exists => work.exists /\ work'.scale \in {0, 1, work.scale},
         (Carries' /\ pass'.at # "write") =>
           Carries /\ pass.at # "write" /\ pass'.version = pass.version /\ pass'.replicas = pass.replicas
  PROVE  CountsInOrder'
BY DEF CountsInOrder

LEMMA RunnerCounts ==
  ASSUME IInv, CountsInOrder, Runner PROVE CountsInOrder'
<1>0. TypeOK
  BY DEF IInv
<1>a. pass \in Pass(0..minted) /\ work \in Workload(0..minted)
  BY <1>0 DEF TypeOK
<1>1. CASE PassLists
  <2>1. pass'.version = row.version /\ pass'.replicas = row.replicas /\ row' = row /\ work' = work
    BY <1>1 DEF PassLists, onlyPass, placementVars, AtEase
  <2> QED
    BY <2>1 DEF CountsInOrder
<1>2. CASE Observe
  <2>1. row' = row /\ work' = work /\ pass.at = "listed"
    BY <1>2 DEF Observe, onlyPass, placementVars
  <2>2. CASE ActOn(Phase) = "apply"
    <3>1. pass' = [pass EXCEPT !.at = "mint", !.act = "apply", !.phase = "unknown"]
      BY <1>2, <2>2 DEF Observe
    <3>2. pass'.version = pass.version /\ pass'.replicas = pass.replicas
      BY <1>a, <3>1 DEF Pass
    <3> QED
      BY <2>1, <3>2 DEF CountsInOrder, Carries
  <2>3. CASE ActOn(Phase) # "apply"
    <3>1. pass'.at # "listed" /\ pass'.act # "apply"
      BY <1>a, <1>2, <2>3 DEF Observe, ActOn, AtEase, Pass
    <3> QED
      BY <2>1, <3>1 DEF CountsInOrder, Carries
  <2> QED
    BY <2>2, <2>3
<1>3. CASE Mint
  BY <1>a, <1>3 DEF Mint, CountsInOrder, Carries, Pass
<1>4. CASE Deliver
  <2>1. pass'.version = pass.version /\ pass'.replicas = pass.replicas /\ pass'.act = pass.act /\ pass'.at = "act"
    BY <1>a, <1>4 DEF Deliver, Pass
  <2>2. work'.built = work.built /\ work'.exists = work.exists /\ work'.scale = work.scale /\ row' = row
    BY <1>a, <1>4 DEF Deliver, Workload, placementVars
  <2>3. pass.at = "deliver"
    BY <1>4 DEF Deliver
  <2> QED
    BY <2>1, <2>2, <2>3 DEF CountsInOrder, Carries
<1>5. CASE Apply
  <2>1. PICK pods : work' = Built(pods)
    BY <1>5 DEF Apply
  <2>2. work'.built = pass.version /\ work'.scale = IF mode = "static" THEN 1 ELSE pass.replicas
    BY <1>a, <2>1 DEF Built, Scaled, Workload
  <2>3. pass.act = "apply" /\ pass.at = "act" /\ pass'.at = "write" /\ row' = row
    BY <1>a, <1>5 DEF Apply, Looks, placementVars, Pass
  <2>4. pass.version <= row.version
    BY <2>3 DEF IInv, VersionsInOrder, Carries
  <2> QED
    BY <2>2, <2>3, <2>4 DEF CountsInOrder, Carries
<1>6. CASE Scale
  <2>1. /\ work'.built = work.built
        /\ work'.exists = work.exists /\ work'.scale \in {0, 1, work.scale}
    BY <1>a, <1>6 DEF Scale, Scaled, Workload
  <2>2. pass'.at = "write" /\ row' = row
    BY <1>a, <1>6 DEF Scale, Looks, placementVars, Pass
  <2> QED
    BY <2>1, <2>2, WorkCounts
<1>7. CASE Write
  <2>1. row'.version = row.version /\ row'.replicas = row.replicas /\ work' = work
    BY <1>0, <1>7 DEF Write, TypeOK, Row
  <2>2. ~Carries'
    BY <1>7 DEF Write, Carries, AtEase
  <2> QED
    BY <2>1, <2>2 DEF CountsInOrder
<1> QED
  BY <1>1, <1>2, <1>3, <1>4, <1>5, <1>6, <1>7 DEF Runner

LEMMA ClusterCounts ==
  ASSUME IInv, CountsInOrder,
         WatchWrites \/ PassFails \/ (\E o \in Ordinals : PodStarts(o) \/ PodDies(o))
  PROVE  CountsInOrder'
<1>0. TypeOK /\ work \in Workload(0..minted)
  BY DEF IInv, TypeOK
<1>1. CASE WatchWrites
  <2>1. KeepsCount
    BY <1>0, <1>1, StaysCount DEF WatchWrites
  <2> QED
    BY <1>1, <2>1, ControlCounts DEF WatchWrites
<1>2. CASE PassFails
  <2>1. work'.built = work.built /\ (work'.exists => work' = work) /\ row' = row
    BY <1>0, <1>2 DEF PassFails, Workload, placementVars
  <2>2. ~Carries'
    BY <1>2 DEF PassFails, Carries, AtEase
  <2> QED
    BY <2>1, <2>2, WorkCounts
<1>3. ASSUME NEW o \in Ordinals, PodStarts(o) \/ PodDies(o) PROVE CountsInOrder'
  <2>1. work'.built = work.built /\ work'.exists = work.exists /\ work'.scale = work.scale
    BY <1>0, <1>3 DEF PodStarts, PodDies, Workload
  <2>2. UNCHANGED <<row, pass>>
    BY <1>3 DEF PodStarts, PodDies, placementVars
  <2> QED
    BY <2>1, <2>2 DEF CountsInOrder, Carries
<1> QED
  BY <1>1, <1>2, <1>3

LEMMA CountsStay == IInv /\ CountsInOrder /\ [Next]_vars => CountsInOrder'
<1> SUFFICES ASSUME IInv, CountsInOrder, [Next]_vars PROVE CountsInOrder'
  OBVIOUS
<1>0. TypeOK
  BY DEF IInv
<1>1. CASE UNCHANGED vars
  BY <1>1 DEF vars, placementVars, CountsInOrder, Carries
<1>2. CASE Runner
  BY <1>2, RunnerCounts
<1>3. CASE Cluster \/ ((WatchWrites \/ PassFails \/ \E o \in Ordinals : PodDies(o)) /\ UNCHANGED mode)
  BY <1>3, ClusterCounts DEF Cluster
<1>4. CASE Progress \/ ((\E r \in Requests : RequestStarts(r, Deployed)) /\ UNCHANGED <<clusterVars, mode>>)
  <2>1. KeepsCount
    BY <1>0, <1>4, RequestCounts DEF Progress
  <2>2. UNCHANGED <<work, pass>>
    BY <1>4 DEF Progress, clusterVars
  <2> QED
    BY <2>1, <2>2, ControlCounts
<1>5. CASE Projects \/ Sweeps \/ (Rescale /\ UNCHANGED <<clusterVars, mode>>)
  <2>1. KeepsCount
    BY <1>0, <1>5, StaysCount, BumpsCount
    DEF Projects, Projection, ProjectLists, ProjectWrites, Sweeps, SweepTokens, Rescale
  <2>2. UNCHANGED <<work, pass>>
    BY <1>5 DEF Projects, Sweeps, clusterVars
  <2> QED
    BY <2>1, <2>2, ControlCounts
<1> QED
  BY <1>1, <1>2, <1>3, <1>4, <1>5 DEF Next

(* The safety half of Converges: once the last version is recorded as      *)
(* applied, no pass with an older listing, change of the count, wake or    *)
(* failure leaves the workload at a count of another version.              *)
THEOREM AppliedAlwaysScaled == Spec => []AppliedIsScaled
<1>1. Init => CountsInOrder
  BY DEF Init, CountsInOrder, Carries, AtEase
<1>2. IInv /\ CountsInOrder => AppliedIsScaled
  <2> SUFFICES ASSUME IInv, CountsInOrder, work.exists, row.applied = row.version
               PROVE  work.built = row.version /\ work.scale \in {0, 1, row.replicas}
    BY DEF AppliedIsScaled
  <2>1. row.version \in Nat /\ work.built \in Nat /\ row.version <= work.built
    BY RowTypes, PassFields DEF IInv, VersionsInOrder, ObservedIsBuilt
  <2> QED
    BY <2>1 DEF CountsInOrder
<1> QED
  BY <1>1, <1>2, Invariant, CountsStay, PTL DEF Spec
=============================================================================

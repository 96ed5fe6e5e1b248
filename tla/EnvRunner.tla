----------------------------- MODULE EnvRunner -----------------------------
(***************************************************************************)
(* The environment runner and the cluster it drives                        *)
(* (internal/env-runner-core/reconcile.ts, internal/k8s-provider,          *)
(* env-runner-k8s/src/db-transport.ts), over the placement the control     *)
(* plane writes.                                                           *)
(*                                                                         *)
(* A pass lists the placements, observes the cluster, and then acts on     *)
(* what it listed, however old that is by then; beside it a change stream  *)
(* reports phases.  A pod reads its token from a Secret when it starts: a  *)
(* Deployment is rebuilt by every apply, a StatefulSet is patched and keeps*)
(* its pods unless the template changed.  One runner, one workspace.       *)
(***************************************************************************)
EXTENDS Placement

CONSTANTS MaxFailures  \* bound on the failures of one behaviour, by mode

ASSUME RunnerAssumption == MaxFailures \in [Modes -> Nat]

VARIABLES work,     \* the workload: Deployment or StatefulSet, Secret, pods
          pass,     \* the runner's pass: where it stands and what it has read
          failures  \* failures that may still happen (a bound)

vars == <<mode, placementVars, work, pass, failures>>

Ordinals == 0..(MaxReplicas - 1)
NoPods == [o \in Ordinals |-> 0]
Up == {o \in Ordinals : work.pods[o] # 0}
Held == {work.pods[o] : o \in Up}

(* resolveDeploymentStatus and resolveStatefulSetStatus ('error', of a     *)
(* workload that makes no progress, is taken together with 'starting').    *)
PhaseOf(w) ==
  IF ~w.exists THEN "unknown"
  ELSE IF w.scale = 0 THEN "stopped"
  ELSE IF \E o \in Ordinals : w.pods[o] # 0 THEN "running" ELSE "starting"
Phase == PhaseOf(work)

AtEase == [at |-> "rest", act |-> "none", version |-> 0, replicas |-> 0,
           phase |-> "unknown", token |-> 0]

(* A workspace that was just placed: nothing of it exists. *)
Init ==
  /\ mode \in Modes
  /\ row = [desired |-> "running", version |-> 1, replicas |-> 1, phase |-> "unknown", applied |-> 0]
  /\ status = "starting"
  /\ live = {} /\ minted = 0
  /\ req = [r \in Requests |-> AtRest]
  /\ left = MaxRequests
  /\ proj = "none"
  /\ missed = {}
  /\ work = [exists |-> FALSE, scale |-> 0, secret |-> 0, pods |-> NoPods, built |-> 0]
  /\ pass = AtEase
  /\ failures = MaxFailures[mode]

-----------------------------------------------------------------------------
(* One pass over the workspace *)

onlyPass == <<placementVars, work, failures>>

(* transport.listPlacements, and what the row asks for: drift outranks the *)
(* phase, and is not applied while stopped.                                *)
PassLists ==
  /\ pass.at = "rest"
  /\ pass' = [AtEase EXCEPT
       !.at = "listed", !.version = row.version, !.replicas = row.replicas, !.phase = row.phase,
       !.act = IF row.desired = "stopped" THEN "stop"
               ELSE IF row.version > row.applied THEN "apply" ELSE "run"]
  /\ UNCHANGED onlyPass

(* provider.observeAll, and what reconcilePlacement then does about it;    *)
(* recordIfChanged when that is nothing.                                   *)
ActOn(phase) ==
  IF pass.act = "apply" \/ (pass.act = "run" /\ phase = "unknown") THEN "apply"
  ELSE IF pass.act = "run" /\ phase = "stopped" THEN "start"
  ELSE IF pass.act = "stop" /\ phase \notin {"stopped", "unknown"} THEN "stop" ELSE "record"

Observe ==
  /\ pass.at = "listed"
  /\ pass' = LET act == ActOn(Phase)
             IN  CASE act = "apply" -> [pass EXCEPT !.at = "mint", !.act = act, !.phase = "unknown"]
                   [] act = "start" -> [AtEase EXCEPT !.at = "mint", !.act = act]
                   [] act = "stop" -> [AtEase EXCEPT !.at = "act", !.act = act]
                   [] act = "record" /\ Phase # pass.phase ->
                        [AtEase EXCEPT !.at = "write", !.act = act, !.phase = Phase]
                   [] OTHER -> AtEase
  /\ UNCHANGED onlyPass

(* provisionToken, ahead of anything that brings the workload up. *)
Mint ==
  /\ pass.at = "mint"
  /\ minted' = minted + 1
  /\ live' = live \cup {minted + 1}
  /\ pass' = [pass EXCEPT !.at = "deliver", !.token = minted + 1]
  /\ UNCHANGED <<row, status, req, left, proj, missed, work, failures>>

Deliver ==
  /\ pass.at = "deliver"
  /\ work' = [work EXCEPT !.secret = pass.token]
  /\ pass' = [pass EXCEPT !.at = "act", !.token = 0]
  /\ UNCHANGED <<placementVars, failures>>

(* A workload brought to n replicas: the pods beyond are as good as gone,  *)
(* for one that is being terminated does not come back.                    *)
Scaled(w, n) ==
  [w EXCEPT !.scale = n, !.pods = [o \in Ordinals |-> IF o < n THEN w.pods[o] ELSE 0]]

(* provider.apply: a Deployment is deleted and created anew; a StatefulSet *)
(* is patched, and its pods stay unless the template differs.              *)
Built(pods) ==
  Scaled([work EXCEPT !.exists = TRUE, !.built = pass.version, !.pods = pods],
         IF mode = "static" THEN 1 ELSE pass.replicas)

(* provider.observe, right behind it. *)
Looks == pass' = [pass EXCEPT !.at = "write", !.replicas = 0, !.phase = PhaseOf(work')]

Apply ==
  /\ pass.at = "act" /\ pass.act = "apply"
  /\ \/ work' = Built(NoPods)
     \/ mode = "auto-scaling" /\ work' = Built(work.pods)
  /\ Looks
  /\ UNCHANGED <<placementVars, failures>>

(* provider.start and provider.stop, of a workload that may be gone.  The  *)
(* start of a StatefulSet scales to one.                                   *)
Scale ==
  /\ pass.at = "act" /\ pass.act \in {"start", "stop"}
  /\ work' = IF work.exists THEN Scaled(work, IF pass.act = "start" THEN 1 ELSE 0) ELSE work
  /\ Looks
  /\ UNCHANGED <<placementVars, failures>>

MWrite ==
  /\ pass.at = "write"
  /\ row' = [row EXCEPT !.phase = pass.phase,
                        !.applied = IF pass.act = "apply" THEN row.version ELSE @]
  /\ pass' = AtEase
  /\ UNCHANGED <<status, live, minted, req, left, proj, missed, work, failures>>

(* writeObserved: the version that was listed, after an apply only. *)
Write ==
  /\ pass.at = "write"
  /\ row' = [row EXCEPT !.phase = pass.phase,
                        !.applied = IF pass.act = "apply" THEN pass.version ELSE @]
  /\ pass' = AtEase
  /\ UNCHANGED <<status, live, minted, req, left, proj, missed, work, failures>>

-----------------------------------------------------------------------------
(* The change stream (startObservedWatch), which writes phases only, and   *)
(* crosses the pass: what a pass has seen may be written after it.         *)
WatchWrites ==
  /\ Phase # row.phase
  /\ row' = [row EXCEPT !.phase = Phase]
  /\ UNCHANGED <<status, live, minted, req, left, proj, missed, work, pass, failures>>

(* The cluster: a pod of the workload starts with the token of the Secret. *)
PodStarts(o) ==
  /\ work.exists /\ o < work.scale /\ work.pods[o] = 0
  /\ work' = [work EXCEPT !.pods[o] = work.secret]
  /\ UNCHANGED <<placementVars, pass, failures>>

-----------------------------------------------------------------------------
(* A call of the pass fails, or the runner is restarted: the pass is over  *)
(* (a rebuild may be over between its delete and its create).              *)
PassFails ==
  /\ failures > 0 /\ pass.at \notin {"rest", "listed"}
  /\ failures' = failures - 1
  /\ pass' = AtEase
  /\ \/ UNCHANGED work
     \/ /\ pass.at = "act" /\ pass.act = "apply" /\ mode = "static"
        /\ work' = [work EXCEPT !.exists = FALSE, !.scale = 0, !.pods = NoPods]
  /\ UNCHANGED <<placementVars>>

(* A pod is evicted, and its workload starts another. *)
PodDies(o) ==
  /\ failures > 0 /\ work.pods[o] # 0
  /\ failures' = failures - 1
  /\ work' = [work EXCEPT !.pods[o] = 0]
  /\ UNCHANGED <<placementVars, pass>>

(* What the control plane can see of the cluster; and a pass that brings   *)
(* the workload up with a token that has been revoked since it was minted. *)
Deployed == mode = "static" /\ work.exists
Minting == pass.act \in {"apply", "start"}
StalePass ==
  \/ pass.at = "deliver" /\ pass.token \notin live
  \/ pass.at = "act" /\ Minting /\ work.secret \notin live

clusterVars == <<work, pass, failures>>
Runner ==
  /\ PassLists \/ Observe \/ Mint \/ Deliver \/ Apply \/ Scale \/ Write
  /\ UNCHANGED mode
Cluster == (\E o \in Ordinals : PodStarts(o)) /\ UNCHANGED mode
Progress ==
  /\ \E r \in Requests : RequestSteps(r) \/ StartDrift(r, Deployed, StalePass)
  /\ UNCHANGED <<clusterVars, mode>>
Projects == Projection /\ UNCHANGED <<clusterVars, mode>>

(* The sweep is hourly and spares the tokens of the last hour; requests    *)
(* and passes take seconds, so that it finds none of them under way.       *)
Sweeps ==
  /\ pass.at = "rest" /\ \A r \in Requests : Idle(r)
  /\ SweepTokens
  /\ UNCHANGED <<clusterVars, mode>>

Next ==
  \/ Runner \/ Cluster \/ Progress \/ Projects \/ Sweeps
  \/ /\ (\E r \in Requests : RequestStarts(r, Deployed)) \/ Rescale
     /\ UNCHANGED <<clusterVars, mode>>
  \/ /\ WatchWrites \/ PassFails \/ \E o \in Ordinals : PodDies(o)
     /\ UNCHANGED mode

(* The runner's loop and the projection's run, a request that has begun    *)
(* goes on to its end, and the cluster does as it is told.  The change     *)
(* stream is promised nothing: the pass is "the floor underneath it".      *)
Fairness == WF_vars(Runner) /\ WF_vars(Cluster) /\ WF_vars(Progress) /\ WF_vars(Projects)

Spec == Init /\ [][Next]_vars
FairSpec == Spec /\ Fairness

-----------------------------------------------------------------------------
(* Properties *)

Row == [desired : {"running", "stopped"}, version : Nat, replicas : 0..MaxReplicas,
        phase : Phases, applied : Nat]
Request == [at : StartAt \cup {"idle", "revoke", "revokeOnly", "stopped", "rebuild", "resize"},
            resuming : BOOLEAN, replicas : 0..MaxReplicas]
Workload(tokens) == [exists : BOOLEAN, scale : 0..MaxReplicas, secret : tokens,
                     pods : [Ordinals -> tokens], built : Nat]
Pass(tokens) == [at : {"rest", "listed", "mint", "deliver", "act", "write"},
                 act : {"none", "apply", "run", "start", "stop", "record"}, version : Nat,
                 replicas : 0..MaxReplicas, phase : Phases, token : tokens]

TypeOK ==
  /\ mode \in Modes
  /\ row \in Row /\ row.applied <= row.version
  /\ status \in Status
  /\ minted \in Nat /\ live \subseteq 1..minted
  /\ req \in [Requests -> Request]
  /\ left \in 0..MaxRequests
  /\ proj \in Status \cup {"none"}
  /\ missed \in SUBSET Misses
  /\ work \in Workload(0..minted)
  /\ pass \in Pass(0..minted)
  /\ failures \in 0..MaxFailures[mode]

(* A version is recorded as observed only when the workload was built from *)
(* it, or from a later one: a bump that lands while an apply is under way  *)
(* is not lost behind it.                                                  *)
ObservedIsBuilt == row.applied <= work.built

Settled ==
  /\ \A r \in Requests : Idle(r)
  /\ pass.at = "rest"
  /\ row.desired = "running" /\ row.applied = row.version /\ Phase = "running"

(* A static workspace that is up holds a token the control plane accepts,  *)
(* whatever stops, starts, stale passes and failed ones went before        *)
(* (workspace-reconcile.ts:113), but for two orders of events.  "crossed": *)
(* a stop revoked live tokens when the row already said running again, or  *)
(* after a start had found nothing to rebuild.  "unseen": a start that came*)
(* back from a stop found no Deployment, because the apply that creates it *)
(* was still under way, with a token that the stop had revoked; nothing is *)
(* bumped then (workspace-reconcile.ts:88), and the pod comes up with it.  *)
UpPodsAuthenticate == (mode = "static" /\ Settled /\ missed = {}) => Held \subseteq live

(* "these are already inert (nothing holds them)" (lib/reconcile.ts:66):   *)
(* the sweep of superseded tokens leaves alone what a pod started with.    *)
SweptAreInert == [][(live' # {} /\ minted' = minted) => Held \cap (live \ live') = {}]_vars

(* The cluster ends up as desired: a stopped workspace at no replicas, a   *)
(* running one built from its last version, whatever the passes had listed *)
(* when the row was written.  A workload that was woken may be left at     *)
(* one: "the autoscaler reconciles to the true desired on its next tick"   *)
(* (auto-scaling-workload.ts:151) only if that differs from the row's.     *)
Converges ==
  <>[](/\ row.desired = "stopped" => work.scale = 0
       /\ row.desired = "running" => /\ work.built = row.version
                                     /\ work.scale \in {1, row.replicas})

(* The status the user sees ends up as what the runner sees, after the     *)
(* optimistic 'starting' and 'stopped' of the requests and the writes of   *)
(* passes and change stream that crossed.                                  *)
StatusSettles == <>[](status = Projected(row.phase) /\ row.phase = Phase)
=============================================================================

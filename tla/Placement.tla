----------------------------- MODULE Placement -----------------------------
(***************************************************************************)
(* A workspace's placement as the control plane writes it                  *)
(* (control-plane/src/services/placement.ts, workspace-reconcile.ts,       *)
(* workspace-lifecycle.ts, env-projection.ts, db/workspace-tokens.ts).     *)
(*                                                                         *)
(* The control plane never touches the cluster.  It records what it wants  *)
(* in workspace_placements, a runner makes it so and reports back, and a   *)
(* projection turns the report into workspaces.status.  Start, stop and    *)
(* restart are sequences of such writes, with the workspace's tokens       *)
(* revoked on the way down; two requests may be under way at once.         *)
(***************************************************************************)
EXTENDS Naturals, FiniteSets

CONSTANTS Modes,       \* the runtime modes put to the test
          Requests,    \* slots of the requests that may be under way at a time
          MaxRequests, \* bound on the requests of one behaviour
          MaxReplicas, \* bound on spec.replicas
          Keep         \* tokens the sweep leaves alone (keep = 2)

ASSUME PlacementAssumption ==
  /\ Modes \subseteq {"static", "auto-scaling"}
  /\ Requests \subseteq Nat
  /\ MaxRequests \in Nat
  /\ MaxReplicas \in Nat \ {0}
  /\ Keep \in Nat \ {0}

VARIABLES mode,     \* spec.runtimeMode, fixed at creation
          row,      \* workspace_placements: what is desired, what was observed
          status,   \* workspaces.status
          live,     \* workspace_tokens that are not revoked, by order of minting
          minted,   \* tokens minted so far
          req,      \* the requests: where each stands and what it has read
          left,     \* requests that may still come (a bound)
          proj,     \* the status the projection pass is about to write, or "none"
          missed    \* why a start may have left alone what it must rebuild (history)

placementVars == <<row, status, live, minted, req, left, proj, missed>>

Phases == {"running", "stopped", "starting", "unknown"}
Status == {"running", "stopped", "starting"}
Idle(r) == req[r].at = "idle"
AtRest == [at |-> "idle", resuming |-> FALSE, replicas |-> 0]
Leave(r) == req' = [req EXCEPT ![r] = AtRest]
Step(r, p) == req' = [req EXCEPT ![r].at = p]

(* A request arrives (in the first slot that is free, which one it is      *)
(* makes no difference) and gets to its first await.                       *)
Comes(r) ==
  /\ Idle(r) /\ \A q \in Requests : q < r => ~Idle(q)
  /\ left > 0 /\ left' = left - 1
Arrives(r, p) == Comes(r) /\ Step(r, p)

StartAt == {"check", "drift", "bump", "floor", "run", "mark"}

(* A start that will not look again: it has found nothing to rebuild, and  *)
(* is about to set the phase; or it is about to find so.                   *)
Committed ==
  \E r \in Requests : \/ req[r].at \in {"floor", "run"}
                      \/ req[r].at \in {"drift", "bump"} /\ ~req[r].resuming

Misses == {"crossed", "unseen"}
Notes(why, when) == missed' = IF when THEN missed \cup {why} ELSE missed

-----------------------------------------------------------------------------
(* Writes of the row.  setDesiredReplicas, bumpWorkspaceSpec and           *)
(* ensureReplicaFloor each bump the version in the same statement.         *)
Bumped(n) == [row EXCEPT !.version = @ + 1, !.replicas = n]

(* setDesiredPhase away from 'running': the phase, and then the tokens,    *)
(* which a start may have crossed.                                         *)
RevokeAll ==
  /\ live' = {}
  /\ Notes("crossed", live # {} /\ (Committed \/ row.desired = "running"))

-----------------------------------------------------------------------------
(* stopWorkspace and the idle collector; scale-to-zero ends after the      *)
(* revocation.                                                             *)
Stop(r) ==
  /\ \/ Arrives(r, "revoke")
     \/ mode = "auto-scaling" /\ row.desired = "running" /\ Arrives(r, "revokeOnly")
  /\ row' = [row EXCEPT !.desired = "stopped"]
  /\ UNCHANGED <<status, live, minted, proj, missed>>

StopRevokes(r) ==
  /\ req[r].at \in {"revoke", "revokeOnly"}
  /\ RevokeAll
  /\ IF req[r].at = "revoke" THEN Step(r, "stopped") ELSE Leave(r)
  /\ UNCHANGED <<row, status, minted, left, proj>>

StopMarks(r) ==
  /\ req[r].at = "stopped"
  /\ status' = "stopped"
  /\ Leave(r)
  /\ UNCHANGED <<row, live, minted, left, proj, missed>>

-----------------------------------------------------------------------------
(* startWorkspaceInstance: the status decides whether the pod is rebuilt;  *)
(* a workspace that reads 'running' is asked for a live token.             *)
MStart(r) ==
  /\ Arrives(r, "drift")
  /\ UNCHANGED <<row, status, live, minted, proj, missed>>

Start(r) ==
  /\ Comes(r)
  /\ req' = [req EXCEPT ![r].at = IF status = "running" THEN "check" ELSE "drift",
                        ![r].resuming = status # "running"]
  /\ UNCHANGED <<row, status, live, minted, proj, missed>>

StartChecksToken(r) ==
  /\ req[r].at = "check"
  /\ req' = [req EXCEPT ![r].at = "drift", ![r].resuming = (live = {})]
  /\ UNCHANGED <<row, status, live, minted, left, proj, missed>>

(* reconcileWorkspacePod: the markers are read off a Deployment, which an  *)
(* auto-scaling workspace does not have, and without one nothing is bumped,*)
(* forced or not: be it that an apply under way is about to create it with *)
(* a token that was revoked since (stale).                                 *)
Unfloored == IF mode = "static" THEN "run" ELSE "floor"

StartDrift(r, deployed, stale) ==
  /\ req[r].at = "drift"
  /\ Step(r, IF deployed /\ req[r].resuming THEN "bump" ELSE Unfloored)
  /\ Notes("unseen", req[r].resuming /\ ~deployed /\ stale)
  /\ UNCHANGED <<row, status, live, minted, left, proj>>

StartBumps(r) ==
  /\ req[r].at = "bump"
  /\ row' = Bumped(row.replicas)
  /\ Step(r, Unfloored)
  /\ UNCHANGED <<status, live, minted, left, proj, missed>>

(* ensureReplicaFloor: a static spec has no count to raise. *)
StartFloors(r) ==
  /\ req[r].at = "floor"
  /\ row' = IF row.replicas = 0 THEN Bumped(1) ELSE row
  /\ Step(r, "run")
  /\ UNCHANGED <<status, live, minted, left, proj, missed>>

StartRuns(r) ==
  /\ req[r].at = "run"
  /\ row' = [row EXCEPT !.desired = "running"]
  /\ Step(r, "mark")
  /\ UNCHANGED <<status, live, minted, left, proj, missed>>

StartMarks(r) ==
  /\ req[r].at = "mark"
  /\ status' = "starting"
  /\ Leave(r)
  /\ UNCHANGED <<row, live, minted, left, proj, missed>>

(* POST restart, and a transfer's change of owner: bumpWorkspaceSpec reads *)
(* the live count and writes it back with the new spec, and the phase and  *)
(* the status follow.                                                      *)
Rereads(r, p) ==
  /\ Comes(r)
  /\ req' = [req EXCEPT ![r].at = p, ![r].replicas = row.replicas]
  /\ UNCHANGED <<row, status, live, minted, proj, missed>>

Restart(r) == Rereads(r, "rebuild")

RestartBumps(r) ==
  /\ req[r].at = "rebuild"
  /\ row' = Bumped(req[r].replicas)
  /\ Step(r, "run")
  /\ UNCHANGED <<status, live, minted, left, proj, missed>>

(* A change of the configuration or the resources of a workspace that      *)
(* reads 'running', POST rebuild of one that has a Deployment: the bump    *)
(* leaves desired_phase alone, and only 'starting' follows.  The admin's   *)
(* sweep writes nothing after the bump.                                    *)
Rebuild(r, deployed) ==
  /\ status = "running" \/ deployed
  /\ Rereads(r, "resize")

RebuildBumps(r) ==
  /\ req[r].at = "resize"
  /\ row' = Bumped(req[r].replicas)
  /\ Step(r, "mark") \/ Leave(r)
  /\ UNCHANGED <<status, live, minted, left, proj, missed>>

(* setDesiredReplicas, of the autoscaler. *)
Rescale ==
  /\ mode = "auto-scaling" /\ row.desired = "running"
  /\ left > 0 /\ left' = left - 1
  /\ \E n \in 0..MaxReplicas : n # row.replicas /\ row' = Bumped(n)
  /\ UNCHANGED <<status, live, minted, req, proj, missed>>

-----------------------------------------------------------------------------
(* sweepSupersededWorkspaceTokens: hourly, all but the newest Keep of the  *)
(* live ones (that are past their grace).                                  *)
Superseded == {t \in live : Cardinality({u \in live : u > t}) >= Keep}

SweepTokens ==
  /\ Superseded # {}
  /\ live' = live \ Superseded
  /\ UNCHANGED <<row, status, minted, req, left, proj, missed>>

(* runEnvProjection: lists the observations with the statuses, and writes  *)
(* a status where the two differ (mapObservedToStatus, built-in).          *)
MProjected(phase) == phase
Projected(phase) == IF phase = "unknown" THEN "stopped" ELSE phase

MProjectLists ==
  /\ proj = "none"
  /\ status # "starting" /\ Projected(row.phase) # status
  /\ proj' = Projected(row.phase)
  /\ UNCHANGED <<row, status, live, minted, req, left, missed>>

ProjectLists ==
  /\ proj = "none"
  /\ Projected(row.phase) # status
  /\ proj' = Projected(row.phase)
  /\ UNCHANGED <<row, status, live, minted, req, left, missed>>

ProjectWrites ==
  /\ proj # "none"
  /\ status' = proj
  /\ proj' = "none"
  /\ UNCHANGED <<row, live, minted, req, left, missed>>

-----------------------------------------------------------------------------
RequestStarts(r, deployed) == Stop(r) \/ Start(r) \/ Restart(r) \/ Rebuild(r, deployed)
RequestSteps(r) ==
  \/ StopRevokes(r) \/ StopMarks(r) \/ StartChecksToken(r) \/ StartBumps(r)
  \/ StartFloors(r) \/ StartRuns(r) \/ StartMarks(r) \/ RestartBumps(r) \/ RebuildBumps(r)
Projection == ProjectLists \/ ProjectWrites
=============================================================================

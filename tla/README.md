# Verification of the Qube agent platform

TLA+ models of the parts of this repository where actors race for shared state,
the TLC runs that check them on small instances, and TLAPS proofs about them for
instances of any size. Paths are relative to the repository; `cp/` stands for
`control-plane/src/`.

| Module | What it is |
|---|---|
| `TurnGate` | turn admission of one workspace |
| `TurnGateProofs` | its theorems |
| `Fleet` | `TurnGate` composed with the replicas: router, autoscaler, the way of a turn to its pod |
| `FleetProofs` | that it implements `TurnGate`, and its theorems |
| `SessionLock` | abstract: what a session's turn claim promises |
| `SessionTurn` | claim, dispatch, stream, end, draft, shutdown and recovery of one session's turns |
| `SessionTurnProofs` | its theorems, and that it implements `SessionLock` |
| `AgentCalls` | agent-to-agent calls: outcome, leases, posting, sweep |
| `AgentCallsProofs` | its theorems |
| `CallContract`, `CallContractProofs` | abstract: what a call comes to; that `AgentCalls` implements it |
| `JobQueue` | the agent-session queue, its workers and its process |
| `Schedules` | a schedule, its timer and the routes that change it |
| `BatchRuns` | a batch run: creation, cancellation, the handler of its jobs |
| `Scheduler` | the three composed with slots, thread locks, replies and lost jobs |
| `JobContract`, `JobContractProofs` | abstract: what a job comes to; that `Scheduler` implements it |
| `Placement` | what the control plane wants of a workspace: start, stop, restart, tokens, status |
| `EnvRunner` | `Placement` composed with the runner's pass and the cluster |
| `SchedulerProofs`, `EnvRunnerProofs` | theorems about `Scheduler` and `EnvRunner` |
| `MCTurnGate`, `MCFleet`, `MCSessionTurn`, `MCAgentCalls`, `MCScheduler`, `MCEnvRunner` | the instances TLC checks |

## 1. The system

A *workspace* is one deployment of an agent (claude-code, codex, ...) behind an
HTTP server. A *session* is a conversation with it. A *turn* is one message and
everything the agent does until it ends. The control plane (several processes
over one Postgres) starts turns, follows their event streams, keeps their status
and passes results between agents. A scheduler starts turns on a timer or in
batches. Environment runners make workspaces exist on a cluster.

### Inventory

| Component | State it keeps | Operations | What is hard | What makes it correct |
|---|---|---|---|---|
| Turn gate `cp/services/chat/turn-gate.ts` | slots taken, FIFO of waiters, a timer each | acquire, release, timer, drain, drainAll | capacity changes under running turns; double release; timer against grant | exact count, cap, order, no idle capacity, everybody answered |
| Replica router `cp/services/replica-router.ts` | snapshot of ready replicas and capacity, affinity | refresh, resolve, mark draining | a snapshot is stale as soon as it is taken | the gate copes with any snapshot |
| Session turn `cp/services/chat/executeChat.ts`, `session-turn.ts`, `cp/services/db/sessions.ts`, `cp/lib/sse.ts` | `turn_claim` and its expiry, `chat_status`, `pending_message`, `activeStreams` per process | claim, renew, adopt, release; dispatch; intercept, evict; end; drain the draft | racing requests; each step failing alone; an old stream's end after its successor's start | one turn per session; nothing leaks; registry exact; status settles; drafts survive |
| Recovery and shutdown `cp/lib/session-recovery.ts`, `cp/index.ts` | none of its own | list sessions in `agent`, adopt, idle, re-dispatch; drain on SIGTERM | two processes on one session; the dead one's claim is still live | a turn is followed to its end; no session stays busy |
| Stream consumer `internal/sse-consumer/src/run-turn.ts` | reconnect used, end seen | consume, reconnect once, idle timeout | which of abort, timeout, end and break came first | a turn is finalised once |
| Agent server `agents/claude-code/src/server.ts` (and `internal/acp-adapter/acp-server.ts`) | a sink per session: writer, buffer, `disconnected` | chat, reconnect, respond, interrupt | a writer replaced while it writes; a buffer flushed while it fills | events reach whoever reads |
| Agent calls `cp/services/chat/agent-call-delivery.ts`, `cp/services/db/agent-calls.ts`, `cp/mcp/tools/agent.ts` | `agent_calls` rows: status, delivery, lease, question, completion | call, settle, ask, post, mark, sweep, read | many replicas post for one caller; leases run out; turns overlap the settling of earlier ones | posted once, never swallowed, every call gets an outcome, every result is taken care of |
| Autoscaler `cp/services/workspace-autoscaler.ts` | idle clocks, scale-down clocks | scale up, down, stop | acts on counts read before an await; samples demand | the size follows the demand, marks do not stay, an idle workspace rests, a busy one is not left down |
| Workspace lifecycle, autostart, reconcile `cp/services/workspace-*.ts` | `workspaces.status` | start, stop, restart, destroy, wait for ready | start against stop; a status written by two parties; tokens revoked by one and counted on by the other | the status settles on what is observed; what is up can authenticate |
| Placements and projection `cp/services/placement.ts`, `env-projection.ts` | `workspace_placements`: desired phase, spec and its version, observed phase and version | place, set phase, set replicas, bump, floor, project | level-triggered control over a stale view | a bump is never lost; observed follows desired |
| Environment runner `internal/env-runner-core/reconcile.ts` | a pass's view | list, observe, mint, apply, start, stop, report; change stream | the desired state moves during a pass; a pass fails half-way | the cluster ends up as desired |
| Kubernetes provider `internal/k8s-provider/` | none | apply, start, stop, observe, deliver a token | a Deployment is rebuilt, a StatefulSet keeps its pods | pods hold a token that is accepted |
| Environment tunnel `internal/env-tunnel/` | streams of a multiplexer | open, relay, reconnect | half-open connections | not modelled |
| Workspace tokens `cp/services/db/workspace-tokens.ts` | live tokens of each workspace | mint, revoke all, look for a live one, sweep the superseded | rotation against a pod that keeps what it read | a workspace that is up has a valid token |
| Runtime meter, usage ledger `cp/services/runtime-meter.ts`, `cp/services/usage/` | intervals, cursors | observe, close, pull, settle | repeated or missed pulls | usage counted once |
| Scheduler `scheduler/src/handler.ts`, `db.ts`, `lost-job.ts`, `index.ts` | workspace slots, thread locks, thread sessions | claim slot, run, reply, bind, release; sweep; notify of lost jobs | a process that dies mid-job; heartbeats lost under a live handler; un-awaited writes | slots back what runs and come back; the source is dealt with once, and nobody is forgotten |
| Schedules `cp/routes/workspaces/schedules.ts`, `cp/lib/jobs.ts` | the row, its timer | create, patch, delete, run now, fire | requests overlap each other and the timer | an enabled schedule fires |
| Batch runs `cp/routes/batch-runs.ts` | status of run and tasks | create, cancel, claim, finish | three parties write the run's status | a run closes |
| Skill reload queue, notifications, channel gateway, transfers, idle collection, skills | queues, deduplication tables | enqueue, retry, deliver | retries and duplicates | at least once |
| Proxy and system-workspace routes `cp/routes/proxy.ts`, `system-workspaces.ts` | none | reconnect or chat beside the claim | they bypass claim and gate | see the hazards |
| Memory mount, sandbox and browser services, web, charts, SDKs | their own | | | outside the core |

### How they interact

- `executeChat` takes the *claim* (Postgres), then a *slot* (gate, memory), then
  starts the workspace if need be, then calls the agent, then hands claim and
  slot to the stream's interceptor. Every exit in between gives back what was
  taken.
- The interceptor registers the stream, evicting one under the same key through
  its `onReplaced` callback, persists the events in a serial queue, and at the
  end settles the session, frees the slot and runs the after-turn hook: settle
  the agent calls, drain the draft.
- The agent writes to whichever connection attached last, and to a buffer when it
  has none. Recovery and `runTurn` re-attach through `/reconnect`.
- An agent's tool call reaches the control plane over MCP; `call_agent` starts a
  turn in another session and leaves an `agent_calls` row, which the end of that
  turn, the sweep or any replica turns into a message to the caller, itself a turn
  started by `executeChat`.
- The router's refresh and the gate share a snapshot; the refresh's continuation
  runs `drainAll`.
- Channels, schedules and batch runs put jobs into one pg-boss queue; the scheduler
  process runs them with thirty workers, one slot of the job's workspace each, and
  answers the channel. A monitor fails the jobs of a process that died, and a
  dead-letter worker tells their source.
- Start and stop write the placement row only. A runner lists the rows, observes the
  cluster, mints tokens, applies, and writes the observation back; a projection turns
  it into the workspace's status, which the requests have set optimistically before.

## 2. What is modelled

### TurnGate

One workspace: the gate's maps are keyed by workspace and nothing crosses keys. `queue`,
`active` are `waiters`, `activeTurns`; `ready`, `perReplica` are the router's snapshot
(0 for a missing capacity); `drainDue` says that a refresh has run and its continuation
has not. `status` is what each turn's last `acquireTurn` call came to; one whose call is
over may ask again. An action is a synchronous stretch of JavaScript: `Acquire` (three
exits), `Timeout`, `Release` (idempotent, and drains), `RouterRefresh` (any new
snapshot), `DrainAll`. `GrantCount` is the loop of `drain` in closed form.

Properties: `BooksBalance` (count = holders, queue = waiters, each once),
`NoIdleCapacity`, `AdmissionWithinCap`, `FifoAdmission`, and `WaiterAnswered`
(liveness). The cap may be exceeded by turns that ran before it shrank, and an
arrival may pass the queue between a refresh and its drain: both are what the
code does and are written into the properties.

### Fleet

One auto-scaling workspace, on top of `TurnGate`, whose variables and actions it
keeps. `row` is the placement as far as the autoscaler sees it, `scale` and `pods` the
StatefulSet, `readyIds` and `draining` the router's maps; `scaler` is the
autoscaler's pass between two awaits (a decision to stop, grow or shrink, the look for
turns on the marked replicas), `lowRounds` and `idleSince` its clocks. `turn` follows a
turn from its slot to its pod: it wakes a stopped workspace (`Wake`), is sent to a
replica of the router's choice or to the default address (`Send`), is recorded when the
session starts (`Record`), and ends, or is lost with its pod. Behaviours begin at a
boot: the turns the last process left running are adopted, run on, and hold no slot.
Nor does a turn that the control plane lets go of while its agent goes on (`LetGo`: an
error after the agent's acceptance leaves `executeChat` through its `finally`,
`executeChat.ts:197-269`; or the stream breaks and its one reconnect fails,
`run-turn.ts:281-330`, `sse.ts:621-625`). Such a stray may leave its session reading
`agent`, which the autoscaler's look at the marked replicas then still counts.

`GateSpec` says that `Fleet` implements `TurnGate`: a release by a turn that holds no
slot, for instance, would break it. `IdleIsIdle`: the autoscaler's measure of demand,
which it stops the workspace on, misses no turn but the adopted ones and those that were
let go of; on every other path a slot is given back no sooner than its turn is over.
`OneAtATime`: a pass that decides, awaits and then writes takes one replica off and
never goes below the floor. The others are about what the passes come to: `MarksClear`
(marks go when the low rounds do), `SizeFollows` (a surplus replica is given up although
new turns keep coming, since marks keep them off it), `QuietRests`, `DemandServed` (a
stop that crosses a start is made good). A session left reading `agent` holds its
replica until its next turn, a stop or a boot corrects it, which nobody is obliged to
do: `SizeFollows`, and without scale-to-zero `QuietRests`, except it.

Abstractions: a turn stands for one in any session, so its session's replica is
whichever it may be; the round-robin cursor is any order; a workspace's status is read
off the cluster, the runner's pass is one step and pods do not fail (`Placement` and
`EnvRunner` have those); the idle time has run out or not. What a pass lists is read
with its decision: nothing but a wake writes the count beside it. On which pod a stray
runs is not followed, since nobody asks. Left out:
`auto_start` off, the `error` state, a change of the configuration under a pass, and what
`call_agent` sends to a workspace (`mcp/tools/agent.ts:768`), which never asks the gate.

### SessionTurn and SessionLock

`SessionLock` says what the claim promises: one owner, a newcomer only while
there is none, an owner that renews loses it only by giving it up or to a replica
that recovers the turn. `SessionTurn` is how the code does it. A *run* is one
attempt to run or recover a turn in one process; its `stage` is how far it is
between two awaits.

| Variable | In the code |
|---|---|
| `chat`, `claim`, `draft` | `chat_status`, `turn_claim` (unexpired), `pending_message` of the row |
| `registry` | `activeStreams` of each process |
| `holding`, `slot`, `carry` | the renewal timer, the gate slot, the draft a run took from the row |
| `superseded`, `retried`, `reason` | the closure's flags in `sse.ts` and `run-turn.ts` |
| `turn`, `asked`, `writer` | the agent's side: its turn, a question on its way, the connection it writes to |
| `up`, `toRecover` | life of each process, and the boot that found the session in `agent` |

Actions follow the code's order: claim, slot, dispatch, hand-over to the
interceptor, question, end, settling in two steps (status, then claim), stream
loss and one reconnect, close, the `finally` of the turn in its three exits,
renewal, expiry, crash, SIGTERM, boot, the four exits of recovery. Faults
(`Trouble`) are crashes, SIGTERM, broken streams, a lost agent and writes that
fail after the agent accepted.

Abstractions: the slot is always granted or refused (the gate is a module of its
own); the workspace's start is one outcome; events other than a question and the
end are not told apart; what the agent wrote last may be lost with the
connection; the buffer is one piece. A session here exists already: one that is
created by its first turn has no rival before it has an id.

### AgentCalls and CallContract

`CallContract` says what a call comes to: one outcome; one fate of its result, which
follows the outcome (delivered only if posted, read only if finished, dropped only if
finished or asked); and one post of a result that has no fate yet, unless a fault lets
more happen. `ContractSpec` says that the rows with their leases implement it.

In `AgentCalls` there are the rows of `agent_calls`, the handlers and the sweeper. Each
stream has a serial queue of its own (`sse.ts`), and a session is free before its turn
is settled (`agent.ts:466-467`). So a running turn has a handler named after its
session, which tells the caller of a question, and every turn that is over is settled by
a handler from `Settlers` (`Of` says whose): new turns of the session, their calls,
questions and ends come between any two steps of it. A handler leases rows, posts them
as one turn and marks them; every await is a step, so that turns, sweeps, reads and
other handlers come in between. A session's claim and status are one value here
(`turn`), in the detail that posting can see: claimable or not, and in whose hands. A
turn the agent took, after which a write of `executeChat` failed (`SetAdrift`,
`executeChat.ts:197-209`), runs on with nobody following it; a post that came to this is
marked failed and posted again. `posted`, `questioned` and `own` (the calls that ran
when a settler's turn ended) are history.

`HeldBack`: the end of a turn does not close the call into its session while a call
that the session had running at that end still runs, unless that one asked its user. Of
a call that a later turn makes between the count and the close
(`agent-call-delivery.ts:157-159`) it says nothing: that one is not held back for
(section 6).

Left out: a call that is not tracked (its caller polls), the cap on deliveries per
session, the sweep's grace period and batch size, draining, message texts. How many
ended turns of a session are being settled at once is a bound of the instance. A lease
is taken together with the lookups and the claim that follow it. A dead replica's
session is claimable at once, as after the expiry of its claim.

### JobQueue, Schedules, BatchRuns, Scheduler

One scheduler process, one workspace, one channel thread, one schedule, one batch
run. `JobQueue` holds a job's row in pg-boss (`job`), where its handler stands
(`pc`), the process (`up`), the dead-letter copies (`dlq`). pg-boss itself is
outside the repository and is modelled from the options `scheduler/src/index.ts`
gives it: no retry, a heartbeat, a twelve-hour expiry. What is easily missed: once
the monitor has failed the job of a process that lives, its handler still runs to
its end.

`Schedules` has the routes as they are: PATCH reads, writes, cancels the timer it
read and arms a new one, each a query of its own; the job reads the row and, for a
one-time schedule, closes it in a second statement. `BatchRuns` has the claim of a
task as count and write, the check for completion behind the outcome, and the
canceller's list. `Scheduler` adds slots (count and insert are apart: the claim
is one statement, but two of them do not see each other's rows), the thread's
advisory lock and its session, the early bind that nobody awaits, the reply and its
failures, the error reply, the lost-job notice with its retries, both sweeps, crash
and restart, and the deletion of the workspace.

`odd` (history) names the jobs an accident happened to, so that a property can say for
which jobs it speaks; `late` (history) the sessions that an early bind put into the
thread's row after its own turn had let go of the lock, which is no accident. `Budget`
(of the MC module) says which kinds of jobs are put together and how many accidents they
meet: a crash, a stalled heartbeat, a slot held for three hours, a lost lock, a failed
early bind, reply or notice, a missing token, a deletion. Each behaviour has jobs of one
kind, since kinds share only slots and workers.

Properties: `SlotBacksRun` and `SlotReclaimed` (a slot is there while its job runs
and comes back whatever happens), `JobSpec` (the scheduler implements `JobContract`: a
job is run at most once, its verdict is final, and its source is dealt with once, before
the handler ends or by the notice of its loss) and `SourceHears` (no message is
forgotten), `CancelFindsTurn` (the thread's row names the session whose turn runs, or one
that a late early bind of an earlier turn put there), `EnabledHasTimer`, `RunCloses`. To
deal with a source is to answer it, to send it an error or the notice, to have
the one send refused (`handler.ts:464-467`, `489-493`), or to have nothing to say
(`276-279`); in the last two cases the channel hears nothing, and nothing tries again.

Left out: prompts and their assembly, status callbacks, replies streamed while the
turn runs, template schedules, the clean-up of old logs, manual jobs, batches over
several workspaces.

### Placement and EnvRunner

One workspace on a built-in environment, one runner. `row` is the placement
(`desired`, spec `version` and `replicas`, observed `phase`, `applied` version),
`status` the workspace's, `live` and `minted` its tokens; a request is a record of
where it stands between two awaits and what it has read (`resuming`, the replica
count). `work` is the workload with its Secret and its pods (a pod is the token it
started with), `pass` what the runner's pass has listed and decided. A Deployment is
deleted and created by every apply; a StatefulSet is patched, and whether its
template differs, so that its pods are replaced, is left open.

Actions: stop and scale-to-zero, start with its token check, drift, bump, floor, phase
and status, restart and the change of owner of a transfer (which bumps, and sets phase
and status, `workspace-transfer.ts:446-451`), a rebuild (a change of the configuration
or the resources, POST rebuild, the admin's sweep: a bump that leaves the desired phase
alone), a change of the count, sweep, projection (list, write); list, observe, mint,
deliver, apply or scale, write; the change stream; pods that start and die; a pass that
fails anywhere, a rebuild between its delete and its create included.

Properties: `ObservedIsBuilt` (no bump is lost behind an apply), `UpPodsAuthenticate`,
and the liveness properties `Converges` (the cluster ends up as desired, from any
overlap of requests, stale passes and failures) and `StatusSettles`. `missed` (history)
names the two orders of events after which `UpPodsAuthenticate` does not speak, since
the code does leave pods with a revoked token then. `crossed`: a stop revoked live
tokens after a start had found nothing to rebuild (its drift check is behind it and
bumps nothing), or when the row already said running again. `unseen`: a start that came
back from a stop found no Deployment and bumped nothing (`workspace-reconcile.ts:88`),
while a pass was about to create it with a token which that stop had revoked.

Abstractions: an apply or scale is followed by its observation at once, and its
write comes later; a surplus pod counts as gone; `error` is taken with `starting`;
the change stream's report is one step. A start of a workspace that is not running
always rebuilds, so the template's version is not needed. The sweep is hourly and
spares what is younger than an hour: it finds no request and no pass under way.

## 3. Runs

All runs finish within five minutes with two workers. `expect: violation` runs
show where a comment of the code says more than the code does (section 6).

| Run | Instance | What it shows |
|---|---|---|
| `gate` | 5 turns, queue of 2, at most 2 replicas of at most 2 | All safety properties of the gate, and that each waiter is answered. Turns exceed slots plus queue, capacity can be none, unknown, less than what runs, or more than all |
| `fleet` | 2 turns, queue of 1, at most 2 replicas of 1, floor 0, scale-to-zero, 2 low rounds; fair | The gate stays the gate; no demand means no turn but adopted ones and strays, and replicas go one at a time; marks clear, the size follows, the workspace rests and comes back, through boots with adopted turns, stale snapshots and crossing stops and starts |
| `session` | 2 runs, 2 processes, 2 faults, writes may fail; runs symmetric | Registry exact, nothing leaks, no overlap without a fault, drafts kept, the claim implements `SessionLock`, also where two faults meet, as a shutdown during a take-over |
| `session_live` | 2 runs, 2 processes, 1 fault, fair | `agent` never stays for good |
| `calls_chain` | a called session calls a third; 2 prompts or questions, up to 2 ended turns of the middle session being settled while a third runs | An answer is held back while a call runs that its session had running when the turn ended, whatever later turns and settlings come between; the contract of a call, with all those handlers at work |
| `calls_lossy` | one call, 2 prompts or questions, 2 attempts, 1 fault, fair | The contract under faults, a write that fails after the agent took a turn included; every call gets an outcome, every result is delivered, read or dropped |
| `scheduler` | 2 jobs of one kind, 1 slot, 2 workers, 1 request at a time; 2 accidents for messages, 1 for the others; fair | The contract of a job, slots, thread binds, timers and batch runs, through crashes and restarts |
| `env_runner` | both runtime modes, 2 requests, 2 replicas, sweep keeps 2, 1 failure of a static workspace; fair | No bump lost, pods can authenticate, cluster and status settle |
| `parked`, `settled_early`, `fires_twice`, `swept_inert` | the smallest instance that shows it | one finding each |

Bounds. Two runs are a holder and its successor, two processes the one that dies and the
one that recovers; the proofs cover any number. A run that is over may stand for a new
attempt, so behaviours are not bounded in length except by faults. In the calls, two
calls into one session are what makes rows share a settlement, and a chain of two is
what makes an answer interim; two prompts give a turn that a person started before,
between or after them. Two settlers of the middle session are one stream that is between
its count and its close, and a later turn's that ends there too. Two jobs are what a
lock, a slot or a batch's end is contended by, and two accidents are a lost job and its
lost notice. Two requests are any overlap of start, stop and restart (each is up to six
steps, around a pass of six); two replicas tell a wake to one from the row's count. In
`fleet` two turns ask for two replicas or wait for one, and with two replicas one is
surplus; two rounds are a first and a last. `MaxRequests` and `MaxFailures` bound the
versions and tokens, which only grow. `CHECK_DEADLOCK FALSE` is used where the system
rests: nobody need prompt, and the bounds on prompts are then used up.

### Fairness

- Gate: `DrainAll` (a pending microtask) and `Timeout` (a timer). No fairness of
  `Release`: a turn may never end, and waiters are answered all the same.
- Fleet: crons fire again, the runner and the cluster go on, an idle time runs out, and a
  turn goes on: its wait, its dispatch and the turn itself end (the 24-hour cap).
  Nobody is obliged to start one, to let go of one, or to correct what a session reads.
- Session: a run's next step and a process's (restart by the orchestrator, exit
  after SIGTERM, recovery at boot) are weakly fair; so are the expiry of a lease
  nobody renews and the end of the agent's turn, which the interceptor's 24-hour
  cap bounds. Nobody is obliged to start, queue or answer.
- Scheduler: the scheduler's own work as a whole is weakly fair, and no job, worker
  or sweep of its own: the properties do not need more. A turn ends (the agent's
  doing, or the idle timer's). A request on a batch run that has begun goes on.
- Placement: the runner's loop, the projection, the cluster and a request that has
  begun each go on. The change stream is promised nothing, as reconcile.ts has it.
- Calls: handlers go on, the sweep runs again, a turn ends, a lease runs out, a
  dead replica's sessions are recovered. Prompts, answers and reads are not fair, nor is
  the restart of a replica that lives, which alone would find a session set adrift.

## 4. Proofs

Each theorem is about `Spec`, for all values of the constants that satisfy the
module's assumption; TLC evaluates the assumptions in every run.

- **TurnGate** (`Turns` finite, `MaxQueue` positive). The invariant is
  `TypeOK /\ BooksBalance` with `NoIdleCapacity`. `BooksBalance` carries the
  rest: a release may decrement because some turn is held, and the waiters a
  drain grants are held by nobody because the queue has each once. The drain is
  proved once, as a lemma on `DrainFrom` for any number of slots left: it grants
  the first `k` of the queue, so the holders grow by exactly `k`
  (`Cardinality` of a disjoint union). From it follow `BooksAlwaysBalance`,
  `WorkConserving`, and the two action properties `AdmittedWithinCap` and
  `AdmittedInOrder`.
- **Fleet** (any turns, replicas, floor and rounds). `FleetImplementsGate` is a step
  simulation with the identity as its mapping: each action of the fleet is one of the
  gate or leaves its variables alone, so all that is proved of the gate holds under
  replicas that come and go. `FleetTypeCorrect` takes the gate's typing from it; the one
  lemma with content is `TargetRange`. `GateHolds` carries the gate's theorems over.
  `AdmittedWithinReplicas` restates the cap in terms of replicas, which `Snapshot`
  allows: the gate's `ready` is how many the router knows. `IdleAlwaysIdle` rests on
  `Admitted`: a turn on its way to a pod holds its slot, and one that gave its slot back
  is nowhere or a stray, so that the count sees every turn that came through the gate
  and is still followed. `OneReplicaAtATime` rests on `Decision`: between a pass's
  decision to shrink and its write the row's count stays one more than what it will
  write, and a decision to grow is overtaken by nothing larger.
- **SessionTurn** (any set of runs and processes, any number of faults). `RegistryExact`
  and `NothingLeaks` are not inductive alone. `Linked` adds what ties the sets to the
  stages: an evicted run renews nothing and is still on its way out, a run that renews
  has passed its claim, one that carries a draft has not reached its stream. `NoOverlap`
  needs `Undisturbed`, what a session looks like before the first fault: every process
  up, whoever holds the claim renews it, at most one run past its claim, and the agent's
  turn is that run's. `DraftNeverLost` follows from the same invariant: a run that
  `Forget` drops has put its draft back or carries none, unless its process died.
  `ImplementsLock` is a step simulation under the mapping `owner <- claim`, `keeping <-
  holding`, `seizing <-` the runs adopting. `OwnerKeepsSession` follows from the lock
  alone: a run that renews loses the session only to a recovering one.
  `BusyAlwaysFollowed` is the safety half of `AgentStatusLeaves`, for any number of
  faults: a session that reads `agent` has a run that will settle it, or a process that
  will find it at boot or in its recovery. `Living` carries it: a run that has not ended
  has no reason to stop yet, and its process lives. It speaks of writes that succeed:
  one that fails leaves the status behind (`AbortDispatched`).
- **AgentCalls** (any sessions, any graph of calls, any number of attempts and faults).
  Everything rests on `Handling`: what a handler leased as a result is finished and
  stays so while others act, and was posted if the agent answered. With `TypeOK` it
  gives `NeverSwallowed` and `OutcomeRecordedOnce`. `ImplementsContract` is the
  simulation of `CallContract`, each action of a handler one of the contract or a
  stutter. It needs `Leases`: while nothing was lost, what a handler took is pending and
  leased to it when it posts and when it marks. From the contract alone follow
  `FateDecidedOnce` and `NothingPostedLate`. (The contract implies `NeverSwallowed`,
  `OutcomeRecordedOnce` and the once in `PostedOnceAlways`, so no run checks these
  apart.) `HeldBackAlways` adds `Held`: a running call that no count of open calls sees
  has asked its user, and so has every call still running of those that ran when a turn
  ended which is about to close the call into its session. Later turns may make calls
  between the count and the close, but no call that had an outcome runs again, and a
  running one drops out of a count by a question alone. `PostedOnceAlways` is a balance,
  `Potential`: the posts made, the handlers about to post and one more if the row can
  still be leased are at most one more than the faults. A lease moves one from the last
  term to the second, a post from the second to the first, and only a lost handler, a
  lost renewal, a post that failed or one that was set adrift gives the last term back.
  `ResultAlwaysTended` is the safety half of `ResultReaches`: by `InHand`, a pending row
  that bears a handler's token is of the batch that handler is posting now, so a result
  is leased by one that will mark it, or by nobody until the lease runs out, or the next
  sweep takes it.
- **Scheduler** (any jobs of each kind, workers, slots, requests; `Budget` is any set of
  bounds on accidents). One invariant of nine parts serves all theorems. `SlotBacksRun`
  needs `Serves` (a handler serves a job it has fetched, one per job) and `KindsApart`.
  `ToldAtMostOnce` rests on `HeardOnce`: nothing has been said about a job that may
  still speak for itself or be found lost. `CancelAlwaysFindsTurn` rests on
  `BindsNameTurns` and `TurnHoldsLock`: a bind in flight names its own job's turn or is
  left from a job that is over, and whoever runs a turn of the thread has its lock. So
  what lands in the row while a turn runs is its own session, or is recorded in `late`.
  `EnabledAlwaysHasTimer` rests on `TimerKept`: an open one-time schedule has a job that
  no PATCH or DELETE is about to cancel, or a request that is still to arm one.
  `ImplementsJobContract` is the simulation of `JobContract`. Beyond the invariant it
  needs `Answered`: a message's handler that is past its reply and its error path has
  dealt with its source, accident or not. `TimersApart` (no schedule and no request
  names a message as its timer) keeps the routes from calling a message off, `Attended`
  ties a job that ended with nothing said to its notice in the dead-letter queue. From
  the contract alone follow `UnheardIsGivenUp` (only the monitor ends a message that no
  handler dealt with), `VerdictIsFinal` and `RunAtMostOnce`. `NobodyForgotten` is the
  safety half of `SourceHears`: of every message sent and not dealt with somebody is
  still to act, its handler, the monitor or the notice.
- **EnvRunner** (any number of requests and failures, any replicas). `VersionsInOrder`
  orders the versions along a pass: what is recorded as applied, what the workload was
  built from, what the pass has listed and what the row says by now.
  `UpAlwaysAuthenticates` needs to know of every state on the way what becomes of a
  token that was revoked (`StaleWillGo`): if the workload, or the pass that is bringing
  it up, uses one, and no start has `missed` it, then either a rebuild is outstanding
  that the pass does not record as done (`Behind`, `Overtaken`), or the workspace is on
  its way down with no token left and no start in flight that has decided against a
  rebuild (`TakenDown`). Two facts about the pass carry that along: it mints only for a
  rebuild that is due or for a workload that is not up (`PassHasCause`), so that no mint
  hides from a start that the pods' token is gone; and what is up with nothing
  outstanding uses the newest token (`NewestInUse`), which is what the hourly sweep
  spares. `AppliedAlwaysScaled` is the safety half of `Converges`: no pass with an older
  listing records the last version and leaves another count. `CountsInOrder` carries it:
  a listing of the row's version has the row's count, and a workload built from that
  version stands at it, at none or at the one a wake gives.

What stays with TLC: liveness under fairness (`WaiterAnswered`,
`AgentStatusLeaves`, `ResultReaches`, `OutcomeReached`, `SlotReclaimed`,
`SourceHears`, `RunCloses`, `Converges`, `StatusSettles`, `MarksClear`, `SizeFollows`,
`QuietRests`, `DemandServed`), which TLAPS does not prove. Every safety property of
a passing run is proved.

## 5. What the properties are for

`PROJECT.json` lists the hazards with their lines. Each property is paired with a
mutant of the code that violates it (the operators named `M...` in the modules:
a release without its flag, an end that unregisters whatever stream is there, a
draft not put back, an acknowledgement that closes a question's call, ...); no
behaviour of a specification uses one.

## 6. Where text and code differ

1. `session-turn.ts:63-65`: no claim while a turn is "parked on a question".
   Recovery lists only sessions in `agent`; after a crash the parked turn's claim
   runs out and a new turn is dispatched over it (`parked`).
2. `agent-call-delivery.ts:131`: the end of a turn is recorded "on the call that
   ran it". The session is free before that; a call placed in between is closed
   with the earlier turn's outcome (`settled_early`).
3. `scheduler/src/handler.ts:129-130`: a one-time schedule "fires exactly once". The
   row is read before it is marked, and marked without a condition: a run-now that
   overlaps the timer's job starts a second turn (`fires_twice`).
4. `cp/lib/reconcile.ts:66-67`: superseded tokens are "already inert (nothing holds
   them)". A change of the replica count mints a token and leaves the pods and the
   tokens they hold; after two of them the sweep revokes a live pod's (`swept_inert`).

Met while modelling and described by the models, without a run of their own:

- `workspace-autoscaler.ts:15-17`: a removed replica is "drained to turn-free, so no
  live turn is killed". In `Fleet` one is: a turn sent to the replica whose session is
  not recorded at the look (129); one routed there because every ready replica was
  marked, because the next pass's equality cleared the mark before the replica left the
  snapshot, or because the snapshot was empty and the default address named any pod.
  Turns that a boot adopted, and those that were let go of, hold no slot, so
  scale-to-zero counts them as idle.
- `turn-gate.ts:3-5`: "Every turn" passes through the gate. What `call_agent` sends
  to another workspace is streamed without it (`mcp/tools/agent.ts:768`), so the gate's cap
  and the autoscaler's demand do not see it.
- `executeChat.ts:197-209`: a write that fails after the agent's acceptance gives claim
  and slot back and marks the turn failed while the agent runs it. In `Fleet` its
  session may go on reading `agent` and hold a surplus replica; in `AgentCalls` a post
  that came to this is made again, and a session set adrift is passed over by the sweep,
  so that the call into it has no outcome until something else corrects the session
  (`OutcomeReached` excepts it).
- `workspace-autoscaler.ts:83-84`: the idle clock is "reset the moment any demand
  appears". It is read and reset by passes only, every 15 s; turns between two passes
  leave it running.
- `placement.ts:131-132`: a workspace with a floor of 0 "sits at 0 replicas whenever
  demand is 0". A runner that finds it stopped while it should run wakes it to one
  (`env-runner-core/reconcile.ts:203-207`), so it rests at 0 only once it is stopped.
- `auto-scaling-workload.ts:149-151`: after a wake to one replica "the autoscaler
  reconciles to the true desired on its next tick". It compares its target with the row,
  which never changed: a workspace stopped at two replicas whose demand asks for two
  stays at one (`Converges` in `EnvRunner`, `Scaled` in `Fleet`).
- `lib/reconcile.ts:147`: the autoscaler "runs after the router refresh above". They are
  two crons and neither waits for the other.
- `session-recovery.ts:66-68`: a queued follow-up is dispatched "as a fresh turn
  now". The dead process's claim is unexpired for up to a minute, so the follow-up
  gets 409 and goes back; nothing dispatches it later.
- `mcp/tools/agent.ts:969`: a result read inline "is not also delivered as a
  message". While a handler has it leased the read consumes nothing, and it is
  posted later.
- `agent-call-delivery.ts:153-155`: the call into a session that waits for its own
  calls "stays running until those return". A call whose session asked its user and
  was answered is left out of that count (`agent-calls.ts:28-36`). And the session is free
  meanwhile: a call that a later turn of it makes between the count (157) and the close
  (159) is not waited for. `HeldBack` speaks of the calls that ran when the turn ended.
- `agent-calls.ts:229`: of two questions in one call the acknowledgement of the first
  also marks the second as told.
- `workspace-reconcile.ts:124-125`: the token check "closes that race"; a stop whose
  revocation lands after it re-opens it (`missed` has "crossed" in `Placement`).
- `workspace-reconcile.ts:113`: a rebuild is forced "whenever the workspace has no live
  token, or its recorded status isn't already `running`". With no Deployment there is none,
  forced or not (88): while a pass with an older listing is still to create the Deployment
  with a token that the stop has revoked, the start bumps nothing, and the pod
  comes up with that token ("unseen").
- `scheduler/src/handler.ts:210-211`: the thread is bound "as soon as `session.started`
  arrives", since `/cancel` "resolves the session through this row". The bind is not
  awaited: one of a turn that is over may land while the next message's turn runs, and
  `/cancel` then goes to the earlier session until the next bind (`late` in
  `Scheduler`).
- `scheduler/src/handler.ts:464-467`, `489-493`: a reply that the gateway refuses is
  logged, an error reply that fails is swallowed. The job ends as answered, and the
  channel hears nothing.
- `batch-runs.ts:78` writes `running` over whatever the handlers wrote before: a run
  whose tasks ended first stays `running`. Cancellation and completion overwrite each
  other in the same way.
- `placement.ts:190-206`: `bumpWorkspaceSpec` reads the count, awaits and writes it
  back, undoing a change in between.
- A batch task cancelled while its job waits, and any job of a deleted workspace, keep
  a worker until the twelve-hour expiry (`Doomed` in `Scheduler`).
- Two slot claims count in their own snapshots and may both be admitted.
- An auto-scaling workspace has no Deployment, so neither a start nor a template
  change ever rebuilds it (`workspace-reconcile.ts:48-69`).

## 7. Not modelled, and the plan

In this order:

1. **Agent sink**: the buffer event by event, the flush in `/reconnect`, the end of
   the turn. Abstract specification: a reliable channel while nobody disconnects.
2. **Other routes** as further kinds of run in `SessionTurn`: proxy reconnect,
   system workspaces; recovery by another replica while the old one lives.
3. **Meter and ledger**: each interval and record counted once.
4. Proofs: the safety half of `RunCloses`, as `BusyAlwaysFollowed` is of
   `AgentStatusLeaves`: who is left to act in every state that is not settled. It speaks
   of a run that had a task left when its creator answered, which no variable records
   yet.

Left out for good: the Kubernetes API and the tunnel's multiplexer (outside the
repository), persistence of messages and tool results (data with one writer per
stream), user interface, charts, SDKs, and the memory file system.

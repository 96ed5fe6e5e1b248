---------------------------- MODULE SessionTurn ----------------------------
(***************************************************************************)
(* The turns of one session: how the control plane claims the session,     *)
(* starts a turn on the agent, follows its event stream, settles the       *)
(* session, dispatches the follow-up queued meanwhile, and picks the turn  *)
(* up again after a restart.                                               *)
(*   services/chat/executeChat.ts     dispatch, pending-message drain      *)
(*   services/chat/session-turn.ts    the claim: a lease that is renewed   *)
(*   services/db/sessions.ts          its SQL, chat_status, the draft      *)
(*   lib/sse.ts                       the intercepted stream and its end   *)
(*   lib/session-recovery.ts          adoption after a restart             *)
(*   internal/sse-consumer/src/run-turn.ts, agents/claude-code/src/server.ts *)
(*                                    reconnecting, the agent's own side   *)
(* A run is one attempt to run or recover a turn, in one process; a run    *)
(* that is over may stand for another attempt later.  One action is what a *)
(* run does between two awaits that another actor can get in between.      *)
(***************************************************************************)
EXTENDS Integers

CONSTANTS Runs,
          None,
          Procs,       \* control-plane processes
          MaxTrouble,  \* bound on crashes, broken streams, failed writes
          WritesFail   \* whether a write to the row may fail

ASSUME SessionTurnAssumption ==
  /\ None \notin Runs
  /\ Procs # {}
  /\ MaxTrouble \in Nat
  /\ WritesFail \in BOOLEAN

VARIABLES
  chat,       \* sessions.chat_status
  claim,      \* the run whose token is in turn_claim, unexpired; or None
  draft,      \* sessions.pending_message is set
  up,         \* each process: "up", "draining" after SIGTERM, "down"
  toRecover,  \* processes whose boot found the session in 'agent'
  registry,   \* activeStreams of each process: the run streaming the session
  stage,      \* how far each run is
  at,         \* the process of each run
  carry,      \* runs that hold a draft taken from the row
  recovering, \* runs that recovery started for a draft it found
  slot,       \* runs that hold an admission slot (TurnGate)
  holding,    \* runs whose renewal timer is on
  retried,    \* runs with no stream reconnect left
  superseded, \* runs whose stream was evicted by a later one
  reason,     \* how each run's session.ended said the turn ended
  turn,       \* the agent's turn in the session
  asked,      \* the agent's question is on its way to whoever reads
  writer,     \* the run whose connection the agent writes to; None: buffered
  trouble     \* faults so far

claimVars == <<claim, holding>>
procVars == <<up, toRecover>>
agentVars == <<turn, asked, writer>>
runVars == <<stage, at, carry, recovering, retried, superseded, reason>>
vars == <<chat, claimVars, draft, procVars, registry, runVars, slot, agentVars, trouble>>

Stage == {"free", "calling", "claimed", "admitted", "dispatched", "adopting",
          "attaching", "streaming", "broken", "ended", "stopping", "closed", "handedOver"}

AnyProc == CHOOSE p \in Procs : TRUE

Init ==
  /\ chat = "idle" /\ claim = None /\ draft = FALSE
  /\ up = [p \in Procs |-> "up"] /\ toRecover = {}
  /\ registry = [p \in Procs |-> None]
  /\ stage = [r \in Runs |-> "free"] /\ at = [r \in Runs |-> AnyProc]
  /\ carry = {} /\ recovering = {} /\ slot = {} /\ holding = {}
  /\ retried = {} /\ superseded = {}
  /\ reason = [r \in Runs |-> "none"]
  /\ turn = "none" /\ asked = FALSE /\ writer = None
  /\ trouble = 0

-----------------------------------------------------------------------------
(* A run that nothing refers to any more can stand for a new attempt. *)
FreeRun(r) == stage[r] = "free" /\ r \notin {claim, writer}

(* The agent still has the session's sink: its turn is on, or ended with   *)
(* nobody connected, its last events buffered.                             *)
TurnLive == turn \in {"running", "parked"}
Record == TurnLive \/ (turn = "done" /\ writer = None)

Enter(r, s) == stage' = [stage EXCEPT ![r] = s]

(* These runs are over and leave nothing of themselves behind. *)
Forget(R) ==
  /\ stage' = [r \in Runs |-> IF r \in R THEN "free" ELSE stage[r]]
  /\ at' = [r \in Runs |-> IF r \in R THEN AnyProc ELSE at[r]]
  /\ reason' = [r \in Runs |-> IF r \in R THEN "none" ELSE reason[r]]
  /\ carry' = carry \ R /\ recovering' = recovering \ R
  /\ retried' = retried \ R /\ superseded' = superseded \ R

TakeClaim(r) == claim' = r /\ holding' = holding \cup {r}

(* Mistakes a rewrite of the code could make; no behaviour of Spec uses    *)
(* an operator named M...  Here: a release that does not check the token,  *)
(* and a draft that is not put back.                                       *)
MGiveBack(r) ==
  /\ holding' = holding \ {r}
  /\ claim' = IF r \in holding THEN None ELSE claim
MRestoreDraft(r) == UNCHANGED draft

(* release: once per claim, and only under the holder's own token. *)
GiveBack(r) ==
  /\ holding' = holding \ {r}
  /\ claim' = IF r \in holding /\ claim = r THEN None ELSE claim

(* restorePendingMessage: a newer draft wins. *)
RestoreDraft(r) == draft' = (draft \/ r \in carry)

Trouble == trouble < MaxTrouble /\ trouble' = trouble + 1

-----------------------------------------------------------------------------
(* Dispatch: executeChat *)

(* A request from any source; refused while the session is claimed. *)
Start(r, p) ==
  /\ FreeRun(r) /\ up[p] # "down"
  /\ claim = None
  /\ TakeClaim(r)
  /\ Enter(r, "claimed") /\ at' = [at EXCEPT ![r] = p]
  /\ UNCHANGED <<chat, draft, procVars, registry, carry, recovering, retried, superseded, reason,
                 slot, agentVars, trouble>>

(* drainPendingMessage's call of executeChat. *)
StartDraft(r) ==
  /\ stage[r] = "calling"
  /\ claim = None
  /\ TakeClaim(r)
  /\ Enter(r, "claimed")
  /\ UNCHANGED <<chat, draft, procVars, registry, at, carry, recovering, retried, superseded,
                 reason, slot, agentVars, trouble>>

(* The draft could not become a turn: it goes back, and recovery, told     *)
(* that nothing was dispatched, idles the session.                         *)
PutBack(r) ==
  /\ RestoreDraft(r)
  /\ chat' = IF r \in recovering THEN "idle" ELSE chat
  /\ Forget({r})
  /\ UNCHANGED <<claimVars, procVars, registry, slot, agentVars, trouble>>

RefuseDraft(r) == stage[r] = "calling" /\ claim # None /\ PutBack(r)
WorkspaceDown(r) == stage[r] = "calling" /\ PutBack(r)

Admit(r) ==
  /\ stage[r] = "claimed"
  /\ Enter(r, "admitted") /\ slot' = slot \cup {r}
  /\ UNCHANGED <<chat, claimVars, draft, procVars, registry, at, carry, recovering, retried,
                 superseded, reason, agentVars, trouble>>

(* No slot, no workspace, no agent, or a refusal from it. *)
Abort(r) ==
  /\ stage[r] \in {"claimed", "admitted"}
  /\ GiveBack(r) /\ slot' = slot \ {r}
  /\ RestoreDraft(r)
  /\ \/ r \notin recovering /\ UNCHANGED chat
     \/ (r \in recovering \/ stage[r] = "admitted") /\ chat' = "idle"
  /\ Forget({r})
  /\ UNCHANGED <<procVars, registry, agentVars, trouble>>

(* The agent answers /chat with a stream: its turn runs, whatever it ran   *)
(* in the session before.                                                  *)
Dispatch(r) ==
  /\ stage[r] = "admitted"
  /\ Enter(r, "dispatched")
  /\ turn' = "running" /\ asked' = FALSE /\ writer' = r
  /\ UNCHANGED <<chat, claimVars, draft, procVars, registry, at, carry, recovering, retried,
                 superseded, reason, slot, trouble>>

(* The status or the message cannot be written after the agent accepted:   *)
(* everything is given back, and nobody reads the turn.                    *)
AbortDispatched(r) ==
  /\ stage[r] = "dispatched"
  /\ WritesFail /\ Trouble
  /\ GiveBack(r) /\ slot' = slot \ {r}
  /\ RestoreDraft(r)
  /\ chat' \in IF r \in recovering THEN {"idle"} ELSE {chat, "agent"}
  /\ Forget({r})
  /\ UNCHANGED <<procVars, registry, agentVars>>

(* Evicting without looking whether there is a stream to evict. *)
MIntercept(r) ==
  LET prev == registry[at[r]] IN
  /\ stage[r] \in {"dispatched", "attaching"}
  /\ Enter(r, "streaming")
  /\ chat' = IF stage[r] = "dispatched" THEN "agent" ELSE chat
  /\ registry' = [registry EXCEPT ![at[r]] = r]
  /\ GiveBack(prev) /\ superseded' = superseded \cup {prev}
  /\ carry' = carry \ {r} /\ recovering' = recovering \ {r}
  /\ UNCHANGED <<draft, procVars, at, retried, reason, slot, agentVars, trouble>>

(* The stream is registered under the session, evicting the one there,     *)
(* whose claim goes back (onReplaced).                                     *)
Intercept(r) ==
  LET prev == registry[at[r]] IN
  /\ stage[r] \in {"dispatched", "attaching"}
  /\ Enter(r, "streaming")
  /\ chat' = IF stage[r] = "dispatched" THEN "agent" ELSE chat
  /\ registry' = [registry EXCEPT ![at[r]] = r]
  /\ IF prev = None THEN UNCHANGED <<claimVars, superseded>>
     ELSE GiveBack(prev) /\ superseded' = superseded \cup {prev}
  /\ carry' = carry \ {r} /\ recovering' = recovering \ {r}
  /\ UNCHANGED <<draft, procVars, at, retried, reason, slot, agentVars, trouble>>

-----------------------------------------------------------------------------
(* The agent's turn and the events that tell of it *)

AgentAsks ==
  /\ turn = "running"
  /\ turn' = "parked" /\ asked' = TRUE
  /\ UNCHANGED <<chat, claimVars, draft, procVars, registry, runVars, slot, writer, trouble>>

AgentAnswered ==
  /\ turn = "parked" /\ ~asked
  /\ turn' = "running"
  /\ UNCHANGED <<chat, claimVars, draft, procVars, registry, runVars, slot, asked, writer, trouble>>

(* Completed, failed or interrupted.  An end written to a connection that  *)
(* nobody reads any more is gone.                                          *)
AgentEnds ==
  /\ TurnLive
  /\ IF writer # None /\ stage[writer] = "free"
     THEN turn' = "none" /\ asked' = FALSE /\ writer' = None
     ELSE turn' = "done" /\ UNCHANGED <<asked, writer>>
  /\ UNCHANGED <<chat, claimVars, draft, procVars, registry, runVars, slot, trouble>>

(* The workspace's pod is gone, and may have been stopped as a whole       *)
(* (resetAllSessionsIdle).                                                 *)
AgentGone ==
  /\ turn # "none"
  /\ Trouble
  /\ turn' = "none" /\ asked' = FALSE /\ writer' = None
  /\ chat' \in {chat, "idle"}
  /\ UNCHANGED <<claimVars, draft, procVars, registry, runVars, slot>>

(* A question that frees the session, as an end does. *)
MQuestionSeen(r) ==
  /\ stage[r] = "streaming" /\ writer = r /\ asked
  /\ asked' = FALSE
  /\ chat' = "human"
  /\ GiveBack(r)
  /\ UNCHANGED <<draft, procVars, registry, runVars, slot, turn, writer, trouble>>

(* question.requested *)
QuestionSeen(r) ==
  /\ stage[r] = "streaming" /\ writer = r /\ asked
  /\ asked' = FALSE
  /\ chat' = "human"
  /\ UNCHANGED <<claimVars, draft, procVars, registry, runVars, slot, turn, writer, trouble>>

(* session.ended: the status first, quiet if muted or waiting for calls... *)
EndSeen(r) ==
  /\ stage[r] = "streaming" /\ writer = r /\ turn = "done" /\ ~asked
  /\ turn' = "none" /\ writer' = None
  /\ chat' \in {"human", "idle"}
  /\ \E why \in {"completed", "other"} : reason' = [reason EXCEPT ![r] = why]
  /\ Enter(r, "ended")
  /\ UNCHANGED <<claimVars, draft, procVars, registry, at, carry, recovering, retried, superseded,
                 slot, asked, trouble>>

(* ... then the claim, so that a follow-up finds the session settled. *)
Settle(r) ==
  /\ stage[r] = "ended"
  /\ GiveBack(r)
  /\ Enter(r, "stopping")
  /\ UNCHANGED <<chat, draft, procVars, registry, at, carry, recovering, retried, superseded,
                 reason, slot, agentVars, trouble>>

(* The connection breaks; the agent switches to its buffer, and what it    *)
(* wrote last may be lost.                                                 *)
LoseStream(r) ==
  /\ stage[r] = "streaming" /\ writer = r
  /\ Trouble
  /\ Enter(r, "broken")
  /\ writer' = None
  /\ turn' = IF turn = "done" THEN "none" ELSE turn
  /\ asked' \in IF turn = "done" THEN {FALSE} ELSE {asked, FALSE}
  /\ UNCHANGED <<chat, claimVars, draft, procVars, registry, at, carry, recovering, retried,
                 superseded, reason, slot>>

(* The agent wrote the rest of the turn elsewhere, or is gone: when the    *)
(* turn is over, or followed by another, this stream closes without a      *)
(* session.ended.                                                          *)
StreamCloses(r) ==
  /\ stage[r] = "streaming" /\ writer # r
  /\ ~TurnLive \/ (writer # None /\ writer \notin retried)
  /\ Enter(r, "broken")
  /\ UNCHANGED <<chat, claimVars, draft, procVars, registry, at, carry, recovering, retried,
                 superseded, reason, slot, agentVars, trouble>>

(* runTurn's one reconnect: not for a recovered stream, not on the way out,*)
(* and only while the agent has the turn.                                  *)
Reconnect(r) ==
  /\ stage[r] = "broken"
  /\ IF r \notin retried /\ up[at[r]] = "up" /\ Record
     THEN Enter(r, "streaming") /\ writer' = r
     ELSE Enter(r, "stopping") /\ UNCHANGED writer
  /\ retried' = retried \cup {r}
  /\ UNCHANGED <<chat, claimVars, draft, procVars, registry, at, carry, recovering, superseded,
                 reason, slot, turn, asked, trouble>>

-----------------------------------------------------------------------------
(* The end of a run *)

(* Only this stream's own registration goes: one that took the session     *)
(* over is mapped under the same key.                                      *)
Unregistered(r) == IF registry[at[r]] = r THEN [registry EXCEPT ![at[r]] = None] ELSE registry

(* Ends that unregister whatever stream is there, or leave the status.     *)
MCloseAny(r) ==
  /\ stage[r] = "stopping"
  /\ Enter(r, "closed")
  /\ chat' = IF r \notin superseded /\ reason[r] = "none" THEN "idle" ELSE chat
  /\ registry' = [registry EXCEPT ![at[r]] = None]
  /\ UNCHANGED <<claimVars, draft, procVars, at, carry, recovering, retried, superseded, reason,
                 slot, agentVars, trouble>>
MCloseQuiet(r) ==
  /\ stage[r] = "stopping"
  /\ Enter(r, "closed")
  /\ registry' = Unregistered(r)
  /\ UNCHANGED <<chat, claimVars, draft, procVars, at, carry, recovering, retried, superseded,
                 reason, slot, agentVars, trouble>>

(* Both plugins' onEnd: a turn whose end was not seen idles the session,   *)
(* unless a later stream took the session over in this process.            *)
Close(r) ==
  /\ stage[r] = "stopping"
  /\ Enter(r, "closed")
  /\ chat' = IF r \notin superseded /\ reason[r] = "none" THEN "idle" ELSE chat
  /\ registry' = Unregistered(r)
  /\ UNCHANGED <<claimVars, draft, procVars, at, carry, recovering, retried, superseded, reason,
                 slot, agentVars, trouble>>

(* A replaced run that returns before it frees its slot. *)
MFinishSuperseded(r) ==
  /\ stage[r] = "closed" /\ r \in superseded
  /\ Forget({r})
  /\ UNCHANGED <<chat, claimVars, draft, procVars, registry, slot, agentVars, trouble>>

(* The finally after runTurn, for a run that was replaced... *)
FinishSuperseded(r) ==
  /\ stage[r] = "closed" /\ r \in superseded
  /\ slot' = slot \ {r}
  /\ Forget({r})
  /\ UNCHANGED <<chat, claimVars, draft, procVars, registry, agentVars, trouble>>

(* ... for one cut short by the shutdown of its process: the claim stays,  *)
(* renewed until the process exits...                                      *)
FinishHandedOver(r) ==
  /\ stage[r] = "closed" /\ r \notin superseded
  /\ reason[r] = "none" /\ up[at[r]] = "draining"
  /\ slot' = slot \ {r}
  /\ Enter(r, "handedOver")
  /\ UNCHANGED <<chat, claimVars, draft, procVars, registry, at, carry, recovering, retried,
                 superseded, reason, agentVars, trouble>>

(* ... and for any other: the session is settled, and a turn that          *)
(* completed hands the queued draft to a run of its own (here the same r,  *)
(* which has nothing left to do).                                          *)
Finish(r) ==
  LET drains == reason[r] = "completed" /\ up[at[r]] = "up" /\ draft IN
  /\ stage[r] = "closed" /\ r \notin superseded
  /\ reason[r] = "none" => up[at[r]] # "draining"
  /\ slot' = slot \ {r}
  /\ GiveBack(r)
  /\ IF drains
     THEN /\ draft' = FALSE /\ carry' = carry \cup {r}
          /\ Enter(r, "calling") /\ reason' = [reason EXCEPT ![r] = "none"]
          /\ retried' = retried \ {r}
          /\ UNCHANGED <<at, recovering, superseded>>
     ELSE Forget({r}) /\ UNCHANGED draft
  /\ UNCHANGED <<chat, procVars, registry, agentVars, trouble>>

-----------------------------------------------------------------------------
(* The claim's timers *)

(* A renewal finds the claim taken over: stop renewing. *)
RenewalLost(r) ==
  /\ r \in holding /\ claim # r
  /\ holding' = holding \ {r}
  /\ UNCHANGED <<chat, claim, draft, procVars, registry, runVars, slot, agentVars, trouble>>

(* The lease runs out: nobody renews it (three renewals fit in a lease). *)
Expire ==
  /\ claim # None /\ claim \notin holding
  /\ claim' = None
  /\ UNCHANGED <<chat, holding, draft, procVars, registry, runVars, slot, agentVars, trouble>>

(* PUT and DELETE of the session's pending message. *)
EditDraft ==
  /\ \E p \in Procs : up[p] # "down"
  /\ draft' = ~draft
  /\ UNCHANGED <<chat, claimVars, procVars, registry, runVars, slot, agentVars, trouble>>

-----------------------------------------------------------------------------
(* Processes *)

(* The process is gone with its memory and its connections: the agent      *)
(* buffers from here on, and an end already on the wire is lost.           *)
Gone(p) ==
  LET R == {r \in Runs : stage[r] # "free" /\ at[r] = p} IN
  /\ up' = [up EXCEPT ![p] = "down"] /\ toRecover' = toRecover \ {p}
  /\ registry' = [registry EXCEPT ![p] = None]
  /\ Forget(R)
  /\ slot' = slot \ R /\ holding' = holding \ R
  /\ IF writer \in R
     THEN /\ writer' = None
          /\ turn' = IF turn = "done" THEN "none" ELSE turn
          /\ asked' = IF turn = "done" THEN FALSE ELSE asked
     ELSE UNCHANGED agentVars
  /\ UNCHANGED <<chat, claim, draft>>

Crash(p) == up[p] = "up" /\ Trouble /\ Gone(p)
Exit(p) == up[p] = "draining" /\ Gone(p) /\ UNCHANGED trouble

Sigterm(p) ==
  /\ up[p] = "up"
  /\ Trouble
  /\ up' = [up EXCEPT ![p] = "draining"]
  /\ UNCHANGED <<chat, claimVars, draft, toRecover, registry, runVars, slot, agentVars>>

(* Start-up lists the sessions in 'agent'. *)
Boot(p) ==
  /\ up[p] = "down"
  /\ up' = [up EXCEPT ![p] = "up"]
  /\ toRecover' = IF chat = "agent" THEN toRecover \cup {p} ELSE toRecover
  /\ UNCHANGED <<chat, claimVars, draft, registry, runVars, slot, agentVars, trouble>>

(* recoverOrphanedSessions, at the session it listed: streamed here again  *)
(* already; or its workspace down or unreachable...                        *)
RecoverSkip(p) ==
  /\ p \in toRecover
  /\ toRecover' = toRecover \ {p}
  /\ \/ registry[p] # None /\ UNCHANGED chat
     \/ registry[p] = None /\ chat' = "idle"
  /\ UNCHANGED <<claimVars, draft, up, registry, runVars, slot, agentVars, trouble>>

(* ... or the agent has no record of it: the draft, if any, becomes a      *)
(* turn; otherwise the session is idle...                                  *)
RecoverForgotten(p) ==
  /\ p \in toRecover /\ registry[p] = None /\ ~Record
  /\ toRecover' = toRecover \ {p}
  /\ \/ /\ ~draft /\ chat' = "idle"
        /\ UNCHANGED <<draft, runVars>>
     \/ /\ draft /\ draft' = FALSE
        /\ \E r \in Runs :
              /\ FreeRun(r)
              /\ Enter(r, "calling") /\ at' = [at EXCEPT ![r] = p]
              /\ carry' = carry \cup {r} /\ recovering' = recovering \cup {r}
        /\ UNCHANGED <<chat, retried, superseded, reason>>
  /\ UNCHANGED <<claimVars, up, registry, slot, agentVars, trouble>>

(* ... or its stream is picked up, whoever was reading it. *)
RecoverTurn(p, r) ==
  /\ p \in toRecover /\ registry[p] = None /\ Record
  /\ FreeRun(r)
  /\ toRecover' = toRecover \ {p}
  /\ Enter(r, "adopting") /\ at' = [at EXCEPT ![r] = p]
  /\ retried' = retried \cup {r}
  /\ writer' = r
  /\ UNCHANGED <<chat, claimVars, draft, up, registry, carry, recovering, superseded, reason, slot,
                 turn, asked, trouble>>

(* adoptSessionTurn: the claim is taken whoever has it. *)
Adopt(r) ==
  /\ stage[r] = "adopting"
  /\ TakeClaim(r)
  /\ Enter(r, "attaching")
  /\ UNCHANGED <<chat, draft, procVars, registry, at, carry, recovering, retried, superseded,
                 reason, slot, agentVars, trouble>>

-----------------------------------------------------------------------------
RunStep(r) ==
  \/ StartDraft(r) \/ RefuseDraft(r) \/ WorkspaceDown(r) \/ Admit(r) \/ Abort(r) \/ Dispatch(r) \/ Intercept(r)
  \/ QuestionSeen(r) \/ EndSeen(r) \/ Settle(r) \/ StreamCloses(r) \/ Reconnect(r)
  \/ Close(r) \/ FinishSuperseded(r) \/ FinishHandedOver(r) \/ Finish(r)
  \/ RenewalLost(r) \/ Adopt(r)

ProcStep(p) ==
  \/ Boot(p) \/ Exit(p) \/ RecoverSkip(p) \/ RecoverForgotten(p)
  \/ \E r \in Runs : RecoverTurn(p, r)

Next ==
  \/ \E r \in Runs, p \in Procs : Start(r, p)
  \/ \E r \in Runs : RunStep(r) \/ AbortDispatched(r) \/ LoseStream(r)
  \/ AgentAsks \/ AgentAnswered \/ AgentEnds \/ AgentGone
  \/ Expire \/ EditDraft
  \/ \E p \in Procs : ProcStep(p) \/ Crash(p) \/ Sigterm(p)

(* A process goes on with what it has begun; an orchestrator restarts one  *)
(* that is down; a lease nobody renews runs out.  The agent's turn ends,   *)
(* the user's interrupt and the 24-hour cap included.  Nobody has to       *)
(* start a turn, queue a draft or answer a question.                       *)
Fairness ==
  /\ \A r \in Runs : WF_vars(RunStep(r))
  /\ \A p \in Procs : WF_vars(ProcStep(p))
  /\ WF_vars(Expire) /\ WF_vars(AgentEnds)

Spec == Init /\ [][Next]_vars
FairSpec == Spec /\ Fairness

-----------------------------------------------------------------------------
(* Properties *)

TypeOK ==
  /\ chat \in {"idle", "agent", "human"}
  /\ claim \in Runs \cup {None}
  /\ draft \in BOOLEAN
  /\ up \in [Procs -> {"up", "draining", "down"}]
  /\ toRecover \subseteq Procs
  /\ registry \in [Procs -> Runs \cup {None}]
  /\ stage \in [Runs -> Stage]
  /\ at \in [Runs -> Procs]
  /\ carry \subseteq Runs /\ recovering \subseteq Runs /\ slot \subseteq Runs
  /\ holding \subseteq Runs /\ retried \subseteq Runs /\ superseded \subseteq Runs
  /\ reason \in [Runs -> {"none", "completed", "other"}]
  /\ turn \in {"none", "running", "parked", "done"}
  /\ asked \in BOOLEAN
  /\ writer \in Runs \cup {None}
  /\ trouble \in 0..MaxTrouble

Streaming == {"streaming", "broken", "ended", "stopping"}

(* activeStreams is exact: a process finds the session's stream there      *)
(* while a run of its own follows it, and finds the current one: a late    *)
(* end never unregisters the stream that replaced it, and none is left     *)
(* behind (a stale entry would make recovery skip the session for good).   *)
RegistryExact ==
  \A p \in Procs, r \in Runs :
    registry[p] = r <=> at[r] = p /\ stage[r] \in Streaming /\ r \notin superseded

(* A run that is over holds no admission slot, renews no claim and carries *)
(* no draft, whichever way it ended: refused, thrown, replaced, broken,    *)
(* crashed.  Only the exit of its process waits for a run handed over.     *)
NothingLeaks ==
  \A r \in Runs :
    /\ stage[r] = "free" => r \notin slot \cup holding \cup carry
    /\ stage[r] = "handedOver" => up[at[r]] = "draining"
    /\ r \in slot => stage[r] \in Streaming \cup {"admitted", "dispatched", "closed"}

(* One turn per session: while no process died, no stream broke and no     *)
(* write failed, the agent is never asked to run a turn in a session where *)
(* its last one is still on, parked on a question or not.  Clients cannot  *)
(* see each other's turns; the claim alone decides.                        *)
TurnsNeverOverlap ==
  [][\A r \in Runs : (stage[r] = "admitted" /\ stage'[r] = "dispatched" /\ TurnLive)
        => trouble > 0]_vars

(* A draft the user queued is never lost by the code: once queued it is in *)
(* the row or with a run that goes on to a stream, until its process dies  *)
(* or the user edits it away.                                              *)
DraftKept ==
  [][(draft \/ carry # {}) =>
       \/ draft' \/ carry' # {}
       \/ \E r \in carry : stage[r] = "dispatched" /\ stage'[r] = "streaming"
       \/ EditDraft
       \/ \E r \in carry : up'[at[r]] = "down"]_vars

(* The session leaves 'agent': no end of a stream, eviction, crash, hand-  *)
(* over or recovery leaves it looking busy for good, provided every write  *)
(* to the row succeeds (AbortDispatched is the exception).                 *)
AgentStatusLeaves == chat = "agent" ~> chat # "agent"

(* session-turn.ts:63-65: no claim "when a turn is running in it -         *)
(* including one parked on a question".  Even with every process up and    *)
(* its recovery done, it does not hold of a turn whose process crashed.    *)
ParkedTurnRefusesClaim ==
  [][\A r \in Runs :
        (stage[r] # "claimed" /\ stage'[r] = "claimed" /\ turn = "parked" /\ chat = "human")
        => toRecover # {} \/ \E p \in Procs : up[p] # "up"]_vars

(* The claim implements the lock: only an owner that stopped renewing, or  *)
(* one that recovery displaced, ever loses the session to another run.     *)
Lock == INSTANCE SessionLock
  WITH owner <- claim, keeping <- holding,
       seizing <- {r \in Runs : stage[r] = "adopting"}
LockSpec == Lock!Spec
=============================================================================

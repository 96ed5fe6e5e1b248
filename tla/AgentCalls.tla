----------------------------- MODULE AgentCalls -----------------------------
(***************************************************************************)
(* Agent-to-agent calls whose result is posted back to the caller.         *)
(*   services/chat/agent-call-delivery.ts  settling, posting, the sweep    *)
(*   services/db/agent-calls.ts            the SQL of the agent_calls rows *)
(*   mcp/tools/agent.ts                    call_agent, get_agent_result    *)
(*   services/chat/executeChat.ts          starting the turn of a post     *)
(* The queue of a running turn's stream tells the caller of a question:    *)
(* that handler bears the session's name.  A turn that is over is settled  *)
(* by a handler of its own, while the next turn may run already; the       *)
(* Sweeper is the periodic sweep.  A handler stops at every await at which *)
(* another may act.  A session's claim and chat_status (SessionTurn) are   *)
(* one value here.                                                         *)
(***************************************************************************)
EXTENDS Integers

CONSTANTS Sessions, Calls,
          Parent, Child,  \* the session that makes each call, the one called
          Settlers,       \* the streams that are settling a turn that is over
          Of,             \* the session of each: how many a session has is a bound
          Sweeper, None,
          MaxTries,       \* MAX_DELIVERY_ATTEMPTS
          MaxPrompts,     \* bound on prompts by users and on questions
          MaxTrouble      \* bound on lost handlers, renewals, turns, sessions, writes

ASSUME AgentCallsAssumption ==
  /\ Parent \in [Calls -> Sessions] /\ Child \in [Calls -> Sessions]
  /\ Of \in [Settlers -> Sessions] /\ Settlers \cap Sessions = {}
  /\ Sweeper \notin Sessions \cup Settlers
  /\ None \notin Sessions \cup Settlers \cup {Sweeper}
  /\ MaxTries \in Nat \ {0} /\ MaxPrompts \in Nat /\ MaxTrouble \in Nat

VARIABLES
  turn,    \* each session: no turn, one claimed, running, parked on a question,
           \* left in 'agent' by a replica that died, or by one that lives
  deleted, \* sessions deleted
  row,     \* the agent_calls rows
  stage,   \* where each handler is
  verdict, \* the status a settling handler records
  listed,  \* the stale calls the sweep read: sessions and their verdict
  todo,    \* the sessions a handler has still to post to
  target,  \* the session it is posting to
  batch,   \* the rows it leased for that
  asking,  \* those of them it read as 'running': questions, not results
  answer,  \* how the dispatch of the post went
  posted,  \* history: how often the result of a call was posted
  questioned, \* history: calls whose turn asked its user
  own,     \* history: the calls of its session that ran when a settler's turn ended
  prompts, \* prompts and questions so far
  trouble  \* faults so far

postVars == <<target, batch, asking, answer>>
jobVars == <<stage, verdict, listed, todo, postVars>>
historyVars == <<posted, questioned, own>>
boundVars == <<prompts, trouble>>
vars == <<turn, deleted, row, jobVars, historyVars, boundVars>>

Handlers == Sessions \cup Settlers \cup {Sweeper}

Row == [status : {"none", "running", "ended", "failed"},
        delivery : {"pending", "delivered", "consumed", "dropped"},
        holder : Handlers \cup {None}, \* whose token is in delivery_lease_token;
                                       \* None: nobody's that is still posting
        leased : BOOLEAN,              \* the lease has not expired
        asked : BOOLEAN,               \* input_requested_at
        told : BOOLEAN,                \* input_notified_at
        done : BOOLEAN,                \* last_turn_completed_at
        tries : 0..MaxTries]

NoRow == [status |-> "none", delivery |-> "pending", holder |-> None, leased |-> FALSE,
          asked |-> FALSE, told |-> FALSE, done |-> FALSE, tries |-> 0]

Init ==
  /\ turn = [s \in Sessions |-> "free"]
  /\ deleted = {}
  /\ row = [c \in Calls |-> NoRow]
  /\ stage = [h \in Handlers |-> "idle"]
  /\ verdict = [h \in Settlers |-> "none"]
  /\ listed = {}
  /\ todo = [h \in Handlers |-> {}]
  /\ target = [h \in Handlers |-> None]
  /\ batch = [h \in Handlers |-> {}]
  /\ asking = [h \in Handlers |-> {}]
  /\ answer = [h \in Handlers |-> "none"]
  /\ posted = [c \in Calls |-> 0]
  /\ questioned = {}
  /\ own = [h \in Settlers |-> {}]
  /\ prompts = 0 /\ trouble = 0

-----------------------------------------------------------------------------
(* The predicates of the SQL. *)

Running(c) == row[c].status = "running"
Finished(c) == row[c].status \in {"ended", "failed"}
CallsTo(s) == {c \in Calls : Child[c] = s /\ Running(c)}

(* openCallSql: the parent still waits on an agent for it. *)
Open(c) ==
  /\ row[c].status # "none"
  /\ row[c].delivery = "pending"
  /\ ~(Running(c) /\ row[c].asked)

OpenCalls(s) == {c \in Calls : Parent[c] = s /\ Open(c)}

(* deliverableSql *)
MUnleased(c) == TRUE
Unleased(c) == ~row[c].leased
Deliverable(c) ==
  /\ row[c].delivery = "pending"
  /\ Unleased(c)
  /\ Finished(c) \/ (Running(c) /\ row[c].asked /\ ~row[c].told)

(* endAgentCalls: the rows of a called session that are still running.     *)
(* asked, told and done say nothing of a call that is over.                *)
Over(c, status) ==
  [row[c] EXCEPT !.status = status, !.asked = FALSE, !.told = FALSE, !.done = FALSE]
MEnded(s, status) ==
  [c \in Calls |-> IF Child[c] = s /\ row[c].status # "none" THEN Over(c, status) ELSE row[c]]
Ended(s, status) ==
  [c \in Calls |-> IF c \in CallsTo(s) THEN Over(c, status) ELSE row[c]]

(* resetAgentCallTurnOutcome: a dispatch into the session forgets the last *)
(* turn's outcome and question.                                            *)
Reset(s) ==
  [c \in Calls |-> IF c \in CallsTo(s)
                     THEN [row[c] EXCEPT !.asked = FALSE, !.told = FALSE, !.done = FALSE]
                     ELSE row[c]]

(* claimSessionTurn: nobody's claim is live. *)
Claimable(s) == turn[s] \in {"free", "orphan", "adrift"}

(* An agent is at work in the session, followed or not. *)
Working(s) == turn[s] \in {"agent", "orphan", "adrift"}

(* resolveDeliveryTarget: a session an agent called is posted to only      *)
(* while the call into it is tracked and running.                          *)
TakesDeliveries(s) == (\A c \in Calls : Child[c] # s) \/ CallsTo(s) # {}

-----------------------------------------------------------------------------
(* Turns *)

(* The agent accepted a turn.  Its stream is followed, or a write that     *)
(* comes after fails: executeChat gives the claim back and throws, with    *)
(* the status still as it was or 'agent', and nobody follows the turn.     *)
Follow(s) == turn' = [turn EXCEPT ![s] = "agent"] /\ UNCHANGED trouble
SetAdrift(s) ==
  /\ trouble < MaxTrouble /\ trouble' = trouble + 1
  /\ \E to \in {"free", "adrift"} : turn' = [turn EXCEPT ![s] = to]

Prompt(s) ==
  /\ prompts < MaxPrompts /\ s \notin deleted /\ Claimable(s)
  /\ prompts' = prompts + 1
  /\ row' = Reset(s)
  /\ Follow(s) \/ SetAdrift(s)
  /\ UNCHANGED <<deleted, jobVars, historyVars>>

CallAgent(c) ==
  LET p == Parent[c] s == Child[c] IN
  /\ row[c].status = "none"
  /\ Working(p) /\ {p, s} \cap deleted = {}
  /\ Claimable(s) /\ TakesDeliveries(p)
  /\ turn' = [turn EXCEPT ![s] = "agent"]
  /\ row' = [row EXCEPT ![c].status = "running"]
  /\ UNCHANGED <<deleted, jobVars, historyVars, boundVars>>

(* question.requested: 'human', then, in the queue of the turn's stream,   *)
(* onInputRequested.                                                       *)
Ask(s) ==
  /\ prompts < MaxPrompts /\ turn[s] = "agent" /\ stage[s] = "idle"
  /\ prompts' = prompts + 1
  /\ turn' = [turn EXCEPT ![s] = "parked"]
  /\ stage' = [stage EXCEPT ![s] = "noting"]
  /\ UNCHANGED <<deleted, row, verdict, listed, todo, postVars, historyVars, trouble>>

(* A person answers: the same turn goes on. *)
Answered(s) ==
  /\ turn[s] = "parked"
  /\ turn' = [turn EXCEPT ![s] = "agent"]
  /\ UNCHANGED <<deleted, row, jobVars, historyVars, boundVars>>

(* The turn's stream is over, after everything in its queue: the session   *)
(* gets its terminal status and is released, then the turn is settled.     *)
Settle(s, ok) ==
  /\ stage[s] = "idle"
  /\ turn' = [turn EXCEPT ![s] = "free"]
  /\ \E h \in Settlers :
       /\ Of[h] = s /\ stage[h] = "idle"
       /\ verdict' = [verdict EXCEPT ![h] = IF ok THEN "ended" ELSE "failed"]
       /\ stage' = [stage EXCEPT ![h] = IF ok THEN "counting" ELSE "closing"]
       /\ own' = [own EXCEPT ![h] = {c \in Calls : Parent[c] = s /\ Running(c)}]
  /\ UNCHANGED <<deleted, row, listed, todo, postVars, posted, questioned, boundVars>>

End(s) == turn[s] = "agent" /\ \E ok \in BOOLEAN : Settle(s, ok)
Interrupt(s) == turn[s] = "parked" /\ Settle(s, FALSE)

-----------------------------------------------------------------------------
(* A handler tells the caller of a question, or settles a turn. *)

Goto(h, to) == stage' = [stage EXCEPT ![h] = to]

ToPost(h, sessions) ==
  /\ todo' = [todo EXCEPT ![h] = sessions]
  /\ Goto(h, IF sessions = {} THEN "idle" ELSE "posting")

Callers(calls) == {Parent[c] : c \in calls}

(* markAgentCallInputRequested *)
Note(s) ==
  LET calls == {c \in CallsTo(s) : ~row[c].asked} IN
  /\ stage[s] = "noting"
  /\ row' = [c \in Calls |-> IF c \in calls THEN [row[c] EXCEPT !.asked = TRUE] ELSE row[c]]
  /\ questioned' = questioned \cup calls
  /\ ToPost(s, Callers(calls))
  /\ UNCHANGED <<turn, deleted, verdict, listed, postVars, posted, own, boundVars>>

(* recordAgentCallTurnCompleted, then countOpenAgentCalls: a session that  *)
(* still waits on calls of its own keeps the call into it running, and     *)
(* only takes what is ready for it.                                        *)
Completed(s) ==
  [c \in Calls |-> IF c \in CallsTo(s) THEN [row[c] EXCEPT !.done = TRUE] ELSE row[c]]

MCountOpen(h) ==
  /\ stage[h] = "counting"
  /\ row' = Completed(Of[h])
  /\ Goto(h, "closing")
  /\ UNCHANGED <<turn, deleted, verdict, listed, todo, postVars, historyVars, boundVars>>
CountOpen(h) ==
  /\ stage[h] = "counting"
  /\ row' = Completed(Of[h])
  /\ IF OpenCalls(Of[h]) # {}
       THEN ToPost(h, {Of[h]}) /\ verdict' = [verdict EXCEPT ![h] = "none"]
       ELSE Goto(h, "closing") /\ UNCHANGED <<todo, verdict>>
  /\ UNCHANGED <<turn, deleted, listed, postVars, historyVars, boundVars>>

CloseCalls(h) ==
  /\ stage[h] = "closing"
  /\ row' = Ended(Of[h], verdict[h])
  /\ verdict' = [verdict EXCEPT ![h] = "none"]
  /\ ToPost(h, Callers(CallsTo(Of[h])) \cup {Of[h]})
  /\ UNCHANGED <<turn, deleted, listed, postVars, historyVars, boundVars>>

-----------------------------------------------------------------------------
(* sweepAgentCalls *)

(* listStaleRunningAgentCalls: nothing runs the turn of the called session *)
(* and it waits on no agent, yet no outcome was recorded.                  *)
MStale(c) == Running(c) /\ Child[c] \in deleted
Stale(c) ==
  /\ Running(c)
  /\ \/ Child[c] \in deleted
     \/ (~row[c].asked /\ turn[Child[c]] = "free" /\ OpenCalls(Child[c]) = {})

StaleVerdict(c) ==
  IF Child[c] \notin deleted /\ row[c].done THEN "ended" ELSE "failed"

(* A sweep that finds nothing does nothing. *)
Sweep ==
  LET stale == {c \in Calls : Stale(c)} IN
  /\ stage[Sweeper] = "idle"
  /\ stale # {} \/ \E c \in Calls : Deliverable(c)
  /\ listed' = {<<Child[c], StaleVerdict(c)>> : c \in stale}
  /\ Goto(Sweeper, "sweeping")
  /\ UNCHANGED <<turn, deleted, row, verdict, todo, postVars, historyVars, boundVars>>

SweepClose ==
  /\ stage[Sweeper] = "sweeping"
  /\ \E e \in listed :
       /\ listed' = listed \ {e}
       /\ row' = Ended(e[1], e[2])
       /\ todo' = [todo EXCEPT ![Sweeper] = @ \cup Callers(CallsTo(e[1]))]
  /\ UNCHANGED <<turn, deleted, stage, verdict, postVars, historyVars, boundVars>>

(* listParentsWithDeliverableCalls *)
MSweepParents ==
  /\ stage[Sweeper] = "sweeping" /\ listed = {}
  /\ ToPost(Sweeper, todo[Sweeper])
  /\ UNCHANGED <<turn, deleted, row, verdict, listed, postVars, historyVars, boundVars>>
SweepParents ==
  /\ stage[Sweeper] = "sweeping" /\ listed = {}
  /\ ToPost(Sweeper, todo[Sweeper] \cup Callers({c \in Calls : Deliverable(c)}))
  /\ UNCHANGED <<turn, deleted, row, verdict, listed, postVars, historyVars, boundVars>>

-----------------------------------------------------------------------------
(* deliverAgentCallResults *)

Posting == {"starting", "answered"}

Lease(h, calls) ==
  row' = [c \in Calls |-> IF c \in calls
            THEN [row[c] EXCEPT !.leased = TRUE, !.holder = h] ELSE row[c]]

Reply(h, a) ==
  /\ Goto(h, "answered")
  /\ answer' = [answer EXCEPT ![h] = a]
  /\ UNCHANGED turn

(* The next session on a handler's list: one whose turn was settled comes  *)
(* after those that called it.                                             *)
InTurn(h, p) ==
  /\ stage[h] = "posting" /\ p \in todo[h]
  /\ h \in Settlers /\ p = Of[h] => todo[h] = {p}

(* takeDeliverableAgentCalls for that session.  It is looked up, then      *)
(* executeChat claims it (409 when a turn is running there) and asks for   *)
(* capacity and a running workspace (503).                                 *)
Take(h, p) ==
  LET ready == {c \in Calls : Parent[c] = p /\ Deliverable(c)} IN
  /\ InTurn(h, p)
  /\ ready # {}
  /\ Lease(h, ready)
  /\ target' = [target EXCEPT ![h] = p]
  /\ batch' = [batch EXCEPT ![h] = ready]
  /\ asking' = [asking EXCEPT ![h] = {c \in ready : Running(c)}]
  /\ \/ p \in deleted /\ Reply(h, "gone")
     \/ p \notin deleted /\ ~Claimable(p) /\ Reply(h, "busy")
     \/ p \notin deleted /\ Claimable(p) /\ Reply(h, "error")
     \/ /\ p \notin deleted /\ Claimable(p)
        /\ turn' = [turn EXCEPT ![p] = "starting"]
        /\ Goto(h, "starting") /\ UNCHANGED answer
  /\ UNCHANGED <<deleted, verdict, listed, todo, historyVars, boundVars>>

TakeNothing(h, p) ==
  /\ InTurn(h, p)
  /\ \A c \in Calls : Parent[c] = p => ~Deliverable(c)
  /\ ToPost(h, todo[h] \ {p})
  /\ UNCHANGED <<turn, deleted, row, verdict, listed, postVars, historyVars, boundVars>>

(* The outcome of the last turn is reset before the agent is asked.  It    *)
(* takes the new turn, or cannot be reached.  A turn it took and that      *)
(* executeChat then set adrift counts as a failed post: the agent has it,  *)
(* and gets it again.                                                      *)
Dispatch(h) ==
  LET p == target[h]
      reached == [c \in Calls |-> IF c \in batch[h] \ asking[h] THEN posted[c] + 1 ELSE posted[c]]
  IN
  /\ stage[h] = "starting"
  /\ row' = Reset(p)
  /\ Goto(h, "answered")
  /\ \/ Follow(p) /\ answer' = [answer EXCEPT ![h] = "sse"] /\ posted' = reached
     \/ SetAdrift(p) /\ answer' = [answer EXCEPT ![h] = "error"] /\ posted' = reached
     \/ /\ turn' = [turn EXCEPT ![p] = "free"]
        /\ answer' = [answer EXCEPT ![h] = "error"]
        /\ UNCHANGED <<posted, trouble>>
  /\ UNCHANGED <<deleted, verdict, listed, todo, target, batch, asking, questioned, own, prompts>>

(* Marking needs the row to be pending still and the lease to be the       *)
(* handler's own.                                                          *)
Holds(h, c) == c \in batch[h] /\ row[c].delivery = "pending" /\ row[c].holder = h

(* markAgentCallsDelivered: a question that was told leaves the call open. *)
MAcknowledged(h, c) ==
  [row[c] EXCEPT !.leased = FALSE, !.holder = None,
     !.told = @ \/ Running(c),
     !.delivery = IF Running(c) THEN @ ELSE "delivered"]
Acknowledged(h, c) ==
  [row[c] EXCEPT !.leased = FALSE, !.holder = None,
     !.told = @ \/ (c \in asking[h] /\ Running(c)),
     !.delivery = IF c \in asking[h] THEN @ ELSE "delivered"]

(* failAgentCallDelivery: the lease is left to run out. *)
MFailed(c) ==
  [row[c] EXCEPT !.tries = @ + 1, !.holder = None,
     !.delivery = IF row[c].tries + 1 > MaxTries THEN "dropped" ELSE @]
Failed(c) ==
  [row[c] EXCEPT !.tries = @ + 1, !.holder = None,
     !.delivery = IF row[c].tries + 1 >= MaxTries THEN "dropped" ELSE @]

Marked(h, c) ==
  CASE answer[h] = "sse" -> Acknowledged(h, c)
    [] answer[h] = "busy" -> [row[c] EXCEPT !.leased = FALSE, !.holder = None]
    [] answer[h] = "error" -> Failed(c)
    [] answer[h] = "gone" -> [row[c] EXCEPT !.delivery = "dropped", !.leased = FALSE, !.holder = None]

StopPosting(h) ==
  /\ target' = [target EXCEPT ![h] = None]
  /\ batch' = [batch EXCEPT ![h] = {}]
  /\ asking' = [asking EXCEPT ![h] = {}]
  /\ answer' = [answer EXCEPT ![h] = "none"]

Mark(h) ==
  /\ stage[h] = "answered"
  /\ row' = [c \in Calls |-> IF Holds(h, c) THEN Marked(h, c) ELSE row[c]]
  /\ StopPosting(h)
  /\ ToPost(h, todo[h] \ {target[h]})
  /\ UNCHANGED <<turn, deleted, verdict, listed, historyVars, boundVars>>

(* consumeAgentCall: the caller reads a finished result in its own turn,   *)
(* inline or with get_agent_result; it is told "running" while its latest  *)
(* call into that session runs.  It gets the text in any case; a row that  *)
(* a handler has leased is left as it is.                                  *)
Siblings(c) == {d \in Calls : Parent[d] = Parent[c] /\ Child[d] = Child[c]}

ReadResult(c) ==
  LET free == {d \in Siblings(c) : Finished(d) /\ row[d].delivery = "pending" /\ ~row[d].leased} IN
  /\ Working(Parent[c]) /\ Finished(c)
  /\ \A d \in Siblings(c) : ~Running(d)
  /\ row' = [d \in Calls |-> IF d \in free THEN [row[d] EXCEPT !.delivery = "consumed"] ELSE row[d]]
  /\ UNCHANGED <<turn, deleted, jobVars, historyVars, boundVars>>

-----------------------------------------------------------------------------
(* Faults *)

(* What a handler leaves behind that goes away: the turn it was starting,  *)
(* its leases without an owner, the rest undone.                           *)
Dropped(h) == IF stage[h] = "starting" THEN [turn EXCEPT ![target[h]] = "free"] ELSE turn

Drop(h) ==
  /\ trouble < MaxTrouble /\ trouble' = trouble + 1
  /\ Goto(h, "idle") /\ StopPosting(h)
  /\ row' = [c \in Calls |-> IF row[c].holder = h THEN [row[c] EXCEPT !.holder = None] ELSE row[c]]
  /\ todo' = [todo EXCEPT ![h] = {}]
  /\ verdict' = [g \in Settlers |-> IF g = h THEN "none" ELSE verdict[g]]
  /\ listed' = IF h = Sweeper THEN {} ELSE listed
  /\ UNCHANGED <<deleted, historyVars, prompts>>

(* It goes away with its process, or with its database connection.         *)
LoseHandler(h) ==
  /\ stage[h] # "idle"
  /\ turn' = Dropped(h)
  /\ Drop(h)

(* The replica that runs a turn dies, and the queue of its stream with it. *)
(* Its claim runs out; recovery looks for sessions left in 'agent', not    *)
(* for one parked ('human').                                               *)
LoseTurn(s) ==
  /\ turn[s] \in {"agent", "parked"}
  /\ turn' = [Dropped(s) EXCEPT ![s] = IF turn[s] = "agent" THEN "orphan" ELSE "free"]
  /\ Drop(s)

(* recoverOrphanedSessions, when a replica starts: the agent still has the *)
(* turn, or forgot it (the session is set 'idle' and nothing is settled).  *)
Recover(s) ==
  /\ turn[s] \in {"orphan", "adrift"}
  /\ \E to \in {"agent", "free"} : turn' = [turn EXCEPT ![s] = to]
  /\ UNCHANGED <<deleted, row, jobVars, historyVars, boundVars>>

DeleteSession(s) ==
  /\ trouble < MaxTrouble /\ s \notin deleted
  /\ trouble' = trouble + 1
  /\ deleted' = deleted \cup {s}
  /\ UNCHANGED <<turn, row, jobVars, historyVars, prompts>>

(* A handler that is posting renews its leases; one nobody renews, or      *)
(* whose renewal fails, runs out.                                          *)
Unlease(c) == row' = [row EXCEPT ![c].leased = FALSE]

Lapse(c) ==
  /\ row[c].leased /\ row[c].holder = None
  /\ Unlease(c)
  /\ UNCHANGED <<turn, deleted, jobVars, historyVars, boundVars>>

RenewalLost(c) ==
  /\ trouble < MaxTrouble /\ row[c].leased /\ row[c].holder # None
  /\ trouble' = trouble + 1
  /\ Unlease(c)
  /\ UNCHANGED <<turn, deleted, jobVars, historyVars, prompts>>

-----------------------------------------------------------------------------
PostStep(h) ==
  \/ \E p \in Sessions : Take(h, p) \/ TakeNothing(h, p)
  \/ Dispatch(h) \/ Mark(h)
SettleStep(h) == CountOpen(h) \/ CloseCalls(h)
SweepStep == Sweep \/ SweepClose \/ SweepParents

Next ==
  \/ \E s \in Sessions :
       \/ Prompt(s) \/ Ask(s) \/ Answered(s) \/ End(s) \/ Interrupt(s)
       \/ Note(s) \/ LoseTurn(s) \/ Recover(s) \/ DeleteSession(s)
  \/ \E h \in Settlers : SettleStep(h)
  \/ \E h \in Handlers : PostStep(h) \/ LoseHandler(h)
  \/ SweepStep
  \/ \E c \in Calls : CallAgent(c) \/ ReadResult(c) \/ Lapse(c) \/ RenewalLost(c)

(* Handlers go on, the sweep is a timer, an agent's turn ends (the idle    *)
(* timeout of run-turn.ts at the latest), a replica that died is replaced  *)
(* and recovers, a lease runs out.  Nobody need prompt, answer, read, or   *)
(* restart a replica that lives.                                           *)
Fairness ==
  /\ \A h \in Handlers : WF_vars(PostStep(h))
  /\ \A h \in Settlers : WF_vars(SettleStep(h))
  /\ \A s \in Sessions :
       /\ WF_vars(Note(s)) /\ WF_vars(End(s))
       /\ WF_vars(turn[s] = "orphan" /\ Recover(s))
  /\ WF_vars(SweepStep)
  /\ \A c \in Calls : WF_vars(Lapse(c))

Spec == Init /\ [][Next]_vars
FairSpec == Spec /\ Fairness

-----------------------------------------------------------------------------
(* Properties *)

TypeOK ==
  /\ turn \in [Sessions -> {"free", "starting", "agent", "parked", "orphan", "adrift"}]
  /\ deleted \subseteq Sessions
  /\ row \in [Calls -> Row]
  /\ stage \in [Handlers -> {"idle", "noting", "counting", "closing",
                             "sweeping", "posting"} \cup Posting]
  /\ verdict \in [Settlers -> {"none", "ended", "failed"}]
  /\ listed \subseteq Sessions \X {"ended", "failed"}
  /\ todo \in [Handlers -> SUBSET Sessions]
  /\ target \in [Handlers -> Sessions \cup {None}]
  /\ batch \in [Handlers -> SUBSET Calls]
  /\ asking \in [Handlers -> SUBSET Calls]
  /\ answer \in [Handlers -> {"none", "sse", "busy", "error", "gone"}]
  /\ posted \in [Calls -> Nat]
  /\ questioned \subseteq Calls
  /\ own \in [Settlers -> SUBSET Calls]
  /\ prompts \in 0..MaxPrompts /\ trouble \in 0..MaxTrouble

(* Each result is posted once.  Only a handler or a renewal that was lost, *)
(* or a write that failed after the agent had the post, can make it twice, *)
(* once each: whoever else posts, settles or sweeps meanwhile leaves a     *)
(* leased row alone.                                                       *)
PostedOnce == \A c \in Calls : posted[c] <= 1 + trouble

(* A call is closed as delivered only when its result, not just its        *)
(* question, was posted: a result that arrives while the question is being *)
(* posted is not swallowed by the acknowledgement.                         *)
ResultNotSwallowed ==
  \A c \in Calls : row[c].delivery = "delivered" => Finished(c) /\ posted[c] > 0

(* The outcome of a call is recorded once.  The turn's own end, the sweep  *)
(* on what it read before and the end of a later turn may all come to      *)
(* record it; the first one counts.                                        *)
OutcomeFinal ==
  [][\A c \in Calls : Finished(c) => row'[c].status = row[c].status]_vars

(* The end of a turn does not close the call into its session while a call *)
(* that the session had running when the turn ended runs still, unless     *)
(* that one asked its user: whatever other turns of the session, their     *)
(* settling, posts and sweeps come between the end, the count of open      *)
(* calls and the closing.  Of a call made after the end nothing is said:   *)
(* a later turn can make one between the count and the closing.            *)
HeldBack ==
  [][\A h \in Settlers, o \in Calls :
        (CloseCalls(h) /\ verdict[h] = "ended" /\ o \in own[h] /\ Running(o))
        => o \in questioned]_vars

(* The rows and what is done with them implement CallContract. *)
Contract == INSTANCE CallContract WITH
  status <- [c \in Calls |-> row[c].status], fate <- [c \in Calls |-> row[c].delivery],
  posts <- posted, asked <- questioned, faults <- trouble
ContractSpec == Contract!Spec

(* Every finished result is taken care of: delivered, read by its caller   *)
(* or dropped, however many posts fail or handlers are lost, unless the    *)
(* calling session is parked on a question of its own.                     *)
ResultReaches ==
  \A c \in Calls :
    Finished(c) /\ row[c].delivery = "pending"
      ~> row[c].delivery # "pending" \/ turn[Parent[c]] = "parked"

(* Every call gets an outcome, crashes included, unless it asked its user  *)
(* or its session was set adrift: the sweep passes over a session that     *)
(* says 'agent' though nothing follows it.                                 *)
OutcomeReached ==
  \A c \in Calls :
    Running(c) /\ ~row[c].asked
      ~> Finished(c) \/ row[c].asked \/ turn[Child[c]] \in {"parked", "adrift"}

(* agent-call-delivery.ts:131: the end of a turn "records the outcome on   *)
(* the call that ran it".  Of two calls into one session whose turn is     *)
(* running, at least the one that runs it stays open.                      *)
RunningCallStaysOpen ==
  [][\A c, d \in Calls :
        (c # d /\ Child[c] = Child[d] /\ Running(c) /\ Running(d) /\ turn[Child[c]] = "agent")
          => Running(c)' \/ Running(d)']_vars
=============================================================================

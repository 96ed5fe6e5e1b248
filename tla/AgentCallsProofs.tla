-------------------------- MODULE AgentCallsProofs --------------------------
(***************************************************************************)
(* Proofs about AgentCalls, for any sessions, any graph of calls among     *)
(* them, any bounds and any number of faults.  The inductive invariant is  *)
(* TypeOK with Handling (what a handler that is posting knows of the rows  *)
(* it leased when it read them, and still knows after every step of the    *)
(* others), and then, for one theorem each, Held (who waits on whom, and   *)
(* who waited when a turn ended), Potential (how many posts a call can     *)
(* still get) and InHand (whose tokens the rows bear).                     *)
(***************************************************************************)
EXTENDS AgentCalls, FiniteSetTheorems, TLAPS

(* A handler that has an answer marks rows by it; one that settles has a   *)
(* verdict; a row is dropped at its last try; the result a handler took is *)
(* final, and was posted if the agent answered; what is delivered was.     *)
Handling ==
  /\ \A h \in Handlers : stage[h] = "answered" => answer[h] # "none"
  /\ \A h \in Settlers : stage[h] \in {"counting", "closing"} => verdict[h] \in {"ended", "failed"}
  /\ \A c \in Calls : row[c].delivery = "pending" => row[c].tries < MaxTries
  /\ \A h \in Handlers, c \in Calls : c \in batch[h] \ asking[h] => Finished(c)
  /\ \A h \in Handlers, c \in Calls :
       stage[h] = "answered" /\ answer[h] = "sse" /\ c \in batch[h] \ asking[h] => posted[c] > 0
  /\ ResultNotSwallowed

(* What a step may not do to the outcome of a call. *)
OutcomeKept == \A c \in Calls : Finished(c) => row'[c].status = row[c].status

-----------------------------------------------------------------------------
(* Rows *)

(* What the SQL of a dispatch, a completed turn and an ended call makes of *)
(* rows are rows.                                                          *)
LEMMA RowTypes ==
  ASSUME TypeOK
  PROVE  /\ \A s : Reset(s) \in [Calls -> Row] /\ Completed(s) \in [Calls -> Row]
         /\ \A s, v : v \in {"ended", "failed"} => Ended(s, v) \in [Calls -> Row]
<1> USE DEF TypeOK
<1>1. ASSUME NEW c \in Calls PROVE row[c] \in Row
  OBVIOUS
<1>2. ASSUME NEW c \in Calls, NEW v \in {"ended", "failed"} PROVE Over(c, v) \in Row
  BY ZenonT(60), <1>1 DEF Over, Row
<1>3. ASSUME NEW c \in Calls
      PROVE  /\ [row[c] EXCEPT !.asked = FALSE, !.told = FALSE, !.done = FALSE] \in Row
             /\ [row[c] EXCEPT !.done = TRUE] \in Row
  BY ZenonT(60), <1>1 DEF Row
<1> QED
  BY <1>1, <1>2, <1>3 DEF Reset, Completed, Ended

(* Marking keeps the type of a row that has a try left.                    *)
LEMMA MarkedType ==
  ASSUME TypeOK, NEW h \in Handlers, NEW c \in Calls, answer[h] # "none",
         row[c].tries < MaxTries
  PROVE  Marked(h, c) \in Row
<1>1. row[c] \in Row /\ MaxTries \in Nat /\ None \in Handlers \cup {None}
  BY AgentCallsAssumption DEF TypeOK
<1>2. Acknowledged(h, c) \in Row
  BY <1>1 DEF Acknowledged, Row, Running
<1>3. Failed(c) \in Row
  <2>1. row[c].tries + 1 \in 0..MaxTries
    BY <1>1 DEF Row
  <2> QED
    BY <1>1, <2>1 DEF Failed, Row
<1>4. /\ [row[c] EXCEPT !.leased = FALSE, !.holder = None] \in Row
      /\ [row[c] EXCEPT !.delivery = "dropped", !.leased = FALSE, !.holder = None] \in Row
  BY <1>1 DEF Row
<1>5. answer[h] \in {"sse", "busy", "error", "gone"}
  BY DEF TypeOK
<1> QED
  BY <1>2, <1>3, <1>4, <1>5 DEF Marked

(* The updates of single columns keep the type of a row. *)
LEMMA RowFields ==
  ASSUME NEW x \in Row
  PROVE  /\ [x EXCEPT !.asked = TRUE] \in Row
         /\ [x EXCEPT !.leased = FALSE] \in Row
         /\ [x EXCEPT !.holder = None] \in Row
         /\ [x EXCEPT !.delivery = "consumed"] \in Row
         /\ [x EXCEPT !.status = "running"] \in Row
         /\ \A h \in Handlers : [x EXCEPT !.leased = TRUE, !.holder = h] \in Row
BY DEF Row

(* What the SQL of a dispatch, a completed turn and an ended call leaves   *)
(* as it was.                                                              *)
LEMMA RowEffects ==
  ASSUME TypeOK, NEW s, NEW c \in Calls
  PROVE  /\ Reset(s)[c] \in Row /\ Completed(s)[c] \in Row
         /\ \A x \in {Reset(s)[c], Completed(s)[c]} :
              /\ x.status = row[c].status /\ x.delivery = row[c].delivery
              /\ x.tries = row[c].tries /\ x.holder = row[c].holder
              /\ x.leased = row[c].leased /\ (x.asked => row[c].asked)
         /\ \A v \in {"ended", "failed"} :
              LET x == Ended(s, v)[c] IN
              /\ x.status = row[c].status \/ (Running(c) /\ x.status = v)
              /\ x.delivery = row[c].delivery
              /\ x.tries = row[c].tries /\ x.holder = row[c].holder
              /\ x.leased = row[c].leased /\ (x.asked => row[c].asked)
<1> row[c] \in Row
  BY DEF TypeOK
<1>1. Reset(s)[c] \in Row /\ Completed(s)[c] \in Row
  BY RowTypes
<1> QED
  BY <1>1 DEF Reset, Completed, Ended, Over, Row, Running, CallsTo

(* A finished call keeps its outcome, and no delivery is touched. *)
KeepsResults ==
  \A c \in Calls :
    /\ Finished(c) => row'[c].status = row[c].status
    /\ row'[c].delivery = row[c].delivery
    /\ row'[c].tries = row[c].tries

(* What marking does to a row. *)
LEMMA MarkedFields ==
  ASSUME NEW h \in Handlers, NEW c \in Calls, row[c] \in Row, answer[h] \in {"sse", "busy", "error", "gone"}
  PROVE  /\ Marked(h, c).status = row[c].status
         /\ Marked(h, c).asked = row[c].asked
         /\ Marked(h, c).holder = None
         /\ Marked(h, c).delivery = "pending" =>
              Marked(h, c).tries = row[c].tries \/ ~(Marked(h, c).tries >= MaxTries)
         /\ \/ Marked(h, c).delivery = row[c].delivery /\ (answer[h] = "sse" => c \in asking[h])
            \/ Marked(h, c).delivery = "dropped"
            \/ Marked(h, c).delivery = "delivered" /\ answer[h] = "sse" /\ c \notin asking[h]
<1>1. CASE answer[h] = "sse"
  <2>1. Marked(h, c) = Acknowledged(h, c)
    BY <1>1 DEF Marked
  <2>2. Acknowledged(h, c).status = row[c].status /\ Acknowledged(h, c).asked = row[c].asked
    BY DEF Acknowledged, Row
  <2>3. Acknowledged(h, c).holder = None /\ Acknowledged(h, c).tries = row[c].tries
    BY DEF Acknowledged, Row
  <2>4. Acknowledged(h, c).delivery = IF c \in asking[h] THEN row[c].delivery ELSE "delivered"
    BY DEF Acknowledged, Row
  <2> QED
    BY <1>1, <2>1, <2>2, <2>3, <2>4
<1>2. CASE answer[h] = "error"
  <2>1. Marked(h, c) = Failed(c)
    BY <1>2 DEF Marked
  <2>2. Failed(c).status = row[c].status /\ Failed(c).asked = row[c].asked
    BY DEF Failed, Row
  <2>3. Failed(c).holder = None /\ Failed(c).tries = row[c].tries + 1
    BY DEF Failed, Row
  <2>4. Failed(c).delivery = IF row[c].tries + 1 >= MaxTries THEN "dropped" ELSE row[c].delivery
    BY DEF Failed, Row
  <2> QED
    BY <1>2, <2>1, <2>2, <2>3, <2>4
<1>3. CASE answer[h] = "busy"
  BY <1>3 DEF Marked, Row
<1>4. CASE answer[h] = "gone"
  BY <1>4 DEF Marked, Row
<1> QED
  BY <1>1, <1>2, <1>3, <1>4

-----------------------------------------------------------------------------
(* Steps *)

(* Every action keeps the types: one that marks rows has tries left.       *)
LEMMA TypeStep ==
  ASSUME TypeOK, Handling, [Next]_vars
  PROVE  TypeOK'
<1> USE AgentCallsAssumption
      DEF TypeOK, historyVars, boundVars, jobVars, postVars, Handlers, Goto, ToPost,
          Callers, Posting
<1>1. CASE UNCHANGED vars
  BY <1>1 DEF vars
<1>0. ASSUME NEW s \in Sessions, Follow(s) \/ SetAdrift(s)
      PROVE  /\ turn' \in [Sessions -> {"free", "starting", "agent", "parked", "orphan", "adrift"}]
             /\ trouble' \in 0..MaxTrouble
  <2>1. CASE Follow(s)
    BY <2>1 DEF Follow
  <2>2. CASE SetAdrift(s)
    BY <2>2 DEF SetAdrift
  <2> QED
    BY <1>0, <2>1, <2>2
<1>2. ASSUME NEW s \in Sessions, Prompt(s) PROVE TypeOK'
  <2>1. row' \in [Calls -> Row]
    BY <1>2, RowTypes DEF Prompt
  <2>2. /\ turn' \in [Sessions -> {"free", "starting", "agent", "parked", "orphan", "adrift"}]
        /\ trouble' \in 0..MaxTrouble
    BY <1>0, <1>2 DEF Prompt
  <2>3. prompts' \in 0..MaxPrompts /\ UNCHANGED <<deleted, jobVars, historyVars>>
    BY <1>2 DEF Prompt
  <2> QED
    BY <2>1, <2>2, <2>3
<1>3. ASSUME NEW s \in Sessions, Ask(s) PROVE TypeOK'
  BY <1>3 DEF Ask
<1>4. ASSUME NEW s \in Sessions, Answered(s) PROVE TypeOK'
  BY <1>4 DEF Answered
<1>5. ASSUME NEW s \in Sessions, NEW ok \in BOOLEAN, Settle(s, ok) PROVE TypeOK'
  <2>1. PICK h \in Settlers :
          /\ verdict' = [verdict EXCEPT ![h] = IF ok THEN "ended" ELSE "failed"]
          /\ stage' = [stage EXCEPT ![h] = IF ok THEN "counting" ELSE "closing"]
          /\ own' = [own EXCEPT ![h] = {c \in Calls : Parent[c] = s /\ Running(c)}]
    BY <1>5 DEF Settle
  <2>2. own' \in [Settlers -> SUBSET Calls]
    BY <2>1
  <2>3. /\ turn' = [turn EXCEPT ![s] = "free"]
        /\ UNCHANGED <<deleted, row, listed, todo, postVars, posted, questioned, boundVars>>
    BY <1>5 DEF Settle
  <2> QED
    BY <2>1, <2>2, <2>3
<1>6. ASSUME NEW s \in Sessions, End(s) \/ Interrupt(s) PROVE TypeOK'
  <2>1. \E ok \in BOOLEAN : Settle(s, ok)
    BY Zenon, <1>6 DEF End, Interrupt
  <2> HIDE DEF TypeOK
  <2> QED
    BY <1>5, <2>1
<1>7. ASSUME NEW s \in Sessions, Note(s) PROVE TypeOK'
  <2>1. row' \in [Calls -> Row]
    BY <1>7, RowFields DEF Note
  <2>2. /\ questioned' \subseteq Calls
        /\ todo' \in [Handlers -> SUBSET Sessions]
        /\ stage' \in [Handlers -> {"idle", "noting", "counting", "closing", "sweeping", "posting"} \cup Posting]
    BY <1>7 DEF Note, CallsTo
  <2> QED
    BY <1>7, <2>1, <2>2 DEF Note
<1>8. ASSUME NEW h \in Settlers, CountOpen(h) PROVE TypeOK'
  <2>1. row' \in [Calls -> Row]
    BY <1>8, RowTypes DEF CountOpen
  <2>2. /\ todo' \in [Handlers -> SUBSET Sessions]
        /\ verdict' \in [Settlers -> {"none", "ended", "failed"}]
        /\ stage' \in [Handlers -> {"idle", "noting", "counting", "closing", "sweeping", "posting"} \cup Posting]
    <3>1. CASE OpenCalls(Of[h]) # {}
      <4>1. ToPost(h, {Of[h]}) /\ verdict' = [verdict EXCEPT ![h] = "none"]
        <5> HIDE DEF TypeOK, ToPost, Goto, Posting
        <5> QED
          BY <1>8, <3>1 DEF CountOpen
      <4>2. /\ todo' = [todo EXCEPT ![h] = {Of[h]}]
            /\ stage' = [stage EXCEPT ![h] = IF {Of[h]} = {} THEN "idle" ELSE "posting"]
        BY <4>1
      <4>3. verdict' \in [Settlers -> {"none", "ended", "failed"}]
        BY <4>1
      <4>4. todo' \in [Handlers -> SUBSET Sessions]
        BY <4>2
      <4>5. stage' \in [Handlers -> {"idle", "noting", "counting", "closing", "sweeping", "posting"} \cup Posting]
        BY <4>2
      <4> QED
        BY <4>3, <4>4, <4>5
    <3>2. CASE OpenCalls(Of[h]) = {}
      BY <1>8, <3>2 DEF CountOpen
    <3> QED
      BY <3>1, <3>2
  <2> QED
    BY <1>8, <2>1, <2>2 DEF CountOpen
<1>9. ASSUME NEW h \in Settlers, CloseCalls(h) PROVE TypeOK'
  <2>1. verdict[h] \in {"ended", "failed"}
    BY <1>9 DEF CloseCalls, Handling
  <2>2. row' \in [Calls -> Row]
    BY <1>9, <2>1, RowTypes DEF CloseCalls
  <2>3. Callers(CallsTo(Of[h])) \subseteq Sessions
    BY DEF CallsTo
  <2> HIDE DEF Callers
  <2>4. /\ todo' \in [Handlers -> SUBSET Sessions]
        /\ stage' \in [Handlers -> {"idle", "noting", "counting", "closing", "sweeping", "posting"} \cup Posting]
    BY <1>9, <2>3 DEF CloseCalls
  <2> QED
    BY <1>9, <2>2, <2>4 DEF CloseCalls
<1>10. ASSUME NEW h \in Handlers, Drop(h),
              turn' \in [Sessions -> {"free", "starting", "agent", "parked", "orphan", "adrift"}]
       PROVE  TypeOK'
  <2>1. row' \in [Calls -> Row]
    BY <1>10, RowFields DEF Drop
  <2>2. /\ verdict' \in [Settlers -> {"none", "ended", "failed"}]
        /\ listed' \subseteq Sessions \X {"ended", "failed"}
    BY <1>10 DEF Drop
  <2>3. trouble' \in 0..MaxTrouble
    BY <1>10 DEF Drop
  <2>4. /\ UNCHANGED <<deleted, historyVars, prompts>> /\ StopPosting(h) /\ todo' = [todo EXCEPT ![h] = {}]
        /\ stage' = [stage EXCEPT ![h] = "idle"]
    BY <1>10 DEF Drop
  <2> QED
    BY <1>10, <2>1, <2>2, <2>3, <2>4 DEF StopPosting
<1>10b. ASSUME NEW s \in Sessions, LoseTurn(s) PROVE TypeOK'
  <2>1. turn' \in [Sessions -> {"free", "starting", "agent", "parked", "orphan", "adrift"}]
    BY <1>10b DEF LoseTurn, Dropped
  <2> QED
    BY <1>10, <1>10b, <2>1 DEF LoseTurn
<1>11. ASSUME NEW s \in Sessions, Recover(s) PROVE TypeOK'
  BY <1>11 DEF Recover
<1>12. ASSUME NEW s \in Sessions, DeleteSession(s) PROVE TypeOK'
  BY <1>12 DEF DeleteSession
<1>13. ASSUME NEW h \in Handlers, NEW p \in Sessions, Take(h, p) PROVE TypeOK'
  <2> DEFINE ready == {c \in Calls : Parent[c] = p /\ Deliverable(c)}
  <2>1. ready \subseteq Calls /\ {c \in ready : Running(c)} \subseteq Calls
    OBVIOUS
  <2>2. row' = [c \in Calls |-> IF c \in ready THEN [row[c] EXCEPT !.leased = TRUE, !.holder = h] ELSE row[c]]
    BY <1>13 DEF Take, Lease
  <2>3. row' \in [Calls -> Row]
    BY <2>2, RowFields
  <2>4. batch' = [batch EXCEPT ![h] = ready] /\ asking' = [asking EXCEPT ![h] = {c \in ready : Running(c)}]
    BY <1>13 DEF Take
  <2> HIDE DEF ready
  <2>5. batch' \in [Handlers -> SUBSET Calls] /\ asking' \in [Handlers -> SUBSET Calls]
    BY <2>1, <2>4
  <2>6. turn' = turn \/ turn' = [turn EXCEPT ![p] = "starting"]
    BY <1>13 DEF Take, Reply
  <2>7. answer' = answer \/ \E a \in {"busy", "error", "gone"} : answer' = [answer EXCEPT ![h] = a]
    BY <1>13 DEF Take, Reply
  <2>8. \E to \in Posting : stage' = [stage EXCEPT ![h] = to]
    BY <1>13 DEF Take, Reply
  <2>9. target' = [target EXCEPT ![h] = p]
    BY <1>13 DEF Take
  <2>10. UNCHANGED <<deleted, verdict, listed, todo, historyVars, boundVars>>
    BY <1>13 DEF Take
  <2>11. /\ turn' \in [Sessions -> {"free", "starting", "agent", "parked", "orphan", "adrift"}]
         /\ answer' \in [Handlers -> {"none", "sse", "busy", "error", "gone"}]
    <3>1. turn' \in [Sessions -> {"free", "starting", "agent", "parked", "orphan", "adrift"}]
      BY <2>6
    <3>2. answer' \in [Handlers -> {"none", "sse", "busy", "error", "gone"}]
      BY <2>7
    <3> QED
      BY <3>1, <3>2
  <2>12. target' \in [Handlers -> Sessions \cup {None}]
    BY <2>9
  <2> QED
    BY <2>3, <2>5, <2>8, <2>10, <2>11, <2>12
<1>14. ASSUME NEW h \in Handlers, NEW p \in Sessions, TakeNothing(h, p) PROVE TypeOK'
  BY <1>14 DEF TakeNothing
<1>15. ASSUME NEW h \in Handlers, Dispatch(h) PROVE TypeOK'
  <2>1. row' \in [Calls -> Row]
    BY <1>15, RowTypes DEF Dispatch
  <2>2. posted' \in [Calls -> Nat]
    BY <1>15 DEF Dispatch
  <2>3. \E to \in {"agent", "free", "adrift"} : turn' = [turn EXCEPT ![target[h]] = to]
    BY <1>15 DEF Dispatch, Follow, SetAdrift
  <2>4. \E a \in {"sse", "error"} : answer' = [answer EXCEPT ![h] = a]
    BY <1>15 DEF Dispatch
  <2>5. stage' = [stage EXCEPT ![h] = "answered"]
    BY <1>15 DEF Dispatch
  <2>6. UNCHANGED <<deleted, verdict, listed, todo, target, batch, asking, questioned, own, prompts>>
    BY <1>15 DEF Dispatch
  <2>7. turn' \in [Sessions -> {"free", "starting", "agent", "parked", "orphan", "adrift"}]
    BY <2>3
  <2>8. answer' \in [Handlers -> {"none", "sse", "busy", "error", "gone"}]
    BY <2>4
  <2>9. trouble' \in 0..MaxTrouble
    BY <1>15 DEF Dispatch, Follow, SetAdrift
  <2> QED
    BY <2>1, <2>2, <2>5, <2>6, <2>7, <2>8, <2>9
<1>16. ASSUME NEW h \in Handlers, Mark(h) PROVE TypeOK'
  <2>1. row' \in [Calls -> Row]
    <3>1. ASSUME NEW c \in Calls, Holds(h, c) PROVE Marked(h, c) \in Row
      BY <1>16, <3>1, MarkedType DEF Mark, Holds, Handling
    <3> QED
      BY <1>16, <3>1 DEF Mark
  <2>2. /\ todo' \in [Handlers -> SUBSET Sessions]
        /\ stage' \in [Handlers -> {"idle", "noting", "counting", "closing", "sweeping", "posting"} \cup Posting]
    BY <1>16 DEF Mark
  <2>3. UNCHANGED <<turn, deleted, verdict, listed, historyVars, boundVars>> /\ StopPosting(h)
    BY <1>16 DEF Mark
  <2> QED
    BY <2>1, <2>2, <2>3 DEF StopPosting
<1>17. ASSUME NEW h \in Handlers, LoseHandler(h) PROVE TypeOK'
  <2>1. turn' \in [Sessions -> {"free", "starting", "agent", "parked", "orphan", "adrift"}]
    BY <1>17 DEF LoseHandler, Dropped
  <2> QED
    BY <1>10, <1>17, <2>1 DEF LoseHandler
<1>18. CASE Sweep
  <2>1. \A c \in Calls : <<Child[c], StaleVerdict(c)>> \in Sessions \X {"ended", "failed"}
    BY DEF StaleVerdict
  <2>2. listed' \subseteq Sessions \X {"ended", "failed"}
    BY <1>18, <2>1 DEF Sweep
  <2> QED
    BY <1>18, <2>2 DEF Sweep
<1>19. CASE SweepClose
  <2>1. PICK e \in listed :
          /\ listed' = listed \ {e}
          /\ row' = Ended(e[1], e[2])
          /\ todo' = [todo EXCEPT ![Sweeper] = @ \cup Callers(CallsTo(e[1]))]
    BY <1>19 DEF SweepClose
  <2>2. e[1] \in Sessions /\ e[2] \in {"ended", "failed"}
    OBVIOUS
  <2>3. row' \in [Calls -> Row]
    BY <2>1, <2>2, RowTypes
  <2>4. Callers(CallsTo(e[1])) \subseteq Sessions
    BY DEF CallsTo
  <2> HIDE DEF Callers
  <2>5. todo' \in [Handlers -> SUBSET Sessions]
    BY <2>1, <2>4
  <2> QED
    BY <1>19, <2>1, <2>3, <2>5 DEF SweepClose
<1>20. CASE SweepParents
  BY <1>20 DEF SweepParents
<1>21. ASSUME NEW c \in Calls, CallAgent(c) PROVE TypeOK'
  <2>1. row' = [row EXCEPT ![c] = [row[c] EXCEPT !.status = "running"]]
    BY <1>21 DEF CallAgent
  <2>2. row' \in [Calls -> Row]
    BY <2>1, RowFields
  <2> QED
    BY <1>21, <2>2 DEF CallAgent
<1>22. ASSUME NEW c \in Calls, ReadResult(c) PROVE TypeOK'
  <2>1. row' \in [Calls -> Row]
    BY <1>22, RowFields DEF ReadResult
  <2> QED
    BY <1>22, <2>1 DEF ReadResult
<1>23. ASSUME NEW c \in Calls, Lapse(c) PROVE TypeOK'
  <2>1. row' = [row EXCEPT ![c] = [row[c] EXCEPT !.leased = FALSE]]
    BY <1>23 DEF Lapse, Unlease
  <2>2. row' \in [Calls -> Row]
    BY <2>1, RowFields
  <2> QED
    BY <1>23, <2>2 DEF Lapse
<1>24. ASSUME NEW c \in Calls, RenewalLost(c) PROVE TypeOK'
  <2>1. row' = [row EXCEPT ![c] = [row[c] EXCEPT !.leased = FALSE]]
    BY SMTT(40), <1>24 DEF RenewalLost, Unlease
  <2>2. row' \in [Calls -> Row]
    BY <2>1, RowFields
  <2> QED
    BY <1>24, <2>2 DEF RenewalLost
<1> QED
  BY <1>1, <1>2, <1>3, <1>4, <1>6, <1>7, <1>8, <1>9, <1>10b, <1>11, <1>12, <1>13,
     <1>14, <1>15, <1>16, <1>17, <1>18, <1>19, <1>20, <1>21, <1>22, <1>23, <1>24 DEF
     Next, PostStep, SettleStep, SweepStep

(* Every action keeps what the handlers know, and the outcome of a call.   *)
LEMMA HandlingStep ==
  ASSUME TypeOK, Handling, [Next]_vars
  PROVE  Handling' /\ OutcomeKept
<1> USE AgentCallsAssumption
      DEF TypeOK, historyVars, boundVars, jobVars, postVars, Handlers, Goto, ToPost,
          Callers, Posting, Handling, ResultNotSwallowed, OutcomeKept, Finished,
          Running
<1>1. CASE UNCHANGED vars
  BY <1>1 DEF vars
<1>2. ASSUME NEW s \in Sessions, Prompt(s) PROVE Handling' /\ OutcomeKept
  <2>1. KeepsResults
    BY <1>2, RowEffects DEF Prompt, KeepsResults
  <2>2. UNCHANGED <<jobVars, historyVars>>
    BY <1>2 DEF Prompt
  <2> QED
    BY ZenonT(60), <2>1, <2>2 DEF KeepsResults
<1>3. ASSUME NEW s \in Sessions, Ask(s) PROVE Handling' /\ OutcomeKept
  BY <1>3 DEF Ask
<1>4. ASSUME NEW s \in Sessions, Answered(s) PROVE Handling' /\ OutcomeKept
  BY <1>4 DEF Answered
<1>5. ASSUME NEW s \in Sessions, End(s) PROVE Handling' /\ OutcomeKept
  BY <1>5 DEF End, Settle
<1>6. ASSUME NEW s \in Sessions, Interrupt(s) PROVE Handling' /\ OutcomeKept
  BY <1>6 DEF Interrupt, Settle
<1>7. ASSUME NEW s \in Sessions, Note(s) PROVE Handling' /\ OutcomeKept
  <2>1. KeepsResults
    BY <1>7 DEF Note, Row, KeepsResults
  <2> QED
    BY <1>7, <2>1 DEF Note, KeepsResults
<1>8. ASSUME NEW h \in Settlers, CountOpen(h) PROVE Handling' /\ OutcomeKept
  <2>1. KeepsResults
    BY <1>8, RowEffects DEF CountOpen, KeepsResults
  <2>2. /\ UNCHANGED <<answer, batch, asking, posted>>
        /\ \/ /\ \E to \in {"idle", "posting"} : stage' = [stage EXCEPT ![h] = to]
              /\ verdict' = [verdict EXCEPT ![h] = "none"]
           \/ stage[h] = "counting" /\ stage' = [stage EXCEPT ![h] = "closing"] /\ verdict' = verdict
    BY <1>8 DEF CountOpen
  <2>3. \A g \in Handlers : g # h => stage'[g] = stage[g]
    BY <2>2
  <2>4. stage'[h] # "answered" /\ stage'[h] # "counting"
    BY <2>2
  <2>5. \A g \in Handlers : stage'[g] = "answered" => answer'[g] # "none"
    BY <2>2, <2>3, <2>4
  <2>6. \A g \in Settlers : stage'[g] \in {"counting", "closing"} => verdict'[g] \in {"ended", "failed"}
    BY SMTT(30), <2>2, <2>3, <2>4
  <2>7. \A c \in Calls : row'[c].delivery = "pending" => row'[c].tries < MaxTries
    BY <2>1 DEF KeepsResults
  <2>8. \A g \in Handlers, c \in Calls : c \in batch'[g] \ asking'[g] => Finished(c)'
    BY <2>1, <2>2 DEF KeepsResults
  <2>9. \A g \in Handlers, c \in Calls :
           stage'[g] = "answered" /\ answer'[g] = "sse" /\ c \in batch'[g] \ asking'[g] => posted'[c] > 0
    BY <2>2, <2>3, <2>4
  <2>10. \A c \in Calls : row'[c].delivery = "delivered" => Finished(c)' /\ posted'[c] > 0
    BY <2>1, <2>2 DEF KeepsResults
  <2> QED
    BY <2>1, <2>5, <2>6, <2>7, <2>8, <2>9, <2>10 DEF KeepsResults
<1>9. ASSUME NEW h \in Settlers, CloseCalls(h) PROVE Handling' /\ OutcomeKept
  <2>1. verdict[h] \in {"ended", "failed"}
    BY <1>9 DEF CloseCalls
  <2>2. KeepsResults
    BY <1>9, <2>1, RowEffects DEF CloseCalls, KeepsResults
  <2> QED
    BY ZenonT(60), <1>9, <2>2 DEF CloseCalls, KeepsResults
<1>10. ASSUME NEW h \in Handlers, Drop(h) PROVE Handling' /\ OutcomeKept
  <2>1. KeepsResults
    BY <1>10 DEF Drop, KeepsResults, Row
  <2> QED
    BY <1>10, <2>1 DEF Drop, StopPosting, KeepsResults
<1>10b. ASSUME NEW s \in Sessions, LoseTurn(s) PROVE Handling' /\ OutcomeKept
  BY <1>10, <1>10b DEF LoseTurn
<1>11. ASSUME NEW s \in Sessions, Recover(s) PROVE Handling' /\ OutcomeKept
  BY <1>11 DEF Recover
<1>12. ASSUME NEW s \in Sessions, DeleteSession(s) PROVE Handling' /\ OutcomeKept
  BY <1>12 DEF DeleteSession
<1>13. ASSUME NEW h \in Handlers, NEW p \in Sessions, Take(h, p) PROVE Handling' /\ OutcomeKept
  <2> DEFINE ready == {c \in Calls : Parent[c] = p /\ Deliverable(c)}
  <2>1. KeepsResults
    <3>1. row' = [c \in Calls |-> IF c \in ready THEN [row[c] EXCEPT !.leased = TRUE, !.holder = h] ELSE row[c]]
      BY <1>13 DEF Take, Lease
    <3> HIDE DEF ready
    <3>2. ASSUME NEW c \in Calls
          PROVE  row'[c].status = row[c].status /\ row'[c].delivery = row[c].delivery /\ row'[c].tries = row[c].tries
      <4>1. row[c] \in Row
        OBVIOUS
      <4> QED
        BY <3>1, <4>1 DEF Row
    <3> QED
      BY <3>2 DEF KeepsResults
  <2>2. \A c \in batch'[h] \ asking'[h] : Finished(c)
    BY <1>13 DEF Take, Deliverable
  <2>3. \A g \in Handlers \ {h} : batch'[g] = batch[g] /\ asking'[g] = asking[g] /\ stage'[g] = stage[g] /\ answer'[g] = answer[g]
    BY <1>13 DEF Take, Reply
  <2>4. stage'[h] = "starting" \/ (stage'[h] = "answered" /\ answer'[h] \in {"busy", "error", "gone"})
    BY <1>13 DEF Take, Reply
  <2>5. UNCHANGED <<verdict, posted>>
    BY <1>13 DEF Take
  <2>6. \A g \in Handlers : stage'[g] = "answered" => answer'[g] # "none"
    BY <2>3, <2>4
  <2>7. \A s \in Settlers : stage'[s] \in {"counting", "closing"} => verdict'[s] \in {"ended", "failed"}
    BY <2>3, <2>4, <2>5
  <2>8. \A c \in Calls : row'[c].delivery = "pending" => row'[c].tries < MaxTries
    BY <2>1 DEF KeepsResults
  <2>9. \A g \in Handlers, c \in Calls : c \in batch'[g] \ asking'[g] => Finished(c)'
    BY <2>1, <2>2, <2>3 DEF KeepsResults
  <2>10. \A g \in Handlers, c \in Calls :
           stage'[g] = "answered" /\ answer'[g] = "sse" /\ c \in batch'[g] \ asking'[g] => posted'[c] > 0
    BY <2>2, <2>3, <2>4, <2>5
  <2>11. \A c \in Calls : row'[c].delivery = "delivered" => Finished(c)' /\ posted'[c] > 0
    BY <2>1, <2>5 DEF KeepsResults
  <2> QED
    BY <2>1, <2>6, <2>7, <2>8, <2>9, <2>10, <2>11 DEF KeepsResults
<1>14. ASSUME NEW h \in Handlers, NEW p \in Sessions, TakeNothing(h, p) PROVE Handling' /\ OutcomeKept
  BY <1>14 DEF TakeNothing
<1>15. ASSUME NEW h \in Handlers, Dispatch(h) PROVE Handling' /\ OutcomeKept
  <2>1. KeepsResults
    BY <1>15, RowEffects DEF Dispatch, KeepsResults
  <2>2. ASSUME NEW c \in Calls PROVE posted'[c] = posted[c] \/ posted'[c] = posted[c] + 1
    BY <1>15 DEF Dispatch
  <2>3. \A g \in Handlers \ {h} : stage'[g] = stage[g] /\ answer'[g] = answer[g]
    BY <1>15 DEF Dispatch
  <2>4. /\ stage'[h] = "answered" /\ answer'[h] # "none"
        /\ answer'[h] = "sse" => \A c \in batch[h] \ asking[h] : posted'[c] = posted[c] + 1
    BY <1>15 DEF Dispatch
  <2>5. UNCHANGED <<verdict, batch, asking>>
    BY <1>15 DEF Dispatch
  <2>6. \A g \in Handlers : stage'[g] = "answered" => answer'[g] # "none"
    BY <2>3, <2>4
  <2>7. \A s \in Settlers : stage'[s] \in {"counting", "closing"} => verdict'[s] \in {"ended", "failed"}
    BY <2>3, <2>4, <2>5
  <2>8. \A c \in Calls : row'[c].delivery = "pending" => row'[c].tries < MaxTries
    BY <2>1 DEF KeepsResults
  <2>9. \A g \in Handlers, c \in Calls : c \in batch'[g] \ asking'[g] => Finished(c)'
    BY <2>1, <2>5 DEF KeepsResults
  <2>10. \A g \in Handlers, c \in Calls :
           stage'[g] = "answered" /\ answer'[g] = "sse" /\ c \in batch'[g] \ asking'[g] => posted'[c] > 0
    <3> SUFFICES ASSUME NEW g \in Handlers, NEW c \in Calls,
                        stage'[g] = "answered", answer'[g] = "sse", c \in batch[g] \ asking[g]
                 PROVE  posted'[c] > 0
      BY <2>5
    <3>1. posted[c] \in Nat
      OBVIOUS
    <3>2. CASE g = h
      BY <3>1, <3>2, <2>4
    <3>3. CASE g # h
      <4>1. posted[c] > 0
        BY <3>3, <2>3
      <4> QED
        BY SMTT(40), <4>1, <3>1, <2>2
    <3> QED
      BY <3>2, <3>3
  <2>11. \A c \in Calls : row'[c].delivery = "delivered" => Finished(c)' /\ posted'[c] > 0
    BY SMTT(40), <2>1, <2>2 DEF KeepsResults
  <2> QED
    BY <2>1, <2>6, <2>7, <2>8, <2>9, <2>10, <2>11 DEF KeepsResults
<1>16. ASSUME NEW h \in Handlers, Mark(h) PROVE Handling' /\ OutcomeKept
  <2>1. ASSUME NEW c \in Calls
        PROVE  /\ row'[c].status = row[c].status
               /\ row'[c].delivery = "pending" => row[c].delivery = "pending" /\ row'[c].tries < MaxTries
               /\ row'[c].delivery = "delivered" =>
                    \/ row[c].delivery = "delivered"
                    \/ answer[h] = "sse" /\ c \in batch[h] \ asking[h]
    <3>1. CASE ~Holds(h, c)
      BY <1>16, <3>1 DEF Mark
    <3>2. CASE Holds(h, c)
      <4>1. row'[c] = Marked(h, c) /\ answer[h] \in {"sse", "busy", "error", "gone"} /\ row[c] \in Row
        BY <1>16, <3>2 DEF Mark
      <4>2. Marked(h, c).tries \in Nat
        BY <1>16, <3>2, MarkedType DEF Mark, Holds, Row
      <4>3. row[c].tries < MaxTries /\ row[c].tries \in Nat /\ row[c].delivery = "pending" /\ c \in batch[h]
        <5>1. row[c].delivery = "pending" /\ c \in batch[h]
          BY <3>2 DEF Holds
        <5>2. row[c].tries \in Nat
          BY <4>1 DEF Row
        <5> QED
          BY <5>1, <5>2
      <4>4. Marked(h, c).delivery = "pending" => Marked(h, c).tries < MaxTries
        <5> HIDE DEF TypeOK, Handling
        <5> DEFINE x == Marked(h, c)
        <5>1. x.delivery = "pending" => x.tries = row[c].tries \/ ~(x.tries >= MaxTries)
          BY <4>1, MarkedFields
        <5>2. x.tries \in Nat /\ MaxTries \in Nat
          BY <4>2
        <5> HIDE DEF x
        <5>3. x.delivery = "pending" => x.tries < MaxTries
          BY <5>1, <5>2, <4>3
        <5> QED
          BY <5>3 DEF x
      <4>5. Marked(h, c).delivery = "delivered" => answer[h] = "sse" /\ c \in batch[h] \ asking[h]
        BY <4>1, <4>3, MarkedFields
      <4>6. Marked(h, c).status = row[c].status
        BY <4>1, MarkedFields
      <4> QED
        BY <4>1, <4>3, <4>4, <4>5, <4>6
    <3> QED
      BY <3>1, <3>2
  <2>2. /\ batch' = [batch EXCEPT ![h] = {}] /\ answer' = [answer EXCEPT ![h] = "none"]
        /\ asking' = [asking EXCEPT ![h] = {}]
        /\ stage[h] = "answered" /\ \E to \in {"idle", "posting"} : stage' = [stage EXCEPT ![h] = to]
        /\ UNCHANGED <<verdict, posted>>
    BY <1>16 DEF Mark, StopPosting
  <2>3. \A c \in Calls : row'[c].delivery = "delivered" => Finished(c)' /\ posted'[c] > 0
    BY <2>1, <2>2
  <2>4. \A c \in Calls : row'[c].delivery = "pending" => row'[c].tries < MaxTries
    BY <2>1
  <2>5. \A g \in Handlers, c \in Calls : c \in batch'[g] \ asking'[g] => Finished(c)'
    BY <2>1, <2>2
  <2>6. \A g \in Handlers, c \in Calls :
           stage'[g] = "answered" /\ answer'[g] = "sse" /\ c \in batch'[g] \ asking'[g] => posted'[c] > 0
    BY <2>2
  <2>7. /\ \A g \in Handlers : stage'[g] = "answered" => answer'[g] # "none"
        /\ \A s \in Settlers : stage'[s] \in {"counting", "closing"} => verdict'[s] \in {"ended", "failed"}
    BY <2>2
  <2> QED
    BY <2>1, <2>3, <2>4, <2>5, <2>6, <2>7
<1>17. ASSUME NEW h \in Handlers, LoseHandler(h) PROVE Handling' /\ OutcomeKept
  BY <1>10, <1>17 DEF LoseHandler
<1>18. CASE Sweep
  BY <1>18 DEF Sweep
<1>19. CASE SweepClose
  <2>1. PICK e \in listed : row' = Ended(e[1], e[2])
    BY <1>19 DEF SweepClose
  <2>2. e[1] \in Sessions /\ e[2] \in {"ended", "failed"}
    OBVIOUS
  <2>3. KeepsResults
    <3>1. ASSUME NEW c \in Calls
          PROVE  /\ Finished(c) => row'[c].status = row[c].status
                 /\ row'[c].delivery = row[c].delivery /\ row'[c].tries = row[c].tries
      BY SMTT(40), <2>1, <2>2, RowEffects
    <3> QED
      BY Zenon, <3>1 DEF KeepsResults
  <2> QED
    BY ZenonT(60), <1>19, <2>3 DEF SweepClose, KeepsResults
<1>20. CASE SweepParents
  BY <1>20 DEF SweepParents
<1>21. ASSUME NEW c \in Calls, CallAgent(c) PROVE Handling' /\ OutcomeKept
  <2>1. KeepsResults
    BY <1>21 DEF CallAgent, Row, KeepsResults
  <2> QED
    BY <1>21, <2>1 DEF CallAgent, KeepsResults
<1>22. ASSUME NEW c \in Calls, ReadResult(c) PROVE Handling' /\ OutcomeKept
  <2>1. \A d \in Calls :
          /\ row'[d].status = row[d].status /\ row'[d].tries = row[d].tries
          /\ row'[d].delivery = row[d].delivery \/ row'[d].delivery = "consumed"
    BY <1>22 DEF ReadResult, Row
  <2>2. UNCHANGED <<stage, answer, verdict, batch, asking, posted>>
    BY <1>22 DEF ReadResult
  <2> QED
    BY ZenonT(60), <2>1, <2>2
<1>23. ASSUME NEW c \in Calls, Lapse(c) PROVE Handling' /\ OutcomeKept
  <2>1. KeepsResults
    BY <1>23 DEF Lapse, Unlease, Row, KeepsResults
  <2> QED
    BY <1>23, <2>1 DEF Lapse, KeepsResults
<1>24. ASSUME NEW c \in Calls, RenewalLost(c) PROVE Handling' /\ OutcomeKept
  <2>1. KeepsResults
    BY <1>24 DEF RenewalLost, Unlease, Row, KeepsResults
  <2> QED
    BY <1>24, <2>1 DEF RenewalLost, KeepsResults
<1> QED
  BY <1>1, <1>2, <1>3, <1>4, <1>5, <1>6, <1>7, <1>8, <1>9, <1>10b, <1>11, <1>12, <1>13,
     <1>14, <1>15, <1>16, <1>17, <1>18, <1>19, <1>20, <1>21, <1>22, <1>23, <1>24 DEF
     Next, PostStep, SettleStep, SweepStep

-----------------------------------------------------------------------------
(* Theorems *)

(* Nothing is leased, answered or posted at first. *)
LEMMA HandlingInit ==
  Init => TypeOK /\ Handling
<1> SUFFICES ASSUME Init PROVE TypeOK /\ Handling
  OBVIOUS
<1> USE AgentCallsAssumption DEF Init
<1>1. NoRow \in Row
  BY DEF NoRow, Row, Handlers
<1>2. TypeOK
  BY <1>1 DEF TypeOK, Posting
<1>3. \A c \in Calls : row[c].delivery = "pending" /\ row[c].tries < MaxTries
  BY DEF NoRow
<1>4. Handling
  BY <1>3 DEF Handling, ResultNotSwallowed, Handlers
<1> QED
  BY <1>2, <1>4

(* What every reachable state keeps, for the theorems below. *)
LEMMA Handled == Spec => [](TypeOK /\ Handling)
<1>1. TypeOK /\ Handling /\ [Next]_vars => (TypeOK /\ Handling)'
  BY TypeStep, HandlingStep
<1> QED
  BY <1>1, HandlingInit, PTL DEF Spec

(* Every step of every turn, settling, sweep and post keeps the state well *)
(* typed.                                                                  *)
THEOREM TypeCorrect == Spec => []TypeOK
BY Handled, PTL

(* A call closed as delivered has its outcome and its result was posted:   *)
(* the acknowledgement of a question never closes the call (markAgentCalls-*)
(* Delivered), whatever settles, sweeps or fails between the lease and the *)
(* acknowledgement.                                                        *)
THEOREM NeverSwallowed == Spec => []ResultNotSwallowed
<1>1. TypeOK /\ Handling => ResultNotSwallowed
  BY DEF Handling
<1> QED
  BY <1>1, Handled, PTL

(* The first outcome recorded for a call is its last: endAgentCalls leaves *)
(* alone what the turn's end, the sweep or another turn ended before.      *)
THEOREM OutcomeRecordedOnce == Spec => OutcomeFinal
<1>1. TypeOK /\ Handling /\ [Next]_vars => [OutcomeKept]_vars
  BY HandlingStep
<1>2. [OutcomeKept]_vars <=> [\A c \in Calls : Finished(c) => row'[c].status = row[c].status]_vars
  BY DEF OutcomeKept
<1> QED
  BY <1>1, <1>2, Handled, PTL DEF Spec, OutcomeFinal

-----------------------------------------------------------------------------
(* Held-back answers *)

(* A call that runs and that no count of open calls sees has asked its     *)
(* user; so has every call that runs still of those that ran when a turn   *)
(* ended which is about to close the call into its session.                *)
Held ==
  /\ \A c \in Calls : row[c].asked => Finished(c) \/ c \in questioned
  /\ \A h \in Handlers : asking[h] \subseteq questioned
  /\ \A c \in Calls : row[c].delivery # "pending" => Finished(c) \/ c \in questioned
  /\ \A h \in Settlers : \A o \in own[h] :
       /\ Parent[o] = Of[h] /\ row[o].status # "none"
       /\ stage[h] = "closing" /\ verdict[h] = "ended" /\ Running(o) => o \in questioned

(* What every step but the end of a turn and the count of open calls does. *)
KeepsHeld ==
  /\ questioned \subseteq questioned'
  /\ \A c \in Calls :
       /\ row'[c].asked => row[c].asked \/ c \in questioned'
       /\ Finished(c) => Finished(c)'
       /\ row[c].status # "none" => row'[c].status # "none" /\ (Running(c)' => Running(c))
       /\ row'[c].delivery # "pending" => row[c].delivery # "pending" \/ Finished(c)' \/ c \in questioned
  /\ \A h \in Handlers : asking'[h] \subseteq questioned'
  /\ \A h \in Settlers :
       /\ own'[h] = own[h]
       /\ stage'[h] = "closing" /\ verdict'[h] = "ended" => stage[h] = "closing" /\ verdict[h] = "ended"

LEMMA HeldOn ==
  ASSUME TypeOK, Held, KeepsHeld PROVE Held'
<1>1. ASSUME NEW h \in Settlers, NEW o \in own'[h]
      PROVE  /\ Parent[o] = Of[h] /\ row'[o].status # "none"
             /\ stage'[h] = "closing" /\ verdict'[h] = "ended" /\ Running(o)' => o \in questioned'
  <2>1. o \in own[h] /\ o \in Calls
    BY DEF KeepsHeld, TypeOK
  <2>2. Parent[o] = Of[h] /\ row[o].status # "none"
    BY <2>1 DEF Held
  <2>3. row'[o].status # "none" /\ (Running(o)' => Running(o))
    BY <2>1, <2>2 DEF KeepsHeld
  <2>4. stage[h] = "closing" /\ verdict[h] = "ended" /\ Running(o) => o \in questioned
    BY <2>1 DEF Held
  <2>5. /\ questioned \subseteq questioned'
        /\ stage'[h] = "closing" /\ verdict'[h] = "ended" => stage[h] = "closing" /\ verdict[h] = "ended"
    BY DEF KeepsHeld
  <2> QED
    BY <2>2, <2>3, <2>4, <2>5
<1>2. /\ \A c \in Calls : row'[c].asked => Finished(c)' \/ c \in questioned'
      /\ \A c \in Calls : row'[c].delivery # "pending" => Finished(c)' \/ c \in questioned'
  BY DEF Held, KeepsHeld
<1>3. \A h \in Handlers : asking'[h] \subseteq questioned'
  BY DEF KeepsHeld
<1> QED
  BY <1>1, <1>2, <1>3 DEF Held

(* No call starts to run, loses its outcome, is asked or changes its delivery. *)
KeepsRunning ==
  \A c \in Calls :
    /\ row'[c].status = row[c].status \/ (Running(c) /\ Finished(c)')
    /\ row'[c].asked => row[c].asked
    /\ row'[c].delivery = row[c].delivery

LEMMA RunningOn ==
  ASSUME TypeOK, Held, KeepsRunning, UNCHANGED <<asking, questioned, own>>,
         \A h \in Settlers : stage'[h] = "closing" /\ verdict'[h] = "ended"
           => stage[h] = "closing" /\ verdict[h] = "ended"
  PROVE  Held'
<1>1. KeepsHeld
  BY DEF KeepsHeld, KeepsRunning, Held, Running, Finished
<1> QED
  BY <1>1, HeldOn

(* Every action keeps them. *)
LEMMA HeldStep ==
  ASSUME TypeOK, Handling, Held, [Next]_vars
  PROVE  Held'
<1> USE AgentCallsAssumption
      DEF TypeOK, historyVars, boundVars, jobVars, postVars, Handlers, Goto, ToPost,
          Callers, Posting, Running, Finished
<1>1. CASE UNCHANGED vars
  BY <1>1, RunningOn DEF vars, KeepsRunning
<1>2. ASSUME NEW s \in Sessions, Prompt(s) PROVE Held'
  <2>1. KeepsRunning
    BY <1>2, RowEffects DEF Prompt, KeepsRunning
  <2> QED
    BY <1>2, <2>1, RunningOn DEF Prompt
<1>3. ASSUME NEW s \in Sessions, Ask(s) PROVE Held'
  BY <1>3, RunningOn DEF Ask, KeepsRunning
<1>4. ASSUME NEW s \in Sessions, Answered(s) PROVE Held'
  BY <1>4, RunningOn DEF Answered, KeepsRunning
<1>5. ASSUME NEW s \in Sessions, NEW ok \in BOOLEAN, Settle(s, ok) PROVE Held'
  <2>1. PICK h \in Settlers :
          /\ Of[h] = s
          /\ verdict' = [verdict EXCEPT ![h] = IF ok THEN "ended" ELSE "failed"]
          /\ stage' = [stage EXCEPT ![h] = IF ok THEN "counting" ELSE "closing"]
          /\ own' = [own EXCEPT ![h] = {c \in Calls : Parent[c] = s /\ Running(c)}]
    BY <1>5 DEF Settle
  <2>2. UNCHANGED <<row, asking, questioned>>
    BY <1>5 DEF Settle
  <2>3. ASSUME NEW g \in Settlers, NEW o \in own'[g]
        PROVE  /\ Parent[o] = Of[g] /\ row'[o].status # "none"
               /\ stage'[g] = "closing" /\ verdict'[g] = "ended" /\ Running(o)' => o \in questioned'
    <3>1. CASE g = h
      <4>1. o \in {c \in Calls : Parent[c] = s /\ Running(c)}
        BY <2>1, <2>3, <3>1
      <4>2. ~(stage'[g] = "closing" /\ verdict'[g] = "ended")
        BY <2>1, <3>1
      <4> QED
        BY <2>1, <2>2, <3>1, <4>1, <4>2
    <3>2. CASE g # h
      <4>1. o \in own[g] /\ stage'[g] = stage[g] /\ verdict'[g] = verdict[g]
        BY <2>1, <2>3, <3>2
      <4> QED
        BY <2>2, <4>1 DEF Held
    <3> QED
      BY <3>1, <3>2
  <2> QED
    BY <2>2, <2>3 DEF Held
<1>6. ASSUME NEW s \in Sessions, End(s) \/ Interrupt(s) PROVE Held'
  BY <1>5, <1>6 DEF End, Interrupt
<1>7. ASSUME NEW s \in Sessions, Note(s) PROVE Held'
  <2>1. \A c \in Calls :
          /\ row'[c].status = row[c].status /\ row'[c].delivery = row[c].delivery
          /\ row'[c].asked => row[c].asked \/ c \in questioned'
    BY <1>7 DEF Note, Row, CallsTo
  <2>2. questioned \subseteq questioned' /\ UNCHANGED <<asking, own, verdict>>
    BY <1>7 DEF Note
  <2>3. \A g \in Settlers : stage'[g] = "closing" => stage[g] = "closing"
    BY <1>7 DEF Note
  <2>4. KeepsHeld
    BY <2>1, <2>2, <2>3 DEF KeepsHeld, Held
  <2> QED
    BY <2>4, HeldOn
<1>8. ASSUME NEW h \in Settlers, CountOpen(h) PROVE Held'
  <2>1. KeepsRunning
    BY <1>8, RowEffects DEF CountOpen, KeepsRunning
  <2>2. UNCHANGED <<asking, questioned, own>>
    BY <1>8 DEF CountOpen
  <2>3. CASE OpenCalls(Of[h]) # {}
    <3>1. \A g \in Settlers : stage'[g] = "closing" /\ verdict'[g] = "ended"
            => stage[g] = "closing" /\ verdict[g] = "ended"
      BY <1>8, <2>3 DEF CountOpen
    <3> QED
      BY <2>1, <2>2, <3>1, RunningOn
  <2>4. CASE OpenCalls(Of[h]) = {}
    <3>1. stage' = [stage EXCEPT ![h] = "closing"] /\ verdict' = verdict
      BY <1>8, <2>4 DEF CountOpen
    <3>2. ASSUME NEW g \in Settlers, NEW o \in own'[g]
          PROVE  /\ Parent[o] = Of[g] /\ row'[o].status # "none"
                 /\ stage'[g] = "closing" /\ verdict'[g] = "ended" /\ Running(o)' => o \in questioned'
      <4>1. o \in own[g] /\ o \in Calls
        BY <2>2, <3>2
      <4>2. Parent[o] = Of[g] /\ row[o].status # "none"
        BY <4>1 DEF Held
      <4>3. row'[o].status # "none" /\ (Running(o)' => Running(o))
        BY <2>1, <4>1, <4>2 DEF KeepsRunning
      <4>4. CASE g = h
        <5>1. Running(o) => o \in questioned
          BY <2>4, <4>1, <4>2, <4>4 DEF OpenCalls, Open, Held
        <5> QED
          BY <2>2, <4>2, <4>3, <5>1
      <4>5. CASE g # h
        <5>1. stage'[g] = stage[g] /\ verdict'[g] = verdict[g]
          BY <3>1, <4>5
        <5>2. stage[g] = "closing" /\ verdict[g] = "ended" /\ Running(o) => o \in questioned
          BY <4>1 DEF Held
        <5> QED
          BY <2>2, <4>2, <4>3, <5>1, <5>2
      <4> QED
        BY <4>4, <4>5
    <3>3. /\ \A c \in Calls : row'[c].asked => Finished(c)' \/ c \in questioned'
          /\ \A k \in Handlers : asking'[k] \subseteq questioned'
          /\ \A c \in Calls : row'[c].delivery # "pending" => Finished(c)' \/ c \in questioned'
      BY <2>1, <2>2 DEF KeepsRunning, Held
    <3> QED
      BY <3>2, <3>3 DEF Held
  <2> QED
    BY <2>3, <2>4
<1>9. ASSUME NEW h \in Settlers, CloseCalls(h) PROVE Held'
  <2>1. KeepsRunning
    <3>1. verdict[h] \in {"ended", "failed"}
      BY <1>9 DEF CloseCalls, Handling
    <3> QED
      BY <1>9, <3>1, RowEffects DEF CloseCalls, KeepsRunning
  <2>2. UNCHANGED <<asking, questioned, own>>
    BY <1>9 DEF CloseCalls
  <2>3. \A g \in Settlers : stage'[g] = "closing" /\ verdict'[g] = "ended" => stage[g] = "closing" /\ verdict[g] = "ended"
    BY <1>9 DEF CloseCalls
  <2> QED
    BY <2>1, <2>2, <2>3, RunningOn
<1>10. ASSUME NEW h \in Handlers, Drop(h) PROVE Held'
  <2>1. \A c \in Calls :
          row'[c].status = row[c].status /\ row'[c].delivery = row[c].delivery /\ row'[c].asked = row[c].asked
    BY <1>10 DEF Drop, Row
  <2>2. questioned' = questioned /\ own' = own
    BY <1>10 DEF Drop
  <2>3. \A g \in Handlers : asking'[g] \subseteq questioned
    BY <1>10 DEF Drop, StopPosting, Held
  <2>4. \A g \in Settlers : stage'[g] = "closing" /\ verdict'[g] = "ended" => stage[g] = "closing" /\ verdict[g] = "ended"
    BY <1>10 DEF Drop
  <2>5. KeepsHeld
    BY <2>1, <2>2, <2>3, <2>4 DEF KeepsHeld
  <2> QED
    BY <2>5, HeldOn
<1>11. ASSUME NEW s \in Sessions, LoseTurn(s) PROVE Held'
  BY <1>10, <1>11 DEF LoseTurn
<1>12. ASSUME NEW s \in Sessions, Recover(s) \/ DeleteSession(s) PROVE Held'
  BY <1>12, RunningOn DEF Recover, DeleteSession, KeepsRunning
<1>13. ASSUME NEW h \in Handlers, NEW p \in Sessions, Take(h, p) PROVE Held'
  <2> DEFINE ready == {c \in Calls : Parent[c] = p /\ Deliverable(c)}
  <2>1. row' = [c \in Calls |-> IF c \in ready THEN [row[c] EXCEPT !.leased = TRUE, !.holder = h] ELSE row[c]]
    BY <1>13 DEF Take, Lease
  <2>2. \A g \in Handlers : asking'[g] \subseteq questioned
    BY <1>13 DEF Take, Deliverable, Held
  <2> HIDE DEF ready
  <2>3. ASSUME NEW c \in Calls
        PROVE  row'[c].status = row[c].status /\ row'[c].delivery = row[c].delivery /\ row'[c].asked = row[c].asked
    <3>1. row[c] \in Row
      OBVIOUS
    <3> QED
      BY <2>1, <3>1 DEF Row
  <2>4. UNCHANGED <<verdict, questioned, own>>
    BY <1>13 DEF Take
  <2>5. \A g \in Settlers : stage'[g] = "closing" => stage[g] = "closing"
    BY <1>13 DEF Take, Reply
  <2>6. KeepsHeld
    BY <2>2, <2>3, <2>4, <2>5 DEF KeepsHeld
  <2> QED
    BY <2>6, HeldOn
<1>14. ASSUME NEW h \in Handlers, NEW p \in Sessions, TakeNothing(h, p) PROVE Held'
  BY <1>14, RunningOn DEF TakeNothing, KeepsRunning
<1>15. ASSUME NEW h \in Handlers, Dispatch(h) PROVE Held'
  <2>1. KeepsRunning
    BY <1>15, RowEffects DEF Dispatch, KeepsRunning
  <2>2. UNCHANGED <<verdict, asking, questioned, own>>
    BY <1>15 DEF Dispatch
  <2>3. \A g \in Settlers : stage'[g] = "closing" => stage[g] = "closing"
    BY <1>15 DEF Dispatch
  <2> QED
    BY <2>1, <2>2, <2>3, RunningOn
<1>16. ASSUME NEW h \in Handlers, Mark(h) PROVE Held'
  <2>1. ASSUME NEW c \in Calls
        PROVE  /\ row'[c].status = row[c].status /\ row'[c].asked = row[c].asked
               /\ row'[c].delivery # row[c].delivery => c \in batch[h]
    <3>1. CASE ~Holds(h, c)
      BY <1>16, <3>1 DEF Mark
    <3>2. CASE Holds(h, c)
      <4>1. row'[c] = Marked(h, c) /\ answer[h] \in {"sse", "busy", "error", "gone"} /\ row[c] \in Row
        BY <1>16, <3>2 DEF Mark, Handling
      <4>2. Marked(h, c).status = row[c].status /\ Marked(h, c).asked = row[c].asked
        BY <4>1, MarkedFields
      <4> QED
        BY <3>2, <4>1, <4>2 DEF Holds
    <3> QED
      BY <3>1, <3>2
  <2>2. \A c \in batch[h] : Finished(c) \/ c \in questioned
    BY DEF Handling, Held
  <2>3. UNCHANGED <<verdict, questioned, own>>
    BY <1>16 DEF Mark
  <2>4. \A g \in Settlers : stage'[g] = "closing" => stage[g] = "closing"
    BY <1>16 DEF Mark
  <2>5. \A g \in Handlers : asking'[g] \subseteq questioned
    BY <1>16 DEF Mark, StopPosting, Held
  <2>6. KeepsHeld
    BY <2>1, <2>2, <2>3, <2>4, <2>5 DEF KeepsHeld
  <2> QED
    BY <2>6, HeldOn
<1>17. ASSUME NEW h \in Handlers, LoseHandler(h) PROVE Held'
  BY <1>10, <1>17 DEF LoseHandler
<1>18. CASE Sweep \/ SweepParents
  BY <1>18, RunningOn DEF Sweep, SweepParents, KeepsRunning
<1>19. CASE SweepClose
  <2>1. PICK e \in listed : row' = Ended(e[1], e[2])
    BY <1>19 DEF SweepClose
  <2>2. KeepsRunning
    BY SMTT(30), <2>1, RowEffects DEF KeepsRunning
  <2> QED
    BY <1>19, <2>2, RunningOn DEF SweepClose
<1>20. ASSUME NEW c \in Calls, CallAgent(c) PROVE Held'
  <2>1. \A d \in Calls \ {c} : row'[d] = row[d]
    BY <1>20 DEF CallAgent
  <2>2. row'[c].asked = row[c].asked /\ row'[c].delivery = row[c].delivery /\ row[c].status = "none"
    BY <1>20 DEF CallAgent, Row
  <2>3. UNCHANGED <<stage, verdict, asking, questioned, own>>
    BY <1>20 DEF CallAgent
  <2>4. KeepsHeld
    BY <2>1, <2>2, <2>3 DEF KeepsHeld, Held
  <2> QED
    BY <2>4, HeldOn
<1>21. ASSUME NEW c \in Calls, ReadResult(c) PROVE Held'
  <2>1. ASSUME NEW d \in Calls
        PROVE  /\ row'[d].status = row[d].status /\ row'[d].asked = row[d].asked
               /\ ~Finished(d) => row'[d].delivery = row[d].delivery
    <3>1. row[d] \in Row
      OBVIOUS
    <3> QED
      BY <1>21, <3>1 DEF ReadResult, Row
  <2>2. UNCHANGED <<stage, verdict, asking, questioned, own>>
    BY <1>21 DEF ReadResult
  <2>3. KeepsHeld
    BY <2>1, <2>2 DEF KeepsHeld, Held
  <2> QED
    BY <2>3, HeldOn
<1>22. ASSUME NEW c \in Calls, Lapse(c) \/ RenewalLost(c) PROVE Held'
  <2>1. KeepsRunning
    <3>1. Unlease(c)
      BY <1>22 DEF Lapse, RenewalLost
    <3>2. ASSUME NEW d \in Calls
          PROVE  row'[d].status = row[d].status /\ row'[d].asked = row[d].asked /\ row'[d].delivery = row[d].delivery
      <4>1. row[d] \in Row
        OBVIOUS
      <4> QED
        BY <3>1, <4>1 DEF Unlease, Row
    <3> QED
      BY <3>2 DEF KeepsRunning
  <2> QED
    BY <1>22, <2>1, RunningOn DEF Lapse, RenewalLost
<1> QED
  BY <1>1, <1>2, <1>3, <1>4, <1>6, <1>7, <1>8, <1>9, <1>11, <1>12, <1>13,
     <1>14, <1>15, <1>16, <1>17, <1>18, <1>19, <1>20, <1>21, <1>22 DEF
     Next, PostStep, SettleStep, SweepStep

(* Nothing is open or asked at first. *)
LEMMA HeldInit ==
  Init => Held
BY AgentCallsAssumption DEF Init, Handlers, NoRow, Held

(* The end of a turn closes no call into a session that still waits on a   *)
(* call it had made by then (countOpenAgentCalls, then endAgentCalls), but *)
(* for one that asked its user: a turn of the session that starts, ends or *)
(* is settled meanwhile, a post and a sweep make no such call slip through *)
(* between the end, the count and the close.                               *)
THEOREM HeldBackAlways == Spec => HeldBack
<1> DEFINE I == TypeOK /\ Handling /\ Held
           A == \A h \in Settlers, o \in Calls :
                  (CloseCalls(h) /\ verdict[h] = "ended" /\ o \in own[h] /\ Running(o))
                  => o \in questioned
<1>1. Init => I
  BY HandlingInit, HeldInit
<1>2. I /\ [Next]_vars => I'
  BY TypeStep, HandlingStep, HeldStep
<1>3. I => A
  BY DEF CloseCalls, Held
<1>4. I /\ [Next]_vars => [A]_vars
  BY <1>3
<1> QED
  BY <1>1, <1>2, <1>4, PTL DEF Spec, HeldBack

-----------------------------------------------------------------------------
(* How often a result is posted *)

(* Handlers about to post the result of a call. *)
InFlight(c) ==
  {h \in Handlers : stage[h] = "starting" /\ c \in batch[h] \ asking[h]}

(* Its row is leased by one that posts it now, or has posted it.           *)
Covered(c) ==
  \E h \in Handlers :
    /\ row[c].leased /\ row[c].holder = h /\ c \in batch[h] \ asking[h]
    /\ stage[h] = "starting" \/ (stage[h] = "answered" /\ answer[h] = "sse")

Loose(c) == row[c].delivery = "pending" /\ ~Covered(c)

(* The posts that were made, those being made, and the one that a handler  *)
(* may yet begin, are one more than the faults at most.                    *)
Bounded(c) ==
  /\ IsFiniteSet(InFlight(c))
  /\ posted[c] + Cardinality(InFlight(c)) + (IF Loose(c) THEN 1 ELSE 0) <= 1 + trouble

Potential == \A c \in Calls : Bounded(c)

(* A step in which no post begins or ends and no lease of a row that is    *)
(* still pending moves.                                                    *)
Still ==
  /\ UNCHANGED <<batch, asking, answer, posted>>
  /\ \A h \in Handlers, at \in Posting : stage'[h] = at <=> stage[h] = at
  /\ \A c \in Calls :
       row'[c].delivery = "pending" =>
         /\ row[c].delivery = "pending"
         /\ row'[c].leased = row[c].leased /\ row'[c].holder = row[c].holder
  /\ trouble' = trouble \/ trouble' = trouble + 1

(* How a step may change the counts: it posts p more, f more handlers are  *)
(* about to, there are t more faults.                                      *)
LEMMA Balance ==
  ASSUME TypeOK, TypeOK', NEW c \in Calls, Bounded(c), IsFiniteSet(InFlight(c)'),
         NEW p \in Int, NEW f \in Int, NEW t \in Int,
         posted'[c] = posted[c] + p,
         Cardinality(InFlight(c)') = Cardinality(InFlight(c)) + f,
         trouble' = trouble + t,
         \/ p + f <= t /\ (Loose(c)' => Loose(c))
         \/ p + f + 1 <= t
         \/ p + f <= t + 1 /\ Loose(c) /\ ~Loose(c)'
  PROVE  Bounded(c)'
<1>1. posted[c] \in Nat /\ trouble \in Nat /\ Cardinality(InFlight(c)) \in Nat
  BY AgentCallsAssumption, FS_CardinalityType DEF TypeOK, Bounded
<1>2. posted[c] + Cardinality(InFlight(c)) + (IF Loose(c) THEN 1 ELSE 0) <= 1 + trouble
  BY DEF Bounded
<1>3. posted'[c] + Cardinality(InFlight(c)') + (IF Loose(c)' THEN 1 ELSE 0) <= 1 + trouble'
  <2> DEFINE n == Cardinality(InFlight(c))
             m == Cardinality(InFlight(c)')
             x == Loose(c)
             y == Loose(c)'
             q == posted'[c]
             o == posted[c]
  <2> HIDE DEF n, m, x, y, q, o
  <2>1. /\ o \in Nat /\ trouble \in Nat /\ n \in Nat
        /\ o + n + (IF x THEN 1 ELSE 0) <= 1 + trouble
        /\ q = o + p /\ m = n + f /\ trouble' = trouble + t
        /\ \/ p + f <= t /\ (y => x)
           \/ p + f + 1 <= t
           \/ p + f <= t + 1 /\ x /\ ~y
    BY <1>1, <1>2 DEF n, m, x, y, q, o
  <2>2. q + m + (IF y THEN 1 ELSE 0) <= 1 + trouble'
    BY <2>1
  <2> QED
    BY <2>2 DEF m, y, q
<1> QED
  BY <1>3 DEF Bounded

(* Such a step keeps the balance. *)
LEMMA StillKeeps ==
  ASSUME TypeOK, TypeOK', Potential, Still
  PROVE  Potential'
<1> SUFFICES ASSUME NEW c \in Calls PROVE Bounded(c)'
  BY DEF Potential
<1>1. InFlight(c)' = InFlight(c)
  BY DEF Still, InFlight, Posting
<1>2. Loose(c)' => Loose(c)
  <2> SUFFICES ASSUME Loose(c)', Covered(c) PROVE FALSE
    BY DEF Loose, Still
  <2>1. row'[c].leased = row[c].leased /\ row'[c].holder = row[c].holder
    BY DEF Loose, Still
  <2>2. Covered(c)'
    BY <2>1 DEF Covered, Still, Posting
  <2> QED
    BY <2>2 DEF Loose
<1>3. posted'[c] = posted[c] + 0 /\ posted[c] \in Nat
  BY DEF Still, TypeOK
<1>4. Bounded(c) /\ IsFiniteSet(InFlight(c)') /\ Cardinality(InFlight(c)') = Cardinality(InFlight(c)) + 0
  BY <1>1, FS_CardinalityType DEF Potential, Bounded
<1>5. trouble \in Nat
  BY AgentCallsAssumption DEF TypeOK
<1>6. CASE trouble' = trouble
  <2>1. trouble' = trouble + 0
    BY <1>5, <1>6
  <2> QED
    BY <1>2, <1>3, <1>4, <2>1, Balance
<1>7. CASE trouble' = trouble + 1
  BY <1>2, <1>3, <1>4, <1>7, Balance
<1> QED
  BY <1>6, <1>7 DEF Still

(* A handler less. *)
LEMMA OneLess ==
  ASSUME NEW S, NEW x \in S, IsFiniteSet(S)
  PROVE  IsFiniteSet(S \ {x}) /\ Cardinality(S \ {x}) = Cardinality(S) - 1
BY FS_RemoveElement

(* A step that leaves the posts of a call as they are. *)
LEMMA Unchanged ==
  ASSUME TypeOK, TypeOK', NEW c \in Calls, Bounded(c), InFlight(c)' = InFlight(c),
         posted'[c] = posted[c], trouble' = trouble, Loose(c)' => Loose(c)
  PROVE  Bounded(c)'
<1>1. posted[c] \in Nat /\ trouble \in Nat /\ Cardinality(InFlight(c)) \in Nat
  BY AgentCallsAssumption, FS_CardinalityType DEF TypeOK, Bounded
<1>2. /\ posted'[c] = posted[c] + 0 /\ trouble' = trouble + 0
      /\ IsFiniteSet(InFlight(c)') /\ Cardinality(InFlight(c)') = Cardinality(InFlight(c)) + 0
  BY <1>1 DEF Bounded
<1>3. 0 \in Int /\ 0 + 0 <= 0
  OBVIOUS
<1> QED
  BY <1>2, <1>3, Balance

(* Every action keeps the balance. *)
LEMMA PotentialStep ==
  ASSUME TypeOK, Handling, TypeOK', Potential, [Next]_vars
  PROVE  Potential'
<1> USE AgentCallsAssumption
      DEF TypeOK, historyVars, boundVars, jobVars, postVars, Handlers, Goto, ToPost,
          Callers
<1>1. CASE UNCHANGED vars
  <2>1. Still
    BY <1>1 DEF vars, Still
  <2> QED
    BY <2>1, StillKeeps
<1>2. ASSUME NEW s \in Sessions, Prompt(s) PROVE Potential'
  <2>1. trouble' = trouble \/ trouble' = trouble + 1
    BY <1>2 DEF Prompt, Follow, SetAdrift
  <2>2. Still
    BY <1>2, <2>1, RowEffects DEF Prompt, Still, Posting
  <2> QED
    BY <2>2, StillKeeps
<1>3. ASSUME NEW s \in Sessions, Ask(s) PROVE Potential'
  <2>1. Still
    BY <1>3 DEF Ask, Still, Posting
  <2> QED
    BY <2>1, StillKeeps
<1>4. ASSUME NEW s \in Sessions, Answered(s) PROVE Potential'
  <2>1. Still
    BY <1>4 DEF Answered, Still, Posting
  <2> QED
    BY <2>1, StillKeeps
<1>5. ASSUME NEW s \in Sessions, NEW ok \in BOOLEAN, Settle(s, ok) PROVE Potential'
  <2>1. PICK h \in Settlers :
          /\ stage[h] = "idle"
          /\ stage' = [stage EXCEPT ![h] = IF ok THEN "counting" ELSE "closing"]
    BY <1>5 DEF Settle
  <2>2. Still
    BY <1>5, <2>1 DEF Settle, Still, Posting
  <2> QED
    BY <2>2, StillKeeps
<1>6. ASSUME NEW s \in Sessions, End(s) \/ Interrupt(s) PROVE Potential'
  <2>1. \E ok \in BOOLEAN : Settle(s, ok)
    BY Zenon, <1>6 DEF End, Interrupt
  <2> QED
    BY <1>5, <2>1
<1>7. ASSUME NEW s \in Sessions, Note(s) PROVE Potential'
  <2>1. Still
    BY <1>7 DEF Note, Row, Still, Posting
  <2> QED
    BY <2>1, StillKeeps
<1>8. ASSUME NEW h \in Settlers, CountOpen(h) PROVE Potential'
  <2>1. Still
    BY <1>8, RowEffects DEF CountOpen, Still, Posting
  <2> QED
    BY <2>1, StillKeeps
<1>9. ASSUME NEW h \in Settlers, CloseCalls(h) PROVE Potential'
  <2>1. verdict[h] \in {"ended", "failed"}
    BY <1>9 DEF CloseCalls, Handling
  <2>2. Still
    BY <1>9, <2>1, RowEffects DEF CloseCalls, Still, Posting
  <2> QED
    BY <2>2, StillKeeps
<1>10. ASSUME NEW h \in Handlers, Drop(h) PROVE Potential'
  <2> SUFFICES ASSUME NEW d \in Calls PROVE Bounded(d)'
    BY DEF Potential
  <2>0. Bounded(d) /\ posted[d] \in Nat /\ trouble \in Nat /\ Cardinality(InFlight(d)) \in Nat
    BY FS_CardinalityType DEF Potential, Bounded
  <2>1. UNCHANGED posted /\ trouble' = trouble + 1
    BY <1>10 DEF Drop
  <2>2. InFlight(d)' = InFlight(d) \ {h}
    BY <1>10 DEF Drop, StopPosting, InFlight
  <2>3. PICK f \in {0, -1} : IsFiniteSet(InFlight(d)') /\ Cardinality(InFlight(d)') = Cardinality(InFlight(d)) + f
    <3>1. IsFiniteSet(InFlight(d))
      BY <2>0 DEF Bounded
    <3>2. CASE h \in InFlight(d)
      <4>1. IsFiniteSet(InFlight(d)') /\ Cardinality(InFlight(d)') = Cardinality(InFlight(d)) - 1
        <5>1. /\ IsFiniteSet(InFlight(d) \ {h})
              /\ Cardinality(InFlight(d) \ {h}) = Cardinality(InFlight(d)) - 1
          BY <3>1, <3>2, OneLess
        <5> QED
          BY <2>2, <5>1, Zenon
      <4> QED
        BY <2>0, <4>1
    <3>3. CASE h \notin InFlight(d)
      <4>1. InFlight(d)' = InFlight(d)
        BY <2>2, <3>3
      <4> QED
        BY <2>0, <3>1, <4>1
    <3> QED
      BY <3>2, <3>3
  <2>4. posted'[d] = posted[d] + 0
    BY <2>0, <2>1
  <2> QED
    BY <2>0, <2>1, <2>3, <2>4, Balance
<1>10b. ASSUME NEW s \in Sessions, LoseTurn(s) PROVE Potential'
  BY <1>10, <1>10b DEF LoseTurn
<1>11. ASSUME NEW s \in Sessions, Recover(s) PROVE Potential'
  <2>1. Still
    BY <1>11 DEF Recover, Still, Posting
  <2> QED
    BY <2>1, StillKeeps
<1>12. ASSUME NEW s \in Sessions, DeleteSession(s) PROVE Potential'
  <2>1. Still
    BY <1>12 DEF DeleteSession, Still, Posting
  <2> QED
    BY <2>1, StillKeeps
<1>13. ASSUME NEW h \in Handlers, NEW p \in Sessions, Take(h, p) PROVE Potential'
  <2> SUFFICES ASSUME NEW d \in Calls PROVE Bounded(d)'
    BY DEF Potential
  <2>0. Bounded(d) /\ posted[d] \in Nat /\ trouble \in Nat /\ Cardinality(InFlight(d)) \in Nat
    BY FS_CardinalityType DEF Potential, Bounded
  <2> DEFINE ready == {c \in Calls : Parent[c] = p /\ Deliverable(c)}
  <2>1. /\ row' = [c \in Calls |-> IF c \in ready THEN [row[c] EXCEPT !.leased = TRUE, !.holder = h] ELSE row[c]]
        /\ batch' = [batch EXCEPT ![h] = ready] /\ asking' = [asking EXCEPT ![h] = {c \in ready : Running(c)}]
        /\ UNCHANGED <<posted, trouble>>
    BY <1>13 DEF Take, Lease
  <2>2. /\ stage[h] = "posting"
        /\ \E to \in {"starting", "answered"} : stage' = [stage EXCEPT ![h] = to]
        /\ \A g \in Handlers \ {h} : answer'[g] = answer[g]
    BY <1>13 DEF Take, InTurn, Reply
  <2>3. d \in ready => Loose(d) /\ row[d].delivery = "pending"
    BY DEF Deliverable, Unleased, Loose, Covered
  <2>4. batch'[h] = ready /\ asking'[h] = {c \in ready : Running(c)}
    BY <2>1
  <2>5. \A g \in Handlers \ {h} : batch'[g] = batch[g] /\ asking'[g] = asking[g] /\ stage'[g] = stage[g]
    BY <2>1, <2>2
  <2>6. d \notin ready => row'[d] = row[d]
    BY <2>1
  <2>7. d \in ready => row'[d].leased /\ row'[d].holder = h
    <3>1. row[d] \in Row
      OBVIOUS
    <3> HIDE DEF ready
    <3> QED
      BY <2>1, <3>1 DEF Row
  <2> HIDE DEF ready
  <2>8. Loose(d)' => Loose(d)
    <3>1. CASE d \in ready
      BY <2>3, <3>1
    <3>2. CASE d \notin ready
      <4>1. Covered(d) => Covered(d)'
        <5> SUFFICES ASSUME NEW g \in Handlers, row[d].leased, row[d].holder = g, d \in batch[g] \ asking[g],
                            stage[g] = "starting" \/ (stage[g] = "answered" /\ answer[g] = "sse")
                     PROVE  Covered(d)'
          BY DEF Covered
        <5>1. g # h
          BY <2>2
        <5> QED
          BY <2>2, <2>5, <2>6, <3>2, <5>1 DEF Covered
      <4> QED
        BY <2>6, <3>2, <4>1 DEF Loose
    <3> QED
      BY <3>1, <3>2
  <2>9. h \notin InFlight(d)
    BY <2>2 DEF InFlight
  <2>10. CASE stage'[h] = "starting" /\ d \in ready \ asking'[h]
    <3>1. InFlight(d)' = InFlight(d) \cup {h}
      BY <2>4, <2>5, <2>10 DEF InFlight
    <3>2. IsFiniteSet(InFlight(d)') /\ Cardinality(InFlight(d)') = Cardinality(InFlight(d)) + 1
      BY <2>0, <2>9, <3>1, FS_AddElement DEF Bounded
    <3>3. Covered(d)'
      BY <2>4, <2>7, <2>10 DEF Covered
    <3>4. posted'[d] = posted[d] + 0 /\ trouble' = trouble + 0
      <4>1. posted' = posted /\ trouble' = trouble
        BY <2>1
      <4> QED
        BY <2>0, <4>1
    <3>5. Loose(d) /\ ~Loose(d)'
      BY <2>3, <2>10, <3>3 DEF Loose
    <3> QED
      BY <2>0, <3>2, <3>4, <3>5, Balance
  <2>11. CASE ~(stage'[h] = "starting" /\ d \in ready \ asking'[h])
    <3>1. InFlight(d)' = InFlight(d)
      BY <2>2, <2>4, <2>5, <2>11 DEF InFlight
    <3> QED
      BY <2>0, <2>1, <2>8, <3>1, Unchanged
  <2> QED
    BY <2>10, <2>11
<1>14. ASSUME NEW h \in Handlers, NEW p \in Sessions, TakeNothing(h, p) PROVE Potential'
  <2>1. Still
    BY <1>14 DEF TakeNothing, InTurn, Still, Posting
  <2> QED
    BY <2>1, StillKeeps
<1>15. ASSUME NEW h \in Handlers, Dispatch(h) PROVE Potential'
  <2> SUFFICES ASSUME NEW d \in Calls PROVE Bounded(d)'
    BY DEF Potential
  <2>0. Bounded(d) /\ posted[d] \in Nat /\ trouble \in Nat /\ Cardinality(InFlight(d)) \in Nat
    BY FS_CardinalityType DEF Potential, Bounded
  <2>1. /\ stage[h] = "starting" /\ stage' = [stage EXCEPT ![h] = "answered"]
        /\ UNCHANGED <<batch, asking>>
        /\ \A g \in Handlers \ {h} : answer'[g] = answer[g]
    BY <1>15 DEF Dispatch
  <2>2. /\ \/ answer'[h] = "sse" /\ trouble' = trouble
           \/ trouble' = trouble + 1
           \/ posted'[d] = posted[d] /\ trouble' = trouble
        /\ posted'[d] = posted[d] + (IF d \in batch[h] \ asking[h] THEN 1 ELSE 0)
             \/ posted'[d] = posted[d]
    BY <2>0, <1>15 DEF Dispatch, Follow, SetAdrift
  <2>3. /\ row'[d].delivery = row[d].delivery /\ row'[d].leased = row[d].leased
        /\ row'[d].holder = row[d].holder
    BY <1>15, RowEffects DEF Dispatch
  <2>4. InFlight(d)' = InFlight(d) \ {h}
    BY <2>1 DEF InFlight
  <2>6. CASE d \in batch[h] \ asking[h]
    <3>1. h \in InFlight(d)
      BY <2>1, <2>6 DEF InFlight
    <3>2. IsFiniteSet(InFlight(d)') /\ Cardinality(InFlight(d)') = Cardinality(InFlight(d)) + (-1)
      <4>1. IsFiniteSet(InFlight(d))
        BY <2>0 DEF Bounded
      <4>2. IsFiniteSet(InFlight(d)') /\ Cardinality(InFlight(d)') = Cardinality(InFlight(d)) - 1
        <5>1. /\ IsFiniteSet(InFlight(d) \ {h})
              /\ Cardinality(InFlight(d) \ {h}) = Cardinality(InFlight(d)) - 1
          BY <3>1, <4>1, OneLess
        <5> QED
          BY <2>4, <5>1, Zenon
      <4> QED
        BY <2>0, <4>2
    <3>3. PICK p \in {0, 1} : posted'[d] = posted[d] + p
      BY <2>0, <2>2, <2>6
    <3>4. CASE trouble' = trouble + 1
      <4>1. p + (-1) + 1 <= 1
        OBVIOUS
      <4>2. p \in Int /\ -1 \in Int /\ 1 \in Int
        OBVIOUS
      <4> QED
        BY ZenonT(40), <2>0, <3>2, <3>3, <3>4, <4>1, <4>2, Balance
    <3>5. CASE answer'[h] = "sse" /\ trouble' = trouble
      <4>1. Covered(d) => Covered(d)'
        BY <2>1, <2>3, <3>5 DEF Covered
      <4>2. Loose(d)' => Loose(d)
        BY <2>3, <4>1 DEF Loose
      <4>3. trouble' = trouble + 0 /\ p + (-1) <= 0
        BY <2>0, <3>5
      <4>4. p \in Int /\ -1 \in Int /\ 0 \in Int
        OBVIOUS
      <4> QED
        BY ZenonT(40), <2>0, <3>2, <3>3, <4>2, <4>3, <4>4, Balance
    <3>6. CASE posted'[d] = posted[d] /\ trouble' = trouble
      <4>1. posted'[d] = posted[d] + 0 /\ trouble' = trouble + 0
        BY <2>0, <3>6
      <4> QED
        BY <2>0, <3>2, <4>1, -1 \in Int, Balance
    <3> QED
      BY <2>2, <3>4, <3>5, <3>6
  <2>7. CASE d \notin batch[h] \ asking[h]
    <3>1. InFlight(d)' = InFlight(d)
      BY <2>1, <2>4, <2>7 DEF InFlight
    <3>2. posted'[d] = posted[d]
      BY <2>0, <2>2, <2>7
    <3>3. Covered(d) => Covered(d)'
      BY <2>1, <2>3, <2>7 DEF Covered
    <3>4. Loose(d)' => Loose(d)
      BY <2>3, <3>3 DEF Loose
    <3>5. PICK t \in {0, 1} : trouble' = trouble + t
      BY <2>0, <2>2
    <3>6. /\ posted'[d] = posted[d] + 0
          /\ IsFiniteSet(InFlight(d)') /\ Cardinality(InFlight(d)') = Cardinality(InFlight(d)) + 0
      BY <2>0, <3>1, <3>2 DEF Bounded
    <3> QED
      BY <2>0, <3>4, <3>5, <3>6, Balance
  <2> QED
    BY <2>6, <2>7
<1>16. ASSUME NEW h \in Handlers, Mark(h) PROVE Potential'
  <2> SUFFICES ASSUME NEW d \in Calls PROVE Bounded(d)'
    BY DEF Potential
  <2>0. Bounded(d) /\ posted[d] \in Nat /\ trouble \in Nat /\ Cardinality(InFlight(d)) \in Nat
    BY FS_CardinalityType DEF Potential, Bounded
  <2>1. /\ stage[h] = "answered" /\ \E to \in {"idle", "posting"} : stage' = [stage EXCEPT ![h] = to]
        /\ UNCHANGED <<posted, trouble>>
        /\ \A g \in Handlers \ {h} : batch'[g] = batch[g] /\ asking'[g] = asking[g] /\ answer'[g] = answer[g]
    BY <1>16 DEF Mark, StopPosting
  <2>2. \A g \in Handlers \ {h} : stage'[g] = stage[g]
    BY <2>1
  <2>3. InFlight(d)' = InFlight(d)
    BY <2>1, <2>2 DEF InFlight
  <2>4. CASE Holds(h, d)
    <3>1. row'[d] = Marked(h, d) /\ answer[h] \in {"sse", "busy", "error", "gone"} /\ row[d] \in Row
      BY <1>16, <2>4 DEF Mark, Handling
    <3>2. row'[d].delivery = "pending" /\ answer[h] = "sse" => d \in asking[h]
      BY ZenonT(60), <3>1, MarkedFields
    <3>3. Covered(d) => answer[h] = "sse" /\ d \notin asking[h]
      BY <2>1, <2>4 DEF Covered, Holds
    <3>4. Loose(d)' => Loose(d)
      BY <2>4, <3>2, <3>3 DEF Loose, Holds
    <3> QED
      BY <2>0, <2>1, <2>3, <3>4, Unchanged
  <2>5. CASE ~Holds(h, d)
    <3>1. row'[d] = row[d]
      BY <1>16, <2>5 DEF Mark
    <3>2. Covered(d) => Covered(d)' \/ row[d].delivery # "pending"
      BY <2>1, <2>2, <2>5, <3>1 DEF Covered, Holds
    <3>3. Loose(d)' => Loose(d)
      BY <3>1, <3>2 DEF Loose
    <3> QED
      BY <2>0, <2>1, <2>3, <3>3, Unchanged
  <2> QED
    BY <2>4, <2>5
<1>17. ASSUME NEW h \in Handlers, LoseHandler(h) PROVE Potential'
  BY <1>10, <1>17 DEF LoseHandler
<1>18. CASE Sweep
  <2>1. Still
    BY <1>18 DEF Sweep, Still, Posting
  <2> QED
    BY <2>1, StillKeeps
<1>19. CASE SweepClose
  <2>1. PICK e \in listed : row' = Ended(e[1], e[2])
    BY <1>19 DEF SweepClose
  <2>2. e[2] \in {"ended", "failed"}
    OBVIOUS
  <2>3. Still
    BY <1>19, <2>1, <2>2, RowEffects DEF SweepClose, Still
  <2> QED
    BY <2>3, StillKeeps
<1>20. CASE SweepParents
  <2>1. Still
    BY <1>20 DEF SweepParents, Still, Posting
  <2> QED
    BY <2>1, StillKeeps
<1>21. ASSUME NEW c \in Calls, CallAgent(c) PROVE Potential'
  <2>1. Still
    BY <1>21 DEF CallAgent, Row, Still, Posting
  <2> QED
    BY <2>1, StillKeeps
<1>22. ASSUME NEW c \in Calls, ReadResult(c) PROVE Potential'
  <2>1. Still
    BY <1>22 DEF ReadResult, Row, Still, Posting
  <2> QED
    BY <2>1, StillKeeps
<1>23. ASSUME NEW c \in Calls, Lapse(c) PROVE Potential'
  <2> SUFFICES ASSUME NEW d \in Calls PROVE Bounded(d)'
    BY DEF Potential
  <2>0. Bounded(d) /\ posted[d] \in Nat /\ trouble \in Nat /\ Cardinality(InFlight(d)) \in Nat
    BY FS_CardinalityType DEF Potential, Bounded
  <2>1. UNCHANGED <<stage, batch, asking, answer, posted, trouble>>
    BY <1>23 DEF Lapse
  <2>2. InFlight(d)' = InFlight(d)
    BY <2>1 DEF InFlight
  <2>3. Covered(d) => Covered(d)'
    <3>1. CASE d = c
      <4>1. row[c].holder \notin Handlers
        BY <1>23 DEF Lapse
      <4> QED
        BY <3>1, <4>1 DEF Covered
    <3>2. CASE d # c
      <4>1. row'[d] = row[d]
        BY <1>23, <3>2 DEF Lapse, Unlease
      <4> QED
        BY <4>1, <2>1 DEF Covered
    <3> QED
      BY <3>1, <3>2
  <2>4. row'[d].delivery = row[d].delivery
    BY <1>23 DEF Lapse, Unlease, Row
  <2>5. Loose(d)' => Loose(d)
    BY <2>3, <2>4 DEF Loose
  <2> QED
    BY <2>0, <2>1, <2>2, <2>5, Unchanged
<1>24. ASSUME NEW c \in Calls, RenewalLost(c) PROVE Potential'
  <2> SUFFICES ASSUME NEW d \in Calls PROVE Bounded(d)'
    BY DEF Potential
  <2>0. Bounded(d) /\ posted[d] \in Nat /\ trouble \in Nat /\ Cardinality(InFlight(d)) \in Nat
    BY FS_CardinalityType DEF Potential, Bounded
  <2>1. UNCHANGED <<stage, batch, asking, answer, posted>> /\ trouble' = trouble + 1
    BY <1>24 DEF RenewalLost
  <2>2. InFlight(d)' = InFlight(d)
    BY <2>1 DEF InFlight
  <2>3. posted'[d] = posted[d] + 0 /\ Cardinality(InFlight(d)') = Cardinality(InFlight(d)) + 0
    BY <2>0, <2>1, <2>2
  <2>4. IsFiniteSet(InFlight(d)')
    BY <2>0, <2>2 DEF Bounded
  <2> QED
    BY <2>0, <2>1, <2>3, <2>4, Balance
<1> QED
  BY <1>1, <1>2, <1>3, <1>4, <1>6, <1>7, <1>8, <1>9, <1>10b, <1>11, <1>12, <1>13,
     <1>14, <1>15, <1>16, <1>17, <1>18, <1>19, <1>20, <1>21, <1>22, <1>23, <1>24 DEF
     Next, PostStep, SettleStep, SweepStep

(* At first one post may be made of each call.                             *)
LEMMA PotentialInit ==
  Init => Potential
<1> SUFFICES ASSUME Init, NEW c \in Calls PROVE Bounded(c)
  BY DEF Potential
<1>1. InFlight(c) = {}
  BY DEF Init, InFlight
<1>2. IsFiniteSet(InFlight(c)) /\ Cardinality(InFlight(c)) = 0
  BY <1>1, FS_EmptySet
<1>3. posted[c] = 0 /\ trouble = 0
  BY DEF Init
<1> QED
  BY <1>2, <1>3 DEF Bounded

(* A result is posted once, and at most once more for each handler or      *)
(* renewal that was lost and each turn set adrift after the agent had the  *)
(* post: the lease (takeDeliverableAgentCalls) keeps the other handlers,   *)
(* the sweep and the other replicas off the row from the moment a post     *)
(* begins until it is acknowledged.                                        *)
THEOREM PostedOnceAlways == Spec => []PostedOnce
<1> DEFINE I == TypeOK /\ Handling /\ Potential
<1>1. Init => I
  BY HandlingInit, PotentialInit
<1>2. I /\ [Next]_vars => I'
  BY TypeStep, HandlingStep, PotentialStep
<1>3. I => PostedOnce
  <2> SUFFICES ASSUME I, NEW c \in Calls PROVE posted[c] <= 1 + trouble
    BY DEF PostedOnce
  <2>1. posted[c] \in Nat /\ trouble \in Nat /\ Cardinality(InFlight(c)) \in Nat
    BY AgentCallsAssumption, FS_CardinalityType DEF TypeOK, Potential, Bounded
  <2>2. posted[c] + Cardinality(InFlight(c)) + (IF Loose(c) THEN 1 ELSE 0) <= 1 + trouble
    BY DEF Potential, Bounded
  <2> QED
    BY <2>1, <2>2
<1> QED
  BY <1>1, <1>2, <1>3, PTL DEF Spec

-----------------------------------------------------------------------------
(* A result that is leased is in somebody's hands. *)

(* A row that bears a handler's token is of the batch that it is posting.  *)
InHand ==
  \A c \in Calls, h \in Handlers :
    row[c].delivery = "pending" /\ row[c].holder = h =>
      stage[h] \in Posting /\ c \in batch[h] /\ target[h] = Parent[c]

(* No token is given out, and none that posts goes away.                   *)
HandsRest ==
  /\ UNCHANGED <<batch, target>>
  /\ \A h \in Handlers : stage[h] \in Posting => stage'[h] \in Posting
  /\ \A c \in Calls :
       /\ row'[c].holder = row[c].holder \/ row'[c].holder = None
       /\ row[c].delivery # "pending" => row'[c].delivery # "pending"

LEMMA HandRests ==
  ASSUME TypeOK, InHand, HandsRest PROVE InHand'
<1>1. None \notin Handlers
  BY AgentCallsAssumption DEF Handlers
<1> QED
  BY <1>1 DEF InHand, HandsRest

LEMMA InHandStep ==
  ASSUME TypeOK, Handling, InHand, [Next]_vars
  PROVE  InHand'
<1> USE AgentCallsAssumption
      DEF TypeOK, historyVars, boundVars, jobVars, postVars, Goto, ToPost, Posting
<1>0. Sessions \cup Settlers \subseteq Handlers /\ Sweeper \in Handlers /\ None \notin Handlers
  BY DEF Handlers
<1>1. CASE UNCHANGED vars
  BY <1>1 DEF vars, InHand
<1>2. ASSUME NEW s \in Sessions, Prompt(s) PROVE InHand'
  <2>1. HandsRest
    BY <1>0, <1>2, RowEffects DEF Prompt, HandsRest
  <2> QED BY <2>1, HandRests
<1>3. ASSUME NEW s \in Sessions, Ask(s) PROVE InHand'
  <2>1. HandsRest
    BY <1>0, <1>3 DEF Ask, HandsRest
  <2> QED BY <2>1, HandRests
<1>4. ASSUME NEW s \in Sessions, Answered(s) PROVE InHand'
  <2>1. HandsRest
    BY <1>0, <1>4 DEF Answered, HandsRest
  <2> QED BY <2>1, HandRests
<1>5. ASSUME NEW s \in Sessions, NEW ok \in BOOLEAN, Settle(s, ok) PROVE InHand'
  <2>1. PICK h \in Settlers :
          /\ stage[h] = "idle"
          /\ stage' = [stage EXCEPT ![h] = IF ok THEN "counting" ELSE "closing"]
    BY <1>5 DEF Settle
  <2>2. HandsRest
    BY <1>0, <1>5, <2>1 DEF Settle, HandsRest
  <2> QED BY <2>2, HandRests
<1>6. ASSUME NEW s \in Sessions, End(s) \/ Interrupt(s) PROVE InHand'
  <2>1. \E ok \in BOOLEAN : Settle(s, ok)
    BY Zenon, <1>6 DEF End, Interrupt
  <2> QED BY <1>5, <2>1
<1>7. ASSUME NEW s \in Sessions, Note(s) PROVE InHand'
  <2>1. HandsRest
    BY <1>0, <1>7 DEF Note, Row, HandsRest
  <2> QED BY <2>1, HandRests
<1>8. ASSUME NEW h \in Settlers, CountOpen(h) PROVE InHand'
  <2>1. HandsRest
    BY <1>0, <1>8, RowEffects DEF CountOpen, HandsRest
  <2> QED BY <2>1, HandRests
<1>9. ASSUME NEW h \in Settlers, CloseCalls(h) PROVE InHand'
  <2>1. verdict[h] \in {"ended", "failed"}
    BY <1>9 DEF CloseCalls, Handling
  <2>2. HandsRest
    BY <1>0, <1>9, <2>1, RowEffects DEF CloseCalls, HandsRest
  <2> QED BY <2>2, HandRests
<1>10. ASSUME NEW h \in Handlers, Drop(h) PROVE InHand'
  <2>1. \A g \in Handlers \ {h} : stage'[g] = stage[g] /\ batch'[g] = batch[g] /\ target'[g] = target[g]
    BY <1>10 DEF Drop, StopPosting
  <2>2. \A c \in Calls : row'[c].delivery = row[c].delivery /\ row'[c].holder = (IF row[c].holder = h THEN None ELSE row[c].holder)
    BY <1>10 DEF Drop, Row
  <2> SUFFICES ASSUME NEW c \in Calls, NEW g \in Handlers, row'[c].delivery = "pending", row'[c].holder = g
               PROVE  stage'[g] \in Posting /\ c \in batch'[g] /\ target'[g] = Parent[c]
    BY DEF InHand
  <2>3. g # h /\ row[c].holder = g /\ row[c].delivery = "pending"
    BY <1>0, <2>2
  <2>4. stage[g] \in Posting /\ c \in batch[g] /\ target[g] = Parent[c]
    BY <2>3 DEF InHand
  <2> QED BY <2>1, <2>3, <2>4
<1>10b. ASSUME NEW s \in Sessions, LoseTurn(s) PROVE InHand'
  BY <1>0, <1>10, <1>10b DEF LoseTurn
<1>11. ASSUME NEW s \in Sessions, Recover(s) PROVE InHand'
  <2>1. HandsRest
    BY <1>0, <1>11 DEF Recover, HandsRest
  <2> QED BY <2>1, HandRests
<1>12. ASSUME NEW s \in Sessions, DeleteSession(s) PROVE InHand'
  <2>1. HandsRest
    BY <1>0, <1>12 DEF DeleteSession, HandsRest
  <2> QED BY <2>1, HandRests
<1>13. ASSUME NEW h \in Handlers, NEW p \in Sessions, Take(h, p) PROVE InHand'
  <2> DEFINE ready == {c \in Calls : Parent[c] = p /\ Deliverable(c)}
  <2>1. /\ row' = [c \in Calls |-> IF c \in ready THEN [row[c] EXCEPT !.leased = TRUE, !.holder = h] ELSE row[c]]
        /\ batch' = [batch EXCEPT ![h] = ready] /\ target' = [target EXCEPT ![h] = p]
        /\ stage[h] = "posting" /\ stage'[h] \in Posting
        /\ \A g \in Handlers \ {h} : stage'[g] = stage[g]
    <3>1. \E to \in Posting : stage' = [stage EXCEPT ![h] = to]
      BY <1>13 DEF Take, Reply
    <3>2. row' = [c \in Calls |-> IF c \in ready THEN [row[c] EXCEPT !.leased = TRUE, !.holder = h] ELSE row[c]]
      BY <1>13 DEF Take, Lease
    <3>3. /\ batch' = [batch EXCEPT ![h] = ready] /\ target' = [target EXCEPT ![h] = p]
          /\ stage[h] = "posting"
      BY <1>13 DEF Take, InTurn
    <3>4. stage'[h] \in Posting /\ \A g \in Handlers \ {h} : stage'[g] = stage[g]
      BY <3>1
    <3> QED
      BY <3>2, <3>3, <3>4
  <2>2. \A c \in ready : c \in Calls /\ Parent[c] = p
    OBVIOUS
  <2> HIDE DEF ready
  <2>3. \A c \in ready : row'[c].holder = h
    <3>1. ASSUME NEW c \in Calls, c \in ready PROVE row'[c].holder = h
      <4>1. row[c] \in Row
        OBVIOUS
      <4> QED BY <2>1, <3>1, <4>1 DEF Row
    <3> QED BY <2>2, <3>1
  <2>4. \A c \in Calls \ ready : row'[c] = row[c]
    BY <2>1
  <2> SUFFICES ASSUME NEW c \in Calls, NEW g \in Handlers, row'[c].delivery = "pending", row'[c].holder = g
               PROVE  stage'[g] \in Posting /\ c \in batch'[g] /\ target'[g] = Parent[c]
    BY DEF InHand
  <2>5. CASE c \in ready
    BY <2>1, <2>2, <2>3, <2>5
  <2>6. CASE c \notin ready
    <3>1. stage[g] \in Posting /\ c \in batch[g] /\ target[g] = Parent[c]
      BY <2>4, <2>6 DEF InHand
    <3> QED BY <2>1, <3>1
  <2> QED BY <2>5, <2>6
<1>14. ASSUME NEW h \in Handlers, NEW p \in Sessions, TakeNothing(h, p) PROVE InHand'
  <2>1. HandsRest
    BY <1>0, <1>14 DEF TakeNothing, InTurn, HandsRest
  <2> QED BY <2>1, HandRests
<1>15. ASSUME NEW h \in Handlers, Dispatch(h) PROVE InHand'
  <2>1. HandsRest
    BY <1>0, <1>15, RowEffects DEF Dispatch, HandsRest
  <2> QED BY <2>1, HandRests
<1>16. ASSUME NEW h \in Handlers, Mark(h) PROVE InHand'
  <2>1. \A g \in Handlers \ {h} : stage'[g] = stage[g] /\ batch'[g] = batch[g] /\ target'[g] = target[g]
    BY <1>16 DEF Mark, StopPosting
  <2>2. \A c \in Calls : ~Holds(h, c) => row'[c] = row[c]
    BY <1>16 DEF Mark
  <2>3. \A c \in Calls : Holds(h, c) => row'[c].holder = None
    <3>1. ASSUME NEW c \in Calls, Holds(h, c) PROVE row'[c].holder = None
      <4>1. row'[c] = Marked(h, c) /\ answer[h] \in {"sse", "busy", "error", "gone"} /\ row[c] \in Row
        BY <1>16, <3>1 DEF Mark, Handling
      <4> QED BY <4>1, MarkedFields
    <3> QED BY <3>1
  <2> SUFFICES ASSUME NEW c \in Calls, NEW g \in Handlers, row'[c].delivery = "pending", row'[c].holder = g
               PROVE  stage'[g] \in Posting /\ c \in batch'[g] /\ target'[g] = Parent[c]
    BY DEF InHand
  <2>4. ~Holds(h, c) /\ row'[c] = row[c]
    BY <1>0, <2>2, <2>3
  <2>5. stage[g] \in Posting /\ c \in batch[g] /\ target[g] = Parent[c]
    BY <2>4 DEF InHand
  <2>6. g # h
    BY <2>4, <2>5 DEF Holds
  <2> QED BY <2>1, <2>5, <2>6
<1>16b. ASSUME NEW h \in Handlers, LoseHandler(h) PROVE InHand'
  BY <1>10, <1>16b DEF LoseHandler
<1>17. CASE Sweep
  <2>1. HandsRest
    BY <1>0, <1>17 DEF Sweep, HandsRest
  <2> QED BY <2>1, HandRests
<1>18. CASE SweepClose
  <2>1. PICK e \in listed : row' = Ended(e[1], e[2])
    BY <1>18 DEF SweepClose
  <2>2. e[2] \in {"ended", "failed"}
    OBVIOUS
  <2>3. HandsRest
    BY <1>18, <2>1, <2>2, RowEffects DEF SweepClose, HandsRest
  <2> QED BY <2>3, HandRests
<1>19. CASE SweepParents
  <2>1. HandsRest
    BY <1>0, <1>19 DEF SweepParents, HandsRest
  <2> QED BY <2>1, HandRests
<1>20. ASSUME NEW c \in Calls, CallAgent(c) PROVE InHand'
  <2>1. HandsRest
    BY <1>0, <1>20 DEF CallAgent, Row, HandsRest
  <2> QED BY <2>1, HandRests
<1>21. ASSUME NEW c \in Calls, ReadResult(c) PROVE InHand'
  <2>1. UNCHANGED <<stage, batch, target>>
    BY <1>21 DEF ReadResult
  <2>2. ASSUME NEW d \in Calls
        PROVE  row'[d].holder = row[d].holder /\ (row'[d].delivery = row[d].delivery \/ row'[d].delivery = "consumed")
    <3>1. row[d] \in Row
      OBVIOUS
    <3>2. row'[d] = row[d] \/ row'[d] = [row[d] EXCEPT !.delivery = "consumed"]
      BY <1>21 DEF ReadResult
    <3> QED BY <3>1, <3>2 DEF Row
  <2>3. HandsRest
    BY <2>1, <2>2 DEF HandsRest
  <2> QED BY <2>3, HandRests
<1>22. ASSUME NEW c \in Calls, Lapse(c) PROVE InHand'
  <2>1. HandsRest
    BY <1>0, <1>22 DEF Lapse, Unlease, Row, HandsRest
  <2> QED BY <2>1, HandRests
<1>23. ASSUME NEW c \in Calls, RenewalLost(c) PROVE InHand'
  <2>1. HandsRest
    BY <1>0, <1>23 DEF RenewalLost, Unlease, Row, HandsRest
  <2> QED BY <2>1, HandRests
<1> QED
  BY <1>1, <1>2, <1>3, <1>4, <1>6, <1>7, <1>8, <1>9, <1>10b, <1>11,
     <1>12, <1>13, <1>14, <1>15, <1>16, <1>17, <1>18, <1>19, <1>20, <1>21,
     <1>22, <1>23, <1>16b DEF Next, PostStep, SettleStep, SweepStep

(* The safety half of ResultReaches: through lost handlers and renewals,   *)
(* failed posts and reads, a result of which nothing has become yet has a  *)
(* try left, and the next sweep will take it, or its lease is nobody's and *)
(* runs out, or a handler that is posting to its caller has it and marks   *)
(* it next.  No interleaving leaves it leased by one who forgot it.        *)
ResultTended ==
  \A c \in Calls : Finished(c) /\ row[c].delivery = "pending" =>
    /\ row[c].tries < MaxTries
    /\ \/ Deliverable(c)
       \/ row[c].leased /\ row[c].holder = None
       \/ \E h \in Handlers : stage[h] \in Posting /\ target[h] = Parent[c] /\ Holds(h, c)

THEOREM ResultAlwaysTended == Spec => []ResultTended
<1> DEFINE I == TypeOK /\ Handling /\ InHand
<1>1. Init => I
  <2>1. Init => InHand
    <3> SUFFICES ASSUME Init PROVE InHand
      OBVIOUS
    <3>1. None \notin Handlers
      BY AgentCallsAssumption DEF Handlers
    <3>2. \A c \in Calls : row[c].holder = None
      BY DEF Init, NoRow
    <3> QED BY <3>1, <3>2 DEF InHand
  <2> QED BY <2>1, HandlingInit
<1>2. I /\ [Next]_vars => I'
  BY TypeStep, HandlingStep, InHandStep
<1>3. I => ResultTended
  <2> SUFFICES ASSUME I, NEW c \in Calls, Finished(c), row[c].delivery = "pending"
               PROVE  /\ row[c].tries < MaxTries
                      /\ \/ Deliverable(c)
                         \/ row[c].leased /\ row[c].holder = None
                         \/ \E h \in Handlers : stage[h] \in Posting /\ target[h] = Parent[c] /\ Holds(h, c)
    BY DEF ResultTended
  <2>1. row[c].tries < MaxTries /\ row[c].holder \in Handlers \cup {None}
    BY DEF Handling, TypeOK, Row
  <2>2. CASE ~row[c].leased
    BY <2>1, <2>2 DEF Deliverable, Unleased
  <2>3. CASE row[c].holder \in Handlers
    BY <2>1, <2>3 DEF InHand, Holds
  <2> QED BY <2>1, <2>2, <2>3
<1> QED
  BY <1>1, <1>2, <1>3, PTL DEF Spec
=============================================================================

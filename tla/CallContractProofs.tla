------------------------- MODULE CallContractProofs -------------------------
(***************************************************************************)
(* Proofs that AgentCalls implements CallContract, for any sessions, graph *)
(* of calls and number of faults, and what follows from the contract       *)
(* alone.  The simulation needs, beyond the invariants of AgentCallsProofs,*)
(* Leases: while nothing was lost, what a handler took is its own and is   *)
(* still pending when it posts and when it marks.                          *)
(***************************************************************************)
EXTENDS AgentCallsProofs

(* A handler takes calls that were made, and while nothing was lost nobody *)
(* else touches their rows until it has marked them.                       *)
Leases ==
  /\ \A h \in Handlers : \A c \in batch[h] : row[c].status # "none"
  /\ trouble = 0 =>
       \A h \in Handlers : stage[h] \in Posting =>
         \A c \in batch[h] :
           row[c].delivery = "pending" /\ row[c].leased /\ row[c].holder = h

(* No handler begins to post and no lease or delivery moves. *)
KeepsLeases ==
  /\ UNCHANGED batch
  /\ \A h \in Handlers : stage'[h] \in Posting => stage[h] \in Posting
  /\ \A c \in Calls :
       /\ row[c].status # "none" => row'[c].status # "none"
       /\ row'[c].delivery = row[c].delivery
       /\ row'[c].leased = row[c].leased
       /\ row'[c].holder = row[c].holder
  /\ trouble' = 0 => trouble = 0

LEMMA KeptLeases ==
  ASSUME TypeOK, Leases, KeepsLeases
  PROVE  Leases'
BY DEF TypeOK, Leases, KeepsLeases

(* Nor does one that leaves the handlers and the rows they hold alone.     *)
LEMMA HeldLeases ==
  ASSUME TypeOK, Leases, UNCHANGED <<stage, batch, trouble>>,
         \A c \in Calls :
           /\ row[c].status # "none" => row'[c].status # "none"
           /\ row[c].leased /\ row[c].holder \in Handlers =>
                /\ row'[c].delivery = row[c].delivery
                /\ row'[c].leased /\ row'[c].holder = row[c].holder
  PROVE  Leases'
<1>1. \A h \in Handlers : batch[h] \subseteq Calls
  BY DEF TypeOK
<1> QED
  BY <1>1 DEF Leases

(* Every action keeps the leases. *)
LEMMA LeasesStep ==
  ASSUME TypeOK, Handling, Leases, [Next]_vars
  PROVE  Leases'
<1> USE AgentCallsAssumption
      DEF TypeOK, historyVars, boundVars, jobVars, postVars, Handlers, Goto, ToPost,
          Callers, Posting
<1>1. CASE UNCHANGED vars
  BY <1>1 DEF vars, Leases
<1>2. ASSUME NEW s \in Sessions, Prompt(s) PROVE Leases'
  <2>1. KeepsLeases
    <3>1. trouble' = 0 => trouble = 0
      BY <1>2 DEF Prompt, Follow, SetAdrift
    <3> QED
      BY <1>2, <3>1, RowEffects DEF Prompt, KeepsLeases
  <2> QED
    BY <2>1, KeptLeases
<1>3. ASSUME NEW s \in Sessions, Ask(s) PROVE Leases'
  <2>1. KeepsLeases
    BY <1>3 DEF Ask, KeepsLeases
  <2> QED
    BY <2>1, KeptLeases
<1>4. ASSUME NEW s \in Sessions, Answered(s) PROVE Leases'
  <2>1. KeepsLeases
    BY <1>4 DEF Answered, KeepsLeases
  <2> QED
    BY <2>1, KeptLeases
<1>5. ASSUME NEW s \in Sessions, NEW ok \in BOOLEAN, Settle(s, ok) PROVE Leases'
  <2>1. PICK h \in Settlers :
          /\ stage[h] = "idle"
          /\ stage' = [stage EXCEPT ![h] = IF ok THEN "counting" ELSE "closing"]
    BY <1>5 DEF Settle
  <2>2. KeepsLeases
    BY <1>5, <2>1 DEF Settle, KeepsLeases
  <2> QED
    BY <2>2, KeptLeases
<1>6. ASSUME NEW s \in Sessions, End(s) \/ Interrupt(s) PROVE Leases'
  <2>1. \E ok \in BOOLEAN : Settle(s, ok)
    BY Zenon, <1>6 DEF End, Interrupt
  <2> QED
    BY <1>5, <2>1
<1>7. ASSUME NEW s \in Sessions, Note(s) PROVE Leases'
  <2>1. KeepsLeases
    BY <1>7 DEF Note, Row, KeepsLeases
  <2> QED
    BY <2>1, KeptLeases
<1>8. ASSUME NEW h \in Settlers, CountOpen(h) PROVE Leases'
  <2>1. KeepsLeases
    BY <1>8, RowEffects DEF CountOpen, KeepsLeases
  <2> QED
    BY <2>1, KeptLeases
<1>9. ASSUME NEW h \in Settlers, CloseCalls(h) PROVE Leases'
  <2>1. verdict[h] \in {"ended", "failed"}
    BY <1>9 DEF CloseCalls, Handling
  <2>2. KeepsLeases
    BY <1>9, <2>1, RowEffects DEF CloseCalls, KeepsLeases
  <2> QED
    BY <2>2, KeptLeases
<1>10. ASSUME NEW h \in Handlers, Drop(h) PROVE Leases'
  <2>1. trouble' # 0
    BY <1>10 DEF Drop
  <2>2. \A c \in Calls : row'[c].status = row[c].status
    BY <1>10 DEF Drop, Row
  <2>3. \A g \in Handlers : batch'[g] \subseteq batch[g]
    BY <1>10 DEF Drop, StopPosting
  <2> QED
    BY <2>1, <2>2, <2>3 DEF Leases
<1>10b. ASSUME NEW s \in Sessions, LoseTurn(s) PROVE Leases'
  BY <1>10, <1>10b DEF LoseTurn
<1>11. ASSUME NEW s \in Sessions, Recover(s) PROVE Leases'
  <2>1. KeepsLeases
    BY <1>11 DEF Recover, KeepsLeases
  <2> QED
    BY <2>1, KeptLeases
<1>12. ASSUME NEW s \in Sessions, DeleteSession(s) PROVE Leases'
  <2>1. KeepsLeases
    BY <1>12 DEF DeleteSession, KeepsLeases
  <2> QED
    BY <2>1, KeptLeases
<1>13. ASSUME NEW h \in Handlers, NEW p \in Sessions, Take(h, p) PROVE Leases'
  <2> DEFINE ready == {c \in Calls : Parent[c] = p /\ Deliverable(c)}
  <2>1. /\ row' = [c \in Calls |-> IF c \in ready THEN [row[c] EXCEPT !.leased = TRUE, !.holder = h] ELSE row[c]]
        /\ batch' = [batch EXCEPT ![h] = ready]
        /\ UNCHANGED trouble
    BY <1>13 DEF Take, Lease
  <2>2. \A g \in Handlers \ {h} : stage'[g] = stage[g]
    BY <1>13 DEF Take, InTurn, Reply
  <2>3. \A c \in ready : row[c].status # "none" /\ row[c].delivery = "pending" /\ ~row[c].leased
    BY DEF Deliverable, Unleased, Finished, Running
  <2>4. ready \subseteq Calls
    OBVIOUS
  <2> HIDE DEF ready
  <2>5. ASSUME NEW c \in Calls
        PROVE  /\ row'[c].status = row[c].status /\ row'[c].delivery = row[c].delivery
               /\ c \in ready => row'[c].leased /\ row'[c].holder = h
    <3>1. row[c] \in Row
      OBVIOUS
    <3> QED
      BY <2>1, <3>1 DEF Row
  <2>6. \A c \in ready : row'[c].leased /\ row'[c].holder = h
    BY <2>4, <2>5
  <2>7. \A c \in Calls \ ready : row'[c] = row[c]
    BY <2>1
  <2>8. batch'[h] = ready /\ \A g \in Handlers \ {h} : batch'[g] = batch[g]
    BY <2>1
  <2>9. ASSUME NEW g \in Handlers, NEW c \in batch'[g] PROVE row'[c].status # "none"
    <3>1. c \in Calls /\ row[c].status # "none"
      BY SMTT(40), <2>3, <2>4, <2>8 DEF Leases
    <3> QED
      BY <2>5, <3>1
  <2>10. ASSUME trouble' = 0, NEW g \in Handlers, stage'[g] \in Posting, NEW c \in batch'[g]
         PROVE  row'[c].delivery = "pending" /\ row'[c].leased /\ row'[c].holder = g
    <3>1. CASE g = h
      BY <2>3, <2>4, <2>5, <2>6, <2>8, <3>1
    <3>2. CASE g # h
      <4>1. row[c].delivery = "pending" /\ row[c].leased /\ row[c].holder = g /\ c \in Calls
        BY ZenonT(60), <2>1, <2>2, <2>8, <2>10, <3>2 DEF Leases
      <4>2. c \notin ready
        BY <2>3, <4>1
      <4> QED
        BY <2>7, <4>1, <4>2
    <3> QED
      BY <3>1, <3>2
  <2> QED
    BY <2>9, <2>10 DEF Leases
<1>14. ASSUME NEW h \in Handlers, NEW p \in Sessions, TakeNothing(h, p) PROVE Leases'
  <2>1. KeepsLeases
    BY <1>14 DEF TakeNothing, InTurn, KeepsLeases
  <2> QED
    BY <2>1, KeptLeases
<1>15. ASSUME NEW h \in Handlers, Dispatch(h) PROVE Leases'
  <2>1. KeepsLeases
    <3>1. trouble' = 0 => trouble = 0
      BY <1>15 DEF Dispatch, Follow, SetAdrift
    <3> QED
      BY <1>15, <3>1, RowEffects DEF Dispatch, KeepsLeases
  <2> QED
    BY <2>1, KeptLeases
<1>16. ASSUME NEW h \in Handlers, Mark(h) PROVE Leases'
  <2>1. /\ stage'[h] \notin Posting /\ batch'[h] = {}
        /\ \A g \in Handlers \ {h} : stage'[g] = stage[g] /\ batch'[g] = batch[g]
        /\ trouble' = trouble
    BY <1>16 DEF Mark, StopPosting
  <2>2. \A c \in Calls : ~Holds(h, c) => row'[c] = row[c]
    BY <1>16 DEF Mark
  <2>3. \A c \in Calls : row'[c].status = row[c].status
    <3>1. ASSUME NEW c \in Calls, Holds(h, c) PROVE row'[c].status = row[c].status
      <4>1. row'[c] = Marked(h, c) /\ answer[h] \in {"sse", "busy", "error", "gone"} /\ row[c] \in Row
        BY <1>16, <3>1 DEF Mark, Handling
      <4> QED
        BY <4>1, MarkedFields
    <3> QED
      BY <2>2, <3>1
  <2>4. \A g \in Handlers : \A c \in batch'[g] : row'[c].status # "none"
    <3>1. ASSUME NEW g \in Handlers, NEW c \in batch'[g] PROVE row'[c].status # "none"
      <4>1. c \in batch[g] /\ c \in Calls
        BY <2>1
      <4> QED
        BY Zenon, <2>3, <4>1 DEF Leases
    <3> QED
      BY <3>1
  <2>5. ASSUME trouble' = 0, NEW g \in Handlers, stage'[g] \in Posting, NEW c \in batch'[g]
        PROVE  row'[c].delivery = "pending" /\ row'[c].leased /\ row'[c].holder = g
    <3>1. g # h
      BY <2>1, <2>5
    <3>2. row[c].delivery = "pending" /\ row[c].leased /\ row[c].holder = g /\ c \in Calls
      BY <2>1, <2>5, <3>1 DEF Leases
    <3>3. ~Holds(h, c)
      BY <3>1, <3>2 DEF Holds
    <3> QED
      BY <2>2, <3>2, <3>3
  <2> QED
    BY <2>4, <2>5 DEF Leases
<1>17. ASSUME NEW h \in Handlers, LoseHandler(h) PROVE Leases'
  BY <1>10, <1>17 DEF LoseHandler
<1>18. CASE Sweep
  <2>1. KeepsLeases
    BY <1>18 DEF Sweep, KeepsLeases
  <2> QED
    BY <2>1, KeptLeases
<1>19. CASE SweepClose
  <2>1. PICK e \in listed : row' = Ended(e[1], e[2])
    BY <1>19 DEF SweepClose
  <2>2. e[2] \in {"ended", "failed"}
    OBVIOUS
  <2>3. KeepsLeases
    <3>1. UNCHANGED <<batch, stage, trouble>>
      BY <1>19 DEF SweepClose
    <3>2. ASSUME NEW c \in Calls
          PROVE  /\ row[c].status # "none" => row'[c].status # "none"
                 /\ row'[c].delivery = row[c].delivery
                 /\ row'[c].leased = row[c].leased /\ row'[c].holder = row[c].holder
      BY SMTT(40), <2>1, <2>2, RowEffects DEF Running
    <3> QED
      BY Zenon, <3>1, <3>2 DEF KeepsLeases
  <2> QED
    BY <2>3, KeptLeases
<1>20. CASE SweepParents
  <2>1. KeepsLeases
    BY <1>20 DEF SweepParents, KeepsLeases
  <2> QED
    BY <2>1, KeptLeases
<1>21. ASSUME NEW c \in Calls, CallAgent(c) PROVE Leases'
  <2>1. KeepsLeases
    BY <1>21 DEF CallAgent, Row, KeepsLeases
  <2> QED
    BY <2>1, KeptLeases
<1>22. ASSUME NEW c \in Calls, ReadResult(c) PROVE Leases'
  <2>1. UNCHANGED <<stage, batch, trouble>>
    BY <1>22 DEF ReadResult
  <2>2. ASSUME NEW d \in Calls
        PROVE  row'[d].status = row[d].status /\ (row[d].leased => row'[d] = row[d])
    <3>1. row[d] \in Row
      OBVIOUS
    <3>2. \/ row'[d] = row[d]
          \/ ~row[d].leased /\ row'[d] = [row[d] EXCEPT !.delivery = "consumed"]
      BY <1>22 DEF ReadResult
    <3> QED
      BY <3>1, <3>2 DEF Row
  <2> QED
    BY <2>1, <2>2, HeldLeases
<1>23. ASSUME NEW c \in Calls, Lapse(c) PROVE Leases'
  <2>1. UNCHANGED <<stage, batch, trouble>>
    BY <1>23 DEF Lapse
  <2>2. \A d \in Calls : row'[d].status = row[d].status
    BY <1>23 DEF Lapse, Unlease, Row
  <2>3. \A d \in Calls : row[d].holder # None => row'[d] = row[d]
    <3>1. row[c].holder = None /\ \A d \in Calls \ {c} : row'[d] = row[d]
      BY <1>23 DEF Lapse, Unlease
    <3> QED
      BY <3>1
  <2>4. \A d \in Calls : row[d].holder \in Handlers => row[d].holder # None
    OBVIOUS
  <2> QED
    BY <2>1, <2>2, <2>3, <2>4, HeldLeases
<1>24. ASSUME NEW c \in Calls, RenewalLost(c) PROVE Leases'
  <2>1. UNCHANGED batch /\ trouble' # 0
    BY <1>24 DEF RenewalLost
  <2>2. \A d \in Calls : row'[d].status = row[d].status
    BY <1>24 DEF RenewalLost, Unlease, Row
  <2> QED
    BY <2>1, <2>2 DEF Leases
<1> QED
  BY <1>1, <1>2, <1>3, <1>4, <1>6, <1>7, <1>8, <1>9, <1>10b, <1>11, <1>12, <1>13,
     <1>14, <1>15, <1>16, <1>17, <1>18, <1>19, <1>20, <1>21, <1>22, <1>23, <1>24 DEF
     Next, PostStep, SettleStep, SweepStep

-----------------------------------------------------------------------------
(* The simulation *)

(* No call changes its outcome or its fate, and none is posted or asks.    *)
SameToCaller ==
  /\ \A c \in Calls : row'[c].status = row[c].status /\ row'[c].delivery = row[c].delivery
  /\ UNCHANGED <<posted, questioned>>

LEMMA Stutters ==
  ASSUME SameToCaller, UNCHANGED trouble
  PROVE  UNCHANGED Contract!contractVars
BY DEF SameToCaller, Contract!contractVars

LEMMA Loses ==
  ASSUME SameToCaller, trouble' = trouble + 1
  PROVE  Contract!Next
<1>1. Contract!Lose
  BY DEF SameToCaller, Contract!Lose
<1> QED
  BY <1>1 DEF Contract!Next

LEMMA Together ==
  ASSUME NEW C \in SUBSET Calls, Contract!Deliver(C) \/ Contract!Consume(C) \/ Contract!Drop(C)
  PROVE  Contract!Next
BY Zenon DEF Contract!Next

(* endAgentCalls: all running calls of a session get the outcome.          *)
LEMMA Finishes ==
  ASSUME TypeOK, NEW s \in Sessions, NEW v \in {"ended", "failed"}, row' = Ended(s, v),
         UNCHANGED <<posted, questioned, trouble>>
  PROVE  Contract!Next
<1>1. CallsTo(s) \in SUBSET Calls /\ \A c \in CallsTo(s) : Running(c)
  BY DEF CallsTo
<1>2. ASSUME NEW c \in Calls
      PROVE  /\ row'[c].status = IF c \in CallsTo(s) THEN v ELSE row[c].status
             /\ row'[c].delivery = row[c].delivery
  <2>1. row[c] \in Row
    BY DEF TypeOK
  <2> QED
    BY <2>1 DEF Ended, Over, Row
<1>3. Contract!Finish(CallsTo(s), v)
  BY <1>1, <1>2 DEF Contract!Finish, Contract!With, Running
<1> QED
  BY <1>1, <1>3 DEF Contract!Next

(* Every step is one of the contract or leaves it alone. *)
LEMMA ContractStep ==
  ASSUME TypeOK, Handling, Held, Potential, Leases, [Next]_vars
  PROVE  [Contract!Next]_(Contract!contractVars)
<1> USE AgentCallsAssumption
      DEF TypeOK, historyVars, boundVars, jobVars, postVars, Goto, ToPost
<1>1. CASE UNCHANGED vars
  BY <1>1, Stutters DEF vars, SameToCaller
<1>2. ASSUME NEW s \in Sessions, Prompt(s) PROVE [Contract!Next]_(Contract!contractVars)
  <2>1. SameToCaller
    BY <1>2, RowEffects DEF Prompt, SameToCaller
  <2>2. CASE Follow(s)
    BY <2>1, <2>2, Stutters DEF Follow
  <2>3. CASE SetAdrift(s)
    BY <2>1, <2>3, Loses DEF SetAdrift
  <2> QED
    BY <1>2, <2>2, <2>3 DEF Prompt
<1>3. ASSUME NEW s \in Sessions, Ask(s) PROVE UNCHANGED Contract!contractVars
  BY <1>3, Stutters DEF Ask, SameToCaller
<1>4. ASSUME NEW s \in Sessions, Answered(s) PROVE UNCHANGED Contract!contractVars
  BY <1>4, Stutters DEF Answered, SameToCaller
<1>5. ASSUME NEW s \in Sessions, NEW ok \in BOOLEAN, Settle(s, ok)
      PROVE  UNCHANGED Contract!contractVars
  BY <1>5, Stutters DEF Settle, SameToCaller
<1>6. ASSUME NEW s \in Sessions, End(s) \/ Interrupt(s) PROVE UNCHANGED Contract!contractVars
  <2>1. \E ok \in BOOLEAN : Settle(s, ok)
    BY Zenon, <1>6 DEF End, Interrupt
  <2> QED
    BY <1>5, <2>1
<1>7. ASSUME NEW s \in Sessions, Note(s) PROVE Contract!Next
  <2> DEFINE C == {c \in CallsTo(s) : ~row[c].asked}
  <2>1. C \in SUBSET Calls /\ \A c \in C : row[c].status = "running"
    BY DEF CallsTo, Running
  <2>2. \A c \in Calls : row'[c].status = row[c].status /\ row'[c].delivery = row[c].delivery
    BY <1>7 DEF Note, Row
  <2>3. questioned' = questioned \cup C /\ UNCHANGED <<posted, trouble>>
    BY <1>7 DEF Note
  <2> HIDE DEF C
  <2>4. Contract!Question(C)
    BY <2>1, <2>2, <2>3 DEF Contract!Question
  <2> QED
    BY <2>1, <2>4 DEF Contract!Next
<1>8. ASSUME NEW h \in Settlers, CountOpen(h) PROVE UNCHANGED Contract!contractVars
  BY <1>8, Stutters, RowEffects DEF CountOpen, SameToCaller
<1>9. ASSUME NEW h \in Settlers, CloseCalls(h) PROVE Contract!Next
  <2>1. verdict[h] \in {"ended", "failed"}
    BY <1>9 DEF CloseCalls, Handling
  <2> QED
    BY <1>9, <2>1, Finishes DEF CloseCalls
<1>10. ASSUME NEW h \in Handlers, Drop(h) PROVE Contract!Next
  <2>1. \A c \in Calls : row'[c].status = row[c].status /\ row'[c].delivery = row[c].delivery
    BY <1>10 DEF Drop, Row
  <2> QED
    BY <1>10, <2>1, Loses DEF Drop, SameToCaller
<1>10b. ASSUME NEW s \in Sessions, LoseTurn(s) PROVE Contract!Next
  BY <1>10, <1>10b DEF LoseTurn, Handlers
<1>11. ASSUME NEW s \in Sessions, Recover(s) PROVE UNCHANGED Contract!contractVars
  BY <1>11, Stutters DEF Recover, SameToCaller
<1>12. ASSUME NEW s \in Sessions, DeleteSession(s) PROVE Contract!Next
  BY <1>12, Loses DEF DeleteSession, SameToCaller
<1>13. ASSUME NEW h \in Handlers, NEW p \in Sessions, Take(h, p)
       PROVE  UNCHANGED Contract!contractVars
  <2>1. ASSUME NEW c \in Calls
        PROVE  row'[c].status = row[c].status /\ row'[c].delivery = row[c].delivery
    <3>1. row[c] \in Row /\ h \in Handlers \cup {None}
      OBVIOUS
    <3>2. row'[c] = row[c] \/ row'[c] = [row[c] EXCEPT !.leased = TRUE, !.holder = h]
      BY <1>13 DEF Take, Lease
    <3> QED
      BY ZenonT(60), <3>1, <3>2 DEF Row
  <2> QED
    BY <1>13, <2>1, Stutters DEF Take, SameToCaller
<1>14. ASSUME NEW h \in Handlers, NEW p \in Sessions, TakeNothing(h, p)
       PROVE  UNCHANGED Contract!contractVars
  BY <1>14, Stutters DEF TakeNothing, SameToCaller
<1>15. ASSUME NEW h \in Handlers, Dispatch(h) PROVE [Contract!Next]_(Contract!contractVars)
  <2> DEFINE C == batch[h] \ asking[h]
  <2>1. C \in SUBSET Calls
    OBVIOUS
  <2>2. \A c \in Calls : row'[c].status = row[c].status /\ row'[c].delivery = row[c].delivery
    BY <1>15, RowEffects DEF Dispatch
  <2>3. UNCHANGED questioned /\ trouble' \in {trouble, trouble + 1}
    BY <1>15 DEF Dispatch, Follow, SetAdrift
  <2>4. CASE UNCHANGED <<posted, trouble>>
    BY <2>2, <2>3, <2>4, Stutters DEF SameToCaller
  <2>5. CASE posted' = [c \in Calls |-> IF c \in C THEN posted[c] + 1 ELSE posted[c]]
    <3>1. ASSUME NEW c \in C
          PROVE  /\ row[c].status \in {"ended", "failed"}
                 /\ row[c].delivery = "pending" \/ trouble > 0
      BY <1>15 DEF Dispatch, Posting, Handling, Finished, Leases
    <3>2. ASSUME NEW c \in C PROVE posted[c] <= trouble
      <4>1. h \in InFlight(c) /\ IsFiniteSet(InFlight(c))
        BY <1>15 DEF Dispatch, InFlight, Potential, Bounded
      <4>2. Cardinality(InFlight(c)) \in Nat /\ Cardinality(InFlight(c)) # 0
        BY <4>1, FS_CardinalityType, FS_EmptySet
      <4>3. posted[c] + Cardinality(InFlight(c)) + (IF Loose(c) THEN 1 ELSE 0) <= 1 + trouble
        BY DEF Potential, Bounded
      <4>4. posted[c] \in Nat /\ trouble \in Nat
        OBVIOUS
      <4> HIDE DEF TypeOK
      <4> QED
        BY <4>2, <4>3, <4>4
    <3> HIDE DEF C
    <3>3. Contract!Post(C)
      BY <2>1, <2>2, <2>3, <2>5, <3>1, <3>2 DEF Contract!Post, Contract!Over
    <3> QED
      BY <2>1, <3>3 DEF Contract!Next
  <2> QED
    BY <1>15, <2>4, <2>5 DEF Dispatch
<1>16. ASSUME NEW h \in Handlers, Mark(h) PROVE [Contract!Next]_(Contract!contractVars)
  <2>1. /\ stage[h] = "answered" /\ answer[h] \in {"sse", "busy", "error", "gone"}
        /\ UNCHANGED <<posted, questioned, trouble>>
    BY <1>16 DEF Mark, Handling
  <2>2. ASSUME NEW c \in Calls
        PROVE  row'[c].status = row[c].status
    <3>1. row[c] \in Row
      OBVIOUS
    <3> QED
      BY <1>16, <2>1, <3>1, MarkedFields DEF Mark
  <2> DEFINE to == IF answer[h] = "sse" THEN "delivered" ELSE "dropped"
  <2>3. PICK D \in SUBSET Calls : D = {c \in Calls : row'[c].delivery # row[c].delivery}
    OBVIOUS
  <2>4. ASSUME NEW c \in D
        PROVE  /\ Holds(h, c) /\ row'[c].delivery = to
               /\ answer[h] = "sse" => c \notin asking[h]
    <3>1. c \in Calls /\ row[c] \in Row
      OBVIOUS
    <3>2. Holds(h, c) /\ row'[c] = Marked(h, c)
      BY <1>16, <2>3 DEF Mark
    <3>3. CASE answer[h] = "sse"
      <4>1. row'[c].delivery = IF c \in asking[h] THEN row[c].delivery ELSE "delivered"
        BY <3>1, <3>2, <3>3 DEF Marked, Acknowledged, Row
      <4> QED
        BY <2>3, <3>2, <3>3, <4>1
    <3>4. CASE answer[h] # "sse"
      BY <2>1, <2>3, <3>1, <3>2, <3>4, MarkedFields
    <3> QED
      BY <3>3, <3>4
  <2>5. \A c \in Calls : row'[c].delivery = IF c \in D THEN to ELSE row[c].delivery
    BY <2>4, <2>3
  <2>6. ASSUME NEW c \in D
        PROVE  /\ row[c].delivery = "pending"
               /\ row[c].status \in {"ended", "failed"} \/ c \in questioned
               /\ answer[h] = "sse" => row[c].status \in {"ended", "failed"} /\ posted[c] > 0
    BY <2>1, <2>4 DEF Holds, Handling, Finished, Held
  <2>7. CASE answer[h] = "sse"
    <3>1. Contract!Deliver(D)
      BY <2>1, <2>2, <2>5, <2>6, <2>3, <2>7 DEF Contract!Deliver, Contract!Over, Contract!With
    <3> QED
      BY <2>3, <3>1, Together
  <2>8. CASE answer[h] # "sse"
    <3>1. Contract!Drop(D)
      BY <2>1, <2>2, <2>5, <2>6, <2>3, <2>8 DEF Contract!Drop, Contract!Over, Contract!With
    <3> QED
      BY <2>3, <3>1, Together
  <2> QED
    BY <2>7, <2>8
<1>17. ASSUME NEW h \in Handlers, LoseHandler(h) PROVE Contract!Next
  BY <1>10, <1>17 DEF LoseHandler
<1>18. CASE Sweep
  BY <1>18, Stutters DEF Sweep, SameToCaller
<1>19. CASE SweepClose
  <2>1. PICK e \in listed : row' = Ended(e[1], e[2])
    BY <1>19 DEF SweepClose
  <2>2. e[1] \in Sessions /\ e[2] \in {"ended", "failed"}
    OBVIOUS
  <2> QED
    BY <1>19, <2>1, <2>2, Finishes DEF SweepClose
<1>20. CASE SweepParents
  BY <1>20, Stutters DEF SweepParents, SameToCaller
<1>21. ASSUME NEW c \in Calls, CallAgent(c) PROVE Contract!Next
  <2>1. row[c].status = "none" /\ UNCHANGED <<posted, questioned, trouble>>
    BY <1>21 DEF CallAgent
  <2>2. ASSUME NEW d \in Calls
        PROVE  /\ row'[d].status = IF d \in {c} THEN "running" ELSE row[d].status
               /\ row'[d].delivery = row[d].delivery
    <3>1. row[c] \in Row
      OBVIOUS
    <3> QED
      BY <1>21, <3>1 DEF CallAgent, Row
  <2>3. Contract!Start(c)
    BY <2>1, <2>2 DEF Contract!Start, Contract!With
  <2> QED
    BY <2>3 DEF Contract!Next
<1>22. ASSUME NEW c \in Calls, ReadResult(c) PROVE Contract!Next
  <2>0. PICK C \in SUBSET Calls :
          C = {d \in Siblings(c) : Finished(d) /\ row[d].delivery = "pending" /\ ~row[d].leased}
    BY DEF Siblings
  <2>1. C \in SUBSET Calls /\ \A d \in C : row[d].status \in {"ended", "failed"} /\ row[d].delivery = "pending"
    BY <2>0 DEF Siblings, Finished
  <2>2. /\ row' = [d \in Calls |-> IF d \in C THEN [row[d] EXCEPT !.delivery = "consumed"] ELSE row[d]]
        /\ UNCHANGED <<posted, questioned, trouble>>
    BY <1>22, <2>0 DEF ReadResult
  <2>3. ASSUME NEW d \in Calls
        PROVE  /\ row'[d].delivery = IF d \in C THEN "consumed" ELSE row[d].delivery
               /\ row'[d].status = row[d].status
    <3>1. row[d] \in Row
      OBVIOUS
    <3> QED
      BY <2>2, <3>1 DEF Row
  <2>4. Contract!Consume(C)
    BY <2>1, <2>2, <2>3 DEF Contract!Consume, Contract!Over, Contract!With
  <2> QED
    BY <2>1, <2>4, Together
<1>23. ASSUME NEW c \in Calls, Lapse(c) PROVE UNCHANGED Contract!contractVars
  <2>1. \A d \in Calls : row'[d].status = row[d].status /\ row'[d].delivery = row[d].delivery
    BY <1>23 DEF Lapse, Unlease, Row
  <2> QED
    BY <1>23, <2>1, Stutters DEF Lapse, SameToCaller
<1>24. ASSUME NEW c \in Calls, RenewalLost(c) PROVE Contract!Next
  <2>1. \A d \in Calls : row'[d].status = row[d].status /\ row'[d].delivery = row[d].delivery
    BY <1>24 DEF RenewalLost, Unlease, Row
  <2> QED
    BY <1>24, <2>1, Loses DEF RenewalLost, SameToCaller
<1> HIDE DEF TypeOK
<1> QED
  BY <1>1, <1>2, <1>3, <1>4, <1>6, <1>7, <1>8, <1>9, <1>10b, <1>11, <1>12, <1>13,
     <1>14, <1>15, <1>16, <1>17, <1>18, <1>19, <1>20, <1>21, <1>22, <1>23, <1>24 DEF
     Next, PostStep, SettleStep, SweepStep

(* Nothing is taken at first, and nothing called. *)
LEMMA ContractInit ==
  Init => Leases /\ Contract!Init
<1> SUFFICES ASSUME Init PROVE Leases /\ Contract!Init
  OBVIOUS
<1>1. Leases
  BY DEF Init, Leases, Posting
<1>2. \A c \in Calls : row[c].status = "none" /\ row[c].delivery = "pending"
  BY DEF Init, NoRow
<1>3. Contract!Init
  BY <1>2 DEF Init, Contract!Init
<1> QED
  BY <1>1, <1>3

(* The agent_calls rows and all that is done with them, by any number of   *)
(* replicas and through any faults, implement the contract of a call.      *)
THEOREM ImplementsContract == Spec => ContractSpec
<1> DEFINE I == TypeOK /\ Handling /\ Held /\ Potential /\ Leases
<1>1. Init => I /\ Contract!Init
  BY HandlingInit, HeldInit, PotentialInit, ContractInit
<1>2. I /\ [Next]_vars => I'
  BY TypeStep, HandlingStep, HeldStep, PotentialStep, LeasesStep
<1>3. I /\ [Next]_vars => [Contract!Next]_(Contract!contractVars)
  BY ContractStep
<1> QED
  BY <1>1, <1>2, <1>3, PTL DEF Spec, ContractSpec, Contract!Spec

-----------------------------------------------------------------------------
(* What follows from the contract alone *)

(* What became of a result stays: one that its caller read, or that was    *)
(* given up, is not delivered after all.                                   *)
FateKept ==
  \A c \in Calls : row[c].delivery # "pending" => row'[c].delivery = row[c].delivery

(* Only an outcome is posted, and while nothing was lost only one that     *)
(* nothing has become of: a result read inline is not posted as well.      *)
PostsInTime ==
  \A c \in Calls :
    posted'[c] # posted[c] => Finished(c) /\ (row[c].delivery = "pending" \/ trouble > 0)

LEMMA ContractKeeps ==
  ASSUME TypeOK, [Contract!Next]_(Contract!contractVars)
  PROVE  FateKept /\ PostsInTime /\ OutcomeKept
<1> SUFFICES ASSUME NEW c \in Calls
             PROVE  /\ row[c].delivery # "pending" => row'[c].delivery = row[c].delivery
                    /\ posted'[c] # posted[c] => Finished(c) /\ (row[c].delivery = "pending" \/ trouble > 0)
                    /\ Finished(c) => row'[c].status = row[c].status
  BY DEF FateKept, PostsInTime, OutcomeKept
<1>1. CASE UNCHANGED Contract!contractVars
  <2>1. /\ [d \in Calls |-> row'[d].status] = [d \in Calls |-> row[d].status]
        /\ [d \in Calls |-> row'[d].delivery] = [d \in Calls |-> row[d].delivery]
        /\ posted' = posted
    BY <1>1 DEF Contract!contractVars
  <2>2. /\ [d \in Calls |-> row'[d].status][c] = [d \in Calls |-> row[d].status][c]
        /\ [d \in Calls |-> row'[d].delivery][c] = [d \in Calls |-> row[d].delivery][c]
    BY <2>1
  <2> QED
    BY <2>1, <2>2
<1>2. ASSUME NEW d \in Calls, Contract!Start(d)
      PROVE  /\ row'[c].delivery = row[c].delivery /\ posted' = posted
             /\ Finished(c) => row'[c].status = row[c].status
  BY <1>2 DEF Contract!Start, Contract!With, Finished
<1>3. ASSUME NEW C \in SUBSET Calls, Contract!Question(C)
      PROVE  row'[c].delivery = row[c].delivery /\ posted' = posted /\ row'[c].status = row[c].status
  BY <1>3 DEF Contract!Question
<1>4. ASSUME NEW C \in SUBSET Calls, NEW v \in {"ended", "failed"}, Contract!Finish(C, v)
      PROVE  /\ row'[c].delivery = row[c].delivery /\ posted' = posted
             /\ Finished(c) => row'[c].status = row[c].status
  BY <1>4 DEF Contract!Finish, Contract!With, Finished
<1>5. ASSUME NEW C \in SUBSET Calls, Contract!Post(C)
      PROVE  /\ row'[c].delivery = row[c].delivery /\ row'[c].status = row[c].status
             /\ posted'[c] # posted[c] => Finished(c) /\ (row[c].delivery = "pending" \/ trouble > 0)
  BY <1>5 DEF Contract!Post, Contract!Over, Finished
<1>6. ASSUME NEW C \in SUBSET Calls, Contract!Deliver(C) \/ Contract!Consume(C) \/ Contract!Drop(C)
      PROVE  /\ row[c].delivery # "pending" => row'[c].delivery = row[c].delivery
             /\ row'[c].status = row[c].status /\ posted' = posted
  BY <1>6 DEF Contract!Deliver, Contract!Consume, Contract!Drop, Contract!With
<1>7. ASSUME Contract!Lose
      PROVE  row'[c].delivery = row[c].delivery /\ posted' = posted /\ row'[c].status = row[c].status
  BY <1>7 DEF Contract!Lose
<1>8. CASE Contract!Next
  BY <1>2, <1>3, <1>4, <1>5, <1>6, <1>7, <1>8 DEF Contract!Next
<1> QED
  BY <1>1, <1>8

(* The fate of a result is decided once: of the caller's own reading, a    *)
(* post that is acknowledged and one that is given up, which race for the  *)
(* row, the first one counts.                                              *)
THEOREM FateDecidedOnce == Spec => [][FateKept]_vars
<1>1. TypeOK /\ [Contract!Next]_(Contract!contractVars) => [FateKept]_vars
  BY ContractKeeps
<1> QED
  BY <1>1, TypeCorrect, ImplementsContract, PTL DEF ContractSpec, Contract!Spec

(* Nothing but an outcome is posted, and none that was dealt with already, *)
(* unless a handler or a renewal was lost.                                 *)
THEOREM NothingPostedLate == Spec => [][PostsInTime]_vars
<1>1. TypeOK /\ [Contract!Next]_(Contract!contractVars) => [PostsInTime]_vars
  BY ContractKeeps
<1> QED
  BY <1>1, TypeCorrect, ImplementsContract, PTL DEF ContractSpec, Contract!Spec
=============================================================================

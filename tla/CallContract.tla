--------------------------- MODULE CallContract ---------------------------
(***************************************************************************)
(* What a call of one agent by another comes to                            *)
(* (control-plane/migrations/148_agent_calls.sql:1-25): it has one outcome,*)
(* its result has one fate, and the fate follows the outcome: delivered    *)
(* only once it was posted, read by its caller only once there is one.     *)
(* Only what broke off a post makes one happen again.  Sessions, turns,    *)
(* handlers, leases and attempts do not appear here.                       *)
(***************************************************************************)
EXTENDS Integers

CONSTANT Calls

VARIABLES status, \* of each call: none, running, ended or failed
          fate,   \* of its result: pending, delivered, consumed or dropped
          posts,  \* how often its result was posted to the caller
          asked,  \* the calls that asked their user something
          faults  \* what was lost so far

contractVars == <<status, fate, posts, asked, faults>>

Over(c) == status[c] \in {"ended", "failed"}

Init ==
  /\ status = [c \in Calls |-> "none"]
  /\ fate = [c \in Calls |-> "pending"]
  /\ posts = [c \in Calls |-> 0]
  /\ asked = {}
  /\ faults = 0

(* The calls in C change together. *)
With(f, C, value) == [c \in Calls |-> IF c \in C THEN value ELSE f[c]]

Start(c) ==
  /\ status[c] = "none"
  /\ status' = With(status, {c}, "running")
  /\ UNCHANGED <<fate, posts, asked, faults>>

Question(C) ==
  /\ \A c \in C : status[c] = "running"
  /\ asked' = asked \cup C
  /\ UNCHANGED <<status, fate, posts, faults>>

Finish(C, outcome) ==
  /\ \A c \in C : status[c] = "running"
  /\ status' = With(status, C, outcome)
  /\ UNCHANGED <<fate, posts, asked, faults>>

(* The caller gets the results as a message.  While nothing was lost that  *)
(* is the first time, and nothing else became of them yet.  What follows   *)
(* the handing over may fail: a fault as well.                             *)
Post(C) ==
  /\ \A c \in C : Over(c) /\ posts[c] <= faults /\ (fate[c] = "pending" \/ faults > 0)
  /\ posts' = [c \in Calls |-> IF c \in C THEN posts[c] + 1 ELSE posts[c]]
  /\ faults' \in {faults, faults + 1}
  /\ UNCHANGED <<status, fate, asked>>

Deliver(C) ==
  /\ \A c \in C : Over(c) /\ posts[c] > 0 /\ fate[c] = "pending"
  /\ fate' = With(fate, C, "delivered")
  /\ UNCHANGED <<status, posts, asked, faults>>

(* The caller reads the results in its own turn. *)
Consume(C) ==
  /\ \A c \in C : Over(c) /\ fate[c] = "pending"
  /\ fate' = With(fate, C, "consumed")
  /\ UNCHANGED <<status, posts, asked, faults>>

(* They cannot be handed over: results, or what is left of questions.      *)
Drop(C) ==
  /\ \A c \in C : (Over(c) \/ c \in asked) /\ fate[c] = "pending"
  /\ fate' = With(fate, C, "dropped")
  /\ UNCHANGED <<status, posts, asked, faults>>

Lose ==
  /\ faults' = faults + 1
  /\ UNCHANGED <<status, fate, posts, asked>>

Next ==
  \/ \E c \in Calls : Start(c)
  \/ \E C \in SUBSET Calls :
       \/ \E outcome \in {"ended", "failed"} : Finish(C, outcome)
       \/ Question(C) \/ Post(C) \/ Deliver(C) \/ Consume(C) \/ Drop(C)
  \/ Lose

Spec == Init /\ [][Next]_contractVars
=============================================================================

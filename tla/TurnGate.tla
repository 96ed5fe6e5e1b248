------------------------------ MODULE TurnGate ------------------------------
(***************************************************************************)
(* Turn admission of one workspace                                         *)
(* (control-plane/src/services/chat/turn-gate.ts).                         *)
(*                                                                         *)
(* The control plane counts the turns a workspace is running and admits at *)
(* most ready * perReplica of them; the rest wait in a bounded FIFO with a *)
(* timer each.  ready and perReplica are the replica router's in-memory    *)
(* snapshot (replica-router.ts), replaced as a whole by a periodic refresh *)
(* whose continuation, a separate microtask, re-runs admission             *)
(* (lib/reconcile.ts).  Workspaces share nothing in the gate, so one       *)
(* workspace is the whole of it.  Every action below is one synchronous    *)
(* stretch of JavaScript: the process is single threaded.                  *)
(***************************************************************************)
EXTENDS Integers, Sequences, FiniteSets, SequencesExt

CONSTANTS Turns,        \* the turns that ask for admission, one call at a time
          MaxQueue,     \* MAX_QUEUE_PER_WS
          MaxReady,     \* bound on the ready replicas a refresh reports
          MaxPerReplica \* bound on the max_concurrency a refresh reports

ASSUME TurnGateAssumption ==
  /\ IsFiniteSet(Turns)
  /\ MaxQueue \in Nat \ {0}
  /\ MaxReady \in Nat
  /\ MaxPerReplica \in Nat

VARIABLES status,     \* what became of each turn's last call to acquireTurn
          queue,      \* waiters: the FIFO of turns waiting for a slot
          active,     \* activeTurns: the number of slots handed out
          ready,      \* readyReplicaCount in the router's snapshot
          perReplica, \* perReplicaCapacity there; 0 stands for undefined
          drainDue    \* a refresh has run and its drainAll has not

gateVars == <<status, queue, active>>
routerVars == <<ready, perReplica, drainDue>>
vars == <<status, queue, active, ready, perReplica, drainDue>>

Status == {"new", "waiting", "held", "over"}

Init ==
  /\ status = [t \in Turns |-> "new"]
  /\ queue = <<>>
  /\ active = 0
  /\ ready = 0
  /\ perReplica = 0
  /\ drainDue = FALSE

-----------------------------------------------------------------------------
(* capacityOf: a workspace the router cannot size is accounted, never      *)
(* blocked (Infinity).                                                     *)
Sized == ready # 0 /\ perReplica # 0
MHasRoom(n) == Sized => n <= ready * perReplica
HasRoom(n) == Sized => n < ready * perReplica

(* turnDemand, the autoscaler's signal. *)
TurnDemand == active + Len(queue)

Holding == {t \in Turns : status[t] = "held"}

(* Mistakes a rewrite of the code below could make; no behaviour of Spec   *)
(* uses them.  A drain that grants one waiter, not all that fit; one that  *)
(* takes the newest; a timer that rejects its waiter and leaves it queued; *)
(* no timer at all; a cap off by one; a release without its flag.          *)
MGrantOne(n) == IF queue # <<>> /\ HasRoom(n) THEN 1 ELSE 0
MDrainFrom(n, st) ==
  LET k == IF queue # <<>> /\ HasRoom(n) THEN 1 ELSE 0
  IN  /\ queue' = SubSeq(queue, 1, Len(queue) - k)
      /\ active' = n + k
      /\ status' = [t \in Turns |-> IF k = 1 /\ queue[Len(queue)] = t THEN "held" ELSE st[t]]
MTimeoutKept(t) ==
  /\ status[t] = "waiting"
  /\ status' = [status EXCEPT ![t] = "over"]
  /\ UNCHANGED <<queue, active, routerVars>>
MNoTimeout(t) == FALSE /\ UNCHANGED vars

(* How many waiters the loop of drain grants when n slots are taken. *)
GrantCount(n) ==
  IF ~Sized THEN Len(queue)
  ELSE IF n >= ready * perReplica THEN 0
  ELSE IF ready * perReplica - n <= Len(queue) THEN ready * perReplica - n ELSE Len(queue)

(* drain, after n slots are left taken and the statuses are st: the first  *)
(* GrantCount(n) waiters leave the queue with a slot each.                 *)
DrainFrom(n, st) ==
  LET k == GrantCount(n)
  IN  /\ queue' = SubSeq(queue, k + 1, Len(queue))
      /\ active' = n + k
      /\ status' = [t \in Turns |-> IF \E i \in 1..k : queue[i] = t THEN "held" ELSE st[t]]

-----------------------------------------------------------------------------
(* acquireTurn: admitted at once while the count is under the cap,         *)
(* otherwise refused by a full queue or queued with a timer.  A turn whose *)
(* call is over may stand for another that asks.                           *)
Asking(t) == status[t] \in {"new", "over"}
Acquire(t) ==
  /\ Asking(t)
  /\ \/ /\ HasRoom(active)
        /\ status' = [status EXCEPT ![t] = "held"]
        /\ active' = active + 1
        /\ UNCHANGED queue
     \/ /\ ~HasRoom(active)
        /\ Len(queue) >= MaxQueue
        /\ status' = [status EXCEPT ![t] = "over"]
        /\ UNCHANGED <<queue, active>>
     \/ /\ ~HasRoom(active)
        /\ Len(queue) < MaxQueue
        /\ status' = [status EXCEPT ![t] = "waiting"]
        /\ queue' = Append(queue, t)
        /\ UNCHANGED active
  /\ UNCHANGED routerVars

(* The waiter's timer: out of the queue and rejected.  drain clears the    *)
(* timer of a waiter it grants, so only a queued turn can time out.        *)
Timeout(t) ==
  /\ \E i \in 1..Len(queue) :
        /\ queue[i] = t
        /\ queue' = RemoveAt(queue, i)
  /\ status' = [status EXCEPT ![t] = "over"]
  /\ UNCHANGED <<active, routerVars>>

MRelease(t) ==
  /\ status[t] \in {"held", "over"}
  /\ DrainFrom(active - 1, [status EXCEPT ![t] = "over"])
  /\ UNCHANGED routerVars

(* release: idempotent per slot.  The first call gives the slot back and   *)
(* admits waiters; a later one (executeChat's finally after the stream's   *)
(* own end, say) changes nothing.                                          *)
Release(t) ==
  /\ status[t] \in {"held", "over"}
  /\ IF status[t] = "over" THEN UNCHANGED gateVars
     ELSE DrainFrom(active - 1, [status EXCEPT ![t] = "over"])
  /\ UNCHANGED routerVars

(* refreshReplicaRouter: a full replacement of the snapshot; a workspace   *)
(* with no ready replica loses its capacity entry as well.                 *)
RouterRefresh ==
  /\ \E r \in 0..MaxReady, c \in 0..MaxPerReplica :
        /\ ready' = r
        /\ perReplica' = IF r = 0 THEN 0 ELSE c
  /\ drainDue' = TRUE
  /\ UNCHANGED gateVars

(* drainAll, the refresh's continuation. *)
DrainAll ==
  /\ drainDue
  /\ drainDue' = FALSE
  /\ DrainFrom(active, status)
  /\ UNCHANGED <<ready, perReplica>>

Next ==
  \/ \E t \in Turns : Acquire(t) \/ Timeout(t) \/ Release(t)
  \/ RouterRefresh
  \/ DrainAll

(* The event loop runs a pending continuation and a timer that is due.     *)
(* That a turn ends is the agent's doing, and nothing here relies on it.   *)
Fairness == WF_vars(DrainAll) /\ \A t \in Turns : WF_vars(Timeout(t))

Spec == Init /\ [][Next]_vars
FairSpec == Spec /\ Fairness

-----------------------------------------------------------------------------
(* Properties *)

TypeOK ==
  /\ status \in [Turns -> Status]
  /\ queue \in Seq(Turns)
  /\ Len(queue) <= MaxQueue
  /\ active \in Nat
  /\ ready \in 0..MaxReady
  /\ perReplica \in 0..MaxPerReplica
  /\ drainDue \in BOOLEAN

QueuedOnce == \A i, j \in 1..Len(queue) : queue[i] = queue[j] => i = j
QueueIsWaiting == \A t \in Turns : status[t] = "waiting" <=> \E i \in 1..Len(queue) : queue[i] = t

(* The books balance: the count that admission and the autoscaler read is  *)
(* the number of turns that hold a slot, whatever mix of grants, timeouts, *)
(* double releases and cap changes went before; the queue is exactly the   *)
(* turns still waiting, each once.  A leak here lowers the cap for ever, a *)
(* double decrement raises it.                                             *)
BooksBalance ==
  /\ active = Cardinality(Holding)
  /\ QueuedOnce
  /\ QueueIsWaiting

(* No turn waits while the workspace has room for it, except between a     *)
(* refresh that revealed the room and that refresh's own drainAll: neither *)
(* a release, nor a timeout, nor a replica that became ready strands the   *)
(* queue ("would wait for an unrelated turn to finish", turn-gate.ts:116). *)
NoIdleCapacity == (queue # <<>> /\ HasRoom(active)) => drainDue

(* A step that hands out a slot leaves the workspace within its cap.  The  *)
(* count may exceed the cap only because the cap shrank under turns that   *)
(* already ran, and then no release, drain or arrival admits another turn. *)
AdmissionWithinCap ==
  [][(\E t \in Turns : status[t] # "held" /\ status'[t] = "held")
       => (Sized => active' <= ready * perReplica)]_vars

(* Slots go out in order of arrival: a waiter is granted only when nobody  *)
(* ahead of it is left waiting, and an arrival passes waiting turns only   *)
(* in the window between a refresh and its drainAll.                       *)
FifoAdmission ==
  [][\A t \in Turns : (status[t] # "held" /\ status'[t] = "held") =>
       \/ \E j \in 1..Len(queue) :
             /\ queue[j] = t
             /\ \A i \in 1..(j - 1) : status'[queue[i]] # "waiting"
       \/ Asking(t) /\ (queue = <<>> \/ drainDue)]_vars

(* Every waiting turn is answered, with a slot or a refusal, even if no    *)
(* running turn ever ends: the bound in time the header promises.          *)
WaiterAnswered == \A t \in Turns : status[t] = "waiting" ~> status[t] # "waiting"
=============================================================================

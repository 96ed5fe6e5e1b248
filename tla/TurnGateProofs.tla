--------------------------- MODULE TurnGateProofs ---------------------------
(***************************************************************************)
(* Machine-checked proofs about TurnGate: the properties its TLC run       *)
(* checks on five turns hold for every set of turns, queue bound and cap.  *)
(***************************************************************************)
EXTENDS TurnGate, FiniteSetTheorems, SequenceTheorems, TLAPS

(* The inductive invariant: the typing, the books, work conservation.      *)
IInv == TypeOK /\ BooksBalance /\ NoIdleCapacity

-----------------------------------------------------------------------------
(* The loop of drain: it grants no more waiters than wait, stays within    *)
(* the cap when it grants any, and stops early only at the cap.            *)
LEMMA GrantCountBounds ==
  ASSUME NEW n \in Nat, queue \in Seq(Turns), ready \in Nat, perReplica \in Nat
  PROVE  /\ GrantCount(n) \in 0..Len(queue)
         /\ Sized /\ GrantCount(n) > 0 => n + GrantCount(n) <= ready * perReplica
         /\ GrantCount(n) < Len(queue) => ~HasRoom(n + GrantCount(n))
<1>1. DEFINE cap == ready * perReplica
<1>2. cap \in Nat
  OBVIOUS
<1>3. Len(queue) \in Nat
  OBVIOUS
<1>4. GrantCount(n) = IF ~Sized THEN Len(queue)
                      ELSE IF n >= cap THEN 0
                      ELSE IF cap - n <= Len(queue) THEN cap - n ELSE Len(queue)
  BY DEF GrantCount
<1>5. \A m : HasRoom(m) <=> (Sized => m < cap)
  BY DEF HasRoom
<1>6. Sized \in BOOLEAN
  BY DEF Sized
<1> HIDE DEF cap
<1>7. /\ GrantCount(n) \in 0..Len(queue)
      /\ Sized /\ GrantCount(n) > 0 => n + GrantCount(n) <= cap
      /\ GrantCount(n) < Len(queue) => ~HasRoom(n + GrantCount(n))
  BY <1>2, <1>3, <1>4, <1>5, <1>6
<1> QED
  BY <1>7 DEF cap

(* The first k places of a queue without repetitions hold k turns.         *)
LEMMA PrefixCardinality ==
  ASSUME queue \in Seq(Turns), QueuedOnce, NEW k \in 0..Len(queue)
  PROVE  /\ IsFiniteSet({queue[i] : i \in 1..k})
         /\ Cardinality({queue[i] : i \in 1..k}) = k
<1> DEFINE G == {queue[i] : i \in 1..k}
           f == [i \in 1..k |-> queue[i]]
<1>1. f \in Bijection(1..k, G)
  BY DEF Bijection, Injection, Surjection, IsInjective, QueuedOnce
<1>2. IsFiniteSet(1..k) /\ Cardinality(1..k) = k
  BY FS_Interval
<1> QED
  BY <1>1, <1>2, FS_Bijection DEF ExistsBijection

(* What a run of drain leaves behind, whatever the step did before it: the *)
(* statuses st with n slots taken, books balanced, go to a state with      *)
(* balanced books in which nobody waits while there is room.               *)
LEMMA DrainKeepsBooks ==
  ASSUME TypeOK, QueuedOnce,
         NEW n \in Nat, NEW st \in [Turns -> Status],
         n = Cardinality({t \in Turns : st[t] = "held"}),
         \A t \in Turns : st[t] = "waiting" <=> \E i \in 1..Len(queue) : queue[i] = t,
         DrainFrom(n, st)
  PROVE  /\ status' \in [Turns -> Status]
         /\ queue' \in Seq(Turns) /\ Len(queue') <= MaxQueue
         /\ active' \in Nat
         /\ BooksBalance'
         /\ queue' # <<>> => ~HasRoom(active')
<1> DEFINE k == GrantCount(n)
           G == {queue[i] : i \in 1..k}
           H == {t \in Turns : st[t] = "held"}
<1>1. queue \in Seq(Turns) /\ Len(queue) \in Nat /\ Len(queue) <= MaxQueue
  BY DEF TypeOK
<1>2. ready \in Nat /\ perReplica \in Nat /\ MaxQueue \in Nat
  BY TurnGateAssumption DEF TypeOK
<1>3. /\ k \in 0..Len(queue)
      /\ k < Len(queue) => ~HasRoom(n + k)
  BY <1>1, <1>2, GrantCountBounds
<1>4. /\ queue' = SubSeq(queue, k + 1, Len(queue))
      /\ active' = n + k
      /\ status' = [t \in Turns |-> IF \E i \in 1..k : queue[i] = t THEN "held" ELSE st[t]]
  BY DEF DrainFrom
<1> HIDE DEF k
<1>5. /\ queue' \in Seq(Turns)
      /\ Len(queue') = Len(queue) - k
      /\ \A i \in 1..(Len(queue) - k) : queue'[i] = queue[k + i]
  <2>1. \A i \in (k + 1)..Len(queue) : queue[i] \in Turns
    BY <1>1, <1>3
  <2> QED
    BY <1>1, <1>3, <1>4, <2>1, SubSeqProperties
<1>6. status' \in [Turns -> Status]
  BY <1>4 DEF Status
<1>7. QueuedOnce'
  <2> SUFFICES ASSUME NEW i \in 1..Len(queue'), NEW j \in 1..Len(queue'), queue'[i] = queue'[j]
               PROVE  i = j
    BY DEF QueuedOnce
  <2>1. /\ k + i \in 1..Len(queue) /\ queue'[i] = queue[k + i]
        /\ k + j \in 1..Len(queue) /\ queue'[j] = queue[k + j]
    BY <1>1, <1>3, <1>5
  <2>2. k + i = k + j
    BY <2>1 DEF QueuedOnce
  <2> QED
    BY <1>1, <1>3, <1>5, <2>2
<1>8. \A t \in Turns : status'[t] = "waiting" <=> \E i \in 1..Len(queue') : queue'[i] = t
  <2> TAKE t \in Turns
  <2>1. CASE \E i \in 1..k : queue[i] = t
    <3>1. status'[t] = "held"
      BY <1>4, <2>1
    <3>2. ~ \E i \in 1..Len(queue') : queue'[i] = t
      <4> SUFFICES ASSUME NEW i \in 1..Len(queue'), queue'[i] = t PROVE FALSE
        OBVIOUS
      <4>1. k + i \in 1..Len(queue) /\ queue[k + i] = t
        BY <1>1, <1>3, <1>5
      <4>2. PICK j \in 1..k : queue[j] = t
        BY <2>1
      <4>3. j \in 1..Len(queue) /\ j # k + i
        BY <1>1, <1>3, <1>5, <4>2
      <4> QED
        BY <4>1, <4>2, <4>3 DEF QueuedOnce
    <3> QED
      BY <3>1, <3>2
  <2>2. CASE ~ \E i \in 1..k : queue[i] = t
    <3>1. status'[t] = st[t]
      BY <1>4, <2>2
    <3>2. (\E i \in 1..Len(queue) : queue[i] = t) => \E i \in 1..Len(queue') : queue'[i] = t
      <4> SUFFICES ASSUME NEW i \in 1..Len(queue), queue[i] = t
                   PROVE  \E j \in 1..Len(queue') : queue'[j] = t
        OBVIOUS
      <4>1. i > k
        BY <1>3, <2>2
      <4>2. i - k \in 1..(Len(queue) - k) /\ queue'[i - k] = t
        BY <1>1, <1>3, <1>5, <4>1
      <4> QED
        BY <1>5, <4>2
    <3>3. (\E i \in 1..Len(queue') : queue'[i] = t) => \E i \in 1..Len(queue) : queue[i] = t
      BY <1>1, <1>3, <1>5
    <3> QED
      BY <3>1, <3>2, <3>3
  <2> QED
    BY <2>1, <2>2
<1>9. Cardinality(Holding') = n + k
  <2>1. IsFiniteSet(G) /\ Cardinality(G) = k
    BY <1>1, <1>3, PrefixCardinality
  <2>2. IsFiniteSet(H)
    BY TurnGateAssumption, FS_Subset
  <2>3. H \cap G = {}
    <3> SUFFICES ASSUME NEW i \in 1..k, st[queue[i]] = "held" PROVE FALSE
      OBVIOUS
    <3>1. i \in 1..Len(queue) /\ queue[i] \in Turns
      BY <1>1, <1>3
    <3> QED
      BY <3>1
  <2>4. G \subseteq Turns
    BY <1>1, <1>3
  <2>5. Holding' = H \cup G
    BY <1>4, <2>4 DEF Holding
  <2>6. Cardinality(H \cup G) = n + k
    <3>1. Cardinality(H) = n
      OBVIOUS
    <3> HIDE DEF H, G
    <3>2. Cardinality(H \cup G) = Cardinality(H) + Cardinality(G) - Cardinality(H \cap G)
      BY <2>1, <2>2, FS_Union
    <3>3. Cardinality(H \cap G) = 0
      BY <2>3, FS_EmptySet
    <3> QED
      BY <1>1, <1>3, <2>1, <3>1, <3>2, <3>3
  <2> QED
    BY <1>3, <2>5, <2>6
<1>10. queue' # <<>> => ~HasRoom(active')
  <2>1. queue' # <<>> => k < Len(queue)
    BY <1>1, <1>3, <1>5, EmptySeq
  <2> QED
    BY <1>3, <1>4, <2>1
<1>11. Len(queue') <= MaxQueue /\ active' \in Nat
  <2>1. k \in Nat /\ k <= Len(queue)
    BY <1>1, <1>3
  <2> QED
    BY <1>1, <1>2, <1>4, <1>5, <2>1
<1>12. BooksBalance'
  BY <1>4, <1>7, <1>8, <1>9 DEF BooksBalance, QueueIsWaiting
<1> QED
  BY <1>5, <1>6, <1>10, <1>11, <1>12

-----------------------------------------------------------------------------
LEMMA InitEstablishes == Init => IInv
<1> SUFFICES ASSUME Init PROVE IInv
  OBVIOUS
<1>1. TypeOK
  <2>1. queue \in Seq(Turns) /\ Len(queue) = 0
    BY EmptySeq DEF Init
  <2>2. status \in [Turns -> Status]
    BY DEF Init, Status
  <2>3. active \in Nat /\ ready \in 0..MaxReady /\ perReplica \in 0..MaxPerReplica
    BY TurnGateAssumption DEF Init
  <2>4. Len(queue) <= MaxQueue
    BY <2>1, TurnGateAssumption
  <2>5. drainDue \in BOOLEAN
    BY DEF Init
  <2> QED
    BY <2>1, <2>2, <2>3, <2>4, <2>5 DEF TypeOK
<1>2. BooksBalance
  <2>1. Holding = {}
    BY DEF Init, Holding
  <2>2. active = Cardinality(Holding)
    BY <2>1, FS_EmptySet DEF Init
  <2> QED
    BY <2>2 DEF Init, BooksBalance, QueuedOnce, QueueIsWaiting
<1>3. NoIdleCapacity
  BY DEF Init, NoIdleCapacity
<1> QED
  BY <1>1, <1>2, <1>3 DEF IInv

(* An arrival: a slot when there is room, else a refusal or a place at the *)
(* end of the queue.                                                       *)
LEMMA AcquireKeeps ==
  ASSUME IInv, NEW t \in Turns, Acquire(t)
  PROVE  IInv'
<1>1. /\ status \in [Turns -> Status] /\ queue \in Seq(Turns) /\ Len(queue) \in Nat
      /\ active \in Nat /\ Len(queue) <= MaxQueue
      /\ MaxQueue \in Nat
  BY TurnGateAssumption DEF IInv, TypeOK
<1>2. Asking(t) /\ UNCHANGED routerVars
  BY DEF Acquire
<1>3. IsFiniteSet(Holding) /\ t \notin Holding
  BY <1>2, TurnGateAssumption, FS_Subset DEF Holding, Asking
<1>4. ~ \E i \in 1..Len(queue) : queue[i] = t
  BY <1>2 DEF IInv, BooksBalance, QueueIsWaiting, Asking
<1>5. CASE HasRoom(active) /\ status' = [status EXCEPT ![t] = "held"] /\ active' = active + 1
           /\ UNCHANGED queue
  <2>1. Holding' = Holding \cup {t}
    BY <1>1, <1>5 DEF Holding
  <2>2. Cardinality(Holding') = active + 1
    BY <1>3, <2>1, FS_AddElement DEF IInv, BooksBalance
  <2>3. TypeOK'
    BY <1>1, <1>2, <1>5 DEF IInv, TypeOK, Status, routerVars
  <2>4. BooksBalance'
    BY <1>1, <1>2, <1>4, <1>5, <2>2 DEF IInv, BooksBalance, QueuedOnce, QueueIsWaiting
  <2>5. NoIdleCapacity'
    <3>1. queue # <<>> => drainDue
      BY <1>5 DEF IInv, NoIdleCapacity
    <3> QED
      BY <1>2, <1>5, <3>1 DEF NoIdleCapacity, routerVars
  <2> QED
    BY <2>3, <2>4, <2>5 DEF IInv
<1>6. CASE ~HasRoom(active) /\ Len(queue) >= MaxQueue
           /\ status' = [status EXCEPT ![t] = "over"] /\ UNCHANGED <<queue, active>>
  <2>1. Holding' = Holding
    BY <1>1, <1>2, <1>6 DEF Holding, Asking
  <2>2. TypeOK'
    BY <1>1, <1>2, <1>6 DEF IInv, TypeOK, Status, routerVars
  <2>3. BooksBalance'
    BY <1>1, <1>2, <1>4, <1>6, <2>1 DEF IInv, BooksBalance, QueuedOnce, QueueIsWaiting
  <2>4. NoIdleCapacity'
    BY <1>2, <1>6 DEF NoIdleCapacity, routerVars, HasRoom, Sized
  <2> QED
    BY <2>2, <2>3, <2>4 DEF IInv
<1>7. CASE ~HasRoom(active) /\ Len(queue) < MaxQueue
           /\ status' = [status EXCEPT ![t] = "waiting"] /\ queue' = Append(queue, t)
           /\ UNCHANGED active
  <2>1. Holding' = Holding
    BY <1>1, <1>2, <1>7 DEF Holding, Asking
  <2>2. /\ queue' \in Seq(Turns) /\ Len(queue') = Len(queue) + 1
        /\ \A i \in 1..Len(queue) : queue'[i] = queue[i]
        /\ queue'[Len(queue) + 1] = t
    BY <1>1, <1>7
  <2>3. TypeOK'
    BY <1>1, <1>2, <1>7, <2>2 DEF IInv, TypeOK, Status, routerVars
  <2>4. QueuedOnce'
    BY <1>1, <1>4, <2>2 DEF IInv, BooksBalance, QueuedOnce
  <2>5. QueueIsWaiting'
    <3> SUFFICES ASSUME NEW u \in Turns
                 PROVE  status'[u] = "waiting" <=> \E i \in 1..Len(queue') : queue'[i] = u
      BY DEF QueueIsWaiting
    <3>1. status[u] = "waiting" <=> \E i \in 1..Len(queue) : queue[i] = u
      BY DEF IInv, BooksBalance, QueueIsWaiting
    <3>2. CASE u = t
      BY <1>1, <1>7, <2>2, <3>2
    <3>3. CASE u # t
      <4>1. status'[u] = status[u]
        BY <1>1, <1>7, <3>3
      <4>2. (\E i \in 1..Len(queue') : queue'[i] = u) <=> \E i \in 1..Len(queue) : queue[i] = u
        BY <1>1, <2>2, <3>3
      <4> QED
        BY <3>1, <4>1, <4>2
    <3> QED
      BY <3>2, <3>3
  <2>6. BooksBalance'
    BY <1>7, <2>1, <2>4, <2>5 DEF IInv, BooksBalance
  <2>7. NoIdleCapacity'
    BY <1>2, <1>7 DEF NoIdleCapacity, routerVars, HasRoom, Sized
  <2> QED
    BY <2>3, <2>6, <2>7 DEF IInv
<1> QED
  BY <1>5, <1>6, <1>7 DEF Acquire

(* A timer: the waiter leaves from wherever in the queue it stands.        *)
LEMMA TimeoutKeeps ==
  ASSUME IInv, NEW t \in Turns, Timeout(t)
  PROVE  IInv'
<1>1. /\ status \in [Turns -> Status] /\ queue \in Seq(Turns) /\ Len(queue) \in Nat
      /\ active \in Nat /\ Len(queue) <= MaxQueue
      /\ MaxQueue \in Nat
  BY TurnGateAssumption DEF IInv, TypeOK
<1>2. PICK i \in 1..Len(queue) : queue[i] = t /\ queue' = RemoveAt(queue, i)
  BY DEF Timeout
<1>3. status' = [status EXCEPT ![t] = "over"] /\ UNCHANGED <<active, routerVars>>
  BY DEF Timeout
<1>4. /\ queue' \in Seq(Turns)
      /\ Len(queue') = Len(queue) - 1
      /\ \A j \in 1..(Len(queue) - 1) : queue'[j] = IF j < i THEN queue[j] ELSE queue[j + 1]
  <2> DEFINE a == SubSeq(queue, 1, i - 1)
             b == SubSeq(queue, i + 1, Len(queue))
  <2>0. \A j \in 1..Len(queue) : queue[j] \in Turns
    BY <1>1
  <2>1. /\ a \in Seq(Turns) /\ Len(a) = i - 1
        /\ \A j \in 1..(i - 1) : a[j] = queue[j]
    <3>1. \A j \in 1..(i - 1) : queue[j] \in Turns
      BY <1>1, <2>0
    <3> QED
      BY <1>1, <3>1, SubSeqProperties
  <2>2. /\ b \in Seq(Turns) /\ Len(b) = Len(queue) - i
        /\ \A j \in 1..(Len(queue) - i) : b[j] = queue[j + i]
    <3>1. \A j \in (i + 1)..Len(queue) : queue[j] \in Turns
      BY <1>1, <2>0
    <3> QED
      BY <1>1, <3>1, SubSeqProperties
  <2>3. queue' = a \o b
    BY <1>2 DEF RemoveAt
  <2> HIDE DEF a, b
  <2>4. /\ a \o b \in Seq(Turns)
        /\ Len(a \o b) = Len(a) + Len(b)
        /\ \A j \in 1..(Len(a) + Len(b)) : (a \o b)[j] = IF j <= Len(a) THEN a[j] ELSE b[j - Len(a)]
    BY <2>1, <2>2, ConcatProperties
  <2>5. \A j \in 1..(Len(queue) - 1) : (a \o b)[j] = IF j < i THEN queue[j] ELSE queue[j + 1]
    <3> SUFFICES ASSUME NEW j \in 1..(Len(queue) - 1)
                 PROVE  (a \o b)[j] = IF j < i THEN queue[j] ELSE queue[j + 1]
      OBVIOUS
    <3>1. CASE j < i
      BY <1>1, <2>1, <2>2, <2>4, <3>1
    <3>2. CASE ~(j < i)
      <4>1. j - (i - 1) \in 1..(Len(queue) - i) /\ (j - (i - 1)) + i = j + 1
        BY <1>1, <3>2
      <4>2. (a \o b)[j] = b[j - (i - 1)]
        BY <1>1, <2>1, <2>2, <2>4, <3>2
      <4> QED
        BY <2>2, <3>2, <4>1, <4>2
    <3> QED
      BY <3>1, <3>2
  <2> QED
    BY <1>1, <2>1, <2>2, <2>3, <2>4, <2>5
<1>5. status[t] = "waiting"
  BY <1>2 DEF IInv, BooksBalance, QueueIsWaiting
<1>6. Holding' = Holding
  BY <1>1, <1>3, <1>5 DEF Holding
<1>7. TypeOK'
  BY <1>1, <1>3, <1>4 DEF IInv, TypeOK, Status, routerVars
<1>8. QueuedOnce'
  BY <1>1, <1>4 DEF IInv, BooksBalance, QueuedOnce
<1>9. QueueIsWaiting'
  <2> SUFFICES ASSUME NEW u \in Turns
               PROVE  status'[u] = "waiting" <=> \E j \in 1..Len(queue') : queue'[j] = u
    BY DEF QueueIsWaiting
  <2>1. status[u] = "waiting" <=> \E j \in 1..Len(queue) : queue[j] = u
    BY DEF IInv, BooksBalance, QueueIsWaiting
  <2>2. CASE u = t
    <3>1. ~ \E j \in 1..Len(queue') : queue'[j] = u
      BY <1>1, <1>2, <1>4, <2>2 DEF IInv, BooksBalance, QueuedOnce
    <3> QED
      BY <1>1, <1>3, <2>2, <3>1
  <2>3. CASE u # t
    <3>1. status'[u] = status[u]
      BY <1>1, <1>3, <2>3
    <3>2. (\E j \in 1..Len(queue) : queue[j] = u) => \E j \in 1..Len(queue') : queue'[j] = u
      <4> SUFFICES ASSUME NEW j \in 1..Len(queue), queue[j] = u
                   PROVE  \E m \in 1..Len(queue') : queue'[m] = u
        OBVIOUS
      <4>1. j # i
        BY <1>2, <2>3
      <4>2. CASE j < i
        <5>1. j \in 1..(Len(queue) - 1) /\ queue'[j] = u
          BY <1>1, <1>4, <4>2
        <5> QED
          BY <1>4, <5>1
      <4>3. CASE j > i
        <5>1. j - 1 \in 1..(Len(queue) - 1) /\ queue'[j - 1] = queue[(j - 1) + 1]
          BY <1>1, <1>4, <4>3
        <5>2. queue'[j - 1] = u
          BY <5>1
        <5> QED
          BY <1>4, <5>1, <5>2
      <4> QED
        BY <4>1, <4>2, <4>3
    <3>3. (\E j \in 1..Len(queue') : queue'[j] = u) => \E j \in 1..Len(queue) : queue[j] = u
      BY <1>1, <1>4
    <3> QED
      BY <2>1, <3>1, <3>2, <3>3
  <2> QED
    BY <2>2, <2>3
<1>10. BooksBalance'
  BY <1>3, <1>6, <1>8, <1>9 DEF IInv, BooksBalance
<1>11. NoIdleCapacity'
  <2>1. queue # <<>>
    BY <1>1, <1>2, EmptySeq
  <2> QED
    BY <1>3, <2>1 DEF IInv, NoIdleCapacity, routerVars, HasRoom, Sized
<1> QED
  BY <1>7, <1>10, <1>11 DEF IInv

LEMMA ReleaseKeeps ==
  ASSUME IInv, NEW t \in Turns, Release(t)
  PROVE  IInv'
<1>1. CASE status[t] = "over"
  <2>1. UNCHANGED vars
    BY <1>1 DEF Release, gateVars, routerVars, vars
  <2> QED
    BY <2>1 DEF IInv, TypeOK, BooksBalance, QueuedOnce, QueueIsWaiting, Holding, NoIdleCapacity,
                HasRoom, Sized, vars
<1>2. CASE status[t] = "held"
  <2> DEFINE st == [status EXCEPT ![t] = "over"]
             H == {u \in Turns : st[u] = "held"}
  <2>1. DrainFrom(active - 1, st) /\ UNCHANGED routerVars
    BY <1>2 DEF Release
  <2>2. status \in [Turns -> Status] /\ active \in Nat
    BY DEF IInv, TypeOK
  <2>3. st \in [Turns -> Status]
    BY <2>2 DEF Status
  <2>4. active - 1 \in Nat /\ active - 1 = Cardinality(H)
    <3>1. IsFiniteSet(Holding) /\ t \in Holding /\ active = Cardinality(Holding)
      BY <1>2, TurnGateAssumption, FS_Subset DEF Holding, IInv, BooksBalance
    <3>2. H = Holding \ {t}
      BY <2>2 DEF Holding
    <3>3. Cardinality(H) = active - 1 /\ IsFiniteSet(H)
      BY <3>1, <3>2, FS_RemoveElement
    <3>4. Cardinality(H) \in Nat
      BY <3>3, FS_CardinalityType
    <3> QED
      BY <3>3, <3>4
  <2>5. \A u \in Turns : st[u] = "waiting" <=> \E i \in 1..Len(queue) : queue[i] = u
    BY <1>2, <2>2 DEF IInv, BooksBalance, QueueIsWaiting
  <2> HIDE DEF st
  <2>6. /\ status' \in [Turns -> Status]
        /\ queue' \in Seq(Turns) /\ Len(queue') <= MaxQueue
        /\ active' \in Nat
        /\ BooksBalance'
        /\ queue' # <<>> => ~HasRoom(active')
    BY <2>1, <2>3, <2>4, <2>5, DrainKeepsBooks DEF IInv, BooksBalance
  <2>7. TypeOK'
    BY <2>1, <2>6 DEF IInv, TypeOK, routerVars
  <2>8. NoIdleCapacity'
    BY <2>1, <2>6 DEF NoIdleCapacity, HasRoom, Sized, routerVars
  <2> QED
    BY <2>6, <2>7, <2>8 DEF IInv
<1> QED
  BY <1>1, <1>2 DEF Release

LEMMA RefreshKeeps ==
  ASSUME IInv, RouterRefresh
  PROVE  IInv'
<1>1. UNCHANGED gateVars /\ drainDue' = TRUE
  BY DEF RouterRefresh
<1>2. ready' \in 0..MaxReady /\ perReplica' \in 0..MaxPerReplica
  BY TurnGateAssumption DEF RouterRefresh
<1>3. TypeOK'
  BY <1>1, <1>2 DEF IInv, TypeOK, gateVars
<1>4. BooksBalance'
  BY <1>1 DEF IInv, BooksBalance, QueuedOnce, QueueIsWaiting, Holding, gateVars
<1> QED
  BY <1>1, <1>3, <1>4 DEF IInv, NoIdleCapacity

LEMMA DrainAllKeeps ==
  ASSUME IInv, DrainAll
  PROVE  IInv'
<1>1. DrainFrom(active, status) /\ drainDue' = FALSE /\ UNCHANGED <<ready, perReplica>>
  BY DEF DrainAll
<1>2. /\ status' \in [Turns -> Status]
      /\ queue' \in Seq(Turns) /\ Len(queue') <= MaxQueue
      /\ active' \in Nat
      /\ BooksBalance'
      /\ queue' # <<>> => ~HasRoom(active')
  BY <1>1, DrainKeepsBooks DEF IInv, TypeOK, BooksBalance, QueueIsWaiting, Holding
<1>3. TypeOK'
  BY <1>1, <1>2 DEF IInv, TypeOK
<1>4. NoIdleCapacity'
  BY <1>1, <1>2 DEF NoIdleCapacity, HasRoom, Sized
<1> QED
  BY <1>2, <1>3, <1>4 DEF IInv

LEMMA StepKeeps == IInv /\ [Next]_vars => IInv'
<1> SUFFICES ASSUME IInv, [Next]_vars PROVE IInv'
  OBVIOUS
<1>1. ASSUME NEW t \in Turns, Acquire(t) PROVE IInv'
  BY <1>1, AcquireKeeps
<1>2. ASSUME NEW t \in Turns, Timeout(t) PROVE IInv'
  BY <1>2, TimeoutKeeps
<1>3. ASSUME NEW t \in Turns, Release(t) PROVE IInv'
  BY <1>3, ReleaseKeeps
<1>4. CASE RouterRefresh
  BY <1>4, RefreshKeeps
<1>5. CASE DrainAll
  BY <1>5, DrainAllKeeps
<1>6. CASE UNCHANGED vars
  BY <1>6 DEF IInv, TypeOK, BooksBalance, QueuedOnce, QueueIsWaiting, Holding, NoIdleCapacity,
              HasRoom, Sized, vars
<1> QED
  BY <1>1, <1>2, <1>3, <1>4, <1>5, <1>6 DEF Next

THEOREM Invariance == Spec => []IInv
<1>1. IInv /\ [Next]_vars => IInv'
  BY StepKeeps
<1> QED
  BY InitEstablishes, <1>1, PTL DEF Spec

-----------------------------------------------------------------------------
(* Type correctness of the gate.                                           *)
THEOREM TypeCorrect == Spec => []TypeOK
<1>1. IInv => TypeOK
  BY DEF IInv
<1> QED
  BY Invariance, <1>1, PTL

(* The slot count is the number of turns holding a slot and the queue is   *)
(* exactly the waiting turns, after any run of turn-gate.ts.               *)
THEOREM BooksAlwaysBalance == Spec => []BooksBalance
<1>1. IInv => BooksBalance
  BY DEF IInv
<1> QED
  BY Invariance, <1>1, PTL

(* No release, timeout or refresh leaves a turn waiting beside free room.  *)
THEOREM WorkConserving == Spec => []NoIdleCapacity
<1>1. IInv => NoIdleCapacity
  BY DEF IInv
<1> QED
  BY Invariance, <1>1, PTL

-----------------------------------------------------------------------------
(* What a drain hands out: it grants at least one waiter only within the   *)
(* cap, and grants a waiter only together with everybody ahead of it.      *)
LEMMA DrainGrants ==
  ASSUME TypeOK, NEW n \in Nat, NEW st \in [Turns -> Status], DrainFrom(n, st),
         NEW t \in Turns, st[t] # "held", status'[t] = "held"
  PROVE  /\ Sized => active' <= ready * perReplica
         /\ \E j \in 1..Len(queue) :
               /\ queue[j] = t
               /\ \A i \in 1..(j - 1) : status'[queue[i]] = "held"
<1> DEFINE k == GrantCount(n)
<1>1. queue \in Seq(Turns) /\ Len(queue) \in Nat /\ ready \in Nat /\ perReplica \in Nat
  BY TurnGateAssumption DEF TypeOK
<1>2. k \in 0..Len(queue) /\ (Sized /\ k > 0 => n + k <= ready * perReplica)
  BY <1>1, GrantCountBounds
<1>3. /\ active' = n + k
      /\ status' = [u \in Turns |-> IF \E i \in 1..k : queue[i] = u THEN "held" ELSE st[u]]
  BY DEF DrainFrom
<1> HIDE DEF k
<1>4. PICK j \in 1..k : queue[j] = t
  BY <1>3
<1>5. \A i \in 1..(j - 1) : i \in 1..k /\ queue[i] \in Turns
  BY <1>1, <1>2, <1>4
<1>6. \A i \in 1..(j - 1) : status'[queue[i]] = "held"
  BY <1>3, <1>5
<1>7. k > 0 /\ j \in 1..Len(queue)
  BY <1>1, <1>2, <1>4
<1> QED
  BY <1>2, <1>3, <1>4, <1>6, <1>7

(* The step of either action property, by action.                          *)
LEMMA AdmissionStep ==
  ASSUME IInv, [Next]_vars,
         NEW t \in Turns, status[t] # "held", status'[t] = "held"
  PROVE  /\ Sized => active' <= ready * perReplica
         /\ \/ \E j \in 1..Len(queue) :
                  /\ queue[j] = t
                  /\ \A i \in 1..(j - 1) : status'[queue[i]] = "held"
            \/ Asking(t) /\ (queue = <<>> \/ drainDue)
<1>1. /\ status \in [Turns -> Status] /\ active \in Nat
      /\ ready \in Nat /\ perReplica \in Nat
  BY TurnGateAssumption DEF IInv, TypeOK
<1>2. ASSUME NEW u \in Turns, Acquire(u)
      PROVE  /\ Sized => active' <= ready * perReplica
             /\ Asking(t) /\ (queue = <<>> \/ drainDue)
  <2>1. u = t
    BY <1>1, <1>2 DEF Acquire
  <2>2. Asking(t) /\ HasRoom(active) /\ active' = active + 1
    BY <1>1, <1>2, <2>1 DEF Acquire
  <2>3. queue = <<>> \/ drainDue
    BY <2>2 DEF IInv, NoIdleCapacity
  <2>4. Sized => active < ready * perReplica
    BY <2>2 DEF HasRoom
  <2>5. ready * perReplica \in Nat
    BY <1>1
  <2> QED
    BY <1>1, <2>2, <2>3, <2>4, <2>5
<1>3. ASSUME NEW u \in Turns, Timeout(u) PROVE FALSE
  BY <1>1, <1>3 DEF Timeout
<1>4. ASSUME NEW u \in Turns, Release(u)
      PROVE  /\ Sized => active' <= ready * perReplica
             /\ \E j \in 1..Len(queue) :
                   /\ queue[j] = t
                   /\ \A i \in 1..(j - 1) : status'[queue[i]] = "held"
  <2> DEFINE st == [status EXCEPT ![u] = "over"]
  <2>1. DrainFrom(active - 1, st) /\ status[u] = "held"
    BY <1>4 DEF Release, gateVars
  <2>2. st \in [Turns -> Status] /\ st[t] # "held"
    BY <1>1 DEF Status
  <2>3. active - 1 \in Nat
    <3>1. IsFiniteSet(Holding) /\ u \in Holding
      BY <2>1, TurnGateAssumption, FS_Subset DEF Holding
    <3>2. active # 0
      BY <3>1, FS_EmptySet DEF IInv, BooksBalance
    <3> QED
      BY <1>1, <3>2
  <2> HIDE DEF st
  <2> QED
    BY <2>1, <2>2, <2>3, DrainGrants DEF IInv
<1>5. CASE RouterRefresh
  BY <1>5 DEF RouterRefresh, gateVars
<1>6. CASE DrainAll
  <2>1. DrainFrom(active, status)
    BY <1>6 DEF DrainAll
  <2> QED
    BY <1>1, <2>1, DrainGrants DEF IInv
<1>7. CASE UNCHANGED vars
  BY <1>7 DEF vars
<1> QED
  BY <1>2, <1>3, <1>4, <1>5, <1>6, <1>7 DEF Next

(* No step hands out a slot beyond the cap in force.                       *)
THEOREM AdmittedWithinCap == Spec => AdmissionWithinCap
<1>1. ASSUME IInv, [Next]_vars
      PROVE  (\E t \in Turns : status[t] # "held" /\ status'[t] = "held")
               => (Sized => active' <= ready * perReplica)
  BY <1>1, AdmissionStep
<1>2. IInv /\ [Next]_vars
        => [(\E t \in Turns : status[t] # "held" /\ status'[t] = "held")
               => (Sized => active' <= ready * perReplica)]_vars
  BY <1>1
<1> QED
  BY Invariance, <1>2, PTL DEF Spec, AdmissionWithinCap

(* Slots are granted in order of arrival.                                  *)
THEOREM AdmittedInOrder == Spec => FifoAdmission
<1> DEFINE InOrder ==
      \A t \in Turns : (status[t] # "held" /\ status'[t] = "held") =>
         \/ \E j \in 1..Len(queue) :
               /\ queue[j] = t
               /\ \A i \in 1..(j - 1) : status'[queue[i]] # "waiting"
         \/ Asking(t) /\ (queue = <<>> \/ drainDue)
<1>1. ASSUME IInv, [Next]_vars PROVE InOrder
  <2> SUFFICES ASSUME NEW t \in Turns, status[t] # "held", status'[t] = "held"
               PROVE  \/ \E j \in 1..Len(queue) :
                            /\ queue[j] = t
                            /\ \A i \in 1..(j - 1) : status'[queue[i]] # "waiting"
                      \/ Asking(t) /\ (queue = <<>> \/ drainDue)
    OBVIOUS
  <2>1. \/ \E j \in 1..Len(queue) :
              /\ queue[j] = t
              /\ \A i \in 1..(j - 1) : status'[queue[i]] = "held"
        \/ Asking(t) /\ (queue = <<>> \/ drainDue)
    BY <1>1, AdmissionStep
  <2> QED
    BY <2>1
<1>2. IInv /\ [Next]_vars => [InOrder]_vars
  BY <1>1
<1> QED
  BY Invariance, <1>2, PTL DEF Spec, FifoAdmission
=============================================================================

---------------------------- MODULE SessionLock ----------------------------
(***************************************************************************)
(* What a session's turn claim promises                                    *)
(* (control-plane/src/services/chat/session-turn.ts:9-20): the session has *)
(* at most one owner; a newcomer gets it only while it has none; an owner  *)
(* that still renews loses it only by giving it up, or to a replica that   *)
(* seizes it to recover the turn.  How the claim is stored, expires and is *)
(* renewed does not appear here.                                           *)
(***************************************************************************)
CONSTANTS Runs,  \* attempts to run a turn in the session
          None

VARIABLES owner,    \* who owns the session
          keeping,  \* the runs that keep renewing their claim
          seizing   \* the runs that recover a turn and may seize it

lockVars == <<owner, keeping, seizing>>

Init == owner = None /\ keeping = {} /\ seizing = {}

Acquire(r) ==
  /\ owner = None
  /\ r \notin keeping
  /\ owner' = r
  /\ keeping' = keeping \cup {r}
  /\ UNCHANGED seizing

Seize(r) ==
  /\ r \in seizing
  /\ owner' = r
  /\ keeping' = keeping \cup {r}
  /\ seizing' = seizing \ {r}

StartRecovery(r) ==
  /\ r \notin keeping
  /\ seizing' = seizing \cup {r}
  /\ UNCHANGED <<owner, keeping>>

(* r gives up, at the end of its turn or on seeing that it was displaced:  *)
(* the session becomes free only if r still owned it.                      *)
Release(r) ==
  /\ r \in keeping
  /\ keeping' = keeping \ {r}
  /\ owner' = IF owner = r THEN None ELSE owner
  /\ UNCHANGED seizing

(* The process of these runs is gone: they renew no more and free nothing. *)
Die(R) ==
  /\ keeping' = keeping \ R
  /\ seizing' = seizing \ R
  /\ UNCHANGED owner

Lapse ==
  /\ owner # None
  /\ owner \notin keeping
  /\ owner' = None
  /\ UNCHANGED <<keeping, seizing>>

Next ==
  \/ \E r \in Runs : Acquire(r) \/ Seize(r) \/ StartRecovery(r) \/ Release(r)
  \/ \E R \in SUBSET Runs : Die(R)
  \/ Lapse

Spec == Init /\ [][Next]_lockVars
=============================================================================

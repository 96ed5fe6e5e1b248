---------------------------- MODULE JobContract ----------------------------
(***************************************************************************)
(* What a job of the scheduler comes to (scheduler/src/index.ts,           *)
(* handler.ts, lost-job.ts): it is run at most once, its verdict is final, *)
(* and whoever waits for it is dealt with once: by its handler, which does *)
(* not end before it has answered, failed, been refused or found that      *)
(* there is nothing to say, or, if the job was lost, by the notice.  A     *)
(* word that was refused, and one there was not, reach nobody.  Of a job   *)
(* that an accident happened to more than one thing may be said.  Slots,   *)
(* locks, tasks and schedules do not appear here, nor where a handler      *)
(* stands.                                                                 *)
(***************************************************************************)
CONSTANT Jobs

VARIABLES state,   \* of each job's row
          serving, \* the jobs that a handler is at work on
          awaited, \* the jobs that somebody waits to hear of
          heard,   \* what was said of each job, or tried, or left unsaid
          mishaps  \* the jobs an accident happened to

jobVars == <<state, serving, awaited, heard, mishaps>>

Words == {"answer", "quiet", "error", "refused"}
Verdicts == {"completed", "failed"}

Init ==
  /\ state \in [Jobs -> {"absent", "created"}]
  /\ serving = {}
  /\ awaited \in SUBSET Jobs
  /\ heard = [j \in Jobs |-> {}]
  /\ mishaps = {}

Moves(j, from, to) ==
  /\ state[j] = from
  /\ state' = [state EXCEPT ![j] = to]

Send(j) == Moves(j, "absent", "created") /\ UNCHANGED <<serving, awaited, heard, mishaps>>

(* Only a job that waits in the queue can be called off, and none that     *)
(* somebody waits for.                                                     *)
Withdraw(j) ==
  /\ j \notin awaited
  /\ Moves(j, "created", "cancelled")
  /\ UNCHANGED <<serving, awaited, heard, mishaps>>

(* There is no way back to "created", so this is once in a job's life. *)
Begin(j) ==
  /\ Moves(j, "created", "active")
  /\ j \notin serving
  /\ serving' = serving \cup {j}
  /\ UNCHANGED <<awaited, heard, mishaps>>

Hears(j, w) ==
  /\ j \in awaited
  /\ heard[j] = {} \/ j \in mishaps'
  /\ heard' = [heard EXCEPT ![j] = @ \cup {w}]

(* The handler has its say, which may itself go wrong. *)
Speak(j) ==
  /\ j \in serving
  /\ mishaps' \in {mishaps, mishaps \cup {j}}
  /\ \E w \in Words : Hears(j, w)
  /\ UNCHANGED <<state, serving, awaited>>

(* The handler ends; its verdict counts unless the job was given up.       *)
Conclude(j, verdict) ==
  /\ j \in serving
  /\ j \in awaited => heard[j] # {}
  /\ serving' = serving \ {j}
  /\ state' = IF state[j] = "active" THEN [state EXCEPT ![j] = verdict] ELSE state
  /\ UNCHANGED <<awaited, heard, mishaps>>

(* A job is given up as lost: one that has no handler any more, or, by     *)
(* accident, one that has.                                                 *)
GiveUp(j) ==
  /\ Moves(j, "active", "failed")
  /\ mishaps' = IF j \in serving THEN mishaps \cup {j} ELSE mishaps
  /\ UNCHANGED <<serving, awaited, heard>>

(* Whoever waits is told that the job was lost. *)
Report(j) ==
  /\ state[j] = "failed"
  /\ j \notin serving \/ j \in mishaps
  /\ Hears(j, "lost")
  /\ UNCHANGED <<state, serving, awaited, mishaps>>

(* The process dies with its handlers. *)
Die(S) ==
  /\ serving' = {}
  /\ mishaps' = mishaps \cup S
  /\ UNCHANGED <<state, awaited, heard>>

Mishap(S) == mishaps' = mishaps \cup S /\ UNCHANGED <<state, serving, awaited, heard>>

Next ==
  \/ \E j \in Jobs :
       \/ Send(j) \/ Withdraw(j) \/ Begin(j) \/ Speak(j) \/ GiveUp(j) \/ Report(j)
       \/ \E verdict \in Verdicts : Conclude(j, verdict)
  \/ \E S \in SUBSET Jobs : Die(S) \/ Mishap(S)

Spec == Init /\ [][Next]_jobVars
=============================================================================

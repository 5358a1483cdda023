------------------------- MODULE ExclusiveExecution -------------------------
(***************************************************************************)
(* What a reservation of an external command promises: at most one worker  *)
(* runs it at a time, a success is never repeated, and a worker that is    *)
(* lost while it runs keeps the job reserved, because nobody can tell      *)
(* whether the command took effect.                                        *)
(***************************************************************************)
EXTENDS Naturals

CONSTANTS Jobs, Workers

VARIABLES
  phase,    \* "open", "held" or "done"
  inside,   \* the workers that run the job's command
  wins      \* the number of times the command succeeded

avars == <<phase, inside, wins>>

AInit ==
  /\ phase = [j \in Jobs |-> "open"]
  /\ inside = [j \in Jobs |-> {}]
  /\ wins = [j \in Jobs |-> 0]

\* A worker reserves an open job.
Acquire(w, j) ==
  /\ phase[j] = "open"
  /\ phase' = [phase EXCEPT ![j] = "held"]
  /\ inside' = [inside EXCEPT ![j] = {w}]
  /\ UNCHANGED wins

\* The command of the worker that holds the job succeeds.
Win(w, j) ==
  /\ inside[j] = {w}
  /\ wins[j] = 0
  /\ wins' = [wins EXCEPT ![j] = 1]
  /\ UNCHANGED <<phase, inside>>

\* The holder publishes the outcome: a failed command may be tried again.
Settle(w, j) ==
  /\ inside[j] = {w}
  /\ inside' = [inside EXCEPT ![j] = {}]
  /\ phase' = [phase EXCEPT ![j] = IF wins[j] = 1 THEN "done" ELSE "open"]
  /\ UNCHANGED wins

\* The holder is lost, or may not publish: the reservation stays.
Abandon(w, j) ==
  /\ inside[j] = {w}
  /\ inside' = [inside EXCEPT ![j] = {}]
  /\ UNCHANGED <<phase, wins>>

ANext ==
  \E w \in Workers, j \in Jobs :
    Acquire(w, j) \/ Win(w, j) \/ Settle(w, j) \/ Abandon(w, j)

ASpec == AInit /\ [][ANext]_avars
=============================================================================

----------------------------- MODULE TaskQueue -----------------------------
(***************************************************************************)
(* What a queue promises about each task, with no Redis keys in sight.  An *)
(* accepted task waits, is leased to one worker at a time, and comes back  *)
(* to waiting any number of times until the worker that holds it settles   *)
(* it, once and for all, as done or dead.  RedisQueue implements this: its *)
(* scheduled set and ready list are both "waiting", an inflight set is     *)
(* what its worker holds.                                                  *)
(***************************************************************************)
CONSTANTS
  Tasks,    \* task ids
  Workers,  \* worker names
  None      \* the holder of a task that nobody holds

VARIABLES
  phase,    \* where each task is in its life
  holder    \* the worker that holds each task, or None

abstractVars == <<phase, holder>>

Phases == {"absent", "waiting", "held", "done", "dead"}

\* The tasks of S move to phase p and nobody holds them any more.
MoveTo(S, p) == [t \in Tasks |-> IF t \in S THEN p ELSE phase[t]]
LetGo(S) == [t \in Tasks |-> IF t \in S THEN None ELSE holder[t]]
HeldBy(w) == {t \in Tasks : phase[t] = "held" /\ holder[t] = w}

\* A push is accepted.
Submit(t) ==
  /\ phase[t] = "absent"
  /\ phase' = MoveTo({t}, "waiting")
  /\ UNCHANGED holder

\* A worker fetches waiting tasks.
Lease(w, S) ==
  /\ \A t \in S : phase[t] = "waiting"
  /\ phase' = MoveTo(S, "held")
  /\ holder' = [t \in Tasks |-> IF t \in S THEN w ELSE holder[t]]

\* Tasks are given back by their holder, or taken from dead holders.
Return(S) ==
  /\ \A t \in S : phase[t] = "held"
  /\ phase' = MoveTo(S, "waiting")
  /\ holder' = LetGo(S)

\* A worker reports on tasks that it holds: finished, given up, to be retried.
Settle(w, finished, givenUp, retried) ==
  LET reported == finished \cup givenUp \cup retried IN
  /\ reported \subseteq HeldBy(w)
  /\ finished \cap givenUp = {} /\ retried \cap (finished \cup givenUp) = {}
  /\ phase' = [t \in Tasks |-> CASE t \in finished -> "done"
                                 [] t \in givenUp -> "dead"
                                 [] t \in retried -> "waiting"
                                 [] OTHER -> phase[t]]
  /\ holder' = LetGo(reported)

-----------------------------------------------------------------------------
Init ==
  /\ phase = [t \in Tasks |-> "absent"]
  /\ holder = [t \in Tasks |-> None]

Next ==
  \/ \E t \in Tasks : Submit(t)
  \/ \E w \in Workers, S \in SUBSET Tasks : Lease(w, S)
  \/ \E S \in SUBSET Tasks : Return(S)
  \/ \E w \in Workers, D, K, R \in SUBSET Tasks : Settle(w, D, K, R)

Spec == Init /\ [][Next]_abstractVars
=============================================================================

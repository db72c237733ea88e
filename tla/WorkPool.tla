-------------------------------- MODULE WorkPool --------------------------------
(***************************************************************************)
(* What an OperationQueue promises about concurrency, without its lists,     *)
(* locks, dependencies and priorities: jobs wait, run while there is room    *)
(* for them under the limit of the moment, and go.                           *)
(***************************************************************************)
EXTENDS Integers, FiniteSets

CONSTANTS
  Jobs,     \* what is run, each once
  MaxLimit  \* the largest limit

VARIABLES
  waiting,  \* the jobs that wait for a worker
  running,  \* the jobs that have one
  limit     \* how many may run

vars == <<waiting, running, limit>>

Init ==
  /\ waiting = {}
  /\ running = {}
  /\ limit = MaxLimit

Submit(S) ==
  /\ S \cap (waiting \cup running) = {}
  /\ waiting' = waiting \cup S
  /\ UNCHANGED <<running, limit>>

\* Only one job at a time gets a worker, and only within the limit; the limit may
\* have been lowered under jobs that were running already.
Begin(j) ==
  /\ j \in waiting
  /\ Cardinality(running) < limit
  /\ waiting' = waiting \ {j}
  /\ running' = running \cup {j}
  /\ UNCHANGED limit

End(j) ==
  /\ j \in running
  /\ running' = running \ {j}
  /\ UNCHANGED <<waiting, limit>>

SetLimit(n) ==
  /\ limit' = n
  /\ UNCHANGED <<waiting, running>>

Next ==
  \/ \E S \in SUBSET Jobs : Submit(S)
  \/ \E j \in Jobs : Begin(j) \/ End(j)
  \/ \E n \in 0..MaxLimit : SetLimit(n)

Spec == Init /\ [][Next]_vars
================================================================================

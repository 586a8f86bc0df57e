------------------------------ MODULE JobSlots ------------------------------
(***************************************************************************)
(* What the latch of an in-process job promises, whatever the way it is    *)
(* implemented: a job has MaxRunningCount slots, an execution of the job   *)
(* holds one from the moment it is admitted to the moment it is over, and  *)
(* an execution that finds no free slot does not run at all.               *)
(***************************************************************************)
EXTENDS Naturals, FiniteSets

CONSTANTS
  Executors,        \* the goroutines that may call Execute on the job
  MaxRunningCount   \* the number of executions allowed at a time

VARIABLE holders    \* the executors that are inside an admitted execution

Init == holders = {}

Admit(e) ==
  /\ e \notin holders
  /\ Cardinality(holders) < MaxRunningCount
  /\ holders' = holders \cup {e}

Leave(e) ==
  /\ e \in holders
  /\ holders' = holders \ {e}

Next == \E e \in Executors : Admit(e) \/ Leave(e)

Spec == Init /\ [][Next]_holders
=============================================================================

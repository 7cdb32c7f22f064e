----------------------------- MODULE Experiment -----------------------------
(***************************************************************************)
(* What main.rs and the benchmarks expect of an ExperimentDriver           *)
(* (experiment-lib/src/support.rs): after setup, each run() delivers       *)
(* `Messages` messages at the end of every lane, and returns only when the *)
(* last of them is there.                                                  *)
(***************************************************************************)
EXTENDS Naturals

CONSTANTS Lanes, Messages,
          Iterations  \* how many times run() is called

VARIABLES phase, iteration,
          delivered   \* messages delivered at the end of each lane, by all runs

vars == <<phase, iteration, delivered>>

Init == /\ phase = "setup"
        /\ iteration = 0
        /\ delivered = [l \in 1..Lanes |-> 0]

Setup == /\ phase = "setup"
         /\ phase' = "idle"
         /\ UNCHANGED <<iteration, delivered>>

Run == /\ phase = "idle"
       /\ iteration < Iterations
       /\ phase' = "running"
       /\ iteration' = iteration + 1
       /\ UNCHANGED delivered

Deliver(l) == /\ phase = "running"
              /\ delivered[l] < iteration * Messages
              /\ delivered' = [delivered EXCEPT ![l] = @ + 1]
              /\ UNCHANGED <<phase, iteration>>

Return == /\ phase = "running"
          /\ \A l \in 1..Lanes : delivered[l] = iteration * Messages
          /\ phase' = "idle"
          /\ UNCHANGED <<iteration, delivered>>

Teardown == /\ phase = "idle"
            /\ iteration = Iterations
            /\ phase' = "torndown"
            /\ UNCHANGED <<iteration, delivered>>

Next == Setup \/ Run \/ (\E l \in 1..Lanes : Deliver(l)) \/ Return \/ Teardown

Safety == Init /\ [][Next]_vars

\* Every call of the driver returns.
Spec == Safety /\ WF_vars(Next)
=============================================================================

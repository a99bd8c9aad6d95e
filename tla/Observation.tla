------------------------------ MODULE Observation ------------------------------
(***************************************************************************)
(* What the status of an object promises to those who wait on it: which    *)
(* generation of its spec the controller has judged.  Its                  *)
(* observedGeneration and the generation of its Ready condition are always *)
(* the same one, never one that is not there yet, and never an older one   *)
(* than before.  Nothing is said of the verdict.                           *)
(***************************************************************************)
EXTENDS Naturals

CONSTANT Names

VARIABLES
  generation,  \* metadata.generation, 0 for an object that is not there
  observed,    \* status.observedGeneration, 0 when there is none
  judged       \* the generation of the Ready condition, 0 when there is none

observation == <<generation, observed, judged>>

(* A controller that starts may find objects it judged in an earlier life. *)
ObservationInit ==
  /\ generation \in [Names -> Nat] /\ observed \in [Names -> Nat] /\ judged = observed
  /\ \A n \in Names : observed[n] <= generation[n]

(* The object is created, or its spec is edited.                           *)
Change(n) ==
  /\ generation' = [generation EXCEPT ![n] = @ + 1]
  /\ UNCHANGED <<observed, judged>>

(* The controller passes judgment on generation g.                         *)
Judge(n, g) ==
  /\ generation[n] > 0 /\ g > 0
  /\ observed' = [observed EXCEPT ![n] = g]
  /\ judged' = [judged EXCEPT ![n] = g]
  /\ UNCHANGED generation

ObservationNext ==
  \E n \in Names : Change(n) \/ \E g \in observed[n]..generation[n] : Judge(n, g)

ObservationSpec == ObservationInit /\ [][ObservationNext]_observation

(* The current generation is judged in the end.                            *)
CatchUp(n) == observed[n] # generation[n] /\ Judge(n, generation[n])

FairObservationSpec == ObservationSpec /\ \A n \in Names : WF_observation(CatchUp(n))
=============================================================================

------------------------------ MODULE MCDream -------------------------------
(***************************************************************************)
(* Small instances of DreamTraining for TLC, with the properties of        *)
(* PolicyLifecycle.  Ids are interchangeable, as in MCPolicy.              *)
(***************************************************************************)
EXTENDS DreamTraining, PolicyProperties, TLC

Symmetry == Permutations(Adapters) \cup Permutations(Runs) \cup Permutations(Leases)
=============================================================================

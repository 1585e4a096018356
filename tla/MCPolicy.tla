------------------------------ MODULE MCPolicy ------------------------------
(***************************************************************************)
(* Small instances of PolicyLifecycle for TLC.  Ids are interchangeable:   *)
(* no definition picks one of them or compares them by anything but        *)
(* equality, so the safety runs identify states up to renaming.            *)
(***************************************************************************)
EXTENDS PolicyProperties, TLC

Symmetry == Permutations(Adapters) \cup Permutations(Runs) \cup Permutations(Leases)
=============================================================================

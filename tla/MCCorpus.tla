------------------------------ MODULE MCCorpus ------------------------------
(***************************************************************************)
(* A small instance of CorpusPipeline for TLC: two threads, which are      *)
(* interchangeable, and two sessions of which a corpus takes the newer.    *)
(***************************************************************************)
EXTENDS CorpusPipeline, TLC

Symmetry == Permutations(Jobs)
=============================================================================

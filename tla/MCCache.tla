------------------------------- MODULE MCCache -------------------------------
(***************************************************************************)
(* A small instance of AdapterCache for TLC: three adapters, two of which  *)
(* may be loaded; ids are interchangeable.  Bounded are the number of      *)
(* lifecycle operations, the requests that wait for admission at a time,   *)
(* and the routes and requests that have no adapter, which only keep the   *)
(* gate busy; nothing that fails is.                                       *)
(***************************************************************************)
EXTENDS AdapterCache, TLC

CONSTANTS
  MaxOperations,
  MaxWaiting,
  MaxBare

VARIABLE operations   \* lifecycle operations begun

\* It starts with one adapter in service, and two to be trained.
MCInit ==
  /\ Init
  /\ registry.current # None
  /\ Cardinality(Known(registry)) = 1
  /\ operations = 0

Waiting == {r \in Requests : stage[r] = "waiting"}

Bare == {id \in RouteIds : pins[id] = None}
          \cup {r \in Requests : stage[r] # "out" /\ using[r].adapter = None}

MCNext ==
  /\ Next
  /\ operations' = IF life.step = "away" /\ life'.step # "away"
                   THEN operations + 1 ELSE operations
  /\ operations' <= MaxOperations
  /\ Cardinality(Waiting') <= MaxWaiting
  /\ Cardinality(Bare') <= MaxBare

MCSpec == MCInit /\ [][MCNext]_<<vars, operations>>

Symmetry == Permutations(Adapters) \cup Permutations(RouteIds)
              \cup Permutations(Requests)
=============================================================================

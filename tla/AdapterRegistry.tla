-------------------------- MODULE AdapterRegistry --------------------------
(***************************************************************************)
(* The adapter registry of clare2-policy (clare2/pipeline/app/registry.py) *)
(* as a value and the operations that rewrite it.  The document is one     *)
(* JSON file, rewritten as a whole under a process-wide lock and replaced  *)
(* atomically, so every operation is a function from a document to the     *)
(* next one; the guard says when the code raises RegistryError instead.    *)
(*                                                                         *)
(* An adapter absent from the "adapters" map has status "absent".  The     *)
(* states "training", "loaded" and "retired" of ADAPTER_STATES are never   *)
(* written by the service, nor is "loaded" put in any trainer's manifest.  *)
(***************************************************************************)
CONSTANTS
  Adapters,   \* immutable adapter ids (their directories exist on disk)
  None        \* JSON null

ASSUME NoneIsNotAnAdapter == None \notin Adapters

AdapterStates == {"candidate", "approved", "rejected", "failed"}

Documents ==
  [status   : [Adapters -> AdapterStates \cup {"absent"}],
   current  : Adapters \cup {None},
   rollback : Adapters \cup {None}]

Known(reg) == {a \in Adapters : reg.status[a] # "absent"}

\* validate_document: neither alias may name an adapter the map lacks.
ValidDocument(reg) ==
  {reg.current, reg.rollback} \subseteq Known(reg) \cup {None}

(***************************************************************************)
(* Mutations.                                                              *)
(***************************************************************************)
\* The candidate manifest the trainer wrote has status "candidate".
AddAdapter(reg, a) == [reg EXCEPT !.status[a] = "candidate"]

Transition(reg, a, s) == [reg EXCEPT !.status[a] = s]

TransitionAll(reg, A, s) ==
  [reg EXCEPT !.status = [a \in Adapters |-> IF a \in A THEN s ELSE @[a]]]

MayPromote(reg, a) == reg.status[a] = "candidate"

\* A bug the runs must detect: the displaced adapter stays the rollback target
\* though it is taken out of service.
PromoteRetiring(reg, a) ==
  [status   |-> [b \in Adapters |-> IF b = a THEN "approved"
                                    ELSE IF b = reg.current THEN "rejected"
                                    ELSE reg.status[b]],
   current  |-> a,
   rollback |-> reg.current]

\* The displaced adapter stays approved and becomes the rollback target.
Promote(reg, a) ==
  [status   |-> [b \in Adapters |-> IF b \in {a, reg.current}
                                    THEN "approved" ELSE reg.status[b]],
   current  |-> a,
   rollback |-> reg.current]

MayRollback(reg) == reg.rollback # None

\* The two aliases change places; the target's status is not looked at.
Rollback(reg) ==
  [reg EXCEPT !.current = reg.rollback, !.rollback = reg.current]

\* controller.ensure_loaded refuses every other status (unless the adapter is
\* already in the controller's cache).
Loadable(reg, a) == reg.status[a] \in {"approved", "candidate"}
=============================================================================

--------------------------- MODULE MaintenanceGate ---------------------------
(***************************************************************************)
(* What MaintenanceState promises the lifecycle (runtime.py:20-64): once   *)
(* the gate has been shut and has drained, nobody is behind it until it    *)
(* opens again.  LifecycleState uses the gate in exactly these steps.      *)
(***************************************************************************)
CONSTANT Requests

VARIABLES
  shut,    \* the gate
  inside,  \* the requests that passed it and have not come back
  lent     \* the drain has been reported to whoever shut the gate

gateVars == <<shut, inside, lent>>

Shut == ~shut /\ shut' = TRUE /\ UNCHANGED <<inside, lent>>

Drained == shut /\ inside = {} /\ lent' = TRUE /\ UNCHANGED <<shut, inside>>

Open == shut /\ shut' = FALSE /\ lent' = FALSE /\ UNCHANGED inside

Admit(r) ==
  /\ ~shut /\ r \notin inside
  /\ inside' = inside \cup {r}
  /\ UNCHANGED <<shut, lent>>

Finish(r) ==
  /\ r \in inside
  /\ inside' = inside \ {r}
  /\ UNCHANGED <<shut, lent>>

Init == ~shut /\ inside = {} /\ ~lent

Next == Shut \/ Drained \/ Open \/ \E r \in Requests : Admit(r) \/ Finish(r)

Spec == Init /\ [][Next]_gateVars
=============================================================================

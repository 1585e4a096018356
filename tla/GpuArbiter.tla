----------------------------- MODULE GpuArbiter -----------------------------
(***************************************************************************)
(* What the lifecycle of clare2-policy promises about the one memory that  *)
(* the GPU's tenants share (docstrings of _acquire_image_edit_lease_once   *)
(* and run_nightly_training; README, "Image editing" and "Training"): the  *)
(* inference server, the trainer and the holder of an image lease use it   *)
(* in turn.  A tenant moves in only when everybody else has moved out.     *)
(***************************************************************************)
CONSTANT Tenants

VARIABLE users  \* the tenants whose memory is allocated or promised

TypeOK == users \subseteq Tenants

Enter(t) ==
  /\ users = {}
  /\ users' = {t}

Exit(t) ==
  /\ t \in users
  /\ users' = users \ {t}

Init == \E t \in Tenants : users = {t}

Next == \E t \in Tenants : Enter(t) \/ Exit(t)

Spec == Init /\ [][Next]_users

\* Never two tenants at once.
Exclusive == \A t, u \in users : t = u
=============================================================================

---------------------------- MODULE MCIdleStop ----------------------------
(* Instances of IdleStop. *)
EXTENDS IdleStop
=============================================================================

---------------------------- MODULE MCBandwidth ----------------------------
(* Instances of Bandwidth. *)
EXTENDS Bandwidth

\* No cap, both directions, and a download alone at another rate.
SomeCaps == {NoCap, [up |-> 1, down |-> 1], [up |-> 0, down |-> 2]}
=============================================================================

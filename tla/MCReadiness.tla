---------------------------- MODULE MCReadiness ----------------------------
(* Instances of Readiness. *)
EXTENDS Readiness

P(kind, unset) == [kind |-> kind, unset |-> unset]

\* Every kind, with and without what may be left out.
EveryProbe ==
    {P("health", FALSE), P("running", FALSE)} \cup
    {P(kind, unset) : kind \in {"tcp", "http", "exec", "log"}, unset \in BOOLEAN}
=============================================================================

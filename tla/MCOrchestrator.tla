-------------------------- MODULE MCOrchestrator --------------------------
(***************************************************************************)
(* Instances of Orchestrator.  GraphPlans: every dependency graph on three *)
(* containers, cycles included, under two policies.  OutsidePlans: two     *)
(* containers that may wait for one outside the plan.  ShapePlans: the     *)
(* shapes a stage barrier matters for, on four containers, delays          *)
(* included.  OddPlans: plans PUT /plan refuses, and a repeated mention.   *)
(***************************************************************************)
EXTENDS Orchestrator

CONSTANTS a, b, c, d

\* A set of names as some sequence without repetition.
AsSeq(S) == CHOOSE s \in [1..Cardinality(S) -> S] : \A x \in S : \E i \in DOMAIN s : s[i] = x

N(name, after, policy, delayed) ==
    [name |-> name, after |-> AsSeq(after), policy |-> policy, delayed |-> delayed]

GraphPlans ==
    {<<N(a, x, p, FALSE), N(b, y, "abort", FALSE), N(c, z, "abort", FALSE)>> :
        x, y, z \in SUBSET {a, b, c}, p \in {"abort", "degrade"}}

ShapePlans ==
    {<<N(a, {}, p, TRUE), N(b, {a}, q, FALSE), N(c, {a}, "abort", FALSE), N(d, s, "continue", FALSE)>> :
        s \in {{b, c}, {b}, {a, c}}, p \in Policy, q \in Policy}
    \cup
    {<<N(d, {b}, "abort", FALSE), N(c, {}, "degrade", TRUE), N(b, {a}, p, FALSE), N(a, {}, p, FALSE)>> :
        p \in Policy}

OddPlans ==
    {<<>>,
     <<N(a, {}, "abort", FALSE), N(a, {b}, "abort", FALSE)>>,
     <<N(a, {NoName}, "abort", FALSE)>>,
     <<N(b, {}, "abort", TRUE), [N(a, {}, "abort", FALSE) EXCEPT !.after = <<b, c, b>>]>>}

OutsidePlans ==
    {<<N(a, x, p, FALSE), N(b, y, "abort", FALSE)>> :
        x, y \in SUBSET {a, b, c}, p \in Policy}

AllPlans == GraphPlans \cup OddPlans \cup OutsidePlans

EveryPlan == AllPlans \cup ShapePlans
=============================================================================

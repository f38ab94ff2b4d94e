----------------------------- MODULE StartPlan -----------------------------
(***************************************************************************)
(* What a run of a start plan promises, whatever the schedule: a container *)
(* is started only after everything it depends on came up, or failed under *)
(* a policy that tolerates it; a container behind an aborted one is never  *)
(* started; an outcome, once reported, stands; a halted run starts nothing *)
(* more.  There are no stages and no goroutines here.                      *)
(***************************************************************************)
VARIABLES
    deps,       \* the containers of the plan each container waits for
    outcome,    \* what is known of each container of the plan
    halted      \* the run was told to stop

vars == <<deps, outcome, halted>>

Members  == DOMAIN outcome
Tolerable == {"up", "tolerated"}
Final    == Tolerable \cup {"aborted", "skipped"}

Clear(n)  == \A d \in deps[n] : outcome[d] \in Tolerable
Behind(n) == \E d \in deps[n] : outcome[d] \in {"aborted", "skipped"}

Init ==
    /\ outcome = [n \in DOMAIN deps |-> "pending"]
    /\ halted = FALSE

Start(n) ==
    /\ ~halted
    /\ outcome[n] = "pending"
    /\ Clear(n)
    /\ outcome' = [outcome EXCEPT ![n] = "starting"]
    /\ UNCHANGED <<deps, halted>>

\* A start that was never sent, because the run was halted, counts as failed.
Settle(n) ==
    /\ \/ outcome[n] = "starting"
       \/ outcome[n] = "pending" /\ halted /\ Clear(n)
    /\ \E o \in Tolerable \cup {"aborted"} : outcome' = [outcome EXCEPT ![n] = o]
    /\ UNCHANGED <<deps, halted>>

Skip(S) ==
    /\ \A n \in S : outcome[n] = "pending" /\ (halted \/ Behind(n))
    /\ outcome' = [n \in Members |-> IF n \in S THEN "skipped" ELSE outcome[n]]
    /\ UNCHANGED <<deps, halted>>

Halt == halted' = TRUE /\ UNCHANGED <<deps, outcome>>

Next == \/ \E n \in Members : Start(n) \/ Settle(n)
        \/ \E S \in SUBSET Members : Skip(S)
        \/ Halt

Spec == Init /\ [][Next]_vars
=============================================================================

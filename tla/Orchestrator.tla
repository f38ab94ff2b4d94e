--------------------------- MODULE Orchestrator ---------------------------
(***************************************************************************)
(* Orchestrator.Run of internal/orchestrator: TopoStages layers the plan   *)
(* with Kahn's algorithm, then every stage starts its containers in        *)
(* parallel, one goroutine per node, and the next stage waits for all of   *)
(* them.  The request's context may be cancelled at any moment.            *)
(*                                                                         *)
(* A stage is kept as a set: the order inside a stage is output layout.    *)
(* Start and WaitReady belong to Docker and to the readiness checker; they *)
(* answer anything they can answer.                                        *)
(***************************************************************************)
EXTENDS Naturals, Sequences, FiniteSets

CONSTANTS
    Container,   \* the names a plan can mention
    NoName,      \* "", the Name of a zero model.Node
    Plans        \* the plans a run may be given

Policy == {"abort", "continue", "degrade"}

Node == [name : Container, after : Seq(Container \cup {NoName}),
         policy : Policy, delayed : BOOLEAN]

ASSUME NoNameAssumption == NoName \notin Container
ASSUME PlansAssumption  == Plans \subseteq Seq(Node)

VARIABLES
    plan,        \* the plan of this run
    cancelled,   \* ctx.Err() # nil
    pc,          \* where Run is
    indeg,       \* TopoStages: dependencies of a node not yet placed
    placed,      \* TopoStages: done
    stages,      \* TopoStages: the layers so far, each a set of names
    stageIdx,    \* the stage Run is at, from 1
    proc,        \* the goroutine of a stage entry
    result,      \* results, by Name
    blocked,     \* names that aborted the chain or were skipped for it
    started      \* names the Docker daemon was asked to start in this run

topoVars == <<indeg, placed, stages>>
runVars  == <<stageIdx, proc, result, blocked, started>>
vars     == <<plan, cancelled, pc, topoVars, runVars>>

-----------------------------------------------------------------------------
(* The plan *)

PlanNames == {plan[i].name : i \in DOMAIN plan}

ZeroNode == [name |-> NoName, after |-> <<>>, policy |-> "none", delayed |-> FALSE]

\* Built from the plan as given, so a name that only a dependency mentions maps
\* to the zero Node.
ByName(n) == IF n \in PlanNames
             THEN plan[CHOOSE i \in DOMAIN plan : plan[i].name = n]
             ELSE ZeroNode

After(n) == ByName(n).after
Deps(n)  == {After(n)[i] : i \in DOMAIN After(n)}

\* The implicit nodes withImplicitDeps appends: they depend on nothing.
Implicit == {d \in UNION {Deps(n) : n \in PlanNames} : d # NoName} \ PlanNames

AllNames == PlanNames \cup Implicit

Duplicate  == \E i, j \in DOMAIN plan : i # j /\ plan[i].name = plan[j].name
UnknownDep == \E i \in DOMAIN plan : \E k \in DOMAIN plan[i].after :
                 plan[i].after[k] = NoName

NoResult == [stage |-> 0, state |-> "none", reason |-> "none"]
States   == {"ready", "degraded", "failed", "skipped"}
Reasons  == {"ready", "blocked", "cancelled", "start failed", "timeout"}
Result   == [stage : Nat, state : States, reason : Reasons]

FailState(policy) == IF policy = "degrade" THEN "degraded" ELSE "failed"

-----------------------------------------------------------------------------
Init ==
    /\ plan \in Plans
    /\ cancelled = FALSE
    /\ pc = "check"
    /\ indeg = [n \in AllNames |-> 0]
    /\ placed = {}
    /\ stages = <<>>
    /\ stageIdx = 1
    /\ proc = [n \in AllNames |-> "idle"]
    /\ result = [n \in Container \cup {NoName} |-> NoResult]
    /\ blocked = {}
    /\ started = {}

-----------------------------------------------------------------------------
(* TopoStages *)

CheckPlan ==
    /\ pc = "check"
    /\ IF Duplicate \/ UnknownDep
       THEN pc' = "error" /\ UNCHANGED indeg
       ELSE pc' = "topo" /\ indeg' = [n \in AllNames |-> Len(After(n))]
    /\ UNCHANGED <<plan, cancelled, placed, stages, runVars>>

\* Mutants: done is not consulted; a placed dependency is taken off again; a
\* repeated mention counts once.
NextLayer_Again        == {n \in AllNames : indeg[n] = 0}
EdgesFrom_Twice(n, S)  == Cardinality({i \in DOMAIN After(n) : After(n)[i] \in placed \cup S})
EdgesFrom_AsSet(n, S)  == Cardinality(Deps(n) \cap S)

NextLayer == {n \in AllNames \ placed : indeg[n] = 0}

\* How many of n's dependency edges come from S: dependents[d] lists n once per
\* mention.
EdgesFrom(n, S) == Cardinality({i \in DOMAIN After(n) : After(n)[i] \in S})

PlaceLayer ==
    /\ pc = "topo"
    /\ NextLayer # {}
    /\ placed' = placed \cup NextLayer
    /\ indeg'  = [n \in AllNames |-> indeg[n] - EdgesFrom(n, NextLayer)]
    /\ stages' = Append(stages, NextLayer)
    /\ UNCHANGED <<plan, cancelled, pc, runVars>>

CycleError ==
    /\ pc = "topo"
    /\ placed # AllNames
    /\ NextLayer = {}
    /\ pc' = "error"
    /\ UNCHANGED <<plan, cancelled, topoVars, runVars>>

TopoDone ==
    /\ pc = "topo"
    /\ placed = AllNames
    /\ pc' = "stage"
    /\ UNCHANGED <<plan, cancelled, topoVars, runVars>>

-----------------------------------------------------------------------------
(* Run: the loop over the stages *)

Stage == stages[stageIdx]

Skipped(reason) == [stage |-> stageIdx, state |-> "skipped", reason |-> reason]

\* Mutants: blocked is not consulted; only the first dependency is looked up.
FirstBlocked_Never(n)   == FALSE
FirstBlocked_Head(n)    == After(n) # <<>> /\ After(n)[1] \in blocked

FirstBlocked(n) == Deps(n) \cap blocked # {}

\* Phase 1 decides the skips of the stage, phase 2 spawns the goroutines.
BeginStage ==
    /\ pc = "stage"
    /\ stageIdx <= Len(stages)
    /\ ~cancelled
    /\ LET skip == {n \in Stage : FirstBlocked(n)}
       IN /\ result'  = [m \in DOMAIN result |->
                           IF m \in skip THEN Skipped("blocked") ELSE result[m]]
          /\ blocked' = blocked \cup skip
          /\ proc'    = [m \in AllNames |->
                           IF m \in Stage \ skip
                           THEN IF ByName(m).delayed THEN "delay" ELSE "check"
                           ELSE proc[m]]
    /\ pc' = "gate"
    /\ UNCHANGED <<plan, cancelled, topoVars, stageIdx, started>>

\* Mutants: the sweep starts one stage late; it overwrites what is there.
Unrun_Later(m)     == result[m] = NoResult /\ \E k \in (stageIdx + 1)..Len(stages) : m \in stages[k]
Unrun_Overwrite(m) == \E k \in DOMAIN stages : m \in stages[k]

Unrun(m) == result[m] = NoResult /\ \E k \in stageIdx..Len(stages) : m \in stages[k]

\* A cancelled context at a stage boundary skips everything that has no result.
CancelRest ==
    /\ pc = "stage"
    /\ stageIdx <= Len(stages)
    /\ cancelled
    /\ result' = [m \in DOMAIN result |->
                    IF Unrun(m) THEN Skipped("cancelled") ELSE result[m]]
    /\ pc' = "done"
    /\ UNCHANGED <<plan, cancelled, topoVars, stageIdx, proc, blocked, started>>

\* Mutants: the first goroutine to end releases the stage; the stage waits for a
\* result under each of its names.
Joined_First == \E n \in Stage : proc[n] = "idle"
Joined_Named == \A n \in Stage : result[n] # NoResult

\* wg.Wait
Joined == \A n \in AllNames : proc[n] = "idle"

JoinStage ==
    /\ pc = "gate"
    /\ Joined
    /\ stageIdx' = stageIdx + 1
    /\ pc' = "stage"
    /\ UNCHANGED <<plan, cancelled, topoVars, proc, result, blocked, started>>

Return ==
    /\ pc = "stage"
    /\ stageIdx > Len(stages)
    /\ pc' = "done"
    /\ UNCHANGED <<plan, cancelled, topoVars, runVars>>

-----------------------------------------------------------------------------
(* runNode: the goroutine of stage entry n, which works on ByName(n) *)

GoTo(n, at) == proc' = [proc EXCEPT ![n] = at]

\* The goroutine stores its result and the abort under mu, and ends.
Finish(n, state, reason) ==
    LET node == ByName(n)
    IN /\ GoTo(n, "idle")
       /\ result' = [result EXCEPT ![node.name] =
                       [stage |-> stageIdx, state |-> state, reason |-> reason]]
       /\ blocked' = IF state = "failed" /\ node.policy = "abort"
                     THEN blocked \cup {node.name} ELSE blocked

Fail(n, reason) == Finish(n, FailState(ByName(n).policy), reason)

DelayDone(n) ==
    /\ proc[n] = "delay"
    /\ \/ GoTo(n, "check") /\ UNCHANGED <<result, blocked>>
       \/ cancelled /\ Finish(n, "skipped", "cancelled")
    /\ UNCHANGED started

CheckCtx(n) ==
    /\ proc[n] = "check"
    /\ \/ ~cancelled /\ GoTo(n, "start") /\ UNCHANGED <<result, blocked>>
       \/ cancelled /\ Finish(n, "skipped", "cancelled")
    /\ UNCHANGED started

\* A request under a cancelled context is not sent.
CallStart(n) ==
    /\ proc[n] = "start"
    /\ \/ /\ ~cancelled
          /\ started' = started \cup {ByName(n).name}
          /\ GoTo(n, "starting")
          /\ UNCHANGED <<result, blocked>>
       \/ cancelled /\ Fail(n, "cancelled") /\ UNCHANGED started

StartReturns(n) ==
    /\ proc[n] = "starting"
    /\ \/ GoTo(n, "waiting") /\ UNCHANGED <<result, blocked>>
       \/ Fail(n, "start failed")
       \/ cancelled /\ Fail(n, "cancelled")
    /\ UNCHANGED started

WaitReadyReturns(n) ==
    /\ proc[n] = "waiting"
    /\ \/ Finish(n, "ready", "ready")
       \/ Fail(n, "timeout")
       \/ cancelled /\ Fail(n, "cancelled")
    /\ UNCHANGED started

RunNode(n) ==
    /\ \/ DelayDone(n) \/ CheckCtx(n) \/ CallStart(n)
       \/ StartReturns(n) \/ WaitReadyReturns(n)
    /\ UNCHANGED <<plan, cancelled, pc, topoVars, stageIdx>>

-----------------------------------------------------------------------------
\* The client of POST /apply goes away, times out, or the daemon shuts down.
Cancel ==
    /\ ~cancelled
    /\ pc \notin {"done", "error"}
    /\ cancelled' = TRUE
    /\ UNCHANGED <<plan, pc, topoVars, runVars>>

Run == \/ CheckPlan \/ PlaceLayer \/ CycleError \/ TopoDone
       \/ BeginStage \/ CancelRest \/ JoinStage \/ Return

Next == Run \/ (\E n \in AllNames : RunNode(n)) \/ Cancel

\* The goroutines are scheduled by the Go runtime, Docker's HTTP client has a
\* timeout, time.After fires and WaitReady has a deadline: each of them goes on.
Fairness == WF_vars(Run) /\ \A n \in Container : WF_vars(n \in AllNames /\ RunNode(n))

Spec == Init /\ [][Next]_vars /\ Fairness

-----------------------------------------------------------------------------
(* Properties *)

TypeOK ==
    /\ plan \in Plans
    /\ cancelled \in BOOLEAN
    /\ pc \in {"check", "topo", "stage", "gate", "done", "error"}
    /\ indeg \in [AllNames -> Nat]
    /\ placed \subseteq AllNames
    /\ stages \in Seq(SUBSET AllNames)
    /\ stageIdx \in 1..(Len(stages) + 1)
    /\ proc \in [AllNames -> {"idle", "delay", "check", "start", "starting", "waiting"}]
    /\ result \in [Container \cup {NoName} -> Result \cup {NoResult}]
    /\ blocked \subseteq Container
    /\ started \subseteq Container \cup {NoName}

\* n and everything it waits for, directly or not: what every set that holds n
\* and is closed under Deps holds.
Ancestors(n) ==
    {d \in AllNames : \A S \in SUBSET AllNames :
        (n \in S /\ \A m \in S : Deps(m) \subseteq S) => d \in S}

CameThrough(d) == /\ d \in started
                  /\ d \notin blocked
                  /\ result[d].state \in {"ready", "degraded", "failed"}

\* A container is started only after every container of the plan it depends on,
\* directly or through others, was itself started and has a final result that
\* does not abort the chain: the gate Run builds from its stages, wg.Wait,
\* firstBlocked and the cancellation checks together.
DependencyGate ==
    \A n \in PlanNames \cap started :
        \A d \in (Ancestors(n) \cap PlanNames) \ {n} : CameThrough(d)

\* The stage barrier of wg.Wait: when a container is started, every container of
\* every earlier stage has its result, whether it depends on it or not.
StageBarrier ==
    \A k \in DOMAIN stages : \A n \in stages[k] \cap started :
        \A j \in 1..(k - 1) : \A m \in stages[j] \cap PlanNames : result[m] # NoResult

Aborted(d) == result[d].state = "failed" /\ ByName(d).policy = "abort"

\* When a run that was not cancelled returns, every node of the plan has a
\* result, and the skipped ones are exactly those with a failed "abort" node
\* among the nodes they wait for; all the others were started.
AbortHaltsItsChain ==
    (pc = "done" /\ ~cancelled) =>
        \A n \in PlanNames :
            LET behind == \E d \in (Ancestors(n) \cap PlanNames) \ {n} : Aborted(d)
            IN /\ result[n] # NoResult
               /\ (result[n].state = "skipped") <=> behind
               /\ (n \in started) <=> ~behind

\* Whatever happened, a returned run reports every node of the plan, and never
\* reports as skipped, or as ready, what it did, or did not, start.
ReportIsTruthful ==
    pc = "done" =>
        \A n \in PlanNames :
            /\ result[n] # NoResult
            /\ result[n].state = "skipped" => n \notin started
            /\ result[n].state \in {"ready", "degraded"} /\ ~cancelled => n \in started

Cyclic == \E S \in SUBSET AllNames : S # {} /\ \A n \in S : Deps(n) \cap S # {}

\* TopoStages rejects a plan exactly when a name is listed twice, a dependency is
\* the empty name, or the dependencies have a cycle.
RejectsExactlyBadPlans ==
    /\ pc = "error" => (Duplicate \/ UnknownDep \/ Cyclic)
    /\ pc = "stage" => ~(Duplicate \/ UnknownDep \/ Cyclic)

\* The layers are sound and as early as they can be: every dependency lies in an
\* earlier stage, one of them in the stage just before, and every name is in one
\* stage only.
LayersAreTight ==
    \A k \in DOMAIN stages :
        /\ \A n \in stages[k] :
              /\ \A d \in Deps(n) : \E j \in 1..(k - 1) : d \in stages[j]
              /\ k > 1 => Deps(n) \cap stages[k - 1] # {}
        /\ \A j \in 1..(k - 1) : stages[j] \cap stages[k] = {}

\* TopoStages as a whole: it rejects what it must, and what it accepts it layers right.
LayeringIsRight == RejectsExactlyBadPlans /\ LayersAreTight

\* A result of a node of the plan is written once: neither a later stage, nor the
\* sweep of a cancelled run, nor another goroutine replaces it.
ResultsAreFinal ==
    [][\A n \in PlanNames : result[n] # NoResult => result'[n] = result[n]]_vars

\* Every run returns: no stage waits for ever on a goroutine, and the Kahn loop
\* either places a layer or reports the cycle.
Terminates == <>(pc \in {"done", "error"})

\* README: "Dependencies on containers outside the plan just work - the engine
\* resolves them implicitly".  Read on the code: by the time a container is
\* started, each container outside the plan that it depends on was started too.
OutsideDepsStarted ==
    \A n \in PlanNames \cap started : Deps(n) \cap Implicit \subseteq started

-----------------------------------------------------------------------------
(* Refinement: the containers of the plan, and what their results say *)

Unreported(n) == IF n \in started THEN "starting" ELSE "pending"

Outcome(n) == IF result[n] = NoResult             THEN Unreported(n)
              ELSE IF result[n].state = "ready"   THEN "up"
              ELSE IF result[n].state = "skipped" THEN "skipped"
              ELSE IF n \in blocked               THEN "aborted"
              ELSE "tolerated"

Promise == INSTANCE StartPlan WITH
    deps    <- [n \in PlanNames |-> Deps(n) \cap PlanNames],
    outcome <- [n \in PlanNames |-> Outcome(n)],
    halted  <- cancelled

\* The staged, parallel run implements the promise of StartPlan.
KeepsThePromise == Promise!Spec
=============================================================================

------------------------ MODULE OrchestratorProofs ------------------------
(***************************************************************************)
(* Theorems about Orchestrator, for every set of containers and every set  *)
(* of plans.                                                               *)
(***************************************************************************)
EXTENDS Orchestrator, FiniteSetTheorems, TLAPS

-----------------------------------------------------------------------------
(* The inductive invariant, part by part *)

InRun == pc \in {"stage", "gate", "done"}

\* TopoStages returned no error for the plan: names are unique, none is unknown.
Checked == pc \in {"topo", "stage", "gate", "done"} => ~Duplicate /\ ~UnknownDep

\* Nothing runs before the plan is layered.
Untouched ==
    pc \in {"check", "topo", "error"} =>
        /\ stageIdx = 1
        /\ blocked = {} /\ started = {}
        /\ \A n \in AllNames : proc[n] = "idle"
        /\ \A n \in Container : result[n] = NoResult

\* The positions of n's dependencies that are not placed yet.
Open(n) == {i \in DOMAIN After(n) : After(n)[i] \notin placed}

Counters ==
    /\ pc = "check" => placed = {} /\ stages = <<>>
    /\ pc = "topo"  => \A n \in AllNames : indeg[n] = Cardinality(Open(n))

Layering ==
    /\ placed = UNION {stages[k] : k \in DOMAIN stages}
    /\ InRun => placed = AllNames
    /\ \A k \in DOMAIN stages : \A n \in stages[k] : \A d \in Deps(n) :
          \E j \in 1..(k - 1) : d \in stages[j]
    /\ \A k \in DOMAIN stages : \A j \in 1..(k - 1) : stages[j] \cap stages[k] = {}

\* What has been reported: everything before the current stage, nothing after it,
\* and at the gate what no goroutine works on any more.
Reported ==
    /\ pc = "gate" => stageIdx <= Len(stages)
    /\ InRun => \A k \in DOMAIN stages : \A n \in stages[k] \cap PlanNames :
          /\ k < stageIdx => result[n] # NoResult
          /\ pc = "stage" /\ k >= stageIdx => result[n] = NoResult /\ n \notin started
          /\ pc = "gate" /\ k > stageIdx => result[n] = NoResult /\ n \notin started
          /\ pc = "gate" /\ k = stageIdx => (proc[n] = "idle" <=> result[n] # NoResult)
          /\ pc = "done" => result[n] # NoResult
    /\ \A n \in AllNames : proc[n] # "idle" => pc = "gate" /\ n \in Stage

\* How results, blocked and started hang together for the nodes of the plan.
Ledger ==
    /\ blocked \subseteq PlanNames
    /\ started \subseteq PlanNames \cup {NoName}
    /\ \A n \in blocked : result[n].state \in {"failed", "skipped"}
    /\ \A n \in PlanNames :
          /\ result[n].state = "skipped" => n \notin started /\ (cancelled \/ n \in blocked)
          /\ result[n] # NoResult /\ ~cancelled /\ n \notin blocked => n \in started
          /\ proc[n] \in {"starting", "waiting"} => n \in started
          /\ proc[n] \in {"delay", "check", "start"} => n \notin started

\* Whoever is at work, or was started, has only dependencies that came through.
GateOpen(n) == \A d \in Deps(n) \cap PlanNames : CameThrough(d)

Gates == \A n \in PlanNames : n \in started \/ proc[n] # "idle" => GateOpen(n)

IInv == /\ TypeOK /\ Checked /\ Untouched /\ Counters
        /\ Layering /\ Reported /\ Ledger /\ Gates

-----------------------------------------------------------------------------
(* Facts about the plan *)

\* A node of the plan carries its own name; any other name maps to the zero node.
LEMMA NodeFacts ==
    ASSUME plan \in Seq(Node)
    PROVE  /\ PlanNames \subseteq Container
           /\ \A n \in PlanNames : ByName(n) \in Node /\ ByName(n).name = n
           /\ \A n : n \notin PlanNames => ByName(n) = ZeroNode /\ Deps(n) = {}
<1>1. \A i \in DOMAIN plan : plan[i] \in Node
  OBVIOUS
<1>2. PlanNames \subseteq Container
  BY <1>1 DEF PlanNames, Node
<1>3. ASSUME NEW n \in PlanNames
      PROVE  ByName(n) \in Node /\ ByName(n).name = n
  <2> DEFINE i == CHOOSE j \in DOMAIN plan : plan[j].name = n
  <2>1. i \in DOMAIN plan /\ plan[i].name = n
    BY DEF PlanNames
  <2>2. ByName(n) = plan[i]
    BY DEF ByName
  <2> QED BY <1>1, <2>1, <2>2
<1>4. ASSUME NEW n, n \notin PlanNames
      PROVE  ByName(n) = ZeroNode /\ Deps(n) = {}
  BY <1>4 DEF ByName, Deps, After, ZeroNode
<1> QED BY <1>2, <1>3, <1>4

\* Names of the plan and of implicit nodes are names of containers, and After is
\* a sequence.
LEMMA NameFacts ==
    ASSUME plan \in Seq(Node)
    PROVE  /\ PlanNames \subseteq AllNames
           /\ AllNames \subseteq Container
           /\ NoName \notin AllNames
           /\ \A n \in AllNames : After(n) \in Seq(Container \cup {NoName})
<1>1. ASSUME NEW n
      PROVE  After(n) \in Seq(Container \cup {NoName})
  <2>1. CASE n \in PlanNames
    <3>1. ByName(n) \in Node
      BY <2>1, NodeFacts
    <3> QED BY <3>1 DEF Node, After
  <2>2. CASE n \notin PlanNames
    <3>1. After(n) = <<>>
      BY <2>2, NodeFacts DEF After, ZeroNode
    <3> QED BY <3>1
  <2> QED BY <2>1, <2>2
<1>2. \A n \in PlanNames : Deps(n) \subseteq Container \cup {NoName}
  BY <1>1 DEF Deps
<1>3. Implicit \subseteq Container
  BY <1>2 DEF Implicit
<1> QED BY <1>1, <1>3, NodeFacts, NoNameAssumption DEF AllNames

\* In a plan TopoStages accepts, every dependency is a known name.
LEMMA DepsKnown ==
    ASSUME plan \in Seq(Node), ~UnknownDep, NEW n \in AllNames
    PROVE  Deps(n) \subseteq AllNames
<1>1. CASE n \notin PlanNames
  BY <1>1, NodeFacts
<1>2. CASE n \in PlanNames
  <2> SUFFICES ASSUME NEW d \in Deps(n) PROVE d \in AllNames
    OBVIOUS
  <2>1. \E j \in DOMAIN plan : plan[j].name = n /\ ByName(n) = plan[j]
    BY <1>2 DEF ByName, PlanNames
  <2>2. d # NoName
    BY <2>1 DEF UnknownDep, Deps, After
  <2> QED BY <1>2, <2>2 DEF AllNames, Implicit
<1> QED BY <1>1, <1>2

\* The plan never changes, nor does anything read off it.
LEMMA PlanFixed ==
    ASSUME plan' = plan
    PROVE  /\ PlanNames' = PlanNames
           /\ AllNames' = AllNames
           /\ \A n : ByName(n)' = ByName(n) /\ After(n)' = After(n) /\ Deps(n)' = Deps(n)
           /\ Duplicate' = Duplicate /\ UnknownDep' = UnknownDep
<1>1. PlanNames' = PlanNames
  BY DEF PlanNames
<1>2. \A n : ByName(n)' = ByName(n)
  BY <1>1 DEF ByName
<1>3. \A n : After(n)' = After(n) /\ Deps(n)' = Deps(n)
  BY <1>2 DEF After, Deps
<1>4. AllNames' = AllNames
  BY <1>1, <1>3 DEF AllNames, Implicit
<1> QED BY <1>1, <1>2, <1>3, <1>4 DEF Duplicate, UnknownDep

-----------------------------------------------------------------------------
(* The invariant holds at the start and is kept by every step *)

LEMMA TypedPlan == plan \in Plans => plan \in Seq(Node)
  BY PlansAssumption

LEMMA InitIInv == Init => IInv
<1> SUFFICES ASSUME Init PROVE IInv
  OBVIOUS
<1>1. plan \in Seq(Node)
  BY TypedPlan DEF Init
<1>2. PlanNames \subseteq Container /\ NoName \notin Container
  BY <1>1, NodeFacts, NoNameAssumption
<1>3. TypeOK
  <2>1. stages \in Seq(SUBSET AllNames) /\ stageIdx \in 1..(Len(stages) + 1)
    BY DEF Init
  <2>2. indeg \in [AllNames -> Nat]
    BY DEF Init
  <2>3. proc \in [AllNames -> {"idle", "delay", "check", "start", "starting", "waiting"}]
    BY DEF Init
  <2>4. result \in [Container \cup {NoName} -> Result \cup {NoResult}]
    BY DEF Init
  <2> QED BY <2>1, <2>2, <2>3, <2>4 DEF Init, TypeOK
<1>4. Checked /\ Untouched /\ Counters
  BY DEF Init, Checked, Untouched, Counters
<1>5. Layering
  BY DEF Init, Layering, InRun
<1>6. Reported
  BY DEF Init, Reported, InRun
<1>7. \A n \in PlanNames : result[n] = NoResult
  BY <1>2 DEF Init
<1>8. Ledger
  <2>1. \A n \in PlanNames : proc[n] = "idle" /\ result[n].state = "none"
    BY <1>1, <1>7, NameFacts DEF Init, NoResult
  <2> QED BY <1>7, <2>1 DEF Init, Ledger
<1>9. Gates
  BY <1>1, NameFacts DEF Init, Gates
<1> QED BY <1>3, <1>4, <1>5, <1>6, <1>8, <1>9 DEF IInv

\* CheckPlan: the counters start at the number of mentions, none is placed.
LEMMA CheckPlanStep == IInv /\ CheckPlan => IInv'
<1> SUFFICES ASSUME IInv, CheckPlan PROVE IInv'
  OBVIOUS
<1> USE DEF IInv
<1>0. plan \in Seq(Node)
  BY TypedPlan DEF TypeOK
<1>1. /\ PlanNames' = PlanNames /\ AllNames' = AllNames
      /\ \A n : ByName(n)' = ByName(n) /\ After(n)' = After(n) /\ Deps(n)' = Deps(n)
      /\ Duplicate' = Duplicate /\ UnknownDep' = UnknownDep
  BY PlanFixed DEF CheckPlan
<1>2. \A n \in AllNames : Len(After(n)) \in Nat
  BY <1>0, NameFacts
<1>3. TypeOK'
  BY <1>1, <1>2 DEF TypeOK, CheckPlan, runVars
<1>4. Checked' /\ Untouched'
  BY <1>1 DEF Checked, Untouched, CheckPlan, runVars
<1>5. placed = {} /\ stages = <<>>
  BY DEF CheckPlan, Counters
<1>6. Counters'
  <2> SUFFICES ASSUME pc' = "topo", NEW n \in AllNames
               PROVE  indeg'[n] = Cardinality(Open(n)')
    BY <1>1 DEF Counters, CheckPlan
  <2>1. Open(n)' = 1..Len(After(n))
    BY <1>0, <1>1, <1>5, NameFacts DEF Open, CheckPlan
  <2>2. Cardinality(1..Len(After(n))) = Len(After(n))
    BY <1>2, FS_Interval
  <2>3. indeg'[n] = Len(After(n))
    BY DEF CheckPlan
  <2> QED BY <2>1, <2>2, <2>3
<1>7. Layering' /\ Reported'
  BY <1>1, <1>5 DEF Layering, Reported, InRun, CheckPlan, runVars, Untouched
<1>8. Ledger'
  BY <1>1 DEF Ledger, CheckPlan, runVars
<1>9. Gates'
  BY <1>0, <1>1, NameFacts DEF Gates, Untouched, CheckPlan, runVars
<1> QED BY <1>3, <1>4, <1>6, <1>7, <1>8, <1>9

\* PlaceLayer: the counters of a layer's nodes are 0, so their dependencies are
\* all placed; taking the layer's edges off keeps the other counters exact.
LEMMA PlaceLayerStep == IInv /\ PlaceLayer => IInv'
<1> SUFFICES ASSUME IInv, PlaceLayer PROVE IInv'
  OBVIOUS
<1> USE DEF IInv
<1>0. plan \in Seq(Node)
  BY TypedPlan DEF TypeOK
<1>1. /\ PlanNames' = PlanNames /\ AllNames' = AllNames
      /\ \A n : ByName(n)' = ByName(n) /\ After(n)' = After(n) /\ Deps(n)' = Deps(n)
      /\ Duplicate' = Duplicate /\ UnknownDep' = UnknownDep
  BY PlanFixed DEF PlaceLayer
<1>2. /\ NextLayer \subseteq AllNames /\ NextLayer \cap placed = {}
      /\ pc = "topo" /\ pc' = "topo"
      /\ placed' = placed \cup NextLayer
      /\ stages' = Append(stages, NextLayer)
  BY DEF PlaceLayer, NextLayer
<1>3. ASSUME NEW n \in AllNames
      PROVE  /\ IsFiniteSet(DOMAIN After(n)) /\ DOMAIN After(n) = 1..Len(After(n))
             /\ IsFiniteSet(Open(n)) /\ IsFiniteSet(Open(n)')
             /\ EdgesFrom(n, NextLayer) \in Nat
             /\ Cardinality(Open(n)') = Cardinality(Open(n)) - EdgesFrom(n, NextLayer)
             /\ Cardinality(Open(n)') \in Nat
  <2>1. DOMAIN After(n) = 1..Len(After(n)) /\ Len(After(n)) \in Nat
    BY <1>0, NameFacts
  <2>2. IsFiniteSet(DOMAIN After(n))
    BY <2>1, FS_Interval
  <2> DEFINE hit == {i \in DOMAIN After(n) : After(n)[i] \in NextLayer}
  <2>3. Open(n)' = Open(n) \ hit /\ Open(n) \cap hit = hit
    BY <1>1, <1>2 DEF Open
  <2>4. IsFiniteSet(Open(n)) /\ IsFiniteSet(hit)
    BY <2>2, FS_Subset DEF Open
  <2>5. /\ IsFiniteSet(Open(n)')
        /\ Cardinality(Open(n)') = Cardinality(Open(n)) - Cardinality(hit)
    <3>1. /\ IsFiniteSet(Open(n) \ hit)
          /\ Cardinality(Open(n) \ hit) = Cardinality(Open(n)) - Cardinality(Open(n) \cap hit)
      BY <2>4, FS_Difference
    <3> QED BY <3>1, <2>3
  <2>6. EdgesFrom(n, NextLayer) = Cardinality(hit)
    BY DEF EdgesFrom
  <2>7. Cardinality(hit) \in Nat /\ Cardinality(Open(n)') \in Nat
    BY <2>4, <2>5, FS_CardinalityType
  <2> HIDE DEF hit
  <2> QED BY <2>1, <2>2, <2>4, <2>5, <2>6, <2>7
<1>4. \A n \in AllNames : indeg'[n] = Cardinality(Open(n)')
  BY <1>1, <1>2, <1>3 DEF PlaceLayer, Counters
<1>5. ASSUME NEW n \in NextLayer PROVE Deps(n) \subseteq placed
  <2>1. n \in AllNames /\ Cardinality(Open(n)) = 0
    BY <1>2 DEF NextLayer, Counters
  <2>2. Open(n) = {}
    BY <2>1, <1>3, FS_EmptySet
  <2> QED BY <2>2 DEF Open, Deps
<1>6. /\ Len(stages) \in Nat /\ Len(stages') = Len(stages) + 1
      /\ DOMAIN stages = 1..Len(stages) /\ DOMAIN stages' = 1..(Len(stages) + 1)
      /\ \A k \in DOMAIN stages : stages'[k] = stages[k]
      /\ stages'[Len(stages) + 1] = NextLayer
      /\ stages' \in Seq(SUBSET AllNames)
  BY <1>2 DEF TypeOK
<1>7. TypeOK'
  <2>1. indeg' \in [AllNames -> Nat]
    BY <1>3, <1>4 DEF PlaceLayer
  <2>2. stageIdx \in 1..(Len(stages') + 1)
    BY <1>6 DEF TypeOK
  <2> QED BY <1>1, <1>2, <1>6, <2>1, <2>2 DEF TypeOK, PlaceLayer, runVars
<1>8. Checked' /\ Untouched'
  BY <1>1, <1>2 DEF Checked, Untouched, PlaceLayer, runVars
<1>9. Counters'
  BY <1>1, <1>2, <1>4 DEF Counters
<1>10. Layering'
  <2>1. placed' = UNION {stages'[k] : k \in DOMAIN stages'}
    <3>1. ASSUME NEW x \in placed' PROVE \E k \in DOMAIN stages' : x \in stages'[k]
      BY <1>2, <1>6 DEF Layering
    <3>2. ASSUME NEW k \in DOMAIN stages', NEW x \in stages'[k] PROVE x \in placed'
      <4>1. CASE k = Len(stages) + 1
        BY <1>2, <1>6, <3>2, <4>1
      <4>2. CASE k \in DOMAIN stages
        BY <1>2, <1>6, <3>2, <4>2 DEF Layering
      <4> QED BY <4>1, <4>2, <1>6
    <3> QED BY <3>1, <3>2
  <2>2. ~InRun'
    BY <1>2 DEF InRun
  <2>3. ASSUME NEW k \in DOMAIN stages', NEW n \in stages'[k], NEW d \in Deps(n)
        PROVE  \E j \in 1..(k - 1) : d \in stages'[j]
    <3>1. CASE k \in DOMAIN stages
      <4>1. \E j \in 1..(k - 1) : d \in stages[j]
        BY <3>1, <1>6, <2>3 DEF Layering
      <4> QED BY <4>1, <3>1, <1>6
    <3>2. CASE k = Len(stages) + 1
      <4>1. d \in placed
        BY <1>5, <1>6, <3>2
      <4>2. PICK j \in DOMAIN stages : d \in stages[j]
        BY <4>1 DEF Layering
      <4> QED BY <4>2, <3>2, <1>6
    <3> QED BY <3>1, <3>2, <1>6
  <2>4. ASSUME NEW k \in DOMAIN stages', NEW j \in 1..(k - 1)
        PROVE  stages'[j] \cap stages'[k] = {}
    <3>1. CASE k \in DOMAIN stages
      BY <3>1, <1>6 DEF Layering
    <3>2. CASE k = Len(stages) + 1
      <4>1. j \in DOMAIN stages
        BY <3>2, <1>6
      <4>2. stages[j] \subseteq placed
        BY <4>1 DEF Layering
      <4> QED BY <4>1, <4>2, <3>2, <1>2, <1>6
    <3> QED BY <3>1, <3>2, <1>6
  <2> QED BY <1>1, <2>1, <2>2, <2>3, <2>4 DEF Layering
<1>11. Reported'
  BY <1>1, <1>2 DEF Reported, InRun, PlaceLayer, runVars, Untouched
<1>12. Ledger'
  BY <1>1 DEF Ledger, PlaceLayer, runVars
<1>13. Gates'
  BY <1>0, <1>1, <1>2, NameFacts DEF Gates, Untouched, PlaceLayer, runVars
<1> QED BY <1>7, <1>8, <1>9, <1>10, <1>11, <1>12, <1>13

\* The end of TopoStages: pc moves, nothing else does.
LEMMA TopoEndStep == IInv /\ (CycleError \/ TopoDone) => IInv'
<1> SUFFICES ASSUME IInv, CycleError \/ TopoDone PROVE IInv'
  OBVIOUS
<1> USE DEF IInv
<1>0. plan \in Seq(Node)
  BY TypedPlan DEF TypeOK
<1>1. /\ PlanNames' = PlanNames /\ AllNames' = AllNames
      /\ \A n : ByName(n)' = ByName(n) /\ After(n)' = After(n) /\ Deps(n)' = Deps(n)
      /\ Duplicate' = Duplicate /\ UnknownDep' = UnknownDep
  BY PlanFixed DEF CycleError, TopoDone
<1>2. /\ pc = "topo" /\ pc' \in {"error", "stage"}
      /\ pc' = "stage" => placed = AllNames
      /\ UNCHANGED <<plan, cancelled, topoVars, runVars>>
  BY DEF CycleError, TopoDone
<1>3. TypeOK'
  BY <1>1, <1>2 DEF TypeOK, topoVars, runVars
<1>4. Checked' /\ Untouched' /\ Counters'
  BY <1>1, <1>2 DEF Checked, Untouched, Counters, topoVars, runVars
<1>5. Layering'
  BY <1>1, <1>2 DEF Layering, InRun, topoVars
<1>6. stageIdx = 1 /\ started = {} /\ \A n \in AllNames : proc[n] = "idle"
  BY <1>2 DEF Untouched
<1>7. \A n \in PlanNames : result[n] = NoResult
  BY <1>0, <1>2, NodeFacts DEF Untouched
<1>8. Reported'
  <2>1. \A k \in DOMAIN stages : k >= 1
    BY DEF TypeOK
  <2>2. /\ stageIdx' = 1 /\ started' = {} /\ stages' = stages
        /\ \A n \in AllNames : proc'[n] = "idle"
        /\ \A n \in PlanNames : result'[n] = NoResult
    BY <1>2, <1>6, <1>7 DEF topoVars, runVars
  <2>3. \A k \in DOMAIN stages : ~(k < 1)
    BY <2>1 DEF TypeOK
  <2> QED BY <1>1, <1>2, <2>2, <2>3 DEF Reported, InRun
<1>9. Ledger'
  BY <1>1, <1>2 DEF Ledger, topoVars, runVars
<1>10. Gates'
  BY <1>0, <1>1, <1>2, <1>6, NameFacts DEF Gates, topoVars, runVars
<1> QED BY <1>3, <1>4, <1>5, <1>8, <1>9, <1>10

\* BeginStage: with no cancellation, a result that is not a blocked one belongs to
\* a node that was started and came through.
LEMMA BeginStageStep == IInv /\ BeginStage => IInv'
<1> SUFFICES ASSUME IInv, BeginStage PROVE IInv'
  OBVIOUS
<1> USE DEF IInv
<1>0. plan \in Seq(Node)
  BY TypedPlan DEF TypeOK
<1>1. /\ PlanNames' = PlanNames /\ AllNames' = AllNames
      /\ \A n : ByName(n)' = ByName(n) /\ After(n)' = After(n) /\ Deps(n)' = Deps(n)
      /\ Duplicate' = Duplicate /\ UnknownDep' = UnknownDep
  BY PlanFixed DEF BeginStage
<1> DEFINE skip == {n \in Stage : FirstBlocked(n)}
<1>2. /\ pc = "stage" /\ pc' = "gate" /\ ~cancelled /\ ~cancelled'
      /\ stageIdx \in DOMAIN stages /\ stageIdx' = stageIdx
      /\ stages' = stages /\ placed' = placed /\ indeg' = indeg /\ started' = started
      /\ Stage' = Stage
  BY DEF BeginStage, topoVars, TypeOK, Stage
<1>3. Stage \subseteq AllNames
  BY <1>2 DEF Stage, TypeOK
<1>4. skip \subseteq Stage \cap PlanNames
  BY <1>0, NodeFacts DEF FirstBlocked
<1>5. /\ \A m \in DOMAIN result : result'[m] =
              IF m \in skip THEN Skipped("blocked") ELSE result[m]
      /\ DOMAIN result' = DOMAIN result /\ DOMAIN result = Container \cup {NoName}
      /\ blocked' = blocked \cup skip
      /\ \A m \in AllNames : proc'[m] =
              IF m \in Stage \ skip
              THEN IF ByName(m).delayed THEN "delay" ELSE "check"
              ELSE proc[m]
  BY DEF BeginStage, TypeOK
<1>6. Skipped("blocked") \in Result /\ Skipped("blocked").state = "skipped"
      /\ Skipped("blocked") # NoResult
  <2>1. stageIdx \in Nat
    BY <1>2 DEF TypeOK
  <2> QED BY <2>1 DEF Skipped, Result, States, Reasons, NoResult
<1> HIDE DEF skip
<1>7. PlanNames \subseteq Container /\ PlanNames \subseteq AllNames
  BY <1>0, NodeFacts, NameFacts
<1>8. \A m \in AllNames : proc[m] = "idle"
  BY <1>2 DEF Reported
<1>9. \A n \in Stage \cap PlanNames : result[n] = NoResult /\ n \notin started /\ n \notin blocked
  <2>1. \A n \in Stage \cap PlanNames : result[n] = NoResult /\ n \notin started
    BY <1>2 DEF Reported, InRun, Stage, TypeOK
  <2>2. \A n \in blocked : result[n] # NoResult
    BY DEF Ledger, NoResult
  <2> QED BY <2>1, <2>2
<1>10. TypeOK'
  <2>1. result' \in [Container \cup {NoName} -> Result \cup {NoResult}]
    BY <1>5, <1>6 DEF BeginStage, TypeOK
  <2>2. proc' \in [AllNames -> {"idle", "delay", "check", "start", "starting", "waiting"}]
    BY <1>5, <1>8 DEF BeginStage
  <2>3. blocked' \subseteq Container
    BY <1>4, <1>5, <1>7 DEF TypeOK
  <2> QED BY <1>1, <1>2, <2>1, <2>2, <2>3 DEF TypeOK, BeginStage
<1>11. Checked' /\ Untouched' /\ Counters'
  BY <1>1, <1>2 DEF Checked, Untouched, Counters
<1>12. Layering'
  BY <1>1, <1>2 DEF Layering, InRun
<1>13. Reported'
  <2>1. stageIdx' <= Len(stages')
    BY <1>2 DEF BeginStage
  <2>2. ASSUME NEW k \in DOMAIN stages, NEW n \in stages[k] \cap PlanNames
        PROVE  /\ k < stageIdx => result'[n] # NoResult
               /\ k > stageIdx => result'[n] = NoResult /\ n \notin started
               /\ k = stageIdx => (proc'[n] = "idle" <=> result'[n] # NoResult)
    <3>1. CASE k < stageIdx
      <4>1. result[n] # NoResult
        BY <1>2, <3>1 DEF Reported, InRun
      <4> QED BY <1>5, <1>6, <1>7, <3>1, <4>1 DEF TypeOK
    <3>2. CASE k > stageIdx
      <4>1. result[n] = NoResult /\ n \notin started
        BY <1>2, <3>2 DEF Reported, InRun, TypeOK
      <4>2. stages[stageIdx] \cap stages[k] = {}
        BY <1>2, <3>2 DEF Layering, TypeOK
      <4>3. n \notin skip
        BY <1>4, <4>2 DEF Stage
      <4> QED BY <1>2, <1>5, <1>7, <3>2, <4>1, <4>3 DEF TypeOK
    <3>3. CASE k = stageIdx
      <4>1. n \in Stage /\ n \in AllNames
        BY <1>7, <3>3 DEF Stage
      <4> QED BY <1>2, <1>5, <1>6, <1>7, <1>8, <1>9, <3>3, <4>1 DEF TypeOK
    <3> QED BY <3>1, <3>2, <3>3, <1>2 DEF TypeOK
  <2>3. \A n \in AllNames : proc'[n] # "idle" => n \in Stage
    BY <1>5, <1>8
  <2> QED BY <1>1, <1>2, <2>1, <2>2, <2>3 DEF Reported
<1>14. Ledger'
  <2>1. blocked' \subseteq PlanNames
    BY <1>4, <1>5 DEF Ledger
  <2>2. \A n \in blocked' : result'[n].state \in {"failed", "skipped"}
    BY <1>4, <1>5, <1>6, <1>7 DEF Ledger
  <2>3. ASSUME NEW n \in PlanNames
        PROVE  /\ result'[n].state = "skipped" => n \notin started /\ n \in blocked'
               /\ result'[n] # NoResult /\ n \notin blocked' => n \in started
               /\ proc'[n] \notin {"starting", "waiting"}
               /\ proc'[n] \in {"delay", "check", "start"} => n \notin started
    <3>1. CASE n \in skip
      BY <3>1, <1>4, <1>5, <1>6, <1>7, <1>8, <1>9
    <3>2. CASE n \notin skip
      <4>1. result'[n] = result[n]
        BY <3>2, <1>5, <1>7
      <4>2. /\ result[n].state = "skipped" => n \notin started /\ n \in blocked
            /\ result[n] # NoResult /\ n \notin blocked => n \in started
        BY <1>2 DEF Ledger
      <4>3. proc'[n] \in {"idle", "delay", "check"} /\ (proc'[n] # "idle" => n \in Stage)
        BY <1>5, <1>7, <1>8
      <4> QED BY <4>1, <4>2, <4>3, <1>5, <1>9
    <3> QED BY <3>1, <3>2
  <2> QED BY <1>1, <1>2, <2>1, <2>2, <2>3 DEF Ledger
<1>15. Gates'
  <2>1. ASSUME NEW n \in PlanNames, n \in started \/ proc'[n] # "idle",
               NEW d \in Deps(n) \cap PlanNames
        PROVE  CameThrough(d)'
    <3>1. CASE n \in started
      <4>1. CameThrough(d) /\ result[d] # NoResult
        BY <3>1 DEF Gates, GateOpen, CameThrough, NoResult
      <4>2. d \notin skip
        BY <4>1, <1>4, <1>9
      <4> QED BY <4>1, <4>2, <1>2, <1>5, <1>7 DEF CameThrough
    <3>2. CASE n \notin started
      <4>1. n \in Stage /\ n \notin skip
        BY <2>1, <3>2, <1>5, <1>6, <1>7, <1>8, <1>4
      <4>2. d \notin blocked
        BY <4>1 DEF skip, FirstBlocked
      <4>3. PICK j \in 1..(stageIdx - 1) : d \in stages[j]
        BY <1>2, <4>1 DEF Layering, Stage
      <4>4. j \in DOMAIN stages /\ j < stageIdx
        BY <1>2, <4>3 DEF TypeOK
      <4>5. result[d] # NoResult
        BY <1>2, <4>3, <4>4 DEF Reported, InRun
      <4>6. d \in started /\ result[d].state # "skipped"
        BY <1>2, <4>2, <4>5 DEF Ledger
      <4>7. result[d] \in Result
        BY <1>7, <4>5 DEF TypeOK
      <4>8. result[d].state \in {"ready", "degraded", "failed"}
        BY <4>6, <4>7 DEF Result, States
      <4>9. d \notin skip
        BY <1>4, <1>9, <4>5
      <4> QED BY <1>2, <1>5, <1>7, <4>2, <4>6, <4>8, <4>9 DEF CameThrough
    <3> QED BY <3>1, <3>2
  <2> QED BY <1>1, <1>2, <2>1 DEF Gates, GateOpen
<1> QED BY <1>10, <1>11, <1>12, <1>13, <1>14, <1>15

\* CancelRest reports exactly the nodes without a result, and none was started.
LEMMA CancelRestStep == IInv /\ CancelRest => IInv'
<1> SUFFICES ASSUME IInv, CancelRest PROVE IInv'
  OBVIOUS
<1> USE DEF IInv
<1>0. plan \in Seq(Node)
  BY TypedPlan DEF TypeOK
<1>1. /\ PlanNames' = PlanNames /\ AllNames' = AllNames
      /\ \A n : ByName(n)' = ByName(n) /\ After(n)' = After(n) /\ Deps(n)' = Deps(n)
      /\ Duplicate' = Duplicate /\ UnknownDep' = UnknownDep
  BY PlanFixed DEF CancelRest
<1>2. /\ pc = "stage" /\ pc' = "done" /\ cancelled /\ cancelled'
      /\ stageIdx \in DOMAIN stages /\ stageIdx' = stageIdx
      /\ UNCHANGED <<plan, indeg, placed, stages, proc, blocked, started>>
      /\ \A m \in DOMAIN result : result'[m] =
              IF Unrun(m) THEN Skipped("cancelled") ELSE result[m]
      /\ DOMAIN result' = DOMAIN result /\ DOMAIN result = Container \cup {NoName}
  BY DEF CancelRest, topoVars, TypeOK
<1>3. Skipped("cancelled") \in Result /\ Skipped("cancelled").state = "skipped"
      /\ Skipped("cancelled") # NoResult
  <2>1. stageIdx \in Nat
    BY <1>2 DEF TypeOK
  <2> QED BY <2>1 DEF Skipped, Result, States, Reasons, NoResult
<1>4. PlanNames \subseteq Container /\ PlanNames \subseteq AllNames
  BY <1>0, NodeFacts, NameFacts
<1>5. \A m \in AllNames : proc[m] = "idle"
  BY <1>2 DEF Reported
<1>6. \A m : Unrun(m) => result[m] = NoResult
  BY DEF Unrun
<1>7. \A m \in PlanNames : Unrun(m) => m \notin started /\ m \notin blocked
  <2> SUFFICES ASSUME NEW m \in PlanNames, Unrun(m) PROVE m \notin started /\ m \notin blocked
    OBVIOUS
  <2>1. PICK k \in stageIdx..Len(stages) : m \in stages[k]
    BY DEF Unrun
  <2>2. k \in DOMAIN stages /\ k >= stageIdx
    BY <1>2 DEF TypeOK
  <2>3. m \notin started
    BY <1>2, <2>1, <2>2 DEF Reported, InRun
  <2>4. m \notin blocked
    BY <1>6 DEF Ledger, NoResult
  <2> QED BY <2>3, <2>4
<1>8. TypeOK'
  <2>1. result' \in [Container \cup {NoName} -> Result \cup {NoResult}]
    BY <1>2, <1>3 DEF CancelRest, TypeOK
  <2> QED BY <1>1, <1>2, <2>1 DEF TypeOK
<1>9. Checked' /\ Untouched' /\ Counters'
  BY <1>1, <1>2 DEF Checked, Untouched, Counters
<1>10. Layering'
  BY <1>1, <1>2 DEF Layering, InRun
<1>11. Reported'
  <2>1. ASSUME NEW k \in DOMAIN stages, NEW n \in stages[k] \cap PlanNames
        PROVE  result'[n] # NoResult
    <3>1. CASE k < stageIdx
      <4>1. result[n] # NoResult
        BY <1>2, <3>1 DEF Reported, InRun
      <4> QED BY <1>2, <1>3, <1>4, <4>1
    <3>2. CASE ~(k < stageIdx)
      <4>1. result[n] = NoResult => Unrun(n)
        BY <1>2, <3>2 DEF Unrun, TypeOK
      <4> QED BY <1>2, <1>3, <1>4, <4>1
    <3> QED BY <3>1, <3>2
  <2> QED BY <1>1, <1>2, <1>5, <2>1 DEF Reported
<1>12. Ledger'
  <2>1. \A n \in blocked : result'[n].state \in {"failed", "skipped"}
    BY <1>2, <1>4, <1>7 DEF Ledger
  <2>2. ASSUME NEW n \in PlanNames, result'[n].state = "skipped" PROVE n \notin started
    BY <1>2, <1>4, <1>7, <2>2 DEF Ledger
  <2> QED BY <1>1, <1>2, <1>4, <1>5, <2>1, <2>2 DEF Ledger
<1>13. Gates'
  <2>1. ASSUME NEW n \in PlanNames, n \in started \/ proc[n] # "idle",
               NEW d \in Deps(n) \cap PlanNames
        PROVE  CameThrough(d)'
    <3>1. CameThrough(d) /\ ~Unrun(d)
      BY <1>6, <2>1 DEF Gates, GateOpen, CameThrough, NoResult
    <3> QED BY <1>2, <1>4, <3>1 DEF CameThrough
  <2> QED BY <1>1, <1>2, <2>1 DEF Gates, GateOpen
<1> QED BY <1>8, <1>9, <1>10, <1>11, <1>12, <1>13

\* JoinStage: everybody idle means the current stage is reported.
LEMMA JoinStageStep == IInv /\ JoinStage => IInv'
<1> SUFFICES ASSUME IInv, JoinStage PROVE IInv'
  OBVIOUS
<1> USE DEF IInv
<1>0. plan \in Seq(Node)
  BY TypedPlan DEF TypeOK
<1>1. /\ PlanNames' = PlanNames /\ AllNames' = AllNames
      /\ \A n : ByName(n)' = ByName(n) /\ After(n)' = After(n) /\ Deps(n)' = Deps(n)
      /\ Duplicate' = Duplicate /\ UnknownDep' = UnknownDep
  BY PlanFixed DEF JoinStage
<1>2. /\ pc = "gate" /\ pc' = "stage" /\ stageIdx' = stageIdx + 1
      /\ \A n \in AllNames : proc[n] = "idle"
      /\ UNCHANGED <<plan, cancelled, indeg, placed, stages, proc, result, blocked, started>>
  BY DEF JoinStage, Joined, topoVars
<1>3. stageIdx \in DOMAIN stages /\ Len(stages) \in Nat /\ DOMAIN stages = 1..Len(stages)
  BY <1>2 DEF TypeOK, Reported
<1>4. TypeOK'
  <2>1. stageIdx' \in 1..(Len(stages) + 1)
    BY <1>2, <1>3
  <2> QED BY <1>1, <1>2, <2>1 DEF TypeOK
<1>5. Checked' /\ Untouched' /\ Counters'
  BY <1>1, <1>2 DEF Checked, Untouched, Counters
<1>6. Layering'
  BY <1>1, <1>2 DEF Layering, InRun
<1>7. Reported'
  <2>1. ASSUME NEW k \in DOMAIN stages, NEW n \in stages[k] \cap PlanNames
        PROVE  /\ k < stageIdx + 1 => result[n] # NoResult
               /\ k >= stageIdx + 1 => result[n] = NoResult /\ n \notin started
    <3>1. n \in AllNames
      BY <1>0, NameFacts
    <3>2. /\ k < stageIdx => result[n] # NoResult
          /\ k = stageIdx => result[n] # NoResult
          /\ k > stageIdx => result[n] = NoResult /\ n \notin started
      BY <1>2, <3>1 DEF Reported, InRun
    <3> QED BY <1>3, <3>2
  <2> QED BY <1>1, <1>2, <2>1 DEF Reported
<1>8. Ledger' /\ Gates'
  BY <1>1, <1>2 DEF Ledger, Gates, GateOpen, CameThrough
<1> QED BY <1>4, <1>5, <1>6, <1>7, <1>8

\* Return: past the last stage, every stage is reported.
LEMMA ReturnStep == IInv /\ Return => IInv'
<1> SUFFICES ASSUME IInv, Return PROVE IInv'
  OBVIOUS
<1> USE DEF IInv
<1>0. plan \in Seq(Node)
  BY TypedPlan DEF TypeOK
<1>1. /\ PlanNames' = PlanNames /\ AllNames' = AllNames
      /\ \A n : ByName(n)' = ByName(n) /\ After(n)' = After(n) /\ Deps(n)' = Deps(n)
      /\ Duplicate' = Duplicate /\ UnknownDep' = UnknownDep
  BY PlanFixed DEF Return
<1>2. /\ pc = "stage" /\ pc' = "done"
      /\ UNCHANGED <<plan, cancelled, topoVars, runVars>>
  BY DEF Return
<1>3. TypeOK'
  BY <1>1, <1>2 DEF TypeOK, topoVars, runVars
<1>4. Checked' /\ Untouched' /\ Counters' /\ Layering'
  BY <1>1, <1>2 DEF Checked, Untouched, Counters, Layering, InRun, topoVars, runVars
<1>5. \A k \in DOMAIN stages : k < stageIdx
  BY DEF Return, TypeOK
<1>6. Reported'
  BY <1>1, <1>2, <1>5 DEF Reported, InRun, topoVars, runVars
<1>7. Ledger' /\ Gates'
  BY <1>1, <1>2 DEF Ledger, Gates, GateOpen, CameThrough, topoVars, runVars
<1> QED BY <1>3, <1>4, <1>6, <1>7

\* Cancel only raises the flag.
LEMMA CancelStep == IInv /\ Cancel => IInv'
<1> SUFFICES ASSUME IInv, Cancel PROVE IInv'
  OBVIOUS
<1> USE DEF IInv
<1>1. /\ PlanNames' = PlanNames /\ AllNames' = AllNames
      /\ \A n : ByName(n)' = ByName(n) /\ After(n)' = After(n) /\ Deps(n)' = Deps(n)
      /\ Duplicate' = Duplicate /\ UnknownDep' = UnknownDep
  BY PlanFixed DEF Cancel
<1>2. cancelled' = TRUE /\ UNCHANGED <<plan, pc, topoVars, runVars>>
  BY DEF Cancel
<1>3. TypeOK'
  BY <1>1, <1>2 DEF TypeOK, topoVars, runVars
<1>4. Checked' /\ Untouched' /\ Counters' /\ Layering'
  BY <1>1, <1>2 DEF Checked, Untouched, Counters, Layering, InRun, Open, topoVars, runVars
<1>5. Reported'
  BY <1>1, <1>2 DEF Reported, InRun, Stage, topoVars, runVars
<1>6. Ledger' /\ Gates'
  BY <1>1, <1>2 DEF Ledger, Gates, GateOpen, CameThrough, topoVars, runVars
<1> QED BY <1>3, <1>4, <1>5, <1>6

-----------------------------------------------------------------------------
(* The goroutines: a step of one moves it on or ends it *)

Moves(n) ==
    /\ result' = result /\ blocked' = blocked
    /\ \E at \in {"check", "start", "starting", "waiting"} :
          /\ proc' = [proc EXCEPT ![n] = at]
          /\ at \in {"check", "start"} => proc[n] \in {"delay", "check"}
          /\ at = "starting" => proc[n] = "start" /\ ~cancelled
          /\ at = "waiting"  => proc[n] = "starting"
          /\ started' = IF at = "starting" THEN started \cup {ByName(n).name} ELSE started

EndsAs(n, state, reason) ==
    /\ started' = started
    /\ Finish(n, state, reason)
    /\ proc[n] # "idle"
    /\ state = "skipped" => cancelled /\ proc[n] \in {"delay", "check"}
    /\ state # "skipped" => cancelled \/ proc[n] \in {"starting", "waiting"}

Ends(n) == \E state \in States, reason \in Reasons : EndsAs(n, state, reason)

LEMMA NodeStep ==
    ASSUME NEW n \in AllNames, RunNode(n)
    PROVE  Moves(n) \/ Ends(n)
<1>1. CASE DelayDone(n)
  BY <1>1 DEF DelayDone, GoTo, Moves, Ends, EndsAs, States, Reasons
<1>2. CASE CheckCtx(n)
  BY <1>2 DEF CheckCtx, GoTo, Moves, Ends, EndsAs, States, Reasons
<1>3. CASE CallStart(n)
  <2>1. CASE cancelled /\ Fail(n, "cancelled") /\ UNCHANGED started
    BY <1>3, <2>1 DEF CallStart, Fail, FailState, Ends, EndsAs, States, Reasons
  <2>2. CASE ~(cancelled /\ Fail(n, "cancelled") /\ UNCHANGED started)
    BY <1>3, <2>2 DEF CallStart, GoTo, Moves
  <2> QED BY <2>1, <2>2
<1>4. CASE StartReturns(n)
  BY <1>4 DEF StartReturns, GoTo, Fail, FailState, Moves, Ends, EndsAs, States, Reasons
<1>5. CASE WaitReadyReturns(n)
  BY <1>5 DEF WaitReadyReturns, Fail, FailState, Ends, EndsAs, States, Reasons
<1> QED BY <1>1, <1>2, <1>3, <1>4, <1>5 DEF RunNode

\* What a goroutine knows while it works.
LEMMA AtWork ==
    ASSUME IInv, NEW n \in AllNames, proc[n] # "idle"
    PROVE  /\ pc = "gate" /\ stageIdx \in DOMAIN stages /\ n \in Stage
           /\ n \in PlanNames => /\ ByName(n).name = n /\ ByName(n) \in Node
                                 /\ result[n] = NoResult /\ n \notin blocked
                                 /\ GateOpen(n)
           /\ n \notin PlanNames => ByName(n).name = NoName /\ ByName(n).policy = "none"
<1> USE DEF IInv
<1>1. plan \in Seq(Node)
  BY TypedPlan DEF TypeOK
<1>2. pc = "gate" /\ stageIdx \in DOMAIN stages /\ n \in Stage
  BY DEF Reported, TypeOK
<1>3. n \notin PlanNames => ByName(n).name = NoName /\ ByName(n).policy = "none"
  BY <1>1, NodeFacts DEF ZeroNode
<1>4. ASSUME n \in PlanNames
      PROVE  result[n] = NoResult /\ n \notin blocked /\ GateOpen(n)
  <2>1. result[n] = NoResult
    BY <1>2, <1>4 DEF Reported, InRun, Stage, TypeOK
  <2>2. n \notin blocked
    BY <2>1 DEF Ledger, NoResult
  <2> QED BY <2>1, <2>2, <1>4 DEF Gates
<1> QED BY <1>1, <1>2, <1>3, <1>4, NodeFacts

LEMMA MoveStep ==
    ASSUME IInv, NEW n \in AllNames, proc[n] # "idle", Moves(n),
           UNCHANGED <<plan, cancelled, pc, topoVars, stageIdx>>
    PROVE  IInv'
<1> USE DEF IInv
<1>0. plan \in Seq(Node)
  BY TypedPlan DEF TypeOK
<1>1. /\ PlanNames' = PlanNames /\ AllNames' = AllNames
      /\ \A m : ByName(m)' = ByName(m) /\ After(m)' = After(m) /\ Deps(m)' = Deps(m)
      /\ Duplicate' = Duplicate /\ UnknownDep' = UnknownDep
  BY PlanFixed
<1>2. /\ pc = "gate" /\ pc' = "gate" /\ stageIdx \in DOMAIN stages /\ n \in Stage
      /\ n \in PlanNames => ByName(n).name = n /\ result[n] = NoResult /\ GateOpen(n)
      /\ n \notin PlanNames => ByName(n).name = NoName
  BY AtWork
<1>3. /\ PlanNames \subseteq AllNames /\ AllNames \subseteq Container
      /\ NoName \notin PlanNames
  BY <1>0, NameFacts
<1>4. PICK at \in {"check", "start", "starting", "waiting"} :
          /\ proc' = [proc EXCEPT ![n] = at]
          /\ at \in {"check", "start"} => proc[n] \in {"delay", "check"}
          /\ at = "starting" => proc[n] = "start" /\ ~cancelled
          /\ at = "waiting"  => proc[n] = "starting"
          /\ started' = IF at = "starting" THEN started \cup {ByName(n).name} ELSE started
  BY DEF Moves
<1>5. /\ UNCHANGED <<plan, cancelled, indeg, placed, stages, stageIdx, result, blocked>>
      /\ Stage' = Stage
  BY DEF topoVars, Moves, Stage
<1>6. \A m \in AllNames : proc'[m] = IF m = n THEN at ELSE proc[m]
  BY <1>4 DEF TypeOK
<1>7. started \subseteq started' /\ \A m \in PlanNames : m \in started' => m \in started \/ m = n
  BY <1>2, <1>3, <1>4
<1>8. TypeOK'
  <2>1. proc' \in [AllNames -> {"idle", "delay", "check", "start", "starting", "waiting"}]
    BY <1>4 DEF TypeOK
  <2>2. started' \subseteq Container \cup {NoName}
    BY <1>2, <1>3, <1>4 DEF TypeOK
  <2> QED BY <1>1, <1>2, <1>5, <2>1, <2>2 DEF TypeOK
<1>9. Checked' /\ Untouched' /\ Counters' /\ Layering'
  BY <1>1, <1>2, <1>5 DEF Checked, Untouched, Counters, Layering, InRun
<1>10. Reported'
  <2>1. ASSUME NEW k \in DOMAIN stages, NEW m \in stages[k] \cap PlanNames
        PROVE  /\ k < stageIdx => result[m] # NoResult
               /\ k > stageIdx => result[m] = NoResult /\ m \notin started'
               /\ k = stageIdx => (proc'[m] = "idle" <=> result[m] # NoResult)
    <3>1. /\ k < stageIdx => result[m] # NoResult
          /\ k > stageIdx => result[m] = NoResult /\ m \notin started
          /\ k = stageIdx => (proc[m] = "idle" <=> result[m] # NoResult)
      BY <1>2 DEF Reported, InRun
    <3>2. k > stageIdx => m # n
      <4>1. k > stageIdx => stages[stageIdx] \cap stages[k] = {}
        BY <1>2 DEF Layering, TypeOK
      <4> QED BY <1>2, <4>1 DEF Stage
    <3> QED BY <1>2, <1>3, <1>6, <1>7, <3>1, <3>2
  <2>2. \A m \in AllNames : proc'[m] # "idle" => m \in Stage
    BY <1>2, <1>6 DEF Reported
  <2> QED BY <1>1, <1>2, <1>5, <2>1, <2>2 DEF Reported
<1>11. Ledger'
  <2>1. ASSUME NEW m \in PlanNames
        PROVE  /\ result[m].state = "skipped" => m \notin started' /\ (cancelled \/ m \in blocked)
               /\ result[m] # NoResult /\ ~cancelled /\ m \notin blocked => m \in started'
               /\ proc'[m] \in {"starting", "waiting"} => m \in started'
               /\ proc'[m] \in {"delay", "check", "start"} => m \notin started'
    <3>1. CASE m = n
      <4>1. result[m].state # "skipped"
        BY <1>2, <3>1 DEF NoResult
      <4> QED BY <1>2, <1>3, <1>4, <1>6, <3>1, <4>1 DEF Ledger
    <3>2. CASE m # n
      BY <1>3, <1>6, <1>7, <3>2 DEF Ledger
    <3> QED BY <3>1, <3>2
  <2>2. started' \subseteq PlanNames \cup {NoName}
    BY <1>2, <1>4 DEF Ledger
  <2> QED BY <1>1, <1>5, <2>1, <2>2 DEF Ledger
<1>12. Gates'
  <2>1. ASSUME NEW m \in PlanNames, m \in started' \/ proc'[m] # "idle",
               NEW d \in Deps(m) \cap PlanNames
        PROVE  CameThrough(d)'
    <3>1. CameThrough(d)
      BY <1>2, <1>3, <1>6, <1>7, <2>1 DEF Gates, GateOpen
    <3> QED BY <1>5, <1>7, <3>1 DEF CameThrough
  <2> QED BY <1>1, <2>1 DEF Gates, GateOpen
<1> QED BY <1>8, <1>9, <1>10, <1>11, <1>12

LEMMA EndStep ==
    ASSUME IInv, NEW n \in AllNames, Ends(n),
           UNCHANGED <<plan, cancelled, pc, topoVars, stageIdx>>
    PROVE  IInv'
<1> USE DEF IInv
<1>0. plan \in Seq(Node)
  BY TypedPlan DEF TypeOK
<1>1. /\ PlanNames' = PlanNames /\ AllNames' = AllNames
      /\ \A m : ByName(m)' = ByName(m) /\ After(m)' = After(m) /\ Deps(m)' = Deps(m)
      /\ Duplicate' = Duplicate /\ UnknownDep' = UnknownDep
  BY PlanFixed
<1>2. PICK state \in States, reason \in Reasons : EndsAs(n, state, reason)
  BY DEF Ends
<1>3. /\ pc = "gate" /\ pc' = "gate" /\ stageIdx \in DOMAIN stages /\ n \in Stage
      /\ n \in PlanNames => /\ ByName(n).name = n /\ ByName(n) \in Node
                            /\ result[n] = NoResult /\ n \notin blocked /\ GateOpen(n)
      /\ n \notin PlanNames => ByName(n).name = NoName /\ ByName(n).policy = "none"
  BY <1>2, AtWork DEF EndsAs
<1>4. /\ PlanNames \subseteq AllNames /\ AllNames \subseteq Container
      /\ NoName \notin PlanNames
  BY <1>0, NameFacts
<1> DEFINE res == [stage |-> stageIdx, state |-> state, reason |-> reason]
<1>5. /\ UNCHANGED <<plan, cancelled, indeg, placed, stages, stageIdx, started>>
      /\ Stage' = Stage
      /\ \A m \in AllNames : proc'[m] = IF m = n THEN "idle" ELSE proc[m]
      /\ result' = [result EXCEPT ![ByName(n).name] = res]
      /\ blocked' = IF state = "failed" /\ ByName(n).policy = "abort"
                    THEN blocked \cup {ByName(n).name} ELSE blocked
      /\ proc' \in [AllNames -> {"idle", "delay", "check", "start", "starting", "waiting"}]
  BY <1>2 DEF EndsAs, Finish, GoTo, topoVars, Stage, TypeOK
<1>6. res \in Result /\ res # NoResult /\ res.state = state
  <2>1. stageIdx \in Nat
    BY <1>3 DEF TypeOK
  <2> QED BY <2>1 DEF Result, NoResult, States
<1>7. \A m \in PlanNames : result'[m] = IF m = n THEN res ELSE result[m]
  BY <1>3, <1>4, <1>5 DEF TypeOK
<1> HIDE DEF res
<1>8. TypeOK'
  <2>1. result' \in [Container \cup {NoName} -> Result \cup {NoResult}]
    BY <1>3, <1>4, <1>5, <1>6 DEF TypeOK
  <2>2. blocked' \subseteq Container
    BY <1>3, <1>4, <1>5 DEF TypeOK
  <2> QED BY <1>1, <1>3, <1>5, <2>1, <2>2 DEF TypeOK
<1>9. Checked' /\ Untouched' /\ Counters' /\ Layering'
  BY <1>1, <1>3, <1>5 DEF Checked, Untouched, Counters, Layering, InRun
<1>10. Reported'
  <2>1. ASSUME NEW k \in DOMAIN stages, NEW m \in stages[k] \cap PlanNames
        PROVE  /\ k < stageIdx => result'[m] # NoResult
               /\ k > stageIdx => result'[m] = NoResult /\ m \notin started
               /\ k = stageIdx => (proc'[m] = "idle" <=> result'[m] # NoResult)
    <3>1. /\ k < stageIdx => result[m] # NoResult
          /\ k > stageIdx => result[m] = NoResult /\ m \notin started
          /\ k = stageIdx => (proc[m] = "idle" <=> result[m] # NoResult)
      BY <1>3 DEF Reported, InRun
    <3>2. k > stageIdx => m # n
      <4>1. k > stageIdx => stages[stageIdx] \cap stages[k] = {}
        BY <1>3 DEF Layering, TypeOK
      <4> QED BY <1>3, <4>1 DEF Stage
    <3> QED BY <1>4, <1>5, <1>6, <1>7, <3>1, <3>2
  <2>2. \A m \in AllNames : proc'[m] # "idle" => m \in Stage
    BY <1>5 DEF Reported
  <2> QED BY <1>1, <1>3, <1>5, <2>1, <2>2 DEF Reported
<1>11. Ledger'
  <2>1. blocked' \subseteq PlanNames /\ \A m \in blocked' : m \in blocked \/ (m = n /\ state = "failed")
    <3>1. CASE n \in PlanNames
      BY <1>3, <1>5, <3>1 DEF Ledger
    <3>2. CASE n \notin PlanNames
      BY <1>3, <1>5, <3>2 DEF Ledger
    <3> QED BY <3>1, <3>2
  <2>2. \A m \in blocked' : result'[m].state \in {"failed", "skipped"}
    BY <1>3, <1>6, <1>7, <2>1 DEF Ledger
  <2>3. blocked \subseteq blocked'
    BY <1>5
  <2>4. ASSUME NEW m \in PlanNames
        PROVE  /\ result'[m].state = "skipped" => m \notin started /\ (cancelled \/ m \in blocked')
               /\ result'[m] # NoResult /\ ~cancelled /\ m \notin blocked' => m \in started
               /\ proc'[m] \in {"starting", "waiting"} => m \in started
               /\ proc'[m] \in {"delay", "check", "start"} => m \notin started
    <3>1. CASE m = n
      <4>1. /\ proc[n] \in {"starting", "waiting"} => n \in started
            /\ proc[n] \in {"delay", "check", "start"} => n \notin started
        BY <3>1 DEF Ledger
      <4> QED BY <1>2, <1>4, <1>5, <1>6, <1>7, <3>1, <4>1 DEF EndsAs
    <3>2. CASE m # n
      BY <1>4, <1>5, <1>7, <2>3, <3>2 DEF Ledger
    <3> QED BY <3>1, <3>2
  <2> QED BY <1>1, <1>5, <2>1, <2>2, <2>4 DEF Ledger
<1>12. Gates'
  <2>1. ASSUME NEW m \in PlanNames, m \in started \/ proc'[m] # "idle",
               NEW d \in Deps(m) \cap PlanNames
        PROVE  CameThrough(d)'
    <3>1. m \in started \/ proc[m] # "idle"
      BY <1>4, <1>5, <2>1
    <3>2. CameThrough(d) /\ result[d] # NoResult
      BY <2>1, <3>1 DEF Gates, GateOpen, CameThrough, NoResult
    <3>3. d # n
      BY <1>3, <3>2
    <3>4. d \notin blocked'
      BY <1>3, <1>4, <1>5, <3>2, <3>3 DEF CameThrough
    <3> QED BY <1>5, <1>7, <3>2, <3>3, <3>4 DEF CameThrough
  <2> QED BY <1>1, <1>5, <2>1 DEF Gates, GateOpen
<1> QED BY <1>8, <1>9, <1>10, <1>11, <1>12

\* Every step keeps the invariant.
LEMMA NextIInv == IInv /\ [Next]_vars => IInv'
<1> SUFFICES ASSUME IInv, [Next]_vars PROVE IInv'
  OBVIOUS
<1>1. CASE Run
  BY <1>1, CheckPlanStep, PlaceLayerStep, TopoEndStep, BeginStageStep, CancelRestStep,
     JoinStageStep, ReturnStep DEF Run
<1>2. CASE Cancel
  BY <1>2, CancelStep
<1>3. CASE \E n \in AllNames : RunNode(n)
  <2>1. PICK n \in AllNames : RunNode(n)
    BY <1>3
  <2>2. proc[n] # "idle" /\ UNCHANGED <<plan, cancelled, pc, topoVars, stageIdx>>
    BY <2>1 DEF RunNode, DelayDone, CheckCtx, CallStart, StartReturns, WaitReadyReturns
  <2> QED BY <2>1, <2>2, NodeStep, MoveStep, EndStep
<1>4. CASE UNCHANGED vars
  <2>1. /\ PlanNames' = PlanNames /\ AllNames' = AllNames
        /\ \A n : ByName(n)' = ByName(n) /\ After(n)' = After(n) /\ Deps(n)' = Deps(n)
        /\ Duplicate' = Duplicate /\ UnknownDep' = UnknownDep
    BY <1>4, PlanFixed DEF vars
  <2>2. UNCHANGED <<plan, cancelled, pc, indeg, placed, stages, stageIdx, proc, result, blocked, started>>
    BY <1>4 DEF vars, topoVars, runVars
  <2>3. TypeOK' /\ Checked' /\ Untouched' /\ Counters'
    BY <2>1, <2>2 DEF IInv, TypeOK, Checked, Untouched, Counters, Open
  <2>4. Layering' /\ Reported'
    BY <2>1, <2>2 DEF IInv, Layering, Reported, InRun, Stage
  <2>5. Ledger' /\ Gates'
    BY <2>1, <2>2 DEF IInv, Ledger, Gates, GateOpen, CameThrough
  <2> QED BY <2>3, <2>4, <2>5 DEF IInv
<1> QED BY <1>1, <1>2, <1>3, <1>4 DEF Next

THEOREM Invariant == Spec => []IInv
  BY InitIInv, NextIInv, PTL DEF Spec

\* Every value a run ever holds has its type: the counters never go below zero
\* and the stage index never leaves the list of stages.
THEOREM TypeCorrect == Spec => []TypeOK
<1>1. IInv => TypeOK
  BY DEF IInv
<1> QED BY <1>1, Invariant, PTL

-----------------------------------------------------------------------------
(* What follows *)

\* The gate, through any number of dependencies: the names that came through,
\* with the implicit ones, form a set closed under Deps.
THEOREM DependencyGateHolds == Spec => []DependencyGate
<1>1. IInv => DependencyGate
  <2> SUFFICES ASSUME IInv, NEW n \in PlanNames \cap started,
                      NEW d \in (Ancestors(n) \cap PlanNames) \ {n}
               PROVE  CameThrough(d)
    BY DEF DependencyGate
  <2>1. plan \in Seq(Node)
    BY TypedPlan DEF IInv, TypeOK
  <2>2. pc \notin {"check", "error"}
    BY DEF IInv, Untouched
  <2>3. ~UnknownDep
    BY <2>2 DEF IInv, Checked, TypeOK
  <2> DEFINE S == {n} \cup Implicit \cup {m \in PlanNames : CameThrough(m)}
  <2>4. S \subseteq AllNames
    BY <2>1, NameFacts DEF AllNames
  <2>5. ASSUME NEW m \in S PROVE Deps(m) \subseteq S
    <3>1. CASE m \notin PlanNames
      BY <2>1, <3>1, NodeFacts
    <3>2. CASE m \in PlanNames
      <4>1. m \in started
        BY <3>2 DEF CameThrough, Implicit
      <4>2. GateOpen(m)
        BY <3>2, <4>1 DEF IInv, Gates
      <4>3. Deps(m) \subseteq AllNames
        BY <2>1, <2>3, <2>4, DepsKnown
      <4> QED BY <4>2, <4>3 DEF GateOpen, AllNames
    <3> QED BY <3>1, <3>2
  <2>6. d \in S
    <3>1. n \in S /\ S \in SUBSET AllNames
      BY <2>4
    <3> HIDE DEF S
    <3> QED BY <2>5, <3>1 DEF Ancestors
  <2> QED BY <2>6 DEF Implicit
<1> QED BY <1>1, Invariant, PTL

\* A started node sits at or before the current stage, so the stages before its
\* own are reported.
THEOREM StageBarrierHolds == Spec => []StageBarrier
<1>1. IInv => StageBarrier
  <2> SUFFICES ASSUME IInv, NEW k \in DOMAIN stages, NEW n \in stages[k] \cap started,
                      NEW j \in 1..(k - 1), NEW m \in stages[j] \cap PlanNames
               PROVE  result[m] # NoResult
    BY DEF StageBarrier
  <2>1. InRun
    BY DEF IInv, Untouched, TypeOK, InRun
  <2>2. j \in DOMAIN stages /\ j < k /\ stageIdx \in Nat /\ k \in Nat /\ j \in Nat
    BY DEF IInv, TypeOK
  <2>3. k <= stageIdx \/ pc = "done"
    <3>1. CASE n \in PlanNames
      BY <2>1, <2>2, <3>1 DEF IInv, Reported, InRun
    <3>2. CASE n \notin PlanNames
      <4>1. n \in AllNames /\ n = NoName
        BY <3>2 DEF IInv, TypeOK, Ledger
      <4>2. plan \in Seq(Node)
        BY TypedPlan DEF IInv, TypeOK
      <4> QED BY <4>1, <4>2, NameFacts
    <3> QED BY <3>1, <3>2
  <2> QED BY <2>1, <2>2, <2>3 DEF IInv, Reported
<1> QED BY <1>1, Invariant, PTL

\* A result is only ever written where there was none: by a goroutine for its own
\* name, which has none while it works, by phase 1 for a stage that has none, and
\* by the sweep for names without one.
THEOREM ResultsAreFinalHolds == Spec => ResultsAreFinal
<1>1. ASSUME IInv, [Next]_vars, NEW n \in PlanNames, result[n] # NoResult
      PROVE  result'[n] = result[n]
  <2>1. plan \in Seq(Node) /\ DOMAIN result = Container \cup {NoName}
    BY <1>1, TypedPlan DEF IInv, TypeOK
  <2>2. n \in Container /\ n \in AllNames /\ n # NoName
    BY <2>1, NodeFacts, NameFacts
  <2>3. CASE BeginStage
    <3>1. stageIdx \in DOMAIN stages /\ pc = "stage"
      BY <1>1, <2>3 DEF BeginStage, IInv, TypeOK
    <3>2. n \notin Stage
      BY <1>1, <3>1 DEF IInv, Reported, InRun, Stage, TypeOK
    <3> QED BY <2>1, <2>2, <2>3, <3>2 DEF BeginStage
  <2>4. CASE CancelRest
    BY <1>1, <2>1, <2>2, <2>4 DEF CancelRest, Unrun
  <2>5. CASE \E m \in AllNames : RunNode(m)
    <3>1. PICK m \in AllNames : RunNode(m)
      BY <2>5
    <3>2. CASE Moves(m)
      BY <3>2 DEF Moves
    <3>3. CASE Ends(m)
      <4>1. PICK state \in States, reason \in Reasons : EndsAs(m, state, reason)
        BY <3>3 DEF Ends
      <4>2. ByName(m).name # n
        BY <1>1, <2>2, <4>1, AtWork DEF EndsAs
      <4> QED BY <2>1, <2>2, <4>1, <4>2 DEF EndsAs, Finish
    <3> QED BY <3>1, <3>2, <3>3, NodeStep
  <2>6. CASE UNCHANGED result
    BY <2>6
  <2> QED BY <1>1, <2>3, <2>4, <2>5, <2>6
       DEF Next, Run, CheckPlan, PlaceLayer, CycleError, TopoDone, JoinStage, Return,
           Cancel, runVars, vars
<1>2. IInv /\ [Next]_vars =>
        [\A n \in PlanNames : result[n] # NoResult => result'[n] = result[n]]_vars
  BY <1>1
<1> QED BY <1>2, Invariant, PTL DEF Spec, ResultsAreFinal

-----------------------------------------------------------------------------
(* A returned report says what happened *)

\* When the run has returned, every node of the plan has its result.
LEMMA AllReported ==
    ASSUME IInv, pc = "done", NEW n \in PlanNames
    PROVE  result[n] # NoResult
<1>1. plan \in Seq(Node)
  BY TypedPlan DEF IInv, TypeOK
<1>2. n \in placed
  BY <1>1, NameFacts DEF IInv, Layering, InRun
<1>3. PICK k \in DOMAIN stages : n \in stages[k]
  BY <1>2 DEF IInv, Layering
<1> QED BY <1>3 DEF IInv, Reported, InRun

\* A returned run has a result for every node, and the ledger says what was started.
THEOREM ReportIsTruthfulHolds == Spec => []ReportIsTruthful
<1>1. IInv => ReportIsTruthful
  <2> SUFFICES ASSUME IInv, pc = "done", NEW n \in PlanNames
               PROVE  /\ result[n] # NoResult
                      /\ result[n].state = "skipped" => n \notin started
                      /\ result[n].state \in {"ready", "degraded"} /\ ~cancelled => n \in started
    BY DEF ReportIsTruthful
  <2>1. result[n] # NoResult
    BY AllReported
  <2>2. result[n].state \in {"ready", "degraded"} => n \notin blocked
    BY DEF IInv, Ledger
  <2> QED BY <2>1, <2>2 DEF IInv, Ledger
<1> QED BY <1>1, Invariant, PTL

\* Whoever is blocked waits, at some remove, for a failed "abort" node; whoever has
\* another result than "skipped" in a run that is not cancelled was started.
Chain ==
    /\ \A n \in PlanNames :
          /\ result[n] # NoResult /\ result[n].state # "skipped" /\ ~cancelled => n \in started
          /\ Aborted(n) => n \in blocked
    /\ \A n \in blocked : \E d \in Ancestors(n) \cap PlanNames : Aborted(d)

\* Ancestors hold the name itself, and the ancestors of what it depends on.
LEMMA AncestorFacts ==
    ASSUME NEW n \in AllNames
    PROVE  /\ n \in Ancestors(n)
           /\ \A m \in Deps(n) : Ancestors(m) \subseteq Ancestors(n)
<1>1. n \in Ancestors(n)
  BY DEF Ancestors
<1>2. ASSUME NEW m \in Deps(n), NEW d \in Ancestors(m)
      PROVE  d \in Ancestors(n)
  <2>1. ASSUME NEW S \in SUBSET AllNames, n \in S, \A x \in S : Deps(x) \subseteq S
        PROVE  d \in S
    <3>1. m \in S
      BY <2>1
    <3> QED BY <1>2, <2>1, <3>1 DEF Ancestors
  <2> QED BY <1>2, <2>1 DEF Ancestors
<1> QED BY <1>1, <1>2

LEMMA AncestorsFixed ==
    ASSUME plan' = plan
    PROVE  \A n : Ancestors(n)' = Ancestors(n)
  BY PlanFixed DEF Ancestors

\* A step that neither reports nor blocks.
LEMMA SameChain ==
    ASSUME Chain, plan' = plan, result' = result, blocked' = blocked,
           started \subseteq started', cancelled => cancelled'
    PROVE  Chain'
<1>1. /\ PlanNames' = PlanNames
      /\ \A n : Ancestors(n)' = Ancestors(n) /\ ByName(n)' = ByName(n)
  BY PlanFixed, AncestorsFixed
<1>2. \A n : Aborted(n)' = Aborted(n)
  BY <1>1 DEF Aborted
<1> QED BY <1>1, <1>2 DEF Chain

LEMMA ChainStep == IInv /\ Chain /\ [Next]_vars => Chain'
<1> SUFFICES ASSUME IInv, Chain, [Next]_vars PROVE Chain'
  OBVIOUS
<1>0. plan \in Seq(Node) /\ DOMAIN result = Container \cup {NoName}
  BY TypedPlan DEF IInv, TypeOK
<1>n. PlanNames \subseteq Container /\ PlanNames \subseteq AllNames /\ NoName \notin PlanNames
  BY <1>0, NameFacts
<1>1. CASE BeginStage
  <2> DEFINE skip == {n \in Stage : FirstBlocked(n)}
  <2>1. /\ \A m \in DOMAIN result : result'[m] =
              IF m \in skip THEN Skipped("blocked") ELSE result[m]
        /\ blocked' = blocked \cup skip
        /\ UNCHANGED <<plan, cancelled, started>>
        /\ pc = "stage" /\ stageIdx \in DOMAIN stages
    BY <1>1 DEF BeginStage, IInv, TypeOK
  <2>2. /\ PlanNames' = PlanNames
        /\ \A n : Ancestors(n)' = Ancestors(n) /\ ByName(n)' = ByName(n)
    BY <2>1, PlanFixed, AncestorsFixed
  <2>3. skip \subseteq Stage \cap PlanNames
    BY <1>0, NodeFacts DEF FirstBlocked
  <2>4. \A n \in Stage \cap PlanNames : result[n] = NoResult
    BY <2>1 DEF IInv, Reported, InRun, Stage, TypeOK
  <2>5. \A n \in skip : \E d \in Deps(n) : d \in blocked
    BY DEF FirstBlocked
  <2> HIDE DEF skip
  <2>6. Skipped("blocked").state = "skipped"
    BY DEF Skipped
  <2>7. \A n \in PlanNames : Aborted(n) => Aborted(n)' /\ n \notin skip
    BY <1>0, <1>n, <2>1, <2>2, <2>3, <2>4 DEF Aborted, NoResult
  <2>8. \A n \in PlanNames : Aborted(n)' => Aborted(n)
    BY <1>0, <1>n, <2>1, <2>2, <2>6 DEF Aborted
  <2>9. ASSUME NEW n \in blocked'
        PROVE  \E d \in Ancestors(n) \cap PlanNames : Aborted(d)
    <3>1. CASE n \in blocked
      BY <3>1 DEF Chain
    <3>2. CASE n \in skip
      <4>1. PICK m \in Deps(n) : m \in blocked
        BY <2>5, <3>2
      <4>2. PICK d \in Ancestors(m) \cap PlanNames : Aborted(d)
        BY <4>1 DEF Chain
      <4>3. n \in AllNames
        BY <1>n, <2>3, <3>2
      <4> QED BY <4>1, <4>2, <4>3, AncestorFacts
    <3> QED BY <2>1, <3>1, <3>2
  <2>10. ASSUME NEW n \in PlanNames
         PROVE  /\ result'[n] # NoResult /\ result'[n].state # "skipped" /\ ~cancelled' => n \in started'
                /\ Aborted(n)' => n \in blocked'
    BY <1>0, <1>n, <2>1, <2>6, <2>8 DEF Chain
  <2> QED BY <2>2, <2>7, <2>9, <2>10 DEF Chain
<1>2. CASE CancelRest
  <2>1. /\ \A m \in DOMAIN result : result'[m] =
              IF Unrun(m) THEN Skipped("cancelled") ELSE result[m]
        /\ UNCHANGED <<plan, blocked, started>> /\ cancelled'
    BY <1>2 DEF CancelRest
  <2>2. /\ PlanNames' = PlanNames
        /\ \A n : Ancestors(n)' = Ancestors(n) /\ ByName(n)' = ByName(n)
    BY <2>1, PlanFixed, AncestorsFixed
  <2>3. Skipped("cancelled").state = "skipped"
    BY DEF Skipped
  <2>4. \A n \in PlanNames : Aborted(n) <=> Aborted(n)'
    BY <1>0, <1>n, <2>1, <2>2, <2>3 DEF Aborted, Unrun, NoResult
  <2> QED BY <2>1, <2>2, <2>4 DEF Chain
<1>3. CASE \E n \in AllNames : RunNode(n)
  <2>1. PICK n \in AllNames : RunNode(n)
    BY <1>3
  <2>2. UNCHANGED <<plan, cancelled>>
    BY <2>1 DEF RunNode
  <2>3. CASE Moves(n)
    <3>1. started \subseteq started' /\ result' = result /\ blocked' = blocked
      BY <2>3 DEF Moves
    <3> QED BY <2>2, <3>1, SameChain
  <2>4. CASE Ends(n)
    <3>1. PICK state \in States, reason \in Reasons : EndsAs(n, state, reason)
      BY <2>4 DEF Ends
    <3> DEFINE res == [stage |-> stageIdx, state |-> state, reason |-> reason]
    <3>2. /\ started' = started
          /\ result' = [result EXCEPT ![ByName(n).name] = res]
          /\ blocked' = IF state = "failed" /\ ByName(n).policy = "abort"
                        THEN blocked \cup {ByName(n).name} ELSE blocked
          /\ proc[n] # "idle"
          /\ state # "skipped" => cancelled \/ proc[n] \in {"starting", "waiting"}
      BY <3>1 DEF EndsAs, Finish
    <3>3. res.state = state
      OBVIOUS
    <3> HIDE DEF res
    <3>4. /\ PlanNames' = PlanNames
          /\ \A m : Ancestors(m)' = Ancestors(m) /\ ByName(m)' = ByName(m)
      BY <2>2, PlanFixed, AncestorsFixed
    <3>5. CASE n \notin PlanNames
      <4>1. ByName(n).name = NoName /\ ByName(n).policy = "none"
        BY <1>0, <3>5, NodeFacts DEF ZeroNode
      <4>2. blocked' = blocked /\ \A m \in PlanNames : result'[m] = result[m]
        BY <1>0, <1>n, <3>2, <4>1
      <4>3. \A m \in PlanNames : Aborted(m)' <=> Aborted(m)
        BY <3>4, <4>2 DEF Aborted
      <4> QED BY <2>2, <3>2, <3>4, <4>2, <4>3 DEF Chain
    <3>6. CASE n \in PlanNames
      <4>1. ByName(n).name = n /\ result[n] = NoResult
        BY <3>2, <3>6, AtWork
      <4>2. \A m \in PlanNames : result'[m] = IF m = n THEN res ELSE result[m]
        BY <1>0, <1>n, <3>2, <4>1
      <4>3. blocked' = IF state = "failed" /\ ByName(n).policy = "abort"
                       THEN blocked \cup {n} ELSE blocked
        BY <3>2, <4>1
      <4>4. \A m \in PlanNames : Aborted(m)' <=>
                IF m = n THEN state = "failed" /\ ByName(n).policy = "abort" ELSE Aborted(m)
        BY <3>3, <3>4, <4>2 DEF Aborted
      <4>5. ~Aborted(n)
        BY <4>1 DEF Aborted, NoResult
      <4>6. ASSUME NEW m \in blocked'
            PROVE  \E d \in Ancestors(m) \cap PlanNames : Aborted(d)'
        <5>1. CASE m \in blocked
          <6>1. PICK d \in Ancestors(m) \cap PlanNames : Aborted(d)
            BY <5>1 DEF Chain
          <6> QED BY <4>4, <4>5, <6>1
        <5>2. CASE m \notin blocked
          <6>1. m = n /\ Aborted(n)'
            BY <3>6, <4>3, <4>4, <4>6, <5>2
          <6> QED BY <1>n, <3>6, <6>1, AncestorFacts
        <5> QED BY <5>1, <5>2
      <4>7. ASSUME NEW m \in PlanNames
            PROVE  /\ result'[m] # NoResult /\ result'[m].state # "skipped" /\ ~cancelled' => m \in started'
                   /\ Aborted(m)' => m \in blocked'
        <5>1. CASE m = n
          <6>1. proc[n] \in {"starting", "waiting"} => n \in started
            BY <3>6 DEF IInv, Ledger
          <6> QED BY <2>2, <3>2, <3>3, <4>2, <4>3, <4>4, <5>1, <6>1
        <5>2. CASE m # n
          BY <2>2, <3>2, <4>2, <4>3, <4>4, <5>2 DEF Chain
        <5> QED BY <5>1, <5>2
      <4> QED BY <3>4, <4>6, <4>7 DEF Chain
    <3> QED BY <3>5, <3>6
  <2> QED BY <2>1, <2>3, <2>4, NodeStep
<1>4. CASE UNCHANGED <<plan, result, blocked, started>> /\ (cancelled => cancelled')
  BY <1>4, SameChain
<1> QED BY <1>1, <1>2, <1>3, <1>4
     DEF Next, Run, CheckPlan, PlaceLayer, CycleError, TopoDone, JoinStage, Return,
         Cancel, runVars, vars

\* In a run that was not cancelled a failed "abort" node stops exactly the nodes that
\* wait for it, through any number of others, and nothing else.
THEOREM AbortHaltsItsChainHolds == Spec => []AbortHaltsItsChain
<1>1. Init => Chain
  <2> SUFFICES ASSUME Init PROVE Chain
    OBVIOUS
  <2>1. plan \in Seq(Node)
    BY TypedPlan DEF Init
  <2>2. \A n \in PlanNames : result[n] = NoResult
    BY <2>1, NodeFacts DEF Init
  <2> QED BY <2>2 DEF Init, Chain, Aborted, NoResult
<1>2. IInv /\ DependencyGate /\ Chain => AbortHaltsItsChain
  <2> SUFFICES ASSUME IInv, DependencyGate, Chain, pc = "done", ~cancelled, NEW n \in PlanNames
               PROVE  LET behind == \E d \in (Ancestors(n) \cap PlanNames) \ {n} : Aborted(d)
                      IN /\ result[n] # NoResult
                         /\ (result[n].state = "skipped") <=> behind
                         /\ (n \in started) <=> ~behind
    BY DEF AbortHaltsItsChain
  <2> DEFINE behind == \E d \in (Ancestors(n) \cap PlanNames) \ {n} : Aborted(d)
  <2>1. result[n] # NoResult
    BY AllReported
  <2>2. result[n].state = "skipped" => n \notin started /\ n \in blocked
    BY DEF IInv, Ledger
  <2>3. result[n].state # "skipped" => n \in started
    BY <2>1 DEF Chain
  <2>4. result[n].state = "skipped" => behind
    <3>1. result[n].state = "skipped" => ~Aborted(n)
      BY DEF Aborted
    <3> QED BY <2>2, <3>1 DEF Chain
  <2>5. n \in started => ~behind
    BY DEF DependencyGate, CameThrough, Chain
  <2> QED BY <2>1, <2>2, <2>3, <2>4, <2>5
<1> QED BY <1>1, <1>2, ChainStep, DependencyGateHolds, Invariant, PTL DEF Spec

-----------------------------------------------------------------------------
(* TopoStages *)

\* S is a cycle, or feeds on one: each of its names waits for one of them.
Feeds(S) == \A n \in S : Deps(n) \cap S # {}

\* A rejected plan is bad; no cycle is ever placed; a layer waits for the one before
\* it, because whoever is not placed still has a dependency that was not placed when
\* the last layer was taken.
Kahn ==
    /\ pc = "error" => Duplicate \/ UnknownDep \/ Cyclic
    /\ \A S \in SUBSET AllNames : Feeds(S) => S \cap placed = {}
    /\ \A k \in DOMAIN stages : k > 1 => \A n \in stages[k] : Deps(n) \cap stages[k - 1] # {}
    /\ pc = "topo" /\ stages # <<>> =>
          \A n \in AllNames \ placed :
              \E d \in Deps(n) : \A j \in 1..(Len(stages) - 1) : d \notin stages[j]

\* What the counters say of a name that is not placed.
LEMMA CounterFacts ==
    ASSUME IInv, pc = "topo", NEW n \in AllNames
    PROVE  /\ indeg[n] = 0 => Deps(n) \subseteq placed
           /\ indeg[n] # 0 => \E d \in Deps(n) : d \notin placed
<1>1. plan \in Seq(Node)
  BY TypedPlan DEF IInv, TypeOK
<1>2. DOMAIN After(n) = 1..Len(After(n)) /\ Len(After(n)) \in Nat
  BY <1>1, NameFacts
<1>3. IsFiniteSet(DOMAIN After(n))
  BY <1>2, FS_Interval
<1>4. IsFiniteSet(Open(n))
  BY <1>3, FS_Subset DEF Open
<1>5. indeg[n] = 0 <=> Open(n) = {}
  BY <1>4, FS_EmptySet DEF IInv, Counters
<1> QED BY <1>5 DEF Open, Deps

LEMMA KahnFixed ==
    ASSUME plan' = plan
    PROVE  /\ AllNames' = AllNames /\ \A n : Deps(n)' = Deps(n)
           /\ Duplicate' = Duplicate /\ UnknownDep' = UnknownDep /\ Cyclic' = Cyclic
           /\ \A S : Feeds(S)' = Feeds(S)
  BY PlanFixed DEF Cyclic, Feeds

\* A step that places nothing and rejects nothing.
LEMMA SameKahn ==
    ASSUME Kahn, plan' = plan, stages' = stages, placed' = placed,
           pc' = "error" => pc = "error",
           pc' = "topo" => pc = "topo" \/ stages = <<>>
    PROVE  Kahn'
  BY KahnFixed DEF Kahn

LEMMA KahnStep == IInv /\ Kahn /\ [Next]_vars => Kahn'
<1> SUFFICES ASSUME IInv, Kahn, [Next]_vars PROVE Kahn'
  OBVIOUS
<1>0. plan \in Seq(Node)
  BY TypedPlan DEF IInv, TypeOK
<1>1. CASE CheckPlan
  <2>1. /\ UNCHANGED <<plan, stages, placed>> /\ placed = {} /\ stages = <<>>
        /\ pc' \in {"topo", "error"}
        /\ pc' = "error" => Duplicate \/ UnknownDep
    BY <1>1 DEF CheckPlan, IInv, Counters
  <2> QED BY <2>1, KahnFixed DEF Kahn
<1>2. CASE CycleError
  <2>1. /\ UNCHANGED <<plan, stages, placed>> /\ pc = "topo" /\ pc' = "error"
        /\ placed # AllNames /\ NextLayer = {}
    BY <1>2 DEF CycleError, topoVars
  <2> DEFINE S == AllNames \ placed
  <2>2. S # {} /\ S \in SUBSET AllNames
    BY <2>1 DEF IInv, TypeOK
  <2>3. ASSUME NEW n \in S PROVE Deps(n) \cap S # {}
    <3>1. indeg[n] # 0
      BY <2>1 DEF NextLayer
    <3>2. PICK m \in Deps(n) : m \notin placed
      BY <2>1, <3>1, CounterFacts
    <3>3. Deps(n) \subseteq AllNames
      BY <1>0, <2>1, DepsKnown DEF IInv, Checked
    <3> QED BY <3>2, <3>3
  <2> HIDE DEF S
  <2>4. Cyclic
    BY <2>2, <2>3 DEF Cyclic
  <2> QED BY <2>1, <2>4, KahnFixed DEF Kahn
<1>3. CASE PlaceLayer
  <2>1. /\ plan' = plan /\ pc = "topo" /\ pc' = "topo"
        /\ placed' = placed \cup NextLayer
        /\ stages' = Append(stages, NextLayer)
        /\ NextLayer \subseteq AllNames /\ NextLayer \cap placed = {}
    BY <1>3 DEF PlaceLayer, NextLayer
  <2>2. /\ Len(stages) \in Nat /\ Len(stages') = Len(stages) + 1
        /\ DOMAIN stages = 1..Len(stages) /\ DOMAIN stages' = 1..(Len(stages) + 1)
        /\ \A k \in DOMAIN stages : stages'[k] = stages[k]
        /\ stages'[Len(stages) + 1] = NextLayer
        /\ stages' # <<>> /\ (Len(stages) > 0 => stages # <<>>)
    BY <2>1 DEF IInv, TypeOK
  <2>3. \A n \in NextLayer : Deps(n) \subseteq placed
    BY <2>1, CounterFacts DEF NextLayer
  <2>4. ASSUME NEW S \in SUBSET AllNames, Feeds(S)
        PROVE  S \cap placed' = {}
    <3>1. S \cap placed = {}
      BY <2>4 DEF Kahn
    <3>2. S \cap NextLayer = {}
      BY <2>3, <2>4, <3>1 DEF Feeds
    <3> QED BY <2>1, <3>1, <3>2
  <2>5. ASSUME NEW k \in DOMAIN stages', k > 1, NEW n \in stages'[k]
        PROVE  Deps(n) \cap stages'[k - 1] # {}
    <3>1. CASE k \in DOMAIN stages
      <4>1. Deps(n) \cap stages[k - 1] # {}
        BY <2>2, <2>5, <3>1 DEF Kahn
      <4> QED BY <2>2, <2>5, <3>1, <4>1
    <3>2. CASE k = Len(stages) + 1
      <4>1. n \in NextLayer /\ n \in AllNames \ placed
        BY <2>1, <2>2, <2>5, <3>2
      <4>2. PICK m \in Deps(n) : \A j \in 1..(Len(stages) - 1) : m \notin stages[j]
        BY <2>1, <2>2, <2>5, <3>2, <4>1 DEF Kahn
      <4>3. PICK j \in DOMAIN stages : m \in stages[j]
        BY <2>3, <4>1 DEF IInv, Layering
      <4>4. j = k - 1
        BY <2>2, <3>2, <4>2, <4>3
      <4> QED BY <2>2, <4>3, <4>4
    <3> QED BY <2>2, <3>1, <3>2
  <2>6. ASSUME NEW n \in AllNames \ placed'
        PROVE  \E d \in Deps(n) : \A j \in 1..(Len(stages') - 1) : d \notin stages'[j]
    <3>1. n \in AllNames \ placed /\ indeg[n] # 0
      BY <2>1 DEF NextLayer
    <3>2. PICK m \in Deps(n) : m \notin placed
      BY <2>1, <3>1, CounterFacts
    <3>3. \A j \in DOMAIN stages : m \notin stages[j]
      BY <3>2 DEF IInv, Layering
    <3> QED BY <2>2, <3>3
  <2> QED BY <2>1, <2>4, <2>5, <2>6, KahnFixed DEF Kahn
<1>4. CASE /\ UNCHANGED <<plan, stages, placed>>
           /\ (pc' = "error" => pc = "error") /\ (pc' = "topo" => pc = "topo")
  BY <1>4, SameKahn
<1>5. CASE \E n \in AllNames : RunNode(n)
  BY <1>4, <1>5 DEF RunNode, topoVars
<1> QED BY <1>1, <1>2, <1>3, <1>4, <1>5
     DEF Next, Run, TopoDone, BeginStage, CancelRest, JoinStage, Return, Cancel,
         topoVars, vars

\* The error is returned for exactly the bad plans, and a layer holds exactly what can
\* be started no earlier, for every plan.
THEOREM LayeringIsRightHolds == Spec => []LayeringIsRight
<1>1. Init => Kahn
  BY DEF Init, Kahn
<1>2. IInv /\ Kahn => RejectsExactlyBadPlans
  <2> SUFFICES ASSUME IInv, Kahn, pc = "stage" PROVE ~(Duplicate \/ UnknownDep \/ Cyclic)
    BY DEF RejectsExactlyBadPlans, Kahn
  <2>1. ~Duplicate /\ ~UnknownDep /\ placed = AllNames
    BY DEF IInv, Checked, Layering, InRun
  <2>2. \A S \in SUBSET AllNames : Feeds(S) => S = {}
    BY <2>1 DEF Kahn
  <2> QED BY <2>1, <2>2 DEF Cyclic, Feeds
<1>3. IInv /\ Kahn => LayersAreTight
  BY DEF IInv, Layering, Kahn, LayersAreTight
<1>4. IInv /\ Kahn => LayeringIsRight
  BY <1>2, <1>3 DEF LayeringIsRight
<1> QED BY <1>1, <1>4, KahnStep, Invariant, PTL DEF Spec

-----------------------------------------------------------------------------
(* Refinement: the staged run implements StartPlan *)

Outcomes == [n \in PlanNames |-> Outcome(n)]
PlanDeps == [n \in PlanNames |-> Deps(n) \cap PlanNames]

\* A dependency that came through is one StartPlan tolerates.
LEMMA GateIsClear ==
    ASSUME NEW n \in PlanNames, GateOpen(n)
    PROVE  \A d \in PlanDeps[n] : Outcomes[d] \in {"up", "tolerated"}
  BY DEF GateOpen, CameThrough, PlanDeps, Outcomes, Outcome, Unreported, NoResult

\* A blocked name failed its chain or was skipped for it.
LEMMA BlockedIsBehind ==
    ASSUME IInv, NEW d \in PlanNames \cap blocked
    PROVE  Outcomes[d] \in {"aborted", "skipped"}
  BY DEF IInv, Ledger, Outcomes, Outcome, Unreported, NoResult

\* What nobody touched reads the same.
LEMMA SameOutcome ==
    ASSUME NEW n, result'[n] = result[n], n \in blocked' <=> n \in blocked,
           n \in started' <=> n \in started
    PROVE  Outcome(n)' = Outcome(n)
  BY DEF Outcome, Unreported

LEMMA StepKeepsPromise ==
    ASSUME IInv, [Next]_vars
    PROVE  [Promise!Next]_(Promise!vars)
<1>0. /\ plan \in Seq(Node) /\ DOMAIN result = Container \cup {NoName}
      /\ PlanNames \subseteq Container /\ PlanNames \subseteq AllNames
      /\ NoName \notin PlanNames
  BY TypedPlan, NodeFacts, NameFacts, NoNameAssumption DEF IInv, TypeOK
<1>1. plan' = plan
  BY DEF Next, Run, CheckPlan, PlaceLayer, CycleError, TopoDone, BeginStage, CancelRest,
         JoinStage, Return, RunNode, Cancel, vars
<1>2. PlanNames' = PlanNames /\ PlanDeps' = PlanDeps
  BY <1>1, PlanFixed DEF PlanDeps
<1>3. ASSUME UNCHANGED <<cancelled, result, blocked, started>>
      PROVE  UNCHANGED <<PlanDeps, Outcomes, cancelled>>
  BY <1>2, <1>3, SameOutcome DEF Outcomes
<1>4. CASE Cancel
  <2>1. cancelled' = TRUE /\ Outcomes' = Outcomes
    BY <1>2, <1>4, SameOutcome DEF Cancel, runVars, Outcomes
  <2> QED BY <1>2, <2>1 DEF Promise!Next, Promise!Halt, Outcomes, PlanDeps
<1>5. CASE BeginStage
  <2> DEFINE skip == {n \in Stage : FirstBlocked(n)}
  <2>1. pc = "stage" /\ stageIdx \in DOMAIN stages
    BY <1>5 DEF BeginStage, IInv, TypeOK
  <2>2. skip \subseteq PlanNames
    BY <1>0, NodeFacts DEF FirstBlocked
  <2>3. \A n \in skip : result[n] = NoResult /\ n \notin started
    BY <2>1, <2>2 DEF IInv, Reported, InRun, Stage, TypeOK
  <2>4. \A n \in skip : Outcomes[n] = "pending"
    BY <2>2, <2>3 DEF Outcomes, Outcome, Unreported
  <2>5. ASSUME NEW n \in skip
        PROVE  \E d \in PlanDeps[n] : Outcomes[d] \in {"aborted", "skipped"}
    <3>1. PICK d \in Deps(n) \cap blocked : TRUE
      BY DEF FirstBlocked
    <3>2. d \in PlanNames
      BY <3>1 DEF IInv, Ledger
    <3> QED BY <2>2, <3>1, <3>2, BlockedIsBehind DEF PlanDeps
  <2>6. /\ \A m \in PlanNames : result'[m] =
               IF m \in skip THEN Skipped("blocked") ELSE result[m]
        /\ blocked' = blocked \cup skip /\ started' = started /\ cancelled' = cancelled
    BY <1>0, <1>5 DEF BeginStage
  <2>7. Skipped("blocked").state = "skipped" /\ Skipped("blocked") # NoResult
    BY DEF Skipped, NoResult
  <2> HIDE DEF skip
  <2>8. \A m \in PlanNames : Outcome(m)' = IF m \in skip THEN "skipped" ELSE Outcome(m)
    <3> SUFFICES ASSUME NEW m \in PlanNames
                 PROVE  Outcome(m)' = IF m \in skip THEN "skipped" ELSE Outcome(m)
      OBVIOUS
    <3>1. CASE m \in skip
      <4>1. result'[m].state = "skipped" /\ result'[m] # NoResult
        BY <2>6, <2>7, <3>1
      <4> QED BY <3>1, <4>1 DEF Outcome, Unreported, NoResult
    <3>2. CASE m \notin skip
      BY <2>6, <3>2, SameOutcome
    <3> QED BY <3>1, <3>2
  <2>9. Outcomes' = [n \in PlanNames |-> IF n \in skip THEN "skipped" ELSE Outcomes[n]]
    BY <1>2, <2>8 DEF Outcomes
  <2>10. Promise!Skip(skip)
    BY <1>2, <2>2, <2>4, <2>5, <2>6, <2>9
       DEF Promise!Skip, Promise!Behind, Promise!Members, Outcomes, PlanDeps
  <2>11. skip \in SUBSET Promise!Members
    BY <2>2 DEF Promise!Members
  <2> QED BY <2>10, <2>11 DEF Promise!Next
<1>6. CASE CancelRest
  <2> DEFINE rest == {n \in PlanNames : Unrun(n)}
  <2>1. pc = "stage" /\ stageIdx \in DOMAIN stages /\ cancelled
    BY <1>6 DEF CancelRest, IInv, TypeOK
  <2>2. \A n \in rest : result[n] = NoResult /\ n \notin started
    BY <2>1 DEF IInv, Reported, InRun, Unrun, TypeOK
  <2>3. \A n \in rest : Outcomes[n] = "pending"
    BY <2>2 DEF Outcomes, Outcome, Unreported
  <2>4. /\ \A m \in PlanNames : result'[m] =
               IF m \in rest THEN Skipped("cancelled") ELSE result[m]
        /\ blocked' = blocked /\ started' = started /\ cancelled' = cancelled
    BY <1>0, <1>6 DEF CancelRest
  <2>5. Skipped("cancelled").state = "skipped" /\ Skipped("cancelled") # NoResult
    BY DEF Skipped, NoResult
  <2>6. rest \subseteq PlanNames
    OBVIOUS
  <2> HIDE DEF rest
  <2>7. \A m \in PlanNames : Outcome(m)' = IF m \in rest THEN "skipped" ELSE Outcome(m)
    <3> SUFFICES ASSUME NEW m \in PlanNames
                 PROVE  Outcome(m)' = IF m \in rest THEN "skipped" ELSE Outcome(m)
      OBVIOUS
    <3>1. CASE m \in rest
      <4>1. result'[m].state = "skipped" /\ result'[m] # NoResult
        BY <2>4, <2>5, <3>1
      <4> QED BY <3>1, <4>1 DEF Outcome, Unreported, NoResult
    <3>2. CASE m \notin rest
      BY <2>4, <3>2, SameOutcome
    <3> QED BY <3>1, <3>2
  <2>8. Outcomes' = [n \in PlanNames |-> IF n \in rest THEN "skipped" ELSE Outcomes[n]]
    BY <1>2, <2>7 DEF Outcomes
  <2>9. Promise!Skip(rest) /\ rest \in SUBSET Promise!Members
    BY <1>2, <2>1, <2>3, <2>4, <2>6, <2>8
       DEF Promise!Skip, Promise!Members, Outcomes, PlanDeps
  <2> QED BY <2>9 DEF Promise!Next
<1>7. CASE \E n \in AllNames : RunNode(n)
  <2>1. PICK n \in AllNames : RunNode(n)
    BY <1>7
  <2>2. cancelled' = cancelled /\ proc[n] # "idle"
    BY <2>1 DEF RunNode, DelayDone, CheckCtx, CallStart, StartReturns, WaitReadyReturns
  <2>3. /\ n \in PlanNames => /\ ByName(n).name = n /\ ByName(n) \in Node
                              /\ result[n] = NoResult /\ n \notin blocked /\ GateOpen(n)
        /\ n \notin PlanNames => ByName(n).name = NoName /\ ByName(n).policy = "none"
    BY <2>2, AtWork
  <2>4. CASE Moves(n)
    <3>1. CASE started' \cap PlanNames = started \cap PlanNames
      <4>1. \A m \in PlanNames : Outcome(m)' = Outcome(m)
        BY <2>4, <3>1, SameOutcome DEF Moves
      <4> QED BY <1>2, <2>2, <4>1 DEF Outcomes, Promise!vars, PlanDeps
    <3>2. CASE started' \cap PlanNames # started \cap PlanNames
      <4>1. /\ ~cancelled /\ n \in PlanNames /\ proc[n] = "start"
            /\ started' = started \cup {n} /\ result' = result /\ blocked' = blocked
        BY <1>0, <2>3, <2>4, <3>2 DEF Moves
      <4>2. n \notin started
        BY <4>1 DEF IInv, Ledger
      <4>3. Outcomes[n] = "pending"
        BY <2>3, <4>1, <4>2 DEF Outcomes, Outcome, Unreported
      <4>4. Outcome(n)' = "starting"
        BY <2>3, <4>1 DEF Outcome, Unreported
      <4>5. \A m \in PlanNames \ {n} : Outcome(m)' = Outcome(m)
        BY <4>1, SameOutcome
      <4>6. Outcomes' = [Outcomes EXCEPT ![n] = "starting"]
        BY <1>2, <4>1, <4>4, <4>5 DEF Outcomes
      <4>7. \A d \in PlanDeps[n] : Outcomes[d] \in {"up", "tolerated"}
        BY <2>3, <4>1, GateIsClear
      <4>8. Promise!Start(n)
        BY <1>2, <2>2, <4>1, <4>3, <4>6, <4>7
           DEF Promise!Start, Promise!Clear, Promise!Tolerable, Outcomes, PlanDeps
      <4>9. n \in Promise!Members
        BY <4>1 DEF Promise!Members
      <4> QED BY <4>8, <4>9 DEF Promise!Next
    <3> QED BY <3>1, <3>2
  <2>5. CASE Ends(n)
    <3>1. PICK state \in States, reason \in Reasons : EndsAs(n, state, reason)
      BY <2>5 DEF Ends
    <3> DEFINE res == [stage |-> stageIdx, state |-> state, reason |-> reason]
    <3>2. /\ started' = started
          /\ result' = [result EXCEPT ![ByName(n).name] = res]
          /\ blocked' = IF state = "failed" /\ ByName(n).policy = "abort"
                        THEN blocked \cup {ByName(n).name} ELSE blocked
          /\ res.state = state /\ res # NoResult
      BY <3>1 DEF EndsAs, Finish, NoResult, States
    <3> HIDE DEF res
    <3>3. CASE n \notin PlanNames
      <4>1. \A m \in PlanNames : Outcome(m)' = Outcome(m)
        BY <1>0, <2>3, <3>2, <3>3, SameOutcome
      <4> QED BY <1>2, <2>2, <4>1 DEF Outcomes, Promise!vars, PlanDeps
    <3>4. CASE n \in PlanNames
      <4>1. \A m \in PlanNames \ {n} : Outcome(m)' = Outcome(m)
        BY <1>0, <2>3, <3>2, <3>4, SameOutcome
      <4>2. result'[n] = res
        BY <1>0, <2>3, <3>2, <3>4
      <4>3. Outcomes' = [Outcomes EXCEPT ![n] = Outcome(n)']
        BY <1>2, <3>4, <4>1 DEF Outcomes
      <4>4. \A d \in PlanDeps[n] : Outcomes[d] \in {"up", "tolerated"}
        BY <2>3, <3>4, GateIsClear
      <4>5. n \in Promise!Members
        BY <3>4 DEF Promise!Members
      <4>6. CASE state = "skipped"
        <5>1. cancelled /\ n \notin started
          BY <3>1, <3>4, <4>6 DEF EndsAs, IInv, Ledger
        <5>2. Outcomes[n] = "pending" /\ Outcome(n)' = "skipped"
          BY <2>3, <3>2, <3>4, <4>2, <4>6, <5>1 DEF Outcomes, Outcome, Unreported
        <5>3. Outcomes' = [m \in PlanNames |-> IF m \in {n} THEN "skipped" ELSE Outcomes[m]]
          BY <4>3, <5>2 DEF Outcomes
        <5>4. Promise!Skip({n})
          BY <1>2, <2>2, <5>1, <5>2, <5>3
             DEF Promise!Skip, Promise!Members, Outcomes, PlanDeps
        <5> QED BY <4>5, <5>4 DEF Promise!Next
      <4>7. CASE state # "skipped"
        <5>1. Outcome(n)' \in {"up", "tolerated", "aborted"}
          BY <3>2, <4>2, <4>7 DEF Outcome, Unreported
        <5>2. \/ Outcomes[n] = "starting"
              \/ Outcomes[n] = "pending" /\ cancelled
          <6>1. n \in started \/ cancelled
            BY <3>1, <3>4, <4>7 DEF EndsAs, IInv, Ledger
          <6> QED BY <2>3, <3>4, <6>1 DEF Outcomes, Outcome, Unreported
        <5>3. Promise!Settle(n)
          BY <1>2, <2>2, <4>3, <4>4, <5>1, <5>2
             DEF Promise!Settle, Promise!Clear, Promise!Tolerable, Outcomes, PlanDeps
        <5> QED BY <4>5, <5>3 DEF Promise!Next
      <4> QED BY <4>6, <4>7
    <3> QED BY <3>3, <3>4
  <2> QED BY <2>1, <2>4, <2>5, NodeStep
<1>8. CASE UNCHANGED <<cancelled, result, blocked, started>>
  BY <1>3, <1>8 DEF Promise!vars, Outcomes, PlanDeps
<1> QED BY <1>4, <1>5, <1>6, <1>7, <1>8
     DEF Next, Run, CheckPlan, PlaceLayer, CycleError, TopoDone, JoinStage, Return,
         runVars, vars

\* Whatever the plan, the schedule, the failures and the moment of a cancellation,
\* a run of the orchestrator is a run of StartPlan.
THEOREM ImplementsStartPlan == Spec => KeepsThePromise
<1>1. Init => Promise!Init
  <2> SUFFICES ASSUME Init PROVE Promise!Init
    OBVIOUS
  <2>1. plan \in Seq(Node)
    BY TypedPlan DEF Init
  <2>2. \A n \in PlanNames : result[n] = NoResult /\ n \notin started
    BY <2>1, NodeFacts DEF Init
  <2>3. Outcomes = [n \in PlanNames |-> "pending"] /\ DOMAIN PlanDeps = PlanNames
    BY <2>2 DEF Outcomes, Outcome, Unreported, PlanDeps
  <2> QED BY <2>3 DEF Promise!Init, Init, Outcomes, PlanDeps
<1>2. IInv /\ [Next]_vars => [Promise!Next]_(Promise!vars)
  BY StepKeepsPromise
<1> QED BY <1>1, <1>2, Invariant, PTL DEF Spec, Promise!Spec, KeepsThePromise
=============================================================================

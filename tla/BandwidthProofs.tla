-------------------------- MODULE BandwidthProofs --------------------------
(***************************************************************************)
(* Proofs about Bandwidth, for any containers, devices, caps, settings and *)
(* faults: the state keeps its type, and unless one of the lapses happened *)
(* every cap in force is on the device the monitor remembers for its       *)
(* container, and the host is never shaped.                                *)
(*                                                                         *)
(* The first part is about NetShape alone: what Apply can leave of a       *)
(* namespace, whichever of its commands failed.                            *)
(***************************************************************************)
EXTENDS Bandwidth, TLAPS

-----------------------------------------------------------------------------
(* What Apply leaves *)

\* x is a namespace that differs from ns only in what concerns device d and in
\* the rate of the download chain.
Near(x, ns, d) ==
    /\ x \in NS!Namespace
    /\ \A e \in Iface \ {d} : x.up[e] = ns.up[e]
    /\ x.jumps \subseteq ns.jumps \cup {d}

\* A command ends in the state it aims at or, if it fails, in the one before.
LEMMA OutcomesEnd ==
  ASSUME NEW ns, NEW after, NEW mayFail, NEW r \in NS!Outcomes(ns, after, mayFail)
  PROVE  r.ns \in {ns, after} /\ r.ok \in BOOLEAN /\ (r.ok => r.ns = after)
  <1>1. r \in {[ns |-> after, ok |-> TRUE], [ns |-> ns, ok |-> FALSE], [ns |-> after, ok |-> FALSE]}
    BY DEF NS!Outcomes
  <1>2. CASE r = [ns |-> after, ok |-> TRUE]
    BY <1>2
  <1>3. CASE r = [ns |-> ns, ok |-> FALSE]
    BY <1>3
  <1>4. CASE r = [ns |-> after, ok |-> FALSE]
    BY <1>4
  <1> QED BY <1>1, <1>2, <1>3, <1>4

LEMMA EgressNear ==
  ASSUME NEW ns \in NS!Namespace, NEW d \in Iface, NEW kbit \in Nat, NEW mayFail,
         NEW r \in NS!SetEgress(ns, d, kbit, mayFail)
  PROVE  /\ Near(r.ns, ns, d) /\ r.ns.jumps = ns.jumps
         /\ r.ok \in BOOLEAN
         /\ r.ok => r.ns.up[d] = kbit
  <1> DEFINE after == [ns EXCEPT !.up[d] = kbit]
             S     == {x \in NS!Namespace : Near(x, ns, d) /\ x.jumps = ns.jumps}
  <1>1. ns \in S /\ after \in S /\ after.up[d] = kbit
    BY DEF NS!Namespace, Near
  <1>2. r \in NS!Outcomes(ns, after, mayFail)
    BY DEF NS!SetEgress
  <1> HIDE DEF after
  <1>3. r.ns \in S /\ r.ok \in BOOLEAN /\ (r.ok => r.ns = after)
    <2> HIDE DEF S
    <2>1. ns \in S /\ after \in S
      BY <1>1
    <2> QED BY <2>1, <1>2, OutcomesEnd
  <1> QED BY <1>1, <1>3

\* Deleting the jump, the rule and the chain; success means that there was no
\* jump left.
LEMMA ClearNear ==
  ASSUME NEW ns \in NS!Namespace, NEW d \in Iface, NEW mayFail,
         NEW r \in NS!ClearIngress(ns, d, mayFail)
  PROVE  /\ Near(r.ns, ns, d) /\ r.ns.up = ns.up
         /\ r.ok \in BOOLEAN
         /\ r.ok => r.ns.jumps = {}
  <1> DEFINE Unjump   == [ns EXCEPT !.jumps = @ \ {d}]
             Flush(x)  == NS!Outcomes(x, [x EXCEPT !.chain = IF @ = NS!NoChain THEN @ ELSE 0], mayFail)
             Delete(x) == IF x.chain > 0 \/ x.jumps # {} THEN NS!Refused(x)
                          ELSE NS!Outcomes(x, [x EXCEPT !.chain = NS!NoChain], mayFail)
             S         == {x \in NS!Namespace : x.up = ns.up /\ x.jumps \subseteq ns.jumps}
  <1>1. ns \in S /\ Unjump \in S
    BY DEF NS!Namespace
  <1>2. ASSUME NEW x \in S, NEW q \in Flush(x)
        PROVE  q.ns \in S
    <2> DEFINE after == [x EXCEPT !.chain = IF @ = NS!NoChain THEN @ ELSE 0]
    <2>1. after \in S
      BY DEF NS!Namespace, NS!NoChain
    <2>2. q \in NS!Outcomes(x, after, mayFail)
      OBVIOUS
    <2> HIDE DEF after, S
    <2> QED BY <2>1, <2>2, OutcomesEnd
  <1>3. ASSUME NEW x \in S, NEW q \in Delete(x)
        PROVE  q.ns \in S /\ q.ok \in BOOLEAN /\ (q.ok => q.ns.jumps = {})
    <2>1. CASE x.chain > 0 \/ x.jumps # {}
      <3>1. q = [ns |-> x, ok |-> FALSE]
        BY <2>1 DEF NS!Refused
      <3> QED BY <3>1
    <2>2. CASE ~(x.chain > 0 \/ x.jumps # {})
      <3> DEFINE after == [x EXCEPT !.chain = NS!NoChain]
      <3>1. after \in S /\ after.jumps = {}
        BY <2>2 DEF NS!Namespace, NS!NoChain
      <3>2. q \in NS!Outcomes(x, after, mayFail)
        BY <2>2
      <3> HIDE DEF after, S
      <3> QED BY <3>1, <3>2, OutcomesEnd
    <2> QED BY <2>1, <2>2
  <1>4. r \in NS!Anyway(NS!Anyway(NS!Outcomes(ns, Unjump, mayFail), Flush), Delete)
    BY DEF NS!ClearIngress
  <1> HIDE DEF Unjump, Flush, Delete
  <1>5. PICK b \in NS!Anyway(NS!Outcomes(ns, Unjump, mayFail), Flush) : r \in Delete(b.ns)
    BY <1>4, Zenon DEF NS!Anyway
  <1>6. PICK a \in NS!Outcomes(ns, Unjump, mayFail) : b \in Flush(a.ns)
    BY <1>5, Zenon DEF NS!Anyway
  <1>7. r.ns \in S /\ r.ok \in BOOLEAN /\ (r.ok => r.ns.jumps = {})
    <2> HIDE DEF S
    <2>1. a.ns \in S
      BY <1>1, OutcomesEnd
    <2>2. b.ns \in S
      BY <2>1, <1>2, <1>6
    <2> QED BY <2>2, <1>3, <1>5
  <1> QED BY <1>7 DEF Near

\* The chain is filled anew and jumped to from d.
LEMMA PoliceNear ==
  ASSUME NEW ns \in NS!Namespace, NEW d \in Iface, NEW kbit \in Nat, NEW mayFail,
         NEW r \in NS!PoliceIngress(ns, d, kbit, mayFail)
  PROVE  Near(r.ns, ns, d) /\ r.ns.up = ns.up /\ r.ok \in BOOLEAN
  <1> DEFINE Flush(x)  == IF x.chain = NS!NoChain THEN NS!Refused(x)
                          ELSE NS!Outcomes(x, [x EXCEPT !.chain = 0], mayFail)
             Append(x) == NS!Outcomes(x, [x EXCEPT !.chain = kbit], mayFail)
             Jump(x)   == IF d \in x.jumps THEN {[ns |-> x, ok |-> TRUE]}
                          ELSE NS!Outcomes(x, [x EXCEPT !.jumps = @ \cup {d}], mayFail)
             New       == [ns EXCEPT !.chain = IF @ = NS!NoChain THEN 0 ELSE @]
             S         == {x \in NS!Namespace : x.up = ns.up /\ x.jumps \subseteq ns.jumps \cup {d}}
             Good(q)   == q.ns \in S /\ q.ok \in BOOLEAN
             First     == NS!Anyway(NS!Outcomes(ns, New, mayFail), Flush)
             Second    == NS!IfOk(First, Append)
  <1>1. ASSUME NEW x \in S, NEW q \in Flush(x)
        PROVE  Good(q)
    <2>1. CASE x.chain = NS!NoChain
      <3>1. q = [ns |-> x, ok |-> FALSE]
        BY <2>1 DEF NS!Refused
      <3> QED BY <3>1
    <2>2. CASE x.chain # NS!NoChain
      <3> DEFINE after == [x EXCEPT !.chain = 0]
      <3>1. after \in S
        BY DEF NS!Namespace
      <3>2. q \in NS!Outcomes(x, after, mayFail)
        BY <2>2
      <3> HIDE DEF after, S
      <3> QED BY <3>1, <3>2, OutcomesEnd
    <2> QED BY <2>1, <2>2
  <1>2. ASSUME NEW x \in S, NEW q \in Append(x)
        PROVE  Good(q)
    <2> DEFINE after == [x EXCEPT !.chain = kbit]
    <2>1. after \in S
      BY DEF NS!Namespace
    <2>2. q \in NS!Outcomes(x, after, mayFail)
      OBVIOUS
    <2> HIDE DEF after, S
    <2> QED BY <2>1, <2>2, OutcomesEnd
  <1>3. ASSUME NEW x \in S, NEW q \in Jump(x)
        PROVE  Good(q)
    <2>1. CASE d \in x.jumps
      <3>1. q = [ns |-> x, ok |-> TRUE]
        BY <2>1
      <3> QED BY <3>1
    <2>2. CASE d \notin x.jumps
      <3> DEFINE after == [x EXCEPT !.jumps = @ \cup {d}]
      <3>1. after \in S
        BY DEF NS!Namespace
      <3>2. q \in NS!Outcomes(x, after, mayFail)
        BY <2>2
      <3> HIDE DEF after, S
      <3> QED BY <3>1, <3>2, OutcomesEnd
    <2> QED BY <2>1, <2>2
  <1>4. ns \in S /\ New \in S
    BY DEF NS!Namespace, NS!NoChain
  <1>5. CASE ns.chain = kbit /\ d \in ns.jumps
    <2>1. r = [ns |-> ns, ok |-> TRUE]
      BY <1>5 DEF NS!PoliceIngress
    <2> QED BY <2>1, <1>4 DEF Near
  <1>6. CASE ~(ns.chain = kbit /\ d \in ns.jumps)
    <2>1. r \in NS!IfOk(Second, Jump)
      BY <1>6 DEF NS!PoliceIngress
    <2>2. Good(r)
      <3> HIDE DEF Flush, Append, Jump, New, S
      <3>1. \A q \in NS!Outcomes(ns, New, mayFail) : q.ns \in S
        BY <1>4, OutcomesEnd
      <3>2. \A q \in First : Good(q)
        BY <1>1, <3>1, Zenon DEF NS!Anyway
      <3>3. \A q \in Second : Good(q)
        <4> HIDE DEF First
        <4> QED BY <1>2, <3>2, Zenon DEF NS!IfOk
      <3> HIDE DEF Second
      <3> QED BY <1>3, <2>1, <3>3, Zenon DEF NS!IfOk
    <2> QED BY <2>2 DEF Near
  <1> QED BY <1>5, <1>6

\* Whatever Apply did, it did to device d alone; and clearing d with success
\* leaves neither an upload cap on d nor a jump from any device.
LEMMA ApplyNear ==
  ASSUME NEW ns \in NS!Namespace, NEW d \in Iface, NEW up \in Nat, NEW down \in Nat,
         NEW mayFail, NEW r \in NS!Apply(ns, d, up, down, mayFail)
  PROVE  /\ Near(r.ns, ns, d)
         /\ up = 0 /\ down = 0 /\ r.ok => r.ns.up[d] = 0 /\ r.ns.jumps = {}
  <1> DEFINE Ingress(x) == IF down > 0 THEN NS!PoliceIngress(x, d, down, mayFail)
                           ELSE NS!ClearIngress(x, d, mayFail)
             Both(e)    == {[ns |-> i.ns, ok |-> e.ok /\ i.ok] : i \in Ingress(e.ns)}
  <1>1. r \in UNION {Both(e) : e \in NS!SetEgress(ns, d, up, mayFail)}
    BY DEF NS!Apply
  <1>2. ASSUME NEW x \in NS!Namespace, NEW i \in Ingress(x)
        PROVE  /\ Near(i.ns, x, d) /\ i.ns.up = x.up /\ i.ok \in BOOLEAN
               /\ down = 0 /\ i.ok => i.ns.jumps = {}
    <2>1. CASE down > 0
      <3>1. i \in NS!PoliceIngress(x, d, down, mayFail)
        BY <2>1
      <3> QED BY <2>1, <3>1, PoliceNear
    <2>2. CASE ~(down > 0)
      <3>1. i \in NS!ClearIngress(x, d, mayFail)
        BY <2>2
      <3> QED BY <3>1, ClearNear
    <2> QED BY <2>1, <2>2
  <1> HIDE DEF Ingress
  <1>3. PICK e \in NS!SetEgress(ns, d, up, mayFail) : r \in Both(e)
    BY <1>1
  <1>4. PICK i \in Ingress(e.ns) : r = [ns |-> i.ns, ok |-> e.ok /\ i.ok]
    BY <1>3
  <1>5. /\ Near(e.ns, ns, d) /\ e.ns.jumps = ns.jumps /\ e.ok \in BOOLEAN
        /\ e.ok => e.ns.up[d] = up
    BY EgressNear
  <1>6. /\ Near(i.ns, e.ns, d) /\ i.ns.up = e.ns.up /\ i.ok \in BOOLEAN
        /\ down = 0 /\ i.ok => i.ns.jumps = {}
    BY <1>2, <1>5 DEF Near
  <1>7. r.ns = i.ns /\ r.ok = (e.ok /\ i.ok)
    BY <1>4
  <1> QED BY <1>5, <1>6, <1>7 DEF Near

-----------------------------------------------------------------------------
(* The invariant *)

\* A rule concerns device d in n's namespace: an upload cap, or a jump to the
\* download chain, which any later cap on another device would fill.
Marked(n, d) == netns[n].up[d] > 0 \/ d \in netns[n].jumps

Unmarked(n) == \A d \in Iface : ~Marked(n, d)

\* A namespace that is not the container's own, or is gone, holds no rule.
OwnRules == \A n \in Name : docker[n] \notin {"own", "paused"} => Unmarked(n)

\* While the tick clears: what is still to be looked at is remembered as it
\* was listed, and what was listed without a namespace has no rule.
Clearing ==
    pc = "clear" =>
        \A n \in Name : /\ n \in todo => shaped[n] = prev[n] /\ prev[n] # "none"
                        /\ seen[n] \notin {"own", "paused"} => Unmarked(n)

\* Every rule is on the device the monitor remembers for its container.
Remembered ==
    \A n \in Name, d \in Iface : Marked(n, d) => shaped[n] # "none" /\ Dev(shaped[n]) = d

\* What the tick was told has a namespace of its own does not share one.
HostSafe ==
    pc \in {"clear", "apply"} => \A n \in Name : seen[n] = "own" => docker[n] # "shared"

\* The device the tick applies to, if detection does not fail.
Goal == IF tsetting = "" THEN Route ELSE tsetting

\* The container has been through the clear phase and is yet to be applied to.
Pending(n) == (pc = "clear" /\ n \notin todo /\ Desired(n)) \/ (pc = "apply" /\ n \in todo)

\* What is yet to be applied to has no rule on any other device: it was
\* cleared, it went away, or it was kept where it is to be.
OnGoal == \A n \in Name, d \in Iface : Pending(n) /\ Marked(n, d) => d = Goal

Sound == Remembered /\ ~hostShaped /\ HostSafe /\ OnGoal

IInv == TypeOK /\ OwnRules /\ Clearing /\ (~lapsed => Sound)

-----------------------------------------------------------------------------
(* Types *)

LEMMA CapsType ==
  /\ NoCap \in Caps
  /\ \A c \in Caps : c.up \in Nat /\ c.down \in Nat
  BY CapsAssumption

LEMMA DevType ==
  /\ "none" \notin Iface /\ "" \notin Iface /\ Route \in Iface
  /\ \A i \in Iface \cup {""} : Dev(i) \in Iface
  BY IfaceAssumption DEF Dev

\* The device a cap is applied to is the goal, unless it could not be detected.
LEMMA TargetType ==
  ASSUME tsetting \in Settings \cup {""}, NEW iface \in Target
  PROVE  /\ iface \in Iface \cup {""} /\ Goal \in Iface
         /\ iface # "" => Dev(iface) = Goal
  BY SettingsAssumption, IfaceAssumption DEF Target, Goal, Dev

LEMMA CleanType == NS!Clean \in NS!Namespace /\ NS!Clean.jumps = {}
                   /\ \A d \in Iface : NS!Clean.up[d] = 0
  BY DEF NS!Clean, NS!Namespace, NS!NoChain

\* x replaces n's namespace, changed on one device; clearing it with success
\* leaves nothing of its rules.
Becomes(x, n, d, cap, ok) ==
    /\ netns' = [netns EXCEPT ![n] = x]
    /\ Near(x, netns[n], d)
    /\ cap = NoCap /\ ok = TRUE => x.up[d] = 0 /\ x.jumps = {}

LEMMA ShapeEffect ==
  ASSUME netns \in [Name -> NS!Namespace], NEW n \in Name, NEW iface, Dev(iface) \in Iface,
         NEW cap \in Caps, NEW mayFail, NEW ok, Shape(n, iface, cap, mayFail, ok),
         docker[n] # "shared"
  PROVE  \E x \in NS!Namespace : Becomes(x, n, Dev(iface), cap, ok)
  <1>1. PICK r \in NS!Apply(netns[n], Dev(iface), cap.up, cap.down, mayFail) :
           r.ok = ok /\ netns' = [netns EXCEPT ![n] = r.ns]
    BY DEF Shape
  <1>2. /\ Near(r.ns, netns[n], Dev(iface))
        /\ cap.up = 0 /\ cap.down = 0 /\ r.ok => r.ns.up[Dev(iface)] = 0 /\ r.ns.jumps = {}
    BY CapsType, ApplyNear
  <1>3. cap = NoCap => cap.up = 0 /\ cap.down = 0
    BY DEF NoCap
  <1>4. r.ns \in NS!Namespace
    BY <1>2 DEF Near
  <1> QED BY <1>1, <1>2, <1>3, <1>4 DEF Becomes

\* So it keeps the types, touches no other container's rules, and leaves on n
\* no rule for another device that was not there before.
LEMMA ShapeMarks ==
  ASSUME netns \in [Name -> NS!Namespace], hostShaped \in BOOLEAN,
         NEW n \in Name, NEW iface, Dev(iface) \in Iface,
         NEW cap \in Caps, NEW mayFail, NEW ok, Shape(n, iface, cap, mayFail, ok)
  PROVE  /\ netns' \in [Name -> NS!Namespace] /\ hostShaped' \in BOOLEAN
         /\ hostShaped' = hostShaped \/ docker[n] = "shared"
         /\ \A m \in Name \ {n}, d \in Iface : Marked(m, d)' <=> Marked(m, d)
         /\ \A d \in Iface \ {Dev(iface)} : Marked(n, d)' => Marked(n, d)
         /\ docker[n] = "shared" => (Marked(n, Dev(iface))' <=> Marked(n, Dev(iface)))
  <1>1. CASE docker[n] = "shared"
    BY <1>1 DEF Marked, Shape
  <1>2. CASE docker[n] # "shared"
    <2>0. UNCHANGED hostShaped
      BY <1>2 DEF Shape
    <2>1. PICK x \in NS!Namespace : Becomes(x, n, Dev(iface), cap, ok)
      BY <1>2, ShapeEffect
    <2>2. netns' \in [Name -> NS!Namespace] /\ netns'[n] = x
          /\ \A m \in Name \ {n} : netns'[m] = netns[m]
      BY <2>1 DEF Becomes
    <2>3. \A m \in Name \ {n}, d \in Iface : Marked(m, d)' <=> Marked(m, d)
      BY <2>2 DEF Marked
    <2>4. \A d \in Iface \ {Dev(iface)} : Marked(n, d)' => Marked(n, d)
      BY <2>1, <2>2 DEF Becomes, Marked, Near
    <2> QED BY <1>2, <2>0, <2>2, <2>3, <2>4
  <1> QED BY <1>1, <1>2

\* Clearing a device with success leaves no rule for it.
LEMMA ClearMarks ==
  ASSUME netns \in [Name -> NS!Namespace], NEW n \in Name, NEW iface, Dev(iface) \in Iface,
         NEW mayFail, Shape(n, iface, NoCap, mayFail, TRUE), docker[n] # "shared"
  PROVE  ~Marked(n, Dev(iface))'
  <1>1. PICK x \in NS!Namespace : Becomes(x, n, Dev(iface), NoCap, TRUE)
    BY CapsType, ShapeEffect
  <1>2. netns'[n] = x /\ x.up[Dev(iface)] = 0 /\ x.jumps = {}
    BY <1>1 DEF Becomes
  <1> QED BY <1>2 DEF Marked

\* A container that starts, stops or pauses gains no rule, and is left with
\* none when it has no namespace of its own.
LEMMA BecomeMarks ==
  ASSUME netns \in [Name -> NS!Namespace], NEW n \in Name, NEW s, Become(n, s),
         docker \in [Name -> {"own", "shared", "paused", "exited"}]
  PROVE  /\ netns' \in [Name -> NS!Namespace]
         /\ \A m \in Name, d \in Iface : Marked(m, d)' => Marked(m, d)
         /\ s \notin {"own", "paused"} => Unmarked(n)'
         /\ docker' = [docker EXCEPT ![n] = s]
         /\ UNCHANGED <<cfg, setting, hostShaped, tick>>
  <1>1. CASE netns' = netns /\ s \in {"own", "paused"}
    BY <1>1 DEF Become, Marked
  <1>2. CASE netns' = [netns EXCEPT ![n] = NS!Clean]
    <2>1. netns' \in [Name -> NS!Namespace] /\ netns'[n] = NS!Clean
          /\ \A m \in Name \ {n} : netns'[m] = netns[m]
      BY <1>2, CleanType
    <2>2. \A d \in Iface : ~Marked(n, d)'
      BY <2>1, CleanType DEF Marked
    <2>3. \A m \in Name \ {n}, d \in Iface : Marked(m, d)' <=> Marked(m, d)
      BY <2>1 DEF Marked
    <2> QED BY <2>1, <2>2, <2>3 DEF Become, Unmarked
  <1> QED BY <1>1, <1>2 DEF Become

LEMMA InitIInv == Init => IInv
  <1> SUFFICES ASSUME Init
               PROVE  IInv
    OBVIOUS
  <1>1. TypeOK
    BY CleanType, CapsType DEF Init, TypeOK, Nothing
  <1>2. ASSUME NEW n \in Name
        PROVE  Unmarked(n)
    <2>1. netns[n] = NS!Clean
      BY DEF Init
    <2> QED BY <2>1, CleanType DEF Unmarked, Marked
  <1>3. Remembered
    BY <1>2 DEF Remembered, Unmarked
  <1> QED
    BY <1>1, <1>2, <1>3 DEF Init, IInv, OwnRules, Clearing, Sound, HostSafe, OnGoal, Pending

LEMMA NextType == IInv /\ [Next]_vars => TypeOK'
  <1> SUFFICES ASSUME IInv, [Next]_vars
               PROVE  TypeOK'
    OBVIOUS
  <1> TypeOK /\ Clearing
    BY DEF IInv
  <1> USE DEF TypeOK, world, local, Lapse
  <1>1. CASE BeginTick
    BY <1>1 DEF BeginTick
  <1>2. CASE ListFails
    BY <1>2, CapsType DEF ListFails, Idle, Nothing
  <1>3. CASE List
    BY <1>3 DEF List
  <1>4. CASE ClearsDone
    BY <1>4 DEF ClearsDone
  <1>5. CASE EndTick
    BY <1>5, CapsType DEF EndTick, Idle, Nothing
  <1>6. ASSUME NEW n \in Name, Keep(n) \/ Skip(n) \/ ApplyUnreachable(n)
        PROVE  TypeOK'
    BY <1>6 DEF Keep, Skip, ApplyUnreachable, Look
  <1>7. ASSUME NEW n \in Name, Drop(n)
        PROVE  TypeOK'
    BY <1>7 DEF Drop, Look, Forget
  <1>8. ASSUME NEW n \in Name, ClearUnreachable(n)
        PROVE  TypeOK'
    BY <1>8 DEF ClearUnreachable, Look
  <1>9. ASSUME NEW n \in Name, Clear(n)
        PROVE  TypeOK'
    <2>1. PICK ok \in BOOLEAN : /\ Shape(n, prev[n], NoCap, "clear" \in Faults, ok)
                                /\ Lapse(~ok)
      BY <1>9 DEF Clear
    <2>2. Dev(prev[n]) \in Iface
      BY <1>9, DevType DEF Clear, Look, Clearing
    <2>3. netns' \in [Name -> NS!Namespace] /\ hostShaped' \in BOOLEAN
      BY <2>1, <2>2, CapsType, ShapeMarks
    <2> QED BY <1>9, <2>1, <2>3 DEF Clear, Look, Forget
  <1>10. ASSUME NEW n \in Name, NEW iface \in Target, ApplyCap(n, iface, TRUE)
         PROVE  TypeOK'
    <2>1. PICK ok \in BOOLEAN : /\ Shape(n, iface, tcfg[n], TRUE, ok)
                                /\ Remember(n, iface, ok)
      BY <1>10 DEF ApplyCap
    <2>2. iface \in Iface \cup {""} /\ Dev(iface) \in Iface
      BY DevType, TargetType
    <2>3. netns' \in [Name -> NS!Namespace] /\ hostShaped' \in BOOLEAN
      BY <2>1, <2>2, ShapeMarks
    <2> QED BY <1>10, <2>1, <2>2, <2>3 DEF ApplyCap, Look, Remember
  <1>11. ASSUME NEW n \in Name, NEW s \in {"own", "shared", "paused", "exited"}, Become(n, s),
                lapsed' \in BOOLEAN
         PROVE  TypeOK'
    <2>1. /\ netns' \in [Name -> NS!Namespace] /\ docker' = [docker EXCEPT ![n] = s]
          /\ UNCHANGED <<cfg, setting, hostShaped, tick>>
      BY <1>11, BecomeMarks
    <2> QED BY <1>11, <2>1 DEF tick
  <1>12. ASSUME NEW n \in Name, Start(n) \/ Stop(n) \/ Pause(n) \/ Unpause(n)
         PROVE  TypeOK'
    BY <1>11, <1>12 DEF Start, Stop, Pause, Unpause
  <1>13. CASE Configure
    BY <1>13 DEF Configure, tick
  <1>14. CASE DaemonRestarts
    BY <1>14, CapsType DEF DaemonRestarts, Idle, Nothing
  <1>15. CASE UNCHANGED vars
    BY <1>15 DEF vars
  <1> QED
    BY <1>1, <1>2, <1>3, <1>4, <1>5, <1>6, <1>7, <1>8, <1>9, <1>10, <1>12, <1>13, <1>14, <1>15
    DEF Next, Tick, World

-----------------------------------------------------------------------------
(* The steps *)

LEMMA SameMarks ==
  ASSUME UNCHANGED netns
  PROVE  \A n \in Name, d \in Iface : Marked(n, d)' <=> Marked(n, d)
  BY DEF Marked

\* What a step of the tick that runs no command keeps.
LEMMA NoCommand ==
  ASSUME IInv, UNCHANGED <<docker, netns>>
  PROVE  OwnRules'
  BY SameMarks DEF IInv, OwnRules, Unmarked

\* Nor does one that runs commands in a namespace that is the container's own.
LEMMA MarksGained ==
  ASSUME IInv, NEW n \in Name, NEW e, docker[n] # "exited", UNCHANGED docker,
         \A m \in Name \ {n}, d \in Iface : Marked(m, d)' <=> Marked(m, d),
         \A d \in Iface \ {e} : Marked(n, d)' => Marked(n, d),
         docker[n] = "shared" => (Marked(n, e)' <=> Marked(n, e))
  PROVE  OwnRules'
  <1>1. ASSUME NEW m \in Name, docker'[m] \notin {"own", "paused"}, NEW d \in Iface
        PROVE  ~Marked(m, d)'
    <2>1. ~Marked(m, d)
      BY <1>1 DEF IInv, OwnRules, Unmarked
    <2>2. m = n => docker[n] = "shared"
      BY <1>1 DEF IInv, TypeOK
    <2> QED BY <2>1, <2>2
  <1> QED BY <1>1 DEF OwnRules, Unmarked

LEMMA NextIInv == IInv /\ [Next]_vars => IInv'
  <1> SUFFICES ASSUME IInv, [Next]_vars
               PROVE  OwnRules' /\ Clearing' /\ (~lapsed' => Sound')
    BY NextType DEF IInv
  <1> TypeOK /\ OwnRules /\ Clearing /\ (~lapsed => Sound)
    BY DEF IInv
  <1> TypeOK'
    BY NextType
  <1> USE DEF world, local, Lapse, Clearing, Sound, Remembered, HostSafe, OnGoal, Pending
  <1>1. CASE BeginTick
    BY <1>1, SameMarks, NoCommand DEF BeginTick
  <1>2. CASE ListFails
    BY <1>2, SameMarks, NoCommand DEF ListFails, Idle
  <1>3. CASE List
    <2>1. \A n \in Name : seen'[n] \notin {"own", "paused"} => Unmarked(n)
      BY <1>3 DEF List, OwnRules
    <2>2. Clearing'
      BY <1>3, <2>1, SameMarks DEF List, Unmarked, TypeOK
    <2>3. ~lapsed' => Sound'
      BY <1>3, SameMarks DEF List, TypeOK
    <2> QED BY <1>3, <2>2, <2>3, NoCommand DEF List
  <1>4. CASE ClearsDone
    BY <1>4, SameMarks, NoCommand DEF ClearsDone, Desired, Goal
  <1>5. CASE EndTick
    BY <1>5, SameMarks, NoCommand DEF EndTick, Idle
  <1>6. ASSUME NEW n \in Name, Keep(n)
        PROVE  OwnRules' /\ Clearing' /\ (~lapsed' => Sound')
    <2>1. ~lapsed' => Dev(prev[n]) = Goal
      BY <1>6, SettingsAssumption, IfaceAssumption DEF Keep, Look, Kept, Dev, Goal, TypeOK
    <2>2. Clearing'
      BY <1>6, SameMarks DEF Keep, Look, Unmarked
    <2>3. ~lapsed' => Sound'
      BY <1>6, <2>1, SameMarks DEF Keep, Look, Desired, Goal
    <2> QED BY <1>6, <2>2, <2>3, NoCommand DEF Keep, Look
  <1>7. ASSUME NEW n \in Name, Drop(n)
        PROVE  OwnRules' /\ Clearing' /\ (~lapsed' => Sound')
    <2>1. ~lapsed' => Unmarked(n)
      BY <1>7 DEF Drop, Look
    <2>2. Clearing'
      BY <1>7, SameMarks DEF Drop, Look, Forget, Unmarked, TypeOK
    <2>3. ~lapsed' => Sound'
      BY <1>7, <2>1, SameMarks DEF Drop, Look, Forget, Desired, Goal, Unmarked, TypeOK
    <2> QED BY <1>7, <2>2, <2>3, NoCommand DEF Drop, Look
  <1>8. ASSUME NEW n \in Name, ClearUnreachable(n)
        PROVE  OwnRules' /\ Clearing' /\ (~lapsed' => Sound')
    <2>1. ~lapsed' /\ Desired(n) => Unmarked(n)
      BY <1>8 DEF ClearUnreachable, HasPid, OwnRules
    <2>2. Clearing'
      BY <1>8, SameMarks DEF ClearUnreachable, Look, Unmarked
    <2>3. ~lapsed' => Sound'
      BY <1>8, <2>1, SameMarks DEF ClearUnreachable, Look, Desired, Goal, Unmarked
    <2> QED BY <1>8, <2>2, <2>3, NoCommand DEF ClearUnreachable, Look
  <1>9. ASSUME NEW n \in Name, Clear(n)
        PROVE  OwnRules' /\ Clearing' /\ (~lapsed' => Sound')
    <2>0. PICK dev : dev = prev[n]
      OBVIOUS
    <2>1. PICK ok \in BOOLEAN : /\ Shape(n, dev, NoCap, "clear" \in Faults, ok)
                                /\ Lapse(~ok)
      BY <1>9, <2>0 DEF Clear
    <2>2. /\ Dev(dev) \in Iface /\ seen[n] = "own" /\ docker[n] # "exited"
          /\ shaped[n] = dev /\ pc = "clear" /\ n \in todo
      BY <1>9, <2>0, DevType DEF Clear, Look, HasPid, TypeOK
    <2>3. /\ hostShaped' = hostShaped \/ docker[n] = "shared"
          /\ \A m \in Name \ {n}, d \in Iface : Marked(m, d)' <=> Marked(m, d)
          /\ \A d \in Iface \ {Dev(dev)} : Marked(n, d)' => Marked(n, d)
          /\ docker[n] = "shared" => (Marked(n, Dev(dev))' <=> Marked(n, Dev(dev)))
      BY <2>1, <2>2, CapsType, ShapeMarks DEF TypeOK
    <2>4. OwnRules'
      BY <1>9, <2>2, <2>3, MarksGained DEF Clear, Look
    <2>5. Clearing'
      <3>1. shaped' = [shaped EXCEPT ![n] = "none"] /\ todo' = todo \ {n} /\ UNCHANGED <<pc, prev, seen>>
        BY <1>9 DEF Clear, Look, Forget
      <3>2. \A m \in Name : seen[m] \notin {"own", "paused"} => Unmarked(m)'
        BY <2>2, <2>3 DEF Unmarked
      <3> QED BY <3>1, <3>2 DEF TypeOK
    <2>6. ASSUME ~lapsed'
          PROVE  Sound'
      <3>1. ~lapsed /\ ok = TRUE /\ docker[n] # "shared"
        BY <2>1, <2>2, <2>6
      <3>2. \A d \in Iface : ~Marked(n, d)'
        <4>1. ~Marked(n, Dev(dev))'
          BY <2>1, <2>2, <3>1, ClearMarks DEF TypeOK
        <4> QED BY <2>2, <2>3, <3>1, <4>1
      <3>3. /\ shaped' = [shaped EXCEPT ![n] = "none"] /\ todo' = todo \ {n}
            /\ UNCHANGED <<pc, prev, seen, docker, tcfg, tsetting>>
        BY <1>9 DEF Clear, Look, Forget
      <3>4. Remembered'
        <4>1. ASSUME NEW m \in Name, NEW d \in Iface, Marked(m, d)'
              PROVE  shaped'[m] # "none" /\ Dev(shaped'[m]) = d
          <5>1. m # n
            BY <3>2, <4>1
          <5> QED BY <2>3, <3>1, <3>3, <4>1, <5>1 DEF TypeOK
        <4> QED BY <4>1 DEF Dev
      <3>5. HostSafe' /\ ~hostShaped'
        BY <2>3, <3>1, <3>3
      <3>6. OnGoal'
        BY <2>2, <2>3, <3>1, <3>2, <3>3 DEF Desired, Goal
      <3> QED BY <3>4, <3>5, <3>6
    <2> QED BY <2>4, <2>5, <2>6
  <1>10. ASSUME NEW n \in Name, Skip(n) \/ ApplyUnreachable(n)
         PROVE  OwnRules' /\ Clearing' /\ (~lapsed' => Sound')
    <2>1. /\ pc = "apply" /\ todo' = todo \ {n}
          /\ UNCHANGED <<world, netns, hostShaped, lapsed, shaped, pc, local>>
      BY <1>10 DEF Skip, ApplyUnreachable, Look
    <2>2. ~lapsed' => Sound'
      BY <2>1, SameMarks DEF Goal
    <2> QED BY <2>1, <2>2, NoCommand
  <1>11. ASSUME NEW n \in Name, NEW iface \in Target, ApplyCap(n, iface, TRUE)
         PROVE  OwnRules' /\ Clearing' /\ (~lapsed' => Sound')
    <2>1. PICK ok \in BOOLEAN : /\ Shape(n, iface, tcfg[n], TRUE, ok)
                                /\ Remember(n, iface, ok)
      BY <1>11 DEF ApplyCap
    <2>2. /\ iface \in Iface \cup {""} /\ Dev(iface) \in Iface /\ iface # "none"
          /\ iface # "" => Dev(iface) = Goal
          /\ seen[n] = "own" /\ docker[n] # "exited" /\ pc = "apply" /\ n \in todo
      BY <1>11, DevType, TargetType DEF ApplyCap, Look, HasPid, Shapeable, TypeOK
    <2>3. /\ hostShaped' = hostShaped \/ docker[n] = "shared"
          /\ \A m \in Name \ {n}, d \in Iface : Marked(m, d)' <=> Marked(m, d)
          /\ \A d \in Iface \ {Dev(iface)} : Marked(n, d)' => Marked(n, d)
          /\ docker[n] = "shared" => (Marked(n, Dev(iface))' <=> Marked(n, Dev(iface)))
      BY <2>1, <2>2, ShapeMarks DEF TypeOK
    <2>4. OwnRules'
      BY <1>11, <2>2, <2>3, MarksGained DEF ApplyCap, Look
    <2>5. Clearing'
      BY <1>11, <2>2 DEF ApplyCap, Look
    <2>6. ASSUME ~lapsed'
          PROVE  Sound'
      <3>1. ~lapsed /\ Dev(iface) = Goal /\ docker[n] # "shared"
        BY <1>11, <2>2, <2>6 DEF ApplyCap
      <3>2. \A d \in Iface : Marked(n, d)' => d = Dev(iface)
        BY <2>2, <2>3, <3>1
      <3>3. /\ shaped' = [shaped EXCEPT ![n] = iface] /\ todo' = todo \ {n}
            /\ UNCHANGED <<pc, seen, docker, tsetting>>
        BY <1>11, <2>1 DEF ApplyCap, Look, Remember
      <3>4. Remembered'
        <4>1. ASSUME NEW m \in Name, NEW d \in Iface, Marked(m, d)'
              PROVE  shaped'[m] # "none" /\ Dev(shaped'[m]) = d
          <5>1. CASE m = n
            BY <2>2, <3>2, <3>3, <4>1, <5>1 DEF TypeOK
          <5>2. CASE m # n
            BY <2>3, <3>1, <3>3, <4>1, <5>2 DEF TypeOK
          <5> QED BY <5>1, <5>2
        <4> QED BY <4>1 DEF Dev
      <3>5. HostSafe' /\ ~hostShaped'
        BY <2>3, <3>1, <3>3
      <3>6. OnGoal'
        BY <2>2, <2>3, <3>1, <3>3 DEF Goal
      <3> QED BY <3>4, <3>5, <3>6
    <2> QED BY <2>4, <2>5, <2>6
  <1>12. ASSUME NEW n \in Name, NEW s \in {"own", "shared", "paused", "exited"}, Become(n, s),
                lapsed \/ (s = "shared" /\ pc # "idle") => lapsed'
         PROVE  OwnRules' /\ Clearing' /\ (~lapsed' => Sound')
    <2>1. /\ \A m \in Name, d \in Iface : Marked(m, d)' => Marked(m, d)
          /\ s \notin {"own", "paused"} => Unmarked(n)'
          /\ docker' = [docker EXCEPT ![n] = s]
          /\ UNCHANGED <<cfg, setting, hostShaped, tick>>
      BY <1>12, BecomeMarks DEF TypeOK
    <2>2. OwnRules'
      <3>1. ASSUME NEW m \in Name, docker'[m] \notin {"own", "paused"}
            PROVE  Unmarked(m)'
        <4>1. CASE m = n
          BY <2>1, <3>1, <4>1 DEF TypeOK
        <4>2. CASE m # n
          BY <2>1, <3>1, <4>2 DEF OwnRules, Unmarked, TypeOK
        <4> QED BY <4>1, <4>2
      <3> QED BY <3>1 DEF OwnRules
    <2>3. Clearing'
      BY <2>1 DEF tick, Unmarked
    <2>4. ~lapsed' => Sound'
      BY <1>12, <2>1 DEF tick, Desired, Goal, TypeOK
    <2> QED BY <2>2, <2>3, <2>4
  <1>13. ASSUME NEW n \in Name, Start(n) \/ Stop(n) \/ Pause(n) \/ Unpause(n)
         PROVE  OwnRules' /\ Clearing' /\ (~lapsed' => Sound')
    <2>1. CASE Start(n)
      <3>1. PICK s \in {"own", "shared"} : Lapse(s = "shared" /\ pc # "idle") /\ Become(n, s)
        BY <2>1 DEF Start
      <3> QED BY <1>12, <3>1
    <2>2. CASE Stop(n) \/ Pause(n) \/ Unpause(n)
      <3>1. PICK s \in {"own", "paused", "exited"} : Become(n, s) /\ UNCHANGED lapsed
        BY <2>2 DEF Stop, Pause, Unpause
      <3> QED BY <1>12, <3>1
    <2> QED BY <1>13, <2>1, <2>2
  <1>14. CASE Configure
    <2>1. UNCHANGED <<docker, netns, hostShaped, lapsed, tick>>
      BY <1>14 DEF Configure
    <2>2. Clearing'
      BY <2>1, SameMarks DEF tick, Unmarked
    <2>3. ~lapsed' => Sound'
      BY <2>1, SameMarks DEF tick, Desired, Goal
    <2> QED BY <2>1, <2>2, <2>3, NoCommand
  <1>15. CASE DaemonRestarts
    BY <1>15, SameMarks, NoCommand DEF DaemonRestarts, Idle
  <1>16. CASE UNCHANGED vars
    BY <1>16, SameMarks, NoCommand DEF vars, Unmarked, Desired, Goal
  <1> QED
    BY <1>1, <1>2, <1>3, <1>4, <1>5, <1>6, <1>7, <1>8, <1>9, <1>10, <1>11, <1>13, <1>14,
       <1>15, <1>16
    DEF Next, Tick, World

-----------------------------------------------------------------------------
(* The theorems *)

\* The state keeps its type: what is remembered is a device, and no command,
\* failing or not, leaves a namespace that could not exist.
THEOREM TypeCorrect == Spec => []TypeOK
  <1>1. IInv => TypeOK
    BY DEF IInv
  <1> QED BY InitIInv, NextIInv, <1>1, PTL DEF Spec

\* A cap in force is a rule.
LEMMA CapIsMarked ==
  ASSUME TypeOK, NEW n \in Name, NEW d \in Iface, Capped(n, d)
  PROVE  Marked(n, d)
  <1>1. CASE NS!Upload(netns[n], d) > 0
    BY <1>1 DEF Marked, NS!Upload
  <1>2. CASE NS!Download(netns[n], d) > 0
    BY <1>2 DEF Marked, NS!Download
  <1> QED BY <1>1, <1>2 DEF Capped

\* Unless one of the lapses happened, every cap in force is on the device that
\* is remembered for its container, so that a later tick can lift it, and no
\* command was run in the host's namespace.
THEOREM CapsAreRememberedHolds == Spec => []CapsAreRemembered
  <1>1. IInv => CapsAreRemembered
    BY CapIsMarked DEF IInv, CapsAreRemembered, NoCapIsForgotten, Sound, Remembered
  <1> QED BY InitIInv, NextIInv, <1>1, PTL DEF Spec
=============================================================================

------------------------------ MODULE NetShape ------------------------------
(***************************************************************************)
(* internal/netshape: what Apply makes of the rules in one container's     *)
(* network namespace.  An upload cap is a tbf qdisc on a device; a download cap *)
(* is the rule of one private chain, CC_DL, and a jump to it for every device it *)
(* polices.  Apply runs a handful of tc and iptables commands, and each of them *)
(* may fail, with or without having worked (a 5 s timeout kills nsenter).  *)
(* A check (-C) fails only when what it checks is not there.               *)
(***************************************************************************)
EXTENDS Integers

CONSTANT Iface                \* the devices of a container

NoChain == -1                 \* CC_DL does not exist; 0: it is empty

\* up: the upload cap of a device, 0 for none; chain: the download rule's rate.
Namespace == [up : [Iface -> Nat], chain : Nat \cup {NoChain}, jumps : SUBSET Iface]

Clean == [up |-> [d \in Iface |-> 0], chain |-> NoChain, jumps |-> {}]

\* The caps in force on a device.
Upload(ns, d)   == ns.up[d]
Download(ns, d) == IF d \in ns.jumps /\ ns.chain > 0 THEN ns.chain ELSE 0

\* How a command that makes ns into "after" can end.
Outcomes(ns, after, mayFail) ==
    {[ns |-> after, ok |-> TRUE]} \cup
    (IF mayFail THEN {[ns |-> x, ok |-> FALSE] : x \in {ns, after}} ELSE {})

Refused(ns) == {[ns |-> ns, ok |-> FALSE]}

\* The next command, whatever came of the last one; or only if it worked.
Anyway(R, Command(_)) == UNION {Command(r.ns) : r \in R}
IfOk(R, Command(_))   == UNION {IF r.ok THEN Command(r.ns) ELSE {r} : r \in R}

\* tc qdisc replace, or del: deleting what is not there is no error.
SetEgress(ns, d, kbit, mayFail) == Outcomes(ns, [ns EXCEPT !.up[d] = kbit], mayFail)

\* -D, -F and -X, all three in any case; only the last one's error counts.  iptables
\* deletes no chain that holds a rule or that is jumped to.
ClearIngress(ns, d, mayFail) ==
    LET Flush(x)  == Outcomes(x, [x EXCEPT !.chain = IF @ = NoChain THEN @ ELSE 0], mayFail)
        Delete(x) == IF x.chain > 0 \/ x.jumps # {} THEN Refused(x)
                     ELSE Outcomes(x, [x EXCEPT !.chain = NoChain], mayFail)
    IN  Anyway(Anyway(Outcomes(ns, [ns EXCEPT !.jumps = @ \ {d}], mayFail), Flush), Delete)

\* Mutant: an existing chain keeps its old rule.
PoliceIngress_NoFlush(ns, d, kbit, mayFail) ==
    IF ns.chain > 0 THEN Outcomes(ns, [ns EXCEPT !.jumps = @ \cup {d}], mayFail)
    ELSE Outcomes(ns, [ns EXCEPT !.chain = kbit, !.jumps = @ \cup {d}], mayFail)

\* -N (whose error is ignored), -F, -A and, if there is none, -I of the jump.
PoliceIngress(ns, d, kbit, mayFail) ==
    LET Flush(x)  == IF x.chain = NoChain THEN Refused(x)
                     ELSE Outcomes(x, [x EXCEPT !.chain = 0], mayFail)
        Append(x) == Outcomes(x, [x EXCEPT !.chain = kbit], mayFail)
        Jump(x)   == IF d \in x.jumps THEN {[ns |-> x, ok |-> TRUE]}
                     ELSE Outcomes(x, [x EXCEPT !.jumps = @ \cup {d}], mayFail)
        New       == [ns EXCEPT !.chain = IF @ = NoChain THEN 0 ELSE @]
    IN  IF ns.chain = kbit /\ d \in ns.jumps
        THEN {[ns |-> ns, ok |-> TRUE]}
        ELSE IfOk(IfOk(Anyway(Outcomes(ns, New, mayFail), Flush), Append), Jump)

\* Every possible end of Apply: the rules it leaves, and whether it reports success.
Apply(ns, d, up, down, mayFail) ==
    UNION {{[ns |-> i.ns, ok |-> e.ok /\ i.ok] :
              i \in IF down > 0 THEN PoliceIngress(e.ns, d, down, mayFail)
                                ELSE ClearIngress(e.ns, d, mayFail)} :
           e \in SetEgress(ns, d, up, mayFail)}
=============================================================================

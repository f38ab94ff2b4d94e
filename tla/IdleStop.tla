------------------------------ MODULE IdleStop ------------------------------
(***************************************************************************)
(* tickIdleStop of internal/monitor: the containers it samples, the clock it *)
(* keeps for each, and the stops it decides on.                            *)
(*                                                                         *)
(* Time and traffic are counted in small units: every reading of the clock is a *)
(* new, later instant, and Floor units of traffic per unit of time are still *)
(* idle.  The CPU threshold is folded into what a sample says: "low" or "high". *)
(***************************************************************************)
EXTENDS Integers, Sequences

CONSTANTS
    Name,        \* containers
    Nobody,      \* not a container
    Windows,     \* the idle windows the user may configure; 0 for none
    Others,      \* whether containers beside Name may be configured: of TRUE and FALSE
    Floor,       \* traffic per unit of time that does not count
    MaxNet,      \* bound on a container's traffic counter
    MaxTime      \* bound on the clock

ASSUME NobodyAssumption == Nobody \notin Name
ASSUME BoundAssumption  == Floor \in Nat /\ MaxNet \in Nat /\ MaxTime \in Nat
ASSUME OthersAssumption == Others \subseteq BOOLEAN
ASSUME WindowAssumption == Windows \subseteq Nat

Never == -1

\* "shared": running in another's network namespace.
Container == [state : {"own", "shared", "off"}, net : 0..MaxNet]

\* idleTrack; netAt is Never until hasNet.
Track   == [busyAt : 0..MaxTime, net : 0..MaxNet, netAt : {Never} \cup 0..MaxTime]
NoTrack == [busyAt |-> Never, net |-> 0, netAt |-> Never]

Sample   == [cpu : {"low", "high", "unreadable"}, net : 0..MaxNet]
NoSample == [cpu |-> "none", net |-> 0]

VARIABLES
    now, cfg, docker,
    idle,                                     \* Monitor.idle
    pc, tcfg, tnow, todo, sample, cur,        \* the tick
    log                                       \* every sample of the present watch

tick == <<pc, tcfg, tnow, todo, sample, cur>>
vars == <<now, cfg, docker, idle, tick, log>>

NoWindows == [n \in Name |-> 0]
NoSamples == [n \in Name |-> NoSample]

Init ==
    /\ now = 0
    /\ cfg \in [Name -> Windows]
    /\ docker = [n \in Name |-> [state |-> "own", net |-> 0]]
    /\ idle = [n \in Name |-> NoTrack]
    /\ pc = "idle" /\ tcfg = NoWindows /\ tnow = 0
    /\ todo = {} /\ sample = NoSamples /\ cur = Nobody
    /\ log = [n \in Name |-> <<>>]

-----------------------------------------------------------------------------
(* The tick *)

Idle ==
    /\ pc' = "idle"
    /\ tcfg' = NoWindows /\ todo' = {} /\ sample' = NoSamples
    /\ cur' = Nobody

\* The watch of the containers in S ends.
Forget(S) ==
    /\ idle' = [n \in Name |-> IF n \in S THEN NoTrack ELSE idle[n]]
    /\ log'  = [n \in Name |-> IF n \in S THEN <<>> ELSE log[n]]

\* With nothing configured the tick only drops the clocks.
BeginTick ==
    /\ pc = "idle"
    /\ \/ /\ FALSE \in Others /\ \A n \in Name : cfg[n] = 0
          /\ Forget(Name)
          /\ UNCHANGED tick
       \/ /\ TRUE \in Others \/ \E n \in Name : cfg[n] > 0
          /\ tcfg' = cfg
          /\ pc' = "list"
          /\ UNCHANGED <<idle, log, tnow, todo, sample, cur>>
    /\ UNCHANGED <<now, cfg, docker>>

ListFails ==
    /\ pc = "list"
    /\ Idle
    /\ UNCHANGED <<now, cfg, docker, idle, tnow, log>>

Candidates == {n \in Name : tcfg[n] > 0 /\ docker[n].state = "own"}

\* Mutant: the clock of a container that is no longer configured is kept.
Prune_Configured ==
    LET S == {n \in Name : tcfg[n] > 0 /\ docker[n].state # "own"}
    IN  /\ idle' = [n \in Name |-> IF n \in S THEN NoTrack ELSE idle[n]]
        /\ log'  = [n \in Name |-> IF n \in Candidates THEN log[n] ELSE <<>>]

\* No longer configured, not running, or sharing a namespace.
Prune == Forget(Name \ Candidates)

List ==
    /\ pc = "list"
    /\ now' \in (now + 1)..MaxTime
    /\ tnow' = now'
    /\ todo' = Candidates
    /\ pc' = "sample"
    /\ Prune
    /\ UNCHANGED <<cfg, docker, tcfg, sample, cur>>

\* StatsLive; a container that is off answers with zeros, or not at all.
TakeSample(n) ==
    /\ pc = "sample" /\ n \in todo /\ sample[n] = NoSample
    /\ \E s \in Sample :
         /\ s.net = IF docker[n].state = "off" \/ s.cpu = "unreadable" THEN 0 ELSE docker[n].net
         /\ docker[n].state = "off" => s.cpu # "high"
         /\ sample' = [sample EXCEPT ![n] = s]
    /\ UNCHANGED <<now, cfg, docker, idle, pc, tcfg, tnow, todo, cur, log>>

\* All samples are waited for.
Sampled ==
    /\ pc = "sample"
    /\ \A n \in todo : sample[n] # NoSample
    /\ pc' = "decide"
    /\ UNCHANGED <<now, cfg, docker, idle, tcfg, tnow, todo, sample, cur, log>>

Readable(s) == s.cpu # "unreadable"

\* A counter that goes backwards is a restart, and counts as activity.
Traffic(n) ==
    /\ idle[n].netAt # Never
    /\ \/ sample[n].net < idle[n].net
       \/ sample[n].net - idle[n].net > Floor * (tnow - idle[n].netAt)

Busy(n) == sample[n].cpu # "low" \/ (Readable(sample[n]) /\ Traffic(n))

\* Mutant: an instant that was never set is not written.
Clock_FromZero(n) == IF Busy(n) THEN tnow ELSE idle[n].busyAt

\* Busy, or seen for the first time: the clock starts again.
Clock(n) == IF Busy(n) \/ idle[n].busyAt = Never THEN tnow ELSE idle[n].busyAt

NewTrack(n) ==
    [busyAt |-> Clock(n),
     net    |-> IF Readable(sample[n]) THEN sample[n].net ELSE idle[n].net,
     netAt  |-> IF Readable(sample[n]) THEN tnow ELSE idle[n].netAt]

\* The clock, and a call of Stop if it has run for the whole window.
Decide(n) ==
    /\ pc = "decide" /\ n \in todo
    /\ todo' = todo \ {n}
    /\ idle' = [idle EXCEPT ![n] = NewTrack(n)]
    /\ log' = [log EXCEPT ![n] = Append(@, [at |-> tnow, cpu |-> sample[n].cpu, net |-> sample[n].net])]
    /\ IF Clock(n) # tnow /\ tnow - Clock(n) >= tcfg[n]
       THEN pc' = "stopping" /\ cur' = n
       ELSE UNCHANGED <<pc, cur>>
    /\ UNCHANGED <<now, cfg, docker, tcfg, tnow, sample>>

Off(c) == [c EXCEPT !.state = "off", !.net = 0]

StopWorks ==
    /\ pc = "stopping"
    /\ docker' = [docker EXCEPT ![cur] = Off(@)]
    /\ Forget({cur})
    /\ pc' = "decide" /\ cur' = Nobody
    /\ UNCHANGED <<now, cfg, tcfg, tnow, todo, sample>>

\* Stop fails; the client may have given up on a stop that goes on.
StopFails ==
    /\ pc = "stopping"
    /\ docker' \in {docker, [docker EXCEPT ![cur] = Off(@)]}
    /\ pc' = "decide" /\ cur' = Nobody
    /\ UNCHANGED <<now, cfg, idle, tcfg, tnow, todo, sample, log>>

EndTick ==
    /\ pc = "decide" /\ todo = {}
    /\ Idle
    /\ UNCHANGED <<now, cfg, docker, idle, tnow, log>>

-----------------------------------------------------------------------------
(* The user, the containers and the daemon *)

Become(n, c) ==
    /\ docker' = [docker EXCEPT ![n] = c]
    /\ UNCHANGED <<now, cfg, idle, tick, log>>

\* A container that starts may be another of the same name, in another network.
Start(n) ==
    /\ docker[n].state = "off"
    /\ \E s \in {"own", "shared"} : Become(n, [state |-> s, net |-> 0])
Stop(n)    == docker[n].state # "off" /\ Become(n, Off(docker[n]))
Transfer(n) == /\ docker[n].state = "own" /\ docker[n].net < MaxNet
               /\ \E k \in (docker[n].net + 1)..MaxNet : Become(n, [docker[n] EXCEPT !.net = k])

Configure(n) ==
    /\ \E w \in Windows : cfg' = [cfg EXCEPT ![n] = w]
    /\ UNCHANGED <<now, docker, idle, tick, log>>

DaemonRestarts ==
    /\ Idle
    /\ Forget(Name)
    /\ UNCHANGED <<now, cfg, docker, tnow>>

Tick == \/ BeginTick \/ ListFails \/ List \/ Sampled \/ StopWorks \/ StopFails \/ EndTick
        \/ \E n \in Name : TakeSample(n) \/ Decide(n)

World == \/ \E n \in Name : Start(n) \/ Stop(n) \/ Transfer(n) \/ Configure(n)
         \/ DaemonRestarts

Next == Tick \/ World

Spec == Init /\ [][Next]_vars

-----------------------------------------------------------------------------
(* Properties *)

TypeOK ==
    /\ now \in 0..MaxTime /\ tnow \in 0..now
    /\ cfg \in [Name -> Windows] /\ tcfg \in [Name -> Windows \cup {0}]
    /\ docker \in [Name -> Container]
    /\ idle \in [Name -> Track \cup {NoTrack}]
    /\ pc \in {"idle", "list", "sample", "decide", "stopping"}
    /\ todo \subseteq Name
    /\ sample \in [Name -> Sample \cup {NoSample}]
    /\ cur \in Name \cup {Nobody} /\ (pc = "stopping" <=> cur # Nobody)

\* Sample i of a watch, judged by the whole watch: too much CPU, no answer, or a
\* counter that moved too far from the last readable one, or back.
LooksBusy(w, i) ==
    LET before == {j \in 1..(i - 1) : w[j].cpu # "unreadable"}
    IN  \/ w[i].cpu # "low"
        \/ \E j \in before : /\ \A k \in before : k <= j
                             /\ \/ w[i].net < w[j].net
                                \/ w[i].net - w[j].net > Floor * (w[i].at - w[j].at)

\* Watched for the whole window, without one busy sample inside it.
IdleThroughout(w, t, window) ==
    /\ w[1].at <= t - window
    /\ \A i \in DOMAIN w : w[i].at > t - window => ~LooksBusy(w, i)

\* tickIdleStop's contract: of the containers it decides about, it stops exactly those
\* that have been watched for their whole window and looked idle in every sample of it -
\* although it remembers no samples, only a clock and the last counter.
StopsExactlyTheIdle ==
    [][\A n \in Name : (n \in todo /\ n \notin todo' /\ pc = "decide" /\ pc' \in {"decide", "stopping"}) =>
          (cur' = n <=> IdleThroughout(log'[n], tnow, tcfg[n]))]_vars
=============================================================================

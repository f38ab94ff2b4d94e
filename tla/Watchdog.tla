----------------------------- MODULE Watchdog -----------------------------
(***************************************************************************)
(* tickWatchdogs of internal/monitor beside the containers it watches and  *)
(* the user who stops, starts and reconfigures them.  A tick takes a list  *)
(* of the containers once and then works through the entries; the calls to *)
(* Docker are steps of their own, so anything may happen in between.       *)
(*                                                                         *)
(* Time is counted in units of which Hour make an hour; every reading of   *)
(* the clock is a new, later instant.  Alerts are left out.  PUT /config does not *)
(* reject a second entry for a container; the UI writes one.               *)
(***************************************************************************)
EXTENDS Integers, FiniteSets

CONSTANTS
    Name,        \* the watched containers
    Nobody,      \* not a container
    Entries,     \* the entries the user may save
    Hour,        \* the length of the cap's window
    MaxTime,     \* bound on the clock
    StopCodes    \* how a container that is told to stop exits

ASSUME NobodyAssumption == Nobody \notin Name
ASSUME HourAssumption   == Hour \in Nat \ {0}
ASSUME TimeAssumption   == MaxTime \in Nat

Entry == [enabled : BOOLEAN, onUnhealthy : BOOLEAN, onExit : BOOLEAN, max : Nat]

ASSUME EntriesAssumption == Entries \subseteq Entry

\* code: "quiet" stands for 0, 130, 137 and 143.
Container == [state : {"running", "exited"}, code : {"none", "quiet", "crash"},
              health : {"fine", "unhealthy"}]

Running == [state |-> "running", code |-> "none", health |-> "fine"]

ASSUME StopCodesAssumption == StopCodes \subseteq {"quiet", "crash"}

VARIABLES
    now,        \* the wall clock
    cfg,        \* the saved watchdog entries
    docker,     \* the containers
    pc,         \* where the tick is
    tcfg, list, \* the tick's configuration and list
    todo,       \* entries it has still to look at
    tnow,       \* its reading of the clock
    cur,        \* the container it is restarting
    restarts,   \* Monitor.restarts
    attempts    \* every capped attempt of this daemon, never pruned

tick == <<pc, tcfg, list, todo, tnow, cur>>
vars == <<now, cfg, docker, tick, restarts, attempts>>

\* The locals of a tick, while none is running.
NoEntries == [n \in Name |-> [enabled |-> FALSE, onUnhealthy |-> FALSE, onExit |-> FALSE, max |-> 0]]
NoList    == [n \in Name |-> Running]

Init ==
    /\ now = 0
    /\ cfg \in [Name -> Entries]
    /\ docker = [n \in Name |-> Running]
    /\ pc = "idle"
    /\ tcfg = NoEntries /\ list = NoList /\ todo = {} /\ tnow = 0 /\ cur = Nobody
    /\ restarts = [n \in Name |-> {}]
    /\ attempts = [n \in Name |-> {}]

-----------------------------------------------------------------------------
(* The tick *)

BeginTick ==
    /\ pc = "idle"
    /\ tcfg' = cfg
    /\ pc' = "list"
    /\ UNCHANGED <<now, cfg, docker, list, todo, tnow, cur, restarts, attempts>>

ListFails ==
    /\ pc = "list"
    /\ pc' = "idle"
    /\ tcfg' = NoEntries
    /\ UNCHANGED <<now, cfg, docker, list, todo, tnow, cur, restarts, attempts>>

List ==
    /\ pc = "list"
    /\ now' \in (now + 1)..MaxTime
    /\ tnow' = now'
    /\ list' = docker
    /\ todo' = {n \in Name : tcfg[n].enabled}
    /\ pc' = "loop"
    /\ UNCHANGED <<cfg, docker, tcfg, cur, restarts, attempts>>

Trigger(n) ==
    \/ tcfg[n].onUnhealthy /\ list[n].health = "unhealthy"
    \/ tcfg[n].onExit /\ list[n].state = "exited" /\ list[n].code = "crash"

\* Mutants: the history keeps what is old and drops what is recent; the cap is
\* compared with <=.
Recent_Old(n)       == {t \in restarts[n] : t <= tnow - Hour}
AllowRestart_Le(n)  == tcfg[n].max = 0 \/ Cardinality({t \in restarts[n] : t > tnow - Hour}) <= tcfg[n].max

\* What allowRestart keeps of the history: strictly younger than an hour.
Recent(n) == {t \in restarts[n] : t > tnow - Hour}

AllowRestart(n) == tcfg[n].max = 0 \/ Cardinality(Recent(n)) < tcfg[n].max

\* Mutant: the attempt is stamped with the instant its call will time out.
Record_AtDeadline(n, history) == history \cup {tnow + 1}

\* recordRestart, before the attempt, so that a failing restart counts too.
Record(n, history) == history \cup {tnow}

Look(n) == pc = "loop" /\ n \in todo /\ todo' = todo \ {n}

Pass(n) ==
    /\ Look(n)
    /\ ~Trigger(n)
    /\ UNCHANGED <<now, cfg, docker, pc, tcfg, list, tnow, cur, restarts, attempts>>

GiveUp(n) ==
    /\ Look(n)
    /\ Trigger(n) /\ ~AllowRestart(n)
    /\ restarts' = [restarts EXCEPT ![n] = Recent(n)]
    /\ UNCHANGED <<now, cfg, docker, pc, tcfg, list, tnow, cur, attempts>>

CallRestart(n) ==
    /\ Look(n)
    /\ Trigger(n) /\ AllowRestart(n)
    /\ IF tcfg[n].max > 0
       THEN /\ restarts' = [restarts EXCEPT ![n] = Record(n, Recent(n))]
            /\ attempts' = [attempts EXCEPT ![n] = @ \cup {tnow}]
       ELSE UNCHANGED <<restarts, attempts>>
    /\ pc' = "restarting"
    /\ cur' = n
    /\ UNCHANGED <<now, cfg, docker, tcfg, list, tnow>>

\* The daemon restarts the container, or fails; the client may give up after 30s
\* on a restart that goes on, so a failed call may still have restarted it.
RestartReturns ==
    /\ pc = "restarting"
    /\ docker' \in {docker, [docker EXCEPT ![cur] = Running]}
    /\ pc' = "loop"
    /\ cur' = Nobody
    /\ UNCHANGED <<now, cfg, tcfg, list, todo, tnow, restarts, attempts>>

EndTick ==
    /\ pc = "loop" /\ todo = {}
    /\ pc' = "idle"
    /\ tcfg' = NoEntries /\ list' = NoList
    /\ UNCHANGED <<now, cfg, docker, todo, tnow, cur, restarts, attempts>>

-----------------------------------------------------------------------------
(* The containers, the user and the daemon *)

Become(n, s) ==
    /\ docker' = [docker EXCEPT ![n] = s]
    /\ UNCHANGED <<now, cfg, tick, restarts, attempts>>

Exited(code) == [state |-> "exited", code |-> code, health |-> "fine"]

Crash(n)      == docker[n].state = "running" /\ Become(n, Exited("crash"))
Finish(n)     == docker[n].state = "running" /\ Become(n, Exited("quiet"))
Sicken(n)     == docker[n].state = "running" /\ Become(n, [docker[n] EXCEPT !.health = "unhealthy"])
UserStart(n)  == docker[n].state = "exited" /\ Become(n, Running)
UserStop(n)   == /\ docker[n].state = "running"
                 /\ \E code \in StopCodes : Become(n, Exited(code))

Configure(n) ==
    /\ \E e \in Entries : cfg' = [cfg EXCEPT ![n] = e]
    /\ UNCHANGED <<now, docker, tick, restarts, attempts>>

\* The daemon is restarted: its history is memory only.
DaemonRestarts ==
    /\ pc' = "idle" /\ cur' = Nobody /\ todo' = {}
    /\ tcfg' = NoEntries /\ list' = NoList
    /\ restarts' = [n \in Name |-> {}]
    /\ attempts' = [n \in Name |-> {}]
    /\ UNCHANGED <<now, cfg, docker, tnow>>

Tick == \/ BeginTick \/ ListFails \/ List \/ EndTick \/ RestartReturns
        \/ \E n \in Name : Pass(n) \/ GiveUp(n) \/ CallRestart(n)

World == \/ \E n \in Name : Crash(n) \/ Finish(n) \/ Sicken(n) \/ UserStart(n)
                            \/ UserStop(n) \/ Configure(n)
         \/ DaemonRestarts

Next == Tick \/ World

Spec == Init /\ [][Next]_vars

-----------------------------------------------------------------------------
(* Properties *)

TypeOK ==
    /\ now \in 0..MaxTime
    /\ cfg \in [Name -> Entries] /\ tcfg \in [Name -> Entry]
    /\ docker \in [Name -> Container] /\ list \in [Name -> Container]
    /\ pc \in {"idle", "list", "loop", "restarting"}
    /\ todo \subseteq Name
    /\ tnow \in 0..now
    /\ cur \in Name \cup {Nobody} /\ (pc = "restarting" <=> cur # Nobody)
    /\ restarts \in [Name -> SUBSET (0..now)]
    /\ attempts \in [Name -> SUBSET (0..now)]

InLastHour(S) == {t \in S : t > tnow - Hour}

\* MaxRestarts caps the attempts of any hour, the failed ones included: at every
\* attempt, all the capped attempts this daemon made for the container in the hour
\* before it, with this one, are at most the cap in force - although allowRestart
\* throws history away, and although the user changes the cap at will.
CapHolds ==
    [][\A n \in Name : attempts'[n] \notin {attempts[n], {}} =>
          Cardinality(InLastHour(attempts'[n])) <= tcfg[n].max]_vars

\* The history allowRestart looks at holds every capped attempt of the last hour,
\* and nothing that was not one.
HistoryIsExact ==
    \A n \in Name : InLastHour(restarts[n]) = InLastHour(attempts[n])
=============================================================================

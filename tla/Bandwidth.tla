----------------------------- MODULE Bandwidth -----------------------------
(***************************************************************************)
(* tickBandwidths of internal/monitor: the caps the user configures, the   *)
(* rules in the containers' network namespaces, and the map by which the   *)
(* monitor remembers what it has shaped and on which device.               *)
(*                                                                         *)
(* A namespace lives and dies with its container.  A container that shares *)
(* another's namespace has none of its own; what is applied to it lands on the host. *)
(***************************************************************************)
EXTENDS Integers

CONSTANTS
    Name,         \* containers
    Iface,        \* devices, "eth0" among them
    Caps,         \* the [up, down] caps the user may configure, NoCap among them
    Settings,     \* the shape_iface the user may save: devices, or "" for automatic
    Route,        \* the device of every container's default route
    Faults        \* what goes wrong, of "clear", "detect", "pause", "pid",
                  \* "recreate" and "restart"

NoCap == [up |-> 0, down |-> 0]

ASSUME CapsAssumption     == Caps \subseteq [up : Nat, down : Nat] /\ NoCap \in Caps
ASSUME IfaceAssumption    == {"eth0", Route} \subseteq Iface /\ "" \notin Iface /\ "none" \notin Iface
ASSUME SettingsAssumption == Settings \subseteq Iface \cup {""} /\ Settings # {}

NS == INSTANCE NetShape

VARIABLES
    cfg, setting,      \* the saved caps and shape_iface
    docker,            \* running with a namespace of its own ("own"), running in a shared one, ...
    netns,             \* the rules in each container's own namespace
    hostShaped,        \* a command was run in the host's namespace
    lapsed,            \* whether the code met one of the cases marked Lapse below
    shaped,            \* Monitor.shaped: the device a container was shaped on, or "none"
    pc, tcfg, tsetting, seen, prev, todo    \* the tick

local == <<tcfg, tsetting, seen, prev>>
world == <<cfg, setting, docker>>
vars  == <<world, netns, hostShaped, lapsed, shaped, pc, todo, local>>

Nothing == [n \in Name |-> "none"]

Init ==
    /\ cfg \in [Name -> Caps] /\ setting \in Settings
    /\ docker \in [Name -> {"own", "shared", "exited"}]
    /\ netns = [n \in Name |-> NS!Clean]
    /\ hostShaped = FALSE /\ lapsed = FALSE
    /\ shaped = Nothing
    /\ pc = "idle" /\ todo = {}
    /\ tcfg = [n \in Name |-> NoCap] /\ tsetting = "" /\ seen = Nothing /\ prev = Nothing

\* The cases in which the monitor may lose sight of a rule it has set.
Lapse(case) == lapsed' = (lapsed \/ case)

-----------------------------------------------------------------------------
(* The tick *)

Idle ==
    /\ pc' = "idle" /\ todo' = {}
    /\ tcfg' = [n \in Name |-> NoCap] /\ tsetting' = "" /\ seen' = Nothing /\ prev' = Nothing

\* With nothing configured and nothing shaped the tick ends before it lists.
BeginTick ==
    /\ pc = "idle"
    /\ (\E n \in Name : cfg[n] # NoCap) \/ shaped # Nothing
    /\ tcfg' = cfg /\ tsetting' = setting
    /\ pc' = "list"
    /\ UNCHANGED <<world, netns, hostShaped, lapsed, shaped, todo, seen, prev>>

ListFails ==
    /\ pc = "list"
    /\ Idle
    /\ UNCHANGED <<world, netns, hostShaped, lapsed, shaped>>

List ==
    /\ pc = "list"
    /\ seen' = docker
    /\ prev' = shaped
    /\ todo' = {n \in Name : shaped[n] # "none"}
    /\ pc' = "clear"
    /\ UNCHANGED <<world, netns, hostShaped, lapsed, shaped, tcfg, tsetting>>

Desired(n) == tcfg[n] # NoCap

\* Mutant: a blank name is passed on.
Dev_Raw(iface) == iface

Dev(iface) == IF iface = "" THEN "eth0" ELSE iface

Forget(n) == shaped' = [shaped EXCEPT ![n] = "none"]

\* Mutant: what is still wanted is kept, on whatever device it is.
Kept_AnyIface(n) == Desired(n)

\* Still wanted where it is: the apply loop re-asserts it.  A blank setting counts as
\* where it is, whatever the device.
Kept(n) == Desired(n) /\ (prev[n] = tsetting \/ tsetting = "")

Look(n, phase) ==
    /\ pc = phase /\ n \in todo
    /\ todo' = todo \ {n}
    /\ UNCHANGED <<world, pc, local>>

Keep(n) ==
    /\ Look(n, "clear") /\ Kept(n)
    /\ Lapse(tsetting = "" /\ Dev(prev[n]) # Route)
    /\ UNCHANGED <<netns, hostShaped, shaped>>

\* Gone, stopped or in a shared namespace: nothing to clear; nor, the code thinks, if it
\* is paused.
Drop(n) ==
    /\ Look(n, "clear") /\ ~Kept(n) /\ seen[n] # "own"
    /\ Forget(n)
    /\ Lapse(seen[n] = "paused")
    /\ UNCHANGED <<netns, hostShaped>>

HasPid(n) == docker[n] # "exited"

\* Mutant: the container is forgotten although its PID could not be had.
ClearUnreachable_Forget(n) ==
    /\ Look(n, "clear") /\ ~Kept(n) /\ seen[n] = "own"
    /\ Forget(n)
    /\ UNCHANGED <<netns, hostShaped, lapsed>>

\* There is no PID, or the lookup fails: try again next tick, unless the apply loop
\* finds one.
ClearUnreachable(n) ==
    /\ Look(n, "clear") /\ ~Kept(n) /\ seen[n] = "own"
    /\ ~HasPid(n) \/ "pid" \in Faults
    /\ Lapse(HasPid(n) /\ Desired(n))
    /\ UNCHANGED <<netns, hostShaped, shaped>>

\* Apply on container n with one of the results Apply can have; on a container that
\* by now shares its namespace it is the host that is shaped.
Shape(n, iface, cap, mayFail, ok) ==
    IF docker[n] = "shared"
    THEN hostShaped' = TRUE /\ UNCHANGED netns
    ELSE \E r \in NS!Apply(netns[n], Dev(iface), cap.up, cap.down, mayFail) :
           /\ r.ok = ok
           /\ netns' = [netns EXCEPT ![n] = r.ns]
           /\ UNCHANGED hostShaped

\* Cleared on the device it was shaped on; Apply's error is ignored.
Clear(n) ==
    /\ Look(n, "clear") /\ ~Kept(n) /\ seen[n] = "own" /\ HasPid(n)
    /\ \E ok \in BOOLEAN : /\ Shape(n, prev[n], NoCap, "clear" \in Faults, ok)
                           /\ Lapse(~ok)
    /\ Forget(n)

ClearsDone ==
    /\ pc = "clear" /\ todo = {}
    /\ pc' = "apply"
    /\ todo' = {n \in Name : Desired(n)}
    /\ UNCHANGED <<world, netns, hostShaped, lapsed, shaped, local>>

\* Mutant: sharedNetns is not asked.
Shapeable_Running(n) == seen[n] \in {"own", "shared"}

Shapeable(n) == seen[n] = "own"

Skip(n) ==
    /\ Look(n, "apply") /\ ~Shapeable(n)
    /\ UNCHANGED <<netns, hostShaped, lapsed, shaped>>

ApplyUnreachable(n) ==
    /\ Look(n, "apply") /\ Shapeable(n)
    /\ UNCHANGED <<netns, hostShaped, lapsed, shaped>>

\* Mutant: only a container whose Apply worked is remembered.
Remember_IfOk(n, iface, ok) == IF ok THEN shaped' = [shaped EXCEPT ![n] = iface] ELSE UNCHANGED shaped

\* Remembered whether Apply worked or not: one direction may be in force.
Remember(n, iface, ok) == shaped' = [shaped EXCEPT ![n] = iface]

\* The device: the setting, or what DetectIface says, which is "" when it fails.
Target == IF tsetting # "" THEN {tsetting}
          ELSE {Route} \cup (IF "detect" \in Faults THEN {""} ELSE {})

ApplyCap(n, iface, mayFail) ==
    /\ Look(n, "apply") /\ Shapeable(n) /\ HasPid(n)
    /\ iface \in Target
    /\ Lapse(iface = "")
    /\ \E ok \in BOOLEAN : /\ Shape(n, iface, tcfg[n], mayFail, ok)
                           /\ Remember(n, iface, ok)

EndTick ==
    /\ pc = "apply" /\ todo = {}
    /\ Idle
    /\ UNCHANGED <<world, netns, hostShaped, lapsed, shaped>>

-----------------------------------------------------------------------------
(* The user, the containers and the daemon *)

tick == <<pc, todo, local, shaped>>

\* A container that is not running, or not alone in its namespace, has none.
Become(n, s) ==
    /\ docker' = [docker EXCEPT ![n] = s]
    /\ netns' = IF s \in {"own", "paused"} /\ docker[n] \in {"own", "paused"} THEN netns
                ELSE [netns EXCEPT ![n] = NS!Clean]
    /\ UNCHANGED <<cfg, setting, hostShaped, tick>>

\* A container that starts may be another of the same name, in another network.
Start(n) ==
    /\ docker[n] = "exited"
    /\ \E s \in {"own", "shared"} :
         /\ s = "own" \/ pc = "idle" \/ "recreate" \in Faults
         /\ Lapse(s = "shared" /\ pc # "idle")
         /\ Become(n, s)

Stop(n)    == docker[n] # "exited" /\ Become(n, "exited") /\ UNCHANGED lapsed
Pause(n)   == "pause" \in Faults /\ docker[n] = "own" /\ Become(n, "paused") /\ UNCHANGED lapsed
Unpause(n) == docker[n] = "paused" /\ Become(n, "own") /\ UNCHANGED lapsed

Configure ==
    /\ \/ (\E n \in Name, c \in Caps : cfg' = [cfg EXCEPT ![n] = c]) /\ UNCHANGED setting
       \/ setting' \in Settings /\ UNCHANGED cfg
    /\ UNCHANGED <<docker, netns, hostShaped, lapsed, tick>>

\* The map is memory only.
DaemonRestarts ==
    /\ "restart" \in Faults
    /\ Idle
    /\ shaped' = Nothing
    /\ Lapse(shaped # Nothing)
    /\ UNCHANGED <<world, netns, hostShaped>>

Tick == \/ BeginTick \/ ListFails \/ List \/ ClearsDone \/ EndTick
        \/ \E n \in Name : \/ Keep(n) \/ Drop(n) \/ ClearUnreachable(n) \/ Clear(n)
                           \/ Skip(n) \/ ApplyUnreachable(n)
                           \/ \E iface \in Target : ApplyCap(n, iface, TRUE)

World == \/ \E n \in Name : Start(n) \/ Stop(n) \/ Pause(n) \/ Unpause(n)
         \/ Configure \/ DaemonRestarts

Next == Tick \/ World

\* The ticker keeps ticking, and no call fails forever: List, the PID and the device
\* are had, and all commands of an Apply work, again and again.
Fairness ==
    /\ WF_vars(Tick)
    /\ SF_vars(List)
    /\ \A n \in Name : /\ SF_vars(Clear(n))
                       /\ SF_vars(\E iface \in Target \ {""} : ApplyCap(n, iface, FALSE))

Spec == Init /\ [][Next]_vars

FairSpec == Spec /\ Fairness

-----------------------------------------------------------------------------
(* Properties *)

TypeOK ==
    /\ cfg \in [Name -> Caps] /\ tcfg \in [Name -> Caps]
    /\ setting \in Settings /\ tsetting \in Settings \cup {""}
    /\ docker \in [Name -> {"own", "shared", "paused", "exited"}]
    /\ seen \in [Name -> {"own", "shared", "paused", "exited", "none"}]
    /\ netns \in [Name -> NS!Namespace] /\ hostShaped \in BOOLEAN /\ lapsed \in BOOLEAN
    /\ shaped \in [Name -> Iface \cup {"", "none"}] /\ prev \in [Name -> Iface \cup {"", "none"}]
    /\ pc \in {"idle", "list", "clear", "apply"} /\ todo \subseteq Name

Capped(n, d) == NS!Upload(netns[n], d) > 0 \/ NS!Download(netns[n], d) > 0

\* tickBandwidths' comments: a rule is cleared "on the iface it was ACTUALLY shaped
\* on", and a container is forgotten only "once we've actually cleared it (or its
\* netns is gone)".  A device with a cap on it is the one the monitor remembers: a
\* cap it does not remember is never lifted.
NoCapIsForgotten ==
    \A n \in Name, d \in Iface : Capped(n, d) => shaped[n] # "none" /\ Dev(shaped[n]) = d

\* And it remembers every one of them unless one of the lapses happened: whatever else
\* fails, restarts or is changed while a tick runs, there is no other way to lose one -
\* and none to shape the host (netshape: "It never touches the host uplink"), for which a
\* container has to come back in a shared network while a tick goes by its old list.
CapsAreRemembered == ~lapsed => NoCapIsForgotten /\ ~hostShaped

TheDevice == IF setting = "" THEN Route ELSE setting

Has(n, d, cap) == NS!Upload(netns[n], d) = cap.up /\ NS!Download(netns[n], d) = cap.down

\* The user and the containers leave things as they are, and so does the daemon.
Still == UNCHANGED world /\ ~DaemonRestarts

\* Whatever the configuration and the containers went through, lapses apart: once they
\* are left alone, and although calls fail, every running container ends up with exactly the
\* caps that are configured, on the configured device and on no other.
Enforced ==
    \A n \in Name, d \in Iface : docker[n] = "own" =>
        Has(n, d, IF d = TheDevice THEN cfg[n] ELSE NoCap)

Converges == <>[][Still]_vars /\ []~lapsed => <>[]Enforced

\* Even when everything that can go wrong does, a configured cap comes into force on
\* its device, and is put right again whenever a call that fails half way disturbs it.
CapInForce == \A n \in Name : docker[n] = "own" /\ cfg[n] # NoCap => Has(n, TheDevice, cfg[n])

Reasserts == <>[][Still]_vars => []<>CapInForce
=============================================================================

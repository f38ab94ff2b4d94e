------------------------------- MODULE RowState -------------------------------
(***************************************************************************)
(* What a row of the Docker list says of its container (docker.js): the     *)
(* state badge, the buttons, the resource values - and what a click does.   *)
(* The engine is asked every 9 s, after every action and whenever Unraid    *)
(* rewrote the rows: loads overlap, and an answer may be older than the one *)
(* before it.  A click shows at once what it will do and sends the action;  *)
(* until that is answered the badge is spared by the loads.                 *)
(*                                                                         *)
(* One container; the others do not meet.                                  *)
(***************************************************************************)
EXTENDS FiniteSets, Naturals, Functions

CONSTANTS
    None,
    MaxActions,     \* bound: clicks
    MaxFaults       \* bound: failed calls, and changes behind the page's back

VARIABLES
    set,    \* is the list on the page, is an editor or the menu open
    dom,    \* badge, buttons and resource value of the row
    js,     \* what the script knows, and the calls it waits for
    world   \* the container; the actions sent; bounds

vars == <<set, dom, js, world>>

States  == {"running", "paused", "exited"}
Actions == {"start", "stop", "pause", "unpause", "restart"}

\* Docker: what an action does to a container, None if it is refused.
Effect(action, s) ==
    CASE action = "start"   -> IF s = "paused" THEN None ELSE "running"
      [] action = "stop"    -> "exited"
      [] action = "pause"   -> IF s = "running" THEN "paused" ELSE None
      [] action = "unpause" -> IF s = "paused" THEN "running" ELSE None
      [] action = "restart" -> "running"

\* The calls in flight: at most one poll beside the loads that follow the actions.
Slots == 1..MaxActions + 1
Calls == 1..MaxActions

Free(j) == {k \in Slots : j.loads[k] = None}
InFlight(w) == {k \in Calls : w.calls[k] # None}

-----------------------------------------------------------------------------
(* The row, for what the script knows *)

\* Only a running container has values; "wait" until the first sample.
updateResGroup(known) == IF known = "running" THEN "wait" ELSE "dash"

\* A row that Unraid rewrote gets new controls, from memory, pending or not.
injectRowBadges(d, known) ==
    IF d.badge # None THEN d
    ELSE [badge |-> known, bar |-> known, res |-> updateResGroup(known)]

reinjectRowBadges(known) ==
    [badge |-> known, bar |-> known, res |-> updateResGroup(known)]

syncStateBadges_BarFrozen(d, j) ==
    IF j.pending \/ d.badge = None THEN d ELSE [d EXCEPT !.badge = j.known]

\* In place; spared while an action of this container is pending.
syncStateBadges(d, j) ==
    IF j.pending \/ d.badge = None THEN d
    ELSE [d EXCEPT !.badge = j.known, !.bar = j.known]

markTransient_WholeRow(d) ==
    IF d.badge = None THEN d ELSE [d EXCEPT !.badge = "transient", !.bar = "transient"]

markTransient(d) == IF d.badge = None THEN d ELSE [d EXCEPT !.badge = "transient"]

\* Values follow: a request that updates every group when it is answered.
refreshStats(j) == [j EXCEPT !.stats = TRUE]

refresh(d, j) == injectRowBadges(d, j.known)

-----------------------------------------------------------------------------

\* What the last visit cached is painted at once; the first load is under way.
Init ==
    /\ set = [menu |-> FALSE]
    /\ world \in [state : States, calls : {[k \in Calls |-> None]}, sent : {0}, faults : {0},
                  failed : {FALSE}]
    /\ js \in [known : States, pending : {FALSE}, stats : {FALSE}, mo : {FALSE},
               loads : {[k \in Slots |-> IF k = 1 THEN "asked" ELSE None]}]
    /\ dom = reinjectRowBadges(js.known)

-----------------------------------------------------------------------------
(* Loads *)

Asked(j) == LET k == CHOOSE k \in Free(j) : TRUE IN [j EXCEPT !.loads[k] = "asked"]

\* Every 9 s, unless an editor or the menu is open.
Poll ==
    /\ ~set.menu /\ Cardinality(Free(js)) = MaxActions + 1
    /\ js' = Asked(js)
    /\ UNCHANGED <<set, dom, world>>

\* The engine lists the containers.
Listed ==
    /\ \E k \in Slots : js.loads[k] = "asked" /\ js' = [js EXCEPT !.loads[k] = world.state]
    /\ UNCHANGED <<set, dom, world>>

Land_NotWhenPending ==
    /\ \E k \in Slots :
           /\ js.loads[k] \in States
           /\ LET j == [js EXCEPT !.known = js.loads[k], !.loads[k] = None]
              IN  js' = refreshStats(j) /\ dom' = refresh(dom, j)
    /\ world' = [world EXCEPT !.failed = FALSE]
    /\ UNCHANGED set

\* In any order; what it says is taken as it is.
Land ==
    /\ \E k \in Slots :
           /\ js.loads[k] \in States
           /\ LET j == [js EXCEPT !.known = js.loads[k], !.loads[k] = None]
              IN  js' = refreshStats(j) /\ dom' = syncStateBadges(refresh(dom, j), j)
    /\ world' = [world EXCEPT !.failed = FALSE]
    /\ UNCHANGED set

Fault == world.faults < MaxFaults

LoadFails ==
    /\ Fault
    /\ \E k \in Slots : js.loads[k] # None /\ js' = [js EXCEPT !.loads[k] = None]
    /\ world' = [world EXCEPT !.faults = @ + 1, !.failed = TRUE]
    /\ UNCHANGED <<set, dom>>

\* Of what is known when they are answered.
StatsLand ==
    /\ js.stats
    /\ js' = [js EXCEPT !.stats = FALSE]
    /\ dom' = IF dom.badge = None THEN dom
              ELSE [dom EXCEPT !.res = IF js.known = "running" THEN "value" ELSE "dash"]
    /\ UNCHANGED <<set, world>>

-----------------------------------------------------------------------------
(* Actions *)

doAction(action) ==
    /\ world.sent < MaxActions
    /\ js' = [js EXCEPT !.pending = TRUE]
    /\ dom' = markTransient(dom)
    /\ world' = [world EXCEPT !.calls[world.sent + 1] = action, !.sent = @ + 1]
    /\ UNCHANGED set

\* The badge decides at the click; a transient one can be clicked too.
ClickBadge ==
    /\ dom.badge # None
    /\ doAction(CASE js.known = "running" -> "stop" [] js.known = "paused" -> "unpause"
                  [] js.known = "exited" -> "start")

\* Of the buttons, only stop/start decides at the click.
ClickBar ==
    /\ dom.bar # None
    /\ \/ doAction("restart")
       \/ doAction(IF js.known \in {"running", "paused"} THEN "stop" ELSE "start")
       \/ dom.bar = "running" /\ doAction("pause")
       \/ dom.bar = "paused" /\ doAction("unpause")

\* Docker does it, or refuses; the answer is on its way.
Executed ==
    /\ \E k \in InFlight(world) :
           /\ world.calls[k] \in Actions
           /\ LET s == Effect(world.calls[k], world.state)
              IN  world' = [world EXCEPT !.state = IF s = None THEN @ ELSE s,
                                         !.calls[k] = IF s = None THEN "error" ELSE "ok"]
    /\ UNCHANGED <<set, dom, js>>

Answered_KeepsPending ==
    /\ \E k \in InFlight(world) :
           /\ world.calls[k] \in {"ok", "error"}
           /\ IF world.calls[k] = "ok" THEN js' = Asked(js) /\ UNCHANGED dom
              ELSE js' = [js EXCEPT !.pending = FALSE] /\ dom' = syncStateBadges(dom, js')
           /\ world' = [world EXCEPT !.calls[k] = None]
    /\ UNCHANGED set

\* The badge is released before the load that confirms it; on an error, at once - for
\* all actions of this container that are in flight.
Answered ==
    /\ \E k \in InFlight(world) :
           /\ world.calls[k] \in {"ok", "error"}
           /\ LET j == [js EXCEPT !.pending = FALSE]
              IN  IF world.calls[k] = "ok" THEN js' = Asked(j) /\ UNCHANGED dom
                  ELSE js' = j /\ dom' = syncStateBadges(dom, j)
           /\ world' = [world EXCEPT !.calls[k] = None]
    /\ UNCHANGED set

\* The call is lost, done or not: an error for the page.
ActionFails ==
    /\ Fault
    /\ \E k \in InFlight(world) :
           /\ world.calls[k] \in Actions
           /\ \E s \in {world.state, Effect(world.calls[k], world.state)} \ {None} :
                  world' = [world EXCEPT !.state = s, !.calls[k] = None, !.faults = @ + 1,
                                         !.failed = TRUE]
    /\ js' = [js EXCEPT !.pending = FALSE]
    /\ dom' = syncStateBadges(dom, js')
    /\ UNCHANGED set

-----------------------------------------------------------------------------
(* What happens around the row *)

\* Another client, or the container itself.
Outside ==
    /\ Fault
    /\ \E s \in States \ {world.state} : world' = [world EXCEPT !.state = s, !.faults = @ + 1]
    /\ UNCHANGED <<set, dom, js>>

\* Unraid rewrites the rows; the observer waits 250 ms.
NativeRender ==
    /\ dom' = [badge |-> None, bar |-> None, res |-> None]
    /\ js' = [js EXCEPT !.mo = TRUE]
    /\ UNCHANGED <<set, world>>

\* At once with what is known, and a load unless one was asked for in the last 2 s.
Sweep ==
    /\ js.mo
    /\ dom' = refresh(dom, js)
    /\ \E j \in {[js EXCEPT !.mo = FALSE]} :
           js' \in {refreshStats(j)} \cup (IF Cardinality(Free(j)) = MaxActions + 1
                                           THEN {refreshStats(Asked(j))} ELSE {})
    /\ UNCHANGED <<set, world>>

\* The limits arrive, or a setting changes, or the view is flipped.
Reinject ==
    /\ dom' = reinjectRowBadges(js.known)
    /\ UNCHANGED <<set, js, world>>

Menu ==
    /\ set' = [set EXCEPT !.menu = ~@]
    /\ UNCHANGED <<dom, js, world>>

-----------------------------------------------------------------------------

Page   == Poll \/ Land \/ LoadFails \/ StatsLand \/ Answered \/ ActionFails \/ Sweep
Engine == Listed \/ Executed
Users  == ClickBadge \/ ClickBar \/ Outside \/ NativeRender \/ Reinject \/ Menu

Next == Page \/ Engine \/ Users

-----------------------------------------------------------------------------
(* Properties *)

TypeOK ==
    /\ dom.badge \in States \cup {"transient", None} /\ dom.bar \in States \cup {None}
    /\ dom.res \in {"dash", "wait", "value", None}
    /\ js.known \in States
    /\ js.loads \in [Slots -> States \cup {"asked", None}]
    /\ world.calls \in [Calls -> Actions \cup {"ok", "error", None}]
    /\ world.sent \in 0..MaxActions /\ world.faults \in 0..MaxFaults

Calm == /\ InFlight(world) = {} /\ Free(js) = Slots /\ ~js.stats /\ ~world.failed

\* Nothing in flight and the last call answered: badge, buttons and values of a row say
\* what the script knows, no badge is left transient, so a click on the badge or a button
\* does what it says (docker.js:272, "Decide the action AT CLICK TIME").
LooksAsSet ==
    /\ js.pending => InFlight(world) # {}
    /\ (Calm /\ dom.badge # None) =>
            /\ dom.badge = js.known /\ dom.bar = js.known
            /\ dom.res = "dash" <=> js.known # "running"

\* The badge ends up right: whatever overlapped, came late, failed or was changed by
\* others, the row shows the state of the container in the end - unless an editor or the
\* menu is opened again and again (docker.js:282, "Live-sync every state badge").
BadgeIsRight == dom.badge \in {world.state, None}
=============================================================================

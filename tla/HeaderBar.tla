------------------------------ MODULE HeaderBar ------------------------------
(***************************************************************************)
(* The top of every page (header.js): the colours of the menu, the status   *)
(* island beside Unraid's Connect component, the brand, and bell and burger *)
(* that are pinned to the end of the icon row.  Connect builds its part     *)
(* anew at will, other scripts add icons late, the search box comes and     *)
(* goes, the footer is rewritten by a feed.  Observers answer, two of them  *)
(* after 120 ms; the settings change in another tab.                        *)
(*                                                                         *)
(* What moves in pixels is left out; the order of the icons is NavOrder's.  *)
(***************************************************************************)
EXTENDS Naturals

CONSTANTS
    Readings, Feeds,    \* what the footer and the feeds may say
    HeaderColours,      \* "accent", "rainbow", "active"
    None,
    MaxChanges          \* bound: settings changed

VARIABLES
    set,    \* localStorage
    dom,    \* what is on the page
    js,     \* the script's memory, observers and timers
    world   \* the native footer; bounds

vars == <<set, dom, js, world>>

\* "active": rainbow, but idle items stay neutral (cc.rbmode).
Settings == [area : BOOLEAN, theming : BOOLEAN, island : BOOLEAN, colour : HeaderColours,
             hideBell : BOOLEAN]

Tabs  == {"idle", "active"}
Icons == {"icon", "late"}
Items == Tabs \cup Icons

Classes == {"header-on", "popups-on", "footer-off", "usage-isl", "header-rb", "rbneutral",
            "search-open"}

live(s)       == s.area /\ s.theming
ccIslandOn(s) == live(s) /\ s.island
rbOn(s)       == s.colour # "accent"
rbNeutral(s)  == s.colour = "active"
on(d)         == "header-on" \in d.cls

-----------------------------------------------------------------------------
(* The parts *)

paintNav_Always(d, s) ==
    LET neutral == rbOn(s) /\ rbNeutral(s)
        paint(i) == IF ~rbOn(s) THEN "none"
                    ELSE IF ~neutral \/ i = "active" THEN "full" ELSE "hover"
    IN  [d EXCEPT !.nav = [i \in Items |-> IF @[i] = "absent" THEN "absent" ELSE paint(i)]]

\* Every item carries its colour for the hover; idle ones only that when neutral.  The
\* class counts, not the setting.
paintNav(d, s) ==
    LET rb == rbOn(s) /\ on(d)
        neutral == rb /\ rbNeutral(s)
        paint(i) == IF ~rb THEN "none" ELSE IF ~neutral \/ i = "active" THEN "full" ELSE "hover"
    IN  [d EXCEPT !.cls = (@ \ {"rbneutral"}) \cup (IF neutral THEN {"rbneutral"} ELSE {}),
                  !.nav = [i \in Items |-> IF @[i] = "absent" THEN "absent" ELSE paint(i)]]

\* What the island shows: footer, profile and feeds, behind a signature.
Shown(d, j, w) == [foot |-> w.foot, profile |-> d.profile.up, live |-> j.live]

ccIsland(d, s, j, w) ==
    [d EXCEPT !.island = IF ccIslandOn(s) THEN Shown(d, j, w) ELSE None]

ccStartStopLive_NeverStops(j, s) == IF ccIslandOn(s) THEN [j EXCEPT !.subs = TRUE] ELSE j

\* The feeds run while the island is on; switched off they forget what they said.
ccStartStopLive(j, s) ==
    IF ccIslandOn(s) THEN [j EXCEPT !.subs = TRUE] ELSE [j EXCEPT !.subs = FALSE, !.live = None]

ccBrand(d, s) == [d EXCEPT !.brand = live(s)]

\* Only the properties that were set: not the hidden bell, nor the titles.
ccUndockProfile(d) == [d EXCEPT !.profile.docked = FALSE]

\* Not while the search box hides the icons it is measured against.
ccDockProfile(d, s) ==
    IF ~on(d) THEN ccUndockProfile(d)
    ELSE IF ~d.profile.up \/ d.search THEN d
    ELSE [d EXCEPT !.profile = [@ EXCEPT !.docked = TRUE, !.bell = ~s.hideBell]]

\* Native titles of the icons to bubbles, and back.
Bubbles(d) == [d EXCEPT !.tips = [i \in Icons |-> "bubble"]]
Titles(d)  == [d EXCEPT !.tips = [i \in Icons |-> "title"]]

reorderSearch(d) == IF on(d) THEN [d EXCEPT !.order = d.search] ELSE d

rootClasses(d, s) ==
    [d EXCEPT !.cls = (@ \ {"header-on", "popups-on", "footer-off", "usage-isl"})
        \cup (IF live(s) THEN {"header-on"} ELSE {})
        \cup (IF s.theming THEN {"popups-on", "footer-off"} ELSE {})
        \cup (IF ccIslandOn(s) THEN {"usage-isl"} ELSE {})]

headerVars(d, s) ==
    [d EXCEPT !.cls = (@ \ {"header-rb"}) \cup (IF rbOn(s) THEN {"header-rb"} ELSE {})]

-----------------------------------------------------------------------------
(* apply: of the page and of the script's memory *)

applyPage(d, s, j, w) ==
    LET r == rootClasses(d, s)
        shown(p) == ccBrand(ccIsland(p, s, ccStartStopLive(j, s), w), s)
    IN  IF ~live(s) THEN ccUndockProfile(Titles(shown(paintNav(r, s))))
        ELSE ccDockProfile(shown(paintNav(headerVars(Bubbles(r), s), s)), s)

\* The observers are bound once, for good.
applyScript(j, s) == [ccStartStopLive(j, s) EXCEPT !.observing = @ \/ live(s)]

Blank == [cls |-> {}, nav |-> [i \in Items |-> IF i = "late" THEN "absent" ELSE "none"],
          tips |-> [i \in Icons |-> "title"], island |-> None, brand |-> FALSE,
          profile |-> [up |-> FALSE, docked |-> FALSE, bell |-> TRUE],
          search |-> FALSE, order |-> FALSE]

Asleep == [event |-> FALSE, menuT |-> FALSE, profT |-> FALSE,
           observing |-> FALSE, subs |-> FALSE, live |-> None]

\* boot: the page is parsed, Connect is not mounted yet.
Init ==
    /\ set \in Settings
    /\ world \in [changes : {0}, foot : Readings]
    /\ dom = applyPage(Blank, set, Asleep, world)
    /\ js = applyScript(Asleep, set)

ChangeSetting ==
    /\ world.changes < MaxChanges
    /\ \E s \in {[set EXCEPT !.area = ~@], [set EXCEPT !.theming = ~@], [set EXCEPT !.island = ~@],
                 [set EXCEPT !.hideBell = ~@]} \cup {[set EXCEPT !.colour = c] : c \in HeaderColours} :
           s # set /\ set' = s
    /\ js' = [js EXCEPT !.event = TRUE]
    /\ world' = [world EXCEPT !.changes = @ + 1]
    /\ UNCHANGED dom

Storage ==
    /\ js.event
    /\ dom' = applyPage(dom, set, js, world)
    /\ js' = applyScript([js EXCEPT !.event = FALSE], set)
    /\ UNCHANGED <<set, world>>

-----------------------------------------------------------------------------
(* The island: footer and feeds, mirrored at once *)

FooterChanges ==
    /\ \E f \in Readings \ {world.foot} : world' = [world EXCEPT !.foot = f]
    /\ dom' = IF js.observing THEN ccIsland(dom, set, ccStartStopLive(js, set), world') ELSE dom
    /\ js' = IF js.observing THEN ccStartStopLive(js, set) ELSE js
    /\ UNCHANGED set

LiveMessage ==
    /\ js.subs
    /\ \E v \in Feeds \ {js.live} :
           js' = ccStartStopLive([js EXCEPT !.live = v], set)
    /\ dom' = ccIsland(dom, set, js', world)
    /\ UNCHANGED <<set, world>>

-----------------------------------------------------------------------------
(* Connect and the dock *)

\* Mounted, or built anew: a fresh node.
ProfileMounts ==
    /\ dom' = [dom EXCEPT !.profile =
                    [up |-> TRUE, docked |-> FALSE, bell |-> TRUE]]
    /\ js' = [js EXCEPT !.profT = js.observing]
    /\ UNCHANGED <<set, world>>

ProfilePass ==
    /\ js.profT
    /\ js' = [ccStartStopLive(js, set) EXCEPT !.profT = FALSE]
    /\ dom' = ccDockProfile(ccBrand(ccIsland(dom, set, js', world), set), set)
    /\ UNCHANGED <<set, world>>

\* Scrolled or resized, or the page has loaded, or 300 and 1200 ms after apply.
Reflow ==
    /\ \E d \in {dom, ccBrand(dom, set)} : dom' = ccDockProfile(d, set)
    /\ UNCHANGED <<set, js, world>>

-----------------------------------------------------------------------------
(* The menu: late icons, the search box, hovering *)

LateIcon ==
    /\ dom.nav["late"] = "absent"
    /\ dom' = [dom EXCEPT !.nav["late"] = "none", !.tips["late"] = "title"]
    /\ js' = [js EXCEPT !.menuT = TRUE]
    /\ UNCHANGED <<set, world>>

\* A click on the magnifier opens the box; a second one closes it, with the area on.
ToggleSearch ==
    /\ dom.search => on(dom)
    /\ dom' = [dom EXCEPT !.search = ~@]
    /\ js' = [js EXCEPT !.menuT = TRUE]
    /\ UNCHANGED <<set, world>>

\* Native: the field loses the focus.
LeaveSearch ==
    /\ dom.search
    /\ dom' = [dom EXCEPT !.search = FALSE]
    /\ js' = [js EXCEPT !.menuT = TRUE]
    /\ UNCHANGED <<set, world>>

MenuPass ==
    /\ js.menuT
    /\ LET d == reorderSearch(dom)
           c == [d EXCEPT !.cls = (@ \ {"search-open"})
                                    \cup (IF d.search THEN {"search-open"} ELSE {})]
       IN  dom' = ccDockProfile(paintNav(c, set), set)
    /\ js' = [js EXCEPT !.menuT = FALSE]
    /\ UNCHANGED <<set, world>>

\* Any native title becomes a bubble when it is hovered, in any area.
Hover ==
    /\ "popups-on" \in dom.cls
    /\ \E i \in Icons : dom.nav[i] # "absent" /\ dom' = [dom EXCEPT !.tips[i] = "bubble"]
    /\ UNCHANGED <<set, js, world>>

-----------------------------------------------------------------------------

Passes == Storage \/ ProfilePass \/ MenuPass

Next == \/ ChangeSetting \/ Passes \/ FooterChanges \/ LiveMessage \/ ProfileMounts
        \/ Reflow \/ LateIcon \/ ToggleSearch \/ LeaveSearch \/ Hover

-----------------------------------------------------------------------------
(* Properties *)

TypeOK ==
    /\ set \in Settings
    /\ dom.cls \subseteq Classes
    /\ dom.nav \in [Items -> {"absent", "none", "hover", "full"}]
    /\ dom.tips \in [Icons -> {"title", "bubble"}]
    /\ dom.profile \in [up : BOOLEAN, docked : BOOLEAN, bell : BOOLEAN]
    /\ js.live \in Feeds \cup {None}
    /\ world.changes \in 0..MaxChanges

Calm == ~js.event /\ ~js.menuT /\ ~js.profT

\* What the menu item i should look like.
Expected(i) ==
    IF ~live(set) \/ ~rbOn(set) THEN "none"
    ELSE IF rbNeutral(set) /\ i # "active" THEN "hover" ELSE "full"

\* Whatever was switched, mounted, added or opened, in any order: at rest every item has
\* the colour of the settings, the island shows the present footer, profile and feed or
\* is gone with its feeds, and bell and burger are pinned exactly when the area is on -
\* "still hidden" is the only trace they may keep.  With theming off the menu has its
\* native titles back (header.js:837, "a live toggle reverts").
LooksAsSet ==
    Calm =>
        /\ on(dom) <=> live(set)
        /\ \A i \in Items : dom.nav[i] \in {"absent", Expected(i)}
        /\ "rbneutral" \in dom.cls <=> (live(set) /\ rbNeutral(set))
        /\ dom.island = IF ccIslandOn(set) THEN Shown(dom, js, world) ELSE None
        /\ js.subs <=> ccIslandOn(set)
        /\ dom.brand <=> live(set)
        /\ "search-open" \in dom.cls <=> dom.search
        /\ ~live(set) => ~dom.profile.docked
        /\ (live(set) /\ dom.profile.up /\ ~dom.search) =>
                dom.profile.docked /\ dom.profile.bell = ~set.hideBell
        /\ ~set.theming => \A i \in Icons : dom.tips[i] = "title"

\* Bell and burger come back to the row after every rebuild of Connect's part.
Back == dom.profile.docked \/ ~dom.profile.up \/ ~live(set) \/ dom.search
=============================================================================

------------------------------ MODULE DockerTab ------------------------------
(***************************************************************************)
(* The Docker page (docker.js): what the script puts on Unraid's own list, *)
(* and how it takes it off again.  Unraid rewrites the rows wholesale every *)
(* few seconds; an observer tags them again, 250 ms later.  The settings   *)
(* change under the page: by another tab (a storage event), by the menu, or *)
(* by a load that adopts the engine's copy.  When the plugin's files are    *)
(* gone the page takes itself down; when they are back it rebuilds itself.  *)
(*                                                                         *)
(* The rows are rewritten all at once and are marked all at once, so one   *)
(* set of marks stands for what every row carries.                         *)
(***************************************************************************)
EXTENDS Naturals

CONSTANTS
    Columns,        \* the columns with a badge of their own
    ColViews,       \* the choices for the Basic view: sets of columns
    Colours,        \* "plain", "tint": cc.iconcolor, "rainbow": cc.rainbow
    None,
    MaxChanges      \* bound: changes of settings and removals of the plugin, together

VARIABLES
    set,    \* localStorage and the view cookie
    dom,    \* what is on the page
    js,     \* the script's memory, its timers and the calls it waits for
    world   \* the plugin's files; bounds; history

vars == <<set, dom, js, world>>

Settings == [theming : BOOLEAN, view : {"list", "grid"}, cols : ColViews,
             colour : Colours, adv : BOOLEAN]
Keys == {"theming", "view", "other"}

\* Marks of a row.  The badges carry data-cc, "tagged" is data-cc-row.
Controls  == {"actions", "state"}
Info      == {"info", "group"}          \* ids, image tag, network; the group label
Cosmetic  == {"centred", "moved"}       \* inline styles of the native cells
Indelible == {"volumes", "amber", "tips"}   \* native cells changed for good
Named     == {"tagged", "behind", "sized", "tinted"}
                 \cup Controls \cup Info \cup Cosmetic \cup Indelible
Marks     == Named \cup Columns

\* Marks of the page outside of the rows.
PageMarks == {"docker-on", "accent", "palette", "filter", "actions header",
              "view switch", "view row hidden", "names"}

themingOn(s) == s.theming
colOn(s)     == IF s.adv THEN Columns ELSE s.cols

\* The classes of the table: view, colours and columns.
Classes(s) == <<s.adv, s.colour, colOn(s)>>

-----------------------------------------------------------------------------
(* Painting: a page and settings to a page *)

applySettings(d, s) ==
    [d EXCEPT !.page = (@ \ {"docker-on", "palette"}) \cup {"accent"}
        \cup (IF themingOn(s) THEN {"docker-on"} ELSE {})
        \cup (IF themingOn(s) /\ s.colour = "rainbow" THEN {"palette"} ELSE {})]

applyIconTint(d, s) ==
    IF ~themingOn(s)
    THEN [d EXCEPT !.rows = @ \ {"sized", "tinted"}, !.page = @ \ {"filter"}]
    ELSE [d EXCEPT !.rows = (@ \ {"tinted"}) \cup {"sized"}
                                \cup (IF s.colour = "tint" THEN {"tinted"} ELSE {}),
                   !.page = (@ \ {"filter"})
                                \cup (IF s.colour = "tint" THEN {"filter"} ELSE {})]

\* No look at cc.theming here: the callers decide.
applyEnhanceClasses(d, s) == applyIconTint([d EXCEPT !.table = Classes(s)], s)

removeEnhanceClasses(d) ==
    [d EXCEPT !.table = None, !.rows = @ \ {"tinted"}, !.page = @ \ {"filter"}]

\* What injectRowBadges adds to a row that is not tagged.
RowBadges(s) == {"tagged"} \cup Controls \cup colOn(s)
RowLooks(s)  == IF themingOn(s) THEN Info \cup {"centred", "volumes", "amber"} ELSE {}

\* History, no mark of the page: the row was tagged in card mode.
Behind(mode) == IF mode = "grid" THEN {"behind"} ELSE {}

relocateTopBar(d, mode) ==
    [d EXCEPT !.page = @ \cup {"view row hidden"}
        \cup (IF mode = "list" THEN {"view switch"} ELSE {})]

injectAllRowBadges(d, s, mode) ==
    LET tips == IF themingOn(s) THEN {"tips"} ELSE {}
    IN  [relocateTopBar(d, mode) EXCEPT
            !.rows = @ \cup tips \cup
                     (IF "tagged" \in @ THEN {}
                      ELSE RowBadges(s) \cup RowLooks(s) \cup Behind(mode)),
            !.page = @ \cup {"actions header"}]

clearRowBadges(d) ==
    [d EXCEPT !.rows = @ \ ({"tagged", "behind"} \cup Controls \cup Columns \cup Info)]

stripRowCosmetic(d) == [d EXCEPT !.rows = @ \ Cosmetic]

reinjectRowBadges(d, s, mode) ==
    applyIconTint(injectAllRowBadges(clearRowBadges(d), s, mode), s)

hideNative(d, hide) == [d EXCEPT !.hidden = hide]
removeGridHolder(d) == [d EXCEPT !.grid = None]
renderGrid(d, s)    == applyIconTint(relocateTopBar([d EXCEPT !.grid = s.colour], "grid"), s)

applyMode(d, s, mode) ==
    LET shown == removeGridHolder(hideNative(d, FALSE))
    IN  IF ~themingOn(s) THEN injectAllRowBadges(removeEnhanceClasses(shown), s, mode)
        ELSE IF mode = "grid"
        THEN renderGrid(hideNative(clearRowBadges(removeEnhanceClasses(d)), TRUE), s)
        ELSE injectAllRowBadges(applyEnhanceClasses(shown, s), s, mode)

\* A change of the settings in list mode, and an Advanced/Basic flip.
Repaint(d, s, mode) ==
    reinjectRowBadges(IF themingOn(s) THEN applyEnhanceClasses(d, s)
                                      ELSE removeEnhanceClasses(d), s, mode)

\* A change of any setting but the two that have their own branch.
Restyle(d, s, mode) ==
    IF mode = "list" THEN Repaint(applySettings(d, s), s, mode)
                     ELSE renderGrid(applySettings(d, s), s)

Retheme_KeepsStyles(d, s, mode) ==
    applyIconTint(applyMode(removeEnhanceClasses(clearRowBadges(applySettings(d, s))), s, mode), s)

\* cc.theming was flipped.
Retheme(d, s, mode) ==
    LET p == applyMode(removeEnhanceClasses(clearRowBadges(applySettings(d, s))), s, mode)
    IN  IF themingOn(s) THEN p ELSE stripRowCosmetic(applyIconTint(p, s))

-----------------------------------------------------------------------------
(* boot *)

Blank == [rows |-> {}, table |-> None, hidden |-> FALSE, grid |-> None, page |-> {}]

\* The page has just started: Unraid's rows are there or not yet, the last known
\* state is cached (painted at once) or not, the first load is under way.
Init ==
    /\ set \in Settings
    /\ js = [mode |-> IF themingOn(set) THEN set.view ELSE "list", dead |-> FALSE,
             moPending |-> FALSE, moTimer |-> FALSE, centre |-> FALSE, flip |-> FALSE,
             config |-> TRUE, state |-> TRUE, adv |-> set.adv, event |-> {}]
    /\ LET d == applySettings(Blank, set)
       IN  dom \in {d, applyMode(d, set, js.mode)}
    /\ world \in [changes : {0}, up : {TRUE}, adopted : {FALSE}, torn : {FALSE}]

Paint(d) == dom' = d

\* centerNameCells runs again 800 ms after every pass that injects with theming on.
Centring(s) == js.centre \/ themingOn(s)

-----------------------------------------------------------------------------
(* Unraid's own list and the observer *)

\* Unraid rewrites the rows: what was on them is gone.
NativeRender ==
    /\ dom' = [dom EXCEPT !.rows = {}]
    /\ js' = IF js.dead \/ js.mode # "list" \/ js.moPending THEN js
             ELSE [js EXCEPT !.moPending = TRUE, !.moTimer = TRUE]
    /\ UNCHANGED <<set, world>>

Sweep_KeepsGuard ==
    /\ js.moTimer
    /\ Paint(applyMode(injectAllRowBadges(applyEnhanceClasses(dom, set), set, js.mode),
                       set, js.mode))
    /\ js' = [js EXCEPT !.moTimer = FALSE, !.centre = Centring(set)]
    /\ UNCHANGED <<set, world>>

\* The debounced sweep; a load follows unless one was asked for in the last 2 s.
\* Bound: at most one load is in flight.
Sweep ==
    /\ js.moTimer
    /\ Paint(applyMode(injectAllRowBadges(applyEnhanceClasses(dom, set), set, js.mode),
                       set, js.mode))
    /\ \E again \in {FALSE, ~js.config /\ ~js.state} :
           js' = [js EXCEPT !.moTimer = FALSE, !.moPending = FALSE, !.centre = Centring(set),
                            !.config = @ \/ again, !.state = @ \/ again]
    /\ UNCHANGED <<set, world>>

\* centerNameCells, late: it looks at the mode alone.  What it measures decides
\* whether it moves the rows.
CentreLate ==
    /\ js.centre
    /\ js' = [js EXCEPT !.centre = FALSE]
    /\ \E moved \in {{}, IF js.mode = "list" THEN {"moved"} ELSE {}} :
           Paint([dom EXCEPT !.rows = @ \cup moved])
    /\ UNCHANGED <<set, world>>

-----------------------------------------------------------------------------
(* The user *)

Change == world.changes < MaxChanges

\* Another tab of the same origin, mostly the Settings page, writes a setting.
ChangeSetting ==
    /\ Change
    /\ \E s \in Settings, k \in Keys :
           /\ s.adv = set.adv /\ s # set
           /\ CASE k = "theming" -> s = [set EXCEPT !.theming = ~@]
                [] k = "view"    -> s = [set EXCEPT !.view = s.view]
                [] k = "other"   -> s = [set EXCEPT !.cols = s.cols, !.colour = s.colour]
           /\ set' = s
           /\ js' = [js EXCEPT !.event = @ \cup {k}]
           /\ world' = [world EXCEPT !.changes = @ + 1,
                                     !.adopted = @ /\ k # "theming"]
    /\ UNCHANGED dom

\* setMode
Mode(m) == IF themingOn(set) THEN m ELSE "list"

Heard(k) == js.event \ {k}

StorageView ==
    /\ "view" \in js.event
    /\ LET m == Mode(set.view)
       IN  IF js.dead
           THEN js' = [js EXCEPT !.event = Heard("view")] /\ UNCHANGED <<set, dom>>
           ELSE /\ set' = [set EXCEPT !.view = m]
                /\ Paint(applyMode(dom, set', m))
                /\ js' = [js EXCEPT !.event = Heard("view"), !.mode = m,
                                    !.centre = Centring(set)]
    /\ UNCHANGED world

StorageTheming ==
    /\ "theming" \in js.event
    /\ IF js.dead
       THEN js' = [js EXCEPT !.event = Heard("theming")] /\ UNCHANGED <<set, dom>>
       ELSE LET coerced == ~themingOn(set) /\ js.mode = "grid"
                m == IF coerced THEN "list" ELSE js.mode
            IN  /\ set' = IF coerced THEN [set EXCEPT !.view = "list"] ELSE set
                /\ Paint(Retheme(dom, set', m))
                /\ js' = [js EXCEPT !.event = Heard("theming"), !.mode = m,
                                    !.centre = Centring(set)]
    /\ UNCHANGED world

StorageOther ==
    /\ "other" \in js.event
    /\ Paint(IF js.dead THEN dom ELSE Restyle(dom, set, js.mode))
    /\ js' = [js EXCEPT !.event = Heard("other"),
                        !.centre = @ \/ (~js.dead /\ themingOn(set))]
    /\ UNCHANGED <<set, world>>

\* The menu of the card view: back to the list, or a colour.
PickList ==
    /\ Change /\ ~js.dead /\ dom.grid # None /\ themingOn(set)
    /\ set' = [set EXCEPT !.view = "list"]
    /\ Paint(applyMode(dom, set', "list"))
    /\ js' = [js EXCEPT !.mode = "list", !.centre = TRUE]
    /\ world' = [world EXCEPT !.changes = @ + 1]

PickColour ==
    /\ Change /\ ~js.dead /\ dom.grid # None /\ themingOn(set)
    /\ \E c \in Colours \ {set.colour} : set' = [set EXCEPT !.colour = c]
    /\ Paint(Restyle(dom, set', js.mode))
    /\ world' = [world EXCEPT !.changes = @ + 1]
    /\ UNCHANGED js

\* The Basic/Advanced switch of the bar; it answers even when the page is dead.
FlipView ==
    /\ Change /\ "view switch" \in dom.page /\ ~js.flip
    /\ set' = [set EXCEPT !.adv = ~@]
    /\ js' = [js EXCEPT !.flip = TRUE]
    /\ world' = [world EXCEPT !.changes = @ + 1]
    /\ UNCHANGED dom

FlipLate ==
    /\ js.flip
    /\ Paint(Repaint(dom, set, js.mode))
    /\ js' = [js EXCEPT !.flip = FALSE, !.centre = Centring(set)]
    /\ UNCHANGED <<set, world>>

\* Unraid's own flip has no event: polled every 1.5 s.
PollView ==
    /\ ~js.dead /\ js.mode = "list" /\ set.adv # js.adv
    /\ Paint(Repaint(dom, set, js.mode))
    /\ js' = [js EXCEPT !.adv = set.adv, !.centre = Centring(set)]
    /\ UNCHANGED <<set, world>>

-----------------------------------------------------------------------------
(* Loads *)

\* Every 9 s, unless an editor or the menu is open: for as long as the user likes.
Load ==
    /\ ~js.dead /\ ~js.config /\ ~js.state
    /\ js' = [js EXCEPT !.config = TRUE, !.state = TRUE]
    /\ UNCHANGED <<set, dom, world>>

\* GET config is answered with the settings this origin has, or fails.
ConfigSame ==
    /\ js.config
    /\ js' = [js EXCEPT !.config = FALSE]
    /\ UNCHANGED <<set, dom, world>>

\* GET config is answered with what a browser of another origin wrote: adopted,
\* whether the page is dead or not, and without the branch for cc.theming.
ConfigAdopts ==
    /\ js.config /\ Change
    /\ \E s \in Settings :
           /\ s.adv = set.adv /\ s # set
           /\ set' = s
           /\ Paint(Restyle(dom, s, js.mode))
           /\ js' = [js EXCEPT !.config = FALSE, !.centre = Centring(s)]
           /\ world' = [world EXCEPT !.changes = @ + 1,
                                     !.adopted = @ \/ s.theming # set.theming]

\* GET state is answered, and the other two calls were.
StateLands ==
    /\ js.state /\ ~js.config
    /\ Paint(LET d == [dom EXCEPT !.page = @ \cup {"names"}]
             IN  IF js.dead THEN d ELSE applyMode(d, set, js.mode))
    /\ js' = [js EXCEPT !.state = FALSE, !.centre = @ \/ (~js.dead /\ themingOn(set))]
    /\ UNCHANGED <<set, world>>

\* 502 and the like: the gears turn red, nothing else happens.
StateFails ==
    /\ js.state
    /\ js' = [js EXCEPT !.state = FALSE]
    /\ UNCHANGED <<set, dom, world>>

-----------------------------------------------------------------------------
(* The plugin goes and comes back *)

teardown_KeepsHidden(d) ==
    LET p == clearRowBadges(removeEnhanceClasses(d))
    IN  [p EXCEPT !.grid = None, !.page = @ \ {"names", "accent"}]

\* teardown leaves the header of the actions column, the switch in the bar, the hidden
\* view row and html.cc-docker-on where they are; moPending stays as it is.
teardown(d) ==
    LET p == clearRowBadges(removeEnhanceClasses(d))
    IN  [p EXCEPT !.grid = None, !.hidden = FALSE, !.page = @ \ {"names", "accent"}]

TakeDown(landed) ==
    /\ Paint(teardown(dom))
    /\ js' = [js EXCEPT !.dead = TRUE, !.moTimer = FALSE, !.state = landed]
    /\ world' = [world EXCEPT !.torn = TRUE]
    /\ UNCHANGED set

\* The probe every 4 s, or a load, is answered 404 or 410.
ProbeGone == ~js.dead /\ ~world.up /\ TakeDown(js.state)
StateGone == ~js.dead /\ ~world.up /\ js.state /\ TakeDown(FALSE)

\* The probe every 8 s is answered again.
Rearm ==
    /\ js.dead /\ world.up
    /\ js' = [js EXCEPT !.dead = FALSE, !.adv = set.adv, !.config = TRUE, !.state = TRUE]
    /\ UNCHANGED <<set, dom, world>>

Uninstall == /\ world.up /\ Change
             /\ world' = [world EXCEPT !.up = FALSE, !.changes = @ + 1]
             /\ UNCHANGED <<set, dom, js>>
Install   == /\ ~world.up
             /\ world' = [world EXCEPT !.up = TRUE]
             /\ UNCHANGED <<set, dom, js>>

-----------------------------------------------------------------------------

User    == ChangeSetting \/ PickList \/ PickColour \/ FlipView
Timers  == Sweep \/ CentreLate \/ FlipLate \/ PollView \/ Load
Events  == StorageView \/ StorageTheming \/ StorageOther
Answers == ConfigSame \/ ConfigAdopts \/ StateLands \/ StateFails
Gone    == ProbeGone \/ StateGone \/ Rearm \/ Uninstall \/ Install

Next == NativeRender \/ User \/ Timers \/ Events \/ Answers \/ Gone

-----------------------------------------------------------------------------
(* Properties *)

TypeOK ==
    /\ set \in Settings
    /\ dom.rows \subseteq Marks /\ dom.page \subseteq PageMarks
    /\ dom.table \in {Classes(s) : s \in Settings} \cup {None}
    /\ dom.grid \in Colours \cup {None} /\ dom.hidden \in BOOLEAN
    /\ js.mode \in {"list", "grid"} /\ js.event \subseteq Keys
    /\ js.moTimer => js.moPending
    /\ world.changes \in 0..MaxChanges

\* No event, flip or probe left to answer, on a page that was never taken down.
Calm == /\ ~js.dead /\ ~world.torn
        /\ js.event = {} /\ ~js.flip /\ set.adv = js.adv

Expected(s) ==
    RowBadges(s) \cup RowLooks(s) \cup
        (IF ~themingOn(s) THEN {}
         ELSE {"tips", "sized"} \cup (IF s.colour = "tint" THEN {"tinted"} ELSE {}))

\* What switching theming off does not take off the rows until Unraid renders them
\* again: changed cells; a centring that came late; after an adoption, all styles.
Leftover == Indelible \cup {"moved"} \cup (IF world.adopted THEN {"centred"} ELSE {})

\* However it got there - settings flipped on and off, rows rendered, sweeps, loads and
\* adoptions in any order - the list looks as the settings say once it is calm: with
\* theming on every badge, class and tint of these settings and no other; with theming
\* off the controls alone, and no mark but the ones listed.
\* Not so the rows that were tagged behind the cards, by a flip of the view or by a load
\* after an adoption switched theming off in card mode: the step back to the list skips
\* what is tagged (docker.js:671), and they say what the settings of then say until Unraid
\* renders them again or a setting changes.
LooksAsSet ==
    (Calm /\ "tagged" \in dom.rows /\ js.mode = "list") =>
        /\ ~dom.hidden /\ dom.grid = None
        /\ dom.table = IF themingOn(set) THEN Classes(set) ELSE None
        /\ "filter" \in dom.page <=> (themingOn(set) /\ set.colour = "tint")
        /\ "palette" \in dom.page <=> (themingOn(set) /\ set.colour = "rainbow")
        /\ "behind" \notin dom.rows =>
               /\ Expected(set) \subseteq dom.rows
               /\ dom.rows \subseteq Expected(set)
                                         \cup (IF themingOn(set) THEN {"moved"} ELSE Leftover)

\* The native list is never hidden without the cards in its place, alive or dead
\* (docker.js:1403, "never leave the native list hidden or broken").
ListIsNeverLost == dom.hidden => dom.grid # None

\* Rows that Unraid rendered again are tagged again, whatever is open meanwhile: the
\* debounced observer sees to it (docker.js:21).  A tab that was taken down and rebuilt
\* has to wait for its next load instead.
Back == \/ "tagged" \in dom.rows \/ js.mode = "grid" \/ js.dead \/ world.torn
        \/ "actions header" \notin dom.page
=============================================================================

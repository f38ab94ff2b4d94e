------------------------------ MODULE MainPage ------------------------------
(***************************************************************************)
(* The Start page, /Main, under shares.js: the disk table gets a column,   *)
(* badges and widths of its own, the tabs may become sections, and         *)
(* controls of Unraid move into the heads of those sections.  Unraid       *)
(* renders the rows again every second, and an observer enhances them      *)
(* before they are shown; a pass over the whole page follows after 150 ms. *)
(* The rows of a table are treated alike, so one stands for all.           *)
(***************************************************************************)
EXTENDS Naturals

CONSTANTS None, Raw,    \* nothing stored or running; as Unraid has it
          Widths,       \* widths of the columns that a user may drag
          Progress,     \* of a parity check
          MaxChanges    \* bound: changes of settings, renders, drags

VARIABLES
    set,    \* localStorage
    dom,    \* what is on the page
    js,     \* the script's memory and timers
    world   \* the parity check, the tab session, and the bound

vars == <<set, dom, js, world>>

\* main, shares: the areas that are on; px: the stored widths.
Settings == [theming : BOOLEAN, main : BOOLEAN, shares : BOOLEAN, sections : BOOLEAN,
             rainbow : BOOLEAN, px : Widths \cup {None, "derived"}]

\* The script works on a page with tabs only.
onMain(d)    == d.tabbed
active(d, s) == s.theming /\ (s.shares \/ (s.main /\ onMain(d)))

Look(s) == IF s.rainbow THEN "rainbow" ELSE "accent"

-----------------------------------------------------------------------------
(* Sections, and the controls that live in their heads *)

cardPanels(d) == [d EXCEPT !.heads = TRUE]

\* What is in a head goes with it.
dropHeads(d) == [d EXCEPT !.heads = FALSE, !.diskio = IF @ = "head" THEN "gone" ELSE @,
                          !.ud    = IF @ = "head" THEN "gone" ELSE @]
flattenTeardown(d) == dropHeads(d)

ccDiskioMove(d)  == IF d.heads /\ d.diskio = "home" THEN [d EXCEPT !.diskio = "head"] ELSE d
ccDiskioHome(d)  == IF d.diskio = "head" THEN [d EXCEPT !.diskio = "home"] ELSE d
ccUdCtrlsMove(d, s) ==
    IF s.sections /\ d.heads /\ d.ud = "home" THEN [d EXCEPT !.ud = "head"] ELSE d
ccUdCtrlsHome(d) == IF d.ud = "head" THEN [d EXCEPT !.ud = "home"] ELSE d

tabMode_HomeLate(d, s) ==
    IF s.sections THEN ccDiskioMove(cardPanels(d))
    ELSE ccUdCtrlsHome(ccDiskioHome(flattenTeardown(d)))

tabMode(d, s) ==
    IF s.sections THEN ccDiskioMove(cardPanels(d))
    ELSE flattenTeardown(ccUdCtrlsHome(ccDiskioHome(d)))

-----------------------------------------------------------------------------
(* The disk table, the table of unassigned devices, the array's panel *)

\* A row that is marked is left alone; a new one gets the column the head has got.
enhanceMainHead(d) == [d EXCEPT !.head = "wide"]
enhanceMainRow(d)  == [d EXCEPT !.row = IF @ = Raw THEN "accent" ELSE @]
enhanceUD(d, s)    == ccUdCtrlsMove([d EXCEPT !.device = "badged"], s)

\* Stored widths, else derived ones; those are derived once.
colApply(d, s) ==
    [d EXCEPT !.cols = IF s.px # None THEN s.px ELSE IF @ = Raw THEN "derived" ELSE @]

\* The state of the array becomes a pill in a stack of its own: a pill whose cell was
\* rendered again goes, that of the new cell comes.
aopStatusBadge(d) == [d EXCEPT !.cell = "taken"]

ccAopPillStack_Hoards(d) == [d EXCEPT !.pills = @ \cup {"current"}]

ccAopPillStack(d) == [d EXCEPT !.pills = {"current"}]

\* The parity card is a copy of rows that Unraid renders.
ccAopParityCard(d, check) == [d EXCEPT !.card = check]

enhanceArrayOps(d, check) == ccAopParityCard(ccAopPillStack(aopStatusBadge(d)), check)

enhanceMain(d, s, check) ==
    IF ~s.main \/ ~onMain(d) THEN d
    ELSE enhanceUD(enhanceArrayOps(
            colApply(enhanceMainRow(enhanceMainHead(tabMode(d, s))), s), check), s)

paintMain(d, s) ==
    IF ~s.main \/ ~onMain(d) THEN d
    ELSE [d EXCEPT !.row = IF @ = Raw THEN Raw ELSE Look(s)]

\* Inline colours on the tabs: whatever area is on.
paintTabs(d, s) == [d EXCEPT !.tabs = IF s.rainbow /\ d.tabbed THEN "rainbow" ELSE Raw]

\* What the observer sees of a change: nodes, not attributes.
Nodes(d) == <<d.heads, d.diskio, d.ud, d.head, d.row = Raw, d.device, d.cols = Raw,
              d.cell, d.pills, d.card>>

-----------------------------------------------------------------------------
(* Passes *)

Native(tabbed) ==
    [tabbed |-> tabbed, page |-> Raw, tabs |-> Raw, heads |-> FALSE, diskio |-> "home",
     ud |-> "home", head |-> Raw, row |-> Raw, device |-> Raw, cols |-> Raw,
     cell |-> Raw, pills |-> {}, card |-> None]

aopTeardown(d) == [d EXCEPT !.cell = Raw, !.pills = {}, !.card = None]
udTeardown(d)  == [d EXCEPT !.device = Raw]
colTeardown(d) == [d EXCEPT !.cols = Raw]

\* The controls go home before their heads go; a stored width stays stored.
teardown(d) ==
    LET bare == dropHeads(ccUdCtrlsHome(ccDiskioHome(d)))
    IN  udTeardown(aopTeardown(colTeardown(
            [bare EXCEPT !.page = Raw, !.tabs = Raw, !.head = Raw, !.row = Raw])))

paint(d, s, check) == paintMain(enhanceMain(paintTabs(d, s), s, check), s)

apply(d, s, check) ==
    IF active(d, s) THEN paint([d EXCEPT !.page = [look |-> Look(s), main |-> s.main /\ onMain(d)]],
                               s, check)
    ELSE teardown(d)

\* Once in a session an untabbed page asks for tabs, and is loaded again.
ensureTabbed(d, s, w) == active(d, s) /\ s.main /\ ~d.tabbed /\ ~w.tried

\* A pass that changed nodes is followed by another, unless theming is off; widths that
\* are applied take back what a drag shows.
Passed(j, d) == [j EXCEPT !.timer = @ \/ (set.theming /\ Nodes(d) # Nodes(dom)),
                          !.torn = @ /\ d.cols # set.px]

Apply(j) ==
    LET d == apply(dom, set, world.check)
        k == Passed(j, d)
    IN  /\ dom' = d
        /\ js' = [k EXCEPT !.drag = IF active(dom, set) THEN @ ELSE None,
                           !.posting = @ \/ ensureTabbed(dom, set, world)]
        /\ world' = [world EXCEPT !.tried = @ \/ ensureTabbed(dom, set, world)]
        /\ UNCHANGED set

Booted(s, tabbed, w) ==
    LET on == s.main \/ s.shares
        d  == IF on THEN apply(Native(tabbed), s, w.check) ELSE Native(tabbed)
        asks == on /\ ensureTabbed(Native(tabbed), s, w)
    IN  [dom |-> d,
         js |-> [running |-> on, timer |-> FALSE, event |-> FALSE, drag |-> None,
                 torn |-> FALSE, posting |-> asks],
         world |-> [w EXCEPT !.tried = @ \/ asks]]

Load(s, tabbed, w) ==
    LET b == Booted(s, tabbed, w) IN dom' = b.dom /\ js' = b.js /\ world' = b.world

Init ==
    \E s \in Settings, tabbed \in BOOLEAN :
        /\ s.px = None /\ ~s.rainbow
        /\ LET b == Booted(s, tabbed, [check |-> None, tried |-> FALSE, n |-> 0])
           IN  set = s /\ dom = b.dom /\ js = b.js /\ world = b.world

Change == world.n < MaxChanges

Count == [world EXCEPT !.n = @ + 1]

\* Unraid answers the request for tabs; the setting may not stick.
Posted ==
    /\ js.posting
    /\ UNCHANGED set
    /\ \/ \E tabbed \in BOOLEAN : Load(set, tabbed, world)
       \/ js' = [js EXCEPT !.posting = FALSE] /\ UNCHANGED <<dom, world>>

\* The debounced pass.
Pass ==
    /\ js.timer
    /\ dom' = IF set.theming THEN paint(dom, set, world.check) ELSE dom
    /\ js' = Passed([js EXCEPT !.timer = FALSE], dom')
    /\ UNCHANGED <<set, world>>

Observing == js.running /\ set.theming

\* Unraid fills a table again.  The observer runs before the page is shown.
watch_Debounced(d) == d

watch(d) == IF Observing THEN paintMain(enhanceMain(d, set, world.check), set) ELSE d

Refill ==
    /\ Change
    /\ dom' \in {watch([dom EXCEPT !.row = Raw]), watch([dom EXCEPT !.device = Raw])}
    /\ js' = Passed([js EXCEPT !.timer = @ \/ Observing], dom')
    /\ world' = Count
    /\ UNCHANGED set

\* The array's panel is rendered again: a new state, a parity check that starts, goes on
\* or ends.  A pill of the cell before stays in the stack until the next pass.
ArrayTick ==
    /\ Change
    /\ \E check \in Progress \cup {None} : world' = [Count EXCEPT !.check = check]
    /\ dom' = [dom EXCEPT !.cell = Raw, !.pills = IF @ = {} THEN {} ELSE {"stale"}]
    /\ js' = [js EXCEPT !.timer = @ \/ Observing]
    /\ UNCHANGED set

-----------------------------------------------------------------------------
(* Dragging a column: in memory until the release *)

Grip == dom.head = "wide" /\ dom.cols # Raw

Down ==
    /\ Grip /\ js.drag = None /\ Change
    /\ js' = [js EXCEPT !.drag = IF set.px = None THEN "derived" ELSE set.px]
    /\ dom' = [dom EXCEPT !.cols = js'.drag]
    /\ world' = Count
    /\ UNCHANGED set

Move ==
    /\ js.drag # None
    /\ \E w \in Widths : js' = [js EXCEPT !.drag = w] /\ dom' = [dom EXCEPT !.cols = w]
    /\ UNCHANGED <<set, world>>

Up ==
    /\ js.drag # None
    /\ set' = [set EXCEPT !.px = js.drag]
    /\ js' = [js EXCEPT !.drag = None, !.torn = dom.cols # js.drag]
    /\ UNCHANGED <<dom, world>>

\* Double click or the button: nothing is stored, and widths are derived anew.
ResetWidths ==
    /\ Grip /\ js.drag = None /\ set.px # None
    /\ set' = [set EXCEPT !.px = None]
    /\ dom' = [dom EXCEPT !.cols = "derived"]
    /\ js' = [js EXCEPT !.torn = FALSE]
    /\ UNCHANGED world

-----------------------------------------------------------------------------

\* Another tab changes a setting, drags a column or resets the widths.
ChangeSetting ==
    /\ Change
    /\ set' \in ({[set EXCEPT !.theming = ~@], [set EXCEPT !.main = ~@],
                  [set EXCEPT !.shares = ~@], [set EXCEPT !.sections = ~@],
                  [set EXCEPT !.rainbow = ~@], [set EXCEPT !.px = None]}
                    \cup {[set EXCEPT !.px = w] : w \in Widths}) \ {set}
    /\ js' = [js EXCEPT !.event = js.running]
    /\ world' = Count
    /\ UNCHANGED dom

Storage ==
    /\ js.event
    /\ Apply([js EXCEPT !.event = FALSE])

Next == \/ Posted \/ Pass \/ Refill \/ ArrayTick \/ Down \/ Move \/ Up \/ ResetWidths
        \/ ChangeSetting \/ Storage

-----------------------------------------------------------------------------
(* Properties *)

TypeOK ==
    /\ set \in Settings
    /\ dom.tabbed \in BOOLEAN /\ dom.heads \in BOOLEAN
    /\ dom.diskio \in {"home", "head", "gone"} /\ dom.ud \in {"home", "head", "gone"}
    /\ dom.row \in {Raw, "accent", "rainbow"} /\ dom.device \in {Raw, "badged"}
    /\ dom.cols \in {Raw, "derived"} \cup Widths
    /\ dom.pills \in SUBSET {"current", "stale"} /\ dom.card \in Progress \cup {None}
    /\ js.drag \in {None, "derived"} \cup Widths
    /\ world.check \in Progress \cup {None} /\ world.n \in 0..MaxChanges

Calm == js.running /\ ~js.timer /\ ~js.event /\ ~js.posting

Enhanced == set.theming /\ set.main /\ onMain(dom)

\* At rest the page is what the settings of now ask for.  Enhanced: the rows that were
\* rendered last have badges in the colour of now, the sections' heads hold the controls
\* that move, one pill stands for the state of the array, the parity card shows the
\* progress of now, and the columns have the widths that are stored - but for a release
\* that a pass forestalled.  With neither area on, all but the colours of the tabs is
\* native (shares.js:2096, "so the page is clean without a reload").  With the Shares
\* area alone, what was enhanced before stays: nothing is said of it.
LooksAsSet ==
    Calm =>
    /\ Enhanced =>
         /\ dom.page = [look |-> Look(set), main |-> TRUE]
         /\ dom.row = Look(set) /\ dom.device = "badged"
         /\ dom.heads = set.sections
         /\ dom.diskio = IF set.sections THEN "head" ELSE "home"
         /\ dom.ud = IF set.sections THEN "head" ELSE "home"
         /\ dom.cell = "taken" /\ dom.pills = {"current"} /\ dom.card = world.check
         /\ js.drag = None /\ set.px # None /\ ~js.torn => dom.cols = set.px
    /\ ~active(dom, set) => [dom EXCEPT !.tabs = Raw] = Native(dom.tabbed)

\* Unraid's own controls are never lost with a head that is taken away, and no frame
\* shows a head of the disk table with another number of columns than its rows - between
\* a change of settings and its event, or with the Shares area alone, it may.
IsWhole ==
    /\ "gone" \notin {dom.diskio, dom.ud}
    /\ (js.running /\ ~js.event /\ (set.main \/ ~set.shares))
            => (dom.head = Raw <=> dom.row = Raw)

\* The page answers its own writes, and may load itself again: that comes to rest.
AtRest == ~js.timer /\ ~js.event /\ ~js.posting
=============================================================================

----------------------------- MODULE PluginsPage -----------------------------
(***************************************************************************)
(* The Plugins page (plugins.js).  paint goes over every row and changes   *)
(* what is not marked yet; the cells of version and status are rewritten by *)
(* Unraid's update check, a whole row by an update.  An observer calls     *)
(* paint 250 ms after the last change on the page, its own changes         *)
(* included.  A loop of its own, ahead of everything else, pins the        *)
(* Check/Update/Remove buttons to the tab strip.                           *)
(***************************************************************************)
EXTENDS Naturals

CONSTANTS Accents,      \* colours: the accent or the rainbow's, adopted or the page's own
          Raw,          \* of a cell: as Unraid wrote it
          MaxChanges    \* bound: changes of settings and of Unraid's cells

VARIABLES
    set,    \* localStorage
    dom,    \* what is on the page
    js,     \* the script's memory and timers
    world   \* the bound

vars == <<set, dom, js, world>>

\* live: theming and the area are on; box: the logos' background.
Settings == [live : BOOLEAN, accent : Accents, box : BOOLEAN, sections : BOOLEAN]

Cells == {"name", "author", "version", "status", "remove"}

\* "Checking..." in the status cell waits for the update check.
Unpainted == {Raw, "checking"}

-----------------------------------------------------------------------------
(* Painting *)

\* A badge has the colour of the moment it is built.
badge(s) == s.accent

\* A marked cell is left alone, until Unraid rewrites it.
paintCell(v, s) == IF v = Raw THEN badge(s) ELSE v

\* A logo is cropped once: the first paint starts the probe, later ones find its result.
normalizeIcon(d, cache) == IF cache = "cropped" THEN [d EXCEPT !.icon = "cropped"] ELSE d

\* The tint, or the ink of the background - by the class of the page, which this pass
\* changes only after the rows (plugins.js:314, 552).
boxed(d)   == d.page # Raw /\ d.page.box
logo(d, s) == [d EXCEPT !.look = <<s.accent, boxed(d)>>]

\* A row is done when its name is.
paintRow_ByName(d, s, cache) ==
    IF d.cells["name"] # Raw THEN logo(d, s)
    ELSE [normalizeIcon(logo(d, s), cache) EXCEPT !.cells = [c \in Cells |-> paintCell(@[c], s)]]

paintRow(d, s, cache) ==
    [normalizeIcon(logo(d, s), cache) EXCEPT !.cells = [c \in Cells |-> paintCell(@[c], s)]]

\* Tabs, the page's classes and its variables.
colorTabs(d, s) == [d EXCEPT !.page = s]

cardPanels(d)      == [d EXCEPT !.carded = TRUE]
flattenTeardown(d) == [d EXCEPT !.carded = FALSE]

plugPinTick(d, s) == IF s.live THEN [d EXCEPT !.pinned = TRUE] ELSE d

\* With theming or the area off nothing is painted, and nothing taken off.
paint(d, s, cache) ==
    IF ~s.live THEN d
    ELSE LET p == colorTabs(paintRow(d, s, cache), s)
         IN  plugPinTick(IF s.sections THEN cardPanels(p) ELSE flattenTeardown(p), s)

\* What the observer sees: nodes and text, not attributes.
Nodes(d) == <<{c \in Cells : d.cells[c] \in Unpainted}, d.cells, d.carded, d.pinned>>

PaintAs(d, j) ==
    /\ dom' = d
    /\ js' = [j EXCEPT !.timer = @ \/ (j.boot = "running" /\ Nodes(d) # Nodes(dom))]

Probing(j, s) ==
    IF s.live /\ j.cache = "none" THEN [j EXCEPT !.cache = "probing", !.target = TRUE] ELSE j

\* A pass that starts another whatever it changed.
Paint_Restless(j) ==
    /\ dom' = paint(dom, set, js.cache)
    /\ js' = [j EXCEPT !.timer = set.live]

Paint(j) == PaintAs(paint(dom, set, js.cache), Probing(j, set))

-----------------------------------------------------------------------------

Native == [cells |-> [c \in Cells |-> Raw], look |-> Raw, page |-> Raw, icon |-> "native",
           carded |-> FALSE, pinned |-> FALSE]

\* boot leaves at once when theming or the area is off; the pin loop runs all the same.
Init ==
    /\ set \in Settings
    /\ dom = Native
    /\ js = [boot |-> IF set.live THEN "adopting" ELSE "off", timer |-> FALSE, event |-> FALSE,
             cache |-> "none", target |-> FALSE, late |-> FALSE]
    /\ world = 0

Change == world < MaxChanges /\ world' = world + 1

\* adopt: the engine's copy of the settings first, then paint, then observe; the three
\* late paints (600, 1500 and 3500 ms) stand as one.
Adopt ==
    /\ js.boot = "adopting"
    /\ \/ UNCHANGED <<set, world>>
       \/ Change /\ set' \in Settings \ {set}
    /\ dom' = paint(dom, set', js.cache)
    /\ js' = Probing([js EXCEPT !.boot = "running", !.late = TRUE], set')

LatePaint ==
    /\ js.late
    /\ Paint([js EXCEPT !.late = FALSE])
    /\ UNCHANGED <<set, world>>

\* Another tab of the page is chosen, or any other field changes: a paint in 50 ms.
TabSwitch ==
    /\ js.boot = "running"
    /\ js' = [js EXCEPT !.late = TRUE]
    /\ UNCHANGED <<set, dom, world>>

\* The debounced pass.  Every change starts the 250 ms anew; a page that never rests
\* is not modelled.
Repaint ==
    /\ js.timer
    /\ Paint([js EXCEPT !.timer = FALSE])
    /\ UNCHANGED <<set, world>>

PinLoop ==
    /\ plugPinTick(dom, set) # dom
    /\ PaintAs(plugPinTick(dom, set), js)
    /\ UNCHANGED <<set, world>>

\* The probe's image is there: the crop is kept, and shown by the image that asked for
\* it, if that one is still on the page.
ProbeLoads ==
    /\ js.cache = "probing"
    /\ dom' = IF js.target THEN normalizeIcon(dom, "cropped") ELSE dom
    /\ js' = [js EXCEPT !.cache = "cropped"]
    /\ UNCHANGED <<set, world>>

ProbeFails ==
    /\ js.cache = "probing"
    /\ js' = [js EXCEPT !.cache = "failed"]
    /\ UNCHANGED <<set, dom, world>>

-----------------------------------------------------------------------------
(* Unraid's page *)

Observed(j) == [j EXCEPT !.timer = @ \/ j.boot = "running"]

Rewrite(cells, v) == [dom EXCEPT !.cells = [c \in Cells |-> IF c \in cells THEN v ELSE @[c]]]

\* The update check: "checking", then version and status anew.
CheckStarts ==
    /\ Change
    /\ dom' = Rewrite({"status"}, "checking")
    /\ js' = Observed(js)
    /\ UNCHANGED set

CheckEnds ==
    /\ dom.cells["status"] = "checking"
    /\ dom' = Rewrite({"version", "status"}, Raw)
    /\ js' = Observed(js)
    /\ UNCHANGED <<set, world>>

\* The list is rendered again, its logos too.
NativeRender ==
    /\ Change
    /\ dom' = [Rewrite(Cells, Raw) EXCEPT !.icon = "native", !.look = Raw]
    /\ js' = [Observed(js) EXCEPT !.target = FALSE]
    /\ UNCHANGED set

ChangeSetting ==
    /\ Change
    /\ set' \in ({[set EXCEPT !.live = ~@], [set EXCEPT !.box = ~@], [set EXCEPT !.sections = ~@]}
                    \cup {[set EXCEPT !.accent = a] : a \in Accents}) \ {set}
    /\ js' = [js EXCEPT !.event = js.boot # "off"]
    /\ UNCHANGED dom

Storage ==
    /\ js.event
    /\ Paint([js EXCEPT !.event = FALSE])
    /\ UNCHANGED <<set, world>>

Next == \/ Adopt \/ LatePaint \/ TabSwitch \/ Repaint \/ PinLoop \/ ProbeLoads \/ ProbeFails
        \/ CheckStarts \/ CheckEnds \/ NativeRender \/ ChangeSetting \/ Storage

-----------------------------------------------------------------------------
(* Properties *)

TypeOK ==
    /\ set \in Settings
    /\ dom.cells \in [Cells -> Accents \cup Unpainted]
    /\ dom.look \in (Accents \X BOOLEAN) \cup {Raw} /\ dom.page \in Settings \cup {Raw}
    /\ dom.icon \in {"native", "cropped"}
    /\ js.boot \in {"off", "adopting", "running"} /\ js.boot = "off" => dom.page = Raw
    /\ js.cache \in {"none", "probing", "cropped", "failed"}
    /\ world \in 0..MaxChanges

Calm == js.boot = "running" /\ set.live /\ ~js.timer /\ ~js.event

\* A calm page is painted whatever Unraid rewrote and in whatever order: every cell but
\* one that is still checking has its badge, removing asks first, tabs and sections and
\* the tint of the logos follow the settings of now, and a cropped logo is shown unless
\* its row was replaced while the crop was made (plugins.js:222, "Every plugin logo then
\* shows content at the SAME visual size").  The badges keep the colour of their first
\* paint, and the ink of the logos may be one paint late.
LooksAsSet ==
    Calm => /\ Raw \notin {dom.cells[c] : c \in Cells}
            /\ dom.look[1] = set.accent /\ dom.page = set
            /\ dom.carded = set.sections /\ dom.pinned
            /\ (js.cache = "cropped" /\ js.target) => dom.icon = "cropped"

\* Painting wakes the observer that paints: that comes to rest.
AtRest == ~js.timer /\ ~js.event
=============================================================================

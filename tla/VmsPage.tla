------------------------------- MODULE VmsPage -------------------------------
(***************************************************************************)
(* The VMs page (vms.js).  One function, apply, brings the page in line    *)
(* with the settings: at the start, on every storage event, and 300 ms     *)
(* after the list changed, whether Unraid changed it or apply did.  The    *)
(* rows are rewritten by Unraid's loadlist; the header of the table and    *)
(* the tab strip stay, so what is hidden or added there outlives the rows. *)
(***************************************************************************)
EXTENDS Naturals

CONSTANT MaxChanges     \* bound: changes of settings, renders, removals of the plugin

VARIABLES
    set,    \* localStorage
    dom,    \* what is on the page
    js,     \* the script's memory and timers
    world   \* the plugin's files; the bound

vars == <<set, dom, js, world>>

Looks == {"none", "tint", "box"}    \* of the logos: native, tinted, on a coloured box

\* adopt: follow the Docker tab's look (cc.*), else the page's own (ccv.*).
\* Bound: sections and rainbow are not both on.  The area is on: with it off at the start
\* the script does nothing at all.
Settings == [live : BOOLEAN, adopt : BOOLEAN, global : Looks, own : Looks,
             extra : {"none", "sections", "rainbow"}]

effK(s) == IF s.adopt THEN s.global ELSE s.own

RowMarks  == {"state", "cells", "actions"}
HeadMarks == {"actions", "ram hidden"}
PageMarks == {"on", "box", "sections", "rainbow"}

-----------------------------------------------------------------------------
(* Painting *)

enhanceRows(d) == [d EXCEPT !.rows = @ \cup {"state"}]

injectVmActionCell_HeadOnly(d) == [d EXCEPT !.head = @ \cup {"actions"}]

\* The header cell goes in once and stays; the row's cell goes in whatever happens.
injectVmActionCell(d) == [d EXCEPT !.head = @ \cup {"actions"}, !.rows = @ \cup {"actions"}]

\* Badges in place of the cells; RAM moves under CPU, its cell and header are hidden.
badgeCells(d) == [d EXCEPT !.rows = @ \cup {"cells"}, !.head = @ \cup {"ram hidden"}]

enhanceCells(d) == IF d.list THEN injectVmActionCell(badgeCells(d)) ELSE d

enhanceCellsTeardown_RowsOnly(d) == [d EXCEPT !.rows = @ \ {"cells", "actions"}]

enhanceCellsTeardown(d) ==
    [d EXCEPT !.rows = @ \ {"cells", "actions"}, !.head = @ \ {"actions", "ram hidden"}]

\* The readouts of the statistics tab get chips, which stay.
wrapVmStats(d) ==
    IF "on" \in d.page /\ d.stats = "native" THEN [d EXCEPT !.stats = "chips"] ELSE d

cardPanels(d)      == [d EXCEPT !.carded = TRUE]
flattenTeardown(d) == [d EXCEPT !.carded = FALSE]

stripVmTheming(d) ==
    [d EXCEPT !.rows = @ \ {"state"}, !.look = "none", !.page = @ \ {"box", "rainbow"}]

Extra(d, s, x) == [d EXCEPT !.page = (@ \ {x}) \cup ({s.extra} \cap {x})]

\* Tabs as sections, or as tabs again.
sections(d, s) ==
    LET c == Extra(d, s, "sections")
    IN  IF s.extra = "sections" THEN cardPanels(c) ELSE flattenTeardown(c)

applyRainbowPalette(d, s) == Extra(d, s, "rainbow")

\* The logos there are: a filter on the image, a colour on the glyph.
tintLogos(d, s) == IF d.list THEN [d EXCEPT !.look = effK(s)] ELSE d

\* Their background: a class of the page, and a filter in the ink that reads on it.
boxLogos(d, s) ==
    [d EXCEPT !.page = (@ \ {"box"}) \cup (IF effK(s) = "box" THEN {"box"} ELSE {})]

\* With an own look of none, what was there before is left as it is (vms.js:536).
logos(d, s) ==
    IF ~s.adopt /\ s.own = "none" THEN d ELSE boxLogos(tintLogos(d, s), s)

on(d)  == [d EXCEPT !.page = @ \cup {"on"}]
off(d) == [d EXCEPT !.page = @ \ {"on", "sections"}]

apply(d, s) ==
    IF ~s.live THEN flattenTeardown(enhanceCellsTeardown(stripVmTheming(off(d))))
    ELSE LET rows == IF d.list THEN enhanceRows(on(d)) ELSE on(d)
         IN  logos(applyRainbowPalette(sections(wrapVmStats(enhanceCells(rows)), s), s), s)

-----------------------------------------------------------------------------
(* The observers *)

\* What the observer of the list is told of: nodes come and go, not attributes.
ListNodes(d) == <<d.list, d.rows \cap {"cells", "actions"}>>

\* apply without a look at what is there already: every pass changes nodes.
PaintAs_Blind(d, j) ==
    /\ dom' = d
    /\ js' = [j EXCEPT !.moPending = @ \/ (j.mo /\ ~j.dead)]

\* The next page, and the observer woken by what changed on the way.
PaintAs(d, j) ==
    /\ dom' = d
    /\ js' = [j EXCEPT !.moPending = @ \/ (j.mo /\ ~j.dead /\ ListNodes(d) # ListNodes(dom))]

connectObserver(j, d) == [j EXCEPT !.mo = @ \/ d.list]

\* arm: apply, observe, and try again every 0.5 s until the list is there.
arm == LET d == apply(dom, set)
       IN  dom' = d /\ js' = connectObserver([js EXCEPT !.dead = FALSE, !.poll = TRUE], d)

Bare == [list |-> FALSE, rows |-> {}, head |-> {}, look |-> "none", page |-> {},
         carded |-> FALSE, stats |-> "absent"]

Init ==
    /\ set \in Settings
    /\ dom = apply(Bare, set)
    /\ js = [dead |-> FALSE, mo |-> FALSE, moPending |-> FALSE, poll |-> TRUE, event |-> FALSE]
    /\ world = [changes |-> 0, up |-> TRUE]

Change == /\ world.changes < MaxChanges
          /\ world' = [world EXCEPT !.changes = @ + 1]

\* loadlist: the rows come back bare.
NativeRender ==
    /\ Change
    /\ PaintAs([dom EXCEPT !.list = TRUE, !.rows = {}, !.look = "none"],
               [js EXCEPT !.moPending = @ \/ (js.mo /\ ~js.dead)])
    /\ UNCHANGED set

\* The statistics tab is opened for the first time; its own observer wraps it.
OpenStats ==
    /\ dom.stats = "absent"
    /\ dom' = [dom EXCEPT !.stats = "native"]
    /\ UNCHANGED <<set, js, world>>

SweepStats ==
    /\ ~js.dead /\ wrapVmStats(dom) # dom
    /\ dom' = wrapVmStats(dom)
    /\ UNCHANGED <<set, js, world>>

Sweep ==
    /\ js.moPending
    /\ LET j == [js EXCEPT !.moPending = FALSE]
       IN  IF js.dead THEN js' = j /\ UNCHANGED dom ELSE PaintAs(apply(dom, set), j)
    /\ UNCHANGED <<set, world>>

\* Bound: the list comes before the twentieth try.
Poll ==
    /\ js.poll
    /\ IF js.dead THEN js' = [js EXCEPT !.poll = FALSE] /\ UNCHANGED dom
       ELSE PaintAs(apply(dom, set),
                    [connectObserver(js, dom) EXCEPT !.poll = ~dom.list])
    /\ UNCHANGED <<set, world>>

-----------------------------------------------------------------------------
(* Settings, removal *)

\* One key at a time.
Others == {[set EXCEPT !.live = ~@], [set EXCEPT !.adopt = ~@]}
              \cup {[set EXCEPT !.global = l] : l \in Looks}
              \cup {[set EXCEPT !.own = l] : l \in Looks}
              \cup {[set EXCEPT !.extra = x] : x \in {"none", "sections", "rainbow"}}

ChangeSetting ==
    /\ Change
    /\ set' \in Others \ {set}
    /\ js' = [js EXCEPT !.event = TRUE]
    /\ UNCHANGED dom

Storage ==
    /\ js.event
    /\ LET j == [js EXCEPT !.event = FALSE]
       IN  IF js.dead THEN js' = j /\ UNCHANGED dom ELSE PaintAs(apply(dom, set), j)
    /\ UNCHANGED <<set, world>>

\* The state badges and the chips stay.
teardown ==
    /\ ~js.dead /\ ~world.up
    /\ dom' = [flattenTeardown(enhanceCellsTeardown(dom)) EXCEPT !.look = "none", !.page = {}]
    /\ js' = [js EXCEPT !.dead = TRUE, !.mo = FALSE]
    /\ UNCHANGED <<set, world>>

Rearm == /\ js.dead /\ world.up
         /\ arm
         /\ UNCHANGED <<set, world>>

Uninstall == /\ world.up /\ world.changes < MaxChanges
             /\ world' = [changes |-> world.changes + 1, up |-> FALSE]
             /\ UNCHANGED <<set, dom, js>>
Install   == /\ ~world.up
             /\ world' = [world EXCEPT !.up = TRUE]
             /\ UNCHANGED <<set, dom, js>>

Next == \/ NativeRender \/ OpenStats \/ ChangeSetting \/ Uninstall \/ Install
        \/ Sweep \/ SweepStats \/ Poll \/ Storage \/ teardown \/ Rearm

-----------------------------------------------------------------------------
(* Properties *)

TypeOK ==
    /\ set \in Settings
    /\ dom.rows \subseteq RowMarks /\ dom.head \subseteq HeadMarks /\ dom.page \subseteq PageMarks
    /\ dom.look \in Looks /\ dom.stats \in {"absent", "native", "chips"}
    /\ ~dom.list => dom.rows = {}
    /\ js.mo => dom.list
    /\ world.changes \in 0..MaxChanges

Calm == dom.list /\ ~js.dead /\ ~js.moPending /\ ~js.poll /\ ~js.event

\* Once calm, the page depends on the settings alone, not on the way there.  With theming
\* off it is native (vms.js:520) but for the chips of the statistics; a look of none that
\* the page chose for itself says nothing about the logos (vms.js:536).
LooksAsSet ==
    Calm => LET own == ~set.adopt /\ set.own = "none"
            IN  IF set.live
                THEN /\ dom.rows = RowMarks
                     /\ own \/ (dom.look = effK(set) /\ ("box" \in dom.page <=> effK(set) = "box"))
                     /\ dom.page \ {"box"} = {"on"} \cup ({set.extra} \ {"none"})
                     /\ dom.carded <=> set.extra = "sections"
                ELSE dom.rows = {} /\ dom.look = "none" /\ dom.page = {} /\ ~dom.carded

\* Header and rows have the same columns once calm, alive or dead: the actions column is
\* in both or in neither, RAM is hidden in both or in neither (vms.js:325-328, "if any row
\* lacks its Actions TD while this TH exists, that row renders one column short").
ColumnsInStep ==
    (dom.list /\ ~js.moPending /\ ~js.poll) =>
        /\ "actions" \in dom.head <=> "actions" \in dom.rows
        /\ "ram hidden" \in dom.head <=> "cells" \in dom.rows

\* apply's own writes wake the observer that calls apply: that comes to rest.
AtRest == ~js.moPending /\ ~js.event
=============================================================================

----------------------------- MODULE SettingsGrid -----------------------------
(***************************************************************************)
(* The tiles of /Settings and /Tools (settingsgrid.js).  An icon is either  *)
(* a badge or tinted or left alone, and one mode follows the other on the   *)
(* same nodes: what the last one wrote must be gone.  Unraid swaps the      *)
(* content of the page, an observer paints it 150 ms later.                 *)
(***************************************************************************)
EXTENDS Naturals

CONSTANTS None, MaxChanges      \* bound: settings changed

VARIABLES
    set,    \* localStorage
    dom,    \* the classes of the page, its filters, what tiles and headings carry
    js,     \* is the script running; its timer and its event
    world   \* bounds

vars == <<set, dom, js, world>>

\* The badge is on (ccs.iconbg); it is off and there is a colour (ccs.iconcolor); neither.
Modes       == {"badge", "tint", "plain"}
TileColours == {"accent", "rainbow", "active"}
Settings == [area : BOOLEAN, theming : BOOLEAN, icons : Modes, colour : TileColours]

rbOn(s)      == s.colour # "accent"
rbNeutral(s) == s.colour = "active"

live(s)  == s.area /\ s.theming
badge(s) == live(s) /\ s.icons = "badge"
tint(s)  == live(s) /\ s.icons = "tint"

Bare == [background |-> None, glyph |-> None, filter |-> None, vars |-> FALSE]
Head == [indexed |-> FALSE, painted |-> FALSE]

-----------------------------------------------------------------------------

ensureMonoFilter(d) == [d EXCEPT !.hosts = @ \cup {"mono"}]
ensureTintFilter(d) == [d EXCEPT !.hosts = @ \cup {"tint"}]

\* The raster logo takes the ink of its badge, whatever the colour mode.
paintGrid(d, s) ==
    LET direct == rbOn(s) /\ ~rbNeutral(s)
    IN  [ensureMonoFilter(d) EXCEPT
            !.cls = (@ \ {"rbneutral"}) \cup (IF rbNeutral(s) THEN {"rbneutral"} ELSE {}),
            !.tile = [background |-> IF direct THEN "palette" ELSE None,
                      glyph      |-> IF direct THEN "ink" ELSE None,
                      filter     |-> "mono",
                      vars       |-> rbOn(s)]]

\* The headings are painted in both rainbow modes.
paintHeads(d, s) == [d EXCEPT !.head = [indexed |-> TRUE, painted |-> rbOn(s)]]
clearHeads(d)    == [d EXCEPT !.head = IF d.head.indexed THEN Head ELSE @]

\* The variables of the palette stay; the filter of the badges stays on the page.
paintTint(d) ==
    [ensureTintFilter(d) EXCEPT
        !.tile = [@ EXCEPT !.background = None, !.glyph = "tint", !.filter = "tint"]]

clearTint_KeepsRaster(d) ==
    [d EXCEPT !.tile = [@ EXCEPT !.background = None, !.glyph = None], !.hosts = {}]

clearTint(d) ==
    [d EXCEPT !.tile = [@ EXCEPT !.background = None, !.glyph = None, !.filter = None],
              !.hosts = {}]

Painted(d, s) ==
    LET c == [d EXCEPT !.cls = (@ \ {"on", "tint", "heads-on"})
                    \cup (IF badge(s) THEN {"on"} ELSE {})
                    \cup (IF tint(s) THEN {"tint"} ELSE {})
                    \cup (IF live(s) THEN {"heads-on", "accent"} ELSE {})]
        h == IF live(s) THEN paintHeads(c, s) ELSE clearHeads(c)
    IN  IF badge(s) THEN paintGrid(clearTint(h), s)
        ELSE IF tint(s) THEN paintTint(h) ELSE clearTint(h)

apply(d, s) == dom' = Painted(d, s)

-----------------------------------------------------------------------------

\* boot gives up for good when the area is off.
Init ==
    /\ set \in Settings
    /\ js = [running |-> set.area, event |-> FALSE, moPending |-> FALSE]
    /\ dom = LET d == [cls |-> {}, hosts |-> {}, tile |-> Bare, head |-> Head]
             IN  IF set.area THEN Painted(d, set) ELSE d
    /\ world = [changes |-> 0]

\* Unraid puts fresh nodes there.
ContentSwapped ==
    /\ dom' = [dom EXCEPT !.tile = Bare, !.head = Head]
    /\ js' = [js EXCEPT !.moPending = js.running]
    /\ UNCHANGED <<set, world>>

Observed ==
    /\ js.moPending
    /\ apply(dom, set)
    /\ js' = [js EXCEPT !.moPending = FALSE]
    /\ UNCHANGED <<set, world>>

ChangeSetting ==
    /\ world.changes < MaxChanges
    /\ \E s \in {[set EXCEPT !.area = ~@], [set EXCEPT !.theming = ~@]}
                \cup {[set EXCEPT !.icons = i] : i \in Modes}
                \cup {[set EXCEPT !.colour = c] : c \in TileColours} :
           s # set /\ set' = s
    /\ js' = [js EXCEPT !.event = js.running]
    /\ world' = [world EXCEPT !.changes = @ + 1]
    /\ UNCHANGED dom

Storage ==
    /\ js.event
    /\ apply(dom, set)
    /\ js' = [js EXCEPT !.event = FALSE]
    /\ UNCHANGED <<set, world>>

Next == ContentSwapped \/ Observed \/ ChangeSetting \/ Storage

-----------------------------------------------------------------------------
(* Properties *)

TypeOK ==
    /\ set \in Settings
    /\ dom.cls \subseteq {"on", "tint", "heads-on", "accent", "rbneutral"}
    /\ dom.hosts \subseteq {"mono", "tint"}
    /\ dom.tile \in [background : {None, "palette"}, glyph : {None, "ink", "tint"},
                     filter : {None, "mono", "tint"}, vars : BOOLEAN]
    /\ dom.head \in [indexed : BOOLEAN, painted : BOOLEAN]
    /\ world.changes \in 0..MaxChanges

Calm == js.running /\ ~js.event /\ ~js.moPending

ExpectedTile(s) ==
    LET direct == rbOn(s) /\ ~rbNeutral(s)
    IN  IF badge(s)
        THEN <<IF direct THEN "palette" ELSE None, IF direct THEN "ink" ELSE None, "mono">>
        ELSE IF tint(s) THEN <<None, "tint", "tint">> ELSE <<None, None, None>>

\* Whichever mode came before, on the same nodes or on fresh ones, a tile carries the
\* style of the present mode alone, a filter it refers to exists, and a switched off
\* area leaves tiles and headings native (settingsgrid.js:141, "FULL teardown").
LooksAsSet ==
    Calm =>
        /\ <<dom.tile.background, dom.tile.glyph, dom.tile.filter>> = ExpectedTile(set)
        /\ dom.tile.filter # None => dom.tile.filter \in dom.hosts
        /\ ("on" \in dom.cls <=> badge(set)) /\ ("tint" \in dom.cls <=> tint(set))
        /\ dom.head = [indexed |-> live(set), painted |-> live(set) /\ rbOn(set)]
=============================================================================

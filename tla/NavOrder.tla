------------------------------- MODULE NavOrder -------------------------------
(***************************************************************************)
(* The order of the main menu (header.js): tabs and icons that the user may *)
(* drag anywhere in two tiles, an order that is saved and restored, icons  *)
(* that come late, and Unraid's Connect, which watches the menu too and    *)
(* rebuilds it when it was reordered.  After the fourth attempt within     *)
(* three seconds to put the order in place the script stands down for five. *)
(*                                                                         *)
(* A tile is what it shows from its first item to its last: the set of the *)
(* pairs <<a, b>> of items of which a is b, or stands before it.           *)
(***************************************************************************)
EXTENDS Naturals

CONSTANTS
    Left, Right,    \* the tiles as the server sends them
    Late,           \* the items of Right that a script adds after the start
    None,
    Opponents,      \* of {"none", "prompt", "slow"}: is Connect there, and how fast
    MaxTries,       \* 4 in the code
    MaxChanges      \* bound: settings changed, gestures

\* The items of a tile.
In(t) == {p[1] : p \in t}

\* One after the other, and none of them twice.
IsTile(t) ==
    LET I == In(t) IN
    /\ t \subseteq I \X I
    /\ \A a, b \in I : /\ <<a, b>> \in t \/ <<b, a>> \in t
                       /\ (<<a, b>> \in t /\ <<b, a>> \in t) => a = b
    /\ \A a, b, c \in I : (<<a, b>> \in t /\ <<b, c>> \in t) => <<a, c>> \in t

Alone(i)     == {<<i, i>>}
Only(t, S)   == t \cap (S \X S)
Except(t, S) == Only(t, In(t) \ S)
Then(t, u)   == t \cup u \cup (In(t) \X In(u))
Backwards(t) == {<<p[2], p[1]>> : p \in t}

Items == In(Left) \cup In(Right)

VARIABLES
    set,    \* is the area on; the saved order
    dom,    \* the two tiles; the items that jiggle, and those wired for dragging
    js,     \* the script's memory and timers
    world   \* what the user, Connect and other scripts do

vars == <<set, dom, js, world>>

\* The saved order of an earlier visit, with all items.
Orders == {[left |-> Right, right |-> Left],
           [left |-> Backwards(Left), right |-> Backwards(Right)]}

navAllParts(d) == In(d.left) \cup In(d.right)

-----------------------------------------------------------------------------
(* applyNavOrder *)

\* What is wanted and there, in that order, with anything else between.
inPlace(d, side, want) ==
    Only(d[side], In(want)) = Only(want, navAllParts(d))

Arranged(d, o) == inPlace(d, "left", o.left) /\ inPlace(d, "right", o.right)

\* Each wanted item goes to the end of its tile: one that is not wanted ends up first.
place(d, o) ==
    LET l == Only(o.left, navAllParts(d))
        r == Only(o.right, navAllParts(d))
        moved == In(l) \cup In(r)
    IN  [d EXCEPT !.left = Then(Except(@, moved), l), !.right = Then(Except(@, moved), r)]

\* Not during a drag or a truce, and not without a saved order.
Wants(j, s) == ~j.reorder /\ j.dragged = None /\ ~j.truce /\ s.order # None

Tries(j) == (IF j.recent THEN j.tries ELSE 0) + 1

\* No fourth attempt: no truce.
applyNavOrder_NoTruce(d, s, j, w) ==
    IF ~Wants(j, s) \/ Arranged(d, s.order) THEN dom' = d /\ js' = j /\ world' = w
    ELSE /\ dom' = place(d, s.order)
         /\ js' = [j EXCEPT !.timer = TRUE]
         /\ world' = [w EXCEPT !.rebuild = w.opponent # "none", !.escaped = FALSE]

\* With the settings s, on the page d, as part of a step that leaves the memory j.  A
\* reordering wakes the observer, and Connect; all in place ends the count.
applyNavOrder(d, s, j, w) ==
    IF ~Wants(j, s) THEN dom' = d /\ js' = j /\ world' = w
    ELSE IF Arranged(d, s.order)
    THEN dom' = d /\ js' = [j EXCEPT !.tries = 0] /\ world' = [w EXCEPT !.escaped = FALSE]
    ELSE IF Tries(j) >= MaxTries
    THEN /\ dom' = d
         /\ js' = [j EXCEPT !.tries = 0, !.recent = TRUE, !.truce = TRUE]
         /\ world' = [w EXCEPT !.stood = TRUE]
    ELSE /\ dom' = place(d, s.order)
         /\ js' = [j EXCEPT !.tries = Tries(j), !.recent = TRUE, !.timer = TRUE]
         /\ world' = [w EXCEPT !.rebuild = w.opponent # "none", !.escaped = FALSE]

\* New items are wired, in this pass or the observer's.
setupNavDrag(d) == [d EXCEPT !.wired = @ \cup navAllParts(d)]

apply(d, s, j, w) ==
    IF s.on THEN applyNavOrder(setupNavDrag(d), s, j, w)
            ELSE dom' = d /\ js' = j /\ world' = w

\* One pass, 120 ms later, for all that happens to the menu meanwhile.
Seen(j) == [j EXCEPT !.timer = TRUE]

-----------------------------------------------------------------------------

Idle == [reorder |-> FALSE, dragged |-> None, press |-> None, hold |-> FALSE, moved |-> FALSE,
         suppress |-> FALSE, tries |-> 0, recent |-> FALSE, truce |-> FALSE, timer |-> FALSE]

\* Boot is the first pass.
Init ==
    /\ set \in [on : BOOLEAN, order : Orders \cup {None}]
    /\ dom = [left |-> Left, right |-> Except(Right, Late), wiggle |-> {}, wired |-> {}]
    /\ js = Seen(Idle)
    /\ world \in [changes : {0}, opponent : Opponents, rebuild : {FALSE}, pressed : {FALSE},
                  escaped : {FALSE}, stood : {FALSE}]

Change == world.changes < MaxChanges
Changed(w) == [w EXCEPT !.changes = @ + 1]

\* Connect that is prompt answers before the observer's 120 ms are over.
Pass ==
    /\ js.timer /\ ~(world.rebuild /\ world.opponent = "prompt")
    /\ apply(dom, set, [js EXCEPT !.timer = FALSE], world)
    /\ UNCHANGED set

\* Connect undoes the reordering, or builds its nodes anew where they are.
Rebuild ==
    /\ world.rebuild
    /\ dom' \in {dom, [dom EXCEPT !.left = Only(Left, navAllParts(dom)),
                                   !.right = Only(Right, navAllParts(dom))]}
    /\ js' = Seen(js)
    /\ world' = [world EXCEPT !.rebuild = FALSE]
    /\ UNCHANGED set

LateItem ==
    /\ \E i \in Late \ navAllParts(dom) : dom' = [dom EXCEPT !.right = Then(@, Alone(i))]
    /\ js' = Seen(js)
    /\ UNCHANGED <<set, world>>

\* Three seconds without an attempt; five seconds of truce.  The timers above are shorter.
Quiet == ~js.timer /\ ~world.rebuild

WindowPasses ==
    /\ js.recent /\ ~js.truce /\ Quiet
    /\ js' = [js EXCEPT !.recent = FALSE]
    /\ UNCHANGED <<set, dom, world>>

TruceEnds ==
    /\ js.truce /\ Quiet
    /\ js' = [js EXCEPT !.truce = FALSE, !.recent = FALSE]
    /\ UNCHANGED <<set, dom, world>>

\* Another tab: the area is switched, or an order was dragged there.
Storage ==
    /\ Change
    /\ \E s \in {[set EXCEPT !.on = ~@]} \cup {[set EXCEPT !.order = o] : o \in Orders} :
           set' = s /\ apply(dom, s, js, Changed(world))

-----------------------------------------------------------------------------
(* The gesture: press, hold for 300 ms, drag, release.  It outlives the area. *)

PointerDown ==
    /\ Change /\ ~world.pressed
    /\ \E i \in dom.wired :
           js' = [js EXCEPT !.press = i, !.hold = TRUE, !.moved = FALSE]
    /\ world' = [Changed(world) EXCEPT !.pressed = TRUE]
    /\ UNCHANGED <<set, dom>>

cancelHold(j) == [j EXCEPT !.hold = FALSE, !.press = None]

HoldFires ==
    /\ js.hold
    /\ js' = [js EXCEPT !.hold = FALSE, !.reorder = TRUE, !.dragged = js.press]
    /\ dom' = [dom EXCEPT !.wiggle = navAllParts(dom)]
    /\ UNCHANGED <<set, world>>

\* More than 8 px before the hold is over: a click or a scroll.
MoveEarly ==
    /\ js.press # None /\ ~js.reorder
    /\ js' = cancelHold(js)
    /\ UNCHANGED <<set, dom, world>>

\* The dragged item goes before or after the one under the pointer, in either tile.
Beside(s, i, other, after) ==
    LET t == Except(s, {i})
        ahead == {a \in In(t) : <<a, other>> \in t /\ (after \/ a # other)}
    IN  IF other \notin In(t) THEN t
        ELSE Then(Then(Only(t, ahead), Alone(i)), Except(t, ahead))

Drag ==
    /\ js.dragged # None
    /\ \E other \in navAllParts(dom) \ {js.dragged}, after \in BOOLEAN :
           dom' = [dom EXCEPT !.left = Beside(@, js.dragged, other, after),
                              !.right = Beside(@, js.dragged, other, after)]
    /\ js' = [Seen(js) EXCEPT !.moved = TRUE]
    /\ UNCHANGED <<set, world>>

exitReorder(j) == [j EXCEPT !.reorder = FALSE, !.dragged = None, !.moved = FALSE]

\* What is shown is saved: an item that is not there yet loses its place.
saveNavOrder(d) == [left |-> d.left, right |-> d.right]

\* The drop is not saved.
PointerUp_Unsaved ==
    /\ world.pressed
    /\ js' = [IF js.reorder THEN exitReorder(cancelHold(js)) ELSE cancelHold(js)
                EXCEPT !.suppress = @ \/ (js.reorder /\ ~js.moved)]
    /\ dom' = IF js.reorder THEN [dom EXCEPT !.wiggle = {}] ELSE dom
    /\ world' = [world EXCEPT !.pressed = FALSE]
    /\ UNCHANGED set

\* Release, or the browser takes the pointer away.  After a hold without a move the
\* click that follows is swallowed.
PointerUp ==
    /\ world.pressed
    /\ set' = IF js.dragged # None THEN [set EXCEPT !.order = saveNavOrder(dom)] ELSE set
    /\ js' = [IF js.reorder THEN exitReorder(cancelHold(js)) ELSE cancelHold(js)
                EXCEPT !.suppress = @ \/ (js.reorder /\ ~js.moved)]
    /\ dom' = IF js.reorder THEN [dom EXCEPT !.wiggle = {}] ELSE dom
    /\ world' = [world EXCEPT !.pressed = FALSE, !.escaped = @ /\ js.dragged = None]

\* Escape drops the item where it is, unsaved.
Escape ==
    /\ js.reorder
    /\ js' = exitReorder(cancelHold(js))
    /\ dom' = [dom EXCEPT !.wiggle = {}]
    /\ world' = [world EXCEPT !.escaped = TRUE]
    /\ UNCHANGED set

Click ==
    /\ js.suppress
    /\ js' = [js EXCEPT !.suppress = FALSE]
    /\ UNCHANGED <<set, dom, world>>

User == PointerDown \/ MoveEarly \/ Drag \/ PointerUp \/ Escape \/ Click \/ Storage

Next == User \/ Pass \/ Rebuild \/ LateItem \/ HoldFires \/ WindowPasses \/ TruceEnds

-----------------------------------------------------------------------------
(* Properties *)

TypeOK ==
    /\ set.on \in BOOLEAN
    /\ set.order # None => \A side \in {"left", "right"} : IsTile(set.order[side])
    /\ dom.wired \cup dom.wiggle \subseteq navAllParts(dom)
    /\ IsTile(dom.left) /\ IsTile(dom.right) /\ In(dom.left) \cap In(dom.right) = {}
    /\ navAllParts(dom) \cup Late = Items
    /\ js.dragged \in Items \cup {None} /\ js.press \in Items \cup {None}
    /\ js.tries \in 0..MaxTries - 1
    /\ world.changes \in 0..MaxChanges

Calm == set.on /\ Quiet /\ ~js.reorder

\* Whatever was dragged, switched off and on, added late or changed in another tab: at
\* rest the menu shows the saved order - unless Connect undoes it, or Escape left a
\* dragged item where it was - and nothing jiggles (header.js:295, "THE OLD BUG").
OrderIsKept ==
    Calm => /\ dom.wiggle = {} /\ js.dragged = None
            /\ \/ set.order = None \/ world.opponent # "none" \/ world.escaped \/ world.stood
               \/ Arranged(dom, set.order)

\* The fight with Connect ends (header.js:312, "the chain dies"): no reordering that it
\* answers.  A user may drag for ever.
AtRest == ~world.rebuild
=============================================================================

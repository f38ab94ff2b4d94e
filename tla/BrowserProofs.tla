---------------------------- MODULE BrowserProofs ----------------------------
(***************************************************************************)
(* What holds in a window of a browser, for every value of the constants:  *)
(* whatever the settings and however many of them change, whatever Unraid  *)
(* renders, sends or answers in between, at rest each page is what the     *)
(* settings of now say, and what belongs to Unraid is whole.               *)
(*                                                                         *)
(* One section for each page, and in it                                    *)
(*   - lemmas on the operators that paint: what a painting says afterwards *)
(*     and what it leaves alone, whatever was there before;                *)
(*   - the page's inductive invariant, ...Inv.  "At rest the page looks as *)
(*     set" is not inductive: it says nothing of a page that is not at     *)
(*     rest.  Added is what is true of it also then - which parts a pass   *)
(*     that is still due, a pending event or a timer will put right, and   *)
(*     that everything else is right already;                              *)
(*   - ...Init, ...Step and ...Safe: it holds at first, every step keeps   *)
(*     it, and it says what the page's properties say.                     *)
(* The last section puts the pages together.                               *)
(***************************************************************************)
EXTENDS Browser, TLAPS

-----------------------------------------------------------------------------
(* The tiles of /Settings and /Tools *)

GridDom ==
    [cls : SUBSET {"on", "tint", "heads-on", "accent", "rbneutral"}, hosts : SUBSET {"mono", "tint"},
     tile : [background : {None, "palette"}, glyph : {None, "ink", "tint"},
             filter : {None, "mono", "tint"}, vars : BOOLEAN],
     head : [indexed : BOOLEAN, painted : BOOLEAN]]

\* A heading that no pass has indexed is as Unraid has it.
HeadsKnown(d) == d.head.indexed \/ ~d.head.painted

\* What LooksAsSet asks of a calm page d.
GridLooks(d, s) ==
    /\ <<d.tile.background, d.tile.glyph, d.tile.filter>> = S!ExpectedTile(s)
    /\ d.tile.filter # None => d.tile.filter \in d.hosts
    /\ ("on" \in d.cls <=> S!badge(s)) /\ ("tint" \in d.cls <=> S!tint(s))
    /\ d.head = [indexed |-> S!live(s), painted |-> S!live(s) /\ S!rbOn(s)]

GridInv ==
    /\ set \in S!Settings /\ dom \in GridDom /\ HeadsKnown(dom)
    /\ js \in [running : BOOLEAN, event : BOOLEAN, moPending : BOOLEAN]
    /\ world \in [changes : 0..MaxChanges]
    /\ S!Calm => GridLooks(dom, set)

\* The painting of each mode, and taking it off.
LEMMA GridModes ==
  ASSUME NEW d \in GridDom, NEW s \in S!Settings
  PROVE  /\ LET p == S!paintGrid(d, s)
            IN  /\ p \in GridDom
                /\ p.head = d.head /\ p.hosts = d.hosts \cup {"mono"}
                /\ p.cls \cap {"on", "tint"} = d.cls \cap {"on", "tint"}
                /\ p.tile.background = IF S!rbOn(s) /\ ~S!rbNeutral(s) THEN "palette" ELSE None
                /\ p.tile.glyph = IF S!rbOn(s) /\ ~S!rbNeutral(s) THEN "ink" ELSE None
                /\ p.tile.filter = "mono"
         /\ LET p == S!paintTint(d)
            IN  /\ p \in GridDom
                /\ p.head = d.head /\ p.hosts = d.hosts \cup {"tint"} /\ p.cls = d.cls
                /\ p.tile.background = None /\ p.tile.glyph = "tint" /\ p.tile.filter = "tint"
         /\ LET p == S!clearTint(d)
            IN  /\ p \in GridDom
                /\ p.head = d.head /\ p.hosts = {} /\ p.cls = d.cls
                /\ p.tile.background = None /\ p.tile.glyph = None /\ p.tile.filter = None
  <1> USE DEF GridDom
  <1>1. LET p == S!paintGrid(d, s)
            IN  /\ p \in GridDom
                /\ p.head = d.head /\ p.hosts = d.hosts \cup {"mono"}
                /\ p.cls \cap {"on", "tint"} = d.cls \cap {"on", "tint"}
                /\ p.tile.background = IF S!rbOn(s) /\ ~S!rbNeutral(s) THEN "palette" ELSE None
                /\ p.tile.glyph = IF S!rbOn(s) /\ ~S!rbNeutral(s) THEN "ink" ELSE None
                /\ p.tile.filter = "mono"
    BY DEF S!paintGrid, S!ensureMonoFilter, S!rbOn, S!Settings
  <1>2. LET p == S!paintTint(d)
            IN  /\ p \in GridDom
                /\ p.head = d.head /\ p.hosts = d.hosts \cup {"tint"} /\ p.cls = d.cls
                /\ p.tile.background = None /\ p.tile.glyph = "tint" /\ p.tile.filter = "tint"
    BY DEF S!paintTint, S!ensureTintFilter
  <1>3. LET p == S!clearTint(d)
            IN  /\ p \in GridDom
                /\ p.head = d.head /\ p.hosts = {} /\ p.cls = d.cls
                /\ p.tile.background = None /\ p.tile.glyph = None /\ p.tile.filter = None
    BY DEF S!clearTint
  <1> QED BY <1>1, <1>2, <1>3

\* A pass paints what the settings say, whatever it finds.
LEMMA GridPainted ==
  ASSUME NEW d \in GridDom, NEW s \in S!Settings, HeadsKnown(d)
  PROVE  LET p == S!Painted(d, s) IN p \in GridDom /\ HeadsKnown(p) /\ GridLooks(p, s)
  <1> DEFINE c == [d EXCEPT !.cls = (@ \ {"on", "tint", "heads-on"})
                    \cup (IF S!badge(s) THEN {"on"} ELSE {})
                    \cup (IF S!tint(s) THEN {"tint"} ELSE {})
                    \cup (IF S!live(s) THEN {"heads-on", "accent"} ELSE {})]
             h == IF S!live(s) THEN S!paintHeads(c, s) ELSE S!clearHeads(c)
  <1>1. /\ c \in GridDom /\ c.head = d.head
        /\ ("on" \in c.cls <=> S!badge(s)) /\ ("tint" \in c.cls <=> S!tint(s))
    BY DEF GridDom
  <1>2. /\ h \in GridDom /\ h.cls = c.cls
        /\ h.head = [indexed |-> S!live(s), painted |-> S!live(s) /\ S!rbOn(s)]
    <2> HIDE DEF c
    <2>1. CASE S!live(s)
      BY <1>1, <2>1 DEF GridDom, S!paintHeads, S!rbOn, S!Settings
    <2>2. CASE ~S!live(s)
      BY <1>1, <2>2 DEF GridDom, S!clearHeads, S!Head, HeadsKnown, S!live, S!Settings
    <2> QED BY <2>1, <2>2
  <1>3. h.head.indexed \/ ~h.head.painted
    <2> HIDE DEF h
    <2>1. h.head.indexed = S!live(s) /\ h.head.painted = (S!live(s) /\ S!rbOn(s))
      BY <1>2
    <2> QED BY <2>1
  <1>4. S!Painted(d, s) = IF S!badge(s) THEN S!paintGrid(S!clearTint(h), s)
                          ELSE IF S!tint(s) THEN S!paintTint(h) ELSE S!clearTint(h)
    BY DEF S!Painted
  <1> HIDE DEF h, c
  <1>5. LET p == S!clearTint(h)
        IN  /\ p \in GridDom
            /\ p.head = h.head /\ p.hosts = {} /\ p.cls = h.cls
            /\ p.tile.background = None /\ p.tile.glyph = None /\ p.tile.filter = None
    BY <1>2, GridModes
  <1>6. ~(S!badge(s) /\ S!tint(s))
    BY DEF S!badge, S!tint
  <1>7. CASE S!badge(s)
    <2> DEFINE p == S!paintGrid(S!clearTint(h), s)
    <2>1. /\ p \in GridDom /\ p.head = h.head /\ "mono" \in p.hosts
          /\ p.cls \cap {"on", "tint"} = h.cls \cap {"on", "tint"}
          /\ p.tile.background = IF S!rbOn(s) /\ ~S!rbNeutral(s) THEN "palette" ELSE None
          /\ p.tile.glyph = IF S!rbOn(s) /\ ~S!rbNeutral(s) THEN "ink" ELSE None
          /\ p.tile.filter = "mono"
      BY <1>5, GridModes
    <2>2. S!Painted(d, s) = p
      BY <1>4, <1>7
    <2> HIDE DEF p
    <2>3. HeadsKnown(p)
      BY <1>3, <2>1 DEF HeadsKnown
    <2>4. <<p.tile.background, p.tile.glyph, p.tile.filter>> = S!ExpectedTile(s)
      BY <1>7, <2>1 DEF S!ExpectedTile
    <2> QED BY <1>1, <1>2, <1>6, <1>7, <2>1, <2>2, <2>3, <2>4 DEF GridLooks
  <1>8. CASE S!tint(s)
    <2> DEFINE p == S!paintTint(h)
    <2>1. /\ p \in GridDom /\ p.head = h.head /\ "tint" \in p.hosts /\ p.cls = h.cls
          /\ p.tile.background = None /\ p.tile.glyph = "tint" /\ p.tile.filter = "tint"
      BY <1>2, GridModes
    <2>2. S!Painted(d, s) = p
      BY <1>4, <1>6, <1>8
    <2> HIDE DEF p
    <2>3. HeadsKnown(p)
      BY <1>3, <2>1 DEF HeadsKnown
    <2>4. <<p.tile.background, p.tile.glyph, p.tile.filter>> = S!ExpectedTile(s)
      BY <1>6, <1>8, <2>1 DEF S!ExpectedTile
    <2> QED BY <1>1, <1>2, <1>6, <1>8, <2>1, <2>2, <2>3, <2>4 DEF GridLooks
  <1>9. CASE ~S!badge(s) /\ ~S!tint(s)
    <2> DEFINE p == S!clearTint(h)
    <2>1. S!Painted(d, s) = p
      BY <1>4, <1>9
    <2>2. /\ p \in GridDom /\ p.head = h.head /\ p.cls = h.cls
          /\ p.tile.background = None /\ p.tile.glyph = None /\ p.tile.filter = None
      BY <1>5
    <2> HIDE DEF p
    <2>3. HeadsKnown(p)
      BY <1>3, <2>2 DEF HeadsKnown
    <2>4. <<p.tile.background, p.tile.glyph, p.tile.filter>> = S!ExpectedTile(s)
      BY <1>9, <2>2 DEF S!ExpectedTile
    <2> QED BY <1>1, <1>2, <1>9, <2>1, <2>2, <2>3, <2>4 DEF GridLooks
  <1> QED BY <1>7, <1>8, <1>9

LEMMA GridInit == S!Init => GridInv
  <1> SUFFICES ASSUME S!Init PROVE GridInv
    OBVIOUS
  <1> DEFINE d == [cls |-> {}, hosts |-> {}, tile |-> S!Bare, head |-> S!Head]
  <1>1. d \in GridDom /\ HeadsKnown(d)
    BY DEF GridDom, HeadsKnown, S!Bare, S!Head
  <1>2. /\ set \in S!Settings /\ set.area \in BOOLEAN /\ world = [changes |-> 0]
        /\ js = [running |-> set.area, event |-> FALSE, moPending |-> FALSE]
        /\ dom = IF set.area THEN S!Painted(d, set) ELSE d
    BY DEF S!Init, S!Settings
  <1> HIDE DEF d
  <1>3. dom \in GridDom /\ HeadsKnown(dom) /\ (set.area => GridLooks(dom, set))
    BY <1>1, <1>2, GridPainted
  <1> QED BY <1>2, <1>3, BoundsAssumption DEF GridInv, S!Calm

LEMMA GridStep == GridInv /\ (S!Next \/ UNCHANGED S!vars) => GridInv'
  <1> SUFFICES ASSUME GridInv, S!Next \/ UNCHANGED S!vars PROVE GridInv'
    OBVIOUS
  <1>1. CASE S!ContentSwapped
    <2>1. dom' \in GridDom /\ HeadsKnown(dom')
      BY <1>1 DEF GridInv, GridDom, HeadsKnown, S!ContentSwapped, S!Bare, S!Head
    <2>2. js' \in [running : BOOLEAN, event : BOOLEAN, moPending : BOOLEAN] /\ ~S!Calm'
      BY <1>1 DEF GridInv, S!ContentSwapped, S!Calm
    <2> QED BY <1>1, <2>1, <2>2 DEF GridInv, S!ContentSwapped
  <1>2. CASE S!Observed \/ S!Storage
    <2>1. /\ dom' = S!Painted(dom, set) /\ UNCHANGED <<set, world>>
          /\ js' \in [running : BOOLEAN, event : BOOLEAN, moPending : BOOLEAN]
      BY <1>2 DEF GridInv, S!Observed, S!Storage, S!apply
    <2> QED BY <2>1, GridPainted DEF GridInv
  <1>3. CASE S!ChangeSetting
    <2>1. set' \in S!Settings
      <3>1. PICK s \in {[set EXCEPT !.area = ~@], [set EXCEPT !.theming = ~@]}
                \cup {[set EXCEPT !.icons = i] : i \in S!Modes}
                \cup {[set EXCEPT !.colour = c] : c \in S!TileColours} : set' = s
        BY <1>3 DEF S!ChangeSetting
      <3> QED BY <3>1 DEF GridInv, S!Settings
    <2>2. js' \in [running : BOOLEAN, event : BOOLEAN, moPending : BOOLEAN] /\ ~S!Calm'
      BY <1>3 DEF GridInv, S!ChangeSetting, S!Calm
    <2>3. world' \in [changes : 0..MaxChanges]
      BY <1>3, BoundsAssumption DEF GridInv, S!ChangeSetting
    <2> QED BY <1>3, <2>1, <2>2, <2>3 DEF GridInv, S!ChangeSetting
  <1>4. CASE UNCHANGED S!vars
    BY <1>4 DEF GridInv, S!vars, S!Calm
  <1> QED BY <1>1, <1>2, <1>3, <1>4 DEF S!Next

LEMMA GridSafe == GridInv => S!TypeOK /\ S!LooksAsSet
  BY DEF GridInv, GridDom, GridLooks, S!TypeOK, S!LooksAsSet

-----------------------------------------------------------------------------
(* What a row of the Docker list says *)

RowDom == [badge : R!States \cup {"transient", None}, bar : R!States \cup {None},
           res : {"dash", "wait", "value", None}]

RowJs == [known : R!States, pending : BOOLEAN, stats : BOOLEAN, mo : BOOLEAN,
          loads : [R!Slots -> R!States \cup {"asked", None}]]

RowWorld == [state : R!States, calls : [R!Calls -> R!Actions \cup {"ok", "error", None}],
             sent : 0..MaxActions, faults : 0..MaxFaults, failed : BOOLEAN]

\* The row d says what the script knows.
RowSays(d, known) == d.badge = known /\ d.bar = known

RowInv ==
    /\ set \in [menu : BOOLEAN] /\ dom \in RowDom /\ js \in RowJs /\ world \in RowWorld
    /\ js.pending => R!InFlight(world) # {}
    /\ (~js.pending /\ dom.badge # None) =>
            RowSays(dom, js.known) \/ R!Free(js) # R!Slots \/ world.failed
    /\ (~js.stats /\ dom.badge # None) => (dom.res = "dash" <=> js.known # "running")

LEMMA RowWords ==
    /\ None \notin {"running", "paused", "exited", "transient", "asked", "ok", "error",
                    "start", "stop", "pause", "unpause", "restart", "dash", "wait", "value"}
    /\ 1 \in R!Slots /\ MaxActions \in Nat /\ MaxFaults \in Nat
  BY SentinelsAssumption, BoundsAssumption DEF Words, R!Slots

\* A load that is asked for takes a free slot; with none free, all are in use.
LEMMA RowAsked ==
  ASSUME NEW j \in RowJs
  PROVE  LET a == R!Asked(j)
         IN  /\ a \in RowJs /\ R!Free(a) # R!Slots
             /\ a.known = j.known /\ a.pending = j.pending /\ a.stats = j.stats
  <1> DEFINE k == CHOOSE k \in R!Free(j) : TRUE
             a == [j EXCEPT !.loads[k] = "asked"]
  <1>1. R!Asked(j) = a
    BY DEF R!Asked
  <1>2. CASE k \in R!Slots
    <2>1. /\ a \in RowJs /\ a.loads[k] = "asked"
          /\ a.known = j.known /\ a.pending = j.pending /\ a.stats = j.stats
      <3> HIDE DEF k
      <3> QED BY <1>2 DEF RowJs
    <2>2. k \notin R!Free(a)
      <3> HIDE DEF k, a
      <3> QED BY <2>1, RowWords DEF R!Free
    <2> QED BY <1>1, <1>2, <2>1, <2>2
  <1>3. CASE k \notin R!Slots
    <2>1. /\ a \in RowJs /\ a.loads = j.loads
          /\ a.known = j.known /\ a.pending = j.pending /\ a.stats = j.stats
      <3> HIDE DEF k
      <3> QED BY <1>3 DEF RowJs
    <2>2. R!Free(j) = {}
      BY <1>3 DEF R!Free
    <2>3. R!Free(a) = {}
      <3> HIDE DEF a
      <3> QED BY <2>1, <2>2 DEF R!Free
    <2> QED BY <1>1, <2>1, <2>3, RowWords
  <1> QED BY <1>2, <1>3

\* A row that has badges after it was injected and brought in step.
LEMMA RowSync ==
  ASSUME NEW d \in RowDom, NEW j \in RowJs
  PROVE  /\ LET p == R!refresh(d, j)
            IN  /\ p \in RowDom /\ p.badge # None
                /\ IF d.badge = None
                   THEN RowSays(p, j.known) /\ (p.res = "dash" <=> j.known # "running") ELSE p = d
         /\ LET p == R!syncStateBadges(d, j)
            IN  /\ p \in RowDom /\ p.res = d.res
                /\ p.badge = None <=> d.badge = None
                /\ ~j.pending /\ d.badge # None => RowSays(p, j.known)
  BY RowWords DEF RowDom, RowJs, R!States, R!refresh, R!injectRowBadges, R!updateResGroup,
        R!syncStateBadges, RowSays

LEMMA RowInit == R!Init => RowInv
  <1> SUFFICES ASSUME R!Init PROVE RowInv
    OBVIOUS
  <1>1. js \in RowJs /\ world \in RowWorld /\ ~js.pending
    <2>1. [k \in R!Slots |-> IF k = 1 THEN "asked" ELSE None]
            \in [R!Slots -> R!States \cup {"asked", None}]
      OBVIOUS
    <2>2. [k \in R!Calls |-> None] \in [R!Calls -> R!Actions \cup {"ok", "error", None}]
      OBVIOUS
    <2>3. js \in RowJs /\ ~js.pending
      BY <2>1 DEF R!Init, RowJs
    <2>4. world \in RowWorld
      <3> DEFINE none == [k \in R!Calls |-> None]
      <3>1. none \in [R!Calls -> R!Actions \cup {"ok", "error", None}]
        BY <2>2
      <3>2. world \in [state : R!States, calls : {none}, sent : {0}, faults : {0},
                       failed : {FALSE}]
        BY DEF R!Init
      <3> HIDE DEF none
      <3>3. PICK q \in R!States :
              world = [state |-> q, calls |-> none, sent |-> 0, faults |-> 0, failed |-> FALSE]
        BY <3>2
      <3>4. 0 \in 0..MaxActions /\ 0 \in 0..MaxFaults
        BY RowWords
      <3> QED BY <3>1, <3>3, <3>4 DEF RowWorld
    <2> QED BY <2>3, <2>4
  <1>2. dom \in RowDom /\ RowSays(dom, js.known) /\ (dom.res = "dash" <=> js.known # "running")
    BY <1>1, RowWords DEF R!Init, R!reinjectRowBadges, R!updateResGroup, RowDom, RowJs, RowSays
  <1> QED BY <1>1, <1>2 DEF RowInv, R!Init

LEMMA RowStep == RowInv /\ (R!Next \/ UNCHANGED R!vars) => RowInv'
  <1> SUFFICES ASSUME RowInv, R!Next \/ UNCHANGED R!vars PROVE RowInv'
    OBVIOUS
  <1> USE DEF RowInv
  <1>1. CASE R!Poll
    BY <1>1, RowAsked DEF R!Poll
  <1>2. CASE R!Listed
    <2>1. PICK k \in R!Slots : js.loads[k] = "asked" /\ js' = [js EXCEPT !.loads[k] = world.state]
      BY <1>2 DEF R!Listed
    <2>2. js' \in RowJs /\ js'.known = js.known /\ js'.pending = js.pending /\ js'.stats = js.stats
          /\ js'.loads[k] = world.state
      BY <2>1 DEF RowJs, RowWorld
    <2>3. k \notin R!Free(js)'
      BY <2>2, RowWords DEF R!Free, RowWorld, R!States
    <2> QED BY <1>2, <2>2, <2>3 DEF R!Listed
  <1>3. CASE R!Land
    <2>1. PICK k \in R!Slots :
            /\ js.loads[k] \in R!States
            /\ LET j == [js EXCEPT !.known = js.loads[k], !.loads[k] = None]
               IN  js' = R!refreshStats(j) /\ dom' = R!syncStateBadges(R!refresh(dom, j), j)
      BY <1>3 DEF R!Land
    <2> DEFINE j == [js EXCEPT !.known = js.loads[k], !.loads[k] = None]
               r == R!refresh(dom, j)
    <2>2. j \in RowJs /\ j.known = js.loads[k] /\ j.pending = js.pending
      BY <2>1 DEF RowJs
    <2>3. js' = R!refreshStats(j) /\ dom' = R!syncStateBadges(r, j)
      BY <2>1
    <2> HIDE DEF j
    <2>4. js' \in RowJs /\ js'.known = j.known /\ js'.pending = j.pending /\ js'.stats
      BY <2>2, <2>3 DEF RowJs, R!refreshStats
    <2>5. r \in RowDom /\ r.badge # None
      BY <2>2, RowSync
    <2> HIDE DEF r
    <2>6. dom' \in RowDom /\ (~j.pending => RowSays(dom', j.known))
      BY <2>2, <2>3, <2>5, RowSync
    <2>7. world' \in RowWorld /\ R!InFlight(world)' = R!InFlight(world)
      BY <1>3 DEF R!Land, RowWorld, R!InFlight
    <2> QED BY <1>3, <2>2, <2>4, <2>6, <2>7 DEF R!Land
  <1>4. CASE R!LoadFails
    <2>1. js' \in RowJs /\ js'.known = js.known /\ js'.pending = js.pending /\ js'.stats = js.stats
      BY <1>4 DEF R!LoadFails, RowJs
    <2>2. world' \in RowWorld /\ R!InFlight(world)' = R!InFlight(world) /\ world'.failed
      <3>1. world.faults + 1 \in 0..MaxFaults
        BY <1>4, RowWords DEF R!LoadFails, R!Fault, RowWorld
      <3> QED BY <1>4, <3>1 DEF R!LoadFails, RowWorld, R!InFlight
    <2> QED BY <1>4, <2>1, <2>2 DEF R!LoadFails
  <1>5. CASE R!StatsLand
    <2>1. /\ js' \in RowJs /\ js'.known = js.known /\ js'.pending = js.pending
          /\ R!Free(js)' = R!Free(js)
      BY <1>5 DEF R!StatsLand, RowJs, R!Free
    <2>2. /\ dom' \in RowDom /\ dom'.badge = dom.badge /\ dom'.bar = dom.bar
          /\ dom.badge # None => (dom'.res = "dash" <=> js.known # "running")
      BY <1>5 DEF R!StatsLand, RowDom
    <2> QED BY <1>5, <2>1, <2>2 DEF R!StatsLand, RowSays
  <1>6. CASE R!Answered
    <2>1. PICK k \in R!InFlight(world) :
            /\ world.calls[k] \in {"ok", "error"}
            /\ LET j == [js EXCEPT !.pending = FALSE]
               IN  IF world.calls[k] = "ok" THEN js' = R!Asked(j) /\ UNCHANGED dom
                   ELSE js' = j /\ dom' = R!syncStateBadges(dom, j)
            /\ world' = [world EXCEPT !.calls[k] = None]
      BY <1>6 DEF R!Answered
    <2> DEFINE j == [js EXCEPT !.pending = FALSE]
    <2>2. /\ j \in RowJs /\ j.known = js.known /\ ~j.pending /\ j.stats = js.stats
      BY DEF RowJs
    <2>3. world' \in RowWorld
      BY <2>1 DEF RowWorld
    <2>4. IF world.calls[k] = "ok" THEN js' = R!Asked(j) /\ UNCHANGED dom
          ELSE js' = j /\ dom' = R!syncStateBadges(dom, j)
      BY <2>1
    <2> HIDE DEF j
    <2>5. CASE world.calls[k] = "ok"
      <3>1. /\ js' \in RowJs /\ R!Free(js') # R!Slots /\ js'.known = js.known /\ ~js'.pending
            /\ js'.stats = js.stats
        BY <2>2, <2>4, <2>5, RowAsked
      <3>2. R!Free(js)' # R!Slots'
        BY <3>1 DEF R!Free, R!Slots
      <3> QED BY <1>6, <2>3, <2>4, <2>5, <3>1, <3>2 DEF R!Answered
    <2>6. CASE world.calls[k] # "ok"
      <3>1. js' = j /\ dom' = R!syncStateBadges(dom, j)
        BY <2>4, <2>6
      <3>2. dom' \in RowDom /\ dom'.res = dom.res /\ (dom'.badge # None => RowSays(dom', js'.known))
        BY <2>2, <3>1, RowSync
      <3>3. dom'.badge # None => dom.badge # None
        BY <2>2, <3>1, RowSync
      <3> QED BY <1>6, <2>2, <2>3, <3>1, <3>2, <3>3 DEF R!Answered
    <2> QED BY <2>5, <2>6
  <1>7. CASE R!ActionFails
    <2>1. /\ js' \in RowJs /\ js'.known = js.known /\ ~js'.pending /\ js'.stats = js.stats
      BY <1>7 DEF R!ActionFails, RowJs
    <2>2. PICK k \in R!InFlight(world) :
            /\ world.calls[k] \in R!Actions
            /\ \E s \in {world.state, R!Effect(world.calls[k], world.state)} \ {None} :
                  world' = [world EXCEPT !.state = s, !.calls[k] = None, !.faults = @ + 1,
                                         !.failed = TRUE]
      BY <1>7 DEF R!ActionFails
    <2>3. R!Effect(world.calls[k], world.state) \in R!States \cup {None}
      BY <2>2 DEF R!Effect, R!Actions, R!States
    <2>4. PICK s \in R!States : world' = [world EXCEPT !.state = s, !.calls[k] = None,
                                            !.faults = @ + 1, !.failed = TRUE]
      BY <2>2, <2>3 DEF RowWorld
    <2>5. world' \in RowWorld /\ world'.failed
      <3>1. world.faults + 1 \in 0..MaxFaults
        BY <1>7, RowWords DEF R!ActionFails, R!Fault, RowWorld
      <3> QED BY <2>4, <3>1 DEF RowWorld
    <2>6. dom' = R!syncStateBadges(dom, js')
      BY <1>7 DEF R!ActionFails
    <2>7. dom' \in RowDom /\ dom'.res = dom.res /\ (dom'.badge = None <=> dom.badge = None)
      BY <2>1, <2>6, RowSync
    <2> QED BY <1>7, <2>1, <2>5, <2>7 DEF R!ActionFails
  <1>8. CASE R!Sweep
    <2>1. dom' = R!refresh(dom, js)
      BY <1>8 DEF R!Sweep
    <2>2. /\ dom' \in RowDom
          /\ IF dom.badge = None THEN RowSays(dom', js.known) ELSE dom' = dom
      BY <2>1, RowSync
    <2> DEFINE j == [js EXCEPT !.mo = FALSE]
    <2>3. j \in RowJs /\ j.known = js.known /\ j.pending = js.pending /\ R!Free(j) = R!Free(js)
      BY DEF RowJs, R!Free
    <2>4. js' = R!refreshStats(j) \/ js' = R!refreshStats(R!Asked(j))
      BY <1>8 DEF R!Sweep
    <2> HIDE DEF j
    <2>5. PICK a \in RowJs : /\ js' = R!refreshStats(a) /\ a.known = js.known
                             /\ a.pending = js.pending
                             /\ R!Free(a) = R!Free(js) \/ R!Free(a) # R!Slots
      BY <2>3, <2>4, RowAsked
    <2>6. /\ js' \in RowJs /\ js'.known = js.known /\ js'.pending = js.pending /\ js'.stats
          /\ R!Free(js)' = R!Free(a)
      BY <2>5 DEF R!refreshStats, RowJs, R!Free
    <2> QED BY <1>8, <2>2, <2>5, <2>6 DEF R!Sweep
  <1>9. CASE R!Executed
    <2>1. PICK k \in R!InFlight(world) :
           /\ world.calls[k] \in R!Actions
           /\ LET s == R!Effect(world.calls[k], world.state)
              IN  world' = [world EXCEPT !.state = IF s = None THEN @ ELSE s,
                                         !.calls[k] = IF s = None THEN "error" ELSE "ok"]
      BY <1>9 DEF R!Executed
    <2>2. R!Effect(world.calls[k], world.state) \in R!States \cup {None}
      BY <2>1 DEF R!Effect, R!Actions, R!States
    <2>3. PICK s \in R!States, a \in {"ok", "error"} :
            world' = [world EXCEPT !.state = s, !.calls[k] = a]
      BY <2>1, <2>2 DEF RowWorld
    <2>4. k \in R!Calls
      BY DEF R!InFlight
    <2>5. world' \in RowWorld /\ world'.failed = world.failed /\ world'.calls[k] = a
      BY <2>3, <2>4 DEF RowWorld
    <2>6. k \in R!InFlight(world)'
      BY <2>3, <2>4, <2>5, RowWords DEF R!InFlight
    <2> QED BY <1>9, <2>5, <2>6 DEF R!Executed
  <1>10. ASSUME NEW action \in R!Actions, R!doAction(action) PROVE RowInv'
    <2>1. js' \in RowJs /\ js'.known = js.known /\ js'.pending /\ js'.stats = js.stats
      BY <1>10 DEF R!doAction, RowJs
    <2>2. dom' \in RowDom /\ dom'.res = dom.res /\ (dom'.badge = None <=> dom.badge = None)
      BY <1>10, RowWords DEF R!doAction, R!markTransient, RowDom
    <2>3. /\ world' = [world EXCEPT !.calls[world.sent + 1] = action, !.sent = @ + 1]
          /\ world.sent + 1 \in R!Calls /\ world.sent + 1 \in 0..MaxActions
      BY <1>10, RowWords DEF R!doAction, RowWorld, R!Calls
    <2>4. world' \in RowWorld /\ world'.calls[world.sent + 1] = action
      BY <2>3 DEF RowWorld
    <2>5. world.sent + 1 \in R!InFlight(world)'
      BY <2>3, <2>4, RowWords DEF R!InFlight, R!Actions, R!Calls
    <2> QED BY <1>10, <2>1, <2>2, <2>4, <2>5 DEF R!doAction
  <1>11. CASE R!ClickBadge \/ R!ClickBar
    <2>1. \E action \in R!Actions : R!doAction(action)
      <3>1. CASE R!ClickBadge
        <4>1. PICK action : action \in {"stop", "unpause", "start"} /\ R!doAction(action)
          BY <3>1 DEF R!ClickBadge, RowJs, R!States
        <4> QED BY <4>1 DEF R!Actions
      <3>2. CASE R!ClickBar
        BY <3>2 DEF R!ClickBar, R!Actions
      <3> QED BY <1>11, <3>1, <3>2
    <2> QED BY <1>10, <2>1
  <1>12. CASE R!Outside
    <2>1. /\ world' \in RowWorld /\ R!InFlight(world)' = R!InFlight(world)
          /\ world'.failed = world.failed
      <3>1. world.faults + 1 \in 0..MaxFaults
        BY <1>12, RowWords DEF R!Outside, R!Fault, RowWorld
      <3>2. PICK s \in R!States : world' = [world EXCEPT !.state = s, !.faults = @ + 1]
        BY <1>12 DEF R!Outside
      <3>3. world' \in RowWorld /\ world'.failed = world.failed /\ world'.calls = world.calls
        BY <3>1, <3>2 DEF RowWorld
      <3> QED BY <3>3 DEF R!InFlight
    <2> QED BY <1>12, <2>1 DEF R!Outside
  <1>13. CASE R!NativeRender
    <2>1. js' \in RowJs /\ js'.pending = js.pending
      BY <1>13 DEF R!NativeRender, RowJs
    <2>2. dom' \in RowDom /\ dom'.badge = None
      BY <1>13 DEF R!NativeRender, RowDom
    <2> QED BY <1>13, <2>1, <2>2 DEF R!NativeRender
  <1>14. CASE R!Reinject
    <2>1. /\ dom' \in RowDom /\ RowSays(dom', js.known)
          /\ dom'.res = "dash" <=> js.known # "running"
      BY <1>14 DEF R!Reinject, R!reinjectRowBadges, R!updateResGroup, RowDom, RowJs, RowSays
    <2> QED BY <1>14, <2>1 DEF R!Reinject
  <1>15. CASE R!Menu \/ UNCHANGED R!vars
    BY <1>15 DEF R!Menu, R!vars
  <1> QED BY <1>1, <1>2, <1>3, <1>4, <1>5, <1>6, <1>7, <1>8, <1>9, <1>11, <1>12, <1>13, <1>14,
             <1>15 DEF R!Next, R!Page, R!Engine, R!Users

LEMMA RowSafe == RowInv => R!TypeOK /\ R!LooksAsSet
  BY DEF RowInv, RowDom, RowJs, RowWorld, RowSays, R!TypeOK, R!LooksAsSet, R!Calm

-----------------------------------------------------------------------------
(* The Plugins page *)

PlugDom == [cells : [P!Cells -> Accents \cup P!Unpainted], look : (Accents \X BOOLEAN) \cup {Raw},
            page : P!Settings \cup {Raw}, icon : {"native", "cropped"}, carded : BOOLEAN,
            pinned : BOOLEAN]

PlugJs == [boot : {"off", "adopting", "running"}, timer : BOOLEAN, event : BOOLEAN,
           cache : {"none", "probing", "cropped", "failed"}, target : BOOLEAN, late : BOOLEAN]

\* What LooksAsSet asks of a calm page d; the logo apart.
PlugLooks(d, s) ==
    /\ \A c \in P!Cells : d.cells[c] # Raw
    /\ d.look[1] = s.accent /\ d.page = s
    /\ d.carded = s.sections /\ d.pinned

\* A script that left at once hears of nothing.
PlugInv ==
    /\ set \in P!Settings /\ dom \in PlugDom /\ js \in PlugJs /\ world \in 0..MaxChanges
    /\ js.boot = "off" => dom.page = Raw /\ ~js.late /\ ~js.timer /\ ~js.event
    /\ P!Calm => /\ PlugLooks(dom, set)
                 /\ js.cache = "cropped" /\ js.target => dom.icon = "cropped"

LEMMA PlugWords ==
    Raw \notin Accents /\ Raw # "checking" /\ "checking" \notin Accents /\ MaxChanges \in Nat
  BY SentinelsAssumption, BoundsAssumption DEF Words

\* A paint brings any page in line with the settings; with the area off it leaves it alone.
LEMMA PlugPaint ==
  ASSUME NEW d \in PlugDom, NEW s \in P!Settings, NEW cache
  PROVE  LET p == P!paint(d, s, cache)
         IN  /\ p \in PlugDom
             /\ IF s.live THEN PlugLooks(p, s) /\ (cache = "cropped" => p.icon = "cropped")
                ELSE p = d
  <1>1. CASE ~s.live
    BY <1>1 DEF P!paint
  <1>2. CASE s.live
    <2> DEFINE l == P!logo(d, s)
               n == P!normalizeIcon(l, cache)
               r == P!paintRow(d, s, cache)
               t == P!colorTabs(r, s)
               f == IF s.sections THEN P!cardPanels(t) ELSE P!flattenTeardown(t)
               p == P!plugPinTick(f, s)
    <2>1. P!paint(d, s, cache) = p
      BY <1>2 DEF P!paint
    <2>2. r = [n EXCEPT !.cells = [c \in P!Cells |-> P!paintCell(@[c], s)]]
      BY DEF P!paintRow
    <2>3. l \in PlugDom /\ l.cells = d.cells /\ l.look[1] = s.accent
      <3>1. <<s.accent, P!boxed(d)>> \in Accents \X BOOLEAN
        BY DEF PlugDom, P!boxed, P!Settings
      <3>2. l = [d EXCEPT !.look = <<s.accent, P!boxed(d)>>]
        BY DEF P!logo
      <3> HIDE DEF l
      <3>3. l \in PlugDom /\ l.cells = d.cells /\ l.look = <<s.accent, P!boxed(d)>>
        BY <3>1, <3>2 DEF PlugDom
      <3> QED BY <3>3
    <2> HIDE DEF l
    <2>4. /\ n \in PlugDom /\ n.cells = l.cells /\ n.look = l.look
          /\ cache = "cropped" => n.icon = "cropped"
      BY <2>3 DEF PlugDom, P!normalizeIcon
    <2> HIDE DEF n, r
    <2>5. /\ r \in PlugDom /\ \A c \in P!Cells : r.cells[c] # Raw
          /\ r.look = n.look /\ r.icon = n.icon
      <3> DEFINE q == [c \in P!Cells |-> P!paintCell(n.cells[c], s)]
      <3>1. \A c \in P!Cells : n.cells[c] \in Accents \cup P!Unpainted
        BY <2>4 DEF PlugDom
      <3>2. \A c \in P!Cells : P!paintCell(n.cells[c], s) \in (Accents \cup P!Unpainted) \ {Raw}
        BY <3>1, PlugWords DEF P!paintCell, P!badge, P!Unpainted, P!Settings
      <3>3. q \in [P!Cells -> Accents \cup P!Unpainted] /\ \A c \in P!Cells : q[c] # Raw
        BY <3>2
      <3>4. r = [n EXCEPT !.cells = q]
        BY <2>2
      <3> HIDE DEF q
      <3>5. r \in PlugDom /\ r.cells = q /\ r.look = n.look /\ r.icon = n.icon
        BY <2>4, <3>3, <3>4 DEF PlugDom
      <3> QED BY <3>3, <3>5
    <2>6. t \in PlugDom /\ t.page = s /\ t.cells = r.cells /\ t.look = r.look /\ t.icon = r.icon
      BY <2>5 DEF PlugDom, P!colorTabs
    <2> HIDE DEF t
    <2>7. /\ f \in PlugDom /\ f.page = t.page /\ f.cells = t.cells /\ f.look = t.look
          /\ f.icon = t.icon /\ f.carded = s.sections
      BY <2>6 DEF PlugDom, P!cardPanels, P!flattenTeardown, P!Settings
    <2> HIDE DEF f
    <2>8. /\ p \in PlugDom /\ p.page = f.page /\ p.cells = f.cells /\ p.look = f.look
          /\ p.icon = f.icon /\ p.carded = f.carded /\ p.pinned
      BY <1>2, <2>7 DEF PlugDom, P!plugPinTick
    <2> HIDE DEF p
    <2> QED BY <1>2, <2>1, <2>3, <2>4, <2>5, <2>6, <2>7, <2>8 DEF PlugLooks
  <1> QED BY <1>1, <1>2

\* A pass: painted, as the crop was before the pass.
LEMMA PlugPass ==
  ASSUME PlugInv, NEW j \in PlugJs, P!Paint(j), UNCHANGED <<set, world>>,
         j.boot = js.boot, j.cache = js.cache, j.boot # "off"
  PROVE  PlugInv'
  <1> DEFINE k == P!Probing(j, set)
             p == P!paint(dom, set, js.cache)
  <1>1. k \in PlugJs /\ k.boot = j.boot /\ (k.cache = "cropped" => js.cache = "cropped")
    BY DEF P!Probing, PlugJs
  <1>2. P!PaintAs(p, k)
    BY DEF P!Paint
  <1>3. p \in PlugDom
        /\ (set.live => PlugLooks(p, set) /\ (js.cache = "cropped" => p.icon = "cropped"))
    BY PlugPaint DEF PlugInv
  <1> HIDE DEF k, p
  <1>4. dom' = p /\ js' \in PlugJs /\ js'.boot = k.boot /\ js'.cache = k.cache
    BY <1>1, <1>2 DEF P!PaintAs, PlugJs
  <1> QED BY <1>1, <1>3, <1>4 DEF PlugInv, P!Calm

\* Unraid rewrites cells, and the observer is told.
LEMMA PlugRewritten ==
  ASSUME PlugInv, set' = set, dom' \in PlugDom, dom'.page = dom.page, world' \in 0..MaxChanges,
         js' \in PlugJs, js'.boot = js.boot, js'.late = js.late, js'.event = js.event,
         js'.timer = (js.timer \/ js.boot = "running")
  PROVE  PlugInv'
  BY DEF PlugInv, P!Calm

LEMMA PlugRewrite ==
  ASSUME PlugInv, NEW cells \in SUBSET P!Cells, NEW v \in P!Unpainted
  PROVE  P!Rewrite(cells, v) \in PlugDom /\ P!Rewrite(cells, v).page = dom.page
  <1> DEFINE q == [c \in P!Cells |-> IF c \in cells THEN v ELSE dom.cells[c]]
  <1>1. q \in [P!Cells -> Accents \cup P!Unpainted]
    BY DEF PlugInv, PlugDom
  <1>2. P!Rewrite(cells, v) = [dom EXCEPT !.cells = q]
    BY DEF P!Rewrite
  <1> HIDE DEF q
  <1> QED BY <1>1, <1>2 DEF PlugInv, PlugDom

LEMMA PlugInit == P!Init => PlugInv
  <1> SUFFICES ASSUME P!Init PROVE PlugInv
    OBVIOUS
  <1>1. set \in P!Settings /\ world = 0
    BY DEF P!Init
  <1>2. dom \in PlugDom /\ dom.page = Raw
    <2> DEFINE q == [c \in P!Cells |-> Raw]
    <2>1. q \in [P!Cells -> Accents \cup P!Unpainted]
      BY DEF P!Unpainted
    <2>2. dom = [cells |-> q, look |-> Raw, page |-> Raw, icon |-> "native",
                 carded |-> FALSE, pinned |-> FALSE]
      BY DEF P!Init, P!Native
    <2> HIDE DEF q
    <2> QED BY <2>1, <2>2 DEF PlugDom
  <1>3. js \in PlugJs /\ js.boot # "running" /\ ~js.late /\ ~js.timer /\ ~js.event
    BY DEF P!Init, PlugJs
  <1>4. 0 \in 0..MaxChanges
    BY PlugWords
  <1> QED BY <1>1, <1>2, <1>3, <1>4 DEF PlugInv, P!Calm

LEMMA PlugStep == PlugInv /\ (P!Next \/ UNCHANGED P!vars) => PlugInv'
  <1> SUFFICES ASSUME PlugInv, P!Next \/ UNCHANGED P!vars PROVE PlugInv'
    OBVIOUS
  <1>0. P!Change => world' \in 0..MaxChanges
    BY PlugWords DEF PlugInv, P!Change
  <1>1. CASE P!Adopt
    <2>1. set' \in P!Settings /\ world' \in 0..MaxChanges
      BY <1>0, <1>1 DEF P!Adopt, PlugInv
    <2> DEFINE j == [js EXCEPT !.boot = "running", !.late = TRUE]
               p == P!paint(dom, set', js.cache)
    <2>2. j \in PlugJs /\ j.boot = "running" /\ j.cache = js.cache
      BY DEF PlugInv, PlugJs
    <2>3. dom' = p /\ js' = P!Probing(j, set')
      BY <1>1 DEF P!Adopt
    <2>4. /\ p \in PlugDom
          /\ set'.live => PlugLooks(p, set') /\ (js.cache = "cropped" => p.icon = "cropped")
      BY <2>1, PlugPaint DEF PlugInv
    <2> HIDE DEF j, p
    <2>5. js' \in PlugJs /\ js'.boot = "running" /\ (js'.cache = "cropped" => js.cache = "cropped")
      BY <2>2, <2>3 DEF P!Probing, PlugJs
    <2> QED BY <2>1, <2>3, <2>4, <2>5 DEF PlugInv, P!Calm
  <1>2. CASE P!LatePaint \/ P!Repaint \/ P!Storage
    <2>1. PICK j \in {[js EXCEPT !.late = FALSE], [js EXCEPT !.timer = FALSE],
                      [js EXCEPT !.event = FALSE]} : P!Paint(j) /\ UNCHANGED <<set, world>>
      BY <1>2 DEF P!LatePaint, P!Repaint, P!Storage
    <2>2. j \in PlugJs /\ j.boot = js.boot /\ j.cache = js.cache
      BY <2>1 DEF PlugInv, PlugJs
    <2>3. js.boot # "off"
      BY <1>2 DEF P!LatePaint, P!Repaint, P!Storage, PlugInv
    <2> QED BY <2>1, <2>2, <2>3, PlugPass
  <1>3. CASE P!TabSwitch
    <2>1. /\ js' \in PlugJs /\ js.boot = "running"
          /\ UNCHANGED <<js.boot, js.timer, js.event, js.cache, js.target>>
      BY <1>3 DEF P!TabSwitch, PlugInv, PlugJs
    <2> QED BY <1>3, <2>1 DEF P!TabSwitch, PlugInv, P!Calm
  <1>4. CASE P!PinLoop
    <2>1. /\ dom' = P!plugPinTick(dom, set)
          /\ js' = [js EXCEPT !.timer = @ \/ (js.boot = "running" /\ P!Nodes(dom') # P!Nodes(dom))]
          /\ UNCHANGED <<set, world>>
      BY <1>4 DEF P!PinLoop, P!PaintAs
    <2>2. /\ dom' \in PlugDom /\ (dom.pinned => dom'.pinned)
          /\ UNCHANGED <<dom.cells, dom.look, dom.page, dom.icon, dom.carded>>
      BY <2>1 DEF PlugInv, PlugDom, P!plugPinTick
    <2>3. /\ js' \in PlugJs /\ (js.timer => js'.timer)
          /\ (js.boot = "off" /\ ~js.timer => ~js'.timer)
          /\ UNCHANGED <<js.boot, js.late, js.event, js.cache, js.target>>
      BY <2>1 DEF PlugInv, PlugJs
    <2>4. P!Calm' => P!Calm
      BY <2>1, <2>3 DEF PlugInv, PlugJs, P!Calm
    <2>5. PlugLooks(dom, set) => PlugLooks(dom, set)'
      BY <2>1, <2>2 DEF PlugLooks
    <2> QED BY <2>1, <2>2, <2>3, <2>4, <2>5 DEF PlugInv
  <1>5. CASE P!ProbeLoads
    <2>1. /\ dom' \in PlugDom
          /\ UNCHANGED <<dom.cells, dom.look, dom.page, dom.carded, dom.pinned>>
          /\ js.target => dom'.icon = "cropped"
      BY <1>5 DEF P!ProbeLoads, P!normalizeIcon, PlugInv, PlugDom
    <2>2. /\ js' \in PlugJs
          /\ UNCHANGED <<js.boot, js.timer, js.event, js.late, js.target>>
      BY <1>5 DEF P!ProbeLoads, PlugInv, PlugJs
    <2> QED BY <1>5, <2>1, <2>2 DEF P!ProbeLoads, PlugInv, P!Calm, PlugLooks
  <1>6. CASE P!ProbeFails
    <2>1. /\ js' \in PlugJs /\ js'.cache = "failed"
          /\ UNCHANGED <<js.boot, js.timer, js.event, js.late, js.target>>
      BY <1>6 DEF P!ProbeFails, PlugInv, PlugJs
    <2> QED BY <1>6, <2>1 DEF P!ProbeFails, PlugInv, P!Calm
  <1>7. CASE P!CheckStarts \/ P!CheckEnds
    <2>1. dom' \in PlugDom /\ dom'.page = dom.page
      BY <1>7, PlugRewrite DEF P!CheckStarts, P!CheckEnds, P!Cells, P!Unpainted
    <2>2. /\ js' \in PlugJs /\ js'.timer = (js.timer \/ js.boot = "running")
          /\ UNCHANGED <<js.boot, js.late, js.event>>
      BY <1>7 DEF P!CheckStarts, P!CheckEnds, P!Observed, PlugInv, PlugJs
    <2>3. set' = set /\ world' \in 0..MaxChanges
      BY <1>0, <1>7 DEF P!CheckStarts, P!CheckEnds, PlugInv
    <2> QED BY <2>1, <2>2, <2>3, PlugRewritten
  <1>8. CASE P!NativeRender
    <2> DEFINE d == P!Rewrite(P!Cells, Raw)
    <2>1. d \in PlugDom /\ d.page = dom.page
      BY PlugRewrite DEF P!Unpainted
    <2>2. dom' = [d EXCEPT !.icon = "native", !.look = Raw]
      BY <1>8 DEF P!NativeRender
    <2> HIDE DEF d
    <2>3. dom' \in PlugDom /\ dom'.page = dom.page
      BY <2>1, <2>2 DEF PlugDom
    <2>4. /\ js' \in PlugJs /\ js'.timer = (js.timer \/ js.boot = "running")
          /\ UNCHANGED <<js.boot, js.late, js.event>>
      BY <1>8 DEF P!NativeRender, P!Observed, PlugInv, PlugJs
    <2>5. set' = set /\ world' \in 0..MaxChanges
      BY <1>0, <1>8 DEF P!NativeRender
    <2> QED BY <2>3, <2>4, <2>5, PlugRewritten
  <1>9. CASE P!ChangeSetting
    <2>1. set' \in P!Settings
      <3>1. \/ set' = [set EXCEPT !.live = ~@] \/ set' = [set EXCEPT !.box = ~@]
            \/ set' = [set EXCEPT !.sections = ~@]
            \/ \E a \in Accents : set' = [set EXCEPT !.accent = a]
        BY <1>9 DEF P!ChangeSetting
      <3> QED BY <3>1 DEF PlugInv, P!Settings
    <2>2. /\ js' \in PlugJs /\ js'.event = (js.boot # "off")
          /\ UNCHANGED <<js.boot, js.late, js.timer>>
      BY <1>9 DEF P!ChangeSetting, PlugInv, PlugJs
    <2> QED BY <1>0, <1>9, <2>1, <2>2 DEF P!ChangeSetting, PlugInv, P!Calm
  <1>10. CASE UNCHANGED P!vars
    BY <1>10 DEF P!vars, PlugInv, P!Calm
  <1> QED BY <1>1, <1>2, <1>3, <1>4, <1>5, <1>6, <1>7, <1>8, <1>9, <1>10 DEF P!Next

LEMMA PlugSafe == PlugInv => P!TypeOK /\ P!LooksAsSet
  BY DEF PlugInv, PlugDom, PlugJs, PlugLooks, P!TypeOK, P!LooksAsSet

-----------------------------------------------------------------------------
(* The VMs page *)

VmsDom == [list : BOOLEAN, rows : SUBSET V!RowMarks, head : SUBSET V!HeadMarks, look : V!Looks,
           page : SUBSET V!PageMarks, carded : BOOLEAN, stats : {"absent", "native", "chips"}]

VmsJs == [dead : BOOLEAN, mo : BOOLEAN, moPending : BOOLEAN, poll : BOOLEAN, event : BOOLEAN]

\* What LooksAsSet asks of a calm page d, and ColumnsInStep.
VmsLooks(d, s) ==
    IF s.live
    THEN /\ d.rows = V!RowMarks
         /\ \/ ~s.adopt /\ s.own = "none"
            \/ d.look = V!effK(s) /\ ("box" \in d.page <=> V!effK(s) = "box")
         /\ d.page \ {"box"} = {"on"} \cup ({s.extra} \ {"none"})
         /\ d.carded <=> s.extra = "sections"
    ELSE d.rows = {} /\ d.look = "none" /\ d.page = {} /\ ~d.carded

VmsColumns(d) ==
    /\ "actions" \in d.head <=> "actions" \in d.rows
    /\ "ram hidden" \in d.head <=> "cells" \in d.rows

\* The columns of a page that was taken down are native.  Without an observer the page is
\* still polled, or dead.
VmsInv ==
    /\ set \in V!Settings /\ dom \in VmsDom /\ js \in VmsJs
    /\ world \in [changes : 0..MaxChanges, up : BOOLEAN]
    /\ ~dom.list => dom.rows = {}
    /\ js.mo => dom.list
    /\ js.mo \/ js.poll \/ js.dead
    /\ js.dead => dom.head = {} /\ dom.rows \cap {"cells", "actions"} = {}
    /\ (dom.list /\ ~js.moPending /\ ~js.poll) => VmsColumns(dom)
    /\ V!Calm => VmsLooks(dom, set)

\* apply brings any page in line with the settings.
LEMMA VmsApply ==
  ASSUME NEW d \in VmsDom, NEW s \in V!Settings, ~d.list => d.rows = {}
  PROVE  LET p == V!apply(d, s)
         IN  /\ p \in VmsDom /\ p.list = d.list /\ (~p.list => p.rows = {})
             /\ p.list => VmsLooks(p, s) /\ VmsColumns(p)
  <1>1. CASE ~s.live
    <2> DEFINE a == V!stripVmTheming(V!off(d))
               p == V!flattenTeardown(V!enhanceCellsTeardown(a))
    <2>1. /\ a \in VmsDom /\ a.list = d.list /\ a.rows = d.rows \ {"state"} /\ a.look = "none"
          /\ a.page = {}
      BY DEF VmsDom, V!stripVmTheming, V!off, V!PageMarks, V!Looks
    <2>2. V!apply(d, s) = p
      BY <1>1 DEF V!apply
    <2> HIDE DEF a
    <2>3. /\ p \in VmsDom /\ p.list = a.list /\ p.rows = {} /\ p.head = {} /\ p.page = {}
          /\ p.look = "none" /\ ~p.carded
      BY <2>1 DEF VmsDom, V!flattenTeardown, V!enhanceCellsTeardown, V!RowMarks, V!HeadMarks
    <2> HIDE DEF p
    <2> QED BY <1>1, <2>1, <2>2, <2>3 DEF VmsLooks, VmsColumns
  <1>2. CASE s.live
    <2> DEFINE r == IF d.list THEN V!enhanceRows(V!on(d)) ELSE V!on(d)
               e == V!enhanceCells(r)
               w == V!wrapVmStats(e)
               x == V!applyRainbowPalette(V!sections(w, s), s)
               p == V!logos(x, s)
    <2>1. V!apply(d, s) = p
      BY <1>2 DEF V!apply
    <2>2. /\ r \in VmsDom /\ r.list = d.list /\ "on" \in r.page
          /\ IF d.list THEN "state" \in r.rows ELSE r.rows = {}
      BY DEF VmsDom, V!enhanceRows, V!on, V!PageMarks, V!RowMarks
    <2> HIDE DEF r
    <2>3. /\ e \in VmsDom /\ e.list = d.list /\ "on" \in e.page
          /\ IF d.list THEN e.rows = V!RowMarks /\ e.head = V!HeadMarks ELSE e.rows = {}
      <3> DEFINE b == V!badgeCells(r)
      <3>1. /\ b \in VmsDom /\ b.list = d.list /\ b.page = r.page
            /\ b.rows = r.rows \cup {"cells"} /\ b.head = r.head \cup {"ram hidden"}
        BY <2>2 DEF VmsDom, V!badgeCells, V!RowMarks, V!HeadMarks
      <3>2. e = IF r.list THEN V!injectVmActionCell(b) ELSE r
        BY DEF V!enhanceCells
      <3> HIDE DEF b, e
      <3>3. CASE d.list
        <4>1. /\ e \in VmsDom /\ e.list = d.list /\ e.page = b.page
              /\ e.rows = b.rows \cup {"actions"} /\ e.head = b.head \cup {"actions"}
          BY <2>2, <3>1, <3>2, <3>3 DEF VmsDom, V!injectVmActionCell, V!RowMarks, V!HeadMarks
        <4>2. r.rows \subseteq V!RowMarks /\ r.head \subseteq V!HeadMarks
          BY <2>2 DEF VmsDom
        <4>3. e.rows = V!RowMarks
          BY <2>2, <3>1, <3>3, <4>1, <4>2 DEF V!RowMarks
        <4>4. e.head = V!HeadMarks
          BY <3>1, <4>1, <4>2 DEF V!HeadMarks
        <4> QED BY <2>2, <3>1, <3>3, <4>1, <4>3, <4>4
      <3> QED BY <2>2, <3>2, <3>3 DEF VmsDom
    <2> HIDE DEF e
    <2>4. /\ w \in VmsDom /\ w.list = d.list /\ "on" \in w.page
          /\ w.rows = e.rows /\ w.head = e.head
      BY <2>3 DEF VmsDom, V!wrapVmStats
    <2> HIDE DEF w
    <2>5. /\ x \in VmsDom /\ x.list = d.list
          /\ x.page \ {"box"} = {"on"} \cup ({s.extra} \ {"none"})
          /\ x.rows = e.rows /\ x.head = e.head /\ (x.carded <=> s.extra = "sections")
      <3> DEFINE c == V!Extra(w, s, "sections")
                 t == IF s.extra = "sections" THEN V!cardPanels(c) ELSE V!flattenTeardown(c)
      <3>1. /\ c \in VmsDom /\ c.list = w.list /\ c.rows = w.rows /\ c.head = w.head
            /\ c.page = (w.page \ {"sections"}) \cup ({s.extra} \cap {"sections"})
        BY <2>4 DEF VmsDom, V!Extra, V!Settings, V!PageMarks
      <3>2. x = V!Extra(t, s, "rainbow")
        BY DEF V!applyRainbowPalette, V!sections
      <3> HIDE DEF c, x
      <3>3. /\ t \in VmsDom /\ t.list = w.list /\ t.rows = w.rows /\ t.head = w.head
            /\ t.page = c.page /\ (t.carded <=> s.extra = "sections")
        BY <3>1 DEF VmsDom, V!cardPanels, V!flattenTeardown
      <3> HIDE DEF t
      <3>4. /\ x \in VmsDom /\ x.list = w.list /\ x.rows = w.rows /\ x.head = w.head
            /\ x.page = (c.page \ {"rainbow"}) \cup ({s.extra} \cap {"rainbow"})
            /\ x.carded = t.carded
        BY <3>2, <3>3 DEF VmsDom, V!Extra, V!Settings, V!PageMarks
      <3>5. w.page \subseteq {"on", "box", "sections", "rainbow"}
            /\ s.extra \in {"none", "sections", "rainbow"}
        BY <2>4 DEF VmsDom, V!PageMarks, V!Settings
      <3>6. x.page \ {"box"} = {"on"} \cup ({s.extra} \ {"none"})
        BY <2>4, <3>1, <3>4, <3>5
      <3> QED BY <2>4, <3>3, <3>4, <3>6
    <2> HIDE DEF x
    <2>6. /\ p \in VmsDom /\ p.list = d.list /\ p.page \ {"box"} = x.page \ {"box"}
          /\ p.rows = e.rows /\ p.head = e.head /\ p.carded = x.carded
          /\ \/ ~s.adopt /\ s.own = "none"
             \/ (p.list => p.look = V!effK(s)) /\ ("box" \in p.page <=> V!effK(s) = "box")
      BY <2>5 DEF VmsDom, V!logos, V!boxLogos, V!tintLogos, V!effK, V!Settings, V!PageMarks
    <2> HIDE DEF p
    <2>7. p.list => VmsLooks(p, s)
      BY <1>2, <2>3, <2>5, <2>6 DEF VmsLooks
    <2>8. p.list => VmsColumns(p)
      BY <2>3, <2>6 DEF VmsColumns, V!RowMarks, V!HeadMarks
    <2> QED BY <2>1, <2>3, <2>6, <2>7, <2>8
  <1> QED BY <1>1, <1>2 DEF V!Settings

LEMMA VmsInit == V!Init => VmsInv
  <1> SUFFICES ASSUME V!Init PROVE VmsInv
    OBVIOUS
  <1>1. /\ set \in V!Settings /\ dom = V!apply(V!Bare, set)
        /\ js = [dead |-> FALSE, mo |-> FALSE, moPending |-> FALSE, poll |-> TRUE, event |-> FALSE]
        /\ world = [changes |-> 0, up |-> TRUE]
    BY DEF V!Init
  <1>2. V!Bare \in VmsDom /\ ~V!Bare.list /\ V!Bare.rows = {}
    BY DEF V!Bare, VmsDom, V!Looks
  <1>3. dom \in VmsDom /\ ~dom.list /\ dom.rows = {}
    BY <1>1, <1>2, VmsApply
  <1>4. js \in VmsJs /\ 0 \in 0..MaxChanges
    BY <1>1, BoundsAssumption DEF VmsJs
  <1> QED BY <1>1, <1>3, <1>4 DEF VmsInv, V!Calm

\* A step that paints, of a page that is alive.
LEMMA VmsPaint ==
  ASSUME VmsInv, NEW j \in VmsJs, V!PaintAs(V!apply(dom, set), j), UNCHANGED <<set, world>>,
         ~j.dead, j.mo => dom.list, j.mo \/ j.poll
  PROVE  VmsInv'
  <1>1. dom' = V!apply(dom, set) /\ js' \in VmsJs /\ js'.dead = j.dead /\ js'.mo = j.mo
        /\ js'.poll = j.poll
    BY DEF V!PaintAs, VmsJs
  <1>2. /\ dom' \in VmsDom /\ dom'.list = dom.list /\ (~dom'.list => dom'.rows = {})
        /\ dom'.list => VmsLooks(dom', set) /\ VmsColumns(dom')
    BY <1>1, VmsApply DEF VmsInv
  <1> QED BY <1>1, <1>2 DEF VmsInv, V!Calm

LEMMA VmsStep == VmsInv /\ (V!Next \/ UNCHANGED V!vars) => VmsInv'
  <1> SUFFICES ASSUME VmsInv, V!Next \/ UNCHANGED V!vars PROVE VmsInv'
    OBVIOUS
  <1>1. CASE V!NativeRender
    <2> DEFINE d == [dom EXCEPT !.list = TRUE, !.rows = {}, !.look = "none"]
               j == [js EXCEPT !.moPending = @ \/ (js.mo /\ ~js.dead)]
    <2>1. d \in VmsDom /\ d.list /\ d.rows = {} /\ d.head = dom.head
      BY DEF VmsInv, VmsDom, V!Looks
    <2>2. /\ j \in VmsJs /\ j.mo = js.mo /\ j.dead = js.dead /\ j.poll = js.poll
          /\ j.moPending \/ j.dead \/ j.poll
      BY DEF VmsInv, VmsJs
    <2>3. V!PaintAs(d, j)
      BY <1>1 DEF V!NativeRender
    <2> HIDE DEF d, j
    <2>4. /\ dom' = d /\ js' \in VmsJs /\ js'.mo = js.mo /\ js'.dead = js.dead
          /\ js'.poll = js.poll /\ (js'.moPending \/ js'.dead \/ js'.poll)
      BY <2>2, <2>3 DEF V!PaintAs, VmsJs
    <2>5. world' \in [changes : 0..MaxChanges, up : BOOLEAN] /\ set' = set
      BY <1>1, BoundsAssumption DEF VmsInv, V!NativeRender, V!Change
    <2> QED BY <2>1, <2>4, <2>5 DEF VmsInv, VmsColumns, V!Calm
  <1>2. CASE V!OpenStats
    <2>1. /\ dom' \in VmsDom
          /\ dom' = [dom EXCEPT !.stats = dom'.stats]
      BY <1>2 DEF VmsInv, V!OpenStats, VmsDom
    <2>2. UNCHANGED <<dom.list, dom.rows, dom.head, dom.look, dom.page, dom.carded>>
      BY <2>1 DEF VmsInv, VmsDom
    <2> QED BY <1>2, <2>1, <2>2 DEF VmsInv, V!OpenStats, V!Calm, VmsLooks, VmsColumns
  <1>3. CASE V!SweepStats
    <2>1. /\ dom' \in VmsDom
          /\ UNCHANGED <<dom.list, dom.rows, dom.head, dom.look, dom.page, dom.carded>>
      BY <1>3 DEF VmsInv, V!SweepStats, V!wrapVmStats, VmsDom
    <2> QED BY <1>3, <2>1 DEF VmsInv, V!SweepStats, V!Calm, VmsLooks, VmsColumns
  <1>4. CASE V!ChangeSetting
    <2>1. set' \in V!Settings
      <3>1. PICK s \in V!Others : set' = s
        BY <1>4 DEF V!ChangeSetting
      <3>2. \/ s = [set EXCEPT !.live = ~@] \/ s = [set EXCEPT !.adopt = ~@]
            \/ \E l \in V!Looks : s = [set EXCEPT !.global = l] \/ s = [set EXCEPT !.own = l]
            \/ \E x \in {"none", "sections", "rainbow"} : s = [set EXCEPT !.extra = x]
        BY <3>1 DEF V!Others
      <3> QED BY <3>1, <3>2 DEF VmsInv, V!Settings
    <2>2. /\ js' \in VmsJs /\ ~V!Calm'
          /\ UNCHANGED <<js.dead, js.mo, js.moPending, js.poll>>
      BY <1>4 DEF VmsInv, V!ChangeSetting, VmsJs, V!Calm
    <2>3. world' \in [changes : 0..MaxChanges, up : BOOLEAN]
      BY <1>4, BoundsAssumption DEF VmsInv, V!ChangeSetting, V!Change
    <2> QED BY <1>4, <2>1, <2>2, <2>3 DEF VmsInv, V!ChangeSetting
  <1>5. CASE V!Uninstall \/ V!Install
    <2>1. world' \in [changes : 0..MaxChanges, up : BOOLEAN]
      <3>1. CASE V!Uninstall
        <4>1. world.changes + 1 \in 0..MaxChanges
          BY <3>1, BoundsAssumption DEF VmsInv, V!Uninstall
        <4> QED BY <3>1, <4>1 DEF V!Uninstall
      <3>2. CASE V!Install
        BY <3>2 DEF VmsInv, V!Install
      <3> QED BY <1>5, <3>1, <3>2
    <2> QED BY <1>5, <2>1 DEF VmsInv, V!Uninstall, V!Install, V!Calm
  <1>6. CASE V!Sweep
    <2> DEFINE j == [js EXCEPT !.moPending = FALSE]
    <2>1. j \in VmsJs /\ j.dead = js.dead /\ j.mo = js.mo /\ j.poll = js.poll
      BY DEF VmsInv, VmsJs
    <2>2. /\ IF js.dead THEN js' = j /\ UNCHANGED dom ELSE V!PaintAs(V!apply(dom, set), j)
          /\ UNCHANGED <<set, world>>
      BY <1>6 DEF V!Sweep
    <2> HIDE DEF j
    <2>3. CASE js.dead
      BY <2>1, <2>2, <2>3 DEF VmsInv, V!Calm, VmsColumns
    <2>4. CASE ~js.dead
      BY <2>1, <2>2, <2>4, VmsPaint DEF VmsInv
    <2> QED BY <2>3, <2>4
  <1>7. CASE V!Poll
    <2>1. CASE js.dead
      <3>1. js' \in VmsJs /\ js'.dead /\ js'.mo = js.mo
        BY <1>7, <2>1 DEF VmsInv, V!Poll, VmsJs
      <3> QED BY <1>7, <2>1, <3>1 DEF VmsInv, V!Poll, V!Calm, VmsColumns
    <2>2. CASE ~js.dead
      <3> DEFINE j == [V!connectObserver(js, dom) EXCEPT !.poll = ~dom.list]
      <3>1. /\ j \in VmsJs /\ j.dead = js.dead /\ j.mo = (js.mo \/ dom.list)
            /\ j.poll = ~dom.list
        BY DEF VmsInv, VmsJs, VmsDom, V!connectObserver
      <3>2. V!PaintAs(V!apply(dom, set), j) /\ UNCHANGED <<set, world>>
        BY <1>7, <2>2 DEF V!Poll
      <3> HIDE DEF j
      <3> QED BY <2>2, <3>1, <3>2, VmsPaint DEF VmsInv, VmsDom
    <2> QED BY <2>1, <2>2
  <1>8. CASE V!Storage
    <2> DEFINE j == [js EXCEPT !.event = FALSE]
    <2>1. j \in VmsJs /\ j.dead = js.dead /\ j.mo = js.mo /\ j.poll = js.poll
      BY DEF VmsInv, VmsJs
    <2>2. /\ IF js.dead THEN js' = j /\ UNCHANGED dom ELSE V!PaintAs(V!apply(dom, set), j)
          /\ UNCHANGED <<set, world>>
      BY <1>8 DEF V!Storage
    <2> HIDE DEF j
    <2>3. CASE js.dead
      BY <2>1, <2>2, <2>3 DEF VmsInv, V!Calm, VmsColumns
    <2>4. CASE ~js.dead
      BY <2>1, <2>2, <2>4, VmsPaint DEF VmsInv
    <2> QED BY <2>3, <2>4
  <1>9. CASE V!teardown
    <2> DEFINE p == V!flattenTeardown(V!enhanceCellsTeardown(dom))
    <2>1. /\ p \in VmsDom /\ p.list = dom.list /\ p.rows = dom.rows \ {"cells", "actions"}
          /\ p.head = {}
      BY DEF VmsInv, VmsDom, V!flattenTeardown, V!enhanceCellsTeardown, V!HeadMarks
    <2>2. dom' = [p EXCEPT !.look = "none", !.page = {}]
      BY <1>9 DEF V!teardown
    <2> HIDE DEF p
    <2>3. dom' \in VmsDom /\ dom'.list = p.list /\ dom'.rows = p.rows /\ dom'.head = p.head
      BY <2>1, <2>2 DEF VmsDom, V!Looks
    <2>4. js' \in VmsJs /\ js'.dead /\ ~js'.mo /\ js'.moPending = js.moPending /\ UNCHANGED <<set, world>>
      BY <1>9 DEF VmsInv, VmsJs, V!teardown
    <2> QED BY <2>1, <2>3, <2>4 DEF VmsInv, V!Calm, VmsColumns
  <1>10. CASE V!Rearm
    <2>1. dom' = V!apply(dom, set)
      BY <1>10 DEF V!Rearm, V!arm
    <2>2. dom' \in VmsDom /\ dom'.list = dom.list /\ (~dom'.list => dom'.rows = {})
      BY <2>1, VmsApply DEF VmsInv
    <2>3. js' = V!connectObserver([js EXCEPT !.dead = FALSE, !.poll = TRUE], dom')
      BY <1>10, <2>1 DEF V!Rearm, V!arm
    <2>4. js' \in VmsJs /\ ~js'.dead /\ js'.poll /\ js'.mo = (js.mo \/ dom'.list)
      BY <2>2, <2>3 DEF VmsInv, VmsJs, VmsDom, V!connectObserver
    <2> QED BY <1>10, <2>2, <2>4 DEF VmsInv, V!Rearm, V!Calm
  <1>11. CASE UNCHANGED V!vars
    BY <1>11 DEF VmsInv, V!vars, V!Calm
  <1> QED BY <1>1, <1>2, <1>3, <1>4, <1>5, <1>6, <1>7, <1>8, <1>9, <1>10, <1>11 DEF V!Next

LEMMA VmsSafe == VmsInv => V!TypeOK /\ V!LooksAsSet /\ V!ColumnsInStep
  BY DEF VmsInv, VmsDom, VmsJs, VmsLooks, VmsColumns, V!TypeOK, V!LooksAsSet, V!ColumnsInStep, V!Calm

-----------------------------------------------------------------------------
(* The Docker page *)

DockDom == [rows : SUBSET D!Marks, table : {D!Classes(s) : s \in D!Settings} \cup {None},
            hidden : BOOLEAN, grid : Colours \cup {None}, page : SUBSET D!PageMarks]

DockJs == [mode : {"list", "grid"}, dead : BOOLEAN, moPending : BOOLEAN, moTimer : BOOLEAN,
           centre : BOOLEAN, flip : BOOLEAN, config : BOOLEAN, state : BOOLEAN, adv : BOOLEAN,
           event : SUBSET D!Keys]

DockWorld == [changes : 0..MaxChanges, up : BOOLEAN, adopted : BOOLEAN, torn : BOOLEAN]

\* Rows that are not tagged carry no badge.
DockBare(d) == "tagged" \notin d.rows =>
                   d.rows \subseteq D!Cosmetic \cup D!Indelible \cup {"sized", "tinted"}

DockTinted(d, s) ==
    /\ "sized" \in d.rows <=> s.theming
    /\ "tinted" \in d.rows <=> s.theming /\ s.colour = "tint"

\* But for their tint, the rows carry what the settings say and no other badge.
DockSaid(s) == D!RowBadges(s) \cup D!RowLooks(s) \cup (IF s.theming THEN {"tips"} ELSE {})

DockFits(d, s) ==
    /\ DockSaid(s) \subseteq d.rows
    /\ d.rows \ {"sized", "tinted"}
           \subseteq DockSaid(s) \cup (IF s.theming THEN {"moved"}
                                        ELSE D!Cosmetic \cup D!Indelible)

DockTabled(d, s) == d.table = IF s.theming THEN D!Classes(s) ELSE None
DockFiltered(d, s) == "filter" \in d.page <=> (s.theming /\ s.colour = "tint")
DockPalette(d, s)  == "palette" \in d.page <=> (s.theming /\ s.colour = "rainbow")

\* The list is shown in list mode; what is tagged in card mode is tagged behind the cards.
DockCards(d, mode) ==
    /\ mode = "list" => ~d.hidden /\ d.grid = None
    /\ (mode = "grid" /\ "tagged" \in d.rows) => "behind" \in d.rows
    /\ d.hidden => d.grid # None

LEMMA DockTint ==
  ASSUME NEW d \in DockDom, NEW s \in D!Settings
  PROVE  LET e == D!applyIconTint(d, s)
         IN  /\ e \in DockDom /\ e.table = d.table /\ e.hidden = d.hidden /\ e.grid = d.grid
             /\ e.rows \ {"sized", "tinted"} = d.rows \ {"sized", "tinted"}
             /\ DockTinted(e, s) /\ DockFiltered(e, s)
             /\ e.page \ {"filter"} = d.page \ {"filter"}
  BY DEF DockDom, D!applyIconTint, D!themingOn, DockTinted, DockFiltered, D!Marks, D!Named, D!PageMarks

LEMMA DockEnhance ==
  ASSUME NEW d \in DockDom, NEW s \in D!Settings
  PROVE  LET e == D!applyEnhanceClasses(d, s)
         IN  /\ e \in DockDom /\ e.table = D!Classes(s) /\ e.hidden = d.hidden /\ e.grid = d.grid
             /\ e.rows \ {"sized", "tinted"} = d.rows \ {"sized", "tinted"}
             /\ DockTinted(e, s) /\ DockFiltered(e, s)
             /\ e.page \ {"filter"} = d.page \ {"filter"}
  <1> DEFINE c == [d EXCEPT !.table = D!Classes(s)]
  <1>1. /\ c \in DockDom /\ c.table = D!Classes(s) /\ c.hidden = d.hidden /\ c.grid = d.grid
        /\ c.rows = d.rows /\ c.page = d.page
    BY DEF DockDom
  <1>2. D!applyEnhanceClasses(d, s) = D!applyIconTint(c, s)
    BY DEF D!applyEnhanceClasses
  <1> HIDE DEF c
  <1> QED BY <1>1, <1>2, DockTint

LEMMA DockUnenhance ==
  ASSUME NEW d \in DockDom
  PROVE  LET e == D!removeEnhanceClasses(d)
         IN  /\ e \in DockDom /\ e.table = None /\ e.hidden = d.hidden /\ e.grid = d.grid
             /\ e.rows = d.rows \ {"tinted"} /\ e.page = d.page \ {"filter"}
  BY DEF DockDom, D!removeEnhanceClasses

LEMMA DockClear ==
  ASSUME NEW d \in DockDom
  PROVE  LET e == D!clearRowBadges(d)
         IN  /\ e \in DockDom /\ e.table = d.table /\ e.hidden = d.hidden /\ e.grid = d.grid
             /\ e.page = d.page /\ e.rows \subseteq d.rows /\ "tagged" \notin e.rows
             /\ e.rows \subseteq D!Cosmetic \cup D!Indelible \cup {"sized", "tinted"}
             /\ \A m \in D!Cosmetic \cup {"sized", "tinted"} : m \in d.rows => m \in e.rows
  BY ColumnsAssumption
  DEF DockDom, D!clearRowBadges, D!Marks, D!Named, D!Controls, D!Info, D!Cosmetic, D!Indelible

\* What injectAllRowBadges makes of rows that are tagged, and of rows that are not.
DockTips(s) == IF s.theming THEN {"tips"} ELSE {}
DockRows(d, s, mode) ==
    IF "tagged" \in d.rows THEN d.rows \cup DockTips(s)
    ELSE d.rows \cup DockTips(s) \cup D!RowBadges(s) \cup D!RowLooks(s) \cup D!Behind(mode)

LEMMA DockInject ==
  ASSUME NEW d \in DockDom, NEW s \in D!Settings, NEW mode \in {"list", "grid"}
  PROVE  LET e == D!injectAllRowBadges(d, s, mode)
         IN  /\ e \in DockDom /\ e.table = d.table /\ e.hidden = d.hidden /\ e.grid = d.grid
             /\ e.rows = DockRows(d, s, mode)
             /\ "filter" \in e.page <=> "filter" \in d.page
             /\ "palette" \in e.page <=> "palette" \in d.page
  <1> DEFINE r == D!relocateTopBar(d, mode)
             tips == IF s.theming THEN {"tips"} ELSE {}
             rows == IF "tagged" \in d.rows THEN d.rows \cup tips
                     ELSE d.rows \cup tips \cup D!RowBadges(s) \cup D!RowLooks(s)
                                 \cup D!Behind(mode)
             e == D!injectAllRowBadges(d, s, mode)
  <1>1. /\ r \in DockDom /\ r.table = d.table /\ r.hidden = d.hidden /\ r.grid = d.grid
        /\ r.rows = d.rows
        /\ "filter" \in r.page <=> "filter" \in d.page
        /\ "palette" \in r.page <=> "palette" \in d.page
    BY DEF DockDom, D!relocateTopBar, D!PageMarks
  <1>2. rows \subseteq D!Marks
    <2>1. D!colOn(s) \subseteq Columns
      BY ColumnsAssumption DEF D!colOn, D!Settings
    <2>2. D!RowBadges(s) \subseteq D!Marks
      BY <2>1 DEF D!RowBadges, D!Marks, D!Named, D!Controls
    <2>3. D!RowLooks(s) \cup tips \cup D!Behind(mode) \subseteq D!Marks
      BY DEF D!RowLooks, D!themingOn, D!Behind, D!Marks, D!Named, D!Info, D!Cosmetic, D!Indelible
    <2> QED BY <2>2, <2>3 DEF DockDom
  <1>3. rows = r.rows \cup tips \cup (IF "tagged" \in r.rows THEN {}
                         ELSE D!RowBadges(s) \cup D!RowLooks(s) \cup D!Behind(mode))
    BY <1>1
  <1>4. e = [r EXCEPT !.rows = rows, !.page = @ \cup {"actions header"}]
    BY <1>3 DEF D!injectAllRowBadges, D!themingOn, D!relocateTopBar
  <1> HIDE DEF r, rows, e
  <1>5. /\ e \in DockDom /\ e.table = d.table /\ e.hidden = d.hidden /\ e.grid = d.grid
        /\ e.rows = rows
        /\ "filter" \in e.page <=> "filter" \in d.page
        /\ "palette" \in e.page <=> "palette" \in d.page
    BY <1>1, <1>2, <1>4 DEF DockDom, D!PageMarks
  <1>6. rows = DockRows(d, s, mode)
    BY DEF rows, DockRows, DockTips
  <1> QED BY <1>5, <1>6 DEF e

\* Rows whose tint is right come out of an injection as the settings say, unless they were
\* tagged before and did not.
LEMMA DockMark ==
  ASSUME NEW d \in DockDom, NEW s \in D!Settings, NEW mode \in {"list", "grid"}, DockBare(d)
  PROVE  LET e == D!injectAllRowBadges(d, s, mode)
         IN  /\ "tagged" \in e.rows /\ (DockCards(d, mode) => DockCards(e, mode))
             /\ DockTinted(d, s) => DockTinted(e, s)
             /\ (/\ "behind" \notin e.rows
                 /\ "tagged" \in d.rows /\ "behind" \notin d.rows => DockFits(d, s))
                    => DockFits(e, s)
             /\ (~s.theming /\ "centred" \in e.rows) => "centred" \in d.rows
             /\ ("tagged" \notin d.rows /\ mode = "list") => "behind" \notin e.rows
  <1> DEFINE e == D!injectAllRowBadges(d, s, mode)
             tips == IF s.theming THEN {"tips"} ELSE {}
  <1>1. /\ e \in DockDom /\ e.hidden = d.hidden /\ e.grid = d.grid
        /\ e.rows = IF "tagged" \in d.rows THEN d.rows \cup tips
                    ELSE d.rows \cup tips \cup D!RowBadges(s) \cup D!RowLooks(s)
                                \cup D!Behind(mode)
    <2>1. /\ e \in DockDom /\ e.hidden = d.hidden /\ e.grid = d.grid
          /\ e.rows = DockRows(d, s, mode)
      BY DockInject
    <2> HIDE DEF e
    <2> QED BY <2>1 DEF DockRows, DockTips
  <1> HIDE DEF e
  <1>2. /\ D!colOn(s) \subseteq Columns
        /\ Columns \cap {"tagged", "behind", "sized", "tinted", "centred", "moved", "tips"} = {}
    BY ColumnsAssumption DEF D!colOn, D!Settings, D!Named, D!Cosmetic, D!Indelible
  <1>3. "tagged" \in e.rows
    BY <1>1 DEF D!RowBadges
  <1>4. CASE "tagged" \in d.rows
    <2>1. e.rows = d.rows \cup tips
      BY <1>1, <1>4
    <2>2. \A m : m # "tips" => (m \in e.rows <=> m \in d.rows)
      BY <2>1
    <2>3. DockTinted(d, s) => DockTinted(e, s)
      BY <2>2 DEF DockTinted
    <2>4. DockCards(d, mode) => DockCards(e, mode)
      BY <1>1, <2>2 DEF DockCards
    <2>5. DockFits(d, s) => DockFits(e, s)
      BY <2>1 DEF DockFits, DockSaid
    <2> QED BY <1>3, <1>4, <2>2, <2>3, <2>4, <2>5 DEF e
  <1>5. CASE "tagged" \notin d.rows
    <2>1. d.rows \subseteq D!Cosmetic \cup D!Indelible \cup {"sized", "tinted"}
      BY <1>5 DEF DockBare
    <2>2. e.rows = d.rows \cup tips \cup D!RowBadges(s) \cup D!RowLooks(s) \cup D!Behind(mode)
      BY <1>1, <1>5
    <2>3. DockTinted(d, s) => DockTinted(e, s)
      BY <1>2, <2>2 DEF DockTinted, D!RowBadges, D!Controls, D!RowLooks, D!Info, D!Behind
    <2>4. DockCards(d, mode) => DockCards(e, mode)
      BY <1>1, <2>2 DEF DockCards, D!Behind
    <2>5. mode = "list" => "behind" \notin e.rows
      BY <1>2, <2>1, <2>2
      DEF D!Cosmetic, D!Indelible, D!RowBadges, D!Controls, D!RowLooks, D!Info, D!Behind
    <2>6. (~s.theming /\ "centred" \in e.rows) => "centred" \in d.rows
      BY <1>2, <2>2 DEF D!RowBadges, D!Controls, D!RowLooks, D!themingOn, D!Behind
    <2>7. ASSUME "behind" \notin e.rows PROVE DockFits(e, s)
      <3>1. D!Behind(mode) = {}
        BY <2>2, <2>7 DEF D!Behind
      <3>2. e.rows = d.rows \cup DockSaid(s)
        BY <2>2, <3>1 DEF DockSaid
      <3> QED BY <2>1, <3>2
        DEF DockFits, DockSaid, D!RowLooks, D!themingOn, D!Cosmetic, D!Indelible
    <2> QED BY <1>3, <1>5, <2>3, <2>4, <2>5, <2>6, <2>7 DEF e
  <1> QED BY <1>4, <1>5

\* reinjectRowBadges starts from rows without a badge, whatever their tint.
LEMMA DockReinject ==
  ASSUME NEW d \in DockDom, NEW s \in D!Settings, NEW mode \in {"list", "grid"}
  PROVE  LET e == D!reinjectRowBadges(d, s, mode)
         IN  /\ e \in DockDom /\ e.table = d.table /\ e.hidden = d.hidden /\ e.grid = d.grid
             /\ DockTinted(e, s) /\ DockFiltered(e, s) /\ "tagged" \in e.rows
             /\ "palette" \in e.page <=> "palette" \in d.page
             /\ IF mode = "list" THEN DockFits(e, s) ELSE "behind" \in e.rows
             /\ (~s.theming /\ "centred" \in e.rows) => "centred" \in d.rows
  <1> DEFINE c == D!clearRowBadges(d)
             i == D!injectAllRowBadges(c, s, mode)
             e == D!applyIconTint(i, s)
             tips == IF s.theming THEN {"tips"} ELSE {}
  <1>0. e = D!reinjectRowBadges(d, s, mode)
    BY DEF D!reinjectRowBadges
  <1>1. /\ c \in DockDom /\ c.table = d.table /\ c.hidden = d.hidden /\ c.grid = d.grid
        /\ c.page = d.page /\ c.rows \subseteq d.rows /\ "tagged" \notin c.rows
        /\ c.rows \subseteq D!Cosmetic \cup D!Indelible \cup {"sized", "tinted"}
    BY DockClear
  <1> HIDE DEF c
  <1>2. /\ i \in DockDom /\ i.table = c.table /\ i.hidden = c.hidden /\ i.grid = c.grid
        /\ i.rows = IF "tagged" \in c.rows THEN c.rows \cup tips
                    ELSE c.rows \cup tips \cup D!RowBadges(s) \cup D!RowLooks(s)
                                \cup D!Behind(mode)
        /\ "palette" \in i.page <=> "palette" \in c.page
    <2>1. c \in DockDom
      BY <1>1
    <2>2. /\ i \in DockDom /\ i.table = c.table /\ i.hidden = c.hidden /\ i.grid = c.grid
          /\ i.rows = DockRows(c, s, mode)
          /\ "palette" \in i.page <=> "palette" \in c.page
      BY <2>1, DockInject
    <2> HIDE DEF i
    <2> QED BY <2>2 DEF DockRows, DockTips
  <1> HIDE DEF i
  <1>3. /\ i \in DockDom /\ i.table = c.table /\ i.hidden = c.hidden /\ i.grid = c.grid
        /\ i.rows = c.rows \cup tips \cup D!RowBadges(s) \cup D!RowLooks(s) \cup D!Behind(mode)
        /\ "palette" \in i.page <=> "palette" \in c.page
    BY <1>1, <1>2
  <1>4. /\ e \in DockDom /\ e.table = i.table /\ e.hidden = i.hidden /\ e.grid = i.grid
        /\ e.rows \ {"sized", "tinted"} = i.rows \ {"sized", "tinted"}
        /\ DockTinted(e, s) /\ DockFiltered(e, s)
        /\ e.page \ {"filter"} = i.page \ {"filter"}
    BY <1>3, DockTint
  <1> HIDE DEF e
  <1>5. /\ D!colOn(s) \subseteq Columns
        /\ Columns \cap {"tagged", "behind", "sized", "tinted", "centred", "moved", "tips"} = {}
    BY ColumnsAssumption DEF D!colOn, D!Settings, D!Named, D!Cosmetic, D!Indelible
  <1>6. \A m : m \notin {"sized", "tinted"} => (m \in e.rows <=> m \in i.rows)
    BY <1>4
  <1>7. "tagged" \in e.rows
    BY <1>3, <1>6 DEF D!RowBadges
  <1>8. "palette" \in e.page <=> "palette" \in d.page
    BY <1>1, <1>3, <1>4
  <1>9. ~s.theming /\ "centred" \in e.rows => "centred" \in d.rows
    BY <1>1, <1>3, <1>5, <1>6 DEF D!RowBadges, D!Controls, D!RowLooks, D!themingOn, D!Behind
  <1>10. mode = "grid" => "behind" \in e.rows
    BY <1>3, <1>6 DEF D!Behind
  <1>11. ASSUME mode = "list" PROVE DockFits(e, s)
    <2>1. i.rows = c.rows \cup DockSaid(s)
      BY <1>3, <1>11 DEF D!Behind, DockSaid
    <2>2. DockSaid(s) \cap {"sized", "tinted"} = {}
      BY <1>5 DEF DockSaid, D!RowBadges, D!Controls, D!RowLooks, D!Info
    <2>3. DockSaid(s) \subseteq e.rows
      BY <1>6, <2>1, <2>2
    <2>4. e.rows \ {"sized", "tinted"}
              \subseteq DockSaid(s) \cup (D!Cosmetic \cup D!Indelible)
      BY <1>1, <1>6, <2>1
    <2> QED BY <2>3, <2>4 DEF DockFits, DockSaid, D!RowLooks, D!themingOn, D!Cosmetic, D!Indelible
  <1> QED BY <1>0, <1>1, <1>3, <1>4, <1>7, <1>8, <1>9, <1>10, <1>11

LEMMA DockRepaint ==
  ASSUME NEW d \in DockDom, NEW s \in D!Settings, NEW mode \in {"list", "grid"}
  PROVE  LET e == D!Repaint(d, s, mode)
         IN  /\ e \in DockDom /\ DockTabled(e, s) /\ e.hidden = d.hidden /\ e.grid = d.grid
             /\ DockTinted(e, s) /\ DockFiltered(e, s) /\ "tagged" \in e.rows
             /\ "palette" \in e.page <=> "palette" \in d.page
             /\ IF mode = "list" THEN DockFits(e, s) ELSE "behind" \in e.rows
             /\ (~s.theming /\ "centred" \in e.rows) => "centred" \in d.rows
  <1> DEFINE c == IF s.theming THEN D!applyEnhanceClasses(d, s) ELSE D!removeEnhanceClasses(d)
             e == D!reinjectRowBadges(c, s, mode)
  <1>0. e = D!Repaint(d, s, mode)
    BY DEF D!Repaint, D!themingOn
  <1>1. /\ c \in DockDom /\ DockTabled(c, s) /\ c.hidden = d.hidden /\ c.grid = d.grid
        /\ "palette" \in c.page <=> "palette" \in d.page
        /\ "centred" \in c.rows <=> "centred" \in d.rows
    <2>1. CASE s.theming
      <3> DEFINE x == D!applyEnhanceClasses(d, s)
      <3>1. /\ x \in DockDom /\ x.table = D!Classes(s) /\ x.hidden = d.hidden /\ x.grid = d.grid
            /\ x.rows \ {"sized", "tinted"} = d.rows \ {"sized", "tinted"}
            /\ x.page \ {"filter"} = d.page \ {"filter"}
        BY DockEnhance
      <3> HIDE DEF x
      <3>2. /\ "palette" \in x.page <=> "palette" \in d.page
            /\ "centred" \in x.rows <=> "centred" \in d.rows
        BY <3>1
      <3> QED BY <2>1, <3>1, <3>2 DEF DockTabled, x
    <2>2. CASE ~s.theming
      BY <2>2, DockUnenhance DEF DockTabled
    <2> QED BY <2>1, <2>2
  <1> HIDE DEF c
  <1>2. /\ e \in DockDom /\ e.table = c.table /\ e.hidden = c.hidden /\ e.grid = c.grid
        /\ DockTinted(e, s) /\ DockFiltered(e, s) /\ "tagged" \in e.rows
        /\ "palette" \in e.page <=> "palette" \in c.page
        /\ IF mode = "list" THEN DockFits(e, s) ELSE "behind" \in e.rows
        /\ (~s.theming /\ "centred" \in e.rows) => "centred" \in c.rows
    BY <1>1, DockReinject
  <1> HIDE DEF e
  <1> QED BY <1>0, <1>1, <1>2 DEF DockTabled

\* What a tint alone does to the rows.
LEMMA DockSame ==
  ASSUME NEW d \in DockDom, NEW e \in DockDom, NEW s \in D!Settings, DockBare(d),
         e.rows \ {"sized", "tinted"} = d.rows \ {"sized", "tinted"}
  PROVE  /\ DockBare(e)
         /\ \A m \in {"tagged", "behind", "centred"} : m \in e.rows <=> m \in d.rows
         /\ DockFits(d, s) => DockFits(e, s)
  <1>1. \A m : m \notin {"sized", "tinted"} => (m \in e.rows <=> m \in d.rows)
    OBVIOUS
  <1>2. DockBare(e)
    BY <1>1 DEF DockBare
  <1>3. ASSUME DockFits(d, s) PROVE DockFits(e, s)
    <2>1. DockSaid(s) \cap {"sized", "tinted"} = {}
      BY ColumnsAssumption
      DEF DockSaid, D!RowBadges, D!Controls, D!colOn, D!Settings, D!Named, D!RowLooks, D!Info
    <2> QED BY <1>1, <1>3, <2>1 DEF DockFits
  <1> QED BY <1>1, <1>2, <1>3

LEMMA DockMode ==
  ASSUME NEW d \in DockDom, NEW s \in D!Settings, NEW mode \in {"list", "grid"}, DockBare(d),
         (~s.theming /\ mode = "grid" /\ "tagged" \in d.rows) => "behind" \in d.rows
  PROVE  LET e == D!applyMode(d, s, mode)
         IN  /\ e \in DockDom /\ DockBare(e) /\ DockCards(e, mode) /\ DockFiltered(e, s)
             /\ "palette" \in e.page <=> "palette" \in d.page
             /\ mode = "list" => DockTabled(e, s)
             /\ (s.theming \/ "sized" \notin d.rows) => DockTinted(e, s)
             /\ (/\ mode = "list" /\ "behind" \notin e.rows
                 /\ "tagged" \in d.rows /\ "behind" \notin d.rows => DockFits(d, s)) => DockFits(e, s)
             /\ (~s.theming /\ "centred" \in e.rows) => "centred" \in d.rows
             /\ ("tagged" \notin d.rows /\ mode = "list") => "behind" \notin e.rows
  <1> DEFINE shown == D!removeGridHolder(D!hideNative(d, FALSE))
             e == D!applyMode(d, s, mode)
  <1>1. /\ shown \in DockDom /\ ~shown.hidden /\ shown.grid = None
        /\ shown.rows = d.rows /\ shown.page = d.page
    BY DEF DockDom, D!removeGridHolder, D!hideNative
  <1>2. /\ ~s.theming => e = D!injectAllRowBadges(D!removeEnhanceClasses(shown), s, mode)
        /\ s.theming /\ mode = "list"
              => e = D!injectAllRowBadges(D!applyEnhanceClasses(shown, s), s, mode)
    BY DEF D!applyMode, D!themingOn
  <1>3. CASE s.theming /\ mode = "grid"
    <2> DEFINE u == D!removeEnhanceClasses(d)
               c == D!clearRowBadges(u)
               r == [[c EXCEPT !.hidden = TRUE] EXCEPT !.grid = s.colour]
               b == D!relocateTopBar(r, "grid")
    <2>0. e = D!applyIconTint(b, s)
      BY <1>3 DEF D!applyMode, D!themingOn, D!renderGrid, D!hideNative
    <2>1. /\ u \in DockDom /\ u.table = None /\ u.page = d.page \ {"filter"}
      BY DockUnenhance
    <2> HIDE DEF u
    <2>2. /\ c \in DockDom /\ "tagged" \notin c.rows /\ c.page = u.page
          /\ c.rows \subseteq D!Cosmetic \cup D!Indelible \cup {"sized", "tinted"}
      BY <2>1, DockClear
    <2> HIDE DEF c, e
    <2>4. /\ b \in DockDom /\ b.hidden /\ b.grid = s.colour /\ b.rows = c.rows
          /\ "palette" \in b.page <=> "palette" \in c.page
      BY <2>2 DEF DockDom, D!relocateTopBar, D!Settings, D!PageMarks
    <2> HIDE DEF b
    <2>5. /\ e \in DockDom /\ e.hidden = b.hidden /\ e.grid = b.grid
          /\ e.rows \ {"sized", "tinted"} = b.rows \ {"sized", "tinted"}
          /\ DockTinted(e, s) /\ DockFiltered(e, s) /\ e.page \ {"filter"} = b.page \ {"filter"}
      BY <2>0, <2>4, DockTint
    <2>6. "tagged" \notin e.rows /\ DockBare(e)
      BY <2>2, <2>4, <2>5 DEF DockBare
    <2>7. e.grid # None
      BY <2>4, <2>5, SentinelsAssumption DEF D!Settings
    <2>8. DockCards(e, mode)
      BY <1>3, <2>6, <2>7 DEF DockCards
    <2>9. "palette" \in e.page <=> "palette" \in d.page
      BY <2>1, <2>2, <2>4, <2>5
    <2> QED BY <1>3, <2>5, <2>6, <2>8, <2>9 DEF e
  <1>4. CASE ~s.theming \/ mode = "list"
    <2> DEFINE x == IF s.theming THEN D!applyEnhanceClasses(shown, s)
                    ELSE D!removeEnhanceClasses(shown)
    <2>0. e = D!injectAllRowBadges(x, s, mode)
      BY <1>2, <1>4
    <2> HIDE DEF shown, e
    <2>1. /\ x \in DockDom /\ ~x.hidden /\ x.grid = None /\ DockTabled(x, s) /\ DockFiltered(x, s)
          /\ x.rows \ {"sized", "tinted"} = d.rows \ {"sized", "tinted"}
          /\ "palette" \in x.page <=> "palette" \in d.page
          /\ (s.theming \/ "sized" \notin d.rows) => DockTinted(x, s)
      <3>1. CASE s.theming
        <4> DEFINE y == D!applyEnhanceClasses(shown, s)
        <4>1. /\ y \in DockDom /\ y.table = D!Classes(s) /\ y.hidden = shown.hidden
              /\ y.grid = shown.grid
              /\ y.rows \ {"sized", "tinted"} = shown.rows \ {"sized", "tinted"}
              /\ DockTinted(y, s) /\ DockFiltered(y, s)
              /\ y.page \ {"filter"} = shown.page \ {"filter"}
          BY <1>1, DockEnhance
        <4> HIDE DEF y
        <4>2. "palette" \in y.page <=> "palette" \in d.page
          BY <1>1, <4>1
        <4>3. x = y
          BY <3>1 DEF y
        <4> HIDE DEF x
        <4> QED BY <1>1, <3>1, <4>1, <4>2, <4>3 DEF DockTabled
      <3>2. CASE ~s.theming
        <4> DEFINE y == D!removeEnhanceClasses(shown)
        <4>1. /\ y \in DockDom /\ y.table = None /\ y.hidden = shown.hidden
              /\ y.grid = shown.grid /\ y.rows = shown.rows \ {"tinted"}
              /\ y.page = shown.page \ {"filter"}
          BY <1>1, DockUnenhance
        <4>2. x = y
          BY <3>2
        <4> HIDE DEF x, y
        <4> QED BY <1>1, <3>2, <4>1, <4>2 DEF DockTabled, DockFiltered, DockTinted
      <3> QED BY <3>1, <3>2
    <2> HIDE DEF x
    <2>2. /\ DockBare(x)
          /\ \A m \in {"tagged", "behind", "centred"} : m \in x.rows <=> m \in d.rows
          /\ DockFits(d, s) => DockFits(x, s)
      BY <2>1, DockSame
    <2>3. DockCards(x, mode)
      BY <1>4, <2>1, <2>2 DEF DockCards
    <2>4. /\ e \in DockDom /\ e.table = x.table
          /\ "filter" \in e.page <=> "filter" \in x.page
          /\ "palette" \in e.page <=> "palette" \in x.page
      <3>1. x \in DockDom
        BY <2>1
      <3> DEFINE f == D!injectAllRowBadges(x, s, mode)
      <3>2. /\ f \in DockDom /\ f.table = x.table
            /\ "filter" \in f.page <=> "filter" \in x.page
            /\ "palette" \in f.page <=> "palette" \in x.page
        BY <3>1, DockInject
      <3> QED BY <2>0, <3>2
    <2>5. /\ "tagged" \in e.rows /\ DockCards(e, mode)
          /\ DockTinted(x, s) => DockTinted(e, s)
          /\ (/\ "behind" \notin e.rows
              /\ "tagged" \in x.rows /\ "behind" \notin x.rows => DockFits(x, s))
                 => DockFits(e, s)
          /\ (~s.theming /\ "centred" \in e.rows) => "centred" \in x.rows
          /\ ("tagged" \notin x.rows /\ mode = "list") => "behind" \notin e.rows
      BY <2>0, <2>1, <2>2, <2>3, DockMark
    <2>6. DockBare(e) /\ DockTabled(e, s) /\ DockFiltered(e, s)
      BY <2>1, <2>4, <2>5 DEF DockBare, DockTabled, DockFiltered
    <2> QED BY <2>1, <2>2, <2>4, <2>5, <2>6 DEF e
  <1> QED BY <1>3, <1>4
LEMMA DockSettings ==
  ASSUME NEW d \in DockDom, NEW s \in D!Settings
  PROVE  LET e == D!applySettings(d, s)
         IN  /\ e \in DockDom /\ e.table = d.table /\ e.hidden = d.hidden /\ e.grid = d.grid
             /\ e.rows = d.rows /\ DockPalette(e, s)
  BY DEF DockDom, D!applySettings, D!themingOn, D!PageMarks, DockPalette

\* A change of a setting.
LEMMA DockRestyle ==
  ASSUME NEW d \in DockDom, NEW s \in D!Settings, NEW mode \in {"list", "grid"}, DockBare(d),
         DockCards(d, mode)
  PROVE  LET e == D!Restyle(d, s, mode)
         IN  /\ e \in DockDom /\ DockBare(e) /\ DockCards(e, mode)
             /\ DockPalette(e, s) /\ DockFiltered(e, s) /\ DockTinted(e, s)
             /\ mode = "list" => DockTabled(e, s) /\ DockFits(e, s)
             /\ (~s.theming /\ "centred" \in e.rows) => "centred" \in d.rows
  <1> DEFINE a == D!applySettings(d, s)
             e == D!Restyle(d, s, mode)
  <1>1. /\ a \in DockDom /\ a.hidden = d.hidden /\ a.grid = d.grid
        /\ a.rows = d.rows /\ DockPalette(a, s)
    BY DockSettings
  <1>2. CASE mode = "list"
    <2> DEFINE f == D!Repaint(a, s, mode)
    <2>1. e = f
      BY <1>2 DEF D!Restyle
    <2> HIDE DEF a, e
    <2>2. /\ f \in DockDom /\ DockTabled(f, s) /\ f.hidden = a.hidden /\ f.grid = a.grid
          /\ DockTinted(f, s) /\ DockFiltered(f, s) /\ "tagged" \in f.rows
          /\ "palette" \in f.page <=> "palette" \in a.page
          /\ IF mode = "list" THEN DockFits(f, s) ELSE "behind" \in f.rows
          /\ (~s.theming /\ "centred" \in f.rows) => "centred" \in a.rows
      BY <1>1, DockRepaint
    <2> HIDE DEF f
    <2>3. DockBare(f) /\ DockPalette(f, s) /\ DockCards(f, mode)
      BY <1>1, <1>2, <2>2 DEF DockBare, DockPalette, DockCards
    <2> QED BY <1>1, <1>2, <2>1, <2>2, <2>3 DEF e
  <1>3. CASE mode = "grid"
    <2> DEFINE b == D!relocateTopBar([a EXCEPT !.grid = s.colour], "grid")
               f == D!applyIconTint(b, s)
    <2>1. e = f
      BY <1>3 DEF D!Restyle, D!renderGrid
    <2> HIDE DEF a, e
    <2>2. /\ b \in DockDom /\ b.hidden = a.hidden /\ b.grid = s.colour
          /\ b.rows = a.rows /\ DockPalette(b, s)
      BY <1>1 DEF DockDom, D!relocateTopBar, D!Settings, D!PageMarks, DockPalette
    <2> HIDE DEF b
    <2>3. /\ f \in DockDom /\ f.hidden = b.hidden /\ f.grid = b.grid
          /\ f.rows \ {"sized", "tinted"} = b.rows \ {"sized", "tinted"}
          /\ DockTinted(f, s) /\ DockFiltered(f, s)
          /\ f.page \ {"filter"} = b.page \ {"filter"}
      BY <2>2, DockTint
    <2> HIDE DEF f
    <2>4. DockBare(b)
      BY <1>1, <2>2 DEF DockBare
    <2>5. /\ DockBare(f)
          /\ \A m \in {"tagged", "behind", "centred"} : m \in f.rows <=> m \in b.rows
      BY <2>2, <2>3, <2>4, DockSame
    <2>6. DockPalette(f, s)
      BY <2>2, <2>3 DEF DockPalette
    <2>7. f.grid # None
      BY <2>2, <2>3, SentinelsAssumption DEF D!Settings
    <2>8. DockCards(f, mode)
      BY <1>1, <1>3, <2>2, <2>5, <2>7 DEF DockCards
    <2> QED BY <1>1, <1>3, <2>1, <2>2, <2>3, <2>5, <2>6, <2>8 DEF e
  <1> QED BY <1>2, <1>3

\* Theming is flipped, and the card mode was left if it is off now.
LEMMA DockRetheme ==
  ASSUME NEW d \in DockDom, NEW s \in D!Settings, NEW mode \in {"list", "grid"},
         ~s.theming => mode = "list"
  PROVE  LET e == D!Retheme(d, s, mode)
         IN  /\ e \in DockDom /\ DockBare(e) /\ DockCards(e, mode)
             /\ DockPalette(e, s) /\ DockFiltered(e, s) /\ DockTinted(e, s)
             /\ mode = "list" => DockTabled(e, s) /\ DockFits(e, s)
             /\ ~s.theming => "centred" \notin e.rows
  <1> DEFINE a == D!applySettings(d, s)
             c == D!clearRowBadges(a)
             u == D!removeEnhanceClasses(c)
             p == D!applyMode(u, s, mode)
             t == D!applyIconTint(p, s)
             x == D!stripRowCosmetic(t)
             e == D!Retheme(d, s, mode)
  <1>0. e = IF s.theming THEN p ELSE x
    BY DEF D!Retheme, D!themingOn
  <1> HIDE DEF e
  <1>1. a \in DockDom /\ DockPalette(a, s)
    BY DockSettings
  <1> HIDE DEF a
  <1>2. /\ c \in DockDom /\ c.page = a.page /\ "tagged" \notin c.rows
        /\ c.rows \subseteq D!Cosmetic \cup D!Indelible \cup {"sized", "tinted"}
    BY <1>1, DockClear
  <1> HIDE DEF c
  <1>3. u \in DockDom /\ u.rows = c.rows \ {"tinted"} /\ u.page = c.page \ {"filter"}
    BY <1>2, DockUnenhance
  <1> HIDE DEF u
  <1>4. DockBare(u) /\ "tagged" \notin u.rows /\ DockPalette(u, s)
    BY <1>1, <1>2, <1>3 DEF DockBare, DockPalette
  <1>5. /\ p \in DockDom /\ DockBare(p) /\ DockCards(p, mode) /\ DockFiltered(p, s)
        /\ "palette" \in p.page <=> "palette" \in u.page
        /\ mode = "list" => DockTabled(p, s)
        /\ (s.theming \/ "sized" \notin u.rows) => DockTinted(p, s)
        /\ (/\ mode = "list" /\ "behind" \notin p.rows
            /\ "tagged" \in u.rows /\ "behind" \notin u.rows => DockFits(u, s)) => DockFits(p, s)
        /\ (~s.theming /\ "centred" \in p.rows) => "centred" \in u.rows
        /\ ("tagged" \notin u.rows /\ mode = "list") => "behind" \notin p.rows
    BY <1>3, <1>4, DockMode
  <1> HIDE DEF p
  <1>6. DockPalette(p, s) /\ (mode = "list" => DockFits(p, s))
    BY <1>4, <1>5 DEF DockPalette
  <1>7. CASE s.theming
    BY <1>0, <1>5, <1>6, <1>7 DEF e
  <1>8. CASE ~s.theming
    <2>1. /\ t \in DockDom /\ t.table = p.table /\ t.hidden = p.hidden /\ t.grid = p.grid
          /\ t.rows \ {"sized", "tinted"} = p.rows \ {"sized", "tinted"}
          /\ DockTinted(t, s) /\ DockFiltered(t, s)
          /\ t.page \ {"filter"} = p.page \ {"filter"}
      BY <1>5, DockTint
    <2> HIDE DEF t
    <2>2. /\ DockBare(t) /\ DockFits(t, s)
      BY <1>5, <1>6, <1>8, <2>1, DockSame
    <2>3. /\ x \in DockDom /\ x.table = t.table /\ x.hidden = t.hidden /\ x.grid = t.grid
          /\ x.page = t.page /\ x.rows = t.rows \ D!Cosmetic
      BY <2>1 DEF DockDom, D!stripRowCosmetic
    <2> HIDE DEF x
    <2>4. DockSaid(s) \cap D!Cosmetic = {}
      BY <1>8, ColumnsAssumption
      DEF DockSaid, D!RowBadges, D!Controls, D!colOn, D!Settings, D!Named, D!RowLooks, D!themingOn,
          D!Cosmetic
    <2>5. DockFits(x, s)
      BY <1>8, <2>2, <2>3, <2>4 DEF DockFits
    <2>6. DockTinted(x, s) /\ DockBare(x) /\ DockFiltered(x, s)
      BY <2>1, <2>2, <2>3 DEF DockTinted, DockBare, DockFiltered, D!Cosmetic
    <2>7. DockPalette(x, s)
      BY <1>6, <2>1, <2>3 DEF DockPalette
    <2>8. DockTabled(x, s) /\ DockCards(x, mode)
      BY <1>5, <1>8, <2>1, <2>3 DEF DockTabled, DockCards
    <2>9. "centred" \notin x.rows
      BY <2>3 DEF D!Cosmetic
    <2> QED BY <1>0, <1>8, <2>3, <2>5, <2>6, <2>7, <2>8, <2>9 DEF e
  <1> QED BY <1>7, <1>8
\* What holds of a page whose settings were all heard of.
DockLooks(d, s, mode, flip) ==
    /\ DockPalette(d, s)
    /\ ~s.theming => d.rows \cap {"sized", "tinted"} = {}
    /\ (mode = "list" /\ "tagged" \in d.rows) => DockFiltered(d, s) /\ DockTinted(d, s)
    /\ (mode = "list" /\ "tagged" \in d.rows /\ ~flip) =>
           DockTabled(d, s) /\ ("behind" \notin d.rows => DockFits(d, s))

DockSettled == ~world.torn /\ "theming" \notin js.event /\ "other" \notin js.event

DockInv ==
    /\ set \in D!Settings /\ dom \in DockDom /\ js \in DockJs /\ world \in DockWorld
    /\ js.moTimer => js.moPending
    /\ js.dead => world.torn
    /\ DockBare(dom) /\ DockCards(dom, js.mode)
    /\ (~world.torn /\ "theming" \notin js.event /\ ~set.theming /\ ~world.adopted)
           => "centred" \notin dom.rows
    /\ DockSettled => DockLooks(dom, set, js.mode, js.flip)

\* The view has no part in it, and a flip of the columns only once it is painted.
LEMMA DockView ==
  ASSUME NEW d, NEW s \in D!Settings, NEW r \in D!Settings, NEW mode, NEW flip,
         r.theming = s.theming, r.colour = s.colour,
         (r.adv = s.adv /\ r.cols = s.cols) \/ flip,
         DockLooks(d, s, mode, flip)
  PROVE  DockLooks(d, r, mode, flip)
  <1>1. DockPalette(d, r) /\ (~r.theming => d.rows \cap {"sized", "tinted"} = {})
    BY DEF DockLooks, DockPalette
  <1>2. (mode = "list" /\ "tagged" \in d.rows) => DockFiltered(d, r) /\ DockTinted(d, r)
    BY DEF DockLooks, DockFiltered, DockTinted
  <1>3. ASSUME ~flip
        PROVE  (DockTabled(d, s) => DockTabled(d, r)) /\ (DockFits(d, s) => DockFits(d, r))
    <2>1. D!colOn(r) = D!colOn(s)
      BY <1>3 DEF D!colOn
    <2>2. D!Classes(r) = D!Classes(s)
      BY <1>3, <2>1 DEF D!Classes
    <2>3. DockSaid(r) = DockSaid(s)
      BY <2>1 DEF DockSaid, D!RowBadges, D!RowLooks, D!themingOn
    <2> QED BY <2>2, <2>3 DEF DockTabled, DockFits
  <1> QED BY <1>1, <1>2, <1>3 DEF DockLooks

\* Any applyMode keeps the looks, or brings them about.
LEMMA DockShow ==
  ASSUME NEW d \in DockDom, NEW s \in D!Settings, NEW old \in {"list", "grid"},
         NEW mode \in {"list", "grid"}, NEW flip \in BOOLEAN, DockBare(d), DockCards(d, old),
         mode = old \/ s.theming \/ mode = "list"
  PROVE  LET e == D!applyMode(d, s, mode)
         IN  /\ e \in DockDom /\ DockBare(e) /\ DockCards(e, mode)
             /\ DockLooks(d, s, old, flip) => DockLooks(e, s, mode, flip)
             /\ (~s.theming /\ "centred" \in e.rows) => "centred" \in d.rows
  <1> DEFINE e == D!applyMode(d, s, mode)
  <1>1. (~s.theming /\ mode = "grid" /\ "tagged" \in d.rows) => "behind" \in d.rows
    BY DEF DockCards
  <1>2. /\ e \in DockDom /\ DockBare(e) /\ DockCards(e, mode) /\ DockFiltered(e, s)
        /\ "palette" \in e.page <=> "palette" \in d.page
        /\ mode = "list" => DockTabled(e, s)
        /\ (s.theming \/ "sized" \notin d.rows) => DockTinted(e, s)
        /\ (/\ mode = "list" /\ "behind" \notin e.rows
            /\ "tagged" \in d.rows /\ "behind" \notin d.rows => DockFits(d, s)) => DockFits(e, s)
        /\ (~s.theming /\ "centred" \in e.rows) => "centred" \in d.rows
    BY <1>1, DockMode
  <1> HIDE DEF e
  <1>3. ASSUME DockLooks(d, s, old, flip) PROVE DockLooks(e, s, mode, flip)
    <2>1. DockTinted(e, s)
      BY <1>2, <1>3 DEF DockLooks
    <2>2. DockPalette(e, s)
      BY <1>2, <1>3 DEF DockLooks, DockPalette
    <2>3. ASSUME ~flip, "tagged" \in d.rows, "behind" \notin d.rows PROVE DockFits(d, s)
      BY <1>3, <2>3 DEF DockLooks, DockCards
    <2>4. ~s.theming => e.rows \cap {"sized", "tinted"} = {}
      BY <2>1 DEF DockTinted
    <2> QED BY <1>2, <2>1, <2>2, <2>3, <2>4 DEF DockLooks
  <1> QED BY <1>2, <1>3 DEF e

LEMMA DockInit == D!Init => DockInv
  <1> SUFFICES ASSUME D!Init PROVE DockInv
    OBVIOUS
  <1> DEFINE d == D!applySettings(D!Blank, set)
             e == D!applyMode(d, set, js.mode)
  <1>1. /\ set \in D!Settings
        /\ js = [mode |-> IF set.theming THEN set.view ELSE "list", dead |-> FALSE,
                 moPending |-> FALSE, moTimer |-> FALSE, centre |-> FALSE, flip |-> FALSE,
                 config |-> TRUE, state |-> TRUE, adv |-> set.adv, event |-> {}]
        /\ dom \in {d, e}
        /\ world \in [changes : {0}, up : {TRUE}, adopted : {FALSE}, torn : {FALSE}]
    BY DEF D!Init, D!themingOn
  <1>2. js \in DockJs /\ ~js.dead /\ ~js.moTimer /\ js.event = {} /\ js.mode \in {"list", "grid"}
        /\ js.flip = FALSE
    BY <1>1 DEF DockJs, D!Settings
  <1>3. world \in DockWorld
    <2>1. 0 \in 0..MaxChanges
      BY BoundsAssumption
    <2> QED BY <1>1, <2>1 DEF DockWorld
  <1>4. D!Blank \in DockDom /\ D!Blank.rows = {} /\ ~D!Blank.hidden /\ D!Blank.grid = None
    BY DEF DockDom, D!Blank
  <1>5. d \in DockDom /\ d.rows = {} /\ ~d.hidden /\ d.grid = None /\ DockPalette(d, set)
    BY <1>1, <1>4, DockSettings
  <1> HIDE DEF d
  <1>6. DockBare(d) /\ DockCards(d, js.mode) /\ DockLooks(d, set, js.mode, js.flip)
    BY <1>5 DEF DockBare, DockCards, DockLooks
  <1>7. /\ e \in DockDom /\ DockBare(e) /\ DockCards(e, js.mode)
        /\ DockLooks(d, set, js.mode, js.flip) => DockLooks(e, set, js.mode, js.flip)
        /\ (~set.theming /\ "centred" \in e.rows) => "centred" \in d.rows
    BY <1>1, <1>2, <1>5, <1>6, DockShow
  <1> HIDE DEF e
  <1> QED BY <1>1, <1>2, <1>3, <1>5, <1>6, <1>7 DEF DockInv

LEMMA DockSafe == DockInv => D!TypeOK /\ D!LooksAsSet /\ D!ListIsNeverLost
  <1> SUFFICES ASSUME DockInv PROVE D!TypeOK /\ D!LooksAsSet /\ D!ListIsNeverLost
    OBVIOUS
  <1>1. D!TypeOK
    BY DEF DockInv, DockDom, DockJs, DockWorld, D!TypeOK
  <1>2. D!ListIsNeverLost
    BY DEF DockInv, DockCards, D!ListIsNeverLost
  <1>3. D!LooksAsSet
    <2> SUFFICES ASSUME D!Calm, "tagged" \in dom.rows, js.mode = "list"
                 PROVE  /\ ~dom.hidden /\ dom.grid = None
                        /\ DockTabled(dom, set) /\ DockFiltered(dom, set) /\ DockPalette(dom, set)
                        /\ "behind" \notin dom.rows =>
                               /\ D!Expected(set) \subseteq dom.rows
                               /\ dom.rows \subseteq D!Expected(set) \cup
                                      (IF set.theming THEN {"moved"} ELSE D!Leftover)
      BY DEF D!LooksAsSet, D!themingOn, DockTabled, DockFiltered, DockPalette
    <2>1. DockLooks(dom, set, js.mode, js.flip) /\ ~js.flip
      BY DEF DockInv, DockSettled, D!Calm
    <2>2. /\ DockPalette(dom, set) /\ DockFiltered(dom, set) /\ DockTinted(dom, set)
          /\ DockTabled(dom, set) /\ ("behind" \notin dom.rows => DockFits(dom, set))
      BY <2>1 DEF DockLooks
    <2>3. ~dom.hidden /\ dom.grid = None
      BY DEF DockInv, DockCards
    <2> SUFFICES ASSUME "behind" \notin dom.rows
                 PROVE  /\ D!Expected(set) \subseteq dom.rows
                        /\ dom.rows \subseteq D!Expected(set) \cup
                               (IF set.theming THEN {"moved"} ELSE D!Leftover)
      BY <2>2, <2>3
    <2>4. D!Expected(set) = DockSaid(set) \cup
              (IF set.theming
               THEN {"sized"} \cup (IF set.colour = "tint" THEN {"tinted"} ELSE {}) ELSE {})
      BY DEF D!Expected, D!themingOn, DockSaid
    <2>5. D!Expected(set) \subseteq dom.rows
      BY <2>2, <2>4 DEF DockFits, DockTinted
    <2>6. CASE set.theming
      BY <2>2, <2>4, <2>5, <2>6 DEF DockFits, DockTinted
    <2>7. CASE ~set.theming
      <3>1. ~world.adopted => "centred" \notin dom.rows
        BY <2>7 DEF DockInv, D!Calm
      <3>2. dom.rows \subseteq D!Expected(set) \cup D!Leftover
        BY <2>2, <2>4, <2>7, <3>1 DEF DockFits, DockTinted, D!Leftover, D!Cosmetic
      <3> QED BY <2>5, <2>7, <3>2
    <2> QED BY <2>6, <2>7
  <1> QED BY <1>1, <1>2, <1>3

LEMMA DockStep == DockInv /\ (D!Next \/ UNCHANGED D!vars) => DockInv'
  <1> SUFFICES ASSUME DockInv, D!Next \/ UNCHANGED D!vars PROVE DockInv'
    OBVIOUS
  <1> USE DEF D!themingOn
  <1>1. /\ set \in D!Settings /\ dom \in DockDom /\ js \in DockJs /\ world \in DockWorld
        /\ js.mode \in {"list", "grid"} /\ js.flip \in BOOLEAN
        /\ DockBare(dom) /\ DockCards(dom, js.mode)
    BY DEF DockInv, DockJs
  \* Steps that leave the page and what it should look like alone.
  <1>2. ASSUME UNCHANGED <<set, dom>>, js' \in DockJs, world' \in DockWorld,
               js'.mode = js.mode, js'.flip = js.flip, js'.event = js.event,
               js'.moTimer => js'.moPending, js'.dead => world'.torn,
               world.torn => world'.torn, world'.adopted = world.adopted
        PROVE  DockInv'
    BY <1>1, <1>2 DEF DockInv, DockSettled
  <1>3. D!Change => world.changes + 1 \in 0..MaxChanges
    BY <1>1, BoundsAssumption DEF D!Change, DockWorld
  <1>4. CASE D!NativeRender
    <2>1. /\ dom' \in DockDom /\ dom'.rows = {} /\ dom'.hidden = dom.hidden
          /\ dom'.grid = dom.grid /\ dom'.page = dom.page
      BY <1>1, <1>4 DEF D!NativeRender, DockDom
    <2>2. /\ js' \in DockJs /\ js'.mode = js.mode /\ js'.flip = js.flip /\ js'.event = js.event
          /\ js'.dead = js.dead /\ (js'.moTimer => js'.moPending)
      BY <1>1, <1>4 DEF D!NativeRender, DockJs, DockInv
    <2>3. UNCHANGED <<set, world>>
      BY <1>4 DEF D!NativeRender
    <2>4. DockBare(dom') /\ DockCards(dom', js'.mode)
      BY <1>1, <2>1, <2>2 DEF DockBare, DockCards
    <2>5. DockLooks(dom, set, js.mode, js.flip) => DockLooks(dom', set, js.mode, js.flip)
      BY <2>1 DEF DockLooks, DockPalette
    <2> QED BY <1>1, <2>1, <2>2, <2>3, <2>4, <2>5 DEF DockInv, DockSettled
  <1>5. CASE D!Sweep
    <2> DEFINE y == D!applyEnhanceClasses(dom, set)
               z == D!injectAllRowBadges(y, set, js.mode)
               e == D!applyMode(z, set, js.mode)
    <2>1. /\ dom' = e /\ UNCHANGED <<set, world>>
          /\ js' \in DockJs /\ js'.mode = js.mode /\ js'.flip = js.flip /\ js'.event = js.event
          /\ js'.dead = js.dead /\ ~js'.moTimer
      <3>1. dom' = e /\ UNCHANGED <<set, world>>
        BY <1>5 DEF D!Sweep, D!Paint
      <3>2. PICK again \in {FALSE, ~js.config /\ ~js.state} :
                js' = [js EXCEPT !.moTimer = FALSE, !.moPending = FALSE, !.centre = D!Centring(set),
                                 !.config = @ \/ again, !.state = @ \/ again]
        BY <1>5 DEF D!Sweep
      <3> DEFINE centre == D!Centring(set)
                 config == js.config \/ again
                 state == js.state \/ again
      <3>3. centre \in BOOLEAN /\ config \in BOOLEAN /\ state \in BOOLEAN
        BY <1>1 DEF D!Centring, DockJs
      <3>4. js' = [js EXCEPT !.moTimer = FALSE, !.moPending = FALSE, !.centre = centre,
                             !.config = config, !.state = state]
        BY <1>1, <3>2 DEF DockJs
      <3> HIDE DEF centre, config, state, e
      <3>5. /\ js' \in DockJs /\ js'.mode = js.mode /\ js'.flip = js.flip
            /\ js'.event = js.event /\ js'.dead = js.dead /\ ~js'.moTimer
        BY <1>1, <3>3, <3>4 DEF DockJs
      <3> QED BY <3>1, <3>5
    <2>2. /\ y \in DockDom /\ y.hidden = dom.hidden /\ y.grid = dom.grid
          /\ y.rows \ {"sized", "tinted"} = dom.rows \ {"sized", "tinted"}
          /\ DockTinted(y, set) /\ y.page \ {"filter"} = dom.page \ {"filter"}
      BY <1>1, DockEnhance
    <2> HIDE DEF y
    <2>3. /\ DockBare(y)
          /\ \A m \in {"tagged", "behind", "centred"} : m \in y.rows <=> m \in dom.rows
          /\ DockFits(dom, set) => DockFits(y, set)
      BY <1>1, <2>2, DockSame
    <2>4. DockCards(y, js.mode)
      BY <1>1, <2>2, <2>3 DEF DockCards
    <2>5. z \in DockDom /\ ("palette" \in z.page <=> "palette" \in y.page)
      <3>1. y \in DockDom
        BY <2>2
      <3> QED BY <1>1, <3>1, DockInject
    <2>6. /\ "tagged" \in z.rows /\ DockCards(z, js.mode) /\ DockTinted(z, set)
          /\ (/\ "behind" \notin z.rows
              /\ "tagged" \in y.rows /\ "behind" \notin y.rows => DockFits(y, set))
                 => DockFits(z, set)
          /\ (~set.theming /\ "centred" \in z.rows) => "centred" \in y.rows
      BY <1>1, <2>2, <2>3, <2>4, DockMark
    <2> HIDE DEF z
    <2>7. DockBare(z)
      BY <2>6 DEF DockBare
    <2>8. (~set.theming /\ js.mode = "grid" /\ "tagged" \in z.rows) => "behind" \in z.rows
      BY <2>6 DEF DockCards
    <2>9. /\ e \in DockDom /\ DockBare(e) /\ DockCards(e, js.mode) /\ DockFiltered(e, set)
          /\ "palette" \in e.page <=> "palette" \in z.page
          /\ js.mode = "list" => DockTabled(e, set)
          /\ (set.theming \/ "sized" \notin z.rows) => DockTinted(e, set)
          /\ (/\ js.mode = "list" /\ "behind" \notin e.rows
              /\ "tagged" \in z.rows /\ "behind" \notin z.rows => DockFits(z, set)) => DockFits(e, set)
          /\ (~set.theming /\ "centred" \in e.rows) => "centred" \in z.rows
      <3>1. z \in DockDom /\ set \in D!Settings /\ js.mode \in {"list", "grid"}
        BY <1>1, <2>5
      <3>2. e = D!applyMode(z, set, js.mode)
        OBVIOUS
      <3> HIDE DEF e
      <3> QED BY <2>7, <2>8, <3>1, <3>2, DockMode
    <2> HIDE DEF e
    <2>10. DockTinted(e, set)
      BY <2>6, <2>9 DEF DockTinted
    <2>11. ASSUME DockLooks(dom, set, js.mode, js.flip)
           PROVE  DockLooks(e, set, js.mode, js.flip)
      <3>1. DockPalette(e, set)
        BY <2>2, <2>5, <2>9, <2>11 DEF DockLooks, DockPalette
      <3>2. ~set.theming => e.rows \cap {"sized", "tinted"} = {}
        BY <2>10 DEF DockTinted
      <3>3. ASSUME ~js.flip, js.mode = "list", "behind" \notin e.rows PROVE DockFits(e, set)
        <4>1. "tagged" \in dom.rows /\ "behind" \notin dom.rows => DockFits(dom, set)
          BY <2>11, <3>3 DEF DockLooks
        <4> QED BY <2>3, <2>6, <2>9, <3>3, <4>1
      <3> QED BY <2>9, <2>10, <3>1, <3>2, <3>3 DEF DockLooks
    <2> QED BY <1>1, <2>1, <2>3, <2>6, <2>9, <2>11 DEF DockInv, DockSettled
  <1>6. CASE D!CentreLate
    <2>1. PICK moved \in {{}, IF js.mode = "list" THEN {"moved"} ELSE {}} :
              dom' = [dom EXCEPT !.rows = @ \cup moved]
      BY <1>6 DEF D!CentreLate, D!Paint
    <2>2. /\ js' \in DockJs /\ js'.mode = js.mode /\ js'.flip = js.flip /\ js'.event = js.event
          /\ js'.dead = js.dead /\ (js'.moTimer => js'.moPending)
          /\ UNCHANGED <<set, world>>
      BY <1>1, <1>6 DEF D!CentreLate, DockJs, DockInv
    <2>3. /\ dom' \in DockDom /\ dom'.rows = dom.rows \cup moved /\ dom'.hidden = dom.hidden
          /\ dom'.grid = dom.grid /\ dom'.page = dom.page /\ dom'.table = dom.table
      BY <1>1, <2>1 DEF DockDom, D!Marks, D!Named, D!Cosmetic
    <2>4. \A m : m # "moved" => (m \in dom'.rows <=> m \in dom.rows)
      BY <2>3
    <2>5. DockBare(dom') /\ DockCards(dom', js.mode)
      BY <1>1, <2>3, <2>4 DEF DockBare, DockCards, D!Cosmetic
    <2>6. DockFits(dom, set) => DockFits(dom', set)
      BY <2>3 DEF DockFits, D!Cosmetic
    <2>7. DockLooks(dom, set, js.mode, js.flip) => DockLooks(dom', set, js.mode, js.flip)
      BY <2>3, <2>4, <2>6 DEF DockLooks, DockPalette, DockFiltered, DockTinted, DockTabled
    <2> QED BY <1>1, <2>2, <2>3, <2>4, <2>5, <2>7 DEF DockInv, DockSettled
  <1>7. CASE D!ChangeSetting
    <2>1. PICK s \in D!Settings, k \in D!Keys :
              /\ s.adv = set.adv
              /\ CASE k = "theming" -> s = [set EXCEPT !.theming = ~@]
                   [] k = "view"    -> s = [set EXCEPT !.view = s.view]
                   [] k = "other"   -> s = [set EXCEPT !.cols = s.cols, !.colour = s.colour]
              /\ set' = s
              /\ js' = [js EXCEPT !.event = @ \cup {k}]
              /\ world' = [world EXCEPT !.changes = @ + 1, !.adopted = @ /\ k # "theming"]
      BY <1>7 DEF D!ChangeSetting
    <2>2. dom' = dom /\ D!Change
      BY <1>7 DEF D!ChangeSetting
    <2>3. /\ js' \in DockJs /\ js'.mode = js.mode /\ js'.flip = js.flip
          /\ js'.event = js.event \cup {k} /\ js'.dead = js.dead
          /\ (js'.moTimer => js'.moPending)
      BY <1>1, <2>1 DEF DockJs, DockInv
    <2>4. /\ world' \in DockWorld /\ world'.torn = world.torn
          /\ k # "theming" => world'.adopted = world.adopted
      BY <1>1, <1>3, <2>1, <2>2 DEF DockWorld
    <2>5. set' \in D!Settings
      BY <2>1
    <2>6. k # "theming" => set'.theming = set.theming
      BY <1>1, <2>1 DEF D!Settings, D!Keys
    <2>7. DockSettled' => DockLooks(dom', set', js'.mode, js'.flip)
      <3> SUFFICES ASSUME DockSettled' PROVE DockLooks(dom', set', js'.mode, js'.flip)
        OBVIOUS
      <3>1. k = "view" /\ DockSettled
        BY <2>3, <2>4 DEF DockSettled, D!Keys
      <3>2. /\ set'.theming = set.theming /\ set'.colour = set.colour
            /\ set'.adv = set.adv /\ set'.cols = set.cols
        BY <1>1, <2>1, <3>1 DEF D!Settings
      <3>3. DockLooks(dom, set, js.mode, js.flip)
        BY <3>1 DEF DockInv
      <3>4. DockLooks(dom, set', js.mode, js.flip)
        BY <1>1, <2>5, <3>2, <3>3, DockView
      <3> QED BY <2>2, <2>3, <3>4
    <2> QED BY <1>1, <2>2, <2>3, <2>4, <2>5, <2>6, <2>7 DEF DockInv
  <1>8. CASE D!StorageView
    <2> DEFINE m == D!Mode(set.view)
    <2>1. m \in {"list", "grid"} /\ (m = "list" \/ set.theming)
      BY <1>1 DEF D!Mode, D!Settings
    <2>2. world' = world
      BY <1>8 DEF D!StorageView
    <2>3. js' = IF js.dead THEN [js EXCEPT !.event = @ \ {"view"}]
                ELSE [js EXCEPT !.event = @ \ {"view"}, !.mode = m, !.centre = D!Centring(set)]
      <3> HIDE DEF m
      <3>1. CASE js.dead
        BY <1>8, <3>1 DEF D!StorageView, D!Heard
      <3>2. CASE ~js.dead
        BY <1>8, <3>2 DEF D!StorageView, D!Heard, m
      <3> QED BY <3>1, <3>2
    <2>4. D!Centring(set) \in BOOLEAN
      BY <1>1 DEF D!Centring, DockJs, D!Settings
    <2>5. /\ js' \in DockJs /\ js'.flip = js.flip /\ js'.event = js.event \ {"view"}
          /\ js'.dead = js.dead /\ (js'.moTimer => js'.moPending)
          /\ world' = world /\ m \in {"list", "grid"} /\ (m = "list" \/ set.theming)
      <3> HIDE DEF m
      <3> QED BY <1>1, <2>1, <2>2, <2>3, <2>4 DEF DockJs, DockInv
    <2>6. CASE js.dead
      <3>1. js'.mode = js.mode /\ UNCHANGED <<set, dom>>
        BY <1>1, <1>8, <2>6 DEF D!StorageView, DockJs, D!Heard
      <3>2. world'.torn
        BY <2>5, <2>6 DEF DockInv
      <3> QED BY <1>1, <2>5, <3>1, <3>2 DEF DockInv, DockSettled
    <2>7. CASE ~js.dead
      <3> DEFINE e == D!applyMode(dom, set', m)
      <3>1. /\ js'.mode = m /\ set' = [set EXCEPT !.view = m] /\ dom' = e
        BY <1>1, <1>8, <2>7 DEF D!StorageView, DockJs, D!Heard, D!Paint
      <3>2. /\ set' \in D!Settings /\ set'.theming = set.theming /\ set'.colour = set.colour
            /\ set'.adv = set.adv /\ set'.cols = set.cols
        BY <1>1, <2>5, <3>1 DEF D!Settings
      <3> HIDE DEF m
      <3>3. /\ e \in DockDom /\ DockBare(e) /\ DockCards(e, m)
            /\ DockLooks(dom, set', js.mode, js.flip) => DockLooks(e, set', m, js.flip)
            /\ (~set'.theming /\ "centred" \in e.rows) => "centred" \in dom.rows
        BY <1>1, <2>5, <3>2, DockShow
      <3>4. DockLooks(dom, set, js.mode, js.flip) => DockLooks(dom, set', js.mode, js.flip)
        BY <1>1, <3>2, DockView
      <3> HIDE DEF e
      <3> QED BY <1>1, <2>5, <3>1, <3>2, <3>3, <3>4 DEF DockInv, DockSettled
    <2> QED BY <2>6, <2>7
  <1>9. CASE D!StorageTheming
    <2>1. CASE js.dead
      <3>1. /\ js' \in DockJs /\ js'.mode = js.mode /\ js'.flip = js.flip
            /\ js'.dead = js.dead /\ (js'.moTimer => js'.moPending)
            /\ UNCHANGED <<set, dom, world>>
        BY <1>1, <1>9, <2>1 DEF D!StorageTheming, DockJs, DockInv, D!Heard
      <3>2. world'.torn
        BY <2>1, <3>1 DEF DockInv
      <3> QED BY <1>1, <3>1, <3>2 DEF DockInv, DockSettled
    <2>2. CASE ~js.dead
      <3> DEFINE coerced == ~set.theming /\ js.mode = "grid"
                 m == IF coerced THEN "list" ELSE js.mode
                 e == D!Retheme(dom, set', m)
      <3>1. /\ set' = IF coerced THEN [set EXCEPT !.view = "list"] ELSE set
            /\ dom' = e /\ world' = world
            /\ js' = [js EXCEPT !.event = D!Heard("theming"), !.mode = m,
                                !.centre = D!Centring(set)]
        BY <1>9, <2>2 DEF D!StorageTheming, D!Paint
      <3>2. set' \in D!Settings /\ set'.theming = set.theming /\ m \in {"list", "grid"}
        BY <1>1, <3>1 DEF D!Settings
      <3>3. ~set'.theming => m = "list"
        BY <1>1, <3>2
      <3> HIDE DEF m
      <3>4. /\ js' \in DockJs /\ js'.mode = m /\ js'.dead = js.dead
            /\ (js'.moTimer => js'.moPending)
        BY <1>1, <3>1, <3>2 DEF DockJs, DockInv, D!Heard, D!Centring, D!Settings
      <3>5. /\ e \in DockDom /\ DockBare(e) /\ DockCards(e, m)
            /\ DockPalette(e, set') /\ DockFiltered(e, set') /\ DockTinted(e, set')
            /\ m = "list" => DockTabled(e, set') /\ DockFits(e, set')
            /\ ~set'.theming => "centred" \notin e.rows
        BY <1>1, <3>2, <3>3, DockRetheme
      <3> HIDE DEF e
      <3>6. DockLooks(e, set', m, js'.flip)
        BY <3>5 DEF DockLooks, DockTinted
      <3> QED BY <1>1, <3>1, <3>2, <3>4, <3>5, <3>6 DEF DockInv
    <2> QED BY <2>1, <2>2
  \* A restyling with settings s, heard of or adopted.
  <1>10. ASSUME NEW s \in D!Settings
         PROVE  LET e == D!Restyle(dom, s, js.mode)
                IN  /\ e \in DockDom /\ DockBare(e) /\ DockCards(e, js.mode)
                    /\ \A flip \in BOOLEAN : DockLooks(e, s, js.mode, flip)
                    /\ (~s.theming /\ "centred" \in e.rows) => "centred" \in dom.rows
    <2> DEFINE e == D!Restyle(dom, s, js.mode)
    <2>1. /\ e \in DockDom /\ DockBare(e) /\ DockCards(e, js.mode)
          /\ DockPalette(e, s) /\ DockFiltered(e, s) /\ DockTinted(e, s)
          /\ js.mode = "list" => DockTabled(e, s) /\ DockFits(e, s)
          /\ (~s.theming /\ "centred" \in e.rows) => "centred" \in dom.rows
      BY <1>1, DockRestyle
    <2> HIDE DEF e
    <2>2. ASSUME NEW flip \in BOOLEAN PROVE DockLooks(e, s, js.mode, flip)
      BY <2>1 DEF DockLooks, DockTinted
    <2> QED BY <2>1, <2>2 DEF e
  <1>11. CASE D!StorageOther
    <2>1. /\ js' \in DockJs /\ js'.mode = js.mode /\ js'.flip = js.flip
          /\ js'.event = js.event \ {"other"}
          /\ js'.dead = js.dead /\ (js'.moTimer => js'.moPending)
          /\ UNCHANGED <<set, world>>
          /\ dom' = IF js.dead THEN dom ELSE D!Restyle(dom, set, js.mode)
      BY <1>1, <1>11 DEF D!StorageOther, D!Paint, DockJs, DockInv, D!Heard, D!Settings
    <2>2. CASE js.dead
      <3>1. world'.torn
        BY <2>1, <2>2 DEF DockInv
      <3> QED BY <1>1, <2>1, <2>2, <3>1 DEF DockInv, DockSettled
    <2>3. CASE ~js.dead
      <3> DEFINE e == D!Restyle(dom, set, js.mode)
      <3>1. /\ e \in DockDom /\ DockBare(e) /\ DockCards(e, js.mode)
            /\ \A flip \in BOOLEAN : DockLooks(e, set, js.mode, flip)
            /\ (~set.theming /\ "centred" \in e.rows) => "centred" \in dom.rows
        BY <1>1, <1>10
      <3>2. dom' = e
        BY <2>1, <2>3
      <3> HIDE DEF e
      <3> QED BY <1>1, <2>1, <3>1, <3>2 DEF DockInv, DockSettled
    <2> QED BY <2>2, <2>3
  <1>12. CASE D!PickList
    <2> DEFINE e == D!applyMode(dom, set', "list")
    <2>1. /\ dom' = e /\ set' = [set EXCEPT !.view = "list"] /\ set.theming
          /\ js' = [js EXCEPT !.mode = "list", !.centre = TRUE]
          /\ world' = [world EXCEPT !.changes = @ + 1] /\ D!Change
      BY <1>12 DEF D!PickList, D!Paint
    <2>2. /\ set' \in D!Settings /\ set'.theming = set.theming /\ set'.colour = set.colour
          /\ set'.adv = set.adv /\ set'.cols = set.cols
      BY <1>1, <2>1 DEF D!Settings
    <2>3. /\ js' \in DockJs /\ js'.mode = "list" /\ js'.flip = js.flip /\ js'.event = js.event
          /\ js'.dead = js.dead /\ (js'.moTimer => js'.moPending)
      BY <1>1, <2>1 DEF DockJs, DockInv
    <2>4. /\ world' \in DockWorld /\ world'.torn = world.torn /\ world'.adopted = world.adopted
      BY <1>1, <1>3, <2>1 DEF DockWorld
    <2>5. /\ e \in DockDom /\ DockBare(e) /\ DockCards(e, "list")
          /\ DockLooks(dom, set', js.mode, js.flip) => DockLooks(e, set', "list", js.flip)
          /\ (~set'.theming /\ "centred" \in e.rows) => "centred" \in dom.rows
      BY <1>1, <2>2, DockShow
    <2>6. DockLooks(dom, set, js.mode, js.flip) => DockLooks(dom, set', js.mode, js.flip)
      BY <1>1, <2>2, DockView
    <2> HIDE DEF e
    <2> QED BY <1>1, <2>1, <2>2, <2>3, <2>4, <2>5, <2>6 DEF DockInv, DockSettled
  <1>13. CASE D!PickColour
    <2>1. PICK c \in Colours : set' = [set EXCEPT !.colour = c]
      BY <1>13 DEF D!PickColour
    <2> DEFINE e == D!Restyle(dom, set', js.mode)
    <2>2. /\ dom' = e /\ set.theming /\ js' = js
          /\ world' = [world EXCEPT !.changes = @ + 1] /\ D!Change
      BY <1>13 DEF D!PickColour, D!Paint
    <2>3. set' \in D!Settings /\ set'.theming = set.theming
      BY <1>1, <2>1 DEF D!Settings
    <2>4. /\ world' \in DockWorld /\ world'.torn = world.torn /\ world'.adopted = world.adopted
      BY <1>1, <1>3, <2>2 DEF DockWorld
    <2>5. /\ e \in DockDom /\ DockBare(e) /\ DockCards(e, js.mode)
          /\ \A flip \in BOOLEAN : DockLooks(e, set', js.mode, flip)
      BY <2>3, <1>10
    <2> HIDE DEF e
    <2> QED BY <1>1, <2>2, <2>3, <2>4, <2>5 DEF DockInv, DockSettled
  <1>14. CASE D!FlipView
    <2>1. /\ set' = [set EXCEPT !.adv = ~@] /\ js' = [js EXCEPT !.flip = TRUE]
          /\ world' = [world EXCEPT !.changes = @ + 1] /\ dom' = dom /\ D!Change
      BY <1>14 DEF D!FlipView
    <2>2. /\ set' \in D!Settings /\ set'.theming = set.theming /\ set'.colour = set.colour
      BY <1>1, <2>1 DEF D!Settings
    <2>3. /\ js' \in DockJs /\ js'.mode = js.mode /\ js'.flip = TRUE /\ js'.event = js.event
          /\ js'.dead = js.dead /\ (js'.moTimer => js'.moPending)
      BY <1>1, <2>1 DEF DockJs, DockInv
    <2>4. /\ world' \in DockWorld /\ world'.torn = world.torn /\ world'.adopted = world.adopted
      BY <1>1, <1>3, <2>1 DEF DockWorld
    <2>5. DockLooks(dom, set, js.mode, js.flip) => DockLooks(dom, set, js.mode, TRUE)
      BY DEF DockLooks
    <2>6. DockLooks(dom, set, js.mode, TRUE) => DockLooks(dom, set', js.mode, TRUE)
      BY <1>1, <2>2, DockView
    <2> QED BY <1>1, <2>1, <2>2, <2>3, <2>4, <2>5, <2>6 DEF DockInv, DockSettled
  \* A repaint after a flip of the columns.
  <1>15. LET e == D!Repaint(dom, set, js.mode)
         IN  /\ e \in DockDom /\ DockBare(e) /\ DockCards(e, js.mode)
             /\ DockLooks(dom, set, js.mode, js.flip)
                    => \A flip \in BOOLEAN : DockLooks(e, set, js.mode, flip)
             /\ (~set.theming /\ "centred" \in e.rows) => "centred" \in dom.rows
    <2> DEFINE e == D!Repaint(dom, set, js.mode)
    <2>1. /\ e \in DockDom /\ DockTabled(e, set) /\ e.hidden = dom.hidden /\ e.grid = dom.grid
          /\ DockTinted(e, set) /\ DockFiltered(e, set) /\ "tagged" \in e.rows
          /\ "palette" \in e.page <=> "palette" \in dom.page
          /\ IF js.mode = "list" THEN DockFits(e, set) ELSE "behind" \in e.rows
          /\ (~set.theming /\ "centred" \in e.rows) => "centred" \in dom.rows
      BY <1>1, DockRepaint
    <2> HIDE DEF e
    <2>2. DockBare(e) /\ DockCards(e, js.mode)
      BY <1>1, <2>1 DEF DockBare, DockCards
    <2>3. ASSUME DockLooks(dom, set, js.mode, js.flip), NEW flip \in BOOLEAN
          PROVE  DockLooks(e, set, js.mode, flip)
      BY <2>1, <2>3 DEF DockLooks, DockPalette, DockTinted
    <2> QED BY <2>1, <2>2, <2>3 DEF e
  <1>16. CASE D!FlipLate \/ D!PollView
    <2>1. /\ dom' = D!Repaint(dom, set, js.mode) /\ UNCHANGED <<set, world>>
      BY <1>16 DEF D!FlipLate, D!PollView, D!Paint
    <2>2. /\ js' \in DockJs /\ js'.mode = js.mode /\ js'.flip \in BOOLEAN /\ js'.event = js.event
          /\ js'.dead = js.dead /\ (js'.moTimer => js'.moPending)
      <3> DEFINE centre == D!Centring(set)
      <3>1. centre \in BOOLEAN /\ set.adv \in BOOLEAN
        BY <1>1 DEF D!Centring, DockJs, D!Settings
      <3>2. \/ js' = [js EXCEPT !.flip = FALSE, !.centre = centre]
            \/ js' = [js EXCEPT !.adv = set.adv, !.centre = centre]
        BY <1>16 DEF D!FlipLate, D!PollView
      <3>3. js.moTimer => js.moPending
        BY DEF DockInv
      <3> HIDE DEF centre
      <3> QED BY <1>1, <3>1, <3>2, <3>3 DEF DockJs
    <2> DEFINE e == D!Repaint(dom, set, js.mode)
    <2>3. /\ e \in DockDom /\ DockBare(e) /\ DockCards(e, js.mode)
          /\ DockLooks(dom, set, js.mode, js.flip)
                 => \A flip \in BOOLEAN : DockLooks(e, set, js.mode, flip)
          /\ (~set.theming /\ "centred" \in e.rows) => "centred" \in dom.rows
      BY <1>15
    <2>4. dom' = e
      BY <2>1
    <2> HIDE DEF e
    <2> QED BY <1>1, <2>1, <2>2, <2>3, <2>4 DEF DockInv, DockSettled
  <1>17. CASE D!Load \/ D!ConfigSame \/ D!StateFails \/ D!Rearm
    <2>1. /\ UNCHANGED <<set, dom, world>> /\ js' \in DockJs
          /\ js'.mode = js.mode /\ js'.flip = js.flip /\ js'.event = js.event
          /\ js'.moTimer = js.moTimer /\ js'.moPending = js.moPending
      <3>1. CASE D!Load \/ D!ConfigSame \/ D!StateFails
        BY <1>1, <3>1 DEF D!Load, D!ConfigSame, D!StateFails, DockJs
      <3>2. CASE D!Rearm
        BY <1>1, <3>2 DEF D!Rearm, DockJs, D!Settings
      <3> QED BY <1>17, <3>1, <3>2
    <2>2. js'.dead => world'.torn
      BY <1>1, <1>17 DEF D!Load, D!ConfigSame, D!StateFails, D!Rearm, DockJs, DockInv
    <2>3. js'.moTimer => js'.moPending
      BY <2>1 DEF DockInv
    <2> QED BY <1>1, <1>2, <2>1, <2>2, <2>3
  <1>18. CASE D!Uninstall \/ D!Install
    BY <1>1, <1>2, <1>3, <1>18 DEF D!Uninstall, D!Install, DockWorld, DockInv
  <1>19. CASE D!ConfigAdopts
    <2>1. PICK s \in D!Settings :
              /\ set' = s /\ dom' = D!Restyle(dom, s, js.mode)
              /\ js' = [js EXCEPT !.config = FALSE, !.centre = D!Centring(s)]
              /\ world' = [world EXCEPT !.changes = @ + 1,
                                        !.adopted = @ \/ s.theming # set.theming]
      BY <1>19 DEF D!ConfigAdopts, D!Paint
    <2>2. /\ js' \in DockJs /\ js'.mode = js.mode /\ js'.flip = js.flip /\ js'.event = js.event
          /\ js'.dead = js.dead /\ (js'.moTimer => js'.moPending)
      BY <1>1, <2>1 DEF DockJs, DockInv, D!Centring, D!Settings
    <2>3. /\ world' \in DockWorld /\ world'.torn = world.torn
          /\ world'.adopted = (world.adopted \/ s.theming # set.theming)
      <3>1. world.changes + 1 \in 0..MaxChanges
        BY <1>3, <1>19 DEF D!ConfigAdopts
      <3> QED BY <1>1, <2>1, <3>1 DEF DockWorld, D!Settings
    <2> DEFINE e == D!Restyle(dom, s, js.mode)
    <2>4. /\ e \in DockDom /\ DockBare(e) /\ DockCards(e, js.mode)
          /\ \A flip \in BOOLEAN : DockLooks(e, s, js.mode, flip)
          /\ (~s.theming /\ "centred" \in e.rows) => "centred" \in dom.rows
      BY <1>10
    <2>5. dom' = e /\ set' = s
      BY <2>1
    <2> HIDE DEF e
    <2> QED BY <1>1, <2>2, <2>3, <2>4, <2>5 DEF DockInv, DockSettled
  <1>20. CASE D!StateLands
    <2> DEFINE d == [dom EXCEPT !.page = @ \cup {"names"}]
               e == D!applyMode(d, set, js.mode)
    <2>1. /\ UNCHANGED <<set, world>> /\ dom' = IF js.dead THEN d ELSE e
          /\ js' \in DockJs /\ js'.mode = js.mode /\ js'.flip = js.flip /\ js'.event = js.event
          /\ js'.dead = js.dead /\ (js'.moTimer => js'.moPending)
      BY <1>1, <1>20 DEF D!StateLands, D!Paint, DockJs, DockInv, D!Settings
    <2>2. /\ d \in DockDom /\ d.rows = dom.rows /\ d.hidden = dom.hidden /\ d.grid = dom.grid
          /\ d.table = dom.table /\ d.page = dom.page \cup {"names"}
      BY <1>1 DEF DockDom, D!PageMarks
    <2> HIDE DEF d
    <2>3. DockBare(d) /\ DockCards(d, js.mode)
      BY <1>1, <2>2 DEF DockBare, DockCards
    <2>4. DockLooks(dom, set, js.mode, js.flip) => DockLooks(d, set, js.mode, js.flip)
      BY <2>2 DEF DockLooks, DockPalette, DockFiltered, DockTinted, DockTabled, DockFits
    <2>5. /\ e \in DockDom /\ DockBare(e) /\ DockCards(e, js.mode)
          /\ DockLooks(d, set, js.mode, js.flip) => DockLooks(e, set, js.mode, js.flip)
          /\ (~set.theming /\ "centred" \in e.rows) => "centred" \in d.rows
      BY <1>1, <2>2, <2>3, DockShow
    <2> HIDE DEF e
    <2> QED BY <1>1, <2>1, <2>2, <2>3, <2>4, <2>5 DEF DockInv, DockSettled
  <1>21. CASE D!ProbeGone \/ D!StateGone
    <2>1. PICK landed \in BOOLEAN : D!TakeDown(landed)
      BY <1>1, <1>21 DEF D!ProbeGone, D!StateGone, DockJs
    <2> DEFINE u == D!removeEnhanceClasses(dom)
               c == D!clearRowBadges(u)
    <2>2. /\ set' = set /\ dom' = [c EXCEPT !.grid = None, !.hidden = FALSE,
                                           !.page = @ \ {"names", "accent"}]
          /\ js' = [js EXCEPT !.dead = TRUE, !.moTimer = FALSE, !.state = landed]
          /\ world' = [world EXCEPT !.torn = TRUE]
      BY <2>1 DEF D!TakeDown, D!Paint, D!teardown
    <2>3. u \in DockDom
      BY <1>1, DockUnenhance
    <2> HIDE DEF u
    <2>4. /\ c \in DockDom /\ "tagged" \notin c.rows
          /\ c.rows \subseteq D!Cosmetic \cup D!Indelible \cup {"sized", "tinted"}
      BY <2>3, DockClear
    <2> HIDE DEF c
    <2>5. /\ dom' \in DockDom /\ dom'.rows = c.rows /\ dom'.grid = None /\ ~dom'.hidden
      BY <2>2, <2>4 DEF DockDom
    <2>6. js' \in DockJs /\ ~js'.moTimer /\ world' \in DockWorld /\ world'.torn
      BY <1>1, <2>2 DEF DockJs, DockWorld
    <2>7. DockBare(dom') /\ DockCards(dom', js'.mode)
      BY <2>4, <2>5 DEF DockBare, DockCards
    <2> QED BY <1>1, <2>2, <2>5, <2>6, <2>7 DEF DockInv, DockSettled
  <1>22. CASE UNCHANGED D!vars
    BY <1>22 DEF D!vars, DockInv, DockSettled
  <1> QED BY <1>4, <1>5, <1>6, <1>7, <1>8, <1>9, <1>11, <1>12, <1>13, <1>14, <1>16, <1>17, <1>18,
             <1>19, <1>20, <1>21, <1>22
      DEF D!Next, D!User, D!Timers, D!Events, D!Answers, D!Gone

-----------------------------------------------------------------------------
(* The Start page *)

MainDom ==
    [tabbed : BOOLEAN, page : [look : {"accent", "rainbow"}, main : BOOLEAN] \cup {Raw},
     tabs : {Raw, "rainbow"}, heads : BOOLEAN, diskio : {"home", "head"}, ud : {"home", "head"},
     head : {Raw, "wide"}, row : {Raw, "accent", "rainbow"}, device : {Raw, "badged"},
     cols : {Raw, "derived"} \cup Widths, cell : {Raw, "taken"},
     pills : SUBSET {"current", "stale"}, card : Progress \cup {None}]

MainJs == [running : BOOLEAN, timer : BOOLEAN, event : BOOLEAN,
           drag : {None, "derived"} \cup Widths, torn : BOOLEAN, posting : BOOLEAN]

MainWorld == [check : Progress \cup {None}, tried : BOOLEAN, n : 0..MainChanges]

\* The tables and the heads of a page d that is enhanced, its panel, its columns.
MainTables(d, s) ==
    /\ d.head = "wide" /\ d.row = M!Look(s) /\ d.device = "badged" /\ d.heads = s.sections
    /\ d.diskio = IF s.sections THEN "head" ELSE "home"
    /\ d.ud = IF s.sections THEN "head" ELSE "home"
MainPanel(d, check) == d.cell = "taken" /\ d.pills = {"current"} /\ d.card = check
MainBroad(d, s)     == s.px # None => d.cols = s.px

\* As Unraid has it, but for the colours of the tabs.
MainBare(d) ==
    /\ d.page = Raw /\ ~d.heads /\ d.diskio = "home" /\ d.ud = "home" /\ d.head = Raw
    /\ d.row = Raw /\ d.device = Raw /\ d.cols = Raw /\ d.cell = Raw /\ d.pills = {}
    /\ d.card = None

\* What LooksAsSet asks of a page d without an event to come, and what Untabbed adds to it
\* for IsWhole: the script works on a page with tabs only.
MainRight(d, s, j, check) ==
    /\ (s.theming /\ s.main /\ d.tabbed) =>
            /\ d.page = [look |-> M!Look(s), main |-> TRUE]
            /\ MainTables(d, s)
            /\ ~j.timer => MainPanel(d, check)
            /\ j.drag = None /\ ~j.torn => MainBroad(d, s)
    /\ ~M!active(d, s) => MainBare(d) /\ j.drag = None

MainUntabbed(d) == ~d.tabbed => d.head = Raw /\ d.row = Raw

MainInv ==
    /\ set \in M!Settings /\ dom \in MainDom /\ js \in MainJs /\ world \in MainWorld
    /\ MainUntabbed(dom)
    /\ js.running /\ ~js.event => MainRight(dom, set, js, world.check)

LEMMA MainWords ==
    /\ Raw \notin {"accent", "rainbow", "wide", "badged", "taken", "derived"} \cup Widths
    /\ None \notin {"derived"} \cup Widths /\ MainChanges \in Nat
  BY SentinelsAssumption, BoundsAssumption DEF Words

\* Heads that hold no control go alone.
LEMMA MainHeads ==
  ASSUME NEW u \in MainDom, u.diskio = "home", u.ud = "home"
  PROVE  LET b == M!dropHeads(u)
         IN  /\ b \in MainDom /\ b.tabbed = u.tabbed /\ b.page = u.page /\ b.tabs = u.tabs
             /\ b.diskio = "home" /\ b.ud = "home" /\ ~b.heads
  <1> DEFINE b == [u EXCEPT !.heads = FALSE, !.diskio = "home", !.ud = "home"]
  <1>1. M!dropHeads(u) = b
    BY DEF M!dropHeads
  <1>2. /\ b \in MainDom /\ b.tabbed = u.tabbed /\ b.page = u.page /\ b.tabs = u.tabs
        /\ b.diskio = "home" /\ b.ud = "home" /\ ~b.heads
    BY DEF MainDom
  <1> QED BY <1>1, <1>2

LEMMA MainTeardown ==
  ASSUME NEW d \in MainDom
  PROVE  LET t == M!teardown(d) IN t \in MainDom /\ MainBare(t) /\ t.tabbed = d.tabbed
  <1> DEFINE i == M!ccDiskioHome(d)
             u == M!ccUdCtrlsHome(i)
             b == M!dropHeads(u)
             c == [b EXCEPT !.page = Raw, !.tabs = Raw, !.head = Raw, !.row = Raw]
             t == M!udTeardown(M!aopTeardown(M!colTeardown(c)))
  <1>1. M!teardown(d) = t
    BY DEF M!teardown
  <1>2. i \in MainDom /\ i.tabbed = d.tabbed /\ i.diskio = "home"
    BY DEF MainDom, M!ccDiskioHome
  <1> HIDE DEF i
  <1>3. u \in MainDom /\ u.tabbed = i.tabbed /\ u.diskio = "home" /\ u.ud = "home"
    BY <1>2 DEF MainDom, M!ccUdCtrlsHome
  <1> HIDE DEF u
  <1>4. /\ b \in MainDom /\ b.tabbed = u.tabbed /\ b.diskio = "home" /\ b.ud = "home" /\ ~b.heads
    BY <1>3, MainHeads
  <1> HIDE DEF b
  <1>5. /\ c \in MainDom /\ c.tabbed = b.tabbed /\ c.diskio = "home" /\ c.ud = "home" /\ ~c.heads
        /\ c.page = Raw /\ c.head = Raw /\ c.row = Raw
    <2>1. b \in MainDom => c \in MainDom
      BY DEF MainDom
    <2>2. b \in MainDom => /\ c.tabbed = b.tabbed /\ c.diskio = b.diskio /\ c.ud = b.ud
                            /\ c.heads = b.heads /\ c.page = Raw /\ c.head = Raw /\ c.row = Raw
      BY DEF MainDom
    <2> QED BY <1>4, <2>1, <2>2
  <1> HIDE DEF c
  <1>6. t \in MainDom /\ MainBare(t) /\ t.tabbed = c.tabbed
    BY <1>5 DEF MainDom, M!udTeardown, M!aopTeardown, M!colTeardown, MainBare
  <1> QED BY <1>1, <1>2, <1>3, <1>4, <1>5, <1>6

LEMMA MainTabs ==
  ASSUME NEW d \in MainDom, NEW s \in M!Settings
  PROVE  LET t == M!tabMode(d, s)
         IN  /\ t \in MainDom /\ t.heads = s.sections
             /\ t.diskio = IF s.sections THEN "head" ELSE "home"
             /\ ~s.sections => t.ud = "home"
             /\ t.tabbed = d.tabbed /\ t.page = d.page /\ t.tabs = d.tabs
  <1>1. CASE s.sections
    <2> DEFINE c == M!cardPanels(d)
               t == M!ccDiskioMove(c)
    <2>1. c \in MainDom /\ c.heads /\ c.tabbed = d.tabbed /\ c.page = d.page /\ c.tabs = d.tabs
      BY DEF MainDom, M!cardPanels
    <2>2. M!tabMode(d, s) = t
      BY <1>1 DEF M!tabMode
    <2> HIDE DEF c
    <2>3. /\ t \in MainDom /\ t.heads /\ t.diskio = "head"
          /\ t.tabbed = c.tabbed /\ t.page = c.page /\ t.tabs = c.tabs
      BY <2>1 DEF MainDom, M!ccDiskioMove
    <2> QED BY <1>1, <2>1, <2>2, <2>3
  <1>2. CASE ~s.sections
    <2> DEFINE i == M!ccDiskioHome(d)
               u == M!ccUdCtrlsHome(i)
               t == M!flattenTeardown(u)
    <2>1. /\ i \in MainDom /\ i.diskio = "home"
          /\ i.tabbed = d.tabbed /\ i.page = d.page /\ i.tabs = d.tabs
      BY DEF MainDom, M!ccDiskioHome
    <2>2. M!tabMode(d, s) = t
      BY <1>2 DEF M!tabMode
    <2> HIDE DEF i
    <2>3. /\ u \in MainDom /\ u.diskio = "home" /\ u.ud = "home"
          /\ u.tabbed = i.tabbed /\ u.page = i.page /\ u.tabs = i.tabs
      BY <2>1 DEF MainDom, M!ccUdCtrlsHome
    <2> HIDE DEF u
    <2>4. /\ t \in MainDom /\ t.heads = FALSE /\ t.diskio = "home" /\ t.ud = "home"
          /\ t.tabbed = u.tabbed /\ t.page = u.page /\ t.tabs = u.tabs
      BY <2>3, MainHeads DEF M!flattenTeardown, MainDom
    <2> HIDE DEF t
    <2>5. s.sections = FALSE
      BY <1>2 DEF M!Settings
    <2> QED BY <2>1, <2>2, <2>3, <2>4, <2>5
  <1> QED BY <1>1, <1>2 DEF M!Settings

\* What enhances the page puts everything in place, whatever it finds.
LEMMA MainEnhance ==
  ASSUME NEW d \in MainDom, NEW s \in M!Settings, NEW check \in Progress \cup {None}
  PROVE  LET p == M!paintMain(M!enhanceMain(d, s, check), s)
         IN  /\ p \in MainDom /\ p.tabbed = d.tabbed /\ p.page = d.page /\ p.tabs = d.tabs
             /\ IF s.main /\ d.tabbed
                THEN MainTables(p, s) /\ MainPanel(p, check) /\ MainBroad(p, s)
                ELSE p = d
  <1>1. CASE ~(s.main /\ d.tabbed)
    BY <1>1 DEF M!enhanceMain, M!paintMain, M!onMain
  <1>2. CASE s.main /\ d.tabbed
    <2> DEFINE t == M!tabMode(d, s)
               r == M!enhanceMainRow(M!enhanceMainHead(t))
               c == M!colApply(r, s)
               a == M!enhanceArrayOps(c, check)
               v == [a EXCEPT !.device = "badged"]
               u == M!ccUdCtrlsMove(v, s)
               p == M!paintMain(u, s)
    <2>1. M!enhanceMain(d, s, check) = u
      BY <1>2 DEF M!enhanceMain, M!onMain, M!enhanceUD
    <2>2. /\ t \in MainDom /\ t.heads = s.sections
          /\ t.diskio = IF s.sections THEN "head" ELSE "home"
          /\ ~s.sections => t.ud = "home"
          /\ t.tabbed = d.tabbed /\ t.page = d.page /\ t.tabs = d.tabs
      BY MainTabs
    <2> HIDE DEF t
    <2>3. /\ r \in MainDom /\ r.head = "wide" /\ r.row # Raw /\ r.heads = t.heads
          /\ r.diskio = t.diskio /\ r.ud = t.ud
          /\ r.tabbed = t.tabbed /\ r.page = t.page /\ r.tabs = t.tabs
      <3> DEFINE h == M!enhanceMainHead(t)
      <3>1. /\ h \in MainDom /\ h.head = "wide" /\ h.heads = t.heads
            /\ h.diskio = t.diskio /\ h.ud = t.ud
            /\ h.tabbed = t.tabbed /\ h.page = t.page /\ h.tabs = t.tabs
        BY <2>2 DEF MainDom, M!enhanceMainHead
      <3> HIDE DEF h
      <3> DEFINE k == IF h.row = Raw THEN "accent" ELSE h.row
      <3>2. k \in {"accent", "rainbow"} /\ k # Raw
        BY <3>1, MainWords DEF MainDom
      <3>3. r = [h EXCEPT !.row = k]
        BY DEF M!enhanceMainRow, h
      <3> HIDE DEF k, r
      <3> QED BY <3>1, <3>2, <3>3 DEF MainDom
    <2> HIDE DEF r
    <2>4. /\ c \in MainDom /\ c.head = "wide" /\ c.row # Raw /\ c.heads = r.heads
          /\ c.diskio = r.diskio /\ c.ud = r.ud /\ MainBroad(c, s)
          /\ c.tabbed = r.tabbed /\ c.page = r.page /\ c.tabs = r.tabs
      BY <2>3 DEF MainDom, M!colApply, M!Settings, MainBroad
    <2> HIDE DEF c
    <2>5. /\ a \in MainDom /\ a.head = "wide" /\ a.row # Raw /\ a.heads = c.heads
          /\ a.diskio = c.diskio /\ a.ud = c.ud /\ a.cols = c.cols /\ MainPanel(a, check)
          /\ a.tabbed = c.tabbed /\ a.page = c.page /\ a.tabs = c.tabs
      BY <2>4 DEF MainDom, M!enhanceArrayOps, M!ccAopParityCard, M!ccAopPillStack,
                  M!aopStatusBadge, MainPanel
    <2> HIDE DEF a
    <2>6. /\ v \in MainDom /\ v.head = "wide" /\ v.row # Raw /\ v.heads = a.heads
          /\ v.diskio = a.diskio /\ v.ud = a.ud /\ v.cols = a.cols /\ MainPanel(v, check)
          /\ v.device = "badged" /\ v.tabbed = a.tabbed /\ v.page = a.page /\ v.tabs = a.tabs
      BY <2>5 DEF MainDom, MainPanel
    <2> HIDE DEF v
    <2>7. /\ u \in MainDom /\ u.head = "wide" /\ u.row # Raw /\ u.heads = v.heads
          /\ u.diskio = v.diskio /\ u.cols = v.cols /\ MainPanel(u, check)
          /\ u.ud = IF s.sections THEN "head" ELSE "home"
          /\ u.device = "badged" /\ u.tabbed = v.tabbed /\ u.page = v.page /\ u.tabs = v.tabs
      BY <2>2, <2>3, <2>4, <2>5, <2>6 DEF MainDom, M!ccUdCtrlsMove, MainPanel
    <2> HIDE DEF u
    <2>8. /\ p \in MainDom /\ p.head = "wide" /\ p.row = M!Look(s) /\ p.heads = u.heads
          /\ p.diskio = u.diskio /\ p.ud = u.ud /\ p.cols = u.cols /\ MainPanel(p, check)
          /\ p.device = "badged" /\ p.tabbed = u.tabbed /\ p.page = u.page /\ p.tabs = u.tabs
      <3>1. p = [u EXCEPT !.row = M!Look(s)]
        BY <1>2, <2>2, <2>3, <2>4, <2>5, <2>6, <2>7 DEF M!paintMain, M!onMain
      <3>2. M!Look(s) \in {"accent", "rainbow"}
        BY DEF M!Look
      <3> HIDE DEF p
      <3> QED BY <2>7, <3>1, <3>2 DEF MainDom, MainPanel
    <2> HIDE DEF p
    <2>9. MainTables(p, s) /\ MainBroad(p, s)
      BY <2>2, <2>3, <2>4, <2>5, <2>6, <2>7, <2>8 DEF MainTables, MainBroad
    <2> QED BY <1>2, <2>1, <2>2, <2>3, <2>4, <2>5, <2>6, <2>7, <2>8, <2>9 DEF p
  <1> QED BY <1>1, <1>2
LEMMA MainPaint ==
  ASSUME NEW d \in MainDom, NEW s \in M!Settings, NEW check \in Progress \cup {None}
  PROVE  LET p == M!paint(d, s, check)
         IN  /\ p \in MainDom /\ p.tabbed = d.tabbed /\ p.page = d.page
             /\ IF s.main /\ d.tabbed THEN MainTables(p, s) /\ MainPanel(p, check) /\ MainBroad(p, s)
                ELSE p.head = d.head /\ p.row = d.row /\ (MainBare(d) => MainBare(p))
  <1> DEFINE t == M!paintTabs(d, s)
             p == M!paintMain(M!enhanceMain(t, s, check), s)
  <1>1. /\ t \in MainDom /\ t.tabbed = d.tabbed /\ t.page = d.page /\ t.head = d.head
        /\ t.row = d.row /\ (MainBare(d) => MainBare(t))
    BY DEF MainDom, M!paintTabs, MainBare
  <1>2. M!paint(d, s, check) = p
    BY DEF M!paint
  <1> HIDE DEF t
  <1>3. /\ p \in MainDom /\ p.tabbed = t.tabbed /\ p.page = t.page /\ p.tabs = t.tabs
        /\ IF s.main /\ t.tabbed THEN MainTables(p, s) /\ MainPanel(p, check) /\ MainBroad(p, s)
           ELSE p = t
    BY <1>1, MainEnhance
  <1> HIDE DEF p
  <1> QED BY <1>1, <1>2, <1>3

LEMMA MainApply ==
  ASSUME NEW d \in MainDom, NEW s \in M!Settings, NEW check \in Progress \cup {None},
         MainUntabbed(d), NEW j, ~M!active(d, s) => j.drag = None
  PROVE  LET p == M!apply(d, s, check)
         IN  p \in MainDom /\ p.tabbed = d.tabbed /\ MainUntabbed(p) /\ MainRight(p, s, j, check)
  <1>1. CASE M!active(d, s)
    <2> DEFINE g == [look |-> M!Look(s), main |-> s.main /\ M!onMain(d)]
               q == [d EXCEPT !.page = g]
               p == M!paint(q, s, check)
    <2>1. M!apply(d, s, check) = p
      BY <1>1 DEF M!apply
    <2>2. g \in [look : {"accent", "rainbow"}, main : BOOLEAN]
      BY DEF M!Look, M!onMain, M!Settings, MainDom
    <2>3. s.main /\ d.tabbed => g = [look |-> M!Look(s), main |-> TRUE]
      BY DEF M!onMain, M!Settings, MainDom
    <2> HIDE DEF g
    <2>4. /\ q \in MainDom /\ q.tabbed = d.tabbed /\ q.page = g /\ q.head = d.head
          /\ q.row = d.row
      BY <2>2 DEF MainDom
    <2> HIDE DEF q
    <2>5. /\ p \in MainDom /\ p.tabbed = q.tabbed /\ p.page = q.page
          /\ IF s.main /\ q.tabbed THEN MainTables(p, s) /\ MainPanel(p, check) /\ MainBroad(p, s)
             ELSE p.head = q.head /\ p.row = q.row
      BY <2>4, MainPaint
    <2> HIDE DEF p
    <2>6. M!active(p, s)
      BY <1>1, <2>4, <2>5 DEF M!active, M!onMain
    <2>7. MainUntabbed(p)
      BY <2>4, <2>5 DEF MainUntabbed
    <2>8. MainRight(p, s, j, check)
      BY <2>3, <2>4, <2>5, <2>6 DEF MainRight
    <2> QED BY <2>1, <2>4, <2>5, <2>7, <2>8
  <1>2. CASE ~M!active(d, s)
    <2> DEFINE p == M!teardown(d)
    <2>1. M!apply(d, s, check) = p
      BY <1>2 DEF M!apply
    <2>2. p \in MainDom /\ MainBare(p) /\ p.tabbed = d.tabbed
      BY MainTeardown
    <2> HIDE DEF p
    <2>3. ~M!active(p, s) /\ ~(s.theming /\ s.main /\ p.tabbed)
      BY <1>2, <2>2 DEF M!active, M!onMain
    <2> QED BY <1>2, <2>1, <2>2, <2>3 DEF MainUntabbed, MainRight, MainBare
  <1> QED BY <1>1, <1>2

\* A page that has just been loaded.
LEMMA MainBooted ==
  ASSUME NEW s \in M!Settings, NEW tabbed \in BOOLEAN, NEW w \in MainWorld
  PROVE  LET b == M!Booted(s, tabbed, w)
         IN  /\ b.dom \in MainDom /\ b.js \in MainJs /\ b.world \in MainWorld
             /\ MainUntabbed(b.dom)
             /\ b.js.running /\ ~b.js.event => MainRight(b.dom, s, b.js, b.world.check)
  <1> DEFINE on == s.main \/ s.shares
             n == M!Native(tabbed)
             d == IF on THEN M!apply(n, s, w.check) ELSE n
             asks == on /\ M!ensureTabbed(n, s, w)
             j == [running |-> on, timer |-> FALSE, event |-> FALSE, drag |-> None,
                   torn |-> FALSE, posting |-> asks]
             v == [w EXCEPT !.tried = @ \/ asks]
  <1>1. M!Booted(s, tabbed, w) = [dom |-> d, js |-> j, world |-> v]
    BY DEF M!Booted
  <1>2. n \in MainDom /\ MainUntabbed(n) /\ n.tabbed = tabbed
    BY DEF MainDom, M!Native, MainUntabbed
  <1>3. on \in BOOLEAN /\ asks \in BOOLEAN
    BY <1>2 DEF M!Settings, M!ensureTabbed, M!active, M!onMain, MainDom, MainWorld
  <1> HIDE DEF n, asks
  <1>4. j \in MainJs /\ j.drag = None /\ j.running = on
    BY <1>3 DEF MainJs
  <1>5. v \in MainWorld /\ v.check = w.check /\ w.check \in Progress \cup {None}
    BY <1>3 DEF MainWorld
  <1> HIDE DEF v, j
  <1>6. d \in MainDom /\ MainUntabbed(d) /\ (on => MainRight(d, s, j, w.check))
    BY <1>2, <1>4, <1>5, MainApply
  <1> HIDE DEF d, on
  <1> QED BY <1>1, <1>4, <1>5, <1>6

LEMMA MainInit == M!Init => MainInv
  <1> SUFFICES ASSUME M!Init PROVE MainInv
    OBVIOUS
  <1> DEFINE w == [check |-> None, tried |-> FALSE, n |-> 0]
  <1>1. w \in MainWorld
    BY MainWords DEF MainWorld
  <1>2. PICK s \in M!Settings, tabbed \in BOOLEAN :
            LET b == M!Booted(s, tabbed, w)
            IN  set = s /\ dom = b.dom /\ js = b.js /\ world = b.world
    BY DEF M!Init
  <1> HIDE DEF w
  <1> QED BY <1>1, <1>2, MainBooted DEF MainInv

\* The memory after a pass.
LEMMA MainPassed ==
  ASSUME NEW j \in MainJs, NEW d, set \in M!Settings
  PROVE  LET k == M!Passed(j, d)
         IN  /\ k \in MainJs /\ k.running = j.running /\ k.event = j.event
             /\ k.drag = j.drag /\ k.posting = j.posting /\ (j.timer => k.timer)
  <1> DEFINE t == j.timer \/ (set.theming /\ M!Nodes(d) # M!Nodes(dom))
             u == j.torn /\ d.cols # set.px
  <1>1. M!Passed(j, d) = [j EXCEPT !.timer = t, !.torn = u]
    BY DEF M!Passed
  <1>2. t \in BOOLEAN /\ u \in BOOLEAN /\ (j.timer => t)
    BY DEF MainJs, M!Settings
  <1> HIDE DEF t, u
  <1> QED BY <1>1, <1>2 DEF MainJs

LEMMA MainStep == MainInv /\ (M!Next \/ UNCHANGED M!vars) => MainInv'
  <1> SUFFICES ASSUME MainInv, M!Next \/ UNCHANGED M!vars PROVE MainInv'
    OBVIOUS
  <1>0. /\ set \in M!Settings /\ dom \in MainDom /\ js \in MainJs /\ world \in MainWorld
        /\ MainUntabbed(dom) /\ world.check \in Progress \cup {None}
    BY DEF MainInv, MainWorld
  <1>1. M!Change => M!Count \in MainWorld /\ M!Count.check = world.check
    <2>1. M!Change => world.n + 1 \in 0..MainChanges
      BY <1>0, MainWords DEF M!Change, MainWorld
    <2> QED BY <1>0, <2>1 DEF M!Count, MainWorld
  <1>2. CASE M!Posted
    <2>1. CASE \E tabbed \in BOOLEAN : M!Load(set, tabbed, world)
      <3>1. PICK tabbed \in BOOLEAN :
                LET b == M!Booted(set, tabbed, world)
                IN  dom' = b.dom /\ js' = b.js /\ world' = b.world
        BY <2>1 DEF M!Load
      <3>2. set' = set
        BY <1>2 DEF M!Posted
      <3> QED BY <1>0, <3>1, <3>2, MainBooted DEF MainInv
    <2>2. CASE js' = [js EXCEPT !.posting = FALSE] /\ UNCHANGED <<dom, world>>
      <3>1. /\ js' \in MainJs
            /\ UNCHANGED <<js.running, js.timer, js.event, js.drag, js.torn>>
        BY <1>0, <2>2 DEF MainJs
      <3>2. set' = set
        BY <1>2 DEF M!Posted
      <3> QED BY <1>0, <2>2, <3>1, <3>2 DEF MainInv, MainRight
    <2> QED BY <1>2, <2>1, <2>2 DEF M!Posted
  <1>3. CASE M!Storage
    <2> DEFINE j == [js EXCEPT !.event = FALSE]
               d == M!apply(dom, set, world.check)
               k == M!Passed(j, d)
               asks == M!ensureTabbed(dom, set, world)
    <2>1. /\ dom' = d
          /\ js' = [k EXCEPT !.drag = IF M!active(dom, set) THEN @ ELSE None,
                             !.posting = @ \/ asks]
          /\ world' = [world EXCEPT !.tried = @ \/ asks]
          /\ UNCHANGED set
      BY <1>3 DEF M!Storage, M!Apply
    <2>2. j \in MainJs
      BY <1>0 DEF MainJs
    <2>3. asks \in BOOLEAN
      BY <1>0 DEF M!ensureTabbed, M!active, M!onMain, M!Settings, MainDom, MainWorld
    <2> HIDE DEF j, asks
    <2>4. k \in MainJs
      BY <1>0, <2>2, MainPassed
    <2> HIDE DEF k
    <2>5. js' \in MainJs /\ (~M!active(dom, set) => js'.drag = None)
      BY <2>1, <2>3, <2>4 DEF MainJs
    <2>6. PICK m \in MainJs : m = js'
      BY <2>5
    <2>7. d \in MainDom /\ MainUntabbed(d) /\ MainRight(d, set, m, world.check)
      BY <1>0, <2>5, <2>6, MainApply
    <2> HIDE DEF d
    <2>8. world' \in MainWorld /\ world'.check = world.check
      BY <1>0, <2>1, <2>3 DEF MainWorld
    <2> QED BY <1>0, <2>1, <2>5, <2>6, <2>7, <2>8 DEF MainInv
  <1>4. CASE M!Pass
    <2> DEFINE j == [js EXCEPT !.timer = FALSE]
    <2>1. /\ dom' = IF set.theming THEN M!paint(dom, set, world.check) ELSE dom
          /\ js' = M!Passed(j, dom') /\ UNCHANGED <<set, world>>
      BY <1>4 DEF M!Pass
    <2>2. /\ j \in MainJs /\ j.running = js.running /\ j.event = js.event
          /\ j.drag = js.drag
      BY <1>0 DEF MainJs
    <2> HIDE DEF j
    <2>3. /\ js' \in MainJs /\ js'.running = js.running /\ js'.event = js.event
          /\ js'.drag = js.drag
      BY <1>0, <2>1, <2>2, MainPassed
    <2>4. /\ dom' \in MainDom /\ dom'.tabbed = dom.tabbed /\ dom'.page = dom.page
          /\ IF set.theming /\ set.main /\ dom.tabbed
             THEN MainTables(dom', set) /\ MainPanel(dom', world.check) /\ MainBroad(dom', set)
             ELSE MainUntabbed(dom') /\ (MainBare(dom) => MainBare(dom'))
      <3>1. CASE set.theming
        BY <1>0, <2>1, <3>1, MainPaint DEF MainUntabbed
      <3>2. CASE ~set.theming
        BY <1>0, <2>1, <3>2
      <3> QED BY <3>1, <3>2
    <2>5. MainUntabbed(dom')
      BY <2>4 DEF MainUntabbed
    <2>6. M!active(dom', set) <=> M!active(dom, set)
      BY <2>4 DEF M!active, M!onMain
    <2>7. MainRight(dom, set, js, world.check) => MainRight(dom', set, js', world.check)
      BY <2>3, <2>4, <2>6 DEF MainRight, M!active, M!onMain
    <2> QED BY <1>0, <2>1, <2>3, <2>4, <2>5, <2>7 DEF MainInv
  <1>5. CASE M!Refill
    <2>1. PICK d \in {[dom EXCEPT !.row = Raw], [dom EXCEPT !.device = Raw]} : dom' = M!watch(d)
      BY <1>5 DEF M!Refill
    <2>2. /\ d \in MainDom /\ d.tabbed = dom.tabbed /\ d.page = dom.page
          /\ d.head = dom.head /\ d.row \in {dom.row, Raw} /\ (MainBare(dom) => MainBare(d))
      BY <1>0, <2>1 DEF MainDom, MainBare
    <2> DEFINE j == [js EXCEPT !.timer = @ \/ M!Observing]
    <2>3. /\ js' = M!Passed(j, dom') /\ world' = M!Count /\ set' = set /\ M!Change
      BY <1>5 DEF M!Refill
    <2>4. /\ j \in MainJs /\ j.running = js.running /\ j.event = js.event
          /\ j.drag = js.drag
      BY <1>0 DEF MainJs, M!Observing, M!Settings
    <2> HIDE DEF j
    <2>5. /\ js' \in MainJs /\ js'.running = js.running /\ js'.event = js.event
          /\ js'.drag = js.drag
      BY <1>0, <2>3, <2>4, MainPassed
    <2>6. /\ dom' \in MainDom /\ dom'.tabbed = dom.tabbed /\ dom'.page = dom.page
          /\ IF M!Observing /\ set.main /\ dom.tabbed
             THEN MainTables(dom', set) /\ MainPanel(dom', world.check) /\ MainBroad(dom', set)
             ELSE dom' = d
      <3>1. CASE M!Observing
        BY <1>0, <2>1, <2>2, <3>1, MainEnhance DEF M!watch
      <3>2. CASE ~M!Observing
        BY <1>0, <2>1, <2>2, <3>2 DEF M!watch
      <3> QED BY <3>1, <3>2
    <2>7. MainUntabbed(dom')
      BY <1>0, <2>2, <2>6 DEF MainUntabbed
    <2>8. M!active(dom', set) <=> M!active(dom, set)
      BY <2>6 DEF M!active, M!onMain
    <2>9. js.running /\ MainRight(dom, set, js, world.check) => MainRight(dom', set, js', world.check)
      BY <2>2, <2>5, <2>6, <2>8 DEF MainRight, M!active, M!onMain, M!Observing
    <2> QED BY <1>0, <1>1, <2>3, <2>5, <2>6, <2>7, <2>9 DEF MainInv
  <1>6. CASE M!ArrayTick
    <2>1. PICK check \in Progress \cup {None} : world' = [M!Count EXCEPT !.check = check]
      BY <1>6 DEF M!ArrayTick
    <2>2. world' \in MainWorld /\ set' = set
      BY <1>6, <1>1, <2>1 DEF M!ArrayTick, MainWorld
    <2>3. /\ js' \in MainJs /\ js'.timer = (js.timer \/ M!Observing)
          /\ UNCHANGED <<js.running, js.event, js.drag, js.torn>>
      BY <1>0, <1>6 DEF M!ArrayTick, MainJs, M!Observing, M!Settings
    <2>4. /\ dom' \in MainDom /\ (MainBare(dom) => MainBare(dom'))
          /\ UNCHANGED <<dom.tabbed, dom.page, dom.heads, dom.diskio, dom.ud, dom.head, dom.row,
                         dom.device, dom.cols>>
      <3> DEFINE q == IF dom.pills = {} THEN {} ELSE {"stale"}
      <3>1. dom' = [dom EXCEPT !.cell = Raw, !.pills = q]
        BY <1>6 DEF M!ArrayTick
      <3>2. q \in SUBSET {"current", "stale"} /\ (dom.pills = {} => q = {})
        OBVIOUS
      <3> HIDE DEF q
      <3> QED BY <1>0, <3>1, <3>2 DEF MainDom, MainBare
    <2>5. M!active(dom', set) <=> M!active(dom, set)
      BY <2>4 DEF M!active, M!onMain
    <2>6. js.running /\ MainRight(dom, set, js, world.check) => MainRight(dom', set, js', world'.check)
      BY <2>3, <2>4, <2>5 DEF MainRight, MainTables, MainBroad, M!Observing
    <2> QED BY <1>0, <2>2, <2>3, <2>4, <2>6 DEF MainInv, MainUntabbed
  <1>7. CASE M!Down \/ M!Move
    <2>1. PICK w \in Widths \cup {"derived"} :
            js' = [js EXCEPT !.drag = w] /\ dom' = [dom EXCEPT !.cols = w]
      <3>1. CASE M!Down
        <4> DEFINE w == IF set.px = None THEN "derived" ELSE set.px
        <4>1. w \in Widths \cup {"derived"}
          BY <1>0 DEF M!Settings
        <4>2. js' = [js EXCEPT !.drag = w] /\ dom' = [dom EXCEPT !.cols = js'.drag]
          BY <3>1 DEF M!Down
        <4> HIDE DEF w
        <4>3. js'.drag = w
          BY <1>0, <4>2 DEF MainJs
        <4> QED BY <4>1, <4>2, <4>3
      <3>2. CASE M!Move
        BY <3>2 DEF M!Move
      <3> QED BY <1>7, <3>1, <3>2
    <2>2. /\ js' \in MainJs /\ js'.drag # None
          /\ UNCHANGED <<js.running, js.timer, js.event, js.torn>>
      BY <1>0, <2>1, MainWords DEF MainJs
    <2>3. /\ dom' \in MainDom
          /\ UNCHANGED <<dom.tabbed, dom.page, dom.heads, dom.diskio, dom.ud, dom.head, dom.row,
                         dom.device, dom.cell, dom.pills, dom.card>>
      BY <1>0, <2>1 DEF MainDom
    <2>4. world' \in MainWorld /\ world'.check = world.check /\ set' = set
      BY <1>0, <1>7, <1>1 DEF M!Down, M!Move
    <2>5. M!active(dom', set) <=> M!active(dom, set)
      BY <2>3 DEF M!active, M!onMain
    <2>6. ~MainBare(dom) \/ js.drag # None
      BY <1>7, MainWords DEF M!Down, M!Move, M!Grip, MainBare
    <2>7. MainRight(dom, set, js, world.check) => MainRight(dom', set, js', world'.check)
      BY <2>2, <2>3, <2>4, <2>5, <2>6 DEF MainRight, MainTables, MainPanel
    <2> QED BY <1>0, <2>2, <2>3, <2>4, <2>7 DEF MainInv, MainUntabbed
  <1>8. CASE M!Up
    <2>1. /\ set' \in M!Settings /\ set'.px = js.drag
          /\ UNCHANGED <<set.theming, set.main, set.shares, set.sections, set.rainbow>>
      BY <1>0, <1>8 DEF M!Up, M!Settings, MainJs
    <2>2. /\ js' \in MainJs /\ js'.torn = (dom.cols # js.drag)
          /\ UNCHANGED <<js.running, js.timer, js.event>>
      BY <1>0, <1>8 DEF M!Up, MainJs
    <2>3. js.drag # None /\ UNCHANGED <<dom, world>>
      BY <1>8 DEF M!Up
    <2>4. M!active(dom, set') <=> M!active(dom, set)
      BY <2>1 DEF M!active
    <2>5. MainRight(dom, set, js, world.check) => MainRight(dom, set', js', world.check)
      BY <2>1, <2>2, <2>3, <2>4 DEF MainRight, MainTables, MainBroad, M!Look
    <2> QED BY <1>0, <2>1, <2>2, <2>3, <2>5 DEF MainInv
  <1>9. CASE M!ResetWidths
    <2>1. /\ set' \in M!Settings /\ set'.px = None
          /\ UNCHANGED <<set.theming, set.main, set.shares, set.sections, set.rainbow>>
      BY <1>0, <1>9 DEF M!ResetWidths, M!Settings
    <2>2. /\ js' \in MainJs
          /\ UNCHANGED <<js.running, js.timer, js.event, js.drag>>
      BY <1>0, <1>9 DEF M!ResetWidths, MainJs
    <2>3. /\ dom' \in MainDom
          /\ UNCHANGED <<dom.tabbed, dom.page, dom.heads, dom.diskio, dom.ud, dom.head, dom.row,
                         dom.device, dom.cell, dom.pills, dom.card>>
      BY <1>0, <1>9 DEF M!ResetWidths, MainDom
    <2>4. ~MainBare(dom) /\ UNCHANGED world
      BY <1>9, MainWords DEF M!ResetWidths, M!Grip, MainBare
    <2>5. M!active(dom', set') <=> M!active(dom, set)
      BY <2>1, <2>3 DEF M!active, M!onMain
    <2>6. MainRight(dom, set, js, world.check) => MainRight(dom', set', js', world.check)
      BY <2>1, <2>2, <2>3, <2>4, <2>5 DEF MainRight, MainTables, MainPanel, MainBroad, M!Look
    <2> QED BY <1>0, <2>1, <2>2, <2>3, <2>4, <2>6 DEF MainInv, MainUntabbed
  <1>10. CASE M!ChangeSetting
    <2>1. set' \in M!Settings
      <3>1. \/ set' = [set EXCEPT !.theming = ~@] \/ set' = [set EXCEPT !.main = ~@]
            \/ set' = [set EXCEPT !.shares = ~@] \/ set' = [set EXCEPT !.sections = ~@]
            \/ set' = [set EXCEPT !.rainbow = ~@] \/ set' = [set EXCEPT !.px = None]
            \/ \E w \in Widths : set' = [set EXCEPT !.px = w]
        BY <1>10 DEF M!ChangeSetting
      <3> QED BY <1>0, <3>1 DEF M!Settings
    <2>2. js' \in MainJs /\ js'.event = js.running /\ js'.running = js.running
      BY <1>0, <1>10 DEF M!ChangeSetting, MainJs
    <2> QED BY <1>0, <1>10, <1>1, <2>1, <2>2 DEF M!ChangeSetting, MainInv
  <1>11. CASE UNCHANGED M!vars
    BY <1>11 DEF M!vars, MainInv
  <1> QED BY <1>2, <1>3, <1>4, <1>5, <1>6, <1>7, <1>8, <1>9, <1>10, <1>11 DEF M!Next

LEMMA MainSafe == MainInv => M!TypeOK /\ M!LooksAsSet /\ M!IsWhole
  <1> SUFFICES ASSUME MainInv PROVE M!TypeOK /\ M!LooksAsSet /\ M!IsWhole
    OBVIOUS
  <1>1. M!TypeOK
    BY DEF MainInv, MainDom, MainJs, MainWorld, M!TypeOK
  <1>2. MainBare(dom) => [dom EXCEPT !.tabs = Raw] = M!Native(dom.tabbed)
    <2> DEFINE q == [dom EXCEPT !.tabs = Raw]
    <2>1. q \in MainDom /\ q.tabs = Raw /\ q.tabbed = dom.tabbed /\ (MainBare(dom) => MainBare(q))
      BY DEF MainInv, MainDom, MainBare
    <2> HIDE DEF q
    <2>2. q = [tabbed |-> q.tabbed, page |-> q.page, tabs |-> q.tabs, heads |-> q.heads,
               diskio |-> q.diskio, ud |-> q.ud, head |-> q.head, row |-> q.row,
               device |-> q.device, cols |-> q.cols, cell |-> q.cell, pills |-> q.pills,
               card |-> q.card]
      BY <2>1 DEF MainDom
    <2>3. MainBare(q) => q.heads = FALSE
      BY <2>1 DEF MainBare, MainDom
    <2>4. MainBare(q) => q = M!Native(q.tabbed)
      BY <2>1, <2>2, <2>3 DEF MainBare, M!Native
    <2> QED BY <2>1, <2>4 DEF q
  <1>3. M!LooksAsSet
    BY <1>2 DEF MainInv, MainRight, MainTables, MainPanel, MainBroad, M!LooksAsSet, M!Calm, M!Enhanced, M!onMain
  <1>4. M!IsWhole
    <2>1. "gone" \notin {dom.diskio, dom.ud}
      BY DEF MainInv, MainDom
    <2>2. ASSUME js.running, ~js.event, set.main \/ ~set.shares
          PROVE  dom.head = Raw <=> dom.row = Raw
      <3>1. CASE ~dom.tabbed
        BY <3>1 DEF MainInv, MainUntabbed
      <3>2. CASE dom.tabbed /\ M!active(dom, set)
        <4>1. MainTables(dom, set)
          BY <2>2, <3>2 DEF MainInv, MainRight, M!active
        <4> QED BY <4>1, MainWords DEF MainTables, M!Look
      <3>3. CASE ~M!active(dom, set)
        BY <2>2, <3>3 DEF MainInv, MainRight, MainBare
      <3> QED BY <3>1, <3>2, <3>3
    <2> QED BY <2>1, <2>2 DEF M!IsWhole
  <1> QED BY <1>1, <1>3, <1>4

-----------------------------------------------------------------------------
(* The top of every page *)

HeadDom ==
    [cls : SUBSET H!Classes, nav : [H!Items -> {"absent", "none", "hover", "full"}],
     tips : [H!Icons -> {"title", "bubble"}],
     island : [foot : Readings, profile : BOOLEAN, live : Feeds \cup {None}] \cup {None},
     brand : BOOLEAN, profile : [up : BOOLEAN, docked : BOOLEAN, bell : BOOLEAN],
     search : BOOLEAN, order : BOOLEAN]

HeadJs == [event : BOOLEAN, menuT : BOOLEAN, profT : BOOLEAN, observing : BOOLEAN,
           subs : BOOLEAN, live : Feeds \cup {None}]

HeadWorld == [changes : 0..HeaderChanges, foot : Readings]

\* What LooksAsSet asks, by what has to be at rest for it: that there is no event to come
\* (the first four), nor a pass of the menu, nor one of the profile.
HeadSwitched(d, s) ==
    /\ H!on(d) <=> H!live(s)
    /\ "popups-on" \in d.cls <=> s.theming
    /\ d.brand <=> H!live(s)
    /\ ~H!live(s) => ~d.profile.docked

HeadNeutral(d, s) == "rbneutral" \in d.cls <=> (H!live(s) /\ H!rbNeutral(s))

HeadTitled(d, s) == ~s.theming => \A i \in H!Icons : d.tips[i] = "title"

HeadListening(j, s) == /\ j.subs <=> H!ccIslandOn(s)
                       /\ H!live(s) => j.observing

HeadPainted(d, s) ==
    \A i \in H!Items : d.nav[i] \in
        {"absent", IF ~H!live(s) \/ ~H!rbOn(s) THEN "none"
                   ELSE IF H!rbNeutral(s) /\ i # "active" THEN "hover" ELSE "full"}

HeadMirrors(d, s, j, w) == d.island = IF H!ccIslandOn(s) THEN H!Shown(d, j, w) ELSE None

HeadDocked(d, s) == (H!live(s) /\ d.profile.up /\ ~d.search) =>
                        d.profile.docked /\ d.profile.bell = ~s.hideBell

HeadInv ==
    /\ set \in H!Settings /\ dom \in HeadDom /\ js \in HeadJs /\ world \in HeadWorld
    /\ js.profT => js.observing
    /\ ~js.menuT => ("search-open" \in dom.cls <=> dom.search)
    /\ ~js.event => /\ HeadSwitched(dom, set) /\ HeadNeutral(dom, set) /\ HeadTitled(dom, set)
                    /\ HeadListening(js, set)
    /\ ~js.event /\ ~js.menuT => HeadPainted(dom, set)
    /\ ~js.event /\ ~js.profT => HeadMirrors(dom, set, js, world)
    /\ ~js.event /\ ~js.menuT /\ ~js.profT => HeadDocked(dom, set)

\* What each part leaves alone, and what it puts in place.
LEMMA HeadNav ==
  ASSUME NEW d \in HeadDom, NEW s \in H!Settings
  PROVE  LET p == H!paintNav(d, s)
         IN  /\ p \in HeadDom
             /\ \A c \in H!Classes \ {"rbneutral"} : c \in p.cls <=> c \in d.cls
             /\ p.tips = d.tips /\ p.island = d.island /\ p.brand = d.brand
             /\ p.profile = d.profile /\ p.search = d.search
             /\ (H!on(d) <=> H!live(s)) => HeadNeutral(p, s) /\ HeadPainted(p, s)
  <1> DEFINE rb == H!rbOn(s) /\ H!on(d)
             neutral == rb /\ H!rbNeutral(s)
             paint(i) == IF ~rb THEN "none" ELSE IF ~neutral \/ i = "active" THEN "full" ELSE "hover"
             nav == [i \in H!Items |-> IF d.nav[i] = "absent" THEN "absent" ELSE paint(i)]
             cls == (d.cls \ {"rbneutral"}) \cup (IF neutral THEN {"rbneutral"} ELSE {})
             p == [d EXCEPT !.cls = cls, !.nav = nav]
  <1>1. H!paintNav(d, s) = p
    BY DEF H!paintNav
  <1>2. nav \in [H!Items -> {"absent", "none", "hover", "full"}]
    OBVIOUS
  <1>3. cls \in SUBSET H!Classes
    BY DEF HeadDom, H!Classes
  <1>4. \A i \in H!Items : nav[i] \in {"absent", paint(i)}
    OBVIOUS
  <1> HIDE DEF nav, cls
  <1>5. /\ p \in HeadDom /\ p.nav = nav /\ p.cls = cls /\ p.tips = d.tips /\ p.island = d.island
        /\ p.brand = d.brand /\ p.profile = d.profile /\ p.search = d.search
    BY <1>2, <1>3 DEF HeadDom
  <1> HIDE DEF p
  <1>6. H!rbNeutral(s) => H!rbOn(s)
    BY DEF H!rbNeutral, H!rbOn
  <1>7. (H!on(d) <=> H!live(s)) => HeadNeutral(p, s)
    BY <1>5, <1>6 DEF HeadNeutral, cls
  <1>8. (H!on(d) <=> H!live(s)) => HeadPainted(p, s)
    BY <1>4, <1>5, <1>6 DEF HeadPainted
  <1>9. \A c \in H!Classes \ {"rbneutral"} : c \in p.cls <=> c \in d.cls
    BY <1>5 DEF cls
  <1> QED BY <1>1, <1>5, <1>7, <1>8, <1>9

LEMMA HeadIsland ==
  ASSUME NEW d \in HeadDom, NEW s \in H!Settings, NEW j \in HeadJs, NEW w \in HeadWorld
  PROVE  LET p == H!ccIsland(d, s, j, w)
         IN  /\ p \in HeadDom /\ HeadMirrors(p, s, j, w)
             /\ p.cls = d.cls /\ p.nav = d.nav /\ p.tips = d.tips /\ p.brand = d.brand
             /\ p.profile = d.profile /\ p.search = d.search
  <1> DEFINE v == IF H!ccIslandOn(s) THEN H!Shown(d, j, w) ELSE None
             p == [d EXCEPT !.island = v]
  <1>1. H!ccIsland(d, s, j, w) = p
    BY DEF H!ccIsland
  <1>2. v \in [foot : Readings, profile : BOOLEAN, live : Feeds \cup {None}] \cup {None}
    BY DEF H!Shown, HeadDom, HeadJs, HeadWorld
  <1>3. H!Shown(d, j, w) = [foot |-> w.foot, profile |-> d.profile.up, live |-> j.live]
    BY DEF H!Shown
  <1> HIDE DEF v
  <1>4. /\ p \in HeadDom /\ p.island = v /\ p.cls = d.cls /\ p.nav = d.nav /\ p.tips = d.tips
        /\ p.brand = d.brand /\ p.profile = d.profile /\ p.search = d.search
    BY <1>2 DEF HeadDom
  <1> HIDE DEF p
  <1>5. H!Shown(p, j, w) = H!Shown(d, j, w)
    BY <1>4 DEF H!Shown
  <1> QED BY <1>1, <1>4, <1>5 DEF HeadMirrors, v

LEMMA HeadFeeds ==
  ASSUME NEW j \in HeadJs, NEW s \in H!Settings
  PROVE  LET k == H!ccStartStopLive(j, s)
         IN  /\ k \in HeadJs /\ (k.subs <=> H!ccIslandOn(s)) /\ k.event = j.event
             /\ k.menuT = j.menuT /\ k.profT = j.profT /\ k.observing = j.observing
             /\ k.live = IF H!ccIslandOn(s) THEN j.live ELSE None
  BY DEF H!ccStartStopLive, HeadJs

LEMMA HeadBrand ==
  ASSUME NEW d \in HeadDom, NEW s \in H!Settings
  PROVE  LET p == H!ccBrand(d, s)
         IN  /\ p \in HeadDom /\ p.brand = H!live(s)
             /\ p.cls = d.cls /\ p.nav = d.nav /\ p.tips = d.tips /\ p.island = d.island
             /\ p.profile = d.profile /\ p.search = d.search
  BY DEF H!ccBrand, HeadDom, H!live, H!Settings

LEMMA HeadDock ==
  ASSUME NEW d \in HeadDom, NEW s \in H!Settings
  PROVE  LET p == H!ccDockProfile(d, s)
         IN  /\ p \in HeadDom
             /\ p.cls = d.cls /\ p.nav = d.nav /\ p.tips = d.tips /\ p.island = d.island
             /\ p.brand = d.brand /\ p.search = d.search /\ p.profile.up = d.profile.up
             /\ ~H!on(d) => ~p.profile.docked
             /\ (H!on(d) /\ d.profile.up /\ ~d.search) =>
                    p.profile.docked /\ p.profile.bell = ~s.hideBell
  <1>1. PICK q \in [up : BOOLEAN, docked : BOOLEAN, bell : BOOLEAN] :
            /\ H!ccDockProfile(d, s) = [d EXCEPT !.profile = q]
            /\ q.up = d.profile.up
            /\ ~H!on(d) => ~q.docked
            /\ (H!on(d) /\ d.profile.up /\ ~d.search) => q.docked /\ q.bell = ~s.hideBell
    <2>1. CASE ~H!on(d)
      <3> DEFINE q == [d.profile EXCEPT !.docked = FALSE]
      <3>1. q \in [up : BOOLEAN, docked : BOOLEAN, bell : BOOLEAN] /\ q.up = d.profile.up
            /\ ~q.docked
        BY DEF HeadDom
      <3>2. H!ccDockProfile(d, s) = [d EXCEPT !.profile = q]
        BY <2>1 DEF H!ccDockProfile, H!ccUndockProfile
      <3> HIDE DEF q
      <3> QED BY <2>1, <3>1, <3>2
    <2>2. CASE H!on(d) /\ (~d.profile.up \/ d.search)
      <3>1. H!ccDockProfile(d, s) = [d EXCEPT !.profile = d.profile]
        BY <2>2 DEF H!ccDockProfile, HeadDom
      <3> QED BY <2>2, <3>1 DEF HeadDom
    <2>3. CASE H!on(d) /\ d.profile.up /\ ~d.search
      <3> DEFINE q == [d.profile EXCEPT !.docked = TRUE, !.bell = ~s.hideBell]
      <3>1. q \in [up : BOOLEAN, docked : BOOLEAN, bell : BOOLEAN] /\ q.up = d.profile.up
            /\ q.docked /\ q.bell = ~s.hideBell
        BY DEF HeadDom, H!Settings
      <3>2. H!ccDockProfile(d, s) = [d EXCEPT !.profile = q]
        BY <2>3 DEF H!ccDockProfile
      <3> HIDE DEF q
      <3> QED BY <2>3, <3>1, <3>2
    <2> QED BY <2>1, <2>2, <2>3
  <1> QED BY <1>1 DEF HeadDom

\* Everything at once: the page after apply, whatever it was.
LEMMA HeadPage ==
  ASSUME NEW d \in HeadDom, NEW s \in H!Settings, NEW j \in HeadJs, NEW w \in HeadWorld
  PROVE  LET p == H!applyPage(d, s, j, w)
         IN  /\ p \in HeadDom
             /\ HeadSwitched(p, s) /\ HeadNeutral(p, s) /\ HeadTitled(p, s) /\ HeadPainted(p, s)
             /\ HeadMirrors(p, s, H!ccStartStopLive(j, s), w) /\ HeadDocked(p, s)
             /\ p.search = d.search /\ ("search-open" \in p.cls <=> "search-open" \in d.cls)
  <1> DEFINE r == H!rootClasses(d, s)
             k == H!ccStartStopLive(j, s)
             shown(p) == H!ccBrand(H!ccIsland(p, s, k, w), s)
  <1>1. /\ r \in HeadDom /\ (H!on(r) <=> H!live(s)) /\ ("popups-on" \in r.cls <=> s.theming)
        /\ "search-open" \in r.cls <=> "search-open" \in d.cls
        /\ r.tips = d.tips /\ r.search = d.search
    BY DEF HeadDom, H!rootClasses, H!on, H!Classes, H!live, H!Settings
  <1>2. k \in HeadJs
    BY HeadFeeds
  <1>3. H!applyPage(d, s, j, w) =
            IF ~H!live(s) THEN H!ccUndockProfile(H!Titles(shown(H!paintNav(r, s))))
            ELSE H!ccDockProfile(shown(H!paintNav(H!headerVars(H!Bubbles(r), s), s)), s)
    BY DEF H!applyPage
  <1> HIDE DEF r, k
  <1>4. ASSUME NEW q \in HeadDom, H!on(q) <=> H!live(s)
        PROVE  LET p == shown(H!paintNav(q, s))
               IN  /\ p \in HeadDom /\ HeadNeutral(p, s) /\ HeadPainted(p, s) /\ HeadMirrors(p, s, k, w)
                   /\ p.brand = H!live(s) /\ p.search = q.search /\ p.tips = q.tips
                   /\ p.profile = q.profile
                   /\ \A c \in H!Classes \ {"rbneutral"} : c \in p.cls <=> c \in q.cls
    <2> DEFINE n == H!paintNav(q, s)
               i == H!ccIsland(n, s, k, w)
               p == H!ccBrand(i, s)
    <2>1. /\ n \in HeadDom /\ HeadNeutral(n, s) /\ HeadPainted(n, s) /\ n.tips = q.tips
          /\ n.search = q.search /\ n.profile = q.profile
          /\ \A c \in H!Classes \ {"rbneutral"} : c \in n.cls <=> c \in q.cls
      BY <1>4, HeadNav
    <2> HIDE DEF n
    <2>2. /\ i \in HeadDom /\ HeadMirrors(i, s, k, w) /\ i.cls = n.cls /\ i.nav = n.nav
          /\ i.tips = n.tips /\ i.profile = n.profile /\ i.search = n.search
      BY <1>2, <2>1, HeadIsland
    <2> HIDE DEF i
    <2>3. /\ p \in HeadDom /\ p.brand = H!live(s) /\ p.cls = i.cls /\ p.nav = i.nav
          /\ p.tips = i.tips /\ p.island = i.island /\ p.profile = i.profile
          /\ p.search = i.search
      BY <2>2, HeadBrand
    <2>4. p = shown(H!paintNav(q, s))
      BY DEF n, i
    <2> HIDE DEF p
    <2>5. HeadNeutral(p, s) /\ HeadPainted(p, s) /\ HeadMirrors(p, s, k, w)
      BY <2>1, <2>2, <2>3 DEF HeadNeutral, HeadPainted, HeadMirrors, H!Shown
    <2> HIDE DEF shown
    <2> QED BY <2>1, <2>2, <2>3, <2>4, <2>5
  <1>5. CASE ~H!live(s)
    <2> DEFINE p == shown(H!paintNav(r, s))
               t == H!Titles(p)
               u == H!ccUndockProfile(t)
    <2>1. /\ p \in HeadDom /\ HeadNeutral(p, s) /\ HeadPainted(p, s) /\ HeadMirrors(p, s, k, w)
          /\ p.brand = H!live(s) /\ p.search = r.search
          /\ \A c \in H!Classes \ {"rbneutral"} : c \in p.cls <=> c \in r.cls
      BY <1>1, <1>4
    <2>2. H!applyPage(d, s, j, w) = u
      BY <1>3, <1>5
    <2> HIDE DEF p
    <2>3. /\ t \in HeadDom /\ \A i \in H!Icons : t.tips[i] = "title"
          /\ t.cls = p.cls /\ t.nav = p.nav /\ t.island = p.island /\ t.brand = p.brand
          /\ t.search = p.search /\ t.profile = p.profile
      <3> DEFINE q == [i \in H!Icons |-> "title"]
      <3>1. q \in [H!Icons -> {"title", "bubble"}] /\ \A i \in H!Icons : q[i] = "title"
        OBVIOUS
      <3>2. t = [p EXCEPT !.tips = q]
        BY DEF H!Titles
      <3> HIDE DEF q, t
      <3> QED BY <2>1, <3>1, <3>2 DEF HeadDom
    <2> HIDE DEF t
    <2>4. /\ u \in HeadDom /\ ~u.profile.docked /\ u.profile.up = t.profile.up
          /\ u.cls = t.cls /\ u.nav = t.nav /\ u.island = t.island /\ u.brand = t.brand
          /\ u.search = t.search /\ u.tips = t.tips
      <3> DEFINE q == [t.profile EXCEPT !.docked = FALSE]
      <3>1. q \in [up : BOOLEAN, docked : BOOLEAN, bell : BOOLEAN] /\ q.up = t.profile.up
            /\ ~q.docked
        BY <2>3 DEF HeadDom
      <3>2. u = [t EXCEPT !.profile = q]
        BY <2>3 DEF H!ccUndockProfile, HeadDom
      <3> HIDE DEF q, u
      <3> QED BY <2>3, <3>1, <3>2 DEF HeadDom
    <2> HIDE DEF u
    <2>5. HeadSwitched(u, s)
      BY <1>1, <1>5, <2>1, <2>3, <2>4 DEF HeadSwitched, H!on, H!Classes
    <2>6. HeadNeutral(u, s) /\ HeadPainted(u, s) /\ HeadMirrors(u, s, k, w) /\ HeadTitled(u, s) /\ HeadDocked(u, s)
      BY <1>5, <2>1, <2>3, <2>4 DEF HeadNeutral, HeadPainted, HeadMirrors, HeadTitled, HeadDocked, H!Shown
    <2>7. "search-open" \in u.cls <=> "search-open" \in d.cls
      BY <1>1, <2>1, <2>3, <2>4 DEF H!Classes
    <2> QED BY <1>1, <2>1, <2>2, <2>3, <2>4, <2>5, <2>6, <2>7 DEF k
  <1>6. CASE H!live(s)
    <2> DEFINE b == H!Bubbles(r)
               v == H!headerVars(b, s)
               p == shown(H!paintNav(v, s))
               u == H!ccDockProfile(p, s)
    <2>1. H!applyPage(d, s, j, w) = u
      BY <1>3, <1>6
    <2>2. b \in HeadDom /\ b.cls = r.cls /\ b.search = r.search
      <3> DEFINE q == [i \in H!Icons |-> "bubble"]
      <3>1. q \in [H!Icons -> {"title", "bubble"}]
        OBVIOUS
      <3>2. b = [r EXCEPT !.tips = q]
        BY DEF H!Bubbles
      <3> HIDE DEF q, b
      <3> QED BY <1>1, <3>1, <3>2 DEF HeadDom
    <2> HIDE DEF b
    <2>3. /\ v \in HeadDom /\ v.search = b.search
          /\ \A c \in H!Classes \ {"header-rb"} : c \in v.cls <=> c \in b.cls
      BY <2>2 DEF HeadDom, H!headerVars, H!Classes
    <2> HIDE DEF v
    <2>4. H!on(v) <=> H!live(s)
      BY <1>1, <2>2, <2>3 DEF H!on, H!Classes
    <2>5. /\ p \in HeadDom /\ HeadNeutral(p, s) /\ HeadPainted(p, s) /\ HeadMirrors(p, s, k, w)
          /\ p.brand = H!live(s) /\ p.search = v.search
          /\ \A c \in H!Classes \ {"rbneutral"} : c \in p.cls <=> c \in v.cls
      BY <1>4, <2>3, <2>4
    <2> HIDE DEF p
    <2>6. H!on(p)
      BY <1>6, <2>4, <2>5 DEF H!on, H!Classes
    <2>7. /\ u \in HeadDom
          /\ u.cls = p.cls /\ u.nav = p.nav /\ u.tips = p.tips /\ u.island = p.island
          /\ u.brand = p.brand /\ u.search = p.search /\ u.profile.up = p.profile.up
          /\ (p.profile.up /\ ~p.search) => u.profile.docked /\ u.profile.bell = ~s.hideBell
      BY <2>5, <2>6, HeadDock
    <2> HIDE DEF u
    <2>8. HeadSwitched(u, s) /\ HeadTitled(u, s)
      BY <1>1, <1>6, <2>2, <2>3, <2>5, <2>6, <2>7 DEF HeadSwitched, HeadTitled, H!on, H!Classes, H!live
    <2>9. HeadNeutral(u, s) /\ HeadPainted(u, s) /\ HeadMirrors(u, s, k, w) /\ HeadDocked(u, s)
      BY <1>6, <2>5, <2>7 DEF HeadNeutral, HeadPainted, HeadMirrors, HeadDocked, H!Shown
    <2>10. "search-open" \in u.cls <=> "search-open" \in d.cls
      BY <1>1, <2>2, <2>3, <2>5, <2>7 DEF H!Classes
    <2> QED BY <1>1, <2>1, <2>2, <2>3, <2>5, <2>7, <2>8, <2>9, <2>10 DEF k
  <1> QED BY <1>5, <1>6
LEMMA HeadScript ==
  ASSUME NEW j \in HeadJs, NEW s \in H!Settings
  PROVE  LET k == H!applyScript(j, s)
         IN  /\ k \in HeadJs /\ HeadListening(k, s) /\ k.event = j.event
             /\ k.menuT = j.menuT /\ k.profT = j.profT /\ (j.observing => k.observing)
             /\ k.live = IF H!ccIslandOn(s) THEN j.live ELSE None
  <1> DEFINE c == H!ccStartStopLive(j, s)
             k == [c EXCEPT !.observing = @ \/ H!live(s)]
  <1>1. k = H!applyScript(j, s)
    BY DEF H!applyScript
  <1>2. /\ c \in HeadJs /\ (c.subs <=> H!ccIslandOn(s)) /\ c.event = j.event
        /\ c.menuT = j.menuT /\ c.profT = j.profT /\ c.observing = j.observing
        /\ c.live = IF H!ccIslandOn(s) THEN j.live ELSE None
    BY HeadFeeds
  <1> HIDE DEF c
  <1>3. /\ k \in HeadJs /\ k.subs = c.subs /\ k.event = c.event /\ k.menuT = c.menuT
        /\ k.profT = c.profT /\ k.live = c.live /\ (H!live(s) \/ c.observing => k.observing)
    BY <1>2 DEF HeadJs, H!live, H!Settings
  <1> HIDE DEF k
  <1> QED BY <1>1, <1>2, <1>3 DEF HeadListening

LEMMA HeadInit == H!Init => HeadInv
  <1> SUFFICES ASSUME H!Init PROVE HeadInv
    OBVIOUS
  <1>1. set \in H!Settings /\ world \in HeadWorld
    BY BoundsAssumption DEF H!Init, HeadWorld
  <1>2. /\ H!Blank \in HeadDom /\ ~H!Blank.search /\ "search-open" \notin H!Blank.cls
    <2> DEFINE nav  == [i \in H!Items |-> IF i = "late" THEN "absent" ELSE "none"]
               tips == [i \in H!Icons |-> "title"]
    <2>1. /\ nav \in [H!Items -> {"absent", "none", "hover", "full"}]
          /\ tips \in [H!Icons -> {"title", "bubble"}]
      OBVIOUS
    <2>2. H!Blank = [cls |-> {}, nav |-> nav, tips |-> tips, island |-> None, brand |-> FALSE,
                     profile |-> [up |-> FALSE, docked |-> FALSE, bell |-> TRUE],
                     search |-> FALSE, order |-> FALSE]
      BY DEF H!Blank
    <2> HIDE DEF nav, tips
    <2> QED BY <2>1, <2>2 DEF HeadDom
  <1>3. H!Asleep \in HeadJs /\ ~H!Asleep.event /\ ~H!Asleep.menuT /\ ~H!Asleep.profT
    BY DEF H!Asleep, HeadJs
  <1>4. dom = H!applyPage(H!Blank, set, H!Asleep, world) /\ js = H!applyScript(H!Asleep, set)
    BY DEF H!Init
  <1>5. /\ dom \in HeadDom
        /\ HeadSwitched(dom, set) /\ HeadNeutral(dom, set) /\ HeadTitled(dom, set) /\ HeadPainted(dom, set)
        /\ HeadMirrors(dom, set, H!ccStartStopLive(H!Asleep, set), world) /\ HeadDocked(dom, set)
        /\ dom.search = H!Blank.search
        /\ "search-open" \in dom.cls <=> "search-open" \in H!Blank.cls
    BY <1>1, <1>2, <1>3, <1>4, HeadPage
  <1>6. /\ js \in HeadJs /\ HeadListening(js, set) /\ ~js.profT
        /\ js.live = IF H!ccIslandOn(set) THEN H!Asleep.live ELSE None
    BY <1>1, <1>3, <1>4, HeadScript
  <1>7. HeadMirrors(dom, set, js, world)
    BY <1>1, <1>3, <1>5, <1>6, HeadFeeds DEF HeadMirrors, H!Shown
  <1> QED BY <1>1, <1>2, <1>5, <1>6, <1>7 DEF HeadInv

LEMMA HeadStep == HeadInv /\ (H!Next \/ UNCHANGED H!vars) => HeadInv'
  <1> SUFFICES ASSUME HeadInv, H!Next \/ UNCHANGED H!vars PROVE HeadInv'
    OBVIOUS
  <1>0. set \in H!Settings /\ dom \in HeadDom /\ js \in HeadJs /\ world \in HeadWorld
    BY DEF HeadInv
  <1>1. CASE H!ChangeSetting
    <2>1. set' \in H!Settings
      <3>1. \/ set' = [set EXCEPT !.area = ~@] \/ set' = [set EXCEPT !.theming = ~@]
            \/ set' = [set EXCEPT !.island = ~@] \/ set' = [set EXCEPT !.hideBell = ~@]
            \/ \E c \in HeaderColours : set' = [set EXCEPT !.colour = c]
        BY <1>1 DEF H!ChangeSetting
      <3> QED BY <1>0, <3>1 DEF H!Settings
    <2>2. /\ js' \in HeadJs /\ js'.event /\ js'.menuT = js.menuT
          /\ js'.profT = js.profT /\ js'.observing = js.observing
      BY <1>0, <1>1 DEF H!ChangeSetting, HeadJs
    <2>3. world' \in HeadWorld
      BY <1>0, <1>1, BoundsAssumption DEF H!ChangeSetting, HeadWorld
    <2> QED BY <1>1, <2>1, <2>2, <2>3 DEF H!ChangeSetting, HeadInv
  <1>2. CASE H!Storage
    <2> DEFINE j == [js EXCEPT !.event = FALSE]
    <2>1. /\ j \in HeadJs /\ ~j.event /\ j.menuT = js.menuT /\ j.live = js.live
          /\ j.profT = js.profT /\ j.observing = js.observing
      BY <1>0 DEF HeadJs
    <2>2. /\ dom' = H!applyPage(dom, set, js, world) /\ js' = H!applyScript(j, set)
          /\ UNCHANGED <<set, world>>
      BY <1>2 DEF H!Storage
    <2> HIDE DEF j
    <2>3. /\ dom' \in HeadDom
          /\ HeadSwitched(dom', set) /\ HeadNeutral(dom', set) /\ HeadTitled(dom', set) /\ HeadPainted(dom', set)
          /\ HeadMirrors(dom', set, H!ccStartStopLive(js, set), world) /\ HeadDocked(dom', set)
          /\ dom'.search = dom.search
          /\ "search-open" \in dom'.cls <=> "search-open" \in dom.cls
      BY <1>0, <2>2, HeadPage
    <2>4. /\ js' \in HeadJs /\ HeadListening(js', set) /\ js'.menuT = js.menuT
          /\ js'.profT = js.profT /\ (js.observing => js'.observing)
          /\ js'.live = IF H!ccIslandOn(set) THEN js.live ELSE None
      BY <1>0, <2>1, <2>2, HeadScript
    <2>5. HeadMirrors(dom', set, js', world)
      BY <1>0, <2>3, <2>4, HeadFeeds DEF HeadMirrors, H!Shown
    <2>6. ~js'.menuT => ("search-open" \in dom'.cls <=> dom'.search)
      BY <2>3, <2>4 DEF HeadInv
    <2> QED BY <1>0, <2>2, <2>3, <2>4, <2>5, <2>6 DEF HeadInv
  <1>3. CASE H!FooterChanges
    <2>1. world' \in HeadWorld /\ set' = set
      BY <1>0, <1>3 DEF H!FooterChanges, HeadWorld
    <2>2. CASE ~js.observing
      <3>1. dom' = dom /\ js' = js
        BY <1>3, <2>2 DEF H!FooterChanges
      <3>2. ~js.event => ~H!live(set)
        BY <2>2 DEF HeadInv, HeadListening
      <3>3. ~H!live(set) => ~H!ccIslandOn(set)
        BY DEF H!ccIslandOn
      <3> QED BY <1>0, <2>1, <3>1, <3>2, <3>3 DEF HeadInv, HeadMirrors
    <2>3. CASE js.observing
      <3>1. /\ dom' = H!ccIsland(dom, set, H!ccStartStopLive(js, set), world')
            /\ js' = H!ccStartStopLive(js, set)
        BY <1>3, <2>3 DEF H!FooterChanges
      <3>2. /\ js' \in HeadJs /\ (js'.subs <=> H!ccIslandOn(set))
            /\ UNCHANGED <<js.event, js.menuT, js.profT, js.observing>>
        BY <1>0, <3>1, HeadFeeds
      <3>3. /\ dom' \in HeadDom /\ HeadMirrors(dom', set, js', world')
            /\ UNCHANGED <<dom.cls, dom.nav, dom.tips, dom.brand, dom.profile, dom.search>>
        BY <1>0, <2>1, <3>1, <3>2, HeadIsland
      <3> QED BY <1>0, <2>1, <3>2, <3>3
              DEF HeadInv, HeadSwitched, HeadNeutral, HeadTitled, HeadListening, HeadPainted, HeadDocked, H!on
    <2> QED BY <2>2, <2>3
  <1>4. CASE H!LiveMessage
    <2>1. PICK v \in Feeds : js' = H!ccStartStopLive([js EXCEPT !.live = v], set)
      BY <1>4 DEF H!LiveMessage
    <2> DEFINE j == [js EXCEPT !.live = v]
    <2>2. /\ j \in HeadJs /\ j.event = js.event /\ j.menuT = js.menuT /\ j.profT = js.profT
          /\ j.observing = js.observing
      BY <1>0 DEF HeadJs
    <2>3. js' = H!ccStartStopLive(j, set)
      BY <2>1
    <2> HIDE DEF j
    <2>4. /\ js' \in HeadJs /\ (js'.subs <=> H!ccIslandOn(set))
          /\ UNCHANGED <<js.event, js.menuT, js.profT, js.observing>>
      BY <1>0, <2>2, <2>3, HeadFeeds
    <2>5. dom' = H!ccIsland(dom, set, js', world) /\ UNCHANGED <<set, world>>
      BY <1>4 DEF H!LiveMessage
    <2>6. /\ dom' \in HeadDom /\ HeadMirrors(dom', set, js', world)
          /\ UNCHANGED <<dom.cls, dom.nav, dom.tips, dom.brand, dom.profile, dom.search>>
      BY <1>0, <2>4, <2>5, HeadIsland
    <2> QED BY <1>0, <2>4, <2>5, <2>6
            DEF HeadInv, HeadSwitched, HeadNeutral, HeadTitled, HeadListening, HeadPainted, HeadDocked, H!on
  <1>5. CASE H!ProfileMounts
    <2>1. dom' = [dom EXCEPT !.profile = [up |-> TRUE, docked |-> FALSE, bell |-> TRUE]]
          /\ UNCHANGED <<set, world>>
      BY <1>5 DEF H!ProfileMounts
    <2>2. /\ dom' \in HeadDom /\ ~dom'.profile.docked
          /\ UNCHANGED <<dom.cls, dom.nav, dom.tips, dom.brand, dom.island, dom.search>>
      BY <1>0, <2>1 DEF HeadDom
    <2>3. /\ js' \in HeadJs /\ js'.profT = js.observing
          /\ UNCHANGED <<js.event, js.menuT, js.observing, js.subs, js.live>>
      BY <1>0, <1>5 DEF H!ProfileMounts, HeadJs
    <2>4. ~js.event /\ ~js'.profT => ~H!live(set)
      BY <2>3 DEF HeadInv, HeadListening
    <2>5. ~H!live(set) => ~H!ccIslandOn(set)
      BY DEF H!ccIslandOn
    <2>6. ~js.event /\ ~js'.profT => HeadMirrors(dom', set, js', world)
      <3>1. ~js.event /\ ~js'.profT => dom.island = None
        <4>1. ~js.event /\ ~js.profT => HeadMirrors(dom, set, js, world)
          BY DEF HeadInv
        <4>2. ~js'.profT => ~js.profT
          BY <2>3 DEF HeadInv
        <4> QED BY <2>4, <2>5, <4>1, <4>2 DEF HeadMirrors
      <3> QED BY <2>2, <2>4, <2>5, <3>1 DEF HeadMirrors
    <2> QED BY <1>0, <2>1, <2>2, <2>3, <2>4, <2>6
            DEF HeadInv, HeadSwitched, HeadNeutral, HeadTitled, HeadListening, HeadPainted, HeadDocked, H!on
  <1>6. CASE H!ProfilePass
    <2> DEFINE k == H!ccStartStopLive(js, set)
               i == H!ccIsland(dom, set, js', world)
               b == H!ccBrand(i, set)
    <2>1. /\ k \in HeadJs /\ (k.subs <=> H!ccIslandOn(set)) /\ k.event = js.event
          /\ k.menuT = js.menuT /\ k.observing = js.observing
      BY <1>0, HeadFeeds
    <2>2. /\ js' = [k EXCEPT !.profT = FALSE] /\ dom' = H!ccDockProfile(b, set)
          /\ UNCHANGED <<set, world>>
      BY <1>6 DEF H!ProfilePass
    <2> HIDE DEF k
    <2>3. /\ js' \in HeadJs /\ js'.subs = k.subs /\ js'.event = k.event
          /\ js'.menuT = k.menuT /\ js'.observing = k.observing /\ ~js'.profT
      BY <2>1, <2>2 DEF HeadJs
    <2>4. /\ i \in HeadDom /\ HeadMirrors(i, set, js', world) /\ i.cls = dom.cls
          /\ i.nav = dom.nav /\ i.tips = dom.tips /\ i.profile = dom.profile
          /\ i.search = dom.search
      BY <1>0, <2>3, HeadIsland
    <2> HIDE DEF i
    <2>5. /\ b \in HeadDom /\ b.brand = H!live(set) /\ b.cls = i.cls /\ b.nav = i.nav
          /\ b.tips = i.tips /\ b.island = i.island /\ b.profile = i.profile
          /\ b.search = i.search
      BY <1>0, <2>4, HeadBrand
    <2> HIDE DEF b
    <2>6. /\ dom' \in HeadDom /\ dom'.cls = b.cls /\ dom'.nav = b.nav /\ dom'.tips = b.tips
          /\ dom'.island = b.island /\ dom'.brand = b.brand /\ dom'.search = b.search
          /\ dom'.profile.up = b.profile.up /\ (~H!on(b) => ~dom'.profile.docked)
          /\ (H!on(b) /\ b.profile.up /\ ~b.search) =>
                  dom'.profile.docked /\ dom'.profile.bell = ~set.hideBell
      BY <1>0, <2>2, <2>5, HeadDock
    <2>7. HeadMirrors(dom', set, js', world)
      BY <2>4, <2>5, <2>6 DEF HeadMirrors, H!Shown
    <2>8. H!on(b) <=> H!on(dom)
      BY <2>4, <2>5 DEF H!on
    <2>9. ~js.event => HeadSwitched(dom', set) /\ HeadDocked(dom', set)
      BY <2>4, <2>5, <2>6, <2>8 DEF HeadInv, HeadSwitched, HeadDocked, H!on
    <2> QED BY <1>0, <2>1, <2>2, <2>3, <2>4, <2>5, <2>6, <2>7, <2>9
            DEF HeadInv, HeadNeutral, HeadTitled, HeadListening, HeadPainted
  <1>7. CASE H!Reflow
    <2>1. PICK d \in {dom, H!ccBrand(dom, set)} : dom' = H!ccDockProfile(d, set)
      BY <1>7 DEF H!Reflow
    <2>2. UNCHANGED <<set, js, world>>
      BY <1>7 DEF H!Reflow
    <2>3. /\ d \in HeadDom /\ d.cls = dom.cls /\ d.nav = dom.nav /\ d.tips = dom.tips
          /\ d.island = dom.island /\ d.profile = dom.profile /\ d.search = dom.search
          /\ d.brand = dom.brand \/ d.brand = H!live(set)
      BY <1>0, <2>1, HeadBrand
    <2>4. /\ dom' \in HeadDom /\ dom'.cls = d.cls /\ dom'.nav = d.nav /\ dom'.tips = d.tips
          /\ dom'.island = d.island /\ dom'.brand = d.brand /\ dom'.search = d.search
          /\ dom'.profile.up = d.profile.up /\ (~H!on(d) => ~dom'.profile.docked)
          /\ (H!on(d) /\ d.profile.up /\ ~d.search) =>
                  dom'.profile.docked /\ dom'.profile.bell = ~set.hideBell
      BY <1>0, <2>1, <2>3, HeadDock
    <2>5. H!on(d) <=> H!on(dom)
      BY <2>3 DEF H!on
    <2>6. ~js.event => HeadSwitched(dom', set) /\ HeadDocked(dom', set)
      BY <2>3, <2>4, <2>5 DEF HeadInv, HeadSwitched, HeadDocked, H!on
    <2>7. HeadMirrors(dom, set, js, world) => HeadMirrors(dom', set, js, world)
      BY <2>3, <2>4 DEF HeadMirrors, H!Shown
    <2> QED BY <1>0, <2>2, <2>3, <2>4, <2>6, <2>7
            DEF HeadInv, HeadNeutral, HeadTitled, HeadListening, HeadPainted
  <1>8. CASE H!LateIcon
    <2>1. /\ js' \in HeadJs /\ js'.menuT
          /\ UNCHANGED <<js.event, js.profT, js.observing, js.subs, js.live>>
      BY <1>0, <1>8 DEF H!LateIcon, HeadJs
    <2>2. /\ dom' \in HeadDom /\ (HeadTitled(dom, set) => HeadTitled(dom', set))
          /\ UNCHANGED <<dom.cls, dom.brand, dom.island, dom.profile, dom.search>>
      BY <1>0, <1>8 DEF H!LateIcon, HeadDom, H!Items, H!Icons, H!Tabs, HeadTitled
    <2>3. HeadMirrors(dom, set, js, world) => HeadMirrors(dom', set, js', world)
      BY <2>1, <2>2 DEF HeadMirrors, H!Shown
    <2> QED BY <1>0, <1>8, <2>1, <2>2, <2>3
            DEF HeadInv, H!LateIcon, HeadSwitched, HeadNeutral, HeadListening, H!on
  <1>9. CASE H!ToggleSearch \/ H!LeaveSearch
    <2>1. /\ js' \in HeadJs /\ js'.menuT /\ UNCHANGED <<set, world>>
          /\ UNCHANGED <<js.event, js.profT, js.observing, js.subs, js.live>>
      BY <1>0, <1>9 DEF H!ToggleSearch, H!LeaveSearch, HeadJs
    <2>2. /\ dom' \in HeadDom
          /\ UNCHANGED <<dom.cls, dom.nav, dom.tips, dom.brand, dom.island, dom.profile>>
      <3>1. PICK v \in BOOLEAN : dom' = [dom EXCEPT !.search = v]
        BY <1>0, <1>9 DEF H!ToggleSearch, H!LeaveSearch, HeadDom
      <3> QED BY <1>0, <3>1 DEF HeadDom
    <2>3. HeadMirrors(dom, set, js, world) => HeadMirrors(dom', set, js', world)
      BY <2>1, <2>2 DEF HeadMirrors, H!Shown
    <2> QED BY <1>0, <2>1, <2>2, <2>3
            DEF HeadInv, HeadSwitched, HeadNeutral, HeadTitled, HeadListening, H!on
  <1>10. CASE H!MenuPass
    <2> DEFINE d == H!reorderSearch(dom)
               c == [d EXCEPT !.cls = (@ \ {"search-open"})
                                    \cup (IF d.search THEN {"search-open"} ELSE {})]
               n == H!paintNav(c, set)
    <2>1. /\ dom' = H!ccDockProfile(n, set) /\ js' = [js EXCEPT !.menuT = FALSE]
          /\ UNCHANGED <<set, world>>
      BY <1>10 DEF H!MenuPass
    <2>2. /\ d \in HeadDom /\ d.cls = dom.cls /\ d.nav = dom.nav /\ d.tips = dom.tips
          /\ d.island = dom.island /\ d.brand = dom.brand /\ d.profile = dom.profile
          /\ d.search = dom.search
      BY <1>0 DEF HeadDom, H!reorderSearch
    <2> HIDE DEF d
    <2>3. /\ c \in HeadDom /\ c.tips = d.tips
          /\ c.island = d.island /\ c.brand = d.brand /\ c.profile = d.profile
          /\ c.search = d.search /\ ("search-open" \in c.cls <=> d.search)
          /\ \A x \in H!Classes \ {"search-open"} : x \in c.cls <=> x \in d.cls
      BY <2>2 DEF HeadDom, H!Classes
    <2> HIDE DEF c
    <2>4. /\ n \in HeadDom
          /\ \A x \in H!Classes \ {"rbneutral"} : x \in n.cls <=> x \in c.cls
          /\ n.tips = c.tips /\ n.island = c.island /\ n.brand = c.brand
          /\ n.profile = c.profile /\ n.search = c.search
          /\ (H!on(c) <=> H!live(set)) => HeadNeutral(n, set) /\ HeadPainted(n, set)
      BY <1>0, <2>3, HeadNav
    <2> HIDE DEF n
    <2>5. /\ dom' \in HeadDom /\ dom'.cls = n.cls /\ dom'.nav = n.nav /\ dom'.tips = n.tips
          /\ dom'.island = n.island /\ dom'.brand = n.brand /\ dom'.search = n.search
          /\ dom'.profile.up = n.profile.up /\ (~H!on(n) => ~dom'.profile.docked)
          /\ (H!on(n) /\ n.profile.up /\ ~n.search) =>
                  dom'.profile.docked /\ dom'.profile.bell = ~set.hideBell
      BY <1>0, <2>1, <2>4, HeadDock
    <2>6. /\ js' \in HeadJs /\ ~js'.menuT
          /\ UNCHANGED <<js.event, js.profT, js.observing, js.subs, js.live>>
      BY <1>0, <2>1 DEF HeadJs
    <2>7. /\ H!on(c) <=> H!on(dom)
          /\ H!on(n) <=> H!on(dom)
          /\ "popups-on" \in n.cls <=> "popups-on" \in dom.cls
          /\ "search-open" \in n.cls <=> dom.search
      BY <2>2, <2>3, <2>4 DEF H!on, H!Classes
    <2>8. ~js.event => HeadSwitched(dom', set) /\ HeadDocked(dom', set)
      BY <2>2, <2>3, <2>4, <2>5, <2>7 DEF HeadInv, HeadSwitched, HeadDocked, H!on
    <2>9. ~js.event => HeadNeutral(dom', set) /\ HeadPainted(dom', set)
      BY <2>4, <2>5, <2>7 DEF HeadInv, HeadSwitched, HeadNeutral, HeadPainted
    <2>10. HeadMirrors(dom, set, js, world) => HeadMirrors(dom', set, js', world)
      BY <2>2, <2>3, <2>4, <2>5, <2>6 DEF HeadMirrors, H!Shown
    <2> QED BY <1>0, <2>1, <2>2, <2>3, <2>4, <2>5, <2>6, <2>7, <2>8, <2>9, <2>10
            DEF HeadInv, HeadTitled, HeadListening
  <1>11. CASE H!Hover
    <2>1. PICK i \in H!Icons : dom' = [dom EXCEPT !.tips[i] = "bubble"]
      BY <1>11 DEF H!Hover
    <2>2. /\ dom' \in HeadDom
          /\ UNCHANGED <<dom.cls, dom.nav, dom.brand, dom.island, dom.profile, dom.search>>
      BY <1>0, <2>1 DEF HeadDom
    <2>3. /\ UNCHANGED <<set, js, world>> /\ "popups-on" \in dom.cls
      BY <1>11 DEF H!Hover
    <2>4. ~js.event => set.theming
      BY <2>3 DEF HeadInv, HeadSwitched
    <2>5. HeadMirrors(dom, set, js, world) => HeadMirrors(dom', set, js', world)
      BY <2>2, <2>3 DEF HeadMirrors, H!Shown
    <2> QED BY <1>0, <2>2, <2>3, <2>4, <2>5
            DEF HeadInv, HeadSwitched, HeadNeutral, HeadTitled, HeadListening, HeadPainted, HeadDocked, H!on
  <1>12. CASE UNCHANGED H!vars
    BY <1>12 DEF H!vars, HeadInv, HeadSwitched, HeadNeutral, HeadTitled, HeadListening, HeadPainted, HeadDocked, HeadMirrors
  <1> QED BY <1>1, <1>2, <1>3, <1>4, <1>5, <1>6, <1>7, <1>8, <1>9, <1>10, <1>11, <1>12
          DEF H!Next, H!Passes

LEMMA HeadSafe == HeadInv => H!TypeOK /\ H!LooksAsSet
  BY DEF HeadInv, HeadDom, HeadJs, HeadWorld, HeadSwitched, HeadNeutral, HeadTitled, HeadListening, HeadPainted,
         HeadMirrors, HeadDocked, H!TypeOK, H!LooksAsSet, H!Calm, H!Expected

-----------------------------------------------------------------------------
(* The order of the menu: tiles *)

\* What a tile is, pair by pair.
LEMMA TileFacts ==
  ASSUME NEW t, N!IsTile(t)
  PROVE  /\ \A p \in t : p = <<p[1], p[2]>> /\ p[1] \in N!In(t) /\ p[2] \in N!In(t)
         /\ \A a : a \in N!In(t) <=> <<a, a>> \in t
         /\ \A a, b \in N!In(t) : /\ <<a, b>> \in t \/ <<b, a>> \in t
                                  /\ (<<a, b>> \in t /\ <<b, a>> \in t) => a = b
         /\ \A a, b, c \in N!In(t) : (<<a, b>> \in t /\ <<b, c>> \in t) => <<a, c>> \in t
  <1>1. \A p \in t : p = <<p[1], p[2]>> /\ p[1] \in N!In(t) /\ p[2] \in N!In(t)
    BY DEF N!IsTile
  <1>2. \A a \in N!In(t) : <<a, a>> \in t
    BY DEF N!IsTile
  <1>3. \A a : <<a, a>> \in t => a \in N!In(t)
    BY <1>1
  <1>4. \A a, b \in N!In(t) : /\ <<a, b>> \in t \/ <<b, a>> \in t
                              /\ (<<a, b>> \in t /\ <<b, a>> \in t) => a = b
    BY DEF N!IsTile
  <1>5. \A a, b, c \in N!In(t) : (<<a, b>> \in t /\ <<b, c>> \in t) => <<a, c>> \in t
    BY DEF N!IsTile
  <1> QED BY <1>1, <1>2, <1>3, <1>4, <1>5

\* Pairs of items, each with itself, that are comparable, and so on, are a tile.
LEMMA TileRule ==
  ASSUME NEW t, NEW I, t \subseteq I \X I,
         \A a, b \in I : /\ <<a, b>> \in t \/ <<b, a>> \in t
                         /\ (<<a, b>> \in t /\ <<b, a>> \in t) => a = b,
         \A a, b, c \in I : (<<a, b>> \in t /\ <<b, c>> \in t) => <<a, c>> \in t
  PROVE  N!In(t) = I /\ N!IsTile(t)
  <1>1. \A a \in I : <<a, a>> \in t
    OBVIOUS
  <1>2. \A a \in I : a \in N!In(t)
    <2> SUFFICES ASSUME NEW a \in I PROVE \E p \in t : a = p[1]
      BY DEF N!In
    <2>1. <<a, a>> \in t /\ <<a, a>>[1] = a
      BY <1>1
    <2> QED BY <2>1
  <1>3. \A a \in N!In(t) : a \in I
    BY DEF N!In
  <1>4. N!In(t) = I
    BY <1>2, <1>3
  <1> QED BY <1>4 DEF N!IsTile

LEMMA TileOnly ==
  ASSUME NEW t, NEW A, N!IsTile(t)
  PROVE  N!IsTile(N!Only(t, A)) /\ N!In(N!Only(t, A)) = N!In(t) \cap A
  <1> DEFINE I == N!In(t) \cap A
             u == N!Only(t, A)
  <1>1. \A a, b \in I : <<a, b>> \in u <=> <<a, b>> \in t
    BY DEF N!Only
  <1>2. u \subseteq I \X I
    <2> SUFFICES ASSUME NEW p \in u PROVE p \in I \X I
      OBVIOUS
    <2>1. p \in t /\ p \in A \X A
      BY DEF N!Only
    <2>2. p = <<p[1], p[2]>> /\ p[1] \in N!In(t) /\ p[2] \in N!In(t)
      BY <2>1, TileFacts
    <2> QED BY <2>1, <2>2
  <1>3. \A a, b \in I : /\ <<a, b>> \in u \/ <<b, a>> \in u
                        /\ (<<a, b>> \in u /\ <<b, a>> \in u) => a = b
    BY <1>1, TileFacts
  <1>4. \A a, b, c \in I : (<<a, b>> \in u /\ <<b, c>> \in u) => <<a, c>> \in u
    BY <1>1, TileFacts
  <1> HIDE DEF u, I
  <1>5. N!In(u) = I /\ N!IsTile(u)
    BY <1>2, <1>3, <1>4, TileRule
  <1> QED BY <1>5 DEF u, I

LEMMA TileThen ==
  ASSUME NEW t, NEW u, N!IsTile(t), N!IsTile(u), N!In(t) \cap N!In(u) = {}
  PROVE  N!IsTile(N!Then(t, u)) /\ N!In(N!Then(t, u)) = N!In(t) \cup N!In(u)
  <1> DEFINE I == N!In(t) \cup N!In(u)
             v == N!Then(t, u)
  <1>1. \A a, b \in I : <<a, b>> \in v <=> \/ a \in N!In(t) /\ b \in N!In(t) /\ <<a, b>> \in t
                                           \/ a \in N!In(u) /\ b \in N!In(u) /\ <<a, b>> \in u
                                           \/ a \in N!In(t) /\ b \in N!In(u)
    <2> SUFFICES ASSUME NEW a \in I, NEW b \in I
                 PROVE  <<a, b>> \in v <=> \/ a \in N!In(t) /\ b \in N!In(t) /\ <<a, b>> \in t
                                           \/ a \in N!In(u) /\ b \in N!In(u) /\ <<a, b>> \in u
                                           \/ a \in N!In(t) /\ b \in N!In(u)
      OBVIOUS
    <2>1. <<a, b>> \in v <=> <<a, b>> \in t \/ <<a, b>> \in u
                             \/ (a \in N!In(t) /\ b \in N!In(u))
      BY DEF N!Then
    <2>2. <<a, b>> \in t => a \in N!In(t) /\ b \in N!In(t)
      BY DEF N!IsTile
    <2>3. <<a, b>> \in u => a \in N!In(u) /\ b \in N!In(u)
      BY DEF N!IsTile
    <2> QED BY <2>1, <2>2, <2>3
  <1>2. v \subseteq I \X I
    <2>1. t \subseteq N!In(t) \X N!In(t) /\ u \subseteq N!In(u) \X N!In(u)
      BY DEF N!IsTile
    <2> QED BY <2>1 DEF N!Then
  <1>3. \A a, b \in I : /\ <<a, b>> \in v \/ <<b, a>> \in v
                        /\ (<<a, b>> \in v /\ <<b, a>> \in v) => a = b
    <2>1. \A a, b \in N!In(t) : /\ <<a, b>> \in t \/ <<b, a>> \in t
                                /\ (<<a, b>> \in t /\ <<b, a>> \in t) => a = b
      BY TileFacts
    <2>2. \A a, b \in N!In(u) : /\ <<a, b>> \in u \/ <<b, a>> \in u
                                /\ (<<a, b>> \in u /\ <<b, a>> \in u) => a = b
      BY TileFacts
    <2> HIDE DEF v
    <2> QED BY <1>1, <2>1, <2>2
  <1>4. \A a, b, c \in I : (<<a, b>> \in v /\ <<b, c>> \in v) => <<a, c>> \in v
    <2>1. \A a, b, c \in N!In(t) : (<<a, b>> \in t /\ <<b, c>> \in t) => <<a, c>> \in t
      BY TileFacts
    <2>2. \A a, b, c \in N!In(u) : (<<a, b>> \in u /\ <<b, c>> \in u) => <<a, c>> \in u
      BY TileFacts
    <2> HIDE DEF v
    <2> QED BY <1>1, <2>1, <2>2
  <1> HIDE DEF v, I
  <1>5. N!In(v) = I /\ N!IsTile(v)
    BY <1>2, <1>3, <1>4, TileRule
  <1> QED BY <1>5 DEF v, I

LEMMA TileAlone ==
  ASSUME NEW i
  PROVE  N!IsTile(N!Alone(i)) /\ N!In(N!Alone(i)) = {i}
  <1> DEFINE u == N!Alone(i)
             I == {i}
  <1>1. u \subseteq I \X I
    BY DEF N!Alone
  <1>2. \A a, b \in I : /\ <<a, b>> \in u \/ <<b, a>> \in u
                        /\ (<<a, b>> \in u /\ <<b, a>> \in u) => a = b
    BY DEF N!Alone
  <1>3. \A a, b, c \in I : (<<a, b>> \in u /\ <<b, c>> \in u) => <<a, c>> \in u
    BY DEF N!Alone
  <1> HIDE DEF u, I
  <1>4. N!In(u) = I /\ N!IsTile(u)
    BY <1>1, <1>2, <1>3, TileRule
  <1> QED BY <1>4 DEF u, I

LEMMA TileBackwards ==
  ASSUME NEW t, N!IsTile(t)
  PROVE  N!IsTile(N!Backwards(t)) /\ N!In(N!Backwards(t)) = N!In(t)
  <1> DEFINE I == N!In(t)
             u == N!Backwards(t)
  <1>1. \A a, b \in I : <<a, b>> \in u <=> <<b, a>> \in t
    <2> SUFFICES ASSUME NEW a \in I, NEW b \in I PROVE <<a, b>> \in u <=> <<b, a>> \in t
      OBVIOUS
    <2>1. ASSUME <<b, a>> \in t PROVE <<a, b>> \in u
      <3>1. <<b, a>>[1] = b /\ <<b, a>>[2] = a
        OBVIOUS
      <3> QED BY <2>1, <3>1 DEF N!Backwards
    <2>2. ASSUME <<a, b>> \in u PROVE <<b, a>> \in t
      <3>1. PICK p \in t : <<a, b>> = <<p[2], p[1]>>
        BY <2>2 DEF N!Backwards
      <3>2. p = <<p[1], p[2]>> /\ p[2] = a /\ p[1] = b
        BY <3>1, TileFacts
      <3> QED BY <3>1, <3>2
    <2> QED BY <2>1, <2>2
  <1>2. u \subseteq I \X I
    BY TileFacts DEF N!Backwards
  <1> HIDE DEF u
  <1>3. \A a, b \in I : /\ <<a, b>> \in u \/ <<b, a>> \in u
                        /\ (<<a, b>> \in u /\ <<b, a>> \in u) => a = b
    BY <1>1, TileFacts
  <1>4. \A a, b, c \in I : (<<a, b>> \in u /\ <<b, c>> \in u) => <<a, c>> \in u
    BY <1>1, TileFacts
  <1> HIDE DEF I
  <1>5. N!In(u) = I /\ N!IsTile(u)
    BY <1>2, <1>3, <1>4, TileRule
  <1> QED BY <1>5 DEF u, I

\* What is wanted stands at the end: it is found there.
LEMMA TileEnd ==
  ASSUME NEW t, NEW u, NEW A, N!IsTile(t), N!IsTile(u), N!In(t) \cap A = {}, N!In(u) \subseteq A
  PROVE  N!Only(N!Then(t, u), A) = u
  <1>1. t \subseteq N!In(t) \X N!In(t) /\ u \subseteq N!In(u) \X N!In(u)
    BY DEF N!IsTile
  <1>2. \A p \in N!Only(N!Then(t, u), A) : p \in u
    BY <1>1 DEF N!Only, N!Then
  <1>3. \A p \in u : p \in N!Only(N!Then(t, u), A)
    BY <1>1 DEF N!Only, N!Then
  <1> QED BY <1>2, <1>3

LEMMA TileAll ==
  ASSUME NEW t, NEW A, N!IsTile(t), N!In(t) \subseteq A
  PROVE  N!Only(t, A) = t
  <1>1. t \subseteq N!In(t) \X N!In(t)
    BY DEF N!IsTile
  <1> QED BY <1>1 DEF N!Only

\* Where the dragged item goes.
LEMMA TileBeside ==
  ASSUME NEW t, NEW i, NEW other, NEW after, N!IsTile(t), other # i
  PROVE  LET v == N!Beside(t, i, other, after)
         IN  /\ N!IsTile(v)
             /\ N!In(v) = IF other \in N!In(t) THEN N!In(t) \cup {i} ELSE N!In(t) \ {i}
  <1> DEFINE e == N!Except(t, {i})
             ahead == {a \in N!In(e) : <<a, other>> \in e /\ (after \/ a # other)}
             h == N!Only(e, ahead)
             k == N!Then(h, N!Alone(i))
             r == N!Except(e, ahead)
             v == N!Beside(t, i, other, after)
  <1>1. v = IF other \notin N!In(e) THEN e ELSE N!Then(k, r)
    BY DEF N!Beside
  <1>2. N!IsTile(e) /\ N!In(e) = N!In(t) \ {i}
    <2>1. N!IsTile(e) /\ N!In(e) = N!In(t) \cap (N!In(t) \ {i})
      BY TileOnly DEF N!Except
    <2> QED BY <2>1
  <1>3. ahead \subseteq N!In(e)
    OBVIOUS
  <1> HIDE DEF e, ahead, v
  <1>4. N!IsTile(h) /\ N!In(h) = ahead
    <2>1. N!IsTile(h) /\ N!In(h) = N!In(e) \cap ahead
      BY <1>2, TileOnly
    <2> QED BY <1>3, <2>1
  <1>5. N!IsTile(r) /\ N!In(r) = N!In(e) \ ahead
    <2>1. N!IsTile(r) /\ N!In(r) = N!In(e) \cap (N!In(e) \ ahead)
      BY <1>2, TileOnly DEF N!Except
    <2> QED BY <2>1
  <1> HIDE DEF h, r
  <1>6. N!IsTile(k) /\ N!In(k) = ahead \cup {i}
    <2>1. N!IsTile(N!Alone(i)) /\ N!In(N!Alone(i)) = {i}
      BY TileAlone
    <2>2. N!In(h) \cap N!In(N!Alone(i)) = {}
      BY <1>2, <1>3, <1>4, <2>1
    <2> QED BY <1>4, <2>1, <2>2, TileThen
  <1> HIDE DEF k
  <1>7. N!IsTile(N!Then(k, r)) /\ N!In(N!Then(k, r)) = N!In(e) \cup {i}
    <2>1. N!In(k) \cap N!In(r) = {}
      BY <1>2, <1>5, <1>6
    <2>2. N!IsTile(N!Then(k, r)) /\ N!In(N!Then(k, r)) = N!In(k) \cup N!In(r)
      BY <1>5, <1>6, <2>1, TileThen
    <2> QED BY <1>3, <1>5, <1>6, <2>2
  <1> QED BY <1>1, <1>2, <1>7 DEF v

-----------------------------------------------------------------------------
(* The order of the menu *)

NavDom == [left : SUBSET (N!Items \X N!Items), right : SUBSET (N!Items \X N!Items),
           wiggle : SUBSET N!Items, wired : SUBSET N!Items]

NavOrders == [left : SUBSET (N!Items \X N!Items), right : SUBSET (N!Items \X N!Items)]

NavJs == [reorder : BOOLEAN, hold : BOOLEAN, moved : BOOLEAN, suppress : BOOLEAN,
          recent : BOOLEAN, truce : BOOLEAN, timer : BOOLEAN,
          dragged : N!Items \cup {None}, press : N!Items \cup {None}, tries : 0..MaxTries - 1]

NavWorld == [changes : 0..NavChanges, opponent : Opponents, rebuild : BOOLEAN,
             pressed : BOOLEAN, escaped : BOOLEAN, stood : BOOLEAN]

\* Two tiles of a page or of an order: nothing is in both.
TwoTiles(t) == N!IsTile(t.left) /\ N!IsTile(t.right) /\ N!In(t.left) \cap N!In(t.right) = {}

\* A page with all its items, the late ones perhaps; only they are wired or jiggle.
NavFull(d) == /\ TwoTiles(d) /\ N!navAllParts(d) \cup Late = N!Items
              /\ d.wired \cup d.wiggle \subseteq N!navAllParts(d)

NavSaved(s) == s.order # None => s.order \in NavOrders /\ TwoTiles(s.order)

\* The gesture: what is held was pressed, and what is dragged is still held down.
NavGesture(j, w) == /\ j.hold => j.press # None /\ w.pressed
                    /\ (j.reorder <=> j.dragged # None)
                    /\ j.reorder => w.pressed
                    /\ j.truce => w.stood

\* What is pressed or dragged is on the page.
NavHeld(j, d) == {j.dragged, j.press} \subseteq N!navAllParts(d) \cup {None}

\* Unless a pass is due or somebody drags, the saved order is there - or it was given up.
NavKept(s, d, j, w) == (s.on /\ ~j.timer /\ ~j.reorder) =>
                           \/ s.order = None \/ w.opponent # "none" \/ w.escaped \/ w.stood
                           \/ N!Arranged(d, s.order)

NavInv ==
    /\ set \in [on : BOOLEAN, order : NavOrders \cup {None}] /\ NavSaved(set)
    /\ dom \in NavDom /\ NavFull(dom)
    /\ js \in NavJs /\ world \in NavWorld /\ NavGesture(js, world)
    /\ NavHeld(js, dom)
    /\ dom.wiggle # {} => js.reorder
    /\ NavKept(set, dom, js, world)

\* Putting the wanted items in place loses none and ends with the wanted order.
LEMMA NavPlace ==
  ASSUME NEW d \in NavDom, NavFull(d), NEW o \in NavOrders, TwoTiles(o)
  PROVE  LET e == N!place(d, o)
         IN  /\ e \in NavDom /\ NavFull(e)
             /\ e.wiggle = d.wiggle /\ N!navAllParts(e) = N!navAllParts(d)
             /\ N!Arranged(e, o)
  <1> DEFINE A == N!navAllParts(d)
             l == N!Only(o.left, A)
             r == N!Only(o.right, A)
             moved == N!In(l) \cup N!In(r)
             dl == N!Except(d.left, moved)
             dr == N!Except(d.right, moved)
             el == N!Then(dl, l)
             er == N!Then(dr, r)
             e == N!place(d, o)
  <1>1. e = [d EXCEPT !.left = el, !.right = er]
    BY DEF N!place, NavDom
  <1>2. A = N!In(d.left) \cup N!In(d.right)
    BY DEF N!navAllParts
  <1>3. dl = N!Only(d.left, N!In(d.left) \ moved) /\ dr = N!Only(d.right, N!In(d.right) \ moved)
    BY DEF N!Except
  <1> HIDE DEF e, el, er, dl, dr, moved, A
  <1>4. /\ N!IsTile(l) /\ N!In(l) = N!In(o.left) \cap A
        /\ N!IsTile(r) /\ N!In(r) = N!In(o.right) \cap A
    BY TileOnly DEF TwoTiles
  <1>5. moved = N!In(l) \cup N!In(r)
    BY DEF moved
  <1> HIDE DEF l, r
  <1>6. /\ N!IsTile(dl) /\ N!In(dl) = N!In(d.left) \ moved
        /\ N!IsTile(dr) /\ N!In(dr) = N!In(d.right) \ moved
    <2>1. /\ N!IsTile(dl) /\ N!In(dl) = N!In(d.left) \cap (N!In(d.left) \ moved)
          /\ N!IsTile(dr) /\ N!In(dr) = N!In(d.right) \cap (N!In(d.right) \ moved)
      BY <1>3, TileOnly DEF NavFull, TwoTiles
    <2> QED BY <2>1
  <1>7. /\ N!IsTile(el) /\ N!In(el) = N!In(dl) \cup N!In(l)
        /\ N!IsTile(er) /\ N!In(er) = N!In(dr) \cup N!In(r)
    <2>1. N!In(dl) \cap N!In(l) = {} /\ N!In(dr) \cap N!In(r) = {}
      BY <1>5, <1>6
    <2> QED BY <1>4, <1>6, <2>1, TileThen DEF el, er
  <1>8. /\ e.left = el /\ e.right = er /\ e.wiggle = d.wiggle /\ e.wired = d.wired
        /\ e = [left |-> el, right |-> er, wiggle |-> d.wiggle, wired |-> d.wired]
    BY <1>1 DEF NavDom
  <1>9. N!navAllParts(e) = A
    <2>1. N!navAllParts(e) = N!In(el) \cup N!In(er)
      BY <1>8 DEF N!navAllParts
    <2> QED BY <1>2, <1>4, <1>5, <1>6, <1>7, <2>1
  <1>10. TwoTiles(e)
    <2>1. N!In(o.left) \cap N!In(o.right) = {} /\ N!In(d.left) \cap N!In(d.right) = {}
      BY DEF NavFull, TwoTiles
    <2>2. N!In(el) \cap N!In(er) = {}
      BY <1>4, <1>5, <1>6, <1>7, <2>1
    <2> QED BY <1>7, <1>8, <2>2 DEF TwoTiles
  <1>11. NavFull(e)
    BY <1>8, <1>9, <1>10 DEF NavFull, A
  <1>12. e \in NavDom
    <2>1. A \subseteq N!Items
      BY DEF NavFull, A
    <2>2. N!In(el) \subseteq A /\ N!In(er) \subseteq A
      BY <1>2, <1>4, <1>6, <1>7
    <2>3. el \subseteq N!In(el) \X N!In(el) /\ er \subseteq N!In(er) \X N!In(er)
      BY <1>7 DEF N!IsTile
    <2>4. el \subseteq N!Items \X N!Items /\ er \subseteq N!Items \X N!Items
      BY <2>1, <2>2, <2>3
    <2> QED BY <1>8, <2>4 DEF NavDom
  <1>13. N!Arranged(e, o)
    <2>1. N!In(dl) \cap N!In(o.left) = {} /\ N!In(dr) \cap N!In(o.right) = {}
      BY <1>2, <1>4, <1>5, <1>6
    <2>2. N!In(l) \subseteq N!In(o.left) /\ N!In(r) \subseteq N!In(o.right)
      BY <1>4
    <2>3. N!Only(el, N!In(o.left)) = l /\ N!Only(er, N!In(o.right)) = r
      BY <1>4, <1>6, <2>1, <2>2, TileEnd DEF el, er
    <2> QED BY <1>8, <1>9, <2>3 DEF N!Arranged, N!inPlace, l, r
  <1> QED BY <1>8, <1>9, <1>11, <1>12, <1>13 DEF e, A

\* One pass, with the settings s, on the page d, for a script that remembers j.
LEMMA NavApply ==
  ASSUME NEW d \in NavDom, NavFull(d), NEW s \in [on : BOOLEAN, order : NavOrders \cup {None}],
         NavSaved(s), NEW j \in NavJs, NEW w \in NavWorld, NavGesture(j, w),
         d.wiggle # {} => j.reorder, NavHeld(j, d), N!apply(d, s, j, w)
  PROVE  /\ dom' \in NavDom /\ NavFull(dom)' /\ (dom.wiggle # {} => js.reorder)'
         /\ js' \in NavJs /\ world' \in NavWorld
         /\ NavGesture(js, world)' /\ NavHeld(js, dom)'
         /\ NavKept(s, dom', js', world')
  <1> DEFINE b == N!setupNavDrag(d)
             e == N!place(b, s.order)
  <1>1. CASE ~s.on
    <2>1. dom' = d /\ js' = j /\ world' = w
      BY <1>1 DEF N!apply
    <2> QED BY <1>1, <2>1 DEF NavKept, NavFull, TwoTiles, N!navAllParts, NavGesture, NavHeld
  <1>2. CASE s.on
    <2>1. /\ b \in NavDom /\ b.left = d.left /\ b.right = d.right /\ b.wiggle = d.wiggle
          /\ b.wired = d.wired \cup N!navAllParts(d)
      <3>1. N!navAllParts(d) \subseteq N!Items
        BY DEF NavFull
      <3> QED BY <3>1 DEF NavDom, N!setupNavDrag
    <2>2. NavFull(b) /\ N!navAllParts(b) = N!navAllParts(d)
      BY <2>1 DEF NavFull, TwoTiles, N!navAllParts
    <2>3. N!applyNavOrder(b, s, j, w)
      BY <1>2 DEF N!apply
    <2> HIDE DEF b
    <2>4. CASE ~N!Wants(j, s)
      <3>1. dom' = b /\ js' = j /\ world' = w
        BY <2>3, <2>4 DEF N!applyNavOrder
      <3>2. j.reorder \/ w.stood \/ s.order = None
        BY <2>4 DEF N!Wants, NavGesture
      <3>3. NavKept(s, dom', js', world')
        BY <3>1, <3>2 DEF NavKept
      <3> QED BY <2>1, <2>2, <3>1, <3>3 DEF NavGesture, NavFull, TwoTiles, N!navAllParts, NavHeld
    <2>5. CASE N!Wants(j, s) /\ N!Arranged(b, s.order)
      <3>1. dom' = b /\ js' = [j EXCEPT !.tries = 0] /\ world' = [w EXCEPT !.escaped = FALSE]
        BY <2>3, <2>5 DEF N!applyNavOrder
      <3>2. 0 \in 0..MaxTries - 1
        BY BoundsAssumption
      <3>3. js' \in NavJs /\ world' \in NavWorld
        BY <3>1, <3>2 DEF NavJs, NavWorld
      <3>4. js'.reorder = j.reorder
        BY <3>1 DEF NavJs
      <3>5. NavGesture(js, world)'
        BY <3>1 DEF NavGesture, NavJs, NavWorld
      <3>6. NavKept(s, dom', js', world')
        BY <2>5, <3>1 DEF NavKept
      <3>7. dom' \in NavDom /\ dom'.wiggle = d.wiggle
        BY <2>1, <3>1
      <3>8. NavFull(dom)'
        BY <2>2, <3>1 DEF NavFull, TwoTiles, N!navAllParts
      <3>9. NavHeld(js, dom)'
        BY <2>2, <3>1 DEF NavHeld, NavJs, N!navAllParts
      <3> QED BY <3>3, <3>4, <3>5, <3>6, <3>7, <3>8, <3>9
    <2>6. CASE N!Wants(j, s) /\ ~N!Arranged(b, s.order) /\ N!Tries(j) >= MaxTries
      <3>1. /\ dom' = b
            /\ js' = [j EXCEPT !.tries = 0, !.recent = TRUE, !.truce = TRUE]
            /\ world' = [w EXCEPT !.stood = TRUE]
        BY <2>3, <2>6 DEF N!applyNavOrder
      <3>2. 0 \in 0..MaxTries - 1
        BY BoundsAssumption
      <3>3. js' \in NavJs /\ world' \in NavWorld /\ world'.stood
        BY <3>1, <3>2 DEF NavJs, NavWorld
      <3>4. js'.reorder = j.reorder
        BY <3>1 DEF NavJs
      <3>5. NavGesture(js, world)'
        BY <3>1 DEF NavGesture, NavJs, NavWorld
      <3>6. NavKept(s, dom', js', world')
        BY <3>3 DEF NavKept
      <3>7. dom' \in NavDom /\ dom'.wiggle = d.wiggle
        BY <2>1, <3>1
      <3>8. NavFull(dom)'
        BY <2>2, <3>1 DEF NavFull, TwoTiles, N!navAllParts
      <3>9. NavHeld(js, dom)'
        BY <2>2, <3>1 DEF NavHeld, NavJs, N!navAllParts
      <3> QED BY <3>3, <3>4, <3>5, <3>6, <3>7, <3>8, <3>9
    <2>7. CASE N!Wants(j, s) /\ ~N!Arranged(b, s.order) /\ ~(N!Tries(j) >= MaxTries)
      <3>1. /\ dom' = e
            /\ js' = [j EXCEPT !.tries = N!Tries(j), !.recent = TRUE, !.timer = TRUE]
            /\ world' = [w EXCEPT !.rebuild = w.opponent # "none", !.escaped = FALSE]
        BY <2>3, <2>7 DEF N!applyNavOrder
      <3>2. N!Tries(j) \in 0..MaxTries - 1
        BY <2>7, BoundsAssumption DEF N!Tries, NavJs
      <3>3. s.order \in NavOrders /\ TwoTiles(s.order)
        BY <2>7 DEF N!Wants, NavSaved
      <3>4. e \in NavDom /\ NavFull(e) /\ e.wiggle = b.wiggle /\ N!navAllParts(e) = N!navAllParts(b)
        BY <2>1, <2>2, <3>3, NavPlace
      <3> HIDE DEF e
      <3>5. js' \in NavJs /\ world' \in NavWorld
        BY <3>1, <3>2 DEF NavJs, NavWorld
      <3>6. js'.reorder = j.reorder /\ js'.timer
        BY <3>1 DEF NavJs
      <3>7. NavGesture(js, world)'
        BY <3>1 DEF NavGesture, NavJs, NavWorld
      <3>8. NavKept(s, dom', js', world')
        BY <3>6 DEF NavKept
      <3>9. dom' \in NavDom /\ dom'.wiggle = d.wiggle
        BY <2>1, <3>1, <3>4
      <3>10. NavFull(dom)'
        BY <3>1, <3>4 DEF NavFull, TwoTiles, N!navAllParts
      <3>11. NavHeld(js, dom)'
        BY <2>2, <3>1, <3>4 DEF NavHeld, NavJs, N!navAllParts
      <3> QED BY <3>5, <3>6, <3>7, <3>8, <3>9, <3>10, <3>11
    <2> QED BY <2>4, <2>5, <2>6, <2>7
  <1> QED BY <1>1, <1>2

\* The orders of an earlier visit are orders of the items.
LEMMA NavOrdersFit == \A o \in N!Orders : o \in NavOrders /\ TwoTiles(o)
  <1> DEFINE bl == N!Backwards(Left)
             br == N!Backwards(Right)
  <1>1. /\ N!IsTile(Left) /\ N!IsTile(Right) /\ N!In(Left) \cap N!In(Right) = {}
        /\ N!In(Left) \subseteq N!Items /\ N!In(Right) \subseteq N!Items
    BY ItemsAssumption DEF N!Items
  <1>2. Left \subseteq N!Items \X N!Items /\ Right \subseteq N!Items \X N!Items
    BY <1>1 DEF N!IsTile
  <1>3. /\ N!IsTile(bl) /\ N!In(bl) = N!In(Left)
        /\ N!IsTile(br) /\ N!In(br) = N!In(Right)
    BY <1>1, TileBackwards
  <1>4. N!Orders = {[left |-> Right, right |-> Left], [left |-> bl, right |-> br]}
    BY DEF N!Orders
  <1> HIDE DEF bl, br
  <1>5. bl \subseteq N!Items \X N!Items /\ br \subseteq N!Items \X N!Items
    BY <1>1, <1>3 DEF N!IsTile
  <1>6. \A o \in {[left |-> Right, right |-> Left], [left |-> bl, right |-> br]} :
            o \in NavOrders /\ TwoTiles(o)
    BY <1>1, <1>2, <1>3, <1>5 DEF NavOrders, TwoTiles
  <1> QED BY <1>4, <1>6

LEMMA NavInit == N!Init => NavInv
  <1> SUFFICES ASSUME N!Init PROVE NavInv
    OBVIOUS
  <1> DEFINE r == N!Except(Right, Late)
  <1>1. /\ N!IsTile(Left) /\ N!IsTile(Right) /\ N!In(Left) \cap N!In(Right) = {}
        /\ Late \subseteq N!In(Right) /\ None \notin N!Items
    BY ItemsAssumption
  <1>2. /\ N!In(Left) \subseteq N!Items /\ N!In(Right) \subseteq N!Items
        /\ Left \subseteq N!Items \X N!Items /\ Right \subseteq N!Items \X N!Items
    BY <1>1 DEF N!Items, N!IsTile
  <1>3. N!IsTile(r) /\ N!In(r) = N!In(Right) \ Late
    <2>1. N!IsTile(r) /\ N!In(r) = N!In(Right) \cap (N!In(Right) \ Late)
      BY <1>1, TileOnly DEF N!Except
    <2> QED BY <2>1
  <1>4. r \subseteq Right
    BY DEF N!Except, N!Only
  <1>5. set \in [on : BOOLEAN, order : NavOrders \cup {None}] /\ NavSaved(set)
    BY NavOrdersFit DEF N!Init, NavSaved
  <1>6. dom = [left |-> Left, right |-> r, wiggle |-> {}, wired |-> {}]
    BY DEF N!Init
  <1> HIDE DEF r
  <1>7. dom \in NavDom
    BY <1>2, <1>4, <1>6 DEF NavDom
  <1>8. NavFull(dom)
    BY <1>1, <1>3, <1>6 DEF NavFull, TwoTiles, N!navAllParts, N!Items
  <1>9. /\ js = [reorder |-> FALSE, dragged |-> None, press |-> None, hold |-> FALSE,
                 moved |-> FALSE, suppress |-> FALSE, tries |-> 0, recent |-> FALSE,
                 truce |-> FALSE, timer |-> TRUE]
        /\ world \in [changes : {0}, opponent : Opponents, rebuild : {FALSE}, pressed : {FALSE},
                      escaped : {FALSE}, stood : {FALSE}]
    BY DEF N!Init, N!Seen, N!Idle
  <1>10. 0 \in 0..MaxTries - 1 /\ 0 \in 0..NavChanges
    BY BoundsAssumption
  <1>11. js \in NavJs /\ world \in NavWorld
    BY <1>9, <1>10 DEF NavJs, NavWorld
  <1>12. NavGesture(js, world) /\ NavHeld(js, dom) /\ NavKept(set, dom, js, world)
    BY <1>9 DEF NavGesture, NavKept, NavHeld
  <1> QED BY <1>5, <1>6, <1>7, <1>8, <1>11, <1>12 DEF NavInv

LEMMA NavStep == NavInv /\ (N!Next \/ UNCHANGED N!vars) => NavInv'
  <1> SUFFICES ASSUME NavInv, N!Next \/ UNCHANGED N!vars PROVE NavInv'
    OBVIOUS
  <1> USE DEF NavInv
  <1>A. None \notin N!Items /\ Late \subseteq N!Items
    BY ItemsAssumption DEF N!Items
  <1>0. CASE UNCHANGED N!vars
    BY <1>0 DEF N!vars, NavSaved, NavHeld, NavFull, TwoTiles, N!navAllParts, NavGesture, NavKept, N!Arranged, N!inPlace
  <1>1. CASE N!Pass
    <2> DEFINE j == [js EXCEPT !.timer = FALSE]
    <2>1. N!apply(dom, set, j, world) /\ set' = set
      BY <1>1 DEF N!Pass
    <2>2. j \in NavJs /\ NavGesture(j, world) /\ NavHeld(j, dom) /\ (dom.wiggle # {} => j.reorder)
      BY DEF NavJs, NavGesture, NavHeld
    <2> HIDE DEF j
    <2>3. /\ dom' \in NavDom /\ NavFull(dom)' /\ (dom.wiggle # {} => js.reorder)'
          /\ js' \in NavJs /\ world' \in NavWorld
          /\ NavGesture(js, world)' /\ NavHeld(js, dom)' /\ NavKept(set, dom', js', world')
      BY <2>1, <2>2, NavApply
    <2> QED BY <2>1, <2>3 DEF NavSaved, TwoTiles, NavKept
  <1>2. CASE N!Rebuild
    <2> DEFINE A == N!navAllParts(dom)
               l == N!Only(Left, A)
               r == N!Only(Right, A)
    <2>1. /\ js' = [js EXCEPT !.timer = TRUE] /\ world' = [world EXCEPT !.rebuild = FALSE]
          /\ set' = set
      BY <1>2 DEF N!Rebuild, N!Seen
    <2>2. /\ js' \in NavJs /\ js'.timer /\ js'.reorder = js.reorder /\ world' \in NavWorld
          /\ NavGesture(js, world)'
      BY <2>1 DEF NavJs, NavWorld, NavGesture
    <2>3. /\ dom' \in NavDom /\ NavFull(dom)' /\ dom'.wiggle = dom.wiggle
          /\ N!navAllParts(dom') = N!navAllParts(dom)
      <3>1. CASE dom' = dom
        BY <3>1 DEF NavFull, TwoTiles, N!navAllParts
      <3>2. CASE dom' = [dom EXCEPT !.left = l, !.right = r]
        <4>1. A \subseteq N!Items
          BY DEF NavFull
        <4>2. dom' = [left |-> l, right |-> r, wiggle |-> dom.wiggle, wired |-> dom.wired]
          BY <3>2 DEF NavDom
        <4> HIDE DEF A
        <4>3. /\ N!IsTile(l) /\ N!In(l) = N!In(Left) \cap A
              /\ N!IsTile(r) /\ N!In(r) = N!In(Right) \cap A
          BY ItemsAssumption, TileOnly
        <4>4. l \subseteq N!Items \X N!Items /\ r \subseteq N!Items \X N!Items
          BY <4>1 DEF N!Only
        <4> HIDE DEF l, r
        <4>5. N!In(l) \cup N!In(r) = A
          BY <4>1, <4>3 DEF N!Items
        <4>6. N!In(l) \cap N!In(r) = {}
          BY <4>3, ItemsAssumption
        <4>7. dom' \in NavDom
          BY <4>2, <4>4 DEF NavDom
        <4>8. A \cup Late = N!Items /\ dom.wired \cup dom.wiggle \subseteq A
          BY DEF NavFull, A
        <4>9. dom'.left = l /\ dom'.right = r /\ dom'.wiggle = dom.wiggle /\ dom'.wired = dom.wired
          BY <4>2
        <4>10. NavFull(dom)'
          BY <4>3, <4>5, <4>6, <4>8, <4>9 DEF NavFull, TwoTiles, N!navAllParts
        <4>11. N!navAllParts(dom') = A
          BY <4>5, <4>9 DEF N!navAllParts
        <4> QED BY <4>7, <4>9, <4>10, <4>11 DEF A
      <3> QED BY <1>2, <3>1, <3>2 DEF N!Rebuild
    <2>4. NavHeld(js, dom)'
      BY <2>1, <2>3 DEF NavHeld, NavJs, N!navAllParts
    <2> QED BY <2>1, <2>2, <2>3, <2>4 DEF NavSaved, TwoTiles, NavKept
  <1>3. CASE N!LateItem
    <2>1. /\ js' = [js EXCEPT !.timer = TRUE] /\ world' = world /\ set' = set
      BY <1>3 DEF N!LateItem, N!Seen
    <2>2. /\ js' \in NavJs /\ js'.timer /\ js'.reorder = js.reorder /\ NavGesture(js, world)'
      BY <2>1 DEF NavJs, NavGesture
    <2>3. PICK i \in Late \ N!navAllParts(dom) :
              dom' = [dom EXCEPT !.right = N!Then(@, N!Alone(i))]
      BY <1>3 DEF N!LateItem
    <2> DEFINE r == N!Then(dom.right, N!Alone(i))
    <2>4. N!IsTile(r) /\ N!In(r) = N!In(dom.right) \cup {i}
      <3>1. N!IsTile(N!Alone(i)) /\ N!In(N!Alone(i)) = {i}
        BY TileAlone
      <3>2. N!In(dom.right) \cap N!In(N!Alone(i)) = {}
        BY <3>1 DEF N!navAllParts
      <3>3. N!IsTile(r) /\ N!In(r) = N!In(dom.right) \cup N!In(N!Alone(i))
        BY <3>1, <3>2, TileThen DEF NavFull, TwoTiles
      <3> QED BY <3>1, <3>3
    <2>5. dom' = [left |-> dom.left, right |-> r, wiggle |-> dom.wiggle, wired |-> dom.wired]
      BY <2>3 DEF NavDom
    <2> HIDE DEF r
    <2>6. dom'.left = dom.left /\ dom'.right = r /\ dom'.wiggle = dom.wiggle /\ dom'.wired = dom.wired
      BY <2>5
    <2>7. N!In(dom.right) \cup {i} \subseteq N!Items
      BY <1>A DEF NavFull, N!navAllParts
    <2>8. dom' \in NavDom
      BY <2>4, <2>5, <2>7 DEF NavDom, N!IsTile
    <2>9. NavFull(dom)'
      <3>1. N!In(dom.left) \cap N!In(r) = {}
        BY <2>4 DEF NavFull, TwoTiles, N!navAllParts
      <3> QED BY <2>4, <2>6, <3>1 DEF NavFull, TwoTiles, N!navAllParts
    <2>10. NavHeld(js, dom)'
      BY <2>1, <2>4, <2>6 DEF NavHeld, NavJs, N!navAllParts
    <2> QED BY <2>1, <2>2, <2>6, <2>8, <2>9, <2>10 DEF NavSaved, TwoTiles, NavKept
  <1>4. CASE N!WindowPasses
    <2>1. /\ js' = [js EXCEPT !.recent = FALSE] /\ set' = set /\ dom' = dom /\ world' = world
      BY <1>4 DEF N!WindowPasses
    <2>2. /\ js' \in NavJs /\ js'.reorder = js.reorder /\ js'.timer = js.timer
          /\ NavGesture(js, world)'
      BY <2>1 DEF NavJs, NavGesture
    <2>3. NavHeld(js, dom)'
      BY <2>1 DEF NavHeld, NavJs, N!navAllParts
    <2> QED BY <2>1, <2>2, <2>3
            DEF NavSaved, NavFull, TwoTiles, N!navAllParts, NavKept, N!Arranged, N!inPlace
  <1>5. CASE N!TruceEnds
    <2>1. /\ js' = [js EXCEPT !.truce = FALSE, !.recent = FALSE]
          /\ set' = set /\ dom' = dom /\ world' = world
      BY <1>5 DEF N!TruceEnds
    <2>2. /\ js' \in NavJs /\ js'.reorder = js.reorder /\ js'.timer = js.timer
          /\ NavGesture(js, world)'
      BY <2>1 DEF NavJs, NavGesture
    <2>3. NavHeld(js, dom)'
      BY <2>1 DEF NavHeld, NavJs, N!navAllParts
    <2> QED BY <2>1, <2>2, <2>3
            DEF NavSaved, NavFull, TwoTiles, N!navAllParts, NavKept, N!Arranged, N!inPlace
  <1>6. CASE N!Storage
    <2> DEFINE w == [world EXCEPT !.changes = @ + 1]
    <2>1. PICK s \in {[set EXCEPT !.on = ~@]} \cup {[set EXCEPT !.order = o] : o \in N!Orders} :
              set' = s /\ N!apply(dom, s, js, w)
      BY <1>6 DEF N!Storage, N!Changed
    <2>2. w \in NavWorld /\ NavGesture(js, w)
      <3>1. world.changes + 1 \in 0..NavChanges
        BY <1>6, BoundsAssumption DEF N!Storage, N!Change, NavWorld
      <3> QED BY <3>1 DEF NavWorld, NavGesture
    <2>3. s \in [on : BOOLEAN, order : NavOrders \cup {None}] /\ NavSaved(s)
      <3>1. CASE s = [set EXCEPT !.on = ~@]
        BY <3>1 DEF NavSaved
      <3>2. CASE \E o \in N!Orders : s = [set EXCEPT !.order = o]
        <4>1. PICK o \in N!Orders : s = [set EXCEPT !.order = o]
          BY <3>2
        <4>2. o \in NavOrders /\ TwoTiles(o)
          BY NavOrdersFit
        <4> QED BY <4>1, <4>2 DEF NavSaved
      <3> QED BY <3>1, <3>2
    <2> HIDE DEF w
    <2>4. /\ dom' \in NavDom /\ NavFull(dom)' /\ (dom.wiggle # {} => js.reorder)'
          /\ js' \in NavJs /\ world' \in NavWorld
          /\ NavGesture(js, world)' /\ NavHeld(js, dom)' /\ NavKept(s, dom', js', world')
      BY <2>1, <2>2, <2>3, NavApply
    <2> QED BY <2>1, <2>3, <2>4 DEF NavSaved, TwoTiles, NavKept
  <1>7. CASE N!PointerDown
    <2>1. PICK i \in dom.wired : js' = [js EXCEPT !.press = i, !.hold = TRUE, !.moved = FALSE]
      BY <1>7 DEF N!PointerDown
    <2>2. /\ world' = [world EXCEPT !.changes = @ + 1, !.pressed = TRUE]
          /\ ~world.pressed /\ set' = set /\ dom' = dom
      BY <1>7 DEF N!PointerDown, N!Changed, NavWorld
    <2>3. world.changes + 1 \in 0..NavChanges
      BY <1>7, BoundsAssumption DEF N!PointerDown, N!Change, NavWorld
    <2>4. i \in N!Items /\ i # None
      BY <1>A DEF NavDom
    <2>5. js' \in NavJs /\ js'.reorder = js.reorder /\ js'.timer = js.timer
      BY <2>1, <2>4 DEF NavJs
    <2>6. /\ world' \in NavWorld /\ world'.opponent = world.opponent
          /\ world'.escaped = world.escaped /\ world'.stood = world.stood
      BY <2>2, <2>3 DEF NavWorld
    <2>7. NavGesture(js, world)'
      BY <2>1, <2>2, <2>4 DEF NavGesture, NavJs, NavWorld
    <2>8. NavHeld(js, dom)'
      <3>1. i \in N!navAllParts(dom)
        BY DEF NavFull
      <3> QED BY <2>1, <2>2, <3>1 DEF NavHeld, NavJs, N!navAllParts
    <2> QED BY <2>2, <2>5, <2>6, <2>7, <2>8
            DEF NavSaved, NavFull, TwoTiles, N!navAllParts, NavKept, N!Arranged, N!inPlace
  <1>8. CASE N!HoldFires
    <2>1. /\ js.hold /\ js' = [js EXCEPT !.hold = FALSE, !.reorder = TRUE, !.dragged = js.press]
          /\ dom' = [dom EXCEPT !.wiggle = N!navAllParts(dom)] /\ set' = set /\ world' = world
      BY <1>8 DEF N!HoldFires
    <2>2. js' \in NavJs /\ js'.reorder /\ NavGesture(js, world)'
      BY <2>1 DEF NavJs, NavGesture
    <2>3. N!navAllParts(dom) \subseteq N!Items
      BY DEF NavFull
    <2>4. /\ dom' \in NavDom /\ dom'.left = dom.left /\ dom'.right = dom.right
          /\ dom'.wired = dom.wired /\ dom'.wiggle = N!navAllParts(dom)
      BY <2>1, <2>3 DEF NavDom
    <2>5. NavFull(dom)'
      BY <2>4 DEF NavFull, TwoTiles, N!navAllParts
    <2>6. NavHeld(js, dom)'
      BY <2>1, <2>4 DEF NavHeld, NavJs, N!navAllParts
    <2> QED BY <2>1, <2>2, <2>4, <2>5, <2>6 DEF NavSaved, TwoTiles, NavKept
  <1>9. CASE N!MoveEarly
    <2>1. /\ ~js.reorder /\ js' = [js EXCEPT !.hold = FALSE, !.press = None]
          /\ set' = set /\ dom' = dom /\ world' = world
      BY <1>9 DEF N!MoveEarly, N!cancelHold
    <2>2. /\ js' \in NavJs /\ js'.reorder = js.reorder /\ js'.timer = js.timer
          /\ NavGesture(js, world)'
      BY <2>1 DEF NavJs, NavGesture
    <2>3. NavHeld(js, dom)'
      BY <2>1 DEF NavHeld, NavJs, N!navAllParts
    <2> QED BY <2>1, <2>2, <2>3
            DEF NavSaved, NavFull, TwoTiles, N!navAllParts, NavKept, N!Arranged, N!inPlace
  <1>10. CASE N!Drag
    <2> DEFINE i == js.dragged
    <2>1. PICK other \in N!navAllParts(dom) \ {i}, after \in BOOLEAN :
              dom' = [dom EXCEPT !.left = N!Beside(@, i, other, after),
                                 !.right = N!Beside(@, i, other, after)]
      BY <1>10 DEF N!Drag
    <2>2. /\ i # None /\ js' = [js EXCEPT !.timer = TRUE, !.moved = TRUE]
          /\ set' = set /\ world' = world
      BY <1>10 DEF N!Drag, N!Seen, NavJs
    <2>3. /\ js' \in NavJs /\ js'.timer /\ js'.reorder = js.reorder /\ NavGesture(js, world)'
      BY <2>2 DEF NavJs, NavGesture
    <2> DEFINE l == N!Beside(dom.left, i, other, after)
               r == N!Beside(dom.right, i, other, after)
    <2>4. dom' = [left |-> l, right |-> r, wiggle |-> dom.wiggle, wired |-> dom.wired]
      BY <2>1 DEF NavDom
    <2>5. /\ N!IsTile(l)
          /\ N!In(l) = IF other \in N!In(dom.left) THEN N!In(dom.left) \cup {i} ELSE N!In(dom.left) \ {i}
          /\ N!IsTile(r)
          /\ N!In(r) = IF other \in N!In(dom.right) THEN N!In(dom.right) \cup {i} ELSE N!In(dom.right) \ {i}
      <3>1. N!IsTile(dom.left) /\ N!IsTile(dom.right) /\ other # i
        BY <2>1 DEF NavFull, TwoTiles
      <3> HIDE DEF i
      <3>2. /\ N!IsTile(l)
            /\ N!In(l) = IF other \in N!In(dom.left) THEN N!In(dom.left) \cup {i}
                                                    ELSE N!In(dom.left) \ {i}
        BY <3>1, TileBeside
      <3>3. /\ N!IsTile(r)
            /\ N!In(r) = IF other \in N!In(dom.right) THEN N!In(dom.right) \cup {i}
                                                     ELSE N!In(dom.right) \ {i}
        BY <3>1, TileBeside
      <3> QED BY <3>2, <3>3
    <2> HIDE DEF l, r
    <2>6. dom'.left = l /\ dom'.right = r /\ dom'.wiggle = dom.wiggle /\ dom'.wired = dom.wired
      BY <2>4
    <2>7. i \in N!In(dom.left) \cup N!In(dom.right)
      BY <2>2 DEF NavHeld, N!navAllParts
    <2>8. N!In(l) \cup N!In(r) = N!In(dom.left) \cup N!In(dom.right) /\ N!In(l) \cap N!In(r) = {}
      BY <2>1, <2>5, <2>7 DEF NavFull, TwoTiles, N!navAllParts
    <2>9. NavFull(dom)'
      BY <2>5, <2>6, <2>8 DEF NavFull, TwoTiles, N!navAllParts
    <2>10. dom' \in NavDom
      <3>1. N!In(l) \subseteq N!Items /\ N!In(r) \subseteq N!Items
        BY <2>8 DEF NavFull, N!navAllParts
      <3> QED BY <2>4, <2>5, <3>1 DEF NavDom, N!IsTile
    <2>11. NavHeld(js, dom)'
      <3>1. N!navAllParts(dom') = N!navAllParts(dom)
        BY <2>6, <2>8 DEF N!navAllParts
      <3> QED BY <2>2, <3>1 DEF NavHeld, NavJs, N!navAllParts
    <2> QED BY <2>2, <2>3, <2>6, <2>9, <2>10, <2>11 DEF NavSaved, TwoTiles, NavKept
  <1>11. CASE N!PointerUp
    <2> DEFINE o == [left |-> dom.left, right |-> dom.right]
    <2>1. /\ world' = [world EXCEPT !.pressed = FALSE, !.escaped = @ /\ js.dragged = None]
          /\ dom' = IF js.reorder THEN [dom EXCEPT !.wiggle = {}] ELSE dom
          /\ set' = IF js.dragged # None THEN [set EXCEPT !.order = o] ELSE set
      BY <1>11 DEF N!PointerUp, N!saveNavOrder
    <2>2. /\ js' \in NavJs /\ ~js'.reorder /\ js'.dragged = None /\ js'.press = None
          /\ ~js'.hold /\ js'.truce = js.truce /\ js'.timer = js.timer
      <3>1. CASE js.reorder
        <4>1. js' = [js EXCEPT !.hold = FALSE, !.press = None, !.reorder = FALSE, !.dragged = None,
                               !.moved = FALSE, !.suppress = @ \/ (js.reorder /\ ~js.moved)]
          BY <1>11, <3>1 DEF N!PointerUp, N!exitReorder, N!cancelHold, NavJs
        <4> QED BY <4>1 DEF NavJs
      <3>2. CASE ~js.reorder
        <4>1. js' = [js EXCEPT !.hold = FALSE, !.press = None,
                               !.suppress = @ \/ (js.reorder /\ ~js.moved)]
          BY <1>11, <3>2 DEF N!PointerUp, N!cancelHold, NavJs
        <4> QED BY <3>2, <4>1 DEF NavJs, NavGesture
      <3> QED BY <3>1, <3>2
    <2>3. /\ world' \in NavWorld /\ world'.opponent = world.opponent
          /\ world'.stood = world.stood
          /\ world'.escaped = (world.escaped /\ js.dragged = None)
      BY <2>1 DEF NavWorld
    <2>4. /\ dom' \in NavDom /\ dom'.left = dom.left /\ dom'.right = dom.right
          /\ dom'.wired = dom.wired /\ dom'.wiggle = {}
      BY <2>1 DEF NavDom
    <2>5. NavFull(dom)' /\ NavGesture(js, world)' /\ NavHeld(js, dom)'
      BY <2>2, <2>3, <2>4 DEF NavFull, TwoTiles, N!navAllParts, NavGesture, NavHeld
    <2>6. CASE js.dragged # None
      <3>1. set' = [on |-> set.on, order |-> o]
        BY <2>1, <2>6
      <3>2. o \in NavOrders /\ TwoTiles(o)
        BY DEF NavOrders, NavDom, NavFull, TwoTiles
      <3>3. N!Arranged(dom', o)
        <4>1. /\ N!Only(dom.left, N!In(dom.left)) = dom.left
              /\ N!Only(dom.right, N!In(dom.right)) = dom.right
              /\ N!Only(dom.left, N!navAllParts(dom)) = dom.left
              /\ N!Only(dom.right, N!navAllParts(dom)) = dom.right
          BY TileAll DEF NavFull, TwoTiles, N!navAllParts
        <4> QED BY <2>4, <4>1 DEF N!Arranged, N!inPlace, N!navAllParts
      <3> HIDE DEF o
      <3>4. set' \in [on : BOOLEAN, order : NavOrders \cup {None}] /\ NavSaved(set)'
        BY <3>1, <3>2 DEF NavSaved, TwoTiles
      <3> QED BY <2>2, <2>3, <2>4, <2>5, <3>1, <3>3, <3>4 DEF NavKept
    <2>7. CASE js.dragged = None
      <3>1. set' = set
        BY <2>1, <2>7
      <3>2. world'.escaped = world.escaped
        BY <2>3, <2>7 DEF NavWorld
      <3>3. NavKept(set, dom, js, world)'
        BY <2>2, <2>3, <2>4, <2>7, <3>1, <3>2
           DEF NavKept, NavGesture, N!Arranged, N!inPlace, N!navAllParts
      <3> QED BY <2>2, <2>3, <2>4, <2>5, <3>1, <3>3 DEF NavSaved, TwoTiles
    <2> QED BY <2>6, <2>7
  <1>12. CASE N!Escape
    <2>1. /\ js' = [js EXCEPT !.hold = FALSE, !.press = None, !.reorder = FALSE,
                              !.dragged = None, !.moved = FALSE]
          /\ dom' = [dom EXCEPT !.wiggle = {}]
          /\ world' = [world EXCEPT !.escaped = TRUE] /\ set' = set
      BY <1>12 DEF N!Escape, N!exitReorder, N!cancelHold, NavJs
    <2>2. js' \in NavJs /\ world' \in NavWorld /\ world'.escaped /\ NavGesture(js, world)'
      BY <2>1 DEF NavJs, NavWorld, NavGesture
    <2>3. /\ dom' \in NavDom /\ dom'.left = dom.left /\ dom'.right = dom.right
          /\ dom'.wired = dom.wired /\ dom'.wiggle = {}
      BY <2>1 DEF NavDom
    <2>4. NavFull(dom)'
      BY <2>3 DEF NavFull, TwoTiles, N!navAllParts
    <2>5. NavHeld(js, dom)'
      BY <2>1, <2>3 DEF NavHeld, NavJs, N!navAllParts
    <2> QED BY <2>1, <2>2, <2>3, <2>4, <2>5 DEF NavSaved, TwoTiles, NavKept
  <1>13. CASE N!Click
    <2>1. /\ js' = [js EXCEPT !.suppress = FALSE] /\ set' = set /\ dom' = dom /\ world' = world
      BY <1>13 DEF N!Click
    <2>2. /\ js' \in NavJs /\ js'.reorder = js.reorder /\ js'.timer = js.timer
          /\ NavGesture(js, world)'
      BY <2>1 DEF NavJs, NavGesture
    <2>3. NavHeld(js, dom)'
      BY <2>1 DEF NavHeld, NavJs, N!navAllParts
    <2> QED BY <2>1, <2>2, <2>3
            DEF NavSaved, NavFull, TwoTiles, N!navAllParts, NavKept, N!Arranged, N!inPlace
  <1> QED BY <1>0, <1>1, <1>2, <1>3, <1>4, <1>5, <1>6, <1>7, <1>8, <1>9, <1>10, <1>11, <1>12, <1>13
          DEF N!Next, N!User

\* What the invariant promises of a page.
LEMMA NavSafe == NavInv => N!TypeOK /\ N!OrderIsKept
  <1> SUFFICES ASSUME NavInv PROVE N!TypeOK /\ N!OrderIsKept
    OBVIOUS
  <1> USE DEF NavInv
  <1>1. set.on \in BOOLEAN
    OBVIOUS
  <1>2. set.order # None => \A side \in {"left", "right"} : N!IsTile(set.order[side])
    BY DEF NavSaved, TwoTiles
  <1>3. /\ dom.wired \cup dom.wiggle \subseteq N!navAllParts(dom)
        /\ N!IsTile(dom.left) /\ N!IsTile(dom.right) /\ N!In(dom.left) \cap N!In(dom.right) = {}
        /\ N!navAllParts(dom) \cup Late = N!Items
    BY DEF NavFull, TwoTiles
  <1>4. /\ js.dragged \in N!Items \cup {None} /\ js.press \in N!Items \cup {None}
        /\ js.tries \in 0..MaxTries - 1
    BY DEF NavJs
  <1>5. world.changes \in 0..NavChanges
    BY DEF NavWorld
  <1>6. N!TypeOK
    BY <1>1, <1>2, <1>3, <1>4, <1>5 DEF N!TypeOK
  <1>7. N!OrderIsKept
    BY DEF N!OrderIsKept, N!Calm, N!Quiet, NavGesture, NavKept
  <1> QED BY <1>6, <1>7

-----------------------------------------------------------------------------
(* The pages together *)

IInv ==
    /\ page \in Pages
    /\ page = "docker" => DockInv
    /\ page = "row" => RowInv
    /\ page = "vms" => VmsInv
    /\ page = "plugins" => PlugInv
    /\ page = "nav" => NavInv
    /\ page = "header" => HeadInv
    /\ page = "settings" => GridInv
    /\ page = "main" => MainInv

LEMMA InitHolds == Init => IInv
  <1> SUFFICES ASSUME Init PROVE IInv
    OBVIOUS
  <1>1. CASE page = "docker" /\ D!Init
    BY <1>1, DockInit DEF IInv, Pages
  <1>2. CASE page = "row" /\ R!Init
    BY <1>2, RowInit DEF IInv, Pages
  <1>3. CASE page = "vms" /\ V!Init
    BY <1>3, VmsInit DEF IInv, Pages
  <1>4. CASE page = "plugins" /\ P!Init
    BY <1>4, PlugInit DEF IInv, Pages
  <1>5. CASE page = "nav" /\ N!Init
    BY <1>5, NavInit DEF IInv, Pages
  <1>6. CASE page = "header" /\ H!Init
    BY <1>6, HeadInit DEF IInv, Pages
  <1>7. CASE page = "settings" /\ S!Init
    BY <1>7, GridInit DEF IInv, Pages
  <1>8. CASE page = "main" /\ M!Init
    BY <1>8, MainInit DEF IInv, Pages
  <1> QED BY <1>1, <1>2, <1>3, <1>4, <1>5, <1>6, <1>7, <1>8 DEF Init

\* A step is one of the page that is followed.
LEMMA StepHolds == IInv /\ [Next]_vars => IInv'
  <1> SUFFICES ASSUME IInv, [Next]_vars PROVE IInv'
    OBVIOUS
  <1>1. page' = page /\ page \in Pages
    BY DEF Next, On, vars, IInv
  <1>2. CASE page = "docker"
    <2>1. DockInv /\ (D!Next \/ UNCHANGED D!vars)
      BY <1>2 DEF IInv, Next, On, vars, D!vars
    <2> QED BY <1>1, <1>2, <2>1, DockStep DEF IInv
  <1>3. CASE page = "row"
    <2>1. RowInv /\ (R!Next \/ UNCHANGED R!vars)
      BY <1>3 DEF IInv, Next, On, vars, R!vars
    <2> QED BY <1>1, <1>3, <2>1, RowStep DEF IInv
  <1>4. CASE page = "vms"
    <2>1. VmsInv /\ (V!Next \/ UNCHANGED V!vars)
      BY <1>4 DEF IInv, Next, On, vars, V!vars
    <2> QED BY <1>1, <1>4, <2>1, VmsStep DEF IInv
  <1>5. CASE page = "plugins"
    <2>1. PlugInv /\ (P!Next \/ UNCHANGED P!vars)
      BY <1>5 DEF IInv, Next, On, vars, P!vars
    <2> QED BY <1>1, <1>5, <2>1, PlugStep DEF IInv
  <1>6. CASE page = "nav"
    <2>1. NavInv /\ (N!Next \/ UNCHANGED N!vars)
      BY <1>6 DEF IInv, Next, On, vars, N!vars
    <2> QED BY <1>1, <1>6, <2>1, NavStep DEF IInv
  <1>7. CASE page = "header"
    <2>1. HeadInv /\ (H!Next \/ UNCHANGED H!vars)
      BY <1>7 DEF IInv, Next, On, vars, H!vars
    <2> QED BY <1>1, <1>7, <2>1, HeadStep DEF IInv
  <1>8. CASE page = "settings"
    <2>1. GridInv /\ (S!Next \/ UNCHANGED S!vars)
      BY <1>8 DEF IInv, Next, On, vars, S!vars
    <2> QED BY <1>1, <1>8, <2>1, GridStep DEF IInv
  <1>9. CASE page = "main"
    <2>1. MainInv /\ (M!Next \/ UNCHANGED M!vars)
      BY <1>9 DEF IInv, Next, On, vars, M!vars
    <2> QED BY <1>1, <1>9, <2>1, MainStep DEF IInv
  <1> QED BY <1>1, <1>2, <1>3, <1>4, <1>5, <1>6, <1>7, <1>8, <1>9 DEF Pages

\* What the pages' invariants promise, page by page.
LEMMA SafeHolds == IInv => TypeOK /\ LooksAsSet /\ NativeIsWhole
  <1> SUFFICES ASSUME IInv PROVE TypeOK /\ LooksAsSet /\ NativeIsWhole
    OBVIOUS
  <1>1. page = "docker" => D!TypeOK /\ D!LooksAsSet /\ D!ListIsNeverLost
    BY DockSafe DEF IInv
  <1>2. page = "row" => R!TypeOK /\ R!LooksAsSet
    BY RowSafe DEF IInv
  <1>3. page = "vms" => V!TypeOK /\ V!LooksAsSet /\ V!ColumnsInStep
    BY VmsSafe DEF IInv
  <1>4. page = "plugins" => P!TypeOK /\ P!LooksAsSet
    BY PlugSafe DEF IInv
  <1>5. page = "nav" => N!TypeOK /\ N!OrderIsKept
    BY NavSafe DEF IInv
  <1>6. page = "header" => H!TypeOK /\ H!LooksAsSet
    BY HeadSafe DEF IInv
  <1>7. page = "settings" => S!TypeOK /\ S!LooksAsSet
    BY GridSafe DEF IInv
  <1>8. page = "main" => M!TypeOK /\ M!LooksAsSet /\ M!IsWhole
    BY MainSafe DEF IInv
  <1>9. page \in Pages
    BY DEF IInv
  <1> QED BY <1>1, <1>2, <1>3, <1>4, <1>5, <1>6, <1>7, <1>8, <1>9
          DEF TypeOK, LooksAsSet, NativeIsWhole, Pages

\* Every page's state is of its type: nodes are marked as the scripts mark them, timers,
\* calls and events are those that the scripts start.
THEOREM TypeCorrect == Spec => []TypeOK
  <1>1. Init => IInv
    BY InitHolds
  <1>2. IInv /\ [Next]_vars => IInv'
    BY StepHolds
  <1>3. IInv => TypeOK
    BY SafeHolds
  <1> QED BY <1>1, <1>2, <1>3, PTL DEF Spec

\* At rest a page is what the settings of now say: no sequence of switching areas on and
\* off, of other tabs' changes, renderings by Unraid, late answers and late observers
\* leaves a colour, a badge, a column or a listener of an earlier setting behind, or lacks
\* one of the present one.  (docker.js, vms.js, plugins.js, header.js, settingsgrid.js,
\* shares.js: each script's boot, storage event, observer and teardown.)
THEOREM PagesLookAsSet == Spec => []LooksAsSet
  <1>1. Init => IInv
    BY InitHolds
  <1>2. IInv /\ [Next]_vars => IInv'
    BY StepHolds
  <1>3. IInv => LooksAsSet
    BY SafeHolds
  <1> QED BY <1>1, <1>2, <1>3, PTL DEF Spec

\* What belongs to Unraid stays whole: the Docker list is never hidden without cards in
\* its place, rows and heads of tables have the same columns, no control goes with a
\* section's head, and the menu keeps the order that was saved - for menus of any items.
THEOREM NativeStaysWhole == Spec => []NativeIsWhole
  <1>1. Init => IInv
    BY InitHolds
  <1>2. IInv /\ [Next]_vars => IInv'
    BY StepHolds
  <1>3. IInv => NativeIsWhole
    BY SafeHolds
  <1> QED BY <1>1, <1>2, <1>3, PTL DEF Spec
=============================================================================

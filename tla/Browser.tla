------------------------------- MODULE Browser -------------------------------
(***************************************************************************)
(* The scripts of the plugin in one window of a browser.  Each works on    *)
(* nodes of its own: the Docker page (its list and cards, and what a row   *)
(* says of its container), the VMs page, the Plugins page, the Start page,  *)
(* the tiles of /Settings and /Tools, and on every page the menu's order   *)
(* and the top bar.  They share the settings and nothing else, so a behaviour follows  *)
(* one of them - "page" says which - and a property holds in all of them.  *)
(***************************************************************************)
EXTENDS Naturals

CONSTANTS
    None, Raw,
    Columns, ColViews, Colours,             \* DockerTab
    Accents,                                \* PluginsPage
    Left, Right, Late, Opponents, MaxTries, \* NavOrder
    Readings, Feeds, HeaderColours,         \* HeaderBar
    MaxActions, MaxFaults,                  \* RowState
    Widths, Progress,                       \* MainPage
    MaxChanges,                             \* bounds of the pages, one for each: the menu
    NavChanges, HeaderChanges, MainChanges  \* and the bar have more to interleave, /Main less

\* What stands beside None or Raw: as a value of the page, of a load or of a call.
Words == {"running", "paused", "exited", "transient", "asked", "ok", "error",
          "start", "stop", "pause", "unpause", "restart", "dash", "wait", "value",
          "checking", "derived", "wide", "taken", "badged", "accent", "rainbow"}

ASSUME SentinelsAssumption ==
    /\ None \notin Colours \cup Readings \cup Feeds \cup Widths \cup Progress \cup Words
    /\ Raw \notin Accents \cup Widths \cup Words
    /\ "checking" \notin Accents /\ "derived" \notin Widths
ASSUME ColoursAssumption ==
    /\ Colours \subseteq {"plain", "tint", "rainbow"}
    /\ HeaderColours \subseteq {"accent", "rainbow", "active"}
ASSUME ReadingsAssumption == Readings # {}
ASSUME BoundsAssumption  ==
    /\ MaxTries \in Nat \ {0}
    /\ {MaxActions, MaxFaults, MaxChanges, NavChanges, HeaderChanges, MainChanges} \subseteq Nat

VARIABLES
    page,                   \* the script that is followed
    set, dom, js, world     \* as that script's module has them

vars == <<page, set, dom, js, world>>

D == INSTANCE DockerTab
V == INSTANCE VmsPage
P == INSTANCE PluginsPage
N == INSTANCE NavOrder WITH MaxChanges <- NavChanges
H == INSTANCE HeaderBar WITH MaxChanges <- HeaderChanges
S == INSTANCE SettingsGrid
M == INSTANCE MainPage WITH MaxChanges <- MainChanges
R == INSTANCE RowState

\* No column is called like a mark that is not of a column.
ASSUME ColumnsAssumption == ColViews \subseteq SUBSET Columns /\ Columns \cap D!Named = {}

\* The menu's items are in one tile each, and late ones are icons.
ASSUME ItemsAssumption ==
    /\ N!IsTile(Left) /\ N!IsTile(Right) /\ N!In(Left) \cap N!In(Right) = {}
    /\ Late \subseteq N!In(Right) /\ None \notin N!Items

Pages == {"docker", "row", "vms", "plugins", "nav", "header", "settings", "main"}

Init ==
    \/ page = "docker"   /\ D!Init
    \/ page = "row"      /\ R!Init
    \/ page = "vms"      /\ V!Init
    \/ page = "plugins"  /\ P!Init
    \/ page = "nav"      /\ N!Init
    \/ page = "header"   /\ H!Init
    \/ page = "settings" /\ S!Init
    \/ page = "main"     /\ M!Init

On(p) == page = p /\ UNCHANGED page

Next ==
    \/ On("docker")   /\ D!Next
    \/ On("row")      /\ R!Next
    \/ On("vms")      /\ V!Next
    \/ On("plugins")  /\ P!Next
    \/ On("nav")      /\ N!Next
    \/ On("header")   /\ H!Next
    \/ On("settings") /\ S!Next
    \/ On("main")     /\ M!Next

-----------------------------------------------------------------------------
(* Fairness: timers run, events are delivered, calls are answered or fail.  Nobody has   *)
(* to close an editor, to end a gesture or to have Unraid render a list again.  The page *)
(* stays the same, so one weak fairness for an action of each page is the fairness of    *)
(* those actions.                                                                        *)

First ==
    \/ On("docker")   /\ D!Sweep
    \/ On("row")      /\ R!Sweep
    \/ On("vms")      /\ V!Sweep
    \/ On("plugins")  /\ P!Repaint
    \/ On("nav")      /\ N!Pass
    \/ On("header")   /\ H!MenuPass
    \/ On("settings") /\ S!Observed
    \/ On("main")     /\ M!Pass

Second ==
    \/ On("docker")   /\ D!StorageView
    \/ On("row")      /\ R!Land
    \/ On("vms")      /\ V!Storage
    \/ On("plugins")  /\ P!Storage
    \/ On("nav")      /\ N!Rebuild
    \/ On("header")   /\ H!Storage
    \/ On("settings") /\ S!Storage
    \/ On("main")     /\ M!Storage

Third ==
    \/ On("docker")   /\ D!StorageTheming
    \/ On("row")      /\ R!Poll
    \/ On("vms")      /\ V!Poll
    \/ On("plugins")  /\ P!Adopt
    \/ On("nav")      /\ N!TruceEnds
    \/ On("header")   /\ H!ProfilePass
    \/ On("main")     /\ M!Posted

Fourth ==
    \/ On("docker")   /\ D!StorageOther
    \/ On("row")      /\ R!Listed
    \/ On("vms")      /\ V!SweepStats
    \/ On("plugins")  /\ P!LatePaint

Fifth ==
    \/ On("row")      /\ R!Executed
    \/ On("vms")      /\ V!teardown
    \/ On("plugins")  /\ P!PinLoop

Sixth ==
    \/ On("row")      /\ R!Answered
    \/ On("vms")      /\ V!Rearm

Fairness == /\ WF_vars(First) /\ WF_vars(Second) /\ WF_vars(Third)
            /\ WF_vars(Fourth) /\ WF_vars(Fifth) /\ WF_vars(Sixth)

Spec == Init /\ [][Next]_vars /\ Fairness

-----------------------------------------------------------------------------
(* Properties: those of the pages *)

TypeOK ==
    CASE page = "docker"  -> D!TypeOK [] page = "row"    -> R!TypeOK
      [] page = "vms"     -> V!TypeOK [] page = "nav"    -> N!TypeOK
      [] page = "plugins" -> P!TypeOK [] page = "header" -> H!TypeOK
      [] page = "settings" -> S!TypeOK [] page = "main" -> M!TypeOK

\* At rest a page is what the settings of now say, whatever was switched on and off,
\* rendered again by Unraid, added late or answered out of order before.
LooksAsSet ==
    CASE page = "docker"  -> D!LooksAsSet [] page = "row"    -> R!LooksAsSet
      [] page = "vms"     -> V!LooksAsSet [] page = "header" -> H!LooksAsSet
      [] page = "plugins" -> P!LooksAsSet [] page = "settings" -> S!LooksAsSet
      [] page = "main"    -> M!LooksAsSet [] page = "nav"   -> TRUE

\* What belongs to Unraid stays whole: the Docker list is not hidden without the cards in
\* its place, the heads of the VM table and of the disk table have the columns their rows
\* have, no control of Unraid goes with a section's head, and the menu keeps the order
\* that was saved.
NativeIsWhole ==
    /\ page = "docker" => D!ListIsNeverLost
    /\ page = "vms"    => V!ColumnsInStep
    /\ page = "nav"    => N!OrderIsKept
    /\ page = "main"   => M!IsWhole

\* A script that answers its own writes comes to rest: on the VMs page, on the Plugins
\* page, on the Start page (which may load itself again, once), and against Unraid's Connect in the menu.
Quiesces ==
    <>[](/\ page = "vms"     => V!AtRest
         /\ page = "plugins" => P!AtRest
         /\ page = "main"    => M!AtRest
         /\ page = "nav"     => N!AtRest)

\* What Unraid takes away comes back: the badges of rendered rows, bell and burger beside
\* the menu; and a badge says in the end what its container does.
ComesBack ==
    /\ []<>(/\ page = "docker" => D!Back
            /\ page = "header" => H!Back)
    /\ \/ <>[](page = "row" => R!BadgeIsRight)
       \/ []<>(page = "row" /\ set.menu)
=============================================================================

----------------------------- MODULE ConfigSync -----------------------------
(***************************************************************************)
(* Browser tabs and the engine's configuration (docker.js, settings.js).   *)
(* Every writer reads the whole document, replaces its own fields and puts *)
(* all of it back: GET /config, then PUT /config.  The UI's own settings   *)
(* live in localStorage, one per origin; what is written there is mirrored *)
(* into the document 0.8 s later and adopted back by every load.           *)
(*                                                                         *)
(* The document is a map of fields: one per UI setting, one per container  *)
(* (its watchdog, schedules, idle stop or cap), one per Settings card.     *)
(* The answers of a request are steps of their own: the engine reads       *)
(* (Answer), the tab gets the answer (Land), the engine writes (Store).    *)
(***************************************************************************)
EXTENDS Naturals, FiniteSets

CONSTANTS
    DockerTabs, SettingsTabs,   \* tabs that show the Docker page, the Settings page
    Origin,                     \* of a tab: tabs of one origin share localStorage
    UIKeys, Containers, Cards,  \* the fields of the document
    Values, NoVal,
    Requests, None,             \* slots for requests in flight; an empty slot
    MaxWrites, MaxFaults        \* bounds: changes by users; failed calls and reloads

Tabs   == DockerTabs \cup SettingsTabs
Fields == UIKeys \cup Containers \cup Cards

ASSUME TabsAssumption    == DockerTabs \cap SettingsTabs = {} /\ None \notin Tabs
ASSUME ValuesAssumption  == NoVal \notin Values
ASSUME BoundsAssumption  == MaxWrites \in Nat /\ MaxFaults \in Nat

Document == [Fields -> Values \cup {NoVal}]

\* "sent": a PUT whose page is gone.
Ops    == {"load", "push", "save", "card", "import", "reset", "sent"}
Locked == {"card", "import", "reset"}

Request == [tab : Tabs, op : Ops, fields : SUBSET Fields, val : Values \cup {NoVal},
            step : {"wait", "get", "got", "put"}, doc : Document]

VARIABLES
    server,     \* the engine's configuration
    local,      \* localStorage, per origin
    pending,    \* uiPending, per tab
    timer,      \* uiSyncT is set, per tab
    started,    \* uiSeeded of a Docker tab; the Settings page's first load is under way
    request,    \* calls in flight
    writes, faults,
    chosen,     \* the user's latest choice of every setting
    lastCard    \* the page whose card changed a field last

tabState == <<pending, timer, started>>
counters == <<writes, faults>>
vars     == <<server, local, tabState, request, counters, chosen, lastCard>>

Store0 == [k \in UIKeys |-> NoVal]

Init ==
    /\ server = [f \in Fields |-> NoVal]
    /\ local = [o \in {Origin[t] : t \in Tabs} |-> Store0]
    /\ pending = [t \in Tabs |-> {}]
    /\ timer = [t \in Tabs |-> FALSE]
    /\ started = [t \in Tabs |-> FALSE]
    /\ request = [i \in Requests |-> None]
    /\ writes = 0 /\ faults = 0
    /\ chosen = Store0
    /\ lastCard = [f \in Fields |-> None]

-----------------------------------------------------------------------------
(* Requests *)

Empty == [f \in Fields |-> NoVal]

New(t, op, fields, val, step) ==
    [tab |-> t, op |-> op, fields |-> fields, val |-> val, step |-> step, doc |-> Empty]

Free(i) == request[i] = None

At(i, step) == ~Free(i) /\ request[i].step = step

\* withConfigLock: a call runs when the one before it, of the same page, is settled.
Running(i, t) == /\ ~Free(i) /\ request[i].tab = t
                 /\ request[i].op \in Locked /\ request[i].step # "wait"
Unlocked_Always(t) == TRUE

Unlocked(t) == \A i \in Requests : ~Running(i, t)

Begin(i) ==
    /\ At(i, "wait")
    /\ Unlocked(request[i].tab)
    /\ request' = [request EXCEPT ![i].step = "get"]
    /\ UNCHANGED <<server, local, tabState, counters, chosen, lastCard>>

\* The engine answers GET /config.
Answer(i) ==
    /\ At(i, "get")
    /\ request' = [request EXCEPT ![i].step = "got", ![i].doc = server]
    /\ UNCHANGED <<server, local, tabState, counters, chosen, lastCard>>

\* location.reload() and a reload by the user: what the page had in memory is gone,
\* a PUT that is on its way is not.
Gone(t, r) == [i \in Requests |->
    IF r[i] = None \/ r[i].tab # t THEN r[i]
    ELSE IF r[i].step = "put" THEN [r[i] EXCEPT !.op = "sent"] ELSE None]

Forget(t) ==
    /\ pending' = [pending EXCEPT ![t] = {}]
    /\ timer' = [timer EXCEPT ![t] = FALSE]
    /\ started' = [started EXCEPT ![t] = FALSE]

\* What follows a PUT, or a call that failed: import and reset reload the page.
Settle(i) ==
    LET t == request[i].tab
        rest == [request EXCEPT ![i] = None]
    IN  IF request[i].op \in {"import", "reset"}
        THEN Forget(t) /\ request' = Gone(t, rest)
        ELSE request' = rest /\ UNCHANGED tabState

\* handlePutConfig replaces the document.
Store(i) ==
    /\ At(i, "put")
    /\ server' = request[i].doc
    /\ lastCard' = [f \in Fields |->
          IF request[i].doc[f] = server[f] THEN lastCard[f]
          ELSE IF request[i].op \in Locked THEN request[i].tab ELSE None]
    /\ Settle(i)
    /\ UNCHANGED <<local, counters, chosen>>

\* A failed call or a reload, within the bound.
Fault == faults < MaxFaults /\ faults' = faults + 1

\* The engine or the proxy fails; the PUT was not done.
Fail(i) ==
    /\ ~Free(i) /\ request[i].step # "wait"
    /\ Fault
    /\ Settle(i)
    /\ UNCHANGED <<server, local, writes, chosen, lastCard>>

-----------------------------------------------------------------------------
(* What the tab does with the answer to its GET *)

Stored(t) == local[Origin[t]]

\* The document the tab puts back: as it was read, but for its own fields.
Merged(r, val) == [f \in Fields |->
    IF f \notin r.fields THEN r.doc[f]
    ELSE IF r.op = "push" THEN Stored(r.tab)[f] ELSE val]

LandPush(i) ==
    /\ At(i, "got") /\ request[i].op = "push"
    /\ request' = [request EXCEPT ![i].step = "put", ![i].doc = Merged(request[i], NoVal)]
    /\ pending' = [pending EXCEPT ![request[i].tab] = {}]
    /\ UNCHANGED <<server, local, timer, started, counters, chosen, lastCard>>

\* saveBandwidth, saveEditor, import, reset: the values are those of the click.
LandSave(i) ==
    /\ At(i, "got") /\ request[i].op \in {"save", "import", "reset"}
    /\ request' = [request EXCEPT ![i].step = "put", ![i].doc = Merged(request[i], request[i].val)]
    /\ UNCHANGED <<server, local, tabState, counters, chosen, lastCard>>

\* saveNotify, saveShape: the card's content at this moment.
LandCard(i) ==
    /\ At(i, "got") /\ request[i].op = "card"
    /\ \E val \in Values :
          request' = [request EXCEPT ![i].step = "put", ![i].doc = Merged(request[i], val)]
    /\ UNCHANGED <<server, local, tabState, counters, chosen, lastCard>>

Adopted_Whole(doc, t) == [f \in Fields |-> IF doc[f] # NoVal THEN doc[f] ELSE NoVal]

Adopted_FirstOnly(doc, t) ==
    [k \in UIKeys |-> IF Stored(t)[k] = NoVal THEN doc[k] ELSE Stored(t)[k]]

Adopted(doc, t) == [k \in UIKeys |-> IF doc[k] # NoVal THEN doc[k] ELSE Stored(t)[k]]

\* A load adopts the mirror; where there is none yet, it seeds it with what this
\* origin has, through pushUISettings, which takes every pending key along.  A
\* Docker tab does so once, the Settings page in its only load.
LandLoad(i) ==
    /\ At(i, "got") /\ request[i].op = "load"
    /\ LET t    == request[i].tab
           doc  == request[i].doc
           mine == {k \in UIKeys : Stored(t)[k] # NoVal}
           seed == /\ t \in SettingsTabs \/ ~started[t]
                   /\ \A k \in UIKeys : doc[k] = NoVal
           keys == pending[t] \cup mine
       IN  /\ local' = [local EXCEPT ![Origin[t]] = Adopted(doc, t)]
           /\ started' = [started EXCEPT ![t] = @ \/ seed]
           /\ IF seed /\ mine # {}
              THEN /\ pending' = [pending EXCEPT ![t] = keys]
                   /\ request' = [request EXCEPT ![i] = New(t, "push", keys, NoVal, "get")]
              ELSE /\ request' = [request EXCEPT ![i] = None]
                   /\ UNCHANGED pending
    /\ UNCHANGED <<server, timer, counters, chosen, lastCard>>

-----------------------------------------------------------------------------
(* What starts a request *)

Start(i, r) == Free(i) /\ request' = [request EXCEPT ![i] = r]

\* A change by a user, within the bound.
Act == writes < MaxWrites /\ writes' = writes + 1

\* localStorage.setItem on a page that mirrors it.
SetItem(t, k, v) ==
    /\ Act
    /\ local' = [local EXCEPT ![Origin[t]][k] = v]
    /\ pending' = [pending EXCEPT ![t] = @ \cup {k}]
    /\ timer' = [timer EXCEPT ![t] = TRUE]
    /\ chosen' = [chosen EXCEPT ![k] = v]
    /\ UNCHANGED <<server, started, request, faults, lastCard>>

\* del(): removeItem is not mirrored.
RemoveItem(t, k) ==
    /\ t \in SettingsTabs
    /\ Act
    /\ local' = [local EXCEPT ![Origin[t]][k] = NoVal]
    /\ chosen' = [chosen EXCEPT ![k] = NoVal]
    /\ UNCHANGED <<server, tabState, request, faults, lastCard>>

\* The timer of pushUISettings.
PushTimer(i, t) ==
    /\ timer[t]
    /\ timer' = [timer EXCEPT ![t] = FALSE]
    /\ IF pending[t] = {}
       THEN UNCHANGED request
       ELSE Start(i, New(t, "push", pending[t], NoVal, "get"))
    /\ UNCHANGED <<server, local, pending, started, counters, chosen, lastCard>>

\* loadConfig, every 9 s of a Docker tab.
Load(i, t) ==
    /\ t \in DockerTabs
    /\ Start(i, New(t, "load", {}, NoVal, "get"))
    /\ UNCHANGED <<server, local, tabState, counters, chosen, lastCard>>

\* The Settings page loads once.
BootLoad(i, t) ==
    /\ t \in SettingsTabs /\ ~started[t]
    /\ Start(i, New(t, "load", {}, NoVal, "get"))
    /\ started' = [started EXCEPT ![t] = TRUE]
    /\ UNCHANGED <<server, local, pending, timer, counters, chosen, lastCard>>

\* saveBandwidth and the configuration's part of saveEditor.
SaveContainer(i, t, c) ==
    /\ t \in DockerTabs
    /\ Act
    /\ \E v \in Values \cup {NoVal} : Start(i, New(t, "save", {c}, v, "get"))
    /\ UNCHANGED <<server, local, tabState, faults, chosen, lastCard>>

\* saveNotify, saveShape.
SaveCard(i, t, c) ==
    /\ t \in SettingsTabs
    /\ Act
    /\ Start(i, New(t, "card", {c}, NoVal, "wait"))
    /\ UNCHANGED <<server, local, tabState, faults, chosen, lastCard>>

\* Import: a raw write, then the mirror, then a reload.
Import(i, t, keys, v) ==
    /\ t \in SettingsTabs /\ keys # {}
    /\ Act
    /\ local' = [local EXCEPT ![Origin[t]] = [k \in UIKeys |-> IF k \in keys THEN v ELSE @[k]]]
    /\ chosen' = [k \in UIKeys |-> IF k \in keys THEN v ELSE chosen[k]]
    /\ Start(i, New(t, "import", keys, v, "wait"))
    /\ UNCHANGED <<server, tabState, faults, lastCard>>

\* Reset all: localStorage and the mirror are emptied, then a reload.
Reset(i, t) ==
    /\ t \in SettingsTabs
    /\ Act
    /\ local' = [local EXCEPT ![Origin[t]] = Store0]
    /\ chosen' = Store0
    /\ Start(i, New(t, "reset", UIKeys, NoVal, "wait"))
    /\ UNCHANGED <<server, tabState, faults, lastCard>>

Reload(t) ==
    /\ Fault
    /\ Forget(t)
    /\ request' = Gone(t, request)
    /\ UNCHANGED <<server, local, writes, chosen, lastCard>>

-----------------------------------------------------------------------------
Progress(i) == Begin(i) \/ Answer(i) \/ LandPush(i) \/ LandSave(i) \/ LandCard(i)
               \/ LandLoad(i) \/ Store(i)

Next ==
    \/ \E i \in Requests : Progress(i) \/ Fail(i)
    \/ \E t \in Tabs, k \in UIKeys : RemoveItem(t, k) \/ \E v \in Values : SetItem(t, k, v)
    \/ \E i \in Requests, t \in Tabs :
          \/ PushTimer(i, t) \/ Load(i, t) \/ BootLoad(i, t) \/ Reset(i, t)
          \/ \E c \in Containers : SaveContainer(i, t, c)
          \/ \E c \in Cards : SaveCard(i, t, c)
          \/ \E keys \in SUBSET UIKeys, v \in Values : Import(i, t, keys, v)
    \/ \E t \in Tabs : Reload(t)

\* Calls are answered, timers fire.  A slot that is taken is a limit of the model, not
\* of the browser: hence strong fairness for what needs one.
Fairness ==
    /\ \A i \in Requests : WF_vars(Progress(i))
    /\ \A t \in Tabs : SF_vars(\E i \in Requests : PushTimer(i, t) \/ BootLoad(i, t))
    /\ \A t \in DockerTabs : SF_vars(\E i \in Requests : Load(i, t))

Spec     == Init /\ [][Next]_vars
FairSpec == Spec /\ Fairness

-----------------------------------------------------------------------------
(* Properties *)

TypeOK ==
    /\ server \in Document
    /\ local \in [{Origin[t] : t \in Tabs} -> [UIKeys -> Values \cup {NoVal}]]
    /\ pending \in [Tabs -> SUBSET UIKeys]
    /\ timer \in [Tabs -> BOOLEAN]
    /\ started \in [Tabs -> BOOLEAN]
    /\ request \in [Requests -> Request \cup {None}]
    /\ writes \in 0..MaxWrites /\ faults \in 0..MaxFaults
    /\ chosen \in [UIKeys -> Values \cup {NoVal}]
    /\ lastCard \in [Fields -> Tabs \cup {None}]

\* settings.js:197-199: the cards of one page "can't lose each other's field".  A locked
\* save never takes back what an earlier locked save of its page wrote last.
KeepsCards(i) ==
    request[i].op \in Locked =>
        \A f \in Fields \ request[i].fields :
            lastCard[f] = request[i].tab => server'[f] = server[f]
LockHolds == [][\A i \in Requests : Store(i) => KeepsCards(i)]_vars

\* docker.js:171: "mirrored into the engine config and adopted back on every origin".
\* Once users leave the settings alone, every origin with a Docker page open shows the
\* mirror's values, and keeps showing them, whatever was lost or late before.
Agree == \A t \in DockerTabs, k \in UIKeys :
    server[k] # NoVal => local[Origin[t]][k] = server[k]
Converges == <>[]Agree

\* The same sentence for a single write: when nothing is pending or under way, a setting
\* has the value its user gave it last, in the mirror too.  The code does not keep this.
Quiet == /\ \A i \in Requests : Free(i)
         /\ \A t \in Tabs : ~timer[t]
ChoiceSticks == Quiet => \A k \in UIKeys : chosen[k] # NoVal => server[k] = chosen[k]
=============================================================================

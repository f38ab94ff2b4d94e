-------------------------- MODULE ConfigSyncProofs --------------------------
(***************************************************************************)
(* The lock of the Settings page keeps its cards apart, for every set of   *)
(* tabs, origins and fields, whatever the other writers do meanwhile.      *)
(***************************************************************************)
EXTENDS ConfigSync, TLAPS

\* The parts of TypeOK.
RequestsOK == request \in [Requests -> Request \cup {None}]
EngineOK   == server \in Document /\ lastCard \in [Fields -> Tabs \cup {None}]
PagesOK    == /\ pending \in [Tabs -> SUBSET UIKeys]
              /\ timer \in [Tabs -> BOOLEAN]
              /\ started \in [Tabs -> BOOLEAN]
ChoicesOK  == /\ local \in [{Origin[t] : t \in Tabs} -> [UIKeys -> Values \cup {NoVal}]]
              /\ chosen \in [UIKeys -> Values \cup {NoVal}]
CountsOK   == writes \in 0..MaxWrites /\ faults \in 0..MaxFaults

LEMMA TypeParts == RequestsOK /\ EngineOK /\ PagesOK /\ ChoicesOK /\ CountsOK => TypeOK
BY DEF TypeOK, RequestsOK, EngineOK, PagesOK, ChoicesOK, CountsOK

\* A new request is a request.
LEMMA NewIsRequest ==
    ASSUME NEW t \in Tabs, NEW op \in Ops, NEW fields \in SUBSET Fields,
           NEW val \in Values \cup {NoVal}, NEW step \in {"wait", "get", "got", "put"}
    PROVE  New(t, op, fields, val, step) \in Request
<1>1. Empty \in Document
  BY DEF Empty, Document
<1> QED
  BY <1>1 DEF New, Request

\* What a tab puts back is a document.
LEMMA MergedIsDocument ==
    ASSUME NEW r \in Request, NEW val \in Values \cup {NoVal}, ChoicesOK,
           r.op = "push" => r.fields \subseteq UIKeys
    PROVE  Merged(r, val) \in Document
<1>1. r.tab \in Tabs /\ r.doc \in Document
  BY DEF Request
<1>2. Stored(r.tab) \in [UIKeys -> Values \cup {NoVal}]
  BY <1>1 DEF ChoicesOK, Stored
<1> QED
  BY <1>1, <1>2 DEF Merged, Document

\* A push carries settings only.
PushesSettings ==
    \A i \in Requests : request[i] # None /\ request[i].op = "push" => request[i].fields \subseteq UIKeys

\* What a reload leaves of the requests is well typed and adds nothing.
LEMMA GoneKeeps ==
    ASSUME NEW t \in Tabs, NEW r \in [Requests -> Request \cup {None}]
    PROVE  /\ Gone(t, r) \in [Requests -> Request \cup {None}]
           /\ \A i \in Requests : Gone(t, r)[i] = r[i] \/ Gone(t, r)[i] = None
                                  \/ Gone(t, r)[i].op = "sent"
<1>1. \A i \in Requests : r[i] # None /\ r[i].step = "put" =>
          /\ [r[i] EXCEPT !.op = "sent"] \in Request
          /\ [r[i] EXCEPT !.op = "sent"].op = "sent"
  BY DEF Request, Ops
<1> QED
  BY <1>1 DEF Gone

\* A call that is over is gone from the slots; whatever else changes there is "sent".
LEMMA Settled ==
    ASSUME RequestsOK, PagesOK, NEW i \in Requests, ~Free(i), Settle(i)
    PROVE  /\ RequestsOK' /\ PagesOK'
           /\ request'[i] = None \/ request'[i].op = "sent"
           /\ \A j \in Requests : j # i => \/ request'[j] = request[j] \/ request'[j] = None
                                           \/ request'[j].op = "sent"
<1> DEFINE rest == [request EXCEPT ![i] = None]
<1>1. request[i] \in Request /\ request[i].tab \in Tabs
  BY DEF RequestsOK, Free, Request
<1>2. rest \in [Requests -> Request \cup {None}]
  BY DEF RequestsOK
<1>3. CASE request[i].op \in {"import", "reset"}
  <2>1. request' = Gone(request[i].tab, rest) /\ Forget(request[i].tab)
    BY <1>3 DEF Settle
  <2>2. PagesOK'
    BY <2>1 DEF PagesOK, Forget
  <2> HIDE DEF rest
  <2>3. /\ RequestsOK'
        /\ \A j \in Requests : \/ request'[j] = rest[j] \/ request'[j] = None
                               \/ request'[j].op = "sent"
    BY <1>1, <1>2, <2>1, GoneKeeps DEF RequestsOK
  <2> QED
    BY <2>2, <2>3 DEF rest, RequestsOK
<1>4. CASE request[i].op \notin {"import", "reset"}
  <2>1. request' = rest /\ UNCHANGED <<pending, timer, started>>
    BY <1>4 DEF Settle, tabState
  <2> QED
    BY <1>2, <2>1 DEF RequestsOK, PagesOK
<1> QED
  BY <1>3, <1>4

-----------------------------------------------------------------------------
(* Types *)

Typed == RequestsOK /\ EngineOK /\ PagesOK /\ ChoicesOK /\ CountsOK /\ PushesSettings

LEMMA InitTyped == Init => Typed
<1> SUFFICES ASSUME Init PROVE Typed
  OBVIOUS
<1>1. EngineOK /\ ChoicesOK
  BY DEF Init, EngineOK, ChoicesOK, Document, Store0
<1>2. PagesOK /\ RequestsOK /\ CountsOK
  BY BoundsAssumption DEF Init, PagesOK, RequestsOK, CountsOK
<1> QED
  BY <1>1, <1>2 DEF Init, Typed, PushesSettings

\* A slot is filled with a request that is well typed.
LEMMA FillTyped ==
    ASSUME Typed, NEW i \in Requests, NEW r \in Request,
           r.op = "push" => r.fields \subseteq UIKeys,
           request' = [request EXCEPT ![i] = r]
    PROVE  RequestsOK' /\ PushesSettings'
BY DEF Typed, RequestsOK, PushesSettings

\* Users and timers.
LEMMA StartTyped ==
    ASSUME Typed, NEW i \in Requests, NEW t \in Tabs,
           \/ PushTimer(i, t) \/ Load(i, t) \/ BootLoad(i, t) \/ Reset(i, t)
           \/ \E c \in Containers : SaveContainer(i, t, c)
           \/ \E c \in Cards : SaveCard(i, t, c)
           \/ \E keys \in SUBSET UIKeys, v \in Values : Import(i, t, keys, v)
    PROVE  Typed'
<1> USE DEF Typed
<1>1. CASE PushTimer(i, t)
  <2>1. EngineOK' /\ PagesOK' /\ ChoicesOK' /\ CountsOK'
    BY <1>1 DEF PushTimer, EngineOK, PagesOK, ChoicesOK, CountsOK, counters
  <2>2. CASE pending[t] = {}
    BY <1>1, <2>1, <2>2 DEF PushTimer, RequestsOK, PushesSettings
  <2>3. CASE pending[t] # {}
    <3>1. /\ pending[t] \subseteq UIKeys
          /\ request' = [request EXCEPT ![i] = New(t, "push", pending[t], NoVal, "get")]
      BY <1>1, <2>3 DEF PushTimer, Start, PagesOK
    <3>2. New(t, "push", pending[t], NoVal, "get") \in Request
      BY <3>1, NewIsRequest DEF Ops, Fields
    <3> QED
      BY <2>1, <3>1, <3>2, FillTyped DEF New
  <2> QED
    BY <2>2, <2>3
<1>2. CASE Load(i, t) \/ BootLoad(i, t)
  <2>1. EngineOK' /\ PagesOK' /\ ChoicesOK' /\ CountsOK'
    BY <1>2 DEF Load, BootLoad, EngineOK, PagesOK, ChoicesOK, CountsOK, counters, tabState
  <2>2. New(t, "load", {}, NoVal, "get") \in Request
    BY NewIsRequest DEF Ops
  <2>3. request' = [request EXCEPT ![i] = New(t, "load", {}, NoVal, "get")]
    BY <1>2 DEF Load, BootLoad, Start
  <2> QED
    BY <2>1, <2>2, <2>3, FillTyped DEF New
<1>3. CASE Reset(i, t)
  <2>1. EngineOK' /\ PagesOK' /\ ChoicesOK' /\ CountsOK'
    BY <1>3, BoundsAssumption DEF Reset, Act, EngineOK, PagesOK, ChoicesOK, CountsOK, tabState, Store0
  <2>2. New(t, "reset", UIKeys, NoVal, "wait") \in Request
    BY NewIsRequest DEF Ops, Fields
  <2>3. request' = [request EXCEPT ![i] = New(t, "reset", UIKeys, NoVal, "wait")]
    BY <1>3 DEF Reset, Start
  <2> QED
    BY <2>1, <2>2, <2>3, FillTyped DEF New
<1>4. CASE \E c \in Containers : SaveContainer(i, t, c)
  <2> PICK c \in Containers : SaveContainer(i, t, c)
    BY <1>4
  <2>1. EngineOK' /\ PagesOK' /\ ChoicesOK' /\ CountsOK'
    BY BoundsAssumption DEF SaveContainer, Act, EngineOK, PagesOK, ChoicesOK, CountsOK, tabState
  <2>2. PICK v \in Values \cup {NoVal} :
            request' = [request EXCEPT ![i] = New(t, "save", {c}, v, "get")]
    BY DEF SaveContainer, Start
  <2>3. New(t, "save", {c}, v, "get") \in Request
    BY NewIsRequest DEF Ops, Fields
  <2> QED
    BY <2>1, <2>2, <2>3, FillTyped DEF New
<1>5. CASE \E c \in Cards : SaveCard(i, t, c)
  <2> PICK c \in Cards : SaveCard(i, t, c)
    BY <1>5
  <2>1. EngineOK' /\ PagesOK' /\ ChoicesOK' /\ CountsOK'
    BY BoundsAssumption DEF SaveCard, Act, EngineOK, PagesOK, ChoicesOK, CountsOK, tabState
  <2>2. request' = [request EXCEPT ![i] = New(t, "card", {c}, NoVal, "wait")]
    BY DEF SaveCard, Start
  <2>3. New(t, "card", {c}, NoVal, "wait") \in Request
    BY NewIsRequest DEF Ops, Fields
  <2> QED
    BY <2>1, <2>2, <2>3, FillTyped DEF New
<1>6. CASE \E keys \in SUBSET UIKeys, v \in Values : Import(i, t, keys, v)
  <2> PICK keys \in SUBSET UIKeys, v \in Values : Import(i, t, keys, v)
    BY <1>6
  <2>1. EngineOK' /\ PagesOK' /\ CountsOK'
    BY BoundsAssumption DEF Import, Act, EngineOK, PagesOK, CountsOK, tabState
  <2>2. ChoicesOK'
    BY DEF Import, ChoicesOK
  <2>3. request' = [request EXCEPT ![i] = New(t, "import", keys, v, "wait")]
    BY DEF Import, Start
  <2>4. New(t, "import", keys, v, "wait") \in Request
    BY NewIsRequest DEF Ops, Fields
  <2> QED
    BY <2>1, <2>2, <2>3, <2>4, FillTyped DEF New
<1> QED
  BY <1>1, <1>2, <1>3, <1>4, <1>5, <1>6

\* Calls and answers.
LEMMA ProgressTyped ==
    ASSUME Typed, NEW i \in Requests, Progress(i) \/ Fail(i)
    PROVE  Typed'
<1> USE DEF Typed
<1>1. ~Free(i) /\ request[i] \in Request
  BY DEF Progress, Fail, Begin, Answer, LandPush, LandSave, LandCard, LandLoad, Store, At,
         RequestsOK, Free
<1>2. /\ request[i].tab \in Tabs /\ request[i].doc \in Document
      /\ request[i].val \in Values \cup {NoVal}
  BY <1>1 DEF Request
<1>3. CASE Begin(i)
  <2>1. EngineOK' /\ PagesOK' /\ ChoicesOK' /\ CountsOK'
    BY <1>3 DEF Begin, EngineOK, PagesOK, ChoicesOK, CountsOK, tabState, counters
  <2> DEFINE r == [request[i] EXCEPT !.step = "get"]
  <2>2. r \in Request /\ (r.op = "push" => r.fields \subseteq UIKeys)
    BY <1>1 DEF Request, PushesSettings, Free
  <2>3. request' = [request EXCEPT ![i] = r]
    BY <1>3 DEF Begin
  <2> HIDE DEF r
  <2> QED
    BY <2>1, <2>2, <2>3, FillTyped
<1>4. CASE Answer(i)
  <2>1. EngineOK' /\ PagesOK' /\ ChoicesOK' /\ CountsOK'
    BY <1>4 DEF Answer, EngineOK, PagesOK, ChoicesOK, CountsOK, tabState, counters
  <2> DEFINE r == [request[i] EXCEPT !.step = "got", !.doc = server]
  <2>2. r \in Request /\ (r.op = "push" => r.fields \subseteq UIKeys)
    BY <1>1 DEF Request, PushesSettings, Free, EngineOK
  <2>3. request' = [request EXCEPT ![i] = r]
    BY <1>4 DEF Answer
  <2> HIDE DEF r
  <2> QED
    BY <2>1, <2>2, <2>3, FillTyped
<1>5. CASE LandPush(i) \/ LandSave(i) \/ LandCard(i)
  <2>1. EngineOK' /\ PagesOK' /\ ChoicesOK' /\ CountsOK'
    BY <1>2, <1>5 DEF LandPush, LandSave, LandCard, EngineOK, PagesOK, ChoicesOK, CountsOK,
                      tabState, counters
  <2>2. PICK val \in Values \cup {NoVal} :
            request' = [request EXCEPT ![i].step = "put", ![i].doc = Merged(request[i], val)]
    BY <1>2, <1>5 DEF LandPush, LandSave, LandCard
  <2>3. request[i].op = "push" => request[i].fields \subseteq UIKeys
    BY <1>1 DEF PushesSettings, Free
  <2> DEFINE r == [request[i] EXCEPT !.step = "put", !.doc = Merged(request[i], val)]
  <2>4. Merged(request[i], val) \in Document
    BY <1>1, <2>3, MergedIsDocument
  <2>5. r \in Request /\ (r.op = "push" => r.fields \subseteq UIKeys)
    BY <1>1, <2>3, <2>4 DEF Request
  <2>6. request' = [request EXCEPT ![i] = r]
    BY <2>2
  <2> HIDE DEF r
  <2> QED
    BY <2>1, <2>5, <2>6, FillTyped
<1>6. CASE LandLoad(i)
  <2> DEFINE t == request[i].tab
             keys == pending[t] \cup {k \in UIKeys : Stored(t)[k] # NoVal}
  <2>1. EngineOK' /\ CountsOK'
    BY <1>6 DEF LandLoad, EngineOK, CountsOK, counters
  <2>2. ChoicesOK'
    <3>1. Stored(t) \in [UIKeys -> Values \cup {NoVal}]
      BY <1>2 DEF ChoicesOK, Stored
    <3>2. Adopted(request[i].doc, t) \in [UIKeys -> Values \cup {NoVal}]
      BY <1>2, <3>1 DEF Adopted, Document, Fields
    <3> QED
      BY <1>2, <1>6, <3>2 DEF LandLoad, ChoicesOK
  <2>3. keys \subseteq UIKeys
    BY <1>2 DEF PagesOK
  <2>4. PagesOK'
    BY <1>2, <1>6, <2>3 DEF LandLoad, PagesOK
  <2>5. \/ request' = [request EXCEPT ![i] = New(t, "push", keys, NoVal, "get")]
        \/ request' = [request EXCEPT ![i] = None]
    BY <1>6 DEF LandLoad
  <2>6. New(t, "push", keys, NoVal, "get") \in Request
    BY <1>2, <2>3, NewIsRequest DEF Ops, Fields
  <2>7. New(t, "push", keys, NoVal, "get").fields \subseteq UIKeys
    BY <2>3 DEF New
  <2> HIDE DEF t, keys
  <2>8. RequestsOK' /\ PushesSettings'
    <3>1. CASE request' = [request EXCEPT ![i] = None]
      BY <3>1 DEF RequestsOK, PushesSettings
    <3> QED
      BY <2>5, <2>6, <2>7, <3>1, FillTyped
  <2> QED
    BY <2>1, <2>2, <2>4, <2>8
<1>7. CASE Store(i) \/ Fail(i)
  <2>1. Settle(i)
    BY <1>7 DEF Store, Fail
  <2>2. RequestsOK' /\ PagesOK'
    BY <1>1, <2>1, Settled
  <2>3. PushesSettings'
    BY <1>1, <2>1, Settled DEF PushesSettings
  <2>4. ChoicesOK' /\ CountsOK'
    BY <1>7, BoundsAssumption DEF Store, Fail, Fault, ChoicesOK, CountsOK, counters
  <2>5. EngineOK'
    BY <1>2, <1>7 DEF Store, Fail, EngineOK
  <2> QED
    BY <2>2, <2>3, <2>4, <2>5
<1> QED
  BY <1>3, <1>4, <1>5, <1>6, <1>7 DEF Progress

LEMMA NextTyped == Typed /\ [Next]_vars => Typed'
<1> SUFFICES ASSUME Typed, [Next]_vars PROVE Typed'
  OBVIOUS
<1> USE DEF Typed
<1>1. ASSUME NEW t \in Tabs, NEW k \in UIKeys,
             RemoveItem(t, k) \/ \E v \in Values : SetItem(t, k, v)
      PROVE  Typed'
  <2>1. RequestsOK' /\ EngineOK' /\ PushesSettings'
    BY <1>1 DEF RemoveItem, SetItem, RequestsOK, EngineOK, PushesSettings
  <2>2. CASE RemoveItem(t, k)
    <3>1. PagesOK' /\ CountsOK'
      BY <2>2, BoundsAssumption DEF RemoveItem, Act, PagesOK, CountsOK, tabState
    <3>2. ChoicesOK'
      BY <2>2 DEF RemoveItem, ChoicesOK
    <3> QED
      BY <2>1, <3>1, <3>2
  <2>3. CASE \E v \in Values : SetItem(t, k, v)
    <3> PICK v \in Values : SetItem(t, k, v)
      BY <2>3
    <3>1. PagesOK'
      BY DEF SetItem, PagesOK
    <3>2. ChoicesOK'
      BY DEF SetItem, ChoicesOK
    <3>3. CountsOK'
      BY BoundsAssumption DEF SetItem, Act, CountsOK
    <3> QED
      BY <2>1, <3>1, <3>2, <3>3
  <2> QED
    BY <1>1, <2>2, <2>3
<1>2. ASSUME NEW t \in Tabs, Reload(t) PROVE Typed'
  <2>1. request' = Gone(t, request) /\ EngineOK' /\ ChoicesOK' /\ CountsOK'
    BY <1>2, BoundsAssumption DEF Reload, Fault, EngineOK, ChoicesOK, CountsOK
  <2>2. PagesOK'
    BY <1>2 DEF Reload, Forget, PagesOK
  <2>3. RequestsOK' /\ PushesSettings'
    BY <2>1, GoneKeeps DEF RequestsOK, PushesSettings
  <2> QED
    BY <2>1, <2>2, <2>3
<1>3. CASE UNCHANGED vars
  BY <1>3 DEF vars, tabState, counters, RequestsOK, EngineOK, PagesOK, ChoicesOK, CountsOK,
              PushesSettings
<1> HIDE DEF Typed
<1> QED
  BY <1>1, <1>2, <1>3, StartTyped, ProgressTyped DEF Next

\* Tabs, requests, the engine's document and the ghosts stay what they are meant to be.
THEOREM TypesHold == Spec => []TypeOK
<1>1. Typed => TypeOK
  BY TypeParts DEF Typed
<1> QED
  BY <1>1, InitTyped, NextTyped, PTL DEF Spec

-----------------------------------------------------------------------------
(* The lock *)

\* One locked call of a page is under way at a time.
OneAtATime == \A i, j \in Requests : \A t \in Tabs : Running(i, t) /\ Running(j, t) => i = j

\* What a locked call has read is still so for every field a card of its page wrote last.
ReadIsFresh ==
    \A i \in Requests :
        request[i] # None /\ request[i].op \in Locked /\ request[i].step \in {"got", "put"} =>
            \A f \in Fields \ request[i].fields :
                lastCard[f] = request[i].tab => request[i].doc[f] = server[f]

LockInv == Typed /\ OneAtATime /\ ReadIsFresh

LEMMA LockInit == Init => LockInv
<1> SUFFICES ASSUME Init PROVE LockInv
  OBVIOUS
<1>1. Typed
  BY InitTyped
<1>2. \A i \in Requests : request[i] = None
  BY DEF Init
<1> QED
  BY <1>1, <1>2 DEF LockInv, OneAtATime, ReadIsFresh, Running, Free

\* A step that only drops or orphans requests, or adds ones that hold no lock.
LEMMA Harmless ==
    ASSUME LockInv, UNCHANGED <<server, lastCard>>,
           \A j \in Requests : \/ request'[j] = request[j] \/ request'[j] = None
                               \/ request'[j].op \notin Locked \/ request'[j].step = "wait"
    PROVE  OneAtATime' /\ ReadIsFresh'
BY DEF LockInv, OneAtATime, ReadIsFresh, Running, Free

\* A request goes on: it stays its page's only locked one, and what it holds is fresh.
LEMMA Advances ==
    ASSUME LockInv, UNCHANGED <<server, lastCard>>, NEW i \in Requests, ~Free(i), NEW r,
           request' = [request EXCEPT ![i] = r],
           r.tab = request[i].tab, r.op = request[i].op, r.fields = request[i].fields,
           request[i].step # "wait" \/ Unlocked(request[i].tab),
           r.op \in Locked /\ r.step \in {"got", "put"} =>
               \A f \in Fields \ r.fields : lastCard[f] = r.tab => r.doc[f] = server[f]
    PROVE  OneAtATime' /\ ReadIsFresh'
<1>1. request'[i] = r /\ \A j \in Requests : j # i => request'[j] = request[j]
  BY DEF LockInv, Typed, RequestsOK
<1>2. ReadIsFresh'
  BY <1>1 DEF LockInv, ReadIsFresh
<1>3. \A j \in Requests, t \in Tabs : j # i => (Running(j, t)' <=> Running(j, t))
  BY <1>1 DEF Running, Free
<1>4. \A t \in Tabs : Running(i, t)' =>
          t = request[i].tab /\ (Running(i, t) \/ Unlocked(request[i].tab))
  BY <1>1 DEF Running, Free
<1>5. ASSUME NEW j \in Requests, NEW t \in Tabs, j # i, Running(j, t)', Running(i, t)'
      PROVE  FALSE
  BY <1>3, <1>4, <1>5 DEF LockInv, OneAtATime, Unlocked
<1>6. \A j, k \in Requests, t \in Tabs : j # i /\ k # i /\ Running(j, t)' /\ Running(k, t)' => j = k
  BY <1>3 DEF LockInv, OneAtATime
<1>7. OneAtATime'
  BY <1>5, <1>6 DEF OneAtATime
<1> QED
  BY <1>2, <1>7

LEMMA LockStep == LockInv /\ [Next]_vars => LockInv'
<1> SUFFICES ASSUME LockInv, [Next]_vars PROVE OneAtATime' /\ ReadIsFresh'
  BY NextTyped DEF LockInv
<1>0. RequestsOK /\ EngineOK /\ \A i \in Requests : ~Free(i) => request[i] \in Request
  BY DEF LockInv, Typed, RequestsOK, Free
<1>1. ASSUME NEW i \in Requests, Begin(i) PROVE OneAtATime' /\ ReadIsFresh'
  <2> DEFINE r == [request[i] EXCEPT !.step = "get"]
  <2>1. ~Free(i) /\ request[i] \in Request
    BY <1>0, <1>1 DEF Begin, At
  <2>2. /\ r.tab = request[i].tab /\ r.op = request[i].op /\ r.fields = request[i].fields
        /\ r.step = "get"
    BY <2>1 DEF Request
  <2>3. request' = [request EXCEPT ![i] = r] /\ UNCHANGED <<server, lastCard>>
        /\ Unlocked(request[i].tab)
    BY <1>1 DEF Begin
  <2> HIDE DEF r
  <2> QED
    BY <2>1, <2>2, <2>3, Advances
<1>2. ASSUME NEW i \in Requests, Answer(i) PROVE OneAtATime' /\ ReadIsFresh'
  <2> DEFINE r == [request[i] EXCEPT !.step = "got", !.doc = server]
  <2>1. ~Free(i) /\ request[i] \in Request /\ request[i].step # "wait"
    BY <1>0, <1>2 DEF Answer, At
  <2>2. /\ r.tab = request[i].tab /\ r.op = request[i].op /\ r.fields = request[i].fields
        /\ r.doc = server
    BY <2>1 DEF Request
  <2>3. request' = [request EXCEPT ![i] = r] /\ UNCHANGED <<server, lastCard>>
    BY <1>2 DEF Answer
  <2> HIDE DEF r
  <2> QED
    BY <2>1, <2>2, <2>3, Advances
<1>3. ASSUME NEW i \in Requests, LandPush(i) \/ LandSave(i) \/ LandCard(i)
      PROVE  OneAtATime' /\ ReadIsFresh'
  <2>1. /\ ~Free(i) /\ request[i] \in Request /\ request[i].step = "got"
        /\ UNCHANGED <<server, lastCard>>
    BY <1>0, <1>3 DEF LandPush, LandSave, LandCard, At
  <2>2. PICK val \in Values \cup {NoVal} :
            request' = [request EXCEPT ![i].step = "put", ![i].doc = Merged(request[i], val)]
    BY <1>3, <2>1 DEF LandPush, LandSave, LandCard, Request
  <2> DEFINE r == [request[i] EXCEPT !.step = "put", !.doc = Merged(request[i], val)]
  <2>3. request' = [request EXCEPT ![i] = r]
    BY <2>2
  <2>4. /\ r.tab = request[i].tab /\ r.op = request[i].op /\ r.fields = request[i].fields
        /\ r.doc = Merged(request[i], val)
    BY <2>1 DEF Request
  <2>5. \A f \in Fields \ request[i].fields : Merged(request[i], val)[f] = request[i].doc[f]
    BY DEF Merged
  <2>6. request[i].op \in Locked =>
          \A f \in Fields \ request[i].fields :
              lastCard[f] = request[i].tab => request[i].doc[f] = server[f]
    BY <2>1 DEF LockInv, ReadIsFresh, Free
  <2> HIDE DEF r
  <2> QED
    BY <2>1, <2>3, <2>4, <2>5, <2>6, Advances
<1>4. ASSUME NEW i \in Requests, LandLoad(i) PROVE OneAtATime' /\ ReadIsFresh'
  <2>1. /\ UNCHANGED <<server, lastCard>>
        /\ \A j \in Requests : j # i => request'[j] = request[j]
        /\ request'[i] = None \/ request'[i].op = "push"
    BY <1>0, <1>4 DEF LandLoad, RequestsOK, New
  <2> QED
    BY <2>1, Harmless DEF Locked
<1>5. ASSUME NEW i \in Requests, Store(i) PROVE OneAtATime' /\ ReadIsFresh'
  <2>1. ~Free(i) /\ request[i] \in Request /\ request[i].step = "put" /\ Settle(i)
    BY <1>0, <1>5 DEF Store, At
  <2>2. /\ request'[i] = None \/ request'[i].op = "sent"
        /\ \A j \in Requests : j # i => \/ request'[j] = request[j] \/ request'[j] = None
                                        \/ request'[j].op = "sent"
    BY <2>1, Settled DEF LockInv, Typed
  <2>3. OneAtATime'
    BY <2>2 DEF LockInv, OneAtATime, Running, Free, Locked
  <2>4. ASSUME NEW j \in Requests, request'[j] # None, request'[j].op \in Locked,
               request'[j].step \in {"got", "put"},
               NEW f \in Fields \ request'[j].fields, lastCard'[f] = request'[j].tab
        PROVE  request'[j].doc[f] = server'[f]
    <3>1. j # i /\ request'[j] = request[j]
      BY <2>2, <2>4 DEF Locked
    <3>2. request[j].tab \in Tabs /\ request[j] \in Request
      BY <1>0, <2>4, <3>1 DEF Request, Free
    <3>3. server'[f] = request[i].doc[f]
      BY <1>5 DEF Store
    <3>4. CASE request[i].doc[f] = server[f]
      BY <1>5, <2>4, <3>1, <3>3, <3>4 DEF Store, LockInv, ReadIsFresh
    <3>5. CASE request[i].doc[f] # server[f]
      <4>1. request[i].op \in Locked /\ request[i].tab = request[j].tab
        BY <1>5, <2>4, <3>1, <3>2, <3>5, TabsAssumption DEF Store
      <4>2. Running(i, request[j].tab) /\ Running(j, request[j].tab)
        BY <2>1, <2>4, <3>1, <4>1 DEF Running, Free
      <4> QED
        BY <3>1, <3>2, <4>2 DEF LockInv, OneAtATime
    <3> QED
      BY <3>4, <3>5
  <2> QED
    BY <2>3, <2>4 DEF ReadIsFresh
<1>6. ASSUME NEW i \in Requests, Fail(i) PROVE OneAtATime' /\ ReadIsFresh'
  <2>1. ~Free(i) /\ Settle(i) /\ UNCHANGED <<server, lastCard>>
    BY <1>6 DEF Fail
  <2> QED
    BY <2>1, Settled, Harmless DEF LockInv, Typed, Locked
<1>7. ASSUME NEW t \in Tabs, Reload(t) PROVE OneAtATime' /\ ReadIsFresh'
  BY <1>0, <1>7, GoneKeeps, Harmless DEF Reload, RequestsOK, Locked
<1>8. ASSUME NEW t \in Tabs, NEW k \in UIKeys,
             RemoveItem(t, k) \/ \E v \in Values : SetItem(t, k, v)
      PROVE  OneAtATime' /\ ReadIsFresh'
  BY <1>8, Harmless DEF RemoveItem, SetItem
<1>9. ASSUME NEW i \in Requests, NEW t \in Tabs,
             \/ PushTimer(i, t) \/ Load(i, t) \/ BootLoad(i, t) \/ Reset(i, t)
             \/ \E c \in Containers : SaveContainer(i, t, c)
             \/ \E c \in Cards : SaveCard(i, t, c)
             \/ \E keys \in SUBSET UIKeys, v \in Values : Import(i, t, keys, v)
      PROVE  OneAtATime' /\ ReadIsFresh'
  <2>1. UNCHANGED <<server, lastCard>>
    BY <1>9 DEF PushTimer, Load, BootLoad, Reset, SaveContainer, SaveCard, Import
  <2> DEFINE Filled(r) == request' = [request EXCEPT ![i] = r]
  <2>2. \/ UNCHANGED request
        \/ Filled(New(t, "push", pending[t], NoVal, "get"))
        \/ Filled(New(t, "load", {}, NoVal, "get"))
        \/ Filled(New(t, "reset", UIKeys, NoVal, "wait"))
        \/ \E c \in Containers, v \in Values \cup {NoVal} : Filled(New(t, "save", {c}, v, "get"))
        \/ \E c \in Cards : Filled(New(t, "card", {c}, NoVal, "wait"))
        \/ \E keys \in SUBSET UIKeys, v \in Values : Filled(New(t, "import", keys, v, "wait"))
    <3>1. CASE PushTimer(i, t)
      BY <3>1 DEF PushTimer, Start
    <3>2. CASE Load(i, t) \/ BootLoad(i, t)
      BY <3>2 DEF Load, BootLoad, Start
    <3>3. CASE Reset(i, t)
      BY <3>3 DEF Reset, Start
    <3>4. CASE \E c \in Containers : SaveContainer(i, t, c)
      BY <3>4 DEF SaveContainer, Start
    <3>5. CASE \E c \in Cards : SaveCard(i, t, c)
      BY <3>5 DEF SaveCard, Start
    <3>6. CASE \E keys \in SUBSET UIKeys, v \in Values : Import(i, t, keys, v)
      BY <3>6 DEF Import, Start
    <3> QED
      BY <1>9, <3>1, <3>2, <3>3, <3>4, <3>5, <3>6
  <2>3. \A j \in Requests : \/ request'[j] = request[j]
                            \/ request'[j].op \notin Locked \/ request'[j].step = "wait"
    BY <1>0, <2>2 DEF New, Locked, RequestsOK
  <2> QED
    BY <2>1, <2>3, Harmless
<1>10. CASE UNCHANGED vars
  BY <1>10, Harmless DEF vars
<1> QED
  BY <1>1, <1>2, <1>3, <1>4, <1>5, <1>6, <1>7, <1>8, <1>9, <1>10 DEF Next, Progress

\* A locked save never takes back what an earlier locked save of its page wrote last.
THEOREM CardsKeepEachOther == Spec => LockHolds
<1>1. LockInv => \A i \in Requests : Store(i) => KeepsCards(i)
  <2> SUFFICES ASSUME LockInv, NEW i \in Requests, Store(i), request[i].op \in Locked,
                      NEW f \in Fields \ request[i].fields, lastCard[f] = request[i].tab
               PROVE  server'[f] = server[f]
    BY DEF KeepsCards
  <2> QED
    BY DEF LockInv, ReadIsFresh, Store, At, Free
<1>2. LockInv /\ [Next]_vars => [\A i \in Requests : Store(i) => KeepsCards(i)]_vars
  BY <1>1
<1> QED
  BY <1>2, LockInit, LockStep, PTL DEF Spec, LockHolds
=============================================================================

--------------------------- MODULE MonitorProofs ---------------------------
(***************************************************************************)
(* Proofs about two parts of the monitor.  The watchdog's restart cap, for *)
(* every number of containers, every cap, every window and every sequence  *)
(* of configuration changes; and the loop, for any number of clients, any  *)
(* schedules and ticks of any length: no save is lost, no schedule fires   *)
(* twice in a minute, and none is passed over in a minute left alone.      *)
(*                                                                         *)
(* The two modules share no variable: no theorem speaks of both.           *)
(***************************************************************************)
EXTENDS Watchdog, MonitorLoop, FiniteSetTheorems, TLAPS

-----------------------------------------------------------------------------
(* Watchdog *)

\* The clock never runs behind a recorded attempt.
NotFuture == \A n \in Name : restarts[n] \subseteq 0..tnow /\ attempts[n] \subseteq 0..tnow

IInv == TypeOK /\ HistoryIsExact /\ NotFuture

\* The instants of a history up to now are finitely many.
LEMMA FiniteHistory ==
    ASSUME NEW k \in Nat, NEW S, S \subseteq 0..k
    PROVE  IsFiniteSet(S) /\ Cardinality(S) \in Nat
<1>1. IsFiniteSet(0..k)
  BY FS_Interval
<1> QED BY <1>1, FS_Subset, FS_CardinalityType

LEMMA Constants ==
    /\ NoEntries \in [Name -> Entry] /\ NoList \in [Name -> Container]
    /\ Running \in Container
    /\ \A code \in {"quiet", "crash"} : Exited(code) \in Container
  BY DEF NoEntries, NoList, Running, Entry, Container, Exited

LEMMA InitIInv == Init => IInv
<1> SUFFICES ASSUME Init PROVE IInv
  OBVIOUS
<1>1. TypeOK
  BY Constants, NobodyAssumption, TimeAssumption DEF Init, TypeOK, NoList
<1>2. HistoryIsExact
  BY DEF Init, HistoryIsExact
<1>3. NotFuture
  BY DEF Init, NotFuture
<1> QED BY <1>1, <1>2, <1>3 DEF IInv

\* Whatever does not touch the clock readings and the history keeps both facts.
LEMMA SameHistory ==
    ASSUME IInv, UNCHANGED <<now, tnow, restarts, attempts>>, TypeOK'
    PROVE  IInv'
  BY DEF IInv, HistoryIsExact, NotFuture, InLastHour

\* What Look allows on a container.
LEMMA Pruned ==
    ASSUME IInv, NEW n \in Name
    PROVE  /\ Recent(n) = InLastHour(attempts[n])
           /\ Recent(n) \subseteq 0..tnow
           /\ tnow \in Nat /\ 0..tnow \subseteq 0..now /\ tnow \in 0..now
           /\ IsFiniteSet(Recent(n)) /\ Cardinality(Recent(n)) \in Nat
<1>1. tnow \in Nat /\ 0..tnow \subseteq 0..now /\ tnow \in 0..now
  BY TimeAssumption DEF IInv, TypeOK
<1>2. Recent(n) = InLastHour(attempts[n]) /\ Recent(n) \subseteq 0..tnow
  BY DEF IInv, HistoryIsExact, NotFuture, Recent, InLastHour
<1> QED BY <1>1, <1>2, FiniteHistory

LEMMA ListStep == IInv /\ List => IInv'
<1> SUFFICES ASSUME IInv, List PROVE IInv'
  OBVIOUS
<1>1. /\ now' \in 0..MaxTime /\ now' > now /\ tnow' = now' /\ tnow' > tnow
      /\ 0..now \subseteq 0..now' /\ 0..tnow \subseteq 0..tnow'
      /\ tnow \in Nat /\ tnow' \in Nat
  BY TimeAssumption DEF IInv, TypeOK, List
<1>2. TypeOK'
  BY <1>1 DEF IInv, TypeOK, List
<1>3. HistoryIsExact'
  <2> SUFFICES ASSUME NEW n \in Name
               PROVE  InLastHour(restarts[n])' = InLastHour(attempts[n])'
    BY DEF HistoryIsExact
  <2>1. InLastHour(restarts[n]) = InLastHour(attempts[n])
    BY DEF IInv, HistoryIsExact
  <2>2. restarts'[n] = restarts[n] /\ attempts'[n] = attempts[n]
    BY DEF List
  <2>3. \A t \in restarts[n] \cup attempts[n] : t > tnow' - Hour => t > tnow - Hour
    BY <1>1, HourAssumption DEF IInv, NotFuture
  <2> QED BY <2>1, <2>2, <2>3 DEF InLastHour
<1>4. NotFuture'
  BY <1>1 DEF IInv, NotFuture, List
<1> QED BY <1>2, <1>3, <1>4 DEF IInv

LEMMA GiveUpStep ==
    ASSUME IInv, NEW n \in Name, GiveUp(n)
    PROVE  IInv'
<1>1. TypeOK'
  BY Pruned DEF IInv, TypeOK, GiveUp, Look
<1>2. HistoryIsExact'
  BY DEF IInv, TypeOK, HistoryIsExact, GiveUp, Look, InLastHour, Recent
<1>3. NotFuture'
  BY Pruned DEF IInv, TypeOK, NotFuture, GiveUp, Look
<1> QED BY <1>1, <1>2, <1>3 DEF IInv

LEMMA CallRestartStep ==
    ASSUME IInv, NEW n \in Name, CallRestart(n)
    PROVE  IInv'
<1>1. CASE ~(tcfg[n].max > 0)
  <2>1. TypeOK'
    BY <1>1, NobodyAssumption DEF IInv, TypeOK, CallRestart, Look
  <2> QED BY <1>1, <2>1, SameHistory DEF CallRestart
<1>2. CASE tcfg[n].max > 0
  <2>1. /\ restarts' = [restarts EXCEPT ![n] = Recent(n) \cup {tnow}]
        /\ attempts' = [attempts EXCEPT ![n] = @ \cup {tnow}]
        /\ now' = now /\ tnow' = tnow
    BY <1>2 DEF CallRestart, Record
  <2>2. TypeOK'
    <3>1. restarts' \in [Name -> SUBSET (0..now)]
      BY <2>1, Pruned DEF IInv, TypeOK
    <3>2. attempts' \in [Name -> SUBSET (0..now)]
      BY <2>1, Pruned DEF IInv, TypeOK
    <3> QED BY <2>1, <3>1, <3>2, NobodyAssumption DEF IInv, TypeOK, CallRestart, Look
  <2>3. HistoryIsExact'
    BY <2>1 DEF IInv, TypeOK, HistoryIsExact, InLastHour, Recent
  <2>4. NotFuture'
    BY <2>1, Pruned DEF IInv, TypeOK, NotFuture
  <2> QED BY <2>2, <2>3, <2>4 DEF IInv
<1> QED BY <1>1, <1>2

LEMMA Sickened ==
    ASSUME NEW c \in Container
    PROVE  [c EXCEPT !.health = "unhealthy"] \in Container
  BY DEF Container

LEMMA NextIInv == IInv /\ [Next]_vars => IInv'
<1> SUFFICES ASSUME IInv, [Next]_vars PROVE IInv'
  OBVIOUS
<1> USE DEF IInv
<1>1. CASE BeginTick
  BY <1>1, SameHistory, EntriesAssumption DEF BeginTick, TypeOK
<1>2. CASE ListFails
  BY <1>2, SameHistory, Constants DEF ListFails, TypeOK
<1>3. CASE List
  BY <1>3, ListStep
<1>4. CASE EndTick
  BY <1>4, SameHistory, Constants DEF EndTick, TypeOK
<1>5. CASE RestartReturns
  BY <1>5, SameHistory, Constants, NobodyAssumption DEF RestartReturns, TypeOK
<1>6. ASSUME NEW n \in Name, Pass(n) PROVE IInv'
  BY <1>6, SameHistory DEF Pass, Look, TypeOK
<1>7. ASSUME NEW n \in Name, NEW s \in Container, Become(n, s) PROVE IInv'
  BY <1>7, SameHistory DEF Become, tick, TypeOK
<1>8. ASSUME NEW n \in Name,
             Crash(n) \/ Finish(n) \/ Sicken(n) \/ UserStart(n) \/ UserStop(n)
      PROVE  IInv'
  <2>1. \E s \in Container : Become(n, s)
    <3>1. docker[n] \in Container /\ [docker[n] EXCEPT !.health = "unhealthy"] \in Container
      BY Sickened DEF TypeOK
    <3> QED BY <1>8, <3>1, Constants, StopCodesAssumption
         DEF Crash, Finish, Sicken, UserStart, UserStop
  <2> QED BY <2>1, <1>7
<1>9. ASSUME NEW n \in Name, Configure(n) PROVE IInv'
  BY <1>9, SameHistory DEF Configure, tick, TypeOK
<1>10. CASE DaemonRestarts
  <2>1. TypeOK'
    BY <1>10, Constants, NobodyAssumption DEF DaemonRestarts, TypeOK
  <2>2. HistoryIsExact' /\ NotFuture'
    BY <1>10 DEF DaemonRestarts, HistoryIsExact, NotFuture, InLastHour
  <2> QED BY <2>1, <2>2
<1>11. CASE UNCHANGED vars
  BY <1>11, SameHistory DEF vars, tick, TypeOK
<1> QED BY <1>1, <1>2, <1>3, <1>4, <1>5, <1>6, <1>8, <1>9, <1>10, <1>11, GiveUpStep,
           CallRestartStep DEF Next, Tick, World

\* The histories, pruned and whole, agree at every step, and lie in the past.
THEOREM Invariant == Spec => []IInv
  BY InitIInv, NextIInv, PTL DEF Spec

\* The state keeps its type: the clock of a tick is an instant that has been, and a
\* container is waited for exactly while its restart is under way.
THEOREM TypeCorrect == Spec => []TypeOK
<1>1. IInv => TypeOK
  BY DEF IInv
<1> QED BY <1>1, Invariant, PTL

\* The history the cap is computed from is exact at any moment.
THEOREM HistoryIsExactHolds == Spec => []HistoryIsExact
<1>1. IInv => HistoryIsExact
  BY DEF IInv
<1> QED BY <1>1, Invariant, PTL

\* No hour holds more capped attempts than the cap in force at the last of them.
THEOREM CapHoldsAlways == Spec => CapHolds
<1>1. ASSUME IInv, [Next]_vars, NEW n \in Name, attempts'[n] \notin {attempts[n], {}}
      PROVE  Cardinality(InLastHour(attempts'[n])) <= tcfg[n].max
  <2>1. CallRestart(n) /\ tcfg[n].max > 0
    BY <1>1 DEF Next, Tick, World, BeginTick, ListFails, List, EndTick, RestartReturns,
       Pass, GiveUp, CallRestart, Crash, Finish, Sicken, UserStart, UserStop, Become,
       Configure, DaemonRestarts, vars, tick, IInv, TypeOK
  <2>2. attempts'[n] = attempts[n] \cup {tnow}
    BY <1>1, <2>1 DEF CallRestart, IInv, TypeOK
  <2>3. /\ Recent(n) = InLastHour(attempts[n]) /\ tnow \in Nat
        /\ IsFiniteSet(Recent(n)) /\ Cardinality(Recent(n)) \in Nat
    BY <1>1, Pruned
  <2>4. InLastHour(attempts'[n]) = Recent(n) \cup {tnow}
    BY <2>2, <2>3, HourAssumption DEF InLastHour
  <2>5. Cardinality(Recent(n)) < tcfg[n].max /\ tcfg[n].max \in Nat
    BY <1>1, <2>1 DEF CallRestart, AllowRestart, IInv, TypeOK, Entry
  <2>6. \/ Cardinality(Recent(n) \cup {tnow}) = Cardinality(Recent(n)) + 1
        \/ Recent(n) \cup {tnow} = Recent(n)
    <3>1. CASE tnow \in Recent(n)
      BY <3>1
    <3>2. CASE tnow \notin Recent(n)
      <4>1. IsFiniteSet(Recent(n))
        BY <2>3
      <4> QED BY <3>2, <4>1, FS_AddElement, Zenon
    <3> QED BY <3>1, <3>2
  <2>7. Cardinality(Recent(n) \cup {tnow}) <= tcfg[n].max
    <3>1. CASE Recent(n) \cup {tnow} = Recent(n)
      <4>1. Cardinality(Recent(n)) <= tcfg[n].max
        BY <2>3, <2>5
      <4> QED BY <3>1, <4>1, Zenon
    <3>2. CASE Cardinality(Recent(n) \cup {tnow}) = Cardinality(Recent(n)) + 1
      <4> DEFINE old == Cardinality(Recent(n))
                 new == Cardinality(Recent(n) \cup {tnow})
      <4>1. old \in Nat /\ old < tcfg[n].max /\ tcfg[n].max \in Nat /\ new = old + 1
        BY <2>3, <2>5, <3>2
      <4> HIDE DEF old, new
      <4>2. new <= tcfg[n].max
        BY <4>1
      <4> QED BY <4>2 DEF new
    <3> QED BY <2>6, <3>1, <3>2
  <2> QED BY <2>4, <2>7, Zenon
<1>2. IInv /\ [Next]_vars =>
        [\A n \in Name : attempts'[n] \notin {attempts[n], {}} =>
           Cardinality(InLastHour(attempts'[n])) <= tcfg[n].max]_vars
  BY <1>1
<1> QED BY <1>2, Invariant, PTL DEF Spec, CapHolds

-----------------------------------------------------------------------------
(* MonitorLoop *)

\* A save no tick has read yet is on its way to one.
OnItsWay == loaded < ver => \/ kick \/ unread \/ phase = "load"
                            \/ \E c \in Client : puts[c] = "saved"

LEMMA InitOnItsWay == LoopInit => OnItsWay
  BY DEF LoopInit, OnItsWay

LEMMA NextOnItsWay == LoopTypeOK /\ OnItsWay /\ [LoopNext]_loopVars => OnItsWay'
<1> SUFFICES ASSUME LoopTypeOK, OnItsWay, [LoopNext]_loopVars PROVE OnItsWay'
  OBVIOUS
<1> USE DEF OnItsWay
<1>1. CASE OnTicker \/ OnKick
  BY <1>1 DEF OnTicker, OnKick
<1>2. CASE LoadFails
  BY <1>2 DEF LoadFails
<1>3. CASE Load
  BY <1>3 DEF Load, LoopTypeOK
<1>4. CASE SchedulesDone \/ TickEnds
  BY <1>4 DEF SchedulesDone, TickEnds
<1>5. ASSUME NEW s \in left, Skip(s) \/ Act(s) \/ ActFails(s) PROVE OnItsWay'
  BY <1>5 DEF Skip, Act, ActFails, Next1
<1>6. CASE HalfMinutePasses
  BY <1>6 DEF HalfMinutePasses, loop
<1>7. CASE LoopRestarts
  BY <1>7 DEF LoopRestarts
<1>8. ASSUME NEW c \in Client, Save(c) PROVE OnItsWay'
  BY <1>8 DEF Save, loop, LoopTypeOK
<1>9. ASSUME NEW c \in Client, Kick(c) PROVE OnItsWay'
  BY <1>9 DEF Kick, Kicked, loop
<1>10. CASE UNCHANGED loopVars
  BY <1>10 DEF loopVars, loop
<1> QED BY <1>1, <1>2, <1>3, <1>4, <1>5, <1>6, <1>7, <1>8, <1>9, <1>10 DEF LoopNext, LoopTick

-----------------------------------------------------------------------------
LEMMA MinuteType ==
    ASSUME NEW t \in Nat
    PROVE  Minute(t) \in Nat /\ \A u \in Nat : t <= u => Minute(t) <= Minute(u)
  BY DEF Minute

LEMMA InitLoopType == LoopInit => LoopTypeOK
<1> SUFFICES ASSUME LoopInit PROVE LoopTypeOK
  OBVIOUS
<1>1. /\ time \in 0..MaxHalfMinutes /\ looked \in 0..time /\ ver \in 0..MaxSaves /\ loaded \in 0..ver
      /\ puts \in [Client -> {"idle", "saved"}]
  BY DayAssumption, ConfigsAssumption DEF LoopInit
<1>2. firedAt \in [0..(MinutesPerDay - 1) -> Minutes \cup {NotYet}]
  BY DEF LoopInit
<1>3. /\ tried = {} /\ done = {} /\ twice = FALSE /\ left = {} /\ current = {} /\ saved \in Configs
      /\ phase = "wait" /\ ticker = FALSE /\ kick = FALSE /\ unread = FALSE /\ disturbed = FALSE
  BY DEF LoopInit
<1> QED BY <1>1, <1>2, <1>3 DEF LoopTypeOK

\* What a schedule's turn does to the variables it touches.
LEMMA LoopTurn ==
    ASSUME LoopTypeOK, NEW s \in left, Skip(s) \/ Act(s) \/ ActFails(s)
    PROVE  LoopTypeOK'
<1>1. s \in Schedule /\ s \in current /\ looked \in Nat /\ MaxHalfMinutes \in Nat /\ looked <= MaxHalfMinutes
  BY DayAssumption, ConfigsAssumption DEF LoopTypeOK
<1>2. Minute(looked) \in Minutes
  BY <1>1, MinuteType, DayAssumption, ConfigsAssumption DEF Minutes
<1>3. s.at \in 0..(MinutesPerDay - 1) /\ Occurrence(s) \in (0..(MinutesPerDay - 1)) \X Minutes
  BY <1>1, <1>2 DEF Schedule, Occurrence
<1>4. /\ left' \subseteq current /\ current' = current
      /\ UNCHANGED <<time, ticker, kick, saved, ver, puts, phase, looked, loaded, unread, disturbed>>
  BY DEF Skip, Act, ActFails, Next1, LoopTypeOK
<1>5. firedAt' \in [0..(MinutesPerDay - 1) -> Minutes \cup {NotYet}]
  BY <1>2, <1>3 DEF Skip, Act, ActFails, LoopTypeOK, MinuteKey
<1>6. CASE Skip(s)
  BY <1>4, <1>5, <1>6 DEF Skip, ghost, LoopTypeOK
<1>7. CASE Act(s)
  <2>1. /\ tried' \subseteq (0..(MinutesPerDay - 1)) \X Minutes
        /\ done' \subseteq tried' /\ twice' \in BOOLEAN
    BY <1>3, <1>7 DEF Act, Tried, Done, LoopTypeOK
  <2> QED BY <1>4, <1>5, <2>1 DEF LoopTypeOK
<1>8. CASE ActFails(s)
  <2>1. /\ tried' \subseteq (0..(MinutesPerDay - 1)) \X Minutes
        /\ done' \subseteq tried' /\ twice' \in BOOLEAN
    BY <1>3, <1>8 DEF ActFails, Tried, LoopTypeOK
  <2> QED BY <1>4, <1>5, <2>1 DEF LoopTypeOK
<1> QED BY <1>6, <1>7, <1>8

LEMMA NextLoopType == LoopTypeOK /\ [LoopNext]_loopVars => LoopTypeOK'
<1> SUFFICES ASSUME LoopTypeOK, [LoopNext]_loopVars PROVE LoopTypeOK'
  OBVIOUS
<1> USE DEF LoopTypeOK
<1>1. CASE OnTicker \/ OnKick \/ LoadFails \/ SchedulesDone \/ TickEnds
  BY <1>1 DEF OnTicker, OnKick, LoadFails, SchedulesDone, TickEnds, ghost
<1>2. CASE Load
  <2>1. /\ current' \in Configs /\ left' = current' /\ phase' = "schedules"
        /\ looked' \in 0..time /\ loaded' \in 0..ver /\ unread' = FALSE
    BY <1>2, DayAssumption, ConfigsAssumption DEF Load
  <2> QED BY <1>2, <2>1 DEF Load, ghost
<1>3. ASSUME NEW s \in left, Skip(s) \/ Act(s) \/ ActFails(s) PROVE LoopTypeOK'
  BY <1>3, LoopTurn
<1>4. CASE HalfMinutePasses
  BY <1>4, DayAssumption, ConfigsAssumption DEF HalfMinutePasses, loop, ghost
<1>5. CASE LoopRestarts
  BY <1>5 DEF LoopRestarts, ghost, NotYet
<1>6. ASSUME NEW c \in Client, Save(c) \/ Kick(c) PROVE LoopTypeOK'
  <2>1. CASE Save(c)
    <3>1. ver' \in 0..MaxSaves /\ loaded \in 0..ver' /\ loaded' = loaded
      BY <2>1, DayAssumption, ConfigsAssumption DEF Save, loop
    <3> QED BY <2>1, <3>1 DEF Save, loop, ghost
  <2>2. CASE Kick(c)
    BY <2>2 DEF Kick, Kicked, loop, ghost
  <2> QED BY <1>6, <2>1, <2>2
<1>7. CASE UNCHANGED loopVars
  BY <1>7 DEF loopVars, loop, ghost
<1> QED BY <1>1, <1>2, <1>3, <1>4, <1>5, <1>6, <1>7 DEF LoopNext, LoopTick

\* The loop's state keeps its type: no tick's clock runs ahead of the wall's, what is
\* loaded was saved, and what is marked as done was tried.
THEOREM LoopTypeCorrect == LoopSpec => []LoopTypeOK
  BY InitLoopType, NextLoopType, PTL DEF LoopSpec

\* A loop that waits has read every save, or is kicked, or a PUT is about to kick it.
THEOREM NoSaveIsLost == LoopSpec => []SaveIsPickedUp
<1>1. OnItsWay => SaveIsPickedUp
  BY DEF OnItsWay, SaveIsPickedUp
<1> QED BY <1>1, InitOnItsWay, NextOnItsWay, LoopTypeCorrect, PTL DEF LoopSpec

-----------------------------------------------------------------------------
\* What took effect in the minute of the tick is marked, and nothing has taken effect
\* in a later minute.
Marked ==
    /\ \A o \in done : o[2] <= Minute(looked)
    /\ \A k \in DOMAIN firedAt : <<k, Minute(looked)>> \in done => firedAt[k] = Minute(looked)

OnceInv == LoopTypeOK /\ OncePerMinute /\ Marked

LEMMA InitOnce == LoopInit => OnceInv
  BY InitLoopType DEF LoopInit, OnceInv, OncePerMinute, Marked

\* Steps that neither look at the clock nor act.
LEMMA SameMarks ==
    ASSUME OnceInv, LoopTypeOK', UNCHANGED <<looked, firedAt, done, twice>>
    PROVE  OnceInv'
  BY DEF OnceInv, OncePerMinute, Marked

LEMMA NextOnce ==
    ASSUME OnceInv, [LoopNext]_loopVars
    PROVE  OnceInv'
<1>1. LoopTypeOK'
  BY NextLoopType DEF OnceInv
<1>2. CASE OnTicker \/ OnKick \/ LoadFails \/ SchedulesDone \/ TickEnds
  BY <1>1, <1>2, SameMarks DEF OnTicker, OnKick, LoadFails, SchedulesDone, TickEnds, ghost
<1>3. CASE Load
  <2>1. looked \in Nat /\ time \in Nat /\ looked <= time /\ looked' = time
    BY <1>3, DayAssumption, ConfigsAssumption DEF Load, OnceInv, LoopTypeOK
  <2>2. Minute(looked) \in Nat /\ Minute(time) \in Nat /\ Minute(looked) <= Minute(time)
    BY <2>1, MinuteType
  <2>3. firedAt' = firedAt /\ done' = done /\ twice' = twice
    BY <1>3 DEF Load, ghost
  <2>4. \A o \in done : o[2] \in Nat /\ o[2] <= Minute(looked)
    BY DEF OnceInv, Marked, LoopTypeOK, Minutes
  <2>5. Marked'
    <3>1. \A o \in done : o[2] <= Minute(time)
      BY <2>2, <2>4
    <3>2. ASSUME NEW k \in DOMAIN firedAt, <<k, Minute(time)>> \in done
          PROVE  firedAt[k] = Minute(time)
      <4>1. Minute(time) <= Minute(looked)
        BY <2>4, <3>2
      <4>2. Minute(time) = Minute(looked)
        BY <2>2, <4>1
      <4> QED BY <3>2, <4>2 DEF OnceInv, Marked
    <3> QED BY <2>1, <2>3, <3>1, <3>2 DEF Marked
  <2> QED BY <1>1, <2>3, <2>5 DEF OnceInv, OncePerMinute
<1>4. ASSUME NEW s \in left, Skip(s) PROVE OnceInv'
  BY <1>1, <1>4, SameMarks DEF Skip, ghost
<1>5. ASSUME NEW s \in left, ActFails(s) PROVE OnceInv'
  BY <1>1, <1>5, SameMarks DEF ActFails
<1>6. ASSUME NEW s \in left, Act(s) PROVE OnceInv'
  <2>1. /\ s.at \in DOMAIN firedAt /\ looked \in Nat /\ Minute(looked) \in Nat
        /\ firedAt \in [0..(MinutesPerDay - 1) -> Minutes \cup {NotYet}]
    <3>1. s \in Schedule /\ looked \in Nat
      BY DayAssumption, ConfigsAssumption DEF OnceInv, LoopTypeOK
    <3> QED BY <3>1, MinuteType DEF OnceInv, LoopTypeOK, Schedule
  <2>2. /\ firedAt[s.at] # Minute(looked) /\ looked' = looked
        /\ firedAt' = [firedAt EXCEPT ![s.at] = Minute(looked)]
        /\ done' = done \cup {<<s.at, Minute(looked)>>}
        /\ twice' = (twice \/ <<s.at, Minute(looked)>> \in done)
    BY <1>6 DEF Act, Fires, Done, Occurrence, MinuteKey
  <2>3. <<s.at, Minute(looked)>> \notin done
    BY <2>1, <2>2 DEF OnceInv, Marked
  <2>4. OncePerMinute'
    BY <2>2, <2>3 DEF OnceInv, OncePerMinute
  <2>5. Marked'
    <3>1. \A o \in done' : o[2] <= Minute(looked)
      BY <2>1, <2>2 DEF OnceInv, Marked
    <3>2. ASSUME NEW k \in DOMAIN firedAt', <<k, Minute(looked)>> \in done'
          PROVE  firedAt'[k] = Minute(looked)
      BY <2>1, <2>2, <3>2 DEF OnceInv, Marked
    <3> QED BY <2>2, <3>1, <3>2 DEF Marked
  <2> QED BY <1>1, <2>4, <2>5 DEF OnceInv
<1>7. CASE HalfMinutePasses
  BY <1>1, <1>7, SameMarks DEF HalfMinutePasses, loop, ghost
<1>8. ASSUME NEW c \in Client, Save(c) \/ Kick(c) PROVE OnceInv'
  BY <1>1, <1>8, SameMarks DEF Save, Kick, loop, ghost
<1>9. CASE LoopRestarts
  BY <1>1, <1>9 DEF LoopRestarts, OnceInv, OncePerMinute, Marked
<1>10. CASE UNCHANGED loopVars
  BY <1>1, <1>10, SameMarks DEF loopVars, loop, ghost
<1> QED BY <1>2, <1>3, <1>4, <1>5, <1>6, <1>7, <1>8, <1>9, <1>10 DEF LoopNext, LoopTick

\* No daemon repeats an occurrence of a schedule it was told is done, however often the
\* loop ticks within its minute.
THEOREM OncePerMinuteHolds == LoopSpec => []OncePerMinute
<1>1. OnceInv => OncePerMinute
  BY DEF OnceInv
<1>2. OnceInv /\ [LoopNext]_loopVars => OnceInv'
  BY NextOnce
<1> QED BY <1>1, <1>2, InitOnce, PTL DEF LoopSpec

-----------------------------------------------------------------------------
\* What is marked was tried.
MarkedIsTried == \A k \in DOMAIN firedAt : firedAt[k] # NotYet => <<k, firedAt[k]>> \in tried

\* What is due in this minute has been tried, but for what is left to look at.
Seen(S) == \A s \in saved \ S : Due(s, Minute(time)) => <<s.at, Minute(time)>> \in tried

\* In a half minute that was left alone, the tick is still to come, or it is under way on the
\* saved configuration and in this half minute, or it is over.  (No tick belongs to the first.)
Serving ==
    ~disturbed /\ time # 0 =>
        /\ phase = "wait" => ticker \/ Seen({})
        /\ phase = "schedules" => looked = time /\ current = saved /\ Seen(left)
        /\ phase = "rest" => Seen({})

ServedInv == LoopTypeOK /\ MarkedIsTried /\ Serving

LEMMA InitServed == LoopInit => ServedInv
<1> SUFFICES ASSUME LoopInit PROVE ServedInv
  OBVIOUS
<1>1. \A k \in DOMAIN firedAt : firedAt[k] = NotYet
  BY DEF LoopInit
<1>2. time = 0
  BY DEF LoopInit
<1> QED BY <1>1, <1>2, InitLoopType DEF ServedInv, MarkedIsTried, Serving

LEMMA NextMarkedIsTried ==
    ASSUME LoopTypeOK, MarkedIsTried, [LoopNext]_loopVars
    PROVE  MarkedIsTried'
<1> USE DEF MarkedIsTried
<1>1. CASE OnTicker \/ OnKick \/ LoadFails \/ Load \/ SchedulesDone \/ TickEnds
  BY <1>1 DEF OnTicker, OnKick, LoadFails, Load, SchedulesDone, TickEnds, ghost
<1>2. ASSUME NEW s \in left, Skip(s) PROVE MarkedIsTried'
  BY <1>2 DEF Skip, ghost
<1>3. ASSUME NEW s \in left, ActFails(s) PROVE MarkedIsTried'
  BY <1>3 DEF ActFails, Tried
<1>4. ASSUME NEW s \in left, Act(s) PROVE MarkedIsTried'
  <2>1. firedAt' = [firedAt EXCEPT ![s.at] = Minute(looked)] /\ tried' = tried \cup {<<s.at, Minute(looked)>>}
    BY <1>4 DEF Act, Tried, Occurrence, MinuteKey
  <2> QED BY <2>1
<1>5. CASE HalfMinutePasses
  BY <1>5 DEF HalfMinutePasses, loop, ghost
<1>6. CASE LoopRestarts
  <2>1. \A k \in DOMAIN firedAt' : firedAt'[k] = NotYet
    BY <1>6 DEF LoopRestarts
  <2> QED BY <2>1 DEF NotYet
<1>7. ASSUME NEW c \in Client, Save(c) \/ Kick(c) PROVE MarkedIsTried'
  BY <1>7 DEF Save, Kick, loop, ghost
<1>8. CASE UNCHANGED loopVars
  BY <1>8 DEF loopVars, loop, ghost
<1> QED BY <1>1, <1>2, <1>3, <1>4, <1>5, <1>6, <1>7, <1>8 DEF LoopNext, LoopTick

\* A schedule's turn leaves it seen: it was not due, or is marked, or is tried now.
LEMMA TurnSees ==
    ASSUME ServedInv, NEW s \in left, Skip(s) \/ Act(s) \/ ActFails(s)
    PROVE  Serving'
<1>1. /\ phase = "schedules" /\ phase' = phase /\ left' = left \ {s}
      /\ UNCHANGED <<time, looked, current, saved, disturbed>> /\ tried \subseteq tried'
  BY DEF Skip, Act, ActFails, Next1, Tried, ghost
<1>2. CASE disturbed \/ time = 0
  BY <1>1, <1>2 DEF Serving
<1>3. CASE ~disturbed /\ time # 0
  <2>1. looked = time /\ current = saved /\ Seen(left)
    BY <1>1, <1>3 DEF ServedInv, Serving
  <2>2. Due(s, Minute(time)) => <<s.at, Minute(time)>> \in tried'
    <3>1. CASE Skip(s)
      <4>1. ASSUME Due(s, Minute(time)) PROVE firedAt[s.at] = Minute(time) /\ s.at \in DOMAIN firedAt
        <5>1. s \in Schedule
          BY ConfigsAssumption DEF ServedInv, LoopTypeOK
        <5> QED BY <2>1, <3>1, <4>1, <5>1 DEF Skip, Fires, MinuteKey, Schedule, ServedInv, LoopTypeOK
      <4>2. Minute(time) # NotYet
        BY MinuteType, DayAssumption DEF ServedInv, LoopTypeOK, NotYet
      <4>3. Due(s, Minute(time)) => <<s.at, Minute(time)>> \in tried
        BY <4>1, <4>2 DEF ServedInv, MarkedIsTried
      <4> QED BY <1>1, <4>3
    <3>2. CASE Act(s) \/ ActFails(s)
      BY <2>1, <3>2 DEF Act, ActFails, Tried, Occurrence
    <3> QED BY <3>1, <3>2
  <2>3. Seen(left)'
    BY <1>1, <2>1, <2>2 DEF Seen, Due
  <2> QED BY <1>1, <2>1, <2>3 DEF Serving
<1> QED BY <1>2, <1>3

LEMMA NextServing ==
    ASSUME ServedInv, [LoopNext]_loopVars
    PROVE  Serving'
<1>1. ASSUME UNCHANGED <<time, ticker, saved, disturbed, phase, looked, current, left, tried>> PROVE Serving'
  BY <1>1 DEF ServedInv, Serving, Seen
<1>2. CASE OnTicker \/ OnKick
  BY <1>2 DEF OnTicker, OnKick, Serving
<1>3. CASE LoadFails \/ LoopRestarts
  BY <1>3 DEF LoadFails, LoopRestarts, Serving
<1>4. CASE Load
  BY <1>4 DEF Load, Serving, Seen
<1>5. CASE SchedulesDone \/ TickEnds
  BY <1>5 DEF SchedulesDone, TickEnds, ghost, ServedInv, Serving, Seen
<1>6. ASSUME NEW s \in left, Skip(s) \/ Act(s) \/ ActFails(s) PROVE Serving'
  BY <1>6, TurnSees
<1>7. CASE HalfMinutePasses
  BY <1>7 DEF HalfMinutePasses, loop, Serving
<1>8. ASSUME NEW c \in Client, Save(c) PROVE Serving'
  BY <1>8 DEF Save, Serving
<1>9. ASSUME NEW c \in Client, Kick(c) PROVE Serving'
  BY <1>1, <1>9 DEF Kick, loop, ghost
<1>10. CASE UNCHANGED loopVars
  BY <1>1, <1>10 DEF loopVars, loop, ghost
<1> QED
  BY <1>2, <1>3, <1>4, <1>5, <1>6, <1>7, <1>8, <1>9, <1>10 DEF LoopNext, LoopTick

LEMMA NextServed == ServedInv /\ [LoopNext]_loopVars => ServedInv'
  BY NextLoopType, NextMarkedIsTried, NextServing DEF ServedInv

\* No minute a schedule is due in goes by untried unless its second half was disturbed: by
\* a tick that took too long, a configuration that could not be read, a save or a restart.
THEOREM EveryMinuteIsServedHolds == LoopSpec => EveryMinuteIsServed
<1>1. ASSUME ServedInv, [LoopNext]_loopVars, Minute(time') > Minute(time), phase = "wait", ~disturbed
      PROVE  \A s \in saved : Due(s, Minute(time)) => <<s.at, Minute(time)>> \in tried
  <2>1. time' # time
    BY <1>1, MinuteType, DayAssumption DEF ServedInv, LoopTypeOK
  <2>2. HalfMinutePasses
    BY <1>1, <2>1 DEF LoopNext, LoopTick, OnTicker, OnKick, LoadFails, Load, Skip, Act, ActFails, SchedulesDone,
       TickEnds, LoopRestarts, Save, Kick, loopVars
  <2>3. time # 0 /\ ~ticker
    BY <1>1, <2>2 DEF HalfMinutePasses, Minute
  <2> QED BY <1>1, <2>3 DEF ServedInv, Serving, Seen
<1>2. ServedInv /\ [LoopNext]_loopVars =>
        [Minute(time') > Minute(time) /\ phase = "wait" /\ ~disturbed =>
           \A s \in saved : Due(s, Minute(time)) => <<s.at, Minute(time)>> \in tried]_loopVars
  BY <1>1
<1> QED BY <1>2, InitServed, NextServed, PTL DEF LoopSpec, EveryMinuteIsServed
=============================================================================

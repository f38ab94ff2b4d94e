---------------------------- MODULE MonitorLoop ----------------------------
(***************************************************************************)
(* The monitor's loop: Run with its ticker and its kick channel, Tick, and *)
(* tickSchedules.  What the other three parts of a tick do is the subject of *)
(* Watchdog, Bandwidth and IdleStop; here they only take time.             *)
(*                                                                         *)
(* The clock counts half minutes, the ticker's interval; a day has MinutesPerDay *)
(* minutes, of which a schedule names one, and a week has two days.  All schedules *)
(* are of one container and one action, so that their keys differ by their time. *)
(* Alerts, and clocks that are set back, are left out.                     *)
(***************************************************************************)
EXTENDS Integers

CONSTANTS
    Client,          \* who may be in the middle of a PUT /config
    Configs,         \* the sets of schedules the user may save
    MinutesPerDay,
    MaxHalfMinutes,  \* bound on the clock
    MaxSaves,        \* bound on the saves
    Faults           \* of "slow", "load" and "restart"

ASSUME DayAssumption == MinutesPerDay \in Nat \ {0} /\ MaxHalfMinutes \in Nat /\ MaxSaves \in Nat

Schedule == [at : 0..(MinutesPerDay - 1), days : SUBSET {0, 1}, enabled : BOOLEAN]

ASSUME ConfigsAssumption == Configs \subseteq SUBSET Schedule

VARIABLES
    time, ticker, kick,          \* the clock and the two channels, each with room for one
    saved, ver, puts,            \* config.json, how often it was saved, the PUT requests
    phase, current, looked,      \* the loop: where it is, its configuration and reading of the clock,
    left,                        \* and the schedules it has still to look at
    firedAt,                     \* Monitor.firedAt, by the time of day
    loaded, unread,              \* the save last loaded; whether a later one waits for the ticker
    disturbed,                   \* since the last half minute began: by a long tick, a failed
                                 \* load, a save or a restart
    tried, done, twice           \* occurrences an action was called for, was done for, and twice

loop     == <<phase, current, looked, left, firedAt, loaded>>
ghost    == <<tried, done, twice>>
loopVars == <<time, ticker, kick, saved, ver, puts, loop, unread, disturbed, ghost>>

Minute(t)     == t \div 2
TimeOfDay(m)  == m % MinutesPerDay
Weekday(m)    == (m \div MinutesPerDay) % 2
Minutes       == 0..Minute(MaxHalfMinutes)
NotYet        == -1

LoopInit ==
    /\ time = 0 /\ ticker = FALSE /\ kick = FALSE
    /\ saved \in Configs /\ ver = 0 /\ puts = [c \in Client |-> "idle"]
    /\ phase = "wait" /\ current = {} /\ looked = 0 /\ left = {}
    /\ firedAt = [k \in 0..(MinutesPerDay - 1) |-> NotYet]
    /\ loaded = 0 /\ unread = FALSE /\ disturbed = FALSE
    /\ tried = {} /\ done = {} /\ twice = FALSE

-----------------------------------------------------------------------------
(* Run and Tick *)

\* The ticker drops a tick the loop is not ready for.  A loop that waits takes its tick
\* at once; unless "slow", a tick itself takes no noticeable time.
HalfMinutePasses ==
    /\ time < MaxHalfMinutes
    /\ \/ phase = "wait" /\ ~ticker /\ ~kick
       \/ phase \in {"schedules", "rest"} /\ "slow" \in Faults
    /\ time' = time + 1 /\ ticker' = TRUE
    /\ disturbed' = (phase # "wait")
    /\ UNCHANGED <<kick, saved, ver, puts, loop, unread, ghost>>

OnTicker ==
    /\ phase = "wait" /\ ticker
    /\ ticker' = FALSE /\ phase' = "load"
    /\ UNCHANGED <<time, kick, saved, ver, puts, current, looked, left, firedAt, loaded, unread, disturbed, ghost>>

OnKick ==
    /\ phase = "wait" /\ kick
    /\ kick' = FALSE /\ phase' = "load"
    /\ UNCHANGED <<time, ticker, saved, ver, puts, current, looked, left, firedAt, loaded, unread, disturbed, ghost>>

LoadFails ==
    /\ phase = "load" /\ "load" \in Faults
    /\ phase' = "wait"
    /\ unread' = TRUE /\ disturbed' = TRUE
    /\ UNCHANGED <<time, ticker, kick, saved, ver, puts, current, looked, left, firedAt, loaded, ghost>>

\* The configuration and, for the schedules, one reading of the clock.
Load ==
    /\ phase = "load"
    /\ current' = saved /\ looked' = time /\ left' = saved
    /\ phase' = "schedules"
    /\ loaded' = ver /\ unread' = FALSE
    /\ UNCHANGED <<time, ticker, kick, saved, ver, puts, firedAt, disturbed, ghost>>

Due(s, m) ==
    /\ s.enabled
    /\ s.at = TimeOfDay(m)
    /\ s.days = {} \/ Weekday(m) \in s.days

\* Mutants: the key of the minute has no date, or has the half minute in it.
MinuteKey_Exact(t)  == t
MinuteKey_NoDate(t) == TimeOfDay(Minute(t))

MinuteKey(t) == Minute(t)

Fires(s) == Due(s, Minute(looked)) /\ firedAt[s.at] # MinuteKey(looked)

Next1(s) == phase = "schedules" /\ s \in left /\ left' = left \ {s}

Skip(s) ==
    /\ Next1(s)
    /\ ~Fires(s)
    /\ UNCHANGED <<time, ticker, kick, saved, ver, puts, phase, current, looked, firedAt, loaded, unread, disturbed, ghost>>

Occurrence(s) == <<s.at, Minute(looked)>>

Tried(s) == tried' = tried \cup {Occurrence(s)}

Done(s) == /\ done' = done \cup {Occurrence(s)}
           /\ twice' = (twice \/ Occurrence(s) \in done)

\* Not marked, so that the next tick of the minute tries again - also after a call that
\* timed out on an action Docker goes on with, which is then done a second time.
ActFails(s) ==
    /\ Next1(s)
    /\ Fires(s)
    /\ Tried(s)
    /\ UNCHANGED <<time, ticker, kick, saved, ver, puts, phase, current, looked, firedAt, loaded, unread, disturbed, done, twice>>

\* Mutant: the action is not noted.
Act_Forgets(s) ==
    /\ Next1(s)
    /\ Fires(s)
    /\ Tried(s) /\ Done(s)
    /\ UNCHANGED <<time, ticker, kick, saved, ver, puts, phase, current, looked, firedAt, loaded, unread, disturbed>>

Act(s) ==
    /\ Next1(s)
    /\ Fires(s)
    /\ firedAt' = [firedAt EXCEPT ![s.at] = MinuteKey(looked)]
    /\ Tried(s) /\ Done(s)
    /\ UNCHANGED <<time, ticker, kick, saved, ver, puts, phase, current, looked, loaded, unread, disturbed>>

\* tickWatchdogs, tickBandwidths and tickIdleStop follow.
SchedulesDone ==
    /\ phase = "schedules" /\ left = {}
    /\ phase' = "rest"
    /\ UNCHANGED <<time, ticker, kick, saved, ver, puts, current, looked, left, firedAt, loaded, unread, disturbed, ghost>>

TickEnds ==
    /\ phase = "rest"
    /\ phase' = "wait" /\ current' = {}
    /\ UNCHANGED <<time, ticker, kick, saved, ver, puts, looked, left, firedAt, loaded, unread, disturbed, ghost>>

-----------------------------------------------------------------------------
(* The API and the daemon *)

\* PUT /config: save, then Kick.
Save(c) ==
    /\ puts[c] = "idle" /\ ver < MaxSaves
    /\ saved' \in Configs
    /\ ver' = ver + 1
    /\ puts' = [puts EXCEPT ![c] = "saved"]
    /\ disturbed' = TRUE
    /\ UNCHANGED <<time, ticker, kick, loop, unread, ghost>>

\* Mutant: the channel has no room, so that only a loop that waits is kicked.
Kicked_Unbuffered == kick \/ phase = "wait"

Kicked == TRUE

Kick(c) ==
    /\ puts[c] = "saved"
    /\ kick' = Kicked
    /\ puts' = [puts EXCEPT ![c] = "idle"]
    /\ UNCHANGED <<time, ticker, saved, ver, loop, unread, disturbed, ghost>>

\* The marks are memory only, and so done speaks of one daemon.
LoopRestarts ==
    /\ "restart" \in Faults
    /\ ticker' = FALSE /\ kick' = FALSE
    /\ puts' = [c \in Client |-> "idle"]
    /\ phase' = "wait" /\ current' = {} /\ left' = {}
    /\ firedAt' = [k \in 0..(MinutesPerDay - 1) |-> NotYet]
    /\ unread' = TRUE /\ disturbed' = TRUE
    /\ done' = {}
    /\ UNCHANGED <<time, saved, ver, looked, loaded, tried, twice>>

LoopTick == \/ OnTicker \/ OnKick \/ LoadFails \/ Load \/ SchedulesDone \/ TickEnds
        \/ \E s \in left : Skip(s) \/ Act(s) \/ ActFails(s)

LoopNext == \/ LoopTick \/ HalfMinutePasses \/ LoopRestarts
        \/ \E c \in Client : Save(c) \/ Kick(c)

LoopSpec == LoopInit /\ [][LoopNext]_loopVars

-----------------------------------------------------------------------------
(* Properties *)

LoopTypeOK ==
    /\ time \in 0..MaxHalfMinutes /\ looked \in 0..time
    /\ ticker \in BOOLEAN /\ kick \in BOOLEAN /\ unread \in BOOLEAN /\ disturbed \in BOOLEAN /\ twice \in BOOLEAN
    /\ saved \in Configs /\ current \in Configs \cup {{}} /\ left \subseteq current
    /\ phase # "schedules" => left = {}
    /\ ver \in 0..MaxSaves /\ loaded \in 0..ver
    /\ puts \in [Client -> {"idle", "saved"}]
    /\ phase \in {"wait", "load", "schedules", "rest"}
    /\ firedAt \in [0..(MinutesPerDay - 1) -> Minutes \cup {NotYet}]
    /\ tried \subseteq (0..(MinutesPerDay - 1)) \X Minutes
    /\ done \subseteq tried

\* tickSchedules' comment: "fire once per minute even though we tick faster", and
\* entries with the same container, action and time are one.  What one daemon was told
\* is done it does not do again.
OncePerMinute == ~twice

\* handlePutConfig: a save applies "immediately, not up to 30s later".  When the loop
\* waits, it has read the last save, or a kick is on its way - however many saves fell
\* into one tick.  (A configuration that cannot be read waits for the ticker.)
SaveIsPickedUp ==
    phase = "wait" /\ loaded < ver => kick \/ unread \/ \E c \in Client : puts[c] = "saved"

\* model.Schedule: "fires a lifecycle action on a container at a wall-clock time".  A
\* minute a schedule is due in does not go by untried if in its second half the loop was
\* free and its configuration readable and left alone, whatever happened before.
EveryMinuteIsServed ==
    [][Minute(time') > Minute(time) /\ phase = "wait" /\ ~disturbed =>
          \A s \in saved : Due(s, Minute(time)) => <<s.at, Minute(time)>> \in tried]_loopVars
=============================================================================

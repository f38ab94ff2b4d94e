-------------------------- MODULE ReadinessProofs --------------------------
(***************************************************************************)
(* A wait is bounded whatever the container does, a cancelled one begins   *)
(* one more poll at most, and the one remembered instant of a "running"    *)
(* probe decides as the whole history of its polls would.                  *)
(***************************************************************************)
EXTENDS Readiness, TLAPS

\* What the world does leaves the wait alone.
LEMMA WorldsFrame ==
    ASSUME World \/ UNCHANGED vars
    PROVE  /\ UNCHANGED <<now, probe, network, pc, runningSince, host, answer, began, wake,
                          verdict, lateProbes, polls>>
           /\ cancelled => cancelled'
<1>1. CASE World
  <2>1. CASE Cancel
    BY <2>1 DEF Cancel, fixed, wait, ghosts
  <2>2. CASE Watch
    BY <2>2 DEF Watch, fixed, wait
  <2> QED
    BY <1>1, <2>1, <2>2 DEF World, Start, Stop, Work, HealthCheck, LogMoves, OtherServes
<1>2. CASE UNCHANGED vars
  BY <1>2 DEF vars, fixed, wait, ghosts
<1> QED
  BY <1>1, <1>2

LEMMA InitTypes == Init => TypeOK
<1> SUFFICES ASSUME Init PROVE TypeOK
  OBVIOUS
<1>1. InstantsOK
  BY DEF Init, InstantsOK
<1>2. StatesOK
  <2>1. /\ up \in BOOLEAN /\ logged \in BOOLEAN
        /\ network \in {"bridge", "host", "custom"}
        /\ health \in {"none", "starting", "healthy", "unhealthy"}
    BY DEF Init
  <2> QED
    BY <2>1 DEF Init, StatesOK, Answers
<1>3. polls \in Seq([at : Nat, saw : Answers])
  BY DEF Init
<1> QED
  BY <1>1, <1>2, <1>3 DEF Init, TypeOK

\* One step per action: what it leaves alone, then the instants, then the rest.
LEMMA NextTypes == TypeOK /\ [Next]_vars => TypeOK'
<1> SUFFICES ASSUME TypeOK, [Next]_vars PROVE TypeOK'
  OBVIOUS

<1>1. CASE BeginProbe
  <2>1. UNCHANGED <<now, cancelled, probe, network, up, health, app, logged,
                    other, runningSince, answer, wake, verdict, goodSince,
                    lastGood, lapsed, polls>>
    BY <1>1 DEF BeginProbe, fixed, container
  <2>2. InstantsOK'
    BY <1>1, <2>1, TimeAssumption DEF TypeOK, InstantsOK, BeginProbe
  <2>3. StatesOK'
    BY <1>1, <2>1 DEF TypeOK, StatesOK, Answers, BeginProbe
  <2> QED
    BY <1>1, <2>1, <2>2, <2>3 DEF TypeOK, BeginProbe
<1>2. CASE Inspect
  <2>1. UNCHANGED <<now, cancelled, probe, network, up, health, app, logged,
                    other, runningSince, host, began, wake, verdict, goodSince,
                    lastGood, lateProbes, polls>>
    BY <1>2 DEF Inspect, fixed, container
  <2>2. InstantsOK'
    BY <1>2, <2>1, TimeAssumption DEF TypeOK, InstantsOK, Inspect
  <2>3. StatesOK'
    BY <1>2, <2>1 DEF TypeOK, StatesOK, Answers, Inspect
  <2> QED
    BY <1>2, <2>1, <2>2, <2>3 DEF TypeOK
<1>3. CASE HealthInspected
  <2>1. UNCHANGED <<now, cancelled, probe, network, up, health, app, logged,
                    other, runningSince, host, answer, began, wake, goodSince,
                    lastGood, lapsed, lateProbes, polls>>
    BY <1>3 DEF HealthInspected, fixed, container, ghosts
  <2>2. InstantsOK'
    BY <1>3, <2>1, TimeAssumption DEF TypeOK, InstantsOK, HealthInspected, Judge, Ready, NotReady
  <2>3. StatesOK'
    BY <1>3, <2>1 DEF TypeOK, StatesOK, Answers, HealthInspected, Judge, Ready, NotReady
  <2> QED
    BY <1>3, <2>1, <2>2, <2>3 DEF TypeOK
<1>4. CASE RunningInspected
  <2>1. UNCHANGED <<now, cancelled, probe, network, up, health, app, logged,
                    other, host, answer, began, wake, goodSince, lastGood,
                    lapsed, lateProbes>>
    BY <1>4 DEF RunningInspected, fixed, container
  <2>2. InstantsOK'
    BY <1>4, <2>1, TimeAssumption DEF TypeOK, InstantsOK, RunningInspected, Judge, Ready, NotReady, Since
  <2>3. StatesOK'
    BY <1>4, <2>1 DEF TypeOK, StatesOK, Answers, RunningInspected, Judge, Ready, NotReady, Since
  <2>4. polls' \in Seq([at : Nat, saw : Answers])
    <3>1. [at |-> now, saw |-> answer] \in [at : Nat, saw : Answers]
      BY DEF TypeOK, InstantsOK, StatesOK
    <3>2. polls' = Append(polls, [at |-> now, saw |-> answer])
      BY <1>4 DEF RunningInspected
    <3> QED
      BY <3>1, <3>2 DEF TypeOK
  <2> QED
    BY <2>1, <2>2, <2>3, <2>4 DEF TypeOK
<1>5. CASE NetworkInspected
  <2>1. UNCHANGED <<now, cancelled, probe, network, up, health, app, logged,
                    other, runningSince, answer, began, wake, verdict,
                    goodSince, lastGood, lateProbes, polls>>
    BY <1>5 DEF NetworkInspected, fixed, container
  <2>2. InstantsOK'
    BY <1>5, <2>1, TimeAssumption DEF TypeOK, InstantsOK, NetworkInspected, Host
  <2>3. StatesOK'
    BY <1>5, <2>1 DEF TypeOK, StatesOK, Answers, NetworkInspected, Host
  <2> QED
    BY <1>5, <2>1, <2>2, <2>3 DEF TypeOK
<1>6. CASE Ask
  <2>1. UNCHANGED <<now, cancelled, probe, network, up, health, app, logged,
                    other, runningSince, host, began, wake, verdict, goodSince,
                    lastGood, lateProbes, polls>>
    BY <1>6 DEF Ask, Answered, fixed, container
  <2>2. InstantsOK'
    BY <1>6, <2>1, TimeAssumption DEF TypeOK, InstantsOK, Ask, Answered, Answering
  <2>3. StatesOK'
    BY <1>6, <2>1 DEF TypeOK, StatesOK, Answers, Ask, Answered, Answering
  <2> QED
    BY <1>6, <2>1, <2>2, <2>3 DEF TypeOK
<1>7. CASE ExecCreated
  <2>1. UNCHANGED <<now, cancelled, probe, network, up, health, app, logged,
                    other, runningSince, host, answer, began, wake, verdict,
                    goodSince, lastGood, lapsed, lateProbes, polls>>
    BY <1>7 DEF ExecCreated, fixed, container, ghosts
  <2>2. InstantsOK'
    BY <1>7, <2>1, TimeAssumption DEF TypeOK, InstantsOK, ExecCreated
  <2>3. StatesOK'
    BY <1>7, <2>1 DEF TypeOK, StatesOK, Answers, ExecCreated
  <2> QED
    BY <1>7, <2>1, <2>2, <2>3 DEF TypeOK
<1>8. CASE ExecFails
  <2>1. UNCHANGED <<now, cancelled, probe, network, up, health, app, logged,
                    other, runningSince, host, began, wake, verdict, goodSince,
                    lastGood, lateProbes, polls>>
    BY <1>8 DEF ExecFails, Answered, fixed, container
  <2>2. InstantsOK'
    BY <1>8, <2>1, TimeAssumption DEF TypeOK, InstantsOK, ExecFails, Answered
  <2>3. StatesOK'
    BY <1>8, <2>1 DEF TypeOK, StatesOK, Answers, ExecFails, Answered
  <2> QED
    BY <1>8, <2>1, <2>2, <2>3 DEF TypeOK
<1>9. CASE ExecStarted
  <2>1. UNCHANGED <<now, cancelled, probe, network, up, health, app, logged,
                    other, runningSince, host, began, wake, verdict, goodSince,
                    lastGood, lateProbes, polls>>
    BY <1>9 DEF ExecStarted, Answered, fixed, container
  <2>2. InstantsOK'
    BY <1>9, <2>1, TimeAssumption DEF TypeOK, InstantsOK, ExecStarted, Answered
  <2>3. StatesOK'
    BY <1>9, <2>1 DEF TypeOK, StatesOK, Answers, ExecStarted, Answered
  <2> QED
    BY <1>9, <2>1, <2>2, <2>3 DEF TypeOK
<1>10. CASE Asked
  <2>1. UNCHANGED <<now, cancelled, probe, network, up, health, app, logged,
                    other, runningSince, host, answer, began, wake, goodSince,
                    lastGood, lapsed, lateProbes, polls>>
    BY <1>10 DEF Asked, fixed, container, ghosts
  <2>2. InstantsOK'
    BY <1>10, <2>1, TimeAssumption DEF TypeOK, InstantsOK, Asked, Judge, Ready, NotReady
  <2>3. StatesOK'
    BY <1>10, <2>1 DEF TypeOK, StatesOK, Answers, Asked, Judge, Ready, NotReady
  <2> QED
    BY <1>10, <2>1, <2>2, <2>3 DEF TypeOK
<1>11. CASE Check
  <2>1. UNCHANGED <<now, cancelled, probe, network, up, health, app, logged,
                    other, runningSince, host, answer, began, goodSince,
                    lastGood, lapsed, lateProbes, polls>>
    BY <1>11 DEF Check, fixed, container, ghosts
  <2>2. InstantsOK'
    BY <1>11, <2>1, TimeAssumption DEF TypeOK, InstantsOK, Check
  <2>3. StatesOK'
    BY <1>11, <2>1 DEF TypeOK, StatesOK, Answers, Check
  <2> QED
    BY <1>11, <2>1, <2>2, <2>3 DEF TypeOK
<1>12. CASE Wake
  <2>1. UNCHANGED <<now, cancelled, probe, network, up, health, app, logged,
                    other, runningSince, host, answer, began, wake, verdict,
                    goodSince, lastGood, lapsed, lateProbes, polls>>
    BY <1>12 DEF Wake, fixed, container, ghosts
  <2>2. InstantsOK'
    BY <1>12, <2>1, TimeAssumption DEF TypeOK, InstantsOK, Wake
  <2>3. StatesOK'
    BY <1>12, <2>1 DEF TypeOK, StatesOK, Answers, Wake
  <2> QED
    BY <1>12, <2>1, <2>2, <2>3 DEF TypeOK
<1>13. CASE SleepCancelled
  <2>1. UNCHANGED <<now, cancelled, probe, network, up, health, app, logged,
                    other, runningSince, host, answer, began, wake, goodSince,
                    lastGood, lapsed, lateProbes, polls>>
    BY <1>13 DEF SleepCancelled, fixed, container, ghosts
  <2>2. InstantsOK'
    BY <1>13, <2>1, TimeAssumption DEF TypeOK, InstantsOK, SleepCancelled
  <2>3. StatesOK'
    BY <1>13, <2>1 DEF TypeOK, StatesOK, Answers, SleepCancelled
  <2> QED
    BY <1>13, <2>1, <2>2, <2>3 DEF TypeOK
<1>14. CASE Tick
  <2>1. UNCHANGED <<cancelled, probe, network, up, health, app, logged, other,
                    pc, runningSince, host, answer, began, wake, verdict,
                    goodSince, lapsed, lateProbes, polls>>
    BY <1>14 DEF Tick, fixed, container, wait
  <2>2. InstantsOK'
    BY <1>14, <2>1, TimeAssumption DEF TypeOK, InstantsOK, Tick
  <2>3. UNCHANGED StatesOK
    BY <2>1 DEF StatesOK
  <2> QED
    BY <2>1, <2>2, <2>3 DEF TypeOK
<1>15. CASE World
  <2>1. InstantsOK'
    <3>1. CASE Cancel
      BY <3>1 DEF Cancel, wait, ghosts, TypeOK, InstantsOK
    <3>2. CASE Watch
      BY <3>2 DEF Watch, wait, TypeOK, InstantsOK
    <3> QED
      BY <1>15, <3>1, <3>2 DEF World, Start, Stop, Work, HealthCheck, LogMoves, OtherServes
  <2>2. cancelled' \in BOOLEAN /\ lapsed' \in BOOLEAN
    BY <1>15 DEF World, Start, Stop, Work, HealthCheck, LogMoves, OtherServes, Cancel, Watch,
                 ghosts, TypeOK, StatesOK
  <2>3. /\ up' \in BOOLEAN /\ logged' \in BOOLEAN
        /\ health' \in {"none", "starting", "healthy", "unhealthy"}
        /\ app' \in {"closed", "error", "ok"} /\ other' \in {"closed", "ok"}
    BY <1>15 DEF World, Start, Stop, Work, HealthCheck, LogMoves, OtherServes, Cancel,
                 container, TypeOK, StatesOK
  <2> QED
    BY <1>15, <2>1, <2>2, <2>3, WorldsFrame DEF TypeOK, StatesOK
<1>16. CASE UNCHANGED vars
  <2>1. /\ UNCHANGED <<now, cancelled, probe, network, up, health, app, logged, other>>
        /\ UNCHANGED <<pc, runningSince, host, answer, began, wake, verdict>>
        /\ UNCHANGED <<goodSince, lastGood, lapsed, lateProbes, polls>>
    BY <1>16 DEF vars, fixed, container, wait, ghosts
  <2> QED
    BY <2>1 DEF TypeOK, InstantsOK, StatesOK
<1> QED
  BY <1>1, <1>2, <1>3, <1>4, <1>5, <1>6, <1>7, <1>8, <1>9, <1>10, <1>11, <1>12, <1>13, <1>14,
     <1>15, <1>16 DEF Next, WaitReady

\* TypeOK is inductive: every step leaves a wait in a state of these types.
THEOREM TypeCorrect == Spec => []TypeOK
<1> QED
  BY InitTypes, NextTypes, PTL DEF Spec

-----------------------------------------------------------------------------
(* The deadline *)

\* Where in the loop how much time can have passed.
InBound ==
    /\ pc = "probe" => now < Deadline + Interval
    /\ pc \in {"inspect", "inspected", "ask", "start", "asked", "check"} =>
          began < Deadline + Interval /\ now <= began + MaxProbe
    /\ pc = "sleep" => now <= wake /\ wake < Deadline + Interval
    /\ pc = "done" => now < Deadline + Interval + MaxProbe

LEMMA InBoundStep == TypeOK /\ InBound /\ [Next]_vars => InBound'
<1> SUFFICES ASSUME TypeOK, InBound, [Next]_vars PROVE InBound'
  OBVIOUS
<1>0. /\ Timeout \in Nat /\ Interval \in Nat \ {0} /\ MaxProbe \in Nat
      /\ now \in Nat /\ began \in Nat /\ wake \in Nat
  BY TimeAssumption DEF TypeOK, InstantsOK
<1> USE DEF InBound, Deadline
<1>1. CASE BeginProbe
  BY <1>0, <1>1 DEF BeginProbe
<1>2. CASE \/ Inspect \/ HealthInspected \/ RunningInspected \/ NetworkInspected
           \/ Ask \/ ExecCreated \/ ExecFails \/ ExecStarted \/ Asked
  <2>1. /\ pc \in {"inspect", "inspected", "ask", "start", "asked"}
        /\ pc' \in {"inspected", "ask", "start", "asked", "check", "done"}
        /\ UNCHANGED <<now, began>>
    BY <1>2 DEF Inspect, HealthInspected, RunningInspected, NetworkInspected, Ask, ExecCreated,
                ExecFails, ExecStarted, Asked, Answered, Judge, Ready, NotReady
  <2> QED
    BY <1>0, <2>1
<1>3. CASE Check
  BY <1>0, <1>3 DEF Check, PastDeadline
<1>4. CASE Wake
  BY <1>0, <1>4 DEF Wake
<1>5. CASE SleepCancelled
  BY <1>0, <1>5 DEF SleepCancelled
<1>6. CASE Tick
  BY <1>0, <1>6 DEF Tick, wait
<1>7. CASE World \/ UNCHANGED vars
  BY <1>7, WorldsFrame
<1> QED
  BY <1>1, <1>2, <1>3, <1>4, <1>5, <1>6, <1>7 DEF Next, WaitReady

\* A wait overshoots its deadline by one interval and one poll at most, for any probe,
\* timeout, interval and behaviour of the container.
THEOREM BoundedWaitHolds == Spec => []BoundedWait
<1>1. Init => InBound
  BY TimeAssumption DEF Init, InBound, Deadline
<1>2. TypeOK /\ InBound => BoundedWait
  BY TimeAssumption DEF TypeOK, InstantsOK, StatesOK, InBound, BoundedWait, Deadline
<1> QED
  BY <1>1, <1>2, InBoundStep, TypeCorrect, PTL DEF Spec

-----------------------------------------------------------------------------
(* The cancellation *)

\* A poll begun after the cancellation is the last: the sleep behind it has not run out
\* when the cancellation is looked at.
LateOnce ==
    /\ ~cancelled => lateProbes = 0
    /\ lateProbes <= 1
    /\ lateProbes = 1 => pc # "probe" /\ (pc = "sleep" => now < wake)

LEMMA LateOnceStep == TypeOK /\ LateOnce /\ [Next]_vars => LateOnce'
<1> SUFFICES ASSUME TypeOK, LateOnce, [Next]_vars PROVE LateOnce'
  OBVIOUS
<1>0. /\ Interval \in Nat \ {0} /\ lateProbes \in Nat
      /\ now \in Nat /\ wake \in Nat /\ cancelled \in BOOLEAN
  BY TimeAssumption DEF TypeOK, InstantsOK, StatesOK
<1> USE DEF LateOnce
<1>1. CASE BeginProbe
  BY <1>0, <1>1 DEF BeginProbe
<1>2. CASE \/ Inspect \/ HealthInspected \/ RunningInspected \/ NetworkInspected
           \/ Ask \/ ExecCreated \/ ExecFails \/ ExecStarted \/ Asked
  <2>1. /\ pc' \in {"inspected", "ask", "start", "asked", "check", "done"}
        /\ UNCHANGED <<cancelled, lateProbes>>
    BY <1>2 DEF Inspect, HealthInspected, RunningInspected, NetworkInspected, Ask, ExecCreated,
                ExecFails, ExecStarted, Asked, Answered, Judge, Ready, NotReady, ghosts
  <2> QED
    BY <1>0, <2>1
<1>3. CASE Check
  BY <1>0, <1>3 DEF Check, ghosts
<1>4. CASE Wake
  BY <1>0, <1>4 DEF Wake, ghosts
<1>5. CASE SleepCancelled
  BY <1>0, <1>5 DEF SleepCancelled, ghosts
<1>6. CASE Tick
  BY <1>0, <1>6 DEF Tick, wait
<1>7. CASE World \/ UNCHANGED vars
  BY <1>0, <1>7, WorldsFrame
<1> QED
  BY <1>1, <1>2, <1>3, <1>4, <1>5, <1>6, <1>7 DEF Next, WaitReady

\* A cancelled wait begins one more poll at most.
THEOREM CancelEndsHolds == Spec => []CancelEnds
<1>1. Init => LateOnce
  BY DEF Init, LateOnce
<1>2. LateOnce => CancelEnds
  BY DEF LateOnce, CancelEnds
<1> QED
  BY <1>1, <1>2, LateOnceStep, TypeCorrect, PTL DEF Spec


-----------------------------------------------------------------------------
(* The grace period *)

\* By the polls p the container is up since the i-th.
UpSince(p, i) == p[i].saw = "up" /\ \A j \in i..Len(p) : p[j].saw # "down"

\* The clock of a "running" probe is the first such poll's.
ClockOf(p, since) ==
    /\ since = Never => \A i \in DOMAIN p : ~UpSince(p, i)
    /\ since # Never => /\ \E i \in DOMAIN p : UpSince(p, i) /\ p[i].at = since
                        /\ \A i \in DOMAIN p : UpSince(p, i) => p[i].at >= since

ClockIsHistory ==
    probe.kind = "running" =>
        /\ ClockOf(polls, runningSince)
        /\ pc \notin {"ask", "start", "asked"}
        /\ pc = "inspected" => answer \in {"failed", "down", "up"}

LEMMA ItsElements ==
    ASSUME NEW S, NEW p \in Seq(S)
    PROVE  \A i \in DOMAIN p : p[i] \in S
  OBVIOUS

\* The clock follows the history, and says the same of the grace period.
LEMMA ClockStep ==
    ASSUME TypeOK, ClockIsHistory, RunningInspected
    PROVE  /\ ClockIsHistory'
           /\ verdict' = "ready" <=> SeenForGrace'
<1>1. /\ probe.kind = "running" /\ probe' = probe /\ answer \in {"failed", "down", "up"}
      /\ pc = "inspected" /\ pc' \in {"check", "done"}
      /\ runningSince' = Since
      /\ verdict' = "ready" <=> answer = "up" /\ now - Since >= Grace
  BY DEF RunningInspected, ClockIsHistory, fixed, Judge, Ready, NotReady, TypeOK, StatesOK
<1>2. /\ now \in Nat /\ Grace \in Nat /\ now # Never
      /\ runningSince \in Nat \cup {Never}
  BY TimeAssumption DEF TypeOK, InstantsOK, Never
<1> DEFINE e == [at |-> now, saw |-> answer]
           n == Len(polls) + 1
<1>3. polls' = Append(polls, e) /\ e.at = now /\ e.saw = answer
  BY DEF RunningInspected
<1>4. polls \in Seq([at : Nat, saw : Answers]) /\ e \in [at : Nat, saw : Answers]
  BY DEF TypeOK, InstantsOK, StatesOK
<1>5. /\ n - 1 \in Nat /\ Len(polls') = n /\ DOMAIN polls = 1..(n - 1) /\ DOMAIN polls' = 1..n
      /\ polls'[n] = e /\ \A i \in 1..(n - 1) : polls'[i] = polls[i]
      /\ UpSince(polls', n) <=> answer = "up"
      /\ \A i \in 1..(n - 1) : UpSince(polls', i) <=> UpSince(polls, i) /\ answer # "down"
  <2>1. /\ Len(polls) \in Nat /\ n = Len(polls) + 1 /\ n - 1 = Len(polls)
        /\ DOMAIN polls = 1..Len(polls)
    BY <1>4
  <2> HIDE DEF e, n
  <2>2. /\ Len(polls') = n /\ DOMAIN polls' = 1..n
        /\ polls'[n] = e /\ \A i \in 1..(n - 1) : polls'[i] = polls[i]
    BY <1>3, <1>4, <2>1
  <2>3. UpSince(polls', n) <=> answer = "up"
    <3>1. \A j \in n..Len(polls') : j = n
      BY <2>1, <2>2
    <3>2. n \in n..Len(polls')
      BY <2>1, <2>2
    <3> QED
      BY <1>3, <2>2, <3>1, <3>2 DEF UpSince
  <2>4. ASSUME NEW i \in 1..(n - 1)
        PROVE  UpSince(polls', i) <=> UpSince(polls, i) /\ answer # "down"
    <3>1. i..Len(polls') = (i..Len(polls)) \cup {n}
      BY <2>1, <2>2
    <3>2. \A j \in i..Len(polls) : j \in 1..(n - 1)
      BY <2>1
    <3> QED
      BY <1>3, <2>1, <2>2, <3>1, <3>2 DEF UpSince
  <2> QED
    BY <2>1, <2>2, <2>3, <2>4
<1> HIDE DEF e, n
<1>6. \A i \in 1..n : i = n \/ i \in 1..(n - 1)
  BY <1>5
<1>7. ClockOf(polls, runningSince)
  BY <1>1 DEF ClockIsHistory
<1>8. ClockOf(polls', Since)
  <2>1. CASE answer = "failed"
    BY <1>3, <1>5, <1>6, <1>7, <2>1 DEF ClockOf, Since
  <2>2. CASE answer = "down"
    BY <1>5, <1>6, <2>2 DEF ClockOf, Since
  <2>3. CASE answer = "up" /\ runningSince = Never
    BY <1>2, <1>3, <1>5, <1>6, <1>7, <2>3 DEF ClockOf, Since
  <2>4. CASE answer = "up" /\ runningSince # Never
    <3>1. Since = runningSince
      BY <2>4 DEF Since
    <3>2. now >= runningSince
      BY <2>4 DEF TypeOK, InstantsOK
    <3> QED
      BY <1>3, <1>5, <1>6, <1>7, <2>4, <3>1, <3>2 DEF ClockOf
  <2> QED
    BY <1>1, <2>1, <2>2, <2>3, <2>4
<1>9. SeenForGrace' <=> answer = "up" /\ \E i \in 1..n : UpSince(polls', i) /\ now - polls'[i].at >= Grace
  BY <1>3, <1>5 DEF SeenForGrace, UpSince
<1>10. answer = "up" => Since # Never /\ Since \in Nat
  BY <1>2 DEF Since
<1>11. \A i \in 1..n : polls'[i].at \in Nat
  <2>1. \A i \in DOMAIN polls : polls[i] \in [at : Nat, saw : Answers]
    BY <1>4, ItsElements
  <2> QED
    BY <1>2, <1>3, <1>5, <1>6, <2>1
<1>12. verdict' = "ready" <=> SeenForGrace'
  <2>1. CASE answer # "up"
    BY <1>1, <1>9, <2>1
  <2>2. CASE answer = "up"
    <3>1. /\ \E i \in 1..n : UpSince(polls', i) /\ polls'[i].at = Since
          /\ \A i \in 1..n : UpSince(polls', i) => polls'[i].at >= Since
      BY <1>5, <1>8, <1>10, <2>2 DEF ClockOf
    <3>2. now - Since >= Grace <=> \E i \in 1..n : UpSince(polls', i) /\ now - polls'[i].at >= Grace
      <4> HIDE DEF Since
      <4> QED
        BY <1>2, <1>10, <1>11, <2>2, <3>1
    <3> QED
      BY <1>1, <1>9, <2>2, <3>2
  <2> QED
    BY <2>1, <2>2
<1> QED
  BY <1>1, <1>8, <1>12 DEF ClockIsHistory

\* GraceIsExact, with the verdict of a wait under way.
GraceInv ==
    /\ ClockIsHistory
    /\ GraceIsExact
    /\ probe.kind = "running" /\ pc \in {"check", "sleep", "probe"} => ~SeenForGrace

\* Steps that make no poll keep the history and its clock.
LEMMA SameHistory ==
    ASSUME TypeOK, GraceInv, TypeOK',
           UNCHANGED <<probe, runningSince, polls>>,
           probe.kind = "running" =>
              /\ pc' \notin {"ask", "start", "asked"}
              /\ pc' = "inspected" => answer' \in {"failed", "down", "up"}
              /\ pc' \in {"check", "sleep", "probe"} => pc \in {"check", "sleep", "probe"}
              /\ pc' = "done" =>
                   \/ pc \in {"check", "sleep"} /\ verdict' # "ready"
                   \/ pc = "done" /\ verdict' = verdict
    PROVE  GraceInv'
<1>1. SeenForGrace' <=> SeenForGrace
  BY DEF SeenForGrace
<1>2. ClockIsHistory'
  BY DEF GraceInv, ClockIsHistory, ClockOf, UpSince
<1>3. pc' \in {"check", "sleep", "probe"} => verdict' # "ready"
  BY DEF TypeOK, StatesOK
<1> QED
  BY <1>1, <1>2, <1>3 DEF GraceInv, GraceIsExact

LEMMA GraceStep == TypeOK /\ TypeOK' /\ GraceInv /\ [Next]_vars => GraceInv'
<1> SUFFICES ASSUME TypeOK, TypeOK', GraceInv, [Next]_vars PROVE GraceInv'
  OBVIOUS
<1>1. CASE BeginProbe
  BY <1>1, SameHistory DEF BeginProbe, NeedsSnapshot, fixed
<1>2. CASE Inspect
  BY <1>2, SameHistory DEF Inspect, fixed
<1>3. CASE RunningInspected
  <2>1. ClockIsHistory' /\ (verdict' = "ready" <=> SeenForGrace')
    BY <1>3, ClockStep DEF GraceInv
  <2>2. pc' \in {"check", "sleep", "probe"} => verdict' # "ready"
    BY DEF TypeOK, StatesOK
  <2> QED
    BY <2>1, <2>2 DEF GraceInv, GraceIsExact
<1>4. CASE HealthInspected \/ NetworkInspected
  BY <1>4, SameHistory DEF HealthInspected, NetworkInspected, fixed, ghosts
<1>5. CASE Ask \/ ExecCreated \/ ExecFails \/ ExecStarted \/ Asked
  <2>1. probe.kind # "running"
    BY <1>5 DEF Ask, ExecCreated, ExecFails, ExecStarted, Asked, GraceInv, ClockIsHistory
  <2>2. UNCHANGED <<probe, runningSince, polls>>
    BY <1>5 DEF Ask, ExecCreated, ExecFails, ExecStarted, Asked, Answered, fixed, ghosts
  <2> QED
    BY <2>1, <2>2, SameHistory
<1>6. CASE Check \/ Wake \/ SleepCancelled
  <2>1. UNCHANGED <<probe, runningSince, polls>>
    BY <1>6 DEF Check, Wake, SleepCancelled, fixed, ghosts
  <2>2. /\ pc \in {"check", "sleep"} /\ pc' \in {"sleep", "probe", "done"}
        /\ pc' = "done" => verdict' # "ready"
    BY <1>6 DEF Check, Wake, SleepCancelled
  <2>3. probe.kind = "running" =>
            /\ pc' \notin {"ask", "start", "asked"}
            /\ pc' = "inspected" => answer' \in {"failed", "down", "up"}
            /\ pc' \in {"check", "sleep", "probe"} => pc \in {"check", "sleep", "probe"}
            /\ pc' = "done" =>
                 \/ pc \in {"check", "sleep"} /\ verdict' # "ready"
                 \/ pc = "done" /\ verdict' = verdict
    BY <2>2
  <2> QED
    BY <2>1, <2>3, SameHistory
<1>7. CASE Tick
  <2>1. UNCHANGED <<probe, runningSince, polls, pc, answer, verdict>>
    BY <1>7 DEF Tick, fixed, wait
  <2> QED
    BY <2>1, SameHistory DEF GraceInv, ClockIsHistory
<1>8. CASE World \/ UNCHANGED vars
  <2>1. UNCHANGED <<probe, runningSince, polls, pc, answer, verdict>>
    BY <1>8, WorldsFrame
  <2> QED
    BY <2>1, SameHistory DEF GraceInv, ClockIsHistory
<1> QED
  BY <1>1, <1>2, <1>3, <1>4, <1>5, <1>6, <1>7, <1>8 DEF Next, WaitReady

\* The one remembered instant decides as the whole history of polls would, for any grace
\* period, failed snapshots and restarts between polls.
THEOREM GraceIsExactHolds == Spec => []GraceIsExact
<1>1. Init => GraceInv
  <2>1. Init => polls = <<>> /\ DOMAIN polls = {} /\ Len(polls) = 0
    BY DEF Init
  <2> QED
    BY <2>1 DEF Init, GraceInv, GraceIsExact, ClockIsHistory, ClockOf, SeenForGrace
<1>2. GraceInv => GraceIsExact
  BY DEF GraceInv
<1> QED
  BY <1>1, <1>2, GraceStep, TypeCorrect, PTL DEF Spec

-----------------------------------------------------------------------------
(* What "ready" says about the container *)

\* An answer that will make the container ready.
Positive ==
    \/ pc = "inspected" /\ probe.kind \notin {"tcp", "http"} /\ answer \in {"up", "healthy"}
    \/ pc = "asked" /\ (answer = "ok" \/ (probe.kind = "tcp" /\ answer = "error"))

Earned == \/ lastGood >= began
          \/ host = "localhost" /\ network # "host"
          \/ answer = "missing"

EarnedInv ==
    /\ Good => lastGood = now
    /\ probe.kind \in {"exec", "log"} =>
          /\ pc \in {"inspect", "inspected"} => probe.unset
          /\ pc \in {"ask", "start", "asked"} => ~probe.unset
    /\ pc = "ask" => probe.kind \notin {"health", "running"}
    /\ pc = "start" => probe.kind = "exec"
    /\ pc \in {"inspect", "inspected", "ask", "start", "asked"} => host # "none"
    /\ Positive => Earned
    /\ verdict = "ready" => Earned

\* A step of the world or of the clock: the container changes, the wait does not.
LEMMA EarnedElsewhere ==
    ASSUME TypeOK, TypeOK', EarnedInv,
           UNCHANGED <<probe, network, pc, host, answer, began, verdict>>,
           Good' => lastGood' = now',
           lastGood' \in {lastGood, now, now'}, now' >= now
    PROVE  EarnedInv'
<1>0. now \in Nat /\ began \in Nat /\ began <= now /\ now' \in Nat
  BY DEF TypeOK, InstantsOK
<1>1. lastGood >= began => lastGood' >= began'
  <2>1. CASE lastGood' = lastGood
    BY <2>1
  <2>2. CASE lastGood' \in {now, now'}
    BY <1>0, <2>2
  <2> QED
    BY <2>1, <2>2
<1>2. Earned => Earned'
  BY <1>1 DEF Earned
<1> QED
  BY <1>2 DEF EarnedInv, Positive

\* A step of the wait: the container does not change.
LEMMA EarnedHere ==
    ASSUME EarnedInv, UNCHANGED <<now, fixed, container, lastGood>>
    PROVE  Good' => lastGood' = now'
  BY DEF EarnedInv, Good, Wanted, fixed, container

\* What the kinds of probe want.
LEMMA WantedByKind ==
    /\ probe.kind = "tcp" => (Good <=> app # "closed")
    /\ probe.kind = "http" => (Good <=> app = "ok")
    /\ probe.kind = "exec" /\ ~probe.unset => (Good <=> app = "ok")
    /\ probe.kind = "log" /\ ~probe.unset => (Good <=> logged)
<1>1. CASE probe.kind \in {"tcp", "http"}
  BY <1>1 DEF Good, Wanted
<1>2. CASE probe.kind = "exec" /\ ~probe.unset
  BY <1>2 DEF Good, Wanted
<1>3. CASE probe.kind = "log" /\ ~probe.unset
  BY <1>3 DEF Good, Wanted
<1> QED
  BY <1>1, <1>2, <1>3

\* A true answer that makes the container ready was given while it was as wanted.
LEMMA GoodWhenSeen ==
    ASSUME TypeOK, EarnedInv, Good
    PROVE  lastGood >= began
  BY DEF EarnedInv, TypeOK, InstantsOK

LEMMA EarnedStep == TypeOK /\ TypeOK' /\ EarnedInv /\ [Next]_vars => EarnedInv'
<1> SUFFICES ASSUME TypeOK, TypeOK', EarnedInv, [Next]_vars PROVE EarnedInv'
  OBVIOUS
<1>0. /\ verdict = "ready" <=> pc = "done" /\ verdict = "ready"
      /\ pc' # "done" => verdict' # "ready"
      /\ probe.kind \in {"health", "running", "tcp", "http", "exec", "log"}
  BY ProbesAssumption DEF TypeOK, StatesOK, Probe
<1>1. CASE BeginProbe
  <2>1. /\ UNCHANGED <<now, fixed, container, lastGood>> /\ UNCHANGED probe
        /\ pc' = (IF NeedsSnapshot THEN "inspect" ELSE "ask") /\ host' = "own"
    BY <1>1 DEF BeginProbe, fixed
  <2> QED
    BY <1>0, <2>1, EarnedHere DEF EarnedInv, Positive, NeedsSnapshot
<1>2. CASE Inspect
  <2>1. /\ UNCHANGED <<now, fixed, container, lastGood>> /\ UNCHANGED <<probe, lastGood, began, host>>
        /\ pc = "inspect" /\ pc' = "inspected"
    BY <1>2 DEF Inspect, fixed
  <2>2. Positive' => Good
    BY <1>0, <1>2, <2>1 DEF Inspect, Positive, Good, Wanted, EarnedInv, TypeOK, StatesOK
  <2> QED
    BY <1>0, <2>1, <2>2, EarnedHere, GoodWhenSeen DEF EarnedInv, Earned
<1>3. CASE HealthInspected \/ RunningInspected
  <2>1. /\ UNCHANGED <<now, fixed, container, lastGood>>
        /\ UNCHANGED <<probe, network, lastGood, began, host, answer>>
        /\ pc = "inspected" /\ probe.kind \notin {"tcp", "http"} /\ pc' \in {"check", "done"}
    BY <1>3 DEF HealthInspected, RunningInspected, fixed, ghosts, Judge, Ready, NotReady
  <2>2. verdict' = "ready" => Positive
    BY <1>0, <1>3, <2>1
       DEF HealthInspected, RunningInspected, Judge, Ready, NotReady, HealthReady, Positive
  <2> QED
    BY <1>0, <2>1, <2>2, EarnedHere DEF EarnedInv, Earned, Positive
<1>4. CASE NetworkInspected
  <2>1. /\ UNCHANGED <<now, fixed, container, lastGood>> /\ UNCHANGED probe
        /\ probe.kind \in {"tcp", "http"} /\ pc' = "ask" /\ host' # "none"
    BY <1>4 DEF NetworkInspected, Host, fixed
  <2> QED
    BY <1>0, <2>1, EarnedHere DEF EarnedInv, Positive
<1>5. CASE Ask
  <2>1. /\ UNCHANGED <<now, fixed, container, lastGood>>
        /\ UNCHANGED <<probe, network, lastGood, began, host>>
        /\ pc = "ask" /\ pc' = "asked" /\ probe.kind # "exec"
    BY <1>5 DEF Ask, Answered, fixed
  <2>2. Positive' => Good \/ (host = "localhost" /\ network # "host")
    <3>1. CASE probe.kind = "log"
      <4>1. Positive' => logged
        BY <1>5, <2>1, <3>1 DEF Ask, Positive
      <4>2. ~probe.unset
        BY <2>1, <3>1 DEF EarnedInv
      <4> QED
        BY <3>1, <4>1, <4>2, WantedByKind
    <3>2. CASE probe.kind # "log"
      <4>1. answer' \in {"failed", Answering}
        BY <1>5, <3>2 DEF Ask
      <4>2. Answering = app \/ (host = "localhost" /\ network # "host")
        BY <2>1 DEF Answering, EarnedInv, TypeOK, StatesOK
      <4>3. Positive' => answer' = "ok" \/ (probe.kind = "tcp" /\ answer' = "error")
        BY <2>1 DEF Positive
      <4> QED
        BY <1>0, <2>1, <3>2, <4>1, <4>2, <4>3, WantedByKind DEF EarnedInv
    <3> QED
      BY <3>1, <3>2
  <2> QED
    BY <1>0, <2>1, <2>2, EarnedHere, GoodWhenSeen DEF EarnedInv, Earned
<1>6. CASE ExecCreated
  <2>1. /\ UNCHANGED <<now, fixed, container, lastGood>> /\ UNCHANGED <<probe, host>>
        /\ pc = "ask" /\ pc' = "start" /\ probe.kind = "exec"
    BY <1>6 DEF ExecCreated, fixed, ghosts
  <2> QED
    BY <1>0, <2>1, EarnedHere DEF EarnedInv, Positive
<1>7. CASE ExecFails \/ ExecStarted
  <2>1. /\ UNCHANGED <<now, fixed, container, lastGood>>
        /\ UNCHANGED <<probe, lastGood, began, host>>
        /\ pc \in {"ask", "start"} /\ pc' = "asked"
    BY <1>7 DEF ExecFails, ExecStarted, Answered, fixed
  <2>2. Positive' => Good
    <3>1. probe.kind = "exec" /\ ~probe.unset
      BY <1>7 DEF ExecFails, ExecStarted, EarnedInv
    <3>2. answer' \in {"failed", app, "missing"}
      BY <1>7 DEF ExecFails, ExecStarted
    <3>3. Positive' => answer' = "ok"
      BY <2>1, <3>1 DEF Positive
    <3> QED
      BY <3>1, <3>2, <3>3, WantedByKind
  <2> QED
    BY <1>0, <2>1, <2>2, EarnedHere, GoodWhenSeen DEF EarnedInv, Earned
<1>8. CASE Asked
  <2>1. /\ UNCHANGED <<now, fixed, container, lastGood>>
        /\ UNCHANGED <<probe, network, lastGood, began, host, answer>>
        /\ pc = "asked" /\ pc' \in {"check", "done"}
    BY <1>8 DEF Asked, fixed, ghosts, Judge, Ready, NotReady
  <2>2. verdict' = "ready" => Positive \/ answer = "missing"
    BY <1>0, <1>8, <2>1 DEF Asked, Judge, Ready, NotReady, Positive
  <2> QED
    BY <1>0, <2>1, <2>2, EarnedHere DEF EarnedInv, Earned, Positive
<1>9. CASE Check \/ Wake \/ SleepCancelled
  <2>1. /\ UNCHANGED <<now, fixed, container, lastGood>> /\ UNCHANGED probe
        /\ pc' \in {"sleep", "probe", "done"} /\ verdict' # "ready"
    BY <1>0, <1>9 DEF Check, Wake, SleepCancelled, fixed, ghosts
  <2> QED
    BY <2>1, EarnedHere DEF EarnedInv, Positive
<1>10. CASE Tick
  <2>1. /\ UNCHANGED <<fixed, container>>
        /\ UNCHANGED <<probe, network, pc, host, answer, began, verdict>>
        /\ now' = now + 1 /\ lastGood' = (IF Good THEN now + 1 ELSE lastGood)
    BY <1>10 DEF Tick, fixed, wait
  <2>2. Good' <=> Good
    BY <2>1 DEF Good, Wanted, fixed, container
  <2>3. now \in Nat
    BY DEF TypeOK, InstantsOK
  <2>4. /\ Good' => lastGood' = now'
        /\ lastGood' \in {lastGood, now, now'} /\ now' >= now
    <3>1. CASE Good
      BY <2>1, <2>3, <3>1
    <3>2. CASE ~Good
      BY <2>1, <2>2, <2>3, <3>2
    <3> QED
      BY <3>1, <3>2
  <2> QED
    BY <2>1, <2>4, EarnedElsewhere
<1>11. CASE World \/ UNCHANGED vars
  <2>1. UNCHANGED <<now, probe, network, pc, host, answer, began, verdict>> /\ now \in Nat
    BY <1>11, WorldsFrame DEF TypeOK, InstantsOK
  <2>2. CASE Watch
    BY <2>1, <2>2, EarnedElsewhere DEF Watch
  <2>3. CASE Cancel \/ UNCHANGED vars
    <3>1. UNCHANGED <<now, fixed, container, lastGood>>
      BY <2>3 DEF Cancel, vars, ghosts
    <3> QED
      BY <2>1, <3>1, EarnedHere, EarnedElsewhere
  <2> QED
    BY <1>11, <2>2, <2>3
       DEF World, Start, Stop, Work, HealthCheck, LogMoves, OtherServes
<1> QED
  BY <1>1, <1>2, <1>3, <1>4, <1>5, <1>6, <1>7, <1>8, <1>9, <1>10, <1>11 DEF Next, WaitReady

\* A container is reported ready only if it was as its probe wants it during the last
\* poll, but for the two ways the code leaves open.
THEOREM ReadyIsEarnedHolds == Spec => []ReadyIsEarned
<1>1. Init => EarnedInv
  BY DEF Init, EarnedInv, Positive
<1>2. EarnedInv => ReadyIsEarned
  BY DEF EarnedInv, Earned, ReadyIsEarned
<1> QED
  BY <1>1, <1>2, EarnedStep, TypeCorrect, PTL DEF Spec

-----------------------------------------------------------------------------
(* When a container that stays ready is noticed *)

Polling == {"inspect", "inspected", "ask", "start", "asked"}

\* An answer that makes the poll go on.
Negative ==
    \/ pc = "inspected" /\ probe.kind \notin {"tcp", "http"} /\ answer \notin {"up", "healthy"}
    \/ /\ pc = "asked" /\ answer \notin {"ok", "missing"}
       /\ probe.kind # "tcp" \/ answer # "error"

\* A grace period is running: the poll is not ready, so it has not run out.
Timed == probe.kind = "running" /\ runningSince # Never

ClockRuns ==
    /\ pc = "check" => now < runningSince + Grace
    /\ pc = "sleep" => wake < runningSince + Grace + Interval
    /\ pc = "probe" => now < runningSince + Grace + Interval
    /\ pc \in Polling => began < runningSince + Grace + Interval

\* No poll has seen the container as it is now: the last one just missed it.
Missed ==
    /\ pc = "check" => began <= goodSince
    /\ pc = "sleep" => wake <= goodSince + MaxProbe + Interval
    /\ pc = "probe" => now <= goodSince + MaxProbe + Interval
    /\ pc \in Polling => began <= goodSince + MaxProbe + Interval

Noticing ==
    /\ Negative => began <= goodSince
    /\ Timed => runningSince <= goodSince + MaxProbe + Interval + MaxProbe
    /\ ~Timed => Missed
    /\ verdict = "timeout" => goodSince >= Deadline - Margin

SeenShape ==
    /\ goodSince # Never <=> Good
    /\ health = "healthy" => up
    /\ pc = "sleep" => wake <= now + Interval
    /\ pc = "asked" => probe.kind \notin {"health", "running"}
    /\ ~lapsed => /\ pc = "ask" => host = "own" \/ network = "host"
                  /\ pc = "inspected" => answer # "failed"
                  /\ pc = "inspected" /\ probe.kind = "running" => answer \in {"up", "down"}

SeenInv ==
    /\ SeenShape
    /\ ~lapsed /\ Timed => ClockRuns
    /\ ~lapsed /\ ~cancelled /\ goodSince # Never => Noticing

LEMMA Instants ==
    ASSUME TypeOK
    PROVE  /\ Timeout \in Nat /\ Interval \in Nat /\ Grace \in Nat /\ MaxProbe \in Nat
           /\ Interval > 0
           /\ now \in Nat /\ began \in Nat /\ wake \in Nat /\ began <= now
           /\ runningSince \in Int /\ runningSince <= now
           /\ goodSince \in Int /\ goodSince <= now
  BY TimeAssumption DEF TypeOK, InstantsOK, Never

\* A step of the wait leaves the container and what is known of it alone.
LEMMA SameGood ==
    ASSUME UNCHANGED <<fixed, container, goodSince>>
    PROVE  /\ Good' <=> Good
           /\ UNCHANGED <<probe, network, up, health, app, logged, other, goodSince>>
  BY DEF Good, Wanted, fixed, container

\* What the state says once a wait is bounded, well typed and asks what its probe needs.
Sane == TypeOK /\ TypeOK' /\ InBound /\ EarnedInv /\ SeenInv

LEMMA SeenStep == Sane /\ [Next]_vars => SeenInv'
<1> SUFFICES ASSUME Sane, [Next]_vars PROVE SeenInv'
  OBVIOUS
<1>0. /\ Timeout \in Nat /\ Interval \in Nat /\ Grace \in Nat /\ MaxProbe \in Nat
      /\ Interval > 0
      /\ now \in Nat /\ began \in Nat /\ wake \in Nat /\ began <= now
      /\ runningSince \in Int /\ runningSince <= now
      /\ goodSince \in Int /\ goodSince <= now
  BY Instants DEF Sane
<1>k. probe.kind \in {"health", "running", "tcp", "http", "exec", "log"}
  BY ProbesAssumption DEF Sane, TypeOK, StatesOK, Probe
<1>m. Margin = IF probe.kind = "running" THEN (MaxProbe + Interval + MaxProbe) + Grace ELSE MaxProbe
  BY DEF Margin
<1>v. pc' # "done" => verdict' # "timeout"
  BY DEF Sane, TypeOK, StatesOK
<1>1. CASE BeginProbe
  <2>1. /\ UNCHANGED <<fixed, container, goodSince>>
        /\ UNCHANGED <<now, cancelled, runningSince, lapsed, verdict, goodSince>>
        /\ pc = "probe" /\ pc' \in {"inspect", "ask"} /\ began' = now /\ host' = "own"
    BY <1>1 DEF BeginProbe
  <2>2. SeenShape'
    BY <2>1, SameGood DEF Sane, SeenInv, SeenShape
  <2>3. (~lapsed /\ Timed => ClockRuns)'
    BY <1>0, <2>1, SameGood DEF Sane, SeenInv, Timed, ClockRuns, Polling
  <2>4. (~lapsed /\ ~cancelled /\ goodSince # Never => Noticing)'
    BY <1>0, <1>v, <2>1, SameGood
       DEF Sane, SeenInv, Timed, Noticing, Missed, Negative, Polling
  <2> QED
    BY <2>2, <2>3, <2>4 DEF SeenInv
<1>2. CASE Inspect
  <2>1. /\ UNCHANGED <<fixed, container, goodSince>>
        /\ UNCHANGED <<now, cancelled, runningSince, host, began, verdict, goodSince>>
        /\ pc = "inspect" /\ pc' = "inspected"
        /\ lapsed' = (lapsed \/ answer' = "failed")
        /\ answer' \in {"failed", IF ~up THEN "down"
                        ELSE IF probe.kind # "health" \/ health = "none" THEN "up" ELSE health}
    BY <1>2 DEF Inspect
  <2>2. SeenShape'
    <3>1. probe.kind = "running" => answer' \in {"failed", "up", "down"}
      BY <2>1
    <3> QED BY <2>1, <3>1, SameGood DEF Sane, SeenInv, SeenShape
  <2>3. (~lapsed /\ Timed => ClockRuns)'
    BY <1>0, <2>1, SameGood DEF Sane, SeenInv, Timed, ClockRuns, Polling
  <2>4. (~lapsed /\ ~cancelled /\ goodSince # Never => Noticing)'
    <3> SUFFICES ASSUME ~lapsed', ~cancelled', goodSince' # Never
                 PROVE  Noticing'
      OBVIOUS
    <3>1. ~lapsed /\ ~cancelled /\ goodSince # Never /\ Noticing /\ Good
      BY <2>1, SameGood DEF Sane, SeenInv, SeenShape
    <3>2. ~Negative'
      <4>1. probe.kind \in {"exec", "log"} => probe.unset
        BY <2>1 DEF Sane, EarnedInv
      <4>2. probe.kind \notin {"tcp", "http"} => answer' \in {"up", "healthy"}
        <5>1. CASE probe.kind = "health"
          BY <2>1, <3>1, <5>1 DEF Good, Wanted, Sane, SeenInv, SeenShape
        <5>2. CASE probe.kind \in {"running", "exec", "log"}
          BY <2>1, <3>1, <4>1, <5>2 DEF Good, Wanted
        <5> QED BY <1>k, <5>1, <5>2
      <4> QED BY <2>1, <4>2, SameGood DEF Negative
    <3>3. Timed' = Timed /\ (Missed => Missed')
      BY <2>1, SameGood DEF Timed, Missed, Polling
    <3> QED
      BY <1>v, <2>1, <3>1, <3>2, <3>3, SameGood DEF Noticing
  <2> QED
    BY <2>2, <2>3, <2>4 DEF SeenInv
<1>3. CASE HealthInspected \/ Asked
  <2>1. /\ UNCHANGED <<fixed, container, goodSince>>
        /\ UNCHANGED <<now, cancelled, runningSince, host, answer, began, lapsed, goodSince>>
        /\ pc' \in {"check", "done"} /\ verdict' # "timeout"
        /\ \/ pc = "inspected" /\ probe.kind \notin {"tcp", "http", "running"}
           \/ pc = "asked" /\ probe.kind # "running"
        /\ pc' = "check" => Negative
    <3>1. CASE HealthInspected
      BY <1>k, <3>1 DEF HealthInspected, HealthReady, Judge, Ready, NotReady, Negative, ghosts,
                  Sane, TypeOK, StatesOK
    <3>2. CASE Asked
      BY <1>k, <3>2 DEF Asked, Judge, Ready, NotReady, Negative, ghosts, Sane, TypeOK, StatesOK,
                  SeenInv, SeenShape
    <3> QED BY <1>3, <3>1, <3>2
  <2>2. SeenShape'
    BY <2>1, SameGood DEF Sane, SeenInv, SeenShape
  <2>3. ~Timed'
    BY <2>1, SameGood DEF Timed
  <2>4. (~lapsed /\ ~cancelled /\ goodSince # Never => Noticing)'
    <3> SUFFICES ASSUME ~lapsed', ~cancelled', goodSince' # Never
                 PROVE  Noticing'
      OBVIOUS
    <3>1. Noticing
      BY <2>1 DEF Sane, SeenInv
    <3>2. ~Negative'
      BY <2>1 DEF Negative
    <3>3. Missed'
      BY <2>1, <3>1 DEF Noticing, Missed, Polling
    <3> QED
      BY <2>1, <2>3, <3>2, <3>3 DEF Noticing
  <2> QED
    BY <2>2, <2>3, <2>4 DEF SeenInv
<1>4. CASE RunningInspected
  <2>1. /\ UNCHANGED <<fixed, container, goodSince>>
        /\ UNCHANGED <<now, cancelled, host, answer, began, lapsed, goodSince>>
        /\ pc' \in {"check", "done"} /\ verdict' # "timeout"
        /\ pc = "inspected" /\ probe.kind = "running" /\ probe'.kind = "running"
        /\ runningSince' = Since
        /\ pc' = "check" => ~(answer = "up" /\ now - Since >= Grace)
    BY <1>4, SameGood
       DEF RunningInspected, Judge, Ready, NotReady, Sane, TypeOK, StatesOK
  <2>2. SeenShape'
    BY <2>1, SameGood DEF Sane, SeenInv, SeenShape
  <2>3. /\ ~lapsed => answer \in {"up", "down"}
        /\ answer = "down" => runningSince' = Never
        /\ answer = "up" /\ runningSince = Never => runningSince' = now
        /\ answer = "up" /\ runningSince # Never => runningSince' = runningSince
    BY <2>1 DEF Sane, SeenInv, SeenShape, Since
  <2>4. (~lapsed /\ Timed => ClockRuns)'
    <3>1. ~lapsed /\ runningSince' # Never /\ pc' = "check" => now < runningSince' + Grace
      BY <1>0, <2>1, <2>3 DEF Sane, TypeOK, InstantsOK, Never
    <3> QED
      BY <2>1, <3>1 DEF Timed, ClockRuns, Polling
  <2>5. (~lapsed /\ ~cancelled /\ goodSince # Never => Noticing)'
    <3> SUFFICES ASSUME ~lapsed', ~cancelled', goodSince' # Never
                 PROVE  Noticing'
      OBVIOUS
    <3>1. Noticing /\ ~lapsed
      BY <2>1 DEF Sane, SeenInv
    <3>2. now <= began + MaxProbe
      BY <2>1 DEF Sane, InBound
    <3>3. CASE answer = "down"
      <4>1. began <= goodSince
        BY <2>1, <3>1, <3>3 DEF Noticing, Negative
      <4> QED
        BY <2>1, <2>3, <3>3, <4>1 DEF Noticing, Negative, Missed, Timed, Polling
    <3>4. CASE answer = "up" /\ runningSince # Never
      <4>1. runningSince <= goodSince + MaxProbe + Interval + MaxProbe
        BY <2>1, <3>1, <3>4 DEF Noticing, Timed
      <4> QED
        BY <2>1, <2>3, <3>4, <4>1 DEF Noticing, Negative, Timed
    <3>5. CASE answer = "up" /\ runningSince = Never
      <4>1. began <= goodSince + MaxProbe + Interval
        BY <2>1, <3>1, <3>5 DEF Noticing, Timed, Missed, Polling
      <4>2. runningSince' <= goodSince + MaxProbe + Interval + MaxProbe
        BY <1>0, <2>3, <3>2, <3>5, <4>1
      <4>3. Timed'
        BY <1>0, <2>1, <2>3, <3>5 DEF Timed, Never
      <4> QED
        BY <2>1, <4>2, <4>3 DEF Noticing, Negative
    <3> QED
      BY <2>3, <3>1, <3>3, <3>4, <3>5
  <2> QED
    BY <2>2, <2>4, <2>5 DEF SeenInv
<1>5. CASE NetworkInspected
  <2>1. /\ UNCHANGED <<fixed, container, goodSince>>
        /\ UNCHANGED <<now, cancelled, runningSince, answer, began, verdict, goodSince>>
        /\ pc = "inspected" /\ pc' = "ask" /\ probe.kind \in {"tcp", "http"}
        /\ lapsed' = (lapsed \/ (Host = "localhost" /\ network # "host"))
        /\ host' = Host /\ Host \in {"own", "localhost"}
    BY <1>5 DEF NetworkInspected, Host
  <2>2. SeenShape'
    BY <2>1, SameGood DEF Sane, SeenInv, SeenShape
  <2>3. ~Timed'
    BY <2>1, SameGood DEF Timed
  <2>4. (~lapsed /\ ~cancelled /\ goodSince # Never => Noticing)'
    BY <1>v, <2>1, <2>3, SameGood
       DEF Sane, SeenInv, Timed, Noticing, Missed, Negative, Polling
  <2> QED
    BY <2>2, <2>3, <2>4 DEF SeenInv
<1>6. CASE Ask \/ ExecFails \/ ExecStarted
  <2>1. /\ UNCHANGED <<fixed, container, goodSince>>
        /\ UNCHANGED <<now, cancelled, runningSince, host, began, verdict, goodSince>>
        /\ pc \in {"ask", "start"} /\ pc' = "asked"
        /\ lapsed' = (lapsed \/ answer' = "failed")
        /\ pc = "start" => probe.kind = "exec" /\ answer' \in {"failed", "missing", app}
        /\ pc = "ask" => answer' = "failed" \/ probe.kind # "exec"
    <3>1. CASE Ask
      BY <3>1 DEF Ask, Answered
    <3>2. CASE ExecFails \/ ExecStarted
      BY <3>2 DEF ExecFails, ExecStarted, Answered, Sane, EarnedInv
    <3> QED BY <1>6, <3>1, <3>2
  <2>2. probe.kind \notin {"health", "running"}
    BY <2>1 DEF Sane, EarnedInv
  <2>3. SeenShape'
    BY <2>1, <2>2, SameGood DEF Sane, SeenInv, SeenShape
  <2>4. ~Timed'
    BY <2>1, <2>2, SameGood DEF Timed
  <2>5. (~lapsed /\ ~cancelled /\ goodSince # Never => Noticing)'
    <3> SUFFICES ASSUME ~lapsed', ~cancelled', goodSince' # Never
                 PROVE  Noticing'
      OBVIOUS
    <3>1. Noticing /\ ~lapsed /\ Good /\ answer' # "failed"
      BY <2>1, SameGood DEF Sane, SeenInv, SeenShape
    <3>2. CASE pc = "start"
      <4>1. app = "ok"
        BY <2>1, <3>1, <3>2, WantedByKind DEF Sane, EarnedInv
      <4> QED
        BY <1>v, <2>1, <2>4, <3>1, <3>2, <4>1, SameGood
           DEF Noticing, Negative, Missed, Timed, Polling
    <3>3. CASE pc = "ask"
      <4>1. Ask /\ probe.kind \in {"tcp", "http", "log"}
        BY <1>6, <1>k, <2>1, <2>2, <3>1, <3>3 DEF ExecFails, ExecStarted
      <4>2. probe.kind = "log" => answer' = "ok"
        <5>1. probe.kind = "log" => logged
          BY <3>1, <3>3, WantedByKind DEF Sane, EarnedInv
        <5> QED BY <3>1, <4>1, <5>1 DEF Ask
      <4>3. probe.kind # "log" => answer' = app
        BY <3>1, <3>3, <4>1 DEF Ask, Answering, Sane, SeenInv, SeenShape
      <4>4. ~Negative'
        BY <2>1, <3>1, <4>1, <4>2, <4>3, WantedByKind, SameGood
           DEF Negative, Sane, TypeOK, StatesOK
      <4> QED
        BY <1>v, <2>1, <2>2, <2>4, <3>1, <3>3, <4>4, SameGood
           DEF Noticing, Missed, Timed, Polling
    <3> QED
      BY <2>1, <3>2, <3>3
  <2> QED
    BY <2>3, <2>4, <2>5 DEF SeenInv
<1>7. CASE ExecCreated
  <2>1. /\ UNCHANGED <<fixed, container, goodSince>>
        /\ UNCHANGED <<now, cancelled, runningSince, lapsed, began, verdict, goodSince>>
        /\ pc = "ask" /\ pc' = "start" /\ probe.kind = "exec"
    BY <1>7 DEF ExecCreated, ghosts
  <2>2. SeenShape'
    BY <2>1, SameGood DEF Sane, SeenInv, SeenShape
  <2>3. ~Timed'
    BY <2>1, SameGood DEF Timed
  <2>4. (~lapsed /\ ~cancelled /\ goodSince # Never => Noticing)'
    BY <1>v, <2>1, <2>3, SameGood
       DEF Sane, SeenInv, Timed, Noticing, Missed, Negative, Polling
  <2> QED
    BY <2>2, <2>3, <2>4 DEF SeenInv
<1>8. CASE Check
  <2>1. /\ UNCHANGED <<fixed, container, goodSince>>
        /\ UNCHANGED <<now, cancelled, runningSince, lapsed, began, goodSince>>
        /\ pc = "check"
        /\ \/ now >= Deadline /\ pc' = "done"
           \/ pc' = "sleep" /\ wake' = now + Interval /\ verdict' = verdict
    BY <1>8 DEF Check, PastDeadline, ghosts
  <2>2. SeenShape'
    BY <1>0, <2>1, SameGood DEF Sane, SeenInv, SeenShape
  <2>3. (~lapsed /\ Timed => ClockRuns)'
    BY <1>0, <2>1, SameGood DEF Sane, SeenInv, Timed, ClockRuns, Polling
  <2>4. (~lapsed /\ ~cancelled /\ goodSince # Never => Noticing)'
    <3> SUFFICES ASSUME ~lapsed', ~cancelled', goodSince' # Never
                 PROVE  Noticing'
      OBVIOUS
    <3>1. Noticing /\ ~lapsed
      BY <2>1 DEF Sane, SeenInv
    <3>2. now <= began + MaxProbe
      BY <2>1 DEF Sane, InBound
    <3>3. /\ ~Timed => now <= goodSince + MaxProbe
          /\ Timed => /\ now < runningSince + Grace
                      /\ runningSince <= goodSince + MaxProbe + Interval + MaxProbe
      BY <1>0, <2>1, <3>1, <3>2 DEF Noticing, Missed, Sane, SeenInv, ClockRuns
    <3>4. ~Timed' => Missed'
      BY <1>0, <2>1, <3>3, SameGood DEF Timed, Missed, Polling
    <3>5. verdict' = "timeout" => goodSince' >= Deadline - Margin'
      <4>1. CASE pc' = "done"
        <5>1. Margin' = Margin /\ Deadline \in Nat
          BY <1>0, <2>1, SameGood DEF Margin, Deadline
        <5>2. CASE Timed
          <6>1. Margin = (MaxProbe + Interval + MaxProbe) + Grace
            BY <1>m, <5>2 DEF Timed
          <6> QED BY <1>0, <2>1, <3>3, <4>1, <5>1, <5>2, <6>1
        <5>3. CASE ~Timed
          <6>1. Margin \in Nat /\ Margin >= MaxProbe
            BY <1>0, <1>m
          <6> QED BY <1>0, <2>1, <3>3, <4>1, <5>1, <5>3, <6>1
        <5> QED BY <5>2, <5>3
      <4>2. CASE pc' # "done"
        BY <4>2 DEF Sane, TypeOK, StatesOK
      <4> QED BY <4>1, <4>2
    <3> QED
      BY <1>0, <2>1, <3>1, <3>3, <3>4, <3>5, SameGood DEF Noticing, Negative, Timed
  <2> QED
    BY <2>2, <2>3, <2>4 DEF SeenInv
<1>9. CASE Wake
  <2>1. /\ UNCHANGED <<fixed, container, goodSince>>
        /\ UNCHANGED <<now, cancelled, runningSince, lapsed, began, wake, verdict, goodSince>>
        /\ pc = "sleep" /\ pc' = "probe" /\ now = wake
    BY <1>0, <1>9 DEF Wake, ghosts, Sane, InBound
  <2>2. SeenShape'
    BY <2>1, SameGood DEF Sane, SeenInv, SeenShape
  <2>3. (~lapsed /\ Timed => ClockRuns)'
    BY <2>1, SameGood DEF Sane, SeenInv, Timed, ClockRuns, Polling
  <2>4. (~lapsed /\ ~cancelled /\ goodSince # Never => Noticing)'
    BY <1>v, <2>1, SameGood
       DEF Sane, SeenInv, Timed, Noticing, Missed, Negative, Polling
  <2> QED
    BY <2>2, <2>3, <2>4 DEF SeenInv
<1>10. CASE SleepCancelled
  <2>1. /\ UNCHANGED <<fixed, container, goodSince>>
        /\ UNCHANGED <<now, cancelled, runningSince, lapsed, goodSince>>
        /\ pc' = "done" /\ cancelled
    BY <1>10 DEF SleepCancelled, ghosts
  <2>2. SeenShape'
    BY <2>1, SameGood DEF Sane, SeenInv, SeenShape
  <2> QED
    BY <2>1, <2>2 DEF SeenInv, ClockRuns, Polling
<1>11. CASE Tick
  <2>1. /\ UNCHANGED <<fixed, container, goodSince>>
        /\ UNCHANGED <<cancelled, pc, runningSince, host, answer, began, wake, verdict, goodSince, lapsed>>
        /\ pc = "sleep" \/ pc \in Polling
        /\ now' = now + 1
    BY <1>11 DEF Tick, wait, Polling
  <2>2. SeenShape'
    BY <1>0, <2>1, SameGood DEF Sane, SeenInv, SeenShape
  <2>3. (~lapsed /\ Timed => ClockRuns)'
    BY <2>1, SameGood DEF Sane, SeenInv, Timed, ClockRuns, Polling
  <2>4. (~lapsed /\ ~cancelled /\ goodSince # Never => Noticing)'
    BY <1>v, <2>1, SameGood
       DEF Sane, SeenInv, Timed, Noticing, Missed, Negative, Polling
  <2> QED
    BY <2>2, <2>3, <2>4 DEF SeenInv
<1>12. CASE Watch /\ World
  <2>1. /\ UNCHANGED <<now, cancelled, probe, network, pc, runningSince, host, answer, began, wake,
                       verdict, lapsed>>
        /\ pc # "done" /\ verdict # "timeout"
        /\ goodSince' = IF ~Good' THEN Never ELSE IF Good THEN goodSince ELSE now
    BY <1>12 DEF Watch, fixed, wait, Sane, TypeOK, StatesOK
  <2>2. SeenShape'
    <3>1. health' = "healthy" => up'
      BY <1>12 DEF World, Start, Stop, Work, HealthCheck, LogMoves, OtherServes, Cancel, container,
                   Sane, SeenInv, SeenShape
    <3>2. goodSince' # Never <=> Good'
      BY <1>0, <2>1 DEF Never, Sane, SeenInv, SeenShape
    <3> QED
      BY <2>1, <3>1, <3>2 DEF Sane, SeenInv, SeenShape
  <2>3. (~lapsed /\ Timed => ClockRuns)'
    BY <2>1 DEF Sane, SeenInv, Timed, ClockRuns, Polling
  <2>4. (~lapsed /\ ~cancelled /\ goodSince # Never => Noticing)'
    <3> SUFFICES ASSUME ~lapsed', ~cancelled', goodSince' # Never
                 PROVE  Noticing'
      OBVIOUS
    <3>1. CASE Good
      <4>1. goodSince' = goodSince /\ Noticing
        BY <2>1, <3>1 DEF Sane, SeenInv, SeenShape
      <4> QED
        BY <2>1, <4>1 DEF Noticing, Missed, Negative, Polling, Timed, Margin
    <3>2. CASE ~Good
      <4>1. goodSince' = now
        BY <2>1, <3>2
      <4>2. pc = "sleep" => wake <= now + Interval
        BY DEF Sane, SeenInv, SeenShape
      <4> QED
        BY <1>0, <2>1, <4>1, <4>2 DEF Noticing, Missed, Negative, Polling, Timed
    <3> QED BY <3>1, <3>2
  <2> QED
    BY <2>2, <2>3, <2>4 DEF SeenInv
<1>13. CASE Cancel
  <2>1. /\ UNCHANGED <<fixed, container, goodSince>>
        /\ UNCHANGED <<now, pc, runningSince, host, answer, began, wake, lapsed, goodSince>>
        /\ cancelled'
    BY <1>13 DEF Cancel, wait, ghosts
  <2>2. SeenShape'
    BY <2>1, SameGood DEF Sane, SeenInv, SeenShape
  <2>3. (~lapsed /\ Timed => ClockRuns)'
    BY <2>1, SameGood DEF Sane, SeenInv, Timed, ClockRuns, Polling
  <2> QED
    BY <2>1, <2>2, <2>3 DEF SeenInv
<1>14. CASE UNCHANGED vars
  <2>1. /\ UNCHANGED <<fixed, container, goodSince>>
        /\ UNCHANGED <<now, cancelled, pc, runningSince, host, answer, began, wake, verdict, lapsed,
                       goodSince>>
    BY <1>14 DEF vars, wait, ghosts
  <2>2. SeenShape'
    BY <2>1, SameGood DEF Sane, SeenInv, SeenShape
  <2>3. (~lapsed /\ Timed => ClockRuns)'
    BY <2>1, SameGood DEF Sane, SeenInv, Timed, ClockRuns, Polling
  <2>4. (~lapsed /\ ~cancelled /\ goodSince # Never => Noticing)'
    BY <2>1, SameGood
       DEF Sane, SeenInv, Timed, Noticing, Missed, Negative, Polling, Margin
  <2> QED
    BY <2>2, <2>3, <2>4 DEF SeenInv
<1>15. World => Watch \/ Cancel
  BY DEF World, Start, Stop, Work, HealthCheck, LogMoves, OtherServes
<1> QED
  BY <1>1, <1>2, <1>3, <1>4, <1>5, <1>6, <1>7, <1>8, <1>9, <1>10, <1>11, <1>12, <1>13, <1>14,
     <1>15 DEF Next, WaitReady

LEMMA SeenInit == Init => SeenInv
<1> SUFFICES ASSUME Init PROVE SeenInv
  OBVIOUS
<1>0. Interval \in Nat /\ MaxProbe \in Nat /\ Grace \in Nat /\ Timeout \in Nat
  BY TimeAssumption
<1>1. /\ goodSince # Never <=> Good
      /\ goodSince # Never => goodSince = 0
      /\ health = "healthy" => up
  BY DEF Init, Never
<1>2. SeenShape
  BY <1>1 DEF Init, SeenShape
<1>3. ~Timed
  BY DEF Init, Timed
<1>4. goodSince # Never => Noticing
  BY <1>0, <1>1, <1>3 DEF Init, Noticing, Missed, Negative, Polling
<1> QED
  BY <1>2, <1>3, <1>4 DEF SeenInv

\* A container that stays as its probe wants it is noticed within the latency of a poll
\* that just missed it, a sleep and another poll (and, for a "running" probe, the grace
\* period), and is reported as timed out only if it was not so early enough.
THEOREM SteadyReadinessIsSeenHolds == Spec => []SteadyReadinessIsSeen
<1>1. TypeOK /\ InBound /\ SeenInv => SteadyReadinessIsSeen
  <2> SUFFICES ASSUME TypeOK, InBound, SeenInv, ~lapsed, ~cancelled, goodSince # Never
               PROVE  /\ pc # "done" => now <= goodSince + Latency
                      /\ verdict = "timeout" => goodSince >= Deadline - Margin
    BY DEF SteadyReadinessIsSeen
  <2>0. /\ Timeout \in Nat /\ Interval \in Nat /\ Grace \in Nat /\ MaxProbe \in Nat
        /\ now \in Nat /\ began \in Nat /\ wake \in Nat
        /\ runningSince \in Int /\ goodSince \in Int
    BY Instants
  <2>1. Noticing /\ (Timed => ClockRuns)
    BY DEF SeenInv
  <2>2. /\ pc \in Polling \cup {"check"} => now <= began + MaxProbe
        /\ pc = "sleep" => now <= wake
        /\ pc \in Polling \cup {"check", "sleep", "probe", "done"}
    BY DEF InBound, Polling, TypeOK, StatesOK
  <2>3. CASE Timed
    <3>1. Latency = (MaxProbe + Interval + MaxProbe) + Grace + (Interval + MaxProbe)
      BY <2>3 DEF Latency, Timed
    <3>2. runningSince <= goodSince + MaxProbe + Interval + MaxProbe
      BY <2>1, <2>3 DEF Noticing
    <3>3. pc # "done" => now <= runningSince + Grace + Interval + MaxProbe
      BY <2>0, <2>1, <2>2, <2>3 DEF ClockRuns
    <3> QED
      BY <2>0, <2>1, <3>1, <3>2, <3>3 DEF Noticing
  <2>4. CASE ~Timed
    <3>1. Latency \in Nat /\ Latency >= MaxProbe + Interval + MaxProbe
      BY <2>0 DEF Latency
    <3>2. Missed
      BY <2>1, <2>4 DEF Noticing
    <3>3. pc # "done" => now <= goodSince + MaxProbe + Interval + MaxProbe
      BY <2>0, <2>2, <3>2 DEF Missed
    <3> QED
      BY <2>0, <2>1, <3>1, <3>3 DEF Noticing
  <2> QED
    BY <2>3, <2>4
<1>2. Init => EarnedInv
  BY DEF Init, EarnedInv, Positive
<1>3. Init => InBound
  BY TimeAssumption DEF Init, InBound, Deadline
<1>4. TypeOK /\ TypeOK' /\ InBound /\ EarnedInv /\ SeenInv /\ [Next]_vars => SeenInv'
  BY SeenStep DEF Sane
<1> QED
  BY <1>1, <1>2, <1>3, <1>4, SeenInit, EarnedStep, InBoundStep, TypeCorrect, PTL DEF Spec
=============================================================================

--------------------------- MODULE IdleStopProofs ---------------------------
(***************************************************************************)
(* Proofs about IdleStop, for any containers, windows and bounds: the      *)
(* state keeps its type, and of the containers a tick decides about it     *)
(* stops exactly those that were idle throughout their window.             *)
(*                                                                         *)
(* The heart of it is what the monitor's little record says of the samples *)
(* it has forgotten: busyAt is the instant of the last busy sample, or of  *)
(* the first one, and net and netAt are those of the last readable one.    *)
(***************************************************************************)
EXTENDS IdleStop, TLAPS

-----------------------------------------------------------------------------
(* Watches *)

Entry == [at : 0..MaxTime, cpu : {"low", "high", "unreadable"}, net : 0..MaxNet]

Unreadable(w, i) == w[i].cpu = "unreadable"

\* The record's clock is that of the last busy sample, or of the first sample.
ClockExact(t, w) ==
    /\ w[1].at <= t.busyAt
    /\ \A i \in DOMAIN w : LooksBusy(w, i) => w[i].at <= t.busyAt
    /\ \E i \in DOMAIN w : w[i].at = t.busyAt /\ (i = 1 \/ LooksBusy(w, i))

LastReadable(w, j, end) ==
    /\ ~Unreadable(w, j)
    /\ \A k \in 1..end : k > j => Unreadable(w, k)

\* Its counter is that of the last readable sample.
CounterExact(t, w) ==
    \/ t.netAt = Never /\ \A i \in DOMAIN w : Unreadable(w, i)
    \/ \E j \in DOMAIN w : /\ LastReadable(w, j, Len(w))
                           /\ t.netAt = w[j].at /\ t.net = w[j].net

Exact(t, w) ==
    \/ w = <<>> /\ t = NoTrack
    \/ w # <<>> /\ ClockExact(t, w) /\ CounterExact(t, w)

Moved(w, i, j) == \/ w[i].net < w[j].net
                  \/ w[i].net - w[j].net > Floor * (w[i].at - w[j].at)

\* A sample looks busy by itself or against the last readable one before it.
LEMMA LooksBusyIs ==
  ASSUME NEW w, NEW i \in Nat
  PROVE  LooksBusy(w, i) <=>
            \/ w[i].cpu # "low"
            \/ \E j \in 1..(i - 1) : LastReadable(w, j, i - 1) /\ Moved(w, i, j)
  <1> DEFINE before == {j \in 1..(i - 1) : w[j].cpu # "unreadable"}
  <1>1. ASSUME NEW j \in before
        PROVE  (\A k \in before : k <= j) <=> LastReadable(w, j, i - 1)
    BY DEF LastReadable, Unreadable
  <1>2. ASSUME NEW j \in 1..(i - 1), LastReadable(w, j, i - 1)
        PROVE  j \in before
    BY <1>2 DEF LastReadable, Unreadable
  <1>3. LooksBusy(w, i) <=>
            \/ w[i].cpu # "low"
            \/ \E j \in before : (\A k \in before : k <= j) /\ Moved(w, i, j)
    BY DEF LooksBusy, Moved
  <1> QED BY <1>1, <1>2, <1>3

LEMMA Appended ==
  ASSUME NEW w \in Seq(Entry), NEW e \in Entry
  PROVE  /\ Append(w, e) \in Seq(Entry)
         /\ Append(w, e) # <<>>
         /\ Len(w) \in Nat /\ Len(Append(w, e)) = Len(w) + 1
         /\ DOMAIN w = 1..Len(w) /\ DOMAIN Append(w, e) = 1..(Len(w) + 1)
         /\ \A i \in 1..Len(w) : Append(w, e)[i] = w[i] /\ w[i] \in Entry
         /\ Append(w, e)[Len(w) + 1] = e
         /\ w = <<>> <=> Len(w) = 0
  OBVIOUS

\* What was sampled before is judged as it was.
LEMMA JudgedAsBefore ==
  ASSUME NEW w \in Seq(Entry), NEW e \in Entry, NEW i \in 1..Len(w)
  PROVE  LooksBusy(Append(w, e), i) <=> LooksBusy(w, i)
  <1> DEFINE v == Append(w, e)
  <1>1. \A k \in 1..i : v[k] = w[k]
    BY Appended
  <1>2. i \in Nat
    BY Appended
  <1> HIDE DEF v
  <1>3. \A j \in 1..(i - 1) : /\ LastReadable(v, j, i - 1) <=> LastReadable(w, j, i - 1)
                              /\ Moved(v, i, j) <=> Moved(w, i, j)
    BY <1>1, <1>2 DEF LastReadable, Unreadable, Moved
  <1>4. v[i].cpu = w[i].cpu
    BY <1>1, <1>2
  <1>5. LooksBusy(v, i) <=> LooksBusy(w, i)
    BY <1>2, <1>3, <1>4, LooksBusyIs
  <1> QED BY <1>5 DEF v

\* The traffic the code sees against its record.
Seen(t, e) == /\ t.netAt # Never
              /\ \/ e.net < t.net
                 \/ e.net - t.net > Floor * (e.at - t.netAt)

\* And the new sample is judged by the record as it is by the whole watch.
LEMMA JudgedByRecord ==
  ASSUME NEW w \in Seq(Entry), NEW e \in Entry, NEW t, Exact(t, w)
  PROVE  LooksBusy(Append(w, e), Len(w) + 1) <=> e.cpu # "low" \/ Seen(t, e)
  <1> DEFINE v == Append(w, e)
             n == Len(w)
  <1>0. n \in Nat /\ (\A i \in 1..n : v[i] = w[i] /\ w[i] \in Entry) /\ v[n + 1] = e
        /\ DOMAIN w = 1..n
    BY Appended
  <1> HIDE DEF v, n
  <1>1. LooksBusy(v, n + 1) <=>
            e.cpu # "low" \/ \E j \in 1..n : LastReadable(v, j, n) /\ Moved(v, n + 1, j)
    BY <1>0, LooksBusyIs
  <1>2. ASSUME t.netAt = Never, \A i \in 1..n : Unreadable(w, i)
        PROVE  LooksBusy(v, n + 1) <=> e.cpu # "low" \/ Seen(t, e)
    <2>1. \A j \in 1..n : ~LastReadable(v, j, n)
      BY <1>0, <1>2 DEF LastReadable, Unreadable
    <2>2. ~Seen(t, e)
      BY <1>2 DEF Seen
    <2> QED BY <1>1, <2>1, <2>2
  <1>3. ASSUME NEW j \in 1..n, LastReadable(w, j, n), t.netAt = w[j].at, t.net = w[j].net
        PROVE  LooksBusy(v, n + 1) <=> e.cpu # "low" \/ Seen(t, e)
    <2>1. LastReadable(v, j, n) /\ \A k \in 1..n : LastReadable(v, k, n) => k = j
      BY <1>0, <1>3 DEF LastReadable, Unreadable
    <2>2. Moved(v, n + 1, j) <=> Seen(t, e)
      <3>1. w[j].at # Never
        BY <1>0 DEF Never, Entry
      <3> QED BY <1>0, <1>3, <3>1 DEF Moved, Seen
    <2> QED BY <1>1, <2>1, <2>2
  <1>4. \/ t.netAt = Never /\ \A i \in 1..n : Unreadable(w, i)
        \/ \E j \in 1..n : LastReadable(w, j, n) /\ t.netAt = w[j].at /\ t.net = w[j].net
    <2>1. CASE w = <<>> /\ t = NoTrack
      BY <1>0, <2>1 DEF NoTrack
    <2>2. CASE CounterExact(t, w)
      BY <1>0, <2>2 DEF CounterExact, n
    <2> QED BY <2>1, <2>2 DEF Exact
  <1>5. LooksBusy(v, n + 1) <=> e.cpu # "low" \/ Seen(t, e)
    BY <1>2, <1>3, <1>4, Zenon
  <1> QED BY <1>5 DEF v, n

\* The record after a sample: Clock and NewTrack, of the record and the sample.
After(t, e) ==
    LET busy == e.cpu # "low" \/ Seen(t, e)
    IN  [busyAt |-> IF busy \/ t.busyAt = Never THEN e.at ELSE t.busyAt,
         net    |-> IF e.cpu # "unreadable" THEN e.net ELSE t.net,
         netAt  |-> IF e.cpu # "unreadable" THEN e.at ELSE t.netAt]

\* The record stays exact when a sample no older than the others is added.
LEMMA ExactStep ==
  ASSUME NEW w \in Seq(Entry), NEW e \in Entry, NEW t, Exact(t, w),
         \A i \in DOMAIN w : w[i].at <= e.at
  PROVE  Exact(After(t, e), Append(w, e))
  <1> DEFINE v == Append(w, e)
             n == Len(w)
             u == After(t, e)
  <1>0. /\ n \in Nat /\ (\A i \in 1..n : v[i] = w[i] /\ w[i] \in Entry) /\ v[n + 1] = e
        /\ DOMAIN w = 1..n /\ DOMAIN v = 1..(n + 1) /\ v # <<>> /\ Len(v) = n + 1
        /\ w = <<>> <=> n = 0
    BY Appended
  <1>1. \A i \in 1..n : LooksBusy(v, i) <=> LooksBusy(w, i)
    BY JudgedAsBefore
  <1>2. LooksBusy(v, n + 1) <=> e.cpu # "low" \/ Seen(t, e)
    BY JudgedByRecord
  <1>3. /\ u.busyAt = IF LooksBusy(v, n + 1) \/ t.busyAt = Never THEN e.at ELSE t.busyAt
        /\ u.net = IF e.cpu # "unreadable" THEN e.net ELSE t.net
        /\ u.netAt = IF e.cpu # "unreadable" THEN e.at ELSE t.netAt
    BY <1>2 DEF After
  <1>4. \A i \in 1..(n + 1) : v[i].at \in Nat /\ v[i].at <= e.at
    BY <1>0 DEF Entry
  <1>5. n = 0 => t.busyAt = Never /\ t.netAt = Never
    BY <1>0 DEF Exact, NoTrack
  <1>6. n # 0 => ClockExact(t, w) /\ CounterExact(t, w)
    BY <1>0 DEF Exact
  <1> HIDE DEF v, n, u
  <1>7. ClockExact(u, v)
    <2>1. CASE LooksBusy(v, n + 1) \/ n = 0
      <3>1. u.busyAt = e.at
        BY <1>3, <1>5, <2>1
      <3>2. n + 1 \in DOMAIN v /\ v[n + 1].at = u.busyAt /\ (n + 1 = 1 \/ LooksBusy(v, n + 1))
        BY <1>0, <2>1, <3>1
      <3> QED BY <1>0, <1>4, <3>1, <3>2 DEF ClockExact
    <2>2. CASE ~LooksBusy(v, n + 1) /\ n # 0
      <3>1. PICK i \in 1..n : w[i].at = t.busyAt /\ (i = 1 \/ LooksBusy(w, i))
        BY <1>0, <1>6, <2>2 DEF ClockExact
      <3>2. t.busyAt # Never
        BY <1>0, <3>1 DEF Entry, Never
      <3>3. u.busyAt = t.busyAt
        BY <1>3, <2>2, <3>2
      <3>4. v[1].at <= u.busyAt
        BY <1>0, <1>6, <2>2, <3>3 DEF ClockExact
      <3>5. \A k \in DOMAIN v : LooksBusy(v, k) => v[k].at <= u.busyAt
        BY <1>0, <1>1, <1>6, <2>2, <3>3 DEF ClockExact
      <3>6. i \in DOMAIN v /\ v[i].at = u.busyAt /\ (i = 1 \/ LooksBusy(v, i))
        BY <1>0, <1>1, <3>1, <3>3
      <3> QED BY <3>4, <3>5, <3>6 DEF ClockExact
    <2> QED BY <2>1, <2>2
  <1>8. CounterExact(u, v)
    <2>1. CASE e.cpu # "unreadable"
      <3>1. LastReadable(v, n + 1, n + 1)
        BY <1>0, <2>1 DEF LastReadable, Unreadable
      <3> QED BY <1>0, <1>3, <2>1, <3>1 DEF CounterExact
    <2>2. CASE e.cpu = "unreadable" /\ t.netAt = Never /\ \A i \in 1..n : Unreadable(w, i)
      BY <1>0, <1>3, <2>2 DEF CounterExact, Unreadable
    <2>3. ASSUME e.cpu = "unreadable", NEW j \in 1..n, LastReadable(w, j, n),
                 t.netAt = w[j].at, t.net = w[j].net
          PROVE  CounterExact(u, v)
      <3>1. LastReadable(v, j, n + 1) /\ j \in DOMAIN v
        BY <1>0, <2>3 DEF LastReadable, Unreadable
      <3>2. u.netAt = v[j].at /\ u.net = v[j].net
        BY <1>0, <1>3, <2>3
      <3> QED BY <1>0, <3>1, <3>2 DEF CounterExact
    <2>4. \/ t.netAt = Never /\ \A i \in 1..n : Unreadable(w, i)
          \/ \E j \in 1..n : LastReadable(w, j, n) /\ t.netAt = w[j].at /\ t.net = w[j].net
      <3>1. CASE n = 0
        BY <1>5, <3>1
      <3>2. CASE n # 0
        BY <1>0, <1>6, <3>2 DEF CounterExact, n
      <3> QED BY <3>1, <3>2
    <2> QED BY <2>1, <2>2, <2>3, <2>4
  <1>9. Exact(u, v)
    BY <1>0, <1>7, <1>8 DEF Exact
  <1> QED BY <1>9 DEF u, v

\* An exact clock tells whether the watch was idle throughout a window.
LEMMA WindowByClock ==
  ASSUME NEW w, NEW t, w # <<>>, ClockExact(t, w), NEW t0 \in Nat, NEW window \in Nat,
         t.busyAt \in Int, \A i \in DOMAIN w : w[i].at \in Int, 1 \in DOMAIN w
  PROVE  IdleThroughout(w, t0, window) <=> t0 - t.busyAt >= window
  BY DEF ClockExact, IdleThroughout

-----------------------------------------------------------------------------
(* The invariant *)

\* Every container's record is exact, and what is still to be decided in this
\* tick has no sample of this tick yet.
Watched ==
    /\ log \in [Name -> Seq(Entry)]
    /\ \A n \in Name : Exact(idle[n], log[n])
    /\ \A n \in Name : \A i \in DOMAIN log[n] :
          log[n][i].at <= tnow /\ (n \in todo => log[n][i].at < tnow)

\* What a tick has to do is configured and, from the decisions on, sampled.
Ticking ==
    /\ pc \in {"idle", "list"} => todo = {}
    /\ \A n \in todo : /\ tcfg[n] > 0
                       /\ pc \in {"decide", "stopping"} => sample[n] # NoSample

IInv == TypeOK /\ Watched /\ Ticking

LEMMA NoWatch == Exact(NoTrack, <<>>) /\ <<>> \in Seq(Entry) /\ DOMAIN <<>> = {}
  BY DEF Exact

LEMMA InitIInv == Init => IInv
  <1> SUFFICES ASSUME Init
               PROVE  IInv
    OBVIOUS
  <1> USE DEF Init, NoWindows, NoSamples
  <1>1. TypeOK
    BY BoundAssumption, NobodyAssumption DEF TypeOK, Container
  <1>2. Watched
    BY NoWatch DEF Watched
  <1> QED BY <1>1, <1>2 DEF IInv, Ticking

\* Dropping some of the watches and adding no work keeps the rest exact.
LEMMA ForgetWatched ==
  ASSUME IInv, NEW S, Forget(S), tnow' = tnow \/ (tnow' \in Int /\ tnow' > tnow),
         todo' \subseteq todo \/ tnow' > tnow
  PROVE  Watched' /\ idle' \in [Name -> Track \cup {NoTrack}]
  <1> USE DEF IInv, Watched, Forget
  <1>1. log' \in [Name -> Seq(Entry)] /\ \A n \in Name : Exact(idle[n], log[n])'
    BY NoWatch
  <1>2. tnow \in Int /\ \A n \in Name : \A i \in DOMAIN log[n] : log[n][i].at \in Int
    <2>1. tnow \in Int
      BY BoundAssumption DEF TypeOK
    <2>2. ASSUME NEW n \in Name, NEW i \in DOMAIN log[n]
          PROVE  log[n][i].at \in Int
      <3>1. log[n] \in Seq(Entry)
        OBVIOUS
      <3>2. log[n][i] \in Entry
        BY <3>1
      <3> QED BY <3>2, BoundAssumption DEF Entry
    <2> QED BY <2>1, <2>2
  <1>3. ASSUME NEW n \in Name, NEW i \in DOMAIN log'[n]
        PROVE  log'[n][i].at <= tnow' /\ (n \in todo' => log'[n][i].at < tnow')
    <2>1. log'[n] = log[n]
      BY <1>3, NoWatch
    <2> QED BY <1>2, <1>3, <2>1
  <1> QED BY <1>1, <1>3 DEF TypeOK

\* So does a step that leaves them alone.
LEMMA SameWatched ==
  ASSUME IInv, UNCHANGED <<idle, log, tnow>>, todo' \subseteq todo
  PROVE  Watched'
  BY DEF IInv, Watched

LEMMA CandidatesType == Candidates \subseteq Name /\ \A n \in Candidates : tcfg[n] > 0
  BY DEF Candidates

\* The entry a decision adds to the watch, and the record it leaves.
LEMMA DecideStep ==
  ASSUME IInv, NEW n \in Name, Decide(n)
  PROVE  /\ idle'[n].busyAt = Clock(n) /\ idle'[n] \in Track
         /\ idle' = [idle EXCEPT ![n] = idle'[n]]
         /\ log'[n] \in Seq(Entry) /\ log' = [log EXCEPT ![n] = log'[n]]
         /\ Exact(idle'[n], log'[n])
         /\ \A i \in DOMAIN log'[n] : log'[n][i].at <= tnow
         /\ log'[n] # <<>>
  <1> DEFINE e == [at |-> tnow, cpu |-> sample[n].cpu, net |-> sample[n].net]
  <1>1. e \in Entry /\ tnow \in 0..MaxTime
    BY BoundAssumption DEF IInv, TypeOK, Ticking, Decide, Sample, Entry
  <1>2. /\ log[n] \in Seq(Entry) /\ Exact(idle[n], log[n])
        /\ \A i \in DOMAIN log[n] : log[n][i].at <= tnow
    BY DEF IInv, Watched
  <1>3. /\ idle' = [idle EXCEPT ![n] = NewTrack(n)] /\ log' = [log EXCEPT ![n] = Append(@, e)]
        /\ idle'[n] = NewTrack(n) /\ log'[n] = Append(log[n], e)
    BY DEF Decide, IInv, TypeOK, Watched
  <1>4. NewTrack(n) = After(idle[n], e)
    <2>1. Busy(n) <=> e.cpu # "low" \/ Seen(idle[n], e)
      BY DEF Busy, Readable, Traffic, Seen
    <2> QED BY <2>1 DEF NewTrack, After, Clock, Readable
  <1>5. NewTrack(n) \in Track
    <2>1. idle[n] = NoTrack \/ idle[n] \in Track
      BY DEF IInv, TypeOK
    <2>2. sample[n].net \in 0..MaxNet /\ 0 \in 0..MaxNet
      BY <1>1, BoundAssumption DEF Entry
    <2>3. Clock(n) \in 0..MaxTime
      BY <1>1, <2>1 DEF Clock, Track, NoTrack
    <2>4. /\ idle[n].net \in 0..MaxNet
          /\ idle[n].netAt \in {Never} \cup 0..MaxTime
      BY <2>1, <2>2 DEF Track, NoTrack
    <2> QED BY <1>1, <2>2, <2>3, <2>4 DEF NewTrack, Track
  <1>6. NewTrack(n).busyAt = Clock(n)
    BY DEF NewTrack
  <1>7. Exact(idle'[n], log'[n])
    BY <1>1, <1>2, <1>3, <1>4, ExactStep
  <1>8. \A i \in DOMAIN log'[n] : log'[n][i].at <= tnow
    BY <1>1, <1>2, <1>3, Appended
  <1>9. log'[n] # <<>> /\ log'[n] \in Seq(Entry)
    BY <1>1, <1>2, <1>3, Appended
  <1> QED BY <1>3, <1>5, <1>6, <1>7, <1>8, <1>9

LEMMA NextIInv == IInv /\ [Next]_vars => IInv'
  <1> SUFFICES ASSUME IInv, [Next]_vars
               PROVE  TypeOK' /\ Watched' /\ Ticking'
    BY DEF IInv
  <1> TypeOK /\ Watched /\ Ticking
    BY DEF IInv
  <1> USE DEF tick
  <1>1. CASE BeginTick
    <2>1. CASE Forget(Name) /\ UNCHANGED tick
      <3>1. Watched' /\ idle' \in [Name -> Track \cup {NoTrack}]
        BY <2>1, ForgetWatched
      <3> QED BY <1>1, <2>1, <3>1 DEF BeginTick, TypeOK, Ticking
    <2>2. CASE tcfg' = cfg /\ pc' = "list" /\ UNCHANGED <<idle, log, tnow, todo, sample, cur>>
      <3>1. pc = "idle" /\ todo = {}
        BY <1>1 DEF BeginTick, Ticking
      <3> QED BY <1>1, <2>2, <3>1, SameWatched DEF BeginTick, TypeOK, Ticking
    <2> QED BY <1>1, <2>1, <2>2 DEF BeginTick
  <1>2. ASSUME Idle, UNCHANGED tnow
        PROVE  Ticking' /\ todo' \subseteq todo
    BY <1>2 DEF Idle, Ticking
  <1>3. CASE ListFails
    <2>1. Watched'
      BY <1>2, <1>3, SameWatched DEF ListFails
    <2> QED BY <1>2, <1>3, <2>1 DEF ListFails, Idle, TypeOK, NoWindows, NoSamples
  <1>4. CASE List
    <2>1. now \in Int /\ tnow \in Int /\ tnow <= now /\ MaxTime \in Nat
      BY BoundAssumption DEF TypeOK
    <2>2. now' \in 0..MaxTime /\ tnow' \in 0..now' /\ tnow' > tnow
      BY <1>4, <2>1 DEF List, TypeOK
    <2>3. Watched' /\ idle' \in [Name -> Track \cup {NoTrack}]
      BY <1>4, <2>1, <2>2, ForgetWatched DEF List, Prune
    <2> QED BY <1>4, <2>2, <2>3, CandidatesType DEF List, TypeOK, Ticking
  <1>5. ASSUME NEW n \in Name, TakeSample(n)
        PROVE  TypeOK' /\ Watched' /\ Ticking'
    <2>1. Watched'
      BY <1>5, SameWatched DEF TakeSample
    <2>2. PICK s \in Sample : sample' = [sample EXCEPT ![n] = s]
      BY <1>5 DEF TakeSample
    <2>3. sample' \in [Name -> Sample \cup {NoSample}]
      BY <2>2 DEF TypeOK
    <2> QED BY <1>5, <2>1, <2>3 DEF TakeSample, TypeOK, Ticking
  <1>6. CASE Sampled
    <2>1. Watched'
      BY <1>6, SameWatched DEF Sampled
    <2> QED BY <1>6, <2>1 DEF Sampled, TypeOK, Ticking
  <1>7. ASSUME NEW n \in Name, Decide(n)
        PROVE  TypeOK' /\ Watched' /\ Ticking'
    <2>1. /\ idle' = [idle EXCEPT ![n] = idle'[n]] /\ idle'[n] \in Track
          /\ log' = [log EXCEPT ![n] = log'[n]] /\ log'[n] \in Seq(Entry)
          /\ Exact(idle'[n], log'[n])
          /\ \A i \in DOMAIN log'[n] : log'[n][i].at <= tnow
      BY <1>7, DecideStep
    <2>2. /\ todo' = todo \ {n} /\ pc = "decide" /\ n # Nobody
          /\ (pc' = "stopping" /\ cur' = n) \/ UNCHANGED <<pc, cur>>
          /\ UNCHANGED <<now, cfg, docker, tcfg, tnow, sample>>
      BY <1>7, NobodyAssumption DEF Decide
    <2>3. Watched'
      <3>1. log' \in [Name -> Seq(Entry)]
        BY <2>1 DEF Watched
      <3>2. ASSUME NEW m \in Name
            PROVE  /\ Exact(idle'[m], log'[m])
                   /\ \A i \in DOMAIN log'[m] :
                        log'[m][i].at <= tnow' /\ (m \in todo' => log'[m][i].at < tnow')
        <4>1. CASE m = n
          BY <2>1, <2>2, <4>1
        <4>2. CASE m # n
          <5>1. log'[m] = log[m] /\ idle'[m] = idle[m]
            BY <2>1, <4>2 DEF Watched, TypeOK
          <5> QED BY <2>2, <4>2, <5>1 DEF Watched
        <4> QED BY <4>1, <4>2
      <3> QED BY <3>1, <3>2 DEF Watched
    <2>4. TypeOK'
      BY <2>1, <2>2 DEF TypeOK
    <2> QED BY <2>2, <2>3, <2>4 DEF Ticking
  <1>8. ASSUME NEW n \in Name
        PROVE  Off(docker[n]) \in Container
    <2>1. docker[n] \in [state : {"own", "shared", "off"}, net : 0..MaxNet]
      BY DEF TypeOK, Container
    <2>2. 0 \in 0..MaxNet
      BY BoundAssumption
    <2> QED BY <2>1, <2>2 DEF Off, Container
  <1>9. CASE StopWorks
    <2>1. cur \in Name /\ cur # Nobody
      BY <1>9 DEF StopWorks, TypeOK
    <2>2. docker' \in [Name -> Container]
      BY <1>8, <1>9, <2>1 DEF StopWorks, TypeOK
    <2>3. Watched' /\ idle' \in [Name -> Track \cup {NoTrack}]
      BY <1>9, ForgetWatched DEF StopWorks
    <2> QED BY <1>9, <2>2, <2>3 DEF StopWorks, TypeOK, Ticking
  <1>10. CASE StopFails
    <2>1. cur \in Name /\ cur # Nobody
      BY <1>10 DEF StopFails, TypeOK
    <2>2. docker' \in [Name -> Container]
      BY <1>8, <1>10, <2>1 DEF StopFails, TypeOK
    <2>3. Watched'
      BY <1>10, SameWatched DEF StopFails
    <2> QED BY <1>10, <2>2, <2>3 DEF StopFails, TypeOK, Ticking
  <1>11. CASE EndTick
    <2>1. Watched'
      BY <1>2, <1>11, SameWatched DEF EndTick
    <2> QED BY <1>2, <1>11, <2>1 DEF EndTick, Idle, TypeOK, NoWindows, NoSamples
  <1>12. ASSUME NEW n \in Name, NEW c \in Container, Become(n, c)
         PROVE  TypeOK' /\ Watched' /\ Ticking'
    <2>1. Watched'
      BY <1>12, SameWatched DEF Become
    <2> QED BY <1>12, <2>1 DEF Become, TypeOK, Ticking
  <1>13. ASSUME NEW n \in Name, Start(n) \/ Stop(n) \/ Transfer(n)
         PROVE  TypeOK' /\ Watched' /\ Ticking'
    <2>1. CASE Start(n)
      <3>1. PICK s \in {"own", "shared"} : Become(n, [state |-> s, net |-> 0])
        BY <2>1 DEF Start
      <3>2. [state |-> s, net |-> 0] \in Container
        BY BoundAssumption DEF Container
      <3> QED BY <1>12, <3>1, <3>2
    <2>2. CASE Stop(n)
      BY <1>8, <1>12, <2>2 DEF Stop
    <2>3. CASE Transfer(n)
      <3>1. PICK k \in (docker[n].net + 1)..MaxNet : Become(n, [docker[n] EXCEPT !.net = k])
        BY <2>3 DEF Transfer
      <3>2. [docker[n] EXCEPT !.net = k] \in Container
        BY BoundAssumption DEF TypeOK, Container
      <3> QED BY <1>12, <3>1, <3>2
    <2> QED BY <1>13, <2>1, <2>2, <2>3
  <1>14. ASSUME NEW n \in Name, Configure(n)
         PROVE  TypeOK' /\ Watched' /\ Ticking'
    <2>1. Watched'
      BY <1>14, SameWatched DEF Configure
    <2> QED BY <1>14, <2>1 DEF Configure, TypeOK, Ticking
  <1>15. CASE DaemonRestarts
    <2>1. Watched' /\ idle' \in [Name -> Track \cup {NoTrack}]
      BY <1>2, <1>15, ForgetWatched DEF DaemonRestarts
    <2> QED BY <1>2, <1>15, <2>1 DEF DaemonRestarts, Idle, TypeOK, NoWindows, NoSamples
  <1>16. CASE UNCHANGED vars
    <2>1. Watched'
      BY <1>16, SameWatched DEF vars
    <2> QED BY <1>16, <2>1 DEF vars, TypeOK, Ticking
  <1> QED
    BY <1>1, <1>3, <1>4, <1>5, <1>6, <1>7, <1>9, <1>10, <1>11, <1>13, <1>14, <1>15, <1>16
    DEF Next, Tick, World

-----------------------------------------------------------------------------
(* The theorems *)

\* The state keeps its type: a clock is an instant the monitor has read, and
\* there is a container to stop exactly when one is being stopped.
THEOREM TypeCorrect == Spec => []TypeOK
  <1>1. IInv => TypeOK
    BY DEF IInv
  <1> QED BY InitIInv, NextIInv, <1>1, PTL DEF Spec

\* Only a decision takes a container off a deciding tick's list.
LEMMA DecisionsOnly ==
  ASSUME IInv, Next, NEW n \in Name, n \in todo, n \notin todo', pc = "decide",
         pc' \in {"decide", "stopping"}
  PROVE  Decide(n)
  <1> USE DEF tick
  <1>1. ASSUME NEW m \in Name, Decide(m)
        PROVE  Decide(n)
    BY <1>1 DEF Decide
  <1>2. BeginTick \/ List \/ ListFails \/ Sampled \/ StopWorks \/ StopFails => pc # "decide"
    BY DEF BeginTick, List, ListFails, Sampled, StopWorks, StopFails
  <1>3. EndTick => todo = {}
    BY DEF EndTick
  <1>4. \A m \in Name : TakeSample(m) => pc # "decide"
    BY DEF TakeSample
  <1>5. \A m \in Name : Start(m) \/ Stop(m) \/ Transfer(m) \/ Configure(m) => todo' = todo
    BY DEF Start, Stop, Transfer, Configure, Become
  <1>6. DaemonRestarts => pc' = "idle"
    BY DEF DaemonRestarts, Idle
  <1> QED BY <1>1, <1>2, <1>3, <1>4, <1>5, <1>6 DEF Next, Tick, World

\* Of the containers a tick decides about, it stops exactly those that were
\* watched for their whole window and idle in every sample inside it, although
\* all it remembers of the samples is one instant and one counter.
THEOREM StopsExactlyTheIdleHolds == Spec => StopsExactlyTheIdle
  <1>1. ASSUME IInv, Next, NEW n \in Name, n \in todo, n \notin todo', pc = "decide",
               pc' \in {"decide", "stopping"}
        PROVE  cur' = n <=> IdleThroughout(log'[n], tnow, tcfg[n])
    <2>1. Decide(n)
      BY <1>1, DecisionsOnly
    <2>2. /\ idle'[n].busyAt = Clock(n) /\ idle'[n] \in Track /\ ClockExact(idle'[n], log'[n])
          /\ log'[n] \in Seq(Entry) /\ log'[n] # <<>>
      BY <1>1, <2>1, DecideStep DEF Exact
    <2>3. tnow \in Nat /\ tcfg[n] \in Nat /\ tcfg[n] > 0 /\ cur = Nobody
      <3>1. tnow \in Nat /\ cur = Nobody
        BY <1>1, BoundAssumption DEF IInv, TypeOK
      <3>2. tcfg[n] \in Windows \cup {0}
        BY <1>1 DEF IInv, TypeOK
      <3>3. tcfg[n] \in Nat
        <4>1. \A t \in Windows \cup {0} : t \in Nat
          BY WindowAssumption
        <4> QED BY <3>2, <4>1
      <3>4. tcfg[n] > 0
        BY <1>1, <3>3 DEF IInv, Ticking
      <3> QED BY <3>1, <3>3, <3>4
    <2>4. Clock(n) \in Int
      BY <2>2, BoundAssumption DEF Track
    <2>5. /\ \A i \in DOMAIN log'[n] : log'[n][i].at \in Int
          /\ 1 \in DOMAIN log'[n]
      <3>1. \A w \in Seq(Entry) : w # <<>> => 1 \in DOMAIN w /\ \A i \in DOMAIN w : w[i] \in Entry
        OBVIOUS
      <3>2. \A e \in Entry : e.at \in Int
        BY BoundAssumption DEF Entry
      <3> QED BY <2>2, <3>1, <3>2
    <2>6. IdleThroughout(log'[n], tnow, tcfg[n]) <=> tnow - Clock(n) >= tcfg[n]
      BY <2>2, <2>3, <2>4, <2>5, WindowByClock
    <2>7. cur' = n <=> Clock(n) # tnow /\ tnow - Clock(n) >= tcfg[n]
      BY <2>1, <2>3, NobodyAssumption DEF Decide
    <2> QED BY <2>3, <2>4, <2>6, <2>7
  <1>2. IInv /\ [Next]_vars =>
           [\A n \in Name : (n \in todo /\ n \notin todo' /\ pc = "decide" /\ pc' \in {"decide", "stopping"}) =>
               (cur' = n <=> IdleThroughout(log'[n], tnow, tcfg[n]))]_vars
    BY <1>1
  <1> QED BY InitIInv, NextIInv, <1>2, PTL DEF Spec, StopsExactlyTheIdle
=============================================================================

----------------------------- MODULE Readiness -----------------------------
(***************************************************************************)
(* WaitReady of internal/readiness: one container of the start plan is     *)
(* polled with its probe until it is ready, the deadline has passed or the *)
(* request is cancelled.  A poll asks Docker, the container or the network *)
(* once or twice; an answer is true when it is given and may be old when   *)
(* it arrives.  Meanwhile the container starts, stops, restarts and works. *)
(*                                                                         *)
(* What a probe looks for inside the container is one thing, app: "ok" is  *)
(* a 2xx or 3xx answer and a command that exits 0; "error" is any other    *)
(* answer, from an open port.  A host named in the probe is taken to be    *)
(* the container itself.                                                   *)
(***************************************************************************)
EXTENDS Integers, Sequences

CONSTANTS
    Probes,      \* the probes a node may have
    Timeout,     \* from the start of the wait to its deadline
    Interval,    \* between two polls
    Grace,       \* of a "running" probe
    MaxProbe     \* the longest a probe's calls take together, by their own timeouts

ASSUME TimeAssumption ==
    Timeout \in Nat \ {0} /\ Interval \in Nat \ {0} /\ Grace \in Nat /\ MaxProbe \in Nat

\* unset: a probe without a command, a marker, or a host.
Probe == [kind : {"health", "running", "tcp", "http", "exec", "log"}, unset : BOOLEAN]

ASSUME ProbesAssumption == Probes \subseteq Probe

VARIABLES
    now,                \* from the start of the wait
    cancelled,          \* ctx.Err() # nil
    probe, network,     \* the node's probe, and where the container's addresses are
    up, health, app,    \* the container: State.Running, State.Health, what it answers
    logged,             \* the log's tail holds the marker
    other,              \* what answers at the container's port on the host's 127.0.0.1
    pc, runningSince, host, answer, began, wake, verdict,   \* WaitReady
    goodSince, lastGood, \* since when, and when last, the container was as the probe wants it
    lapsed,             \* a call failed, or 127.0.0.1 was asked for a container elsewhere
    lateProbes,         \* probes begun after the cancellation
    polls               \* what a "running" probe was told, and when

container == <<up, health, app, logged, other>>
fixed     == <<probe, network>>
ghosts    == <<goodSince, lastGood, lapsed, lateProbes, polls>>
wait      == <<pc, runningSince, host, answer, began, wake, verdict>>
vars      == <<now, cancelled, fixed, container, wait, ghosts>>

Never == -1

Deadline == Timeout

-----------------------------------------------------------------------------
(* The container.  What the probe does not look at stays as it is. *)

\* What the node's probe is meant to find.
Wanted(isUp, itsHealth, itsApp, itsLog) ==
    CASE probe.kind = "running" -> isUp
      [] probe.kind = "health"  -> IF itsHealth = "none" THEN isUp ELSE itsHealth = "healthy"
      [] probe.kind = "tcp"     -> itsApp # "closed"
      [] probe.kind = "http"    -> itsApp = "ok"
      [] probe.kind = "exec"    -> IF probe.unset THEN isUp ELSE itsApp = "ok"
      [] probe.kind = "log"     -> IF probe.unset THEN isUp ELSE itsLog

Good == Wanted(up, health, app, logged)

\* What the node's probe looks at.
AsksTheApp  == probe.kind \in {"tcp", "http"} \/ (probe.kind = "exec" /\ ~probe.unset)
ReadsTheLog == probe.kind = "log" /\ ~probe.unset
NeedsHost   == probe.kind \in {"tcp", "http"} /\ probe.unset

Init ==
    /\ now = 0 /\ cancelled = FALSE
    /\ probe \in Probes
    /\ network \in IF NeedsHost THEN {"bridge", "host", "custom"} ELSE {"bridge"}
    /\ up \in BOOLEAN
    /\ health \in IF probe.kind = "health"
                  THEN {"none", IF up THEN "starting" ELSE "unhealthy"} ELSE {"none"}
    /\ logged \in IF ReadsTheLog THEN BOOLEAN ELSE {FALSE}
    /\ app = "closed" /\ other = "closed"
    /\ pc = "probe" /\ runningSince = Never /\ host = "none" /\ answer = "none"
    /\ began = 0 /\ wake = 0 /\ verdict = "none"
    /\ goodSince = (IF Good THEN 0 ELSE Never)
    /\ lastGood = goodSince
    /\ lapsed = FALSE /\ lateProbes = 0 /\ polls = <<>>

\* After the verdict nothing here is of interest.
Watch ==
    /\ pc # "done"
    /\ UNCHANGED <<now, cancelled, fixed, wait, lapsed, lateProbes, polls>>
    /\ goodSince' = IF ~Good' THEN Never ELSE IF Good THEN goodSince ELSE now
    /\ lastGood' = IF Good \/ Good' THEN now ELSE lastGood

Start ==
    /\ ~up
    /\ up' = TRUE
    /\ health' = IF health = "none" THEN "none" ELSE "starting"
    /\ UNCHANGED <<app, logged, other>>
    /\ Watch

Stop ==
    /\ up
    /\ up' = FALSE /\ app' = "closed"
    /\ health' = IF health = "none" THEN "none" ELSE "unhealthy"
    /\ UNCHANGED <<logged, other>>
    /\ Watch

\* Serving for the first time, or again, is what it logs.
Work ==
    /\ up /\ (AsksTheApp \/ ReadsTheLog)
    /\ app' \in {"closed", "error", "ok"} \ {app}
    /\ logged' = (ReadsTheLog /\ (logged \/ app' = "ok"))
    /\ UNCHANGED <<up, health, other>>
    /\ Watch

HealthCheck ==
    /\ up /\ health # "none"
    /\ health' \in {"healthy", "unhealthy"} \ {health}
    /\ UNCHANGED <<up, app, logged, other>>
    /\ Watch

\* The tail of the log moves past the marker.
LogMoves ==
    /\ logged /\ logged' = FALSE
    /\ UNCHANGED <<up, health, app, other>>
    /\ Watch

OtherServes ==
    /\ NeedsHost /\ network # "host"
    /\ other' = IF other = "ok" THEN "closed" ELSE "ok"
    /\ UNCHANGED <<up, health, app, logged>>
    /\ Watch

-----------------------------------------------------------------------------
(* A probe *)

NeedsSnapshot == probe.kind \in {"running", "health"} \/ probe.unset

BeginProbe ==
    /\ pc = "probe"
    /\ began' = now
    /\ pc' = IF NeedsSnapshot THEN "inspect" ELSE "ask"
    /\ host' = "own"
    /\ lateProbes' = lateProbes + (IF cancelled THEN 1 ELSE 0)
    /\ UNCHANGED <<now, cancelled, fixed, container, runningSince, answer, wake, verdict,
                   goodSince, lastGood, lapsed, polls>>

\* Docker takes the snapshot, or the call fails.
Inspect ==
    /\ pc = "inspect"
    /\ answer' \in {"failed",
                    IF ~up THEN "down"
                    ELSE IF probe.kind # "health" \/ health = "none" THEN "up" ELSE health}
    /\ lapsed' = (lapsed \/ answer' = "failed")
    /\ pc' = "inspected"
    /\ UNCHANGED <<now, cancelled, fixed, container, runningSince, host, began, wake, verdict,
                   goodSince, lastGood, lateProbes, polls>>

NotReady == pc' = "check" /\ UNCHANGED verdict
Ready    == pc' = "done" /\ verdict' = "ready"

Judge(ready) == IF ready THEN Ready ELSE NotReady

\* Mutant: any answer will do.
HealthReady_Blind == answer # "failed"

\* probeHealth, and readyIfRunning of an exec or log probe that is not set.
HealthReady == answer \in {"healthy", "up"}

HealthInspected ==
    /\ pc = "inspected" /\ probe.kind \in {"health", "exec", "log"}
    /\ Judge(HealthReady)
    /\ UNCHANGED <<now, cancelled, fixed, container, runningSince, host, answer, began, wake, ghosts>>

\* Mutants: a stop does not end the grace period; its end is kept for its start.
Since_Kept == IF answer = "up" /\ runningSince = Never THEN now ELSE runningSince

Since_End == IF answer = "up" /\ runningSince = Never THEN now + Grace ELSE runningSince

\* probeRunning keeps its clock when the snapshot fails.
Since ==
    IF answer = "failed" THEN runningSince
    ELSE IF answer = "down" THEN Never
    ELSE IF runningSince = Never THEN now ELSE runningSince

RunningInspected ==
    /\ pc = "inspected" /\ probe.kind = "running"
    /\ runningSince' = Since
    /\ Judge(answer = "up" /\ now - Since >= Grace)
    /\ polls' = Append(polls, [at |-> now, saw |-> answer])
    /\ UNCHANGED <<now, cancelled, fixed, container, host, answer, began, wake,
                   goodSince, lastGood, lapsed, lateProbes>>

\* An address is had only of a running container on Docker's own bridge; without
\* one, 127.0.0.1 is asked, which is the container only in the host's network.
Host == IF network = "bridge" /\ answer = "up" THEN "own" ELSE "localhost"

\* Mutant: the poll insists on an address.
NetworkInspected_Insists ==
    /\ pc = "inspected" /\ probe.kind \in {"tcp", "http"}
    /\ host' = Host
    /\ pc' = IF Host = "localhost" /\ network # "host" THEN "inspect" ELSE "ask"
    /\ UNCHANGED <<now, cancelled, fixed, container, runningSince, answer, began, wake, verdict, ghosts>>

NetworkInspected ==
    /\ pc = "inspected" /\ probe.kind \in {"tcp", "http"}
    /\ host' = Host
    /\ lapsed' = (lapsed \/ (Host = "localhost" /\ network # "host"))
    /\ pc' = "ask"
    /\ UNCHANGED <<now, cancelled, fixed, container, runningSince, answer, began, wake, verdict,
                   goodSince, lastGood, lateProbes, polls>>

Answering == IF host = "own" \/ network = "host" THEN app ELSE other

Answered ==
    /\ lapsed' = (lapsed \/ answer' = "failed")
    /\ pc' = "asked"
    /\ UNCHANGED <<now, cancelled, fixed, container, runningSince, host, began, wake, verdict,
                   goodSince, lastGood, lateProbes, polls>>

\* The dial, the GET or the log read is answered, or fails.
Ask ==
    /\ pc = "ask" /\ probe.kind # "exec"
    /\ answer' \in {"failed", IF probe.kind # "log" THEN Answering
                              ELSE IF logged THEN "ok" ELSE "closed"}
    /\ Answered

\* Exec of internal/dockercli creates the command in a running container ...
ExecCreated ==
    /\ pc = "ask" /\ probe.kind = "exec" /\ up
    /\ pc' = "start"
    /\ UNCHANGED <<now, cancelled, fixed, container, runningSince, host, answer, began, wake,
                   verdict, ghosts>>

ExecFails ==
    /\ pc = "ask" /\ probe.kind = "exec"
    /\ answer' = "failed"
    /\ Answered

\* ... and starts it, but does not look at the status of the start: one that is refused
\* leaves no exit code, and none is read as 0.
ExecStarted ==
    /\ pc = "start"
    /\ answer' \in {"failed", IF up THEN app ELSE "missing"}
    /\ Answered

Asked ==
    /\ pc = "asked"
    /\ Judge(answer \in {"ok", "missing"} \/ (probe.kind = "tcp" /\ answer = "error"))
    /\ UNCHANGED <<now, cancelled, fixed, container, runningSince, host, answer, began, wake, ghosts>>

-----------------------------------------------------------------------------
(* WaitReady *)

\* Mutants: a poll begun before the deadline is followed by another; the deadline is
\* taken to have passed when the next poll would be after it.
PastDeadline_Late  == now >= Deadline /\ began > Deadline
PastDeadline_Early == now + Interval >= Deadline

PastDeadline == now >= Deadline

Check ==
    /\ pc = "check"
    /\ IF PastDeadline
       THEN pc' = "done" /\ verdict' = "timeout" /\ UNCHANGED wake
       ELSE pc' = "sleep" /\ wake' = now + Interval /\ UNCHANGED verdict
    /\ UNCHANGED <<now, cancelled, fixed, container, runningSince, host, answer, began, ghosts>>

\* Both channels may be ready: select takes either.
Wake ==
    /\ pc = "sleep" /\ now >= wake
    /\ pc' = "probe"
    /\ UNCHANGED <<now, cancelled, fixed, container, runningSince, host, answer, began, wake, verdict, ghosts>>

\* Mutant: a cancelled sleep is only a short one.
SleepCancelled_GoesOn ==
    /\ pc = "sleep" /\ cancelled
    /\ pc' = "probe"
    /\ UNCHANGED <<now, cancelled, fixed, container, runningSince, host, answer, began, wake, verdict, ghosts>>

SleepCancelled ==
    /\ pc = "sleep" /\ cancelled
    /\ pc' = "done" /\ verdict' = "cancelled"
    /\ UNCHANGED <<now, cancelled, fixed, container, runningSince, host, answer, began, wake, ghosts>>

-----------------------------------------------------------------------------
(* Time and the request *)

\* The loop's own steps take no time, its sleep ends on time, and a call within its
\* timeout.
Tick ==
    /\ \/ pc = "sleep" /\ ~cancelled /\ now < wake
       \/ pc \in {"inspect", "inspected", "ask", "start", "asked"} /\ now < began + MaxProbe
    /\ now' = now + 1
    /\ lastGood' = IF Good THEN now + 1 ELSE lastGood
    /\ UNCHANGED <<cancelled, fixed, container, wait, goodSince, lapsed, lateProbes, polls>>

Cancel ==
    /\ ~cancelled /\ pc # "done"
    /\ cancelled' = TRUE
    /\ UNCHANGED <<now, fixed, container, wait, ghosts>>

WaitReady ==
    \/ BeginProbe \/ Inspect \/ HealthInspected \/ RunningInspected \/ NetworkInspected
    \/ Ask \/ ExecCreated \/ ExecFails \/ ExecStarted \/ Asked
    \/ Check \/ Wake \/ SleepCancelled

World == Start \/ Stop \/ Work \/ HealthCheck \/ LogMoves \/ OtherServes \/ Cancel

Next == WaitReady \/ Tick \/ World

Spec == Init /\ [][Next]_vars

\* Calls return, and time passes.
FairSpec == Spec /\ WF_vars(WaitReady) /\ WF_vars(Tick)

-----------------------------------------------------------------------------
(* Properties *)

Answers == {"none", "failed", "down", "up", "starting", "healthy", "unhealthy",
            "closed", "error", "ok", "missing"}

InstantsOK ==
    /\ now \in Nat
    /\ runningSince \in 0..now \cup {Never} /\ began \in 0..now /\ wake \in Nat
    /\ goodSince \in 0..now \cup {Never} /\ lastGood \in 0..now \cup {Never}

StatesOK ==
    /\ probe \in Probes /\ network \in {"bridge", "host", "custom"}
    /\ cancelled \in BOOLEAN /\ up \in BOOLEAN /\ logged \in BOOLEAN /\ lapsed \in BOOLEAN
    /\ health \in {"none", "starting", "healthy", "unhealthy"}
    /\ app \in {"closed", "error", "ok"} /\ other \in {"closed", "ok"}
    /\ pc \in {"probe", "inspect", "inspected", "ask", "start", "asked", "check", "sleep", "done"}
    /\ host \in {"none", "own", "localhost"}
    /\ answer \in Answers
    /\ verdict \in {"none", "ready", "timeout", "cancelled"}
    /\ pc = "done" <=> verdict # "none"

TypeOK ==
    /\ InstantsOK /\ StatesOK
    /\ lateProbes \in Nat
    /\ polls \in Seq([at : Nat, saw : Answers])

\* A container is called ready only if it was as its probe wants it at some moment of
\* the last poll - not in an earlier one, and not because something else answered for
\* it.  The exceptions are the code's: 127.0.0.1 is asked for a container without an
\* address or out of sight, and an exec without an exit code passes.
ReadyIsEarned ==
    verdict = "ready" => \/ lastGood >= began
                         \/ host = "localhost" /\ network # "host"
                         \/ answer = "missing"

\* Seen up without a break for the grace period, by what the polls were told.
SeenForGrace ==
    \E i \in DOMAIN polls :
        /\ \A j \in i..Len(polls) : polls[j].saw # "down"
        /\ polls[i].saw = "up" /\ polls[Len(polls)].saw = "up"
        /\ polls[Len(polls)].at - polls[i].at >= Grace

\* "running + a grace period": one remembered instant decides as the whole history of
\* polls would.
GraceIsExact ==
    probe.kind = "running" /\ pc \in {"check", "sleep", "probe", "done"} =>
        (verdict = "ready" <=> SeenForGrace)

\* WaitReady "blocks until the node is ready or its timeout elapses": it overshoots the
\* deadline by one interval and one probe at most, whatever the probe and the container do.
BoundedWait == now < Deadline + Interval + MaxProbe

\* How long a container that stays as the probe wants it can go unnoticed: the probe under
\* way may just have missed it.
Latency == IF probe.kind = "running" THEN (MaxProbe + Interval + MaxProbe) + Grace + (Interval + MaxProbe)
           ELSE MaxProbe + Interval + MaxProbe

\* And how long before the deadline it must be so for the wait not to time out.
Margin == IF probe.kind = "running" THEN (MaxProbe + Interval + MaxProbe) + Grace ELSE MaxProbe

\* A steadily ready container is noticed in time, and never reported as timed out, unless
\* a call failed, an address was missing or the request was cancelled.
SteadyReadinessIsSeen ==
    ~lapsed /\ ~cancelled /\ goodSince # Never =>
        /\ pc # "done" => now <= goodSince + Latency
        /\ verdict = "timeout" => goodSince >= Deadline - Margin

\* A cancelled wait begins at most one more probe: the one a finished sleep may still win.
CancelEnds == lateProbes <= 1

\* Every wait returns.
Terminates == <>(pc = "done")
=============================================================================

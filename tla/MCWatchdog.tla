---------------------------- MODULE MCWatchdog ----------------------------
(* Instances of Watchdog. *)
EXTENDS Watchdog

E(enabled, onUnhealthy, onExit, max) ==
    [enabled |-> enabled, onUnhealthy |-> onUnhealthy, onExit |-> onExit, max |-> max]

\* Caps that change, a cap of none among them.
CapEntries == {E(TRUE, TRUE, TRUE, m) : m \in 0..2}

\* Every combination of triggers, switched on and off.
TriggerEntries == {E(en, un, ex, 0) : en, un, ex \in BOOLEAN}

AllEntries == CapEntries \cup TriggerEntries
=============================================================================

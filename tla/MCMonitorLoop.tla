--------------------------- MODULE MCMonitorLoop ---------------------------
(* Instances of MonitorLoop. *)
EXTENDS MonitorLoop

S(at, days, enabled) == [at |-> at, days |-> days, enabled |-> enabled]

\* None, every day, one that is switched off, and two with the same time of day.
SomeConfigs ==
    {{}, {S(1, {}, TRUE)}, {S(1, {}, FALSE), S(0, {1}, TRUE)}, {S(1, {0}, TRUE), S(1, {}, TRUE)}}
=============================================================================

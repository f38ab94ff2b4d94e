---------------------------- MODULE MCConfigSync ----------------------------
(* Instances of ConfigSync: a Docker tab and a Settings tab, on two origins. *)
EXTENDS ConfigSync, TLC

CONSTANTS docker, settings, ip, domain

TwoOrigins == (docker :> ip) @@ (settings :> domain)
OneOrigin  == [t \in Tabs |-> ip]

=============================================================================

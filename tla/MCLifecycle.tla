---------------------------- MODULE MCLifecycle ----------------------------
(* Instances of Lifecycle with two prefixes: of two queries, or of the same *)
(* source prefix and datacenter written to two destinations.                *)
EXTENDS Lifecycle

OwnDep    == [p \in Prefix |-> IF p = "p" THEN "dep/p" ELSE "dep/q"]
SharedDep == [p \in Prefix |-> "dep"]

Limit(reload, kill, other, fault) ==
  [k \in Signal \cup {"fault"} |->
     CASE k = "reload" -> reload [] k = "kill" -> kill [] k = "other" -> other [] k = "fault" -> fault]

All         == Limit(1, 1, 1, 1)
ReloadOnly  == Limit(1, 0, 0, 0)
KillOnly    == Limit(0, 1, 0, 0)
KillOther   == Limit(0, 1, 1, 0)
FaultOnly   == Limit(0, 0, 0, 1)
Quiet       == Limit(0, 0, 0, 0)
============================================================================

---------------------------- MODULE MCReplicate ----------------------------
(***************************************************************************)
(* Small instances of Replicate.  One prefix: source keys "a" and "b" are  *)
(* replicated, "x" is below an exclude; at the destination "X" and "X/own" *)
(* are below the exclude and "own" is a local key outside it.  Two         *)
(* prefixes, each with a source and a destination of its own: key "a" of   *)
(* prefix "p" is written to "A/p".  Nested: the destination of "q" and the *)
(* status directory are below the destination of "p", and an exclude keeps *)
(* "p" away from the former but not from the latter.                       *)
(***************************************************************************)
EXTENDS Replicate

SamePrefixes == [r \in Runner |-> Prefix]

OneKeys    == {"a", "x"}
TwoKeys    == {"a", "b", "x"}
OneDKeys   == {"A", "X", "X/own", "own"}
TwoDKeys   == OneDKeys \cup {"B"}
ToDest     == [k \in Key |-> CASE k = "a" -> "A" [] k = "b" -> "B" [] k = "x" -> "X"]

OneDepOf         == [p \in Prefix |-> "dep"]
OneDestOf        == [p \in Prefix |-> ToDest]
OneUnder         == [p \in Prefix |-> DKey]
OneExcluded      == [p \in Prefix |-> {"x"}]
OneExcludedLocal == [p \in Prefix |-> {"X", "X/own"}]
OneStatusOf      == [p \in Prefix |-> "status"]

DKeysOf == [p \in Prefix |-> IF p = "p" THEN {"A/p", "own/p"} ELSE {"A/q", "own/q"}]
DKeys   == UNION {DKeysOf[p] : p \in Prefix}

DepPerPrefix  == [p \in Prefix |-> IF p = "p" THEN "dep/p" ELSE "dep/q"]
DestPerPrefix == [p \in Prefix |-> [k \in Key |-> IF p = "p" THEN "A/p" ELSE "A/q"]]
NoneExcluded  == [p \in Prefix |-> {}]
StatusPerPrefix == [p \in Prefix |-> IF p = "p" THEN "status/p" ELSE "status/q"]
NoneUnder       == [p \in Prefix |-> {}]

UnderPerPrefix      == [p \in Prefix |-> DKeysOf[p]]
NestedUnder         == [p \in Prefix |-> IF p = "p" THEN DKeys ELSE DKeysOf["q"]]
NestedExcludedLocal == [p \in Prefix |-> IF p = "p" THEN DKeysOf["q"] ELSE {}]
NestedStatusUnder   == [p \in Prefix |-> IF p = "p" THEN StatusKey ELSE {}]
============================================================================

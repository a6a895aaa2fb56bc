------------------------- MODULE MCReplicateReload -------------------------
(***************************************************************************)
(* The instances of MCReplicate, with two runners: the same configuration  *)
(* before and after the reload, one with a second prefix after it, and one *)
(* with the exclude of "x" taken away ("p" becomes "q").                   *)
(***************************************************************************)
EXTENDS MCReplicate, ReplicateReload

\* Where the search for a bad quiet reload goes on: from the states that are not
\* quiet every continuation has QuietCovers and QuietReload.
StillQuiet == quiet

PrefixAdded   == [r \in Runner |-> IF r = New THEN Prefix ELSE {"p"}]
PrefixChanged == [r \in Runner |-> IF r = New THEN {"q"} ELSE {"p"}]

ExcludedBefore      == [p \in Prefix |-> IF p = "p" THEN {"x"} ELSE {}]
ExcludedLocalBefore == [p \in Prefix |-> IF p = "p" THEN {"X"} ELSE {}]
============================================================================

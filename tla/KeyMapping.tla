---------------------------- MODULE KeyMapping ----------------------------
(***************************************************************************)
(* The keys of one pass of Runner.replicate (runner.go): how the key of a  *)
(* source is renamed to its destination, how a key of the destination is   *)
(* mapped back to see whether it is excluded, and what the update loop and *)
(* the delete loop do with the answers.  Replicate takes the same mappings *)
(* as constants; here a key is a sequence of characters.                   *)
(*                                                                         *)
(* Every listed key is taken to be newer than the checkpoint, and no call  *)
(* fails: both are Replicate's subject.                                    *)
(***************************************************************************)
EXTENDS Naturals, Sequences, FiniteSets, SequencesExt

CONSTANTS
  Char,                 \* the characters of keys
  Pair,                 \* what may be configured: <<source, destination>>
  Rest,                 \* set of what may follow a prefix in a key
  ExcludedRest,         \* set of what follows the source in an exclude
  MaxKeys, MaxExcludes  \* bounds: keys in the listing and in the store, excludes

ASSUME ConstantsAssumption ==
  /\ Pair \subseteq (Seq(Char) \ {<<>>}) \X (Seq(Char) \ {<<>>})
  /\ Rest \subseteq Seq(Char) /\ ExcludedRest \subseteq Seq(Char)
  /\ MaxKeys \in Nat /\ MaxExcludes \in Nat

\* strings.HasPrefix and strings.TrimPrefix.
HasPrefix(key, prefix)  == IsPrefix(prefix, key)
TrimPrefix(key, prefix) ==
  IF HasPrefix(key, prefix) THEN SubSeq(key, Len(prefix) + 1, Len(key)) ELSE key

\* strings.Replace without a limit: every occurrence, from the left.
Replace(key, old, new) ==
  LET from[i \in 1 .. Len(key) + 1] ==
        IF i > Len(key) THEN <<>>
        ELSE IF HasPrefix(SubSeq(key, i, Len(key)), old) THEN new \o from[i + Len(old)]
        ELSE <<key[i]>> \o from[i + 1]
  IN  from[1]

\* Keys that begin with a prefix.
Below(prefix) == {prefix \o r : r \in Rest}

UpTo(n, S) == {T \in SUBSET S : Cardinality(T) <= n}

VARIABLES
  source, destination, \* the prefix that is replicated
  excludes,            \* the excluded prefixes of keys
  listing,             \* the source keys of the view
  before, store,       \* the destination store: when the pass began, and now
  todo,                \* keys left in the loop
  usedKeys,
  phase                \* "update", "delete" or "end"

config == <<source, destination, excludes, listing, before>>
vars == <<config, store, todo, usedKeys, phase>>

Init ==
  /\ \E pair \in Pair : source = pair[1] /\ destination = pair[2]
  /\ excludes \in UpTo(MaxExcludes, {source \o r : r \in ExcludedRest} \cup {<<>>})
  /\ listing \in UpTo(MaxKeys, Below(source))
  /\ before \in UpTo(MaxKeys, Below(destination) \cup Below(source))
  /\ store = before
  /\ todo = listing
  /\ usedKeys = {}
  /\ phase = "update"

\* The key that a source key is written to.
DestKey(key) == destination \o TrimPrefix(key, source)

\* Mutant: the key is not mapped back.
SourceKeySame(key) == key

\* The source key that a key of the destination is taken for.
SourceKey(key) == Replace(key, destination, source)

\* Mutant: a key must be below every exclude.
ExcludedByAll(key) == excludes # {} /\ \A exclude \in excludes : HasPrefix(key, exclude)

\* A stanza without a source is the empty prefix, which every key begins with.
Excluded(key) == \E exclude \in excludes : HasPrefix(key, exclude)

\* An iteration of the update loop.
Update(key) ==
  /\ phase = "update"
  /\ key \in todo
  /\ usedKeys' = usedKeys \cup {DestKey(key)}
  /\ store' = IF Excluded(key) THEN store ELSE store \cup {DestKey(key)}
  /\ todo' = todo \ {key}
  /\ UNCHANGED <<config, phase>>

\* The keys of the destination are listed.
ListKeys ==
  /\ phase = "update"
  /\ todo = {}
  /\ todo' = {key \in store : HasPrefix(key, destination)}
  /\ phase' = "delete"
  /\ UNCHANGED <<config, store, usedKeys>>

\* An iteration of the delete loop.
Delete(key) ==
  /\ phase = "delete"
  /\ key \in todo
  /\ store' = IF key \in usedKeys \/ Excluded(SourceKey(key)) THEN store ELSE store \ {key}
  /\ todo' = todo \ {key}
  /\ UNCHANGED <<config, usedKeys, phase>>

End ==
  /\ phase = "delete"
  /\ todo = {}
  /\ phase' = "end"
  /\ UNCHANGED <<config, store, todo, usedKeys>>

Next ==
  \/ \E key \in todo : Update(key) \/ Delete(key)
  \/ ListKeys
  \/ End

Spec == Init /\ [][Next]_vars

----------------------------------------------------------------------------
(* Properties.                                                             *)

\* The keys of the destination that mirror an excluded part of the source:
\* the destination takes the place of the source in front of the key.
Protected ==
  {key \in before : /\ HasPrefix(key, destination)
                    /\ Excluded(source \o TrimPrefix(key, destination))}

\* A pass leaves below the destination exactly the renamed keys of the listing
\* that are not excluded and what it found below the excluded part, and
\* nothing else in the store is touched.
Mirrored ==
  phase = "end" =>
    store = {destination \o r : r \in {x \in Rest : /\ source \o x \in listing
                                                    /\ ~Excluded(source \o x)}}
              \cup Protected
              \cup {key \in before : ~HasPrefix(key, destination)}

\* A key below an excluded part of the destination survives the pass.
ProtectedSurvive == phase = "end" => Protected \subseteq store
============================================================================

--------------------------- MODULE ReplicaProofs ---------------------------
(* What Replica promises implies that a mark may be relied upon.            *)
EXTENDS Replica, TLAPS

Typed ==
  /\ src \in [Dep -> [Key -> Nat]] /\ idx \in [Dep -> Nat]
  /\ copy \in [Prefix -> [Key -> Nat]] /\ mark \in [Prefix -> Nat]

\* No mark is ahead of its source.
Inv == Typed /\ Covered /\ \A p \in Prefix : mark[p] <= idx[DepOf[p]]

LEMMA InvInit ==
  ASSUME DepOf \in [Prefix -> Dep], Kept \in [Prefix -> SUBSET Key], Init
  PROVE  Inv
  BY DEF Init, Inv, Typed, Covered, Complete

LEMMA ChangeStep ==
  ASSUME DepOf \in [Prefix -> Dep], Kept \in [Prefix -> SUBSET Key], Inv,
         NEW d \in Dep, NEW k \in Key, Change(d, k)
  PROVE  Inv'
  <1>1. /\ idx' = [idx EXCEPT ![d] = @ + 1] /\ UNCHANGED <<copy, mark>>
        /\ src' = [src EXCEPT ![d][k] = 0] \/ src' = [src EXCEPT ![d][k] = idx[d] + 1]
    BY DEF Change
  <1>2. Typed'
    BY <1>1 DEF Inv, Typed
  <1>3. ASSUME NEW p \in Prefix, NEW l \in Kept[p]
        PROVE  /\ mark[p] \in Nat /\ mark[p] <= idx'[DepOf[p]]
               /\ src'[DepOf[p]][l] # 0 /\ src'[DepOf[p]][l] <= mark[p] =>
                    copy[p][l] = src'[DepOf[p]][l]
    <2>1. /\ l \in Key /\ DepOf[p] \in Dep /\ mark[p] \in Nat /\ mark[p] <= idx[DepOf[p]]
          /\ idx[DepOf[p]] \in Nat /\ src[DepOf[p]][l] \in Nat
      BY DEF Inv, Typed
    <2>2. idx'[DepOf[p]] \in Nat /\ idx[DepOf[p]] <= idx'[DepOf[p]]
      BY <1>1, <2>1 DEF Inv, Typed
    <2>3. \/ src'[DepOf[p]][l] = src[DepOf[p]][l]
          \/ src'[DepOf[p]][l] = 0
          \/ src'[DepOf[p]][l] = idx[DepOf[p]] + 1
      <3>1. src \in [Dep -> [Key -> Nat]] /\ idx[d] \in Nat
        BY DEF Inv, Typed
      <3>2. CASE DepOf[p] = d /\ l = k
        BY <1>1, <2>1, <3>1, <3>2
      <3>3. CASE DepOf[p] # d
        BY <1>1, <2>1, <3>1, <3>3
      <3>4. CASE DepOf[p] = d /\ l # k
        BY <1>1, <2>1, <3>1, <3>4
      <3> QED
        BY <3>2, <3>3, <3>4
    <2>4. src[DepOf[p]][l] # 0 /\ src[DepOf[p]][l] <= mark[p] => copy[p][l] = src[DepOf[p]][l]
      BY DEF Inv, Covered, Complete
    <2> QED
      BY <2>1, <2>2, <2>3, <2>4
  <1>4. \A p \in Prefix : mark[p] <= idx'[DepOf[p]]
    BY <1>1 DEF Inv, Typed
  <1> QED
    BY <1>1, <1>2, <1>3, <1>4 DEF Inv, Covered, Complete

LEMMA CopyStep ==
  ASSUME DepOf \in [Prefix -> Dep], Kept \in [Prefix -> SUBSET Key], Inv,
         NEW p \in Prefix, NEW k \in Key, ~UpToDate(p, k), NEW v \in Nat,
         copy' = [copy EXCEPT ![p][k] = v], UNCHANGED <<src, idx, mark>>
  PROVE  Inv'
  <1>1. Typed'
    BY DEF Inv, Typed
  <1>2. ASSUME NEW q \in Prefix, NEW l \in Kept[q],
               src[DepOf[q]][l] # 0, src[DepOf[q]][l] <= mark[q]
        PROVE  copy'[q][l] = src[DepOf[q]][l]
    <2>1. copy[q][l] = src[DepOf[q]][l]
      BY <1>2 DEF Inv, Covered, Complete
    <2>2. q # p \/ l # k
      BY <1>2, <2>1 DEF UpToDate
    <2> QED
      BY <2>1, <2>2 DEF Inv, Typed
  <1> QED
    BY <1>1, <1>2 DEF Inv, Covered, Complete

LEMMA CheckpointStep ==
  ASSUME DepOf \in [Prefix -> Dep], Kept \in [Prefix -> SUBSET Key], Inv,
         NEW p \in Prefix, Checkpoint(p)
  PROVE  Inv'
  <1>1. PICK i \in 0 .. idx[DepOf[p]] : Complete(p, i) /\ mark' = [mark EXCEPT ![p] = i]
    BY DEF Checkpoint
  <1>2. UNCHANGED <<src, idx, copy>>
    BY DEF Checkpoint
  <1>3. idx[DepOf[p]] \in Nat
    BY DEF Inv, Typed
  <1>4. Typed' /\ mark'[p] = i /\ \A q \in Prefix : q # p => mark'[q] = mark[q]
    BY <1>1, <1>2, <1>3 DEF Inv, Typed
  <1> QED
    BY <1>1, <1>2, <1>3, <1>4 DEF Inv, Covered, Complete

\* A source key at or below the mark need not be looked at again: the copy has
\* it, for any number of prefixes, keys and sources.  With Refinement of
\* ReplicateProofs this is what lets replicate skip such keys (runner.go:334).
THEOREM MarkReliable ==
  ASSUME DepOf \in [Prefix -> Dep], Kept \in [Prefix -> SUBSET Key]
  PROVE  Spec => []Covered
  <1>1. Init => Inv
    BY InvInit
  <1>2. Inv /\ [Next]_vars => Inv'
    <2> SUFFICES ASSUME Inv, [Next]_vars PROVE Inv'
      OBVIOUS
    <2>1. ASSUME NEW d \in Dep, NEW k \in Key, Change(d, k) PROVE Inv'
      BY <2>1, ChangeStep
    <2>2. ASSUME NEW p \in Prefix, Checkpoint(p) PROVE Inv'
      BY <2>2, CheckpointStep
    <2>3. ASSUME NEW p \in Prefix, NEW k \in Key, Update(p, k) PROVE Inv'
      <3>1. PICK v \in 1 .. idx[DepOf[p]] : copy' = [copy EXCEPT ![p][k] = v]
        BY <2>3 DEF Update
      <3>2. v \in Nat /\ ~UpToDate(p, k) /\ UNCHANGED <<src, idx, mark>>
        BY <2>3 DEF Update, Inv, Typed
      <3> QED
        BY <3>1, <3>2, CopyStep
    <2>4. ASSUME NEW p \in Prefix, NEW k \in Key, Remove(p, k) PROVE Inv'
      BY <2>4, CopyStep DEF Remove
    <2>5. CASE UNCHANGED vars
      BY <2>5 DEF vars, Inv, Typed, Covered, Complete
    <2> QED
      BY <2>1, <2>2, <2>3, <2>4, <2>5 DEF Next
  <1>3. Inv => Covered
    BY DEF Inv
  <1> QED
    BY <1>1, <1>2, <1>3, PTL DEF Spec
============================================================================

------------------------------ MODULE Replica ------------------------------
(***************************************************************************)
(* What replication promises, without passes, views or calls: each prefix  *)
(* has a copy of some keys of a source, and a mark up to which the source  *)
(* need not be looked at again.                                            *)
(*                                                                         *)
(* A copied key only ever moves to a newer version, a copy is taken away   *)
(* only when it is out of date, and a mark is set only when the copy has   *)
(* everything at or below it.                                              *)
(***************************************************************************)
EXTENDS Naturals

CONSTANTS
  Prefix, Dep, Key,
  DepOf,   \* [Prefix -> Dep]: the source of a prefix
  Kept     \* [Prefix -> SUBSET Key]: the keys that are copied

VARIABLES
  src,     \* [Dep -> [Key -> Nat]]: the version of each key, 0 if it does not exist
  idx,     \* [Dep -> Nat]: the last version given
  copy,    \* [Prefix -> [Key -> Nat]]: the version copied, 0 if none is
  mark     \* [Prefix -> Nat]

vars == <<src, idx, copy, mark>>

Init ==
  /\ src = [d \in Dep |-> [k \in Key |-> 0]] /\ idx = [d \in Dep |-> 1]
  /\ copy = [p \in Prefix |-> [k \in Key |-> 0]] /\ mark = [p \in Prefix |-> 0]

\* A source writes or deletes a key.
Change(d, k) ==
  /\ idx' = [idx EXCEPT ![d] = @ + 1]
  /\ \E v \in {0, idx[d] + 1} : src' = [src EXCEPT ![d][k] = v]
  /\ UNCHANGED <<copy, mark>>

UpToDate(p, k) == src[DepOf[p]][k] # 0 /\ copy[p][k] = src[DepOf[p]][k]

\* A copy that is out of date is overwritten with a newer version, which need
\* not be the newest one.
Update(p, k) ==
  /\ k \in Kept[p] /\ ~UpToDate(p, k)
  /\ \E v \in 1 .. idx[DepOf[p]] : copy[p][k] < v /\ copy' = [copy EXCEPT ![p][k] = v]
  /\ UNCHANGED <<src, idx, mark>>

\* Or it is deleted.
Remove(p, k) ==
  /\ k \in Kept[p] /\ ~UpToDate(p, k)
  /\ copy' = [copy EXCEPT ![p][k] = 0]
  /\ UNCHANGED <<src, idx, mark>>

\* The copy has every key that the source has at or below version i.
Complete(p, i) ==
  \A k \in Kept[p] :
    src[DepOf[p]][k] # 0 /\ src[DepOf[p]][k] <= i => copy[p][k] = src[DepOf[p]][k]

Checkpoint(p) ==
  /\ \E i \in 0 .. idx[DepOf[p]] : Complete(p, i) /\ mark' = [mark EXCEPT ![p] = i]
  /\ UNCHANGED <<src, idx, copy>>

Next ==
  \/ \E d \in Dep, k \in Key : Change(d, k)
  \/ \E p \in Prefix : Checkpoint(p) \/ \E k \in Key : Update(p, k) \/ Remove(p, k)

Spec == Init /\ [][Next]_vars

\* Nothing at or below a mark is missing from the copy.
Covered == \A p \in Prefix : Complete(p, mark[p])
============================================================================

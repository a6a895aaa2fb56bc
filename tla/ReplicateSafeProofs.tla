------------------------- MODULE ReplicateSafeProofs -------------------------
(* Proofs about the deployments of ReplicateSafe: while a runner is alone,  *)
(* its passes are safe and implement Replica.                               *)
EXTENDS ReplicateProofs, ReplicateSafe

----------------------------------------------------------------------------
\* What a prefix replicates lands below its destination, outside the excludes,
\* away from what other clients write and from every other replicated key.
LEMMA DestinationsApart ==
  ASSUME NEW p \in Prefix, NEW k \in Replicated(p)
  PROVE  /\ k \in Key /\ DestOf[p][k] \in DKey \ LocalKey
         /\ DestOf[p][k] \in Owned(p)
         /\ \A q \in Prefix : q # p => DestOf[p][k] \notin Owned(q) /\ StatusOf[p] # StatusOf[q]
         /\ \A q \in Prefix : \A l \in Replicated(q) :
              DestOf[p][k] = DestOf[q][l] => p = q /\ k = l
  <1>1. k \in Key /\ k \notin Excluded[p]
    BY DEF Replicated
  <1>2. DestOf[p][k] \in DKey \ LocalKey
    BY <1>1, OperatorTypes, SafeAssumption DEF Separate
  <1>3. \A q \in Prefix : \A l \in Replicated(q) : DestOf[q][l] \in Owned(q)
    BY ConstantsAssumption, SafeAssumption DEF Separate, Owned, Replicated
  <1>4. \A q \in Prefix : q # p => DestOf[p][k] \notin Owned(q) /\ StatusOf[p] # StatusOf[q]
    BY SafeAssumption DEF Disjoint
  <1>5. \A l \in Replicated(p) : DestOf[p][k] = DestOf[p][l] => k = l
    BY <1>1, SafeAssumption DEF Injective, Replicated
  <1> QED
    BY <1>1, <1>2, <1>3, <1>4, <1>5

\* What a store holds for a key determines its version.
LEMMA VersionOf ==
  ASSUME NEW p \in Prefix, NEW k \in Key, NEW store
  PROVE  /\ Version(p, k, store) \in Nat
         /\ \A v \in Nat : store[DestOf[p][k]] = ValueOf(DepOf[p], v) => Version(p, k, store) = v
  <1>1. Absent \notin Entry /\ \A v \in Nat : [dep |-> DepOf[p], ver |-> v] \in Entry
    BY ConstantsAssumption, OperatorTypes DEF Entry
  <1>2. Version(p, k, store) \in Nat
    BY DEF Version, Entry
  <1> QED
    BY <1>1, <1>2 DEF Version, ValueOf

----------------------------------------------------------------------------
(* How a store and a listing stay in agreement.                            *)

\* The levels may fall, and keys that are not replicated may change.
LEMMA SoundKept ==
  ASSUME NEW p \in Prefix, NEW x \in Pairs, NEW i \in Nat,
         NEW L, NEW M, NEW D, NEW E, Sound(p, x, i, L, D), M \subseteq L \cup {0},
         \A k \in Replicated(p) : E[DestOf[p][k]] = D[DestOf[p][k]]
  PROVE  Sound(p, x, i, M, E)
  <1>1. \A k \in Replicated(p) : x[k] \in Nat /\ Version(p, k, E) = Version(p, k, D)
    BY DEF Replicated, Pairs, Version
  <1> QED
    BY <1>1 DEF Sound

\* A listing x of index i allows that key k is changed to version v.
Admits(p, k, v, x, i, L) ==
  /\ v <= i
  /\ x[k] # 0 => v <= x[k]
  /\ \A l \in L : ~(x[k] # 0 /\ x[k] <= l)

LEMMA SoundChanged ==
  ASSUME NEW p \in Prefix, NEW x \in Pairs, NEW i \in Nat,
         NEW L, NEW D, NEW E, Sound(p, x, i, L, D),
         \A k \in Replicated(p) :
           \/ E[DestOf[p][k]] = D[DestOf[p][k]]
           \/ \E v \in Nat : E[DestOf[p][k]] = ValueOf(DepOf[p], v) /\ Admits(p, k, v, x, i, L)
  PROVE  Sound(p, x, i, L, E)
  <1>1. ASSUME NEW k \in Replicated(p)
        PROVE  /\ \A l \in L : x[k] # 0 /\ x[k] <= l => E[DestOf[p][k]] = ValueOf(DepOf[p], x[k])
               /\ Version(p, k, E) <= i /\ (x[k] # 0 => Version(p, k, E) <= x[k])
    <2>1. CASE E[DestOf[p][k]] = D[DestOf[p][k]]
      BY <2>1 DEF Sound, Version
    <2>2. ASSUME NEW v \in Nat, E[DestOf[p][k]] = ValueOf(DepOf[p], v), Admits(p, k, v, x, i, L)
          PROVE  <1>1!2
      <3>1. Version(p, k, E) = v
        BY <2>2, VersionOf DEF Replicated
      <3> QED
        BY <2>2, <3>1 DEF Admits
    <2> QED
      BY <2>1, <2>2
  <1> QED
    BY <1>1 DEF Sound

\* In a later listing a key keeps its version, is gone or has a version above
\* the index of the earlier one.
LEMMA SoundMoved ==
  ASSUME NEW p \in Prefix, NEW x \in Pairs, NEW y \in Pairs, NEW i \in Nat, NEW j \in Nat,
         NEW L, NEW D, L \subseteq Nat, Sound(p, x, i, L, D), i <= j,
         \A k \in Key : y[k] = x[k] \/ y[k] = 0 \/ i < y[k]
  PROVE  Sound(p, y, j, L, D)
  <1>1. \A k \in Replicated(p) :
          k \in Key /\ x[k] \in Nat /\ y[k] \in Nat /\ Version(p, k, D) \in Nat
    BY VersionOf DEF Replicated, Pairs
  <1> QED
    BY <1>1 DEF Sound

\* A listing that was replicated may be checkpointed.
LEMMA SoundSet ==
  ASSUME NEW p \in Prefix, NEW x \in Pairs, NEW y \in Pairs, NEW i \in Nat, NEW l \in Nat,
         NEW L, NEW D, Sound(p, x, i, L, D), l <= i, Upto(y, x, l),
         \A k \in Replicated(p) : D[DestOf[p][k]] = ValueOf(DepOf[p], y[k])
  PROVE  Sound(p, x, i, {l}, D)
  BY DEF Sound, Upto, Replicated

----------------------------------------------------------------------------
(* The levels of a prefix.                                                 *)

LEMMA LevelsType ==
  ASSUME TypeOK, NEW r \in Runner, NEW p \in Prefix
  PROVE  Levels(r, p) \subseteq Nat /\ status[StatusOf[p]] \in Levels(r, p)
  BY OperatorTypes DEF TypeOK, Levels

\* What a worker has read is the highest level.
LEMMA LevelsBound ==
  ASSUME NEW r \in Runner, TypeOK, RunnerInv(r), NEW p \in Prefix, Reading(r, p)
  PROVE  /\ \A l \in Levels(r, p) : l <= seen[r][p]
         /\ seen[r][p] \in Levels(r, p) /\ seen[r][p] \in Nat
  BY OperatorTypes DEF TypeOK, RunnerInv, SeenInv, Levels

\* The levels only fall if checkpoints are not stored, at most deleted, and
\* workers know no others.
LEMMA LevelsFall ==
  ASSUME TypeOK, NEW r \in Runner, NEW p \in Prefix,
         status'[StatusOf[p]] \in {status[StatusOf[p]], 0},
         Reading(r, p)' => seen'[r][p] \in Levels(r, p)
  PROVE  Levels(r, p)' \subseteq Levels(r, p) \cup {0}
  BY LevelsType DEF Levels

\* A step that changes neither the source nor the views nor a replicated key.
LEMMA QuietStep ==
  ASSUME NEW r \in Runner, TypeOK, RunnerInv(r), UNCHANGED <<sourceVars, vdata, vindex, vrecv>>,
         dataCh'[r] \cup data'[r] \subseteq dataCh[r] \cup data[r],
         \A p \in Prefix : Levels(r, p)' \subseteq Levels(r, p) \cup {0},
         \A p \in Prefix : \A k \in Replicated(p) : dst'[DestOf[p][k]] = dst[DestOf[p][k]]
  PROVE  /\ SourceInv(r)' /\ CopyInv' /\ ViewInv(r)'
         /\ \A p \in Prefix, x \in Pairs, i \in Nat :
              Sound(p, x, i, Levels(r, p), dst) => Sound(p, x, i, Levels(r, p)', dst')
  <1> USE DEF sourceVars
  <1>1. ASSUME NEW p \in Prefix, NEW x \in Pairs, NEW i \in Nat, Sound(p, x, i, Levels(r, p), dst)
        PROVE  Sound(p, x, i, Levels(r, p)', dst')
    BY <1>1, SoundKept
  <1>2. \A d \in Dep : /\ src[d] \in Pairs /\ idx[d] \in Nat
                       /\ vdata[r][d] \in Pairs /\ vindex[r][d] \in Nat
    BY DEF TypeOK
  <1>3. SourceInv(r)'
    BY <1>1, <1>2, OperatorTypes DEF RunnerInv, SourceInv
  <1>4. CopyInv'
    BY DEF RunnerInv, CopyInv, Version
  <1>5. ViewInv(r)'
    BY <1>1, <1>2 DEF RunnerInv, ViewInv, Upto
  <1> QED
    BY <1>1, <1>3, <1>4, <1>5

\* A step that starts no worker on a listing, and changes none.
LEMMA ListingKept ==
  ASSUME NEW r \in Runner, TypeOK, RunnerInv(r), UNCHANGED <<sourceVars, vdata, vindex, vrecv>>,
         \A p \in Prefix : InPass(r, p)' =>
           InPass(r, p) /\ pairs'[r][p] = pairs[r][p] /\ last'[r][p] = last[r][p],
         \A p \in Prefix, x \in Pairs, i \in Nat :
           Sound(p, x, i, Levels(r, p), dst) => Sound(p, x, i, Levels(r, p)', dst')
  PROVE  ListingInv(r)'
  <1> USE DEF sourceVars
  <1>1. \A p \in Prefix : pairs[r][p] \in Pairs /\ last[r][p] \in Nat
    BY DEF TypeOK
  <1> QED
    BY <1>1 DEF RunnerInv, ListingInv, Upto

----------------------------------------------------------------------------
(* The steps that change the destination.                                  *)

\* Every listing in use allows that key k is changed to version v.
Timely(r, p, k, v) ==
  /\ Admits(p, k, v, src[DepOf[p]], idx[DepOf[p]], Levels(r, p))
  /\ DepOf[p] \in vrecv[r] =>
       Admits(p, k, v, vdata[r][DepOf[p]], vindex[r][DepOf[p]], Levels(r, p))
  /\ InPass(r, p) => Admits(p, k, v, pairs[r][p], last[r][p], Levels(r, p))

\* So it is with what a pass puts, and with the deletion of a key that its
\* listing does not have.
LEMMA PassTimely ==
  ASSUME NEW r \in Runner, TypeOK, RunnerInv(r), NEW p \in Prefix, NEW k \in Key, InPass(r, p),
         NEW v \in Nat, v = pairs[r][p][k], v = 0 \/ v > seen[r][p]
  PROVE  Timely(r, p, k, v)
  <1> DEFINE d == DepOf[p]
  <1>1. /\ d \in Dep /\ last[r][p] \in Nat /\ Levels(r, p) \subseteq Nat
        /\ pairs[r][p] \in Pairs /\ src[d] \in Pairs /\ vdata[r][d] \in Pairs
        /\ idx[d] \in Nat /\ vindex[r][d] \in Nat
    BY OperatorTypes, LevelsType DEF TypeOK
  <1>2. /\ v <= last[r][p] /\ last[r][p] <= vindex[r][d] /\ vindex[r][d] <= idx[d]
        /\ Upto(pairs[r][p], src[d], last[r][p])
        /\ Upto(pairs[r][p], vdata[r][d], last[r][p])
        /\ \A l \in Levels(r, p) : l <= last[r][p]
    BY <1>1 DEF RunnerInv, ListingInv, ViewInv, Sound
  <1>3. \A l \in Levels(r, p) : l <= seen[r][p] /\ seen[r][p] \in Nat
    BY LevelsBound DEF InPass, Reading
  <1>4. ASSUME NEW x \in Pairs, NEW i \in Nat, Upto(pairs[r][p], x, last[r][p]), last[r][p] <= i
        PROVE  Admits(p, k, v, x, i, Levels(r, p))
    <2>1. x[k] \in Nat /\ (x[k] # 0 /\ x[k] <= last[r][p] => x[k] = v)
      BY <1>4 DEF Upto, Pairs
    <2> QED
      BY <1>1, <1>2, <1>3, <1>4, <2>1 DEF Admits
  <1>5. Upto(pairs[r][p], pairs[r][p], last[r][p])
    BY DEF Upto
  <1>6. last[r][p] <= idx[d]
    BY <1>1, <1>2
  <1> QED
    BY <1>1, <1>2, <1>4, <1>5, <1>6 DEF Timely

\* A step that only changes keys of the destination in a timely way.
LEMMA TimelyStep ==
  ASSUME NEW r \in Runner, TypeOK, RunnerInv(r),
         UNCHANGED <<sourceVars, viewVars, pc, seen, pairs, last, status>>,
         \A p \in Prefix : \A k \in Replicated(p) :
           \/ dst'[DestOf[p][k]] = dst[DestOf[p][k]]
           \/ \E v \in Nat : dst'[DestOf[p][k]] = ValueOf(DepOf[p], v) /\ Timely(r, p, k, v)
  PROVE  SourceInv(r)' /\ CopyInv' /\ ViewInv(r)' /\ SeenInv(r)' /\ ListingInv(r)'
  <1> USE DEF sourceVars, viewVars
  <1>1. \A p \in Prefix : Levels(r, p)' = Levels(r, p)
    BY DEF Levels, Reading
  <1>2. \A d \in Dep : /\ src[d] \in Pairs /\ idx[d] \in Nat
                       /\ vdata[r][d] \in Pairs /\ vindex[r][d] \in Nat
    BY DEF TypeOK
  <1>3. \A p \in Prefix : pairs[r][p] \in Pairs /\ last[r][p] \in Nat
    BY DEF TypeOK
  <1>4. ASSUME NEW p \in Prefix, NEW x \in Pairs, NEW i \in Nat, Sound(p, x, i, Levels(r, p), dst),
               \A k \in Replicated(p), v \in Nat : Timely(r, p, k, v) => Admits(p, k, v, x, i, Levels(r, p))
        PROVE  Sound(p, x, i, Levels(r, p)', dst')
    BY <1>1, <1>4, SoundChanged
  <1>5. SourceInv(r)'
    <2>1. \A p \in Prefix : Sound(p, src[DepOf[p]], idx[DepOf[p]], Levels(r, p)', dst')
      BY <1>2, <1>4, OperatorTypes DEF RunnerInv, SourceInv, Timely
    <2> QED
      BY <2>1 DEF RunnerInv, SourceInv
  <1>6. CopyInv'
    <2>1. ASSUME NEW p \in Prefix, NEW k \in Replicated(p)
          PROVE  dst'[DestOf[p][k]] = ValueOf(DepOf[p], Version(p, k, dst'))
      <3>1. CASE dst'[DestOf[p][k]] = dst[DestOf[p][k]]
        BY <3>1 DEF RunnerInv, CopyInv, Version
      <3>2. CASE \E v \in Nat : dst'[DestOf[p][k]] = ValueOf(DepOf[p], v)
        BY <3>2, VersionOf DEF Replicated
      <3> QED
        BY <3>1, <3>2
    <2> QED
      BY <2>1 DEF CopyInv
  <1>7. ViewInv(r)'
    <2>1. ASSUME NEW p \in Prefix, DepOf[p] \in vrecv[r]
          PROVE  Sound(p, vdata[r][DepOf[p]], vindex[r][DepOf[p]], Levels(r, p)', dst')
      BY <1>2, <1>4, <2>1, OperatorTypes DEF RunnerInv, ViewInv, Timely
    <2> QED
      BY <2>1 DEF RunnerInv, ViewInv, Upto
  <1>8. SeenInv(r)'
    BY DEF RunnerInv, SeenInv, Reading
  <1>9. ListingInv(r)'
    <2>1. ASSUME NEW p \in Prefix, InPass(r, p)
          PROVE  Sound(p, pairs[r][p], last[r][p], Levels(r, p)', dst')
      BY <1>3, <1>4, <2>1 DEF RunnerInv, ListingInv, Timely
    <2> QED
      BY <2>1 DEF RunnerInv, ListingInv, Upto, InPass
  <1> QED
    BY <1>5, <1>6, <1>7, <1>8, <1>9

LEMMA LocalPutStep ==
  ASSUME NEW r \in Runner, TypeOK, RunnerInv(r), NEW dk \in DKey, LocalPut(dk)
  PROVE  RunnerInv(r)'
  <1> USE DEF sourceVars, viewVars, passVars
  <1>1. ASSUME NEW p \in Prefix, NEW k \in Replicated(p)
        PROVE  dst'[DestOf[p][k]] = dst[DestOf[p][k]]
    BY DestinationsApart DEF LocalPut, TypeOK
  <1>2. SourceInv(r)' /\ CopyInv' /\ ViewInv(r)' /\ SeenInv(r)' /\ ListingInv(r)'
    BY <1>1, TimelyStep DEF LocalPut
  <1>3. PutInv(r)'
    BY <1>1 DEF LocalPut, RunnerInv, PutInv, Pending, Updates, Replicated
  <1>4. DeleteInv(r)'
    BY <1>1 DEF LocalPut, RunnerInv, DeleteInv
  <1> QED
    BY <1>2, <1>3, <1>4 DEF RunnerInv

\* What a worker puts is a replicated key that is not at the destination yet.
LEMMA PutOfListing ==
  ASSUME NEW r \in Runner, TypeOK, RunnerInv(r), NEW p \in Prefix, NEW k \in Key, Put(r, p, k)
  PROVE  /\ InPass(r, p) /\ k \in Pending(r, p) /\ k \in Replicated(p)
         /\ pairs[r][p][k] \in Nat /\ pairs[r][p][k] # 0
         /\ Timely(r, p, k, pairs[r][p][k])
         /\ dst'[DestOf[p][k]] = ValueOf(DepOf[p], pairs[r][p][k])
         /\ \A q \in Prefix : \A l \in Replicated(q) :
              (q = p /\ l = k) \/ dst'[DestOf[q][l]] = dst[DestOf[q][l]]
  <1>1. InPass(r, p) /\ k \in Pending(r, p)
    BY DEF Put, RunnerInv, PutInv, InPass
  <1>2. k \in Replicated(p) /\ pairs[r][p][k] # 0 /\ pairs[r][p][k] > seen[r][p]
    BY <1>1 DEF Pending, Updates, Replicated
  <1>3. pairs[r][p][k] \in Nat
    BY DEF TypeOK, Pairs
  <1>4. Timely(r, p, k, pairs[r][p][k])
    BY <1>1, <1>2, <1>3, PassTimely
  <1>5. dst'[DestOf[p][k]] = ValueOf(DepOf[p], pairs[r][p][k])
    BY <1>2, OperatorTypes DEF Put, TypeOK, ValueOf
  <1>6. \A q \in Prefix : \A l \in Replicated(q) :
          (q = p /\ l = k) \/ dst'[DestOf[q][l]] = dst[DestOf[q][l]]
    BY <1>2, DestinationsApart DEF Put, TypeOK
  <1> QED
    BY <1>1, <1>2, <1>3, <1>4, <1>5, <1>6

LEMMA PutStep ==
  ASSUME NEW r \in Runner, TypeOK, RunnerInv(r), NEW p \in Prefix, NEW k \in Key, Put(r, p, k)
  PROVE  RunnerInv(r)'
  <1> USE DEF sourceVars, viewVars, passVars
  <1>1. /\ pc[r][p] = "put" /\ toPut'[r][p] = toPut[r][p] \ {k}
        /\ \A q \in Prefix : q # p => toPut'[r][q] = toPut[r][q]
        /\ UNCHANGED <<sourceVars, viewVars, pc, seen, pairs, last, toDel, status>>
    BY DEF Put, TypeOK
  <1>2. /\ k \in Replicated(p) /\ pairs[r][p][k] \in Nat
        /\ Timely(r, p, k, pairs[r][p][k])
        /\ dst'[DestOf[p][k]] = ValueOf(DepOf[p], pairs[r][p][k])
    BY PutOfListing
  <1>3. \A q \in Prefix : \A l \in Replicated(q) :
          (q = p /\ l = k) \/ dst'[DestOf[q][l]] = dst[DestOf[q][l]]
    BY PutOfListing
  <1>4. SourceInv(r)' /\ CopyInv' /\ ViewInv(r)' /\ SeenInv(r)' /\ ListingInv(r)'
    <2>1. \A q \in Prefix : \A l \in Replicated(q) :
            \/ dst'[DestOf[q][l]] = dst[DestOf[q][l]]
            \/ \E v \in Nat : dst'[DestOf[q][l]] = ValueOf(DepOf[q], v) /\ Timely(r, q, l, v)
      BY <1>2, <1>3
    <2> QED
      BY <1>1, <2>1, TimelyStep
  <1>5. PutInv(r)'
    <2>1. \A q \in Prefix : Pending(r, q) \subseteq Replicated(q) /\ Pending(r, q)' = Pending(r, q)
      BY <1>1 DEF Pending, Updates, Replicated
    <2>2. PutInv(r)!(p)'
      BY <1>1, <1>2, <1>3, <2>1 DEF RunnerInv, PutInv
    <2>3. ASSUME NEW q \in Prefix, q # p PROVE PutInv(r)!(q)'
      BY <1>1, <1>3, <2>1, <2>3 DEF RunnerInv, PutInv
    <2> QED
      BY <2>2, <2>3 DEF PutInv
  <1>6. DeleteInv(r)'
    <2>1. \A q \in Prefix : pc[r][q] = "delete" => q # p
      BY <1>1
    <2> QED
      BY <1>1, <1>3, <2>1 DEF RunnerInv, DeleteInv
  <1> QED
    BY <1>4, <1>5, <1>6 DEF RunnerInv

\* What a worker deletes is not in its listing.
LEMMA DeleteOfListing ==
  ASSUME NEW r \in Runner, TypeOK, RunnerInv(r), NEW p \in Prefix, NEW dk \in DKey, Delete(r, p, dk)
  PROVE  /\ InPass(r, p) /\ dk \in Owned(p)
         /\ \A q \in Prefix : \A k \in Replicated(q) :
              \/ DestOf[q][k] # dk /\ dst'[DestOf[q][k]] = dst[DestOf[q][k]]
              \/ /\ q = p /\ DestOf[q][k] = dk /\ pairs[r][p][k] = 0
                 /\ dst'[DestOf[q][k]] = ValueOf(DepOf[q], 0) /\ Timely(r, q, k, 0)
  <1>1. InPass(r, p) /\ dk \in Owned(p) /\ dk \notin UsedKeys(p, pairs[r][p])
    BY DEF Delete, RunnerInv, DeleteInv, InPass
  <1>2. ASSUME NEW q \in Prefix, NEW k \in Replicated(q), DestOf[q][k] = dk
        PROVE  /\ q = p /\ pairs[r][p][k] = 0
               /\ dst'[DestOf[q][k]] = ValueOf(DepOf[q], 0) /\ Timely(r, q, k, 0)
    <2>1. q = p /\ k \in Key
      BY <1>1, <1>2, DestinationsApart
    <2>2. pairs[r][p][k] = 0
      BY <1>1, <1>2, <2>1 DEF UsedKeys
    <2>3. Timely(r, q, k, 0)
      BY <1>1, <2>1, <2>2, PassTimely
    <2> QED
      BY <1>2, <2>1, <2>2, <2>3 DEF Delete, TypeOK, ValueOf
  <1>3. ASSUME NEW q \in Prefix, NEW k \in Replicated(q), DestOf[q][k] # dk
        PROVE  dst'[DestOf[q][k]] = dst[DestOf[q][k]]
    BY <1>3, DestinationsApart DEF Delete, TypeOK
  <1> QED
    BY <1>1, <1>2, <1>3

LEMMA DeleteStep ==
  ASSUME NEW r \in Runner, TypeOK, RunnerInv(r), NEW p \in Prefix, NEW dk \in DKey, Delete(r, p, dk)
  PROVE  RunnerInv(r)'
  <1> USE DEF sourceVars, viewVars, passVars
  <1>1. /\ pc[r][p] = "delete" /\ toDel'[r][p] = toDel[r][p] \ {dk}
        /\ \A q \in Prefix : q # p => toDel'[r][q] = toDel[r][q]
        /\ UNCHANGED <<sourceVars, viewVars, pc, seen, pairs, last, toPut, status>>
    BY DEF Delete, TypeOK
  <1>2. \A q \in Prefix : \A k \in Replicated(q) :
          \/ DestOf[q][k] # dk /\ dst'[DestOf[q][k]] = dst[DestOf[q][k]]
          \/ /\ q = p /\ DestOf[q][k] = dk /\ pairs[r][p][k] = 0
             /\ dst'[DestOf[q][k]] = ValueOf(DepOf[q], 0) /\ Timely(r, q, k, 0)
    BY DeleteOfListing
  <1>3. SourceInv(r)' /\ CopyInv' /\ ViewInv(r)' /\ SeenInv(r)' /\ ListingInv(r)'
    <2>1. \A q \in Prefix : \A k \in Replicated(q) :
            \/ dst'[DestOf[q][k]] = dst[DestOf[q][k]]
            \/ \E v \in Nat : dst'[DestOf[q][k]] = ValueOf(DepOf[q], v) /\ Timely(r, q, k, v)
      BY <1>2
    <2> QED
      BY <1>1, <2>1, TimelyStep
  <1>4. PutInv(r)'
    <2>1. \A q \in Prefix : Pending(r, q) \subseteq Replicated(q) /\ Pending(r, q)' = Pending(r, q)
      BY <1>1 DEF Pending, Updates, Replicated
    <2>2. ASSUME NEW q \in Prefix, pc[r][q] = "put"
          PROVE  \A k \in Replicated(q) : dst'[DestOf[q][k]] = dst[DestOf[q][k]]
      BY <1>1, <1>2, <2>2
    <2> QED
      BY <1>1, <2>1, <2>2 DEF RunnerInv, PutInv
  <1>5. DeleteInv(r)'
    <2>1. DeleteInv(r)!(p)'
      BY <1>1, <1>2 DEF RunnerInv, DeleteInv
    <2>2. ASSUME NEW q \in Prefix, q # p PROVE DeleteInv(r)!(q)'
      BY <1>1, <1>2, <2>2 DEF RunnerInv, DeleteInv
    <2> QED
      BY <2>1, <2>2 DEF DeleteInv
  <1> QED
    BY <1>3, <1>4, <1>5 DEF RunnerInv

----------------------------------------------------------------------------
(* The steps of the source and of the watcher.                             *)

\* A step of the source: a key keeps its version, is deleted or gets a version
\* above every earlier index.
SourceMoves ==
  /\ idx' \in [Dep -> Nat] /\ src' \in [Dep -> Pairs]
  /\ \A d \in Dep : idx[d] <= idx'[d]
  /\ \A d \in Dep, k \in Key :
       \/ src'[d][k] = src[d][k]
       \/ src'[d][k] = 0
       \/ idx[d] < src'[d][k] /\ src'[d][k] <= idx'[d]

\* Where no source was restored, the next index is one more.
LEMMA NextIndexIs ==
  ASSUME NEW r \in Runner, TypeOK, RunnerInv(r), NEW d \in Dep
  PROVE  NextIndex(d) = idx[d] + 1
  BY DEF TypeOK, RunnerInv, SourceInv, NextIndex

LEMMA PutMoves ==
  ASSUME NEW r \in Runner, TypeOK, RunnerInv(r), NEW d \in Dep, NEW k \in Key, SourcePut(d, k)
  PROVE  SourceMoves
  <1>1. NextIndex(d) = idx[d] + 1
    BY NextIndexIs
  <1> QED
    BY <1>1 DEF TypeOK, SourcePut, SourceMoves, Pairs

LEMMA DeleteMoves ==
  ASSUME NEW r \in Runner, TypeOK, RunnerInv(r), NEW d \in Dep, NEW k \in Key, SourceDelete(d, k)
  PROVE  SourceMoves
  <1>1. NextIndex(d) = idx[d] + 1
    BY NextIndexIs
  <1> QED
    BY <1>1 DEF TypeOK, SourceDelete, SourceMoves, Pairs

LEMMA SourceStep ==
  ASSUME NEW r \in Runner, TypeOK, RunnerInv(r), SourceMoves,
         UNCHANGED <<since, viewVars, pc, passVars, dst, status>>
  PROVE  RunnerInv(r)'
  <1> USE DEF viewVars, passVars
  <1>1. ASSUME NEW d \in Dep
        PROVE  /\ idx[d] \in Nat /\ idx'[d] \in Nat /\ idx[d] <= idx'[d]
               /\ src[d] \in Pairs /\ src'[d] \in Pairs
               /\ \A k \in Key : src[d][k] \in Nat /\ src'[d][k] \in Nat
    BY DEF TypeOK, SourceMoves, Pairs
  <1>2. ASSUME NEW d \in Dep, NEW x \in Pairs, NEW i \in Nat, i <= idx[d], Upto(x, src[d], i)
        PROVE  Upto(x, src'[d], i)
    BY <1>1, <1>2 DEF SourceMoves, Upto
  <1>3. \A p \in Prefix : Levels(r, p)' = Levels(r, p)
    BY DEF Levels, Reading
  <1>4. SourceInv(r)'
    <2>1. \A d \in Dep, k \in Key : src'[d][k] <= idx'[d]
      BY <1>1 DEF RunnerInv, SourceInv, SourceMoves
    <2>2. ASSUME NEW p \in Prefix
          PROVE  Sound(p, src'[DepOf[p]], idx'[DepOf[p]], Levels(r, p), dst)
      <3>1. \A k \in Key : \/ src'[DepOf[p]][k] = src[DepOf[p]][k]
                           \/ src'[DepOf[p]][k] = 0
                           \/ idx[DepOf[p]] < src'[DepOf[p]][k]
        BY OperatorTypes DEF SourceMoves
      <3>2. Sound(p, src[DepOf[p]], idx[DepOf[p]], Levels(r, p), dst)
        BY DEF RunnerInv, SourceInv
      <3> QED
        BY <1>1, <3>1, <3>2, SoundMoved, LevelsType, OperatorTypes
    <2> QED
      BY <1>3, <2>1, <2>2 DEF RunnerInv, SourceInv
  <1>5. ViewInv(r)'
    <2>1. ASSUME NEW d \in Dep
          PROVE  /\ vindex[r][d] <= idx'[d]
                 /\ d \in vrecv[r] => Upto(vdata[r][d], src'[d], vindex[r][d])
      <3>1. vindex[r][d] \in Nat /\ vindex[r][d] <= idx[d] /\ vdata[r][d] \in Pairs
        BY DEF TypeOK, RunnerInv, ViewInv
      <3> QED
        BY <1>1, <1>2, <3>1 DEF RunnerInv, ViewInv
    <2> QED
      BY <1>3, <2>1 DEF RunnerInv, ViewInv, Upto
  <1>6. CopyInv' /\ SeenInv(r)'
    BY DEF RunnerInv, CopyInv, SeenInv, Reading, Version
  <1>7. ListingInv(r)'
    <2>1. ASSUME NEW p \in Prefix, InPass(r, p)
          PROVE  Upto(pairs[r][p], src'[DepOf[p]], last[r][p])
      <3>1. /\ last[r][p] \in Nat /\ DepOf[p] \in Dep /\ vindex[r][DepOf[p]] \in Nat
            /\ pairs[r][p] \in Pairs
        BY OperatorTypes DEF TypeOK
      <3>2. /\ last[r][p] <= vindex[r][DepOf[p]] /\ vindex[r][DepOf[p]] <= idx[DepOf[p]]
            /\ Upto(pairs[r][p], src[DepOf[p]], last[r][p])
        BY <2>1, <3>1 DEF RunnerInv, ListingInv, ViewInv
      <3>3. last[r][p] <= idx[DepOf[p]]
        BY <1>1, <3>1, <3>2
      <3> QED
        BY <1>2, <3>1, <3>2, <3>3
    <2> QED
      BY <1>3, <2>1 DEF RunnerInv, ListingInv, InPass, Upto
  <1>8. PutInv(r)' /\ DeleteInv(r)'
    BY DEF RunnerInv, PutInv, DeleteInv, Pending
  <1> QED
    BY <1>4, <1>5, <1>6, <1>7, <1>8 DEF RunnerInv

\* Without stale queries the only answer is the leader's listing.
LEMMA AnswerIsFresh ==
  ASSUME NEW d \in Dep, NEW a \in Answers(d)
  PROVE  a.data = src[d] /\ a.index = idx[d]
  BY SafeAssumption DEF Answers, FreshReads

LEMMA FetchStep ==
  ASSUME NEW r \in Runner, TypeOK, RunnerInv(r), NEW d \in Dep, Fetch(r, d)
  PROVE  RunnerInv(r)'
  <1> USE DEF sourceVars, passVars
  <1>1. PICK a \in Answers(d) :
          IndexWentBack(r, d, a) \/ SameContents(r, d, a) \/ NewContents(r, d, a)
    BY DEF Fetch
  <1>2. a.data = src[d] /\ a.index = idx[d]
    BY AnswerIsFresh
  <1>3. /\ idx[d] \in Nat /\ vindex[r][d] \in Nat /\ vindex[r][d] <= idx[d]
        /\ \A k \in Key : src[d][k] \in Nat /\ src[d][k] <= idx[d]
    BY DEF TypeOK, Pairs, RunnerInv, ViewInv, SourceInv
  <1>4. ~ IndexWentBack(r, d, a)
    BY <1>2, <1>3 DEF IndexWentBack
  <1>5. /\ vindex' = [vindex EXCEPT ![r][d] = idx[d]]
        /\ vdata' = [vdata EXCEPT ![r][d] = src[d]]
        /\ vrecv' = [vrecv EXCEPT ![r] = @ \cup {d}]
        /\ dataCh'[r] \subseteq dataCh[r] \cup {d}
    <2>1. CASE SameContents(r, d, a)
      <3>1. vdata[r] = [vdata[r] EXCEPT ![d] = src[d]] /\ vdata = [vdata EXCEPT ![r] = vdata[r]]
        BY <1>2, <2>1 DEF SameContents, TypeOK
      <3> QED
        BY <1>2, <2>1, <3>1 DEF SameContents, TypeOK
    <2>2. CASE NewContents(r, d, a)
      BY <1>2, <2>2 DEF NewContents, TypeOK
    <2> QED
      BY <1>1, <1>4, <2>1, <2>2
  <1>6. UNCHANGED <<sourceVars, data, pc, passVars, dst, status>>
    BY DEF Fetch
  <1>7. /\ vindex'[r][d] = idx[d] /\ vdata'[r][d] = src[d]
        /\ \A e \in Dep : e # d => vindex'[r][e] = vindex[r][e] /\ vdata'[r][e] = vdata[r][e]
        /\ vrecv'[r] = vrecv[r] \cup {d}
    BY <1>5 DEF TypeOK
  <1>8. \A p \in Prefix : Levels(r, p)' = Levels(r, p)
    BY <1>6 DEF Levels, Reading
  <1>9. SourceInv(r)' /\ CopyInv' /\ SeenInv(r)' /\ PutInv(r)' /\ DeleteInv(r)'
    BY <1>6, <1>8 DEF RunnerInv, SourceInv, CopyInv, SeenInv, PutInv, DeleteInv, Pending, Reading, Version
  <1>10. ViewInv(r)'
    <2>1. ASSUME NEW e \in Dep, e # d
          PROVE  ViewInv(r)!(e)'
      BY <1>5, <1>6, <1>7, <1>8, <2>1 DEF RunnerInv, ViewInv, Upto
    <2>2. ViewInv(r)!(d)'
      BY <1>3, <1>5, <1>6, <1>7, <1>8 DEF RunnerInv, ViewInv, SourceInv, Upto
    <2> QED
      BY <1>7, <2>1, <2>2 DEF ViewInv
  <1>11. ListingInv(r)'
    <2>1. ASSUME NEW p \in Prefix, InPass(r, p)
          PROVE  /\ DepOf[p] \in vrecv'[r]
                 /\ last[r][p] <= vindex'[r][DepOf[p]]
                 /\ Upto(pairs[r][p], vdata'[r][DepOf[p]], last[r][p])
      <3>1. /\ DepOf[p] \in vrecv[r]
            /\ last[r][p] <= vindex[r][DepOf[p]]
            /\ Upto(pairs[r][p], vdata[r][DepOf[p]], last[r][p])
            /\ Upto(pairs[r][p], src[DepOf[p]], last[r][p])
        BY <2>1 DEF RunnerInv, ListingInv
      <3>2. last[r][p] \in Nat /\ DepOf[p] \in Dep
        BY OperatorTypes DEF TypeOK
      <3>3. CASE DepOf[p] = d
        BY <1>3, <1>7, <3>1, <3>2, <3>3
      <3>4. CASE DepOf[p] # d
        BY <1>7, <3>1, <3>2, <3>4
      <3> QED
        BY <3>3, <3>4
    <2> QED
      BY <1>6, <1>7, <1>8, <2>1 DEF RunnerInv, ListingInv, InPass, Upto
  <1> QED
    BY <1>9, <1>10, <1>11 DEF RunnerInv

----------------------------------------------------------------------------
(* The steps of a pass that change no replicated key.                      *)

LEMMA GetStatusStep ==
  ASSUME NEW r \in Runner, TypeOK, RunnerInv(r), NEW p \in Prefix, GetStatus(r, p)
  PROVE  RunnerInv(r)'
  <1> USE DEF sourceVars, viewVars, passVars
  <1>1. /\ seen'[r][p] = status[StatusOf[p]] /\ pc'[r][p] = "view"
        /\ \A q \in Prefix : q # p => seen'[r][q] = seen[r][q] /\ pc'[r][q] = pc[r][q]
        /\ UNCHANGED <<sourceVars, viewVars, pairs, last, toPut, toDel, dst, status>>
    BY DEF GetStatus, TypeOK
  <1>2. ASSUME NEW q \in Prefix PROVE Levels(r, q)' \subseteq Levels(r, q) \cup {0}
    <2>1. Reading(r, q)' => seen'[r][q] \in Levels(r, q)
      BY <1>1, LevelsType DEF Reading, Levels
    <2> QED
      BY <1>1, <2>1, LevelsFall
  <1>3. /\ SourceInv(r)' /\ CopyInv' /\ ViewInv(r)'
        /\ \A q \in Prefix, x \in Pairs, i \in Nat :
             Sound(q, x, i, Levels(r, q), dst) => Sound(q, x, i, Levels(r, q)', dst')
    BY <1>1, <1>2, QuietStep
  <1>4. SeenInv(r)'
    <2>1. status[StatusOf[p]] \in Nat
      BY OperatorTypes DEF TypeOK
    <2> QED
      BY <1>1, <2>1 DEF RunnerInv, SeenInv, Reading
  <1>5. \A q \in Prefix : InPass(r, q)' => InPass(r, q) /\ q # p
    BY <1>1 DEF InPass
  <1>6. ListingInv(r)'
    BY <1>1, <1>3, <1>5, ListingKept
  <1>7. PutInv(r)' /\ DeleteInv(r)'
    BY <1>1 DEF RunnerInv, PutInv, DeleteInv, Pending
  <1> QED
    BY <1>3, <1>4, <1>6, <1>7 DEF RunnerInv

LEMMA GetViewStep ==
  ASSUME NEW r \in Runner, TypeOK, RunnerInv(r), NEW p \in Prefix, GetView(r, p)
  PROVE  RunnerInv(r)'
  <1> USE DEF sourceVars, viewVars, passVars
  <1> DEFINE d == DepOf[p]
  <1>1. /\ pairs'[r][p] = vdata[r][d] /\ last'[r][p] = vindex[r][d]
        /\ pc[r][p] = "view" /\ pc'[r][p] = "put" /\ d \in data[r]
        /\ toPut'[r][p] = Updates(p, vdata[r][d], seen[r][p])
        /\ UNCHANGED <<sourceVars, viewVars, seen, toDel, dst, status>>
    BY DEF GetView, TypeOK
  <1>2. \A q \in Prefix : q # p =>
          /\ pairs'[r][q] = pairs[r][q] /\ last'[r][q] = last[r][q]
          /\ pc'[r][q] = pc[r][q] /\ toPut'[r][q] = toPut[r][q]
    BY DEF GetView, TypeOK
  <1>3. d \in Dep /\ d \in vrecv[r] /\ vindex[r][d] \in Nat /\ vdata[r][d] \in Pairs
    BY <1>1, OperatorTypes DEF RunnerInv, ViewInv, TypeOK
  <1>4. ASSUME NEW q \in Prefix PROVE Levels(r, q)' \subseteq Levels(r, q) \cup {0}
    <2>1. Reading(r, q)' => Reading(r, q) /\ seen'[r][q] = seen[r][q]
      BY <1>1, <1>2 DEF Reading
    <2> QED
      BY <1>1, <2>1, LevelsFall, LevelsBound
  <1>5. /\ SourceInv(r)' /\ CopyInv' /\ ViewInv(r)'
        /\ \A q \in Prefix, x \in Pairs, i \in Nat :
             Sound(q, x, i, Levels(r, q), dst) => Sound(q, x, i, Levels(r, q)', dst')
    BY <1>1, <1>4, QuietStep
  <1>6. SeenInv(r)'
    BY <1>1, <1>2 DEF RunnerInv, SeenInv, Reading
  <1>7. ListingInv(r)'
    <2>1. ListingInv(r)!(p)'
      <3>1. Sound(p, vdata[r][d], vindex[r][d], Levels(r, p), dst)
        BY <1>3 DEF RunnerInv, ViewInv
      <3>2. Sound(p, vdata[r][d], vindex[r][d], Levels(r, p)', dst')
        BY <1>3, <1>5, <3>1
      <3>3. /\ \A k \in Key : vdata[r][d][k] <= vindex[r][d]
            /\ Upto(vdata[r][d], src[d], vindex[r][d])
            /\ Upto(vdata[r][d], vdata[r][d], vindex[r][d])
        BY <1>3 DEF RunnerInv, ViewInv, Upto
      <3> QED
        BY <1>1, <1>3, <3>2, <3>3 DEF Upto
    <2>2. ASSUME NEW q \in Prefix, q # p PROVE ListingInv(r)!(q)'
      <3>1. pairs[r][q] \in Pairs /\ last[r][q] \in Nat
        BY DEF TypeOK
      <3> QED
        BY <1>1, <1>2, <1>5, <2>2, <3>1 DEF RunnerInv, ListingInv, InPass, Upto
    <2> QED
      BY <2>1, <2>2 DEF ListingInv
  <1>8. PutInv(r)'
    <2>1. PutInv(r)!(p)'
      BY <1>1 DEF Pending
    <2>2. ASSUME NEW q \in Prefix, q # p PROVE PutInv(r)!(q)'
      BY <1>1, <1>2, <2>2 DEF RunnerInv, PutInv, Pending
    <2> QED
      BY <2>1, <2>2 DEF PutInv
  <1>9. DeleteInv(r)'
    <2>1. ASSUME NEW q \in Prefix, pc'[r][q] = "delete"
          PROVE  pc[r][q] = "delete" /\ pairs'[r][q] = pairs[r][q]
      BY <1>1, <1>2, <2>1
    <2> QED
      BY <1>1, <2>1 DEF RunnerInv, DeleteInv
  <1> QED
    BY <1>5, <1>6, <1>7, <1>8, <1>9 DEF RunnerInv

LEMMA ListKeysStep ==
  ASSUME NEW r \in Runner, TypeOK, RunnerInv(r), NEW p \in Prefix, ListKeys(r, p)
  PROVE  RunnerInv(r)'
  <1> USE DEF sourceVars, viewVars, passVars
  <1>1. /\ pc[r][p] = "put" /\ toPut[r][p] = {} /\ pc'[r][p] = "delete"
        /\ toDel'[r][p] = Deletes(p, pairs[r][p], dst) \cup StaleCheckpoints(p)
        /\ \A q \in Prefix : q # p => pc'[r][q] = pc[r][q] /\ toDel'[r][q] = toDel[r][q]
        /\ UNCHANGED <<sourceVars, viewVars, seen, pairs, last, toPut, dst, status>>
    BY DEF ListKeys, TypeOK
  <1>2. \A q \in Prefix : (Reading(r, q)' => Reading(r, q)) /\ (InPass(r, q)' => InPass(r, q))
    BY <1>1 DEF InPass, Reading
  <1>3. ASSUME NEW q \in Prefix PROVE Levels(r, q)' \subseteq Levels(r, q) \cup {0}
    BY <1>1, <1>2, LevelsFall, LevelsBound
  <1>4. /\ SourceInv(r)' /\ CopyInv' /\ ViewInv(r)'
        /\ \A q \in Prefix, x \in Pairs, i \in Nat :
             Sound(q, x, i, Levels(r, q), dst) => Sound(q, x, i, Levels(r, q)', dst')
    BY <1>1, <1>3, QuietStep
  <1>5. SeenInv(r)'
    BY <1>1, <1>2 DEF RunnerInv, SeenInv
  <1>6. ListingInv(r)'
    BY <1>1, <1>2, <1>4, ListingKept
  <1>7. PutInv(r)'
    BY <1>1 DEF RunnerInv, PutInv, Pending
  <1>8. DeleteInv(r)'
    <2>1. ASSUME NEW k \in Replicated(p), dst[DestOf[p][k]] # ValueOf(DepOf[p], pairs[r][p][k])
          PROVE  DestOf[p][k] \in toDel'[r][p]
      <3>1. /\ k \in Key /\ pairs[r][p][k] \in Nat /\ seen[r][p] \in Nat
            /\ InPass(r, p) /\ seen[r][p] \in Levels(r, p)
        BY <1>1 DEF TypeOK, Pairs, Replicated, InPass, Reading, Levels
      <3>2. k \notin Pending(r, p)
        BY <1>1, <2>1 DEF RunnerInv, PutInv
      <3>3. pairs[r][p][k] = 0 \/ pairs[r][p][k] <= seen[r][p]
        BY <3>1, <3>2 DEF Pending, Updates, Replicated
      <3>4. Sound(p, pairs[r][p], last[r][p], Levels(r, p), dst)
        BY <3>1 DEF RunnerInv, ListingInv
      <3>5. pairs[r][p][k] = 0
        BY <2>1, <3>1, <3>3, <3>4 DEF Sound
      <3>6. dst[DestOf[p][k]] # Absent
        BY <2>1, <3>5 DEF ValueOf
      <3>7. DestOf[p][k] \notin UsedKeys(p, pairs[r][p])
        BY <3>1, <3>5, SafeAssumption DEF UsedKeys, Injective
      <3>8. DestOf[p][k] \in Under[p] /\ DestOf[p][k] \notin ExcludedLocal[p]
        BY DestinationsApart DEF Owned
      <3> QED
        BY <1>1, <3>6, <3>7, <3>8 DEF Deletes
    <2>2. toDel'[r][p] \cap DKey \subseteq Owned(p) \ UsedKeys(p, pairs[r][p])
      <3>1. StaleCheckpoints(p) \cap DKey = {}
        BY OperatorTypes, ConstantsAssumption
      <3> QED
        BY <1>1, <3>1 DEF Deletes, Owned
    <2>3. DeleteInv(r)!(p)'
      BY <1>1, <2>1, <2>2
    <2>4. ASSUME NEW q \in Prefix, q # p PROVE DeleteInv(r)!(q)'
      BY <1>1, <2>4 DEF RunnerInv, DeleteInv
    <2> QED
      BY <2>3, <2>4 DEF DeleteInv
  <1> QED
    BY <1>4, <1>5, <1>6, <1>7, <1>8 DEF RunnerInv

\* A checkpoint may be deleted under the feet of the pass that has read it.
LEMMA DeleteCheckpointStep ==
  ASSUME NEW r \in Runner, TypeOK, RunnerInv(r), NEW p \in Prefix, NEW s \in StatusKey,
         DeleteCheckpoint(r, p, s)
  PROVE  RunnerInv(r)'
  <1> USE DEF sourceVars, viewVars, passVars
  <1>1. /\ pc[r][p] = "delete" /\ toDel'[r][p] = toDel[r][p] \ {s}
        /\ \A q \in Prefix : q # p => toDel'[r][q] = toDel[r][q]
        /\ UNCHANGED <<sourceVars, viewVars, pc, seen, pairs, last, toPut, dst>>
    BY DEF DeleteCheckpoint, TypeOK
  <1>2. \A q \in Prefix : status'[StatusOf[q]] \in {status[StatusOf[q]], 0}
    BY OperatorTypes DEF DeleteCheckpoint, TypeOK
  <1>3. ASSUME NEW q \in Prefix PROVE Levels(r, q)' \subseteq Levels(r, q) \cup {0}
    <2>1. Reading(r, q)' => seen'[r][q] \in Levels(r, q)
      BY <1>1, LevelsBound DEF Reading
    <2> QED
      BY <1>2, <2>1, LevelsFall
  <1>4. /\ SourceInv(r)' /\ CopyInv' /\ ViewInv(r)'
        /\ \A q \in Prefix, x \in Pairs, i \in Nat :
             Sound(q, x, i, Levels(r, q), dst) => Sound(q, x, i, Levels(r, q)', dst')
    BY <1>1, <1>3, QuietStep
  <1>5. SeenInv(r)'
    <2>1. \A q \in Prefix : seen[r][q] \in Nat
      BY DEF TypeOK
    <2> QED
      BY <1>1, <1>2, <2>1 DEF RunnerInv, SeenInv, Reading
  <1>6. ListingInv(r)'
    BY <1>1, <1>4, ListingKept DEF InPass
  <1>7. PutInv(r)'
    BY <1>1 DEF RunnerInv, PutInv, Pending
  <1>8. DeleteInv(r)'
    <2>1. \A q \in Prefix : \A k \in Replicated(q) : DestOf[q][k] # s
      BY DestinationsApart, ConstantsAssumption
    <2> QED
      BY <1>1, <2>1 DEF RunnerInv, DeleteInv
  <1> QED
    BY <1>4, <1>5, <1>6, <1>7, <1>8 DEF RunnerInv

\* A pass that has deleted all it had to stores its index and ends.
LEMMA CheckpointStep ==
  ASSUME NEW r \in Runner, TypeOK, RunnerInv(r), NEW p \in Prefix,
         pc[r][p] = "delete", toDel[r][p] = {},
         status' = [status EXCEPT ![StatusOf[p]] = last[r][p]],
         pc'[r][p] \in {"done", "failed"},
         \A q \in Prefix : q # p => pc'[r][q] = pc[r][q],
         UNCHANGED <<sourceVars, viewVars, passVars, dst>>
  PROVE  RunnerInv(r)'
  <1> USE DEF sourceVars, viewVars, passVars
  <1> DEFINE d == DepOf[p]
  <1>1. /\ status'[StatusOf[p]] = last[r][p]
        /\ \A q \in Prefix : q # p => status'[StatusOf[q]] = status[StatusOf[q]]
    BY SafeAssumption, OperatorTypes DEF TypeOK, Disjoint
  <1>2. /\ d \in Dep /\ d \in vrecv[r] /\ InPass(r, p)
        /\ last[r][p] \in Nat /\ vindex[r][d] \in Nat /\ idx[d] \in Nat
        /\ last[r][p] <= vindex[r][d] /\ last[r][p] <= idx[d]
        /\ pairs[r][p] \in Pairs /\ src[d] \in Pairs /\ vdata[r][d] \in Pairs
    BY OperatorTypes DEF TypeOK, RunnerInv, ListingInv, ViewInv, InPass
  <1>3. \A k \in Replicated(p) : dst[DestOf[p][k]] = ValueOf(d, pairs[r][p][k])
    BY DEF RunnerInv, DeleteInv
  <1>4. /\ Levels(r, p)' = {last[r][p]}
        /\ \A q \in Prefix : q # p => Levels(r, q)' = Levels(r, q)
    <2>1. ~ Reading(r, p)' /\ \A q \in Prefix : q # p => (Reading(r, q)' <=> Reading(r, q))
      BY DEF Reading
    <2> QED
      BY <1>1, <2>1 DEF Levels
  <1>5. Sound(p, src[d], idx[d], Levels(r, p)', dst)
    <2>1. Sound(p, src[d], idx[d], Levels(r, p), dst) /\ Upto(pairs[r][p], src[d], last[r][p])
      BY <1>2 DEF RunnerInv, SourceInv, ListingInv
    <2> QED
      BY <1>2, <1>3, <1>4, <2>1, SoundSet
  <1>6. Sound(p, vdata[r][d], vindex[r][d], Levels(r, p)', dst)
    <2>1. /\ Sound(p, vdata[r][d], vindex[r][d], Levels(r, p), dst)
          /\ Upto(pairs[r][p], vdata[r][d], last[r][p])
      BY <1>2 DEF RunnerInv, ViewInv, ListingInv
    <2> QED
      BY <1>2, <1>3, <1>4, <2>1, SoundSet
  <1>7. SourceInv(r)'
    BY <1>4, <1>5 DEF RunnerInv, SourceInv
  <1>8. ViewInv(r)'
    <2>1. ASSUME NEW q \in Prefix, DepOf[q] \in vrecv[r]
          PROVE  Sound(q, vdata[r][DepOf[q]], vindex[r][DepOf[q]], Levels(r, q)', dst)
      <3>1. CASE q = p
        BY <1>6, <3>1
      <3>2. CASE q # p
        BY <1>4, <2>1, <3>2, OperatorTypes DEF RunnerInv, ViewInv
      <3> QED
        BY <3>1, <3>2
    <2> QED
      BY <2>1 DEF RunnerInv, ViewInv, Upto
  <1>9. SeenInv(r)'
    <2>1. \A q \in Prefix : Reading(r, q)' => Reading(r, q) /\ q # p
      BY DEF Reading
    <2> QED
      BY <1>1, <2>1 DEF RunnerInv, SeenInv
  <1>10. ListingInv(r)'
    <2>1. \A q \in Prefix : InPass(r, q)' => InPass(r, q) /\ q # p
      BY DEF InPass
    <2> QED
      BY <1>4, <2>1 DEF RunnerInv, ListingInv, Upto
  <1>11. CopyInv' /\ PutInv(r)' /\ DeleteInv(r)'
    BY DEF RunnerInv, CopyInv, PutInv, DeleteInv, Pending, Version
  <1> QED
    BY <1>7, <1>8, <1>9, <1>10, <1>11 DEF RunnerInv

\* A step that only moves the phase of workers, out of the pass or up to the
\* reading of the checkpoint.
LEMMA PhaseStep ==
  ASSUME NEW r \in Runner, TypeOK, RunnerInv(r),
         UNCHANGED <<sourceVars, vdata, vindex, vrecv, passVars, dst, status>>,
         dataCh'[r] \cup data'[r] \subseteq dataCh[r] \cup data[r],
         \A p \in Prefix :
           pc'[r][p] = pc[r][p] \/ pc'[r][p] \in {"done", "self", "status", "failed"}
  PROVE  RunnerInv(r)'
  <1> USE DEF sourceVars, passVars
  <1>1. \A p \in Prefix : (Reading(r, p)' => Reading(r, p)) /\ (InPass(r, p)' => InPass(r, p))
    BY DEF Reading, InPass
  <1>2. ASSUME NEW q \in Prefix PROVE Levels(r, q)' \subseteq Levels(r, q) \cup {0}
    BY <1>1, LevelsFall, LevelsBound
  <1>3. /\ SourceInv(r)' /\ CopyInv' /\ ViewInv(r)'
        /\ \A q \in Prefix, x \in Pairs, i \in Nat :
             Sound(q, x, i, Levels(r, q), dst) => Sound(q, x, i, Levels(r, q)', dst')
    BY <1>2, QuietStep
  <1>4. SeenInv(r)'
    BY <1>1 DEF RunnerInv, SeenInv
  <1>5. ListingInv(r)'
    BY <1>1, <1>3, ListingKept
  <1>6. PutInv(r)' /\ DeleteInv(r)'
    BY DEF RunnerInv, PutInv, DeleteInv, Pending
  <1> QED
    BY <1>3, <1>4, <1>5, <1>6 DEF RunnerInv

\* A runner that starts with nothing goes on where another one, that is alone,
\* has left the stores.
Fresh(r) ==
  /\ vindex[r] = [d \in Dep |-> 0] /\ vrecv[r] = {} /\ dataCh[r] = {} /\ data[r] = {}
  /\ \A p \in Prefix : pc[r][p] = "done"

LEMMA FreshStep ==
  ASSUME NEW r \in Runner, TypeOK, RunnerInv(r), NEW s \in Runner, Fresh(s)',
         UNCHANGED <<sourceVars, dst, status>>
  PROVE  RunnerInv(s)'
  <1> USE DEF sourceVars
  <1>1. \A d \in Dep : idx[d] \in Nat
    BY DEF TypeOK
  <1>2. ASSUME NEW p \in Prefix PROVE Levels(s, p)' \subseteq Levels(r, p)
    BY DEF Levels, Reading, Fresh
  <1>3. SourceInv(s)' /\ CopyInv'
    <2>1. ASSUME NEW p \in Prefix
          PROVE  Sound(p, src[DepOf[p]], idx[DepOf[p]], Levels(s, p)', dst')
      <3>1. /\ src[DepOf[p]] \in Pairs /\ idx[DepOf[p]] \in Nat
            /\ Sound(p, src[DepOf[p]], idx[DepOf[p]], Levels(r, p), dst)
        BY OperatorTypes DEF TypeOK, RunnerInv, SourceInv
      <3> QED
        BY <1>2, <3>1, SoundKept
    <2> QED
      BY <2>1 DEF RunnerInv, SourceInv, CopyInv, Version
  <1>4. ViewInv(s)'
    BY <1>1 DEF ViewInv, Fresh
  <1>5. SeenInv(s)' /\ ListingInv(s)' /\ PutInv(s)' /\ DeleteInv(s)'
    BY DEF SeenInv, ListingInv, PutInv, DeleteInv, InPass, Reading, Fresh
  <1> QED
    BY <1>3, <1>4, <1>5 DEF RunnerInv

\* What another runner does between passes.
LEMMA OtherStep ==
  ASSUME NEW r \in Runner, TypeOK, RunnerInv(r),
         UNCHANGED <<sourceVars, dst, status, vdata[r], vindex[r], vrecv[r], dataCh[r], data[r],
                     pc[r], seen[r], pairs[r], last[r], toPut[r], toDel[r]>>
  PROVE  RunnerInv(r)'
  <1>1. \A p \in Prefix : Levels(r, p)' = Levels(r, p) /\ Pending(r, p)' = Pending(r, p)
    BY DEF Levels, Reading, Pending
  <1>2. SourceInv(r)' /\ CopyInv' /\ ViewInv(r)'
    BY <1>1 DEF RunnerInv, SourceInv, CopyInv, ViewInv, Version, sourceVars
  <1>3. SeenInv(r)' /\ ListingInv(r)' /\ PutInv(r)' /\ DeleteInv(r)'
    BY <1>1 DEF RunnerInv, SeenInv, ListingInv, PutInv, DeleteInv, InPass, Reading, sourceVars
  <1> QED
    BY <1>2, <1>3 DEF RunnerInv

----------------------------------------------------------------------------
LEMMA InvInit == ASSUME Init, NEW r \in Runner PROVE RunnerInv(r)
  <1>1. \A p \in Prefix : pc[r][p] = "done"
    BY DEF Init
  <1>2. ASSUME NEW p \in Prefix, NEW k \in Replicated(p)
        PROVE  dst[DestOf[p][k]] = Absent /\ Version(p, k, dst) = 0
    <2>1. dst[DestOf[p][k]] = Absent
      BY DestinationsApart DEF Init
    <2> QED
      BY <2>1, ConstantsAssumption DEF Version
  <1>3. ASSUME NEW p \in Prefix PROVE Levels(r, p) = {0} /\ DepOf[p] \in Dep
    BY <1>1, OperatorTypes DEF Init, Levels, Reading
  <1>4. SourceInv(r)
    <2>1. \A d \in Dep : idx[d] = 1 /\ since[d] = 0 /\ \A k \in Key : src[d][k] = 0
      BY DEF Init, NoPairs
    <2> QED
      BY <1>2, <1>3, <2>1 DEF SourceInv, Sound, Replicated
  <1>5. CopyInv
    BY <1>2 DEF CopyInv, ValueOf
  <1>6. ViewInv(r)
    BY DEF Init, ViewInv
  <1>7. SeenInv(r) /\ ListingInv(r) /\ PutInv(r) /\ DeleteInv(r)
    BY <1>1 DEF SeenInv, ListingInv, PutInv, DeleteInv, InPass, Reading
  <1> QED
    BY <1>4, <1>5, <1>6, <1>7 DEF RunnerInv

LEMMA EnvironmentStep ==
  ASSUME NEW r \in Runner, TypeOK, RunnerInv(r), Environment
  PROVE  RunnerInv(r)'
  <1> USE DEF sourceVars, viewVars, passVars
  <1>1. ASSUME NEW d \in Dep, NEW k \in Key, SourcePut(d, k) PROVE RunnerInv(r)'
    BY <1>1, PutMoves, SourceStep DEF SourcePut
  <1>2. ASSUME NEW d \in Dep, NEW k \in Key, SourceDelete(d, k) PROVE RunnerInv(r)'
    BY <1>2, DeleteMoves, SourceStep DEF SourceDelete
  <1>3. ASSUME NEW d \in Dep, FollowerCatchUp(d) \/ SourceRestore(d) PROVE FALSE
    BY <1>3, SafeAssumption DEF FollowerCatchUp, FreshReads, SourceRestore, Steady
  <1>4. ASSUME NEW dk \in DKey, LocalPut(dk) PROVE RunnerInv(r)'
    BY <1>4, LocalPutStep
  <1> QED
    BY <1>1, <1>2, <1>3, <1>4 DEF Environment

\* The watcher of any runner.
LEMMA WatchStep ==
  ASSUME NEW r \in Runner, TypeOK, RunnerInv(r), NEW x \in Runner, NEW d \in Dep, Fetch(x, d)
  PROVE  RunnerInv(r)'
  <1>1. CASE x = r
    BY <1>1, FetchStep
  <1>2. CASE x # r
    <2>1. UNCHANGED <<vdata[r], vindex[r], vrecv[r], dataCh[r]>>
      BY <1>2 DEF Fetch, IndexWentBack, SameContents, NewContents, TypeOK
    <2> QED
      BY <1>2, <2>1, OtherStep DEF Fetch, passVars
  <1> QED
    BY <1>1, <1>2

\* The event loop of any runner.
LEMMA RunStep ==
  ASSUME NEW r \in Runner, TypeOK, RunnerInv(r), NEW x \in Runner, Run(x)
  PROVE  RunnerInv(r)'
  <1> USE DEF sourceVars, passVars
  <1>1. CASE x = r
    <2>1. /\ dataCh'[r] \cup data'[r] \subseteq dataCh[r] \cup data[r]
          /\ \A p \in Prefix : pc'[r][p] \in {"self", "done"}
      BY <1>1 DEF Run, TypeOK
    <2> QED
      BY <2>1, PhaseStep DEF Run
  <1>2. CASE x # r
    BY <1>2, OtherStep DEF Run, TypeOK
  <1> QED
    BY <1>1, <1>2

\* A goroutine of the runner, or the failure of one of its calls.
LEMMA OwnStep ==
  ASSUME NEW r \in Runner, TypeOK, RunnerInv(r), NEW p \in Prefix, Step(r, p) \/ CallFails(r, p)
  PROVE  RunnerInv(r)'
  <1> USE DEF sourceVars, viewVars, passVars
  <1>1. CASE CheckDatacenter(r, p)
    BY <1>1, PhaseStep DEF CheckDatacenter, TypeOK
  <1>2. CASE GetStatus(r, p)
    BY <1>2, GetStatusStep
  <1>3. CASE NoData(r, p)
    BY <1>3, PhaseStep DEF NoData, TypeOK
  <1>4. CASE GetView(r, p)
    BY <1>4, GetViewStep
  <1>5. ASSUME NEW k \in Key, Put(r, p, k) PROVE RunnerInv(r)'
    BY <1>5, PutStep
  <1>6. CASE ListKeys(r, p)
    BY <1>6, ListKeysStep
  <1>7. ASSUME NEW dk \in DKey, Delete(r, p, dk) PROVE RunnerInv(r)'
    BY <1>7, DeleteStep
  <1>8. ASSUME NEW s \in StatusKey, DeleteCheckpoint(r, p, s) PROVE RunnerInv(r)'
    BY <1>8, DeleteCheckpointStep
  <1>9. CASE SetStatus(r, p)
    <2>1. pc'[r][p] = "done" /\ \A q \in Prefix : q # p => pc'[r][q] = pc[r][q]
      BY <1>9 DEF SetStatus, TypeOK
    <2> QED
      BY <1>9, <2>1, CheckpointStep DEF SetStatus
  <1>10. CASE CallFails(r, p)
    <2>1. pc'[r][p] = "failed" /\ \A q \in Prefix : q # p => pc'[r][q] = pc[r][q]
      BY <1>10 DEF CallFails, TypeOK
    <2>2. CASE UNCHANGED status
      BY <1>10, <2>1, <2>2, PhaseStep DEF CallFails
    <2>3. CASE /\ pc[r][p] = "delete" /\ toDel[r][p] = {}
               /\ status' = [status EXCEPT ![StatusOf[p]] = last[r][p]]
      BY <1>10, <2>1, <2>3, CheckpointStep DEF CallFails
    <2> QED
      BY <1>10, <2>2, <2>3 DEF CallFails
  <1> QED
    BY <1>1, <1>2, <1>3, <1>4, <1>5, <1>6, <1>7, <1>8, <1>9, <1>10 DEF Step

\* The goroutine of another runner that holds no listing changes neither store.
LEMMA IdleStep ==
  ASSUME NEW x \in Runner, TypeOK, NEW p \in Prefix, ~InPass(x, p), Step(x, p) \/ CallFails(x, p)
  PROVE  /\ UNCHANGED <<sourceVars, viewVars, dst, status>>
         /\ \A r \in Runner : r # x =>
              UNCHANGED <<pc[r], seen[r], pairs[r], last[r], toPut[r], toDel[r]>>
  <1> USE DEF passVars
  <1>1. CASE CheckDatacenter(x, p) \/ NoData(x, p)
    BY <1>1 DEF CheckDatacenter, NoData, TypeOK
  <1>2. CASE GetStatus(x, p)
    BY <1>2 DEF GetStatus, TypeOK
  <1>3. CASE GetView(x, p)
    BY <1>3 DEF GetView, TypeOK
  <1>4. CASE CallFails(x, p)
    BY <1>4 DEF CallFails, TypeOK, InPass
  <1> QED
    BY <1>1, <1>2, <1>3, <1>4
       DEF Step, Put, ListKeys, Delete, DeleteCheckpoint, SetStatus, InPass

\* A goroutine of any runner.
LEMMA GoroutineStep ==
  ASSUME NEW r \in Runner, TypeOK, RunnerInv(r), Alone(r),
         NEW x \in Runner, NEW p \in Prefix, Step(x, p) \/ CallFails(x, p)
  PROVE  RunnerInv(r)'
  <1>1. CASE x = r
    BY <1>1, OwnStep
  <1>2. CASE x # r
    <2>1. ~InPass(x, p)
      BY <1>2 DEF Alone
    <2> QED
      BY <1>2, <2>1, IdleStep, OtherStep DEF viewVars
  <1> QED
    BY <1>1, <1>2

\* The restart of any runner.
LEMMA RestartStep ==
  ASSUME NEW r \in Runner, TypeOK, RunnerInv(r), NEW x \in Runner, Restarted(x)
  PROVE  RunnerInv(r)'
  <1>1. CASE x = r
    <2>1. Fresh(r)' /\ UNCHANGED <<sourceVars, dst, status>>
      BY <1>1 DEF Restarted, Fresh, TypeOK
    <2> QED
      BY <2>1, FreshStep
  <1>2. CASE x # r
    BY <1>2, OtherStep DEF Restarted, passVars, TypeOK
  <1> QED
    BY <1>1, <1>2

LEMMA InvStep ==
  ASSUME NEW r \in Runner, TypeOK, RunnerInv(r), Alone(r), [Next]_vars
  PROVE  RunnerInv(r)'
  <1>1. CASE Environment
    BY <1>1, EnvironmentStep
  <1>2. ASSUME NEW x \in Runner, NEW d \in Dep, Fetch(x, d) PROVE RunnerInv(r)'
    BY <1>2, WatchStep
  <1>3. ASSUME NEW x \in Runner, Run(x) PROVE RunnerInv(r)'
    BY <1>3, RunStep
  <1>4. ASSUME NEW x \in Runner, NEW p \in Prefix, Step(x, p) \/ CallFails(x, p) PROVE RunnerInv(r)'
    BY <1>4, GoroutineStep
  <1>5. ASSUME NEW x \in Runner, ExitOnError(x) \/ Crash(x) PROVE RunnerInv(r)'
    BY <1>5, RestartStep DEF ExitOnError, Crash
  <1>6. CASE UNCHANGED vars
    BY <1>6, OtherStep DEF vars, viewVars, passVars
  <1> QED
    BY <1>1, <1>2, <1>3, <1>4, <1>5, <1>6 DEF Next

\* However many runners there are, the inductive invariant holds of one that is
\* alone with the destination, failures and restarts of all of them included.
THEOREM AloneIsSafe == ASSUME NEW r \in Runner PROVE Spec /\ []Alone(r) => []RunnerInv(r)
  <1>1. Init => RunnerInv(r)
    BY InvInit
  <1>2. TypeOK /\ RunnerInv(r) /\ Alone(r) /\ [Next]_vars => RunnerInv(r)'
    BY InvStep
  <1> QED
    BY <1>1, <1>2, TypeInit, TypeStep, PTL DEF Spec

\* Under the assumptions of ReplicateSafe the inductive invariant of the one
\* runner holds at every instant, failures and restarts included.
THEOREM Invariant == ASSUME OneRunner PROVE Spec => []IInv
  <1>1. PICK r \in Runner : Runner = {r}
    BY DEF OneRunner
  <1>2. Alone(r) /\ (RunnerInv(r) => IInv)
    BY <1>1 DEF Alone, IInv
  <1>3. Spec /\ []Alone(r) => []RunnerInv(r)
    BY AloneIsSafe
  <1> QED
    BY <1>2, <1>3, PTL

\* What the invariant of a runner says of the checkpoints.
LEMMA InvCovers == ASSUME TypeOK, NEW r \in Runner, RunnerInv(r) PROVE CheckpointCovers
  BY LevelsType DEF RunnerInv, SourceInv, Sound, CheckpointCovers, Covers

\* No key at or below the checkpoint, which replicate will skip from then on
\* (runner.go:334), is missing or out of date at the destination.
THEOREM CheckpointSafe == ASSUME OneRunner PROVE Spec => []CheckpointCovers
  <1>1. TypeOK /\ IInv => CheckpointCovers
    BY InvCovers DEF IInv, OneRunner
  <1> QED
    BY <1>1, TypeCorrect, Invariant, PTL

\* The destination holds exactly the listing whose index a pass is about to
\* store (runner.go:403).
THEOREM CheckpointComplete == ASSUME OneRunner PROVE Spec => []CheckpointExact
  <1>1. IInv => CheckpointExact
    BY DEF IInv, RunnerInv, DeleteInv, CheckpointExact
  <1> QED
    BY <1>1, Invariant, PTL

----------------------------------------------------------------------------
(* Passes implement Replica.                                               *)

\* What the mapped variables hold.
LEMMA MappedIs ==
  ASSUME NEW p \in Prefix
  PROVE  /\ Marks[p] = status[StatusOf[p]]
         /\ \A k \in Key :
              Copies[p][k] = IF k \in Replicated(p) THEN Version(p, k, dst) ELSE 0
  BY DEF Marks, Copies

\* A step that changes no replicated key and no checkpoint is a stutter if the
\* source does not move.
LEMMA MappedSame ==
  ASSUME \A p \in Prefix : \A k \in Replicated(p) : dst'[DestOf[p][k]] = dst[DestOf[p][k]],
         \A p \in Prefix : status'[StatusOf[p]] = status[StatusOf[p]]
  PROVE  Copies' = Copies /\ Marks' = Marks
  BY DEF Copies, Marks, Version

\* A step that changes one replicated key.
LEMMA MappedChange ==
  ASSUME NEW p \in Prefix, NEW k \in Replicated(p), NEW v \in Nat,
         dst'[DestOf[p][k]] = ValueOf(DepOf[p], v),
         \A q \in Prefix : \A l \in Replicated(q) :
           (q = p /\ l = k) \/ dst'[DestOf[q][l]] = dst[DestOf[q][l]]
  PROVE  Copies' = [Copies EXCEPT ![p][k] = v]
  <1>1. k \in Key /\ Version(p, k, dst') = v
    BY VersionOf DEF Replicated
  <1>2. \A q \in Prefix : \A l \in Replicated(q) :
          (q = p /\ l = k) \/ Version(q, l, dst') = Version(q, l, dst)
    BY DEF Version
  <1>3. Copies' = [q \in Prefix |-> [l \in Key |-> IF l \in Replicated(q) THEN Version(q, l, dst') ELSE 0]]
    BY DEF Copies, Version
  <1> DEFINE C == [q \in Prefix |-> [l \in Key |-> IF l \in Replicated(q) THEN Version(q, l, dst) ELSE 0]]
  <1>4. Copies = C
    BY DEF Copies
  <1>5. Copies'[p] = [C[p] EXCEPT ![k] = v]
    BY <1>1, <1>2, <1>3
  <1>6. \A q \in Prefix : q # p => Copies'[q] = C[q]
    BY <1>2, <1>3
  <1> QED
    BY <1>3, <1>4, <1>5, <1>6

\* A step that sets the checkpoint of a prefix.
LEMMA MappedCheckpoint ==
  ASSUME NEW p \in Prefix, NEW i, TypeOK, status' = [status EXCEPT ![StatusOf[p]] = i]
  PROVE  Marks' = [Marks EXCEPT ![p] = i]
  <1>1. /\ status'[StatusOf[p]] = i
        /\ \A q \in Prefix : q # p => status'[StatusOf[q]] = status[StatusOf[q]]
    <2>1. \A q \in Prefix : q # p => StatusOf[q] # StatusOf[p]
      BY SafeAssumption DEF Disjoint
    <2>2. status \in [StatusKey -> Nat] /\ \A q \in Prefix : StatusOf[q] \in StatusKey
      BY OperatorTypes DEF TypeOK
    <2> QED
      BY <2>1, <2>2
  <1> QED
    BY <1>1 DEF Marks

\* A version at or below the index of a worker's listing that the source still
\* has is in the listing.
LEMMA ListedIfCurrent ==
  ASSUME NEW r \in Runner, TypeOK, RunnerInv(r), NEW p \in Prefix, InPass(r, p), NEW k \in Replicated(p),
         src[DepOf[p]][k] # 0, src[DepOf[p]][k] <= last[r][p]
  PROVE  pairs[r][p][k] = src[DepOf[p]][k]
  BY DEF RunnerInv, ListingInv, Upto, Replicated

\* Under the mapping, what the destination holds is no newer than the listing.
LEMMA CopyBelowListing ==
  ASSUME NEW r \in Runner, TypeOK, RunnerInv(r), NEW p \in Prefix, InPass(r, p), NEW k \in Replicated(p)
  PROVE  /\ Version(p, k, dst) \in Nat /\ Version(p, k, dst) <= last[r][p]
         /\ pairs[r][p][k] # 0 => Version(p, k, dst) <= pairs[r][p][k]
  BY VersionOf DEF RunnerInv, ListingInv, Sound, Replicated

LEMMA PutRefines ==
  ASSUME NEW r \in Runner, TypeOK, RunnerInv(r), NEW p \in Prefix, NEW k \in Key, Put(r, p, k)
  PROVE  [Rep!Next]_(Rep!vars)
  <1> DEFINE v == pairs[r][p][k]
             o == Version(p, k, dst)
             d == DepOf[p]
  <1>1. /\ InPass(r, p) /\ k \in Replicated(p) /\ v \in Nat /\ v # 0
        /\ dst'[DestOf[p][k]] = ValueOf(d, v)
        /\ \A q \in Prefix : \A l \in Replicated(q) :
             (q = p /\ l = k) \/ dst'[DestOf[q][l]] = dst[DestOf[q][l]]
    BY PutOfListing
  <1>2. UNCHANGED <<src, idx, status>> /\ UNCHANGED Marks
    BY DEF Put, sourceVars, Marks
  <1>3. Copies' = [Copies EXCEPT ![p][k] = v] /\ Copies[p][k] = o
    BY <1>1, MappedChange, MappedIs
  <1>4. /\ o \in Nat /\ o <= v /\ v <= last[r][p] /\ last[r][p] <= idx[d]
        /\ last[r][p] \in Nat /\ idx[d] \in Nat /\ src[d][k] \in Nat
    <2>1. o \in Nat /\ o <= v
      BY <1>1, CopyBelowListing
    <2>2. /\ v <= last[r][p] /\ last[r][p] <= vindex[r][d] /\ vindex[r][d] <= idx[d]
          /\ d \in Dep
      BY <1>1, OperatorTypes DEF RunnerInv, ListingInv, ViewInv
    <2>3. last[r][p] \in Nat /\ idx[d] \in Nat /\ src[d][k] \in Nat /\ vindex[r][d] \in Nat
      BY <2>2 DEF TypeOK, Pairs
    <2> QED
      BY <2>1, <2>2, <2>3
  <1>5. CASE o = v
    <2>1. dst[DestOf[p][k]] = ValueOf(d, v)
      BY <1>1, <1>5 DEF RunnerInv, CopyInv
    <2>2. Copies' = Copies
      BY <1>1, <1>2, <2>1, MappedSame
    <2> QED
      BY <1>2, <2>2 DEF Rep!vars
  <1>6. CASE o # v
    <2>1. ~(src[d][k] # 0 /\ o = src[d][k])
      BY <1>1, <1>4, <1>6, ListedIfCurrent
    <2>2. ~Rep!UpToDate(p, k)
      BY <1>3, <2>1 DEF Rep!UpToDate
    <2>3. v \in 1 .. idx[d] /\ Copies[p][k] < v
      BY <1>1, <1>3, <1>4, <1>6
    <2>4. k \in [q \in Prefix |-> Replicated(q)][p]
      BY <1>1
    <2>5. Rep!Update(p, k)
      BY <1>2, <1>3, <2>2, <2>3, <2>4 DEF Rep!Update
    <2> QED
      BY <2>5 DEF Rep!Next
  <1> QED
    BY <1>5, <1>6

LEMMA DeleteRefines ==
  ASSUME NEW r \in Runner, TypeOK, RunnerInv(r), NEW p \in Prefix, NEW dk \in DKey, Delete(r, p, dk)
  PROVE  [Rep!Next]_(Rep!vars)
  <1> DEFINE d == DepOf[p]
  <1>1. InPass(r, p) /\ \A q \in Prefix : \A k \in Replicated(q) :
          \/ DestOf[q][k] # dk /\ dst'[DestOf[q][k]] = dst[DestOf[q][k]]
          \/ /\ q = p /\ DestOf[q][k] = dk /\ pairs[r][p][k] = 0
             /\ dst'[DestOf[q][k]] = ValueOf(DepOf[q], 0)
    BY DeleteOfListing
  <1>2. UNCHANGED <<src, idx, status>> /\ UNCHANGED Marks
    BY DEF Delete, sourceVars, Marks
  <1>3. CASE \A q \in Prefix : \A k \in Replicated(q) : DestOf[q][k] # dk
    <2>1. Copies' = Copies
      BY <1>1, <1>2, <1>3, MappedSame
    <2> QED
      BY <1>2, <2>1 DEF Rep!vars
  <1>4. ASSUME NEW q \in Prefix, NEW k \in Replicated(q), DestOf[q][k] = dk
        PROVE  [Rep!Next]_(Rep!vars)
    <2>1. /\ q = p /\ k \in Replicated(p) /\ k \in Key /\ pairs[r][p][k] = 0
          /\ dst'[DestOf[p][k]] = ValueOf(d, 0)
      BY <1>1, <1>4 DEF Replicated
    <2>2. \A t \in Prefix : \A l \in Replicated(t) :
            (t = p /\ l = k) \/ dst'[DestOf[t][l]] = dst[DestOf[t][l]]
      BY <1>1, <1>4, <2>1, DestinationsApart
    <2>3. Copies' = [Copies EXCEPT ![p][k] = 0] /\ Copies[p][k] = Version(p, k, dst)
      BY <2>1, <2>2, MappedChange, MappedIs
    <2>4. ~Rep!UpToDate(p, k)
      <3>1. src[d][k] # 0 => Version(p, k, dst) # src[d][k]
        BY <1>1, <2>1, CopyBelowListing, ListedIfCurrent
      <3> QED
        BY <2>3, <3>1 DEF Rep!UpToDate
    <2>5. k \in [t \in Prefix |-> Replicated(t)][p]
      BY <2>1
    <2>6. Rep!Remove(p, k)
      BY <1>2, <2>3, <2>4, <2>5 DEF Rep!Remove
    <2> QED
      BY <2>1, <2>6 DEF Rep!Next
  <1> QED
    BY <1>3, <1>4

LEMMA CheckpointRefines ==
  ASSUME NEW r \in Runner, TypeOK, RunnerInv(r), NEW p \in Prefix,
         pc[r][p] = "delete", toDel[r][p] = {},
         status' = [status EXCEPT ![StatusOf[p]] = last[r][p]], UNCHANGED <<src, idx, dst>>
  PROVE  [Rep!Next]_(Rep!vars)
  <1>1. /\ DepOf[p] \in Dep /\ last[r][p] \in Nat /\ idx[DepOf[p]] \in Nat
        /\ last[r][p] <= idx[DepOf[p]] /\ InPass(r, p)
    <2>1. /\ DepOf[p] \in Dep /\ InPass(r, p)
          /\ last[r][p] <= vindex[r][DepOf[p]] /\ vindex[r][DepOf[p]] <= idx[DepOf[p]]
      BY OperatorTypes DEF RunnerInv, ListingInv, ViewInv, InPass
    <2>2. last[r][p] \in Nat /\ vindex[r][DepOf[p]] \in Nat /\ idx[DepOf[p]] \in Nat
      BY <2>1 DEF TypeOK
    <2> QED
      BY <2>1, <2>2
  <1>2. Rep!Complete(p, last[r][p])
    <2>1. ASSUME NEW k \in Replicated(p), src[DepOf[p]][k] # 0, src[DepOf[p]][k] <= last[r][p]
          PROVE  Copies[p][k] = src[DepOf[p]][k]
      <3>1. pairs[r][p][k] = src[DepOf[p]][k]
        BY <1>1, <2>1, ListedIfCurrent
      <3>2. k \in Key /\ src[DepOf[p]][k] \in Nat
        BY <1>1 DEF TypeOK, Pairs, Replicated
      <3>3. dst[DestOf[p][k]] = ValueOf(DepOf[p], pairs[r][p][k])
        BY DEF RunnerInv, DeleteInv
      <3> QED
        BY <3>1, <3>2, <3>3, VersionOf, MappedIs
    <2> QED
      BY <2>1 DEF Rep!Complete
  <1>3. Marks' = [Marks EXCEPT ![p] = last[r][p]] /\ Copies' = Copies
    BY MappedCheckpoint DEF Copies
  <1>4. last[r][p] \in 0 .. idx[DepOf[p]]
    BY <1>1
  <1>5. Rep!Checkpoint(p)
    BY <1>2, <1>3, <1>4 DEF Rep!Checkpoint
  <1> QED
    BY <1>5 DEF Rep!Next

LEMMA DeleteCheckpointRefines ==
  ASSUME NEW r \in Runner, TypeOK, RunnerInv(r), NEW p \in Prefix, NEW s \in StatusKey,
         DeleteCheckpoint(r, p, s)
  PROVE  [Rep!Next]_(Rep!vars)
  <1>1. UNCHANGED <<src, idx, dst>> /\ status' = [status EXCEPT ![s] = 0] /\ Copies' = Copies
    BY DEF DeleteCheckpoint, sourceVars, Copies
  <1>2. CASE \A q \in Prefix : StatusOf[q] # s
    <2>1. Marks' = Marks
      BY <1>1, <1>2, OperatorTypes, MappedSame DEF TypeOK
    <2> QED
      BY <1>1, <2>1 DEF Rep!vars
  <1>3. ASSUME NEW q \in Prefix, StatusOf[q] = s PROVE [Rep!Next]_(Rep!vars)
    <2>1. Marks' = [Marks EXCEPT ![q] = 0]
      BY <1>1, <1>3, MappedCheckpoint
    <2>2. DepOf[q] \in Dep /\ idx[DepOf[q]] \in Nat /\ src[DepOf[q]] \in Pairs
      BY OperatorTypes DEF TypeOK
    <2>3. Rep!Complete(q, 0)
      BY <2>2 DEF Rep!Complete, Replicated, Pairs
    <2>4. 0 \in 0 .. idx[DepOf[q]]
      BY <2>2
    <2>5. Rep!Checkpoint(q)
      BY <1>1, <2>1, <2>3, <2>4 DEF Rep!Checkpoint
    <2> QED
      BY <2>5 DEF Rep!Next
  <1> QED
    BY <1>2, <1>3

LEMMA ChangeRefines ==
  ASSUME NEW r \in Runner, TypeOK, RunnerInv(r), NEW d \in Dep, NEW k \in Key, SourcePut(d, k) \/ SourceDelete(d, k)
  PROVE  [Rep!Next]_(Rep!vars)
  <1>1. Copies' = Copies /\ Marks' = Marks
    BY DEF SourcePut, SourceDelete, Copies, Marks
  <1>2. NextIndex(d) = idx[d] + 1
    BY NextIndexIs
  <1>3. /\ idx' = [idx EXCEPT ![d] = idx[d] + 1]
        /\ \E v \in {0, idx[d] + 1} : src' = [src EXCEPT ![d][k] = v]
    BY <1>2 DEF SourcePut, SourceDelete
  <1>4. Rep!Change(d, k)
    BY <1>1, <1>3 DEF Rep!Change
  <1> QED
    BY <1>4 DEF Rep!Next

LEMMA InitRefines == Init => Rep!Init
  <1> SUFFICES ASSUME Init PROVE Rep!Init
    OBVIOUS
  <1>1. ASSUME NEW p \in Prefix, NEW k \in Replicated(p) PROVE Version(p, k, dst) = 0
    <2>1. dst[DestOf[p][k]] = Absent
      BY DestinationsApart DEF Init
    <2> QED
      BY <2>1, ConstantsAssumption DEF Version
  <1>2. Copies = [p \in Prefix |-> [k \in Key |-> 0]]
    BY <1>1 DEF Copies
  <1>3. Marks = [p \in Prefix |-> 0]
    BY OperatorTypes DEF Init, Marks
  <1> QED
    BY <1>2, <1>3 DEF Init, NoPairs, Rep!Init

\* A goroutine of a runner that is alone, or the failure of one of its calls.
LEMMA GoroutineRefines ==
  ASSUME NEW r \in Runner, TypeOK, RunnerInv(r), Alone(r),
         NEW x \in Runner, NEW p \in Prefix, Step(x, p) \/ CallFails(x, p)
  PROVE  [Rep!Next]_(Rep!vars)
  <1>1. ASSUME UNCHANGED <<src, idx, dst, status>> PROVE [Rep!Next]_(Rep!vars)
    BY <1>1 DEF Rep!vars, Copies, Marks
  <1>2. CASE ~InPass(x, p)
    BY <1>1, <1>2, IdleStep DEF sourceVars
  <1>3. CASE InPass(x, p)
    <2>1. x = r
      BY <1>3 DEF Alone
    <2>2. CASE \E k \in Key : Put(r, p, k)
      BY <2>2, PutRefines
    <2>3. CASE \E dk \in DKey : Delete(r, p, dk)
      BY <2>3, DeleteRefines
    <2>4. CASE \E s \in StatusKey : DeleteCheckpoint(r, p, s)
      BY <2>4, DeleteCheckpointRefines
    <2>5. CASE SetStatus(r, p)
      BY <2>5, CheckpointRefines DEF SetStatus, sourceVars
    <2>6. CASE CheckDatacenter(r, p) \/ GetStatus(r, p) \/ NoData(r, p) \/ GetView(r, p) \/ ListKeys(r, p)
      BY <1>1, <2>6 DEF CheckDatacenter, GetStatus, NoData, GetView, ListKeys, sourceVars
    <2>7. CASE CallFails(r, p)
      <3>1. UNCHANGED <<src, idx, dst>>
        BY <2>7 DEF CallFails, sourceVars
      <3>2. CASE UNCHANGED status
        BY <1>1, <3>1, <3>2
      <3>3. CASE /\ pc[r][p] = "delete" /\ toDel[r][p] = {}
                 /\ status' = [status EXCEPT ![StatusOf[p]] = last[r][p]]
        BY <3>1, <3>3, CheckpointRefines
      <3> QED
        BY <2>7, <3>2, <3>3 DEF CallFails
    <2> QED
      BY <2>1, <2>2, <2>3, <2>4, <2>5, <2>6, <2>7 DEF Step
  <1> QED
    BY <1>2, <1>3

LEMMA EnvironmentRefines ==
  ASSUME NEW r \in Runner, TypeOK, RunnerInv(r), Environment
  PROVE  [Rep!Next]_(Rep!vars)
  <1>1. ASSUME NEW d \in Dep, NEW k \in Key, SourcePut(d, k) \/ SourceDelete(d, k)
        PROVE  [Rep!Next]_(Rep!vars)
    BY <1>1, ChangeRefines
  <1>2. ASSUME NEW d \in Dep, FollowerCatchUp(d) \/ SourceRestore(d) PROVE FALSE
    BY <1>2, SafeAssumption DEF FollowerCatchUp, FreshReads, SourceRestore, Steady
  <1>3. ASSUME NEW dk \in DKey, LocalPut(dk) PROVE [Rep!Next]_(Rep!vars)
    <2>1. \A p \in Prefix : \A k \in Replicated(p) : dst'[DestOf[p][k]] = dst[DestOf[p][k]]
      BY <1>3, DestinationsApart DEF LocalPut, TypeOK
    <2>2. Copies' = Copies /\ Marks' = Marks /\ UNCHANGED <<src, idx>>
      BY <1>3, <2>1, MappedSame DEF LocalPut, sourceVars
    <2> QED
      BY <2>2 DEF Rep!vars
  <1> QED
    BY <1>1, <1>2, <1>3 DEF Environment

LEMMA StepRefines ==
  ASSUME NEW r \in Runner, TypeOK, RunnerInv(r), Alone(r), [Next]_vars
  PROVE  [Rep!Next]_(Rep!vars)
  <1> USE DEF sourceVars, viewVars, passVars
  <1>1. ASSUME UNCHANGED <<src, idx, dst, status>> PROVE [Rep!Next]_(Rep!vars)
    BY <1>1 DEF Rep!vars, Copies, Marks
  <1>2. CASE Environment
    BY <1>2, EnvironmentRefines
  <1>3. ASSUME NEW x \in Runner, NEW p \in Prefix, Step(x, p) \/ CallFails(x, p)
        PROVE  [Rep!Next]_(Rep!vars)
    BY <1>3, GoroutineRefines
  <1>4. ASSUME NEW x \in Runner, Run(x) \/ ExitOnError(x) \/ Crash(x) PROVE [Rep!Next]_(Rep!vars)
    BY <1>1, <1>4 DEF Run, ExitOnError, Crash, Restarted
  <1>5. ASSUME NEW x \in Runner, NEW d \in Dep, Fetch(x, d) PROVE [Rep!Next]_(Rep!vars)
    BY <1>1, <1>5 DEF Fetch
  <1>6. CASE UNCHANGED vars
    BY <1>1, <1>6 DEF vars
  <1> QED
    BY <1>2, <1>3, <1>4, <1>5, <1>6 DEF Next

\* Every step of replicate (runner.go:268-417), interrupted or not, is one that
\* Replica allows: the passes implement versioned copies with a mark.
THEOREM Refinement == ASSUME OneRunner PROVE Spec => ImplementsReplica
  <1>1. PICK r \in Runner : Runner = {r}
    BY DEF OneRunner
  <1>2. TypeOK /\ IInv /\ [Next]_vars => [Rep!Next]_(Rep!vars)
    BY <1>1, StepRefines DEF IInv
  <1> QED
    BY <1>2, InitRefines, TypeCorrect, Invariant, PTL DEF Spec, ImplementsReplica, Rep!Spec
============================================================================

--------------------------- MODULE ReplicateSafe ---------------------------
(***************************************************************************)
(* The deployments in which every pass of Replicate is safe, and the       *)
(* invariant by which it is: queries are answered by the leader of a source*)
(* that is never rolled back, what one prefix replicates no other one      *)
(* writes or deletes, the checkpoints have keys of their own, and one      *)
(* runner at a time writes to the destination.                             *)
(***************************************************************************)
EXTENDS Replicate

\* max_stale = 0.
FreshReads == AllowStale = FALSE

\* No source is restored from an older state.
Steady == AllowRestore = FALSE

\* What a prefix replicates lands outside what every other one writes and
\* deletes, a prefix maps different keys to different destination keys, and the
\* checkpoints have different keys.  Destinations may be nested behind an
\* exclude, and the status directory may be below one.
Disjoint ==
  \A p, q \in Prefix : p # q =>
    /\ StatusOf[p] # StatusOf[q]
    /\ \A k \in Replicated(q) : DestOf[q][k] \notin Owned(p)

Injective == \A p \in Prefix : \A k, l \in Key : DestOf[p][k] = DestOf[p][l] => k = l

\* A key is excluded from the updates exactly if its destination is excluded
\* from the deletes, and other clients leave the replicated keys alone.
Separate ==
  /\ \A p \in Prefix : ExcludedLocal[p] \subseteq Under[p]
  /\ \A p \in Prefix, k \in Key : DestOf[p][k] \in ExcludedLocal[p] <=> k \in Excluded[p]
  /\ \A p \in Prefix, k \in Key : k \notin Excluded[p] => DestOf[p][k] \notin LocalKey

ASSUME SafeAssumption == FreshReads /\ Steady /\ Disjoint /\ Injective /\ Separate

\* One process that is never reloaded has one runner.
OneRunner == \E r \in Runner : Runner = {r}

\* The phases in which a worker knows the checkpoint it has read, and those in
\* which it holds a listing.
Reading(r, p) == pc[r][p] \in {"view", "put", "delete"}
InPass(r, p)  == pc[r][p] \in {"put", "delete"}

\* No other runner is about to write to the destination.
Alone(r) == \A s \in Runner \ {r}, p \in Prefix : ~InPass(s, p)

----------------------------------------------------------------------------
(* The inductive invariant: what holds of a runner that is alone.          *)

\* Listing x holds every key that listing y has at or below index i.
Upto(x, y, i) == \A k \in Key : y[k] # 0 /\ y[k] <= i => x[k] = y[k]

\* The checkpoints that decide what is skipped: the stored one, and the one a
\* pass has read, which may have been deleted from the store since.
Levels(r, p) == {status[StatusOf[p]]} \cup IF Reading(r, p) THEN {seen[r][p]} ELSE {}

\* The version of a key in a store, 0 if there is none.
Version(p, k, store) ==
  IF store[DestOf[p][k]] \in Entry THEN store[DestOf[p][k]].ver ELSE 0

\* A store agrees with listing x of index i for prefix p: no level is ahead of
\* the index, the store holds what is at or below a level and nothing that is
\* newer than the listing.
Sound(p, x, i, levels, store) ==
  /\ \A l \in levels : l <= i
  /\ \A k \in Replicated(p), l \in levels :
       x[k] # 0 /\ x[k] <= l => store[DestOf[p][k]] = ValueOf(DepOf[p], x[k])
  /\ \A k \in Replicated(p) :
       Version(p, k, store) <= i /\ (x[k] # 0 => Version(p, k, store) <= x[k])

\* What a worker has left to update, and the listing it updates from.
Pending(r, p) == Updates(p, pairs[r][p], seen[r][p])

\* No version is ahead of the source's index, and the destination agrees with
\* the source.
SourceInv(r) ==
  /\ \A d \in Dep : since[d] = 0
  /\ \A d \in Dep, k \in Key : src[d][k] <= idx[d]
  /\ \A p \in Prefix : Sound(p, src[DepOf[p]], idx[DepOf[p]], Levels(r, p), dst)

\* A replicated key is absent or a copy from the source of its prefix.
CopyInv ==
  \A p \in Prefix : \A k \in Replicated(p) :
    dst[DestOf[p][k]] = ValueOf(DepOf[p], Version(p, k, dst))

\* A received view holds the source as it was at its index.
ViewInv(r) ==
  \A d \in Dep :
    /\ vindex[r][d] <= idx[d]
    /\ d \in dataCh[r] \cup data[r] => d \in vrecv[r]
    /\ d \in vrecv[r] =>
         /\ \A k \in Key : vdata[r][d][k] <= vindex[r][d]
         /\ Upto(vdata[r][d], src[d], vindex[r][d])
         /\ \A p \in Prefix :
              DepOf[p] = d => Sound(p, vdata[r][d], vindex[r][d], Levels(r, p), dst)

\* Nobody moves the checkpoint that a worker has read forward.
SeenInv(r) == \A p \in Prefix : Reading(r, p) => status[StatusOf[p]] <= seen[r][p]

\* A worker's listing is the source as it was at the index it took with it.
ListingInv(r) ==
  \A p \in Prefix : InPass(r, p) =>
    /\ DepOf[p] \in vrecv[r]
    /\ last[r][p] <= vindex[r][DepOf[p]]
    /\ \A k \in Key : pairs[r][p][k] <= last[r][p]
    /\ Upto(pairs[r][p], src[DepOf[p]], last[r][p])
    /\ Upto(pairs[r][p], vdata[r][DepOf[p]], last[r][p])
    /\ Sound(p, pairs[r][p], last[r][p], Levels(r, p), dst)

\* What has left the update loop is at the destination.
PutInv(r) ==
  \A p \in Prefix : pc[r][p] = "put" =>
    /\ toPut[r][p] \subseteq Pending(r, p)
    /\ \A k \in Pending(r, p) \ toPut[r][p] :
         dst[DestOf[p][k]] = ValueOf(DepOf[p], pairs[r][p][k])

\* In the delete loop the destination differs from the listing only by keys
\* still to delete, and none of those is in use or excluded.
DeleteInv(r) ==
  \A p \in Prefix : pc[r][p] = "delete" =>
    /\ toDel[r][p] \cap DKey \subseteq Owned(p) \ UsedKeys(p, pairs[r][p])
    /\ \A k \in Replicated(p) :
         \/ dst[DestOf[p][k]] = ValueOf(DepOf[p], pairs[r][p][k])
         \/ DestOf[p][k] \in toDel[r][p]

RunnerInv(r) ==
  /\ SourceInv(r) /\ CopyInv /\ ViewInv(r) /\ SeenInv(r)
  /\ ListingInv(r) /\ PutInv(r) /\ DeleteInv(r)

\* One runner is always alone.
IInv == \A r \in Runner : Alone(r) /\ RunnerInv(r)

----------------------------------------------------------------------------
(* The refinement.                                                         *)

Copies == [p \in Prefix |-> [k \in Key |-> IF k \in Replicated(p) THEN Version(p, k, dst) ELSE 0]]
Marks  == [p \in Prefix |-> status[StatusOf[p]]]

Rep == INSTANCE Replica WITH Kept <- [p \in Prefix |-> Replicated(p)],
                             copy <- Copies, mark <- Marks

\* Passes, whatever interrupts them, do to the destination only what Replica
\* allows: a key never goes back to an older version, what is up to date is
\* neither overwritten nor deleted, and no checkpoint is stored (runner.go:407)
\* before everything at or below it has been replicated.
ImplementsReplica == Rep!Spec
============================================================================

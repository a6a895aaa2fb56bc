----------------------------- MODULE Replicate -----------------------------
(***************************************************************************)
(* Replication of key prefixes from source datacenters into the key-value  *)
(* store of the local datacenter: Runner.Run and Runner.replicate of       *)
(* runner.go, call by call, with what they read (the watched views, the    *)
(* checkpoint under the status directory) and what they write (the         *)
(* destination keys and the checkpoint).                                   *)
(*                                                                         *)
(* A value is identified by the ModifyIndex of the source write that made  *)
(* it; 0 is the index of a key that does not exist.  The steps of a pass   *)
(* are the remote calls of replicate: between any two of them the source   *)
(* may change, another goroutine may run, the call may fail or the process *)
(* may die.                                                                *)
(***************************************************************************)
EXTENDS Naturals

CONSTANTS
  Runner,         \* runners that write to the destination
  Prefix,         \* the configured prefixes
  PrefixOf,       \* [Runner -> SUBSET Prefix]: those of each runner's configuration
  Dep,            \* watched queries (source prefix and datacenter)
  Key,            \* keys below a source prefix
  DKey,           \* keys of the destination store outside the status directory
  StatusKey,      \* keys of the status directory
  DepOf,          \* [Prefix -> Dep]: prefix.Dependency
  DestOf,         \* [Prefix -> [Key -> DKey]]: the key a source key is written to
  Under,          \* [Prefix -> SUBSET DKey]: the keys that begin with prefix.Destination
  Excluded,       \* [Prefix -> SUBSET Key]: source keys below an exclude
  ExcludedLocal,  \* [Prefix -> SUBSET DKey]: local keys whose sourceKey is below an exclude
  StatusOf,       \* [Prefix -> StatusKey]: statusPath
  StatusUnder,    \* [Prefix -> SUBSET StatusKey]: those that the delete loop meets, because
                  \* status_dir is below prefix.Destination and not below an exclude
  MaySelf,        \* prefixes whose datacenter may turn out to be the agent's own
  LocalKey,       \* destination keys that other clients write
  AllowStale,     \* whether max_stale is positive
  AllowRestore,   \* whether a source may be restored from an older state
  MaxIndex,       \* bound: the last index of a source
  MaxFault,       \* bound: failed calls and crashes
  Absent, Local   \* values of a destination key: none, written by another client

Pairs   == [Key -> Nat]               \* a listing: ModifyIndex of each key, 0 if absent
NoPairs == [k \in Key |-> 0]
Entry   == [dep : Dep, ver : Nat]
Value   == Entry \cup {Absent, Local}
\* Phases of a goroutine running replicate.
Phase   == {"done", "self", "status", "view", "put", "delete", "failed"}

ASSUME ConstantsAssumption ==
  /\ PrefixOf \in [Runner -> SUBSET Prefix]
  /\ DepOf \in [Prefix -> Dep]
  /\ DestOf \in [Prefix -> [Key -> DKey]]
  /\ Under \in [Prefix -> SUBSET DKey]
  /\ Excluded \in [Prefix -> SUBSET Key]
  /\ ExcludedLocal \in [Prefix -> SUBSET DKey]
  /\ StatusOf \in [Prefix -> StatusKey]
  /\ \A p \in Prefix, k \in Key : DestOf[p][k] \in Under[p]
  /\ StatusUnder \in [Prefix -> SUBSET StatusKey] /\ StatusKey \cap DKey = {}
  /\ MaySelf \subseteq Prefix
  /\ LocalKey \subseteq DKey
  /\ AllowStale \in BOOLEAN /\ AllowRestore \in BOOLEAN
  /\ MaxIndex \in Nat /\ MaxFault \in Nat
  /\ Absent # Local /\ Absent \notin Entry /\ Local \notin Entry

VARIABLES
  self,           \* the prefixes whose datacenter is the agent's own
  src, idx,       \* the source: leader's listing of each query and its index
  since,          \* the last index before the source was restored, 0 if it was not
  fsrc, fidx,     \* the same as answered by a follower that may lag
  vdata, vindex,  \* each view's data and lastIndex
  vrecv,          \* the views of each runner with receivedData
  dataCh,         \* views delivered by the watcher and not received yet
  data,           \* Runner.data: the views received
  pc,             \* phase of each worker
  seen,           \* status.LastReplicated as the worker read it
  pairs, last,    \* the data and lastIndex the worker took from the view
  toPut, toDel,   \* keys left in the update loop and in the delete loop
  dst, status,    \* the destination store: replicated keys and checkpoints
  faults          \* failed calls and crashes so far

sourceVars == <<self, src, idx, since, fsrc, fidx>>
viewVars   == <<vdata, vindex, vrecv, dataCh, data>>
passVars   == <<seen, pairs, last, toPut, toDel>>
vars == <<sourceVars, viewVars, pc, passVars, dst, status, faults>>

Init ==
  /\ self \in SUBSET MaySelf
  /\ src = [d \in Dep |-> NoPairs] /\ idx = [d \in Dep |-> 1]
  /\ since = [d \in Dep |-> 0]
  /\ fsrc = src /\ fidx = idx
  /\ vdata = [r \in Runner |-> [d \in Dep |-> NoPairs]]
  /\ vindex = [r \in Runner |-> [d \in Dep |-> 0]]
  /\ vrecv = [r \in Runner |-> {}]
  /\ dataCh = [r \in Runner |-> {}] /\ data = [r \in Runner |-> {}]
  /\ pc = [r \in Runner |-> [p \in Prefix |-> "done"]]
  /\ seen = [r \in Runner |-> [p \in Prefix |-> 0]] /\ last = seen
  /\ pairs = [r \in Runner |-> [p \in Prefix |-> NoPairs]]
  /\ toPut = [r \in Runner |-> [p \in Prefix |-> {}]] /\ toDel = toPut
  /\ dst = [dk \in DKey |-> Absent]
  /\ status = [s \in StatusKey |-> 0]
  /\ faults = 0

----------------------------------------------------------------------------
(* The source datacenters and the other clients of the destination.        *)

\* The index of the next write: the log goes on where it was before a restore.
NextIndex(d) == (IF since[d] > idx[d] THEN since[d] ELSE idx[d]) + 1

\* A client writes key k of the source.
SourcePut(d, k) ==
  /\ NextIndex(d) <= MaxIndex
  /\ idx' = [idx EXCEPT ![d] = NextIndex(d)]
  /\ src' = [src EXCEPT ![d][k] = NextIndex(d)]
  /\ UNCHANGED <<self, since, fsrc, fidx, viewVars, pc, passVars, dst, status, faults>>

\* A client deletes key k of the source: the tombstone carries the new index.
SourceDelete(d, k) ==
  /\ NextIndex(d) <= MaxIndex
  /\ src[d][k] # 0
  /\ idx' = [idx EXCEPT ![d] = NextIndex(d)]
  /\ src' = [src EXCEPT ![d][k] = 0]
  /\ UNCHANGED <<self, since, fsrc, fidx, viewVars, pc, passVars, dst, status, faults>>

\* The source is restored, once, from an older state: the keys and their
\* ModifyIndexes go back, and the index that queries are answered with.
SourceRestore(d) ==
  /\ AllowRestore
  /\ since[d] = 0 /\ fidx[d] < idx[d]
  /\ since' = [since EXCEPT ![d] = idx[d]]
  /\ src' = [src EXCEPT ![d] = fsrc[d]]
  /\ idx' = [idx EXCEPT ![d] = fidx[d]]
  /\ UNCHANGED <<self, fsrc, fidx, viewVars, pc, passVars, dst, status, faults>>

\* A follower of the source datacenter applies the leader's log.
FollowerCatchUp(d) ==
  /\ AllowStale
  /\ fidx[d] # idx[d]
  /\ fsrc' = [fsrc EXCEPT ![d] = src[d]]
  /\ fidx' = [fidx EXCEPT ![d] = idx[d]]
  /\ UNCHANGED <<self, src, idx, since, viewVars, pc, passVars, dst, status, faults>>

\* Another client writes a key of the destination datacenter.
LocalPut(dk) ==
  /\ dk \in LocalKey
  /\ dst[dk] # Local
  /\ dst' = [dst EXCEPT ![dk] = Local]
  /\ UNCHANGED <<sourceVars, viewVars, pc, passVars, status, faults>>

----------------------------------------------------------------------------
(* The watcher: one view per query polls the source.                       *)

\* What a query may be answered: the leader's state or, if stale queries are
\* allowed, a follower's.
Answers(d) ==
  {[data |-> src[d], index |-> idx[d]]}
    \cup IF AllowStale THEN {[data |-> fsrc[d], index |-> fidx[d]]} ELSE {}

\* An answer with a lower index resets the view's index.
IndexWentBack(r, d, a) ==
  /\ a.index < vindex[r][d]
  /\ vindex' = [vindex EXCEPT ![r][d] = 0]
  /\ UNCHANGED <<vdata, vrecv, dataCh>>

\* One with the same contents only advances it.
SameContents(r, d, a) ==
  /\ a.index > vindex[r][d]
  /\ d \in vrecv[r] /\ vdata[r][d] = a.data
  /\ vindex' = [vindex EXCEPT ![r][d] = a.index]
  /\ UNCHANGED <<vdata, vrecv, dataCh>>

\* New contents are delivered to the runner.
NewContents(r, d, a) ==
  /\ a.index > vindex[r][d]
  /\ d \notin vrecv[r] \/ vdata[r][d] # a.data
  /\ vindex' = [vindex EXCEPT ![r][d] = a.index]
  /\ vdata' = [vdata EXCEPT ![r][d] = a.data]
  /\ vrecv' = [vrecv EXCEPT ![r] = @ \cup {d}]
  /\ dataCh' = [dataCh EXCEPT ![r] = @ \cup {d}]

\* A poll of a source that a prefix of the runner has; an answer with the same index changes nothing.
Fetch(r, d) ==
  /\ \E p \in PrefixOf[r] : DepOf[p] = d
  /\ \E a \in Answers(d) :
       IndexWentBack(r, d, a) \/ SameContents(r, d, a) \/ NewContents(r, d, a)
  /\ UNCHANGED <<sourceVars, data, pc, passVars, dst, status, faults>>

----------------------------------------------------------------------------
(* Runner.Run and Runner.replicate.                                        *)

\* The event loop receives every delivered view and runs a pass: one
\* replicate goroutine per prefix, none of the previous pass still running.
Run(r) ==
  /\ dataCh[r] # {}
  /\ \A p \in Prefix : pc[r][p] = "done"
  /\ data' = [data EXCEPT ![r] = @ \cup dataCh[r]]
  /\ dataCh' = [dataCh EXCEPT ![r] = {}]
  /\ pc' = [pc EXCEPT ![r] = [p \in Prefix |-> IF p \in PrefixOf[r] THEN "self" ELSE "done"]]
  /\ UNCHANGED <<sourceVars, vdata, vindex, vrecv, passVars, dst, status, faults>>

\* Mutant: the destination's own datacenter is not refused.
CheckDatacenterNever(r, p) ==
  /\ pc[r][p] = "self"
  /\ pc' = [pc EXCEPT ![r][p] = "status"]
  /\ UNCHANGED <<sourceVars, viewVars, passVars, dst, status, faults>>

\* Ask the agent for its datacenter and refuse to replicate it into itself.
CheckDatacenter(r, p) ==
  /\ pc[r][p] = "self"
  /\ pc' = [pc EXCEPT ![r][p] = IF p \in self THEN "failed" ELSE "status"]
  /\ UNCHANGED <<sourceVars, viewVars, passVars, dst, status, faults>>

\* Mutant: a prefix without a checkpoint reads none instead of index 0.
GetStatusMissing(r, p) ==
  /\ pc[r][p] = "status"
  /\ seen' = [seen EXCEPT ![r][p] = IF status[StatusOf[p]] = 0 THEN Absent ELSE status[StatusOf[p]]]
  /\ pc' = [pc EXCEPT ![r][p] = "view"]
  /\ UNCHANGED <<sourceVars, viewVars, pairs, last, toPut, toDel, dst, status, faults>>

\* getStatus: a prefix without a checkpoint starts from index 0.
GetStatus(r, p) ==
  /\ pc[r][p] = "status"
  /\ seen' = [seen EXCEPT ![r][p] = status[StatusOf[p]]]
  /\ pc' = [pc EXCEPT ![r][p] = "view"]
  /\ UNCHANGED <<sourceVars, viewVars, pairs, last, toPut, toDel, dst, status, faults>>

\* Mutant: the first index after the checkpoint counts as replicated.
UpdatesLate(p, listing, checkpoint) ==
  {k \in Key : listing[k] # 0 /\ k \notin Excluded[p] /\ listing[k] > checkpoint + 1}

\* Mutant: the excludes are not looked at.
UpdatesAll(p, listing, checkpoint) ==
  {k \in Key : listing[k] # 0 /\ listing[k] > checkpoint}

\* The keys of a listing that the update loop writes: those outside the
\* excludes that changed after the checkpoint.
Updates(p, listing, checkpoint) ==
  {k \in Key : listing[k] # 0 /\ k \notin Excluded[p] /\ listing[k] > checkpoint}

\* A prefix whose view was not received yet is left for a later pass.
NoData(r, p) ==
  /\ pc[r][p] = "view"
  /\ DepOf[p] \notin data[r]
  /\ pc' = [pc EXCEPT ![r][p] = "done"]
  /\ UNCHANGED <<sourceVars, viewVars, passVars, dst, status, faults>>

\* Take the data and the index of the view together.
GetView(r, p) ==
  LET d == DepOf[p] IN
  /\ pc[r][p] = "view"
  /\ d \in data[r]
  /\ pairs' = [pairs EXCEPT ![r][p] = vdata[r][d]]
  /\ last' = [last EXCEPT ![r][p] = vindex[r][d]]
  /\ toPut' = [toPut EXCEPT ![r][p] = Updates(p, vdata[r][d], seen[r][p])]
  /\ pc' = [pc EXCEPT ![r][p] = "put"]
  /\ UNCHANGED <<sourceVars, viewVars, seen, toDel, dst, status, faults>>

\* One iteration of the update loop: kv.Put.
Put(r, p, k) ==
  /\ pc[r][p] = "put"
  /\ k \in toPut[r][p]
  /\ dst' = [dst EXCEPT ![DestOf[p][k]] = [dep |-> DepOf[p], ver |-> pairs[r][p][k]]]
  /\ toPut' = [toPut EXCEPT ![r][p] = @ \ {k}]
  /\ UNCHANGED <<sourceVars, viewVars, pc, seen, pairs, last, toDel, status, faults>>

\* usedKeys: the destination of every listed key, excluded and skipped ones too.
UsedKeys(p, listing) == {DestOf[p][k] : k \in {x \in Key : listing[x] # 0}}

\* Mutant: keys skipped as already replicated are not recorded as used.
DeletesSkipped(p, listing, store) ==
  {dk \in Under[p] : /\ store[dk] # Absent
                     /\ dk \notin {DestOf[p][k] : k \in Updates(p, listing, status[StatusOf[p]])}
                     /\ dk \notin ExcludedLocal[p]}

\* Mutant: the delete loop does not look at the excludes.
DeletesExcluded(p, listing, store) ==
  {dk \in Under[p] : store[dk] # Absent /\ dk \notin UsedKeys(p, listing)}

\* The local keys the delete loop removes.
Deletes(p, listing, store) ==
  {dk \in Under[p] : /\ store[dk] # Absent
                     /\ dk \notin UsedKeys(p, listing)
                     /\ dk \notin ExcludedLocal[p]}

\* The checkpoints it removes: none of them is the destination of a listed key.
StaleCheckpoints(p) == {s \in StatusUnder[p] : status[s] # 0}

\* kv.Keys lists the destination prefix once the update loop is over.
ListKeys(r, p) ==
  /\ pc[r][p] = "put"
  /\ toPut[r][p] = {}
  /\ toDel' = [toDel EXCEPT ![r][p] = Deletes(p, pairs[r][p], dst) \cup StaleCheckpoints(p)]
  /\ pc' = [pc EXCEPT ![r][p] = "delete"]
  /\ UNCHANGED <<sourceVars, viewVars, seen, pairs, last, toPut, dst, status, faults>>

\* One iteration of the delete loop: kv.Delete.
Delete(r, p, dk) ==
  /\ pc[r][p] = "delete"
  /\ dk \in toDel[r][p]
  /\ dst' = [dst EXCEPT ![dk] = Absent]
  /\ toDel' = [toDel EXCEPT ![r][p] = @ \ {dk}]
  /\ UNCHANGED <<sourceVars, viewVars, pc, seen, pairs, last, toPut, status, faults>>

\* The same iteration for a key of the status directory.
DeleteCheckpoint(r, p, s) ==
  /\ pc[r][p] = "delete"
  /\ s \in toDel[r][p]
  /\ status' = [status EXCEPT ![s] = 0]
  /\ toDel' = [toDel EXCEPT ![r][p] = @ \ {s}]
  /\ UNCHANGED <<sourceVars, viewVars, pc, seen, pairs, last, toPut, dst, faults>>

\* Mutant: the checkpoint is the index the view has by now.
SetStatusCurrent(r, p) ==
  /\ pc[r][p] = "delete"
  /\ toDel[r][p] = {}
  /\ status' = [status EXCEPT ![StatusOf[p]] = vindex[r][DepOf[p]]]
  /\ pc' = [pc EXCEPT ![r][p] = "done"]
  /\ UNCHANGED <<sourceVars, viewVars, passVars, dst, faults>>

\* Mutant: the checkpoint never goes back, even if the listing did.
SetStatusMax(r, p) ==
  /\ pc[r][p] = "delete"
  /\ toDel[r][p] = {}
  /\ status' = [status EXCEPT ![StatusOf[p]] = IF last[r][p] > @ THEN last[r][p] ELSE @]
  /\ pc' = [pc EXCEPT ![r][p] = "done"]
  /\ UNCHANGED <<sourceVars, viewVars, passVars, dst, faults>>

\* setStatus: checkpoint the index of the listing that was replicated.
SetStatus(r, p) ==
  /\ pc[r][p] = "delete"
  /\ toDel[r][p] = {}
  /\ status' = [status EXCEPT ![StatusOf[p]] = last[r][p]]
  /\ pc' = [pc EXCEPT ![r][p] = "done"]
  /\ UNCHANGED <<sourceVars, viewVars, passVars, dst, faults>>

----------------------------------------------------------------------------
(* Failures.                                                               *)

\* Any remote call may fail, and so may the conversion of a view's data:
\* replicate returns the error at once and leaves what it has written so far.
\* The write of a failed call may have been applied all the same: a Put or a
\* Delete followed by CallFails, or a checkpoint that is stored although
\* setStatus reports an error.
CallFails(r, p) ==
  /\ faults < MaxFault
  /\ pc[r][p] \notin {"done", "failed"}
  /\ pc[r][p] = "view" => DepOf[p] \in data[r]
  /\ \/ UNCHANGED status
     \/ /\ pc[r][p] = "delete"
        /\ toDel[r][p] = {}
        /\ status' = [status EXCEPT ![StatusOf[p]] = last[r][p]]
  /\ pc' = [pc EXCEPT ![r][p] = "failed"]
  /\ faults' = faults + 1
  /\ UNCHANGED <<sourceVars, viewVars, passVars, dst>>

\* A new process: nothing survives but the two stores.
Restarted(r) ==
  /\ vdata' = [vdata EXCEPT ![r] = [d \in Dep |-> NoPairs]]
  /\ vindex' = [vindex EXCEPT ![r] = [d \in Dep |-> 0]]
  /\ vrecv' = [vrecv EXCEPT ![r] = {}]
  /\ dataCh' = [dataCh EXCEPT ![r] = {}]
  /\ data' = [data EXCEPT ![r] = {}]
  /\ pc' = [pc EXCEPT ![r] = [p \in Prefix |-> "done"]]
  /\ UNCHANGED <<sourceVars, passVars, dst, status>>

\* Run returns the errors of its goroutines when all have ended; the process
\* then exits and is started again by its supervisor.
ExitOnError(r) ==
  /\ \A p \in Prefix : pc[r][p] \in {"done", "failed"}
  /\ \E p \in Prefix : pc[r][p] = "failed"
  /\ Restarted(r)
  /\ UNCHANGED faults

\* The process is killed at any point and started again.
Crash(r) ==
  /\ faults < MaxFault
  /\ Restarted(r)
  /\ faults' = faults + 1

----------------------------------------------------------------------------

Environment ==
  \/ \E d \in Dep, k \in Key : SourcePut(d, k) \/ SourceDelete(d, k)
  \/ \E d \in Dep : FollowerCatchUp(d) \/ SourceRestore(d)
  \/ \E dk \in DKey : LocalPut(dk)

\* The steps of one replicate goroutine.
Step(r, p) ==
  \/ CheckDatacenter(r, p)
  \/ GetStatus(r, p)
  \/ NoData(r, p)
  \/ GetView(r, p)
  \/ \E k \in Key : Put(r, p, k)
  \/ ListKeys(r, p)
  \/ \E dk \in DKey : Delete(r, p, dk)
  \/ \E s \in StatusKey : DeleteCheckpoint(r, p, s)
  \/ SetStatus(r, p)

Next ==
  \/ Environment
  \/ \E r \in Runner : \/ \E d \in Dep : Fetch(r, d)
                       \/ Run(r)
                       \/ \E p \in Prefix : Step(r, p) \/ CallFails(r, p)
                       \/ ExitOnError(r)
                       \/ Crash(r)

Spec == Init /\ [][Next]_vars

\* The views keep polling, the event loop and every goroutine keep running, a
\* failed process is restarted and followers catch up; clients need not write
\* and nothing needs to fail.
Fairness ==
  /\ \A d \in Dep : WF_vars(FollowerCatchUp(d))
  /\ \A r \in Runner :
       /\ \A d \in Dep : WF_vars(Fetch(r, d))
       /\ WF_vars(Run(r)) /\ WF_vars(ExitOnError(r))
       /\ \A p \in Prefix : WF_vars(Step(r, p))

FairSpec == Spec /\ Fairness

----------------------------------------------------------------------------
(* Properties.                                                             *)

\* What the destination holds for a source key listed at version v.
ValueOf(d, v) == IF v = 0 THEN Absent ELSE [dep |-> d, ver |-> v]

\* The keys a prefix replicates.
Replicated(p) == Key \ Excluded[p]

\* The keys below its destination that a prefix writes and deletes.
Owned(p) == Under[p] \ ExcludedLocal[p]

TypeOK ==
  /\ self \subseteq Prefix
  /\ src \in [Dep -> Pairs] /\ idx \in [Dep -> Nat] /\ since \in [Dep -> Nat]
  /\ fsrc \in [Dep -> Pairs] /\ fidx \in [Dep -> Nat]
  /\ vdata \in [Runner -> [Dep -> Pairs]]
  /\ vindex \in [Runner -> [Dep -> Nat]]
  /\ vrecv \in [Runner -> SUBSET Dep]
  /\ dataCh \in [Runner -> SUBSET Dep] /\ data \in [Runner -> SUBSET Dep]
  /\ pc \in [Runner -> [Prefix -> Phase]]
  /\ seen \in [Runner -> [Prefix -> Nat]] /\ last \in [Runner -> [Prefix -> Nat]]
  /\ pairs \in [Runner -> [Prefix -> Pairs]]
  /\ toPut \in [Runner -> [Prefix -> SUBSET Key]]
  /\ toDel \in [Runner -> [Prefix -> SUBSET (DKey \cup StatusKey)]]
  /\ dst \in [DKey -> Value]
  /\ status \in [StatusKey -> Nat]
  /\ faults \in Nat

\* A listing agrees with the destination on every key that is at or below
\* the checkpoint.
Covers(p, listing) ==
  \A k \in Replicated(p) :
    listing[k] # 0 /\ listing[k] <= status[StatusOf[p]]
      => dst[DestOf[p][k]] = ValueOf(DepOf[p], listing[k])

\* replicate never again writes a key whose ModifyIndex is at or below
\* LastReplicated (runner.go:334), so the destination must already hold every
\* such key, at every instant: a key skipped and missing would stay missing.
CheckpointCovers == \A p \in Prefix : Covers(p, src[DepOf[p]])

\* When the pass is about to checkpoint the listing's index, the destination
\* holds exactly the listing: what was skipped as already replicated, what was
\* put and what was deleted together.
CheckpointExact ==
  \A r \in Runner, p \in Prefix :
    pc[r][p] = "delete" /\ toDel[r][p] = {}
      => \A k \in Replicated(p) :
           dst[DestOf[p][k]] = ValueOf(DepOf[p], pairs[r][p][k])

\* What another client keeps below an excluded part of the destination is
\* neither overwritten nor deleted, unless a second prefix is replicated there.
ExcludedUntouched ==
  [][\A p \in Prefix : \A dk \in ExcludedLocal[p] \ UNION {Owned(q) : q \in Prefix} :
       dst[dk] = Local => dst'[dk] = Local]_vars

\* A prefix whose source is the local datacenter writes and deletes nothing:
\* below its destination only the other prefixes and clients do.
NoSelfReplication ==
  [][\A p \in self : \A dk \in Under[p] \ UNION {Owned(q) : q \in Prefix \ self} :
       dst'[dk] # dst[dk] => dst'[dk] = Local]_vars

\* The destination holds every replicated key of a prefix, and no deleted one.
\* A key that was rolled back with a restored source and not written since
\* counts as replicated already (runner.go:334).
ConvergedFor(p) ==
  \A k \in Replicated(p) :
    LET v == src[DepOf[p]][k] IN
    v = 0 \/ v > since[DepOf[p]] \/ since[DepOf[p]] = 0 =>
      dst[DestOf[p][k]] = ValueOf(DepOf[p], v)

Converged == \A p \in Prefix : ConvergedFor(p)

\* Once the sources stop changing and calls stop failing, the destination
\* converges.  With a prefix of the local datacenter every pass fails, and the
\* process that is started again may never get as far as the others.
Convergence == self = {} => <>[]Converged

\* A pass works with a listing that is older than the checkpoint: a follower
\* has answered, or the source was restored.
Behind ==
  \E r \in Runner, p \in Prefix :
    pc[r][p] \in {"put", "delete"} /\ last[r][p] < status[StatusOf[p]]

\* Neither failures and crashes alone nor old listings alone keep the
\* destination from converging: what a pass with an old listing takes away
\* (runner.go:392), its checkpoint lets a later pass write again.
Resilience == Convergence \/ (<>Behind /\ <>(faults > 0))
============================================================================

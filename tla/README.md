# Consul Replicate in TLA+

Specifications of consul-replicate, the daemon that copies key prefixes of the
Consul key-value store from other datacenters into the local one. They are
written from `runner.go`, `cli.go`, `config*.go`, `mapstructure.go` and
`flags.go`; line numbers below refer to those files. TLC checks them on small
instances, TLAPS proves some of the properties for every instance.

## The system

| Component | State | Operations |
| --- | --- | --- |
| Process, `CLI.Run` (cli.go:66-173) | current runner, configuration in use, the configuration of the flags, a signal channel of one place | load the configuration, create and start a runner, wait for its error, its end or a signal; reload, kill |
| Runner event loop, `Runner.Start`, `Stop`, `Receive` (runner.go:92-196) | `data` (views received), `minTimer`, `maxTimer`, `ErrCh`, `DoneCh`, the PID file | add the queries to the watcher, once loop, receive views, set timers, run a pass, end |
| A pass, `Run` and `replicate` (runner.go:198-417) | one goroutine per prefix: checkpoint read, listing and its index, keys left in two loops | ask the agent for its datacenter, read the checkpoint, take the view, put the updated keys, list and delete, store the checkpoint |
| Checkpoints, `getStatus`, `setStatus`, `statusPath` (runner.go:419-458) | `LastReplicated` of each status path, in the destination store | get, put |
| Key mapping and excludes (runner.go:309-331, 377-390) | none | source key to destination key, and back |
| Configuration (config\*.go, mapstructure.go, flags.go, cli.go:175-490) | files, flags, the finalized result | parse, merge, finalize |
| Watcher (consul-template, not in the repository) | per query: data, last index, whether data was received; `DataCh`, `ErrCh` | poll, deliver, retry, stop |
| Consul (not in the repository) | per source: keys and index, at the leader and at followers; the destination's keys | put, delete, list, get, restore |

The process starts one runner after the other; each runner has a watcher with
one polling goroutine per query. Delivered views reach the event loop through
a channel, the loop starts a pass and waits for all its goroutines. Goroutines
of a pass share nothing but the stores, which they also share with the passes
of other runners, with other clients of Consul and with the processes before
and after a crash. The runner talks to the process through two unbuffered
channels; `Stop` talks back by closing one of them.

What is hard here:

- a pass is a sequence of remote calls, any of which may fail, and is followed
  by a checkpoint that later passes trust without looking: `ModifyIndex <=
  LastReplicated` (runner.go:334) means "never write this key again";
- the view moves on while a pass works with the listing it took, and with stale
  queries, or after a restore of the source, it may move back;
- checkpoints are keys of the same store, named by source and destination only:
  they can be deleted by a pass, shared by two prefixes, or belong to an
  earlier configuration;
- `Stop` waits for nobody, so a reload makes two runners that write;
- once mode counts views, not prefixes that have one;
- a signal channel of one place receives every signal;
- the key mapping is done by string operations that are inverse to each other
  only for some prefixes;
- defaults, files and flags are merged more than once, and the lists that are
  merged share their elements.

Correctness of each component:

- pass: a checkpoint never covers a key that is missing; the destination ends
  up equal to the source, except for keys that a restore of the source has
  rolled back and nobody has written since; values do not go backwards; what is
  excluded is left alone; the local datacenter is never its own source;
- event loop: passes do not overlap, what is delivered is replicated, a failed
  prefix is replicated later or its runner ends, once mode ends and is complete
  when it succeeds;
- process: signals are served, nothing writes after a stop, the PID file is
  there while a runner runs and gone afterwards;
- key mapping: what a pass leaves below the destination is the renamed listing
  and the excluded local keys, nothing else;
- configuration: the documented precedence, reloads that change nothing when
  nothing has changed, and never a watched prefix with an empty destination.

`PROJECT.json` lists the components with their status, the places in the code
where something can go wrong unnoticed (hazards), and the properties that
watch each of them.

## Modules

**Replica** is the abstract specification: each prefix has a copy of some keys of
a source, as versions, and a mark. A copy that is out of date moves to a newer
version or is taken away, an up-to-date one is left alone, and the mark is set
only to a version up to which the copy is complete. There are no passes, views,
calls or failures in it.

**Replicate** models the passes against the two stores. A value is named by the
ModifyIndex of the source write that made it, which is all the code looks at.
`src`, `idx` are the source as its leader has it, `fsrc`, `fidx` as a follower
does; `since` is the index from which a restored source goes on; `vdata`,
`vindex`, `vrecv`, `dataCh` are the views of each runner; `data` is
`Runner.data`. The variables of a goroutine are indexed by runner and prefix:
`pc` says which call comes next, `seen` is `status.LastReplicated`, `pairs` and
`last` what `DataAndLastIndex` gave, `toPut` and `toDel` the keys left in the two
loops. `dst` and `status` are the destination: the status directory has keys of
its own (`StatusKey`), and `StatusUnder` says which of them the delete loop of a
prefix meets. `self` is the set of prefixes whose datacenter is the agent's own.
Each remote call is a step: `CheckDatacenter`, `GetStatus`, `NoData` or
`GetView`, `Put` per key, `ListKeys`, `Delete` or `DeleteCheckpoint` per key,
`SetStatus`. The order of keys within a loop is left open. `CallFails` is an
error of any of these calls, with or without its effect, or of the conversion
of the view (runner.go:302); `Crash` a kill at any
step; `ExitOnError` the exit that follows an error, and the restart by a
supervisor. Prefix strings are taken as constants: `DestOf`, `Under`,
`Excluded`, `ExcludedLocal` and `StatusOf` say where keys and checkpoints go,
and `PrefixOf` which prefixes a runner is configured with.

**ReplicateSafe** names the deployments for which the safety properties hold
(`SafeAssumption`): `FreshReads` (max_stale is 0), `Steady` (no source is
restored), `Disjoint` (what one prefix replicates no other one writes or
deletes, and checkpoints have different paths), `Injective` and `Separate`
(excludes agree in both directions, other clients leave replicated keys alone).
Destinations may be nested behind an exclude, and the status directory may be
below one. The inductive invariant is stated for each runner (`RunnerInv`); it
holds as long as no other one is about to write (`Alone`), which a process
that is never reloaded has for granted (`OneRunner`). The module also has the
refinement mapping to Replica: the copy is the version the destination holds of
each replicated key, the mark is the checkpoint. Each assumption is needed: `ReloadInFlight`, `StaleCrash`,
`SharedStatus`, `NestedBare` and `ExcludeRemoved` below show what happens without.

**ReplicateReload** composes two runners of Replicate with the reload of
cli.go:133-154: the old one is stopped, the new one started, and the
goroutines and the event loop of the old one go on. The configuration may
change with the reload; a prefix that changes is another prefix, which has the
status path of the old one if source and destination stay. A failed call of the
current runner (`Exit`) or a kill (`Killed`) ends the goroutines of both runners,
and the process that is started again has the old or the new configuration; a
failed call of a stopped runner blocks it on its ErrCh. A runner that is stopped
before it has added its queries adds them all the same, and its watcher polls
(stage "late"). The auxiliary variable `quiet` is true as long as no pass of an old
runner has gone on or begun after the stop; it guards nothing.

**Lifecycle** models the process and its runners: where `CLI.Run` is (`cli`, from
the start of the first runner on, before `signal.Notify`), where `Start` of
each runner is (`loop`), the channels, the timers, the PID file, and what each
replicate goroutine has come to (`pass`). A step ends at a blocking operation or
at an effect that another goroutine sees; `Stop` is three steps (watcher, PID
file, close). Runners are numbered in the order of creation. A runner blocked
in `ErrCh <-` or `DoneCh <-` is one whose `loop` is "sendErr" or "sendDone"; only
the current runner has a receiver. A reload may change whether the timers are
used, so `Quiesce` is the set of runners that use them; `-once` is a flag and
the same for all. A reload or kill signal before `Listen` has its default
effect, the exit "signal". After `r.ErrCh <- err` the event loop goes on to a pass
(runner.go:158, 163); the model leaves the runner there, because the process
exits with an error it has received, and a stopped runner is blocked for good.

**KeyMapping** models one pass with keys as sequences of characters: renaming
by trimming the source, mapping back by replacing every occurrence of the
destination, and the exclude test in both loops with any set of excludes, the
empty one included.

**Config** models how the configuration of a runner comes about: the paths of
`-config`, files and directories of them, what a file may say (settings, old
keys, prefixes and excludes as strings or stanzas, whole or in part), what the
flags say, `DefaultConfig`, `Merge`, `Finalize`, and the exits of every failure
and of `-h`. Six settings stand for all, one for each way they are treated: `maxStale` and
`logLevel` have no value before `Finalize` (and an unknown log level is refused
by `setup`), `statusDir` has one in `DefaultConfig` already, `token` has an old
key that replaces it, `attempts` and `backoff` one that replaces both. Files may be
written or removed while the process runs; a reload reads them again.
A file that is not in its directory adds nothing to what is merged (`FromFile`).
`cliConfig` is a variable because each load finalizes the elements of its lists.

**MC...** modules hold the small instances; **MCReplicateQuiet** adds to the
reloads of MCReplicateReload the assumptions of ReplicateSafe, for TLC to
evaluate. **ReplicateProofs** (any deployment), **ReplicateSafeProofs** (safe ones),
**ReplicateReloadProofs**, **ReplicaProofs**, **LifecycleProofs**, **KeyMappingProofs**
and **ConfigProofs** hold the proofs, **Minimum** the induction they share. The
definitions marked "Mutant" in the modules are what the code would be with a
plausible bug; each is named in `PROJECT.json` with the property that detects
it.

## Runs

Every configuration is bounded by constants: `MaxIndex` (source writes),
`MaxFault` (failures and crashes), `Budget` (signals and failures), `MaxKeys` and
`MaxExcludes`. Deadlock is not checked: when the writes, failures and signals are
used up and everything is replicated the daemon has nothing left to do, and a
process that has exited stops.

The main runs, listed in `PROJECT.json`. Properties that hold:

| Run | Shows |
| --- | --- |
| OnePrefix | `ImplementsReplica` (the refinement), `CheckpointCovers`, `CheckpointExact`, `ExcludedUntouched`, and the invariant of the proofs: replicated and excluded keys, local keys of other clients, three source writes, two failures or crashes |
| Converge | `Resilience`: a lagging follower may answer, the source may be restored, and one call may fail or the process crash. The destination ends up with every key the source has and no other, unless a pass with a listing older than the checkpoint and a failure meet. Exempt are the keys that a restore has rolled back and nobody has written since: the checkpoint may be ahead of them |
| TwoPrefixes | `CheckpointCovers`, `Convergence` and `NoSelfReplication` of two prefixes with sources of their own: the destination of the second and the status directory are below the destination of the first, the second source may be the local datacenter |
| ReloadQuiet | `QuietReload`: a reload that adds a prefix on a query that is watched already, and does not overlap a pass of the old runner, lets both prefixes converge, with two source writes and two failed calls or kills at any point; `QuietCovers`: at no instant is a key at or below a checkpoint and missing |
| Daemon | `PassesApart`, `PidPresent`, `DataReplicated` (delivered data reaches a pass, however often the short timer is set again), `ErrorNotLost` (a prefix that failed is replicated in a later pass, or its runner ends or was stopped), `SignalServed` (a reload or kill signal in the channel is served, whatever the runner is blocked at). A reload that turns quiescence on, a kill and another signal contend for the channel, and one call may fail; the two prefixes share a query |
| OnceMode | `OnceComplete`, `OnceTerminates`, with every signal and a failure |
| KeysMirrored | `Mirrored` for every choice of short prefixes, excludes, listings and stores, destinations that do not recur |
| ConfigLoad | `Precedence`, `DestinationsGiven`, `ReloadStable`: a file and a directory of two, written and removed at any time, flags, reloads |

Disagreements between the code and what the repository says of it. Each run
checks one property and TLC finds a counterexample; `PROJECT.json` quotes the
text (findings).

| Run | What happens |
| --- | --- |
| StaleCrash | `Convergence` fails: during a pass a lagging follower answers with a lower index, the view starts over and delivers an old listing; the pass stores its checkpoint, the next one deletes the keys that the old listing lacks, and the process dies before the checkpoint goes back: they are skipped for good |
| ReloadInFlight | `Convergence` fails: a pass of the old runner that goes on, or begins, after the stop deletes what the new runner has put, or puts an old value back, and may store an older index over the new checkpoint; the destination is wrong until the query changes again |
| OnceShared | `OnceTerminates` fails: with two prefixes of the same source and datacenter `-once` waits for ever |
| KeysRecurring | `ProtectedSurvive` fails: a local key below an exclude is deleted if the destination occurs again in it |

Further configurations, kept beside the main runs; each has a counterexample
too:

| Configuration | Module | Property and what happens |
| --- | --- | --- |
| SharedStatus | MCReplicate | `Convergence`: two prefixes with one status path (`a-b` to `c`, `a` to `b-c`, or two datacenters, runner.go:454) make each other skip keys |
| NestedBare | MCReplicate | `Convergence`: a destination nested in another one without an exclude; the outer pass deletes its keys and its checkpoint keeps them away |
| ExcludeRemoved | MCReplicateReload | `QuietReload`: after a reload without an exclude the keys that were below it stay missing, because the checkpoint is ahead of them |
| DatacenterChanged | MCReplicateReload | `QuietReload`: after a reload with another datacenter the checkpoint of the old one (statusPath has no datacenter) hides the keys of the new one |
| StopInFlight | MCLifecycle | `StopHalts` (runner.go:180): goroutines run on after `Stop` |
| KillInFlight | MCLifecycle | `GracefulKill` (CHANGELOG.md:100): the kill signal ends the process in the middle of a pass |
| KillDropped | MCLifecycle | `KillHonoured` (README.md:184): a kill signal is lost when another signal fills the channel (cli.go:59) |
| OnceReload | MCLifecycle | `NoPanic`: a reload during `-once` makes `Start` send on a closed channel (runner.go:174) |
| PidLeft | MCLifecycle | `PidRemoved` (runner.go:483): the PID file survives a normal end |
| CallError | MCLifecycle | `FaultTolerant` (README.md:116-120, "it does not exit in the face of failure"): one failing call of a pass ends the process |
| ConfigStatusDir | MCConfig | `StatusDirHonoured` (README.md:219): `status_dir` in a file never has an effect, because the flags start from the defaults (cli.go:181, 467) |
| ConfigSourceLess | MCConfig | `PrefixesComplete` (config_prefix.go:52): a prefix stanza without a source is accepted (mapstructure.go:54) |
| ConfigExcludeAll | MCConfig | `ExcludesProper`: an exclude stanza without a source becomes the empty prefix (config_exclude.go:66) and excludes every key |

In addition, README.md:194 says that by default only the leader answers
queries; config.go:27-29 makes stale queries the default. Converge and
StaleCrash are about that default.

### Bounds

A source starts at index 1, so `MaxIndex` allows one write less than its value.
Three writes (OnePrefix) are enough for a key to be written, checkpointed,
deleted and written again or changed while a pass is under way, and two
failures for a second one to hit the recovery from the first. Converge and
TwoPrefixes have two writes, and their followers, restores or second source
besides. A replicated and an excluded key,
or two prefixes with a key each, separate "some" from "all" in both loops.
ReloadQuiet has two writes and two failures: a key is written before the reload
and changed or deleted after it, and the process may fail on either side. TLC
leaves out what follows a state that is not quiet (`StillQuiet`); every behaviour
with such a state satisfies `QuietReload`, and every such state `QuietCovers`, so
nothing is hidden. The disagreements need at most two writes and one failure.
In Lifecycle two prefixes, one reload and at most one signal of each other kind
put every pair of goroutines in every order; runners older than the previous
one only differ from it by being older. The daemon's prefixes share a query,
those of OnceMode have one each. KeyMapping has prefixes of one or two
characters and up to two more characters in a key, which covers prefixes that
occur inside, before and across each other, and two excludes, so that one may
cover the other. Config has two paths, one of them a directory of two files, so
that every pair of sources of a setting is there, in both orders, and
any number of reloads.

### Fairness

Replicate: polling goroutines, the event loop and every replicate goroutine
keep running, because nothing in the code blocks them but the remote calls,
which return with a result or an error; a failed process is restarted by its
supervisor; a follower catches up. Clients of Consul need not do anything and
failures need not stop by themselves: they are bounded. ReplicateReload is the
same, except that of a delivered view and the closed channel either may be
chosen. Lifecycle: `CLI.Run` and each runner's goroutine run on, remote calls
return, every query is answered once and the long timer fires. The sources need
not change after that. Fairness of a runner's
goroutine is for the goroutine, not for each case of its `select`; the short
timer need not fire at all, since data may start it again for ever.

Convergence is not claimed for a process one of whose prefixes comes from the
local datacenter: every pass fails, the process ends with it, and whether the
other prefixes get through before that is up to the scheduler.

## Proofs

The theorems hold for every value of the constants: any sets of runners,
prefixes, keys, files, any bounds. They rest on the assumptions the modules name
(`ConstantsAssumption`, `SafeAssumption`, `ReloadAssumption`, `UnsetAssumption`),
which TLC evaluates in the runs of these modules, and on those stated with a
theorem.

| Theorem | Module | States | Assumes besides |
| --- | --- | --- | --- |
| TypeCorrect | ReplicateProofs | `Spec => []TypeOK` | |
| ExcludedSafe | ReplicateProofs | `Spec => ExcludedUntouched` | `ExcludesAgree` |
| NoSelfCopy | ReplicateProofs | `Spec => NoSelfReplication` | `ExcludesAgree` |
| AloneIsSafe | ReplicateSafeProofs | `Spec /\ []Alone(r) => []RunnerInv(r)` | `SafeAssumption` |
| Invariant | ReplicateSafeProofs | `Spec => []IInv` | `SafeAssumption`, `OneRunner` |
| CheckpointSafe | ReplicateSafeProofs | `Spec => []CheckpointCovers` | same |
| CheckpointComplete | ReplicateSafeProofs | `Spec => []CheckpointExact` | same |
| Refinement | ReplicateSafeProofs | `Spec => ImplementsReplica` | same |
| QuietReloadSafe | ReplicateReloadProofs | `ReloadSpec => []QuietCovers` | `SafeAssumption` |
| QuietReloadRefines | ReplicateReloadProofs | `ReloadSpec => ImplementsReplica \/ <>(~quiet)` | `SafeAssumption` |
| ReloadExcludedSafe | ReplicateReloadProofs | `ReloadSpec => ExcludedUntouched` | `ExcludesAgree` |
| MarkReliable | ReplicaProofs | in Replica no mark is ahead of the copy | |
| TypeCorrect | LifecycleProofs | `Spec => []TypeOK` | |
| PassesNeverOverlap | LifecycleProofs | `Spec => []PassesApart` | |
| PidOfCurrent | LifecycleProofs | `Spec => []PidPresent` | |
| OnceCompleted | LifecycleProofs | `Spec => []OnceComplete` | |
| PassMirrors | KeyMappingProofs | `Spec => []Mirrored` | `OnlyInFront` |
| PrecedenceHolds | ConfigProofs | `Spec => []Precedence` | |
| DestinationsNeverEmpty | ConfigProofs | `Spec => []DestinationsGiven` | |
| ReloadChangesNothing | ConfigProofs | `Spec => ReloadStable` | |

**Any deployment (ReplicateProofs).** `ExcludedSafe` and `NoSelfCopy` hold with any
number of runners, stale queries, restored sources and overlapping prefixes. All
they need is that a destination key that counts as excluded comes from a source key
that does (`ExcludesAgree`; the two loops test different strings, KeysRecurring
shows what happens otherwise). The invariants are `WorkInv` (what is left in a
loop belongs to the prefix: replicated keys to put, its own to delete) and
`SelfIdle` (a goroutine of a local prefix never gets past `CheckDatacenter`).

**One writer (ReplicateSafeProofs).** `CheckpointCovers` is not inductive: whether
`SetStatus` preserves it depends on what the goroutine did since `GetView`, and that
on what the view was then. `RunnerInv` says, for each place a listing is kept on
its way (source, view, goroutine), that it holds every key the source has at or
below the listing's own index (`Upto`) and that the destination is sound for it
(`Sound`): no checkpoint in use is ahead of its index, what is at or below one is
at the destination, and the destination has nothing newer. The checkpoints in use
(`Levels`) are the stored one and the one a goroutine has read, which may
differ, because a checkpoint below a destination prefix is deleted by the very
pass that has read it. `PutInv` and `DeleteInv` say how far the two loops have
come. Each step that writes or deletes concerns only keys that no listing in
use has at or below a level. Fresh reads and steady sources are needed so that
listings do not fall behind a checkpoint, and the runner must be alone so that
nobody moves the stored checkpoint past the one a goroutine has read, which is
why `AloneIsSafe` says it of each runner, however many there are, and the theorems
that follow of one.

For the refinement every step is shown to be one of Replica's or to leave copy,
mark and source alone: a `Put` is an `Update`, because a key that is put is not up to
date (its version is above `seen`) and the listing has nothing older than the
destination; a `Delete` is a `Remove`, because a listing that lacks a key is older than
the key or the key is gone; `SetStatus` and `DeleteCheckpoint` are `Checkpoint`s. Its
counterpart is `MarkReliable`: in Replica, no mark is ever ahead of the copy.

**Reloads (ReplicateReloadProofs).** With two runners `Alone` is not an assumption
any more. `StageInv` says where the runners are: before the reload the new one has
nothing, after the end of the old one no goroutine of it is left. `QuietMeans`
says that `quiet` means what it should: while it holds, the old runner has no
goroutine left after its stop (`PassOutlivesStop` is false). As long as it holds, the
runner in use is therefore alone (`QuietAlone`), and `QuietInv` says that `RunnerInv`
holds of it. A reload and a restart hand it
over: it holds of a runner that has no view and no goroutine whenever it holds of
any runner (`FreshStep`), because then it is about source, destination and
stored checkpoints only. `QuietReloadSafe` is about all prefixes,
those of the old runner and those of the new one. The counterexample of
ReloadInFlight is not quiet: in `QuietReloadRefines` it is the other disjunct.

**LifecycleProofs.** Types are not inductive here, because a reload increments the
number of the current runner: `ReloadsCounted` bounds it by the reloads that were
sent, `SignalKnown` says which signal is being handled, and `Unborn` that later
runners have not begun. `OnceCompleted` rests on `EnoughViews`, a fact about
cardinalities: there are no more queries than prefixes, so a runner that has
as many views as there are prefixes has all of them; from then on every
goroutine of its pass finds data.

**KeyMappingProofs.** `OnlyInFront` says of the prefixes that a destination which is not
the source occurs in the keys in front and nowhere else; it holds for those of
KeysMirrored and fails for those of KeysRecurring. That `Replace`, which
replaces every occurrence from left to right, then replaces the leading one
(`MapsBack`) is proved from its recursive definition.

**ConfigProofs.** What is loaded is a fold of folds over sequences. `MergeChain`
and `JoinChain` replace a fold by the chain of its intermediate results;
`LastDecides` reads off a chain that the last configuration which has a setting
decides it, and `ListsAll` that the lists of the result are those written, each
entry valid, in order (`Lists`). `PrecedenceHolds` and `DestinationsNeverEmpty` follow
from these for one load. The invariant `CInv` says that the configuration of the
runner is always one that was loaded from readable files (`seen`), and that the
defaults and flags kept for reloads are those of the command line, which needs
that finalizing the elements of the flags' lists changes nothing: the parsers
of the flags leave nothing unset.

Induction over data is not available as such: the library's induction theorems
take an operator as a parameter, which the backends cannot instantiate. **Minimum**
has the form used here, over a set of numbers: a set of naturals has a least
element, and what passes from each number to the next up to a bound holds up to
it. Recursive functions are shown to exist and to be unique that way, one
argument at a time.

Model-checked only: everything about fairness, which is out of the prover's
reach (`Convergence`, `Resilience`, `QuietReload`, `DataReplicated`, `ErrorNotLost`,
`OnceTerminates`, `SignalServed`). `Convergence` has its safety half in
`CheckpointSafe` and `CheckpointComplete`, `QuietReload` in `QuietReloadSafe`.

## Not modelled

- values, flags and lock warnings of keys: copied or logged, never compared; a
  checkpoint that is not JSON, which ends the pass like a failed get;
- time: the order of timers is free, their durations are not looked at, so
  nothing is said about how long a quiescence period lasts;
- two deployments that replicate from one another, and a second reload while the
  passes of two runners are under way;
- in the configuration: the other settings of the consul, syslog and wait
  stanzas, which are merged by consul-template; environment variables; type
  conversions of the decoder; a file that changes while it is read;
  `PrefixConfig.Merge`, `ExcludeConfig.Merge`, `Must` and `TestConfig`, which the
  program does not use; `GoString`;
- the clients, the logger, version and build files: wiring. That a client cannot
  be made or a log level is unknown is an outcome of Config and Lifecycle;
- `cli.stopCh`: nothing in the repository writes to it.

## Plan

Done: the core (Replicate, Lifecycle), the abstract specification and the
refinement, nested destinations, status directories below a destination,
restored sources, reloads that change the prefixes and may fail, key mapping with
several excludes, the configuration with directories, deprecated keys and excludes,
and the proofs above: every safety and action property of the main runs is a
theorem.

Next, in this order:

1. `ReplicateReload` with two reloads;
2. an atomic pass over keys, implemented by the loops of KeyMapping, and the
   refinement proved;
3. quiescence with time: a pass begins no earlier than `min` after the last
   data and no later than `max` after the first;
4. proofs of what the Lifecycle says of stopped runners: each one that is not
   in use has ended, is blocked, or can still end.

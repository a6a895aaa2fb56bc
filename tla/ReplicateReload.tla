-------------------------- MODULE ReplicateReload --------------------------
(***************************************************************************)
(* A reload (cli.go) as the stores see it: CLI.Run stops the runner "old"  *)
(* and starts "new" with the configuration it has loaded again.  Stop      *)
(* stops the watcher and closes DoneCh but waits for nobody (runner.go):   *)
(* the goroutines of the old runner's pass go on writing, and its event    *)
(* loop may choose a delivered view or a timer over the closed channel.    *)
(*                                                                         *)
(* The configuration may change: each runner has its own prefixes          *)
(* (PrefixOf), and a prefix that changes is another prefix, with the       *)
(* checkpoint of the old one if source and destination stay.  A process    *)
(* that fails or is killed takes the goroutines of both runners with it.   *)
(***************************************************************************)
EXTENDS Replicate

CONSTANTS Old, New

ASSUME ReloadAssumption ==
  /\ Runner = {Old, New} /\ Old # New
  /\ MaySelf = {}

VARIABLES
  stage,   \* of each runner
  quiet    \* auxiliary: no pass of the old runner has outlived its stop

reloadVars == <<vars, stage, quiet>>

\* A "late" runner was stopped before it had given its queries to the watcher.
Stage == {"none", "started", "late", "stopped", "ended"}

ReloadInit ==
  /\ Init
  /\ stage = [r \in Runner |-> IF r = Old THEN "started" ELSE "none"]
  /\ quiet = TRUE

\* The reload signal: Stop of the old runner, then Start of the new one.
Reload ==
  /\ stage[Old] = "started"
  /\ \/ stage' = [stage EXCEPT ![Old] = "stopped", ![New] = "started"]
     \/ vrecv[Old] = {} /\ stage' = [stage EXCEPT ![Old] = "late", ![New] = "started"]
  /\ quiet' = (quiet /\ \A p \in Prefix : pc[Old][p] \in {"done", "failed"})
  /\ UNCHANGED vars

\* The event loop of a stopped runner sees that DoneCh is closed.
Finish(r) ==
  /\ stage[r] \in {"late", "stopped"}
  /\ \A p \in Prefix : pc[r][p] = "done"
  /\ stage' = [stage EXCEPT ![r] = "ended"]
  /\ UNCHANGED <<vars, quiet>>

\* The watcher polls until Stop; a query that it is given afterwards is polled
\* all the same.
Poll(r, d) == stage[r] \in {"started", "late"} /\ Fetch(r, d) /\ UNCHANGED <<stage, quiet>>

\* A pass may begin until the event loop has ended.
Pass(r) ==
  /\ stage[r] \in {"started", "late", "stopped"}
  /\ Run(r)
  /\ quiet' = (quiet /\ stage[r] = "started")
  /\ UNCHANGED stage

\* A goroutine of a pass runs to its end, whatever happens to its runner.
Goroutine(r, p) == Step(r, p) /\ UNCHANGED <<stage, quiet>>

\* Where CLI.Run is: it waits for the old runner until the reload.
InUse == IF stage[Old] = "started" THEN Old ELSE New

\* The process ends with every goroutine, and a new one starts a runner with
\* the configuration that was in use or, if it was written by then, the new one.
Restart ==
  /\ vdata' = [r \in Runner |-> [d \in Dep |-> NoPairs]]
  /\ vindex' = [r \in Runner |-> [d \in Dep |-> 0]]
  /\ vrecv' = [r \in Runner |-> {}] /\ dataCh' = vrecv' /\ data' = vrecv'
  /\ pc' = [r \in Runner |-> [p \in Prefix |-> "done"]]
  /\ \E r \in {InUse, New} :
       stage' = [x \in Runner |-> IF x = r THEN "started" ELSE IF x = New THEN "none" ELSE "ended"]
  /\ UNCHANGED <<sourceVars, passVars, dst, status, quiet>>

\* A call of either runner fails.
GoroutineFails(r, p) == CallFails(r, p) /\ UNCHANGED <<stage, quiet>>

\* The error of the runner that CLI.Run waits for ends the process; a stopped
\* runner blocks on its ErrCh.
Exit ==
  /\ \A p \in Prefix : pc[InUse][p] \in {"done", "failed"}
  /\ \E p \in Prefix : pc[InUse][p] = "failed"
  /\ Restart
  /\ UNCHANGED faults

Killed == faults < MaxFault /\ Restart /\ faults' = faults + 1

ReloadNext ==
  \/ Environment /\ UNCHANGED <<stage, quiet>>
  \/ Reload
  \/ \E r \in Runner : \/ Finish(r)
                       \/ \E d \in Dep : Poll(r, d)
                       \/ Pass(r)
                       \/ \E p \in Prefix : Goroutine(r, p) \/ GoroutineFails(r, p)
  \/ Exit \/ Killed

\* As in Replicate; of a delivered view and the closed channel either may be
\* chosen.  A reload need not happen.
ReloadFairness ==
  /\ \A d \in Dep : WF_reloadVars(FollowerCatchUp(d) /\ UNCHANGED <<stage, quiet>>)
  /\ \A r \in Runner :
       /\ \A d \in Dep : WF_reloadVars(Poll(r, d))
       /\ WF_reloadVars(Pass(r) \/ Finish(r))
       /\ \A p \in Prefix : WF_reloadVars(Goroutine(r, p))
  /\ WF_reloadVars(Exit)

ReloadSpec == ReloadInit /\ [][ReloadNext]_reloadVars /\ ReloadFairness

----------------------------------------------------------------------------

\* What the configuration in use asks for is at the destination, in the end.
ReloadConvergence == <>[](\A p \in Prefix : p \in PrefixOf[InUse] => ConvergedFor(p))

\* A reload between two passes does no harm, even if the process fails or is
\* killed before or after it: the new runner goes on from the checkpoints that
\* the old one left (runner.go:420), replicates the prefixes that were added as
\* well, and the destination converges.
QuietReload == ReloadConvergence \/ <>(~quiet)

\* Nor does it lose anything on the way: as long as no pass has outlived a stop,
\* before, during and after the reload, the destination holds every key that the
\* next pass, whichever runner's it is, skips as replicated already
\* (runner.go:334).
QuietCovers == quiet => CheckpointCovers
============================================================================

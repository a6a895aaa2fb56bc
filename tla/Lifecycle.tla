----------------------------- MODULE Lifecycle -----------------------------
(***************************************************************************)
(* The process: the signal loop of CLI.Run (cli.go) and the runners it     *)
(* starts, one per configuration it loads: Runner.Start, Stop, Receive and *)
(* the barrier of Run (runner.go).  The goroutines meet at unbuffered      *)
(* channels (ErrCh, DoneCh, the watcher's error channel), at a signal      *)
(* channel of one place and at the PID file.                               *)
(*                                                                         *)
(* A step ends at a blocking operation or at an effect that another        *)
(* goroutine sees.  What a pass does to the stores is Replicate's subject; *)
(* here a replicate goroutine is running or has a result.                  *)
(***************************************************************************)
EXTENDS Naturals, FiniteSets

CONSTANTS
  Prefix,      \* the configured prefixes
  Dep,         \* the watched queries
  DepOf,       \* [Prefix -> Dep]: prefix.Dependency
  Once,        \* -once
  Quiesce,     \* the runners in whose configuration wait.min and wait.max are positive
  PidFile,     \* pid_file is set
  Budget       \* bound: how often each signal is sent, and how many calls fail

Signal == {"reload", "kill", "other"}
Gen    == 1 .. Budget["reload"] + 1     \* the runners, in the order of creation
Timer  == {"min", "max"}

ASSUME ConstantsAssumption ==
  /\ IsFiniteSet(Prefix)
  /\ DepOf \in [Prefix -> Dep] /\ Dep = {DepOf[p] : p \in Prefix}
  /\ Once \in BOOLEAN /\ Quiesce \subseteq Gen /\ PidFile \in BOOLEAN
  /\ Budget \in [Signal \cup {"fault"} -> Nat]

VARIABLES
  cli,        \* where CLI.Run is
  signalCh,   \* the signal in the channel, "none" if it is empty
  handling,   \* the signal for which CLI.Run stops the runner
  cur,        \* the runner CLI.Run waits for
  exit,       \* "running", or what the process ended with
  left,       \* signals and failures left
  pid,        \* whether the PID file exists
  closed,     \* the runners whose DoneCh is closed
  polling,    \* the runners whose watcher polls
  errCh,      \* the runners whose watcher is blocked sending an error
  dataCh,     \* the views delivered to a runner and not received
  loop,       \* where Start of each runner is
  data,       \* Runner.data: the views received
  fresh,      \* the views received since the last pass began
  timers,     \* the quiescence timers that are set
  pass        \* what each replicate goroutine of a runner's last pass came to

cliVars   == <<cli, signalCh, handling, cur, exit>>
watchVars == <<polling, errCh, dataCh>>
runVars   == <<loop, data, fresh, timers, pass>>
vars == <<cliVars, left, pid, closed, watchVars, runVars>>

\* The first runner is started before CLI.Run listens for signals.
Init ==
  /\ cli = "notify" /\ signalCh = "none" /\ handling = "none" /\ cur = 1
  /\ exit = "running" /\ left = Budget /\ pid = FALSE
  /\ closed = {} /\ polling = {} /\ errCh = {}
  /\ loop = [g \in Gen |-> IF g = 1 THEN "start" ELSE "none"]
  /\ dataCh = [g \in Gen |-> {}] /\ data = dataCh /\ fresh = dataCh /\ timers = dataCh
  /\ pass = [g \in Gen |-> [p \in Prefix |-> "none"]]

Fault == left["fault"] > 0 /\ left' = [left EXCEPT !["fault"] = @ - 1]

----------------------------------------------------------------------------
(* The outside: the operating system and Consul.                           *)

\* A signal is sent.  Before signal.Notify the reload and the kill signal have
\* their default effect, which is the end of the process; after that the
\* notification is dropped if the channel is full.
SendSignal(s) ==
  /\ left[s] > 0
  /\ left' = [left EXCEPT ![s] = @ - 1]
  /\ IF cli = "notify"
       THEN exit' = (IF s = "other" THEN exit ELSE "signal") /\ UNCHANGED signalCh
       ELSE signalCh' = (IF signalCh = "none" THEN s ELSE signalCh) /\ UNCHANGED exit
  /\ UNCHANGED <<cli, handling, cur, pid, closed, watchVars, runVars>>

\* A view is delivered; in once mode a view polls only once.
Deliver(g, d) ==
  /\ g \in polling
  /\ d \notin dataCh[g]
  /\ Once => d \notin data[g]
  /\ dataCh' = [dataCh EXCEPT ![g] = @ \cup {d}]
  /\ UNCHANGED <<cliVars, left, pid, closed, polling, errCh, runVars>>

\* A view has used up its retries and offers the error to the runner.
WatchFails(g) ==
  /\ g \in polling \ errCh
  /\ Fault
  /\ errCh' = errCh \cup {g}
  /\ UNCHANGED <<cliVars, pid, closed, polling, dataCh, runVars>>

----------------------------------------------------------------------------
(* Runner.Start.                                                           *)

Goto(g, place) == loop' = [loop EXCEPT ![g] = place]

\* storePid, the first thing Start does, may fail.
StorePid(g) ==
  /\ loop[g] = "start"
  /\ \/ /\ pid' = (pid \/ PidFile)
        /\ Goto(g, "add")
        /\ UNCHANGED left
     \/ /\ PidFile /\ Fault
        /\ Goto(g, "sendErr")
        /\ UNCHANGED pid
  /\ UNCHANGED <<cliVars, closed, watchVars, data, fresh, timers, pass>>

\* The watcher is given the query of every prefix; it watches a query once.
AddDependencies(g) ==
  /\ loop[g] = "add"
  /\ polling' = polling \cup {g}
  /\ Goto(g, IF Once THEN "once" ELSE "select")
  /\ UNCHANGED <<cliVars, left, pid, closed, errCh, dataCh, data, fresh, timers, pass>>

\* Receive, for some of the views in the channel.
Receive(g, views) ==
  /\ views # {}
  /\ data' = [data EXCEPT ![g] = @ \cup views]
  /\ dataCh' = [dataCh EXCEPT ![g] = @ \ views]

\* In once mode, wait for as many views as there are prefixes.
OnceReceive(g, d) ==
  /\ loop[g] = "once"
  /\ d \in dataCh[g]
  /\ Cardinality(data[g]) < Cardinality(Prefix)
  /\ Receive(g, {d})
  /\ UNCHANGED <<cliVars, left, pid, closed, polling, errCh, loop, fresh, timers, pass>>

\* Mutant: the first view ends the wait.
OnceReadyEarly(g) ==
  /\ loop[g] = "once"
  /\ data[g] # {}
  /\ Goto(g, "select")
  /\ UNCHANGED <<cliVars, left, pid, closed, watchVars, data, fresh, timers, pass>>

OnceReady(g) ==
  /\ loop[g] = "once"
  /\ Cardinality(data[g]) = Cardinality(Prefix)
  /\ Goto(g, "select")
  /\ UNCHANGED <<cliVars, left, pid, closed, watchVars, data, fresh, timers, pass>>

\* The watcher's error is passed on, in the once loop and in the event loop.  The
\* latter begins a pass once CLI.Run has taken the error (runner.go:156-162); but
\* CLI.Run ends the process when it takes one.
ReceiveWatchError(g) ==
  /\ loop[g] \in {"once", "select"}
  /\ g \in errCh
  /\ errCh' = errCh \ {g}
  /\ Goto(g, "sendErr")
  /\ UNCHANGED <<cliVars, left, pid, closed, polling, dataCh, data, fresh, timers, pass>>

\* Run starts one replicate goroutine per prefix.
StartPass(g) ==
  /\ Goto(g, "run")
  /\ pass' = [pass EXCEPT ![g] = [p \in Prefix |-> "running"]]
  /\ fresh' = [fresh EXCEPT ![g] = {}]

\* Without quiescence, every view in the channel is received and a pass starts.
ReceiveAndRun(g) ==
  /\ loop[g] = "select" /\ g \notin Quiesce
  /\ Receive(g, dataCh[g])
  /\ StartPass(g)
  /\ UNCHANGED <<cliVars, left, pid, closed, polling, errCh, timers>>

\* Mutant: only the short timer is set.
ReceiveAndWaitMin(g) ==
  /\ loop[g] = "select" /\ g \in Quiesce
  /\ Receive(g, dataCh[g])
  /\ fresh' = [fresh EXCEPT ![g] = @ \cup dataCh[g]]
  /\ timers' = [timers EXCEPT ![g] = {"min"}]
  /\ UNCHANGED <<cliVars, left, pid, closed, polling, errCh, loop, pass>>

\* With it, the short timer starts again and the long one if it is not set.
ReceiveAndWait(g) ==
  /\ loop[g] = "select" /\ g \in Quiesce
  /\ Receive(g, dataCh[g])
  /\ fresh' = [fresh EXCEPT ![g] = @ \cup dataCh[g]]
  /\ timers' = [timers EXCEPT ![g] = Timer]
  /\ UNCHANGED <<cliVars, left, pid, closed, polling, errCh, loop, pass>>

\* Either timer clears both and starts a pass.
TimerFires(g, t) ==
  /\ loop[g] = "select"
  /\ t \in timers[g]
  /\ timers' = [timers EXCEPT ![g] = {}]
  /\ StartPass(g)
  /\ UNCHANGED <<cliVars, left, pid, closed, watchVars, data>>

\* onceCh holds a token from the end of the once loop on.
OnceRun(g) ==
  /\ loop[g] = "select" /\ Once
  /\ StartPass(g)
  /\ UNCHANGED <<cliVars, left, pid, closed, watchVars, data, timers>>

\* Mutant: the runner removes the PID file when it finishes.
FinishDeletePid(g) ==
  /\ loop[g] = "select"
  /\ g \in closed
  /\ pid' = FALSE
  /\ Goto(g, "ended")
  /\ UNCHANGED <<cliVars, left, closed, watchVars, data, fresh, timers, pass>>

\* A closed DoneCh is one of the ready cases of the event loop.
Finish(g) ==
  /\ loop[g] = "select"
  /\ g \in closed
  /\ Goto(g, "ended")
  /\ UNCHANGED <<cliVars, left, pid, closed, watchVars, data, fresh, timers, pass>>

\* A replicate goroutine ends: with data, without, or with an error.
ReplicateEnds(g, p) ==
  /\ pass[g][p] = "running"
  /\ \/ /\ pass' = [pass EXCEPT ![g][p] =
                      IF DepOf[p] \in data[g] THEN "replicated" ELSE "nodata"]
        /\ UNCHANGED left
     \/ /\ Fault
        /\ pass' = [pass EXCEPT ![g][p] = "failed"]
  /\ UNCHANGED <<cliVars, pid, closed, watchVars, loop, data, fresh, timers>>

\* Mutant: -once is forgotten after the pass.
AfterPassForgets(failed) == IF failed THEN "sendErr" ELSE "select"

\* Where Start goes with the result of a pass.
AfterPass(failed) == IF failed THEN "sendErr" ELSE IF Once THEN "sendDone" ELSE "select"

\* Mutant: Run returns with the first error it receives.
RunReturnsEarly(g) ==
  /\ loop[g] = "run"
  /\ \/ \A p \in Prefix : pass[g][p] # "running"
     \/ \E p \in Prefix : pass[g][p] = "failed"
  /\ Goto(g, AfterPass(\E p \in Prefix : pass[g][p] = "failed"))
  /\ UNCHANGED <<cliVars, left, pid, closed, watchVars, data, fresh, timers, pass>>

\* Mutant: an error counts only if no prefix was replicated.
RunReturnsAnyDone(g) ==
  /\ loop[g] = "run"
  /\ \A p \in Prefix : pass[g][p] # "running"
  /\ Goto(g, AfterPass(\A p \in Prefix : pass[g][p] = "failed"))
  /\ UNCHANGED <<cliVars, left, pid, closed, watchVars, data, fresh, timers, pass>>

\* Run returns when every goroutine has reported, with an error if one has.
RunReturns(g) ==
  /\ loop[g] = "run"
  /\ \A p \in Prefix : pass[g][p] # "running"
  /\ Goto(g, AfterPass(\E p \in Prefix : pass[g][p] = "failed"))
  /\ UNCHANGED <<cliVars, left, pid, closed, watchVars, data, fresh, timers, pass>>

----------------------------------------------------------------------------
(* CLI.Run.                                                                *)

Exit(code) ==
  /\ exit' = code
  /\ UNCHANGED <<cli, signalCh, handling, cur, pid, closed, watchVars, runVars>>

\* signal.Notify comes after the first runner was started.
Listen ==
  /\ cli = "notify"
  /\ cli' = "select"
  /\ UNCHANGED <<signalCh, handling, cur, exit, left, pid, closed, watchVars, runVars>>

\* A runner that sends on its DoneCh after Stop has closed it panics, and the
\* panic ends the process.
SendOnClosed(g) == loop[g] = "sendDone" /\ g \in closed /\ Exit("panic") /\ UNCHANGED left

\* The current runner's error ends the process at once.
ReceiveError == cli = "select" /\ loop[cur] = "sendErr" /\ Exit("runnerError") /\ UNCHANGED left

\* So does its end in once mode.
ReceiveDone == cli = "select" /\ loop[cur] = "sendDone" /\ Exit("ok") /\ UNCHANGED left

\* Mutant: every signal begins to stop the runner.
ReceiveSignalAny ==
  /\ cli = "select"
  /\ signalCh # "none"
  /\ signalCh' = "none"
  /\ cli' = "stopWatcher" /\ handling' = signalCh
  /\ UNCHANGED <<cur, exit, left, pid, closed, watchVars, runVars>>

\* A signal is taken; reload and kill begin to stop the runner.
ReceiveSignal ==
  /\ cli = "select"
  /\ signalCh # "none"
  /\ signalCh' = "none"
  /\ IF signalCh = "other"
       THEN UNCHANGED <<cli, handling>>
       ELSE cli' = "stopWatcher" /\ handling' = signalCh
  /\ UNCHANGED <<cur, exit, left, pid, closed, watchVars, runVars>>

\* Stop: the watcher's views stop polling and drop what they were sending.
StopWatcher ==
  /\ cli = "stopWatcher"
  /\ polling' = polling \ {cur} /\ errCh' = errCh \ {cur}
  /\ cli' = "deletePid"
  /\ UNCHANGED <<signalCh, handling, cur, exit, left, pid, closed, dataCh, runVars>>

\* Stop: deletePid; that there is no PID file is only logged.
DeletePid ==
  /\ cli = "deletePid"
  /\ pid' = FALSE
  /\ cli' = "closeDone"
  /\ UNCHANGED <<signalCh, handling, cur, exit, left, closed, watchVars, runVars>>

\* Stop: close DoneCh, the last thing it does.  It waits for nobody.
CloseDone ==
  /\ cli = "closeDone"
  /\ closed' = closed \cup {cur}
  /\ cli' = handling
  /\ UNCHANGED <<signalCh, handling, cur, exit, left, pid, watchVars, runVars>>

Kill == cli = "kill" /\ Exit("interrupt") /\ UNCHANGED left

\* Mutant: a reload whose configuration has not changed starts no runner.
ReloadSame ==
  /\ cli = "reload"
  /\ cli' = "select"
  /\ UNCHANGED <<signalCh, handling, cur, exit, left, pid, closed, watchVars, runVars>>

\* The configuration is loaded again and a new runner started with it.
Reload ==
  /\ cli = "reload"
  /\ cur' = cur + 1
  /\ Goto(cur + 1, "start")
  /\ cli' = "select"
  /\ UNCHANGED <<signalCh, handling, exit, left, pid, closed, watchVars, data, fresh,
                 timers, pass>>

\* The new configuration cannot be read, or no runner be made of it.
ReloadFails == cli = "reload" /\ Fault /\ \E code \in {"configError", "runnerError"} : Exit(code)

----------------------------------------------------------------------------

RunnerStep(g) ==
  \/ StorePid(g) \/ AddDependencies(g)
  \/ \E d \in Dep : OnceReceive(g, d)
  \/ OnceReady(g) \/ OnceRun(g)
  \/ ReceiveWatchError(g)
  \/ ReceiveAndRun(g) \/ ReceiveAndWait(g)
  \/ \E t \in Timer : TimerFires(g, t)
  \/ RunReturns(g) \/ Finish(g) \/ SendOnClosed(g)

CliStep ==
  \/ Listen \/ ReceiveError \/ ReceiveDone \/ ReceiveSignal
  \/ StopWatcher \/ DeletePid \/ CloseDone
  \/ Kill \/ Reload \/ ReloadFails

Next ==
  /\ exit = "running"
  /\ \/ \E s \in Signal : SendSignal(s)
     \/ \E g \in Gen : \/ \E d \in Dep : Deliver(g, d)
                       \/ WatchFails(g)
                       \/ RunnerStep(g)
                       \/ \E p \in Prefix : ReplicateEnds(g, p)
     \/ CliStep

Spec == Init /\ [][Next]_vars

\* Goroutines keep running, calls return, every query is answered once and the
\* long timer fires.  The sources need not change after that, but may go on
\* changing and have the short timer set again and again.
Running(A) == exit = "running" /\ A

Fairness ==
  /\ WF_vars(Running(CliStep))
  /\ \A g \in Gen :
       /\ WF_vars(Running(RunnerStep(g)))
       /\ WF_vars(Running(TimerFires(g, "max")))
       /\ \A d \in Dep : WF_vars(d \notin data[g] /\ Running(Deliver(g, d)))
       /\ \A p \in Prefix : WF_vars(Running(ReplicateEnds(g, p)))

FairSpec == Spec /\ Fairness

----------------------------------------------------------------------------
(* Properties.                                                             *)

TypeOK ==
  /\ cli \in {"notify", "select", "stopWatcher", "deletePid", "closeDone", "kill", "reload"}
  /\ signalCh \in Signal \cup {"none"}
  /\ handling \in {"none", "kill", "reload"}
  /\ cur \in Gen
  /\ exit \in {"running", "ok", "interrupt", "signal", "runnerError", "configError", "panic"}
  /\ left \in [Signal \cup {"fault"} -> Nat]
  /\ pid \in BOOLEAN
  /\ closed \subseteq Gen /\ polling \subseteq Gen /\ errCh \subseteq Gen
  /\ loop \in [Gen -> {"none", "start", "add", "once", "select", "run", "sendErr",
                       "sendDone", "ended"}]
  /\ dataCh \in [Gen -> SUBSET Dep] /\ data \in [Gen -> SUBSET Dep]
  /\ fresh \in [Gen -> SUBSET Dep] /\ timers \in [Gen -> SUBSET Timer]
  /\ pass \in [Gen -> [Prefix -> {"none", "running", "replicated", "nodata", "failed"}]]

InFlight(g) == \E p \in Prefix : pass[g][p] = "running"

\* A replicate goroutine only runs while its runner waits in Run: two passes of
\* a runner never overlap, and a runner reports an error or its end only when
\* all the goroutines of the pass have ended.
PassesApart == \A g \in Gen : InFlight(g) => loop[g] = "run"

\* While CLI.Run waits for a runner, or is about to, that is past storePid, its
\* PID file is there, whatever the runners before it still do.
PidPresent ==
  PidFile /\ cli \in {"notify", "select"} /\ loop[cur] \notin {"start", "sendErr"} => pid

\* CLI.Run no longer waits for runner g.
Stopped(g) == g \in closed \/ exit # "running"

\* What the watcher delivers to a runner is received, and a pass begins after
\* that, however often new data starts the short timer again.
DataReplicated ==
  \A g \in Gen, d \in Dep :
    /\ d \in dataCh[g] ~> d \notin dataCh[g] \/ Stopped(g)
    /\ d \in fresh[g] ~> d \notin fresh[g] \/ Stopped(g)

\* A failed prefix is not given up, whatever the other goroutines of its pass
\* report to Run (runner.go:211-219), and even if its source never changes
\* again: all prefixes are replicated by a later pass of the runner, unless it is
\* stopped or the process ends, and then it is up to the next one.
ErrorNotLost ==
  \A g \in Gen :
    (\E p \in Prefix : pass[g][p] = "failed")
      ~> (\A p \in Prefix : pass[g][p] = "replicated") \/ Stopped(g)

\* In once mode the process ends.
OnceTerminates == Once ~> exit # "running"

\* A once run that reports success has replicated every prefix, with data.
OnceComplete == exit = "ok" => \A p \in Prefix : pass[cur][p] = "replicated"

\* A signal that is in the channel is served, whatever the runner is doing,
\* waiting for or blocked at: the kill signal ends the process, the reload
\* signal brings a new runner or ends it too.
SignalServed ==
  /\ signalCh = "kill" ~> exit # "running"
  /\ \A g \in Gen : signalCh = "reload" /\ cur = g ~> cur > g \/ exit # "running"

\* A kill signal ends the process.
KillHonoured == left["kill"] < Budget["kill"] ~> exit # "running"

\* Stop halts the runner and what it started.
StopHalts == \A g \in closed : ~InFlight(g)

\* An interrupted process has no replication in progress.
GracefulKill == exit = "interrupt" => \A g \in Gen : ~InFlight(g)

\* The process ends with an exit code of its own.
NoPanic == exit # "panic"

\* The PID file is removed on exit.
PidRemoved == exit # "running" => ~pid

\* Failing calls to Consul do not end the process.
FaultTolerant == exit # "runnerError"
============================================================================

-------------------------- MODULE LifecycleProofs --------------------------
(* Proofs about Lifecycle.  The types alone are not inductive: a reload     *)
(* makes runner cur + 1, which exists because every reload was sent by the  *)
(* budget, and must not have been started before.                           *)
EXTENDS Lifecycle, FiniteSetTheorems, TLAPS

One(b) == IF b THEN 1 ELSE 0

\* The reloads done, under way, in the channel and still to be sent.
ReloadsCounted ==
  cur + One(cli \notin {"notify", "select"} /\ handling = "reload") + One(signalCh = "reload") + left["reload"]
    <= Budget["reload"] + 1

\* CLI.Run knows which signal it stops the runner for.
SignalKnown ==
  /\ cli \notin {"notify", "select"} => handling # "none"
  /\ cli \in {"kill", "reload"} => cli = handling

\* A runner does nothing before it is created.
Unborn == \A g \in Gen : g > cur => loop[g] = "none" /\ ~InFlight(g)

LInv == TypeOK /\ ReloadsCounted /\ SignalKnown /\ Unborn /\ PassesApart /\ PidPresent

LEMMA BudgetTypes ==
  /\ \A k \in Signal \cup {"fault"} : Budget[k] \in Nat
  /\ Gen = 1 .. Budget["reload"] + 1
  /\ \A p \in Prefix : DepOf[p] \in Dep
  BY ConstantsAssumption DEF Signal, Gen

LEMMA InvInit == Init => LInv
  <1> SUFFICES ASSUME Init PROVE LInv
    OBVIOUS
  <1>1. TypeOK
    <2>1. left \in [Signal \cup {"fault"} -> Nat]
      BY ConstantsAssumption DEF Init
    <2>2. cur \in Gen /\ closed \subseteq Gen /\ polling \subseteq Gen /\ errCh \subseteq Gen
      BY BudgetTypes DEF Init, Signal
    <2>3. /\ loop \in [Gen -> {"none", "start", "add", "once", "select", "run", "sendErr",
                              "sendDone", "ended"}]
          /\ pass \in [Gen -> [Prefix -> {"none", "running", "replicated", "nodata", "failed"}]]
      BY DEF Init
    <2>4. /\ dataCh \in [Gen -> SUBSET Dep] /\ data \in [Gen -> SUBSET Dep]
          /\ fresh \in [Gen -> SUBSET Dep] /\ timers \in [Gen -> SUBSET Timer]
      BY DEF Init
    <2> QED
      BY <2>1, <2>2, <2>3, <2>4 DEF Init, TypeOK
  <1>2. ReloadsCounted /\ SignalKnown
    BY BudgetTypes DEF Init, ReloadsCounted, SignalKnown, One, Signal
  <1>3. Unborn /\ PassesApart /\ PidPresent
    <2>1. \A g \in Gen, p \in Prefix : pass[g][p] = "none"
      BY DEF Init
    <2>2. \A g \in Gen : loop[g] = IF g = 1 THEN "start" ELSE "none"
      BY DEF Init
    <2>3. cur = 1 /\ 1 \in Gen /\ Gen \subseteq Nat
      BY BudgetTypes DEF Init, Signal
    <2> QED
      BY <2>1, <2>2, <2>3 DEF Unborn, PassesApart, PidPresent, InFlight
  <1> QED
    BY <1>1, <1>2, <1>3 DEF LInv

\* A step of a runner keeps the types.
LEMMA RunnerTypes ==
  ASSUME LInv, NEW g \in Gen, RunnerStep(g)
  PROVE  TypeOK'
  <1> USE BudgetTypes DEF TypeOK, LInv, Signal, Fault, Goto, Receive, StartPass, cliVars, watchVars, Timer
  <1>1. CASE StorePid(g)
    <2>1. pid' \in BOOLEAN
      BY <1>1 DEF StorePid
    <2>2. /\ left' \in [Signal \cup {"fault"} -> Nat]
          /\ loop' \in [Gen -> {"none", "start", "add", "once", "select", "run", "sendErr",
                               "sendDone", "ended"}]
      BY <1>1 DEF StorePid
    <2>3. UNCHANGED <<cliVars, closed, watchVars, data, fresh, timers, pass>>
      BY <1>1 DEF StorePid
    <2> QED
      BY <2>1, <2>2, <2>3
  <1>2. CASE AddDependencies(g)
    BY <1>2 DEF AddDependencies
  <1>3. ASSUME NEW d \in Dep, OnceReceive(g, d) PROVE TypeOK'
    BY <1>3 DEF OnceReceive
  <1>4. CASE OnceReady(g)
    BY <1>4 DEF OnceReady
  <1>5. CASE OnceRun(g)
    BY <1>5 DEF OnceRun
  <1>6. CASE ReceiveWatchError(g)
    BY <1>6 DEF ReceiveWatchError
  <1>7. CASE ReceiveAndRun(g)
    BY <1>7 DEF ReceiveAndRun
  <1>8. CASE ReceiveAndWait(g)
    BY <1>8 DEF ReceiveAndWait
  <1>9. ASSUME NEW t \in Timer, TimerFires(g, t) PROVE TypeOK'
    BY <1>9 DEF TimerFires
  <1>10. CASE RunReturns(g)
    BY <1>10 DEF RunReturns, AfterPass
  <1>11. CASE Finish(g)
    BY <1>11 DEF Finish
  <1>12. CASE SendOnClosed(g)
    BY <1>12 DEF SendOnClosed, Exit, runVars
  <1> QED
    BY <1>1, <1>2, <1>3, <1>4, <1>5, <1>6, <1>7, <1>8, <1>9, <1>10, <1>11, <1>12 DEF RunnerStep


\* The same for the signals, the watcher and the replicate goroutines.
LEMMA OutsideTypes ==
  ASSUME LInv, NEW g \in Gen
  PROVE  /\ \A s \in Signal : SendSignal(s) => TypeOK'
         /\ \A d \in Dep : Deliver(g, d) => TypeOK'
         /\ WatchFails(g) => TypeOK'
         /\ \A p \in Prefix : ReplicateEnds(g, p) => TypeOK'
  <1> USE BudgetTypes DEF TypeOK, LInv, Signal, Fault, cliVars, watchVars, runVars, Timer
  <1>1. ASSUME NEW s \in Signal, SendSignal(s) PROVE TypeOK'
    BY <1>1 DEF SendSignal
  <1>2. ASSUME NEW d \in Dep, Deliver(g, d) PROVE TypeOK'
    BY <1>2 DEF Deliver
  <1>3. ASSUME WatchFails(g) PROVE TypeOK'
    BY <1>3 DEF WatchFails
  <1>4. ASSUME NEW p \in Prefix, ReplicateEnds(g, p) PROVE TypeOK'
    <2>1. pass' \in [Gen -> [Prefix -> {"none", "running", "replicated", "nodata", "failed"}]]
      <3>1. PICK v \in {"replicated", "nodata", "failed"} : pass' = [pass EXCEPT ![g][p] = v]
        BY <1>4 DEF ReplicateEnds
      <3> QED
        BY <3>1
    <2>2. left' \in [Signal \cup {"fault"} -> Nat]
      BY <1>4 DEF ReplicateEnds
    <2>3. UNCHANGED <<cliVars, pid, closed, watchVars, loop, data, fresh, timers>>
      BY <1>4 DEF ReplicateEnds
    <2> QED
      BY <2>1, <2>2, <2>3
  <1> QED
    BY <1>1, <1>2, <1>3, <1>4

LEMMA CliTypes ==
  ASSUME LInv, CliStep
  PROVE  TypeOK'
  <1> USE BudgetTypes DEF TypeOK, LInv, Signal, Fault, Goto, Exit, watchVars, runVars, Timer
  <1>1. CASE ReceiveError
    BY <1>1 DEF ReceiveError
  <1>2. CASE ReceiveDone
    BY <1>2 DEF ReceiveDone
  <1>3. CASE ReceiveSignal
    BY <1>3 DEF ReceiveSignal
  <1>4. CASE StopWatcher
    BY <1>4 DEF StopWatcher
  <1>5. CASE DeletePid
    BY <1>5 DEF DeletePid
  <1>6. CASE CloseDone
    BY <1>6 DEF CloseDone, SignalKnown
  <1>7. CASE Kill
    BY <1>7 DEF Kill
  <1>8. CASE Reload
    <2>1. cur + 1 \in Gen
      BY <1>8 DEF Reload, ReloadsCounted, SignalKnown, One
    <2> QED
      BY <1>8, <2>1 DEF Reload
  <1>9. CASE ReloadFails
    BY <1>9 DEF ReloadFails
  <1>10. CASE Listen
    BY <1>10 DEF Listen
  <1> QED
    BY <1>1, <1>2, <1>3, <1>4, <1>5, <1>6, <1>7, <1>8, <1>9, <1>10 DEF CliStep

\* Only a signal sent and CLI.Run itself change what is counted.
LEMMA CountStep ==
  ASSUME LInv, Next
  PROVE  ReloadsCounted' /\ SignalKnown'
  <1> USE BudgetTypes DEF TypeOK, LInv, Signal, Fault, ReloadsCounted, SignalKnown, One
  <1>1. ASSUME NEW s \in Signal, SendSignal(s) PROVE ReloadsCounted' /\ SignalKnown'
    BY <1>1 DEF SendSignal
  <1>2. ASSUME UNCHANGED <<cli, signalCh, handling, cur>>, left'["reload"] = left["reload"]
        PROVE  ReloadsCounted' /\ SignalKnown'
    BY <1>2
  <1>3. ASSUME NEW g \in Gen, RunnerStep(g)
        PROVE  UNCHANGED <<cli, signalCh, handling, cur>> /\ left'["reload"] = left["reload"]
    BY <1>3 DEF RunnerStep, StorePid, AddDependencies, OnceReceive, OnceReady, OnceRun,
         ReceiveWatchError, ReceiveAndRun, ReceiveAndWait, TimerFires, RunReturns, Finish,
         SendOnClosed, Exit, cliVars
  <1>4. ASSUME NEW g \in Gen, \/ \E d \in Dep : Deliver(g, d)
                              \/ WatchFails(g)
                              \/ \E p \in Prefix : ReplicateEnds(g, p)
        PROVE  UNCHANGED <<cli, signalCh, handling, cur>> /\ left'["reload"] = left["reload"]
    BY <1>4 DEF Deliver, WatchFails, ReplicateEnds, cliVars
  <1>5. ASSUME CliStep PROVE ReloadsCounted' /\ SignalKnown'
    BY <1>5 DEF CliStep, ReceiveError, ReceiveDone, ReceiveSignal, StopWatcher, DeletePid,
         CloseDone, Kill, Reload, ReloadFails, Listen, Exit
  <1> QED
    BY <1>1, <1>2, <1>3, <1>4, <1>5 DEF Next

\* A step of runner g moves no other runner, starts goroutines only on its way
\* into Run and leaves Run only when none is running.
LEMMA RunnerPasses ==
  ASSUME LInv, NEW g \in Gen, RunnerStep(g)
  PROVE  /\ loop[g] # "none"
         /\ \A h \in Gen \ {g} : loop'[h] = loop[h] /\ pass'[h] = pass[h]
         /\ InFlight(g)' => loop'[g] = "run"
  <1> USE DEF LInv, TypeOK, PassesApart, InFlight, Goto, StartPass, runVars
  <1>1. CASE StorePid(g) \/ AddDependencies(g)
    BY <1>1 DEF StorePid, AddDependencies
  <1>2. CASE OnceReady(g) \/ OnceRun(g) \/ \E d \in Dep : OnceReceive(g, d)
    BY <1>2 DEF OnceReceive, OnceReady, OnceRun
  <1>3. CASE ReceiveWatchError(g) \/ Finish(g) \/ SendOnClosed(g)
    BY <1>3 DEF ReceiveWatchError, Finish, SendOnClosed, Exit
  <1>4. CASE ReceiveAndRun(g) \/ ReceiveAndWait(g) \/ \E t \in Timer : TimerFires(g, t)
    BY <1>4 DEF ReceiveAndRun, ReceiveAndWait, TimerFires
  <1>5. CASE RunReturns(g)
    BY <1>5 DEF RunReturns
  <1> QED
    BY <1>1, <1>2, <1>3, <1>4, <1>5 DEF RunnerStep

LEMMA PassesStep ==
  ASSUME LInv, Next
  PROVE  Unborn' /\ PassesApart'
  <1> USE DEF LInv, Unborn, PassesApart
  <1>1. ASSUME NEW g \in Gen, RunnerStep(g) PROVE Unborn' /\ PassesApart'
    <2>1. cur' = cur
      BY <1>1 DEF RunnerStep, StorePid, AddDependencies, OnceReceive, OnceReady, OnceRun,
           ReceiveWatchError, ReceiveAndRun, ReceiveAndWait, TimerFires, RunReturns, Finish,
           SendOnClosed, Exit, cliVars
    <2> QED
      BY <1>1, <2>1, RunnerPasses DEF InFlight
  <1>2. ASSUME NEW g \in Gen, NEW p \in Prefix, ReplicateEnds(g, p)
        PROVE  Unborn' /\ PassesApart'
    <2>1. \A h \in Gen : InFlight(h)' => InFlight(h)
      BY <1>2 DEF ReplicateEnds, InFlight, TypeOK
    <2>2. UNCHANGED <<loop, cur>>
      BY <1>2 DEF ReplicateEnds, cliVars
    <2> QED
      BY <2>1, <2>2
  <1>3. ASSUME \/ \E s \in Signal : SendSignal(s)
               \/ \E g \in Gen : WatchFails(g) \/ \E d \in Dep : Deliver(g, d)
               \/ CliStep /\ ~Reload
        PROVE  Unborn' /\ PassesApart'
    <2>1. UNCHANGED <<loop, pass, cur>>
      BY <1>3 DEF SendSignal, WatchFails, Deliver, CliStep, ReceiveError, ReceiveDone,
           ReceiveSignal, StopWatcher, DeletePid, CloseDone, Kill, ReloadFails, Listen, Exit,
           cliVars, runVars
    <2> QED
      BY <2>1 DEF InFlight
  <1>4. ASSUME Reload PROVE Unborn' /\ PassesApart'
    <2>1. cur' = cur + 1 /\ pass' = pass /\ loop' = [loop EXCEPT ![cur + 1] = "start"]
      BY <1>4 DEF Reload, Goto
    <2>2. cur \in Nat /\ Gen \subseteq Nat
      BY BudgetTypes DEF TypeOK, Signal
    <2>3. \A h \in Gen : (h = cur + 1 => ~InFlight(h)) /\ (h > cur + 1 => h > cur)
      BY <2>2
    <2> QED
      BY <2>1, <2>2, <2>3 DEF InFlight, TypeOK
  <1> QED
    BY <1>1, <1>2, <1>3, <1>4 DEF Next

\* No runner step removes the file, and storePid writes it before the runner
\* gets past its start.
LEMMA RunnerPid ==
  ASSUME LInv, NEW g \in Gen, RunnerStep(g), PidFile
  PROVE  /\ UNCHANGED <<cli, cur>>
         /\ pid => pid'
         /\ loop'[g] \notin {"start", "sendErr"} => pid' \/ loop[g] \notin {"start", "sendErr"}
  <1> USE DEF LInv, TypeOK, Goto, StartPass, cliVars
  <1>1. CASE StorePid(g)
    <2>1. CASE pid' = (pid \/ PidFile) /\ UNCHANGED <<cli, cur>>
      BY <2>1
    <2>2. CASE loop' = [loop EXCEPT ![g] = "sendErr"] /\ UNCHANGED pid /\ UNCHANGED <<cli, cur>>
      BY <2>2
    <2> QED
      BY <1>1, <2>1, <2>2 DEF StorePid
  <1>2. CASE AddDependencies(g) \/ OnceReady(g) \/ OnceRun(g) \/ \E d \in Dep : OnceReceive(g, d)
    BY <1>2 DEF AddDependencies, OnceReceive, OnceReady, OnceRun
  <1>3. CASE ReceiveWatchError(g) \/ Finish(g) \/ SendOnClosed(g) \/ RunReturns(g)
    BY <1>3 DEF ReceiveWatchError, Finish, SendOnClosed, Exit, RunReturns, runVars
  <1>4. CASE ReceiveAndRun(g) \/ ReceiveAndWait(g) \/ \E t \in Timer : TimerFires(g, t)
    BY <1>4 DEF ReceiveAndRun, ReceiveAndWait, TimerFires
  <1> QED
    BY <1>1, <1>2, <1>3, <1>4 DEF RunnerStep

LEMMA PidStep ==
  ASSUME LInv, Next
  PROVE  PidPresent'
  <1> SUFFICES ASSUME PidFile, cli' \in {"notify", "select"}, loop'[cur'] \notin {"start", "sendErr"}
               PROVE  pid'
    BY DEF PidPresent
  <1> USE DEF LInv, PidPresent
  <1>1. ASSUME NEW g \in Gen, RunnerStep(g) PROVE pid'
    <2>1. \A h \in Gen \ {g} : loop'[h] = loop[h]
      BY <1>1, RunnerPasses
    <2> QED
      BY <1>1, <2>1, RunnerPid DEF TypeOK
  <1>2. ASSUME NEW g \in Gen, \/ \E d \in Dep : Deliver(g, d)
                              \/ WatchFails(g)
                              \/ \E p \in Prefix : ReplicateEnds(g, p)
        PROVE  pid'
    BY <1>2 DEF Deliver, WatchFails, ReplicateEnds, cliVars, runVars
  <1>3. CASE \E s \in Signal : SendSignal(s)
    BY <1>3 DEF SendSignal, runVars
  <1>4. CASE CliStep
    <2>1. CASE Reload
      BY <2>1, BudgetTypes DEF Reload, Goto, TypeOK, ReloadsCounted, SignalKnown, One, Signal
    <2>2. CASE ~Reload
      BY <1>4, <2>2 DEF CliStep, ReceiveError, ReceiveDone, ReceiveSignal, StopWatcher,
           DeletePid, CloseDone, Kill, ReloadFails, Listen, Exit, SignalKnown, TypeOK, runVars
    <2> QED
      BY <2>1, <2>2
  <1> HIDE DEF LInv, PidPresent
  <1> QED
    BY <1>1, <1>2, <1>3, <1>4 DEF Next

LEMMA InvStep == LInv /\ [Next]_vars => LInv'
  <1> SUFFICES ASSUME LInv, [Next]_vars PROVE LInv'
    OBVIOUS
  <1>1. CASE Next
    <2>1. TypeOK'
      <3>1. ASSUME NEW g \in Gen, RunnerStep(g) PROVE TypeOK'
        BY <1>1, <3>1, RunnerTypes DEF Next
      <3>2. ASSUME NEW s \in Signal, SendSignal(s) PROVE TypeOK'
        <4>1. 1 \in Gen
          BY BudgetTypes DEF Signal
        <4> QED
          BY <3>2, <4>1, OutsideTypes
      <3>3. ASSUME NEW g \in Gen, \/ \E d \in Dep : Deliver(g, d)
                                  \/ WatchFails(g)
                                  \/ \E p \in Prefix : ReplicateEnds(g, p)
            PROVE  TypeOK'
        BY <3>3, OutsideTypes
      <3>4. CASE CliStep
        BY <3>4, CliTypes
      <3> QED
        BY <1>1, <3>1, <3>2, <3>3, <3>4 DEF Next
    <2> QED
      BY <1>1, <2>1, CountStep, PassesStep, PidStep DEF LInv
  <1>2. CASE UNCHANGED vars
    BY <1>2 DEF vars, cliVars, watchVars, runVars, LInv, TypeOK, ReloadsCounted, SignalKnown,
         Unborn, PassesApart, PidPresent, InFlight
  <1> QED
    BY <1>1, <1>2

\* The inductive invariant holds of every instance.
THEOREM Invariant == Spec => []LInv
  BY InvInit, InvStep, PTL DEF Spec

\* Every variable keeps its type; in particular the reloads never run out of
\* runners.
THEOREM TypeCorrect == Spec => []TypeOK
  <1>1. LInv => TypeOK
    BY DEF LInv
  <1> QED
    BY <1>1, Invariant, PTL

\* A runner leaves Run, to wait, to report or to end, only when every replicate
\* goroutine of the pass has ended: two passes of a runner never overlap.
THEOREM PassesNeverOverlap == Spec => []PassesApart
  <1>1. LInv => PassesApart
    BY DEF LInv
  <1> QED
    BY <1>1, Invariant, PTL

\* However many runners a reload has left behind, the one CLI.Run waits for
\* has its PID file.
THEOREM PidOfCurrent == Spec => []PidPresent
  <1>1. LInv => PidPresent
    BY DEF LInv
  <1> QED
    BY <1>1, Invariant, PTL
----------------------------------------------------------------------------
(* A once run.                                                             *)

\* The event loop of a once runner is entered with a view of every query.
AllReceived ==
  Once => \A g \in Gen : loop[g] \in {"select", "run", "sendDone"} => data[g] = Dep

\* A pass in Run has a goroutine for every prefix, which finds its view in a
\* once runner, and only a pass without a failure is reported as the end.
OncePass ==
  \A g \in Gen, p \in Prefix :
    /\ loop[g] = "run" => pass[g][p] # "none" /\ (Once => pass[g][p] # "nodata")
    /\ loop[g] = "sendDone" => pass[g][p] = "replicated"

EndReported == exit = "ok" => loop[cur] = "sendDone"

OInv == AllReceived /\ OncePass /\ EndReported

\* A once runner that has as many views as there are prefixes has them all.
LEMMA EnoughViews ==
  ASSUME NEW views \in SUBSET Dep, Cardinality(views) = Cardinality(Prefix)
  PROVE  views = Dep
  <1> DEFINE f == [p \in Prefix |-> DepOf[p]]
  <1>1. f \in Surjection(Prefix, Dep)
    <2>1. f \in [Prefix -> Dep]
      BY BudgetTypes
    <2>2. \A d \in Dep : \E p \in Prefix : f[p] = d
      BY ConstantsAssumption
    <2> QED
      BY <2>1, <2>2, Zenon DEF Surjection
  <1>2. IsFiniteSet(Prefix)
    BY ConstantsAssumption
  <1>3. IsFiniteSet(Dep) /\ Cardinality(Dep) <= Cardinality(Prefix)
    BY <1>1, <1>2, FS_Surjection, Zenon
  <1>4. /\ Cardinality(views) <= Cardinality(Dep)
        /\ Cardinality(Dep) = Cardinality(views) => Dep = views
    BY <1>3, FS_Subset, Zenon
  <1>5. Cardinality(Dep) \in Nat /\ Cardinality(Prefix) \in Nat
    BY <1>2, <1>3, FS_CardinalityType, Zenon
  <1> QED
    BY <1>3, <1>4, <1>5

\* What one step of runner g does to its place, its views and its pass.
LEMMA RunnerOnce ==
  ASSUME LInv, OInv, NEW g \in Gen, RunnerStep(g)
  PROVE  /\ UNCHANGED cur /\ (exit' = exit \/ exit' = "panic")
         /\ \A h \in Gen \ {g} : loop'[h] = loop[h] /\ data'[h] = data[h] /\ pass'[h] = pass[h]
         /\ Once /\ loop'[g] \in {"select", "run", "sendDone"} => data'[g] = Dep
         /\ \A p \in Prefix :
              /\ loop'[g] = "run" => pass'[g][p] # "none" /\ (Once => pass'[g][p] # "nodata")
              /\ loop'[g] = "sendDone" => pass'[g][p] = "replicated"
  <1> USE DEF LInv, OInv, TypeOK, AllReceived, OncePass, Goto, StartPass, cliVars
  <1>1. CASE StorePid(g) \/ AddDependencies(g)
    BY <1>1 DEF StorePid, AddDependencies
  <1>2. ASSUME NEW d \in Dep, OnceReceive(g, d)
        PROVE  /\ loop[g] = "once" /\ UNCHANGED <<cur, exit, loop, pass>>
               /\ \A h \in Gen \ {g} : data'[h] = data[h]
    BY <1>2 DEF OnceReceive, Receive
  <1>3. CASE OnceReady(g)
    <2>1. data[g] = Dep
      BY <1>3, EnoughViews DEF OnceReady
    <2> QED
      BY <1>3, <2>1 DEF OnceReady
  <1>4. CASE OnceRun(g)
    BY <1>4 DEF OnceRun
  <1>5. CASE ReceiveWatchError(g) \/ Finish(g)
    BY <1>5 DEF ReceiveWatchError, Finish
  <1>6. CASE SendOnClosed(g)
    BY <1>6 DEF SendOnClosed, Exit, runVars
  <1>7. CASE ReceiveAndRun(g)
    BY <1>7 DEF ReceiveAndRun, Receive
  <1>8. CASE ReceiveAndWait(g)
    BY <1>8 DEF ReceiveAndWait, Receive
  <1>9. ASSUME NEW t \in Timer, TimerFires(g, t)
        PROVE  /\ loop[g] = "select" /\ UNCHANGED <<cur, exit, data>>
               /\ loop' = [loop EXCEPT ![g] = "run"]
               /\ pass' = [pass EXCEPT ![g] = [p \in Prefix |-> "running"]]
    BY <1>9 DEF TimerFires
  <1>10. CASE RunReturns(g)
    BY <1>10 DEF RunReturns, AfterPass
  <1> QED
    BY <1>1, <1>2, <1>3, <1>4, <1>5, <1>6, <1>7, <1>8, <1>9, <1>10 DEF RunnerStep

LEMMA OnceStep == LInv /\ OInv /\ [Next]_vars => OInv'
  <1> SUFFICES ASSUME LInv, OInv, [Next]_vars PROVE OInv'
    OBVIOUS
  <1> USE DEF OInv
  <1>1. ASSUME Next, NEW g \in Gen, RunnerStep(g) PROVE OInv'
    <2>1. exit = "running"
      BY <1>1 DEF Next
    <2> QED
      BY <1>1, <2>1, RunnerOnce DEF AllReceived, OncePass, EndReported
  <1>2. ASSUME Next, NEW g \in Gen, NEW p \in Prefix, ReplicateEnds(g, p) PROVE OInv'
    <2>1. UNCHANGED <<cur, exit, loop, data>>
      BY <1>2 DEF ReplicateEnds, cliVars
    <2>2. loop[g] = "run"
      BY <1>2 DEF ReplicateEnds, LInv, PassesApart, InFlight
    <2>3. \/ pass' = [pass EXCEPT ![g][p] = IF DepOf[p] \in data[g] THEN "replicated" ELSE "nodata"]
          \/ pass' = [pass EXCEPT ![g][p] = "failed"]
      BY <1>2 DEF ReplicateEnds
    <2>4. Once => DepOf[p] \in data[g]
      BY <2>2, BudgetTypes DEF AllReceived
    <2>5. \A h \in Gen, q \in Prefix :
            \/ pass'[h][q] = pass[h][q]
            \/ loop[h] = "run" /\ pass'[h][q] # "none" /\ (Once => pass'[h][q] # "nodata")
      BY <2>2, <2>3, <2>4 DEF LInv, TypeOK
    <2>6. OncePass'
      BY <2>1, <2>5 DEF OncePass
    <2> QED
      BY <2>1, <2>6 DEF AllReceived, EndReported
  <1>3. ASSUME Next, \/ \E s \in Signal : SendSignal(s)
                     \/ \E g \in Gen : WatchFails(g) \/ \E d \in Dep : Deliver(g, d)
                     \/ CliStep /\ ~Reload
        PROVE  OInv'
    <2>1. UNCHANGED <<loop, pass, cur, data>>
      BY <1>3 DEF SendSignal, WatchFails, Deliver, CliStep, ReceiveError, ReceiveDone,
         ReceiveSignal, StopWatcher, DeletePid, CloseDone, Kill, ReloadFails, Listen, Exit,
         cliVars, runVars
    <2>2. exit' = "ok" => loop[cur] = "sendDone"
      BY <1>3 DEF Next, SendSignal, WatchFails, Deliver, CliStep, ReceiveError, ReceiveDone,
         ReceiveSignal, StopWatcher, DeletePid, CloseDone, Kill, ReloadFails, Listen, Exit,
         cliVars, runVars
    <2> QED
      BY <2>1, <2>2 DEF AllReceived, OncePass, EndReported
  <1>4. ASSUME Next, Reload PROVE OInv'
    <2>1. UNCHANGED <<pass, data, exit>> /\ loop' = [loop EXCEPT ![cur + 1] = "start"]
      BY <1>4 DEF Reload, Goto
    <2>2. exit = "running"
      BY <1>4 DEF Next
    <2> QED
      BY <2>1, <2>2 DEF AllReceived, OncePass, EndReported, LInv, TypeOK
  <1>5. CASE UNCHANGED vars
    BY <1>5 DEF vars, cliVars, runVars, AllReceived, OncePass, EndReported
  <1> HIDE DEF OInv
  <1> QED
    BY <1>1, <1>2, <1>3, <1>4, <1>5 DEF Next

\* A process that ends with success in once mode has replicated every prefix,
\* with data, whatever the number of prefixes and of queries they share.
THEOREM OnceCompleted == Spec => []OnceComplete
  <1>1. Init => OInv
    BY DEF Init, OInv, AllReceived, OncePass, EndReported
  <1>2. LInv /\ OInv => OnceComplete
    BY DEF LInv, TypeOK, OInv, OncePass, EndReported, OnceComplete
  <1> QED
    BY <1>1, <1>2, OnceStep, Invariant, PTL DEF Spec
============================================================================

----------------------- MODULE ReplicateReloadProofs -----------------------
(* Proofs about reloads: a reload between two passes is as safe as no       *)
(* reload, and no reload at all touches what the excludes protect.          *)
EXTENDS ReplicateSafeProofs, ReplicateReload

LEMMA BothRunners == Old \in Runner /\ New \in Runner /\ \A r \in Runner : r = Old \/ r = New
  BY ReloadAssumption

\* All that a new process changes in the variables of Replicate.
LEMMA RestartFacts ==
  ASSUME Restart
  PROVE  /\ \A r \in Runner : Fresh(r)'
         /\ UNCHANGED <<sourceVars, passVars, dst, status>>
  BY DEF Restart, Fresh

\* For the variables of Replicate a step of a reloaded process is one of
\* Replicate, or the restart of both runners at once.
LEMMA ReloadIsStep ==
  ASSUME [ReloadNext]_reloadVars
  PROVE  [Next]_vars \/ (Restart /\ (faults' = faults \/ faults' = faults + 1))
  <1>1. ASSUME NEW r \in Runner, NEW d \in Dep, Poll(r, d) PROVE Next
    BY <1>1 DEF Poll, Next
  <1>2. ASSUME NEW r \in Runner, Pass(r) PROVE Next
    BY <1>2 DEF Pass, Next
  <1>3. ASSUME NEW r \in Runner, NEW p \in Prefix, Goroutine(r, p) \/ GoroutineFails(r, p) PROVE Next
    BY <1>3 DEF Goroutine, GoroutineFails, Next
  <1>4. CASE Environment
    BY <1>4 DEF Next
  <1>5. CASE Reload \/ \E r \in Runner : Finish(r)
    BY <1>5 DEF Reload, Finish
  <1>6. CASE Exit \/ Killed
    BY <1>6 DEF Exit, Killed
  <1>7. CASE UNCHANGED reloadVars
    BY <1>7 DEF reloadVars
  <1> QED
    BY <1>1, <1>2, <1>3, <1>4, <1>5, <1>6, <1>7 DEF ReloadNext

LEMMA ReloadTypeStep == TypeOK /\ [ReloadNext]_reloadVars => TypeOK'
  <1> SUFFICES ASSUME TypeOK, [ReloadNext]_reloadVars PROVE TypeOK'
    OBVIOUS
  <1>1. CASE [Next]_vars
    BY <1>1, TypeStep
  <1>2. ASSUME Restart, faults' = faults \/ faults' = faults + 1 PROVE TypeOK'
    <2>1. faults' \in Nat /\ NoPairs \in Pairs
      BY <1>2 DEF TypeOK, NoPairs, Pairs
    <2> QED
      BY <1>2, <2>1 DEF TypeOK, Restart, sourceVars, passVars, Phase
  <1> QED
    BY <1>1, <1>2, ReloadIsStep

LEMMA ReloadTypeCorrect == ReloadSpec => []TypeOK
  BY TypeInit, ReloadTypeStep, PTL DEF ReloadSpec, ReloadInit

----------------------------------------------------------------------------
(* Where the runners are.                                                  *)

\* A runner that is not started yet has nothing, one that has ended is idle.
StageInv ==
  /\ stage \in [Runner -> Stage]
  /\ stage[Old] # "none"
  /\ stage[Old] = "started" => stage[New] = "none"
  /\ stage[New] = "none" => Fresh(New)
  /\ stage[Old] = "ended" => \A p \in Prefix : pc[Old][p] \in {"done", "failed"}

\* Steps that leave the views and the phases of a runner alone.
LEMMA StageKept ==
  ASSUME StageInv, UNCHANGED stage,
         stage[New] = "none" =>
           UNCHANGED <<vindex[New], vrecv[New], dataCh[New], data[New], pc[New]>>,
         stage[Old] = "ended" => UNCHANGED pc[Old]
  PROVE  StageInv'
  BY DEF StageInv, Fresh

LEMMA StageStep == TypeOK /\ StageInv /\ [ReloadNext]_reloadVars => StageInv'
  <1> SUFFICES ASSUME TypeOK, StageInv, [ReloadNext]_reloadVars PROVE StageInv'
    OBVIOUS
  <1> USE BothRunners DEF viewVars
  <1>1. CASE Environment /\ UNCHANGED <<stage, quiet>>
    BY <1>1, StageKept DEF Environment, SourcePut, SourceDelete, SourceRestore, FollowerCatchUp, LocalPut
  <1>2. CASE Reload
    BY <1>2, ReloadAssumption DEF Reload, StageInv, Stage
  <1>3. ASSUME NEW r \in Runner, Finish(r) PROVE StageInv'
    <2>1. UNCHANGED <<pc, vindex, vrecv, dataCh, data>> /\ (Fresh(New)' <=> Fresh(New))
      BY <1>3 DEF Finish, vars, Fresh
    <2> QED
      BY <1>3, <2>1, ReloadAssumption DEF Finish, StageInv, Stage
  <1>4. ASSUME NEW r \in Runner, NEW d \in Dep, Poll(r, d) PROVE StageInv'
    <2>1. stage[r] \in {"started", "late"} /\ UNCHANGED <<pc, data, stage>>
      BY <1>4 DEF Poll, Fetch
    <2>2. \A s \in Runner : s # r => UNCHANGED <<vindex[s], vrecv[s], dataCh[s]>>
      BY <1>4 DEF Poll, Fetch, IndexWentBack, SameContents, NewContents, TypeOK
    <2> QED
      BY <2>1, <2>2, StageKept
  <1>5. ASSUME NEW r \in Runner, Pass(r) PROVE StageInv'
    <2>1. /\ stage[r] \in {"started", "late", "stopped"} /\ UNCHANGED <<vindex, vrecv, stage>>
          /\ \A s \in Runner : s # r => UNCHANGED <<dataCh[s], data[s], pc[s]>>
      BY <1>5 DEF Pass, Run, TypeOK
    <2> QED
      BY <2>1, StageKept
  <1>6. ASSUME NEW r \in Runner, NEW p \in Prefix, Goroutine(r, p) \/ GoroutineFails(r, p)
        PROVE  StageInv'
    <2>1. pc[r][p] \notin {"done", "failed"} /\ UNCHANGED <<viewVars, stage>>
      BY <1>6 DEF Goroutine, GoroutineFails, Step, CheckDatacenter, GetStatus, NoData, GetView,
         Put, ListKeys, Delete, DeleteCheckpoint, SetStatus, CallFails
    <2>2. \A s \in Runner : s # r => UNCHANGED pc[s]
      BY <1>6 DEF Goroutine, GoroutineFails, Step, CheckDatacenter, GetStatus, NoData, GetView,
         Put, ListKeys, Delete, DeleteCheckpoint, SetStatus, CallFails, TypeOK
    <2>3. stage[New] = "none" => r # New
      BY <2>1 DEF StageInv, Fresh
    <2>4. stage[Old] = "ended" => r # Old
      BY <2>1 DEF StageInv
    <2> QED
      BY <2>1, <2>2, <2>3, <2>4, StageKept
  <1>7. CASE Exit \/ Killed
    <2>1. /\ \A r \in Runner : Fresh(r)'
          /\ \E r \in {InUse, New} :
               stage' = [x \in Runner |-> IF x = r THEN "started" ELSE IF x = New THEN "none" ELSE "ended"]
      BY <1>7, RestartFacts DEF Exit, Killed, Restart
    <2> QED
      BY <2>1, ReloadAssumption DEF StageInv, Stage, InUse, Fresh
  <1>8. CASE UNCHANGED reloadVars
    BY <1>8, StageKept DEF reloadVars, vars
  <1> QED
    BY <1>1, <1>2, <1>3, <1>4, <1>5, <1>6, <1>7, <1>8 DEF ReloadNext

\* A pass of the old runner goes on after Stop.
PassOutlivesStop ==
  stage[Old] \in {"late", "stopped"} /\ \E p \in Prefix : pc[Old][p] \notin {"done", "failed"}

\* The auxiliary variable says what it is there to say.
QuietMeans == quiet => ~PassOutlivesStop

LEMMA QuietMeansStep == TypeOK /\ QuietMeans /\ [ReloadNext]_reloadVars => QuietMeans'
  <1> SUFFICES ASSUME TypeOK, QuietMeans, [ReloadNext]_reloadVars, quiet',
                      stage'[Old] \in {"late", "stopped"}, NEW p \in Prefix
               PROVE  pc'[Old][p] \in {"done", "failed"}
    BY DEF QuietMeans, PassOutlivesStop
  <1> USE BothRunners DEF QuietMeans, PassOutlivesStop
  <1>1. CASE Environment /\ UNCHANGED <<stage, quiet>>
    BY <1>1 DEF Environment, SourcePut, SourceDelete, SourceRestore, FollowerCatchUp, LocalPut
  <1>2. CASE Reload
    BY <1>2 DEF Reload, vars
  <1>3. ASSUME NEW r \in Runner, Finish(r) PROVE pc'[Old][p] \in {"done", "failed"}
    BY <1>3 DEF Finish, vars
  <1>4. ASSUME NEW r \in Runner, NEW d \in Dep, Poll(r, d) PROVE pc'[Old][p] \in {"done", "failed"}
    BY <1>4 DEF Poll, Fetch
  <1>5. ASSUME NEW r \in Runner, Pass(r) PROVE pc'[Old][p] \in {"done", "failed"}
    <2>1. quiet /\ stage[r] = "started" /\ UNCHANGED stage
      BY <1>5 DEF Pass
    <2>2. r # Old
      BY <2>1
    <2>3. UNCHANGED pc[Old]
      BY <1>5, <2>2 DEF Pass, Run, TypeOK
    <2> QED
      BY <2>1, <2>3
  <1>6. ASSUME NEW r \in Runner, NEW q \in Prefix, Goroutine(r, q) \/ GoroutineFails(r, q)
        PROVE  pc'[Old][p] \in {"done", "failed"}
    <2>1. pc[r][q] \notin {"done", "failed"} /\ UNCHANGED <<stage, quiet>>
      BY <1>6 DEF Goroutine, GoroutineFails, Step, CheckDatacenter, GetStatus, NoData, GetView,
         Put, ListKeys, Delete, DeleteCheckpoint, SetStatus, CallFails
    <2>2. r # Old
      BY <2>1
    <2>3. UNCHANGED pc[Old]
      BY <1>6, <2>2 DEF Goroutine, GoroutineFails, Step, CheckDatacenter, GetStatus, NoData,
         GetView, Put, ListKeys, Delete, DeleteCheckpoint, SetStatus, CallFails, TypeOK
    <2> QED
      BY <2>1, <2>3
  <1>7. CASE Exit \/ Killed
    BY <1>7 DEF Exit, Killed, Restart
  <1>8. CASE UNCHANGED reloadVars
    BY <1>8 DEF reloadVars, vars
  <1> QED
    BY <1>1, <1>2, <1>3, <1>4, <1>5, <1>6, <1>7, <1>8 DEF ReloadNext

\* If no pass outlives Stop, the runner in use is alone.
LEMMA QuietAlone ==
  ASSUME StageInv, ~PassOutlivesStop, NEW r \in Runner, r = InUse
  PROVE  Alone(r)
  <1>1. CASE r = Old
    <2>1. Fresh(New)
      BY <1>1, ReloadAssumption DEF InUse, StageInv
    <2> QED
      BY <1>1, <2>1, BothRunners DEF Alone, InPass, Fresh
  <1>2. CASE r = New
    <2>1. \A p \in Prefix : pc[Old][p] \in {"done", "failed"}
      BY <1>2, BothRunners, ReloadAssumption DEF InUse, StageInv, Stage, PassOutlivesStop
    <2> QED
      BY <1>2, <2>1, BothRunners DEF Alone, InPass
  <1> QED
    BY <1>1, <1>2, BothRunners

----------------------------------------------------------------------------
(* A reload between two passes.                                            *)

\* The invariant of ReplicateSafe holds of the runner that CLI.Run waits for.
QuietInv ==
  /\ StageInv /\ QuietMeans
  /\ quiet => \A r \in Runner : r = InUse => RunnerInv(r)

LEMMA QuietInit == ReloadInit => QuietInv
  <1> SUFFICES ASSUME ReloadInit PROVE QuietInv
    OBVIOUS
  <1>1. StageInv /\ QuietMeans
    BY BothRunners, ReloadAssumption
       DEF ReloadInit, Init, StageInv, Stage, Fresh, QuietMeans, PassOutlivesStop
  <1> QED
    BY <1>1, InvInit DEF ReloadInit, QuietInv

\* Which runner is in use changes with a reload or a restart only.
LEMMA InUseKept ==
  ASSUME StageInv, [ReloadNext]_reloadVars, ~Reload, ~Restart
  PROVE  UNCHANGED InUse
  <1>1. CASE UNCHANGED stage
    BY <1>1 DEF InUse
  <1>2. ASSUME NEW r \in Runner, Finish(r) PROVE UNCHANGED InUse
    BY <1>2, BothRunners DEF Finish, StageInv, InUse
  <1> QED
    BY <1>1, <1>2 DEF ReloadNext, reloadVars, Poll, Pass, Goroutine, GoroutineFails, Exit, Killed

LEMMA QuietOnce == [ReloadNext]_reloadVars /\ quiet' => quiet
  BY DEF ReloadNext, reloadVars, Reload, Finish, Poll, Pass, Goroutine, GoroutineFails, Exit,
     Killed, Restart

LEMMA QuietReloadStep == TypeOK /\ QuietInv /\ [ReloadNext]_reloadVars => QuietInv'
  <1> SUFFICES ASSUME TypeOK, QuietInv, [ReloadNext]_reloadVars, quiet', NEW s \in Runner, s = InUse'
               PROVE  RunnerInv(s)'
    BY StageStep, QuietMeansStep DEF QuietInv
  <1>q. quiet
    BY QuietOnce
  <1>1. PICK r \in Runner : r = InUse
    BY BothRunners DEF InUse
  <1>2. StageInv /\ RunnerInv(r) /\ Alone(r)
    BY <1>1, <1>q, QuietAlone DEF QuietInv, QuietMeans
  <1>3. CASE Restart
    BY <1>2, <1>3, RestartFacts, FreshStep
  <1>4. CASE Reload
    <2>1. s = New /\ stage[New] = "none"
      BY <1>2, <1>4, BothRunners, ReloadAssumption DEF Reload, StageInv, InUse
    <2>2. Fresh(New)' /\ UNCHANGED <<sourceVars, dst, status>>
      BY <1>2, <1>4, <2>1 DEF Reload, StageInv, Fresh, vars, viewVars, sourceVars
    <2> QED
      BY <1>2, <2>1, <2>2, FreshStep
  <1>5. CASE ~Reload /\ ~Restart
    <2>1. s = r /\ [Next]_vars
      BY <1>1, <1>2, <1>5, InUseKept, ReloadIsStep
    <2> QED
      BY <1>2, <2>1, InvStep
  <1> QED
    BY <1>3, <1>4, <1>5

\* If no pass of the old runner is under way when CLI.Run stops it (cli.go:135),
\* no key is skipped that the destination does not hold: not by the old runner,
\* not by the new one that goes on from its checkpoints, not by a process that
\* is started after either has failed or was killed.
THEOREM QuietReloadSafe == ReloadSpec => []QuietCovers
  <1>1. TypeOK /\ QuietInv => QuietCovers
    BY InvCovers, BothRunners DEF QuietInv, QuietCovers, InUse
  <1> QED
    BY <1>1, QuietInit, QuietReloadStep, ReloadTypeCorrect, PTL DEF ReloadSpec

\* And the two runners together implement Replica, as one runner does.
THEOREM QuietReloadRefines == ReloadSpec => ImplementsReplica \/ <>(~quiet)
  <1>1. TypeOK /\ QuietInv /\ quiet /\ [ReloadNext]_reloadVars => [Rep!Next]_(Rep!vars)
    <2> SUFFICES ASSUME TypeOK, QuietInv, quiet, [ReloadNext]_reloadVars
                 PROVE  [Rep!Next]_(Rep!vars)
      OBVIOUS
    <2>1. PICK r \in Runner : r = InUse
      BY BothRunners DEF InUse
    <2>2. RunnerInv(r) /\ Alone(r)
      BY <2>1, QuietAlone DEF QuietInv, QuietMeans
    <2>3. CASE [Next]_vars
      BY <2>2, <2>3, StepRefines
    <2>4. CASE Restart
      BY <2>4 DEF Restart, sourceVars, Rep!vars, Copies, Marks
    <2> QED
      BY <2>3, <2>4, ReloadIsStep
  <1>2. ReloadInit => Rep!Init
    BY InitRefines DEF ReloadInit
  <1> QED
    BY <1>1, <1>2, QuietInit, QuietReloadStep, ReloadTypeCorrect, PTL
       DEF ReloadSpec, ImplementsReplica, Rep!Spec

----------------------------------------------------------------------------
(* Any reload.                                                             *)

LEMMA ReloadWorkStep == TypeOK /\ WorkInv /\ [ReloadNext]_reloadVars => WorkInv'
  BY WorkStep, ReloadIsStep DEF Restart, passVars, WorkInv

\* Even if passes of both runners run at once, neither overwrites nor deletes
\* what another client keeps below an exclude (runner.go:317-331 and 380-390).
THEOREM ReloadExcludedSafe == ASSUME ExcludesAgree PROVE ReloadSpec => ExcludedUntouched
  <1>1. ReloadInit => WorkInv
    BY DEF ReloadInit, Init, WorkInv
  <1>2. TypeOK /\ WorkInv /\ [ReloadNext]_reloadVars =>
          [\A p \in Prefix : \A dk \in ExcludedLocal[p] \ UNION {Owned(q) : q \in Prefix} :
             dst[dk] = Local => dst'[dk] = Local]_vars
    <2>1. TypeOK /\ WorkInv /\ [Next]_vars =>
            [\A p \in Prefix : \A dk \in ExcludedLocal[p] \ UNION {Owned(q) : q \in Prefix} :
               dst[dk] = Local => dst'[dk] = Local]_vars
      BY ExcludedStep
    <2>2. Restart => UNCHANGED dst
      BY DEF Restart
    <2> QED
      BY <2>1, <2>2, ReloadIsStep
  <1> QED
    BY <1>1, <1>2, ReloadTypeCorrect, ReloadWorkStep, PTL DEF ReloadSpec, ExcludedUntouched
============================================================================

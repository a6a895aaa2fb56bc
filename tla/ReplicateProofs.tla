-------------------------- MODULE ReplicateProofs --------------------------
(* Proofs about Replicate for every deployment: any number of runners,      *)
(* prefixes and sources, stale queries, restored sources, failed calls and  *)
(* crashes.  Types, what the excludes protect, and the refusal of the       *)
(* agent's own datacenter.                                                  *)
EXTENDS Replicate, TLAPS

\* What the operators of a pass return.
LEMMA OperatorTypes ==
  ASSUME NEW p \in Prefix
  PROVE  /\ DepOf[p] \in Dep /\ StatusOf[p] \in StatusKey
         /\ \A k \in Key : DestOf[p][k] \in DKey
         /\ \A x, i : Updates(p, x, i) \subseteq Key
         /\ \A x, s : Deletes(p, x, s) \subseteq DKey
         /\ StaleCheckpoints(p) \subseteq StatusKey
  BY ConstantsAssumption DEF Updates, Deletes, StaleCheckpoints

\* What a query is answered is a listing and an index.
LEMMA AnswersType ==
  ASSUME TypeOK, NEW d \in Dep, NEW a \in Answers(d)
  PROVE  a.data \in Pairs /\ a.index \in Nat
  BY DEF TypeOK, Answers

LEMMA RestartedType ==
  ASSUME TypeOK, NEW r \in Runner, Restarted(r), faults' \in Nat
  PROVE  TypeOK'
  <1>1. NoPairs \in Pairs
    BY DEF NoPairs, Pairs
  <1> QED
    BY <1>1 DEF TypeOK, Restarted, sourceVars, passVars, Phase

LEMMA TypeStep == TypeOK /\ [Next]_vars => TypeOK'
  <1> SUFFICES ASSUME TypeOK, [Next]_vars PROVE TypeOK'
    OBVIOUS
  <1> USE DEF sourceVars, viewVars, passVars
  <1>1. ASSUME NEW d \in Dep, NEW k \in Key, SourcePut(d, k) PROVE TypeOK'
    <2>1. NextIndex(d) \in Nat
      BY DEF TypeOK, NextIndex
    <2> QED
      BY <1>1, <2>1 DEF TypeOK, SourcePut, Pairs
  <1>2. ASSUME NEW d \in Dep, NEW k \in Key, SourceDelete(d, k) PROVE TypeOK'
    <2>1. NextIndex(d) \in Nat
      BY DEF TypeOK, NextIndex
    <2> QED
      BY <1>2, <2>1 DEF TypeOK, SourceDelete, Pairs
  <1>3. ASSUME NEW d \in Dep, FollowerCatchUp(d) PROVE TypeOK'
    BY <1>3 DEF TypeOK, FollowerCatchUp
  <1>4. ASSUME NEW dk \in DKey, LocalPut(dk) PROVE TypeOK'
    BY <1>4 DEF TypeOK, LocalPut, Value
  <1>5. ASSUME NEW r \in Runner, NEW d \in Dep, Fetch(r, d) PROVE TypeOK'
    <2>1. PICK a \in Answers(d) :
            IndexWentBack(r, d, a) \/ SameContents(r, d, a) \/ NewContents(r, d, a)
      BY <1>5 DEF Fetch
    <2>2. a.data \in Pairs /\ a.index \in Nat
      BY AnswersType
    <2>3. CASE IndexWentBack(r, d, a)
      BY <1>5, <2>3 DEF TypeOK, Fetch, IndexWentBack
    <2>4. CASE SameContents(r, d, a)
      BY <1>5, <2>2, <2>4 DEF TypeOK, Fetch, SameContents
    <2>5. CASE NewContents(r, d, a)
      BY <1>5, <2>2, <2>5 DEF TypeOK, Fetch, NewContents
    <2> QED
      BY <2>1, <2>3, <2>4, <2>5
  <1>6. ASSUME NEW r \in Runner, Run(r) PROVE TypeOK'
    BY <1>6 DEF TypeOK, Run, Phase
  <1>7. ASSUME NEW r \in Runner, NEW p \in Prefix, CheckDatacenter(r, p) PROVE TypeOK'
    BY <1>7 DEF TypeOK, CheckDatacenter, Phase
  <1>8. ASSUME NEW r \in Runner, NEW p \in Prefix, GetStatus(r, p) PROVE TypeOK'
    BY <1>8, OperatorTypes DEF TypeOK, GetStatus, Phase
  <1>9. ASSUME NEW r \in Runner, NEW p \in Prefix, GetView(r, p) PROVE TypeOK'
    <2>1. /\ vdata[r][DepOf[p]] \in Pairs /\ vindex[r][DepOf[p]] \in Nat
          /\ Updates(p, vdata[r][DepOf[p]], seen[r][p]) \in SUBSET Key
      BY OperatorTypes DEF TypeOK
    <2> QED
      BY <1>9, <2>1 DEF TypeOK, GetView, Phase
  <1>10. ASSUME NEW r \in Runner, NEW p \in Prefix, NEW k \in Key, Put(r, p, k) PROVE TypeOK'
    BY <1>10, OperatorTypes DEF TypeOK, Put, Value, Entry, Pairs
  <1>11. ASSUME NEW r \in Runner, NEW p \in Prefix, ListKeys(r, p) PROVE TypeOK'
    BY <1>11, OperatorTypes DEF TypeOK, ListKeys, Phase
  <1>12. ASSUME NEW r \in Runner, NEW p \in Prefix, NEW dk \in DKey, Delete(r, p, dk) PROVE TypeOK'
    BY <1>12 DEF TypeOK, Delete, Value
  <1>13. ASSUME NEW r \in Runner, NEW p \in Prefix, SetStatus(r, p) PROVE TypeOK'
    BY <1>13, OperatorTypes DEF TypeOK, SetStatus, Phase
  <1>14. ASSUME NEW r \in Runner, NEW p \in Prefix, CallFails(r, p) PROVE TypeOK'
    <2>1. status' \in [StatusKey -> Nat]
      <3>1. last[r][p] \in Nat /\ StatusOf[p] \in StatusKey
        BY OperatorTypes DEF TypeOK
      <3>2. CASE UNCHANGED status
        BY <3>2 DEF TypeOK
      <3>3. CASE status' = [status EXCEPT ![StatusOf[p]] = last[r][p]]
        BY <3>1, <3>3 DEF TypeOK
      <3> QED
        BY <1>14, <3>2, <3>3 DEF CallFails
    <2>2. pc' \in [Runner -> [Prefix -> Phase]]
      BY <1>14 DEF TypeOK, CallFails, Phase
    <2>3. faults' \in Nat /\ UNCHANGED <<sourceVars, viewVars, passVars, dst>>
      BY <1>14 DEF TypeOK, CallFails
    <2> QED
      BY <2>1, <2>2, <2>3 DEF TypeOK
  <1>15. ASSUME NEW r \in Runner, ExitOnError(r) PROVE TypeOK'
    BY <1>15, RestartedType DEF TypeOK, ExitOnError
  <1>16. ASSUME NEW r \in Runner, Crash(r) PROVE TypeOK'
    BY <1>16, RestartedType DEF TypeOK, Crash
  <1>17. ASSUME NEW r \in Runner, NEW p \in Prefix, NoData(r, p) PROVE TypeOK'
    BY <1>17 DEF TypeOK, NoData, Phase
  <1>18. ASSUME NEW d \in Dep, SourceRestore(d) PROVE TypeOK'
    BY <1>18 DEF TypeOK, SourceRestore
  <1>19. ASSUME NEW r \in Runner, NEW p \in Prefix, NEW s \in StatusKey, DeleteCheckpoint(r, p, s)
         PROVE  TypeOK'
    BY <1>19 DEF TypeOK, DeleteCheckpoint
  <1>20. ASSUME UNCHANGED vars PROVE TypeOK'
    BY <1>20 DEF TypeOK, vars
  <1> QED
    BY <1>1, <1>2, <1>3, <1>4, <1>5, <1>6, <1>7, <1>8, <1>9, <1>10, <1>11, <1>12,
       <1>13, <1>14, <1>15, <1>16, <1>17, <1>18, <1>19, <1>20 DEF Next, Environment, Step

LEMMA TypeInit == Init => TypeOK
  BY ConstantsAssumption DEF Init, TypeOK, Pairs, NoPairs, Phase, Value

\* Every variable keeps its type, whatever the deployment.
THEOREM TypeCorrect == Spec => []TypeOK
  BY TypeInit, TypeStep, PTL DEF Spec

----------------------------------------------------------------------------
(* What the steps leave alone.                                             *)

\* A local key counts as excluded only if the source key it comes from does.
ExcludesAgree ==
  \A p \in Prefix, k \in Key : DestOf[p][k] \in ExcludedLocal[p] => k \in Excluded[p]

\* What a worker has left to do: replicated keys to put, keys of its own to delete.
WorkInv ==
  \A r \in Runner, p \in Prefix :
    toPut[r][p] \subseteq Replicated(p) /\ toDel[r][p] \cap DKey \subseteq Owned(p)

LEMMA WorkTypes ==
  ASSUME NEW p \in Prefix
  PROVE  /\ \A x, i : Updates(p, x, i) \subseteq Replicated(p)
         /\ \A x, s : (Deletes(p, x, s) \cup StaleCheckpoints(p)) \cap DKey \subseteq Owned(p)
  BY OperatorTypes, ConstantsAssumption DEF Updates, Replicated, Deletes, Owned

LEMMA WorkStep == TypeOK /\ WorkInv /\ [Next]_vars => WorkInv'
  <1> SUFFICES ASSUME TypeOK, WorkInv, [Next]_vars PROVE WorkInv'
    OBVIOUS
  <1> USE DEF sourceVars, viewVars, passVars
  <1>1. ASSUME UNCHANGED <<toPut, toDel>> PROVE WorkInv'
    BY <1>1 DEF WorkInv
  <1>2. ASSUME NEW r \in Runner, NEW p \in Prefix, GetView(r, p) PROVE WorkInv'
    BY <1>2, WorkTypes DEF GetView, TypeOK, WorkInv
  <1>3. ASSUME NEW r \in Runner, NEW p \in Prefix, NEW k \in Key, Put(r, p, k) PROVE WorkInv'
    BY <1>3 DEF Put, TypeOK, WorkInv
  <1>4. ASSUME NEW r \in Runner, NEW p \in Prefix, ListKeys(r, p) PROVE WorkInv'
    BY <1>4, WorkTypes DEF ListKeys, TypeOK, WorkInv
  <1>5. ASSUME NEW r \in Runner, NEW p \in Prefix, NEW dk,
               toDel' = [toDel EXCEPT ![r][p] = @ \ {dk}], UNCHANGED toPut
        PROVE  WorkInv'
    BY <1>5 DEF TypeOK, WorkInv
  <1>6. ASSUME NEW r \in Runner, NEW p \in Prefix, Step(r, p) PROVE WorkInv'
    <2>1. CASE CheckDatacenter(r, p) \/ GetStatus(r, p) \/ NoData(r, p) \/ SetStatus(r, p)
      BY <1>1, <2>1 DEF CheckDatacenter, GetStatus, NoData, SetStatus
    <2>2. CASE \E dk \in DKey : Delete(r, p, dk)
      BY <1>5, <2>2 DEF Delete
    <2>3. CASE \E s \in StatusKey : DeleteCheckpoint(r, p, s)
      BY <1>5, <2>3 DEF DeleteCheckpoint
    <2> QED
      BY <1>2, <1>3, <1>4, <1>6, <2>1, <2>2, <2>3 DEF Step
  <1>7. ASSUME NEW r \in Runner, NEW p \in Prefix, CallFails(r, p) PROVE WorkInv'
    BY <1>1, <1>7 DEF CallFails
  <1>8. ASSUME NEW r \in Runner, Run(r) \/ ExitOnError(r) \/ Crash(r) PROVE WorkInv'
    BY <1>1, <1>8 DEF Run, ExitOnError, Crash, Restarted
  <1>9. ASSUME NEW r \in Runner, NEW d \in Dep, Fetch(r, d) PROVE WorkInv'
    BY <1>1, <1>9 DEF Fetch
  <1>10. CASE Environment
    BY <1>1, <1>10 DEF Environment, SourcePut, SourceDelete, SourceRestore, FollowerCatchUp, LocalPut
  <1>11. CASE UNCHANGED vars
    BY <1>1, <1>11 DEF vars
  <1> QED
    BY <1>6, <1>7, <1>8, <1>9, <1>10, <1>11 DEF Next

LEMMA WorkCorrect == Spec => []WorkInv
  <1>1. Init => WorkInv
    BY DEF Init, WorkInv
  <1> QED
    BY <1>1, TypeInit, TypeStep, WorkStep, PTL DEF Spec

\* The steps that change a key of the destination.
LEMMA DestinationStep ==
  ASSUME TypeOK, WorkInv, [Next]_vars, NEW dk \in DKey, dst'[dk] # dst[dk]
  PROVE  \/ LocalPut(dk)
         \/ \E r \in Runner, p \in Prefix : \E k \in Replicated(p) : Put(r, p, k) /\ dk = DestOf[p][k]
         \/ \E r \in Runner, p \in Prefix : Delete(r, p, dk) /\ dk \in Owned(p)
  <1> USE DEF sourceVars, viewVars, passVars
  <1>1. ASSUME NEW k \in DKey, LocalPut(k) PROVE k = dk
    BY <1>1 DEF LocalPut, TypeOK
  <1>2. ASSUME NEW r \in Runner, NEW p \in Prefix, NEW k \in Key, Put(r, p, k)
        PROVE  k \in Replicated(p) /\ dk = DestOf[p][k]
    BY <1>2 DEF Put, TypeOK, WorkInv
  <1>3. ASSUME NEW r \in Runner, NEW p \in Prefix, NEW k \in DKey, Delete(r, p, k)
        PROVE  k = dk /\ dk \in Owned(p)
    BY <1>3 DEF Delete, TypeOK, WorkInv
  <1>4. dst' # dst
    OBVIOUS
  <1> QED
    BY <1>1, <1>2, <1>3, <1>4 DEF Next, Environment, Step, SourcePut, SourceDelete, SourceRestore,
       FollowerCatchUp, Fetch, Run, CheckDatacenter, GetStatus, NoData, GetView, ListKeys,
       DeleteCheckpoint, SetStatus, CallFails, ExitOnError, Crash, Restarted, vars

\* A prefix puts only what it owns.
LEMMA PutIsOwned ==
  ASSUME ExcludesAgree, NEW p \in Prefix, NEW k \in Replicated(p)
  PROVE  DestOf[p][k] \in Owned(p)
  BY ConstantsAssumption DEF ExcludesAgree, Owned, Replicated

LEMMA ExcludedStep ==
  ASSUME ExcludesAgree, TypeOK, WorkInv, [Next]_vars, NEW p \in Prefix,
         NEW dk \in ExcludedLocal[p] \ UNION {Owned(q) : q \in Prefix}, dst[dk] = Local
  PROVE  dst'[dk] = Local
  <1>1. dk \in DKey /\ \A q \in Prefix : dk \notin Owned(q)
    BY ConstantsAssumption
  <1> QED
    BY <1>1, DestinationStep, PutIsOwned DEF LocalPut

\* The update loop and the delete loop respect the same excludes
\* (runner.go:317-331 and 380-390): local data below one survives every step,
\* of any number of runners, whatever the source answers.
THEOREM ExcludedSafe == ASSUME ExcludesAgree PROVE Spec => ExcludedUntouched
  <1>1. TypeOK /\ WorkInv /\ [Next]_vars =>
          [\A p \in Prefix : \A dk \in ExcludedLocal[p] \ UNION {Owned(q) : q \in Prefix} :
             dst[dk] = Local => dst'[dk] = Local]_vars
    BY ExcludedStep
  <1> QED
    BY <1>1, TypeCorrect, WorkCorrect, PTL DEF Spec, ExcludedUntouched

\* A worker of a prefix that is to be refused never gets past the refusal.
SelfIdle == \A r \in Runner, p \in self : pc[r][p] \in {"done", "self", "failed"}

LEMMA SelfIdleStep == TypeOK /\ SelfIdle /\ [Next]_vars => SelfIdle'
  <1> SUFFICES ASSUME TypeOK, SelfIdle, [Next]_vars PROVE SelfIdle'
    OBVIOUS
  <1> USE DEF sourceVars, viewVars, passVars
  <1>1. \A p \in self : p \in Prefix
    BY DEF TypeOK
  <1>2. self' = self
    <2>1. Environment => self' = self
      BY DEF Environment, SourcePut, SourceDelete, SourceRestore, FollowerCatchUp, LocalPut
    <2>2. \A r \in Runner, p \in Prefix : Step(r, p) => self' = self
      <3>1. ASSUME NEW r \in Runner, NEW p \in Prefix,
                   \/ CheckDatacenter(r, p) \/ GetStatus(r, p) \/ NoData(r, p)
                   \/ GetView(r, p) \/ ListKeys(r, p) \/ SetStatus(r, p)
            PROVE  self' = self
        BY <3>1 DEF CheckDatacenter, GetStatus, NoData, GetView, ListKeys, SetStatus
      <3>2. ASSUME NEW r \in Runner, NEW p \in Prefix,
                   \/ \E k \in Key : Put(r, p, k)
                   \/ \E dk \in DKey : Delete(r, p, dk)
                   \/ \E s \in StatusKey : DeleteCheckpoint(r, p, s)
            PROVE  self' = self
        BY <3>2 DEF Put, Delete, DeleteCheckpoint
      <3> QED
        BY <3>1, <3>2 DEF Step
    <2>3. \A r \in Runner, p \in Prefix : CallFails(r, p) => self' = self
      BY DEF CallFails
    <2>4. \A r \in Runner : Run(r) \/ ExitOnError(r) \/ Crash(r) => self' = self
      BY DEF Run, ExitOnError, Crash, Restarted
    <2>5. \A r \in Runner, d \in Dep : Fetch(r, d) => self' = self
      BY DEF Fetch
    <2> QED
      BY <2>1, <2>2, <2>3, <2>4, <2>5 DEF Next, vars
  <1>3. ASSUME NEW r \in Runner, NEW p \in Prefix, NEW next \in Phase,
               pc' = [pc EXCEPT ![r][p] = next],
               p \in self => next \in {"done", "self", "failed"}
        PROVE  SelfIdle'
    BY <1>1, <1>2, <1>3 DEF TypeOK, SelfIdle
  <1>4. ASSUME NEW r \in Runner, Run(r) PROVE SelfIdle'
    BY <1>1, <1>2, <1>4 DEF Run, TypeOK, SelfIdle
  <1>5. ASSUME NEW r \in Runner, Restarted(r) PROVE SelfIdle'
    BY <1>1, <1>2, <1>5 DEF Restarted, TypeOK, SelfIdle
  <1>6. ASSUME UNCHANGED pc PROVE SelfIdle'
    BY <1>2, <1>6 DEF SelfIdle
  <1>7. ASSUME NEW r \in Runner, NEW p \in Prefix, Step(r, p) PROVE SelfIdle'
    <2>1. CASE CheckDatacenter(r, p)
      <3>1. CASE p \in self
        BY <1>3, <2>1, <3>1 DEF CheckDatacenter, Phase
      <3>2. CASE p \notin self
        BY <1>3, <2>1, <3>2 DEF CheckDatacenter, Phase
      <3> QED
        BY <3>1, <3>2
    <2>2. CASE GetStatus(r, p)
      BY <1>3, <2>2 DEF GetStatus, Phase, SelfIdle
    <2>3. CASE NoData(r, p)
      BY <1>3, <2>3 DEF NoData, Phase
    <2>4. CASE GetView(r, p)
      BY <1>3, <2>4 DEF GetView, Phase, SelfIdle
    <2>5. CASE \E k \in Key : Put(r, p, k)
      BY <1>6, <2>5 DEF Put
    <2>6. CASE ListKeys(r, p)
      BY <1>3, <2>6 DEF ListKeys, Phase, SelfIdle
    <2>7. CASE \E dk \in DKey : Delete(r, p, dk)
      BY <1>6, <2>7 DEF Delete
    <2>8. CASE \E s \in StatusKey : DeleteCheckpoint(r, p, s)
      BY <1>6, <2>8 DEF DeleteCheckpoint
    <2>9. CASE SetStatus(r, p)
      BY <1>3, <2>9 DEF SetStatus, Phase
    <2> QED
      BY <1>7, <2>1, <2>2, <2>3, <2>4, <2>5, <2>6, <2>7, <2>8, <2>9 DEF Step
  <1>8. ASSUME NEW r \in Runner, NEW p \in Prefix, CallFails(r, p) PROVE SelfIdle'
    BY <1>3, <1>8 DEF CallFails, Phase
  <1> QED
    BY <1>4, <1>5, <1>6, <1>7, <1>8 DEF Next, Environment, SourcePut, SourceDelete,
       SourceRestore, FollowerCatchUp, LocalPut, Fetch, ExitOnError, Crash, vars

LEMMA NoSelfStep ==
  ASSUME ExcludesAgree, TypeOK, WorkInv, SelfIdle, [Next]_vars, NEW p \in self,
         NEW dk \in Under[p] \ UNION {Owned(q) : q \in Prefix \ self}, dst'[dk] # dst[dk]
  PROVE  dst'[dk] = Local
  <1>1. dk \in DKey /\ \A q \in Prefix : q \notin self => dk \notin Owned(q)
    BY ConstantsAssumption DEF TypeOK
  <1>2. ASSUME NEW r \in Runner, NEW q \in Prefix, NEW k \in Replicated(q), Put(r, q, k)
        PROVE  dk # DestOf[q][k]
    BY <1>1, <1>2, PutIsOwned DEF Put, SelfIdle
  <1>3. ASSUME NEW r \in Runner, NEW q \in Prefix, Delete(r, q, dk) PROVE dk \notin Owned(q)
    BY <1>1, <1>3 DEF Delete, SelfIdle
  <1>4. LocalPut(dk)
    BY <1>1, <1>2, <1>3, DestinationStep
  <1> QED
    BY <1>1, <1>4 DEF LocalPut, TypeOK

\* A prefix whose source is the local datacenter (runner.go:279) changes no key
\* below its destination, whatever the other prefixes do.
THEOREM NoSelfCopy == ASSUME ExcludesAgree PROVE Spec => NoSelfReplication
  <1>1. Init => SelfIdle
    BY ConstantsAssumption DEF Init, SelfIdle
  <1>2. Spec => []SelfIdle
    BY <1>1, TypeInit, TypeStep, SelfIdleStep, PTL DEF Spec
  <1>3. TypeOK /\ WorkInv /\ SelfIdle /\ [Next]_vars =>
          [\A p \in self : \A dk \in Under[p] \ UNION {Owned(q) : q \in Prefix \ self} :
             dst'[dk] # dst[dk] => dst'[dk] = Local]_vars
    BY NoSelfStep
  <1> QED
    BY <1>2, <1>3, TypeCorrect, WorkCorrect, PTL DEF Spec, NoSelfReplication
============================================================================

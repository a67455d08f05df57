--------------------------- MODULE SynctestProofs ---------------------------
(***************************************************************************)
(* Proofs about Synctest, for every number of children, files, passes and  *)
(* iterations, and for every set of faults.                                *)
(***************************************************************************)
EXTENDS Synctest, FiniteSetTheorems, TLAPS

Working == {"iter", "open", "write", "rename", "lag", "drain"}
CPC == {"unborn", "nofork", "exit", "zombie", "reaped"} \cup Working

\* The variables of the fork / report / wait protocol.
ProtocolTypes ==
    /\ pc \in {"start", "mkdir", "fork", "wait", "scan", "rmdir", "exit0", "exit1"}
    /\ this_child_index \in 0 .. n_threads
    /\ thread_group \in Int
    /\ children_left \in 0 .. n_threads
    /\ child \in 0 .. n_threads
    /\ child_status \in [Children -> 0 .. 2]
    /\ cpc \in [Children -> CPC]

Uncounted == {c \in Children : child_status[c] # 2}

\* Where the parent is bounds what the children can be.
Spawning ==
    /\ pc \in {"mkdir", "fork"} => this_child_index < n_threads
    /\ pc = "start" => this_child_index = 0
    /\ pc \in {"start", "mkdir", "fork"} =>
          \A c \in Children : /\ child_status[c] # 2
                              /\ cpc[c] # "reaped"
                              /\ c >= this_child_index <=> cpc[c] = "unborn"
    /\ pc \in {"wait", "scan", "rmdir", "exit0"} =>
          \A c \in Children : cpc[c] # "unborn"

\* A child reports exactly when its work is done.
Reporting ==
    \A c \in Children :
        /\ cpc[c] \in {"unborn", "nofork"} \cup Working => child_status[c] = 0
        /\ cpc[c] = "exit" => child_status[c] # 0

\* A report of a child waited for is counted before the next wait3().
ReapedCounted ==
    \A c \in Children : cpc[c] = "reaped" /\ child_status[c] = 1
                           => pc = "scan" /\ c >= child

Counting ==
    /\ pc \in {"wait", "scan", "rmdir"} => children_left = Cardinality(Uncounted)
    /\ pc = "wait" => children_left # 0
    /\ pc = "rmdir" => children_left = 0
    /\ pc = "exit0" => \A c \in Children : child_status[c] = 2

FailureReason ==
    pc = "exit1" => \/ n_threads = 0
                    \/ \E c \in Children : Failed(c) \/ cpc[c] = "unborn"

ProtocolInv == ProtocolTypes /\ Spawning /\ Reporting /\ ReapedCounted
                 /\ Counting /\ FailureReason

-----------------------------------------------------------------------------
\* A child's step, seen from the protocol: work, the report, the end of the
\* process, or a failure.
LEMMA ChildStepShape ==
    ASSUME ProtocolTypes, NEW c \in Children, ChildStep(c)
    PROVE  /\ UNCHANGED <<parentVars, grp, dirs>>
           /\ \/ /\ cpc[c] \in Working /\ UNCHANGED child_status
                 /\ \E s \in Working : cpc' = [cpc EXCEPT ![c] = s]
              \/ /\ cpc[c] \in Working
                 /\ child_status' = [child_status EXCEPT ![c] = 1]
                 /\ cpc' = [cpc EXCEPT ![c] = "exit"]
              \/ /\ cpc[c] \in Working \cup {"exit"} /\ UNCHANGED child_status
                 /\ cpc' = [cpc EXCEPT ![c] = "zombie"]
<1> USE DEF ProtocolTypes, unchangedByChild, Working, CPC
<1>1. CASE OpenDir(c)        BY <1>1 DEF OpenDir
<1>2. CASE OpenFile(c)       BY <1>2 DEF OpenFile
<1>3. CASE WriteAndClose(c)  BY <1>3 DEF WriteAndClose
<1>4. CASE Rename(c)
  <2>1. cpc' = [cpc EXCEPT ![c] = "rename"]
    BY <1>4 DEF Rename
  <2> QED BY <1>4, <2>1 DEF Rename
<1>5. CASE EndOfFile(c)      BY <1>5 DEF EndOfFile
<1>6. CASE LaggedUnlink(c)   BY <1>6 DEF LaggedUnlink, NextFile
<1>7. CASE FinalUnlink(c)
  <2>1. cpc' = [cpc EXCEPT ![c] = "drain"]
    BY <1>7 DEF FinalUnlink
  <2> QED BY <1>7, <2>1 DEF FinalUnlink
<1>8. CASE EndOfIter(c)      BY <1>8 DEF EndOfIter
<1>9. CASE Report(c)         BY <1>9 DEF Report
<1>10. CASE ExitChild(c)     BY <1>10 DEF ExitChild
<1>11. CASE ChildFails(c)    BY <1>11 DEF ChildFails, AtCall
<1> QED BY <1>1, <1>2, <1>3, <1>4, <1>5, <1>6, <1>7, <1>8, <1>9, <1>10, <1>11
        DEF ChildStep

\* Children are finitely many, n_threads of them.
LEMMA ChildrenFinite == IsFiniteSet(Children) /\ Cardinality(Children) = n_threads
<1>1. n_threads \in Nat
  BY OptionsAssumption
<1>2. /\ IsFiniteSet(0 .. n_threads - 1)
      /\ Cardinality(0 .. n_threads - 1)
           = IF 0 > n_threads - 1 THEN 0 ELSE (n_threads - 1) - 0 + 1
  BY <1>1, FS_Interval
<1> QED BY <1>1, <1>2 DEF Children

\* The number of uncounted children: all of them, none, or one fewer.
LEMMA UncountedFacts ==
    /\ IsFiniteSet(Uncounted) /\ Cardinality(Uncounted) \in 0 .. n_threads
    /\ Cardinality(Uncounted) = 0 => Uncounted = {}
    /\ Uncounted = Children => Cardinality(Uncounted) = n_threads
<1>1. Uncounted \subseteq Children
  BY DEF Uncounted
<1>2. IsFiniteSet(Uncounted) /\ Cardinality(Uncounted) <= Cardinality(Children)
  BY <1>1, ChildrenFinite, FS_Subset
<1>3. Cardinality(Uncounted) \in Nat
  BY <1>2, FS_CardinalityType
<1>4. Cardinality(Uncounted) = 0 <=> Uncounted = {}
  BY <1>2, FS_EmptySet
<1> QED BY <1>2, <1>3, <1>4, ChildrenFinite, OptionsAssumption

-----------------------------------------------------------------------------
LEMMA ProtocolInit == Init => ProtocolInv
<1> SUFFICES ASSUME Init PROVE ProtocolInv
  OBVIOUS
<1> USE OptionsAssumption DEF Init
<1>1. ProtocolTypes
  BY DEF ProtocolTypes, CPC
<1>2. Spawning /\ Reporting /\ ReapedCounted /\ Counting /\ FailureReason
  BY DEF Spawning, Reporting, ReapedCounted, Counting, FailureReason, Children, Working
<1> QED BY <1>1, <1>2 DEF ProtocolInv

\* SpawnAt leaves the spawn loop exactly when all children are reached.
LEMMA SpawnAtFacts ==
    ASSUME NEW i \in Nat
    PROVE  /\ SpawnAt(i) \in {"mkdir", "fork", "wait"}
           /\ SpawnAt(i) = "wait" <=> i >= n_threads
BY OptionsAssumption DEF SpawnAt

\* The steps of a child preserve the protocol's invariant.
LEMMA ProtocolChild ==
    ASSUME ProtocolInv, NEW c \in Children, ChildStep(c)
    PROVE  ProtocolInv'
<1> USE DEF ProtocolInv
<1>0. UNCHANGED parentVars /\ cpc \in [Children -> CPC]
        /\ child_status \in [Children -> 0 .. 2]
  BY ChildStepShape DEF ProtocolTypes
<1>1. CASE /\ cpc[c] \in Working /\ UNCHANGED child_status
           /\ \E s \in Working : cpc' = [cpc EXCEPT ![c] = s]
  <2> PICK s \in Working : cpc' = [cpc EXCEPT ![c] = s]
    BY <1>1
  <2>1. ProtocolTypes'  BY <1>0, <1>1 DEF ProtocolTypes, parentVars, CPC
  <2>2. Spawning'       BY <1>0, <1>1 DEF Spawning, parentVars, Working
  <2>3. Reporting'      BY <1>0, <1>1 DEF Reporting, Working
  <2>4. ReapedCounted'  BY <1>0, <1>1 DEF ReapedCounted, parentVars, Working
  <2>5. Counting'       BY <1>0, <1>1 DEF Counting, Uncounted, parentVars
  <2>6. FailureReason'  BY <1>0, <1>1 DEF FailureReason, Failed, parentVars, Working, Dead
  <2> QED BY <2>1, <2>2, <2>3, <2>4, <2>5, <2>6
<1>2. CASE /\ cpc[c] \in Working
           /\ child_status' = [child_status EXCEPT ![c] = 1]
           /\ cpc' = [cpc EXCEPT ![c] = "exit"]
  <2>0. child_status[c] = 0
    BY <1>2 DEF Reporting
  <2>1. ProtocolTypes'  BY <1>0, <1>2 DEF ProtocolTypes, parentVars, CPC
  <2>2. Spawning'       BY <1>0, <1>2 DEF Spawning, parentVars, Working
  <2>3. Reporting'      BY <1>0, <1>2 DEF Reporting, Working
  <2>4. ReapedCounted'  BY <1>0, <1>2 DEF ReapedCounted, parentVars, Working
  <2>5. Uncounted' = Uncounted
    BY <1>0, <1>2, <2>0 DEF Uncounted
  <2>6. Counting'       BY <1>0, <1>2, <2>0, <2>5 DEF Counting, parentVars
  <2>7. FailureReason'  BY <1>0, <1>2 DEF FailureReason, Failed, parentVars, Working, Dead
  <2> QED BY <2>1, <2>2, <2>3, <2>4, <2>6, <2>7
<1>3. CASE /\ cpc[c] \in Working \cup {"exit"} /\ UNCHANGED child_status
           /\ cpc' = [cpc EXCEPT ![c] = "zombie"]
  <2>1. ProtocolTypes'  BY <1>0, <1>3 DEF ProtocolTypes, parentVars, CPC
  <2>2. Spawning'       BY <1>0, <1>3 DEF Spawning, parentVars, Working
  <2>3. Reporting'      BY <1>0, <1>3 DEF Reporting, Working
  <2>4. ReapedCounted'  BY <1>0, <1>3 DEF ReapedCounted, parentVars, Working
  <2>5. Counting'       BY <1>0, <1>3 DEF Counting, Uncounted, parentVars
  <2>6. FailureReason'  BY <1>0, <1>3 DEF FailureReason, Failed, parentVars, Working, Dead
  <2> QED BY <2>1, <2>2, <2>3, <2>4, <2>5, <2>6
<1> QED BY <1>1, <1>2, <1>3, ChildStepShape DEF ProtocolInv

\* The steps of the parent preserve the protocol's invariant.
LEMMA ProtocolParent ==
    ASSUME ProtocolInv, ParentStep
    PROVE  ProtocolInv'
<1> USE OptionsAssumption DEF ProtocolInv
<1>0. /\ cpc \in [Children -> CPC] /\ child_status \in [Children -> 0 .. 2]
      /\ this_child_index \in Nat /\ child \in Nat
  BY DEF ProtocolTypes
<1>1. CASE Mmap
  <2>0. pc' \in {"mkdir", "fork"}
    BY <1>1, SpawnAtFacts, SMT DEF Mmap
  <2>1. ProtocolTypes'  BY <1>1, <2>0 DEF Mmap, ProtocolTypes
  <2>2. Spawning'       BY <1>1, <2>0 DEF Mmap, Spawning
  <2>3. Reporting'      BY <1>1 DEF Mmap, Reporting
  <2>4. ReapedCounted'  BY <1>1 DEF Mmap, ReapedCounted
  <2>5. Counting' /\ FailureReason'
    BY <2>0, <1>1 DEF Mmap, Counting, FailureReason
  <2> QED BY <2>1, <2>2, <2>3, <2>4, <2>5
<1>2. CASE MmapFails
  <2>1. ProtocolTypes'  BY <1>2 DEF MmapFails, ProtocolTypes
  <2>2. Spawning'       BY <1>2 DEF MmapFails, Spawning
  <2>3. Reporting'      BY <1>2 DEF MmapFails, Reporting
  <2>4. ReapedCounted'  BY <1>2 DEF MmapFails, ReapedCounted
  <2>5. Counting'       BY <1>2 DEF MmapFails, Counting
  <2>6. FailureReason'
    BY <1>2 DEF MmapFails, FailureReason, Spawning, Children, Failed
  <2> QED BY <2>1, <2>2, <2>3, <2>4, <2>5, <2>6
<1>3. CASE make_dir
  <2>1. ProtocolTypes'  BY <1>3 DEF make_dir, ProtocolTypes
  <2>2. Spawning'       BY <1>3 DEF make_dir, Spawning
  <2>3. Reporting'      BY <1>3 DEF make_dir, Reporting
  <2>4. ReapedCounted'  BY <1>3 DEF make_dir, ReapedCounted
  <2>5. Counting'       BY <1>3 DEF make_dir, Counting
  <2>6. FailureReason'
    BY <1>3, <1>0 DEF make_dir, FailureReason, Spawning, Children, Failed
  <2> QED BY <2>1, <2>2, <2>3, <2>4, <2>5, <2>6
<1>4. ASSUME NEW s \in {"iter", "nofork"}, pc = "fork", AfterFork,
             cpc' = [cpc EXCEPT ![this_child_index] = s]
      PROVE  ProtocolInv'
  <2>0. /\ this_child_index' = this_child_index + 1
        /\ this_child_index < n_threads /\ this_child_index \in Children
        /\ pc' \in {"mkdir", "fork", "wait"}
        /\ pc' = "wait" <=> this_child_index' >= n_threads
        /\ UNCHANGED <<child, child_status, thread_group>>
    BY <1>0, <1>4, SpawnAtFacts DEF AfterFork, Spawning, Children
  <2>1. children_left' = IF pc' = "wait" THEN n_threads ELSE children_left
    BY <1>4 DEF AfterFork
  <2>2. ProtocolTypes'
    BY <1>0, <1>4, <2>0, <2>1 DEF ProtocolTypes, CPC, Working
  <2>3. Spawning'
    BY <1>0, <1>4, <2>0 DEF Spawning, Children
  <2>4. Reporting'      BY <1>0, <1>4, <2>0 DEF Reporting, Spawning, Working
  <2>5. ReapedCounted'  BY <1>0, <1>4, <2>0 DEF ReapedCounted, Spawning
  <2>6. Uncounted' = Children /\ Uncounted = Children
    BY <1>4, <2>0 DEF Spawning, Uncounted
  <2>7. Cardinality(Uncounted') = n_threads
    BY <2>6, ChildrenFinite
  <2>8. Counting'
    BY <1>0, <2>0, <2>1, <2>7 DEF Counting
  <2>9. FailureReason'  BY <2>0 DEF FailureReason
  <2> QED BY <2>2, <2>3, <2>4, <2>5, <2>8, <2>9
<1>5. CASE Fork       BY <1>4, <1>5 DEF Fork
<1>6. CASE ForkFails  BY <1>4, <1>6 DEF ForkFails
<1>7. ASSUME NEW c \in Children, Wait(c)
      PROVE  ProtocolInv'
  <2>1. ProtocolTypes'  BY <1>7 DEF Wait, ProtocolTypes, CPC
  <2>2. Spawning'       BY <1>0, <1>7 DEF Wait, Spawning
  <2>3. Reporting'      BY <1>0, <1>7 DEF Wait, Reporting, Working
  <2>4. ReapedCounted'  BY <1>0, <1>7 DEF Wait, ReapedCounted, Children
  <2>5. Counting'       BY <1>7 DEF Wait, Counting, Uncounted
  <2>6. FailureReason'  BY <1>7 DEF Wait, FailureReason
  <2> QED BY <2>1, <2>2, <2>3, <2>4, <2>5, <2>6
<1>8. CASE WaitFails
  <2>1. ProtocolTypes'  BY <1>8 DEF WaitFails, ProtocolTypes
  <2>2. Spawning'       BY <1>8 DEF WaitFails, Spawning
  <2>3. Reporting'      BY <1>8 DEF WaitFails, Reporting
  <2>4. ReapedCounted'  BY <1>8 DEF WaitFails, ReapedCounted
  <2>5. Counting'       BY <1>8 DEF WaitFails, Counting
  <2>6. Cardinality(Uncounted) # 0
    BY <1>8 DEF WaitFails, Counting
  <2>7. PICK c \in Children : child_status[c] # 2
    BY <2>6, FS_EmptySet DEF Uncounted
  <2>8. child_status[c] # 1 \/ cpc[c] = "nofork"
    BY <1>8 DEF WaitFails, ReapedCounted
  <2>9. Failed(c)
    BY <1>0, <1>8, <2>7, <2>8 DEF WaitFails, Failed, Dead
  <2>10. FailureReason'
    BY <1>8, <2>9 DEF WaitFails, FailureReason, Failed
  <2> QED BY <2>1, <2>2, <2>3, <2>4, <2>5, <2>10
<1>9. CASE Scan
  <2>0. child \in Children
    BY <1>0, <1>9 DEF Scan, Children
  <2>a. UNCHANGED <<pc, this_child_index, thread_group, cpc>> /\ child' = child + 1
    BY <1>9 DEF Scan
  <2>1. CASE child_status[child] = 1
    <3>0. /\ child_status' = [child_status EXCEPT ![child] = 2]
          /\ children_left' = children_left - 1
      BY <1>9, <2>1 DEF Scan
    <3>1. Uncounted' = Uncounted \ {child} /\ child \in Uncounted
      BY <1>0, <2>0, <2>1, <3>0 DEF Uncounted
    <3>2. Cardinality(Uncounted') = Cardinality(Uncounted) - 1
      BY <3>1, UncountedFacts, FS_RemoveElement
    <3>3. children_left = Cardinality(Uncounted) /\ children_left # 0
      BY <1>9, <3>1, UncountedFacts, FS_EmptySet DEF Scan, Counting
    <3>4. ProtocolTypes'
      <4>1. child_status' \in [Children -> 0 .. 2]
        <5>1. 2 \in 0 .. 2
          OBVIOUS
        <5> QED BY <1>0, <3>0, <5>1, Zenon
      <4>2. children_left' \in 0 .. n_threads /\ child' \in 0 .. n_threads
        BY <1>9, <2>a, <3>0, <3>3 DEF ProtocolTypes, Scan
      <4> QED BY <2>a, <4>1, <4>2 DEF ProtocolTypes
    <3>5. Spawning'
      BY <1>9, <1>0, <2>a, <3>0 DEF Scan, Spawning
    <3>6. Reporting'
      BY <1>0, <2>0, <2>1, <2>a, <3>0 DEF Reporting
    <3>7. ReapedCounted'
      BY <1>0, <1>9, <2>0, <2>a, <3>0 DEF Scan, ReapedCounted, Children
    <3>8. Counting'
      BY <1>9, <2>a, <3>0, <3>2, <3>3 DEF Scan, Counting
    <3>9. FailureReason'
      BY <1>9, <2>a DEF Scan, FailureReason
    <3> QED BY <3>4, <3>5, <3>6, <3>7, <3>8, <3>9
  <2>2. CASE child_status[child] # 1
    <3>0. UNCHANGED <<child_status, children_left>>
      BY <1>9, <2>2 DEF Scan
    <3>1. ProtocolTypes'
      BY <1>9, <2>a, <3>0 DEF ProtocolTypes, Scan
    <3>2. Spawning' /\ Reporting' /\ FailureReason'
      BY <1>9, <2>a, <3>0 DEF Scan, Spawning, Reporting, FailureReason
    <3>3. ReapedCounted'
      BY <1>0, <1>9, <2>0, <2>2, <2>a, <3>0 DEF Scan, ReapedCounted, Children
    <3>4. Counting'
      BY <1>9, <2>a, <3>0 DEF Scan, Counting, Uncounted
    <3> QED BY <3>1, <3>2, <3>3, <3>4
  <2> QED BY <2>1, <2>2
<1>10. CASE ScanEnd
  <2>1. ProtocolTypes'  BY <1>10 DEF ScanEnd, ProtocolTypes
  <2>2. Spawning'       BY <1>10 DEF ScanEnd, Spawning
  <2>3. Reporting'      BY <1>10 DEF ScanEnd, Reporting
  <2>4. ReapedCounted'  BY <1>0, <1>10 DEF ScanEnd, ReapedCounted, Children
  <2>5. Counting'       BY <1>10 DEF ScanEnd, Counting, Uncounted
  <2>6. FailureReason'  BY <1>10 DEF ScanEnd, FailureReason
  <2> QED BY <2>1, <2>2, <2>3, <2>4, <2>5, <2>6
<1>11. CASE remove_dir
  <2>1. ProtocolTypes'  BY <1>11 DEF remove_dir, ProtocolTypes
  <2>2. Spawning'       BY <1>11 DEF remove_dir, Spawning
  <2>3. Reporting'      BY <1>11 DEF remove_dir, Reporting
  <2>4. ReapedCounted'  BY <1>11 DEF remove_dir, ReapedCounted
  <2>5. Counting'       BY <1>11 DEF remove_dir, Counting, Uncounted
  <2>6. FailureReason'  BY <1>11 DEF remove_dir, FailureReason
  <2> QED BY <2>1, <2>2, <2>3, <2>4, <2>5, <2>6
<1>12. CASE Exit0
  <2>1. ProtocolTypes'  BY <1>12 DEF Exit0, ProtocolTypes
  <2>2. Spawning'       BY <1>12 DEF Exit0, Spawning
  <2>3. Reporting'      BY <1>12 DEF Exit0, Reporting
  <2>4. ReapedCounted'  BY <1>12 DEF Exit0, ReapedCounted
  <2>5. Uncounted = {}
    BY <1>12, UncountedFacts DEF Exit0, Counting
  <2>6. Counting'       BY <1>12, <2>5 DEF Exit0, Counting, Uncounted
  <2>7. FailureReason'  BY <1>12 DEF Exit0, FailureReason
  <2> QED BY <2>1, <2>2, <2>3, <2>4, <2>6, <2>7
<1> QED BY <1>1, <1>2, <1>3, <1>5, <1>6, <1>7, <1>8, <1>9, <1>10, <1>11, <1>12
        DEF ParentStep

LEMMA ProtocolNext == ProtocolInv /\ [Next]_vars => ProtocolInv'
<1> SUFFICES ASSUME ProtocolInv, [Next]_vars PROVE ProtocolInv'
  OBVIOUS
<1>1. CASE UNCHANGED vars
  BY <1>1 DEF vars, parentVars, ProtocolInv, ProtocolTypes, Spawning, Reporting,
              ReapedCounted, Counting, FailureReason, Failed, Uncounted
<1> QED BY <1>1, ProtocolParent, ProtocolChild DEF Next, Finished

\* The protocol of doit(): the inductive invariant holds in every run.
THEOREM ProtocolInvariant == Spec => []ProtocolInv
BY ProtocolInit, ProtocolNext, PTL DEF Spec

\* children_left counts exactly the children whose report is not yet counted,
\* however reports, exits and the parent's scan interleave.
THEOREM CountCorrect == Spec => []CountExact
<1>1. ProtocolInv => CountExact
  BY DEF ProtocolInv, Counting, CountExact, Uncounted
<1> QED BY <1>1, ProtocolInvariant, PTL

-----------------------------------------------------------------------------
(* The step simulation behind ImplementsForkJoin (its fairness is TLC's). *)

\* The abstract state synctest presents.
Work == [c \in Children |-> IF child_status[c] # 0 THEN "done"
                             ELSE IF Failed(c) THEN "failed" ELSE "todo"]
Outcome == IF pc = "exit0" THEN "success"
           ELSE IF pc = "exit1" THEN "failure" ELSE "running"

\* One step of ForkJoin on that state, or none.
AbstractStep ==
    \/ \E c \in Children : /\ Work[c] = "todo" /\ UNCHANGED Outcome
                           /\ \/ Work' = [Work EXCEPT ![c] = "done"]
                              \/ Work' = [Work EXCEPT ![c] = "failed"]
    \/ /\ Outcome = "running" /\ Outcome' = "success" /\ UNCHANGED Work
       /\ \A c \in Children : Work[c] = "done"
    \/ /\ Outcome = "running" /\ Outcome' = "failure" /\ UNCHANGED Work
       /\ Children = {} \/ \E c \in Children : Work[c] # "done"
    \/ UNCHANGED <<Work, Outcome>>

LEMMA AbstractStepIsForkJoin == AbstractStep => [FJ!Next]_(FJ!vars)
BY DEF AbstractStep, FJ!Next, FJ!vars, FJ!Complete, FJ!Break, FJ!Succeed, FJ!Fail,
       Work, Outcome

LEMMA ForkJoinChild ==
    ASSUME ProtocolInv, NEW c \in Children, ChildStep(c)
    PROVE  AbstractStep
<1> USE DEF ProtocolInv, Failed, Dead, Working
<1>0. /\ UNCHANGED parentVars /\ cpc \in [Children -> CPC]
      /\ child_status \in [Children -> 0 .. 2]
  BY ChildStepShape DEF ProtocolTypes
<1>a. UNCHANGED Outcome
  BY <1>0 DEF Outcome, parentVars
<1>1. CASE /\ cpc[c] \in Working /\ UNCHANGED child_status
           /\ \E s \in Working : cpc' = [cpc EXCEPT ![c] = s]
  <2>1. UNCHANGED Work
    BY <1>0, <1>1 DEF Work
  <2> QED BY <1>a, <2>1 DEF AbstractStep
<1>2. CASE /\ cpc[c] \in Working
           /\ child_status' = [child_status EXCEPT ![c] = 1]
           /\ cpc' = [cpc EXCEPT ![c] = "exit"]
  <2>0. child_status[c] = 0 /\ child_status'[c] = 1 /\ 1 # 0
    BY <1>0, <1>2 DEF Reporting
  <2>1. Work[c] = "todo"
    BY <1>2, <2>0 DEF Work
  <2>2. \A d \in Children : Work'[d] = IF d = c THEN "done" ELSE Work[d]
    BY <1>0, <1>2, <2>0 DEF Work
  <2>3. Work' = [Work EXCEPT ![c] = "done"]
    BY <2>2, Zenon DEF Work
  <2> QED BY <1>a, <2>1, <2>3 DEF AbstractStep
<1>3. CASE /\ cpc[c] \in Working /\ UNCHANGED child_status
           /\ cpc' = [cpc EXCEPT ![c] = "zombie"]
  <2>1. Work[c] = "todo" /\ Work' = [Work EXCEPT ![c] = "failed"]
    BY <1>0, <1>3 DEF Work, Reporting
  <2> QED BY <1>a, <2>1 DEF AbstractStep
<1>4. CASE /\ cpc[c] = "exit" /\ UNCHANGED child_status
           /\ cpc' = [cpc EXCEPT ![c] = "zombie"]
  <2>1. UNCHANGED Work
    BY <1>0, <1>4 DEF Work, Reporting
  <2> QED BY <1>a, <2>1 DEF AbstractStep
<1> QED BY <1>1, <1>2, <1>3, <1>4, ChildStepShape

LEMMA ForkJoinParent ==
    ASSUME ProtocolInv, ProtocolInv', ParentStep
    PROVE  AbstractStep
<1> USE DEF ProtocolInv
<1>0. /\ cpc \in [Children -> CPC] /\ child_status \in [Children -> 0 .. 2]
      /\ this_child_index \in 0 .. n_threads
  BY DEF ProtocolTypes
<1>1. ASSUME UNCHANGED <<cpc, child_status>>
      PROVE  UNCHANGED Work
  BY <1>1 DEF Work, Failed
<1>f. ASSUME pc \in {"start", "mkdir", "wait"}, pc' = "exit1", UNCHANGED <<cpc, child_status>>
      PROVE  AbstractStep
  <2>1. \/ n_threads = 0
        \/ \E c \in Children : Failed(c)' \/ cpc'[c] = "unborn"
    BY <1>f DEF FailureReason
  <2>2. Children = {} \/ \E c \in Children : Work[c] # "done"
    BY <1>f, <1>0, <2>1 DEF Work, Failed, Dead, Reporting, Children
  <2> QED BY <1>1, <1>f, <2>2 DEF AbstractStep, Outcome
<1>2. CASE Mmap
  <2>1. pc' \notin {"exit0", "exit1"}
    BY <1>2 DEF Mmap, SpawnAt
  <2> QED BY <1>1, <1>2, <2>1 DEF Mmap, AbstractStep, Outcome
<1>3. CASE MmapFails  BY <1>f, <1>3 DEF MmapFails
<1>4. CASE make_dir
  <2>1. CASE pc' = "fork"
    BY <1>1, <1>4, <2>1 DEF make_dir, AbstractStep, Outcome
  <2> QED BY <1>f, <1>4, <2>1 DEF make_dir
<1>5. CASE Fork \/ ForkFails
  <2>a. pc = "fork" /\ UNCHANGED child_status
    BY <1>5 DEF Fork, ForkFails, AfterFork
  <2>b. this_child_index < n_threads /\ this_child_index \in Children
    BY <1>0, <2>a, OptionsAssumption DEF Spawning, Children
  <2>c. cpc[this_child_index] = "unborn"
    BY <1>0, <2>a, <2>b DEF Spawning
  <2>1. /\ this_child_index \in Children /\ UNCHANGED child_status
        /\ cpc[this_child_index] = "unborn" /\ child_status[this_child_index] = 0
        /\ pc = "fork"
    BY <2>a, <2>b, <2>c DEF Reporting
  <2>2. UNCHANGED Outcome
    BY <1>5, <2>1 DEF Fork, ForkFails, AfterFork, SpawnAt, Outcome
  <2>3. CASE Fork
    <3>1. UNCHANGED Work
      BY <1>0, <2>1, <2>3 DEF Fork, Work, Failed, Dead
    <3> QED BY <2>2, <3>1 DEF AbstractStep
  <2>4. CASE ForkFails
    <3>1. /\ Work[this_child_index] = "todo"
          /\ Work' = [Work EXCEPT ![this_child_index] = "failed"]
      BY <1>0, <2>1, <2>4 DEF ForkFails, Work, Failed, Dead
    <3> QED BY <2>1, <2>2, <3>1 DEF AbstractStep
  <2> QED BY <1>5, <2>3, <2>4
<1>6. ASSUME NEW c \in Children, Wait(c)
      PROVE  AbstractStep
  <2>1. UNCHANGED Work
    BY <1>0, <1>6 DEF Wait, Work, Failed, Dead
  <2> QED BY <1>6, <2>1 DEF Wait, AbstractStep, Outcome
<1>7. CASE WaitFails  BY <1>f, <1>7 DEF WaitFails
<1>8. CASE Scan
  <2>1. UNCHANGED Work
    BY <1>0, <1>8 DEF Scan, Work, Failed, Dead
  <2> QED BY <1>8, <2>1 DEF Scan, AbstractStep, Outcome
<1>9. CASE ScanEnd     BY <1>1, <1>9 DEF ScanEnd, AbstractStep, Outcome
<1>10. CASE remove_dir BY <1>1, <1>10 DEF remove_dir, AbstractStep, Outcome
<1>11. CASE Exit0
  <2>1. \A c \in Children : child_status[c] = 2
    BY <1>11 DEF Exit0, Counting
  <2>2. \A c \in Children : Work[c] = "done"
    BY <2>1 DEF Work
  <2> QED BY <1>1, <1>11, <2>2 DEF Exit0, AbstractStep, Outcome
<1> QED BY <1>2, <1>3, <1>4, <1>5, <1>6, <1>7, <1>8, <1>9, <1>10, <1>11 DEF ParentStep

\* synctest implements ForkJoin, apart from its fairness: every state it starts
\* in and every step it takes is one of ForkJoin under the mapping.
THEOREM RefinesForkJoin == Spec => FJ!Init /\ [][FJ!Next]_(FJ!vars)
<1>1. Init => FJ!Init
  BY DEF Init, FJ!Init, Failed, Dead
<1>2. ProtocolInv /\ ProtocolInv' /\ [Next]_vars => [FJ!Next]_(FJ!vars)
  <2> SUFFICES ASSUME ProtocolInv, ProtocolInv', [Next]_vars PROVE AbstractStep
    BY AbstractStepIsForkJoin
  <2>1. CASE UNCHANGED vars
    BY <2>1 DEF vars, parentVars, AbstractStep, Work, Outcome, Failed
  <2> QED BY <2>1, ForkJoinChild, ForkJoinParent DEF Next, Finished
<1> QED BY <1>1, <1>2, ProtocolInvariant, PTL DEF Spec

-----------------------------------------------------------------------------
\* No step removes the directory of a child that is not yet counted.
THEOREM RemovalCorrect == Spec => RemovedWhenCounted
<1> DEFINE Removal == \A d \in dirs \ dirs' : \A c \in Children :
                         grp[c] = d => child_status[c] = 2
<1>1. ASSUME ProtocolInv, [Next]_vars
      PROVE  Removal
  <2>1. CASE remove_dir
    <3>1. Uncounted = {}
      BY <1>1, <2>1, UncountedFacts DEF ProtocolInv, remove_dir, Counting
    <3> QED BY <3>1 DEF Uncounted
  <2>2. CASE make_dir
    BY <2>2 DEF make_dir
  <2>3. CASE ~remove_dir /\ ~make_dir
    <3>1. UNCHANGED dirs
      <4>1. CASE ParentStep
        BY <2>3, <4>1 DEF ParentStep, Mmap, MmapFails, Fork, ForkFails, AfterFork, Wait,
                          WaitFails, Scan, ScanEnd, Exit0
      <4>2. ASSUME NEW c \in Children, ChildStep(c)
            PROVE  UNCHANGED dirs
        BY <1>1, <4>2, ChildStepShape DEF ProtocolInv
      <4> QED BY <1>1, <4>1, <4>2 DEF Next, Finished, vars
    <3> QED BY <3>1
  <2> QED BY <2>1, <2>2, <2>3
<1>2. ProtocolInv /\ [Next]_vars => [Removal]_vars
  BY <1>1
<1>3. Spec => [][Removal]_vars
  BY <1>2, ProtocolInvariant, PTL DEF Spec
<1> QED BY <1>3 DEF RemovedWhenCounted

(***************************************************************************)
(* The work of the children: the loops of do_child and do_one_file, the    *)
(* names they leave and the directories they work in.                      *)
(***************************************************************************)

InIteration == {"open", "write", "rename", "lag", "drain"}

\* The ranges of the loop variables.
LoopTypes ==
    /\ grp \in [Children -> Int]
    /\ iter \in [Children -> 0 .. n_iters]
    /\ fileno \in [Children -> 0 .. N_FILES]
    /\ rename_pass \in [Children -> 0 .. RENAME_PASSES]
    /\ to_write \in [Children -> WRITE_MIN .. WRITE_MAX]
    /\ fds \in [Children -> Nat]

\* The loop variables agree with the program counter; each iteration keeps the
\* directory descriptor it opened; a child reports after its last iteration.
LoopControl(c) ==
    /\ child_status[c] # 0 => iter[c] = n_iters
    /\ cpc[c] \in InIteration => iter[c] < n_iters
    /\ cpc[c] \in {"open", "write", "rename", "lag"} => fileno[c] < N_FILES
    /\ cpc[c] = "drain" => fileno[c] >= N_FILES - UNLINK_LAG
    /\ cpc[c] \in {"unborn", "iter"} => fds[c] = 3 + iter[c]
    /\ cpc[c] \in InIteration \ {"write"} => fds[c] = 4 + iter[c]
    /\ cpc[c] = "write" => fds[c] = 5 + iter[c]

LoopInv == ProtocolInv /\ LoopTypes /\ \A c \in Children : LoopControl(c)

LEMMA LoopInit == Init => LoopInv
<1> SUFFICES ASSUME Init PROVE LoopInv
  OBVIOUS
<1>1. LoopTypes
  BY OptionsAssumption, DefinesAssumption DEF Init, LoopTypes
<1>2. \A c \in Children : LoopControl(c)
  BY OptionsAssumption DEF Init, LoopControl, InIteration
<1> QED BY <1>1, <1>2, ProtocolInit DEF LoopInv

\* The write size stays within its bounds.
LEMMA NextWriteInRange ==
    ASSUME NEW w \in WRITE_MIN .. WRITE_MAX
    PROVE  NextWrite(w) \in WRITE_MIN .. WRITE_MAX
<1> DEFINE grown == (11 * w) \div 10
<1>1. w \in Nat /\ grown \in Int /\ grown >= w
  BY DefinesAssumption
<1> QED BY <1>1, DefinesAssumption DEF NextWrite

LEMMA LoopChild ==
    ASSUME LoopInv, NEW c \in Children, ChildStep(c)
    PROVE  LoopTypes' /\ \A d \in Children : LoopControl(d)'
<1> USE OptionsAssumption, DefinesAssumption DEF LoopInv
<1>0. cpc \in [Children -> CPC] /\ LoopTypes /\ LoopControl(c)
  BY DEF ProtocolInv, ProtocolTypes
<1>a. UNCHANGED grp
  BY ChildStepShape DEF ProtocolInv
<1>b. \A d \in Children \ {c} :
        /\ cpc'[d] = cpc[d] /\ iter'[d] = iter[d] /\ fileno'[d] = fileno[d]
        /\ fds'[d] = fds[d] /\ child_status'[d] = child_status[d]
  BY <1>0 DEF LoopInv, ProtocolInv, ProtocolTypes, ChildStep, OpenDir, OpenFile, WriteAndClose, Rename, EndOfFile,
      LaggedUnlink, NextFile, FinalUnlink, EndOfIter, Report, ExitChild,
      ChildFails, loopVars, LoopTypes
<1>c. \A d \in Children \ {c} : LoopControl(d)'
  BY <1>b DEF LoopControl
<1>d. SUFFICES LoopTypes' /\ LoopControl(c)'
  BY <1>c
<1>e. /\ child_status \in [Children -> 0 .. 2]
      /\ cpc[c] \in Working => child_status[c] = 0
  BY DEF ProtocolInv, ProtocolTypes, Reporting
<1> USE <1>0, <1>a, <1>e DEF LoopTypes, LoopControl, InIteration, Working
<1>1. CASE OpenDir(c)        BY <1>1 DEF OpenDir
<1>2. CASE OpenFile(c)       BY <1>2 DEF OpenFile
<1>3. CASE WriteAndClose(c)
  <2>1. to_write' \in [Children -> WRITE_MIN .. WRITE_MAX]
    BY <1>3, NextWriteInRange DEF WriteAndClose
  <2> QED BY <1>3, <2>1 DEF WriteAndClose
<1>4. CASE Rename(c)         BY <1>4 DEF Rename
<1>5. CASE EndOfFile(c)      BY <1>5 DEF EndOfFile
<1>6. CASE LaggedUnlink(c)   BY <1>6 DEF LaggedUnlink, NextFile
<1>7. CASE FinalUnlink(c)    BY <1>7 DEF FinalUnlink
<1>8. CASE EndOfIter(c)      BY <1>8 DEF EndOfIter
<1>9. CASE Report(c)         BY <1>9 DEF Report, loopVars
<1>10. CASE ExitChild(c)     BY <1>10 DEF ExitChild, loopVars
<1>11. CASE ChildFails(c)    BY <1>11 DEF ChildFails, loopVars
<1> QED BY <1>1, <1>2, <1>3, <1>4, <1>5, <1>6, <1>7, <1>8, <1>9, <1>10, <1>11
        DEF ChildStep

LEMMA LoopParent ==
    ASSUME LoopInv, ParentStep
    PROVE  LoopTypes' /\ \A d \in Children : LoopControl(d)'
<1> USE OptionsAssumption DEF LoopInv
<1>0. /\ cpc \in [Children -> CPC] /\ thread_group \in Int
      /\ grp \in [Children -> Int]
  BY DEF ProtocolInv, ProtocolTypes, LoopTypes
<1>1. UNCHANGED loopVars /\ grp' \in [Children -> Int]
  BY <1>0 DEF ParentStep, Mmap, MmapFails, make_dir, Fork, ForkFails, AfterFork,
         Wait, WaitFails, Scan, ScanEnd, remove_dir, Exit0
<1>2. LoopTypes'
  BY <1>1 DEF LoopTypes, loopVars
<1>3. ASSUME NEW d \in Children
      PROVE  \/ cpc'[d] = cpc[d]
             \/ cpc[d] = "unborn" /\ cpc'[d] \in {"iter", "nofork"}
             \/ cpc'[d] = "reaped"
  <2>1. CASE Fork \/ ForkFails
    <3>1. this_child_index \in Children /\ cpc[this_child_index] = "unborn"
      <4>1. pc = "fork"
        BY <2>1 DEF Fork, ForkFails
      <4>2. this_child_index \in Children
        BY <4>1 DEF ProtocolInv, ProtocolTypes, Spawning, Children
      <4> QED BY <4>1, <4>2 DEF ProtocolInv, Spawning, Children
    <3> QED BY <1>0, <2>1, <3>1 DEF Fork, ForkFails
  <2> QED BY <1>0, <2>1 DEF ParentStep, Mmap, MmapFails, make_dir,
         Wait, WaitFails, Scan, ScanEnd, remove_dir, Exit0
<1>4. ASSUME NEW d \in Children
      PROVE  child_status'[d] # 0 => child_status[d] # 0
  <2>1. child_status \in [Children -> 0 .. 2]
    BY DEF ProtocolInv, ProtocolTypes
  <2> QED BY <1>0, <2>1 DEF ParentStep, Mmap, MmapFails, make_dir, Fork, ForkFails,
         AfterFork, Wait, WaitFails, Scan, ScanEnd, remove_dir, Exit0
<1>5. ASSUME NEW d \in Children
      PROVE  LoopControl(d)'
  BY <1>1, <1>3, <1>4 DEF LoopControl, loopVars, InIteration
<1> QED BY <1>2, <1>5

LEMMA LoopNext == LoopInv /\ [Next]_vars => LoopInv'
<1> SUFFICES ASSUME LoopInv, [Next]_vars PROVE LoopTypes' /\ \A d \in Children : LoopControl(d)'
  BY ProtocolNext DEF LoopInv
<1>1. CASE UNCHANGED vars
  BY <1>1 DEF vars, loopVars, LoopInv, LoopTypes, LoopControl
<1> QED BY <1>1, LoopChild, LoopParent DEF Next, Finished

THEOREM LoopInvariant == Spec => []LoopInv
BY LoopInit, LoopNext, PTL DEF Spec

\* synctest exits 0 only if every child did all its iterations, and 1 only if some
\* child failed or was not reached, for all numbers of children and all faults.
THEOREM ExitStatusCorrect == Spec => []ExitStatusTruthful
<1>1. LoopInv => ExitStatusTruthful
  BY DEF LoopInv, LoopControl, ProtocolInv, Counting, FailureReason, ExitStatusTruthful
<1> QED BY <1>1, LoopInvariant, PTL

-----------------------------------------------------------------------------
(* The names. *)

\* Membership in the set of expected names.
LEMMA ExpectedMember ==
    ASSUME NEW c \in Children, NEW n
    PROVE  n \in ExpectedFiles(c) <=>
              \/ \E i \in 0 .. N_FILES - 1 : Settled(c, i) /\ n = <<i, LastPass>>
              \/ n \in InFlight(c)
BY DEF ExpectedFiles, mk_new_filename

NameSet == (0 .. N_FILES - 1) \X Passes

FilesInv ==
    /\ files \in [Children -> SUBSET NameSet]
    /\ FilesExact

LEMMA FilesInit == Init => FilesInv
BY DEF Init, FilesInv, FilesExact, ExpectedFiles, Settled, InFlight

\* A child's files agree with its position in the loops after each of its steps.
LEMMA FilesChild ==
    ASSUME LoopInv, LoopInv', FilesInv, NEW c \in Children, ChildStep(c), ~Failed(c)'
    PROVE  files'[c] = ExpectedFiles(c)'
<1> USE OptionsAssumption, DefinesAssumption
<1>0. /\ cpc \in [Children -> CPC] /\ child_status \in [Children -> 0 .. 2]
      /\ fileno[c] \in 0 .. N_FILES /\ rename_pass[c] \in 0 .. RENAME_PASSES
      /\ iter[c] \in Nat /\ LoopControl(c) /\ Reporting
      /\ files \in [Children -> SUBSET NameSet]
      /\ cpc \in [Children -> CPC] /\ iter \in [Children -> 0 .. n_iters]
      /\ fileno \in [Children -> 0 .. N_FILES]
      /\ rename_pass \in [Children -> 0 .. RENAME_PASSES]
  BY DEF LoopInv, LoopTypes, ProtocolInv, ProtocolTypes, FilesInv
<1>a. cpc[c] \in Working \cup {"exit"}
  BY ChildStepShape DEF LoopInv, ProtocolInv
<1>b. ~Failed(c)
  BY <1>a DEF Failed, Dead, Working
<1>c. \A n : n \in files[c] <=>
              \/ \E i \in 0 .. N_FILES - 1 : Settled(c, i) /\ n = <<i, LastPass>>
              \/ n \in InFlight(c)
  BY <1>b, ExpectedMember DEF FilesInv, FilesExact
<1> SUFFICES \A n : n \in files'[c] <=>
              \/ \E i \in 0 .. N_FILES - 1 : Settled(c, i)' /\ n = <<i, LastPass>>
              \/ n \in InFlight(c)'
  BY DEF ExpectedFiles, mk_new_filename
<1>1. CASE OpenDir(c)
  <2>1. \A i \in 0 .. N_FILES - 1 : Settled(c, i)' <=> Settled(c, i)
    BY <1>0, <1>1 DEF OpenDir, Settled
  <2>2. InFlight(c)' = {} /\ InFlight(c) = {} /\ files' = files
    BY <1>0, <1>1 DEF OpenDir, InFlight
  <2> QED BY <1>c, <2>1, <2>2
<1>2. CASE OpenFile(c)
  <2>1. \A i \in 0 .. N_FILES - 1 : Settled(c, i)' <=> Settled(c, i)
    BY <1>0, <1>2 DEF OpenFile, Settled
  <2>2. /\ InFlight(c)' = {mk_filename(fileno[c])} /\ InFlight(c) = {}
        /\ files'[c] = files[c] \cup {mk_filename(fileno[c])}
    BY <1>0, <1>2 DEF OpenFile, InFlight
  <2> QED BY <1>c, <2>1, <2>2
<1>3. CASE WriteAndClose(c)
  <2>1. \A i \in 0 .. N_FILES - 1 : Settled(c, i)' <=> Settled(c, i)
    BY <1>0, <1>3 DEF WriteAndClose, Settled
  <2>2. InFlight(c)' = InFlight(c) /\ files' = files
    BY <1>0, <1>3 DEF WriteAndClose, InFlight, CurrentName
  <2> QED BY <1>c, <2>1, <2>2
<1>4. CASE Rename(c)
  <2>1. \A i \in 0 .. N_FILES - 1 : Settled(c, i)' <=> Settled(c, i)
    BY <1>0, <1>4 DEF Rename, Settled
  <2>2. /\ InFlight(c) = {CurrentName(c)}
        /\ InFlight(c)' = {<<fileno[c], rename_pass[c]>>}
        /\ files'[c] = (files[c] \ {CurrentName(c)}) \cup {<<fileno[c], rename_pass[c]>>}
    BY <1>0, <1>4 DEF Rename, InFlight, CurrentName, mk_new_filename
  <2>3. \A i \in 0 .. N_FILES - 1 : CurrentName(c) # <<i, LastPass>>
    BY <1>0, <1>4 DEF Rename, CurrentName, mk_filename, mk_new_filename, LastPass
  <2> QED BY <1>c, <2>1, <2>2, <2>3
<1>5. CASE EndOfFile(c)
  <2>1. \A i \in 0 .. N_FILES - 1 : Settled(c, i)' <=> Settled(c, i) \/ i = fileno[c]
    BY <1>0, <1>5 DEF EndOfFile, Settled
  <2>2. InFlight(c) = {<<fileno[c], LastPass>>} /\ InFlight(c)' = {} /\ files' = files
    BY <1>0, <1>5 DEF EndOfFile, InFlight, CurrentName, mk_new_filename, LastPass
  <2>3. fileno[c] \in 0 .. N_FILES - 1
    BY <1>0, <1>5 DEF EndOfFile, LoopControl
  <2> QED BY <1>c, <2>1, <2>2, <2>3
<1>6. CASE LaggedUnlink(c)
  <2>0. InFlight(c) = {} /\ InFlight(c)' = {}
    BY <1>0, <1>6 DEF LaggedUnlink, NextFile, InFlight
  <2>1. CASE do_unlink /\ fileno[c] >= UNLINK_LAG
    <3>1. files'[c] = files[c] \ {<<fileno[c] - UNLINK_LAG, LastPass>>}
      BY <1>0, <1>6, <2>1 DEF LaggedUnlink, unlink_one_file, mk_new_filename
    <3>2. \A i \in 0 .. N_FILES - 1 :
            Settled(c, i)' <=> Settled(c, i) /\ i # fileno[c] - UNLINK_LAG
      BY <1>0, <1>6, <2>1 DEF LaggedUnlink, NextFile, Settled, LoopControl
    <3> QED BY <1>c, <2>0, <3>1, <3>2
  <2>2. CASE ~(do_unlink /\ fileno[c] >= UNLINK_LAG)
    <3>1. files'[c] = files[c]
      BY <1>0, <1>6, <2>2 DEF LaggedUnlink, unlink_one_file
    <3>2. \A i \in 0 .. N_FILES - 1 : Settled(c, i)' <=> Settled(c, i)
      BY <1>0, <1>6, <2>2 DEF LaggedUnlink, NextFile, Settled, LoopControl
    <3> QED BY <1>c, <2>0, <3>1, <3>2
  <2> QED BY <2>1, <2>2
<1>7. CASE FinalUnlink(c)
  <2>0. InFlight(c) = {} /\ InFlight(c)' = {}
    BY <1>0, <1>7 DEF FinalUnlink, InFlight
  <2>1. CASE do_unlink
    <3>1. files'[c] = files[c] \ {<<fileno[c], LastPass>>}
      BY <1>0, <1>7, <2>1 DEF FinalUnlink, unlink_one_file, mk_new_filename
    <3>2. \A i \in 0 .. N_FILES - 1 : Settled(c, i)' <=> Settled(c, i) /\ i # fileno[c]
      BY <1>0, <1>7, <2>1 DEF FinalUnlink, Settled
    <3> QED BY <1>c, <2>0, <3>1, <3>2
  <2>2. CASE ~do_unlink
    <3>1. files'[c] = files[c]
      BY <1>0, <1>7, <2>2 DEF FinalUnlink, unlink_one_file
    <3>2. \A i \in 0 .. N_FILES - 1 : Settled(c, i)' <=> Settled(c, i)
      BY <1>0, <1>7, <2>2 DEF FinalUnlink, Settled
    <3> QED BY <1>c, <2>0, <3>1, <3>2
  <2> QED BY <2>1, <2>2
<1>8. CASE EndOfIter(c)
  <2>1. \A i \in 0 .. N_FILES - 1 : Settled(c, i)' <=> Settled(c, i)
    BY <1>0, <1>8 DEF EndOfIter, Settled
  <2>2. InFlight(c)' = {} /\ InFlight(c) = {} /\ files' = files
    BY <1>0, <1>8 DEF EndOfIter, InFlight
  <2> QED BY <1>c, <2>1, <2>2
<1>9. CASE Report(c) \/ ExitChild(c)
  <2>1. \A i \in 0 .. N_FILES - 1 : Settled(c, i)' <=> Settled(c, i)
    BY <1>0, <1>9 DEF Report, ExitChild, Settled, loopVars
  <2>2. InFlight(c)' = {} /\ InFlight(c) = {} /\ files' = files
    BY <1>0, <1>9 DEF Report, ExitChild, InFlight
  <2> QED BY <1>c, <2>1, <2>2
<1>10. CASE ChildFails(c)
  <2>1. cpc[c] \in Working
    BY <1>10 DEF ChildFails, AtCall, Working
  <2>2. Failed(c)'
    BY <1>0, <1>10, <2>1 DEF ChildFails, Failed, Dead, Reporting
  <2> QED BY <2>2
<1> QED BY <1>1, <1>2, <1>3, <1>4, <1>5, <1>6, <1>7, <1>8, <1>9, <1>10 DEF ChildStep

LEMMA FilesNext ==
    ASSUME LoopInv, LoopInv', FilesInv, [Next]_vars
    PROVE  FilesInv'
<1> USE OptionsAssumption, DefinesAssumption
<1>0. /\ cpc \in [Children -> CPC] /\ files \in [Children -> SUBSET NameSet]
      /\ fileno \in [Children -> 0 .. N_FILES] /\ cpc' \in [Children -> CPC]
      /\ rename_pass \in [Children -> 0 .. RENAME_PASSES]
  BY DEF LoopInv, LoopTypes, ProtocolInv, ProtocolTypes, FilesInv
<1>1. ASSUME NEW c \in Children, ChildStep(c)
      PROVE  FilesInv'
  <2>1. files' \in [Children -> SUBSET NameSet]
    <3>1. cpc[c] \in {"open", "rename"} => mk_filename(fileno[c]) \in NameSet
      BY <1>0 DEF LoopInv, LoopControl, mk_filename, NameSet, Passes
    <3>2. cpc[c] = "rename" /\ rename_pass[c] < RENAME_PASSES
             => mk_new_filename(fileno[c], rename_pass[c]) \in NameSet
      BY <1>0 DEF LoopInv, LoopControl, mk_new_filename, NameSet, Passes
    <3>3. \/ files' = files
          \/ \E T \in SUBSET NameSet : files' = [files EXCEPT ![c] = T]
      BY <1>0, <1>1, <3>1, <3>2 DEF ChildStep, OpenDir, OpenFile, WriteAndClose, Rename,
          EndOfFile, LaggedUnlink, FinalUnlink, EndOfIter, Report, ExitChild,
          ChildFails, unlink_one_file
    <3> QED BY <1>0, <3>3
  <2>2. ASSUME NEW d \in Children, d # c, ~Failed(d)'
        PROVE  files'[d] = ExpectedFiles(d)'
    <3>1. /\ cpc'[d] = cpc[d] /\ iter'[d] = iter[d] /\ fileno'[d] = fileno[d]
          /\ rename_pass'[d] = rename_pass[d] /\ files'[d] = files[d]
          /\ child_status'[d] = child_status[d]
      BY <1>0, <1>1, <2>2 DEF LoopInv, LoopTypes, ProtocolInv, ProtocolTypes, ChildStep,
          OpenDir, OpenFile, WriteAndClose, Rename, EndOfFile, LaggedUnlink, NextFile,
          FinalUnlink, EndOfIter, Report, ExitChild, ChildFails, loopVars, unlink_one_file
    <3>2. ~Failed(d)
      BY <2>2, <3>1 DEF Failed
    <3> QED BY <3>1, <3>2 DEF FilesInv, FilesExact, ExpectedFiles, Settled, InFlight,
                              CurrentName
  <2>3. FilesExact'
    BY <1>1, <2>2, FilesChild DEF FilesExact
  <2> QED BY <2>1, <2>3 DEF FilesInv
<1>2. ASSUME ParentStep
      PROVE  FilesInv'
  <2>1. UNCHANGED <<files, loopVars>>
    BY <1>2 DEF ParentStep, Mmap, MmapFails, make_dir, Fork, ForkFails, AfterFork,
         Wait, WaitFails, Scan, ScanEnd, remove_dir, Exit0
  <2>2. ASSUME NEW d \in Children, ~Failed(d)'
        PROVE  /\ ~Failed(d)
               /\ \/ cpc'[d] = cpc[d]
                  \/ cpc[d] = "unborn" /\ cpc'[d] = "iter"
                  \/ cpc[d] = "zombie" /\ cpc'[d] = "reaped"
    <3>1. CASE Fork \/ ForkFails
      <4>1. pc = "fork" /\ UNCHANGED child_status
        BY <3>1 DEF Fork, ForkFails, AfterFork
      <4>2. this_child_index \in Children
        BY <4>1 DEF LoopInv, ProtocolInv, ProtocolTypes, Spawning, Children
      <4>3. cpc[this_child_index] = "unborn"
        BY <4>1, <4>2 DEF LoopInv, ProtocolInv, Spawning, Children
      <4> QED BY <1>0, <2>2, <3>1, <4>1, <4>2, <4>3 DEF Fork, ForkFails, Failed, Dead
    <3>2. CASE \E c \in Children : Wait(c)
      BY <1>0, <2>2, <3>2 DEF Wait, Failed, Dead
    <3>3. CASE Scan
      <4>1. child \in Children
        BY <3>3 DEF Scan, LoopInv, ProtocolInv, ProtocolTypes, Children
      <4>2. UNCHANGED cpc /\ (child_status'[d] = 0 <=> child_status[d] = 0)
        BY <3>3, <4>1 DEF Scan, LoopInv, ProtocolInv, ProtocolTypes
      <4> QED BY <2>2, <4>2 DEF Failed
    <3>4. CASE Mmap \/ MmapFails \/ make_dir \/ WaitFails \/ ScanEnd \/ remove_dir \/ Exit0
      BY <2>2, <3>4 DEF Mmap, MmapFails, make_dir, WaitFails, ScanEnd, remove_dir, Exit0, Failed
    <3> QED BY <1>2, <3>1, <3>2, <3>3, <3>4 DEF ParentStep
  <2>3. ASSUME NEW d \in Children, ~Failed(d)'
        PROVE  files'[d] = ExpectedFiles(d)'
    <3>1. files[d] = ExpectedFiles(d)
      BY <2>2, <2>3 DEF FilesInv, FilesExact
    <3>2. \A i \in 0 .. N_FILES - 1 : Settled(d, i)' <=> Settled(d, i)
      BY <2>1, <2>2, <2>3 DEF Settled, loopVars
    <3>3. InFlight(d)' = InFlight(d)
      BY <2>1, <2>2, <2>3 DEF InFlight, CurrentName, loopVars
    <3>4. ExpectedFiles(d)' = ExpectedFiles(d)
      BY <3>2, <3>3 DEF ExpectedFiles
    <3> QED BY <2>1, <3>1, <3>4
  <2> QED BY <2>1, <2>3 DEF FilesInv, FilesExact
<1>3. CASE UNCHANGED vars
  BY <1>3 DEF vars, loopVars, FilesInv, FilesExact, ExpectedFiles, Settled, InFlight,
              CurrentName, Failed
<1> QED BY <1>1, <1>2, <1>3 DEF Next, Finished

\* The names of every child that has not failed are exactly those its position in
\* the loops of do_child calls for: no iteration leaves or loses a file.
THEOREM FilesCorrect == Spec => []FilesExact
<1>1. Spec => [](LoopInv /\ FilesInv)
  BY LoopInvariant, FilesInit, FilesNext, PTL DEF Spec
<1>2. FilesInv => FilesExact
  BY DEF FilesInv
<1> QED BY <1>1, <1>2, PTL

-----------------------------------------------------------------------------
(* The directories, and why no healthy child fails. *)

\* A child at work has its directory; the parent forks into an existing one.
DirsInv ==
    /\ dirs \subseteq Int
    /\ pc = "fork" => thread_group \in dirs
    /\ \A c \in Children : cpc[c] \in Working => grp[c] \in dirs

LEMMA DirsInit == Init => DirsInv
BY EnvironmentAssumption DEF Init, DirsInv, Working

LEMMA DirsNext ==
    ASSUME LoopInv, DirsInv, [Next]_vars
    PROVE  DirsInv'
<1> USE DEF LoopInv, ProtocolInv
<1>0. /\ cpc \in [Children -> CPC] /\ thread_group \in Int /\ grp \in [Children -> Int]
      /\ this_child_index \in 0 .. n_threads
  BY DEF ProtocolTypes, LoopTypes
<1>1. ASSUME NEW c \in Children, ChildStep(c)
      PROVE  DirsInv'
  <2>1. UNCHANGED <<pc, thread_group, grp, dirs>>
    BY <1>1, ChildStepShape DEF parentVars
  <2>2. \A d \in Children : cpc'[d] \in Working => cpc[d] \in Working
    BY <1>0, <1>1, ChildStepShape DEF Working
  <2> QED BY <2>1, <2>2 DEF DirsInv
<1>2. CASE Mmap
  <2>1. pc' # "fork"
    BY <1>2, OptionsAssumption DEF Mmap, SpawnAt
  <2> QED BY <1>2, <2>1 DEF Mmap, DirsInv
<1>3. CASE make_dir
  <2>1. /\ dirs \subseteq dirs' /\ UNCHANGED <<cpc, grp>>
        /\ pc' = "fork" => thread_group' \in dirs'
    BY <1>3 DEF make_dir
  <2>2. thread_group' \in Int
    BY <1>0, <1>3 DEF make_dir
  <2>3. dirs' \subseteq Int
    BY <1>3, <2>2 DEF make_dir, DirsInv
  <2> QED BY <2>1, <2>3 DEF DirsInv
<1>4. CASE Fork \/ ForkFails
  <2>1. pc = "fork" /\ UNCHANGED <<dirs, thread_group>>
    BY <1>4 DEF Fork, ForkFails, AfterFork
  <2>2. this_child_index \in Children
    BY <1>0, <2>1, OptionsAssumption DEF Spawning, Children
  <2>3. \A c \in Children : cpc'[c] \in Working => grp'[c] \in dirs
    BY <1>0, <1>4, <2>1, <2>2 DEF Fork, ForkFails, DirsInv, Working
  <2> QED BY <2>1, <2>3 DEF DirsInv
<1>5. ASSUME NEW c \in Children, Wait(c)
      PROVE  DirsInv'
  BY <1>0, <1>5 DEF Wait, DirsInv, Working
<1>6. CASE MmapFails \/ WaitFails \/ Scan \/ ScanEnd \/ Exit0
  BY <1>6 DEF MmapFails, WaitFails, Scan, ScanEnd, Exit0, DirsInv
<1>7. CASE remove_dir
  <2>1. Uncounted = {}
    BY <1>7, UncountedFacts DEF remove_dir, Counting
  <2>2. \A c \in Children : child_status[c] = 2
    BY <2>1 DEF Uncounted
  <2>3. \A c \in Children : cpc[c] \notin Working
    BY <2>2 DEF Reporting
  <2> QED BY <1>7, <2>3 DEF remove_dir, DirsInv
<1>8. CASE UNCHANGED vars
  BY <1>8 DEF vars, parentVars, DirsInv
<1> QED BY <1>1, <1>2, <1>3, <1>4, <1>5, <1>6, <1>7, <1>8
        DEF Next, ParentStep, Finished

\* doit's children never work in a removed directory, and the ranges hold.
THEOREM TypeCorrect == Spec => []TypeOK
<1>1. Spec => [](LoopInv /\ FilesInv /\ DirsInv)
  BY LoopInvariant, FilesInit, FilesNext, DirsInit, DirsNext, PTL DEF Spec
<1>2. LoopInv /\ FilesInv /\ DirsInv => TypeOK
  BY DEF LoopInv, ProtocolInv, ProtocolTypes, LoopTypes, FilesInv, DirsInv, TypeOK, CPC,
         Working, NameSet, Dead
<1> QED BY <1>1, <1>2, PTL

\* Each iteration's directory descriptor, and one for the file, fit the limit.
FdsSuffice == n_iters + 4 <= FD_LIMIT

\* No call of a child at work can fail by the state of the program.
LEMMA CallsSucceed ==
    ASSUME LoopInv, FilesInv, DirsInv, FdsSuffice, NEW c \in Children, AtCall(c)
    PROVE  ~NextCallFails(c)
<1> USE OptionsAssumption, DefinesAssumption, EnvironmentAssumption
<1>0. /\ fileno[c] \in 0 .. N_FILES /\ rename_pass[c] \in 0 .. RENAME_PASSES
      /\ iter[c] \in Nat /\ fds[c] \in Nat /\ LoopControl(c)
  BY DEF LoopInv, LoopTypes
<1>1. cpc[c] \in Working /\ ~Failed(c) /\ grp[c] \in dirs
  BY DEF AtCall, Working, Failed, Dead, DirsInv
<1>2. \A n : n \in files[c] <=>
              \/ \E i \in 0 .. N_FILES - 1 : Settled(c, i) /\ n = <<i, LastPass>>
              \/ n \in InFlight(c)
  BY <1>1, ExpectedMember DEF FilesInv, FilesExact
<1>3. cpc[c] = "iter" => OpenDirPossible(c)
  BY <1>0, <1>1 DEF OpenDirPossible, LoopControl, FdsSuffice, AtCall
<1>4. cpc[c] = "open" => OpenPossible(c)
  BY <1>0, <1>1 DEF OpenPossible, LoopControl, FdsSuffice, InIteration
<1>5. cpc[c] = "rename" => RenamePossible(c)
  BY <1>2 DEF RenamePossible, InFlight
<1>6. cpc[c] = "lag" /\ fileno[c] >= UNLINK_LAG
         => UnlinkPossible(c, fileno[c] - UNLINK_LAG)
  BY <1>0, <1>2 DEF UnlinkPossible, Settled, LoopControl, mk_new_filename
<1>7. cpc[c] = "drain" /\ fileno[c] < N_FILES => UnlinkPossible(c, fileno[c])
  BY <1>0, <1>2 DEF UnlinkPossible, Settled, mk_new_filename
<1> QED BY <1>3, <1>4, <1>5, <1>6, <1>7 DEF NextCallFails

LEMMA HealthyNext ==
    ASSUME LoopInv, FilesInv, DirsInv, FdsSuffice, HealthyChildrenSucceed, [Next]_vars
    PROVE  HealthyChildrenSucceed'
<1> SUFFICES ASSUME NEW d \in Children \ (BadChildren \cup ForkFaults)
             PROVE  ~Failed(d)'
  BY DEF HealthyChildrenSucceed
<1> USE DEF LoopInv, ProtocolInv
<1>0. /\ cpc \in [Children -> CPC] /\ child_status \in [Children -> 0 .. 2]
      /\ ~Failed(d) /\ this_child_index \in 0 .. n_threads /\ child \in 0 .. n_threads
  BY DEF ProtocolTypes, HealthyChildrenSucceed
<1>1. ASSUME NEW c \in Children, ChildStep(c)
      PROVE  ~Failed(d)'
  <2>1. CASE c # d
    BY <1>0, <1>1, <2>1, ChildStepShape DEF Failed
  <2>2. CASE c = d /\ ChildFails(c)
    BY <2>2, CallsSucceed DEF ChildFails
  <2>3. CASE c = d /\ ExitChild(c)
    BY <1>0, <2>3 DEF ExitChild, Failed, Reporting
  <2>4. CASE c = d /\ ~ChildFails(c) /\ ~ExitChild(c)
    <3>1. cpc'[c] \in Working \cup {"exit"}
      BY <1>0, <1>1, <2>4 DEF ChildStep, OpenDir, OpenFile, WriteAndClose, Rename,
          EndOfFile, LaggedUnlink, NextFile, FinalUnlink, EndOfIter, Report, Working
    <3> QED BY <2>4, <3>1 DEF Failed, Dead, Working
  <2> QED BY <2>1, <2>2, <2>3, <2>4
<1>2. CASE Fork
  <2>1. this_child_index \in Children
    BY <1>0, <1>2, OptionsAssumption DEF Fork, Spawning, Children
  <2> QED BY <1>0, <1>2, <2>1 DEF Fork, AfterFork, Failed, Dead
<1>3. CASE ForkFails
  BY <1>0, <1>3 DEF ForkFails, AfterFork, Failed, Dead
<1>4. ASSUME NEW c \in Children, Wait(c)
      PROVE  ~Failed(d)'
  BY <1>0, <1>4 DEF Wait, Failed, Dead
<1>5. CASE Scan
  <2>1. child \in Children
    BY <1>0, <1>5, OptionsAssumption DEF Scan, Children
  <2>2. UNCHANGED cpc /\ (child_status'[d] = 0 <=> child_status[d] = 0)
    BY <1>0, <1>5, <2>1 DEF Scan
  <2> QED BY <1>0, <2>2 DEF Failed
<1>6. CASE Mmap \/ MmapFails \/ make_dir \/ WaitFails \/ ScanEnd \/ remove_dir \/ Exit0
  BY <1>0, <1>6 DEF Mmap, MmapFails, make_dir, WaitFails, ScanEnd, remove_dir, Exit0, Failed
<1>7. CASE UNCHANGED vars
  BY <1>0, <1>7 DEF vars, Failed
<1> QED BY <1>1, <1>2, <1>3, <1>4, <1>5, <1>6, <1>7 DEF Next, ParentStep, Finished

\* If the descriptor limit allows for the iterations, a child fails only when a
\* system call of its own does: the directory is there until the parent has counted
\* the child, and no rename or unlink misses its file.
THEOREM HealthyCorrect == FdsSuffice /\ Spec => []HealthyChildrenSucceed
<1>1. Init => HealthyChildrenSucceed
  BY DEF Init, HealthyChildrenSucceed, Failed, Dead
<1>2. Spec => [](LoopInv /\ FilesInv /\ DirsInv)
  BY LoopInvariant, FilesInit, FilesNext, DirsInit, DirsNext, PTL DEF Spec
<1>3. FdsSuffice => (LoopInv /\ FilesInv /\ DirsInv /\ HealthyChildrenSucceed /\ [Next]_vars
                       => HealthyChildrenSucceed')
  BY HealthyNext
<1> SUFFICES ASSUME FdsSuffice PROVE Spec => []HealthyChildrenSucceed
  OBVIOUS
<1>4. LoopInv /\ FilesInv /\ DirsInv /\ HealthyChildrenSucceed /\ [Next]_vars
        => HealthyChildrenSucceed'
  BY <1>3
<1> QED BY <1>1, <1>2, <1>4, PTL DEF Spec

-----------------------------------------------------------------------------
(* The numbers of the directories, and which of them are left.             *)

LEMMA ProductsGrow ==
    ASSUME NEW b \in Nat \ {0}, NEW x \in Int, NEW y \in Int, x < y
    PROVE  x * b + b <= y * b
<1>1. PICK d \in Nat : y = x + 1 + d
  <2>1. y - x - 1 \in Nat /\ y = x + 1 + (y - x - 1)
    OBVIOUS
  <2> QED BY <2>1
<1>2. y * b = x * b + b + d * b
  BY <1>1
<1>3. d * b >= 0 /\ d * b \in Int /\ x * b \in Int
  OBVIOUS
<1> QED BY <1>2, <1>3

LEMMA Division ==
    ASSUME NEW m \in Nat, NEW b \in Nat \ {0}
    PROVE  /\ m \div b \in Int /\ m % b \in 0 .. b - 1
           /\ m = (m \div b) * b + (m % b)
OBVIOUS

\* The quotient of a number between two neighbouring multiples.
LEMMA Quotient ==
    ASSUME NEW b \in Nat \ {0}, NEW g \in Int, NEW m \in Nat,
           g * b <= m, m < g * b + b
    PROVE  m \div b = g /\ m = g * b + (m % b)
<1> DEFINE d == m \div b
           s == m % b
<1>1. d \in Int /\ s \in 0 .. b - 1 /\ m = d * b + s
  BY Division
<1> HIDE DEF d, s
<1>2. d * b \in Int /\ g * b \in Int /\ s \in Int
  BY <1>1
<1>3. ~(d < g)
  <2> SUFFICES ASSUME d < g PROVE FALSE
    OBVIOUS
  <2>1. d * b + b <= g * b
    BY <1>1, ProductsGrow
  <2> QED BY <1>1, <1>2, <2>1
<1>4. ~(g < d)
  <2> SUFFICES ASSUME g < d PROVE FALSE
    OBVIOUS
  <2>1. g * b + b <= d * b
    BY <1>1, ProductsGrow
  <2> QED BY <1>1, <1>2, <2>1
<1>5. d = g
  BY <1>1, <1>3, <1>4
<1> QED BY <1>1, <1>5 DEF d, s

\* The first multiple behind another.
LEMMA NextMultiple ==
    ASSUME NEW b \in Nat \ {0}, NEW g \in Int, NEW m \in Nat,
           g * b < m, m <= g * b + b
    PROVE  m % b = 0 <=> m = g * b + b
<1>1. CASE m = g * b + b
  <2>1. \A r \in Int : (r * b) % b = 0
    OBVIOUS
  <2>2. g + 1 \in Int /\ m = (g + 1) * b
    BY <1>1
  <2> QED BY <1>1, <2>1, <2>2
<1>2. CASE m # g * b + b
  <2> DEFINE p == g * b
             s == m % b
  <2>1. p \in Int /\ s \in Int
    OBVIOUS
  <2>2. p < m /\ m < p + b
    BY <1>2, <2>1
  <2>3. m = p + s
    <3>1. g * b <= m /\ m < g * b + b
      BY <2>2
    <3>2. m = g * b + (m % b)
      BY <3>1, Quotient
    <3> QED BY <3>2
  <2> HIDE DEF p, s
  <2>4. s # 0
    BY <2>1, <2>2, <2>3
  <2> QED BY <1>2, <2>4 DEF s
<1> QED BY <1>1, <1>2

\* Child i belongs into directory g.
InGroup(i, g) == g * threads_per_dir <= i /\ i < g * threads_per_dir + threads_per_dir

Born(c) == cpc[c] \notin {"unborn", "nofork"}

\* Without -u the directories keep their files.
Kept == ~do_unlink /\ n_iters > 0

GroupsInv ==
    /\ pc = "start" => thread_group = -1
    /\ pc = "mkdir" => this_child_index = thread_group * threads_per_dir + threads_per_dir
    /\ pc = "fork" => InGroup(this_child_index, thread_group)
    /\ \A c \in Children : Born(c) => InGroup(c, grp[c])
    /\ pc \notin {"rmdir", "exit0"} => \A c \in Children : Born(c) => grp[c] \in dirs
    /\ pc = "rmdir" =>
          /\ thread_group <= RemovedGroups
          /\ \A c \in Children : grp[c] \in dirs <=> grp[c] >= thread_group \/ Kept
    /\ pc = "exit0" => \A c \in Children : grp[c] \in dirs <=> grp[c] >= RemovedGroups \/ Kept

LEMMA GroupsInit == Init => GroupsInv
BY DEF Init, GroupsInv, Born

\* What the parent finds when no report is outstanding.
LEMMA AllCounted ==
    ASSUME LoopInv, FilesInv, pc \in {"rmdir", "exit0"} \/ (pc = "scan" /\ children_left = 0),
           NEW c \in Children
    PROVE  /\ Born(c) /\ child_status[c] = 2
           /\ files[c] = {} <=> ~Kept
<1> USE OptionsAssumption, DefinesAssumption
<1>1. child_status[c] = 2
  BY UncountedFacts DEF LoopInv, ProtocolInv, Counting, Uncounted
<1>2. cpc \in [Children -> CPC] /\ iter[c] = n_iters /\ cpc[c] \notin Working \cup {"unborn", "nofork"}
  BY <1>1 DEF LoopInv, ProtocolInv, ProtocolTypes, Reporting, LoopControl
<1>3. cpc[c] \in {"exit", "zombie", "reaped"} /\ ~Failed(c)
  BY <1>1, <1>2 DEF CPC, Failed
<1>4. files[c] = ExpectedFiles(c) /\ InFlight(c) = {}
  BY <1>3 DEF FilesInv, FilesExact, InFlight
<1>5. \A i : Settled(c, i) <=> Kept
  BY <1>2, <1>3 DEF Settled, Kept
<1>6. 0 \in 0 .. N_FILES - 1
  OBVIOUS
<1>7. files[c] = {} <=> ~Kept
  BY <1>4, <1>5, <1>6 DEF ExpectedFiles
<1> QED BY <1>1, <1>3, <1>7 DEF Born

LEMMA RemovedGroupsNat == RemovedGroups \in Nat
<1>1. n_threads \in Nat /\ threads_per_dir \in Nat \ {0}
  BY OptionsAssumption
<1> QED BY <1>1 DEF RemovedGroups

LEMMA GroupsNext ==
    ASSUME LoopInv, FilesInv, DirsInv, GroupsInv, [Next]_vars
    PROVE  GroupsInv'
<1> DEFINE b == threads_per_dir
<1>0. /\ cpc \in [Children -> CPC] /\ thread_group \in Int /\ grp \in [Children -> Int]
      /\ this_child_index \in 0 .. n_threads /\ n_threads \in Nat /\ b \in Nat \ {0}
      /\ thread_group * b \in Int
      /\ RemovedGroups \in Nat
  BY OptionsAssumption, RemovedGroupsNat DEF LoopInv, ProtocolInv, ProtocolTypes, LoopTypes
<1>1. ASSUME NEW c \in Children, ChildStep(c)
      PROVE  GroupsInv'
  <2>1. UNCHANGED <<pc, this_child_index, thread_group, grp, dirs>>
    BY <1>1, ChildStepShape DEF parentVars, LoopInv, ProtocolInv
  <2>2. \A d \in Children : Born(d)' <=> Born(d)
    <3>1. /\ cpc[c] \notin {"unborn", "nofork"}
          /\ \E s : s \notin {"unborn", "nofork"} /\ cpc' = [cpc EXCEPT ![c] = s]
      BY <1>1, ChildStepShape DEF LoopInv, ProtocolInv, Working
    <3> QED BY <1>0, <3>1 DEF Born
  <2> QED BY <2>1, <2>2 DEF GroupsInv, InGroup
<1>2. CASE Mmap
  <2>1. /\ UNCHANGED <<this_child_index, thread_group, cpc, grp, dirs>>
        /\ pc = "start" /\ pc' = "mkdir"
    BY <1>0, <1>2 DEF Mmap, SpawnAt
  <2>2. this_child_index = 0 /\ thread_group = -1
    BY <2>1 DEF GroupsInv, LoopInv, ProtocolInv, Spawning
  <2> QED BY <1>0, <2>1, <2>2 DEF GroupsInv, Born, InGroup
<1>3. CASE make_dir
  <2>1. /\ pc = "mkdir" /\ thread_group' = thread_group + 1 /\ pc' \in {"fork", "exit1"}
        /\ dirs \subseteq dirs' /\ UNCHANGED <<this_child_index, cpc, grp>>
    BY <1>3 DEF make_dir
  <2>2. InGroup(this_child_index, thread_group + 1)
    <3>1. this_child_index = thread_group * b + b /\ (thread_group + 1) * b = thread_group * b + b
      BY <1>0, <2>1 DEF GroupsInv
    <3> QED BY <1>0, <3>1 DEF InGroup
  <2> QED BY <2>1, <2>2 DEF GroupsInv, Born, InGroup
<1>4. CASE Fork \/ ForkFails
  <2>1. /\ pc = "fork" /\ UNCHANGED <<dirs, thread_group>> /\ thread_group \in dirs
        /\ this_child_index' = this_child_index + 1 /\ pc' = SpawnAt(this_child_index + 1)
    BY <1>4 DEF Fork, ForkFails, AfterFork, DirsInv
  <2>2. this_child_index \in Children
    BY <1>0, <2>1 DEF LoopInv, ProtocolInv, Spawning, Children
  <2>3. \A c \in Children : Born(c)' => \/ Born(c) /\ grp'[c] = grp[c]
                                        \/ c = this_child_index /\ grp'[c] = thread_group
    BY <1>0, <1>4, <2>2 DEF Fork, ForkFails, Born
  <2>4. InGroup(this_child_index, thread_group)
    BY <2>1 DEF GroupsInv
  <2>5. /\ pc' \in {"wait", "mkdir", "fork"}
        /\ pc' = "mkdir" => this_child_index + 1 = thread_group * b + b
        /\ pc' = "fork" => InGroup(this_child_index + 1, thread_group)
    <3>1. (this_child_index + 1) % b = 0 <=> this_child_index + 1 = thread_group * b + b
      <4>1. /\ this_child_index + 1 \in Nat /\ thread_group * b < this_child_index + 1
            /\ this_child_index + 1 <= thread_group * b + b
        BY <1>0, <2>4 DEF InGroup
      <4> QED BY <1>0, <4>1, NextMultiple
    <3>2. /\ pc' \in {"wait", "mkdir", "fork"}
          /\ pc' = "mkdir" => (this_child_index + 1) % b = 0
          /\ pc' = "fork" => (this_child_index + 1) % b # 0
      BY <2>1 DEF SpawnAt
    <3>3. this_child_index + 1 # thread_group * b + b => InGroup(this_child_index + 1, thread_group)
      BY <1>0, <2>4 DEF InGroup
    <3> QED BY <3>1, <3>2, <3>3
  <2>6. \A c \in Children : Born(c)' => InGroup(c, grp'[c]) /\ grp'[c] \in dirs
    BY <2>1, <2>3, <2>4 DEF GroupsInv
  <2> QED BY <2>1, <2>5, <2>6 DEF GroupsInv, InGroup
<1>5. ASSUME NEW c \in Children, Wait(c)
      PROVE  GroupsInv'
  <2>1. /\ pc = "wait" /\ pc' = "scan" /\ UNCHANGED <<grp, dirs>>
        /\ \A d \in Children : Born(d)' <=> Born(d)
    BY <1>0, <1>5 DEF Wait, Born
  <2> QED BY <2>1 DEF GroupsInv, InGroup
<1>6. CASE MmapFails \/ WaitFails \/ Scan
  <2>1. /\ pc' \in {"exit1", "scan"} /\ UNCHANGED <<cpc, grp, dirs>>
        /\ pc \notin {"rmdir", "exit0"}
    BY <1>6 DEF MmapFails, WaitFails, Scan
  <2> QED BY <2>1 DEF GroupsInv, InGroup, Born
<1>7. CASE ScanEnd
  <2>1. /\ UNCHANGED <<cpc, grp, dirs>> /\ pc = "scan"
        /\ \/ pc' = "wait"
           \/ pc' = "rmdir" /\ thread_group' = 0 /\ children_left = 0
    BY <1>7 DEF ScanEnd
  <2>2. CASE pc' = "wait"
    BY <2>1, <2>2 DEF GroupsInv, InGroup, Born
  <2>3. CASE pc' = "rmdir"
    <3>1. ASSUME NEW c \in Children
          PROVE  grp[c] \in dirs /\ grp[c] >= 0
      <4>1. Born(c)
        BY <2>1, <2>3, AllCounted
      <4>2. InGroup(c, grp[c]) /\ grp[c] \in dirs
        BY <2>1, <4>1 DEF GroupsInv
      <4>3. ~(grp[c] < 0)
        <5> SUFFICES ASSUME grp[c] < 0 PROVE FALSE
          OBVIOUS
        <5>1. grp[c] \in Int /\ 0 \in Int /\ c \in Nat
          BY <1>0 DEF Children
        <5>2. grp[c] * b + b <= 0 * b
          BY <1>0, <5>1, ProductsGrow
        <5>3. grp[c] * b \in Int /\ 0 * b = 0
          BY <1>0, <5>1
        <5> QED BY <1>0, <4>2, <5>1, <5>2, <5>3 DEF InGroup
      <4> QED BY <1>0, <4>2, <4>3
    <3>2. \A c \in Children : Born(c) => InGroup(c, grp[c])
      BY DEF GroupsInv
    <3> QED BY <2>1, <2>3, <3>1, <3>2, RemovedGroupsNat DEF GroupsInv, InGroup, Born
  <2> QED BY <2>1, <2>2, <2>3
<1>8. CASE remove_dir
  <2>1. /\ pc = "rmdir" /\ UNCHANGED <<pc, cpc, grp>> /\ thread_group' = thread_group + 1
        /\ thread_group < RemovedGroups
        /\ dirs' = IF Empty(thread_group) THEN dirs \ {thread_group} ELSE dirs
    BY <1>8 DEF remove_dir
  <2>2. ASSUME NEW c \in Children
        PROVE  grp[c] \in dirs' <=> grp[c] >= thread_group + 1 \/ Kept
    <3>1. grp[c] \in dirs <=> grp[c] >= thread_group \/ Kept
      BY <2>1 DEF GroupsInv
    <3>2. \A d \in Children : files[d] = {} <=> ~Kept
      BY <2>1, AllCounted
    <3>3. CASE Kept
      <4>1. grp[c] = thread_group => ~Empty(thread_group)
        BY <3>2, <3>3 DEF Empty
      <4> QED BY <2>1, <3>1, <3>3, <4>1
    <3>4. CASE ~Kept
      <4>1. Empty(thread_group)
        BY <3>2, <3>4 DEF Empty
      <4>2. grp[c] \in Int
        BY <1>0
      <4>3. grp[c] >= thread_group + 1 <=> grp[c] >= thread_group /\ grp[c] # thread_group
        BY <1>0, <4>2
      <4> QED BY <2>1, <3>1, <3>4, <4>1, <4>3
    <3> QED BY <3>3, <3>4
  <2>3. \A c \in Children : Born(c) => InGroup(c, grp[c])
    BY DEF GroupsInv
  <2>4. Kept' = Kept
    BY DEF Kept
  <2>5. thread_group + 1 <= RemovedGroups
    BY <1>0, <2>1
  <2> QED BY <2>1, <2>2, <2>3, <2>4, <2>5 DEF GroupsInv, InGroup, Born
<1>9. CASE Exit0
  <2>1. /\ pc = "rmdir" /\ pc' = "exit0" /\ thread_group >= RemovedGroups
        /\ UNCHANGED <<cpc, grp, dirs, thread_group>>
    BY <1>9 DEF Exit0
  <2>2. thread_group = RemovedGroups
    BY <1>0, <2>1 DEF GroupsInv
  <2> QED BY <2>1, <2>2 DEF GroupsInv, InGroup, Born
<1>10. CASE UNCHANGED vars
  BY <1>10 DEF vars, parentVars, GroupsInv, InGroup, Born
<1> QED BY <1>1, <1>2, <1>3, <1>4, <1>5, <1>6, <1>7, <1>8, <1>9, <1>10
        DEF Next, ParentStep, Finished

\* For any number of children and any number of them to a directory: after a successful
\* run with -u no directory is left but a last one that is not full, which the removal
\* loop leaves out; without -u rmdir() finds every directory full.
THEOREM CleanupCorrect == Spec => []CleanupExact
<1>1. Spec => [](LoopInv /\ FilesInv /\ DirsInv /\ GroupsInv)
  BY LoopInvariant, FilesInit, FilesNext, DirsInit, DirsNext, GroupsInit, GroupsNext, PTL DEF Spec
<1>2. LoopInv /\ FilesInv /\ GroupsInv /\ TypeOK => CleanupExact
  <2> SUFFICES ASSUME LoopInv, FilesInv, GroupsInv, TypeOK, pc = "exit0", NEW c \in Children
               PROVE  grp[c] \in dirs
                        <=> \/ ~do_unlink /\ n_iters > 0
                            \/ /\ grp[c] = (n_threads - 1) \div threads_per_dir
                               /\ n_threads % threads_per_dir # 0
    BY DEF CleanupExact
  <2> DEFINE b == threads_per_dir
             g == grp[c]
             p == g * b
             s == n_threads % b
             q == n_threads \div b
  <2>0. /\ b \in Nat \ {0} /\ n_threads \in Nat /\ g \in Int /\ c \in Nat /\ c < n_threads
        /\ p \in Int /\ s \in 0 .. b - 1 /\ q \in Int /\ n_threads = q * b + s
    <3>1. b \in Nat \ {0} /\ n_threads \in Nat /\ g \in Int /\ c \in Nat /\ c < n_threads
      BY OptionsAssumption DEF TypeOK, Children
    <3>2. s \in 0 .. b - 1 /\ q \in Int /\ n_threads = q * b + s
      BY <3>1, Division
    <3> QED BY <3>1, <3>2
  <2>1. p <= c /\ c < p + b
    <3>1. InGroup(c, grp[c])
      BY AllCounted DEF GroupsInv
    <3> QED BY <3>1 DEF InGroup
  <2>2. g \in dirs <=> g >= q \/ Kept
    BY DEF GroupsInv, RemovedGroups
  <2>3. g >= q <=> g = (n_threads - 1) \div b /\ s # 0
    <3> DEFINE t == q * b
    <3>0. t \in Int /\ n_threads = t + s
      BY <2>0
    <3>1. ~(q < g)
      <4> SUFFICES ASSUME q < g PROVE FALSE
        OBVIOUS
      <4>1. t + b <= p
        BY <2>0, ProductsGrow
      <4> HIDE DEF t, p, s, q, g, b
      <4> QED BY <2>0, <2>1, <3>0, <4>1
    <3>2. ASSUME g = q PROVE s # 0
      <4>1. p = t
        BY <3>2
      <4> HIDE DEF t, p, s, q, g, b
      <4> QED BY <2>0, <2>1, <3>0, <4>1
    <3>3. ASSUME s # 0 PROVE (n_threads - 1) \div b = q
      <4>1. n_threads - 1 \in Nat /\ t <= n_threads - 1 /\ n_threads - 1 < t + b
        <5> HIDE DEF t, p, s, q, g, b
        <5> QED BY <2>0, <3>0, <3>3
      <4> QED BY <2>0, <4>1, Quotient
    <3> HIDE DEF t, p, s, q, g, b
    <3> QED BY <2>0, <3>1, <3>2, <3>3
  <2> QED BY <2>2, <2>3 DEF Kept
<1> QED BY <1>1, <1>2, TypeCorrect, PTL
=============================================================================

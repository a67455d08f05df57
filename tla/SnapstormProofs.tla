-------------------------- MODULE SnapstormProofs --------------------------
(***************************************************************************)
(* Proofs about Snapstorm's synchronisation, for every number of threads.  *)
(***************************************************************************)
EXTENDS Snapstorm, FiniteSetTheorems, TLAPS

WPC == {"unborn", "nothread", "lock", "count", "store", "check", "wait", "name", "open_dst",
        "check_src", "open_src", "ioctl", "lock_end", "finish", "store_end", "returned"}

SyncTypes ==
    /\ i \in 0 .. nr_threads
    /\ mpc = "create" => i < nr_threads
    /\ waiting \subseteq Workers
    /\ nr_ready \in Nat /\ nr_finished \in Nat
    /\ wpc \in [Workers -> WPC]
    /\ tmp \in [Workers -> Nat]

\* Who is in a critical section holds its mutex.
Exclusion ==
    /\ \A w \in Workers : /\ wpc[w] \in {"count", "store", "check"} => m_start = w
                          /\ wpc[w] \in {"finish", "store_end"} => m_end = w
    /\ mpc \in {"check_ready", "go"} => m_start = Main
    /\ mpc \in {"check_end", "done"} => m_end = Main

\* A loaded counter is still current when it is stored.
Fresh == \A w \in Workers : /\ wpc[w] = "store" => tmp[w] = nr_ready
                            /\ wpc[w] = "store_end" => tmp[w] = nr_finished

\* Nobody is let go, by can_start or by the check before it, while one is missing.
StartGuard ==
    /\ can_start => Coming = {}
    /\ mpc \in {"lock_go", "go", "lock_end", "check_end", "done"} => Coming = {}
    /\ \A w \in Workers : wpc[w] \notin {"unborn", "nothread", "lock", "count", "store",
                                         "check", "wait"} => can_start
    /\ mpc = "create" => \A w \in Workers : w >= i => wpc[w] = "unborn"
    /\ mpc = "done" => Finished = Workers

SyncInv == SyncTypes /\ Exclusion /\ Fresh /\ CountersExact /\ StartGuard

-----------------------------------------------------------------------------
LEMMA WorkersFinite ==
    ASSUME NEW S, S \subseteq Workers
    PROVE  /\ IsFiniteSet(S) /\ Cardinality(S) \in 0 .. nr_threads
           /\ Cardinality(S) = nr_threads <=> S = Workers
<1>1. nr_threads \in Nat /\ nr_threads >= 1
  BY ThreadsAssumption
<1>2. IsFiniteSet(Workers) /\ Cardinality(Workers) = nr_threads
  <2>1. /\ IsFiniteSet(0 .. nr_threads - 1)
        /\ Cardinality(0 .. nr_threads - 1)
             = IF 0 > nr_threads - 1 THEN 0 ELSE (nr_threads - 1) - 0 + 1
    BY <1>1, FS_Interval
  <2> QED BY <1>1, <2>1 DEF Workers
<1>3. /\ IsFiniteSet(S) /\ Cardinality(S) <= Cardinality(Workers)
      /\ Cardinality(S) = Cardinality(Workers) => S = Workers
  BY <1>2, FS_Subset
<1>4. Cardinality(S) \in Nat
  BY <1>3, FS_CardinalityType
<1> QED BY <1>1, <1>2, <1>3, <1>4

\* The counters change with the sets they count.
LEMMA CountersFrame ==
    ASSUME CountersExact, UNCHANGED <<nr_ready, nr_finished>>,
           Coming' = Coming, Finished' = Finished
    PROVE  CountersExact'
BY DEF CountersExact

LEMMA SyncInit == Init => SyncInv
<1> SUFFICES ASSUME Init PROVE SyncInv
  OBVIOUS
<1>1. SyncTypes /\ Exclusion /\ Fresh
  <2>1. SyncTypes
    BY ThreadsAssumption DEF Init, SyncTypes, WPC
  <2>2. Exclusion /\ Fresh
    BY DEF Init, Exclusion, Fresh
  <2> QED BY <2>1, <2>2
<1>2. Coming = Workers /\ Finished = {}
  BY DEF Init, Coming, Finished
<1>3. CountersExact
  BY <1>2, FS_EmptySet DEF Init, CountersExact
<1>4. StartGuard
  BY DEF Init, StartGuard
<1> QED BY <1>1, <1>3, <1>4 DEF SyncInv

-----------------------------------------------------------------------------
LEMMA SyncMain == ASSUME SyncInv, MainStep PROVE SyncInv'
<1> USE ThreadsAssumption, HoldersAssumption DEF SyncInv
<1>0. /\ wpc \in [Workers -> WPC] /\ i \in 0 .. nr_threads
  BY DEF SyncTypes
<1>1. ASSUME NEW ok \in BOOLEAN, Create(ok)
      PROVE  SyncInv'
  <2>0. i \in Workers /\ wpc[i] = "unborn" /\ i' = i + 1 /\ i' \in 0 .. nr_threads
    BY <1>0, <1>1 DEF Create, SyncTypes, StartGuard, Workers
  <2>1. wpc' = [wpc EXCEPT ![i] = IF ok THEN "lock" ELSE "nothread"]
        /\ UNCHANGED <<syncVars, tmp>>
    BY <1>1 DEF Create, Goto
  <2>a. mpc' \in {"create", "lock_ready"} /\ (mpc' = "create" => i' # nr_threads)
        /\ mpc = "create"
    BY <1>1 DEF Create
  <2>2. SyncTypes'
    BY <1>0, <2>0, <2>1, <2>a DEF SyncTypes, WPC, syncVars
  <2>3. Exclusion' /\ Fresh'
    BY <1>0, <2>0, <2>1, <2>a DEF Exclusion, Fresh, syncVars
  <2>4. Coming' = Coming /\ Finished' = Finished
    BY <1>0, <2>0, <2>1 DEF Coming, Finished
  <2>5. CountersExact'
    BY <2>1, <2>4, CountersFrame DEF syncVars
  <2>6. StartGuard'
    BY <1>0, <2>0, <2>1, <2>4, <2>a DEF StartGuard, syncVars, Workers
  <2> QED BY <2>2, <2>3, <2>5, <2>6
<1>2. ASSUME \/ MainLocksReady \/ CheckReady \/ MainLocksGo \/ Go \/ MainLocksEnd \/ CheckEnd
      PROVE  SyncInv'
  <2>0. UNCHANGED <<wpc, tmp, nr_ready, nr_finished, i>> /\ mpc' # "create"
    BY <1>2 DEF MainLocksReady, CheckReady, MainLocksGo, Go, MainLocksEnd, CheckEnd
  <2>1. SyncTypes'
    <3>1. waiting' \subseteq Workers
      BY <1>2 DEF SyncTypes, MainLocksReady, CheckReady, MainLocksGo, Go, MainLocksEnd,
                  CheckEnd
    <3> QED BY <2>0, <3>1 DEF SyncTypes
  <2>2. Fresh'
    BY <2>0 DEF Fresh
  <2>3. Exclusion'
    <3>1. CASE MainLocksReady  BY <2>0, <3>1 DEF Exclusion, MainLocksReady
    <3>2. CASE CheckReady      BY <2>0, <3>2 DEF Exclusion, CheckReady
    <3>3. CASE MainLocksGo     BY <2>0, <3>3 DEF Exclusion, MainLocksGo
    <3>4. CASE Go              BY <2>0, <3>4 DEF Exclusion, Go
    <3>5. CASE MainLocksEnd    BY <2>0, <3>5 DEF Exclusion, MainLocksEnd
    <3>6. CASE CheckEnd        BY <2>0, <3>6 DEF Exclusion, CheckEnd
    <3> QED BY <1>2, <3>1, <3>2, <3>3, <3>4, <3>5, <3>6
  <2>4. Coming' = Coming /\ Finished' = Finished
    BY <2>0 DEF Coming, Finished
  <2>5. CountersExact'
    BY <2>0, <2>4, CountersFrame
  <2>6. nr_ready >= nr_threads => Coming = {}
    <3> DEFINE S == Workers \ Coming
    <3>1. S \subseteq Workers /\ nr_ready = Cardinality(S)
      BY DEF CountersExact
    <3> HIDE DEF S
    <3>2. nr_ready \in 0 .. nr_threads /\ (nr_ready = nr_threads => S = Workers)
      BY <3>1, WorkersFinite
    <3>3. nr_ready >= nr_threads => S = Workers
      BY <3>2
    <3> QED BY <3>3 DEF Coming, S
  <2>7. nr_finished >= nr_threads => Finished = Workers
    <3>1. Finished \subseteq Workers
      BY DEF Finished
    <3>2. nr_finished \in 0 .. nr_threads
      BY <3>1, WorkersFinite DEF CountersExact
    <3> QED BY <3>1, <3>2, WorkersFinite DEF CountersExact
  <2>8. StartGuard'
    BY <1>2, <2>0, <2>4, <2>6, <2>7 DEF StartGuard, SyncTypes, MainLocksReady, CheckReady,
         MainLocksGo, Go, MainLocksEnd, CheckEnd
  <2> QED BY <2>1, <2>2, <2>3, <2>5, <2>8
<1> QED BY <1>1, <1>2 DEF MainStep

\* A worker's step outside the two critical sections moves it forward among the
\* places of do_snap() and touches neither counters nor mutexes.
InSnap == {"name", "open_dst", "check_src", "open_src", "ioctl", "lock_end"}

SnapStep(w) == \/ FormatTarget(w) \/ OpenDst(w) \/ CheckSource(w) \/ OpenSrc(w)
               \/ SnapFails(w) \/ \E ro \in BOOLEAN : SnapCreate(w, ro)

LEMMA SnapStepShape ==
    ASSUME SyncTypes, NEW w \in Workers, SnapStep(w)
    PROVE  /\ wpc[w] \in InSnap \ {"lock_end"} /\ UNCHANGED <<mainVars, syncVars, tmp>>
           /\ wpc'[w] \in InSnap /\ wpc' = [wpc EXCEPT ![w] = wpc'[w]]
<1>a. /\ wpc[w] \in InSnap \ {"lock_end"} /\ UNCHANGED <<mainVars, syncVars, tmp>>
      /\ \E s \in InSnap : wpc' = [wpc EXCEPT ![w] = s]
  <2> USE DEF Goto, Return, InSnap
  <2>1. CASE FormatTarget(w)  BY <2>1 DEF FormatTarget
  <2>2. CASE OpenDst(w)       BY <2>2 DEF OpenDst
  <2>3. CASE CheckSource(w)   BY <2>3 DEF CheckSource
  <2>4. CASE OpenSrc(w)       BY <2>4 DEF OpenSrc
  <2>5. CASE SnapFails(w)     BY <2>5 DEF SnapFails
  <2>6. CASE \E ro \in BOOLEAN : SnapCreate(w, ro)  BY <2>6 DEF SnapCreate
  <2> QED BY <2>1, <2>2, <2>3, <2>4, <2>5, <2>6 DEF SnapStep
<1>b. \A s : wpc' = [wpc EXCEPT ![w] = s] => wpc'[w] = s
  BY DEF SyncTypes
<1> QED BY <1>a, <1>b

LEMMA SyncWorker ==
    ASSUME SyncInv, NEW w \in Workers, WorkerStep(w)
    PROVE  SyncInv'
<1> USE ThreadsAssumption, HoldersAssumption DEF SyncInv
<1>0. wpc \in [Workers -> WPC] /\ tmp \in [Workers -> Nat]
      /\ nr_ready \in Nat /\ nr_finished \in Nat
  BY DEF SyncTypes
<1>1. CASE WorkerLocks(w)
  <2>1. SyncTypes'  BY <1>0, <1>1 DEF WorkerLocks, Goto, SyncTypes, WPC, mainVars
  <2>2. Exclusion'  BY <1>0, <1>1 DEF WorkerLocks, Goto, Exclusion, mainVars
  <2>3. Fresh'      BY <1>0, <1>1 DEF WorkerLocks, Goto, Fresh
  <2>4. Coming' = Coming /\ Finished' = Finished
    BY <1>0, <1>1 DEF WorkerLocks, Goto, Coming, Finished
  <2>5. CountersExact'
    BY <1>1, <2>4, CountersFrame DEF WorkerLocks
  <2>6. StartGuard'
    BY <1>0, <1>1, <2>4 DEF WorkerLocks, Goto, StartGuard, mainVars
  <2> QED BY <2>1, <2>2, <2>3, <2>5, <2>6
<1>2. CASE LoadReady(w)
  <2>1. SyncTypes'  BY <1>0, <1>2 DEF LoadReady, Goto, SyncTypes, WPC, mainVars, syncVars
  <2>2. Exclusion'  BY <1>0, <1>2 DEF LoadReady, Goto, Exclusion, mainVars, syncVars
  <2>3. Fresh'      BY <1>0, <1>2 DEF LoadReady, Goto, Fresh, syncVars
  <2>4. Coming' = Coming /\ Finished' = Finished
    BY <1>0, <1>2 DEF LoadReady, Goto, Coming, Finished
  <2>5. CountersExact'
    BY <1>2, <2>4, CountersFrame DEF LoadReady, syncVars
  <2>6. StartGuard'
    BY <1>0, <1>2, <2>4 DEF LoadReady, Goto, StartGuard, mainVars, syncVars
  <2> QED BY <2>1, <2>2, <2>3, <2>5, <2>6
<1>3. CASE StoreReady(w)
  <2>0. nr_ready' = nr_ready + 1
    BY <1>3 DEF StoreReady, Fresh
  <2>1. SyncTypes'  BY <1>0, <1>3, <2>0 DEF StoreReady, Goto, SyncTypes, WPC, mainVars
  <2>2. Exclusion'  BY <1>0, <1>3 DEF StoreReady, Goto, Exclusion, mainVars
  <2>3. Fresh'
    <3>1. \A v \in Workers : v # w => wpc[v] # "store"
      BY <1>3 DEF StoreReady, Exclusion
    <3> QED BY <1>0, <1>3, <3>1 DEF StoreReady, Goto, Fresh
  <2>4. /\ Finished' = Finished /\ w \in Coming /\ Coming' = Coming \ {w}
        /\ Workers \ Coming' = (Workers \ Coming) \cup {w} /\ w \notin Workers \ Coming
    BY <1>0, <1>3 DEF StoreReady, Goto, Coming, Finished
  <2>5. CountersExact'
    <3> DEFINE S == Workers \ Coming
    <3>1. S \subseteq Workers /\ nr_ready = Cardinality(S) /\ w \notin S
          /\ Workers \ Coming' = S \cup {w}
      BY <2>4 DEF CountersExact
    <3> HIDE DEF S
    <3>2. Cardinality(S \cup {w}) = Cardinality(S) + 1
      BY <3>1, WorkersFinite, FS_AddElement
    <3>3. nr_ready' = Cardinality(Workers \ Coming')
      BY <2>0, <3>1, <3>2
    <3> QED BY <1>3, <2>4, <3>3 DEF CountersExact, StoreReady
  <2>6. StartGuard'
    BY <1>0, <1>3, <2>4 DEF StoreReady, Goto, StartGuard, mainVars
  <2> QED BY <2>1, <2>2, <2>3, <2>5, <2>6
<1>4. CASE CheckStart(w)
  <2>1. SyncTypes'  BY <1>0, <1>4 DEF CheckStart, Goto, SyncTypes, WPC, mainVars
  <2>2. Exclusion'
    <3>1. m_start = w
      BY <1>4 DEF CheckStart, Exclusion
    <3> QED BY <1>0, <1>4, <3>1 DEF CheckStart, Goto, Exclusion, mainVars
  <2>3. Fresh'      BY <1>0, <1>4 DEF CheckStart, Goto, Fresh
  <2>4. Coming' = Coming /\ Finished' = Finished
    BY <1>0, <1>4 DEF CheckStart, Goto, Coming, Finished
  <2>5. CountersExact'
    BY <1>4, <2>4, CountersFrame DEF CheckStart
  <2>6. StartGuard'
    BY <1>0, <1>4, <2>4 DEF CheckStart, Goto, StartGuard, mainVars
  <2> QED BY <2>1, <2>2, <2>3, <2>5, <2>6
<1>5. CASE WakeUp(w)
  <2>1. SyncTypes'  BY <1>0, <1>5 DEF WakeUp, Goto, SyncTypes, WPC, mainVars
  <2>2. Exclusion'  BY <1>0, <1>5 DEF WakeUp, Goto, Exclusion, mainVars
  <2>3. Fresh'      BY <1>0, <1>5 DEF WakeUp, Goto, Fresh
  <2>4. Coming' = Coming /\ Finished' = Finished
    BY <1>0, <1>5 DEF WakeUp, Goto, Coming, Finished
  <2>5. CountersExact'
    BY <1>5, <2>4, CountersFrame DEF WakeUp
  <2>6. StartGuard'
    BY <1>0, <1>5, <2>4 DEF WakeUp, Goto, StartGuard, mainVars
  <2> QED BY <2>1, <2>2, <2>3, <2>5, <2>6
<1>6. CASE FormatCrashes(w)
  <2>1. UNCHANGED <<i, syncVars, wpc, tmp>> /\ mpc' = "crashed"
    BY <1>6 DEF FormatCrashes
  <2>2. SyncTypes' /\ Exclusion' /\ Fresh'
    BY <2>1 DEF SyncTypes, Exclusion, Fresh, syncVars
  <2>3. Coming' = Coming /\ Finished' = Finished
    BY <2>1 DEF Coming, Finished
  <2>4. CountersExact'
    BY <2>1, <2>3, CountersFrame DEF syncVars
  <2>5. StartGuard'
    BY <2>1, <2>3 DEF StartGuard, syncVars
  <2> QED BY <2>2, <2>4, <2>5
<1>7. CASE SnapStep(w)
  <2>0. /\ wpc[w] \in InSnap \ {"lock_end"} /\ UNCHANGED <<mainVars, syncVars, tmp>>
        /\ wpc'[w] \in InSnap /\ wpc' = [wpc EXCEPT ![w] = wpc'[w]]
    BY <1>7, SnapStepShape
  <2>1. SyncTypes'  BY <1>0, <2>0 DEF SyncTypes, WPC, InSnap, mainVars, syncVars
  <2>2. Exclusion'  BY <1>0, <2>0 DEF Exclusion, InSnap, mainVars, syncVars
  <2>3. Fresh'      BY <1>0, <2>0 DEF Fresh, InSnap, syncVars
  <2>4. Coming' = Coming /\ Finished' = Finished
    BY <1>0, <2>0 DEF Coming, Finished, InSnap
  <2>5. CountersExact'
    BY <2>0, <2>4, CountersFrame DEF syncVars
  <2>6. StartGuard'
    BY <1>0, <2>0, <2>4 DEF StartGuard, InSnap, mainVars, syncVars
  <2> QED BY <2>1, <2>2, <2>3, <2>5, <2>6
<1>8. CASE WorkerLocksEnd(w)
  <2>1. SyncTypes'  BY <1>0, <1>8 DEF WorkerLocksEnd, Goto, SyncTypes, WPC, mainVars
  <2>2. Exclusion'  BY <1>0, <1>8 DEF WorkerLocksEnd, Goto, Exclusion, mainVars
  <2>3. Fresh'      BY <1>0, <1>8 DEF WorkerLocksEnd, Goto, Fresh
  <2>4. Coming' = Coming /\ Finished' = Finished
    BY <1>0, <1>8 DEF WorkerLocksEnd, Goto, Coming, Finished
  <2>5. CountersExact'
    BY <1>8, <2>4, CountersFrame DEF WorkerLocksEnd
  <2>6. StartGuard'
    BY <1>0, <1>8, <2>4 DEF WorkerLocksEnd, Goto, StartGuard, mainVars
  <2> QED BY <2>1, <2>2, <2>3, <2>5, <2>6
<1>9. CASE LoadFinished(w)
  <2>1. SyncTypes'  BY <1>0, <1>9 DEF LoadFinished, Goto, SyncTypes, WPC, mainVars, syncVars
  <2>2. Exclusion'  BY <1>0, <1>9 DEF LoadFinished, Goto, Exclusion, mainVars, syncVars
  <2>3. Fresh'      BY <1>0, <1>9 DEF LoadFinished, Goto, Fresh, syncVars
  <2>4. Coming' = Coming /\ Finished' = Finished
    BY <1>0, <1>9 DEF LoadFinished, Goto, Coming, Finished
  <2>5. CountersExact'
    BY <1>9, <2>4, CountersFrame DEF LoadFinished, syncVars
  <2>6. StartGuard'
    BY <1>0, <1>9, <2>4 DEF LoadFinished, Goto, StartGuard, mainVars, syncVars
  <2> QED BY <2>1, <2>2, <2>3, <2>5, <2>6
<1>10. CASE StoreFinished(w)
  <2>0. nr_finished' = nr_finished + 1
    BY <1>10 DEF StoreFinished, Fresh
  <2>a. m_end = w
    BY <1>10 DEF StoreFinished, Exclusion
  <2>1. SyncTypes'  BY <1>0, <1>10, <2>0 DEF StoreFinished, Goto, SyncTypes, WPC, mainVars
  <2>2. Exclusion'  BY <1>0, <1>10, <2>a DEF StoreFinished, Goto, Exclusion, mainVars
  <2>3. Fresh'
    <3>1. \A v \in Workers : v # w => wpc[v] # "store_end"
      BY <1>10 DEF StoreFinished, Exclusion
    <3> QED BY <1>0, <1>10, <3>1 DEF StoreFinished, Goto, Fresh
  <2>4. /\ Coming' = Coming /\ w \notin Finished /\ Finished' = Finished \cup {w}
        /\ Finished \subseteq Workers
    BY <1>0, <1>10 DEF StoreFinished, Goto, Coming, Finished
  <2>5. CountersExact'
    <3>1. Cardinality(Finished \cup {w}) = Cardinality(Finished) + 1
      BY <2>4, WorkersFinite, FS_AddElement
    <3>2. nr_finished' = Cardinality(Finished')
      BY <2>0, <2>4, <3>1 DEF CountersExact
    <3> QED BY <1>10, <2>4, <3>2 DEF CountersExact, StoreFinished
  <2>6. StartGuard'
    BY <1>0, <1>10, <2>4 DEF StoreFinished, Goto, StartGuard, mainVars
  <2> QED BY <2>1, <2>2, <2>3, <2>5, <2>6
<1> QED BY <1>1, <1>2, <1>3, <1>4, <1>5, <1>6, <1>7, <1>8, <1>9, <1>10
        DEF WorkerStep, SnapStep

LEMMA SyncNext == SyncInv /\ [Next]_vars => SyncInv'
<1> SUFFICES ASSUME SyncInv, [Next]_vars PROVE SyncInv'
  OBVIOUS
<1> USE DEF SyncInv
<1>1. CASE Spurious
  <2>1. /\ UNCHANGED <<mainVars, m_start, m_end, can_start, nr_ready, nr_finished, wpc, tmp>>
        /\ waiting' \subseteq waiting
    BY <1>1 DEF Spurious, SpuriousWakeUp
  <2>2. Coming' = Coming /\ Finished' = Finished
    BY <2>1 DEF Coming, Finished
  <2>3. CountersExact'
    BY <2>1, <2>2, CountersFrame
  <2> QED BY <2>1, <2>2, <2>3 DEF SyncTypes, Exclusion, Fresh, StartGuard, mainVars
<1>2. CASE UNCHANGED vars
  BY <1>2 DEF vars, mainVars, syncVars, SyncTypes, Exclusion, Fresh, StartGuard,
              CountersExact, Coming, Finished
<1> QED BY <1>1, <1>2, SyncMain, SyncWorker DEF Next, Gone

\* The synchronisation of snapstorm: its inductive invariant holds in every run.
THEOREM SyncInvariant == Spec => []SyncInv
BY SyncInit, SyncNext, PTL DEF Spec

\* The mutexes make every load-and-store increment count, for all thread numbers.
THEOREM CountersCorrect == Spec => []CountersExact
<1>1. SyncInv => CountersExact
  BY DEF SyncInv
<1> QED BY <1>1, SyncInvariant, PTL

-----------------------------------------------------------------------------
(* The descriptors. *)

\* The workers that hold the destination's descriptor, the source's as well, and those
\* that have returned without closing the former.
WithDst  == {w \in Workers : wpc[w] \in {"check_src", "open_src", "ioctl"}}
WithSrc  == {w \in Workers : wpc[w] = "ioctl"}
Leaky    == {w \in Workers : result[w] \in {"not subvolume", "no src"}}

\* What SyncInv does not say of the types.
SnapTypes ==
    /\ mpc \in {"create", "lock_ready", "check_ready", "lock_go", "go", "lock_end",
                "check_end", "done", "crashed"}
    /\ m_start \in Workers \cup {Main, NoOne} /\ m_end \in Workers \cup {Main, NoOne}
    /\ can_start \in BOOLEAN
    /\ tmp \in [Workers -> 0 .. nr_threads]
    /\ from \in {"subvol", "dir", "missing"}
    /\ result \in [Workers -> {"none", "no dest", "not subvolume", "no src", "snapped",
                               "ioctl failed"}]

SnapsMade == snaps \subseteq [by : Workers, readonly : BOOLEAN]

\* do_snap() has a result only when it has returned.
Unreturned == \A w \in Workers :
    wpc[w] \notin {"lock_end", "finish", "store_end", "returned"} => result[w] = "none"

FdsCounted ==
    /\ fds = Cardinality(WithDst) + Cardinality(WithSrc) + Cardinality(Leaky)
    /\ fds <= FD_LIMIT

FdsInv == SnapTypes /\ SnapsMade /\ Unreturned /\ FdsCounted

\* The sizes of the three sets are numbers, and change by one with a member.
LEMMA SizesOfSets ==
    ASSUME NEW S, S \subseteq Workers, NEW w
    PROVE  /\ Cardinality(S) \in Nat
           /\ Cardinality(S \cup {w}) = IF w \in S THEN Cardinality(S) ELSE Cardinality(S) + 1
           /\ Cardinality(S \ {w}) = IF w \in S THEN Cardinality(S) - 1 ELSE Cardinality(S)
BY WorkersFinite, FS_CardinalityType, FS_AddElement, FS_RemoveElement

LEMMA SetsOfWorkers ==
    WithDst \subseteq Workers /\ WithSrc \subseteq Workers /\ Leaky \subseteq Workers
BY DEF WithDst, WithSrc, Leaky

LEMMA CountersInRange ==
    ASSUME SyncInv
    PROVE  nr_ready \in 0 .. nr_threads /\ nr_finished \in 0 .. nr_threads
<1>1. Workers \ Coming \subseteq Workers /\ Finished \subseteq Workers
  BY DEF Finished
<1> QED BY <1>1, WorkersFinite DEF SyncInv, CountersExact

LEMMA FdsInit == Init => FdsInv
<1> SUFFICES ASSUME Init PROVE FdsInv
  OBVIOUS
<1>1. SnapTypes
  <2>1. tmp \in [Workers -> 0 .. nr_threads]
    BY ThreadsAssumption DEF Init
  <2>2. result \in [Workers -> {"none", "no dest", "not subvolume", "no src", "snapped",
                                "ioctl failed"}]
    BY DEF Init
  <2>3. from \in {"subvol", "dir", "missing"} /\ can_start = FALSE
        /\ m_start = NoOne /\ m_end = NoOne /\ mpc = "create"
    BY FaultsAssumption DEF Init
  <2> QED BY <2>1, <2>2, <2>3 DEF SnapTypes
<1>2. Unreturned
  BY DEF Init, Unreturned
<1>3. WithDst = {} /\ WithSrc = {} /\ Leaky = {}
  <2>1. \A w \in Workers : wpc[w] = "unborn" /\ result[w] = "none"
    BY DEF Init
  <2>2. WithDst = {} /\ WithSrc = {}
    BY <2>1 DEF WithDst, WithSrc
  <2>3. Leaky = {}
    BY <2>1 DEF Leaky
  <2> QED BY <2>2, <2>3
<1>s. SnapsMade
  BY DEF Init, SnapsMade
<1>4. FdsCounted
  BY <1>3, FS_EmptySet, FaultsAssumption DEF Init, FdsCounted
<1> QED BY <1>1, <1>2, <1>4, <1>s DEF FdsInv

\* The descriptors go with the three sets only.
LEMMA FdsFrame ==
    ASSUME FdsCounted, fds' = fds, WithDst' = WithDst, WithSrc' = WithSrc, Leaky' = Leaky
    PROVE  FdsCounted'
BY DEF FdsCounted

\* The steps that neither are in do_snap() nor lead there.
Elsewhere ==
    \/ \E ok \in BOOLEAN : Create(ok)
    \/ MainLocksReady \/ CheckReady \/ MainLocksGo \/ Go \/ MainLocksEnd \/ CheckEnd
    \/ \E w \in Workers : \/ WorkerLocks(w) \/ LoadReady(w) \/ StoreReady(w)
                          \/ CheckStart(w) \/ WakeUp(w) \/ FormatTarget(w)
                          \/ FormatCrashes(w) \/ WorkerLocksEnd(w)
                          \/ LoadFinished(w) \/ StoreFinished(w)
                          \/ SpuriousWakeUp(w)
    \/ UNCHANGED vars

LEMMA FdsElsewhere ==
    ASSUME SyncInv, FdsInv, Elsewhere
    PROVE  FdsInv'
<1>0. wpc \in [Workers -> WPC] /\ i \in 0 .. nr_threads
  BY DEF SyncInv, SyncTypes
<1>1. UNCHANGED <<from, fds, result, snaps>>
  BY DEF Elsewhere, Create, MainLocksReady, CheckReady, MainLocksGo, Go, MainLocksEnd, CheckEnd,
         WorkerLocks, LoadReady, StoreReady, CheckStart, WakeUp, FormatTarget, FormatCrashes,
         WorkerLocksEnd, LoadFinished, StoreFinished, SpuriousWakeUp, snapVars, vars
<1>2. SnapTypes'
  <2>1. tmp' \in [Workers -> 0 .. nr_threads]
    <3>1. UNCHANGED tmp \/ \E w \in Workers : \/ tmp' = [tmp EXCEPT ![w] = nr_ready]
                                              \/ tmp' = [tmp EXCEPT ![w] = nr_finished]
      BY DEF Elsewhere, Create, MainLocksReady, CheckReady, MainLocksGo, Go, MainLocksEnd, CheckEnd,
             WorkerLocks, LoadReady, StoreReady, CheckStart, WakeUp, FormatTarget,
             FormatCrashes, WorkerLocksEnd, LoadFinished, StoreFinished, SpuriousWakeUp, vars
    <3>2. /\ tmp \in [Workers -> 0 .. nr_threads]
          /\ nr_ready \in 0 .. nr_threads /\ nr_finished \in 0 .. nr_threads
      <4>1. SnapTypes
        BY DEF FdsInv
      <4>2. tmp \in [Workers -> 0 .. nr_threads]
        BY <4>1 DEF SnapTypes
      <4> QED BY <4>2, CountersInRange
    <3> QED BY <3>1, <3>2
  <2>2. /\ mpc' = mpc \/ mpc' \in {"create", "lock_ready", "check_ready", "lock_go", "go",
                                   "lock_end", "check_end", "done", "crashed"}
        /\ can_start' = can_start \/ can_start' = TRUE
        /\ m_start' = m_start \/ m_start' \in Workers \cup {Main, NoOne}
        /\ m_end' = m_end \/ m_end' \in Workers \cup {Main, NoOne}
    BY DEF Elsewhere, Create, MainLocksReady, CheckReady, MainLocksGo, Go, MainLocksEnd, CheckEnd,
           WorkerLocks, LoadReady, StoreReady, CheckStart, WakeUp, FormatTarget,
           FormatCrashes, WorkerLocksEnd, LoadFinished, StoreFinished, SpuriousWakeUp, vars,
           mainVars, syncVars
  <2>3. SnapTypes
    BY DEF FdsInv
  <2>4. /\ mpc' \in {"create", "lock_ready", "check_ready", "lock_go", "go", "lock_end",
                      "check_end", "done", "crashed"}
        /\ can_start' \in BOOLEAN
        /\ m_start' \in Workers \cup {Main, NoOne} /\ m_end' \in Workers \cup {Main, NoOne}
    BY <2>2, <2>3 DEF SnapTypes
  <2> QED BY <1>1, <2>1, <2>3, <2>4 DEF SnapTypes
<1>3. \/ UNCHANGED wpc
      \/ \E w \in Workers : \E s \in WPC :
            /\ wpc' = [wpc EXCEPT ![w] = s]
            /\ wpc[w] \notin {"check_src", "open_src", "ioctl"}
            /\ s \notin {"check_src", "open_src", "ioctl"}
            /\ \/ s \in {"lock_end", "finish", "store_end", "returned"}
               \/ wpc[w] \notin {"lock_end", "finish", "store_end", "returned"}
  <2>1. ASSUME NEW ok \in BOOLEAN, Create(ok)
        PROVE  i \in Workers /\ wpc[i] = "unborn"
    <3>1. nr_threads \in Nat /\ mpc = "create" /\ i \in 0 .. nr_threads /\ i < nr_threads
      BY <2>1, ThreadsAssumption DEF Create, SyncInv, SyncTypes
    <3>2. i \in Workers
      BY <3>1 DEF Workers
    <3>3. \A v \in Workers : v >= i => wpc[v] = "unborn"
      BY <3>1 DEF SyncInv, StartGuard
    <3> QED BY <3>1, <3>2, <3>3
  <2>2. ASSUME NEW ok \in BOOLEAN, Create(ok)
        PROVE  wpc' = [wpc EXCEPT ![i] = IF ok THEN "lock" ELSE "nothread"]
    BY <2>2 DEF Create, Goto
  <2> QED BY <2>1, <2>2 DEF Elsewhere, MainLocksReady, CheckReady, MainLocksGo, Go, MainLocksEnd, CheckEnd,
           WorkerLocks, LoadReady, StoreReady, CheckStart, WakeUp, FormatTarget,
           FormatCrashes, WorkerLocksEnd, LoadFinished, StoreFinished, SpuriousWakeUp, vars,
           Goto, WPC
<1>4. Unreturned'
  BY <1>0, <1>1, <1>3 DEF FdsInv, Unreturned
<1>5. WithDst' = WithDst /\ WithSrc' = WithSrc /\ Leaky' = Leaky
  BY <1>0, <1>1, <1>3 DEF WithDst, WithSrc, Leaky
<1>6. FdsCounted'
  BY <1>1, <1>5, FdsFrame DEF FdsInv
<1>7. SnapsMade'
  BY <1>1 DEF FdsInv, SnapsMade
<1> QED BY <1>2, <1>4, <1>6, <1>7 DEF FdsInv

\* The steps of do_snap(): each moves one worker among the three sets.
WithinSnap(w) == \/ OpenDst(w) \/ CheckSource(w) \/ OpenSrc(w) \/ SnapFails(w)
                 \/ \E ro \in BOOLEAN : SnapCreate(w, ro)

LEMMA FdsSum ==
    ASSUME NEW a \in Nat, NEW b \in Nat, NEW c \in Nat,
           NEW x \in Int, NEW y \in Int, NEW z \in Int,
           fds = a + b + c, fds' = fds + (x + y + z), fds' <= FD_LIMIT,
           Cardinality(WithDst') = a + x, Cardinality(WithSrc') = b + y,
           Cardinality(Leaky') = c + z
    PROVE  FdsCounted'
<1>1. fds' = (a + x) + (b + y) + (c + z)
  OBVIOUS
<1> QED BY <1>1 DEF FdsCounted

LEMMA FdsSnap ==
    ASSUME SyncInv, FdsInv, NEW w \in Workers, WithinSnap(w)
    PROVE  FdsInv'
<1>0. /\ wpc \in [Workers -> WPC] /\ result[w] = "none"
      /\ result \in [Workers -> {"none", "no dest", "not subvolume", "no src", "snapped",
                                 "ioctl failed"}]
  BY DEF SyncInv, SyncTypes, FdsInv, SnapTypes, Unreturned, WithinSnap, OpenDst, CheckSource, OpenSrc,
         SnapFails, SnapCreate
<1> DEFINE a == Cardinality(WithDst)
           b == Cardinality(WithSrc)
           c == Cardinality(Leaky)
<1>1. /\ a \in Nat /\ b \in Nat /\ c \in Nat /\ FD_LIMIT \in Nat
      /\ fds = a + b + c /\ fds <= FD_LIMIT
  BY SizesOfSets, SetsOfWorkers, FaultsAssumption DEF FdsInv, FdsCounted
<1>f. fds \in Nat /\ FD_LIMIT \in Nat /\ fds <= FD_LIMIT
  BY <1>1
<1>2. /\ Cardinality(WithDst \cup {w}) = IF w \in WithDst THEN a ELSE a + 1
      /\ Cardinality(WithDst \ {w}) = IF w \in WithDst THEN a - 1 ELSE a
      /\ Cardinality(WithSrc \cup {w}) = IF w \in WithSrc THEN b ELSE b + 1
      /\ Cardinality(WithSrc \ {w}) = IF w \in WithSrc THEN b - 1 ELSE b
      /\ Cardinality(Leaky \cup {w}) = IF w \in Leaky THEN c ELSE c + 1
  BY SizesOfSets, SetsOfWorkers
<1>3. w \notin Leaky
  BY <1>0 DEF Leaky
<1>m. ASSUME NEW s \in WPC, wpc' = [wpc EXCEPT ![w] = s]
      PROVE  /\ WithDst' = IF s \in {"check_src", "open_src", "ioctl"} THEN WithDst \cup {w}
                           ELSE WithDst \ {w}
             /\ WithSrc' = IF s = "ioctl" THEN WithSrc \cup {w} ELSE WithSrc \ {w}
  BY <1>0, <1>m DEF WithDst, WithSrc
<1>r. ASSUME NEW r \in {"no dest", "not subvolume", "no src", "snapped", "ioctl failed"},
             result' = [result EXCEPT ![w] = r]
      PROVE  Leaky' = IF r \in {"not subvolume", "no src"} THEN Leaky \cup {w} ELSE Leaky
  BY <1>0, <1>r DEF Leaky
<1>u. result' = result => Leaky' = Leaky
  BY DEF Leaky
<1>4. SnapTypes'
  <2>1. /\ UNCHANGED <<mpc, m_start, m_end, can_start, tmp, from>>
        /\ \/ result' = result
           \/ \E r \in {"no dest", "not subvolume", "no src", "snapped", "ioctl failed"} :
                 result' = [result EXCEPT ![w] = r]
    BY DEF WithinSnap, OpenDst, CheckSource, OpenSrc, SnapFails, SnapCreate, Return, mainVars, syncVars
  <2>2. SnapTypes
    BY DEF FdsInv
  <2>3. result' \in [Workers -> {"none", "no dest", "not subvolume", "no src", "snapped",
                                 "ioctl failed"}]
    BY <1>0, <2>1
  <2> QED BY <2>1, <2>2, <2>3 DEF SnapTypes
<1>7. SnapsMade'
  <2>1. snaps' = snaps \/ \E ro \in BOOLEAN : snaps' = snaps \cup {[by |-> w, readonly |-> ro]}
    BY DEF WithinSnap, OpenDst, CheckSource, OpenSrc, SnapFails, SnapCreate
  <2>2. \A ro \in BOOLEAN : [by |-> w, readonly |-> ro] \in [by : Workers, readonly : BOOLEAN]
    OBVIOUS
  <2> QED BY <2>1, <2>2 DEF FdsInv, SnapsMade
<1>5. Unreturned'
  <2>1. \/ /\ UNCHANGED result
           /\ \E s \in WPC : wpc' = [wpc EXCEPT ![w] = s]
        \/ /\ wpc' = [wpc EXCEPT ![w] = "lock_end"]
           /\ \E r \in {"no dest", "not subvolume", "no src", "snapped", "ioctl failed"} :
                 result' = [result EXCEPT ![w] = r]
    BY DEF WithinSnap, OpenDst, CheckSource, OpenSrc, SnapFails, SnapCreate, Return, Goto, WPC
  <2> QED BY <1>0, <2>1 DEF FdsInv, Unreturned
<1>6. FdsCounted'
  <2>1. CASE OpenDst(w)
    <3>1. w \notin WithDst /\ w \notin WithSrc
      BY <2>1 DEF OpenDst, WithDst, WithSrc
    <3>2. CASE fds < FD_LIMIT
      <4>1. fds' = fds + 1 /\ wpc' = [wpc EXCEPT ![w] = "check_src"] /\ result' = result
        BY <2>1, <3>2 DEF OpenDst, Goto
      <4>2. WithDst' = WithDst \cup {w} /\ WithSrc' = WithSrc \ {w} /\ Leaky' = Leaky
        BY <4>1, <1>m, <1>u DEF WPC
      <4> QED BY <1>1, <1>2, <3>1, <3>2, <4>1, <4>2 DEF FdsCounted
    <3>3. CASE ~(fds < FD_LIMIT)
      <4>1. /\ fds' = fds /\ wpc' = [wpc EXCEPT ![w] = "lock_end"]
            /\ result' = [result EXCEPT ![w] = "no dest"]
        BY <2>1, <3>3 DEF OpenDst, Return, Goto
      <4>2. WithDst' = WithDst \ {w} /\ WithSrc' = WithSrc \ {w} /\ Leaky' = Leaky
        BY <4>1, <1>m, <1>r DEF WPC
      <4> QED BY <1>1, <1>2, <3>1, <4>1, <4>2 DEF FdsCounted
    <3> QED BY <3>2, <3>3
  <2>2. CASE CheckSource(w)
    <3>1. w \in WithDst /\ w \notin WithSrc
      BY <2>2 DEF CheckSource, WithDst, WithSrc
    <3>2. CASE test_issubvolume = 0
      <4>1. /\ fds' = fds /\ wpc' = [wpc EXCEPT ![w] = "lock_end"]
            /\ result' = [result EXCEPT ![w] = "not subvolume"]
        BY <2>2, <3>2 DEF CheckSource, Return, Goto
      <4>2. WithDst' = WithDst \ {w} /\ WithSrc' = WithSrc \ {w} /\ Leaky' = Leaky \cup {w}
        BY <4>1, <1>m, <1>r DEF WPC
      <4>3. /\ Cardinality(WithDst') = a + (-1) /\ Cardinality(WithSrc') = b + 0
            /\ Cardinality(Leaky') = c + 1
        BY <1>1, <1>2, <1>3, <3>1, <4>2
      <4>f. fds' = fds
        BY <4>1
      <4>4. fds' = fds + ((-1) + 0 + 1) /\ fds' <= FD_LIMIT
        BY <1>f, <4>f
      <4> HIDE DEF a, b, c
      <4> QED BY <1>1, <4>3, <4>4, FdsSum, -1 \in Int
    <3>3. CASE test_issubvolume # 0
      <4>1. fds' = fds /\ wpc' = [wpc EXCEPT ![w] = "open_src"] /\ result' = result
        BY <2>2, <3>3 DEF CheckSource, Goto
      <4>2. WithDst' = WithDst \cup {w} /\ WithSrc' = WithSrc \ {w} /\ Leaky' = Leaky
        BY <4>1, <1>m, <1>u DEF WPC
      <4> QED BY <1>1, <1>2, <3>1, <4>1, <4>2 DEF FdsCounted
    <3> QED BY <3>2, <3>3
  <2>3. CASE OpenSrc(w)
    <3>1. w \in WithDst /\ w \notin WithSrc
      BY <2>3 DEF OpenSrc, WithDst, WithSrc
    <3>2. CASE opt_source # "missing" /\ fds < FD_LIMIT
      <4>1. fds' = fds + 1 /\ wpc' = [wpc EXCEPT ![w] = "ioctl"] /\ result' = result
        BY <2>3, <3>2 DEF OpenSrc, Goto
      <4>2. WithDst' = WithDst \cup {w} /\ WithSrc' = WithSrc \cup {w} /\ Leaky' = Leaky
        BY <4>1, <1>m, <1>u DEF WPC
      <4> QED BY <1>1, <1>2, <3>1, <3>2, <4>1, <4>2 DEF FdsCounted
    <3>3. CASE ~(opt_source # "missing" /\ fds < FD_LIMIT)
      <4>1. /\ fds' = fds /\ wpc' = [wpc EXCEPT ![w] = "lock_end"]
            /\ result' = [result EXCEPT ![w] = "no src"]
        BY <2>3, <3>3 DEF OpenSrc, Return, Goto
      <4>2. WithDst' = WithDst \ {w} /\ WithSrc' = WithSrc \ {w} /\ Leaky' = Leaky \cup {w}
        BY <4>1, <1>m, <1>r DEF WPC
      <4>3. /\ Cardinality(WithDst') = a + (-1) /\ Cardinality(WithSrc') = b + 0
            /\ Cardinality(Leaky') = c + 1
        BY <1>1, <1>2, <1>3, <3>1, <4>2
      <4>f. fds' = fds
        BY <4>1
      <4>4. fds' = fds + ((-1) + 0 + 1) /\ fds' <= FD_LIMIT
        BY <1>f, <4>f
      <4> HIDE DEF a, b, c
      <4> QED BY <1>1, <4>3, <4>4, FdsSum, -1 \in Int
    <3> QED BY <3>2, <3>3
  <2>4. CASE SnapFails(w) \/ \E ro \in BOOLEAN : SnapCreate(w, ro)
    <3>1. w \in WithDst /\ w \in WithSrc
      BY <2>4 DEF SnapFails, SnapCreate, WithDst, WithSrc
    <3>2. /\ fds' = fds - 2 /\ wpc' = [wpc EXCEPT ![w] = "lock_end"]
          /\ \E r \in {"snapped", "ioctl failed"} : result' = [result EXCEPT ![w] = r]
      BY <2>4 DEF SnapFails, SnapCreate, Return, Goto
    <3>3. WithDst' = WithDst \ {w} /\ WithSrc' = WithSrc \ {w} /\ Leaky' = Leaky
      BY <3>2, <1>m, <1>r DEF WPC
    <3>4. /\ Cardinality(WithDst') = a + (-1) /\ Cardinality(WithSrc') = b + (-1)
          /\ Cardinality(Leaky') = c + 0
      BY <1>1, <1>2, <3>1, <3>3
    <3>f. fds' = fds - 2
      BY <3>2
    <3>5. fds' = fds + ((-1) + (-1) + 0) /\ fds' <= FD_LIMIT
      BY <1>f, <3>f
    <3> HIDE DEF a, b, c
    <3> QED BY <1>1, <3>4, <3>5, FdsSum, -1 \in Int
  <2> QED BY <2>1, <2>2, <2>3, <2>4 DEF WithinSnap
<1> QED BY <1>4, <1>5, <1>6, <1>7 DEF FdsInv

\* The descriptors open at any moment are those of the workers within do_snap() and one
\* for each early return behind the first open(), for any number of threads and any limit.
THEOREM FdsCorrect == Spec => []FdsExact
<1>1. SyncInv /\ FdsInv /\ [Next]_vars => FdsInv'
  BY FdsElsewhere, FdsSnap DEF Elsewhere, WithinSnap, Next, MainStep, WorkerStep, Spurious, Gone
<1>2. SyncInv /\ FdsInv => FdsExact
  <2> SUFFICES ASSUME SyncInv, FdsInv PROVE FdsExact
    OBVIOUS
  <2>1. fds \in 0 .. FD_LIMIT
    <3>1. /\ Cardinality(WithDst) \in Nat /\ Cardinality(WithSrc) \in Nat
          /\ Cardinality(Leaky) \in Nat /\ FD_LIMIT \in Nat
      BY SizesOfSets, SetsOfWorkers, FaultsAssumption
    <3> QED BY <3>1 DEF FdsInv, FdsCounted
  <2>2. TypeOK
    BY <2>1, CountersInRange DEF TypeOK, SyncInv, SyncTypes, FdsInv, SnapTypes, SnapsMade, WPC
  <2> QED BY <2>2 DEF FdsExact, FdsInv, FdsCounted, WithDst, WithSrc, Leaky
<1> QED BY <1>1, <1>2, FdsInit, SyncInvariant, PTL DEF Spec

-----------------------------------------------------------------------------
(* The start barrier. *)

\* The place of a worker, by its program counter.
PlaceOf(k) == IF k \in {"unborn", "nothread", "lock", "count", "store"} THEN "coming"
              ELSE IF k \in {"check", "wait"} THEN "lined up"
              ELSE IF k = "returned" THEN "finished" ELSE "running"

Place == [w \in Workers |-> PlaceOf(wpc[w])]
Over == mpc = "done"

PlaceMapped == [w \in Workers |-> IF w \in Coming THEN "coming"
                                  ELSE IF w \in LinedUp THEN "lined up"
                                  ELSE IF w \in Finished THEN "finished" ELSE "running"]

LEMMA PlaceFacts == PlaceMapped = Place /\ PlaceMapped' = Place'
BY DEF PlaceMapped, Place, PlaceOf, Coming, LinedUp, Finished

\* A step of one worker as a step of the barrier.
WorkerMoves(w) ==
    /\ UNCHANGED Over
    /\ \/ UNCHANGED Place
       \/ Place[w] = "coming" /\ Place' = [Place EXCEPT ![w] = "lined up"]
       \/ /\ Place[w] = "lined up" /\ Place' = [Place EXCEPT ![w] = "running"]
          /\ \A v \in Workers : Place[v] # "coming"
       \/ Place[w] = "running" /\ Place' = [Place EXCEPT ![w] = "finished"]

AllDone == /\ ~Over /\ Over' /\ UNCHANGED Place
           /\ \A w \in Workers : Place[w] = "finished"

LEMMA MovesAreBarrier ==
    (\E w \in Workers : WorkerMoves(w)) \/ AllDone \/ UNCHANGED <<Place, Over>>
       => [Barrier!Next]_(Barrier!vars)
<1>1. ASSUME NEW w \in Workers, WorkerMoves(w)
      PROVE  [Barrier!Next]_(Barrier!vars)
  BY <1>1, PlaceFacts DEF PlaceMapped, WorkerMoves, Over, Barrier!Next, Barrier!vars,
     Barrier!LineUp, Barrier!Go, Barrier!Finish
<1>2. ASSUME AllDone
      PROVE  [Barrier!Next]_(Barrier!vars)
  BY <1>2, PlaceFacts DEF PlaceMapped, AllDone, Over, Barrier!Next, Barrier!vars, Barrier!End
<1>3. ASSUME UNCHANGED <<Place, Over>>
      PROVE  [Barrier!Next]_(Barrier!vars)
  BY <1>3, PlaceFacts DEF PlaceMapped, Over, Barrier!vars
<1> QED BY <1>1, <1>2, <1>3

\* A move of one worker's program counter moves its place.
LEMMA PlaceMove ==
    ASSUME SyncTypes, NEW w \in Workers, NEW s \in WPC, wpc' = [wpc EXCEPT ![w] = s]
    PROVE  Place' = [Place EXCEPT ![w] = PlaceOf(s)]
BY DEF SyncTypes, Place

LEMMA BarrierWorker ==
    ASSUME SyncInv, NEW w \in Workers, WorkerStep(w)
    PROVE  WorkerMoves(w)
<1> USE DEF SyncInv
<1>0. wpc \in [Workers -> WPC] /\ Place[w] = PlaceOf(wpc[w]) /\ mpc # "done"
  BY DEF SyncTypes, Place, WorkerStep, Alive
<1>s. ASSUME NEW s \in WPC, PlaceOf(s) = PlaceOf(wpc[w]), wpc' = [wpc EXCEPT ![w] = s]
      PROVE  UNCHANGED Place
  BY <1>0, <1>s, PlaceMove DEF Place
<1>1. CASE WorkerLocks(w) \/ LoadReady(w) \/ WakeUp(w) \/ WorkerLocksEnd(w) \/ LoadFinished(w)
  <2>1. UNCHANGED Over
    BY <1>1 DEF WorkerLocks, LoadReady, WakeUp, WorkerLocksEnd, LoadFinished, Over, mainVars
  <2>2. \E s \in WPC : PlaceOf(s) = PlaceOf(wpc[w]) /\ wpc' = [wpc EXCEPT ![w] = s]
    BY <1>1 DEF WorkerLocks, LoadReady, WakeUp, WorkerLocksEnd, LoadFinished, Goto, WPC, PlaceOf
  <2> QED BY <2>1, <2>2, <1>s DEF WorkerMoves
<1>2. CASE StoreReady(w)
  <2>1. UNCHANGED Over /\ wpc' = [wpc EXCEPT ![w] = "check"] /\ wpc[w] = "store"
    BY <1>2 DEF StoreReady, Goto, Over, mainVars
  <2> QED BY <1>0, <2>1, PlaceMove DEF WorkerMoves, PlaceOf, WPC
<1>3. CASE CheckStart(w)
  <2>1. UNCHANGED Over /\ wpc[w] = "check"
    BY <1>3 DEF CheckStart, Over, mainVars
  <2>2. CASE can_start
    <3>1. wpc' = [wpc EXCEPT ![w] = "name"]
      BY <1>3, <2>2 DEF CheckStart, Goto
    <3>2. \A v \in Workers : Place[v] # "coming"
      BY <2>2 DEF StartGuard, Coming, Place, PlaceOf
    <3> QED BY <1>0, <2>1, <3>1, <3>2, PlaceMove DEF WorkerMoves, PlaceOf, WPC
  <2>3. CASE ~can_start
    <3>1. wpc' = [wpc EXCEPT ![w] = "wait"]
      BY <1>3, <2>3 DEF CheckStart, Goto
    <3> QED BY <2>1, <3>1, <1>s DEF WorkerMoves, PlaceOf, WPC
  <2> QED BY <2>2, <2>3
<1>4. CASE FormatCrashes(w)
  BY <1>0, <1>4 DEF FormatCrashes, WorkerMoves, Place, Over
<1>5. CASE SnapStep(w)
  <2>1. /\ wpc[w] \in InSnap \ {"lock_end"} /\ UNCHANGED mainVars
        /\ wpc'[w] \in InSnap /\ wpc' = [wpc EXCEPT ![w] = wpc'[w]]
    BY <1>5, SnapStepShape
  <2>2. PlaceOf(wpc'[w]) = PlaceOf(wpc[w]) /\ wpc'[w] \in WPC
    BY <2>1 DEF InSnap, PlaceOf, WPC
  <2>3. UNCHANGED Over
    BY <2>1 DEF Over, mainVars
  <2> QED BY <2>1, <2>2, <2>3, <1>s DEF WorkerMoves
<1>6. CASE StoreFinished(w)
  <2>1. UNCHANGED Over /\ wpc' = [wpc EXCEPT ![w] = "returned"] /\ wpc[w] = "store_end"
    BY <1>6 DEF StoreFinished, Goto, Over, mainVars
  <2> QED BY <1>0, <2>1, PlaceMove DEF WorkerMoves, PlaceOf, WPC
<1> QED BY <1>1, <1>2, <1>3, <1>4, <1>5, <1>6 DEF WorkerStep, SnapStep

LEMMA BarrierMain ==
    ASSUME SyncInv, SyncInv', MainStep
    PROVE  AllDone \/ UNCHANGED <<Place, Over>>
<1> USE DEF SyncInv
<1>1. ASSUME NEW ok \in BOOLEAN, Create(ok)
      PROVE  UNCHANGED <<Place, Over>>
  <2>1. /\ i \in Workers /\ wpc[i] = "unborn" /\ UNCHANGED Over
        /\ wpc' = [wpc EXCEPT ![i] = IF ok THEN "lock" ELSE "nothread"]
    BY <1>1, ThreadsAssumption DEF Create, Goto, SyncTypes, StartGuard, Workers, Over
  <2>2. Place' = [Place EXCEPT ![i] = "coming"] /\ Place[i] = "coming"
    BY <2>1, PlaceMove DEF PlaceOf, WPC, Place
  <2> QED BY <2>1, <2>2 DEF Place
<1>2. CASE MainLocksReady \/ CheckReady \/ MainLocksGo \/ Go \/ MainLocksEnd
  BY <1>2 DEF MainLocksReady, CheckReady, MainLocksGo, Go, MainLocksEnd, Place, Over
<1>3. CASE CheckEnd
  <2>1. UNCHANGED Place /\ mpc = "check_end"
    BY <1>3 DEF CheckEnd, Place
  <2>2. mpc' = "done" => \A w \in Workers : Place'[w] = "finished"
    BY DEF StartGuard, Finished, Place, PlaceOf
  <2> QED BY <2>1, <2>2 DEF AllDone, Over
<1> QED BY <1>1, <1>2, <1>3 DEF MainStep

\* snapstorm is a start barrier and a join: no worker passes can_start while another
\* is missing, and main returns only after the last has finished.
THEOREM RefinesStartBarrier == Spec => Barrier!Init /\ [][Barrier!Next]_(Barrier!vars)
<1>1. Init => Barrier!Init
  BY DEF Init, Barrier!Init, Coming
<1>2. SyncInv /\ SyncInv' /\ [Next]_vars => [Barrier!Next]_(Barrier!vars)
  <2> SUFFICES ASSUME SyncInv, SyncInv', [Next]_vars
               PROVE  (\E w \in Workers : WorkerMoves(w)) \/ AllDone \/ UNCHANGED <<Place, Over>>
    BY MovesAreBarrier
  <2>1. CASE Spurious
    BY <2>1 DEF Spurious, SpuriousWakeUp, Place, Over, mainVars
  <2>2. CASE UNCHANGED vars
    BY <2>2 DEF vars, mainVars, Place, Over
  <2> QED BY <2>1, <2>2, BarrierMain, BarrierWorker DEF Next, Gone
<1> QED BY <1>1, <1>2, SyncInvariant, PTL DEF Spec

\* The same, as the property the runs check.
THEOREM BarrierCorrect == Spec => ImplementsBarrier
BY RefinesStartBarrier DEF ImplementsBarrier, Barrier!Spec
=============================================================================

----------------------------- MODULE Snapstorm -----------------------------
(***************************************************************************)
(* incoming/snapstorm.c: main() creates nr_threads workers, waits by       *)
(* polling until all have counted themselves in nr_ready, lets them go     *)
(* with can_start and the condition variable c_start, and polls            *)
(* nr_finished until each has taken (or failed to take) one snapshot.      *)
(*                                                                         *)
(* Mutexes are their holders, the condition variable is the set of workers *)
(* in pthread_cond_wait().  The snapshot itself goes by the descriptors it *)
(* takes and the arguments it passes.                                      *)
(***************************************************************************)
EXTENDS Integers, FiniteSets

CONSTANTS
    nr_threads,    \* -c
    opt_readonly,  \* -r; nothing reads it
    options,       \* whether the command line has options at all
    CreateFaults,  \* workers whose pthread_create() may fail
    SourceKinds,   \* what "from" may be: "subvol", "dir" or "missing"
    FD_LIMIT,      \* descriptors the process may have besides the standard ones
    MayCrash,      \* whether the undefined snprintf() may end in SIGSEGV
    Main, NoOne    \* holders of a mutex that are not workers

Workers == 0 .. nr_threads - 1

ASSUME ThreadsAssumption == nr_threads \in 1 .. 4096
ASSUME FaultsAssumption ==
    /\ CreateFaults \subseteq Workers
    /\ SourceKinds \subseteq {"subvol", "dir", "missing"} /\ SourceKinds # {}
    /\ FD_LIMIT \in Nat
    /\ opt_readonly \in BOOLEAN /\ options \in BOOLEAN /\ MayCrash \in BOOLEAN
    /\ opt_readonly => options
ASSUME HoldersAssumption == Main \notin Workers /\ NoOne \notin Workers /\ Main # NoOne

VARIABLES
    mpc, i,                    \* main: program counter and creation loop
    m_start, m_end,            \* holders of the mutexes
    waiting,                   \* workers blocked on c_start
    can_start, nr_ready, nr_finished,
    wpc,                       \* program counters of the workers
    tmp,                       \* what each has read of the counter it increments
    from,                      \* what the operand "from" names
    fds,                       \* open descriptors of the process
    result,                    \* how each worker's do_snap() ended
    snaps                      \* the snapshots taken

mainVars == <<mpc, i>>
syncVars == <<m_start, m_end, waiting, can_start, nr_ready, nr_finished>>
snapVars == <<from, fds, result, snaps>>
vars == <<mainVars, syncVars, wpc, tmp, snapVars>>

Goto(w, where) == wpc' = [wpc EXCEPT ![w] = where]

Init ==
    /\ mpc = "create" /\ i = 0
    /\ m_start = NoOne /\ m_end = NoOne
    /\ waiting = {}
    /\ can_start = FALSE /\ nr_ready = 0 /\ nr_finished = 0
    /\ wpc = [w \in Workers |-> "unborn"]
    /\ tmp = [w \in Workers |-> 0]
    /\ from \in SourceKinds
    /\ fds = 0
    /\ result = [w \in Workers |-> "none"]
    /\ snaps = {}

\* main has returned or a thread has crashed: the process is gone.
Alive == mpc \notin {"done", "crashed"}

-----------------------------------------------------------------------------
(* main *)

\* pthread_create(); its result is not looked at.
Create(ok) ==
    /\ mpc = "create"
    /\ ok \/ i \in CreateFaults
    /\ Goto(i, IF ok THEN "lock" ELSE "nothread")
    /\ i' = i + 1
    /\ mpc' = IF i' = nr_threads THEN "lock_ready" ELSE "create"
    /\ UNCHANGED <<syncVars, tmp, snapVars>>

MainLocksReady ==
    /\ mpc = "lock_ready" /\ m_start = NoOne
    /\ m_start' = Main
    /\ mpc' = "check_ready"
    /\ UNCHANGED <<i, m_end, waiting, can_start, nr_ready, nr_finished, wpc, tmp, snapVars>>

\* Mutant: main is content with one worker less.
CheckReadyEarly ==
    /\ mpc = "check_ready"
    /\ mpc' = IF nr_ready < nr_threads - 1 THEN "lock_ready" ELSE "lock_go"
    /\ m_start' = NoOne
    /\ UNCHANGED <<i, m_end, waiting, can_start, nr_ready, nr_finished, wpc, tmp, snapVars>>

\* Either way the mutex is released, before sleep() or for good.
CheckReady ==
    /\ mpc = "check_ready"
    /\ mpc' = IF nr_ready < nr_threads THEN "lock_ready" ELSE "lock_go"
    /\ m_start' = NoOne
    /\ UNCHANGED <<i, m_end, waiting, can_start, nr_ready, nr_finished, wpc, tmp, snapVars>>

MainLocksGo ==
    /\ mpc = "lock_go" /\ m_start = NoOne
    /\ m_start' = Main
    /\ mpc' = "go"
    /\ UNCHANGED <<i, m_end, waiting, can_start, nr_ready, nr_finished, wpc, tmp, snapVars>>

\* Mutant: pthread_cond_signal() wakes one waiter only.
GoSignals ==
    /\ mpc = "go"
    /\ can_start' = TRUE
    /\ IF waiting = {} THEN UNCHANGED waiting
       ELSE \E w \in waiting : waiting' = waiting \ {w}
    /\ m_start' = NoOne
    /\ mpc' = "lock_end"
    /\ UNCHANGED <<i, m_end, nr_ready, nr_finished, wpc, tmp, snapVars>>

\* can_start = 1, pthread_cond_broadcast() and the unlock
Go ==
    /\ mpc = "go"
    /\ can_start' = TRUE
    /\ waiting' = {}
    /\ m_start' = NoOne
    /\ mpc' = "lock_end"
    /\ UNCHANGED <<i, m_end, nr_ready, nr_finished, wpc, tmp, snapVars>>

MainLocksEnd ==
    /\ mpc = "lock_end" /\ m_end = NoOne
    /\ m_end' = Main
    /\ mpc' = "check_end"
    /\ UNCHANGED <<i, m_start, waiting, can_start, nr_ready, nr_finished, wpc, tmp, snapVars>>

\* main returns with m_end locked.
CheckEnd ==
    /\ mpc = "check_end"
    /\ IF nr_finished < nr_threads
          THEN mpc' = "lock_end" /\ m_end' = NoOne
          ELSE mpc' = "done" /\ UNCHANGED m_end
    /\ UNCHANGED <<i, m_start, waiting, can_start, nr_ready, nr_finished, wpc, tmp, snapVars>>

-----------------------------------------------------------------------------
(* t_worker *)

WorkerLocks(w) ==
    /\ wpc[w] = "lock" /\ m_start = NoOne
    /\ m_start' = w
    /\ Goto(w, "count")
    /\ UNCHANGED <<mainVars, m_end, waiting, can_start, nr_ready, nr_finished, tmp, snapVars>>

\* nr_ready++ is a load and a store; only the mutex keeps them together.
LoadReady(w) ==
    /\ wpc[w] = "count"
    /\ tmp' = [tmp EXCEPT ![w] = nr_ready]
    /\ Goto(w, "store")
    /\ UNCHANGED <<mainVars, syncVars, snapVars>>

StoreReady(w) ==
    /\ wpc[w] = "store"
    /\ nr_ready' = tmp[w] + 1
    /\ Goto(w, "check")
    /\ UNCHANGED <<mainVars, m_start, m_end, waiting, can_start, nr_finished, tmp, snapVars>>

\* while (!can_start) pthread_cond_wait(): the wait releases the mutex in the
\* same step that joins the waiters.
CheckStart(w) ==
    /\ wpc[w] = "check"
    /\ m_start' = NoOne
    /\ IF can_start
          THEN Goto(w, "name") /\ UNCHANGED waiting
          ELSE Goto(w, "wait") /\ waiting' = waiting \cup {w}
    /\ UNCHANGED <<mainVars, m_end, can_start, nr_ready, nr_finished, tmp, snapVars>>

\* Woken by the broadcast: out of the waiters, it needs the mutex again.
WakeUp(w) ==
    /\ wpc[w] = "wait" /\ w \notin waiting /\ m_start = NoOne
    /\ m_start' = w
    /\ Goto(w, "check")
    /\ UNCHANGED <<mainVars, m_end, waiting, can_start, nr_ready, nr_finished, tmp, snapVars>>

\* POSIX lets pthread_cond_wait() return without a broadcast.
SpuriousWakeUp(w) ==
    /\ w \in waiting
    /\ waiting' = waiting \ {w}
    /\ UNCHANGED <<mainVars, m_start, m_end, can_start, nr_ready, nr_finished, wpc, tmp, snapVars>>

\* snprintf(target, ..., "%s-%ld-%lu", i, time(NULL)): the worker's number is
\* taken for the address of a string.  The name that comes out is not the
\* second operand, and for an unmapped address the process dies.
FormatTarget(w) ==
    /\ wpc[w] = "name"
    /\ Goto(w, "open_dst")
    /\ UNCHANGED <<mainVars, syncVars, tmp, snapVars>>

FormatCrashes(w) ==
    /\ wpc[w] = "name" /\ MayCrash /\ w # 0
    /\ mpc' = "crashed"
    /\ UNCHANGED <<i, syncVars, wpc, tmp, snapVars>>

\* do_snap() returns with result r.
Return(w, r) ==
    /\ result' = [result EXCEPT ![w] = r]
    /\ Goto(w, "lock_end")

\* open_file_or_dir("."): the directory exists, so only descriptors can lack.
OpenDst(w) ==
    /\ wpc[w] = "open_dst"
    /\ IF fds < FD_LIMIT
          THEN fds' = fds + 1 /\ Goto(w, "check_src") /\ UNCHANGED result
          ELSE Return(w, "no dest") /\ UNCHANGED fds
    /\ UNCHANGED <<mainVars, syncVars, tmp, from, snaps>>

\* strcpy(opt_source, argv[1]), and argv does not move with the options: if there
\* are any, argv[1] is the first of them, which names no file.
opt_source == IF options THEN "missing" ELSE from

\* test_issubvolume() is -1 for a missing source, which counts as true here.
test_issubvolume == CASE opt_source = "subvol" -> 1
                      [] opt_source = "dir" -> 0
                      [] opt_source = "missing" -> -1

\* The early return leaves the destination's descriptor open.
CheckSource(w) ==
    /\ wpc[w] = "check_src"
    /\ IF test_issubvolume = 0
          THEN Return(w, "not subvolume")
          ELSE Goto(w, "open_src") /\ UNCHANGED result
    /\ UNCHANGED <<mainVars, syncVars, tmp, from, fds, snaps>>

OpenSrc(w) ==
    /\ wpc[w] = "open_src"
    /\ IF opt_source # "missing" /\ fds < FD_LIMIT
          THEN fds' = fds + 1 /\ Goto(w, "ioctl") /\ UNCHANGED result
          ELSE Return(w, "no src") /\ UNCHANGED fds
    /\ UNCHANGED <<mainVars, syncVars, tmp, from, snaps>>

\* args.flags is never set: the kernel sees whatever was on the stack, refuses
\* it, or takes its read-only bit.  opt_readonly is not passed on.
SnapCreate(w, ro) ==
    /\ wpc[w] = "ioctl"
    /\ snaps' = snaps \cup {[by |-> w, readonly |-> ro]}
    /\ fds' = fds - 2
    /\ Return(w, "snapped")
    /\ UNCHANGED <<mainVars, syncVars, tmp, from>>

\* Mutant: a failed ioctl() leaves the destination open.
SnapFailsLeaks(w) ==
    /\ wpc[w] = "ioctl"
    /\ fds' = fds - 1
    /\ Return(w, "ioctl failed")
    /\ UNCHANGED <<mainVars, syncVars, tmp, from, snaps>>

SnapFails(w) ==
    /\ wpc[w] = "ioctl"
    /\ fds' = fds - 2
    /\ Return(w, "ioctl failed")
    /\ UNCHANGED <<mainVars, syncVars, tmp, from, snaps>>

\* Mutant: the mutex is not taken.
WorkerLocksEndNot(w) ==
    /\ wpc[w] = "lock_end"
    /\ Goto(w, "finish")
    /\ UNCHANGED <<mainVars, syncVars, tmp, snapVars>>

WorkerLocksEnd(w) ==
    /\ wpc[w] = "lock_end" /\ m_end = NoOne
    /\ m_end' = w
    /\ Goto(w, "finish")
    /\ UNCHANGED <<mainVars, m_start, waiting, can_start, nr_ready, nr_finished, tmp, snapVars>>

LoadFinished(w) ==
    /\ wpc[w] = "finish"
    /\ tmp' = [tmp EXCEPT ![w] = nr_finished]
    /\ Goto(w, "store_end")
    /\ UNCHANGED <<mainVars, syncVars, snapVars>>

StoreFinished(w) ==
    /\ wpc[w] = "store_end"
    /\ nr_finished' = tmp[w] + 1
    /\ m_end' = NoOne
    /\ Goto(w, "returned")
    /\ UNCHANGED <<mainVars, m_start, waiting, can_start, nr_ready, tmp, snapVars>>

-----------------------------------------------------------------------------
MainStep == \/ \E ok \in BOOLEAN : Create(ok)
            \/ MainLocksReady \/ CheckReady \/ MainLocksGo \/ Go
            \/ MainLocksEnd \/ CheckEnd

WorkerStep(w) ==
    /\ Alive
    /\ \/ WorkerLocks(w) \/ LoadReady(w) \/ StoreReady(w) \/ CheckStart(w) \/ WakeUp(w)
       \/ FormatTarget(w) \/ FormatCrashes(w) \/ OpenDst(w)
       \/ CheckSource(w) \/ OpenSrc(w) \/ SnapFails(w)
       \/ \E ro \in BOOLEAN : SnapCreate(w, ro)
       \/ WorkerLocksEnd(w) \/ LoadFinished(w) \/ StoreFinished(w)

Spurious == Alive /\ \E w \in Workers : SpuriousWakeUp(w)

Gone == ~Alive /\ UNCHANGED vars

Next == MainStep \/ (\E w \in Workers : WorkerStep(w)) \/ Spurious \/ Gone

\* The scheduler runs every runnable thread, and a thread that keeps trying gets
\* a mutex that keeps being released: main sleeps a second with it unlocked.
Fairness ==
    /\ WF_vars(MainStep)
    /\ SF_vars(MainLocksReady) /\ SF_vars(MainLocksGo) /\ SF_vars(MainLocksEnd)
    /\ \A w \in Workers :
          /\ WF_vars(WorkerStep(w))
          /\ SF_vars(Alive /\ (WorkerLocks(w) \/ WakeUp(w)))
          /\ SF_vars(Alive /\ WorkerLocksEnd(w))

Spec == Init /\ [][Next]_vars /\ Fairness

-----------------------------------------------------------------------------
(* Properties. *)

Coming   == {w \in Workers : wpc[w] \in {"unborn", "nothread", "lock", "count", "store"}}
LinedUp  == {w \in Workers : wpc[w] \in {"check", "wait"}}
Finished == {w \in Workers : wpc[w] = "returned"}

\* The ranges of the variables; descriptors never exceed the limit.
TypeOK ==
    /\ mpc \in {"create", "lock_ready", "check_ready", "lock_go", "go", "lock_end",
                "check_end", "done", "crashed"}
    /\ i \in 0 .. nr_threads
    /\ m_start \in Workers \cup {Main, NoOne}
    /\ m_end \in Workers \cup {Main, NoOne}
    /\ waiting \subseteq Workers
    /\ can_start \in BOOLEAN
    /\ nr_ready \in 0 .. nr_threads
    /\ nr_finished \in 0 .. nr_threads
    /\ wpc \in [Workers -> {"unborn", "nothread", "lock", "count", "store", "check", "wait",
                            "name", "open_dst", "check_src", "open_src", "ioctl",
                            "lock_end", "finish", "store_end", "returned"}]
    /\ tmp \in [Workers -> 0 .. nr_threads]
    /\ from \in {"subvol", "dir", "missing"}
    /\ fds \in 0 .. FD_LIMIT
    /\ result \in [Workers -> {"none", "no dest", "not subvolume", "no src", "snapped",
                               "ioctl failed"}]
    /\ snaps \subseteq [by : Workers, readonly : BOOLEAN]

\* Both counters are exact at every moment, not only when main reads them: of two
\* workers that increment one, neither overwrites the other's, and a spurious
\* wakeup is not counted.
CountersExact == /\ nr_ready = Cardinality(Workers \ Coming)
                 /\ nr_finished = Cardinality(Finished)

\* The two polling loops and the condition variable make a start barrier and a
\* join: none goes before all are lined up, and main is done after the last.
Barrier == INSTANCE StartBarrier WITH
    place <- [w \in Workers |-> IF w \in Coming THEN "coming"
                                ELSE IF w \in LinedUp THEN "lined up"
                                ELSE IF w \in Finished THEN "finished" ELSE "running"],
    over <- mpc = "done"

\* snapstorm implements the barrier, with spurious wakeups, failed thread creations
\* (then nobody ever starts) and a crash at any worker's turn.
ImplementsBarrier == Barrier!Spec

\* If every thread was created the run ends, by main's return or by the crash:
\* no wakeup is lost and nobody holds a mutex another needs.
Completes == <>(~Alive \/ \E w \in Workers : wpc[w] = "nothread")

\* The open descriptors are at every moment those of the workers within do_snap(),
\* two at most for each, and exactly one for each that has returned early after it
\* had opened the destination: the failure paths leak that one and nothing else.
FdsExact ==
    /\ TypeOK
    /\ fds = Cardinality({w \in Workers : wpc[w] \in {"check_src", "open_src", "ioctl"}})
             + Cardinality({w \in Workers : wpc[w] = "ioctl"})
             + Cardinality({w \in Workers : result[w] \in {"not subvolume", "no src"}})
=============================================================================

------------------------------ MODULE Synctest ------------------------------
(***************************************************************************)
(* incoming/synctest.c: a parent forks n_threads children into numbered    *)
(* directories; each child creates, renames and (with -u) unlinks N_FILES  *)
(* files per iteration and finally reports through the shared array        *)
(* child_status.  The parent counts reports down each time wait3() returns *)
(* and removes the directories when none is outstanding.                   *)
(*                                                                         *)
(* One action per system call whose effect another process, or a later     *)
(* call of the same one, can see.  Every failing call of a child ends in   *)
(* exit(1); all those branches are the action ChildFails.                  *)
(***************************************************************************)
EXTENDS Integers, FiniteSets

CONSTANTS
    n_threads,        \* -t
    threads_per_dir,  \* -p
    n_iters,          \* -n
    do_unlink,        \* -u
    N_FILES, UNLINK_LAG, RENAME_PASSES,
    WRITE_MIN, WRITE_MAX,  \* 5000 and 250000 in write_stuff_to
    FD_LIMIT,         \* RLIMIT_NOFILE
    BadChildren,      \* children whose system calls may fail (EIO, ENOSPC...)
    ForkFaults,       \* children whose fork() may fail
    ParentFaults,     \* whether the parent's mmap() and mkdir() may fail
    Leftovers         \* numbered directories that may exist before the run

Children == 0 .. n_threads - 1

ASSUME OptionsAssumption ==
    /\ n_threads \in Nat
    /\ threads_per_dir \in Nat \ {0}
    /\ n_iters \in Nat
    /\ do_unlink \in BOOLEAN

ASSUME DefinesAssumption ==
    /\ N_FILES \in Nat \ {0}
    /\ UNLINK_LAG \in 0 .. N_FILES
    /\ RENAME_PASSES \in Nat \ {0}
    /\ WRITE_MIN \in Nat /\ WRITE_MAX \in Nat /\ WRITE_MIN <= WRITE_MAX

ASSUME EnvironmentAssumption ==
    /\ FD_LIMIT \in Nat
    /\ BadChildren \subseteq Children
    /\ ForkFaults \subseteq Children
    /\ ParentFaults \in BOOLEAN
    /\ Leftovers \subseteq Nat

VARIABLES
    \* the parent, doit()
    pc, this_child_index, thread_group, children_left, child,
    \* the shared mapping
    child_status,
    \* each child: program counter, the thread_group it inherited, the loop
    \* variables of doit, do_child and do_one_file, its static to_write, and
    \* its number of open descriptors
    cpc, grp, iter, fileno, rename_pass, to_write, fds,
    \* the file system: directories, and the names each child has in its own
    dirs, files

parentVars == <<pc, this_child_index, thread_group, children_left, child>>
loopVars   == <<iter, fileno, rename_pass, to_write, fds>>
vars == <<parentVars, child_status, cpc, grp, loopVars, dirs, files>>

-----------------------------------------------------------------------------
(* Names.  The pid keeps the names of two children of one directory apart, *)
(* so a child's names are pairs <<fileno, pass>>; pass -1 is mk_filename.   *)

mk_filename(f) == <<f, -1>>

mk_new_filename(f, pass) == <<f, pass>>

Passes == -1 .. RENAME_PASSES - 1
LastPass == RENAME_PASSES - 1

\* write_stuff_to: to_write *= 1.1, truncated, and back to the start past the cap.
NextWrite(w) ==
    LET grown == (11 * w) \div 10
    IN  IF grown > WRITE_MAX THEN WRITE_MIN ELSE grown

\* Where the spawn loop continues for this_child_index = i.
SpawnAt(i) ==
    IF i >= n_threads THEN "wait"
    ELSE IF i % threads_per_dir = 0 THEN "mkdir" ELSE "fork"

\* A failed child never writes child_status; a missing one never could.
Dead == {"zombie", "reaped"}
Failed(c) == \/ cpc[c] = "nofork"
             \/ cpc[c] \in Dead /\ child_status[c] = 0

-----------------------------------------------------------------------------
Init ==
    /\ pc = "start"
    /\ this_child_index = 0 /\ thread_group = -1
    /\ children_left = 0 /\ child = 0
    /\ child_status = [c \in Children |-> 0]
    /\ cpc = [c \in Children |-> "unborn"]
    /\ grp = [c \in Children |-> -1]
    /\ iter = [c \in Children |-> 0]
    /\ fileno = [c \in Children |-> 0]
    /\ rename_pass = [c \in Children |-> 0]
    /\ to_write = [c \in Children |-> WRITE_MIN]
    /\ fds = [c \in Children |-> 3]
    /\ dirs \in SUBSET Leftovers
    /\ files = [c \in Children |-> {}]

-----------------------------------------------------------------------------
(* The parent. *)

\* mmap() of zero bytes is EINVAL, so -t 0 ends here.
Mmap ==
    /\ pc = "start" /\ n_threads > 0
    /\ pc' = SpawnAt(0)
    /\ UNCHANGED <<this_child_index, thread_group, children_left, child,
                   child_status, cpc, grp, loopVars, dirs, files>>

MmapFails ==
    /\ pc = "start" /\ (n_threads = 0 \/ ParentFaults)
    /\ pc' = "exit1"
    /\ UNCHANGED <<this_child_index, thread_group, children_left, child,
                   child_status, cpc, grp, loopVars, dirs, files>>

make_dir ==
    /\ pc = "mkdir"
    /\ thread_group' = thread_group + 1
    /\ \/ /\ thread_group' \in dirs \/ ParentFaults
          /\ pc' = "exit1" /\ UNCHANGED dirs
       \/ /\ thread_group' \notin dirs
          /\ pc' = "fork" /\ dirs' = dirs \cup {thread_group'}
    /\ UNCHANGED <<this_child_index, children_left, child, child_status, cpc,
                   grp, loopVars, files>>

\* Entering the wait loop sets children_left.
AfterFork ==
    /\ this_child_index' = this_child_index + 1
    /\ pc' = SpawnAt(this_child_index')
    /\ children_left' = IF pc' = "wait" THEN n_threads ELSE children_left
    /\ UNCHANGED <<thread_group, child, child_status, loopVars, dirs, files>>

Fork ==
    /\ pc = "fork"
    /\ cpc' = [cpc EXCEPT ![this_child_index] = "iter"]
    /\ grp' = [grp EXCEPT ![this_child_index] = thread_group]
    /\ AfterFork

\* fork() == -1 takes the parent's path: the child is counted all the same.
ForkFails ==
    /\ pc = "fork" /\ this_child_index \in ForkFaults
    /\ cpc' = [cpc EXCEPT ![this_child_index] = "nofork"]
    /\ UNCHANGED grp
    /\ AfterFork

\* wait3() returns some dead child, whichever that is, and the scan starts.
Wait(c) ==
    /\ pc = "wait" /\ cpc[c] = "zombie"
    /\ cpc' = [cpc EXCEPT ![c] = "reaped"]
    /\ pc' = "scan" /\ child' = 0
    /\ UNCHANGED <<this_child_index, thread_group, children_left, child_status,
                   grp, loopVars, dirs, files>>

\* Mutant: every error of wait3 is retried.
WaitFailsRetried ==
    /\ pc = "wait"
    /\ \A c \in Children : cpc[c] \in {"reaped", "nofork"}
    /\ UNCHANGED vars

\* ECHILD: children_left is not zero but there is no child to wait for.
WaitFails ==
    /\ pc = "wait"
    /\ \A c \in Children : cpc[c] \in {"reaped", "nofork"}
    /\ pc' = "exit1"
    /\ UNCHANGED <<this_child_index, thread_group, children_left, child,
                   child_status, cpc, grp, loopVars, dirs, files>>

\* Mutant: the report is counted but not marked as counted.
ScanRecounts ==
    /\ pc = "scan" /\ child < n_threads
    /\ children_left' = IF child_status[child] = 1 THEN children_left - 1
                                                  ELSE children_left
    /\ child' = child + 1
    /\ UNCHANGED <<pc, this_child_index, thread_group, child_status, cpc, grp,
                   loopVars, dirs, files>>

\* One turn of the scan; children may report between two turns.
Scan ==
    /\ pc = "scan" /\ child < n_threads
    /\ IF child_status[child] = 1
          THEN /\ child_status' = [child_status EXCEPT ![child] = 2]
               /\ children_left' = children_left - 1
          ELSE UNCHANGED <<child_status, children_left>>
    /\ child' = child + 1
    /\ UNCHANGED <<pc, this_child_index, thread_group, cpc, grp, loopVars,
                   dirs, files>>

\* Mutant: the loop gives up one child early.
ScanEndEarly ==
    /\ pc = "scan" /\ child >= n_threads
    /\ IF children_left <= 1
          THEN pc' = "rmdir" /\ thread_group' = 0
          ELSE pc' = "wait" /\ UNCHANGED thread_group
    /\ UNCHANGED <<this_child_index, children_left, child, child_status, cpc,
                   grp, loopVars, dirs, files>>

ScanEnd ==
    /\ pc = "scan" /\ child >= n_threads
    /\ IF children_left = 0
          THEN pc' = "rmdir" /\ thread_group' = 0
          ELSE pc' = "wait" /\ UNCHANGED thread_group
    /\ UNCHANGED <<this_child_index, children_left, child, child_status, cpc,
                   grp, loopVars, dirs, files>>

\* rmdir() fails on a directory with files; its result is ignored.
Empty(d) == \A c \in Children : grp[c] = d => files[c] = {}

\* Mutant: the last, partly filled directory is removed too.
RemovedGroupsRoundedUp == (n_threads + threads_per_dir - 1) \div threads_per_dir

\* The bound of the removal loop: a last directory that is not full is left out.
RemovedGroups == n_threads \div threads_per_dir

remove_dir ==
    /\ pc = "rmdir" /\ thread_group < RemovedGroups
    /\ dirs' = IF Empty(thread_group) THEN dirs \ {thread_group} ELSE dirs
    /\ thread_group' = thread_group + 1
    /\ UNCHANGED <<pc, this_child_index, children_left, child, child_status,
                   cpc, grp, loopVars, files>>

Exit0 ==
    /\ pc = "rmdir" /\ thread_group >= RemovedGroups
    /\ pc' = "exit0"
    /\ UNCHANGED <<this_child_index, thread_group, children_left, child,
                   child_status, cpc, grp, loopVars, dirs, files>>

-----------------------------------------------------------------------------
(* A child. *)

unchangedByChild == <<parentVars, grp, dirs>>

\* do_child opens its directory in every iteration and never closes it.
OpenDirPossible(c) == grp[c] \in dirs /\ fds[c] < FD_LIMIT

OpenDir(c) ==
    /\ cpc[c] = "iter" /\ iter[c] < n_iters
    /\ OpenDirPossible(c)
    /\ cpc' = [cpc EXCEPT ![c] = "open"]
    /\ fileno' = [fileno EXCEPT ![c] = 0]
    /\ fds' = [fds EXCEPT ![c] = @ + 1]
    /\ UNCHANGED <<unchangedByChild, child_status, iter, rename_pass, to_write,
                   files>>

OpenPossible(c) == grp[c] \in dirs /\ fds[c] < FD_LIMIT

OpenFile(c) ==
    /\ cpc[c] = "open"
    /\ OpenPossible(c)
    /\ files' = [files EXCEPT ![c] = @ \cup {mk_filename(fileno[c])}]
    /\ cpc' = [cpc EXCEPT ![c] = "write"]
    /\ fds' = [fds EXCEPT ![c] = @ + 1]
    /\ UNCHANGED <<unchangedByChild, child_status, iter, fileno, rename_pass,
                   to_write>>

\* write_stuff_to, fsync, close, sync_dir
WriteAndClose(c) ==
    /\ cpc[c] = "write"
    /\ to_write' = [to_write EXCEPT ![c] = NextWrite(@)]
    /\ fds' = [fds EXCEPT ![c] = @ - 1]
    /\ rename_pass' = [rename_pass EXCEPT ![c] = 0]
    /\ cpc' = [cpc EXCEPT ![c] = "rename"]
    /\ UNCHANGED <<unchangedByChild, child_status, iter, fileno, files>>

\* The name the loop of do_one_file carries from one pass to the next.
CurrentName(c) ==
    IF rename_pass[c] = 0 THEN mk_filename(fileno[c])
    ELSE mk_new_filename(fileno[c], rename_pass[c] - 1)

RenamePossible(c) == CurrentName(c) \in files[c]

\* rename() replaces a file that already has the new name.
Rename(c) ==
    /\ cpc[c] = "rename" /\ rename_pass[c] < RENAME_PASSES
    /\ RenamePossible(c)
    /\ files' = [files EXCEPT ![c] =
                   (@ \ {CurrentName(c)})
                     \cup {mk_new_filename(fileno[c], rename_pass[c])}]
    /\ rename_pass' = [rename_pass EXCEPT ![c] = @ + 1]
    /\ UNCHANGED <<unchangedByChild, child_status, cpc, iter, fileno, to_write,
                   fds>>

\* The end of do_one_file leaves rename_pass at the last pass.
EndOfFile(c) ==
    /\ cpc[c] = "rename" /\ rename_pass[c] >= RENAME_PASSES
    /\ rename_pass' = [rename_pass EXCEPT ![c] = @ - 1]
    /\ cpc' = [cpc EXCEPT ![c] = "lag"]
    /\ UNCHANGED <<unchangedByChild, child_status, iter, fileno, to_write, fds,
                   files>>

\* unlink_one_file(f, RENAME_PASSES - 1) of child c: nothing without -u.
UnlinkPossible(c, f) == do_unlink => mk_new_filename(f, LastPass) \in files[c]

unlink_one_file(c, f) ==
    files' = [files EXCEPT ![c] =
                IF do_unlink THEN @ \ {mk_new_filename(f, LastPass)} ELSE @]

\* Mutant: the second loop starts one file early.
NextFileEarly(c) ==
    IF fileno[c] + 1 < N_FILES
       THEN /\ fileno' = [fileno EXCEPT ![c] = @ + 1]
            /\ cpc' = [cpc EXCEPT ![c] = "open"]
       ELSE /\ fileno' = [fileno EXCEPT ![c] = N_FILES - UNLINK_LAG - 1]
            /\ cpc' = [cpc EXCEPT ![c] = "drain"]

\* fileno++ of the first loop; past N_FILES the second loop starts.
NextFile(c) ==
    IF fileno[c] + 1 < N_FILES
       THEN /\ fileno' = [fileno EXCEPT ![c] = @ + 1]
            /\ cpc' = [cpc EXCEPT ![c] = "open"]
       ELSE /\ fileno' = [fileno EXCEPT ![c] = N_FILES - UNLINK_LAG]
            /\ cpc' = [cpc EXCEPT ![c] = "drain"]

\* Mutant: the lag is one file too long.
LaggedUnlinkLate(c) ==
    /\ cpc[c] = "lag"
    /\ IF fileno[c] > UNLINK_LAG
          THEN /\ UnlinkPossible(c, fileno[c] - UNLINK_LAG)
               /\ unlink_one_file(c, fileno[c] - UNLINK_LAG)
          ELSE UNCHANGED files
    /\ NextFile(c)
    /\ UNCHANGED <<unchangedByChild, child_status, iter, rename_pass, to_write,
                   fds>>

LaggedUnlink(c) ==
    /\ cpc[c] = "lag"
    /\ IF fileno[c] >= UNLINK_LAG
          THEN /\ UnlinkPossible(c, fileno[c] - UNLINK_LAG)
               /\ unlink_one_file(c, fileno[c] - UNLINK_LAG)
          ELSE UNCHANGED files
    /\ NextFile(c)
    /\ UNCHANGED <<unchangedByChild, child_status, iter, rename_pass, to_write,
                   fds>>

FinalUnlink(c) ==
    /\ cpc[c] = "drain" /\ fileno[c] < N_FILES
    /\ UnlinkPossible(c, fileno[c])
    /\ unlink_one_file(c, fileno[c])
    /\ fileno' = [fileno EXCEPT ![c] = @ + 1]
    /\ UNCHANGED <<unchangedByChild, child_status, cpc, iter, rename_pass,
                   to_write, fds>>

EndOfIter(c) ==
    /\ cpc[c] = "drain" /\ fileno[c] >= N_FILES
    /\ iter' = [iter EXCEPT ![c] = @ + 1]
    /\ cpc' = [cpc EXCEPT ![c] = "iter"]
    /\ UNCHANGED <<unchangedByChild, child_status, fileno, rename_pass,
                   to_write, fds, files>>

\* child_status[this_child_index] = 1 and exit(0) are two steps: the parent,
\* woken by another child, may see the first before the second.
Report(c) ==
    /\ cpc[c] = "iter" /\ iter[c] >= n_iters
    /\ child_status' = [child_status EXCEPT ![c] = 1]
    /\ cpc' = [cpc EXCEPT ![c] = "exit"]
    /\ UNCHANGED <<unchangedByChild, loopVars, files>>

ExitChild(c) ==
    /\ cpc[c] = "exit"
    /\ cpc' = [cpc EXCEPT ![c] = "zombie"]
    /\ UNCHANGED <<unchangedByChild, child_status, loopVars, files>>

\* The next system call of c cannot succeed in the present state.
NextCallFails(c) ==
    \/ cpc[c] = "iter" /\ ~OpenDirPossible(c)
    \/ cpc[c] = "open" /\ ~OpenPossible(c)
    \/ cpc[c] = "rename" /\ rename_pass[c] < RENAME_PASSES /\ ~RenamePossible(c)
    \/ /\ cpc[c] = "lag" /\ fileno[c] >= UNLINK_LAG
       /\ ~UnlinkPossible(c, fileno[c] - UNLINK_LAG)
    \/ cpc[c] = "drain" /\ fileno[c] < N_FILES /\ ~UnlinkPossible(c, fileno[c])

AtCall(c) == \/ cpc[c] = "iter" /\ iter[c] < n_iters
             \/ cpc[c] \in {"open", "write", "rename"}
             \/ cpc[c] = "lag" /\ do_unlink /\ fileno[c] >= UNLINK_LAG
             \/ cpc[c] = "drain" /\ do_unlink /\ fileno[c] < N_FILES

ChildFails(c) ==
    /\ AtCall(c)
    /\ c \in BadChildren \/ NextCallFails(c)
    /\ cpc' = [cpc EXCEPT ![c] = "zombie"]
    /\ UNCHANGED <<unchangedByChild, child_status, loopVars, files>>

-----------------------------------------------------------------------------
ParentStep == \/ Mmap \/ MmapFails \/ make_dir \/ Fork \/ ForkFails
              \/ \E c \in Children : Wait(c)
              \/ WaitFails \/ Scan \/ ScanEnd \/ remove_dir \/ Exit0

ChildStep(c) == \/ OpenDir(c) \/ OpenFile(c) \/ WriteAndClose(c) \/ Rename(c)
                \/ EndOfFile(c) \/ LaggedUnlink(c) \/ FinalUnlink(c)
                \/ EndOfIter(c) \/ Report(c) \/ ExitChild(c) \/ ChildFails(c)

ParentGone == pc \in {"exit0", "exit1"}

\* Everything has stopped: zombies of a dead parent stay as they are here.
Finished == /\ ParentGone
            /\ \A c \in Children : cpc[c] \in {"unborn", "nofork"} \cup Dead
            /\ UNCHANGED vars

Next == ParentStep \/ (\E c \in Children : ChildStep(c)) \/ Finished

\* The kernel schedules every runnable process: each is weakly fair.
Spec == /\ Init /\ [][Next]_vars
        /\ WF_vars(ParentStep)
        /\ \A c \in Children : WF_vars(ChildStep(c))

-----------------------------------------------------------------------------
(* Properties. *)

\* The ranges of the variables.  The write size stays between its two bounds,
\* so write_stuff_to never reads past its static buffer.
TypeOK ==
    /\ pc \in {"start", "mkdir", "fork", "wait", "scan", "rmdir", "exit0", "exit1"}
    /\ this_child_index \in 0 .. n_threads
    /\ thread_group \in Int
    /\ children_left \in 0 .. n_threads
    /\ child \in 0 .. n_threads
    /\ child_status \in [Children -> 0 .. 2]
    /\ cpc \in [Children -> {"unborn", "nofork", "iter", "open", "write", "rename",
                             "lag", "drain", "exit"} \cup Dead]
    /\ grp \in [Children -> Int]
    /\ iter \in [Children -> 0 .. n_iters]
    /\ fileno \in [Children -> 0 .. N_FILES]
    /\ rename_pass \in [Children -> 0 .. RENAME_PASSES]
    /\ to_write \in [Children -> WRITE_MIN .. WRITE_MAX]
    /\ fds \in [Children -> Nat]
    /\ dirs \subseteq Int
    /\ files \in [Children -> SUBSET ((0 .. N_FILES - 1) \X Passes)]

\* children_left is the number of reports not yet counted: although children
\* report while the scan runs, and several per wait3(), none is counted twice
\* or forgotten.
CountExact ==
    pc \in {"wait", "scan", "rmdir"} =>
        children_left = Cardinality({c \in Children : child_status[c] # 2})

\* The exit status tells the truth: 0 only if every child has done all its
\* iterations, 1 only if some child failed, was not forked or was never reached
\* (or there was none to fork).
ExitStatusTruthful ==
    /\ pc = "exit0" => \A c \in Children : iter[c] = n_iters
    /\ pc = "exit1" => \/ n_threads = 0
                       \/ \E c \in Children : Failed(c) \/ cpc[c] = "unborn"

\* A child whose system calls do not fail by themselves finishes its work: its
\* directory is there, no rename or unlink misses its file, and it does not run
\* out of descriptors.
HealthyChildrenSucceed ==
    \A c \in Children \ (BadChildren \cup ForkFaults) : ~Failed(c)

\* File i has its final name and has not been unlinked.
Settled(c, i) ==
    \/ /\ cpc[c] \in {"open", "write", "rename"} /\ i < fileno[c]
       /\ do_unlink => i + UNLINK_LAG >= fileno[c]
    \/ /\ cpc[c] = "lag" /\ i <= fileno[c]
       /\ do_unlink => i + UNLINK_LAG >= fileno[c]
    \/ cpc[c] = "drain" /\ (do_unlink => i >= fileno[c])
    \/ iter[c] > 0 /\ ~do_unlink

InFlight(c) == IF cpc[c] = "write" THEN {mk_filename(fileno[c])}
               ELSE IF cpc[c] = "rename" THEN {CurrentName(c)} ELSE {}

ExpectedFiles(c) ==
    {mk_new_filename(i, LastPass) : i \in {j \in 0 .. N_FILES - 1 : Settled(c, j)}}
        \cup InFlight(c)

\* At every moment the names a child has in its directory are exactly those the
\* comment above mk_dirname describes: the file in flight under the name of its
\* last pass, and the settled files not yet unlinked, in every iteration.
FilesExact == \A c \in Children : Failed(c) \/ files[c] = ExpectedFiles(c)

\* After a successful run with -u only a last, partly filled directory is left;
\* without -u every directory is left, because rmdir() finds it full.
CleanupExact ==
    /\ TypeOK
    /\ pc = "exit0" =>
         dirs \cap {grp[c] : c \in Children} =
                             { d \in {grp[c] : c \in Children} :
                               \/ ~do_unlink /\ n_iters > 0
                               \/ d = (n_threads - 1) \div threads_per_dir
                                     /\ n_threads % threads_per_dir # 0 }

\* A step that removes a directory finds every child of it counted.
RemovedWhenCounted ==
    [][\A d \in dirs \ dirs' : \A c \in Children :
           grp[c] = d => child_status[c] = 2]_vars

\* synctest as a fork-join program: it stops whatever fails, and its exit status
\* tells whether all children did their work.
FJ == INSTANCE ForkJoin WITH
        Workers <- Children,
        work <- [c \in Children |-> IF child_status[c] # 0 THEN "done"
                                    ELSE IF Failed(c) THEN "failed" ELSE "todo"],
        outcome <- IF pc = "exit0" THEN "success"
                   ELSE IF pc = "exit1" THEN "failure" ELSE "running"

\* The refinement, fairness included: the parent exits under every fault.
ImplementsForkJoin == FJ!Spec
=============================================================================

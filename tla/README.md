# Verification of testunion

testunion (`src/README.md`) is a collection of stress tests and small tools for file
systems, btrfs above all. There is no server and no library in it: its parts are programs
started by hand, and a part that is wrong either cries wolf over a healthy file system,
misses the damage it was written to find, hangs, or leaves the machine in a mess. The
models here are about exactly that: *does a test test what it says, whatever the
scheduling, the failures of system calls, and what earlier runs have left behind?* The
file system under test is the environment of every model.

Contents: [inventory](#inventory), [modules](#modules-and-how-they-correspond-to-the-code),
[runs](#runs), [fairness](#fairness), [proofs](#proofs),
[disagreements found](#disagreements-between-code-and-text),
[not modelled](#what-is-not-modelled), [plan](#plan).

## Inventory

Each part is a program of its own. Parts do not call each other; those that run together
share a directory tree only. Within a part, interaction is by fork/wait and a shared
mapping (synctest), by mutexes and a condition variable (snapstorm), by background shell
jobs and signals (lxo-snaptest, stress), or by a shared file (write-after-checksum,
seekmark).

| part | state it keeps | operations | hard behaviour | what makes it correct |
|---|---|---|---|---|
| `incoming/synctest.c` | `child_status[]` in a shared mapping, `children_left`, numbered directories, files | parent: mkdir, fork, wait3, scan, rmdir; child: open, write, rename, unlink, report | children report while the parent scans; any call of any process may fail | every report counted once; exit status truthful; no child touches another's files; directories removed only when idle |
| `incoming/snapstorm.c` | two counters, two mutexes, a condition variable, `can_start` | create, count, wait, go, snapshot, finish | all interleavings of load and store, spurious wake-ups, failing `pthread_create()`, descriptor exhaustion, a crash | no thread starts before all are ready; no wake-up lost; descriptors accounted for |
| `incoming/test-subtrans/compilebench` | four hashes of kernel trees by state, the trees on disk, statistics | create, patch, compile, clean, read, stat, delete | long sequences in which the booking and the disk drift apart | the hash says what is on disk; clean never fails; `--makej` ends complete |
| `incoming/fiemap-test.c` | the map a file is made from, a page of extents, a countdown | generate, create, compare page by page, truncate | page and extent boundaries cut each other anywhere | no false alarm; what passes is really mapped as made; the loop ends |
| `incoming/lxo-snaptest.cc` | two growing files, snapshots, background jobs | append, write, snapshot, compare, delete, kill | a snapshot at any moment, several jobs at once, leftovers | no false alarm; evidence is never deleted; no going on after a miscompare |
| `incoming/write-after-checksum.c` | one file, forked writers and mappers | fallocate, fork, pwrite, memcpy, sync, wait | unsigned offsets, pages, a file not allocated, failing forks | requests inside of the file; syncing covers the writing; every end reported |
| `incoming/seekmark.c` | a descriptor and a position per thread | seek, delay, read or write, join | files shorter than a block, failures that go unnoticed | I/O where sought, inside of the file; the counted seeks were made |
| `incoming/stress.sh`, `stress-subvol-heavy.sh` | the sums of the content, a copy and a sums file for each process | remove, copy, sum, compare, killall, trap | failing commands, `^C`, leftovers in /tmp, commands that outlive their shells | no false alarm, damage overlooked for two reasons only, nothing starts once all are stopped |
| `incoming/stress-subvol-light.sh` | as above | as above | – | cannot fail: the comparison is `diff ... \|\| true` (line 151) |
| `incoming/rand-snap`, `test-subvol/`, `test-subvol-qg/` | a directory of snapshots, a file `NOMORESNAPS` | snapshot, pick and delete at random, sleep | creators and deleters race; names drawn twice | a deleter fails for a reason only; one `-z` stops all |
| `incoming/stress-git-action2.sh`, `stress-subvol-git-aging.sh`, `stress-git-aging2.sh`, `stress-git-aging-nosubvol.sh` | trees that are copies of each other, git's locks in them | fill, snapshot or copy, remove the lock, checkout, `^C` | predecessor not there yet or at work; leftovers; checkouts that fail half way; a killed process whose git goes on | no process is stopped by a lock that was copied; a half done checkout has a cause, and spreads no further than that |
| `incoming/stress-git-full-co` | the record of the last commit | checkout, record, sync | crash of the machine between any two steps, failing commands, histories longer than the list | the record is never ahead; no commit left out but for known causes |
| `incoming/creat_unlink.c`, `syncperf.c` | a directory of numbered files | create, unlink, time | a call fails half way; several on one directory | nothing left, or the status tells; nothing else touched |
| `incoming/luto-slow-rm.c` | one file | create, map, unlink, for ever | several on one name | removes its own file only |
| `incoming/fileflags.c`, `nocow.c`, `nocomp.c` | inode flags | get, set | get and set are two calls; descriptors never closed | changes are lost to overlapping ones only; no file left out |
| `lib/sparse-cp` | position in the file and in its copy | copy without zero blocks | a short block after a hole | the copy is equal, up to a hole at its end |
| `test-rsyncsnap/`, `test-snapgit/` | subvolumes | clone, rsync in parallel | – | – |
| `incoming/seeker.c`, `seektest.c`, ... | – | single loops | – | – |
| the rest: `qgroups/`, `grab-*`, formatting scripts, profiles, data sets | – | text in, text out | – | – |

`PROJECT.json` lists every part, modelled or not, and the hazards at their lines.

## Modules and how they correspond to the code

Each component is one module named after its program; functions keep their names where
there is one action to a function. Abstract specifications and proofs are modules of their
own. The `MC` modules hold nothing but the values of constants.

**Synctest** – `incoming/synctest.c`. `pc` is the place of `doit()`, `cpc[c]` that of child
`c`, `child_status` the shared array (0 nothing, 1 reported, 2 counted). One action for each
system call whose effect another process, or a later call, can see. Every failing call of a
child leads to `exit(1)`: the disjuncts of `ChildFails`. File names contain the pid, so a
child's names are pairs of file number and rename pass. Only the number of bytes written
(`to_write`) is kept of the data. Running out of descriptors comes out
of the model itself: `do_child()` opens the directory in each iteration and never closes it,
hence `fds`.

**ForkJoin** – what a forking program promises: it stops, with success only if all workers
did their work and with failure only if some did not. `Synctest` implements it with
`work[c]` read off `child_status` and `cpc`, and `outcome` off `pc`.

**Snapstorm** – `incoming/snapstorm.c`. A mutex is its holder, the condition variable the set
of threads in `pthread_cond_wait()`; `x++` is a load and a store. The snapshot is modelled
by the descriptors it takes and the argument it passes; the stack garbage in `args.flags`
(line 105) and the `%s` given a number (line 126) are nondeterministic choices, a crash among
them.

**StartBarrier** – nobody runs before all are lined up, and the end comes after the last.
`Snapstorm` implements it.

**Compilebench** – `incoming/test-subtrans/compilebench`. The files of a kernel tree are the
six classes that the four stripped data sets tell apart, each absent, of one of two sizes, or
appended to. The functions that pick a tree at random are actions that take any. The timing,
the order of files and the text of statistics are left out.

**FiemapTest** – `incoming/fiemap-test.c`. The file is a sequence of blocks of four bytes, so
that off-by-one comparisons of byte offsets matter; `Fiemap` (external) answers for a window,
with extents cut anywhere and at most one fault of a given kind; `check_flags`, `check_data`,
`check_weird_fs_hole` and `check_hole` are operators with the code's comparisons. The loop of
`check_data()` is in two: `Sought` is what it has made of `logical_offset` when it comes to an
extent, and `extent_of` the extent at which it stops, if any. A call that fails while a filled hole
is looked at (`Unreadable`) ends like a wrong block does; the history variable `unread` has it. Every
other failing call ends the program (`SyscallFails`).

**SnapTest** – `incoming/lxo-snaptest.cc` as built without options. A block is up to a page
and therefore in two pieces; a snapshot is a pair of lengths and the pieces lost; jobs are
the stages of the shell command that `system()` starts.

**WriteAfterChecksum** – `incoming/write-after-checksum.c`. Offsets are modulo `Word`, which
stands for 2^64, because a file shorter than a record makes them wrap.

**Seekmark** – `incoming/seekmark.c`. A command line is a function from options to values;
`getargs` accepts or refuses it. `Align` is a set: with `-a` of 32 or more the shift of an int is
undefined, and either takes place modulo 32 or leaves no bit. Rates and times are left out.

**Stress** – `incoming/stress.sh` and `incoming/stress-subvol-heavy.sh`, one process being
`Process(q)`. A copy is the same as the content, has files besides it, differs, or is missing; a sums
file is compared with what the sums of the whole content would be. The sums of the content are exact,
or, as nobody looks at the status of `find` and `md5sum`, partial, and then may equal those of anything
partial (`Equal`). With `nested` another file system is mounted below the content, where `find` goes
and `cp -x` does not. Each action of a process is the end of the command it is in, and `alive` are
the shells: one that was killed starts no further command, but the one it was in goes on and has its
effect (`Goes`). Taken for granted: the content does not change; `rm -f` of a file of its own in /tmp
works; the script is started by its name, by which killall finds it; the processes sleep ten
seconds first and are all started by then.

**InodeFlags** – `incoming/fileflags.c`, `nocow.c`, `nocomp.c`. Flags are a set; an option is a
set of flags, unknown letters among them, which `c2val` turns into nothing. `to_set`,
`to_unset` and `modify` are what the option loop leaves behind. `fds` only grows, because `fd`
is declared inside of the loop. The history variables `wanted`, `fresh` and `torn` say what
the flags would be if reading and writing were one step, and where they were not.

**SparseCp** – `lib/sparse-cp`. One action for each block; `pos` is where the output is.

**CreatUnlink** – `incoming/creat_unlink.c`, any number of them on one `tst_dir`. `upc` is the
place of a process, `i` its loop counter.

**Syncperf** – `incoming/syncperf.c`. `cwd` matters, since a failing `chdir()` does not stop it.

**SlowRm** – `incoming/luto-slow-rm.c`, any number of them on one name.

**GitAging** – `incoming/stress-git-action2.sh`, `stress-subvol-git-aging.sh`,
`stress-git-aging2.sh` and `stress-git-aging-nosubvol.sh`, which differ in where a tree is
copied from (`Origin`), whether the lock is removed (`RemovesLock`) and where the list of
commits is (`HasList`). A tree is whether it is there, locked, has a list, and is half checked
out (`torn`): because git is at work in it, because a checkout or a copy has failed half way, because
it is a copy of such a tree, or since an earlier run. `spoiled` is the history of the failures, which happen to the commands of those in `failing`, 0 being the
script itself. ^C does not
reach what is at work: a git, or a loop at the end of a pipeline, which is a shell that the
script does not know of (`GoesOn`). A command whose directory is missing works where the script was
started (`Here`). The processes of an earlier run are taken to have ended.

**FullCheckout** – `incoming/stress-git-full-co`. A crash takes back what was written since the
last sync, to any moment in between (`onDisk`). Writing the record is two steps, as the shell
truncates the file first. What may be reached from each commit is a constant, so that the history may
have branches: a run that goes on from a commit lists only what can be reached from that one, as much as
`maxcount` admits or as rev-list comes to before it fails (`Listing`, `cut`). A checkout may be refused for
a lock, fail for any other reason, and be recorded all the same; the record may fail too. The
sync is taken to work, and nobody starts the script again after its end.

**SnapDir** – `incoming/rand-snap` and the loops of `test-subvol` and `test-subvol-qg`.
`layout` says which loops are started, with which source and which of them with `-z`.

**MCTools** – InodeFlags, SparseCp, CreatUnlink, Syncperf, SlowRm, GitAging, FullCheckout and SnapDir
have no state in common. It extends all of them, with a variable `tool` that says which one is run, and is
checked in one run.

**SynctestProofs, SnapstormProofs, CompilebenchProofs, StressProofs, SnapTestProofs,
SeekmarkProofs, WriteAfterChecksumProofs, ToolsProofs** – the theorems; the last is for the
small programs and scripts of MCTools, and for fiemap-test.

Definitions that follow a comment `Mutant:` belong to no specification. They are the plausible
mistakes against which the properties were tried; `PROJECT.json` says which property notices
which.

## Runs

`tlc -config MC<X>_<y>.cfg MC<X>`. All runs check for deadlock; where a program may stop, the
model stutters explicitly in its final states.

| run | bounds | shows |
|---|---|---|
| `synctest_faults` | 3 children, 2 per directory, 2 iterations of 2 files, lag 1, `-u`; one child whose calls may fail, `fork()`, `mmap()` and `mkdir()` failing, a leftover directory | `CountExact`, `RemovedWhenCounted`, `HealthyChildrenSucceed`, `FilesExact`, `CleanupExact`, `ImplementsForkJoin`, termination included |
| `snapstorm_storm` | 2 threads, descriptors for one, any source, one `pthread_create()` failing, crash | `CountersExact`, `FdsExact`, `ImplementsBarrier`, `Completes` |
| `compilebench_ops` | 6 operations on 2 trees with colliding names; as many names as runs; `--makej` with 0 and 4 trees | `CleanFindsAll`, `SizesOfDatasets`, `UnpatchedExact`, `MakejEnds` |
| `compilebench_hashes` | 1 tree, 3 operations | *violates* `PatchedExact` |
| `fiemap_faults` | files of up to 2 blocks, given maps of up to 4, six kinds of faults, failing calls | `NoFalseAlarm`, `PassedIsMapped`, `Ends` |
| `fiemap_unwritten` | files of up to 3 blocks | *violates* `PassedIsUnwritten` |
| `snaptest_rounds` | 2 rounds of 2 pieces, leftovers that agree or not | `NoFalseAlarm`, `EvidenceKept`, `CleansUp` |
| `write_after_checksum_junk` | up to 2 children of either kind, sizes 1 and 4, blocks 2 and 3, pages of 2 | `RequestsInside`, `EndsForCause`, `ReportsExact`, `EndsReported` |
| `seekmark_seeks` | 2 threads, 2 seeks each, blocks of 2, files of 0, 1, 2 and 4, `-a` of 1 and 33 | `IOInside`, `SeeksExact` |
| `seekmark_fill` | as above, with `-R` | *violates* `FilledAsAsked` |
| `stress_copies` | 2 processes, either script, all combinations of damage, a nested mount, failure, `^C` and leftovers | `NoFalseAlarm`, `NothingMissed`, `StopsTogether` |
| `tools_each` | one tool at a time: 2 programs on 2 files with up to 4 arguments; files of up to 7 bytes in blocks of 2; 3 processes on one directory, 3 on one name; syncperf with one round of 2 files, as its constants have it, failing anywhere, with anything there before; each of the four aging scripts with 3 processes of 2 commits, either with ^C and any leftovers (`nosubvol`: none) or with failing commands of the script or of one process; 3 commits, of which a list holds 2, with failing commands and 2 crashes; up to 3 loops on a directory with 2 random numbers | `ChangesStick`, `NoneLeftOut`, `CopyExact`, `LeavesNothing`, `CleansItsOwn`, `RemovesOwn`, `UnlockedWork`, `AtRest`, `NoneSkipped`, `FailsForCause`, `AllStopWithZ` |

A type invariant is part of one of the invariants of most runs: of `CleanupExact` (Synctest),
`FdsExact`, `SizesOfDatasets`, `NoFalseAlarm` (FiemapTest, SnapTest), `EndsForCause`, `IOInside`,
`NothingMissed` and `NoneLeftOut`. `EvidenceKept` includes that the program does not go on
after a miscompare, `RequestsInside` that what is synced covers what was written, and
`UnpatchedExact` that no tree is in two hashes.

Why the bounds are enough:

- *synctest*: three children in directories of two give a full and a partly filled directory,
  a report during the scan both before and behind the index, and a failing child next to a
  healthy one. Two files with a lag of one pass through every branch of the lagged and the
  final unlink; two iterations show what the first leaves for the second. Beyond these numbers
  the theorems hold for all.
- *snapstorm*: two threads race for a counter, one may wait while the other is counted; with
  four descriptors needed and two available every early return of `do_snap()` is taken. The
  theorems hold for any number of threads.
- *compilebench*: the state of a tree depends on at most five operations on it; a second tree
  tells whether one's operation disturbs another. The theorems hold for any number of trees and
  operations.
- *fiemap-test*: an error of comparison shows at the boundary between two neighbouring blocks
  or two pages; maps of up to four blocks have every neighbourhood of data, hole and
  preallocated block that the checks distinguish. `RunsBound` stops the countdown that begins
  at -1 and would go on to wrap. The theorems hold for any map, size of a block, cuts and pages.
- *lxo-snaptest*: two jobs that overlap with each other and with the program; a third adds
  nothing they could share. The theorems hold for any number of rounds and of pieces to a block.
- *write-after-checksum*: a page of 2 and a file of 4 have offsets inside of a page, across its
  end, and in the last page; `Word` is 16, so a wrapped offset is far outside. The theorems hold for all sizes, any
  width of the offsets and any number of children.
- *seekmark*: files shorter than, equal to and longer than a block, and a limit on either side
  of the length. The theorems hold for any number of threads, any blocks and any files.
- *stress*: processes share killall, the script's end and the sums of the content only; two
  show each, with one in any command when the other stops it. The theorems hold for any number.
- *flag tools*: a flag is lost between two programs; the second file and the missing one pass
  through the continue statements, with fewer descriptors than files. The theorems hold for any programs, files and flags.
- *sparse-cp*: three whole blocks and a short one have a hole at the start, in the middle, at the
  end and before the short block. The theorem holds for any contents and any size of a block.
- *creat_unlink, luto-slow-rm*: the theorems hold for any number of processes.
- *syncperf*: two files are enough for a call to fail between them. The theorem holds for any
  number of files and rounds, and whatever was there before.
- *aging scripts*: the third process copies from one that is itself copying from one at work; a
  second commit meets the lock or the tree of the first. As failing commands make each step branch, only
  the script's, or those of the second process, which has one before it and one after it, fail in a run,
  in a directory without leftovers and without ^C. To keep the run short `nosubvol` has no
  leftovers with ^C either. The theorems have all of it together, and hold for any
  number of processes and commits.
- *full-co*: with two crashes the second happens in a run that was resumed; with 3 commits a sync
  falls between two of them, they are taken in a row and as two branches, and a first list, of 2 at
  most, is not all of them, while that of a resumed run can be. The theorem holds for all
  numbers and all histories.
- *snapshots*: two deleters and a creator with two numbers draw a name twice and pick the same
  snapshot; `Counted` bounds the counter of t2-snap-random. The theorem holds for all numbers.

## Fairness

- *synctest, snapstorm, lxo-snaptest*: weak fairness of every process or thread, as
  the kernel schedules whoever can run and their system calls return. For `pthread_mutex_lock()`
  snapstorm needs strong fairness: main polls, taking and releasing the mutex again and again,
  and a thread that wants it is not passed over for ever.
  Nothing is assumed of calls that fail or of spurious wake-ups.
- *compilebench, fiemap-test*: one process that goes on. In fiemap-test also strong fairness of
  `Generate`: `random()` does not yield multiples of `maxblocks` for ever.
- *write-after-checksum*: the first process only; its children may be as slow as they like.
- *stress, seekmark*: none; nothing is claimed to happen.
- *tools*: weak fairness of each loop of `SnapDir`, for `AllStopWithZ`: a loop that sleeps wakes up,
  and the btrfs command it runs returns. None of the others.

`Completes` says nothing of a run in which a `pthread_create()` failed: main then polls for ever
for a count that cannot be reached (`snapstorm.c:173-184`), which is what the code does.

## Proofs

`tlapm SynctestProofs.tla` and so on. The proofs hold for every value of the constants that the
named assumptions of the modules admit; TLC evaluates those assumptions in each run.

**synctest** (`SynctestProofs`). `ProtocolInv` is inductive: the parent's place bounds the
children's (`Spawning`), a child has reported iff its work is done (`Reporting`), a report
of a child already waited for is counted before the next `wait3()` (`ReapedCounted`),
`children_left` is the number of reports not counted (`Counting`), and the parent fails for a
reason (`FailureReason`). `CountExact` alone is not inductive: it needs that a child
that has not exited cannot be reaped and that no report precedes the fork. From it follow
`CountCorrect`, `RemovalCorrect` and `RefinesForkJoin`, whose step lemma maps report to
`Complete`, a failure to `Break`, the parent's exits to `Succeed` and `Fail`, and all else to a
stutter.

**synctest, files** (`SynctestProofs`). `LoopInv` adds the position in the three nested loops
and the descriptors. `FilesInv`, relative to it, says that the names on disk are those the
position calls for; this gives `FilesCorrect`, for `-u` and without it. `HealthyCorrect` assumes
`FdsSuffice` (`n_iters + 4 <= FD_LIMIT`), the condition under which the leak at line 224 is
harmless. `TypeCorrect` and `ExitStatusCorrect` complete it.

**synctest, directories** (`SynctestProofs`). `GroupsInv`, relative to both, says that a child is in
the directory `g` with `g * threads_per_dir <= c < g * threads_per_dir + threads_per_dir`, and
that during the removal the directory of a child is there iff its number is not below
`thread_group`, or files keep it (`Kept`: no `-u`). The code counts with quotients and the proof
with these products, until the last step turns them into what `CleanupExact` says
(`ProductsGrow`, `Quotient`, `NextMultiple`). `CleanupCorrect` follows.

**snapstorm** (`SnapstormProofs`). `SyncInv` is inductive: who is at a place between lock and
unlock holds the mutex (`Exclusion`), what a thread has loaded is still the counter's
value (`Fresh`), the counters are the sizes of the sets they count (`CountersExact`), and
`can_start` is set only when all have counted themselves (`StartGuard`). Without `Fresh` a store
could undo another's. `CountersCorrect` and `BarrierCorrect` follow. `FdsInv` counts the
descriptors: `fds` is the number of threads that have the destination open, of those that have the
source open, and of those that have returned early (`FdsCounted`). It needs that a thread has no
result before it returns (`Unreturned`). `FdsCorrect` follows.

**compilebench** (`CompilebenchProofs`). `BookedInv` holds whatever an earlier run has left in the
working directory: no tree is booked twice, those booked are on the disk (`Apart`), the first loop
is at `x` (`Creating`), and what `make clean` is to remove is there (`ObjectsThere`).
`CleanFindsAllAlways` follows. `Exact` is for a directory without leftovers, and
`SizesOfDatasetsAlways` and `UnpatchedExactAlways` say so: leftovers are written over, and their
sizes with them. It gives the files of unpatched trees one by one, but of patched trees only that
nothing is appended and, if not compiled, that there are no objects: that they are patched is
false (run `compilebench_hashes`).

**stress** (`StressProofs`). `StressInv` says that the sums of the content precede every comparison
and are whole unless a command failed (`ContentSummed`), what a process has in hand at each place
(`InHand`), that good sums in /tmp are of a good copy or of an earlier run (`SumsOf`), and that of
stress.sh all shells are killed, the script's with them, or none (`AllOrNone`). `NoFalseAlarmAlways`
and `NothingMissedAlways` follow, and, as no shell is alive once they are stopped (`StoppedDead`), the
action property `StopsTogetherAlways`.

**fiemap-test** (`ToolsProofs`). Three facts carry the proof. A page holds every extent that touches
its window, in order (`WindowComplete`): `fm_extent_count` is the number of blocks of the window, and
each extent holds the start of one of them that no other holds (`RoomEnough`). The bytes that
`check_data()` passes over lie in extents of the page or just behind one, so that where it finds an extent the
block is mapped (`FoundListed`); and where one extent holds the block it is found (`HolderFound`).
`Sought` is recursive: that it is defined, and what holds of it, is shown by the least
counterexample among the extents of the page (`LeastExists`). And every block that is there lies in
an extent of the file, however it is cut (`StretchExists`), the last data block in the last
(`LastData`), so that a page of a right FIEMAP passes (`RightPasses`), unless a call fails that was to look
at a filled hole (`RightHole`). `FiemapInv` says of a run that
the extents reported begin at blocks and do not overlap, whatever the fault (`FileInv`,
`ReportsFine`), and that the blocks before `cur_extent` agree with the map, and the flags of the
extents that begin there with each other (`ComparedInv`). `NoFalseAlarm` and `PassedIsMapped` are not
inductive without these. `NoFalseAlarmAlways` and `PassedIsMappedAlways` follow. `CountInv` adds up the
countdown and the files compared, for the part of `Ends` that is safety: `RunsExactAlways` says how many
they are when the program is done.

**lxo-snaptest** (`SnapTestProofs`). `SnapTestInv` says how far either file is at each place of a
round (`Lengths`): db is never behind ca, and therefore not in any snapshot. `SnapOf` says of a job
that found a difference that it met lost data, a leftover or a failing command, and that the
program is not running any more. `NoFalseAlarmAlways` and `EvidenceKeptAlways` follow.

**write-after-checksum** (`WriteAfterChecksumProofs`). `WacInv` has the request of a child between
its choice and its sync (`Piece`), for which the offsets are followed through the unsigned
subtractions and the rounding to pages; the cause of a failure (`Ended`); and the reports: those that name
a child are one for each child reaped, and with those that name none they are as many as the rounds
of waiting (`ReportsInv`). `RequestsInsideAlways`, `EndsForCauseAlways` and `ReportsExactAlways` follow.

**seekmark** (`SeekmarkProofs`). `SeekInv` has for each thread what it has counted (`Counts`), where it is when
it reads or writes (`Position`), and when no call of it can fail (`Whole`), and of `main()` who
has been created and joined. Powers are beyond the provers: that `2^(align % 32)` is a
positive number is an assumption of `Seekmark`, which TLC evaluates. That blocks are inside of the file
is proved for any `-a`, that they are aligned for those below 32. `IOInsideAlways` and
`SeeksExactAlways` follow.

**creat_unlink** (`ToolsProofs`). `CreatInv` ties the directory's owner and its files to the
place and the counters of each process (`Owns`), and says what each has done so far
(`Progress`). `LeavesNothing` is not inductive: that a process which exits with 0 leaves
nothing needs that what it removed is all there was. `OthersApart` says that who is within has
the directory, `StepOfOne` that a step of the one within leaves the rest alone, and each action
then needs facts about one process only. `LeavesNothingAlways` follows; `RemovesOwnAlways`, for
luto-slow-rm, is the same argument with a file.

**flag tools** (`ToolsProofs`). `FlagsInv` adds to `ChangesStick` that a program works on a file
there is, that what it has read is what the file has while it is called fresh (`AtFile`), and that
a flag nobody names is the same in the inode and in everything read from it (`Same`): without
the last a write could bring back an old value. `ChangesStickAlways` follows. `LookedInv` counts
the descriptors of fileflags: one for each argument so far that is a file, up to `OPEN_MAX`. As the
first name that cannot be opened is the least of a set of numbers, the proof shows that there is
one (`LeastExists`); `NoneLeftOutAlways` follows.

**sparse-cp** (`ToolsProofs`). `CopyExact` says where each block lands, the misplaced short block at the
end of a file with a hole before it included. `CopyInv` says that before the end the copy is the file up to `pos`,
that `pos` is the end of the last block with data, and that the file has zeros from there to `off`.
Offsets are multiples of the size of a block until the short one. `CopyExactAlways` follows.

**syncperf** (`ToolsProofs`). `CleansItsOwn` is inductive once it is known where the program is after which
`chdir()` it has missed, and that the directory of the same name further up is untouched until the `rm`
(`Whereabouts`). `CleansItsOwnAlways` follows: it covers failing calls, which the program does not
notice, and says what each of them costs.

**aging scripts** (`ToolsProofs`). `AgingInv` says where the git of a process can be at work and whose
lock stands in its tree (`AtWork`), that where locks are removed a checkout is refused only outside of
the trees (`RefusedHere`), and that a tree half checked out is one of a script that copies from the
predecessor, or is due to a failure of the same process or of the source (`TornForCause`). `UnlockedWorkAlways` and `AtRestAlways` follow, for each of the
four scripts.

**full-co** (`ToolsProofs`). `CheckoutInv` says of the record, and of all that may be on the
disk, that it is not ahead of the attempts (`Safe`), how far the loop is (`Reached`), that what is still to
come is listed, out of reach or after the end of the list (`Listed`), and that before the first crash there
is no foreign lock, and no empty record unless writing it failed (`NoCrash`).
`NoneSkippedAlways` follows.

**snapshots** (`ToolsProofs`). `SnapDirInv` says that what was picked is there or was deleted by
another (`PickedThere`), and that counted names are never drawn twice (`CountedNames`).
`FailsForCauseAlways` follows.

Only model-checked is liveness, which under fairness is beyond the proof system: `Completes`,
`Ends`, `MakejEnds`, `CleansUp`, `EndsReported`, `AllStopWithZ`, and that synctest ends, the fairness
part of `ImplementsForkJoin`. (`ImplementsBarrier` claims no progress and is proved.)

## Disagreements between code and text

Shown by a run:

- `compilebench:334`: a tree compiled before it is patched is later booked as patched with
  unpatched sources, though line 271 says the hashes tell the state (`compilebench_hashes`).
- `fiemap-test.c:271`: `!flags & UNWRITTEN` never holds, so an extent that lacks the flag passes,
  though lines 273 and 274 announce an error (`fiemap_unwritten`).
- `seekmark.c:301`: `makerandom = 1` assigns; `-R` has no effect, though the usage offers it
  (`seekmark_fill`).

Seen while modelling, and kept in the models where they have an effect on the state:

- `synctest.c:224`: `dir_fd` is opened in every iteration and never closed; with many iterations
  (`-n`) children die of `EMFILE`.
- `snapstorm.c:164`: `argc` is reduced by `optind` but `argv` is not advanced: with any option the
  source is the option. Line 105: `args.flags` is uninitialised and `-r` (line 161) is never used.
  Line 126: `%s` is given a number.
- `write-after-checksum.c:254`: with the default `-n 1` the program ignores `-m`.
- `seekmark.c:91`: the warning about `-R` and the read test is given for the write test.
  Line 371: the limit is 1048577, the message says "less than".
- `stress-subvol-heavy.sh:129`: kills `stress-subvol.sh`, which is not its name.
- `stress.sh:142`: announces `^C` before the trap at line 144 is there, and says that it kills all
  processes (as does `stress-git-action2.sh:97`): the commands at work go on, and so do loops in pipelines.
- `stress.sh:84`: failing `find` and `md5sum` are not noticed, there and at line 124: sums that are
  partial in the same way, or both empty, are equal.
- `fiemap-test.c:312`: a failing `FIBMAP`, `malloc()` or `pread()` ends as "found an allocated extent
  where a hole should be" (line 398).
- `seekmark.c:238`: `~0` is an int, so that `-a` of 32 or more, which line 343 accepts, is undefined.
- `syncperf.c:16`: "several test runs creating twice as many files each time", but
  `NUM_START_FILES` and `NUM_FILES` (lines 41, 42) are equal: there is one. The model has both as
  constants.
- `stress-subvol-git-aging.sh:74`: `[ path ]` is true for every path, so that the wait for the
  predecessor, `stagger`, never waits. `stress-git-action2.sh:54`: `mv` has one argument.
- `stress-git-aging-nosubvol.sh:16`: `-m` is documented and handled, but getopts does not accept it; the
  same holds of `stress-git-action2.sh:13`.
- `lib/sparse-cp`: a copy of a file that ends in zero blocks is shorter than the file, and a short
  block after zero blocks moves to the front of them.
- `fileflags.c:128`: closes the descriptor of the previous file, which is always -1 there.
- `stress-git-full-co:15`: an empty record, as a crash may leave it, makes git list nothing, and the run
  ends at once; a lock left by a crash makes every checkout fail, and each is recorded all the same.
  Where the history has branches, a resumed run never comes to the commits of the others (line 12), and
  nobody ever to those after the first 100000 unless the script is started again.
- `manyloop.sh:71`: calls `addev`, which is `adddev`; `rmdev` ignores its argument (line 44).

## What is not modelled

- In modelled programs: the times and rates; wording and layout; the wrap of fiemap-test's
  countdown and its products of ints; data sizes as such; the variants NOSNAPS and NOBGCMP of
  lxo-snaptest (the second does not compile: `break` outside of a loop at line 170); buffers of
  write-after-checksum shorter than the text (undefined); the precision of the random positions
  of seekmark; processes outside that get the number of an ended one before a late `kill`; and processes of an
  earlier run of the scripts that are still at work.
- Parts without state or checks of their own: see "components" in `PROJECT.json`.

## Plan

Done, in this order: Synctest and ForkJoin with proofs; Snapstorm and StartBarrier with proofs;
Compilebench; FiemapTest; SnapTest; WriteAfterChecksum; Seekmark; Stress; the small programs and
scripts of MCTools; theorems for the safety properties of all of them, FiemapTest last.

No part is left that keeps state or checks anything and is not modelled.

Nothing of the plan is left. Every safety property that a run checks, and that holds, is a theorem.

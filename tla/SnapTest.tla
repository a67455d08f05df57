------------------------------ MODULE SnapTest ------------------------------
(***************************************************************************)
(* incoming/lxo-snaptest.cc, built without -D options: the program appends *)
(* the same random blocks to "db", through leveldb's memory mapping, and   *)
(* to "ca", with write(), in the subvolume snaptest.  Each round starts a  *)
(* background job that, some time later, takes the snapshot snaptest.N,    *)
(* compares the two files in it, and deletes it or kills the program.      *)
(*                                                                         *)
(* A block slightly smaller than a page may straddle two: it is Pieces     *)
(* pieces, and files are the pieces they have, from 0.                     *)
(***************************************************************************)
EXTENDS Integers

CONSTANTS
    MAXROUNDS, Pieces,
    Environments  \* what the program may meet: see below

Rounds == 0 .. MAXROUNDS - 1

ASSUME RoundsAssumption == MAXROUNDS \in Nat /\ Pieces \in Nat \ {0}
\* faulty: a snapshot may lose pieces of db, the bug looked for; failing: calls and
\* commands may fail; left: snapshots of an earlier run, and whether their files agree.
ASSUME EnvironmentAssumption ==
    \A e \in Environments :
        /\ e.faulty \in BOOLEAN /\ e.failing \in BOOLEAN
        /\ DOMAIN e.left \subseteq Rounds
        /\ \A b \in DOMAIN e.left : e.left[b] \in BOOLEAN

VARIABLES
    env,
    pc, blocks,  \* the program
    ca, db,      \* lengths of the files in snaptest.
    job,         \* the background job of each round
    snap         \* snaptest.N

vars == <<env, pc, blocks, ca, db, job, snap>>

\* Lengths of the files in the snapshot, and the pieces of db that are zeros there;
\* nested: another snapshot has been put into this one.
None == [ca |-> -1, db |-> 0, zeros |-> {}, nested |-> FALSE]
Old(agrees) == [None EXCEPT !.ca = 1, !.db = IF agrees THEN 1 ELSE 0]

Init ==
    /\ env \in Environments
    /\ pc = "round" /\ blocks = 0
    /\ ca = 0 /\ db = 0
    /\ job = [b \in Rounds |-> "none"]
    /\ snap = [b \in Rounds |-> IF b \in DOMAIN env.left THEN Old(env.left[b]) ELSE None]

-----------------------------------------------------------------------------
(* The program. *)

\* The loop ends, and with it the program, which waits for no job.
Finish ==
    /\ pc = "round" /\ blocks = MAXROUNDS
    /\ pc' = "done"
    /\ UNCHANGED <<env, blocks, ca, db, job, snap>>

\* read(), system(), Append() or write() fails: break.
CallFails ==
    /\ env.failing /\ pc \in {"round", "append", "write"}
    /\ pc' = "done"
    /\ UNCHANGED <<env, blocks, ca, db, job, snap>>

\* system("... &") returns when the job has been started.
StartJob ==
    /\ pc = "round" /\ blocks < MAXROUNDS
    /\ job' = [job EXCEPT ![blocks] = "delay"]
    /\ pc' = "append"
    /\ UNCHANGED <<env, blocks, ca, db, snap>>

\* Mutant: both files at once, ca first.
AppendBehind ==
    /\ pc = "append"
    /\ IF ca = db THEN ca' = ca + 1 /\ UNCHANGED <<pc, db>>
       ELSE /\ db' = db + 1 /\ UNCHANGED ca
            /\ pc' = IF db' = Pieces * (blocks + 1) THEN "sleep" ELSE "append"
    /\ UNCHANGED <<env, blocks, job, snap>>

\* Append() copies into the mapping, a page at a time.
Append ==
    /\ pc = "append"
    /\ db' = db + 1
    /\ pc' = IF db' = Pieces * (blocks + 1) THEN "write" ELSE "append"
    /\ UNCHANGED <<env, blocks, ca, job, snap>>

Write ==
    /\ pc = "write"
    /\ ca' = ca + 1
    /\ pc' = IF ca' = Pieces * (blocks + 1) THEN "sleep" ELSE "write"
    /\ UNCHANGED <<env, blocks, db, job, snap>>

NextRound ==
    /\ pc = "sleep"
    /\ blocks' = blocks + 1
    /\ pc' = "round"
    /\ UNCHANGED <<env, ca, db, job, snap>>

-----------------------------------------------------------------------------
(* The job of round b. *)

\* usleep ... && btrfs su snap snaptest. snaptest.N: if there is a snaptest.N the new
\* snapshot goes into it, and the job will look at the old files.
Snapshot(b) ==
    /\ job[b] = "delay"
    /\ IF snap[b] = None
         THEN \E lost \in IF env.faulty THEN SUBSET (0 .. db - 1) ELSE {{}} :
                snap' = [snap EXCEPT ![b] = [ca |-> ca, db |-> db, zeros |-> lost,
                                             nested |-> FALSE]]
         ELSE snap' = [snap EXCEPT ![b].nested = TRUE]
    /\ job' = [job EXCEPT ![b] = "sleep"]
    /\ UNCHANGED <<env, pc, blocks, ca, db>>

\* && : nothing more is done.
SnapshotFails(b) ==
    /\ env.failing /\ job[b] = "delay"
    /\ job' = [job EXCEPT ![b] = "no snapshot"]
    /\ UNCHANGED <<env, pc, blocks, ca, db, snap>>

\* cmp -n `stat -c %s ca` ca db
Same(s) == s.ca <= s.db /\ \A p \in s.zeros : p >= s.ca

\* Mutant: the snapshot of the round before is deleted.
DeletePrevious(b) ==
    /\ job[b] = "sleep" /\ Same(snap[b])
    /\ snap' = [c \in Rounds |-> IF c = b - 1 THEN None ELSE snap[c]]
    /\ job' = [job EXCEPT ![b] = "equal"]
    /\ UNCHANGED <<env, pc, blocks, ca, db>>

\* btrfs su del refuses a subvolume that has another one in it.
Delete(b) ==
    /\ job[b] = "sleep" /\ Same(snap[b])
    /\ \/ ~snap[b].nested /\ snap' = [snap EXCEPT ![b] = None]
       \/ (snap[b].nested \/ env.failing) /\ UNCHANGED snap
    /\ job' = [job EXCEPT ![b] = "equal"]
    /\ UNCHANGED <<env, pc, blocks, ca, db>>

Running == pc \in {"round", "append", "write", "sleep"}

\* Mutant: the snapshot is deleted whatever cmp says.
KillDeletes(b) ==
    /\ job[b] = "sleep" /\ (~Same(snap[b]) \/ env.failing)
    /\ snap' = [snap EXCEPT ![b] = None]
    /\ job' = [job EXCEPT ![b] = "differ"]
    /\ pc' = IF Running THEN "killed" ELSE pc
    /\ UNCHANGED <<env, blocks, ca, db>>

\* cmp differs, or fails itself: kill pid.  By then the program may have ended.
Kill(b) ==
    /\ job[b] = "sleep" /\ (~Same(snap[b]) \/ env.failing)
    /\ job' = [job EXCEPT ![b] = "differ"]
    /\ pc' = IF Running THEN "killed" ELSE pc
    /\ UNCHANGED <<env, blocks, ca, db, snap>>

-----------------------------------------------------------------------------
Main == Finish \/ StartJob \/ Append \/ Write \/ NextRound
Job(b) == Snapshot(b) \/ Delete(b) \/ Kill(b)

JobsOver == \A b \in Rounds : job[b] \notin {"delay", "sleep"}
Quiet == ~Running /\ JobsOver

Next == \/ Main \/ CallFails
        \/ \E b \in Rounds : Job(b) \/ SnapshotFails(b)
        \/ Quiet /\ UNCHANGED vars

\* The program and its jobs are processes of their own.
Spec == Init /\ [][Next]_vars /\ WF_vars(Main) /\ \A b \in Rounds : WF_vars(Job(b))

-----------------------------------------------------------------------------
(* Properties. *)

\* The ranges of the variables.
TypeOK ==
    /\ pc \in {"round", "append", "write", "sleep", "done", "killed"}
    /\ blocks \in 0 .. MAXROUNDS
    /\ ca \in 0 .. Pieces * MAXROUNDS /\ db \in 0 .. Pieces * MAXROUNDS
    /\ job \in [Rounds -> 
        {"none", "delay", "no snapshot", "sleep", "equal", "differ"}]
    /\ \A b \in Rounds : snap[b].ca \in -1 .. Pieces * MAXROUNDS

\* The jobs that have found a miscompare.
Found == {b \in Rounds : job[b] = "differ"}

\* Every byte ca has was in db before, also in the middle of a block.  So the program
\* is killed only over a snapshot that has zeros where db had data, or over one that
\* an earlier run has left, or when a command fails: never because of when the
\* snapshot was taken.
NoFalseAlarm ==
    /\ TypeOK
    /\ pc = "killed" /\ ~env.failing => \E b \in Found : b \in DOMAIN env.left \/ snap[b].zeros # {}

\* Every miscompare that was found is still there to be looked at, whatever the jobs
\* of the other rounds and the end of the program do; and the program does not go on,
\* to fill the file system behind it.
EvidenceKept == /\ \A b \in Found : snap[b] # None
                /\ Running => Found = {}

\* Program and jobs come to an end, the jobs of a killed program too; if no command
\* fails the snapshots left then are those to be looked at and those of earlier runs.
CleansUp ==
    <>(/\ Quiet
       /\ env.failing \/ \A b \in Rounds \ DOMAIN env.left :
                            snap[b] = None \/ ~Same(snap[b]))
=============================================================================

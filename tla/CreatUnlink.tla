---------------------------- MODULE CreatUnlink ----------------------------
(***************************************************************************)
(* incoming/creat_unlink.c: makes a directory, creates nfiles files in it, *)
(* removes them and the directory, and prints how long that took.  Several *)
(* of them may be started with one directory, at a time or in turn.        *)
(***************************************************************************)
EXTENDS Integers, FiniteSets

CONSTANTS
    Users,       \* processes that run creat_unlink with the same tst_dir
    FileCounts   \* what nfiles may be

VARIABLES
    nfiles, failing,      \* the argument; whether calls may fail
    tst_dir,              \* who has made the directory, or "none"
    tst_files,            \* the files in it
    upc, i, n_done        \* what a process does next; its loop counter; files created

creatVars == <<nfiles, failing, tst_dir, tst_files, upc, i, n_done>>

Exited == {"exit 0", "exit 1"}
Left == "left behind"     \* the directory is there from before

\* main() refuses nfiles <= 0; neither word is a process.
ASSUME CreatAssumption ==
    FileCounts \subseteq Nat \ {0} /\ "none" \notin Users /\ Left \notin Users

CreatInit ==
    /\ nfiles \in FileCounts /\ failing \in BOOLEAN
    /\ tst_dir \in {"none", Left} /\ tst_files = {}
    /\ upc = [p \in Users |-> "mkdir"]
    /\ i = [p \in Users |-> 0] /\ n_done = [p \in Users |-> 0]

GoesTo(p, from, to) == upc[p] = from /\ upc' = [upc EXCEPT ![p] = to]

-----------------------------------------------------------------------------
(* initialize(). *)

MakeTstDir(p) ==
    /\ tst_dir = "none"
    /\ GoesTo(p, "mkdir", "chdir")
    /\ tst_dir' = p
    /\ UNCHANGED <<nfiles, failing, tst_files, i, n_done>>

MakeTstDirFails(p) ==
    /\ failing \/ tst_dir # "none"
    /\ GoesTo(p, "mkdir", "exit 1")
    /\ UNCHANGED <<nfiles, failing, tst_dir, tst_files, i, n_done>>

EnterTstDir(p) ==
    /\ \/ GoesTo(p, "chdir", "create")
       \/ failing /\ GoesTo(p, "chdir", "undo")
    /\ UNCHANGED <<nfiles, failing, tst_dir, tst_files, i, n_done>>

\* rmdir() of the directory nobody could go to.
UndoTstDir(p) ==
    /\ GoesTo(p, "undo", "exit 1")
    /\ tst_dir' \in {"none"} \cup (IF failing THEN {p} ELSE {})
    /\ UNCHANGED <<nfiles, failing, tst_files, i, n_done>>

-----------------------------------------------------------------------------
(* create_files() and unlink_files(). *)

CreatFile(p) ==
    /\ upc[p] = "create" /\ i[p] < nfiles
    /\ tst_files' = tst_files \cup {i[p]}
    /\ i' = [i EXCEPT ![p] = @ + 1]
    /\ UNCHANGED <<nfiles, failing, tst_dir, upc, n_done>>

\* All files are there, or one cannot be created, or there is no time to start from.
EndOfCreate(p) ==
    /\ GoesTo(p, "create", "unlink")
    /\ failing \/ i[p] = nfiles
    /\ n_done' = [n_done EXCEPT ![p] = i[p]]
    /\ i' = [i EXCEPT ![p] = 0]
    /\ UNCHANGED <<nfiles, failing, tst_dir, tst_files>>

UnlinkFile(p) ==
    /\ upc[p] = "unlink" /\ i[p] < n_done[p] /\ i[p] \in tst_files
    /\ tst_files' = tst_files \ {i[p]}
    /\ i' = [i EXCEPT ![p] = @ + 1]
    /\ UNCHANGED <<nfiles, failing, tst_dir, upc, n_done>>

\* main() goes on to clean up if all were removed, or if it could not create all.
EndOfUnlink(p) ==
    /\ upc[p] = "unlink"
    /\ \/ i[p] = n_done[p] /\ GoesTo(p, "unlink", "chdir ..")
       \/ /\ \/ failing /\ (i[p] = 0 \/ i[p] < n_done[p])
             \/ i[p] < n_done[p] /\ i[p] \notin tst_files
          /\ GoesTo(p, "unlink", IF n_done[p] # nfiles THEN "chdir .." ELSE "exit 1")
    /\ UNCHANGED <<nfiles, failing, tst_dir, tst_files, i, n_done>>

-----------------------------------------------------------------------------
(* cleanup(). *)

LeaveTstDir(p) ==
    /\ \/ GoesTo(p, "chdir ..", "rmdir")
       \/ failing /\ GoesTo(p, "chdir ..", "exit 1")
    /\ UNCHANGED <<nfiles, failing, tst_dir, tst_files, i, n_done>>

\* Mutant: the result of rmdir() is not returned.
RemoveUnchecked(p) ==
    /\ GoesTo(p, "rmdir", IF n_done[p] = nfiles THEN "exit 0" ELSE "exit 1")
    /\ tst_dir' \in IF tst_files # {} THEN {tst_dir} ELSE {"none"} \cup (IF failing THEN {tst_dir} ELSE {})
    /\ UNCHANGED <<nfiles, failing, tst_files, i, n_done>>

RemoveTstDir(p) ==
    /\ upc[p] = "rmdir"
    /\ \/ /\ tst_files = {} /\ tst_dir' = "none"
          /\ GoesTo(p, "rmdir", IF n_done[p] = nfiles THEN "exit 0" ELSE "exit 1")
       \/ /\ failing \/ tst_files # {}
          /\ GoesTo(p, "rmdir", "exit 1") /\ UNCHANGED tst_dir
    /\ UNCHANGED <<nfiles, failing, tst_files, i, n_done>>

User(p) ==
    \/ MakeTstDir(p) \/ MakeTstDirFails(p) \/ EnterTstDir(p) \/ UndoTstDir(p)
    \/ CreatFile(p) \/ EndOfCreate(p) \/ UnlinkFile(p) \/ EndOfUnlink(p)
    \/ LeaveTstDir(p) \/ RemoveTstDir(p)

CreatNext ==
    \/ \E p \in Users : User(p)
    \/ (\A p \in Users : upc[p] \in Exited) /\ UNCHANGED creatVars

CreatSpec == CreatInit /\ [][CreatNext]_creatVars

-----------------------------------------------------------------------------
(* Properties. *)

\* Processes that have the directory.
Within == {p \in Users : upc[p] \notin {"mkdir"} \cup Exited}

\* mkdir() is a lock: one process at most is in the directory, none in one that another
\* has left, and the files are those it has created and not yet removed.
DirExclusive ==
    \A p \in Within :
        /\ tst_dir = p /\ Within = {p}
        /\ tst_files = IF upc[p] \in {"chdir", "undo", "create"} THEN 0 .. i[p] - 1
                   ELSE i[p] .. n_done[p] - 1

\* A process that exits with 0 has created all its files and leaves nothing; one that
\* leaves the directory says so by its status, and does so only if a call has failed.
LeavesNothing ==
    /\ DirExclusive
    /\ \A p \in Users : upc[p] = "exit 0" => n_done[p] = nfiles /\ tst_dir # p
    /\ \A p \in Users : upc[p] \in Exited /\ tst_dir = p => failing /\ upc[p] = "exit 1"
    /\ tst_dir = "none" => tst_files = {}
=============================================================================

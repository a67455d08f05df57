------------------------------ MODULE Syncperf ------------------------------
(***************************************************************************)
(* incoming/syncperf.c: creates, reads and removes files in a directory    *)
(* synctestdir of its own, with a timed sync() after each, and cleans up.  *)
(* No failure stops it.                                                    *)
(***************************************************************************)
EXTENDS Integers

CONSTANTS
    NUM_START_FILES, NUM_FILES,   \* files in the first round; limit for the last
    Before                        \* what may be there before: see found

\* Where files may be: "start", where the program is started; "dir", start/synctestdir;
\* "other", a directory of the same name beside start.  A file is known by its number,
\* or is the one file that no round creates.
SyncDirs == {"dir", "other"}
SyncPlaces == {"start"} \cup SyncDirs
Foreign == -1
Names == {Foreign} \cup 0 .. NUM_FILES - 1

ASSUME BeforeAssumption ==
    \A b \in Before :
        /\ b.exists \subseteq SyncDirs /\ b.files \in [SyncPlaces -> SUBSET Names]
        /\ \A d \in SyncDirs \ b.exists : b.files[d] = {}

VARIABLES
    found,       \* [exists |-> the directories there were, files |-> what was in each place]
    exists, files,       \* what there is now
    cwd,         \* where the program is
    spc, n, k,   \* what it does next; files in this round; loop counter
    missed       \* the calls that have failed

syncVars == <<found, exists, files, cwd, spc, n, k, missed>>

SyncInit ==
    /\ found \in Before
    /\ exists = found.exists /\ files = found.files
    /\ cwd = "start" /\ spc = "mkdir" /\ n = NUM_START_FILES /\ k = 0
    /\ missed = {}

SyncStep(from, to) == spc = from /\ spc' = to

-----------------------------------------------------------------------------
\* setup(): neither of the two results stops it; malloc() is taken to succeed.
SetupMkdir ==
    /\ SyncStep("mkdir", "chdir")
    /\ \/ "dir" \notin exists /\ exists' = exists \cup {"dir"} /\ UNCHANGED missed
       \/ UNCHANGED exists /\ missed' = missed \cup {"mkdir"}
    /\ UNCHANGED <<found, files, cwd, n, k>>

SetupChdir ==
    /\ SyncStep("chdir", "create")
    /\ \/ "dir" \in exists /\ cwd' = "dir" /\ UNCHANGED missed
       \/ UNCHANGED cwd /\ missed' = missed \cup {"chdir"}
    /\ UNCHANGED <<found, exists, files, n, k>>

\* creat() truncates what has the name already; without a file write() is called with -1.
CreateNext ==
    /\ spc = "create" /\ k < n
    /\ \/ files' = [files EXCEPT ![cwd] = @ \cup {k}] /\ UNCHANGED missed
       \/ missed' = missed \cup {"creat"} /\ UNCHANGED files
    /\ k' = k + 1
    /\ UNCHANGED <<found, exists, cwd, spc, n>>

\* time_sync(), and readfiles(), which changes nothing and ignores what it cannot read.
SyncAndRead ==
    /\ k = n /\ SyncStep("create", "unlink")
    /\ k' = 0
    /\ UNCHANGED <<found, exists, files, cwd, n, missed>>

UnlinkNext ==
    /\ spc = "unlink" /\ k < n
    /\ \/ files' = [files EXCEPT ![cwd] = @ \ {k}] /\ UNCHANGED missed
       \/ missed' = missed \cup {"unlink"} /\ UNCHANGED files
    /\ k' = k + 1
    /\ UNCHANGED <<found, exists, cwd, spc, n>>

\* i <<= 1
NextRound ==
    /\ spc = "unlink" /\ k = n
    /\ n' = 2 * n /\ k' = 0
    /\ spc' = IF n' <= NUM_FILES THEN "create" ELSE "back"
    /\ UNCHANGED <<found, exists, files, cwd, missed>>

\* cleanup().
CleanupChdir ==
    /\ SyncStep("back", "rm")
    /\ \/ cwd' = (IF cwd = "dir" THEN "start" ELSE "above") /\ UNCHANGED missed
       \/ UNCHANGED cwd /\ missed' = missed \cup {"back"}
    /\ UNCHANGED <<found, exists, files, n, k>>

\* What rm -fr synctestdir removes, from where the program is.
Target == IF cwd = "start" THEN {"dir"} ELSE IF cwd = "above" THEN {"other"} ELSE {}

\* Mutant: the name is taken to be relative to the start.
RemoveFromStart ==
    /\ SyncStep("rm", "done")
    /\ \/ exists' = exists \ {"dir", "other"} /\ UNCHANGED missed
       \/ UNCHANGED exists /\ missed' = missed \cup {"rm"}
    /\ files' = [p \in SyncPlaces |-> IF p \in SyncDirs \ exists' THEN {} ELSE files[p]]
    /\ UNCHANGED <<found, cwd, n, k>>

CleanupRm ==
    /\ SyncStep("rm", "done")
    /\ \/ exists' = exists \ Target /\ UNCHANGED missed
       \/ UNCHANGED exists /\ missed' = missed \cup {"rm"}
    /\ files' = [p \in SyncPlaces |-> IF p \in SyncDirs \ exists' THEN {} ELSE files[p]]
    /\ UNCHANGED <<found, cwd, n, k>>

SyncNext ==
    \/ SetupMkdir \/ SetupChdir \/ CreateNext \/ SyncAndRead \/ UnlinkNext \/ NextRound
    \/ CleanupChdir \/ CleanupRm
    \/ spc = "done" /\ UNCHANGED syncVars

SyncSpec == SyncInit /\ [][SyncNext]_syncVars

-----------------------------------------------------------------------------
(* Properties. *)

\* "When the tests finishes, it cleans up synctestdir", and ends with 0 whatever fails: its
\* directory stays only if the removal fails or one of the two calls that bring it there and
\* back does; if both do, the removal is in the right place all the same.  Where it was
\* started nothing is touched unless the way there has failed; then its files are made, and
\* those of the same names lost, there, but nothing else is.  A directory of the same name
\* above is removed only if the way there has failed and the way back has not.
CleansItsOwn ==
    /\ spc = "done" /\ "dir" \in exists =>
          "rm" \in missed \/ ~("chdir" \in missed <=> "back" \in missed)
    /\ files["start"] # found.files["start"] => "chdir" \in missed
    /\ Foreign \in files["start"] <=> Foreign \in found.files["start"]
    /\ files["other"] # found.files["other"] \/ exists \ {"dir"} # found.exists \ {"dir"} =>
          "chdir" \in missed /\ "back" \notin missed
=============================================================================

------------------------------ MODULE SnapDir ------------------------------
(***************************************************************************)
(* Loops that create and delete snapshots in one directory:                *)
(* incoming/rand-snap without and with -d, and t2-snap-random and          *)
(* t3-snap-del-random of test-subvol and test-subvol-qg, which have one of *)
(* each, never stop, and count in the names.                               *)
(***************************************************************************)
EXTENDS Integers

CONSTANTS
    Creators, Deleters,   \* the loops
    Randoms,              \* what $RANDOM may be
    Counted,              \* bound: up to where t2-snap-random counts
    Layouts               \* what is run: see layout

VARIABLES
    layout,      \* [family |-> "rand-snap" or "test-subvol", loops |-> those started,
                 \*  source |-> "." or "path", z |-> the loop started with -z or "none"]
    NOMORESNAPS, \* there is such a file, perhaps from an earlier run
    snaps,       \* the snapshots, by name
    nested,      \* those of them that hold another one
    loop,        \* what each loop does next
    snap, ret,   \* what a deleter has picked, and how its delete ended
    c,           \* the counter
    stolen       \* history: deleters whose snapshot was deleted since they picked it

snapDirVars == <<layout, NOMORESNAPS, snaps, nested, loop, snap, ret, c, stolen>>

Loops == layout.loops
SnapNames == Randoms \X (0 .. Counted)
Nothing == <<>>

SnapDirInit ==
    /\ layout \in Layouts
    /\ NOMORESNAPS \in IF layout.family = "rand-snap" THEN BOOLEAN ELSE {FALSE}
    /\ snaps = {} /\ nested = {} /\ c = 1 /\ stolen = {}
    /\ loop = [l \in Loops |-> "start"]
    /\ snap = [d \in Loops |-> Nothing] /\ ret = [d \in Loops |-> "none"]

LoopStep(l, from, to) == loop[l] = from /\ loop' = [loop EXCEPT ![l] = to]

-----------------------------------------------------------------------------
\* The options: -z puts the file there that stops all loops.
Begin(l) ==
    /\ LoopStep(l, "start", IF l \in Creators THEN "snapshot" ELSE "ls")
    /\ NOMORESNAPS' = (NOMORESNAPS \/ layout.z = l)
    /\ UNCHANGED <<layout, snaps, nested, snap, ret, c, stolen>>

\* $pattern$RANDOM, or snap$RANDOM$RANDOM-$c.
SnapName(r) == IF layout.family = "rand-snap" THEN <<r, 0>> ELSE <<r, c>>

\* If there is a directory of that name already, a snapshot of a path is made inside of
\* it, under the last part of the path, and one of "." is an error; so is a second one
\* inside.
CreateSnapshot(l) ==
    /\ LoopStep(l, "snapshot", "sleep")
    /\ c <= Counted
    /\ \E r \in Randoms :
          IF SnapName(r) \notin snaps
          THEN snaps' = snaps \cup {SnapName(r)} /\ UNCHANGED nested
          ELSE /\ nested' = IF layout.source = "." THEN nested ELSE nested \cup {SnapName(r)}
               /\ UNCHANGED snaps
    /\ c' = IF layout.family = "rand-snap" THEN c ELSE c + 1
    /\ UNCHANGED <<layout, NOMORESNAPS, snap, ret, stolen>>

\* ls | shuf | head: one of those there are, or the empty name.
Pick(l) ==
    /\ LoopStep(l, "ls", "delete")
    /\ \E s \in IF snaps = {} THEN {Nothing} ELSE snaps : snap' = [snap EXCEPT ![l] = s]
    /\ stolen' = stolen \ {l}
    /\ UNCHANGED <<layout, NOMORESNAPS, snaps, nested, ret, c>>

\* Mutant: what is deleted is looked up a second time.
DeleteSomeOther(l) ==
    /\ LoopStep(l, "delete", "sleep")
    /\ \E s \in snaps \cup {Nothing} :
          IF s \in snaps \ nested
          THEN snaps' = snaps \ {s} /\ ret' = [ret EXCEPT ![l] = "ok"]
          ELSE ret' = [ret EXCEPT ![l] = "failed"] /\ UNCHANGED snaps
    /\ UNCHANGED <<layout, NOMORESNAPS, nested, snap, c, stolen>>

\* A snapshot that holds another one cannot be deleted.
DeleteSnapshot(l) ==
    /\ LoopStep(l, "delete", "sleep")
    /\ IF snap[l] \in snaps \ nested
       THEN /\ snaps' = snaps \ {snap[l]} /\ ret' = [ret EXCEPT ![l] = "ok"]
            /\ stolen' = stolen \cup {d \in Loops : snap[d] = snap[l] /\ loop[d] = "delete"}
       ELSE ret' = [ret EXCEPT ![l] = "failed"] /\ UNCHANGED <<snaps, stolen>>
    /\ UNCHANGED <<layout, NOMORESNAPS, nested, snap, c>>

\* Mutant: the file is looked for after a failure only.
SleepOn(l) ==
    /\ LoopStep(l, "sleep", IF l \in Creators THEN "snapshot"
                            ELSE IF ret[l] = "failed" THEN "sleep -D" ELSE "ls")
    /\ UNCHANGED <<layout, NOMORESNAPS, snaps, nested, snap, ret, c, stolen>>

\* The sleep, then the look for the file; after a failure another sleep, -D.
Sleep(l) ==
    /\ LoopStep(l, "sleep",
                IF layout.family = "rand-snap" /\ NOMORESNAPS THEN "exit"
                ELSE IF l \in Creators THEN "snapshot"
                ELSE IF ret[l] = "failed" /\ layout.family = "rand-snap" THEN "sleep -D"
                ELSE "ls")
    /\ UNCHANGED <<layout, NOMORESNAPS, snaps, nested, snap, ret, c, stolen>>

SleepMore(l) ==
    /\ LoopStep(l, "sleep -D", "ls")
    /\ UNCHANGED <<layout, NOMORESNAPS, snaps, nested, snap, ret, c, stolen>>

Loop(l) == Begin(l) \/ Sleep(l)
              \/ (l \in Creators /\ CreateSnapshot(l))
              \/ (l \in Deleters /\ (Pick(l) \/ DeleteSnapshot(l) \/ SleepMore(l)))

AllExited == \A l \in Loops : loop[l] = "exit"
SnapDirNext == (\E l \in Loops : Loop(l)) \/ (AllExited /\ UNCHANGED snapDirVars)

\* Every loop goes on.
SnapDirSpec ==
    SnapDirInit /\ [][SnapDirNext]_snapDirVars /\ \A l \in Creators \cup Deleters : WF_snapDirVars(l \in Loops /\ Loop(l))

-----------------------------------------------------------------------------
(* Properties. *)

\* The delay -D "after failed snapdel, to let others to catch up" is taken for a reason:
\* there was nothing to delete, another deleter was faster, or two snapshots have got the
\* same name.  With names that are counted, and a deleter alone, none ever fails.
FailsForCause ==
    \A d \in Loops :
        ret[d] = "failed" /\ loop[d] \in {"sleep", "sleep -D"} =>
            \/ snap[d] = Nothing
            \/ d \in stolen
            \/ snap[d] \in nested /\ layout.family = "rand-snap" /\ layout.source # "."

\* One loop of rand-snap started with -z stops all.
AllStop == layout.family = "rand-snap" /\ layout.z # "none" => <>AllExited
=============================================================================

---------------------------- MODULE FullCheckout ----------------------------
(***************************************************************************)
(* incoming/stress-git-full-co: checks out every commit from the newest to *)
(* the oldest, and writes down each, so that after a crash of the machine  *)
(* the next run goes on from there.                                        *)
(***************************************************************************)
EXTENDS Integers, FiniteSets

CONSTANTS
    Commits,     \* their number; 1 is master, and rev-list counts upwards
    Histories,   \* what may be reached from each commit, itself included
    maxcount,    \* of a list, 100000
    syncafter,   \* commits between two syncs
    Crashes      \* bound: crashes of the machine

ASSUME CommitsAssumption ==
    /\ Commits \in Nat \ {0} /\ maxcount \in Nat \ {0}
    /\ syncafter \in Nat /\ Crashes \in Nat
    /\ \A reach \in Histories :
          /\ reach \in [1 .. Commits -> SUBSET (1 .. Commits)]
          /\ reach[1] = 1 .. Commits
          /\ \A m \in 1 .. Commits : m \in reach[m] /\ \A l \in reach[m] : m <= l

VARIABLES
    co,                   \* what the script does next
    history,              \* what may be reached from each commit
    range, cut,           \* the commits rev-list has listed; it has failed before the end
    commit, synci,        \* the loop variable and its counter
    record, index_lock,   \* the file git-stress-last-commit; git's lock file
    onDisk,               \* what the two may be after a crash: everything since the last sync
    crashes,
    resumed,              \* the commits a run has gone on from
    seen, skipped,        \* the commits that were checked out, and those git refused
    failed                \* those whose checkout, or record, failed for another reason

checkoutVars ==
    <<history, co, range, cut, commit, synci, record, index_lock, onDisk, crashes, resumed,
      seen, skipped, failed>>

Empty == -1      \* the file is there, without a name in it
Missing == 0

Now == [record |-> record, index_lock |-> index_lock]

CheckoutInit ==
    /\ history \in Histories
    /\ co = "start" /\ range = {} /\ cut = FALSE /\ commit = 1 /\ synci = 0
    /\ record = Missing /\ index_lock = FALSE /\ onDisk = {Now}
    /\ crashes = 0 /\ resumed = {} /\ seen = {} /\ skipped = {} /\ failed = {}

runVars == <<history, range, cut, resumed>>

\* The file system may write out what there is at any time.
Touched == onDisk' = onDisk \cup {Now'}

-----------------------------------------------------------------------------
\* The loop takes the first of the range that comes after a commit, or is at the end of it.
Advance(list, m) ==
    \E n \in 1 .. Commits + 1 :
        /\ n \in list \/ n = Commits + 1
        /\ n > m /\ \A l \in list : l > m => n <= l
        /\ commit' = n

\* The first of the commits, as many as fit or as there are.
Starts(list, all) == \A m \in list, l \in all : l <= m => l \in list
Listing(all) ==
    {list \in SUBSET all : /\ Starts(list, all) /\ Cardinality(list) <= maxcount
                           /\ list = all \/ Cardinality(list) = maxcount}

\* What the script starts from: rev-list lists what can be reached from there.  With
\* nothing in the file it has no argument, and lists nothing.
Reachable == IF record = Missing THEN 1 .. Commits
             ELSE IF record = Empty THEN {} ELSE history[record]

Resume ==
    /\ co = "start"
    /\ \/ range' \in Listing(Reachable) /\ cut' = FALSE
       \/ /\ range' \in {list \in SUBSET Reachable : Starts(list, Reachable)}
          /\ cut' = TRUE
    /\ Advance(range', 0)
    /\ resumed' = IF record > 0 THEN resumed \cup {record} ELSE resumed
    /\ synci' = 0
    /\ co' = "checkout"
    /\ UNCHANGED <<history, record, index_lock, onDisk, crashes, seen, skipped, failed>>

\* git checkout -f, which holds a lock as long as it works.
Checkout ==
    /\ co = "checkout" /\ commit <= Commits /\ ~index_lock
    /\ index_lock' = TRUE
    /\ co' = "checking out"
    /\ UNCHANGED <<runVars, commit, synci, record, crashes, seen, skipped, failed>> /\ Touched

CheckedOut ==
    /\ co = "checking out"
    /\ index_lock' = FALSE /\ seen' = seen \cup {commit}
    /\ co' = "record"
    /\ UNCHANGED <<runVars, commit, synci, record, crashes, skipped, failed>> /\ Touched

\* It fails at once, or half way, and removes its lock; the script does not look at that.
CheckoutFailed ==
    /\ co = "checking out"
    /\ index_lock' = FALSE /\ failed' = failed \cup {commit}
    /\ co' = "record"
    /\ UNCHANGED <<runVars, commit, synci, record, crashes, seen, skipped>> /\ Touched

\* It refuses to work if there is a lock already; nor does the script look at that.
Refused ==
    /\ co = "checkout" /\ commit <= Commits /\ index_lock
    /\ skipped' = skipped \cup {commit}
    /\ co' = "record"
    /\ UNCHANGED <<runVars, commit, synci, record, index_lock, onDisk, crashes, seen, failed>>

\* Mutant: the name is written first.
RecordAhead ==
    /\ co = "record" /\ record' = Empty
    /\ co' = "write"
    /\ Advance(range, commit)
    /\ UNCHANGED <<runVars, synci, index_lock, crashes, seen, skipped, failed>> /\ Touched

\* echo $i > git-stress-last-commit: the shell truncates the file first.
TruncateRecord ==
    /\ co = "record" /\ record' = Empty
    /\ co' = "write"
    /\ UNCHANGED <<runVars, commit, synci, index_lock, crashes, seen, skipped, failed>> /\ Touched

Record ==
    /\ co = "write" /\ record' = commit
    /\ co' = "sync"
    /\ UNCHANGED <<runVars, commit, synci, index_lock, crashes, seen, skipped, failed>> /\ Touched

\* The file cannot be opened, or stays without a name.
RecordFails ==
    /\ co \in {"record", "write"}
    /\ failed' = failed \cup {commit}
    /\ co' = "sync"
    /\ UNCHANGED <<runVars, commit, synci, record, index_lock, onDisk, crashes, seen, skipped>>

\* The sync, if it is due; then the next commit.
Continue ==
    /\ co = "sync"
    /\ IF synci > syncafter THEN synci' = 1 /\ onDisk' = {Now}
                            ELSE synci' = synci + 1 /\ UNCHANGED onDisk
    /\ Advance(range, commit)
    /\ co' = "checkout"
    /\ UNCHANGED <<runVars, record, index_lock, crashes, seen, skipped, failed>>

Finish ==
    /\ co = "checkout" /\ commit > Commits
    /\ co' = "done"
    /\ UNCHANGED <<runVars, commit, synci, record, index_lock, onDisk, crashes, seen,
                   skipped, failed>>

Crash ==
    /\ crashes < Crashes /\ crashes' = crashes + 1
    /\ \E d \in onDisk :
          record' = d.record /\ index_lock' = d.index_lock /\ onDisk' = {d}
    /\ co' = "start"
    /\ UNCHANGED <<runVars, commit, synci, seen, skipped, failed>>

CheckoutNext ==
    \/ Resume \/ Checkout \/ CheckedOut \/ CheckoutFailed \/ Refused \/ TruncateRecord
    \/ Record \/ RecordFails \/ Continue \/ Finish \/ Crash
    \/ co = "done" /\ UNCHANGED checkoutVars

CheckoutSpec == CheckoutInit /\ [][CheckoutNext]_checkoutVars

-----------------------------------------------------------------------------
(* Properties. *)

\* A run that goes on from a commit does not list those it was to come to by other ways.
Lost == {m \in 1 .. Commits : \E l \in resumed : m > l /\ m \notin history[l]}
Done == seen \cup skipped \cup failed \cup Lost

\* Those after the end of a list that is as long as a list can be, or cut short.
Beyond == IF cut \/ Cardinality(range) = maxcount
          THEN {m \in 1 .. Commits : ~ \E l \in range : m <= l} ELSE {}

\* However often the machine crashes, no commit up to the one written down is left out,
\* and none is left out when the script is done: but those whose checkout failed, or which
\* git has refused for a lock that a crash has left; all after an empty file, which a crash
\* or a failing echo has left; where the history has branches, those that a run could not
\* reach from where it went on; and what was not on its list, which is limited.
NoneSkipped ==
    /\ record > 0 => 1 .. record \subseteq Done
    /\ co = "done" /\ record # Empty => 1 .. Commits \subseteq Done \cup Beyond
    /\ crashes = 0 => /\ resumed = {} /\ skipped = {}
                      /\ failed = {} /\ co = "done" => record # Empty
=============================================================================

------------------------------ MODULE GitAging ------------------------------
(***************************************************************************)
(* incoming/stress-git-action2.sh, stress-subvol-git-aging.sh,             *)
(* stress-git-aging2.sh and stress-git-aging-nosubvol.sh: processes that   *)
(* check out commits, each in trees of its own, which are snapshots or     *)
(* copies of others.                                                       *)
(***************************************************************************)
EXTENDS Integers

CONSTANTS
    nconcurrent,   \* the processes
    maxrounds,     \* the commits a process checks out; of aging2 the limit, of the others
                   \* a bound
    Settings       \* [script |-> ..., failing |-> whose commands may fail, the script's own
                   \* are those of 0, interrupt |-> ^C]

VARIABLES
    setting,
    script, p,     \* what the script does next, and its loop counter
    trees,         \* what there is of each tree
    at, round,     \* what each process does next
    git,           \* the tree a git of the process is at work in, or NoTree
    refused,       \* history: trees where git checkout found the lock of another
    spoiled        \* history: whose trees hold a checkout or copy that failed half way, of
                   \* this run or an earlier one

agingVars == <<setting, script, p, trees, at, round, git, refused, spoiled>>

Scripts == {"action2", "git-aging", "aging2", "nosubvol"}
ASSUME AgingAssumption ==
    /\ nconcurrent \in Nat /\ maxrounds \in Nat \ {0}
    /\ \A s \in Settings : s.script \in Scripts
Chained == {"action2", "git-aging"}      \* process p starts with the tree of p - 1
RemovesLock == {"action2", "aging2", "nosubvol"}

\* A tree is stress/p or, with rounds, stress/p-round; stress/0; or the directory the
\* script was started in, where commands end up that could not go elsewhere.
Processes == 1 .. nconcurrent
Source == <<0, 0>>
Here == <<-1, 0>>
Trees == {Source, Here} \cup (Processes \X (0 .. maxrounds))

\* Nothing there, or: there is .git/index.lock; there is a rev-list; the files are those
\* of a checkout, or a copy, half done.
None == [there |-> FALSE, lock |-> FALSE, revlist |-> FALSE, torn |-> FALSE]
AnyTree == [there : {TRUE}, lock : BOOLEAN, revlist : BOOLEAN, torn : BOOLEAN]
OldTree == {t \in AnyTree : ~t.revlist}
NoTree == <<-2, 0>>

\* Whose trees are torn: the source is of 0, and where the script was started of -1.
TornIn(forest) == {t[1] : t \in {u \in Trees : forest[u].torn}}

\* The trees of an earlier run, a killed one perhaps, may be there; its processes are not.
AgingInit ==
    /\ setting \in Settings
    /\ script = "fill" /\ p = 1
    /\ \E source \in {None} \cup AnyTree, old \in {None} \cup OldTree,
          here \in {None, [None EXCEPT !.there = TRUE, !.revlist = TRUE]} :
          trees = [t \in Trees |-> IF t = Source THEN source ELSE IF t = Here THEN here
                                   ELSE old]
    /\ at = [q \in Processes |-> "none"] /\ round = [q \in Processes |-> 1]
    /\ git = [q \in Processes |-> NoTree] /\ refused = {} /\ spoiled = TornIn(trees)

\* Of what can fail half way, how it ends.
Fails(q) == q \in setting.failing
Halves(q) == IF Fails(q) THEN BOOLEAN ELSE {FALSE}

-----------------------------------------------------------------------------
(* The source of all. *)

\* The list of commits is written by two of the scripts only; nosubvol has tags for it.
ListWritten == setting.script \in {"git-aging", "aging2"}
WithList(tree, torn) == [tree EXCEPT !.revlist = @ \/ ListWritten, !.torn = torn]

\* A tree that is in the way is removed or renamed; if that fails its .git is overwritten
\* and its lock stays, and so may what is in it.  action2 and git-aging do this with -z
\* only.  The copy of .git and the checkout of master can fail half way; if there is no
\* tree to go to, git works on what there is where the script was started.
FillZero ==
    /\ script = "fill"
    /\ \E half \in Halves(0) :
          \/ trees' = [trees EXCEPT ![Source] =
                          [None EXCEPT !.there = TRUE, !.revlist = ListWritten, !.torn = half]]
          \/ /\ trees[Source].there /\ (Fails(0) \/ setting.script = "nosubvol")
             /\ \E torn \in {half, trees[Source].torn} :
                   trees' = [trees EXCEPT ![Source] = WithList(@, torn)]
          \/ /\ Fails(0)
             /\ trees' = [trees EXCEPT ![Source] = None, ![Here] =
                             IF @.there THEN WithList(@, half) ELSE @]
          \/ setting.script \in Chained /\ UNCHANGED trees
    /\ spoiled' = TornIn(trees')
    /\ script' = "start"
    /\ UNCHANGED <<setting, p, at, round, git, refused>>

-----------------------------------------------------------------------------
(* Snapshots and copies. *)

\* Of a tree git works in some files are new and some old.  If the destination is there
\* already it is left as it is, and what was to be made is made inside of it.
Snapshot(from, to) ==
    IF trees[from].there /\ ~trees[to].there /\ from # to
    THEN [trees EXCEPT ![to] = [trees[from] EXCEPT
             !.torn = @ \/ \E q \in Processes : git[q] = from]]
    ELSE trees

\* Mutant: stress/$prev, in aging2 too.
OriginPrev(q) == IF setting.script = "aging2" /\ q > 1 THEN <<q - 1, round[q]>>
                 ELSE IF setting.script = "nosubvol" THEN Source ELSE <<q - 1, 0>>

\* Made, and copied: in action2 and in git-aging the trees of those before, at work.
Origin(q) == IF setting.script \in Chained THEN <<q - 1, 0>>
             ELSE IF setting.script = "aging2" THEN <<q, round[q] - 1>> ELSE Source

Own(q) == IF setting.script = "aging2" THEN <<q, round[q]>> ELSE <<q, 0>>

Unlocked(t) == [trees EXCEPT ![t].lock = FALSE]

\* aging2 makes a snapshot of 0 for each process, before that is started.
StartOne ==
    /\ script = "start" /\ p <= nconcurrent
    /\ \/ setting.script # "aging2" /\ UNCHANGED trees
       \/ /\ setting.script = "aging2"
          /\ \E made \in {Snapshot(Source, <<p, 0>>)} \cup (IF Fails(0) THEN {trees} ELSE {}) :
                trees' = [made EXCEPT ![<<p, 0>>].lock = FALSE]
    /\ at' = [at EXCEPT ![p] =
                IF setting.script # "aging2" THEN "snap"
                ELSE IF trees[Source].revlist THEN "snap" ELSE "over"]
    /\ p' = p + 1
    /\ UNCHANGED <<setting, script, round, git, refused, spoiled>>

SetTrap ==
    /\ script = "start" /\ p > nconcurrent
    /\ script' = "wait"
    /\ UNCHANGED <<setting, p, trees, at, round, git, refused, spoiled>>

\* Before there is a trap ^C ends the script only: what it started with & ignores it.
InterruptEarly ==
    /\ setting.interrupt /\ script = "start"
    /\ script' = "died"
    /\ UNCHANGED <<setting, p, trees, at, round, git, refused, spoiled>>

\* ^C, once there is the trap, kills the processes in $pids, and not what those wait for.
Interrupt ==
    /\ setting.interrupt /\ script = "wait"
    /\ script' = "ended"
    /\ UNCHANGED <<setting, p, trees, at, round, git, refused, spoiled>>

EndOfWait ==
    /\ script = "wait" /\ \A q \in Processes : at[q] = "over"
    /\ script' = "ended"
    /\ UNCHANGED <<setting, p, trees, at, round, git, refused, spoiled>>

-----------------------------------------------------------------------------
(* Process q. *)

\* A loop at the end of a pipeline is a shell of its own, which is not in $pids and reads
\* its commits to the end: in aging2 that is all there is, in action2 and git-aging the
\* checkouts.  In nosubvol each checkout is in a shell of its own.
GoesOn(here) == \/ setting.script = "aging2" \/ here = "checkout"
                \/ setting.script \in Chained /\ here = "in checkout"

Goes(q, here, there) ==
    /\ at[q] = here
    /\ at' = [at EXCEPT ![q] = IF script = "ended" /\ ~GoesOn(here) THEN "over" ELSE there]

\* Killed just before it could start a command, or that shell.
NotStarted(q) ==
    /\ script = "ended" /\ at[q] \in {"snap", "rm lock", "checkout"}
    /\ at[q] = "snap" \/ setting.script # "aging2"
    /\ round[q] = 1 \/ setting.script = "nosubvol"
    /\ at' = [at EXCEPT ![q] = "over"]
    /\ UNCHANGED <<setting, script, p, trees, round, git, refused, spoiled>>

\* git-aging means to wait for the first checkout of the process before, but the
\* condition of that loop, a name in brackets, is always true.  The copy of nosubvol can
\* fail half way.
Snap(q) ==
    /\ Goes(q, "snap", "rm lock")
    /\ \/ /\ trees' \in {Snapshot(Origin(q), Own(q))} \cup (IF Fails(q) THEN {trees} ELSE {})
          /\ UNCHANGED spoiled
       \/ /\ Fails(q) /\ setting.script = "nosubvol"
          /\ trees[Source].there /\ ~trees[Own(q)].there
          /\ trees' = [trees EXCEPT ![Own(q)] = [trees[Source] EXCEPT !.torn = TRUE]]
          /\ spoiled' = spoiled \cup {q}
    /\ UNCHANGED <<setting, script, p, round, git, refused>>

\* Mutant: the lock stays.
KeepLock(q) ==
    /\ Goes(q, "rm lock", "checkout")
    /\ UNCHANGED <<setting, script, p, trees, round, git, refused, spoiled>>

\* rm -f .git/index.lock, but not in git-aging.
RemoveLock(q) ==
    /\ Goes(q, "rm lock", "checkout")
    /\ trees' = IF setting.script \in RemovesLock THEN Unlocked(Own(q)) ELSE trees
    /\ UNCHANGED <<setting, script, p, round, git, refused, spoiled>>

\* Where cd has gone, and whether there is a list to read commits from.
Cwd(q) == IF trees[Own(q)].there THEN Own(q) ELSE Here
HasList(q) == setting.script \notin Chained \/ trees[Cwd(q)].revlist

\* git checkout works under the lock.
BeginCheckout(q) ==
    /\ Goes(q, "checkout", "in checkout")
    /\ HasList(q) /\ trees[Cwd(q)].there /\ ~trees[Cwd(q)].lock
    /\ git' = [git EXCEPT ![q] = Cwd(q)]
    /\ trees' = [trees EXCEPT ![Cwd(q)].lock = TRUE]
    /\ UNCHANGED <<setting, script, p, round, refused, spoiled>>

\* It goes on if its shell is killed.  If it fails half way, on a full file system, it
\* removes its lock and leaves the files as they are; checkout -f makes good what another
\* has left.
EndCheckout(q) ==
    /\ git[q] # NoTree
    /\ git' = [git EXCEPT ![q] = NoTree]
    /\ \E half \in Halves(q) :
          /\ trees' = [trees EXCEPT ![git[q]] = [@ EXCEPT !.lock = FALSE, !.torn = half]]
          /\ spoiled' = IF half THEN spoiled \cup {git[q][1]} ELSE spoiled
    /\ UNCHANGED <<setting, script, p, at, round, refused>>

\* The lock of another; or there is no such commit, or in nosubvol a branch of that name
\* already.  Nothing is changed then, and the next commit is tried.
CheckoutFails(q) ==
    /\ Goes(q, "checkout", "in checkout") /\ HasList(q)
    /\ refused' = IF trees[Cwd(q)].lock THEN refused \cup {Cwd(q)} ELSE refused
    /\ UNCHANGED <<setting, script, p, trees, round, git, spoiled>>

\* After the last commit that is all; in aging2 each gets a snapshot of its own.
NextCommit(q) ==
    /\ git[q] = NoTree
    /\ Goes(q, "in checkout", IF round[q] = maxrounds THEN "over"
                              ELSE IF setting.script = "aging2" THEN "snap" ELSE "checkout")
    /\ round' = [round EXCEPT ![q] = @ + 1]
    /\ UNCHANGED <<setting, script, p, trees, git, refused, spoiled>>

\* Without a list there is nothing to do.
Over(q) ==
    /\ Goes(q, "checkout", "over")
    /\ ~HasList(q)
    /\ UNCHANGED <<setting, script, p, trees, round, git, refused, spoiled>>

Process(q) == \/ NotStarted(q) \/ Snap(q) \/ RemoveLock(q) \/ BeginCheckout(q)
              \/ EndCheckout(q) \/ CheckoutFails(q) \/ NextCommit(q) \/ Over(q)

AgingNext ==
    \/ FillZero \/ StartOne \/ SetTrap \/ InterruptEarly \/ Interrupt \/ EndOfWait
    \/ \E q \in Processes : Process(q)
    \/ /\ script \in {"ended", "died"} /\ \A q \in Processes : at[q] \in {"none", "over"}
       /\ UNCHANGED agingVars

AgingSpec == AgingInit /\ [][AgingNext]_agingVars

-----------------------------------------------------------------------------
(* Properties. *)

Mine(q) == at[q] \in {"checkout", "in checkout"}

\* In the scripts that remove it no lock stands in the way, although trees are copied
\* with the locks of the processes at work in them: where a process is to check out there
\* is none but its own, unless that is the directory the script was started in.
UnlockedWork ==
    setting.script \in RemovesLock =>
        /\ \A q \in Processes : Mine(q) /\ trees[Own(q)].lock => git[q] = Own(q)
        /\ refused \subseteq {Here}

\* What a torn tree is due to: in action2 and git-aging each process but the first copies
\* the tree of another at work; or a checkout or copy has failed half way in a tree of the
\* same process, or in the source of all.
Blamed(t) == \/ setting.script \in Chained /\ t[1] > 1
             \/ {Source[1], t[1]} \cap spoiled # {}

\* A half done checkout spreads no further than that: aging2 copies what it has checked out
\* itself and nosubvol what nobody changes, so that there no process gets the half done
\* work of another, whether it is killed, fails, or is at work.
AtRest == \A t \in Trees : trees[t].torn => Blamed(t)
=============================================================================

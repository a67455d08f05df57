------------------------------- MODULE Stress -------------------------------
(***************************************************************************)
(* incoming/stress.sh and its variant incoming/stress-subvol-heavy.sh: the *)
(* script sums up the files of a directory and starts processes that each, *)
(* for ever, remove their copy of it, copy it anew, and compare the sums.  *)
(* The first miscompare is to stop them all.  What is stopped are shells:  *)
(* the command a shell is in goes on without it.                           *)
(***************************************************************************)
EXTENDS Integers

CONSTANTS
    Settings   \* what is run, and on what: see below

VARIABLES
    setting,
    pc, p,     \* the script and its loop counter
    sums,      \* content.sums: the sums of all files, or not
    at,        \* the command each process is in
    alive,     \* the processes whose shell has not ended
    tree,      \* its copy of the content
    tmp,       \* the sums files in /tmp, compared with those of the content
    found      \* the processes that have said "file miscompares"

\* corrupt: the file system may damage a copy, the bug looked for; nested: another one is
\* mounted below the content, where find goes and cp -x does not; failing: commands may
\* fail; interrupt: someone may press ^C; left: what an earlier script with the same
\* process id has left of each sums file in /tmp.
Sums == {"none", "same", "differs"}

\* A copy with all of the content is the "same", or has "extra" files besides.
Copies == {"none", "same", "differs", "extra"}
ASSUME SettingsAssumption ==
    \A s \in Settings :
        /\ s.script \in {"stress.sh", "stress-subvol-heavy.sh"}
        /\ s.nconcurrent \in Nat
        /\ s.corrupt \in BOOLEAN /\ s.nested \in BOOLEAN
        /\ s.failing \in BOOLEAN /\ s.interrupt \in BOOLEAN
        /\ s.left \in Sums

vars == <<setting, pc, p, sums, at, alive, tree, tmp, found>>

Processes == 1 .. setting.nconcurrent

Init ==
    /\ setting \in Settings
    /\ pc = "setup" /\ p = 1 /\ sums = "none"
    /\ at = [q \in Processes |-> "none"] /\ alive = {}
    /\ tree \in [Processes -> Copies]        \* of an earlier run
    /\ tmp = [q \in Processes |-> setting.left]
    /\ found = {}

-----------------------------------------------------------------------------
(* The script. *)

\* mkdir, if there is no such directory.
SetUp ==
    /\ pc = "setup"
    /\ pc' \in IF setting.failing THEN {"sums", "died"} ELSE {"sums"}
    /\ UNCHANGED <<setting, p, sums, at, alive, tree, tmp, found>>

\* Nobody looks at the status of find, xargs or md5sum: the sums may be those of a part of
\* the content, of nothing, or as an earlier run has left them.
SumContent ==
    /\ pc = "sums"
    /\ sums' \in IF setting.failing THEN {"exact", "partial"} ELSE {"exact"}
    /\ pc' = "fork"
    /\ UNCHANGED <<setting, p, at, alive, tree, tmp, found>>

Fork ==
    /\ pc = "fork"
    /\ IF p > setting.nconcurrent THEN pc' = "trap" /\ UNCHANGED <<p, at, alive>>
       ELSE /\ at' = [at EXCEPT ![p] = "sleep"] /\ alive' = alive \cup {p}
            /\ p' = p + 1 /\ UNCHANGED pc
    /\ UNCHANGED <<setting, sums, tree, tmp, found>>

\* trap "kill $pids" SIGINT, then wait.
SetTrap ==
    /\ pc = "trap"
    /\ pc' = "wait"
    /\ UNCHANGED <<setting, p, sums, at, alive, tree, tmp, found>>

\* Before there is a trap ^C ends the script only: what it started with & ignores it.
InterruptEarly ==
    /\ setting.interrupt /\ pc \in {"sums", "fork", "trap"}
    /\ pc' = "died"
    /\ UNCHANGED <<setting, p, sums, at, alive, tree, tmp, found>>

\* kill $pids: the shells, and not the commands they wait for.
Interrupt ==
    /\ setting.interrupt /\ pc = "wait"
    /\ alive' = {}
    /\ pc' = "ended"
    /\ UNCHANGED <<setting, p, sums, at, tree, tmp, found>>

EndOfWait ==
    /\ pc = "wait" /\ alive = {}
    /\ pc' = "ended"
    /\ UNCHANGED <<setting, p, sums, at, alive, tree, tmp, found>>

-----------------------------------------------------------------------------
(* Process q: each action is the end of a command. *)

\* The shell goes on to the next command, if it is still there.
Goes(q, here, there) ==
    /\ at[q] = here
    /\ at' = [at EXCEPT ![q] = IF q \in alive THEN there ELSE "over"]
    /\ UNCHANGED alive

\* A shell killed just before it could start the command (or, of two, the second).
NotStarted(q) ==
    /\ at[q] \notin {"none", "over"} /\ q \notin alive
    /\ at' = [at EXCEPT ![q] = "over"]
    /\ UNCHANGED <<setting, pc, p, sums, alive, tree, tmp, found>>

\* The processes sleep for ten seconds at least, longer than the script needs to start
\* them all.
Sleep(q) ==
    /\ pc # "fork"
    /\ Goes(q, "sleep", "rm")
    /\ UNCHANGED <<setting, pc, p, sums, tree, tmp, found>>

\* rm -rf; what it fails to remove stays there.
Remove(q) ==
    /\ Goes(q, "rm", "cp")
    /\ \E t \in IF setting.failing /\ tree[q] # "none" THEN {"none", "differs", tree[q]}
                                                      ELSE {"none"} :
        tree' = [tree EXCEPT ![q] = t]
    /\ UNCHANGED <<setting, pc, p, sums, tmp, found>>

\* mkdir and cp -dRx, of which either may fail: there is no copy then, or part of one; and
\* what has not been removed may be no part of the content.
Copy(q) ==
    /\ Goes(q, "cp", "md5sum")
    /\ \E t \in (IF setting.nested THEN {"differs"} ELSE {"same"})
                \cup (IF setting.corrupt THEN {"differs", "extra"} ELSE {})
                \cup (IF tree[q] \in {"differs", "extra"} THEN {"extra"} ELSE {})
                \cup (IF setting.failing THEN {"differs", tree[q]} ELSE {}) :
        tree' = [tree EXCEPT ![q] = t]
    /\ UNCHANGED <<setting, pc, p, sums, tmp, found>>

\* Mutant: /tmp/stress.$$ for all processes.
TmpForAll(q) == 1

\* /tmp/stress.$$.$p
TmpOf(q) == q

\* ( cd copy && ... sort -o ): without a copy the sums file is not touched.  An extra file
\* md5sum cannot read is none to it.
Sum(q) ==
    /\ Goes(q, "md5sum", "diff")
    /\ \E t \in IF tree[q] = "none" THEN {tmp[TmpOf(q)]}
                ELSE {IF tree[q] = "same" THEN "same" ELSE "differs"}
                     \cup (IF setting.failing THEN {"differs", tmp[TmpOf(q)]} ELSE {})
                     \cup (IF setting.failing /\ tree[q] = "extra" THEN {"same"} ELSE {}) :
        tmp' = [tmp EXCEPT ![TmpOf(q)] = t]
    /\ UNCHANGED <<setting, pc, p, sums, tree, found>>

\* Sums of a part of the content can equal those of a part of a copy, or of a damaged one:
\* both may even be empty.
Equal(q) == tmp[TmpOf(q)] = IF sums = "exact" THEN "same" ELSE "differs"

Compare(q) ==
    /\ Equal(q)
    /\ Goes(q, "diff", "rm sums")
    /\ UNCHANGED <<setting, pc, p, sums, tree, tmp, found>>

\* "file miscompares": also of sums that are as partial as those of the content, but of
\* another part.
Miscompare(q) ==
    /\ ~Equal(q) \/ setting.failing
    /\ Goes(q, "diff", "killall")
    /\ found' = IF q \in alive THEN found \cup {q} ELSE found
    /\ UNCHANGED <<setting, pc, p, sums, tree, tmp>>

\* Mutant: the name the variant has in its usage, in both.
OldName == "stress-subvol.sh"

\* The name killall looks for.
KillName ==
    IF setting.script = "stress.sh" THEN "stress.sh" ELSE "stress-subvol.sh"

\* killall, then exit.  The script, started by its name, has the same name as its
\* processes; the commands have others.
KillAll(q) ==
    /\ at[q] = "killall" /\ at' = [at EXCEPT ![q] = "over"]
    /\ \/ /\ KillName = setting.script
          /\ alive' = {}
          /\ pc' = IF pc \in {"died", "ended"} THEN pc ELSE "ended"
       \/ /\ KillName # setting.script \/ setting.failing
          /\ alive' = alive \ {q}
          /\ UNCHANGED pc
    /\ UNCHANGED <<setting, p, sums, tree, tmp, found>>

\* Mutant: the sums stay for the next comparison.
KeepSums(q) ==
    /\ Goes(q, "rm sums", "rm")
    /\ UNCHANGED <<setting, pc, p, sums, tree, tmp, found>>

\* rm -f of a file of its own, which is taken not to fail.
RemoveSums(q) ==
    /\ Goes(q, "rm sums", "rm")
    /\ tmp' = [tmp EXCEPT ![TmpOf(q)] = "none"]
    /\ UNCHANGED <<setting, pc, p, sums, tree, found>>

-----------------------------------------------------------------------------
Script == SetUp \/ SumContent \/ Fork \/ SetTrap \/ InterruptEarly \/ Interrupt \/ EndOfWait
Process(q) == \/ NotStarted(q) \/ Sleep(q) \/ Remove(q) \/ Copy(q) \/ Sum(q)
              \/ Compare(q) \/ Miscompare(q) \/ KillAll(q) \/ RemoveSums(q)

Quiet == pc \in {"died", "ended"} /\ \A q \in Processes : at[q] \in {"none", "over"}

Next == \/ Script
        \/ \E q \in Processes : Process(q)
        \/ Quiet /\ UNCHANGED vars

Spec == Init /\ [][Next]_vars

-----------------------------------------------------------------------------
(* Properties. *)

\* The ranges of the variables.
TypeOK ==
    /\ pc \in {"setup", "sums", "fork", "trap", "wait", "ended", "died"}
    /\ p \in 1 .. setting.nconcurrent + 1
    /\ sums \in {"none", "exact", "partial"}
    /\ at \in [Processes -> {"none", "sleep", "rm", "cp", "md5sum", "diff", "killall",
                             "rm sums", "over"}]
    /\ alive \subseteq Processes
    /\ tree \in [Processes -> Copies] /\ tmp \in [Processes -> Sums]
    /\ found \subseteq Processes

\* As long as commands do not fail a miscompare is a copy that is not the content, whatever
\* the other processes do and whatever earlier runs have left; and the copy is still there
\* to be looked at, also when other processes, or the commands of killed ones, go on.
NoFalseAlarm == ~setting.failing => \A q \in found : tree[q] \notin {"none", "same"}

\* A damaged or missing copy is taken for a good one and overwritten by the next only if
\* commands fail, and then only in two cases: the sums of the content itself are not all
\* there, or an earlier run with the same process id has left good sums in /tmp.
NothingMissed ==
    /\ TypeOK
    /\ \A q \in Processes :
         at[q] = "rm sums" /\ tree[q] \in {"none", "differs"} =>
             setting.failing /\ (sums = "partial" \/ setting.left = "same")

\* ^C once there is the trap ("Press ^C to kill all processes") has stopped either script;
\* the first miscompare has stopped stress.sh, when its killall has run.
Stopped ==
    \/ pc = "ended"
    \/ /\ setting.script = "stress.sh" /\ ~setting.failing
       /\ \E q \in found : at[q] = "over"

\* Nothing starts once they are stopped: each process does at most the command it was in,
\* which still changes the file system, and no other.
StopsTogether ==
    [][\A q \in Processes : Stopped /\ at'[q] # at[q] => at'[q] = "over"]_vars
=============================================================================

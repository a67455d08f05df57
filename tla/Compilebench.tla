---------------------------- MODULE Compilebench ----------------------------
(***************************************************************************)
(* incoming/test-subtrans/compilebench: a single process that creates      *)
(* kernel trees, patches, compiles, cleans, deletes and reads them at      *)
(* random, and books each tree in one of four hashes by the state it       *)
(* should be in.                                                           *)
(*                                                                         *)
(* The 46000 files of a tree are the six classes the four stripped data    *)
(* sets tell apart; a file is absent, has the size of one of its two       *)
(* versions, or has been appended to.  Names kernel-N are their numbers.   *)
(***************************************************************************)
EXTENDS Integers, FiniteSets

CONSTANTS
    Options,        \* command lines: -i, -r and --makej
    RandomNames,    \* randint(100, 100000)
    Leftovers       \* trees an earlier run left in the working directory

ASSUME OptionsAssumption ==
    Options \subseteq [initial_dirs : Nat, runs : Nat, makej : BOOLEAN]

InitialNames == UNION {0 .. o.initial_dirs - 1 : o \in Options}
Names == InitialNames \cup RandomNames

ASSUME NamesAssumption ==
    /\ RandomNames \subseteq Nat
    /\ Leftovers \subseteq Names

(* The classes of files: sources and objects that differ between the two     *)
(* kernels, that only the patched one adds, and the others, whose versions    *)
(* have the same size.                                                        *)
Sources == {"src same", "src differs", "src new"}
Objects == {"obj same", "obj differs", "obj new"}
Classes == Sources \cup Objects

Versions == {"unpatched", "patched"}
Sizes == Versions \cup {"absent", "appended"}

(* The data sets after dataset.__init__ has stripped them. *)
unpatched          == {"src same", "src differs"}
patched            == {"src differs", "src new"}
unpatched_compiled == {"obj same", "obj differs"}
compiled           == {"obj differs", "obj new"}

VARIABLES
    options,     \* the command line
    phase,       \* which loop of the main program runs
    x,           \* trees created by the first loop
    total_runs,
    patched_dirs, unpatched_dirs, unpatched_compiled_dirs, patched_compiled_dirs,
    exists,      \* top level directories on disk: rmrf() leaves them, empty
    tree,        \* their files
    stats        \* the counts of the statistics a choice of hash decides on

hashes == <<patched_dirs, unpatched_dirs, unpatched_compiled_dirs, patched_compiled_dirs>>
vars == <<options, phase, x, total_runs, hashes, exists, tree, stats>>

AllDirs == patched_dirs \cup unpatched_dirs \cup unpatched_compiled_dirs
             \cup patched_compiled_dirs
CompiledDirs == unpatched_compiled_dirs \cup patched_compiled_dirs

Empty == [c \in Classes |-> "absent"]
Untarred == [c \in Classes |-> IF c \in unpatched THEN "unpatched" ELSE "absent"]

NoStats == [delete |-> 0, delete_compiled |-> 0, read |-> 0, read_compiled |-> 0,
            compile |-> 0]

Init ==
    /\ options \in Options
    /\ phase = "create" /\ x = 0 /\ total_runs = 0
    /\ patched_dirs = {} /\ unpatched_dirs = {}
    /\ unpatched_compiled_dirs = {} /\ patched_compiled_dirs = {}
    /\ exists = Leftovers
    /\ tree = [d \in Names |-> IF d \in Leftovers THEN Untarred ELSE Empty]
    /\ stats = NoStats

\* Mutant: patching does not truncate what it has read.
run_directory_keeps(d, dataset, version, truncate) ==
    tree' = [tree EXCEPT ![d] =
               [c \in Classes |-> IF c \notin dataset THEN @[c]
                                  ELSE IF @[c] = "absent" THEN version
                                  ELSE "appended"]]

\* run_directory(): files are opened 'a+', so a file that is there grows by its
\* size unless it was unlinked or, with readfirst, truncated before.
run_directory(d, dataset, version, truncate) ==
    tree' = [tree EXCEPT ![d] =
               [c \in Classes |-> IF c \notin dataset THEN @[c]
                                  ELSE IF truncate \/ @[c] = "absent" THEN version
                                  ELSE "appended"]]

\* A step of the main loops ends: one more run, and the loop it belongs to stops
\* at the number of runs.
CountRun ==
    /\ total_runs' = total_runs + 1
    /\ phase' = IF phase = "ops" /\ total_runs' >= options.runs THEN "done" ELSE phase

Bump(s) == stats' = [stats EXCEPT ![s] = @ + 1]

\* The loop the program enters when the initial trees are there.
AfterCreate == IF options.makej THEN "compile"
               ELSE IF options.runs > 0 THEN "ops" ELSE "done"

-----------------------------------------------------------------------------
CreateInitial ==
    /\ phase = "create" /\ x < options.initial_dirs
    /\ run_directory(x, unpatched, "unpatched", FALSE)
    /\ exists' = exists \cup {x}
    /\ unpatched_dirs' = unpatched_dirs \cup {x}
    /\ x' = x + 1
    /\ UNCHANGED <<options, phase, total_runs, patched_dirs, unpatched_compiled_dirs,
                   patched_compiled_dirs, stats>>

InitialCreated ==
    /\ phase = "create" /\ x >= options.initial_dirs
    /\ phase' = AfterCreate
    /\ UNCHANGED <<options, x, total_runs, hashes, exists, tree, stats>>

create_one_dir(d) ==
    /\ phase = "ops"
    /\ d \in RandomNames \ exists
    /\ run_directory(d, unpatched, "unpatched", FALSE)
    /\ exists' = exists \cup {d}
    /\ unpatched_dirs' = unpatched_dirs \cup {d}
    /\ CountRun
    /\ UNCHANGED <<options, x, patched_dirs, unpatched_compiled_dirs, patched_compiled_dirs, stats>>

\* With every name taken the search of create_one_dir() does not end.
NoNameLeft ==
    /\ phase = "ops" /\ RandomNames \subseteq exists
    /\ phase' = "searching"
    /\ UNCHANGED <<options, x, total_runs, hashes, exists, tree, stats>>

PatchUnpatched(d) ==
    /\ phase = "ops" /\ d \in unpatched_dirs
    /\ run_directory(d, patched, "patched", TRUE)
    /\ unpatched_dirs' = unpatched_dirs \ {d}
    /\ patched_dirs' = patched_dirs \cup {d}
    /\ CountRun
    /\ UNCHANGED <<options, x, unpatched_compiled_dirs, patched_compiled_dirs, exists, stats>>

\* Patching a compiled tree writes the objects that differ, and no source.
PatchCompiled(d) ==
    /\ phase = "ops" /\ d \in unpatched_compiled_dirs
    /\ run_directory(d, compiled, "patched", TRUE)
    /\ unpatched_compiled_dirs' = unpatched_compiled_dirs \ {d}
    /\ patched_compiled_dirs' = patched_compiled_dirs \cup {d}
    /\ CountRun
    /\ UNCHANGED <<options, x, unpatched_dirs, patched_dirs, exists, stats>>

\* Mutant: the data set of the patched kernel.
CompileUnpatchedMixed(d) ==
    /\ phase \in {"ops", "compile"} /\ d \in unpatched_dirs
    /\ run_directory(d, compiled, "patched", FALSE)
    /\ unpatched_dirs' = unpatched_dirs \ {d}
    /\ unpatched_compiled_dirs' = unpatched_compiled_dirs \cup {d}
    /\ Bump("compile") /\ CountRun
    /\ UNCHANGED <<options, x, patched_dirs, patched_compiled_dirs, exists>>

CompileUnpatched(d) ==
    /\ phase \in {"ops", "compile"} /\ d \in unpatched_dirs
    /\ run_directory(d, unpatched_compiled, "unpatched", FALSE)
    /\ unpatched_dirs' = unpatched_dirs \ {d}
    /\ unpatched_compiled_dirs' = unpatched_compiled_dirs \cup {d}
    /\ Bump("compile") /\ CountRun
    /\ UNCHANGED <<options, x, patched_dirs, patched_compiled_dirs, exists>>

CompilePatched(d) ==
    /\ phase \in {"ops", "compile"} /\ d \in patched_dirs
    /\ run_directory(d, compiled, "patched", FALSE)
    /\ patched_dirs' = patched_dirs \ {d}
    /\ patched_compiled_dirs' = patched_compiled_dirs \cup {d}
    /\ Bump("compile") /\ CountRun
    /\ UNCHANGED <<options, x, unpatched_dirs, unpatched_compiled_dirs, exists>>

\* clean_directory() unlinks the files of a data set; an unlink of a file that is
\* not there is not caught, and ends the program.
clean_directory(d, dataset) ==
    tree' = [tree EXCEPT ![d] = [c \in Classes |-> IF c \in dataset THEN "absent" ELSE @[c]]]
FindsAll(d, dataset) == \A c \in dataset : tree[d][c] # "absent"
Traceback == phase' = "traceback" /\ UNCHANGED <<total_runs, hashes>>

\* Mutant: cleaning an unpatched tree removes the files of the patched one.
CleanUnpatchedMixed(d) ==
    /\ phase = "ops" /\ d \in unpatched_compiled_dirs
    /\ clean_directory(d, compiled)
    /\ IF FindsAll(d, compiled)
         THEN /\ unpatched_compiled_dirs' = unpatched_compiled_dirs \ {d}
              /\ unpatched_dirs' = unpatched_dirs \cup {d}
              /\ CountRun /\ UNCHANGED <<patched_dirs, patched_compiled_dirs>>
         ELSE Traceback
    /\ UNCHANGED <<options, x, exists, stats>>

CleanUnpatched(d) ==
    /\ phase = "ops" /\ d \in unpatched_compiled_dirs
    /\ clean_directory(d, unpatched_compiled)
    /\ IF FindsAll(d, unpatched_compiled)
         THEN /\ unpatched_compiled_dirs' = unpatched_compiled_dirs \ {d}
              /\ unpatched_dirs' = unpatched_dirs \cup {d}
              /\ CountRun /\ UNCHANGED <<patched_dirs, patched_compiled_dirs>>
         ELSE Traceback
    /\ UNCHANGED <<options, x, exists, stats>>

CleanPatched(d) ==
    /\ phase = "ops" /\ d \in patched_compiled_dirs
    /\ clean_directory(d, compiled)
    /\ IF FindsAll(d, compiled)
         THEN /\ patched_compiled_dirs' = patched_compiled_dirs \ {d}
              /\ patched_dirs' = patched_dirs \cup {d}
              /\ CountRun /\ UNCHANGED <<unpatched_dirs, unpatched_compiled_dirs>>
         ELSE Traceback
    /\ UNCHANGED <<options, x, exists, stats>>

\* ch == ... compares dictionaries by value: another hash that is empty equals
\* the chosen one when that is empty too.
LooksCompiled(ch) == ch = unpatched_compiled_dirs' \/ ch = patched_compiled_dirs'

\* rmrf() removes what is in the tree, not the tree's own directory.
DeleteFrom(ch, d) ==
    /\ phase \in {"ops", "delete"} /\ d \in ch
    /\ tree' = [tree EXCEPT ![d] = Empty]
    /\ Bump(IF LooksCompiled(ch \ {d}) THEN "delete_compiled" ELSE "delete")
    /\ CountRun
    /\ UNCHANGED <<options, x, exists>>

delete_one_dir(d) ==
    \/ /\ patched_dirs' = patched_dirs \ {d}
       /\ UNCHANGED <<unpatched_dirs, unpatched_compiled_dirs, patched_compiled_dirs>>
       /\ DeleteFrom(patched_dirs, d)
    \/ /\ unpatched_dirs' = unpatched_dirs \ {d}
       /\ UNCHANGED <<patched_dirs, unpatched_compiled_dirs, patched_compiled_dirs>>
       /\ DeleteFrom(unpatched_dirs, d)
    \/ /\ unpatched_compiled_dirs' = unpatched_compiled_dirs \ {d}
       /\ UNCHANGED <<patched_dirs, unpatched_dirs, patched_compiled_dirs>>
       /\ DeleteFrom(unpatched_compiled_dirs, d)
    \/ /\ patched_compiled_dirs' = patched_compiled_dirs \ {d}
       /\ UNCHANGED <<patched_dirs, unpatched_dirs, unpatched_compiled_dirs>>
       /\ DeleteFrom(patched_compiled_dirs, d)

\* read_one_dir(), and stat_one_dir() with statistics of its own: the hash is not
\* emptied, so the comparison by value is right.
read_one_dir(ch) ==
    /\ ch # {}
    /\ Bump(IF ch = unpatched_compiled_dirs \/ ch = patched_compiled_dirs
              THEN "read_compiled" ELSE "read")
    /\ UNCHANGED <<options, x, hashes, exists, tree>>

Hash == {patched_dirs, unpatched_dirs, unpatched_compiled_dirs, patched_compiled_dirs}

Read == /\ phase = "ops"
        /\ \E ch \in Hash : read_one_dir(ch)
        /\ CountRun

-----------------------------------------------------------------------------
(* --makej: compile every tree, read three, delete every tree. *)

CompileEnds ==
    /\ phase = "compile" /\ unpatched_dirs = {} /\ patched_dirs = {}
    /\ phase' = "read"
    /\ UNCHANGED <<options, x, total_runs, hashes, exists, tree, stats>>

\* total_runs counts the three reads even if there is no tree to read.
ReadMakej ==
    /\ phase = "read"
    /\ total_runs' = total_runs + 1
    /\ phase' = IF total_runs' = stats.compile + 3 THEN "delete" ELSE "read"
    /\ IF AllDirs = {} THEN UNCHANGED <<options, x, hashes, exists, tree, stats>>
       ELSE \E ch \in Hash : read_one_dir(ch)

\* Mutant: the loop of deletions has no break.
DeleteEndsNot ==
    /\ phase = "delete" /\ AllDirs = {}
    /\ UNCHANGED vars

DeleteEnds ==
    /\ phase = "delete" /\ AllDirs = {}
    /\ phase' = "done"
    /\ UNCHANGED <<options, x, total_runs, hashes, exists, tree, stats>>

-----------------------------------------------------------------------------
Stopped == /\ phase \in {"done", "traceback", "searching"}
           /\ UNCHANGED vars

Next == \/ CreateInitial \/ InitialCreated
        \/ \E d \in Names : \/ create_one_dir(d)
                            \/ PatchUnpatched(d) \/ PatchCompiled(d)
                            \/ CompileUnpatched(d) \/ CompilePatched(d)
                            \/ CleanUnpatched(d) \/ CleanPatched(d)
                            \/ delete_one_dir(d)
        \/ NoNameLeft \/ Read
        \/ CompileEnds \/ ReadMakej \/ DeleteEnds
        \/ Stopped

\* The process keeps running; it is alone.
Spec == Init /\ [][Next]_vars /\ WF_vars(Next)

-----------------------------------------------------------------------------
(* Properties. *)

\* The ranges of the variables.
TypeOK ==
    /\ phase \in {"create", "ops", "compile", "read", "delete", "done", "traceback",
                  "searching"}
    /\ x \in 0 .. options.initial_dirs
    /\ total_runs \in Nat
    /\ patched_dirs \subseteq Names /\ unpatched_dirs \subseteq Names
    /\ unpatched_compiled_dirs \subseteq Names /\ patched_compiled_dirs \subseteq Names
    /\ exists \subseteq Names
    /\ tree \in [Names -> [Classes -> Sizes]]
    /\ stats \in [DOMAIN NoStats -> Nat]

\* A tree is booked in one hash at most and every booked tree is on disk, although
\* deleted names stay there and are not given out again.
HashesDisjoint ==
    /\ AllDirs \subseteq exists
    /\ Cardinality(AllDirs) = Cardinality(patched_dirs) + Cardinality(unpatched_dirs)
         + Cardinality(unpatched_compiled_dirs) + Cardinality(patched_compiled_dirs)

\* make clean never stops on a file that is not there, by whichever of the two
\* routes a tree became patched and compiled.
CleanFindsAll == phase # "traceback"

\* In a fresh working directory no file is ever appended to: files have the sizes
\* of the data sets.  Compiling relies on this: it neither truncates nor unlinks.
SizesOfDatasets ==
    /\ TypeOK
    /\ \A d \in AllDirs : \A c \in Classes : tree[d][c] # "appended"

\* A tree booked as unpatched, compiled or not, is exactly that: no file of the
\* patched kernel and no object survives a patch, compile and clean elsewhere.  And it
\* is booked nowhere else.
UnpatchedExact ==
    /\ HashesDisjoint
    /\ \A d \in unpatched_dirs : tree[d] = Untarred
    /\ \A d \in unpatched_compiled_dirs :
          tree[d] = [c \in Classes |-> IF c \in unpatched \cup unpatched_compiled
                                         THEN "unpatched" ELSE "absent"]

\* "The directory hashes indicate which state each of the top level directories is
\* in": the other half of the claim, for trees booked as patched.
PatchedExact ==
    /\ \A d \in patched_dirs :
          /\ \A c \in patched : tree[d][c] = "patched"
          /\ \A c \in Objects : tree[d][c] = "absent"
    /\ \A d \in patched_compiled_dirs :
          \A c \in patched \cup compiled : tree[d][c] = "patched"

\* --makej ends, since both of its loops run until an operation finds nothing to do:
\* then every initial tree was compiled, only compiled ones were read, and none is left.
MakejEnds ==
    options.makej =>
        <>(/\ phase = "done" /\ AllDirs = {}
           /\ stats.compile = options.initial_dirs
           /\ stats.read = 0 /\ stats.delete = 0
           /\ stats.delete_compiled = options.initial_dirs)
=============================================================================

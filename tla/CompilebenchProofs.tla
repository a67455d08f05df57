------------------------- MODULE CompilebenchProofs -------------------------
(***************************************************************************)
(* Proofs about Compilebench, for any command lines, any names and any     *)
(* number of operations: the state each tree is in is the one it is booked *)
(* for, as far as the program depends on it.                               *)
(***************************************************************************)
EXTENDS Compilebench, FiniteSetTheorems, TLAPS

\* A tree is booked once, among finitely many.
Apart ==
    /\ patched_dirs \cap unpatched_dirs = {} /\ patched_dirs \cap CompiledDirs = {}
    /\ unpatched_dirs \cap CompiledDirs = {}
    /\ unpatched_compiled_dirs \cap patched_compiled_dirs = {}
    /\ IsFiniteSet(patched_dirs) /\ IsFiniteSet(unpatched_dirs)
    /\ IsFiniteSet(unpatched_compiled_dirs) /\ IsFiniteSet(patched_compiled_dirs)
    /\ AllDirs \subseteq exists

\* The first loop has got to the tree x.
Creating ==
    phase = "create" =>
        /\ patched_dirs = {} /\ unpatched_compiled_dirs = {} /\ patched_compiled_dirs = {}
        /\ \A d \in unpatched_dirs : d < x
        /\ \A d \in exists : d < x \/ d \in Leftovers

\* What make clean is to remove is there.
ObjectsThere ==
    /\ \A d \in unpatched_compiled_dirs : FindsAll(d, unpatched_compiled)
    /\ \A d \in patched_compiled_dirs : FindsAll(d, compiled)
    /\ phase # "traceback"

BookedInv ==
    /\ options \in Options /\ TypeOK /\ Apart /\ Creating /\ ObjectsThere

UnpatchedCompiled ==
    [c \in Classes |-> IF c \in unpatched \cup unpatched_compiled THEN "unpatched" ELSE "absent"]

\* The trees, if none was left from an earlier run.  Of the objects of a patched tree
\* only those both kernels have alike may remain, if it was patched when compiled.
Exact ==
    /\ \A d \in Names \ exists : tree[d] = Empty
    /\ \A d \in unpatched_dirs : tree[d] = Untarred
    /\ \A d \in unpatched_compiled_dirs : tree[d] = UnpatchedCompiled
    /\ \A d \in patched_dirs : \A c \in compiled : tree[d][c] = "absent"
    /\ \A d \in patched_dirs \cup patched_compiled_dirs :
          \A c \in Classes : tree[d][c] # "appended"

\* The lists of the stripped data sets are classes of files.
LEMMA DataSets ==
    /\ unpatched \subseteq Classes /\ patched \subseteq Classes
    /\ unpatched_compiled \subseteq Classes /\ compiled \subseteq Classes
    /\ unpatched \cap (unpatched_compiled \cup compiled) = {} /\ patched \cap compiled = {}
    /\ Empty \in [Classes -> Sizes] /\ Untarred \in [Classes -> Sizes]
BY DEF unpatched, patched, unpatched_compiled, compiled, Classes, Sources, Objects,
       Empty, Untarred, Sizes, Versions

\* What run_directory() makes of a tree; the others stay.
Written(t, dataset, version, truncate) ==
    [c \in Classes |-> IF c \notin dataset THEN t[c]
                       ELSE IF truncate \/ t[c] = "absent" THEN version ELSE "appended"]

LEMMA RunDirectory ==
    ASSUME tree \in [Names -> [Classes -> Sizes]], NEW d \in Names, NEW dataset,
           NEW version \in Versions, NEW truncate \in BOOLEAN,
           run_directory(d, dataset, version, truncate)
    PROVE  /\ tree' \in [Names -> [Classes -> Sizes]]
           /\ tree'[d] = Written(tree[d], dataset, version, truncate)
           /\ \A e \in Names \ {d} : tree'[e] = tree[e]
<1> DEFINE t == Written(tree[d], dataset, version, truncate)
<1>1. tree' = [tree EXCEPT ![d] = t]
  BY DEF run_directory, Written
<1>2. t \in [Classes -> Sizes]
  BY DEF Written, Sizes
<1> HIDE DEF t
<1>3. tree' \in [Names -> [Classes -> Sizes]] /\ tree'[d] = t /\ \A e \in Names \ {d} : tree'[e] = tree[e]
  BY <1>1, <1>2
<1> QED BY <1>3 DEF t

LEMMA CleanDirectory ==
    ASSUME tree \in [Names -> [Classes -> Sizes]], NEW d \in Names, NEW dataset,
           clean_directory(d, dataset)
    PROVE  /\ tree' \in [Names -> [Classes -> Sizes]]
           /\ tree'[d] = [c \in Classes |-> IF c \in dataset THEN "absent" ELSE tree[d][c]]
           /\ \A e \in Names \ {d} : tree'[e] = tree[e]
<1> DEFINE t == [c \in Classes |-> IF c \in dataset THEN "absent" ELSE tree[d][c]]
<1>1. tree' = [tree EXCEPT ![d] = t]
  BY DEF clean_directory
<1>2. t \in [Classes -> Sizes]
  BY DEF Sizes
<1> HIDE DEF t
<1>3. tree' \in [Names -> [Classes -> Sizes]] /\ tree'[d] = t /\ \A e \in Names \ {d} : tree'[e] = tree[e]
  BY <1>1, <1>2
<1> QED BY <1>3 DEF t

\* One more or one less in a hash.
LEMMA HashStays ==
    ASSUME NEW S, IsFiniteSet(S), NEW d
    PROVE  IsFiniteSet(S \cup {d}) /\ IsFiniteSet(S \ {d})
<1>1. IsFiniteSet(S \cup {d})
  BY FS_AddElement
<1>2. IsFiniteSet(S \ {d})
  BY FS_Subset
<1> QED BY <1>1, <1>2

LEMMA CountRunTypes ==
    ASSUME TypeOK, phase \in {"ops", "compile", "delete"}, CountRun
    PROVE  total_runs' \in Nat /\ phase' \in {phase, "done"}
BY DEF TypeOK, CountRun

LEMMA BumpTypes ==
    ASSUME TypeOK, NEW s \in DOMAIN NoStats, Bump(s)
    PROVE  stats' \in [DOMAIN NoStats -> Nat]
<1> DEFINE D == DOMAIN NoStats
<1>1. stats \in [D -> Nat] /\ s \in D /\ stats' = [stats EXCEPT ![s] = @ + 1]
  BY DEF TypeOK, Bump
<1> HIDE DEF D
<1>2. stats' \in [D -> Nat]
  BY <1>1
<1> QED BY <1>2 DEF D

LEMMA StatNames ==
    {"delete", "delete_compiled", "read", "read_compiled", "compile"} = DOMAIN NoStats
BY DEF NoStats

LEMMA BookedInit == Init => BookedInv
<1> SUFFICES ASSUME Init PROVE BookedInv
  OBVIOUS
<1>1. options \in Options /\ options.initial_dirs \in Nat
  BY OptionsAssumption DEF Init
<1>2. Apart /\ Creating /\ ObjectsThere
  BY FS_EmptySet DEF Init, Apart, Creating, ObjectsThere, CompiledDirs, AllDirs
<1>3. tree \in [Names -> [Classes -> Sizes]]
  BY DataSets DEF Init
<1>4. stats \in [DOMAIN NoStats -> Nat]
  BY DEF Init, NoStats
<1>5. TypeOK
  BY <1>1, <1>3, <1>4, NamesAssumption DEF Init, TypeOK
<1> QED BY <1>1, <1>2, <1>5 DEF BookedInv

LEMMA ExactInit == Init /\ Leftovers = {} => Exact
BY DEF Init, Exact

LEMMA BookedNext == BookedInv /\ [Next]_vars => BookedInv'
<1> SUFFICES ASSUME BookedInv, [Next]_vars PROVE BookedInv'
  OBVIOUS
<1>0. /\ options \in Options /\ TypeOK /\ Apart /\ Creating /\ ObjectsThere
      /\ tree \in [Names -> [Classes -> Sizes]] /\ stats \in [DOMAIN NoStats -> Nat]
      /\ options.initial_dirs \in Nat
      /\ patched_dirs \subseteq Names /\ unpatched_dirs \subseteq Names
      /\ unpatched_compiled_dirs \subseteq Names /\ patched_compiled_dirs \subseteq Names
  BY OptionsAssumption DEF BookedInv, TypeOK
<1>1. CASE CreateInitial
  <2>1. /\ phase = "create" /\ x < options.initial_dirs /\ run_directory(x, unpatched, "unpatched", FALSE)
        /\ exists' = exists \cup {x} /\ unpatched_dirs' = unpatched_dirs \cup {x} /\ x' = x + 1
        /\ UNCHANGED <<options, phase, total_runs, patched_dirs, unpatched_compiled_dirs,
                       patched_compiled_dirs, stats>>
    BY <1>1 DEF CreateInitial
  <2>2. x \in Nat /\ x \in Names /\ x + 1 \in 0 .. options.initial_dirs
    <3>1. x \in 0 .. options.initial_dirs
      BY <1>0 DEF TypeOK
    <3>2. x \in 0 .. options.initial_dirs - 1 /\ x + 1 \in 0 .. options.initial_dirs /\ x \in Nat
      BY <1>0, <2>1, <3>1
    <3> QED BY <1>0, <3>2 DEF Names, InitialNames
  <2>3. /\ tree' \in [Names -> [Classes -> Sizes]]
        /\ \A e \in Names \ {x} : tree'[e] = tree[e]
    BY <1>0, <2>1, <2>2, RunDirectory DEF Versions
  <2>4. /\ patched_dirs = {} /\ unpatched_compiled_dirs = {} /\ patched_compiled_dirs = {}
        /\ \A d \in unpatched_dirs : d < x
        /\ \A d \in exists : d < x \/ d \in Leftovers
    BY <1>0, <2>1 DEF Creating
  <2>5. Apart'
    BY <1>0, <2>1, <2>4, HashStays DEF Apart, AllDirs, CompiledDirs
  <2>6. exists \subseteq Names /\ Names \subseteq Nat
    <3>1. InitialNames \subseteq Nat
      <4> SUFFICES ASSUME NEW o \in Options, NEW d \in 0 .. o.initial_dirs - 1
                   PROVE  d \in Nat
        BY DEF InitialNames
      <4>1. o.initial_dirs \in Nat
        BY OptionsAssumption
      <4> QED BY <4>1
    <3> QED BY <1>0, <3>1, NamesAssumption DEF TypeOK, Names
  <2>7. Creating'
    <3>1. \A d \in Nat : d < x \/ d = x => d < x + 1
      BY <2>2
    <3> QED BY <1>0, <2>1, <2>4, <2>6, <3>1 DEF Creating
  <2>8. ObjectsThere'
    BY <2>1, <2>4 DEF ObjectsThere
  <2> QED BY <1>0, <2>1, <2>2, <2>3, <2>5, <2>6, <2>7, <2>8 DEF BookedInv, TypeOK
<1>2. CASE InitialCreated
  <2>1. UNCHANGED <<options, x, total_runs, hashes, exists, tree, stats>>
        /\ phase' \in {"compile", "ops", "done"}
    BY <1>2 DEF InitialCreated, AfterCreate
  <2> QED BY <1>0, <2>1 DEF hashes, BookedInv, TypeOK, Apart, AllDirs, CompiledDirs, Creating,
                            ObjectsThere, FindsAll
<1>3. ASSUME NEW d \in Names, create_one_dir(d) PROVE BookedInv'
  <2>1. /\ phase = "ops" /\ d \notin exists /\ run_directory(d, unpatched, "unpatched", FALSE)
        /\ exists' = exists \cup {d} /\ unpatched_dirs' = unpatched_dirs \cup {d} /\ CountRun
        /\ UNCHANGED <<options, x, patched_dirs, unpatched_compiled_dirs,
                       patched_compiled_dirs, stats>>
    BY <1>3 DEF create_one_dir
  <2>2. /\ tree' \in [Names -> [Classes -> Sizes]]
        /\ \A e \in Names \ {d} : tree'[e] = tree[e]
    BY <1>0, <2>1, RunDirectory DEF Versions
  <2>3. total_runs' \in Nat /\ phase' \in {phase, "done"}
    BY <1>0, <2>1, CountRunTypes
  <2>4. Apart'
    BY <1>0, <2>1, HashStays DEF Apart, AllDirs, CompiledDirs
  <2>5. d \notin AllDirs
    BY <1>0, <2>1 DEF Apart
  <2>6. ObjectsThere'
    BY <1>0, <2>1, <2>2, <2>3, <2>5 DEF ObjectsThere, FindsAll, AllDirs
  <2>7. Creating'
    BY <2>1, <2>3 DEF Creating
  <2> QED BY <1>0, <2>1, <2>2, <2>3, <2>4, <2>6, <2>7 DEF BookedInv, TypeOK
<1>4. ASSUME NEW d \in Names, PatchUnpatched(d) PROVE BookedInv'
  <2>1. /\ phase \in {"ops"} /\ d \in unpatched_dirs /\ run_directory(d, patched, "patched", TRUE)
        /\ unpatched_dirs' = unpatched_dirs \ {d} /\ patched_dirs' = patched_dirs \cup {d}
        /\ CountRun /\ UNCHANGED <<options, x, unpatched_compiled_dirs, patched_compiled_dirs, exists>>
        /\ UNCHANGED stats
    BY <1>4 DEF PatchUnpatched
  <2>2. /\ tree' \in [Names -> [Classes -> Sizes]]
        /\ tree'[d] = Written(tree[d], patched, "patched", TRUE)
        /\ \A e \in Names \ {d} : tree'[e] = tree[e]
    BY <1>0, <2>1, RunDirectory DEF Versions
  <2>6. total_runs' \in Nat /\ phase' \in {phase, "done"}
    BY <1>0, <2>1, CountRunTypes
  <2>3. Apart'
    BY <1>0, <2>1, HashStays DEF Apart, AllDirs, CompiledDirs
  <2>5. ObjectsThere'
    BY <1>0, <2>1, <2>2, <2>6 DEF ObjectsThere, FindsAll, Apart, CompiledDirs
  <2>7. Creating'
    BY <2>1, <2>6 DEF Creating
  <2>8. stats' \in [DOMAIN NoStats -> Nat]
    BY <1>0, <2>1
  <2> QED BY <1>0, <2>1, <2>2, <2>3, <2>5, <2>6, <2>7, <2>8 DEF BookedInv, TypeOK
<1>5. ASSUME NEW d \in Names, PatchCompiled(d) PROVE BookedInv'
  <2>1. /\ phase \in {"ops"} /\ d \in unpatched_compiled_dirs /\ run_directory(d, compiled, "patched", TRUE)
        /\ unpatched_compiled_dirs' = unpatched_compiled_dirs \ {d} /\ patched_compiled_dirs' = patched_compiled_dirs \cup {d}
        /\ CountRun /\ UNCHANGED <<options, x, patched_dirs, unpatched_dirs, exists>>
        /\ UNCHANGED stats
    BY <1>5 DEF PatchCompiled
  <2>2. /\ tree' \in [Names -> [Classes -> Sizes]]
        /\ tree'[d] = Written(tree[d], compiled, "patched", TRUE)
        /\ \A e \in Names \ {d} : tree'[e] = tree[e]
    BY <1>0, <2>1, RunDirectory DEF Versions
  <2>6. total_runs' \in Nat /\ phase' \in {phase, "done"}
    BY <1>0, <2>1, CountRunTypes
  <2>3. Apart'
    BY <1>0, <2>1, HashStays DEF Apart, AllDirs, CompiledDirs
  <2>4. \A c \in compiled : tree'[d][c] # "absent"
    BY <2>1, <2>2, DataSets DEF Written
  <2>5. ObjectsThere'
    BY <1>0, <2>1, <2>2, <2>4, <2>6 DEF ObjectsThere, FindsAll, Apart, CompiledDirs
  <2>7. Creating'
    BY <2>1, <2>6 DEF Creating
  <2>8. stats' \in [DOMAIN NoStats -> Nat]
    BY <1>0, <2>1
  <2> QED BY <1>0, <2>1, <2>2, <2>3, <2>5, <2>6, <2>7, <2>8 DEF BookedInv, TypeOK
<1>6. ASSUME NEW d \in Names, CompileUnpatched(d) PROVE BookedInv'
  <2>1. /\ phase \in {"ops", "compile"} /\ d \in unpatched_dirs /\ run_directory(d, unpatched_compiled, "unpatched", FALSE)
        /\ unpatched_dirs' = unpatched_dirs \ {d} /\ unpatched_compiled_dirs' = unpatched_compiled_dirs \cup {d}
        /\ CountRun /\ UNCHANGED <<options, x, patched_dirs, patched_compiled_dirs, exists>>
        /\ Bump("compile")
    BY <1>6 DEF CompileUnpatched
  <2>2. /\ tree' \in [Names -> [Classes -> Sizes]]
        /\ tree'[d] = Written(tree[d], unpatched_compiled, "unpatched", FALSE)
        /\ \A e \in Names \ {d} : tree'[e] = tree[e]
    BY <1>0, <2>1, RunDirectory DEF Versions
  <2>6. total_runs' \in Nat /\ phase' \in {phase, "done"}
    BY <1>0, <2>1, CountRunTypes
  <2>3. Apart'
    BY <1>0, <2>1, HashStays DEF Apart, AllDirs, CompiledDirs
  <2>4. \A c \in unpatched_compiled : tree'[d][c] # "absent"
    BY <2>1, <2>2, DataSets DEF Written
  <2>5. ObjectsThere'
    BY <1>0, <2>1, <2>2, <2>4, <2>6 DEF ObjectsThere, FindsAll, Apart, CompiledDirs
  <2>7. Creating'
    BY <2>1, <2>6 DEF Creating
  <2>8. stats' \in [DOMAIN NoStats -> Nat]
    BY <1>0, <2>1, BumpTypes, StatNames
  <2> QED BY <1>0, <2>1, <2>2, <2>3, <2>5, <2>6, <2>7, <2>8 DEF BookedInv, TypeOK
<1>7. ASSUME NEW d \in Names, CompilePatched(d) PROVE BookedInv'
  <2>1. /\ phase \in {"ops", "compile"} /\ d \in patched_dirs /\ run_directory(d, compiled, "patched", FALSE)
        /\ patched_dirs' = patched_dirs \ {d} /\ patched_compiled_dirs' = patched_compiled_dirs \cup {d}
        /\ CountRun /\ UNCHANGED <<options, x, unpatched_dirs, unpatched_compiled_dirs, exists>>
        /\ Bump("compile")
    BY <1>7 DEF CompilePatched
  <2>2. /\ tree' \in [Names -> [Classes -> Sizes]]
        /\ tree'[d] = Written(tree[d], compiled, "patched", FALSE)
        /\ \A e \in Names \ {d} : tree'[e] = tree[e]
    BY <1>0, <2>1, RunDirectory DEF Versions
  <2>6. total_runs' \in Nat /\ phase' \in {phase, "done"}
    BY <1>0, <2>1, CountRunTypes
  <2>3. Apart'
    BY <1>0, <2>1, HashStays DEF Apart, AllDirs, CompiledDirs
  <2>4. \A c \in compiled : tree'[d][c] # "absent"
    BY <2>1, <2>2, DataSets DEF Written
  <2>5. ObjectsThere'
    BY <1>0, <2>1, <2>2, <2>4, <2>6 DEF ObjectsThere, FindsAll, Apart, CompiledDirs
  <2>7. Creating'
    BY <2>1, <2>6 DEF Creating
  <2>8. stats' \in [DOMAIN NoStats -> Nat]
    BY <1>0, <2>1, BumpTypes, StatNames
  <2> QED BY <1>0, <2>1, <2>2, <2>3, <2>5, <2>6, <2>7, <2>8 DEF BookedInv, TypeOK
<1>8. ASSUME NEW d \in Names, CleanUnpatched(d) PROVE BookedInv'
  <2>1. /\ phase \in {"ops"} /\ d \in unpatched_compiled_dirs /\ clean_directory(d, unpatched_compiled)
        /\ unpatched_compiled_dirs' = unpatched_compiled_dirs \ {d} /\ unpatched_dirs' = unpatched_dirs \cup {d}
        /\ CountRun /\ UNCHANGED <<options, x, patched_dirs, patched_compiled_dirs, exists>>
        /\ UNCHANGED stats
    BY <1>8, <1>0 DEF CleanUnpatched, ObjectsThere
  <2>2. /\ tree' \in [Names -> [Classes -> Sizes]]
        /\ \A e \in Names \ {d} : tree'[e] = tree[e]
    BY <1>0, <2>1, CleanDirectory
  <2>6. total_runs' \in Nat /\ phase' \in {phase, "done"}
    BY <1>0, <2>1, CountRunTypes
  <2>3. Apart'
    BY <1>0, <2>1, HashStays DEF Apart, AllDirs, CompiledDirs
  <2>5. ObjectsThere'
    BY <1>0, <2>1, <2>2, <2>6 DEF ObjectsThere, FindsAll, Apart, CompiledDirs
  <2>7. Creating'
    BY <2>1, <2>6 DEF Creating
  <2>8. stats' \in [DOMAIN NoStats -> Nat]
    BY <1>0, <2>1
  <2> QED BY <1>0, <2>1, <2>2, <2>3, <2>5, <2>6, <2>7, <2>8 DEF BookedInv, TypeOK
<1>9. ASSUME NEW d \in Names, CleanPatched(d) PROVE BookedInv'
  <2>1. /\ phase \in {"ops"} /\ d \in patched_compiled_dirs /\ clean_directory(d, compiled)
        /\ patched_compiled_dirs' = patched_compiled_dirs \ {d} /\ patched_dirs' = patched_dirs \cup {d}
        /\ CountRun /\ UNCHANGED <<options, x, unpatched_dirs, unpatched_compiled_dirs, exists>>
        /\ UNCHANGED stats
    BY <1>9, <1>0 DEF CleanPatched, ObjectsThere
  <2>2. /\ tree' \in [Names -> [Classes -> Sizes]]
        /\ \A e \in Names \ {d} : tree'[e] = tree[e]
    BY <1>0, <2>1, CleanDirectory
  <2>6. total_runs' \in Nat /\ phase' \in {phase, "done"}
    BY <1>0, <2>1, CountRunTypes
  <2>3. Apart'
    BY <1>0, <2>1, HashStays DEF Apart, AllDirs, CompiledDirs
  <2>5. ObjectsThere'
    BY <1>0, <2>1, <2>2, <2>6 DEF ObjectsThere, FindsAll, Apart, CompiledDirs
  <2>7. Creating'
    BY <2>1, <2>6 DEF Creating
  <2>8. stats' \in [DOMAIN NoStats -> Nat]
    BY <1>0, <2>1
  <2> QED BY <1>0, <2>1, <2>2, <2>3, <2>5, <2>6, <2>7, <2>8 DEF BookedInv, TypeOK
<1>10. ASSUME NEW d \in Names, delete_one_dir(d) PROVE BookedInv'
  <2>1. /\ phase \in {"ops", "delete"} /\ tree' = [tree EXCEPT ![d] = Empty] /\ CountRun
        /\ UNCHANGED <<options, x, exists>>
        /\ Bump("delete") \/ Bump("delete_compiled")
    BY <1>10 DEF delete_one_dir, DeleteFrom
  <2>2. /\ patched_dirs' \in {patched_dirs, patched_dirs \ {d}}
        /\ unpatched_dirs' \in {unpatched_dirs, unpatched_dirs \ {d}}
        /\ unpatched_compiled_dirs' \in {unpatched_compiled_dirs, unpatched_compiled_dirs \ {d}}
        /\ patched_compiled_dirs' \in {patched_compiled_dirs, patched_compiled_dirs \ {d}}
        /\ d \notin AllDirs'
    <3>1. \/ /\ d \in patched_dirs /\ patched_dirs' = patched_dirs \ {d}
             /\ UNCHANGED <<unpatched_dirs, unpatched_compiled_dirs, patched_compiled_dirs>>
          \/ /\ d \in unpatched_dirs /\ unpatched_dirs' = unpatched_dirs \ {d}
             /\ UNCHANGED <<patched_dirs, unpatched_compiled_dirs, patched_compiled_dirs>>
          \/ /\ d \in unpatched_compiled_dirs
             /\ unpatched_compiled_dirs' = unpatched_compiled_dirs \ {d}
             /\ UNCHANGED <<patched_dirs, unpatched_dirs, patched_compiled_dirs>>
          \/ /\ d \in patched_compiled_dirs
             /\ patched_compiled_dirs' = patched_compiled_dirs \ {d}
             /\ UNCHANGED <<patched_dirs, unpatched_dirs, unpatched_compiled_dirs>>
      BY <1>10 DEF delete_one_dir, DeleteFrom
    <3>2. Apart
      BY <1>0
    <3> QED BY <3>1, <3>2 DEF Apart, AllDirs, CompiledDirs
  <2>3. /\ tree' \in [Names -> [Classes -> Sizes]]
        /\ \A e \in Names \ {d} : tree'[e] = tree[e]
    BY <1>0, <2>1, DataSets
  <2>4. total_runs' \in Nat /\ phase' \in {phase, "done"}
    BY <1>0, <2>1, CountRunTypes
  <2>5. stats' \in [DOMAIN NoStats -> Nat]
    BY <1>0, <2>1, BumpTypes, StatNames
  <2>6. Apart'
    <3>1. Apart
      BY <1>0
    <3>2. /\ patched_dirs' \subseteq patched_dirs /\ unpatched_dirs' \subseteq unpatched_dirs
          /\ unpatched_compiled_dirs' \subseteq unpatched_compiled_dirs
          /\ patched_compiled_dirs' \subseteq patched_compiled_dirs
      BY <2>2
    <3>3. IsFiniteSet(patched_dirs') /\ IsFiniteSet(unpatched_dirs')
      BY <3>1, <3>2, FS_Subset DEF Apart
    <3>4. IsFiniteSet(unpatched_compiled_dirs') /\ IsFiniteSet(patched_compiled_dirs')
      BY <3>1, <3>2, FS_Subset DEF Apart
    <3> QED BY <2>1, <3>1, <3>2, <3>3, <3>4 DEF Apart, AllDirs, CompiledDirs
  <2>7. ObjectsThere'
    BY <1>0, <2>1, <2>2, <2>3, <2>4 DEF ObjectsThere, FindsAll, AllDirs
  <2>8. Creating'
    BY <2>1, <2>4 DEF Creating
  <2> QED BY <1>0, <2>1, <2>2, <2>3, <2>4, <2>5, <2>6, <2>7, <2>8 DEF BookedInv, TypeOK
<1>11. CASE NoNameLeft \/ CompileEnds \/ DeleteEnds
  <2>1. UNCHANGED <<options, x, total_runs, hashes, exists, tree, stats>>
        /\ phase' \in {"searching", "read", "done"}
    BY <1>11 DEF NoNameLeft, CompileEnds, DeleteEnds
  <2> QED BY <1>0, <2>1 DEF hashes, BookedInv, TypeOK, Apart, AllDirs, CompiledDirs, Creating,
                            ObjectsThere, FindsAll
<1>12. CASE Read \/ ReadMakej
  <2>1. /\ UNCHANGED <<options, x, hashes, exists, tree>>
        /\ stats' = stats \/ Bump("read") \/ Bump("read_compiled")
    BY <1>12 DEF Read, ReadMakej, read_one_dir
  <2>2. total_runs' \in Nat /\ phase' \in {"ops", "read", "delete", "done"}
    <3>1. CASE Read
      BY <1>0, <3>1, CountRunTypes DEF Read
    <3>2. CASE ReadMakej
      BY <1>0, <3>2 DEF ReadMakej, TypeOK
    <3> QED BY <1>12, <3>1, <3>2
  <2>3. stats' \in [DOMAIN NoStats -> Nat]
    BY <1>0, <2>1, BumpTypes, StatNames
  <2> QED BY <1>0, <2>1, <2>2, <2>3 DEF hashes, BookedInv, TypeOK, Apart, AllDirs, CompiledDirs,
                            Creating, ObjectsThere, FindsAll
<1>13. CASE UNCHANGED vars
  BY <1>0, <1>13 DEF vars, hashes, BookedInv, TypeOK, Apart, AllDirs, CompiledDirs, Creating,
                     ObjectsThere, FindsAll
<1> QED BY <1>1, <1>2, <1>3, <1>4, <1>5, <1>6, <1>7, <1>8, <1>9, <1>10, <1>11, <1>12, <1>13
        DEF Next, Stopped

\* A step changes no tree but one, and that is booked in a hash that fits.
LEMMA OneTreeExact ==
    ASSUME BookedInv, BookedInv', Exact, NEW d \in Names,
           \A e \in Names \ {d} :
              /\ tree'[e] = tree[e]
              /\ e \in exists' <=> e \in exists
              /\ e \in patched_dirs' => e \in patched_dirs
              /\ e \in unpatched_dirs' => e \in unpatched_dirs
              /\ e \in unpatched_compiled_dirs' => e \in unpatched_compiled_dirs
              /\ e \in patched_compiled_dirs' => e \in patched_compiled_dirs,
           d \in exists',
           d \in unpatched_dirs' => tree'[d] = Untarred,
           d \in unpatched_compiled_dirs' => tree'[d] = UnpatchedCompiled,
           d \in patched_dirs' => \A c \in compiled : tree'[d][c] = "absent",
           d \in patched_dirs' \cup patched_compiled_dirs' =>
              \A c \in Classes : tree'[d][c] # "appended"
    PROVE  Exact'
<1>1. /\ patched_dirs' \subseteq Names /\ unpatched_dirs' \subseteq Names
      /\ unpatched_compiled_dirs' \subseteq Names /\ patched_compiled_dirs' \subseteq Names
  BY DEF BookedInv, TypeOK
<1>2. ASSUME NEW e \in Names
      PROVE  /\ e \notin exists' => tree'[e] = Empty
             /\ e \in unpatched_dirs' => tree'[e] = Untarred
             /\ e \in unpatched_compiled_dirs' => tree'[e] = UnpatchedCompiled
             /\ e \in patched_dirs' => \A c \in compiled : tree'[e][c] = "absent"
             /\ e \in patched_dirs' \cup patched_compiled_dirs' =>
                   \A c \in Classes : tree'[e][c] # "appended"
  <2>1. CASE e = d
    BY <2>1
  <2>2. CASE e # d
    BY <2>2 DEF Exact
  <2> QED BY <2>1, <2>2
<1> QED BY <1>1, <1>2 DEF Exact

LEMMA ExactNext ==
    ASSUME BookedInv, BookedInv', Exact, Leftovers = {}, [Next]_vars
    PROVE  Exact'
<1>0. /\ TypeOK /\ Apart /\ Creating /\ ObjectsThere
      /\ tree \in [Names -> [Classes -> Sizes]]
      /\ options.initial_dirs \in Nat
  BY OptionsAssumption DEF BookedInv, TypeOK
<1>a. Written(Empty, unpatched, "unpatched", FALSE) = Untarred
  BY DEF Written, Empty, Untarred
<1>1. CASE CreateInitial
  <2>1. /\ phase = "create" /\ x < options.initial_dirs /\ run_directory(x, unpatched, "unpatched", FALSE)
        /\ exists' = exists \cup {x} /\ unpatched_dirs' = unpatched_dirs \cup {x}
        /\ UNCHANGED <<options, patched_dirs, unpatched_compiled_dirs, patched_compiled_dirs>>
        /\ patched_dirs = {} /\ patched_compiled_dirs = {} /\ unpatched_compiled_dirs = {}
        /\ \A d \in exists : d < x
    BY <1>0, <1>1 DEF CreateInitial, Creating
  <2>2. x \in Nat /\ x \in Names
    <3>1. x \in 0 .. options.initial_dirs /\ options \in Options
      BY <1>0 DEF TypeOK, BookedInv
    <3>2. x \in 0 .. options.initial_dirs - 1 /\ x \in Nat
      BY <1>0, <2>1, <3>1
    <3> QED BY <1>0, <3>1, <3>2 DEF Names, InitialNames
  <2>3. tree[x] = Empty
    <3>1. x \notin exists
      BY <2>1, <2>2
    <3> QED BY <2>2, <3>1 DEF Exact
  <2>4. /\ tree'[x] = Written(tree[x], unpatched, "unpatched", FALSE)
        /\ \A e \in Names \ {x} : tree'[e] = tree[e]
    BY <1>0, <2>1, <2>2, RunDirectory DEF Versions
  <2> QED BY <1>a, <2>1, <2>2, <2>3, <2>4, OneTreeExact
<1>2. CASE InitialCreated \/ NoNameLeft \/ CompileEnds \/ DeleteEnds \/ Read \/ ReadMakej
  BY <1>2 DEF InitialCreated, NoNameLeft, CompileEnds, DeleteEnds, Read, ReadMakej,
              read_one_dir, hashes, Exact
<1>3. ASSUME NEW d \in Names, create_one_dir(d) PROVE Exact'
  <2>1. /\ d \notin exists /\ run_directory(d, unpatched, "unpatched", FALSE)
        /\ exists' = exists \cup {d} /\ unpatched_dirs' = unpatched_dirs \cup {d}
        /\ UNCHANGED <<patched_dirs, unpatched_compiled_dirs, patched_compiled_dirs>>
    BY <1>3 DEF create_one_dir
  <2>2. /\ tree'[d] = Written(tree[d], unpatched, "unpatched", FALSE)
        /\ \A e \in Names \ {d} : tree'[e] = tree[e]
    BY <1>0, <2>1, RunDirectory DEF Versions
  <2>3. tree[d] = Empty /\ d \notin AllDirs
    BY <1>0, <2>1 DEF Exact, Apart
  <2> QED BY <1>a, <2>1, <2>2, <2>3, OneTreeExact DEF AllDirs
<1>4. ASSUME NEW d \in Names, PatchUnpatched(d) PROVE Exact'
  <2>1. /\ d \in unpatched_dirs /\ run_directory(d, patched, "patched", TRUE)
        /\ unpatched_dirs' = unpatched_dirs \ {d} /\ patched_dirs' = patched_dirs \cup {d}
        /\ UNCHANGED <<unpatched_compiled_dirs, patched_compiled_dirs, exists>>
    BY <1>0, <1>4 DEF PatchUnpatched, ObjectsThere
  <2>2. tree[d] = Untarred
    BY <2>1 DEF Exact
  <2>3. /\ tree'[d] = Written(tree[d], patched, "patched", TRUE)
        /\ \A e \in Names \ {d} : tree'[e] = tree[e]
    BY <1>0, <2>1, RunDirectory DEF Versions
  <2>4. (\A c \in compiled : tree'[d][c] = "absent") /\ \A c \in Classes : tree'[d][c] # "appended"
    BY <2>2, <2>3 DEF Written, Untarred, UnpatchedCompiled, Classes, Sources, Objects,
       unpatched, patched, unpatched_compiled, compiled
  <2>5. d \in exists
    BY <1>0, <2>1 DEF Apart, AllDirs
  <2>6. d \notin unpatched_dirs' /\ d \notin unpatched_compiled_dirs' /\ d \notin patched_compiled_dirs'
    BY <1>0, <2>1 DEF Apart, CompiledDirs
  <2> QED BY <2>1, <2>3, <2>4, <2>5, <2>6, OneTreeExact
<1>5. ASSUME NEW d \in Names, PatchCompiled(d) PROVE Exact'
  <2>1. /\ d \in unpatched_compiled_dirs /\ run_directory(d, compiled, "patched", TRUE)
        /\ unpatched_compiled_dirs' = unpatched_compiled_dirs \ {d} /\ patched_compiled_dirs' = patched_compiled_dirs \cup {d}
        /\ UNCHANGED <<patched_dirs, unpatched_dirs, exists>>
    BY <1>0, <1>5 DEF PatchCompiled, ObjectsThere
  <2>2. tree[d] = UnpatchedCompiled
    BY <2>1 DEF Exact
  <2>3. /\ tree'[d] = Written(tree[d], compiled, "patched", TRUE)
        /\ \A e \in Names \ {d} : tree'[e] = tree[e]
    BY <1>0, <2>1, RunDirectory DEF Versions
  <2>4. \A c \in Classes : tree'[d][c] # "appended"
    BY <2>2, <2>3 DEF Written, Untarred, UnpatchedCompiled, Classes, Sources, Objects,
       unpatched, patched, unpatched_compiled, compiled
  <2>5. d \in exists
    BY <1>0, <2>1 DEF Apart, AllDirs
  <2>6. d \notin patched_dirs' /\ d \notin unpatched_dirs' /\ d \notin unpatched_compiled_dirs'
    BY <1>0, <2>1 DEF Apart, CompiledDirs
  <2> QED BY <2>1, <2>3, <2>4, <2>5, <2>6, OneTreeExact
<1>6. ASSUME NEW d \in Names, CompileUnpatched(d) PROVE Exact'
  <2>1. /\ d \in unpatched_dirs /\ run_directory(d, unpatched_compiled, "unpatched", FALSE)
        /\ unpatched_dirs' = unpatched_dirs \ {d} /\ unpatched_compiled_dirs' = unpatched_compiled_dirs \cup {d}
        /\ UNCHANGED <<patched_dirs, patched_compiled_dirs, exists>>
    BY <1>0, <1>6 DEF CompileUnpatched, ObjectsThere
  <2>2. tree[d] = Untarred
    BY <2>1 DEF Exact
  <2>3. /\ tree'[d] = Written(tree[d], unpatched_compiled, "unpatched", FALSE)
        /\ \A e \in Names \ {d} : tree'[e] = tree[e]
    BY <1>0, <2>1, RunDirectory DEF Versions
  <2>4. tree'[d] = UnpatchedCompiled
    BY <2>2, <2>3 DEF Written, Untarred, UnpatchedCompiled, Classes, Sources, Objects,
       unpatched, patched, unpatched_compiled, compiled
  <2>5. d \in exists
    BY <1>0, <2>1 DEF Apart, AllDirs
  <2>6. d \notin patched_dirs' /\ d \notin unpatched_dirs' /\ d \notin patched_compiled_dirs'
    BY <1>0, <2>1 DEF Apart, CompiledDirs
  <2> QED BY <2>1, <2>3, <2>4, <2>5, <2>6, OneTreeExact
<1>7. ASSUME NEW d \in Names, CompilePatched(d) PROVE Exact'
  <2>1. /\ d \in patched_dirs /\ run_directory(d, compiled, "patched", FALSE)
        /\ patched_dirs' = patched_dirs \ {d} /\ patched_compiled_dirs' = patched_compiled_dirs \cup {d}
        /\ UNCHANGED <<unpatched_dirs, unpatched_compiled_dirs, exists>>
    BY <1>0, <1>7 DEF CompilePatched, ObjectsThere
  <2>2. (\A c \in compiled : tree[d][c] = "absent") /\ \A c \in Classes : tree[d][c] # "appended"
    BY <2>1 DEF Exact
  <2>3. /\ tree'[d] = Written(tree[d], compiled, "patched", FALSE)
        /\ \A e \in Names \ {d} : tree'[e] = tree[e]
    BY <1>0, <2>1, RunDirectory DEF Versions
  <2>4. \A c \in Classes : tree'[d][c] # "appended"
    BY <2>2, <2>3 DEF Written, Untarred, UnpatchedCompiled, Classes, Sources, Objects,
       unpatched, patched, unpatched_compiled, compiled
  <2>5. d \in exists
    BY <1>0, <2>1 DEF Apart, AllDirs
  <2>6. d \notin patched_dirs' /\ d \notin unpatched_dirs' /\ d \notin unpatched_compiled_dirs'
    BY <1>0, <2>1 DEF Apart, CompiledDirs
  <2> QED BY <2>1, <2>3, <2>4, <2>5, <2>6, OneTreeExact
<1>8. ASSUME NEW d \in Names, CleanUnpatched(d) PROVE Exact'
  <2>1. /\ d \in unpatched_compiled_dirs /\ clean_directory(d, unpatched_compiled)
        /\ unpatched_compiled_dirs' = unpatched_compiled_dirs \ {d} /\ unpatched_dirs' = unpatched_dirs \cup {d}
        /\ UNCHANGED <<patched_dirs, patched_compiled_dirs, exists>>
    BY <1>0, <1>8 DEF CleanUnpatched, ObjectsThere
  <2>2. tree[d] = UnpatchedCompiled
    BY <2>1 DEF Exact
  <2>3. /\ tree'[d] = [c \in Classes |-> IF c \in unpatched_compiled THEN "absent" ELSE tree[d][c]]
        /\ \A e \in Names \ {d} : tree'[e] = tree[e]
    BY <1>0, <2>1, CleanDirectory
  <2>4. tree'[d] = Untarred
    BY <2>2, <2>3 DEF Written, Untarred, UnpatchedCompiled, Classes, Sources, Objects,
       unpatched, patched, unpatched_compiled, compiled
  <2>5. d \in exists
    BY <1>0, <2>1 DEF Apart, AllDirs
  <2>6. d \notin patched_dirs' /\ d \notin unpatched_compiled_dirs' /\ d \notin patched_compiled_dirs'
    BY <1>0, <2>1 DEF Apart, CompiledDirs
  <2> QED BY <2>1, <2>3, <2>4, <2>5, <2>6, OneTreeExact
<1>9. ASSUME NEW d \in Names, CleanPatched(d) PROVE Exact'
  <2>1. /\ d \in patched_compiled_dirs /\ clean_directory(d, compiled)
        /\ patched_compiled_dirs' = patched_compiled_dirs \ {d} /\ patched_dirs' = patched_dirs \cup {d}
        /\ UNCHANGED <<unpatched_dirs, unpatched_compiled_dirs, exists>>
    BY <1>0, <1>9 DEF CleanPatched, ObjectsThere
  <2>2. \A c \in Classes : tree[d][c] # "appended"
    BY <2>1 DEF Exact
  <2>3. /\ tree'[d] = [c \in Classes |-> IF c \in compiled THEN "absent" ELSE tree[d][c]]
        /\ \A e \in Names \ {d} : tree'[e] = tree[e]
    BY <1>0, <2>1, CleanDirectory
  <2>4. (\A c \in compiled : tree'[d][c] = "absent") /\ \A c \in Classes : tree'[d][c] # "appended"
    BY <2>2, <2>3 DEF Written, Untarred, UnpatchedCompiled, Classes, Sources, Objects,
       unpatched, patched, unpatched_compiled, compiled
  <2>5. d \in exists
    BY <1>0, <2>1 DEF Apart, AllDirs
  <2>6. d \notin unpatched_dirs' /\ d \notin unpatched_compiled_dirs' /\ d \notin patched_compiled_dirs'
    BY <1>0, <2>1 DEF Apart, CompiledDirs
  <2> QED BY <2>1, <2>3, <2>4, <2>5, <2>6, OneTreeExact
<1>10. ASSUME NEW d \in Names, delete_one_dir(d) PROVE Exact'
  <2>1. /\ tree' = [tree EXCEPT ![d] = Empty] /\ exists' = exists
        /\ patched_dirs' \subseteq patched_dirs /\ unpatched_dirs' \subseteq unpatched_dirs
        /\ unpatched_compiled_dirs' \subseteq unpatched_compiled_dirs
        /\ patched_compiled_dirs' \subseteq patched_compiled_dirs
    BY <1>10 DEF delete_one_dir, DeleteFrom
  <2>2. d \notin AllDirs' /\ d \in exists
    BY <1>0, <1>10 DEF delete_one_dir, DeleteFrom, Apart, AllDirs, CompiledDirs
  <2>3. \A e \in Names \ {d} : tree'[e] = tree[e]
    BY <1>0, <2>1
  <2> QED BY <2>1, <2>2, <2>3, OneTreeExact DEF AllDirs
<1>11. CASE UNCHANGED vars
  BY <1>11 DEF vars, hashes, Exact
<1> QED BY <1>1, <1>2, <1>3, <1>4, <1>5, <1>6, <1>7, <1>8, <1>9, <1>10, <1>11
        DEF Next, Stopped

\* Four hashes that are apart have as many trees as there are.
LEMMA ApartCounted == Apart => HashesDisjoint
<1> SUFFICES ASSUME Apart PROVE HashesDisjoint
  OBVIOUS
<1> DEFINE pu == patched_dirs \cup unpatched_dirs
           puc == pu \cup unpatched_compiled_dirs
<1>1. \A S, T : IsFiniteSet(S) /\ IsFiniteSet(T) /\ S \cap T = {} =>
         IsFiniteSet(S \cup T) /\ Cardinality(S \cup T) = Cardinality(S) + Cardinality(T)
  <2> SUFFICES ASSUME NEW S, NEW T, IsFiniteSet(S), IsFiniteSet(T), S \cap T = {}
               PROVE  IsFiniteSet(S \cup T) /\ Cardinality(S \cup T) = Cardinality(S) + Cardinality(T)
    OBVIOUS
  <2>1. /\ IsFiniteSet(S \cup T)
        /\ Cardinality(S \cup T) = Cardinality(S) + Cardinality(T) - Cardinality(S \cap T)
    BY FS_Union
  <2>2. Cardinality(S \cap T) = 0
    BY FS_EmptySet
  <2>3. Cardinality(S) \in Nat /\ Cardinality(T) \in Nat
    BY FS_CardinalityType
  <2> QED BY <2>1, <2>2, <2>3
<1>2. IsFiniteSet(pu) /\ Cardinality(pu) = Cardinality(patched_dirs) + Cardinality(unpatched_dirs)
  BY <1>1 DEF Apart
<1>3. /\ IsFiniteSet(puc)
      /\ Cardinality(puc) = Cardinality(pu) + Cardinality(unpatched_compiled_dirs)
  <2>1. pu \cap unpatched_compiled_dirs = {} /\ IsFiniteSet(unpatched_compiled_dirs)
    BY DEF Apart, CompiledDirs
  <2> QED BY <1>1, <1>2, <2>1
<1>4. Cardinality(puc \cup patched_compiled_dirs) = Cardinality(puc) + Cardinality(patched_compiled_dirs)
  <2>1. puc \cap patched_compiled_dirs = {} /\ IsFiniteSet(patched_compiled_dirs)
    BY DEF Apart, CompiledDirs
  <2> QED BY <1>1, <1>3, <2>1
<1>5. puc \cup patched_compiled_dirs = AllDirs
  BY DEF AllDirs
<1> QED BY <1>2, <1>3, <1>4, <1>5 DEF HashesDisjoint, Apart

\* Whatever trees an earlier run has left and whatever the program does with them, it
\* never stops on a file that make clean is to remove and cannot find.
THEOREM CleanFindsAllAlways == Spec => []CleanFindsAll
<1>1. BookedInv => CleanFindsAll
  BY DEF BookedInv, ObjectsThere, CleanFindsAll
<1> QED BY <1>1, BookedInit, BookedNext, PTL DEF Spec

LEMMA ExactAlways == Leftovers = {} => (Spec => [](BookedInv /\ Exact))
<1> SUFFICES ASSUME Leftovers = {} PROVE Spec => [](BookedInv /\ Exact)
  OBVIOUS
<1>1. Init => Exact
  BY ExactInit
<1>2. BookedInv /\ BookedInv' /\ Exact /\ [Next]_vars => Exact'
  BY ExactNext
<1> QED BY <1>1, <1>2, BookedInit, BookedNext, PTL DEF Spec

\* In a working directory with no trees in it no file is ever appended to.
THEOREM SizesOfDatasetsAlways == Leftovers = {} => (Spec => []SizesOfDatasets)
<1>1. BookedInv /\ Exact => SizesOfDatasets
  <2> SUFFICES ASSUME BookedInv, Exact, NEW d \in AllDirs, NEW c \in Classes
               PROVE  tree[d][c] # "appended"
    BY DEF SizesOfDatasets, BookedInv
  <2> QED BY DEF Exact, AllDirs, Untarred, UnpatchedCompiled
<1>2. Leftovers = {} => (Spec => [](BookedInv /\ Exact))
  BY ExactAlways
<1> QED BY <1>1, <1>2, PTL

\* And a tree booked as unpatched is just that, file for file, and is booked once.
THEOREM UnpatchedExactAlways == Leftovers = {} => (Spec => []UnpatchedExact)
<1>1. BookedInv /\ Exact => UnpatchedExact
  BY ApartCounted DEF BookedInv, Exact, UnpatchedExact, UnpatchedCompiled
<1>2. Leftovers = {} => (Spec => [](BookedInv /\ Exact))
  BY ExactAlways
<1> QED BY <1>1, <1>2, PTL
=============================================================================

----------------------------- MODULE ToolsProofs -----------------------------
(***************************************************************************)
(* The theorems about the small programs and scripts, each for any number  *)
(* of processes, files or commits: what becomes of changes of an inode's   *)
(* flags, and which files are tried; the programs that own what they have  *)
(* made because no other could make it; the commits that are checked out   *)
(* although the machine crashes; why a deleter that has picked a snapshot  *)
(* may find it gone; that a sparse copy is exact; and that fiemap-test     *)
(* raises no false alarm, and what it lets pass is mapped.                 *)
(***************************************************************************)
EXTENDS InodeFlags, SparseCp, CreatUnlink, Syncperf, SlowRm, GitAging, FullCheckout, SnapDir,
        FiemapTest, FiniteSetTheorems, SequenceTheorems, TLAPS

-----------------------------------------------------------------------------
(* InodeFlags: fileflags, nocow and nocomp.                                *)

FlagsPlaces == {"start", "open", "get", "set"} \cup FlagsEnded

Typed ==
    /\ inode \in [Inodes -> SUBSET Flags] /\ wanted \in [Inodes -> SUBSET Flags]
    /\ fflags \in [Runs -> SUBSET Flags]
    /\ fpc \in [Runs -> FlagsPlaces] /\ DOMAIN arg = Runs

\* A program that has a file open works on one there is, and what it has read is up to
\* date for as long as the history says so.
AtFile(r) ==
    /\ fpc[r] \in {"get", "set"} => FileArg(r) \in Inodes
    /\ fpc[r] = "set" /\ r \in fresh => fflags[r] = inode[FileArg(r)]

Unnamed(x) == \A r \in Runs : x \notin to_set(r) \cup to_unset(r)

\* A flag nobody names is the same wherever it stands.
Same(x) ==
    /\ \A f \in Inodes : x \in inode[f] <=> x \in wanted[f]
    /\ \A r \in Runs : fpc[r] = "set" => (x \in fflags[r] <=> x \in inode[FileArg(r)])

FlagsInv ==
    /\ Typed
    /\ \A r \in Runs : AtFile(r)
    /\ \A f \in Inodes : f \notin torn => inode[f] = wanted[f]
    /\ \A x \in Flags : Unnamed(x) => Same(x)

LEMMA FlagsInitInv == FlagsInit => FlagsInv
<1> SUFFICES ASSUME FlagsInit PROVE FlagsInv
  OBVIOUS
<1>1. /\ inode \in [Inodes -> SUBSET Flags] /\ wanted = inode
      /\ fpc = [r \in Runs |-> "start"] /\ arg = [r \in Runs |-> 1]
      /\ fflags = [r \in Runs |-> {}]
  BY Zenon DEF FlagsInit
<1> QED
  BY <1>1 DEF FlagsInv, Typed, FlagsPlaces, AtFile, Same

\* What a program is to change is a set of flags, and stays what it is.
LEMMA ToChange ==
    ASSUME NEW r \in Runs PROVE to_set(r) \subseteq Flags
  BY FlagsAssumption DEF to_set, Named

LEMMA CallStays ==
    ASSUME call' = call
    PROVE  /\ \A r : to_set(r)' = to_set(r) /\ to_unset(r)' = to_unset(r)
           /\ \A x : Unnamed(x)' <=> Unnamed(x)
           /\ \A r : arg'[r] = arg[r] => FileArg(r)' = FileArg(r)
<1>1. \A r : ArgsOf(r)' = ArgsOf(r)
  BY DEF ArgsOf
<1>2. \A r : to_set(r)' = to_set(r) /\ to_unset(r)' = to_unset(r)
  BY DEF to_set, to_unset, Named, Options, IsOption, ArgsOf
<1> QED
  BY <1>1, <1>2 DEF Unnamed, FileArg

\* A step of r that touches no flags, whether it reads or tries the next file.
LEMMA QuietStep ==
    ASSUME FlagsInv, NEW r \in Runs,
           call' = call, inode' = inode, wanted' = wanted, fflags' = fflags,
           fresh' = fresh, torn' = torn,
           \A q \in Runs \ {r} : fpc'[q] = fpc[q] /\ arg'[q] = arg[q],
           fpc' \in [Runs -> FlagsPlaces], DOMAIN arg' = Runs,
           fpc'[r] # "set", fpc'[r] = "get" => FileArg(r)' \in Inodes
    PROVE  FlagsInv'
<1>1. Typed'
  BY DEF FlagsInv, Typed
<1>2. ASSUME NEW q \in Runs PROVE AtFile(q)'
  <2>1. CASE q = r
    BY <2>1 DEF AtFile
  <2>2. CASE q # r
    BY <2>2, CallStays DEF FlagsInv, AtFile
  <2> QED
    BY <2>1, <2>2
<1>3. ASSUME NEW x \in Flags, Unnamed(x)' PROVE Same(x)'
  <2>1. Same(x)
    BY <1>3, CallStays DEF FlagsInv
  <2>2. ASSUME NEW q \in Runs, fpc'[q] = "set"
        PROVE  x \in fflags'[q] <=> x \in inode'[FileArg(q)']
    BY <2>1, <2>2, CallStays DEF Same
  <2> QED
    BY <2>1, <2>2 DEF Same
<1> QED
  BY <1>1, <1>2, <1>3 DEF FlagsInv

\* What NextFile does, whether or not the program could work on the last one.
LEMMA NextFileStep ==
    ASSUME FlagsInv, NEW r \in Runs, NEW ok, NextFile(r, ok)
    PROVE  /\ \A q \in Runs \ {r} : fpc'[q] = fpc[q] /\ arg'[q] = arg[q]
           /\ fpc' \in [Runs -> FlagsPlaces] /\ DOMAIN arg' = Runs
           /\ fpc'[r] \in {"open"} \cup FlagsEnded
<1>1. CASE call[r].name = "fileflags"
  BY <1>1 DEF FlagsInv, Typed, NextFile, FlagsGoTo, FlagsPlaces, FlagsEnded
<1>2. CASE call[r].name # "fileflags"
  <2>1. arg' = arg /\ \E place \in FlagsEnded : fpc' = [fpc EXCEPT ![r] = place]
    BY <1>2, Zenon DEF NextFile, FlagsGoTo, FlagsEnded
  <2> QED
    BY <2>1 DEF FlagsInv, Typed, FlagsPlaces, FlagsEnded
<1> QED
  BY <1>1, <1>2

LEMMA FlagsStepInv == FlagsInv /\ [FlagsNext]_flagsVars => FlagsInv'
<1> SUFFICES ASSUME FlagsInv, [FlagsNext]_flagsVars PROVE FlagsInv'
  OBVIOUS
<1>1. ASSUME NEW r \in Runs, Usage(r) \/ StartFlags(r) \/ FinishFlags(r) \/ OpenFile(r)
      PROVE  FlagsInv'
  <2>1. /\ call' = call /\ inode' = inode /\ wanted' = wanted /\ fflags' = fflags
        /\ fresh' = fresh /\ torn' = torn
    BY <1>1, Zenon DEF Usage, StartFlags, FinishFlags, OpenFile
  <2>2. /\ \E place \in {"open", "get"} \cup FlagsEnded : fpc' = [fpc EXCEPT ![r] = place]
        /\ arg' = arg \/ arg' = [arg EXCEPT ![r] = FirstFile(r)]
    BY <1>1, Zenon DEF Usage, StartFlags, FinishFlags, OpenFile, FlagsGoTo, FlagsEnded
  <2>3. fpc'[r] = "get" => FileArg(r)' \in Inodes
    <3>1. CASE OpenFile(r)
      <4>1. arg' = arg /\ FileArg(r) \in Inodes
        BY <3>1, Zenon DEF OpenFile, CanOpen
      <4> QED
        BY <4>1, <2>1, CallStays
    <3>2. CASE Usage(r) \/ StartFlags(r) \/ FinishFlags(r)
      <4>1. \E place \in {"open"} \cup FlagsEnded : fpc' = [fpc EXCEPT ![r] = place]
        BY <3>2, Zenon DEF Usage, StartFlags, FinishFlags, FlagsGoTo, FlagsEnded
      <4> QED
        BY <4>1 DEF FlagsInv, Typed, FlagsEnded
    <3> QED
      BY <1>1, <3>1, <3>2
  <2>4. /\ \A q \in Runs \ {r} : fpc'[q] = fpc[q] /\ arg'[q] = arg[q]
        /\ fpc' \in [Runs -> FlagsPlaces] /\ DOMAIN arg' = Runs /\ fpc'[r] # "set"
    BY <2>2 DEF FlagsInv, Typed, FlagsPlaces, FlagsEnded
  <2> QED
    BY <2>1, <2>3, <2>4, QuietStep
<1>2. ASSUME NEW r \in Runs, OpenFileFails(r) \/ IoctlFails(r) PROVE FlagsInv'
  <2>1. /\ call' = call /\ inode' = inode /\ wanted' = wanted /\ fflags' = fflags
        /\ fresh' = fresh /\ torn' = torn /\ NextFile(r, FALSE)
    BY <1>2, Zenon DEF OpenFileFails, IoctlFails
  <2> QED
    BY <2>1, NextFileStep, QuietStep DEF FlagsEnded
<1>3. ASSUME NEW r \in Runs, GetFlags(r) PROVE FlagsInv'
  <2>1. /\ call' = call /\ inode' = inode /\ wanted' = wanted /\ torn' = torn
        /\ fpc[r] = "get" /\ fflags' = [fflags EXCEPT ![r] = inode[FileArg(r)]]
        /\ fresh' = fresh \cup {r}
    BY <1>3, Zenon DEF GetFlags
  <2>2. /\ \A q \in Runs \ {r} : fpc'[q] = fpc[q] /\ arg'[q] = arg[q]
        /\ fpc' \in [Runs -> FlagsPlaces] /\ DOMAIN arg' = Runs
        /\ fpc'[r] = "set" => arg' = arg
        /\ fpc'[r] # "get"
    <3>1. CASE modify(r)
      <4>1. fpc' = [fpc EXCEPT ![r] = "set"] /\ arg' = arg
        BY <1>3, <3>1, Zenon DEF GetFlags, FlagsGoTo
      <4> QED
        BY <4>1 DEF FlagsInv, Typed, FlagsPlaces
    <3>2. CASE ~modify(r)
      <4>1. NextFile(r, TRUE)
        BY <1>3, <3>2, Zenon DEF GetFlags
      <4> QED
        BY <4>1, NextFileStep DEF FlagsEnded
    <3> QED
      BY <3>1, <3>2
  <2>3. FileArg(r) \in Inodes
    BY <2>1 DEF FlagsInv, AtFile
  <2>4. Typed'
    BY <2>1, <2>2, <2>3 DEF FlagsInv, Typed
  <2>5. ASSUME NEW q \in Runs PROVE AtFile(q)'
    <3>1. CASE q = r
      <4>1. fpc'[r] = "set" => FileArg(r)' = FileArg(r)
        BY <2>1, <2>2, CallStays
      <4>2. fflags'[r] = inode[FileArg(r)]
        BY <2>1 DEF FlagsInv, Typed
      <4> QED
        BY <2>1, <2>2, <2>3, <3>1, <4>1, <4>2 DEF AtFile
    <3>2. CASE q # r
      <4>1. /\ FileArg(q)' = FileArg(q) /\ fpc'[q] = fpc[q] /\ fflags'[q] = fflags[q]
            /\ q \in fresh' <=> q \in fresh
        BY <2>1, <2>2, <3>2, CallStays DEF FlagsInv, Typed
      <4> QED
        BY <2>1, <4>1 DEF FlagsInv, AtFile
    <3> QED
      BY <3>1, <3>2
  <2>6. ASSUME NEW x \in Flags, Unnamed(x)' PROVE Same(x)'
    <3>1. Same(x)
      BY <2>1, <2>6, CallStays DEF FlagsInv
    <3>2. ASSUME NEW q \in Runs, fpc'[q] = "set"
          PROVE  x \in fflags'[q] <=> x \in inode'[FileArg(q)']
      <4>1. CASE q = r
        BY <2>1, <2>2, <3>2, <4>1, CallStays DEF FlagsInv, Typed
      <4>2. CASE q # r
        <5>1. FileArg(q)' = FileArg(q) /\ fpc'[q] = fpc[q] /\ fflags'[q] = fflags[q]
          BY <2>1, <2>2, <4>2, CallStays DEF FlagsInv, Typed
        <5> QED
          BY <2>1, <3>1, <3>2, <5>1 DEF Same
      <4> QED
        BY <4>1, <4>2
    <3> QED
      BY <2>1, <3>1, <3>2 DEF Same
  <2> QED
    BY <2>1, <2>4, <2>5, <2>6 DEF FlagsInv
<1>4. ASSUME NEW r \in Runs, SetFlags(r) PROVE FlagsInv'
  <2> DEFINE f == FileArg(r)
             new == Changed(r)
  <2>1. /\ call' = call /\ fflags' = fflags /\ fpc[r] = "set"
        /\ inode' = [inode EXCEPT ![f] = new]
        /\ wanted' = [wanted EXCEPT ![f] = (wanted[f] \cup to_set(r)) \ to_unset(r)]
        /\ torn' = IF r \in fresh THEN torn ELSE torn \cup {f}
        /\ fresh' = {q \in fresh : fpc[q] = "set" => FileArg(q) # f}
        /\ NextFile(r, TRUE)
    BY <1>4, Zenon DEF SetFlags
  <2>2. /\ \A q \in Runs \ {r} : fpc'[q] = fpc[q] /\ FileArg(q)' = FileArg(q)
        /\ fpc' \in [Runs -> FlagsPlaces] /\ DOMAIN arg' = Runs
        /\ fpc'[r] \notin {"get", "set"}
    BY <2>1, NextFileStep, CallStays DEF FlagsEnded
  <2>3. /\ f \in Inodes /\ new = (fflags[r] \cup to_set(r)) \ to_unset(r)
        /\ r \in fresh => fflags[r] = inode[f]
    BY <2>1 DEF FlagsInv, AtFile, Changed
  <2> HIDE DEF f, new
  <2>4. /\ inode'[f] = new /\ wanted'[f] = (wanted[f] \cup to_set(r)) \ to_unset(r)
        /\ \A g \in Inodes \ {f} : inode'[g] = inode[g] /\ wanted'[g] = wanted[g]
    BY <2>1, <2>3 DEF FlagsInv, Typed
  <2>5. Typed'
    BY <2>1, <2>2, <2>3, ToChange DEF FlagsInv, Typed
  <2>6. ASSUME NEW q \in Runs PROVE AtFile(q)'
    <3>1. CASE q = r
      BY <2>2, <3>1 DEF AtFile
    <3>2. CASE q # r
      <4>1. fpc'[q] = fpc[q] /\ FileArg(q)' = FileArg(q) /\ AtFile(q)
        BY <2>2, <3>2 DEF FlagsInv
      <4>2. ASSUME fpc[q] = "set", q \in fresh'
            PROVE  q \in fresh /\ FileArg(q) \in Inodes \ {f}
        BY <2>1, <4>1, <4>2 DEF AtFile
      <4> QED
        BY <2>1, <2>4, <4>1, <4>2 DEF AtFile
    <3> QED
      BY <3>1, <3>2
  <2>7. ASSUME NEW g \in Inodes, g \notin torn' PROVE inode'[g] = wanted'[g]
    <3>1. inode[g] = wanted[g]
      BY <2>1, <2>7 DEF FlagsInv
    <3>2. CASE g = f
      BY <2>1, <2>3, <2>4, <2>7, <3>1, <3>2
    <3> QED
      BY <2>4, <3>1, <3>2
  <2>8. ASSUME NEW x \in Flags, Unnamed(x)' PROVE Same(x)'
    <3>1. Same(x) /\ x \notin to_set(r) \cup to_unset(r)
      BY <2>1, <2>8, CallStays DEF FlagsInv, Unnamed
    <3>2. (x \in inode'[f] <=> x \in wanted'[f]) /\ (x \in inode'[f] <=> x \in inode[f])
      <4>1. x \in fflags[r] <=> x \in inode[f]
        BY <2>1, <3>1 DEF Same, f
      <4>2. x \in inode[f] <=> x \in wanted[f]
        BY <2>3, <3>1 DEF Same
      <4> QED
        BY <2>3, <2>4, <3>1, <4>1, <4>2
    <3>3. ASSUME NEW g \in Inodes
          PROVE (x \in inode'[g] <=> x \in wanted'[g]) /\ (x \in inode'[g] <=> x \in inode[g])
      <4>1. CASE g = f
        BY <3>2, <4>1
      <4>2. CASE g # f
        BY <2>4, <3>1, <4>2 DEF Same
      <4> QED
        BY <4>1, <4>2
    <3>4. ASSUME NEW q \in Runs, fpc'[q] = "set"
          PROVE  x \in fflags'[q] <=> x \in inode'[FileArg(q)']
      <4>1. q # r
        BY <2>2, <3>4
      <4>2. fpc[q] = "set" /\ FileArg(q)' = FileArg(q) /\ FileArg(q) \in Inodes
        BY <2>2, <3>4, <4>1 DEF FlagsInv, AtFile
      <4> QED
        BY <2>1, <3>1, <3>3, <4>2 DEF Same
    <3> QED
      BY <3>3, <3>4 DEF Same
  <2> QED
    BY <2>5, <2>6, <2>7, <2>8 DEF FlagsInv
<1>5. CASE UNCHANGED flagsVars
  <2>1. /\ call' = call /\ inode' = inode /\ wanted' = wanted /\ fflags' = fflags
        /\ fresh' = fresh /\ torn' = torn /\ fpc' = fpc /\ arg' = arg
    BY <1>5, Zenon DEF flagsVars
  <2>2. \A q : FileArg(q)' = FileArg(q)
    BY <2>1, CallStays
  <2>3. \A r \in Runs : AtFile(r)'
    BY <2>1, <2>2 DEF FlagsInv, AtFile
  <2>4. ASSUME NEW x \in Flags, Unnamed(x)' PROVE Same(x)'
    <3>1. Same(x)
      BY <2>1, <2>4, CallStays DEF FlagsInv
    <3> QED
      BY <3>1, <2>1, <2>2 DEF Same
  <2> QED
    BY <2>1, <2>3, <2>4 DEF FlagsInv, Typed
<1> QED
  BY <1>1, <1>2, <1>3, <1>4, <1>5 DEF FlagsNext

\* Whatever flags and files there are, and whoever works on them: the changes asked for
\* are all made, unless somebody writes back what he has read before another has changed
\* it; and even then a flag that nobody names stays as it was.
THEOREM ChangesStickAlways == FlagsSpec => []ChangesStick
<1>1. FlagsInv => ChangesStick
  BY DEF FlagsInv, ChangesStick, Unnamed, Same
<1> QED
  BY <1>1, FlagsInitInv, FlagsStepInv, PTL DEF FlagsSpec

\* fileflags has one descriptor for every file it has met, up to the limit: it looks at
\* its arguments one by one, and none twice.
\*
\* A set of numbers in a range has a least one: the number of its lower bounds.
LEMMA LeastExists ==
    ASSUME NEW j \in Nat, NEW T, T \subseteq 1 .. j, T # {}
    PROVE  \E m \in T : \A l \in T : m <= l
<1> DEFINE L == {x \in 1 .. j : \A y \in T : x <= y}
           u == Cardinality(L)
<1>1. IsFiniteSet(1 .. j) /\ L \subseteq 1 .. j
  BY FS_Interval
<1>2. IsFiniteSet(L) /\ u \in Nat
  BY <1>1, FS_Subset, FS_CardinalityType
<1>3. \A x \in L : x <= u
  <2> SUFFICES ASSUME NEW x \in L PROVE x <= u
    OBVIOUS
  <2>1. x \in 1 .. j /\ 1 .. x \subseteq L
    OBVIOUS
  <2>2. Cardinality(1 .. x) = x
    <3>1. Cardinality(1 .. x) = IF 1 > x THEN 0 ELSE x - 1 + 1
      BY <2>1, FS_Interval
    <3> QED BY <2>1, <3>1
  <2>3. Cardinality(1 .. x) <= u
    BY <1>2, <2>1, FS_Subset
  <2> QED BY <2>2, <2>3
<1>4. L = 1 .. u
  <2>1. L \subseteq 1 .. u
    BY <1>1, <1>2, <1>3
  <2>2. IsFiniteSet(1 .. u) /\ Cardinality(1 .. u) = u
    <3>1. /\ IsFiniteSet(1 .. u)
          /\ Cardinality(1 .. u) = IF 1 > u THEN 0 ELSE u - 1 + 1
      BY <1>2, FS_Interval
    <3> QED BY <1>2, <3>1
  <2> QED BY <2>1, <2>2, FS_Subset
<1>0. PICK t \in T : t \in 1 .. j
  OBVIOUS
<1>5. 1 \in L
  <2>1. \A y \in T : 1 <= y
    OBVIOUS
  <2>2. 1 \in 1 .. j
    BY <1>0
  <2> QED BY <2>1, <2>2
<1> HIDE DEF u
<1>6. u \in L
  BY <1>2, <1>4, <1>5
<1>7. u \in T
  <2> SUFFICES ASSUME u \notin T PROVE FALSE
    OBVIOUS
  <2>1. u \in Nat /\ \A y \in T : u <= y /\ y \in 1 .. j /\ u # y
    BY <1>6
  <2>2. \A y \in T : u + 1 <= y
    BY <2>1
  <2>3. u + 1 \in 1 .. j
    <3>1. u + 1 <= t /\ t \in 1 .. j
      BY <1>0, <2>2
    <3> QED BY <2>1, <3>1
  <2>4. u + 1 \in L
    BY <2>2, <2>3
  <2> QED BY <1>2, <1>3, <2>4
<1> QED BY <1>6, <1>7

\* The first file stands behind the options, at the end at most.
LEMMA FirstFileIn ==
    ASSUME call \in [Runs -> Calls], NEW r \in Runs
    PROVE  /\ Len(ArgsOf(r)) \in Nat
           /\ FirstFile(r) \in Nat \ {0} /\ (call[r].name = "fileflags" => FirstFile(r) <= Len(ArgsOf(r)) + 1)
<1> DEFINE after == {j \in 1 .. Len(ArgsOf(r)) + 1 : j \notin Options(r)}
           first == CHOOSE m \in after : \A l \in after : m <= l
<1>1. Len(ArgsOf(r)) \in Nat /\ DOMAIN ArgsOf(r) = 1 .. Len(ArgsOf(r))
  BY CallsAssumption DEF ArgsOf
<1>2. Len(ArgsOf(r)) + 1 \in after
  <2>1. Len(ArgsOf(r)) + 1 \notin DOMAIN ArgsOf(r)
    BY <1>1
  <2> QED BY <1>1, <2>1 DEF Options
<1>3. \E m \in after : \A l \in after : m <= l
  <2>1. after \subseteq 1 .. Len(ArgsOf(r)) + 1 /\ after # {} /\ Len(ArgsOf(r)) + 1 \in Nat
    BY <1>1, <1>2
  <2> HIDE DEF after
  <2> QED BY <2>1, LeastExists
<1>4. first \in after
  BY <1>3
<1>5. first \in 1 .. Len(ArgsOf(r)) + 1
  BY <1>4
<1>6. FirstFile(r) = IF call[r].name # "fileflags" THEN 1
                     ELSE IF first <= Len(ArgsOf(r)) /\ ArgsOf(r)[first].sign = "--"
                          THEN first + 1 ELSE first
  BY DEF FirstFile
<1> HIDE DEF first
<1> QED BY <1>1, <1>5, <1>6

\* The arguments up to the k-th that are files there are, and how many of them there are
\* descriptors for.
LookedAt(r, h) == {j \in FirstFile(r) .. h : ArgsOf(r)[j].word \in Inodes}
Opened(r, h) == LET there == Cardinality(LookedAt(r, h))
                IN  IF there < OPEN_MAX THEN there ELSE OPEN_MAX

\* The last argument fileflags has tried to open.
SeenTo(r) == IF fpc[r] \in {"get", "set"} THEN arg[r] ELSE arg[r] - 1

Looked(r) ==
    /\ arg[r] \in Nat /\ fds[r] \in Nat
    /\ fpc[r] = "start" => fds[r] = 0
    /\ fpc[r] \notin {"start", "exit 1"} =>
          /\ call[r].name = "fileflags" => arg[r] \in FirstFile(r) .. Len(ArgsOf(r)) + 1
          /\ call[r].name = "fileflags" /\ ~faults => fds[r] = Opened(r, SeenTo(r))
    /\ fpc[r] \in {"get", "set"} => arg[r] <= Len(ArgsOf(r))
    /\ fpc[r] = "exit 0" /\ call[r].name = "fileflags" => arg[r] = Len(ArgsOf(r)) + 1

LookedInv ==
    /\ call \in [Runs -> Calls] /\ arg \in [Runs -> Nat] /\ fds \in [Runs -> Nat]
    /\ fresh \subseteq Runs /\ torn \subseteq Inodes /\ faults \in BOOLEAN
    /\ \A r \in Runs : Looked(r)

\* One more argument.
LEMMA OneMore ==
    ASSUME call \in [Runs -> Calls], NEW r \in Runs, NEW h \in Nat,
           FirstFile(r) - 1 <= h
    PROVE  /\ Opened(r, h) \in Nat /\ Opened(r, h) <= OPEN_MAX
           /\ ArgsOf(r)[h + 1].word \notin Inodes => Opened(r, h + 1) = Opened(r, h)
           /\ ArgsOf(r)[h + 1].word \in Inodes =>
                 Opened(r, h + 1) = IF Opened(r, h) < OPEN_MAX THEN Opened(r, h) + 1 ELSE OPEN_MAX
           /\ h = FirstFile(r) - 1 => Opened(r, h) = 0
<1> DEFINE S == LookedAt(r, h)
           u == Cardinality(S)
<1>1. FirstFile(r) \in Nat \ {0} /\ OPEN_MAX \in Nat
  BY FirstFileIn, CallsAssumption
<1>2. IsFiniteSet(FirstFile(r) .. h) /\ S \subseteq FirstFile(r) .. h
  BY <1>1, FS_Interval DEF LookedAt
<1>3. IsFiniteSet(S) /\ u \in Nat
  BY <1>2, FS_Subset, FS_CardinalityType
<1>4. h + 1 \notin S
  BY <1>1, <1>2
<1>5. ArgsOf(r)[h + 1].word \notin Inodes => LookedAt(r, h + 1) = S
  BY <1>1 DEF LookedAt
<1>6. ArgsOf(r)[h + 1].word \in Inodes => LookedAt(r, h + 1) = S \cup {h + 1}
  BY <1>1 DEF LookedAt
<1>7. Cardinality(S \cup {h + 1}) = u + 1
  BY <1>3, <1>4, FS_AddElement
<1>8. h = FirstFile(r) - 1 => u = 0
  <2> SUFFICES ASSUME h = FirstFile(r) - 1 PROVE u = 0
    OBVIOUS
  <2>1. S = {}
    BY <1>1, <1>2
  <2> QED BY <2>1, FS_EmptySet
<1>9. Opened(r, h) = IF u < OPEN_MAX THEN u ELSE OPEN_MAX
  BY DEF Opened
<1>10. ArgsOf(r)[h + 1].word \in Inodes =>
          Opened(r, h + 1) = IF u + 1 < OPEN_MAX THEN u + 1 ELSE OPEN_MAX
  BY <1>6, <1>7 DEF Opened
<1>11. ArgsOf(r)[h + 1].word \notin Inodes => Opened(r, h + 1) = Opened(r, h)
  BY <1>5 DEF Opened
<1> HIDE DEF u
<1> QED BY <1>1, <1>3, <1>8, <1>9, <1>10, <1>11

\* What a program does says nothing of another.
LEMMA OthersLooked ==
    ASSUME LookedInv, Typed, NEW r \in Runs, NEW q \in Runs, q # r,
           UNCHANGED <<call, faults>>,
           fpc'[q] = fpc[q], arg'[q] = arg[q], fds'[q] = fds[q]
    PROVE  Looked(q)'
<1>1. Looked(q)
  BY DEF LookedInv
<1>2. ArgsOf(q)' = ArgsOf(q) /\ FirstFile(q)' = FirstFile(q)
  BY DEF ArgsOf, FirstFile, Options, IsOption
<1>3. SeenTo(q)' = SeenTo(q)
  BY DEF SeenTo
<1>4. Opened(q, SeenTo(q))' = Opened(q, SeenTo(q))
  BY <1>2, <1>3 DEF Opened, LookedAt, ArgsOf
<1> QED BY <1>1, <1>2, <1>4 DEF Looked

LEMMA SameArguments ==
    ASSUME UNCHANGED call, NEW r \in Runs
    PROVE  /\ ArgsOf(r)' = ArgsOf(r) /\ FirstFile(r)' = FirstFile(r)
           /\ \A h : Opened(r, h)' = Opened(r, h)
<1>1. ArgsOf(r)' = ArgsOf(r) /\ FirstFile(r)' = FirstFile(r)
  BY DEF ArgsOf, FirstFile, Options, IsOption
<1> QED BY <1>1 DEF Opened, LookedAt

\* From one file to the next: all that was looked at is the argument just done.
LEMMA NextLooked ==
    ASSUME LookedInv, Typed, NEW r \in Runs, NEW ok \in BOOLEAN, NextFile(r, ok),
           fpc[r] \in {"open", "get", "set"}, UNCHANGED <<call, faults, fds>>,
           arg[r] <= Len(ArgsOf(r)),
           call[r].name = "fileflags" /\ ~faults => fds[r] = Opened(r, arg[r])
    PROVE  Looked(r)'
<1>1. /\ Looked(r) /\ fpc \in [Runs -> FlagsPlaces] /\ DOMAIN arg = Runs
      /\ call \in [Runs -> Calls]
  BY DEF LookedInv, Typed
<1>2. /\ ArgsOf(r)' = ArgsOf(r) /\ FirstFile(r)' = FirstFile(r)
      /\ \A h : Opened(r, h)' = Opened(r, h)
  BY SameArguments
<1>3. Len(ArgsOf(r)) \in Nat /\ FirstFile(r) \in Nat \ {0} /\ arg[r] \in Nat /\ fds[r] \in Nat
  BY <1>1, FirstFileIn DEF Looked
<1>4. call' = call /\ faults' = faults /\ fds' = fds
  OBVIOUS
<1>5. CASE call[r].name = "fileflags"
  <2>1. fpc'[r] = "open" /\ arg'[r] = arg[r] + 1
    BY <1>1, <1>5 DEF NextFile, FlagsGoTo
  <2>2. arg[r] \in FirstFile(r) .. Len(ArgsOf(r)) + 1
    BY <1>1, <1>5 DEF Looked
  <2>3. arg'[r] \in FirstFile(r) .. Len(ArgsOf(r)) + 1 /\ arg'[r] \in Nat /\ arg'[r] - 1 = arg[r]
    BY <1>3, <2>1, <2>2
  <2>4. SeenTo(r)' = arg[r]
    BY <2>1, <2>3 DEF SeenTo
  <2>5. Opened(r, SeenTo(r))' = Opened(r, arg[r])
    BY <1>2, <2>4 DEF Opened, LookedAt
  <2> QED BY <1>2, <1>3, <1>4, <2>1, <2>3, <2>5 DEF Looked
<1>6. CASE call[r].name # "fileflags"
  <2>1. fpc'[r] \in {"exit 0", "exit 1"} /\ arg' = arg
    BY <1>1, <1>6 DEF NextFile, FlagsGoTo
  <2> QED BY <1>2, <1>3, <1>4, <1>6, <2>1 DEF Looked
<1> QED BY <1>5, <1>6

LEMMA StepLooked ==
    ASSUME LookedInv, Typed, NEW r \in Runs,
           \/ Usage(r) \/ StartFlags(r) \/ FinishFlags(r) \/ OpenFile(r) \/ OpenFileFails(r)
           \/ GetFlags(r) \/ IoctlFails(r) \/ SetFlags(r)
    PROVE  Looked(r)'
<1>1. /\ Looked(r) /\ fpc \in [Runs -> FlagsPlaces] /\ DOMAIN arg = Runs /\ DOMAIN fds = Runs
      /\ call \in [Runs -> Calls]
  BY DEF LookedInv, Typed
<1>2. UNCHANGED <<call, faults>>
  BY DEF Usage, StartFlags, FinishFlags, OpenFile, OpenFileFails, GetFlags, IoctlFails, SetFlags
<1>3. /\ ArgsOf(r)' = ArgsOf(r) /\ FirstFile(r)' = FirstFile(r)
      /\ \A h : Opened(r, h)' = Opened(r, h)
  BY <1>2, SameArguments
<1>4. /\ Len(ArgsOf(r)) \in Nat /\ FirstFile(r) \in Nat \ {0} /\ arg[r] \in Nat /\ fds[r] \in Nat
      /\ call[r].name = "fileflags" => FirstFile(r) <= Len(ArgsOf(r)) + 1
      /\ OPEN_MAX \in Nat
  BY <1>1, FirstFileIn, CallsAssumption DEF Looked
<1>5. CASE Usage(r)
  <2>1. fpc'[r] = "exit 1" /\ UNCHANGED <<arg, fds>>
    BY <1>1, <1>5 DEF Usage, FlagsGoTo
  <2> QED BY <1>4, <2>1 DEF Looked
<1>6. CASE StartFlags(r)
  <2>1. /\ fpc'[r] = "open" /\ arg'[r] = FirstFile(r) /\ UNCHANGED fds /\ fds[r] = 0
    BY <1>1, <1>6 DEF StartFlags, FlagsGoTo, Looked
  <2>2. SeenTo(r)' = FirstFile(r) - 1
    BY <2>1 DEF SeenTo
  <2>3. Opened(r, FirstFile(r) - 1) = 0
    <3>1. FirstFile(r) - 1 \in Nat /\ FirstFile(r) - 1 <= FirstFile(r) - 1
      BY <1>4
    <3> QED BY <1>1, <3>1, OneMore
  <2>4. Opened(r, SeenTo(r))' = 0
    BY <1>3, <2>2, <2>3 DEF Opened, LookedAt
  <2>5. call[r].name = "fileflags" => FirstFile(r) \in FirstFile(r) .. Len(ArgsOf(r)) + 1
    BY <1>4
  <2> QED BY <1>2, <1>3, <1>4, <2>1, <2>4, <2>5 DEF Looked
<1>7. CASE FinishFlags(r)
  <2>1. /\ fpc[r] = "open" /\ fpc'[r] = "exit 0" /\ UNCHANGED <<arg, fds>>
        /\ arg[r] > Len(ArgsOf(r))
    BY <1>1, <1>7 DEF FinishFlags, FlagsGoTo
  <2>2. SeenTo(r)' = SeenTo(r)
    BY <2>1 DEF SeenTo
  <2>3. Opened(r, SeenTo(r))' = Opened(r, SeenTo(r))
    BY <1>3, <2>2 DEF Opened, LookedAt
  <2>4. ASSUME call[r].name = "fileflags"
        PROVE  arg[r] = Len(ArgsOf(r)) + 1
    <3>1. arg[r] \in FirstFile(r) .. Len(ArgsOf(r)) + 1
      BY <1>1, <2>1, <2>4 DEF Looked
    <3>2. Len(ArgsOf(r)) \in Nat /\ FirstFile(r) \in Nat /\ arg[r] \in Nat
      BY <1>4
    <3> DEFINE len == Len(ArgsOf(r))
               from == FirstFile(r)
               here == arg[r]
    <3>3. here \in from .. len + 1 /\ len \in Nat /\ from \in Nat /\ here > len
      BY <2>1, <3>1, <3>2
    <3> HIDE DEF len, from, here
    <3>4. here = len + 1
      BY <3>3
    <3> QED BY <3>4 DEF len, here
  <2> QED BY <1>1, <1>2, <1>3, <1>4, <2>1, <2>3, <2>4 DEF Looked
<1>8. CASE OpenFile(r)
  <2>1. /\ fpc[r] = "open" /\ fpc'[r] = "get" /\ UNCHANGED arg /\ fds'[r] = fds[r] + 1
        /\ arg[r] <= Len(ArgsOf(r)) /\ ArgsOf(r)[arg[r]].word \in Inodes /\ fds[r] < OPEN_MAX
    BY <1>1, <1>8 DEF OpenFile, FlagsGoTo, CanOpen, FileArg
  <2>2. ASSUME call[r].name = "fileflags", ~faults
        PROVE  fds'[r] = Opened(r, arg[r])
    <3>1. arg[r] \in FirstFile(r) .. Len(ArgsOf(r)) + 1 /\ fds[r] = Opened(r, arg[r] - 1)
      BY <1>1, <2>1, <2>2 DEF Looked, SeenTo
    <3>2. arg[r] - 1 \in Nat /\ FirstFile(r) - 1 <= arg[r] - 1 /\ (arg[r] - 1) + 1 = arg[r]
      BY <1>4, <3>1
    <3>3. Opened(r, arg[r]) = Opened(r, arg[r] - 1) + 1
      BY <1>1, <2>1, <3>1, <3>2, OneMore
    <3> QED BY <2>1, <3>1, <3>3
  <2>3. SeenTo(r)' = arg[r]
    BY <2>1 DEF SeenTo
  <2>4. Opened(r, SeenTo(r))' = Opened(r, arg[r])
    BY <1>3, <2>3 DEF Opened, LookedAt
  <2> QED BY <1>1, <1>2, <1>3, <1>4, <2>1, <2>2, <2>4 DEF Looked
<1>9. CASE OpenFileFails(r)
  <2>1. /\ fpc[r] = "open" /\ NextFile(r, FALSE) /\ UNCHANGED fds /\ arg[r] <= Len(ArgsOf(r))
        /\ faults \/ ~(ArgsOf(r)[arg[r]].word \in Inodes /\ fds[r] < OPEN_MAX)
    BY <1>9 DEF OpenFileFails, CanOpen, FileArg
  <2>2. ASSUME call[r].name = "fileflags", ~faults
        PROVE  fds[r] = Opened(r, arg[r])
    <3>1. arg[r] \in FirstFile(r) .. Len(ArgsOf(r)) + 1 /\ fds[r] = Opened(r, arg[r] - 1)
      BY <1>1, <2>1, <2>2 DEF Looked, SeenTo
    <3>2. arg[r] - 1 \in Nat /\ FirstFile(r) - 1 <= arg[r] - 1 /\ (arg[r] - 1) + 1 = arg[r]
      BY <1>4, <3>1
    <3>3. /\ Opened(r, arg[r] - 1) <= OPEN_MAX /\ Opened(r, arg[r] - 1) \in Nat
          /\ ArgsOf(r)[arg[r]].word \notin Inodes => Opened(r, arg[r]) = Opened(r, arg[r] - 1)
          /\ ArgsOf(r)[arg[r]].word \in Inodes =>
                Opened(r, arg[r]) = IF Opened(r, arg[r] - 1) < OPEN_MAX
                                    THEN Opened(r, arg[r] - 1) + 1 ELSE OPEN_MAX
      <4> DEFINE h == arg[r] - 1
      <4>1. h \in Nat /\ FirstFile(r) - 1 <= h /\ h + 1 = arg[r]
        BY <3>2
      <4> HIDE DEF h
      <4>2. /\ Opened(r, h) <= OPEN_MAX /\ Opened(r, h) \in Nat
            /\ ArgsOf(r)[h + 1].word \notin Inodes => Opened(r, h + 1) = Opened(r, h)
            /\ ArgsOf(r)[h + 1].word \in Inodes =>
                  Opened(r, h + 1) = IF Opened(r, h) < OPEN_MAX THEN Opened(r, h) + 1
                                     ELSE OPEN_MAX
        BY <1>1, <4>1, OneMore
      <4>3. /\ Opened(r, h) <= OPEN_MAX /\ Opened(r, h) \in Nat
            /\ ArgsOf(r)[arg[r]].word \notin Inodes => Opened(r, arg[r]) = Opened(r, h)
            /\ ArgsOf(r)[arg[r]].word \in Inodes =>
                  Opened(r, arg[r]) = IF Opened(r, h) < OPEN_MAX THEN Opened(r, h) + 1
                                      ELSE OPEN_MAX
        BY <4>1, <4>2
      <4> QED BY <4>3 DEF h
    <3> QED BY <1>4, <2>1, <2>2, <3>1, <3>3
  <2> QED BY <1>2, <2>1, <2>2, NextLooked
<1>10. CASE GetFlags(r) \/ IoctlFails(r) \/ SetFlags(r)
  <2>1. /\ fpc[r] \in {"get", "set"} /\ UNCHANGED fds
        /\ \/ \E ok \in BOOLEAN : NextFile(r, ok)
           \/ fpc'[r] = "set" /\ UNCHANGED arg
    BY <1>1, <1>10 DEF GetFlags, IoctlFails, SetFlags, FlagsGoTo
  <2>2. /\ arg[r] <= Len(ArgsOf(r))
        /\ call[r].name = "fileflags" /\ ~faults => fds[r] = Opened(r, arg[r])
    BY <1>1, <2>1 DEF Looked, SeenTo
  <2>3. CASE \E ok \in BOOLEAN : NextFile(r, ok)
    BY <1>2, <2>1, <2>2, <2>3, NextLooked
  <2>4. CASE fpc'[r] = "set" /\ UNCHANGED arg
    <3>1. SeenTo(r)' = arg[r]
      BY <2>4 DEF SeenTo
    <3>2. Opened(r, SeenTo(r))' = Opened(r, arg[r])
      BY <1>3, <3>1 DEF Opened, LookedAt
    <3> QED BY <1>1, <1>2, <1>3, <1>4, <2>1, <2>2, <2>4, <3>2 DEF Looked
  <2> QED BY <2>1, <2>3, <2>4
<1> QED BY <1>5, <1>6, <1>7, <1>8, <1>9, <1>10

LEMMA LookedInitInv == FlagsInit => LookedInv
<1> SUFFICES ASSUME FlagsInit PROVE LookedInv
  OBVIOUS
<1>1. /\ call \in [Runs -> Calls] /\ faults \in BOOLEAN
      /\ fpc = [r \in Runs |-> "start"] /\ arg = [r \in Runs |-> 1]
      /\ fds = [r \in Runs |-> 0] /\ fresh = {} /\ torn = {}
  BY Zenon DEF FlagsInit
<1>2. ASSUME NEW r \in Runs PROVE Looked(r)
  BY <1>1 DEF Looked
<1> QED
  BY <1>1, <1>2 DEF LookedInv

LEMMA LookedStepInv == LookedInv /\ FlagsInv /\ [FlagsNext]_flagsVars => LookedInv'
<1> SUFFICES ASSUME LookedInv, FlagsInv, [FlagsNext]_flagsVars PROVE LookedInv'
  OBVIOUS
<1>0. Typed /\ DOMAIN arg = Runs /\ DOMAIN fds = Runs
  BY DEF FlagsInv, Typed, LookedInv
<1>1. ASSUME NEW r \in Runs,
             \/ Usage(r) \/ StartFlags(r) \/ FinishFlags(r) \/ OpenFile(r) \/ OpenFileFails(r)
             \/ GetFlags(r) \/ IoctlFails(r) \/ SetFlags(r)
      PROVE  LookedInv'
  <2>1. Looked(r)'
    BY <1>0, <1>1, StepLooked
  <2>2. UNCHANGED <<call, faults>>
    BY <1>1, Zenon DEF Usage, StartFlags, FinishFlags, OpenFile, OpenFileFails, GetFlags,
                       IoctlFails, SetFlags
  <2>3. fds' = fds \/ fds' = [fds EXCEPT ![r] = @ + 1]
    BY <1>1, Zenon DEF Usage, StartFlags, FinishFlags, OpenFile, OpenFileFails, GetFlags,
                       IoctlFails, SetFlags
  <2>4. arg' = arg \/ \E v : arg' = [arg EXCEPT ![r] = v]
    BY <1>1, Zenon DEF Usage, StartFlags, FinishFlags, OpenFile, OpenFileFails, GetFlags,
                       IoctlFails, SetFlags, NextFile
  <2>5. \E place : fpc' = [fpc EXCEPT ![r] = place]
    BY <1>1, Zenon DEF Usage, StartFlags, FinishFlags, OpenFile, OpenFileFails, GetFlags,
                       IoctlFails, SetFlags, NextFile, FlagsGoTo
  <2>6. /\ \A q \in Runs \ {r} : fpc'[q] = fpc[q] /\ arg'[q] = arg[q] /\ fds'[q] = fds[q]
        /\ DOMAIN arg' = Runs /\ DOMAIN fds' = Runs
    <3>1. \A q \in Runs \ {r} : fpc'[q] = fpc[q]
      BY <1>0, <2>5 DEF Typed
    <3>2. DOMAIN arg' = Runs /\ \A q \in Runs \ {r} : arg'[q] = arg[q]
      BY <1>0, <2>4
    <3>3. DOMAIN fds' = Runs /\ \A q \in Runs \ {r} : fds'[q] = fds[q]
      BY <1>0, <2>3
    <3> QED
      BY <3>1, <3>2, <3>3
  <2>7. ASSUME NEW q \in Runs PROVE Looked(q)'
    <3>1. CASE q = r
      BY <2>1, <3>1
    <3>2. CASE q # r
      BY <1>0, <2>2, <2>6, <3>2, OthersLooked
    <3> QED
      BY <3>1, <3>2
  <2>8. fresh' \subseteq fresh \cup {r}
    BY <1>1, Zenon DEF Usage, StartFlags, FinishFlags, OpenFile, OpenFileFails, GetFlags,
                       IoctlFails, SetFlags
  <2>9. torn' \subseteq Inodes
    <3>1. CASE SetFlags(r)
      <4>1. torn' \subseteq torn \cup {FileArg(r)} /\ fpc[r] = "set"
        BY <3>1, Zenon DEF SetFlags
      <4>2. FileArg(r) \in Inodes
        BY <4>1 DEF FlagsInv, AtFile
      <4> QED
        BY <4>1, <4>2 DEF LookedInv
    <3>2. CASE ~SetFlags(r)
      <4>1. torn' = torn
        BY <1>1, <3>2, Zenon DEF Usage, StartFlags, FinishFlags, OpenFile, OpenFileFails,
                                 GetFlags, IoctlFails
      <4> QED
        BY <4>1 DEF LookedInv
    <3> QED
      BY <3>1, <3>2
  <2>10. call' \in [Runs -> Calls] /\ faults' \in BOOLEAN /\ fresh' \subseteq Runs
    BY <2>2, <2>8 DEF LookedInv
  <2>11. arg' \in [Runs -> Nat] /\ fds' \in [Runs -> Nat]
    <3>1. \A q \in Runs : arg'[q] \in Nat /\ fds'[q] \in Nat
      BY <2>7 DEF Looked
    <3>2. arg' = [q \in Runs |-> arg'[q]]
      BY <2>4 DEF LookedInv
    <3>3. fds' = [q \in Runs |-> fds'[q]]
      BY <2>3 DEF LookedInv
    <3> QED
      BY <3>1, <3>2, <3>3
  <2> QED
    BY <2>7, <2>9, <2>10, <2>11 DEF LookedInv
<1>2. CASE UNCHANGED flagsVars
  <2>1. UNCHANGED <<call, faults, fpc, arg, fds, fresh, torn>>
    BY <1>2, Zenon DEF flagsVars
  <2>2. ASSUME NEW r \in Runs PROVE Looked(r)'
    <3>1. Looked(r)
      BY DEF LookedInv
    <3>2. SeenTo(r)' = SeenTo(r)
      BY <2>1 DEF SeenTo
    <3>3. Opened(r, SeenTo(r))' = Opened(r, SeenTo(r))
      BY <2>1, <3>2, SameArguments DEF Opened, LookedAt
    <3> QED
      BY <2>1, <3>1, <3>3, SameArguments DEF Looked
  <2> QED
    BY <2>1, <2>2 DEF LookedInv
<1> QED
  BY <1>1, <1>2 DEF FlagsNext

\* However many programs and arguments there are: a fileflags that has come to its end
\* has opened every file it was given that is there, up to the number of descriptors, if
\* no call failed it.
THEOREM NoneLeftOutAlways == FlagsSpec => []NoneLeftOut
<1>1. FlagsInv /\ LookedInv => NoneLeftOut
  <2> SUFFICES ASSUME FlagsInv, LookedInv PROVE NoneLeftOut
    OBVIOUS
  <2>1. FlagsTypeOK
    BY DEF FlagsTypeOK, FlagsInv, LookedInv, Typed, FlagsPlaces
  <2>2. ASSUME NEW r \in Runs, call[r].name = "fileflags", fpc[r] = "exit 0", ~faults
        PROVE  fds[r] = Opened(r, Len(ArgsOf(r)))
    <3>1. /\ arg[r] = Len(ArgsOf(r)) + 1 /\ fds[r] = Opened(r, SeenTo(r))
          /\ call \in [Runs -> Calls]
      BY <2>2 DEF LookedInv, Looked
    <3>2. SeenTo(r) = Len(ArgsOf(r))
      <4>1. SeenTo(r) = arg[r] - 1
        BY <2>2 DEF SeenTo
      <4>2. Len(ArgsOf(r)) \in Nat
        BY <3>1, FirstFileIn
      <4> QED
        BY <3>1, <4>1, <4>2
    <3> QED
      BY <3>1, <3>2
  <2> QED
    BY <2>1, <2>2 DEF NoneLeftOut, Opened, LookedAt
<1> QED
  BY <1>1, FlagsInitInv, FlagsStepInv, LookedInitInv, LookedStepInv, PTL DEF FlagsSpec

(***************************************************************************)
(* luto-slow-rm.                                                           *)
(***************************************************************************)

HammerPlaces == {"open", "fallocate", "mmap", "memset", "munmap", "sync_file_range", "unlink",
                 "ftruncate"} \cup HammerEnded

HammerInv ==
    /\ owner \in Hammers \cup {"none"}
    /\ hpc \in [Hammers -> HammerPlaces]
    /\ RemovesOwn

LEMMA HammerInitInv == HammerInit => HammerInv
  BY HammersAssumption DEF HammerInit, HammerInv, HammerPlaces, HammerEnded, RemovesOwn, Owners

LEMMA HammerStepInv == HammerInv /\ [HammerNext]_hammerVars => HammerInv'
<1> USE HammersAssumption DEF HammerPlaces, HammerEnded, RemovesOwn, Owners, HammerInv
<1> SUFFICES ASSUME HammerInv, [HammerNext]_hammerVars PROVE HammerInv'
  OBVIOUS
<1>1. ASSUME NEW h \in Hammers, OpenNew(h) PROVE HammerInv'
  BY <1>1 DEF OpenNew, HammerStep
<1>2. ASSUME NEW h \in Hammers, UnlinkOwn(h) PROVE HammerInv'
  BY <1>2 DEF UnlinkOwn, HammerStep
<1>3. ASSUME NEW h \in Hammers, UNCHANGED owner,
             Fallocate(h) \/ Mmap(h) \/ Memset(h) \/ Munmap(h) \/ SyncRange(h)
      PROVE  HammerInv'
  BY <1>3 DEF Fallocate, Mmap, Memset, Munmap, SyncRange, HammerStep
<1>4. ASSUME NEW h \in Hammers, Killed(h) \/ Truncate(h) \/ CallFails(h) PROVE HammerInv'
  BY <1>4 DEF Killed, Truncate, CallFails, HammerStep
<1>5. ASSUME UNCHANGED hammerVars PROVE HammerInv'
  BY <1>5 DEF hammerVars
<1> QED
  BY <1>1, <1>2, <1>3, <1>4, <1>5
     DEF HammerNext, Hammer, Fallocate, Mmap, Memset, Munmap, SyncRange

\* Of any number of luto-slow-rm that are given the same name none removes the file of
\* another: O_EXCL makes the name a lock that unlink() releases.
THEOREM RemovesOwnAlways == HammerSpec => []RemovesOwn
<1>1. HammerInv => RemovesOwn
  BY DEF HammerInv
<1> QED
  BY <1>1, HammerInitInv, HammerStepInv, PTL DEF HammerSpec

(***************************************************************************)
(* creat_unlink.                                                           *)
(***************************************************************************)

Apart == {"mkdir"} \cup Exited
UserPlaces == Apart \cup {"chdir", "undo", "create", "unlink", "chdir ..", "rmdir"}

CreatTypeOK ==
    /\ nfiles \in Nat \ {0}
    /\ tst_dir \in Users \cup {"none", Left}
    /\ upc \in [Users -> UserPlaces]
    /\ i \in [Users -> Nat] /\ n_done \in [Users -> Nat]

\* Of a process with the loop counter j that has created m files: who goes on without a
\* failure has created all files, and removed all once he leaves the directory.
Progress(place, j, m) ==
    /\ place \in {"mkdir", "chdir", "undo"} => j = 0
    /\ place = "undo" => failing
    /\ place = "create" => j <= nfiles
    /\ place = "unlink" => j <= m
    /\ place \in {"unlink", "chdir ..", "rmdir"} /\ m # nfiles => failing
    /\ place \in {"chdir ..", "rmdir"} /\ ~failing => j = m
    /\ place = "exit 0" => m = nfiles

\* DirExclusive for one process, that no other is within follows; and LeavesNothing.
Owns(u, place, j, m, dir, own) ==
    /\ place \notin Apart =>
          /\ dir = u
          /\ own = IF place \in {"chdir", "undo", "create"} THEN 0 .. j - 1 ELSE j .. m - 1
    /\ place \in {"mkdir", "exit 0"} => dir # u
    /\ place = "exit 1" /\ dir = u => failing

CreatInv ==
    /\ CreatTypeOK
    /\ \A u \in Users : /\ Progress(upc[u], i[u], n_done[u])
                        /\ Owns(u, upc[u], i[u], n_done[u], tst_dir, tst_files)
    /\ tst_dir = "none" => tst_files = {}

LEMMA CreatInitInv == CreatInit => CreatInv
<1> SUFFICES ASSUME CreatInit PROVE CreatInv
  OBVIOUS
<1>1. /\ nfiles \in FileCounts /\ tst_dir \in {"none", Left} /\ tst_files = {}
      /\ upc = [u \in Users |-> "mkdir"]
      /\ i = [u \in Users |-> 0] /\ n_done = [u \in Users |-> 0]
  BY Zenon DEF CreatInit
<1>2. CreatTypeOK
  BY <1>1, CreatAssumption DEF CreatTypeOK, UserPlaces, Apart
<1>3. ASSUME NEW u \in Users
      PROVE  /\ Progress(upc[u], i[u], n_done[u])
             /\ Owns(u, upc[u], i[u], n_done[u], tst_dir, tst_files)
  <2>1. upc[u] = "mkdir" /\ i[u] = 0 /\ n_done[u] = 0 /\ tst_dir # u
    BY <1>1, CreatAssumption
  <2> QED
    BY <2>1 DEF Progress, Owns, Apart
<1> QED
  BY <1>1, <1>2, <1>3 DEF CreatInv

\* Whoever is within has the directory, so that the others are not.
LEMMA OthersApart ==
    ASSUME CreatInv, NEW u \in Users, upc[u] \notin Apart \/ tst_dir = "none"
    PROVE  \A q \in Users \ {u} : upc[q] \in Apart
  BY CreatAssumption DEF CreatInv, Owns

\* What a process knows of itself and of the files.
LEMMA StateOfOne ==
    ASSUME CreatInv, NEW u \in Users
    PROVE  /\ nfiles \in Nat \ {0} /\ i[u] \in Nat /\ n_done[u] \in Nat
           /\ i = [i EXCEPT ![u] = i[u]] /\ n_done = [n_done EXCEPT ![u] = n_done[u]]
           /\ upc = [upc EXCEPT ![u] = upc[u]]
           /\ Progress(upc[u], i[u], n_done[u])
           /\ Owns(u, upc[u], i[u], n_done[u], tst_dir, tst_files)
           /\ upc[u] \notin Apart => tst_dir = u
  BY DEF CreatInv, CreatTypeOK, Owns

\* A step of u while the others are apart: only u matters.
LEMMA StepOfOne ==
    ASSUME CreatInv, NEW u \in Users, NEW to \in UserPlaces, NEW j \in Nat, NEW m \in Nat,
           \A q \in Users \ {u} : upc[q] \in Apart,
           upc' = [upc EXCEPT ![u] = to], i' = [i EXCEPT ![u] = j],
           n_done' = [n_done EXCEPT ![u] = m],
           nfiles' = nfiles, failing' <=> failing, tst_dir' \in {u, "none"},
           Progress(to, j, m), Owns(u, to, j, m, tst_dir', tst_files'),
           tst_dir' = "none" => tst_files' = {}
    PROVE  CreatInv'
<1>1. CreatTypeOK'
  BY DEF CreatInv, CreatTypeOK
<1>2. /\ Progress(upc[u], i[u], n_done[u])'
      /\ Owns(u, upc[u], i[u], n_done[u], tst_dir, tst_files)'
  <2>1. upc'[u] = to /\ i'[u] = j /\ n_done'[u] = m
    BY DEF CreatInv, CreatTypeOK
  <2>2. Progress(upc[u], i[u], n_done[u])'
    BY <2>1 DEF Progress
  <2> QED
    BY <2>1, <2>2 DEF Owns
<1>3. ASSUME NEW q \in Users \ {u}
      PROVE  /\ Progress(upc[q], i[q], n_done[q])'
             /\ Owns(q, upc[q], i[q], n_done[q], tst_dir, tst_files)'
  <2>1. /\ upc'[q] = upc[q] /\ i'[q] = i[q] /\ n_done'[q] = n_done[q]
        /\ upc[q] \in Apart /\ tst_dir' # q
    BY CreatAssumption DEF CreatInv, CreatTypeOK
  <2>2. Progress(upc[q], i[q], n_done[q])
    BY DEF CreatInv
  <2>3. Progress(upc[q], i[q], n_done[q])'
    BY <2>1, <2>2 DEF Progress
  <2> QED
    BY <2>1, <2>3 DEF Owns, Apart, Exited
<1> QED
  BY <1>1, <1>2, <1>3 DEF CreatInv

LEMMA CreatStepInv == CreatInv /\ [CreatNext]_creatVars => CreatInv'
<1> SUFFICES ASSUME CreatInv, [CreatNext]_creatVars PROVE CreatInv'
  OBVIOUS
<1>1. ASSUME NEW u \in Users, MakeTstDir(u) PROVE CreatInv'
  <2>1. /\ tst_dir = "none" /\ upc[u] = "mkdir" /\ upc' = [upc EXCEPT ![u] = "chdir"]
          /\ tst_dir' = u /\ nfiles' = nfiles /\ tst_files' = tst_files /\ i' = i /\ n_done' = n_done
    BY <1>1, Zenon DEF MakeTstDir, GoesTo
  <2>2. failing' <=> failing
    BY <1>1 DEF MakeTstDir, GoesTo
  <2>3. /\ nfiles \in Nat \ {0} /\ i[u] \in Nat /\ n_done[u] \in Nat
        /\ Progress("mkdir", i[u], n_done[u])
        /\ Owns(u, "mkdir", i[u], n_done[u], tst_dir, tst_files)
    BY <2>1, StateOfOne
  <2>4. 0 .. 0 - 1 = {}
    BY <2>3
  <2>5. tst_files = {}
    BY <2>1 DEF CreatInv
  <2>6. \A q \in Users \ {u} : upc[q] \in Apart
    BY <2>1, OthersApart DEF Apart, Exited
  <2>7. Progress("chdir", i[u], n_done[u])
    BY <2>1, <2>3, <2>4, <2>5 DEF Progress
  <2>8. Owns(u, "chdir", i[u], n_done[u], tst_dir', tst_files')
    BY <2>1, <2>3, <2>4, <2>5, CreatAssumption DEF Progress, Owns, Apart, Exited
  <2>9. tst_dir' \in {u, "none"} /\ (tst_dir' = "none" => tst_files' = {})
    BY <2>1, <2>3, <2>4, <2>5, CreatAssumption DEF Progress, Owns, Apart, Exited
  <2>10. "chdir" \in UserPlaces /\ i[u] \in Nat /\ n_done[u] \in Nat
    BY <2>1, <2>3 DEF UserPlaces, Apart, Exited
  <2>11. /\ upc' = [upc EXCEPT ![u] = "chdir"] /\ i' = [i EXCEPT ![u] = i[u]]
         /\ n_done' = [n_done EXCEPT ![u] = n_done[u]]
    BY <2>1, StateOfOne
  <2> QED
    BY <2>1, <2>2, <2>6, <2>7, <2>8, <2>9, <2>10, <2>11, StepOfOne
<1>2. ASSUME NEW u \in Users, MakeTstDirFails(u) PROVE CreatInv'
  <2>1. /\ upc[u] = "mkdir" /\ upc' = [upc EXCEPT ![u] = "exit 1"]
        /\ nfiles' = nfiles /\ tst_dir' = tst_dir /\ tst_files' = tst_files /\ i' = i /\ n_done' = n_done
    BY <1>2, Zenon DEF MakeTstDirFails, GoesTo
  <2>2. failing' <=> failing
    BY <1>2 DEF MakeTstDirFails, GoesTo
  <2>3. CreatTypeOK'
    BY <2>1 DEF CreatInv, CreatTypeOK, UserPlaces, Apart, Exited
  <2>4. ASSUME NEW q \in Users, q # u
        PROVE  /\ Progress(upc[q], i[q], n_done[q])'
               /\ Owns(q, upc[q], i[q], n_done[q], tst_dir, tst_files)'
    <3>1. upc'[q] = upc[q]
      BY <2>1, <2>4 DEF CreatInv, CreatTypeOK
    <3>2. /\ Progress(upc[q], i[q], n_done[q])
          /\ Owns(q, upc[q], i[q], n_done[q], tst_dir, tst_files)
      BY StateOfOne
    <3>3. Progress(upc[q], i[q], n_done[q])'
      BY <3>1, <3>2, <2>1, <2>2 DEF Progress
    <3> QED
      BY <3>1, <3>2, <3>3, <2>1, <2>2 DEF Owns
  <2>5. /\ Progress(upc[u], i[u], n_done[u])'
        /\ Owns(u, upc[u], i[u], n_done[u], tst_dir, tst_files)'
    <3>1. upc'[u] = "exit 1" /\ tst_dir' # u
      BY <2>1, StateOfOne DEF CreatInv, CreatTypeOK, Owns
    <3> QED
      BY <3>1 DEF Progress, Owns, Apart, Exited
  <2> QED
    BY <2>1, <2>3, <2>4, <2>5 DEF CreatInv
<1>3. ASSUME NEW u \in Users, EnterTstDir(u) PROVE CreatInv'
  <2>1. CASE GoesTo(u, "chdir", "create")
    <3>1. /\ upc[u] = "chdir" /\ upc' = [upc EXCEPT ![u] = "create"]
              /\ nfiles' = nfiles /\ tst_dir' = tst_dir /\ tst_files' = tst_files /\ i' = i /\ n_done' = n_done
      BY <1>3, <2>1, Zenon DEF EnterTstDir, GoesTo
    <3>2. failing' <=> failing
      BY <1>3 DEF EnterTstDir, GoesTo
    <3>3. /\ nfiles \in Nat \ {0} /\ i[u] \in Nat /\ n_done[u] \in Nat
          /\ Progress("chdir", i[u], n_done[u])
          /\ Owns(u, "chdir", i[u], n_done[u], tst_dir, tst_files)
      BY <3>1, StateOfOne
    <3>4. \A q \in Users \ {u} : upc[q] \in Apart
      BY <3>1, OthersApart DEF Apart, Exited
    <3>5. Progress("create", i[u], n_done[u])
      BY <3>1, <3>3 DEF Progress
    <3>6. Owns(u, "create", i[u], n_done[u], tst_dir', tst_files')
      BY <3>1, <3>3, CreatAssumption DEF Progress, Owns, Apart, Exited
    <3>7. tst_dir' \in {u, "none"} /\ (tst_dir' = "none" => tst_files' = {})
      BY <3>1, <3>3, CreatAssumption DEF Progress, Owns, Apart, Exited
    <3>8. "create" \in UserPlaces /\ i[u] \in Nat /\ n_done[u] \in Nat
      BY <3>1, <3>3 DEF UserPlaces, Apart, Exited
    <3>9. /\ upc' = [upc EXCEPT ![u] = "create"] /\ i' = [i EXCEPT ![u] = i[u]]
          /\ n_done' = [n_done EXCEPT ![u] = n_done[u]]
      BY <3>1, StateOfOne
    <3> QED
      BY <3>1, <3>2, <3>4, <3>5, <3>6, <3>7, <3>8, <3>9, StepOfOne
  <2>2. CASE failing /\ GoesTo(u, "chdir", "undo")
    <3>1. /\ upc[u] = "chdir" /\ upc' = [upc EXCEPT ![u] = "undo"]
              /\ nfiles' = nfiles /\ tst_dir' = tst_dir /\ tst_files' = tst_files /\ i' = i /\ n_done' = n_done
      BY <1>3, <2>2, Zenon DEF EnterTstDir, GoesTo
    <3>2. failing' <=> failing
      BY <1>3 DEF EnterTstDir, GoesTo
    <3>3. /\ nfiles \in Nat \ {0} /\ i[u] \in Nat /\ n_done[u] \in Nat
          /\ Progress("chdir", i[u], n_done[u])
          /\ Owns(u, "chdir", i[u], n_done[u], tst_dir, tst_files)
      BY <3>1, StateOfOne
    <3>4. failing
      BY <1>3, <2>2 DEF EnterTstDir, GoesTo
    <3>5. \A q \in Users \ {u} : upc[q] \in Apart
      BY <3>1, OthersApart DEF Apart, Exited
    <3>6. Progress("undo", i[u], n_done[u])
      BY <3>1, <3>3, <3>4 DEF Progress
    <3>7. Owns(u, "undo", i[u], n_done[u], tst_dir', tst_files')
      BY <3>1, <3>3, <3>4, CreatAssumption DEF Progress, Owns, Apart, Exited
    <3>8. tst_dir' \in {u, "none"} /\ (tst_dir' = "none" => tst_files' = {})
      BY <3>1, <3>3, <3>4, CreatAssumption DEF Progress, Owns, Apart, Exited
    <3>9. "undo" \in UserPlaces /\ i[u] \in Nat /\ n_done[u] \in Nat
      BY <3>1, <3>3 DEF UserPlaces, Apart, Exited
    <3>10. /\ upc' = [upc EXCEPT ![u] = "undo"] /\ i' = [i EXCEPT ![u] = i[u]]
           /\ n_done' = [n_done EXCEPT ![u] = n_done[u]]
      BY <3>1, StateOfOne
    <3> QED
      BY <3>1, <3>2, <3>5, <3>6, <3>7, <3>8, <3>9, <3>10, StepOfOne
  <2> QED
    BY <1>3, <2>1, <2>2 DEF EnterTstDir
<1>4. ASSUME NEW u \in Users, UndoTstDir(u) PROVE CreatInv'
  <2>1. /\ upc[u] = "undo" /\ upc' = [upc EXCEPT ![u] = "exit 1"]
          /\ tst_dir' \in {u, "none"} /\ nfiles' = nfiles /\ tst_files' = tst_files /\ i' = i /\ n_done' = n_done
    BY <1>4, Zenon DEF UndoTstDir, GoesTo
  <2>2. failing' <=> failing
    BY <1>4 DEF UndoTstDir, GoesTo
  <2>3. /\ nfiles \in Nat \ {0} /\ i[u] \in Nat /\ n_done[u] \in Nat
        /\ Progress("undo", i[u], n_done[u])
        /\ Owns(u, "undo", i[u], n_done[u], tst_dir, tst_files)
    BY <2>1, StateOfOne
  <2>4. 0 .. 0 - 1 = {}
    BY <2>3
  <2>5. \A q \in Users \ {u} : upc[q] \in Apart
    BY <2>1, OthersApart DEF Apart, Exited
  <2>6. Progress("exit 1", i[u], n_done[u])
    BY <2>1, <2>3, <2>4 DEF Progress
  <2>7. Owns(u, "exit 1", i[u], n_done[u], tst_dir', tst_files')
    BY <2>1, <2>3, <2>4, CreatAssumption DEF Progress, Owns, Apart, Exited
  <2>8. tst_dir' \in {u, "none"} /\ (tst_dir' = "none" => tst_files' = {})
    BY <2>1, <2>3, <2>4, CreatAssumption DEF Progress, Owns, Apart, Exited
  <2>9. "exit 1" \in UserPlaces /\ i[u] \in Nat /\ n_done[u] \in Nat
    BY <2>1, <2>3 DEF UserPlaces, Apart, Exited
  <2>10. /\ upc' = [upc EXCEPT ![u] = "exit 1"] /\ i' = [i EXCEPT ![u] = i[u]]
         /\ n_done' = [n_done EXCEPT ![u] = n_done[u]]
    BY <2>1, StateOfOne
  <2> QED
    BY <2>1, <2>2, <2>5, <2>6, <2>7, <2>8, <2>9, <2>10, StepOfOne
<1>5. ASSUME NEW u \in Users, CreatFile(u) PROVE CreatInv'
  <2>1. /\ upc[u] = "create" /\ i[u] < nfiles /\ upc' = upc
          /\ i' = [i EXCEPT ![u] = i[u] + 1] /\ tst_files' = tst_files \cup {i[u]}
          /\ nfiles' = nfiles /\ tst_dir' = tst_dir /\ n_done' = n_done
    BY <1>5, Zenon DEF CreatFile
  <2>2. failing' <=> failing
    BY <1>5 DEF CreatFile
  <2>3. /\ nfiles \in Nat \ {0} /\ i[u] \in Nat /\ n_done[u] \in Nat
        /\ Progress("create", i[u], n_done[u])
        /\ Owns(u, "create", i[u], n_done[u], tst_dir, tst_files)
    BY <2>1, StateOfOne
  <2>4. (0 .. i[u] - 1) \cup {i[u]} = 0 .. (i[u] + 1) - 1
    BY <2>3
  <2>5. \A q \in Users \ {u} : upc[q] \in Apart
    BY <2>1, OthersApart DEF Apart, Exited
  <2>6. Progress("create", i[u] + 1, n_done[u])
    BY <2>1, <2>3, <2>4 DEF Progress
  <2>7. Owns(u, "create", i[u] + 1, n_done[u], tst_dir', tst_files')
    BY <2>1, <2>3, <2>4, CreatAssumption DEF Progress, Owns, Apart, Exited
  <2>8. tst_dir' \in {u, "none"} /\ (tst_dir' = "none" => tst_files' = {})
    BY <2>1, <2>3, <2>4, CreatAssumption DEF Progress, Owns, Apart, Exited
  <2>9. "create" \in UserPlaces /\ i[u] + 1 \in Nat /\ n_done[u] \in Nat
    BY <2>1, <2>3 DEF UserPlaces, Apart, Exited
  <2>10. /\ upc' = [upc EXCEPT ![u] = "create"] /\ i' = [i EXCEPT ![u] = i[u] + 1]
         /\ n_done' = [n_done EXCEPT ![u] = n_done[u]]
    BY <2>1, StateOfOne
  <2> QED
    BY <2>1, <2>2, <2>5, <2>6, <2>7, <2>8, <2>9, <2>10, StepOfOne
<1>6. ASSUME NEW u \in Users, EndOfCreate(u) PROVE CreatInv'
  <2>1. /\ upc[u] = "create" /\ upc' = [upc EXCEPT ![u] = "unlink"]
          /\ i' = [i EXCEPT ![u] = 0] /\ n_done' = [n_done EXCEPT ![u] = i[u]]
          /\ nfiles' = nfiles /\ tst_dir' = tst_dir /\ tst_files' = tst_files
    BY <1>6, Zenon DEF EndOfCreate, GoesTo
  <2>2. failing' <=> failing
    BY <1>6 DEF EndOfCreate, GoesTo
  <2>3. /\ nfiles \in Nat \ {0} /\ i[u] \in Nat /\ n_done[u] \in Nat
        /\ Progress("create", i[u], n_done[u])
        /\ Owns(u, "create", i[u], n_done[u], tst_dir, tst_files)
    BY <2>1, StateOfOne
  <2>4. failing \/ i[u] = nfiles
    BY <1>6 DEF EndOfCreate, GoesTo
  <2>5. \A q \in Users \ {u} : upc[q] \in Apart
    BY <2>1, OthersApart DEF Apart, Exited
  <2>6. Progress("unlink", 0, i[u])
    BY <2>1, <2>3, <2>4 DEF Progress
  <2>7. Owns(u, "unlink", 0, i[u], tst_dir', tst_files')
    BY <2>1, <2>3, <2>4, CreatAssumption DEF Progress, Owns, Apart, Exited
  <2>8. tst_dir' \in {u, "none"} /\ (tst_dir' = "none" => tst_files' = {})
    BY <2>1, <2>3, <2>4, CreatAssumption DEF Progress, Owns, Apart, Exited
  <2>9. "unlink" \in UserPlaces /\ 0 \in Nat /\ i[u] \in Nat
    BY <2>1, <2>3 DEF UserPlaces, Apart, Exited
  <2>10. /\ upc' = [upc EXCEPT ![u] = "unlink"] /\ i' = [i EXCEPT ![u] = 0]
         /\ n_done' = [n_done EXCEPT ![u] = i[u]]
    BY <2>1, StateOfOne
  <2> QED
    BY <2>1, <2>2, <2>5, <2>6, <2>7, <2>8, <2>9, <2>10, StepOfOne
<1>7. ASSUME NEW u \in Users, UnlinkFile(u) PROVE CreatInv'
  <2>1. /\ upc[u] = "unlink" /\ i[u] < n_done[u] /\ upc' = upc
          /\ i' = [i EXCEPT ![u] = i[u] + 1] /\ tst_files' = tst_files \ {i[u]}
          /\ nfiles' = nfiles /\ tst_dir' = tst_dir /\ n_done' = n_done
    BY <1>7, Zenon DEF UnlinkFile
  <2>2. failing' <=> failing
    BY <1>7 DEF UnlinkFile
  <2>3. /\ nfiles \in Nat \ {0} /\ i[u] \in Nat /\ n_done[u] \in Nat
        /\ Progress("unlink", i[u], n_done[u])
        /\ Owns(u, "unlink", i[u], n_done[u], tst_dir, tst_files)
    BY <2>1, StateOfOne
  <2>4. (i[u] .. n_done[u] - 1) \ {i[u]} = i[u] + 1 .. n_done[u] - 1
    BY <2>3
  <2>5. \A q \in Users \ {u} : upc[q] \in Apart
    BY <2>1, OthersApart DEF Apart, Exited
  <2>6. Progress("unlink", i[u] + 1, n_done[u])
    BY <2>1, <2>3, <2>4 DEF Progress
  <2>7. Owns(u, "unlink", i[u] + 1, n_done[u], tst_dir', tst_files')
    BY <2>1, <2>3, <2>4, CreatAssumption DEF Progress, Owns, Apart, Exited
  <2>8. tst_dir' \in {u, "none"} /\ (tst_dir' = "none" => tst_files' = {})
    BY <2>1, <2>3, <2>4, CreatAssumption DEF Progress, Owns, Apart, Exited
  <2>9. "unlink" \in UserPlaces /\ i[u] + 1 \in Nat /\ n_done[u] \in Nat
    BY <2>1, <2>3 DEF UserPlaces, Apart, Exited
  <2>10. /\ upc' = [upc EXCEPT ![u] = "unlink"] /\ i' = [i EXCEPT ![u] = i[u] + 1]
         /\ n_done' = [n_done EXCEPT ![u] = n_done[u]]
    BY <2>1, StateOfOne
  <2> QED
    BY <2>1, <2>2, <2>5, <2>6, <2>7, <2>8, <2>9, <2>10, StepOfOne
<1>8. ASSUME NEW u \in Users, EndOfUnlink(u) PROVE CreatInv'
  <2>1. ASSUME NEW to \in {"chdir ..", "exit 1"}, upc' = [upc EXCEPT ![u] = to],
               to = "exit 1" => failing,
               to = "chdir .." => failing \/ (i[u] = n_done[u] /\ n_done[u] = nfiles)
        PROVE  CreatInv'
    <3>1. /\ upc[u] = "unlink"
              /\ nfiles' = nfiles /\ tst_dir' = tst_dir /\ tst_files' = tst_files /\ i' = i /\ n_done' = n_done
      BY <1>8, <2>1, Zenon DEF EndOfUnlink, GoesTo
    <3>2. failing' <=> failing
      BY <1>8 DEF EndOfUnlink, GoesTo
    <3>3. /\ nfiles \in Nat \ {0} /\ i[u] \in Nat /\ n_done[u] \in Nat
          /\ Progress("unlink", i[u], n_done[u])
          /\ Owns(u, "unlink", i[u], n_done[u], tst_dir, tst_files)
      BY <3>1, <2>1, StateOfOne
    <3>4. \A q \in Users \ {u} : upc[q] \in Apart
      BY <3>1, OthersApart DEF Apart, Exited
    <3>5. Progress(to, i[u], n_done[u])
      BY <3>1, <2>1, <3>3 DEF Progress
    <3>6. Owns(u, to, i[u], n_done[u], tst_dir', tst_files')
      BY <3>1, <2>1, <3>3, CreatAssumption DEF Progress, Owns, Apart, Exited
    <3>7. tst_dir' \in {u, "none"} /\ (tst_dir' = "none" => tst_files' = {})
      BY <3>1, <2>1, <3>3, CreatAssumption DEF Progress, Owns, Apart, Exited
    <3>8. to \in UserPlaces /\ i[u] \in Nat /\ n_done[u] \in Nat
      BY <3>1, <2>1, <3>3 DEF UserPlaces, Apart, Exited
    <3>9. /\ upc' = [upc EXCEPT ![u] = to] /\ i' = [i EXCEPT ![u] = i[u]]
          /\ n_done' = [n_done EXCEPT ![u] = n_done[u]]
      BY <3>1, <2>1, StateOfOne
    <3> QED
      BY <3>1, <3>2, <3>4, <3>5, <3>6, <3>7, <3>8, <3>9, StepOfOne
  <2>2. upc[u] = "unlink" /\ i[u] \in Nat /\ n_done[u] \in Nat /\ Progress("unlink", i[u], n_done[u])
        /\ Owns(u, "unlink", i[u], n_done[u], tst_dir, tst_files)
    BY <1>8, StateOfOne DEF EndOfUnlink
  <2>3. i[u] < n_done[u] => i[u] \in tst_files
    BY <2>2 DEF Owns, Apart, Exited
  <2>4. CASE i[u] = n_done[u] /\ GoesTo(u, "unlink", "chdir ..")
    BY <2>1, <2>2, <2>4 DEF Progress, GoesTo
  <2>5. CASE failing /\ GoesTo(u, "unlink", IF n_done[u] # nfiles THEN "chdir .." ELSE "exit 1")
    <3>1. CASE n_done[u] # nfiles
      BY <2>1, <2>5, <3>1 DEF GoesTo
    <3>2. CASE n_done[u] = nfiles
      BY <2>1, <2>5, <3>2 DEF GoesTo
    <3> QED
      BY <3>1, <3>2
  <2> QED
    BY <1>8, <2>3, <2>4, <2>5 DEF EndOfUnlink
<1>9. ASSUME NEW u \in Users, LeaveTstDir(u) PROVE CreatInv'
  <2>1. CASE GoesTo(u, "chdir ..", "rmdir")
    <3>1. /\ upc[u] = "chdir .." /\ upc' = [upc EXCEPT ![u] = "rmdir"]
              /\ nfiles' = nfiles /\ tst_dir' = tst_dir /\ tst_files' = tst_files /\ i' = i /\ n_done' = n_done
      BY <1>9, <2>1, Zenon DEF LeaveTstDir, GoesTo
    <3>2. failing' <=> failing
      BY <1>9 DEF LeaveTstDir, GoesTo
    <3>3. /\ nfiles \in Nat \ {0} /\ i[u] \in Nat /\ n_done[u] \in Nat
          /\ Progress("chdir ..", i[u], n_done[u])
          /\ Owns(u, "chdir ..", i[u], n_done[u], tst_dir, tst_files)
      BY <3>1, StateOfOne
    <3>4. \A q \in Users \ {u} : upc[q] \in Apart
      BY <3>1, OthersApart DEF Apart, Exited
    <3>5. Progress("rmdir", i[u], n_done[u])
      BY <3>1, <3>3 DEF Progress
    <3>6. Owns(u, "rmdir", i[u], n_done[u], tst_dir', tst_files')
      BY <3>1, <3>3, CreatAssumption DEF Progress, Owns, Apart, Exited
    <3>7. tst_dir' \in {u, "none"} /\ (tst_dir' = "none" => tst_files' = {})
      BY <3>1, <3>3, CreatAssumption DEF Progress, Owns, Apart, Exited
    <3>8. "rmdir" \in UserPlaces /\ i[u] \in Nat /\ n_done[u] \in Nat
      BY <3>1, <3>3 DEF UserPlaces, Apart, Exited
    <3>9. /\ upc' = [upc EXCEPT ![u] = "rmdir"] /\ i' = [i EXCEPT ![u] = i[u]]
          /\ n_done' = [n_done EXCEPT ![u] = n_done[u]]
      BY <3>1, StateOfOne
    <3> QED
      BY <3>1, <3>2, <3>4, <3>5, <3>6, <3>7, <3>8, <3>9, StepOfOne
  <2>2. CASE failing /\ GoesTo(u, "chdir ..", "exit 1")
    <3>1. /\ upc[u] = "chdir .." /\ upc' = [upc EXCEPT ![u] = "exit 1"]
              /\ nfiles' = nfiles /\ tst_dir' = tst_dir /\ tst_files' = tst_files /\ i' = i /\ n_done' = n_done
      BY <1>9, <2>2, Zenon DEF LeaveTstDir, GoesTo
    <3>2. failing' <=> failing
      BY <1>9 DEF LeaveTstDir, GoesTo
    <3>3. /\ nfiles \in Nat \ {0} /\ i[u] \in Nat /\ n_done[u] \in Nat
          /\ Progress("chdir ..", i[u], n_done[u])
          /\ Owns(u, "chdir ..", i[u], n_done[u], tst_dir, tst_files)
      BY <3>1, StateOfOne
    <3>4. failing
      BY <1>9, <2>2 DEF LeaveTstDir, GoesTo
    <3>5. \A q \in Users \ {u} : upc[q] \in Apart
      BY <3>1, OthersApart DEF Apart, Exited
    <3>6. Progress("exit 1", i[u], n_done[u])
      BY <3>1, <3>3, <3>4 DEF Progress
    <3>7. Owns(u, "exit 1", i[u], n_done[u], tst_dir', tst_files')
      BY <3>1, <3>3, <3>4, CreatAssumption DEF Progress, Owns, Apart, Exited
    <3>8. tst_dir' \in {u, "none"} /\ (tst_dir' = "none" => tst_files' = {})
      BY <3>1, <3>3, <3>4, CreatAssumption DEF Progress, Owns, Apart, Exited
    <3>9. "exit 1" \in UserPlaces /\ i[u] \in Nat /\ n_done[u] \in Nat
      BY <3>1, <3>3 DEF UserPlaces, Apart, Exited
    <3>10. /\ upc' = [upc EXCEPT ![u] = "exit 1"] /\ i' = [i EXCEPT ![u] = i[u]]
           /\ n_done' = [n_done EXCEPT ![u] = n_done[u]]
      BY <3>1, StateOfOne
    <3> QED
      BY <3>1, <3>2, <3>5, <3>6, <3>7, <3>8, <3>9, <3>10, StepOfOne
  <2> QED
    BY <1>9, <2>1, <2>2 DEF LeaveTstDir
<1>10. ASSUME NEW u \in Users, RemoveTstDir(u) PROVE CreatInv'
  <2>0. upc[u] = "rmdir"
    BY <1>10 DEF RemoveTstDir
  <2>1. CASE tst_files = {} /\ tst_dir' = "none" /\ GoesTo(u, "rmdir", IF n_done[u] = nfiles THEN "exit 0" ELSE "exit 1")
    <3>1. /\ upc[u] = "rmdir"
              /\ upc' = [upc EXCEPT ![u] = IF n_done[u] = nfiles THEN "exit 0" ELSE "exit 1"]
              /\ tst_files = {} /\ tst_dir' = "none" /\ nfiles' = nfiles /\ tst_files' = tst_files /\ i' = i /\ n_done' = n_done
      BY <1>10, <2>1, Zenon DEF RemoveTstDir, GoesTo
    <3>2. failing' <=> failing
      BY <1>10 DEF RemoveTstDir, GoesTo
    <3>3. /\ nfiles \in Nat \ {0} /\ i[u] \in Nat /\ n_done[u] \in Nat
          /\ Progress("rmdir", i[u], n_done[u])
          /\ Owns(u, "rmdir", i[u], n_done[u], tst_dir, tst_files)
      BY <3>1, StateOfOne
    <3>4. \A q \in Users \ {u} : upc[q] \in Apart
      BY <3>1, OthersApart DEF Apart, Exited
    <3>5. Progress(IF n_done[u] = nfiles THEN "exit 0" ELSE "exit 1", i[u], n_done[u])
      BY <3>1, <3>3 DEF Progress
    <3>6. Owns(u, IF n_done[u] = nfiles THEN "exit 0" ELSE "exit 1", i[u], n_done[u], tst_dir', tst_files')
      BY <3>1, <3>3, CreatAssumption DEF Progress, Owns, Apart, Exited
    <3>7. tst_dir' \in {u, "none"} /\ (tst_dir' = "none" => tst_files' = {})
      BY <3>1, <3>3, CreatAssumption DEF Progress, Owns, Apart, Exited
    <3>8. (IF n_done[u] = nfiles THEN "exit 0" ELSE "exit 1") \in UserPlaces /\ i[u] \in Nat /\ n_done[u] \in Nat
      BY <3>1, <3>3 DEF UserPlaces, Apart, Exited
    <3>9. /\ upc' = [upc EXCEPT ![u] = IF n_done[u] = nfiles THEN "exit 0" ELSE "exit 1"] /\ i' = [i EXCEPT ![u] = i[u]]
          /\ n_done' = [n_done EXCEPT ![u] = n_done[u]]
      BY <3>1, StateOfOne
    <3> QED
      BY <3>1, <3>2, <3>4, <3>5, <3>6, <3>7, <3>8, <3>9, StepOfOne
  <2>2. CASE (failing \/ tst_files # {}) /\ GoesTo(u, "rmdir", "exit 1") /\ UNCHANGED tst_dir
    <3>0. failing
      <4>1. /\ i[u] \in Nat /\ n_done[u] \in Nat /\ Progress("rmdir", i[u], n_done[u])
            /\ Owns(u, "rmdir", i[u], n_done[u], tst_dir, tst_files)
        BY <2>0, StateOfOne
      <4>2. i[u] = n_done[u] => tst_files = {}
        BY <4>1 DEF Owns, Apart, Exited
      <4> QED
        BY <2>2, <4>1, <4>2 DEF Progress
    <3>1. /\ upc[u] = "rmdir" /\ upc' = [upc EXCEPT ![u] = "exit 1"]
              /\ nfiles' = nfiles /\ tst_dir' = tst_dir /\ tst_files' = tst_files /\ i' = i /\ n_done' = n_done
      BY <1>10, <2>2, Zenon DEF RemoveTstDir, GoesTo
    <3>2. failing' <=> failing
      BY <1>10 DEF RemoveTstDir, GoesTo
    <3>3. /\ nfiles \in Nat \ {0} /\ i[u] \in Nat /\ n_done[u] \in Nat
          /\ Progress("rmdir", i[u], n_done[u])
          /\ Owns(u, "rmdir", i[u], n_done[u], tst_dir, tst_files)
      BY <3>1, StateOfOne
    <3>4. \A q \in Users \ {u} : upc[q] \in Apart
      BY <3>1, OthersApart DEF Apart, Exited
    <3>5. Progress("exit 1", i[u], n_done[u])
      BY <3>1, <3>3 DEF Progress
    <3>6. Owns(u, "exit 1", i[u], n_done[u], tst_dir', tst_files')
      BY <3>0, <3>1, <3>3, CreatAssumption DEF Progress, Owns, Apart, Exited
    <3>7. tst_dir' \in {u, "none"} /\ (tst_dir' = "none" => tst_files' = {})
      BY <3>0, <3>1, <3>3, CreatAssumption DEF Progress, Owns, Apart, Exited
    <3>8. "exit 1" \in UserPlaces /\ i[u] \in Nat /\ n_done[u] \in Nat
      BY <3>1, <3>3 DEF UserPlaces, Apart, Exited
    <3>9. /\ upc' = [upc EXCEPT ![u] = "exit 1"] /\ i' = [i EXCEPT ![u] = i[u]]
          /\ n_done' = [n_done EXCEPT ![u] = n_done[u]]
      BY <3>1, StateOfOne
    <3> QED
      BY <3>1, <3>2, <3>4, <3>5, <3>6, <3>7, <3>8, <3>9, StepOfOne
  <2> QED
    BY <1>10, <2>1, <2>2 DEF RemoveTstDir
<1>11. ASSUME UNCHANGED creatVars PROVE CreatInv'
  BY <1>11 DEF creatVars, CreatInv, CreatTypeOK, Progress, Owns
<1> QED
  BY <1>1, <1>2, <1>3, <1>4, <1>5, <1>6, <1>7, <1>8, <1>9, <1>10, <1>11 DEF CreatNext, User

\* Of any number of creat_unlink that are given the same directory one at most works in
\* it, and it leaves nothing behind unless a call has failed, which its status says.
THEOREM LeavesNothingAlways == CreatSpec => []LeavesNothing
<1>1. CreatInv => DirExclusive
  BY CreatAssumption DEF CreatInv, Owns, DirExclusive, Within, Apart
<1>2. CreatInv => LeavesNothing
  BY <1>1 DEF CreatInv, Owns, Progress, LeavesNothing, Exited
<1> QED
  BY <1>2, CreatInitInv, CreatStepInv, PTL DEF CreatSpec

-----------------------------------------------------------------------------
(* FullCheckout: stress-git-full-co.                                       *)

Covered(w) == 1 .. w \subseteq Done

\* What may stand in the record: nothing, no name, or a commit that is not ahead.
Safe(r) == r \in Int /\ r >= Empty /\ (r > 0 => Covered(r))

AllButBeyond == 1 .. Commits \subseteq Done \cup Beyond

\* How far the loop is, at each place in it.
Reached ==
    /\ co = "checkout" => \/ commit <= Commits /\ Covered(commit - 1)
                          \/ commit = Commits + 1 /\ (record = Empty \/ AllButBeyond)
    /\ co = "checking out" => Covered(commit - 1)
    /\ co \in {"record", "write", "sync"} => Covered(commit)
    /\ co = "done" /\ record # Empty => AllButBeyond

\* What is still to come is listed, unless it has had its turn, or cannot be reached any more,
\* or comes after the end of the list.
Listed ==
    co # "start" => \A m \in 1 .. Commits : m > commit => m \in range \/ m \in Done \/ m \in Beyond

\* Before the first crash the record is empty for a moment only, and so is the lock held.
NoCrash ==
    crashes = 0 =>
        /\ skipped = {} /\ resumed = {}
        /\ co = "start" => record = Missing
        /\ record = Empty => co = "write" \/ failed # {}
        /\ index_lock = TRUE => co = "checking out"

CheckoutInv ==
    /\ commit \in Nat \ {0} /\ commit <= Commits + 1 /\ crashes \in Nat
    /\ Safe(record) /\ \A d \in onDisk : Safe(d.record)
    /\ Reached /\ Listed
    /\ NoCrash

LEMMA CheckoutInitInv == CheckoutInit => CheckoutInv
  BY CommitsAssumption
     DEF CheckoutInit, CheckoutInv, Safe, Covered, Reached, Listed, NoCrash, Empty, Missing, Now

\* What is done, or lost, stays so; ...
Grows ==
    /\ seen \subseteq seen' /\ skipped \subseteq skipped' /\ failed \subseteq failed'
    /\ resumed \subseteq resumed'
    /\ history' = history

LEMMA DoneStays == Grows => Lost \subseteq Lost' /\ Done \subseteq Done'
  BY DEF Grows, Lost, Done

LEMMA BeyondStays == UNCHANGED runVars => Beyond' = Beyond
  BY DEF runVars, Beyond

\* ... and so a record stays safe.
LEMMA SafeStays ==
    ASSUME Grows, NEW r, Safe(r)
    PROVE  Safe(r)'
  BY DoneStays DEF Safe, Covered

\* What may be on the disk after a step that writes.
LEMMA DiskStaysSafe ==
    ASSUME CheckoutInv, Grows, onDisk' \subseteq onDisk \cup {Now'}, Safe(record)'
    PROVE  (\A d \in onDisk : Safe(d.record))'
<1>1. ASSUME NEW d \in onDisk' PROVE Safe(d.record)'
  <2>1. CASE d \in onDisk
    BY <2>1, SafeStays DEF CheckoutInv
  <2>2. CASE d = Now'
    BY <2>2 DEF Now
  <2> QED
    BY <2>1, <2>2
<1> QED
  BY <1>1

\* Only the start and the end of a turn change what is still to come.
LEMMA ListedStays ==
    ASSUME CheckoutInv, Grows, co # "start", UNCHANGED <<runVars, commit>>
    PROVE  Listed'
  BY DoneStays, BeyondStays DEF CheckoutInv, Listed, runVars

\* No commit that is listed is passed over.
LEMMA AdvancePassesNone ==
    ASSUME NEW list, NEW m, Advance(list, m)
    PROVE  /\ commit' \in Nat \ {0} /\ commit' <= Commits + 1 /\ commit' > m
           /\ commit' \in list \/ commit' = Commits + 1
           /\ \A l \in 1 .. Commits : l > m /\ l < commit' => l \notin list
<1>1. PICK w \in 1 .. Commits + 1 :
         /\ w > m /\ commit' = w
         /\ w \in list \/ w = Commits + 1
         /\ \A l \in list : l > m => w <= l
  BY DEF Advance
<1>2. ASSUME NEW l \in 1 .. Commits, l > m, l < w, l \in list PROVE FALSE
  <2>1. w <= l
    BY <1>1, <1>2
  <2> QED
    BY <1>2, <2>1, CommitsAssumption
<1>3. w \in Nat \ {0} /\ w <= Commits + 1
  BY <1>1, CommitsAssumption
<1> QED
  BY <1>1, <1>2, <1>3

\* Arithmetic of the numbers of commits.
LEMMA Behind ==
    ASSUME NEW w \in Nat \ {0}, w <= Commits + 1, NEW D,
           \A m \in 1 .. Commits : m < w => m \in D
    PROVE  1 .. w - 1 \subseteq D
  BY CommitsAssumption

LEMMA NotPast ==
    ASSUME NEW w \in Nat, w <= Commits
    PROVE  w # Commits + 1
  BY CommitsAssumption

\* What can be reached and is not listed comes after the end of the list.
LEMMA ListGoesOn ==
    ASSUME NEW all,
           \/ range' \in Listing(all) /\ cut' = FALSE
           \/ range' \in {list \in SUBSET all : Starts(list, all)} /\ cut' = TRUE
    PROVE  \A m \in 1 .. Commits : m \in all => m \in range' \/ m \in Beyond'
<1> SUFFICES ASSUME NEW m \in 1 .. Commits, m \in all, m \notin range'
             PROVE  m \in Beyond'
  OBVIOUS
<1>1. /\ range' \subseteq all /\ Starts(range', all)
      /\ cut' = TRUE \/ range' = all \/ Cardinality(range') = maxcount
  BY DEF Listing
<1>2. cut' = TRUE \/ Cardinality(range') = maxcount
  BY <1>1
<1>3. ASSUME NEW l \in range' PROVE ~(m <= l)
  BY <1>1, <1>3 DEF Starts
<1> QED
  BY <1>2, <1>3 DEF Beyond

\* The next turn is that of the first commit that has had none, or there is none left but
\* those after the end of the list.
LEMMA UpToTheEnd ==
    ASSUME co' = "checkout", commit' \in Nat \ {0}, commit' <= Commits + 1,
           commit' \in range' \/ commit' = Commits + 1,
           \A m \in 1 .. Commits : m < commit' => m \in Done' \/ m \in Beyond'
    PROVE  Reached'
<1>1. Commits \in Nat \ {0}
  BY CommitsAssumption
<1>2. CASE commit' \in range' /\ commit' <= Commits
  <2>1. ASSUME NEW m \in 1 .. Commits, m < commit' PROVE m \in Done'
    <3>1. m \notin Beyond'
      BY <1>2, <2>1 DEF Beyond
    <3> QED
      BY <2>1, <3>1
  <2>2. 1 .. commit' - 1 \subseteq Done'
    BY <2>1, Behind
  <2>3. Covered(commit - 1)'
    BY <2>2 DEF Covered
  <2> QED
    BY <1>2, <2>3 DEF Reached
<1>3. CASE commit' = Commits + 1
  <2>1. \A m \in 1 .. Commits : m \in Done' \/ m \in Beyond'
    BY <1>1, <1>3
  <2> QED
    BY <1>1, <1>3, <2>1 DEF Reached, AllButBeyond
<1> QED
  BY <1>1, <1>2, <1>3

LEMMA CheckoutStepInv == CheckoutInv /\ [CheckoutNext]_checkoutVars => CheckoutInv'
<1> SUFFICES ASSUME CheckoutInv, [CheckoutNext]_checkoutVars PROVE CheckoutInv'
  OBVIOUS
<1>1. Commits \in Nat \ {0}
  BY CommitsAssumption
<1> USE <1>1
<1>2. CASE Resume
  <2>0. /\ co = "start" /\ co' = "checkout" /\ crashes' = crashes /\ skipped' = skipped /\ failed' = failed
        /\ seen' = seen /\ history' = history /\ record' = record /\ onDisk' = onDisk
        /\ index_lock' = index_lock
    BY <1>2 DEF Resume
  <2>1. Grows
    BY <1>2 DEF Resume, Grows
  <2>2. Safe(record)' /\ (\A d \in onDisk : Safe(d.record))'
    BY <2>0, <2>1, SafeStays DEF CheckoutInv
  <2>3. /\ commit' \in Nat \ {0} /\ commit' <= Commits + 1 /\ commit' > 0
        /\ commit' \in range' \/ commit' = Commits + 1
        /\ \A l \in 1 .. Commits : l > 0 /\ l < commit' => l \notin range'
    BY <1>2, AdvancePassesNone DEF Resume
  <2>4. record \in Int /\ record >= Empty
    BY DEF CheckoutInv, Safe
  <2>5. \A m \in 1 .. Commits : m \in Reachable => m \in range' \/ m \in Beyond'
    BY <1>2, ListGoesOn DEF Resume
  <2>6. Reached' /\ Listed'
    <3>1. CASE record = Empty
      <4>1. range' = {}
        BY <1>2, <3>1 DEF Resume, Reachable, Listing, Empty, Missing
      <4>2. commit' = Commits + 1
        BY <2>3, <4>1
      <4> QED
        BY <2>0, <3>1, <4>2 DEF Reached, Listed
    <3>2. ASSUME \A m \in 1 .. Commits : m \in Reachable \/ m \in Done'
          PROVE  Reached' /\ Listed'
      <4>1. \A m \in 1 .. Commits : m \in range' \/ m \in Done' \/ m \in Beyond'
        BY <2>5, <3>2
      <4>2. Reached'
        BY <2>0, <2>3, <4>1, UpToTheEnd
      <4> QED
        BY <2>0, <4>1, <4>2 DEF Listed
    <3>3. CASE record = Missing
      <4>1. Reachable = 1 .. Commits
        BY <3>3 DEF Reachable
      <4> QED
        BY <4>1, <3>2
    <3>4. CASE record > 0
      <4>1. Reachable = history[record] /\ record \in resumed'
        BY <1>2, <3>4 DEF Resume, Reachable, Missing, Empty
      <4>2. Covered(record)'
        BY <2>0, <2>2, <3>4 DEF Safe
      <4>3. \A m \in 1 .. Commits : m > record => m \in Reachable \/ m \in Lost'
        BY <2>0, <4>1 DEF Lost
      <4>4. \A m \in 1 .. Commits : m <= record => m \in Done'
        BY <2>0, <2>4, <4>2 DEF Covered
      <4>5. \A m \in 1 .. Commits : m \in Reachable \/ m \in Done'
        BY <2>4, <4>3, <4>4 DEF Done
      <4> QED
        BY <3>2, <4>5
    <3> QED
      BY <2>4, <3>1, <3>3, <3>4 DEF Empty, Missing
  <2>7. NoCrash'
    BY <1>2 DEF Resume, CheckoutInv, NoCrash, Missing, Empty
  <2> QED
    BY <2>0, <2>2, <2>3, <2>6, <2>7 DEF CheckoutInv
<1>3. CASE Checkout
  <2>0. Grows /\ commit' = commit /\ crashes' = crashes
    BY <1>3 DEF Checkout, Grows, runVars
  <2>1. Safe(record)'
    BY <1>3, <2>0, SafeStays DEF Checkout, CheckoutInv
  <2>2. (\A d \in onDisk : Safe(d.record))'
    BY <1>3, <2>0, <2>1, DiskStaysSafe DEF Checkout, Touched
  <2>3. Reached'
    <3>1. co = "checkout" /\ commit <= Commits /\ co' = "checking out"
      BY <1>3, Zenon DEF Checkout
    <3>2. Covered(commit - 1)
      <4>1. commit # Commits + 1
        BY <3>1, NotPast DEF CheckoutInv
      <4> QED
        BY <3>1, <4>1 DEF CheckoutInv, Reached
    <3>3. Covered(commit - 1)'
      BY <2>0, <3>2, DoneStays DEF Covered
    <3> QED
      BY <3>1, <3>3 DEF Reached
  <2>4. Listed'
    BY <1>3, <2>0, ListedStays DEF Checkout
  <2>5. NoCrash'
    BY <1>3 DEF Checkout, CheckoutInv, NoCrash, runVars, Empty, Missing
  <2> QED
    BY <2>0, <2>1, <2>2, <2>3, <2>4, <2>5 DEF CheckoutInv
<1>4. CASE CheckedOut
  <2>0. Grows /\ commit' = commit /\ crashes' = crashes
    BY <1>4 DEF CheckedOut, Grows, runVars
  <2>1. Safe(record)'
    BY <1>4, <2>0, SafeStays DEF CheckedOut, CheckoutInv
  <2>2. (\A d \in onDisk : Safe(d.record))'
    BY <1>4, <2>0, <2>1, DiskStaysSafe DEF CheckedOut, Touched
  <2>3. Reached'
    <3>1. Covered(commit - 1) /\ commit \in Nat \ {0}
      BY <1>4 DEF CheckedOut, CheckoutInv, Reached, Covered
    <3>2. co' = "record" /\ commit \in Done'
      BY <1>4 DEF CheckedOut, Done
    <3>3. Covered(commit)'
      BY <2>0, <3>1, <3>2, DoneStays DEF Covered
    <3> QED
      BY <3>2, <3>3 DEF Reached
  <2>4. Listed'
    BY <1>4, <2>0, ListedStays DEF CheckedOut
  <2>5. NoCrash'
    BY <1>4 DEF CheckedOut, CheckoutInv, NoCrash, runVars, Empty, Missing
  <2> QED
    BY <2>0, <2>1, <2>2, <2>3, <2>4, <2>5 DEF CheckoutInv
<1>5. CASE Refused
  <2>0. Grows /\ commit' = commit /\ crashes' = crashes
    BY <1>5 DEF Refused, Grows, runVars
  <2>1. Safe(record)'
    BY <1>5, <2>0, SafeStays DEF Refused, CheckoutInv
  <2>2. (\A d \in onDisk : Safe(d.record))'
    BY <1>5, <2>0, SafeStays DEF Refused, CheckoutInv
  <2>3. Reached'
    <3>1. Covered(commit - 1) /\ commit \in Nat \ {0}
      BY <1>5 DEF Refused, CheckoutInv, Reached
    <3>2. co' = "record" /\ commit \in Done'
      BY <1>5 DEF Refused, Done
    <3>3. Covered(commit)'
      BY <2>0, <3>1, <3>2, DoneStays DEF Covered
    <3> QED
      BY <3>2, <3>3 DEF Reached
  <2>4. Listed'
    BY <1>5, <2>0, ListedStays DEF Refused
  <2>5. NoCrash'
    BY <1>5 DEF Refused, CheckoutInv, NoCrash, runVars, Empty, Missing
  <2> QED
    BY <2>0, <2>1, <2>2, <2>3, <2>4, <2>5 DEF CheckoutInv
<1>6. CASE TruncateRecord
  <2>0. Grows /\ commit' = commit /\ crashes' = crashes
    BY <1>6 DEF TruncateRecord, Grows, runVars
  <2>1. Safe(record)'
    BY <1>6 DEF TruncateRecord, Safe, Empty
  <2>2. (\A d \in onDisk : Safe(d.record))'
    BY <1>6, <2>0, <2>1, DiskStaysSafe DEF TruncateRecord, Touched
  <2>3. Reached'
    <3>1. Covered(commit) /\ co' = "write"
      BY <1>6 DEF TruncateRecord, CheckoutInv, Reached
    <3>2. Covered(commit)'
      BY <2>0, <3>1, DoneStays DEF Covered
    <3> QED
      BY <3>1, <3>2 DEF Reached
  <2>4. Listed'
    BY <1>6, <2>0, ListedStays DEF TruncateRecord
  <2>5. NoCrash'
    BY <1>6 DEF TruncateRecord, CheckoutInv, NoCrash, runVars, Empty, Missing
  <2> QED
    BY <2>0, <2>1, <2>2, <2>3, <2>4, <2>5 DEF CheckoutInv
<1>7. CASE Record
  <2>0. Grows /\ commit' = commit /\ crashes' = crashes
    BY <1>7 DEF Record, Grows, runVars
  <2>1. Safe(record)'
    <3>1. Covered(commit)'
      BY <1>7, <2>0, DoneStays DEF Record, CheckoutInv, Reached, Covered
    <3>2. record' = commit'
      BY <1>7 DEF Record
    <3> QED
      BY <2>0, <3>1, <3>2 DEF CheckoutInv, Safe, Empty
  <2>2. (\A d \in onDisk : Safe(d.record))'
    BY <1>7, <2>0, <2>1, DiskStaysSafe DEF Record, Touched
  <2>3. Reached'
    <3>1. Covered(commit) /\ co' = "sync"
      BY <1>7 DEF Record, CheckoutInv, Reached
    <3>2. Covered(commit)'
      BY <2>0, <3>1, DoneStays DEF Covered
    <3> QED
      BY <3>1, <3>2 DEF Reached
  <2>4. Listed'
    BY <1>7, <2>0, ListedStays DEF Record
  <2>5. NoCrash'
    BY <1>7 DEF Record, CheckoutInv, NoCrash, runVars, Empty, Missing
  <2> QED
    BY <2>0, <2>1, <2>2, <2>3, <2>4, <2>5 DEF CheckoutInv
<1>8. CASE Continue
  <2>0. Grows /\ crashes' = crashes /\ record' = record /\ range' = range
        /\ co = "sync" /\ co' = "checkout"
    BY <1>8 DEF Continue, Grows, runVars
  <2>1. Safe(record)'
    BY <2>0, SafeStays DEF CheckoutInv
  <2>2. (\A d \in onDisk : Safe(d.record))'
    <3>1. onDisk' \subseteq onDisk \cup {Now'}
      BY <1>8 DEF Continue, Now
    <3> QED
      BY <2>0, <3>1, <2>1, DiskStaysSafe
  <2>3. /\ commit' \in Nat \ {0} /\ commit' <= Commits + 1 /\ commit' > commit
        /\ commit' \in range \/ commit' = Commits + 1
        /\ \A l \in 1 .. Commits : l > commit /\ l < commit' => l \notin range
    BY <1>8, AdvancePassesNone DEF Continue
  <2>4. /\ commit \in Int
        /\ \A m \in 1 .. Commits : m <= commit => m \in Done'
        /\ \A m \in 1 .. Commits : m > commit => m \in range \/ m \in Done' \/ m \in Beyond'
    <3>1. commit \in Int /\ Covered(commit)
      BY <2>0 DEF CheckoutInv, Reached
    <3>2. \A m \in 1 .. Commits : m <= commit => m \in Done'
      BY <2>0, <3>1, DoneStays DEF Covered
    <3>3. Beyond' = Beyond
      BY <1>8, BeyondStays DEF Continue
    <3>4. \A m \in 1 .. Commits : m > commit => m \in range \/ m \in Done' \/ m \in Beyond'
      BY <2>0, <3>3, DoneStays DEF CheckoutInv, Listed
    <3> QED
      BY <3>1, <3>2, <3>4
  <2>5. Reached'
    <3>1. \A m \in 1 .. Commits : m < commit' => m \in Done' \/ m \in Beyond'
      BY <2>0, <2>3, <2>4
    <3> QED
      BY <2>0, <2>3, <3>1, UpToTheEnd
  <2>6. Listed'
    BY <2>0, <2>3, <2>4 DEF Listed
  <2>7. NoCrash'
    BY <1>8 DEF Continue, CheckoutInv, NoCrash, runVars
  <2> QED
    BY <2>0, <2>1, <2>2, <2>3, <2>5, <2>6, <2>7 DEF CheckoutInv
<1>9. CASE Finish
  <2>0. Grows /\ commit' = commit /\ crashes' = crashes
    BY <1>9 DEF Finish, Grows, runVars
  <2>1. Safe(record)'
    BY <1>9, <2>0, SafeStays DEF Finish, CheckoutInv
  <2>2. (\A d \in onDisk : Safe(d.record))'
    BY <1>9, <2>0, SafeStays DEF Finish, CheckoutInv
  <2>3. Reached'
    <3>1. /\ co = "checkout" /\ co' = "done" /\ record' = record /\ commit > Commits
          /\ UNCHANGED runVars
      BY <1>9 DEF Finish
    <3>2. record = Empty \/ AllButBeyond
      BY <3>1 DEF CheckoutInv, Reached
    <3>3. record = Empty \/ AllButBeyond'
      BY <2>0, <3>1, <3>2, DoneStays, BeyondStays DEF AllButBeyond
    <3> QED
      BY <3>1, <3>3 DEF Reached
  <2>4. Listed'
    BY <1>9, <2>0, ListedStays DEF Finish
  <2>5. NoCrash'
    BY <1>9 DEF Finish, CheckoutInv, NoCrash, runVars, Empty, Missing
  <2> QED
    BY <2>0, <2>1, <2>2, <2>3, <2>4, <2>5 DEF CheckoutInv
<1>10. CASE Crash
  <2>0. Grows /\ commit' = commit /\ co' = "start"
    BY <1>10 DEF Crash, Grows, runVars
  <2>1. PICK d \in onDisk : record' = d.record /\ onDisk' = {d}
    BY <1>10 DEF Crash
  <2>2. Safe(record)' /\ (\A e \in onDisk : Safe(e.record))'
    BY <2>0, <2>1, SafeStays DEF CheckoutInv
  <2>3. Reached' /\ Listed'
    BY <2>0 DEF Reached, Listed
  <2>4. NoCrash'
    <3>1. crashes' = crashes + 1 /\ crashes \in Nat
      BY <1>10 DEF Crash, CheckoutInv
    <3>2. crashes' # 0
      BY <3>1
    <3> QED
      BY <3>2, Zenon DEF NoCrash
  <2> QED
    BY <1>10, <2>0, <2>2, <2>3, <2>4 DEF Crash, CheckoutInv
<1>11. CASE CheckoutFailed
  <2>0. Grows /\ commit' = commit /\ crashes' = crashes
    BY <1>11 DEF CheckoutFailed, Grows, runVars
  <2>1. Safe(record)'
    BY <1>11, <2>0, SafeStays DEF CheckoutFailed, CheckoutInv
  <2>2. (\A d \in onDisk : Safe(d.record))'
    BY <1>11, <2>0, <2>1, DiskStaysSafe DEF CheckoutFailed, Touched
  <2>3. Reached'
    <3>1. Covered(commit - 1) /\ commit \in Nat \ {0}
      BY <1>11 DEF CheckoutFailed, CheckoutInv, Reached, Covered
    <3>2. co' = "record" /\ commit \in Done'
      BY <1>11 DEF CheckoutFailed, Done
    <3>3. Covered(commit)'
      BY <2>0, <3>1, <3>2, DoneStays DEF Covered
    <3> QED
      BY <3>2, <3>3 DEF Reached
  <2>4. Listed'
    BY <1>11, <2>0, ListedStays DEF CheckoutFailed
  <2>5. NoCrash'
    BY <1>11 DEF CheckoutFailed, CheckoutInv, NoCrash, runVars, Empty, Missing
  <2> QED
    BY <2>0, <2>1, <2>2, <2>3, <2>4, <2>5 DEF CheckoutInv
<1>12. CASE RecordFails
  <2>0. Grows /\ commit' = commit /\ crashes' = crashes /\ record' = record /\ onDisk' = onDisk
    BY <1>12 DEF RecordFails, Grows, runVars
  <2>1. Safe(record)' /\ (\A d \in onDisk : Safe(d.record))'
    BY <2>0, SafeStays DEF CheckoutInv
  <2>2. Reached'
    <3>1. Covered(commit) /\ co' = "sync"
      BY <1>12 DEF RecordFails, CheckoutInv, Reached
    <3>2. Covered(commit)'
      BY <2>0, <3>1, DoneStays DEF Covered
    <3> QED
      BY <3>1, <3>2 DEF Reached
  <2>3. Listed'
    BY <1>12, <2>0, ListedStays DEF RecordFails
  <2>4. NoCrash'
    BY <1>12 DEF RecordFails, CheckoutInv, NoCrash, runVars, Empty, Missing
  <2> QED
    BY <2>0, <2>1, <2>2, <2>3, <2>4 DEF CheckoutInv
<1>13. CASE UNCHANGED checkoutVars
  <2>1. Grows
    BY <1>13 DEF checkoutVars, Grows
  <2>2. Safe(record)' /\ (\A d \in onDisk : Safe(d.record))'
    BY <1>13, <2>1, SafeStays DEF checkoutVars, CheckoutInv
  <2> QED
    BY <1>13, <2>2
       DEF checkoutVars, CheckoutInv, Covered, Done, Lost, Beyond, AllButBeyond, Reached, Listed,
           NoCrash
<1> QED
  BY <1>2, <1>3, <1>4, <1>5, <1>6, <1>7, <1>8, <1>9, <1>10, <1>13, <1>11, <1>12 DEF CheckoutNext

\* For any number of commits, of crashes and of commits between two syncs, and whatever may be
\* reached from each commit and however long a list may be, no commit up to the one written
\* down has not been tried, and none at all when the script is done, but those that a checkout
\* has failed for or a record could not be written for, those that lie beyond a list that was
\* cut or that a resumed run could not reach, and those after a record that a crash has left
\* empty.
THEOREM NoneSkippedAlways == CheckoutSpec => []NoneSkipped
<1>1. CheckoutInv => NoneSkipped
  BY DEF CheckoutInv, NoneSkipped, Safe, Covered, AllButBeyond, Reached, NoCrash
<1> QED
  BY <1>1, CheckoutInitInv, CheckoutStepInv, PTL DEF CheckoutSpec

-----------------------------------------------------------------------------
(* SnapDir: rand-snap and test-subvol.                                     *)

\* A path was snapshot under a random name that was taken.
NestedOnly == layout.family = "rand-snap" /\ layout.source # "."

\* A name that is counted is never used twice.
CountedNames ==
    /\ c \in Nat
    /\ layout.family # "rand-snap" => \A s \in snaps : s[2] \in Nat /\ s[2] < c
    /\ nested # {} => NestedOnly

\* What a deleter has picked is there until somebody deletes it.
PickedThere(d) ==
    loop[d] = "delete" => snap[d] = Nothing \/ snap[d] \in snaps \/ d \in stolen

Excused(d) == snap[d] = Nothing \/ d \in stolen \/ (snap[d] \in nested /\ NestedOnly)

FailedForCause(d) == ret[d] = "failed" /\ loop[d] # "delete" => Excused(d)

SnapDirInv ==
    /\ DOMAIN loop = Loops /\ DOMAIN snap = Loops /\ DOMAIN ret = Loops
    /\ CountedNames
    /\ \A d \in Loops : PickedThere(d) /\ FailedForCause(d)

LEMMA SnapDirInitInv == SnapDirInit => SnapDirInv
<1> SUFFICES ASSUME SnapDirInit PROVE SnapDirInv
  OBVIOUS
<1>1. /\ snaps = {} /\ nested = {} /\ c = 1 /\ stolen = {}
      /\ loop = [l \in Loops |-> "start"]
      /\ snap = [d \in Loops |-> Nothing] /\ ret = [d \in Loops |-> "none"]
  BY Zenon DEF SnapDirInit
<1> QED
  BY <1>1 DEF SnapDirInv, CountedNames, PickedThere, FailedForCause

\* A step of l that picks and deletes nothing: l is not where it deletes.
LEMMA OtherStep ==
    ASSUME SnapDirInv, NEW l \in Loops, NEW to,
           loop[l] # "delete", to # "delete", loop' = [loop EXCEPT ![l] = to],
           layout' = layout, snap' = snap, ret' = ret, stolen' = stolen,
           snaps \subseteq snaps', nested \subseteq nested', CountedNames'
    PROVE  SnapDirInv'
<1>1. Loops' = Loops /\ NestedOnly' = NestedOnly
  BY DEF Loops, NestedOnly
<1>2. ASSUME NEW d \in Loops PROVE PickedThere(d)' /\ FailedForCause(d)'
  <2>1. loop'[d] = IF d = l THEN to ELSE loop[d]
    BY DEF SnapDirInv
  <2>2. PickedThere(d) /\ FailedForCause(d)
    BY DEF SnapDirInv
  <2>3. PickedThere(d)'
    BY <2>1, <2>2 DEF PickedThere, Nothing
  <2>4. FailedForCause(d)'
    BY <1>1, <2>1, <2>2 DEF FailedForCause, Excused, Nothing
  <2> QED
    BY <2>3, <2>4
<1> QED
  BY <1>1, <1>2 DEF SnapDirInv

LEMMA SnapDirStepInv == SnapDirInv /\ [SnapDirNext]_snapDirVars => SnapDirInv'
<1> SUFFICES ASSUME SnapDirInv, [SnapDirNext]_snapDirVars PROVE SnapDirInv'
  OBVIOUS
<1>1. ASSUME NEW l \in Loops, Begin(l) \/ Sleep(l) \/ SleepMore(l) PROVE SnapDirInv'
  <2>1. /\ loop[l] # "delete"
        /\ \E to \in {"snapshot", "ls", "exit", "sleep -D"} : loop' = [loop EXCEPT ![l] = to]
        /\ layout' = layout /\ snap' = snap /\ ret' = ret /\ stolen' = stolen
        /\ snaps' = snaps /\ nested' = nested /\ c' = c
    <3>1. CASE Begin(l)
      BY <3>1, Zenon DEF Begin, LoopStep
    <3>2. CASE Sleep(l)
      BY <3>2, Zenon DEF Sleep, LoopStep
    <3>3. CASE SleepMore(l)
      BY <3>3, Zenon DEF SleepMore, LoopStep
    <3> QED
      BY <1>1, <3>1, <3>2, <3>3, Zenon
  <2>2. CountedNames'
    BY <2>1 DEF SnapDirInv, CountedNames, NestedOnly
  <2> QED
    BY <2>1, <2>2, OtherStep
<1>2. ASSUME NEW l \in Loops, CreateSnapshot(l) PROVE SnapDirInv'
  <2>1. /\ loop[l] = "snapshot" /\ loop' = [loop EXCEPT ![l] = "sleep"]
        /\ layout' = layout /\ snap' = snap /\ ret' = ret /\ stolen' = stolen
        /\ c' = IF layout.family = "rand-snap" THEN c ELSE c + 1
    BY <1>2, Zenon DEF CreateSnapshot, LoopStep
  <2>2. PICK r \in Randoms :
          IF SnapName(r) \notin snaps
          THEN snaps' = snaps \cup {SnapName(r)} /\ nested' = nested
          ELSE /\ nested' = IF layout.source = "." THEN nested ELSE nested \cup {SnapName(r)}
               /\ snaps' = snaps
    BY <1>2, Zenon DEF CreateSnapshot
  <2>3. snaps \subseteq snaps' /\ nested \subseteq nested'
    BY <2>2
  <2>4. CountedNames'
    <3>1. CASE layout.family = "rand-snap"
      BY <2>1, <2>2, <3>1 DEF SnapDirInv, CountedNames, NestedOnly
    <3>2. CASE layout.family # "rand-snap"
      <4>1. c \in Nat /\ SnapName(r) = <<r, c>> /\ \A s \in snaps : s[2] \in Nat /\ s[2] < c
        BY <3>2 DEF SnapDirInv, CountedNames, SnapName
      <4>2. SnapName(r) \notin snaps
        BY <4>1
      <4>3. snaps' = snaps \cup {<<r, c>>} /\ nested' = nested /\ c' = c + 1
        BY <2>1, <2>2, <3>2, <4>1, <4>2
      <4>4. \A s \in snaps' : s[2] \in Nat /\ s[2] < c'
        <5>1. ASSUME NEW s \in snaps PROVE  s[2] \in Nat /\ s[2] < c'
          <6>1. s[2] \in Nat /\ s[2] < c /\ c \in Nat
            BY <4>1
          <6>2. s[2] \in Nat /\ s[2] < c + 1
            BY <6>1
          <6> QED
            BY <4>3, <6>2
        <5>2. <<r, c>>[2] \in Nat /\ <<r, c>>[2] < c'
          BY <4>1, <4>3
        <5> QED
          BY <4>3, <5>1, <5>2
      <4> QED
        BY <2>1, <4>1, <4>3, <4>4 DEF SnapDirInv, CountedNames, NestedOnly
    <3> QED
      BY <3>1, <3>2
  <2> QED
    BY <2>1, <2>3, <2>4, OtherStep
<1>3. ASSUME NEW l \in Loops, Pick(l) PROVE SnapDirInv'
  <2>1. /\ loop[l] = "ls" /\ loop' = [loop EXCEPT ![l] = "delete"]
        /\ stolen' = stolen \ {l}
        /\ layout' = layout /\ snaps' = snaps /\ nested' = nested /\ ret' = ret /\ c' = c
    BY <1>3, Zenon DEF Pick, LoopStep
  <2>2. PICK s \in IF snaps = {} THEN {Nothing} ELSE snaps : snap' = [snap EXCEPT ![l] = s]
    BY <1>3, Zenon DEF Pick
  <2>3. Loops' = Loops /\ NestedOnly' = NestedOnly
    BY <2>1 DEF Loops, NestedOnly
  <2>4. ASSUME NEW d \in Loops PROVE PickedThere(d)' /\ FailedForCause(d)'
    <3>1. CASE d = l
      <4>1. loop'[d] = "delete" /\ snap'[d] = s
        BY <2>1, <2>2, <3>1 DEF SnapDirInv
      <4>2. s = Nothing \/ s \in snaps'
        BY <2>1, <2>2
      <4> QED
        BY <4>1, <4>2 DEF PickedThere, FailedForCause, Nothing
    <3>2. CASE d # l
      <4>1. loop'[d] = loop[d] /\ snap'[d] = snap[d] /\ (d \in stolen' <=> d \in stolen)
        BY <2>1, <2>2, <3>2 DEF SnapDirInv
      <4>2. PickedThere(d) /\ FailedForCause(d)
        BY DEF SnapDirInv
      <4> QED
        BY <2>1, <2>3, <4>1, <4>2 DEF PickedThere, FailedForCause, Excused, Nothing
    <3> QED
      BY <3>1, <3>2
  <2>5. CountedNames'
    BY <2>1 DEF SnapDirInv, CountedNames, NestedOnly
  <2> QED
    BY <2>1, <2>2, <2>3, <2>4, <2>5 DEF SnapDirInv
<1>4. ASSUME NEW l \in Loops, DeleteSnapshot(l) PROVE SnapDirInv'
  <2>1. /\ loop[l] = "delete" /\ loop' = [loop EXCEPT ![l] = "sleep"]
        /\ layout' = layout /\ snap' = snap /\ nested' = nested /\ c' = c
    BY <1>4, Zenon DEF DeleteSnapshot, LoopStep
  <2>2. Loops' = Loops /\ NestedOnly' = NestedOnly
    BY <2>1 DEF Loops, NestedOnly
  <2>3. ASSUME NEW d \in Loops
        PROVE  loop'[d] = IF d = l THEN "sleep" ELSE loop[d]
    BY <2>1 DEF SnapDirInv
  <2>4. CASE snap[l] \in snaps \ nested
    <3>1. /\ snaps' = snaps \ {snap[l]} /\ ret' = [ret EXCEPT ![l] = "ok"]
          /\ stolen' = stolen \cup {d \in Loops : snap[d] = snap[l] /\ loop[d] = "delete"}
      BY <1>4, <2>4, Zenon DEF DeleteSnapshot
    <3>2. ASSUME NEW d \in Loops PROVE PickedThere(d)' /\ FailedForCause(d)'
      <4>1. PickedThere(d) /\ FailedForCause(d)
        BY DEF SnapDirInv
      <4>2. ret'[d] = IF d = l THEN "ok" ELSE ret[d]
        BY <3>1 DEF SnapDirInv
      <4>3. PickedThere(d)'
        BY <2>1, <2>3, <3>1, <4>1 DEF PickedThere, Nothing
      <4>4. FailedForCause(d)'
        BY <2>1, <2>2, <2>3, <3>1, <4>1, <4>2 DEF FailedForCause, Excused, Nothing
      <4> QED
        BY <4>3, <4>4
    <3>3. CountedNames'
      BY <2>1, <3>1 DEF SnapDirInv, CountedNames, NestedOnly
    <3> QED
      BY <2>1, <2>2, <3>1, <3>2, <3>3 DEF SnapDirInv
  <2>5. CASE snap[l] \notin snaps \ nested
    <3>1. ret' = [ret EXCEPT ![l] = "failed"] /\ snaps' = snaps /\ stolen' = stolen
      BY <1>4, <2>5, Zenon DEF DeleteSnapshot
    <3>2. Excused(l)
      BY <2>1, <2>5 DEF SnapDirInv, PickedThere, CountedNames, Excused
    <3>3. ASSUME NEW d \in Loops PROVE PickedThere(d)' /\ FailedForCause(d)'
      <4>1. PickedThere(d) /\ FailedForCause(d)
        BY DEF SnapDirInv
      <4>2. ret'[d] = IF d = l THEN "failed" ELSE ret[d]
        BY <3>1 DEF SnapDirInv
      <4>3. PickedThere(d)'
        BY <2>1, <2>3, <3>1, <4>1 DEF PickedThere, Nothing
      <4>4. FailedForCause(d)'
        BY <2>1, <2>2, <2>3, <3>1, <3>2, <4>1, <4>2 DEF FailedForCause, Excused, Nothing
      <4> QED
        BY <4>3, <4>4
    <3>4. CountedNames'
      BY <2>1, <3>1 DEF SnapDirInv, CountedNames, NestedOnly
    <3> QED
      BY <2>1, <2>2, <3>1, <3>3, <3>4 DEF SnapDirInv
  <2> QED
    BY <2>4, <2>5
<1>5. CASE UNCHANGED snapDirVars
  <2>1. /\ layout' = layout /\ snaps' = snaps /\ nested' = nested /\ loop' = loop
        /\ snap' = snap /\ ret' = ret /\ c' = c /\ stolen' = stolen
    BY <1>5, Zenon DEF snapDirVars
  <2> QED
    BY <2>1 DEF SnapDirInv, Loops, CountedNames, NestedOnly, PickedThere, FailedForCause,
                Excused, Nothing
<1> QED
  BY <1>1, <1>2, <1>3, <1>4, <1>5, Zenon DEF SnapDirNext, Loop

\* However many loops create and delete in one directory, and whatever names they draw, a
\* deleter that fails had nothing to delete, was overtaken by another one, or has met a
\* name that was drawn twice.
THEOREM FailsForCauseAlways == SnapDirSpec => []FailsForCause
<1>1. SnapDirInv => FailsForCause
  BY DEF SnapDirInv, FailsForCause, FailedForCause, Excused, NestedOnly
<1> QED
  BY <1>1, SnapDirInitInv, SnapDirStepInv, PTL DEF SnapDirSpec

-----------------------------------------------------------------------------
(* Syncperf.                                                               *)

\* Where the program is in each of its stages; the directory above is left alone to the last.
Whereabouts ==
    /\ spc # "done" =>
          files["other"] = found.files["other"] /\ exists \ {"dir"} = found.exists \ {"dir"}
    /\ spc \in {"mkdir", "chdir", "create", "unlink", "back", "rm", "done"}
    /\ spc \in {"mkdir", "chdir"} => cwd = "start" /\ missed \cap {"chdir", "back"} = {}
    /\ spc \in {"create", "unlink", "back"} =>
          "back" \notin missed /\ cwd = IF "chdir" \in missed THEN "start" ELSE "dir"
    /\ spc = "rm" =>
          cwd = IF "chdir" \in missed <=> "back" \in missed THEN "start"
                ELSE IF "chdir" \in missed THEN "above" ELSE "dir"

TidyInv ==
    /\ found \in Before /\ files \in [SyncPlaces -> SUBSET Int] /\ k \in Nat
    /\ exists \subseteq SyncDirs /\ ("other" \notin exists => files["other"] = {})
    /\ Whereabouts
    /\ CleansItsOwn

LEMMA TidyInitInv == SyncInit => TidyInv
<1> SUFFICES ASSUME SyncInit PROVE TidyInv
  OBVIOUS
<1>1. /\ found \in Before /\ exists = found.exists /\ files = found.files
      /\ cwd = "start" /\ spc = "mkdir" /\ k = 0 /\ missed = {}
  BY DEF SyncInit
<1>2. /\ files \in [SyncPlaces -> SUBSET Names] /\ exists \subseteq SyncDirs
      /\ \A d \in SyncDirs \ exists : files[d] = {}
  BY <1>1, BeforeAssumption
<1>3. files \in [SyncPlaces -> SUBSET Int]
  <2>1. Names \subseteq Int
    BY DEF Names, Foreign
  <2> QED
    BY <1>2, <2>1
<1> QED
  BY <1>1, <1>2, <1>3 DEF TidyInv, Whereabouts, CleansItsOwn, SyncDirs

LEMMA TidyStepInv == TidyInv /\ [SyncNext]_syncVars => TidyInv'
<1> SUFFICES ASSUME TidyInv, [SyncNext]_syncVars PROVE TidyInv'
  OBVIOUS
<1>1. CASE SetupMkdir
  BY <1>1 DEF SetupMkdir, SyncStep, TidyInv, Whereabouts, CleansItsOwn, SyncPlaces, SyncDirs
<1>2. CASE SetupChdir
  BY <1>2 DEF SetupChdir, SyncStep, TidyInv, Whereabouts, CleansItsOwn, SyncPlaces, SyncDirs
<1>3. CASE CreateNext \/ UnlinkNext
  \* Only the files of the directory it is in change, and only those it has made.
  <2>1. /\ spc' = spc /\ found' = found /\ exists' = exists /\ cwd' = cwd
        /\ spc \in {"create", "unlink"} /\ k \in Nat /\ k' \in Nat
        /\ ("chdir" \in missed' <=> "chdir" \in missed)
        /\ ("back" \in missed' <=> "back" \in missed)
    <3>1. missed' \in {missed, missed \cup {"creat"}, missed \cup {"unlink"}}
      BY <1>3 DEF CreateNext, UnlinkNext
    <3>2. spc' = spc /\ k' = k + 1 /\ UNCHANGED <<found, exists, cwd>>
      BY <1>3 DEF CreateNext, UnlinkNext
    <3>3. spc \in {"create", "unlink"}
      BY <1>3 DEF CreateNext, UnlinkNext
    <3>4. k \in Nat
      BY DEF TidyInv
    <3> QED
      BY <3>1, <3>2, <3>3, <3>4
  <2>2. cwd \in {"start", "dir"} /\ (cwd = "start" => "chdir" \in missed)
    BY <2>1 DEF TidyInv, Whereabouts
  <2>3. files \in [SyncPlaces -> SUBSET Int]
    BY DEF TidyInv
  <2>4. /\ files' \in [SyncPlaces -> SUBSET Int]
        /\ \A d \in SyncPlaces \ {cwd} : files'[d] = files[d]
        /\ Foreign \in files'[cwd] <=> Foreign \in files[cwd]
    <3>1. cwd \in SyncPlaces /\ k # Foreign /\ k \in Int
      <4>1. k # -1
        BY <2>1
      <4> QED
        BY <4>1, <2>1, <2>2 DEF SyncPlaces, SyncDirs, Foreign
    <3>2. \/ files' = files
          \/ files' = [files EXCEPT ![cwd] = @ \cup {k}]
          \/ files' = [files EXCEPT ![cwd] = @ \ {k}]
      BY <1>3 DEF CreateNext, UnlinkNext
    <3> QED
      BY <2>3, <3>1, <3>2
  <2>5. files'["other"] = files["other"] /\ (cwd = "dir" => files'["start"] = files["start"])
    BY <2>2, <2>4 DEF SyncPlaces, SyncDirs
  <2>6. Foreign \in files'["start"] <=> Foreign \in files["start"]
    BY <2>2, <2>4, <2>5
  <2>7. Whereabouts'
    BY <2>1, <2>5 DEF TidyInv, Whereabouts
  <2>8. CleansItsOwn'
    BY <2>1, <2>2, <2>5, <2>6 DEF TidyInv, CleansItsOwn
  <2> QED
    BY <2>1, <2>4, <2>5, <2>7, <2>8 DEF TidyInv
<1>4. CASE SyncAndRead
  BY <1>4 DEF SyncAndRead, SyncStep, TidyInv, Whereabouts, CleansItsOwn
<1>5. CASE NextRound
  BY <1>5 DEF NextRound, TidyInv, Whereabouts, CleansItsOwn
<1>6. CASE CleanupChdir
  <2>1. /\ spc = "back" /\ spc' = "rm"
        /\ found' = found /\ exists' = exists /\ files' = files /\ k' = k
        /\ "chdir" \in missed' <=> "chdir" \in missed
    BY <1>6 DEF CleanupChdir, SyncStep
  <2>2. "back" \notin missed /\ cwd = IF "chdir" \in missed THEN "start" ELSE "dir"
    BY <2>1 DEF TidyInv, Whereabouts
  <2>3. Whereabouts'
    <3>1. CASE "back" \in missed'
      <4>1. cwd' = cwd
        BY <1>6, <2>2, <3>1 DEF CleanupChdir
      <4> QED
        BY <2>1, <2>2, <3>1, <4>1 DEF TidyInv, Whereabouts
    <3>2. CASE "back" \notin missed'
      <4>1. cwd' = IF cwd = "dir" THEN "start" ELSE "above"
        BY <1>6, <3>2 DEF CleanupChdir
      <4> QED
        BY <2>1, <2>2, <3>2, <4>1 DEF TidyInv, Whereabouts
    <3> QED
      BY <3>1, <3>2
  <2>4. CleansItsOwn'
    <3>1. /\ files["other"] = found.files["other"] /\ exists \ {"dir"} = found.exists \ {"dir"}
          /\ (files["start"] # found.files["start"] => "chdir" \in missed)
          /\ (Foreign \in files["start"] <=> Foreign \in found.files["start"])
      BY <2>1 DEF TidyInv, Whereabouts, CleansItsOwn
    <3>2. /\ files'["start"] = files["start"] /\ files'["other"] = files["other"]
          /\ exists' \ {"dir"} = exists \ {"dir"} /\ found' = found /\ spc' # "done"
      BY <2>1
    <3> QED
      BY <2>1, <3>1, <3>2 DEF CleansItsOwn
  <2> QED
    BY <2>1, <2>3, <2>4 DEF TidyInv
<1>7. CASE CleanupRm
  <2>1. /\ spc = "rm" /\ spc' = "done" /\ found' = found /\ k' = k
        /\ \/ exists' = exists \ Target /\ missed' = missed
           \/ exists' = exists /\ missed' = missed \cup {"rm"}
        /\ files' = [d \in SyncPlaces |-> IF d \in SyncDirs \ exists' THEN {} ELSE files[d]]
    BY <1>7 DEF CleanupRm, SyncStep
  <2>2. /\ files \in [SyncPlaces -> SUBSET Int] /\ exists \subseteq SyncDirs
        /\ ("other" \notin exists => files["other"] = {})
    BY DEF TidyInv
  <2>3. ("chdir" \in missed' <=> "chdir" \in missed) /\ ("back" \in missed' <=> "back" \in missed)
    BY <2>1
  <2>4. files'["start"] = files["start"]
    BY <2>1 DEF SyncPlaces, SyncDirs
  <2>5. "other" \notin Target => files'["other"] = files["other"] /\ exists' \ {"dir"} = exists \ {"dir"}
    BY <2>1, <2>2 DEF SyncPlaces, SyncDirs, Target
  <2>6. "other" \in Target => "chdir" \in missed /\ "back" \notin missed
    BY <2>1 DEF TidyInv, Whereabouts, Target
  <2>7. "dir" \in exists' => "rm" \in missed' \/ ~("chdir" \in missed <=> "back" \in missed)
    BY <2>1 DEF TidyInv, Whereabouts, Target
  <2>8. CleansItsOwn'
    <3>1. /\ files["other"] = found.files["other"] /\ exists \ {"dir"} = found.exists \ {"dir"}
          /\ (files["start"] # found.files["start"] => "chdir" \in missed)
          /\ (Foreign \in files["start"] <=> Foreign \in found.files["start"])
      BY <2>1 DEF TidyInv, Whereabouts, CleansItsOwn
    <3> QED
      BY <2>1, <2>3, <2>4, <2>5, <2>6, <2>7, <3>1 DEF CleansItsOwn
  <2>9. /\ files' \in [SyncPlaces -> SUBSET Int] /\ exists' \subseteq SyncDirs
        /\ ("other" \notin exists' => files'["other"] = {})
    BY <2>1, <2>2 DEF SyncPlaces, SyncDirs
  <2> QED
    BY <2>1, <2>8, <2>9 DEF TidyInv, Whereabouts
<1>8. CASE UNCHANGED syncVars
  BY <1>8 DEF syncVars, TidyInv, Whereabouts, CleansItsOwn
<1> QED
  BY <1>1, <1>2, <1>3, <1>4, <1>5, <1>6, <1>7, <1>8 DEF SyncNext

\* For any numbers of files and rounds, whatever is there before and whichever calls fail, its
\* directory stays only if the removal or just one of the two chdir() fails; where it was
\* started only files of its names are touched, if the first of these fails, and a directory of
\* the same name above is removed only if that one fails alone.
THEOREM CleansItsOwnAlways == SyncSpec => []CleansItsOwn
<1>1. TidyInv => CleansItsOwn
  BY DEF TidyInv
<1> QED
  BY <1>1, TidyInitInv, TidyStepInv, PTL DEF SyncSpec

-----------------------------------------------------------------------------
(* GitAging.                                                               *)

TreeStates == [there : BOOLEAN, lock : BOOLEAN, revlist : BOOLEAN, torn : BOOLEAN]
AgingPlaces == {"none", "snap", "rm lock", "checkout", "in checkout", "over"}

AgingTypeOK ==
    /\ setting \in Settings /\ p \in Nat \ {0}
    /\ trees \in [Trees -> TreeStates]
    /\ at \in [Processes -> AgingPlaces] /\ round \in [Processes -> Nat]
    /\ git \in [Processes -> Trees \cup {NoTree}]

\* The processes from p on have not been started; when there is the trap all have.
Unstarted ==
    /\ \A q \in Processes : q >= p => at[q] = "none"
    /\ script \in {"wait", "ended"} => p > nconcurrent

\* Where the git of a process can be at work, and whose lock stands in its tree.
AtWork(q) ==
    /\ at[q] \in {"none", "snap", "rm lock", "checkout"} => git[q] = NoTree
    /\ git[q] \in {NoTree, Here, Own(q)}
    /\ at[q] # "over" => round[q] \in 1 .. maxrounds
    /\ setting.script \in RemovesLock /\ Mine(q) =>
          (trees[Own(q)].lock = TRUE => git[q] = Own(q))

RefusedHere == setting.script \in RemovesLock => refused \subseteq {Here}

TornForCause == \A t \in Trees : trees[t].torn = TRUE => Blamed(t)

AgingInv ==
    /\ AgingTypeOK /\ Unstarted /\ RefusedHere /\ TornForCause
    /\ \A q \in Processes : AtWork(q)

LEMMA TreesOfAll ==
    /\ Source \in Trees /\ Here \in Trees /\ NoTree \notin Trees /\ Source # Here
    /\ Here # NoTree /\ Here[1] = -1 /\ Source[1] = 0 /\ nconcurrent \in Nat /\ maxrounds \in Nat \ {0}
    /\ Processes \subseteq Nat \ {0}
<1>1. nconcurrent \in Nat /\ maxrounds \in Nat \ {0}
  BY AgingAssumption
<1>2. Processes \subseteq Nat \ {0}
  BY <1>1 DEF Processes
<1>3. NoTree \notin Trees
  <2>1. NoTree # Source /\ NoTree # Here
    BY DEF NoTree, Source, Here
  <2>2. ASSUME NEW a \in Processes, NEW b \in 0 .. maxrounds PROVE NoTree # <<a, b>>
    BY <1>2 DEF NoTree
  <2> QED
    BY <2>1, <2>2 DEF Trees
<1> QED
  BY <1>1, <1>2, <1>3 DEF Source, Here, Trees, NoTree

\* The tree of a process is its own.
LEMMA TreeOfOne ==
    ASSUME NEW q \in Processes, round[q] \in Nat
    PROVE  /\ Own(q)[1] = q /\ Own(q) # Source /\ Own(q) # Here /\ Own(q) # NoTree
           /\ round[q] <= maxrounds => Own(q) \in Trees
           /\ \A u \in Processes \ {q} : Own(u) # Own(q)
<1>1. q \in Nat \ {0} /\ maxrounds \in Nat
  BY TreesOfAll
<1>2. \E b \in Nat : Own(q) = <<q, b>> /\ (round[q] <= maxrounds => b <= maxrounds)
  BY <1>1 DEF Own
<1>3. PICK b \in Nat : Own(q) = <<q, b>> /\ (round[q] <= maxrounds => b <= maxrounds)
  BY <1>2
<1>4. \A u \in Processes : \E a : Own(u) = <<u, a>>
  BY DEF Own
<1>5. round[q] <= maxrounds => Own(q) \in Trees
  <2>1. round[q] <= maxrounds => b \in 0 .. maxrounds
    BY <1>1, <1>3
  <2> QED
    BY <1>3, <2>1 DEF Trees
<1> QED
  BY <1>1, <1>3, <1>4, <1>5 DEF Source, Here, NoTree

\* With the marks as they are every torn tree is blamed; and what is blamed stays so.
LEMMA TornIsBlamed ==
    ASSUME spoiled = TornIn(trees), NEW t \in Trees, trees[t].torn = TRUE
    PROVE  Blamed(t)
<1>1. t[1] \in TornIn(trees)
  BY DEF TornIn
<1> QED
  BY <1>1 DEF Blamed

LEMMA BlamedStays ==
    ASSUME setting' = setting, spoiled \subseteq spoiled', NEW t \in Trees, Blamed(t)
    PROVE  Blamed(t)'
  BY DEF Blamed

LEMMA AgingInitInv == AgingInit => AgingInv
<1> SUFFICES ASSUME AgingInit PROVE AgingInv
  OBVIOUS
<1>1. /\ setting \in Settings /\ script = "fill" /\ p = 1
      /\ at = [q \in Processes |-> "none"] /\ round = [q \in Processes |-> 1]
      /\ git = [q \in Processes |-> NoTree] /\ refused = {}
  BY DEF AgingInit
<1>2. PICK source \in {None} \cup AnyTree, old \in {None} \cup OldTree,
           here \in {None, [None EXCEPT !.there = TRUE, !.revlist = TRUE]} :
        trees = [t \in Trees |-> IF t = Source THEN source ELSE IF t = Here THEN here ELSE old]
  BY DEF AgingInit
<1>3. source \in TreeStates /\ old \in TreeStates /\ here \in TreeStates
  <2>1. /\ None \in TreeStates
        /\ [None EXCEPT !.there = TRUE, !.revlist = TRUE] \in TreeStates
    BY DEF None, TreeStates
  <2>2. AnyTree \subseteq TreeStates /\ OldTree \subseteq TreeStates
    BY DEF AnyTree, OldTree, TreeStates
  <2> QED
    BY <2>1, <2>2
<1>4. AgingTypeOK
  BY <1>1, <1>2, <1>3 DEF AgingTypeOK, AgingPlaces
<1>5. TornForCause
  <2>1. spoiled = TornIn(trees)
    BY DEF AgingInit
  <2> QED
    BY <2>1, TornIsBlamed DEF TornForCause
<1>6. \A q \in Processes : AtWork(q)
  <2>1. 1 \in 1 .. maxrounds
    BY AgingAssumption
  <2> QED
    BY <1>1, <2>1 DEF AtWork, Mine
<1> QED
  BY <1>1, <1>4, <1>5, <1>6 DEF AgingInv, Unstarted, RefusedHere

\* A step of process q, which only changes its own tree and the one it may have gone to.
LEMMA StepOfProcess ==
    ASSUME AgingInv, NEW q \in Processes, at[q] # "none",
           setting' = setting, script' = script, p' = p,
           trees' \in [Trees -> TreeStates],
           \A t \in Trees \ {Own(q), Here} : trees'[t] = trees[t],
           at' \in [Processes -> AgingPlaces], round' \in [Processes -> Nat],
           git' \in [Processes -> Trees \cup {NoTree}],
           \A u \in Processes \ {q} : at'[u] = at[u] /\ round'[u] = round[u] /\ git'[u] = git[u],
           AtWork(q)', RefusedHere', TornForCause'
    PROVE  AgingInv'
<1>1. AgingTypeOK /\ Unstarted
  BY DEF AgingInv
<1>2. AgingTypeOK'
  BY <1>1 DEF AgingTypeOK
<1>3. Unstarted'
  BY <1>1 DEF Unstarted
<1>4. ASSUME NEW u \in Processes PROVE AtWork(u)'
  <2>1. CASE u = q
    BY <2>1
  <2>2. CASE u # q
    <3>1. AtWork(u) /\ at'[u] = at[u] /\ round'[u] = round[u] /\ git'[u] = git[u]
      BY <2>2 DEF AgingInv
    <3>2. Own(u)' = Own(u) /\ Mine(u)' = Mine(u)
      BY <3>1 DEF Own, Mine
    <3>3. Mine(u) => Own(u) \in Trees \ {Own(q), Here}
      <4>1. round[u] \in Nat
        BY <1>1 DEF AgingTypeOK
      <4>2. Mine(u) => round[u] <= maxrounds
        <5>1. Mine(u) => round[u] \in 1 .. maxrounds
          BY <3>1 DEF AtWork, Mine
        <5>2. maxrounds \in Nat
          BY TreesOfAll
        <5> QED
          BY <5>1, <5>2
      <4> QED
        BY <2>2, <4>1, <4>2, TreeOfOne, <1>1 DEF AgingTypeOK
    <3>4. Mine(u) => trees'[Own(u)] = trees[Own(u)]
      BY <3>3
    <3> QED
      BY <3>1, <3>2, <3>4 DEF AtWork
  <2> QED
    BY <2>1, <2>2
<1> QED
  BY <1>2, <1>3, <1>4 DEF AgingInv

\* A snapshot of a tree no git works in is not torn, nor is one made of a torn tree.
LEMMA SnapshotOK ==
    ASSUME AgingTypeOK, NEW from \in Trees, NEW to \in Trees
    PROVE  /\ Snapshot(from, to) \in [Trees -> TreeStates]
           /\ \A t \in Trees \ {to} : Snapshot(from, to)[t] = trees[t]
           /\ Snapshot(from, to)[to].torn = TRUE =>
                 \/ trees[to].torn = TRUE \/ trees[from].torn = TRUE
                 \/ \E q \in Processes : git[q] = from
<1>1. trees \in [Trees -> TreeStates]
  BY DEF AgingTypeOK
<1>2. CASE trees[from].there /\ ~trees[to].there /\ from # to
  <2> DEFINE busy == \E q \in Processes : git[q] = from
             new == [trees[from] EXCEPT !.torn = @ \/ busy]
  <2>1. Snapshot(from, to) = [trees EXCEPT ![to] = new]
    BY <1>2 DEF Snapshot
  <2>2. new \in TreeStates /\ (new.torn = TRUE => trees[from].torn = TRUE \/ busy)
    <3>1. trees[from] \in TreeStates
      BY <1>1
    <3>2. (trees[from].torn \/ busy) \in BOOLEAN
      OBVIOUS
    <3> HIDE DEF busy
    <3> QED
      BY <3>1, <3>2 DEF TreeStates
  <2> HIDE DEF new
  <2>3. /\ Snapshot(from, to) \in [Trees -> TreeStates] /\ Snapshot(from, to)[to] = new
        /\ \A t \in Trees \ {to} : Snapshot(from, to)[t] = trees[t]
    BY <1>1, <2>1, <2>2
  <2> QED
    BY <2>2, <2>3
<1>3. CASE ~(trees[from].there /\ ~trees[to].there /\ from # to)
  <2>1. Snapshot(from, to) = trees
    BY <1>3 DEF Snapshot
  <2> QED
    BY <1>1, <2>1
<1> QED
  BY <1>2, <1>3

\* A step of the script that starts no process and changes no tree of one.
LEMMA StepOfScript ==
    ASSUME AgingInv, setting' = setting, p' = p, round' = round, git' = git, refused' = refused,
           at' = at, trees' \in [Trees -> TreeStates],
           \A t \in Trees \ {Source, Here} : trees'[t] = trees[t],
           Unstarted', TornForCause'
    PROVE  AgingInv'
<1>1. AgingTypeOK /\ RefusedHere
  BY DEF AgingInv
<1>3. AgingTypeOK' /\ RefusedHere'
  BY <1>1 DEF AgingTypeOK, RefusedHere
<1>4. ASSUME NEW q \in Processes PROVE AtWork(q)'
  <2>1. AtWork(q) /\ Own(q)' = Own(q) /\ round[q] \in Nat /\ maxrounds \in Nat
    BY <1>1, TreesOfAll DEF AgingInv, Own, AgingTypeOK
  <2>2. CASE at[q] = "over"
    BY <2>1, <2>2 DEF AtWork, Mine
  <2>3. CASE at[q] # "over"
    <3>1. round[q] <= maxrounds
      <4>1. round[q] \in 1 .. maxrounds
        BY <2>1, <2>3 DEF AtWork
      <4> QED
        BY <2>1, <4>1
    <3>2. Own(q) \in Trees \ {Source, Here}
      BY <2>1, <3>1, TreeOfOne
    <3>3. trees'[Own(q)] = trees[Own(q)]
      BY <3>2
    <3> QED
      BY <2>1, <2>3, <3>3 DEF AtWork, Mine
  <2> QED
    BY <2>2, <2>3
<1> QED
  BY <1>3, <1>4 DEF AgingInv

LEMMA FillZeroTrees ==
    ASSUME AgingInv, FillZero
    PROVE  /\ trees' \in [Trees -> TreeStates]
           /\ \A t \in Trees \ {Source, Here} : trees'[t] = trees[t]
<1>1. /\ trees \in [Trees -> TreeStates] /\ Source \in Trees /\ Here \in Trees
      /\ trees[Source] \in TreeStates /\ trees[Here] \in TreeStates
  BY TreesOfAll DEF AgingInv, AgingTypeOK
<1>2. ListWritten \in BOOLEAN /\ Halves(0) \subseteq BOOLEAN
  <2>1. ListWritten \in BOOLEAN
    BY DEF ListWritten
  <2>2. Halves(0) \subseteq BOOLEAN
    BY DEF Halves
  <2> QED
    BY <2>1, <2>2
<1>3. PICK half \in Halves(0) :
        \/ trees' = [trees EXCEPT ![Source] =
                        [None EXCEPT !.there = TRUE, !.revlist = ListWritten, !.torn = half]]
        \/ \E mark \in {half, trees[Source].torn} :
              trees' = [trees EXCEPT ![Source] = WithList(@, mark)]
        \/ trees' = [trees EXCEPT ![Source] = None, ![Here] =
                       IF @.there THEN WithList(@, half) ELSE @]
        \/ trees' = trees
  BY DEF FillZero
<1>4. CASE trees' = [trees EXCEPT ![Source] =
                       [None EXCEPT !.there = TRUE, !.revlist = ListWritten, !.torn = half]]
  <2> DEFINE new == [None EXCEPT !.there = TRUE, !.revlist = ListWritten, !.torn = half]
  <2>1. new \in TreeStates
    BY <1>2 DEF None, TreeStates
  <2>2. trees' = [trees EXCEPT ![Source] = new]
    BY <1>4
  <2> HIDE DEF new
  <2> QED
    BY <1>1, <2>1, <2>2
<1>5. CASE \E mark \in {half, trees[Source].torn} :
             trees' = [trees EXCEPT ![Source] = WithList(@, mark)]
  <2>1. PICK mark \in {half, trees[Source].torn} :
          trees' = [trees EXCEPT ![Source] = WithList(@, mark)]
    BY <1>5
  <2> DEFINE new == WithList(trees[Source], mark)
  <2>2. mark \in BOOLEAN
    BY <1>1, <1>2, <2>1 DEF TreeStates
  <2>3. new \in TreeStates
    BY <1>1, <1>2, <2>2 DEF TreeStates, WithList
  <2>4. trees' = [trees EXCEPT ![Source] = new]
    BY <2>1
  <2> HIDE DEF new
  <2> QED
    BY <1>1, <2>3, <2>4
<1>6. CASE trees' = [trees EXCEPT ![Source] = None, ![Here] =
                       IF @.there THEN WithList(@, half) ELSE @]
  <2> DEFINE new == IF trees[Here].there
                    THEN WithList(trees[Here], half) ELSE trees[Here]
  <2>1. new \in TreeStates /\ None \in TreeStates
    <3>1. None \in TreeStates
      BY DEF TreeStates, None
    <3>2. WithList(trees[Here], half) \in TreeStates
      BY <1>1, <1>2 DEF TreeStates, WithList
    <3> QED
      BY <1>1, <3>1, <3>2
  <2>2. trees' = [[trees EXCEPT ![Source] = None] EXCEPT ![Here] = new]
    <3>1. [trees EXCEPT ![Source] = None][Here] = trees[Here]
      BY <1>1, TreesOfAll
    <3> QED
      BY <1>6, <3>1
  <2> HIDE DEF new
  <2> QED
    BY <1>1, <2>1, <2>2
<1>7. CASE trees' = trees
  BY <1>1, <1>7
<1> QED
  BY <1>3, <1>4, <1>5, <1>6, <1>7

LEMMA ScriptStepInv ==
    ASSUME AgingInv, FillZero \/ SetTrap \/ InterruptEarly \/ Interrupt \/ EndOfWait
    PROVE  AgingInv'
<1>0. AgingTypeOK /\ Unstarted /\ TornForCause /\ trees \in [Trees -> TreeStates]
  BY DEF AgingInv, AgingTypeOK
<1>1. CASE FillZero
  <2>1. /\ script' = "start" /\ setting' = setting /\ p' = p /\ at' = at /\ round' = round
        /\ git' = git /\ refused' = refused /\ spoiled' = TornIn(trees')
    BY <1>1 DEF FillZero
  <2>2. /\ trees' \in [Trees -> TreeStates]
        /\ \A t \in Trees \ {Source, Here} : trees'[t] = trees[t]
    BY <1>1, FillZeroTrees
  <2>3. TornForCause'
    <3> SUFFICES ASSUME NEW t \in Trees, trees'[t].torn = TRUE PROVE Blamed(t)'
      BY DEF TornForCause
    <3>1. t[1] \in TornIn(trees')
      BY DEF TornIn
    <3> QED
      BY <2>1, <3>1 DEF Blamed
  <2>4. Unstarted'
    BY <1>0, <2>1 DEF Unstarted
  <2> QED
    BY <2>1, <2>2, <2>3, <2>4, StepOfScript
<1>2. CASE SetTrap \/ InterruptEarly \/ Interrupt \/ EndOfWait
  <2>1. /\ setting' = setting /\ p' = p /\ trees' = trees /\ round' = round /\ git' = git
        /\ refused' = refused /\ spoiled' = spoiled /\ at' = at
    BY <1>2 DEF SetTrap, InterruptEarly, Interrupt, EndOfWait
  <2>2. script' \in {"wait", "ended"} => p > nconcurrent
    BY <1>0, <1>2 DEF SetTrap, InterruptEarly, Interrupt, EndOfWait, Unstarted
  <2>3. Unstarted'
    BY <1>0, <2>1, <2>2 DEF Unstarted
  <2>4. TornForCause'
    BY <1>0, <2>1, BlamedStays DEF TornForCause
  <2> QED
    BY <1>0, <2>1, <2>3, <2>4, StepOfScript
<1> QED
  BY <1>1, <1>2

\* No git works in the source of all.
LEMMA GitOfOne ==
    ASSUME AgingInv, NEW q \in Processes
    PROVE  git[q] \in {NoTree, Here, Own(q)} /\ git[q] # Source
<1>1. AtWork(q) /\ round[q] \in Nat
  BY DEF AgingInv, AgingTypeOK
<1>2. Own(q) # Source /\ NoTree # Source /\ Here # Source
  BY <1>1, TreesOfAll, TreeOfOne
<1> QED
  BY <1>1, <1>2 DEF AtWork

LEMMA StartStepInv == AgingInv /\ StartOne => AgingInv'
<1> SUFFICES ASSUME AgingInv, StartOne PROVE AgingInv'
  OBVIOUS
<1>0. /\ AgingTypeOK /\ Unstarted /\ TornForCause /\ RefusedHere
      /\ trees \in [Trees -> TreeStates] /\ at \in [Processes -> AgingPlaces]
  BY DEF AgingInv, AgingTypeOK
<1>1. /\ script = "start" /\ p <= nconcurrent /\ p' = p + 1 /\ setting' = setting
      /\ script' = script /\ round' = round /\ git' = git /\ refused' = refused
      /\ spoiled' = spoiled
  BY DEF StartOne
<1>2. p \in Processes /\ p \in Nat \ {0} /\ nconcurrent \in Nat
  BY <1>0, <1>1, TreesOfAll DEF Processes, AgingTypeOK
<1>3. at[p] = "none"
  BY <1>0, <1>2 DEF Unstarted
<1>4. PICK place \in {"snap", "over"} : at' = [at EXCEPT ![p] = place]
  BY DEF StartOne
<1>5. /\ at' \in [Processes -> AgingPlaces] /\ at'[p] = place
      /\ \A q \in Processes \ {p} : at'[q] = at[q]
  BY <1>0, <1>2, <1>4 DEF AgingPlaces
<1>6. CASE setting.script # "aging2"
  <2>1. trees' = trees
    BY <1>6 DEF StartOne
  <2>2. AgingTypeOK' /\ RefusedHere' /\ TornForCause'
    BY <1>0, <1>1, <1>2, <1>5, <2>1, BlamedStays DEF AgingTypeOK, RefusedHere, TornForCause
  <2>3. Unstarted'
    BY <1>0, <1>1, <1>2, <1>5 DEF Unstarted, Processes
  <2>4. ASSUME NEW q \in Processes PROVE AtWork(q)'
    <3>1. AtWork(q) /\ Own(q)' = Own(q)
      BY <1>1 DEF AgingInv, Own
    <3>2. CASE q = p
      BY <1>1, <1>3, <1>5, <3>1, <3>2 DEF AtWork, Mine
    <3>3. CASE q # p
      BY <1>1, <1>5, <2>1, <3>1, <3>3 DEF AtWork, Mine
    <3> QED
      BY <3>2, <3>3
  <2> QED
    BY <2>2, <2>3, <2>4 DEF AgingInv
<1>7. CASE setting.script = "aging2"
  <2> DEFINE to == <<p, 0>>
  <2>1. PICK made \in {Snapshot(Source, to), trees} : trees' = [made EXCEPT ![to].lock = FALSE]
    BY <1>7 DEF StartOne
  <2>2. to \in Trees /\ Source \in Trees
    <3>1. 0 \in 0 .. maxrounds
      BY TreesOfAll
    <3> QED
      BY <1>2, <3>1, TreesOfAll DEF Trees
  <2>3. setting.script \notin Chained
    BY <1>7 DEF Chained
  <2>4. \A q \in Processes : git[q] # Source
    BY GitOfOne
  <2>5. trees[to].torn = TRUE \/ trees[Source].torn = TRUE => Blamed(to)
    <3>1. trees[to].torn = TRUE => Blamed(to)
      BY <1>0, <2>2 DEF TornForCause
    <3>2. trees[Source].torn = TRUE => Source[1] \in spoiled
      <4>1. trees[Source].torn = TRUE => Blamed(Source)
        BY <1>0, <2>2 DEF TornForCause
      <4> QED
        BY <2>3, <4>1 DEF Blamed
    <3>3. Source[1] \in spoiled => Blamed(to)
      BY DEF Blamed
    <3> QED
      BY <3>1, <3>2, <3>3
  <2>6. /\ made \in [Trees -> TreeStates] /\ \A t \in Trees \ {to} : made[t] = trees[t]
        /\ made[to].torn = TRUE => Blamed(to)
    <3>1. CASE made = trees
      BY <1>0, <2>5, <3>1
    <3>2. CASE made = Snapshot(Source, to)
      <4> HIDE DEF to
      <4>1. /\ made \in [Trees -> TreeStates] /\ \A t \in Trees \ {to} : made[t] = trees[t]
            /\ made[to].torn = TRUE =>
                  \/ trees[to].torn = TRUE \/ trees[Source].torn = TRUE
                  \/ \E q \in Processes : git[q] = Source
        BY <1>0, <2>2, <3>2, SnapshotOK
      <4> QED
        BY <2>4, <2>5, <4>1
    <3> QED
      BY <2>1, <3>1, <3>2
  <2>7. /\ trees' \in [Trees -> TreeStates] /\ \A t \in Trees \ {to} : trees'[t] = trees[t]
        /\ trees'[to].torn = TRUE => Blamed(to)
    <3> DEFINE new == [made[to] EXCEPT !.lock = FALSE]
    <3>1. made[to] \in TreeStates
      BY <2>2, <2>6
    <3>2. new \in TreeStates /\ new.torn = made[to].torn
      <4> HIDE DEF to
      <4> QED
        BY <3>1 DEF TreeStates
    <3>3. trees' = [made EXCEPT ![to] = new]
      BY <2>1
    <3> HIDE DEF new, to
    <3> QED
      BY <2>2, <2>6, <3>2, <3>3
  <2>8. AgingTypeOK'
    BY <1>0, <1>1, <1>2, <1>5, <2>7 DEF AgingTypeOK
  <2>9. RefusedHere' /\ TornForCause'
    <3>1. RefusedHere'
      BY <1>0, <1>1 DEF RefusedHere
    <3>2. ASSUME NEW t \in Trees, trees'[t].torn = TRUE PROVE Blamed(t)
      <4> HIDE DEF to
      <4>1. CASE t = to
        BY <2>7, <3>2, <4>1
      <4>2. CASE t # to
        BY <1>0, <2>7, <3>2, <4>2 DEF TornForCause
      <4> QED
        BY <4>1, <4>2
    <3>3. TornForCause'
      BY <1>1, <3>2, BlamedStays DEF TornForCause
    <3> QED
      BY <3>1, <3>3
  <2>10. Unstarted'
    BY <1>0, <1>1, <1>2, <1>5 DEF Unstarted, Processes
  <2>11. ASSUME NEW q \in Processes PROVE AtWork(q)'
    <3>1. AtWork(q) /\ Own(q)' = Own(q)
      BY <1>1 DEF AgingInv, Own
    <3>2. CASE q = p
      BY <1>1, <1>3, <1>5, <3>1, <3>2 DEF AtWork, Mine
    <3>3. CASE q # p
      <4>1. Mine(q) => trees'[Own(q)] = trees[Own(q)]
        <5>1. Mine(q) => round[q] \in 1 .. maxrounds
          BY <3>1 DEF AtWork, Mine
        <5>2. Own(q) = <<q, round[q]>> /\ q # p
          BY <1>7, <3>3 DEF Own
        <5>3. Own(q) # to
          BY <5>2
        <5>4. Mine(q) => Own(q) \in Trees
          <6>1. round[q] \in Nat /\ maxrounds \in Nat
            BY <1>0, TreesOfAll DEF AgingTypeOK
          <6>2. Mine(q) => round[q] <= maxrounds
            BY <5>1, <6>1
          <6> QED
            BY <6>1, <6>2, TreeOfOne
        <5> QED
          BY <2>7, <5>3, <5>4
      <4> QED
        BY <1>1, <1>5, <3>1, <3>3, <4>1 DEF AtWork, Mine
    <3> QED
      BY <3>2, <3>3
  <2> QED
    BY <2>8, <2>9, <2>10, <2>11 DEF AgingInv
<1> QED
  BY <1>6, <1>7

\* The lock or the mark of one tree is changed.
LEMMA OneTree ==
    ASSUME trees \in [Trees -> TreeStates], NEW t \in Trees, NEW new \in TreeStates,
           trees' = [trees EXCEPT ![t] = new]
    PROVE  /\ trees' \in [Trees -> TreeStates] /\ trees'[t] = new
           /\ \A u \in Trees \ {t} : trees'[u] = trees[u]
  OBVIOUS

LEMMA ProcessStepInv ==
    ASSUME AgingInv, NEW q \in Processes, Process(q)
    PROVE  AgingInv'
<1>0. /\ AgingTypeOK /\ Unstarted /\ TornForCause /\ RefusedHere /\ AtWork(q)
      /\ trees \in [Trees -> TreeStates] /\ at \in [Processes -> AgingPlaces]
      /\ round \in [Processes -> Nat] /\ git \in [Processes -> Trees \cup {NoTree}]
      /\ round[q] \in Nat /\ maxrounds \in Nat \ {0} /\ q \in Nat \ {0}
  BY TreesOfAll DEF AgingInv, AgingTypeOK
<1>1. Own(q) # Here /\ Own(q) # NoTree /\ (at[q] # "over" => Own(q) \in Trees)
  <2>1. at[q] # "over" => round[q] \in 1 .. maxrounds
    BY <1>0 DEF AtWork
  <2>2. at[q] # "over" => round[q] <= maxrounds
    BY <1>0, <2>1
  <2> QED
    BY <1>0, <2>2, TreeOfOne
<1>2. setting' = setting /\ script' = script /\ p' = p
  BY DEF Process, NotStarted, Snap, RemoveLock, BeginCheckout, EndCheckout, CheckoutFails,
         NextCommit, Over
<1>3. at[q] # "none"
  BY <1>0 DEF Process, NotStarted, Snap, RemoveLock, BeginCheckout, EndCheckout, CheckoutFails,
              NextCommit, Over, Goes, AtWork
<1>4. Cwd(q) \in {Own(q), Here} /\ Here \in Trees /\ Here # NoTree
  BY TreesOfAll DEF Cwd
<1> DEFINE others == \A u \in Processes \ {q} :
                       at'[u] = at[u] /\ round'[u] = round[u] /\ git'[u] = git[u]
<1>5. CASE Snap(q)
  <2>1. /\ at[q] = "snap" /\ \E to \in {"rm lock", "over"} : at' = [at EXCEPT ![q] = to]
        /\ round' = round /\ git' = git /\ refused' = refused /\ spoiled \subseteq spoiled'
    BY <1>5 DEF Snap, Goes
  <2>2. \/ trees' = Snapshot(Origin(q), Own(q)) \/ trees' = trees
        \/ /\ trees' = [trees EXCEPT ![Own(q)] = [trees[Source] EXCEPT !.torn = TRUE]]
           /\ q \in spoiled'
    BY <1>5 DEF Snap
  <2>3. git[q] = NoTree /\ round[q] \in 1 .. maxrounds /\ Own(q) \in Trees
    BY <1>0, <1>1, <2>1 DEF AtWork
  <2>4. Origin(q) \in Trees
    <3>1. CASE setting.script \in Chained
      <4>1. Origin(q) = <<q - 1, 0>>
        BY <3>1 DEF Origin
      <4>2. CASE q = 1
        BY <4>1, <4>2, TreesOfAll DEF Source
      <4>3. CASE q # 1
        <5>1. q - 1 \in Processes /\ 0 \in 0 .. maxrounds
          BY <1>0, <4>3, TreesOfAll DEF Processes
        <5> QED
          BY <4>1, <5>1 DEF Trees
      <4> QED
        BY <4>2, <4>3
    <3>2. CASE setting.script \notin Chained /\ setting.script = "aging2"
      <4>1. Origin(q) = <<q, round[q] - 1>> /\ round[q] - 1 \in 0 .. maxrounds
        BY <1>0, <2>3, <3>2 DEF Origin
      <4> QED
        BY <4>1 DEF Trees
    <3>3. CASE setting.script \notin Chained /\ setting.script # "aging2"
      BY <3>3, TreesOfAll DEF Origin
    <3> QED
      BY <3>1, <3>2, <3>3
  <2>5. \A u \in Processes : git[u] = Origin(q) => setting.script \in Chained /\ q > 1
    <3> SUFFICES ASSUME NEW u \in Processes, git[u] = Origin(q)
                 PROVE  setting.script \in Chained /\ q > 1
      OBVIOUS
    <3>1. git[u] \in {NoTree, Here, Own(u)} /\ git[u] # Source /\ git[u] \in Trees
      BY <2>4, GitOfOne
    <3>2. CASE setting.script \in Chained
      <4>1. q # 1
        BY <3>1, <3>2 DEF Origin, Source
      <4> QED
        BY <1>0, <3>2, <4>1
    <3>3. CASE setting.script \notin Chained
      <4>1. Origin(q) = <<q, round[q] - 1>> /\ setting.script = "aging2"
        BY <3>1, <3>3 DEF Origin
      <4>2. git[u] # Here
        BY <1>0, <4>1 DEF Here
      <4>3. git[u] = Own(u) /\ Own(u) = <<u, round[u]>>
        BY <3>1, <4>1, <4>2, TreesOfAll DEF Own
      <4>4. u = q
        BY <4>1, <4>3
      <4> QED
        BY <2>3, <3>1, <4>4, TreesOfAll
    <3> QED
      BY <3>2, <3>3
  <2>6. /\ trees' \in [Trees -> TreeStates] /\ \A t \in Trees \ {Own(q)} : trees'[t] = trees[t]
        /\ trees'[Own(q)].torn = TRUE => Blamed(Own(q))'
    <3>1. Own(q)[1] = q
      BY <1>0, TreeOfOne
    <3>2. /\ trees[Own(q)].torn = TRUE => Blamed(Own(q))
          /\ Blamed(Own(q)) => Blamed(Own(q))'
      <4>1. Own(q)' = Own(q)
        BY <1>2, <2>1 DEF Own
      <4>2. Blamed(Own(q)) => Blamed(Own(q))'
        BY <1>2, <2>1, <4>1 DEF Blamed
      <4> QED
        BY <1>0, <2>3, <4>2 DEF TornForCause
    <3>3. trees[Origin(q)].torn = TRUE => Blamed(Own(q))
      <4>1. trees[Origin(q)].torn = TRUE => Blamed(Origin(q))
        BY <1>0, <2>4 DEF TornForCause
      <4>2. CASE setting.script \in Chained /\ q > 1
        BY <3>1, <4>2 DEF Blamed
      <4>3. CASE setting.script \in Chained /\ ~(q > 1)
        <5>1. Origin(q)[1] = 0
          BY <1>0, <4>3 DEF Origin
        <5>2. Source[1] = 0
          BY DEF Source
        <5> QED
          BY <4>1, <5>1, <5>2 DEF Blamed
      <4>4. CASE setting.script \notin Chained
        <5>1. Origin(q)[1] \in {q, Source[1]}
          BY <4>4 DEF Origin
        <5> QED
          BY <3>1, <4>1, <4>4, <5>1 DEF Blamed
      <4> QED
        BY <4>2, <4>3, <4>4
    <3>4. CASE trees' = trees
      BY <1>0, <3>2, <3>4
    <3>6. CASE /\ trees' = [trees EXCEPT ![Own(q)] = [trees[Source] EXCEPT !.torn = TRUE]]
               /\ q \in spoiled'
      <4> DEFINE new == [trees[Source] EXCEPT !.torn = TRUE]
      <4>1. trees[Source] \in TreeStates
        BY <1>0, TreesOfAll
      <4>2. new \in TreeStates
        BY <4>1 DEF TreeStates
      <4>3. trees' = [trees EXCEPT ![Own(q)] = new]
        BY <3>6
      <4> HIDE DEF new
      <4>4. trees' \in [Trees -> TreeStates] /\ \A t \in Trees \ {Own(q)} : trees'[t] = trees[t]
        BY <1>0, <2>3, <4>2, <4>3, OneTree
      <4>5. Blamed(Own(q))'
        <5>1. Own(q)' = Own(q)
          BY <1>2, <2>1 DEF Own
        <5> QED
          BY <3>1, <3>6, <5>1 DEF Blamed
      <4> QED
        BY <4>4, <4>5
    <3>5. CASE trees' = Snapshot(Origin(q), Own(q))
      <4>1. /\ trees' \in [Trees -> TreeStates]
            /\ \A t \in Trees \ {Own(q)} : trees'[t] = trees[t]
            /\ trees'[Own(q)].torn = TRUE =>
                  \/ trees[Own(q)].torn = TRUE \/ trees[Origin(q)].torn = TRUE
                  \/ \E u \in Processes : git[u] = Origin(q)
        <5> DEFINE from == Origin(q)
                   to == Own(q)
        <5>1. from \in Trees /\ to \in Trees /\ trees' = Snapshot(from, to)
          BY <2>3, <2>4, <3>5
        <5> HIDE DEF from, to
        <5> DEFINE made == Snapshot(from, to)
        <5>2. /\ made \in [Trees -> TreeStates]
              /\ \A t \in Trees \ {to} : made[t] = trees[t]
          BY <1>0, <5>1, SnapshotOK
        <5>3. made[to].torn = TRUE => \/ trees[to].torn = TRUE \/ trees[from].torn = TRUE
                                      \/ \E u \in Processes : git[u] = from
          BY <1>0, <5>1, SnapshotOK, Zenon
        <5>4. trees' = made
          BY <5>1
        <5> HIDE DEF made
        <5> QED
          BY <5>2, <5>3, <5>4 DEF from, to
      <4>2. setting.script \in Chained /\ q > 1 => Blamed(Own(q))
        BY <3>1 DEF Blamed
      <4> QED
        BY <2>5, <3>2, <3>3, <4>1, <4>2
    <3> QED
      BY <2>2, <3>4, <3>5, <3>6
  <2>7. TornForCause'
    <3>1. Own(q)' = Own(q)
      BY <1>2, <2>1 DEF Own
    <3> SUFFICES ASSUME NEW t \in Trees, trees'[t].torn = TRUE PROVE Blamed(t)'
      BY DEF TornForCause
    <3>2. CASE t = Own(q)
      BY <2>6, <3>1, <3>2
    <3>3. CASE t # Own(q)
      <4>1. Blamed(t)
        BY <1>0, <2>6, <3>3 DEF TornForCause
      <4> QED
        BY <1>2, <2>1, <4>1, BlamedStays
    <3> QED
      BY <3>2, <3>3
  <2>8. /\ at' \in [Processes -> AgingPlaces] /\ at'[q] \in {"rm lock", "over"} /\ others
    BY <1>0, <2>1 DEF AgingPlaces
  <2>9. AtWork(q)'
    BY <2>1, <2>3, <2>8 DEF AtWork, Mine
  <2>10. RefusedHere'
    BY <1>0, <1>2, <2>1 DEF RefusedHere
  <2> QED
    BY <1>0, <1>2, <1>3, <2>1, <2>6, <2>7, <2>8, <2>9, <2>10, StepOfProcess
<1>6. CASE RemoveLock(q)
  <2>1. /\ at[q] = "rm lock" /\ \E to \in {"checkout", "over"} : at' = [at EXCEPT ![q] = to]
        /\ round' = round /\ git' = git /\ refused' = refused /\ spoiled' = spoiled
        /\ trees' = IF setting.script \in RemovesLock THEN Unlocked(Own(q)) ELSE trees
    BY <1>6 DEF RemoveLock, Goes
  <2>2. git[q] = NoTree /\ round[q] \in 1 .. maxrounds /\ Own(q) \in Trees
    BY <1>0, <1>1, <2>1 DEF AtWork
  <2>3. /\ trees' \in [Trees -> TreeStates] /\ \A t \in Trees \ {Own(q)} : trees'[t] = trees[t]
        /\ trees'[Own(q)].torn = trees[Own(q)].torn
        /\ setting.script \in RemovesLock => trees'[Own(q)].lock = FALSE
    <3>1. CASE setting.script \in RemovesLock
      <4> DEFINE new == [trees[Own(q)] EXCEPT !.lock = FALSE]
      <4>1. trees[Own(q)] \in TreeStates
        BY <1>0, <2>2
      <4>2. new \in TreeStates /\ new.torn = trees[Own(q)].torn /\ new.lock = FALSE
        BY <4>1 DEF TreeStates
      <4>3. trees' = [trees EXCEPT ![Own(q)] = new]
        BY <2>1, <3>1 DEF Unlocked
      <4> HIDE DEF new
      <4> QED
        BY <1>0, <2>2, <4>2, <4>3, OneTree
    <3>2. CASE setting.script \notin RemovesLock
      BY <1>0, <2>1, <3>2
    <3> QED
      BY <3>1, <3>2
  <2>4. TornForCause' /\ RefusedHere'
    BY <1>0, <1>2, <2>1, <2>2, <2>3, BlamedStays DEF TornForCause, RefusedHere
  <2>5. at' \in [Processes -> AgingPlaces] /\ at'[q] \in {"checkout", "over"} /\ others
    BY <1>0, <2>1 DEF AgingPlaces
  <2>6. AtWork(q)'
    <3>1. Own(q)' = Own(q)
      BY <1>2, <2>1 DEF Own
    <3> QED
      BY <1>2, <2>1, <2>2, <2>3, <2>5, <3>1 DEF AtWork, Mine
  <2> QED
    BY <1>0, <1>2, <1>3, <2>1, <2>3, <2>4, <2>5, <2>6, StepOfProcess
<1>7. CASE BeginCheckout(q)
  <2>1. /\ at[q] = "checkout" /\ at' = [at EXCEPT ![q] = "in checkout"] /\ round' = round
        /\ git' = [git EXCEPT ![q] = Cwd(q)] /\ refused' = refused /\ spoiled' = spoiled
        /\ trees' = [trees EXCEPT ![Cwd(q)].lock = TRUE]
    BY <1>7 DEF BeginCheckout, Goes, GoesOn
  <2>2. /\ git[q] = NoTree /\ round[q] \in 1 .. maxrounds /\ Own(q) \in Trees
        /\ setting.script \in RemovesLock => trees[Own(q)].lock # TRUE
    BY <1>0, <1>1, <2>1 DEF AtWork, Mine
  <2>3. Cwd(q) \in Trees
    BY <1>4, <2>2
  <2>4. /\ trees' \in [Trees -> TreeStates] /\ \A t \in Trees \ {Cwd(q)} : trees'[t] = trees[t]
        /\ trees'[Cwd(q)].torn = trees[Cwd(q)].torn
    <3> DEFINE new == [trees[Cwd(q)] EXCEPT !.lock = TRUE]
    <3>1. trees[Cwd(q)] \in TreeStates
      BY <1>0, <2>3
    <3>2. new \in TreeStates /\ new.torn = trees[Cwd(q)].torn
      BY <3>1 DEF TreeStates
    <3>3. trees' = [trees EXCEPT ![Cwd(q)] = new]
      BY <2>1
    <3> HIDE DEF new
    <3> QED
      BY <1>0, <2>3, <3>2, <3>3, OneTree
  <2>5. TornForCause' /\ RefusedHere'
    BY <1>0, <1>2, <2>1, <2>3, <2>4, BlamedStays DEF TornForCause, RefusedHere
  <2>6. /\ at' \in [Processes -> AgingPlaces] /\ at'[q] = "in checkout" /\ others
        /\ git' \in [Processes -> Trees \cup {NoTree}] /\ git'[q] = Cwd(q)
    BY <1>0, <2>1, <2>3 DEF AgingPlaces
  <2>7. AtWork(q)'
    <3>1. Own(q)' = Own(q)
      BY <1>2, <2>1 DEF Own
    <3>2. Cwd(q) # Own(q) => trees'[Own(q)] = trees[Own(q)]
      BY <2>2, <2>4
    <3> QED
      BY <1>2, <1>4, <2>1, <2>2, <2>6, <3>1, <3>2 DEF AtWork, Mine
  <2>8. \A t \in Trees \ {Own(q), Here} : trees'[t] = trees[t]
    BY <1>4, <2>4
  <2> QED
    BY <1>0, <1>2, <1>3, <2>1, <2>4, <2>5, <2>6, <2>7, <2>8, StepOfProcess
<1>8. CASE EndCheckout(q)
  <2>1. /\ git[q] # NoTree /\ git' = [git EXCEPT ![q] = NoTree] /\ round' = round /\ at' = at
        /\ refused' = refused
    BY <1>8 DEF EndCheckout
  <2>2. PICK half \in BOOLEAN :
          /\ trees' = [trees EXCEPT ![git[q]] = [@ EXCEPT !.lock = FALSE, !.torn = half]]
          /\ spoiled' = IF half THEN spoiled \cup {git[q][1]} ELSE spoiled
    BY <1>8 DEF EndCheckout, Halves
  <2>3. at[q] \in {"in checkout", "over"} /\ git[q] \in {Own(q), Here} /\ git[q] \in Trees
    BY <1>0, <2>1 DEF AtWork, AgingPlaces
  <2>4. /\ trees' \in [Trees -> TreeStates] /\ \A t \in Trees \ {git[q]} : trees'[t] = trees[t]
        /\ trees'[git[q]].torn = half /\ trees'[git[q]].lock = FALSE
    <3> DEFINE new == [trees[git[q]] EXCEPT !.lock = FALSE, !.torn = half]
    <3>1. trees[git[q]] \in TreeStates
      BY <1>0, <2>3
    <3>2. new \in TreeStates /\ new.torn = half /\ new.lock = FALSE
      BY <3>1 DEF TreeStates
    <3>3. trees' = [trees EXCEPT ![git[q]] = new]
      BY <1>0, <2>2, <2>3
    <3> HIDE DEF new
    <3> QED
      BY <1>0, <2>3, <3>2, <3>3, OneTree
  <2>5. TornForCause' /\ RefusedHere'
    <3>1. RefusedHere'
      BY <1>0, <1>2, <2>1 DEF RefusedHere
    <3> SUFFICES ASSUME NEW t \in Trees, trees'[t].torn = TRUE PROVE Blamed(t)'
      BY <3>1 DEF TornForCause
    <3>2. CASE t = git[q]
      <4>1. half = TRUE
        BY <2>4, <3>2
      <4>2. t[1] \in spoiled'
        BY <2>2, <3>2, <4>1
      <4> QED
        BY <4>2 DEF Blamed
    <3>3. CASE t # git[q]
      <4>1. Blamed(t) /\ spoiled \subseteq spoiled'
        BY <1>0, <2>2, <2>4, <3>3 DEF TornForCause
      <4> QED
        BY <1>2, <4>1, BlamedStays
    <3> QED
      BY <3>2, <3>3
  <2>6. git' \in [Processes -> Trees \cup {NoTree}] /\ git'[q] = NoTree /\ others
    BY <1>0, <2>1
  <2>7. AtWork(q)'
    <3>1. Own(q)' = Own(q) /\ Mine(q)' = Mine(q)
      BY <1>2, <2>1 DEF Own, Mine
    <3>2. setting.script \in RemovesLock /\ Mine(q) => trees'[Own(q)].lock # TRUE
      <4>1. CASE git[q] = Own(q)
        BY <2>4, <4>1
      <4>2. CASE git[q] # Own(q)
        <5>1. setting.script \in RemovesLock /\ Mine(q) => trees[Own(q)].lock # TRUE
          BY <1>0, <4>2 DEF AtWork
        <5>2. Mine(q) => trees'[Own(q)] = trees[Own(q)]
          BY <1>1, <2>4, <4>2 DEF Mine
        <5> QED
          BY <5>1, <5>2
      <4> QED
        BY <4>1, <4>2
    <3> QED
      BY <1>0, <1>2, <2>1, <2>6, <3>1, <3>2 DEF AtWork
  <2>8. \A t \in Trees \ {Own(q), Here} : trees'[t] = trees[t]
    BY <2>3, <2>4
  <2> QED
    BY <1>0, <1>2, <1>3, <2>1, <2>4, <2>5, <2>6, <2>7, <2>8, StepOfProcess
<1>9. CASE CheckoutFails(q)
  <2>1. /\ at[q] = "checkout" /\ at' = [at EXCEPT ![q] = "in checkout"] /\ round' = round
        /\ git' = git /\ trees' = trees /\ spoiled' = spoiled
        /\ refused' = IF trees[Cwd(q)].lock THEN refused \cup {Cwd(q)} ELSE refused
    BY <1>9 DEF CheckoutFails, Goes, GoesOn
  <2>2. /\ git[q] = NoTree /\ round[q] \in 1 .. maxrounds /\ Own(q) \in Trees
        /\ setting.script \in RemovesLock => trees[Own(q)].lock # TRUE
    BY <1>0, <1>1, <2>1 DEF AtWork, Mine
  <2>3. setting.script \in RemovesLock => refused' \subseteq {Here}
    <3>1. trees[Own(q)].lock \in BOOLEAN
      <4>1. trees[Own(q)] \in TreeStates
        BY <1>0, <2>2
      <4> QED
        BY <4>1 DEF TreeStates
    <3>2. setting.script \in RemovesLock => (trees[Cwd(q)].lock => Cwd(q) = Here)
      BY <1>4, <2>2, <3>1
    <3> QED
      BY <1>0, <2>1, <3>2 DEF RefusedHere
  <2>4. TornForCause' /\ RefusedHere'
    BY <1>0, <1>2, <2>1, <2>3, BlamedStays DEF TornForCause, RefusedHere
  <2>5. at' \in [Processes -> AgingPlaces] /\ at'[q] = "in checkout" /\ others
    BY <1>0, <2>1 DEF AgingPlaces
  <2>6. AtWork(q)'
    <3>1. Own(q)' = Own(q)
      BY <1>2, <2>1 DEF Own
    <3> QED
      BY <1>2, <2>1, <2>2, <2>5, <3>1 DEF AtWork, Mine
  <2> QED
    BY <1>0, <1>2, <1>3, <2>1, <2>4, <2>5, <2>6, StepOfProcess
<1>10. CASE NextCommit(q)
  <2> DEFINE next == IF round[q] = maxrounds THEN "over"
                     ELSE IF setting.script = "aging2" THEN "snap" ELSE "checkout"
             place == IF script = "ended" /\ ~GoesOn("in checkout") THEN "over" ELSE next
  <2>1. /\ at[q] = "in checkout" /\ at' = [at EXCEPT ![q] = place] /\ git[q] = NoTree
        /\ round' = [round EXCEPT ![q] = @ + 1]
        /\ git' = git /\ trees' = trees /\ refused' = refused /\ spoiled' = spoiled
    BY <1>10 DEF NextCommit, Goes
  <2>2. /\ round[q] \in 1 .. maxrounds /\ Own(q) \in Trees
        /\ setting.script \in RemovesLock => trees[Own(q)].lock # TRUE
    BY <1>0, <1>1, <2>1 DEF AtWork, Mine
  <2>3. TornForCause' /\ RefusedHere'
    BY <1>0, <1>2, <2>1, BlamedStays DEF TornForCause, RefusedHere
  <2>4. /\ place \in {"over", "snap", "checkout"}
        /\ place # "over" => round[q] + 1 \in 1 .. maxrounds
        /\ place = "checkout" => setting.script # "aging2"
    <3>1. /\ next \in {"over", "snap", "checkout"}
          /\ next # "over" => round[q] + 1 \in 1 .. maxrounds
          /\ next = "checkout" => setting.script # "aging2"
      BY <1>0, <2>2
    <3>2. place \in {"over", next}
      OBVIOUS
    <3> HIDE DEF next, place
    <3> QED
      BY <3>1, <3>2
  <2> HIDE DEF place
  <2>5. /\ at' \in [Processes -> AgingPlaces] /\ at'[q] = place /\ others
        /\ round' \in [Processes -> Nat] /\ round'[q] = round[q] + 1
    <3>1. at' \in [Processes -> AgingPlaces] /\ at'[q] = place
      BY <1>0, <2>1, <2>4 DEF AgingPlaces
    <3>2. round[q] + 1 \in Nat
      BY <1>0
    <3>3. round' \in [Processes -> Nat] /\ round'[q] = round[q] + 1
      BY <1>0, <2>1, <3>2
    <3>4. others
      BY <1>0, <2>1
    <3> QED
      BY <3>1, <3>3, <3>4
  <2>6. AtWork(q)'
    <3>1. place = "checkout" => Own(q)' = Own(q)
      BY <1>2, <2>4 DEF Own
    <3> QED
      BY <1>2, <2>1, <2>2, <2>4, <2>5, <3>1 DEF AtWork, Mine
  <2> QED
    BY <1>0, <1>2, <1>3, <2>1, <2>3, <2>5, <2>6, StepOfProcess
<1>11. CASE Over(q) \/ NotStarted(q)
  <2>1. /\ at[q] \in {"snap", "rm lock", "checkout"} /\ at' = [at EXCEPT ![q] = "over"]
        /\ round' = round /\ git' = git /\ trees' = trees /\ refused' = refused
        /\ spoiled' = spoiled
    BY <1>11 DEF Over, Goes, NotStarted
  <2>2. TornForCause' /\ RefusedHere'
    BY <1>0, <1>2, <2>1, BlamedStays DEF TornForCause, RefusedHere
  <2>3. at' \in [Processes -> AgingPlaces] /\ at'[q] = "over" /\ others
    BY <1>0, <2>1 DEF AgingPlaces
  <2>4. AtWork(q)'
    <3>1. Own(q)' = Own(q)
      BY <1>2, <2>1 DEF Own
    <3> QED
      BY <1>0, <1>2, <2>1, <2>3, <3>1 DEF AtWork, Mine
  <2> QED
    BY <1>0, <1>2, <1>3, <2>1, <2>2, <2>3, <2>4, StepOfProcess
<1> QED
  BY <1>5, <1>6, <1>7, <1>8, <1>9, <1>10, <1>11 DEF Process

LEMMA AgingStepInv == AgingInv /\ [AgingNext]_agingVars => AgingInv'
<1> SUFFICES ASSUME AgingInv, [AgingNext]_agingVars PROVE AgingInv'
  OBVIOUS
<1>1. CASE UNCHANGED agingVars
  <2>1. /\ setting' = setting /\ script' = script /\ p' = p /\ trees' = trees /\ at' = at
        /\ round' = round /\ git' = git /\ refused' = refused /\ spoiled' = spoiled
    BY <1>1 DEF agingVars
  <2>2. AgingTypeOK' /\ Unstarted' /\ RefusedHere' /\ TornForCause'
    BY <2>1, BlamedStays DEF AgingInv, AgingTypeOK, Unstarted, RefusedHere, TornForCause
  <2>3. \A q \in Processes : AtWork(q)'
    BY <2>1 DEF AgingInv, AtWork, Mine, Own
  <2> QED
    BY <2>2, <2>3 DEF AgingInv
<1> QED
  BY <1>1, ScriptStepInv, StartStepInv, ProcessStepInv DEF AgingNext

LEMMA AgingInvariance == AgingSpec => []AgingInv
  BY AgingInitInv, AgingStepInv, PTL DEF AgingSpec

\* Where a process is to check out no lock of another stands in its way, in the scripts that
\* remove the one that was copied, for any number of processes and rounds.
THEOREM UnlockedWorkAlways == AgingSpec => []UnlockedWork
<1>1. AgingInv => UnlockedWork
  <2> SUFFICES ASSUME AgingInv, setting.script \in RemovesLock
               PROVE  /\ \A q \in Processes : Mine(q) /\ trees[Own(q)].lock => git[q] = Own(q)
                      /\ refused \subseteq {Here}
    BY DEF UnlockedWork
  <2>1. refused \subseteq {Here}
    BY DEF AgingInv, RefusedHere
  <2>2. ASSUME NEW q \in Processes, Mine(q), trees[Own(q)].lock PROVE git[q] = Own(q)
    <3>1. AtWork(q) /\ AgingTypeOK /\ round[q] \in Nat /\ maxrounds \in Nat
      BY TreesOfAll DEF AgingInv, AgingTypeOK
    <3>2. round[q] \in 1 .. maxrounds
      BY <2>2, <3>1 DEF AtWork, Mine
    <3>3. round[q] <= maxrounds
      BY <3>1, <3>2
    <3>4. Own(q) \in Trees
      BY <3>1, <3>3, TreeOfOne
    <3>5. trees[Own(q)] \in TreeStates
      BY <3>1, <3>4 DEF AgingTypeOK
    <3>6. trees[Own(q)].lock = TRUE
      BY <2>2, <3>5 DEF TreeStates
    <3> QED
      BY <2>2, <3>1, <3>6 DEF AtWork
  <2> QED
    BY <2>1, <2>2
<1> QED
  BY <1>1, AgingInvariance, PTL

\* For any number of processes and rounds a torn tree has one of these causes: its process
\* copies that of another at work, directly or through the chain of action2 and git-aging; or
\* a checkout or a copy has failed half way in a tree of that process or in the source of all.
THEOREM AtRestAlways == AgingSpec => []AtRest
<1>1. AgingInv => AtRest
  <2> SUFFICES ASSUME AgingInv, NEW t \in Trees, trees[t].torn
               PROVE  Blamed(t)
    BY DEF AtRest
  <2>1. trees[t] \in TreeStates
    BY DEF AgingInv, AgingTypeOK
  <2>2. trees[t].torn = TRUE
    BY <2>1 DEF TreeStates
  <2> QED
    BY <2>2 DEF AgingInv, TornForCause
<1> QED
  BY <1>1, AgingInvariance, PTL

(***************************************************************************)
(* sparse-cp: with one block after the other the copy is the file up to    *)
(* the last block that had any data in it, and what it lacks is zeros.     *)
(***************************************************************************)

LEMMA ProductsGrow ==
    ASSUME NEW b \in Nat \ {0}, NEW x \in Int, NEW y \in Int, x < y
    PROVE  x * b + b <= y * b
<1>1. PICK d \in Nat : y = x + 1 + d
  <2>1. y - x - 1 \in Nat /\ y = x + 1 + (y - x - 1)
    OBVIOUS
  <2> QED BY <2>1
<1>2. y * b = x * b + b + d * b
  BY <1>1
<1>3. d * b >= 0 /\ d * b \in Int /\ x * b \in Int
  OBVIOUS
<1> QED BY <1>2, <1>3

LEMMA Division ==
    ASSUME NEW m \in Nat, NEW b \in Nat \ {0}
    PROVE  /\ m \div b \in Int /\ m % b \in 0 .. b - 1
           /\ m = (m \div b) * b + (m % b)
OBVIOUS

\* The multiples of b behind one of them.
LEMMA NextMultiple ==
    ASSUME NEW b \in Nat \ {0}, NEW o \in Nat, o % b = 0
    PROVE  /\ (o + b) % b = 0
           /\ \A h \in o + 1 .. o + b : h % b = 0 => h = o + b
           /\ \A m \in o .. o + b - 1 : (m \div b) * b = o
<1>1. PICK q \in Int : o = q * b
  <2> DEFINE v == o \div b
             vb == v * b
  <2>1. v \in Int /\ o = vb + (o % b)
    BY Division
  <2>2. vb \in Int
    BY <2>1
  <2> HIDE DEF vb
  <2>3. o = vb
    BY <2>1, <2>2
  <2> QED BY <2>1, <2>3 DEF vb
<1>2. (o + b) % b = 0
  <2>1. \A r \in Int : (r * b) % b = 0
    OBVIOUS
  <2>2. o + b = (q + 1) * b
    BY <1>1
  <2> QED BY <2>1, <2>2
<1>3. ASSUME NEW h \in o + 1 .. o + b, h % b = 0
      PROVE  h = o + b
  <2>1. PICK r \in Int : h = r * b
    <3> DEFINE v == h \div b
               vb == v * b
    <3>1. h \in Nat /\ v \in Int /\ h = vb + (h % b)
      BY Division
    <3>2. vb \in Int
      BY <3>1
    <3> HIDE DEF vb
    <3>3. h = vb
      BY <1>3, <3>1, <3>2
    <3> QED BY <3>1, <3>3 DEF vb
  <2>2. q * b \in Int /\ r * b \in Int /\ (q + 1) * b = q * b + b
    OBVIOUS
  <2>3. CASE r <= q
    <3>1. r = q \/ r * b + b <= q * b
      BY <2>3, ProductsGrow
    <3> QED BY <1>1, <2>1, <2>2, <3>1
  <2>4. CASE r > q + 1
    <3>1. (q + 1) * b + b <= r * b
      BY <2>4, ProductsGrow
    <3> QED BY <1>1, <2>1, <2>2, <3>1
  <2>5. CASE r = q + 1
    BY <1>1, <2>1, <2>2, <2>5
  <2> QED BY <2>3, <2>4, <2>5
<1>4. ASSUME NEW m \in o .. o + b - 1
      PROVE  (m \div b) * b = o
  <2> DEFINE r == m \div b
             s == m % b
  <2>1. r \in Int /\ s \in 0 .. b - 1 /\ m = r * b + s
    BY Division
  <2> HIDE DEF r, s
  <2>2. q * b \in Int /\ r * b \in Int /\ s \in Int
    BY <2>1
  <2>3. CASE r < q
    <3>1. r * b + b <= q * b
      BY <2>1, <2>3, ProductsGrow
    <3> QED BY <1>1, <2>1, <2>2, <3>1
  <2>4. CASE r > q
    <3>1. q * b + b <= r * b
      BY <2>1, <2>4, ProductsGrow
    <3> QED BY <1>1, <2>1, <2>2, <3>1
  <2>5. CASE r = q
    BY <1>1, <2>5 DEF r
  <2> QED BY <2>1, <2>3, <2>4, <2>5
<1> QED BY <1>2, <1>3, <1>4

LEMMA SameLength ==
    ASSUME NEW x \in Nat, NEW y \in Nat, 1 .. x = 1 .. y
    PROVE  x = y
<1>1. ASSUME x < y
      PROVE  FALSE
  <2>1. y \in 1 .. y /\ y \notin 1 .. x
    BY <1>1
  <2> QED BY <2>1
<1>2. ASSUME y < x
      PROVE  FALSE
  <2>1. x \in 1 .. x /\ x \notin 1 .. y
    BY <1>2
  <2> QED BY <2>1
<1> QED BY <1>1, <1>2

\* As far as the file was read, and the ends of its blocks up to there that are not of
\* zeros, or the start.
ReadTo == Least(off, Len(src))
BlockEnds == {0} \cup {h \in 1 .. ReadTo : h % bs = 0 /\ SubSeq(src, h - bs + 1, h) # Zeros}

CopyShape ==
    /\ src \in Contents /\ src \in Seq(Nat) /\ out \in Seq(Nat)
    /\ off \in Nat /\ pos \in Nat /\ off % bs = 0

\* Before the last block the copy is the file up to the last data, where it is written
\* next; from there on the file has zeros.
CopyBehind ==
    off <= Len(src) =>
        /\ pos <= off /\ Len(out) = pos
        /\ \A j \in 1 .. pos : out[j] = src[j]
        /\ \A j \in 1 .. off : j > pos => src[j] = 0
        /\ pos \in BlockEnds /\ \A l \in BlockEnds : l <= pos

CopyInv == CopyShape /\ CopyBehind /\ (off > Len(src) => CopyExact)

LEMMA DataEndIs ==
    ASSUME pos \in BlockEnds, \A l \in BlockEnds : l <= pos, CopyShape
    PROVE  DataEnd = pos
<1>1. BlockEnds \subseteq Int
  BY DEF BlockEnds, ReadTo, Least, CopyShape
<1>2. \A h \in BlockEnds : (\A l \in BlockEnds : l <= h) => h = pos
  BY <1>1
<1>3. DataEnd = CHOOSE h \in BlockEnds : \A l \in BlockEnds : l <= h
  BY DEF DataEnd, BlockEnds, ReadTo
<1> QED BY <1>2, <1>3

\* Before the last block it is enough to know the copy byte by byte.
LEMMA ExactBehind ==
    ASSUME CopyShape, CopyBehind, off <= Len(src)
    PROVE  CopyExact
<1>1. Len(src) \in Nat /\ pos \in 0 .. Len(src)
  BY LenProperties DEF CopyShape, CopyBehind
<1>2. \A j \in 1 .. Len(src) : src[j] \in Nat
  BY ElementOfSeq DEF CopyShape
<1>3. /\ SubSeq(src, 1, pos) \in Seq(Nat) /\ Len(SubSeq(src, 1, pos)) = pos
      /\ \A j \in 1 .. pos : SubSeq(src, 1, pos)[j] = src[j]
  <2>1. \A j \in 1 .. pos : src[j] \in Nat
    BY <1>1, <1>2
  <2>2. /\ SubSeq(src, 1, pos) \in Seq(Nat)
        /\ Len(SubSeq(src, 1, pos)) = IF 1 <= pos THEN pos - 1 + 1 ELSE 0
        /\ \A j \in 1 .. pos - 1 + 1 : SubSeq(src, 1, pos)[j] = src[1 + j - 1]
    BY <1>1, <2>1, SubSeqProperties
  <2>3. pos \in Nat
    BY DEF CopyShape
  <2> QED BY <2>2, <2>3
<1>4. out = SubSeq(src, 1, pos)
  <2>1. out \in Seq(Nat) /\ Len(out) = pos /\ \A j \in 1 .. pos : out[j] = src[j]
    BY DEF CopyShape, CopyBehind
  <2> QED BY <1>3, <2>1, SeqEqual
<1>5. DataEnd = pos
  BY DataEndIs DEF CopyBehind
<1>6. out \o <<>> = out
  BY ConcatEmptySeq DEF CopyShape
<1>7. ~(off > Len(src))
  BY <1>1 DEF CopyShape
<1> QED BY <1>4, <1>5, <1>6, <1>7 DEF CopyExact

LEMMA CopyStart == CopyInit => CopyInv
<1> SUFFICES ASSUME CopyInit PROVE CopyInv
  OBVIOUS
<1>1. CopyShape
  <2>1. 0 % bs = 0
    BY CopyAssumption
  <2> QED BY <2>1, CopyAssumption, EmptySeq DEF CopyInit, CopyShape
<1>2. Len(src) \in Nat
  BY <1>1, LenProperties DEF CopyShape
<1>3. BlockEnds = {0}
  BY <1>2 DEF CopyInit, BlockEnds, ReadTo, Least
<1>4. CopyBehind
  BY <1>2, <1>3, EmptySeq DEF CopyInit, CopyBehind
<1>5. ~(off > Len(src))
  BY <1>2 DEF CopyInit
<1> QED BY <1>1, <1>4, <1>5 DEF CopyInv

\* The block that is read.
LEMMA BlockIs ==
    ASSUME CopyShape, off < Len(src)
    PROVE  /\ Len(src) \in Nat /\ block \in Seq(Nat)
           /\ Len(block) = Least(off + bs, Len(src)) - off /\ Len(block) \in 1 .. bs
           /\ \A j \in 1 .. Len(block) : block[j] = src[off + j]
<1>1. Len(src) \in Nat /\ off \in Nat /\ bs \in Nat \ {0}
  BY LenProperties, CopyAssumption DEF CopyShape
<1> DEFINE m == Least(off + bs, Len(src))
<1>2. m \in Nat /\ m > off /\ m <= Len(src) /\ m <= off + bs
  BY <1>1 DEF Least
<1>3. block = SubSeq(src, off + 1, m)
  BY DEF block
<1> HIDE DEF m
<1>4. \A j \in off + 1 .. m : src[j] \in Nat
  <2>1. \A j \in 1 .. Len(src) : src[j] \in Nat
    BY ElementOfSeq DEF CopyShape
  <2> QED BY <1>1, <1>2, <2>1
<1>5. /\ block \in Seq(Nat)
      /\ Len(block) = IF off + 1 <= m THEN m - (off + 1) + 1 ELSE 0
      /\ \A j \in 1 .. m - (off + 1) + 1 : block[j] = src[off + 1 + j - 1]
  <2>1. off + 1 \in Int /\ m \in Int
    BY <1>1, <1>2
  <2> QED BY <1>3, <1>4, <2>1, SubSeqProperties
<1>6. Len(block) = m - off
  BY <1>1, <1>2, <1>5
<1>7. \A j \in 1 .. Len(block) : block[j] = src[off + j]
  BY <1>1, <1>2, <1>5, <1>6
<1> QED BY <1>1, <1>2, <1>5, <1>6, <1>7 DEF m

\* What is written at an offset not before the end of the copy.
LEMMA WrittenIs ==
    ASSUME CopyShape, off < Len(src), NEW o \in Nat, Len(out) <= o
    PROVE  /\ Written(o) \in Seq(Nat) /\ Len(Written(o)) = o + Len(block)
           /\ \A j \in 1 .. o + Len(block) :
                 Written(o)[j] = IF j > o THEN block[j - o]
                                 ELSE IF j <= Len(out) THEN out[j] ELSE 0
<1> DEFINE e == o + Len(block)
           w == Written(o)
<1>1. /\ Len(block) \in Nat /\ Len(out) \in Nat /\ e \in Nat
      /\ \A j \in 1 .. Len(block) : block[j] \in Nat
      /\ \A j \in 1 .. Len(out) : out[j] \in Nat
  <2>1. Len(block) \in Nat /\ \A j \in 1 .. Len(block) : block[j] \in Nat
    BY BlockIs, LenProperties, ElementOfSeq
  <2>2. Len(out) \in Nat /\ \A j \in 1 .. Len(out) : out[j] \in Nat
    BY LenProperties, ElementOfSeq DEF CopyShape
  <2> QED BY <2>1, <2>2
<1>2. w = [j \in 1 .. e |-> IF j > o /\ j <= e THEN block[j - o]
                            ELSE IF j <= Len(out) THEN out[j] ELSE 0]
  <2>1. (IF e > Len(out) THEN e ELSE Len(out)) = e
    BY <1>1
  <2> QED BY <2>1 DEF Written
<1>3. \A j \in 1 .. e : w[j] = IF j > o THEN block[j - o]
                               ELSE IF j <= Len(out) THEN out[j] ELSE 0
  BY <1>1, <1>2
<1>4. \A j \in 1 .. e : w[j] \in Nat
  BY <1>1, <1>3
<1>5. w \in [1 .. e -> Nat]
  BY <1>2, <1>4
<1> HIDE DEF e, w
<1>6. w \in Seq(Nat)
  BY <1>1, <1>5, SeqDef
<1>7. Len(w) = e
  <2>1. DOMAIN w = 1 .. Len(w) /\ Len(w) \in Nat
    BY <1>6, LenProperties
  <2>2. DOMAIN w = 1 .. e
    BY <1>5
  <2>3. 1 .. Len(w) = 1 .. e
    BY <2>1, <2>2
  <2> QED BY <1>1, <2>1, <2>3, SameLength
<1> QED BY <1>3, <1>6, <1>7 DEF e, w

\* Reading a block brings its end among those looked at, if it is whole.
LEMMA EndsAfter ==
    ASSUME CopyShape, off < Len(src), off' = off + bs, UNCHANGED src
    PROVE  /\ Len(block) < bs => BlockEnds' = BlockEnds
           /\ Len(block) = bs /\ block = Zeros => BlockEnds' = BlockEnds
           /\ Len(block) = bs /\ block # Zeros => BlockEnds' = BlockEnds \cup {off + bs}
<1>1. /\ Len(src) \in Nat /\ off \in Nat /\ bs \in Nat \ {0} /\ off % bs = 0
      /\ Len(block) = Least(off + bs, Len(src)) - off
  BY BlockIs, CopyAssumption DEF CopyShape
<1>2. /\ (off + bs) % bs = 0
      /\ \A h \in off + 1 .. off + bs : h % bs = 0 => h = off + bs
  BY <1>1, NextMultiple
<1>3. ReadTo = off /\ ReadTo' = Least(off + bs, Len(src))
  BY <1>1 DEF ReadTo, Least
<1> DEFINE IsEnd(h) == h % bs = 0 /\ SubSeq(src, h - bs + 1, h) # Zeros
<1>4. /\ BlockEnds = {0} \cup {h \in 1 .. off : IsEnd(h)}
      /\ BlockEnds' = {0} \cup {h \in 1 .. Least(off + bs, Len(src)) : IsEnd(h)}
  BY <1>3 DEF BlockEnds, Zeros
<1>5. ASSUME Len(block) < bs
      PROVE  BlockEnds' = BlockEnds
  <2>1. off + bs > Len(src) /\ Least(off + bs, Len(src)) = Len(src)
    BY <1>1, <1>5 DEF Least
  <2>2. \A h \in 1 .. Len(src) : IsEnd(h) => h \in 1 .. off
    <3> SUFFICES ASSUME NEW h \in 1 .. Len(src), IsEnd(h), h > off
                 PROVE  FALSE
      BY <1>1
    <3>1. h \in off + 1 .. off + bs /\ h # off + bs
      BY <1>1, <2>1
    <3> QED BY <1>2, <3>1
  <2> HIDE DEF IsEnd
  <2> QED BY <1>1, <1>4, <2>1, <2>2
<1>6. ASSUME Len(block) = bs
      PROVE  /\ block = Zeros => BlockEnds' = BlockEnds
             /\ block # Zeros => BlockEnds' = BlockEnds \cup {off + bs}
  <2>1. off + bs <= Len(src) /\ Least(off + bs, Len(src)) = off + bs
    BY <1>1, <1>6 DEF Least
  <2>2. IsEnd(off + bs) <=> block # Zeros
    <3>1. SubSeq(src, (off + bs) - bs + 1, off + bs) = block
      <4>1. (off + bs) - bs + 1 = off + 1
        BY <1>1
      <4> QED BY <2>1, <4>1 DEF block
    <3> QED BY <1>2, <3>1
  <2>3. \A h \in 1 .. off + bs : IsEnd(h) => h \in 1 .. off \/ h = off + bs
    <3>1. \A h \in 1 .. off + bs : h \in 1 .. off \/ h \in off + 1 .. off + bs
      BY <1>1
    <3> QED BY <1>2, <3>1
  <2>4. off + bs \in 1 .. off + bs /\ 1 .. off \subseteq 1 .. off + bs
    BY <1>1
  <2> HIDE DEF IsEnd
  <2>5. BlockEnds' = {0} \cup {h \in 1 .. off + bs : IsEnd(h)}
    BY <1>4, <2>1
  <2>6. ASSUME block = Zeros
        PROVE  \A h \in 1 .. off + bs : IsEnd(h) <=> h \in 1 .. off /\ IsEnd(h)
    BY <2>2, <2>3, <2>6
  <2>7. ASSUME block # Zeros
        PROVE  \A h \in 1 .. off + bs : IsEnd(h) <=> (h \in 1 .. off /\ IsEnd(h)) \/ h = off + bs
    BY <2>2, <2>3, <2>7
  <2>8. block = Zeros => BlockEnds' = BlockEnds
    BY <1>4, <2>4, <2>5, <2>6
  <2>9. block # Zeros => BlockEnds' = BlockEnds \cup {off + bs}
    BY <1>4, <2>4, <2>5, <2>7
  <2> QED BY <2>8, <2>9
<1> QED BY <1>5, <1>6

LEMMA CopyStep ==
    ASSUME CopyInv, CopyBlock
    PROVE  CopyInv'
<1>0. CopyShape /\ CopyBehind /\ off < Len(src) /\ off' = off + bs /\ UNCHANGED src
  BY DEF CopyInv, CopyBlock
<1>1. /\ Len(src) \in Nat /\ off \in Nat /\ bs \in Nat \ {0} /\ pos \in Nat
      /\ block \in Seq(Nat) /\ Len(block) \in 1 .. bs
      /\ Len(block) = Least(off + bs, Len(src)) - off
      /\ \A j \in 1 .. Len(block) : block[j] = src[off + j]
  BY <1>0, BlockIs, CopyAssumption DEF CopyShape
<1>2. /\ pos <= off /\ Len(out) = pos
      /\ \A j \in 1 .. pos : out[j] = src[j]
      /\ \A j \in 1 .. off : j > pos => src[j] = 0
      /\ pos \in BlockEnds /\ \A l \in BlockEnds : l <= pos
  BY <1>0, <1>1 DEF CopyBehind
<1>3. off' \in Nat /\ off' % bs = 0
  <2>1. off % bs = 0
    BY <1>0 DEF CopyShape
  <2> QED BY <1>0, <1>1, <2>1, NextMultiple
<1>4. CASE Len(block) = bs /\ block = Zeros
  <2>1. UNCHANGED <<out, pos>>
    BY <1>1, <1>4 DEF CopyBlock
  <2>2. CopyShape'
    BY <1>0, <1>3, <2>1 DEF CopyShape
  <2>3. BlockEnds' = BlockEnds
    BY <1>0, <1>4, EndsAfter
  <2>4. \A j \in 1 .. off + bs : j > pos => src[j] = 0
    <3> SUFFICES ASSUME NEW j \in 1 .. off + bs, j > pos, j > off
                 PROVE  src[j] = 0
      BY <1>1, <1>2
    <3>1. j - off \in 1 .. bs /\ off + (j - off) = j
      BY <1>1
    <3>2. block[j - off] = 0
      BY <1>4, <3>1 DEF Zeros
    <3>3. block[j - off] = src[off + (j - off)]
      BY <1>1, <1>4, <3>1
    <3> QED BY <3>1, <3>2, <3>3
  <2>5. CopyBehind'
    BY <1>0, <1>1, <1>2, <2>1, <2>3, <2>4 DEF CopyBehind
  <2>6. ~(off' > Len(src'))
    BY <1>0, <1>1, <1>4 DEF Least
  <2> QED BY <2>2, <2>5, <2>6 DEF CopyInv
<1>5. CASE Len(block) = bs /\ block # Zeros
  <2>1. out' = Written(off) /\ pos' = off + bs
    BY <1>1, <1>5 DEF CopyBlock, Write
  <2>2. /\ Written(off) \in Seq(Nat) /\ Len(Written(off)) = off + bs
        /\ \A j \in 1 .. off + bs :
              Written(off)[j] = IF j > off THEN block[j - off]
                                ELSE IF j <= Len(out) THEN out[j] ELSE 0
    BY <1>0, <1>1, <1>2, <1>5, WrittenIs
  <2>3. CopyShape'
    BY <1>0, <1>1, <1>3, <2>1, <2>2 DEF CopyShape
  <2>4. BlockEnds' = BlockEnds \cup {off + bs}
    BY <1>0, <1>5, EndsAfter
  <2>5. \A j \in 1 .. off + bs : Written(off)[j] = src[j]
    <3> SUFFICES ASSUME NEW j \in 1 .. off + bs
                 PROVE  Written(off)[j] = src[j]
      OBVIOUS
    <3>1. CASE j > off
      <4>1. j - off \in 1 .. bs /\ off + (j - off) = j
        BY <1>1, <3>1
      <4>2. block[j - off] = src[off + (j - off)]
        BY <1>1, <1>5, <4>1
      <4> QED BY <2>2, <3>1, <4>1, <4>2
    <3>2. CASE j <= pos
      <4>1. j \in 1 .. pos /\ ~(j > off)
        BY <1>1, <1>2, <3>2
      <4> QED BY <1>2, <2>2, <4>1
    <3>3. CASE j <= off /\ j > pos
      <4>1. j \in 1 .. off /\ ~(j > off) /\ ~(j <= Len(out))
        BY <1>1, <1>2, <3>3
      <4> QED BY <1>2, <2>2, <3>3, <4>1
    <3> QED BY <1>1, <3>1, <3>2, <3>3
  <2>6. \A l \in BlockEnds' : l <= off + bs
    <3>1. \A l \in BlockEnds : l \in Int
      BY <1>1 DEF BlockEnds, ReadTo, Least
    <3> QED BY <1>1, <1>2, <2>4, <3>1
  <2>7. CopyBehind'
    BY <1>0, <1>1, <2>1, <2>2, <2>4, <2>5, <2>6 DEF CopyBehind
  <2>8. ~(off' > Len(src'))
    BY <1>0, <1>1, <1>5 DEF Least
  <2> QED BY <2>3, <2>7, <2>8 DEF CopyInv
<1>6. CASE Len(block) < bs
  <2>1. out' = Written(pos) /\ pos' = pos + Len(block)
    BY <1>1, <1>6 DEF CopyBlock, Write
  <2>2. /\ Written(pos) \in Seq(Nat) /\ Len(Written(pos)) = pos + Len(block)
        /\ \A j \in 1 .. pos + Len(block) :
              Written(pos)[j] = IF j > pos THEN block[j - pos]
                                ELSE IF j <= Len(out) THEN out[j] ELSE 0
    BY <1>0, <1>1, <1>2, WrittenIs
  <2>3. CopyShape'
    BY <1>0, <1>1, <1>3, <2>1, <2>2 DEF CopyShape
  <2>4. off + bs > Len(src) /\ Len(block) = Len(src) - off
    BY <1>1, <1>6 DEF Least
  <2>5. CopyBehind'
    BY <1>0, <1>1, <2>4 DEF CopyBehind
  <2>6. CopyExact'
    <3>1. DataEnd' = pos
      <4>1. BlockEnds' = BlockEnds
        BY <1>0, <1>6, EndsAfter
      <4>2. BlockEnds \subseteq Int
        BY <1>1 DEF BlockEnds, ReadTo, Least
      <4>3. DataEnd' = CHOOSE h \in BlockEnds' : \A l \in BlockEnds' : l <= h
        BY DEF DataEnd, BlockEnds, ReadTo
      <4>4. \A h \in BlockEnds : (\A l \in BlockEnds : l <= h) => h = pos
        BY <1>2, <4>2
      <4> QED BY <1>2, <4>1, <4>3, <4>4
    <3>2. out = SubSeq(src, 1, pos)
      <4>1. CopyExact /\ ~(off > Len(src)) /\ DataEnd = pos
        BY <1>0, <1>1, <1>2, DataEndIs, ExactBehind
      <4>2. out = SubSeq(src, 1, pos) \o <<>>
        BY <4>1 DEF CopyExact
      <4>3. \A j \in 1 .. pos : src[j] \in Nat
        <5>1. \A j \in 1 .. Len(src) : src[j] \in Nat
          BY <1>0, ElementOfSeq DEF CopyShape
        <5> QED BY <1>0, <1>1, <1>2, <5>1
      <4>4. SubSeq(src, 1, pos) \in Seq(Nat)
        BY <1>1, <4>3, SubSeqProperties
      <4> QED BY <4>2, <4>4, ConcatEmptySeq
    <3>3. block = SubSeq(src, (Len(src) \div bs) * bs + 1, Len(src))
      <4>1. (Len(src) \div bs) * bs = off
        <5>1. Len(src) \in off .. off + bs - 1 /\ off % bs = 0
          BY <1>0, <1>1, <2>4 DEF CopyShape
        <5> QED BY <1>1, <5>1, NextMultiple
      <4>2. Least(off + bs, Len(src)) = Len(src)
        BY <1>1, <2>4 DEF Least
      <4> QED BY <4>1, <4>2 DEF block
    <3>4. Written(pos) = out \o block
      <4>1. /\ out \o block \in Seq(Nat) /\ Len(out \o block) = pos + Len(block)
            /\ \A j \in 1 .. pos + Len(block) :
                 (out \o block)[j] = IF j <= pos THEN out[j] ELSE block[j - pos]
        <5>1. out \in Seq(Nat)
          BY <1>0 DEF CopyShape
        <5>2. /\ out \o block \in Seq(Nat) /\ Len(out \o block) = Len(out) + Len(block)
              /\ \A j \in 1 .. Len(out) + Len(block) :
                   (out \o block)[j] = IF j <= Len(out) THEN out[j] ELSE block[j - Len(out)]
          BY <1>1, <5>1, ConcatProperties
        <5> QED BY <1>2, <5>2
      <4>2. \A j \in 1 .. pos + Len(block) : Written(pos)[j] = (out \o block)[j]
        <5> SUFFICES ASSUME NEW j \in 1 .. pos + Len(block)
                     PROVE  Written(pos)[j] = (out \o block)[j]
          OBVIOUS
        <5>1. CASE j <= pos
          <6>1. ~(j > pos) /\ j <= Len(out)
            BY <1>1, <1>2, <5>1
          <6> QED BY <2>2, <4>1, <5>1, <6>1
        <5>2. CASE j > pos
          <6>1. ~(j <= pos)
            BY <1>1, <5>2
          <6> QED BY <2>2, <4>1, <5>2, <6>1
        <5>3. pos \in Nat /\ Len(block) \in Nat
          BY <1>1
        <5>4. j <= pos \/ j > pos
          BY <5>3
        <5> QED BY <5>1, <5>2, <5>4
      <4> QED BY <2>2, <4>1, <4>2, SeqEqual
    <3>5. off' > Len(src')
      BY <1>0, <2>4
    <3> QED BY <1>0, <2>1, <3>1, <3>2, <3>3, <3>4, <3>5 DEF CopyExact
  <2> QED BY <2>3, <2>5, <2>6 DEF CopyInv
<1> QED BY <1>1, <1>4, <1>5, <1>6

\* For any file and any block size, the copy is the file up to its last whole block that is not
\* of zeros, and right behind it, at its own offset or not, the short block at the end.
THEOREM CopyExactAlways == CopySpec => []CopyExact
<1>1. CopyInv /\ [CopyNext]_copyVars => CopyInv'
  <2> SUFFICES ASSUME CopyInv, [CopyNext]_copyVars
               PROVE  CopyInv'
    OBVIOUS
  <2>1. CASE UNCHANGED copyVars
    BY <2>1 DEF copyVars, CopyInv, CopyShape, CopyBehind, CopyExact, DataEnd, BlockEnds, ReadTo
  <2> QED BY <2>1, CopyStep DEF CopyNext
<1>2. CopyInv => CopyExact
  <2> SUFFICES ASSUME CopyInv PROVE CopyExact
    OBVIOUS
  <2>1. Len(src) \in Nat /\ off \in Nat
    BY LenProperties DEF CopyInv, CopyShape
  <2> QED BY <2>1, ExactBehind DEF CopyInv
<1> QED BY <1>1, <1>2, CopyStart, PTL DEF CopySpec

(***************************************************************************)
(* fiemap-test: no comparison raises a false alarm, and what passes one is *)
(* mapped.  A page holds all extents that touch its window; what           *)
(* check_data() passes over on its way to the extent it settles for is     *)
(* listed all the same.                                                    *)
(***************************************************************************)

ExtentRecords == [start : Nat, end : Nat, aligned : BOOLEAN, flags : SUBSET ExtentFlags]

\* Extents of a file: each begins at a block and ends within the file, and no two overlap.
FileExtents(E) ==
    /\ E \subseteq ExtentRecords
    /\ \A e \in E : /\ e.start < e.end /\ e.end <= blocks * blocksize
                    /\ \E b \in 0 .. blocks - 1 : e.start = b * blocksize
    /\ \A e, f \in E : e = f \/ e.end <= f.start \/ f.end <= e.start

\* How many blocks a file may have.
MostBlocks == IF options.map = <<>> THEN maxblocks - 1 ELSE Len(options.map)

\* The map of a run.
MapInv ==
    /\ options \in CommandLines
    /\ options.map # <<>> => runs = 0
    /\ pc = "choose" /\ options.map # <<>> => map = options.map
    /\ pc = "choose" => map \in {<<>>, options.map}
    /\ pc \in {"create", "page", "truncate", "problem"} => blocks \in 1 .. MostBlocks

\* The file of a run, and what FIEMAP says of it.
FileInv ==
    pc \in {"page", "truncate", "problem"} =>
        /\ disk \in Allocated(map)
        /\ FileExtents(extents)
        /\ fault = "none" => \E cuts \in SUBSET (1 .. blocks - 1) : extents = TrueExtents(disk, cuts)
        /\ blocks_to_map \in 1 .. blocks

\* Block b passed rightly.
Agrees(b) ==
    IF map[b + 1] = "H"
    THEN disk[b] = "zeroed" \/ \A e \in extents : ~Covers(e, b * blocksize)
    ELSE /\ \A y \in b * blocksize .. (b + 1) * blocksize - 1 : Reported(y)
         /\ b = last_data => \E e \in extents : "LAST" \in e.flags /\ e.end >= (b + 1) * blocksize

\* The blocks before cur_extent have passed, and the flags of the extents that begin there.
ComparedInv ==
    /\ pc = "truncate" => cur_extent = blocks
    /\ pc \in {"page", "truncate"} =>
          /\ cur_extent <= blocks
          /\ \A b \in 0 .. cur_extent - 1 : Agrees(b)
          /\ \A e \in extents : e.start < cur_extent * blocksize => FlagsAgree(e)

FiemapInv == NoFalseAlarm /\ MapInv /\ FileInv /\ ComparedInv

\* Offsets of blocks are in the order of the blocks.
LEMMA BlockOffsets ==
    ASSUME NEW a \in Int, NEW b \in Int
    PROVE  /\ a * blocksize \in Int /\ (a + 1) * blocksize = a * blocksize + blocksize
           /\ a <= b <=> a * blocksize <= b * blocksize
           /\ a < b <=> a * blocksize + blocksize <= b * blocksize
           /\ a + b \in Int /\ (a + b) * blocksize = a * blocksize + b * blocksize
BY OptionsAssumption

\* The offset check_data() looks for is defined, extent by extent.
SoughtFrom(fiemap, offset, sought, z) ==
    IF z = 1 THEN offset
    ELSE IF Covers(fiemap[z - 1], sought[z - 1]) THEN fiemap[z - 1].end + 1
    ELSE sought[z - 1]

LEMMA SoughtFor ==
    ASSUME NEW fiemap, NEW offset, NEW h \in Nat
    PROVE  \E g : g = [z \in 1 .. h |-> SoughtFrom(fiemap, offset, g, z)]
<1> DEFINE Solved(j) == \E g : g = [z \in 1 .. j |-> SoughtFrom(fiemap, offset, g, z)]
           T == {j \in 1 .. h : ~Solved(j)}
<1>1. Solved(0)
  <2> DEFINE g == [z \in 1 .. 0 |-> 0]
  <2>1. g = [z \in 1 .. 0 |-> SoughtFrom(fiemap, offset, g, z)]
    OBVIOUS
  <2> QED BY <2>1
<1>2. ASSUME NEW j \in Nat, Solved(j) PROVE Solved(j + 1)
  <2>1. PICK g : g = [z \in 1 .. j |-> SoughtFrom(fiemap, offset, g, z)]
    BY <1>2
  <2> DEFINE f == [z \in 1 .. j + 1 |-> IF z <= j THEN g[z] ELSE SoughtFrom(fiemap, offset, g, z)]
  <2>2. ASSUME NEW z \in 1 .. j + 1
        PROVE  SoughtFrom(fiemap, offset, g, z) = SoughtFrom(fiemap, offset, f, z)
    <3>1. z = 1 \/ z - 1 \in 1 .. j
      OBVIOUS
    <3>2. z - 1 \in 1 .. j => f[z - 1] = g[z - 1]
      OBVIOUS
    <3> HIDE DEF f
    <3> QED BY <3>1, <3>2 DEF SoughtFrom
  <2>3. ASSUME NEW z \in 1 .. j + 1 PROVE f[z] = SoughtFrom(fiemap, offset, g, z)
    <3>1. CASE z <= j
      <4>1. z \in 1 .. j
        BY <3>1
      <4>2. g[z] = SoughtFrom(fiemap, offset, g, z)
        BY <2>1, <4>1, Zenon
      <4> QED BY <4>1, <4>2
    <3>2. CASE ~(z <= j)
      BY <3>2
    <3> QED BY <3>1, <3>2
  <2>4. f = [z \in 1 .. j + 1 |-> f[z]]
    OBVIOUS
  <2> HIDE DEF f
  <2>5. f = [z \in 1 .. j + 1 |-> SoughtFrom(fiemap, offset, f, z)]
    BY <2>2, <2>3, <2>4
  <2> QED BY <2>5
<1> SUFFICES ASSUME ~Solved(h) PROVE FALSE
  OBVIOUS
<1> HIDE DEF Solved
<1>3. PICK j \in T : \A l \in T : j <= l
  <2>1. h \in T
    BY <1>1
  <2>2. T \subseteq 1 .. h /\ T # {}
    BY <2>1
  <2> HIDE DEF T
  <2> QED BY <2>2, LeastExists
<1>4. j - 1 \in Nat /\ Solved(j - 1)
  BY <1>1, <1>3
<1>5. j = (j - 1) + 1
  BY <1>3
<1>6. Solved(j)
  BY <1>2, <1>4, <1>5, Zenon
<1> QED BY <1>3, <1>6

LEMMA SoughtIs ==
    ASSUME NEW fiemap, NEW offset, Len(fiemap) \in Nat
    PROVE  /\ DOMAIN Sought(fiemap, offset) = 1 .. Len(fiemap)
           /\ \A z \in 1 .. Len(fiemap) :
                 Sought(fiemap, offset)[z] = SoughtFrom(fiemap, offset, Sought(fiemap, offset), z)
<1> DEFINE s == CHOOSE g : g = [z \in 1 .. Len(fiemap) |-> SoughtFrom(fiemap, offset, g, z)]
<1>1. s = [z \in 1 .. Len(fiemap) |-> SoughtFrom(fiemap, offset, s, z)]
  BY SoughtFor
<1>2. Sought(fiemap, offset) = s
  BY DEF Sought, SoughtFrom
<1> HIDE DEF s
<1> QED BY <1>1, <1>2, Zenon

-----------------------------------------------------------------------------
(* What check_data() settles for. *)

\* The extents of a page.
IsPage(fiemap) == Len(fiemap) \in Nat /\ fiemap \in [1 .. Len(fiemap) -> ExtentRecords]

ListedByte(fiemap, y) == \E b \in 1 .. Len(fiemap) : fiemap[b].start <= y /\ y <= fiemap[b].end

\* All that is passed over lies in an extent or just behind one.
LEMMA PassedOverListed ==
    ASSUME NEW fiemap, IsPage(fiemap), NEW offset \in Nat, NEW h \in 1 .. Len(fiemap)
    PROVE  LET sought == Sought(fiemap, offset)
           IN  /\ sought[h] \in Nat /\ offset <= sought[h]
               /\ \A y \in offset .. sought[h] - 1 : ListedByte(fiemap, y)
<1> DEFINE s == Sought(fiemap, offset)
           Fine(z) == /\ s[z] \in Nat /\ offset <= s[z]
                      /\ \A y \in offset .. s[z] - 1 : ListedByte(fiemap, y)
           T == {z \in 1 .. Len(fiemap) : ~Fine(z)}
<1>1. \A z \in 1 .. Len(fiemap) : s[z] = SoughtFrom(fiemap, offset, s, z)
  BY SoughtIs DEF IsPage
<1> HIDE DEF s
<1>2. ASSUME NEW z \in 1 .. Len(fiemap), z = 1 PROVE Fine(z)
  <2>1. s[z] = offset
    BY <1>1, <1>2 DEF SoughtFrom
  <2> QED BY <2>1
<1>3. ASSUME NEW z \in 1 .. Len(fiemap), z - 1 \in 1 .. Len(fiemap), z # 1, Fine(z - 1)
      PROVE  Fine(z)
  <2>1. s[z] = IF Covers(fiemap[z - 1], s[z - 1]) THEN fiemap[z - 1].end + 1 ELSE s[z - 1]
    BY <1>1, <1>3 DEF SoughtFrom
  <2>2. CASE ~Covers(fiemap[z - 1], s[z - 1])
    BY <2>1, <2>2, <1>3
  <2>3. CASE Covers(fiemap[z - 1], s[z - 1])
    <3>1. fiemap[z - 1] \in ExtentRecords
      BY <1>3 DEF IsPage
    <3>2. fiemap[z - 1].start \in Nat /\ fiemap[z - 1].end \in Nat
      BY <3>1 DEF ExtentRecords
    <3>3. s[z] = fiemap[z - 1].end + 1 /\ fiemap[z - 1].start <= s[z - 1] /\ s[z - 1] < fiemap[z - 1].end
      BY <2>1, <2>3 DEF Covers
    <3>4. ASSUME NEW y \in offset .. s[z] - 1 PROVE ListedByte(fiemap, y)
      <4>1. CASE y <= s[z - 1] - 1
        BY <1>3, <4>1
      <4>2. CASE s[z - 1] <= y
        <5>1. fiemap[z - 1].start <= y /\ y <= fiemap[z - 1].end
          BY <3>2, <3>3, <3>4, <4>2, <1>3
        <5> QED BY <5>1, <1>3 DEF ListedByte
      <4> QED BY <4>1, <4>2, <1>3
    <3> QED BY <3>2, <3>3, <3>4, <1>3
  <2> QED BY <2>2, <2>3
<1> SUFFICES ASSUME ~Fine(h) PROVE FALSE
  BY DEF s
<1> HIDE DEF Fine
<1>4. PICK z \in T : \A l \in T : z <= l
  <2>1. T \subseteq 1 .. Len(fiemap) /\ T # {} /\ Len(fiemap) \in Nat
    BY DEF IsPage
  <2> HIDE DEF T
  <2> QED BY <2>1, LeastExists
<1>5. z # 1
  BY <1>2, <1>4
<1>6. z - 1 \in 1 .. Len(fiemap) /\ z - 1 \notin T
  BY <1>4, <1>5 DEF IsPage
<1> QED BY <1>3, <1>4, <1>5, <1>6

LEMMA FoundListed ==
    ASSUME NEW fiemap, IsPage(fiemap), NEW offset \in Nat, NEW z \in extent_of(fiemap, offset)
    PROVE  /\ z \in 1 .. Len(fiemap) /\ fiemap[z].end >= offset + blocksize
           /\ \A y \in offset .. offset + blocksize - 1 : ListedByte(fiemap, y)
<1> DEFINE s == Sought(fiemap, offset)
<1>1. /\ z \in 1 .. Len(fiemap) /\ Covers(fiemap[z], s[z])
      /\ s[z] + blocksize <= fiemap[z].end
  BY DEF extent_of
<1>2. /\ s[z] \in Nat /\ offset <= s[z]
      /\ \A y \in offset .. s[z] - 1 : ListedByte(fiemap, y)
  BY <1>1, PassedOverListed
<1> HIDE DEF s
<1>3. fiemap[z].start \in Nat /\ fiemap[z].end \in Nat
  BY <1>1 DEF IsPage, ExtentRecords
<1>4. \A y \in offset .. offset + blocksize - 1 : y >= s[z] => ListedByte(fiemap, y)
  BY <1>1, <1>2, <1>3, OptionsAssumption DEF Covers, ListedByte
<1> QED BY <1>1, <1>2, <1>3, <1>4, OptionsAssumption

\* An extent that holds the block is found, behind extents that end before it.
LEMMA HolderFound ==
    ASSUME NEW fiemap, IsPage(fiemap), NEW offset \in Nat, NEW h \in 1 .. Len(fiemap),
           Covers(fiemap[h], offset), offset + blocksize <= fiemap[h].end,
           \A b \in 1 .. h - 1 : fiemap[b].start < fiemap[b].end /\ fiemap[b].end <= offset
    PROVE  h \in extent_of(fiemap, offset)
<1> DEFINE s == Sought(fiemap, offset)
           T == {z \in 1 .. h : s[z] # offset}
<1>1. \A z \in 1 .. Len(fiemap) : s[z] = SoughtFrom(fiemap, offset, s, z)
  BY SoughtIs DEF IsPage
<1>2. \A b \in 1 .. h - 1 : ~Covers(fiemap[b], offset) /\ ~(offset + blocksize < fiemap[b].start)
  <2> SUFFICES ASSUME NEW b \in 1 .. h - 1
               PROVE  ~Covers(fiemap[b], offset) /\ ~(offset + blocksize < fiemap[b].start)
    OBVIOUS
  <2>1. fiemap[b] \in ExtentRecords
    BY DEF IsPage
  <2> QED BY <2>1, OptionsAssumption DEF Covers, ExtentRecords
<1>3. \A z \in 1 .. h : s[z] = offset
  <2> SUFFICES ASSUME T # {} PROVE FALSE
    OBVIOUS
  <2>1. PICK z \in T : \A l \in T : z <= l
    <3>1. T \subseteq 1 .. h /\ h \in Nat
      BY DEF IsPage
    <3> HIDE DEF T
    <3> QED BY <3>1, LeastExists
  <2>2. z \in 1 .. h /\ s[z] # offset /\ s[z] = SoughtFrom(fiemap, offset, s, z)
    BY <1>1, <2>1 DEF IsPage
  <2>3. CASE z = 1
    BY <2>2, <2>3 DEF SoughtFrom
  <2>4. CASE z # 1
    <3>1. z - 1 \in 1 .. h - 1 /\ z - 1 \notin T
      BY <2>1, <2>2, <2>4 DEF IsPage
    <3>2. s[z - 1] = offset
      BY <3>1
    <3> QED BY <1>2, <2>2, <2>4, <3>1, <3>2 DEF SoughtFrom
  <2> QED BY <2>3, <2>4
<1>4. /\ Covers(fiemap[h], s[h]) /\ s[h] + blocksize <= fiemap[h].end
      /\ \A b \in 1 .. h - 1 : ~Covers(fiemap[b], s[b]) /\ ~(s[b] + blocksize < fiemap[b].start)
  BY <1>2, <1>3 DEF IsPage
<1> QED BY <1>4 DEF extent_of

-----------------------------------------------------------------------------
(* What FIEMAP answers for a window. *)

Touching == {e \in extents : /\ e.end > cur_extent * blocksize
                             /\ e.start < cur_extent * blocksize + blocks_to_map * blocksize}

Clip(e, clips) == IF clips /\ e.start < cur_extent * blocksize
                  THEN [e EXCEPT !.start = cur_extent * blocksize] ELSE e

\* A page has all the extents that touch its window, in order: there is room for them, as
\* there are no more of them than blocks.
Complete(fiemap, clips) ==
    /\ IsPage(fiemap)
    /\ \A z \in 1 .. Len(fiemap) : \E e \in Touching : fiemap[z] = Clip(e, clips)
    /\ \A e \in Touching : \E z \in 1 .. Len(fiemap) : fiemap[z] = Clip(e, clips)
    /\ \A b, z \in 1 .. Len(fiemap) : b < z => fiemap[b].start < fiemap[z].start

\* A clipped extent is the same but for where it begins, inside of it still.
LEMMA ClipKeeps ==
    ASSUME FileExtents(extents), cur_extent \in Nat, NEW clips \in BOOLEAN, NEW e \in Touching
    PROVE  /\ Clip(e, clips) \in ExtentRecords
           /\ Clip(e, clips).end = e.end /\ Clip(e, clips).flags = e.flags
           /\ Clip(e, clips).aligned = e.aligned
           /\ e.start <= Clip(e, clips).start /\ Clip(e, clips).start < e.end
           /\ Clip(e, clips).start \in {e.start, cur_extent * blocksize}
           /\ Clip(e, clips).start # e.start =>
                 Clip(e, clips).start = cur_extent * blocksize /\ e.start < cur_extent * blocksize
<1>1. e \in ExtentRecords /\ e.start < e.end /\ e.end > cur_extent * blocksize
  BY DEF FileExtents, Touching
<1>2. cur_extent * blocksize \in Nat
  BY OptionsAssumption
<1>3. Clip(e, clips) = e \/ (Clip(e, clips) = [e EXCEPT !.start = cur_extent * blocksize]
                               /\ e.start < cur_extent * blocksize)
  BY DEF Clip
<1> QED BY <1>1, <1>2, <1>3 DEF ExtentRecords

\* The first block of the window an extent holds.
LEMMA FirstInWindow ==
    ASSUME FileExtents(extents), cur_extent \in Nat, blocks_to_map \in Nat \ {0}, NEW e \in Touching
    PROVE  \E b \in cur_extent .. cur_extent + blocks_to_map - 1 :
               e.start <= b * blocksize /\ b * blocksize < e.end
<1>1. PICK a \in 0 .. blocks - 1 : e.start = a * blocksize
  BY DEF FileExtents, Touching
<1>2. /\ e.start < e.end /\ e.end > cur_extent * blocksize
      /\ e.start < cur_extent * blocksize + blocks_to_map * blocksize
      /\ e.start \in Nat /\ e.end \in Nat
  BY DEF FileExtents, Touching, ExtentRecords
<1>3. a \in Int
  OBVIOUS
<1>4. CASE a < cur_extent
  <2>1. a * blocksize <= cur_extent * blocksize
    BY <1>3, <1>4, BlockOffsets
  <2> QED BY <1>1, <1>2, <2>1
<1>5. CASE cur_extent <= a
  <2>1. (cur_extent + blocks_to_map) * blocksize = cur_extent * blocksize + blocks_to_map * blocksize
    BY BlockOffsets
  <2>2. cur_extent + blocks_to_map <= a => (cur_extent + blocks_to_map) * blocksize <= a * blocksize
    BY <1>3, BlockOffsets
  <2>3. a * blocksize \in Int /\ cur_extent * blocksize \in Int /\ blocks_to_map * blocksize \in Int
    BY <1>3, OptionsAssumption
  <2>4. ~(cur_extent + blocks_to_map <= a)
    BY <1>1, <1>2, <2>1, <2>2, <2>3
  <2> QED BY <1>1, <1>2, <1>3, <1>5, <2>4
<1> QED BY <1>3, <1>4, <1>5

\* There are no more of them than blocks of the window.
LEMMA RoomEnough ==
    ASSUME FileExtents(extents), cur_extent \in Nat, blocks_to_map \in Nat \ {0},
           NEW clips \in BOOLEAN
    PROVE  LET clipped == {Clip(e, clips) : e \in Touching}
           IN  IsFiniteSet(clipped) /\ Cardinality(clipped) <= blocks_to_map
<1> DEFINE clipped == {Clip(e, clips) : e \in Touching}
           there == cur_extent .. cur_extent + blocks_to_map - 1
           Holds(x, b) == x.start <= b * blocksize /\ b * blocksize < x.end
           f == [x \in clipped |-> CHOOSE b \in there : Holds(x, b)]
<1>1. ASSUME NEW x \in clipped PROVE \E b \in there : Holds(x, b)
  <2>1. PICK e \in Touching : x = Clip(e, clips)
    BY <1>1
  <2>2. PICK b \in there : e.start <= b * blocksize /\ b * blocksize < e.end
    BY <2>1, FirstInWindow
  <2>3. cur_extent * blocksize <= b * blocksize
    BY <2>2, BlockOffsets
  <2>4. /\ x.end = e.end /\ x.start \in {e.start, cur_extent * blocksize}
    BY <2>1, ClipKeeps
  <2> QED BY <2>2, <2>3, <2>4
<1>2. ASSUME NEW x \in clipped PROVE f[x] \in there /\ Holds(x, f[x])
  BY <1>1, <1>2
<1>3. ASSUME NEW x \in clipped, NEW y \in clipped, f[x] = f[y] PROVE x = y
  <2>1. PICK d \in Touching : x = Clip(d, clips)
    BY <1>3
  <2>2. PICK e \in Touching : y = Clip(e, clips)
    BY <1>3
  <2>3. /\ x.end = d.end /\ d.start <= x.start /\ y.end = e.end /\ e.start <= y.start
        /\ d \in extents /\ e \in extents /\ d \in ExtentRecords /\ e \in ExtentRecords
        /\ x \in ExtentRecords /\ y \in ExtentRecords
    BY <2>1, <2>2, ClipKeeps DEF Touching, FileExtents
  <2>4. PICK b \in there : Holds(x, b) /\ Holds(y, b)
    BY <1>2, <1>3
  <2>5. b * blocksize \in Int
    BY <2>4, BlockOffsets
  <2>6. ~(d.end <= e.start) /\ ~(e.end <= d.start)
    BY <2>3, <2>4, <2>5 DEF ExtentRecords
  <2>7. d = e
    BY <2>3, <2>6 DEF FileExtents
  <2> QED BY <2>1, <2>2, <2>7
<1>4. IsFiniteSet(there) /\ Cardinality(there) = blocks_to_map
  <2>1. /\ IsFiniteSet(there)
        /\ Cardinality(there) = IF cur_extent > cur_extent + blocks_to_map - 1 THEN 0
                                ELSE (cur_extent + blocks_to_map - 1) - cur_extent + 1
    BY FS_Interval
  <2> QED BY <2>1
<1>5. f \in Injection(clipped, there)
  <2>1. f \in [clipped -> there]
    BY <1>2
  <2> HIDE DEF f, clipped, there
  <2> QED BY <1>3, <2>1 DEF Injection, IsInjective
<1> HIDE DEF f, clipped, there
<1>6. IsFiniteSet(clipped) /\ Cardinality(clipped) <= blocks_to_map
  BY <1>4, <1>5, FS_Injection
<1> QED BY <1>6 DEF clipped

LEMMA WindowComplete ==
    ASSUME FileExtents(extents), cur_extent \in Nat, blocks_to_map \in Nat \ {0},
           NEW clips \in BOOLEAN, NEW fiemap \in Window(clips)
    PROVE  Complete(fiemap, clips)
<1> DEFINE clipped == {Clip(e, clips) : e \in Touching}
           size == Cardinality(clipped)
<1>1. IsFiniteSet(clipped) /\ size <= blocks_to_map /\ size \in Nat
  BY RoomEnough, FS_CardinalityType
<1>2. /\ fiemap \in [1 .. (IF size < blocks_to_map THEN size ELSE blocks_to_map) -> clipped]
      /\ \A z \in 1 .. (IF size < blocks_to_map THEN size ELSE blocks_to_map) :
            \A e \in clipped :
                e.start < fiemap[z].start <=> \E b \in 1 .. z - 1 : fiemap[b] = e
  BY DEF Window, Fiemap, Touching, Clip
<1>3. (IF size < blocks_to_map THEN size ELSE blocks_to_map) = size
  BY <1>1
<1>4. /\ fiemap \in [1 .. size -> clipped]
      /\ \A z \in 1 .. size : \A e \in clipped :
                e.start < fiemap[z].start <=> \E b \in 1 .. z - 1 : fiemap[b] = e
  BY <1>2, <1>3
<1>5. clipped \subseteq ExtentRecords
  BY ClipKeeps
<1> HIDE DEF clipped, size
<1>6. fiemap \in Seq(ExtentRecords) /\ Len(fiemap) = size
  BY <1>1, <1>4, <1>5
<1>7. ASSUME NEW b \in 1 .. size, NEW z \in 1 .. size, b < z
      PROVE  fiemap[b].start < fiemap[z].start
  <2>1. b \in 1 .. z - 1 /\ fiemap[b] \in clipped
    BY <1>1, <1>4, <1>7
  <2> QED BY <1>4, <2>1
<1>8. fiemap \in Injection(1 .. size, clipped)
  <2>1. ASSUME NEW b \in 1 .. size, NEW z \in 1 .. size, b < z PROVE fiemap[b] # fiemap[z]
    <3>1. fiemap[b] \in ExtentRecords /\ fiemap[b].start < fiemap[z].start
      BY <1>4, <1>5, <1>7, <2>1
    <3> QED BY <3>1 DEF ExtentRecords
  <2>2. ASSUME NEW b \in 1 .. size, NEW z \in 1 .. size, fiemap[b] = fiemap[z] PROVE b = z
    BY <1>1, <2>1, <2>2
  <2> QED BY <1>4, <2>2 DEF Injection, IsInjective
<1>9. fiemap \in Surjection(1 .. size, clipped)
  <2>1. IsFiniteSet(1 .. size) /\ Cardinality(1 .. size) = IF 1 > size THEN 0 ELSE size - 1 + 1
    BY <1>1, FS_Interval
  <2>2. Cardinality(1 .. size) = Cardinality(clipped)
    BY <1>1, <2>1 DEF size
  <2> QED BY <1>1, <1>8, <2>2, FS_Injection
<1>10. \A e \in clipped : \E z \in 1 .. size : fiemap[z] = e
  BY <1>9 DEF Surjection
<1>11. IsPage(fiemap)
  BY <1>1, <1>4, <1>5, <1>6 DEF IsPage
<1>12. \A z \in 1 .. Len(fiemap) : \E e \in Touching : fiemap[z] = Clip(e, clips)
  BY <1>4, <1>6 DEF clipped
<1>13. \A e \in Touching : \E z \in 1 .. Len(fiemap) : fiemap[z] = Clip(e, clips)
  BY <1>6, <1>10 DEF clipped
<1> QED BY <1>6, <1>7, <1>11, <1>12, <1>13 DEF Complete

-----------------------------------------------------------------------------
(* What a page that passes shows. *)

LEMMA Remainder ==
    ASSUME NEW m \in Int
    PROVE  /\ m \div blocksize \in Int /\ m % blocksize \in 0 .. blocksize - 1
           /\ m = (m \div blocksize) * blocksize + (m % blocksize)
BY OptionsAssumption

\* The block of an offset, and alignment does not depend on where a block begins.
LEMMA BlockOfOffset ==
    ASSUME NEW b \in Int
    PROVE  /\ (b * blocksize) \div blocksize = b
           /\ \A m \in Int : (m - b * blocksize) % blocksize = 0 <=> m % blocksize = 0
<1> DEFINE B == blocksize
           q == (b * B) \div B
<1>1. B \in Nat \ {0} /\ b * B \in Int
  BY OptionsAssumption
<1>2. q = b
  <2>1. q \in Int /\ (b * B) % B \in 0 .. B - 1 /\ b * B = q * B + ((b * B) % B)
    BY <1>1, Remainder
  <2> HIDE DEF q
  <2>2. ~(q < b)
    <3>1. q < b => q * B + B <= b * B
      BY <2>1, BlockOffsets
    <3> QED BY <1>1, <2>1, <3>1
  <2>3. ~(b < q)
    <3>1. b < q => b * B + B <= q * B
      BY <2>1, BlockOffsets
    <3> QED BY <1>1, <2>1, <3>1
  <2> QED BY <2>1, <2>2, <2>3
<1>3. ASSUME NEW a \in Int PROVE (a * B) % B = 0
  BY <1>1
<1>4. ASSUME NEW m \in Int PROVE m % B = 0 <=> \E a \in Int : m = a * B
  <2> DEFINE v == m \div B
             vB == v * B
  <2>1. m % B = 0 => m = v * B /\ v \in Int
    <3>1. v \in Int /\ m = vB + (m % B)
      BY Remainder
    <3>2. vB \in Int
      BY <1>1, <3>1
    <3> HIDE DEF vB
    <3>3. m % B = 0 => m = vB
      BY <3>1, <3>2
    <3> QED BY <3>1, <3>3 DEF vB
  <2> QED BY <1>3, <2>1
<1>5. ASSUME NEW m \in Int PROVE (m - b * B) % B = 0 <=> m % B = 0
  <2>1. ASSUME NEW a \in Int, m - b * B = a * B PROVE \E z \in Int : m = z * B
    <3>1. a + b \in Int /\ (a + b) * B = a * B + b * B
      BY BlockOffsets
    <3>2. a * B \in Int
      BY <1>1
    <3>3. m = (a + b) * B
      BY <1>1, <2>1, <3>1, <3>2
    <3> QED BY <3>1, <3>3
  <2>2. ASSUME NEW a \in Int, m = a * B PROVE \E z \in Int : m - b * B = z * B
    <3>1. a - b \in Int /\ (a - b) + b = a
      OBVIOUS
    <3>2. ((a - b) + b) * B = (a - b) * B + b * B
      BY <3>1, BlockOffsets
    <3>3. (a - b) * B \in Int
      BY <1>1, <3>1
    <3>4. m - b * B = (a - b) * B
      BY <1>1, <2>2, <3>1, <3>2, <3>3
    <3> QED BY <3>1, <3>4
  <2>3. m - b * B \in Int
    BY <1>1
  <2>4. (m - b * B) % B = 0 <=> \E a \in Int : m - b * B = a * B
    BY <1>4, <2>3
  <2>5. m % B = 0 <=> \E a \in Int : m = a * B
    BY <1>4
  <2> QED BY <2>1, <2>2, <2>4, <2>5
<1> QED BY <1>2, <1>5

\* An extent is aligned in the same way when it is clipped.
LEMMA ClipAligned ==
    ASSUME FileExtents(extents), cur_extent \in Nat, NEW clips \in BOOLEAN, NEW e \in Touching
    PROVE  FlagsAgree(Clip(e, clips)) <=> FlagsAgree(e)
<1>1. PICK a \in 0 .. blocks - 1 : e.start = a * blocksize
  BY DEF FileExtents, Touching
<1>2. /\ Clip(e, clips).end = e.end /\ Clip(e, clips).flags = e.flags
      /\ Clip(e, clips).aligned = e.aligned
      /\ Clip(e, clips).start \in {e.start, cur_extent * blocksize}
      /\ e.end \in Int /\ a \in Int
  BY ClipKeeps DEF FileExtents, Touching, ExtentRecords
<1>3. (e.end - a * blocksize) % blocksize = 0 <=> e.end % blocksize = 0
  BY <1>2, BlockOfOffset
<1>4. (e.end - cur_extent * blocksize) % blocksize = 0 <=> e.end % blocksize = 0
  BY <1>2, BlockOfOffset
<1>5. Aligned(Clip(e, clips)) <=> Aligned(e)
  BY <1>1, <1>2, <1>3, <1>4 DEF Aligned
<1> QED BY <1>2, <1>5 DEF FlagsAgree

MayPage ==
    /\ map \in Seq({"D", "H", "P"}) /\ FileExtents(extents)
    /\ cur_extent \in Nat /\ cur_extent < blocks /\ blocks_to_map \in Nat \ {0}

LEMMA MayPageFacts ==
    ASSUME MayPage
    PROVE  /\ blocks \in Nat /\ NextExtent \in cur_extent + 1 .. blocks
           /\ NextExtent <= cur_extent + blocks_to_map
           /\ \A b \in cur_extent .. NextExtent - 1 :
                 /\ b \in 0 .. blocks - 1 /\ b * blocksize \in Nat
                 /\ (b + 1) * blocksize = b * blocksize + blocksize
                 /\ \A e \in extents : Covers(e, b * blocksize) => e \in Touching
<1>1. blocks \in Nat
  BY DEF MayPage, blocks
<1>2. NextExtent \in cur_extent + 1 .. blocks /\ NextExtent <= cur_extent + blocks_to_map
  BY <1>1 DEF MayPage, NextExtent
<1>3. ASSUME NEW b \in cur_extent .. NextExtent - 1
      PROVE  /\ b \in 0 .. blocks - 1 /\ b * blocksize \in Nat
             /\ (b + 1) * blocksize = b * blocksize + blocksize
             /\ \A e \in extents : Covers(e, b * blocksize) => e \in Touching
  <2>1. b \in 0 .. blocks - 1 /\ b \in Nat /\ b < cur_extent + blocks_to_map /\ cur_extent <= b
    BY <1>1, <1>2, <1>3 DEF MayPage
  <2>2. b * blocksize \in Nat
    BY <2>1, OptionsAssumption
  <2>3. cur_extent * blocksize <= b * blocksize
    BY <2>1, BlockOffsets DEF MayPage
  <2>4. /\ b * blocksize + blocksize <= (cur_extent + blocks_to_map) * blocksize
        /\ (cur_extent + blocks_to_map) * blocksize
              = cur_extent * blocksize + blocks_to_map * blocksize
    <3>1. cur_extent \in Int /\ blocks_to_map \in Int /\ cur_extent + blocks_to_map \in Int
      BY DEF MayPage
    <3>2. (cur_extent + blocks_to_map) * blocksize
              = cur_extent * blocksize + blocks_to_map * blocksize
      BY <3>1, BlockOffsets
    <3>3. b \in Int /\ b < cur_extent + blocks_to_map
      BY <2>1
    <3>4. b * blocksize + blocksize <= (cur_extent + blocks_to_map) * blocksize
      BY <3>1, <3>3, BlockOffsets
    <3> QED BY <3>2, <3>4
  <2>5. cur_extent * blocksize \in Int /\ blocks_to_map * blocksize \in Int
    BY OptionsAssumption DEF MayPage
  <2>6. ASSUME NEW e \in extents, Covers(e, b * blocksize) PROVE e \in Touching
    <3>1. e.start \in Nat /\ e.end \in Nat
      BY DEF MayPage, FileExtents, ExtentRecords
    <3> QED BY <2>2, <2>3, <2>4, <2>5, <2>6, <3>1, OptionsAssumption DEF Touching, Covers
  <2>7. (b + 1) * blocksize = b * blocksize + blocksize
    BY <2>1, BlockOffsets
  <2> QED BY <2>1, <2>2, <2>6, <2>7
<1> QED BY <1>1, <1>2, <1>3

LEMMA PassedBlockAgrees ==
    ASSUME MayPage, NEW clips \in BOOLEAN, NEW fiemap \in Window(clips), NEW unreadable,
           PagePasses(fiemap, unreadable), NEW b \in cur_extent .. NextExtent - 1
    PROVE  Agrees(b)
<1>1. Complete(fiemap, clips) /\ IsPage(fiemap)
  BY WindowComplete DEF MayPage, Complete
<1>2. /\ b * blocksize \in Nat /\ b \in 0 .. blocks - 1
      /\ (b + 1) * blocksize = b * blocksize + blocksize
  BY MayPageFacts
<1>3. ASSUME NEW z \in 1 .. Len(fiemap)
      PROVE  \E e \in extents : /\ e \in Touching /\ fiemap[z] = Clip(e, clips)
                                /\ e.start <= fiemap[z].start /\ fiemap[z].end = e.end
                                /\ fiemap[z].flags = e.flags
                                /\ e.start \in Nat /\ e.end \in Nat /\ fiemap[z].start \in Nat
  <2>1. PICK e \in Touching : fiemap[z] = Clip(e, clips)
    BY <1>1, <1>3 DEF Complete
  <2>2. e \in extents /\ e \in ExtentRecords
    BY <2>1 DEF Touching, MayPage, FileExtents
  <2> QED BY <2>1, <2>2, ClipKeeps DEF MayPage, ExtentRecords
<1>4. CASE map[b + 1] # "H"
  <2>1. PICK z \in extent_of(fiemap, b * blocksize) :
            b = last_data => "LAST" \in fiemap[z].flags
    BY <1>4 DEF PagePasses, check_data
  <2>2. /\ z \in 1 .. Len(fiemap) /\ fiemap[z].end >= b * blocksize + blocksize
        /\ \A y \in b * blocksize .. b * blocksize + blocksize - 1 : ListedByte(fiemap, y)
    BY <1>1, <1>2, <2>1, FoundListed
  <2>3. ASSUME NEW y \in b * blocksize .. b * blocksize + blocksize - 1 PROVE Reported(y)
    <3>1. PICK x \in 1 .. Len(fiemap) : fiemap[x].start <= y /\ y <= fiemap[x].end
      BY <2>2, <2>3 DEF ListedByte
    <3>2. PICK e \in extents : /\ e.start <= fiemap[x].start /\ fiemap[x].end = e.end
                               /\ e.start \in Nat /\ e.end \in Nat /\ fiemap[x].start \in Nat
      BY <1>3, <3>1
    <3>3. y \in Int
      BY <1>2, OptionsAssumption
    <3>4. e.start <= y /\ y <= e.end
      BY <3>1, <3>2, <3>3
    <3> QED BY <3>4 DEF Reported
  <2>4. b = last_data => \E e \in extents : "LAST" \in e.flags /\ e.end >= (b + 1) * blocksize
    <3>1. PICK e \in extents : fiemap[z].end = e.end /\ fiemap[z].flags = e.flags
      BY <1>3, <2>2
    <3> QED BY <1>2, <2>1, <2>2, <3>1
  <2>5. b * blocksize + blocksize - 1 = (b + 1) * blocksize - 1
    BY <1>2, OptionsAssumption
  <2>6. \A y \in b * blocksize .. (b + 1) * blocksize - 1 : Reported(y)
    BY <2>3, <2>5
  <2> QED BY <1>4, <2>4, <2>6 DEF Agrees
<1>5. CASE map[b + 1] = "H"
  <2> SUFFICES ASSUME NEW e \in extents, Covers(e, b * blocksize) PROVE disk[b] = "zeroed"
    BY <1>5 DEF Agrees
  <2>1. e \in Touching
    BY MayPageFacts
  <2>2. PICK z \in 1 .. Len(fiemap) : fiemap[z] = Clip(e, clips)
    BY <1>1, <2>1 DEF Complete
  <2>3. /\ fiemap[z].end = e.end /\ fiemap[z].start \in {e.start, cur_extent * blocksize}
    BY <2>1, <2>2, ClipKeeps DEF MayPage
  <2>4. cur_extent * blocksize <= b * blocksize
    BY <1>2, BlockOffsets DEF MayPage
  <2>5. Covers(fiemap[z], b * blocksize)
    BY <2>3, <2>4 DEF Covers
  <2>6. z \in DOMAIN fiemap
    BY <1>1 DEF IsPage
  <2>7. disk[(b * blocksize) \div blocksize] = "zeroed"
    BY <1>5, <2>5, <2>6 DEF PagePasses, check_hole, check_weird_fs_hole
  <2>8. b \in Int /\ (b * blocksize) \div blocksize = b
    BY <1>2, BlockOfOffset
  <2> QED BY <2>7, <2>8
<1> QED BY <1>4, <1>5

LEMMA PassedFlagsAgree ==
    ASSUME MayPage, NEW clips \in BOOLEAN, NEW fiemap \in Window(clips), NEW unreadable,
           PagePasses(fiemap, unreadable),
           \A e \in extents : e.start < cur_extent * blocksize => FlagsAgree(e),
           NEW e \in extents, e.start < NextExtent * blocksize
    PROVE  FlagsAgree(e)
<1>1. CASE e \in Touching
  <2>1. Complete(fiemap, clips) /\ IsPage(fiemap)
    BY WindowComplete DEF MayPage, Complete
  <2>2. PICK z \in 1 .. Len(fiemap) : fiemap[z] = Clip(e, clips)
    BY <1>1, <2>1 DEF Complete
  <2>3. FlagsAgree(fiemap[z])
    BY <2>1, <2>2 DEF PagePasses, check_flags, IsPage
  <2> QED BY <1>1, <2>2, <2>3, ClipAligned DEF MayPage
<1>2. CASE ~(e.start < cur_extent * blocksize)
  <2>1. e.start \in Nat /\ e.end \in Nat /\ e.start < e.end
    BY DEF MayPage, FileExtents, ExtentRecords
  <2>2. cur_extent * blocksize \in Int /\ blocks_to_map * blocksize \in Int
        /\ NextExtent * blocksize \in Int
    BY MayPageFacts, OptionsAssumption DEF MayPage
  <2>3. /\ NextExtent * blocksize <= (cur_extent + blocks_to_map) * blocksize
        /\ (cur_extent + blocks_to_map) * blocksize
              = cur_extent * blocksize + blocks_to_map * blocksize
    <3>1. /\ cur_extent \in Int /\ blocks_to_map \in Int /\ cur_extent + blocks_to_map \in Int
          /\ NextExtent \in Int /\ NextExtent <= cur_extent + blocks_to_map
      BY MayPageFacts DEF MayPage
    <3> QED BY <3>1, BlockOffsets
  <2>4. e \in Touching
    BY <1>2, <2>1, <2>2, <2>3 DEF Touching
  <2> QED BY <1>1, <2>4
<1> QED BY <1>2

-----------------------------------------------------------------------------
(* The extents of a file. *)

LEMMA GreatestExists ==
    ASSUME NEW h \in Nat, NEW T, T \subseteq 0 .. h, T # {}
    PROVE  \E m \in T : \A l \in T : l <= m
<1> DEFINE U == {h + 1 - x : x \in T}
<1>1. U \subseteq 1 .. h + 1 /\ U # {} /\ h + 1 \in Nat
  <2>1. \A x \in T : x \in 0 .. h /\ h + 1 - x \in 1 .. h + 1
    OBVIOUS
  <2>2. U \subseteq 1 .. h + 1
    BY <2>1
  <2>3. U # {}
    OBVIOUS
  <2> QED BY <2>2, <2>3
<1>2. PICK u \in U : \A v \in U : u <= v
  <2> HIDE DEF U
  <2> QED BY <1>1, LeastExists
<1>3. PICK m \in T : u = h + 1 - m
  BY <1>2
<1>4. ASSUME NEW l \in T PROVE l <= m
  <2>1. h + 1 - l \in U
    OBVIOUS
  <2>2. u <= h + 1 - l
    BY <1>2, <2>1
  <2>3. l \in 0 .. h /\ m \in 0 .. h
    OBVIOUS
  <2> QED BY <1>3, <2>2, <2>3
<1> QED BY <1>4

LEMMA DiskIs ==
    ASSUME map \in Seq({"D", "H", "P"}), NEW d \in Allocated(map)
    PROVE  /\ blocks \in Nat /\ DOMAIN d = 0 .. blocks - 1
           /\ \A b \in 0 .. blocks - 1 :
                 /\ d[b] \in {"data", "unwritten", "none", "zeroed", "garbage"}
                 /\ map[b + 1] # "H" <=> d[b] \in {"data", "unwritten"}
                 /\ map[b + 1] = "H" /\ d[b] # "none" => \E a \in b + 2 .. blocks : map[a] # "H"
<1>1. blocks \in Nat
  BY DEF blocks
<1>2. /\ d \in [0 .. blocks - 1 -> {"data", "unwritten"} \cup HoleKinds]
      /\ \A b \in DOMAIN d :
           CASE map[b + 1] = "D" -> d[b] = "data"
             [] map[b + 1] = "P" -> d[b] = "unwritten"
             [] map[b + 1] = "H" -> /\ d[b] \in HoleKinds
                                    /\ d[b] = "none" \/ \E a \in b + 2 .. blocks : map[a] # "H"
  BY DEF Allocated, blocks
<1>3. ASSUME NEW b \in 0 .. blocks - 1
      PROVE  /\ d[b] \in {"data", "unwritten", "none", "zeroed", "garbage"}
             /\ map[b + 1] # "H" <=> d[b] \in {"data", "unwritten"}
             /\ map[b + 1] = "H" /\ d[b] # "none" => \E a \in b + 2 .. blocks : map[a] # "H"
  <2>1. b + 1 \in 1 .. Len(map) /\ Len(map) \in Nat
    BY <1>1, <1>3 DEF blocks
  <2>2. map[b + 1] \in {"D", "H", "P"}
    BY <2>1, ElementOfSeq
  <2>3. b \in DOMAIN d
    BY <1>2, <1>3
  <2>4. CASE map[b + 1] = "D"
    BY <1>2, <2>3, <2>4
  <2>5. CASE map[b + 1] = "P"
    BY <1>2, <2>3, <2>5
  <2>6. CASE map[b + 1] = "H"
    <3>1. /\ d[b] \in HoleKinds
          /\ d[b] = "none" \/ \E a \in b + 2 .. blocks : map[a] # "H"
      BY <1>2, <2>3, <2>6
    <3> QED BY <2>6, <3>1, EnvironmentAssumption
  <2> QED BY <2>2, <2>4, <2>5, <2>6
<1> QED BY <1>1, <1>2, <1>3

\* Two stretches are one, or one is before the other.
LEMMA StretchesApart ==
    ASSUME blocks \in Nat, NEW d, NEW cuts,
           NEW lo \in 0 .. blocks - 1, NEW hi \in 0 .. blocks - 1, Stretch(d, cuts, lo, hi),
           NEW lo2 \in 0 .. blocks - 1, NEW hi2 \in 0 .. blocks - 1, Stretch(d, cuts, lo2, hi2)
    PROVE  (lo = lo2 /\ hi = hi2) \/ hi < lo2 \/ hi2 < lo
<1>1. /\ lo <= hi /\ StartsAt(d, cuts, lo)
      /\ \A b \in lo .. hi : d[b] # "none" /\ (b > lo => ~StartsAt(d, cuts, b))
      /\ hi + 1 = blocks \/ d[hi + 1] = "none" \/ StartsAt(d, cuts, hi + 1)
  BY DEF Stretch
<1>2. /\ lo2 <= hi2 /\ StartsAt(d, cuts, lo2)
      /\ \A b \in lo2 .. hi2 : d[b] # "none" /\ (b > lo2 => ~StartsAt(d, cuts, b))
      /\ hi2 + 1 = blocks \/ d[hi2 + 1] = "none" \/ StartsAt(d, cuts, hi2 + 1)
  BY DEF Stretch
<1>3. lo < lo2 => hi < lo2
  BY <1>1, <1>2
<1>4. lo2 < lo => hi2 < lo
  BY <1>1, <1>2
<1>5. ASSUME lo = lo2, hi < hi2 PROVE FALSE
  <2>1. hi + 1 \in lo2 .. hi2 /\ hi + 1 > lo2 /\ hi + 1 # blocks
    BY <1>1, <1>5
  <2> QED BY <1>1, <1>2, <2>1
<1>6. ASSUME lo = lo2, hi2 < hi PROVE FALSE
  <2>1. hi2 + 1 \in lo .. hi /\ hi2 + 1 > lo /\ hi2 + 1 # blocks
    BY <1>2, <1>6
  <2> QED BY <1>1, <1>2, <2>1
<1> QED BY <1>3, <1>4, <1>5, <1>6

\* Every block that is there lies in a stretch.
LEMMA StretchExists ==
    ASSUME blocks \in Nat, NEW d, NEW cuts, NEW b \in 0 .. blocks - 1, d[b] # "none"
    PROVE  \E lo \in 0 .. blocks - 1, hi \in 0 .. blocks - 1 :
               Stretch(d, cuts, lo, hi) /\ lo <= b /\ b <= hi
<1> DEFINE From == {a \in 0 .. b : StartsAt(d, cuts, a)}
           Stops(a) == a + 1 = blocks \/ d[a + 1] = "none" \/ StartsAt(d, cuts, a + 1)
           To == {x \in 1 .. blocks : x - 1 >= b /\ Stops(x - 1)}
<1>1. PICK lo \in From : \A a \in From : a <= lo
  <2>1. 0 \in From
    BY DEF StartsAt
  <2>2. From \subseteq 0 .. b /\ From # {} /\ b \in Nat
    BY <2>1
  <2> HIDE DEF From
  <2> QED BY <2>2, GreatestExists
<1>2. PICK x \in To : \A y \in To : x <= y
  <2>1. blocks \in To
    OBVIOUS
  <2>2. To \subseteq 1 .. blocks /\ To # {}
    BY <2>1
  <2> HIDE DEF To
  <2> QED BY <2>2, LeastExists
<1> DEFINE hi == x - 1
<1>3. /\ lo \in 0 .. blocks - 1 /\ hi \in 0 .. blocks - 1 /\ lo <= b /\ b <= hi
      /\ StartsAt(d, cuts, lo) /\ Stops(hi)
  BY <1>1, <1>2
<1>4. ASSUME NEW a \in lo + 1 .. b PROVE ~StartsAt(d, cuts, a)
  <2>1. a \in 0 .. b /\ a \notin From
    BY <1>1, <1>3, <1>4
  <2> QED BY <2>1
<1>5. ASSUME NEW a \in lo .. b PROVE d[a] # "none"
  <2>1. CASE a = b
    BY <2>1
  <2>2. CASE a < b
    <3>1. a + 1 \in lo + 1 .. b /\ (a + 1) - 1 = a
      BY <1>3, <1>5, <2>2
    <3>2. ~StartsAt(d, cuts, a + 1)
      BY <1>4, <3>1
    <3> QED BY <3>1, <3>2 DEF StartsAt
  <2> QED BY <1>3, <1>5, <2>1, <2>2
<1>6. ASSUME NEW a \in b .. hi - 1 PROVE ~Stops(a)
  <2>1. a + 1 \in 1 .. blocks /\ a + 1 \notin To /\ (a + 1) - 1 = a
    BY <1>2, <1>3, <1>6
  <2> QED BY <2>1, <1>6
<1>7. ASSUME NEW a \in lo .. hi PROVE d[a] # "none" /\ (a > lo => ~StartsAt(d, cuts, a))
  <2>1. CASE a <= b
    <3>1. a \in lo .. b /\ (a > lo => a \in lo + 1 .. b)
      BY <1>3, <1>7, <2>1
    <3> QED BY <1>4, <1>5, <3>1
  <2>2. CASE b < a
    <3>1. a - 1 \in b .. hi - 1 /\ (a - 1) + 1 = a
      BY <1>3, <1>7, <2>2
    <3> QED BY <1>6, <3>1
  <2> QED BY <1>3, <1>7, <2>1, <2>2
<1>8. Stretch(d, cuts, lo, hi)
  BY <1>3, <1>7 DEF Stretch
<1> QED BY <1>3, <1>8

LEMMA TrueExtentIs ==
    ASSUME map \in Seq({"D", "H", "P"}), NEW d \in Allocated(map), NEW cuts
    PROVE  /\ \A e \in TrueExtents(d, cuts) :
                 \E lo \in 0 .. blocks - 1, hi \in 0 .. blocks - 1 :
                     Stretch(d, cuts, lo, hi) /\ e = TrueExtent(d, lo, hi)
           /\ \A lo \in 0 .. blocks - 1, hi \in 0 .. blocks - 1 :
                 Stretch(d, cuts, lo, hi) => TrueExtent(d, lo, hi) \in TrueExtents(d, cuts)
<1>1. DOMAIN d = 0 .. blocks - 1
  BY DiskIs
<1>2. ASSUME NEW lo \in 0 .. blocks - 1, NEW hi \in 0 .. blocks - 1, Stretch(d, cuts, lo, hi)
      PROVE  TrueExtent(d, lo, hi) \in TrueExtents(d, cuts)
  <2> DEFINE r == <<lo, hi>>
  <2>1. r \in (DOMAIN d) \X (DOMAIN d) /\ r[1] = lo /\ r[2] = hi
    BY <1>1
  <2> HIDE DEF r
  <2> QED BY <1>2, <2>1 DEF TrueExtents
<1> QED BY <1>1, <1>2 DEF TrueExtents

LEMMA TrueExtentRecord ==
    ASSUME blocks \in Nat, NEW d, NEW lo \in 0 .. blocks - 1, NEW hi \in 0 .. blocks - 1, lo <= hi
    PROVE  /\ TrueExtent(d, lo, hi) \in ExtentRecords
           /\ TrueExtent(d, lo, hi).start = lo * blocksize
           /\ TrueExtent(d, lo, hi).end = (hi + 1) * blocksize
           /\ TrueExtent(d, lo, hi).start + blocksize <= TrueExtent(d, lo, hi).end
           /\ TrueExtent(d, lo, hi).end <= blocks * blocksize
           /\ TrueExtent(d, lo, hi).aligned = TRUE
           /\ TrueExtent(d, lo, hi).flags \subseteq {"UNWRITTEN", "LAST"}
           /\ "LAST" \in TrueExtent(d, lo, hi).flags <=>
                 \A b \in hi + 1 .. blocks - 1 : d[b] = "none"
<1>1. lo * blocksize \in Nat /\ (hi + 1) * blocksize \in Nat
  BY OptionsAssumption
<1>2. /\ lo * blocksize + blocksize <= (hi + 1) * blocksize
      /\ (hi + 1) * blocksize <= blocks * blocksize
  <2>1. lo < hi + 1 /\ hi + 1 <= blocks /\ lo \in Int /\ hi + 1 \in Int
    OBVIOUS
  <2> QED BY <2>1, BlockOffsets
<1>3. {"UNWRITTEN", "LAST"} \subseteq ExtentFlags
  BY DEF ExtentFlags
<1> DEFINE w == IF d[lo] = "unwritten" THEN {"UNWRITTEN"} ELSE {}
           l == IF \A b \in hi + 1 .. blocks - 1 : d[b] = "none" THEN {"LAST"} ELSE {}
<1>4. /\ w \cup l \subseteq {"UNWRITTEN", "LAST"}
      /\ "LAST" \in w \cup l <=> \A b \in hi + 1 .. blocks - 1 : d[b] = "none"
  OBVIOUS
<1>5. TrueExtent(d, lo, hi) = [start |-> lo * blocksize, end |-> (hi + 1) * blocksize,
                               aligned |-> TRUE, flags |-> w \cup l]
  BY DEF TrueExtent
<1> HIDE DEF w, l
<1>6. w \cup l \in SUBSET ExtentFlags
  BY <1>3, <1>4
<1> QED BY <1>1, <1>2, <1>4, <1>5, <1>6 DEF ExtentRecords

LEMMA TrueExtentsFine ==
    ASSUME map \in Seq({"D", "H", "P"}), NEW d \in Allocated(map), NEW cuts
    PROVE  FileExtents(TrueExtents(d, cuts))
<1> DEFINE E == TrueExtents(d, cuts)
<1>1. blocks \in Nat
  BY DiskIs
<1>2. ASSUME NEW e \in E
      PROVE  \E lo \in 0 .. blocks - 1, hi \in 0 .. blocks - 1 :
                Stretch(d, cuts, lo, hi) /\ lo <= hi /\ e = TrueExtent(d, lo, hi)
  BY <1>2, TrueExtentIs DEF Stretch
<1> HIDE DEF E
<1>3. ASSUME NEW e \in E
      PROVE  /\ e \in ExtentRecords /\ e.start < e.end /\ e.end <= blocks * blocksize
             /\ \E b \in 0 .. blocks - 1 : e.start = b * blocksize
  <2>1. PICK lo \in 0 .. blocks - 1, hi \in 0 .. blocks - 1 :
                Stretch(d, cuts, lo, hi) /\ lo <= hi /\ e = TrueExtent(d, lo, hi)
    BY <1>2, <1>3
  <2>2. /\ e \in ExtentRecords /\ e.start = lo * blocksize /\ e.start + blocksize <= e.end
        /\ e.end <= blocks * blocksize
    <3>1. e.start = lo * blocksize
      BY <2>1 DEF TrueExtent
    <3>2. lo <= hi
      BY <2>1
    <3>3. /\ TrueExtent(d, lo, hi) \in ExtentRecords
          /\ TrueExtent(d, lo, hi).start + blocksize <= TrueExtent(d, lo, hi).end
          /\ TrueExtent(d, lo, hi).end <= blocks * blocksize
      BY <1>1, <3>2, TrueExtentRecord
    <3> QED BY <2>1, <3>1, <3>3
  <2>3. e.start < e.end
    BY <2>2, OptionsAssumption DEF ExtentRecords
  <2> QED BY <2>1, <2>2, <2>3
<1>4. ASSUME NEW e \in E, NEW f \in E PROVE e = f \/ e.end <= f.start \/ f.end <= e.start
  <2>1. PICK lo \in 0 .. blocks - 1, hi \in 0 .. blocks - 1 :
                Stretch(d, cuts, lo, hi) /\ lo <= hi /\ e = TrueExtent(d, lo, hi)
    BY <1>2, <1>4
  <2>2. PICK lo2 \in 0 .. blocks - 1, hi2 \in 0 .. blocks - 1 :
                Stretch(d, cuts, lo2, hi2) /\ lo2 <= hi2 /\ f = TrueExtent(d, lo2, hi2)
    BY <1>2, <1>4
  <2>3. /\ e.start = lo * blocksize /\ e.end = (hi + 1) * blocksize
        /\ f.start = lo2 * blocksize /\ f.end = (hi2 + 1) * blocksize
    <3>1. e.start = lo * blocksize /\ e.end = (hi + 1) * blocksize
      BY <2>1 DEF TrueExtent
    <3>2. f.start = lo2 * blocksize /\ f.end = (hi2 + 1) * blocksize
      BY <2>2 DEF TrueExtent
    <3> QED BY <3>1, <3>2
  <2>4. CASE lo = lo2 /\ hi = hi2
    BY <2>1, <2>2, <2>4
  <2>5. CASE hi < lo2
    BY <2>3, <2>5, BlockOffsets
  <2>6. CASE hi2 < lo
    BY <2>3, <2>6, BlockOffsets
  <2> QED BY <1>1, <2>1, <2>2, <2>4, <2>5, <2>6, StretchesApart
<1>5. FileExtents(E)
  BY <1>3, <1>4 DEF FileExtents
<1> QED BY <1>5 DEF E

\* An extent may be replaced by one within it that begins where it does.
LEMMA WithoutFine ==
    ASSUME blocks \in Nat, NEW E, FileExtents(E), NEW e \in E, NEW e2 \in ExtentRecords,
           e2.start = e.start, e2.start < e2.end, e2.end <= e.end
    PROVE  FileExtents(Without(E, e, e2))
<1> DEFINE F == Without(E, e, e2)
<1>1. E \subseteq ExtentRecords /\ e \in ExtentRecords
  BY DEF FileExtents
<1>2. ASSUME NEW x \in F
      PROVE  /\ x \in ExtentRecords /\ x.start < x.end
             /\ \E y \in E : /\ x.start = y.start /\ x.end <= y.end
                             /\ y = e => x = e2
                             /\ y # e => x = y
  <2>1. CASE x = e2
    BY <1>1, <2>1
  <2>2. CASE x # e2
    <3>1. x \in E /\ x # e
      BY <2>2, <1>2 DEF Without
    <3>2. x \in ExtentRecords /\ x.start < x.end
      BY <3>1 DEF FileExtents
    <3> QED BY <3>1, <3>2 DEF ExtentRecords
  <2> QED BY <2>1, <2>2
<1> HIDE DEF F
<1>3. ASSUME NEW x \in F
      PROVE  /\ x \in ExtentRecords /\ x.start < x.end /\ x.end <= blocks * blocksize
             /\ \E b \in 0 .. blocks - 1 : x.start = b * blocksize
  <2>1. PICK y \in E : x.start = y.start /\ x.end <= y.end
    BY <1>2, <1>3
  <2>2. /\ y \in ExtentRecords /\ y.end <= blocks * blocksize
        /\ \E b \in 0 .. blocks - 1 : y.start = b * blocksize
    BY <2>1 DEF FileExtents
  <2>3. x \in ExtentRecords /\ x.start < x.end
    BY <1>2, <1>3
  <2>4. x.end <= blocks * blocksize
    <3>1. x.end \in Nat /\ y.end \in Nat
      BY <2>2, <2>3 DEF ExtentRecords
    <3>2. blocks * blocksize \in Nat
      BY OptionsAssumption
    <3> QED BY <2>1, <2>2, <3>1, <3>2
  <2> QED BY <2>1, <2>2, <2>3, <2>4
<1>4. ASSUME NEW x \in F, NEW x2 \in F PROVE x = x2 \/ x.end <= x2.start \/ x2.end <= x.start
  <2>1. PICK y \in E : x.start = y.start /\ x.end <= y.end /\ (y = e => x = e2) /\ (y # e => x = y)
    BY <1>2, <1>4
  <2>2. PICK y2 \in E : /\ x2.start = y2.start /\ x2.end <= y2.end
                        /\ (y2 = e => x2 = e2) /\ (y2 # e => x2 = y2)
    BY <1>2, <1>4
  <2>3. y = y2 \/ y.end <= y2.start \/ y2.end <= y.start
    BY DEF FileExtents
  <2>4. /\ x.end \in Nat /\ x2.end \in Nat /\ y.end \in Nat /\ y2.end \in Nat
        /\ y.start \in Nat /\ y2.start \in Nat
    BY <1>1, <1>2, <1>4 DEF ExtentRecords
  <2> QED BY <2>1, <2>2, <2>3, <2>4
<1>5. FileExtents(F)
  BY <1>3, <1>4 DEF FileExtents
<1> QED BY <1>5 DEF F

\* Whatever the fault, FIEMAP reports extents of the file.
LEMMA ReportsFine ==
    ASSUME map \in Seq({"D", "H", "P"}), NEW d \in Allocated(map), NEW cuts, NEW f \in Faults,
           NEW X \in Reports(TrueExtents(d, cuts), d, f)
    PROVE  FileExtents(X)
<1> DEFINE E == TrueExtents(d, cuts)
<1>1. FileExtents(E) /\ blocks \in Nat /\ DOMAIN d = 0 .. blocks - 1
  BY TrueExtentsFine, DiskIs
<1>2. E \subseteq ExtentRecords /\ \A e \in E : e.start < e.end
  BY <1>1 DEF FileExtents
<1>3. ASSUME NEW e \in E PROVE e.start + blocksize <= e.end
  <2>1. PICK lo \in 0 .. blocks - 1, hi \in 0 .. blocks - 1 :
            Stretch(d, cuts, lo, hi) /\ e = TrueExtent(d, lo, hi)
    BY <1>3, TrueExtentIs
  <2>2. lo <= hi
    BY <2>1 DEF Stretch
  <2> QED BY <1>1, <2>1, <2>2, TrueExtentRecord
<1>4. ASSUME NEW e \in E, NEW lo \in 0 .. blocks - 1, d[lo] = "none"
      PROVE  e.end <= lo * blocksize \/ (lo + 1) * blocksize <= e.start
  <2>1. PICK a \in 0 .. blocks - 1, b \in 0 .. blocks - 1 :
            Stretch(d, cuts, a, b) /\ e = TrueExtent(d, a, b)
    BY <1>4, TrueExtentIs
  <2>2. lo < a \/ b < lo
    BY <1>4, <2>1 DEF Stretch
  <2>3. e.start = a * blocksize /\ e.end = (b + 1) * blocksize
    BY <2>1 DEF TrueExtent
  <2>4. CASE lo < a
    <3>1. lo + 1 <= a /\ lo + 1 \in Int /\ a \in Int
      BY <2>4
    <3>2. (lo + 1) * blocksize <= a * blocksize
      BY <3>1, BlockOffsets
    <3> QED BY <2>3, <3>2
  <2>5. CASE b < lo
    <3>1. b + 1 <= lo /\ b + 1 \in Int /\ lo \in Int
      BY <2>5
    <3>2. (b + 1) * blocksize <= lo * blocksize
      BY <3>1, BlockOffsets
    <3> QED BY <2>3, <3>2
  <2> QED BY <2>2, <2>4, <2>5
<1> HIDE DEF E
<1>0. X \in Reports(E, d, f)
  BY DEF E
<1>5. CASE f = "none"
  BY <1>0, <1>1, <1>5 DEF Reports
<1>6. CASE f = "dropped"
  <2>1. X \subseteq E
    BY <1>0, <1>6 DEF Reports
  <2> QED BY <1>1, <2>1 DEF FileExtents
<1>7. CASE f = "shortened"
  <2> DEFINE S(e) == [e EXCEPT !.end = @ - blocksize \div 2, !.flags = @ \cup {"NOT_ALIGNED"}]
  <2>1. PICK e \in E : X = Without(E, e, S(e))
    BY <1>0, <1>7 DEF Reports
  <2>2. blocksize \div 2 \in Nat /\ blocksize \div 2 < blocksize /\ blocksize \in Nat
    BY OptionsAssumption
  <2>3. /\ e.start \in Nat /\ e.end \in Nat /\ e.end - blocksize \div 2 \in Nat
        /\ e.start < e.end - blocksize \div 2 /\ e.end - blocksize \div 2 <= e.end
    <3>1. e.start \in Nat /\ e.end \in Nat /\ e.start + blocksize <= e.end
      BY <1>2, <1>3 DEF ExtentRecords
    <3> QED BY <2>2, <3>1
  <2>4. /\ S(e).start = e.start /\ S(e).end = e.end - blocksize \div 2
        /\ S(e) \in ExtentRecords
    BY <1>2, <2>3 DEF ExtentRecords, ExtentFlags
  <2> HIDE DEF S
  <2> QED BY <1>1, <2>1, <2>3, <2>4, WithoutFine
<1>8. CASE f = "misplaced"
  <2> DEFINE S(e) == [e EXCEPT !.aligned = FALSE]
  <2>1. PICK e \in E : X = Without(E, e, S(e))
    BY <1>0, <1>8 DEF Reports
  <2>2. S(e) \in ExtentRecords /\ S(e).start = e.start /\ S(e).end = e.end /\ e.start < e.end
        /\ e.end \in Nat
    BY <1>2 DEF ExtentRecords
  <2> HIDE DEF S
  <2> QED BY <1>1, <2>1, <2>2, WithoutFine
<1>9. CASE f = "flag"
  <2> DEFINE S(e, g) == [e EXCEPT !.flags = @ \cup {g}]
  <2>1. PICK e \in E, g \in ExtentFlags : X = Without(E, e, S(e, g))
    BY <1>0, <1>9 DEF Reports
  <2>2. S(e, g) \in ExtentRecords /\ S(e, g).start = e.start /\ S(e, g).end = e.end
        /\ e.start < e.end /\ e.end \in Nat
    BY <1>2 DEF ExtentRecords
  <2> HIDE DEF S
  <2> QED BY <1>1, <2>1, <2>2, WithoutFine
<1>10. CASE f = "unflagged"
  <2> DEFINE S(e, g) == [e EXCEPT !.flags = @ \ {g}]
  <2>1. PICK e \in E : \E g \in e.flags : X = Without(E, e, S(e, g))
    BY <1>0, <1>10 DEF Reports
  <2>0. PICK g \in e.flags : X = Without(E, e, S(e, g))
    BY <2>1
  <2>2. S(e, g) \in ExtentRecords /\ S(e, g).start = e.start /\ S(e, g).end = e.end
        /\ e.start < e.end /\ e.end \in Nat
    BY <1>2 DEF ExtentRecords
  <2> HIDE DEF S
  <2> QED BY <1>1, <2>0, <2>2, WithoutFine
<1>11. CASE f = "ghost"
  <2> DEFINE S(b) == [start |-> b * blocksize, end |-> (b + 1) * blocksize,
                      aligned |-> TRUE, flags |-> {}]
  <2>1. PICK b \in 0 .. blocks - 1 : d[b] = "none" /\ X = E \cup {S(b)}
    BY <1>0, <1>1, <1>11 DEF Reports
  <2>2. /\ b * blocksize \in Nat /\ (b + 1) * blocksize \in Nat
        /\ b * blocksize < (b + 1) * blocksize
        /\ (b + 1) * blocksize <= blocks * blocksize
    <3>1. b \in Int /\ b \in Nat /\ b + 1 \in Nat /\ b + 1 \in Int /\ b + 1 <= blocks /\ blocks \in Int
      BY <1>1, <2>1
    <3>2. b * blocksize \in Nat /\ (b + 1) * blocksize \in Nat
      BY <3>1, OptionsAssumption
    <3>3. (b + 1) * blocksize <= blocks * blocksize
      BY <3>1, BlockOffsets
    <3>4. (b + 1) * blocksize = b * blocksize + blocksize
      BY <3>1, BlockOffsets
    <3> QED BY <3>2, <3>3, <3>4, OptionsAssumption
  <2>3. /\ S(b) \in ExtentRecords /\ S(b).start = b * blocksize
        /\ S(b).end = (b + 1) * blocksize
    BY <2>2 DEF ExtentRecords
  <2> HIDE DEF S
  <2>4. ASSUME NEW e \in X
        PROVE  /\ e \in ExtentRecords /\ e.start < e.end /\ e.end <= blocks * blocksize
               /\ \E a \in 0 .. blocks - 1 : e.start = a * blocksize
    BY <1>1, <2>1, <2>2, <2>3, <2>4 DEF FileExtents
  <2>5. ASSUME NEW e \in X, NEW e2 \in X PROVE e = e2 \/ e.end <= e2.start \/ e2.end <= e.start
    <3>1. CASE e \in E /\ e2 \in E
      BY <1>1, <3>1 DEF FileExtents
    <3>2. CASE e \in E /\ e2 = S(b)
      BY <1>4, <2>1, <2>3, <3>2
    <3>3. CASE e2 \in E /\ e = S(b)
      BY <1>4, <2>1, <2>3, <3>3
    <3> QED BY <2>1, <2>5, <3>1, <3>2, <3>3
  <2> QED BY <2>4, <2>5 DEF FileExtents
<1> QED BY <1>5, <1>6, <1>7, <1>8, <1>9, <1>10, <1>11, EnvironmentAssumption

-----------------------------------------------------------------------------
(* A page of a FIEMAP that is right passes. *)

\* The file system fills no hole with garbage, and FIEMAP reports the extents of the file.
IsRight(cuts) ==
    /\ MayPage /\ disk \in Allocated(map) /\ extents = TrueExtents(disk, cuts)
    /\ \A b \in DOMAIN disk : disk[b] # "garbage"

LEMMA TrueFlagsAgree ==
    ASSUME NEW d, NEW lo \in Int, NEW hi \in Int
    PROVE  FlagsAgree(TrueExtent(d, lo, hi))
<1> DEFINE e == TrueExtent(d, lo, hi)
<1>1. /\ e.start = lo * blocksize /\ e.end = (hi + 1) * blocksize /\ e.aligned = TRUE
      /\ e.flags \subseteq {"UNWRITTEN", "LAST"}
  BY DEF TrueExtent
<1>2. \A x \in Int : x * blocksize \in Int /\ (x * blocksize) % blocksize = 0
  <2> SUFFICES ASSUME NEW x \in Int PROVE x * blocksize \in Int /\ (x * blocksize) % blocksize = 0
    OBVIOUS
  <2>1. x * blocksize \in Int
    BY BlockOffsets
  <2>2. (x * blocksize - x * blocksize) % blocksize = 0 <=> (x * blocksize) % blocksize = 0
    BY <2>1, BlockOfOffset
  <2>3. x * blocksize - x * blocksize = 0 /\ 0 % blocksize = 0
    BY <2>1, OptionsAssumption
  <2> QED BY <2>1, <2>2, <2>3
<1> HIDE DEF e
<1>3. (e.end - e.start) % blocksize = 0
  <2>1. /\ (hi + 1) * blocksize \in Int /\ ((hi + 1) * blocksize) % blocksize = 0
    BY <1>2
  <2>2. ((hi + 1) * blocksize - lo * blocksize) % blocksize = 0
    BY <2>1, BlockOfOffset
  <2> QED BY <1>1, <2>2
<1>4. FlagsAgree(e)
  BY <1>1, <1>3 DEF FlagsAgree, Aligned
<1> QED BY <1>4 DEF e

\* The last data block, and what is behind it.
LEMMA LastData ==
    ASSUME map \in Seq({"D", "H", "P"}), disk \in Allocated(map), DataBlocks # {}
    PROVE  /\ last_data \in DataBlocks /\ \A a \in DataBlocks : a <= last_data
           /\ \A a \in 0 .. blocks - 1 : a > last_data => disk[a] = "none"
<1>1. blocks \in Nat
  BY DEF blocks
<1>2. last_data \in DataBlocks /\ \A a \in DataBlocks : a <= last_data
  <2>1. DataBlocks \subseteq 0 .. blocks
    BY <1>1 DEF DataBlocks
  <2>2. \E b \in DataBlocks : \A a \in DataBlocks : a <= b
    BY <1>1, <2>1, GreatestExists
  <2> QED BY <2>2 DEF last_data
<1>3. ASSUME NEW a \in 0 .. blocks - 1, a > last_data PROVE disk[a] = "none"
  <2>1. last_data \in 0 .. blocks - 1
    BY <1>2 DEF DataBlocks
  <2>2. a \notin DataBlocks
    BY <1>1, <1>2, <1>3, <2>1
  <2>3. map[a + 1] = "H"
    BY <1>3, <2>2 DEF DataBlocks
  <2> SUFFICES ASSUME disk[a] # "none" PROVE FALSE
    OBVIOUS
  <2>4. PICK x \in a + 2 .. blocks : map[x] # "H"
    BY <2>3, DiskIs
  <2>5. x - 1 \in 0 .. blocks - 1 /\ (x - 1) + 1 = x /\ x - 1 > last_data
    BY <1>1, <1>3, <2>1, <2>4
  <2>6. x - 1 \in DataBlocks
    BY <2>4, <2>5 DEF DataBlocks
  <2> QED BY <1>2, <2>1, <2>5, <2>6
<1> QED BY <1>2, <1>3

\* Each extent of the page, and the stretch it is.
LEMMA PageOfTrueExtents ==
    ASSUME NEW cuts, IsRight(cuts), NEW clips \in BOOLEAN, NEW fiemap \in Window(clips),
           NEW z \in 1 .. Len(fiemap)
    PROVE  \E lo \in 0 .. blocks - 1, hi \in 0 .. blocks - 1 :
               /\ Stretch(disk, cuts, lo, hi) /\ TrueExtent(disk, lo, hi) \in Touching
               /\ fiemap[z] = Clip(TrueExtent(disk, lo, hi), clips)
<1>1. Complete(fiemap, clips)
  BY WindowComplete DEF MayPage, IsRight
<1>2. PICK e \in Touching : fiemap[z] = Clip(e, clips)
  BY <1>1 DEF Complete
<1>3. e \in TrueExtents(disk, cuts) /\ map \in Seq({"D", "H", "P"}) /\ disk \in Allocated(map)
  BY <1>2 DEF Touching, IsRight, MayPage
<1>4. PICK lo \in 0 .. blocks - 1, hi \in 0 .. blocks - 1 :
          Stretch(disk, cuts, lo, hi) /\ e = TrueExtent(disk, lo, hi)
  BY <1>3, TrueExtentIs
<1> QED BY <1>2, <1>4

LEMMA RightFlagsPass ==
    ASSUME NEW cuts, IsRight(cuts), NEW clips \in BOOLEAN, NEW fiemap \in Window(clips)
    PROVE  check_flags(fiemap)
<1>1. Complete(fiemap, clips) /\ IsPage(fiemap) /\ DOMAIN fiemap = 1 .. Len(fiemap)
      /\ Len(fiemap) \in Nat
  BY WindowComplete DEF MayPage, IsRight, Complete, IsPage
<1>2. blocks \in Nat /\ FileExtents(extents) /\ cur_extent \in Nat
  BY DEF IsRight, MayPage, blocks
<1> SUFFICES ASSUME NEW z \in 1 .. Len(fiemap)
             PROVE  FlagsAgree(fiemap[z]) /\ ("LAST" \in fiemap[z].flags => z = Len(fiemap))
  BY <1>1 DEF check_flags
<1>3. PICK lo \in 0 .. blocks - 1, hi \in 0 .. blocks - 1 :
               /\ Stretch(disk, cuts, lo, hi) /\ TrueExtent(disk, lo, hi) \in Touching
               /\ fiemap[z] = Clip(TrueExtent(disk, lo, hi), clips)
  BY PageOfTrueExtents
<1> DEFINE e == TrueExtent(disk, lo, hi)
<1>4. FlagsAgree(fiemap[z])
  <2>1. FlagsAgree(e)
    BY TrueFlagsAgree
  <2> QED BY <1>2, <1>3, <2>1, ClipAligned
<1>5. ASSUME "LAST" \in fiemap[z].flags, z # Len(fiemap) PROVE FALSE
  <2> DEFINE h == Len(fiemap)
  <2>1. h \in 1 .. Len(fiemap) /\ fiemap[z].start < fiemap[h].start
    <3>0. h \in Nat /\ z \in 1 .. h /\ z # h
      BY <1>1, <1>5
    <3> HIDE DEF h
    <3>1. h \in 1 .. h /\ z < h
      BY <3>0
    <3> USE DEF h
    <3> QED BY <1>1, <3>1 DEF Complete
  <2>2. PICK lo2 \in 0 .. blocks - 1, hi2 \in 0 .. blocks - 1 :
               /\ Stretch(disk, cuts, lo2, hi2) /\ TrueExtent(disk, lo2, hi2) \in Touching
               /\ fiemap[h] = Clip(TrueExtent(disk, lo2, hi2), clips)
    BY <2>1, PageOfTrueExtents
  <2> DEFINE e2 == TrueExtent(disk, lo2, hi2)
  <2>3. \A b \in hi + 1 .. blocks - 1 : disk[b] = "none"
    <3>1. "LAST" \in e.flags
      BY <1>2, <1>3, <1>5, ClipKeeps
    <3>2. lo <= hi
      BY <1>3 DEF Stretch
    <3> QED BY <1>2, <3>1, <3>2, TrueExtentRecord
  <2>4. lo2 <= hi2 /\ disk[lo2] # "none"
    BY <2>2 DEF Stretch
  <2>5. ~(hi < lo2)
    BY <2>3, <2>4
  <2>6. ~(lo = lo2 /\ hi = hi2)
    <3>1. fiemap[z] \in ExtentRecords
      BY <1>1 DEF IsPage
    <3> QED BY <1>3, <2>1, <2>2, <3>1 DEF ExtentRecords
  <2>7. hi2 < lo
    BY <1>2, <1>3, <2>2, <2>5, <2>6, StretchesApart
  <2>8. e2.end <= e.start
    <3>1. e2.end = (hi2 + 1) * blocksize /\ e.start = lo * blocksize
      BY DEF TrueExtent
    <3>2. hi2 + 1 <= lo /\ hi2 + 1 \in Int /\ lo \in Int
      BY <2>7
    <3>3. (hi2 + 1) * blocksize <= lo * blocksize
      BY <3>2, BlockOffsets
    <3> QED BY <3>1, <3>3
  <2> HIDE DEF e, e2
  <2>9. e.start <= fiemap[z].start /\ fiemap[h].start < e2.end
    BY <1>2, <1>3, <2>2, ClipKeeps DEF e, e2
  <2>10. /\ e.start \in Nat /\ e2.end \in Nat
         /\ fiemap[z].start \in Nat /\ fiemap[h].start \in Nat
    <3>1. e \in ExtentRecords /\ e2 \in ExtentRecords
      BY <1>2, <1>3, <2>2 DEF e, e2, Touching, FileExtents
    <3>2. fiemap[z] \in ExtentRecords /\ fiemap[h] \in ExtentRecords
      BY <1>1, <2>1 DEF IsPage
    <3> QED BY <3>1, <3>2 DEF ExtentRecords
  <2> QED BY <2>1, <2>8, <2>9, <2>10
<1> QED BY <1>4, <1>5

LEMMA RightDataPasses ==
    ASSUME NEW cuts, IsRight(cuts), NEW clips \in BOOLEAN, NEW fiemap \in Window(clips),
           NEW b \in cur_extent .. NextExtent - 1, map[b + 1] # "H"
    PROVE  check_data(fiemap, b * blocksize, b = last_data)
<1>1. Complete(fiemap, clips) /\ IsPage(fiemap) /\ Len(fiemap) \in Nat
  BY WindowComplete DEF MayPage, IsRight, Complete, IsPage
<1>2. /\ blocks \in Nat /\ FileExtents(extents) /\ cur_extent \in Nat
      /\ map \in Seq({"D", "H", "P"}) /\ disk \in Allocated(map)
  BY DEF IsRight, MayPage, blocks
<1>3. /\ b \in 0 .. blocks - 1 /\ b * blocksize \in Nat
      /\ (b + 1) * blocksize = b * blocksize + blocksize
      /\ \A x \in extents : Covers(x, b * blocksize) => x \in Touching
  BY MayPageFacts DEF IsRight
<1>4. disk[b] # "none"
  BY <1>2, <1>3, DiskIs
<1>5. PICK lo \in 0 .. blocks - 1, hi \in 0 .. blocks - 1 :
          Stretch(disk, cuts, lo, hi) /\ lo <= b /\ b <= hi
  BY <1>2, <1>3, <1>4, StretchExists
<1> DEFINE e == TrueExtent(disk, lo, hi)
<1>6. /\ e \in extents /\ e.start = lo * blocksize /\ e.end = (hi + 1) * blocksize
      /\ e \in ExtentRecords
      /\ "LAST" \in e.flags <=> \A a \in hi + 1 .. blocks - 1 : disk[a] = "none"
  <2>1. e \in TrueExtents(disk, cuts)
    BY <1>2, <1>5, TrueExtentIs
  <2>2. e \in extents
    BY <2>1 DEF IsRight
  <2>3. lo <= hi
    BY <1>5 DEF Stretch
  <2>4. e.start = lo * blocksize /\ e.end = (hi + 1) * blocksize
    BY DEF TrueExtent
  <2>5. blocks \in Nat
    BY <1>2
  <2>6. e \in ExtentRecords
    BY <2>3, <2>5, TrueExtentRecord
  <2>7. "LAST" \in e.flags <=> \A a \in hi + 1 .. blocks - 1 : disk[a] = "none"
    BY DEF TrueExtent
  <2> QED BY <2>2, <2>4, <2>6, <2>7
<1> HIDE DEF e
<1>7. e.start <= b * blocksize /\ b * blocksize + blocksize <= e.end
  <2>1. lo * blocksize <= b * blocksize
    BY <1>3, <1>5, BlockOffsets
  <2>2. b < hi + 1 /\ b \in Int /\ hi + 1 \in Int
    BY <1>3, <1>5
  <2>3. b * blocksize + blocksize <= (hi + 1) * blocksize
    BY <2>2, BlockOffsets
  <2> QED BY <1>6, <2>1, <2>3
<1>8. Covers(e, b * blocksize)
  <2>1. b * blocksize < b * blocksize + blocksize
    BY <1>3, OptionsAssumption
  <2>2. e.end \in Nat
    BY <1>6 DEF ExtentRecords
  <2> QED BY <1>3, <1>7, <2>1, <2>2, OptionsAssumption DEF Covers
<1>9. e \in Touching
  BY <1>3, <1>6, <1>8
<1>10. PICK z \in 1 .. Len(fiemap) : fiemap[z] = Clip(e, clips)
  BY <1>1, <1>9 DEF Complete
<1>11. /\ fiemap[z].end = e.end /\ fiemap[z].flags = e.flags
       /\ fiemap[z].start \in {e.start, cur_extent * blocksize} /\ fiemap[z].start < e.end
  BY <1>2, <1>9, <1>10, ClipKeeps
<1>12. Covers(fiemap[z], b * blocksize)
  <2> DEFINE y == b * blocksize
             w == cur_extent * blocksize
  <2>1. w <= y
    BY <1>2, <1>3, BlockOffsets
  <2>2. e.start <= y /\ y < e.end
    BY <1>8 DEF Covers
  <2>3. fiemap[z].end = e.end /\ fiemap[z].start \in {e.start, w}
    BY <1>11
  <2> HIDE DEF y, w
  <2>4. Covers(fiemap[z], y)
    BY <2>1, <2>2, <2>3 DEF Covers
  <2> QED BY <2>4 DEF y
<1>13. ASSUME NEW x \in 1 .. z - 1
       PROVE  fiemap[x].start < fiemap[x].end /\ fiemap[x].end <= b * blocksize
  <2>1. x \in 1 .. Len(fiemap) /\ fiemap[x].start < fiemap[z].start
    <3>1. x \in 1 .. Len(fiemap) /\ x < z
      BY <1>1
    <3>2. \A l, h \in 1 .. Len(fiemap) : l < h => fiemap[l].start < fiemap[h].start
      BY <1>1 DEF Complete
    <3> QED BY <3>1, <3>2
  <2>2. PICK y \in Touching : fiemap[x] = Clip(y, clips)
    BY <1>1, <2>1 DEF Complete
  <2>3. /\ y \in extents /\ y \in ExtentRecords
        /\ fiemap[x].end = y.end /\ y.start <= fiemap[x].start /\ fiemap[x].start < y.end
    BY <1>2, <2>2, ClipKeeps DEF Touching, FileExtents
  <2>4. /\ y.start \in Nat /\ y.end \in Nat /\ e.start \in Nat /\ e.end \in Nat
        /\ fiemap[x].start \in Nat /\ fiemap[z].start \in Nat
    BY <1>1, <1>6, <2>1, <2>3 DEF IsPage, ExtentRecords
  <2>5. y # e
    <3>1. fiemap[x] # fiemap[z]
      BY <2>1, <2>4
    <3> QED BY <1>10, <2>2, <3>1
  <2>6. y.end <= e.start \/ e.end <= y.start
    BY <1>2, <1>6, <2>3, <2>5 DEF FileExtents
  <2>7. y.end <= e.start
    <3>1. fiemap[z].start < e.end
      BY <1>11
    <3>2. y.start < e.end
      BY <2>1, <2>3, <2>4, <3>1
    <3> QED BY <2>4, <2>6, <3>2
  <2> QED BY <1>3, <1>7, <2>3, <2>4, <2>7
<1>14. z \in extent_of(fiemap, b * blocksize)
  BY <1>1, <1>3, <1>7, <1>11, <1>12, <1>13, HolderFound
<1>15. ASSUME b = last_data PROVE "LAST" \in fiemap[z].flags
  <2>1. DataBlocks # {}
    BY <1>3 DEF DataBlocks
  <2>2. \A a \in 0 .. blocks - 1 : a > b => disk[a] = "none"
    BY <1>2, <1>15, <2>1, LastData
  <2>3. \A a \in hi + 1 .. blocks - 1 : disk[a] = "none"
    BY <1>2, <1>3, <1>5, <2>2
  <2> QED BY <1>6, <1>11, <2>3
<1> QED BY <1>14, <1>15 DEF check_data

LEMMA RightHole ==
    ASSUME NEW cuts, IsRight(cuts), NEW clips \in BOOLEAN, NEW fiemap \in Window(clips),
           NEW b \in cur_extent .. NextExtent - 1, NEW z \in DOMAIN fiemap,
           Covers(fiemap[z], b * blocksize)
    PROVE  b \in Int /\ (b * blocksize) \div blocksize = b /\ (map[b + 1] = "H" => disk[b] = "zeroed")
<1>1. DOMAIN fiemap = 1 .. Len(fiemap)
  BY WindowComplete DEF MayPage, IsRight, Complete, IsPage
<1>2. /\ blocks \in Nat /\ FileExtents(extents) /\ cur_extent \in Nat
      /\ map \in Seq({"D", "H", "P"}) /\ disk \in Allocated(map)
  BY DEF IsRight, MayPage, blocks
<1>3. /\ b \in 0 .. blocks - 1 /\ b * blocksize \in Nat
  BY MayPageFacts DEF IsRight
<1>4. PICK lo \in 0 .. blocks - 1, hi \in 0 .. blocks - 1 :
               /\ Stretch(disk, cuts, lo, hi) /\ TrueExtent(disk, lo, hi) \in Touching
               /\ fiemap[z] = Clip(TrueExtent(disk, lo, hi), clips)
  BY PageOfTrueExtents
<1> DEFINE e == TrueExtent(disk, lo, hi)
<1>5. e.start = lo * blocksize /\ e.end = (hi + 1) * blocksize
  BY DEF TrueExtent
<1>6. /\ e.start <= fiemap[z].start /\ fiemap[z].end = e.end
      /\ e.start \in Nat /\ e.end \in Nat /\ fiemap[z].start \in Nat
  <2>1. e \in Touching /\ e \in ExtentRecords
    BY <1>2, <1>4 DEF Touching, FileExtents
  <2> HIDE DEF e
  <2>2. /\ e.start <= fiemap[z].start /\ fiemap[z].end = e.end /\ fiemap[z] \in ExtentRecords
    BY <1>2, <1>4, <2>1, ClipKeeps DEF e
  <2> QED BY <2>1, <2>2 DEF ExtentRecords
<1> HIDE DEF e
<1>7. lo * blocksize <= b * blocksize /\ b * blocksize < (hi + 1) * blocksize
  BY <1>3, <1>5, <1>6 DEF Covers
<1>8. lo <= b /\ b <= hi
  <2>1. lo \in Int /\ b \in Int /\ hi \in Int /\ hi + 1 \in Int
    BY <1>3
  <2>2. lo <= b
    BY <1>7, <2>1, BlockOffsets
  <2>3. hi + 1 <= b => (hi + 1) * blocksize <= b * blocksize
    BY <2>1, BlockOffsets
  <2>4. (hi + 1) * blocksize \in Int /\ b * blocksize \in Int
    BY <2>1, BlockOffsets
  <2> QED BY <1>7, <2>1, <2>2, <2>3, <2>4
<1>9. disk[b] # "none"
  BY <1>3, <1>4, <1>8 DEF Stretch
<1>10. map[b + 1] = "H" => disk[b] = "zeroed"
  <2>1. map[b + 1] = "H" => disk[b] # "garbage" /\ disk[b] \in {"none", "zeroed", "garbage"}
    BY <1>2, <1>3, DiskIs DEF IsRight
  <2> QED BY <1>9, <2>1
<1>11. b \in Int /\ (b * blocksize) \div blocksize = b
  BY <1>3, BlockOfOffset
<1> QED BY <1>10, <1>11

LEMMA RightPasses ==
    ASSUME NEW cuts, IsRight(cuts), NEW clips \in BOOLEAN, NEW fiemap \in Window(clips)
    PROVE  PagePasses(fiemap, {})
<1>1. ASSUME NEW b \in cur_extent .. NextExtent - 1, map[b + 1] = "H"
      PROVE  check_hole(fiemap, b * blocksize, {})
  <2> SUFFICES ASSUME NEW z \in DOMAIN fiemap, Covers(fiemap[z], b * blocksize)
               PROVE  check_weird_fs_hole(b * blocksize, {})
    BY DEF check_hole
  <2> QED BY <1>1, RightHole DEF check_weird_fs_hole
<1> QED BY <1>1, RightFlagsPass, RightDataPasses DEF PagePasses

-----------------------------------------------------------------------------
(* The invariant. *)

LEMMA CommandLineIs ==
    ASSUME NEW o \in CommandLines PROVE o.runs \in Int /\ o.map \in Seq({"D", "H", "P"})
<1>1. o.runs \in Nat \cup {-1} /\ o.map \in Seq({"D", "H", "P"})
  BY OptionsAssumption, Zenon
<1> QED BY <1>1

LEMMA FiemapInit == Init => FiemapInv
<1> SUFFICES ASSUME Init PROVE FiemapInv
  OBVIOUS
<1>1. options.runs \in Int /\ options.map \in Seq({"D", "H", "P"})
  <2>1. options \in CommandLines
    BY DEF Init
  <2> QED BY <2>1, CommandLineIs
<1>2. 0 <= MostBlocks /\ MostBlocks \in Int
  BY <1>1, OptionsAssumption DEF MostBlocks
<1>3. NoFalseAlarm
  BY <1>1, <1>2, EnvironmentAssumption DEF Init, NoFalseAlarm, TypeOK, MostBlocks
<1>4. MapInv /\ FileInv /\ ComparedInv
  BY DEF Init, MapInv, FileInv, ComparedInv
<1> QED BY <1>3, <1>4 DEF FiemapInv

\* What does not change with the file.
LEMMA SameFile ==
    ASSUME UNCHANGED <<options, map, disk, extents, fault, blocks_to_map>>
    PROVE  /\ blocks' = blocks /\ MostBlocks' = MostBlocks
           /\ FileExtents(extents) => FileExtents(extents)'
           /\ \A cuts : TrueExtents(disk, cuts)' = TrueExtents(disk, cuts)
           /\ \A b : Agrees(b) => Agrees(b)'
<1>1. blocks' = blocks /\ MostBlocks' = MostBlocks
  BY DEF blocks, MostBlocks
<1>2. FileExtents(extents) => FileExtents(extents)'
  BY <1>1 DEF FileExtents
<1>3. ASSUME NEW cuts PROVE TrueExtents(disk, cuts)' = TrueExtents(disk, cuts)
  BY <1>1 DEF TrueExtents, TrueExtent, Stretch, StartsAt, Alike
<1>4. DataBlocks' = DataBlocks
  BY <1>1 DEF DataBlocks
<1>5. last_data' = last_data
  BY <1>4 DEF last_data
<1>6. \A y : Reported(y) => Reported(y)'
  BY DEF Reported
<1>7. ASSUME NEW b, Agrees(b) PROVE Agrees(b)'
  BY <1>5, <1>6, <1>7 DEF Agrees
<1> QED BY <1>1, <1>2, <1>3, <1>7

\* A step that leaves the file alone keeps what holds of it.
LEMMA FileInvKept ==
    ASSUME FiemapInv, UNCHANGED <<options, map, disk, extents, fault, blocks_to_map>>,
           pc \in {"page", "truncate"}
    PROVE  FileInv'
<1>1. /\ disk \in Allocated(map) /\ FileExtents(extents) /\ blocks_to_map \in 1 .. blocks
      /\ fault = "none" => \E cuts \in SUBSET (1 .. blocks - 1) : extents = TrueExtents(disk, cuts)
  BY DEF FiemapInv, FileInv
<1>2. blocks' = blocks /\ FileExtents(extents)' /\ blocks_to_map' \in 1 .. blocks'
  BY <1>1, SameFile
<1>3. disk' \in Allocated(map)'
  BY <1>1 DEF Allocated
<1>4. fault' = "none" => \E cuts \in SUBSET (1 .. blocks' - 1) :
                              extents' = TrueExtents(disk, cuts)'
  BY <1>1, SameFile
<1> QED BY <1>2, <1>3, <1>4 DEF FileInv

LEMMA GenerateKeeps == ASSUME FiemapInv, Generate PROVE FiemapInv'
<1>1. PICK h \in 1 .. maxblocks - 1 : map' \in [1 .. h -> Types]
  BY DEF Generate
<1>2. Types \subseteq {"D", "H", "P"} /\ h \in Nat
  BY <1>1 DEF Types
<1>3. map' \in [1 .. h -> {"D", "H", "P"}]
  BY <1>1, <1>2
<1>4. map' \in Seq({"D", "H", "P"}) /\ Len(map') = h
  BY <1>2, <1>3
<1>5. options.map = <<>>
  BY DEF Generate, FiemapInv, MapInv
<1>6. NoFalseAlarm'
  BY <1>4 DEF Generate, FiemapInv, NoFalseAlarm, TypeOK
<1>7. blocks' \in 1 .. MostBlocks'
  BY <1>1, <1>4, <1>5, OptionsAssumption DEF blocks, MostBlocks, Generate
<1>8. MapInv' /\ FileInv' /\ ComparedInv'
  BY <1>5, <1>7 DEF Generate, FiemapInv, MapInv, FileInv, ComparedInv
<1> QED BY <1>6, <1>8 DEF FiemapInv

LEMMA UseOptionKeeps == ASSUME FiemapInv, UseOption PROVE FiemapInv'
<1>1. map = options.map /\ map # <<>> /\ map \in Seq({"D", "H", "P"}) /\ map' = map
  BY DEF UseOption, FiemapInv, MapInv, NoFalseAlarm, TypeOK
<1>2. blocks' \in 1 .. MostBlocks'
  BY <1>1 DEF blocks, MostBlocks, UseOption
<1>3. NoFalseAlarm'
  BY DEF UseOption, FiemapInv, NoFalseAlarm, TypeOK
<1>4. MapInv' /\ FileInv' /\ ComparedInv'
  BY <1>2 DEF UseOption, FiemapInv, MapInv, FileInv, ComparedInv
<1> QED BY <1>3, <1>4 DEF FiemapInv

LEMMA CreateKeeps == ASSUME FiemapInv, Create PROVE FiemapInv'
<1>1. PICK cuts \in SUBSET (1 .. blocks - 1) :
          extents' \in Reports(TrueExtents(disk', cuts), disk', fault')
  BY DEF Create
<1>2. /\ map \in Seq({"D", "H", "P"}) /\ map' = map /\ options' = options
      /\ disk' \in Allocated(map) /\ fault' \in Faults
      /\ blocks_to_map' \in 1 .. blocks /\ cur_extent' = 0 /\ pc' = "page"
      /\ blocks \in 1 .. MostBlocks
  BY DEF Create, WindowSizes, FiemapInv, NoFalseAlarm, TypeOK, MapInv
<1>3. blocks' = blocks /\ MostBlocks' = MostBlocks /\ MostBlocks \in Nat /\ blocks \in Nat
  BY <1>2, OptionsAssumption DEF blocks, MostBlocks, FiemapInv, MapInv
<1>4. FileExtents(extents') /\ FileExtents(extents)'
  <2>1. FileExtents(extents')
    BY <1>1, <1>2, ReportsFine
  <2> QED BY <1>3, <2>1 DEF FileExtents
<1>5. \A e \in extents' : e \in ExtentRecords /\ e.start < e.end
  BY <1>4 DEF FileExtents
<1>6. fault' = "none" => \E x \in SUBSET (1 .. blocks' - 1) : extents' = TrueExtents(disk, x)'
  <2>1. TrueExtents(disk', cuts) = TrueExtents(disk, cuts)'
    BY <1>3 DEF TrueExtents, TrueExtent, Stretch, StartsAt, Alike
  <2>2. fault' = "none" => extents' = TrueExtents(disk', cuts)
    BY <1>1 DEF Reports
  <2> QED BY <1>1, <1>3, <2>1, <2>2
<1>7. disk' \in Allocated(map)'
  BY <1>2 DEF Allocated
<1>8. NoFalseAlarm'
  <2>1. blocks_to_map' \in 0 .. MostBlocks'
    BY <1>2, <1>3
  <2> QED BY <1>2, <1>3, <1>5, <2>1
       DEF Create, FiemapInv, NoFalseAlarm, TypeOK, MostBlocks, ExtentRecords
<1>9. MapInv'
  BY <1>2, <1>3 DEF Create, FiemapInv, MapInv
<1>10. FileInv'
  BY <1>2, <1>3, <1>4, <1>6, <1>7 DEF FileInv
<1>11. ComparedInv'
  <2>1. \A e \in extents' : ~(e.start < 0 * blocksize)
    BY <1>5, OptionsAssumption DEF ExtentRecords
  <2> QED BY <1>2, <1>3, <2>1 DEF ComparedInv
<1> QED BY <1>8, <1>9, <1>10, <1>11 DEF FiemapInv

LEMMA PageKeeps == ASSUME FiemapInv, Page PROVE FiemapInv'
<1>1. PICK clips \in BOOLEAN : \E fiemap \in Window(clips) : \E unreadable \in Unreadable(fiemap) :
          /\ unread' = unreadable
          /\ IF PagePasses(fiemap, unreadable)
             THEN cur_extent' = NextExtent /\ UNCHANGED pc
             ELSE pc' = "problem" /\ UNCHANGED cur_extent
  BY DEF Page
<1>2. PICK fiemap \in Window(clips) : \E unreadable \in Unreadable(fiemap) :
          /\ unread' = unreadable
          /\ IF PagePasses(fiemap, unreadable)
             THEN cur_extent' = NextExtent /\ UNCHANGED pc
             ELSE pc' = "problem" /\ UNCHANGED cur_extent
  BY <1>1
<1>3. PICK unreadable \in Unreadable(fiemap) :
          /\ unread' = unreadable
          /\ IF PagePasses(fiemap, unreadable)
             THEN cur_extent' = NextExtent /\ UNCHANGED pc
             ELSE pc' = "problem" /\ UNCHANGED cur_extent
  BY <1>2
<1>4. /\ pc = "page" /\ cur_extent < blocks
      /\ UNCHANGED <<options, runs, map, prealloc, blocks_to_map, disk, extents, fault, compared>>
  BY DEF Page
<1>5. MayPage /\ TypeOK /\ disk \in Allocated(map) /\ blocks \in Nat
  BY <1>4 DEF FiemapInv, FileInv, NoFalseAlarm, TypeOK, MayPage, blocks
<1>6. /\ blocks' = blocks /\ MostBlocks' = MostBlocks
      /\ \A b : Agrees(b) => Agrees(b)'
  BY <1>4, SameFile
<1>7. FileInv'
  BY <1>4, FileInvKept
<1>8. CASE PagePasses(fiemap, unreadable)
  <2>1. cur_extent' = NextExtent /\ pc' = "page" /\ NextExtent \in cur_extent + 1 .. blocks
    BY <1>3, <1>4, <1>5, <1>8, MayPageFacts
  <2>2. NoFalseAlarm'
    BY <1>4, <1>5, <1>6, <2>1 DEF NoFalseAlarm, TypeOK
  <2>3. MapInv'
    BY <1>4, <1>6, <2>1 DEF FiemapInv, MapInv
  <2>4. ASSUME NEW b \in 0 .. NextExtent - 1 PROVE Agrees(b)'
    <3>1. CASE b < cur_extent
      <4>1. b \in 0 .. cur_extent - 1
        BY <1>5, <2>4, <3>1 DEF MayPage
      <4> QED BY <1>4, <1>6, <4>1 DEF FiemapInv, ComparedInv
    <3>2. CASE ~(b < cur_extent)
      <4>1. b \in cur_extent .. NextExtent - 1
        BY <1>5, <2>4, <3>2 DEF MayPage
      <4> QED BY <1>5, <1>6, <1>8, <4>1, PassedBlockAgrees
    <3> QED BY <3>1, <3>2
  <2>5. ASSUME NEW e \in extents, e.start < NextExtent * blocksize PROVE FlagsAgree(e)
    <3>1. \A x \in extents : x.start < cur_extent * blocksize => FlagsAgree(x)
      BY <1>4 DEF FiemapInv, ComparedInv
    <3> QED BY <1>5, <1>8, <2>5, <3>1, PassedFlagsAgree
  <2>6. ComparedInv'
    BY <1>4, <1>5, <1>6, <2>1, <2>4, <2>5 DEF ComparedInv
  <2> QED BY <1>7, <2>2, <2>3, <2>6 DEF FiemapInv
<1>9. CASE ~PagePasses(fiemap, unreadable)
  <2>1. pc' = "problem" /\ cur_extent' = cur_extent
    BY <1>3, <1>9
  <2>2. \/ fault # "none" \/ \E b \in DOMAIN disk : disk[b] = "garbage"
        \/ \E b \in unread' : disk[b] = "zeroed"
    <3> SUFFICES ASSUME fault = "none", \A b \in DOMAIN disk : disk[b] # "garbage"
                 PROVE  \E b \in unread' : disk[b] = "zeroed"
      OBVIOUS
    <3>1. PICK cuts \in SUBSET (1 .. blocks - 1) : extents = TrueExtents(disk, cuts)
      BY <1>4 DEF FiemapInv, FileInv
    <3>2. IsRight(cuts)
      BY <1>5, <3>1 DEF IsRight
    <3>3. unreadable # {}
      BY <1>9, <3>2, RightPasses
    <3>4. PICK h \in cur_extent .. NextExtent - 1 :
              /\ unreadable = {h} /\ map[h + 1] = "H"
              /\ \E z \in DOMAIN fiemap : Covers(fiemap[z], h * blocksize)
      BY <3>3 DEF Unreadable
    <3>5. disk[h] = "zeroed"
      BY <3>2, <3>4, RightHole
    <3> QED BY <1>3, <3>4, <3>5
  <2>3. NoFalseAlarm'
    BY <1>4, <1>5, <2>1, <2>2 DEF NoFalseAlarm, TypeOK
  <2>4. MapInv' /\ ComparedInv'
    BY <1>4, <1>6, <2>1 DEF FiemapInv, MapInv, ComparedInv
  <2> QED BY <1>7, <2>3, <2>4 DEF FiemapInv
<1> QED BY <1>8, <1>9

LEMMA PassedKeeps == ASSUME FiemapInv, Passed PROVE FiemapInv'
<1>1. /\ pc = "page" /\ cur_extent >= blocks /\ pc' = "truncate" /\ compared' \in {compared, compared + 1}
      /\ UNCHANGED <<options, runs, map, prealloc, blocks_to_map, cur_extent, disk, extents, fault>>
  BY DEF Passed
<1>2. /\ blocks' = blocks /\ MostBlocks' = MostBlocks
      /\ \A b : Agrees(b) => Agrees(b)'
  BY <1>1, SameFile
<1>3. FileInv'
  BY <1>1, FileInvKept
<1>4. NoFalseAlarm'
  BY <1>1 DEF FiemapInv, NoFalseAlarm, TypeOK
<1>5. MapInv'
  BY <1>1, <1>2 DEF FiemapInv, MapInv
<1>6. cur_extent = blocks
  BY <1>1 DEF FiemapInv, NoFalseAlarm, TypeOK, blocks
<1>7. ComparedInv'
  BY <1>1, <1>2, <1>6 DEF FiemapInv, ComparedInv
<1> QED BY <1>3, <1>4, <1>5, <1>7 DEF FiemapInv

LEMMA NextRunKeeps == ASSUME FiemapInv, NextRun PROVE FiemapInv'
<1>1. runs' \in Int /\ pc' \in {"done", "choose"} /\ options.map \in Seq({"D", "H", "P"})
  <2>1. options \in CommandLines /\ runs \in Int
    BY DEF FiemapInv, MapInv, NoFalseAlarm, TypeOK
  <2>2. options.map \in Seq({"D", "H", "P"})
    BY <2>1, CommandLineIs
  <2>3. runs' \in Int /\ pc' \in {"done", "choose"}
    BY <2>1 DEF NextRun
  <2> QED BY <2>2, <2>3
<1>2. NoFalseAlarm'
  BY <1>1, EnvironmentAssumption DEF NextRun, FiemapInv, NoFalseAlarm, TypeOK
<1>3. MapInv'
  BY DEF NextRun, FiemapInv, MapInv
<1>4. FileInv' /\ ComparedInv'
  BY <1>1 DEF FileInv, ComparedInv
<1> QED BY <1>2, <1>3, <1>4 DEF FiemapInv

LEMMA OthersKeep ==
    ASSUME FiemapInv, Skip \/ CreateFails \/ SyscallFails PROVE FiemapInv'
<1>1. /\ pc' \in {"done", "choose", "failed"}
      /\ UNCHANGED <<options, runs, map, prealloc, blocks_to_map, cur_extent, disk, extents,
                     fault, compared>>
      /\ pc' = "choose" => pc = "choose"
  BY DEF Skip, CreateFails, SyscallFails
<1>2. NoFalseAlarm'
  BY <1>1 DEF FiemapInv, NoFalseAlarm, TypeOK
<1>3. MapInv' /\ FileInv' /\ ComparedInv'
  BY <1>1 DEF FiemapInv, MapInv, FileInv, ComparedInv
<1> QED BY <1>2, <1>3 DEF FiemapInv

LEMMA FiemapStep == ASSUME FiemapInv, [Next]_vars PROVE FiemapInv'
<1>1. CASE UNCHANGED vars
  <2>1. UNCHANGED <<options, map, disk, extents, fault, blocks_to_map>>
        /\ UNCHANGED <<pc, runs, prealloc, cur_extent, unread, compared>>
    BY <1>1 DEF vars
  <2>2. NoFalseAlarm'
    BY <2>1 DEF FiemapInv, NoFalseAlarm, TypeOK, blocks
  <2>3. MapInv'
    BY <2>1, SameFile DEF FiemapInv, MapInv
  <2>4. FileInv'
    <3>1. /\ blocks' = blocks
          /\ FileExtents(extents) => FileExtents(extents)'
          /\ \A cuts : TrueExtents(disk, cuts)' = TrueExtents(disk, cuts)
      BY <2>1, SameFile
    <3>2. disk \in Allocated(map) => disk' \in Allocated(map)'
      BY <2>1 DEF Allocated
    <3> QED BY <2>1, <3>1, <3>2 DEF FiemapInv, FileInv
  <2>5. ComparedInv'
    BY <2>1, SameFile DEF FiemapInv, ComparedInv
  <2> QED BY <2>2, <2>3, <2>4, <2>5 DEF FiemapInv
<1>2. CASE Generate
  BY <1>2, GenerateKeeps
<1>3. CASE UseOption
  BY <1>3, UseOptionKeeps
<1>4. CASE Create
  BY <1>4, CreateKeeps
<1>5. CASE Page
  BY <1>5, PageKeeps
<1>6. CASE Passed
  BY <1>6, PassedKeeps
<1>7. CASE NextRun
  BY <1>7, NextRunKeeps
<1>8. CASE Skip \/ CreateFails \/ SyscallFails
  BY <1>8, OthersKeep
<1>9. CASE Stopped
  BY <1>1, <1>9 DEF Stopped
<1> QED BY <1>1, <1>2, <1>3, <1>4, <1>5, <1>6, <1>7, <1>8, <1>9 DEF Next, Step

LEMMA FiemapAlways == Spec => []FiemapInv
<1>1. Init => FiemapInv
  BY FiemapInit
<1>2. FiemapInv /\ [Next]_vars => FiemapInv'
  BY FiemapStep
<1> QED BY <1>1, <1>2, PTL DEF Spec

\* A false alarm of compare_fiemap_and_map() has one cause: with a FIEMAP that is right a
\* comparison fails only where the file system has filled a hole, with anything but zeros, or
\* with zeros check_weird_fs_hole() could not look at, whatever the map, the sizes of pages
\* and the cuts are.
THEOREM NoFalseAlarmAlways == Spec => []NoFalseAlarm
<1>1. FiemapInv => NoFalseAlarm
  BY DEF FiemapInv
<1> QED BY <1>1, FiemapAlways, PTL

\* Nothing is missed by compare_fiemap_and_map(), for a FIEMAP with any of the faults: where
\* it passes, data is mapped, the end is marked, holes are holes or zeros, flags agree.
THEOREM PassedIsMappedAlways == Spec => []PassedIsMapped
<1>1. ASSUME FiemapInv, pc = "truncate" PROVE PassedIsMapped
  <2>1. /\ \A b \in 0 .. blocks - 1 : Agrees(b)
        /\ \A e \in extents : e.start < blocks * blocksize => FlagsAgree(e)
        /\ disk \in Allocated(map) /\ map \in Seq({"D", "H", "P"}) /\ FileExtents(extents)
    BY <1>1 DEF FiemapInv, ComparedInv, FileInv, NoFalseAlarm, TypeOK
  <2>2. \A b \in DataBlocks : b \in 0 .. blocks - 1 /\ map[b + 1] # "H"
    BY DEF DataBlocks
  <2>3. \A b \in DataBlocks :
            \A y \in b * blocksize .. (b + 1) * blocksize - 1 : Reported(y)
    BY <2>1, <2>2 DEF Agrees
  <2>4. DataBlocks # {} => \E e \in extents :
            "LAST" \in e.flags /\ e.end >= (last_data + 1) * blocksize
    BY <2>1, <2>2, LastData DEF Agrees
  <2>5. \A b \in (0 .. blocks - 1) \ DataBlocks :
            disk[b] = "zeroed" \/ \A e \in extents : ~Covers(e, b * blocksize)
    BY <2>1 DEF Agrees, DataBlocks
  <2>6. ASSUME NEW e \in extents PROVE FlagsAgree(e)
    <3>1. PICK b \in 0 .. blocks - 1 : e.start = b * blocksize
      BY <2>1 DEF FileExtents
    <3>2. b \in Int /\ blocks \in Int /\ b < blocks
      BY <2>1 DEF blocks
    <3>3. b * blocksize + blocksize <= blocks * blocksize /\ b * blocksize \in Int
          /\ blocks * blocksize \in Int
      BY <3>2, BlockOffsets
    <3>4. e.start < blocks * blocksize
      BY <3>1, <3>3, OptionsAssumption
    <3> QED BY <2>1, <3>4
  <2> QED BY <2>3, <2>4, <2>5, <2>6 DEF PassedIsMapped
<1>2. FiemapInv => PassedIsMapped
  BY <1>1 DEF PassedIsMapped
<1> QED BY <1>2, FiemapAlways, PTL

\* What the countdown and the files that passed add up to.
CountInv ==
    /\ options.map # <<>> =>
          /\ pc \in {"choose", "create", "page"} => compared = 0
          /\ pc \in {"truncate", "done"} => compared = 1
    /\ options.map = <<>> /\ options.runs = -1 => runs < 0 /\ pc # "done"
    /\ options.map = <<>> /\ options.runs = 0 =>
          /\ runs = 0 /\ compared <= 1
          /\ pc \in {"choose", "create", "page"} => compared = 0
    /\ options.map = <<>> /\ options.runs > 0 =>
          /\ pc \in {"choose", "create", "page"} => runs >= 1 /\ compared = options.runs - runs
          /\ pc = "truncate" => runs >= 1 /\ compared = options.runs - runs + 1
          /\ pc = "done" => compared = options.runs

LEMMA CountStep == ASSUME FiemapInv, CountInv, [Next]_vars PROVE CountInv'
<1>1. /\ options \in CommandLines /\ options.runs \in Int /\ runs \in Int /\ compared \in Nat
      /\ RunsBound \in Nat \ {0}
      /\ options.map # <<>> => runs = 0 /\ options.runs = -1
      /\ pc = "choose" /\ options.map # <<>> => map = options.map
  <2>1. options \in CommandLines
    BY DEF FiemapInv, MapInv
  <2>2. options.map # <<>> => options.runs = -1
    BY <2>1, OptionsAssumption, Zenon
  <2> QED BY <2>1, <2>2, CommandLineIs, EnvironmentAssumption
       DEF FiemapInv, MapInv, NoFalseAlarm, TypeOK
<1>2. CASE UNCHANGED vars
  BY <1>2 DEF vars, CountInv
<1>3. CASE Skip
  BY <1>1, <1>3 DEF Skip, CountInv
<1>4. CASE Generate
  BY <1>4 DEF Generate, CountInv
<1>5. CASE UseOption
  BY <1>5 DEF UseOption, CountInv
<1>6. CASE Create
  BY <1>6 DEF Create, CountInv
<1>7. CASE CreateFails
  BY <1>7 DEF CreateFails, CountInv
<1>8. CASE Page
  <2>1. /\ UNCHANGED <<options, runs, compared>> /\ pc = "page"
        /\ pc' \in {"page", "problem"}
    BY <1>8 DEF Page
  <2> QED BY <2>1 DEF CountInv
<1>9. CASE Passed
  BY <1>1, <1>9 DEF Passed, CountInv
<1>10. CASE NextRun
  <2>1. /\ UNCHANGED <<options, compared>> /\ pc = "truncate"
        /\ runs' = IF runs \in {0, -RunsBound} THEN runs ELSE runs - 1
        /\ pc' = IF runs' = 0 THEN "done" ELSE "choose"
    BY <1>10 DEF NextRun
  <2> QED BY <1>1, <2>1 DEF CountInv
<1>11. CASE SyscallFails
  BY <1>11 DEF SyscallFails, CountInv
<1>12. CASE Stopped
  BY <1>2, <1>12 DEF Stopped
<1> QED BY <1>2, <1>3, <1>4, <1>5, <1>6, <1>7, <1>8, <1>9, <1>10, <1>11, <1>12 DEF Next, Step

\* What Ends says of a program that is done: with -r n it has compared n files, with -m
\* one, and without either of them it is never done.
THEOREM RunsExactAlways == Spec => [](pc = "done" => RunsExact)
<1>1. Init => CountInv
  <2> SUFFICES ASSUME Init PROVE CountInv
    OBVIOUS
  <2>1. options \in CommandLines
    BY DEF Init
  <2>2. options.runs \in Int
    BY <2>1, CommandLineIs
  <2> QED BY <2>2 DEF Init, CountInv
<1>2. FiemapInv /\ CountInv /\ [Next]_vars => CountInv'
  BY CountStep
<1>3. FiemapInv /\ CountInv => (pc = "done" => RunsExact)
  <2> SUFFICES ASSUME FiemapInv, CountInv, pc = "done" PROVE RunsExact
    OBVIOUS
  <2>1. options \in CommandLines
    BY DEF FiemapInv, MapInv
  <2>2. options.runs \in Nat \cup {-1}
    BY <2>1, OptionsAssumption, Zenon
  <2> QED BY <2>2 DEF CountInv, RunsExact
<1> QED BY <1>1, <1>2, <1>3, FiemapAlways, PTL DEF Spec
=============================================================================

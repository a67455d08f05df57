----------------------------- MODULE InodeFlags -----------------------------
(***************************************************************************)
(* incoming/fileflags.c, nocow.c and nocomp.c: programs that read the      *)
(* flags of an inode by one ioctl, change some, and write them all back by *)
(* another.  Several of them may work on the same files at a time.         *)
(***************************************************************************)
EXTENDS Integers, Sequences, FiniteSets

CONSTANTS
    Flags,       \* the flags the programs know
    Inodes,      \* the files there are
    Runs,        \* programs that run at a time
    Calls,       \* what one may be called with: [name |-> program, args |-> arguments]
    OPEN_MAX     \* open files a process may have

ASSUME FlagsAssumption == {"NOCOW", "NOCOMP"} \subseteq Flags
\* Arguments are given in a row.
ASSUME CallsAssumption ==
    /\ \A c \in Calls : Len(c.args) \in Nat /\ DOMAIN c.args = 1 .. Len(c.args)
    /\ OPEN_MAX \in Nat

\* An argument is [sign |-> "+", "-", "--" or "", word |-> ...]: the letters of an option
\* as a set of flags, unknown ones among them, or the name of a file.
VARIABLES
    call,        \* how each program was called
    faults,      \* calls to the system may fail
    inode,       \* flags of the files
    fpc,          \* what each program does next
    arg,         \* optind of fileflags
    fflags,      \* the flags it has read last
    fds,         \* files it has opened; none is ever closed
    wanted,      \* history: what flags there would be if each change were a single step
    fresh,       \* history: what it has read is what the file has
    torn         \* history: the files whose flags were written back by one not fresh

flagsVars == <<call, faults, inode, fpc, arg, fflags, fds, wanted, fresh, torn>>

-----------------------------------------------------------------------------
ArgsOf(r) == call[r].args

\* The options come first; what follows "--" is no option any more.
IsOption(r, n) == \A m \in 1 .. n : ArgsOf(r)[m].sign \in {"+", "-"}
Options(r) == {n \in DOMAIN ArgsOf(r) : IsOption(r, n)}

Named(r, sign) ==
    Flags \cap UNION {ArgsOf(r)[n].word : n \in {m \in Options(r) : ArgsOf(r)[m].sign = sign}}

to_set(r) == IF call[r].name = "nocow" THEN {"NOCOW"}
             ELSE IF call[r].name = "nocomp" THEN {"NOCOMP"} ELSE Named(r, "+")
to_unset(r) == IF call[r].name = "fileflags" THEN Named(r, "-") ELSE {}

modify(r) == call[r].name # "fileflags" \/ Options(r) # {}

\* The first argument that is taken for a file.
FirstFile(r) ==
    IF call[r].name # "fileflags" THEN 1
    ELSE LET after == {n \in 1 .. Len(ArgsOf(r)) + 1 : n \notin Options(r)}
             n == CHOOSE m \in after : \A l \in after : m <= l
         IN  IF n <= Len(ArgsOf(r)) /\ ArgsOf(r)[n].sign = "--" THEN n + 1 ELSE n

FileArg(r) == ArgsOf(r)[arg[r]].word

\* Mutant: what is to be set wins over what is to be unset.
SetWins(r) == (fflags[r] \ to_unset(r)) \cup to_set(r)

Changed(r) == (fflags[r] \cup to_set(r)) \ to_unset(r)

FlagsInit ==
    /\ call \in [Runs -> Calls]
    /\ faults \in BOOLEAN
    /\ inode \in [Inodes -> SUBSET Flags] /\ wanted = inode
    /\ fpc = [r \in Runs |-> "start"] /\ arg = [r \in Runs |-> 1]
    /\ fflags = [r \in Runs |-> {}] /\ fds = [r \in Runs |-> 0]
    /\ fresh = {} /\ torn = {}

-----------------------------------------------------------------------------
\* fileflags tries each file in turn, whatever became of the last one; the others do one
\* only, and tell by their exit status whether they could.
FlagsEnded == {"exit 0", "exit 1"}
FlagsGoTo(r, place) == fpc' = [fpc EXCEPT ![r] = place]

Usage(r) ==
    /\ fpc[r] = "start" /\ ArgsOf(r) = <<>>
    /\ FlagsGoTo(r, "exit 1")
    /\ UNCHANGED <<call, faults, inode, arg, fflags, fds, wanted, fresh, torn>>

StartFlags(r) ==
    /\ fpc[r] = "start" /\ ArgsOf(r) # <<>>
    /\ arg' = [arg EXCEPT ![r] = FirstFile(r)]
    /\ FlagsGoTo(r, "open")
    /\ UNCHANGED <<call, faults, inode, fflags, fds, wanted, fresh, torn>>

\* No further argument.
FinishFlags(r) ==
    /\ fpc[r] = "open" /\ arg[r] > Len(ArgsOf(r))
    /\ FlagsGoTo(r, "exit 0")
    /\ UNCHANGED <<call, faults, inode, arg, fflags, fds, wanted, fresh, torn>>

\* Mutant: break for continue.
NextFileStops(r, ok) ==
    IF call[r].name = "fileflags" /\ ok
    THEN FlagsGoTo(r, "open") /\ arg' = [arg EXCEPT ![r] = @ + 1]
    ELSE FlagsGoTo(r, IF ok \/ call[r].name = "fileflags" THEN "exit 0" ELSE "exit 1")
            /\ UNCHANGED arg

NextFile(r, ok) ==
    IF call[r].name = "fileflags" THEN FlagsGoTo(r, "open") /\ arg' = [arg EXCEPT ![r] = @ + 1]
    ELSE FlagsGoTo(r, IF ok THEN "exit 0" ELSE "exit 1") /\ UNCHANGED arg

CanOpen(r) == FileArg(r) \in Inodes /\ fds[r] < OPEN_MAX

OpenFile(r) ==
    /\ fpc[r] = "open" /\ arg[r] <= Len(ArgsOf(r)) /\ CanOpen(r)
    /\ fds' = [fds EXCEPT ![r] = @ + 1]
    /\ FlagsGoTo(r, "get")
    /\ UNCHANGED <<call, faults, inode, arg, fflags, wanted, fresh, torn>>

OpenFileFails(r) ==
    /\ fpc[r] = "open" /\ arg[r] <= Len(ArgsOf(r)) /\ (faults \/ ~CanOpen(r))
    /\ NextFile(r, FALSE)
    /\ UNCHANGED <<call, faults, inode, fflags, fds, wanted, fresh, torn>>

\* Without options fileflags prints the flags and goes on to the next file.
GetFlags(r) ==
    /\ fpc[r] = "get"
    /\ fflags' = [fflags EXCEPT ![r] = inode[FileArg(r)]]
    /\ fresh' = fresh \cup {r}
    /\ IF modify(r) THEN FlagsGoTo(r, "set") /\ UNCHANGED arg ELSE NextFile(r, TRUE)
    /\ UNCHANGED <<call, faults, inode, fds, wanted, torn>>

IoctlFails(r) ==
    /\ fpc[r] \in {"get", "set"} /\ faults
    /\ NextFile(r, FALSE)
    /\ UNCHANGED <<call, faults, inode, fflags, fds, wanted, fresh, torn>>

SetFlags(r) ==
    /\ fpc[r] = "set"
    /\ inode' = [inode EXCEPT ![FileArg(r)] = Changed(r)]
    /\ wanted' = [wanted EXCEPT ![FileArg(r)] = (@ \cup to_set(r)) \ to_unset(r)]
    /\ torn' = IF r \in fresh THEN torn ELSE torn \cup {FileArg(r)}
    /\ fresh' = {q \in fresh : fpc[q] = "set" => FileArg(q) # FileArg(r)}
    /\ NextFile(r, TRUE)
    /\ UNCHANGED <<call, faults, fflags, fds>>

FlagsNext ==
    \/ \E r \in Runs : \/ Usage(r) \/ StartFlags(r) \/ FinishFlags(r) \/ OpenFile(r) \/ OpenFileFails(r)
                       \/ GetFlags(r) \/ IoctlFails(r) \/ SetFlags(r)
    \/ (\A r \in Runs : fpc[r] \in FlagsEnded) /\ UNCHANGED flagsVars

FlagsSpec == FlagsInit /\ [][FlagsNext]_flagsVars

-----------------------------------------------------------------------------
(* Properties. *)

\* The ranges of the variables; fds never exceeds its limit.
FlagsTypeOK ==
    /\ inode \in [Inodes -> SUBSET Flags] /\ wanted \in [Inodes -> SUBSET Flags]
    /\ fpc \in [Runs -> {"start", "open", "get", "set"} \cup FlagsEnded]
    /\ arg \in [Runs -> Nat] /\ fflags \in [Runs -> SUBSET Flags] /\ fds \in [Runs -> Nat]
    /\ fresh \subseteq Runs /\ torn \subseteq Inodes

\* What the programs are asked to do is done, in the order they write the flags back,
\* unless one of them has written over what another has changed since it read: only then
\* are changes lost, and never those of a flag that is named by nobody.
ChangesStick ==
    \A f \in Inodes :
        /\ f \notin torn => inode[f] = wanted[f]
        /\ \A x \in Flags :
              (\A r \in Runs : x \notin to_set(r) \cup to_unset(r)) =>
                  (x \in inode[f] <=> x \in wanted[f])

\* If calls do not fail fileflags has looked at every file there is, but for those its
\* descriptors do not suffice for, since none is ever closed.
NoneLeftOut ==
    /\ FlagsTypeOK
    /\ \A r \in Runs :
        call[r].name = "fileflags" /\ fpc[r] = "exit 0" /\ ~faults =>
            LET there == Cardinality({n \in FirstFile(r) .. Len(ArgsOf(r)) : ArgsOf(r)[n].word \in Inodes})
            IN  fds[r] = IF there < OPEN_MAX THEN there ELSE OPEN_MAX
=============================================================================

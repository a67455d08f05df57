------------------------- MODULE WriteAfterChecksum -------------------------
(***************************************************************************)
(* incoming/write-after-checksum.c: processes that write short records at  *)
(* random places of one preallocated file for ever, some with pwrite() and *)
(* some through a shared mapping, syncing what they wrote, while the first *)
(* process waits for them and prints how they ended.                       *)
(***************************************************************************)
EXTENDS Integers, Sequences, FiniteSets

CONSTANTS
    Options,     \* command lines, and what the system does to the run: see below
    TextLens,    \* lengths the text "pid - generation" can have
    page_size,
    Word,        \* 2^64: offsets are computed modulo Word
    MaxChildren  \* the most the command lines ask for

VARIABLES
    options,
    pc, i,       \* the first process and its loop counter
    status,      \* its variable for the result of posix_fallocate() and of wait()
    reports,     \* the lines it has printed: <<child, or 0 for -1, status>>
    at,          \* the call each child is about to make
    io,          \* its offset and len
    dirty,       \* where it has written
    code,        \* how it ended
    size         \* of the file

\* nthreads, mthreads: -n, -m; file_size: -l; bufsize: -b; direct, range, file: -d, -r, -f.
\* faults: "none"; "fallocate", when the result is not looked at; "calls", any call.
Children == 1 .. options.nthreads + options.mthreads

ASSUME OptionsAssumption ==
    \A o \in Options :
        /\ o.nthreads \in Nat /\ o.mthreads \in Nat
        /\ o.nthreads + o.mthreads <= MaxChildren
        /\ o.file_size \in 1 .. Word \div 2 - 1 /\ o.bufsize \in Nat \ {0}
        /\ o.direct \in BOOLEAN /\ o.range \in BOOLEAN /\ o.file \in BOOLEAN
        /\ o.faults \in {"none", "fallocate", "calls"}
ASSUME SizesAssumption ==
    /\ TextLens \subseteq Nat \ {0} /\ page_size \in Nat \ {0} /\ Word \in Nat \ {0, 1}
    /\ MaxChildren \in Nat

mainVars == <<pc, i, status, reports>>
vars == <<options, mainVars, at, io, dirty, code, size>>

\* Values of status that are no exit status: the end by SIGBUS or SIGSEGV, and the result
\* of a posix_fallocate() that fails.
Signal == 7
ENOSPC == 28

Nowhere == [offset |-> 0, len |-> 0]

IsWriter(c) == c <= options.nthreads

\* The calls a child makes, in order, before its loop.
First(c) == IF IsWriter(c) THEN "alloc" ELSE "sysconf"
Following(c) ==
    IF IsWriter(c) THEN [alloc |-> "open", open |-> "next"]
    ELSE [sysconf |-> "open", open |-> "alloc", alloc |-> "mmap", mmap |-> "next"]

\* The exit status when a call fails.
ExitStatus(c) ==
    IF IsWriter(c)
    THEN [open |-> 64, io |-> 65, alloc |-> 66, range |-> 67, file |-> 68]
    ELSE [open |-> 96, mmap |-> 97, range |-> 99, file |-> 100, sysconf |-> 101,
          alloc |-> 102]

Init ==
    /\ options \in Options
    /\ size \in IF options.faults = "none" THEN {options.file_size}
                                           ELSE 0 .. options.file_size
    /\ status = IF size = options.file_size THEN 0 ELSE ENOSPC
    /\ pc = IF options.nthreads = 1 THEN "write_junk"
            ELSE IF Children = {} THEN "done" ELSE "fork"
    /\ i = 0 /\ reports = <<>>
    /\ at = [c \in Children |-> IF pc = "write_junk" /\ c = 1 THEN First(1) ELSE "none"]
    /\ io = [c \in Children |-> Nowhere] /\ dirty = io
    /\ code = [c \in Children |-> 0]

-----------------------------------------------------------------------------
(* The first process. *)

\* It does not look at what fork() returns but to see whether it is the child.
Fork ==
    /\ pc = "fork"
    /\ \/ at' = [at EXCEPT ![i + 1] = First(i + 1)]
       \/ options.faults = "calls" /\ UNCHANGED at
    /\ IF i + 1 \in Children \ {Cardinality(Children)} THEN i' = i + 1 /\ UNCHANGED pc
                                                       ELSE i' = 0 /\ pc' = "wait"
    /\ UNCHANGED <<options, status, reports, io, dirty, code, size>>

\* Mutant: only the write() threads are counted.
WaitsForWriters == options.nthreads

Waits == options.mthreads + options.nthreads

Reported(c) ==
    /\ reports' = Append(reports, <<c, status'>>)
    /\ i' = i + 1
    /\ pc' = IF i + 1 >= Waits THEN "done" ELSE "wait"
    /\ UNCHANGED <<options, io, dirty, code, size>>

\* Mutant: the children are waited for in the order of their creation.
WaitInOrder ==
    /\ pc = "wait"
    /\ \E c \in Children :
        /\ at[c] = "zombie" /\ \A d \in 1 .. c - 1 : at[d] \in {"none", "reaped"}
        /\ status' = code[c]
        /\ at' = [at EXCEPT ![c] = "reaped"]
        /\ Reported(c)

Wait ==
    /\ pc = "wait"
    /\ \E c \in Children :
        /\ at[c] = "zombie"
        /\ status' = code[c]
        /\ at' = [at EXCEPT ![c] = "reaped"]
        /\ Reported(c)

\* Without children wait() returns -1 and leaves status: it is printed once more.
WaitFails ==
    /\ pc = "wait" /\ \A c \in Children : at[c] \in {"none", "reaped"}
    /\ UNCHANGED <<status, at>>
    /\ Reported(0)

-----------------------------------------------------------------------------
(* Child c, or the first process itself when nthreads is 1: write_junk(), mmap_junk(). *)

Exits(c, how) ==
    /\ at' = [at EXCEPT ![c] = IF pc = "write_junk" THEN "reaped" ELSE "zombie"]
    /\ code' = [code EXCEPT ![c] = how]
    /\ io' = [io EXCEPT ![c] = Nowhere] /\ dirty' = [dirty EXCEPT ![c] = Nowhere]
    /\ pc' = IF pc = "write_junk" THEN "done" ELSE pc
    /\ UNCHANGED <<options, i, status, reports>>

Continues(c, where) ==
    /\ at' = [at EXCEPT ![c] = where]
    /\ UNCHANGED <<options, mainVars, code>>

CallFails(c) ==
    /\ options.faults = "calls" /\ at[c] \in DOMAIN ExitStatus(c)
    /\ Exits(c, ExitStatus(c)[at[c]])
    /\ UNCHANGED size

\* posix_memalign() wants a power of two, which are the divisors of Word here.
CanAlign(n) == Word % n = 0

SetUp(c) ==
    /\ at[c] \in DOMAIN Following(c)
    /\ IF at[c] = "alloc" /\ ~CanAlign(options.bufsize)
         THEN Exits(c, ExitStatus(c).alloc)
         ELSE Continues(c, Following(c)[at[c]]) /\ UNCHANGED <<io, dirty>>
    /\ UNCHANGED size

\* min is 0: max * (rand() / (RAND_MAX + 1.0)), rounded down.
get_randnum(max) == IF max = 0 THEN {0} ELSE 0 .. max - 1
get_randnum_align(max, align) == {(r \div align) * align : r \in get_randnum(max)}

\* Mutant: the length is not subtracted.
RequestsOver ==
    [offset : get_randnum(options.file_size),
     len : IF options.direct THEN {options.bufsize} ELSE TextLens]

Requests ==
    IF options.direct
    THEN {[offset |-> o, len |-> options.bufsize] :
             o \in get_randnum_align((options.file_size - options.bufsize) % Word,
                                     options.bufsize)}
    ELSE UNION {{[offset |-> o, len |-> len] :
                    o \in get_randnum((options.file_size - len) % Word)} : len \in TextLens}

Request(c) ==
    /\ at[c] = "next"
    /\ \E r \in Requests : io' = [io EXCEPT ![c] = r]
    /\ Continues(c, "io")
    /\ UNCHANGED <<dirty, size>>

\* What comes after the write, and after the sync of the range.
AfterRange == IF options.file THEN "file" ELSE "next"
AfterIO == IF options.range THEN "range" ELSE AfterRange

\* pwrite() refuses a negative offset and, with O_DIRECT, one that is not aligned.  It
\* may write less than it was asked to, which is taken as success.
PWrite(c) ==
    /\ at[c] = "io" /\ IsWriter(c)
    /\ IF io[c].offset < Word \div 2 /\ (options.direct => io[c].offset % options.bufsize = 0)
         THEN /\ \E n \in 1 .. io[c].len :
                    /\ dirty' = [dirty EXCEPT ![c] = [offset |-> io[c].offset, len |-> n]]
                    /\ size' = IF io[c].offset + n > size THEN io[c].offset + n ELSE size
              /\ Continues(c, AfterIO)
              /\ UNCHANGED io
         ELSE Exits(c, 65) /\ UNCHANGED size

PageStart(n) == (n \div page_size) * page_size
PageEnd(n) == PageStart(n + page_size - 1)
Mapped(r) == r.offset + r.len <= PageEnd(options.file_size)

\* Mutant: offset is not moved.
Unmoved(r) == r

\* len and offset for msync(): whole pages in front.
Widened(r) == [offset |-> PageStart(r.offset), len |-> r.len + (r.offset % page_size)]

\* memcpy(map + offset): a page behind the end of the file is a SIGBUS.  Outside of the
\* mapping it is undefined, a SIGSEGV if not worse.
Memcpy(c) ==
    /\ at[c] = "io" /\ ~IsWriter(c)
    /\ \/ /\ Mapped(io[c]) => io[c].offset + io[c].len <= PageEnd(size)
          /\ dirty' = [dirty EXCEPT ![c] = io[c]]
          /\ io' = [io EXCEPT ![c] = Widened(io[c])]
          /\ Continues(c, AfterIO)
       \/ /\ ~Mapped(io[c]) \/ io[c].offset + io[c].len > PageEnd(size)
          /\ Exits(c, Signal)
    /\ UNCHANGED size

\* sync_file_range() and msync(), which wants mapped pages.
SyncRange(c) ==
    /\ at[c] = "range"
    /\ IF IsWriter(c) \/ (Mapped(io[c]) /\ io[c].offset % page_size = 0)
         THEN Continues(c, AfterRange) /\ UNCHANGED <<io, dirty>>
         ELSE Exits(c, 99)
    /\ UNCHANGED size

SyncFile(c) ==
    /\ at[c] = "file"
    /\ Continues(c, "next")
    /\ UNCHANGED <<io, dirty, size>>

-----------------------------------------------------------------------------
Main == Fork \/ Wait \/ WaitFails

Next == \/ Main
        \/ \E c \in Children : \/ SetUp(c) \/ Request(c) \/ PWrite(c) \/ Memcpy(c)
                               \/ SyncRange(c) \/ SyncFile(c) \/ CallFails(c)
        \/ pc = "done" /\ UNCHANGED vars

\* Only the first process has to go on; the children may be as slow as they like.
Spec == Init /\ [][Next]_vars /\ WF_vars(Main)

-----------------------------------------------------------------------------
(* Properties. *)

Places == {"none", "sysconf", "alloc", "open", "mmap", "next", "io", "range", "file",
           "zombie", "reaped"}

\* The ranges of the variables: i never runs past the children.
TypeOK ==
    /\ options \in Options
    /\ pc \in {"fork", "wait", "write_junk", "done"} /\ i \in 0 .. Cardinality(Children)
    /\ at \in [Children -> Places]
    /\ \A c \in Children : /\ io[c].offset \in 0 .. Word - 1
                           /\ code[c] \in {0, Signal} \cup 64 .. 68 \cup 96 .. 102
    /\ Len(reports) <= Cardinality(Children)

\* msync() is given pages, the record is anywhere.
SyncCoversWrite ==
    \A c \in Children :
        at[c] = "range" =>
            /\ io[c].offset <= dirty[c].offset
            /\ dirty[c].offset + dirty[c].len <= io[c].offset + io[c].len

\* A file that holds a record and a buffer that can be aligned.
Sound ==
    /\ CanAlign(options.bufsize)
    /\ options.file_size >= options.bufsize
    /\ \A len \in TextLens : options.file_size >= len

\* No request reaches behind the end, so the file never grows beyond the length asked
\* for, whoever writes; with -d requests are whole aligned blocks.  And the range that is
\* synced has every byte the child has just written.
RequestsInside ==
    /\ SyncCoversWrite
    /\ Sound => /\ size <= options.file_size
                /\ \A c \in Children :
                     at[c] = "io" =>
                       /\ io[c].offset + io[c].len <= options.file_size
                       /\ options.direct => /\ io[c].offset % options.bufsize = 0
                                            /\ io[c].len = options.bufsize

\* No child ends by itself.  If no call fails a write() child goes on for ever, and an
\* mmap child can only be ended by the signal for a file that was not allocated.
EndsForCause ==
    /\ TypeOK
    /\ Sound /\ options.faults # "calls" =>
        \A c \in Children : at[c] \in {"zombie", "reaped"} =>
            /\ ~IsWriter(c)
            /\ options.faults = "fallocate" /\ code[c] = Signal

\* The lines printed name every child that was waited for once, with how it ended; the
\* program ends when there is no child left, and the lines for -1 are then as many as
\* the forks that failed.
ReportsExact ==
    /\ \A k, l \in DOMAIN reports :
         reports[k][1] # 0 =>
            /\ reports[k][2] = code[reports[k][1]] /\ reports[k][2] # 0
            /\ reports[k][1] = reports[l][1] => k = l
    /\ pc = "done" /\ options.nthreads # 1 =>
         /\ \A c \in Children : at[c] \in {"none", "reaped"}
         /\ {reports[k][1] : k \in DOMAIN reports} \ {0} = {c \in Children : at[c] = "reaped"}
         /\ Cardinality({k \in DOMAIN reports : reports[k][1] = 0})
              = Cardinality({c \in Children : at[c] = "none"})

\* Every end of a child is reported, also while others go on.
EndsReported ==
    \A c \in 1 .. MaxChildren :
        (c \in Children /\ at[c] = "zombie") ~> (c \in Children /\ at[c] = "reaped")
=============================================================================

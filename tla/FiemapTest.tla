----------------------------- MODULE FiemapTest -----------------------------
(***************************************************************************)
(* incoming/fiemap-test.c: for each run a file is made of blocks of data,  *)
(* holes and preallocated blocks, and what the FIEMAP ioctl says of it is  *)
(* compared with the map it was made from, page by page.                   *)
(*                                                                         *)
(* The file system is external: it allocates the blocks as the map says,   *)
(* perhaps the holes too, cuts the extents where it likes, and its FIEMAP  *)
(* may have one fault.  Offsets are bytes, a block has blocksize of them.  *)
(***************************************************************************)
EXTENDS Integers, FiniteSets, Sequences

CONSTANTS
    blocksize,     \* FIGETBSZ
    maxblocks,     \* 2 MB / blocksize
    CommandLines,  \* command lines: -r, -1 without it, and -m, <<>> without it
    Prealloc,      \* what prealloc may be: -p, and whether fallocate() works
    HoleKinds,     \* what the file system may do to a hole
    Faults,        \* what may be wrong with its FIEMAP
    SysFaults,     \* whether system calls may fail
    RunsBound      \* bound of the countdown that starts at -1

ASSUME OptionsAssumption ==
    /\ blocksize \in Nat \ {0} /\ maxblocks \in Nat \ {0}
    /\ \A o \in CommandLines : /\ o.runs \in Nat \cup {-1}
                               /\ o.map \in Seq({"D", "H", "P"})
                               /\ o.map # <<>> => o.runs = -1
    /\ Prealloc \subseteq BOOLEAN /\ Prealloc # {}
ASSUME EnvironmentAssumption ==
    /\ HoleKinds \subseteq {"none", "zeroed", "garbage"} /\ "none" \in HoleKinds
    /\ "none" \in Faults
    /\ Faults \subseteq {"none", "dropped", "shortened", "misplaced", "flag", "unflagged", "ghost"}
    /\ SysFaults \in BOOLEAN /\ RunsBound \in Nat \ {0}

VARIABLES
    options,   \* the command line
    pc, runs, map, prealloc,
    blocks_to_map, cur_extent,
    disk,      \* what is at each block
    extents,   \* what FIEMAP reports of the whole file
    fault,     \* the fault in that
    unread,    \* history: the blocks check_weird_fs_hole() could not look at
    compared   \* files that passed

vars == <<options, pc, runs, map, prealloc, blocks_to_map, cur_extent, disk, extents, fault,
          unread, compared>>

blocks == Len(map)

\* Flags of an extent, without the prefix FIEMAP_EXTENT_.
ExtentFlags == {"LAST", "UNKNOWN", "DELALLOC", "ENCODED", "DATA_ENCRYPTED", "NOT_ALIGNED",
                "DATA_INLINE", "DATA_TAIL", "UNWRITTEN"}

-----------------------------------------------------------------------------
(* The file system. *)

\* The blocks of the file, from 0, after it was written by map m.  Holes at the end
\* are behind the end of the file.
Allocated(m) == {d \in [0 .. Len(m) - 1 -> {"data", "unwritten"} \cup HoleKinds] :
    \A b \in DOMAIN d :
        CASE m[b + 1] = "D" -> d[b] = "data"
          [] m[b + 1] = "P" -> d[b] = "unwritten"
          [] m[b + 1] = "H" -> /\ d[b] \in HoleKinds
                               /\ d[b] = "none" \/ \E a \in b + 2 .. Len(m) : m[a] # "H"}

\* Neighbouring blocks that may be one extent.
Alike(d, b) == (d[b] = "unwritten") <=> (d[b + 1] = "unwritten")

StartsAt(d, cuts, b) == b = 0 \/ b \in cuts \/ d[b - 1] = "none" \/ ~Alike(d, b - 1)

\* The blocks from lo to hi are one extent, cut before the blocks of cuts and wherever it
\* must be.
Stretch(d, cuts, lo, hi) ==
    /\ lo <= hi /\ StartsAt(d, cuts, lo)
    /\ \A b \in lo .. hi : d[b] # "none" /\ (b > lo => ~StartsAt(d, cuts, b))
    /\ hi + 1 = blocks \/ d[hi + 1] = "none" \/ StartsAt(d, cuts, hi + 1)

TrueExtent(d, lo, hi) ==
    [start   |-> lo * blocksize, end |-> (hi + 1) * blocksize,
     aligned |-> TRUE,  \* fe_physical
     flags   |-> (IF d[lo] = "unwritten" THEN {"UNWRITTEN"} ELSE {})
                  \cup (IF \A b \in hi + 1 .. blocks - 1 : d[b] = "none" THEN {"LAST"} ELSE {})]

TrueExtents(d, cuts) ==
    {TrueExtent(d, r[1], r[2]) :
        r \in {q \in (DOMAIN d) \X (DOMAIN d) : Stretch(d, cuts, q[1], q[2])}}

Without(E, e, e2) == (E \ {e}) \cup {e2}

\* The reports of a FIEMAP with the fault f, instead of E.
Reports(E, d, f) ==
    CASE f = "none"      -> {E}
      [] f = "dropped"   -> {E \ {e} : e \in E}
      [] f = "shortened" -> {Without(E, e, [e EXCEPT !.end = @ - blocksize \div 2,
                                                     !.flags = @ \cup {"NOT_ALIGNED"}]) : e \in E}
      [] f = "misplaced" -> {Without(E, e, [e EXCEPT !.aligned = FALSE]) : e \in E}
      [] f = "flag"      -> UNION {{Without(E, e, [e EXCEPT !.flags = @ \cup {g}])
                                    : g \in ExtentFlags} : e \in E}
      [] f = "unflagged" -> UNION {{Without(E, e, [e EXCEPT !.flags = @ \ {g}]) : g \in e.flags}
                                   : e \in E}
      [] f = "ghost"     -> {E \cup {[start |-> b * blocksize, end |-> (b + 1) * blocksize,
                                      aligned |-> TRUE, flags |-> {}]}
                             : b \in {c \in DOMAIN d : d[c] = "none"}}

\* The ioctl: extents that touch the window, in order, at most fm_extent_count of them; some
\* file systems cut the first at the start of the window.  The set of the one such sequence.
Fiemap(fm_start, fm_length, count, clips) ==
    LET touching == {e \in extents : e.end > fm_start /\ e.start < fm_start + fm_length}
        clipped == {IF clips /\ e.start < fm_start THEN [e EXCEPT !.start = fm_start] ELSE e
                    : e \in touching}
        size == IF Cardinality(clipped) < count THEN Cardinality(clipped) ELSE count
    IN  {f \in [1 .. size -> clipped] :
            \A c \in 1 .. size : \A e \in clipped :
                e.start < f[c].start <=> \E b \in 1 .. c - 1 : f[b] = e}

-----------------------------------------------------------------------------
(* The checks; fiemap is the sequence of extents of one page. *)

Aligned(e) == e.aligned /\ (e.end - e.start) % blocksize = 0

\* The rules of check_flags() for one extent.
FlagsAgree(e) ==
    /\ Aligned(e) <=> "NOT_ALIGNED" \notin e.flags
    /\ "DATA_ENCRYPTED" \in e.flags => "ENCODED" \in e.flags
    /\ "DELALLOC" \in e.flags => "UNKNOWN" \in e.flags
    /\ e.flags \cap {"DATA_INLINE", "DATA_TAIL"} # {} => "NOT_ALIGNED" \in e.flags

check_flags(fiemap) ==
    \A c \in DOMAIN fiemap :
        /\ FlagsAgree(fiemap[c])
        /\ "LAST" \in fiemap[c].flags => c = Len(fiemap)

Covers(e, offset) == e.start <= offset /\ offset < e.end

\* The offset check_data() looks for when it comes to each extent: from one that covers the
\* start of the block but not its end, it goes on one byte after the end of the extent.
Sought(fiemap, offset) ==
    LET sought[c \in 1 .. Len(fiemap)] ==
          IF c = 1 THEN offset
          ELSE IF Covers(fiemap[c - 1], sought[c - 1]) THEN fiemap[c - 1].end + 1
          ELSE sought[c - 1]
    IN  sought

\* Mutant: a block at the end of its extent is taken to exceed it.
extent_of_strict(fiemap, offset) ==
    LET sought == Sought(fiemap, offset)
        Fits(c) == Covers(fiemap[c], sought[c]) /\ sought[c] + blocksize < fiemap[c].end
        Beyond(c) == sought[c] + blocksize < fiemap[c].start
    IN  {c \in 1 .. Len(fiemap) : Fits(c) /\ \A b \in 1 .. c - 1 : ~Fits(b) /\ ~Beyond(b)}

\* The extent check_data() settles for, if any.
extent_of(fiemap, offset) ==
    LET sought == Sought(fiemap, offset)
        Fits(c) == Covers(fiemap[c], sought[c]) /\ sought[c] + blocksize <= fiemap[c].end
        Beyond(c) == sought[c] + blocksize < fiemap[c].start
    IN  {c \in 1 .. Len(fiemap) : Fits(c) /\ \A b \in 1 .. c - 1 : ~Fits(b) /\ ~Beyond(b)}

\* For a preallocated block !fe_flags & FIEMAP_EXTENT_UNWRITTEN is evaluated, which
\* is 0 whatever the flags are: the two kinds of blocks are checked alike.
check_data(fiemap, offset, last) ==
    \E c \in extent_of(fiemap, offset) : last => "LAST" \in fiemap[c].flags

\* FIBMAP must say that the block is allocated, and its bytes must be zero.  If FIBMAP,
\* malloc or pread fails that counts as if they were not.
check_weird_fs_hole(offset, failing) ==
    LET b == offset \div blocksize IN  b \notin failing /\ disk[b] = "zeroed"

check_hole(fiemap, offset, failing) ==
    \A c \in DOMAIN fiemap :
        Covers(fiemap[c], offset) => check_weird_fs_hole(offset, failing)

DataBlocks == {b \in 0 .. blocks - 1 : map[b + 1] # "H"}
last_data == CHOOSE b \in DataBlocks : \A a \in DataBlocks : a <= b

\* The blocks of the page that starts at cur_extent.
NextExtent ==
    IF cur_extent + blocks_to_map < blocks THEN cur_extent + blocks_to_map ELSE blocks

Window(clips) ==
    Fiemap(cur_extent * blocksize, blocks_to_map * blocksize, blocks_to_map, clips)

PagePasses(fiemap, failing) ==
    /\ check_flags(fiemap)
    /\ \A b \in cur_extent .. NextExtent - 1 :
          IF map[b + 1] = "H" THEN check_hole(fiemap, b * blocksize, failing)
          ELSE check_data(fiemap, b * blocksize, b = last_data)

\* The first hole of a page, in an extent, for which a call fails, if any.
Unreadable(fiemap) ==
    {{}} \cup {{b} : b \in {h \in cur_extent .. NextExtent - 1 :
                            /\ SysFaults /\ map[h + 1] = "H"
                            /\ \E c \in DOMAIN fiemap : Covers(fiemap[c], h * blocksize)}}

-----------------------------------------------------------------------------
(* The program. *)

Init ==
    /\ options \in CommandLines
    /\ pc = "choose"
    /\ map = options.map
    /\ prealloc \in Prealloc
    /\ runs = IF options.map = <<>> THEN options.runs ELSE 0
    /\ blocks_to_map = 0 /\ cur_extent = 0
    /\ disk = <<>> /\ extents = {} /\ fault = "none" /\ unread = {} /\ compared = 0

\* Any other failing system call, before or within a run, ends the program.
SyscallFails ==
    /\ SysFaults /\ pc \in {"choose", "create", "page", "truncate"}
    /\ pc' = "failed"
    /\ UNCHANGED <<options, runs, map, prealloc, blocks_to_map, cur_extent, disk, extents,
                   fault, unread, compared>>

\* random() % maxblocks is 0: continue goes to the condition of the loop.
Skip ==
    /\ pc = "choose" /\ map = <<>>
    /\ pc' = IF runs = 0 THEN "done" ELSE "choose"
    /\ UNCHANGED <<options, runs, map, prealloc, blocks_to_map, cur_extent, disk, extents,
                   fault, unread, compared>>

Types == IF prealloc THEN {"D", "H", "P"} ELSE {"D", "H"}

\* Any other number of blocks, and generate_file_mapping()
Generate ==
    /\ pc = "choose" /\ map = <<>>
    /\ \E n \in 1 .. maxblocks - 1 : map' \in [1 .. n -> Types]
    /\ pc' = "create"
    /\ UNCHANGED <<options, runs, prealloc, blocks_to_map, cur_extent, disk, extents,
                   fault, unread, compared>>

UseOption ==
    /\ pc = "choose" /\ map # <<>>
    /\ pc' = "create"
    /\ UNCHANGED <<options, runs, map, prealloc, blocks_to_map, cur_extent, disk, extents,
                   fault, unread, compared>>

\* Mutant: + 1 is missing.
WindowSizesFromZero == 0 .. blocks - 1

\* random() % blocks + 1
WindowSizes == 1 .. blocks

\* create_file_from_mapping() and the start of compare_fiemap_and_map()
Create ==
    /\ pc = "create"
    /\ disk' \in Allocated(map)
    /\ fault' \in Faults
    /\ \E cuts \in SUBSET (1 .. blocks - 1) :
          extents' \in Reports(TrueExtents(disk', cuts), disk', fault')
    /\ blocks_to_map' \in WindowSizes
    /\ cur_extent' = 0
    /\ pc' = "page"
    /\ UNCHANGED <<options, runs, map, prealloc, unread, compared>>

\* prealloc is set only if fallocate() works; a map of -m is not asked.
CreateFails ==
    /\ pc = "create" /\ ~prealloc /\ \E b \in DOMAIN map : map[b] = "P"
    /\ pc' = "failed"
    /\ UNCHANGED <<options, runs, map, prealloc, blocks_to_map, cur_extent, disk, extents,
                   fault, unread, compared>>

\* Mutant: the block after the page is skipped.
PageSkips ==
    /\ pc = "page" /\ cur_extent < blocks
    /\ \E clips \in BOOLEAN : \E fiemap \in Window(clips) : \E failing \in Unreadable(fiemap) :
          /\ unread' = failing
          /\ IF PagePasses(fiemap, failing)
             THEN /\ cur_extent' = IF NextExtent < blocks THEN NextExtent + 1 ELSE NextExtent
                  /\ UNCHANGED pc
             ELSE pc' = "problem" /\ UNCHANGED cur_extent
    /\ UNCHANGED <<options, runs, map, prealloc, blocks_to_map, disk, extents,
                   fault, compared>>

\* One turn of the do loop
Page ==
    /\ pc = "page" /\ cur_extent < blocks
    /\ \E clips \in BOOLEAN : \E fiemap \in Window(clips) : \E failing \in Unreadable(fiemap) :
          /\ unread' = failing
          /\ IF PagePasses(fiemap, failing)
             THEN cur_extent' = NextExtent /\ UNCHANGED pc
             ELSE pc' = "problem" /\ UNCHANGED cur_extent
    /\ UNCHANGED <<options, runs, map, prealloc, blocks_to_map, disk, extents,
                   fault, compared>>

Passed ==
    /\ pc = "page" /\ cur_extent >= blocks
    /\ pc' = "truncate"
    /\ compared' = IF options.runs = -1 /\ compared = RunsBound THEN compared ELSE compared + 1
    /\ UNCHANGED <<options, runs, map, prealloc, blocks_to_map, cur_extent, disk, extents, fault,
                   unread>>

\* The countdown goes on below -1; it stays at its bound here.
NextRun ==
    /\ pc = "truncate"
    /\ map' = <<>> /\ disk' = <<>> /\ extents' = {} /\ fault' = "none"
    /\ runs' = IF runs \in {0, -RunsBound} THEN runs ELSE runs - 1
    /\ pc' = IF runs' = 0 THEN "done" ELSE "choose"
    /\ UNCHANGED <<options, prealloc, blocks_to_map, cur_extent, unread, compared>>

Stopped == pc \in {"done", "failed", "problem"} /\ UNCHANGED vars

Step == \/ Skip \/ Generate \/ UseOption \/ Create \/ CreateFails
        \/ Page \/ Passed \/ NextRun

Next == Step \/ SyscallFails \/ Stopped

\* The process runs, no call need ever fail, and random() does not yield multiples
\* of maxblocks for ever.
Spec == Init /\ [][Next]_vars /\ WF_vars(Step) /\ SF_vars(Generate)

-----------------------------------------------------------------------------
(* Properties. *)

\* The ranges of the variables; pages stay within the file.
TypeOK ==
    /\ pc \in {"choose", "create", "page", "truncate", "done", "failed", "problem"}
    /\ runs \in Int /\ compared \in Nat
    /\ map \in Seq({"D", "H", "P"})
    /\ blocks_to_map \in 0 .. (IF options.map = <<>> THEN maxblocks - 1 ELSE Len(options.map))
    /\ cur_extent \in Nat /\ (pc = "page" => cur_extent <= blocks)
    /\ fault \in Faults
    /\ \A e \in extents : e.start < e.end /\ e.flags \subseteq ExtentFlags

\* A false alarm has one cause: with a FIEMAP that is right, whatever the map, the sizes of
\* the pages and the cuts, a comparison fails only where the file system has filled a hole,
\* with anything but zeros, or with zeros that could not be looked at, which is reported as
\* if there were none.
NoFalseAlarm ==
    /\ TypeOK
    /\ pc = "problem" => \/ fault # "none" \/ \E b \in DOMAIN disk : disk[b] = "garbage"
                         \/ \E b \in unread : disk[b] = "zeroed"

\* A byte that lies in an extent or just behind one.
Reported(y) == \E e \in extents : e.start <= y /\ y <= e.end

\* A comparison that passes has seen every block: data and preallocated blocks are
\* mapped, the last of them by an extent marked LAST, and a hole is mapped only if
\* the file system has really put a block of zeros there; and no extent, on whichever
\* page it was, has flags that disagree.
PassedIsMapped ==
    pc = "truncate" =>
        /\ \A b \in DataBlocks :
              \A y \in b * blocksize .. (b + 1) * blocksize - 1 : Reported(y)
        /\ DataBlocks # {} => \E e \in extents :
              "LAST" \in e.flags /\ e.end >= (last_data + 1) * blocksize
        /\ \A b \in (0 .. blocks - 1) \ DataBlocks :
              disk[b] = "zeroed" \/ \A e \in extents :
                  ~Covers(e, b * blocksize)
        /\ \A e \in extents : FlagsAgree(e)

\* -r n compares n files, the skipped ones not counted, and -m one; without them
\* the program never stops by itself.
RunsExact ==
    \/ options.map # <<>> /\ compared = 1
    \/ options.runs > 0 /\ compared = options.runs
    \/ options.runs = 0 /\ compared <= 1

\* Every comparison comes to an end, and with -r or -m the program does, after the
\* files it was to compare or for an error.
Ends == /\ [](pc = "page" => <>(pc # "page"))
        /\ options.runs >= 0 \/ options.map # <<>> =>
              <>(pc \in {"failed", "problem"} \/ (pc = "done" /\ RunsExact))

\* "preallocated extent is not marked with FIEMAP_EXTENT_UNWRITTEN" is an error that
\* fails the comparison.
PassedIsUnwritten ==
    pc = "truncate" =>
        \A b \in DataBlocks : map[b + 1] = "P" =>
            \E e \in extents : Covers(e, b * blocksize) /\ "UNWRITTEN" \in e.flags
=============================================================================

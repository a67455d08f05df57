------------------------------ MODULE MCTools ------------------------------
(***************************************************************************)
(* The small programs and scripts, for TLC.  They have nothing to do with  *)
(* each other: tool is the one that is run, and the others stay in their   *)
(* initial state.                                                          *)
(***************************************************************************)
EXTENDS InodeFlags, SparseCp, CreatUnlink, Syncperf, SlowRm,
        GitAging, FullCheckout, SnapDir, SequencesExt

VARIABLE tool

otherVars == <<tool, flagsVars, copyVars, creatVars, syncVars, hammerVars, agingVars,
               checkoutVars>>
vars == <<otherVars, snapDirVars>>

\* There is nothing but a source that somebody has made, or none.
FirstRun ==
    /\ ~trees[Source].lock /\ ~trees[Source].torn
    /\ \A t \in Trees \ {Source, Here} : trees[t] = None

\* An initial state is chosen for the tool that is run only.
ToolsInit ==
    /\ tool \in {"flags", "sparse-cp", "creat_unlink", "syncperf", "slow-rm", "aging",
                 "full-co", "snaps"}
    /\ tool = "flags" \/ /\ call = [r \in Runs |-> CHOOSE a \in Calls : TRUE]
                         /\ faults = FALSE /\ inode = [f \in Inodes |-> {}]
    /\ tool = "sparse-cp" \/ src = <<>>
    /\ tool = "creat_unlink" \/ (nfiles = 1 /\ failing = FALSE /\ tst_dir = "none")
    /\ tool = "syncperf" \/ found = [exists |-> {}, files |-> [d \in SyncPlaces |-> {}]]
    /\ tool = "aging" \/ /\ setting = CHOOSE s \in Settings : TRUE
                         /\ trees = [t \in Trees |-> None]
    /\ tool = "full-co" \/ history = CHOOSE h \in Histories : TRUE
    /\ tool = "snaps" \/ (layout = (CHOOSE l \in Layouts : TRUE) /\ NOMORESNAPS = FALSE)
    /\ FlagsInit /\ CopyInit /\ CreatInit /\ SyncInit /\ HammerInit
    /\ AgingInit /\ (setting.failing # {} \/ setting.script = "nosubvol" => FirstRun)
    /\ CheckoutInit /\ SnapDirInit

ToolsNext ==
    /\ UNCHANGED tool
    /\ IF tool = "flags" THEN FlagsNext ELSE UNCHANGED flagsVars
    /\ IF tool = "sparse-cp" THEN CopyNext ELSE UNCHANGED copyVars
    /\ IF tool = "creat_unlink" THEN CreatNext ELSE UNCHANGED creatVars
    /\ IF tool = "syncperf" THEN SyncNext ELSE UNCHANGED syncVars
    /\ IF tool = "slow-rm" THEN HammerNext ELSE UNCHANGED hammerVars
    /\ IF tool = "aging" THEN AgingNext ELSE UNCHANGED agingVars
    /\ IF tool = "full-co" THEN CheckoutNext ELSE UNCHANGED checkoutVars
    /\ IF tool = "snaps" THEN SnapDirNext ELSE UNCHANGED snapDirVars

\* The loops that make and delete snapshots go on, as they do in SnapDirSpec; nothing is
\* assumed of the others.
ToolsSpec ==
    /\ ToolsInit /\ [][ToolsNext]_vars
    /\ \A l \in Creators \cup Deleters :
          WF_vars(tool = "snaps" /\ l \in Loops /\ Loop(l) /\ UNCHANGED otherVars)

AllStopWithZ == tool = "snaps" => AllStop

-----------------------------------------------------------------------------
(* The instances: 2 programs that change flags of 2 files, copies of up to *)
(* 7 bytes in blocks of 2, 3 processes for one directory and for one file, *)
(* 3 processes that check out 2 commits each, 3 commits in lists of 2 with *)
(* 2 crashes, and up to 3 loops that make and delete snapshots with 2      *)
(* numbers.                                                                *)

Option(s, w) == [sign |-> s, word |-> w]
Name(f) == Option("", f)
AllCalls ==
    {[name |-> "fileflags", args |-> a] :
        a \in {<<>>, <<Name("f")>>,
               <<Option("+", {"NOCOW", "unknown"}), Name("missing"), Name("f"), Name("g")>>,
               <<Option("-", {"NODUMP", "NOCOW"}), Option("+", {"NODUMP"}),
                 Option("--", {}), Name("f")>>}}
        \cup [name : {"nocow", "nocomp"}, args : {<<Name("f")>>}]

SmallContents == BoundedSeq({0, 1, 2}, 7)

\* Either ^C, with all that an earlier run may have left, or, in a first run, commands that
\* fail: of the script, or of one process.  nosubvol is the first run in both.
AllSettings ==
    [script : Scripts, failing : {{}}, interrupt : {TRUE}]
        \cup [script : Scripts, failing : {{0}, {2}}, interrupt : {FALSE}]

\* 3 commits in a row; and with two branches.
RowAndBranches == {<<1 .. 3, 2 .. 3, {3}>>, <<1 .. 3, {2}, {3}>>}

\* Directories and files of the names syncperf uses may be there or not.
AnyBefore ==
    {b \in [exists : SUBSET SyncDirs, files : [SyncPlaces -> {{}, {Foreign, 0}}]] :
        \A d \in SyncDirs : d \in b.exists \/ b.files[d] = {}}

AllLayouts ==
    [family : {"rand-snap"}, loops : {{"new"}, {"new", "rm"}, {"new", "rm", "rm2"}},
     source : {".", "path"}, z : {"none", "new"}]
        \cup [family : {"test-subvol"}, loops : {{"new", "rm"}}, source : {"path"},
              z : {"none"}]
=============================================================================

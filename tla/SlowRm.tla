------------------------------- MODULE SlowRm -------------------------------
(***************************************************************************)
(* incoming/luto-slow-rm.c: for ever creates a file, writes to it through   *)
(* a mapping, and removes it.  Several may be started with one name.       *)
(***************************************************************************)
EXTENDS Integers

CONSTANTS Hammers    \* the processes

VARIABLES
    owner,       \* whose file has the name, or "none"
    allocated,   \* whose file has its blocks: fallocate() may have failed
    hpc          \* what each process does next, or how it has ended

ASSUME HammersAssumption == "none" \notin Hammers

hammerVars == <<owner, allocated, hpc>>

HammerInit ==
    /\ owner = "none" /\ allocated = {}
    /\ hpc = [h \in Hammers |-> "open"]

HammerStep(h, from, to) == hpc[h] = from /\ hpc' = [hpc EXCEPT ![h] = to]

\* Mutant: without O_EXCL.
OpenShared(h) ==
    /\ HammerStep(h, "open", "fallocate")
    /\ owner' = h /\ UNCHANGED allocated

\* O_CREAT | O_EXCL.
OpenNew(h) ==
    /\ owner = "none"
    /\ HammerStep(h, "open", "fallocate")
    /\ owner' = h /\ UNCHANGED allocated

Fallocate(h) ==
    /\ HammerStep(h, "fallocate", "mmap")
    /\ allocated' \in {allocated \cup {h}, allocated \ {h}}
    /\ UNCHANGED owner

Mmap(h) == HammerStep(h, "mmap", "memset") /\ UNCHANGED <<owner, allocated>>

\* Behind the end of a file that has no blocks there is nothing to write to.
Memset(h) ==
    /\ h \in allocated
    /\ HammerStep(h, "memset", "munmap") /\ UNCHANGED <<owner, allocated>>

Killed(h) == HammerStep(h, "memset", "SIGBUS") /\ UNCHANGED <<owner, allocated>>

Munmap(h) == HammerStep(h, "munmap", "sync_file_range") /\ UNCHANGED <<owner, allocated>>
SyncRange(h) == HammerStep(h, "sync_file_range", "unlink") /\ UNCHANGED <<owner, allocated>>

UnlinkOwn(h) ==
    /\ owner # "none"
    /\ HammerStep(h, "unlink", "ftruncate")
    /\ owner' = "none" /\ UNCHANGED allocated

\* ftruncate() and close(); then main() calls hammer() again.
Truncate(h) == HammerStep(h, "ftruncate", "open") /\ UNCHANGED <<owner, allocated>>

\* err(1, call).
CallFails(h) ==
    /\ hpc[h] \in {"open", "mmap", "munmap", "sync_file_range", "unlink", "ftruncate"}
    /\ HammerStep(h, hpc[h], "exit 1") /\ UNCHANGED <<owner, allocated>>

Hammer(h) == \/ OpenNew(h) \/ Fallocate(h) \/ Mmap(h) \/ Memset(h) \/ Killed(h) \/ Munmap(h)
             \/ SyncRange(h) \/ UnlinkOwn(h) \/ Truncate(h) \/ CallFails(h)

HammerEnded == {"exit 1", "SIGBUS"}
HammerNext ==
    \/ \E h \in Hammers : Hammer(h)
    \/ (\A h \in Hammers : hpc[h] \in HammerEnded) /\ UNCHANGED hammerVars

HammerSpec == HammerInit /\ [][HammerNext]_hammerVars

-----------------------------------------------------------------------------
(* Properties. *)

\* A process that is to remove the file.
Owners == {h \in Hammers : hpc[h] \notin {"open", "ftruncate"} \cup HammerEnded}

\* The name stands for the file of the one process that has it, so that none removes the
\* file of another; a file nobody works on any more is that of a process that has failed.
RemovesOwn ==
    /\ \A h \in Owners : owner = h
    /\ \A h \in Hammers : owner = h => h \in Owners \/ hpc[h] \in HammerEnded
=============================================================================

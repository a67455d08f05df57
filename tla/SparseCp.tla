------------------------------ MODULE SparseCp ------------------------------
(***************************************************************************)
(* lib/sparse-cp: copies a file block by block, leaving out the blocks of  *)
(* zeros, so that the copy has holes there.                                *)
(***************************************************************************)
EXTENDS Integers, Sequences

CONSTANTS
    Contents,    \* what the file may hold: sequences of bytes
    bs           \* the block size

\* Bytes are numbers, and a block has one at least.
ASSUME CopyAssumption == Contents \subseteq Seq(Nat) /\ bs \in Nat \ {0}

VARIABLES
    src,         \* the file
    out,         \* its copy
    off,         \* the offset of the next block
    pos          \* where OUT is written next

copyVars == <<src, out, off, pos>>

CopyInit == src \in Contents /\ out = <<>> /\ off = 0 /\ pos = 0

Least(x, y) == IF x < y THEN x ELSE y

\* What sysread() returns: reading goes on where it has ended, so at off.
block == SubSeq(src, off + 1, Least(off + bs, Len(src)))

Zeros == [n \in 1 .. bs |-> 0]

\* syswrite() at an offset; what is between the end and it is a hole.
Written(offset) ==
    [n \in 1 .. (IF offset + Len(block) > Len(out) THEN offset + Len(block) ELSE Len(out)) |->
        IF n > offset /\ n <= offset + Len(block) THEN block[n - offset]
        ELSE IF n <= Len(out) THEN out[n] ELSE 0]

Write(offset) == out' = Written(offset) /\ pos' = offset + Len(block)

\* Mutant: a block is written where the last one ended.
CopyNoSeek ==
    /\ off < Len(src) /\ off' = off + bs /\ UNCHANGED src
    /\ IF Len(block) = bs /\ block = Zeros THEN UNCHANGED <<out, pos>> ELSE Write(pos)

\* A short block is written where OUT is, a whole one at its own offset.
CopyBlock ==
    /\ off < Len(src) /\ off' = off + bs /\ UNCHANGED src
    /\ \/ Len(block) < bs /\ Write(pos)
       \/ Len(block) = bs /\ block # Zeros /\ Write(off)
       \/ Len(block) = bs /\ block = Zeros /\ UNCHANGED <<out, pos>>

Copied == off >= Len(src)

CopyNext == CopyBlock \/ (Copied /\ UNCHANGED copyVars)

CopySpec == CopyInit /\ [][CopyNext]_copyVars

-----------------------------------------------------------------------------
(* Properties. *)

\* Where the last block ends, of those copied so far, that is not of zeros.
DataEnd ==
    LET ends == {0} \cup {k \in 1 .. Least(off, Len(src)) :
                            k % bs = 0 /\ SubSeq(src, k - bs + 1, k) # Zeros}
    IN  CHOOSE k \in ends : \A l \in ends : l <= k

\* The copy is the file as far as there are data; what is behind them, a short block at
\* the end, follows at once.  So a copy is complete unless a run of zero blocks comes
\* last, or last but for a short block: then it is shorter by that run.
CopyExact ==
    out = SubSeq(src, 1, DataEnd)
            \o (IF off > Len(src) THEN SubSeq(src, (Len(src) \div bs) * bs + 1, Len(src)) ELSE <<>>)
=============================================================================

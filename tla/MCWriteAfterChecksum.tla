------------------------ MODULE MCWriteAfterChecksum ------------------------
(* Instances of WriteAfterChecksum for TLC; the rest is in the .cfg. *)
EXTENDS WriteAfterChecksum

\* Up to two children, or three that only write: sizes of 4 hold two blocks; in one of 1
\* the offsets wrap; 3 cannot be aligned.
CommandLines ==
    {o \in [nthreads : 0 .. 2, mthreads : 0 .. 2, file_size : {1, 4}, bufsize : {2, 3},
            direct : BOOLEAN, range : BOOLEAN, file : BOOLEAN,
            faults : {"none", "fallocate", "calls"}] :
        /\ o.nthreads + o.mthreads <= 2
        /\ o.file_size = 1 \/ o.bufsize = 3 => o.nthreads + o.mthreads = 1 /\ ~o.file}
=============================================================================

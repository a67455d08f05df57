------------------------------ MODULE Seekmark ------------------------------
(***************************************************************************)
(* incoming/seekmark.c: threads that seek to random places of a file or a  *)
(* device and read or write a block there, each a given number of times,   *)
(* or for ever.  The rate reported is seeks * numthreads in the time taken. *)
(***************************************************************************)
EXTENDS Integers

CONSTANTS
    Args,       \* command lines: functions from the options given to their values
    Files,      \* what -f may name: see below
    MaxBlock,   \* 1048577
    MaxLen      \* the longest file the file system can hold

VARIABLES
    args, file,
    pc, i,      \* main() and its loop counter
    size,       \* what main() takes for the size
    len,        \* of the file
    at,         \* the call each thread is about to make
    tfd,        \* whether its open() was successful
    k,          \* its loop counter
    pos,        \* the position in its open file
    seekpos,    \* the result of its last lseek()
    ios,        \* reads and writes it has made, up to seeks + 1
    full,       \* whether all of them transferred the whole block
    fill        \* what the blocks written were filled with

\* device: it cannot grow; faults: calls may fail.
ASSUME FilesAssumption ==
    \A f \in Files : f.len \in 0 .. MaxLen /\ f.device \in BOOLEAN /\ f.faults \in BOOLEAN
ASSUME ArgsAssumption ==
    \A a \in Args :
        /\ DOMAIN a \subseteq {"f", "S", "t", "a", "s", "w", "R", "i", "e"}
        /\ \A option \in {"S", "t", "a", "s", "i"} \cap DOMAIN a : a[option] \in Int
\* Arithmetic, which the prover does not know.
ASSUME PowersAssumption ==
    \A a \in Args : "a" \in DOMAIN a /\ a["a"] >= 0 => 2^(a["a"] % 32) \in Nat \ {0}
ASSUME BoundsAssumption == MaxBlock \in Nat /\ MaxLen \in Nat

mainVars == <<pc, i, size>>
threadVars == <<at, tfd, k, pos, seekpos, ios, full>>
vars == <<args, file, mainVars, threadVars, len, fill>>

-----------------------------------------------------------------------------
(* getargs() *)

Given(option) == option \in DOMAIN args
Value(option, default) == IF Given(option) THEN args[option] ELSE default

sizelimit == Value("S", 0)
numthreads == Value("t", 1)
align == Value("a", 0)
seeks == Value("s", 5000)
block == Value("i", 512)
writetest == Given("w")
writerandomdata == ~Given("R")
endless == Given("e")

Threads == 0 .. numthreads - 1

Accepted ==
    /\ Given("f")
    /\ sizelimit >= 0 /\ numthreads >= 1 /\ seeks >= 1
    /\ Given("a") => align >= 1
    /\ Given("w") => args.w = "destroy-data"
    /\ block \in 1 .. MaxBlock

Init ==
    /\ args \in Args /\ file \in Files
    /\ pc = "getargs" /\ i = 0 /\ size = 0
    /\ len = file.len
    /\ at = [t \in Threads |-> "none"]
    /\ tfd = [t \in Threads |-> FALSE]
    /\ k = [t \in Threads |-> 0] /\ pos = k /\ seekpos = k /\ ios = k
    /\ full = [t \in Threads |-> TRUE]
    /\ fill = {}

getargs ==
    /\ pc = "getargs"
    /\ pc' = IF Accepted THEN "open" ELSE "exit 1"
    /\ UNCHANGED <<args, file, i, size, threadVars, len, fill>>

-----------------------------------------------------------------------------
(* main() *)

OpenFile ==
    /\ pc = "open"
    /\ size' = IF sizelimit > 0 THEN sizelimit ELSE len
    /\ pc' = "spawn"
    /\ UNCHANGED <<args, file, i, threadVars, len, fill>>

\* open() fails; a failing lseek() does not matter with -S.
OpenFails ==
    /\ pc = "open" /\ file.faults
    /\ pc' = "exit 1"
    /\ UNCHANGED <<args, file, i, size, threadVars, len, fill>>

NextThread(loop, after) ==
    IF i + 1 = numthreads THEN i' = 0 /\ pc' = after ELSE i' = i + 1 /\ pc' = loop

\* The result of pthread_create() is not looked at.
Spawn ==
    /\ pc = "spawn"
    /\ \/ at' = [at EXCEPT ![i] = "open"]
       \/ file.faults /\ UNCHANGED at
    /\ NextThread("spawn", "join")
    /\ UNCHANGED <<args, file, size, tfd, k, pos, seekpos, ios, full, len, fill>>

\* Mutant: only the last thread is joined.
JoinLast ==
    /\ pc = "join"
    /\ at[numthreads - 1] \in {"none", "ended"} /\ pc' = "done" /\ UNCHANGED i
    /\ UNCHANGED <<args, file, size, threadVars, len, fill>>

\* Joining what was never created is undefined: an error, or a crash.
Join ==
    /\ pc = "join"
    /\ \/ at[i] \in {"none", "ended"} /\ NextThread("join", "done")
       \/ at[i] = "none" /\ pc' = "crashed" /\ UNCHANGED i
    /\ UNCHANGED <<args, file, size, threadVars, len, fill>>

-----------------------------------------------------------------------------
(* threadseek() of thread t, while the process lives. *)

Over == pc \in {"exit 1", "done", "crashed"}
Goes(t, where) == at' = [at EXCEPT ![t] = where]

\* A failing open() is not noticed.
OpenTfd(t) ==
    /\ ~Over /\ at[t] = "open"
    /\ \E ok \in {TRUE, ~file.faults} : tfd' = [tfd EXCEPT ![t] = ok]
    /\ Goes(t, "seek")
    /\ UNCHANGED <<args, file, mainVars, k, pos, seekpos, ios, full, len, fill>>

\* & ~0<<align.  0 is an int: by 32 and more that shift is undefined, and takes place modulo
\* 32 or leaves no bit.
Align(n) == {(n \div 2^(align % 32)) * 2^(align % 32)} \cup (IF align < 32 THEN {} ELSE {0})

Clamp(n) == IF n > size - block THEN size - block ELSE n

\* size * ((float)rand()/RAND_MAX), at most size - block: negative if size < block.
Offsets == UNION {Align(Clamp(n)) : n \in 0 .. size}

\* Mutant: all threads use one descriptor.
SeekShared(t) ==
    /\ ~Over /\ at[t] = "seek" /\ k[t] < seeks
    /\ \E offset \in Offsets :
        IF offset >= 0 /\ tfd[t]
        THEN /\ seekpos' = [seekpos EXCEPT ![t] = offset]
             /\ pos' = [u \in Threads |-> offset]
        ELSE seekpos' = [seekpos EXCEPT ![t] = -1] /\ UNCHANGED pos
    /\ Goes(t, "io")
    /\ UNCHANGED <<args, file, mainVars, tfd, k, ios, full, len, fill>>

\* A failing lseek() is reported, after the delay, and the I/O done all the same.
Seek(t) ==
    /\ ~Over /\ at[t] = "seek" /\ k[t] < seeks
    /\ \E offset \in Offsets :
        IF offset >= 0 /\ tfd[t]
        THEN /\ seekpos' = [seekpos EXCEPT ![t] = offset]
             /\ pos' = [pos EXCEPT ![t] = offset]
        ELSE seekpos' = [seekpos EXCEPT ![t] = -1] /\ UNCHANGED pos
    /\ Goes(t, "io")
    /\ UNCHANGED <<args, file, mainVars, tfd, k, ios, full, len, fill>>

\* makerandom = 1 is an assignment.
datafill(makerandom) == "random"

\* How far reads and writes can go.
Limit == IF ~writetest \/ file.device THEN len ELSE MaxLen

\* i += endless^1
Increment == IF endless THEN 0 ELSE 1

\* read() or write(): n bytes, none if it fails.
ReadWrite(t) ==
    /\ ~Over /\ at[t] = "io"
    /\ LET most == CHOOSE n \in 0 .. block :
                        /\ n = block \/ pos[t] + n >= Limit
                        /\ n = 0 \/ pos[t] + n <= Limit
       IN  \E n \in IF ~tfd[t] THEN {0} ELSE IF file.faults THEN 0 .. most ELSE {most} :
            /\ pos' = [pos EXCEPT ![t] = @ + n]
            /\ len' = IF writetest /\ n > 0 /\ pos[t] + n > len THEN pos[t] + n ELSE len
            /\ full' = [full EXCEPT ![t] = @ /\ n = block]
            /\ fill' = IF writetest /\ n > 0 THEN fill \cup {datafill(writerandomdata)}
                                             ELSE fill
    /\ ios' = [ios EXCEPT ![t] = IF @ > seeks THEN @ ELSE @ + 1]
    /\ k' = [k EXCEPT ![t] = @ + Increment]
    /\ seekpos' = [seekpos EXCEPT ![t] = 0]
    /\ Goes(t, "seek")
    /\ UNCHANGED <<args, file, mainVars, tfd>>

EndThread(t) ==
    /\ ~Over /\ at[t] = "seek" /\ k[t] >= seeks
    /\ Goes(t, "ended")
    /\ UNCHANGED <<args, file, mainVars, tfd, k, pos, seekpos, ios, full, len, fill>>

-----------------------------------------------------------------------------
Main == getargs \/ OpenFile \/ OpenFails \/ Spawn \/ Join
Thread(t) == OpenTfd(t) \/ Seek(t) \/ ReadWrite(t) \/ EndThread(t)

Next == \/ Main
        \/ \E t \in Threads : Thread(t)
        \/ Over /\ UNCHANGED vars

Spec == Init /\ [][Next]_vars

-----------------------------------------------------------------------------
(* Properties. *)

\* The ranges of the variables.
TypeOK ==
    /\ args \in Args /\ file \in Files
    /\ pc \in {"getargs", "open", "spawn", "join", "done", "exit 1", "crashed"}
    /\ numthreads > 0 => i \in Threads
    /\ size \in Nat /\ len \in 0 .. MaxLen
    /\ at \in [Threads -> {"none", "open", "seek", "io", "ended"}]
    /\ \A t \in Threads : /\ Accepted => k[t] \in 0 .. seeks /\ ios[t] \in 0 .. seeks + 1
                          /\ pos[t] \in 0 .. MaxLen + size /\ seekpos[t] \in -1 .. size
    /\ fill \subseteq {"random", "same"}

\* A size, or a limit for it, that holds a block and that the file has.
Sound == block <= size /\ size <= file.len

\* A block is read or written where the thread has just sought to, since nothing another
\* thread does in between, a delay perhaps, moves its position.  It is aligned as asked, to
\* 2^31 at most.  A thread that seeks inside a file that holds a block never reaches over
\* its end, so that the write test does not make it grow.
IOInside ==
    /\ TypeOK
    /\ Sound /\ pc # "getargs" => len = file.len
    /\ \A t \in Threads : at[t] = "io" /\ seekpos[t] # -1 =>
         /\ pos[t] = seekpos[t]
         /\ Sound => pos[t] + block <= len /\ (align < 32 => pos[t] % 2^align = 0)

\* The number the rate is computed from is right: when main() is done every thread that
\* was created has made its seeks, and if calls do not fail all of whole blocks.  An
\* endless run is never done.
SeeksExact ==
    pc = "done" =>
        /\ endless => \A t \in Threads : at[t] = "none"
        /\ \A t \in Threads : at[t] # "none" =>
             /\ at[t] = "ended" /\ ios[t] = seeks
             /\ Sound /\ ~file.faults => full[t]

\* usage(): "-R Disable use of random data for write test".
FilledAsAsked == "random" \in fill => writerandomdata
=============================================================================

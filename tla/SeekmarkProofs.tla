--------------------------- MODULE SeekmarkProofs ---------------------------
(***************************************************************************)
(* The theorems about seekmark: blocks are read and written where they     *)
(* were sought, and the number the rate is computed from is right, for any *)
(* command line, any file and any number of threads.                       *)
(***************************************************************************)
EXTENDS Seekmark, TLAPS

\* The functions over the threads.
Domains ==
    /\ at \in [Threads -> {"none", "open", "seek", "io", "ended"}]
    /\ tfd \in [Threads -> BOOLEAN] /\ full \in [Threads -> BOOLEAN]
    /\ DOMAIN k = Threads /\ DOMAIN pos = Threads
    /\ DOMAIN seekpos = Threads /\ DOMAIN ios = Threads

\* The loop of a thread: what it has counted is what it has done.
Counts(t) ==
    /\ k[t] \in Nat /\ ios[t] \in Nat
    /\ Accepted => k[t] <= seeks /\ ios[t] <= seeks + 1
    /\ k[t] = IF endless THEN 0 ELSE ios[t]
    /\ at[t] = "io" => k[t] < seeks
    /\ at[t] = "ended" => k[t] >= seeks
    /\ at[t] \in {"none", "open"} => full[t] = TRUE

Multiple(m) == align < 32 => m % 2^align = 0

\* Where a thread is in the file when it is to read or write.
Position(t) ==
    /\ pos[t] \in 0 .. MaxLen + size /\ seekpos[t] \in -1 .. size
    /\ at[t] = "io" /\ seekpos[t] # -1 =>
          /\ pos[t] = seekpos[t] /\ Multiple(pos[t])
          /\ block <= size => pos[t] + block <= size

\* With a sound size every seek in an open file succeeds, and without failing calls nothing
\* is short.
Whole(t) ==
    /\ Sound /\ at[t] = "io" /\ tfd[t] = TRUE => seekpos[t] # -1
    /\ Sound /\ ~file.faults =>
          /\ at[t] \in {"seek", "io"} => tfd[t] = TRUE
          /\ full[t] = TRUE

\* How main() and the threads are related: which have not been created yet, and which have
\* been joined.
MainInv ==
    /\ pc \in {"getargs", "open", "spawn", "join", "done", "exit 1", "crashed"}
    /\ pc \notin {"getargs", "exit 1"} => Accepted
    /\ numthreads > 0 => i \in Threads
    /\ pc \in {"getargs", "open", "exit 1"} =>
          len = file.len /\ \A t \in Threads : at[t] = "none"
    /\ pc \in {"getargs", "open"} => size = 0
    /\ pc = "spawn" => \A t \in Threads : t >= i => at[t] = "none"
    /\ pc = "join" => \A t \in Threads : t < i => at[t] \in {"none", "ended"}
    /\ pc = "done" => \A t \in Threads : at[t] \in {"none", "ended"}

FileInv ==
    /\ size \in Nat /\ len \in 0 .. MaxLen
    /\ Sound => len = file.len
    /\ fill \subseteq {"random", "same"}

SeekInv ==
    /\ args \in Args /\ file \in Files
    /\ Domains /\ MainInv /\ FileInv
    /\ \A t \in Threads : Counts(t) /\ Position(t) /\ Whole(t)

\* What the options are worth.
LEMMA Numbers ==
    ASSUME args \in Args
    PROVE  /\ sizelimit \in Int /\ numthreads \in Int /\ align \in Int /\ seeks \in Int
           /\ block \in Int
  BY ArgsAssumption DEF sizelimit, numthreads, align, seeks, block, Value, Given

LEMMA Accepts ==
    ASSUME args \in Args, Accepted
    PROVE  /\ numthreads >= 1 /\ seeks >= 1 /\ block >= 1 /\ sizelimit >= 0
           /\ align >= 0 /\ 2^(align % 32) \in Nat \ {0}
<1>1. /\ sizelimit >= 0 /\ numthreads >= 1 /\ seeks >= 1 /\ block \in 1 .. MaxBlock
      /\ Given("a") => align >= 1
  BY DEF Accepted
<1>2. align >= 0 /\ 2^(align % 32) \in Nat \ {0}
  <2>1. CASE Given("a")
    <3>1. align = args["a"] /\ args["a"] >= 0
      BY <1>1, <2>1, Numbers DEF align, Value
    <3> QED
      BY <2>1, <3>1, PowersAssumption DEF Given
  <2>2. CASE ~Given("a")
    <3>1. align = 0
      BY <2>2 DEF align, Value
    <3>2. 2^0 \in Nat \ {0}
      OBVIOUS
    <3>3. align % 32 = 0 /\ align >= 0
      BY <3>1
    <3> QED
      BY <3>2, <3>3
  <2> QED
    BY <2>1, <2>2
<1> QED
  BY <1>1, <1>2, BoundsAssumption

LEMMA OptionsStay ==
    ASSUME args' = args
    PROVE  /\ sizelimit' = sizelimit /\ numthreads' = numthreads /\ align' = align
           /\ seeks' = seeks /\ block' = block /\ endless' = endless
           /\ Threads' = Threads /\ Accepted' = Accepted /\ writetest' = writetest
  BY DEF sizelimit, numthreads, align, seeks, block, endless, Threads, Accepted, writetest,
         Value, Given

\* Rounding down to a multiple.
LEMMA Rounding ==
    ASSUME NEW s \in Nat \ {0}, NEW m \in Int
    PROVE  /\ (m \div s) * s \in Int /\ (m \div s) * s <= m
           /\ m >= 0 => (m \div s) * s >= 0
           /\ ((m \div s) * s) % s = 0
<1>1. (m \div s) * s \in Int /\ m \div s \in Int
  OBVIOUS
<1>2. (m \div s) * s <= m
  OBVIOUS
<1>3. m >= 0 => (m \div s) * s >= 0
  OBVIOUS
<1>4. \A q \in Int : (q * s) % s = 0
  OBVIOUS
<1> QED
  BY <1>1, <1>2, <1>3, <1>4

\* The offsets sought are aligned and leave room for a block, and if there is room at all
\* they are no errors.
LEMMA OffsetsInside ==
    ASSUME args \in Args, Accepted, size \in Nat, NEW offset \in Offsets
    PROVE  /\ offset \in Int /\ offset <= size /\ Multiple(offset)
           /\ block <= size => offset >= 0 /\ offset + block <= size
<1>1. PICK n \in 0 .. size : offset \in Align(Clamp(n))
  BY DEF Offsets
<1> DEFINE c == Clamp(n)
           w == 2^(align % 32)
<1>2. block \in Int /\ block >= 1 /\ align \in Int /\ align >= 0 /\ w \in Nat \ {0}
  BY Numbers, Accepts
<1>3. c \in Int /\ c + block <= size /\ (block <= size => c >= 0)
  BY <1>2 DEF Clamp
<1>4. offset = (c \div w) * w \/ (align >= 32 /\ offset = 0)
  BY <1>1, <1>2 DEF Align
<1>5. CASE offset = (c \div w) * w
  <2>1. /\ offset \in Int /\ offset <= c /\ (c >= 0 => offset >= 0) /\ offset % w = 0
    <3> HIDE DEF c, w
    <3> QED
      BY <1>2, <1>3, <1>5, Rounding
  <2>2. align < 32 => align % 32 = align
    BY <1>2
  <2>3. Multiple(offset)
    BY <2>1, <2>2 DEF Multiple
  <2> HIDE DEF c
  <2> QED
    BY <1>2, <1>3, <2>1, <2>3
<1>6. CASE align >= 32 /\ offset = 0
  BY <1>2, <1>6 DEF Multiple
<1> QED
  BY <1>4, <1>5, <1>6

LEMMA SeekInitInv == Init => SeekInv
<1> SUFFICES ASSUME Init PROVE SeekInv
  OBVIOUS
<1>1. /\ args \in Args /\ file \in Files /\ pc = "getargs" /\ i = 0 /\ size = 0
      /\ len = file.len /\ fill = {}
      /\ at = [t \in Threads |-> "none"] /\ tfd = [t \in Threads |-> FALSE]
      /\ k = [t \in Threads |-> 0] /\ pos = k /\ seekpos = k /\ ios = k
      /\ full = [t \in Threads |-> TRUE]
  BY DEF Init
<1>2. len \in 0 .. MaxLen /\ MaxLen \in Nat
  BY <1>1, FilesAssumption, BoundsAssumption
<1>3. Domains
  BY <1>1 DEF Domains
<1>4. MainInv
  <2>1. numthreads > 0 => i \in Threads
    BY <1>1, Numbers DEF Threads
  <2> QED
    BY <1>1, <2>1 DEF MainInv
<1>5. FileInv
  BY <1>1, <1>2 DEF FileInv
<1>6. ASSUME NEW t \in Threads PROVE Counts(t) /\ Position(t) /\ Whole(t)
  <2>1. k[t] = 0 /\ ios[t] = 0 /\ pos[t] = 0 /\ seekpos[t] = 0 /\ at[t] = "none" /\ full[t] = TRUE
    BY <1>1
  <2>2. Counts(t)
    <3>1. Accepted => seeks \in Int /\ seeks >= 1
      BY <1>1, Numbers, Accepts
    <3> QED
      BY <2>1, <3>1 DEF Counts
  <2>3. Position(t)
    BY <1>1, <1>2, <2>1 DEF Position
  <2>4. Whole(t)
    BY <2>1 DEF Whole
  <2> QED
    BY <2>2, <2>3, <2>4
<1> QED
  BY <1>1, <1>3, <1>4, <1>5, <1>6 DEF SeekInv

\* A step of main() that leaves the threads alone.
LEMMA StepOfMain ==
    ASSUME SeekInv, args' = args, file' = file, UNCHANGED threadVars, len' = len,
           fill' = fill, size' = size, MainInv'
    PROVE  SeekInv'
<1>1. /\ at' = at /\ tfd' = tfd /\ k' = k /\ pos' = pos /\ seekpos' = seekpos
      /\ ios' = ios /\ full' = full
  BY DEF threadVars
<1>2. Sound' = Sound
  BY OptionsStay DEF Sound
<1>3. Domains'
  BY <1>1, OptionsStay DEF SeekInv, Domains
<1>4. FileInv'
  BY <1>2 DEF SeekInv, FileInv
<1>5. ASSUME NEW t \in Threads PROVE Counts(t)' /\ Position(t)' /\ Whole(t)'
  <2>1. Counts(t) /\ Position(t) /\ Whole(t)
    BY DEF SeekInv
  <2>2. Counts(t)'
    BY <1>1, <2>1, OptionsStay DEF Counts
  <2>3. Position(t)'
    BY <1>1, <2>1, OptionsStay DEF Position, Multiple
  <2>4. Whole(t)'
    BY <1>1, <1>2, <2>1 DEF Whole
  <2> QED
    BY <2>2, <2>3, <2>4
<1> QED
  BY <1>3, <1>4, <1>5, OptionsStay DEF SeekInv

\* A step of thread t changes only what is its own, and the file.
OfOthers(t) ==
    \A u \in Threads \ {t} :
        /\ at'[u] = at[u] /\ tfd'[u] = tfd[u] /\ k'[u] = k[u] /\ pos'[u] = pos[u]
        /\ seekpos'[u] = seekpos[u] /\ ios'[u] = ios[u] /\ full'[u] = full[u]

LEMMA StepOfThread ==
    ASSUME SeekInv, NEW t \in Threads, args' = args, file' = file, UNCHANGED mainVars,
           ~Over, at[t] \in {"open", "seek", "io"}, at'[t] \in {"seek", "io", "ended"},
           Domains', OfOthers(t), FileInv',
           Counts(t)' /\ Position(t)' /\ Whole(t)'
    PROVE  SeekInv'
<1>1. pc' = pc /\ i' = i /\ size' = size
  BY DEF mainVars
<1>2. Sound' = Sound
  BY <1>1, OptionsStay DEF Sound
<1>3. ASSUME NEW u \in Threads PROVE Counts(u)' /\ Position(u)' /\ Whole(u)'
  <2>1. CASE u = t
    BY <2>1
  <2>2. CASE u # t
    <3>1. Counts(u) /\ Position(u) /\ Whole(u)
      BY DEF SeekInv
    <3>2. /\ at'[u] = at[u] /\ tfd'[u] = tfd[u] /\ k'[u] = k[u] /\ pos'[u] = pos[u]
          /\ seekpos'[u] = seekpos[u] /\ ios'[u] = ios[u] /\ full'[u] = full[u]
      BY <2>2 DEF OfOthers
    <3>3. Counts(u)'
      BY <3>1, <3>2, OptionsStay DEF Counts
    <3>4. Position(u)'
      BY <1>1, <3>1, <3>2, OptionsStay DEF Position, Multiple
    <3>5. Whole(u)'
      BY <1>2, <3>1, <3>2 DEF Whole
    <3> QED
      BY <3>3, <3>4, <3>5
  <2> QED
    BY <2>1, <2>2
<1>4. MainInv'
  <2>1. MainInv
    BY DEF SeekInv
  <2>2. pc \in {"spawn", "join"}
    BY <2>1 DEF MainInv, Over
  <2>3. \A u \in Threads \ {t} : at'[u] = at[u]
    BY DEF OfOthers
  <2>4. pc = "spawn" => \A u \in Threads : u >= i => at'[u] = "none"
    BY <2>1, <2>3 DEF MainInv
  <2>5. pc = "join" => \A u \in Threads : u < i => at'[u] \in {"none", "ended"}
    BY <2>1, <2>3 DEF MainInv
  <2> QED
    BY <1>1, <2>1, <2>2, <2>4, <2>5, OptionsStay DEF MainInv
<1> QED
  BY <1>3, <1>4, OptionsStay DEF SeekInv

LEMMA MainStepInv == SeekInv /\ Main => SeekInv'
<1> SUFFICES ASSUME SeekInv, Main PROVE SeekInv'
  OBVIOUS
<1>0. /\ MainInv /\ FileInv /\ Domains /\ args \in Args /\ numthreads \in Int
  BY Numbers DEF SeekInv
<1>1. CASE getargs
  <2>1. /\ pc' = IF Accepted THEN "open" ELSE "exit 1"
        /\ pc = "getargs" /\ args' = args /\ file' = file /\ i' = i /\ size' = size /\ len' = len
        /\ at' = at
    BY <1>1 DEF getargs, threadVars
  <2>2. MainInv'
    BY <1>0, <2>1, OptionsStay DEF MainInv
  <2> QED
    BY <1>1, <2>2, StepOfMain DEF getargs
<1>2. CASE OpenFails
  <2>1. MainInv'
    BY <1>0, <1>2, OptionsStay DEF OpenFails, MainInv, threadVars
  <2> QED
    BY <1>2, <2>1, StepOfMain DEF OpenFails
<1>3. CASE OpenFile
  <2>1. /\ pc = "open" /\ pc' = "spawn" /\ args' = args /\ file' = file /\ i' = i
        /\ size' = IF sizelimit > 0 THEN sizelimit ELSE len
        /\ UNCHANGED threadVars /\ len' = len /\ fill' = fill
    BY <1>3 DEF OpenFile
  <2>2. /\ at' = at /\ tfd' = tfd /\ k' = k /\ pos' = pos /\ seekpos' = seekpos
        /\ ios' = ios /\ full' = full
    BY <2>1 DEF threadVars
  <2>3. len \in Nat /\ size' \in Nat /\ size = 0 /\ len = file.len /\ MaxLen \in Nat
    BY <1>0, <2>1, Numbers, BoundsAssumption DEF MainInv, FileInv
  <2>4. MainInv'
    BY <1>0, <2>1, <2>2, OptionsStay DEF MainInv
  <2>5. FileInv'
    BY <1>0, <2>1, <2>3 DEF FileInv
  <2>6. ASSUME NEW t \in Threads PROVE Counts(t)' /\ Position(t)' /\ Whole(t)'
    <3>1. Counts(t) /\ Position(t) /\ Whole(t) /\ at[t] = "none"
      BY <1>0, <2>1 DEF SeekInv, MainInv
    <3>2. Counts(t)'
      BY <2>1, <2>2, <3>1, OptionsStay DEF Counts
    <3>3. Position(t)'
      <4>1. pos[t] \in 0 .. MaxLen /\ seekpos[t] \in -1 .. 0
        BY <2>3, <3>1 DEF Position
      <4> QED
        BY <2>2, <2>3, <3>1, <4>1 DEF Position
    <3>4. Whole(t)'
      <4>1. full[t] = TRUE
        BY <3>1 DEF Counts
      <4> QED
        BY <2>2, <3>1, <4>1 DEF Whole
    <3> QED
      BY <3>2, <3>3, <3>4
  <2>7. Domains'
    BY <1>0, <2>1, <2>2, OptionsStay DEF Domains
  <2> QED
    BY <2>1, <2>4, <2>5, <2>6, <2>7, OptionsStay DEF SeekInv
<1>4. CASE Spawn
  <2>1. /\ pc = "spawn" /\ NextThread("spawn", "join") /\ args' = args /\ file' = file
        /\ size' = size /\ tfd' = tfd /\ k' = k /\ pos' = pos /\ seekpos' = seekpos
        /\ ios' = ios /\ full' = full /\ len' = len /\ fill' = fill
        /\ at' = [at EXCEPT ![i] = "open"] \/ at' = at
    BY <1>4 DEF Spawn
  <2>2. i \in Threads /\ at[i] = "none" /\ Accepted
    <3>1. Accepted /\ numthreads >= 1
      BY <1>0, <2>1, Accepts DEF MainInv
    <3>2. i \in Threads
      <4>1. numthreads > 0
        BY <1>0, <3>1
      <4> QED
        BY <1>0, <4>1 DEF MainInv
    <3>3. i >= i
      BY <3>2 DEF Threads
    <3> QED
      BY <1>0, <2>1, <3>1, <3>2, <3>3 DEF MainInv
  <2>3. /\ \A t \in Threads \ {i} : at'[t] = at[t]
        /\ at'[i] \in {"none", "open"}
        /\ at' \in [Threads -> {"none", "open", "seek", "io", "ended"}]
    BY <1>0, <2>1, <2>2 DEF Domains
  <2>4. Sound' = Sound
    BY <2>1, OptionsStay DEF Sound
  <2>5. ASSUME NEW t \in Threads PROVE Counts(t)' /\ Position(t)' /\ Whole(t)'
    <3>1. Counts(t) /\ Position(t) /\ Whole(t)
      BY DEF SeekInv
    <3>2. at'[t] = at[t] \/ (at[t] = "none" /\ at'[t] \in {"none", "open"})
      BY <2>2, <2>3
    <3>3. Counts(t)'
      BY <2>1, <3>1, <3>2, OptionsStay DEF Counts
    <3>4. Position(t)'
      BY <2>1, <3>1, <3>2, OptionsStay DEF Position, Multiple
    <3>5. Whole(t)'
      BY <2>1, <2>4, <3>1, <3>2 DEF Whole
    <3> QED
      BY <3>3, <3>4, <3>5
  <2>6. MainInv'
    <3>1. \A t \in Threads : t >= i + 1 => at'[t] = "none"
      <4>1. ASSUME NEW t \in Threads, t >= i + 1 PROVE at'[t] = "none"
        <5>1. t # i /\ t >= i
          BY <2>2, <4>1 DEF Threads
        <5> QED
          BY <1>0, <2>1, <2>3, <5>1 DEF MainInv
      <4> QED
        BY <4>1
    <3>2. CASE i + 1 = numthreads
      <4>1. pc' = "join" /\ i' = 0
        BY <2>1, <3>2 DEF NextThread
      <4>2. \A t \in Threads : ~(t < 0) /\ 0 \in Threads
        BY <1>0, <2>2 DEF Threads
      <4> QED
        BY <2>1, <2>2, <4>1, <4>2, OptionsStay DEF MainInv
    <3>3. CASE i + 1 # numthreads
      <4>1. pc' = "spawn" /\ i' = i + 1
        BY <2>1, <3>3 DEF NextThread
      <4>2. i + 1 \in Threads
        BY <1>0, <2>2, <3>3 DEF Threads
      <4> QED
        BY <2>1, <2>2, <3>1, <4>1, <4>2, OptionsStay DEF MainInv
    <3> QED
      BY <3>2, <3>3
  <2>7. Domains' /\ FileInv'
    BY <1>0, <2>1, <2>3, <2>4, OptionsStay DEF Domains, FileInv
  <2> QED
    BY <1>0, <2>1, <2>5, <2>6, <2>7, OptionsStay DEF SeekInv
<1>5. CASE Join
  <2>1. /\ pc = "join" /\ args' = args /\ file' = file /\ size' = size
        /\ UNCHANGED threadVars /\ len' = len /\ fill' = fill
        /\ \/ at[i] \in {"none", "ended"} /\ NextThread("join", "done")
           \/ pc' = "crashed" /\ i' = i
    BY <1>5 DEF Join
  <2>2. at' = at
    BY <2>1 DEF threadVars
  <2>3. Accepted /\ i \in Threads
    BY <1>0, <2>1, Accepts DEF MainInv
  <2>4. MainInv'
    <3>1. CASE pc' = "crashed" /\ i' = i
      BY <2>1, <2>3, <3>1, OptionsStay DEF MainInv
    <3>2. CASE at[i] \in {"none", "ended"} /\ NextThread("join", "done")
      <4>1. \A t \in Threads : t <= i => at[t] \in {"none", "ended"}
        <5>1. ASSUME NEW t \in Threads, t <= i PROVE at[t] \in {"none", "ended"}
          <6>1. t = i \/ t < i
            BY <2>3, <5>1 DEF Threads
          <6> QED
            BY <1>0, <2>1, <3>2, <6>1 DEF MainInv
        <5> QED
          BY <5>1
      <4>2. CASE i + 1 = numthreads
        <5>1. pc' = "done" /\ i' = 0
          BY <3>2, <4>2 DEF NextThread
        <5>2. 0 \in Threads /\ \A t \in Threads : t <= i
          BY <1>0, <2>3, <4>2 DEF Threads
        <5> QED
          BY <2>1, <2>2, <2>3, <4>1, <5>1, <5>2, OptionsStay DEF MainInv
      <4>3. CASE i + 1 # numthreads
        <5>1. pc' = "join" /\ i' = i + 1
          BY <3>2, <4>3 DEF NextThread
        <5>2. i + 1 \in Threads /\ \A t \in Threads : t < i + 1 => t <= i
          BY <1>0, <2>3, <4>3 DEF Threads
        <5> QED
          BY <2>1, <2>2, <2>3, <4>1, <5>1, <5>2, OptionsStay DEF MainInv
      <4> QED
        BY <4>2, <4>3
    <3> QED
      BY <2>1, <3>1, <3>2
  <2> QED
    BY <2>1, <2>4, StepOfMain
<1> QED
  BY <1>1, <1>2, <1>3, <1>4, <1>5 DEF Main

LEMMA ThreadStepInv ==
    ASSUME SeekInv, NEW t \in Threads, Thread(t)
    PROVE  SeekInv'
<1>0. /\ MainInv /\ FileInv /\ Domains /\ args \in Args /\ file \in Files
      /\ Counts(t) /\ Position(t) /\ Whole(t)
  BY DEF SeekInv
<1>1. /\ ~Over /\ at[t] \in {"open", "seek", "io"}
      /\ args' = args /\ file' = file /\ UNCHANGED mainVars
  BY DEF Thread, OpenTfd, Seek, ReadWrite, EndThread
<1>2. Accepted
  BY <1>0, <1>1 DEF MainInv, Over
<1>3. /\ seeks \in Int /\ seeks >= 1 /\ block \in Int /\ block >= 1
      /\ size \in Nat /\ MaxLen \in Nat /\ len \in 0 .. MaxLen
  BY <1>0, <1>2, Numbers, Accepts, BoundsAssumption DEF FileInv
<1>4. size' = size /\ Sound' = Sound
  BY <1>1, OptionsStay DEF mainVars, Sound
<1>5. CASE OpenTfd(t)
  <2>1. /\ at[t] = "open" /\ at' = [at EXCEPT ![t] = "seek"]
        /\ k' = k /\ pos' = pos /\ seekpos' = seekpos /\ ios' = ios /\ full' = full
        /\ len' = len /\ fill' = fill
    BY <1>5 DEF OpenTfd, Goes
  <2>2. PICK ok \in {TRUE, ~file.faults} : tfd' = [tfd EXCEPT ![t] = ok]
    BY <1>5 DEF OpenTfd
  <2>3. at'[t] = "seek" /\ tfd'[t] = ok /\ Domains' /\ OfOthers(t)
    BY <1>0, <1>1, <2>1, <2>2, OptionsStay DEF Domains, OfOthers
  <2>4. FileInv'
    BY <1>0, <1>1, <1>4, <2>1 DEF FileInv
  <2>5. Counts(t)'
    BY <1>0, <1>1, <2>1, <2>3, OptionsStay DEF Counts
  <2>6. Position(t)'
    BY <1>0, <1>1, <1>4, <2>1, <2>3, OptionsStay DEF Position, Multiple
  <2>7. Whole(t)'
    <3>1. ~file.faults => ok = TRUE
      BY <2>2
    <3> QED
      BY <1>0, <1>1, <1>4, <2>1, <2>3, <3>1 DEF Whole
  <2> QED
    BY <1>1, <2>3, <2>4, <2>5, <2>6, <2>7, StepOfThread
<1>6. CASE Seek(t)
  <2>1. /\ at[t] = "seek" /\ k[t] < seeks /\ at' = [at EXCEPT ![t] = "io"]
        /\ tfd' = tfd /\ k' = k /\ ios' = ios /\ full' = full /\ len' = len /\ fill' = fill
    BY <1>6 DEF Seek, Goes
  <2>2. PICK offset \in Offsets :
          IF offset >= 0 /\ tfd[t]
          THEN /\ seekpos' = [seekpos EXCEPT ![t] = offset]
               /\ pos' = [pos EXCEPT ![t] = offset]
          ELSE seekpos' = [seekpos EXCEPT ![t] = -1] /\ pos' = pos
    BY <1>6 DEF Seek
  <2>3. /\ offset \in Int /\ offset <= size /\ Multiple(offset)
        /\ block <= size => offset >= 0 /\ offset + block <= size
    BY <1>0, <1>2, <1>3, OffsetsInside
  <2>4. CASE offset >= 0 /\ tfd[t]
    <3>1. /\ at'[t] = "io" /\ seekpos'[t] = offset /\ pos'[t] = offset
          /\ Domains' /\ OfOthers(t)
      BY <1>0, <1>1, <2>1, <2>2, <2>4, OptionsStay DEF Domains, OfOthers
    <3>2. FileInv'
      BY <1>0, <1>1, <1>4, <2>1 DEF FileInv
    <3>3. Counts(t)'
      BY <1>0, <1>1, <2>1, <3>1, OptionsStay DEF Counts
    <3>4. Position(t)'
      <4>1. offset \in 0 .. MaxLen + size /\ offset \in -1 .. size
        BY <1>3, <2>3, <2>4
      <4> QED
        BY <1>1, <1>4, <2>3, <3>1, <4>1, OptionsStay DEF Position, Multiple
    <3>5. Whole(t)'
      <4>1. offset # -1
        BY <2>3, <2>4
      <4> QED
        BY <1>0, <1>1, <1>4, <2>1, <3>1, <4>1 DEF Whole
    <3> QED
      BY <1>1, <3>1, <3>2, <3>3, <3>4, <3>5, StepOfThread
  <2>5. CASE ~(offset >= 0 /\ tfd[t])
    <3>1. /\ at'[t] = "io" /\ seekpos'[t] = -1 /\ pos' = pos
          /\ Domains' /\ OfOthers(t)
      BY <1>0, <1>1, <2>1, <2>2, <2>5, OptionsStay DEF Domains, OfOthers
    <3>2. FileInv'
      BY <1>0, <1>1, <1>4, <2>1 DEF FileInv
    <3>3. Counts(t)'
      BY <1>0, <1>1, <2>1, <3>1, OptionsStay DEF Counts
    <3>4. Position(t)'
      <4>1. -1 \in -1 .. size
        BY <1>3
      <4> QED
        BY <1>0, <1>1, <1>4, <3>1, <4>1, OptionsStay DEF Position, Multiple
    <3>5. Whole(t)'
      <4>1. Sound => offset >= 0
        BY <2>3 DEF Sound
      <4>2. Sound /\ ~file.faults => tfd[t] = TRUE
        BY <1>0, <2>1 DEF Whole
      <4>3. Sound => tfd[t] # TRUE
        BY <2>5, <4>1
      <4> QED
        BY <1>1, <1>4, <2>1, <4>2, <4>3 DEF Whole
    <3> QED
      BY <1>1, <3>1, <3>2, <3>3, <3>4, <3>5, StepOfThread
  <2> QED
    BY <2>4, <2>5
<1>7. CASE EndThread(t)
  <2>1. /\ at[t] = "seek" /\ k[t] >= seeks /\ at' = [at EXCEPT ![t] = "ended"]
        /\ tfd' = tfd /\ k' = k /\ pos' = pos /\ seekpos' = seekpos /\ ios' = ios
        /\ full' = full /\ len' = len /\ fill' = fill
    BY <1>7 DEF EndThread, Goes
  <2>2. at'[t] = "ended" /\ Domains' /\ OfOthers(t)
    BY <1>0, <1>1, <2>1, OptionsStay DEF Domains, OfOthers
  <2>3. FileInv'
    BY <1>0, <1>1, <1>4, <2>1 DEF FileInv
  <2>4. Counts(t)'
    BY <1>0, <1>1, <2>1, <2>2, OptionsStay DEF Counts
  <2>5. Position(t)'
    BY <1>0, <1>1, <1>4, <2>1, <2>2, OptionsStay DEF Position, Multiple
  <2>6. Whole(t)'
    BY <1>0, <1>1, <1>4, <2>1, <2>2 DEF Whole
  <2> QED
    BY <1>1, <2>2, <2>3, <2>4, <2>5, <2>6, StepOfThread
<1>8. CASE ReadWrite(t)
  <2> DEFINE Right(n) == /\ n = block \/ pos[t] + n >= Limit
                         /\ n = 0 \/ pos[t] + n <= Limit
             most == CHOOSE n \in 0 .. block : Right(n)
  <2>1. /\ at[t] = "io" /\ at' = [at EXCEPT ![t] = "seek"] /\ tfd' = tfd
        /\ k' = [k EXCEPT ![t] = @ + Increment] /\ seekpos' = [seekpos EXCEPT ![t] = 0]
        /\ ios' = [ios EXCEPT ![t] = IF @ > seeks THEN @ ELSE @ + 1]
    BY <1>8 DEF ReadWrite, Goes
  <2>2. PICK n \in IF ~tfd[t] THEN {0} ELSE IF file.faults THEN 0 .. most ELSE {most} :
          /\ pos' = [pos EXCEPT ![t] = @ + n]
          /\ len' = IF writetest /\ n > 0 /\ pos[t] + n > len THEN pos[t] + n ELSE len
          /\ full' = [full EXCEPT ![t] = @ /\ n = block]
          /\ fill' = IF writetest /\ n > 0 THEN fill \cup {datafill(writerandomdata)}
                                           ELSE fill
    BY <1>8 DEF ReadWrite
  <2>3. pos[t] \in 0 .. MaxLen + size /\ Limit \in Nat /\ len <= Limit /\ Limit <= MaxLen
    BY <1>0, <1>3 DEF Position, Limit
  <2>4. most \in 0 .. block /\ Right(most)
    <3>1. \E m \in 0 .. block : Right(m)
      <4>1. CASE pos[t] >= Limit
        BY <1>3, <2>3, <4>1
      <4>2. CASE pos[t] + block <= Limit
        BY <1>3, <2>3, <4>2
      <4>3. CASE pos[t] < Limit /\ pos[t] + block > Limit
        <5>1. Limit - pos[t] \in 0 .. block /\ Right(Limit - pos[t])
          BY <1>3, <2>3, <4>3
        <5> QED
          BY <5>1
      <4> QED
        BY <1>3, <2>3, <4>1, <4>2, <4>3
    <3> HIDE DEF Right
    <3> QED
      BY <3>1
  <2>5. n \in 0 .. block /\ (n > 0 => pos[t] + n <= Limit /\ tfd[t] = TRUE)
    <3> HIDE DEF most
    <3>1. tfd[t] \in BOOLEAN
      BY <1>0 DEF Domains
    <3>2. n = 0 \/ (tfd[t] = TRUE /\ n \in 0 .. most)
      BY <2>2, <2>4, <3>1
    <3> QED
      BY <1>3, <2>3, <2>4, <3>2
  <2> HIDE DEF most
  <2>6. pos[t] + n \in 0 .. MaxLen + size
    BY <1>3, <2>3, <2>5
  <2>7. /\ at'[t] = "seek" /\ tfd'[t] = tfd[t] /\ k'[t] = k[t] + Increment
        /\ seekpos'[t] = 0 /\ ios'[t] = (IF ios[t] > seeks THEN ios[t] ELSE ios[t] + 1)
        /\ pos'[t] = pos[t] + n
    BY <1>0, <2>1, <2>2 DEF Domains
  <2>8. Domains' /\ OfOthers(t)
    <3>1. full' \in [Threads -> BOOLEAN]
      BY <1>0, <2>2 DEF Domains
    <3> QED
      BY <1>0, <1>1, <2>1, <2>2, <3>1, OptionsStay DEF Domains, OfOthers
  <2>9. Sound /\ n > 0 => pos[t] + block <= size /\ size <= len
    <3>1. Sound /\ n > 0 => seekpos[t] # -1
      BY <1>0, <2>1, <2>5 DEF Whole
    <3>2. Sound => size <= len
      BY <1>0 DEF FileInv, Sound
    <3> QED
      BY <1>0, <2>1, <3>1, <3>2 DEF Position, Sound
  <2>10. FileInv'
    <3>1. len' \in 0 .. MaxLen
      BY <1>3, <2>2, <2>3, <2>5, <2>6
    <3>2. Sound => len' = len
      BY <1>3, <2>2, <2>3, <2>5, <2>9
    <3>3. fill' \subseteq {"random", "same"}
      BY <1>0, <2>2 DEF FileInv, datafill
    <3> QED
      BY <1>0, <1>1, <1>4, <3>1, <3>2, <3>3 DEF FileInv
  <2>11. Counts(t)'
    <3>1. /\ k[t] \in Nat /\ ios[t] \in Nat /\ ios[t] <= seeks + 1 /\ k[t] < seeks
          /\ k[t] = IF endless THEN 0 ELSE ios[t]
      BY <1>0, <1>2, <2>1 DEF Counts
    <3>2. CASE endless
      <4>1. k'[t] = 0 /\ ios'[t] \in Nat /\ ios'[t] <= seeks + 1
        BY <1>3, <2>7, <3>1, <3>2 DEF Increment
      <4> QED
        BY <1>1, <1>3, <2>7, <3>2, <4>1, OptionsStay DEF Counts
    <3>3. CASE ~endless
      <4>1. k'[t] = ios'[t] /\ ios'[t] \in Nat /\ ios'[t] <= seeks
        BY <1>3, <2>7, <3>1, <3>3 DEF Increment
      <4> QED
        BY <1>1, <1>3, <2>7, <3>3, <4>1, OptionsStay DEF Counts
    <3> QED
      BY <3>2, <3>3
  <2>12. Position(t)'
    <3>1. 0 \in -1 .. size
      BY <1>3
    <3> QED
      BY <1>1, <1>4, <2>6, <2>7, <3>1, OptionsStay DEF Position, Multiple
  <2>13. Whole(t)'
    <3>1. ASSUME Sound, ~file.faults PROVE full'[t] = TRUE /\ tfd[t] = TRUE
      <4>1. full[t] = TRUE /\ tfd[t] = TRUE
        BY <1>0, <2>1, <3>1 DEF Whole
      <4>2. n = most
        BY <2>2, <3>1, <4>1
      <4>3. seekpos[t] # -1
        BY <1>0, <2>1, <3>1, <4>1 DEF Whole
      <4>4. pos[t] + block <= size /\ size <= len
        BY <1>0, <2>1, <3>1, <4>3 DEF Position, FileInv, Sound
      <4>5. n = block
        BY <1>3, <2>3, <2>4, <4>2, <4>4
      <4> QED
        BY <1>0, <2>2, <4>1, <4>5 DEF Domains
    <3> QED
      BY <1>1, <1>4, <2>7, <3>1 DEF Whole
  <2> QED
    BY <1>1, <2>1, <2>7, <2>8, <2>10, <2>11, <2>12, <2>13, StepOfThread
<1> QED
  BY <1>5, <1>6, <1>7, <1>8 DEF Thread
LEMMA SeekStepInv == SeekInv /\ [Next]_vars => SeekInv'
<1> SUFFICES ASSUME SeekInv, [Next]_vars PROVE SeekInv'
  OBVIOUS
<1>1. CASE Main
  BY <1>1, MainStepInv
<1>2. CASE \E t \in Threads : Thread(t)
  BY <1>2, ThreadStepInv
<1>3. CASE UNCHANGED vars
  <2>1. /\ args' = args /\ file' = file /\ UNCHANGED threadVars /\ len' = len /\ fill' = fill
        /\ pc' = pc /\ i' = i /\ size' = size /\ at' = at
    BY <1>3 DEF vars, mainVars, threadVars
  <2>2. MainInv
    BY DEF SeekInv
  <2>3. MainInv'
    BY <2>1, <2>2, OptionsStay DEF MainInv
  <2> QED
    BY <2>1, <2>3, StepOfMain
<1> QED
  BY <1>1, <1>2, <1>3 DEF Next

LEMMA Invariance == Spec => []SeekInv
  BY SeekInitInv, SeekStepInv, PTL DEF Spec

LEMMA Types == SeekInv => TypeOK
<1> SUFFICES ASSUME SeekInv PROVE TypeOK
  OBVIOUS
<1>1. MainInv /\ FileInv /\ Domains /\ args \in Args /\ file \in Files
  BY DEF SeekInv
<1>2. ASSUME NEW t \in Threads
      PROVE  /\ Accepted => k[t] \in 0 .. seeks /\ ios[t] \in 0 .. seeks + 1
             /\ pos[t] \in 0 .. MaxLen + size /\ seekpos[t] \in -1 .. size
  <2>1. Counts(t) /\ Position(t)
    BY DEF SeekInv
  <2>2. seeks \in Int
    BY <1>1, Numbers
  <2>3. Accepted => k[t] \in 0 .. seeks /\ ios[t] \in 0 .. seeks + 1
    BY <2>1, <2>2 DEF Counts
  <2> QED
    BY <2>1, <2>3 DEF Position
<1>3. at \in [Threads -> {"none", "open", "seek", "io", "ended"}]
  BY <1>1 DEF Domains
<1> QED
  BY <1>1, <1>2, <1>3 DEF TypeOK, MainInv, FileInv

\* A block is read or written where the thread has just sought to; inside a file that holds
\* a block it never reaches over the end, so that the write test does not make it grow; and the block is aligned as asked, but for -a of
\* 32 and more, for which no C program has to do anything in particular.
THEOREM IOInsideAlways == Spec => []IOInside
<1>1. SeekInv => IOInside
  <2> SUFFICES ASSUME SeekInv PROVE IOInside
    OBVIOUS
  <2>1. TypeOK
    BY Types
  <2>2. FileInv
    BY DEF SeekInv
  <2>3. Sound => len = file.len /\ size <= len
    BY <2>2 DEF FileInv, Sound
  <2>4. ASSUME NEW t \in Threads, at[t] = "io", seekpos[t] # -1
        PROVE  pos[t] = seekpos[t] /\ (Sound => pos[t] + block <= len /\ (align < 32 => pos[t] % 2^align = 0))
    <3>1. Position(t)
      BY DEF SeekInv
    <3>2. /\ pos[t] \in Int /\ size \in Int /\ len \in Int /\ block \in Int
          /\ block <= size => pos[t] + block <= size
          /\ pos[t] = seekpos[t] /\ Multiple(pos[t])
      BY <2>2, <2>4, <3>1, Numbers DEF Position, FileInv, SeekInv
    <3> QED
      BY <2>3, <3>2 DEF Sound, Multiple
  <2> QED
    BY <2>1, <2>3, <2>4 DEF IOInside
<1> QED
  BY <1>1, Invariance, PTL

\* When main() is done every thread that was created has made its seeks, and an endless run
\* is never done.
THEOREM SeeksExactAlways == Spec => []SeeksExact
<1>1. SeekInv => SeeksExact
  <2> SUFFICES ASSUME SeekInv, pc = "done" PROVE
        /\ endless => \A t \in Threads : at[t] = "none"
        /\ \A t \in Threads : at[t] # "none" =>
             /\ at[t] = "ended" /\ ios[t] = seeks
             /\ Sound /\ ~file.faults => full[t]
    BY DEF SeeksExact
  <2>1. MainInv /\ args \in Args
    BY DEF SeekInv
  <2>2. Accepted /\ seeks \in Int /\ seeks >= 1
    BY <2>1, Numbers, Accepts DEF MainInv
  <2>3. ASSUME NEW t \in Threads, at[t] # "none"
        PROVE  /\ ~endless /\ at[t] = "ended" /\ ios[t] = seeks
               /\ Sound /\ ~file.faults => full[t] = TRUE
    <3>1. Counts(t) /\ Whole(t)
      BY DEF SeekInv
    <3>2. at[t] = "ended"
      BY <2>1, <2>3 DEF MainInv
    <3>3. /\ k[t] \in Nat /\ ios[t] \in Nat /\ k[t] <= seeks /\ k[t] >= seeks
          /\ k[t] = IF endless THEN 0 ELSE ios[t]
      BY <2>2, <3>1, <3>2 DEF Counts
    <3>4. ~endless /\ ios[t] = seeks
      BY <2>2, <3>3
    <3>5. Sound /\ ~file.faults => full[t] = TRUE
      BY <3>1 DEF Whole
    <3> QED
      BY <3>2, <3>4, <3>5
  <2> QED
    BY <2>3
<1> QED
  BY <1>1, Invariance, PTL
=============================================================================

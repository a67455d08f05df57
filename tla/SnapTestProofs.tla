--------------------------- MODULE SnapTestProofs ---------------------------
(***************************************************************************)
(* The theorems about lxo-snaptest: at whatever moment a snapshot is taken *)
(* the comparison gives no false alarm, and what it finds is not deleted,  *)
(* for any number of rounds, of pieces, and any snapshots left over.       *)
(***************************************************************************)
EXTENDS SnapTest, TLAPS

Snapshots == [ca : Int, db : Int, zeros : SUBSET Int, nested : BOOLEAN]

\* How far the two files are at each place of a round: db is ahead.
Lengths ==
    /\ pc = "round" => ca = Pieces * blocks /\ db = Pieces * blocks
    /\ pc = "append" =>
          /\ blocks < MAXROUNDS /\ ca = Pieces * blocks
          /\ Pieces * blocks <= db /\ db < Pieces * (blocks + 1)
    /\ pc = "write" =>
          /\ blocks < MAXROUNDS /\ db = Pieces * (blocks + 1)
          /\ Pieces * blocks <= ca /\ ca < Pieces * (blocks + 1)
    /\ pc = "sleep" =>
          /\ blocks < MAXROUNDS
          /\ ca = Pieces * (blocks + 1) /\ db = Pieces * (blocks + 1)
    /\ ca <= db

\* What is known of snaptest.N and of its job.
SnapOf(b) ==
    /\ snap[b].ca \in -1 .. Pieces * MAXROUNDS
    /\ b \notin DOMAIN env.left => snap[b].ca <= snap[b].db
    /\ job[b] \in {"sleep", "differ"} => snap[b] # None
    /\ job[b] = "differ" =>
          /\ ~Running
          /\ env.failing \/ b \in DOMAIN env.left \/ snap[b].zeros # {}

SnapTestInv ==
    /\ env \in Environments
    /\ pc \in {"round", "append", "write", "sleep", "done", "killed"}
    /\ blocks \in 0 .. MAXROUNDS
    /\ ca \in 0 .. Pieces * MAXROUNDS /\ db \in 0 .. Pieces * MAXROUNDS
    /\ job \in [Rounds -> {"none", "delay", "no snapshot", "sleep", "equal", "differ"}]
    /\ snap \in [Rounds -> Snapshots]
    /\ Lengths
    /\ \A b \in Rounds : SnapOf(b)
    /\ pc = "killed" => Found # {}

\* Pieces of whole blocks.
LEMMA WholeBlocks ==
    ASSUME NEW n \in Nat
    PROVE  Pieces * n \in Nat /\ Pieces * (n + 1) = Pieces * n + Pieces
  BY RoundsAssumption

LEMMA BlocksInside ==
    ASSUME NEW n \in 0 .. MAXROUNDS - 1
    PROVE  Pieces * (n + 1) <= Pieces * MAXROUNDS /\ Pieces * MAXROUNDS \in Nat
<1>1. PICK k \in Nat : MAXROUNDS = n + 1 + k
  <2>1. MAXROUNDS - n - 1 \in Nat /\ MAXROUNDS = n + 1 + (MAXROUNDS - n - 1)
    BY RoundsAssumption
  <2> QED
    BY <2>1
<1>2. Pieces * MAXROUNDS = Pieces * (n + 1) + Pieces * k /\ Pieces * k \in Nat
  BY <1>1, RoundsAssumption
<1>3. Pieces * (n + 1) \in Nat
  BY RoundsAssumption
<1> QED
  BY <1>2, <1>3

\* Of a step of the program that leaves the jobs and the snapshots alone only this is
\* to be shown.
LEMMA StepOfProgram ==
    ASSUME SnapTestInv, env' = env, job' = job, snap' = snap, Running,
           pc' \in {"round", "append", "write", "sleep", "done"},
           blocks' \in 0 .. MAXROUNDS,
           ca' \in 0 .. Pieces * MAXROUNDS, db' \in 0 .. Pieces * MAXROUNDS, Lengths'
    PROVE  SnapTestInv'
<1>1. ASSUME NEW b \in Rounds PROVE SnapOf(b)'
  <2>1. SnapOf(b) /\ job[b] # "differ"
    BY DEF SnapTestInv, SnapOf
  <2> QED
    BY <2>1 DEF SnapOf
<1> QED
  BY <1>1 DEF SnapTestInv

\* The same of a step of one job.
LEMMA StepOfJob ==
    ASSUME SnapTestInv, NEW b \in Rounds, env' = env, blocks' = blocks, ca' = ca, db' = db,
           NEW j \in {"no snapshot", "sleep", "equal", "differ"}, job' = [job EXCEPT ![b] = j],
           NEW s \in Snapshots, snap' = [snap EXCEPT ![b] = s],
           pc' = IF j = "differ" /\ Running THEN "killed" ELSE pc,
           job[b] # "differ", SnapOf(b)'
    PROVE  SnapTestInv'
<1>1. /\ job' \in [Rounds -> {"none", "delay", "no snapshot", "sleep", "equal", "differ"}]
      /\ snap' \in [Rounds -> Snapshots]
  BY DEF SnapTestInv
<1>2. /\ job'[b] = j /\ snap'[b] = s
      /\ \A c \in Rounds \ {b} : job'[c] = job[c] /\ snap'[c] = snap[c]
  BY DEF SnapTestInv
<1>3. pc' \in {"round", "append", "write", "sleep", "done", "killed"} /\ Lengths'
  BY DEF SnapTestInv, Lengths
<1>4. Running' => Running
  BY DEF Running
<1>5. ASSUME NEW c \in Rounds PROVE SnapOf(c)'
  <2>1. CASE c = b
    BY <2>1
  <2>2. CASE c # b
    <3>1. SnapOf(c) /\ job'[c] = job[c] /\ snap'[c] = snap[c]
      BY <1>2, <2>2 DEF SnapTestInv
    <3> QED
      BY <1>4, <3>1 DEF SnapOf
  <2> QED
    BY <2>1, <2>2
<1>6. pc' = "killed" => Found' # {}
  <2>1. CASE j = "differ"
    BY <1>2, <2>1 DEF Found
  <2>2. CASE j # "differ"
    <3>1. pc' = "killed" => Found # {}
      BY <2>2 DEF SnapTestInv
    <3>2. \A c \in Found : c \in Found'
      BY <1>2 DEF Found
    <3> QED
      BY <3>1, <3>2
  <2> QED
    BY <2>1, <2>2
<1> QED
  BY <1>1, <1>3, <1>5, <1>6 DEF SnapTestInv

LEMMA SnapTestInitInv == Init => SnapTestInv
<1> SUFFICES ASSUME Init PROVE SnapTestInv
  OBVIOUS
<1>1. /\ env \in Environments /\ pc = "round" /\ blocks = 0 /\ ca = 0 /\ db = 0
      /\ job = [b \in Rounds |-> "none"]
      /\ snap = [b \in Rounds |-> IF b \in DOMAIN env.left THEN Old(env.left[b]) ELSE None]
  BY DEF Init
<1>2. Pieces * 0 = 0 /\ Pieces * MAXROUNDS \in Nat
  BY RoundsAssumption
<1>3. ASSUME NEW b \in Rounds
      PROVE  /\ snap[b] \in Snapshots /\ snap[b].ca \in -1 .. Pieces * MAXROUNDS
             /\ b \notin DOMAIN env.left => snap[b].ca <= snap[b].db
  <2>1. CASE b \in DOMAIN env.left
    <3>1. 1 <= Pieces * MAXROUNDS
      <4>1. b \in 0 .. MAXROUNDS - 1 /\ Pieces * (b + 1) = Pieces * b + Pieces
        BY RoundsAssumption DEF Rounds
      <4>2. Pieces * b \in Nat /\ Pieces \in Nat \ {0}
        BY <4>1, RoundsAssumption
      <4>3. Pieces * (b + 1) <= Pieces * MAXROUNDS
        BY <4>1, BlocksInside
      <4> QED
        BY <1>2, <4>1, <4>2, <4>3
    <3>2. snap[b] = Old(env.left[b])
      BY <1>1, <2>1
    <3>3. snap[b] = [ca |-> 1, db |-> IF env.left[b] THEN 1 ELSE 0, zeros |-> {}, nested |-> FALSE]
      BY <3>2 DEF Old, None
    <3>4. (IF env.left[b] THEN 1 ELSE 0) \in Int
      OBVIOUS
    <3> QED
      BY <1>2, <2>1, <3>1, <3>3, <3>4 DEF Snapshots
  <2>2. CASE b \notin DOMAIN env.left
    BY <1>1, <1>2, <2>2 DEF None, Snapshots
  <2> QED
    BY <2>1, <2>2
<1>4. snap \in [Rounds -> Snapshots]
  BY <1>1, <1>3
<1>5. Lengths
  BY <1>1, <1>2 DEF Lengths
<1>6. ASSUME NEW b \in Rounds PROVE SnapOf(b)
  BY <1>1, <1>3 DEF SnapOf
<1> QED
  BY <1>1, <1>2, <1>4, <1>5, <1>6, RoundsAssumption DEF SnapTestInv

LEMMA SnapTestStepInv == SnapTestInv /\ [Next]_vars => SnapTestInv'
<1> SUFFICES ASSUME SnapTestInv, [Next]_vars PROVE SnapTestInv'
  OBVIOUS
<1>0. /\ blocks \in Nat /\ blocks <= MAXROUNDS /\ MAXROUNDS \in Nat /\ Pieces \in Nat \ {0}
      /\ ca \in Nat /\ db \in Nat /\ Lengths
  <2>1. Pieces * MAXROUNDS \in Nat
    BY RoundsAssumption
  <2>2. /\ blocks \in 0 .. MAXROUNDS /\ Lengths
        /\ ca \in 0 .. Pieces * MAXROUNDS /\ db \in 0 .. Pieces * MAXROUNDS
    BY Zenon DEF SnapTestInv
  <2>3. ca \in Nat /\ db \in Nat
    BY <2>1, <2>2
  <2> QED
    BY <2>2, <2>3, RoundsAssumption
<1>1. CASE Finish \/ CallFails
  <2>1. /\ Running /\ pc' = "done" /\ env' = env /\ job' = job /\ snap' = snap
        /\ blocks' = blocks /\ ca' = ca /\ db' = db
    BY <1>1 DEF Finish, CallFails, Running
  <2>2. Lengths'
    BY <1>0, <2>1 DEF Lengths
  <2> QED
    BY <2>1, <2>2, StepOfProgram DEF SnapTestInv
<1>2. CASE StartJob
  <2>1. /\ pc = "round" /\ blocks < MAXROUNDS /\ job' = [job EXCEPT ![blocks] = "delay"]
        /\ pc' = "append"
        /\ env' = env /\ snap' = snap /\ blocks' = blocks /\ ca' = ca /\ db' = db
    BY <1>2 DEF StartJob
  <2>2. Running /\ Running'
    BY <2>1 DEF Running
  <2>3. Lengths'
    <3>1. Pieces * (blocks + 1) = Pieces * blocks + Pieces /\ Pieces * blocks \in Nat
      BY <1>0, WholeBlocks
    <3>2. ca = Pieces * blocks /\ db = Pieces * blocks
      BY <1>0, <2>1 DEF Lengths
    <3>3. db < Pieces * (blocks + 1)
      BY <1>0, <3>1, <3>2
    <3> QED
      BY <1>0, <2>1, <3>1, <3>2, <3>3 DEF Lengths
  <2>4. job' \in [Rounds -> {"none", "delay", "no snapshot", "sleep", "equal", "differ"}]
    BY <2>1 DEF SnapTestInv
  <2>5. ASSUME NEW b \in Rounds PROVE SnapOf(b)'
    <3>1. SnapOf(b) /\ job[b] # "differ"
      BY <2>2 DEF SnapTestInv, SnapOf
    <3>2. job'[b] = job[b] \/ job'[b] = "delay"
      BY <2>1 DEF SnapTestInv
    <3> QED
      BY <2>1, <3>1, <3>2 DEF SnapOf
  <2> QED
    BY <2>1, <2>3, <2>4, <2>5 DEF SnapTestInv
<1>3. CASE Append
  <2>1. /\ pc = "append" /\ db' = db + 1
        /\ pc' = IF db' = Pieces * (blocks + 1) THEN "write" ELSE "append"
        /\ env' = env /\ blocks' = blocks /\ ca' = ca /\ job' = job /\ snap' = snap
    BY <1>3 DEF Append
  <2>2. /\ blocks < MAXROUNDS /\ ca = Pieces * blocks
        /\ Pieces * blocks <= db /\ db < Pieces * (blocks + 1)
    BY <1>0, <2>1 DEF Lengths
  <2>3. /\ Pieces * (blocks + 1) <= Pieces * MAXROUNDS /\ Pieces * MAXROUNDS \in Nat
        /\ Pieces * blocks \in Nat /\ Pieces * (blocks + 1) = Pieces * blocks + Pieces
    BY <1>0, <2>2, BlocksInside, WholeBlocks
  <2>4. Lengths'
    BY <1>0, <2>1, <2>2, <2>3 DEF Lengths
  <2>5. db' \in 0 .. Pieces * MAXROUNDS
    BY <1>0, <2>1, <2>2, <2>3
  <2>6. Running
    BY <2>1 DEF Running
  <2> QED
    BY <2>1, <2>4, <2>5, <2>6, StepOfProgram DEF SnapTestInv
<1>4. CASE Write
  <2>1. /\ pc = "write" /\ ca' = ca + 1
        /\ pc' = IF ca' = Pieces * (blocks + 1) THEN "sleep" ELSE "write"
        /\ env' = env /\ blocks' = blocks /\ db' = db /\ job' = job /\ snap' = snap
    BY <1>4 DEF Write
  <2>2. /\ blocks < MAXROUNDS /\ db = Pieces * (blocks + 1)
        /\ Pieces * blocks <= ca /\ ca < Pieces * (blocks + 1)
    BY <1>0, <2>1 DEF Lengths
  <2>3. /\ Pieces * (blocks + 1) <= Pieces * MAXROUNDS /\ Pieces * MAXROUNDS \in Nat
        /\ Pieces * blocks \in Nat /\ Pieces * (blocks + 1) = Pieces * blocks + Pieces
    BY <1>0, <2>2, BlocksInside, WholeBlocks
  <2>4. Lengths'
    BY <1>0, <2>1, <2>2, <2>3 DEF Lengths
  <2>5. ca' \in 0 .. Pieces * MAXROUNDS
    BY <1>0, <2>1, <2>2, <2>3
  <2>6. Running
    BY <2>1 DEF Running
  <2> QED
    BY <2>1, <2>4, <2>5, <2>6, StepOfProgram DEF SnapTestInv
<1>5. CASE NextRound
  <2>1. /\ pc = "sleep" /\ blocks' = blocks + 1 /\ pc' = "round"
        /\ env' = env /\ ca' = ca /\ db' = db /\ job' = job /\ snap' = snap
    BY <1>5 DEF NextRound
  <2>2. Lengths' /\ blocks' \in 0 .. MAXROUNDS
    BY <1>0, <2>1 DEF Lengths
  <2>3. Running
    BY <2>1 DEF Running
  <2> QED
    BY <2>1, <2>2, <2>3, StepOfProgram DEF SnapTestInv
<1>6. ASSUME NEW b \in Rounds, Job(b) \/ SnapshotFails(b) PROVE SnapTestInv'
  <2>0. /\ SnapOf(b) /\ snap[b] \in Snapshots /\ DOMAIN job = Rounds /\ DOMAIN snap = Rounds
        /\ snap = [snap EXCEPT ![b] = snap[b]]
    BY DEF SnapTestInv
  <2>1. CASE Snapshot(b)
    <3>1. /\ job[b] = "delay" /\ job' = [job EXCEPT ![b] = "sleep"]
          /\ env' = env /\ pc' = pc /\ blocks' = blocks /\ ca' = ca /\ db' = db
      BY <2>1 DEF Snapshot
    <3>2. CASE snap[b] = None
      <4>1. PICK lost \in SUBSET (0 .. db - 1) :
               snap' = [snap EXCEPT ![b] = [ca |-> ca, db |-> db, zeros |-> lost,
                                            nested |-> FALSE]]
        BY <2>1, <3>2 DEF Snapshot
      <4> DEFINE s == [ca |-> ca, db |-> db, zeros |-> lost, nested |-> FALSE]
      <4>2. s \in Snapshots /\ s # None /\ s.ca <= s.db /\ s.ca \in -1 .. Pieces * MAXROUNDS
        <5>1. ca <= db
          BY <1>0 DEF Lengths
        <5>2. s \in Snapshots
          BY <1>0 DEF Snapshots
        <5>3. s.ca # None.ca
          BY <1>0 DEF None
        <5>4. s.ca \in -1 .. Pieces * MAXROUNDS
          <6>1. ca \in 0 .. Pieces * MAXROUNDS
            BY Zenon DEF SnapTestInv
          <6>2. Pieces * MAXROUNDS \in Int
            BY RoundsAssumption
          <6> QED
            BY <6>1, <6>2
        <5> QED
          BY <5>1, <5>2, <5>3, <5>4
      <4>3. snap'[b] = s /\ job'[b] = "sleep"
        BY <2>0, <3>1, <4>1
      <4>4. SnapOf(b)'
        BY <3>1, <4>2, <4>3 DEF SnapOf
      <4> HIDE DEF s
      <4> QED
        BY <3>1, <4>1, <4>2, <4>4, StepOfJob DEF s
    <3>3. CASE snap[b] # None
      <4> DEFINE s == [snap[b] EXCEPT !.nested = TRUE]
      <4>1. snap' = [snap EXCEPT ![b] = s]
        BY <2>1, <3>3 DEF Snapshot
      <4>2. /\ s \in Snapshots /\ s # None
            /\ s.ca = snap[b].ca /\ s.db = snap[b].db
        BY <2>0 DEF Snapshots, None
      <4>3. snap'[b] = s /\ job'[b] = "sleep"
        BY <2>0, <3>1, <4>1
      <4>4. SnapOf(b)'
        BY <2>0, <3>1, <4>2, <4>3 DEF SnapOf
      <4> HIDE DEF s
      <4> QED
        BY <3>1, <4>1, <4>2, <4>4, StepOfJob
    <3> QED
      BY <3>2, <3>3
  <2>2. CASE SnapshotFails(b)
    <3>1. /\ job[b] = "delay" /\ job' = [job EXCEPT ![b] = "no snapshot"]
          /\ env' = env /\ pc' = pc /\ blocks' = blocks /\ ca' = ca /\ db' = db
          /\ snap' = snap
      BY <2>2 DEF SnapshotFails
    <3>2. SnapOf(b)'
      BY <2>0, <3>1 DEF SnapOf
    <3> QED
      BY <2>0, <3>1, <3>2, StepOfJob
  <2>3. CASE Delete(b)
    <3>1. /\ job[b] = "sleep" /\ job' = [job EXCEPT ![b] = "equal"]
          /\ env' = env /\ pc' = pc /\ blocks' = blocks /\ ca' = ca /\ db' = db
      BY <2>3 DEF Delete
    <3>2. PICK s \in {snap[b], None} : snap' = [snap EXCEPT ![b] = s]
      BY <2>0, <2>3 DEF Delete
    <3>3. s \in Snapshots /\ s.ca \in -1 .. Pieces * MAXROUNDS
          /\ (b \notin DOMAIN env.left => s.ca <= s.db)
      <4>1. CASE s = None
        <5>1. Pieces * MAXROUNDS \in Nat
          BY RoundsAssumption
        <5> QED
          BY <4>1, <5>1 DEF None, Snapshots
      <4>2. CASE s = snap[b]
        BY <2>0, <4>2 DEF SnapOf
      <4> QED
        BY <4>1, <4>2
    <3>4. snap'[b] = s /\ job'[b] = "equal"
      BY <2>0, <3>1, <3>2
    <3>5. SnapOf(b)'
      BY <3>1, <3>3, <3>4 DEF SnapOf
    <3> QED
      BY <3>1, <3>2, <3>3, <3>5, StepOfJob
  <2>4. CASE Kill(b)
    <3>1. /\ job[b] = "sleep" /\ job' = [job EXCEPT ![b] = "differ"]
          /\ env' = env /\ blocks' = blocks /\ ca' = ca /\ db' = db /\ snap' = snap
          /\ ~Same(snap[b]) \/ env.failing
          /\ pc' = IF Running THEN "killed" ELSE pc
      BY <2>4 DEF Kill
    <3>2. ~Running'
      BY <3>1 DEF Running
    <3>3. env.failing \/ b \in DOMAIN env.left \/ snap[b].zeros # {}
      BY <2>0, <3>1 DEF SnapOf, Same
    <3>4. job'[b] = "differ"
      BY <2>0, <3>1
    <3>5. SnapOf(b)'
      BY <2>0, <3>1, <3>2, <3>3, <3>4 DEF SnapOf
    <3> QED
      BY <2>0, <3>1, <3>5, StepOfJob
  <2> QED
    BY <1>6, <2>1, <2>2, <2>3, <2>4 DEF Job
<1>7. CASE UNCHANGED vars
  BY <1>7 DEF vars, SnapTestInv, Lengths, SnapOf, Running, Found
<1> QED
  BY <1>1, <1>2, <1>3, <1>4, <1>5, <1>6, <1>7 DEF Next, Main

\* For any number of rounds and pieces: the program is killed only over a snapshot that has
\* lost data, or was left over, never because of when the snapshot was taken.
THEOREM NoFalseAlarmAlways == Spec => []NoFalseAlarm
<1>1. SnapTestInv => NoFalseAlarm
  <2> SUFFICES ASSUME SnapTestInv PROVE NoFalseAlarm
    OBVIOUS
  <2>1. TypeOK
    BY DEF SnapTestInv, TypeOK, SnapOf
  <2>2. ASSUME pc = "killed", ~env.failing
        PROVE  \E b \in Found : b \in DOMAIN env.left \/ snap[b].zeros # {}
    <3>1. PICK b \in Found : TRUE
      BY <2>2 DEF SnapTestInv
    <3>2. b \in Rounds /\ job[b] = "differ"
      BY <3>1 DEF Found
    <3>3. SnapOf(b)
      BY <3>2 DEF SnapTestInv
    <3> QED
      BY <2>2, <3>1, <3>2, <3>3 DEF SnapOf
  <2> QED
    BY <2>1, <2>2 DEF NoFalseAlarm
<1> QED
  BY <1>1, SnapTestInitInv, SnapTestStepInv, PTL DEF Spec

\* For any number of rounds and pieces: a snapshot in which a miscompare was found is there for
\* ever, and the program does not go on.
THEOREM EvidenceKeptAlways == Spec => []EvidenceKept
<1>1. SnapTestInv => EvidenceKept
  <2> SUFFICES ASSUME SnapTestInv PROVE EvidenceKept
    OBVIOUS
  <2>1. ASSUME NEW b \in Found PROVE snap[b] # None /\ ~Running
    <3>1. b \in Rounds /\ job[b] = "differ"
      BY <2>1 DEF Found
    <3>2. SnapOf(b)
      BY <3>1 DEF SnapTestInv
    <3> QED
      BY <3>1, <3>2 DEF SnapOf
  <2> QED
    BY <2>1 DEF EvidenceKept
<1> QED
  BY <1>1, SnapTestInitInv, SnapTestStepInv, PTL DEF Spec
=============================================================================

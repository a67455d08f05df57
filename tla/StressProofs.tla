---------------------------- MODULE StressProofs ----------------------------
(***************************************************************************)
(* The theorems about stress.sh and stress-subvol-heavy.sh: a miscompare   *)
(* that is reported is one, which damaged copies may be overlooked, and    *)
(* that nothing starts once they are stopped, for any number of processes. *)
(***************************************************************************)
EXTENDS Stress, TLAPS

\* The sums of the content are there before anything is compared with them, and without
\* failing commands they are complete.
ContentSummed ==
    /\ pc \in {"fork", "trap", "wait", "ended"} => sums # "none"
    /\ pc \in {"setup", "sums"} => sums = "none"
    /\ ~setting.failing => sums # "partial"

\* The processes from p on have not been started.
Started == \A q \in Processes : q >= p => at[q] = "none"

\* What process q has in hand at each place, if commands do not fail.
InHand(q) ==
    ~setting.failing =>
        /\ at[q] = "md5sum" => tree[q] # "none"
        /\ at[q] = "diff" => /\ tree[q] # "none"
                             /\ tmp[q] = IF tree[q] = "same" THEN "same" ELSE "differs"
        /\ at[q] = "rm sums" => tree[q] = "same"
        /\ q \in found => at[q] \in {"killall", "over"} /\ tree[q] \notin {"none", "same"}

\* Good sums in /tmp are those of a copy with all of the content, or an earlier run has
\* left them.
SumsOf(q) ==
    /\ at[q] # "none" => sums # "none"
    /\ at[q] = "rm sums" /\ sums = "exact" => tmp[q] = "same"
    /\ tmp[q] = "same" =>
          \/ setting.left = "same" \/ at[q] \in {"killall", "over"}
          \/ at[q] \in {"diff", "rm sums"} /\ tree[q] \notin {"none", "differs"}

\* All shells of stress.sh have been killed, and the script with them, or none has.
AllOrNone ==
    /\ pc = "ended" => alive = {}
    /\ setting.script = "stress.sh" /\ ~setting.failing =>
          \/ alive = {} /\ pc \in {"ended", "died"}
          \/ \A q \in Processes : at[q] # "none" => q \in alive /\ at[q] # "over"

StressInv ==
    /\ setting \in Settings /\ TypeOK
    /\ ContentSummed /\ Started
    /\ \A q \in Processes : InHand(q) /\ SumsOf(q)
    /\ AllOrNone

Commands == {"rm", "cp", "md5sum", "diff", "killall", "rm sums"}

LEMMA StressInitInv == Init => StressInv
<1> SUFFICES ASSUME Init PROVE StressInv
  OBVIOUS
<1>1. setting \in Settings /\ setting.nconcurrent \in Nat /\ setting.left \in Sums
  BY SettingsAssumption DEF Init
<1>2. TypeOK
  BY <1>1 DEF Init, TypeOK, Processes, Copies, Sums
<1>3. ContentSummed /\ Started /\ AllOrNone
  BY <1>1 DEF Init, ContentSummed, Started, AllOrNone, Processes
<1>4. ASSUME NEW q \in Processes PROVE InHand(q) /\ SumsOf(q)
  BY DEF Init, InHand, SumsOf
<1> QED
  BY <1>1, <1>2, <1>3, <1>4 DEF StressInv

\* The end of a command of process q leaves everything of the others alone; its shell goes
\* on to the next command or is no more.
LEMMA StepOfOne ==
    ASSUME StressInv, NEW q \in Processes, NEW to \in Commands,
           NEW t \in Copies, NEW u \in Sums,
           at[q] \notin {"none", "over"},
           at' = [at EXCEPT ![q] = IF q \in alive THEN to ELSE "over"],
           alive' = alive, tree' = [tree EXCEPT ![q] = t], tmp' = [tmp EXCEPT ![q] = u],
           setting' = setting, pc' = pc, p' = p, sums' = sums,
           found' \in {found, found \cup {q}},
           InHand(q)', SumsOf(q)'
    PROVE  StressInv'
<1>1. Processes' = Processes
  BY DEF Processes
<1>2. TypeOK
  BY DEF StressInv
<1>3. TypeOK'
  <2>1. at' \in [Processes -> {"none", "sleep", "rm", "cp", "md5sum", "diff", "killall",
                               "rm sums", "over"}]
    BY <1>2 DEF TypeOK, Commands
  <2>2. tree' \in [Processes -> Copies] /\ tmp' \in [Processes -> Sums]
    BY <1>2 DEF TypeOK
  <2>3. found' \subseteq Processes
    BY <1>2 DEF TypeOK
  <2> QED
    BY <1>1, <1>2, <2>1, <2>2, <2>3 DEF TypeOK
<1>4. \A r \in Processes \ {q} : at'[r] = at[r] /\ tree'[r] = tree[r] /\ tmp'[r] = tmp[r]
  BY <1>2 DEF TypeOK
<1>5. ASSUME NEW r \in Processes PROVE InHand(r)' /\ SumsOf(r)'
  <2>1. CASE r = q
    BY <2>1
  <2>2. CASE r # q
    <3>1. InHand(r) /\ SumsOf(r)
      BY DEF StressInv
    <3>2. at'[r] = at[r] /\ tree'[r] = tree[r] /\ tmp'[r] = tmp[r]
      BY <1>4, <2>2
    <3>3. r \in found' <=> r \in found
      BY <2>2
    <3> QED
      BY <3>1, <3>2, <3>3 DEF InHand, SumsOf
  <2> QED
    BY <2>1, <2>2
<1>6. ContentSummed'
  BY DEF StressInv, ContentSummed
<1>7. Started'
  <2>1. Started
    BY DEF StressInv
  <2> QED
    BY <1>1, <1>4, <2>1 DEF Started
<1>8. AllOrNone'
  <2>1. AllOrNone
    BY DEF StressInv
  <2>2. q \in alive => at'[q] # "over"
    BY <1>2 DEF TypeOK, Commands
  <2> QED
    BY <1>1, <1>4, <2>1, <2>2 DEF AllOrNone
<1> QED
  BY <1>1, <1>3, <1>5, <1>6, <1>7, <1>8 DEF StressInv

\* A step of the script that starts nothing.
LEMMA StepOfScript ==
    ASSUME StressInv, setting' = setting, at' = at, p' = p, tree' = tree, tmp' = tmp,
           found' = found, pc \notin {"ended", "died"},
           pc' \in {"sums", "fork", "trap", "wait", "ended", "died"},
           sums' \in {"none", "exact", "partial"}, sums # "none" => sums' = sums,
           ContentSummed',
           \/ alive' = alive /\ (pc' = "ended" => alive = {})
           \/ alive' = {} /\ pc' = "ended"
    PROVE  StressInv'
<1>1. Processes' = Processes
  BY DEF Processes
<1>2. TypeOK'
  BY <1>1 DEF StressInv, TypeOK
<1>3. ASSUME NEW q \in Processes PROVE InHand(q)' /\ SumsOf(q)'
  BY DEF StressInv, InHand, SumsOf
<1>4. Started'
  BY <1>1 DEF StressInv, Started
<1>5. AllOrNone'
  BY <1>1 DEF StressInv, AllOrNone
<1> QED
  BY <1>1, <1>2, <1>3, <1>4, <1>5 DEF StressInv

LEMMA StressStepInv == StressInv /\ [Next]_vars => StressInv'
<1> SUFFICES ASSUME StressInv, [Next]_vars PROVE StressInv'
  OBVIOUS
<1>0. TypeOK /\ ContentSummed /\ Started /\ AllOrNone
  BY DEF StressInv
<1>1. CASE SetUp
  BY <1>0, <1>1, StepOfScript DEF SetUp, ContentSummed, TypeOK
<1>2. CASE SumContent
  BY <1>0, <1>2, StepOfScript DEF SumContent, ContentSummed, TypeOK
<1>3. CASE Fork
  <2>1. CASE p > setting.nconcurrent
    BY <1>0, <1>3, <2>1, StepOfScript DEF Fork, ContentSummed, TypeOK
  <2>2. CASE ~(p > setting.nconcurrent)
    <3>1. /\ at' = [at EXCEPT ![p] = "sleep"] /\ alive' = alive \cup {p}
          /\ p' = p + 1 /\ pc' = pc /\ pc = "fork"
          /\ setting' = setting /\ sums' = sums /\ tree' = tree /\ tmp' = tmp /\ found' = found
      BY <1>3, <2>2 DEF Fork
    <3>2. p \in Processes /\ setting.nconcurrent \in Nat /\ Processes' = Processes
      <4>1. setting.nconcurrent \in Nat
        BY SettingsAssumption DEF StressInv
      <4>2. p \in 1 .. setting.nconcurrent + 1
        BY <1>0 DEF TypeOK
      <4> QED
        BY <2>2, <3>1, <4>1, <4>2 DEF Processes
    <3>3. TypeOK'
      <4>1. p + 1 \in 1 .. setting.nconcurrent + 1
        BY <3>2 DEF Processes
      <4> QED
        BY <1>0, <3>1, <3>2, <4>1 DEF TypeOK
    <3>4. ContentSummed'
      BY <1>0, <3>1 DEF ContentSummed
    <3>5. Started'
      <4>1. ASSUME NEW q \in Processes, q >= p + 1 PROVE at'[q] = "none"
        <5>1. q # p /\ q >= p
          BY <3>2, <4>1 DEF Processes
        <5> QED
          BY <1>0, <3>1, <5>1 DEF Started, TypeOK
      <4> QED
        BY <3>1, <3>2, <4>1 DEF Started
    <3>6. at[p] = "none" /\ at'[p] = "sleep" /\ \A q \in Processes \ {p} : at'[q] = at[q]
      <4>1. p >= p
        BY <3>2 DEF Processes
      <4> QED
        BY <1>0, <3>1, <3>2, <4>1 DEF Started, TypeOK
    <3>7. ASSUME NEW q \in Processes PROVE InHand(q)' /\ SumsOf(q)'
      <4>1. InHand(q) /\ SumsOf(q)
        BY DEF StressInv
      <4>2. CASE q = p
        BY <1>0, <3>1, <3>6, <4>1, <4>2 DEF InHand, SumsOf, ContentSummed
      <4>3. CASE q # p
        BY <3>1, <3>6, <4>1, <4>3 DEF InHand, SumsOf
      <4> QED
        BY <4>2, <4>3
    <3>8. AllOrNone'
      BY <1>0, <3>1, <3>2, <3>6 DEF AllOrNone
    <3> QED
      BY <3>1, <3>2, <3>3, <3>4, <3>5, <3>7, <3>8 DEF StressInv
  <2> QED
    BY <2>1, <2>2
<1>4. CASE SetTrap
  BY <1>0, <1>4, StepOfScript DEF SetTrap, ContentSummed, TypeOK
<1>5. CASE InterruptEarly
  BY <1>0, <1>5, StepOfScript DEF InterruptEarly, ContentSummed, TypeOK
<1>6. CASE Interrupt
  BY <1>0, <1>6, StepOfScript DEF Interrupt, ContentSummed, TypeOK
<1>7. CASE EndOfWait
  BY <1>0, <1>7, StepOfScript DEF EndOfWait, ContentSummed, TypeOK
<1>8. ASSUME NEW q \in Processes, Process(q) PROVE StressInv'
  <2>0. /\ InHand(q) /\ SumsOf(q) /\ TmpOf(q) = q
        /\ tree[q] \in Copies /\ tmp[q] \in Sums
        /\ tree = [tree EXCEPT ![q] = tree[q]] /\ tmp = [tmp EXCEPT ![q] = tmp[q]]
    BY <1>0 DEF StressInv, TypeOK, TmpOf
  <2>1. CASE NotStarted(q)
    <3>1. /\ at[q] \notin {"none", "over"} /\ q \notin alive
          /\ at' = [at EXCEPT ![q] = IF q \in alive THEN "rm" ELSE "over"] /\ at'[q] = "over"
      BY <1>0, <2>1 DEF NotStarted, TypeOK
    <3>2. InHand(q)' /\ SumsOf(q)'
      BY <2>0, <2>1, <3>1 DEF NotStarted, InHand, SumsOf
    <3> QED
      BY <2>0, <2>1, <3>1, <3>2, StepOfOne DEF NotStarted, Commands
  <2>2. CASE Sleep(q)
    <3>1. /\ at[q] = "sleep" /\ at' = [at EXCEPT ![q] = IF q \in alive THEN "rm" ELSE "over"]
          /\ at'[q] \in {"rm", "over"}
      BY <1>0, <2>2 DEF Sleep, Goes, TypeOK
    <3>2. InHand(q)' /\ SumsOf(q)'
      BY <2>0, <2>2, <3>1 DEF Sleep, InHand, SumsOf
    <3> QED
      BY <2>0, <2>2, <3>1, <3>2, StepOfOne DEF Sleep, Goes, Commands
  <2>3. CASE Remove(q)
    <3>1. /\ at[q] = "rm" /\ at' = [at EXCEPT ![q] = IF q \in alive THEN "cp" ELSE "over"]
          /\ at'[q] \in {"cp", "over"}
      BY <1>0, <2>3 DEF Remove, Goes, TypeOK
    <3>2. PICK t \in Copies : tree' = [tree EXCEPT ![q] = t]
      BY <2>0, <2>3 DEF Remove, Copies
    <3>3. InHand(q)' /\ SumsOf(q)'
      BY <2>0, <2>3, <3>1 DEF Remove, InHand, SumsOf
    <3> QED
      BY <2>0, <2>3, <3>1, <3>2, <3>3, StepOfOne DEF Remove, Goes, Commands
  <2>4. CASE Copy(q)
    <3>1. /\ at[q] = "cp" /\ at' = [at EXCEPT ![q] = IF q \in alive THEN "md5sum" ELSE "over"]
          /\ at'[q] \in {"md5sum", "over"}
      BY <1>0, <2>4 DEF Copy, Goes, TypeOK
    <3>2. PICK t \in Copies : /\ tree' = [tree EXCEPT ![q] = t]
                              /\ ~setting.failing => t # "none"
      BY <2>0, <2>4 DEF Copy, Copies
    <3>3. tree'[q] = t
      BY <1>0, <3>2 DEF TypeOK
    <3>4. InHand(q)' /\ SumsOf(q)'
      BY <2>0, <2>4, <3>1, <3>2, <3>3 DEF Copy, InHand, SumsOf
    <3> QED
      BY <2>0, <2>4, <3>1, <3>2, <3>4, StepOfOne DEF Copy, Goes, Commands
  <2>5. CASE Sum(q)
    <3>1. /\ at[q] = "md5sum" /\ at' = [at EXCEPT ![q] = IF q \in alive THEN "diff" ELSE "over"]
          /\ at'[q] \in {"diff", "over"}
      BY <1>0, <2>5 DEF Sum, Goes, TypeOK
    <3>2. PICK u \in Sums :
             /\ tmp' = [tmp EXCEPT ![q] = u]
             /\ ~setting.failing => u = IF tree[q] = "same" THEN "same" ELSE "differs"
             /\ u = "same" => tmp[q] = "same" \/ tree[q] \in {"same", "extra"}
      <4>1. CASE tree[q] = "none"
        <5>1. setting.failing
          BY <2>0, <3>1, <4>1 DEF InHand
        <5>2. tmp' = [tmp EXCEPT ![q] = tmp[q]]
          BY <2>0, <2>5, <4>1 DEF Sum
        <5> QED
          BY <2>0, <5>1, <5>2
      <4>2. CASE tree[q] # "none"
        <5>1. PICK u \in {IF tree[q] = "same" THEN "same" ELSE "differs"}
                         \cup (IF setting.failing THEN {"differs", tmp[q]} ELSE {})
                         \cup (IF setting.failing /\ tree[q] = "extra" THEN {"same"} ELSE {}) :
                  tmp' = [tmp EXCEPT ![q] = u]
          BY <2>0, <2>5, <4>2 DEF Sum
        <5>2. u \in Sums
          BY <2>0, <5>1 DEF Sums
        <5>3. ~setting.failing => u = IF tree[q] = "same" THEN "same" ELSE "differs"
          BY <5>1
        <5>4. u = "same" => tmp[q] = "same" \/ tree[q] \in {"same", "extra"}
          BY <5>1
        <5> QED
          BY <5>1, <5>2, <5>3, <5>4
      <4> QED
        BY <4>1, <4>2
    <3>3. tmp'[q] = u
      BY <1>0, <3>2 DEF TypeOK
    <3>4. /\ tree' = tree /\ setting' = setting /\ sums' = sums /\ found' = found
      BY <2>5 DEF Sum
    <3>5. InHand(q)'
      BY <2>0, <3>1, <3>2, <3>3, <3>4 DEF InHand
    <3>6. SumsOf(q)'
      BY <2>0, <3>1, <3>2, <3>3, <3>4 DEF SumsOf
    <3> QED
      BY <2>0, <2>5, <3>1, <3>2, <3>5, <3>6, StepOfOne DEF Sum, Goes, Commands
  <2>6. CASE Compare(q)
    <3>1. /\ at[q] = "diff" /\ at' = [at EXCEPT ![q] = IF q \in alive THEN "rm sums" ELSE "over"]
          /\ at'[q] \in {"rm sums", "over"} /\ Equal(q)
          /\ tmp' = tmp /\ tree' = tree /\ setting' = setting /\ sums' = sums /\ found' = found
      BY <1>0, <2>6 DEF Compare, Goes, TypeOK
    <3>2. InHand(q)'
      BY <1>0, <2>0, <3>1 DEF Equal, InHand, SumsOf, ContentSummed, TypeOK
    <3>3. SumsOf(q)'
      BY <1>0, <2>0, <3>1 DEF Equal, SumsOf
    <3> QED
      BY <2>0, <2>6, <3>1, <3>2, <3>3, StepOfOne DEF Compare, Goes, Commands
  <2>7. CASE Miscompare(q)
    <3>1. /\ at[q] = "diff" /\ at' = [at EXCEPT ![q] = IF q \in alive THEN "killall" ELSE "over"]
          /\ at'[q] \in {"killall", "over"} /\ (~Equal(q) \/ setting.failing)
          /\ tmp' = tmp /\ tree' = tree /\ setting' = setting /\ sums' = sums
          /\ found' \in {found, found \cup {q}}
      BY <1>0, <2>7 DEF Miscompare, Goes, TypeOK
    <3>2. ~setting.failing => tree[q] \notin {"none", "same"}
      BY <1>0, <2>0, <3>1 DEF Equal, InHand, SumsOf, ContentSummed, TypeOK
    <3>3. InHand(q)'
      BY <2>0, <3>1, <3>2 DEF InHand
    <3>4. SumsOf(q)'
      BY <2>0, <3>1 DEF SumsOf
    <3>5. alive' = alive /\ pc' = pc /\ p' = p
      BY <2>7 DEF Miscompare, Goes
    <3>6. "killall" \in Commands /\ at[q] \notin {"none", "over"}
      BY <3>1 DEF Commands
    <3> QED
      BY <2>0, <3>1, <3>3, <3>4, <3>5, <3>6, StepOfOne
  <2>8. CASE KillAll(q)
    <3>1. /\ at[q] = "killall" /\ at' = [at EXCEPT ![q] = "over"]
          /\ setting' = setting /\ p' = p /\ sums' = sums /\ tree' = tree /\ tmp' = tmp
          /\ found' = found /\ Processes' = Processes
      BY <2>8 DEF KillAll, Processes
    <3>2. at'[q] = "over" /\ \A r \in Processes \ {q} : at'[r] = at[r]
      BY <1>0, <3>1 DEF TypeOK
    <3>3. ASSUME NEW r \in Processes PROVE InHand(r)' /\ SumsOf(r)'
      <4>1. InHand(r) /\ SumsOf(r)
        BY DEF StressInv
      <4>2. CASE r = q
        BY <3>1, <3>2, <4>1, <4>2 DEF InHand, SumsOf
      <4>3. CASE r # q
        BY <3>1, <3>2, <4>1, <4>3 DEF InHand, SumsOf
      <4> QED
        BY <4>2, <4>3
    <3>4. Started'
      BY <1>0, <3>1, <3>2 DEF Started
    <3>5. /\ alive' \subseteq alive /\ pc' \in {pc, "ended"}
          /\ \/ alive' = {} /\ pc' \in {"ended", "died"}
             \/ /\ pc' = pc
                /\ setting.script # "stress.sh" \/ setting.failing
      BY <1>0, <2>8 DEF KillAll, KillName, TypeOK
    <3>6. TypeOK' /\ AllOrNone'
      BY <1>0, <3>1, <3>5 DEF TypeOK, AllOrNone
    <3>7. ContentSummed'
      <4>1. sums # "none"
        BY <2>0, <3>1 DEF SumsOf
      <4> QED
        BY <1>0, <3>1, <3>5, <4>1 DEF ContentSummed
    <3> QED
      BY <3>1, <3>3, <3>4, <3>6, <3>7 DEF StressInv
  <2>9. CASE RemoveSums(q)
    <3>1. /\ at[q] = "rm sums" /\ at' = [at EXCEPT ![q] = IF q \in alive THEN "rm" ELSE "over"]
          /\ at'[q] \in {"rm", "over"}
      BY <1>0, <2>9 DEF RemoveSums, Goes, TypeOK
    <3>2. tmp' = [tmp EXCEPT ![q] = "none"] /\ tmp'[q] = "none" /\ "none" \in Sums
      BY <1>0, <2>0, <2>9 DEF RemoveSums, TypeOK, Sums
    <3>3. InHand(q)' /\ SumsOf(q)'
      BY <2>0, <2>9, <3>1, <3>2 DEF RemoveSums, InHand, SumsOf
    <3> QED
      BY <2>0, <2>9, <3>1, <3>2, <3>3, StepOfOne DEF RemoveSums, Goes, Commands
  <2> QED
    BY <1>8, <2>1, <2>2, <2>3, <2>4, <2>5, <2>6, <2>7, <2>8, <2>9 DEF Process
<1>9. CASE UNCHANGED vars
  <2>1. Processes' = Processes
    BY <1>9 DEF vars, Processes
  <2> QED
    BY <1>9, <2>1 DEF vars, StressInv, TypeOK, ContentSummed, Started, InHand, SumsOf, AllOrNone
<1> QED
  BY <1>1, <1>2, <1>3, <1>4, <1>5, <1>6, <1>7, <1>8, <1>9 DEF Next, Script

\* For any number of processes, whatever the settings: as long as commands do not fail, whoever
\* reports a miscompare holds a copy that is not the content, and it stays there to be looked at.
THEOREM NoFalseAlarmAlways == Spec => []NoFalseAlarm
<1>1. StressInv => NoFalseAlarm
  BY DEF StressInv, TypeOK, InHand, NoFalseAlarm
<1> QED
  BY <1>1, StressInitInv, StressStepInv, PTL DEF Spec

\* For any number of processes: a damaged or missing copy is taken for a good one only when
\* commands fail and either the sums of the content are not all there or an earlier run with
\* the same process id has left good ones in /tmp.
THEOREM NothingMissedAlways == Spec => []NothingMissed
<1>1. StressInv => NothingMissed
  <2> SUFFICES ASSUME StressInv, NEW q \in Processes, at[q] = "rm sums",
                      tree[q] \in {"none", "differs"}
               PROVE  setting.failing /\ (sums = "partial" \/ setting.left = "same")
    BY DEF StressInv, NothingMissed
  <2>1. InHand(q) /\ SumsOf(q) /\ TypeOK
    BY DEF StressInv
  <2> QED
    BY <2>1 DEF InHand, SumsOf, TypeOK
<1> QED
  BY <1>1, StressInitInv, StressStepInv, PTL DEF Spec

\* When they are stopped no shell is left.
LEMMA StoppedDead == StressInv /\ Stopped => alive = {} /\ pc \in {"ended", "died"}
<1> SUFFICES ASSUME StressInv, Stopped PROVE alive = {} /\ pc \in {"ended", "died"}
  OBVIOUS
<1>1. AllOrNone /\ TypeOK
  BY DEF StressInv
<1>2. CASE pc = "ended"
  BY <1>1, <1>2 DEF AllOrNone
<1>3. CASE pc # "ended"
  BY <1>1, <1>3 DEF Stopped, AllOrNone, TypeOK
<1> QED
  BY <1>2, <1>3

\* For any number of processes: once ^C or the first miscompare has stopped them, each process
\* does at most the command it was in, and starts no other.
THEOREM StopsTogetherAlways == Spec => StopsTogether
<1>1. StressInv /\ [Next]_vars =>
          [\A q \in Processes : Stopped /\ at'[q] # at[q] => at'[q] = "over"]_vars
  <2> SUFFICES ASSUME StressInv, Next, Stopped, NEW q \in Processes, at'[q] # at[q]
               PROVE  at'[q] = "over"
    BY DEF vars
  <2>1. alive = {} /\ pc \in {"ended", "died"} /\ TypeOK
    BY StoppedDead DEF StressInv
  <2>2. CASE Script
    BY <2>1, <2>2 DEF Script, SetUp, SumContent, Fork, SetTrap, InterruptEarly, Interrupt, EndOfWait
  <2>3. ASSUME NEW r \in Processes, Process(r) PROVE at'[q] = "over"
    <3>1. at' = [at EXCEPT ![r] = "over"]
      BY <2>1, <2>3 DEF Process, NotStarted, Sleep, Remove, Copy, Sum, Compare, Miscompare,
                        KillAll, RemoveSums, Goes
    <3> QED
      BY <2>1, <3>1 DEF TypeOK
  <2>4. CASE UNCHANGED vars
    BY <2>4 DEF vars
  <2> QED
    BY <2>2, <2>3, <2>4 DEF Next
<1> QED
  BY <1>1, StressInitInv, StressStepInv, PTL DEF Spec, StopsTogether
=============================================================================

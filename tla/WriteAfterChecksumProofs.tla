---------------------- MODULE WriteAfterChecksumProofs ----------------------
(***************************************************************************)
(* The theorems about write-after-checksum: no request reaches behind the  *)
(* end of the file and each sync covers its write, no child ends without a *)
(* cause, and every end is reported once, for any number of children, any  *)
(* sizes and any width of the offsets.                                     *)
(***************************************************************************)
EXTENDS WriteAfterChecksum, FiniteSetTheorems, TLAPS

Codes == {0, Signal} \cup 64 .. 68 \cup 96 .. 102
Asked == [offset : 0 .. Word - 1, len : Nat]
Over == {"none", "zombie", "reaped"}

Shapes ==
    /\ options \in Options
    /\ at \in [Children -> Places]
    /\ io \in [Children -> Asked] /\ dirty \in [Children -> Asked]
    /\ code \in [Children -> Codes]

\* The file only grows up to the length asked for.
FileInv ==
    /\ size \in Nat
    /\ Sound => size <= options.file_size
    /\ Sound /\ options.faults = "none" => size = options.file_size

\* The request of child c, when it is to write and when it is to sync.
Inside(c) == io[c].offset + io[c].len <= options.file_size

Piece(c) ==
    /\ at[c] = "io" /\ Sound =>
          /\ Inside(c)
          /\ options.direct => io[c].offset % options.bufsize = 0 /\ io[c].len = options.bufsize
    /\ at[c] = "range" =>
          /\ io[c].offset <= dirty[c].offset
          /\ dirty[c].offset + dirty[c].len <= io[c].offset + io[c].len
          /\ ~IsWriter(c) => io[c].offset % page_size = 0 /\ (Sound => Inside(c))

\* What ends a child with a sound command line and without failing calls.
Cause(c) ==
    Sound /\ options.faults # "calls" =>
        ~IsWriter(c) /\ options.faults = "fallocate" /\ code[c] = Signal

Ended(c) == at[c] \in {"zombie", "reaped"} => code[c] # 0 /\ Cause(c)

Quiet == \A c \in Children : at[c] \in {"none", "reaped"}

\* The loops of the first process.
MainInv ==
    /\ pc \in {"fork", "wait", "write_junk", "done"} /\ i \in 0 .. Waits
    /\ status \in Codes \cup {ENOSPC} /\ reports \in Seq(Nat \X (Codes \cup {ENOSPC}))
    /\ pc = "fork" =>
          /\ options.nthreads # 1 /\ reports = <<>> /\ i < Waits
          /\ \A c \in Children : at[c] # "reaped" /\ (c > i => at[c] = "none")
    /\ pc = "wait" => options.nthreads # 1 /\ i = Len(reports) /\ i < Waits
    /\ pc = "write_junk" =>
          /\ options.nthreads = 1 /\ reports = <<>>
          /\ \A c \in Children : IF c = 1 THEN at[c] \notin Over ELSE at[c] = "none"
    /\ pc = "done" =>
          IF options.nthreads = 1 THEN reports = <<>> /\ Quiet ELSE Len(reports) = Waits

\* The lines that name no child, and the children that are named.
Zeros == {k \in DOMAIN reports : reports[k][1] = 0}
Reaped == {c \in Children : at[c] = "reaped"}

ReportsInv ==
    /\ \A k \in DOMAIN reports :
          reports[k][1] # 0 =>
            /\ reports[k][1] \in Reaped /\ reports[k][2] = code[reports[k][1]]
            /\ \A l \in DOMAIN reports : reports[k][1] = reports[l][1] => k = l
    /\ options.nthreads # 1 =>
          /\ \A c \in Reaped : \E k \in DOMAIN reports : reports[k][1] = c
          /\ Cardinality(Zeros) + Cardinality(Reaped) = Len(reports)
    /\ Zeros # {} => Quiet

WacInv ==
    /\ Shapes /\ FileInv /\ MainInv /\ ReportsInv
    /\ \A c \in Children : Piece(c) /\ Ended(c)

-----------------------------------------------------------------------------
(* Arithmetic, and what the command line is. *)

LEMMA Modulo ==
    ASSUME NEW w \in Nat \ {0}, NEW m \in Int
    PROVE  /\ m % w \in 0 .. w - 1
           /\ 0 <= m /\ m < w => m % w = m
           /\ m = (m \div w) * w + (m % w) /\ (m \div w) * w \in Int
           /\ ((m \div w) * w) % w = 0
           /\ 0 <= m => 0 <= (m \div w) * w
<1>1. /\ m % w \in 0 .. w - 1 /\ (0 <= m /\ m < w => m % w = m)
  OBVIOUS
<1>2. m = (m \div w) * w + (m % w) /\ (m \div w) * w \in Int
  OBVIOUS
<1>3. ((m \div w) * w) % w = 0
  OBVIOUS
<1>4. 0 <= m => 0 <= (m \div w) * w
  OBVIOUS
<1> QED
  BY <1>1, <1>2, <1>3, <1>4

LEMMA OptionTypes ==
    ASSUME options \in Options
    PROVE  /\ options.nthreads \in Nat /\ options.mthreads \in Nat
           /\ options.file_size \in Nat \ {0} /\ options.file_size < Word \div 2
           /\ options.bufsize \in Nat \ {0}
           /\ options.faults \in {"none", "fallocate", "calls"}
           /\ Word \in Nat \ {0} /\ Word \div 2 \in Nat /\ Word \div 2 <= Word
           /\ page_size \in Nat \ {0}
           /\ Waits \in Nat /\ Children = 1 .. Waits
           /\ IsFiniteSet(Children) /\ Cardinality(Children) = Waits
<1>1. /\ options.nthreads \in Nat /\ options.mthreads \in Nat
      /\ options.file_size \in 1 .. Word \div 2 - 1 /\ options.bufsize \in Nat \ {0}
      /\ options.faults \in {"none", "fallocate", "calls"}
      /\ Word \in Nat \ {0} /\ page_size \in Nat \ {0}
  BY OptionsAssumption, SizesAssumption
<1>2. Word \div 2 \in Nat /\ Word \div 2 <= Word
  BY <1>1
<1>3. Waits \in Nat /\ Children = 1 .. Waits
  BY <1>1 DEF Waits, Children
<1>4. IsFiniteSet(1 .. Waits) /\ Cardinality(1 .. Waits) = Waits
  BY <1>3, FS_Interval
<1> QED
  BY <1>1, <1>2, <1>3, <1>4

\* A page that holds the end of something holds all of it.
LEMMA Pages ==
    ASSUME page_size \in Nat \ {0}, NEW n \in Nat
    PROVE  /\ PageStart(n) \in Nat /\ PageStart(n) <= n /\ PageStart(n) % page_size = 0
           /\ n = PageStart(n) + (n % page_size) /\ n % page_size \in Nat
           /\ PageEnd(n) \in Nat /\ n <= PageEnd(n)
<1>1. /\ n % page_size \in 0 .. page_size - 1 /\ PageStart(n) \in Int
      /\ n = PageStart(n) + (n % page_size) /\ PageStart(n) % page_size = 0
      /\ 0 <= PageStart(n)
  <2>1. n \in Int /\ 0 <= n
    OBVIOUS
  <2> QED
    BY <2>1, Modulo DEF PageStart
<1> DEFINE m == n + page_size - 1
<1>2. m \in Int /\ 0 <= m
  OBVIOUS
<1>3. /\ m % page_size \in 0 .. page_size - 1 /\ PageStart(m) \in Int
      /\ m = PageStart(m) + (m % page_size) /\ 0 <= PageStart(m)
  <2> HIDE DEF m
  <2> QED
    BY <1>2, Modulo DEF PageStart
<1>4. PageEnd(n) = PageStart(m)
  BY DEF PageEnd
<1>5. n <= PageStart(m)
  BY <1>3
<1> QED
  BY <1>1, <1>3, <1>4, <1>5

\* What a child asks for: inside of a file that holds it, and whole blocks with -d.
LEMMA RequestOK ==
    ASSUME options \in Options, NEW r \in Requests
    PROVE  /\ r \in Asked
           /\ Sound => /\ r.offset + r.len <= options.file_size
                       /\ options.direct => r.offset % options.bufsize = 0 /\ r.len = options.bufsize
<1>0. TextLens \subseteq Nat \ {0}
  BY SizesAssumption
<1>1. ASSUME NEW l \in Nat, NEW o \in get_randnum((options.file_size - l) % Word)
      PROVE  o \in 0 .. Word - 1 /\ (options.file_size >= l => o + l <= options.file_size)
  <2> DEFINE m == options.file_size - l
  <2>1. m \in Int /\ m < Word /\ Word \in Nat \ {0} /\ (options.file_size >= l => m >= 0)
    BY OptionTypes
  <2>2. m % Word \in 0 .. Word - 1 /\ (m >= 0 => m % Word = m)
    <3> HIDE DEF m
    <3> QED
      BY <2>1, Modulo
  <2>3. o \in 0 .. Word - 1 /\ (m >= 0 => o <= m)
    <3>1. o \in get_randnum(m % Word)
      OBVIOUS
    <3> HIDE DEF m
    <3> QED
      BY <2>1, <2>2, <3>1 DEF get_randnum
  <2> QED
    BY <2>1, <2>3, OptionTypes
<1>2. CASE options.direct
  <2> DEFINE b == options.bufsize
             m == (options.file_size - b) % Word
  <2>1. PICK o \in get_randnum_align(m, b) : r = [offset |-> o, len |-> b]
    BY <1>2 DEF Requests
  <2>2. PICK q \in get_randnum(m) : o = (q \div b) * b
    BY <2>1 DEF get_randnum_align
  <2>3. b \in Nat \ {0} /\ q \in 0 .. Word - 1 /\ (options.file_size >= b => q + b <= options.file_size)
    BY <1>1, <2>2, OptionTypes
  <2>4. o \in Int /\ o <= q /\ 0 <= o /\ o % b = 0
    <3>1. q \in Int /\ 0 <= q
      BY <2>3
    <3>2. /\ q % b \in 0 .. b - 1 /\ q = (q \div b) * b + (q % b) /\ (q \div b) * b \in Int
          /\ ((q \div b) * b) % b = 0 /\ 0 <= (q \div b) * b
      BY <2>3, <3>1, Modulo
    <3> HIDE DEF b
    <3> QED
      BY <2>2, <2>3, <3>2
  <2>5. o \in 0 .. Word - 1 /\ (options.file_size >= b => o + b <= options.file_size)
    BY <2>3, <2>4, OptionTypes
  <2> QED
    BY <2>1, <2>3, <2>4, <2>5 DEF Asked, Sound
<1>3. CASE ~options.direct
  <2>1. PICK l \in TextLens : \E o \in get_randnum((options.file_size - l) % Word) :
                                  r = [offset |-> o, len |-> l]
    BY <1>3 DEF Requests
  <2>2. PICK o \in get_randnum((options.file_size - l) % Word) : r = [offset |-> o, len |-> l]
    BY <2>1
  <2>3. o \in 0 .. Word - 1 /\ (options.file_size >= l => o + l <= options.file_size)
    BY <1>0, <1>1
  <2> QED
    BY <1>0, <1>3, <2>2, <2>3 DEF Asked, Sound
<1> QED
  BY <1>2, <1>3
-----------------------------------------------------------------------------
(* The invariant. *)

LEMMA OptionsStay ==
    ASSUME options' = options
    PROVE  Children' = Children /\ Waits' = Waits /\ Sound' = Sound
  BY DEF Children, Waits, Sound, CanAlign

LEMMA WacInitInv == Init => WacInv
<1> SUFFICES ASSUME Init PROVE WacInv
  OBVIOUS
<1>1. /\ options \in Options
      /\ size \in IF options.faults = "none" THEN {options.file_size} ELSE 0 .. options.file_size
      /\ status \in {0, ENOSPC}
      /\ pc = IF options.nthreads = 1 THEN "write_junk"
              ELSE IF Children = {} THEN "done" ELSE "fork"
      /\ i = 0 /\ reports = <<>>
      /\ at = [c \in Children |-> IF pc = "write_junk" /\ c = 1 THEN First(1) ELSE "none"]
      /\ io = [c \in Children |-> Nowhere] /\ dirty = io
      /\ code = [c \in Children |-> 0]
  BY DEF Init
<1>2. First(1) \in {"alloc", "sysconf"}
  BY DEF First
<1>3. Nowhere \in Asked
  BY <1>1, OptionTypes DEF Nowhere, Asked
<1>4. Shapes
  BY <1>1, <1>2, <1>3 DEF Shapes, Places, Codes
<1>5. FileInv
  BY <1>1, OptionTypes DEF FileInv
<1>6. ASSUME NEW c \in Children PROVE Piece(c) /\ Ended(c)
  <2>1. at[c] \in {"none", "alloc", "sysconf"}
    BY <1>1, <1>2
  <2> QED
    BY <2>1 DEF Piece, Ended
<1>7. Children = {} <=> Waits = 0
  <2>1. Waits \in Nat /\ Children = 1 .. Waits
    BY <1>1, OptionTypes
  <2> QED
    BY <2>1
<1>8. MainInv
  <2>1. Waits \in Nat /\ i \in 0 .. Waits /\ Len(reports) = 0
        /\ status \in Codes \cup {ENOSPC} /\ reports \in Seq(Nat \X (Codes \cup {ENOSPC}))
    BY <1>1, OptionTypes DEF Codes
  <2>2. CASE options.nthreads = 1
    <3>1. pc = "write_junk" /\ \A c \in Children : IF c = 1 THEN at[c] \notin Over ELSE at[c] = "none"
      BY <1>1, <1>2, <2>2 DEF Over
    <3> QED
      BY <1>1, <2>1, <2>2, <3>1 DEF MainInv
  <2>3. CASE options.nthreads # 1
    <3>1. \A c \in Children : at[c] = "none"
      BY <1>1, <2>3
    <3>2. pc \in {"done", "fork"} /\ (pc = "done" => Waits = 0) /\ (pc = "fork" => Waits # 0)
      BY <1>1, <1>7, <2>3
    <3>3. pc = "fork" => i < Waits
      BY <1>1, <2>1, <3>2
    <3> QED
      BY <1>1, <2>1, <2>3, <3>1, <3>2, <3>3 DEF MainInv
  <2> QED
    BY <2>2, <2>3
<1>9. ReportsInv
  <2>1. DOMAIN reports = {} /\ Zeros = {} /\ Len(reports) = 0
    BY <1>1 DEF Zeros
  <2>2. Reaped = {}
    BY <1>1, <1>2 DEF Reaped
  <2> QED
    BY <2>1, <2>2, FS_EmptySet DEF ReportsInv
<1> QED
  BY <1>4, <1>5, <1>6, <1>8, <1>9 DEF WacInv

\* When the first process has counted to the end no child is left.
LEMMA DoneIsQuiet ==
    ASSUME Shapes, MainInv, ReportsInv, pc = "done"
    PROVE  Quiet
<1>1. CASE options.nthreads = 1
  BY <1>1 DEF MainInv
<1>2. CASE Zeros # {}
  BY <1>2 DEF ReportsInv
<1>3. CASE options.nthreads # 1 /\ Zeros = {}
  <2>1. Cardinality(Reaped) = Waits
    <3>1. Cardinality(Zeros) = 0
      BY <1>3, FS_EmptySet
    <3>2. Cardinality(Zeros) + Cardinality(Reaped) = Waits
      BY <1>3 DEF MainInv, ReportsInv
    <3>3. Cardinality(Reaped) \in Nat
      <4>1. IsFiniteSet(Children) /\ Reaped \subseteq Children
        BY OptionTypes DEF Shapes, Reaped
      <4> QED
        BY <4>1, FS_Subset, FS_CardinalityType
    <3> QED
      BY <3>1, <3>2, <3>3
  <2>2. IsFiniteSet(Children) /\ Cardinality(Children) = Waits /\ Reaped \in SUBSET Children
    BY OptionTypes DEF Shapes, Reaped
  <2>3. Reaped = Children
    BY <2>1, <2>2, FS_Subset
  <2> QED
    BY <2>3 DEF Reaped, Quiet
<1> QED
  BY <1>1, <1>2, <1>3

LEMMA StepOfChild ==
    ASSUME WacInv, NEW c \in Children, at[c] \notin Over,
           options' = options, i' = i, status' = status, reports' = reports,
           \A b \in Children \ {c} : /\ at'[b] = at[b] /\ io'[b] = io[b]
                                    /\ dirty'[b] = dirty[b] /\ code'[b] = code[b],
           Shapes', FileInv', Piece(c)', Ended(c)',
           \/ pc' = pc /\ at'[c] \notin {"none", "reaped"}
              /\ (pc = "write_junk" => at'[c] \notin Over)
           \/ pc = "write_junk" /\ pc' = "done" /\ at'[c] = "reaped"
    PROVE  WacInv'
<1>1. Shapes /\ MainInv /\ ReportsInv
  BY DEF WacInv
<1>2. ~Quiet
  BY DEF Quiet, Over
<1>3. pc # "done" /\ Zeros = {}
  BY <1>1, <1>2, DoneIsQuiet DEF ReportsInv
<1>4. Children' = Children /\ Waits' = Waits /\ Sound' = Sound /\ Zeros' = Zeros
  BY OptionsStay DEF Zeros
<1>5. ASSUME NEW b \in Children PROVE Piece(b)' /\ Ended(b)'
  <2>1. CASE b = c
    BY <2>1
  <2>2. CASE b # c
    <3>1. Piece(b) /\ Ended(b)
      BY DEF WacInv
    <3>2. at'[b] = at[b] /\ io'[b] = io[b] /\ dirty'[b] = dirty[b] /\ code'[b] = code[b]
      BY <2>2
    <3>3. Piece(b)'
      BY <1>4, <3>1, <3>2 DEF Piece, Inside, IsWriter
    <3>4. Ended(b)'
      BY <1>4, <3>1, <3>2 DEF Ended, Cause, IsWriter
    <3> QED
      BY <3>3, <3>4
  <2> QED
    BY <2>1, <2>2
<1>6. CASE pc' = pc /\ at'[c] \notin {"none", "reaped"} /\ (pc = "write_junk" => at'[c] \notin Over)
  <2>1. at[c] # "none" /\ at[c] # "reaped"
    BY DEF Over
  <2>2. Reaped' = Reaped /\ c \notin Reaped
    BY <1>4, <1>6, <2>1 DEF Reaped
  <2>3. MainInv'
    <3>1. /\ pc = "fork" => \A b \in Children : at'[b] # "reaped" /\ (b > i => at'[b] = "none")
          /\ pc = "write_junk" =>
                \A b \in Children : IF b = 1 THEN at'[b] \notin Over ELSE at'[b] = "none"
      BY <1>1, <1>6, <2>1 DEF MainInv
    <3> QED
      BY <1>1, <1>3, <1>4, <1>6, <3>1 DEF MainInv
  <2>4. ReportsInv'
    <3>1. ASSUME NEW k \in DOMAIN reports, reports[k][1] # 0
          PROVE  /\ reports[k][1] \in Reaped /\ reports[k][2] = code'[reports[k][1]]
                 /\ \A l \in DOMAIN reports : reports[k][1] = reports[l][1] => k = l
      <4>1. /\ reports[k][1] \in Reaped /\ reports[k][2] = code[reports[k][1]]
            /\ \A l \in DOMAIN reports : reports[k][1] = reports[l][1] => k = l
        BY <1>1, <3>1 DEF ReportsInv
      <4>2. reports[k][1] \in Children \ {c}
        BY <2>2, <4>1 DEF Reaped
      <4> QED
        BY <4>1, <4>2
    <3> QED
      BY <1>1, <1>3, <1>4, <2>2, <3>1 DEF ReportsInv
  <2> QED
    BY <1>4, <1>5, <2>3, <2>4 DEF WacInv
<1>7. CASE pc = "write_junk" /\ pc' = "done" /\ at'[c] = "reaped"
  <2>1. /\ options.nthreads = 1 /\ reports = <<>> /\ at[c] # "none"
        /\ \A b \in Children : b # 1 => at[b] = "none"
    BY <1>1, <1>7 DEF MainInv, Over
  <2>2. Quiet'
    BY <1>4, <1>7, <2>1 DEF Quiet
  <2>3. MainInv'
    BY <1>1, <1>4, <1>7, <2>1, <2>2 DEF MainInv
  <2>4. ReportsInv'
    BY <1>3, <1>4, <2>1 DEF ReportsInv
  <2> QED
    BY <1>4, <1>5, <2>3, <2>4 DEF WacInv
<1> QED
  BY <1>6, <1>7
LEMMA StepExits ==
    ASSUME WacInv, NEW c \in Children, at[c] \notin Over, NEW how \in Codes \ {0},
           Exits(c, how), size' = size,
           Sound /\ options.faults # "calls" =>
               ~IsWriter(c) /\ options.faults = "fallocate" /\ how = Signal
    PROVE  WacInv'
<1> DEFINE w == IF pc = "write_junk" THEN "reaped" ELSE "zombie"
<1>1. /\ at' = [at EXCEPT ![c] = w] /\ code' = [code EXCEPT ![c] = how]
      /\ io' = [io EXCEPT ![c] = Nowhere] /\ dirty' = [dirty EXCEPT ![c] = Nowhere]
      /\ pc' = IF pc = "write_junk" THEN "done" ELSE pc
      /\ options' = options /\ i' = i /\ status' = status /\ reports' = reports
  BY DEF Exits
<1>2. Shapes /\ FileInv /\ options \in Options
  BY DEF WacInv, Shapes
<1>3. Nowhere \in Asked /\ w \in Places
  BY <1>2, OptionTypes DEF Nowhere, Asked, Places
<1>4. Children' = Children /\ Waits' = Waits /\ Sound' = Sound
  BY <1>1, OptionsStay
<1>5. Shapes'
  BY <1>1, <1>2, <1>3, <1>4 DEF Shapes
<1>6. FileInv'
  BY <1>1, <1>2, <1>4 DEF FileInv
<1>7. at'[c] = w /\ code'[c] = how
  BY <1>1, <1>2 DEF Shapes
<1>8. Piece(c)' /\ Ended(c)'
  BY <1>1, <1>4, <1>7 DEF Piece, Ended, Cause, IsWriter
<1>9. \A b \in Children \ {c} : /\ at'[b] = at[b] /\ io'[b] = io[b]
                               /\ dirty'[b] = dirty[b] /\ code'[b] = code[b]
  BY <1>1, <1>2 DEF Shapes
<1> QED
  BY <1>1, <1>5, <1>6, <1>7, <1>8, <1>9, StepOfChild

LEMMA StepContinues ==
    ASSUME WacInv, NEW c \in Children, at[c] \notin Over, NEW where \in Places \ Over,
           Continues(c, where), io' \in [Children -> Asked], dirty' \in [Children -> Asked],
           \A b \in Children \ {c} : io'[b] = io[b] /\ dirty'[b] = dirty[b],
           FileInv', Piece(c)'
    PROVE  WacInv'
<1>1. /\ at' = [at EXCEPT ![c] = where] /\ code' = code /\ options' = options
      /\ pc' = pc /\ i' = i /\ status' = status /\ reports' = reports
  BY DEF Continues, mainVars
<1>2. Shapes
  BY DEF WacInv
<1>3. Children' = Children
  BY <1>1, OptionsStay
<1>4. Shapes'
  BY <1>1, <1>2, <1>3 DEF Shapes
<1>5. at'[c] = where /\ where \notin Over
  BY <1>1, <1>2 DEF Shapes
<1>6. Ended(c)'
  BY <1>5 DEF Ended, Over
<1>7. at'[c] \notin {"none", "reaped"}
  BY <1>5 DEF Over
<1>8. \A b \in Children \ {c} : /\ at'[b] = at[b] /\ io'[b] = io[b]
                               /\ dirty'[b] = dirty[b] /\ code'[b] = code[b]
  BY <1>1, <1>2 DEF Shapes
<1> QED
  BY <1>1, <1>4, <1>5, <1>6, <1>7, <1>8, StepOfChild

\* A child that goes on to a place where nothing is asked of its request.
LEMMA StepGoesOn ==
    ASSUME WacInv, NEW c \in Children, at[c] \notin Over,
           NEW where \in Places \ (Over \cup {"io", "range"}),
           Continues(c, where), io' = io, dirty' = dirty, size' = size
    PROVE  WacInv'
<1>1. Shapes /\ FileInv /\ options' = options /\ at' = [at EXCEPT ![c] = where]
  BY DEF WacInv, Continues
<1>2. FileInv'
  BY <1>1, OptionsStay DEF FileInv
<1>3. at'[c] = where
  BY <1>1 DEF Shapes
<1>4. Piece(c)'
  BY <1>3 DEF Piece
<1>5. /\ io' \in [Children -> Asked] /\ dirty' \in [Children -> Asked]
      /\ \A b \in Children \ {c} : io'[b] = io[b] /\ dirty'[b] = dirty[b]
  BY <1>1 DEF Shapes
<1>6. where \in Places \ Over
  OBVIOUS
<1> QED
  BY <1>2, <1>4, <1>5, <1>6, StepContinues

ChildStep(c) == SetUp(c) \/ Request(c) \/ PWrite(c) \/ Memcpy(c) \/ SyncRange(c) \/ SyncFile(c)
                \/ CallFails(c)

LEMMA ChildStepInv ==
    ASSUME WacInv, NEW c \in Children, ChildStep(c)
    PROVE  WacInv'
<1>0. Shapes /\ FileInv /\ options \in Options /\ Piece(c) /\ io[c] \in Asked /\ dirty[c] \in Asked
  BY DEF WacInv, Shapes
<1>1. CASE SetUp(c)
  <2>1. at[c] \in {"alloc", "open", "sysconf", "mmap"} /\ at[c] \notin Over /\ size' = size
    BY <1>1 DEF SetUp, Following, Over
  <2>2. CASE at[c] = "alloc" /\ ~CanAlign(options.bufsize)
    <3>1. Exits(c, ExitStatus(c).alloc) /\ ~Sound
      BY <1>1, <2>2 DEF SetUp, Sound
    <3>2. ExitStatus(c).alloc \in Codes \ {0}
      BY DEF ExitStatus, Codes
    <3> QED
      BY <2>1, <3>1, <3>2, StepExits
  <2>3. CASE ~(at[c] = "alloc" /\ ~CanAlign(options.bufsize))
    <3>1. Continues(c, Following(c)[at[c]]) /\ io' = io /\ dirty' = dirty
      BY <1>1, <2>3 DEF SetUp
    <3>2. Following(c)[at[c]] \in {"open", "next", "alloc", "mmap"}
      BY <1>1 DEF SetUp, Following
    <3>3. Following(c)[at[c]] \in Places \ (Over \cup {"io", "range"})
      BY <3>2 DEF Places, Over
    <3> QED
      BY <2>1, <3>1, <3>3, StepGoesOn
  <2> QED
    BY <2>2, <2>3
<1>2. CASE Request(c)
  <2>1. /\ at[c] = "next" /\ Continues(c, "io") /\ dirty' = dirty /\ size' = size
        /\ options' = options
    BY <1>2 DEF Request, Continues
  <2>2. PICK r \in Requests : io' = [io EXCEPT ![c] = r]
    BY <1>2 DEF Request
  <2>3. /\ r \in Asked
        /\ Sound => /\ r.offset + r.len <= options.file_size
                    /\ options.direct => r.offset % options.bufsize = 0 /\ r.len = options.bufsize
    BY <1>0, RequestOK
  <2>4. /\ io' \in [Children -> Asked] /\ dirty' \in [Children -> Asked] /\ io'[c] = r
        /\ \A b \in Children \ {c} : io'[b] = io[b] /\ dirty'[b] = dirty[b]
    BY <1>0, <2>1, <2>2, <2>3 DEF Shapes
  <2>5. FileInv'
    BY <1>0, <2>1, OptionsStay DEF FileInv
  <2>6. at'[c] = "io"
    BY <1>0, <2>1 DEF Continues, Shapes
  <2>7. Piece(c)'
    BY <2>1, <2>3, <2>4, <2>6, OptionsStay DEF Piece, Inside
  <2>8. at[c] \notin Over /\ "io" \in Places \ Over
    BY <2>1 DEF Over, Places
  <2> QED
    BY <2>1, <2>4, <2>5, <2>7, <2>8, StepContinues
<1>3. CASE PWrite(c)
  <2>1. at[c] = "io" /\ IsWriter(c) /\ at[c] \notin Over
    BY <1>3 DEF PWrite, Over
  <2> DEFINE accepted == /\ io[c].offset < Word \div 2
                         /\ options.direct => io[c].offset % options.bufsize = 0
  <2>2. Sound => accepted /\ Inside(c)
    <3>1. Sound => Inside(c) /\ (options.direct => io[c].offset % options.bufsize = 0)
      BY <1>0, <2>1 DEF Piece
    <3>2. io[c].offset \in Nat /\ io[c].len \in Nat
      BY <1>0, OptionTypes DEF Asked
    <3>3. Inside(c) => io[c].offset < Word \div 2
      BY <1>0, <3>2, OptionTypes DEF Inside
    <3> QED
      BY <3>1, <3>3
  <2>3. CASE ~accepted
    <3>1. Exits(c, 65) /\ size' = size /\ ~Sound
      BY <1>3, <2>2, <2>3 DEF PWrite
    <3>2. 65 \in Codes \ {0}
      BY DEF Codes
    <3> QED
      BY <2>1, <3>1, <3>2, StepExits
  <2>4. CASE accepted
    <3>1. Continues(c, AfterIO) /\ io' = io /\ options' = options
      BY <1>3, <2>4 DEF PWrite, Continues
    <3>2. PICK n \in 1 .. io[c].len :
            /\ dirty' = [dirty EXCEPT ![c] = [offset |-> io[c].offset, len |-> n]]
            /\ size' = IF io[c].offset + n > size THEN io[c].offset + n ELSE size
      BY <1>3, <2>4 DEF PWrite
    <3>3. /\ io[c].offset \in 0 .. Word - 1 /\ io[c].offset \in Nat /\ io[c].len \in Nat
          /\ n \in Nat /\ n <= io[c].len
      BY <1>0, OptionTypes DEF Asked
    <3>4. [offset |-> io[c].offset, len |-> n] \in Asked
      BY <3>3 DEF Asked
    <3>5. /\ io' \in [Children -> Asked] /\ dirty' \in [Children -> Asked]
          /\ dirty'[c] = [offset |-> io[c].offset, len |-> n]
          /\ \A b \in Children \ {c} : io'[b] = io[b] /\ dirty'[b] = dirty[b]
      BY <1>0, <3>1, <3>2, <3>4 DEF Shapes
    <3>6. FileInv'
      <4>1. Sound => io[c].offset + n <= options.file_size
        <5> DEFINE o == io[c].offset
                   l == io[c].len
        <5>1. Sound => o + l <= options.file_size
          BY <2>2 DEF Inside
        <5>2. /\ o \in Nat /\ l \in Nat /\ n \in Nat /\ n <= l /\ options.file_size \in Nat
          BY <1>0, <3>3, OptionTypes
        <5> HIDE DEF o, l
        <5>3. Sound => o + n <= options.file_size
          BY <5>1, <5>2
        <5> QED
          BY <5>3 DEF o
      <4>2. size \in Nat /\ size' \in Nat /\ size' >= size
        BY <1>0, <3>2, <3>3 DEF FileInv
      <4>3. Sound => size' <= options.file_size
        BY <1>0, <3>2, <4>1 DEF FileInv
      <4>4. Sound /\ options.faults = "none" => size' = options.file_size
        BY <1>0, <4>2, <4>3, OptionTypes DEF FileInv
      <4> QED
        BY <3>1, <4>2, <4>3, <4>4, OptionsStay DEF FileInv
    <3>7. AfterIO \in Places \ Over /\ AfterIO # "io"
      BY DEF AfterIO, AfterRange, Places, Over
    <3>8. at'[c] = AfterIO
      BY <1>0, <3>1 DEF Continues, Shapes
    <3>9. Piece(c)'
      <4>1. IsWriter(c)'
        BY <2>1, <3>1 DEF IsWriter
      <4>2. io[c].offset <= dirty'[c].offset
            /\ dirty'[c].offset + dirty'[c].len <= io[c].offset + io[c].len
        BY <3>3, <3>5
      <4> QED
        BY <3>1, <3>7, <3>8, <4>1, <4>2 DEF Piece
    <3> QED
      BY <2>1, <3>1, <3>5, <3>6, <3>7, <3>9, StepContinues
  <2> QED
    BY <2>3, <2>4
<1>4. CASE Memcpy(c)
  <2>1. at[c] = "io" /\ ~IsWriter(c) /\ at[c] \notin Over /\ size' = size
    BY <1>4 DEF Memcpy, Over
  <2>2. /\ io[c].offset \in Nat /\ io[c].len \in Nat /\ io[c].offset \in 0 .. Word - 1
        /\ page_size \in Nat \ {0} /\ options.file_size \in Nat
    BY <1>0, OptionTypes DEF Asked
  <2>3. CASE /\ dirty' = [dirty EXCEPT ![c] = io[c]]
             /\ io' = [io EXCEPT ![c] = Widened(io[c])]
             /\ Continues(c, AfterIO)
    <3>1. /\ PageStart(io[c].offset) \in Nat /\ PageStart(io[c].offset) <= io[c].offset
          /\ PageStart(io[c].offset) % page_size = 0 /\ io[c].offset % page_size \in Nat
          /\ io[c].offset = PageStart(io[c].offset) + (io[c].offset % page_size)
      BY <2>2, Pages
    <3>2. /\ Widened(io[c]) \in Asked
          /\ Widened(io[c]).offset = PageStart(io[c].offset)
          /\ Widened(io[c]).offset + Widened(io[c]).len = io[c].offset + io[c].len
      <4> DEFINE p == PageStart(io[c].offset)
                 q == io[c].offset % page_size
                 o == io[c].offset
                 l == io[c].len
      <4>1. Widened(io[c]) = [offset |-> p, len |-> l + q]
        BY DEF Widened
      <4>2. p \in 0 .. Word - 1 /\ l + q \in Nat /\ p + (l + q) = o + l
        <5>1. p \in Nat /\ p <= o /\ q \in Nat /\ o = p + q /\ o \in Nat /\ l \in Nat /\ o <= Word - 1
              /\ Word \in Nat
          BY <1>0, <2>2, <3>1, OptionTypes
        <5> HIDE DEF p, q, o, l
        <5> QED
          BY <5>1
      <4>3. [offset |-> p, len |-> l + q] \in Asked
        BY <4>2 DEF Asked
      <4> QED
        BY <4>1, <4>2, <4>3
    <3>3. /\ io' \in [Children -> Asked] /\ dirty' \in [Children -> Asked]
          /\ io'[c] = Widened(io[c]) /\ dirty'[c] = io[c] /\ options' = options
          /\ \A b \in Children \ {c} : io'[b] = io[b] /\ dirty'[b] = dirty[b]
      BY <1>0, <2>3, <3>2 DEF Shapes, Continues
    <3>4. FileInv'
      BY <1>0, <2>1, <3>3, OptionsStay DEF FileInv
    <3>5. AfterIO \in Places \ Over /\ AfterIO # "io"
      BY DEF AfterIO, AfterRange, Places, Over
    <3>6. at'[c] = AfterIO
      BY <1>0, <2>3 DEF Continues, Shapes
    <3>7. Piece(c)'
      <4>1. Sound => Inside(c)
        BY <1>0, <2>1 DEF Piece
      <4>2. Sound' => Inside(c)'
        BY <3>2, <3>3, <4>1, OptionsStay DEF Inside
      <4>3. /\ io'[c].offset <= dirty'[c].offset
            /\ dirty'[c].offset + dirty'[c].len <= io'[c].offset + io'[c].len
            /\ io'[c].offset % page_size = 0
        BY <2>2, <3>1, <3>2, <3>3
      <4> QED
        BY <3>5, <3>6, <4>2, <4>3 DEF Piece
    <3> QED
      BY <2>1, <2>3, <3>3, <3>4, <3>5, <3>7, StepContinues
  <2>4. CASE /\ ~Mapped(io[c]) \/ io[c].offset + io[c].len > PageEnd(size)
             /\ Exits(c, Signal)
    <3>1. ASSUME Sound, options.faults # "calls" PROVE options.faults = "fallocate"
      <4>1. Inside(c) /\ size \in Nat /\ (options.faults = "none" => size = options.file_size)
        BY <1>0, <2>1, <3>1 DEF Piece, FileInv
      <4>2. PageEnd(options.file_size) \in Nat /\ options.file_size <= PageEnd(options.file_size)
        BY <2>2, Pages
      <4>3. io[c].offset + io[c].len <= PageEnd(options.file_size)
        BY <2>2, <4>1, <4>2 DEF Inside
      <4>4. PageEnd(size) # PageEnd(options.file_size)
        BY <2>2, <2>4, <4>2, <4>3 DEF Mapped
      <4> QED
        BY <1>0, <3>1, <4>1, <4>4, OptionTypes
    <3>2. Signal \in Codes \ {0}
      BY DEF Signal, Codes
    <3> QED
      BY <2>1, <2>4, <3>1, <3>2, StepExits
  <2> QED
    BY <1>4, <2>3, <2>4 DEF Memcpy
<1>5. CASE SyncRange(c)
  <2>1. at[c] = "range" /\ at[c] \notin Over /\ size' = size
    BY <1>5 DEF SyncRange, Over
  <2>2. CASE IsWriter(c) \/ (Mapped(io[c]) /\ io[c].offset % page_size = 0)
    <3>1. Continues(c, AfterRange) /\ io' = io /\ dirty' = dirty
      BY <1>5, <2>2 DEF SyncRange
    <3>2. AfterRange \in Places \ (Over \cup {"io", "range"})
      BY DEF AfterRange, Places, Over
    <3> QED
      BY <2>1, <3>1, <3>2, StepGoesOn
  <2>3. CASE ~(IsWriter(c) \/ (Mapped(io[c]) /\ io[c].offset % page_size = 0))
    <3>1. Exits(c, 99)
      BY <1>5, <2>3 DEF SyncRange
    <3>2. ~Sound
      <4>1. Sound => Inside(c) /\ io[c].offset % page_size = 0
        BY <1>0, <2>1, <2>3 DEF Piece
      <4>2. /\ io[c].offset \in Nat /\ io[c].len \in Nat /\ page_size \in Nat \ {0}
            /\ options.file_size \in Nat
        BY <1>0, OptionTypes DEF Asked
      <4>3. PageEnd(options.file_size) \in Nat /\ options.file_size <= PageEnd(options.file_size)
        BY <4>2, Pages
      <4>4. Inside(c) => Mapped(io[c])
        BY <4>2, <4>3 DEF Inside, Mapped
      <4> QED
        BY <2>3, <4>1, <4>4
    <3>3. 99 \in Codes \ {0}
      BY DEF Codes
    <3> QED
      BY <2>1, <3>1, <3>2, <3>3, StepExits
  <2> QED
    BY <2>2, <2>3
<1>6. CASE SyncFile(c)
  <2>1. /\ at[c] = "file" /\ Continues(c, "next") /\ io' = io /\ dirty' = dirty /\ size' = size
    BY <1>6 DEF SyncFile
  <2>2. at[c] \notin Over /\ "next" \in Places \ (Over \cup {"io", "range"})
    BY <2>1 DEF Over, Places
  <2> QED
    BY <2>1, <2>2, StepGoesOn
<1>7. CASE CallFails(c)
  <2>1. /\ options.faults = "calls" /\ at[c] \in DOMAIN ExitStatus(c) /\ size' = size
        /\ Exits(c, ExitStatus(c)[at[c]])
    BY <1>7 DEF CallFails
  <2>2. /\ at[c] \in {"open", "io", "alloc", "range", "file", "mmap", "sysconf"}
        /\ ExitStatus(c)[at[c]] \in 64 .. 68 \cup 96 .. 102
    <3>1. CASE IsWriter(c)
      <4>1. ExitStatus(c) = [open |-> 64, io |-> 65, alloc |-> 66, range |-> 67, file |-> 68]
        BY <3>1 DEF ExitStatus
      <4> QED
        BY <2>1, <4>1
    <3>2. CASE ~IsWriter(c)
      <4>1. ExitStatus(c) = [open |-> 96, mmap |-> 97, range |-> 99, file |-> 100,
                             sysconf |-> 101, alloc |-> 102]
        BY <3>2 DEF ExitStatus
      <4> QED
        BY <2>1, <4>1
    <3> QED
      BY <3>1, <3>2
  <2>3. at[c] \notin Over /\ ExitStatus(c)[at[c]] \in Codes \ {0}
    BY <2>2 DEF Over, Codes
  <2> QED
    BY <2>1, <2>3, StepExits
<1> QED
  BY <1>1, <1>2, <1>3, <1>4, <1>5, <1>6, <1>7 DEF ChildStep
\* What one more line does to the reports.
LEMMA OneMore ==
    ASSUME WacInv, NEW c, NEW x, reports' = Append(reports, <<c, x>>)
    PROVE  /\ Len(reports) \in Nat /\ Len(reports') = Len(reports) + 1
           /\ DOMAIN reports = 1 .. Len(reports)
           /\ DOMAIN reports' = DOMAIN reports \cup {Len(reports) + 1}
           /\ Len(reports) + 1 \notin DOMAIN reports
           /\ \A k \in DOMAIN reports : reports'[k] = reports[k]
           /\ reports'[Len(reports) + 1] = <<c, x>>
<1> DEFINE S == Nat \X (Codes \cup {ENOSPC})
<1>1. reports \in Seq(S)
  BY DEF WacInv, MainInv
<1>2. reports' = Append(reports, <<c, x>>)
  OBVIOUS
<1> HIDE DEF S
<1>3. /\ Len(reports) \in Nat /\ DOMAIN reports = 1 .. Len(reports)
      /\ Len(reports') = Len(reports) + 1 /\ DOMAIN reports' = 1 .. Len(reports) + 1
      /\ \A k \in 1 .. Len(reports) : reports'[k] = reports[k]
      /\ reports'[Len(reports) + 1] = <<c, x>>
  BY <1>1, <1>2
<1>4. 1 .. Len(reports) + 1 = 1 .. Len(reports) \cup {Len(reports) + 1}
  BY <1>3
<1>5. Len(reports) + 1 \notin 1 .. Len(reports)
  BY <1>3
<1> QED
  BY <1>3, <1>4, <1>5

LEMMA StepReports ==
    ASSUME WacInv, pc = "wait", NEW c \in Nat, Reported(c), status' \in Codes \cup {ENOSPC},
           at' \in [Children -> Places],
           \A b \in Children : at'[b] = at[b] \/ (at[b] = "zombie" /\ at'[b] = "reaped"),
           ReportsInv'
    PROVE  WacInv'
<1>1. /\ reports' = Append(reports, <<c, status'>>) /\ i' = i + 1
      /\ pc' = IF i + 1 >= Waits THEN "done" ELSE "wait"
      /\ options' = options /\ io' = io /\ dirty' = dirty /\ code' = code /\ size' = size
  BY DEF Reported
<1>2. Shapes /\ FileInv /\ MainInv /\ options \in Options /\ Waits \in Nat
  BY OptionTypes DEF WacInv, Shapes
<1>3. Children' = Children /\ Waits' = Waits /\ Sound' = Sound
  BY <1>1, OptionsStay
<1>4. Shapes' /\ FileInv'
  BY <1>1, <1>2, <1>3 DEF Shapes, FileInv
<1>5. ASSUME NEW b \in Children PROVE Piece(b)' /\ Ended(b)'
  <2>1. Piece(b) /\ Ended(b) /\ (at'[b] = at[b] \/ (at[b] = "zombie" /\ at'[b] = "reaped"))
    BY DEF WacInv
  <2>2. Piece(b)'
    BY <1>1, <1>3, <2>1 DEF Piece, Inside, IsWriter
  <2>3. Ended(b)'
    BY <1>1, <1>3, <2>1 DEF Ended, Cause, IsWriter
  <2> QED
    BY <2>2, <2>3
<1>6. MainInv'
  <2>1. reports' \in Seq(Nat \X (Codes \cup {ENOSPC}))
    <3> DEFINE S == Nat \X (Codes \cup {ENOSPC})
    <3>1. reports \in Seq(S) /\ <<c, status'>> \in S
      BY <1>2 DEF MainInv
    <3> HIDE DEF S
    <3>2. Append(reports, <<c, status'>>) \in Seq(S)
      BY <3>1
    <3> QED
      BY <1>1, <3>2 DEF S
  <2>2. /\ options.nthreads # 1 /\ i = Len(reports) /\ i \in Nat /\ i < Waits
        /\ Len(reports') = i + 1
    BY <1>1, <1>2, OneMore DEF MainInv
  <2>3. i' \in 0 .. Waits' /\ (pc' = "wait" => i' < Waits') /\ (pc' = "done" => i' = Waits')
    BY <1>1, <1>2, <1>3, <2>2
  <2>4. pc' \in {"wait", "done"} /\ i' = Len(reports')
    BY <1>1, <2>2
  <2> QED
    BY <1>1, <1>3, <2>1, <2>2, <2>3, <2>4 DEF MainInv
<1> QED
  BY <1>3, <1>4, <1>5, <1>6 DEF WacInv

LEMMA MainStepInv == WacInv /\ Main => WacInv'
<1> SUFFICES ASSUME WacInv, Main PROVE WacInv'
  OBVIOUS
<1>0. /\ Shapes /\ FileInv /\ MainInv /\ ReportsInv /\ options \in Options
      /\ Waits \in Nat /\ Children = 1 .. Waits /\ Cardinality(Children) = Waits
  BY OptionTypes DEF WacInv, Shapes
<1>1. CASE Fork
  <2>1. /\ pc = "fork" /\ options' = options /\ status' = status /\ reports' = reports
        /\ io' = io /\ dirty' = dirty /\ code' = code /\ size' = size
        /\ at' = [at EXCEPT ![i + 1] = First(i + 1)] \/ at' = at
        /\ IF i + 1 \in Children \ {Cardinality(Children)} THEN i' = i + 1 /\ pc' = pc
                                                            ELSE i' = 0 /\ pc' = "wait"
    BY <1>1 DEF Fork
  <2>2. /\ options.nthreads # 1 /\ reports = <<>> /\ i \in 0 .. Waits /\ i < Waits
        /\ \A c \in Children : at[c] # "reaped" /\ (c > i => at[c] = "none")
    BY <1>0, <2>1 DEF MainInv
  <2>3. i + 1 \in Children /\ First(i + 1) \in {"alloc", "sysconf"}
    BY <1>0, <2>2 DEF First
  <2>4. Children' = Children /\ Waits' = Waits /\ Sound' = Sound /\ Zeros' = Zeros
    BY <2>1, OptionsStay DEF Zeros
  <2>5. /\ at' \in [Children -> Places]
        /\ \A c \in Children : at'[c] = at[c] \/ (c = i + 1 /\ at'[c] \in {"alloc", "sysconf"})
    BY <1>0, <2>1, <2>3 DEF Shapes, Places
  <2>6. Shapes' /\ FileInv'
    BY <1>0, <2>1, <2>4, <2>5 DEF Shapes, FileInv
  <2>7. ASSUME NEW c \in Children PROVE Piece(c)' /\ Ended(c)'
    <3>1. Piece(c) /\ Ended(c)
      BY DEF WacInv
    <3>2. at'[c] = at[c] \/ at'[c] \notin {"io", "range", "zombie", "reaped"}
      BY <2>5
    <3>3. Piece(c)'
      BY <2>1, <2>4, <3>1, <3>2 DEF Piece, Inside, IsWriter
    <3>4. Ended(c)'
      BY <2>1, <2>4, <3>1, <3>2 DEF Ended, Cause, IsWriter
    <3> QED
      BY <3>3, <3>4
  <2>8. DOMAIN reports = {} /\ Len(reports) = 0 /\ Zeros = {}
    BY <2>2 DEF Zeros
  <2>9. ReportsInv'
    <3>1. Reaped = {} /\ Reaped' = {}
      BY <2>2, <2>4, <2>5 DEF Reaped
    <3> QED
      BY <2>1, <2>4, <2>8, <3>1, FS_EmptySet DEF ReportsInv
  <2>10. MainInv'
    <3>1. \A c \in Children : at'[c] # "reaped" /\ (c > i + 1 => at'[c] = "none")
      <4>1. ASSUME NEW c \in Children
            PROVE  at'[c] # "reaped" /\ (c > i + 1 => at'[c] = "none")
        <5>1. c > i + 1 => c > i /\ c # i + 1
          BY <1>0, <2>2
        <5> QED
          BY <2>2, <2>5, <5>1
      <4> QED
        BY <4>1
    <3>2. CASE i + 1 \in Children \ {Cardinality(Children)}
      <4>1. pc' = "fork" /\ i' = i + 1 /\ i' \in 0 .. Waits' /\ i' < Waits'
        BY <1>0, <2>1, <2>2, <2>4, <3>2
      <4> QED
        BY <1>0, <2>1, <2>2, <2>4, <3>1, <4>1 DEF MainInv
    <3>3. CASE ~(i + 1 \in Children \ {Cardinality(Children)})
      <4>1. pc' = "wait" /\ i' = 0 /\ i' \in 0 .. Waits' /\ i' < Waits' /\ Len(reports') = 0
        BY <1>0, <2>1, <2>2, <2>4, <2>8, <3>3
      <4> QED
        BY <1>0, <2>1, <2>2, <2>4, <4>1 DEF MainInv
    <3> QED
      BY <3>2, <3>3
  <2> QED
    BY <2>4, <2>6, <2>7, <2>9, <2>10 DEF WacInv
<1>2. CASE Wait
  <2>1. pc = "wait"
    BY <1>2 DEF Wait
  <2>2. PICK c \in Children : /\ at[c] = "zombie" /\ status' = code[c]
                             /\ at' = [at EXCEPT ![c] = "reaped"] /\ Reported(c)
    BY <1>2 DEF Wait
  <2>3. code[c] \in Codes /\ code[c] # 0 /\ c \in Nat /\ c # 0
    BY <1>0, <2>2 DEF WacInv, Ended, Shapes
  <2>4. /\ at' \in [Children -> Places] /\ at'[c] = "reaped"
        /\ \A b \in Children \ {c} : at'[b] = at[b]
    BY <1>0, <2>2 DEF Shapes, Places
  <2>5. Zeros = {} /\ c \notin Reaped
    BY <1>0, <2>2 DEF ReportsInv, Quiet, Reaped
  <2>6. Reported(c) /\ reports' = Append(reports, <<c, code[c]>>) /\ options' = options /\ code' = code
    BY <2>2 DEF Reported
  <2> DEFINE n == Len(reports) + 1
  <2>7. /\ Len(reports) \in Nat /\ Len(reports') = n /\ DOMAIN reports' = DOMAIN reports \cup {n}
        /\ \A k \in DOMAIN reports : reports'[k] = reports[k]
        /\ n \notin DOMAIN reports /\ reports'[n][1] = c /\ reports'[n][2] = code[c]
    BY <2>6, OneMore
  <2>8. Children' = Children /\ Reaped' = Reaped \cup {c}
    BY <2>4, <2>6, OptionsStay DEF Reaped
  <2> HIDE DEF n
  <2>9. Zeros' = {}
    <3>1. \A k \in DOMAIN reports : reports[k][1] # 0
      BY <2>5 DEF Zeros
    <3> QED
      BY <2>3, <2>7, <3>1 DEF Zeros
  <2>10. Cardinality(Reaped') = Cardinality(Reaped) + 1 /\ Cardinality(Reaped) \in Nat
    <3>1. IsFiniteSet(Reaped)
      <4>1. IsFiniteSet(Children) /\ Reaped \in SUBSET Children
        BY <1>0, OptionTypes DEF Reaped
      <4> QED
        BY <4>1, FS_Subset
    <3> QED
      BY <2>5, <2>8, <3>1, FS_AddElement, FS_CardinalityType
  <2>11. ReportsInv'
    <3>1. ASSUME NEW k \in DOMAIN reports', reports'[k][1] # 0
          PROVE  /\ reports'[k][1] \in Reaped' /\ reports'[k][2] = code[reports'[k][1]]
                 /\ \A l \in DOMAIN reports' : reports'[k][1] = reports'[l][1] => k = l
      <4>1. CASE k = n
        <5>1. \A l \in DOMAIN reports : reports[l][1] # c
          BY <1>0, <2>3, <2>5 DEF ReportsInv
        <5> QED
          BY <2>7, <2>8, <4>1, <5>1
      <4>2. CASE k \in DOMAIN reports
        <5>1. /\ reports[k][1] \in Reaped /\ reports[k][2] = code[reports[k][1]]
              /\ \A l \in DOMAIN reports : reports[k][1] = reports[l][1] => k = l
          BY <1>0, <2>7, <3>1, <4>2 DEF ReportsInv
        <5>2. reports'[k] = reports[k] /\ reports[k][1] # c
          BY <2>5, <2>7, <4>2, <5>1
        <5> QED
          BY <2>7, <2>8, <5>1, <5>2
      <4> QED
        BY <2>7, <3>1, <4>1, <4>2
    <3>2. options.nthreads # 1
      BY <1>0, <2>1 DEF MainInv
    <3>3. \A b \in Reaped' : \E k \in DOMAIN reports' : reports'[k][1] = b
      <4>1. \A b \in Reaped : \E k \in DOMAIN reports : reports[k][1] = b
        BY <1>0, <3>2 DEF ReportsInv
      <4> QED
        BY <2>7, <2>8, <4>1
    <3>4. Cardinality(Zeros') + Cardinality(Reaped') = Len(reports')
      <4>1. Cardinality(Zeros) + Cardinality(Reaped) = Len(reports)
        BY <1>0, <3>2 DEF ReportsInv
      <4>2. Cardinality(Zeros) = 0 /\ Cardinality(Zeros') = 0
        BY <2>5, <2>9, FS_EmptySet
      <4> QED
        BY <2>7, <2>10, <4>1, <4>2 DEF n
    <3> QED
      BY <2>6, <2>9, <3>1, <3>3, <3>4 DEF ReportsInv
  <2> QED
    BY <2>1, <2>2, <2>3, <2>4, <2>6, <2>11, StepReports
<1>3. CASE WaitFails
  <2>1. /\ pc = "wait" /\ Quiet /\ status' = status /\ at' = at /\ Reported(0)
    BY <1>3 DEF WaitFails, Quiet
  <2>2. reports' = Append(reports, <<0, status>>) /\ options' = options /\ code' = code
    BY <2>1 DEF Reported
  <2> DEFINE n == Len(reports) + 1
  <2>3. /\ Len(reports) \in Nat /\ Len(reports') = n /\ DOMAIN reports' = DOMAIN reports \cup {n}
        /\ \A k \in DOMAIN reports : reports'[k] = reports[k]
        /\ n \notin DOMAIN reports /\ reports'[n][1] = 0
        /\ DOMAIN reports = 1 .. Len(reports)
    BY <2>2, OneMore
  <2>4. Children' = Children /\ Reaped' = Reaped /\ Quiet'
    BY <2>1, <2>2, OptionsStay DEF Reaped, Quiet
  <2> HIDE DEF n
  <2>5. Zeros' = Zeros \cup {n} /\ n \notin Zeros
    BY <2>3 DEF Zeros
  <2>6. Cardinality(Zeros') = Cardinality(Zeros) + 1 /\ Cardinality(Zeros) \in Nat
    <3>1. IsFiniteSet(Zeros)
      <4>1. IsFiniteSet(1 .. Len(reports)) /\ Zeros \in SUBSET (1 .. Len(reports))
        BY <2>3, FS_Interval DEF Zeros
      <4> QED
        BY <4>1, FS_Subset
    <3> QED
      BY <2>5, <3>1, FS_AddElement, FS_CardinalityType
  <2>7. Cardinality(Reaped) \in Nat
    <3>1. IsFiniteSet(Children) /\ Reaped \in SUBSET Children
      BY <1>0, OptionTypes DEF Reaped
    <3> QED
      BY <3>1, FS_Subset, FS_CardinalityType
  <2>8. ReportsInv'
    <3>1. ASSUME NEW k \in DOMAIN reports', reports'[k][1] # 0
          PROVE  /\ reports'[k][1] \in Reaped /\ reports'[k][2] = code[reports'[k][1]]
                 /\ \A l \in DOMAIN reports' : reports'[k][1] = reports'[l][1] => k = l
      <4>1. k \in DOMAIN reports /\ reports'[k] = reports[k]
        BY <2>3, <3>1
      <4>2. /\ reports[k][1] \in Reaped /\ reports[k][2] = code[reports[k][1]]
            /\ \A l \in DOMAIN reports : reports[k][1] = reports[l][1] => k = l
        BY <1>0, <3>1, <4>1 DEF ReportsInv
      <4> QED
        BY <2>3, <3>1, <4>1, <4>2
    <3>2. options.nthreads # 1
      BY <1>0, <2>1 DEF MainInv
    <3>3. \A b \in Reaped : \E k \in DOMAIN reports' : reports'[k][1] = b
      <4>1. \A b \in Reaped : \E k \in DOMAIN reports : reports[k][1] = b
        BY <1>0, <3>2 DEF ReportsInv
      <4> QED
        BY <2>3, <4>1
    <3>4. Cardinality(Zeros') + Cardinality(Reaped) = Len(reports')
      <4>1. Cardinality(Zeros) + Cardinality(Reaped) = Len(reports)
        BY <1>0, <3>2 DEF ReportsInv
      <4> QED
        BY <2>3, <2>6, <2>7, <4>1 DEF n
    <3> QED
      BY <2>2, <2>4, <3>1, <3>3, <3>4 DEF ReportsInv
  <2>9. /\ status' \in Codes \cup {ENOSPC} /\ 0 \in Nat /\ at' \in [Children -> Places]
        /\ \A b \in Children : at'[b] = at[b]
    BY <1>0, <2>1 DEF MainInv, Shapes
  <2> QED
    BY <2>1, <2>8, <2>9, StepReports
<1> QED
  BY <1>1, <1>2, <1>3 DEF Main

LEMMA WacStepInv == WacInv /\ [Next]_vars => WacInv'
<1> SUFFICES ASSUME WacInv, [Next]_vars PROVE WacInv'
  OBVIOUS
<1>1. CASE Main
  BY <1>1, MainStepInv
<1>2. ASSUME NEW c \in Children, ChildStep(c) PROVE WacInv'
  BY <1>2, ChildStepInv
<1>3. CASE UNCHANGED vars
  <2>1. /\ options' = options /\ pc' = pc /\ i' = i /\ status' = status /\ reports' = reports
        /\ at' = at /\ io' = io /\ dirty' = dirty /\ code' = code /\ size' = size
    BY <1>3 DEF vars, mainVars
  <2>2. /\ Children' = Children /\ Waits' = Waits /\ Sound' = Sound /\ Zeros' = Zeros
        /\ Reaped' = Reaped /\ (Quiet' <=> Quiet)
    BY <2>1, OptionsStay DEF Zeros, Reaped, Quiet
  <2>3. Shapes' /\ FileInv'
    BY <2>1, <2>2 DEF WacInv, Shapes, FileInv
  <2>4. MainInv'
    BY <2>1, <2>2 DEF WacInv, MainInv
  <2>5. ReportsInv'
    BY <2>1, <2>2 DEF WacInv, ReportsInv
  <2>6. ASSUME NEW c \in Children PROVE Piece(c)' /\ Ended(c)'
    <3>1. Piece(c) /\ Ended(c)
      BY DEF WacInv
    <3> QED
      BY <2>1, <2>2, <3>1 DEF Piece, Ended, Cause, Inside, IsWriter
  <2> QED
    BY <2>2, <2>3, <2>4, <2>5, <2>6 DEF WacInv
<1> QED
  BY <1>1, <1>2, <1>3 DEF Next, ChildStep

LEMMA Invariance == Spec => []WacInv
  BY WacInitInv, WacStepInv, PTL DEF Spec

-----------------------------------------------------------------------------
(* The theorems. *)

\* No request reaches behind the end of a file that holds it, so that the file never grows
\* beyond the length asked for, and the range that is synced has every byte just written.
THEOREM RequestsInsideAlways == Spec => []RequestsInside
<1>1. WacInv => RequestsInside
  <2> SUFFICES ASSUME WacInv PROVE RequestsInside
    OBVIOUS
  <2>1. FileInv /\ \A c \in Children : Piece(c)
    BY DEF WacInv
  <2>2. SyncCoversWrite
    BY <2>1 DEF SyncCoversWrite, Piece
  <2> QED
    BY <2>1, <2>2 DEF RequestsInside, FileInv, Piece, Inside
<1> QED
  BY <1>1, Invariance, PTL

\* A child only ends when a call fails, or when it touches a file that was not allocated.
THEOREM EndsForCauseAlways == Spec => []EndsForCause
<1>1. WacInv => EndsForCause
  <2> SUFFICES ASSUME WacInv PROVE EndsForCause
    OBVIOUS
  <2>1. Shapes /\ MainInv /\ \A c \in Children : Ended(c)
    BY DEF WacInv
  <2>2. Waits \in Nat /\ Cardinality(Children) = Waits
    BY <2>1, OptionTypes DEF Shapes
  <2>3. Len(reports) <= Waits
    <3>1. CASE reports = <<>>
      BY <2>2, <3>1
    <3>2. CASE pc = "wait" \/ Len(reports) = Waits
      BY <2>1, <2>2, <3>2 DEF MainInv
    <3> QED
      BY <2>1, <3>1, <3>2 DEF MainInv
  <2>4. \A c \in Children : io[c].offset \in 0 .. Word - 1 /\ code[c] \in Codes
    BY <2>1 DEF Shapes, Asked
  <2>5. TypeOK
    BY <2>1, <2>2, <2>3, <2>4 DEF TypeOK, Shapes, MainInv, Codes
  <2> QED
    BY <2>1, <2>5 DEF EndsForCause, Ended, Cause
<1> QED
  BY <1>1, Invariance, PTL

\* Every child that was waited for is reported once, with how it ended, and at the end none
\* is left; the lines for -1 are as many as the forks that failed.
THEOREM ReportsExactAlways == Spec => []ReportsExact
<1>1. WacInv => ReportsExact
  <2> SUFFICES ASSUME WacInv PROVE ReportsExact
    OBVIOUS
  <2>1. Shapes /\ MainInv /\ ReportsInv /\ options \in Options
    BY DEF WacInv, Shapes
  <2>2. \A k, l \in DOMAIN reports :
           reports[k][1] # 0 =>
              /\ reports[k][2] = code[reports[k][1]] /\ reports[k][2] # 0
              /\ reports[k][1] = reports[l][1] => k = l
    <3>1. ASSUME NEW k \in DOMAIN reports, reports[k][1] # 0
          PROVE  reports[k][2] = code[reports[k][1]] /\ reports[k][2] # 0
      <4>1. reports[k][1] \in Reaped /\ reports[k][2] = code[reports[k][1]]
        BY <2>1, <3>1 DEF ReportsInv
      <4>2. \A c \in Reaped : code[c] # 0
        BY DEF WacInv, Ended, Reaped
      <4> QED
        BY <4>1, <4>2
    <3> QED
      BY <2>1, <3>1 DEF ReportsInv
  <2>3. ASSUME pc = "done", options.nthreads # 1
        PROVE  /\ \A c \in Children : at[c] \in {"none", "reaped"}
               /\ {reports[k][1] : k \in DOMAIN reports} \ {0} = {c \in Children : at[c] = "reaped"}
               /\ Cardinality({k \in DOMAIN reports : reports[k][1] = 0})
                    = Cardinality({c \in Children : at[c] = "none"})
    <3>1. \A c \in Children : at[c] \in {"none", "reaped"}
      BY <2>1, <2>3, DoneIsQuiet DEF Quiet
    <3>2. {reports[k][1] : k \in DOMAIN reports} \ {0} = Reaped
      <4>1. 0 \notin Reaped
        BY <2>1, OptionTypes DEF Reaped
      <4>2. \A c \in Reaped : \E k \in DOMAIN reports : reports[k][1] = c
        BY <2>1, <2>3 DEF ReportsInv
      <4>3. \A k \in DOMAIN reports : reports[k][1] # 0 => reports[k][1] \in Reaped
        BY <2>1 DEF ReportsInv
      <4> QED
        BY <4>1, <4>2, <4>3
    <3> DEFINE None == {c \in Children : at[c] = "none"}
    <3>3. Cardinality(Zeros) = Cardinality(None)
      <4>1. /\ IsFiniteSet(Children) /\ Cardinality(Children) = Waits /\ Waits \in Nat
            /\ Reaped \in SUBSET Children /\ None \in SUBSET Children
            /\ Children = Reaped \cup None /\ Reaped \cap None = {}
        BY <2>1, <3>1, OptionTypes DEF Reaped
      <4>2. IsFiniteSet(Reaped) /\ IsFiniteSet(None)
        BY <4>1, FS_Subset
      <4>3. Cardinality(Reaped) \in Nat /\ Cardinality(None) \in Nat /\ Cardinality({}) = 0
        BY <4>2, FS_CardinalityType, FS_EmptySet
      <4>4. Cardinality(Reaped \cup None)
              = Cardinality(Reaped) + Cardinality(None) - Cardinality(Reaped \cap None)
        <5> HIDE DEF None
        <5> QED
          BY <4>2, FS_Union
      <4>5. Waits = Cardinality(Reaped) + Cardinality(None)
        <5>1. /\ Cardinality(Reaped \cup None) = Waits
              /\ Cardinality(Reaped \cap None) = 0
          BY <4>1, <4>3
        <5> HIDE DEF None
        <5> QED
          BY <4>3, <4>4, <5>1
      <4>6. Cardinality(Zeros) + Cardinality(Reaped) = Waits
        BY <2>1, <2>3 DEF MainInv, ReportsInv
      <4>7. Cardinality(Zeros) \in Nat
        <5>1. DOMAIN reports = 1 .. Len(reports) /\ Len(reports) \in Nat
          BY <2>1 DEF MainInv
        <5>2. IsFiniteSet(1 .. Len(reports)) /\ Zeros \in SUBSET (1 .. Len(reports))
          BY <5>1, FS_Interval DEF Zeros
        <5> QED
          BY <5>2, FS_Subset, FS_CardinalityType
      <4> HIDE DEF None
      <4> QED
        BY <4>3, <4>5, <4>6, <4>7
    <3> QED
      BY <3>1, <3>2, <3>3 DEF Zeros, Reaped
  <2> QED
    BY <2>2, <2>3 DEF ReportsExact
<1> QED
  BY <1>1, Invariance, PTL
=============================================================================

----------------------------- MODULE MCSeekmark -----------------------------
(* Instances of Seekmark for TLC; the rest is in the MCSeekmark_*.cfg. *)
EXTENDS Seekmark, TLC

\* Two threads that make two seeks, with blocks of 2, aligned or not, or by more than an int
\* has bits, for reading or writing, with a limit below and above what the files have,
\* endless or not; and lines that are refused.
Base == "f" :> "file" @@ "t" :> 2 @@ "s" :> 2 @@ "i" :> 2
Options == {<<>>, "a" :> 1, "a" :> 33}
Modes == {<<>>, "w" :> "destroy-data"}
Limits == {<<>>, "S" :> 3, "S" :> 6}
Refused == {"t" :> 1, "t" :> 0 @@ Base, "a" :> 0 @@ Base, "i" :> 0 @@ Base, "i" :> 9 @@ Base,
            "w" :> "yes" @@ Base, "S" :> -1 @@ Base}
CommandLines ==
    {o @@ m @@ l @@ Base : o \in Options, m \in Modes, l \in Limits}
    \cup {"e" :> TRUE @@ m @@ Base : m \in Modes}
    \cup {"R" :> TRUE @@ "w" :> "destroy-data" @@ Base}
    \cup Refused
NonRandom == {"w" :> "destroy-data" @@ "R" :> TRUE @@ Base}

\* An empty file, one shorter than a block, one that holds some; with faults, one block.
AllFiles == [len : {0, 1, 4}, device : BOOLEAN, faults : {FALSE}]
            \cup [len : {2}, device : {FALSE}, faults : {TRUE}]
SoundFiles == [len : {4}, device : {FALSE}, faults : {FALSE}]
=============================================================================

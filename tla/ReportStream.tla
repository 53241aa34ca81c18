---------------------------- MODULE ReportStream ----------------------------
(***************************************************************************)
(* What the polls of a USB input device promise: in a session the reports  *)
(* of the device arrive in the order it made them, none of them twice and, *)
(* unless the device packs its reports so that a poll takes several, none  *)
(* of them missing.                                                        *)
(***************************************************************************)
EXTENDS Integers, Sequences

VARIABLES
  whole,     \* one report is one poll
  stream     \* the numbers of the reports taken in this session

Init == stream = <<>>

NewSession ==
  /\ stream' = <<>>
  /\ whole' \in BOOLEAN

Increasing(reports) ==
  \A i, j \in 1 .. Len(reports) : i < j => reports[i] < reports[j]

Take ==
  /\ whole => stream' = Append(stream, Len(stream) + 1)
  /\ Len(stream') > Len(stream) /\ Increasing(stream')
  /\ \A i \in 1 .. Len(stream) : stream'[i] = stream[i]
  /\ UNCHANGED whole

Next == NewSession \/ Take

Spec == Init /\ [][Next]_<<whole, stream>>
============================================================================

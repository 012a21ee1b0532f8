------------------------------ MODULE Terminal ------------------------------
(***************************************************************************)
(* What the console promises its readers: characters are edited in a line  *)
(* of their own, join the input when the line is complete and cannot be    *)
(* edited any more, and are read once, in order, no further than the end   *)
(* of a line or a ^D.                                                      *)
(***************************************************************************)
EXTENDS Integers, Sequences

CONSTANTS Char, Newline, EOF, Capacity
VARIABLES input, line

TypeChar(c) ==
  /\ Len(input) + Len(line) < Capacity
  /\ IF c \in {Newline, EOF} \/ Len(input) + Len(line) + 1 = Capacity
     THEN input' = input \o Append(line, c) /\ line' = <<>>
     ELSE line' = Append(line, c) /\ UNCHANGED input
Erase == line # <<>> /\ line' = SubSeq(line, 1, Len(line) - 1) /\ UNCHANGED input
KillLine == line' = <<>> /\ UNCHANGED input
Read ==
  \E k \in 1 .. Len(input) :
    /\ \A i \in 1 .. k - 1 : input[i] \notin {Newline, EOF}
    /\ input' = SubSeq(input, k + 1, Len(input))
    /\ UNCHANGED line

Init == input = <<>> /\ line = <<>>
Next == (\E c \in Char : TypeChar(c)) \/ Erase \/ KillLine \/ Read
Spec == Init /\ [][Next]_<<input, line>>
=============================================================================

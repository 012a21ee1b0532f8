-------------------------------- MODULE Grep --------------------------------
(***************************************************************************)
(* grep.c: the matcher for ^ . * $ as recursive operators, with a          *)
(* definition of what a pattern means to compare it with, and the loop     *)
(* that cuts the input into lines with one buffer.  Texts and patterns are *)
(* sequences of characters; the NUL at the end is where the sequence ends. *)
(***************************************************************************)
EXTENDS Naturals, Sequences, SequencesExt

CONSTANTS BUFSIZE,   \* sizeof(buf)
          Pattern,   \* the pattern of the loop
          ShortReads \* read() may return less than there is, as on a pipe

Newline == "\n"

RECURSIVE matchhere(_, _), matchstar(_, _, _), match(_, _)

\* The first character of the text is one of c.
Starts(c, text) == text # <<>> /\ (c = "." \/ c = Head(text))

matchhere(re, text) ==
    IF re = <<>> THEN TRUE
    ELSE IF Len(re) > 1 /\ re[2] = "*" THEN matchstar(re[1], Tail(Tail(re)), text)
    ELSE IF re = <<"$">> THEN text = <<>>
    ELSE Starts(re[1], text) /\ matchhere(Tail(re), Tail(text))

matchstar(c, re, text) ==
    \/ matchhere(re, text)
    \/ Starts(c, text) /\ matchstar(c, re, Tail(text))

match(re, text) ==
    IF re # <<>> /\ re[1] = "^" THEN matchhere(Tail(re), text)
    ELSE \/ matchhere(re, text)
         \/ text # <<>> /\ match(re, Tail(text))

-----------------------------------------------------------------------------
(***************************************************************************)
(* What a pattern means: a sequence of items, each a character, possibly   *)
(* starred, and whether it is tied to the begin and the end of the text.   *)
(* A text matches if it can be cut so that each item has its piece.        *)
(***************************************************************************)
RECURSIVE Items(_)
Items(re) ==
    IF re = <<>> THEN <<>>
    ELSE IF Len(re) > 1 /\ re[2] = "*" THEN <<[c |-> re[1], star |-> TRUE]>> \o Items(Tail(Tail(re)))
    ELSE <<[c |-> re[1], star |-> FALSE]>> \o Items(Tail(re))

Fits(item, text, i, j) ==
    /\ i <= j
    /\ ~ item.star => j = i + 1
    /\ \A k \in (i + 1)..j : item.c = "." \/ item.c = text[k]

Matches(re, text) ==
    LET tied == re # <<>> /\ re[1] = "^"
        all == Items(IF tied THEN Tail(re) ELSE re)
        toEnd == all # <<>> /\ Last(all) = [c |-> "$", star |-> FALSE]
        items == IF toEnd THEN Front(all) ELSE all
    IN \E cut \in [1..(Len(items) + 1) -> 0..Len(text)] :
          /\ \A k \in DOMAIN items : Fits(items[k], text, cut[k], cut[k + 1])
          /\ tied => cut[1] = 0
          /\ toEnd => cut[Len(items) + 1] = Len(text)

\* The matcher finds a text exactly when the pattern means it.
MatcherAgrees(re, text) == match(re, text) <=> Matches(re, text)

-----------------------------------------------------------------------------
(***************************************************************************)
(* grep(): buf[0..m) is kept from the last round; one round is a step.     *)
(***************************************************************************)
VARIABLES input,     \* what the descriptor still delivers
          buf,       \* the first m characters of buf
          printed,   \* the lines written to descriptor 1
          whole      \* all the input there was (no variable of the code)

grepVars == <<input, buf, printed, whole>>

\* The complete lines of a text, and what is left behind the last newline.
RECURSIVE Lines(_)
Lines(text) ==
    IF Newline \notin ToSet(text) THEN <<>>
    ELSE LET q == SelectInSeq(text, LAMBDA c : c = Newline)
         IN <<SubSeq(text, 1, q - 1)>> \o Lines(SubSeq(text, q + 1, Len(text)))
Rest(text) ==
    SubSeq(text, 1 + SelectLastInSeq(text, LAMBDA c : c = Newline), Len(text))

Printed(text) == SelectSeq(Lines(text), LAMBDA line : match(Pattern, line))

KeptIfShort(text) == IF Rest(text) = text THEN <<>> ELSE SubSeq(text, 1, Len(Rest(text)))

Kept(text) == IF Rest(text) = text THEN <<>> ELSE Rest(text)

Round ==
    \E n \in 1..Len(input) :
       LET room == BUFSIZE - Len(buf) - 1
           text == buf \o SubSeq(input, 1, n)
       IN /\ n <= room
          /\ ShortReads \/ n = room \/ n = Len(input)
          /\ printed' = printed \o Printed(text)
          /\ buf' = Kept(text)
          /\ input' = SubSeq(input, n + 1, Len(input))
          /\ UNCHANGED whole

\* The loop is over: read() has returned 0.
Done == input = <<>> \/ Len(buf) + 1 >= BUFSIZE

Short(text) == \A i \in DOMAIN Lines(text) : Len(Lines(text)[i]) + 1 < BUFSIZE
               /\ Len(Rest(text)) + 1 < BUFSIZE

\* From a file whose lines fit into the buffer, grep prints the lines that
\* match, each once and in order, however the lines fall into the reads.
PrintsMatchingLines ==
    Short(whole) /\ Done => printed = Printed(whole)
=============================================================================

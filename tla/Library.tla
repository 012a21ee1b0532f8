------------------------------ MODULE Library ------------------------------
(***************************************************************************)
(* The library of the kernel (string.c, cprintf of console.c) and of user  *)
(* programs (ulib.c, printf.c), and wc.c.  Memory is an array of cells; a  *)
(* string is a sequence of characters, which are positive numbers, or the  *)
(* cells up to the first 0.                                                *)
(***************************************************************************)
EXTENDS Integers, Sequences, FiniteSets, SequencesExt

CONSTANTS W        \* the width of an int in bits

(***************************************************************************)
(* memmove: upwards, or downwards where the ends overlap.  The one of      *)
(* ulib.c always goes upwards.                                             *)
(***************************************************************************)
RECURSIVE CopyUp(_, _, _, _), CopyDown(_, _, _, _)
CopyUp(m, d, s, n) ==
    IF n = 0 THEN m ELSE CopyUp([m EXCEPT ![d] = m[s]], d + 1, s + 1, n - 1)
CopyDown(m, d, s, n) ==
    IF n = 0 THEN m ELSE CopyDown([m EXCEPT ![d - 1] = m[s - 1]], d - 1, s - 1, n - 1)
memmove(m, dst, src, n) ==
    IF src < dst /\ src + n > dst THEN CopyDown(m, dst + n, src + n, n)
    ELSE CopyUp(m, dst, src, n)
ulibMemmove(m, dst, src, n) == CopyUp(m, dst, src, n)

Moved(m, dst, src, n) == [x \in DOMAIN m |-> IF x \in dst..(dst + n - 1) THEN m[src + x - dst] ELSE m[x]]
Moves(m, dst, src, n) ==
    /\ memmove(m, dst, src, n) = Moved(m, dst, src, n)
    /\ ~(src < dst /\ src + n > dst) => ulibMemmove(m, dst, src, n) = Moved(m, dst, src, n)

(***************************************************************************)
(* Copies of strings, from t to s.                                         *)
(***************************************************************************)
Filled(m, s, n) == [x \in DOMAIN m |-> IF x \in s..(s + n - 1) THEN 0 ELSE m[x]]
RECURSIVE strncpy(_, _, _, _), SafeCopy(_, _, _, _)
strncpy(m, s, t, n) ==
    IF n <= 0 THEN m
    ELSE IF m[t] = 0 THEN Filled(m, s, n)
    ELSE strncpy([m EXCEPT ![s] = m[t]], s + 1, t + 1, n - 1)
SafeCopy(m, s, t, n) ==
    IF n = 1 THEN [m EXCEPT ![s] = 0]
    ELSE IF m[t] = 0 THEN [m EXCEPT ![s] = 0, ![s + 1] = 0]
    ELSE SafeCopy([m EXCEPT ![s] = m[t]], s + 1, t + 1, n - 1)
safestrcpy(m, s, t, n) == IF n <= 0 THEN m ELSE SafeCopy(m, s, t, n)

\* s lies below cell n0, t from there on.
Memory(n0, t) == [x \in 0..(n0 + Len(t)) |-> IF x < n0 THEN 9 ELSE IF x < n0 + Len(t) THEN t[x - n0 + 1] ELSE 0]
Least(a, b) == IF a < b THEN a ELSE b
Copies(n0, t, n) ==
    LET m == Memory(n0, t)
        c == strncpy(m, 0, n0, n)
        f == safestrcpy(m, 0, n0, n)
    IN \A x \in DOMAIN m :
         /\ c[x] = IF x >= n THEN m[x] ELSE IF x < Len(t) THEN t[x + 1] ELSE 0
         /\ x >= n => f[x] = m[x]
         /\ n > 0 /\ x < Least(n - 1, Len(t)) => f[x] = t[x + 1]
         /\ n > 0 /\ x = Least(n - 1, Len(t)) => f[x] = 0

(***************************************************************************)
(* Comparison of strings.  memcmp goes on past the end of a string.        *)
(***************************************************************************)
Char(p, k) == IF k <= Len(p) THEN p[k] ELSE 0
RECURSIVE Differ(_, _, _, _)
Differ(p, q, k, n) ==
    IF n > 0 /\ Char(p, k) # 0 /\ Char(p, k) = Char(q, k) THEN Differ(p, q, k + 1, n - 1)
    ELSE IF n = 0 THEN 0 ELSE Char(p, k) - Char(q, k)
strncmp(p, q, n) == Differ(p, q, 1, n)
strcmp(p, q) == Differ(p, q, 1, Len(p) + Len(q) + 1)

First(p, n) == SubSeq(p, 1, Least(n, Len(p)))
Below(p, q) ==
    \E k \in 1..Len(q) : Char(p, k) < q[k] /\ \A j \in 1..(k - 1) : Char(p, j) = q[j]
Orders(p, q, n) ==
    /\ strncmp(p, q, n) < 0 <=> Below(First(p, n), First(q, n))
    /\ strncmp(p, q, n) = 0 <=> First(p, n) = First(q, n)
    /\ strcmp(p, q) < 0 <=> Below(p, q)
    /\ strcmp(p, q) = 0 <=> p = q

(***************************************************************************)
(* printint, of printf and of cprintf, and atoi.  A digit is its value.    *)
(***************************************************************************)
Minus == -1
RECURSIVE Digits(_, _)
Digits(x, base) == (IF x \div base = 0 THEN <<>> ELSE Digits(x \div base, base)) \o <<x % base>>
printint(xx, base, sgn) ==
    IF sgn /\ xx < 0 THEN <<Minus>> \o Digits((-xx) % 2^W, base) ELSE Digits(xx % 2^W, base)

RECURSIVE AtoiFrom(_, _, _)
AtoiFrom(s, k, n) ==
    IF k <= Len(s) /\ s[k] \in 0..9 THEN AtoiFrom(s, k + 1, n * 10 + s[k]) ELSE n
atoi(s) == AtoiFrom(s, 1, 0)

Value(ds, base) == FoldLeft(LAMBDA v, d : v * base + d, 0, ds)
PrintsNumber(xx) ==
    LET d == printint(xx, 10, TRUE)
    IN /\ IF xx < 0 THEN d[1] = Minus /\ Value(Tail(d), 10) = -xx ELSE atoi(d) = xx
       /\ Value(printint(xx, 16, FALSE), 16) = IF xx < 0 THEN xx + 2^W ELSE xx
       /\ Len(d) > 1 => d[IF xx < 0 THEN 2 ELSE 1] # 0

(***************************************************************************)
(* printf goes through the format with a state; cprintf looks one ahead.   *)
(* What is printed is a sequence of characters and <<conversion, number of *)
(* the argument>>.                                                         *)
(***************************************************************************)
Conversions == {"d", "x", "p", "s"}
Converted(r, c) == [r EXCEPT !.out = Append(@, <<IF c = "p" THEN "x" ELSE c, r.ap>>), !.ap = @ + 1]
Puts(r, cs) == [r EXCEPT !.out = @ \o cs]
Ch(c) == <<<<"char", c>>>>
PrintfChar(r, c) ==
    IF r.state = 0
    THEN IF c = "%" THEN [r EXCEPT !.state = 1] ELSE Puts(r, Ch(c))
    ELSE [ (IF c \in Conversions \cup {"c"} THEN Converted(r, c)
            ELSE IF c = "%" THEN Puts(r, Ch(c)) ELSE Puts(r, Ch("%") \o Ch(c))) EXCEPT !.state = 0]
printf(fmt) == FoldLeft(PrintfChar, [state |-> 0, out |-> <<>>, ap |-> 1], fmt).out

RECURSIVE CprintfFrom(_, _, _)
CprintfFrom(fmt, i, r) ==
    IF i > Len(fmt) THEN r
    ELSE IF fmt[i] # "%" THEN CprintfFrom(fmt, i + 1, Puts(r, Ch(fmt[i])))
    ELSE IF i + 1 > Len(fmt) THEN r
    ELSE CprintfFrom(fmt, i + 2,
           IF fmt[i + 1] \in Conversions THEN Converted(r, fmt[i + 1])
           ELSE IF fmt[i + 1] = "%" THEN Puts(r, Ch("%"))
           ELSE Puts(r, Ch("%") \o Ch(fmt[i + 1])))
cprintf(fmt) == CprintfFrom(fmt, 1, [out |-> <<>>, ap |-> 1]).out

\* Without %c, which only printf knows, both print the same.
Agree(fmt) == (\A k \in DOMAIN fmt : fmt[k] # "c") => printf(fmt) = cprintf(fmt)

(***************************************************************************)
(* gets, called until the input is over; and wc, on a file that comes in   *)
(* pieces of at most bufsize characters.                                   *)
(***************************************************************************)
Newline == 10
Space == 32
RECURSIVE gets(_, _, _), AllGets(_, _)
gets(input, i, max) ==
    IF i + 1 < max /\ i < Len(input) /\ (i = 0 \/ input[i] # Newline)
    THEN gets(input, i + 1, max) ELSE SubSeq(input, 1, i)
AllGets(input, max) ==
    LET buf == gets(input, 0, max)
    IN IF buf = <<>> THEN <<>> ELSE <<buf>> \o AllGets(SubSeq(input, Len(buf) + 1, Len(input)), max)
GetsAll(input, max) ==
    LET bufs == AllGets(input, max)
    IN /\ FlattenSeq(bufs) = input
       /\ \A b \in DOMAIN bufs :
            /\ Len(bufs[b]) < max
            /\ \A k \in 1..(Len(bufs[b]) - 1) : bufs[b][k] # Newline
            /\ b < Len(bufs) => Len(bufs[b]) = max - 1 \/ Last(bufs[b]) = Newline

WcChar(r, ch) ==
    [ l |-> IF ch = Newline THEN r.l + 1 ELSE r.l, c |-> r.c + 1,
      w |-> IF ch \notin {Newline, Space} /\ ~r.inword THEN r.w + 1 ELSE r.w,
      inword |-> ch \notin {Newline, Space} ]
RECURSIVE WcFrom(_, _, _)
WcFrom(file, bufsize, r) ==
    IF file = <<>> THEN r
    ELSE WcFrom(SubSeq(file, bufsize + 1, Len(file)), bufsize,
                FoldLeft(WcChar, r, SubSeq(file, 1, Least(bufsize, Len(file)))))
wc(file, bufsize) == WcFrom(file, bufsize, [l |-> 0, w |-> 0, c |-> 0, inword |-> FALSE])

Blank(file, k) == k = 0 \/ file[k] \in {Newline, Space}
Counts(file, bufsize) ==
    LET r == wc(file, bufsize)
    IN /\ r.c = Len(file)
       /\ r.l = Cardinality({k \in DOMAIN file : file[k] = Newline})
       /\ r.w = Cardinality({k \in DOMAIN file : Blank(file, k - 1) /\ ~Blank(file, k)})

\* What the functions do is what their names promise, for the arguments call has.
LibraryAgrees(call) ==
    CASE call[1] = "memmove" -> Moves(call[2], call[3], call[4], call[5])
      [] call[1] = "copy" -> Copies(call[2], call[3], call[4])
      [] call[1] = "compare" -> Orders(call[2], call[3], call[4])
      [] call[1] = "number" -> PrintsNumber(call[2])
      [] call[1] = "printf" -> Agree(call[2])
      [] call[1] = "gets" -> GetsAll(call[2], call[3])
      [] call[1] = "wc" -> Counts(call[2], call[3])
=============================================================================

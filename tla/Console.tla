------------------------------- MODULE Console -------------------------------
(***************************************************************************)
(* Console input (console.c: consoleintr, consoleread): a ring of          *)
(* INPUT_BUF characters with three unsigned indexes that are never reset.  *)
(* cons.lock is held throughout both functions, except while a reader      *)
(* sleeps, so a key or a turn of a reader is one step.  The echo, the      *)
(* process listing of ^P and the inode lock are left out.                  *)
(***************************************************************************)
EXTENDS Integers, Sequences, FiniteSets

CONSTANTS
  Reader, Char, Newline, EOF,
  INPUT_BUF,
  UINT,        \* 2^32 in the code: how many values an index has
  MaxRead      \* bound: the largest n of a read

Index == 0 .. UINT - 1

VARIABLES
  buf, r, w, e,             \* input
  pc, n, target, killed     \* of each reader

input == <<buf, r, w, e>>
vars == <<input, pc, n, target, killed>>

(* The type invariant.                                                     *)
TypeOK ==
  /\ buf \in [0 .. INPUT_BUF - 1 -> Char] /\ r \in Index /\ w \in Index /\ e \in Index
  /\ pc \in [Reader -> {"idle", "ready", "asleep"}]
  /\ n \in [Reader -> 0 .. MaxRead] /\ target \in [Reader -> 0 .. MaxRead]
  /\ killed \subseteq Reader

Init ==
  /\ buf = [i \in 0 .. INPUT_BUF - 1 |-> Newline] /\ r = 0 /\ w = 0 /\ e = 0
  /\ pc = [t \in Reader |-> "idle"]
  /\ n = [t \in Reader |-> 0] /\ target = [t \in Reader |-> 0] /\ killed = {}

-----------------------------------------------------------------------------
Plus(i, k) == (i + k) % UINT
Minus(i, j) == (i - j) % UINT
At(i) == buf[i % INPUT_BUF]
wakeup == pc' = [t \in Reader |-> IF pc[t] = "asleep" THEN "ready" ELSE pc[t]]

(* consoleintr with an ordinary character, or the end of a line.           *)
HasRoom == Minus(e, r) < INPUT_BUF
Complete(c, e2) == c \in {Newline, EOF} \/ e2 = Plus(r, INPUT_BUF)
Key(c) ==
  /\ HasRoom
  /\ buf' = [buf EXCEPT ![e % INPUT_BUF] = c] /\ e' = Plus(e, 1)
  /\ IF Complete(c, Plus(e, 1)) THEN w' = Plus(e, 1) /\ wakeup ELSE UNCHANGED <<w, pc>>
  /\ UNCHANGED <<r, n, target, killed>>
(* Backspace, and ^U: back to the end of the line before.                  *)
Backspace ==
  /\ e # w /\ e' = Minus(e, 1)
  /\ UNCHANGED <<buf, r, w, pc, n, target, killed>>
KillLineAll ==
  /\ e' = r
  /\ UNCHANGED <<buf, r, w, pc, n, target, killed>>

KillLine ==
  /\ e' = Minus(e, CHOOSE k \in 0 .. Minus(e, w) :
                     /\ k = Minus(e, w) \/ At(Minus(e, k + 1)) = Newline
                     /\ \A j \in 0 .. k - 1 : At(Minus(e, j + 1)) # Newline)
  /\ UNCHANGED <<buf, r, w, pc, n, target, killed>>

(* consoleread: take characters up to n, to the end of a line or to ^D; ^D *)
(* is left in the ring when the call has read something.                   *)
Call(t, k) ==
  /\ pc[t] = "idle"
  /\ pc' = [pc EXCEPT ![t] = "ready"]
  /\ n' = [n EXCEPT ![t] = k] /\ target' = [target EXCEPT ![t] = k]
  /\ UNCHANGED <<input, killed>>
Return(t) == pc' = [pc EXCEPT ![t] = "idle"]
Sleep(t) == pc' = [pc EXCEPT ![t] = "asleep"]

Stops(i) == At(Plus(r, i)) \in {Newline, EOF}      \* character i from r ends the read
Waiting == Minus(w, r)
FirstStop == CHOOSE i \in 0 .. Waiting : (i = Waiting \/ Stops(i)) /\ \A j \in 0 .. i - 1 : ~Stops(j)
Plain(t) == IF FirstStop < n[t] THEN FirstStop ELSE n[t]   \* ordinary characters taken
Ends(t) == FirstStop < n[t] /\ FirstStop < Waiting         \* it meets Newline or ^D
(* What it takes besides: Newline, or a ^D it has not to save.             *)
TakesStop(t) ==
  LET left == n[t] - Plain(t) IN
  Ends(t) /\ (At(Plus(r, FirstStop)) = EOF => left = target[t])
Turn(t) ==
  /\ pc[t] = "ready" /\ r # w
  /\ r' = Plus(r, Plain(t) + IF TakesStop(t) THEN 1 ELSE 0)
  /\ n' = [n EXCEPT ![t] = n[t] - Plain(t)]
  /\ IF Ends(t) \/ n'[t] = 0 \/ t \in killed THEN Return(t) ELSE Sleep(t)
  /\ UNCHANGED <<buf, w, e, target, killed>>
Wait(t) ==
  /\ pc[t] = "ready" /\ r = w
  /\ IF t \in killed THEN Return(t) ELSE Sleep(t)
  /\ UNCHANGED <<input, n, target, killed>>
Kill(t) ==
  /\ killed' = killed \cup {t}
  /\ UNCHANGED <<input, pc, n, target>>

Keyboard == (\E c \in Char : Key(c)) \/ Backspace \/ KillLine
Next ==
  \/ Keyboard
  \/ \E t \in Reader : Turn(t) \/ Wait(t) \/ Kill(t) \/ \E k \in 1 .. MaxRead : Call(t, k)
Spec == Init /\ [][Next]_vars

-----------------------------------------------------------------------------
(* A reader sleeps only while there is nothing to read: the one that has   *)
(* put a ^D back leaves no other asleep beside it.                         *)
NoLostWakeup == \A t \in Reader : pc[t] = "asleep" => r = w

(* What is committed is what was typed and not rubbed out, and it is read  *)
(* once and in order.                                                      *)
Chars(i, j) == [k \in 1 .. Minus(j, i) |-> At(Plus(i, k - 1))]
T == INSTANCE Terminal WITH input <- Chars(r, w), line <- Chars(w, e), Capacity <- INPUT_BUF
ImplementsTerminal == T!Spec
=============================================================================

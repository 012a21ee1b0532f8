------------------------------ MODULE MCStreams ------------------------------
(***************************************************************************)
(* Three instances in one state graph: sys_sleep (Clock), a pipe (Pipe)    *)
(* and the console's input (Console).  part tells which of them a          *)
(* behaviour is about; the others do not move.                             *)
(***************************************************************************)
EXTENDS Clock, Integers, TLC

CONSTANTS Writer, Reader, Byte, PIPESIZE, UINT_MAX1, MaxBytes, SharedFiles,   \* for Pipe
          ConsoleReader, Char, Newline, EOF, INPUT_BUF, INPUT_UINT, MaxRead   \* for Console

(* A counter of a ring has room for two turns of the ring at least, and    *)
(* wraps around at the end of one: 2^32 and 512, 2^32 and 128 in the code. *)
ASSUME PipeAssumption ==
  /\ PIPESIZE \in Nat \ {0} /\ UINT_MAX1 \in Nat
  /\ PIPESIZE < UINT_MAX1 /\ UINT_MAX1 % PIPESIZE = 0
  /\ Writer \cap Reader = {}
ASSUME ConsoleAssumption ==
  /\ INPUT_BUF \in Nat \ {0} /\ INPUT_UINT \in Nat
  /\ INPUT_BUF < INPUT_UINT /\ INPUT_UINT % INPUT_BUF = 0
  /\ Newline \in Char
ASSUME ClockAssumption == UINT \in Nat \ {0}

VARIABLES part,
          data, nread, nwrite, readopen, writeopen, freed, left, asleep, killed,  \* of Pipe
          buf, r, w, e, cpc, n, target, ckilled                                   \* of Console
pipeVars == <<data, nread, nwrite, readopen, writeopen, freed, left, asleep, killed>>
consoleVars == <<buf, r, w, e, cpc, n, target, ckilled>>

Bytes == INSTANCE Pipe
Tty == INSTANCE Console WITH
  Reader <- ConsoleReader, UINT <- INPUT_UINT, pc <- cpc, killed <- ckilled

StreamsInit ==
  /\ Init /\ Bytes!Init /\ Tty!Init
  /\ part \in {"pipe", "console", "clock"}
  /\ part # "pipe" => \A i, j \in DOMAIN data : data[i] = data[j]
  /\ part # "clock" => ticks = 0
StreamsNext ==
  \/ part = "pipe" /\ Bytes!Next /\ UNCHANGED <<part, consoleVars, clockVars>>
  \/ part = "console" /\ Tty!Next /\ UNCHANGED <<part, pipeVars, clockVars>>
  \/ part = "clock" /\ Next /\ UNCHANGED <<part, pipeVars, consoleVars>>
StreamsSpec == StreamsInit /\ [][StreamsNext]_<<part, pipeVars, consoleVars, clockVars>>

Symmetry ==
  Permutations(Writer) \cup Permutations(Reader) \cup Permutations(Byte)
  \cup Permutations(Sleeper)

-----------------------------------------------------------------------------
(* Nobody is forgotten asleep: a pipe's reader or writer, or a reader of   *)
(* the console, sleeps only while there is nothing to do for it, a thread  *)
(* in sys_sleep only while its time is not over; and no pipe is freed      *)
(* under somebody who uses it, or sleeps in it.                            *)
NoSleeperForgotten ==
  /\ Bytes!NoLostWakeup /\ Bytes!NotFreedInUse
  /\ Tty!NoLostWakeup /\ NoMissedTick

(* The ring buffer of a pipe implements a bounded queue of bytes: every    *)
(* byte is read once and in order, by one reader.                          *)
ImplementsStream == Bytes!ImplementsStream

(* The console's three indexes implement a line that is edited and an      *)
(* input that is read once, in order, up to the end of a line or a ^D.     *)
ImplementsTerminal == Tty!ImplementsTerminal
=============================================================================

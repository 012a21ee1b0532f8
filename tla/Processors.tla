----------------------------- MODULE Processors -----------------------------
(***************************************************************************)
(* The processors of the machine: how they start (Boot), and the spin      *)
(* locks with which they keep apart once they run (Spinlock).              *)
(***************************************************************************)
EXTENDS Naturals

CONSTANTS CPUs, Threads, NoCPU, Locks, ptable,   \* for Spinlock
          ncpu, Low, Pages                       \* for Boot

ASSUME CpuAssumption == NoCPU \notin CPUs /\ CPUs \cap Threads = {}

ASSUME LockAssumption == ptable \in Locks

(* The memory below 4 MB has a page for every processor's stack.           *)
ASSUME BootAssumption ==
  /\ ncpu \in Nat \ {0} /\ Low \in Nat /\ Pages \in Nat
  /\ ncpu <= Low + 1 /\ Low <= Pages

VARIABLES
  locked, lkcpu, ncli, intena, FL_IF, on, ctx, saved, spinpanic,      \* of Spinlock
  bpc, next, freelist, use_lock, kmemHeld, mailbox, ipis, started,    \* of Boot
  stack, r, runnable, countHeld, clobbered
spinVars == <<locked, lkcpu, ncli, intena, FL_IF, on, ctx, saved, spinpanic>>
bootVars == <<bpc, next, freelist, use_lock, kmemHeld, mailbox, ipis, started, stack, r,
              runnable, countHeld, clobbered>>

Spin == INSTANCE Spinlock WITH owner <- lkcpu, panicked <- spinpanic
Start == INSTANCE Boot WITH pc <- bpc

Locking == Spin!Next /\ UNCHANGED bootVars
Starting == Start!Next /\ UNCHANGED spinVars
ProcessorsInit == Spin!Init /\ Start!Init
ProcessorsSpec == ProcessorsInit /\ [][Locking \/ Starting]_<<spinVars, bootVars>>

-----------------------------------------------------------------------------
(* A spin lock is in the hands of one flow of control, none is held by     *)
(* code that an interrupt has suspended or may suspend, the panics of      *)
(* spinlock.c and sched() are not reached, and code without locks runs     *)
(* with the interrupt flag it started with, on whichever CPU.              *)
LocksSafe == Spin!LocksSafe /\ Spin!FlagsRestored

(* Every processor starts on a stack of its own, and what has no lock yet, *)
(* or a lock that is initialized again, is used by one processor.          *)
StartsSafely == Start!StartsSafely
=============================================================================

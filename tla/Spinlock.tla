------------------------------ MODULE Spinlock ------------------------------
(***************************************************************************)
(* Spin locks (spinlock.c) with what they have to live with: interrupts,   *)
(* which run kernel code on top of whatever a CPU is doing, and sched(),   *)
(* which moves a thread with ptable.lock held from one CPU to another.     *)
(*                                                                         *)
(* A flow of control is a thread, or the scheduler loop of a CPU (named by *)
(* the CPU itself).  A flow has a frame, the code it is in, and a stack of *)
(* the frames that interrupts have suspended.  The kernel code that calls  *)
(* acquire and release is arbitrary, but does not ask for a lock that it   *)
(* has itself.  It nests locks in any order: sleep() takes ptable.lock     *)
(* under others, wait() takes pg_count_lock and kmem.lock under it.        *)
(***************************************************************************)
EXTENDS Naturals, FiniteSets, Sequences

CONSTANTS CPUs, Threads, NoCPU,
          Locks,    \* the spin locks of the kernel
          ptable    \* ptable.lock, the one held across sched()

VARIABLES
    locked,    \* lk->locked
    owner,     \* lk->cpu
    ncli,      \* cpu->ncli
    intena,    \* cpu->intena
    FL_IF,     \* the interrupt flag of the CPU
    on,        \* the flow that the CPU executes
    ctx,       \* the frame of a flow
    saved,     \* the frames below it, newest first
    panicked

vars == <<locked, owner, ncli, intena, FL_IF, on, ctx, saved, panicked>>

Flows == Threads \cup CPUs

(***************************************************************************)
(* kind: a system call ("base", interrupts on), an interrupt handler, the  *)
(* scheduler loop, or forkret on the way to the first return to user mode. *)
(* at: "run" between calls of acquire and release, otherwise inside one.   *)
(* held: the locks this code has and owes a release.                       *)
(***************************************************************************)
Kinds == {"base", "irq", "sched", "forkret"}
Ats == {"run", "sti", "cli", "xchg", "owner", "unlock", "popcli", "resume"}
Frames == [kind : Kinds, at : Ats, lk : Locks, flag : BOOLEAN, held : SUBSET Locks]

Frame(kind, at) ==
    [kind |-> kind, at |-> at, lk |-> ptable, flag |-> TRUE, held |-> {}]

TypeOK ==
    /\ locked \in [Locks -> BOOLEAN]
    /\ owner \in [Locks -> CPUs \cup {NoCPU}]
    /\ ncli \in [CPUs -> Nat]
    /\ intena \in [CPUs -> BOOLEAN]
    /\ FL_IF \in [CPUs -> BOOLEAN]
    /\ on \in [CPUs -> Flows]
    /\ ctx \in [Flows -> Frames]
    /\ saved \in [Flows -> Seq(Frames)]
    /\ panicked \in BOOLEAN

\* initlock; a new thread starts in forkret, on top of the frame that its
\* return to user mode leads to, and a CPU at the top of scheduler().
Init ==
    /\ locked = [l \in Locks |-> FALSE]
    /\ owner = [l \in Locks |-> NoCPU]
    /\ ncli = [c \in CPUs |-> 0]
    /\ intena = [c \in CPUs |-> FALSE]
    /\ FL_IF = [c \in CPUs |-> FALSE]
    /\ on = [c \in CPUs |-> c]
    /\ ctx = [f \in Flows |-> IF f \in CPUs THEN Frame("sched", "sti")
                                            ELSE Frame("forkret", "run")]
    /\ saved = [f \in Flows |-> IF f \in CPUs THEN <<>>
                                              ELSE <<Frame("base", "run")>>]
    /\ panicked = FALSE

Holding(l, c) == locked[l] /\ owner[l] = c

Panic == /\ panicked' = TRUE
         /\ UNCHANGED <<locked, owner, ncli, intena, FL_IF, on, ctx, saved>>

\* The flow of c is at `at` and goes on with the frame g.
Goes(c, g) == ctx' = [ctx EXCEPT ![on[c]] = g]

Now(c) == ctx[on[c]]

\* A call has returned: its local variables are gone.
Back(x, at) == [Frame(x.kind, at) EXCEPT !.held = x.held]

-----------------------------------------------------------------------------
(***************************************************************************)
(* acquire: read the flags, then cli.  An interrupt may come in between.   *)
(***************************************************************************)
MayTake(x, l) == /\ x.at = "run"
                 /\ l \notin x.held
                 /\ x.kind = "sched" => l = ptable

ReadFlags(c) ==
    /\ \E l \in Locks :
          /\ MayTake(Now(c), l)
          /\ Goes(c, [Now(c) EXCEPT !.at = "cli", !.lk = l, !.flag = FL_IF[c]])
    /\ UNCHANGED <<locked, owner, ncli, intena, FL_IF, on, saved, panicked>>

pushcli(c) ==
    /\ FL_IF' = [FL_IF EXCEPT ![c] = FALSE]
    /\ ncli' = [ncli EXCEPT ![c] = @ + 1]
    /\ intena' = [intena EXCEPT ![c] = IF ncli[c] = 0 THEN Now(c).flag ELSE @]

Pushcli(c) ==
    /\ Now(c).at = "cli"
    /\ IF Holding(Now(c).lk, c)
       THEN Panic
       ELSE /\ pushcli(c)
            /\ Goes(c, [Now(c) EXCEPT !.at = "xchg"])
            /\ UNCHANGED <<locked, owner, on, saved, panicked>>

Xchg(c) ==
    /\ Now(c).at = "xchg"
    /\ ~ locked[Now(c).lk]
    /\ locked' = [locked EXCEPT ![Now(c).lk] = TRUE]
    /\ Goes(c, [Now(c) EXCEPT !.at = "owner", !.held = @ \cup {Now(c).lk}])
    /\ UNCHANGED <<owner, ncli, intena, FL_IF, on, saved, panicked>>

SetOwner(c) ==
    /\ Now(c).at = "owner"
    /\ owner' = [owner EXCEPT ![Now(c).lk] = c]
    /\ Goes(c, Back(Now(c), "run"))
    /\ UNCHANGED <<locked, ncli, intena, FL_IF, on, saved, panicked>>

-----------------------------------------------------------------------------
(***************************************************************************)
(* release: clear the owner, then the lock, then popcli.                   *)
(***************************************************************************)
ClearOwner(c) ==
    /\ Now(c).at = "run"
    /\ \E l \in Now(c).held :
          IF ~ Holding(l, c)
          THEN Panic
          ELSE /\ owner' = [owner EXCEPT ![l] = NoCPU]
               /\ Goes(c, [Now(c) EXCEPT !.at = "unlock", !.lk = l])
               /\ UNCHANGED <<locked, ncli, intena, FL_IF, on, saved, panicked>>

Unlock(c) ==
    /\ Now(c).at = "unlock"
    /\ locked' = [locked EXCEPT ![Now(c).lk] = FALSE]
    /\ Goes(c, [Now(c) EXCEPT !.at = "popcli", !.held = @ \ {Now(c).lk}])
    /\ UNCHANGED <<owner, ncli, intena, FL_IF, on, saved, panicked>>

\* The scheduler goes on to its sti().
Popcli(c) ==
    /\ Now(c).at = "popcli"
    /\ IF FL_IF[c] \/ ncli[c] = 0
       THEN Panic
       ELSE /\ ncli' = [ncli EXCEPT ![c] = @ - 1]
            /\ FL_IF' = [FL_IF EXCEPT ![c] = @ \/ (ncli[c] = 1 /\ intena[c])]
            /\ Goes(c, Back(Now(c), IF Now(c).kind = "sched" THEN "sti" ELSE "run"))
            /\ UNCHANGED <<locked, owner, intena, on, saved, panicked>>

-----------------------------------------------------------------------------
(***************************************************************************)
(* Interrupts: the gate clears the flag, and the return restores it (the   *)
(* code below was interrupted, so it was set).  forkret returns the same   *)
(* way, with the FL_IF that userinit or fork has put in the trap frame.    *)
(***************************************************************************)
Interrupt(c) ==
    /\ FL_IF[c]
    /\ FL_IF' = [FL_IF EXCEPT ![c] = FALSE]
    /\ Goes(c, Frame("irq", "run"))
    /\ saved' = [saved EXCEPT ![on[c]] = <<Now(c)>> \o @]
    /\ UNCHANGED <<locked, owner, ncli, intena, on, panicked>>

Iret(c) ==
    /\ Now(c).at = "run" /\ Now(c).held = {} /\ Now(c).kind \in {"irq", "forkret"}
    /\ saved[on[c]] # <<>>
    /\ FL_IF' = [FL_IF EXCEPT ![c] = TRUE]
    /\ Goes(c, Head(saved[on[c]]))
    /\ saved' = [saved EXCEPT ![on[c]] = Tail(@)]
    /\ UNCHANGED <<locked, owner, ncli, intena, on, panicked>>

-----------------------------------------------------------------------------
(***************************************************************************)
(* scheduler() and sched().  ptable.lock goes with the switch; the local   *)
(* variable intena of sched() is kept in the frame's flag.                 *)
(***************************************************************************)
Sti(c) ==
    /\ Now(c).at = "sti"
    /\ FL_IF' = [FL_IF EXCEPT ![c] = TRUE]
    /\ Goes(c, [Now(c) EXCEPT !.at = "run"])
    /\ UNCHANGED <<locked, owner, ncli, intena, on, saved, panicked>>

Sched(c) ==
    /\ Now(c).at = "run" /\ Now(c).held = {ptable} /\ on[c] \in Threads
    /\ IF ~ Holding(ptable, c) \/ ncli[c] # 1 \/ FL_IF[c]
       THEN Panic
       ELSE /\ ctx' = [ctx EXCEPT ![on[c]] = [@ EXCEPT !.at = "resume",
                                                       !.flag = intena[c],
                                                       !.held = {}],
                                  ![c].held = {ptable}]
            /\ on' = [on EXCEPT ![c] = c]
            /\ UNCHANGED <<locked, owner, ncli, intena, FL_IF, saved, panicked>>

\* swtch to t: a thread that has run before comes back inside sched(), a new
\* one in forkret.  Both hold ptable.lock now.
Swtch(c, t) ==
    /\ on[c] = c /\ Now(c).kind = "sched" /\ Now(c).at = "run"
    /\ Now(c).held = {ptable}
    /\ \A d \in CPUs : on[d] # t
    /\ ctx' = [ctx EXCEPT ![c].held = {}, ![t].held = {ptable}]
    /\ on' = [on EXCEPT ![c] = t]
    /\ UNCHANGED <<locked, owner, ncli, intena, FL_IF, saved, panicked>>

ResumeKeepsCpuFlag(c) ==
    /\ Now(c).at = "resume"
    /\ Goes(c, Back(Now(c), "run"))
    /\ UNCHANGED <<locked, owner, ncli, intena, FL_IF, on, saved, panicked>>

Resume(c) ==
    /\ Now(c).at = "resume"
    /\ intena' = [intena EXCEPT ![c] = Now(c).flag]
    /\ Goes(c, Back(Now(c), "run"))
    /\ UNCHANGED <<locked, owner, ncli, FL_IF, on, saved, panicked>>

Step(c) ==
    \/ ReadFlags(c) \/ Pushcli(c) \/ Xchg(c) \/ SetOwner(c)
    \/ ClearOwner(c) \/ Unlock(c) \/ Popcli(c)
    \/ Interrupt(c) \/ Iret(c)
    \/ Sti(c) \/ Sched(c) \/ Resume(c)
    \/ \E t \in Threads : Swtch(c, t)

Next == ~ panicked /\ \E c \in CPUs : Step(c)

Spec == Init /\ [][Next]_vars

-----------------------------------------------------------------------------
(***************************************************************************)
(* What the kernel relies on.                                              *)
(***************************************************************************)

\* A lock is in the hands of one flow; a CPU takes no interrupt while its flow
\* has a lock, so that no handler can spin for a lock of the code below it; and
\* none of the panics of acquire, release, popcli and sched is reached.
LocksSafe ==
    /\ ~ panicked
    /\ \A f, g \in Flows : f # g => ctx[f].held \cap ctx[g].held = {}
    /\ \A c \in CPUs : Now(c).held # {} => ~ FL_IF[c]
    /\ \A f \in Flows : \A i \in DOMAIN saved[f] : saved[f][i].held = {}

\* Code that holds no lock runs with the interrupt flag it started with: a
\* system call with interrupts on, a handler with interrupts off, also when it
\* slept with a nested lock or came back from sched() on another CPU.
FlagsRestored ==
    \A c \in CPUs :
       Now(c).at = "run" /\ Now(c).held = {} /\ Now(c).kind \in {"base", "irq"}
          => (FL_IF[c] <=> Now(c).kind = "base")
=============================================================================

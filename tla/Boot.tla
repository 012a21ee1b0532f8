-------------------------------- MODULE Boot --------------------------------
(***************************************************************************)
(* Starting the processors: main(), startothers() and mpmain() of main.c,  *)
(* the code the other processors enter with (entryother.S), the messages   *)
(* that wake them (lapicstartap), and the parts of kalloc.c, vm.c and      *)
(* proc.c that are not yet protected by locks meanwhile.                   *)
(*                                                                         *)
(* Pages 1 .. Low are the memory below 4 MB that entrypgdir maps; the      *)
(* others reach the free list in kinit2.                                   *)
(***************************************************************************)
EXTENDS Naturals, Sequences, FiniteSets

CONSTANTS ncpu,        \* processors, named 0 .. ncpu-1; 0 boots
          Low, Pages   \* memory below 4 MB, and all of it

CPU == 0..(ncpu - 1)
NoPage == 0

VARIABLES
    pc,         \* where a processor is
    next,       \* startothers: the processor c of the loop
    freelist, use_lock, kmemHeld,          \* kmem
    mailbox,    \* the word at code-4, the stack for the next processor
    ipis,       \* STARTUP messages on the way to a processor
    started,    \* cpu->started
    stack,      \* the page a processor has its stack in
    r,          \* kalloc's local variable r: the list as it was read
    runnable,   \* there is a process to run
    countHeld,  \* the processor that holds pg_count_lock (or none)
    clobbered   \* initlock(&pg_count_lock) hit a lock that was held

vars == <<pc, next, freelist, use_lock, kmemHeld, mailbox, ipis, started, stack,
          r, runnable, countHeld, clobbered>>

Nobody == ncpu

TypeOK ==
    /\ pc \in [CPU -> {"startothers", "kalloc", "ipi", "wait", "kinit2", "use_lock",
                       "userinit", "mpmain", "halted", "entry", "mpenter",
                       "scheduler", "kernel", "took"}]
    /\ next \in 1..ncpu
    /\ freelist \in Seq(1..Pages)
    /\ use_lock \in BOOLEAN /\ runnable \in BOOLEAN /\ clobbered \in BOOLEAN
    /\ kmemHeld \in 0..ncpu /\ countHeld \in 0..ncpu
    /\ mailbox \in 0..Pages
    /\ ipis \in [CPU -> 0..2]
    /\ started \in [CPU -> BOOLEAN]
    /\ stack \in [CPU -> 0..Pages] /\ r \in [CPU -> Seq(1..Pages)]

\* main() up to startothers(): kinit1 has put the low pages on the free list,
\* the boot processor has run seginit and keeps the stack of entry.S.
Init ==
    /\ pc = [c \in CPU |-> IF c = 0 THEN "startothers" ELSE "halted"]
    /\ next = 1
    /\ freelist = [i \in 1..Low |-> Low + 1 - i]
    /\ use_lock = FALSE
    /\ kmemHeld = Nobody /\ countHeld = Nobody
    /\ mailbox = NoPage
    /\ ipis = [c \in CPU |-> 0]
    /\ started = [c \in CPU |-> FALSE]
    /\ stack = [c \in CPU |-> NoPage] /\ r = [c \in CPU |-> <<>>]
    /\ runnable = FALSE
    /\ clobbered = FALSE

Goes(c, from, to) == pc[c] = from /\ pc' = [pc EXCEPT ![c] = to]

-----------------------------------------------------------------------------
(***************************************************************************)
(* kalloc: the head of the list is read in one step and unlinked in        *)
(* another; the lock is taken when use_lock says so.                       *)
(***************************************************************************)
ReadHead(c) ==
    /\ use_lock => kmemHeld = Nobody
    /\ kmemHeld' = IF use_lock THEN c ELSE kmemHeld
    /\ r' = [r EXCEPT ![c] = freelist]

\* kmem.freelist = r->next.
Unlink(c) ==
    /\ freelist' = IF r[c] = <<>> THEN freelist ELSE Tail(r[c])
    /\ kmemHeld' = IF kmemHeld = c THEN Nobody ELSE kmemHeld

(***************************************************************************)
(* The boot processor.                                                     *)
(***************************************************************************)
StartNext ==
    /\ pc[0] = "startothers"
    /\ IF next = ncpu
       THEN Goes(0, "startothers", "kinit2") /\ UNCHANGED <<r, kmemHeld>>
       ELSE Goes(0, "startothers", "kalloc") /\ ReadHead(0)
    /\ UNCHANGED <<next, freelist, use_lock, mailbox, ipis, started, stack,
                   runnable, countHeld, clobbered>>

WriteMailbox ==
    /\ Goes(0, "kalloc", "ipi")
    /\ Unlink(0)
    /\ mailbox' = IF r[0] = <<>> THEN NoPage ELSE Head(r[0])
    /\ UNCHANGED <<next, use_lock, ipis, started, stack, r, runnable, countHeld,
                   clobbered>>

\* lapicstartap sends INIT and then STARTUP twice.
lapicstartap ==
    /\ Goes(0, "ipi", "wait")
    /\ ipis' = [ipis EXCEPT ![next] = 2]
    /\ UNCHANGED <<next, freelist, use_lock, kmemHeld, mailbox, started, stack, r,
                   runnable, countHeld, clobbered>>

DoNotWait ==
    /\ Goes(0, "wait", "startothers")
    /\ next' = next + 1
    /\ UNCHANGED <<freelist, use_lock, kmemHeld, mailbox, ipis, started, stack, r,
                   runnable, countHeld, clobbered>>

WaitStarted ==
    /\ Goes(0, "wait", "startothers")
    /\ started[next]
    /\ next' = next + 1
    /\ UNCHANGED <<freelist, use_lock, kmemHeld, mailbox, ipis, started, stack, r,
                   runnable, countHeld, clobbered>>

\* freerange puts the high pages in front; use_lock is set after it.
kinit2 ==
    /\ Goes(0, "kinit2", "use_lock")
    /\ freelist' = [i \in 1..(Pages - Low) |-> Pages + 1 - i] \o freelist
    /\ UNCHANGED <<next, use_lock, kmemHeld, mailbox, ipis, started, stack, r,
                   runnable, countHeld, clobbered>>

UseLock ==
    /\ Goes(0, "use_lock", "userinit")
    /\ use_lock' = TRUE
    /\ UNCHANGED <<next, freelist, kmemHeld, mailbox, ipis, started, stack, r,
                   runnable, countHeld, clobbered>>

\* The first process; its allocations go through the lock by now and are those
\* of any kernel code below.
userinit ==
    /\ Goes(0, "userinit", "mpmain")
    /\ runnable' = TRUE
    /\ UNCHANGED <<next, freelist, use_lock, kmemHeld, mailbox, ipis, started,
                   stack, r, countHeld, clobbered>>

(***************************************************************************)
(* The other processors.  A STARTUP is taken by a halted processor and     *)
(* ignored by a running one; the first of the two may go unheard.          *)
(***************************************************************************)
Startup(c) ==
    /\ ipis[c] > 0
    /\ ipis' = [ipis EXCEPT ![c] = @ - 1]
    /\ \/ Goes(c, "halted", "entry")
       \/ (pc[c] # "halted" \/ ipis[c] = 2) /\ UNCHANGED pc
    /\ UNCHANGED <<next, freelist, use_lock, kmemHeld, mailbox, started, stack, r,
                   runnable, countHeld, clobbered>>

\* entryother.S takes the stack from the mailbox and calls mpenter.
Entry(c) ==
    /\ Goes(c, "entry", "mpenter")
    /\ stack' = [stack EXCEPT ![c] = mailbox]
    /\ UNCHANGED <<next, freelist, use_lock, kmemHeld, mailbox, ipis, started, r,
                   runnable, countHeld, clobbered>>

\* mpenter: seginit, which initializes pg_count_lock again.
seginit(c) ==
    /\ Goes(c, "mpenter", "mpmain")
    /\ clobbered' = (clobbered \/ countHeld # Nobody)
    /\ countHeld' = Nobody
    /\ UNCHANGED <<next, freelist, use_lock, kmemHeld, mailbox, ipis, started,
                   stack, r, runnable>>

mpmain(c) ==
    /\ Goes(c, "mpmain", "scheduler")
    /\ started' = [started EXCEPT ![c] = TRUE]
    /\ UNCHANGED <<next, freelist, use_lock, kmemHeld, mailbox, ipis, stack, r,
                   runnable, countHeld, clobbered>>

(***************************************************************************)
(* Once there is a process, every processor in the scheduler may find a    *)
(* thread whose system call allocates a page or counts shared pages.       *)
(***************************************************************************)
Allocates(c) ==
    /\ runnable
    /\ \/ Goes(c, "scheduler", "took") /\ ReadHead(c) /\ UNCHANGED freelist
       \/ Goes(c, "took", "scheduler") /\ Unlink(c) /\ UNCHANGED r
    /\ UNCHANGED <<next, use_lock, mailbox, ipis, started, stack, runnable,
                   countHeld, clobbered>>

Counts(c) ==
    /\ runnable
    /\ \/ /\ Goes(c, "scheduler", "kernel")
          /\ countHeld = Nobody
          /\ countHeld' = c
       \/ /\ Goes(c, "kernel", "scheduler")
          /\ countHeld' = Nobody
    /\ UNCHANGED <<next, freelist, use_lock, kmemHeld, mailbox, ipis, started,
                   stack, r, runnable, clobbered>>

Next ==
    \/ StartNext \/ WriteMailbox \/ lapicstartap \/ WaitStarted
    \/ kinit2 \/ UseLock \/ userinit
    \/ \E c \in CPU : \/ Startup(c) \/ Entry(c) \/ seginit(c) \/ mpmain(c)
                      \/ Allocates(c) \/ Counts(c)

Spec == Init /\ [][Next]_vars

-----------------------------------------------------------------------------
\* Every processor gets a stack of its own, in memory that entrypgdir maps,
\* although all of them read it from one word; two processors are never in
\* the allocator together, although it runs without its lock until kinit2;
\* and seginit, which initializes pg_count_lock on every processor, never
\* does it under a holder.
StartsSafely ==
    /\ \A c \in CPU : pc[c] = "mpenter" => stack[c] \in 1..Low
    /\ \A c, d \in CPU : c # d /\ stack[c] = stack[d] => stack[c] = NoPage
    /\ \A c, d \in CPU : {pc[c], pc[d]} \subseteq {"kalloc", "took"} => c = d
    /\ \A c \in CPU : stack[c] # NoPage => \A i \in DOMAIN freelist : freelist[i] # stack[c]
    /\ ~ clobbered
=============================================================================

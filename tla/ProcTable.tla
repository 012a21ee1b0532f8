------------------------------ MODULE ProcTable ------------------------------
(***************************************************************************)
(* The process table of the kernel: processes, the kernel threads inside   *)
(* them, and the CPUs that run them (proc.c, kthread.c, the life-cycle     *)
(* checks of trap.c and wait_before_exec of exec.c).                       *)
(*                                                                         *)
(* A step is one critical section of ptable.lock or of a process's own     *)
(* lock, cut wherever the code lets somebody who does not take that lock   *)
(* look at the state.  A thread's kernel continuation is in frame[c] while *)
(* CPU c runs it and in ctx[t] (t->context) while it is switched out, so   *)
(* that a CPU can be seen running on a stack that was freed under it.      *)
(*                                                                         *)
(* Abstracted: pids and tids (an operation names the slot its id denotes), *)
(* open files (cwd stands for what exit gives back), the contents of       *)
(* memory (pgdir and kstack say whether it is allocated).                  *)
(***************************************************************************)
EXTENDS Integers

CONSTANTS
  NPROC,        \* slots of ptable.proc
  NTHREAD,      \* slots of proc.pthreads
  CPU,          \* the processors
  NoCPU,        \* the holder of a free spinlock
  Calls,        \* system calls the programs make
  InitCalls,    \* system calls /init makes
  Victims,      \* processes the programs pass to kill
  OutOfMemory   \* can kalloc return 0?

Call == {"fork", "exit", "wait", "kill", "exec",
         "kthread_create", "kthread_exit", "kthread_join"}

ASSUME SizesAssumption == NPROC \in Nat \ {0} /\ NTHREAD \in Nat \ {0}
ASSUME CPUAssumption == NoCPU \notin CPU
ASSUME ProgramAssumption ==
  /\ Calls \subseteq Call /\ InitCalls \subseteq Call
  /\ Victims \subseteq 1 .. NPROC
  /\ OutOfMemory \in BOOLEAN

Proc == 1 .. NPROC
initproc == 1
NoProc == 0
Thread == Proc \X (1 .. NTHREAD)
ThreadsOf(p) == {p} \X (1 .. NTHREAD)
tproc(t) == t[1]
NoThread == <<>>

VARIABLES
  pstate, parent, killed, executed, cwd, pgdir,  \* struct proc
  tstate, chan, kstack, ctx,                     \* struct thread
  running, frame,                                \* per CPU: thread, its continuation
  ptl, plock,                                    \* holders of ptable.lock and p->lock
  panic                                          \* what the kernel stopped with

procVars == <<pstate, parent, killed, executed, cwd, pgdir>>
threadVars == <<tstate, chan, kstack, ctx>>
lockVars == <<ptl, plock>>
vars == <<procVars, threadVars, running, frame, lockVars, panic>>

ProcState == {"UNUSED", "EMBRYO", "RUNNABLE", "ZOMBIE"}
ThreadState == {"UNUSED", "EMBRYO", "SLEEPING", "RUNNABLE", "RUNNING", "ZOMBIE"}
(* A channel is the address of a process, <<p>>, or of a thread.           *)
Chan == {<<p>> : p \in Proc} \cup Thread \cup {<<>>}
PC == Call \cup
      {"idle", "user", "ret", "swtch", "dead", "fork_setup", "fork_start",
       "yield", "exit_cwd", "exit_table", "wait_again", "create_stack",
       "create_start", "kexit_sched", "join_sleep", "join_again",
       "exec_scan", "exec_alive", "exec_wake", "exec_sleep", "exec_again"}
Frame == [pc : PC, arg : Chan]

(* The type invariant.                                                     *)
TypeOK ==
  /\ pstate \in [Proc -> ProcState]
  /\ parent \in [Proc -> Proc \cup {NoProc}]
  /\ killed \in [Proc -> BOOLEAN] /\ executed \in [Proc -> BOOLEAN]
  /\ cwd \in [Proc -> BOOLEAN] /\ pgdir \in [Proc -> BOOLEAN]
  /\ tstate \in [Thread -> ThreadState]
  /\ chan \in [Thread -> Chan]
  /\ kstack \in [Thread -> BOOLEAN]
  /\ ctx \in [Thread -> Frame]
  /\ running \in [CPU -> Thread \cup {NoThread}]
  /\ frame \in [CPU -> Frame]
  /\ ptl \in CPU \cup {NoCPU}
  /\ plock \in [Proc -> CPU \cup {NoCPU}]
  /\ panic \in {"no", "init exiting", "trap", "zombie exit",
              "wait: thread is still alive", "junk"}

-----------------------------------------------------------------------------
At(c, l) == frame[c].pc = l
ProcOf(c) == tproc(running[c])
Go(c, l, a) == frame' = [frame EXCEPT ![c] = [pc |-> l, arg |-> a]]
Return(c) == Go(c, "ret", <<>>)
UserFrame == [pc |-> "user", arg |-> <<>>]
NoFrame == [pc |-> "dead", arg |-> <<>>]

(* trap(): a trap of a dying process ends in exit() instead of user space. *)
DyingIfExecuted(p) == executed[p]
Dying(p) == killed[p] \/ executed[p]

(* The thread states after wakeup1(ch) (and wakeup2, whose loop bound      *)
(* NPROC reaches past the process but finds no other sleeper on a thread   *)
(* of this one).                                                           *)
wakeup1Nobody(ts, ch) == ts
wakeup1(ts, ch) ==
  [t \in Thread |-> IF ts[t] = "SLEEPING" /\ chan[t] = ch THEN "RUNNABLE" ELSE ts[t]]

(* userinit: the first process, ready to enter user space.                 *)
Init ==
  LET t0 == <<initproc, 1>> IN
  /\ pstate = [p \in Proc |-> IF p = initproc THEN "RUNNABLE" ELSE "UNUSED"]
  /\ parent = [p \in Proc |-> NoProc]
  /\ killed = [p \in Proc |-> FALSE] /\ executed = [p \in Proc |-> FALSE]
  /\ cwd = [p \in Proc |-> p = initproc] /\ pgdir = [p \in Proc |-> p = initproc]
  /\ tstate = [t \in Thread |-> IF t = t0 THEN "RUNNABLE" ELSE "UNUSED"]
  /\ chan = [t \in Thread |-> <<>>]
  /\ kstack = [t \in Thread |-> t = t0]
  /\ ctx = [t \in Thread |-> UserFrame]
  /\ running = [c \in CPU |-> NoThread]
  /\ frame = [c \in CPU |-> [pc |-> "idle", arg |-> <<>>]]
  /\ ptl = NoCPU /\ plock = [p \in Proc |-> NoCPU]
  /\ panic = "no"

-----------------------------------------------------------------------------
(* Scheduler, context switch and sleep.                                    *)

(* scheduler(): run any RUNNABLE thread, whatever the state of its         *)
(* process.  swtch pops the context off the thread's stack; forkret, yield *)
(* and sleep release ptable.lock on resumption, wait's sleep keeps it.     *)
Dispatch(c, t) ==
  /\ At(c, "idle") /\ ptl = NoCPU /\ tstate[t] = "RUNNABLE"
  /\ tstate' = [tstate EXCEPT ![t] = "RUNNING"]
  /\ chan' = [chan EXCEPT ![t] = <<>>]
  /\ running' = [running EXCEPT ![c] = t]
  /\ frame' = [frame EXCEPT ![c] = ctx[t]]
  /\ ctx' = [ctx EXCEPT ![t] = NoFrame]
  /\ ptl' = IF ctx[t].pc = "wait_again" THEN c ELSE NoCPU
  /\ UNCHANGED <<procVars, kstack, plock, panic>>

(* sched(): swtch to the CPU's scheduler, which releases ptable.lock.      *)
Swtch(c) ==
  /\ At(c, "swtch")
  /\ running' = [running EXCEPT ![c] = NoThread]
  /\ Go(c, "idle", <<>>)
  /\ ptl' = NoCPU
  /\ UNCHANGED <<procVars, threadVars, plock, panic>>

(* The part of sleep() that holds ptable.lock, up to the swtch.            *)
SleepOn(c, ch, resume, a) ==
  LET t == running[c] IN
  /\ chan' = [chan EXCEPT ![t] = ch]
  /\ tstate' = [tstate EXCEPT ![t] = "SLEEPING"]
  /\ ctx' = [ctx EXCEPT ![t] = [pc |-> resume, arg |-> a]]
  /\ Go(c, "swtch", <<>>)
  /\ ptl' = c

(* sleep(ch, &p->lock): take ptable.lock, then let go of p->lock.          *)
SleepKeeping(c, ch, resume, a) ==
  /\ ptl = NoCPU
  /\ SleepOn(c, ch, resume, a)
  /\ UNCHANGED <<procVars, kstack, running, plock, panic>>
SleepReleasing(c, ch, resume, a) ==
  /\ ptl = NoCPU
  /\ SleepOn(c, ch, resume, a)
  /\ plock' = [plock EXCEPT ![ProcOf(c)] = NoCPU]
  /\ UNCHANGED <<procVars, kstack, running, panic>>

(* Points where the thread holds no spinlock and handles no interrupt, so  *)
(* that interrupts are on.                                                 *)
Preemptible == PC \ {"idle", "dead", "swtch", "yield", "wait_again", "kexit_sched",
                     "join_sleep", "exec_scan", "exec_alive", "exec_wake", "exec_sleep"}

(* A clock tick: trap() calls yield() unless the thread is no longer       *)
(* RUNNING.  What was interrupted lies on the thread's stack; a thread     *)
(* interrupted in user space checks for death when it is back.             *)
Tick(c) ==
  LET t == running[c]
  IN /\ frame[c].pc \in Preemptible /\ tstate[t] = "RUNNING"
     /\ At(c, "user") => ~Dying(tproc(t))
     /\ ctx' = [ctx EXCEPT ![t] = IF At(c, "user") THEN [pc |-> "ret", arg |-> <<>>]
                                                   ELSE frame[c]]
     /\ Go(c, "yield", <<>>)
     /\ UNCHANGED <<procVars, tstate, chan, kstack, running, lockVars, panic>>

(* yield() takes ptable.lock only now: the thread may be a ZOMBIE already, *)
(* and becomes RUNNABLE all the same.                                      *)
Yield(c) ==
  /\ At(c, "yield") /\ ptl = NoCPU
  /\ tstate' = [tstate EXCEPT ![running[c]] = "RUNNABLE"]
  /\ Go(c, "swtch", <<>>)
  /\ ptl' = c
  /\ UNCHANGED <<procVars, chan, kstack, ctx, running, plock, panic>>

(* A thread that has left for good is scheduled again: sched() returns.    *)
DeadRuns(c) ==
  /\ At(c, "dead")
  /\ panic' = "zombie exit"
  /\ UNCHANGED <<procVars, threadVars, running, frame, lockVars>>

-----------------------------------------------------------------------------
(* trap(): between user space and the system calls.                        *)

SysEnter(c, call) ==
  /\ At(c, "user") /\ ~Dying(ProcOf(c))
  /\ call \in IF ProcOf(c) = initproc THEN InitCalls ELSE Calls
  /\ Go(c, call, <<>>)
  /\ UNCHANGED <<procVars, threadVars, running, lockVars, panic>>

SysReturn(c) ==
  /\ At(c, "ret") /\ ~Dying(ProcOf(c))
  /\ Go(c, "user", <<>>)
  /\ UNCHANGED <<procVars, threadVars, running, lockVars, panic>>

TrapDying(c) ==
  /\ At(c, "user") \/ At(c, "ret")
  /\ Dying(ProcOf(c))
  /\ Go(c, "exit", <<>>)
  /\ UNCHANGED <<procVars, threadVars, running, lockVars, panic>>

(* A fault in user space: assume the process misbehaved, kill it.          *)
UserFault(c) ==
  /\ At(c, "user") /\ ProcOf(c) \in Victims
  /\ killed' = [killed EXCEPT ![ProcOf(c)] = TRUE]
  /\ Go(c, "exit", <<>>)
  /\ UNCHANGED <<pstate, parent, executed, cwd, pgdir, threadVars, running, lockVars, panic>>

-----------------------------------------------------------------------------
(* fork() (cow_fork differs in how the memory is set up, see Cow).         *)

(* allocproc: the first UNUSED slot becomes EMBRYO, its threads UNUSED.    *)
ForkAllocProc(c, np) ==
  /\ At(c, "fork") /\ ptl = NoCPU
  /\ pstate[np] = "UNUSED" /\ \A q \in 1 .. np - 1 : pstate[q] # "UNUSED"
  /\ pstate' = [pstate EXCEPT ![np] = "EMBRYO"]
  /\ executed' = [executed EXCEPT ![np] = FALSE]
  /\ tstate' = [t \in Thread |-> IF tproc(t) = np THEN "UNUSED" ELSE tstate[t]]
  /\ Go(c, "fork_setup", <<np>>)
  /\ UNCHANGED <<parent, killed, cwd, pgdir, chan, kstack, ctx, running, lockVars, panic>>

ForkNoProc(c) ==
  /\ At(c, "fork") /\ ptl = NoCPU
  /\ \A q \in Proc : pstate[q] # "UNUSED"
  /\ Return(c)
  /\ UNCHANGED <<procVars, threadVars, running, lockVars, panic>>

(* allocthread takes the first UNUSED thread slot of p.                    *)
FirstFree(p, i) ==
  tstate[<<p, i>>] = "UNUSED" /\ \A j \in 1 .. i - 1 : tstate[<<p, j>>] # "UNUSED"
NoneFree(p) == \A i \in 1 .. NTHREAD : tstate[<<p, i>>] # "UNUSED"

(* initlock(&np->lock), allocthread, copyuvm and the copy of the process.  *)
ForkSetup(c, i) ==
  LET np == frame[c].arg[1]
      nt == <<np, i>>
  IN /\ At(c, "fork_setup") /\ FirstFree(np, i)
     /\ plock' = [plock EXCEPT ![np] = NoCPU]
     /\ tstate' = [tstate EXCEPT ![nt] = "EMBRYO"]
     /\ kstack' = [kstack EXCEPT ![nt] = TRUE]
     /\ ctx' = [ctx EXCEPT ![nt] = UserFrame]
     /\ pgdir' = [pgdir EXCEPT ![np] = TRUE]
     /\ parent' = [parent EXCEPT ![np] = ProcOf(c)]
     /\ cwd' = [cwd EXCEPT ![np] = cwd[ProcOf(c)]]
     /\ Go(c, "fork_start", nt)
     /\ UNCHANGED <<pstate, killed, executed, chan, running, ptl, panic>>

(* allocthread fails: allocproc returns 0 and the slot stays EMBRYO.       *)
ForkNoStack(c) ==
  /\ At(c, "fork_setup")
  /\ OutOfMemory \/ NoneFree(frame[c].arg[1])
  /\ plock' = [plock EXCEPT ![frame[c].arg[1]] = NoCPU]
  /\ Return(c)
  /\ UNCHANGED <<procVars, threadVars, running, ptl, panic>>

(* copyuvm fails: the stack is freed, both slots are UNUSED again.         *)
ForkNoMemory(c) ==
  LET np == frame[c].arg[1] IN
  /\ At(c, "fork_setup") /\ OutOfMemory
  /\ plock' = [plock EXCEPT ![np] = NoCPU]
  /\ pstate' = [pstate EXCEPT ![np] = "UNUSED"]
  /\ Return(c)
  /\ UNCHANGED <<parent, killed, executed, cwd, pgdir, threadVars, running, ptl, panic>>

ForkStart(c) ==
  LET nt == frame[c].arg IN
  /\ At(c, "fork_start") /\ ptl = NoCPU
  /\ pstate' = [pstate EXCEPT ![tproc(nt)] = "RUNNABLE"]
  /\ tstate' = [tstate EXCEPT ![nt] = "RUNNABLE"]
  /\ Return(c)
  /\ UNCHANGED <<parent, killed, executed, cwd, pgdir, chan, kstack, ctx, running, lockVars, panic>>

-----------------------------------------------------------------------------
(* exit(), wait() and kill().                                              *)

ExitInit(c) ==
  /\ At(c, "exit") /\ ProcOf(c) = initproc
  /\ panic' = "init exiting"
  /\ UNCHANGED <<procVars, threadVars, running, frame, lockVars>>

(* Close the files and put the directory back.  Nothing keeps a second     *)
(* thread of the process out: it may put the same directory back again.    *)
ExitFiles(c) ==
  /\ At(c, "exit") /\ ProcOf(c) # initproc
  /\ Go(c, "exit_cwd", <<>>)
  /\ UNCHANGED <<procVars, threadVars, running, lockVars, panic>>

(* A thread that comes later finds cwd = 0, and iput(0), or idup(0) in     *)
(* fork(), counts in the first page of the process: it goes on, unless     *)
(* that page is read-only, shared by cow_fork.                             *)
NullInode(c) ==
  /\ At(c, "exit") \/ At(c, "fork_setup")
  /\ ~cwd[ProcOf(c)]
  /\ panic' = "trap"
  /\ UNCHANGED <<procVars, threadVars, running, frame, lockVars>>

ExitCwd(c) ==
  /\ At(c, "exit_cwd")
  /\ cwd' = [cwd EXCEPT ![ProcOf(c)] = FALSE]
  /\ Go(c, "exit_table", <<>>)
  /\ UNCHANGED <<pstate, parent, killed, executed, pgdir, threadVars, running, lockVars, panic>>

KidsAlive(p) == {q \in Proc : parent[q] = p /\ pstate[q] # "ZOMBIE"}
Kids(p) == {q \in Proc : parent[q] = p}
DeadKids(p) == {q \in Kids(p) : pstate[q] = "ZOMBIE"}

(* exit() turns every used thread of its process into a ZOMBIE, running or *)
(* not.                                                                    *)
DoomedIfIdle(p, t) == tproc(t) = p /\ tstate[t] \notin {"UNUSED", "RUNNING"}
Doomed(p, t) == tproc(t) = p /\ tstate[t] # "UNUSED"

(* Under ptable.lock: wake the parent, pass the children to init, end the  *)
(* threads.                                                                *)
ExitTable(c) ==
  LET p == ProcOf(c)
      ts1 == wakeup1(tstate, <<parent[p]>>)
      ts2 == IF DeadKids(p) # {} THEN wakeup1(ts1, <<initproc>>) ELSE ts1
  IN /\ At(c, "exit_table") /\ ptl = NoCPU
     /\ parent' = [q \in Proc |-> IF q \in Kids(p) THEN initproc ELSE parent[q]]
     /\ tstate' = [t \in Thread |-> IF Doomed(p, t) THEN "ZOMBIE" ELSE ts2[t]]
     /\ chan' = [t \in Thread |-> IF Doomed(p, t) THEN <<>> ELSE chan[t]]
     /\ pstate' = [pstate EXCEPT ![p] = "ZOMBIE"]
     /\ ctx' = [ctx EXCEPT ![running[c]] = NoFrame]
     /\ Go(c, "swtch", <<>>)
     /\ ptl' = c
     /\ UNCHANGED <<killed, executed, cwd, pgdir, kstack, running, plock, panic>>

(* wait() holds ptable.lock from its scan to its sleep, and again from the *)
(* moment it is resumed.                                                   *)
InWaitUnlocked(c) == At(c, "wait") \/ At(c, "wait_again")
InWait(c) == (At(c, "wait") /\ ptl = NoCPU) \/ (At(c, "wait_again") /\ ptl = c)
LastDeadKid(p, q) == q \in DeadKids(p) /\ \A r \in DeadKids(p) : r <= q
FirstDeadKid(p, q) == q \in DeadKids(p) /\ \A r \in DeadKids(p) : q <= r

WaitReap(c, q) ==
  /\ InWait(c) /\ FirstDeadKid(ProcOf(c), q)
  /\ \A t \in ThreadsOf(q) : tstate[t] \in {"UNUSED", "ZOMBIE"}
  /\ kstack' = [t \in Thread |-> IF tproc(t) = q /\ tstate[t] = "ZOMBIE" THEN FALSE ELSE kstack[t]]
  /\ pgdir' = [pgdir EXCEPT ![q] = FALSE]
  /\ pstate' = [pstate EXCEPT ![q] = "UNUSED"]
  /\ parent' = [parent EXCEPT ![q] = NoProc]
  /\ killed' = [killed EXCEPT ![q] = FALSE]
  /\ ptl' = NoCPU
  /\ Return(c)
  /\ UNCHANGED <<executed, cwd, tstate, chan, ctx, running, plock, panic>>

WaitPanic(c, q) ==
  /\ InWait(c) /\ FirstDeadKid(ProcOf(c), q)
  /\ \E t \in ThreadsOf(q) : tstate[t] \notin {"UNUSED", "ZOMBIE"}
  /\ panic' = "wait: thread is still alive"
  /\ UNCHANGED <<procVars, threadVars, running, frame, lockVars>>

WaitNone(c) ==
  /\ InWait(c) /\ DeadKids(ProcOf(c)) = {}
  /\ Kids(ProcOf(c)) = {} \/ killed[ProcOf(c)]
  /\ ptl' = NoCPU
  /\ Return(c)
  /\ UNCHANGED <<procVars, threadVars, running, plock, panic>>

WaitSleep(c) ==
  /\ InWait(c) /\ DeadKids(ProcOf(c)) = {}
  /\ Kids(ProcOf(c)) # {} /\ ~killed[ProcOf(c)]
  /\ SleepOn(c, <<ProcOf(c)>>, "wait_again", <<>>)
  /\ UNCHANGED <<procVars, kstack, running, plock, panic>>

(* kill(): the victim is only marked, a sleeping thread sleeps on.         *)
Kill(c, q) ==
  /\ At(c, "kill") /\ ptl = NoCPU
  /\ killed' = [killed EXCEPT ![q] = TRUE]
  /\ Return(c)
  /\ UNCHANGED <<pstate, parent, executed, cwd, pgdir, threadVars, running, lockVars, panic>>

-----------------------------------------------------------------------------
(* kthread_create(), kthread_exit() and kthread_join().                    *)

(* allocthread, under p->lock.                                             *)
CreateAlloc(c, i) ==
  LET t == <<ProcOf(c), i>> IN
  /\ At(c, "kthread_create") /\ plock[ProcOf(c)] = NoCPU /\ FirstFree(ProcOf(c), i)
  /\ tstate' = [tstate EXCEPT ![t] = "EMBRYO"]
  /\ Go(c, "create_stack", t)
  /\ UNCHANGED <<procVars, chan, kstack, ctx, running, lockVars, panic>>

CreateNoThread(c) ==
  /\ At(c, "kthread_create") /\ plock[ProcOf(c)] = NoCPU /\ NoneFree(ProcOf(c))
  /\ Return(c)
  /\ UNCHANGED <<procVars, threadVars, running, lockVars, panic>>

CreateStack(c) ==
  LET t == frame[c].arg IN
  /\ At(c, "create_stack")
  /\ kstack' = [kstack EXCEPT ![t] = TRUE]
  /\ ctx' = [ctx EXCEPT ![t] = UserFrame]
  /\ Go(c, "create_start", t)
  /\ UNCHANGED <<procVars, tstate, chan, running, lockVars, panic>>

CreateNoStack(c) ==
  /\ At(c, "create_stack") /\ OutOfMemory
  /\ tstate' = [tstate EXCEPT ![frame[c].arg] = "UNUSED"]
  /\ Return(c)
  /\ UNCHANGED <<procVars, chan, kstack, ctx, running, lockVars, panic>>

CreateStart(c) ==
  /\ At(c, "create_start") /\ plock[ProcOf(c)] = NoCPU
  /\ tstate' = [tstate EXCEPT ![frame[c].arg] = "RUNNABLE"]
  /\ Return(c)
  /\ UNCHANGED <<procVars, chan, kstack, ctx, running, lockVars, panic>>

(* kthread_exit takes only ptable.lock, so a joiner, who holds only        *)
(* p->lock, can see the ZOMBIE before the thread has left its stack.       *)
KExitMark(c) ==
  /\ At(c, "kthread_exit") /\ ptl = NoCPU
  /\ tstate' = [tstate EXCEPT ![running[c]] = "ZOMBIE"]
  /\ ptl' = c
  /\ Go(c, "kexit_sched", <<>>)
  /\ UNCHANGED <<procVars, chan, kstack, ctx, running, plock, panic>>

Alive(p) == {t \in ThreadsOf(p) : tstate[t] \notin {"UNUSED", "ZOMBIE"}}

OthersReaped(t) == \A u \in ThreadsOf(tproc(t)) \ {t} : tstate[u] = "UNUSED"
OthersGone(t) == Alive(tproc(t)) = {}

(* Wake the joiners; the last thread goes on into exit().                  *)
KExitSched(c) ==
  LET t == running[c]
      last == OthersGone(t)
  IN /\ At(c, "kexit_sched")
     /\ tstate' = wakeup1(tstate, t)
     /\ ctx' = IF last THEN ctx ELSE [ctx EXCEPT ![t] = NoFrame]
     /\ Go(c, IF last THEN "exit" ELSE "swtch", <<>>)
     /\ ptl' = IF last THEN NoCPU ELSE c
     /\ UNCHANGED <<procVars, chan, kstack, running, plock, panic>>

(* kthread_join(t) holds p->lock: at the first look and after each sleep.  *)
InJoin(c, t) ==
  /\ At(c, "kthread_join") \/ (At(c, "join_again") /\ frame[c].arg = t)
  /\ tproc(t) = ProcOf(c) /\ plock[ProcOf(c)] = NoCPU

JoinReap(c, t) ==
  /\ InJoin(c, t) /\ tstate[t] = "ZOMBIE"
  /\ kstack' = [kstack EXCEPT ![t] = FALSE]
  /\ tstate' = [tstate EXCEPT ![t] = "UNUSED"]
  /\ Return(c)
  /\ UNCHANGED <<procVars, chan, ctx, running, lockVars, panic>>

(* Only the first look takes UNUSED for an answer.                         *)
JoinUnused(c, t) ==
  /\ InJoin(c, t) /\ At(c, "kthread_join") /\ tstate[t] = "UNUSED"
  /\ Return(c)
  /\ UNCHANGED <<procVars, threadVars, running, lockVars, panic>>

JoinBlock(c, t) ==
  /\ InJoin(c, t) /\ tstate[t] # "ZOMBIE"
  /\ At(c, "join_again") \/ tstate[t] # "UNUSED"
  /\ plock' = [plock EXCEPT ![ProcOf(c)] = c]
  /\ Go(c, "join_sleep", t)
  /\ UNCHANGED <<procVars, threadVars, running, ptl, panic>>

JoinSleep(c) ==
  /\ At(c, "join_sleep")
  /\ SleepReleasing(c, frame[c].arg, "join_again", frame[c].arg)

-----------------------------------------------------------------------------
(* exec(): wait_before_exec scans the threads one by one under p->lock;    *)
(* frame[c].arg is the one it looks at next.  Those who exit or yield take *)
(* only ptable.lock, so their states change during the scan.               *)
(* threadsAlive ("exec_alive") is never cleared again, so only the first   *)
(* scan can go on to load the image.                                       *)

Scanning(c) == At(c, "exec_scan") \/ At(c, "exec_alive")
Looked(c) == tstate[frame[c].arg]

(* On to the next thread; at the end of the scan, to sleep if one is alive.*)
ScanOn(c, alive) ==
  LET p == ProcOf(c)
      i == frame[c].arg[2]
  IN \/ /\ i < NTHREAD
        /\ Go(c, IF alive THEN "exec_alive" ELSE "exec_scan", <<p, i + 1>>)
        /\ UNCHANGED <<executed, plock>>
     \/ /\ i = NTHREAD /\ alive
        /\ Go(c, "exec_sleep", <<>>)
        /\ UNCHANGED <<executed, plock>>
     \/ /\ i = NTHREAD /\ ~alive
        /\ executed' = [executed EXCEPT ![p] = FALSE]
        /\ plock' = [plock EXCEPT ![p] = NoCPU]
        /\ Return(c)

ExecBegin(c) ==
  LET p == ProcOf(c) IN
  /\ At(c, "exec") \/ At(c, "exec_again")
  /\ plock[p] = NoCPU
  /\ plock' = [plock EXCEPT ![p] = c]
  /\ executed' = IF At(c, "exec") THEN [executed EXCEPT ![p] = TRUE] ELSE executed
  /\ Go(c, IF At(c, "exec") THEN "exec_scan" ELSE "exec_alive", <<p, 1>>)
  /\ UNCHANGED <<pstate, parent, killed, cwd, pgdir, threadVars, running, ptl, panic>>

ExecSkip(c) ==
  /\ Scanning(c) /\ (frame[c].arg = running[c] \/ Looked(c) = "UNUSED")
  /\ ScanOn(c, At(c, "exec_alive"))
  /\ UNCHANGED <<pstate, parent, killed, cwd, pgdir, threadVars, running, ptl, panic>>

ExecReap(c) ==
  /\ Scanning(c) /\ frame[c].arg # running[c] /\ Looked(c) = "ZOMBIE"
  /\ kstack' = [kstack EXCEPT ![frame[c].arg] = FALSE]
  /\ tstate' = [tstate EXCEPT ![frame[c].arg] = "UNUSED"]
  /\ ScanOn(c, At(c, "exec_alive"))
  /\ UNCHANGED <<pstate, parent, killed, cwd, pgdir, chan, ctx, running, ptl, panic>>

ExecAlive(c) ==
  /\ Scanning(c) /\ frame[c].arg # running[c]
  /\ Looked(c) \in {"EMBRYO", "RUNNABLE", "RUNNING"}
  /\ ScanOn(c, TRUE)
  /\ UNCHANGED <<pstate, parent, killed, cwd, pgdir, threadVars, running, ptl, panic>>

(* A sleeper is "rushed" by a store that nothing orders with its wakeup:   *)
(* by then it may run, or have left.                                       *)
ExecAsleep(c) ==
  /\ Scanning(c) /\ frame[c].arg # running[c] /\ Looked(c) = "SLEEPING"
  /\ Go(c, "exec_wake", frame[c].arg)
  /\ UNCHANGED <<procVars, threadVars, running, lockVars, panic>>

ExecWake(c) ==
  /\ At(c, "exec_wake")
  /\ tstate' = [tstate EXCEPT ![frame[c].arg] = "RUNNABLE"]
  /\ ScanOn(c, TRUE)
  /\ UNCHANGED <<pstate, parent, killed, cwd, pgdir, chan, kstack, ctx, running, ptl, panic>>

ExecSleep(c) ==
  /\ At(c, "exec_sleep")
  /\ SleepReleasing(c, <<ProcOf(c)>>, "exec_again", <<>>)

-----------------------------------------------------------------------------
Fork(c) == \/ \E np \in Proc : ForkAllocProc(c, np)
           \/ \E i \in 1 .. NTHREAD : ForkSetup(c, i)
           \/ ForkNoProc(c) \/ ForkNoStack(c) \/ ForkNoMemory(c) \/ ForkStart(c)
Exit(c) == ExitInit(c) \/ ExitFiles(c) \/ NullInode(c) \/ ExitCwd(c) \/ ExitTable(c)
Wait(c) == \/ \E q \in Proc : WaitReap(c, q) \/ WaitPanic(c, q)
           \/ WaitNone(c) \/ WaitSleep(c)
Create(c) == \/ \E i \in 1 .. NTHREAD : CreateAlloc(c, i)
             \/ CreateNoThread(c) \/ CreateStack(c) \/ CreateNoStack(c) \/ CreateStart(c)
KExit(c) == KExitMark(c) \/ KExitSched(c)
Join(c) == \/ \E t \in Thread : JoinReap(c, t) \/ JoinUnused(c, t) \/ JoinBlock(c, t)
           \/ JoinSleep(c)
Exec(c) == \/ ExecBegin(c) \/ ExecSkip(c) \/ ExecReap(c) \/ ExecAlive(c)
           \/ ExecAsleep(c) \/ ExecWake(c) \/ ExecSleep(c)

(* What a CPU does on its own, once it is in the kernel.                   *)
Kernel(c) ==
  \/ Fork(c) \/ Exit(c) \/ Wait(c) \/ (\E q \in Victims : Kill(c, q))
  \/ Create(c) \/ KExit(c) \/ Join(c) \/ Exec(c)
  \/ SysReturn(c) \/ TrapDying(c) \/ DeadRuns(c)
(* What the running program does.                                          *)
User(c) == UserFault(c) \/ \E call \in Call : SysEnter(c, call)

Step(c) == \/ Kernel(c) \/ User(c) \/ Tick(c) \/ Yield(c) \/ Swtch(c)
           \/ \E t \in Thread : Dispatch(c, t)

(* No CPU runs on a kernel stack or a page table that was freed by wait,   *)
(* kthread_join or wait_before_exec, and no two CPUs run one thread slot.  *)
StackInUse ==
  /\ \A c \in CPU : running[c] # NoThread => kstack[running[c]] /\ pgdir[ProcOf(c)]
  /\ \A c, d \in CPU : running[c] = running[d] /\ running[c] # NoThread => c = d

(* kfree fills the page with junk "to catch dangling refs", and two CPUs   *)
(* on one stack overwrite each other's frames: such a CPU does not get any *)
(* further, and what the machine does then is not modelled.                *)
Dangling ==
  /\ ~StackInUse
  /\ panic' = "junk"
  /\ UNCHANGED <<procVars, threadVars, running, frame, lockVars>>

Next == panic = "no" /\ (Dangling \/ (StackInUse /\ \E c \in CPU : Step(c)))
Spec == Init /\ [][Next]_vars

(* Fairness.  A thread that keeps being given a CPU gets on with its       *)
(* kernel code.  The clock ticks, and a tick stays pending while           *)
(* interrupts are off.  A RUNNABLE thread stays so until it runs, and the  *)
(* scheduler's scan passes it in every round.  /init never stops calling   *)
(* wait().  Programs owe nothing else.                                     *)
Up == panic = "no" /\ StackInUse
KernelOf(t) == Up /\ \E c \in CPU : running[c] = t /\ Kernel(c)
DispatchOf(t) == Up /\ \E c \in CPU : Dispatch(c, t)
InitWaits == Up /\ \E c \in CPU : At(c, "user") /\ ProcOf(c) = initproc /\ SysEnter(c, "wait")
Fairness ==
  /\ \A c \in CPU : WF_vars(Up /\ Swtch(c))
                  /\ WF_vars(Up /\ Yield(c)) /\ SF_vars(Up /\ Tick(c))
  /\ \A t \in Thread : SF_vars(KernelOf(t)) /\ SF_vars(DispatchOf(t))
  /\ SF_vars(InitWaits)
FairSpec == Spec /\ Fairness

-----------------------------------------------------------------------------
(* Safety.                                                                 *)

(* wait() never sleeps through the exit of a child (proc.c, "Wait for      *)
(* children to exit"): while a thread sleeps in wait, no child of its      *)
(* process is a ZOMBIE, whether it exited or was passed on by exit().      *)
NoMissedExit ==
  \A t \in Thread : tstate[t] = "SLEEPING" /\ ctx[t].pc = "wait_again"
    => DeadKids(tproc(t)) = {}

(* sched() is entered with ptable.lock held and no other spinlock (its     *)
(* panics "sched ptable.lock" and "sched locks"), and it is the only one   *)
(* there: sleep() and kthread_exit() hand every other lock back in time.   *)
SchedLocks ==
  \A c \in CPU : frame[c].pc \in {"swtch", "kexit_sched", "wait_again"}
    => ptl = c /\ \A p \in Proc : plock[p] # c

(* A ZOMBIE process has no thread that could still be scheduled: the panic *)
(* "wait: thread is still alive while process is dead" cannot be reached.  *)
DeadMeansDead ==
  \A p \in Proc : pstate[p] = "ZOMBIE" => Alive(p) = {}

(* A ZOMBIE can be reaped: its parent is a live process (exit passes the   *)
(* children of a dying process to init).                                   *)
ZombieHasParent ==
  \A p \in Proc : pstate[p] = "ZOMBIE"
    => parent[p] \in Proc /\ pstate[parent[p]] = "RUNNABLE"

(* A process whose threads have all left through kthread_exit is ended by  *)
(* the last of them: no process stays RUNNABLE with nobody to run it.      *)
LastThreadExits ==
  \A p \in Proc : pstate[p] = "RUNNABLE"
    => Alive(p) # {} \/ \E c \in CPU : running[c] \in ThreadsOf(p)

(* No thread sleeps in kthread_join for a thread that is a ZOMBIE or has   *)
(* been reaped already, nor in wait_before_exec when it is the last one:   *)
(* what it waits for has happened, and no wakeup will come.                *)
Leaving(t) == \E c \in CPU : running[c] = t /\ At(c, "kexit_sched")
NoMissedDeath ==
  \A t \in Thread : tstate[t] = "SLEEPING" =>
    /\ ctx[t].pc = "join_again"
         => tstate[ctx[t].arg] \notin {"ZOMBIE", "UNUSED"} \/ Leaving(ctx[t].arg)
    /\ ctx[t].pc = "exec_again"
         => \E u \in ThreadsOf(tproc(t)) \ {t} : u \in Alive(tproc(t)) \/ Leaving(u)

(* Liveness.                                                               *)

(* A child of init that has exited is reaped, orphans passed on by exit()  *)
(* included, unless new processes keep taking slots below it: wait()       *)
(* always reaps the first ZOMBIE in table order.                           *)
InitReaps ==
  \A p \in Proc : (pstate[p] = "ZOMBIE" /\ parent[p] = initproc)
                     ~> (pstate[p] = "UNUSED" \/ \E q \in Proc : q < p /\ pstate[q] = "EMBRYO")

(* A killed process with a thread that is not asleep exits: the thread is  *)
(* back at a check of killed in trap(), or leaves wait() without sleeping. *)
Gone(p) == pstate[p] \in {"ZOMBIE", "UNUSED"}
KilledAwakeExits ==
  \A p \in Victims : (killed[p] /\ \E t \in ThreadsOf(p) : tstate[t] \in {"RUNNABLE", "RUNNING"})
                     ~> Gone(p)
=============================================================================

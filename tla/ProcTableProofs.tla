-------------------------- MODULE ProcTableProofs --------------------------
(***************************************************************************)
(* What holds of the process table for every size of it, every number of   *)
(* CPUs and whatever system calls the programs make.                       *)
(* First the types and the lock discipline of sched(), then the last       *)
(* thread of a process, then processes that start no threads.              *)
(***************************************************************************)
EXTENDS ProcTable, TLAPS

(* The inductive invariant.  What a continuation carries fits its place;   *)
(* a CPU that is not idle runs a thread; ptable.lock is held across steps  *)
(* only on the way through sched() and out of wait's sleep, p->lock only   *)
(* in the scan of wait_before_exec and on the way into its sleep and that  *)
(* of kthread_join, by a thread of p.                                      *)
Scan == {"exec_scan", "exec_alive", "exec_wake"}
Away == Scan \cup {"fork_start", "create_stack", "create_start", "join_sleep", "join_again"}
ArgOK(l, a) == /\ l = "fork_setup" => a \in {<<p>> : p \in Proc}
               /\ l \in Away => a \in Thread
Sched == {"swtch", "kexit_sched", "wait_again"}
Holds == Scan \cup {"join_sleep", "exec_sleep"}
FramesOK ==
  \A c \in CPU : /\ ArgOK(frame[c].pc, frame[c].arg)
                 /\ frame[c].pc # "idle" => running[c] \in Thread
CtxOK ==
  \A t \in Thread : /\ ArgOK(ctx[t].pc, ctx[t].arg)
                    /\ ctx[t].pc \notin Holds \cup {"idle", "swtch", "yield", "kexit_sched"}
Locks ==
  /\ \A c \in CPU : frame[c].pc \in Sched <=> ptl = c
  /\ \A p \in Proc, c \in CPU :
       plock[p] = c => frame[c].pc \in Holds /\ ProcOf(c) = p
Inv == TypeOK /\ FramesOK /\ CtxOK /\ Locks

(* A thread, the process it belongs to, and the channels.                  *)
LEMMA ThreadFacts ==
  /\ \A t \in Thread : tproc(t) \in Proc
  /\ \A p \in Proc, i \in 1 .. NTHREAD : <<p, i>> \in Thread /\ tproc(<<p, i>>) = p
  /\ Thread \subseteq Chan /\ <<>> \in Chan /\ \A p \in Proc : <<p>> \in Chan
  /\ NoThread \notin Thread
  /\ initproc \in Proc
  BY SizesAssumption DEF Thread, tproc, Chan, NoThread, initproc, Proc

(* Where CPU c may go on to, with which argument; and what becomes of the  *)
(* locks: c takes ptable.lock exactly where l wants it, and a process's    *)
(* lock only to go to sleep.                                               *)
MayGo(l, a) == l \in PC \ {"idle"} /\ a \in Chan /\ ArgOK(l, a)
LockRule(c, l) ==
  /\ ptl' = ptl \/ (ptl \in {c, NoCPU} /\ ptl' \in {c, NoCPU})
  /\ l \in Sched <=> ptl' = c
  /\ \A p \in Proc : \/ plock'[p] = NoCPU
                     \/ plock'[p] = plock[p] /\ plock[p] # c
                     \/ plock'[p] = c /\ p = ProcOf(c) /\ l \in Holds

(* The arguments each place is entered with throughout proc.c and          *)
(* kthread.c are the ones it expects.                                      *)
LEMMA MayGoFacts ==
  /\ \A l \in Call \cup {"user", "ret", "swtch", "yield", "exit_cwd", "exit_table", "dead",
                      "kexit_sched", "wait_again", "exec_sleep", "exec_again"} : MayGo(l, <<>>)
  /\ \A l \in Away, t \in Thread : MayGo(l, t)
  /\ \A p \in Proc : MayGo("fork_setup", <<p>>)
  BY ThreadFacts DEF MayGo, ArgOK, Away, Scan, PC, Call

(* A CPU that goes on to l, taking and releasing locks by the rule, keeps  *)
(* the frames and the locks consistent.                                    *)
LEMMA Moved ==
  ASSUME Inv, NEW c \in CPU, NEW l, NEW a, MayGo(l, a), Go(c, l, a), LockRule(c, l),
         running' = running, frame[c].pc # "idle"
  PROVE  frame' \in [CPU -> Frame] /\ FramesOK' /\ Locks'
<1>1. /\ frame' \in [CPU -> Frame]
      /\ frame'[c].pc = l /\ frame'[c].arg = a
      /\ \A d \in CPU \ {c} : frame'[d] = frame[d]
  BY ZenonT(60) DEF Go, Frame, Inv, TypeOK, MayGo
<1>2. FramesOK'
  BY <1>1 DEF FramesOK, Inv, MayGo
<1>3. ASSUME NEW d \in CPU PROVE frame'[d].pc \in Sched <=> ptl' = d
  BY <1>1, <1>3, CPUAssumption DEF Locks, Inv, LockRule
<1>4. ASSUME NEW d \in CPU, NEW p \in Proc, plock'[p] = d
      PROVE  frame'[d].pc \in Holds /\ ProcOf(d)' = p
  BY <1>1, <1>4, CPUAssumption DEF Locks, Inv, LockRule, ProcOf
<1> QED
  BY <1>1, <1>2, <1>3, <1>4 DEF Locks

(* A thread is switched out: it will be resumed at l.                      *)
LEMMA Saved ==
  ASSUME Inv, NEW t \in Thread, NEW l, NEW a, MayGo(l, a),
         l \notin Holds \cup {"swtch", "yield", "kexit_sched"},
         ctx' = [ctx EXCEPT ![t] = [pc |-> l, arg |-> a]]
  PROVE  ctx' \in [Thread -> Frame] /\ CtxOK'
<1>1. /\ ctx' \in [Thread -> Frame]
      /\ ctx'[t].pc = l /\ ctx'[t].arg = a
      /\ \A u \in Thread \ {t} : ctx'[u] = ctx[u]
  BY ZenonT(60) DEF Frame, Inv, TypeOK, MayGo
<1> QED
  BY <1>1 DEF CtxOK, Inv, MayGo

(* What the invariant says of the locks CPU c holds.                       *)
LEMMA LockFacts ==
  ASSUME Inv, NEW c \in CPU
  PROVE  /\ frame[c].pc \in Sched <=> ptl = c
         /\ \A p \in Proc : plock[p] = c => frame[c].pc \in Holds /\ p = ProcOf(c)
  BY DEF Inv, Locks

(* What a CPU in fork, kthread_create or kthread_join has in hand.         *)
LEMMA Args ==
  ASSUME Inv, NEW c \in CPU
  PROVE  /\ frame[c].pc = "fork_setup" => frame[c].arg[1] \in Proc
         /\ frame[c].pc \in Away => frame[c].arg \in Thread
  BY DEF Inv, FramesOK, ArgOK

(* A CPU outside the scheduler runs a thread of some process.              *)
LEMMA Runs ==
  ASSUME Inv, NEW c \in CPU, frame[c].pc # "idle"
  PROVE  running[c] \in Thread /\ ProcOf(c) \in Proc
  BY ThreadFacts DEF Inv, FramesOK, ProcOf

(* Every step of fork() preserves the invariant, its failures included.    *)
LEMMA ForkStep == ASSUME Inv, NEW c \in CPU, Fork(c) PROVE Inv'
<1>1. ASSUME NEW np \in Proc, ForkAllocProc(c, np) PROVE Inv'
  <2>1. running[c] \in Thread /\ ProcOf(c) \in Proc /\ frame[c].pc # "idle"
    BY <1>1, Runs DEF ForkAllocProc, At
  <2>2. /\ Go(c, "fork_setup", <<np>>) /\ MayGo("fork_setup", <<np>>) /\ LockRule(c, "fork_setup")
        /\ running' = running
    BY <1>1, <2>1, MayGoFacts, ThreadFacts, Args, LockFacts, CPUAssumption, ZenonT(60)
       DEF ForkAllocProc, At, Return, Call, Away, Scan, LockRule, lockVars, Sched, Holds, Inv, TypeOK
  <2>3. frame' \in [CPU -> Frame] /\ FramesOK' /\ Locks'
    BY <2>1, <2>2, Moved
  <2>5. ctx' \in [Thread -> Frame] /\ CtxOK'
    BY <1>1, ZenonT(60) DEF ForkAllocProc, Inv, TypeOK, CtxOK, threadVars
  <2>6. TypeOK'
    BY <1>1, <2>1, <2>3, <2>5, ThreadFacts, Args, ProgramAssumption, ZenonT(60)
       DEF ForkAllocProc, At, Away, Scan, Inv, TypeOK, procVars, threadVars, lockVars, ProcState, ThreadState, NoProc
  <2> QED
    BY <2>3, <2>5, <2>6 DEF Inv
<1>2. CASE ForkNoProc(c)
  <2>1. running[c] \in Thread /\ ProcOf(c) \in Proc /\ frame[c].pc # "idle"
    BY <1>2, Runs DEF ForkNoProc, At
  <2>2. Go(c, "ret", <<>>) /\ MayGo("ret", <<>>) /\ LockRule(c, "ret") /\ running' = running
    BY <1>2, <2>1, MayGoFacts, ThreadFacts, Args, LockFacts, CPUAssumption, ZenonT(60)
       DEF ForkNoProc, At, Return, Call, Away, Scan, LockRule, lockVars, Sched, Holds, Inv, TypeOK
  <2>3. frame' \in [CPU -> Frame] /\ FramesOK' /\ Locks'
    BY <2>1, <2>2, Moved
  <2>5. ctx' \in [Thread -> Frame] /\ CtxOK'
    BY <1>2, ZenonT(60) DEF ForkNoProc, Inv, TypeOK, CtxOK, threadVars
  <2>6. TypeOK'
    BY <1>2, <2>1, <2>3, <2>5, ThreadFacts, Args, ProgramAssumption, ZenonT(60)
       DEF ForkNoProc, At, Away, Scan, Inv, TypeOK, procVars, threadVars, lockVars, ProcState, ThreadState, NoProc
  <2> QED
    BY <2>3, <2>5, <2>6 DEF Inv
<1>3. ASSUME NEW i \in 1 .. NTHREAD, ForkSetup(c, i) PROVE Inv'
  <2>1. running[c] \in Thread /\ ProcOf(c) \in Proc /\ frame[c].pc # "idle"
    BY <1>3, Runs DEF ForkSetup, At
  <2>2. /\ Go(c, "fork_start", <<frame[c].arg[1], i>>)
        /\ MayGo("fork_start", <<frame[c].arg[1], i>>) /\ LockRule(c, "fork_start")
        /\ running' = running
    BY <1>3, <2>1, MayGoFacts, ThreadFacts, Args, LockFacts, CPUAssumption, ZenonT(60)
       DEF ForkSetup, At, Return, Call, Away, Scan, LockRule, lockVars, Sched, Holds, Inv, TypeOK
  <2>3. frame' \in [CPU -> Frame] /\ FramesOK' /\ Locks'
    BY <2>1, <2>2, Moved
  <2>4. /\ MayGo("user", <<>>) /\ <<frame[c].arg[1], i>> \in Thread
        /\ ctx' = [ctx EXCEPT ![<<frame[c].arg[1], i>>] = [pc |-> "user", arg |-> <<>>]]
    BY <1>3, <2>1, MayGoFacts, ThreadFacts, Args DEF ForkSetup, At, UserFrame, Away, Scan
  <2>5. ctx' \in [Thread -> Frame] /\ CtxOK'
    BY <2>4, Saved, ZenonT(60) DEF Holds, Scan
  <2>6. TypeOK'
    BY <1>3, <2>1, <2>3, <2>5, ThreadFacts, Args, ProgramAssumption, ZenonT(60)
       DEF ForkSetup, At, Away, Scan, Inv, TypeOK, procVars, threadVars, lockVars, ProcState, ThreadState, NoProc
  <2> QED
    BY <2>3, <2>5, <2>6 DEF Inv
<1>4. CASE ForkNoStack(c)
  <2>1. running[c] \in Thread /\ ProcOf(c) \in Proc /\ frame[c].pc # "idle"
    BY <1>4, Runs DEF ForkNoStack, At
  <2>2. Go(c, "ret", <<>>) /\ MayGo("ret", <<>>) /\ LockRule(c, "ret") /\ running' = running
    BY <1>4, <2>1, MayGoFacts, ThreadFacts, Args, LockFacts, CPUAssumption, ZenonT(60)
       DEF ForkNoStack, At, Return, Call, Away, Scan, LockRule, lockVars, Sched, Holds, Inv, TypeOK
  <2>3. frame' \in [CPU -> Frame] /\ FramesOK' /\ Locks'
    BY <2>1, <2>2, Moved
  <2>5. ctx' \in [Thread -> Frame] /\ CtxOK'
    BY <1>4, ZenonT(60) DEF ForkNoStack, Inv, TypeOK, CtxOK, threadVars
  <2>6. TypeOK'
    BY <1>4, <2>1, <2>3, <2>5, ThreadFacts, Args, ProgramAssumption, ZenonT(60)
       DEF ForkNoStack, At, Away, Scan, Inv, TypeOK, procVars, threadVars, lockVars, ProcState, ThreadState, NoProc
  <2> QED
    BY <2>3, <2>5, <2>6 DEF Inv
<1>5. CASE ForkNoMemory(c)
  <2>1. running[c] \in Thread /\ ProcOf(c) \in Proc /\ frame[c].pc # "idle"
    BY <1>5, Runs DEF ForkNoMemory, At
  <2>2. Go(c, "ret", <<>>) /\ MayGo("ret", <<>>) /\ LockRule(c, "ret") /\ running' = running
    BY <1>5, <2>1, MayGoFacts, ThreadFacts, Args, LockFacts, CPUAssumption, ZenonT(60)
       DEF ForkNoMemory, At, Return, Call, Away, Scan, LockRule, lockVars, Sched, Holds, Inv, TypeOK
  <2>3. frame' \in [CPU -> Frame] /\ FramesOK' /\ Locks'
    BY <2>1, <2>2, Moved
  <2>5. ctx' \in [Thread -> Frame] /\ CtxOK'
    BY <1>5, ZenonT(60) DEF ForkNoMemory, Inv, TypeOK, CtxOK, threadVars
  <2>6. TypeOK'
    BY <1>5, <2>1, <2>3, <2>5, ThreadFacts, Args, ProgramAssumption, ZenonT(60)
       DEF ForkNoMemory, At, Away, Scan, Inv, TypeOK, procVars, threadVars, lockVars, ProcState, ThreadState, NoProc
  <2> QED
    BY <2>3, <2>5, <2>6 DEF Inv
<1>6. CASE ForkStart(c)
  <2>1. running[c] \in Thread /\ ProcOf(c) \in Proc /\ frame[c].pc # "idle"
    BY <1>6, Runs DEF ForkStart, At
  <2>2. Go(c, "ret", <<>>) /\ MayGo("ret", <<>>) /\ LockRule(c, "ret") /\ running' = running
    BY <1>6, <2>1, MayGoFacts, ThreadFacts, Args, LockFacts, CPUAssumption, ZenonT(60)
       DEF ForkStart, At, Return, Call, Away, Scan, LockRule, lockVars, Sched, Holds, Inv, TypeOK
  <2>3. frame' \in [CPU -> Frame] /\ FramesOK' /\ Locks'
    BY <2>1, <2>2, Moved
  <2>5. ctx' \in [Thread -> Frame] /\ CtxOK'
    BY <1>6, ZenonT(60) DEF ForkStart, Inv, TypeOK, CtxOK, threadVars
  <2>6. TypeOK'
    BY <1>6, <2>1, <2>3, <2>5, ThreadFacts, Args, ProgramAssumption, ZenonT(60)
       DEF ForkStart, At, Away, Scan, Inv, TypeOK, procVars, threadVars, lockVars, ProcState, ThreadState, NoProc
  <2> QED
    BY <2>3, <2>5, <2>6 DEF Inv
<1> QED
  BY <1>1, <1>2, <1>3, <1>4, <1>5, <1>6 DEF Fork

(* Every step of exit() preserves the invariant.                           *)
LEMMA ExitStep == ASSUME Inv, NEW c \in CPU, Exit(c) PROVE Inv'
<1>1. CASE ExitInit(c)
  BY <1>1, ZenonT(60)
     DEF ExitInit, Inv, TypeOK, FramesOK, CtxOK, Locks, procVars, threadVars, lockVars, ProcOf
<1>2. CASE ExitFiles(c)
  <2>1. running[c] \in Thread /\ ProcOf(c) \in Proc /\ frame[c].pc # "idle"
    BY <1>2, Runs DEF ExitFiles, At
  <2>2. /\ Go(c, "exit_cwd", <<>>) /\ MayGo("exit_cwd", <<>>) /\ LockRule(c, "exit_cwd")
        /\ running' = running
    BY <1>2, <2>1, MayGoFacts, ThreadFacts, Args, LockFacts, CPUAssumption, ZenonT(60)
       DEF ExitFiles, At, Return, Call, Away, Scan, LockRule, lockVars, Sched, Holds, Inv, TypeOK
  <2>3. frame' \in [CPU -> Frame] /\ FramesOK' /\ Locks'
    BY <2>1, <2>2, Moved
  <2>5. ctx' \in [Thread -> Frame] /\ CtxOK'
    BY <1>2, ZenonT(60) DEF ExitFiles, Inv, TypeOK, CtxOK, threadVars
  <2>6. TypeOK'
    BY <1>2, <2>1, <2>3, <2>5, ThreadFacts, Args, ProgramAssumption, ZenonT(60)
       DEF ExitFiles, At, Away, Scan, Inv, TypeOK, procVars, threadVars, lockVars, ProcState, ThreadState, NoProc
  <2> QED
    BY <2>3, <2>5, <2>6 DEF Inv
<1>3. CASE NullInode(c)
  BY <1>3, ZenonT(60)
     DEF NullInode, Inv, TypeOK, FramesOK, CtxOK, Locks, procVars, threadVars, lockVars, ProcOf
<1>4. CASE ExitTable(c)
  <2>1. running[c] \in Thread /\ ProcOf(c) \in Proc /\ frame[c].pc # "idle"
    BY <1>4, Runs DEF ExitTable, Doomed, At, wakeup1, Kids
  <2>2. Go(c, "swtch", <<>>) /\ MayGo("swtch", <<>>) /\ LockRule(c, "swtch") /\ running' = running
    BY <1>4, <2>1, MayGoFacts, ThreadFacts, Args, LockFacts, CPUAssumption, ZenonT(60)
       DEF ExitTable, Doomed, wakeup1, Kids, At, Return, Call, Away, Scan, LockRule, lockVars, Sched, Holds, Inv, TypeOK
  <2>3. frame' \in [CPU -> Frame] /\ FramesOK' /\ Locks'
    BY <2>1, <2>2, Moved
  <2>4. /\ MayGo("dead", <<>>) /\ running[c] \in Thread
        /\ ctx' = [ctx EXCEPT ![running[c]] = [pc |-> "dead", arg |-> <<>>]]
    BY <1>4, <2>1, MayGoFacts, ThreadFacts, Args, ZenonT(60)
       DEF ExitTable, Doomed, wakeup1, Kids, At, NoFrame, Away, Scan
  <2>5. ctx' \in [Thread -> Frame] /\ CtxOK'
    BY <2>4, Saved, ZenonT(60) DEF Holds, Scan
  <2>6. TypeOK'
    BY <1>4, <2>1, <2>3, <2>5, ThreadFacts, Args, ProgramAssumption, ZenonT(60)
       DEF ExitTable, Doomed, wakeup1, Kids, At, Away, Scan, Inv, TypeOK, procVars, threadVars, lockVars, ProcState, ThreadState, NoProc
  <2> QED
    BY <2>3, <2>5, <2>6 DEF Inv
<1>5. CASE ExitCwd(c)
  <2>1. running[c] \in Thread /\ ProcOf(c) \in Proc /\ frame[c].pc # "idle"
    BY <1>5, Runs DEF ExitCwd, At
  <2>2. /\ Go(c, "exit_table", <<>>) /\ MayGo("exit_table", <<>>) /\ LockRule(c, "exit_table")
        /\ running' = running
    BY <1>5, <2>1, MayGoFacts, ThreadFacts, Args, LockFacts, CPUAssumption, ZenonT(60)
       DEF ExitCwd, At, Return, Call, Away, Scan, LockRule, lockVars, Sched, Holds, Inv, TypeOK
  <2>3. frame' \in [CPU -> Frame] /\ FramesOK' /\ Locks'
    BY <2>1, <2>2, Moved
  <2>5. ctx' \in [Thread -> Frame] /\ CtxOK'
    BY <1>5, ZenonT(60) DEF ExitCwd, Inv, TypeOK, CtxOK, threadVars
  <2>6. TypeOK'
    BY <1>5, <2>1, <2>3, <2>5, ThreadFacts, Args, ProgramAssumption, ZenonT(60)
       DEF ExitCwd, At, Away, Scan, Inv, TypeOK, procVars, threadVars, lockVars, ProcState, ThreadState, NoProc
  <2> QED
    BY <2>3, <2>5, <2>6 DEF Inv
<1> QED
  BY <1>1, <1>2, <1>3, <1>4, <1>5 DEF Exit

(* Every step of wait() preserves the invariant; its sleep keeps           *)
(* ptable.lock.                                                            *)
LEMMA WaitStep == ASSUME Inv, NEW c \in CPU, Wait(c) PROVE Inv'
<1>1. ASSUME NEW q \in Proc, WaitReap(c, q) PROVE Inv'
  <2>1. running[c] \in Thread /\ ProcOf(c) \in Proc /\ frame[c].pc # "idle"
    BY <1>1, Runs DEF WaitReap, At, InWait
  <2>2. Go(c, "ret", <<>>) /\ MayGo("ret", <<>>) /\ LockRule(c, "ret") /\ running' = running
    BY <1>1, <2>1, MayGoFacts, ThreadFacts, Args, LockFacts, CPUAssumption, ZenonT(60)
       DEF WaitReap, InWait, At, Return, Call, Away, Scan, LockRule, lockVars, Sched, Holds, Inv, TypeOK
  <2>3. frame' \in [CPU -> Frame] /\ FramesOK' /\ Locks'
    BY <2>1, <2>2, Moved
  <2>5. ctx' \in [Thread -> Frame] /\ CtxOK'
    BY <1>1, ZenonT(60) DEF WaitReap, InWait, Inv, TypeOK, CtxOK, threadVars
  <2>6. TypeOK'
    BY <1>1, <2>1, <2>3, <2>5, ThreadFacts, Args, ProgramAssumption, ZenonT(60)
       DEF WaitReap, InWait, At, Away, Scan, Inv, TypeOK, procVars, threadVars, lockVars, ProcState, ThreadState, NoProc
  <2> QED
    BY <2>3, <2>5, <2>6 DEF Inv
<1>2. ASSUME NEW q \in Proc, WaitPanic(c, q) PROVE Inv'
  BY <1>2, ZenonT(60)
     DEF WaitPanic, Inv, TypeOK, FramesOK, CtxOK, Locks, procVars, threadVars, lockVars, ProcOf
<1>3. CASE WaitNone(c)
  <2>1. running[c] \in Thread /\ ProcOf(c) \in Proc /\ frame[c].pc # "idle"
    BY <1>3, Runs DEF WaitNone, At, InWait
  <2>2. Go(c, "ret", <<>>) /\ MayGo("ret", <<>>) /\ LockRule(c, "ret") /\ running' = running
    BY <1>3, <2>1, MayGoFacts, ThreadFacts, Args, LockFacts, CPUAssumption, ZenonT(60)
       DEF WaitNone, InWait, At, Return, Call, Away, Scan, LockRule, lockVars, Sched, Holds, Inv, TypeOK
  <2>3. frame' \in [CPU -> Frame] /\ FramesOK' /\ Locks'
    BY <2>1, <2>2, Moved
  <2>5. ctx' \in [Thread -> Frame] /\ CtxOK'
    BY <1>3, ZenonT(60) DEF WaitNone, InWait, Inv, TypeOK, CtxOK, threadVars
  <2>6. TypeOK'
    BY <1>3, <2>1, <2>3, <2>5, ThreadFacts, Args, ProgramAssumption, ZenonT(60)
       DEF WaitNone, InWait, At, Away, Scan, Inv, TypeOK, procVars, threadVars, lockVars, ProcState, ThreadState, NoProc
  <2> QED
    BY <2>3, <2>5, <2>6 DEF Inv
<1>4. CASE WaitSleep(c)
  <2>1. running[c] \in Thread /\ ProcOf(c) \in Proc /\ frame[c].pc # "idle"
    BY <1>4, Runs, ZenonT(60) DEF WaitSleep, At, InWait, SleepOn
  <2>2. Go(c, "swtch", <<>>) /\ MayGo("swtch", <<>>) /\ LockRule(c, "swtch") /\ running' = running
    BY <1>4, <2>1, MayGoFacts, ThreadFacts, Args, LockFacts, CPUAssumption, ZenonT(60)
       DEF WaitSleep, InWait, SleepOn, At, Return, Call, Away, Scan, LockRule, lockVars, Sched, Holds, Inv, TypeOK
  <2>3. frame' \in [CPU -> Frame] /\ FramesOK' /\ Locks'
    BY <2>1, <2>2, Moved
  <2>4. /\ MayGo("wait_again", <<>>) /\ running[c] \in Thread
        /\ ctx' = [ctx EXCEPT ![running[c]] = [pc |-> "wait_again", arg |-> <<>>]]
    BY <1>4, <2>1, MayGoFacts, ThreadFacts, Args
       DEF WaitSleep, InWait, SleepOn, At, UserFrame, Away, Scan
  <2>5. ctx' \in [Thread -> Frame] /\ CtxOK'
    BY <2>4, Saved, ZenonT(60) DEF Holds, Scan
  <2>6. TypeOK'
    BY <1>4, <2>1, <2>3, <2>5, ThreadFacts, Args, ProgramAssumption, ZenonT(60)
       DEF WaitSleep, InWait, SleepOn, At, Away, Scan, Inv, TypeOK, procVars, threadVars, lockVars, ProcState, ThreadState, NoProc
  <2> QED
    BY <2>3, <2>5, <2>6 DEF Inv
<1> QED
  BY <1>1, <1>2, <1>3, <1>4 DEF Wait

(* Every step of kthread_create() preserves the invariant.                 *)
LEMMA CreateStep == ASSUME Inv, NEW c \in CPU, Create(c) PROVE Inv'
<1>1. ASSUME NEW i \in 1 .. NTHREAD, CreateAlloc(c, i) PROVE Inv'
  <2>1. running[c] \in Thread /\ ProcOf(c) \in Proc /\ frame[c].pc # "idle"
    BY <1>1, Runs DEF CreateAlloc, At
  <2>2. /\ Go(c, "create_stack", <<ProcOf(c), i>>) /\ MayGo("create_stack", <<ProcOf(c), i>>)
        /\ LockRule(c, "create_stack") /\ running' = running
    BY <1>1, <2>1, MayGoFacts, ThreadFacts, Args, LockFacts, CPUAssumption, ZenonT(60)
       DEF CreateAlloc, At, Return, Call, Away, Scan, LockRule, lockVars, Sched, Holds, Inv, TypeOK
  <2>3. frame' \in [CPU -> Frame] /\ FramesOK' /\ Locks'
    BY <2>1, <2>2, Moved
  <2>5. ctx' \in [Thread -> Frame] /\ CtxOK'
    BY <1>1, ZenonT(60) DEF CreateAlloc, Inv, TypeOK, CtxOK, threadVars
  <2>6. TypeOK'
    BY <1>1, <2>1, <2>3, <2>5, ThreadFacts, Args, ProgramAssumption, ZenonT(60)
       DEF CreateAlloc, At, Away, Scan, Inv, TypeOK, procVars, threadVars, lockVars, ProcState, ThreadState, NoProc
  <2> QED
    BY <2>3, <2>5, <2>6 DEF Inv
<1>2. CASE CreateNoThread(c)
  <2>1. running[c] \in Thread /\ ProcOf(c) \in Proc /\ frame[c].pc # "idle"
    BY <1>2, Runs DEF CreateNoThread, At
  <2>2. Go(c, "ret", <<>>) /\ MayGo("ret", <<>>) /\ LockRule(c, "ret") /\ running' = running
    BY <1>2, <2>1, MayGoFacts, ThreadFacts, Args, LockFacts, CPUAssumption, ZenonT(60)
       DEF CreateNoThread, At, Return, Call, Away, Scan, LockRule, lockVars, Sched, Holds, Inv, TypeOK
  <2>3. frame' \in [CPU -> Frame] /\ FramesOK' /\ Locks'
    BY <2>1, <2>2, Moved
  <2>5. ctx' \in [Thread -> Frame] /\ CtxOK'
    BY <1>2, ZenonT(60) DEF CreateNoThread, Inv, TypeOK, CtxOK, threadVars
  <2>6. TypeOK'
    BY <1>2, <2>1, <2>3, <2>5, ThreadFacts, Args, ProgramAssumption, ZenonT(60)
       DEF CreateNoThread, At, Away, Scan, Inv, TypeOK, procVars, threadVars, lockVars, ProcState, ThreadState, NoProc
  <2> QED
    BY <2>3, <2>5, <2>6 DEF Inv
<1>3. CASE CreateStack(c)
  <2>1. running[c] \in Thread /\ ProcOf(c) \in Proc /\ frame[c].pc # "idle"
    BY <1>3, Runs DEF CreateStack, At
  <2>2. /\ Go(c, "create_start", frame[c].arg) /\ MayGo("create_start", frame[c].arg)
        /\ LockRule(c, "create_start") /\ running' = running
    BY <1>3, <2>1, MayGoFacts, ThreadFacts, Args, LockFacts, CPUAssumption, ZenonT(60)
       DEF CreateStack, At, Return, Call, Away, Scan, LockRule, lockVars, Sched, Holds, Inv, TypeOK
  <2>3. frame' \in [CPU -> Frame] /\ FramesOK' /\ Locks'
    BY <2>1, <2>2, Moved, ZenonT(60)
  <2>4. /\ MayGo("user", <<>>) /\ frame[c].arg \in Thread
        /\ ctx' = [ctx EXCEPT ![frame[c].arg] = [pc |-> "user", arg |-> <<>>]]
    BY <1>3, <2>1, MayGoFacts, ThreadFacts, Args DEF CreateStack, At, UserFrame, Away, Scan
  <2>5. ctx' \in [Thread -> Frame] /\ CtxOK'
    BY <2>4, Saved, ZenonT(60) DEF Holds, Scan
  <2>6. TypeOK'
    BY <1>3, <2>1, <2>3, <2>5, ThreadFacts, Args, ProgramAssumption, ZenonT(60)
       DEF CreateStack, At, Away, Scan, Inv, TypeOK, procVars, threadVars, lockVars, ProcState, ThreadState, NoProc
  <2> QED
    BY <2>3, <2>5, <2>6 DEF Inv
<1>4. CASE CreateNoStack(c)
  <2>1. running[c] \in Thread /\ ProcOf(c) \in Proc /\ frame[c].pc # "idle"
    BY <1>4, Runs, ZenonT(60) DEF CreateNoStack, At
  <2>2. Go(c, "ret", <<>>) /\ MayGo("ret", <<>>) /\ LockRule(c, "ret") /\ running' = running
    BY <1>4, <2>1, MayGoFacts, ThreadFacts, Args, LockFacts, CPUAssumption, ZenonT(60)
       DEF CreateNoStack, At, Return, Call, Away, Scan, LockRule, lockVars, Sched, Holds, Inv, TypeOK
  <2>3. frame' \in [CPU -> Frame] /\ FramesOK' /\ Locks'
    BY <2>1, <2>2, Moved
  <2>5. ctx' \in [Thread -> Frame] /\ CtxOK'
    BY <1>4, ZenonT(60) DEF CreateNoStack, Inv, TypeOK, CtxOK, threadVars
  <2>6. TypeOK'
    BY <1>4, <2>1, <2>3, <2>5, ThreadFacts, Args, ProgramAssumption, ZenonT(60)
       DEF CreateNoStack, At, Away, Scan, Inv, TypeOK, procVars, threadVars, lockVars, ProcState, ThreadState, NoProc
  <2> QED
    BY <2>3, <2>5, <2>6 DEF Inv
<1>5. CASE CreateStart(c)
  <2>1. running[c] \in Thread /\ ProcOf(c) \in Proc /\ frame[c].pc # "idle"
    BY <1>5, Runs DEF CreateStart, At
  <2>2. Go(c, "ret", <<>>) /\ MayGo("ret", <<>>) /\ LockRule(c, "ret") /\ running' = running
    BY <1>5, <2>1, MayGoFacts, ThreadFacts, Args, LockFacts, CPUAssumption, ZenonT(60)
       DEF CreateStart, At, Return, Call, Away, Scan, LockRule, lockVars, Sched, Holds, Inv, TypeOK
  <2>3. frame' \in [CPU -> Frame] /\ FramesOK' /\ Locks'
    BY <2>1, <2>2, Moved
  <2>5. ctx' \in [Thread -> Frame] /\ CtxOK'
    BY <1>5, ZenonT(60) DEF CreateStart, Inv, TypeOK, CtxOK, threadVars
  <2>6. TypeOK'
    BY <1>5, <2>1, <2>3, <2>5, ThreadFacts, Args, ProgramAssumption, ZenonT(60)
       DEF CreateStart, At, Away, Scan, Inv, TypeOK, procVars, threadVars, lockVars, ProcState, ThreadState, NoProc
  <2> QED
    BY <2>3, <2>5, <2>6 DEF Inv
<1> QED
  BY <1>1, <1>2, <1>3, <1>4, <1>5 DEF Create

(* Every step of kthread_exit() preserves the invariant.                   *)
LEMMA KExitStep == ASSUME Inv, NEW c \in CPU, KExit(c) PROVE Inv'
<1>1. CASE KExitMark(c)
  <2>1. running[c] \in Thread /\ ProcOf(c) \in Proc /\ frame[c].pc # "idle"
    BY <1>1, Runs DEF KExitMark, At
  <2>2. /\ Go(c, "kexit_sched", <<>>) /\ MayGo("kexit_sched", <<>>) /\ LockRule(c, "kexit_sched")
        /\ running' = running
    BY <1>1, <2>1, MayGoFacts, ThreadFacts, Args, LockFacts, CPUAssumption, ZenonT(60)
       DEF KExitMark, At, Return, Call, Away, Scan, LockRule, lockVars, Sched, Holds, Inv, TypeOK
  <2>3. frame' \in [CPU -> Frame] /\ FramesOK' /\ Locks'
    BY <2>1, <2>2, Moved, ZenonT(60)
  <2>5. ctx' \in [Thread -> Frame] /\ CtxOK'
    BY <1>1, ZenonT(60) DEF KExitMark, Inv, TypeOK, CtxOK, threadVars
  <2>6. TypeOK'
    BY <1>1, <2>1, <2>3, <2>5, ThreadFacts, Args, ProgramAssumption, ZenonT(60)
       DEF KExitMark, At, Away, Scan, Inv, TypeOK, procVars, threadVars, lockVars, ProcState, ThreadState, NoProc
  <2> QED
    BY <2>3, <2>5, <2>6 DEF Inv
<1>2. CASE KExitSched(c)
  <2>1. /\ running[c] \in Thread /\ ProcOf(c) = tproc(running[c]) /\ frame[c].pc = "kexit_sched"
        /\ ptl = c
    BY <1>2, Runs, LockFacts, ZenonT(60) DEF KExitSched, At, ProcOf, Sched
  <2>2. frame' \in [CPU -> Frame] /\ FramesOK' /\ Locks' /\ ctx' \in [Thread -> Frame] /\ CtxOK'
    <3>1. CASE OthersGone(running[c])
      <4>1. /\ Go(c, "exit", <<>>) /\ MayGo("exit", <<>>) /\ LockRule(c, "exit")
            /\ running' = running
        BY <1>2, <2>1, <3>1, MayGoFacts, LockFacts, CPUAssumption, ZenonT(60)
           DEF KExitSched, Call, LockRule, Sched, Holds, Scan, Inv, TypeOK
      <4>2. ctx' = ctx
        BY <1>2, <2>1, <3>1, ZenonT(60) DEF KExitSched
      <4>3. frame' \in [CPU -> Frame] /\ FramesOK' /\ Locks'
        BY <2>1, <4>1, Moved
      <4> QED
        BY <4>2, <4>3, ZenonT(60) DEF Inv, TypeOK, CtxOK
    <3>2. CASE ~OthersGone(running[c])
      <4>1. /\ Go(c, "swtch", <<>>) /\ MayGo("swtch", <<>>) /\ LockRule(c, "swtch")
            /\ running' = running
        BY <1>2, <2>1, <3>2, MayGoFacts, LockFacts, CPUAssumption, ZenonT(60)
           DEF KExitSched, LockRule, Sched, Holds, Scan, Inv, TypeOK
      <4>2. /\ ctx' = [ctx EXCEPT ![running[c]] = [pc |-> "dead", arg |-> <<>>]]
            /\ MayGo("dead", <<>>)
        BY <1>2, <2>1, <3>2, MayGoFacts, ZenonT(60) DEF KExitSched, NoFrame
      <4>3. frame' \in [CPU -> Frame] /\ FramesOK' /\ Locks'
        BY <2>1, <4>1, Moved
      <4>4. ctx' \in [Thread -> Frame] /\ CtxOK'
        BY <2>1, <4>2, Saved, ZenonT(60) DEF Holds, Scan
      <4> QED
        BY <4>3, <4>4
    <3> QED
      BY <3>1, <3>2
  <2>3. TypeOK'
    BY <1>2, <2>1, <2>2, ZenonT(60) DEF KExitSched, wakeup1, Inv, TypeOK, procVars, ThreadState
  <2> QED
    BY <2>2, <2>3 DEF Inv
<1> QED
  BY <1>1, <1>2 DEF KExit

(* Every step of kthread_join() preserves the invariant: p->lock is given  *)
(* back inside sleep().                                                    *)
LEMMA JoinStep == ASSUME Inv, NEW c \in CPU, Join(c) PROVE Inv'
<1>1. ASSUME NEW t \in Thread, JoinReap(c, t) PROVE Inv'
  <2>1. running[c] \in Thread /\ ProcOf(c) \in Proc /\ frame[c].pc # "idle"
    BY <1>1, Runs, ZenonT(60) DEF JoinReap, At, InJoin
  <2>2. Go(c, "ret", <<>>) /\ MayGo("ret", <<>>) /\ LockRule(c, "ret") /\ running' = running
    BY <1>1, <2>1, MayGoFacts, ThreadFacts, Args, LockFacts, CPUAssumption, ZenonT(60)
       DEF JoinReap, InJoin, At, Return, Call, Away, Scan, LockRule, lockVars, Sched, Holds, Inv, TypeOK
  <2>3. frame' \in [CPU -> Frame] /\ FramesOK' /\ Locks'
    BY <2>1, <2>2, Moved, ZenonT(60)
  <2>5. ctx' \in [Thread -> Frame] /\ CtxOK'
    BY <1>1, ZenonT(60) DEF JoinReap, InJoin, Inv, TypeOK, CtxOK, threadVars
  <2>6. TypeOK'
    BY <1>1, <2>1, <2>3, <2>5, ThreadFacts, Args, ProgramAssumption, ZenonT(60)
       DEF JoinReap, InJoin, At, Away, Scan, Inv, TypeOK, procVars, threadVars, lockVars, ProcState, ThreadState, NoProc
  <2> QED
    BY <2>3, <2>5, <2>6 DEF Inv
<1>2. ASSUME NEW t \in Thread, JoinUnused(c, t) PROVE Inv'
  <2>1. running[c] \in Thread /\ ProcOf(c) \in Proc /\ frame[c].pc # "idle"
    BY <1>2, Runs DEF JoinUnused, At, InJoin
  <2>2. Go(c, "ret", <<>>) /\ MayGo("ret", <<>>) /\ LockRule(c, "ret") /\ running' = running
    BY <1>2, <2>1, MayGoFacts, ThreadFacts, Args, LockFacts, CPUAssumption, ZenonT(60)
       DEF JoinUnused, InJoin, At, Return, Call, Away, Scan, LockRule, lockVars, Sched, Holds, Inv, TypeOK
  <2>3. frame' \in [CPU -> Frame] /\ FramesOK' /\ Locks'
    BY <2>1, <2>2, Moved
  <2>5. ctx' \in [Thread -> Frame] /\ CtxOK'
    BY <1>2, ZenonT(60) DEF JoinUnused, InJoin, Inv, TypeOK, CtxOK, threadVars
  <2>6. TypeOK'
    BY <1>2, <2>1, <2>3, <2>5, ThreadFacts, Args, ProgramAssumption, ZenonT(60)
       DEF JoinUnused, InJoin, At, Away, Scan, Inv, TypeOK, procVars, threadVars, lockVars, ProcState, ThreadState, NoProc
  <2> QED
    BY <2>3, <2>5, <2>6 DEF Inv
<1>3. ASSUME NEW t \in Thread, JoinBlock(c, t) PROVE Inv'
  <2>1. running[c] \in Thread /\ ProcOf(c) \in Proc /\ frame[c].pc # "idle"
    BY <1>3, Runs, ZenonT(60) DEF JoinBlock, At, InJoin
  <2>2. /\ Go(c, "join_sleep", t) /\ MayGo("join_sleep", t) /\ LockRule(c, "join_sleep")
        /\ running' = running
    BY <1>3, <2>1, MayGoFacts, ThreadFacts, Args, LockFacts, CPUAssumption, ZenonT(60)
       DEF JoinBlock, InJoin, At, Return, Call, Away, Scan, LockRule, lockVars, Sched, Holds, Inv, TypeOK
  <2>3. frame' \in [CPU -> Frame] /\ FramesOK' /\ Locks'
    BY <2>1, <2>2, Moved, ZenonT(60)
  <2>5. ctx' \in [Thread -> Frame] /\ CtxOK'
    BY <1>3, ZenonT(60) DEF JoinBlock, InJoin, Inv, TypeOK, CtxOK, threadVars
  <2>6. TypeOK'
    BY <1>3, <2>1, <2>3, <2>5, ThreadFacts, Args, ProgramAssumption, ZenonT(60)
       DEF JoinBlock, InJoin, At, Away, Scan, Inv, TypeOK, procVars, threadVars, lockVars, ProcState, ThreadState, NoProc
  <2> QED
    BY <2>3, <2>5, <2>6 DEF Inv
<1>4. CASE JoinSleep(c)
  <2>1. running[c] \in Thread /\ ProcOf(c) \in Proc /\ frame[c].pc # "idle"
    BY <1>4, Runs, ZenonT(60) DEF JoinSleep, At, SleepReleasing, SleepOn
  <2>2. Go(c, "swtch", <<>>) /\ MayGo("swtch", <<>>) /\ LockRule(c, "swtch") /\ running' = running
    <3>1. Go(c, "swtch", <<>>) /\ MayGo("swtch", <<>>) /\ running' = running
      BY <1>4, <2>1, MayGoFacts, Args, ZenonT(60)
         DEF JoinSleep, SleepReleasing, SleepOn, At, Away, Scan, Inv, TypeOK
    <3>2. LockRule(c, "swtch")
      BY <1>4, <2>1, LockFacts, CPUAssumption, ZenonT(60)
         DEF JoinSleep, SleepReleasing, SleepOn, At, Away, Scan, LockRule, lockVars, Sched, Holds, Inv, TypeOK
    <3> QED
      BY <3>1, <3>2
  <2>3. frame' \in [CPU -> Frame] /\ FramesOK' /\ Locks'
    BY <2>1, <2>2, Moved
  <2>4. /\ MayGo("join_again", frame[c].arg) /\ running[c] \in Thread
        /\ ctx' = [ctx EXCEPT ![running[c]] = [pc |-> "join_again", arg |-> frame[c].arg]]
    BY <1>4, <2>1, MayGoFacts, ThreadFacts, Args, ZenonT(60)
       DEF JoinSleep, SleepReleasing, SleepOn, At, UserFrame, Away, Scan
  <2>5. ctx' \in [Thread -> Frame] /\ CtxOK'
    BY <2>4, Saved, ZenonT(60) DEF Holds, Scan
  <2>6. TypeOK'
    BY <1>4, <2>1, <2>3, <2>5, ThreadFacts, Args, ProgramAssumption, ZenonT(60)
       DEF JoinSleep, SleepReleasing, SleepOn, At, Away, Scan, Inv, TypeOK, procVars, threadVars, lockVars, ProcState, ThreadState, NoProc
  <2> QED
    BY <2>3, <2>5, <2>6 DEF Inv
<1> QED
  BY <1>1, <1>2, <1>3, <1>4 DEF Join

(* The end of a scan step: on to the next thread, to sleep, or out of the  *)
(* loop with p->lock released.                                             *)
LEMMA ScanOnKeeps ==
  ASSUME Inv, NEW c \in CPU, NEW alive \in BOOLEAN, frame[c].pc \in Scan, ScanOn(c, alive),
         running' = running, ptl' = ptl
  PROVE  /\ frame' \in [CPU -> Frame] /\ FramesOK' /\ Locks'
         /\ executed' \in [Proc -> BOOLEAN] /\ plock' \in [Proc -> CPU \cup {NoCPU}]
<1>1. /\ running[c] \in Thread /\ ProcOf(c) \in Proc /\ frame[c].pc # "idle" /\ ptl # c
      /\ frame[c].arg \in Thread
  BY Runs, Args, LockFacts, ZenonT(60) DEF Scan, Away, Sched
<1>2. PICK p \in Proc, i \in 1 .. NTHREAD : p = ProcOf(c) /\ i = frame[c].arg[2]
  BY <1>1 DEF Thread
<1>3. CASE i < NTHREAD
  <2>1. <<p, i + 1>> \in Thread
    BY <1>2, <1>3, SizesAssumption DEF Thread
  <2>2. PICK l \in Scan : l = IF alive THEN "exec_alive" ELSE "exec_scan"
    BY Zenon DEF Scan
  <2>3. Go(c, l, <<p, i + 1>>) /\ executed' = executed /\ plock' = plock
    BY <1>2, <1>3, <2>2, SizesAssumption DEF ScanOn
  <2>4. MayGo(l, <<p, i + 1>>)
    BY <2>1, MayGoFacts, ZenonT(60) DEF Away, Scan
  <2>5. LockRule(c, l)
    BY <1>1, <2>3, LockFacts, ZenonT(60) DEF LockRule, Sched, Scan, Holds
  <2>6. frame' \in [CPU -> Frame] /\ FramesOK' /\ Locks'
    BY <1>1, <2>3, <2>4, <2>5, Moved, ZenonT(60)
  <2> QED
    BY <2>3, <2>6, Zenon DEF Inv, TypeOK
<1>4. CASE i = NTHREAD /\ alive
  <2>1. Go(c, "exec_sleep", <<>>) /\ executed' = executed /\ plock' = plock
    BY <1>2, <1>4, SizesAssumption DEF ScanOn
  <2>2. MayGo("exec_sleep", <<>>)
    BY MayGoFacts, ZenonT(60)
  <2>3. LockRule(c, "exec_sleep")
    BY <1>1, <2>1, LockFacts, ZenonT(60) DEF LockRule, Sched, Holds, Scan
  <2>4. frame' \in [CPU -> Frame] /\ FramesOK' /\ Locks'
    BY <1>1, <2>1, <2>2, <2>3, Moved, ZenonT(60)
  <2> QED
    BY <2>1, <2>4, Zenon DEF Inv, TypeOK
<1>5. CASE i = NTHREAD /\ ~alive
  <2>1. /\ Go(c, "ret", <<>>)
        /\ executed' = [executed EXCEPT ![p] = FALSE] /\ plock' = [plock EXCEPT ![p] = NoCPU]
    BY <1>2, <1>5, SizesAssumption DEF ScanOn, Return
  <2>2. MayGo("ret", <<>>)
    BY MayGoFacts, ZenonT(60)
  <2>3. LockRule(c, "ret")
    BY <1>1, <1>2, <2>1, LockFacts, ZenonT(60) DEF LockRule, Sched, Holds, Scan, Inv, TypeOK
  <2>4. frame' \in [CPU -> Frame] /\ FramesOK' /\ Locks'
    BY <1>1, <2>1, <2>2, <2>3, Moved, ZenonT(60)
  <2> QED
    BY <1>2, <2>1, <2>4, ZenonT(60) DEF Inv, TypeOK
<1> QED
  BY <1>2, <1>3, <1>4, <1>5, SizesAssumption

(* Every step of wait_before_exec() preserves the invariant.               *)
LEMMA ExecStep == ASSUME Inv, NEW c \in CPU, Exec(c) PROVE Inv'
<1>1. CASE ExecBegin(c)
  <2>1. /\ running[c] \in Thread /\ ProcOf(c) \in Proc /\ frame[c].pc # "idle"
        /\ <<ProcOf(c), 1>> \in Thread
    BY <1>1, Runs, ThreadFacts, SizesAssumption DEF ExecBegin, At
  <2>2. PICK l \in Scan : l = IF At(c, "exec") THEN "exec_scan" ELSE "exec_alive"
    BY Zenon DEF Scan
  <2>3. Go(c, l, <<ProcOf(c), 1>>) /\ MayGo(l, <<ProcOf(c), 1>>) /\ running' = running
    BY <1>1, <2>1, <2>2, MayGoFacts, ZenonT(60) DEF ExecBegin, Away, Scan
  <2>4. LockRule(c, l)
    BY <1>1, <2>1, LockFacts, CPUAssumption, ZenonT(60)
       DEF ExecBegin, At, LockRule, Sched, Scan, Holds, Inv, TypeOK
  <2>5. frame' \in [CPU -> Frame] /\ FramesOK' /\ Locks'
    BY <2>1, <2>3, <2>4, Moved, ZenonT(60)
  <2>6. ctx' \in [Thread -> Frame] /\ CtxOK'
    BY <1>1, ZenonT(60) DEF ExecBegin, Inv, TypeOK, CtxOK, threadVars
  <2>7. TypeOK'
    BY <1>1, <2>1, <2>5, <2>6, ZenonT(60) DEF ExecBegin, Inv, TypeOK, threadVars
  <2> QED
    BY <2>5, <2>6, <2>7 DEF Inv
<1>2. ASSUME NEW alive \in BOOLEAN, frame[c].pc \in Scan, ScanOn(c, alive),
             UNCHANGED <<pstate, parent, killed, cwd, pgdir, chan, ctx, running, ptl, panic>>,
             tstate' \in [Thread -> ThreadState], kstack' \in [Thread -> BOOLEAN]
      PROVE  Inv'
  <2>1. /\ frame' \in [CPU -> Frame] /\ FramesOK' /\ Locks'
        /\ executed' \in [Proc -> BOOLEAN] /\ plock' \in [Proc -> CPU \cup {NoCPU}]
    BY <1>2, ScanOnKeeps, Zenon
  <2>2. ctx' \in [Thread -> Frame] /\ CtxOK'
    BY <1>2, ZenonT(60) DEF Inv, TypeOK, CtxOK
  <2>3. TypeOK'
    BY <1>2, <2>1, <2>2, ZenonT(60) DEF Inv, TypeOK
  <2> QED
    BY <2>1, <2>2, <2>3, Zenon DEF Inv
<1>4. CASE ExecSkip(c)
  <2>1. PICK alive \in BOOLEAN : alive = At(c, "exec_alive")
    BY Zenon DEF At
  <2>2. frame[c].pc \in Scan /\ ScanOn(c, alive)
    BY <1>4, <2>1, Zenon DEF ExecSkip, Scanning, At, Scan
  <2> QED
    BY <1>2, <1>4, <2>2, Zenon DEF ExecSkip, threadVars, Inv, TypeOK
<1>5. CASE ExecReap(c)
  <2>1. PICK alive \in BOOLEAN : alive = At(c, "exec_alive")
    BY Zenon DEF At
  <2>2. frame[c].pc \in Scan /\ ScanOn(c, alive)
    BY <1>5, <2>1, Zenon DEF ExecReap, Scanning, At, Scan
  <2>3. tstate' \in [Thread -> ThreadState] /\ kstack' \in [Thread -> BOOLEAN]
    BY <1>5, Zenon DEF ExecReap, Inv, TypeOK, ThreadState
  <2> QED
    BY <1>2, <1>5, <2>2, <2>3, Zenon DEF ExecReap
<1>6. CASE ExecAlive(c)
  <2>1. frame[c].pc \in Scan /\ ScanOn(c, TRUE)
    BY <1>6, Zenon DEF ExecAlive, Scanning, At, Scan
  <2> QED
    BY <1>2, <1>6, <2>1, Zenon DEF ExecAlive, threadVars, Inv, TypeOK
<1>7. CASE ExecAsleep(c)
  <2>1. /\ running[c] \in Thread /\ ProcOf(c) \in Proc /\ frame[c].pc # "idle"
        /\ frame[c].pc \in Scan /\ frame[c].arg \in Thread
    BY <1>7, Runs, Args, ZenonT(60) DEF ExecAsleep, Scanning, At, Scan, Away
  <2>2. Go(c, "exec_wake", frame[c].arg) /\ MayGo("exec_wake", frame[c].arg) /\ running' = running
    BY <1>7, <2>1, MayGoFacts, ZenonT(60) DEF ExecAsleep, Scan, Away
  <2>3. LockRule(c, "exec_wake")
    BY <1>7, <2>1, LockFacts, CPUAssumption, ZenonT(60)
       DEF ExecAsleep, LockRule, lockVars, Sched, Scan, Holds, Inv, TypeOK
  <2>4. frame' \in [CPU -> Frame] /\ FramesOK' /\ Locks'
    BY <2>1, <2>2, <2>3, Moved, ZenonT(60)
  <2>5. ctx' \in [Thread -> Frame] /\ CtxOK'
    BY <1>7, ZenonT(60) DEF ExecAsleep, Inv, TypeOK, CtxOK, threadVars
  <2>6. TypeOK'
    BY <1>7, <2>4, <2>5, ZenonT(60) DEF ExecAsleep, Inv, TypeOK, procVars, threadVars, lockVars
  <2> QED
    BY <2>4, <2>5, <2>6 DEF Inv
<1>8. CASE ExecWake(c)
  <2>1. frame[c].pc \in Scan /\ ScanOn(c, TRUE)
    BY <1>8, Zenon DEF ExecWake, At, Scan
  <2>2. tstate' \in [Thread -> ThreadState] /\ kstack' \in [Thread -> BOOLEAN]
    BY <1>8, Zenon DEF ExecWake, Inv, TypeOK, ThreadState
  <2> QED
    BY <1>2, <1>8, <2>1, <2>2, Zenon DEF ExecWake
<1>3. CASE ExecSleep(c)
  <2>1. running[c] \in Thread /\ ProcOf(c) \in Proc /\ frame[c].pc # "idle"
    BY <1>3, Runs, ZenonT(60) DEF ExecSleep, At, SleepReleasing, SleepOn
  <2>2. Go(c, "swtch", <<>>) /\ MayGo("swtch", <<>>) /\ LockRule(c, "swtch") /\ running' = running
    <3>1. Go(c, "swtch", <<>>) /\ MayGo("swtch", <<>>) /\ running' = running
      BY <1>3, <2>1, MayGoFacts, Args, ZenonT(60)
         DEF ExecSleep, SleepReleasing, SleepOn, At, Away, Scan, Inv, TypeOK
    <3>2. LockRule(c, "swtch")
      BY <1>3, <2>1, LockFacts, CPUAssumption, ZenonT(60)
         DEF ExecSleep, SleepReleasing, SleepOn, At, Away, Scan, LockRule, lockVars, Sched, Holds, Inv, TypeOK
    <3> QED
      BY <3>1, <3>2
  <2>3. frame' \in [CPU -> Frame] /\ FramesOK' /\ Locks'
    BY <2>1, <2>2, Moved
  <2>4. /\ MayGo("exec_again", <<>>) /\ running[c] \in Thread
        /\ ctx' = [ctx EXCEPT ![running[c]] = [pc |-> "exec_again", arg |-> <<>>]]
    BY <1>3, <2>1, MayGoFacts, ThreadFacts, Args
       DEF ExecSleep, SleepReleasing, SleepOn, At, UserFrame, Away, Scan
  <2>5. ctx' \in [Thread -> Frame] /\ CtxOK'
    BY <2>4, Saved, ZenonT(60) DEF Holds, Scan
  <2>6. TypeOK'
    BY <1>3, <2>1, <2>3, <2>5, ThreadFacts, Args, ProgramAssumption, ZenonT(60)
       DEF ExecSleep, SleepReleasing, SleepOn, At, Away, Scan, Inv, TypeOK, procVars, threadVars, lockVars, ProcState, ThreadState, NoProc
  <2> QED
    BY <2>3, <2>5, <2>6 DEF Inv
<1> QED
  BY <1>1, <1>3, <1>4, <1>5, <1>6, <1>7, <1>8, Zenon DEF Exec

(* Every step of trap() and kill(), and a clock tick, preserves the        *)
(* invariant.                                                              *)
LEMMA TrapStep ==
  ASSUME Inv, NEW c \in CPU,
         \/ (\E q \in Victims : Kill(c, q)) \/ SysReturn(c) \/ TrapDying(c) \/ DeadRuns(c)
         \/ User(c) \/ Tick(c) \/ Yield(c)
  PROVE  Inv'
<1>1. ASSUME NEW q \in Victims, Kill(c, q) PROVE Inv'
  <2>1. running[c] \in Thread /\ ProcOf(c) \in Proc /\ frame[c].pc # "idle"
    BY <1>1, Runs DEF Kill, At
  <2>2. Go(c, "ret", <<>>) /\ MayGo("ret", <<>>) /\ LockRule(c, "ret") /\ running' = running
    BY <1>1, <2>1, MayGoFacts, ThreadFacts, Args, LockFacts, CPUAssumption, ZenonT(60)
       DEF Kill, At, Return, Call, Away, Scan, LockRule, lockVars, Sched, Holds, Inv, TypeOK
  <2>3. frame' \in [CPU -> Frame] /\ FramesOK' /\ Locks'
    BY <2>1, <2>2, Moved, ZenonT(60)
  <2>5. ctx' \in [Thread -> Frame] /\ CtxOK'
    BY <1>1, ZenonT(60) DEF Kill, Inv, TypeOK, CtxOK, threadVars
  <2>6. TypeOK'
    BY <1>1, <2>1, <2>3, <2>5, ThreadFacts, Args, ProgramAssumption, ZenonT(60)
       DEF Kill, At, Away, Scan, Inv, TypeOK, procVars, threadVars, lockVars, ProcState, ThreadState, NoProc
  <2> QED
    BY <2>3, <2>5, <2>6 DEF Inv
<1>2. CASE SysReturn(c)
  <2>1. running[c] \in Thread /\ ProcOf(c) \in Proc /\ frame[c].pc # "idle"
    BY <1>2, Runs DEF SysReturn, At
  <2>2. Go(c, "user", <<>>) /\ MayGo("user", <<>>) /\ LockRule(c, "user") /\ running' = running
    BY <1>2, <2>1, MayGoFacts, ThreadFacts, Args, LockFacts, CPUAssumption, ZenonT(60)
       DEF SysReturn, At, Return, Call, Away, Scan, LockRule, lockVars, Sched, Holds, Inv, TypeOK
  <2>3. frame' \in [CPU -> Frame] /\ FramesOK' /\ Locks'
    BY <2>1, <2>2, Moved, ZenonT(60)
  <2>5. ctx' \in [Thread -> Frame] /\ CtxOK'
    BY <1>2, ZenonT(60) DEF SysReturn, Inv, TypeOK, CtxOK, threadVars
  <2>6. TypeOK'
    BY <1>2, <2>1, <2>3, <2>5, ThreadFacts, Args, ProgramAssumption, ZenonT(60)
       DEF SysReturn, At, Away, Scan, Inv, TypeOK, procVars, threadVars, lockVars, ProcState, ThreadState, NoProc
  <2> QED
    BY <2>3, <2>5, <2>6 DEF Inv
<1>3. CASE TrapDying(c)
  <2>1. running[c] \in Thread /\ ProcOf(c) \in Proc /\ frame[c].pc # "idle"
    BY <1>3, Runs, ZenonT(60) DEF TrapDying, At
  <2>2. Go(c, "exit", <<>>) /\ MayGo("exit", <<>>) /\ LockRule(c, "exit") /\ running' = running
    BY <1>3, <2>1, MayGoFacts, ThreadFacts, Args, LockFacts, CPUAssumption, ZenonT(60)
       DEF TrapDying, At, Return, Call, Away, Scan, LockRule, lockVars, Sched, Holds, Inv, TypeOK
  <2>3. frame' \in [CPU -> Frame] /\ FramesOK' /\ Locks'
    BY <2>1, <2>2, Moved, ZenonT(60)
  <2>5. ctx' \in [Thread -> Frame] /\ CtxOK'
    BY <1>3, ZenonT(60) DEF TrapDying, Inv, TypeOK, CtxOK, threadVars
  <2>6. TypeOK'
    BY <1>3, <2>1, <2>3, <2>5, ThreadFacts, Args, ProgramAssumption, ZenonT(60)
       DEF TrapDying, At, Away, Scan, Inv, TypeOK, procVars, threadVars, lockVars, ProcState, ThreadState, NoProc
  <2> QED
    BY <2>3, <2>5, <2>6 DEF Inv
<1>4. CASE UserFault(c)
  <2>1. running[c] \in Thread /\ ProcOf(c) \in Proc /\ frame[c].pc # "idle"
    BY <1>4, Runs, ZenonT(60) DEF UserFault, At
  <2>2. Go(c, "exit", <<>>) /\ MayGo("exit", <<>>) /\ LockRule(c, "exit") /\ running' = running
    BY <1>4, <2>1, MayGoFacts, ThreadFacts, Args, LockFacts, CPUAssumption, ZenonT(60)
       DEF UserFault, At, Return, Call, Away, Scan, LockRule, lockVars, Sched, Holds, Inv, TypeOK
  <2>3. frame' \in [CPU -> Frame] /\ FramesOK' /\ Locks'
    BY <2>1, <2>2, Moved, ZenonT(60)
  <2>5. ctx' \in [Thread -> Frame] /\ CtxOK'
    BY <1>4, ZenonT(60) DEF UserFault, Inv, TypeOK, CtxOK, threadVars
  <2>6. TypeOK'
    BY <1>4, <2>1, <2>3, <2>5, ThreadFacts, Args, ProgramAssumption, ZenonT(60)
       DEF UserFault, At, Away, Scan, Inv, TypeOK, procVars, threadVars, lockVars, ProcState, ThreadState, NoProc
  <2> QED
    BY <2>3, <2>5, <2>6 DEF Inv
<1>5. ASSUME NEW call \in Call, SysEnter(c, call) PROVE Inv'
  <2>1. running[c] \in Thread /\ ProcOf(c) \in Proc /\ frame[c].pc # "idle"
    BY <1>5, Runs, ZenonT(60) DEF SysEnter, At
  <2>2. Go(c, call, <<>>) /\ MayGo(call, <<>>) /\ LockRule(c, call) /\ running' = running
    BY <1>5, <2>1, MayGoFacts, ThreadFacts, Args, LockFacts, CPUAssumption, ZenonT(60)
       DEF SysEnter, At, Return, Call, Away, Scan, LockRule, lockVars, Sched, Holds, Inv, TypeOK
  <2>3. frame' \in [CPU -> Frame] /\ FramesOK' /\ Locks'
    BY <2>1, <2>2, Moved, ZenonT(60)
  <2>5. ctx' \in [Thread -> Frame] /\ CtxOK'
    BY <1>5, ZenonT(60) DEF SysEnter, Inv, TypeOK, CtxOK, threadVars
  <2>6. TypeOK'
    BY <1>5, <2>1, <2>3, <2>5, ThreadFacts, Args, ProgramAssumption, ZenonT(60)
       DEF SysEnter, At, Away, Scan, Inv, TypeOK, procVars, threadVars, lockVars, ProcState, ThreadState, NoProc
  <2> QED
    BY <2>3, <2>5, <2>6 DEF Inv
<1>6. CASE Tick(c)
  <2>1. running[c] \in Thread /\ ProcOf(c) \in Proc /\ frame[c].pc # "idle"
    BY <1>6, Runs, ZenonT(60) DEF Tick, At, Preemptible
  <2>2. Go(c, "yield", <<>>) /\ MayGo("yield", <<>>) /\ LockRule(c, "yield") /\ running' = running
    BY <1>6, <2>1, MayGoFacts, ThreadFacts, Args, LockFacts, CPUAssumption, ZenonT(60)
       DEF Tick, Preemptible, At, Return, Call, Away, Scan, LockRule, lockVars, Sched, Holds, Inv, TypeOK
  <2>3. frame' \in [CPU -> Frame] /\ FramesOK' /\ Locks'
    BY <2>1, <2>2, Moved, ZenonT(60)
  <2>5. ctx' \in [Thread -> Frame] /\ CtxOK'
    <3>1. CASE At(c, "user")
      <4>1. ctx' = [ctx EXCEPT ![running[c]] = [pc |-> "ret", arg |-> <<>>]] /\ MayGo("ret", <<>>)
        BY <1>6, <3>1, MayGoFacts, ZenonT(60) DEF Tick
      <4> QED
        BY <2>1, <4>1, Saved, ZenonT(60) DEF Holds, Scan
    <3>2. CASE ~At(c, "user")
      <4>1. ctx' = [ctx EXCEPT ![running[c]] = frame[c]]
        BY <1>6, <3>2, ZenonT(60) DEF Tick
      <4>2. /\ frame[c] = [pc |-> frame[c].pc, arg |-> frame[c].arg]
            /\ MayGo(frame[c].pc, frame[c].arg)
        BY <2>1, ZenonT(60) DEF MayGo, Inv, TypeOK, FramesOK, Frame
      <4>3. frame[c].pc \notin Holds \cup {"swtch", "yield", "kexit_sched"}
        BY <1>6, ZenonT(60) DEF Tick, Preemptible, Holds, Scan
      <4> QED
        BY <2>1, <4>1, <4>2, <4>3, Saved, ZenonT(60)
    <3> QED
      BY <3>1, <3>2
  <2>6. TypeOK'
    BY <1>6, <2>1, <2>3, <2>5, ThreadFacts, Args, ProgramAssumption, ZenonT(60)
       DEF Tick, Preemptible, At, Away, Scan, Inv, TypeOK, procVars, threadVars, lockVars, ProcState, ThreadState, NoProc
  <2> QED
    BY <2>3, <2>5, <2>6 DEF Inv
<1>7. CASE Yield(c)
  <2>1. running[c] \in Thread /\ ProcOf(c) \in Proc /\ frame[c].pc # "idle"
    BY <1>7, Runs, ZenonT(60) DEF Yield, At
  <2>2. Go(c, "swtch", <<>>) /\ MayGo("swtch", <<>>) /\ LockRule(c, "swtch") /\ running' = running
    BY <1>7, <2>1, MayGoFacts, LockFacts, CPUAssumption, ZenonT(60)
       DEF Yield, At, LockRule, Sched, Scan, Holds, Inv, TypeOK
  <2>3. frame' \in [CPU -> Frame] /\ FramesOK' /\ Locks'
    BY <2>1, <2>2, Moved, ZenonT(60)
  <2>5. ctx' \in [Thread -> Frame] /\ CtxOK'
    BY <1>7, ZenonT(60) DEF Yield, Inv, TypeOK, CtxOK
  <2>6. TypeOK'
    BY <1>7, <2>1, <2>3, <2>5, ZenonT(60) DEF Yield, Inv, TypeOK, procVars, ThreadState
  <2> QED
    BY <2>3, <2>5, <2>6 DEF Inv
<1>8. CASE DeadRuns(c)
  BY <1>8, ZenonT(60)
     DEF DeadRuns, Inv, TypeOK, FramesOK, CtxOK, Locks, procVars, threadVars, lockVars, ProcOf
<1> QED
  BY <1>1, <1>2, <1>3, <1>4, <1>5, <1>6, <1>7, <1>8 DEF User

(* The two ends of a context switch change what a CPU runs.                *)
LEMMA SwtchStep == ASSUME Inv, NEW c \in CPU, Swtch(c) PROVE Inv'
<1>1. /\ frame' \in [CPU -> Frame] /\ frame'[c].pc = "idle"
      /\ \A d \in CPU \ {c} : frame'[d] = frame[d] /\ running'[d] = running[d]
      /\ ptl = c /\ ptl' = NoCPU /\ plock' = plock
  BY LockFacts, ThreadFacts, ZenonT(60) DEF Swtch, Go, Frame, PC, Inv, TypeOK, At, Sched
<1>2. FramesOK'
  BY <1>1 DEF FramesOK, Inv, ArgOK, Away, Scan
<1>3. Locks'
  <2>1. frame[c].pc = "swtch"
    BY ZenonT(60) DEF Swtch, At
  <2>2. ASSUME NEW d \in CPU PROVE frame'[d].pc \in Sched <=> ptl' = d
    <3>1. CASE d = c
      BY <1>1, <3>1, CPUAssumption DEF Sched
    <3>2. CASE d # c
      BY <1>1, <3>2, LockFacts, CPUAssumption, ZenonT(60)
    <3> QED
      BY <3>1, <3>2
  <2>3. ASSUME NEW p \in Proc, NEW d \in CPU, plock'[p] = d
        PROVE  frame'[d].pc \in Holds /\ ProcOf(d)' = p
    <3>1. frame[d].pc \in Holds /\ p = ProcOf(d)
      BY <1>1, <2>3, LockFacts
    <3>2. d # c
      BY <2>1, <3>1 DEF Holds, Scan
    <3> QED
      BY <1>1, <3>1, <3>2 DEF ProcOf
  <2> QED
    BY <2>2, <2>3 DEF Locks
<1>4. TypeOK' /\ CtxOK'
  BY <1>1, ZenonT(60) DEF Swtch, Inv, TypeOK, CtxOK, procVars, threadVars, NoThread
<1> QED
  BY <1>2, <1>3, <1>4 DEF Inv

(* The scheduler resumes a thread where it was switched out.               *)
LEMMA DispatchStep == ASSUME Inv, NEW c \in CPU, NEW t \in Thread, Dispatch(c, t) PROVE Inv'
<1>1. /\ frame' \in [CPU -> Frame] /\ frame'[c] = ctx[t] /\ running'[c] = t
      /\ \A d \in CPU \ {c} : frame'[d] = frame[d] /\ running'[d] = running[d]
      /\ frame[c].pc = "idle" /\ ptl = NoCPU /\ plock' = plock
      /\ ptl' = IF ctx[t].pc = "wait_again" THEN c ELSE NoCPU
  BY ZenonT(60) DEF Dispatch, Inv, TypeOK, At
<1>2. FramesOK'
  BY <1>1 DEF FramesOK, CtxOK, Inv
<1>3. Locks'
  <2>2. ASSUME NEW d \in CPU PROVE frame'[d].pc \in Sched <=> ptl' = d
    <3>1. CASE d = c
      <4>1. ctx[t].pc \in Sched <=> ctx[t].pc = "wait_again"
        BY DEF Inv, CtxOK, Sched
      <4> QED
        BY <1>1, <3>1, <4>1, CPUAssumption
    <3>2. CASE d # c
      BY <1>1, <3>2, LockFacts, CPUAssumption
    <3> QED
      BY <3>1, <3>2
  <2>3. ASSUME NEW p \in Proc, NEW d \in CPU, plock'[p] = d
        PROVE  frame'[d].pc \in Holds /\ ProcOf(d)' = p
    <3>1. frame[d].pc \in Holds /\ p = ProcOf(d)
      BY <1>1, <2>3, LockFacts
    <3>2. d # c
      BY <1>1, <3>1 DEF Holds, Scan
    <3> QED
      BY <1>1, <3>1, <3>2 DEF ProcOf
  <2> QED
    BY <2>2, <2>3 DEF Locks
<1>4. ctx' \in [Thread -> Frame] /\ CtxOK'
  BY MayGoFacts, Saved, ZenonT(60) DEF Dispatch, NoFrame, Scan, Holds
<1>5. TypeOK'
  BY <1>1, <1>4, ThreadFacts, ZenonT(60) DEF Dispatch, Inv, TypeOK, procVars, ThreadState
<1> QED
  BY <1>2, <1>3, <1>4, <1>5 DEF Inv

(* Every step of the kernel preserves the invariant.                       *)
LEMMA InvStep == Inv /\ [Next]_vars => Inv'
<1> SUFFICES ASSUME Inv, [Next]_vars PROVE Inv'
  OBVIOUS
<1>1. CASE UNCHANGED vars
  BY <1>1, ZenonT(60)
     DEF vars, procVars, threadVars, lockVars, Inv, TypeOK, FramesOK, CtxOK, Locks, ProcOf
<1>2. CASE Dangling
  BY <1>2, ZenonT(60)
     DEF Dangling, procVars, threadVars, lockVars, Inv, TypeOK, FramesOK, CtxOK, Locks, ProcOf
<1>3. ASSUME NEW c \in CPU, Step(c) PROVE Inv'
  BY <1>3, ForkStep, ExitStep, WaitStep, CreateStep, KExitStep, JoinStep, ExecStep, TrapStep,
     SwtchStep, DispatchStep DEF Step, Kernel
<1> QED
  BY <1>1, <1>2, <1>3 DEF Next

(* userinit() establishes the invariant.                                   *)
LEMMA InvInit == Init => Inv
<1> SUFFICES ASSUME Init PROVE Inv
  OBVIOUS
<1>1. TypeOK
  BY ThreadFacts, SizesAssumption, CPUAssumption
     DEF Init, TypeOK, ProcState, ThreadState, UserFrame, Frame, PC, NoThread, NoProc
<1>2. FramesOK /\ CtxOK
  BY DEF Init, FramesOK, CtxOK, ArgOK, Away, Scan, UserFrame, Holds
<1>3. Locks
  BY CPUAssumption DEF Init, Locks, Sched
<1> QED
  BY <1>1, <1>2, <1>3 DEF Inv

(* The invariant holds in every reachable state.                           *)
LEMMA Invariance == Spec => []Inv
  BY InvInit, InvStep, PTL DEF Spec

(* The fields of the tables stay in their ranges, and so do the argument   *)
(* and the place of every continuation.                                    *)
THEOREM ProcTableTypes == Spec => []TypeOK
  BY Invariance, PTL DEF Inv

(* sched() is never entered without ptable.lock or with a second spinlock: *)
(* its panics cannot happen, whatever calls threads make in whatever       *)
(* order, on any number of CPUs.                                           *)
THEOREM ProcTableSched == Spec => []SchedLocks
<1>1. Inv => SchedLocks
  BY DEF Inv, Locks, SchedLocks, Sched, Holds, Scan
<1> QED
  BY <1>1, Invariance, PTL

-----------------------------------------------------------------------------
(* What LastThreadExits needs.  A RUNNABLE process has a thread that is    *)
(* not gone, or a CPU that runs one of its threads and has not yet reached *)
(* the swtch that takes it away.  kthread_create works on a thread of the  *)
(* caller's own process, so that its failure leaves the caller; an idle    *)
(* CPU runs nobody.                                                        *)
Creating == {"create_stack", "create_start"}
Moving(p) == \E c \in CPU : running[c] \in ThreadsOf(p) /\ frame[c].pc # "swtch"
Manned(p) == Alive(p) # {} \/ Moving(p)
CreatesOwn ==
  /\ \A c \in CPU : frame[c].pc \in Creating => tproc(frame[c].arg) = ProcOf(c)
  /\ \A t \in Thread : ctx[t].pc \in Creating => tproc(ctx[t].arg) = tproc(t)
IdleFree == \A c \in CPU : frame[c].pc = "idle" => running[c] = NoThread
LInv == /\ CreatesOwn /\ IdleFree
        /\ \A p \in Proc : pstate[p] = "RUNNABLE" => Manned(p)

(* What one step of CPU c has to do for this: it stays out of the          *)
(* scheduler, saves no continuation but its own, and a process that it     *)
(* leaves RUNNABLE has a thread, is the one c goes on in, or is another    *)
(* one that had no thread before.                                          *)
LStep(c) ==
  /\ running' = running
  /\ frame[c].pc # "idle" /\ frame'[c].pc # "idle"
  /\ \A d \in CPU \ {c} : frame'[d] = frame[d]
  /\ frame'[c].pc \in Creating => tproc(frame'[c].arg) = ProcOf(c)
  /\ \A t \in Thread : \/ ctx'[t] = ctx[t] \/ ctx'[t].pc \notin Creating
                       \/ t = running[c] /\ ctx'[t] = frame[c]
  /\ \A p \in Proc : pstate'[p] = "RUNNABLE" =>
       \/ Alive(p)' # {}
       \/ p = ProcOf(c) /\ frame'[c].pc # "swtch"
       \/ p # ProcOf(c) /\ pstate[p] = "RUNNABLE" /\ Alive(p) = {}

LEMMA ThreadsOfFacts ==
  /\ \A p \in Proc, t \in Thread : t \in ThreadsOf(p) <=> tproc(t) = p
  /\ \A p \in Proc : \A t \in ThreadsOf(p) : t \in Thread /\ tproc(t) = p
  BY Zenon DEF ThreadsOf, Thread, tproc

LEMMA LStepKeeps ==
  ASSUME Inv, LInv, NEW c \in CPU, LStep(c)
  PROVE  LInv'
<1>1. running[c] \in Thread /\ ProcOf(c) \in Proc
  BY Runs, Zenon DEF LStep
<1>2. CreatesOwn'
  <2>1. ASSUME NEW d \in CPU, frame'[d].pc \in Creating PROVE tproc(frame'[d].arg) = ProcOf(d)'
    BY <2>1, Zenon DEF LStep, LInv, CreatesOwn, ProcOf
  <2>2. ASSUME NEW t \in Thread, ctx'[t].pc \in Creating PROVE tproc(ctx'[t].arg) = tproc(t)
    BY <2>2, Zenon DEF LStep, LInv, CreatesOwn, ProcOf
  <2> QED
    BY <2>1, <2>2, Zenon DEF CreatesOwn
<1>3. IdleFree'
  BY Zenon DEF LStep, LInv, IdleFree
<1>4. ASSUME NEW p \in Proc, pstate'[p] = "RUNNABLE" PROVE Manned(p)'
  <2>1. CASE Alive(p)' # {}
    BY <2>1, Zenon DEF Manned
  <2>2. CASE p = ProcOf(c) /\ frame'[c].pc # "swtch"
    <3>1. running'[c] \in ThreadsOf(p)
      BY <1>1, <2>2, ThreadsOfFacts, Zenon DEF LStep, ProcOf
    <3> QED
      BY <2>2, <3>1, Zenon DEF Manned, Moving
  <2>3. CASE p # ProcOf(c) /\ pstate[p] = "RUNNABLE" /\ Alive(p) = {}
    <3>1. PICK d \in CPU : running[d] \in ThreadsOf(p) /\ frame[d].pc # "swtch"
      BY <2>3, Zenon DEF LInv, Manned, Moving
    <3>2. d # c
      BY <1>1, <2>3, <3>1, ThreadsOfFacts, Zenon DEF ProcOf
    <3>3. running'[d] \in ThreadsOf(p) /\ frame'[d].pc # "swtch"
      BY <3>1, <3>2, Zenon DEF LStep
    <3> QED
      BY <3>3, Zenon DEF Manned, Moving
  <2> QED
    BY <1>4, <2>1, <2>2, <2>3, Zenon DEF LStep
<1> QED
  BY <1>2, <1>3, <1>4, Zenon DEF LInv

(* A step that leaves every thread that is not gone, and makes no process  *)
(* RUNNABLE.                                                               *)
Spares(c, l, a) ==
  /\ frame[c].pc # "idle" /\ l \notin {"idle", "swtch"}
  /\ l \in Creating => tproc(a) = ProcOf(c)
  /\ Go(c, l, a) /\ running' = running
  /\ \A t \in Thread : /\ tproc(t) # ProcOf(c) /\ pstate'[tproc(t)] = "RUNNABLE"
                       /\ tstate[t] \notin {"UNUSED", "ZOMBIE"}
                       => tstate'[t] \notin {"UNUSED", "ZOMBIE"}
  /\ \A t \in Thread : \/ ctx'[t] = ctx[t] \/ ctx'[t].pc \notin Creating
                       \/ t = running[c] /\ ctx'[t] = frame[c]
  /\ \A p \in Proc : pstate'[p] = "RUNNABLE" => pstate[p] = "RUNNABLE" \/ Alive(p)' # {}

LEMMA SparesKeeps ==
  ASSUME Inv, LInv, NEW c \in CPU, NEW l, NEW a, Spares(c, l, a)
  PROVE  LInv'
<1>1. /\ frame'[c].pc = l /\ frame'[c].arg = a
      /\ \A d \in CPU \ {c} : frame'[d] = frame[d]
  BY Zenon DEF Spares, Go, Inv, TypeOK
<1>2. ASSUME NEW p \in Proc, pstate'[p] = "RUNNABLE", Alive(p)' = {}, p # ProcOf(c)
      PROVE  pstate[p] = "RUNNABLE" /\ Alive(p) = {}
  <2>1. pstate[p] = "RUNNABLE"
    BY <1>2, Zenon DEF Spares
  <2>2. ASSUME NEW t \in Alive(p) PROVE FALSE
    <3>1. t \in ThreadsOf(p) /\ tstate[t] \notin {"UNUSED", "ZOMBIE"}
      BY <2>2, Zenon DEF Alive
    <3>2. t \in Thread /\ tproc(t) = p
      BY <3>1, ThreadsOfFacts, Zenon
    <3>3. tstate'[t] \notin {"UNUSED", "ZOMBIE"}
      BY <1>2, <3>1, <3>2, Zenon DEF Spares
    <3>4. t \in Alive(p)'
      BY <3>1, <3>3, Zenon DEF Alive
    <3> QED
      BY <1>2, <3>4, Zenon
  <2> QED
    BY <2>1, <2>2, Zenon
<1>3. LStep(c)
  BY <1>1, <1>2, Zenon DEF LStep, Spares
<1> QED
  BY <1>3, LStepKeeps, Zenon

(* A step of c's thread into the swtch, after which its process still has  *)
(* a thread.                                                               *)
Leaves(c) ==
  /\ frame[c].pc # "idle"
  /\ Go(c, "swtch", <<>>) /\ running' = running
  /\ \A t \in Thread : tstate[t] \notin {"UNUSED", "ZOMBIE"} /\ tproc(t) # ProcOf(c)
                          => tstate'[t] \notin {"UNUSED", "ZOMBIE"}
  /\ \A t \in Thread : \/ ctx'[t] = ctx[t] \/ ctx'[t].pc \notin Creating
                       \/ t = running[c] /\ ctx'[t] = frame[c]
  /\ \A p \in Proc \ {ProcOf(c)} : pstate'[p] = "RUNNABLE" => pstate[p] = "RUNNABLE"
  /\ \/ pstate'[ProcOf(c)] # "RUNNABLE"
     \/ \E t \in Thread : tproc(t) = ProcOf(c) /\ tstate'[t] \notin {"UNUSED", "ZOMBIE"}

LEMMA LeavesKeeps ==
  ASSUME Inv, LInv, NEW c \in CPU, Leaves(c)
  PROVE  LInv'
<1>1. /\ frame'[c].pc = "swtch"
      /\ \A d \in CPU \ {c} : frame'[d] = frame[d]
  BY Zenon DEF Leaves, Go, Inv, TypeOK
<1>2. ASSUME NEW p \in Proc, pstate'[p] = "RUNNABLE", Alive(p)' = {}
      PROVE  p # ProcOf(c) /\ pstate[p] = "RUNNABLE" /\ Alive(p) = {}
  <2>1. p # ProcOf(c)
    <3>1. SUFFICES ASSUME p = ProcOf(c) PROVE FALSE
      BY Zenon
    <3>2. PICK t \in Thread : tproc(t) = ProcOf(c) /\ tstate'[t] \notin {"UNUSED", "ZOMBIE"}
      BY <1>2, <3>1, Zenon DEF Leaves
    <3>3. t \in ThreadsOf(p)
      BY <3>1, <3>2, ThreadsOfFacts, Zenon
    <3>4. t \in Alive(p)'
      BY <3>2, <3>3, Zenon DEF Alive
    <3> QED
      BY <1>2, <3>4, Zenon
  <2>2. pstate[p] = "RUNNABLE"
    BY <1>2, <2>1, Zenon DEF Leaves
  <2>3. ASSUME NEW t \in Alive(p) PROVE FALSE
    <3>1. t \in ThreadsOf(p) /\ tstate[t] \notin {"UNUSED", "ZOMBIE"}
      BY <2>3, Zenon DEF Alive
    <3>2. t \in Thread /\ tproc(t) = p
      BY <3>1, ThreadsOfFacts, Zenon
    <3>3. tstate'[t] \notin {"UNUSED", "ZOMBIE"}
      BY <2>1, <3>1, <3>2, Zenon DEF Leaves
    <3>4. t \in Alive(p)'
      BY <3>1, <3>3, Zenon DEF Alive
    <3> QED
      BY <1>2, <3>4, Zenon
  <2> QED
    BY <2>1, <2>2, <2>3, Zenon
<1>3. LStep(c)
  BY <1>1, <1>2, Zenon DEF LStep, Leaves, Creating
<1> QED
  BY <1>3, LStepKeeps, Zenon

(* A step that only stops the kernel.                                      *)
LEMMA LSame ==
  ASSUME LInv, UNCHANGED <<procVars, threadVars, running, frame>>
  PROVE  LInv'
<1>1. CreatesOwn' /\ IdleFree'
  BY Zenon DEF LInv, CreatesOwn, IdleFree, ProcOf, procVars, threadVars
<1>2. ASSUME NEW p \in Proc, pstate'[p] = "RUNNABLE" PROVE Manned(p)'
  <2>1. Alive(p)' = Alive(p) /\ (Moving(p) => Moving(p)')
    BY Zenon DEF Alive, Moving, threadVars
  <2> QED
    BY <1>2, <2>1, Zenon DEF LInv, Manned, procVars
<1> QED
  BY <1>1, <1>2, Zenon DEF LInv

(* fork().                                                                 *)
LEMMA ForkMans == ASSUME Inv, LInv, NEW c \in CPU, Fork(c) PROVE LInv'
<1>1. ASSUME NEW np \in Proc, ForkAllocProc(c, np) PROVE LInv'
  <2>1. Spares(c, "fork_setup", <<np>>)
    BY <1>1, Zenon
       DEF ForkAllocProc, Spares, Go, Return, At, Creating, Call, procVars, threadVars, Inv, TypeOK
  <2> QED
    BY <2>1, SparesKeeps, Zenon
<1>2. ASSUME NEW i \in 1 .. NTHREAD, ForkSetup(c, i) PROVE LInv'
  <2>1. Spares(c, "fork_start", <<frame[c].arg[1], i>>)
    BY <1>2, Zenon
       DEF ForkSetup, UserFrame, Spares, Go, Return, At, Creating, Call, procVars, threadVars,
           Inv, TypeOK
  <2> QED
    BY <2>1, SparesKeeps, Zenon
<1>3. CASE ForkNoProc(c)
  <2>1. Spares(c, "ret", <<>>)
    BY <1>3, Zenon
       DEF ForkNoProc, Spares, Go, Return, At, Creating, Call, procVars, threadVars, Inv, TypeOK
  <2> QED
    BY <2>1, SparesKeeps, Zenon
<1>4. CASE ForkNoStack(c)
  <2>1. Spares(c, "ret", <<>>)
    BY <1>4, Zenon
       DEF ForkNoStack, Spares, Go, Return, At, Creating, Call, procVars, threadVars, Inv, TypeOK
  <2> QED
    BY <2>1, SparesKeeps, Zenon
<1>5. CASE ForkNoMemory(c)
  <2>1. Spares(c, "ret", <<>>)
    BY <1>5, Zenon
       DEF ForkNoMemory, Spares, Go, Return, At, Creating, Call, procVars, threadVars, Inv, TypeOK
  <2> QED
    BY <2>1, SparesKeeps, Zenon
<1>6. CASE ForkStart(c)
  <2>1. frame[c].pc = "fork_start" /\ frame[c].arg \in Thread
    BY <1>6, Args, Zenon DEF ForkStart, At, Away, Scan
  <2>2. PICK t \in Thread : t = frame[c].arg
    BY <2>1, Zenon
  <2>3. /\ tproc(t) \in Proc /\ t \in ThreadsOf(tproc(t))
        /\ tstate' = [tstate EXCEPT ![t] = "RUNNABLE"]
        /\ pstate' = [pstate EXCEPT ![tproc(t)] = "RUNNABLE"]
    BY <1>6, <2>2, ThreadFacts, ThreadsOfFacts, Zenon DEF ForkStart
  <2>4. t \in Alive(tproc(t))'
    BY <2>3, Zenon DEF Alive, Inv, TypeOK
  <2>5. \A p \in Proc : pstate'[p] = "RUNNABLE" => pstate[p] = "RUNNABLE" \/ Alive(p)' # {}
    BY <2>3, <2>4, Zenon DEF Inv, TypeOK
  <2>6. Spares(c, "ret", <<>>)
    BY <1>6, <2>1, <2>3, <2>5, Zenon DEF ForkStart, Return, Spares, Creating, Inv, TypeOK
  <2> QED
    BY <2>6, SparesKeeps, Zenon
<1> QED
  BY <1>1, <1>2, <1>3, <1>4, <1>5, <1>6, Zenon DEF Fork

(* exit().                                                                 *)
LEMMA ExitMans == ASSUME Inv, LInv, NEW c \in CPU, Exit(c) PROVE LInv'
<1>1. CASE ExitInit(c)
  BY <1>1, LSame, Zenon DEF ExitInit
<1>2. CASE ExitFiles(c)
  <2>1. Spares(c, "exit_cwd", <<>>)
    BY <1>2, Zenon
       DEF ExitFiles, Spares, Go, Return, At, Creating, Call, procVars, threadVars, Inv, TypeOK
  <2> QED
    BY <2>1, SparesKeeps, Zenon
<1>3. CASE NullInode(c)
  BY <1>3, LSame, Zenon DEF NullInode
<1>4. CASE ExitTable(c)
  <2>1. Leaves(c)
    BY <1>4, Runs, Zenon
       DEF ExitTable, wakeup1, Doomed, NoFrame, Leaves, Go, Return, At, Creating, Call, procVars,
           threadVars, Inv, TypeOK
  <2> QED
    BY <2>1, LeavesKeeps, Zenon
<1>5. CASE ExitCwd(c)
  <2>1. Spares(c, "exit_table", <<>>)
    BY <1>5, Zenon
       DEF ExitCwd, Spares, Go, Return, At, Creating, Call, procVars, threadVars, Inv, TypeOK
  <2> QED
    BY <2>1, SparesKeeps, Zenon
<1> QED
  BY <1>1, <1>2, <1>3, <1>4, <1>5, Zenon DEF Exit

(* wait().                                                                 *)
LEMMA WaitMans == ASSUME Inv, LInv, NEW c \in CPU, Wait(c) PROVE LInv'
<1>1. ASSUME NEW q \in Proc, WaitReap(c, q) PROVE LInv'
  <2>1. Spares(c, "ret", <<>>)
    BY <1>1, Zenon
       DEF WaitReap, InWait, Spares, Go, Return, At, Creating, Call, procVars, threadVars, Inv,
           TypeOK
  <2> QED
    BY <2>1, SparesKeeps, Zenon
<1>2. ASSUME NEW q \in Proc, WaitPanic(c, q) PROVE LInv'
  BY <1>2, LSame, Zenon DEF WaitPanic
<1>3. CASE WaitNone(c)
  <2>1. Spares(c, "ret", <<>>)
    BY <1>3, Zenon
       DEF WaitNone, InWait, Spares, Go, Return, At, Creating, Call, procVars, threadVars, Inv,
           TypeOK
  <2> QED
    BY <2>1, SparesKeeps, Zenon
<1>4. CASE WaitSleep(c)
  <2>1. Leaves(c)
    BY <1>4, Runs, Zenon
       DEF WaitSleep, InWait, SleepOn, ProcOf, Leaves, Go, Return, At, Creating, Call,
           procVars, threadVars, Inv, TypeOK
  <2> QED
    BY <2>1, LeavesKeeps, Zenon
<1> QED
  BY <1>1, <1>2, <1>3, <1>4, Zenon DEF Wait

(* kthread_create().                                                       *)
LEMMA CreateMans == ASSUME Inv, LInv, NEW c \in CPU, Create(c) PROVE LInv'
<1>1. ASSUME NEW i \in 1 .. NTHREAD, CreateAlloc(c, i) PROVE LInv'
  <2>1. Spares(c, "create_stack", <<ProcOf(c), i>>)
    BY <1>1, Runs, ThreadFacts, Zenon
       DEF CreateAlloc, Spares, Go, Return, At, Creating, Call, procVars, threadVars, Inv, TypeOK
  <2> QED
    BY <2>1, SparesKeeps, Zenon
<1>2. CASE CreateNoThread(c)
  <2>1. Spares(c, "ret", <<>>)
    BY <1>2, Zenon
       DEF CreateNoThread, Spares, Go, Return, At, Creating, Call, procVars, threadVars, Inv, TypeOK
  <2> QED
    BY <2>1, SparesKeeps, Zenon
<1>3. CASE CreateStack(c)
  <2>1. Spares(c, "create_start", frame[c].arg)
    BY <1>3, Zenon
       DEF CreateStack, UserFrame, LInv, CreatesOwn, Spares, Go, Return, At, Creating, Call,
           procVars, threadVars, Inv, TypeOK
  <2> QED
    BY <2>1, SparesKeeps, Zenon
<1>4. CASE CreateNoStack(c)
  <2>1. Spares(c, "ret", <<>>)
    BY <1>4, Zenon
       DEF CreateNoStack, LInv, CreatesOwn, Spares, Go, Return, At, Creating, Call, procVars,
           threadVars, Inv, TypeOK
  <2> QED
    BY <2>1, SparesKeeps, Zenon
<1>5. CASE CreateStart(c)
  <2>1. Spares(c, "ret", <<>>)
    BY <1>5, Zenon
       DEF CreateStart, Spares, Go, Return, At, Creating, Call, procVars, threadVars, Inv, TypeOK
  <2> QED
    BY <2>1, SparesKeeps, Zenon
<1> QED
  BY <1>1, <1>2, <1>3, <1>4, <1>5, Zenon DEF Create

(* kthread_exit().                                                         *)
LEMMA KExitMans == ASSUME Inv, LInv, NEW c \in CPU, KExit(c) PROVE LInv'
<1>1. CASE KExitMark(c)
  <2>1. Spares(c, "kexit_sched", <<>>)
    BY <1>1, Zenon
       DEF KExitMark, ProcOf, Spares, Go, Return, At, Creating, Call, procVars, threadVars,
           Inv, TypeOK
  <2> QED
    BY <2>1, SparesKeeps, Zenon
<1>2. CASE KExitSched(c)
  <2>1. running[c] \in Thread /\ ProcOf(c) = tproc(running[c]) /\ ProcOf(c) \in Proc
    BY <1>2, Runs, Zenon DEF KExitSched, At, ProcOf
  <2>2. \A t \in Thread : tstate[t] \notin {"UNUSED", "ZOMBIE"}
          => tstate'[t] \notin {"UNUSED", "ZOMBIE"}
    BY <1>2, Zenon DEF KExitSched, wakeup1
  <2>3. CASE OthersGone(running[c])
    <3>1. Spares(c, "exit", <<>>)
      BY <1>2, <2>2, <2>3, Zenon DEF KExitSched, Spares, At, Creating, procVars
    <3> QED
      BY <3>1, SparesKeeps, Zenon
  <2>4. CASE ~OthersGone(running[c])
    <3>1. PICK t \in ThreadsOf(ProcOf(c)) : tstate[t] \notin {"UNUSED", "ZOMBIE"}
      BY <2>1, <2>4, Zenon DEF OthersGone, Alive
    <3>2. t \in Thread /\ tproc(t) = ProcOf(c)
      BY <2>1, <3>1, ThreadsOfFacts, Zenon
    <3>3. Leaves(c)
      BY <1>2, <2>1, <2>2, <2>4, <3>1, <3>2, Zenon
         DEF KExitSched, NoFrame, Leaves, At, Creating, procVars, Inv, TypeOK
    <3> QED
      BY <3>3, LeavesKeeps, Zenon
  <2> QED
    BY <2>3, <2>4, Zenon
<1> QED
  BY <1>1, <1>2, Zenon DEF KExit

(* kthread_join().                                                         *)
LEMMA JoinMans == ASSUME Inv, LInv, NEW c \in CPU, Join(c) PROVE LInv'
<1>1. ASSUME NEW t \in Thread, JoinReap(c, t) PROVE LInv'
  <2>1. Spares(c, "ret", <<>>)
    BY <1>1, Zenon
       DEF JoinReap, InJoin, Spares, Go, Return, At, Creating, Call, procVars, threadVars, Inv,
           TypeOK
  <2> QED
    BY <2>1, SparesKeeps, Zenon
<1>2. ASSUME NEW t \in Thread, JoinUnused(c, t) PROVE LInv'
  <2>1. Spares(c, "ret", <<>>)
    BY <1>2, Zenon
       DEF JoinUnused, InJoin, Spares, Go, Return, At, Creating, Call, procVars, threadVars,
           Inv, TypeOK
  <2> QED
    BY <2>1, SparesKeeps, Zenon
<1>3. ASSUME NEW t \in Thread, JoinBlock(c, t) PROVE LInv'
  <2>1. Spares(c, "join_sleep", t)
    BY <1>3, Zenon
       DEF JoinBlock, InJoin, Spares, Go, Return, At, Creating, Call, procVars, threadVars,
           Inv, TypeOK
  <2> QED
    BY <2>1, SparesKeeps, Zenon
<1>4. CASE JoinSleep(c)
  <2>1. Leaves(c)
    BY <1>4, Runs, Zenon
       DEF JoinSleep, SleepReleasing, SleepOn, ProcOf, Leaves, Go, Return, At, Creating, Call,
           procVars, threadVars, Inv, TypeOK
  <2> QED
    BY <2>1, LeavesKeeps, Zenon
<1> QED
  BY <1>1, <1>2, <1>3, <1>4, Zenon DEF Join

(* exec().                                                                 *)
LEMMA ExecMans == ASSUME Inv, LInv, NEW c \in CPU, Exec(c) PROVE LInv'
<1>1. CASE ExecBegin(c)
  <2>1. PICK l \in Scan : l = IF At(c, "exec") THEN "exec_scan" ELSE "exec_alive"
    BY Zenon DEF Scan
  <2>2. Spares(c, l, <<ProcOf(c), 1>>)
    BY <1>1, <2>1, Zenon DEF ExecBegin, Spares, Scan, At, Creating, threadVars
  <2> QED
    BY <2>2, SparesKeeps, Zenon
<1>2. ASSUME NEW alive, frame[c].pc \in Scan, ScanOn(c, alive),
             running' = running, pstate' = pstate, ctx' = ctx,
             \A t \in Thread : tstate[t] \notin {"UNUSED", "ZOMBIE"}
                                 => tstate'[t] \notin {"UNUSED", "ZOMBIE"}
      PROVE  LInv'
  <2>1. PICK l \in Scan \cup {"exec_sleep", "ret"},
             a \in {<<>>, <<ProcOf(c), frame[c].arg[2] + 1>>} : Go(c, l, a)
    BY <1>2, Zenon DEF ScanOn, Return, Scan
  <2>2. Spares(c, l, a)
    BY <1>2, <2>1, Zenon DEF Spares, Scan, Creating
  <2> QED
    BY <2>2, SparesKeeps, Zenon
<1>4. CASE ExecSkip(c)
  <2>1. frame[c].pc \in Scan
    BY <1>4, Zenon DEF ExecSkip, Scanning, At, Scan
  <2> QED
    BY <1>2, <1>4, <2>1, Zenon DEF ExecSkip, threadVars
<1>5. CASE ExecReap(c)
  <2>1. frame[c].pc \in Scan
    BY <1>5, Zenon DEF ExecReap, Scanning, At, Scan
  <2>2. \A t \in Thread : tstate[t] \notin {"UNUSED", "ZOMBIE"}
          => tstate'[t] \notin {"UNUSED", "ZOMBIE"}
    BY <1>5, Zenon DEF ExecReap, Looked, Inv, TypeOK
  <2> QED
    BY <1>2, <1>5, <2>1, <2>2, Zenon DEF ExecReap
<1>6. CASE ExecAlive(c)
  <2>1. frame[c].pc \in Scan
    BY <1>6, Zenon DEF ExecAlive, Scanning, At, Scan
  <2> QED
    BY <1>2, <1>6, <2>1, Zenon DEF ExecAlive, threadVars
<1>7. CASE ExecAsleep(c)
  <2>1. Spares(c, "exec_wake", frame[c].arg)
    BY <1>7, Zenon DEF ExecAsleep, Scanning, Spares, At, Creating, procVars, threadVars
  <2> QED
    BY <2>1, SparesKeeps, Zenon
<1>8. CASE ExecWake(c)
  <2>1. frame[c].pc \in Scan
    BY <1>8, Zenon DEF ExecWake, At, Scan
  <2>2. \A t \in Thread : tstate[t] \notin {"UNUSED", "ZOMBIE"}
          => tstate'[t] \notin {"UNUSED", "ZOMBIE"}
    BY <1>8, Zenon DEF ExecWake, Inv, TypeOK
  <2> QED
    BY <1>2, <1>8, <2>1, <2>2, Zenon DEF ExecWake
<1>3. CASE ExecSleep(c)
  <2>1. Leaves(c)
    BY <1>3, Runs, Zenon
       DEF ExecSleep, SleepReleasing, SleepOn, ProcOf, Leaves, Go, Return, At, Creating, Call,
           procVars, threadVars, Inv, TypeOK
  <2> QED
    BY <2>1, LeavesKeeps, Zenon
<1> QED
  BY <1>1, <1>3, <1>4, <1>5, <1>6, <1>7, <1>8, Zenon DEF Exec

(* trap() and kill().                                                      *)
LEMMA TrapMans ==
  ASSUME Inv, LInv, NEW c \in CPU,
         \/ (\E q \in Victims : Kill(c, q)) \/ SysReturn(c) \/ TrapDying(c) \/ DeadRuns(c)
         \/ User(c) \/ Tick(c) \/ Yield(c)
  PROVE  LInv'
<1>1. ASSUME NEW q \in Victims, Kill(c, q) PROVE LInv'
  <2>1. Spares(c, "ret", <<>>)
    BY <1>1, Zenon
       DEF Kill, Spares, Go, Return, At, Creating, Call, procVars, threadVars, Inv, TypeOK
  <2> QED
    BY <2>1, SparesKeeps, Zenon
<1>2. CASE SysReturn(c)
  <2>1. Spares(c, "user", <<>>)
    BY <1>2, Zenon
       DEF SysReturn, Spares, Go, Return, At, Creating, Call, procVars, threadVars, Inv, TypeOK
  <2> QED
    BY <2>1, SparesKeeps, Zenon
<1>3. CASE TrapDying(c)
  <2>1. Spares(c, "exit", <<>>)
    BY <1>3, Zenon
       DEF TrapDying, Spares, Go, Return, At, Creating, Call, procVars, threadVars, Inv, TypeOK
  <2> QED
    BY <2>1, SparesKeeps, Zenon
<1>4. CASE UserFault(c)
  <2>1. Spares(c, "exit", <<>>)
    BY <1>4, Zenon
       DEF UserFault, Spares, Go, Return, At, Creating, Call, procVars, threadVars, Inv, TypeOK
  <2> QED
    BY <2>1, SparesKeeps, Zenon
<1>5. ASSUME NEW call \in Call, SysEnter(c, call) PROVE LInv'
  <2>1. Spares(c, call, <<>>)
    BY <1>5, Zenon
       DEF SysEnter, Spares, Go, Return, At, Creating, Call, procVars, threadVars, Inv, TypeOK
  <2> QED
    BY <2>1, SparesKeeps, Zenon
<1>6. CASE Yield(c)
  <2>1. Leaves(c)
    BY <1>6, Runs, Zenon
       DEF Yield, Preemptible, ProcOf, Leaves, Go, Return, At, Creating, Call, procVars,
           threadVars, Inv, TypeOK
  <2> QED
    BY <2>1, LeavesKeeps, Zenon
<1>7. CASE Tick(c)
  <2>1. Spares(c, "yield", <<>>)
    BY <1>7, Runs, Zenon
       DEF Tick, Preemptible, Spares, Creating, procVars, Inv, TypeOK
  <2> QED
    BY <2>1, SparesKeeps, Zenon
<1>8. CASE DeadRuns(c)
  BY <1>8, LSame, Zenon DEF DeadRuns
<1> QED
  BY <1>1, <1>2, <1>3, <1>4, <1>5, <1>6, <1>7, <1>8, Zenon DEF User

(* The two ends of a context switch.  A CPU that is switched out was not   *)
(* what kept its process going.                                            *)
LEMMA SwtchMans == ASSUME Inv, LInv, NEW c \in CPU, Swtch(c) PROVE LInv'
<1>1. /\ frame'[c].pc = "idle" /\ running'[c] = NoThread /\ frame[c].pc = "swtch"
      /\ \A d \in CPU \ {c} : frame'[d] = frame[d] /\ running'[d] = running[d]
      /\ ctx' = ctx /\ tstate' = tstate /\ pstate' = pstate
  BY Zenon DEF Swtch, Go, At, Inv, TypeOK, threadVars, procVars
<1>2. CreatesOwn'
  BY <1>1, Zenon DEF LInv, CreatesOwn, ProcOf, Creating
<1>3. IdleFree'
  BY <1>1, Zenon DEF LInv, IdleFree
<1>4. ASSUME NEW p \in Proc, pstate'[p] = "RUNNABLE" PROVE Manned(p)'
  <2>1. Alive(p)' = Alive(p)
    BY <1>1, Zenon DEF Alive
  <2>2. Moving(p) => Moving(p)'
    BY <1>1, Zenon DEF Moving
  <2> QED
    BY <1>1, <1>4, <2>1, <2>2, Zenon DEF LInv, Manned
<1> QED
  BY <1>2, <1>3, <1>4, Zenon DEF LInv

LEMMA DispatchMans ==
  ASSUME Inv, LInv, NEW c \in CPU, NEW t \in Thread, Dispatch(c, t)
  PROVE  LInv'
<1>1. /\ frame'[c] = ctx[t] /\ running'[c] = t /\ frame[c].pc = "idle"
      /\ \A d \in CPU \ {c} : frame'[d] = frame[d] /\ running'[d] = running[d]
      /\ pstate' = pstate /\ ctx[t].pc # "idle"
      /\ ctx'[t].pc \notin Creating /\ \A u \in Thread \ {t} : ctx'[u] = ctx[u]
      /\ \A u \in Thread : tstate[u] \notin {"UNUSED", "ZOMBIE"} => tstate'[u] \notin {"UNUSED", "ZOMBIE"}
  BY Zenon DEF Dispatch, NoFrame, Creating, At, Inv, TypeOK, CtxOK, procVars
<1>2. CreatesOwn'
  <2>1. ASSUME NEW d \in CPU, frame'[d].pc \in Creating PROVE tproc(frame'[d].arg) = ProcOf(d)'
    BY <1>1, <2>1, ZenonT(60) DEF LInv, CreatesOwn, ProcOf
  <2>2. ASSUME NEW u \in Thread, ctx'[u].pc \in Creating PROVE tproc(ctx'[u].arg) = tproc(u)
    BY <1>1, <2>2, Zenon DEF LInv, CreatesOwn
  <2> QED
    BY <2>1, <2>2, Zenon DEF CreatesOwn
<1>3. IdleFree'
  BY <1>1, Zenon DEF LInv, IdleFree
<1>4. ASSUME NEW p \in Proc, pstate'[p] = "RUNNABLE" PROVE Manned(p)'
  <2>1. ASSUME NEW u \in Alive(p) PROVE u \in Alive(p)'
    <3>1. u \in ThreadsOf(p) /\ u \in Thread /\ tstate[u] \notin {"UNUSED", "ZOMBIE"}
      BY <2>1, Zenon DEF Alive, ThreadsOf, Thread
    <3> QED
      BY <1>1, <3>1, Zenon DEF Alive
  <2>2. Moving(p) => Moving(p)'
    <3>1. NoThread \notin ThreadsOf(p)
      BY DEF NoThread, ThreadsOf
    <3> QED
      BY <1>1, <3>1, ZenonT(60) DEF Moving, LInv, IdleFree
  <2> QED
    BY <1>1, <1>4, <2>1, <2>2, Zenon DEF LInv, Manned
<1> QED
  BY <1>2, <1>3, <1>4, Zenon DEF LInv

LEMMA LInvStep == Inv /\ LInv /\ [Next]_vars => LInv'
<1> SUFFICES ASSUME Inv, LInv, [Next]_vars PROVE LInv'
  BY Zenon
<1>1. CASE UNCHANGED vars
  BY <1>1, LSame, Zenon DEF vars
<1>2. CASE Dangling
  BY <1>2, LSame, Zenon DEF Dangling
<1>3. ASSUME NEW c \in CPU, Step(c) PROVE LInv'
  BY <1>3, ForkMans, ExitMans, WaitMans, CreateMans, KExitMans, JoinMans, ExecMans, TrapMans,
     SwtchMans, DispatchMans, Zenon DEF Step, Kernel
<1> QED
  BY <1>1, <1>2, <1>3, Zenon DEF Next

LEMMA LInvInit == Init => LInv
<1> SUFFICES ASSUME Init PROVE LInv
  BY Zenon
<1>1. CreatesOwn /\ IdleFree
  BY Zenon DEF Init, CreatesOwn, IdleFree, Creating, UserFrame
<1>2. ASSUME NEW p \in Proc, pstate[p] = "RUNNABLE" PROVE Manned(p)
  <2>1. p = initproc /\ <<initproc, 1>> \in Thread /\ <<initproc, 1>> \in ThreadsOf(p)
    BY <1>2, SizesAssumption DEF Init, Thread, ThreadsOf, initproc, Proc
  <2>2. tstate[<<initproc, 1>>] = "RUNNABLE"
    BY <2>1, Zenon DEF Init
  <2> QED
    BY <2>1, <2>2, Zenon DEF Manned, Alive
<1> QED
  BY <1>1, <1>2, Zenon DEF LInv

(* A process whose threads leave through kthread_exit is ended by the last *)
(* of them, on any number of CPUs, with any number of threads and whatever *)
(* calls they make meanwhile: no process stays RUNNABLE with nobody to run *)
(* it.                                                                     *)
THEOREM ProcTableLastThread == Spec => []LastThreadExits
<1>1. Spec => []LInv
  BY LInvInit, LInvStep, Invariance, PTL DEF Spec
<1>2. LInv => LastThreadExits
  BY Zenon DEF LInv, LastThreadExits, Manned, Moving
<1> QED
  BY <1>1, <1>2, PTL

-----------------------------------------------------------------------------
(* Programs that start no threads.  StackInUse, DeadMeansDead and          *)
(* ZombieHasParent fail once a process has a second thread (its siblings   *)
(* outlive exit, and a joiner frees a stack that is still in use), and     *)
(* NoMissedExit rests on them; they are what the kernel promises the       *)
(* programs it had before threads came.                                    *)
SoloCalls == {"fork", "exit", "wait", "kill", "exec"}
SoloPrograms == Calls \subseteq SoloCalls /\ InitCalls \subseteq SoloCalls

(* The inductive invariant.  A process uses the first of its thread slots; *)
(* what that slot and the memory of the process look like follows from the *)
(* state of the process.                                                   *)
SoloPC == SoloCalls \cup {"idle", "user", "ret", "swtch", "dead", "fork_setup", "fork_start",
                          "yield", "exit_cwd", "exit_table", "wait_again", "exec_scan"}
main(p) == <<p, 1>>
SoloPlace(t, f) ==
  /\ f.pc \in SoloPC /\ (f.pc = "fork_start" => f.arg = main(tproc(f.arg)))
  /\ f.pc \in {"fork_setup", "fork_start"} => t = main(tproc(t))
  /\ f.pc \in {"exit_cwd", "exit_table"} => tproc(t) # initproc
  /\ f.pc = "exec_scan" => tproc(f.arg) = tproc(t)
OneThread ==
  /\ \A c \in CPU : SoloPlace(running[c], frame[c])
  /\ \A t \in Thread : SoloPlace(t, ctx[t]) /\ (t # main(tproc(t)) => tstate[t] = "UNUSED")
Slot(p) ==
  /\ pstate[p] = "UNUSED" => tstate[main(p)] \in {"UNUSED", "ZOMBIE"}
  /\ pstate[p] = "EMBRYO" => tstate[main(p)] \in {"UNUSED", "EMBRYO"}
  /\ pstate[p] = "RUNNABLE" => tstate[main(p)] \in {"SLEEPING", "RUNNABLE", "RUNNING"}
  /\ pstate[p] = "ZOMBIE" => tstate[main(p)] = "ZOMBIE"
  /\ pstate[p] \in {"RUNNABLE", "ZOMBIE"} => kstack[main(p)] /\ pgdir[p]

(* A CPU runs a process that is alive, or on its last way out, and no      *)
(* other CPU runs it too.  Its thread has left a context only if it is on  *)
(* its way through yield() or sched().                                     *)
Runner(c) ==
  /\ running[c] = main(ProcOf(c))
  /\ pstate[ProcOf(c)] \in {"RUNNABLE", "ZOMBIE"}
  /\ frame[c].pc = "swtch" <=> tstate[running[c]] # "RUNNING"
  /\ frame[c].pc \notin {"yield", "swtch"} => ctx[running[c]].pc = "dead"
OneCPU == \A c, d \in CPU : running[c] = running[d] /\ running[c] # NoThread => c = d

(* A thread inside fork(), on a CPU or switched out, owns the new process. *)
Stands(t, l, a) ==
  \/ \E c \in CPU : running[c] = t /\ frame[c].pc = l /\ frame[c].arg = a
  \/ ctx[t].pc = l /\ ctx[t].arg = a
SetsUp(t, q) == Stands(t, "fork_setup", <<q>>)
Starts(t, q) == Stands(t, "fork_start", main(q))
Forks(t, q) == SetsUp(t, q) \/ Starts(t, q)
Child(t, q) ==
  /\ pstate[q] = "EMBRYO"
  /\ SetsUp(t, q) => tstate[main(q)] = "UNUSED"
  /\ Starts(t, q) => /\ tstate[main(q)] = "EMBRYO" /\ ctx[main(q)].pc = "user"
                     /\ kstack[main(q)] /\ pgdir[q] /\ parent[q] = tproc(t)
  /\ \A u \in Thread : Forks(u, q) => u = t
Forking == \A t \in Thread, q \in Proc : Forks(t, q) => Child(t, q)

(* Every process but init has a live parent, and who sleeps in wait() does *)
(* so on its own process and has no ZOMBIE to reap.                        *)
HasParent(p) == parent[p] \in Proc \ {p} /\ pstate[parent[p]] = "RUNNABLE"
Parents ==
  /\ pstate[initproc] = "RUNNABLE"
  /\ \A p \in Proc : pstate[p] = "ZOMBIE" \/ (pstate[p] = "RUNNABLE" /\ p # initproc) => HasParent(p)
Sleepers ==
  \A t \in Thread : tstate[t] = "SLEEPING" =>
    ctx[t].pc = "wait_again" /\ chan[t] = <<tproc(t)>> /\ DeadKids(tproc(t)) = {}

SInv == /\ OneThread /\ (\A p \in Proc : Slot(p))
        /\ (\A c \in CPU : frame[c].pc # "idle" => Runner(c)) /\ OneCPU
        /\ Forking /\ Parents /\ Sleepers

LEMMA MainFacts ==
  /\ \A p \in Proc : main(p) \in Thread /\ tproc(main(p)) = p /\ main(p) # NoThread
  /\ \A p, q \in Proc : main(p) = main(q) => p = q
  BY SizesAssumption DEF main, Thread, tproc, Proc, NoThread

(* The properties follow.                                                  *)
LEMMA SoloSafe ==
  ASSUME Inv, LInv, SInv
  PROVE  StackInUse /\ DeadMeansDead /\ ZombieHasParent /\ NoMissedExit
<1>1. ASSUME NEW c \in CPU, running[c] # NoThread PROVE kstack[running[c]] /\ pgdir[ProcOf(c)]
  <2>1. frame[c].pc # "idle"
    BY <1>1, Zenon DEF LInv, IdleFree
  <2>2. ProcOf(c) \in Proc /\ Runner(c)
    BY <2>1, Runs, Zenon DEF SInv
  <2> QED
    BY <2>2, Zenon DEF SInv, Slot, Runner
<1>2. StackInUse
  BY <1>1, Zenon DEF StackInUse, SInv, OneCPU
<1>3. ASSUME NEW p \in Proc, pstate[p] = "ZOMBIE", NEW t \in ThreadsOf(p)
      PROVE  tstate[t] \in {"UNUSED", "ZOMBIE"}
  <2>1. t \in Thread /\ tproc(t) = p
    BY <1>3, ThreadsOfFacts, Zenon
  <2>2. CASE t = main(p)
    BY <1>3, <2>2, Zenon DEF SInv, Slot
  <2>3. CASE t # main(p)
    BY <2>1, <2>3, Zenon DEF SInv, OneThread
  <2> QED
    BY <2>2, <2>3, Zenon
<1>4. DeadMeansDead
  BY <1>3, Zenon DEF DeadMeansDead, Alive
<1>5. ZombieHasParent
  BY Zenon DEF ZombieHasParent, SInv, Parents, HasParent
<1>6. NoMissedExit
  BY Zenon DEF NoMissedExit, SInv, Sleepers
<1> QED
  BY <1>2, <1>4, <1>5, <1>6, Zenon

(* What a CPU in the kernel or in user space knows of its process.         *)
LEMMA Acting ==
  ASSUME Inv, SInv, NEW c \in CPU, frame[c].pc \notin {"idle", "swtch"}
  PROVE  /\ ProcOf(c) \in Proc /\ running[c] = main(ProcOf(c)) /\ running[c] \in Thread
         /\ tproc(running[c]) = ProcOf(c)
         /\ tstate[running[c]] = "RUNNING" /\ pstate[ProcOf(c)] = "RUNNABLE"
         /\ \A d \in CPU \ {c} : running[d] # running[c]
         /\ frame[c].pc # "yield" => ctx[running[c]].pc = "dead"
<1>1. ProcOf(c) \in Proc /\ running[c] \in Thread /\ Runner(c) /\ tproc(running[c]) = ProcOf(c)
  BY Runs, Zenon DEF SInv, ProcOf
<1>2. running[c] = main(ProcOf(c)) /\ tstate[running[c]] = "RUNNING"
  BY <1>1, Zenon DEF Runner
<1>3. pstate[ProcOf(c)] = "RUNNABLE"
  BY <1>1, <1>2, Zenon DEF SInv, Slot, Runner
<1>4. running[c] # NoThread
  BY <1>1, ThreadFacts, Zenon
<1>5. frame[c].pc # "yield" => ctx[running[c]].pc = "dead"
  BY <1>1, Zenon DEF Runner
<1> QED
  BY <1>1, <1>2, <1>3, <1>4, <1>5, Zenon DEF SInv, OneCPU

(* A slot nobody touches.                                                  *)
LEMMA SlotSame ==
  ASSUME NEW p \in Proc, SInv, pstate'[p] = pstate[p], pgdir'[p] = pgdir[p],
         tstate'[main(p)] = tstate[main(p)], kstack'[main(p)] = kstack[main(p)]
  PROVE  Slot(p)'
  BY Zenon DEF SInv, Slot, main

(* fork()'s owners stay as they are if no thread gets into fork() and      *)
(* nobody touches what they own.                                           *)
ForkSame ==
  /\ \A t \in Thread, q \in Proc : SetsUp(t, q)' => SetsUp(t, q)
  /\ \A t \in Thread, q \in Proc : Starts(t, q)' => Starts(t, q)
OwnedSame ==
  \A t \in Thread, q \in Proc : Forks(t, q)' /\ Child(t, q) =>
    /\ pstate'[q] = "EMBRYO" /\ tstate'[main(q)] = tstate[main(q)]
    /\ Starts(t, q) => /\ ctx'[main(q)].pc = "user" /\ kstack'[main(q)]
                       /\ pgdir'[q] /\ parent'[q] = tproc(t)
LEMMA ForkingKept ==
  ASSUME Forking, ForkSame, OwnedSame
  PROVE  Forking'
<1>1. ASSUME NEW t \in Thread, NEW q \in Proc, Forks(t, q)' PROVE Child(t, q)'
  <2>1. Forks(t, q) /\ Child(t, q)
    BY <1>1, Zenon DEF Forks, ForkSame, Forking
  <2>2. /\ pstate'[q] = "EMBRYO" /\ tstate'[main(q)] = tstate[main(q)]
        /\ Starts(t, q) => /\ ctx'[main(q)].pc = "user" /\ kstack'[main(q)]
                           /\ pgdir'[q] /\ parent'[q] = tproc(t)
    BY <1>1, <2>1, Zenon DEF OwnedSame
  <2>3. SetsUp(t, q)' => tstate'[main(q)] = "UNUSED"
    BY <2>1, <2>2, Zenon DEF ForkSame, Child
  <2>4. Starts(t, q)' => Starts(t, q) /\ tstate'[main(q)] = "EMBRYO"
    BY <2>1, <2>2, Zenon DEF ForkSame, Child
  <2>5. \A u \in Thread : Forks(u, q)' => u = t
    BY <2>1, Zenon DEF ForkSame, Forks, Child
  <2> QED
    BY <2>2, <2>3, <2>4, <2>5, Zenon DEF Child, main, tproc
<1> QED
  BY <1>1, Zenon DEF Forking

LEMMA SleepersKept ==
  ASSUME Sleepers,
         \A t \in Thread : tstate'[t] = "SLEEPING" =>
           tstate[t] = "SLEEPING" /\ ctx'[t] = ctx[t] /\ chan'[t] = chan[t],
         \A q \in Proc : pstate'[q] = "ZOMBIE" => pstate[q] = "ZOMBIE" /\ parent'[q] = parent[q]
  PROVE  Sleepers'
<1>1. ASSUME NEW t \in Thread, tstate'[t] = "SLEEPING", NEW q \in DeadKids(tproc(t))' PROVE FALSE
  <2>1. q \in DeadKids(tproc(t))
    BY <1>1, Zenon DEF DeadKids, Kids, tproc
  <2> QED
    BY <1>1, <2>1, Zenon DEF Sleepers
<1>2. ASSUME NEW t \in Thread, tstate'[t] = "SLEEPING" PROVE DeadKids(tproc(t))' = {}
  BY <1>1, <1>2, Zenon
<1> QED
  BY <1>2, Zenon DEF Sleepers

(* Only c's frame changes, inside or out of the kernel, and nobody gets    *)
(* into fork().                                                            *)
Local(c, l, a) ==
  /\ frame[c].pc \notin {"idle", "yield", "swtch"}
  /\ l \in SoloPC \ {"idle", "yield", "swtch", "fork_setup", "fork_start"}
  /\ l \in {"exit_cwd", "exit_table"} => ProcOf(c) # initproc
  /\ l = "exec_scan" => tproc(a) = ProcOf(c)
  /\ Go(c, l, a)
  /\ UNCHANGED <<pstate, parent, pgdir, tstate, chan, kstack, ctx, running>>
LEMMA LocalKeeps ==
  ASSUME Inv, SInv, NEW c \in CPU, NEW l, NEW a, Local(c, l, a)
  PROVE  SInv'
<1>1. /\ frame'[c].pc = l /\ frame'[c].arg = a
      /\ l \in SoloPC \ {"idle", "yield", "swtch", "fork_setup", "fork_start"}
      /\ \A d \in CPU \ {c} : frame'[d] = frame[d]
      /\ pstate' = pstate /\ parent' = parent /\ pgdir' = pgdir /\ tstate' = tstate
      /\ chan' = chan /\ kstack' = kstack /\ ctx' = ctx /\ running' = running
  BY Zenon DEF Local, Go, Inv, TypeOK
<1>2. OneThread'
  <2>1. SoloPlace(running'[c], frame'[c])
    BY <1>1, Zenon DEF SoloPlace, Local, ProcOf
  <2> QED
    BY <1>1, <2>1, Zenon DEF SInv, OneThread
<1>3. \A p \in Proc : Slot(p)'
  BY <1>1, Zenon DEF SInv, Slot
<1>4. ASSUME NEW d \in CPU, frame'[d].pc # "idle" PROVE Runner(d)'
  <2>1. Runner(c) /\ frame[c].pc \notin {"yield", "swtch"}
    BY Zenon DEF Local, SInv
  <2>2. CASE d = c
    BY <1>1, <2>1, <2>2, Zenon DEF Runner, ProcOf
  <2>3. CASE d # c
    <3>1. Runner(d) /\ frame'[d] = frame[d]
      BY <1>1, <1>4, <2>3, Zenon DEF SInv
    <3> QED
      BY <1>1, <3>1, Zenon DEF Runner, ProcOf
  <2> QED
    BY <2>2, <2>3, Zenon
<1>5. OneCPU'
  BY <1>1, Zenon DEF SInv, OneCPU
<1>6. Forking'
  <2>1. ForkSame
    BY <1>1, Zenon DEF ForkSame, SetsUp, Starts, Stands
  <2>2. OwnedSame
    BY <1>1, Zenon DEF OwnedSame, Child
  <2> QED
    BY <2>1, <2>2, ForkingKept, Zenon DEF SInv
<1>7. Parents' /\ Sleepers'
  <2>1. Parents'
    BY <1>1, Zenon DEF SInv, Parents, HasParent
  <2>2. Sleepers'
    BY <1>1, Zenon DEF SInv, Sleepers, DeadKids, Kids
  <2> QED
    BY <2>1, <2>2, Zenon
<1> QED
  BY <1>2, <1>3, <1>4, <1>5, <1>6, <1>7, Zenon DEF SInv

(* A thread of a living process goes to yield(), or to the swtch, RUNNABLE *)
(* or asleep in wait(); the context it leaves keeps its place.             *)
Parks(c) ==
  LET t == running[c] IN
  /\ frame[c].pc \notin {"idle", "swtch"}
  /\ \A d \in CPU \ {c} : frame'[d] = frame[d]
  /\ UNCHANGED <<pstate, parent, pgdir, kstack, running>>
  /\ \A u \in Thread \ {t} : tstate'[u] = tstate[u] /\ ctx'[u] = ctx[u] /\ chan'[u] = chan[u]
  /\ SoloPlace(t, ctx'[t])
  /\ ctx'[t].pc \in {"fork_setup", "fork_start"} => ctx'[t] \in {frame[c], ctx[t]}
  /\ \/ frame'[c].pc = "yield" /\ tstate'[t] = "RUNNING"
     \/ frame'[c].pc = "swtch" /\ tstate'[t] = "RUNNABLE"
     \/ /\ frame'[c].pc = "swtch" /\ tstate'[t] = "SLEEPING" /\ ctx'[t].pc = "wait_again"
        /\ chan'[t] = <<ProcOf(c)>> /\ DeadKids(ProcOf(c)) = {}
LEMMA ParksKeeps == ASSUME Inv, SInv, NEW c \in CPU, Parks(c) PROVE SInv'
<1> DEFINE t == running[c]
<1>1. /\ frame[c].pc \notin {"idle", "swtch"}
      /\ frame'[c].pc \in {"yield", "swtch"} /\ \A d \in CPU \ {c} : frame'[d] = frame[d]
      /\ pstate' = pstate /\ parent' = parent /\ pgdir' = pgdir
      /\ kstack' = kstack /\ running' = running
  BY Zenon DEF Parks
<1>2. /\ ProcOf(c) \in Proc /\ t = main(ProcOf(c)) /\ t \in Thread /\ tproc(t) = ProcOf(c)
      /\ tstate[t] = "RUNNING" /\ pstate[ProcOf(c)] = "RUNNABLE"
      /\ \A d \in CPU \ {c} : running[d] # t
  BY <1>1, Acting, Zenon
<1>3. /\ tstate'[t] \in {"RUNNING", "RUNNABLE", "SLEEPING"}
      /\ frame'[c].pc = "swtch" <=> tstate'[t] # "RUNNING"
      /\ \A u \in Thread \ {t} : tstate'[u] = tstate[u] /\ ctx'[u] = ctx[u] /\ chan'[u] = chan[u]
      /\ ctx'[t].pc \in {"fork_setup", "fork_start"} => ctx'[t] \in {frame[c], ctx[t]}
      /\ tstate'[t] = "SLEEPING" => /\ ctx'[t].pc = "wait_again"
                                   /\ chan'[t] = <<ProcOf(c)>> /\ DeadKids(ProcOf(c)) = {}
  BY Zenon DEF Parks
<1>4. SoloPlace(t, ctx'[t])
  BY Zenon DEF Parks
<1> HIDE DEF t
<1>5. OneThread'
  <2>1. SoloPlace(running'[c], frame'[c])
    BY <1>1, Zenon DEF SoloPlace, SoloPC
  <2>2. ASSUME NEW u \in Thread, u # main(tproc(u)) PROVE tstate'[u] = "UNUSED"
    BY <1>2, <1>3, <2>2, Zenon DEF SInv, OneThread
  <2> QED
    BY <1>1, <1>3, <1>4, <2>1, <2>2, Zenon DEF SInv, OneThread
<1>6. ASSUME NEW p \in Proc PROVE Slot(p)'
  <2>1. CASE p = ProcOf(c)
    BY <1>1, <1>2, <1>3, <2>1, Zenon DEF SInv, Slot
  <2>2. CASE p # ProcOf(c)
    <3>1. main(p) \in Thread /\ main(p) # t
      BY <1>2, <2>2, MainFacts, Zenon
    <3> QED
      BY <1>1, <1>3, <3>1, SlotSame, Zenon
  <2> QED
    BY <2>1, <2>2, Zenon
<1>7. ASSUME NEW d \in CPU, frame'[d].pc # "idle" PROVE Runner(d)'
  <2>1. CASE d = c
    BY <1>1, <1>2, <1>3, <2>1, Zenon DEF Runner, ProcOf, t
  <2>2. CASE d # c
    <3>1. Runner(d) /\ running[d] \in Thread /\ running[d] # t
      BY <1>1, <1>2, <1>7, <2>2, Runs, Zenon DEF SInv
    <3> QED
      BY <1>1, <1>3, <2>2, <3>1, Zenon DEF Runner, ProcOf
  <2> QED
    BY <2>1, <2>2, Zenon
<1>8. OneCPU'
  BY <1>1, Zenon DEF SInv, OneCPU
<1>9. Forking'
  <2>1. ASSUME NEW u \in Thread, NEW l \in {"fork_setup", "fork_start"}, NEW a, Stands(u, l, a)'
        PROVE  Stands(u, l, a)
    <3>1. CASE \E d \in CPU : running'[d] = u /\ frame'[d].pc = l /\ frame'[d].arg = a
      BY <1>1, <2>1, <3>1, Zenon DEF Stands
    <3>2. CASE ctx'[u].pc = l /\ ctx'[u].arg = a
      <4>1. CASE u = t
        BY <1>3, <2>1, <3>2, <4>1, Zenon DEF Stands, t
      <4>2. CASE u # t
        BY <1>3, <3>2, <4>2, Zenon DEF Stands
      <4> QED
        BY <4>1, <4>2, Zenon
    <3> QED
      BY <2>1, <3>1, <3>2, Zenon DEF Stands
  <2>2. ForkSame
    BY <2>1, Zenon DEF ForkSame, SetsUp, Starts, main
  <2>3. OwnedSame
    <3>1. ASSUME NEW q \in Proc, pstate[q] = "EMBRYO" PROVE main(q) \in Thread /\ main(q) # t
      BY <1>2, <3>1, MainFacts, Zenon
    <3> QED
      BY <1>1, <1>3, <3>1, Zenon DEF OwnedSame, Child
  <2> QED
    BY <2>2, <2>3, ForkingKept, Zenon DEF SInv
<1>10. Parents'
  BY <1>1, Zenon DEF SInv, Parents, HasParent
<1>11. Sleepers'
  <2>1. \A p : DeadKids(p)' = DeadKids(p)
    BY <1>1, Zenon DEF DeadKids, Kids
  <2>2. ASSUME NEW u \in Thread, tstate'[u] = "SLEEPING"
        PROVE  ctx'[u].pc = "wait_again" /\ chan'[u] = <<tproc(u)>> /\ DeadKids(tproc(u)) = {}
    <3>1. CASE u = t
      BY <1>2, <1>3, <2>2, <3>1, Zenon
    <3>2. CASE u # t
      BY <1>3, <2>2, <3>2, Zenon DEF SInv, Sleepers
    <3> QED
      BY <3>1, <3>2, Zenon
  <2> QED
    BY <2>1, <2>2, Zenon DEF Sleepers, tproc
<1> QED
  BY <1>5, <1>6, <1>7, <1>8, <1>9, <1>10, <1>11, Zenon DEF SInv

(* A clock tick, and yield().                                              *)
LEMMA TickSolo == ASSUME Inv, SInv, NEW c \in CPU, Tick(c) PROVE SInv'
<1>1. frame[c].pc \notin {"idle", "swtch"} /\ tstate[running[c]] = "RUNNING"
  BY Zenon DEF Tick, Preemptible
<1>2. running[c] \in Thread
  BY <1>1, Acting, Zenon
<1>3. /\ \A u \in Thread : tstate'[u] = tstate[u]
      /\ \A u \in Thread \ {running[c]} : ctx'[u] = ctx[u] /\ chan'[u] = chan[u]
      /\ ctx'[running[c]] =
          IF frame[c].pc = "user" THEN [pc |-> "ret", arg |-> <<>>] ELSE frame[c]
      /\ frame'[c].pc = "yield" /\ \A d \in CPU \ {c} : frame'[d] = frame[d]
      /\ UNCHANGED <<pstate, parent, pgdir, kstack, running>>
  BY <1>2, Zenon DEF Tick, Inv, TypeOK, At, Go, procVars
<1>4. SoloPlace(running[c], [pc |-> "ret", arg |-> <<>>]) /\ SoloPlace(running[c], frame[c])
  BY Zenon DEF SoloPlace, SoloPC, SInv, OneThread
<1>5. /\ SoloPlace(running[c], ctx'[running[c]])
      /\ ctx'[running[c]].pc \in {"fork_setup", "fork_start"} => ctx'[running[c]] = frame[c]
  BY <1>3, <1>4
<1> QED
  BY <1>1, <1>2, <1>3, <1>5, ParksKeeps, Zenon DEF Parks
LEMMA YieldSolo == ASSUME Inv, SInv, NEW c \in CPU, Yield(c) PROVE SInv'
<1>1. frame[c].pc \notin {"idle", "swtch"}
  BY Zenon DEF Yield, At
<1>2. running[c] \in Thread
  BY <1>1, Acting, Zenon
<1>3. /\ tstate'[running[c]] = "RUNNABLE"
      /\ \A u \in Thread \ {running[c]} : tstate'[u] = tstate[u]
      /\ ctx' = ctx /\ chan' = chan
      /\ frame'[c].pc = "swtch" /\ \A d \in CPU \ {c} : frame'[d] = frame[d]
      /\ UNCHANGED <<pstate, parent, pgdir, kstack, running>>
  BY <1>2, Zenon DEF Yield, Inv, TypeOK, Go, procVars
<1>4. SoloPlace(running[c], ctx[running[c]])
  BY <1>2, Zenon DEF SInv, OneThread
<1> QED
  BY <1>1, <1>3, <1>4, ParksKeeps, Zenon DEF Parks

(* The sleep of wait().                                                    *)
LEMMA WaitSleepSolo == ASSUME Inv, SInv, NEW c \in CPU, WaitSleep(c) PROVE SInv'
<1>1. frame[c].pc \notin {"idle", "swtch"} /\ DeadKids(ProcOf(c)) = {}
  BY Zenon DEF WaitSleep, InWait, At
<1>2. running[c] \in Thread /\ SleepOn(c, <<ProcOf(c)>>, "wait_again", <<>>)
  BY <1>1, Acting, Zenon DEF WaitSleep
<1>3. /\ tstate'[running[c]] = "SLEEPING" /\ chan'[running[c]] = <<ProcOf(c)>>
      /\ \A u \in Thread \ {running[c]} : tstate'[u] = tstate[u] /\ ctx'[u] = ctx[u] /\ chan'[u] = chan[u]
      /\ ctx'[running[c]] = [pc |-> "wait_again", arg |-> <<>>]
      /\ frame'[c].pc = "swtch" /\ \A d \in CPU \ {c} : frame'[d] = frame[d]
  BY <1>2, Zenon DEF SleepOn, Inv, TypeOK, Go
<1>4. UNCHANGED <<pstate, parent, pgdir, kstack, running>>
  BY Zenon DEF WaitSleep, procVars
<1>5. /\ SoloPlace(running[c], ctx'[running[c]]) /\ ctx'[running[c]].pc = "wait_again"
      /\ ctx'[running[c]].pc \notin {"fork_setup", "fork_start"}
  BY <1>3 DEF SoloPlace, SoloPC
<1> QED
  BY <1>1, <1>3, <1>4, <1>5, ParksKeeps, Zenon DEF Parks

(* The two ends of a context switch.                                       *)
LEMMA SwtchSolo == ASSUME Inv, LInv, SInv, NEW c \in CPU, Swtch(c) PROVE SInv'
<1>1. /\ frame'[c].pc = "idle" /\ running'[c] = NoThread /\ frame[c].pc = "swtch"
      /\ \A d \in CPU \ {c} : frame'[d] = frame[d] /\ running'[d] = running[d]
      /\ pstate' = pstate /\ parent' = parent /\ pgdir' = pgdir /\ tstate' = tstate
      /\ chan' = chan /\ kstack' = kstack /\ ctx' = ctx
  BY Zenon DEF Swtch, Go, At, Inv, TypeOK, threadVars, procVars
<1>2. OneThread'
  <2>1. SoloPlace(running'[c], frame'[c])
    BY <1>1, Zenon DEF SoloPlace, SoloPC
  <2> QED
    BY <1>1, <2>1, Zenon DEF SInv, OneThread
<1>3. \A p \in Proc : Slot(p)'
  BY <1>1, Zenon DEF SInv, Slot
<1>4. ASSUME NEW d \in CPU, frame'[d].pc # "idle" PROVE Runner(d)'
  <2>1. Runner(d) /\ frame'[d] = frame[d] /\ running'[d] = running[d]
    BY <1>1, <1>4, Zenon DEF SInv
  <2> QED
    BY <1>1, <2>1, Zenon DEF Runner, ProcOf
<1>5. OneCPU'
  BY <1>1, Zenon DEF SInv, OneCPU
<1>6. Forking'
  <2>1. ForkSame
    BY <1>1, Zenon DEF ForkSame, SetsUp, Starts, Stands
  <2>2. OwnedSame
    BY <1>1, Zenon DEF OwnedSame, Child
  <2> QED
    BY <2>1, <2>2, ForkingKept, Zenon DEF SInv
<1>7. Parents' /\ Sleepers'
  <2>1. Parents'
    BY <1>1, Zenon DEF SInv, Parents, HasParent
  <2>2. Sleepers'
    BY <1>1, Zenon DEF SInv, Sleepers, DeadKids, Kids
  <2> QED
    BY <2>1, <2>2, Zenon
<1> QED
  BY <1>2, <1>3, <1>4, <1>5, <1>6, <1>7, Zenon DEF SInv

LEMMA DispatchSolo ==
  ASSUME Inv, LInv, SInv, NEW c \in CPU, NEW t \in Thread, Dispatch(c, t)
  PROVE  SInv'
<1>1. /\ frame'[c] = ctx[t] /\ running'[c] = t /\ frame[c].pc = "idle" /\ ptl = NoCPU
      /\ \A d \in CPU \ {c} : frame'[d] = frame[d] /\ running'[d] = running[d]
      /\ pstate' = pstate /\ parent' = parent /\ pgdir' = pgdir /\ kstack' = kstack
      /\ ctx[t].pc \notin {"idle", "yield", "swtch"} /\ ctx'[t] = NoFrame
      /\ \A u \in Thread \ {t} : ctx'[u] = ctx[u]
      /\ tstate[t] = "RUNNABLE" /\ tstate'[t] = "RUNNING"
      /\ \A u \in Thread \ {t} : tstate'[u] = tstate[u] /\ chan'[u] = chan[u]
  BY Zenon DEF Dispatch, At, Inv, TypeOK, CtxOK, procVars
<1>2. t = main(tproc(t)) /\ tproc(t) \in Proc /\ pstate[tproc(t)] = "RUNNABLE"
  <2>1. t = main(tproc(t)) /\ tproc(t) \in Proc
    BY <1>1, ThreadFacts, Zenon DEF SInv, OneThread
  <2>2. pstate[tproc(t)] \in ProcState /\ Slot(tproc(t))
    BY <2>1, Zenon DEF Inv, TypeOK, SInv
  <2> QED
    BY <1>1, <2>1, <2>2, Zenon DEF Slot, ProcState
<1>3. ASSUME NEW d \in CPU, running[d] = t PROVE FALSE
  <2>1. frame[d].pc # "idle" /\ Runner(d)
    BY <1>3, ThreadFacts, Zenon DEF LInv, IdleFree, SInv
  <2>2. frame[d].pc = "swtch"
    BY <1>1, <1>3, <2>1, Zenon DEF Runner
  <2> QED
    BY <1>1, <2>2, LockFacts, CPUAssumption, Zenon DEF Sched
<1>4. OneThread' /\ NoFrame.pc = "dead"
  <2>1. SoloPlace(t, NoFrame) /\ NoFrame.pc = "dead"
    BY DEF SoloPlace, SoloPC, NoFrame
  <2>2. ASSUME NEW d \in CPU PROVE SoloPlace(running'[d], frame'[d])
    <3>1. SoloPlace(t, ctx[t]) /\ SoloPlace(running[d], frame[d])
      BY Zenon DEF SInv, OneThread
    <3>2. CASE d = c
      BY <1>1, <3>1, <3>2, Zenon
    <3>3. CASE d # c
      BY <1>1, <3>1, <3>3, Zenon
    <3> QED
      BY <3>2, <3>3, Zenon
  <2>3. ASSUME NEW u \in Thread PROVE SoloPlace(u, ctx'[u]) /\ (u # main(tproc(u)) => tstate'[u] = "UNUSED")
    <3>1. SoloPlace(u, ctx[u]) /\ (u # main(tproc(u)) => tstate[u] = "UNUSED")
      BY Zenon DEF SInv, OneThread
    <3>2. CASE u = t
      BY <1>1, <1>2, <2>1, <3>2, Zenon
    <3>3. CASE u # t
      BY <1>1, <3>1, <3>3, Zenon
    <3> QED
      BY <3>2, <3>3, Zenon
  <2> QED
    BY <2>1, <2>2, <2>3, Zenon DEF OneThread
<1>5. ASSUME NEW p \in Proc PROVE Slot(p)'
  <2>1. CASE p = tproc(t)
    BY <1>1, <1>2, <2>1, Zenon DEF SInv, Slot
  <2>2. CASE p # tproc(t)
    <3>1. main(p) \in Thread /\ main(p) # t
      BY <1>2, <2>2, MainFacts, Zenon
    <3> QED
      BY <1>1, <3>1, SlotSame, Zenon
  <2> QED
    BY <2>1, <2>2, Zenon
<1>6. ASSUME NEW d \in CPU, frame'[d].pc # "idle" PROVE Runner(d)'
  <2>1. CASE d = c
    BY <1>1, <1>2, <1>4, <2>1, Zenon DEF Runner, ProcOf
  <2>2. CASE d # c
    <3>1. Runner(d) /\ running[d] \in Thread /\ running[d] # t
      BY <1>1, <1>3, <1>6, <2>2, Runs, Zenon DEF SInv
    <3>2. /\ tstate'[running[d]] = tstate[running[d]] /\ ctx'[running[d]] = ctx[running[d]]
          /\ frame'[d] = frame[d] /\ running'[d] = running[d] /\ pstate' = pstate
      BY <1>1, <2>2, <3>1, Zenon
    <3> QED
      BY <3>1, <3>2, Zenon DEF Runner, ProcOf
  <2> QED
    BY <2>1, <2>2, Zenon
<1>7. OneCPU'
  <2>1. ASSUME NEW d \in CPU, NEW e \in CPU, running'[d] = running'[e], running'[d] # NoThread
        PROVE  d = e
    <3>1. CASE d = c
      BY <1>1, <1>3, <2>1, <3>1, Zenon
    <3>2. CASE e = c
      BY <1>1, <1>3, <2>1, <3>2, Zenon
    <3>3. CASE d # c /\ e # c
      BY <1>1, <2>1, <3>3, ZenonT(60) DEF SInv, OneCPU
    <3> QED
      BY <3>1, <3>2, <3>3, Zenon
  <2> QED
    BY <2>1, Zenon DEF OneCPU
<1>8. Forking'
  <2>1. ASSUME NEW u \in Thread, NEW l \in {"fork_setup", "fork_start"}, NEW a, Stands(u, l, a)'
        PROVE  Stands(u, l, a)
    <3>1. CASE \E d \in CPU : running'[d] = u /\ frame'[d].pc = l /\ frame'[d].arg = a
      <4>1. PICK d \in CPU : running'[d] = u /\ frame'[d].pc = l /\ frame'[d].arg = a
        BY <3>1, Zenon
      <4>2. CASE d = c
        BY <1>1, <4>1, <4>2, Zenon DEF Stands
      <4>3. CASE d # c
        BY <1>1, <4>1, <4>3, Zenon DEF Stands
      <4> QED
        BY <4>2, <4>3, Zenon
    <3>2. CASE ctx'[u].pc = l /\ ctx'[u].arg = a
      <4>1. u # t
        BY <1>1, <1>4, <2>1, <3>2, Zenon
      <4> QED
        BY <1>1, <3>2, <4>1, Zenon DEF Stands
    <3> QED
      BY <2>1, <3>1, <3>2, Zenon DEF Stands
  <2>2. ForkSame
    BY <2>1, Zenon DEF ForkSame, SetsUp, Starts, main
  <2>3. OwnedSame
    <3>1. ASSUME NEW q \in Proc, pstate[q] = "EMBRYO" PROVE main(q) \in Thread /\ main(q) # t
      BY <1>2, <3>1, MainFacts, Zenon
    <3> QED
      BY <1>1, <3>1, Zenon DEF OwnedSame, Child
  <2> QED
    BY <2>2, <2>3, ForkingKept, Zenon DEF SInv
<1>9. Parents'
  BY <1>1, Zenon DEF SInv, Parents, HasParent
<1>10. Sleepers'
  <2>1. \A u \in Thread : tstate'[u] = "SLEEPING" =>
           tstate[u] = "SLEEPING" /\ ctx'[u] = ctx[u] /\ chan'[u] = chan[u]
    BY <1>1, Zenon
  <2> QED
    BY <1>1, <2>1, SleepersKept, Zenon DEF SInv
<1> QED
  BY <1>4, <1>5, <1>6, <1>7, <1>8, <1>9, <1>10, Zenon DEF SInv

(* allocproc takes a free slot, which nobody runs or owns.                 *)
LEMMA ForkAllocSolo ==
  ASSUME Inv, LInv, SInv, NEW c \in CPU, NEW np \in Proc, ForkAllocProc(c, np)
  PROVE  SInv'
<1>1. /\ frame[c].pc = "fork" /\ frame'[c].pc = "fork_setup" /\ frame'[c].arg = <<np>>
      /\ \A d \in CPU \ {c} : frame'[d] = frame[d]
      /\ pstate[np] = "UNUSED" /\ pstate'[np] = "EMBRYO"
      /\ \A p \in Proc \ {np} : pstate'[p] = pstate[p]
      /\ \A t \in Thread : tstate'[t] = IF tproc(t) = np THEN "UNUSED" ELSE tstate[t]
      /\ parent' = parent /\ pgdir' = pgdir /\ kstack' = kstack /\ ctx' = ctx /\ chan' = chan
      /\ running' = running
  BY Zenon DEF ForkAllocProc, Go, At, Inv, TypeOK
<1>2. /\ ProcOf(c) \in Proc /\ running[c] = main(ProcOf(c)) /\ running[c] \in Thread
      /\ tproc(running[c]) = ProcOf(c)
      /\ tstate[running[c]] = "RUNNING" /\ pstate[ProcOf(c)] = "RUNNABLE"
      /\ \A d \in CPU \ {c} : running[d] # running[c]
  BY <1>1, Acting, Zenon
<1>3. ASSUME NEW t \in Thread, tproc(t) # np PROVE tstate'[t] = tstate[t]
  BY <1>1, <1>3, Zenon
<1>4. ASSUME NEW t \in Thread, tproc(t) = np PROVE tstate'[t] = "UNUSED"
  BY <1>1, <1>4, Zenon
<1>5. ASSUME NEW d \in CPU, frame[d].pc # "idle"
      PROVE  Runner(d) /\ running[d] \in Thread /\ tproc(running[d]) # np
  <2>1. Runner(d) /\ running[d] \in Thread
    BY <1>5, Runs, Zenon DEF SInv
  <2>2. tproc(running[d]) # np
    BY <1>1, <2>1, Zenon DEF Runner, ProcOf
  <2> QED
    BY <2>1, <2>2, Zenon
<1>6. OneThread'
  <2>1. SoloPlace(running'[c], frame'[c])
    BY <1>1, <1>2, Zenon DEF SoloPlace, SoloPC
  <2>2. ASSUME NEW t \in Thread, t # main(tproc(t)) PROVE tstate'[t] = "UNUSED"
    BY <1>3, <1>4, <2>2, Zenon DEF SInv, OneThread
  <2> QED
    BY <1>1, <2>1, <2>2, Zenon DEF SInv, OneThread
<1>7. ASSUME NEW p \in Proc PROVE Slot(p)'
  <2>1. main(p) \in Thread /\ tproc(main(p)) = p
    BY MainFacts, Zenon
  <2>2. CASE p = np
    BY <1>1, <1>4, <2>1, <2>2, Zenon DEF Slot
  <2>3. CASE p # np
    BY <1>1, <1>3, <2>1, <2>3, SlotSame, Zenon
  <2> QED
    BY <2>2, <2>3, Zenon
<1>8. ASSUME NEW d \in CPU, frame'[d].pc # "idle" PROVE Runner(d)'
  <2>1. /\ frame[d].pc # "idle" /\ (frame'[d].pc = "swtch" <=> frame[d].pc = "swtch")
        /\ frame'[d].pc = "yield" <=> frame[d].pc = "yield"
    BY <1>1, <1>8, Zenon
  <2>2. Runner(d) /\ running[d] \in Thread /\ tproc(running[d]) # np /\ tproc(running[d]) \in Proc
    BY <1>1, <1>5, <1>8, ThreadFacts, Zenon
  <2> QED
    BY <1>1, <1>3, <2>1, <2>2, Zenon DEF Runner, ProcOf
<1>9. OneCPU'
  BY <1>1, Zenon DEF SInv, OneCPU
<1>10. Forking'
  <2>1. ASSUME NEW t \in Thread, NEW q \in Proc, SetsUp(t, q)', ~(t = running[c] /\ q = np)
        PROVE  SetsUp(t, q)
    <3>1. CASE \E d \in CPU : running'[d] = t /\ frame'[d].pc = "fork_setup" /\ frame'[d].arg = <<q>>
      <4>1. PICK d \in CPU : running'[d] = t /\ frame'[d].pc = "fork_setup" /\ frame'[d].arg = <<q>>
        BY <3>1, Zenon
      <4>2. d # c
        BY <1>1, <2>1, <4>1
      <4> QED
        BY <1>1, <4>1, <4>2, Zenon DEF SetsUp, Stands
    <3>2. CASE ctx'[t].pc = "fork_setup" /\ ctx'[t].arg = <<q>>
      BY <1>1, <3>2, Zenon DEF SetsUp, Stands
    <3> QED
      BY <2>1, <3>1, <3>2, Zenon DEF SetsUp, Stands
  <2>2. ASSUME NEW t \in Thread, NEW q \in Proc, Starts(t, q)' PROVE Starts(t, q)
    <3>1. CASE \E d \in CPU : running'[d] = t /\ frame'[d].pc = "fork_start" /\ frame'[d].arg = main(q)
      BY <1>1, <3>1, Zenon DEF Starts, Stands
    <3>2. CASE ctx'[t].pc = "fork_start" /\ ctx'[t].arg = main(q)
      BY <1>1, <3>2, Zenon DEF Starts, Stands
    <3> QED
      BY <2>2, <3>1, <3>2, Zenon DEF Starts, Stands, main
  <2>3. ASSUME NEW t \in Thread, Forks(t, np) PROVE FALSE
    BY <1>1, <2>3, Zenon DEF SInv, Forking, Child
  <2>4. ASSUME NEW t \in Thread, NEW q \in Proc, Forks(t, q)' PROVE Child(t, q)'
    <3>1. CASE q = np
      <4>1. t = running[c] /\ \A u \in Thread : Forks(u, q)' => u = t
        BY <2>1, <2>2, <2>3, <2>4, <3>1, Zenon DEF Forks
      <4>2. ~Starts(t, q)'
        BY <2>2, <2>3, <3>1, Zenon DEF Forks
      <4>3. pstate'[q] = "EMBRYO" /\ tstate'[main(q)] = "UNUSED"
        BY <1>1, <1>4, <3>1, MainFacts, Zenon
      <4> QED
        BY <4>1, <4>2, <4>3, Zenon DEF Child, main
    <3>2. CASE q # np
      <4>1. Forks(t, q) /\ Child(t, q) /\ \A u \in Thread : Forks(u, q)' => Forks(u, q)
        BY <2>1, <2>2, <2>4, <3>2, Zenon DEF SInv, Forking, Forks
      <4>2. (SetsUp(t, q)' => SetsUp(t, q)) /\ (Starts(t, q)' => Starts(t, q))
        BY <2>1, <2>2, <3>2, Zenon
      <4>3. main(q) \in Thread /\ tstate'[main(q)] = tstate[main(q)]
        BY <1>3, <3>2, MainFacts, Zenon
      <4> QED
        BY <1>1, <3>2, <4>1, <4>2, <4>3, Zenon DEF Child, main, tproc
    <3> QED
      BY <3>1, <3>2, Zenon
  <2> QED
    BY <2>4, Zenon DEF Forking
<1>11. Parents'
  <2>1. initproc # np
    BY <1>1, Zenon DEF SInv, Parents
  <2>2. ASSUME NEW p \in Proc, HasParent(p) PROVE HasParent(p)'
    BY <1>1, <2>2, Zenon DEF HasParent
  <2>3. ASSUME NEW p \in Proc, pstate'[p] = "ZOMBIE" \/ (pstate'[p] = "RUNNABLE" /\ p # initproc)
        PROVE  HasParent(p)'
    BY <1>1, <2>2, <2>3, Zenon DEF SInv, Parents
  <2> QED
    BY <1>1, <2>1, <2>3, ThreadFacts, Zenon DEF SInv, Parents
<1>12. Sleepers'
  <2>1. \A t \in Thread : tstate'[t] = "SLEEPING" => tstate[t] = "SLEEPING"
    BY <1>3, <1>4, Zenon
  <2>2. \A q \in Proc : pstate'[q] = "ZOMBIE" => pstate[q] = "ZOMBIE"
    BY <1>1, Zenon
  <2> QED
    BY <1>1, <2>1, <2>2, SleepersKept, Zenon DEF SInv
<1> QED
  BY <1>6, <1>7, <1>8, <1>9, <1>10, <1>11, <1>12, Zenon DEF SInv

(* What a CPU inside fork() owns: nobody runs it and nobody else forks it. *)
LEMMA SettingUp ==
  ASSUME Inv, SInv, NEW c \in CPU, frame[c].pc = "fork_setup"
  PROVE  \E np \in Proc : /\ frame[c].arg = <<np>> /\ np = frame[c].arg[1]
                          /\ SetsUp(running[c], np) /\ Child(running[c], np) /\ np # ProcOf(c)
<1>1. PICK np \in Proc : frame[c].arg = <<np>>
  BY Zenon DEF Inv, FramesOK, ArgOK
<1>2. np = frame[c].arg[1]
  BY <1>1
<1>3. running[c] \in Thread /\ pstate[ProcOf(c)] = "RUNNABLE"
  BY Acting, Zenon
<1>4. SetsUp(running[c], np)
  BY <1>1, Zenon DEF SetsUp, Stands
<1>5. Child(running[c], np)
  BY <1>3, <1>4, Zenon DEF SInv, Forking, Forks
<1>6. np # ProcOf(c)
  BY <1>3, <1>5, Zenon DEF Child
<1> QED
  BY <1>1, <1>2, <1>4, <1>5, <1>6, Zenon
LEMMA Starting ==
  ASSUME Inv, SInv, NEW c \in CPU, frame[c].pc = "fork_start"
  PROVE  \E np \in Proc : /\ frame[c].arg = main(np)
                          /\ Starts(running[c], np) /\ Child(running[c], np) /\ np # ProcOf(c)
<1>1. frame[c].arg \in Thread /\ frame[c].arg = main(tproc(frame[c].arg))
  BY Args, Zenon DEF Away, Scan, SInv, OneThread, SoloPlace
<1>2. PICK np \in Proc : np = tproc(frame[c].arg)
  BY <1>1, ThreadFacts, Zenon
<1>3. running[c] \in Thread /\ pstate[ProcOf(c)] = "RUNNABLE" /\ frame[c].arg = main(np)
  BY <1>1, <1>2, Acting, Zenon
<1>4. Starts(running[c], np)
  BY <1>3, Zenon DEF Starts, Stands
<1>5. Child(running[c], np)
  BY <1>3, <1>4, Zenon DEF SInv, Forking, Forks
<1>6. np # ProcOf(c)
  BY <1>3, <1>5, Zenon DEF Child
<1> QED
  BY <1>3, <1>4, <1>5, <1>6, Zenon

(* Whoever runs is not the thread of a process being made or unused.      *)
LEMMA Unowned ==
  ASSUME Inv, SInv, NEW c \in CPU, frame[c].pc # "idle", NEW q \in Proc,
         pstate[q] \notin {"RUNNABLE", "ZOMBIE"}
  PROVE  /\ Runner(c) /\ running[c] \in Thread /\ ProcOf(c) \in Proc /\ running[c] # main(q)
         /\ ProcOf(c) # q
<1>1. Runner(c) /\ running[c] \in Thread /\ ProcOf(c) \in Proc
  BY Runs, Zenon DEF SInv
<1>2. ProcOf(c) # q
  BY <1>1, Zenon DEF Runner
<1> QED
  BY <1>1, <1>2, MainFacts, Zenon DEF Runner

(* The rest of allocproc and the copy: the new process gets its thread,    *)
(* its memory and its parent.                                              *)
LEMMA ForkSetupSolo ==
  ASSUME Inv, LInv, SInv, NEW c \in CPU, NEW i \in 1 .. NTHREAD, ForkSetup(c, i)
  PROVE  SInv'
<1>1. frame[c].pc = "fork_setup"
  BY Zenon DEF ForkSetup, At
<1>2. /\ ProcOf(c) \in Proc /\ running[c] = main(ProcOf(c)) /\ running[c] \in Thread
      /\ tproc(running[c]) = ProcOf(c)
      /\ tstate[running[c]] = "RUNNING" /\ pstate[ProcOf(c)] = "RUNNABLE"
      /\ \A d \in CPU \ {c} : running[d] # running[c]
      /\ ctx[running[c]].pc = "dead"
  BY <1>1, Acting, Zenon
<1>3. PICK np \in Proc : /\ frame[c].arg = <<np>> /\ np = frame[c].arg[1]
                         /\ SetsUp(running[c], np) /\ Child(running[c], np) /\ np # ProcOf(c)
  BY <1>1, SettingUp, Zenon
<1>4. pstate[np] = "EMBRYO" /\ tstate[main(np)] = "UNUSED" /\ \A u \in Thread : Forks(u, np)
        => u = running[c]
  BY <1>3, Zenon DEF Child
<1>5. <<np, i>> = main(np)
  <2>1. FirstFree(np, i)
    BY <1>3, Zenon DEF ForkSetup
  <2>2. i = 1
    BY <1>4, <2>1 DEF FirstFree, main
  <2> QED
    BY <2>2, Zenon DEF main
<1>6. main(np) \in Thread /\ tproc(main(np)) = np /\ main(np) # running[c]
  BY <1>2, <1>3, MainFacts, Zenon
<1>7. /\ frame'[c].pc = "fork_start" /\ frame'[c].arg = main(np)
      /\ \A d \in CPU \ {c} : frame'[d] = frame[d]
      /\ pstate' = pstate /\ chan' = chan /\ running' = running
      /\ tstate'[main(np)] = "EMBRYO" /\ kstack'[main(np)] /\ ctx'[main(np)] = UserFrame
      /\ \A t \in Thread \ {main(np)} : tstate'[t] = tstate[t] /\ kstack'[t] = kstack[t] /\ ctx'[t] = ctx[t]
      /\ pgdir'[np] /\ parent'[np] = ProcOf(c)
      /\ \A p \in Proc \ {np} : pgdir'[p] = pgdir[p] /\ parent'[p] = parent[p]
      /\ ctx'[main(np)].pc = "user"
  <2>1. UserFrame.pc = "user"
    BY DEF UserFrame
  <2> QED
    BY <1>3, <1>5, <1>6, <2>1, Zenon DEF ForkSetup, Go, Inv, TypeOK
<1>8. OneThread'
  <2>1. SoloPlace(running'[c], frame'[c])
    BY <1>2, <1>6, <1>7, ZenonT(60) DEF SoloPlace, SoloPC
  <2>3. SoloPlace(main(np), ctx'[main(np)])
    BY <1>7, Zenon DEF SoloPlace, SoloPC
  <2>2. ASSUME NEW t \in Thread, t # main(tproc(t)) PROVE tstate'[t] = "UNUSED"
    BY <1>6, <1>7, <2>2, Zenon DEF SInv, OneThread
  <2> QED
    BY <1>7, <2>1, <2>2, <2>3, ZenonT(60) DEF SInv, OneThread
<1>9. ASSUME NEW p \in Proc PROVE Slot(p)'
  <2>1. CASE p = np
    BY <1>4, <1>7, <2>1, Zenon DEF Slot
  <2>2. CASE p # np
    <3>1. main(p) \in Thread \ {main(np)}
      BY <2>2, MainFacts, Zenon
    <3> QED
      BY <1>7, <2>2, <3>1, SlotSame, Zenon
  <2> QED
    BY <2>1, <2>2, Zenon
<1>10. ASSUME NEW d \in CPU, frame'[d].pc # "idle" PROVE Runner(d)'
  <2>1. /\ frame[d].pc # "idle" /\ (frame'[d].pc = "swtch" <=> frame[d].pc = "swtch")
        /\ frame'[d].pc = "yield" <=> frame[d].pc = "yield"
    BY <1>1, <1>7, <1>10, Zenon
  <2>2. Runner(d) /\ running[d] \in Thread \ {main(np)}
    BY <1>4, <2>1, Unowned, Zenon
  <2> QED
    BY <1>7, <2>1, <2>2, Zenon DEF Runner, ProcOf
<1>11. OneCPU'
  BY <1>7, Zenon DEF SInv, OneCPU
<1>12. Forking'
  <2>1. ASSUME NEW t \in Thread, NEW q \in Proc, SetsUp(t, q)' PROVE SetsUp(t, q) /\ q # np
    <3>1. SetsUp(t, q)
      <4>1. CASE \E d \in CPU : running'[d] = t /\ frame'[d].pc = "fork_setup" /\ frame'[d].arg = <<q>>
        BY <1>7, <4>1, Zenon DEF SetsUp, Stands
      <4>2. CASE ctx'[t].pc = "fork_setup" /\ ctx'[t].arg = <<q>>
        <5>1. t # main(np)
          BY <1>7, <4>2, Zenon
        <5> QED
          BY <1>7, <4>2, <5>1, Zenon DEF SetsUp, Stands
      <4> QED
        BY <2>1, <4>1, <4>2, Zenon DEF SetsUp, Stands
    <3>2. ASSUME q = np PROVE FALSE
      <4>1. t = running[c]
        BY <1>4, <3>1, <3>2, Zenon DEF Forks
      <4> QED
        BY <1>2, <1>6, <1>7, <2>1, <4>1, Zenon DEF SetsUp, Stands
    <3> QED
      BY <3>1, <3>2, Zenon
  <2>2. ASSUME NEW t \in Thread, NEW q \in Proc, Starts(t, q)', q # np PROVE Starts(t, q)
    <3>1. CASE \E d \in CPU : running'[d] = t /\ frame'[d].pc = "fork_start" /\ frame'[d].arg = main(q)
      <4>1. main(q) # main(np)
        BY <2>2, MainFacts, Zenon
      <4> QED
        BY <1>7, <3>1, <4>1, ZenonT(60) DEF Starts, Stands
    <3>2. CASE ctx'[t].pc = "fork_start" /\ ctx'[t].arg = main(q)
      <4>1. t # main(np)
        BY <1>7, <3>2, Zenon
      <4> QED
        BY <1>7, <3>2, <4>1, Zenon DEF Starts, Stands
    <3> QED
      BY <2>2, <3>1, <3>2, Zenon DEF Starts, Stands, main
  <2>3. ASSUME NEW t \in Thread, Starts(t, np)' PROVE t = running[c]
    <3>1. CASE \E d \in CPU : running'[d] = t /\ frame'[d].pc = "fork_start" /\ frame'[d].arg = main(np)
      <4>1. PICK d \in CPU : running'[d] = t /\ frame'[d].pc = "fork_start" /\ frame'[d].arg = main(np)
        BY <3>1, Zenon
      <4>2. CASE d = c
        BY <1>7, <4>1, <4>2, Zenon
      <4>3. CASE d # c
        BY <1>4, <1>7, <4>1, <4>3, ZenonT(60) DEF Forks, Starts, Stands
      <4> QED
        BY <4>2, <4>3, Zenon
    <3>2. CASE ctx'[t].pc = "fork_start" /\ ctx'[t].arg = main(np)
      <4>1. t # main(np)
        BY <1>7, <3>2, Zenon
      <4> QED
        BY <1>4, <1>7, <3>2, <4>1, Zenon DEF Forks, Starts, Stands
    <3> QED
      BY <2>3, <3>1, <3>2, Zenon DEF Starts, Stands, main
  <2>4. ASSUME NEW t \in Thread, NEW q \in Proc, Forks(t, q)' PROVE Child(t, q)'
    <3>1. CASE q = np
      <4>1. ~SetsUp(t, q)' /\ t = running[c] /\ \A u \in Thread : Forks(u, q)' => u = t
        BY <2>1, <2>3, <2>4, <3>1, Zenon DEF Forks
      <4>2. /\ pstate'[q] = "EMBRYO" /\ tstate'[main(q)] = "EMBRYO" /\ ctx'[main(q)].pc = "user"
            /\ kstack'[main(q)] /\ pgdir'[q] /\ parent'[q] = tproc(t)
        BY <1>2, <1>4, <1>7, <3>1, <4>1, Zenon
      <4> QED
        BY <4>1, <4>2, Zenon DEF Child, main, tproc
    <3>2. CASE q # np
      <4>1. Forks(t, q) /\ Child(t, q) /\ \A u \in Thread : Forks(u, q)' => Forks(u, q)
        BY <2>1, <2>2, <2>4, <3>2, Zenon DEF SInv, Forking, Forks
      <4>2. (SetsUp(t, q)' => SetsUp(t, q)) /\ (Starts(t, q)' => Starts(t, q))
        BY <2>1, <2>2, <3>2, Zenon
      <4>3. main(q) \in Thread \ {main(np)}
        BY <3>2, MainFacts, Zenon
      <4> QED
        BY <1>7, <3>2, <4>1, <4>2, <4>3, Zenon DEF Child, main, tproc
    <3> QED
      BY <3>1, <3>2, Zenon
  <2> QED
    BY <2>4, Zenon DEF Forking
<1>13. Parents'
  <2>1. initproc # np /\ pstate' = pstate
    BY <1>4, <1>7, Zenon DEF SInv, Parents
  <2>2. ASSUME NEW p \in Proc, p # np, HasParent(p) PROVE HasParent(p)'
    BY <1>7, <2>1, <2>2, Zenon DEF HasParent
  <2>3. pstate[np] = "EMBRYO"
    BY <1>4, Zenon
  <2>4. ASSUME NEW p \in Proc, pstate[p] = "ZOMBIE" \/ (pstate[p] = "RUNNABLE" /\ p # initproc)
        PROVE  HasParent(p)'
    BY <2>2, <2>3, <2>4, Zenon DEF SInv, Parents
  <2> QED
    BY <1>7, <2>1, <2>4, Zenon DEF SInv, Parents
<1>14. Sleepers'
  <2>1. \A t \in Thread : tstate'[t] = "SLEEPING" =>
           tstate[t] = "SLEEPING" /\ ctx'[t] = ctx[t] /\ chan'[t] = chan[t]
    BY <1>7, Zenon
  <2>2. \A q \in Proc : pstate'[q] = "ZOMBIE" => pstate[q] = "ZOMBIE" /\ parent'[q] = parent[q]
    BY <1>4, <1>7, Zenon
  <2> QED
    BY <2>1, <2>2, SleepersKept, Zenon DEF SInv
<1> QED
  BY <1>8, <1>9, <1>10, <1>11, <1>12, <1>13, <1>14, Zenon DEF SInv

(* copyuvm fails: the slot is free again.                                  *)
LEMMA ForkNoMemorySolo ==
  ASSUME Inv, LInv, SInv, NEW c \in CPU, ForkNoMemory(c)
  PROVE  SInv'
<1>1. frame[c].pc = "fork_setup"
  BY Zenon DEF ForkNoMemory, At
<1>2. /\ running[c] \in Thread /\ tstate[running[c]] = "RUNNING"
      /\ \A d \in CPU \ {c} : running[d] # running[c]
      /\ ctx[running[c]].pc = "dead"
  BY <1>1, Acting, Zenon
<1>3. PICK np \in Proc : /\ frame[c].arg = <<np>> /\ np = frame[c].arg[1]
                         /\ SetsUp(running[c], np) /\ Child(running[c], np) /\ np # ProcOf(c)
  BY <1>1, SettingUp, Zenon
<1>4. pstate[np] = "EMBRYO" /\ tstate[main(np)] = "UNUSED" /\ \A u \in Thread : Forks(u, np)
        => u = running[c]
  BY <1>3, Zenon DEF Child
<1>5. /\ frame'[c].pc = "ret" /\ \A d \in CPU \ {c} : frame'[d] = frame[d]
      /\ pstate'[np] = "UNUSED" /\ \A p \in Proc \ {np} : pstate'[p] = pstate[p]
      /\ parent' = parent /\ pgdir' = pgdir /\ tstate' = tstate /\ chan' = chan
      /\ kstack' = kstack /\ ctx' = ctx /\ running' = running
  BY <1>3, Zenon DEF ForkNoMemory, Return, Go, Inv, TypeOK, threadVars
<1>6. OneThread'
  <2>1. SoloPlace(running'[c], frame'[c])
    BY <1>5, Zenon DEF SoloPlace, SoloPC
  <2> QED
    BY <1>5, <2>1, Zenon DEF SInv, OneThread
<1>7. ASSUME NEW p \in Proc PROVE Slot(p)'
  <2>1. CASE p = np
    BY <1>4, <1>5, <2>1, Zenon DEF Slot
  <2>2. CASE p # np
    BY <1>5, <2>2, SlotSame, Zenon
  <2> QED
    BY <2>1, <2>2, Zenon
<1>8. ASSUME NEW d \in CPU, frame'[d].pc # "idle" PROVE Runner(d)'
  <2>1. /\ frame[d].pc # "idle" /\ (frame'[d].pc = "swtch" <=> frame[d].pc = "swtch")
        /\ frame'[d].pc = "yield" <=> frame[d].pc = "yield"
    BY <1>1, <1>5, <1>8, Zenon
  <2>2. Runner(d) /\ ProcOf(d) \in Proc \ {np}
    BY <1>4, <2>1, Unowned, Zenon
  <2> QED
    BY <1>5, <2>1, <2>2, Zenon DEF Runner, ProcOf
<1>9. OneCPU'
  BY <1>5, Zenon DEF SInv, OneCPU
<1>10. Forking'
  <2>1. ForkSame
    BY <1>5, Zenon DEF ForkSame, SetsUp, Starts, Stands
  <2>2. ASSUME NEW t \in Thread, Forks(t, np)' PROVE FALSE
    <3>1. t = running[c]
      BY <1>4, <2>1, <2>2, Zenon DEF ForkSame, Forks
    <3> QED
      BY <1>2, <1>5, <2>2, <3>1, Zenon DEF Forks, SetsUp, Starts, Stands
  <2>3. OwnedSame
    BY <1>5, <2>2, Zenon DEF OwnedSame, Child
  <2> QED
    BY <2>1, <2>3, ForkingKept, Zenon DEF SInv
<1>11. Parents'
  <2>1. initproc # np
    BY <1>4, Zenon DEF SInv, Parents
  <2>2. ASSUME NEW p \in Proc, HasParent(p) PROVE HasParent(p)'
    BY <1>4, <1>5, <2>2, Zenon DEF HasParent
  <2>3. ASSUME NEW p \in Proc, pstate'[p] = "ZOMBIE" \/ (pstate'[p] = "RUNNABLE" /\ p # initproc)
        PROVE  HasParent(p)'
    BY <1>5, <2>2, <2>3, Zenon DEF SInv, Parents
  <2> QED
    BY <1>5, <2>1, <2>3, ThreadFacts, Zenon DEF SInv, Parents
<1>12. Sleepers'
  <2>1. \A q \in Proc : pstate'[q] = "ZOMBIE" => pstate[q] = "ZOMBIE"
    BY <1>5, Zenon
  <2> QED
    BY <1>5, <2>1, SleepersKept, Zenon DEF SInv
<1> QED
  BY <1>6, <1>7, <1>8, <1>9, <1>10, <1>11, <1>12, Zenon DEF SInv

(* The new process becomes RUNNABLE; its parent is its live creator.       *)
LEMMA ForkStartSolo ==
  ASSUME Inv, LInv, SInv, NEW c \in CPU, ForkStart(c)
  PROVE  SInv'
<1>1. frame[c].pc = "fork_start"
  BY Zenon DEF ForkStart, At
<1>2. /\ running[c] \in Thread /\ tstate[running[c]] = "RUNNING" /\ running[c] = main(ProcOf(c))
      /\ ProcOf(c) \in Proc /\ tproc(running[c]) = ProcOf(c) /\ pstate[ProcOf(c)] = "RUNNABLE"
      /\ \A d \in CPU \ {c} : running[d] # running[c]
      /\ ctx[running[c]].pc = "dead"
  BY <1>1, Acting, Zenon
<1>3. PICK np \in Proc : /\ frame[c].arg = main(np)
                         /\ Starts(running[c], np) /\ Child(running[c], np) /\ np # ProcOf(c)
  BY <1>1, Starting, Zenon
<1>4. /\ pstate[np] = "EMBRYO" /\ tstate[main(np)] = "EMBRYO" /\ ctx[main(np)].pc = "user"
      /\ kstack[main(np)] /\ pgdir[np] /\ parent[np] = ProcOf(c)
      /\ \A u \in Thread : Forks(u, np) => u = running[c]
  BY <1>2, <1>3, Zenon DEF Child
<1>5. main(np) \in Thread /\ tproc(main(np)) = np /\ main(np) # running[c]
  BY <1>2, <1>3, MainFacts, Zenon
<1>6. /\ frame'[c].pc = "ret" /\ \A d \in CPU \ {c} : frame'[d] = frame[d]
      /\ pstate'[np] = "RUNNABLE" /\ \A p \in Proc \ {np} : pstate'[p] = pstate[p]
      /\ tstate'[main(np)] = "RUNNABLE" /\ \A t \in Thread \ {main(np)} : tstate'[t] = tstate[t]
      /\ parent' = parent /\ pgdir' = pgdir /\ chan' = chan
      /\ kstack' = kstack /\ ctx' = ctx /\ running' = running
  BY <1>3, <1>5, Zenon DEF ForkStart, Return, Go, Inv, TypeOK
<1>7. OneThread'
  <2>1. SoloPlace(running'[c], frame'[c])
    BY <1>6, Zenon DEF SoloPlace, SoloPC
  <2> QED
    BY <1>5, <1>6, <2>1, Zenon DEF SInv, OneThread
<1>8. ASSUME NEW p \in Proc PROVE Slot(p)'
  <2>1. CASE p = np
    BY <1>4, <1>6, <2>1, Zenon DEF Slot
  <2>2. CASE p # np
    <3>1. main(p) \in Thread \ {main(np)}
      BY <2>2, MainFacts, Zenon
    <3> QED
      BY <1>6, <2>2, <3>1, SlotSame, Zenon
  <2> QED
    BY <2>1, <2>2, Zenon
<1>9. ASSUME NEW d \in CPU, frame'[d].pc # "idle" PROVE Runner(d)'
  <2>1. /\ frame[d].pc # "idle" /\ (frame'[d].pc = "swtch" <=> frame[d].pc = "swtch")
        /\ frame'[d].pc = "yield" <=> frame[d].pc = "yield"
    BY <1>1, <1>6, <1>9, Zenon
  <2>2. Runner(d) /\ running[d] \in Thread \ {main(np)} /\ ProcOf(d) \in Proc \ {np}
    BY <1>4, <2>1, Unowned, Zenon
  <2> QED
    BY <1>6, <2>1, <2>2, Zenon DEF Runner, ProcOf
<1>10. OneCPU'
  BY <1>6, Zenon DEF SInv, OneCPU
<1>11. Forking'
  <2>1. ASSUME NEW t \in Thread, NEW l \in {"fork_setup", "fork_start"}, NEW a, Stands(t, l, a)'
        PROVE  Stands(t, l, a) /\ t # running[c]
    <3>1. t # main(np)
      <4>1. SUFFICES ASSUME t = main(np) PROVE FALSE
        BY Zenon
      <4>2. PICK d \in CPU : running[d] = main(np)
        BY <1>4, <1>6, <2>1, <4>1, Zenon DEF Stands
      <4>3. frame[d].pc # "idle"
        BY <1>5, <4>2, ThreadFacts, Zenon DEF LInv, IdleFree
      <4> QED
        BY <1>4, <4>2, <4>3, Unowned, Zenon
    <3>2. CASE \E d \in CPU : running'[d] = t /\ frame'[d].pc = l /\ frame'[d].arg = a
      <4>1. PICK d \in CPU : running'[d] = t /\ frame'[d].pc = l /\ frame'[d].arg = a
        BY <3>2, Zenon
      <4>2. d # c
        BY <1>6, <2>1, <4>1, Zenon
      <4>3. running[d] = t /\ frame[d].pc = l /\ frame[d].arg = a
        BY <1>6, <4>1, <4>2, Zenon
      <4> QED
        BY <1>2, <4>2, <4>3, Zenon DEF Stands
    <3>3. CASE ctx'[t].pc = l /\ ctx'[t].arg = a
      BY <1>2, <1>6, <3>1, <3>3, Zenon DEF Stands
    <3> QED
      BY <2>1, <3>2, <3>3, Zenon DEF Stands
  <2>2. ForkSame
    BY <2>1, Zenon DEF ForkSame, SetsUp, Starts, main
  <2>3. ASSUME NEW t \in Thread, Forks(t, np)' PROVE FALSE
    <3>1. t # running[c]
      BY <2>1, <2>3, Zenon DEF Forks, SetsUp, Starts, main
    <3> QED
      BY <1>4, <2>2, <2>3, <3>1, Zenon DEF ForkSame, Forks
  <2>4. OwnedSame
    <3>1. ASSUME NEW t \in Thread, NEW q \in Proc, Forks(t, q)', Child(t, q)
          PROVE  pstate'[q] = "EMBRYO" /\ tstate'[main(q)] = tstate[main(q)]
      <4>1. q # np
        BY <2>3, <3>1, Zenon
      <4>2. main(q) \in Thread \ {main(np)}
        BY <4>1, MainFacts, Zenon
      <4> QED
        BY <1>6, <3>1, <4>1, <4>2, Zenon DEF Child
    <3> QED
      BY <1>6, <3>1, Zenon DEF OwnedSame, Child
  <2> QED
    BY <2>2, <2>4, ForkingKept, Zenon DEF SInv
<1>12. Parents'
  <2>1. initproc # np
    BY <1>4, Zenon DEF SInv, Parents
  <2>2. ASSUME NEW p \in Proc, HasParent(p) PROVE HasParent(p)'
    BY <1>4, <1>6, <2>2, Zenon DEF HasParent
  <2>3. HasParent(np)'
    <3>1. parent'[np] = parent[np] /\ parent[np] \in Proc \ {np}
      BY <1>2, <1>3, <1>4, <1>6
    <3>2. pstate'[parent[np]] = "RUNNABLE"
      BY <1>2, <1>3, <1>4, <1>6, <3>1, Zenon
    <3> QED
      BY <3>1, <3>2, Zenon DEF HasParent
  <2>4. ASSUME NEW p \in Proc, pstate'[p] = "ZOMBIE" \/ (pstate'[p] = "RUNNABLE" /\ p # initproc)
        PROVE  HasParent(p)'
    BY <1>6, <2>2, <2>3, <2>4, Zenon DEF SInv, Parents
  <2> QED
    BY <1>6, <2>1, <2>4, ThreadFacts, Zenon DEF SInv, Parents
<1>13. Sleepers'
  <2>1. \A q \in Proc : pstate'[q] = "ZOMBIE" => pstate[q] = "ZOMBIE"
    BY <1>6, Zenon
  <2>2. \A t \in Thread : tstate'[t] = "SLEEPING" => tstate[t] = "SLEEPING"
    BY <1>6, Zenon
  <2> QED
    BY <1>6, <2>1, <2>2, SleepersKept, Zenon DEF SInv
<1> QED
  BY <1>7, <1>8, <1>9, <1>10, <1>11, <1>12, <1>13, Zenon DEF SInv

(* wait() frees a child that nobody runs any more: the CPU it left on has  *)
(* passed the swtch, which holds ptable.lock.                              *)
LEMMA WaitReapSolo ==
  ASSUME Inv, LInv, SInv, NEW c \in CPU, NEW q \in Proc, WaitReap(c, q)
  PROVE  SInv'
<1>1. /\ frame[c].pc \in {"wait", "wait_again"} /\ ptl \in {c, NoCPU}
      /\ pstate[q] = "ZOMBIE"
  BY Zenon DEF WaitReap, InWait, At, FirstDeadKid, DeadKids
<1>2. /\ running[c] \in Thread /\ ProcOf(c) \in Proc /\ pstate[ProcOf(c)] = "RUNNABLE"
  BY <1>1, Acting, Zenon
<1>3. main(q) \in Thread /\ tproc(main(q)) = q /\ tstate[main(q)] = "ZOMBIE"
  BY <1>1, MainFacts, Zenon DEF SInv, Slot
<1>4. /\ frame'[c].pc = "ret" /\ \A d \in CPU \ {c} : frame'[d] = frame[d]
      /\ pstate'[q] = "UNUSED" /\ \A p \in Proc \ {q} : pstate'[p] = pstate[p]
      /\ \A p \in Proc \ {q} : pgdir'[p] = pgdir[p] /\ parent'[p] = parent[p]
      /\ \A t \in Thread : tproc(t) # q => kstack'[t] = kstack[t]
      /\ tstate' = tstate /\ chan' = chan /\ ctx' = ctx /\ running' = running
  BY Zenon DEF WaitReap, Return, Go, Inv, TypeOK
<1>5. ASSUME NEW d \in CPU, frame[d].pc # "idle" PROVE Runner(d) /\ ProcOf(d) \in Proc \ {q}
  <2>1. Runner(d) /\ ProcOf(d) \in Proc
    BY <1>5, Runs, Zenon DEF SInv
  <2>2. ASSUME ProcOf(d) = q PROVE FALSE
    <3>1. frame[d].pc = "swtch"
      BY <1>3, <2>1, <2>2, Zenon DEF Runner
    <3>2. ptl = d
      BY <3>1, LockFacts, Zenon DEF Sched
    <3>3. d = c
      BY <1>1, <3>2, CPUAssumption, Zenon
    <3> QED
      BY <1>1, <3>1, <3>3, Zenon
  <2> QED
    BY <2>1, <2>2, Zenon
<1>6. OneThread'
  <2>1. SoloPlace(running'[c], frame'[c])
    BY <1>4, Zenon DEF SoloPlace, SoloPC
  <2> QED
    BY <1>4, <2>1, Zenon DEF SInv, OneThread
<1>7. ASSUME NEW p \in Proc PROVE Slot(p)'
  <2>1. CASE p = q
    BY <1>3, <1>4, <2>1, Zenon DEF Slot
  <2>2. CASE p # q
    <3>1. main(p) \in Thread /\ tproc(main(p)) # q
      BY <2>2, MainFacts, Zenon
    <3> QED
      BY <1>4, <2>2, <3>1, SlotSame, Zenon
  <2> QED
    BY <2>1, <2>2, Zenon
<1>8. ASSUME NEW d \in CPU, frame'[d].pc # "idle" PROVE Runner(d)'
  <2>1. /\ frame[d].pc # "idle" /\ (frame'[d].pc = "swtch" <=> frame[d].pc = "swtch")
        /\ frame'[d].pc = "yield" <=> frame[d].pc = "yield"
    BY <1>1, <1>4, <1>8, Zenon
  <2>2. Runner(d) /\ ProcOf(d) \in Proc \ {q}
    BY <1>5, <2>1, Zenon
  <2> QED
    BY <1>4, <2>1, <2>2, Zenon DEF Runner, ProcOf
<1>9. OneCPU'
  BY <1>4, Zenon DEF SInv, OneCPU
<1>10. Forking'
  <2>1. ForkSame
    BY <1>4, Zenon DEF ForkSame, SetsUp, Starts, Stands
  <2>2. ASSUME NEW r \in Proc, pstate[r] = "EMBRYO"
        PROVE  r # q /\ main(r) \in Thread /\ tproc(main(r)) # q
    BY <1>1, <2>2, MainFacts, Zenon
  <2>3. OwnedSame
    BY <1>4, <2>2, Zenon DEF OwnedSame, Child
  <2> QED
    BY <2>1, <2>3, ForkingKept, Zenon DEF SInv
<1>11. Parents'
  <2>1. initproc # q
    BY <1>1, Zenon DEF SInv, Parents
  <2>2. ASSUME NEW p \in Proc \ {q}, HasParent(p) PROVE HasParent(p)'
    <3>1. parent[p] # q
      BY <1>1, <2>2, Zenon DEF HasParent
    <3> QED
      BY <1>4, <2>2, <3>1, ZenonT(60) DEF HasParent
  <2>3. ASSUME NEW p \in Proc, pstate'[p] = "ZOMBIE" \/ (pstate'[p] = "RUNNABLE" /\ p # initproc)
        PROVE  HasParent(p)'
    BY <1>4, <2>2, <2>3, Zenon DEF SInv, Parents
  <2> QED
    BY <1>4, <2>1, <2>3, ThreadFacts, Zenon DEF SInv, Parents
<1>12. Sleepers'
  <2>1. \A r \in Proc : pstate'[r] = "ZOMBIE" => pstate[r] = "ZOMBIE" /\ parent'[r] = parent[r]
    BY <1>4, Zenon
  <2> QED
    BY <1>4, <2>1, SleepersKept, Zenon DEF SInv
<1> QED
  BY <1>6, <1>7, <1>8, <1>9, <1>10, <1>11, <1>12, Zenon DEF SInv

(* exit() under ptable.lock: p dies, its children go to init, and whoever  *)
(* sleeps in wait() for one of the ZOMBIEs is woken.                       *)
LEMMA ExitTableSolo ==
  ASSUME Inv, LInv, SInv, NEW c \in CPU, ExitTable(c)
  PROVE  SInv'
<1>1. frame[c].pc = "exit_table"
  BY Zenon DEF ExitTable, At
<1>2. PICK p \in Proc : p = ProcOf(c)
  BY <1>1, Acting, Zenon
<1>3. /\ running[c] = main(p) /\ main(p) \in Thread /\ tproc(main(p)) = p
      /\ tstate[main(p)] = "RUNNING" /\ pstate[p] = "RUNNABLE"
      /\ \A d \in CPU \ {c} : running[d] # main(p)
      /\ ctx[main(p)].pc = "dead"
  BY <1>1, <1>2, Acting
<1>4. p # initproc
  BY <1>1, <1>3, Zenon DEF SInv, OneThread, SoloPlace
<1> DEFINE ts1 == wakeup1(tstate, <<parent[p]>>)
           ts2 == IF DeadKids(p) # {} THEN wakeup1(ts1, <<initproc>>) ELSE ts1
<1>5. /\ frame'[c].pc = "swtch" /\ \A d \in CPU \ {c} : frame'[d] = frame[d]
      /\ pstate'[p] = "ZOMBIE" /\ \A r \in Proc \ {p} : pstate'[r] = pstate[r]
      /\ \A r \in Proc : parent'[r] = IF r \in Kids(p) THEN initproc ELSE parent[r]
      /\ \A t \in Thread : tstate'[t] = IF Doomed(p, t) THEN "ZOMBIE" ELSE ts2[t]
      /\ \A t \in Thread : chan'[t] = IF Doomed(p, t) THEN <<>> ELSE chan[t]
      /\ \A t \in Thread \ {main(p)} : ctx'[t] = ctx[t]
      /\ ctx'[main(p)] = NoFrame
      /\ pgdir' = pgdir /\ kstack' = kstack /\ running' = running
  BY <1>2, <1>3, Zenon DEF ExitTable, Go, Inv, TypeOK
<1>6. \A t \in Thread : Doomed(p, t) <=> t = main(p)
  BY <1>3, Zenon DEF Doomed, SInv, OneThread
<1>7. ASSUME NEW t \in Thread
      PROVE  \/ ts2[t] = tstate[t] /\ (tstate[t] = "SLEEPING" => chan[t] # <<parent[p]>> /\ (DeadKids(p) # {} => chan[t] # <<initproc>>))
             \/ tstate[t] = "SLEEPING" /\ ts2[t] = "RUNNABLE"
  BY Zenon DEF wakeup1
<1> HIDE DEF ts1, ts2
<1>8. /\ tstate'[main(p)] = "ZOMBIE"
      /\ \A t \in Thread \ {main(p)} : tstate'[t] = ts2[t] /\ chan'[t] = chan[t]
  BY <1>3, <1>5, <1>6, Zenon
<1>9. OneThread'
  <2>1. SoloPlace(running'[c], frame'[c]) /\ SoloPlace(main(p), NoFrame)
    BY <1>5, Zenon DEF SoloPlace, SoloPC, NoFrame
  <2>2. ASSUME NEW t \in Thread, t # main(tproc(t)) PROVE tstate'[t] = "UNUSED"
    <3>1. tstate[t] = "UNUSED" /\ t # main(p)
      BY <1>3, <2>2, Zenon DEF SInv, OneThread
    <3> QED
      BY <1>7, <1>8, <3>1, Zenon
  <2> QED
    BY <1>5, <2>1, <2>2, Zenon DEF SInv, OneThread
<1>10. ASSUME NEW r \in Proc PROVE Slot(r)'
  <2>1. CASE r = p
    BY <1>3, <1>5, <1>8, <2>1, Zenon DEF SInv, Slot
  <2>2. CASE r # p
    <3>1. main(r) \in Thread \ {main(p)}
      BY <2>2, MainFacts, Zenon
    <3>2. Slot(r) /\ pstate'[r] = pstate[r] /\ kstack' = kstack /\ pgdir' = pgdir
      BY <1>5, <2>2, Zenon DEF SInv
    <3>3. \/ tstate'[main(r)] = tstate[main(r)]
          \/ tstate[main(r)] = "SLEEPING" /\ tstate'[main(r)] = "RUNNABLE"
      BY <1>7, <1>8, <3>1, Zenon
    <3> QED
      BY <3>2, <3>3, Zenon DEF Slot, main
  <2> QED
    BY <2>1, <2>2, Zenon
<1>11. ASSUME NEW d \in CPU, frame'[d].pc # "idle" PROVE Runner(d)'
  <2>1. CASE d = c
    BY <1>2, <1>3, <1>5, <1>8, <2>1, Zenon DEF Runner, ProcOf
  <2>2. CASE d # c
    <3>1. Runner(d) /\ running[d] \in Thread \ {main(p)} /\ ProcOf(d) \in Proc
      BY <1>3, <1>5, <1>11, <2>2, Runs, Zenon DEF SInv
    <3>2. ProcOf(d) # p
      BY <3>1, Zenon DEF Runner
    <3>3. tstate'[running[d]] = "RUNNING" <=> tstate[running[d]] = "RUNNING"
      BY <1>7, <1>8, <3>1, Zenon
    <3> QED
      BY <1>5, <2>2, <3>1, <3>2, <3>3, Zenon DEF Runner, ProcOf
  <2> QED
    BY <2>1, <2>2, Zenon
<1>12. OneCPU'
  BY <1>5, Zenon DEF SInv, OneCPU
<1>13. Forking'
  <2>1. ASSUME NEW t \in Thread, NEW l \in {"fork_setup", "fork_start"}, NEW a, Stands(t, l, a)'
        PROVE  Stands(t, l, a)
    <3>1. CASE \E d \in CPU : running'[d] = t /\ frame'[d].pc = l /\ frame'[d].arg = a
      BY <1>5, <2>1, <3>1, Zenon DEF Stands
    <3>2. CASE ctx'[t].pc = l /\ ctx'[t].arg = a
      <4>1. t # main(p)
        <5>1. NoFrame.pc = "dead"
          BY DEF NoFrame
        <5> QED
          BY <1>5, <2>1, <3>2, <5>1, Zenon
      <4> QED
        BY <1>5, <3>2, <4>1, Zenon DEF Stands
    <3> QED
      BY <2>1, <3>1, <3>2, Zenon DEF Stands
  <2>2. ForkSame
    BY <2>1, Zenon DEF ForkSame, SetsUp, Starts, main
  <2>3. ASSUME NEW t \in Thread, NEW q \in Proc, Forks(t, q)', Child(t, q)
        PROVE  /\ pstate'[q] = "EMBRYO" /\ tstate'[main(q)] = tstate[main(q)]
               /\ ctx'[main(q)] = ctx[main(q)]
               /\ Starts(t, q) => /\ parent'[q] = tproc(t) /\ kstack'[main(q)] /\ pgdir'[q]
                                  /\ ctx'[main(q)].pc = "user"
    <3>1. q # p /\ main(q) \in Thread \ {main(p)} /\ Slot(q) /\ pstate[q] = "EMBRYO"
      BY <1>3, <2>3, MainFacts, Zenon DEF Child, SInv
    <3>2. tstate'[main(q)] = tstate[main(q)]
      BY <1>7, <1>8, <3>1, Zenon DEF Slot
    <3>3. Starts(t, q) => parent[q] # p
      <4>1. SUFFICES ASSUME Starts(t, q), parent[q] = p PROVE FALSE
        BY Zenon
      <4>2. tproc(t) = p
        BY <2>3, <4>1, Zenon DEF Child
      <4>3. t = main(p)
        <5>1. CASE ctx[t].pc = "fork_start"
          BY <4>2, <5>1, Zenon DEF SInv, OneThread, SoloPlace
        <5>2. CASE \E d \in CPU : running[d] = t /\ frame[d].pc = "fork_start"
          BY <4>2, <5>2, Zenon DEF SInv, OneThread, SoloPlace
        <5> QED
          BY <4>1, <5>1, <5>2, Zenon DEF Starts, Stands
      <4> QED
        BY <1>1, <1>3, <4>1, <4>3, Zenon DEF Starts, Stands
    <3>4. Starts(t, q) => parent'[q] = parent[q]
      BY <1>5, <3>3, Zenon DEF Kids
    <3> QED
      BY <1>5, <2>3, <3>1, <3>2, <3>4, Zenon DEF Child
  <2>4. OwnedSame
    BY <2>3, Zenon DEF OwnedSame
  <2> QED
    BY <2>2, <2>4, ForkingKept, Zenon DEF SInv
<1>14. Parents'
  <2>1. pstate'[initproc] = "RUNNABLE" /\ initproc \in Proc
    BY <1>4, <1>5, ThreadFacts, Zenon DEF SInv, Parents
  <2>2. ASSUME NEW r \in Proc \ {initproc}, HasParent(r) PROVE HasParent(r)'
    <3>1. CASE parent[r] = p
      BY <1>5, <2>1, <2>2, <3>1, Zenon DEF HasParent, Kids
    <3>2. CASE parent[r] # p
      <4>1. parent'[r] = parent[r]
        BY <1>5, <2>2, <3>2, Zenon DEF Kids
      <4>2. pstate'[parent[r]] = pstate[parent[r]]
        BY <1>5, <2>2, <3>2, Zenon DEF HasParent
      <4> QED
        BY <2>2, <4>1, <4>2, Zenon DEF HasParent
    <3> QED
      BY <3>1, <3>2, Zenon
  <2>3. ASSUME NEW r \in Proc, pstate'[r] = "ZOMBIE" \/ (pstate'[r] = "RUNNABLE" /\ r # initproc)
        PROVE  HasParent(r)'
    <3>1. r # initproc /\ HasParent(r)
      BY <1>3, <1>4, <1>5, <2>1, <2>3, Zenon DEF SInv, Parents
    <3> QED
      BY <2>2, <3>1, Zenon
  <2> QED
    BY <2>1, <2>3, Zenon DEF Parents
<1>15. Sleepers'
  <2>1. ASSUME NEW t \in Thread, tstate'[t] = "SLEEPING"
        PROVE  ctx'[t].pc = "wait_again" /\ chan'[t] = <<tproc(t)>> /\ DeadKids(tproc(t))' = {}
    <3>1. t # main(p)
      BY <1>8, <2>1, Zenon
    <3>2. /\ tstate[t] = "SLEEPING" /\ ctx'[t] = ctx[t] /\ chan'[t] = chan[t]
          /\ chan[t] # <<parent[p]>> /\ (DeadKids(p) # {} => chan[t] # <<initproc>>)
      BY <1>5, <1>7, <1>8, <2>1, <3>1, Zenon
    <3>3. ctx[t].pc = "wait_again" /\ chan[t] = <<tproc(t)>> /\ DeadKids(tproc(t)) = {}
      BY <3>2, Zenon DEF SInv, Sleepers
    <3>4. tproc(t) # parent[p] /\ (DeadKids(p) # {} => tproc(t) # initproc)
      BY <3>2, <3>3, Zenon
    <3>5. tproc(t) # p
      BY <1>3, <3>1, <3>2, Zenon DEF SInv, OneThread
    <3>6. ASSUME NEW r \in DeadKids(tproc(t))' PROVE FALSE
      <4>1. r \in Proc /\ pstate'[r] = "ZOMBIE" /\ parent'[r] = tproc(t)
        BY <3>6, Zenon DEF DeadKids, Kids, tproc
      <4>2. CASE r = p
        <5>1. HasParent(p)
          BY <1>3, <1>4, Zenon DEF SInv, Parents
        <5>2. parent[p] # p
          BY <5>1, Zenon DEF HasParent
        <5> QED
          BY <1>5, <3>4, <4>1, <4>2, <5>2, Zenon DEF Kids
      <4>3. CASE r # p
        <5>1. pstate[r] = "ZOMBIE"
          BY <1>5, <4>1, <4>3, Zenon
        <5>2. CASE parent[r] = p
          BY <1>5, <3>4, <4>1, <5>1, <5>2, Zenon DEF Kids, DeadKids
        <5>3. CASE parent[r] # p
          <6>1. parent[r] = tproc(t)
            BY <1>5, <4>1, <5>3, Zenon DEF Kids
          <6> QED
            BY <3>3, <4>1, <5>1, <6>1, Zenon DEF Kids, DeadKids
        <5> QED
          BY <5>2, <5>3, Zenon
      <4> QED
        BY <4>2, <4>3, Zenon
    <3> QED
      BY <3>2, <3>3, <3>6, Zenon
  <2> QED
    BY <2>1, Zenon DEF Sleepers, tproc
<1> QED
  BY <1>9, <1>10, <1>11, <1>12, <1>13, <1>14, <1>15, Zenon DEF SInv

(* exec() of a process without siblings finds nobody in its scan.          *)
LEMMA ExecSolo == ASSUME Inv, SInv, NEW c \in CPU, Exec(c) PROVE SInv'
<1>1. frame[c].pc \in SoloPC
  BY Zenon DEF SInv, OneThread, SoloPlace
<1>2. frame[c].pc \in {"exec", "exec_scan"}
  BY <1>1, Zenon
     DEF Exec, ExecBegin, ExecSkip, ExecReap, ExecAlive, ExecAsleep, ExecWake, ExecSleep,
     Scanning, At, SoloPC, SoloCalls
<1>3. ProcOf(c) \in Proc /\ running[c] = main(ProcOf(c)) /\ running[c] \in Thread
      /\ tproc(running[c]) = ProcOf(c)
  BY <1>2, Acting, Zenon
<1>4. CASE frame[c].pc = "exec"
  <2>1. ExecBegin(c) /\ tproc(<<ProcOf(c), 1>>) = ProcOf(c)
    BY <1>3, <1>4, MainFacts, Zenon
       DEF Exec, ExecSkip, ExecReap, ExecAlive, ExecAsleep, ExecWake, ExecSleep, Scanning, At, main
  <2>2. Local(c, "exec_scan", <<ProcOf(c), 1>>)
    BY <1>4, <2>1, Zenon DEF ExecBegin, At, Local, SoloPC, threadVars
  <2> QED
    BY <2>2, LocalKeeps, Zenon
<1>5. CASE frame[c].pc = "exec_scan"
  <2>1. frame[c].arg \in Thread /\ tproc(frame[c].arg) = ProcOf(c)
    BY <1>3, <1>5, Args, Zenon DEF Away, Scan, SInv, OneThread, SoloPlace
  <2>2. frame[c].arg = running[c] \/ Looked(c) = "UNUSED"
    BY <1>3, <2>1, Zenon DEF Looked, SInv, OneThread
  <2>3. ExecSkip(c) /\ ~At(c, "exec_alive")
    BY <1>5, <2>2, Zenon
       DEF Exec, ExecBegin, ExecReap, ExecAlive, ExecAsleep, ExecWake, ExecSleep, At
  <2>4. PICK a \in {<<>>, <<ProcOf(c), frame[c].arg[2] + 1>>}, l \in {"exec_scan", "ret"} :
          Go(c, l, a) /\ (l = "exec_scan" => a = <<ProcOf(c), frame[c].arg[2] + 1>>)
    BY <2>3, Zenon DEF ExecSkip, ScanOn, Return
  <2>5. l = "exec_scan" => tproc(a) = ProcOf(c)
    BY <2>4 DEF tproc
  <2>6. Local(c, l, a)
    BY <1>5, <2>3, <2>4, <2>5, Zenon DEF ExecSkip, Local, SoloPC, threadVars
  <2> QED
    BY <2>6, LocalKeeps, Zenon
<1> QED
  BY <1>2, <1>4, <1>5, Zenon

(* Every step keeps the invariant.                                         *)
LEMMA SoloSame ==
  ASSUME SInv, UNCHANGED <<procVars, threadVars, running, frame>>
  PROVE  SInv'
<1>1. /\ pstate' = pstate /\ parent' = parent /\ pgdir' = pgdir /\ tstate' = tstate
      /\ chan' = chan /\ kstack' = kstack /\ ctx' = ctx /\ running' = running /\ frame' = frame
  BY Zenon DEF procVars, threadVars
<1>2. OneThread' /\ OneCPU' /\ Parents' /\ Sleepers'
  <2>1. OneThread' /\ OneCPU'
    BY <1>1, Zenon DEF SInv, OneThread, OneCPU
  <2>2. Parents'
    BY <1>1, Zenon DEF SInv, Parents, HasParent
  <2>3. Sleepers'
    BY <1>1, Zenon DEF SInv, Sleepers, DeadKids, Kids
  <2> QED
    BY <2>1, <2>2, <2>3, Zenon
<1>3. (\A p \in Proc : Slot(p)') /\ (\A c \in CPU : frame'[c].pc # "idle" => Runner(c)')
  <2>1. ASSUME NEW c \in CPU, Runner(c) PROVE Runner(c)'
    BY <1>1, <2>1, Zenon DEF Runner, ProcOf
  <2> QED
    BY <1>1, <2>1, Zenon DEF SInv, Slot
<1>4. Forking'
  <2>1. ForkSame
    BY <1>1, Zenon DEF ForkSame, SetsUp, Starts, Stands
  <2>2. OwnedSame
    BY <1>1, Zenon DEF OwnedSame, Child
  <2> QED
    BY <2>1, <2>2, ForkingKept, Zenon DEF SInv
<1> QED
  BY <1>2, <1>3, <1>4, Zenon DEF SInv

LEMMA SoloStep ==
  ASSUME SoloPrograms, Inv, LInv, SInv, NEW c \in CPU, Step(c)
  PROVE  SInv'
<1>1. frame[c].pc \in SoloPC
  BY Zenon DEF SInv, OneThread, SoloPlace
<1>2. CASE Fork(c)
  <2>1. ASSUME ForkNoProc(c) \/ ForkNoStack(c) PROVE Local(c, "ret", <<>>)
    BY <2>1, Zenon DEF ForkNoProc, ForkNoStack, At, Return, Local, SoloPC, procVars, threadVars
  <2> QED
    BY <1>2, <2>1, LocalKeeps, ForkAllocSolo, ForkSetupSolo, ForkNoMemorySolo, ForkStartSolo,
        Zenon DEF Fork
<1>3. CASE Exit(c)
  <2>1. ASSUME ExitFiles(c) PROVE Local(c, "exit_cwd", <<>>)
    BY <2>1, Zenon DEF ExitFiles, At, Local, SoloPC, procVars, threadVars
  <2>2. ASSUME ExitCwd(c) PROVE Local(c, "exit_table", <<>>)
    <3>1. ProcOf(c) # initproc
      BY <2>2, Zenon DEF ExitCwd, At, SInv, OneThread, SoloPlace, ProcOf
    <3> QED
      BY <2>2, <3>1, Zenon DEF ExitCwd, At, Local, SoloPC, threadVars
  <2>3. ASSUME ExitInit(c) \/ NullInode(c)
        PROVE  UNCHANGED <<procVars, threadVars, running, frame>>
    BY <2>3, Zenon DEF ExitInit, NullInode
  <2> QED
    BY <1>3, <2>1, <2>2, <2>3, LocalKeeps, SoloSame, ExitTableSolo, Zenon DEF Exit
<1>4. CASE Wait(c)
  <2>1. ASSUME WaitNone(c) PROVE Local(c, "ret", <<>>)
    BY <2>1, Zenon DEF WaitNone, InWait, At, Return, Local, SoloPC, procVars, threadVars
  <2>2. ASSUME NEW q \in Proc, WaitPanic(c, q)
        PROVE  UNCHANGED <<procVars, threadVars, running, frame>>
    BY <2>2, Zenon DEF WaitPanic
  <2> QED
    BY <1>4, <2>1, <2>2, LocalKeeps, SoloSame, WaitReapSolo, WaitSleepSolo, Zenon DEF Wait
<1>5. ASSUME NEW q \in Victims, Kill(c, q) PROVE SInv'
  <2>1. Local(c, "ret", <<>>)
    BY <1>5, Zenon DEF Kill, At, Return, Local, SoloPC, threadVars
  <2> QED
    BY <2>1, LocalKeeps, Zenon
<1>6. CASE Create(c) \/ KExit(c) \/ Join(c)
  <2>1. frame[c].pc \in {"kthread_create", "create_stack", "create_start", "kthread_exit",
                         "kexit_sched", "kthread_join", "join_again", "join_sleep"}
    BY <1>6, Zenon
       DEF Create, KExit, Join, CreateAlloc, CreateNoThread, CreateStack, CreateNoStack,
       CreateStart, KExitMark, KExitSched, JoinReap, JoinUnused, JoinBlock, JoinSleep, InJoin, At
  <2> QED
    BY <1>1, <2>1, Zenon DEF SoloPC, SoloCalls
<1>7. CASE SysReturn(c) \/ TrapDying(c) \/ UserFault(c)
  <2>1. \E l \in {"user", "exit"} : Local(c, l, <<>>)
    BY <1>7, Zenon DEF SysReturn, TrapDying, UserFault, At, Local, SoloPC, SoloCalls, procVars,
        threadVars
  <2> QED
    BY <2>1, LocalKeeps, Zenon
<1>8. ASSUME NEW call \in Call, SysEnter(c, call) PROVE SInv'
  <2>1. call \in SoloCalls
    BY <1>8, Zenon DEF SysEnter, SoloPrograms
  <2>2. Local(c, call, <<>>)
    BY <1>8, <2>1, Zenon DEF SysEnter, At, Local, SoloPC, SoloCalls, procVars, threadVars
  <2> QED
    BY <2>2, LocalKeeps, Zenon
<1>9. CASE DeadRuns(c)
  BY <1>9, SoloSame, Zenon DEF DeadRuns
<1> QED
  BY <1>2, <1>3, <1>4, <1>5, <1>6, <1>7, <1>8, <1>9, ExecSolo, TickSolo, YieldSolo, SwtchSolo,
     DispatchSolo, Zenon DEF Step, Kernel, User

LEMMA SoloInit == Init => SInv
<1> SUFFICES ASSUME Init PROVE SInv
  BY Zenon
<1>1. /\ main(initproc) \in Thread /\ tproc(main(initproc)) = initproc /\ initproc \in Proc
      /\ main(initproc) = <<initproc, 1>>
  BY MainFacts, ThreadFacts, Zenon DEF main
<1>2. /\ \A c \in CPU : running[c] = NoThread /\ frame[c].pc = "idle"
      /\ \A t \in Thread : ctx[t].pc = "user" /\ tstate[t] = (IF t = main(initproc) THEN "RUNNABLE" ELSE "UNUSED")
      /\ \A p \in Proc : pstate[p] = IF p = initproc THEN "RUNNABLE" ELSE "UNUSED"
      /\ kstack[main(initproc)] /\ pgdir[initproc]
  BY <1>1, Zenon DEF Init, UserFrame
<1>3. OneThread
  BY <1>1, <1>2, Zenon DEF OneThread, SoloPlace, SoloPC
<1>4. ASSUME NEW p \in Proc PROVE Slot(p)
  <2>1. CASE p = initproc
    BY <1>1, <1>2, <2>1, Zenon DEF Slot
  <2>2. CASE p # initproc
    <3>1. main(p) \in Thread /\ main(p) # main(initproc)
      BY <1>1, <2>2, MainFacts, Zenon
    <3> QED
      BY <1>2, <2>2, <3>1, Zenon DEF Slot
  <2> QED
    BY <2>1, <2>2, Zenon
<1>5. OneCPU
  BY <1>2, Zenon DEF OneCPU
<1>6. Forking
  <2>1. ASSUME NEW t \in Thread, NEW q \in Proc, Forks(t, q) PROVE FALSE
    BY <1>2, <2>1, Zenon DEF Forks, SetsUp, Starts, Stands
  <2> QED
    BY <2>1, Zenon DEF Forking
<1>7. Parents /\ Sleepers
  BY <1>1, <1>2, Zenon DEF Parents, Sleepers
<1> QED
  BY <1>2, <1>3, <1>4, <1>5, <1>6, <1>7, Zenon DEF SInv

(* Every reachable state satisfies the invariant.                          *)
LEMMA SoloInvariance ==
  ASSUME SoloPrograms
  PROVE  Spec => [](StackInUse /\ DeadMeansDead /\ ZombieHasParent /\ NoMissedExit)
<1>1. Inv /\ LInv /\ SInv /\ [Next]_vars => SInv'
  <2> SUFFICES ASSUME Inv, LInv, SInv, [Next]_vars PROVE SInv'
    BY Zenon
  <2>1. CASE UNCHANGED vars
    BY <2>1, SoloSame, Zenon DEF vars
  <2>2. CASE Dangling
    BY <2>2, SoloSame, Zenon DEF Dangling
  <2> QED
    BY <2>1, <2>2, SoloStep, Zenon DEF Next
<1>2. Spec => []LInv
  BY LInvInit, LInvStep, Invariance, PTL DEF Spec
<1>3. Inv /\ LInv /\ SInv => StackInUse /\ DeadMeansDead /\ ZombieHasParent /\ NoMissedExit
  BY SoloSafe, Zenon
<1> QED
  BY <1>1, <1>2, <1>3, SoloInit, Invariance, PTL DEF Spec

(* For programs that start no threads, on any number of CPUs, with any     *)
(* number of processes and with memory running out or not, no CPU runs on  *)
(* a stack or a page table that wait() freed, and no two CPUs run one      *)
(* thread.                                                                 *)
THEOREM SoloStackInUse == ASSUME SoloPrograms PROVE Spec => []StackInUse
  BY SoloInvariance, PTL

(* For the same programs, a ZOMBIE has no thread left to schedule: wait()  *)
(* never panics with "thread is still alive while process is dead".        *)
THEOREM SoloDeadMeansDead == ASSUME SoloPrograms PROVE Spec => []DeadMeansDead
  BY SoloInvariance, PTL

(* For the same programs, every ZOMBIE has a live parent to reap it:       *)
(* exit() leaves no orphan behind, whenever its children and its parent    *)
(* exit or fork.                                                           *)
THEOREM SoloZombieHasParent == ASSUME SoloPrograms PROVE Spec => []ZombieHasParent
  BY SoloInvariance, PTL

(* For the same programs, wait() never sleeps through the exit of a child, *)
(* its own or one that exit() passed on to init.                           *)
THEOREM SoloNoMissedExit == ASSUME SoloPrograms PROVE Spec => []NoMissedExit
  BY SoloInvariance, PTL
=============================================================================

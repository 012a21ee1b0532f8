# Verification of the threaded xv6 kernel (OS163, assignment 2)

The repository is xv6 for x86 with three additions: kernel threads inside
processes (`kthread.c`), kernel mutexes (`mutex.c`), and copy-on-write fork
(`cow_fork`, `cow_wait`, `vm.c`). The user program `fssp` solves the
firing-squad problem with threads and a barrier made of mutexes. This
directory holds TLA+ models of the kernel and of the user programs with
something to get wrong, TLC configurations that check them, and TLAPS proofs
about the process table, the spin locks and the start of the processors, the
mutexes, copy-on-write memory, the log, the buffer cache, pipes, the console
and the clock.

Run from this directory: `tlc -config X.cfg M` for a row of the table of runs;
`tlapm M.tla` for the proofs, with M one of `ProcTableProofs`,
`ProcessorsProofs`, `MutexProofs`, `CowInvariant`, `CowProofs`, `LogProofs`,
`BufCacheProofs`, `StreamsProofs`. Each takes between a minute and half an hour.

## 1. The system

| Part | Source | State | Operations | What makes it hard |
|---|---|---|---|---|
| Processes, scheduler | `proc.c`, `trap.c`, `exec.c` | `ptable`: process states, parents, `killed`, `executed`; per CPU the running thread | fork, exit, wait, kill, `wait_before_exec`, scheduler, sched, sleep, wakeup, yield | two locks (`ptable.lock`, `p->lock`); threads of one process on several CPUs; stacks freed by others |
| Kernel threads | `kthread.c` | thread states, channels, kernel stacks | create, exit, join | join and exit hold different locks |
| Spin locks | `spinlock.c`, `sched()` | `locked`, `lk->cpu`, `cpu->ncli`, `cpu->intena`, the interrupt flag | acquire, release, pushcli, popcli | interrupts at any instruction; a thread that changes CPUs with a lock held |
| Processor start | `main.c`, `entryother.S`, `kalloc.c` | the word with the next stack, `started`, the free list | startothers, mpenter, mpmain, kinit2 | nothing has a lock yet |
| Mutexes | `mutex.c` | `mxtable`: state, id, owner; `nextmxid` | alloc, dealloc, lock, unlock | wakeup after the release; slots reused under waiters; threads that die |
| Firing squad | `fssp.c` | soldier states, barrier counter, two mutexes | `inc_barrier`, `soldier_func`, `main` | mutexes unlocked by other threads; synchrony |
| Shared memory | `vm.c`, `kalloc.c` | page tables, free list, `page_counters` | fork, cow_fork, wait, cow_wait, exec, sbrk, page fault | sharing with counters that not every path maintains |
| Page tables, exec | `vm.c`, `exec.c` | directories, tables, the image under construction | mappages, allocuvm, loaduvm, copyuvm, copyout, exec | memory that runs out in the middle |
| Log | `log.c`, `file.c` | `log.lh`, `outstanding`, `committing`; the on-disk log | begin_op, log_write, end_op, commit, recovery, filewrite | crashes; group commit; space |
| Buffer cache, disk | `bio.c`, `ide.c` | buffers, flags, MRU list, `idequeue` | bget, bread, bwrite, brelse, iderw, ideintr | one channel for two kinds of sleepers; recycling |
| Inodes, names | `fs.c`, `sysfile.c` | inode cache, dinodes, directories | open, create, mkdir, link, unlink, iput | locks taken one after another on a path |
| File contents | `fs.c`, `mkfs.c` | bitmap, direct and indirect blocks | balloc, bmap, writei, itrunc; iappend | blocks reused by other files |
| Open files | `file.c`, `sysfile.c`, `pipe.c` | `ftable`, `proc->ofile` | open, dup, close, pipe, fork, exit | `ofile` has no lock |
| Pipes | `pipe.c` | ring buffer, two counters | write, read, close | wrap-around, closing under a sleeper |
| Console input | `console.c` | ring buffer, three indexes | interrupt, read | editing, saved ^D |
| Clock | `trap.c`, `sysproc.c` | `ticks` | timer interrupt, sys_sleep | wrap-around, late wakeups, kill |
| Shell | `sh.c` | descriptors and children of every process it forks | parse, runcmd | ends of pipes left open; waits that must match |
| Heap | `umalloc.c` | circular free list | malloc, free | joining neighbours |
| grep, libraries, wc | `grep.c`, `ulib.c`, `printf.c`, `string.c`, `wc.c` | buffers | match, grep, memmove, printf, gets ... | ends of buffers and ranges |

The parts meet in a few places: everything sleeps and wakes through `proc.c`,
which runs on the spin locks; `fssp` runs on the mutexes; files run on the log,
the log on the buffer cache; descriptors are shared by fork, and the shell
lives on that. Section 3 says how the models meet.

### Not modelled

- The boot loader, interrupt controllers, serial line, keyboard, screen memory:
  straight-line code or port I/O, whose behaviour is the hardware's.
- System-call argument fetching and the dispatch table: no state.
- Utilities that make a few system calls in a row, and the test programs.
- `mknod`, `chdir`, relative paths, `.` and `..`; offsets of shared open files
  and `fileread`; the shell's `cd` and the reading of its line.
- Segment descriptors; ELF segments that do not start at a page; the layout of
  structures in memory (which decides what `wakeup2` reads past its array,
  `kthread.c:150`); stale TLB entries of sibling threads after copy-on-write.

`PROJECT.json` lists each part with its reason.

## 2. Modules

| Module | Models | Its state and steps |
|---|---|---|
| `ProcTable` | `proc.c`, `kthread.c`, `trap.c`, `wait_before_exec` | a step is a critical section of `ptable.lock` or `p->lock`, cut where somebody with another lock can look: `wait_before_exec` looks at one thread per step, and wakes a sleeper in a step of its own; a tick and the yield() it leads to are two steps, and so are the two ends of exit()'s work on `cwd`. A continuation is `frame[c]` on a CPU and `ctx[t]` switched out, and swtch takes it off the stack (`NoFrame`), so a CPU can be seen on a freed stack and a thread that has left for good can be seen to run again |
| `Spinlock` | `spinlock.c`, the two ends of `sched()` | a flow of control has the frame it is in and a stack of frames that interrupts have suspended; a step is one access to the lock, its owner, `ncli` or the flag. The code between is arbitrary: it takes locks in any order, none that it holds already, and comes to sched() with `ptable.lock` alone |
| `Boot` | `main.c`, `entryother.S`, parts of `kalloc.c` and `vm.c` | a step is one access to the mailbox, a message, or half of `kalloc` |
| `Processors` | the machine | `Spinlock` and `Boot` side by side, with the assumptions on their constants: `ptable` is one of the locks, and low memory has a stack for every processor |
| `MutexTable` | the promise of `mutex.c` | binary semaphores named by ids |
| `Mutex` | `mutex.c` | a step is a critical section of `mxtable.lock`, the sleep, or the wakeup |
| `MutexUsers` | `Mutex` with its callers | programs are `polite` (lock what they got, unlock what they hold) or pass any id |
| `FiringSquad` | `trans_func` as a synchronous automaton | one step per generation |
| `Fssp` | `fssp.c` | one step per mutex operation or access to a soldier's state; main's kthread_join looks at the soldier in one step and goes to sleep in the next |
| `Memory` | the promise of virtual memory | private images |
| `Cow` | `vm.c`, `kalloc.c`, their callers | a step is a system call's work on one page table, a store, or a fault; fork, sbrk and exec also fail, with any part of their pages taken: for want of a page, which gives them back, or in mappages, which does not (`lost`) |
| `PageTable` | `vm.c` without sharing, `exec.c` | directories and tables as pages of `mem`; exec is a step per segment, for the stack, and for the exchange of images; fork, growproc and exit are a step each. `stop` says why a behaviour ends where the code would go on with a page it has not mapped |
| `Disk` | the promise of the log | current and durable contents |
| `Log` | `log.c` | every block written to disk is a step; `Crash` is possible at each |
| `FileWrite` | `filewrite`, the space of the log | one step per block logged; `MCLog` gives it the numbers of `param.h` |
| `BlockStore` | the promise of the buffer cache | a content and at most one user per block |
| `BufCache` | `bio.c`, `ide.c` | a critical section of `bcache.lock` or `idelock`, the drive, the interrupt |
| `Inodes` | `fs.c`, `sysfile.c`: inodes and names | `todo[t]` is the rest of a call; a step is a critical section of `icache.lock` or work on locked inodes |
| `FileTable` | `file.c`, descriptors | a critical section of `ftable.lock` or one access to `ofile` |
| `FileData` | `fs.c`: blocks of files | one block of a write, `itrunc`, or a reload of the inode |
| `Mkfs` | `mkfs.c` | the root, a file's inode and entry, a block of it, the bitmap; an assert of the code ends in `"abort"` |
| `ByteStream`, `Pipe` | a bounded queue; `pipe.c` | from a lock or wakeup to the next sleep or return |
| `Terminal`, `Console` | edited lines; `console.c` input | one character, or one turn of the read loop |
| `Clock` | `ticks`, `sys_sleep` | what is done under `tickslock`; the ghost `passed` counts real ticks |
| `ShellParser` | the parser of `sh.c`, and its grammar | operators, one per function; `Meanings` is the grammar without precedence tricks |
| `Shell` | `main`, `runcmd`, `fork1` | `todo[q]` is the list of system calls a process has still to make; one call per step, and up to `MaxFailures` of them fail |
| `Heap` | `umalloc.c` | one call per step |
| `Grep` | `grep.c` | the matcher as operators; one read of the loop per step |
| `Library` | `string.c`, `ulib.c`, `printf.c`, `cprintf`, `wc.c` | operators, each with what it ought to return |
| `*Proofs`, `CowInvariant` | theorems and their lemmas | |
| `MC*` | instances for TLC | |

`PROJECT.json` maps every definition to the lines it stands for. Some
definitions come in two forms, such as `wakeup1` and, before it,
`wakeup1Nobody`. The first is the code. The other is what the code would be
with a plausible mistake in it; nothing uses it in the model, and the list
`mutants` names the property that catches the mistake.

A `TypeOK` documents the ranges of a module's variables. The ones of
`ProcTable` and `Mutex` are proved as theorems, those of `Spinlock` and `Clock`
as part of their invariants. The invariants of the other components contain
what their proofs need of it (not the range of `panic`; in `Log` not the upper
bounds). None is part of a run, where the other properties say more.

## 3. How the modules are composed

- `Fssp` uses `MutexTable`, not `Mutex`: `Mutex` is shown to implement it
  (`ImplementsTable`, checked and proved). It has a kthread_join of its own,
  in the two steps that `ProcTable` takes for it. `Fssp` in turn implements
  `FiringSquad`.
- `Log` uses buffers as `BlockStore` promises them (the last change is seen,
  one user at a time), plus pinning; `BufCache` implements `BlockStore`.
- `FileWrite` uses of the log what decides on its space; `Log` has the rest.
- `ProcTable` takes a lock in one step, which `Spinlock` justifies: a holder is
  alone and is not interrupted.
- `Shell` runs the commands `ShellParser` builds.
- `Cow`, `Log`, `BufCache`, `Pipe` and `Console` each implement a short
  specification of what they promise, under a refinement mapping at the end of
  the module.
- `MutexUsers` composes `Mutex` with the discipline of its callers, `Processors`
  the spin locks with the start of the CPUs that use them.
- `MCLocks`, `MCPrograms`, `MCLog`, `MCFileSystem` and `MCStreams` put
  independent instances into one state graph. The variable `part` is chosen at
  the start and says which one moves; the state counts add up and do not
  multiply.

## 4. Runs

| Run | Instance | Properties |
|---|---|---|
| `procs` (`MCProcs.cfg`) | 3 processes of one thread, 2 CPUs, kill and failing allocation | `NoMissedExit`: nobody sleeps in wait with a dead child. `StackInUse`: no CPU on a freed stack or page table. `DeadMeansDead`: no schedulable thread in a dead process. `ZombieHasParent`: a dead process has a live parent; deadlock |
| `all_calls` (`MCAllCalls.cfg`) | processes of 2 threads, 2 CPUs, in two mixes of programs (`Mixes`): init and one other with all eight calls; three, where the second forks a child, waits for it in one thread and calls exec in the other | `SchedLocks`: the locks sched() asserts. `LastThreadExits`: the last kthread_exit ends the process |
| `procs_live` (`MCProcsLive.cfg`) | 3 processes, 1 CPU, fair | `InitReaps`, `KilledAwakeExits`; deadlock |
| `locks` (`MCLocks.cfg`) | mutexes: 3 threads that may die, 2 slots, 2 ids. Spin locks: 2 CPUs, a thread that moves between them, 2 locks in either order, interrupts. Start: 3 processors, 6 pages | `NoLostWakeup`, `MutualExclusion`, `WaitsForItsMutex`, `ImplementsTable` of the mutexes. `LocksSafe`: one holder, never interrupted, no panic, and the interrupt flag comes back as it was. `StartsSafely`: a stack for each processor, and nobody beside a user of what has no lock yet |
| `programs` (`MCPrograms.cfg`) | fssp with 4 soldiers, the automaton with 1 to 15; five command lines with a failing call; lines of up to 5 characters; patterns of 4 on texts of 3; files of 8 characters through a buffer of 5; a heap of 10 units; library calls on all small arguments; 2 processes on 18 pages | `EverySquadFires`: all fire in the same generation, no blank table entry, the barrier's counter has one user. `ImplementsSquad`. `ProgramEnds`: all soldiers end, and main does unless kthread_join misses a death. `RunsAsTyped`: descriptors as the command says, and a prompt only when the foreground has ended. `CommandsEnd`: no process is left waiting. `ParsesTheGrammar`. `UtilitiesAgree`: grep, the matcher, the libraries. `HeapExact`: the heap is cut into blocks without gap or overlap. `ImagesExact`: a page has one place, and a process reads the program it was given |
| `cow` (`MCCow.cfg`) | 3 processes, 5 pages, 2 pages to a page-table page; up to 3 pages each for programs without cow_fork (`"big"`), up to 2 with it | `PagesExact`: none lost but by a failing mappages, none free while mapped, counters exact. `OnlyHolder`, `PrivateMemory` |
| `log` (`MCLog.cfg`) | 3 threads, 3 blocks, 2 values; roomy log, and one too small for all calls; a file written up to its maximal size; two writers of 3000 or 6656 bytes | `NoLogPanic`: only a transaction with a call that logs its whole reservation or more overfills the log, and not a long writer alone. `NoLostWakeup`, `DurableWhenQuiet`, `AtomicTransactions` |
| `buf` (`BufCache.cfg`) | 2 threads, 3 buffers, 4 blocks | `OneBufferNoSleeper`, `ImplementsStore`; deadlock |
| `filesystem` (`MCFileSystem.cfg`) | 2 threads on 3 inodes; a process and its child with 2 descriptors each; 2 files on 4 blocks; images of up to 4 files | `SlotsExact`: one slot per inode, no panic but for want of inodes or slots. `LinksExact`, `CountsExact`. `FilesExact`: a block has one use and files read back, also from the image, where only a block past the root's entries may be missing; deadlock |
| `streams` (`MCStreams.cfg`) | pipe of 2 bytes with 2 writers and 2 readers; console ring of 3 with 2 readers; 2 sleepers, `ticks` modulo 3 | `NoSleeperForgotten`: nobody sleeps on when it is time, no pipe is freed in use. `SleepsLongEnough`, `ImplementsStream`, `ImplementsTerminal` |
| `join` (`VJoin.cfg`) | 2 threads, create, exit and join | `NoMissedDeath` is violated |
| `cow_then_wait` (`VCowWait.cfg`) | cow_fork with plain wait | `OnlyHolder` is violated |

**Bounds.** Two CPUs (or two or three threads) are what every race here needs:
each is between one who tests and one who changes. Three processes give init, a
parent and an orphan. With two threads each they are out of reach for all calls
at once; the mixes of `all_calls` keep the two things threads race for, the
slots of one process and a child of two threads. Two mutex slots and two ids let a slot be reused under a
waiter. For the spin locks, `ptable` and another nest either way, as in the code: wait()
calls kfree under `ptable.lock`, sleep() takes `ptable.lock` under the caller's
lock. One thread visits both CPUs; the proof has no bound. Two processors that
take two locks in opposite orders spin for good; whether the whole kernel keeps
to one order is not asked here. Three processors are two that have to
share the mailbox. Three buffers for four blocks force recycling while one is
pinned and one busy. The small log has room for two calls of three, so that
`begin_op` has to wait for space, and for two that fill their reservation to
fill it to the last block; `FileWrite` runs with the real numbers. Three pages
under tables of two let mappages fail at the first page and at the third. Counters
that wrap (`UINT_MAX1`, `UINT`) are small multiples of the ring size, so
wrapping happens in every run; numbers of `Library` have eight bits. Five
characters hold every pair of symbols with words around. Ten units of heap
allow three neighbours with both ends of the list. A process as large as
possible takes ten of the 18 pages, so that exec and fork run out of memory at
every place. `NPTENTRIES`, `MaxSize`, `MaxId`, `MaxBytes`, `MaxRead`,
`MaxPinned`, `MaxOff`, `MaxFailures`, `MaxLine` and `HeapEnd` are bounds of the
model and named in the guards.

**Views.** `MCFileSystem!InUse` leaves out what free slots and blocks still
hold, which is written before it is read. `MCPrograms!View` takes page tables
up to the choice of physical pages: `kalloc` may return any free page, and as
long as `OnePlace` holds (which the view tells apart) no step depends on which
it was.

**Deadlock** is checked where the system always has a next step. It is switched
off where it may really stop: all threads blocked in join or exec, everybody
asleep on a mutex whose owner died, a program that has ended, a panic, a pipe
with both ends closed.

**Fairness** (`procs_live`, `programs`). A thread in the kernel that keeps being
given a CPU gets on with its code; the timer of each CPU keeps ticking, and a
tick waits while interrupts are off (strong fairness of `Tick`); the handler
goes on into yield() and through sched() (weak fairness of `Yield`, `Swtch`); the scheduler's loop passes every runnable thread in
each round; `/init` calls wait() in a loop (`init.c`). Strong fairness is used
where other CPUs may hold the lock now and then. In `fssp` each thread has weak
fairness: a thread that can go on stays able to, except at a contended mutex,
and there the barrier gives every thread its turn. In `Shell` it is enough that
some process takes its next call as long as any can. Programs owe nothing else.

## 5. Proofs

TLAPS proves, for every value of the constants (under the named assumptions:
sizes are positive, `NoCPU` is no CPU, `NoThread` no thread, `NoBlock` no
block, calls are among the known ones, `ptable` is a lock, pages are finite,
memory below 4 MB has a page for every processor's stack, and the width of a
ring's counters is a multiple of the ring's size and larger than it):

- `ProcTableTypes`, `ProcTableSched` (`ProcTableProofs`): `TypeOK` and
  `SchedLocks`, on any number of CPUs, processes and threads.
  `SchedLocks` is not inductive. `Inv` adds what a continuation carries at each
  place (`FramesOK`, `CtxOK`), that a CPU outside the scheduler runs a thread,
  and who holds which lock where (`Locks`): `ptable.lock` is held across steps
  exactly on the way through sched() and out of wait's sleep, and `p->lock`
  only in the scan of `wait_before_exec` and on the way into the sleeps of join
  and exec, by a thread of `p`. Without
  the last part a step could come back to sched() with a process lock. The
  lemma `Moved` does the common part of every action: a CPU that goes to a new
  place and changes locks by `LockRule` keeps the invariant.
- `ProcTableLastThread` (`ProcTableProofs`): `LastThreadExits`, whatever calls
  are made. `LInv` adds to `Inv` that a RUNNABLE process is `Manned`: it has a
  thread that is not gone, or a CPU runs one of its threads that has not reached
  its last `swtch`. Two threads that leave at once are told apart by the lock
  under which each looks for the others.
- `SoloStackInUse`, `SoloDeadMeansDead`, `SoloZombieHasParent`,
  `SoloNoMissedExit` (`ProcTableProofs`): the four properties of the run
  `procs`, on any number of CPUs and processes, with failing allocations. The
  hypothesis `SoloPrograms` says that programs call fork, exit, wait, kill and
  exec only; with kthread_create the first three are false (section 6), and the
  fourth rests on them. `SInv` says that a process uses its first
  thread slot (`OneThread`), what the slot, its stack and the page table look
  like in each state of the process (`Slot`), that a CPU runs a process alone
  (`OneCPU`) and until its end, with no context left on its stack until it is in
  yield() or sched() (`Runner`), that the EMBRYO a fork works on is
  its own and keeps its parent (`Forking`), that everybody but init has a live
  parent (`Parents`), and that who sleeps in wait() has no ZOMBIE child
  (`Sleepers`). The parts need each other: a fork that is switched out must
  find its EMBRYO untouched, and exit() may pass children to init only because
  init is alive.
- `ProcessorsLock`, `ProcessorsStart` (`ProcessorsProofs`): `LocksSafe` and
  `StartsSafely` of `Processors`.
  `SpinInv` is for any number of CPUs, with interrupts nested to any depth. It
  says how `ncli` counts the locks of the frame a CPU is in, that the flag is
  off while it is positive, and that `intena` is the flag from before the first
  lock (`CpuOK`); that an owner is written exactly between `xchg` and the
  clearing in release (`OwnsOK`); that suspended frames hold nothing (`SavedOK`)
  and that a parked flow waits in sched() without a lock (`ParkedOK`). Almost
  every action concerns one CPU, and `LocalStep` carries the rest of the
  invariant over; the two directions of swtch, which pass `ptable.lock` from one
  flow to another, share `HandOverStep`. `Counts(S, n)` says that `n` enumerates
  `S`, instead of a cardinality.
  `BootInv` is for any number of processors. The free list of kinit1 is known
  exactly as long as the boot processor is in startothers (`ListOK`), so that
  processor `c` has been given page `Low + 1 - c`; it alone can be between its
  message and its first instruction (`OtherOK`), so the mailbox holds its
  page; and the others run no kernel code until userinit has made something
  runnable, when `use_lock` is set.
- `MutexTypes`, `MutexIds`, `MutexWakeups`, `MutexRefinement` (`MutexProofs`).
  For `NoLostWakeup` the invariant `WakeInv` adds that a thread on its way into
  sleep holds `mxtable.lock` and its slot is LOCKED. For the refinement,
  `MutexIds` shows that an id stands for one slot; `SemChange` then says how a
  change of one slot is seen in the abstract table, and there is one case per
  action.
- `MutexExcludes`, `MutexWaits` (`MutexProofs`): `MutualExclusion` and
  `WaitsForItsMutex` of `MutexUsers`. `UserInv` ties what the programs believe
  to the table: every id a program knows is allocated (`Named`), what a thread
  holds is LOCKED with that thread as owner (`Held`), and who is inside a call
  passes the ids the discipline allows (`Waits`, `Unlocks`). An id is known
  only from alloc's return until dealloc is called, so two more parts speak of
  the mutex in between: one that alloc is about to return is unknown to
  everybody (`News`), and one that dealloc is about to free has been forgotten
  and is freed by one thread (`Goings`). Without them a slot could be recycled
  under a waiting thread. With `MutexIds`, two holders of one id would be the
  owner of one slot.
- `CowPages`, `CowHolders`, `CowPrivate` (`CowProofs`, on the invariant `Inv` of
  `CowInvariant`): `PagesExact`, `OnlyHolder` and the refinement
  `PrivateMemory` of `Cow`, for any number of processes and pages. `Inv` says
  that a process maps a page once (`Once`), that the free pages are those
  nobody maps and no failing mappages has lost (`Free`, `Lost`), that nobody else maps a page some process can write,
  one that has exited included (`Alone`), and that the counter of a page in use
  is the number of its mappings, or 0 for the page of `inituvm` while init
  alone has it (`Counted`). For programs without `cow_fork` it adds that every
  page is writable (`Plain`), hence in one page table, so that their `freevm`
  may ignore the counters. `Counted` is what the write fault relies on: a
  counter of at most 1 means one mapping (`NobodyElse`), more than 1 means
  another holder stays behind (`SomeoneElse`).
  `CowPrivate` has a lemma per action. Faults, calls that fail and the two
  waits change no image; a store changes one cell of one image,
  because `Alone` and `Once` rule out a second mapping; a page that is freed or
  taken is in nobody's image, by `Free`.
  The hypothesis `Disciplined` is what the code needs and the instance of the
  run `cow` satisfies: programs that use `cow_fork` use none of wait, exec
  and a shrinking sbrk, which free pages without a look at the counters, and
  their pages lie under one page-table page (no `"big"`), as `cow_shareuvm` frees the
  parent's pages when it fails after the first. Without either part the
  statements are false (section 6).
- `LogNoLostWakeup`, `LogDurable`, `LogNeverPanics`, `LogAtomic` (`LogProofs`),
  for any number of threads, blocks
  and values, with a crash between any two steps. `Inv` says that `outstanding`
  counts the calls that are inside (`Counted`); that a commit is one thread's
  while nobody is inside (`Control`); that every block in the log's list was
  written by one of the calls since the last commit (`Calls`); and what the
  buffers, the list, the log blocks and the home blocks hold at each place of a
  commit and of a recovery (`Data`): up to `write_head` the header on disk is
  empty and the log blocks are the buffers, copied up to `tail`; from then on
  every home block up to `tail` is its log block. `LogAtomic` is the
  refinement of `Disk`: only the write of the header that commits is a visible
  `Commit`; the steps that install or erase leave `Recovered` as it is, since
  the home blocks agree with the log by then (`CommitRefines`), and a crash
  takes the buffers back to it.
  All of this needs that the log does not overflow. `Fits` is that
  precondition, and it is shown to hold in two cases: the log has room for
  every block there is (`FewBlocks`, the instance `roomy` of `MCLog`), or no
  call writes more than `MAXOPBLOCKS` blocks (`Reserved`, what `begin_op`
  assumes). In the second case the log's list is at most `MAXOPBLOCKS` times
  the calls of this commit (`UnionBound`), which `begin_op` keeps below
  `LOGSIZE`. That log_write does not panic needs one block less (`Below`),
  because it refuses a log that is full even if the block is in it already:
  with the numbers of `param.h` (10, 30, 30), three calls of ten blocks each
  fill the log, three of nine do not. Writes through `filewrite` can exceed
  their reservation; `FileWrite` checks that case and section 6 says what
  happens.
- `BufCacheOneBuffer`, `BufCacheStore` (`BufCacheProofs`): `OneBufferNoSleeper`
  and the refinement `ImplementsStore`, for any number of threads, buffers and
  blocks. `Inv` ties threads and buffers together: a block has one buffer
  (`Distinct`), who is between bget and brelse holds a busy buffer of its block
  that nobody else holds (`Hand`), the drive works exactly while there is a
  request (`Driver`), and a sleeper waits for a busy buffer or for its own
  request (`SleepsOK`). That much holds with read errors too.
  `BufCacheStore` has the hypothesis `~DiskErrors`, without which it is false
  (section 6). `DInv` adds that only a buffer with data is pinned or handed out
  (`Flags`), that a request is queued once, by a thread that stays in iderw
  until it is done, and the drive does what the first one is for (`Requests`),
  and that a buffer with data that is neither pinned nor being changed is a copy
  of its block (`Clean`), which is why bget may recycle it.
- `StreamsWake`, `StreamsStream`, `StreamsTerminal` (`StreamsProofs`):
  `NoSleeperForgotten` and the refinements `ImplementsStream` and
  `ImplementsTerminal` of `MCStreams`, whose constants are those of the three
  components, for any number of readers and writers and any size of the rings.
  `PipeInv` says that the difference of the counters is at most the ring's size
  (`Counters`), that a call under way keeps its end open (`Calls`), and the
  property itself. It needs that the threads of a process do not share
  descriptors (`~SharedFiles`, section 6). `PipeRInv` and `ConsoleRInv` are
  about the bytes: a step that moves one counter modulo its width moves one
  place in the ring, since the width is a multiple of the size (`ModMod`), so
  the queue gains or loses at its ends only. For the console the line being
  edited holds no newline (`Clean`), hence ^U stops where the line begins.
- `ClockSleeps`, `ClockWakes` (`StreamsProofs`): for any width of `ticks`, a
  sleep that returns 0 was long enough, and nobody is asleep whose time is over.
  The invariant says that at least as many ticks have really passed as the
  unsigned difference shows, and that whoever decided to sleep has read a
  difference that is still the present one, since `tickslock` is held until it
  sleeps.

Model-checked only: the properties of `programs`, `procs_live` and
`filesystem`, and `NoLogPanic` of `filewrite`'s pieces (for calls that keep to
their reservation it is `LogNeverPanics`). Liveness under fairness and what
recursive functions compute for every input are beyond the prover; so the
parser, the matcher, the libraries and the heap stay with TLC. (The prover
cannot use the library's induction rules, whose parameter is an operator.
`UnionBound`, the one induction over numbers that is needed here, goes through
the set of numbers for which the statement holds and the well-foundedness of
`<`.)

Many steps name `Zenon`: the prover translates an obligation for its SMT solver
before it tries anything else, which takes longer the longer a module is, and
these steps do not need it.

## 6. What the checks found

Two runs show the code disagreeing with its own comments.

- **join.** `sleep` (`proc.c:489-492`) promises no missed wakeup once it holds
  `ptable.lock`. kthread_join tests the state under `p->lock` while kthread_exit
  changes it under `ptable.lock`, so the wakeup can come between test and sleep.
- **cow_then_wait.** `cow_copyuvm` (`vm.c:472-473`) takes a page with counter 1
  for its own. wait() uses `freevm`, which ignores counters, so it frees a page
  that the parent of the dead child still maps as shared. In the run the
  parent's own sbrk is then given that page, with counter 1: it maps it twice,
  and a write fault would make the old mapping writable in place.

The following hold in the passing runs only because those leave the situation
out. Each is an edit of a configuration or an MC module, and each was reproduced
with TLC:

| Change | What fails |
|---|---|
| `VJoin.cfg` with `NTHREAD = 3` and one CPU | `NoMissedDeath`: of two joiners the second waits for a thread that is UNUSED already; the panic after the loop is never reached (`kthread.c:128`) |
| `VJoin.cfg` with `"exec"` for `"kthread_join"` | `NoMissedDeath`: the thread in exec sleeps on when its last sibling has gone (`exec.c:120`) |
| `VJoin.cfg` with `StackInUse` | a joiner frees the stack the exiting thread is still on (`kthread.c:116`) |
| `VJoin.cfg` with `DeadMeansDead` and `Calls` extended by `"exit"`, `"wait"` | exit() marks threads that run on; one is schedulable in a dead process (`proc.c:261`) |
| `VJoin.cfg` with `ZombieHasParent`, `NPROC = 3`, `Calls = {"fork", "exit", "wait", "kthread_create"}` | a sibling exits during fork, and the child belongs to a dead process (`proc.c:251`) |
| `VCowWait.cfg`, `Programs = {{"cow_fork", "cow_wait", "exec"}}` | exec frees shared pages (`exec.c:102`) |
| `VCowWait.cfg`, `Programs = {{"cow_fork", "cow_wait", "sbrk", "big"}}`, `NPTENTRIES = 1` | cow_shareuvm fails half way and frees the parent's pages (`vm.c:429`) |
| `BufCache.cfg`, `MaxPinned = 3` | "bget: no buffers", reported as a deadlock (`bio.c:95`) |
| `BufCache.cfg`, `DiskErrors = TRUE` | a failed read counts as valid (`ide.c:114`); `ImplementsStore` |
| `MCStreams.cfg`, `SharedFiles = TRUE` | a pipe is freed under a sibling thread (`pipe.c:71`); `NoSleeperForgotten` |
| `FileTable` with two threads of one process | `ofile` races (`sysfile.c:44`); `CountsExact` |
| `Inodes` with mkdir a, unlink a and create a/b | a file in a directory that has been removed (`sysfile.c:245`); `LinksExact` |
| `MCPrograms`, `ShortReads <- TRUE` | grep drops a part of a line that a short read left without newline (`grep.c:29`); `UtilitiesAgree` |

Seven properties carry an exception in their statement. The runs contain the
exception, and show it to be the only one:

- `Mutex!NoLostWakeup` speaks of the time before any thread has died: an
  unlocker may die before its wakeup (`mutex.c:105`).
- `Pipe!NoLostWakeup` allows bytes left by a writer that was killed
  (`pipe.c:85`).
- `ProgramEnds`: main of `fssp` may miss the death of a soldier in kthread_join
  (`fssp.c:139`, `kthread.c:128`) and sleep for good; this is the race of the
  run `join`.
- `NoLogPanic`: calls of exactly `MAXOPBLOCKS` blocks fill the log to the last
  block, which log_write refuses (`log.c:215`; nlog is LOGSIZE in `mkfs.c:25`),
  and two writers whose pieces take more than their reservation do it with
  6656 bytes each (`file.c:132`).
- `FilesExact`: where the root's entries fill their block, its size is rounded
  up to a block that was never allocated (`mkfs.c:161`); the kernel allocates
  one when it first reads there.
- `PagesExact`: the page that copyuvm or allocuvm has taken when mappages fails
  belongs to nobody (`vm.c:243`, `vm.c:388`).
- `PageTable!OnePlace` counts apart the pages that a failing `setupkvm` or
  `copyuvm` leaves behind (`vm.c:145`, `vm.c:388`).

Some steps of the models are faults of the code that no property forbids. Two
threads of a process in exit() put its directory back twice, or the second finds
`cwd = 0`, and then iput(0) either counts in the first page of the process or
traps (`proc.c:241`). yield() makes a thread RUNNABLE that exit() has marked
ZOMBIE in the meantime, and `wait_before_exec` does so to one it saw SLEEPING
(`proc.c:450`, `exec.c:138`); when such a thread had left for good, the kernel
panics with "zombie exit". `PageTable` and `Cow` end a behaviour where `allocuvm`
ignores that `mappages` failed (`vm.c:243`) and the code would use an address
that is not mapped.

## 7. Plan

Done: the process table and threads first, since everything sleeps in them;
mutexes and `fssp`; memory; log and buffer cache; files; streams; then the spin
locks, the start of the processors, the clock, `filewrite`, `mkfs`, page tables
and exec, and the user programs with an algorithm of their own; then the proofs,
from the locks up to the buffer cache and the streams.

Next, in this order:

1. Model: chdir and relative paths in `Inodes`; offsets of shared files and
   `fileread`; stale TLB entries of sibling threads in `Cow`; `cd` in `Shell`.
2. Check: liveness of sleepers in the mutexes, the log, the buffer cache and
   the pipe, under the fairness of the scheduler.
3. Prove: `CountsExact` of `FileTable` with one thread to a process;
   `Inodes!OneSlot`; `Fssp!Guarded`; `FileData!OneUse`.

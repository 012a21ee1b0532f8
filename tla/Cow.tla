-------------------------------- MODULE Cow --------------------------------
(***************************************************************************)
(* User memory: page tables, the free list, the reference counters of      *)
(* copy-on-write and the page fault that resolves it (vm.c, kalloc.c, and  *)
(* the callers in proc.c, exec.c and trap.c).  Processes have one thread.  *)
(*                                                                         *)
(* pg_count_lock makes cow_shareuvm, cow_copyuvm and cow_deallocuvm        *)
(* atomic; the other loops only fill pages nobody else can reach, or free. *)
(* kalloc may give any free page: the kernel's own allocations come in     *)
(* between, and may fail at any moment.  So may mappages, where a page     *)
(* needs a new page-table page; PageTable models the tables themselves.    *)
(***************************************************************************)
EXTENDS Integers, Sequences, FiniteSets

CONSTANTS
  Proc, initproc, Page,
  NPTENTRIES,     \* user pages under one page-table page (1024)
  MaxSize,        \* bound: user pages of a process
  Programs        \* kinds of programs: the calls they use, see Call

(* "big": the memory of a process may need more than one page-table page.  *)
Call == {"fork", "cow_fork", "wait", "cow_wait", "exec", "sbrk", "shrink", "big"}
ASSUME CowAssumption ==
  /\ NPTENTRIES \in Nat \ {0} /\ MaxSize \in Nat \ {0}
  /\ Programs \subseteq SUBSET Call /\ initproc \in Proc /\ IsFiniteSet(Page)

Val == {"zero", "one"}
Fresh(x) == [pa |-> x, W |-> TRUE, SH |-> FALSE]
Pte == [pa : Page, W : BOOLEAN, SH : BOOLEAN]

VARIABLES
  pstate,          \* "UNUSED", "RUNNABLE" or "ZOMBIE"
  pt,              \* the user part of p->pgdir: a sequence of ptes
  page_counters,
  freelist,
  mem,             \* what each page holds; "junk" once freed
  lost,            \* history: pages a failing mappages left to nobody
  panic,           \* "no", or why the model ends here
  calls            \* what all programs of this behaviour use

vars == <<pstate, pt, page_counters, freelist, mem, lost, panic, calls>>

(* The type invariant.                                                     *)
TypeOK ==
  /\ pstate \in [Proc -> {"UNUSED", "RUNNABLE", "ZOMBIE"}]
  /\ \A p \in Proc : Len(pt[p]) <= MaxSize /\ \A a \in DOMAIN pt[p] : pt[p][a] \in Pte
  /\ page_counters \in [Page -> Int]
  /\ freelist \subseteq Page /\ lost \subseteq Page
  /\ mem \in [Page -> Val \cup {"junk"}]
  /\ panic \in {"no", "trap", "init exiting", "unmapped"}

(* userinit: one process with the page inituvm made, whose counter is 0.   *)
Init ==
  \E pa \in Page :
    /\ pstate = [q \in Proc |-> IF q = initproc THEN "RUNNABLE" ELSE "UNUSED"]
    /\ pt = [q \in Proc |-> IF q = initproc THEN <<Fresh(pa)>> ELSE <<>>]
    /\ page_counters = [x \in Page |-> 0]
    /\ freelist = Page \ {pa}
    /\ mem = [x \in Page |-> IF x = pa THEN "one" ELSE "junk"]
    /\ lost = {} /\ panic = "no" /\ calls \in Programs

-----------------------------------------------------------------------------
Pages(table) == {table[a].pa : a \in DOMAIN table}

(* kfree of every page in S.                                               *)
kfree(S) ==
  /\ freelist' = freelist \cup S
  /\ mem' = [x \in Page |-> IF x \in S THEN "junk" ELSE mem[x]]

(* deallocuvm and freevm do not look at the counters.                      *)
freevm(table) == kfree(Pages(table)) /\ UNCHANGED page_counters

(* cow_deallocuvm and cow_freevm free what nobody else uses.               *)
cow_freevm(table) ==
  LET left == [x \in Page |-> IF x \in Pages(table) THEN page_counters[x] - 1 ELSE page_counters[x]]
  IN /\ page_counters' = left
     /\ kfree({x \in Pages(table) : left[x] = 0})

(* The first UNUSED slots are all alike.                                   *)
CanFork(p, q, call) == call \in calls /\ pstate[p] = "RUNNABLE" /\ pstate[q] = "UNUSED"

(* A new table takes the pages f from the free list, and counts them.      *)
Taken(f) == {f[a] : a \in DOMAIN f}
Distinct(f) == \A a, b \in DOMAIN f : f[a] = f[b] => a = b
Place(f, x) == CHOOSE a \in DOMAIN f : f[a] = x
CountOnce(S) == page_counters' = [x \in Page |-> IF x \in S THEN 1 ELSE page_counters[x]]

(* fork: copyuvm, page by page.                                            *)
fork(p, q) ==
  /\ CanFork(p, q, "fork")
  /\ \E f \in [DOMAIN pt[p] -> freelist] :
       /\ Distinct(f) /\ CountOnce(Taken(f))
       /\ pt' = [pt EXCEPT ![q] = [a \in DOMAIN pt[p] |-> [pt[p][a] EXCEPT !.pa = f[a]]]]
       /\ mem' = [x \in Page |-> IF x \in Taken(f) THEN mem[pt[p][Place(f, x)].pa] ELSE mem[x]]
       /\ freelist' = freelist \ Taken(f)
  /\ pstate' = [pstate EXCEPT ![q] = "RUNNABLE"]
  /\ UNCHANGED panic

(* A call that fails gives the pages S back that it took, counted already. *)
GivesBack(S) ==
  /\ S \subseteq freelist /\ CountOnce(S) /\ kfree(S)
  /\ UNCHANGED <<pstate, pt, panic>>
forkFails(p, q, S) == CanFork(p, q, "fork") /\ Cardinality(S) < Len(pt[p]) /\ GivesBack(S)

(* Where mappages fails, copyuvm gives back the pages it has mapped, and   *)
(* nobody gives back the one it has just taken.                            *)
NeedsTable(n) == n % NPTENTRIES = 0
forkUnmapped(p, q, S, new) ==
  LET n == Cardinality(S) IN
  /\ CanFork(p, q, "fork") /\ n < Len(pt[p]) /\ NeedsTable(n)
  /\ S \subseteq freelist /\ new \in freelist \ S
  /\ CountOnce(S \cup {new})
  /\ freelist' = freelist \ {new} /\ lost' = lost \cup {new}
  /\ mem' = [x \in Page |-> IF x = new THEN mem[pt[p][n + 1].pa] ELSE IF x \in S THEN "junk" ELSE mem[x]]
  /\ UNCHANGED <<pstate, pt, panic>>

(* cow_fork: cow_shareuvm marks and shares the first n pages.              *)
inc_counterPlain(n) == n + 1
inc_counter(n) == IF n = 0 THEN 2 ELSE n + 1
SharedWritable(p, n) == [a \in DOMAIN pt[p] |-> IF a <= n THEN [pt[p][a] EXCEPT !.SH = TRUE] ELSE pt[p][a]]
Shared(p, n) == [a \in DOMAIN pt[p] |-> IF a <= n THEN [pt[p][a] EXCEPT !.SH = TRUE, !.W = FALSE]
                                                  ELSE pt[p][a]]
cow_fork(p, q) ==
  LET table == Shared(p, Len(pt[p])) IN
  /\ CanFork(p, q, "cow_fork")
  /\ pt' = [pt EXCEPT ![p] = table, ![q] = table]
  /\ page_counters' = [x \in Page |-> IF x \in Pages(table) THEN inc_counter(page_counters[x])
                                      ELSE page_counters[x]]
  /\ pstate' = [pstate EXCEPT ![q] = "RUNNABLE"]
  /\ UNCHANGED <<freelist, mem, panic>>

(* mappages fails for want of a page-table page at page n + 1, which is    *)
(* marked already; freevm frees the n pages shared before.                 *)
cow_forkFails(p, q, n) ==
  LET done == SubSeq(pt[p], 1, n) IN
  /\ CanFork(p, q, "cow_fork") /\ n < Len(pt[p]) /\ NeedsTable(n)
  /\ pt' = [pt EXCEPT ![p] = Shared(p, n + 1)]
  /\ page_counters' = [x \in Page |-> IF x \in Pages(done) THEN inc_counter(page_counters[x])
                                      ELSE page_counters[x]]
  /\ kfree(Pages(done))
  /\ UNCHANGED <<pstate, panic>>

-----------------------------------------------------------------------------
(* A store by the program goes through when the page is writable.          *)
Runs(p, a) == pstate[p] = "RUNNABLE" /\ a \in DOMAIN pt[p]
Store(p, a, v) ==
  /\ Runs(p, a) /\ pt[p][a].W
  /\ mem' = [mem EXCEPT ![pt[p][a].pa] = v]
  /\ UNCHANGED <<pstate, pt, page_counters, freelist, panic>>

(* exit(): init may not.                                                   *)
Exits(p) ==
  /\ pstate' = IF p = initproc THEN pstate ELSE [pstate EXCEPT ![p] = "ZOMBIE"]
  /\ panic' = IF p = initproc THEN "init exiting" ELSE panic
  /\ UNCHANGED <<pt, page_counters, freelist, mem>>

(* The page fault of a store, cow_copyuvm: copy a page that is shared,     *)
WriteFault(p, a) == Runs(p, a) /\ ~pt[p][a].W
FaultNoCopy(p, a, new) ==
  LET pa == pt[p][a].pa IN
  /\ WriteFault(p, a) /\ pt[p][a].SH /\ page_counters[pa] > 1
  /\ new \in freelist
  /\ freelist' = freelist \ {new}
  /\ page_counters' = [page_counters EXCEPT ![new] = 1, ![pa] = @ - 1]
  /\ pt' = [pt EXCEPT ![p][a] = Fresh(new)]
  /\ UNCHANGED <<pstate, mem, panic>>
FaultCopy(p, a, new) ==
  LET pa == pt[p][a].pa IN
  /\ WriteFault(p, a) /\ pt[p][a].SH /\ page_counters[pa] > 1
  /\ new \in freelist
  /\ freelist' = freelist \ {new}
  /\ mem' = [mem EXCEPT ![new] = mem[pa]]
  /\ page_counters' = [page_counters EXCEPT ![new] = 1, ![pa] = @ - 1]
  /\ pt' = [pt EXCEPT ![p][a] = Fresh(new)]
  /\ UNCHANGED <<pstate, panic>>
(* make the last reference writable again,                                 *)
FaultTake(p, a) ==
  /\ WriteFault(p, a) /\ pt[p][a].SH /\ page_counters[pt[p][a].pa] <= 1
  /\ pt' = [pt EXCEPT ![p][a] = Fresh(@.pa)]
  /\ UNCHANGED <<pstate, page_counters, freelist, mem, panic>>
(* or fail, and the process is killed.                                     *)
FaultKill(p, a) ==
  /\ WriteFault(p, a)
  /\ ~pt[p][a].SH \/ page_counters[pt[p][a].pa] > 1
  /\ Exits(p)

(* The kernel stores a result (read, fstat, pipe) in the caller's memory.  *)
(* CR0_WP makes it fault on a read-only page, and a fault in the kernel is *)
(* a panic.                                                                *)
KernelStore(p, a) ==
  /\ WriteFault(p, a)
  /\ panic' = "trap"
  /\ UNCHANGED <<pstate, pt, page_counters, freelist, mem>>

-----------------------------------------------------------------------------
(* sbrk: allocuvm adds pages one by one, deallocuvm takes one away.  A     *)
(* process that gives back its last page cannot run on and is not modelled.*)
Limit == IF "big" \in calls \/ MaxSize < NPTENTRIES THEN MaxSize ELSE NPTENTRIES
BelowKernel(p) == Len(pt[p]) < Limit
Grow(p, new) ==
  /\ "sbrk" \in calls /\ pstate[p] = "RUNNABLE"
  /\ BelowKernel(p) /\ new \in freelist
  /\ pt' = [pt EXCEPT ![p] = Append(@, Fresh(new))]
  /\ page_counters' = [page_counters EXCEPT ![new] = 1]
  /\ mem' = [mem EXCEPT ![new] = "zero"]
  /\ freelist' = freelist \ {new}
  /\ UNCHANGED <<pstate, panic>>
GrowFails(p, S) ==
  /\ "sbrk" \in calls /\ pstate[p] = "RUNNABLE"
  /\ Len(pt[p]) + Cardinality(S) < Limit /\ GivesBack(S)
Shrink(p) ==
  LET n == Len(pt[p]) IN
  /\ "shrink" \in calls /\ pstate[p] = "RUNNABLE" /\ n > 1
  /\ pt' = [pt EXCEPT ![p] = SubSeq(@, 1, n - 1)]
  /\ kfree({pt[p][n].pa}) /\ UNCHANGED <<pstate, page_counters, panic>>

(* exec: a new image of n pages that hold g is loaded, the old one freed.  *)
exec(p, n) ==
  /\ "exec" \in calls /\ pstate[p] = "RUNNABLE" /\ n <= Limit
  /\ \E f \in [1 .. n -> freelist], g \in [1 .. n -> Val] :
       /\ Distinct(f) /\ CountOnce(Taken(f))
       /\ pt' = [pt EXCEPT ![p] = [a \in 1 .. n |-> Fresh(f[a])]]
       /\ freelist' = (freelist \ Taken(f)) \cup Pages(pt[p])
       /\ mem' = [x \in Page |-> IF x \in Taken(f) THEN g[Place(f, x)]
                                 ELSE IF x \in Pages(pt[p]) THEN "junk" ELSE mem[x]]
  /\ UNCHANGED <<pstate, panic>>
execFails(p, S) ==
  /\ "exec" \in calls /\ pstate[p] = "RUNNABLE"
  /\ Cardinality(S) <= Limit /\ GivesBack(S)

(* allocuvm does not look at what mappages returns: the page is lost, and  *)
(* the memory has a hole where it should be.  sbrk goes on all the same,   *)
(* exec panics in loaduvm or clearpteu with the pages S of its half-made   *)
(* table, whose contents no longer matter: the model ends.                 *)
Unmapped(S, new) ==
  /\ S \subseteq freelist /\ new \in freelist \ S
  /\ CountOnce(S \cup {new})
  /\ freelist' = freelist \ (S \cup {new}) /\ lost' = lost \cup S \cup {new}
  /\ mem' = [x \in Page |-> IF x \in S \cup {new} THEN "zero" ELSE mem[x]]
  /\ panic' = "unmapped" /\ UNCHANGED <<pstate, pt>>
GrowUnmapped(p, new) ==
  /\ "sbrk" \in calls /\ pstate[p] = "RUNNABLE"
  /\ BelowKernel(p) /\ NeedsTable(Len(pt[p])) /\ Unmapped({}, new)
execUnmapped(p, S, new) ==
  /\ "exec" \in calls /\ pstate[p] = "RUNNABLE"
  /\ Cardinality(S) < Limit /\ NeedsTable(Cardinality(S)) /\ Unmapped(S, new)

exit(p) ==
  /\ pstate[p] = "RUNNABLE" /\ p # initproc
  /\ Exits(p)

(* The parent, or init for an orphan, calls wait or cow_wait.              *)
Reaped(p) ==
  /\ pstate[p] = "ZOMBIE"
  /\ pstate' = [pstate EXCEPT ![p] = "UNUSED"]
  /\ pt' = [pt EXCEPT ![p] = <<>>]
  /\ UNCHANGED panic
wait(p) == "wait" \in calls /\ Reaped(p) /\ freevm(pt[p])
cow_wait(p) == "cow_wait" \in calls /\ Reaped(p) /\ cow_freevm(pt[p])

Step(p) ==
  \/ \E q \in Proc : \/ fork(p, q) \/ cow_fork(p, q)
                    \/ \E n \in 0 .. MaxSize - 1 : cow_forkFails(p, q, n)
                    \/ \E S \in SUBSET freelist : forkFails(p, q, S)
  \/ \E a \in 1 .. MaxSize :
       \/ \E v \in Val : Store(p, a, v)
       \/ \E new \in Page : FaultCopy(p, a, new)
       \/ FaultTake(p, a) \/ FaultKill(p, a) \/ KernelStore(p, a)
  \/ \E new \in Page : Grow(p, new)
  \/ \E S \in SUBSET freelist : GrowFails(p, S) \/ execFails(p, S)
  \/ \E n \in 1 .. MaxSize : exec(p, n)
  \/ Shrink(p) \/ exit(p) \/ wait(p) \/ cow_wait(p)
LosesPage(p) ==
  \E new \in freelist :
    \/ GrowUnmapped(p, new)
    \/ \E S \in SUBSET freelist : execUnmapped(p, S, new) \/ \E q \in Proc : forkUnmapped(p, q, S, new)
Next ==
  /\ panic = "no" /\ UNCHANGED calls
  /\ \E p \in Proc : (Step(p) /\ UNCHANGED lost) \/ LosesPage(p)
Spec == Init /\ [][Next]_vars

-----------------------------------------------------------------------------
Maps(x) == {m \in Proc \X (1 .. MaxSize) : m[2] \in DOMAIN pt[m[1]] /\ pt[m[1]][m[2]].pa = x}

(* A page is on the free list, or mapped, or lost by a mappages that       *)
(* failed, and never two of them.                                          *)
NoLeakNoDangling ==
  /\ freelist \cap lost = {}
  /\ \A x \in Page : x \in freelist \cup lost <=> Maps(x) = {}

(* page_counters is the number of page tables that map a page; 0 stands    *)
(* for 1 on the page of inituvm.                                           *)
CountersExact ==
  \A x \in Page : Maps(x) # {} =>
    \/ page_counters[x] = Cardinality(Maps(x))
    \/ page_counters[x] = 0 /\ Cardinality(Maps(x)) = 1

(* No page is free while it is mapped, none is lost but those of copyuvm   *)
(* and allocuvm whose mappages failed, and page_counters is the number of  *)
(* page tables that map a page.                                            *)
PagesExact == NoLeakNoDangling /\ CountersExact

(* A page that some process can write, and a page that cow_copyuvm takes   *)
(* over ("this is the only process that holds the page"), has no other     *)
(* holder.                                                                 *)
OnlyHolder ==
  \A p \in Proc : \A a \in DOMAIN pt[p] :
    LET e == pt[p][a] IN
    pstate[p] = "RUNNABLE" /\ (e.W \/ (e.SH /\ page_counters[e.pa] <= 1))
      => Maps(e.pa) = {<<p, a>>}

(* Sharing pages is invisible: every process has the private memory that   *)
(* the abstract specification gives it.                                    *)
Image == [p \in Proc |-> IF pstate[p] = "RUNNABLE" THEN [a \in DOMAIN pt[p] |-> mem[pt[p][a].pa]]
                         ELSE <<>>]
Private == INSTANCE Memory WITH Zero <- "zero", image <- Image
PrivateMemory == Private!Spec
=============================================================================

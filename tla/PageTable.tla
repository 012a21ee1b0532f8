------------------------------ MODULE PageTable ------------------------------
(***************************************************************************)
(* Page directories and page tables (vm.c without copy-on-write), and the  *)
(* image exec.c builds with them.  mem maps every allocated page to what   *)
(* it holds: a page directory (a page table or 0 per entry), a page table  *)
(* (an entry per page) or data.  A unit of memory is a word; strings and   *)
(* segments are measured in words.                                         *)
(***************************************************************************)
EXTENDS Integers, Sequences, FiniteSets, TLC, SequencesExt

CONSTANTS Proc, Page,              \* Page: the numbers of physical pages, from 1
          PGSIZE, NPTENTRIES, NPDENTRIES, KERNBASE,
          kmap,                    \* the kernel's pages: a sequence of addresses
          MAXARG,
          Programs,                \* [segs, args]: what exec may be called with
          Increments               \* arguments of growproc

VARIABLES mem,
          pgdir, sz,               \* of the processes; pgdir 0: no process
          new,                     \* what exec has built so far
          running,                 \* the program exec has put in its place
          leaked,                  \* pages a failed setupkvm or copyuvm has left
          stop                     \* "no", or why the model ends here

vars == <<mem, pgdir, sz, new, running, leaked, stop>>

PDX(va) == va \div (PGSIZE * NPTENTRIES)
PTX(va) == (va \div PGSIZE) % NPTENTRIES
PGROUNDDOWN(a) == (a \div PGSIZE) * PGSIZE
PGROUNDUP(a) == PGROUNDDOWN(a + PGSIZE - 1)

NoEntry == [pa |-> 0, u |-> FALSE]
EmptyDir == [k \in 0..(NPDENTRIES - 1) |-> 0]
EmptyTable == [k \in 0..(NPTENTRIES - 1) |-> NoEntry]
Zeroes == [k \in 0..(PGSIZE - 1) |-> 0]

-----------------------------------------------------------------------------
(***************************************************************************)
(* kalloc and kfree.  Which of the free pages comes first is immaterial.   *)
(***************************************************************************)
Free(m) == Page \ DOMAIN m
kalloc(m) == CHOOSE p \in Free(m) : \A q \in Free(m) : p <= q
kfree(m, ps) == [p \in DOMAIN m \ ps |-> m[p]]

(***************************************************************************)
(* The functions of vm.c take the memory and return what becomes of it, as *)
(* [mem, ok, stop] with ok FALSE where the code returns 0 or -1.           *)
(***************************************************************************)
Done(m) == [mem |-> m, ok |-> TRUE, stop |-> "no"]
Fails(m) == [mem |-> m, ok |-> FALSE, stop |-> "no"]
Stops(m, why) == [mem |-> m, ok |-> FALSE, stop |-> why]

\* walkpgdir without alloc, and the assignment through what it returns.
HasTable(m, d, va) == m[d][PDX(va)] # 0
walkpgdir(m, d, va) == IF HasTable(m, d, va) THEN m[m[d][PDX(va)]][PTX(va)] ELSE NoEntry
Enter(m, d, va, pte) == [m EXCEPT ![m[d][PDX(va)]][PTX(va)] = pte]

\* walkpgdir with alloc: the table is made when there is none.
WithTable(m, d, va) ==
    IF HasTable(m, d, va) THEN Done(m)
    ELSE IF Free(m) = {} THEN Fails(m)
    ELSE Done([m @@ (kalloc(m) :> EmptyTable) EXCEPT ![d][PDX(va)] = kalloc(m)])

MapIn(r, d, va, pte) ==
    IF ~r.ok THEN r
    ELSE IF walkpgdir(r.mem, d, va).pa # 0 THEN Stops(r.mem, "remap")
    ELSE Done(Enter(r.mem, d, va, pte))
mappages(m, d, va, pa, u) == MapIn(WithTable(m, d, va), d, va, [pa |-> pa, u |-> u])

KernelFrame == -1
setupkvm(m, d) ==
    FoldLeft(LAMBDA r, va : IF r.ok THEN mappages(r.mem, d, va, KernelFrame, FALSE) ELSE r,
             Done(m @@ (d :> EmptyDir)), kmap)

\* deallocuvm: a page that has no table skips as many pages as a table has.
RECURSIVE Unmap(_, _, _, _)
UnmapPage(m, d, a) ==
    IF walkpgdir(m, d, a).pa = 0 THEN m
    ELSE Enter(kfree(m, {walkpgdir(m, d, a).pa}), d, a, NoEntry)
Unmap(m, d, a, end) ==
    IF a >= end THEN m
    ELSE IF ~HasTable(m, d, a) THEN Unmap(m, d, a + NPTENTRIES * PGSIZE, end)
    ELSE Unmap(UnmapPage(m, d, a), d, a + PGSIZE, end)
deallocuvm(m, d, oldsz, newsz) ==
    IF newsz >= oldsz THEN m ELSE Unmap(m, d, PGROUNDUP(newsz), oldsz)

\* allocuvm does not look at what mappages returns: a page that could not be
\* mapped for want of a table is left out of the image, and the model ends.
Addresses(from, end) ==
    [k \in 1..(IF end > from THEN PGROUNDUP(end - from) \div PGSIZE ELSE 0) |->
        from + (k - 1) * PGSIZE]
Heed(r) == IF r.ok \/ r.stop # "no" THEN r ELSE Stops(r.mem, "unmapped")
AllocPage(r, d, a) ==
    IF ~r.ok THEN r
    ELSE IF Free(r.mem) = {} THEN Fails(r.mem)
    ELSE Heed(mappages(r.mem @@ (kalloc(r.mem) :> Zeroes), d, a, kalloc(r.mem), TRUE))
OrUndoNothing(r, d, oldsz, newsz) == r

OrUndo(r, d, oldsz, newsz) ==
    IF r.ok \/ r.stop # "no" THEN r ELSE Fails(deallocuvm(r.mem, d, newsz, oldsz))
allocuvm(m, d, oldsz, newsz) ==
    IF newsz >= KERNBASE THEN Fails(m)
    ELSE IF newsz < oldsz THEN Done(m)
    ELSE OrUndo(FoldLeft(LAMBDA r, a : AllocPage(r, d, a),
                         Done(m), Addresses(PGROUNDUP(oldsz), newsz)), d, oldsz, newsz)
NewSize(oldsz, newsz) == IF newsz < oldsz THEN oldsz ELSE newsz

freevmTables(m, d) == { m[d][k] : k \in DOMAIN EmptyDir } \ {0}
freevmUser(m, d) == deallocuvm(m, d, KERNBASE, 0)
freevm(m, d) == kfree(freevmUser(m, d), freevmTables(m, d) \cup {d})

clearpteu(m, d, va) == Enter(m, d, va, [walkpgdir(m, d, va) EXCEPT !.u = FALSE])

\* Words written to the pages behind d; copyout writes to user pages only.
Write(m, d, va, ws) ==
    FoldLeft(LAMBDA x, k : [x EXCEPT ![walkpgdir(x, d, va + k - 1).pa][(va + k - 1) % PGSIZE] = ws[k]],
             m, [k \in DOMAIN ws |-> k])
loaduvm(m, d, addr, ws) == Write(m, d, addr, ws)
copyout(m, d, va, ws) ==
    IF \A k \in DOMAIN ws : va + k > 0 /\ walkpgdir(m, d, va + k - 1).u
    THEN Done(Write(m, d, va, ws)) ELSE Fails(m)

\* copyuvm: the pages one by one, each with the permissions it has.
CopyPage(r, d, from, a) ==
    IF ~r.ok THEN r
    ELSE IF Free(r.mem) = {} THEN Fails(r.mem)
    ELSE mappages(r.mem @@ (kalloc(r.mem) :> r.mem[walkpgdir(r.mem, from, a).pa]),
                  d, a, kalloc(r.mem), walkpgdir(r.mem, from, a).u)
OrFree(r, d) == IF r.ok \/ r.stop # "no" THEN r ELSE Fails(freevm(r.mem, d))
copyuvm(m, d, from, size) ==
    LET k == setupkvm(m, d)
    IN IF ~k.ok THEN k
       ELSE OrFree(FoldLeft(LAMBDA r, a : CopyPage(r, d, from, a), k, Addresses(0, size)), d)

-----------------------------------------------------------------------------
(***************************************************************************)
(* exec.  A segment is [vaddr, filesz, memsz, stored]: the last is how     *)
(* many of its words the file really has.  An argument is its length.      *)
(***************************************************************************)
SegWord(s, k) == 1000 * (s + 1) + k
ArgWord(n, k) == 100 * (n + 1) + k
String(n, len) == [k \in 1..len |-> ArgWord(n, k)]

NoExec == [phase |-> "no"]
Nothing == [prog |-> "none"]
Lives(p) == pgdir[p] # 0 /\ stop = "no"

FirstImage(m, d) == AllocPage(setupkvm(m, d), d, 0).mem

Init ==
    LET first == CHOOSE p \in Proc : TRUE
        m == FirstImage(<<>>, 1)
    IN /\ mem = m
       /\ pgdir = [p \in Proc |-> IF p = first THEN 1 ELSE 0]
       /\ sz = [p \in Proc |-> IF p = first THEN PGSIZE ELSE 0]
       /\ new = [p \in Proc |-> NoExec] /\ running = [p \in Proc |-> Nothing]
       /\ leaked = {} /\ stop = "no"

\* What a call that failed has not given back.
Leaks(r) == leaked' = IF r.ok THEN leaked ELSE leaked \cup (DOMAIN r.mem \ DOMAIN mem)

\* The bad: of exec.
ExecBad(p, m) ==
    /\ mem' = freevm(m, new[p].d) /\ new' = [new EXCEPT ![p] = NoExec]
    /\ UNCHANGED stop
Ends(r) == mem' = r.mem /\ stop' = r.stop /\ UNCHANGED new

ExecStart(p, g) ==
    /\ Lives(p) /\ new[p] = NoExec /\ Free(mem) # {}
    /\ LET d == kalloc(mem)
           r == setupkvm(mem, d)
       IN /\ mem' = r.mem
          /\ new' = IF r.ok THEN [new EXCEPT ![p] = [phase |-> "load", d |-> d, sz |-> 0, next |-> 1, prog |-> g]]
                    ELSE new
          /\ Leaks(r) /\ stop' = r.stop
    /\ UNCHANGED <<pgdir, sz, running>>

Loaded(r, d, s, seg) == loaduvm(r.mem, d, seg.vaddr, [k \in 1..seg.filesz |-> SegWord(s, k - 1)])
ExecSegment(p) ==
    /\ Lives(p) /\ new[p] # NoExec /\ new[p].phase = "load" /\ new[p].next <= Len(new[p].prog.segs)
    /\ LET e == new[p]
           seg == e.prog.segs[e.next]
           end == seg.vaddr + seg.memsz
           r == allocuvm(mem, e.d, e.sz, end)
       IN IF seg.memsz < seg.filesz THEN ExecBad(p, mem)
          ELSE IF r.stop # "no" THEN Ends(r)
          ELSE IF ~r.ok \/ seg.stored < seg.filesz THEN ExecBad(p, r.mem)
          ELSE /\ mem' = Loaded(r, e.d, e.next, seg)
               /\ new' = [new EXCEPT ![p].sz = NewSize(e.sz, end), ![p].next = @ + 1]
               /\ UNCHANGED stop
    /\ UNCHANGED <<pgdir, sz, running, leaked>>

ExecStack(p) ==
    /\ Lives(p) /\ new[p] # NoExec /\ new[p].phase = "load" /\ new[p].next > Len(new[p].prog.segs)
    /\ LET e == new[p]
           top == PGROUNDUP(e.sz) + 2 * PGSIZE
           r == allocuvm(mem, e.d, PGROUNDUP(e.sz), top)
       IN IF r.stop # "no" THEN Ends(r)
          ELSE IF ~r.ok THEN ExecBad(p, r.mem)
          ELSE /\ mem' = clearpteu(r.mem, e.d, top - 2 * PGSIZE)
               /\ new' = [new EXCEPT ![p].sz = top, ![p].phase = "args"]
               /\ UNCHANGED stop
    /\ UNCHANGED <<pgdir, sz, running, leaked>>

\* The strings go below each other from the top; then ustack goes below them.
Sp(e, n) == e.sz - FoldLeft(+, 0, SubSeq(e.prog.args, 1, n))
PushArg(r, e, n) ==
    IF r.ok /\ n <= MAXARG THEN copyout(r.mem, e.d, Sp(e, n), String(n, e.prog.args[n])) ELSE Fails(r.mem)
PushArgs(m, e) ==
    FoldLeft(LAMBDA r, n : PushArg(r, e, n), Done(m), [n \in DOMAIN e.prog.args |-> n])
argc(e) == Len(e.prog.args)
ustack(e) ==
    <<-1, argc(e), Sp(e, argc(e)) - (argc(e) + 1)>>
    \o [n \in 1..argc(e) |-> Sp(e, n)] \o <<0>>
FinalSp(e) == Sp(e, argc(e)) - (3 + argc(e) + 1)
PushUstack(r, e) == IF r.ok THEN copyout(r.mem, e.d, FinalSp(e), ustack(e)) ELSE r

ExecCommit(p) ==
    /\ Lives(p) /\ new[p] # NoExec /\ new[p].phase = "args"
    /\ LET e == new[p]
           r == PushUstack(PushArgs(mem, e), e)
       IN IF ~r.ok
          THEN ExecBad(p, r.mem) /\ UNCHANGED <<pgdir, sz, running>>
          ELSE /\ pgdir' = [pgdir EXCEPT ![p] = e.d] /\ sz' = [sz EXCEPT ![p] = e.sz]
               /\ running' = [running EXCEPT ![p] = [prog |-> "exec", of |-> e.prog, top |-> e.sz, sp |-> FinalSp(e)]]
               /\ mem' = freevm(r.mem, pgdir[p])
               /\ new' = [new EXCEPT ![p] = NoExec] /\ UNCHANGED stop
    /\ UNCHANGED leaked

-----------------------------------------------------------------------------
(***************************************************************************)
(* The other users of these functions: sbrk, fork without COW, and wait,   *)
(* which frees the memory of a child that has exited.  A process does not  *)
(* give back the image it runs.                                            *)
(***************************************************************************)
growproc(p, n) ==
    /\ Lives(p) /\ new[p] = NoExec
    /\ sz[p] + n >= IF running[p] = Nothing THEN PGSIZE ELSE running[p].top
    /\ LET r == IF n > 0 THEN allocuvm(mem, pgdir[p], sz[p], sz[p] + n)
                ELSE Done(deallocuvm(mem, pgdir[p], sz[p], sz[p] + n))
       IN /\ mem' = r.mem /\ stop' = r.stop
          /\ sz' = IF r.ok THEN [sz EXCEPT ![p] = @ + n] ELSE sz
    /\ UNCHANGED <<pgdir, new, running, leaked>>

fork(p, q) ==
    /\ Lives(p) /\ new[p] = NoExec /\ pgdir[q] = 0 /\ Free(mem) # {}
    /\ LET d == kalloc(mem)
           r == copyuvm(mem, d, pgdir[p], sz[p])
       IN /\ mem' = r.mem /\ stop' = r.stop /\ Leaks(r)
          /\ pgdir' = IF r.ok THEN [pgdir EXCEPT ![q] = d] ELSE pgdir
          /\ sz' = IF r.ok THEN [sz EXCEPT ![q] = sz[p]] ELSE sz
          /\ running' = IF r.ok THEN [running EXCEPT ![q] = running[p]] ELSE running
    /\ UNCHANGED new

wait(p) ==
    /\ Lives(p) /\ new[p] = NoExec /\ \E q \in Proc \ {p} : pgdir[q] # 0
    /\ mem' = freevm(mem, pgdir[p])
    /\ pgdir' = [pgdir EXCEPT ![p] = 0] /\ sz' = [sz EXCEPT ![p] = 0]
    /\ running' = [running EXCEPT ![p] = Nothing]
    /\ UNCHANGED <<new, leaked, stop>>

Next ==
    \E p \in Proc :
        \/ \E g \in Programs : ExecStart(p, g)
        \/ ExecSegment(p)
        \/ ExecStack(p)
        \/ ExecCommit(p)
        \/ \E n \in Increments : growproc(p, n)
        \/ \E q \in Proc : fork(p, q)
        \/ wait(p)

Spec == Init /\ [][Next]_vars

-----------------------------------------------------------------------------
Dirs == ({ pgdir[p] : p \in Proc } \ {0}) \cup { new[p].d : p \in { q \in Proc : new[q] # NoExec } }
Tables(d) == freevmTables(mem, d)
UserAddresses(d) == { va \in { PGSIZE * k : k \in 0..(KERNBASE \div PGSIZE - 1) } : walkpgdir(mem, d, va).pa # 0 }
Owned(d) == {d} \cup Tables(d) \cup { walkpgdir(mem, d, va).pa : va \in UserAddresses(d) }

\* Every allocated page is a directory, a table or a user page of exactly one
\* address space, at one place of it, whichever call failed for want of memory
\* and whatever ran in between; only what a failed setupkvm or copyuvm leaves is lost.
\* No page is mapped over another (the panic of mappages).
OnePlace ==
    stop = "no" =>
      /\ DOMAIN mem = leaked \cup UNION { Owned(d) : d \in Dirs }
      /\ \A d \in Dirs :
            /\ Owned(d) \cap leaked = {}
            /\ Cardinality(Owned(d)) = 1 + Cardinality({ k \in DOMAIN EmptyDir : mem[d][k] # 0 })
                                         + Cardinality(UserAddresses(d))
            /\ \A c \in Dirs \ {d} : Owned(c) \cap Owned(d) = {}
NoRemap == stop # "remap"

\* What user code of p reads at va.
Readable(p, va) == walkpgdir(mem, pgdir[p], va).u
UserWord(p, va) == mem[walkpgdir(mem, pgdir[p], va).pa][va % PGSIZE]

\* A process reads the program exec was called with: the segments, zeroes up to
\* memsz, argc and argv as main expects them on the stack, and no page below the
\* stack, also while an exec of it has failed or is under way, and after a fork.
RunsItsProgram ==
    stop = "no" => \A p \in { q \in Proc : running[q] # Nothing } :
      LET g == running[p].of
          sp == running[p].sp
          argv == UserWord(p, sp + 2)
      IN /\ \A s \in DOMAIN g.segs, k \in 0..(KERNBASE - 1) :
               k < g.segs[s].memsz =>
                  /\ Readable(p, g.segs[s].vaddr + k)
                  /\ UserWord(p, g.segs[s].vaddr + k) = IF k < g.segs[s].filesz THEN SegWord(s, k) ELSE 0
         /\ UserWord(p, sp + 1) = Len(g.args) /\ UserWord(p, argv + Len(g.args)) = 0
         /\ \A n \in DOMAIN g.args, k \in 1..(2 * PGSIZE) :
               k <= g.args[n] => UserWord(p, UserWord(p, argv + n - 1) + k - 1) = ArgWord(n, k)
         /\ ~Readable(p, running[p].top - PGSIZE - 1)
=============================================================================

-------------------------------- MODULE Heap --------------------------------
(***************************************************************************)
(* malloc and free of the user library (umalloc.c).  Addresses count units *)
(* of one Header; base is unit 0 and lies below the heap, as the static    *)
(* variable does.  hdr is the header at the start of every block that is   *)
(* free or handed out: its size, and for a free one the next of the list.  *)
(***************************************************************************)
EXTENDS Naturals, FiniteSets, FiniteSetsExt

CONSTANTS HeapEnd,     \* sbrk fails beyond this unit
          MinCore,     \* 4096: the units morecore asks for at least
          Requests     \* values of nbytes

VARIABLES hdr, freep, brk,
          lent,        \* nbytes of the blocks the program holds
          core         \* the units morecore has got from sbrk

heapVars == <<hdr, freep, brk, lent, core>>

sizeofHeader == 8
base == 0

\* freep is set up by the first malloc; here it has been.
Init ==
    /\ hdr = [x \in {base} |-> [ptr |-> base, size |-> 0]]
    /\ freep = base
    /\ brk = 1
    /\ lent = [x \in {} |-> 0]
    /\ core = {}

\* A heap: the headers and freep.  Set(h, x, ...) writes the header of x.
Set(h, x, next, n) ==
    [h EXCEPT !.hdr = [y \in DOMAIN @ \cup {x} |->
                         IF y = x THEN [ptr |-> next, size |-> n] ELSE @[y]]]
Forget(h, x) == [h EXCEPT !.hdr = [y \in DOMAIN @ \ {x} |-> @[y]]]
ptr(h, x) == h.hdr[x].ptr
size(h, x) == h.hdr[x].size

-----------------------------------------------------------------------------
\* free: the place p of the list that bp belongs behind; then bp is joined
\* with the block above it, and the block below with it.
RECURSIVE Place(_, _, _)
Place(h, bp, x) ==
    IF \/ bp > x /\ bp < ptr(h, x)
       \/ x >= ptr(h, x) /\ (bp > x \/ bp < ptr(h, x))
    THEN x ELSE Place(h, bp, ptr(h, x))

JoinUp(h, bp, x) ==
    LET up == ptr(h, x)
    IN IF bp + size(h, bp) = up
       THEN Forget(Set(h, bp, ptr(h, up), size(h, bp) + size(h, up)), up)
       ELSE Set(h, bp, up, size(h, bp))
JoinDown(h, bp, x) ==
    IF x + size(h, x) = bp
    THEN Forget(Set(h, x, ptr(h, bp), size(h, x) + size(h, bp)), bp)
    ELSE Set(h, x, bp, size(h, x))

freeWithoutJoin(h, bp) ==
    LET x == Place(h, bp, h.freep)
    IN [JoinDown(Set(h, bp, ptr(h, x), size(h, bp)), bp, x) EXCEPT !.freep = x]

free(h, bp) ==
    LET x == Place(h, bp, h.freep)
    IN [JoinDown(JoinUp(h, bp, x), bp, x) EXCEPT !.freep = x]

\* malloc's loop.  h.brk is the break that morecore moves; None is a null
\* pointer.
None == [block |-> base]
CoreUnits(n) == IF n < MinCore THEN MinCore ELSE n

RECURSIVE Search(_, _, _, _)
Search(h, prevp, x, n) ==
    IF size(h, x) = n
    THEN [block |-> x,
          h |-> [Set(Set(h, prevp, ptr(h, x), size(h, prevp)), x, base, n) EXCEPT !.freep = prevp]]
    ELSE IF size(h, x) > n
    THEN LET rest == size(h, x) - n
         IN [block |-> x + rest,
             h |-> [Set(Set(h, x, ptr(h, x), rest), x + rest, base, n) EXCEPT !.freep = prevp]]
    ELSE IF x # h.freep THEN Search(h, x, ptr(h, x), n)
    ELSE IF h.brk + CoreUnits(n) > HeapEnd THEN None
    ELSE LET more == free(Set([h EXCEPT !.brk = @ + CoreUnits(n)], h.brk, base, CoreUnits(n)), h.brk)
         IN Search(more, more.freep, ptr(more, more.freep), n)

nunits(nbytes) == (nbytes + sizeofHeader - 1) \div sizeofHeader + 1

-----------------------------------------------------------------------------
Heap == [hdr |-> hdr, freep |-> freep, brk |-> brk]
Becomes(h) == hdr' = h.hdr /\ freep' = h.freep /\ brk' = h.brk

Malloc(nbytes) ==
    LET found == Search(Heap, freep, ptr(Heap, freep), nunits(nbytes))
    IN IF found = None THEN UNCHANGED heapVars
       ELSE /\ Becomes(found.h)
            /\ lent' = [x \in DOMAIN lent \cup {found.block} |->
                          IF x = found.block THEN nbytes ELSE lent[x]]
            /\ core' = core \cup (brk..(found.h.brk - 1))

Free(x) ==
    /\ Becomes(free(Heap, x))
    /\ lent' = [y \in DOMAIN lent \ {x} |-> lent[y]]
    /\ UNCHANGED core

\* The program moves the break itself, so that the heap gets a hole.
Sbrk == /\ brk < HeapEnd
        /\ brk' = brk + 1
        /\ UNCHANGED <<hdr, freep, lent, core>>

Next == \/ \E nbytes \in Requests : Malloc(nbytes)
        \/ \E x \in DOMAIN lent : Free(x)
        \/ Sbrk

-----------------------------------------------------------------------------
FreeBlocks == DOMAIN hdr \ DOMAIN lent
Units(x) == x..(x + hdr[x].size - 1)

\* The blocks that are free and the blocks that are lent out share no unit and
\* make up all the core there is, so nothing is handed out twice and nothing is
\* lost; a block is as large as asked; the free list goes once around all free
\* blocks, upwards but for one step back; and no two free blocks touch.
HeapExact ==
    /\ \A x, y \in DOMAIN hdr : x # y => Units(x) \cap Units(y) = {}
    /\ UNION { Units(x) : x \in DOMAIN hdr } = core
    /\ \A x \in DOMAIN lent : (hdr[x].size - 1) * sizeofHeader >= lent[x]
    /\ freep \in FreeBlocks
    /\ { hdr[x].ptr : x \in FreeBlocks } = FreeBlocks
    /\ Cardinality({ x \in FreeBlocks : hdr[x].ptr <= x }) = 1
    /\ \A x \in FreeBlocks \ {base} : x + hdr[x].size \notin FreeBlocks
=============================================================================

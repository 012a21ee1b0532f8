------------------------------ MODULE BufCache ------------------------------
(***************************************************************************)
(* The buffer cache (bio.c) over the IDE driver (ide.c) and its disk.  A   *)
(* step is one critical section of bcache.lock or idelock; both sleep()s   *)
(* use the buffer as their channel, so each wakeup(b) wakes the sleepers   *)
(* of either.  A thread has one buffer in hand at a time.                  *)
(*                                                                         *)
(* log_write pins a buffer with B_DIRTY; the log limits how many.          *)
(***************************************************************************)
EXTENDS Integers, Sequences, FiniteSets, Functions, TLC

CONSTANTS
  Thread, NoThread, Block, NoBlock, Val, NBUF,
  MaxPinned,       \* blocks the log can hold
  DiskErrors       \* can the disk fail to read?

ASSUME BufAssumption ==
  /\ NBUF \in Nat \ {0} /\ MaxPinned \in Nat /\ DiskErrors \in BOOLEAN
  /\ NoBlock \notin Block /\ NoThread \notin Thread

Buf == 1 .. NBUF
NoBuf == 0

VARIABLES
  blockno, data, busy, valid, dirty,  \* struct buf; the flags as sets of buffers
  mru,                                \* the list from head.next to head.prev
  idequeue,
  disk, drive, irq,                   \* blocks; the drive's state; interrupt pending
  pc, want, held, asleep,             \* per thread
  panic

buf == <<blockno, data, busy, valid, dirty>>
device == <<disk, drive, irq>>
thread == <<pc, want, held, asleep>>
vars == <<buf, mru, idequeue, device, thread, panic>>

Holding == {"fill", "io", "have", "changed"}

(* The type invariant.                                                     *)
TypeOK ==
  /\ blockno \in [Buf -> Block \cup {NoBlock}] /\ data \in [Buf -> Val]
  /\ busy \subseteq Buf /\ valid \subseteq Buf /\ dirty \subseteq Buf
  /\ mru \in [1 .. NBUF -> Buf] /\ Range(mru) = Buf
  /\ Range(idequeue) \subseteq Buf /\ Len(idequeue) <= Cardinality(Thread)
  /\ disk \in [Block -> Val] /\ drive \in {"idle", "read", "write"} /\ irq \in BOOLEAN
  /\ pc \in [Thread -> {"user", "bget"} \cup Holding]
  /\ want \in [Thread -> Block \cup {NoBlock}]
  /\ held \in [Thread -> Buf \cup {NoBuf}]
  /\ asleep \in [Thread -> Buf \cup {NoBuf}]
  /\ panic \in {"no", "bget: no buffers"}

(* binit: the last buffer ends up at the front.                            *)
Init ==
  /\ blockno = [b \in Buf |-> NoBlock]
  /\ \E v \in Val : data = [b \in Buf |-> v]
  /\ busy = {} /\ valid = {} /\ dirty = {}
  /\ mru = [i \in 1 .. NBUF |-> NBUF + 1 - i] /\ idequeue = <<>>
  /\ disk \in [Block -> Val] /\ drive = "idle" /\ irq = FALSE
  /\ pc = [t \in Thread |-> "user"] /\ want = [t \in Thread |-> NoBlock]
  /\ held = [t \in Thread |-> NoBuf] /\ asleep = [t \in Thread |-> NoBuf]
  /\ panic = "no"

Goto(t, l) == pc' = [pc EXCEPT ![t] = l]
At(t, l) == pc[t] = l /\ asleep[t] = NoBuf
SleepOn(t, b) == asleep' = [asleep EXCEPT ![t] = b]
WakeupNobody(b) == UNCHANGED asleep
Wakeup(b) == asleep' = [t \in Thread |-> IF asleep[t] = b THEN NoBuf ELSE asleep[t]]

-----------------------------------------------------------------------------
(* bread: bget, then fill the buffer from the disk.                        *)
Bread(t, k) ==
  /\ At(t, "user")
  /\ Goto(t, "bget") /\ want' = [want EXCEPT ![t] = k]
  /\ UNCHANGED <<buf, mru, idequeue, device, held, asleep, panic>>

Cached(k) == {b \in Buf : blockno[b] = k}

BgetHit(t, b) ==
  /\ At(t, "bget") /\ b \in Cached(want[t]) \ busy
  /\ busy' = busy \cup {b}
  /\ Goto(t, "fill") /\ held' = [held EXCEPT ![t] = b]
  /\ UNCHANGED <<blockno, data, valid, dirty, mru, idequeue, device, want, asleep, panic>>
BgetSleep(t, b) ==
  /\ At(t, "bget") /\ b \in Cached(want[t]) \cap busy
  /\ SleepOn(t, b)
  /\ UNCHANGED <<buf, mru, idequeue, device, pc, want, held, panic>>

(* The least recently used buffer that is neither busy nor pinned.         *)
RecyclablePinned == {i \in 1 .. NBUF : mru[i] \notin busy}
Recyclable == {i \in 1 .. NBUF : mru[i] \notin busy \cup dirty}
BgetRecycle(t) ==
  LET b == mru[CHOOSE i \in Recyclable : \A j \in Recyclable : j <= i] IN
  /\ At(t, "bget") /\ Cached(want[t]) = {} /\ Recyclable # {}
  /\ blockno' = [blockno EXCEPT ![b] = want[t]]
  /\ busy' = busy \cup {b} /\ valid' = valid \ {b}
  /\ Goto(t, "fill") /\ held' = [held EXCEPT ![t] = b]
  /\ UNCHANGED <<data, dirty, mru, idequeue, device, want, asleep, panic>>
BgetPanic(t) ==
  /\ At(t, "bget") /\ Cached(want[t]) = {} /\ Recyclable = {}
  /\ panic' = "bget: no buffers"
  /\ UNCHANGED <<buf, mru, idequeue, device, thread>>

(* iderw: queue the buffer, start an idle disk, sleep until it is done.    *)
idestart(b, isDirty) == drive' = IF isDirty THEN "write" ELSE "read"
iderw(t, isDirty) ==
  LET b == held[t] IN
  /\ idequeue' = Append(idequeue, b)
  /\ IF idequeue = <<>> THEN idestart(b, isDirty) ELSE UNCHANGED drive
  /\ Goto(t, "io") /\ SleepOn(t, b)
  /\ UNCHANGED <<disk, irq, want, held>>

FillValid(t) ==
  /\ At(t, "fill") /\ held[t] \in valid
  /\ Goto(t, "have")
  /\ UNCHANGED <<buf, mru, idequeue, device, want, held, asleep, panic>>
FillRead(t) ==
  /\ At(t, "fill") /\ held[t] \notin valid
  /\ iderw(t, FALSE)
  /\ UNCHANGED <<buf, mru, panic>>
IoAgain(t) ==
  /\ At(t, "io")
  /\ IF held[t] \in valid \ dirty THEN Goto(t, "have") /\ UNCHANGED asleep
                                  ELSE SleepOn(t, held[t]) /\ UNCHANGED pc
  /\ UNCHANGED <<buf, mru, idequeue, device, want, held, panic>>

(* The holder changes the data, and passes it to log_write or bwrite.      *)
Change(t, v) ==
  /\ At(t, "have")
  /\ data' = [data EXCEPT ![held[t]] = v]
  /\ Goto(t, "changed")
  /\ UNCHANGED <<blockno, busy, valid, dirty, mru, idequeue, device, want, held, asleep, panic>>
log_write(t) ==
  /\ At(t, "changed")
  /\ Cardinality((dirty \ Range(idequeue)) \cup {held[t]}) <= MaxPinned
  /\ dirty' = dirty \cup {held[t]}
  /\ Goto(t, "have")
  /\ UNCHANGED <<blockno, data, busy, valid, mru, idequeue, device, want, held, asleep, panic>>
bwrite(t) ==
  /\ At(t, "have") \/ At(t, "changed")
  /\ dirty' = dirty \cup {held[t]}
  /\ iderw(t, TRUE)
  /\ UNCHANGED <<blockno, data, busy, valid, mru, panic>>

(* To the head of the MRU list.                                            *)
Touched(b) ==
  LET at == CHOOSE i \in 1 .. NBUF : mru[i] = b
  IN [i \in 1 .. NBUF |-> IF i = 1 THEN b ELSE IF i <= at THEN mru[i - 1] ELSE mru[i]]
brelse(t) ==
  LET b == held[t] IN
  /\ At(t, "have")
  /\ mru' = Touched(b)
  /\ busy' = busy \ {b}
  /\ Wakeup(b)
  /\ Goto(t, "user")
  /\ want' = [want EXCEPT ![t] = NoBlock] /\ held' = [held EXCEPT ![t] = NoBuf]
  /\ UNCHANGED <<blockno, data, valid, dirty, idequeue, device, panic>>

-----------------------------------------------------------------------------
(* The drive carries out the request at the head of the queue.  What is    *)
(* written was handed over by idestart: the buffer is busy until then.     *)
DiskDone ==
  LET b == Head(idequeue) IN
  /\ drive # "idle" /\ ~irq
  /\ disk' = IF drive = "write" THEN [disk EXCEPT ![blockno[b]] = data[b]] ELSE disk
  /\ irq' = TRUE
  /\ UNCHANGED <<buf, mru, idequeue, drive, thread, panic>>

(* ideintr: finish the first request, wake its sleepers, start the next.   *)
(* After an error the data are not read, but the buffer becomes valid.     *)
ideintr(ok) ==
  LET b == Head(idequeue)
      rest == Tail(idequeue)
  IN /\ irq /\ irq' = FALSE
     /\ ok \/ (DiskErrors /\ b \notin dirty)
     /\ idequeue' = rest
     /\ data' = IF b \notin dirty /\ ok THEN [data EXCEPT ![b] = disk[blockno[b]]] ELSE data
     /\ valid' = valid \cup {b} /\ dirty' = dirty \ {b}
     /\ Wakeup(b)
     /\ IF rest # <<>> THEN idestart(Head(rest), Head(rest) \in dirty) ELSE drive' = "idle"
     /\ UNCHANGED <<blockno, busy, mru, disk, pc, want, held, panic>>

Kernel(t) ==
  \/ \E b \in Buf : BgetHit(t, b) \/ BgetSleep(t, b)
  \/ BgetRecycle(t) \/ BgetPanic(t) \/ FillValid(t) \/ FillRead(t) \/ IoAgain(t)
Next ==
  /\ panic = "no"
  /\ \/ \E t \in Thread : \/ Kernel(t) \/ log_write(t) \/ bwrite(t) \/ brelse(t)
                          \/ (\E k \in Block : Bread(t, k)) \/ (\E v \in Val : Change(t, v))
     \/ DiskDone \/ \E ok \in BOOLEAN : ideintr(ok)
Spec == Init /\ [][Next]_vars

-----------------------------------------------------------------------------
(* A block has at most one buffer, and a busy buffer exactly one user: two *)
(* threads that miss at once do not both load the block.                   *)
OneBuffer ==
  /\ \A k \in Block : Cardinality(Cached(k)) <= 1
  /\ \A b \in busy : Cardinality({t \in Thread : held[t] = b}) = 1
  /\ \A t \in Thread : pc[t] \in Holding <=> held[t] \in busy /\ blockno[held[t]] = want[t]

(* No lost wakeup: whoever sleeps in bget sleeps on a buffer that is busy, *)
(* whoever sleeps in iderw on one the disk has still to do.                *)
NoLostWakeup ==
  \A t \in Thread : asleep[t] # NoBuf =>
    IF pc[t] = "bget" THEN asleep[t] \in busy ELSE asleep[t] \in Range(idequeue)

(* No block has two buffers, which bget's second search could cause, and   *)
(* nobody sleeps for a buffer that nobody is going to release.             *)
OneBufferNoSleeper == OneBuffer /\ NoLostWakeup

(* The cache implements one content and one user per block: no change is   *)
(* lost by recycling, and every bread sees the last one.                   *)
Content ==
  [k \in Block |-> IF \E b \in Cached(k) : b \in valid THEN data[CHOOSE b \in Cached(k) : b \in valid]
                   ELSE disk[k]]
User(k) == {t \in Thread : want[t] = k /\ (pc[t] \in {"have", "changed"} \/ (pc[t] = "io" /\ held[t] \in valid))}
OneOf(S) == IF S = {} THEN NoThread ELSE CHOOSE t \in S : TRUE
UserOf == [k \in Block |-> OneOf(User(k))]
Store == INSTANCE BlockStore WITH content <- Content, user <- UserOf
ImplementsStore == Store!Spec

(* Threads, blocks and values are alike, for TLC.                          *)
Symmetry == Permutations(Thread) \cup Permutations(Block) \cup Permutations(Val)
=============================================================================

-------------------------------- MODULE Log --------------------------------
(***************************************************************************)
(* The redo log of the file system (log.c), over the buffer cache as log.c *)
(* uses it: a buffer with B_DIRTY is pinned, any other may be evicted at   *)
(* any moment.  Every bwrite is a step, and the machine may crash between  *)
(* any two steps, recovery included; a disk block is written whole or not  *)
(* at all.                                                                 *)
(*                                                                         *)
(* A system call is begin_op, any number of log_writes, end_op.  What it   *)
(* writes is a parameter: a call writes blocks of one of the sets Writes,  *)
(* each of them as often as it likes.                                      *)
(***************************************************************************)
EXTENDS Integers, Sequences, FiniteSets

CONSTANTS
  Thread, Block, Val,
  Writes,          \* the sets of blocks system calls write
  MAXOPBLOCKS, LOGSIZE,
  nlog             \* sb.nlog, the size of the on-disk log, header included

ASSUME LogAssumption ==
  /\ MAXOPBLOCKS \in Nat \ {0} /\ LOGSIZE \in Nat \ {0} /\ nlog \in Nat \ {0}
  /\ MAXOPBLOCKS <= LOGSIZE
  /\ IsFiniteSet(Thread) /\ Thread # {}
  /\ 0 \notin Block          \* the boot block is no block of the file system
  /\ Writes \subseteq SUBSET Block

VARIABLES
  home, logblk, head,          \* on disk: blocks, log blocks, log header
  cache, dirty,                \* buffers: contents, and the pinned ones
  outstanding, committing, lh, \* struct log
  pc, arg, mine,               \* per thread: place, the block in hand, those of its call
  tail,                        \* the loop counter of write_log and install_trans
  panic

disk == <<home, logblk, head>>
log == <<outstanding, committing, lh>>
vars == <<disk, cache, dirty, log, pc, arg, mine, tail, panic>>

NoBlock == 0
Committer == {"write_log", "write_head", "install", "clear", "finish"}

(* The type invariant.                                                     *)
TypeOK ==
  /\ home \in [Block -> Val] /\ cache \in [Block -> Val]
  /\ logblk \in [1 .. LOGSIZE -> Val]
  /\ Len(head) <= LOGSIZE /\ Len(lh) <= LOGSIZE
  /\ \A i \in DOMAIN head : head[i] \in Block
  /\ \A i \in DOMAIN lh : lh[i] \in Block
  /\ dirty \subseteq Block
  /\ outstanding \in 0 .. Cardinality(Thread) /\ committing \in BOOLEAN
  /\ pc \in [Thread -> {"user", "begin", "asleep", "op", "append", "down"} \cup Committer]
  /\ arg \in [Thread -> Block \cup {NoBlock}] /\ mine \in [Thread -> SUBSET Block]
  /\ tail \in 0 .. LOGSIZE
  /\ panic \in {"no", "too big a transaction", "log_write outside of trans", "log.committing"}

(* After mkfs and initlog on a clean log.                                  *)
Init ==
  /\ home \in [Block -> Val] /\ cache = home /\ dirty = {}
  /\ \E v \in Val : logblk = [i \in 1 .. LOGSIZE |-> v]
  /\ head = <<>> /\ lh = <<>>
  /\ outstanding = 0 /\ committing = FALSE
  /\ pc = [t \in Thread |-> "user"] /\ arg = [t \in Thread |-> NoBlock]
  /\ mine = [t \in Thread |-> {}] /\ tail = 0 /\ panic = "no"

Goto(t, l) == pc' = [pc EXCEPT ![t] = l]
(* wakeup(&log), together with a move of the caller.                       *)
WakeupNobody(t, l) == Goto(t, l)
WakeupAnd(t, l) ==
  pc' = [u \in Thread |-> IF u = t THEN l ELSE IF pc[u] = "asleep" THEN "begin" ELSE pc[u]]

-----------------------------------------------------------------------------
SysCall(t) ==
  /\ pc[t] = "user" /\ Goto(t, "begin")
  /\ \E blocks \in Writes : mine' = [mine EXCEPT ![t] = blocks]
  /\ UNCHANGED <<disk, cache, dirty, log, arg, tail, panic>>

(* begin_op: wait for a commit, or for room for one more system call.      *)
MustWaitCommit == committing
MustWait == committing \/ Len(lh) + (outstanding + 1) * MAXOPBLOCKS > LOGSIZE
BeginSleep(t) ==
  /\ pc[t] = "begin" /\ MustWait
  /\ Goto(t, "asleep")
  /\ UNCHANGED <<disk, cache, dirty, log, arg, mine, tail, panic>>
begin_op(t) ==
  /\ pc[t] = "begin" /\ ~MustWait
  /\ outstanding' = outstanding + 1
  /\ Goto(t, "op")
  /\ UNCHANGED <<disk, cache, dirty, committing, lh, arg, mine, tail, panic>>

(* The caller has changed a busy buffer and calls log_write, which looks   *)
(* at the size of the log before it takes log.lock.                        *)
Full == Len(lh) >= LOGSIZE \/ Len(lh) >= nlog - 1
Modify(t, b, v) ==
  /\ pc[t] = "op" /\ b \in mine[t] /\ \A u \in Thread : arg[u] # b
  /\ cache' = [cache EXCEPT ![b] = v]
  /\ IF Full \/ outstanding < 1
     THEN /\ panic' = IF Full THEN "too big a transaction" ELSE "log_write outside of trans"
          /\ UNCHANGED <<pc, arg>>
     ELSE Goto(t, "append") /\ arg' = [arg EXCEPT ![t] = b] /\ UNCHANGED panic
  /\ UNCHANGED <<disk, dirty, log, mine, tail>>
(* Record the block once (absorption), pin the buffer, brelse it.          *)
log_write(t) ==
  LET b == arg[t] IN
  /\ pc[t] = "append"
  /\ lh' = IF \E i \in DOMAIN lh : lh[i] = b THEN lh ELSE Append(lh, b)
  /\ dirty' = dirty \cup {b}
  /\ Goto(t, "op") /\ arg' = [arg EXCEPT ![t] = NoBlock]
  /\ UNCHANGED <<disk, cache, outstanding, committing, mine, tail, panic>>

(* The buffer cache recycles a clean buffer that nobody holds.             *)
Evict(b) ==
  /\ b \notin dirty /\ \A t \in Thread : arg[t] # b
  /\ cache' = [cache EXCEPT ![b] = home[b]]
  /\ UNCHANGED <<disk, dirty, log, pc, arg, mine, tail, panic>>

-----------------------------------------------------------------------------
(* end_op: the last system call out commits for all.                       *)
end_op(t) ==
  /\ pc[t] = "op"
  /\ outstanding' = outstanding - 1
  /\ IF committing THEN panic' = "log.committing" /\ UNCHANGED <<pc, committing, mine, tail>>
     ELSE /\ IF outstanding = 1
             THEN /\ committing' = TRUE
                  /\ Goto(t, IF lh = <<>> THEN "finish" ELSE "write_log")
             ELSE committing' = FALSE /\ WakeupAnd(t, "user")
          /\ mine' = [mine EXCEPT ![t] = {}] /\ tail' = 0 /\ UNCHANGED panic
  /\ UNCHANGED <<disk, cache, dirty, lh, arg>>

(* commit(): copy the pinned buffers to the log, write the header,         *)
write_logOld(t) ==
  /\ pc[t] = "write_log"
  /\ logblk' = [logblk EXCEPT ![tail + 1] = home[lh[tail + 1]]]
  /\ IF tail + 1 = Len(lh) THEN tail' = 0 /\ Goto(t, "write_head")
                           ELSE tail' = tail + 1 /\ UNCHANGED pc
  /\ UNCHANGED <<home, head, cache, dirty, log, arg, mine, panic>>
write_log(t) ==
  /\ pc[t] = "write_log"
  /\ logblk' = [logblk EXCEPT ![tail + 1] = cache[lh[tail + 1]]]
  /\ IF tail + 1 = Len(lh) THEN tail' = 0 /\ Goto(t, "write_head")
                           ELSE tail' = tail + 1 /\ UNCHANGED pc
  /\ UNCHANGED <<home, head, cache, dirty, log, arg, mine, panic>>
write_head(t) ==
  /\ pc[t] = "write_head"
  /\ head' = lh
  /\ Goto(t, "install")
  /\ UNCHANGED <<home, logblk, cache, dirty, log, arg, mine, tail, panic>>
(* install_trans: bring every block home, which unpins its buffer,         *)
InstallBlock ==
  LET b == lh[tail + 1] IN
  /\ home' = [home EXCEPT ![b] = logblk[tail + 1]]
  /\ cache' = [cache EXCEPT ![b] = logblk[tail + 1]]
  /\ dirty' = dirty \ {b}
install_trans(t) ==
  /\ pc[t] = "install"
  /\ InstallBlock
  /\ IF tail + 1 = Len(lh) THEN tail' = 0 /\ Goto(t, "clear")
                           ELSE tail' = tail + 1 /\ UNCHANGED pc
  /\ UNCHANGED <<logblk, head, log, arg, mine, panic>>
(* and erase the transaction.                                              *)
EraseInMemory(t) ==
  /\ pc[t] = "clear"
  /\ lh' = <<>>
  /\ Goto(t, "finish")
  /\ UNCHANGED <<disk, cache, dirty, outstanding, committing, arg, mine, tail, panic>>
Erase(t) ==
  /\ pc[t] = "clear"
  /\ lh' = <<>> /\ head' = <<>>
  /\ Goto(t, "finish")
  /\ UNCHANGED <<home, logblk, cache, dirty, outstanding, committing, arg, mine, tail, panic>>
Finish(t) ==
  /\ pc[t] = "finish"
  /\ committing' = FALSE
  /\ WakeupAnd(t, "user")
  /\ UNCHANGED <<disk, cache, dirty, outstanding, lh, arg, mine, tail, panic>>

-----------------------------------------------------------------------------
(* A crash: the disk stays.  The next boot starts in initlog, read_head.   *)
Down == \E t \in Thread : pc[t] = "down"
Crash ==
  /\ cache' = home /\ dirty' = {}
  /\ outstanding' = 0 /\ committing' = FALSE
  /\ lh' = head /\ tail' = 0
  /\ pc' = [t \in Thread |-> "down"] /\ arg' = [t \in Thread |-> NoBlock]
  /\ mine' = [t \in Thread |-> {}]
  /\ UNCHANGED <<disk, panic>>
(* recover_from_log: install what was committed, then clear the log.       *)
RecoverInstall ==
  /\ Down /\ tail < Len(lh)
  /\ InstallBlock
  /\ tail' = tail + 1
  /\ UNCHANGED <<logblk, head, log, pc, arg, mine, panic>>
RecoverDone ==
  /\ Down /\ tail = Len(lh)
  /\ head' = <<>> /\ lh' = <<>> /\ tail' = 0
  /\ pc' = [t \in Thread |-> "user"]
  /\ UNCHANGED <<home, logblk, cache, dirty, outstanding, committing, arg, mine, panic>>

Commit(t) == write_log(t) \/ write_head(t) \/ install_trans(t) \/ Erase(t) \/ Finish(t)
Step(t) ==
  \/ SysCall(t) \/ BeginSleep(t) \/ begin_op(t) \/ log_write(t) \/ end_op(t) \/ Commit(t)
  \/ \E b \in Block, v \in Val : Modify(t, b, v)
Next ==
  /\ panic = "no"
  /\ (\E t \in Thread : Step(t)) \/ (\E b \in Block : Evict(b)) \/ Crash \/ RecoverInstall \/ RecoverDone
Spec == Init /\ [][Next]_vars

-----------------------------------------------------------------------------
(* The kernel does not run into the assertions of log.c: the log has room  *)
(* for the system calls that begin_op let in (its wait for log space), as  *)
(* long as each writes fewer than the MAXOPBLOCKS blocks it has reserved;  *)
(* nobody ends an operation while the log commits.                         *)
NeverPanics == panic = "no"

(* Nobody sleeps in begin_op without somebody inside who will wake them:   *)
(* end_op wakes them after its commit, or when it is not the last.         *)
NoLostWakeup ==
  \A t \in Thread : pc[t] = "asleep" => outstanding > 0 \/ committing

(* When no system call is under way, everything is on its home blocks and  *)
(* the on-disk log is empty: end_op returns with the data durable.         *)
DurableWhenQuiet ==
  outstanding = 0 /\ ~committing /\ ~Down => home = cache /\ head = <<>> /\ dirty = {}

(* The log implements atomic transactions: recovery makes of the disk what *)
(* the last commit made durable.                                           *)
Recovered ==
  [b \in Block |-> IF \E i \in DOMAIN head : head[i] = b
                   THEN logblk[CHOOSE i \in DOMAIN head : head[i] = b] ELSE home[b]]
Current == IF Down THEN Recovered ELSE cache
Active == {t \in Thread : pc[t] \in {"op", "append"}}
Abstract == INSTANCE Disk WITH current <- Current, durable <- Recovered, active <- Active
AtomicTransactions == Abstract!Spec
=============================================================================

------------------------------- MODULE Mutex -------------------------------
(***************************************************************************)
(* The kernel mutexes (mutex.c) on top of sleep and wakeup (proc.c).       *)
(*                                                                         *)
(* mxtable.lock protects the table, and a step is one critical section of  *)
(* it; mxlock is held across steps only on the way into sleep().  The part *)
(* of sleep() under ptable.lock is one step, and so is wakeup(), which     *)
(* kthread_mutex_unlock calls after it has released mxtable.lock.          *)
(* Programs pass any id to any call; MutexUsers restricts them.            *)
(***************************************************************************)
EXTENDS Integers, FiniteSets

CONSTANTS
  Thread, NoThread,
  MAX_MUTEXES,     \* slots of mxtable
  MaxId,           \* bound: ids given out before the model stops allocating
  Mortal           \* threads whose process may exit at any moment

ASSUME MutexSizes == MAX_MUTEXES \in Nat \ {0} /\ MaxId \in Nat \ {0}
ASSUME MutexThreads == NoThread \notin Thread /\ Mortal \subseteq Thread

Slot == 1 .. MAX_MUTEXES
Id == 1 .. MaxId
Op == {"alloc", "dealloc", "lock", "unlock"}

VARIABLES
  state, mxid, owner,   \* the fields of mxtable.mutex[]
  nextmxid, mxlock,     \* the id counter, the holder of mxtable.lock
  pc, id, mx,           \* per thread: place in mutex.c, mutex_id, mx
  tstate,               \* thread->state, RUNNABLE counted as RUNNING;
                        \* thread->chan is mx while SLEEPING
  panicked

tableVars == <<state, mxid, owner, nextmxid>>
vars == <<tableVars, mxlock, pc, id, mx, tstate, panicked>>

(* The type invariant.                                                     *)
TypeOK ==
  /\ state \in [Slot -> {"FREE", "LOCKED", "UNLOCKED"}]
  /\ mxid \in [Slot -> 0 .. MaxId]
  /\ owner \in [Slot -> Thread \cup {NoThread}]
  /\ nextmxid \in 1 .. MaxId + 1
  /\ mxlock \in Thread \cup {NoThread}
  /\ pc \in [Thread -> Op \cup {"user", "alloc_return", "lock_sleep", "lock_again",
                                "unlock_wakeup", "dead"}]
  /\ id \in [Thread -> 0 .. MaxId]
  /\ mx \in [Thread -> Slot]
  /\ tstate \in [Thread -> {"RUNNING", "SLEEPING", "ZOMBIE"}]
  /\ panicked \in BOOLEAN

(* nextmxid starts at 1: id 0 is that of the FREE slots.                   *)
FirstId == 1

(* mxtable is zero-initialised: FREE, mxid 0, no owner.                    *)
Init ==
  /\ state = [m \in Slot |-> "FREE"]
  /\ mxid = [m \in Slot |-> 0]
  /\ owner = [m \in Slot |-> NoThread]
  /\ nextmxid = FirstId /\ mxlock = NoThread
  /\ pc = [t \in Thread |-> "user"]
  /\ id = [t \in Thread |-> 0]
  /\ mx = [t \in Thread |-> 1]
  /\ tstate = [t \in Thread |-> "RUNNING"]
  /\ panicked = FALSE

-----------------------------------------------------------------------------
Goto(t, l) == pc' = [pc EXCEPT ![t] = l]
(* Back in user space, the arguments and locals of the call are gone.      *)
Return(t) ==
  /\ Goto(t, "user")
  /\ id' = [id EXCEPT ![t] = 0] /\ mx' = [mx EXCEPT ![t] = 1]
(* At l with mxtable.lock free to acquire.                                 *)
In(t, l) == pc[t] = l /\ mxlock = NoThread
(* The lookup loop of dealloc, lock and unlock.                            *)
Found(t, m) == mxid[m] = id[t] /\ \A k \in 1 .. m - 1 : mxid[k] # id[t]

SysCall(t, op, i) ==
  /\ pc[t] = "user"
  /\ op = "alloc" => i = 0 /\ nextmxid + Cardinality({u \in Thread : pc[u] = "alloc"}) <= MaxId
  /\ Goto(t, op)
  /\ id' = [id EXCEPT ![t] = i]
  /\ UNCHANGED <<tableVars, mxlock, mx, tstate, panicked>>

(* kthread_mutex_alloc: the first FREE slot gets the next id.              *)
AllocUnlocked(t, m) ==
  /\ In(t, "alloc") /\ state[m] # "LOCKED" /\ nextmxid <= MaxId
  /\ state' = [state EXCEPT ![m] = "UNLOCKED"]
  /\ mxid' = [mxid EXCEPT ![m] = nextmxid]
  /\ nextmxid' = nextmxid + 1
  /\ mx' = [mx EXCEPT ![t] = m]
  /\ Goto(t, "alloc_return")
  /\ UNCHANGED <<owner, mxlock, id, tstate, panicked>>
Alloc(t, m) ==
  /\ In(t, "alloc") /\ nextmxid <= MaxId
  /\ state[m] = "FREE" /\ \A k \in 1 .. m - 1 : state[k] # "FREE"
  /\ state' = [state EXCEPT ![m] = "UNLOCKED"]
  /\ mxid' = [mxid EXCEPT ![m] = nextmxid]
  /\ owner' = [owner EXCEPT ![m] = NoThread]
  /\ nextmxid' = nextmxid + 1
  /\ mx' = [mx EXCEPT ![t] = m]
  /\ Goto(t, "alloc_return")
  /\ UNCHANGED <<mxlock, id, tstate, panicked>>

AllocFull(t) ==
  /\ In(t, "alloc") /\ \A m \in Slot : state[m] # "FREE"
  /\ Return(t)
  /\ UNCHANGED <<tableVars, mxlock, tstate, panicked>>

(* "return mx->mxid" reads the slot after mxtable.lock was released.       *)
AllocReturn(t) ==
  /\ pc[t] = "alloc_return"
  /\ Return(t)
  /\ UNCHANGED <<tableVars, mxlock, tstate, panicked>>

(* dealloc, lock and unlock of an id that is in no slot return -1.         *)
NotFound(t, op) ==
  /\ In(t, op) /\ \A m \in Slot : mxid[m] # id[t]
  /\ Return(t)
  /\ UNCHANGED <<tableVars, mxlock, tstate, panicked>>

(* kthread_mutex_dealloc refuses a LOCKED mutex.                           *)
DeallocRefused(t, m) ==
  /\ In(t, "dealloc") /\ Found(t, m) /\ state[m] = "LOCKED"
  /\ Return(t)
  /\ UNCHANGED <<tableVars, mxlock, tstate, panicked>>

DeallocLocked(t, m) ==
  /\ In(t, "dealloc") /\ Found(t, m)
  /\ state' = [state EXCEPT ![m] = "FREE"]
  /\ owner' = [owner EXCEPT ![m] = NoThread]
  /\ mxid' = [mxid EXCEPT ![m] = 0]
  /\ Return(t)
  /\ UNCHANGED <<nextmxid, mxlock, tstate, panicked>>
Dealloc(t, m) ==
  /\ In(t, "dealloc") /\ Found(t, m) /\ state[m] # "LOCKED"
  /\ state' = [state EXCEPT ![m] = "FREE"]
  /\ owner' = [owner EXCEPT ![m] = NoThread]
  /\ mxid' = [mxid EXCEPT ![m] = 0]
  /\ Return(t)
  /\ UNCHANGED <<nextmxid, mxlock, tstate, panicked>>

(* kthread_mutex_lock: only the first look asserts that the slot is used.  *)
LockPanic(t, m) ==
  /\ In(t, "lock") /\ Found(t, m) /\ state[m] = "FREE"
  /\ panicked' = TRUE
  /\ UNCHANGED <<tableVars, mxlock, pc, id, mx, tstate>>

(* The thread is about to execute xchg(&mx->state, LOCKED) on slot m.      *)
Xchg(t, m) ==
  \/ In(t, "lock") /\ Found(t, m) /\ state[m] # "FREE"
  \/ In(t, "lock_again") /\ tstate[t] = "RUNNING" /\ m = mx[t]

LockTakeWoken(t, m) ==
  /\ Xchg(t, m) /\ (state[m] # "LOCKED" \/ pc[t] = "lock_again")
  /\ state' = [state EXCEPT ![m] = "LOCKED"]
  /\ owner' = [owner EXCEPT ![m] = t]
  /\ Return(t)
  /\ UNCHANGED <<mxid, nextmxid, mxlock, tstate, panicked>>
LockTake(t, m) ==
  /\ Xchg(t, m) /\ state[m] # "LOCKED"
  /\ state' = [state EXCEPT ![m] = "LOCKED"]
  /\ owner' = [owner EXCEPT ![m] = t]
  /\ Return(t)
  /\ UNCHANGED <<mxid, nextmxid, mxlock, tstate, panicked>>

LockBusy(t, m) ==
  /\ Xchg(t, m) /\ state[m] = "LOCKED"
  /\ mxlock' = t
  /\ mx' = [mx EXCEPT ![t] = m]
  /\ Goto(t, "lock_sleep")
  /\ UNCHANGED <<tableVars, id, tstate, panicked>>

(* sleep(mx, &mxtable.lock): ptable.lock is taken before mxtable.lock is   *)
(* released, so the release and the falling asleep are one step.           *)
LockSleep(t) ==
  /\ pc[t] = "lock_sleep"
  /\ mxlock' = NoThread
  /\ tstate' = [tstate EXCEPT ![t] = "SLEEPING"]
  /\ Goto(t, "lock_again")
  /\ UNCHANGED <<tableVars, id, mx, panicked>>

(* kthread_mutex_unlock refuses only an UNLOCKED mutex: neither the owner  *)
(* nor FREE is tested.                                                     *)
UnlockRefused(t, m) ==
  /\ In(t, "unlock") /\ Found(t, m) /\ state[m] = "UNLOCKED"
  /\ Return(t)
  /\ UNCHANGED <<tableVars, mxlock, tstate, panicked>>

Unlock(t, m) ==
  /\ In(t, "unlock") /\ Found(t, m) /\ state[m] # "UNLOCKED"
  /\ state' = [state EXCEPT ![m] = "UNLOCKED"]
  /\ owner' = [owner EXCEPT ![m] = NoThread]
  /\ mx' = [mx EXCEPT ![t] = m]
  /\ Goto(t, "unlock_wakeup")
  /\ UNCHANGED <<mxid, nextmxid, mxlock, id, tstate, panicked>>

WakeupOne(t) ==
  LET waiting == {u \in Thread : tstate[u] = "SLEEPING" /\ mx[u] = mx[t]} IN
  /\ pc[t] = "unlock_wakeup"
  /\ tstate' = IF waiting = {} THEN tstate
               ELSE [tstate EXCEPT ![CHOOSE u \in waiting : TRUE] = "RUNNING"]
  /\ Return(t)
  /\ UNCHANGED <<tableVars, mxlock, panicked>>
Wakeup(t) ==
  /\ pc[t] = "unlock_wakeup"
  /\ tstate' = [u \in Thread |-> IF tstate[u] = "SLEEPING" /\ mx[u] = mx[t]
                                 THEN "RUNNING" ELSE tstate[u]]
  /\ Return(t)
  /\ UNCHANGED <<tableVars, mxlock, panicked>>

(* exit() by t's process: a sibling makes t a ZOMBIE wherever t is not     *)
(* running.  With mxtable.lock held t cannot be preempted, anywhere else   *)
(* it can.  What t has locked stays LOCKED.                                *)
Die(t) ==
  /\ t \in Mortal /\ pc[t] \notin {"lock_sleep", "dead"}
  /\ tstate' = [tstate EXCEPT ![t] = "ZOMBIE"]
  /\ Goto(t, "dead")
  /\ id' = [id EXCEPT ![t] = 0] /\ mx' = [mx EXCEPT ![t] = 1]
  /\ UNCHANGED <<tableVars, mxlock, panicked>>

-----------------------------------------------------------------------------
(* The steps of the kernel on behalf of t, and those of the program.       *)
Kernel(t) ==
  \/ AllocFull(t) \/ AllocReturn(t) \/ LockSleep(t) \/ Wakeup(t)
  \/ \E op \in {"dealloc", "lock", "unlock"} : NotFound(t, op)
  \/ \E m \in Slot :
       \/ Alloc(t, m) \/ DeallocRefused(t, m) \/ Dealloc(t, m)
       \/ LockPanic(t, m) \/ LockTake(t, m) \/ LockBusy(t, m)
       \/ UnlockRefused(t, m) \/ Unlock(t, m)
Program(t) == Die(t) \/ \E op \in Op, i \in 0 .. MaxId : SysCall(t, op, i)
Next == ~panicked /\ \E t \in Thread : Kernel(t) \/ Program(t)

Spec == Init /\ [][Next]_vars

-----------------------------------------------------------------------------
(* No lost wakeup, whatever ids programs pass and whoever unlocks or       *)
(* deallocates: as long as no thread has died in the kernel, a thread      *)
(* sleeps on a slot only while the slot is LOCKED or an unlocker is        *)
(* between releasing mxtable.lock and its wakeup(mx).                      *)
AllLive == \A t \in Thread : pc[t] # "dead"
NoLostWakeup ==
  AllLive => \A t \in Thread : tstate[t] = "SLEEPING" =>
    \/ state[mx[t]] = "LOCKED"
    \/ \E u \in Thread : pc[u] = "unlock_wakeup" /\ mx[u] = mx[t]

(* An id denotes at most one mutex, and only ids that alloc gave out occur *)
(* (0 marks the free slots), however slots are reused.                     *)
IdsUnique ==
  /\ \A m \in Slot : mxid[m] < nextmxid
  /\ \A m, k \in Slot : mxid[m] = mxid[k] /\ mxid[m] # 0 => m = k

(* The table implements the binary semaphores of MutexTable: an id stands  *)
(* for the state of the slot that carries it.                              *)
SemOf(st, ids) == [i \in Id |-> IF \E m \in Slot : ids[m] = i
                                THEN LET m == CHOOSE k \in Slot : ids[k] = i
                                     IN  IF st[m] = "FREE" THEN "none" ELSE st[m]
                                ELSE "none"]
Sem == SemOf(state, mxid)
Table == INSTANCE MutexTable WITH sem <- Sem, used <- 1 .. nextmxid - 1
ImplementsTable == Table!Spec
=============================================================================

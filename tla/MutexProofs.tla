---------------------------- MODULE MutexProofs ----------------------------
(***************************************************************************)
(* What holds of the kernel mutexes for every number of threads and slots: *)
(* of the mutexes whatever the programs do, and of programs that lock what *)
(* they allocated and unlock what they hold.                               *)
(***************************************************************************)
EXTENDS MutexUsers, TLAPS

(* mutex.c keeps every field in its range.                                 *)
LEMMA TypeStep == TypeOK /\ [Next]_vars => TypeOK'
<1> SUFFICES ASSUME TypeOK, [Next]_vars PROVE TypeOK'
  BY Zenon
<1> USE MutexSizes, MutexThreads DEF TypeOK, Slot, Op, Goto, Return, In
<1>1. CASE UNCHANGED vars
  BY <1>1, Zenon DEF vars, tableVars
<1>2. ASSUME NEW t \in Thread, Program(t) PROVE TypeOK'
  <2>1. CASE Die(t)
    BY <2>1, SMTT(60) DEF Die, tableVars
  <2>2. ASSUME NEW op \in Op, NEW i \in 0 .. MaxId, SysCall(t, op, i) PROVE TypeOK'
    BY <2>2, SMTT(60) DEF SysCall, tableVars
  <2> QED
    BY <1>2, <2>1, <2>2, ZenonT(60) DEF Program
<1>3. ASSUME NEW t \in Thread, Kernel(t) PROVE TypeOK'
  <2>0. CASE AllocFull(t)
    BY <2>0 DEF AllocFull, tableVars
  <2>1. CASE AllocReturn(t)
    BY <2>1, SMTT(60) DEF AllocReturn, tableVars
  <2>2. CASE LockSleep(t)
    BY <2>2, SMTT(60) DEF LockSleep, tableVars
  <2>3. CASE Wakeup(t)
    BY <2>3, SMTT(60) DEF Wakeup, tableVars
  <2>4. CASE \E op \in {"dealloc", "lock", "unlock"} : NotFound(t, op)
    BY <2>4, SMTT(60) DEF NotFound, tableVars
  <2>5. ASSUME NEW m \in Slot, Alloc(t, m) PROVE TypeOK'
    BY <2>5, SMTT(60) DEF Alloc
  <2>6. ASSUME NEW m \in Slot, Dealloc(t, m) PROVE TypeOK'
    BY <2>6, SMTT(60) DEF Dealloc
  <2>11. ASSUME NEW m \in Slot, DeallocRefused(t, m) PROVE TypeOK'
    BY <2>11, SMTT(60) DEF DeallocRefused, tableVars
  <2>7. ASSUME NEW m \in Slot, LockPanic(t, m) PROVE TypeOK'
    BY <2>7, SMTT(60) DEF LockPanic, tableVars
  <2>8. ASSUME NEW m \in Slot, LockTake(t, m) PROVE TypeOK'
    BY <2>8, SMTT(60) DEF LockTake, tableVars
  <2>9. ASSUME NEW m \in Slot, LockBusy(t, m) PROVE TypeOK'
    BY <2>9, SMTT(60) DEF LockBusy, tableVars
  <2>10. ASSUME NEW m \in Slot, Unlock(t, m) PROVE TypeOK'
    BY <2>10, SMTT(60) DEF Unlock
  <2>12. ASSUME NEW m \in Slot, UnlockRefused(t, m) PROVE TypeOK'
    BY <2>12, SMTT(60) DEF UnlockRefused, tableVars
  <2> QED
    BY <1>3, <2>0, <2>1, <2>2, <2>3, <2>4, <2>5, <2>6, <2>7, <2>8, <2>9, <2>10, <2>11, <2>12, ZenonT(60) DEF Kernel
<1> QED
  BY <1>1, <1>2, <1>3, ZenonT(60) DEF Next

(* The type invariant of mutex.c holds for every number of threads, slots  *)
(* and ids.                                                                *)
THEOREM MutexTypes == Spec => []TypeOK
<1>1. Init => TypeOK
  <2> SUFFICES ASSUME Init PROVE TypeOK
    BY Zenon
  <2>1. panicked \in BOOLEAN
    BY Zenon DEF Init
  <2> QED
    BY <2>1, MutexSizes, MutexThreads DEF Init, FirstId, TypeOK, Slot, Op
<1> QED
  BY <1>1, TypeStep, PTL DEF Spec

-----------------------------------------------------------------------------
(* Ids.  nextmxid exceeds every id in the table, and a FREE slot has id 0. *)
IdInv == IdsUnique /\ \A m \in Slot : state[m] = "FREE" => mxid[m] = 0

(* Only alloc, dealloc, lock and unlock write the table.                   *)
LEMMA TableSteps ==
  ASSUME [Next]_vars
  PROVE  \/ UNCHANGED tableVars
         \/ \E t \in Thread, m \in Slot :
              Alloc(t, m) \/ Dealloc(t, m) \/ LockTake(t, m) \/ Unlock(t, m)
<1>1. CASE UNCHANGED vars
  BY <1>1, Zenon DEF vars
<1>2. ASSUME NEW t \in Thread, Program(t) PROVE UNCHANGED tableVars
  BY <1>2, Zenon DEF Program, Die, SysCall
<1>3. ASSUME NEW t \in Thread, Kernel(t),
             ~ \E m \in Slot : Alloc(t, m) \/ Dealloc(t, m) \/ LockTake(t, m) \/ Unlock(t, m)
      PROVE  UNCHANGED tableVars
  BY <1>3, Zenon DEF Kernel, AllocFull, AllocReturn, LockSleep, Wakeup, NotFound,
                     DeallocRefused, LockPanic, LockBusy, UnlockRefused
<1> QED
  BY <1>1, <1>2, <1>3, Zenon DEF Next

(* Every step preserves the invariant about ids; only alloc hands out a    *)
(* new one.                                                                *)
LEMMA IdStep == TypeOK /\ IdInv /\ [Next]_vars => IdInv'
<1> SUFFICES ASSUME TypeOK, IdInv, [Next]_vars PROVE IdInv'
  BY Zenon
<1> USE DEF IdInv, IdsUnique, TypeOK, Slot
<1>1. CASE UNCHANGED tableVars
  BY <1>1, Zenon DEF tableVars
<1>2. ASSUME NEW t \in Thread, NEW m \in Slot, Alloc(t, m) PROVE IdInv'
  <2>1. /\ nextmxid \in Nat /\ nextmxid' = nextmxid + 1 /\ \A k \in Slot : mxid[k] \in Nat
        /\ mxid' = [mxid EXCEPT ![m] = nextmxid] /\ state' = [state EXCEPT ![m] = "UNLOCKED"]
    BY <1>2, MutexSizes, SMTT(60) DEF Alloc
  <2>2. \A k \in Slot : mxid'[k] = IF k = m THEN nextmxid ELSE mxid[k]
    BY <2>1, Zenon
  <2>3. IdsUnique'
    BY <2>1, <2>2, SMTT(60)
  <2> QED
    BY <2>1, <2>2, <2>3, Zenon
<1>3. ASSUME NEW t \in Thread, NEW m \in Slot, Dealloc(t, m) PROVE IdInv'
  BY <1>3 DEF Dealloc
<1>4. ASSUME NEW t \in Thread, NEW m \in Slot, LockTake(t, m) PROVE IdInv'
  BY <1>4, Zenon DEF LockTake
<1>5. ASSUME NEW t \in Thread, NEW m \in Slot, Unlock(t, m) PROVE IdInv'
  BY <1>5, Zenon DEF Unlock
<1> QED
  BY <1>1, <1>2, <1>3, <1>4, <1>5, TableSteps, Zenon

(* The invariant about ids holds in every reachable state.                 *)
LEMMA IdInvariant == Spec => []IdInv
<1>1. Init => IdInv
  BY DEF Init, FirstId, IdInv, IdsUnique
<1> QED
  BY <1>1, IdStep, MutexTypes, PTL DEF Spec

(* alloc never gives one id to two mutexes: however slots are reused, an   *)
(* id in the table denotes one mutex, and is smaller than nextmxid.        *)
THEOREM MutexIds == Spec => []IdsUnique
  BY IdInvariant, PTL DEF IdInv

-----------------------------------------------------------------------------
(* Why no wakeup is lost.  mxtable.lock is held exactly by a thread on its *)
(* way into sleep(), the slot it found LOCKED stays LOCKED until then, and *)
(* whoever sleeps does so inside the loop of kthread_mutex_lock.           *)
WakeInv ==
  /\ \A t \in Thread : mxlock = t <=> pc[t] = "lock_sleep"
  /\ \A t \in Thread : pc[t] = "lock_sleep" => state[mx[t]] = "LOCKED"
  /\ \A t \in Thread : tstate[t] = "SLEEPING" => pc[t] = "lock_again"
  /\ NoLostWakeup

(* Every step preserves it; Die makes NoLostWakeup vacuous.                *)
LEMMA WakeStep == TypeOK /\ WakeInv /\ [Next]_vars => WakeInv'
<1> SUFFICES ASSUME TypeOK, WakeInv, [Next]_vars PROVE WakeInv'
  BY Zenon
<1> USE MutexThreads DEF TypeOK, WakeInv, NoLostWakeup, AllLive, Goto, Return, In
<1>1. CASE UNCHANGED vars
  BY <1>1, Zenon DEF vars, tableVars
<1>2. ASSUME NEW t \in Thread, Program(t) PROVE WakeInv'
  <2>1. CASE Die(t)
    BY <2>1 DEF Die, tableVars
  <2>2. ASSUME NEW op \in Op, NEW i \in 0 .. MaxId, SysCall(t, op, i) PROVE WakeInv'
    BY <2>2 DEF SysCall, tableVars, Op
  <2> QED
    BY <1>2, <2>1, <2>2, Zenon DEF Program
<1>3. ASSUME NEW t \in Thread, Kernel(t) PROVE WakeInv'
  <2>1. CASE AllocFull(t)
    BY <2>1 DEF AllocFull, tableVars
  <2>2. CASE AllocReturn(t)
    BY <2>2 DEF AllocReturn, tableVars
  <2>3. CASE LockSleep(t)
    BY <2>3 DEF LockSleep, tableVars
  <2>4. CASE Wakeup(t)
    BY <2>4 DEF Wakeup, tableVars
  <2>5. CASE \E op \in {"dealloc", "lock", "unlock"} : NotFound(t, op)
    BY <2>5 DEF NotFound, tableVars
  <2>6. ASSUME NEW m \in Slot, Alloc(t, m) PROVE WakeInv'
    BY <2>6 DEF Alloc
  <2>7. ASSUME NEW m \in Slot, Dealloc(t, m) PROVE WakeInv'
    BY <2>7 DEF Dealloc
  <2>8. ASSUME NEW m \in Slot, DeallocRefused(t, m) PROVE WakeInv'
    BY <2>8 DEF DeallocRefused, tableVars
  <2>9. ASSUME NEW m \in Slot, LockPanic(t, m) PROVE WakeInv'
    BY <2>9 DEF LockPanic, tableVars
  <2>10. ASSUME NEW m \in Slot, LockTake(t, m) PROVE WakeInv'
    BY <2>10 DEF LockTake, Xchg
  <2>11. ASSUME NEW m \in Slot, LockBusy(t, m) PROVE WakeInv'
    BY <2>11 DEF LockBusy, Xchg, tableVars
  <2>12. ASSUME NEW m \in Slot, Unlock(t, m) PROVE WakeInv'
    BY <2>12 DEF Unlock
  <2>13. ASSUME NEW m \in Slot, UnlockRefused(t, m) PROVE WakeInv'
    BY <2>13 DEF UnlockRefused, tableVars
  <2> QED
    BY <1>3, <2>1, <2>2, <2>3, <2>4, <2>5, <2>6, <2>7, <2>8, <2>9, <2>10, <2>11, <2>12, <2>13, Zenon
       DEF Kernel
<1> QED
  BY <1>1, <1>2, <1>3, Zenon DEF Next

(* kthread_mutex_unlock's wakeup reaches every sleeper, for any number of  *)
(* threads that pass any ids, until one is made a ZOMBIE inside the kernel *)
(* by an exiting sibling.                                                  *)
THEOREM MutexWakeups == Spec => []NoLostWakeup
<1>1. Init => WakeInv
  BY MutexThreads DEF Init, WakeInv, NoLostWakeup
<1>2. TypeOK /\ WakeInv /\ [Next]_vars => WakeInv'
  BY WakeStep, Zenon
<1>3. WakeInv => NoLostWakeup
  BY Zenon DEF WakeInv
<1> QED
  BY <1>1, <1>2, <1>3, MutexTypes, PTL DEF Spec

-----------------------------------------------------------------------------
(* The refinement.  An id in the table shows the state of its one slot.    *)
Unique(ids) == \A m, k \in Slot : ids[m] = ids[k] /\ ids[m] # 0 => m = k
Shown(st) == IF st = "FREE" THEN "none" ELSE st

(* With unique ids, a slot that has an id is what MutexTable shows under   *)
(* that id.                                                                *)
LEMMA SemShown ==
  ASSUME NEW st, NEW ids, Unique(ids), NEW m \in Slot, ids[m] \in Id
  PROVE  SemOf(st, ids)[ids[m]] = Shown(st[m])
<1>1. (CHOOSE k \in Slot : ids[k] = ids[m]) = m
  BY DEF Unique, Id
<1> QED
  BY <1>1, Zenon DEF SemOf, Shown

(* An id that no slot has is shown as no mutex.                            *)
LEMMA SemNone ==
  ASSUME NEW st, NEW ids, NEW i \in Id, \A m \in Slot : ids[m] # i
  PROVE  SemOf(st, ids)[i] = "none"
  BY Zenon DEF SemOf

(* A step that changes only the state of slot m is seen at m's id, and not *)
(* at all when that id is 0.                                               *)
LEMMA SemChange ==
  ASSUME NEW st, NEW new, NEW ids \in [Slot -> 0 .. MaxId], Unique(ids), NEW m \in Slot,
         \A k \in Slot \ {m} : new[k] = st[k]
  PROVE  SemOf(new, ids) = IF ids[m] = 0 THEN SemOf(st, ids)
                           ELSE [SemOf(st, ids) EXCEPT ![ids[m]] = Shown(new[m])]
<1>1. ASSUME NEW i \in Id, i # ids[m] PROVE SemOf(new, ids)[i] = SemOf(st, ids)[i]
  <2>1. CASE \A k \in Slot : ids[k] # i
    BY <2>1, SemNone
  <2>2. CASE \E k \in Slot : ids[k] = i
    <3>1. PICK k \in Slot : ids[k] = i
      BY <2>2, Zenon
    <3>2. ids[k] \in Id /\ new[k] = st[k]
      BY <3>1, <1>1, Zenon
    <3> QED
      BY <3>1, <3>2, SemShown
  <2> QED
    BY <2>1, <2>2, Zenon
<1>2. ids[m] = 0 \/ ids[m] \in Id
  BY MutexSizes DEF Id
<1>3. 0 \notin Id
  BY DEF Id
<1>4. ASSUME ids[m] \in Id PROVE SemOf(new, ids)[ids[m]] = Shown(new[m])
  BY <1>4, SemShown, Zenon
<1>5. SemOf(new, ids) = [i \in Id |-> SemOf(new, ids)[i]] /\ SemOf(st, ids) = [i \in Id |-> SemOf(st, ids)[i]]
  BY Zenon DEF SemOf
<1>6. CASE ids[m] = 0
  BY <1>1, <1>3, <1>5, <1>6, Zenon
<1>7. CASE ids[m] \in Id
  BY <1>1, <1>3, <1>4, <1>5, <1>7, Zenon
<1> QED
  BY <1>2, <1>6, <1>7, Zenon

(* Every step of mutex.c is a step of MutexTable or leaves it unchanged.   *)
LEMMA TableStep ==
  TypeOK /\ TypeOK' /\ IdInv /\ IdInv' /\ [Next]_vars
    => [Table!Next]_<<Sem, 1 .. nextmxid - 1>>
<1> SUFFICES ASSUME TypeOK, TypeOK', IdInv, IdInv', [Next]_vars
             PROVE  [Table!Next]_<<Sem, 1 .. nextmxid - 1>>
  BY Zenon
<1>0. Unique(mxid) /\ Unique(mxid') /\ mxid \in [Slot -> 0 .. MaxId]
  BY Zenon DEF Unique, IdInv, IdsUnique, TypeOK
<1>1. CASE UNCHANGED tableVars
  BY <1>1, Zenon DEF tableVars, Sem
<1>2. ASSUME NEW t \in Thread, NEW m \in Slot, Alloc(t, m)
      PROVE  [Table!Next]_<<Sem, 1 .. nextmxid - 1>>
  <2> DEFINE i == nextmxid
  <2>1. /\ i \in Id /\ nextmxid' = i + 1
        /\ \A k \in Slot \ {m} : mxid'[k] = mxid[k] /\ state'[k] = state[k]
        /\ mxid'[m] = i /\ state'[m] = "UNLOCKED" /\ mxid[m] = 0
    BY <1>2 DEF Alloc, TypeOK, Id, IdInv
  <2>2. Sem'[i] = "UNLOCKED"
    BY <1>0, <2>1, SemShown DEF Sem, Shown
  <2>3. ASSUME NEW j \in Id, j # i PROVE Sem'[j] = Sem[j]
    <3>1. CASE \A k \in Slot : mxid[k] # j
      <4>1. \A k \in Slot : mxid'[k] # j
        BY <2>1, <2>3, <3>1, Zenon
      <4> QED
        BY <3>1, <4>1, SemNone DEF Sem
    <3>2. CASE \E k \in Slot : mxid[k] = j
      <4>1. PICK k \in Slot : mxid[k] = j
        BY <3>2, Zenon
      <4>2. k # m /\ mxid'[k] = j /\ state'[k] = state[k]
        BY <2>1, <4>1 DEF Id
      <4> QED
        BY <1>0, <4>1, <4>2, SemShown DEF Sem
    <3> QED
      BY <3>1, <3>2, Zenon
  <2>4. Sem = [j \in Id |-> Sem[j]] /\ Sem' = [j \in Id |-> Sem'[j]]
    BY Zenon DEF Sem, SemOf
  <2>5. Sem' = [Sem EXCEPT ![i] = "UNLOCKED"]
    BY <2>1, <2>2, <2>3, <2>4, Zenon
  <2>6. i \notin 1 .. nextmxid - 1 /\ (1 .. nextmxid - 1)' = (1 .. nextmxid - 1) \cup {i}
    BY <2>1 DEF Id
  <2>7. Table!Create(i)
    BY <2>5, <2>6, Zenon DEF Table!Create
  <2> QED
    BY <2>1, <2>7, Zenon DEF Table!Next
<1>3. ASSUME NEW t \in Thread, NEW m \in Slot, Dealloc(t, m)
      PROVE  [Table!Next]_<<Sem, 1 .. nextmxid - 1>>
  <2> DEFINE i == mxid[m]
  <2>1. /\ nextmxid' = nextmxid /\ state[m] # "LOCKED" /\ mxid'[m] = 0
        /\ \A k \in Slot \ {m} : mxid'[k] = mxid[k] /\ state'[k] = state[k]
    BY <1>3 DEF Dealloc, TypeOK
  <2>2. ASSUME NEW j \in Id, j # i PROVE Sem'[j] = Sem[j]
    <3>1. CASE \A k \in Slot : mxid[k] # j
      <4>1. \A k \in Slot : mxid'[k] # j
        BY <2>1, <3>1 DEF Id
      <4> QED
        BY <3>1, <4>1, SemNone DEF Sem
    <3>2. CASE \E k \in Slot : mxid[k] = j
      <4>1. PICK k \in Slot : mxid[k] = j
        BY <3>2, Zenon
      <4>2. k # m /\ mxid'[k] = j /\ state'[k] = state[k]
        BY <2>1, <2>2, <4>1, Zenon
      <4> QED
        BY <1>0, <4>1, <4>2, SemShown DEF Sem
    <3> QED
      BY <3>1, <3>2, Zenon
  <2>3. Sem = [j \in Id |-> Sem[j]] /\ Sem' = [j \in Id |-> Sem'[j]]
    BY Zenon DEF Sem, SemOf
  <2>4. CASE i = 0
    <3>1. Sem' = Sem
      BY <2>2, <2>3, <2>4 DEF Id
    <3> QED
      BY <2>1, <3>1, Zenon
  <2>5. CASE i # 0
    <3>1. i \in Id
      BY <1>0, <2>5, MutexSizes DEF Id
    <3>2. state[m] = "UNLOCKED"
      BY <2>1, <2>5, Zenon DEF IdInv, TypeOK
    <3>3. Sem[i] = "UNLOCKED"
      BY <1>0, <3>1, <3>2, SemShown, SMTT(60) DEF Sem, Shown
    <3>4. \A k \in Slot : mxid'[k] # i
      BY <1>0, <2>1, <2>5, Zenon DEF Unique
    <3>5. Sem'[i] = "none"
      BY <3>1, <3>4, SemNone, Zenon DEF Sem
    <3>6. Sem' = [Sem EXCEPT ![i] = "none"]
      BY <2>2, <2>3, <3>5, Zenon
    <3>7. Table!Destroy(i)
      BY <2>1, <3>3, <3>6, Zenon DEF Table!Destroy, Table!Change
    <3> QED
      BY <3>1, <3>7, Zenon DEF Table!Next
  <2> QED
    BY <2>4, <2>5, Zenon
<1>4. ASSUME NEW t \in Thread, NEW m \in Slot, LockTake(t, m)
      PROVE  [Table!Next]_<<Sem, 1 .. nextmxid - 1>>
  <2>1. /\ mxid' = mxid /\ nextmxid' = nextmxid /\ state'[m] = "LOCKED" /\ state[m] # "LOCKED"
        /\ \A k \in Slot \ {m} : state'[k] = state[k]
    BY <1>4, SMTT(60) DEF LockTake, TypeOK
  <2>2. CASE mxid[m] = 0
    BY <1>0, <2>1, <2>2, SemChange, SMTT(60) DEF Sem
  <2>3. CASE mxid[m] # 0
    <3>1. state[m] = "UNLOCKED"
      BY <2>1, <2>3, Zenon DEF IdInv, TypeOK
    <3>2. mxid[m] \in Id
      BY <1>0, <2>3, MutexSizes DEF Id
    <3>3. Sem[mxid[m]] = "UNLOCKED"
      BY <1>0, <3>1, <3>2, SemShown, SMTT(60) DEF Sem, Shown
    <3>4. Sem' = [Sem EXCEPT ![mxid[m]] = "LOCKED"]
      BY <1>0, <2>1, <2>3, SemChange, SMTT(60) DEF Sem, Shown
    <3>5. Table!Lock(mxid[m])
      BY <2>1, <3>3, <3>4, Zenon DEF Table!Lock, Table!Change
    <3> QED
      BY <3>2, <3>5, Zenon DEF Table!Next
  <2> QED
    BY <2>2, <2>3, Zenon
<1>5. ASSUME NEW t \in Thread, NEW m \in Slot, Unlock(t, m)
      PROVE  [Table!Next]_<<Sem, 1 .. nextmxid - 1>>
  <2>1. /\ mxid' = mxid /\ nextmxid' = nextmxid /\ state'[m] = "UNLOCKED" /\ state[m] # "UNLOCKED"
        /\ \A k \in Slot \ {m} : state'[k] = state[k]
    BY <1>5, SMTT(60) DEF Unlock, TypeOK
  <2>2. CASE mxid[m] = 0
    BY <1>0, <2>1, <2>2, SemChange, SMTT(60) DEF Sem
  <2>3. CASE mxid[m] # 0
    <3>1. state[m] = "LOCKED"
      BY <2>1, <2>3, Zenon DEF IdInv, TypeOK
    <3>2. mxid[m] \in Id
      BY <1>0, <2>3, MutexSizes DEF Id
    <3>3. Sem[mxid[m]] = "LOCKED"
      BY <1>0, <3>1, <3>2, SemShown, SMTT(60) DEF Sem, Shown
    <3>4. Sem' = [Sem EXCEPT ![mxid[m]] = "UNLOCKED"]
      BY <1>0, <2>1, <2>3, SemChange, SMTT(60) DEF Sem, Shown
    <3>5. Table!Unlock(mxid[m])
      BY <2>1, <3>3, <3>4, Zenon DEF Table!Unlock, Table!Change
    <3> QED
      BY <3>2, <3>5, Zenon DEF Table!Next
  <2> QED
    BY <2>2, <2>3, Zenon
<1> QED
  BY <1>1, <1>2, <1>3, <1>4, <1>5, TableSteps, Zenon

(* mutex.c implements MutexTable for every instance: whoever locks an id   *)
(* found it unlocked, a locked id is not removed, and no id comes back,    *)
(* whatever ids the programs pass.                                         *)
THEOREM MutexRefinement == Spec => ImplementsTable
<1>1. Init => Table!Init
  <2> SUFFICES ASSUME Init PROVE Table!Init
    BY Zenon
  <2>1. 1 .. nextmxid - 1 = {}
    BY DEF Init, FirstId
  <2>2. \A i \in Id : \A m \in Slot : mxid[m] # i
    BY DEF Init, Id
  <2>3. Sem = [i \in Id |-> "none"]
    BY <2>2, Zenon DEF Sem, SemOf
  <2> QED
    BY <2>1, <2>3, Zenon DEF Table!Init
<1> QED
  BY <1>1, TableStep, MutexTypes, IdInvariant, PTL DEF Spec, ImplementsTable, Table!Spec

-----------------------------------------------------------------------------
(* Polite programs.  What they know names allocated mutexes; a thread in   *)
(* lock asks for a mutex it knows and does not hold, and waits on the slot *)
(* of that mutex; one in unlock holds what it unlocks; an id on its way    *)
(* out of alloc or into dealloc is nobody else's.                          *)
Allocated(i) == \E m \in Slot : mxid[m] = i /\ state[m] # "FREE"
Waiting(t) == pc[t] \in {"lock", "lock_sleep", "lock_again"}
New(t) == pc[t] = "alloc_return"
Going(t) == pc[t] = "dealloc"

UserSets == polite \in BOOLEAN /\ known \subseteq Id /\ holds \in [Thread -> SUBSET known]
Impolite == ~ polite => known = {}
Named == \A i \in known : Allocated(i)
Held == \A t \in Thread : \A i \in holds[t] :
          \E m \in Slot : mxid[m] = i /\ state[m] = "LOCKED" /\ owner[m] = t
Waits == \A t \in Thread : polite /\ Waiting(t) =>
           /\ id[t] \in known \ holds[t]
           /\ pc[t] # "lock" => mxid[mx[t]] = id[t]
Unlocks == \A t \in Thread : polite /\ pc[t] = "unlock" => id[t] \in holds[t]
News == \A t \in Thread : polite /\ New(t) =>
          /\ state[mx[t]] # "FREE" /\ mxid[mx[t]] \in Id \ known
          /\ \A u \in Thread : (New(u) /\ mx[u] = mx[t] => u = t) /\ (Going(u) => id[u] # mxid[mx[t]])
Goings == \A t \in Thread : polite /\ Going(t) =>
            /\ id[t] \in Id \ known /\ id[t] < nextmxid
            /\ \A u \in Thread : Going(u) /\ id[u] = id[t] => u = t
UserInv ==
  /\ UserSets /\ Impolite /\ Named /\ Held /\ Waits /\ Unlocks /\ News /\ Goings
  /\ ~(polite /\ panicked)

(* A call that ends, or dies, without touching the table.                  *)
LEMMA CallEnds ==
  ASSUME TypeOK, UserInv, NEW t \in Thread,
         UNCHANGED <<tableVars, polite, known, holds, panicked>>,
         \A u \in Thread \ {t} : pc'[u] = pc[u] /\ id'[u] = id[u] /\ mx'[u] = mx[u],
         pc'[t] \in {"user", "dead"}
  PROVE  UserInv'
<1> USE DEF UserInv, tableVars
<1>1. UserSets' /\ Impolite' /\ ~(polite /\ panicked)'
  BY Zenon DEF UserSets, Impolite
<1>2. Named' /\ Held'
  BY DEF Named, Held, Allocated
<1>3. Waits' /\ Unlocks'
  BY Zenon DEF Waits, Unlocks, Waiting
<1>4. News' /\ Goings'
  BY DEF News, Goings, New, Going
<1> QED BY <1>1, <1>2, <1>3, <1>4, Zenon

(* The discipline keeps ids apart when a call is made.                     *)
LEMMA UserCallStep ==
  ASSUME TypeOK, IdInv, UserInv, polite, NEW t \in Thread, NEW op \in Op, NEW i \in 0 .. MaxId,
         UserCall(t, op, i)
  PROVE  UserInv'
<1> USE DEF UserInv, tableVars
<1>1. /\ pc[t] = "user" /\ pc' = [pc EXCEPT ![t] = op] /\ id' = [id EXCEPT ![t] = i]
      /\ UNCHANGED <<state, mxid, owner, nextmxid, mx, panicked, polite, holds>>
      /\ Allowed(t, op, i) /\ known' = IF op = "dealloc" THEN known \ {i} ELSE known
  BY Zenon DEF UserCall, SysCall, Goto
<1>2. op = "dealloc" => i \in known /\ ~ InUse(i)
  BY <1>1, Zenon DEF Allowed
<1>3. \A u \in Thread : i \in holds[u] => op # "dealloc"
  BY <1>2, Zenon DEF InUse
<1>4. UserSets' /\ Impolite' /\ ~(polite /\ panicked)'
  BY <1>1, <1>3, Zenon DEF UserSets, Impolite
<1>5. Named' /\ Held'
  BY <1>1 DEF Named, Held, Allocated
<1>6. Waits'
  <2> SUFFICES ASSUME NEW u \in Thread, Waiting(u)'
               PROVE  id'[u] \in known' \ holds'[u] /\ (pc'[u] # "lock" => mxid'[mx'[u]] = id'[u])
    BY Zenon DEF Waits
  <2>1. CASE u = t
    <3>1. op = "lock" /\ id'[u] = i /\ pc'[u] = "lock"
      BY <1>1, <2>1, Zenon DEF Waiting, TypeOK, Op
    <3> QED BY <1>1, <2>1, <3>1, Zenon DEF Allowed
  <2>2. CASE u # t
    <3>1. Waiting(u) /\ pc'[u] = pc[u] /\ id'[u] = id[u]
      BY <1>1, <2>2, Zenon DEF Waiting, TypeOK
    <3>2. op = "dealloc" => id[u] # i
      BY <1>2, <3>1, Zenon DEF InUse, Waiting, Op
    <3> QED BY <1>1, <3>1, <3>2 DEF Waits
  <2> QED BY <2>1, <2>2, Zenon
<1>7. Unlocks'
  BY <1>1, Zenon DEF Unlocks, TypeOK, Allowed
<1>8. News'
  <2> SUFFICES ASSUME NEW u \in Thread, New(u)', NEW v \in Thread
               PROVE  /\ state'[mx'[u]] # "FREE" /\ mxid'[mx'[u]] \in Id \ known'
                      /\ New(v)' /\ mx'[v] = mx'[u] => v = u
                      /\ Going(v)' => id'[v] # mxid'[mx'[u]]
    BY Zenon DEF News
  <2>1. u # t /\ New(u) /\ (New(v)' => New(v))
    BY <1>1, Zenon DEF New, TypeOK, Op
  <2>2. state[mx[u]] # "FREE" /\ mxid[mx[u]] \in Id \ known
    BY <2>1, Zenon DEF News
  <2>3. Going(v)' => id'[v] # mxid[mx[u]]
    <3>1. CASE v = t
      BY <1>1, <1>2, <2>2, <3>1, Zenon DEF Going, TypeOK
    <3>2. CASE v # t
      BY <1>1, <2>1, <3>2, Zenon DEF Going, TypeOK, News
    <3> QED BY <3>1, <3>2, Zenon
  <2> QED BY <1>1, <2>1, <2>2, <2>3, Zenon DEF News
<1>9. Goings'
  <2> SUFFICES ASSUME NEW u \in Thread, Going(u)', NEW v \in Thread
               PROVE  /\ id'[u] \in Id \ known' /\ id'[u] < nextmxid'
                      /\ Going(v)' /\ id'[v] = id'[u] => v = u
    BY Zenon DEF Goings
  <2>1. \A x \in Thread \ {t} : Going(x)' =>
          Going(x) /\ id'[x] = id[x] /\ id[x] \in Id \ known /\ id[x] < nextmxid
    BY <1>1, Zenon DEF Going, TypeOK, Goings
  <2>2. Going(t)' => op = "dealloc" /\ id'[t] = i /\ i \in known /\ i \in Id /\ i < nextmxid
    BY <1>1, <1>2 DEF Going, TypeOK, UserSets, Named, Allocated, IdInv, IdsUnique
  <2> QED BY <1>1, <2>1, <2>2 DEF Goings
<1> QED BY <1>4, <1>5, <1>6, <1>7, <1>8, <1>9, Zenon

(* The steps of the kernel on behalf of t.                                 *)
LEMMA AllocUser ==
  ASSUME TypeOK, IdInv, UserInv, polite, NEW t \in Thread, NEW m \in Slot, Alloc(t, m),
         UNCHANGED <<polite, known, holds>>
  PROVE  UserInv'
<1> USE DEF UserInv
<1>1. /\ state[m] = "FREE" /\ mxid[m] = 0 /\ pc[t] = "alloc" /\ nextmxid \in Id
      /\ state' = [state EXCEPT ![m] = "UNLOCKED"] /\ mxid' = [mxid EXCEPT ![m] = nextmxid]
      /\ owner' = [owner EXCEPT ![m] = NoThread] /\ mx' = [mx EXCEPT ![t] = m]
      /\ pc' = [pc EXCEPT ![t] = "alloc_return"] /\ UNCHANGED <<id, panicked>>
  BY DEF Alloc, In, Goto, IdInv, TypeOK, Id
<1>2. \A k \in Slot : mxid[k] < nextmxid /\ mxid[k] \in Nat /\ nextmxid \in Nat
  BY DEF IdInv, IdsUnique, TypeOK
<1>3. 0 \notin known /\ nextmxid \notin known /\ \A i \in known : i < nextmxid
  <2>1. \A i \in known : i < nextmxid
    BY <1>2, Zenon DEF Named, Allocated
  <2> QED BY <1>1, <1>2, <2>1 DEF UserSets, Id
<1>4. UserSets' /\ Impolite' /\ ~(polite /\ panicked)'
  BY <1>1, Zenon DEF UserSets, Impolite
<1>5. Named'
  BY <1>1 DEF Named, Allocated, TypeOK
<1>6. Held'
  <2>1. \A k \in Slot : state[k] = "LOCKED" => UNCHANGED <<mxid[k], state[k], owner[k]>>
    BY <1>1, Zenon DEF TypeOK
  <2> QED BY <2>1 DEF Held, UserSets
<1>7. Waits'
  <2> SUFFICES ASSUME NEW u \in Thread, Waiting(u)'
               PROVE  id[u] \in known \ holds[u] /\ (pc'[u] # "lock" => mxid'[mx'[u]] = id[u])
    BY <1>1, Zenon DEF Waits
  <2>1. Waiting(u) /\ pc'[u] = pc[u] /\ mx'[u] = mx[u]
    BY <1>1, Zenon DEF Waiting, TypeOK
  <2>2. pc[u] # "lock" => mx[u] # m
    BY <1>1, <1>3, <2>1, Zenon DEF Waits
  <2> QED BY <1>1, <2>1, <2>2, Zenon DEF Waits, TypeOK
<1>8. Unlocks' /\ Goings'
  BY <1>1, <1>2 DEF Unlocks, Goings, Going, TypeOK, Alloc
<1>9. News'
  <2> SUFFICES ASSUME NEW u \in Thread, New(u)', NEW v \in Thread
               PROVE  /\ state'[mx'[u]] # "FREE" /\ mxid'[mx'[u]] \in Id \ known
                      /\ New(v)' /\ mx'[v] = mx'[u] => v = u
                      /\ Going(v)' => id[v] # mxid'[mx'[u]]
    BY <1>1, Zenon DEF News
  <2>1. \A x \in Thread \ {t} : /\ New(x)' => New(x) /\ mx[x] # m /\ mx'[x] = mx[x]
                                /\ Going(x)' => Going(x)
    BY <1>1, Zenon DEF New, Going, TypeOK, News
  <2>2. mx'[t] = m /\ ~ Going(t)' /\ state'[m] = "UNLOCKED" /\ mxid'[m] = nextmxid
    BY <1>1, Zenon DEF Going, TypeOK
  <2>3. \A k \in Slot \ {m} : state'[k] = state[k] /\ mxid'[k] = mxid[k]
    BY <1>1, Zenon DEF TypeOK
  <2>4. Going(v)' => id[v] # nextmxid
    BY <1>2, <2>1, <2>2 DEF Goings
  <2>5. CASE u = t
    BY <1>1, <1>3, <2>1, <2>2, <2>4, <2>5, Zenon
  <2>6. CASE u # t
    <3>1. New(u) /\ mx[u] # m /\ mx'[u] = mx[u] /\ mx[u] \in Slot
      BY <2>1, <2>6, Zenon DEF TypeOK
    <3> QED BY <2>1, <2>2, <2>3, <2>6, <3>1 DEF News
  <2> QED BY <2>5, <2>6, Zenon
<1> QED BY <1>4, <1>5, <1>6, <1>7, <1>8, <1>9, Zenon

LEMMA DeallocUser ==
  ASSUME TypeOK, IdInv, UserInv, polite, NEW t \in Thread, NEW m \in Slot, Dealloc(t, m),
         UNCHANGED <<polite, known, holds>>
  PROVE  UserInv'
<1> USE DEF UserInv
<1>1. /\ pc[t] = "dealloc" /\ mxid[m] = id[t] /\ pc' = [pc EXCEPT ![t] = "user"]
      /\ state' = [state EXCEPT ![m] = "FREE"] /\ mxid' = [mxid EXCEPT ![m] = 0]
      /\ owner' = [owner EXCEPT ![m] = NoThread]
      /\ id' = [id EXCEPT ![t] = 0] /\ mx' = [mx EXCEPT ![t] = 1] /\ UNCHANGED <<nextmxid, panicked>>
  BY Zenon DEF Dealloc, In, Found, Return, Goto
<1>2. /\ \A k \in Slot \ {m} : UNCHANGED <<state[k], mxid[k], owner[k]>>
      /\ \A u \in Thread \ {t} : UNCHANGED <<pc[u], id[u], mx[u]>>
      /\ pc'[t] = "user" /\ \A u \in Thread : mx[u] \in Slot
  BY <1>1, Zenon DEF TypeOK
<1>3. mxid[m] \notin known
  BY <1>1, Zenon DEF Goings, Going
<1>4. UserSets' /\ Impolite' /\ ~(polite /\ panicked)'
  BY <1>1, Zenon DEF UserSets, Impolite
<1>5. Named' /\ Held'
  <2>1. \A i \in known : \A k \in Slot : mxid[k] = i => k # m
    BY <1>3, Zenon
  <2> QED BY <1>2, <2>1 DEF Named, Held, Allocated, UserSets
<1>6. Waits' /\ Unlocks'
  BY <1>2, <1>3 DEF Waits, Unlocks, Waiting
<1>7. News'
  <2>1. \A u \in Thread : New(u) => mx[u] # m
    BY <1>1, Zenon DEF News, Going
  <2> QED BY <1>2, <2>1 DEF News, New, Going
<1>8. Goings'
  BY <1>1, <1>2 DEF Goings, Going
<1> QED BY <1>4, <1>5, <1>6, <1>7, <1>8, Zenon

LEMMA LockTakeUser ==
  ASSUME TypeOK, IdInv, UserInv, polite, NEW t \in Thread, NEW m \in Slot, LockTake(t, m),
         UNCHANGED <<polite, known>>, holds' = [holds EXCEPT ![t] = @ \cup {id[t]}]
  PROVE  UserInv'
<1> USE DEF UserInv
<1>1. /\ Waiting(t) /\ mxid[m] = id[t] /\ state[m] # "LOCKED"
      /\ state' = [state EXCEPT ![m] = "LOCKED"] /\ owner' = [owner EXCEPT ![m] = t]
      /\ pc' = [pc EXCEPT ![t] = "user"] /\ id' = [id EXCEPT ![t] = 0]
      /\ mx' = [mx EXCEPT ![t] = 1] /\ UNCHANGED <<mxid, nextmxid, panicked>>
  BY Zenon DEF LockTake, Xchg, In, Found, Return, Goto, Waiting, Waits
<1>2. /\ \A k \in Slot \ {m} : UNCHANGED <<state[k], owner[k]>>
      /\ \A u \in Thread \ {t} : UNCHANGED <<pc[u], id[u], mx[u]>> /\ holds'[u] = holds[u]
      /\ holds'[t] = holds[t] \cup {id[t]}
      /\ pc'[t] = "user" /\ state'[m] = "LOCKED" /\ owner'[m] = t /\ \A u \in Thread : mx[u] \in Slot
  BY <1>1, Zenon DEF TypeOK, UserSets
<1>3. id[t] \in known
  BY <1>1, Zenon DEF Waits
<1>4. UserSets' /\ Impolite' /\ ~(polite /\ panicked)'
  BY <1>1, <1>3, Zenon DEF UserSets, Impolite
<1>5. Named'
  BY <1>1, <1>2 DEF Named, Allocated
<1>6. Held'
  <2> SUFFICES ASSUME NEW u \in Thread, NEW i \in holds'[u]
               PROVE  \E k \in Slot : mxid'[k] = i /\ state'[k] = "LOCKED" /\ owner'[k] = u
    BY Zenon DEF Held
  <2>0. mxid' = mxid
    BY <1>1, Zenon
  <2>1. CASE i \in holds[u]
    <3>1. PICK k \in Slot : mxid[k] = i /\ state[k] = "LOCKED" /\ owner[k] = u
      BY <2>1, Zenon DEF Held
    <3> QED BY <1>1, <1>2, <2>0, <3>1, Zenon
  <2>2. CASE i \notin holds[u]
    BY <1>1, <1>2, <2>0, <2>2
  <2> QED BY <2>1, <2>2, Zenon
<1>7. Waits' /\ Unlocks'
  BY <1>1, <1>2 DEF Waits, Unlocks, Waiting
<1>8. News' /\ Goings'
  BY <1>1, <1>2 DEF News, Goings, New, Going
<1> QED BY <1>4, <1>5, <1>6, <1>7, <1>8, Zenon

LEMMA UnlockUser ==
  ASSUME TypeOK, IdInv, UserInv, polite, NEW t \in Thread, NEW m \in Slot, Unlock(t, m),
         UNCHANGED <<polite, known>>, holds' = [holds EXCEPT ![t] = @ \ {id[t]}]
  PROVE  UserInv'
<1> USE DEF UserInv
<1>1. /\ pc[t] = "unlock" /\ mxid[m] = id[t]
      /\ state' = [state EXCEPT ![m] = "UNLOCKED"] /\ owner' = [owner EXCEPT ![m] = NoThread]
      /\ pc' = [pc EXCEPT ![t] = "unlock_wakeup"] /\ mx' = [mx EXCEPT ![t] = m]
      /\ UNCHANGED <<mxid, nextmxid, id, panicked>>
  BY Zenon DEF Unlock, In, Found, Goto
<1>2. /\ \A k \in Slot \ {m} : UNCHANGED <<state[k], owner[k]>>
      /\ \A u \in Thread \ {t} : UNCHANGED <<pc[u], mx[u]>> /\ holds'[u] = holds[u]
      /\ holds'[t] = holds[t] \ {id[t]}
      /\ pc'[t] = "unlock_wakeup" /\ state'[m] = "UNLOCKED" /\ \A u \in Thread : mx[u] \in Slot
  BY <1>1, Zenon DEF TypeOK, UserSets
<1>3. id[t] \in holds[t] /\ id[t] # 0
  BY <1>1 DEF Unlocks, UserSets, Id
<1>4. owner[m] = t
  BY <1>1, <1>3 DEF Held, IdInv, IdsUnique
<1>5. UserSets' /\ Impolite' /\ ~(polite /\ panicked)'
  BY <1>1, Zenon DEF UserSets, Impolite
<1>6. Named'
  BY <1>1, <1>2 DEF Named, Allocated
<1>7. Held'
  <2> SUFFICES ASSUME NEW u \in Thread, NEW i \in holds'[u]
               PROVE  \E k \in Slot : mxid[k] = i /\ state'[k] = "LOCKED" /\ owner'[k] = u
    BY <1>1 DEF Held
  <2>1. i \in holds[u]
    BY <1>2, Zenon
  <2>2. PICK k \in Slot : mxid[k] = i /\ state[k] = "LOCKED" /\ owner[k] = u
    BY <2>1, Zenon DEF Held
  <2>3. k # m
    BY <1>1, <1>2, <1>4, <2>2, Zenon
  <2> QED BY <1>2, <2>2, <2>3, Zenon
<1>8. Waits' /\ Unlocks'
  BY <1>1, <1>2 DEF Waits, Unlocks, Waiting
<1>9. News' /\ Goings'
  BY <1>1, <1>2 DEF News, Goings, New, Going
<1> QED BY <1>5, <1>6, <1>7, <1>8, <1>9, Zenon

(* A thread that finds its mutex locked waits on the slot of that mutex.   *)
LEMMA LockWaits ==
  ASSUME TypeOK, UserInv, polite, NEW t \in Thread, LockSleep(t) \/ \E m \in Slot : LockBusy(t, m),
         UNCHANGED <<polite, known, holds>>
  PROVE  UserInv'
<1> USE DEF UserInv
<1>1. /\ Waiting(t) /\ \E l \in {"lock_sleep", "lock_again"} : pc' = [pc EXCEPT ![t] = l]
      /\ \E m \in Slot : mxid[m] = id[t] /\ mx' = [mx EXCEPT ![t] = m]
      /\ UNCHANGED <<tableVars, id, panicked>>
  <2>1. CASE LockSleep(t)
    <3>1. mxid[mx[t]] = id[t] /\ mx[t] \in Slot /\ mx' = [mx EXCEPT ![t] = mx[t]]
      BY <2>1, Zenon DEF LockSleep, Waits, Waiting, TypeOK
    <3> QED BY <2>1, <3>1, Zenon DEF LockSleep, Goto, Waiting
  <2>2. ASSUME NEW m \in Slot, LockBusy(t, m)
        PROVE  Waiting(t) /\ mxid[m] = id[t] /\ pc' = [pc EXCEPT ![t] = "lock_sleep"]
    BY <2>2, Zenon DEF LockBusy, Xchg, In, Found, Goto, Waiting, Waits
  <2> QED BY <2>1, <2>2, Zenon DEF LockBusy
<1>2. \A u \in Thread \ {t} : UNCHANGED <<pc[u], id[u], mx[u]>>
  BY <1>1, Zenon DEF TypeOK
<1>3. pc'[t] \in {"lock_sleep", "lock_again"} /\ id'[t] = id[t] /\ mxid'[mx'[t]] = id[t]
  BY <1>1, Zenon DEF TypeOK, tableVars
<1>4. UserSets' /\ Impolite' /\ ~(polite /\ panicked)'
  BY <1>1, Zenon DEF UserSets, Impolite
<1>5. Named' /\ Held'
  <2>1. UNCHANGED <<mxid, state, owner, known, holds>>
    BY <1>1, Zenon DEF tableVars
  <2>2. \A i : Allocated(i)' <=> Allocated(i)
    BY <2>1, Zenon DEF Allocated
  <2> QED BY <2>1, <2>2, Zenon DEF Named, Held
<1>6. Waits' /\ Unlocks'
  BY <1>1, <1>2, <1>3 DEF Waits, Unlocks, Waiting, tableVars
<1>7. News' /\ Goings'
  BY <1>1, <1>2, <1>3 DEF News, Goings, New, Going, tableVars
<1> QED BY <1>4, <1>5, <1>6, <1>7, Zenon

(* alloc returns an id that the program did not know before.               *)
LEMMA AllocReturnUser ==
  ASSUME TypeOK, IdInv, UserInv, polite, NEW t \in Thread, AllocReturn(t),
         UNCHANGED <<polite, holds>>, known' = known \cup {mxid[mx[t]]}
  PROVE  UserInv'
<1> USE DEF UserInv
<1>1. /\ New(t) /\ pc' = [pc EXCEPT ![t] = "user"] /\ id' = [id EXCEPT ![t] = 0]
      /\ mx' = [mx EXCEPT ![t] = 1] /\ UNCHANGED <<state, mxid, owner, nextmxid, panicked>>
  BY Zenon DEF AllocReturn, Return, Goto, New, tableVars
<1>2. /\ \A u \in Thread \ {t} : UNCHANGED <<pc[u], id[u], mx[u]>>
      /\ pc'[t] = "user" /\ \A u \in Thread : mx[u] \in Slot
  BY <1>1, Zenon DEF TypeOK
<1>3. /\ state[mx[t]] # "FREE" /\ mxid[mx[t]] \in Id \ known /\ mxid[mx[t]] # 0
      /\ \A u \in Thread \ {t} : New(u) => mx[u] # mx[t]
      /\ \A u \in Thread : Going(u) => id[u] # mxid[mx[t]]
  BY <1>1 DEF News, Id
<1>4. UserSets' /\ Impolite' /\ ~(polite /\ panicked)'
  BY <1>1, <1>3, Zenon DEF UserSets, Impolite
<1>5. Named' /\ Held'
  BY <1>1, <1>2, <1>3 DEF Named, Held, Allocated
<1>6. Waits' /\ Unlocks'
  BY <1>1, <1>2 DEF Waits, Unlocks, Waiting
<1>7. News'
  <2>1. \A u \in Thread \ {t} : New(u) => mxid[mx[u]] # mxid[mx[t]]
    BY <1>2, <1>3, Zenon DEF IdInv, IdsUnique
  <2> QED BY <1>1, <1>2, <2>1 DEF News, New, Going
<1>8. Goings'
  BY <1>1, <1>2, <1>3 DEF Goings, Going
<1> QED BY <1>4, <1>5, <1>6, <1>7, <1>8, Zenon

(* Programs without discipline know and hold nothing.                      *)
LEMMA ImpoliteStep == ASSUME UserInv, ~ polite, [UsersNext]_userVars PROVE UserInv'
<1>1. polite' = polite /\ known' = {} /\ holds' \in [Thread -> SUBSET {}]
  <2>0. known = {} /\ holds \in [Thread -> SUBSET {}]
    BY Zenon DEF UserInv, UserSets, Impolite
  <2>1. CASE UNCHANGED userVars
    BY <2>0, <2>1, Zenon DEF userVars
  <2>2. ASSUME NEW t \in Thread, UserKernel(t) PROVE polite' = polite /\ known' = {} /\ holds' \in [Thread -> SUBSET {}]
    BY <2>0, <2>2, Zenon DEF UserKernel
  <2>3. ASSUME NEW t \in Thread, UserDies(t) PROVE polite' = polite /\ known' = {} /\ holds' \in [Thread -> SUBSET {}]
    BY <2>0, <2>3, Zenon DEF UserDies
  <2>4. ASSUME NEW t \in Thread, NEW op \in Op, NEW i \in 0 .. MaxId, UserCall(t, op, i)
        PROVE  polite' = polite /\ known' = {} /\ holds' \in [Thread -> SUBSET {}]
    BY <2>0, <2>4, Zenon DEF UserCall
  <2> QED BY <2>1, <2>2, <2>3, <2>4, Zenon DEF UsersNext
<1>2. \A t \in Thread : holds'[t] = {}
  BY <1>1, Zenon
<1>3. UserSets' /\ Impolite'
  <2>1. polite' \in BOOLEAN
    BY <1>1, Zenon DEF UserInv, UserSets
  <2>2. known' \subseteq Id /\ holds' \in [Thread -> SUBSET known']
    BY <1>1, Zenon
  <2> QED BY <1>1, <2>1, <2>2, Zenon DEF UserSets, Impolite
<1>4. Named' /\ Held'
  BY <1>1, <1>2, Zenon DEF Named, Held
<1> QED BY <1>1, <1>3, <1>4, Zenon DEF UserInv, Waits, Unlocks, News, Goings

LEMMA UserKernelStep ==
  ASSUME TypeOK, IdInv, UserInv, polite, NEW t \in Thread, UserKernel(t)
  PROVE  UserInv'
<1>1. Kernel(t) /\ polite' = polite
  BY Zenon DEF UserKernel
<1>2. pc[t] # "alloc_return" => known' = known
  BY Zenon DEF UserKernel
<1>3. ~ Took /\ pc'[t] # "unlock_wakeup" => holds' = holds
  BY Zenon DEF UserKernel, UserInv, UserSets
<1>4. UNCHANGED tableVars => ~ Took
  BY Zenon DEF Took, tableVars
<1>5. ASSUME Return(t) PROVE /\ pc'[t] = "user"
                             /\ \A u \in Thread \ {t} : pc'[u] = pc[u] /\ id'[u] = id[u] /\ mx'[u] = mx[u]
  BY <1>5, Zenon DEF Return, Goto, TypeOK
<1>6. ASSUME UNCHANGED <<tableVars, panicked>>, Return(t), pc[t] # "alloc_return" PROVE UserInv'
  BY <1>1, <1>2, <1>3, <1>4, <1>5, <1>6, CallEnds, Zenon
<1>7. CASE AllocFull(t) \/ Wakeup(t) \/ \E op \in {"dealloc", "lock", "unlock"} : NotFound(t, op)
  BY <1>6, <1>7, Zenon DEF AllocFull, Wakeup, NotFound, In
<1>8. ASSUME NEW m \in Slot, DeallocRefused(t, m) \/ UnlockRefused(t, m) PROVE UserInv'
  BY <1>6, <1>8, Zenon DEF DeallocRefused, UnlockRefused, In
<1>9. CASE AllocReturn(t)
  <2>1. known' = known \cup {mxid[mx[t]]}
    BY <1>9, Zenon DEF AllocReturn, UserKernel
  <2> QED BY <1>1, <1>3, <1>4, <1>5, <1>9, <2>1, AllocReturnUser, Zenon DEF AllocReturn
<1>10. CASE LockSleep(t) \/ \E m \in Slot : LockBusy(t, m)
  <2>1. /\ UNCHANGED tableVars /\ pc[t] # "alloc_return"
        /\ \E l \in {"lock_sleep", "lock_again"} : pc' = [pc EXCEPT ![t] = l]
    BY <1>10, Zenon DEF LockSleep, LockBusy, Xchg, In, Goto
  <2>2. pc'[t] # "unlock_wakeup"
    BY <2>1, Zenon DEF TypeOK
  <2> QED BY <1>1, <1>2, <1>3, <1>4, <1>10, <2>1, <2>2, LockWaits, Zenon
<1>11. ASSUME NEW m \in Slot, Alloc(t, m) PROVE UserInv'
  <2>1. ~ Took /\ pc[t] # "alloc_return" /\ pc'[t] # "unlock_wakeup"
    BY <1>11, Zenon DEF Took, Alloc, In, Goto, TypeOK
  <2> QED BY <1>1, <1>2, <1>3, <1>11, <2>1, AllocUser, Zenon
<1>12. ASSUME NEW m \in Slot, Dealloc(t, m) PROVE UserInv'
  <2>1. ~ Took /\ pc[t] # "alloc_return" /\ pc'[t] # "unlock_wakeup"
    BY <1>5, <1>12, Zenon DEF Took, Dealloc, In, TypeOK
  <2> QED BY <1>1, <1>2, <1>3, <1>12, <2>1, DeallocUser, Zenon
<1>13. ASSUME NEW m \in Slot, LockTake(t, m) PROVE UserInv'
  <2>1. Took /\ pc[t] # "alloc_return"
    BY <1>13, Zenon DEF Took, LockTake, Xchg, In, TypeOK
  <2>2. holds' = [holds EXCEPT ![t] = @ \cup {id[t]}]
    BY <2>1, Zenon DEF UserKernel
  <2> QED BY <1>1, <1>2, <1>13, <2>1, <2>2, LockTakeUser, Zenon
<1>14. ASSUME NEW m \in Slot, Unlock(t, m) PROVE UserInv'
  <2>1. ~ Took /\ pc[t] # "alloc_return" /\ pc'[t] = "unlock_wakeup"
    BY <1>14, Zenon DEF Took, Unlock, In, Goto, TypeOK
  <2>2. holds' = [holds EXCEPT ![t] = @ \ {id[t]}]
    BY <2>1, Zenon DEF UserKernel
  <2> QED BY <1>1, <1>2, <1>14, <2>1, <2>2, UnlockUser, Zenon
<1>15. ASSUME NEW m \in Slot, LockPanic(t, m) PROVE FALSE
  <2>1. pc[t] = "lock" /\ mxid[m] = id[t] /\ state[m] = "FREE"
    BY <1>15, Zenon DEF LockPanic, In, Found
  <2>2. id[t] \in known /\ id[t] # 0
    BY <2>1 DEF UserInv, Waits, Waiting, UserSets, Id
  <2> QED BY <2>1, <2>2, Zenon DEF UserInv, IdInv
<1> QED BY <1>1, <1>7, <1>8, <1>9, <1>10, <1>11, <1>12, <1>13, <1>14, <1>15, Zenon DEF Kernel

LEMMA UserStep == TypeOK /\ IdInv /\ UserInv /\ [UsersNext]_userVars => UserInv'
<1> SUFFICES ASSUME TypeOK, IdInv, UserInv, [UsersNext]_userVars PROVE UserInv'
  BY Zenon
<1>1. CASE ~ polite
  BY <1>1, ImpoliteStep, Zenon
<1>2. CASE polite /\ UNCHANGED userVars
  <2>1. UNCHANGED <<tableVars, pc, id, mx, panicked, polite, known, holds>>
    BY <1>2, Zenon DEF userVars, vars
  <2> QED BY <2>1 DEF UserInv, UserSets, Impolite, Named, Held, Waits, Unlocks, News, Goings,
                       Allocated, Waiting, New, Going, tableVars
<1>3. ASSUME polite, NEW t \in Thread, UserDies(t) PROVE UserInv'
  <2>1. /\ UNCHANGED <<tableVars, polite, known, holds, panicked>> /\ pc'[t] = "dead"
        /\ \A u \in Thread \ {t} : pc'[u] = pc[u] /\ id'[u] = id[u] /\ mx'[u] = mx[u]
    BY <1>3, Zenon DEF UserDies, Die, Goto, TypeOK
  <2> QED BY <2>1, CallEnds, Zenon
<1>4. ASSUME polite, NEW t \in Thread, NEW op \in Op, NEW i \in 0 .. MaxId, UserCall(t, op, i)
      PROVE  UserInv'
  BY <1>4, UserCallStep, Zenon
<1>5. ASSUME polite, NEW t \in Thread, UserKernel(t) PROVE UserInv'
  BY <1>5, UserKernelStep, Zenon
<1> QED BY <1>1, <1>2, <1>3, <1>4, <1>5, Zenon DEF UsersNext

(* The programs take no step of the kernel that Mutex does not have.       *)
LEMMA UsersAreUsers == UsersSpec => Spec
<1>1. UsersInit => Init
  BY Zenon DEF UsersInit
<1>2. [UsersNext]_userVars => [Next]_vars
  BY Zenon DEF UsersNext, userVars, UserKernel, UserDies, UserCall, Next, Program
<1> QED BY <1>1, <1>2, PTL DEF UsersSpec, Spec

LEMMA UsersInvariant == UsersSpec => []UserInv
<1>1. UsersInit => UserInv
  BY Zenon DEF UsersInit, Init, UserInv, UserSets, Impolite, Named, Held, Waits, Unlocks, News, Goings,
         Waiting, New, Going
<1> QED BY <1>1, UserStep, UsersAreUsers, MutexTypes, IdInvariant, PTL DEF UsersSpec

(* kthread_mutex_lock excludes: for any number of threads that die at any  *)
(* moment and any number of mutexes, among programs that lock what they    *)
(* know and unlock what they hold a mutex has one holder, the recorded     *)
(* owner, from the lock to the unlock.                                     *)
THEOREM MutexExcludes == UsersSpec => []MutualExclusion
<1>1. IdInv /\ UserInv => MutualExclusion
  <2> SUFFICES ASSUME IdInv, UserInv, NEW t \in Thread, NEW i \in holds[t]
               PROVE  /\ \A u \in Thread \ {t} : i \notin holds[u]
                      /\ \E m \in Slot : mxid[m] = i /\ state[m] = "LOCKED" /\ owner[m] = t
    BY Zenon DEF MutualExclusion
  <2>1. i # 0
    BY DEF UserInv, UserSets, Id
  <2> QED BY <2>1 DEF UserInv, Held, IdInv, IdsUnique
<1> QED BY <1>1, UsersInvariant, UsersAreUsers, IdInvariant, PTL

(* The slot of a mutex that alloc returned is not recycled before dealloc: *)
(* a thread that waits in lock waits for the mutex it asked for, and the   *)
(* panic of kthread_mutex_lock is not reached.                             *)
THEOREM MutexWaits == UsersSpec => []WaitsForItsMutex
<1>1. UserInv => WaitsForItsMutex
  BY Zenon DEF UserInv, WaitsForItsMutex, Named, Allocated, Waits, Waiting
<1> QED BY <1>1, UsersInvariant, PTL
=============================================================================

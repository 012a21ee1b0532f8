-------------------------------- MODULE Fssp --------------------------------
(***************************************************************************)
(* The program fssp: main and one kernel thread per soldier, in step       *)
(* through a barrier made of two kernel mutexes.  A mutex is a binary      *)
(* semaphore of MutexTable, which mutex.c implements: pre and post are     *)
(* locked by one thread and unlocked by another.  counter, read and        *)
(* written between a lock and an unlock, changes in one step; Guarded      *)
(* says that nobody can come in between.                                   *)
(*                                                                         *)
(* main is participant 0.  print_mx is left out: only main takes it.       *)
(***************************************************************************)
EXTENDS Integers, Sequences, FiniteSets

CONSTANT num_of_soldiers

ASSUME SoldiersAssumption == num_of_soldiers \in Nat \ {0}

Soldiers == 1 .. num_of_soldiers
Party == 0 .. num_of_soldiers
limitMore == num_of_soldiers + 2
limit == num_of_soldiers + 1

VARIABLES
  squad,        \* soldiers[i].state
  tid,          \* the soldiers whose tid main has stored
  cur, nxt,     \* curr_state and next_state of each soldier_func
  pc, round,    \* place of each participant; which inc_barrier it is in:
                \* 0 the start, 1 after computing, 2 after updating
  counter,      \* time_barrier.counter
  sem,          \* the states of time_barrier.pre_mx and post_mx
  joined        \* the soldiers kthread_join has returned for: i of the last loop

vars == <<squad, tid, cur, nxt, pc, round, counter, sem, joined>>

Mx == INSTANCE MutexTable WITH Id <- {"pre", "post"}, used <- {"pre", "post"}
Automaton == INSTANCE FiringSquad WITH MaxSoldiers <- num_of_soldiers

(* init_barrier locks post_mx.                                             *)
InitBarrier == [pre |-> "UNLOCKED", post |-> "LOCKED"]

(* After init_barrier, before the first soldier is created.                *)
Init ==
  /\ squad = [i \in Soldiers |-> "B"]
  /\ tid = {}
  /\ cur = [i \in Soldiers |-> "Q"] /\ nxt = [i \in Soldiers |-> "Q"]
  /\ pc = [p \in Party |-> IF p = 0 THEN "create" ELSE "none"]
  /\ round = [p \in Party |-> 0]
  /\ counter = 0 /\ joined = 0
  /\ sem = InitBarrier

Goto(p, l) == pc' = [pc EXCEPT ![p] = l]
(* Call inc_barrier for the r-th time of a generation.                     *)
Enter(p, r) == Goto(p, "lock_pre") /\ round' = [round EXCEPT ![p] = r]
Lock(m) == Mx!Lock(m)
Unlock(m) == Mx!Unlock(m) \/ (sem[m] # "LOCKED" /\ UNCHANGED sem)

-----------------------------------------------------------------------------
(* What follows the start barrier and the two of each generation; main     *)
(* goes from the first of these straight into the second.                  *)
AfterBarrier(p) ==
  (IF p = 0 THEN <<"loop", "lock_pre", "print">> ELSE <<"lookup", "update", "loop">>)[round[p] + 1]

(* inc_barrier: the last to arrive opens post, the last to leave opens pre *)
(* again; everybody else passes on the mutex that let them in.             *)
LockPre(p) ==
  /\ pc[p] = "lock_pre" /\ Lock("pre")
  /\ Goto(p, "arrive")
  /\ UNCHANGED <<squad, tid, cur, nxt, round, counter, joined>>
Arrive(p) ==
  /\ pc[p] = "arrive"
  /\ counter' = counter + 1
  /\ Unlock(IF limit > counter + 1 THEN "pre" ELSE "post")
  /\ Goto(p, "lock_post")
  /\ UNCHANGED <<squad, tid, cur, nxt, round, joined>>
LockPost(p) ==
  /\ pc[p] = "lock_post" /\ Lock("post")
  /\ Goto(p, "leave")
  /\ UNCHANGED <<squad, tid, cur, nxt, round, counter, joined>>
Leave(p) ==
  /\ pc[p] = "leave"
  /\ counter' = counter - 1
  /\ Unlock(IF counter - 1 > 0 THEN "post" ELSE "pre")
  /\ Goto(p, AfterBarrier(p))
  /\ round' = IF p = 0 /\ round[p] = 1 THEN [round EXCEPT ![p] = 2] ELSE round
  /\ UNCHANGED <<squad, tid, cur, nxt, joined>>

-----------------------------------------------------------------------------
(* main: a soldier may run before its tid is stored.                       *)
Create ==
  LET i == Cardinality(tid) + 1 IN
  /\ pc[0] = "create"
  /\ squad' = [squad EXCEPT ![i] = "Q"]
  /\ pc' = [pc EXCEPT ![0] = "store_tid", ![i] = "lock_pre"]
  /\ UNCHANGED <<tid, cur, nxt, round, counter, sem, joined>>
StoreTid ==
  /\ pc[0] = "store_tid"
  /\ tid' = tid \cup {Cardinality(tid) + 1}
  /\ Goto(0, IF tid' = Soldiers THEN "general" ELSE "create")
  /\ UNCHANGED <<squad, cur, nxt, round, counter, sem, joined>>
General ==
  /\ pc[0] = "general"
  /\ squad' = [squad EXCEPT ![1] = "P"]
  /\ Enter(0, 0)
  /\ UNCHANGED <<tid, cur, nxt, counter, sem, joined>>
MainLoop ==
  /\ pc[0] \in {"loop", "print"}
  /\ IF squad[1] # "F" THEN Enter(0, 1) ELSE Goto(0, "join") /\ UNCHANGED round
  /\ UNCHANGED <<squad, tid, cur, nxt, counter, sem, joined>>
(* kthread_join of the next soldier.  It looks at the soldier under        *)
(* p->lock and then goes to sleep; kthread_exit, which marks the soldier   *)
(* and wakes its sleepers under ptable.lock, may come in between, and      *)
(* nobody wakes main after that.                                           *)
JoinTest ==
  /\ pc[0] = "join" /\ joined < num_of_soldiers
  /\ IF pc[joined + 1] = "exited"
     THEN joined' = joined + 1 /\ UNCHANGED pc
     ELSE Goto(0, "join_sleep") /\ UNCHANGED joined
  /\ UNCHANGED <<squad, tid, cur, nxt, round, counter, sem>>
JoinSleep ==
  /\ pc[0] = "join_sleep"
  /\ Goto(0, "join_asleep")
  /\ UNCHANGED <<squad, tid, cur, nxt, round, counter, sem, joined>>
(* kill_barrier, when every soldier is joined.                             *)
Finish ==
  /\ pc[0] = "join" /\ joined = num_of_soldiers
  /\ sem' = [m \in DOMAIN sem |-> "none"] /\ counter' = 0
  /\ Goto(0, "exited")
  /\ UNCHANGED <<squad, tid, cur, nxt, round, joined>>

(* soldier_func, which ends in kthread_exit.                               *)
kthread_exit(i) ==
  pc' = [pc EXCEPT ![i] = "exited",
                   ![0] = IF @ = "join_asleep" /\ i = joined + 1 THEN "join" ELSE @]
Lookup(i) ==
  /\ pc[i] = "lookup"
  /\ IF i \in tid THEN Goto(i, "loop") ELSE kthread_exit(i)
  /\ UNCHANGED <<squad, tid, cur, nxt, round, counter, sem, joined>>
Compute(i) ==
  /\ pc[i] = "loop" /\ squad[i] # "F"
  /\ cur' = [cur EXCEPT ![i] = squad[i]]
  /\ nxt' = [nxt EXCEPT ![i] = Automaton!NextState(squad, i)]
  /\ Enter(i, 1)
  /\ UNCHANGED <<squad, tid, counter, sem, joined>>
Fired(i) ==
  /\ pc[i] = "loop" /\ squad[i] = "F"
  /\ kthread_exit(i)
  /\ UNCHANGED <<squad, tid, cur, nxt, round, counter, sem, joined>>
UpdateNoBarrier(i) ==
  /\ pc[i] = "update"
  /\ squad' = [squad EXCEPT ![i] = nxt[i]]
  /\ Goto(i, "loop") /\ round' = [round EXCEPT ![i] = 2]
  /\ UNCHANGED <<tid, cur, nxt, counter, sem, joined>>
Update(i) ==
  /\ pc[i] = "update"
  /\ squad' = [squad EXCEPT ![i] = nxt[i]]
  /\ Enter(i, 2)
  /\ UNCHANGED <<tid, cur, nxt, counter, sem, joined>>

Barrier(p) == LockPre(p) \/ Arrive(p) \/ LockPost(p) \/ Leave(p)
Main == Barrier(0) \/ Create \/ StoreTid \/ General \/ MainLoop \/ JoinTest \/ JoinSleep \/ Finish
SoldierFunc(i) == Barrier(i) \/ Lookup(i) \/ Compute(i) \/ Fired(i) \/ Update(i)
Next == Main \/ (\E i \in Soldiers : SoldierFunc(i))
(* The kernel schedules every thread, and no other program runs mutexes.   *)
Spec == Init /\ [][Next]_vars /\ WF_vars(Main) /\ \A i \in Soldiers : WF_vars(SoldierFunc(i))

-----------------------------------------------------------------------------
(* main sleeps in kthread_join for a soldier that has left before.         *)
MissedExit == pc[0] = "join_asleep" /\ pc[joined + 1] = "exited"

(* counter++ and counter-- never overlap, though pre_mx and post_mx are    *)
(* unlocked by other threads than the ones that locked them, and counter   *)
(* tells how many participants are inside.                                 *)
Guarded ==
  /\ \A p, q \in Party : {pc[p], pc[q]} \subseteq {"arrive", "leave"} => p = q
  /\ counter = Cardinality({p \in Party : pc[p] \in {"lock_post", "leave"}})

(* A soldier thread leaves only after it has fired: it finds its own tid   *)
(* ("ERROR: worng index" is not reached) and nobody is left in the barrier *)
(* when main destroys it.                                                  *)
LeavesFired ==
  \A i \in Soldiers : pc[i] = "exited" => squad[i] = "F" /\ i \in tid

(* The threads implement the synchronous automaton: a generation happens   *)
(* when its last soldier updates, and all before it count as not updated.  *)
Updated(i) == round[i] = 2 /\ pc[i] \notin {"loop", "exited"}
Pending(j) == round[j] = 1 /\ pc[j] \in {"lock_post", "leave", "update"}
Line ==
  [i \in Soldiers |->
     IF pc[0] \in {"create", "store_tid", "general"} THEN IF i = 1 THEN "P" ELSE "Q"
     ELSE IF Updated(i) /\ \E j \in Soldiers : Pending(j) THEN cur[i] ELSE squad[i]]
Abstract == INSTANCE FiringSquad WITH MaxSoldiers <- num_of_soldiers, squad <- Line
ImplementsSquad == Abstract!Spec
=============================================================================

----------------------------- MODULE MutexTable -----------------------------
(***************************************************************************)
(* What the kernel's mutexes promise: a table of binary semaphores, each   *)
(* named by an id that is never given out twice.  Whoever locks a mutex    *)
(* found it unlocked; anybody may unlock it; a locked one is not removed.  *)
(***************************************************************************)
EXTENDS Naturals

CONSTANT Id
VARIABLES sem,     \* sem[i]: "none", "LOCKED" or "UNLOCKED"
          used     \* the ids given out so far

Init == sem = [i \in Id |-> "none"] /\ used = {}

Create(i) == /\ i \notin used
             /\ used' = used \cup {i} /\ sem' = [sem EXCEPT ![i] = "UNLOCKED"]
Change(i, from, to) ==
  sem[i] = from /\ sem' = [sem EXCEPT ![i] = to] /\ UNCHANGED used
Lock(i) == Change(i, "UNLOCKED", "LOCKED")
Unlock(i) == Change(i, "LOCKED", "UNLOCKED")
Destroy(i) == Change(i, "UNLOCKED", "none")

Next == \E i \in Id : Create(i) \/ Lock(i) \/ Unlock(i) \/ Destroy(i)
Spec == Init /\ [][Next]_<<sem, used>>
=============================================================================

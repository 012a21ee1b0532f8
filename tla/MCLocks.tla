------------------------------ MODULE MCLocks ------------------------------
(***************************************************************************)
(* Three models in one state graph: the kernel mutexes (MutexUsers), the   *)
(* spin locks below them, and the start of the processors, when there are  *)
(* no locks yet (Processors).  part tells which of them a behaviour is     *)
(* about; the others do not move.                                          *)
(***************************************************************************)
EXTENDS MutexUsers, Processors, TLC

VARIABLE part

LocksInit ==
  /\ UsersInit /\ ProcessorsInit
  /\ part = "mutex" \/ (part \in {"spin", "boot"} /\ polite)
LocksNext ==
  \/ part = "mutex" /\ UsersNext /\ UNCHANGED <<part, spinVars, bootVars>>
  \/ part = "spin" /\ Locking /\ UNCHANGED <<part, userVars>>
  \/ part = "boot" /\ Starting /\ UNCHANGED <<part, userVars>>
LocksSpec == LocksInit /\ [][LocksNext]_<<part, userVars, spinVars, bootVars>>

Symmetry == Permutations(Thread)
=============================================================================

---------------------------- MODULE MCProcTable ----------------------------
(* Instances of ProcTable for TLC.  The CPUs are interchangeable.  A mix   *)
(* of programs says which of the calls each process really makes: all of   *)
(* them ("any"); all of them while there is no third process ("threads");  *)
(* or process 2 forks a child that exits, waits for it in one thread and   *)
(* calls exec in the other ("family").                                     *)
EXTENDS ProcTable, TLC

CONSTANT Mixes
VARIABLE mix

Program(p) ==
  CASE mix # "family" -> Call
    [] p = initproc -> {"fork"}
    [] p = 2 -> {"fork", "wait", "exec", "kthread_create"}
    [] OTHER -> {"exit"}
Enters(c) == At(c, "user") /\ ~Dying(ProcOf(c)) /\ frame'[c].pc \in Call

MCInit == Init /\ mix \in Mixes
MCNext == /\ Next /\ UNCHANGED mix
          /\ \A c \in CPU : Enters(c) => frame'[c].pc \in Program(ProcOf(c))
          /\ mix = "threads" => \A p \in Proc : p > 2 => pstate'[p] = "UNUSED"
MCSpec == MCInit /\ [][MCNext]_<<vars, mix>>
MCFairSpec == MCSpec /\ Fairness

Symmetry == Permutations(CPU)
=============================================================================

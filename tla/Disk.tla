-------------------------------- MODULE Disk --------------------------------
(***************************************************************************)
(* What the log promises the file system: a disk on which the writes of    *)
(* system calls become durable all together or not at all.  current is     *)
(* what running system calls see, durable what a crash leaves behind, and  *)
(* active the threads inside a system call.                                *)
(***************************************************************************)
CONSTANTS Thread, Block, Val
VARIABLES current, durable, active

Init ==
  /\ durable \in [Block -> Val] /\ current = durable
  /\ active = {}

Begin(t) ==
  /\ t \notin active /\ active' = active \cup {t}
  /\ UNCHANGED <<current, durable>>
Write(t, b, v) ==
  /\ t \in active /\ current' = [current EXCEPT ![b] = v]
  /\ UNCHANGED <<durable, active>>
End(t) ==
  /\ t \in active /\ active' = active \ {t}
  /\ UNCHANGED <<current, durable>>
(* Only when no system call is under way.                                  *)
Commit == active = {} /\ durable' = current /\ UNCHANGED <<current, active>>
Crash == current' = durable /\ active' = {} /\ UNCHANGED durable

Next ==
  \/ \E t \in Thread : Begin(t) \/ End(t) \/ \E b \in Block, v \in Val : Write(t, b, v)
  \/ Commit \/ Crash
Spec == Init /\ [][Next]_<<current, durable, active>>
=============================================================================

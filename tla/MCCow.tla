------------------------------- MODULE MCCow -------------------------------
(* Instances of Cow for TLC.  Processes but init, and pages, are alike.    *)
EXTENDS Cow, TLC

(* Programs that pair cow_fork with cow_wait, as cowtest does, and the     *)
(* programs of the original system.                                        *)
CowOrPlain == {{"fork", "cow_fork", "cow_wait", "sbrk"}, {"fork", "wait", "exec", "sbrk", "shrink", "big"}}
(* cow_fork, and wait for the child as every other program does.           *)
Mixed == {{"cow_fork", "wait", "sbrk"}}
Symmetry == Permutations(Proc \ {initproc}) \cup Permutations(Page)
=============================================================================

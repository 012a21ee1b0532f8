------------------------------- MODULE Memory -------------------------------
(***************************************************************************)
(* What the kernel promises a process about its memory: it is private.     *)
(* A child starts with a copy of its parent's image, and from then on      *)
(* nobody but the process itself changes its image.                        *)
(***************************************************************************)
EXTENDS Naturals, Sequences

CONSTANTS Proc, Val, Zero
VARIABLE image       \* image[p]: the pages of p, none when p does not run

Init == \E p \in Proc, v \in Val : image = [q \in Proc |-> IF q = p THEN <<v>> ELSE <<>>]

Fork(p, q) == /\ image[p] # <<>> /\ image[q] = <<>>
              /\ image' = [image EXCEPT ![q] = image[p]]
Store(p, a, v) == image' = [image EXCEPT ![p][a] = v]
Grow(p) == image[p] # <<>> /\ image' = [image EXCEPT ![p] = Append(@, Zero)]
Shrink(p) == Len(image[p]) > 1 /\ image' = [image EXCEPT ![p] = SubSeq(@, 1, Len(@) - 1)]
Exec(p) == /\ image[p] # <<>> /\ image'[p] \in Seq(Val) \ {<<>>}
           /\ image' = [image EXCEPT ![p] = image'[p]]
Exit(p) == image' = [image EXCEPT ![p] = <<>>]

Next == \E p \in Proc :
  \/ \E q \in Proc : Fork(p, q)
  \/ \E a \in DOMAIN image[p], v \in Val : Store(p, a, v)
  \/ Grow(p) \/ Shrink(p) \/ Exec(p) \/ Exit(p)
Spec == Init /\ [][Next]_image
=============================================================================

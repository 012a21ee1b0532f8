----------------------------- MODULE ByteStream -----------------------------
(***************************************************************************)
(* What a pipe promises: a bounded queue of bytes.  Bytes come out once    *)
(* and in the order they went in, and none is lost while somebody can      *)
(* still read.                                                             *)
(***************************************************************************)
EXTENDS Naturals, Sequences

CONSTANTS Byte, Capacity
VARIABLES queue, gone      \* gone: both ends are closed

Init == queue = <<>> /\ gone = FALSE
Put(s) ==
  /\ ~gone /\ Len(queue) + Len(s) <= Capacity
  /\ queue' = queue \o s /\ UNCHANGED gone
Take(k) ==
  /\ ~gone /\ k <= Len(queue)
  /\ queue' = SubSeq(queue, k + 1, Len(queue)) /\ UNCHANGED gone
Close == ~gone /\ gone' = TRUE /\ queue' = <<>>

Next == \/ \E k \in 1 .. Capacity : Take(k) \/ \E s \in [1 .. k -> Byte] : Put(s)
        \/ Close
Spec == Init /\ [][Next]_<<queue, gone>>
=============================================================================

----------------------------- MODULE BlockStore -----------------------------
(***************************************************************************)
(* What the buffer cache promises (bio.c, "Only one process at a time can  *)
(* use a buffer"): every block has one content, which a thread may look at *)
(* and change between bread and brelse, one thread at a time.              *)
(***************************************************************************)
CONSTANTS Thread, NoThread, Block, Val
VARIABLES content, user     \* of each block: what it holds, who is using it

Init == content \in [Block -> Val] /\ user = [k \in Block |-> NoThread]
Bread(t, k) ==
  /\ user[k] = NoThread /\ user' = [user EXCEPT ![k] = t]
  /\ UNCHANGED content
Change(t, k, v) ==
  /\ user[k] = t /\ content' = [content EXCEPT ![k] = v]
  /\ UNCHANGED user
Brelse(t, k) ==
  /\ user[k] = t /\ user' = [user EXCEPT ![k] = NoThread]
  /\ UNCHANGED content

Next == \E t \in Thread, k \in Block :
          Bread(t, k) \/ Brelse(t, k) \/ \E v \in Val : Change(t, k, v)
Spec == Init /\ [][Next]_<<content, user>>
=============================================================================

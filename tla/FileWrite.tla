------------------------------ MODULE FileWrite ------------------------------
(***************************************************************************)
(* filewrite (file.c) with its own numbers: a write is cut into            *)
(* pieces, each a transaction of the log.  Of the log there is what        *)
(* decides on its space: the blocks recorded in log.lh, the number of      *)
(* transactions, and the commit of the last one (module Log has the rest). *)
(* Every writer has a file of its own and writes to the end of it.         *)
(***************************************************************************)
EXTENDS Naturals, Sequences, FiniteSets, SequencesExt

CONSTANTS Writer, Sizes,   \* who writes, and how many bytes per call
          MaxOff,          \* nobody calls write again from this offset on
          MAXOPBLOCKS, LOGSIZE,
          nlog             \* log.size, as mkfs makes it

BSIZE == 512
NDIRECT == 12
MAXFILE == NDIRECT + BSIZE \div 4

VARIABLES lh, outstanding, committing,
          n, i,            \* bytes of the call, and those written
          off,             \* f->off
          todo,            \* the blocks the transaction has still to log
          at,              \* "user", "loop", "writei"
          panic

vars == <<lh, outstanding, committing, n, i, off, todo, at, panic>>

Init ==
    /\ lh = {} /\ outstanding = 0 /\ committing = FALSE
    /\ n = [w \in Writer |-> 0] /\ i = [w \in Writer |-> 0]
    /\ off = [w \in Writer |-> 0]
    /\ todo = [w \in Writer |-> <<>>]
    /\ at = [w \in Writer |-> "user"]
    /\ panic = FALSE

max == ((LOGSIZE - 1 - 1 - 2) \div 2) * 512
Piece(w) == IF n[w] - i[w] > max THEN max ELSE n[w] - i[w]

\* The blocks that writei passes to log_write for n1 bytes at the end of the
\* file: for a block not there yet, balloc logs the bitmap and the zeroed
\* block, twice if the indirect block is missing too; then the data; at last
\* the inode with the new size.
Data(w, b) == <<w, "data", b>>
Allocated(w, b) == b * BSIZE < off[w]
balloc(block) == << <<"bitmap">>, block >>
bmap(w, b) ==
    (IF b = NDIRECT /\ ~ Allocated(w, b)
     THEN balloc(<<w, "indirect">>) ELSE <<>>)
    \o (IF Allocated(w, b) THEN <<>> ELSE balloc(Data(w, b)))
    \o (IF b >= NDIRECT /\ ~ Allocated(w, b) THEN << <<w, "indirect">> >> ELSE <<>>)
TooLong(w) == off[w] + Piece(w) > MAXFILE * BSIZE
writei(w, n1) ==
    FlattenSeq([k \in 1..((off[w] + n1 - 1) \div BSIZE - off[w] \div BSIZE + 1) |->
                  LET b == off[w] \div BSIZE + k - 1 IN bmap(w, b) \o <<Data(w, b)>>])
    \o << <<w, "inode">> >>

-----------------------------------------------------------------------------
sys_write(w, size) ==
    /\ at[w] = "user" /\ off[w] < MaxOff
    /\ at' = [at EXCEPT ![w] = "loop"]
    /\ n' = [n EXCEPT ![w] = size] /\ i' = [i EXCEPT ![w] = 0]
    /\ UNCHANGED <<lh, outstanding, committing, off, todo, panic>>

begin_op(w) ==
    /\ at[w] = "loop" /\ i[w] < n[w]
    /\ ~ committing
    /\ Cardinality(lh) + (outstanding + 1) * MAXOPBLOCKS <= LOGSIZE
    /\ outstanding' = outstanding + 1
    /\ todo' = [todo EXCEPT ![w] = IF TooLong(w) THEN <<>> ELSE writei(w, Piece(w))]
    /\ at' = [at EXCEPT ![w] = "writei"]
    /\ UNCHANGED <<lh, committing, n, i, off, panic>>

log_write(w) ==
    /\ at[w] = "writei" /\ todo[w] # <<>>
    /\ IF Cardinality(lh) >= LOGSIZE \/ Cardinality(lh) >= nlog - 1
       THEN panic' = TRUE /\ UNCHANGED <<lh, todo>>
       ELSE /\ lh' = lh \cup {Head(todo[w])}
            /\ todo' = [todo EXCEPT ![w] = Tail(@)]
            /\ UNCHANGED panic
    /\ UNCHANGED <<outstanding, committing, n, i, off, at>>

end_op(w) ==
    /\ at[w] = "writei" /\ todo[w] = <<>>
    /\ outstanding' = outstanding - 1
    /\ committing' = (outstanding = 1)
    /\ IF TooLong(w)
       THEN at' = [at EXCEPT ![w] = "user"] /\ UNCHANGED <<off, i>>
       ELSE /\ off' = [off EXCEPT ![w] = @ + Piece(w)]
            /\ i' = [i EXCEPT ![w] = @ + Piece(w)]
            /\ at' = [at EXCEPT ![w] = "loop"]
    /\ UNCHANGED <<lh, n, todo, panic>>

return(w) ==
    /\ at[w] = "loop" /\ i[w] = n[w]
    /\ at' = [at EXCEPT ![w] = "user"]
    /\ UNCHANGED <<lh, outstanding, committing, n, i, off, todo, panic>>

\* The one who ended the last transaction commits.
commit ==
    /\ committing
    /\ committing' = FALSE /\ lh' = {}
    /\ UNCHANGED <<outstanding, n, i, off, todo, at, panic>>

Next == /\ ~ panic
        /\ \/ commit
           \/ \E w \in Writer : \/ \E size \in Sizes : sys_write(w, size)
                                \/ begin_op(w) \/ log_write(w)
                                \/ end_op(w) \/ return(w)

Spec == Init /\ [][Next]_vars

=============================================================================

------------------------------- MODULE MCLog -------------------------------
(***************************************************************************)
(* Four instances in one state graph.  Of Log, on the same disk: calls     *)
(* that write whatever they like in a log with room for every block (the   *)
(* constants of the model), and calls of one or two blocks (MAXOPBLOCKS)   *)
(* in a log that is too small for all of them at once.  Of FileWrite: one  *)
(* process that writes a file up to its maximal size, and two that write   *)
(* at once, six to thirteen blocks per call, with the numbers of param.h.  *)
(* part tells which of them a behaviour is about; the others do not move.  *)
(***************************************************************************)
EXTENDS Log, TLC

VARIABLES part,
          big,     \* history: a call of this transaction fills its reservation
          flh, foutstanding, fcommitting, n, i, off, todo, at, fpanic   \* of FileWrite
writeVars == <<flh, foutstanding, fcommitting, n, i, off, todo, at, fpanic>>

Anything == {Block}
UpToTwo == {S \in SUBSET Block : Cardinality(S) \in 1 .. 2}
Tight == INSTANCE Log WITH Writes <- UpToTwo, LOGSIZE <- 4, nlog <- 4
Alone == INSTANCE FileWrite WITH
  Writer <- {1}, Sizes <- {20000}, MaxOff <- 80000,
  MAXOPBLOCKS <- 10, LOGSIZE <- 30, nlog <- 30,
  lh <- flh, outstanding <- foutstanding, committing <- fcommitting, panic <- fpanic
Both == INSTANCE FileWrite WITH
  Writer <- {1, 2}, Sizes <- {3000, 6656}, MaxOff <- 6001,
  MAXOPBLOCKS <- 10, LOGSIZE <- 30, nlog <- 30,
  lh <- flh, outstanding <- foutstanding, committing <- fcommitting, panic <- fpanic

(* Where the contents do not matter: one value everywhere.                 *)
OneValue == \A b \in Block : cache[b] = logblk[1]
Blank == Init /\ OneValue
LogInit ==
  /\ big = FALSE
  /\ \/ part = "roomy" /\ Init /\ Alone!Init
     \/ part = "tight" /\ Tight!Init /\ OneValue /\ Alone!Init
     \/ part = "alone" /\ Blank /\ Alone!Init
     \/ part = "both" /\ Blank /\ Both!Init

(* Whether a call that takes part in the transaction has as many blocks to *)
(* log as begin_op has reserved for it, or more.                           *)
FillsItsPart ==
  \/ \E t \in Thread : pc[t] \in {"op", "append"} /\ Cardinality(mine[t]) >= MAXOPBLOCKS
  \/ \E w \in DOMAIN todo : Cardinality(Alone!ToSet(todo[w])) >= 10
Quiet == outstanding = 0 /\ ~committing /\ foutstanding = 0 /\ ~fcommitting
Remember == big' = (~Quiet' /\ (big \/ FillsItsPart'))

LogNext ==
  \/ part = "roomy" /\ Next /\ UNCHANGED <<part, big, writeVars>>
  \/ part = "tight" /\ Tight!Next /\ OneValue' /\ UNCHANGED <<part, writeVars>> /\ Remember
  \/ part = "alone" /\ Alone!Next /\ UNCHANGED <<part, big, vars>>
  \/ part = "both" /\ Both!Next /\ UNCHANGED <<part, vars>> /\ Remember
LogSpec == LogInit /\ [][LogNext]_<<part, big, vars, writeVars>>

Symmetry == Permutations(Thread) \cup Permutations(Block) \cup Permutations(Val)

-----------------------------------------------------------------------------
(* log_write finds the log full only in a transaction with a call that     *)
(* logs all of the MAXOPBLOCKS blocks begin_op has reserved for it, or     *)
(* more: log_write refuses the last block of the log, which begin_op gives *)
(* away, and filewrite cuts a write into pieces that take up to 17 blocks. *)
(* A long writer alone does not fill the log for all that, and no other    *)
(* assertion of log.c fails.                                               *)
NoLogPanic ==
  /\ panic # "no" => panic = "too big a transaction" /\ big
  /\ fpanic => big
=============================================================================

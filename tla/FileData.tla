------------------------------ MODULE FileData ------------------------------
(***************************************************************************)
(* Where the bytes of a file are (fs.c: balloc, bfree, bmap, itrunc,       *)
(* readi, writei).  A block is BSIZE cells; a cell holds a byte or, in an  *)
(* indirect block, a block number, and 0 is what bzero leaves.  The caller *)
(* of an operation has the inode locked, the bitmap is shared by all       *)
(* files: a step is one turn of the loop of writei.  off + n does not wrap *)
(* around here; devices and the log are left out (Console, Log).           *)
(***************************************************************************)
EXTENDS Integers, Sequences, FiniteSets

CONSTANTS
  File, Byte,
  NBLOCKS,                 \* data blocks of the disk
  BSIZE, NDIRECT,
  Writes                   \* what a call may write

NINDIRECT == BSIZE
MAXFILE == NDIRECT + NINDIRECT

Block == 1 .. NBLOCKS
Cell == 0 .. BSIZE - 1
Zeroed == [c \in Cell |-> 0]
Min(a, b) == IF a <= b THEN a ELSE b

VARIABLES
  used,           \* the bitmap
  blocks,         \* contents of the data blocks
  inode, dinode,  \* size and addrs of each file, in memory and on disk
  writing,        \* per file: the call of writei under way
  panic,
  want            \* history: what each file holds when the calls so far have ended

vars == <<used, blocks, inode, dinode, writing, panic, want>>

Idle == [at |-> 0, left |-> <<>>]
Inode == [size : 0 .. MAXFILE * BSIZE, addrs : [0 .. NDIRECT -> Block \cup {0}]]
Empty == [size |-> 0, addrs |-> [i \in 0 .. NDIRECT |-> 0]]

(* The type invariant.                                                     *)
TypeOK ==
  /\ used \subseteq Block
  /\ blocks \in [Block -> [Cell -> Byte \cup Block \cup {0}]]
  /\ inode \in [File -> Inode] /\ dinode \in [File -> Inode]
  /\ \A f \in File : writing[f].at \in 0 .. MAXFILE * BSIZE

Init ==
  /\ used = {} /\ blocks = [b \in Block |-> Zeroed]
  /\ inode = [f \in File |-> Empty] /\ dinode = [f \in File |-> Empty]
  /\ writing = [f \in File |-> Idle] /\ panic = "no"
  /\ want = [f \in File |-> <<>>]

-----------------------------------------------------------------------------
(* bmap works on the bitmap, the blocks and the addresses of one inode.    *)
(* balloc takes the first free block and zeroes it; full is its panic.     *)
FreeBlock(fs) == CHOOSE b \in Block \ fs.used : \A c \in Block \ fs.used : b <= c
ballocDirty(fs) ==
  IF fs.used = Block THEN [fs EXCEPT !.full = TRUE]
  ELSE [fs EXCEPT !.addr = FreeBlock(fs), !.used = @ \cup {FreeBlock(fs)}]
balloc(fs) ==
  IF fs.used = Block THEN [fs EXCEPT !.full = TRUE]
  ELSE [fs EXCEPT !.addr = FreeBlock(fs), !.used = @ \cup {FreeBlock(fs)},
                  !.blocks = [@ EXCEPT ![FreeBlock(fs)] = Zeroed]]
FileSystem(f) ==
  [used |-> used, blocks |-> blocks, addrs |-> inode[f].addrs, addr |-> 0, full |-> FALSE]

(* The block in an entry of addrs, allocated if there is none.             *)
Entry(fs, i) ==
  IF fs.addrs[i] # 0 THEN [fs EXCEPT !.addr = fs.addrs[i]]
  ELSE LET got == balloc(fs) IN
       IF got.full THEN got ELSE [got EXCEPT !.addrs = [@ EXCEPT ![i] = got.addr]]
(* The same for entry j of the indirect block ind.                         *)
IndirectEntry(fs, ind, j) ==
  IF fs.blocks[ind][j] # 0 THEN [fs EXCEPT !.addr = fs.blocks[ind][j]]
  ELSE LET got == balloc(fs) IN
       IF got.full THEN got ELSE [got EXCEPT !.blocks = [@ EXCEPT ![ind][j] = got.addr]]
bmap(fs, bn) ==
  IF bn < NDIRECT THEN Entry(fs, bn)
  ELSE LET ind == Entry(fs, NDIRECT) IN
       IF ind.full THEN ind ELSE IndirectEntry(ind, ind.addr, bn - NDIRECT)

-----------------------------------------------------------------------------
Overwritten(s, off, w) == SubSeq(s, 1, off) \o w \o SubSeq(s, off + Len(w) + 1, Len(s))
(* writei is called with bytes w, and returns -1 for an offset past the    *)
(* end or a file that would be too large.                                  *)
writei(f, off, w) ==
  /\ writing[f] = Idle
  /\ off <= inode[f].size /\ off + Len(w) <= MAXFILE * BSIZE
  /\ writing' = [writing EXCEPT ![f] = [at |-> off, left |-> w]]
  /\ want' = [want EXCEPT ![f] = Overwritten(@, off, w)]
  /\ UNCHANGED <<used, blocks, inode, dinode, panic>>

(* One turn: the part of w that falls into one block.                      *)
Turn(off, w) == Min(Len(w), BSIZE - (off % BSIZE))
Placed(data, first, w, m) ==
  [c \in Cell |-> IF c \in first .. first + m - 1 THEN w[c - first + 1] ELSE data[c]]
WriteBlock(f) ==
  LET off == writing[f].at  w == writing[f].left
      m == Turn(off, w)
      fs == bmap(FileSystem(f), off \div BSIZE)
      off2 == off + m  rest == SubSeq(w, m + 1, Len(w))
      grown == Len(rest) = 0 /\ off2 > inode[f].size
      after == [size |-> IF grown THEN off2 ELSE inode[f].size, addrs |-> fs.addrs]
  IN /\ writing[f] # Idle
     /\ IF fs.full THEN panic' = "balloc: out of blocks" /\ UNCHANGED <<used, blocks, inode, dinode, writing>>
        ELSE /\ used' = fs.used
             /\ blocks' = [fs.blocks EXCEPT ![fs.addr] = Placed(@, off % BSIZE, w, m)]
             /\ inode' = [inode EXCEPT ![f] = after]
             /\ dinode' = IF grown THEN [dinode EXCEPT ![f] = after] ELSE dinode
             /\ writing' = [writing EXCEPT ![f] = IF rest = <<>> THEN Idle ELSE [at |-> off2, left |-> rest]]
             /\ UNCHANGED panic
     /\ UNCHANGED want

(* readi of the whole file; bmap finds every block allocated.              *)
AddrOf(f, bn) ==
  IF bn < NDIRECT THEN inode[f].addrs[bn] ELSE blocks[inode[f].addrs[NDIRECT]][bn - NDIRECT]
readi(f) ==
  [k \in 1 .. inode[f].size |-> blocks[AddrOf(f, (k - 1) \div BSIZE)][(k - 1) % BSIZE]]

(* itrunc frees the blocks of the entries and, through the indirect block, *)
(* the others, and the indirect block itself.                              *)
Listed(f) ==
  LET ind == inode[f].addrs[NDIRECT] IN
  {inode[f].addrs[i] : i \in 0 .. NDIRECT} \cup (IF ind = 0 THEN {} ELSE {blocks[ind][c] : c \in Cell})
ToFree(f) == Listed(f) \ {0}
itrunc(f) ==
  /\ writing[f] = Idle
  /\ IF ToFree(f) \subseteq used
     THEN /\ used' = used \ ToFree(f)
          /\ inode' = [inode EXCEPT ![f] = Empty] /\ dinode' = [dinode EXCEPT ![f] = Empty]
          /\ want' = [want EXCEPT ![f] = <<>>] /\ UNCHANGED panic
     ELSE panic' = "freeing free block" /\ UNCHANGED <<used, inode, dinode, want>>
  /\ UNCHANGED <<blocks, writing>>

(* The cached inode is dropped when nobody uses it, and read again later.  *)
Reload(f) ==
  /\ writing[f] = Idle
  /\ inode' = [inode EXCEPT ![f] = dinode[f]]
  /\ UNCHANGED <<used, blocks, dinode, writing, panic, want>>

Next ==
  /\ panic = "no"
  /\ \E f \in File :
       \/ \E off \in 0 .. MAXFILE * BSIZE, w \in Writes : writei(f, off, w)
       \/ WriteBlock(f) \/ itrunc(f) \/ Reload(f)
Spec == Init /\ [][Next]_vars

-----------------------------------------------------------------------------
(* A block has one use: what the bitmap marks is what the files list, no   *)
(* block is listed twice, and freeing a file frees exactly its blocks.     *)
AllListed(f) ==   \* every place of f that names a block
  LET ind == inode[f].addrs[NDIRECT] IN
  {<<f, "addrs", i, inode[f].addrs[i]>> : i \in 0 .. NDIRECT}
    \cup (IF ind = 0 THEN {} ELSE {<<f, "ind", c, blocks[ind][c]>> : c \in Cell})
Places == {p \in UNION {AllListed(f) : f \in File} : p[4] # 0}
OneUse ==
  /\ {p[4] : p \in Places} = used
  /\ \A p, q \in Places : p[4] = q[4] => p = q

(* Every file reads back what was written to it, whatever is written to    *)
(* other files, freed and allocated again, or read from disk again.        *)
ReadsBack == \A f \in File : writing[f] = Idle => readi(f) = want[f]

(* bfree never meets a block that is free already.                         *)
NeverFreesTwice == panic # "freeing free block"
=============================================================================

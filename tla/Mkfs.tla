-------------------------------- MODULE Mkfs --------------------------------
(***************************************************************************)
(* mkfs.c, which builds the file system the kernel starts from.  A block   *)
(* is an array of BSIZE units; a unit is a byte of a file, a directory     *)
(* entry, the address of a block, or eight bits of the bitmap.  A file is  *)
(* known by its place in the list of arguments.                            *)
(***************************************************************************)
EXTENDS Naturals, Sequences, FiniteSets, SequencesExt

CONSTANTS FSSIZE, LOGSIZE, NINODES, BSIZE, IPB, NDIRECT,
          Args           \* lists of the sizes of the files

VARIABLES phase,         \* "start", "files", "done", or "abort" at an assert
          disk, freeinode, freeblock,
          sizes, i,      \* the arguments, and how many of them are done
          inum, todo     \* the inode of the open file, the units not read yet

vars == <<phase, disk, freeinode, freeblock, sizes, i, inum, todo>>

BPB == BSIZE * 8
MAXFILE == NDIRECT + BSIZE
ROOTINO == 1

nbitmap == FSSIZE \div BPB + 1

ninodeblocks == NINODES \div IPB + 1
nmeta == 2 + LOGSIZE + ninodeblocks + nbitmap
sb == [inodestart |-> 2 + LOGSIZE, bmapstart |-> 2 + LOGSIZE + ninodeblocks]

IBLOCK(n) == n \div IPB + sb.inodestart
BBLOCK(b) == b \div BPB + sb.bmapstart

-----------------------------------------------------------------------------
winode(d, n, din) == [d EXCEPT ![IBLOCK(n)][n % IPB] = din]
rinode(d, n) == d[IBLOCK(n)][n % IPB]
NewInode == [size |-> 0, addrs |-> [k \in 0..NDIRECT |-> 0]]

(***************************************************************************)
(* iappend: s is the image, freeblock and the inode while units are put at *)
(* its end, one by one.                                                    *)
(***************************************************************************)
Direct(s, k) ==
    IF s.din.addrs[k] # 0 THEN s
    ELSE [s EXCEPT !.din.addrs[k] = s.free, !.free = @ + 1]
Indirect(s, k) ==
    LET table == s.din.addrs[NDIRECT]
    IN IF s.disk[table][k] # 0 THEN s
       ELSE [s EXCEPT !.disk[table][k] = s.free, !.free = @ + 1]
Located(s, fbn) ==
    IF fbn < NDIRECT THEN Direct(s, fbn) ELSE Indirect(Direct(s, NDIRECT), fbn - NDIRECT)
Address(d, din, fbn) ==
    IF fbn < NDIRECT THEN din.addrs[fbn]
    ELSE IF din.addrs[NDIRECT] = 0 THEN 0 ELSE d[din.addrs[NDIRECT]][fbn - NDIRECT]
Put(s, unit, fbn) ==
    [s EXCEPT !.disk[Address(s.disk, s.din, fbn)][s.din.size % BSIZE] = unit,
              !.din.size = @ + 1]
PutUnit(s, unit) == LET fbn == s.din.size \div BSIZE IN Put(Located(s, fbn), unit, fbn)

Append1(d, free, n, p) == FoldLeft(PutUnit, [disk |-> d, free |-> free, din |-> rinode(d, n)], p)
TooLong(n, p) == rinode(disk, n).size + Len(p) > MAXFILE * BSIZE

iappend(d, n, p) ==
    LET s == Append1(d, freeblock, n, p)
    IN disk' = winode(s.disk, n, s.din) /\ freeblock' = s.free

-----------------------------------------------------------------------------
(***************************************************************************)
(* main: the empty file system, the files block by block, the bitmap.      *)
(***************************************************************************)
Dirent(n, name) == [inum |-> n, name |-> name]
Zeroes == [b \in 0..(FSSIZE - 1) |-> [k \in 0..(BSIZE - 1) |-> 0]]

Init ==
    /\ phase = "start" /\ sizes \in Args
    /\ disk = Zeroes /\ freeinode = 1 /\ freeblock = nmeta
    /\ i = 0 /\ inum = 0 /\ todo = <<>>

MakeRoot ==
    /\ phase = "start" /\ phase' = "files"
    /\ freeinode' = freeinode + 1
    /\ iappend(winode(disk, freeinode, NewInode), freeinode,
               <<Dirent(freeinode, <<".">>), Dirent(freeinode, <<"..">>)>>)
    /\ UNCHANGED <<sizes, i, inum, todo>>

\* The name and the k-th byte of the f-th file.
FileName(f) == <<"file", f>>
Contents(f) == [k \in 1..sizes[f] |-> <<f, k>>]

MakeFile ==
    /\ phase = "files" /\ todo = <<>> /\ i < Len(sizes)
    /\ inum' = freeinode /\ freeinode' = freeinode + 1
    /\ i' = i + 1 /\ todo' = Contents(i + 1)
    /\ iappend(winode(disk, freeinode, NewInode), ROOTINO, <<Dirent(freeinode, FileName(i + 1))>>)
    /\ UNCHANGED <<phase, sizes>>

CopyBlock ==
    /\ phase = "files" /\ todo # <<>>
    /\ LET n == IF Len(todo) < BSIZE THEN Len(todo) ELSE BSIZE
           buf == SubSeq(todo, 1, n)
       IN IF TooLong(inum, buf)
          THEN phase' = "abort" /\ UNCHANGED <<disk, freeblock, todo>>
          ELSE /\ iappend(disk, inum, buf)
               /\ todo' = SubSeq(todo, n + 1, Len(todo))
               /\ UNCHANGED phase
    /\ UNCHANGED <<freeinode, sizes, i, inum>>

\* The size of the root is rounded up to blocks, and the bitmap written.
balloc(d, used) ==
    [d EXCEPT ![sb.bmapstart] =
        [k \in 0..(BSIZE - 1) |-> { bit \in 0..7 : 8 * k + bit < used }]]

Finish ==
    /\ phase = "files" /\ todo = <<>> /\ i = Len(sizes)
    /\ LET din == rinode(disk, ROOTINO)
           fixed == [din EXCEPT !.size = (@ \div BSIZE + 1) * BSIZE]
       IN IF freeblock >= BSIZE * 8
          THEN phase' = "abort" /\ UNCHANGED disk
          ELSE /\ disk' = balloc(winode(disk, ROOTINO, fixed), freeblock)
               /\ phase' = "done"
    /\ UNCHANGED <<freeinode, freeblock, sizes, i, inum, todo>>

Next == MakeRoot \/ MakeFile \/ CopyBlock \/ Finish

Spec == Init /\ [][Next]_vars

-----------------------------------------------------------------------------
(***************************************************************************)
(* The image as the kernel reads it: a block without an address is one     *)
(* that bmap allocates when it is first read, and holds zeroes.            *)
(***************************************************************************)
Inode(n) == rinode(disk, n)
Blocks(n) == (Inode(n).size + BSIZE - 1) \div BSIZE
Read(n) ==
    [k \in 1..Inode(n).size |->
        LET addr == Address(disk, Inode(n), (k - 1) \div BSIZE)
        IN IF addr = 0 THEN 0 ELSE disk[addr][(k - 1) % BSIZE]]
\* Every use of a data block: a block of a file, or its indirect block.
Uses ==
    UNION { {<<n, "block", k>> : k \in 0..(Blocks(n) - 1)} : n \in 1..(freeinode - 1) }
    \cup { <<n, "indirect", 0>> : n \in { n \in 1..(freeinode - 1) : Blocks(n) > NDIRECT } }
BlockOf(use) ==
    IF use[2] = "indirect" THEN Inode(use[1]).addrs[NDIRECT]
    ELSE Address(disk, Inode(use[1]), use[3])
Marked(b) == b % 8 \in disk[BBLOCK(b)][(b % BPB) \div 8]

\* The entries of the root, and whether the use is a block past all of them:
\* a root whose entries fill their blocks is given the size of one block more.
Entries == Len(sizes) + 2
PastTheEntries(u) ==
    u[1] = ROOTINO /\ Entries <= BSIZE * (IF u[2] = "block" THEN u[3] ELSE NDIRECT)

\* The image mkfs leaves is a file system: the bitmap marks the meta blocks and
\* the blocks that inodes list, no block is listed twice, none is missing but
\* past the entries of the root, every file reads back as it was given, and the
\* root has an entry for it.
ImageExact ==
    phase = "done" =>
      LET listed == { u \in Uses : BlockOf(u) # 0 } IN
      /\ \A b \in 0..(FSSIZE - 1) :
            Marked(b) <=> b < nmeta \/ b \in { BlockOf(u) : u \in listed }
      /\ \A u, v \in listed : u # v => BlockOf(u) # BlockOf(v)
      /\ \A u \in listed : BlockOf(u) \in nmeta..(FSSIZE - 1)
      /\ \A u \in Uses \ listed : PastTheEntries(u)
      /\ \A f \in DOMAIN sizes :
            \E k \in 1..Entries :
               LET de == Read(ROOTINO)[k] IN de.name = FileName(f) /\ Read(de.inum) = Contents(f)
=============================================================================

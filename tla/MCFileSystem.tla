---------------------------- MODULE MCFileSystem ----------------------------
(***************************************************************************)
(* Four instances in one state graph: inodes and directories (Inodes),     *)
(* open files and descriptors (FileTable), the blocks of files (FileData), *)
(* and the image mkfs builds (Mkfs).  part tells which of them a behaviour *)
(* is about; the others do not move, so that the numbers of states add up. *)
(***************************************************************************)
EXTENDS Inodes, TLC

CONSTANTS a, b, t1, t2, u1, u2, parent, child, f1, f2

(* Two threads create, remove, link and open a file b, in the root and in  *)
(* a directory a that comes and goes.                                      *)
CallsOfTwo ==
  { <<"create", <<b>> >>, <<"unlink", <<b>> >>, <<"mkdir", <<a>> >>, <<"unlink", <<a>> >>,
    <<"link", <<b>>, <<a>> >>, <<"open", <<a, b>> >> }

VARIABLES
  part,
  fref, ftype, ofile, alive, ftodo, fpanic,                  \* of FileTable
  used, blocks, dataInode, dataDinode, writing, dpanic, want, \* of FileData
  phase, image, freeinode, freeblock, sizes, i, newInum, rest \* of Mkfs
tableVars == <<fref, ftype, ofile, alive, ftodo, fpanic>>
dataVars == <<used, blocks, dataInode, dataDinode, writing, dpanic, want>>
imageVars == <<phase, image, freeinode, freeblock, sizes, i, newInum, rest>>

(* A process and its child, three open files, two descriptors each.        *)
Table == INSTANCE FileTable WITH
  Thread <- {u1, u2}, Proc <- {parent, child}, ProcOf <- u1 :> parent @@ u2 :> child,
  initproc <- parent, NFILE <- 3, NOFILE <- 2, OutOfMemory <- TRUE,
  ref <- fref, type <- ftype, todo <- ftodo, panic <- fpanic
(* Two files on four data blocks of two bytes, with one direct and two     *)
(* indirect blocks each.                                                   *)
Data == INSTANCE FileData WITH
  File <- {f1, f2}, Byte <- {7, 8}, NBLOCKS <- 4, BSIZE <- 2, NDIRECT <- 1,
  Writes <- {<<7>>, <<8, 7, 8>>},
  inode <- dataInode, dinode <- dataDinode, panic <- dpanic
(* An image of 28 blocks of four units, with a direct and four indirect    *)
(* blocks to a file, for up to four files: empty, less than a block, whole *)
(* blocks, as long as a file can be (20), and too long (21).  The root of  *)
(* an image with two files has its entries in one full block.              *)
Image == INSTANCE Mkfs WITH
  FSSIZE <- 28, LOGSIZE <- 2, NINODES <- 5, BSIZE <- 4, IPB <- 2, NDIRECT <- 1,
  Args <- {<<>>, <<20>>, <<21>>} \cup [1..2 -> {0, 3, 4, 9, 20}]
            \cup [1..3 -> {0, 3, 4, 9}] \cup [1..4 -> {0, 5, 9}],
  disk <- image, inum <- newInum, todo <- rest

FsInit ==
  /\ Init /\ Table!Init /\ Data!Init /\ Image!Init
  /\ part \in {"inodes", "table", "data", "image"}
  /\ part # "image" => sizes = <<>>
FsNext ==
  \/ part = "inodes" /\ Next /\ UNCHANGED <<part, tableVars, dataVars, imageVars>>
  \/ part = "table" /\ Table!Next /\ UNCHANGED <<part, vars, dataVars, imageVars>>
  \/ part = "data" /\ Data!Next /\ UNCHANGED <<part, vars, tableVars, imageVars>>
  \/ part = "image" /\ Image!Next /\ UNCHANGED <<part, vars, tableVars, dataVars>>
  \/ /\ dpanic # "no" \/ phase \in {"done", "abort"}
     /\ UNCHANGED <<part, vars, tableVars, dataVars, imageVars>>
FsSpec == FsInit /\ [][FsNext]_<<part, vars, tableVars, dataVars, imageVars>>

(* What unused slots of the inode cache and free blocks still hold is      *)
(* never looked at; the image is not either, by the other parts.           *)
InUse ==
  <<part, disk, [s \in Slot |-> IF ref[s] = 0 THEN <<>> ELSE <<inum[s], ref[s], busy[s], valid[s], node[s]>>],
    todo, file, panic, tableVars,
    used, [k \in Data!Block |-> IF k \in used THEN blocks[k] ELSE <<>>],
    dataInode, dataDinode, writing, dpanic, want,
    IF part = "image" THEN imageVars ELSE <<>> >>
Symmetry == Permutations(Thread) \cup Permutations({f1, f2})

-----------------------------------------------------------------------------
(* An inode on disk has one slot in the cache, and no panic of fs.c and    *)
(* sysfile.c is reached, whichever way two calls interleave, but the two   *)
(* for want of room: no free inode on disk, no free slot in the cache.     *)
SlotsExact == OneSlot /\ NeverPanics

(* When no call is under way the count of an open file is the number of    *)
(* descriptors that refer to it, whichever way open, dup, pipe, fork and   *)
(* exit went, and filedup and fileclose have met no file that is not open. *)
CountsExact == Table!CountsExact /\ Table!NeverPanics

(* A data block has one use: what the bitmap marks is what the files list, *)
(* no block is listed twice, and itrunc frees no block that is free.       *)
(* Every file reads back what writei put there, whatever is written to     *)
(* other files, freed and allocated again, or read from disk again.  In    *)
(* the image mkfs leaves every file is in the root, reads back as it was   *)
(* given, and has its blocks marked and to itself; only a block past the   *)
(* entries of the root may be missing.                                     *)
FilesExact == Data!OneUse /\ Data!NeverFreesTwice /\ Data!ReadsBack /\ Image!ImageExact
=============================================================================

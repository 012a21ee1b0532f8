------------------------------- MODULE Inodes -------------------------------
(***************************************************************************)
(* Inodes, the inode cache, directories and the system calls that name     *)
(* files (fs.c from ialloc to namex; open, mkdir, link, unlink and close   *)
(* of sysfile.c and file.c).                                               *)
(*                                                                         *)
(* todo[t] is what thread t has still to do, a sequence of operations with *)
(* their arguments; an action does the first one.  A step is a critical    *)
(* section of icache.lock, or what is done to inodes that are locked.  The *)
(* contents of files, devices, "." and ".." in paths, and the log around   *)
(* every call are left out (Log, BufCache).                                *)
(***************************************************************************)
EXTENDS Integers, Sequences, FiniteSets

CONSTANTS
  Thread, Name,
  NINUM,       \* inodes on the disk (sb.ninodes)
  NINODE,      \* slots of the inode cache
  Calls,       \* the calls that are made: <<"open", path>>, <<"link", old, new>>...
  FullTable    \* can filealloc or fdalloc fail?

ASSUME InodesAssumption ==
  NINUM \in Nat \ {0} /\ NINODE \in Nat \ {0} /\ FullTable \in BOOLEAN

Inum == 1 .. NINUM
ROOTINO == 1
Slot == 1 .. NINODE
None == 0

VARIABLES
  dinode,                        \* on disk: type and nlink of each inode
  entries,                       \* contents of the directories
  inum, ref, busy, valid, node,  \* struct inode; node is its copy of the dinode
  todo, file,                    \* per thread: rest of the call, open file
  panic

disk == <<dinode, entries>>
icache == <<inum, ref, busy, valid, node>>
vars == <<disk, icache, todo, file, panic>>

NoEntries == [n \in Name |-> None]
Free == [type |-> "free", nlink |-> 0]

(* The type invariant.                                                     *)
Dinode == [type : {"free", "dir", "file"}, nlink : 0 .. NINUM + Cardinality(Thread)]
TypeOK ==
  /\ dinode \in [Inum -> Dinode] /\ entries \in [Inum -> [Name -> Inum \cup {None}]]
  /\ inum \in [Slot -> Inum \cup {None}] /\ node \in [Slot -> Dinode]
  /\ ref \in [Slot -> 0 .. 4 * Cardinality(Thread)]
  /\ busy \in [Slot -> BOOLEAN] /\ valid \in [Slot -> BOOLEAN]
  /\ file \in [Thread -> Slot \cup {None}]

(* After mkfs: an empty root directory.                                    *)
Init ==
  /\ dinode = [i \in Inum |-> IF i = ROOTINO THEN [type |-> "dir", nlink |-> 1] ELSE Free]
  /\ entries = [i \in Inum |-> NoEntries]
  /\ inum = [s \in Slot |-> None] /\ ref = [s \in Slot |-> 0]
  /\ busy = [s \in Slot |-> FALSE] /\ valid = [s \in Slot |-> FALSE]
  /\ node = [s \in Slot |-> Free]
  /\ todo = [t \in Thread |-> <<>>] /\ file = [t \in Thread |-> None]
  /\ panic = "no"

-----------------------------------------------------------------------------
(* The operation thread t is at, its arguments, and what to do instead.    *)
Op(t, o) == todo[t] # <<>> /\ Head(todo[t])[1] = o
Arg(t, i) == Head(todo[t])[i + 1]
Then(t, ops) == todo' = [todo EXCEPT ![t] = ops \o Tail(todo[t])]
Panic(what) == panic' = what /\ UNCHANGED <<disk, icache, todo, file>>

unlockput(s) == << <<"iunlock", s>>, <<"iput", s>> >>

(* iget: the slot of an inode that is cached, or the first unused one.     *)
SlotsOf(i) == {s \in Slot : ref[s] > 0 /\ inum[s] = i}
Unused == {s \in Slot : ref[s] = 0}
FirstOf(S) == CHOOSE s \in S : \A r \in S : s <= r
SlotFor(i) == FirstOf(IF SlotsOf(i) # {} THEN SlotsOf(i) ELSE Unused)
CanGet(i) == SlotsOf(i) # {} \/ Unused # {}
iget(i) ==
  LET s == SlotFor(i) IN
  IF ref[s] > 0 THEN ref' = [ref EXCEPT ![s] = @ + 1] /\ UNCHANGED <<inum, busy, valid, node>>
  ELSE /\ inum' = [inum EXCEPT ![s] = i] /\ ref' = [ref EXCEPT ![s] = 1]
       /\ busy' = [busy EXCEPT ![s] = FALSE] /\ valid' = [valid EXCEPT ![s] = FALSE]
       /\ UNCHANGED node

(* ilock: whoever has the inode locked keeps the disk copy to itself, so   *)
(* reading it is part of the step.                                         *)
ilock(t) ==
  LET s == Arg(t, 1)
      loaded == IF valid[s] THEN node[s] ELSE dinode[inum[s]]
  IN /\ Op(t, "ilock") /\ ~busy[s]
     /\ IF ~valid[s] /\ loaded.type = "free" THEN Panic("ilock: no type")
        ELSE /\ busy' = [busy EXCEPT ![s] = TRUE] /\ valid' = [valid EXCEPT ![s] = TRUE]
             /\ node' = [node EXCEPT ![s] = loaded]
             /\ Then(t, <<>>)
             /\ UNCHANGED <<disk, inum, ref, file, panic>>

iunlock(t) ==
  /\ Op(t, "iunlock")
  /\ busy' = [busy EXCEPT ![Arg(t, 1)] = FALSE]
  /\ Then(t, <<>>)
  /\ UNCHANGED <<disk, inum, ref, valid, node, file, panic>>

LastRefAny(s) == ref[s] >= 1 /\ valid[s] /\ node[s].nlink = 0
(* iput: the last reference to an inode without links frees it, with the   *)
(* inode locked and icache.lock released meanwhile.                        *)
LastRef(s) == ref[s] = 1 /\ valid[s] /\ node[s].nlink = 0
iput(t) ==
  LET s == Arg(t, 1) IN
  /\ Op(t, "iput") /\ ~LastRef(s)
  /\ ref' = [ref EXCEPT ![s] = @ - 1]
  /\ Then(t, <<>>)
  /\ UNCHANGED <<disk, inum, busy, valid, node, file, panic>>
iputLast(t) ==
  LET s == Arg(t, 1) IN
  /\ Op(t, "iput") /\ LastRef(s)
  /\ IF busy[s] THEN Panic("iput busy")
     ELSE /\ busy' = [busy EXCEPT ![s] = TRUE]
          /\ Then(t, << <<"free", s>>, <<"freed", s>> >>)
          /\ UNCHANGED <<disk, inum, ref, valid, node, file, panic>>
(* itrunc and iupdate with type 0,                                         *)
iputFree(t) ==
  LET s == Arg(t, 1) IN
  /\ Op(t, "free")
  /\ node' = [node EXCEPT ![s].type = "free"]
  /\ dinode' = [dinode EXCEPT ![inum[s]] = Free]
  /\ entries' = [entries EXCEPT ![inum[s]] = NoEntries]
  /\ Then(t, <<>>)
  /\ UNCHANGED <<inum, ref, busy, valid, file, panic>>
(* then back under icache.lock.                                            *)
iputFreed(t) ==
  LET s == Arg(t, 1) IN
  /\ Op(t, "freed")
  /\ busy' = [busy EXCEPT ![s] = FALSE] /\ valid' = [valid EXCEPT ![s] = FALSE]
  /\ ref' = [ref EXCEPT ![s] = @ - 1]
  /\ Then(t, <<>>)
  /\ UNCHANGED <<disk, inum, node, file, panic>>

(* Change the locked inode of slot s, and iupdate.                         *)
AddLinks(s, d) ==
  /\ node' = [node EXCEPT ![s].nlink = @ + d]
  /\ dinode' = [dinode EXCEPT ![inum[s]] = [type |-> node[s].type, nlink |-> node[s].nlink + d]]

-----------------------------------------------------------------------------
(* namex: <<"root", path, goal>> starts a walk, <<"walk", slot, path,      *)
(* goal>> looks at one element of the path with the directory locked; goal *)
(* is what to do with the inode found, or with its parent.                 *)
NeedsParent(goal) == goal[1] \in {"create", "unlink", "link_new"}
FailedNoUndo(goal) == <<>>
(* What is done when the walk fails: nothing, but link() takes back the    *)
(* count it has already raised.                                            *)
Failed(goal) ==
  IF goal[1] = "link_new" THEN << <<"ilock", goal[2]>>, <<"link_undo", goal[2]>> >> ELSE <<>>

Onward(s, path, goal) ==
  << <<"ilock", s>>, IF path = <<>> THEN <<goal[1], s>> \o Tail(goal) ELSE <<"walk", s, path, goal>> >>

NamexRoot(t) ==
  /\ Op(t, "root") /\ CanGet(ROOTINO)
  /\ iget(ROOTINO)
  /\ Then(t, Onward(SlotFor(ROOTINO), Arg(t, 1), Arg(t, 2)))
  /\ UNCHANGED <<disk, file, panic>>
(* One path element, the directory s locked: the wrong type, the parent    *)
(* reached, the name missing, or one level down.                           *)
WalkUp(t) ==
  LET s == Arg(t, 1)  path == Arg(t, 2)  goal == Arg(t, 3) IN
  /\ Op(t, "walk")
  /\ \/ node[s].type # "dir"
     \/ ~(NeedsParent(goal) /\ Len(path) = 1) /\ entries[inum[s]][Head(path)] = None
  /\ Then(t, unlockput(s) \o Failed(goal))
  /\ UNCHANGED <<disk, icache, file, panic>>
WalkParent(t) ==
  LET s == Arg(t, 1)  path == Arg(t, 2)  goal == Arg(t, 3) IN
  /\ Op(t, "walk") /\ node[s].type = "dir" /\ NeedsParent(goal) /\ Len(path) = 1
  /\ Then(t, << <<"iunlock", s>>, <<"ilock", s>>, <<goal[1], s, Head(path)>> \o Tail(goal) >>)
  /\ UNCHANGED <<disk, icache, file, panic>>
WalkDown(t) ==
  LET s == Arg(t, 1)  path == Arg(t, 2)  goal == Arg(t, 3)  i == entries[inum[s]][Head(path)] IN
  /\ Op(t, "walk") /\ node[s].type = "dir" /\ ~(NeedsParent(goal) /\ Len(path) = 1)
  /\ i # None /\ CanGet(i)
  /\ iget(i)
  /\ Then(t, unlockput(s) \o Onward(SlotFor(i), Tail(path), goal))
  /\ UNCHANGED <<disk, file, panic>>

-----------------------------------------------------------------------------
(* open() of a name that exists, and the end of open(O_CREATE): the file   *)
(* keeps the reference, unless there is no descriptor left for it or it is *)
(* a directory opened for writing.                                         *)
Opened(t) ==
  LET s == Arg(t, 1) IN
  /\ Op(t, "open")
  /\ \/ file' = [file EXCEPT ![t] = s] /\ Then(t, << <<"iunlock", s>> >>)
     \/ (FullTable \/ node[s].type = "dir") /\ Then(t, unlockput(s)) /\ UNCHANGED file
  /\ UNCHANGED <<disk, icache, panic>>

(* create(), dp locked: the name exists,                                   *)
CreateFound(t) ==
  LET dp == Arg(t, 1)  i == entries[inum[dp]][Arg(t, 2)] IN
  /\ Op(t, "create") /\ i # None /\ CanGet(i)
  /\ iget(i)
  /\ Then(t, unlockput(dp) \o << <<"ilock", SlotFor(i)>>, <<"exists", SlotFor(i), Arg(t, 3)>> >>)
  /\ UNCHANGED <<disk, file, panic>>
CreateExists(t) ==
  LET s == Arg(t, 1) IN
  /\ Op(t, "exists")
  /\ Then(t, IF Arg(t, 2) = "file" /\ node[s].type = "file" THEN << <<"open", s>> >> ELSE unlockput(s))
  /\ UNCHANGED <<disk, icache, file, panic>>
(* or ialloc takes the first free inode,                                   *)
FreeInodes == {i \in Inum : dinode[i].type = "free"}
CreateAlloc(t) ==
  LET dp == Arg(t, 1)  i == FirstOf(FreeInodes) IN
  /\ Op(t, "create") /\ entries[inum[dp]][Arg(t, 2)] = None
  /\ FreeInodes # {} /\ CanGet(i)
  /\ dinode' = [dinode EXCEPT ![i] = [type |-> Arg(t, 3), nlink |-> 0]]
  /\ iget(i)
  /\ Then(t, << <<"ilock", SlotFor(i)>>, <<"enter", SlotFor(i), dp, Arg(t, 2), Arg(t, 3)>> >>)
  /\ UNCHANGED <<entries, file, panic>>
CreatePanic(t) ==
  /\ Op(t, "create") /\ entries[inum[Arg(t, 1)]][Arg(t, 2)] = None /\ FreeInodes = {}
  /\ Panic("ialloc: no inodes")
(* which is linked and entered while both are locked.                      *)
CreateEnter(t) ==
  LET s == Arg(t, 1)  dp == Arg(t, 2)  isDir == Arg(t, 4) = "dir"
      up == node[dp].nlink + (IF isDir THEN 1 ELSE 0)
  IN /\ Op(t, "enter")
     /\ node' = [node EXCEPT ![s].nlink = 1, ![dp].nlink = up]
     /\ dinode' = [dinode EXCEPT ![inum[s]].nlink = 1, ![inum[dp]].nlink = up]
     /\ entries' = [entries EXCEPT ![inum[dp]][Arg(t, 3)] = inum[s]]
     /\ Then(t, unlockput(dp) \o (IF isDir THEN unlockput(s) ELSE << <<"open", s>> >>))
     /\ UNCHANGED <<inum, ref, busy, valid, file, panic>>

(* unlink(), dp locked: look the name up, lock its inode,                  *)
UnlinkMissing(t) ==
  /\ Op(t, "unlink") /\ entries[inum[Arg(t, 1)]][Arg(t, 2)] = None
  /\ Then(t, unlockput(Arg(t, 1)))
  /\ UNCHANGED <<disk, icache, file, panic>>
UnlinkFound(t) ==
  LET dp == Arg(t, 1)  i == entries[inum[dp]][Arg(t, 2)] IN
  /\ Op(t, "unlink") /\ i # None /\ CanGet(i)
  /\ iget(i)
  /\ Then(t, << <<"ilock", SlotFor(i)>>, <<"remove", SlotFor(i), dp, Arg(t, 2)>> >>)
  /\ UNCHANGED <<disk, file, panic>>
(* refuse a directory with entries, or remove the entry,                   *)
CanRemove(s) == node[s].type = "dir" => entries[inum[s]] = NoEntries
UnlinkRemove(t) ==
  LET s == Arg(t, 1)  dp == Arg(t, 2) IN
  /\ Op(t, "remove")
  /\ IF node[s].nlink < 1 THEN Panic("unlink: nlink < 1")
     ELSE /\ IF CanRemove(s)
             THEN /\ entries' = [entries EXCEPT ![inum[dp]][Arg(t, 3)] = None]
                  /\ IF node[s].type = "dir" THEN AddLinks(dp, -1) ELSE UNCHANGED <<node, dinode>>
                  /\ Then(t, unlockput(dp) \o << <<"drop", s>> >>)
             ELSE Then(t, unlockput(s) \o unlockput(dp)) /\ UNCHANGED <<disk, node>>
          /\ UNCHANGED <<inum, ref, busy, valid, file, panic>>
(* and drop the link once the directory is unlocked.                       *)
UnlinkDrop(t) ==
  /\ Op(t, "drop")
  /\ AddLinks(Arg(t, 1), -1)
  /\ Then(t, unlockput(Arg(t, 1)))
  /\ UNCHANGED <<entries, inum, ref, busy, valid, file, panic>>

(* link(): count first, then enter the new name; undo when that fails.     *)
LinkOld(t) ==
  LET s == Arg(t, 1) IN
  /\ Op(t, "link")
  /\ IF node[s].type = "dir" THEN Then(t, unlockput(s)) /\ UNCHANGED <<node, dinode>>
     ELSE /\ AddLinks(s, 1)
          /\ Then(t, << <<"iunlock", s>>, <<"root", Arg(t, 2), <<"link_new", s>> >> >>)
  /\ UNCHANGED <<entries, inum, ref, busy, valid, file, panic>>
LinkNew(t) ==
  LET dp == Arg(t, 1)  s == Arg(t, 3) IN
  /\ Op(t, "link_new") /\ entries[inum[dp]][Arg(t, 2)] = None
  /\ entries' = [entries EXCEPT ![inum[dp]][Arg(t, 2)] = inum[s]]
  /\ Then(t, unlockput(dp) \o << <<"iput", s>> >>)
  /\ UNCHANGED <<dinode, icache, file, panic>>
(* dirlink finds the name taken, and puts back what it looked up.          *)
LinkTaken(t) ==
  LET dp == Arg(t, 1)  s == Arg(t, 3)  i == entries[inum[dp]][Arg(t, 2)] IN
  /\ Op(t, "link_new") /\ i # None /\ CanGet(i)
  /\ iget(i)
  /\ Then(t, << <<"iput", SlotFor(i)>> >> \o unlockput(dp) \o Failed(<<"link_new", s>>))
  /\ UNCHANGED <<disk, file, panic>>
LinkUndo(t) ==
  /\ Op(t, "link_undo")
  /\ AddLinks(Arg(t, 1), -1)
  /\ Then(t, unlockput(Arg(t, 1)))
  /\ UNCHANGED <<entries, inum, ref, busy, valid, file, panic>>

-----------------------------------------------------------------------------
(* A system call is made.  close() puts the inode of the open file back.   *)
SysCall(t, c) ==
  /\ todo[t] = <<>>
  /\ c[1] \in {"open", "create"} => file[t] = None
  /\ todo' = [todo EXCEPT ![t] =
       << <<"root", c[2], CASE c[1] = "open" -> <<"open">>
                            [] c[1] = "create" -> <<"create", "file">>
                            [] c[1] = "mkdir" -> <<"create", "dir">>
                            [] c[1] = "unlink" -> <<"unlink">>
                            [] c[1] = "link" -> <<"link", c[3]>> >> >>]
  /\ UNCHANGED <<disk, icache, file, panic>>
Close(t) ==
  /\ todo[t] = <<>> /\ file[t] # None
  /\ todo' = [todo EXCEPT ![t] = << <<"iput", file[t]>> >>]
  /\ file' = [file EXCEPT ![t] = None]
  /\ UNCHANGED <<disk, icache, panic>>
(* An iget that finds no slot, in whichever call.                          *)
NoSlot(t) ==
  /\ Unused = {}
  /\ \E i \in Inum :
       /\ SlotsOf(i) = {}
       /\ \/ Op(t, "root") /\ i = ROOTINO
          \/ Op(t, "walk") /\ node[Arg(t, 1)].type = "dir"
             /\ ~(NeedsParent(Arg(t, 3)) /\ Len(Arg(t, 2)) = 1) /\ i = entries[inum[Arg(t, 1)]][Head(Arg(t, 2))]
          \/ (Op(t, "create") \/ Op(t, "unlink") \/ Op(t, "link_new")) /\ i = entries[inum[Arg(t, 1)]][Arg(t, 2)]
          \/ Op(t, "create") /\ entries[inum[Arg(t, 1)]][Arg(t, 2)] = None /\ FreeInodes # {}
             /\ i = FirstOf(FreeInodes)
  /\ Panic("iget: no inodes")

Cache(t) == \/ ilock(t) \/ iunlock(t) \/ iput(t) \/ iputLast(t)
            \/ iputFree(t) \/ iputFreed(t) \/ NoSlot(t)
Namex(t) == NamexRoot(t) \/ WalkUp(t) \/ WalkParent(t) \/ WalkDown(t)
CreateOps(t) == CreateFound(t) \/ CreateExists(t) \/ CreateAlloc(t) \/ CreatePanic(t) \/ CreateEnter(t)
UnlinkOps(t) == UnlinkMissing(t) \/ UnlinkFound(t) \/ UnlinkRemove(t) \/ UnlinkDrop(t)
LinkOps(t) == LinkOld(t) \/ LinkNew(t) \/ LinkTaken(t) \/ LinkUndo(t)
Kernel(t) == Cache(t) \/ Namex(t) \/ Opened(t) \/ CreateOps(t) \/ UnlinkOps(t) \/ LinkOps(t)
Halted == panic # "no" /\ UNCHANGED vars
Next == \/ panic = "no" /\ \E t \in Thread : Kernel(t) \/ Close(t) \/ \E c \in Calls : SysCall(t, c)
        \/ Halted
Spec == Init /\ [][Next]_vars

-----------------------------------------------------------------------------
(* No assertion of the inode layer fails: running out of inodes on the     *)
(* disk or of slots in memory is the only reason to panic.                 *)
NeverPanics == panic \in {"no", "ialloc: no inodes", "iget: no inodes"}

(* An inode has one place in the cache, where it can be locked: two        *)
(* threads that look it up at once do not get a copy each.                 *)
OneSlot == \A i \in Inum : Cardinality(SlotsOf(i)) <= 1

(* When no call is under way, nlink is "the number of links referring to"  *)
(* an inode (fs.c), and what has no name and is not open has been freed.   *)
Links(i) ==
  Cardinality({<<d, n>> \in Inum \X Name : entries[d][n] = i})
  + Cardinality({n \in Name : entries[i][n] # None /\ dinode[entries[i][n]].type = "dir"})
  + (IF i = ROOTINO THEN 1 ELSE 0)
LinksExact ==
  (\A t \in Thread : todo[t] = <<>>) =>
    \A i \in Inum : dinode[i].type # "free" =>
      /\ dinode[i].nlink = Links(i)
      /\ Links(i) = 0 => \E t \in Thread : file[t] # None /\ inum[file[t]] = i
=============================================================================

------------------------------ MODULE FileTable ------------------------------
(***************************************************************************)
(* Open files: the table of struct file (file.c), the descriptor tables of *)
(* the processes, and the calls that share and drop files (open, dup,      *)
(* close and pipe of sysfile.c, pipealloc of pipe.c, the descriptor loops  *)
(* of fork() and exit() in proc.c).                                        *)
(*                                                                         *)
(* ftable.lock protects the reference counts; nothing protects proc->ofile,*)
(* which the threads of a process share.  todo[t] is what thread t has     *)
(* still to do in its call, as in module Inodes; a step is a critical      *)
(* section of ftable.lock or one access to the descriptor table.           *)
(***************************************************************************)
EXTENDS Integers, Sequences, FiniteSets

CONSTANTS
  Thread, Proc,
  ProcOf,          \* the process of each thread
  initproc,        \* the only process at first
  NFILE, NOFILE,
  OutOfMemory      \* can kalloc fail in pipealloc?

File == 1 .. NFILE
Fd == 0 .. NOFILE - 1
None == 0

VARIABLES
  ref, type,            \* struct file
  ofile, alive,         \* descriptors of a process, and whether it exists
  todo, panic

ftable == <<ref, type>>
vars == <<ftable, ofile, alive, todo, panic>>

(* The type invariant.                                                     *)
TypeOK ==
  /\ ref \in [File -> 0 .. Cardinality(Proc) * NOFILE + Cardinality(Thread)]
  /\ type \in [File -> {"FD_NONE", "FD_PIPE", "FD_INODE"}]
  /\ ofile \in [Proc -> [Fd -> File \cup {None}]] /\ alive \in [Proc -> BOOLEAN]

Init ==
  /\ ref = [f \in File |-> 0] /\ type = [f \in File |-> "FD_NONE"]
  /\ ofile = [p \in Proc |-> [fd \in Fd |-> None]]
  /\ alive = [p \in Proc |-> p = initproc]
  /\ todo = [t \in Thread |-> <<>>]
  /\ panic = "no"

-----------------------------------------------------------------------------
Op(t, o) == todo[t] # <<>> /\ Head(todo[t])[1] = o
Arg(t, i) == Head(todo[t])[i + 1]
Then(t, ops) == todo' = [todo EXCEPT ![t] = ops \o Tail(todo[t])]
Panic(what) == panic' = what /\ UNCHANGED <<ftable, ofile, alive, todo>>
First(S) == CHOOSE i \in S : \A j \in S : i <= j

(* filealloc, for <<"alloc", use>>; the use of the file follows, or what   *)
(* is done without one.                                                    *)
NoRef == {f \in File : ref[f] = 0}
AfterAlloc(use, f) ==
  CASE use[1] = "open" -> << <<"fdalloc", f, use>> >>
    [] use[1] = "rf" -> << <<"alloc", <<"wf", f>> >> >>
    [] use[1] = "wf" -> << <<"pipe", use[2], f>> >>
NoFileLeak(use) == <<>>

NoFile(use) == IF use[1] = "wf" THEN << <<"fileclose", use[2]>> >> ELSE <<>>
filealloc(t) ==
  /\ Op(t, "alloc")
  /\ IF NoRef = {} THEN Then(t, NoFile(Arg(t, 1))) /\ UNCHANGED ref
     ELSE /\ ref' = [ref EXCEPT ![First(NoRef)] = 1]
          /\ Then(t, AfterAlloc(Arg(t, 1), First(NoRef)))
  /\ UNCHANGED <<type, ofile, alive, panic>>

filedup(t) ==
  /\ Op(t, "filedup")
  /\ IF ref[Arg(t, 1)] < 1 THEN Panic("filedup")
     ELSE /\ ref' = [ref EXCEPT ![Arg(t, 1)] = @ + 1] /\ Then(t, <<>>)
          /\ UNCHANGED <<type, ofile, alive, panic>>

(* The last reference: the file is free.                                   *)
TypeAfterClose(f) == IF ref[f] = 1 THEN "FD_NONE" ELSE type[f]
fileclose(t) ==
  LET f == Arg(t, 1) IN
  /\ Op(t, "fileclose")
  /\ IF ref[f] < 1 THEN Panic("fileclose")
     ELSE /\ ref' = [ref EXCEPT ![f] = @ - 1]
          /\ type' = [type EXCEPT ![f] = TypeAfterClose(f)]
          /\ Then(t, <<>>)
          /\ UNCHANGED <<ofile, alive, panic>>

(* fdalloc: find a free descriptor, then store the file there.             *)
Descriptors(t) == ofile[ProcOf[t]]
FreeFds(t) == {fd \in Fd : Descriptors(t)[fd] = None}
AfterStore(use, f, fd) ==
  CASE use[1] = "open" -> << <<"set", f>> >>
    [] use[1] = "dup" -> << <<"filedup", f>> >>
    [] use[1] = "pipe0" -> << <<"fdalloc", use[2], <<"pipe1", f, fd>> >> >>
    [] use[1] = "pipe1" -> <<>>
NoFd(use, f) ==
  CASE use[1] = "open" -> << <<"fileclose", f>> >>
    [] use[1] = "dup" -> <<>>
    [] use[1] = "pipe0" -> << <<"fileclose", f>>, <<"fileclose", use[2]>> >>
    [] use[1] = "pipe1" -> << <<"clear", use[3]>>, <<"fileclose", use[2]>>, <<"fileclose", f>> >>
fdalloc(t) ==
  /\ Op(t, "fdalloc")
  /\ Then(t, IF FreeFds(t) = {} THEN NoFd(Arg(t, 2), Arg(t, 1))
             ELSE << <<"store", Arg(t, 1), First(FreeFds(t)), Arg(t, 2)>> >>)
  /\ UNCHANGED <<ftable, ofile, alive, panic>>
Store(t) ==
  /\ Op(t, "store")
  /\ ofile' = [ofile EXCEPT ![ProcOf[t]][Arg(t, 2)] = Arg(t, 1)]
  /\ Then(t, AfterStore(Arg(t, 3), Arg(t, 1), Arg(t, 2)))
  /\ UNCHANGED <<ftable, alive, panic>>
Clear(t) ==
  /\ Op(t, "clear")
  /\ ofile' = [ofile EXCEPT ![ProcOf[t]][Arg(t, 1)] = None]
  /\ Then(t, <<>>)
  /\ UNCHANGED <<ftable, alive, panic>>

(* sys_open fills the file in when its descriptor is already in the table. *)
OpenSet(t) ==
  /\ Op(t, "set")
  /\ type' = [type EXCEPT ![Arg(t, 1)] = "FD_INODE"]
  /\ Then(t, <<>>)
  /\ UNCHANGED <<ref, ofile, alive, panic>>

(* pipealloc with both files, then sys_pipe; kalloc may have no page.      *)
PipeSet(t) ==
  LET rf == Arg(t, 1)  wf == Arg(t, 2) IN
  /\ Op(t, "pipe")
  /\ \/ /\ type' = [type EXCEPT ![rf] = "FD_PIPE", ![wf] = "FD_PIPE"]
        /\ Then(t, << <<"fdalloc", rf, <<"pipe0", wf>> >> >>)
     \/ /\ OutOfMemory
        /\ Then(t, << <<"fileclose", rf>>, <<"fileclose", wf>> >>)
        /\ UNCHANGED type
  /\ UNCHANGED <<ref, ofile, alive, panic>>

(* fork copies the table entry by entry, exit closes it entry by entry.    *)
ForkFd(t) ==
  LET q == Arg(t, 1)  fd == Arg(t, 2)  f == Descriptors(t)[fd] IN
  /\ Op(t, "fork") /\ fd \in Fd
  /\ IF f = None THEN Then(t, << <<"fork", q, fd + 1>> >>) /\ UNCHANGED ofile
     ELSE /\ ofile' = [ofile EXCEPT ![q][fd] = f]
          /\ Then(t, << <<"filedup", f>>, <<"fork", q, fd + 1>> >>)
  /\ UNCHANGED <<ftable, alive, panic>>
Forked(t) ==
  /\ Op(t, "fork") /\ Arg(t, 2) \notin Fd
  /\ alive' = [alive EXCEPT ![Arg(t, 1)] = TRUE]
  /\ Then(t, <<>>)
  /\ UNCHANGED <<ftable, ofile, panic>>
ExitFd(t) ==
  LET fd == Arg(t, 1)  f == Descriptors(t)[fd] IN
  /\ Op(t, "exit") /\ fd \in Fd
  /\ Then(t, (IF f = None THEN <<>> ELSE << <<"fileclose", f>>, <<"clear", fd>> >>)
             \o << <<"exit", fd + 1>> >>)
  /\ UNCHANGED <<ftable, ofile, alive, panic>>
Exited(t) ==
  /\ Op(t, "exit") /\ Arg(t, 1) \notin Fd
  /\ alive' = [alive EXCEPT ![ProcOf[t]] = FALSE]
  /\ Then(t, <<>>)
  /\ UNCHANGED <<ftable, ofile, panic>>

-----------------------------------------------------------------------------
(* The calls; argfd reads the descriptor table once.  exit() is called by  *)
(* the only thread of a process: what it does to others is in ProcTable.   *)
Embryo(p) == \E t \in Thread : Op(t, "fork") /\ Arg(t, 1) = p
Call(t, ops) ==
  /\ todo[t] = <<>> /\ alive[ProcOf[t]]
  /\ todo' = [todo EXCEPT ![t] = ops]
  /\ UNCHANGED <<ftable, ofile, alive, panic>>
sys_open(t) == Call(t, << <<"alloc", <<"open">> >> >>)
sys_pipe(t) == Call(t, << <<"alloc", <<"rf">> >> >>)
sys_dup(t, fd) ==
  Descriptors(t)[fd] # None /\ Call(t, << <<"fdalloc", Descriptors(t)[fd], <<"dup">> >> >>)
sys_close(t, fd) ==
  Descriptors(t)[fd] # None /\ Call(t, << <<"clear", fd>>, <<"fileclose", Descriptors(t)[fd]>> >>)
Siblings(p) == {t \in Thread : ProcOf[t] = p}
fork(t, q) ==
  ~alive[q] /\ ~Embryo(q) /\ ofile[q] = [fd \in Fd |-> None] /\ Call(t, << <<"fork", q, 0>> >>)
exit(t) ==
  Cardinality(Siblings(ProcOf[t])) = 1 /\ ProcOf[t] # initproc /\ Call(t, << <<"exit", 0>> >>)

SysCall(t) ==
  \/ sys_open(t) \/ sys_pipe(t) \/ exit(t) \/ \E q \in Proc : fork(t, q)
  \/ \E fd \in Fd : sys_dup(t, fd) \/ sys_close(t, fd)
Kernel(t) ==
  \/ filealloc(t) \/ filedup(t) \/ fileclose(t) \/ fdalloc(t) \/ Store(t) \/ Clear(t)
  \/ OpenSet(t) \/ PipeSet(t)
  \/ ForkFd(t) \/ Forked(t) \/ ExitFd(t) \/ Exited(t)
Next == panic = "no" /\ \E t \in Thread : SysCall(t) \/ Kernel(t)
Spec == Init /\ [][Next]_vars

-----------------------------------------------------------------------------
(* filedup and fileclose never meet a file that is not open.               *)
NeverPanics == panic = "no"

(* When no call is under way the count of a file is the number of          *)
(* descriptors that refer to it, whichever way the calls before went: none *)
(* is lost when a call fails half way, none is free while a descriptor     *)
(* leads to it, and what is open has been filled in.                       *)
Uses(f) == {<<p, fd>> \in Proc \X Fd : ofile[p][fd] = f}
CountsExact ==
  (\A t \in Thread : todo[t] = <<>>) =>
    \A f \in File : ref[f] = Cardinality(Uses(f)) /\ (ref[f] > 0 <=> type[f] # "FD_NONE")
=============================================================================

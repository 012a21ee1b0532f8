----------------------------- MODULE MCPrograms -----------------------------
(***************************************************************************)
(* User programs, in one state graph: fssp, as the program with            *)
(* num_of_soldiers threads (Fssp) and as the automaton alone in every size *)
(* main() accepts, with a count of its generations (FiringSquad); the      *)
(* shell with the processes it starts (Shell) and its parser (ShellParser) *)
(* on every short line; grep, its loop and its matcher (Grep); malloc      *)
(* (Heap); the library (Library); and the memory exec gives a program      *)
(* (PageTable).  part tells which of them a behaviour is about; the others *)
(* do not move.                                                            *)
(***************************************************************************)
EXTENDS Fssp, SequencesExt

CONSTANTS MaxLine    \* characters of a line for the parser

VARIABLES
  part,
  line, generation,                                                 \* of FiringSquad
  todo, fds, pfd, parent, status, lines, job, failures, forkFailed, \* of Shell
  typed,                                                            \* for ShellParser
  re, text,                                                         \* for match()
  input, buf, printed, whole,                                       \* of Grep
  hdr, freep, brk, lent, core,                                      \* of Heap
  call,                                                             \* for Library
  mem, pgdir, sz, new, running, leaked, stop                        \* of PageTable

squadVars == <<line, generation>>
shellVars == <<todo, fds, pfd, parent, status, lines, job, failures, forkFailed>>
grepVars == <<re, text, input, buf, printed, whole>>
heapVars == <<hdr, freep, brk, lent, core>>
userVars == <<squadVars, shellVars, typed, grepVars, heapVars, call>>
tableVars == <<mem, pgdir, sz, new, running, leaked, stop>>
all == <<part, vars, userVars, tableVars>>

Ideal == INSTANCE FiringSquad WITH MaxSoldiers <- 15, squad <- line

(* A program reads its input to the end, writes until nobody reads, or     *)
(* just ends.                                                              *)
Cmd == INSTANCE ShellParser WITH MAXARGS <- 3
Prog(name, does) == Cmd!execcmd(<<[name |-> name, does |-> does]>>)
A == Prog("a", "end")
B == Prog("b", "end")
R == Prog("r", "read")
S == Prog("s", "read")
W == Prog("w", "write")
To(cmd, file) == Cmd!redircmd(cmd, file, "O_WRONLY|O_CREATE", 1)
Commands == {
  <<Cmd!pipecmd(A, Cmd!pipecmd(R, S))>>,                          \* a | r | s
  <<Cmd!pipecmd(Cmd!listcmd(A, W), To(To(B, "x"), "y"))>>,        \* (a; w) | b > x > y
  <<Cmd!backcmd(Cmd!pipecmd(A, R)), B>>,                          \* a | r &, then b
  <<Cmd!listcmd(Cmd!backcmd(A), Cmd!pipecmd(W, B))>>,             \* a & ; w | b
  <<Cmd!execcmd(<<>>), [type |-> "panic"]>> }                     \* nothing, a syntax error
Sh == INSTANCE Shell WITH
  MAXARGS <- 3, Procs <- 1..7, NOFILE <- 6, Inputs <- Commands, MaxFailures <- 1, p <- pfd

(* Files of up to eight characters, read through a buffer of five, and     *)
(* patterns of up to four characters on texts of up to three.             *)
G == INSTANCE Grep WITH BUFSIZE <- 5, Pattern <- <<"b">>, ShortReads <- FALSE
Strings(chars, n) == UNION { [1..k -> chars] : k \in 0..n }
Files == Strings({"a", "b", G!Newline}, 8)

(* A heap of ten units that grows by four, and blocks of 1, 3 and 4 units. *)
Malloc == INSTANCE Heap WITH HeapEnd <- 10, MinCore <- 4, Requests <- {0, 9, 17}

(* Numbers of eight bits; strings and formats of up to four characters.    *)
Lib == INSTANCE Library WITH W <- 8
Calls ==
  {<<"memmove", [k \in 0..5 |-> k], d, s, n>> : d \in 0..2, s \in 0..2, n \in 0..4}
  \cup {<<"copy", 4, t, n>> : t \in Strings({1, 2}, 4), n \in 0..4}
  \cup {<<"compare", u, v, n>> : u \in Strings({1, 200}, 3), v \in Strings({1, 200}, 3), n \in 0..4}
  \cup {<<"number", xx>> : xx \in -128..127}
  \cup {<<"printf", fmt>> : fmt \in Strings({"%", "d", "p", "s", "c", "q"}, 4)}
  \cup {<<"gets", l, max>> : l \in Strings({1, Lib!Newline}, 6), max \in 2..4}
  \cup {<<"wc", f, 2>> : f \in Strings({1, Lib!Space, Lib!Newline}, 5)}

(* Programs with two segments and two arguments; with a segment the file   *)
(* does not hold; and with more arguments than the stack has room for.     *)
Seg(vaddr, filesz, memsz, stored) ==
  [vaddr |-> vaddr, filesz |-> filesz, memsz |-> memsz, stored |-> stored]
Executables == {
  [segs |-> <<Seg(0, 3, 3, 3), Seg(8, 2, 9, 2)>>, args |-> <<2, 1>>],
  [segs |-> <<Seg(0, 3, 3, 3), Seg(8, 3, 3, 2)>>, args |-> <<>>],
  [segs |-> <<Seg(0, 8, 8, 8)>>, args |-> <<1, 5>>] }

(* Two processes on 18 pages of eight words, two pages to a table, three   *)
(* tables for user memory and one for the kernel's.  A process as large as *)
(* can be takes ten pages, and exec builds a second image beside it.       *)
Vm == INSTANCE PageTable WITH
  Proc <- 1..2, Page <- 1..18, PGSIZE <- 8, NPTENTRIES <- 2, NPDENTRIES <- 4, KERNBASE <- 48,
  kmap <- <<48, 56>>, MAXARG <- 3, Programs <- Executables, Increments <- {16, -8}

ProgramsInit ==
  /\ Init /\ generation = 0 /\ Sh!Init /\ typed = <<>> /\ Malloc!Init /\ Vm!Init
  /\ part \in {"fssp", "squad", "shell", "parser", "match", "grep", "heap", "library", "tables"}
  /\ IF part = "squad" THEN Ideal!Init ELSE line = <<>>
  /\ part # "shell" => lines = CHOOSE l \in Commands : TRUE
  /\ IF part = "match" THEN re \in Strings({"a", ".", "*", "^", "$"}, 4) ELSE re = <<>>
  /\ IF part = "match" THEN text \in Strings({"a", "b", "$"}, 3) ELSE text = <<>>
  /\ IF part = "grep" THEN whole \in Files ELSE whole = <<>>
  /\ IF part = "library" THEN call \in Calls ELSE call = <<"number", 0>>
  /\ input = whole /\ buf = <<>> /\ printed = <<>>

InFssp(step) ==
  part = "fssp" /\ step /\ UNCHANGED <<part, squadVars, shellVars, typed, grepVars, heapVars, call, tableVars>>
Tick ==
  /\ part = "squad" /\ Ideal!Advance
  /\ generation' = generation + 1
  /\ UNCHANGED <<part, vars, shellVars, typed, grepVars, heapVars, call, tableVars>>
InShell ==
  part = "shell" /\ Sh!Next /\ UNCHANGED <<part, vars, squadVars, typed, grepVars, heapVars, call, tableVars>>
Type ==
  /\ part = "parser" /\ Len(typed) < MaxLine
  /\ \E c \in Cmd!Symbols \cup {" ", "x"} : typed' = Append(typed, c)
  /\ UNCHANGED <<part, vars, squadVars, shellVars, grepVars, heapVars, call, tableVars>>
InGrep ==
  /\ part = "grep" /\ G!Round
  /\ UNCHANGED <<part, vars, squadVars, shellVars, typed, re, text, heapVars, call, tableVars>>
InHeap ==
  part = "heap" /\ Malloc!Next /\ UNCHANGED <<part, vars, squadVars, shellVars, typed, grepVars, call, tableVars>>
InTables == part = "tables" /\ Vm!Next /\ UNCHANGED <<part, vars, userVars>>
ProgramsNext == InFssp(Next) \/ Tick \/ InShell \/ Type \/ InGrep \/ InHeap \/ InTables

(* Fairness as Fssp and Shell have it, each for its part.                  *)
ProgramsSpec ==
  /\ ProgramsInit /\ [][ProgramsNext]_all
  /\ WF_all(InShell)
  /\ WF_all(InFssp(Main))
  /\ \A i \in Soldiers : WF_all(InFssp(SoldierFunc(i)))

(* Page tables up to the choice of physical pages: what each address space *)
(* maps where, and how many pages are in use.  OnePlace makes the numbers  *)
(* of pages immaterial, so the view tells apart whether it holds.          *)
(* The comparison at the end makes TLC evaluate all of a state it stores.  *)
Space(d) ==
  IF d = 0 THEN <<>>
  ELSE << [va \in Vm!UserAddresses(d) |->
             <<mem[Vm!walkpgdir(mem, d, va).pa], Vm!walkpgdir(mem, d, va).u>>],
          {k \in DOMAIN mem[d] : mem[d][k] # 0} >>
NewSpace(e) == IF e = Vm!NoExec THEN <<>> ELSE <<Space(e.d), [e EXCEPT !.d = 0]>>
Shape ==
  << [p \in 1..2 |-> <<Space(pgdir[p]), NewSpace(new[p])>>], sz, running,
     Cardinality(leaked), Cardinality(DOMAIN mem), stop, Vm!OnePlace, tableVars = tableVars >>
View == IF part = "tables" THEN <<part, Shape>> ELSE all

-----------------------------------------------------------------------------
(* A squad of any size fires together: nobody is in F before everybody is, *)
(* so that main() may watch the general alone; nobody meets a blank entry  *)
(* of trans_func, which would index the table out of its bounds; and n     *)
(* soldiers fire before generation 3n is over, so that the loops end.  In  *)
(* the program the threads keep in step for that: nobody interferes with   *)
(* the barrier's counter, and nobody leaves before it has fired.           *)
EverySquadFires ==
  /\ \A i \in DOMAIN line : line[i] \in Ideal!Soldier
  /\ (\E i \in DOMAIN line : line[i] = "F") => \A i \in DOMAIN line : line[i] = "F"
  /\ part = "squad" => line[1] = "F" \/ generation < 3 * Len(line)
  /\ Guarded /\ LeavesFired

(* The squad fires and every soldier's thread ends: nobody waits in the    *)
(* barrier forever.  main ends too, unless a soldier leaves just when main *)
(* goes to sleep for it in kthread_join, whose wakeup is then missed; this *)
(* is the only way for main to stay behind.                                *)
ProgramEnds ==
  part = "fssp" => /\ <>(\A i \in Soldiers : pc[i] = "exited")
                   /\ <>(pc[0] = "exited" \/ MissedExit)

(* A program gets the input and output its place in the command gives it,  *)
(* and the shell prompts again only when what it must wait for has ended.  *)
RunsAsTyped == Sh!RunsAsTyped

(* Every command line comes to an end, whichever call fails.               *)
CommandsEnd == part = "shell" => Sh!CommandsEnd

(* parsecmd finds the one command a line stands for, and panics exactly    *)
(* when there is none; the NULs that end the words hurt no other word.     *)
ParsesTheGrammar == Cmd!ParsesTheGrammar(typed)

(* grep prints the lines that match, each once and in order, wherever the  *)
(* ends of reads that fill its buffer cut them, and a line matches when    *)
(* the pattern says so;                                                    *)
(* and the functions of the libraries return, print or copy what they      *)
(* promise, the ends of buffers and of the range of int included.          *)
UtilitiesAgree ==
  G!MatcherAgrees(re, text) /\ G!PrintsMatchingLines /\ Lib!LibraryAgrees(call)

(* The heap is cut without gap or overlap into what malloc has given out,  *)
(* large enough for the request, and what the free list holds, once.       *)
HeapExact == Malloc!HeapExact

(* Every page is at one place of one address space, whichever allocation   *)
(* failed half-way, and a process reads the program and the arguments that *)
(* exec was called with.                                                   *)
ImagesExact == part = "tables" => Vm!OnePlace /\ Vm!NoRemap /\ Vm!RunsItsProgram
=============================================================================

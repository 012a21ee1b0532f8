-------------------------------- MODULE Shell --------------------------------
(***************************************************************************)
(* The shell (sh.c: main, runcmd, fork1) and the processes it starts, with *)
(* their descriptors, their pipes, and who waits for whom.  A process is a *)
(* list of system calls still to make, todo; one call is one step.  What   *)
(* the kernel does for a call (fork, wait, pipe, open, close, dup, exit)   *)
(* is given by its effect on the descriptors and the process tree.         *)
(***************************************************************************)
EXTENDS ShellParser, FiniteSetsExt

CONSTANTS Procs,   \* process numbers; 1 is the shell, 0 stands for init
          NOFILE,
          Inputs,  \* what may be typed: sequences of commands
          MaxFailures   \* bound on the calls that fail

VARIABLES todo,    \* the calls a process has still to make
          fds,     \* its descriptors
          p,       \* the array p of runcmd
          parent,
          status,  \* "unused", "alive" or "zombie"
          lines,   \* the commands the shell has not read yet
          job,     \* "fg" or "bg": started by a command with & (no variable of the code)
          failures,    \* calls that have failed
          forkFailed   \* one of them was a fork

vars == <<todo, fds, p, parent, status, lines, job, failures, forkFailed>>
faults == <<failures, forkFailed>>

(***************************************************************************)
(* Descriptors.  A pipe is named by the pipe command that creates it.      *)
(***************************************************************************)
Closed == [kind |-> "closed"]
Console == [kind |-> "console"]
File(f) == [kind |-> "file", name |-> f]
ReadEnd(cmd) == [kind |-> "read", pipe |-> cmd]
WriteEnd(cmd) == [kind |-> "write", pipe |-> cmd]

fdalloc(q) == Min({ i \in DOMAIN fds[q] : fds[q][i] = Closed })
IsOpenIn(q, what) == \E i \in DOMAIN fds[q] : fds[q][i] = what
Somewhere(what) == \E q \in Procs : IsOpenIn(q, what)

\* runcmd as the list of its calls.  p[0] and p[1] stand for the numbers that
\* pipe() has put there.
P0 == NOFILE
P1 == NOFILE + 1
Call(op, arg) == <<[op |-> op, arg |-> arg]>>

ToLeft(calls) == Call("close", 1) \o Call("dup", P1) \o Call("close", P0)
               \o Call("close", P1) \o calls
ToRight(calls) == Call("close", 0) \o Call("dup", P0) \o Call("close", P0)
                \o Call("close", P1) \o calls
Exit == Call("exit", 0)
Fork(child) == Call("fork", child)
Wait == Call("wait", 0)

RECURSIVE runcmd(_)
runcmdKeepingEnd(cmd) ==
    CASE cmd.type = "EXEC" -> IF cmd.args = <<>> THEN Exit ELSE Call("exec", cmd.args[1]) \o Exit
      [] cmd.type = "PIPE" -> Call("pipe", cmd) \o Fork(ToLeft(runcmd(cmd.left)))
                              \o Fork(ToRight(runcmd(cmd.right))) \o Call("close", P0)
                              \o Wait \o Wait \o Exit
      [] OTHER -> Exit

runcmd(cmd) ==
    CASE cmd.type = "EXEC" -> IF cmd.args = <<>> THEN Exit ELSE Call("exec", cmd.args[1]) \o Exit
      [] cmd.type = "REDIR" -> Call("close", cmd.fd) \o Call("open", cmd.file)
                               \o runcmd(cmd.cmd)
      [] cmd.type = "LIST" -> Fork(runcmd(cmd.left)) \o Wait \o runcmd(cmd.right)
      [] cmd.type = "PIPE" -> Call("pipe", cmd) \o Fork(ToLeft(runcmd(cmd.left)))
                              \o Fork(ToRight(runcmd(cmd.right))) \o Call("close", P0)
                              \o Call("close", P1) \o Wait \o Wait \o Exit
      [] cmd.type = "BACK" -> Fork(runcmd(cmd.cmd)) \o Exit
      [] cmd.type = "panic" -> Exit

\* main() with three descriptors on the console, at its first prompt.
Init ==
    /\ lines \in Inputs
    /\ todo = [q \in Procs |-> IF q = 1 THEN Call("prompt", 0) ELSE <<>>]
    /\ fds = [q \in Procs |-> [i \in 0..(NOFILE - 1) |->
                 IF q = 1 /\ i < 3 THEN Console ELSE Closed]]
    /\ p = [q \in Procs |-> <<0, 0>>]
    /\ parent = [q \in Procs |-> 0]
    /\ status = [q \in Procs |-> IF q = 1 THEN "alive" ELSE "unused"]
    /\ job = [q \in Procs |-> "fg"]
    /\ failures = 0 /\ forkFailed = FALSE

-----------------------------------------------------------------------------
FdOf(q, arg) == IF arg >= NOFILE THEN p[q][arg - NOFILE + 1] ELSE arg

Is(q, op) == status[q] = "alive" /\ todo[q] # <<>> /\ todo[q][1].op = op
Arg(q) == todo[q][1].arg
Then(q, calls) == todo' = [todo EXCEPT ![q] = calls \o Tail(@)]
Become(q, calls) == todo' = [todo EXCEPT ![q] = calls]
\* A call fails and the process, after a message, exits.
Fails(q) == /\ failures < MaxFailures
            /\ failures' = failures + 1
            /\ Become(q, Exit)
SetFd(q, i, what) == fds' = [fds EXCEPT ![q][i] = what]

close(q) ==
    /\ Is(q, "close") /\ Then(q, <<>>)
    /\ SetFd(q, FdOf(q, Arg(q)), Closed)
    /\ UNCHANGED <<p, parent, status, lines, job, faults>>

dup(q) ==
    /\ Is(q, "dup") /\ Then(q, <<>>)
    /\ SetFd(q, fdalloc(q), fds[q][FdOf(q, Arg(q))])
    /\ UNCHANGED <<p, parent, status, lines, job, faults>>

open(q) ==
    /\ Is(q, "open")
    /\ \/ Then(q, <<>>) /\ SetFd(q, fdalloc(q), File(Arg(q))) /\ UNCHANGED failures
       \/ Fails(q) /\ UNCHANGED fds
    /\ UNCHANGED <<p, parent, status, lines, job, forkFailed>>

pipe(q) ==
    /\ Is(q, "pipe")
    /\ \/ LET r == fdalloc(q)
              w == Min({ i \in DOMAIN fds[q] : fds[q][i] = Closed /\ i # r })
          IN /\ fds' = [fds EXCEPT ![q][r] = ReadEnd(Arg(q)), ![q][w] = WriteEnd(Arg(q))]
             /\ p' = [p EXCEPT ![q] = <<r, w>>]
             /\ Then(q, <<>>) /\ UNCHANGED failures
       \/ Fails(q) /\ UNCHANGED <<fds, p>>
    /\ UNCHANGED <<parent, status, lines, job, forkFailed>>

\* fork1 of the child with the calls `child`; it panics when fork fails.
fork1(q, child, calls, j) ==
    \/ LET c == Min({ d \in Procs : status[d] = "unused" })
       IN /\ todo' = [todo EXCEPT ![q] = calls, ![c] = child]
          /\ fds' = [fds EXCEPT ![c] = fds[q]]
          /\ p' = [p EXCEPT ![c] = p[q]]
          /\ parent' = [parent EXCEPT ![c] = q]
          /\ status' = [status EXCEPT ![c] = "alive"]
          /\ job' = [job EXCEPT ![c] = j]
          /\ UNCHANGED <<lines, faults>>
    \/ /\ Fails(q)
       /\ forkFailed' = TRUE
       /\ UNCHANGED <<fds, p, parent, status, lines, job>>

fork(q) ==
    /\ Is(q, "fork")
    /\ fork1(q, Arg(q), Tail(todo[q]),
             IF todo[q][2].op = "exit" THEN "bg" ELSE job[q])

\* One child, if there is any, is waited for; -1 if there is none.
waitNotAtAll(q) ==
    /\ Is(q, "wait") /\ Then(q, <<>>)
    /\ UNCHANGED <<fds, p, parent, lines, job, faults, status>>

wait(q) ==
    /\ Is(q, "wait") /\ Then(q, <<>>)
    /\ \/ /\ \A c \in Procs : status[c] = "unused" \/ parent[c] # q
          /\ UNCHANGED <<status, parent>>
       \/ \E c \in Procs : /\ status[c] = "zombie" /\ parent[c] = q
                           /\ status' = [status EXCEPT ![c] = "unused"]
                           /\ parent' = [parent EXCEPT ![c] = 0]
    /\ UNCHANGED <<fds, p, lines, job, faults>>

\* exit closes the descriptors and leaves the children to init, which waits
\* for the dead ones.
exit(q) ==
    /\ Is(q, "exit") /\ Become(q, <<>>)
    /\ fds' = [fds EXCEPT ![q] = [i \in DOMAIN @ |-> Closed]]
    /\ status' = [c \in Procs |->
          IF c = q THEN IF parent[q] = 0 THEN "unused" ELSE "zombie"
          ELSE IF parent[c] = q /\ status[c] = "zombie" THEN "unused" ELSE status[c]]
    /\ parent' = [c \in Procs |-> IF parent[c] = q THEN 0 ELSE parent[c]]
    /\ p' = [p EXCEPT ![q] = <<0, 0>>]
    /\ job' = [job EXCEPT ![q] = "fg"]
    /\ UNCHANGED <<lines, faults>>

\* exec of a program: from here on its own code runs.
exec(q) ==
    /\ Is(q, "exec")
    /\ \/ Then(q, Call("program", Arg(q))) /\ UNCHANGED failures
       \/ Fails(q)
    /\ UNCHANGED <<fds, p, parent, status, lines, job, forkFailed>>

(***************************************************************************)
(* Programs: one that reads its input to the end, one that writes until    *)
(* nobody can read it any more, and one that just ends.                    *)
(***************************************************************************)
program(q) ==
    /\ Is(q, "program") /\ Then(q, <<>>)
    /\ LET in == fds[q][0]
           out == fds[q][1]
       IN /\ Arg(q).does = "read" /\ in.kind = "read" => ~ Somewhere(WriteEnd(in.pipe))
          /\ Arg(q).does = "write" /\ out.kind = "write" => ~ Somewhere(ReadEnd(out.pipe))
    /\ UNCHANGED <<fds, p, parent, status, lines, job, faults>>

\* main: read a line, fork1 and wait; at the end of the input, exit.
main ==
    /\ Is(1, "prompt")
    /\ IF lines = <<>>
       THEN /\ Become(1, Exit)
            /\ UNCHANGED <<fds, p, parent, status, lines, job, faults>>
       ELSE /\ Become(1, Fork(runcmd(Head(lines))) \o Wait \o Call("prompt", 0))
            /\ lines' = Tail(lines)
            /\ UNCHANGED <<fds, p, parent, status, job, faults>>

Proc(q) == \/ close(q) \/ dup(q) \/ open(q) \/ pipe(q) \/ fork(q)
           \/ wait(q) \/ exit(q) \/ exec(q) \/ program(q)
           \/ q = 1 /\ main

Next == \E q \in Procs : Proc(q)

\* The machine goes on while any process can: every call uses up a part of
\* todo, so that this much fairness is enough.
Spec == Init /\ [][Next]_vars /\ WF_vars(Next)

-----------------------------------------------------------------------------
(***************************************************************************)
(* What a command means: which program gets which input and output.  The   *)
(* redirection written first wins, since it is applied last.               *)
(***************************************************************************)
RECURSIVE Wiring(_, _, _)
Wiring(cmd, in, out) ==
    CASE cmd.type = "EXEC" -> { <<cmd.args[i], in, out>> : i \in DOMAIN cmd.args }
      [] cmd.type = "REDIR" -> IF cmd.fd = 0 THEN Wiring(cmd.cmd, File(cmd.file), out)
                                             ELSE Wiring(cmd.cmd, in, File(cmd.file))
      [] cmd.type = "PIPE" -> Wiring(cmd.left, in, WriteEnd(cmd))
                              \cup Wiring(cmd.right, ReadEnd(cmd), out)
      [] cmd.type = "LIST" -> Wiring(cmd.left, in, out) \cup Wiring(cmd.right, in, out)
      [] cmd.type = "BACK" -> Wiring(cmd.cmd, in, out)
      [] OTHER -> {}

Typed == UNION { ToSet(i) : i \in Inputs }

\* A program starts with the input and the output its place in the command
\* gives it, and with no end of a pipe besides; and the shell prompts again
\* only when it has no child left and all that runs was started with & (or a
\* fork has failed).
RunsAsTyped ==
    /\ \A q \in Procs : Is(q, "program") =>
          /\ \E cmd \in Typed : <<Arg(q), fds[q][0], fds[q][1]>> \in Wiring(cmd, Console, Console)
          /\ \A i \in 2..(NOFILE - 1) : fds[q][i].kind \notin {"read", "write"}
    /\ Is(1, "prompt") /\ ~ forkFailed =>
          \A q \in Procs \ {1} : /\ status[q] = "alive" => job[q] = "bg"
                                  /\ parent[q] # 1

\* The shell comes to the end of its input and every process of it ends:
\* nobody waits for the end of a pipe that somebody forgot to close, or for a
\* child that is not there, even when forks, opens or pipes fail.
CommandsEnd == <>[](\A q \in Procs : status[q] = "unused")
=============================================================================

----------------------------- MODULE ShellParser -----------------------------
(***************************************************************************)
(* The shell's parser (sh.c) as operators, and the grammar it is meant to  *)
(* accept.  A line is a sequence of characters: " " for the white space,   *)
(* the seven symbols, and anything else for a letter of a word.  A parse   *)
(* function takes the position s and returns the command and the position  *)
(* behind it, or Panic, after which the process is gone.                   *)
(*                                                                         *)
(* A word is the pair <<q, eq>> of its first position and the one behind.  *)
(***************************************************************************)
EXTENDS Naturals, Sequences, FiniteSets, SequencesExt

CONSTANTS MAXARGS

Symbols == {"<", "|", ">", "&", ";", "(", ")"}
NUL == "NUL"
Panic == [cmd |-> [type |-> "panic"], s |-> 0]
Panics(x) == x.cmd.type = "panic"

\* The constructors.  In an EXEC, args are argv and eargv.
execcmd(args) == [type |-> "EXEC", args |-> args]
redircmd(sub, file, mode, fd) ==
    [type |-> "REDIR", cmd |-> sub, file |-> file, mode |-> mode, fd |-> fd]
pipecmd(left, right) == [type |-> "PIPE", left |-> left, right |-> right]
listcmd(left, right) == [type |-> "LIST", left |-> left, right |-> right]
backcmd(sub) == [type |-> "BACK", cmd |-> sub]

\* *s: the character at s, and the NUL that ends the string.
At(line, s) == IF s <= Len(line) THEN line[s] ELSE NUL

RECURSIVE SkipWhile(_, _, _)
SkipWhile(line, s, chars) ==
    IF At(line, s) \in chars THEN SkipWhile(line, s + 1, chars) ELSE s
SkipSpace(line, s) == SkipWhile(line, s, {" "})
WordChars(line) == ToSet(line) \ (Symbols \cup {" "})

\* What gettoken returns, the positions q and eq, and the new *ps.
EndOfToken(line, q, c) ==
    CASE c = NUL -> q
      [] c = ">" /\ At(line, q + 1) = ">" -> q + 2
      [] c \in Symbols -> q + 1
      [] OTHER -> SkipWhile(line, q, WordChars(line))
Token(line, q, eq, c) ==
    [tok |-> CASE c = ">" /\ eq = q + 2 -> "+"
               [] c \in Symbols \cup {NUL} -> c
               [] OTHER -> "a",
     word |-> <<q, eq>>,
     s |-> SkipSpace(line, eq)]
TokenAt(line, q) == Token(line, q, EndOfToken(line, q, At(line, q)), At(line, q))
gettoken(line, ps) == TokenAt(line, SkipSpace(line, ps))

peek(line, s, toks) == At(line, SkipSpace(line, s)) \in toks

-----------------------------------------------------------------------------
(***************************************************************************)
(* The parser.                                                             *)
(***************************************************************************)
RECURSIVE parseline(_, _), parsebacks(_, _, _), parsepipe(_, _), parseredirs(_, _, _),
          parseargs(_, _, _, _)

\* Go on from what has been parsed, unless that was a panic.
AndThen(x, Goes(_)) == IF Panics(x) THEN Panic ELSE Goes(x)

Parsed(cmd, s) == [cmd |-> cmd, s |-> s]

Redirection(tok, sub, file) ==
    IF tok = "<" THEN redircmd(sub, file, "O_RDONLY", 0)
                 ELSE redircmd(sub, file, "O_WRONLY|O_CREATE", 1)

RedirTo(line, cmd, tok, file) ==
    IF file.tok # "a" THEN Panic
    ELSE parseredirs(line, Redirection(tok, cmd, file.word), file.s)
Redir(line, cmd, op) == RedirTo(line, cmd, op.tok, gettoken(line, op.s))

parseredirs(line, cmd, s) ==
    IF peek(line, s, {"<", ">"}) THEN Redir(line, cmd, gettoken(line, s)) ELSE Parsed(cmd, s)

parseblock(line, s) ==
    AndThen(parseline(line, gettoken(line, s).s),
         LAMBDA x : IF ~ peek(line, x.s, {")"}) THEN Panic
                    ELSE parseredirs(line, x.cmd, gettoken(line, x.s).s))

\* argv belongs to the innermost command, under the redirections read so far.
RECURSIVE WithArgs(_, _)
WithArgs(cmd, args) == IF cmd.type = "EXEC" THEN execcmd(args)
                       ELSE [cmd EXCEPT !.cmd = WithArgs(@, args)]

ArgThen(line, ret, args, s, t) ==
    IF t.tok = NUL THEN Parsed(WithArgs(ret, args), s)
    ELSE IF t.tok # "a" \/ Len(args) + 1 >= MAXARGS THEN Panic
    ELSE AndThen(parseredirs(line, ret, t.s),
              LAMBDA x : parseargs(line, x.cmd, Append(args, t.word), x.s))

parseargs(line, ret, args, s) ==
    IF peek(line, s, {"|", ")", "&", ";"}) THEN Parsed(WithArgs(ret, args), s)
    ELSE ArgThen(line, ret, args, s, gettoken(line, s))

parseexec(line, s) ==
    IF peek(line, s, {"("}) THEN parseblock(line, s)
    ELSE AndThen(parseredirs(line, execcmd(<<>>), s),
              LAMBDA x : parseargs(line, x.cmd, <<>>, x.s))

\* The rest behind a symbol, parsed with F, is the right half of Join.
RightHalf(line, left, F(_, _), Join(_, _)) ==
    AndThen(F(line, gettoken(line, left.s).s),
         LAMBDA right : Parsed(Join(left.cmd, right.cmd), right.s))

parsepipeLeft(line, s) ==
    AndThen(parseexec(line, s),
         LAMBDA left : IF peek(line, left.s, {"|"})
                       THEN RightHalf(line, left, parseexec, pipecmd) ELSE left)

parsepipe(line, s) ==
    AndThen(parseexec(line, s),
         LAMBDA left : IF peek(line, left.s, {"|"})
                       THEN RightHalf(line, left, parsepipe, pipecmd) ELSE left)

parsebacks(line, cmd, s) ==
    IF peek(line, s, {"&"}) THEN parsebacks(line, backcmd(cmd), gettoken(line, s).s)
    ELSE Parsed(cmd, s)

ListThen(line, x) ==
    IF peek(line, x.s, {";"}) THEN RightHalf(line, x, parseline, listcmd) ELSE x
parseline(line, s) ==
    AndThen(parsepipe(line, s), LAMBDA x : ListThen(line, parsebacks(line, x.cmd, x.s)))

parsecmd(line) ==
    AndThen(parseline(line, 1),
         LAMBDA x : IF SkipSpace(line, x.s) # Len(line) + 1 THEN Panic ELSE x).cmd

-----------------------------------------------------------------------------
(***************************************************************************)
(* nulterminate: a NUL behind every word of the command, in place.         *)
(***************************************************************************)
RECURSIVE Words(_)
Words(cmd) ==
    CASE cmd.type = "EXEC" -> ToSet(cmd.args)
      [] cmd.type = "REDIR" -> Words(cmd.cmd) \cup {cmd.file}
      [] cmd.type = "BACK" -> Words(cmd.cmd)
      [] OTHER -> Words(cmd.left) \cup Words(cmd.right)

nulterminate(line, cmd) ==
    LET ends == { w[2] : w \in Words(cmd) }
    IN [i \in 1..(Len(line) + 1) |-> IF i \in ends THEN NUL ELSE At(line, i)]

-----------------------------------------------------------------------------
(***************************************************************************)
(* The grammar, written down without a parser: the tokens of a line, and   *)
(* the set of commands that the tokens from i up to but not including j    *)
(* stand for.                                                              *)
(*                                                                         *)
(*   line    ::=  backs | backs ; line        backs ::= pipe | backs &     *)
(*   pipe    ::=  block | block "|" pipe                                   *)
(*   block   ::=  ( line ) redir* | (word | redir)*                        *)
(***************************************************************************)
\* A ">" that is the second half of a ">>": an odd number of ">" before it.
SecondHalf(line, p) ==
    \E k \in 1..p : /\ line[p] = ">" /\ k % 2 = 1 /\ k < p
                    /\ \A i \in (p - k)..(p - 1) : line[i] = ">"
                    /\ p - k = 1 \/ line[p - k - 1] # ">"

Starts(line) ==
    { p \in DOMAIN line : \/ line[p] \in Symbols /\ ~ SecondHalf(line, p)
                          \/ /\ line[p] \in WordChars(line)
                             /\ p = 1 \/ line[p - 1] \notin WordChars(line) }
EndOf(line, p) ==
    IF line[p] \in Symbols
    THEN IF p < Len(line) /\ SecondHalf(line, p + 1) THEN p + 2 ELSE p + 1
    ELSE CHOOSE e \in (p + 1)..(Len(line) + 1) :
            /\ \A i \in p..(e - 1) : line[i] \in WordChars(line)
            /\ At(line, e) \notin WordChars(line)
Tokens(line) ==
    [ i \in 1..Cardinality(Starts(line)) |->
        LET p == CHOOSE p \in Starts(line) : Cardinality({ o \in Starts(line) : o < p }) = i - 1
        IN [sym |-> IF line[p] \in Symbols THEN line[p] ELSE "a",
            word |-> <<p, EndOf(line, p)>>] ]

\* The tokens i, i+1, ... j-1 with the set R of redirection operators among
\* them: each is followed by its file, and what remains are the words.
Redirects(t, i, j, R) ==
    /\ \A k \in R : k + 1 < j /\ t[k + 1].sym = "a"
    /\ \A k \in i..(j - 1) : t[k].sym \in {"<", ">"} <=> k \in R
Wrapped(t, cmd, R) ==
    FoldLeft(LAMBDA sub, k : Redirection(t[k].sym, sub, t[k + 1].word),
             cmd, SetToSortSeq(R, <))

SimpleIn(t, i, j) ==
    { Wrapped(t, execcmd([ k \in 1..Len(w) |-> t[w[k]].word ]), R) :
        <<R, w>> \in { <<R, SetToSortSeq((i..(j - 1)) \ (R \cup { k + 1 : k \in R }), <)>> :
                         R \in { R \in SUBSET (i..(j - 1)) :
                                   /\ Redirects(t, i, j, R)
                                   /\ Cardinality((i..(j - 1)) \ R) - Cardinality(R) < MAXARGS
                                   /\ \A k \in (i..(j - 1)) \ R : t[k].sym = "a" } } }

RECURSIVE LineIn(_, _, _), BacksIn(_, _, _), PipeIn(_, _, _)
BlockIn(t, i, j) ==
    SimpleIn(t, i, j) \cup
    { Wrapped(t, x[1], x[2]) : x \in UNION {
        LineIn(t, i + 1, k) \X { R \in SUBSET ((k + 1)..(j - 1)) :
                                   /\ Redirects(t, k + 1, j, R)
                                   /\ 2 * Cardinality(R) = j - 1 - k } :
        k \in { k \in (i + 1)..(j - 1) : t[i].sym = "(" /\ t[k].sym = ")" } } }
PipeIn(t, i, j) ==
    BlockIn(t, i, j) \cup
    UNION { { pipecmd(l, r) : l \in BlockIn(t, i, k), r \in PipeIn(t, k + 1, j) } :
            k \in { k \in i..(j - 1) : t[k].sym = "|" } }
BacksIn(t, i, j) ==
    PipeIn(t, i, j) \cup
    IF i < j /\ t[j - 1].sym = "&" THEN { backcmd(c) : c \in BacksIn(t, i, j - 1) } ELSE {}
LineIn(t, i, j) ==
    BacksIn(t, i, j) \cup
    UNION { { listcmd(l, r) : l \in BacksIn(t, i, k), r \in LineIn(t, k + 1, j) } :
            k \in { k \in i..(j - 1) : t[k].sym = ";" } }

Meanings(line) == LET t == Tokens(line) IN LineIn(t, 1, Len(t) + 1)

-----------------------------------------------------------------------------
\* parsecmd finds the one command that the line stands for in the grammar, and
\* panics exactly when there is none, whatever white space is left out; and
\* after nulterminate every word reads as it was typed, although the NULs are
\* written into the line that the words are read from.
ParsesTheGrammar(line) ==
    LET cmd == parsecmd(line)
    IN /\ Meanings(line) = IF cmd = Panic.cmd THEN {} ELSE {cmd}
       /\ cmd # Panic.cmd =>
             \A w \in Words(cmd) :
                /\ nulterminate(line, cmd)[w[2]] = NUL
                /\ \A i \in w[1]..(w[2] - 1) : nulterminate(line, cmd)[i] = line[i]
=============================================================================

---------------------------- MODULE FiringSquad ----------------------------
(***************************************************************************)
(* The automaton of fssp.c as an ideal, synchronous firing squad: in every *)
(* generation all soldiers move at once by trans_func.                     *)
(***************************************************************************)
EXTENDS Naturals, Sequences

CONSTANT MaxSoldiers     \* the largest squad main() accepts

(* Soldier states; X is the missing neighbour at either end of the line, B *)
(* (-1, "blank/dont-care") is an entry that no index may ever be taken of. *)
Column == [Q |-> 1, P |-> 2, R |-> 3, Z |-> 4, M |-> 5, X |-> 6]
Soldier == {"Q", "P", "R", "Z", "M", "F"}

trans_func ==
  [Q |-> << <<"Q", "P", "Q", "Q", "B", "Q">>,
            <<"P", "P", "B", "B", "B", "P">>,
            <<"Q", "B", "Q", "B", "B", "B">>,
            <<"Q", "B", "B", "Q", "B", "Q">>,
            <<"B", "B", "B", "B", "B", "B">>,
            <<"Q", "P", "Q", "Q", "B", "B">> >>,
   P |-> << <<"Z", "Z", "R", "R", "B", "B">>,
            <<"Z", "B", "Z", "Z", "B", "B">>,
            <<"R", "Z", "Z", "B", "B", "Z">>,
            <<"R", "Z", "B", "Z", "B", "Z">>,
            <<"B", "B", "B", "B", "B", "B">>,
            <<"Z", "B", "Z", "Z", "B", "F">> >>,
   R |-> << <<"B", "B", "R", "P", "Z", "B">>,
            <<"B", "B", "M", "R", "M", "B">>,
            <<"R", "M", "B", "B", "M", "B">>,
            <<"P", "R", "B", "B", "R", "B">>,
            <<"Z", "M", "M", "R", "M", "B">>,
            <<"B", "B", "B", "B", "B", "B">> >>,
   Z |-> << <<"B", "B", "Q", "P", "Q", "B">>,
            <<"B", "Z", "B", "Z", "B", "B">>,
            <<"Q", "B", "Q", "Q", "B", "Q">>,
            <<"P", "Z", "Q", "F", "Q", "F">>,
            <<"Q", "B", "B", "Q", "Q", "Q">>,
            <<"B", "Z", "Q", "F", "Q", "B">> >>,
   M |-> << <<"B", "B", "B", "B", "B", "B">>,
            <<"B", "B", "B", "B", "B", "B">>,
            <<"B", "B", "R", "Z", "B", "B">>,
            <<"B", "B", "Z", "B", "B", "B">>,
            <<"B", "B", "B", "B", "B", "B">>,
            <<"B", "B", "B", "B", "B", "B">> >>]

(* The next state of soldier i in line s.                                  *)
Left(s, i) == IF i = 1 THEN "X" ELSE s[i - 1]
Right(s, i) == IF i = Len(s) THEN "X" ELSE s[i + 1]
TypoQPQ(s, i) == IF <<s[i], Left(s, i), Right(s, i)>> = <<"Q", "P", "Q">> THEN "Z"
                 ELSE trans_func[s[i]][Column[Left(s, i)]][Column[Right(s, i)]]
NextState(s, i) == trans_func[s[i]][Column[Left(s, i)]][Column[Right(s, i)]]

VARIABLE squad

Line(n) == [i \in 1 .. n |-> IF i = 1 THEN "P" ELSE "Q"]
Init == \E n \in 1 .. MaxSoldiers : squad = Line(n)
Advance ==
  /\ \E i \in DOMAIN squad : squad[i] # "F"
  /\ squad' = [i \in DOMAIN squad |-> NextState(squad, i)]
Spec == Init /\ [][Advance]_squad
=============================================================================

---------------------------- MODULE CowInvariant ----------------------------
(***************************************************************************)
(* The inductive invariant of Cow, for any number of processes and pages.  *)
(***************************************************************************)
EXTENDS Cow, FiniteSetTheorems, TLAPS

(* What the code needs of the programs: wait, exec and shrink free pages   *)
(* without a look at the counters, so nobody who uses them may use         *)
(* cow_fork.  Nor may a process that needs more than one page-table page,  *)
(* for cow_shareuvm frees the parent's pages when it fails later than at   *)
(* the first.  (Proc is finite: NPROC.)                                    *)
Disciplined ==
  /\ IsFiniteSet(Proc)
  /\ \A c \in Programs : "cow_fork" \in c => c \cap {"wait", "exec", "shrink", "big"} = {}

-----------------------------------------------------------------------------
(***************************************************************************)
(* The inductive invariant.                                                *)
(***************************************************************************)
(* The page at a of process p is x.                                        *)
Holds(p, a, x) == a \in DOMAIN pt[p] /\ pt[p][a].pa = x

Types ==
  /\ pstate \in [Proc -> {"UNUSED", "RUNNABLE", "ZOMBIE"}] /\ pstate[initproc] = "RUNNABLE"
  /\ pt \in [Proc -> Seq(Pte)]
  /\ \A p \in Proc : Len(pt[p]) <= Limit /\ (pt[p] = <<>> <=> pstate[p] = "UNUSED")
  /\ page_counters \in [Page -> Int] /\ freelist \subseteq Page
  /\ mem \in [Page -> Val \cup {"junk"}] /\ calls \in Programs
(* A process maps a page once.                                             *)
Once == \A p \in Proc : \A a, b, x : Holds(p, a, x) /\ Holds(p, b, x) => a = b
(* The free pages are those that nobody maps and that are not lost.        *)
Nobody(x) == \A r \in Proc : \A c : ~ Holds(r, c, x)
Free == \A x \in Page : x \in freelist <=> Nobody(x) /\ x \notin lost
Lost == \A x \in lost : x \in Page /\ Nobody(x)
(* Nobody else maps what a process can write, even a process that exited.  *)
Alone == \A p, q \in Proc : \A a, b, x : Holds(p, a, x) /\ pt[p][a].W /\ Holds(q, b, x) => q = p
(* Without cow_fork no page is ever made read-only.                        *)
Plain == "cow_fork" \notin calls => \A p \in Proc : \A a \in DOMAIN pt[p] : pt[p][a].W
(* A counter of 0 is the one of the page inituvm made, while init has it.  *)
Count(x) == \/ page_counters[x] = Cardinality(Maps(x))
            \/ page_counters[x] = 0 /\ \E a \in 1 .. MaxSize : Maps(x) = {<<initproc, a>>}
Counted == \A x \in Page \ (freelist \cup lost) : Count(x)
Inv == Types /\ Once /\ Free /\ Lost /\ Alone /\ Plain /\ Counted

-----------------------------------------------------------------------------
(***************************************************************************)
(* How the mappings of a page change, and what that means for its counter. *)
(***************************************************************************)
LEMMA Row == ASSUME NEW S, NEW n \in Nat, NEW row \in [1 .. n -> S]
             PROVE  row \in Seq(S) /\ Len(row) = n
  OBVIOUS

LEMMA Longer ==
  ASSUME NEW S, NEW s \in Seq(S), NEW e \in S
  PROVE  /\ Append(s, e) \in [1 .. Len(s) + 1 -> S] /\ Append(s, e)[Len(s) + 1] = e
         /\ \A c \in DOMAIN s : Append(s, e)[c] = s[c]
<1>1. Append(s, e) \in Seq(S) /\ Len(Append(s, e)) = Len(s) + 1 /\ Len(s) \in Nat
  OBVIOUS
<1>2. Append(s, e) \in [1 .. Len(s) + 1 -> S]
  <2>1. \A t \in Seq(S) : t \in [1 .. Len(t) -> S]
    OBVIOUS
  <2> QED BY <1>1, <2>1, Zenon
<1>3. Append(s, e)[Len(s) + 1] = e
  OBVIOUS
<1>4. \A c \in DOMAIN s : Append(s, e)[c] = s[c]
  OBVIOUS
<1> QED BY <1>2, <1>3, <1>4, Zenon

LEMMA Limits == Limit \in 1 .. MaxSize /\ ("big" \notin calls => Limit <= NPTENTRIES)
  BY CowAssumption DEF Limit

LEMMA SameLimit == calls' = calls => Limit' = Limit
  BY Zenon DEF Limit

LEMMA Cells ==
  ASSUME Types, NEW p \in Proc
  PROVE  /\ Len(pt[p]) \in Nat /\ DOMAIN pt[p] = 1 .. Len(pt[p])
         /\ DOMAIN pt[p] \subseteq 1 .. MaxSize
         /\ pt[p] \in [1 .. Len(pt[p]) -> Pte]
         /\ \A a \in DOMAIN pt[p] : /\ pt[p][a].pa \in Page /\ pt[p][a].W \in BOOLEAN
                                    /\ pt[p][a].SH \in BOOLEAN /\ pt[p][a] \in Pte
<1>1. pt[p] \in Seq(Pte) /\ Len(pt[p]) <= Limit
  BY Zenon DEF Types
<1>2. Len(pt[p]) \in Nat /\ DOMAIN pt[p] = 1 .. Len(pt[p]) /\ DOMAIN pt[p] \subseteq 1 .. MaxSize
  BY <1>1, Limits, CowAssumption
<1>3. pt[p] \in [1 .. Len(pt[p]) -> Pte]
  BY <1>1
<1>4. \A a \in DOMAIN pt[p] : pt[p][a] \in Pte
  BY <1>2, <1>3, Zenon
<1> QED BY <1>2, <1>3, <1>4, Zenon DEF Pte

LEMMA MapsFinite == ASSUME Disciplined, NEW x PROVE IsFiniteSet(Maps(x))
<1>1. IsFiniteSet(1 .. MaxSize)
  BY CowAssumption, FS_Interval
<1>2. IsFiniteSet(Proc \X (1 .. MaxSize))
  BY <1>1, FS_Product, Zenon DEF Disciplined
<1> QED BY <1>2, FS_Subset, Zenon DEF Maps

LEMMA MapsAre ==
  Types => \A x : \A p \in Proc : \A a : <<p, a>> \in Maps(x) <=> Holds(p, a, x)
<1> SUFFICES ASSUME Types, NEW x, NEW p \in Proc, NEW a
             PROVE  <<p, a>> \in Maps(x) <=> Holds(p, a, x)
  BY Zenon
<1> QED BY Cells, Zenon DEF Maps, Holds

LEMMA MapsSame ==
  ASSUME NEW x, \A p \in Proc : \A a : Holds(p, a, x)' <=> Holds(p, a, x)
  PROVE  Maps(x)' = Maps(x)
  BY Zenon DEF Maps, Holds

LEMMA MapsOne ==
  ASSUME NEW x, NEW q \in Proc, NEW b \in 1 .. MaxSize,
         \A p \in Proc : \A a : Holds(p, a, x)' <=> p = q /\ a = b
  PROVE  Maps(x)' = {<<q, b>>}
  BY DEF Maps, Holds

LEMMA MapsMore ==
  ASSUME NEW x, NEW q \in Proc, NEW b \in 1 .. MaxSize,
         \A p \in Proc : \A a : Holds(p, a, x)' <=> Holds(p, a, x) \/ (p = q /\ a = b)
  PROVE  Maps(x)' = Maps(x) \cup {<<q, b>>}
  BY DEF Maps, Holds

LEMMA MapsLess ==
  ASSUME NEW x, NEW q \in Proc, NEW b \in 1 .. MaxSize,
         \A p \in Proc : \A a : Holds(p, a, x)' <=> Holds(p, a, x) /\ ~ (p = q /\ a = b)
  PROVE  Maps(x)' = Maps(x) \ {<<q, b>>}
  BY DEF Maps, Holds

LEMMA CountSame ==
  ASSUME NEW x \in Page, Count(x), page_counters'[x] = page_counters[x],
         \A p \in Proc : \A a : Holds(p, a, x)' <=> Holds(p, a, x)
  PROVE  Count(x)'
  BY MapsSame, Zenon DEF Count

LEMMA CountOne ==
  ASSUME NEW x \in Page, NEW q \in Proc, NEW b \in 1 .. MaxSize, page_counters'[x] = 1,
         \A p \in Proc : \A a : Holds(p, a, x)' <=> p = q /\ a = b
  PROVE  Count(x)'
<1>1. Maps(x)' = {<<q, b>>}
  BY MapsOne, Zenon
<1>2. Cardinality(Maps(x)') = 1
  BY <1>1, FS_Singleton, Zenon
<1> QED BY <1>2, Zenon DEF Count

LEMMA CountMore ==
  ASSUME Disciplined, Types, NEW x \in Page, Count(x),
         page_counters'[x] = inc_counter(page_counters[x]),
         NEW p \in Proc, NEW a, Holds(p, a, x), NEW q \in Proc, NEW b \in 1 .. MaxSize, ~ Holds(q, b, x),
         \A r \in Proc : \A c : Holds(r, c, x)' <=> Holds(r, c, x) \/ (r = q /\ c = b)
  PROVE  Count(x)'
<1>1. Maps(x)' = Maps(x) \cup {<<q, b>>}
  BY MapsMore, Zenon
<1>2. <<q, b>> \notin Maps(x) /\ Maps(x) # {}
  BY MapsAre, Zenon
<1>3. IsFiniteSet(Maps(x))
  BY MapsFinite, Zenon
<1>4. Cardinality(Maps(x)') = Cardinality(Maps(x)) + 1 /\ Cardinality(Maps(x)) \in Nat \ {0}
  <2>1. Cardinality(Maps(x)) \in Nat /\ Cardinality(Maps(x)) # 0
    BY <1>2, <1>3, FS_CardinalityType, FS_EmptySet, Zenon
  <2>2. Cardinality(Maps(x)') = Cardinality(Maps(x)) + 1
    BY <1>1, <1>2, <1>3, FS_AddElement, Zenon
  <2> QED BY <2>1, <2>2, Zenon
<1>5. CASE page_counters[x] = Cardinality(Maps(x))
  BY <1>4, <1>5, Zenon DEF Count, inc_counter
<1>6. CASE page_counters[x] = 0 /\ \E c \in 1 .. MaxSize : Maps(x) = {<<initproc, c>>}
  <2>1. Cardinality(Maps(x)) = 1
    BY <1>6, FS_Singleton, Zenon
  <2> QED BY <1>4, <1>6, <2>1 DEF Count, inc_counter
<1> QED BY <1>5, <1>6, Zenon DEF Count

(* Who maps a page whose counter is more than 1 is not the only one.       *)
LEMMA SomeoneElse ==
  ASSUME Disciplined, Types, NEW x \in Page, Count(x), page_counters[x] > 1,
         NEW q \in Proc, NEW b, Holds(q, b, x)
  PROVE  \E r \in Proc : \E c : ~ (r = q /\ c = b) /\ Holds(r, c, x)
<1>1. page_counters[x] = Cardinality(Maps(x))
  BY DEF Count
<1>2. Maps(x) # {<<q, b>>} /\ <<q, b>> \in Maps(x)
  BY <1>1, MapsAre, FS_Singleton
<1>3. PICK m \in Maps(x) : m # <<q, b>>
  BY <1>2, Zenon
<1>4. m = <<m[1], m[2]>> /\ m[1] \in Proc
  BY <1>3 DEF Maps
<1> QED BY <1>3, <1>4, MapsAre, Zenon

(* Who maps a page whose counter is 0 or 1 is the only one.                *)
LEMMA NobodyElse ==
  ASSUME Disciplined, Types, NEW x \in Page, Count(x), page_counters[x] <= 1,
         NEW q \in Proc, NEW b, Holds(q, b, x)
  PROVE  \A r \in Proc : \A c : Holds(r, c, x) => r = q /\ c = b
<1>1. <<q, b>> \in Maps(x) /\ IsFiniteSet(Maps(x))
  BY MapsAre, MapsFinite, Zenon
<1>2. \E m : Maps(x) = {m}
  <2>1. Cardinality(Maps(x)) \in Nat /\ Cardinality(Maps(x)) # 0
    BY <1>1, FS_CardinalityType, FS_EmptySet, Zenon
  <2>2. CASE page_counters[x] = Cardinality(Maps(x))
    <3>1. Cardinality(Maps(x)) = 1
      BY <2>1, <2>2
    <3> QED BY <1>1, <3>1, FS_Singleton, Zenon
  <2> QED BY <2>2, Zenon DEF Count
<1>3. ASSUME NEW r \in Proc, NEW c, Holds(r, c, x) PROVE <<r, c>> = <<q, b>>
  <2>1. <<r, c>> \in Maps(x)
    BY <1>3, MapsAre, Zenon
  <2>2. PICK m : Maps(x) = {m}
    BY <1>2, Zenon
  <2> QED BY <1>1, <2>1, <2>2, Zenon
<1> QED BY <1>3

Loses(q, b, x) ==
  /\ Count(x) /\ page_counters'[x] = page_counters[x] - 1
  /\ b \in 1 .. MaxSize /\ Holds(q, b, x) /\ (q # initproc \/ page_counters[x] > 1)
  /\ \A r \in Proc : \A c : Holds(r, c, x)' <=> Holds(r, c, x) /\ ~ (r = q /\ c = b)
LEMMA CountLess ==
  ASSUME Disciplined, Types, NEW x \in Page, NEW q \in Proc, NEW b, Loses(q, b, x)
  PROVE  Count(x)' /\ (page_counters'[x] = 0 <=> Nobody(x)')
<1> USE DEF Loses, Nobody
<1>1. Maps(x)' = Maps(x) \ {<<q, b>>}
  BY MapsLess, Zenon
<1>2. <<q, b>> \in Maps(x)
  BY MapsAre, Zenon
<1>3. IsFiniteSet(Maps(x)) /\ IsFiniteSet(Maps(x)')
  BY <1>1, MapsFinite, FS_Subset, Zenon
<1>4. page_counters[x] = Cardinality(Maps(x))
  BY <1>2 DEF Count
<1>5. page_counters'[x] = Cardinality(Maps(x)')
  BY <1>1, <1>2, <1>3, <1>4, FS_RemoveElement, FS_CardinalityType, Zenon
<1>6. page_counters'[x] = 0 <=> Maps(x)' = {}
  BY <1>3, <1>5, FS_EmptySet, Zenon
<1>7. Maps(x)' = {} <=> \A r \in Proc : \A c : ~ Holds(r, c, x)'
  <2>1. ASSUME Maps(x)' = {}, NEW r \in Proc, NEW c, Holds(r, c, x) PROVE r = q /\ c = b
    <3>1. <<r, c>> \in Maps(x)
      BY <2>1, MapsAre, Zenon
    <3> QED BY <1>1, <2>1, <3>1
  <2>2. ASSUME \A r \in Proc : \A c : ~ Holds(r, c, x)' PROVE Maps(x)' = {}
    BY <2>2 DEF Maps, Holds
  <2> QED BY <2>1, <2>2, Zenon
<1> QED BY <1>5, <1>6, <1>7, Zenon DEF Count

-----------------------------------------------------------------------------
(***************************************************************************)
(* The steps.                                                              *)
(***************************************************************************)
LEMMA Mapped ==
  ASSUME Types, Free, Lost, NEW p \in Proc, NEW a, NEW x, Holds(p, a, x)
  PROVE  x \in Page /\ x \notin freelist \cup lost /\ a \in 1 .. MaxSize
  BY Cells, Zenon DEF Holds, Free, Lost, Nobody

(* A lost page stays lost, where new pages come from the free list.        *)
LEMMA LostStep ==
  ASSUME Free, Lost, UNCHANGED lost,
         \A r \in Proc : \A c, x : Holds(r, c, x)' => Holds(r, c, x) \/ x \in freelist
  PROVE  Lost'
  BY Zenon DEF Free, Lost, Nobody

(* A new row for one process.                                              *)
HasRow(p, n, row) ==
  /\ pt' \in [Proc -> Seq(Pte)] /\ pt'[p] = row /\ Len(pt'[p]) = n /\ DOMAIN pt'[p] = 1 .. n
  /\ \A r \in Proc \ {p} : pt'[r] = pt[r]
  /\ row = <<>> <=> n = 0
LEMMA NewRow ==
  ASSUME Types, NEW p \in Proc, NEW n \in 0 .. MaxSize, NEW row \in [1 .. n -> Pte],
         pt' = [pt EXCEPT ![p] = row]
  PROVE  HasRow(p, n, row)
<1>1. n \in Nat
  BY CowAssumption
<1>2. row \in Seq(Pte) /\ Len(row) = n
  BY <1>1, Row, Zenon
<1>3. row = <<>> <=> n = 0
  BY <1>2
<1>4. pt' \in [Proc -> Seq(Pte)] /\ pt'[p] = row /\ \A r \in Proc \ {p} : pt'[r] = pt[r]
  BY <1>2, Zenon DEF Types
<1> QED BY <1>2, <1>3, <1>4, Zenon DEF HasRow

(* Steps that leave every page where it is and every counter as it was.    *)
LEMMA SamePages ==
  ASSUME Types, Free, Lost, Once, Counted, UNCHANGED <<page_counters, freelist, lost>>,
         \A p \in Proc : \A a, x : Holds(p, a, x)' <=> Holds(p, a, x)
  PROVE  Free' /\ Lost' /\ Once' /\ Counted'
<1>1. Free' /\ Lost' /\ Once'
  <2>1. \A x : Nobody(x)' <=> Nobody(x)
    BY Zenon DEF Nobody
  <2>2. Once'
    BY Zenon DEF Once
  <2> QED BY <2>1, <2>2, Zenon DEF Free, Lost
<1>2. ASSUME NEW x \in Page \ (freelist \cup lost) PROVE Count(x)'
  BY <1>2, CountSame, Zenon DEF Counted
<1> QED BY <1>1, <1>2, Zenon DEF Counted

LEMMA FaultCopyStep ==
  ASSUME Disciplined, Inv, NEW p \in Proc, NEW a, NEW new \in Page, FaultCopy(p, a, new),
         UNCHANGED <<calls, lost>>
  PROVE  Inv'
<1> DEFINE pa == pt[p][a].pa
<1> USE DEF Inv, Nobody
<1>1. /\ a \in DOMAIN pt[p] /\ pa \in Page /\ new \in freelist /\ page_counters[pa] > 1
      /\ freelist' = freelist \ {new} /\ mem' = [mem EXCEPT ![new] = mem[pa]]
      /\ page_counters' = [page_counters EXCEPT ![new] = 1, ![pa] = @ - 1]
      /\ pt' = [pt EXCEPT ![p][a] = Fresh(new)] /\ UNCHANGED <<pstate, panic>>
  BY Cells, Zenon DEF FaultCopy, WriteFault, Runs
<1>2. (\A y : Holds(p, a, y) <=> y = pa) /\ pa \notin freelist \cup lost /\ a \in 1 .. MaxSize /\ pa # new
  BY <1>1, Mapped, Zenon DEF Holds
<1> HIDE DEF pa
<1>3. /\ pt' \in [Proc -> Seq(Pte)]
      /\ \A r \in Proc : Len(pt'[r]) = Len(pt[r]) /\ DOMAIN pt'[r] = DOMAIN pt[r]
      /\ pt'[p][a] = Fresh(new)
      /\ \A r \in Proc : \A c \in DOMAIN pt[r] : ~ (r = p /\ c = a) => pt'[r][c] = pt[r][c]
  <2> DEFINE row == [pt[p] EXCEPT ![a] = Fresh(new)]
  <2>1. pt' = [pt EXCEPT ![p] = row]
    BY <1>1, Zenon DEF Types
  <2>2. row \in [1 .. Len(pt[p]) -> Pte] /\ Len(pt[p]) \in 0 .. MaxSize
    <3>1. Fresh(new) \in Pte
      BY Zenon DEF Fresh, Pte
    <3>2. row \in [1 .. Len(pt[p]) -> Pte]
      BY <3>1, Cells, Zenon
    <3>3. Len(pt[p]) \in 0 .. MaxSize
      BY Cells, Limits, CowAssumption DEF Types
    <3> QED BY <3>2, <3>3, Zenon
  <2>3. row[a] = Fresh(new) /\ \A c \in DOMAIN pt[p] : c # a => row[c] = pt[p][c]
    BY <1>1, Cells, Zenon
  <2> HIDE DEF row
  <2>4. /\ pt' \in [Proc -> Seq(Pte)] /\ pt'[p] = row /\ Len(pt'[p]) = Len(pt[p])
        /\ DOMAIN pt'[p] = 1 .. Len(pt[p]) /\ \A r \in Proc \ {p} : pt'[r] = pt[r]
    BY <2>1, <2>2, NewRow, Zenon DEF HasRow
  <2> QED BY <2>3, <2>4, Cells, Zenon
<1>4. /\ \A y : Holds(p, a, y)' <=> y = new
      /\ \A r \in Proc : \A c, y : ~ (r = p /\ c = a) => (Holds(r, c, y)' <=> Holds(r, c, y))
      /\ \A r \in Proc : \A c : ~ Holds(r, c, new)
  <2>1. Fresh(new).pa = new
    BY Zenon DEF Fresh
  <2>2. \A r \in Proc : \A c : ~ Holds(r, c, new)
    BY <1>1, Zenon DEF Free, Nobody
  <2> QED BY <1>1, <1>3, <2>1, <2>2, Zenon DEF Holds
<1>5. Types'
  <2>1. \A r \in Proc : Len(pt'[r]) <= Limit' /\ (pt'[r] = <<>> <=> pstate'[r] = "UNUSED")
    BY <1>1, <1>3, SameLimit, Cells DEF Types
  <2> QED BY <1>1, <1>3, <2>1 DEF Types
<1>6. Once'
  BY <1>4 DEF Once
<1>7. Free'
  <2> SUFFICES ASSUME NEW x \in Page PROVE x \in freelist' <=> Nobody(x)' /\ x \notin lost'
    BY Zenon DEF Free, Nobody
  <2>1. CASE x = new
    BY <1>1, <1>4, <2>1, Zenon
  <2>2. CASE x = pa
    <3>1. \E r \in Proc : \E c : ~ (r = p /\ c = a) /\ Holds(r, c, pa)
      BY <1>1, <1>2, SomeoneElse, Zenon DEF Counted
    <3> QED BY <1>1, <1>2, <1>4, <2>2, <3>1, Zenon
  <2>3. CASE x \notin {new, pa}
    <3>1. \A r \in Proc : \A c : Holds(r, c, x)' <=> Holds(r, c, x)
      BY <1>2, <1>4, <2>3
    <3> QED BY <1>1, <2>3, <3>1, Zenon DEF Free, Nobody
  <2> QED BY <2>1, <2>2, <2>3, Zenon
<1>8. Alone' /\ Plain'
  BY <1>1, <1>3, <1>4 DEF Alone, Plain, Free, Nobody, Holds, Fresh
<1>9. Counted'
  <2> SUFFICES ASSUME NEW x \in Page \ (freelist' \cup lost') PROVE Count(x)'
    BY Zenon DEF Counted
  <2>1. CASE x = new
    <3>1. page_counters'[x] = 1 /\ \A r \in Proc : \A c : Holds(r, c, x)' <=> r = p /\ c = a
      BY <1>1, <1>2, <1>4, <2>1, Zenon DEF Types
    <3> QED BY <1>2, <3>1, CountOne, Zenon
  <2>2. CASE x = pa
    <3>1. /\ page_counters'[x] = page_counters[x] - 1 /\ page_counters[x] > 1 /\ Count(x)
          /\ Holds(p, a, x)
      BY <1>1, <1>2, <2>2, Zenon DEF Types, Counted
    <3>2. \A r \in Proc : \A c : Holds(r, c, x)' <=> Holds(r, c, x) /\ ~ (r = p /\ c = a)
      BY <1>2, <1>4, <2>2, Zenon
    <3>3. Loses(p, a, x)
      BY <1>2, <3>1, <3>2, Zenon DEF Loses
    <3> QED BY <3>3, CountLess, Zenon
  <2>3. CASE x \notin {new, pa}
    <3>1. \A r \in Proc : \A c : Holds(r, c, x)' <=> Holds(r, c, x)
      BY <1>2, <1>4, <2>3
    <3>2. page_counters'[x] = page_counters[x] /\ Count(x)
      BY <1>1, <2>3, Zenon DEF Types, Counted
    <3> QED BY <3>1, <3>2, CountSame, Zenon
  <2> QED BY <2>1, <2>2, <2>3, Zenon
<1>10. Lost'
  BY <1>1, <1>4, LostStep, Zenon
<1> QED BY <1>5, <1>6, <1>7, <1>8, <1>9, <1>10, Zenon

(* Steps that change nothing but flags in one row.                         *)
LEMMA Marked ==
  ASSUME Inv, NEW p \in Proc, NEW row \in [1 .. Len(pt[p]) -> Pte],
         \A c \in DOMAIN pt[p] : row[c].pa = pt[p][c].pa, pt' = [pt EXCEPT ![p] = row],
         UNCHANGED <<pstate, page_counters, freelist, mem, calls, lost>>
  PROVE  /\ Types' /\ Once' /\ Free' /\ Lost' /\ Counted'
         /\ pt'[p] = row /\ \A r \in Proc \ {p} : pt'[r] = pt[r]
         /\ \A r \in Proc : DOMAIN pt'[r] = DOMAIN pt[r] /\ \A c, x : Holds(r, c, x)' <=> Holds(r, c, x)
<1> USE DEF Inv
<1>1. Len(pt[p]) \in 0 .. MaxSize
  BY Cells, Limits, CowAssumption DEF Types
<1>2. /\ pt' \in [Proc -> Seq(Pte)] /\ pt'[p] = row /\ Len(pt'[p]) = Len(pt[p])
      /\ DOMAIN pt'[p] = 1 .. Len(pt[p]) /\ \A r \in Proc \ {p} : pt'[r] = pt[r]
      /\ pt'[p] = <<>> <=> Len(pt[p]) = 0
  BY <1>1, NewRow, Zenon DEF HasRow
<1>3. \A r \in Proc : DOMAIN pt'[r] = DOMAIN pt[r] /\ \A c, x : Holds(r, c, x)' <=> Holds(r, c, x)
  BY <1>2, Cells, Zenon DEF Holds
<1>4. Types'
  <2>1. \A r \in Proc : Len(pt'[r]) <= Limit' /\ (pt'[r] = <<>> <=> pstate'[r] = "UNUSED")
    BY <1>2, SameLimit, Cells DEF Types
  <2> QED BY <1>2, <2>1, Zenon DEF Types
<1> QED BY <1>2, <1>3, <1>4, SamePages, Zenon

LEMMA FaultTakeStep ==
  ASSUME Disciplined, Inv, NEW p \in Proc, NEW a, FaultTake(p, a), UNCHANGED <<calls, lost>>
  PROVE  Inv'
<1> DEFINE pa == pt[p][a].pa
           row == [pt[p] EXCEPT ![a] = Fresh(pa)]
<1> USE DEF Inv
<1>1. /\ a \in DOMAIN pt[p] /\ pa \in Page /\ page_counters[pa] <= 1
      /\ pt' = [pt EXCEPT ![p] = row] /\ UNCHANGED <<pstate, page_counters, freelist, mem, panic>>
  BY Cells, Zenon DEF FaultTake, WriteFault, Runs, Types
<1>2. Fresh(pa) \in Pte /\ Fresh(pa).pa = pa
  BY <1>1, Zenon DEF Fresh, Pte
<1>3. row \in [1 .. Len(pt[p]) -> Pte] /\ \A c \in DOMAIN pt[p] : row[c].pa = pt[p][c].pa
  BY <1>1, <1>2, Cells, Zenon
<1>4. /\ Types' /\ Once' /\ Free' /\ Lost' /\ Counted'
      /\ pt'[p] = row /\ \A r \in Proc \ {p} : pt'[r] = pt[r]
      /\ \A r \in Proc : DOMAIN pt'[r] = DOMAIN pt[r] /\ \A c, x : Holds(r, c, x)' <=> Holds(r, c, x)
  BY <1>1, <1>3, Marked, Zenon
<1>5. \A r \in Proc : \A c : Holds(r, c, pa) => r = p /\ c = a
  <2>1. Holds(p, a, pa)
    BY <1>1, Zenon DEF Holds
  <2>2. Count(pa)
    BY <1>1, <2>1, Mapped, Zenon DEF Counted
  <2> QED BY <1>1, <2>1, <2>2, NobodyElse, Zenon
<1>6. Alone'
  <2>1. \A r \in Proc : \A c, x : Holds(r, c, x) /\ pt'[r][c].W =>
          pt[r][c].W \/ (r = p /\ c = a /\ x = pa)
    <3>1. \A c \in DOMAIN pt[p] : c # a => row[c] = pt[p][c]
      BY <1>1, Cells, Zenon
    <3> HIDE DEF row
    <3> QED BY <1>4, <3>1, Zenon DEF Holds
  <2> QED BY <1>4, <1>5, <2>1 DEF Alone
<1>7. Plain'
  BY <1>1, <1>4, <1>5 DEF Plain, Fresh
<1> QED BY <1>4, <1>6, <1>7, Zenon

(* cow_shareuvm keeps the pages and makes the first k read-only.           *)
LEMMA SharedRow ==
  ASSUME Types, NEW p \in Proc, NEW k
  PROVE  /\ Shared(p, k) \in [1 .. Len(pt[p]) -> Pte]
         /\ \A c \in DOMAIN pt[p] : /\ Shared(p, k)[c].pa = pt[p][c].pa
                                    /\ Shared(p, k)[c].W => pt[p][c].W /\ ~ (c <= k)
<1>1. /\ DOMAIN Shared(p, k) = 1 .. Len(pt[p])
      /\ Shared(p, k) = [c \in 1 .. Len(pt[p]) |-> Shared(p, k)[c]]
  BY Cells, Zenon DEF Shared
<1>2. ASSUME NEW c \in DOMAIN pt[p]
      PROVE  /\ Shared(p, k)[c] \in Pte /\ Shared(p, k)[c].pa = pt[p][c].pa
             /\ Shared(p, k)[c].W => pt[p][c].W /\ ~ (c <= k)
  <2>1. pt[p][c] \in Pte
    BY Cells, Zenon
  <2>2. Shared(p, k)[c] = IF c <= k THEN [pt[p][c] EXCEPT !.SH = TRUE, !.W = FALSE] ELSE pt[p][c]
    BY Zenon DEF Shared
  <2> QED BY <2>1, <2>2, Zenon DEF Pte
<1> QED BY <1>1, <1>2, Cells, Zenon

LEMMA cow_forkFailsStep ==
  ASSUME Disciplined, Inv, NEW p \in Proc, NEW q \in Proc, NEW n \in 0 .. MaxSize - 1,
         cow_forkFails(p, q, n), UNCHANGED <<calls, lost>>
  PROVE  Inv'
<1> USE DEF Inv
<1>1. "cow_fork" \in calls /\ n = 0 /\ Len(pt[p]) > 0
  <2>1. "cow_fork" \in calls /\ n < Len(pt[p]) /\ n % NPTENTRIES = 0
    BY Zenon DEF cow_forkFails, CanFork, NeedsTable
  <2>2. Limit <= NPTENTRIES
    BY <2>1, Limits, Zenon DEF Types, Disciplined
  <2>3. Len(pt[p]) \in Nat /\ Len(pt[p]) <= Limit
    BY Cells, Zenon DEF Types
  <2> QED BY <2>1, <2>2, <2>3, Limits, CowAssumption
<1>2. Pages(SubSeq(pt[p], 1, n)) = {}
  BY <1>1, Cells DEF Pages, Types
<1>3. /\ pt' = [pt EXCEPT ![p] = Shared(p, 1)]
      /\ UNCHANGED <<pstate, page_counters, freelist, mem, panic>>
  BY <1>1, <1>2 DEF cow_forkFails, kfree, Types
<1>4. /\ Shared(p, 1) \in [1 .. Len(pt[p]) -> Pte]
      /\ \A c \in DOMAIN pt[p] : /\ Shared(p, 1)[c].pa = pt[p][c].pa
                                 /\ Shared(p, 1)[c].W => pt[p][c].W
  BY SharedRow, Zenon
<1>5. /\ Types' /\ Once' /\ Free' /\ Lost' /\ Counted'
      /\ pt'[p] = Shared(p, 1) /\ \A r \in Proc \ {p} : pt'[r] = pt[r]
      /\ \A r \in Proc : DOMAIN pt'[r] = DOMAIN pt[r] /\ \A c, x : Holds(r, c, x)' <=> Holds(r, c, x)
  BY <1>3, <1>4, Marked, Zenon
<1>6. Alone'
  <2>1. \A r \in Proc : \A c, x : Holds(r, c, x) /\ pt'[r][c].W => pt[r][c].W
    BY <1>4, <1>5, Zenon DEF Holds
  <2> QED BY <1>5, <2>1 DEF Alone
<1> QED BY <1>1, <1>5, <1>6, Zenon DEF Plain

(* Steps that give one process another row.                                *)
LEMMA NewTypes ==
  ASSUME Types, NEW p \in Proc, NEW n \in 0 .. Limit, NEW row \in [1 .. n -> Pte],
         pt' = [pt EXCEPT ![p] = row],
         pstate' \in [Proc -> {"UNUSED", "RUNNABLE", "ZOMBIE"}], pstate'[initproc] = "RUNNABLE",
         n = 0 <=> pstate'[p] = "UNUSED", \A r \in Proc \ {p} : pstate'[r] = pstate[r],
         page_counters' \in [Page -> Int], freelist' \subseteq Page,
         mem' \in [Page -> Val \cup {"junk"}], UNCHANGED <<calls, lost>>
  PROVE  Types' /\ pt'[p] = row /\ DOMAIN pt'[p] = 1 .. n /\ \A r \in Proc \ {p} : pt'[r] = pt[r]
<1>1. HasRow(p, n, row)
  <2>1. n \in 0 .. MaxSize
    BY Limits, CowAssumption
  <2> QED BY <2>1, NewRow, Zenon
<1>2. n <= Limit' /\ Limit' = Limit
  BY SameLimit, Limits, CowAssumption
<1>3. \A r \in Proc : Len(pt'[r]) <= Limit' /\ (pt'[r] = <<>> <=> pstate'[r] = "UNUSED")
  BY <1>1, <1>2, Zenon DEF Types, HasRow
<1> QED BY <1>1, <1>3, Zenon DEF Types, HasRow

LEMMA GrowStep ==
  ASSUME Disciplined, Inv, NEW p \in Proc, NEW new \in Page, Grow(p, new),
         UNCHANGED <<calls, lost>>
  PROVE  Inv'
<1>0. PICK n : n = Len(pt[p]) + 1
  BY Zenon
<1> DEFINE row == Append(pt[p], Fresh(new))
<1> USE DEF Inv
<1>1. /\ pstate[p] = "RUNNABLE" /\ Len(pt[p]) < Limit /\ new \in freelist
      /\ pt' = [pt EXCEPT ![p] = row] /\ page_counters' = [page_counters EXCEPT ![new] = 1]
      /\ mem' = [mem EXCEPT ![new] = "zero"] /\ freelist' = freelist \ {new}
      /\ UNCHANGED <<pstate, panic>>
  BY Zenon DEF Grow, BelowKernel, Types
<1>2. /\ n \in 1 .. Limit /\ n \in 1 .. MaxSize /\ row \in [1 .. n -> Pte] /\ row[n] = Fresh(new)
      /\ DOMAIN pt[p] = 1 .. n \ {n} /\ \A c \in DOMAIN pt[p] : row[c] = pt[p][c]
  <2>1. Fresh(new) \in Pte
    BY Zenon DEF Fresh, Pte
  <2>2. Len(pt[p]) \in Nat /\ pt[p] \in Seq(Pte) /\ DOMAIN pt[p] = 1 .. Len(pt[p])
    BY Cells, Zenon DEF Types
  <2>3. n \in 1 .. Limit /\ n \in 1 .. MaxSize /\ DOMAIN pt[p] = 1 .. n \ {n}
    BY <1>0, <1>1, <2>2, Limits, CowAssumption
  <2>4. /\ row \in [1 .. n -> Pte] /\ row[n] = Fresh(new)
        /\ \A c \in DOMAIN pt[p] : row[c] = pt[p][c]
    BY <1>0, <2>1, <2>2, Longer
  <2> QED BY <2>3, <2>4, Zenon
<1> HIDE DEF row
<1>3. Types' /\ pt'[p] = row /\ DOMAIN pt'[p] = 1 .. n /\ \A r \in Proc \ {p} : pt'[r] = pt[r]
  <2>1. /\ page_counters' \in [Page -> Int] /\ freelist' \subseteq Page
        /\ mem' \in [Page -> Val \cup {"junk"}]
    BY <1>1 DEF Types, Val
  <2>2. n \in 0 .. Limit /\ n # 0
    BY <1>2, Limits, CowAssumption
  <2> QED BY <1>1, <1>2, <2>1, <2>2, NewTypes, Zenon DEF Types
<1>4. /\ \A r \in Proc : \A c, y : Holds(r, c, y)' <=> Holds(r, c, y) \/ (r = p /\ c = n /\ y = new)
      /\ \A r \in Proc : \A c : ~ Holds(r, c, new)
      /\ \A y : ~ Holds(p, n, y)
  <2>1. Fresh(new).pa = new
    BY Zenon DEF Fresh
  <2>2. \A y : Holds(p, n, y)' <=> y = new
    BY <1>2, <1>3, <2>1, CowAssumption DEF Holds
  <2>3. \A r \in Proc : \A c, y : ~ (r = p /\ c = n) => (Holds(r, c, y)' <=> Holds(r, c, y))
    BY <1>2, <1>3, Zenon DEF Holds
  <2>4. \A y : ~ Holds(p, n, y)
    BY <1>2, Zenon DEF Holds
  <2> QED BY <1>1, <2>2, <2>3, <2>4 DEF Free, Nobody
<1>5. Once'
  BY <1>4 DEF Once
<1>6. Free'
  BY <1>1, <1>4, Zenon DEF Free, Nobody
<1>7. Alone'
  <2>1. \A r \in Proc : \A c, x : Holds(r, c, x) /\ pt'[r][c].W => pt[r][c].W
    BY <1>2, <1>3, Zenon DEF Holds
  <2> QED BY <1>4, <2>1 DEF Alone
<1>8. Plain'
  BY <1>2, <1>3 DEF Plain, Fresh
<1>9. Counted'
  <2> SUFFICES ASSUME NEW x \in Page \ (freelist' \cup lost') PROVE Count(x)'
    BY Zenon DEF Counted
  <2>1. CASE x = new
    <3>1. page_counters'[x] = 1 /\ \A r \in Proc : \A c : Holds(r, c, x)' <=> r = p /\ c = n
      BY <1>1, <1>4, <2>1 DEF Types
    <3> QED BY <1>2, <3>1, CountOne
  <2>2. CASE x # new
    BY <1>1, <1>4, <2>2, CountSame, Zenon DEF Types, Counted
  <2> QED BY <2>1, <2>2, Zenon
<1>10. Lost'
  BY <1>1, <1>4, LostStep, Zenon
<1> QED BY <1>3, <1>5, <1>6, <1>7, <1>8, <1>9, <1>10, Zenon

(* fork gives every page at D a copy of its own.                           *)
Copied(p, q, D, f) ==
  /\ D = DOMAIN pt[p] /\ f \in [D -> freelist] /\ \A a, b \in D : f[a] = f[b] => a = b
  /\ pt' = [pt EXCEPT ![q] = [a \in D |-> [pt[p][a] EXCEPT !.pa = f[a]]]]
  /\ page_counters' = [x \in Page |-> IF x \in Taken(f) THEN 1 ELSE page_counters[x]]
  /\ mem' = [x \in Page |-> IF x \in Taken(f) THEN mem[pt[p][Place(f, x)].pa] ELSE mem[x]]
  /\ freelist' = freelist \ Taken(f)
LEMMA Copies == ASSUME NEW p, NEW q, fork(p, q) PROVE \E D, f : Copied(p, q, D, f)
<1>1. PICK f \in [DOMAIN pt[p] -> freelist] :
        /\ \A a, b \in DOMAIN f : f[a] = f[b] => a = b
        /\ pt' = [pt EXCEPT ![q] = [a \in DOMAIN pt[p] |-> [pt[p][a] EXCEPT !.pa = f[a]]]]
        /\ page_counters' = [x \in Page |-> IF x \in Taken(f) THEN 1 ELSE page_counters[x]]
        /\ mem' = [x \in Page |-> IF x \in Taken(f) THEN mem[pt[p][Place(f, x)].pa] ELSE mem[x]]
        /\ freelist' = freelist \ Taken(f)
  BY Zenon DEF fork, Distinct, CountOnce
<1>2. DOMAIN f = DOMAIN pt[p]
  BY Zenon
<1>3. Copied(p, q, DOMAIN pt[p], f)
  BY <1>1, <1>2, Zenon DEF Copied
<1> QED BY <1>3, Zenon

(* What a table takes, and where it puts it.                               *)
LEMMA Takes ==
  ASSUME NEW D, NEW S, NEW f \in [D -> S], \A a, b \in D : f[a] = f[b] => a = b
  PROVE  /\ Taken(f) \subseteq S /\ \A x : x \in Taken(f) <=> \E a \in D : f[a] = x
         /\ \A x \in Taken(f) : Place(f, x) \in D /\ f[Place(f, x)] = x
         /\ \A a \in D : f[a] \in Taken(f) /\ Place(f, f[a]) = a
<1>1. DOMAIN f = D
  BY Zenon
<1>2. Taken(f) \subseteq S /\ \A x : x \in Taken(f) <=> \E a \in D : f[a] = x
  <2>1. \A x : x \in Taken(f) <=> \E a \in D : f[a] = x
    BY <1>1, Zenon DEF Taken
  <2>2. \A a \in D : f[a] \in S
    BY Zenon
  <2> QED BY <2>1, <2>2
<1>3. \A x \in Taken(f) : Place(f, x) \in D /\ f[Place(f, x)] = x
  BY <1>1, <1>2, Zenon DEF Place
<1> QED BY <1>2, <1>3, Zenon

LEMMA forkStep ==
  ASSUME Disciplined, Inv, NEW p \in Proc, NEW q \in Proc, fork(p, q), UNCHANGED <<calls, lost>>
  PROVE  Inv'
<1> USE DEF Inv, Nobody
<1>0. PICK D, f : Copied(p, q, D, f)
  BY Copies, Zenon
<1>00. /\ Taken(f) \subseteq freelist /\ \A x : x \in Taken(f) <=> \E a \in D : f[a] = x
       /\ \A x \in Taken(f) : Place(f, x) \in D
  <2>1. f \in [D -> freelist] /\ \A a, b \in D : f[a] = f[b] => a = b
    BY <1>0, Zenon DEF Copied
  <2> QED BY <2>1, Takes
<1> USE DEF Copied
<1>1. /\ pstate[p] = "RUNNABLE" /\ pstate[q] = "UNUSED" /\ p # q
      /\ pstate' = [pstate EXCEPT ![q] = "RUNNABLE"] /\ UNCHANGED panic
  BY Zenon DEF fork, CanFork
<1> DEFINE row == [a \in D |-> [pt[p][a] EXCEPT !.pa = f[a]]]
<1>2. row \in [1 .. Len(pt[p]) -> Pte] /\ \A a \in D : row[a].pa = f[a] /\ row[a].W = pt[p][a].W
  <2>1. ASSUME NEW a \in D PROVE row[a] \in Pte /\ row[a].pa = f[a] /\ row[a].W = pt[p][a].W
    <3>1. pt[p][a] \in Pte /\ f[a] \in Page
      BY <1>0, Cells, Zenon DEF Types
    <3>2. row[a] = [pt[p][a] EXCEPT !.pa = f[a]]
      BY Zenon
    <3> QED BY <3>1, <3>2, Zenon DEF Pte
  <2>2. D = 1 .. Len(pt[p])
    BY <1>0, Cells, Zenon
  <2> QED BY <2>1, <2>2, Zenon
<1>3. pt' = [pt EXCEPT ![q] = row]
  BY <1>0, Zenon
<1> HIDE DEF row
<1>4. Types' /\ pt'[q] = row /\ DOMAIN pt'[q] = D /\ \A r \in Proc \ {q} : pt'[r] = pt[r]
  <2>1. page_counters' \in [Page -> Int]
    BY <1>0 DEF Types
  <2>2. freelist' \subseteq Page
    BY <1>0, Zenon DEF Types
  <2>3. mem' \in [Page -> Val \cup {"junk"}]
    <3>1. \A x \in Page : mem'[x] \in Val \cup {"junk"}
      <4> SUFFICES ASSUME NEW x \in Page, x \in Taken(f)
                   PROVE  mem[pt[p][Place(f, x)].pa] \in Val \cup {"junk"}
        BY <1>0, Zenon DEF Types
      <4> QED BY <1>0, <1>00, Cells, Zenon DEF Types
    <3> QED BY <1>0, <3>1, Zenon
  <2>4. Len(pt[p]) \in 0 .. Limit /\ Len(pt[p]) # 0 /\ D = 1 .. Len(pt[p])
    BY <1>0, <1>1, Cells, Limits, CowAssumption DEF Types
  <2>5. /\ pstate' \in [Proc -> {"UNUSED", "RUNNABLE", "ZOMBIE"}]
        /\ pstate'[initproc] = "RUNNABLE"
        /\ pstate'[q] = "RUNNABLE" /\ \A r \in Proc \ {q} : pstate'[r] = pstate[r]
    BY <1>1, CowAssumption, Zenon DEF Types
  <2>6. Len(pt[p]) = 0 <=> pstate'[q] = "UNUSED"
    BY <2>4, <2>5, Zenon
  <2>7. Types' /\ pt'[q] = row /\ DOMAIN pt'[q] = 1 .. Len(pt[p]) /\ \A r \in Proc \ {q} : pt'[r] = pt[r]
    BY <1>2, <1>3, <2>1, <2>2, <2>3, <2>4, <2>5, <2>6, NewTypes, Zenon
  <2> QED BY <2>4, <2>7, Zenon
<1>5. /\ \A c, y : Holds(q, c, y)' <=> c \in D /\ f[c] = y
      /\ \A c, y : ~ Holds(q, c, y)
      /\ \A r \in Proc \ {q} : \A c, y : Holds(r, c, y)' <=> Holds(r, c, y)
      /\ \A r \in Proc : \A c : \A a \in D : ~ Holds(r, c, f[a])
  <2>1. \A c, y : Holds(q, c, y)' <=> c \in D /\ f[c] = y
    BY <1>2, <1>4, Zenon DEF Holds
  <2>2. \A c, y : ~ Holds(q, c, y)
    BY <1>1 DEF Holds, Types
  <2>3. \A r \in Proc \ {q} : \A c, y : Holds(r, c, y)' <=> Holds(r, c, y)
    BY <1>4, Zenon DEF Holds
  <2>4. \A a \in D : f[a] \in freelist /\ f[a] \in Page
    BY <1>0, Zenon DEF Types
  <2> QED BY <2>1, <2>2, <2>3, <2>4, Zenon DEF Free, Nobody
<1>6. Once'
  BY <1>0, <1>5 DEF Once
<1>7. Free'
  <2> SUFFICES ASSUME NEW x \in Page PROVE x \in freelist' <=> Nobody(x)' /\ x \notin lost'
    BY Zenon DEF Free, Nobody
  <2>1. (\A r \in Proc : \A c : ~ Holds(r, c, x)') <=>
        (\A r \in Proc : \A c : ~ Holds(r, c, x)) /\ \A a \in D : f[a] # x
    BY <1>5
  <2> QED BY <1>0, <1>00, <2>1, Zenon DEF Free
<1>8. Alone' /\ Plain'
  <2>1. \A r \in Proc \ {q} : \A c : pt'[r][c] = pt[r][c]
    BY <1>4, Zenon
  <2>2. Alone'
    BY <1>5, <2>1 DEF Alone
  <2>3. Plain'
    BY <1>0, <1>2, <1>4 DEF Plain
  <2> QED BY <2>2, <2>3, Zenon
<1>9. Counted'
  <2> SUFFICES ASSUME NEW x \in Page \ (freelist' \cup lost') PROVE Count(x)'
    BY Zenon DEF Counted
  <2>1. ASSUME NEW b \in D, f[b] = x PROVE Count(x)'
    <3>1. page_counters'[x] = 1 /\ \A r \in Proc : \A c : Holds(r, c, x)' <=> r = q /\ c = b
      <4>1. \A r \in Proc : \A c : Holds(r, c, x)' <=> r = q /\ c = b
        <5>1. \A c \in D : f[c] = x <=> c = b
          BY <1>0, <2>1, Zenon
        <5>2. \A r \in Proc : \A c : ~ Holds(r, c, x)
          BY <1>5, <2>1, Zenon
        <5> QED BY <1>5, <5>1, <5>2
      <4> QED BY <1>0, <1>00, <2>1, <4>1, Zenon
    <3>2. b \in 1 .. MaxSize
      BY <1>0, Cells, Zenon
    <3> QED BY <3>1, <3>2, CountOne, Zenon
  <2>2. CASE \A b \in D : f[b] # x
    <3>1. \A r \in Proc : \A c : Holds(r, c, x)' <=> Holds(r, c, x)
      BY <1>5, <2>2
    <3>2. page_counters'[x] = page_counters[x] /\ x \in Page \ (freelist \cup lost)
      BY <1>0, <1>00, <2>2, Zenon
    <3> QED BY <3>1, <3>2, CountSame, Zenon DEF Counted
  <2> QED BY <2>1, <2>2, Zenon
<1>10. Lost'
  <2>1. \A r \in Proc : \A c, x : Holds(r, c, x)' => Holds(r, c, x) \/ x \in freelist
    <3>1. \A c \in D : f[c] \in freelist
      BY <1>0, Zenon
    <3>2. \A c, x : Holds(q, c, x)' => x \in freelist
      BY <1>5, <3>1
    <3>3. \A r \in Proc : r \in Proc \ {q} \/ r = q
      BY Zenon
    <3> QED BY <1>5, <3>2, <3>3
  <2> QED BY <2>1, LostStep, Zenon
<1> QED BY <1>4, <1>6, <1>7, <1>8, <1>9, <1>10, Zenon

LEMMA cow_forkStep ==
  ASSUME Disciplined, Inv, NEW p \in Proc, NEW q \in Proc, cow_fork(p, q),
         UNCHANGED <<calls, lost>>
  PROVE  Inv'
<1> DEFINE row == Shared(p, Len(pt[p]))
<1> USE DEF Inv
<1>1. /\ "cow_fork" \in calls /\ pstate[p] = "RUNNABLE" /\ pstate[q] = "UNUSED" /\ p # q
      /\ pt' = [pt EXCEPT ![p] = row, ![q] = row] /\ pstate' = [pstate EXCEPT ![q] = "RUNNABLE"]
      /\ page_counters' = [x \in Page |-> IF x \in Pages(row) THEN inc_counter(page_counters[x])
                                          ELSE page_counters[x]]
      /\ UNCHANGED <<freelist, mem, panic>>
  BY Zenon DEF cow_fork, CanFork
<1>2. /\ row \in [1 .. Len(pt[p]) -> Pte] /\ DOMAIN row = DOMAIN pt[p] /\ Len(pt[p]) \in Nat \ {0}
      /\ \A c \in DOMAIN pt[p] : row[c].pa = pt[p][c].pa /\ ~ row[c].W
  <2>1. Len(pt[p]) \in Nat \ {0} /\ DOMAIN pt[p] = 1 .. Len(pt[p])
    BY <1>1, Cells DEF Types
  <2>2. /\ row \in [1 .. Len(pt[p]) -> Pte]
        /\ \A c \in DOMAIN pt[p] : row[c].pa = pt[p][c].pa /\ (row[c].W => ~ (c <= Len(pt[p])))
    BY SharedRow, Zenon
  <2> QED BY <2>1, <2>2
<1> HIDE DEF row
<1>3. /\ pt'[p] = row /\ pt'[q] = row /\ \A r \in Proc \ {p, q} : pt'[r] = pt[r]
      /\ row \in Seq(Pte) /\ Len(row) = Len(pt[p]) /\ row # <<>>
  <2>1. row \in Seq(Pte) /\ Len(row) = Len(pt[p]) /\ row # <<>>
    BY <1>2, Row
  <2> QED BY <1>1, <2>1, Zenon DEF Types
<1>4. Types'
  <2>1. pt' \in [Proc -> Seq(Pte)]
    BY <1>1, <1>3, Zenon DEF Types
  <2>2. \A r \in Proc : Len(pt'[r]) <= Limit' /\ (pt'[r] = <<>> <=> pstate'[r] = "UNUSED")
    BY <1>1, <1>3, SameLimit, Zenon DEF Types
  <2>3. page_counters' \in [Page -> Int]
    BY <1>1 DEF Types, inc_counter
  <2>4. pstate' \in [Proc -> {"UNUSED", "RUNNABLE", "ZOMBIE"}] /\ pstate'[initproc] = "RUNNABLE"
    BY <1>1, CowAssumption, Zenon DEF Types
  <2> QED BY <1>1, <2>1, <2>2, <2>3, <2>4, Zenon DEF Types
<1>5. /\ \A c, y : Holds(q, c, y)' <=> Holds(p, c, y)
      /\ \A c, y : ~ Holds(q, c, y)
      /\ \A r \in Proc \ {q} : \A c, y : Holds(r, c, y)' <=> Holds(r, c, y)
  <2>1. \A c, y : ~ Holds(q, c, y)
    BY <1>1 DEF Holds, Types
  <2> QED BY <1>2, <1>3, <2>1, Zenon DEF Holds
<1>6. Once' /\ Free'
  <2>1. Once'
    BY <1>5 DEF Once
  <2>2. \A x : (\A r \in Proc : \A c : ~ Holds(r, c, x)') <=> (\A r \in Proc : \A c : ~ Holds(r, c, x))
    BY <1>5, Zenon
  <2> QED BY <1>1, <2>1, <2>2, Zenon DEF Free, Nobody
<1>7. Alone'
  <2>1. ASSUME NEW r \in Proc, NEW c, NEW x, Holds(r, c, x)', pt'[r][c].W
        PROVE  r \notin {p, q} /\ Holds(r, c, x) /\ pt[r][c].W
    BY <1>1, <1>2, <1>3, <1>5, <2>1 DEF Holds
  <2> QED BY <1>5, <2>1 DEF Alone
<1>8. Counted'
  <2> SUFFICES ASSUME NEW x \in Page \ (freelist' \cup lost') PROVE Count(x)'
    BY Zenon DEF Counted
  <2>0. x \in Pages(row) <=> \E b : Holds(p, b, x)
    BY <1>2, Zenon DEF Pages, Holds
  <2>1. ASSUME NEW b, Holds(p, b, x) PROVE Count(x)'
    <3>1. page_counters'[x] = inc_counter(page_counters[x]) /\ Count(x)
      BY <1>1, <2>0, <2>1, Zenon DEF Counted
    <3>2. \A r \in Proc : \A c : Holds(r, c, x)' <=> Holds(r, c, x) \/ (r = q /\ c = b)
      BY <1>5, <2>1 DEF Once
    <3>3. b \in 1 .. MaxSize /\ ~ Holds(q, b, x)
      BY <1>5, <2>1, Mapped, Zenon
    <3> QED BY <2>1, <3>1, <3>2, <3>3, CountMore, Zenon
  <2>2. CASE \A b : ~ Holds(p, b, x)
    <3>1. \A r \in Proc : \A c : Holds(r, c, x)' <=> Holds(r, c, x)
      BY <1>5, <2>2, Zenon
    <3>2. page_counters'[x] = page_counters[x] /\ Count(x)
      BY <1>1, <2>0, <2>2, Zenon DEF Counted
    <3> QED BY <3>1, <3>2, CountSame, Zenon
  <2> QED BY <2>1, <2>2, Zenon
<1>9. Lost'
  <2>1. \A x : Nobody(x) => Nobody(x)'
    BY <1>5 DEF Nobody
  <2> QED BY <2>1, Zenon DEF Lost
<1> QED BY <1>1, <1>4, <1>6, <1>7, <1>8, <1>9, Zenon DEF Plain

(* Without cow_fork every page has one place.                              *)
LEMMA Solitary ==
  ASSUME Inv, "cow_fork" \notin calls
  PROVE  \A p, q \in Proc : \A a, b, x : Holds(p, a, x) /\ Holds(q, b, x) => q = p /\ b = a
  BY Zenon DEF Inv, Plain, Alone, Once, Holds

(* A process gives up some of its pages, and those are freed that nobody   *)
(* else has.                                                               *)
GivesUp(p, S) ==
  /\ S \subseteq Page \ lost /\ freelist' = freelist \cup S
  /\ \A r \in Proc \ {p} : pt'[r] = pt[r]
  /\ \A c \in DOMAIN pt'[p] : c \in DOMAIN pt[p] /\ pt'[p][c] = pt[p][c]
  /\ \A x \in S : \A r \in Proc : \A c : ~ Holds(r, c, x)'
  /\ \A x \in Page \ S : \A c : Holds(p, c, x) /\ ~ Holds(p, c, x)' =>
       \E r \in Proc \ {p} : \E b : Holds(r, b, x)
  /\ \A x \in Page \ (freelist \cup lost \cup S) : Count(x)'

LEMMA GivesUpStep ==
  ASSUME Disciplined, Inv, Types', NEW p \in Proc, NEW S, GivesUp(p, S), UNCHANGED <<calls, lost>>
  PROVE  Inv'
<1> USE DEF Inv, Nobody, GivesUp
<1>0. \A r \in Proc : \A c, y : Holds(r, c, y)' => Holds(r, c, y)
  BY Zenon DEF Holds
<1>1. Once'
  BY <1>0 DEF Once
<1>2. \A r \in Proc \ {p} : \A c, y : Holds(r, c, y)' <=> Holds(r, c, y)
  BY Zenon DEF Holds
<1>3. Free'
  <2> SUFFICES ASSUME NEW x \in Page PROVE x \in freelist' <=> Nobody(x)' /\ x \notin lost'
    BY Zenon DEF Free, Nobody
  <2>1. CASE x \in S
    BY <2>1, Zenon
  <2>2. CASE x \notin S
    <3>1. (\A r \in Proc : \A c : ~ Holds(r, c, x)') => \A r \in Proc : \A c : ~ Holds(r, c, x)
      BY <1>2, <2>2
    <3> QED BY <1>0, <2>2, <3>1, Zenon DEF Free, Nobody
  <2> QED BY <2>1, <2>2, Zenon
<1>4. Alone'
  <2>1. \A r \in Proc : \A c, x : Holds(r, c, x)' /\ pt'[r][c].W => pt[r][c].W
    BY Zenon DEF Holds
  <2> QED BY <1>0, <2>1 DEF Alone
<1>5. Plain'
  BY Zenon DEF Plain
<1>6. Counted'
  BY Zenon DEF Counted
<1>7. Lost'
  BY <1>0, LostStep, Zenon
<1> QED BY <1>1, <1>3, <1>4, <1>5, <1>6, <1>7, Zenon

LEMMA ShrinkStep ==
  ASSUME Disciplined, Inv, NEW p \in Proc, Shrink(p), UNCHANGED <<calls, lost>>
  PROVE  Inv'
<1> USE DEF Inv
<1>0. PICK n, x : n = Len(pt[p]) /\ x = pt[p][n].pa
  BY Zenon
<1> DEFINE row == SubSeq(pt[p], 1, n - 1)
<1>1. /\ "cow_fork" \notin calls /\ pstate[p] = "RUNNABLE" /\ n > 1
      /\ pt' = [pt EXCEPT ![p] = row] /\ freelist' = freelist \cup {x}
      /\ mem' = [y \in Page |-> IF y \in {x} THEN "junk" ELSE mem[y]]
      /\ UNCHANGED <<pstate, page_counters, panic>>
  BY <1>0, Zenon DEF Shrink, kfree, Types, Disciplined
<1>2. /\ n - 1 \in 0 .. Limit /\ n - 1 # 0 /\ n \in DOMAIN pt[p]
      /\ row \in [1 .. n - 1 -> Pte] /\ DOMAIN pt[p] = 1 .. n
      /\ \A c \in 1 .. n - 1 : c \in DOMAIN pt[p] /\ c # n /\ row[c] = pt[p][c]
  <2>1. pt[p] \in Seq(Pte) /\ n \in Nat /\ n <= Limit /\ DOMAIN pt[p] = 1 .. n
    BY <1>0, Cells, Zenon DEF Types
  <2>2. n - 1 \in 0 .. Limit /\ n - 1 # 0 /\ n \in DOMAIN pt[p]
    BY <1>1, <2>1, Limits, CowAssumption
  <2>3. row \in Seq(Pte) /\ Len(row) = n - 1 /\ \A c \in 1 .. n - 1 : row[c] = pt[p][c]
    BY <1>0, <2>1, <2>2
  <2>4. \A t \in Seq(Pte) : t \in [1 .. Len(t) -> Pte]
    OBVIOUS
  <2>5. row \in [1 .. n - 1 -> Pte]
    BY <2>3, <2>4, Zenon
  <2>6. \A c \in 1 .. n - 1 : c \in DOMAIN pt[p] /\ c # n
    BY <2>1
  <2> QED BY <2>1, <2>2, <2>3, <2>5, <2>6, Zenon
<1> HIDE DEF row
<1>3. Holds(p, n, x) /\ x \in Page \ lost
  <2>1. Holds(p, n, x)
    BY <1>0, <1>2, Zenon DEF Holds
  <2> QED BY <2>1, Mapped, Zenon
<1>4. Types' /\ pt'[p] = row /\ DOMAIN pt'[p] = 1 .. n - 1 /\ \A r \in Proc \ {p} : pt'[r] = pt[r]
  <2>1. /\ page_counters' \in [Page -> Int] /\ freelist' \subseteq Page
        /\ mem' \in [Page -> Val \cup {"junk"}]
    BY <1>1, <1>3, Zenon DEF Types
  <2> QED BY <1>1, <1>2, <2>1, NewTypes, Zenon DEF Types
<1>5. \A r \in Proc : \A c, y : Holds(r, c, y)' <=> Holds(r, c, y) /\ ~ (r = p /\ c = n)
  BY <1>2, <1>4 DEF Holds
<1>6. \A r \in Proc : \A c : Holds(r, c, x) <=> r = p /\ c = n
  BY <1>1, <1>3, Solitary, Zenon
<1>7. \A y : Holds(p, n, y) => y = x
  BY <1>3, Zenon DEF Holds
<1>8. ASSUME NEW y \in Page \ (freelist \cup lost \cup {x}) PROVE Count(y)'
  BY <1>1, <1>5, <1>7, <1>8, CountSame, Zenon DEF Counted
<1>9. GivesUp(p, {x})
  <2>1. \A z \in Page \ {x} : \A c : Holds(p, c, z) => Holds(p, c, z)'
    BY <1>5, <1>7, Zenon
  <2>2. /\ {x} \subseteq Page \ lost /\ freelist' = freelist \cup {x}
        /\ \A r \in Proc \ {p} : pt'[r] = pt[r]
    BY <1>1, <1>3, <1>4, Zenon
  <2>3. \A c \in DOMAIN pt'[p] : c \in DOMAIN pt[p] /\ pt'[p][c] = pt[p][c]
    BY <1>2, <1>4, Zenon
  <2>4. \A z \in {x} : \A r \in Proc : \A c : ~ Holds(r, c, z)'
    BY <1>5, <1>6, Zenon
  <2> QED BY <1>8, <2>1, <2>2, <2>3, <2>4, Zenon DEF GivesUp
<1> QED BY <1>4, <1>9, GivesUpStep, Zenon

LEMMA OldPages ==
  ASSUME Types, Free, Lost, NEW p \in Proc
  PROVE  Pages(pt[p]) \subseteq Page \ lost /\ \A x : x \in Pages(pt[p]) <=> \E c : Holds(p, c, x)
<1>1. \A x : x \in Pages(pt[p]) <=> \E c : Holds(p, c, x)
  BY Zenon DEF Pages, Holds
<1> QED BY <1>1, Mapped, Zenon

(* wait and cow_wait take away the whole row.                              *)
LEMMA Reap ==
  ASSUME Inv, NEW p \in Proc, Reaped(p), page_counters' \in [Page -> Int],
         freelist' \subseteq Page,
         mem' \in [Page -> Val \cup {"junk"}], UNCHANGED <<calls, lost>>
  PROVE  /\ Types' /\ p # initproc /\ DOMAIN pt'[p] = {} /\ \A r \in Proc \ {p} : pt'[r] = pt[r]
         /\ \A r \in Proc : \A c, y : Holds(r, c, y)' <=> r # p /\ Holds(r, c, y)
<1> USE DEF Inv
<1>1. /\ pstate[p] = "ZOMBIE" /\ p # initproc
      /\ pstate' = [pstate EXCEPT ![p] = "UNUSED"] /\ pt' = [pt EXCEPT ![p] = <<>>]
  BY Zenon DEF Reaped, Types
<1>2. /\ pstate' \in [Proc -> {"UNUSED", "RUNNABLE", "ZOMBIE"}] /\ pstate'[initproc] = "RUNNABLE"
      /\ pstate'[p] = "UNUSED" /\ \A r \in Proc \ {p} : pstate'[r] = pstate[r]
  BY <1>1, CowAssumption, Zenon DEF Types
<1>3. 0 \in 0 .. Limit /\ <<>> \in [1 .. 0 -> Pte] /\ 1 .. 0 = {}
  BY Limits, CowAssumption
<1>4. Types' /\ DOMAIN pt'[p] = 1 .. 0 /\ \A r \in Proc \ {p} : pt'[r] = pt[r]
  BY <1>1, <1>2, <1>3, NewTypes, Zenon
<1> QED BY <1>1, <1>3, <1>4, Zenon DEF Holds

LEMMA waitStep ==
  ASSUME Disciplined, Inv, NEW p \in Proc, wait(p), UNCHANGED <<calls, lost>>
  PROVE  Inv'
<1> USE DEF Inv
<1>0. PICK S : S = Pages(pt[p])
  BY Zenon
<1>1. /\ "cow_fork" \notin calls /\ Reaped(p) /\ freelist' = freelist \cup S
      /\ mem' = [x \in Page |-> IF x \in S THEN "junk" ELSE mem[x]] /\ UNCHANGED page_counters
  BY <1>0, Zenon DEF wait, freevm, kfree, Types, Disciplined
<1>2. S \subseteq Page \ lost /\ \A x : x \in S <=> \E c : Holds(p, c, x)
  BY <1>0, OldPages, Zenon
<1>3. /\ Types' /\ p # initproc /\ DOMAIN pt'[p] = {} /\ \A r \in Proc \ {p} : pt'[r] = pt[r]
      /\ \A r \in Proc : \A c, y : Holds(r, c, y)' <=> r # p /\ Holds(r, c, y)
  <2>1. /\ page_counters' \in [Page -> Int] /\ freelist' \subseteq Page
        /\ mem' \in [Page -> Val \cup {"junk"}]
    BY <1>1, <1>2, Zenon DEF Types
  <2> QED BY <1>1, <2>1, Reap, Zenon
<1>4. \A x \in S : \A r \in Proc : \A c : ~ Holds(r, c, x)'
  <2> SUFFICES ASSUME NEW x \in S, NEW r \in Proc, NEW c, Holds(r, c, x)' PROVE FALSE
    BY Zenon
  <2>1. PICK b : Holds(p, b, x)
    BY <1>2, Zenon
  <2>2. r # p /\ Holds(r, c, x)
    BY <1>3, Zenon
  <2>3. r = p
    BY <1>1, <2>1, <2>2, Solitary, Zenon
  <2> QED BY <2>2, <2>3, Zenon
<1>5. ASSUME NEW x \in Page \ (freelist \cup lost \cup S) PROVE Count(x)'
  <2>1. Count(x) /\ page_counters'[x] = page_counters[x]
    BY <1>1, <1>5, Zenon DEF Counted
  <2>2. \A r \in Proc : \A c : Holds(r, c, x)' <=> Holds(r, c, x)
    BY <1>2, <1>3, <1>5, Zenon
  <2> QED BY <2>1, <2>2, CountSame, Zenon
<1>6. GivesUp(p, S)
  BY <1>1, <1>2, <1>3, <1>4, <1>5, Zenon DEF GivesUp
<1> QED BY <1>3, <1>6, GivesUpStep, Zenon

LEMMA cow_waitStep ==
  ASSUME Disciplined, Inv, NEW p \in Proc, cow_wait(p), UNCHANGED <<calls, lost>>
  PROVE  Inv'
<1> USE DEF Inv
<1>0. PICK S : S = {x \in Pages(pt[p]) : page_counters'[x] = 0}
  BY Zenon
<1>1. Pages(pt[p]) \subseteq Page \ lost /\ \A x : x \in Pages(pt[p]) <=> \E c : Holds(p, c, x)
  BY OldPages, Zenon
<1>2. /\ Reaped(p) /\ freelist' = freelist \cup S
      /\ page_counters' = [x \in Page |-> IF x \in Pages(pt[p]) THEN page_counters[x] - 1 ELSE page_counters[x]]
      /\ mem' = [x \in Page |-> IF x \in S THEN "junk" ELSE mem[x]]
  BY <1>0, Zenon DEF cow_wait, cow_freevm, kfree
<1>3. /\ Types' /\ p # initproc /\ DOMAIN pt'[p] = {} /\ \A r \in Proc \ {p} : pt'[r] = pt[r]
      /\ \A r \in Proc : \A c, y : Holds(r, c, y)' <=> r # p /\ Holds(r, c, y)
  <2>1. page_counters' \in [Page -> Int]
    BY <1>2 DEF Types
  <2>2. freelist' \subseteq Page
    BY <1>0, <1>1, <1>2, Zenon DEF Types
  <2>3. mem' \in [Page -> Val \cup {"junk"}]
    BY <1>2, Zenon DEF Types
  <2> QED BY <1>2, <2>1, <2>2, <2>3, Reap, Zenon
<1>4. ASSUME NEW x \in Pages(pt[p])
      PROVE  Count(x)' /\ (page_counters'[x] = 0 <=> Nobody(x)')
  <2>1. PICK b : Holds(p, b, x)
    BY <1>1, <1>4, Zenon
  <2>2. x \in Page /\ Count(x) /\ b \in 1 .. MaxSize
    BY <2>1, Mapped, Zenon DEF Counted
  <2>3. page_counters'[x] = page_counters[x] - 1
    BY <1>2, <1>4, <2>2, Zenon
  <2>4. \A r \in Proc : \A c : Holds(r, c, x)' <=> Holds(r, c, x) /\ ~ (r = p /\ c = b)
    <3>1. \A c : Holds(p, c, x) <=> c = b
      BY <2>1, Zenon DEF Once
    <3> QED BY <1>3, <3>1, Zenon
  <2>5. p # initproc \/ page_counters[x] > 1
    BY <1>3, Zenon
  <2>6. Loses(p, b, x)
    BY <2>1, <2>2, <2>3, <2>4, <2>5, Zenon DEF Loses
  <2> QED BY <2>2, <2>6, CountLess, Zenon
<1>5. ASSUME NEW x \in Page \ (freelist \cup lost \cup S) PROVE Count(x)'
  <2>1. CASE x \in Pages(pt[p])
    BY <1>4, <2>1, Zenon
  <2>2. CASE x \notin Pages(pt[p])
    <3>1. Count(x) /\ page_counters'[x] = page_counters[x]
      BY <1>2, <1>5, <2>2, Zenon DEF Counted
    <3>2. \A r \in Proc : \A c : Holds(r, c, x)' <=> Holds(r, c, x)
      BY <1>1, <1>3, <2>2, Zenon
    <3> QED BY <3>1, <3>2, CountSame, Zenon
  <2> QED BY <2>1, <2>2, Zenon
<1>6. GivesUp(p, S)
  <2>1. S \subseteq Page \ lost
    BY <1>0, <1>1, Zenon
  <2>2. \A x \in S : \A r \in Proc : \A c : ~ Holds(r, c, x)'
    BY <1>0, <1>4, Zenon DEF Nobody
  <2>3. ASSUME NEW x \in Page \ S, NEW c, Holds(p, c, x)
        PROVE  \E r \in Proc \ {p} : \E b : Holds(r, b, x)
    <3>1. x \in Pages(pt[p]) /\ page_counters'[x] # 0
      BY <1>0, <1>1, <2>3, Zenon
    <3> QED BY <1>3, <1>4, <3>1, Zenon DEF Nobody
  <2> QED BY <1>2, <1>3, <1>5, <2>1, <2>2, <2>3, Zenon DEF GivesUp
<1> QED BY <1>3, <1>6, GivesUpStep, Zenon

(* exec gives the process n pages that nobody had.                         *)
Loaded(p, n, f, g) ==
  /\ f \in [1 .. n -> freelist] /\ g \in [1 .. n -> Val] /\ \A a, b \in 1 .. n : f[a] = f[b] => a = b
  /\ pt' = [pt EXCEPT ![p] = [a \in 1 .. n |-> Fresh(f[a])]]
  /\ page_counters' = [x \in Page |-> IF x \in Taken(f) THEN 1 ELSE page_counters[x]]
  /\ freelist' = (freelist \ Taken(f)) \cup Pages(pt[p])
  /\ mem' = [x \in Page |-> IF x \in Taken(f) THEN g[Place(f, x)]
                            ELSE IF x \in Pages(pt[p]) THEN "junk" ELSE mem[x]]
LEMMA Loads == ASSUME NEW p, NEW n, exec(p, n) PROVE \E f, g : Loaded(p, n, f, g)
<1>1. PICK f \in [1 .. n -> freelist], g \in [1 .. n -> Val] :
        /\ \A a, b \in DOMAIN f : f[a] = f[b] => a = b
        /\ pt' = [pt EXCEPT ![p] = [a \in 1 .. n |-> Fresh(f[a])]]
        /\ page_counters' = [x \in Page |-> IF x \in Taken(f) THEN 1 ELSE page_counters[x]]
        /\ freelist' = (freelist \ Taken(f)) \cup Pages(pt[p])
        /\ mem' = [x \in Page |-> IF x \in Taken(f) THEN g[Place(f, x)]
                                  ELSE IF x \in Pages(pt[p]) THEN "junk" ELSE mem[x]]
  BY Zenon DEF exec, Distinct, CountOnce
<1>2. DOMAIN f = 1 .. n
  BY Zenon
<1>3. Loaded(p, n, f, g)
  BY <1>1, <1>2, Zenon DEF Loaded
<1> QED BY <1>3, Zenon

LEMMA execStep ==
  ASSUME Disciplined, Inv, NEW p \in Proc, NEW n \in 1 .. MaxSize, exec(p, n),
         UNCHANGED <<calls, lost>>
  PROVE  Inv'
<1> USE DEF Inv, Nobody
<1>0. PICK f, g : Loaded(p, n, f, g)
  BY Loads, Zenon
<1>1. PICK S, T : S = Pages(pt[p]) /\ T = Taken(f)
  BY Zenon
<1>2. /\ T \subseteq freelist /\ \A x : x \in T <=> \E a \in 1 .. n : f[a] = x
      /\ \A x \in T : Place(f, x) \in 1 .. n
  BY <1>0, <1>1, Takes, Zenon DEF Loaded
<1>3. S \subseteq Page \ lost /\ \A x : x \in S <=> \E c : Holds(p, c, x)
  BY <1>1, OldPages, Zenon
<1>4. /\ page_counters' = [x \in Page |-> IF x \in T THEN 1 ELSE page_counters[x]]
      /\ freelist' = (freelist \ T) \cup S
      /\ mem' = [x \in Page |-> IF x \in T THEN g[Place(f, x)] ELSE IF x \in S THEN "junk" ELSE mem[x]]
      /\ f \in [1 .. n -> freelist] /\ g \in [1 .. n -> Val]
      /\ \A a, b \in 1 .. n : f[a] = f[b] => a = b
  BY <1>0, <1>1, Zenon DEF Loaded
<1>5. "cow_fork" \notin calls /\ pstate[p] = "RUNNABLE" /\ n <= Limit /\ UNCHANGED pstate
  BY Zenon DEF exec, Types, Disciplined
<1> DEFINE row == [a \in 1 .. n |-> Fresh(f[a])]
<1>6. pt' = [pt EXCEPT ![p] = row]
  BY <1>0, Zenon DEF Loaded
<1>7. row \in [1 .. n -> Pte] /\ \A a \in 1 .. n : row[a].pa = f[a] /\ row[a].W
  <2>1. ASSUME NEW a \in 1 .. n
        PROVE  Fresh(f[a]) \in Pte /\ Fresh(f[a]).pa = f[a] /\ Fresh(f[a]).W
    <3>1. f[a] \in Page
      BY <1>4, Zenon DEF Types
    <3> QED BY <3>1, Zenon DEF Fresh, Pte
  <2> QED BY <2>1, Zenon
<1> HIDE DEF row
<1>8. Types' /\ pt'[p] = row /\ DOMAIN pt'[p] = 1 .. n /\ \A r \in Proc \ {p} : pt'[r] = pt[r]
  <2>1. page_counters' \in [Page -> Int]
    BY <1>4 DEF Types
  <2>2. freelist' \subseteq Page
    BY <1>3, <1>4, Zenon DEF Types
  <2>3. mem' \in [Page -> Val \cup {"junk"}]
    <3>1. \A x \in T : g[Place(f, x)] \in Val
      BY <1>2, <1>4, Zenon
    <3> QED BY <1>4, <3>1, Zenon DEF Types
  <2>4. n \in 0 .. Limit /\ n # 0
    BY <1>5, Limits, CowAssumption
  <2>5. /\ pstate' \in [Proc -> {"UNUSED", "RUNNABLE", "ZOMBIE"}]
        /\ pstate'[initproc] = "RUNNABLE"
        /\ pstate'[p] # "UNUSED" /\ \A r \in Proc \ {p} : pstate'[r] = pstate[r]
    BY <1>5, Zenon DEF Types
  <2> QED BY <1>6, <1>7, <2>1, <2>2, <2>3, <2>4, <2>5, NewTypes, Zenon
<1>9. /\ \A c, y : Holds(p, c, y)' <=> c \in 1 .. n /\ f[c] = y
      /\ \A r \in Proc \ {p} : \A c, y : Holds(r, c, y)' <=> Holds(r, c, y)
      /\ \A r \in Proc : \A c : \A x \in T : ~ Holds(r, c, x)
  <2>1. \A c, y : Holds(p, c, y)' <=> c \in 1 .. n /\ f[c] = y
    BY <1>7, <1>8, Zenon DEF Holds
  <2>2. \A r \in Proc \ {p} : \A c, y : Holds(r, c, y)' <=> Holds(r, c, y)
    BY <1>8, Zenon DEF Holds
  <2>3. \A x \in T : x \in Page
    BY <1>2, Zenon DEF Types
  <2> QED BY <1>2, <2>1, <2>2, <2>3, Zenon DEF Free
<1>10. Once'
  BY <1>4, <1>9 DEF Once
<1>11. /\ \A r \in Proc \ {p} : \A c : \A x \in S : ~ Holds(r, c, x)
       /\ \A x \in T : x \notin S
  BY <1>3, <1>5, <1>9, Solitary, ZenonT(60)
<1>12. Free'
  <2> SUFFICES ASSUME NEW x \in Page PROVE x \in freelist' <=> Nobody(x)' /\ x \notin lost'
    BY Zenon DEF Free
  <2>1. CASE x \in T
    <3>1. x \notin freelist'
      BY <1>4, <1>11, <2>1, Zenon
    <3> QED BY <1>2, <1>9, <2>1, <3>1, Zenon
  <2>2. CASE x \notin T
    <3>1. Nobody(x)' <=> \A r \in Proc \ {p} : \A c : ~ Holds(r, c, x)
      BY <1>2, <1>9, <2>2
    <3>2. x \in freelist' <=> x \in freelist \/ x \in S
      BY <1>4, <2>2, Zenon
    <3>3. x \in S => Nobody(x)' /\ x \notin lost
      BY <1>3, <1>11, <3>1, Zenon
    <3>4. x \notin S => (Nobody(x)' <=> Nobody(x))
      BY <1>3, <3>1, Zenon
    <3> QED BY <3>2, <3>3, <3>4, Zenon DEF Free
  <2> QED BY <2>1, <2>2, Zenon
<1>13. Alone' /\ Plain'
  <2>1. \A r \in Proc \ {p} : \A c : pt'[r][c] = pt[r][c]
    BY <1>8, Zenon
  <2>2. \A r \in Proc : \A x : \A c, d : Holds(p, c, x)' /\ Holds(r, d, x)' => r = p
    BY <1>2, <1>9, Zenon
  <2>3. Alone'
    BY <1>9, <2>1, <2>2 DEF Alone
  <2> QED BY <1>7, <1>8, <2>3, Zenon DEF Plain
<1>14. Counted'
  <2> SUFFICES ASSUME NEW x \in Page \ (freelist' \cup lost') PROVE Count(x)'
    BY Zenon DEF Counted
  <2>1. ASSUME NEW b \in 1 .. n, f[b] = x PROVE Count(x)'
    <3>1. x \in T
      BY <1>2, <2>1, Zenon
    <3>2. page_counters'[x] = 1
      BY <1>4, <3>1, Zenon
    <3>3. \A c \in 1 .. n : f[c] = x <=> c = b
      BY <1>4, <2>1, Zenon
    <3>4. \A r \in Proc : \A c : Holds(r, c, x)' <=> r = p /\ c = b
      BY <1>9, <3>1, <3>3, Zenon
    <3>5. b \in 1 .. MaxSize
      BY CowAssumption
    <3> QED BY <3>2, <3>4, <3>5, CountOne, Zenon
  <2>2. CASE \A b \in 1 .. n : f[b] # x
    <3>1. x \notin S /\ x \notin T /\ x \notin freelist \cup lost
      BY <1>2, <1>4, <2>2, Zenon
    <3>2. Count(x) /\ page_counters'[x] = page_counters[x]
      BY <1>4, <3>1, Zenon DEF Counted
    <3>3. \A r \in Proc : \A c : Holds(r, c, x)' <=> Holds(r, c, x)
      BY <1>3, <1>9, <2>2, <3>1
    <3> QED BY <3>2, <3>3, CountSame, Zenon
  <2> QED BY <2>1, <2>2, Zenon
<1>15. Lost'
  <2>1. \A r \in Proc : \A c, x : Holds(r, c, x)' => Holds(r, c, x) \/ x \in freelist
    <3>1. \A c, x : Holds(p, c, x)' => x \in freelist
      BY <1>4, <1>9
    <3>2. \A r \in Proc : r \in Proc \ {p} \/ r = p
      BY Zenon
    <3> QED BY <1>9, <3>1, <3>2, Zenon
  <2> QED BY <2>1, LostStep, Zenon
<1> QED BY <1>8, <1>10, <1>12, <1>13, <1>14, <1>15, Zenon

(* Calls that fail: what they took was free, and N of it is lost.          *)
Failed(N) ==
  /\ N \subseteq freelist /\ freelist' = freelist \ N /\ lost' = lost \cup N
  /\ page_counters' \in [Page -> Int]
  /\ \A x \in Page \ freelist : page_counters'[x] = page_counters[x]
  /\ mem' \in [Page -> Val \cup {"junk"}] /\ \A x \in Page \ freelist : mem'[x] = mem[x]
  /\ UNCHANGED <<pstate, pt>>
LEMMA FailedStep ==
  ASSUME Inv, NEW N, Failed(N), UNCHANGED calls
  PROVE  Inv'
<1> USE DEF Inv
<1>1. /\ N \subseteq freelist /\ freelist' = freelist \ N /\ lost' = lost \cup N
      /\ page_counters' \in [Page -> Int]
      /\ \A x \in Page \ freelist : page_counters'[x] = page_counters[x]
      /\ mem' \in [Page -> Val \cup {"junk"}] /\ UNCHANGED <<pstate, pt>>
  BY Zenon DEF Failed
<1>2. Types'
  BY <1>1, SameLimit, Zenon DEF Types
<1>3. \A r \in Proc : \A c, y : Holds(r, c, y)' <=> Holds(r, c, y)
  BY <1>1, Zenon DEF Holds
<1>4. Once'
  BY <1>3, Zenon DEF Once
<1>5. \A x : Nobody(x)' <=> Nobody(x)
  BY <1>3, Zenon DEF Nobody
<1>6. Free' /\ Lost'
  BY <1>1, <1>5, Zenon DEF Free, Lost, Types
<1>7. Alone'
  BY <1>1, <1>3, Zenon DEF Alone
<1>8. Plain'
  BY <1>1, Zenon DEF Plain
<1>9. ASSUME NEW x \in Page \ (freelist' \cup lost') PROVE Count(x)'
  <2>1. x \in Page \ (freelist \cup lost)
    BY <1>1, Zenon
  <2>2. Count(x) /\ page_counters'[x] = page_counters[x]
    BY <1>1, <2>1, Zenon DEF Counted
  <2> QED BY <1>3, <2>2, CountSame, Zenon
<1> QED BY <1>2, <1>4, <1>6, <1>7, <1>8, <1>9, Zenon DEF Counted

LEMMA CountedOnce ==
  ASSUME Types, NEW S \in SUBSET freelist, CountOnce(S)
  PROVE  page_counters' \in [Page -> Int] /\ \A x \in Page \ freelist : page_counters'[x] = page_counters[x]
<1>1. page_counters' = [x \in Page |-> IF x \in S THEN 1 ELSE page_counters[x]]
  BY Zenon DEF CountOnce
<1>2. page_counters' \in [Page -> Int]
  BY <1>1 DEF Types
<1> QED BY <1>1, <1>2, Zenon

LEMMA GivesBackFails ==
  ASSUME Inv, NEW S, GivesBack(S), UNCHANGED lost
  PROVE  Failed({})
<1> USE DEF Inv
<1>1. /\ S \in SUBSET freelist /\ CountOnce(S) /\ freelist' = freelist \cup S
      /\ mem' = [x \in Page |-> IF x \in S THEN "junk" ELSE mem[x]] /\ UNCHANGED <<pstate, pt>>
  BY Zenon DEF GivesBack, kfree
<1>2. freelist' = freelist \ {} /\ lost' = lost \cup {}
  BY <1>1, Zenon
<1>3. mem' \in [Page -> Val \cup {"junk"}] /\ \A x \in Page \ freelist : mem'[x] = mem[x]
  BY <1>1, Zenon DEF Types
<1> QED BY <1>1, <1>2, <1>3, CountedOnce, Zenon DEF Failed

LEMMA UnmappedFails ==
  ASSUME Inv, NEW S, NEW new \in freelist, Unmapped(S, new)
  PROVE  Failed(S \cup {new})
<1> USE DEF Inv
<1>0. PICK N : N = S \cup {new}
  BY Zenon
<1>1. /\ N \in SUBSET freelist /\ CountOnce(N) /\ freelist' = freelist \ N /\ lost' = lost \cup N
      /\ mem' = [x \in Page |-> IF x \in N THEN "zero" ELSE mem[x]] /\ UNCHANGED <<pstate, pt>>
  BY <1>0, Zenon DEF Unmapped
<1>2. mem' \in [Page -> Val \cup {"junk"}] /\ \A x \in Page \ freelist : mem'[x] = mem[x]
  BY <1>1, Zenon DEF Types, Val
<1> QED BY <1>0, <1>1, <1>2, CountedOnce, Zenon DEF Failed

LEMMA forkUnmappedFails ==
  ASSUME Inv, NEW p \in Proc, NEW q \in Proc, NEW S \in SUBSET freelist, NEW new \in freelist,
         forkUnmapped(p, q, S, new)
  PROVE  Failed({new})
<1> USE DEF Inv
<1>0. PICK n : n = Cardinality(S)
  BY Zenon
<1>1. /\ S \cup {new} \in SUBSET freelist /\ CountOnce(S \cup {new})
      /\ freelist' = freelist \ {new} /\ lost' = lost \cup {new}
      /\ mem' = [x \in Page |-> IF x = new THEN mem[pt[p][n + 1].pa] ELSE IF x \in S THEN "junk" ELSE mem[x]]
      /\ n < Len(pt[p]) /\ UNCHANGED <<pstate, pt>>
  BY <1>0, Zenon DEF forkUnmapped
<1>2. pt[p][n + 1].pa \in Page
  <2>1. IsFiniteSet(S)
    BY FS_Subset, CowAssumption, Zenon DEF Types
  <2>2. n \in Nat
    BY <1>0, <2>1, FS_CardinalityType, Zenon
  <2>3. n + 1 \in DOMAIN pt[p]
    BY <1>1, <2>2, Cells
  <2> QED BY <2>3, Cells, Zenon
<1>3. mem' \in [Page -> Val \cup {"junk"}] /\ \A x \in Page \ freelist : mem'[x] = mem[x]
  BY <1>1, <1>2, Zenon DEF Types
<1> QED BY <1>1, <1>3, CountedOnce, Zenon DEF Failed

(* Stores, faults that kill and exit leave the page tables alone.          *)
LEMMA OtherStep ==
  ASSUME Inv, UNCHANGED <<pt, page_counters, freelist, calls, lost>>,
         mem' \in [Page -> Val \cup {"junk"}],
         pstate' \in [Proc -> {"UNUSED", "RUNNABLE", "ZOMBIE"}],
         \A r \in Proc : pstate'[r] = "UNUSED" <=> pstate[r] = "UNUSED", pstate'[initproc] = "RUNNABLE"
  PROVE  Inv'
<1> USE DEF Inv
<1>1. Types'
  BY SameLimit, Zenon DEF Types
<1>2. \A r \in Proc : \A c, y : Holds(r, c, y)' <=> Holds(r, c, y)
  BY Zenon DEF Holds
<1>3. Once' /\ Free' /\ Lost' /\ Counted'
  BY <1>2, SamePages, Zenon
<1>4. Alone'
  BY <1>2 DEF Alone
<1>5. Plain'
  BY Zenon DEF Plain
<1> QED BY <1>1, <1>3, <1>4, <1>5, Zenon

LEMMA ExitsStep ==
  ASSUME Inv, NEW p \in Proc, pstate[p] = "RUNNABLE", Exits(p), UNCHANGED <<calls, lost>>
  PROVE  Inv'
<1> USE DEF Inv
<1>1. /\ UNCHANGED <<pt, page_counters, freelist, mem>>
      /\ pstate' = IF p = initproc THEN pstate ELSE [pstate EXCEPT ![p] = "ZOMBIE"]
  BY Zenon DEF Exits
<1>2. /\ pstate' \in [Proc -> {"UNUSED", "RUNNABLE", "ZOMBIE"}] /\ pstate'[initproc] = "RUNNABLE"
      /\ \A r \in Proc : pstate'[r] = "UNUSED" <=> pstate[r] = "UNUSED"
  BY <1>1, CowAssumption, Zenon DEF Types
<1> QED BY <1>1, <1>2, OtherStep, Zenon DEF Types

LEMMA StoreStep ==
  ASSUME Inv, NEW p \in Proc, NEW a, NEW v \in Val, Store(p, a, v), UNCHANGED <<calls, lost>>
  PROVE  Inv'
<1> USE DEF Inv
<1>1. /\ UNCHANGED <<pstate, pt, page_counters, freelist>>
      /\ mem' = [mem EXCEPT ![pt[p][a].pa] = v]
  BY Zenon DEF Store
<1>2. mem' \in [Page -> Val \cup {"junk"}]
  BY <1>1, Zenon DEF Types
<1> QED BY <1>1, <1>2, OtherStep, Zenon DEF Types

LEMMA InitInv == Disciplined /\ Init => Inv
<1> SUFFICES ASSUME Disciplined, Init PROVE Inv
  BY Zenon
<1>1. PICK x \in Page :
        /\ pstate = [q \in Proc |-> IF q = initproc THEN "RUNNABLE" ELSE "UNUSED"]
        /\ pt = [q \in Proc |-> IF q = initproc THEN <<Fresh(x)>> ELSE <<>>]
        /\ page_counters = [y \in Page |-> 0] /\ freelist = Page \ {x}
        /\ mem = [y \in Page |-> IF y = x THEN "one" ELSE "junk"]
        /\ lost = {} /\ panic = "no" /\ calls \in Programs
  BY Zenon DEF Init
<1>2. Fresh(x) \in Pte /\ Fresh(x).pa = x /\ Fresh(x).W
  BY Zenon DEF Fresh, Pte
<1>3. /\ <<Fresh(x)>> \in Seq(Pte) /\ Len(<<Fresh(x)>>) = 1 /\ DOMAIN <<Fresh(x)>> = {1}
      /\ <<Fresh(x)>> # <<>> /\ <<Fresh(x)>>[1] = Fresh(x)
      /\ <<>> \in Seq(Pte) /\ Len(<<>>) = 0 /\ DOMAIN <<>> = {}
  BY <1>2
<1>4. Types
  <2>1. pt \in [Proc -> Seq(Pte)]
    BY <1>1, <1>3, Zenon
  <2>2. \A p \in Proc : Len(pt[p]) <= Limit /\ (pt[p] = <<>> <=> pstate[p] = "UNUSED")
    BY <1>1, <1>3, Limits, CowAssumption
  <2>3. mem \in [Page -> Val \cup {"junk"}] /\ page_counters \in [Page -> Int]
    BY <1>1 DEF Val
  <2>4. pstate \in [Proc -> {"UNUSED", "RUNNABLE", "ZOMBIE"}] /\ pstate[initproc] = "RUNNABLE"
    BY <1>1, CowAssumption, Zenon
  <2> QED BY <1>1, <2>1, <2>2, <2>3, <2>4, Zenon DEF Types
<1>5. \A p \in Proc : \A a, y : Holds(p, a, y) <=> p = initproc /\ a = 1 /\ y = x
  BY <1>1, <1>2, <1>3, Zenon DEF Holds
<1>6. Once /\ Free /\ Lost
  <2>1. Once
    BY <1>5 DEF Once
  <2>2. \A y : (\A p \in Proc : \A a : ~ Holds(p, a, y)) <=> y # x
    BY <1>5, CowAssumption
  <2> QED BY <1>1, <2>1, <2>2, Zenon DEF Free, Lost, Nobody
<1>7. Alone /\ Plain
  BY <1>1, <1>2, <1>3, <1>5, Zenon DEF Alone, Plain
<1>8. Counted
  <2>1. 1 \in 1 .. MaxSize /\ initproc \in Proc
    BY CowAssumption
  <2>2. Maps(x) = {<<initproc, 1>>}
    BY <1>5, <2>1 DEF Maps, Holds
  <2> QED BY <1>1, <2>1, <2>2, Zenon DEF Counted, Count
<1> QED BY <1>4, <1>6, <1>7, <1>8, Zenon DEF Inv

LEMMA InvStep == Disciplined /\ Inv /\ [Next]_vars => Inv'
<1> SUFFICES ASSUME Disciplined, Inv, [Next]_vars PROVE Inv'
  BY Zenon
<1>1. CASE UNCHANGED vars
  BY <1>1, OtherStep, Zenon DEF vars, Inv, Types
<1>2. ASSUME NEW p \in Proc, Step(p), UNCHANGED <<calls, lost>> PROVE Inv'
  <2>1. ASSUME NEW q \in Proc,
               fork(p, q) \/ cow_fork(p, q) \/ \E n \in 0 .. MaxSize - 1 : cow_forkFails(p, q, n)
        PROVE  Inv'
    BY <1>2, <2>1, forkStep, cow_forkStep, cow_forkFailsStep, Zenon
  <2>2. ASSUME NEW a, NEW v \in Val, Store(p, a, v) PROVE Inv'
    BY <1>2, <2>2, StoreStep, Zenon
  <2>3. ASSUME NEW a, NEW new \in Page, FaultCopy(p, a, new) PROVE Inv'
    BY <1>2, <2>3, FaultCopyStep, Zenon
  <2>4. ASSUME NEW a, FaultTake(p, a) PROVE Inv'
    BY <1>2, <2>4, FaultTakeStep, Zenon
  <2>5. ASSUME NEW a, FaultKill(p, a) PROVE Inv'
    BY <1>2, <2>5, ExitsStep, Zenon DEF FaultKill, WriteFault, Runs
  <2>6. ASSUME NEW a, KernelStore(p, a) PROVE Inv'
    BY <1>2, <2>6, OtherStep, Zenon DEF KernelStore, Inv, Types
  <2>7. ASSUME NEW S, GivesBack(S) PROVE Inv'
    BY <1>2, <2>7, GivesBackFails, FailedStep, Zenon
  <2>8. CASE Shrink(p) \/ exit(p)
    BY <1>2, <2>8, ShrinkStep, ExitsStep, Zenon DEF exit
  <2>9. CASE wait(p) \/ cow_wait(p)
    BY <1>2, <2>9, waitStep, cow_waitStep, Zenon
  <2>10. ASSUME NEW new \in Page, Grow(p, new) PROVE Inv'
    BY <1>2, <2>10, GrowStep, Zenon
  <2>11. ASSUME NEW n \in 1 .. MaxSize, exec(p, n) PROVE Inv'
    BY <1>2, <2>11, execStep, Zenon
  <2> QED BY <1>2, <2>1, <2>2, <2>3, <2>4, <2>5, <2>6, <2>7, <2>8, <2>9, <2>10, <2>11, Zenon
      DEF Step, forkFails, GrowFails, execFails
<1>3. ASSUME NEW p \in Proc, LosesPage(p), UNCHANGED calls PROVE Inv'
  <2>1. ASSUME NEW S, NEW new \in freelist, Unmapped(S, new) PROVE Inv'
    BY <1>3, <2>1, UnmappedFails, FailedStep, Zenon
  <2>2. ASSUME NEW q \in Proc, NEW S \in SUBSET freelist, NEW new \in freelist,
               forkUnmapped(p, q, S, new)
        PROVE  Inv'
    BY <1>3, <2>2, forkUnmappedFails, FailedStep, Zenon
  <2> QED BY <1>3, <2>1, <2>2, Zenon DEF LosesPage, GrowUnmapped, execUnmapped
<1> QED BY <1>1, <1>2, <1>3, Zenon DEF Next

LEMMA Always == ASSUME Disciplined PROVE Spec => []Inv
  BY InitInv, InvStep, PTL DEF Spec
=============================================================================

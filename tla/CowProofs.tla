----------------------------- MODULE CowProofs -----------------------------
(***************************************************************************)
(* Copy-on-write for any number of processes and pages: the counters are   *)
(* exact, no page is lost or freed too early, and sharing is invisible.    *)
(***************************************************************************)
EXTENDS CowInvariant

(* However processes share, copy, grow, exit, and fail for want of memory: *)
(* no page is on the free list of kalloc while a page table holds it, none *)
(* is lost but what copyuvm and allocuvm drop when mappages fails, and     *)
(* page_counters is the number of page tables that hold a page.            *)
THEOREM CowPages == ASSUME Disciplined PROVE Spec => []PagesExact
<1>1. ASSUME Inv PROVE PagesExact
  <2> USE <1>1 DEF Inv
  <2>0. \A x : Maps(x) = {} <=> Nobody(x)
    <3>1. \A x : Maps(x) = {} => Nobody(x)
      BY MapsAre, Zenon DEF Nobody
    <3>2. \A x : Nobody(x) => Maps(x) = {}
      BY Zenon DEF Maps, Holds, Nobody
    <3> QED BY <3>1, <3>2, Zenon
  <2>1. freelist \cap lost = {} /\ \A x \in Page : x \in freelist \cup lost <=> Maps(x) = {}
    BY <2>0, Zenon DEF Free, Lost
  <2>2. ASSUME NEW x \in Page, Maps(x) # {}
        PROVE  \/ page_counters[x] = Cardinality(Maps(x))
               \/ page_counters[x] = 0 /\ Cardinality(Maps(x)) = 1
    BY <2>1, <2>2, FS_Singleton, Zenon DEF Counted, Count
  <2> QED BY <2>1, <2>2, Zenon DEF PagesExact, NoLeakNoDangling, CountersExact
<1> QED BY <1>1, Always, PTL

(* When a store goes through, and when the fault of cow_copyuvm takes a    *)
(* page over instead of copying it, nobody else maps the page.             *)
THEOREM CowHolders == ASSUME Disciplined PROVE Spec => []OnlyHolder
<1>1. ASSUME Inv PROVE OnlyHolder
  <2> USE <1>1 DEF Inv
  <2> SUFFICES ASSUME NEW p \in Proc, NEW a \in DOMAIN pt[p],
                      pt[p][a].W \/ page_counters[pt[p][a].pa] <= 1
               PROVE  Maps(pt[p][a].pa) = {<<p, a>>}
    BY Zenon DEF OnlyHolder
  <2>0. PICK x : x = pt[p][a].pa
    BY Zenon
  <2>1. Holds(p, a, x)
    BY <2>0, Zenon DEF Holds
  <2>2. x \in Page /\ x \notin freelist \cup lost /\ a \in 1 .. MaxSize
    BY <2>1, Mapped, Zenon
  <2>3. \A r \in Proc : \A c : Holds(r, c, x) => r = p /\ c = a
    <3>1. CASE pt[p][a].W
      BY <2>1, <3>1, Zenon DEF Alone, Once
    <3>2. CASE page_counters[x] <= 1
      BY <2>1, <2>2, <3>2, NobodyElse, Zenon DEF Counted
    <3> QED BY <2>0, <3>1, <3>2, Zenon
  <2> QED BY <2>0, <2>1, <2>2, <2>3 DEF Maps, Holds
<1> QED BY <1>1, Always, PTL

-----------------------------------------------------------------------------
(***************************************************************************)
(* Sharing is invisible: what a step does to the images of the processes.  *)
(***************************************************************************)
LEMMA Images ==
  /\ DOMAIN Image = Proc
  /\ \A r \in Proc : Image[r] =
      IF pstate[r] = "RUNNABLE" THEN [a \in DOMAIN pt[r] |-> mem[pt[r][a].pa]]
                                                         ELSE <<>>
  BY Zenon DEF Image

LEMMA NewImages ==
  /\ DOMAIN Image' = Proc
  /\ \A r \in Proc : Image'[r] =
      IF pstate'[r] = "RUNNABLE" THEN [a \in DOMAIN pt'[r] |-> mem'[pt'[r][a].pa]]
                                                           ELSE <<>>
  BY Zenon DEF Image

(* The image of who keeps its pages where nothing in them changes.         *)
LEMMA Keeps ==
  ASSUME NEW r \in Proc, pstate'[r] = "RUNNABLE" <=> pstate[r] = "RUNNABLE",
         DOMAIN pt'[r] = DOMAIN pt[r], \A a \in DOMAIN pt[r] : mem'[pt'[r][a].pa] = mem[pt[r][a].pa]
  PROVE  Image'[r] = Image[r]
<1>1. CASE pstate[r] = "RUNNABLE"
  <2>1. [a \in DOMAIN pt'[r] |-> mem'[pt'[r][a].pa]] = [a \in DOMAIN pt[r] |-> mem[pt[r][a].pa]]
    BY Zenon
  <2> QED BY <1>1, <2>1, Images, NewImages, Zenon
<1>2. CASE pstate[r] # "RUNNABLE"
  BY <1>2, Images, NewImages, Zenon
<1> QED BY <1>1, <1>2, Zenon

(* The same where all that changes are pages of M, and r has none of them. *)
Outside(r, M) ==
  /\ pstate'[r] = pstate[r] /\ pt'[r] = pt[r]
  /\ \A x \in Page \ M : mem'[x] = mem[x]
  /\ \A c : \A x \in M : ~ Holds(r, c, x)
LEMMA OutsideKeeps ==
  ASSUME Types, NEW r \in Proc, NEW M, Outside(r, M)
  PROVE  Image'[r] = Image[r]
<1>1. ASSUME NEW a \in DOMAIN pt[r] PROVE mem'[pt'[r][a].pa] = mem[pt[r][a].pa]
  <2>1. pt[r][a].pa \in Page /\ Holds(r, a, pt[r][a].pa)
    BY Cells, Zenon DEF Holds
  <2> QED BY <2>1, Zenon DEF Outside
<1> QED BY <1>1, Keeps, Zenon DEF Outside

LEMMA AllKeep ==
  ASSUME \A r \in Proc : Image'[r] = Image[r] PROVE Image' = Image
<1>1. Image = [r \in Proc |-> Image[r]] /\ Image' = [r \in Proc |-> Image'[r]]
  BY Zenon DEF Image
<1> QED BY <1>1, Zenon

LEMMA OneChanges ==
  ASSUME NEW p \in Proc, \A r \in Proc \ {p} : Image'[r] = Image[r]
  PROVE  Image' = [Image EXCEPT ![p] = Image'[p]]
<1>1. Image = [r \in Proc |-> Image[r]] /\ Image' = [r \in Proc |-> Image'[r]]
  BY Zenon DEF Image
<1> QED BY <1>1, Zenon

(***************************************************************************)
(* Steps no process can see.                                               *)
(***************************************************************************)
LEMMA FaultCopyKeeps ==
  ASSUME Inv, NEW p \in Proc, NEW a, NEW new \in Page, FaultCopy(p, a, new)
  PROVE  Image' = Image
<1> USE DEF Inv
<1>1. /\ a \in DOMAIN pt[p] /\ pt[p][a].pa \in Page /\ new \in freelist
      /\ mem' = [mem EXCEPT ![new] = mem[pt[p][a].pa]]
      /\ pt' = [pt EXCEPT ![p][a] = Fresh(new)] /\ UNCHANGED pstate
  BY Cells, Zenon DEF FaultCopy, WriteFault, Runs
<1>2. \A r \in Proc : \A c : ~ Holds(r, c, new)
  BY <1>1, Zenon DEF Free, Nobody
<1>3. mem'[new] = mem[pt[p][a].pa] /\ \A x \in Page \ {new} : mem'[x] = mem[x]
  BY <1>1, Zenon DEF Types
<1>4. ASSUME NEW r \in Proc \ {p} PROVE Image'[r] = Image[r]
  <2>1. pstate'[r] = pstate[r] /\ pt'[r] = pt[r]
    BY <1>1, Zenon DEF Types
  <2>2. Outside(r, {new})
    BY <1>2, <1>3, <2>1, Zenon DEF Outside
  <2> QED BY <2>2, OutsideKeeps, Zenon
<1>5. Image'[p] = Image[p]
  <2>1. /\ DOMAIN pt'[p] = DOMAIN pt[p] /\ pt'[p][a].pa = new
        /\ \A c \in DOMAIN pt[p] \ {a} : pt'[p][c] = pt[p][c]
    BY <1>1, Zenon DEF Types, Fresh
  <2>2. ASSUME NEW c \in DOMAIN pt[p] PROVE mem'[pt'[p][c].pa] = mem[pt[p][c].pa]
    <3>1. CASE c = a
      BY <1>3, <2>1, <3>1, Zenon
    <3>2. CASE c # a
      <4>1. pt[p][c].pa \in Page \ {new}
        BY <1>2, Cells, Zenon DEF Holds
      <4> QED BY <1>3, <2>1, <3>2, <4>1, Zenon
    <3> QED BY <3>1, <3>2, Zenon
  <2> QED BY <1>1, <2>1, <2>2, Keeps, Zenon
<1> QED BY <1>4, <1>5, AllKeep, Zenon

(* FaultTake, and cow_fork that fails at once, change flags.               *)
LEMMA FlagsKeep ==
  ASSUME UNCHANGED <<pstate, mem>>,
         \A r \in Proc : /\ DOMAIN pt'[r] = DOMAIN pt[r]
                        /\ \A c \in DOMAIN pt[r] : pt'[r][c].pa = pt[r][c].pa
  PROVE  Image' = Image
<1>1. \A r \in Proc : Image'[r] = Image[r]
  BY Keeps, Zenon
<1> QED BY <1>1, AllKeep, Zenon

LEMMA FaultTakeKeeps ==
  ASSUME Inv, NEW p \in Proc, NEW a, FaultTake(p, a)
  PROVE  Image' = Image
<1>1. a \in DOMAIN pt[p] /\ pt' = [pt EXCEPT ![p][a] = Fresh(@.pa)] /\ UNCHANGED <<pstate, mem>>
  BY Zenon DEF FaultTake, WriteFault, Runs
<1>2. \A r \in Proc : /\ DOMAIN pt'[r] = DOMAIN pt[r]
                     /\ \A c \in DOMAIN pt[r] : pt'[r][c].pa = pt[r][c].pa
  BY <1>1, Zenon DEF Inv, Types, Fresh
<1> QED BY <1>1, <1>2, FlagsKeep, Zenon

LEMMA forkFailsKeeps ==
  ASSUME Disciplined, Inv, NEW p \in Proc, NEW q \in Proc, NEW n \in 0 .. MaxSize - 1,
         cow_forkFails(p, q, n)
  PROVE  Image' = Image
<1> USE DEF Inv
<1>1. n = 0
  <2>1. "cow_fork" \in calls /\ n < Len(pt[p]) /\ n % NPTENTRIES = 0
    BY Zenon DEF cow_forkFails, CanFork, NeedsTable
  <2>2. Limit <= NPTENTRIES
    BY <2>1, Limits, Zenon DEF Types, Disciplined
  <2>3. Len(pt[p]) \in Nat /\ Len(pt[p]) <= Limit
    BY Cells, Zenon DEF Types
  <2> QED BY <2>1, <2>2, <2>3, Limits, CowAssumption
<1>2. Pages(SubSeq(pt[p], 1, n)) = {}
  BY <1>1, Cells DEF Pages, Types
<1>3. pt' = [pt EXCEPT ![p] = Shared(p, n + 1)] /\ UNCHANGED <<pstate, mem>>
  BY <1>2, Zenon DEF cow_forkFails, kfree, Types
<1>4. /\ Shared(p, n + 1) \in [1 .. Len(pt[p]) -> Pte]
      /\ \A c \in DOMAIN pt[p] : Shared(p, n + 1)[c].pa = pt[p][c].pa
  BY SharedRow, Zenon
<1>5. \A r \in Proc : /\ DOMAIN pt'[r] = DOMAIN pt[r]
                     /\ \A c \in DOMAIN pt[r] : pt'[r][c].pa = pt[r][c].pa
  BY <1>3, <1>4, Cells, Zenon DEF Types
<1> QED BY <1>3, <1>5, FlagsKeep, Zenon

(* A call that fails touches no page that anybody has.                     *)
LEMMA FailedKeeps == ASSUME Inv, NEW N, Failed(N) PROVE Image' = Image
<1> USE DEF Inv
<1>1. UNCHANGED <<pstate, pt>> /\ \A x \in Page \ freelist : mem'[x] = mem[x]
  BY Zenon DEF Failed
<1>2. ASSUME NEW r \in Proc PROVE Image'[r] = Image[r]
  <2>1. \A c : \A x \in freelist : ~ Holds(r, c, x)
    BY Zenon DEF Free, Nobody, Types
  <2>2. Outside(r, freelist)
    BY <1>1, <2>1, Zenon DEF Outside
  <2> QED BY <2>2, OutsideKeeps, Zenon
<1> QED BY <1>2, AllKeep, Zenon

LEMMA ReapedKeeps ==
  ASSUME Inv, Inv', NEW p \in Proc, wait(p) \/ cow_wait(p)
  PROVE  Image' = Image
<1> USE DEF Inv
<1>1. PICK S : /\ freelist' = freelist \cup S
               /\ mem' = [x \in Page |-> IF x \in S THEN "junk" ELSE mem[x]]
  BY Zenon DEF wait, cow_wait, freevm, cow_freevm, kfree
<1>2. /\ pstate[p] = "ZOMBIE" /\ pstate' = [pstate EXCEPT ![p] = "UNUSED"]
      /\ pt' = [pt EXCEPT ![p] = <<>>]
  BY Zenon DEF wait, cow_wait, Reaped
<1>3. ASSUME NEW r \in Proc \ {p} PROVE Image'[r] = Image[r]
  <2>1. pstate'[r] = pstate[r] /\ pt'[r] = pt[r]
    BY <1>2, Zenon DEF Types
  <2>2. ASSUME NEW c, NEW x \in S PROVE ~ Holds(r, c, x)
    <3>1. x \in freelist' /\ x \in Page
      BY <1>1, Zenon DEF Types
    <3>2. ~ Holds(r, c, x)'
      BY <3>1, Zenon DEF Free, Nobody
    <3> QED BY <2>1, <3>2, Zenon DEF Holds
  <2>3. Outside(r, S)
    BY <1>1, <2>1, <2>2, Zenon DEF Outside
  <2> QED BY <2>3, OutsideKeeps, Zenon
<1>4. Image'[p] = Image[p]
  <2>1. pstate'[p] = "UNUSED"
    BY <1>2, Zenon DEF Types
  <2> QED BY <1>2, <2>1, Images, NewImages, Zenon
<1> QED BY <1>3, <1>4, AllKeep, Zenon

(***************************************************************************)
(* Steps that are steps of the private memories.                           *)
(***************************************************************************)
LEMMA StoreMaps ==
  ASSUME Inv, NEW p \in Proc, NEW a, NEW v \in Val, Store(p, a, v)
  PROVE  a \in DOMAIN Image[p] /\ Private!Store(p, a, v)
<1> USE DEF Inv
<1>0. PICK x : x = pt[p][a].pa
  BY Zenon
<1>1. /\ pstate[p] = "RUNNABLE" /\ a \in DOMAIN pt[p] /\ pt[p][a].W /\ Holds(p, a, x)
      /\ x \in Page
      /\ mem' = [mem EXCEPT ![x] = v] /\ UNCHANGED <<pstate, pt>>
  BY <1>0, Cells, Zenon DEF Store, Runs, Holds
<1>2. \A r \in Proc : \A c : Holds(r, c, x) => r = p /\ c = a
  BY <1>0, <1>1, Zenon DEF Alone, Once
<1>3. mem'[x] = v /\ \A y \in Page \ {x} : mem'[y] = mem[y]
  BY <1>1, Zenon DEF Types
<1>4. ASSUME NEW r \in Proc \ {p} PROVE Image'[r] = Image[r]
  <2>1. Outside(r, {x})
    BY <1>1, <1>2, <1>3, Zenon DEF Outside
  <2> QED BY <2>1, OutsideKeeps, Zenon
<1>5. /\ Image[p] = [c \in DOMAIN pt[p] |-> mem[pt[p][c].pa]]
      /\ Image'[p] = [c \in DOMAIN pt[p] |-> mem'[pt[p][c].pa]]
  BY <1>1, Images, NewImages
<1>6. \A c \in DOMAIN pt[p] \ {a} : pt[p][c].pa \in Page \ {x}
  BY <1>2, Cells, Zenon DEF Holds
<1>7. Image'[p] = [Image[p] EXCEPT ![a] = v]
  BY <1>0, <1>1, <1>3, <1>5, <1>6
<1>8. Image' = [Image EXCEPT ![p] = [Image[p] EXCEPT ![a] = v]]
  BY <1>4, <1>7, OneChanges, Zenon
<1> QED BY <1>1, <1>5, <1>8, Zenon DEF Private!Store

(* A running process has an image, and an unused slot has none.            *)
LEMMA Present ==
  ASSUME Inv, NEW p \in Proc
  PROVE  /\ pstate[p] = "RUNNABLE" => Image[p] # <<>> /\ Image[p] = [c \in 1 .. Len(pt[p]) |-> mem[pt[p][c].pa]]
         /\ pstate[p] # "RUNNABLE" => Image[p] = <<>>
<1>1. pstate[p] = "RUNNABLE" => Len(pt[p]) > 0
  BY Cells DEF Inv, Types
<1> QED BY <1>1, Cells, Images DEF Inv

LEMMA forkMaps ==
  ASSUME Inv, NEW p \in Proc, NEW q \in Proc, fork(p, q)
  PROVE  Private!Fork(p, q)
<1> USE DEF Inv
<1>0. PICK D, f : Copied(p, q, D, f)
  BY Copies, Zenon
<1>00. /\ \A x : x \in Taken(f) <=> \E a \in D : f[a] = x
       /\ \A c \in D : f[c] \in Taken(f) /\ Place(f, f[c]) = c
  <2>1. f \in [D -> freelist] /\ \A a, b \in D : f[a] = f[b] => a = b
    BY <1>0, Zenon DEF Copied
  <2> QED BY <2>1, Takes
<1> USE DEF Copied
<1>1. /\ pstate[p] = "RUNNABLE" /\ pstate[q] = "UNUSED" /\ p # q
      /\ pstate' = [pstate EXCEPT ![q] = "RUNNABLE"]
  BY Zenon DEF fork, CanFork
<1>2. \A c \in D : f[c] \in freelist /\ f[c] \in Page
  BY <1>0, Zenon DEF Types
<1>3. ASSUME NEW c \in D PROVE mem'[f[c]] = mem[pt[p][c].pa]
  <2>1. f[c] \in Taken(f) /\ Place(f, f[c]) = c /\ f[c] \in Page
    BY <1>00, <1>2, Zenon
  <2>2. mem'[f[c]] = mem[pt[p][Place(f, f[c])].pa]
    BY <1>0, <2>1, Zenon
  <2> QED BY <2>1, <2>2, Zenon
<1>4. PICK S : S = Taken(f)
  BY Zenon
<1>5. ASSUME NEW r \in Proc \ {q} PROVE Image'[r] = Image[r]
  <2>1. pstate'[r] = pstate[r] /\ pt'[r] = pt[r]
    BY <1>0, <1>1, Zenon DEF Types
  <2>2. \A x \in Page \ S : mem'[x] = mem[x]
    BY <1>0, <1>4, Zenon
  <2>3. \A c : \A x \in S : ~ Holds(r, c, x)
    BY <1>00, <1>2, <1>4, Zenon DEF Free, Nobody
  <2>4. Outside(r, S)
    BY <2>1, <2>2, <2>3, Zenon DEF Outside
  <2> QED BY <2>4, OutsideKeeps, Zenon
<1>6. Image'[q] = Image[p]
  <2>1. pstate'[q] = "RUNNABLE" /\ DOMAIN pt'[q] = D
    BY <1>0, <1>1, Zenon DEF Types
  <2>2. ASSUME NEW c \in D PROVE pt'[q][c].pa = f[c]
    <3>1. pt'[q][c] = [pt[p][c] EXCEPT !.pa = f[c]] /\ pt[p][c] \in Pte
      BY <1>0, Cells, Zenon DEF Types
    <3> QED BY <3>1, Zenon DEF Pte
  <2>3. [c \in D |-> mem'[pt'[q][c].pa]] = [c \in D |-> mem[pt[p][c].pa]]
    BY <1>3, <2>2, Zenon
  <2>4. Image'[q] = [c \in DOMAIN pt'[q] |-> mem'[pt'[q][c].pa]]
    BY <2>1, NewImages, Zenon
  <2>5. Image[p] = [c \in DOMAIN pt[p] |-> mem[pt[p][c].pa]]
    BY <1>1, Images, Zenon
  <2> QED BY <1>0, <2>1, <2>3, <2>4, <2>5, Zenon
<1>7. Image' = [Image EXCEPT ![q] = Image[p]]
  BY <1>5, <1>6, OneChanges, Zenon
<1>8. Image[p] # <<>> /\ Image[q] = <<>>
  BY <1>1, Present, Zenon
<1> QED BY <1>7, <1>8, Zenon DEF Private!Fork

LEMMA cow_forkMaps ==
  ASSUME Inv, NEW p \in Proc, NEW q \in Proc, cow_fork(p, q)
  PROVE  Private!Fork(p, q)
<1> DEFINE row == Shared(p, Len(pt[p]))
<1> USE DEF Inv
<1>1. /\ pstate[p] = "RUNNABLE" /\ pstate[q] = "UNUSED" /\ p # q /\ mem' = mem
      /\ pt' = [pt EXCEPT ![p] = row, ![q] = row] /\ pstate' = [pstate EXCEPT ![q] = "RUNNABLE"]
  BY Zenon DEF cow_fork, CanFork
<1>2. DOMAIN row = DOMAIN pt[p] /\ \A c \in DOMAIN pt[p] : row[c].pa = pt[p][c].pa
  BY SharedRow, Zenon DEF Shared
<1> HIDE DEF row
<1>3. /\ pt'[p] = row /\ pt'[q] = row /\ \A r \in Proc \ {p, q} : pt'[r] = pt[r]
      /\ pstate'[q] = "RUNNABLE" /\ \A r \in Proc \ {q} : pstate'[r] = pstate[r]
  BY <1>1, Zenon DEF Types
<1>4. ASSUME NEW r \in Proc \ {q} PROVE Image'[r] = Image[r]
  <2>1. DOMAIN pt'[r] = DOMAIN pt[r] /\ \A c \in DOMAIN pt[r] : pt'[r][c].pa = pt[r][c].pa
    BY <1>2, <1>3, Zenon
  <2> QED BY <1>1, <1>3, <2>1, Keeps, Zenon
<1>5. Image'[q] = Image[p]
  <2>1. [c \in DOMAIN row |-> mem'[row[c].pa]] = [c \in DOMAIN pt[p] |-> mem[pt[p][c].pa]]
    BY <1>1, <1>2, Zenon
  <2>2. Image'[q] = [c \in DOMAIN row |-> mem'[row[c].pa]]
    BY <1>3, NewImages, Zenon
  <2>3. Image[p] = [c \in DOMAIN pt[p] |-> mem[pt[p][c].pa]]
    BY <1>1, Images, Zenon
  <2> QED BY <2>1, <2>2, <2>3, Zenon
<1>6. Image' = [Image EXCEPT ![q] = Image[p]]
  BY <1>4, <1>5, OneChanges, Zenon
<1>7. Image[p] # <<>> /\ Image[q] = <<>>
  BY <1>1, Present, Zenon
<1> QED BY <1>6, <1>7, Zenon DEF Private!Fork

LEMMA GrowMaps ==
  ASSUME Inv, NEW p \in Proc, NEW new \in Page, Grow(p, new)
  PROVE  Private!Grow(p)
<1> USE DEF Inv
<1>0. PICK n : n = Len(pt[p])
  BY Zenon
<1>1. /\ pstate[p] = "RUNNABLE" /\ new \in freelist /\ UNCHANGED pstate
      /\ pt' = [pt EXCEPT ![p] = Append(pt[p], Fresh(new))] /\ mem' = [mem EXCEPT ![new] = "zero"]
  BY Zenon DEF Grow, Types
<1>2. /\ n \in Nat /\ DOMAIN pt[p] = 1 .. n /\ pt[p] \in Seq(Pte)
      /\ \A c \in 1 .. n : pt[p][c].pa \in Page
  BY <1>0, Cells, Zenon DEF Types
<1>3. Fresh(new) \in Pte /\ Fresh(new).pa = new
  BY Zenon DEF Fresh, Pte
<1>4. /\ DOMAIN pt'[p] = 1 .. n + 1 /\ pt'[p][n + 1] = Fresh(new)
      /\ \A c \in 1 .. n : pt'[p][c] = pt[p][c]
      /\ \A r \in Proc \ {p} : pt'[r] = pt[r]
  <2>1. pt'[p] = Append(pt[p], Fresh(new)) /\ \A r \in Proc \ {p} : pt'[r] = pt[r]
    BY <1>1, Zenon DEF Types
  <2>2. \A c \in DOMAIN pt[p] : Append(pt[p], Fresh(new))[c] = pt[p][c]
    BY <1>2, <1>3, Longer
  <2>3. /\ DOMAIN Append(pt[p], Fresh(new)) = 1 .. n + 1
        /\ Append(pt[p], Fresh(new))[n + 1] = Fresh(new)
    BY <1>0, <1>2, <1>3, Longer
  <2> QED BY <1>2, <2>1, <2>2, <2>3, Zenon
<1>5. \A r \in Proc : \A c : ~ Holds(r, c, new)
  BY <1>1, Zenon DEF Free, Nobody
<1>6. mem'[new] = "zero" /\ \A x \in Page \ {new} : mem'[x] = mem[x]
  BY <1>1, Zenon DEF Types
<1>7. ASSUME NEW r \in Proc \ {p} PROVE Image'[r] = Image[r]
  <2>1. Outside(r, {new})
    BY <1>1, <1>4, <1>5, <1>6, Zenon DEF Outside
  <2> QED BY <2>1, OutsideKeeps, Zenon
<1>8. ASSUME NEW c \in 1 .. n PROVE mem'[pt'[p][c].pa] = mem[pt[p][c].pa]
  <2>1. pt[p][c].pa \in Page \ {new}
    BY <1>2, <1>5, Zenon DEF Holds
  <2> QED BY <1>4, <1>6, <2>1, Zenon
<1>9. Image'[p] = Append(Image[p], "zero")
  <2> DEFINE S == Val \cup {"junk", "zero"}
             old == [c \in 1 .. n |-> mem[pt[p][c].pa]]
             now == [c \in 1 .. n + 1 |-> mem'[pt'[p][c].pa]]
  <2>1. Image[p] = old
    BY <1>1, <1>2, Images, Zenon
  <2>2. Image'[p] = now
    BY <1>1, <1>4, NewImages, Zenon
  <2>3. old \in [1 .. n -> S]
    BY <1>2, Zenon DEF Types
  <2>4. now[n + 1] = "zero" /\ \A c \in 1 .. n : now[c] = old[c]
    BY <1>2, <1>3, <1>4, <1>6, <1>8
  <2>5. now = [c \in 1 .. n + 1 |-> now[c]] /\ "zero" \in S
    BY Zenon
  <2> HIDE DEF S, old, now
  <2>6. old \in Seq(S) /\ Len(old) = n /\ DOMAIN old = 1 .. n
    BY <1>2, <2>3, Row, Zenon
  <2>7. /\ Append(old, "zero") \in [1 .. n + 1 -> S] /\ Append(old, "zero")[n + 1] = "zero"
        /\ \A c \in 1 .. n : Append(old, "zero")[c] = old[c]
    BY <2>5, <2>6, Longer
  <2>8. \A c \in 1 .. n + 1 : now[c] = Append(old, "zero")[c]
    BY <1>2, <2>7, <2>4
  <2>9. now = Append(old, "zero")
    BY <2>7, <2>8, <2>5, Zenon
  <2> QED BY <2>1, <2>2, <2>9, Zenon
<1>10. Image' = [Image EXCEPT ![p] = Append(Image[p], "zero")]
  BY <1>7, <1>9, OneChanges, Zenon
<1> QED BY <1>1, <1>10, Present, Zenon DEF Private!Grow

LEMMA ShrinkMaps ==
  ASSUME Inv, Inv', NEW p \in Proc, Shrink(p)
  PROVE  Private!Shrink(p)
<1> USE DEF Inv
<1>0. PICK n, x : n = Len(pt[p]) /\ x = pt[p][n].pa
  BY Zenon
<1>1. /\ pstate[p] = "RUNNABLE" /\ n > 1 /\ UNCHANGED pstate
      /\ pt' = [pt EXCEPT ![p] = SubSeq(pt[p], 1, n - 1)] /\ freelist' = freelist \cup {x}
      /\ mem' = [y \in Page |-> IF y \in {x} THEN "junk" ELSE mem[y]]
  BY <1>0, Zenon DEF Shrink, kfree, Types
<1>2. /\ n \in Nat /\ DOMAIN pt[p] = 1 .. n /\ pt[p] \in Seq(Pte)
      /\ \A c \in 1 .. n : pt[p][c].pa \in Page
  <2>1. n \in Nat /\ DOMAIN pt[p] = 1 .. n
    BY <1>0, Cells, Zenon
  <2>2. \A c \in DOMAIN pt[p] : pt[p][c].pa \in Page
    BY Cells, Zenon
  <2> QED BY <2>1, <2>2, Zenon DEF Types
<1>3. /\ DOMAIN pt'[p] = 1 .. n - 1 /\ \A c \in 1 .. n - 1 : pt'[p][c] = pt[p][c]
      /\ \A r \in Proc \ {p} : pt'[r] = pt[r]
  <2>1. pt'[p] = SubSeq(pt[p], 1, n - 1) /\ \A r \in Proc \ {p} : pt'[r] = pt[r]
    BY <1>1, Zenon DEF Types
  <2> QED BY <1>0, <1>1, <1>2, <2>1
<1>4. x \in freelist' /\ x \in Page
  BY <1>1, Zenon DEF Types
<1>5. \A r \in Proc : \A c : ~ Holds(r, c, x)'
  BY <1>4, Zenon DEF Free, Nobody
<1>6. \A y \in Page \ {x} : mem'[y] = mem[y]
  BY <1>1, Zenon
<1>7. ASSUME NEW r \in Proc \ {p} PROVE Image'[r] = Image[r]
  <2>1. \A c : ~ Holds(r, c, x)
    BY <1>3, <1>5, Zenon DEF Holds
  <2>2. Outside(r, {x})
    BY <1>1, <1>3, <1>6, <2>1, Zenon DEF Outside
  <2> QED BY <2>2, OutsideKeeps, Zenon
<1>8. ASSUME NEW c \in 1 .. n - 1 PROVE mem'[pt'[p][c].pa] = mem[pt[p][c].pa]
  <2>1. c \in 1 .. n
    BY <1>2
  <2>2. pt[p][c].pa \in Page \ {x}
    BY <1>2, <1>3, <1>5, <2>1, Zenon DEF Holds
  <2> QED BY <1>3, <1>6, <2>2, Zenon
<1>9. Len(Image[p]) = n /\ Image'[p] = SubSeq(Image[p], 1, n - 1)
  <2> DEFINE S == Val \cup {"junk"}
             old == [c \in 1 .. n |-> mem[pt[p][c].pa]]
             now == [c \in 1 .. n - 1 |-> mem'[pt'[p][c].pa]]
  <2>1. Image[p] = old
    BY <1>1, <1>2, Images, Zenon
  <2>2. Image'[p] = now
    BY <1>1, <1>3, NewImages, Zenon
  <2>3. old \in [1 .. n -> S]
    BY <1>2, Zenon DEF Types
  <2>4. old \in Seq(S) /\ Len(old) = n
    BY <1>2, <2>3, Row, Zenon
  <2>5. \A c \in 1 .. n - 1 : now[c] = old[c]
    BY <1>2, <1>8
  <2>6. now = [c \in 1 .. n - 1 |-> now[c]]
    BY Zenon
  <2> HIDE DEF old, now
  <2>7. /\ SubSeq(old, 1, n - 1) = [c \in 1 .. n - 1 |-> old[c]]
    BY <1>1, <1>2, <2>4
  <2>8. now = SubSeq(old, 1, n - 1)
    BY <2>5, <2>6, <2>7, Zenon
  <2> QED BY <2>1, <2>2, <2>4, <2>8, Zenon
<1>10. Image' = [Image EXCEPT ![p] = SubSeq(Image[p], 1, n - 1)]
  BY <1>7, <1>9, OneChanges, Zenon
<1> QED BY <1>1, <1>9, <1>10, Zenon DEF Private!Shrink

LEMMA execMaps ==
  ASSUME Inv, Inv', NEW p \in Proc, NEW n \in 1 .. MaxSize, exec(p, n)
  PROVE  Private!Exec(p)
<1> USE DEF Inv
<1>0. PICK f, g : Loaded(p, n, f, g)
  BY Loads, Zenon
<1>1. PICK S, T : S = Pages(pt[p]) /\ T = Taken(f)
  BY Zenon
<1>2. /\ f \in [1 .. n -> freelist] /\ g \in [1 .. n -> Val] /\ \A a, b \in 1 .. n : f[a] = f[b] => a = b
      /\ pt' = [pt EXCEPT ![p] = [a \in 1 .. n |-> Fresh(f[a])]]
      /\ freelist' = (freelist \ T) \cup S
      /\ mem' = [x \in Page |-> IF x \in T THEN g[Place(f, x)] ELSE IF x \in S THEN "junk" ELSE mem[x]]
  BY <1>0, <1>1, Zenon DEF Loaded
<1>3. pstate[p] = "RUNNABLE" /\ UNCHANGED pstate
  BY Zenon DEF exec
<1>4. T \subseteq freelist /\ \A c \in 1 .. n : f[c] \in T /\ Place(f, f[c]) = c
  <2>1. Taken(f) \subseteq freelist /\ \A c \in 1 .. n : f[c] \in Taken(f) /\ Place(f, f[c]) = c
    BY <1>2, Takes, Zenon
  <2> QED BY <1>1, <2>1, Zenon
<1>5. /\ \A x \in Page \ (S \cup T) : mem'[x] = mem[x]
      /\ pt'[p] = [a \in 1 .. n |-> Fresh(f[a])] /\ \A r \in Proc \ {p} : pt'[r] = pt[r]
  BY <1>2, Zenon DEF Types
<1>6. ASSUME NEW r \in Proc \ {p} PROVE Image'[r] = Image[r]
  <2>1. \A c : \A x \in T : ~ Holds(r, c, x)
    BY <1>4, Zenon DEF Free, Nobody, Types
  <2>2. ASSUME NEW c, NEW x \in S PROVE ~ Holds(r, c, x)
    <3>1. x \in freelist' /\ x \in Page
      BY <1>2, Zenon DEF Types
    <3>2. ~ Holds(r, c, x)'
      BY <3>1, Zenon DEF Free, Nobody
    <3> QED BY <1>5, <3>2, Zenon DEF Holds
  <2>3. Outside(r, S \cup T)
    BY <1>3, <1>5, <2>1, <2>2, Zenon DEF Outside
  <2> QED BY <2>3, OutsideKeeps, Zenon
<1>7. Image'[p] = g
  <2>1. Image'[p] = [c \in DOMAIN pt'[p] |-> mem'[pt'[p][c].pa]]
    BY <1>3, NewImages, Zenon
  <2>2. DOMAIN pt'[p] = 1 .. n /\ \A c \in 1 .. n : pt'[p][c].pa = f[c]
    BY <1>5 DEF Fresh
  <2>3. ASSUME NEW c \in 1 .. n PROVE mem'[f[c]] = g[c]
    <3>1. f[c] \in T /\ Place(f, f[c]) = c /\ f[c] \in Page
      BY <1>2, <1>4, Zenon DEF Types
    <3>2. mem'[f[c]] = g[Place(f, f[c])]
      BY <1>2, <3>1, Zenon
    <3> QED BY <3>1, <3>2, Zenon
  <2>4. \A c \in 1 .. n : mem'[pt'[p][c].pa] = g[c]
    BY <2>2, <2>3, Zenon
  <2>5. Image'[p] = [c \in 1 .. n |-> g[c]]
    BY <2>1, <2>2, <2>4, Zenon
  <2> QED BY <1>2, <2>5, Zenon
<1>8. Image'[p] \in Seq(Val) \ {<<>>}
  <2>1. n \in Nat /\ n # 0
    BY CowAssumption
  <2>2. g \in Seq(Val) /\ Len(g) = n
    BY <1>2, <2>1, Row, Zenon
  <2>3. Len(<<>>) = 0
    OBVIOUS
  <2> QED BY <1>7, <2>1, <2>2, <2>3, Zenon
<1>9. Image' = [Image EXCEPT ![p] = Image'[p]]
  BY <1>6, OneChanges, Zenon
<1> QED BY <1>3, <1>8, <1>9, Present, Zenon DEF Private!Exec

LEMMA ExitsMaps ==
  ASSUME Inv, NEW p \in Proc, Exits(p)
  PROVE  Image' = Image \/ Private!Exit(p)
<1> USE DEF Inv
<1>1. UNCHANGED <<pt, mem>> /\ pstate' =
          IF p = initproc THEN pstate ELSE [pstate EXCEPT ![p] = "ZOMBIE"]
  BY Zenon DEF Exits
<1>2. CASE p = initproc
  BY <1>1, <1>2, FlagsKeep, Zenon
<1>3. CASE p # initproc
  <2>1. pstate'[p] = "ZOMBIE" /\ \A r \in Proc \ {p} : pstate'[r] = pstate[r]
    BY <1>1, <1>3, Zenon DEF Types
  <2>2. \A r \in Proc \ {p} : Image'[r] = Image[r]
    BY <1>1, <2>1, Keeps, Zenon
  <2>3. Image'[p] = <<>>
    BY <2>1, NewImages, Zenon
  <2>4. Image' = [Image EXCEPT ![p] = <<>>]
    BY <2>2, <2>3, OneChanges, Zenon
  <2> QED BY <2>4, Zenon DEF Private!Exit
<1> QED BY <1>2, <1>3, Zenon

LEMMA MapsStep ==
  ASSUME Disciplined, Inv, Inv', [Next]_vars PROVE [Private!Next]_Image
<1>1. CASE UNCHANGED vars
  BY <1>1, FlagsKeep, Zenon DEF vars
<1>2. ASSUME NEW p \in Proc, Step(p), UNCHANGED lost PROVE Image' = Image \/ Private!Next
  <2>1. ASSUME NEW q \in Proc,
               fork(p, q) \/ cow_fork(p, q) \/ \E n \in 0 .. MaxSize - 1 : cow_forkFails(p, q, n)
        PROVE  Image' = Image \/ Private!Next
    <3>1. Image' = Image \/ Private!Fork(p, q)
      BY <2>1, forkMaps, cow_forkMaps, forkFailsKeeps, Zenon
    <3> QED BY <3>1, Zenon DEF Private!Next
  <2>2. ASSUME NEW a, NEW v \in Val, Store(p, a, v) PROVE Private!Next
    <3>1. a \in DOMAIN Image[p] /\ Private!Store(p, a, v)
      BY <2>2, StoreMaps, Zenon
    <3> QED BY <3>1, Zenon DEF Private!Next
  <2>3. ASSUME NEW a, NEW new \in Page, FaultCopy(p, a, new) PROVE Image' = Image
    BY <2>3, FaultCopyKeeps, Zenon
  <2>4. ASSUME NEW a, FaultTake(p, a) PROVE Image' = Image
    BY <2>4, FaultTakeKeeps, Zenon
  <2>5. ASSUME Exits(p) PROVE Image' = Image \/ Private!Next
    <3>1. Image' = Image \/ Private!Exit(p)
      BY <2>5, ExitsMaps, Zenon
    <3> QED BY <3>1, Zenon DEF Private!Next
  <2>6. ASSUME NEW a, KernelStore(p, a) PROVE Image' = Image
    BY <2>6, FlagsKeep, Zenon DEF KernelStore
  <2>7. ASSUME (\E new \in Page : Grow(p, new)) \/ \E n \in 1 .. MaxSize : exec(p, n)
        PROVE  Private!Next
    <3>1. Private!Grow(p) \/ Private!Exec(p)
      BY <2>7, GrowMaps, execMaps, Zenon
    <3> QED BY <3>1, Zenon DEF Private!Next
  <2>8. CASE Shrink(p)
    <3>1. Private!Shrink(p)
      BY <2>8, ShrinkMaps, Zenon
    <3> QED BY <3>1, Zenon DEF Private!Next
  <2>9. CASE wait(p) \/ cow_wait(p)
    BY <2>9, ReapedKeeps, Zenon
  <2>10. ASSUME NEW S, GivesBack(S) PROVE Image' = Image
    BY <1>2, <2>10, GivesBackFails, FailedKeeps, Zenon
  <2> QED BY <1>2, <2>1, <2>2, <2>3, <2>4, <2>5, <2>6, <2>7, <2>8, <2>9, <2>10, Zenon
      DEF Step, FaultKill, exit, forkFails, GrowFails, execFails
<1>3. ASSUME NEW p \in Proc, LosesPage(p) PROVE Image' = Image
  <2>1. ASSUME NEW S, NEW new \in freelist, Unmapped(S, new) PROVE Image' = Image
    BY <2>1, UnmappedFails, FailedKeeps, Zenon
  <2>2. ASSUME NEW q \in Proc, NEW S \in SUBSET freelist, NEW new \in freelist,
               forkUnmapped(p, q, S, new)
        PROVE  Image' = Image
    BY <2>2, forkUnmappedFails, FailedKeeps, Zenon
  <2> QED BY <1>3, <2>1, <2>2, Zenon DEF LosesPage, GrowUnmapped, execUnmapped
<1> QED BY <1>1, <1>2, <1>3, Zenon DEF Next

(* Sharing is invisible: whatever fork, cow_fork, the faults of            *)
(* cow_copyuvm, sbrk, exec and the two waits do to frames, counters and    *)
(* flags, each process sees a memory of its own, which starts as a copy of *)
(* its parent's and which nobody else changes.                             *)
THEOREM CowPrivate == ASSUME Disciplined PROVE Spec => PrivateMemory
<1>1. Init => Private!Init
  <2> SUFFICES ASSUME Init PROVE Private!Init
    BY Zenon
  <2>1. PICK x \in Page :
          /\ pstate = [q \in Proc |-> IF q = initproc THEN "RUNNABLE" ELSE "UNUSED"]
          /\ pt = [q \in Proc |-> IF q = initproc THEN <<Fresh(x)>> ELSE <<>>]
          /\ mem = [y \in Page |-> IF y = x THEN "one" ELSE "junk"]
    BY Zenon DEF Init
  <2>2. mem[x] = "one" /\ "one" \in Val /\ initproc \in Proc
    BY <2>1, CowAssumption, Zenon DEF Val
  <2>3. ASSUME NEW r \in Proc PROVE Image[r] = IF r = initproc THEN <<"one">> ELSE <<>>
    <3>1. CASE r = initproc
      <4>1. Image[r] = [c \in DOMAIN pt[r] |-> mem[pt[r][c].pa]]
        BY <2>1, <3>1, Images, Zenon
      <4>2. pt[r] = <<Fresh(x)>>
        BY <2>1, <3>1, Zenon
      <4>3. DOMAIN pt[r] = 1 .. 1 /\ \A c \in 1 .. 1 : pt[r][c].pa = x
        BY <4>2 DEF Fresh
      <4>4. Image[r] = [c \in 1 .. 1 |-> "one"]
        BY <2>2, <4>1, <4>3, Zenon
      <4>5. <<"one">> = [c \in 1 .. 1 |-> "one"]
        OBVIOUS
      <4> QED BY <3>1, <4>4, <4>5, Zenon
    <3>2. CASE r # initproc
      <4>1. pstate[r] = "UNUSED"
        BY <2>1, <3>2, Zenon
      <4> QED BY <3>2, <4>1, Images, Zenon
    <3> QED BY <3>1, <3>2, Zenon
  <2>4. Image = [r \in Proc |-> Image[r]]
    BY Zenon DEF Image
  <2>5. Image = [r \in Proc |-> IF r = initproc THEN <<"one">> ELSE <<>>]
    BY <2>3, <2>4, Zenon
  <2> QED BY <2>2, <2>5, Zenon DEF Private!Init
<1>2. Inv /\ Inv' /\ [Next]_vars => [Private!Next]_Image
  BY MapsStep, Zenon
<1> QED BY <1>1, <1>2, Always, PTL DEF Spec, PrivateMemory, Private!Spec
=============================================================================

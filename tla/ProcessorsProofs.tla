-------------------------- MODULE ProcessorsProofs --------------------------
(***************************************************************************)
(* The spin locks and the start of the processors: for any number of CPUs, *)
(* threads and locks, and for any number of processors that low memory has *)
(* stacks for.                                                             *)
(***************************************************************************)
EXTENDS Processors, Sequences, TLAPS

(***************************************************************************)
(* The inductive invariant.  FrameOK is about one frame, SavedOK about a   *)
(* frame that an interrupt has suspended, ParkedOK about the frame of a    *)
(* flow that no CPU executes; CpuOK relates a CPU to the frame it is in:   *)
(* ncli counts the locks, the flag is off while there are some, and intena *)
(* is what the flag was before the first of them.                          *)
(***************************************************************************)
Plain(x) == x.kind \in {"base", "irq"}
IsBase(x) == x.kind = "base"
Counts(S, n) ==
    /\ n \in Nat
    /\ \E s \in [1 .. n -> S] : /\ \A i, j \in 1 .. n : s[i] = s[j] => i = j
                               /\ \A l \in S : \E i \in 1 .. n : s[i] = l
Pending(x) == x.at \in {"xchg", "popcli"}
HalfOwned(x, l) == x.at \in {"owner", "unlock"} /\ x.lk = l

FrameOK(x) ==
    /\ x.at \in {"cli", "xchg"} => x.lk \notin x.held
    /\ x.at \in {"owner", "unlock"} => x.lk \in x.held
    /\ x.at = "sti" => x.kind = "sched" /\ x.held = {}
    /\ x.kind = "sched" => x.lk = ptable /\ x.held \subseteq {ptable}
    /\ x.kind = "sched" /\ x.at = "popcli" => x.held = {}
    /\ x.at = "resume" /\ Plain(x) => (x.flag <=> IsBase(x))

SavedOK(x) ==
    /\ x.held = {} /\ x.kind # "irq" /\ x.at \in {"run", "cli", "sti"}
    /\ x.at = "cli" => x.flag
    /\ x.at = "sti" => x.kind = "sched"
    /\ x.kind = "sched" => x.lk = ptable

ParkedOK(f) ==
    /\ ctx[f].held = {}
    /\ ctx[f].at = "resume" \/ (ctx[f].at = "run" /\ ~ Plain(ctx[f]))
    /\ f \in CPUs => ctx[f].at = "run" /\ ctx[f].kind = "sched"

CpuOK(c) ==
    /\ Pending(Spin!Now(c)) => Counts(Spin!Now(c).held, ncli[c] - 1)
    /\ ~ Pending(Spin!Now(c)) => Counts(Spin!Now(c).held, ncli[c])
    /\ FL_IF[c] => ncli[c] = 0
    /\ Spin!Now(c).at = "resume" => Spin!Now(c).held = {ptable}
    /\ Spin!Now(c).at = "cli" => (Spin!Now(c).flag <=> FL_IF[c])
    /\ Plain(Spin!Now(c)) /\ Spin!Now(c).at # "resume" =>
          IF ncli[c] = 0 THEN FL_IF[c] <=> IsBase(Spin!Now(c))
                         ELSE intena[c] <=> IsBase(Spin!Now(c))

OwnsOK(c) ==
    \A l \in Spin!Now(c).held : /\ locked[l]
                                /\ lkcpu[l] = IF HalfOwned(Spin!Now(c), l) THEN NoCPU ELSE c

Parked(f) == \A c \in CPUs : on[c] # f

Placed ==
    /\ \A c \in CPUs : on[c] \in Threads \cup {c}
    /\ \A c, d \in CPUs : c # d => on[c] # on[d]

SpinInv ==
    /\ Spin!TypeOK
    /\ ~ spinpanic
    /\ Placed
    /\ \A f \in Spin!Flows : FrameOK(ctx[f])
    /\ \A f \in Spin!Flows : \A i \in DOMAIN saved[f] : SavedOK(saved[f][i])
    /\ \A f \in Spin!Flows : Parked(f) => ParkedOK(f)
    /\ \A c \in CPUs : CpuOK(c)
    /\ \A c \in CPUs : OwnsOK(c)
    /\ \A c, d \in CPUs : c # d => Spin!Now(c).held \cap Spin!Now(d).held = {}
    /\ \A l \in Locks : IF locked[l] THEN \E c \in CPUs : l \in Spin!Now(c).held
                                    ELSE lkcpu[l] = NoCPU

-----------------------------------------------------------------------------
(***************************************************************************)
(* Counting the locks of a frame.                                          *)
(***************************************************************************)

\* No lock counts 0, and one counts 1.
LEMMA HeldCount == ASSUME NEW S, NEW n, Counts(S, n) PROVE n \in Nat /\ (n = 0 <=> S = {})
<1>1. PICK s \in [1 .. n -> S] : \A l \in S : \E i \in 1 .. n : s[i] = l
  BY Zenon DEF Counts
<1>2. n \in Nat
  BY Zenon DEF Counts
<1>3. n = 0 => S = {}
  BY <1>1
<1>4. n # 0 => 1 \in 1 .. n
  BY <1>2
<1>5. n # 0 => S # {}
  BY <1>1, <1>4
<1> QED BY <1>2, <1>3, <1>5, Zenon

LEMMA HeldOne == ASSUME NEW l, NEW n PROVE (Counts({l}, n) <=> n = 1) /\ (Counts({}, n) <=> n = 0)
<1>1. Counts({l}, 1)
  <2>1. [i \in 1 .. 1 |-> l] \in [1 .. 1 -> {l}]
    OBVIOUS
  <2>2. \A i, j \in 1 .. 1 : i = j
    OBVIOUS
  <2>3. \A k \in {l} : \E i \in 1 .. 1 : [m \in 1 .. 1 |-> l][i] = k
    OBVIOUS
  <2> QED BY <2>1, <2>2, <2>3, Zenon DEF Counts
<1>2. Counts({}, 0)
  <2>1. [i \in 1 .. 0 |-> i] \in [1 .. 0 -> {}] /\ \A i \in 1 .. 0 : FALSE
    OBVIOUS
  <2> QED BY <2>1, Zenon DEF Counts
<1>3. ASSUME Counts({l}, n) PROVE n = 1
  <2>1. n \in Nat /\ n # 0
    BY <1>3, HeldCount, Zenon
  <2>2. PICK s \in [1 .. n -> {l}] : \A i, j \in 1 .. n : s[i] = s[j] => i = j
    BY <1>3, Zenon DEF Counts
  <2>3. \A i, j \in 1 .. n : i = j
    BY <2>2
  <2>4. 1 \in 1 .. n /\ (n # 1 => 2 \in 1 .. n)
    BY <2>1
  <2> QED BY <2>3, <2>4
<1>4. ASSUME Counts({}, n) PROVE n = 0
  <2>1. PICK S : S = {}
    BY Zenon
  <2>2. Counts(S, n)
    BY <1>4, <2>1
  <2> QED BY <2>1, <2>2, HeldCount, Zenon
<1> QED BY <1>1, <1>2, <1>3, <1>4, Zenon

\* Xchg adds one lock.
LEMMA HeldAdd ==
    ASSUME NEW S, NEW n, Counts(S, n), NEW l, l \notin S
    PROVE  Counts(S \cup {l}, n + 1)
<1>1. PICK s \in [1 .. n -> S] : /\ \A i, j \in 1 .. n : s[i] = s[j] => i = j
                                 /\ \A k \in S : \E i \in 1 .. n : s[i] = k
  BY Zenon DEF Counts
<1>2. n \in Nat /\ n + 1 \in Nat
  BY DEF Counts
<1>3. PICK z : z = [i \in 1 .. n + 1 |-> IF i = n + 1 THEN l ELSE s[i]]
  BY Zenon
<1>4. \A i \in 1 .. n + 1 : i = n + 1 \/ i \in 1 .. n
  BY <1>2
<1>5. /\ n + 1 \in 1 .. n + 1 /\ n + 1 \notin 1 .. n
      /\ \A i \in 1 .. n : i \in 1 .. n + 1 /\ i # n + 1
  BY <1>2
<1>6. z[n + 1] = l /\ \A i \in 1 .. n : z[i] = s[i] /\ s[i] \in S
  BY <1>3, <1>5
<1>7. z \in [1 .. n + 1 -> S \cup {l}]
  BY <1>3, <1>4
<1>8. \A i, j \in 1 .. n + 1 : z[i] = z[j] => i = j
  BY <1>1, <1>4, <1>6
<1>9. \A k \in S \cup {l} : \E i \in 1 .. n + 1 : z[i] = k
  BY <1>1, <1>5, <1>6
<1> QED BY <1>2, <1>7, <1>8, <1>9, Zenon DEF Counts

\* Unlock removes one lock.
LEMMA HeldRemove ==
    ASSUME NEW S, NEW n, Counts(S, n), NEW l \in S
    PROVE  n # 0 /\ Counts(S \ {l}, n - 1)
<1>1. PICK s \in [1 .. n -> S] : /\ \A i, j \in 1 .. n : s[i] = s[j] => i = j
                                 /\ \A k \in S : \E i \in 1 .. n : s[i] = k
  BY Zenon DEF Counts
<1>2. n \in Nat /\ n # 0 /\ n - 1 \in Nat
  <2>1. n \in Nat /\ n # 0
    BY HeldCount, Zenon
  <2> QED BY <2>1
<1>3. PICK m \in 1 .. n : s[m] = l
  BY <1>1
<1>4. PICK z : z = [i \in 1 .. n - 1 |-> IF i = m THEN s[n] ELSE s[i]]
  BY Zenon
<1>5. /\ n \in 1 .. n /\ \A i \in 1 .. n - 1 : i \in 1 .. n /\ i # n
      /\ \A i \in 1 .. n : i = n \/ i \in 1 .. n - 1
  BY <1>2
<1>6. /\ \A i \in 1 .. n - 1 : z[i] = IF i = m THEN s[n] ELSE s[i]
      /\ \A i \in 1 .. n - 1 : z[i] \in S /\ z[i] # l
  BY <1>1, <1>3, <1>4, <1>5
<1>7. z \in [1 .. n - 1 -> S \ {l}]
  BY <1>4, <1>6
<1>8. \A i, j \in 1 .. n - 1 : z[i] = z[j] => i = j
  BY <1>1, <1>5, <1>6
<1>9. ASSUME NEW k \in S \ {l} PROVE \E i \in 1 .. n - 1 : z[i] = k
  <2>1. PICK i \in 1 .. n : s[i] = k
    BY <1>1
  <2>2. i # m
    BY <1>3, <1>9, <2>1
  <2>3. CASE i = n
    <3>1. m \in 1 .. n - 1
      BY <1>5, <2>2, <2>3
    <3> QED BY <1>6, <2>1, <2>3, <3>1
  <2>4. CASE i # n
    BY <1>5, <1>6, <2>1, <2>2, <2>4
  <2> QED BY <2>3, <2>4
<1> QED BY <1>2, <1>7, <1>8, <1>9, Zenon DEF Counts

\* The frame of the flow a CPU executes is a frame, and its locks are locks.
LEMMA NowType ==
    ASSUME Spin!TypeOK, NEW c \in CPUs
    PROVE  /\ on[c] \in Spin!Flows /\ Spin!Now(c) \in Spin!Frames /\ Spin!Now(c) = ctx[on[c]]
           /\ Spin!Now(c).held \in SUBSET Locks /\ Spin!Now(c).lk \in Locks
           /\ Spin!Now(c).flag \in BOOLEAN /\ Spin!Now(c).kind \in Spin!Kinds
           /\ Spin!Now(c).at \in Spin!Ats
BY DEF Spin!TypeOK, Spin!Now, Spin!Frames

-----------------------------------------------------------------------------
(***************************************************************************)
(* All actions but Sched and Swtch change the frame of one CPU c, what is  *)
(* CPU c's own, and locks that no other CPU's flow has.  What is to be     *)
(* shown of them is about c alone.                                         *)
(***************************************************************************)
LocalTo(c, g) ==
    /\ Spin!Goes(c, g) /\ UNCHANGED <<on, spinpanic>>
    /\ \A d \in CPUs \ {c} : ncli'[d] = ncli[d] /\ intena'[d] = intena[d] /\ FL_IF'[d] = FL_IF[d]
    /\ \A d \in CPUs \ {c} : \A l \in Spin!Now(d).held :
          locked'[l] = locked[l] /\ lkcpu'[l] = lkcpu[l]
    /\ \A d \in CPUs \ {c} : g.held \cap Spin!Now(d).held = {}
    /\ \A l \in Locks : IF locked'[l] THEN l \in g.held \/ (locked[l] /\ l \notin Spin!Now(c).held)
                                     ELSE lkcpu'[l] = NoCPU

\* Another CPU keeps its frame in such a step, and c has the new one.
LEMMA LocalFrames ==
    ASSUME SpinInv, NEW c \in CPUs, NEW g \in Spin!Frames, Spin!Goes(c, g), on' = on
    PROVE  /\ Spin!Now(c)' = g
           /\ \A d \in CPUs \ {c} : Spin!Now(d)' = Spin!Now(d)
           /\ \A f \in Spin!Flows : ctx'[f] = IF f = on[c] THEN g ELSE ctx[f]
           /\ ctx' \in [Spin!Flows -> Spin!Frames]
<1>1. ctx \in [Spin!Flows -> Spin!Frames] /\ on \in [CPUs -> Spin!Flows] /\ Placed
  BY Zenon DEF SpinInv, Spin!TypeOK
<1> QED BY <1>1 DEF Spin!Goes, Spin!Now, Placed

\* The rest of the invariant follows from what concerns c.
LEMMA LocalStep ==
    ASSUME SpinInv, NEW c \in CPUs, NEW g \in Spin!Frames, LocalTo(c, g),
           Spin!TypeOK', FrameOK(g), CpuOK(c)', OwnsOK(c)',
           \A f \in Spin!Flows : \A i \in DOMAIN saved'[f] : SavedOK(saved'[f][i])
    PROVE  SpinInv'
<1>0. on' = on /\ Spin!Goes(c, g)
  BY Zenon DEF LocalTo
<1>1. /\ Spin!Now(c)' = g
      /\ \A d \in CPUs \ {c} : Spin!Now(d)' = Spin!Now(d)
      /\ \A f \in Spin!Flows : ctx'[f] = IF f = on[c] THEN g ELSE ctx[f]
  BY <1>0, LocalFrames
<1>2. ~ spinpanic'
  BY Zenon DEF SpinInv, LocalTo
<1>3. Placed'
  BY <1>0, Zenon DEF SpinInv, Placed
<1>4. \A f \in Spin!Flows : FrameOK(ctx[f])'
  BY <1>1 DEF SpinInv, FrameOK, Plain, IsBase
<1>5. ASSUME NEW f \in Spin!Flows, Parked(f)' PROVE ParkedOK(f)'
  <2>1. Parked(f) /\ f # on[c]
    BY <1>0, <1>5, Zenon DEF Parked
  <2>2. ParkedOK(f) /\ ctx'[f] = ctx[f]
    BY <1>1, <2>1, Zenon DEF SpinInv
  <2> QED BY <2>2, Zenon DEF ParkedOK, Plain
<1>6. ASSUME NEW d \in CPUs PROVE CpuOK(d)' /\ OwnsOK(d)'
  <2>1. CASE d = c
    BY <2>1, Zenon
  <2>2. CASE d # c
    <3>1. CpuOK(d) /\ OwnsOK(d) /\ Spin!Now(d)' = Spin!Now(d)
      BY <1>1, <2>2, Zenon DEF SpinInv
    <3>2. ncli'[d] = ncli[d] /\ intena'[d] = intena[d] /\ FL_IF'[d] = FL_IF[d]
      BY <2>2, Zenon DEF LocalTo
    <3>3. \A l \in Spin!Now(d).held : locked'[l] = locked[l] /\ lkcpu'[l] = lkcpu[l]
      BY <2>2, Zenon DEF LocalTo
    <3>4. CpuOK(d)'
      BY <3>1, <3>2 DEF CpuOK, Pending, Plain, IsBase
    <3>5. OwnsOK(d)'
      BY <3>1, <3>3, SMTT(30) DEF OwnsOK, HalfOwned
    <3> QED BY <3>4, <3>5, Zenon
  <2> QED BY <2>1, <2>2, Zenon
<1>7. ASSUME NEW d \in CPUs, NEW e \in CPUs, d # e
      PROVE  (Spin!Now(d)').held \cap (Spin!Now(e)').held = {}
  BY <1>1, <1>7 DEF SpinInv, LocalTo
<1>8. ASSUME NEW l \in Locks, locked'[l] PROVE \E d \in CPUs : l \in (Spin!Now(d)').held
  <2>1. CASE l \in g.held
    BY <1>1, <2>1, Zenon
  <2>2. CASE l \notin g.held
    <3>1. locked[l] /\ l \notin Spin!Now(c).held
      BY <1>8, <2>2, Zenon DEF LocalTo
    <3>2. PICK d \in CPUs : l \in Spin!Now(d).held
      BY <3>1, Zenon DEF SpinInv
    <3> QED BY <1>1, <3>1, <3>2, Zenon
  <2> QED BY <2>1, <2>2, Zenon
<1>9. \A l \in Locks : ~ locked'[l] => lkcpu'[l] = NoCPU
  BY Zenon DEF LocalTo
<1>10. \A l \in Locks : IF locked'[l] THEN \E d \in CPUs : l \in (Spin!Now(d)').held
                         ELSE lkcpu'[l] = NoCPU
  BY <1>8, <1>9, Zenon
<1> QED BY <1>2, <1>3, <1>4, <1>5, <1>6, <1>7, <1>10, Zenon DEF SpinInv

\* What the invariant says of one CPU and of its frame.
LEMMA Here ==
    ASSUME SpinInv, NEW c \in CPUs
    PROVE  /\ Spin!TypeOK /\ CpuOK(c) /\ OwnsOK(c) /\ FrameOK(Spin!Now(c))
           /\ \A d \in CPUs \ {c} : OwnsOK(d) /\ Spin!Now(c).held \cap Spin!Now(d).held = {}
           /\ \A f \in Spin!Flows : \A i \in DOMAIN saved[f] : SavedOK(saved[f][i])
           /\ \A l \in Locks : ~ locked[l] => lkcpu[l] = NoCPU
BY NowType DEF SpinInv

\* The same facts one at a time, for the steps that need one of them.
LEMMA HereCpu == ASSUME SpinInv, NEW c \in CPUs PROVE CpuOK(c)
BY Zenon DEF SpinInv

LEMMA HereOwns == ASSUME SpinInv, NEW c \in CPUs PROVE OwnsOK(c)
BY Zenon DEF SpinInv

LEMMA HereTypes ==
    ASSUME SpinInv
    PROVE  /\ ncli \in [CPUs -> Nat] /\ FL_IF \in [CPUs -> BOOLEAN] /\ on \in [CPUs -> Spin!Flows]
           /\ saved \in [Spin!Flows -> Seq(Spin!Frames)] /\ lkcpu \in [Locks -> CPUs \cup {NoCPU}]
           /\ locked \in [Locks -> BOOLEAN]
BY Zenon DEF SpinInv, Spin!TypeOK

(***************************************************************************)
(* acquire.                                                                *)
(***************************************************************************)

\* The flags are read: nothing but the frame changes.
LEMMA ReadFlagsStep == ASSUME SpinInv, NEW c \in CPUs, Spin!ReadFlags(c) PROVE SpinInv'
<1>1. PICK l \in Locks : /\ Spin!MayTake(Spin!Now(c), l)
                         /\ Spin!Goes(c, [Spin!Now(c) EXCEPT !.at = "cli", !.lk = l, !.flag = FL_IF[c]])
  BY Zenon DEF Spin!ReadFlags
<1> DEFINE x == Spin!Now(c)
           g == [x EXCEPT !.at = "cli", !.lk = l, !.flag = FL_IF[c]]
<1>2. UNCHANGED <<locked, lkcpu, ncli, intena, FL_IF, on, saved, spinpanic>>
  BY Zenon DEF Spin!ReadFlags
<1>3. x \in Spin!Frames /\ x.held \in SUBSET Locks /\ x.at = "run" /\ FL_IF[c] \in BOOLEAN
  BY <1>1, Here, NowType, Zenon DEF Spin!MayTake, Spin!TypeOK
<1>4. /\ g \in Spin!Frames
      /\ g.kind = x.kind /\ g.at = "cli" /\ g.lk = l /\ g.flag = FL_IF[c] /\ g.held = x.held
  BY <1>3, Zenon DEF Spin!Frames, Spin!Ats
<1> HIDE DEF g
<1>5. Spin!Goes(c, g)
  BY <1>1, Zenon DEF g
<1>6. Spin!Now(c)' = g /\ ctx' \in [Spin!Flows -> Spin!Frames]
  BY <1>2, <1>4, <1>5, LocalFrames, Zenon
<1>7. Spin!TypeOK'
  BY <1>2, <1>6, Here, Zenon DEF Spin!TypeOK
<1>8. FrameOK(g)
  BY <1>1, <1>3, <1>4, Here DEF FrameOK, Spin!MayTake
<1>9. CpuOK(c)'
  BY <1>2, <1>3, <1>4, <1>6, Here DEF CpuOK, Pending, Plain, IsBase
<1>10. OwnsOK(c)'
  BY <1>2, <1>3, <1>4, <1>6, Here DEF OwnsOK, HalfOwned
<1>11. LocalTo(c, g)
  BY <1>2, <1>4, <1>5, Here, Zenon DEF LocalTo
<1>12. \A f \in Spin!Flows : \A i \in DOMAIN saved'[f] : SavedOK(saved'[f][i])
  BY <1>2, Here, Zenon
<1> QED BY <1>4, <1>7, <1>8, <1>9, <1>10, <1>11, <1>12, LocalStep, Zenon

\* pushcli.  This CPU cannot have the lock: then its own flow would.
LEMMA PushcliStep == ASSUME SpinInv, NEW c \in CPUs, Spin!Pushcli(c) PROVE SpinInv'
<1> DEFINE x == Spin!Now(c)
           g == [x EXCEPT !.at = "xchg"]
<1>1. /\ x \in Spin!Frames /\ x.held \in SUBSET Locks /\ x.lk \in Locks /\ x.at = "cli"
      /\ x.flag \in BOOLEAN
  BY Here, NowType, Zenon DEF Spin!Pushcli
<1>2. ~ Spin!Holding(x.lk, c)
  <2> SUFFICES ASSUME Spin!Holding(x.lk, c) PROVE FALSE
    BY Zenon
  <2>1. PICK d \in CPUs : x.lk \in Spin!Now(d).held
    BY <1>1, Zenon DEF Spin!Holding, SpinInv
  <2>2. OwnsOK(d) /\ lkcpu[x.lk] = c /\ NoCPU \notin CPUs
    BY CpuAssumption, Zenon DEF Spin!Holding, SpinInv
  <2>3. x.lk \in x.held
    BY <2>1, <2>2, Zenon DEF OwnsOK
  <2> QED BY <1>1, <2>3, Here, Zenon DEF FrameOK
<1>3. /\ Spin!pushcli(c) /\ Spin!Goes(c, g)
      /\ UNCHANGED <<locked, lkcpu, on, saved, spinpanic>>
  BY <1>2, Zenon DEF Spin!Pushcli
<1>4. g \in Spin!Frames /\ g.kind = x.kind /\ g.at = "xchg" /\ g.lk = x.lk /\ g.held = x.held
  BY <1>1, Zenon DEF Spin!Frames, Spin!Ats
<1> HIDE DEF g
<1>5. Spin!Now(c)' = g /\ ctx' \in [Spin!Flows -> Spin!Frames]
  BY <1>3, <1>4, LocalFrames, Zenon
<1>6. /\ ncli'[c] = ncli[c] + 1 /\ FL_IF'[c] = FALSE
      /\ intena'[c] = IF ncli[c] = 0 THEN x.flag ELSE intena[c]
      /\ ncli[c] \in Nat
  BY <1>3, Here, Zenon DEF Spin!pushcli, Spin!TypeOK
<1>7. Spin!TypeOK'
  BY <1>1, <1>3, <1>5, Here DEF Spin!TypeOK, Spin!pushcli
<1>8. FrameOK(g)
  BY <1>1, <1>4, Here DEF FrameOK
<1>9. CpuOK(c)'
  <2>1. Counts(x.held, ncli[c])
    BY <1>1, Here, Zenon DEF CpuOK, Pending
  <2>2. Plain(x) => IF ncli[c] = 0 THEN x.flag <=> IsBase(x) ELSE intena[c] <=> IsBase(x)
    BY <1>1, Here, Zenon DEF CpuOK
  <2>3. Plain(g) => (intena'[c] <=> IsBase(g))
    BY <1>4, <1>6, <2>2, Zenon DEF Plain, IsBase
  <2>4. Pending(g)
    BY <1>4, Zenon DEF Pending
  <2> QED BY <1>4, <1>5, <1>6, <2>1, <2>3, <2>4 DEF CpuOK
<1>10. OwnsOK(c)'
  BY <1>1, <1>3, <1>4, <1>5, Here DEF OwnsOK, HalfOwned
<1>11. LocalTo(c, g)
  BY <1>3, <1>4, Here DEF LocalTo, Spin!pushcli, Spin!TypeOK
<1>12. \A f \in Spin!Flows : \A i \in DOMAIN saved'[f] : SavedOK(saved'[f][i])
  BY <1>3, Here, Zenon
<1> QED BY <1>4, <1>7, <1>8, <1>9, <1>10, <1>11, <1>12, LocalStep, Zenon

\* xchg finds the lock free, so nobody has it.
LEMMA XchgStep == ASSUME SpinInv, NEW c \in CPUs, Spin!Xchg(c) PROVE SpinInv'
<1> DEFINE x == Spin!Now(c)
           g == [x EXCEPT !.at = "owner", !.held = @ \cup {x.lk}]
<1>1. /\ x \in Spin!Frames /\ x.held \in SUBSET Locks /\ x.lk \in Locks
      /\ x.at = "xchg" /\ ~ locked[x.lk] /\ \A d \in CPUs : x.lk \notin Spin!Now(d).held
  BY Here, NowType DEF Spin!Xchg, OwnsOK, SpinInv
<1>2. /\ locked' = [locked EXCEPT ![x.lk] = TRUE] /\ Spin!Goes(c, g)
      /\ UNCHANGED <<lkcpu, ncli, intena, FL_IF, on, saved, spinpanic>>
  BY Zenon DEF Spin!Xchg
<1>3. lkcpu[x.lk] = NoCPU
  BY <1>1, Zenon DEF SpinInv
<1>4. /\ g \in Spin!Frames /\ g.kind = x.kind /\ g.at = "owner" /\ g.lk = x.lk
      /\ g.held = x.held \cup {x.lk}
  BY <1>1, Zenon DEF Spin!Frames, Spin!Ats
<1> HIDE DEF g
<1>5. Spin!Now(c)' = g /\ ctx' \in [Spin!Flows -> Spin!Frames]
  BY <1>2, <1>4, LocalFrames, Zenon
<1>6. ncli[c] \in Nat /\ ncli[c] # 0 /\ Counts(x.held, ncli[c] - 1) /\ Counts(g.held, ncli[c])
  <2>1. ncli[c] \in Nat /\ Counts(x.held, ncli[c] - 1)
    BY <1>1, Here, HereTypes, Zenon DEF CpuOK, Pending
  <2>2. ncli[c] # 0 /\ (ncli[c] - 1) + 1 = ncli[c]
    BY <2>1, HeldCount
  <2>3. Counts(g.held, (ncli[c] - 1) + 1)
    <3>1. x.lk \notin x.held
      BY <1>1, Here DEF FrameOK
    <3>2. Counts(x.held \cup {x.lk}, (ncli[c] - 1) + 1)
      BY <2>1, <3>1, HeldAdd, Zenon
    <3> QED BY <1>4, <3>2, Zenon
  <2> QED BY <2>1, <2>2, <2>3, Zenon
<1>7. Spin!TypeOK'
  BY <1>1, <1>2, <1>5, Here, Zenon DEF Spin!TypeOK
<1>8. FrameOK(g)
  BY <1>1, <1>4, Here DEF FrameOK
<1>9. CpuOK(c)'
  <2>1. FL_IF[c] => ncli[c] = 0
    BY Here, Zenon DEF CpuOK
  <2>2. Plain(x) => (intena[c] <=> IsBase(x))
    BY <1>1, <1>6, <2>1, HereCpu DEF CpuOK
  <2>3. (Plain(g) => (intena[c] <=> IsBase(g))) /\ ~ Pending(g)
    BY <1>4, <2>2, Zenon DEF Plain, IsBase, Pending
  <2>4. Counts(g.held, ncli'[c]) /\ ncli'[c] # 0 /\ ~ FL_IF'[c]
    BY <1>2, <1>6, <2>1, <2>3
  <2> QED BY <1>2, <1>4, <1>5, <2>3, <2>4, Zenon DEF CpuOK
<1>10. OwnsOK(c)'
  <2>1. \A l \in g.held : HalfOwned(g, l) <=> l = x.lk
    BY <1>4, Zenon DEF HalfOwned
  <2>2. \A l \in x.held : locked[l] /\ lkcpu[l] = c
    BY <1>1, HereOwns DEF OwnsOK, HalfOwned
  <2>3. \A l \in g.held : locked'[l] /\ lkcpu'[l] = IF l = x.lk THEN NoCPU ELSE c
    BY <1>1, <1>2, <1>3, <1>4, <2>2, HereTypes
  <2> QED BY <1>5, <2>1, <2>3, Zenon DEF OwnsOK
<1>11. LocalTo(c, g)
  <2>1. \A l \in Locks : locked'[l] = IF l = x.lk THEN TRUE ELSE locked[l]
    BY <1>1, <1>2, Here, Zenon DEF Spin!TypeOK
  <2>2. \A d \in CPUs : Spin!Now(d).held \in SUBSET Locks
    BY NowType, Here, Zenon
  <2>3. \A d \in CPUs \ {c} : g.held \cap Spin!Now(d).held = {}
    BY <1>1, <1>4, Here, Zenon
  <2>4. \A l \in Locks : IF locked'[l] THEN l \in g.held \/ (locked[l] /\ l \notin x.held)
                                      ELSE lkcpu'[l] = NoCPU
    BY <1>2, <1>4, <2>1, Here, Zenon
  <2> QED BY <1>1, <1>2, <2>1, <2>2, <2>3, <2>4, Zenon DEF LocalTo
<1>12. \A f \in Spin!Flows : \A i \in DOMAIN saved'[f] : SavedOK(saved'[f][i])
  BY <1>2, Here, Zenon
<1> QED BY <1>4, <1>7, <1>8, <1>9, <1>10, <1>11, <1>12, LocalStep, Zenon

\* lk->cpu is set: the lock is this CPU's.
LEMMA SetOwnerStep == ASSUME SpinInv, NEW c \in CPUs, Spin!SetOwner(c) PROVE SpinInv'
<1> DEFINE x == Spin!Now(c)
           g == Spin!Back(x, "run")
<1>1. /\ x \in Spin!Frames /\ x.held \in SUBSET Locks /\ x.at = "owner" /\ x.lk \in x.held
  BY Here, NowType, Zenon DEF Spin!SetOwner, FrameOK
<1>2. /\ lkcpu' = [lkcpu EXCEPT ![x.lk] = c] /\ Spin!Goes(c, g)
      /\ UNCHANGED <<locked, ncli, intena, FL_IF, on, saved, spinpanic>>
  BY Zenon DEF Spin!SetOwner
<1>4. g \in Spin!Frames /\ g.kind = x.kind /\ g.at = "run" /\ g.held = x.held
  BY <1>1, LockAssumption, Zenon DEF Spin!Frames, Spin!Ats, Spin!Back, Spin!Frame
<1> HIDE DEF g
<1>5. Spin!Now(c)' = g /\ ctx' \in [Spin!Flows -> Spin!Frames]
  BY <1>2, <1>4, LocalFrames, Zenon
<1>7. Spin!TypeOK'
  BY <1>1, <1>2, <1>5, Here, Zenon DEF Spin!TypeOK
<1>8. FrameOK(g)
  <2>1. g.lk = ptable
    BY Zenon DEF g, Spin!Back, Spin!Frame
  <2> QED BY <1>1, <1>4, <2>1, Here DEF FrameOK
<1>9. CpuOK(c)'
  <2>1. ~ Pending(g) /\ ~ Pending(x) /\ (Plain(g) <=> Plain(x)) /\ (IsBase(g) <=> IsBase(x))
    BY <1>1, <1>4, Zenon DEF Pending, Plain, IsBase
  <2>2. ncli'[c] = ncli[c] /\ FL_IF'[c] = FL_IF[c] /\ intena'[c] = intena[c]
    BY <1>2, Zenon
  <2> QED BY <1>1, <1>4, <1>5, <2>1, <2>2, HereCpu DEF CpuOK
<1>10. OwnsOK(c)'
  BY <1>1, <1>2, <1>4, <1>5, Here DEF OwnsOK, HalfOwned, Spin!TypeOK
<1>11. LocalTo(c, g)
  <2>1. \A l \in Locks : lkcpu'[l] = IF l = x.lk THEN c ELSE lkcpu[l]
    BY <1>1, <1>2, Here, Zenon DEF Spin!TypeOK
  <2>2. \A d \in CPUs : Spin!Now(d).held \in SUBSET Locks
    BY NowType, Here, Zenon
  <2>3. locked[x.lk] /\ \A d \in CPUs \ {c} : x.lk \notin Spin!Now(d).held
    BY <1>1, Here DEF OwnsOK
  <2>4. \A l \in Locks : IF locked'[l] THEN l \in g.held \/ (locked[l] /\ l \notin x.held)
                                      ELSE lkcpu'[l] = NoCPU
    BY <1>2, <1>4, <2>1, <2>3, Here
  <2> QED BY <1>2, <1>4, <2>1, <2>2, <2>3, <2>4, Here DEF LocalTo
<1>12. \A f \in Spin!Flows : \A i \in DOMAIN saved'[f] : SavedOK(saved'[f][i])
  BY <1>2, Here, Zenon
<1> QED BY <1>4, <1>7, <1>8, <1>9, <1>10, <1>11, <1>12, LocalStep, Zenon

-----------------------------------------------------------------------------
(***************************************************************************)
(* release.                                                                *)
(***************************************************************************)

\* lk->cpu is cleared.  The check of holding() cannot fail.
LEMMA ClearOwnerStep == ASSUME SpinInv, NEW c \in CPUs, Spin!ClearOwner(c) PROVE SpinInv'
<1> DEFINE x == Spin!Now(c)
<1>0. x \in Spin!Frames /\ x.held \in SUBSET Locks /\ x.at = "run"
  BY Here, NowType, Zenon DEF Spin!ClearOwner
<1>1. \A l \in x.held : Spin!Holding(l, c)
  BY <1>0, Here DEF Spin!Holding, OwnsOK, HalfOwned
<1>3. PICK l \in x.held : /\ lkcpu' = [lkcpu EXCEPT ![l] = NoCPU]
                          /\ Spin!Goes(c, [x EXCEPT !.at = "unlock", !.lk = l])
                          /\ UNCHANGED <<locked, ncli, intena, FL_IF, on, saved, spinpanic>>
  BY <1>1, Zenon DEF Spin!ClearOwner
<1> DEFINE g == [x EXCEPT !.at = "unlock", !.lk = l]
<1>2. /\ lkcpu' = [lkcpu EXCEPT ![l] = NoCPU] /\ Spin!Goes(c, g)
      /\ UNCHANGED <<locked, ncli, intena, FL_IF, on, saved, spinpanic>>
  BY <1>3, Zenon
<1>4. g \in Spin!Frames /\ g.kind = x.kind /\ g.at = "unlock" /\ g.lk = l /\ g.held = x.held
  BY <1>0, Zenon DEF Spin!Frames, Spin!Ats
<1> HIDE DEF g
<1>5. Spin!Now(c)' = g /\ ctx' \in [Spin!Flows -> Spin!Frames]
  BY <1>2, <1>4, LocalFrames, Zenon
<1>7. Spin!TypeOK'
  BY <1>2, <1>5, Here, Zenon DEF Spin!TypeOK
<1>8. FrameOK(g)
  BY <1>0, <1>4, Here DEF FrameOK
<1>9. CpuOK(c)'
  <2>1. /\ ~ Pending(x) /\ ~ Pending(g)
        /\ (Plain(g) <=> Plain(x)) /\ (IsBase(g) <=> IsBase(x))
    BY <1>0, <1>4, Zenon DEF Pending, Plain, IsBase
  <2>2. ncli'[c] = ncli[c] /\ intena'[c] = intena[c] /\ FL_IF'[c] = FL_IF[c]
    BY <1>2, Zenon
  <2> QED BY <1>0, <1>4, <1>5, <2>1, <2>2, HereCpu DEF CpuOK
<1>10. OwnsOK(c)'
  BY <1>0, <1>2, <1>4, <1>5, Here, Zenon DEF OwnsOK, HalfOwned, Spin!TypeOK
<1>11. LocalTo(c, g)
  BY <1>0, <1>2, <1>4, Here DEF LocalTo, Spin!TypeOK
<1>12. \A f \in Spin!Flows : \A i \in DOMAIN saved'[f] : SavedOK(saved'[f][i])
  BY <1>2, Here, Zenon
<1> QED BY <1>4, <1>7, <1>8, <1>9, <1>10, <1>11, <1>12, LocalStep, Zenon

\* lk->locked is cleared, for others to take.
LEMMA UnlockStep == ASSUME SpinInv, NEW c \in CPUs, Spin!Unlock(c) PROVE SpinInv'
<1> DEFINE x == Spin!Now(c)
           g == [x EXCEPT !.at = "popcli", !.held = @ \ {x.lk}]
<1>1. x \in Spin!Frames /\ x.held \in SUBSET Locks /\ x.at = "unlock" /\ x.lk \in x.held
  BY Here, NowType, Zenon DEF Spin!Unlock, FrameOK
<1>2. /\ locked' = [locked EXCEPT ![x.lk] = FALSE] /\ Spin!Goes(c, g)
      /\ UNCHANGED <<lkcpu, ncli, intena, FL_IF, on, saved, spinpanic>>
  BY Zenon DEF Spin!Unlock
<1>4. /\ g \in Spin!Frames /\ g.kind = x.kind /\ g.at = "popcli" /\ g.lk = x.lk
      /\ g.held = x.held \ {x.lk}
  BY <1>1, Zenon DEF Spin!Frames, Spin!Ats
<1> HIDE DEF g
<1>5. Spin!Now(c)' = g /\ ctx' \in [Spin!Flows -> Spin!Frames]
  BY <1>2, <1>4, LocalFrames, Zenon
<1>6. ncli[c] \in Nat /\ ncli[c] # 0 /\ Counts(g.held, ncli[c] - 1)
  <2>1. ncli[c] \in Nat /\ Counts(x.held, ncli[c])
    BY <1>1, Here, HereTypes, Zenon DEF CpuOK, Pending
  <2>2. x.lk \in x.held
    BY <1>1, Here DEF FrameOK
  <2>3. ncli[c] # 0 /\ Counts(x.held \ {x.lk}, ncli[c] - 1)
    BY <2>1, <2>2, HeldRemove, Zenon
  <2> QED BY <1>4, <2>1, <2>3, Zenon
<1>7. Spin!TypeOK'
  BY <1>1, <1>2, <1>5, Here, Zenon DEF Spin!TypeOK
<1>8. FrameOK(g)
  BY <1>1, <1>4, Here DEF FrameOK
<1>9. CpuOK(c)'
  <2>1. (FL_IF[c] => ncli[c] = 0) /\ ncli[c] # 0
    BY <1>6, HereCpu, Zenon DEF CpuOK
  <2>2. Plain(x) => (intena[c] <=> IsBase(x))
    BY <1>1, <2>1, HereCpu, Zenon DEF CpuOK
  <2>3. (Plain(g) => (intena[c] <=> IsBase(g))) /\ Pending(g)
    BY <1>4, <2>2, Zenon DEF Plain, IsBase, Pending
  <2>4. Counts(g.held, ncli'[c] - 1) /\ ncli'[c] # 0 /\ ~ FL_IF'[c]
    BY <1>2, <1>6, <2>1, <2>3
  <2> QED BY <1>2, <1>4, <1>5, <2>3, <2>4, Zenon DEF CpuOK
<1>10. OwnsOK(c)'
  <2> SUFFICES ASSUME NEW l \in g.held PROVE locked'[l] /\ lkcpu'[l] = c /\ ~ HalfOwned(g, l)
    BY <1>5, Zenon DEF OwnsOK
  <2>1. l \in x.held /\ l # x.lk /\ l \in Locks
    BY <1>1, <1>4, Zenon
  <2>2. locked[l] /\ lkcpu[l] = c
    BY <2>1, HereOwns, Zenon DEF OwnsOK, HalfOwned
  <2> QED BY <1>2, <1>4, <2>1, <2>2, HereTypes, Zenon DEF HalfOwned
<1>11. LocalTo(c, g)
  <2>1. \A l \in Locks : locked'[l] = IF l = x.lk THEN FALSE ELSE locked[l]
    BY <1>1, <1>2, Here, Zenon DEF Spin!TypeOK
  <2>2. \A d \in CPUs : Spin!Now(d).held \in SUBSET Locks
    BY NowType, Here, Zenon
  <2>3. \A d \in CPUs \ {c} : g.held \cap Spin!Now(d).held = {} /\ x.lk \notin Spin!Now(d).held
    BY <1>1, <1>4, Here, Zenon
  <2>4. lkcpu[x.lk] = NoCPU
    BY <1>1, Here DEF OwnsOK, HalfOwned
  <2>5. \A l \in Locks : IF locked'[l] THEN l \in g.held \/ (locked[l] /\ l \notin x.held)
                                      ELSE lkcpu'[l] = NoCPU
    BY <1>2, <1>4, <2>1, <2>4, Here, Zenon
  <2> QED BY <1>1, <1>2, <2>1, <2>2, <2>3, <2>5, Zenon DEF LocalTo
<1>12. \A f \in Spin!Flows : \A i \in DOMAIN saved'[f] : SavedOK(saved'[f][i])
  BY <1>2, Here, Zenon
<1> QED BY <1>4, <1>7, <1>8, <1>9, <1>10, <1>11, <1>12, LocalStep, Zenon

\* popcli.  Its checks cannot fail: the lock just released still counts.
LEMMA PopcliStep == ASSUME SpinInv, NEW c \in CPUs, Spin!Popcli(c) PROVE SpinInv'
<1> DEFINE x == Spin!Now(c)
           g == Spin!Back(x, IF x.kind = "sched" THEN "sti" ELSE "run")
<1>1. x \in Spin!Frames /\ x.held \in SUBSET Locks /\ x.at = "popcli"
  BY Here, NowType, Zenon DEF Spin!Popcli
<1>3. /\ ncli[c] \in Nat /\ ncli[c] # 0 /\ Counts(x.held, ncli[c] - 1)
      /\ ~ FL_IF[c] /\ (ncli[c] = 1 <=> x.held = {})
  <2>1. ncli[c] \in Nat /\ Counts(x.held, ncli[c] - 1) /\ (FL_IF[c] => ncli[c] = 0)
    BY <1>1, Here, HereTypes, Zenon DEF CpuOK, Pending
  <2>2. ncli[c] - 1 \in Nat /\ (ncli[c] - 1 = 0 <=> x.held = {})
    BY <2>1, HeldCount, Zenon
  <2> QED BY <2>1, <2>2
<1>2. /\ ncli' = [ncli EXCEPT ![c] = @ - 1]
      /\ FL_IF' = [FL_IF EXCEPT ![c] = @ \/ (ncli[c] = 1 /\ intena[c])]
      /\ Spin!Goes(c, g) /\ UNCHANGED <<locked, lkcpu, intena, on, saved, spinpanic>>
  BY <1>3 DEF Spin!Popcli
<1>4. /\ g \in Spin!Frames /\ g.kind = x.kind /\ g.held = x.held
      /\ g.at = IF x.kind = "sched" THEN "sti" ELSE "run"
  BY <1>1, LockAssumption, Zenon DEF Spin!Frames, Spin!Ats, Spin!Back, Spin!Frame
<1> HIDE DEF g
<1>5. Spin!Now(c)' = g /\ ctx' \in [Spin!Flows -> Spin!Frames]
  BY <1>2, <1>4, LocalFrames, Zenon
<1>6. /\ ncli'[c] = ncli[c] - 1 /\ Counts(x.held, ncli'[c])
      /\ (FL_IF'[c] <=> x.held = {} /\ intena[c])
  <2>1. ncli'[c] = ncli[c] - 1 /\ (FL_IF'[c] <=> FL_IF[c] \/ (ncli[c] = 1 /\ intena[c]))
    BY <1>2, HereTypes, Zenon
  <2> QED BY <1>3, <2>1, Zenon
<1>7. Spin!TypeOK'
  <2>1. ncli' \in [CPUs -> Nat] /\ FL_IF' \in [CPUs -> BOOLEAN]
    BY <1>2, <1>3, <1>6, Here DEF Spin!TypeOK
  <2> QED BY <1>2, <1>5, <2>1, Here, Zenon DEF Spin!TypeOK
<1>8. FrameOK(g)
  <2>1. x.kind = "sched" => x.held = {}
    BY <1>1, Here, Zenon DEF FrameOK
  <2>2. x.kind = "sched" => g.lk = ptable
    BY Zenon DEF g, Spin!Back, Spin!Frame
  <2> QED BY <1>4, <2>1, <2>2, Zenon DEF FrameOK
<1>9. CpuOK(c)'
  <2>1. Plain(x) => (intena[c] <=> IsBase(x))
    BY <1>1, <1>3, Here DEF CpuOK
  <2>2. /\ Plain(g) => (intena[c] <=> IsBase(g))
        /\ ~ Pending(g) /\ g.at \notin {"resume", "cli"}
    BY <1>4, <2>1, Zenon DEF Plain, IsBase, Pending
  <2>3. (FL_IF'[c] <=> ncli'[c] = 0 /\ intena[c]) /\ intena'[c] = intena[c]
    <3>1. ncli'[c] = 0 <=> x.held = {}
      BY <1>6, HeldCount, Zenon
    <3> QED BY <1>2, <1>6, <3>1, Zenon
  <2> QED BY <1>3, <1>4, <1>5, <1>6, <2>2, <2>3 DEF CpuOK
<1>10. OwnsOK(c)'
  <2>1. \A l \in x.held : ~ HalfOwned(x, l) /\ ~ HalfOwned(g, l)
    BY <1>1, <1>4, Zenon DEF HalfOwned
  <2> QED BY <1>2, <1>4, <1>5, <2>1, Here, Zenon DEF OwnsOK
<1>11. LocalTo(c, g)
  BY <1>1, <1>2, <1>4, Here DEF LocalTo, Spin!TypeOK
<1>12. \A f \in Spin!Flows : \A i \in DOMAIN saved'[f] : SavedOK(saved'[f][i])
  BY <1>2, Here, Zenon
<1> QED BY <1>4, <1>7, <1>8, <1>9, <1>10, <1>11, <1>12, LocalStep, Zenon

(***************************************************************************)
(* Interrupts.                                                             *)
(***************************************************************************)

\* An interrupt finds its CPU without locks and outside of a handler.
LEMMA InterruptStep == ASSUME SpinInv, NEW c \in CPUs, Spin!Interrupt(c) PROVE SpinInv'
<1> DEFINE x == Spin!Now(c)
           g == Spin!Frame("irq", "run")
<1>1. /\ x \in Spin!Frames /\ FL_IF[c] /\ ncli[c] = 0 /\ x.held = {} /\ ~ Pending(x)
  <2>1. x \in Spin!Frames /\ FL_IF[c] /\ ncli[c] = 0
    BY Here, NowType, Zenon DEF Spin!Interrupt, CpuOK
  <2>2. ~ Pending(x)
    <3>1. Pending(x) => Counts(x.held, 0 - 1)
      BY <2>1, Here, Zenon DEF CpuOK
    <3>2. 0 - 1 \notin Nat
      OBVIOUS
    <3> QED BY <3>1, <3>2, HeldCount, Zenon
  <2>3. Counts(x.held, 0)
    BY <2>1, <2>2, Here, Zenon DEF CpuOK
  <2> QED BY <2>1, <2>2, <2>3, HeldCount, Zenon
<1>2. /\ FL_IF' = [FL_IF EXCEPT ![c] = FALSE] /\ Spin!Goes(c, g)
      /\ saved' = [saved EXCEPT ![on[c]] = <<x>> \o @]
      /\ UNCHANGED <<locked, lkcpu, ncli, intena, on, spinpanic>>
  BY Zenon DEF Spin!Interrupt
<1>3. SavedOK(x)
  <2>1. x.at \notin {"xchg", "popcli", "owner", "unlock", "resume"}
    BY <1>1, Here DEF FrameOK, CpuOK, Pending
  <2>2. x.at \in {"run", "cli", "sti"}
    BY <2>1, NowType, Here, Zenon DEF Spin!Ats
  <2>3. x.kind # "irq"
    BY <1>1, <2>2, Here, Zenon DEF CpuOK, Plain, IsBase
  <2> QED BY <1>1, <2>2, <2>3, Here, Zenon DEF SavedOK, CpuOK, FrameOK
<1>4. g \in Spin!Frames /\ g.kind = "irq" /\ g.at = "run" /\ g.held = {}
  BY LockAssumption, Zenon DEF Spin!Frames, Spin!Ats, Spin!Kinds, Spin!Frame
<1> HIDE DEF g
<1>5. Spin!Now(c)' = g /\ ctx' \in [Spin!Flows -> Spin!Frames]
  BY <1>2, <1>4, LocalFrames, Zenon
<1>6. /\ on[c] \in Spin!Flows /\ saved[on[c]] \in Seq(Spin!Frames)
      /\ <<x>> \o saved[on[c]] \in Seq(Spin!Frames)
      /\ \A f \in Spin!Flows : saved'[f] = IF f = on[c] THEN <<x>> \o saved[on[c]] ELSE saved[f]
  <2>1. on[c] \in Spin!Flows /\ saved[on[c]] \in Seq(Spin!Frames)
    BY HereTypes, Zenon
  <2>2. <<x>> \o saved[on[c]] \in Seq(Spin!Frames)
    <3>1. <<x>> \in Seq(Spin!Frames)
      BY <1>1
    <3> QED BY <2>1, <3>1
  <2>3. \A f \in Spin!Flows : saved'[f] = IF f = on[c] THEN <<x>> \o saved[on[c]] ELSE saved[f]
    BY <1>2, HereTypes, Zenon
  <2> QED BY <2>1, <2>2, <2>3, Zenon
<1>7. Spin!TypeOK'
  BY <1>2, <1>5, <1>6, Here, Zenon DEF Spin!TypeOK
<1>8. FrameOK(g)
  BY <1>4, Zenon DEF FrameOK
<1>9. CpuOK(c)'
  <2>1. ncli'[c] = 0 /\ ~ FL_IF'[c] /\ ~ IsBase(g) /\ ~ Pending(g) /\ Counts(g.held, 0)
    BY <1>1, <1>2, <1>4, HeldOne, Here, Zenon DEF IsBase, Pending, Spin!TypeOK
  <2> QED BY <1>4, <1>5, <2>1 DEF CpuOK
<1>10. OwnsOK(c)'
  BY <1>1, <1>2, <1>4, <1>5, Here, Zenon DEF OwnsOK, HalfOwned
<1>11. LocalTo(c, g)
  BY <1>1, <1>2, <1>4, Here, Zenon DEF LocalTo, Spin!TypeOK
<1>12. ASSUME NEW f \in Spin!Flows, NEW i \in DOMAIN saved'[f] PROVE SavedOK(saved'[f][i])
  <2>1. CASE f = on[c]
    <3>0. /\ saved'[f] = <<x>> \o saved[f] /\ saved[f] \in Seq(Spin!Frames)
          /\ saved'[f] \in Seq(Spin!Frames)
      BY <1>6, <2>1, Zenon
    <3>1. /\ saved'[f] = <<x>> \o saved[f] /\ saved[f] \in Seq(Spin!Frames)
          /\ i \in 1 .. Len(saved'[f])
      BY <3>0
    <3>2. saved'[f][i] = IF i = 1 THEN x ELSE saved[f][i - 1]
      BY <3>1, <1>1
    <3>3. i # 1 => i - 1 \in DOMAIN saved[f]
      BY <3>1, <1>1
    <3> QED BY <1>3, <3>2, <3>3, Here, Zenon
  <2>2. CASE f # on[c]
    BY <1>6, <2>2, Here, Zenon
  <2> QED BY <2>1, <2>2, Zenon
<1> QED BY <1>4, <1>7, <1>8, <1>9, <1>10, <1>11, <1>12, LocalStep, Zenon

\* The interrupted code goes on as it was.
LEMMA IretStep == ASSUME SpinInv, NEW c \in CPUs, Spin!Iret(c) PROVE SpinInv'
<1> DEFINE x == Spin!Now(c)
           g == Head(saved[on[c]])
<1>1. /\ x \in Spin!Frames /\ x.at = "run" /\ x.held = {} /\ ncli[c] = 0
      /\ on[c] \in Spin!Flows /\ saved[on[c]] \in Seq(Spin!Frames) /\ saved[on[c]] # <<>>
  <2>1. /\ x \in Spin!Frames /\ x.at = "run" /\ x.held = {} /\ saved[on[c]] # <<>>
        /\ on[c] \in Spin!Flows /\ saved[on[c]] \in Seq(Spin!Frames)
    BY Here, NowType, Zenon DEF Spin!Iret, Spin!TypeOK
  <2>2. Counts({}, ncli[c])
    <3>1. ~ Pending(x) /\ CpuOK(c)
      BY <2>1, Here DEF Pending
    <3> QED BY <2>1, <3>1, Zenon DEF CpuOK
  <2> QED BY <2>1, <2>2, HeldOne, Zenon
<1>2. /\ FL_IF' = [FL_IF EXCEPT ![c] = TRUE] /\ Spin!Goes(c, g)
      /\ saved' = [saved EXCEPT ![on[c]] = Tail(@)]
      /\ UNCHANGED <<locked, lkcpu, ncli, intena, on, spinpanic>>
  BY Zenon DEF Spin!Iret
<1>3. g \in Spin!Frames /\ g = saved[on[c]][1] /\ 1 \in DOMAIN saved[on[c]]
  BY <1>1
<1>4. g \in Spin!Frames /\ SavedOK(g)
  BY <1>1, <1>3, Here
<1> HIDE DEF g
<1>5. Spin!Now(c)' = g /\ ctx' \in [Spin!Flows -> Spin!Frames]
  BY <1>2, <1>4, LocalFrames, Zenon
<1>6. /\ Tail(saved[on[c]]) \in Seq(Spin!Frames)
      /\ \A f \in Spin!Flows : saved'[f] = IF f = on[c] THEN Tail(saved[on[c]]) ELSE saved[f]
  <2>1. Tail(saved[on[c]]) \in Seq(Spin!Frames)
    BY <1>1, HereTypes
  <2>2. \A f \in Spin!Flows : saved'[f] = IF f = on[c] THEN Tail(saved[on[c]]) ELSE saved[f]
    BY <1>2, HereTypes, Zenon
  <2> QED BY <2>1, <2>2, Zenon
<1>7. Spin!TypeOK'
  BY <1>2, <1>5, <1>6, Here, Zenon DEF Spin!TypeOK
<1>8. FrameOK(g)
  BY <1>4, Zenon DEF FrameOK, SavedOK
<1>9. CpuOK(c)'
  <2>1. ncli'[c] = 0 /\ FL_IF'[c] /\ ~ Pending(g) /\ Counts(g.held, 0)
    BY <1>1, <1>2, <1>4, HeldOne, Here, Zenon DEF SavedOK, Pending, Spin!TypeOK
  <2>2. (Plain(g) => IsBase(g)) /\ g.at # "resume" /\ (g.at = "cli" => g.flag)
    BY <1>4, Zenon DEF SavedOK, Plain, IsBase
  <2> QED BY <1>5, <2>1, <2>2, SMTT(30) DEF CpuOK
<1>10. OwnsOK(c)'
  BY <1>4, <1>5, Zenon DEF OwnsOK, SavedOK
<1>11. LocalTo(c, g)
  BY <1>1, <1>2, <1>4, Here DEF LocalTo, Spin!TypeOK, SavedOK
<1>12. ASSUME NEW f \in Spin!Flows, NEW i \in DOMAIN saved'[f] PROVE SavedOK(saved'[f][i])
  <2>1. CASE f = on[c]
    <3>0. /\ saved'[f] = Tail(saved[f]) /\ saved'[f] \in Seq(Spin!Frames)
          /\ saved[f] \in Seq(Spin!Frames) /\ saved[f] # <<>>
      BY <1>1, <1>6, <2>1, Zenon
    <3>1. i \in 1 .. Len(saved'[f])
      BY <3>0
    <3>2. saved'[f][i] = saved[f][i + 1] /\ i + 1 \in DOMAIN saved[f]
      BY <3>0, <3>1
    <3> QED BY <3>2, Here, Zenon
  <2>2. CASE f # on[c]
    BY <1>6, <2>2, Here, Zenon
  <2> QED BY <2>1, <2>2, Zenon
<1> QED BY <1>4, <1>7, <1>8, <1>9, <1>10, <1>11, <1>12, LocalStep, Zenon

-----------------------------------------------------------------------------
(***************************************************************************)
(* scheduler() and sched().                                                *)
(***************************************************************************)

\* The scheduler loop enables interrupts; it has no lock there.
LEMMA StiStep == ASSUME SpinInv, NEW c \in CPUs, Spin!Sti(c) PROVE SpinInv'
<1> DEFINE x == Spin!Now(c)
           g == [x EXCEPT !.at = "run"]
<1>1. /\ x \in Spin!Frames /\ x.at = "sti" /\ x.kind = "sched" /\ x.lk = ptable /\ x.held = {}
      /\ ncli[c] = 0
  <2>1. x \in Spin!Frames /\ x.at = "sti" /\ x.kind = "sched" /\ x.lk = ptable /\ x.held = {}
    BY Here, NowType, Zenon DEF Spin!Sti, FrameOK
  <2>2. Counts({}, ncli[c])
    <3>1. ~ Pending(x) /\ CpuOK(c)
      BY <2>1, Here DEF Pending
    <3> QED BY <2>1, <3>1, Zenon DEF CpuOK
  <2> QED BY <2>1, <2>2, HeldOne, Zenon
<1>2. /\ FL_IF' = [FL_IF EXCEPT ![c] = TRUE] /\ Spin!Goes(c, g)
      /\ UNCHANGED <<locked, lkcpu, ncli, intena, on, saved, spinpanic>>
  BY Zenon DEF Spin!Sti
<1>4. g \in Spin!Frames /\ g.kind = "sched" /\ g.at = "run" /\ g.lk = ptable /\ g.held = {}
  BY <1>1, Zenon DEF Spin!Frames, Spin!Ats
<1> HIDE DEF g
<1>5. Spin!Now(c)' = g /\ ctx' \in [Spin!Flows -> Spin!Frames]
  BY <1>2, <1>4, LocalFrames, Zenon
<1>7. Spin!TypeOK'
  BY <1>2, <1>5, Here, Zenon DEF Spin!TypeOK
<1>8. FrameOK(g)
  BY <1>4, Zenon DEF FrameOK
<1>9. CpuOK(c)'
  <2>1. ncli'[c] = 0 /\ ~ Pending(g) /\ Counts(g.held, 0) /\ ~ Plain(g)
    BY <1>1, <1>2, <1>4, HeldOne, Zenon DEF Pending, Plain
  <2> QED BY <1>4, <1>5, <2>1 DEF CpuOK
<1>10. OwnsOK(c)'
  BY <1>1, <1>2, <1>4, <1>5, Here, Zenon DEF OwnsOK, HalfOwned
<1>11. LocalTo(c, g)
  BY <1>1, <1>2, <1>4, Here, Zenon DEF LocalTo, Spin!TypeOK
<1>12. \A f \in Spin!Flows : \A i \in DOMAIN saved'[f] : SavedOK(saved'[f][i])
  BY <1>2, Here, Zenon
<1> QED BY <1>4, <1>7, <1>8, <1>9, <1>10, <1>11, <1>12, LocalStep, Zenon

\* sched() returns and restores the intena it has saved.
LEMMA ResumeStep == ASSUME SpinInv, NEW c \in CPUs, Spin!Resume(c) PROVE SpinInv'
<1> DEFINE x == Spin!Now(c)
           g == Spin!Back(x, "run")
<1>1. /\ x \in Spin!Frames /\ x.at = "resume" /\ x.held = {ptable} /\ x.flag \in BOOLEAN
      /\ ncli[c] = 1 /\ ~ FL_IF[c] /\ (Plain(x) => (x.flag <=> IsBase(x)))
  <2>1. x \in Spin!Frames /\ x.at = "resume" /\ x.held = {ptable} /\ x.flag \in BOOLEAN
    BY Here, NowType, Zenon DEF Spin!Resume, CpuOK
  <2>2. ncli[c] \in Nat /\ Counts({ptable}, ncli[c]) /\ (FL_IF[c] => ncli[c] = 0)
    BY <2>1, Here, HereTypes, Zenon DEF CpuOK, Pending
  <2>4. ncli[c] = 1 /\ 1 # 0
    <3>1. ncli[c] = 1
      BY <2>2, HeldOne, Zenon
    <3> QED BY <3>1
  <2>3. Plain(x) => (x.flag <=> IsBase(x))
    BY <2>1, Here, Zenon DEF FrameOK
  <2> QED BY <2>1, <2>2, <2>3, <2>4, Zenon
<1>2. /\ intena' = [intena EXCEPT ![c] = x.flag] /\ Spin!Goes(c, g)
      /\ UNCHANGED <<locked, lkcpu, ncli, FL_IF, on, saved, spinpanic>>
  BY Zenon DEF Spin!Resume
<1>4. g \in Spin!Frames /\ g.kind = x.kind /\ g.at = "run" /\ g.lk = ptable /\ g.held = {ptable}
  BY <1>1, LockAssumption, Zenon DEF Spin!Frames, Spin!Ats, Spin!Back, Spin!Frame
<1> HIDE DEF g
<1>5. Spin!Now(c)' = g /\ ctx' \in [Spin!Flows -> Spin!Frames]
  BY <1>2, <1>4, LocalFrames, Zenon
<1>6. intena'[c] = x.flag
  BY <1>2, Here, Zenon DEF Spin!TypeOK
<1>7. Spin!TypeOK'
  BY <1>1, <1>2, <1>5, Here, Zenon DEF Spin!TypeOK
<1>8. FrameOK(g)
  BY <1>4, Zenon DEF FrameOK
<1>9. CpuOK(c)'
  <2>1. ncli'[c] = 1 /\ ~ FL_IF'[c] /\ ~ Pending(g) /\ Counts(g.held, 1)
    BY <1>1, <1>2, <1>4, HeldOne, ZenonT(30) DEF Pending
  <2>2. Plain(g) => (intena'[c] <=> IsBase(g))
    BY <1>1, <1>4, <1>6, Zenon DEF Plain, IsBase
  <2> QED BY <1>4, <1>5, <2>1, <2>2 DEF CpuOK
<1>10. OwnsOK(c)'
  <2>1. locked[ptable] /\ lkcpu[ptable] = c
    BY <1>1, HereOwns DEF OwnsOK, HalfOwned
  <2>2. locked'[ptable] /\ lkcpu'[ptable] = c
    BY <1>2, <2>1, Zenon
  <2> QED BY <1>4, <1>5, <2>2 DEF OwnsOK, HalfOwned
<1>11. LocalTo(c, g)
  BY <1>1, <1>2, <1>4, Here, Zenon DEF LocalTo, Spin!TypeOK
<1>12. \A f \in Spin!Flows : \A i \in DOMAIN saved'[f] : SavedOK(saved'[f][i])
  BY <1>2, Here, Zenon
<1> QED BY <1>4, <1>7, <1>8, <1>9, <1>10, <1>11, <1>12, LocalStep, Zenon

\* CPU c leaves the flow f for the parked flow t, and ptable.lock with it.
HandOver(c, t, gf, gt) ==
    /\ ctx' = [ctx EXCEPT ![on[c]] = gf, ![t] = gt]
    /\ on' = [on EXCEPT ![c] = t]
    /\ UNCHANGED <<locked, lkcpu, ncli, intena, FL_IF, saved, spinpanic>>
    /\ Spin!Now(c).at = "run" /\ Spin!Now(c).held = {ptable} /\ gf.held = {} /\ gt.held = {ptable}
    /\ \A g \in {gf, gt} : g.at = "resume" \/ (g.at = "run" /\ ~ Plain(g))
    /\ on[c] \in CPUs => gf.at = "run" /\ gf.kind = "sched"

\* The lock is still in one pair of hands, and c still counts it.
LEMMA HandOverStep ==
    ASSUME SpinInv, NEW c \in CPUs, NEW t \in Threads \cup {c}, NEW gf \in Spin!Frames,
           NEW gt \in Spin!Frames,
           HandOver(c, t, gf, gt), Parked(t), FrameOK(gf), FrameOK(gt)
    PROVE  SpinInv'
<1> DEFINE f == on[c]
<1>1. /\ Spin!TypeOK /\ Placed /\ f \in Spin!Flows /\ t \in Spin!Flows /\ f # t
      /\ \A d \in CPUs : on[d] # t /\ on[d] \in Spin!Flows /\ (d # c => on[d] # f)
      /\ ctx \in [Spin!Flows -> Spin!Frames] /\ on \in [CPUs -> Spin!Flows]
  BY SMTT(30) DEF SpinInv, Spin!TypeOK, Parked, Placed, Spin!Flows
<1>2. /\ on' = [on EXCEPT ![c] = t]
      /\ UNCHANGED <<locked, lkcpu, ncli, intena, FL_IF, saved, spinpanic>>
      /\ Spin!Now(c).at = "run" /\ Spin!Now(c).held = {ptable} /\ gf.held = {}
      /\ gt.held = {ptable}
      /\ gt.at = "resume" \/ (gt.at = "run" /\ ~ Plain(gt))
  BY Zenon DEF HandOver
<1>3. /\ \A h \in Spin!Flows : ctx'[h] = IF h = t THEN gt ELSE IF h = f THEN gf ELSE ctx[h]
      /\ ctx' \in [Spin!Flows -> Spin!Frames] /\ on' \in [CPUs -> Spin!Flows]
      /\ \A d \in CPUs : on'[d] = IF d = c THEN t ELSE on[d]
  BY <1>1, <1>2, Zenon DEF HandOver
<1> HIDE DEF f
<1>4. Spin!Now(c)' = gt /\ \A d \in CPUs \ {c} : Spin!Now(d)' = Spin!Now(d)
  BY <1>1, <1>3 DEF Spin!Now, f
<1>5. Spin!TypeOK' /\ ~ spinpanic'
  BY <1>1, <1>2, <1>3, Zenon DEF Spin!TypeOK, SpinInv
<1>6. Placed'
  BY <1>1, <1>3 DEF Placed
<1>7. \A h \in Spin!Flows : FrameOK(ctx[h])'
  <2> SUFFICES ASSUME NEW h \in Spin!Flows PROVE FrameOK(ctx'[h])
    BY Zenon DEF FrameOK, Plain, IsBase
  <2>1. FrameOK(ctx[h]) /\ ctx'[h] \in {gt, gf, ctx[h]}
    BY <1>3, Zenon DEF SpinInv
  <2> QED BY <2>1, Zenon
<1>8. \A h \in Spin!Flows : \A i \in DOMAIN saved'[h] : SavedOK(saved'[h][i])
  BY <1>2, Here, Zenon
<1>9. ASSUME NEW h \in Spin!Flows, Parked(h)' PROVE ParkedOK(h)'
  <2>1. h # t
    BY <1>3, <1>9 DEF Parked
  <2>2. CASE h = f
    <3>1. ctx'[h] = gf /\ h = on[c]
      BY <1>3, <2>1, <2>2, Zenon DEF f
    <3> QED BY <3>1, Zenon DEF ParkedOK, HandOver, Plain
  <2>3. CASE h # f
    <3>1. Parked(h)
      BY <1>1, <1>3, <1>9, <2>3, Zenon DEF Parked, f
    <3>2. ParkedOK(h) /\ ctx'[h] = ctx[h]
      BY <1>3, <2>1, <2>3, <3>1, Zenon DEF SpinInv
    <3> QED BY <3>2, Zenon DEF ParkedOK, Plain
  <2> QED BY <2>2, <2>3, Zenon
<1>10. CpuOK(c)'
  <2>1. ncli'[c] = 1 /\ ~ FL_IF'[c]
    <3>1. ncli[c] \in Nat /\ Counts({ptable}, ncli[c]) /\ (FL_IF[c] => ncli[c] = 0)
      BY <1>2, HereCpu, HereTypes, Zenon DEF CpuOK, Pending
    <3>2. ncli[c] = 1
      BY <3>1, HeldOne, Zenon
    <3>3. ncli'[c] = ncli[c] /\ FL_IF'[c] = FL_IF[c]
      BY <1>2, Zenon
    <3> QED BY <3>1, <3>2, <3>3
  <2>2. ~ Pending(gt) /\ Counts(gt.held, 1)
    BY <1>2, HeldOne, Zenon DEF Pending
  <2>4. gt.held = {ptable} /\ (gt.at = "resume" \/ (gt.at = "run" /\ ~ Plain(gt)))
    BY <1>2, Zenon
  <2>5. ncli'[c] # 0 /\ Counts(gt.held, ncli'[c])
    BY <2>1, <2>2
  <2> QED BY <1>4, <2>1, <2>2, <2>4, <2>5, ZenonT(30) DEF CpuOK
<1>11. OwnsOK(c)'
  <2>1. locked[ptable] /\ lkcpu[ptable] = c
    BY <1>2, HereOwns DEF OwnsOK, HalfOwned
  <2>2. locked'[ptable] /\ lkcpu'[ptable] = c /\ ~ HalfOwned(gt, ptable)
    BY <1>2, <2>1, Zenon DEF HalfOwned
  <2> QED BY <1>2, <1>4, <2>2, Zenon DEF OwnsOK
<1>12. ASSUME NEW d \in CPUs \ {c} PROVE CpuOK(d)' /\ OwnsOK(d)'
  <2>1. CpuOK(d) /\ OwnsOK(d) /\ Spin!Now(d)' = Spin!Now(d)
    BY <1>4, Zenon DEF SpinInv
  <2>2. CpuOK(d)'
    BY <1>2, <2>1, Zenon DEF CpuOK, Pending, Plain, IsBase
  <2>3. OwnsOK(d)'
    BY <1>2, <2>1 DEF OwnsOK, HalfOwned
  <2> QED BY <2>2, <2>3, Zenon
<1>13. \A d \in CPUs : (Spin!Now(d)').held = Spin!Now(d).held
  BY <1>2, <1>4, Zenon
<1>14. \A d, e \in CPUs : d # e => (Spin!Now(d)').held \cap (Spin!Now(e)').held = {}
  BY <1>13, Zenon DEF SpinInv
<1>15. \A l \in Locks : IF locked'[l] THEN \E d \in CPUs : l \in (Spin!Now(d)').held
                         ELSE lkcpu'[l] = NoCPU
  BY <1>2, <1>13, Zenon DEF SpinInv
<1>16. \A d \in CPUs : CpuOK(d)' /\ OwnsOK(d)'
  BY <1>10, <1>11, <1>12, Zenon
<1> QED BY <1>5, <1>6, <1>7, <1>8, <1>9, <1>14, <1>15, <1>16, ZenonT(30) DEF SpinInv

\* sched() gives the CPU back to its scheduler loop.  None of its checks fails.
LEMMA SchedStep == ASSUME SpinInv, NEW c \in CPUs, Spin!Sched(c) PROVE SpinInv'
<1> DEFINE x == Spin!Now(c)
           gf == [x EXCEPT !.at = "resume", !.flag = intena[c], !.held = {}]
           gt == [ctx[c] EXCEPT !.held = {ptable}]
<1>1. /\ x \in Spin!Frames /\ x = ctx[on[c]] /\ x.at = "run" /\ x.held = {ptable}
      /\ on[c] \in Threads
      /\ on[c] \in Spin!Flows /\ c \in Spin!Flows /\ on[c] # c /\ intena[c] \in BOOLEAN
      /\ ctx[c] \in Spin!Frames /\ ctx \in [Spin!Flows -> Spin!Frames]
  <2>1. Spin!TypeOK /\ c \in Spin!Flows
    BY Here, Zenon DEF Spin!Flows
  <2>2. x \in Spin!Frames /\ x = ctx[on[c]] /\ on[c] \in Spin!Flows
    BY <2>1, NowType, Zenon
  <2>3. intena[c] \in BOOLEAN /\ ctx[c] \in Spin!Frames /\ ctx \in [Spin!Flows -> Spin!Frames]
    BY <2>1, Zenon DEF Spin!TypeOK
  <2>4. x.at = "run" /\ x.held = {ptable} /\ on[c] \in Threads
    BY Zenon DEF Spin!Sched
  <2>5. on[c] # c
    BY <2>4, CpuAssumption, Zenon
  <2> QED BY <2>1, <2>2, <2>3, <2>4, <2>5, Zenon
<1>2. Parked(c)
  BY <1>1, CpuAssumption DEF Parked, SpinInv, Placed
<1>3. ctx[c].held = {} /\ ctx[c].at = "run" /\ ctx[c].kind = "sched" /\ ctx[c].lk = ptable
  BY <1>1, <1>2, Zenon DEF SpinInv, ParkedOK, FrameOK
<1>4. Spin!Holding(ptable, c)
  <2>1. OwnsOK(c) /\ ~ HalfOwned(x, ptable)
    BY <1>1, HereOwns, Zenon DEF HalfOwned
  <2> QED BY <1>1, <2>1, Zenon DEF Spin!Holding, OwnsOK
<1>5. ncli[c] = 1 /\ ~ FL_IF[c]
  <2>1. ncli[c] \in Nat /\ Counts({ptable}, ncli[c]) /\ (FL_IF[c] => ncli[c] = 0)
    BY <1>1, Here, HereTypes, Zenon DEF CpuOK, Pending
  <2>2. ncli[c] = 1
    BY <2>1, HeldOne, Zenon
  <2> QED BY <2>1, <2>2
<1>6. /\ ctx' = [ctx EXCEPT ![on[c]] = [@ EXCEPT !.at = "resume", !.flag = intena[c], !.held = {}],
                            ![c].held = {ptable}]
      /\ on' = [on EXCEPT ![c] = c]
      /\ UNCHANGED <<locked, lkcpu, ncli, intena, FL_IF, saved, spinpanic>>
  BY <1>4, <1>5, Zenon DEF Spin!Sched
<1>7. ctx' = [ctx EXCEPT ![on[c]] = gf, ![c] = gt]
  BY <1>1, <1>6, Zenon
<1>8. /\ gf \in Spin!Frames /\ gf.kind = x.kind /\ gf.at = "resume" /\ gf.lk = x.lk
      /\ gf.held = {} /\ gf.flag = intena[c]
  BY <1>1, Zenon DEF Spin!Frames, Spin!Ats
<1>9. /\ gt \in Spin!Frames /\ gt.kind = "sched" /\ gt.at = "run" /\ gt.lk = ptable
      /\ gt.held = {ptable}
  BY <1>1, <1>3, LockAssumption, Zenon DEF Spin!Frames
<1> HIDE DEF gf, gt
<1>10. FrameOK(gf)
  <2>1. Plain(x) => (intena[c] <=> IsBase(x))
    <3>1. ncli[c] # 0 /\ x.at # "resume"
      BY <1>1, <1>5
    <3> QED BY <3>1, HereCpu, Zenon DEF CpuOK
  <2>2. Plain(gf) => (gf.flag <=> IsBase(gf))
    BY <1>8, <2>1, Zenon DEF Plain, IsBase
  <2>3. x.kind = "sched" => x.lk = ptable
    BY Here, Zenon DEF FrameOK
  <2> QED BY <1>8, <2>2, <2>3, Zenon DEF FrameOK
<1>11. FrameOK(gt)
  BY <1>9, Zenon DEF FrameOK
<1>12. HandOver(c, c, gf, gt)
  BY CpuAssumption, <1>1, <1>6, <1>7, <1>8, <1>9, Zenon DEF HandOver, Plain
<1> QED BY <1>1, <1>2, <1>8, <1>9, <1>10, <1>11, <1>12, HandOverStep, Zenon

\* The scheduler loop switches to a parked thread.
LEMMA SwtchStep ==
    ASSUME SpinInv, NEW c \in CPUs, NEW t \in Threads, Spin!Swtch(c, t)
    PROVE  SpinInv'
<1> DEFINE x == Spin!Now(c)
           gf == [x EXCEPT !.held = {}]
           gt == [ctx[t] EXCEPT !.held = {ptable}]
<1>1. /\ x \in Spin!Frames /\ x = ctx[c] /\ on[c] = c /\ x.at = "run" /\ x.kind = "sched"
      /\ x.held = {ptable}
      /\ c \in Spin!Flows /\ t \in Spin!Flows /\ t # c /\ t \notin CPUs
      /\ ctx[t] \in Spin!Frames /\ ctx \in [Spin!Flows -> Spin!Frames]
  BY Here, NowType, CpuAssumption, Zenon DEF Spin!Swtch, Spin!TypeOK, Spin!Flows
<1>2. Parked(t)
  BY Zenon DEF Spin!Swtch, Parked
<1>3. ctx[t].at = "resume" \/ (ctx[t].at = "run" /\ ~ Plain(ctx[t]))
  BY <1>1, <1>2, ZenonT(30) DEF SpinInv, ParkedOK
<1>4. FrameOK(ctx[t]) /\ x.lk = ptable
  BY <1>1, Here, Zenon DEF SpinInv, FrameOK
<1>6. /\ ctx' = [ctx EXCEPT ![c].held = {}, ![t].held = {ptable}]
      /\ on' = [on EXCEPT ![c] = t]
      /\ UNCHANGED <<locked, lkcpu, ncli, intena, FL_IF, saved, spinpanic>>
  BY Zenon DEF Spin!Swtch
<1>7. ctx' = [ctx EXCEPT ![on[c]] = gf, ![t] = gt]
  BY <1>1, <1>6, Zenon
<1>8. gf \in Spin!Frames /\ gf.kind = "sched" /\ gf.at = "run" /\ gf.lk = ptable /\ gf.held = {}
  BY <1>1, <1>4, Zenon DEF Spin!Frames
<1>9. /\ gt \in Spin!Frames /\ gt.kind = ctx[t].kind /\ gt.at = ctx[t].at /\ gt.lk = ctx[t].lk
      /\ gt.flag = ctx[t].flag /\ gt.held = {ptable}
  BY <1>1, LockAssumption, Zenon DEF Spin!Frames
<1> HIDE DEF gf, gt
<1>10. FrameOK(gf)
  BY <1>8, Zenon DEF FrameOK, Plain
<1>11. FrameOK(gt)
  BY <1>3, <1>4, <1>9, Zenon DEF FrameOK, Plain, IsBase
<1>12. HandOver(c, t, gf, gt)
  BY <1>1, <1>3, <1>6, <1>7, <1>8, <1>9, Zenon DEF HandOver, Plain
<1> QED BY <1>2, <1>8, <1>9, <1>10, <1>11, <1>12, HandOverStep, Zenon

(***************************************************************************)
(* The invariant holds, and with it the properties.                        *)
(***************************************************************************)

\* At boot every CPU is at the top of scheduler(), and no lock is taken.
LEMMA SpinlockInit == Spin!Init => SpinInv
<1> SUFFICES ASSUME Spin!Init PROVE SpinInv
  BY Zenon
<1>1. /\ Spin!Frame("sched", "sti") \in Spin!Frames
      /\ Spin!Frame("forkret", "run") \in Spin!Frames /\ Spin!Frame("base", "run") \in Spin!Frames
  BY LockAssumption, Zenon DEF Spin!Frame, Spin!Frames, Spin!Kinds, Spin!Ats
<1>2. Spin!TypeOK
  <2>1. ctx \in [Spin!Flows -> Spin!Frames] /\ saved \in [Spin!Flows -> Seq(Spin!Frames)]
    BY <1>1 DEF Spin!Init
  <2>2. on \in [CPUs -> Spin!Flows] /\ spinpanic \in BOOLEAN
    BY Zenon DEF Spin!Init, Spin!Flows
  <2>3. /\ locked \in [Locks -> BOOLEAN] /\ lkcpu \in [Locks -> CPUs \cup {NoCPU}]
        /\ ncli \in [CPUs -> Nat] /\ intena \in [CPUs -> BOOLEAN] /\ FL_IF \in [CPUs -> BOOLEAN]
    BY Zenon DEF Spin!Init
  <2> QED BY <2>1, <2>2, <2>3, Zenon DEF Spin!TypeOK
<1>3. \A f \in Spin!Flows : ctx[f] =
          IF f \in CPUs THEN Spin!Frame("sched", "sti") ELSE Spin!Frame("forkret", "run")
  BY Zenon DEF Spin!Init
<1>4. \A f \in Spin!Flows : FrameOK(ctx[f])
  <2>1. FrameOK(Spin!Frame("sched", "sti")) /\ FrameOK(Spin!Frame("forkret", "run"))
    BY Zenon DEF FrameOK, Plain, Spin!Frame
  <2> QED BY <1>3, <2>1, ZenonT(30)
<1>5. \A f \in Spin!Flows : \A i \in DOMAIN saved[f] : SavedOK(saved[f][i])
  BY DEF Spin!Init, SavedOK, Spin!Frame
<1>6. Placed
  BY Zenon DEF Spin!Init, Placed
<1>7. \A f \in Spin!Flows : Parked(f) => f \notin CPUs /\ ParkedOK(f)
  BY <1>3, Zenon DEF Spin!Init, Parked, ParkedOK, Spin!Frame, Plain
<1>8. \A c \in CPUs : Spin!Now(c) = Spin!Frame("sched", "sti")
  BY <1>3, Zenon DEF Spin!Init, Spin!Now, Spin!Flows
<1>9. \A c \in CPUs : CpuOK(c)
  <2> SUFFICES ASSUME NEW c \in CPUs PROVE CpuOK(c)
    BY Zenon
  <2>1. Spin!Now(c).held = {} /\ Spin!Now(c).at = "sti" /\ Spin!Now(c).kind = "sched"
    BY <1>8 DEF Spin!Frame
  <2>2. ncli[c] = 0 /\ ~ FL_IF[c] /\ ~ Pending(Spin!Now(c)) /\ ~ Plain(Spin!Now(c))
    BY <2>1, Zenon DEF Spin!Init, Pending, Plain
  <2>3. Counts(Spin!Now(c).held, ncli[c])
    BY <2>1, <2>2, HeldOne, Zenon
  <2> QED BY <2>1, <2>2, <2>3, Zenon DEF CpuOK
<1>10. \A c \in CPUs : OwnsOK(c) /\ Spin!Now(c).held = {}
  <2>1. \A c \in CPUs : Spin!Now(c).held = {}
    <3> TAKE c \in CPUs
    <3>1. Spin!Now(c) = Spin!Frame("sched", "sti")
      BY <1>8, Zenon
    <3> QED BY <3>1 DEF Spin!Frame
  <2> QED BY <2>1, Zenon DEF OwnsOK
<1> QED BY <1>2, <1>4, <1>5, <1>6, <1>7, <1>9, <1>10, Zenon DEF Spin!Init, SpinInv

\* Every step of a CPU keeps the invariant.
LEMMA SpinlockStep == SpinInv /\ [Spin!Next]_(Spin!vars) => SpinInv'
<1> SUFFICES ASSUME SpinInv, [Spin!Next]_(Spin!vars) PROVE SpinInv'
  BY Zenon
<1>1. CASE UNCHANGED Spin!vars
  <2>1. UNCHANGED <<locked, lkcpu, ncli, intena, FL_IF, on, ctx, saved, spinpanic>>
    BY <1>1, Zenon DEF Spin!vars
  <2>2. Spin!TypeOK' /\ ~ spinpanic' /\ Placed'
    BY <2>1, Zenon DEF SpinInv, Spin!TypeOK, Placed
  <2>3. \A c \in CPUs : Spin!Now(c)' = Spin!Now(c)
    BY <2>1, ZenonT(30) DEF Spin!Now
  <2>4. \A f \in Spin!Flows : FrameOK(ctx[f])'
    BY <2>1, Zenon DEF SpinInv, FrameOK, Plain, IsBase
  <2>5. \A f \in Spin!Flows : Parked(f)' => ParkedOK(f)'
    BY <2>1, ZenonT(30) DEF SpinInv, Parked, ParkedOK, Plain
  <2>6. \A c \in CPUs : CpuOK(c)'
    <3> SUFFICES ASSUME NEW c \in CPUs PROVE CpuOK(c)'
      BY Zenon
    <3>1. /\ Pending(Spin!Now(c))' = Pending(Spin!Now(c))
          /\ Plain(Spin!Now(c))' = Plain(Spin!Now(c))
          /\ IsBase(Spin!Now(c))' = IsBase(Spin!Now(c))
      BY <2>3, Zenon DEF Pending, Plain, IsBase
    <3> QED BY <2>1, <2>3, <3>1, HereCpu DEF CpuOK
  <2>7. \A c \in CPUs : OwnsOK(c)'
    BY <2>1, <2>3, HereOwns DEF OwnsOK, HalfOwned
  <2>8. \A c, d \in CPUs : c # d => (Spin!Now(c)').held \cap (Spin!Now(d)').held = {}
    BY <2>3, Zenon DEF SpinInv
  <2>9. \A l \in Locks : IF locked'[l] THEN \E c \in CPUs : l \in (Spin!Now(c)').held
                                        ELSE lkcpu'[l] = NoCPU
    BY <2>1, <2>3, Zenon DEF SpinInv
  <2>10. \A f \in Spin!Flows : \A i \in DOMAIN saved'[f] : SavedOK(saved'[f][i])
    BY <2>1, Zenon DEF SpinInv
  <2> QED BY <2>2, <2>4, <2>5, <2>6, <2>7, <2>8, <2>9, <2>10, Zenon DEF SpinInv
<1>2. CASE Spin!Next
  <2>1. PICK c \in CPUs : Spin!Step(c)
    BY <1>2, Zenon DEF Spin!Next
  <2> QED BY <2>1, ReadFlagsStep, PushcliStep, XchgStep, SetOwnerStep, ClearOwnerStep, UnlockStep,
             PopcliStep, InterruptStep, IretStep, StiStep, SchedStep, ResumeStep, SwtchStep
             DEF Spin!Step
<1> QED BY <1>1, <1>2, Zenon

\* IInv holds in every reachable state.
LEMMA SpinlockInductive == Spin!Spec => []SpinInv
BY SpinlockInit, SpinlockStep, PTL DEF Spin!Spec

\* A flow that no CPU executes has no lock, so LocksSafe follows.
LEMMA SafeFromInv == SpinInv => Spin!LocksSafe
<1> SUFFICES ASSUME SpinInv PROVE Spin!LocksSafe
  BY Zenon
<1>1. \A c \in CPUs : Spin!Now(c).held # {} => ~ FL_IF[c]
  <2> SUFFICES ASSUME NEW c \in CPUs, Spin!Now(c).held # {} PROVE ~ FL_IF[c]
    BY Zenon
  <2>1. /\ Counts(Spin!Now(c).held, ncli[c]) \/ Counts(Spin!Now(c).held, ncli[c] - 1)
        /\ FL_IF[c] => ncli[c] = 0
    BY Here, Zenon DEF CpuOK
  <2>2. (ncli[c] \in Nat /\ ncli[c] # 0) \/ (ncli[c] - 1 \in Nat /\ ncli[c] - 1 # 0)
    BY <2>1, HeldCount, Zenon
  <2>3. ncli[c] # 0
    BY <2>2
  <2> QED BY <2>1, <2>3, Zenon
<1>2. ASSUME NEW f \in Spin!Flows, NEW g \in Spin!Flows, f # g
      PROVE  ctx[f].held \cap ctx[g].held = {}
  <2>1. CASE Parked(f) \/ Parked(g)
    BY <2>1, Zenon DEF SpinInv, ParkedOK
  <2>2. CASE ~ Parked(f) /\ ~ Parked(g)
    <3>1. PICK c \in CPUs : on[c] = f
      BY <2>2, Zenon DEF Parked
    <3>2. PICK d \in CPUs : on[d] = g
      BY <2>2, Zenon DEF Parked
    <3> QED BY <1>2, <3>1, <3>2, Zenon DEF SpinInv, Spin!Now
  <2> QED BY <2>1, <2>2, Zenon
<1>3. \A f \in Spin!Flows : \A i \in DOMAIN saved[f] : saved[f][i].held = {}
  BY Zenon DEF SpinInv, SavedOK
<1> QED BY <1>1, <1>2, <1>3, Zenon DEF SpinInv, Spin!LocksSafe

\* With no lock ncli is 0, and CpuOK gives the flag.
LEMMA FlagsFromInv == SpinInv => Spin!FlagsRestored
<1> SUFFICES ASSUME SpinInv, NEW c \in CPUs,
                    Spin!Now(c).at = "run", Spin!Now(c).held = {}, Spin!Now(c).kind \in {"base", "irq"}
             PROVE  FL_IF[c] <=> Spin!Now(c).kind = "base"
  BY Zenon DEF Spin!FlagsRestored
<1>1. ncli[c] = 0
  <2>1. ncli[c] \in Nat /\ Counts({}, ncli[c])
    BY Here, HereTypes, ZenonT(30) DEF CpuOK, Pending
  <2> QED BY <2>1, HeldOne, Zenon
<1> QED BY <1>1, Here, Zenon DEF CpuOK, Plain, IsBase

\* For any number of CPUs, threads and locks: a spin lock is in the hands of
\* one flow of control, interrupts are off while it is, and no panic of
\* acquire, release, popcli or sched is reached.
THEOREM SpinlockSafe == Spin!Spec => []Spin!LocksSafe
BY SpinlockInductive, SafeFromInv, PTL

\* Code outside of critical sections has the interrupt flag it started with,
\* on whatever CPU sched() brings it back.
THEOREM SpinlockFlags == Spin!Spec => []Spin!FlagsRestored
BY SpinlockInductive, FlagsFromInv, PTL

(***************************************************************************)
(* The start of the processors.                                            *)
(***************************************************************************)
BootSizes == ncpu \in Nat \ {0} /\ Low \in Nat /\ Pages \in Nat /\ ncpu <= Low + 1 /\ Low <= Pages

(* The pages m .. 1, as kinit1 leaves them, and the processors that have   *)
(* got a stack, or are about to.                                           *)
Down(m) == [i \in 1 .. m |-> m + 1 - i]
Given == IF bpc[0] \in {"ipi", "wait"} THEN next ELSE next - 1

BootStarting == {"startothers", "kalloc", "ipi", "wait"}
Up == {"scheduler", "kernel", "took"}
Places == BootStarting \cup {"kinit2", "use_lock", "userinit", "halted", "entry", "mpenter", "mpmain"} \cup Up

(* The boot processor: what it has set, and how far its loop has come.     *)
BootOK ==
  /\ bpc[0] \in BootStarting \cup {"kinit2", "use_lock", "userinit", "mpmain"} \cup Up
  /\ next \in 1 .. ncpu
  /\ bpc[0] \in {"kalloc", "ipi", "wait"} => next < ncpu
  /\ bpc[0] \notin BootStarting => next = ncpu
  /\ (use_lock <=> bpc[0] \in {"userinit", "mpmain"} \cup Up)
  /\ (runnable <=> bpc[0] \in {"mpmain"} \cup Up)
  /\ stack[0] = Start!NoPage /\ ipis[0] = 0

(* The others: not yet started, starting one at a time, or running.        *)
OtherOK(c) ==
  /\ c > next \/ (c = next /\ bpc[0] # "wait") => bpc[c] = "halted" /\ ipis[c] = 0
  /\ c = next => bpc[c] \in {"halted", "entry", "mpenter", "mpmain", "scheduler"}
  /\ c < next => bpc[c] \in Up
  /\ started[c] => bpc[c] \in Up
  /\ stack[c] = Start!NoPage \/ (stack[c] = Low + 1 - c /\ c <= Given)
  /\ bpc[c] = "mpenter" => stack[c] = Low + 1 - c

(* The free list, and whoever is in the allocator.                         *)
ListOK ==
  /\ freelist \in Seq(Nat)
  /\ bpc[0] \in BootStarting \cup {"kinit2"} => freelist = Down(Low - Given)
  /\ \A i \in 1 .. Len(freelist) : freelist[i] \in 1 .. Low - Given \/ freelist[i] > Low
  /\ bpc[0] = "kalloc" => r[0] = freelist
  /\ bpc[0] \in {"ipi", "wait"} => mailbox = Low + 1 - next
  /\ \A c \in Start!CPU : bpc[c] = "took" => kmemHeld = c /\ r[c] = freelist

BootInv ==
  /\ bpc \in [Start!CPU -> Places] /\ ipis \in [Start!CPU -> Nat]
  /\ started \in [Start!CPU -> BOOLEAN] /\ stack \in [Start!CPU -> Nat]
  /\ r \in [Start!CPU -> Seq(Nat)]
  /\ BootOK /\ ListOK
  /\ \A c \in Start!CPU \ {0} : OtherOK(c)
  /\ ~runnable => countHeld = Start!Nobody /\ \A c \in Start!CPU : bpc[c] \notin {"kernel", "took"}
  /\ ~clobbered

-----------------------------------------------------------------------------
LEMMA SizesFacts ==
  ASSUME BootSizes
  PROVE  /\ 0 \in Start!CPU /\ Start!CPU \subseteq Nat
         /\ \A c \in Start!CPU : c \in 0 .. ncpu - 1 /\ c # Start!Nobody /\ c <= Low
  BY DEF BootSizes, Start!CPU, Start!Nobody

LEMMA SeqSame ==
  ASSUME NEW S, NEW p \in Seq(S), NEW q \in Seq(S), Len(p) = Len(q),
         \A i \in 1 .. Len(p) : p[i] = q[i]
  PROVE  p = q
  OBVIOUS

LEMMA ConcatIs ==
  ASSUME NEW S, NEW p \in Seq(S), NEW q \in Seq(S)
  PROVE  /\ p \o q \in Seq(S) /\ Len(p \o q) = Len(p) + Len(q)
         /\ \A i \in 1 .. Len(p) + Len(q) : (p \o q)[i] =
             IF i <= Len(p) THEN p[i] ELSE q[i - Len(p)]
  OBVIOUS

LEMMA DownSeq == ASSUME NEW m \in Nat PROVE Down(m) \in Seq(Nat) /\ Len(Down(m)) = m
<1>1. Down(m) \in [1 .. m -> Nat]
  BY DEF Down
<1> HIDE DEF Down
<1> QED
  BY <1>1

LEMMA DownIs ==
  ASSUME NEW m \in Nat
  PROVE  /\ Down(m) \in Seq(Nat) /\ Len(Down(m)) = m
         /\ \A i \in 1 .. m : Down(m)[i] = m + 1 - i /\ Down(m)[i] \in 1 .. m
         /\ m # 0 => Down(m) # <<>> /\ Head(Down(m)) = m /\ Tail(Down(m)) = Down(m - 1)
<1>1. /\ Down(m) \in [1 .. m -> Nat]
      /\ \A i \in 1 .. m : Down(m)[i] = m + 1 - i /\ Down(m)[i] \in 1 .. m
  BY DEF Down
<1>2. Down(m) \in Seq(Nat) /\ Len(Down(m)) = m
  BY DownSeq, Zenon
<1>3. ASSUME m # 0 PROVE Down(m) # <<>> /\ Head(Down(m)) = m /\ Tail(Down(m)) = Down(m - 1)
  <2>1. m - 1 \in Nat /\ 1 \in 1 .. m /\ m + 1 - 1 = m
    BY <1>3
  <2>2. Down(m) # <<>> /\ Head(Down(m)) = m
    BY <1>1, <1>2, <1>3, <2>1
  <2>3. Down(m - 1) \in [1 .. m - 1 -> Nat] /\ \A i \in 1 .. m - 1 : Down(m - 1)[i] = m - i
    BY <2>1 DEF Down
  <2>4. PICK q \in Seq(Nat) : q = Down(m) /\ Len(q) = m /\ \A i \in 1 .. m : q[i] = m + 1 - i
    BY <1>1, <1>2, Zenon
  <2>5. PICK z \in Seq(Nat) : /\ z = Down(m - 1) /\ Len(z) = m - 1
                              /\ \A i \in 1 .. m - 1 : z[i] = m - i
    BY <2>1, <2>3, DownSeq, Zenon
  <2>6. Tail(q) \in Seq(Nat) /\ Len(Tail(q)) = m - 1 /\ \A i \in 1 .. m - 1 : Tail(q)[i] = m - i
    BY <2>1, <2>4
  <2>7. Tail(q) = z
    <3>1. Len(Tail(q)) = Len(z) /\ \A i \in 1 .. Len(z) : Tail(q)[i] = z[i]
      BY <2>5, <2>6, Zenon
    <3> QED
      BY <2>6, <3>1, SeqSame, Zenon
  <2> QED
    BY <2>2, <2>4, <2>5, <2>7, Zenon
<1> QED
  BY <1>1, <1>2, <1>3, Zenon

LEMMA BootInit == ASSUME BootSizes, Start!Init PROVE BootInv
<1>1. Given = 0 /\ Low \in Nat /\ Low - Given = Low
  BY SizesFacts DEF BootSizes, Start!Init, Given
<1>2. bpc[0] = "startothers" /\ \A c \in Start!CPU \ {0} : bpc[c] = "halted"
  BY SizesFacts, Zenon DEF Start!Init
<1>3. BootOK
  <2>1. next = 1 /\ next \in 1 .. ncpu
    BY DEF Start!Init, BootSizes
  <2>2. stack[0] = Start!NoPage /\ ipis[0] = 0 /\ use_lock = FALSE /\ runnable = FALSE
    BY SizesFacts, Zenon DEF Start!Init
  <2>3. /\ bpc[0] \in BootStarting
        /\ bpc[0] \notin {"kalloc", "ipi", "wait", "userinit", "mpmain"} \cup Up
    BY <1>2 DEF BootStarting, Up
  <2> QED
    BY <2>1, <2>2, <2>3 DEF BootOK
<1>4. ListOK
  <2>1. freelist = Down(Low)
    BY DEF Start!Init, Down
  <2>2. \A c \in Start!CPU : bpc[c] # "took"
    BY <1>2
  <2> QED
    BY <1>1, <1>2, <2>1, <2>2, DownIs, Zenon DEF ListOK
<1>5. ASSUME NEW c \in Start!CPU \ {0} PROVE OtherOK(c)
  <2>1. (c > next \/ c = next) /\ ~(c < next) /\ bpc[0] # "wait"
    BY <1>2, SizesFacts DEF Start!Init
  <2>2. bpc[c] = "halted" /\ ipis[c] = 0 /\ ~started[c] /\ stack[c] = Start!NoPage
    BY <1>2 DEF Start!Init
  <2> QED
    BY <2>1, <2>2 DEF OtherOK
<1>6. /\ bpc \in [Start!CPU -> Places] /\ ipis \in [Start!CPU -> Nat]
      /\ started \in [Start!CPU -> BOOLEAN]
      /\ stack \in [Start!CPU -> Nat] /\ r \in [Start!CPU -> Seq(Nat)]
  <2>1. <<>> \in Seq(Nat) /\ 0 \in Nat /\ "startothers" \in Places /\ "halted" \in Places
    BY DEF Places, BootStarting
  <2> QED
    BY <2>1, Zenon DEF Start!Init, Start!NoPage
<1>7. \A c \in Start!CPU : bpc[c] \notin {"kernel", "took"}
  BY <1>2
<1> QED
  BY <1>3, <1>4, <1>5, <1>6, <1>7, Zenon DEF BootInv, Start!Init

-----------------------------------------------------------------------------
(* What every step starts from.                                            *)
LEMMA BootFacts ==
  ASSUME BootSizes, BootInv
  PROVE  /\ ncpu \in Nat /\ Low \in Nat /\ Pages \in Nat /\ Low <= Pages
         /\ next \in 1 .. ncpu /\ Given \in 0 .. Low /\ Low - Given \in Nat
         /\ 0 \in Start!CPU /\ \A c \in Start!CPU \ {0} : c \in Nat /\ 1 <= c /\ c < ncpu
         /\ bpc[0] \in {"kalloc", "ipi", "wait"} => next \in Start!CPU \ {0} /\ next <= Low
         /\ bpc \in [Start!CPU -> Places] /\ ipis \in [Start!CPU -> Nat]
         /\ started \in [Start!CPU -> BOOLEAN]
         /\ stack \in [Start!CPU -> Nat] /\ r \in [Start!CPU -> Seq(Nat)] /\ freelist \in Seq(Nat)
  BY SMTT(30) DEF BootSizes, BootInv, BootOK, ListOK, Start!CPU, Given

(* A processor that is on its way through entryother.S is the one that the *)
(* boot processor waits for.                                               *)
LEMMA Early ==
  ASSUME BootSizes, BootInv, NEW b \in Start!CPU, bpc[b] \in {"entry", "mpenter"}
  PROVE  b # 0 /\ b = next /\ bpc[0] = "wait" /\ ~runnable /\ countHeld = Start!Nobody
<1>1. b # 0
  BY DEF BootInv, BootOK, BootStarting, Up
<1>2. OtherOK(b) /\ b \in Nat /\ next \in 1 .. ncpu /\ ncpu \in Nat
  BY <1>1, BootFacts, Zenon DEF BootInv
<1>3. b = next /\ bpc[0] = "wait"
  BY <1>2 DEF OtherOK, Up
<1>4. ~runnable
  BY <1>3 DEF BootInv, BootOK, Up
<1> QED
  BY <1>1, <1>3, <1>4 DEF BootInv

(* The parts of the invariant, and the place of a processor after a step.  *)
LEMMA BootParts ==
  ASSUME BootInv
  PROVE  /\ BootOK /\ ListOK /\ ~clobbered /\ \A c \in Start!CPU \ {0} : OtherOK(c)
         /\ ~runnable => /\ countHeld = Start!Nobody
                         /\ \A c \in Start!CPU : bpc[c] \notin {"kernel", "took"}
  BY Zenon DEF BootInv

LEMMA PlacesAre ==
  /\ "kalloc" \in Places /\ "ipi" \in Places /\ "wait" \in Places /\ "startothers" \in Places
  /\ "kinit2" \in Places /\ "use_lock" \in Places /\ "userinit" \in Places /\ "mpmain" \in Places
  /\ "mpenter" \in Places /\ "scheduler" \in Places /\ "kernel" \in Places /\ "took" \in Places
  BY Zenon DEF Places, BootStarting, Up

LEMMA Moved ==
  ASSUME BootSizes, BootInv, NEW b \in Start!CPU, NEW w, NEW x \in Places, Start!Goes(b, w, x)
  PROVE  /\ bpc[b] = w /\ bpc' \in [Start!CPU -> Places] /\ bpc'[b] = x
         /\ \A c \in Start!CPU \ {b} : bpc'[c] = bpc[c]
  BY Zenon DEF BootInv, Start!Goes

(* Before the first process there is nobody in the allocator or counting.  *)
LEMMA StaysQuiet ==
  ASSUME BootSizes, BootInv, NEW b \in Start!CPU, NEW w, NEW x \in Places \ {"kernel", "took"},
         Start!Goes(b, w, x)
  PROVE  ~runnable
           => countHeld = Start!Nobody /\ \A c \in Start!CPU : bpc'[c] \notin {"kernel", "took"}
  BY Moved, BootParts, Zenon

(* A step of the boot processor outside of the allocator.                  *)
LEMMA BootMoved ==
  ASSUME BootSizes, BootInv, NEW w \in BootStarting \cup {"kinit2", "use_lock", "userinit"},
         NEW x \in Places \ Up, Start!Goes(0, w, x)
  PROVE  /\ 0 \in Start!CPU /\ bpc[0] = w /\ bpc' \in [Start!CPU -> Places] /\ bpc'[0] = x
         /\ \A c \in Start!CPU \ {0} : bpc'[c] = bpc[c]
         /\ countHeld = Start!Nobody /\ \A c \in Start!CPU : bpc'[c] \notin {"kernel", "took"}
<1>1. /\ 0 \in Start!CPU /\ bpc[0] = w /\ bpc' \in [Start!CPU -> Places] /\ bpc'[0] = x
      /\ \A c \in Start!CPU \ {0} : bpc'[c] = bpc[c]
  BY Moved, SizesFacts, Zenon
<1>2. BootOK /\ (~runnable => /\ countHeld = Start!Nobody
                             /\ \A c \in Start!CPU : bpc[c] \notin {"kernel", "took"})
  BY BootParts, Zenon
<1>3. ~runnable
  BY <1>1, <1>2 DEF BootOK, BootStarting, Up
<1>4. x \notin {"kernel", "took"}
  BY DEF Up
<1> QED
  BY <1>1, <1>2, <1>3, <1>4, Zenon

LEMMA StartNextInv == ASSUME BootSizes, BootInv, Start!StartNext PROVE BootInv'
<1> PICK x : x = IF next = ncpu THEN "kinit2" ELSE "kalloc" OBVIOUS
<1>1. /\ 0 \in Start!CPU /\ bpc[0] = "startothers" /\ bpc'[0] = x
      /\ bpc' \in [Start!CPU -> Places] /\ \A c \in Start!CPU \ {0} : bpc'[c] = bpc[c]
      /\ countHeld = Start!Nobody /\ \A c \in Start!CPU : bpc'[c] \notin {"kernel", "took"}
  <2>1. Start!Goes(0, "startothers", x)
    BY Zenon DEF Start!StartNext
  <2>2. /\ "startothers" \in BootStarting \cup {"kinit2", "use_lock", "userinit"}
        /\ x \in Places \ Up
    BY PlacesAre DEF BootStarting, Up
  <2> QED
    BY <2>1, <2>2, BootMoved, Zenon
<1>2. /\ UNCHANGED <<next, freelist, use_lock, mailbox, ipis, started, stack,
                     runnable, countHeld, clobbered>>
  BY Zenon DEF Start!StartNext
<1>3. BootOK /\ ListOK /\ ~clobbered /\ \A c \in Start!CPU \ {0} : OtherOK(c)
  BY BootParts, Zenon
<1>4. r' \in [Start!CPU -> Seq(Nat)] /\ (x = "kalloc" => r'[0] = freelist)
  <2>1. r' = r \/ r' = [r EXCEPT ![0] = freelist]
    BY Zenon DEF Start!StartNext, Start!ReadHead
  <2>2. x = "kalloc" => r' = [r EXCEPT ![0] = freelist]
    <3>1. x = "kalloc" => next # ncpu
      OBVIOUS
    <3> QED
      BY <3>1, Zenon DEF Start!StartNext, Start!ReadHead
  <2>3. r \in [Start!CPU -> Seq(Nat)] /\ freelist \in Seq(Nat)
    BY BootFacts, Zenon
  <2> QED
    BY <1>1, <2>1, <2>2, <2>3, Zenon
<1>5. BootOK'
  <2>1. next \in 1 .. ncpu /\ ncpu \in Nat
    BY BootFacts, Zenon
  <2>2. next # ncpu => next < ncpu
    BY <2>1
  <2> QED
    BY <1>1, <1>2, <1>3, <2>2 DEF BootOK, BootStarting, Up
<1>6. Given' = Given
  BY <1>1, <1>2 DEF Given
<1>7. ListOK'
  BY <1>1, <1>2, <1>3, <1>4, <1>6 DEF ListOK, BootStarting
<1>8. ASSUME NEW c \in Start!CPU \ {0} PROVE OtherOK(c)'
  <2>1. OtherOK(c) /\ bpc'[c] = bpc[c] /\ bpc[0] # "wait" /\ bpc'[0] # "wait"
    BY <1>1, <1>3, Zenon
  <2> QED
    BY <1>2, <1>6, <2>1, Zenon DEF OtherOK
<1> QED
  <2>1. /\ bpc' \in [Start!CPU -> Places] /\ ipis' \in [Start!CPU -> Nat]
        /\ started' \in [Start!CPU -> BOOLEAN]
        /\ stack' \in [Start!CPU -> Nat] /\ r' \in [Start!CPU -> Seq(Nat)]
    BY <1>1, <1>2, <1>4, BootFacts, Zenon
  <2> QED
    BY <1>1, <1>2, <1>3, <1>5, <1>7, <1>8, <2>1, Zenon DEF BootInv

LEMMA WriteMailboxInv == ASSUME BootSizes, BootInv, Start!WriteMailbox PROVE BootInv'
<1>1. /\ 0 \in Start!CPU /\ bpc[0] = "kalloc" /\ bpc'[0] = "ipi"
      /\ bpc' \in [Start!CPU -> Places] /\ \A c \in Start!CPU \ {0} : bpc'[c] = bpc[c]
      /\ countHeld = Start!Nobody /\ \A c \in Start!CPU : bpc'[c] \notin {"kernel", "took"}
  <2>1. Start!Goes(0, "kalloc", "ipi")
    BY Zenon DEF Start!WriteMailbox
  <2>2. /\ "kalloc" \in BootStarting \cup {"kinit2", "use_lock", "userinit"}
        /\ "ipi" \in Places \ Up
    BY PlacesAre DEF BootStarting, Up
  <2> QED
    BY <2>1, <2>2, BootMoved, Zenon
<1>2. /\ UNCHANGED <<next, use_lock, ipis, started, stack, r, runnable,
                     countHeld, clobbered>>
  BY Zenon DEF Start!WriteMailbox
<1>3. BootOK /\ ListOK /\ ~clobbered /\ \A c \in Start!CPU \ {0} : OtherOK(c)
  BY BootParts, Zenon
<1>4. /\ bpc' \in [Start!CPU -> Places] /\ ipis' \in [Start!CPU -> Nat]
      /\ started' \in [Start!CPU -> BOOLEAN]
      /\ stack' \in [Start!CPU -> Nat] /\ r' \in [Start!CPU -> Seq(Nat)]
  BY <1>1, <1>2, BootFacts, Zenon
<1>5. BootOK'
  BY <1>1, <1>2, <1>3, Zenon DEF BootOK, BootStarting, Up
<1>6. ListOK'
  <2>1. PICK m \in Nat \ {0} : /\ m = Low + 1 - next /\ m = Low - Given
                               /\ m - 1 = Low - next /\ m - 1 \in Nat
    <3>1. bpc[0] = "kalloc" /\ next \in Start!CPU \ {0} /\ Low \in Nat /\ next <= Low
      BY BootFacts, Zenon DEF Start!WriteMailbox, Start!Goes
    <3>2. next \in Nat /\ Given = next - 1
      <4>1. next \in 1 .. ncpu
        BY BootFacts, Zenon
      <4> QED
        BY <3>1, <4>1 DEF Given
    <3> QED
      BY <3>1, <3>2
  <2>2. r[0] = Down(m) /\ freelist = Down(m) /\ bpc[0] = "kalloc"
    BY <2>1, Zenon DEF BootInv, ListOK, Start!WriteMailbox, Start!Goes, BootStarting
  <2>3. Down(m) # <<>> /\ Head(Down(m)) = m /\ Tail(Down(m)) = Down(m - 1)
    BY <2>1, DownIs, Zenon
  <2>4. freelist' = Down(m - 1) /\ mailbox' = m
    BY <2>2, <2>3, Zenon DEF Start!WriteMailbox, Start!Unlink
  <2>5. bpc'[0] = "ipi" /\ next' = next
    BY <1>1, <1>2
  <2>6. Given' = next /\ Low - Given' = m - 1
    BY <2>1, <2>5 DEF Given
  <2>7. /\ freelist' \in Seq(Nat) /\ freelist' = Down(Low - Given')
        /\ \A i \in 1 .. Len(freelist') : freelist'[i] \in 1 .. Low - Given'
    BY <2>1, <2>4, <2>6, DownIs, Zenon
  <2> QED
    BY <1>1, <2>1, <2>4, <2>5, <2>7, Zenon DEF ListOK
<1>7. ASSUME NEW c \in Start!CPU \ {0} PROVE OtherOK(c)'
  <2>1. /\ bpc[0] = "kalloc" /\ bpc'[0] = "ipi" /\ bpc'[c] = bpc[c] /\ next' = next
        /\ UNCHANGED <<ipis, started, stack>>
    BY <1>1, <1>2
  <2>2. Given \in Nat /\ Given' = Given + 1
    <3>1. next \in 1 .. ncpu /\ ncpu \in Nat
      BY BootFacts, Zenon
    <3> QED
      BY <2>1, <3>1 DEF Given
  <2>3. c <= Given => c <= Given'
    <3>1. c \in Nat
      BY BootFacts, Zenon
    <3> QED
      BY <2>2, <3>1
  <2> QED
    BY <1>3, <2>1, <2>3 DEF OtherOK
<1> QED
  BY <1>1, <1>2, <1>3, <1>4, <1>5, <1>6, <1>7, Zenon DEF BootInv

LEMMA IpiInv == ASSUME BootSizes, BootInv, Start!lapicstartap PROVE BootInv'
<1>1. /\ 0 \in Start!CPU /\ bpc[0] = "ipi" /\ bpc'[0] = "wait"
      /\ bpc' \in [Start!CPU -> Places] /\ \A c \in Start!CPU \ {0} : bpc'[c] = bpc[c]
      /\ countHeld = Start!Nobody /\ \A c \in Start!CPU : bpc'[c] \notin {"kernel", "took"}
  <2>1. Start!Goes(0, "ipi", "wait")
    BY Zenon DEF Start!lapicstartap
  <2>2. /\ "ipi" \in BootStarting \cup {"kinit2", "use_lock", "userinit"}
        /\ "wait" \in Places \ Up
    BY PlacesAre DEF BootStarting, Up
  <2> QED
    BY <2>1, <2>2, BootMoved, Zenon
<1>2. /\ UNCHANGED <<next, freelist, use_lock, kmemHeld, mailbox, started, stack,
                     r, runnable, countHeld, clobbered>>
      /\ ipis' = [ipis EXCEPT ![next] = 2]
  BY Zenon DEF Start!lapicstartap
<1>3. BootOK /\ ListOK /\ ~clobbered /\ \A c \in Start!CPU \ {0} : OtherOK(c)
  BY BootParts, Zenon
<1>4. /\ bpc' \in [Start!CPU -> Places] /\ ipis' \in [Start!CPU -> Nat]
      /\ started' \in [Start!CPU -> BOOLEAN]
      /\ stack' \in [Start!CPU -> Nat] /\ r' \in [Start!CPU -> Seq(Nat)]
  BY <1>1, <1>2, BootFacts, Zenon
<1>5. next # 0 /\ \A c \in Start!CPU : c # next => ipis'[c] = ipis[c]
  <2>1. next \in Start!CPU \ {0} /\ ipis \in [Start!CPU -> Nat]
    BY <1>1, BootFacts, Zenon
  <2> QED
    BY <1>2, <2>1
<1>6. BootOK'
  <2>1. ipis'[0] = ipis[0]
    BY <1>1, <1>5
  <2> QED
    BY <1>1, <1>2, <1>3, <2>1, Zenon DEF BootOK, BootStarting, Up
<1>7. Given' = Given
  BY <1>1, <1>2 DEF Given
<1>8. ListOK'
  BY <1>1, <1>2, <1>3, <1>7 DEF ListOK, BootStarting
<1>9. ASSUME NEW c \in Start!CPU \ {0} PROVE OtherOK(c)'
  <2>1. c \in Nat /\ next \in Nat
    <3>1. c \in Nat /\ next \in 1 .. ncpu
      BY BootFacts, Zenon
    <3> QED
      BY <3>1
  <2>2. c > next => c # next
    BY <2>1
  <2>3. c # next => ipis'[c] = ipis[c]
    BY <1>5
  <2>4. OtherOK(c) /\ bpc'[c] = bpc[c] /\ bpc[0] # "wait" /\ bpc'[0] = "wait"
    BY <1>1, <1>3
  <2> QED
    BY <1>2, <1>7, <2>2, <2>3, <2>4, Zenon DEF OtherOK
<1> QED
  BY <1>1, <1>2, <1>3, <1>4, <1>6, <1>8, <1>9, Zenon DEF BootInv

LEMMA WaitStartedInv == ASSUME BootSizes, BootInv, Start!WaitStarted PROVE BootInv'
<1>1. /\ 0 \in Start!CPU /\ bpc[0] = "wait" /\ bpc'[0] = "startothers"
      /\ bpc' \in [Start!CPU -> Places] /\ \A c \in Start!CPU \ {0} : bpc'[c] = bpc[c]
      /\ countHeld = Start!Nobody /\ \A c \in Start!CPU : bpc'[c] \notin {"kernel", "took"}
  <2>1. Start!Goes(0, "wait", "startothers")
    BY Zenon DEF Start!WaitStarted
  <2>2. /\ "wait" \in BootStarting \cup {"kinit2", "use_lock", "userinit"}
        /\ "startothers" \in Places \ Up
    BY PlacesAre DEF BootStarting, Up
  <2> QED
    BY <2>1, <2>2, BootMoved, Zenon
<1>2. /\ UNCHANGED <<freelist, use_lock, kmemHeld, mailbox, ipis, started, stack,
                     r, runnable, countHeld, clobbered>>
      /\ next' = next + 1 /\ started[next]
  BY Zenon DEF Start!WaitStarted
<1>3. BootOK /\ ListOK /\ ~clobbered /\ \A c \in Start!CPU \ {0} : OtherOK(c)
  BY BootParts, Zenon
<1>4. /\ bpc' \in [Start!CPU -> Places] /\ ipis' \in [Start!CPU -> Nat]
      /\ started' \in [Start!CPU -> BOOLEAN]
      /\ stack' \in [Start!CPU -> Nat] /\ r' \in [Start!CPU -> Seq(Nat)]
  BY <1>1, <1>2, BootFacts, Zenon
<1>5. BootOK'
  <2>1. next \in Nat /\ ncpu \in Nat /\ next < ncpu /\ next \in 1 .. ncpu
    <3>1. ncpu \in Nat /\ next \in 1 .. ncpu
      BY BootFacts, Zenon
    <3> QED
      BY <1>1, <1>3, <3>1 DEF BootOK
  <2> QED
    BY <1>1, <1>2, <1>3, <2>1 DEF BootOK, BootStarting, Up
<1>6. Given' = Given
  <2>1. next \in 1 .. ncpu /\ ncpu \in Nat
    BY BootFacts, Zenon
  <2> QED
    BY <1>1, <1>2, <2>1 DEF Given
<1>7. ListOK'
  BY <1>1, <1>2, <1>3, <1>6 DEF ListOK, BootStarting
<1>8. ASSUME NEW c \in Start!CPU \ {0} PROVE OtherOK(c)'
  <2>1. c \in Nat /\ next \in Nat /\ next \in Start!CPU \ {0}
    <3>1. c \in Nat /\ next \in 1 .. ncpu /\ next \in Start!CPU \ {0}
      BY <1>1, BootFacts, Zenon
    <3> QED
      BY <3>1
  <2>2. OtherOK(c) /\ OtherOK(next)
    BY <1>3, <2>1, Zenon
  <2>3. c < next + 1 => bpc[c] \in Up
    BY <1>2, <2>1, <2>2 DEF OtherOK
  <2>4. c > next + 1 \/ c = next + 1 => bpc[c] = "halted" /\ ipis[c] = 0
    <3>1. c > next + 1 \/ c = next + 1 => c > next
      BY <2>1
    <3> QED
      BY <2>2, <3>1, Zenon DEF OtherOK
  <2> QED
    BY <1>1, <1>2, <1>6, <2>2, <2>3, <2>4 DEF OtherOK
<1> QED
  BY <1>1, <1>2, <1>3, <1>4, <1>5, <1>7, <1>8, Zenon DEF BootInv

LEMMA Kinit2Inv == ASSUME BootSizes, BootInv, Start!kinit2 PROVE BootInv'
<1>1. /\ 0 \in Start!CPU /\ bpc[0] = "kinit2" /\ bpc'[0] = "use_lock"
      /\ bpc' \in [Start!CPU -> Places] /\ \A c \in Start!CPU \ {0} : bpc'[c] = bpc[c]
      /\ countHeld = Start!Nobody /\ \A c \in Start!CPU : bpc'[c] \notin {"kernel", "took"}
  <2>1. Start!Goes(0, "kinit2", "use_lock")
    BY Zenon DEF Start!kinit2
  <2>2. /\ "kinit2" \in BootStarting \cup {"kinit2", "use_lock", "userinit"}
        /\ "use_lock" \in Places \ Up
    BY PlacesAre DEF BootStarting, Up
  <2> QED
    BY <2>1, <2>2, BootMoved, Zenon
<1>2. /\ UNCHANGED <<next, use_lock, kmemHeld, mailbox, ipis, started, stack,
                     r, runnable, countHeld, clobbered>>
  BY Zenon DEF Start!kinit2
<1>3. BootOK /\ ListOK /\ ~clobbered /\ \A c \in Start!CPU \ {0} : OtherOK(c)
  BY BootParts, Zenon
<1>4. /\ bpc' \in [Start!CPU -> Places] /\ ipis' \in [Start!CPU -> Nat]
      /\ started' \in [Start!CPU -> BOOLEAN]
      /\ stack' \in [Start!CPU -> Nat] /\ r' \in [Start!CPU -> Seq(Nat)]
  BY <1>1, <1>2, BootFacts, Zenon
<1>5. BootOK'
  BY <1>1, <1>2, <1>3, Zenon DEF BootOK, BootStarting, Up
<1>6. Given' = Given
  BY <1>1, <1>2 DEF Given
<1>7. ListOK'
  <2>1. PICK k \in Nat : k = Pages - Low
    BY BootFacts
  <2>2. PICK q : q = [i \in 1 .. k |-> Pages + 1 - i]
    BY Zenon
  <2>3. q \in [1 .. k -> Nat] /\ \A i \in 1 .. k : q[i] = Pages + 1 - i /\ q[i] > Low
    <3>1. Pages \in Nat /\ Low \in Nat
      BY BootFacts, Zenon
    <3> QED
      BY <2>1, <2>2, <3>1
  <2>4. q \in Seq(Nat) /\ Len(q) = k
    BY <2>3
  <2>5. PICK l \in Seq(Nat) : l = freelist
    BY BootFacts, Zenon
  <2>6. /\ q \o l \in Seq(Nat) /\ Len(q \o l) = k + Len(l)
        /\ \A i \in 1 .. k + Len(l) : (q \o l)[i] = IF i <= k THEN q[i] ELSE l[i - k]
    BY <2>4, ConcatIs, Zenon
  <2>7. freelist' = q \o l
    BY <2>1, <2>2, <2>5, Zenon DEF Start!kinit2
  <2>8. ASSUME NEW i \in 1 .. Len(freelist')
         PROVE  freelist'[i] \in 1 .. Low - Given' \/ freelist'[i] > Low
    <3>1. CASE i <= k
      <4>1. i \in 1 .. k /\ i \in 1 .. k + Len(l)
        BY <2>6, <2>7, <3>1
      <4> QED
        BY <2>3, <2>6, <2>7, <3>1, <4>1, Zenon
    <3>2. CASE ~(i <= k)
      <4>1. i - k \in 1 .. Len(l) /\ i \in 1 .. k + Len(l)
        <5>1. Len(l) \in Nat /\ i \in 1 .. k + Len(l)
          BY <2>5, <2>6, <2>7
        <5> QED
          BY <3>2, <5>1
      <4> QED
        BY <1>3, <1>6, <2>5, <2>6, <2>7, <3>2, <4>1, Zenon DEF ListOK
    <3> QED
      BY <3>1, <3>2, Zenon
  <2> QED
    BY <1>1, <2>6, <2>7, <2>8 DEF ListOK, BootStarting
<1>8. ASSUME NEW c \in Start!CPU \ {0} PROVE OtherOK(c)'
  <2>1. OtherOK(c) /\ bpc'[c] = bpc[c] /\ bpc[0] # "wait" /\ bpc'[0] # "wait"
    BY <1>1, <1>3, Zenon
  <2> QED
    BY <1>2, <1>6, <2>1, Zenon DEF OtherOK
<1> QED
  BY <1>1, <1>2, <1>3, <1>4, <1>5, <1>7, <1>8, Zenon DEF BootInv

LEMMA UseLockInv == ASSUME BootSizes, BootInv, Start!UseLock PROVE BootInv'
<1>1. /\ 0 \in Start!CPU /\ bpc[0] = "use_lock" /\ bpc'[0] = "userinit"
      /\ bpc' \in [Start!CPU -> Places] /\ \A c \in Start!CPU \ {0} : bpc'[c] = bpc[c]
      /\ countHeld = Start!Nobody /\ \A c \in Start!CPU : bpc'[c] \notin {"kernel", "took"}
  <2>1. Start!Goes(0, "use_lock", "userinit")
    BY Zenon DEF Start!UseLock
  <2>2. /\ "use_lock" \in BootStarting \cup {"kinit2", "use_lock", "userinit"}
        /\ "userinit" \in Places \ Up
    BY PlacesAre DEF BootStarting, Up
  <2> QED
    BY <2>1, <2>2, BootMoved, Zenon
<1>2. /\ UNCHANGED <<next, freelist, kmemHeld, mailbox, ipis, started, stack,
                     r, runnable, countHeld, clobbered>>
      /\ use_lock' = TRUE
  BY Zenon DEF Start!UseLock
<1>3. BootOK /\ ListOK /\ ~clobbered /\ \A c \in Start!CPU \ {0} : OtherOK(c)
  BY BootParts, Zenon
<1>4. /\ bpc' \in [Start!CPU -> Places] /\ ipis' \in [Start!CPU -> Nat]
      /\ started' \in [Start!CPU -> BOOLEAN]
      /\ stack' \in [Start!CPU -> Nat] /\ r' \in [Start!CPU -> Seq(Nat)]
  BY <1>1, <1>2, BootFacts, Zenon
<1>5. BootOK'
  BY <1>1, <1>2, <1>3, Zenon DEF BootOK, BootStarting, Up
<1>6. Given' = Given
  BY <1>1, <1>2 DEF Given
<1>7. ListOK'
  BY <1>1, <1>2, <1>3, <1>6 DEF ListOK, BootStarting
<1>8. ASSUME NEW c \in Start!CPU \ {0} PROVE OtherOK(c)'
  <2>1. OtherOK(c) /\ bpc'[c] = bpc[c] /\ bpc[0] # "wait" /\ bpc'[0] # "wait"
    BY <1>1, <1>3, Zenon
  <2> QED
    BY <1>2, <1>6, <2>1, Zenon DEF OtherOK
<1> QED
  BY <1>1, <1>2, <1>3, <1>4, <1>5, <1>7, <1>8, Zenon DEF BootInv

LEMMA UserinitInv == ASSUME BootSizes, BootInv, Start!userinit PROVE BootInv'
<1>1. /\ 0 \in Start!CPU /\ bpc[0] = "userinit" /\ bpc'[0] = "mpmain"
      /\ bpc' \in [Start!CPU -> Places] /\ \A c \in Start!CPU \ {0} : bpc'[c] = bpc[c]
      /\ countHeld = Start!Nobody /\ \A c \in Start!CPU : bpc'[c] \notin {"kernel", "took"}
  <2>1. Start!Goes(0, "userinit", "mpmain")
    BY Zenon DEF Start!userinit
  <2>2. /\ "userinit" \in BootStarting \cup {"kinit2", "use_lock", "userinit"}
        /\ "mpmain" \in Places \ Up
    BY PlacesAre DEF BootStarting, Up
  <2> QED
    BY <2>1, <2>2, BootMoved, Zenon
<1>2. /\ UNCHANGED <<next, freelist, use_lock, kmemHeld, mailbox, ipis, started,
                     stack, r, countHeld, clobbered>>
      /\ runnable' = TRUE
  BY Zenon DEF Start!userinit
<1>3. BootOK /\ ListOK /\ ~clobbered /\ \A c \in Start!CPU \ {0} : OtherOK(c)
  BY BootParts, Zenon
<1>4. /\ bpc' \in [Start!CPU -> Places] /\ ipis' \in [Start!CPU -> Nat]
      /\ started' \in [Start!CPU -> BOOLEAN]
      /\ stack' \in [Start!CPU -> Nat] /\ r' \in [Start!CPU -> Seq(Nat)]
  BY <1>1, <1>2, BootFacts, Zenon
<1>5. BootOK'
  BY <1>1, <1>2, <1>3, Zenon DEF BootOK, BootStarting, Up
<1>6. Given' = Given
  BY <1>1, <1>2 DEF Given
<1>7. ListOK'
  BY <1>1, <1>2, <1>3, <1>6 DEF ListOK, BootStarting
<1>8. ASSUME NEW c \in Start!CPU \ {0} PROVE OtherOK(c)'
  <2>1. OtherOK(c) /\ bpc'[c] = bpc[c] /\ bpc[0] # "wait" /\ bpc'[0] # "wait"
    BY <1>1, <1>3, Zenon
  <2> QED
    BY <1>2, <1>6, <2>1, Zenon DEF OtherOK
<1> QED
  BY <1>1, <1>2, <1>3, <1>4, <1>5, <1>7, <1>8, Zenon DEF BootInv

LEMMA StartupInv ==
  ASSUME BootSizes, BootInv, NEW b \in Start!CPU, Start!Startup(b)
  PROVE  BootInv'
<1>1. /\ b # 0 /\ ipis[b] > 0 /\ ipis' = [ipis EXCEPT ![b] = @ - 1]
      /\ bpc' = bpc \/ (bpc[b] = "halted" /\ bpc' = [bpc EXCEPT ![b] = "entry"])
      /\ UNCHANGED <<next, freelist, use_lock, kmemHeld, mailbox, started, stack, r,
                     runnable, countHeld, clobbered>>
  <2>1. ipis[0] = 0 /\ ipis[b] > 0
    BY Zenon DEF BootInv, BootOK, Start!Startup
  <2>2. b # 0
    BY <2>1
  <2> QED
    BY <2>1, <2>2, Zenon DEF Start!Startup, Start!Goes
<1>2. bpc[b] = "halted" => b = next /\ bpc[0] = "wait"
  <2>1. b \in Nat /\ next \in Nat /\ OtherOK(b)
    <3>1. b \in Start!CPU \ {0} /\ next \in 1 .. ncpu
      BY <1>1, BootFacts, Zenon
    <3> QED
      BY <3>1, BootFacts DEF BootInv
  <2>2. b > next \/ b = next \/ b < next
    BY <2>1
  <2>3. "halted" \notin Up
    BY DEF Up
  <2>4. ~(ipis[b] = 0)
    BY <1>1, BootFacts
  <2> QED
    BY <2>1, <2>2, <2>3, <2>4, Zenon DEF OtherOK
<1>3. /\ bpc' \in [Start!CPU -> Places] /\ bpc'[0] = bpc[0]
      /\ \A c \in Start!CPU : bpc'[c] = bpc[c] \/ (c = b /\ bpc[b] = "halted" /\ bpc'[c] = "entry")
  BY <1>1, BootFacts, Zenon DEF Places
<1>4. /\ ipis' \in [Start!CPU -> Nat] /\ ipis'[0] = ipis[0]
      /\ \A c \in Start!CPU \ {b} : ipis'[c] = ipis[c]
  <2>1. ipis \in [Start!CPU -> Nat] /\ 0 \in Start!CPU
    BY BootFacts, Zenon
  <2> QED
    BY <1>1, <2>1
<1>5. BootOK'
  BY <1>1, <1>3, <1>4, Zenon DEF BootInv, BootOK
<1>6. Given' = Given
  BY <1>1, <1>3, Zenon DEF Given
<1>7. \A c \in Start!CPU : bpc'[c] \in {"took", "kernel"} => bpc'[c] = bpc[c]
  BY <1>3
<1>8. ListOK'
  BY <1>1, <1>3, <1>6, <1>7, Zenon DEF BootInv, ListOK
<1>9. ASSUME NEW c \in Start!CPU \ {0} PROVE OtherOK(c)'
  <2>1. CASE c = b /\ bpc[b] = "halted"
    <3>1. /\ ~(c > next) /\ ~(c < next) /\ c = next /\ bpc[0] = "wait"
          /\ (bpc'[c] = "halted" \/ bpc'[c] = "entry")
      <4>1. next \in 1 .. ncpu /\ ncpu \in Nat
        BY BootFacts, Zenon
      <4> QED
        BY <1>2, <1>3, <2>1, <4>1
    <3>2. ~started[c]
      BY <2>1, Zenon DEF BootInv, OtherOK, Up
    <3> QED
      BY <1>1, <1>3, <1>6, <3>1, <3>2 DEF BootInv, OtherOK
  <2>2. CASE ~(c = b /\ bpc[b] = "halted")
    <3>1. bpc'[c] = bpc[c]
      BY <1>3, <2>2, Zenon
    <3>2. bpc[c] = "halted" => ipis'[c] = ipis[c]
      BY <1>4, <2>2, Zenon
    <3> QED
      BY <1>1, <1>3, <1>6, <3>1, <3>2, Zenon DEF BootInv, OtherOK
  <2> QED
    BY <2>1, <2>2, Zenon
<1> QED
  BY <1>1, <1>3, <1>4, <1>5, <1>7, <1>8, <1>9, Zenon DEF BootInv

LEMMA EntryInv == ASSUME BootSizes, BootInv, NEW b \in Start!CPU, Start!Entry(b) PROVE BootInv'
<1>0. b # 0 /\ b = next /\ bpc[0] = "wait" /\ mailbox = Low + 1 - b /\ mailbox \in Nat
  <2>1. b # 0 /\ bpc[b] = "entry"
    BY DEF BootInv, BootOK, BootStarting, Up, Start!Entry, Start!Goes
  <2>2. b \in Nat /\ next \in Nat /\ OtherOK(b) /\ b <= Low
    <3>1. b \in Start!CPU \ {0} /\ next \in 1 .. ncpu
      BY <2>1, BootFacts, Zenon
    <3>2. OtherOK(b)
      BY <3>1, Zenon DEF BootInv
    <3> QED
      BY <3>1, <3>2, SizesFacts, BootFacts
  <2>3. b = next /\ bpc[0] = "wait"
    BY <2>1, <2>2 DEF OtherOK, Up
  <2>4. mailbox = Low + 1 - b
    BY <2>3, Zenon DEF BootInv, ListOK
  <2> QED
    <3>1. Low \in Nat
      BY BootFacts, Zenon
    <3> QED
      BY <2>1, <2>2, <2>3, <2>4, <3>1
<1>1. /\ bpc' \in [Start!CPU -> Places] /\ ipis' \in [Start!CPU -> Nat]
      /\ started' \in [Start!CPU -> BOOLEAN]
      /\ stack' \in [Start!CPU -> Nat] /\ r' \in [Start!CPU -> Seq(Nat)]
  BY <1>0, BootFacts, Zenon DEF Start!Entry, Start!Goes, Places
<1>2. BootOK'
  BY BootFacts, Zenon DEF BootInv, BootOK, Start!Entry, Start!Goes, Places, BootStarting, Up
<1>3. ListOK'
  BY BootFacts, Zenon
     DEF BootInv, BootOK, ListOK, Given, Start!Entry, Start!Goes, Places, BootStarting, Up
<1>4. ASSUME NEW c \in Start!CPU \ {0} PROVE OtherOK(c)'
  <2>1. /\ bpc'[0] = bpc[0] /\ Given' = Given /\ UNCHANGED <<next, ipis, started>>
        /\ (c # b => bpc'[c] = bpc[c] /\ stack'[c] = stack[c])
        /\ bpc[b] = "entry" /\ bpc'[b] = "mpenter" /\ stack'[b] = mailbox
    BY <1>0, BootFacts DEF Start!Entry, Start!Goes, Given
  <2>2. CASE c # b
    BY <2>1, <2>2, Zenon DEF BootInv, OtherOK
  <2>3. CASE c = b
    <3>1. ~(c > next) /\ ~(c < next) /\ c <= Given
      <4>1. next \in Nat /\ Given = next
        BY <1>0, BootFacts DEF Given
      <4> QED
        BY <1>0, <2>3, <4>1
    <3>2. ~started[c]
      BY <2>1, <2>3, ZenonT(30) DEF BootInv, OtherOK, Up
    <3> QED
      BY <1>0, <2>1, <2>3, <3>1, <3>2 DEF OtherOK
  <2> QED
    BY <2>2, <2>3, Zenon
<1>5. ~runnable'
        => countHeld' = Start!Nobody /\ \A c \in Start!CPU : bpc'[c] \notin {"kernel", "took"}
  <2>1. Start!Goes(b, "entry", "mpenter") /\ runnable' = runnable /\ countHeld' = countHeld
    BY Zenon DEF Start!Entry
  <2>2. "mpenter" \in Places \ {"kernel", "took"}
    BY PlacesAre
  <2> QED
    BY <2>1, <2>2, StaysQuiet, Zenon
<1>6. ~clobbered'
  BY Zenon DEF BootInv, Start!Entry
<1> QED
  BY <1>1, <1>2, <1>3, <1>4, <1>5, <1>6, Zenon DEF BootInv

LEMMA SeginitInv ==
  ASSUME BootSizes, BootInv, NEW b \in Start!CPU, Start!seginit(b)
  PROVE  BootInv'
<1>1. /\ bpc' \in [Start!CPU -> Places] /\ ipis' \in [Start!CPU -> Nat]
      /\ started' \in [Start!CPU -> BOOLEAN]
      /\ stack' \in [Start!CPU -> Nat] /\ r' \in [Start!CPU -> Seq(Nat)]
  <2>1. bpc' \in [Start!CPU -> Places]
    BY PlacesAre, Moved, Zenon DEF Start!seginit
  <2> QED
    BY <2>1, BootFacts, Zenon DEF Start!seginit
<1>2. BootOK'
  BY BootFacts, SMTT(30) DEF BootInv, BootOK, Start!seginit, Start!Goes, Places, BootStarting, Up
<1>3. ListOK'
  BY BootFacts, ZenonT(30)
     DEF BootInv, BootOK, ListOK, Given, Start!seginit, Start!Goes, Places, BootStarting, Up
<1>4. ASSUME NEW c \in Start!CPU \ {0} PROVE OtherOK(c)'
  BY BootFacts, ZenonT(30)
     DEF BootInv, BootOK, OtherOK, Given, Start!seginit, Start!Goes, Places, BootStarting, Up
<1>5. ~runnable'
        => countHeld' = Start!Nobody /\ \A c \in Start!CPU : bpc'[c] \notin {"kernel", "took"}
  <2>1. Start!Goes(b, "mpenter", "mpmain") /\ runnable' = runnable /\ countHeld' = Start!Nobody
    BY Zenon DEF Start!seginit
  <2>2. "mpmain" \in Places \ {"kernel", "took"}
    BY PlacesAre
  <2> QED
    BY <2>1, <2>2, StaysQuiet, Zenon
<1>6. ~clobbered'
  <2>1. bpc[b] = "mpenter"
    BY Zenon DEF Start!seginit, Start!Goes
  <2>2. countHeld = Start!Nobody
    BY <2>1, Early
  <2> QED
    BY <2>2, Zenon DEF BootInv, Start!seginit
<1> QED
  BY <1>1, <1>2, <1>3, <1>4, <1>5, <1>6, Zenon DEF BootInv

LEMMA MpmainInv == ASSUME BootSizes, BootInv, NEW b \in Start!CPU, Start!mpmain(b) PROVE BootInv'
<1>1. /\ bpc' \in [Start!CPU -> Places] /\ ipis' \in [Start!CPU -> Nat]
      /\ started' \in [Start!CPU -> BOOLEAN]
      /\ stack' \in [Start!CPU -> Nat] /\ r' \in [Start!CPU -> Seq(Nat)]
  <2>1. bpc' \in [Start!CPU -> Places]
    BY PlacesAre, Moved, Zenon DEF Start!mpmain
  <2> QED
    BY <2>1, BootFacts, Zenon DEF Start!mpmain
<1>2. BootOK'
  BY BootFacts, SMTT(30) DEF BootInv, BootOK, Start!mpmain, Start!Goes, Places, BootStarting, Up
<1>3. ListOK'
  BY BootFacts, ZenonT(30)
     DEF BootInv, BootOK, ListOK, Given, Start!mpmain, Start!Goes, Places, BootStarting, Up
<1>4. ASSUME NEW c \in Start!CPU \ {0} PROVE OtherOK(c)'
  BY BootFacts, ZenonT(30)
     DEF BootInv, BootOK, OtherOK, Given, Start!mpmain, Start!Goes, Places, BootStarting, Up
<1>5. ~runnable'
        => countHeld' = Start!Nobody /\ \A c \in Start!CPU : bpc'[c] \notin {"kernel", "took"}
  <2>1. Start!Goes(b, "mpmain", "scheduler") /\ runnable' = runnable /\ countHeld' = countHeld
    BY Zenon DEF Start!mpmain
  <2>2. "scheduler" \in Places \ {"kernel", "took"}
    BY PlacesAre
  <2> QED
    BY <2>1, <2>2, StaysQuiet, Zenon
<1>6. ~clobbered'
  BY BootFacts, Zenon
     DEF BootInv, BootOK, OtherOK, Start!mpmain, Start!Goes, Places, BootStarting, Up
<1> QED
  BY <1>1, <1>2, <1>3, <1>4, <1>5, <1>6, Zenon DEF BootInv

LEMMA AllocatesInv ==
  ASSUME BootSizes, BootInv, NEW b \in Start!CPU, Start!Allocates(b)
  PROVE  BootInv'
<1>1. /\ bpc' \in [Start!CPU -> Places] /\ ipis' \in [Start!CPU -> Nat]
      /\ started' \in [Start!CPU -> BOOLEAN]
      /\ stack' \in [Start!CPU -> Nat] /\ r' \in [Start!CPU -> Seq(Nat)]
  <2>1. bpc' \in [Start!CPU -> Places]
    BY BootFacts, Zenon DEF Start!Allocates, Start!Goes, Places, Up
  <2>2. r' \in [Start!CPU -> Seq(Nat)]
    <3>1. r' = r \/ r' = [r EXCEPT ![b] = freelist]
      BY Zenon DEF Start!Allocates, Start!ReadHead
    <3>2. r \in [Start!CPU -> Seq(Nat)] /\ freelist \in Seq(Nat)
      BY BootFacts, Zenon
    <3> QED
      BY <3>1, <3>2
  <2> QED
    BY <2>1, <2>2, BootFacts, Zenon DEF Start!Allocates
<1>2. BootOK'
  BY BootFacts, ZenonT(30)
     DEF BootInv, BootOK, Start!Allocates, Start!Goes, Start!ReadHead, Start!Unlink,
         Places, BootStarting, Up
<1>3. ListOK'
  <2>1. /\ runnable /\ use_lock /\ bpc[0] \in {"mpmain"} \cup Up /\ bpc'[0] \in {"mpmain"} \cup Up
        /\ Given' = Given /\ next' = next
    BY BootFacts, Zenon DEF BootInv, BootOK, Start!Allocates, Start!Goes, Up, Given
  <2>2. bpc'[0] \notin BootStarting \cup {"kinit2"}
    BY <2>1, Zenon DEF BootStarting, Up
  <2>3. CASE /\ bpc[b] = "scheduler" /\ bpc' = [bpc EXCEPT ![b] = "took"]
             /\ Start!ReadHead(b) /\ UNCHANGED freelist
    <3>1. kmemHeld = Start!Nobody /\ kmemHeld' = b /\ r'[b] = freelist
      <4>1. r \in [Start!CPU -> Seq(Nat)]
        BY BootFacts, Zenon
      <4> QED
        BY <2>1, <2>3, <4>1, Zenon DEF Start!ReadHead
    <3>2. ASSUME NEW c \in Start!CPU, bpc'[c] = "took" PROVE c = b
      <4>1. c # b => bpc[c] = "took"
        BY <2>3, <3>2, BootFacts
      <4>2. c # Start!Nobody
        BY SizesFacts, Zenon
      <4> QED
        BY <3>1, <4>1, <4>2, Zenon DEF BootInv, ListOK
    <3> QED
      BY <2>1, <2>2, <2>3, <3>1, <3>2 DEF BootInv, ListOK, BootStarting
  <2>4. CASE /\ bpc[b] = "took" /\ bpc' = [bpc EXCEPT ![b] = "scheduler"]
             /\ Start!Unlink(b) /\ UNCHANGED r
    <3>1. r[b] = freelist /\ kmemHeld = b
      BY <2>4, Zenon DEF BootInv, ListOK
    <3>2. PICK l \in Seq(Nat) : l = freelist
      BY BootFacts, Zenon
    <3>3. freelist' = IF l = <<>> THEN l ELSE Tail(l)
      BY <2>4, <3>1, <3>2, Zenon DEF Start!Unlink
    <3>4. l # <<>> => /\ Tail(l) \in Seq(Nat) /\ Len(Tail(l)) = Len(l) - 1
                      /\ \A i \in 1 .. Len(l) - 1 : Tail(l)[i] = l[i + 1] /\ i + 1 \in 1 .. Len(l)
      BY <3>2
    <3>5. \A i \in 1 .. Len(l) : l[i] \in 1 .. Low - Given \/ l[i] > Low
      BY <3>2, Zenon DEF BootInv, ListOK
    <3>6. freelist' \in Seq(Nat)
          /\ \A i \in 1 .. Len(freelist') : freelist'[i] \in 1 .. Low - Given \/ freelist'[i] > Low
      BY <3>3, <3>4, <3>5, Zenon
    <3>7. ASSUME NEW c \in Start!CPU PROVE bpc'[c] # "took"
      <4>1. bpc'[c] = "took" => c # b /\ bpc[c] = "took"
        BY <2>4, BootFacts
      <4> QED
        BY <3>1, <4>1, Zenon DEF BootInv, ListOK
    <3> QED
      BY <2>1, <2>2, <3>6, <3>7 DEF ListOK, BootStarting
  <2> QED
    BY <2>3, <2>4, Zenon DEF Start!Allocates, Start!Goes
<1>4. ASSUME NEW c \in Start!CPU \ {0} PROVE OtherOK(c)'
  <2>1. /\ runnable /\ bpc[0] \in {"mpmain"} \cup Up /\ bpc'[0] \in {"mpmain"} \cup Up
        /\ bpc[0] # "wait" /\ bpc'[0] # "wait" /\ Given' = Given /\ next' = next
    BY BootFacts, Zenon DEF BootInv, BootOK, Start!Allocates, Start!Goes, Up, Given
  <2>2. stack' = stack /\ started' = started /\ ipis' = ipis
    BY Zenon DEF Start!Allocates
  <2>3. bpc'[c] = bpc[c] \/ (bpc[c] \in {"scheduler", "took"} /\ bpc'[c] \in {"scheduler", "took"})
    BY BootFacts, Zenon DEF Start!Allocates, Start!Goes
  <2>4. next = ncpu /\ c < ncpu /\ OtherOK(c) /\ c \in Nat /\ ncpu \in Nat
    <3>1. next = ncpu
      BY <2>1 DEF BootInv, BootOK, BootStarting, Up
    <3> QED
      BY <3>1, BootFacts, Zenon DEF BootInv
  <2>5. bpc[c] \in Up /\ bpc'[c] \in Up
    BY <2>3, <2>4 DEF OtherOK, Up
  <2>6. /\ bpc'[c] # "mpenter" /\ c < next' /\ ~(c > next') /\ c # next'
    BY <2>1, <2>4, <2>5, SMTT(30) DEF Up
  <2> QED
    BY <2>1, <2>2, <2>4, <2>5, <2>6, ZenonT(30) DEF OtherOK
<1>5. ~runnable'
        => countHeld' = Start!Nobody /\ \A c \in Start!CPU : bpc'[c] \notin {"kernel", "took"}
  BY Zenon DEF Start!Allocates
<1>6. ~clobbered'
  BY BootFacts, ZenonT(30)
     DEF BootInv, BootOK, OtherOK, Start!Allocates, Start!Goes, Start!ReadHead,
         Start!Unlink, Places, BootStarting, Up
<1> QED
  BY <1>1, <1>2, <1>3, <1>4, <1>5, <1>6, Zenon DEF BootInv

LEMMA CountsInv == ASSUME BootSizes, BootInv, NEW b \in Start!CPU, Start!Counts(b) PROVE BootInv'
<1>1. /\ bpc' \in [Start!CPU -> Places] /\ ipis' \in [Start!CPU -> Nat]
      /\ started' \in [Start!CPU -> BOOLEAN]
      /\ stack' \in [Start!CPU -> Nat] /\ r' \in [Start!CPU -> Seq(Nat)]
  BY BootFacts, ZenonT(30)
     DEF BootInv, ListOK, Start!Counts, Start!Goes, Places, BootStarting, Up, Start!NoPage
<1>2. BootOK'
  BY BootFacts, Zenon DEF BootInv, BootOK, Start!Counts, Start!Goes, Places, BootStarting, Up
<1>3. ListOK'
  BY BootFacts, ZenonT(30)
     DEF BootInv, BootOK, ListOK, Given, Start!Counts, Start!Goes, Places, BootStarting, Up
<1>4. ASSUME NEW c \in Start!CPU \ {0} PROVE OtherOK(c)'
  BY BootFacts, ZenonT(30)
     DEF BootInv, BootOK, OtherOK, Given, Start!Counts, Start!Goes, Places, BootStarting, Up
<1>5. ~runnable'
        => countHeld' = Start!Nobody /\ \A c \in Start!CPU : bpc'[c] \notin {"kernel", "took"}
  BY Zenon DEF Start!Counts
<1>6. ~clobbered'
  BY BootFacts, Zenon
     DEF BootInv, BootOK, OtherOK, Start!Counts, Start!Goes, Places, BootStarting, Up
<1> QED
  BY <1>1, <1>2, <1>3, <1>4, <1>5, <1>6, Zenon DEF BootInv

LEMMA BootStep == ASSUME BootSizes, BootInv, [Start!Next]_(Start!vars) PROVE BootInv'
<1>1. CASE UNCHANGED Start!vars
  BY <1>1, Zenon DEF Start!vars, BootInv, BootOK, ListOK, OtherOK, Given
<1> QED
  BY <1>1, StartNextInv, WriteMailboxInv, IpiInv, WaitStartedInv, Kinit2Inv, UseLockInv,
     UserinitInv, StartupInv, EntryInv, SeginitInv, MpmainInv, AllocatesInv, CountsInv, Zenon
     DEF Start!Next

(* The stack of processor c is page Low + 1 - c, and the pages of the free *)
(* list are below all of the stacks or above Low.                          *)
LEMMA BootSafe == ASSUME BootSizes, BootInv PROVE Start!StartsSafely
<1>1. \A c \in Start!CPU : c \in Nat /\ c <= Low /\ (c # 0 => OtherOK(c) /\ c >= 1)
  <2>1. \A c \in Start!CPU : c \in Nat /\ c <= Low
    BY SizesFacts, Zenon
  <2>2. \A c \in Start!CPU \ {0} : OtherOK(c) /\ 1 <= c
    BY BootFacts, Zenon DEF BootInv
  <2> TAKE c \in Start!CPU
  <2>3. c # 0 => OtherOK(c) /\ 1 <= c
    BY <2>2, Zenon
  <2> QED
    BY <2>1, <2>3
<1>2. Low \in Nat /\ Given \in Nat /\ stack[0] = Start!NoPage /\ bpc[0] # "mpenter"
  BY BootFacts, SMTT(30) DEF BootInv, BootOK, BootStarting, Up
<1>3. \A c \in Start!CPU : stack[c] = Start!NoPage \/ (c # 0 /\ stack[c] = Low + 1 - c /\ c <= Given)
  BY <1>1, <1>2, Zenon DEF OtherOK
<1>4. \A c \in Start!CPU : bpc[c] = "mpenter" => c # 0 /\ stack[c] = Low + 1 - c
  BY <1>1, <1>2, Zenon DEF OtherOK
<1>5. \A c \in Start!CPU : bpc[c] = "mpenter" => stack[c] \in 1 .. Low
  BY <1>1, <1>2, <1>4
<1>6. \A c, d \in Start!CPU : c # d /\ stack[c] = stack[d] => stack[c] = Start!NoPage
  BY <1>1, <1>2, <1>3
<1>7. ASSUME NEW c \in Start!CPU, NEW d \in Start!CPU,
             {bpc[c], bpc[d]} \subseteq {"kalloc", "took"}
      PROVE  c = d
  <2>1. \A x \in Start!CPU : bpc[x] = "kalloc" => x = 0
    <3> SUFFICES ASSUME NEW x \in Start!CPU, x # 0 PROVE bpc[x] # "kalloc"
      BY Zenon
    <3>1. OtherOK(x) /\ (x > next \/ x = next \/ x < next)
      <4>1. OtherOK(x) /\ x \in Nat /\ next \in 1 .. ncpu /\ ncpu \in Nat
        BY <1>1, BootFacts, Zenon
      <4> QED
        BY <4>1
    <3> QED
      BY <3>1 DEF OtherOK, Up
  <2>2. bpc[0] = "kalloc" => \A x \in Start!CPU : bpc[x] # "took"
    <3>1. bpc[0] = "kalloc" => ~runnable
      BY DEF BootInv, BootOK, Up
    <3> QED
      BY <3>1, Zenon DEF BootInv
  <2>3. bpc[c] \in {"kalloc", "took"} /\ bpc[d] \in {"kalloc", "took"}
    BY <1>7
  <2>4. bpc[c] = "took" /\ bpc[d] = "took" => c = d
    BY Zenon DEF BootInv, ListOK
  <2> QED
    BY <2>1, <2>2, <2>3, <2>4, Zenon
<1>8. ASSUME NEW c \in Start!CPU, stack[c] # Start!NoPage, NEW i \in DOMAIN freelist
      PROVE  freelist[i] # stack[c]
  <2>1. freelist \in Seq(Nat) /\ i \in 1 .. Len(freelist)
    <3>1. freelist \in Seq(Nat)
      BY BootFacts, Zenon
    <3> QED
      BY <3>1
  <2>2. freelist[i] \in 1 .. Low - Given \/ freelist[i] > Low
    BY <2>1, Zenon DEF BootInv, ListOK
  <2>3. stack[c] = Low + 1 - c /\ c <= Given /\ c >= 1 /\ c \in Nat
    BY <1>1, <1>3, <1>8, Zenon
  <2> QED
    BY <1>2, <2>2, <2>3
<1>9. ~clobbered
  BY Zenon DEF BootInv
<1> QED
  BY <1>5, <1>6, <1>7, <1>8, <1>9, Zenon DEF Start!StartsSafely

(* Every processor starts on a stack of its own, in mapped memory and off  *)
(* the free list; nobody shares the allocator or reinitializes a lock in   *)
(* use meanwhile, for any number of processors that there is memory for.   *)
THEOREM BootStarts == ASSUME BootSizes PROVE Start!Spec => []Start!StartsSafely
<1>1. Start!Init => BootInv
  BY BootInit, Zenon
<1>2. BootInv /\ [Start!Next]_(Start!vars) => BootInv'
  BY BootStep, Zenon
<1>3. BootInv => Start!StartsSafely
  BY BootSafe, Zenon
<1> QED
  BY <1>1, <1>2, <1>3, PTL DEF Start!Spec

(***************************************************************************)
(* Both together: a step is a step of one, and leaves the other alone.     *)
(***************************************************************************)
LEMMA SpinSteps == [Locking \/ Starting]_<<spinVars, bootVars>> => [Spin!Next]_(Spin!vars)
<1>1. UNCHANGED spinVars => UNCHANGED Spin!vars
  BY Zenon DEF spinVars, Spin!vars
<1> QED
  BY <1>1, Zenon DEF Locking, Starting

LEMMA StartSteps == [Locking \/ Starting]_<<spinVars, bootVars>> => [Start!Next]_(Start!vars)
<1>1. UNCHANGED bootVars => UNCHANGED Start!vars
  BY Zenon DEF bootVars, Start!vars
<1> QED
  BY <1>1, Zenon DEF Locking, Starting

(* A lock is in the hands of one flow of control, with the interrupts off, *)
(* no panic of acquire, release, popcli or sched is reached, and code      *)
(* without locks has the interrupt flag it started with (spinlock.c).      *)
THEOREM ProcessorsLock == ProcessorsSpec => []LocksSafe
<1>1. ProcessorsInit => SpinInv
  BY SpinlockInit, Zenon DEF ProcessorsInit
<1>2. SpinInv /\ [Locking \/ Starting]_<<spinVars, bootVars>> => SpinInv'
  BY SpinSteps, SpinlockStep, Zenon
<1>3. SpinInv => LocksSafe
  BY SafeFromInv, FlagsFromInv, Zenon DEF LocksSafe
<1> QED
  BY <1>1, <1>2, <1>3, PTL DEF ProcessorsSpec

(* Every processor starts on a stack of its own, in memory that entrypgdir *)
(* maps and off the free list; the allocator and pg_count_lock are used by *)
(* one processor as long as they are unprotected (main.c).                 *)
THEOREM ProcessorsStart == ProcessorsSpec => []StartsSafely
<1> USE BootAssumption DEF BootSizes
<1>1. ProcessorsInit => BootInv
  BY BootInit, Zenon DEF ProcessorsInit
<1>2. BootInv /\ [Locking \/ Starting]_<<spinVars, bootVars>> => BootInv'
  BY StartSteps, BootStep, Zenon
<1>3. BootInv => StartsSafely
  BY BootSafe, Zenon DEF StartsSafely
<1> QED
  BY <1>1, <1>2, <1>3, PTL DEF ProcessorsSpec
=============================================================================

--------------------------- MODULE BufCacheProofs ---------------------------
(***************************************************************************)
(* The buffer cache keeps one buffer per block and one user per buffer,    *)
(* forgets no sleeper and loses no change, for any number of threads,      *)
(* buffers and blocks.                                                     *)
(***************************************************************************)
EXTENDS BufCache, FiniteSetTheorems, WellFoundedInduction, TLAPS

(* The inductive invariant.  The list of buffers holds buffers, the drive  *)
(* works exactly while there is a request, and an interrupt is the end of  *)
(* one (Driver).                                                           *)
Places == {"user", "bget"} \cup Holding
Types ==
  /\ blockno \in [Buf -> Block \cup {NoBlock}]
  /\ busy \in SUBSET Buf /\ valid \in SUBSET Buf /\ dirty \in SUBSET Buf
  /\ mru \in [1 .. NBUF -> Buf]
  /\ idequeue \in Seq(Buf)
  /\ pc \in [Thread -> Places]
  /\ want \in [Thread -> Block \cup {NoBlock}]
  /\ held \in [Thread -> Buf \cup {NoBuf}]
  /\ asleep \in [Thread -> Buf \cup {NoBuf}]
Driver == (drive = "idle" <=> idequeue = <<>>) /\ (irq => drive # "idle")

(* A block has one buffer; who is between bget and brelse holds a buffer   *)
(* of its block, which is busy and nobody else's.                          *)
Distinct == \A b, c \in Buf : blockno[b] = blockno[c] /\ blockno[b] # NoBlock => b = c
Hand ==
  /\ \A t \in Thread : pc[t] # "user" => want[t] \in Block
  /\ \A t \in Thread : pc[t] \in Holding => held[t] \in busy /\ blockno[held[t]] = want[t]
  /\ \A t \in Thread : pc[t] \notin Holding => held[t] = NoBuf
  /\ \A t, u \in Thread : held[t] = held[u] /\ held[t] # NoBuf => t = u
  /\ \A b \in busy : \E t \in Thread : held[t] = b

(* Who sleeps in bget waits for a busy buffer, who sleeps in iderw for its *)
(* own, which is queued; so is a buffer that iderw will find not done.     *)
SleepsOK(t) ==
  /\ asleep[t] # NoBuf => \/ pc[t] = "bget" /\ asleep[t] \in busy
                          \/ pc[t] = "io" /\ asleep[t] = held[t] /\ held[t] \in Range(idequeue)
  /\ pc[t] = "io" /\ held[t] \notin valid \ dirty => held[t] \in Range(idequeue)
Inv == Types /\ Driver /\ Distinct /\ Hand /\ \A t \in Thread : SleepsOK(t)

-----------------------------------------------------------------------------
(* The request queue.                                                      *)
LEMMA AppendFacts ==
  ASSUME NEW q \in Seq(Buf), NEW b \in Buf
  PROVE  /\ Append(q, b) \in Seq(Buf) /\ Append(q, b) # <<>>
         /\ Range(Append(q, b)) = Range(q) \cup {b}
         /\ Head(Append(q, b)) = IF q = <<>> THEN b ELSE Head(q)
<1>1. /\ Append(q, b) \in Seq(Buf) /\ Len(Append(q, b)) = Len(q) + 1 /\ Append(q, b) # <<>>
      /\ DOMAIN Append(q, b) = 1 .. Len(q) + 1 /\ DOMAIN q = 1 .. Len(q) /\ Len(q) \in Nat
  OBVIOUS
<1>2. \A i \in 1 .. Len(q) : Append(q, b)[i] = q[i]
  OBVIOUS
<1>3. Append(q, b)[Len(q) + 1] = b
  OBVIOUS
<1>4. Range(Append(q, b)) = Range(q) \cup {b}
  <2>1. ASSUME NEW x \in Range(Append(q, b)) PROVE x \in Range(q) \cup {b}
    BY <1>1, <1>2, <1>3, <2>1 DEF Range
  <2>2. ASSUME NEW x \in Range(q) PROVE x \in Range(Append(q, b))
    BY <1>1, <1>2, <2>2 DEF Range
  <2>3. b \in Range(Append(q, b))
    BY <1>1, <1>3 DEF Range
  <2> QED
    BY <2>1, <2>2, <2>3, Zenon
<1>5. Head(Append(q, b)) = IF q = <<>> THEN b ELSE Head(q)
  <2>1. CASE q = <<>>
    BY <2>1
  <2>2. CASE q # <<>>
    BY <1>1, <1>2, <2>2
  <2> QED
    BY <2>1, <2>2
<1> QED
  BY <1>1, <1>4, <1>5, Zenon

LEMMA TailFacts ==
  ASSUME NEW q \in Seq(Buf), q # <<>>
  PROVE  /\ Head(q) \in Range(q) /\ Head(q) \in Buf /\ Tail(q) \in Seq(Buf)
         /\ Range(q) = Range(Tail(q)) \cup {Head(q)}
         /\ Tail(q) # <<>> => Head(Tail(q)) \in Range(Tail(q))
<1>1. /\ Len(q) \in Nat \ {0} /\ DOMAIN q = 1 .. Len(q) /\ Head(q) = q[1] /\ q[1] \in Buf
      /\ Tail(q) \in Seq(Buf) /\ Len(Tail(q)) = Len(q) - 1 /\ DOMAIN Tail(q) = 1 .. Len(q) - 1
  OBVIOUS
<1>2. \A i \in 1 .. Len(q) - 1 : Tail(q)[i] = q[i + 1]
  OBVIOUS
<1>3. Head(q) \in Range(q)
  BY <1>1 DEF Range
<1>4. ASSUME NEW x \in Range(q), x # Head(q) PROVE x \in Range(Tail(q))
  <2>1. PICK i \in 1 .. Len(q) : x = q[i]
    BY <1>1, <1>4, Zenon DEF Range
  <2>2. i - 1 \in 1 .. Len(q) - 1 /\ Tail(q)[i - 1] = x
    BY <1>1, <1>2, <1>4, <2>1
  <2> QED
    BY <1>1, <2>2, Zenon DEF Range
<1>5. ASSUME NEW x \in Range(Tail(q)) PROVE x \in Range(q)
  <2>1. PICK i \in 1 .. Len(q) - 1 : x = Tail(q)[i]
    BY <1>1, <1>5, Zenon DEF Range
  <2>2. i + 1 \in 1 .. Len(q) /\ q[i + 1] = x
    BY <1>1, <1>2, <2>1
  <2> QED
    BY <1>1, <2>2, Zenon DEF Range
<1>6. Tail(q) # <<>> => Head(Tail(q)) \in Range(Tail(q))
  <2> SUFFICES ASSUME Tail(q) # <<>> PROVE Head(Tail(q)) \in Range(Tail(q))
    OBVIOUS
  <2>1. Head(Tail(q)) = Tail(q)[1] /\ 1 \in DOMAIN Tail(q)
    BY <1>1
  <2> QED
    BY <2>1, Zenon DEF Range
<1> QED
  BY <1>1, <1>3, <1>4, <1>5, <1>6, Zenon

(* The list: its last free entry is one of them.                           *)
LEMMA LastOf ==
  ASSUME NEW S, S \subseteq 1 .. NBUF, S # {}
  PROVE  \E i \in S : \A j \in S : j <= i
<1> DEFINE R == OpToRel(<, Nat)
           B == {n \in Nat : NBUF - n \in S}
<1>1. IsWellFoundedOn(R, Nat)
  BY NatLessThanWellFounded, Zenon
<1>2. \A x, y \in Nat : x < y => <<x, y>> \in R
  BY Zenon DEF OpToRel
<1>3. \A i \in S : NBUF - i \in B /\ NBUF - (NBUF - i) = i
  BY BufAssumption
<1>4. B # {} /\ B \subseteq Nat
  BY <1>3
<1> HIDE DEF R
<1>5. PICK n \in B : \A m \in B : ~(<<m, n>> \in R)
  <2> HIDE DEF B
  <2> QED
    BY <1>1, <1>4, WFMin, Zenon
<1>6. \A m \in B : ~(m < n)
  BY <1>2, <1>4, <1>5, Zenon
<1>7. n \in Nat /\ NBUF - n \in S
  BY <1>5, Zenon
<1>8. ASSUME NEW j \in S PROVE j <= NBUF - n
  <2>1. NBUF - j \in B /\ j \in Nat
    BY <1>3, <1>8
  <2>2. ~(NBUF - j < n)
    BY <1>6, <2>1
  <2> QED
    BY <1>7, <2>1, <2>2, BufAssumption
<1> QED
  BY <1>7, <1>8

(* bget recycles a buffer that is neither busy nor pinned.                 *)
LEMMA Recycles ==
  ASSUME Types, NEW t \in Thread, BgetRecycle(t)
  PROVE  \E b \in Buf \ (busy \cup dirty) :
           /\ At(t, "bget") /\ Cached(want[t]) = {}
           /\ blockno' = [blockno EXCEPT ![b] = want[t]]
           /\ busy' = busy \cup {b} /\ valid' = valid \ {b}
           /\ Goto(t, "fill") /\ held' = [held EXCEPT ![t] = b]
           /\ UNCHANGED <<data, dirty, mru, idequeue, device, want, asleep, panic>>
<1>1. PICK i : i = CHOOSE k \in Recyclable : \A j \in Recyclable : j <= k
  OBVIOUS
<1>2. i \in Recyclable
  <2>1. Recyclable \subseteq 1 .. NBUF /\ Recyclable # {}
    BY Zenon DEF BgetRecycle, Recyclable
  <2>2. \E k \in Recyclable : \A j \in Recyclable : j <= k
    BY <2>1, LastOf, Zenon
  <2> QED
    BY <1>1, <2>2, Zenon
<1>3. PICK b : b = mru[i]
  OBVIOUS
<1>4. b \in Buf \ (busy \cup dirty)
  BY <1>2, <1>3, Zenon DEF Recyclable, Types
<1> QED
  BY <1>1, <1>3, <1>4, Zenon DEF BgetRecycle

(* brelse keeps the list a list of buffers.                                *)
LEMMA TouchedType == ASSUME Types, NEW b \in Buf PROVE Touched(b) \in [1 .. NBUF -> Buf]
<1>1. ASSUME NEW i \in 1 .. NBUF, i # 1 PROVE i - 1 \in 1 .. NBUF
  BY <1>1, BufAssumption
<1>2. \A i \in 1 .. NBUF : mru[i] \in Buf /\ (i # 1 => mru[i - 1] \in Buf)
  BY <1>1, Zenon DEF Types
<1> QED
  BY <1>2, Zenon DEF Touched

(* What bread's and brelse's callers have in hand.                         *)
LEMMA InHand ==
  ASSUME Inv, NEW t \in Thread, pc[t] \in Holding
  PROVE  /\ held[t] \in busy /\ held[t] \in Buf /\ held[t] # NoBuf
         /\ blockno[held[t]] = want[t] /\ want[t] \in Block
         /\ \A u \in Thread : held[u] = held[t] => u = t
<1>1. held[t] \in busy /\ blockno[held[t]] = want[t] /\ pc[t] # "user"
  BY Zenon DEF Inv, Hand, Holding
<1>2. held[t] \in Buf
  BY <1>1, Zenon DEF Inv, Types
<1>3. held[t] # NoBuf
  BY <1>2, BufAssumption DEF Buf, NoBuf
<1> QED
  BY <1>1, <1>2, <1>3, Zenon DEF Inv, Hand

LEMMA NoBufFacts == NoBuf \notin Buf /\ \A b \in Buf : b # NoBuf
  BY BufAssumption DEF Buf, NoBuf

LEMMA NotHeld == ASSUME Inv, NEW b \in Buf, b \notin busy PROVE \A u \in Thread : held[u] # b
  BY NoBufFacts, Zenon DEF Inv, Hand

-----------------------------------------------------------------------------
(* A thread gets on with the buffer it has, and may pin it.                *)
LEMMA GoesOnInv ==
  ASSUME Inv, NEW t \in Thread, pc[t] \in Holding, asleep[t] = NoBuf,
         NEW l \in {"have", "changed"}, Goto(t, l),
         dirty' \in {dirty, dirty \cup {held[t]}},
         UNCHANGED <<blockno, busy, valid, mru, idequeue, device, want, held, asleep>>
  PROVE  Inv'
<1>1. /\ pc'[t] = l /\ \A u \in Thread \ {t} : pc'[u] = pc[u]
      /\ pc' \in [Thread -> Places] /\ l \in Holding /\ l # "user" /\ l # "io" /\ pc[t] # "user"
  BY Zenon DEF Goto, Inv, Types, Places, Holding
<1>2. held[t] \in Buf /\ \A u \in Thread : held[u] = held[t] => u = t
  BY InHand, Zenon
<1>3. Types'
  BY <1>1, <1>2, Zenon DEF Inv, Types, device
<1>4. Driver' /\ Distinct'
  BY Zenon DEF Inv, Driver, Distinct, device
<1>5. Hand'
  BY <1>1, Zenon DEF Inv, Hand
<1>6. ASSUME NEW u \in Thread PROVE SleepsOK(u)'
  <2>1. CASE u = t
    BY <1>1, <2>1, Zenon DEF SleepsOK
  <2>2. CASE u # t
    <3>1. held[u] # held[t] /\ SleepsOK(u) /\ pc'[u] = pc[u]
      BY <1>1, <1>2, <2>2, Zenon DEF Inv
    <3>2. held[u] \notin valid \ dirty' => held[u] \notin valid \ dirty
      BY <3>1, Zenon
    <3> QED
      BY <3>1, <3>2, Zenon DEF SleepsOK
  <2> QED
    BY <2>1, <2>2, Zenon
<1> QED
  BY <1>3, <1>4, <1>5, <1>6, Zenon DEF Inv

(* iderw: the buffer is queued and its thread sleeps.                      *)
LEMMA RequestInv ==
  ASSUME Inv, NEW t \in Thread, pc[t] \in Holding, asleep[t] = NoBuf,
         NEW isDirty, iderw(t, isDirty),
         dirty' \in {dirty, dirty \cup {held[t]}},
         UNCHANGED <<blockno, data, busy, valid, mru>>
  PROVE  Inv'
<1>1. /\ pc'[t] = "io" /\ \A u \in Thread \ {t} : pc'[u] = pc[u]
      /\ pc' \in [Thread -> Places] /\ "io" \in Holding /\ pc[t] # "user"
      /\ held' = held /\ want' = want /\ disk' = disk /\ irq' = irq
  BY Zenon DEF iderw, Goto, Inv, Types, Places, Holding
<1>2. held[t] \in Buf /\ \A u \in Thread : held[u] = held[t] => u = t
  BY InHand, Zenon
<1>3. /\ asleep'[t] = held[t] /\ \A u \in Thread \ {t} : asleep'[u] = asleep[u]
      /\ asleep' \in [Thread -> Buf \cup {NoBuf}]
  BY <1>2, Zenon DEF iderw, SleepOn, Inv, Types
<1>4. /\ idequeue' \in Seq(Buf) /\ idequeue' # <<>>
      /\ Range(idequeue') = Range(idequeue) \cup {held[t]}
  <2>1. PICK b \in Buf : b = held[t]
    BY <1>2, Zenon
  <2>2. idequeue' = Append(idequeue, b) /\ idequeue \in Seq(Buf)
    BY <2>1, Zenon DEF iderw, Inv, Types
  <2> QED
    BY <2>1, <2>2, AppendFacts, Zenon
<1>5. drive' # "idle"
  BY Zenon DEF iderw, idestart, Inv, Driver
<1>6. Types'
  BY <1>1, <1>2, <1>3, <1>4, Zenon DEF Inv, Types
<1>7. Driver' /\ Distinct'
  BY <1>4, <1>5, Zenon DEF Inv, Driver, Distinct
<1>8. Hand'
  BY <1>1, Zenon DEF Inv, Hand
<1>9. ASSUME NEW u \in Thread PROVE SleepsOK(u)'
  <2>1. CASE u = t
    BY <1>1, <1>3, <1>4, <2>1, Zenon DEF SleepsOK
  <2>2. CASE u # t
    <3>1. held[u] # held[t] /\ SleepsOK(u) /\ pc'[u] = pc[u] /\ asleep'[u] = asleep[u]
      BY <1>1, <1>2, <1>3, <2>2, Zenon DEF Inv
    <3>2. held[u] \notin valid \ dirty' => held[u] \notin valid \ dirty
      BY <3>1, Zenon
    <3> QED
      BY <1>1, <1>4, <3>1, <3>2, Zenon DEF SleepsOK
  <2> QED
    BY <2>1, <2>2, Zenon
<1> QED
  BY <1>6, <1>7, <1>8, <1>9, Zenon DEF Inv

(* bread begins.                                                           *)
LEMMA BreadInv == ASSUME Inv, NEW t \in Thread, NEW k \in Block, Bread(t, k) PROVE Inv'
<1>1. /\ pc'[t] = "bget" /\ \A u \in Thread \ {t} : pc'[u] = pc[u]
      /\ want'[t] = k /\ \A u \in Thread \ {t} : want'[u] = want[u]
      /\ pc' \in [Thread -> Places] /\ want' \in [Thread -> Block \cup {NoBlock}]
      /\ pc[t] = "user" /\ asleep[t] = NoBuf
      /\ "user" \notin Holding /\ "bget" \notin Holding
  BY Zenon DEF Bread, At, Goto, Inv, Types, Places, Holding
<1>2. UNCHANGED <<buf, mru, idequeue, device, held, asleep>>
  BY Zenon DEF Bread
<1>3. Types'
  BY <1>1, <1>2, Zenon DEF Inv, Types, buf, device
<1>4. Driver' /\ Distinct'
  BY <1>2, Zenon DEF Inv, Driver, Distinct, buf, device
<1>5. Hand'
  <2>1. \A u \in Thread : pc'[u] \in Holding => u # t /\ pc[u] \in Holding
    BY <1>1, Zenon
  <2>2. \A u \in Thread : pc'[u] \notin Holding => pc[u] \notin Holding
    BY <1>1, Zenon
  <2>3. \A u \in Thread : pc'[u] # "user" => want'[u] \in Block
    BY <1>1, Zenon DEF Inv, Hand
  <2>4. blockno' = blockno /\ busy' = busy /\ held' = held
    BY <1>2, Zenon DEF buf
  <2> QED
    BY <1>1, <2>1, <2>2, <2>3, <2>4, Zenon DEF Inv, Hand
<1>6. \A u \in Thread : SleepsOK(u)'
  BY <1>1, <1>2, Zenon DEF Inv, SleepsOK, buf
<1> QED
  BY <1>3, <1>4, <1>5, <1>6, Zenon DEF Inv

(* bget gives a free buffer to a thread.                                   *)
LEMMA TakesHand ==
  ASSUME Inv, NEW t \in Thread, pc[t] = "bget", NEW b \in Buf \ busy,
         Goto(t, "fill"), held' = [held EXCEPT ![t] = b], busy' = busy \cup {b}, want' = want,
         blockno'[b] = want[t], \A c \in Buf \ {b} : blockno'[c] = blockno[c]
  PROVE  Hand'
<1>1. /\ pc'[t] = "fill" /\ \A u \in Thread \ {t} : pc'[u] = pc[u]
      /\ held'[t] = b /\ \A u \in Thread \ {t} : held'[u] = held[u]
      /\ "bget" \notin Holding /\ "fill" \in Holding
  BY Zenon DEF Goto, Inv, Types, Holding
<1>2. \A u \in Thread : held[u] # b
  BY NotHeld, Zenon
<1>3. \A u \in Thread : pc'[u] # "user" => want'[u] \in Block
  BY <1>1, Zenon DEF Inv, Hand
<1>4. ASSUME NEW u \in Thread, pc'[u] \in Holding
      PROVE  held'[u] \in busy' /\ blockno'[held'[u]] = want'[u]
  <2>1. CASE u = t
    BY <1>1, <2>1
  <2>2. CASE u # t
    <3>1. held[u] \in busy /\ blockno[held[u]] = want[u] /\ held[u] \in Buf /\ held[u] # b
      BY <1>1, <1>4, <2>2 DEF Inv, Hand, Types
    <3> QED
      BY <1>1, <2>2, <3>1
  <2> QED
    BY <2>1, <2>2, Zenon
<1>5. \A u \in Thread : pc'[u] \notin Holding => held'[u] = NoBuf
  BY <1>1 DEF Inv, Hand
<1>6. ASSUME NEW u \in Thread, NEW v \in Thread, held'[u] = held'[v], held'[u] # NoBuf
      PROVE  u = v
  <2>1. CASE u = t
    BY <1>1, <1>2, <1>6, <2>1
  <2>2. CASE v = t
    BY <1>1, <1>2, <1>6, <2>2
  <2>3. CASE u # t /\ v # t
    BY <1>1, <1>6, <2>3 DEF Inv, Hand
  <2> QED
    BY <2>1, <2>2, <2>3, Zenon
<1>7. ASSUME NEW c \in busy' PROVE \E u \in Thread : held'[u] = c
  <2>1. CASE c = b
    BY <1>1, <2>1, Zenon
  <2>2. CASE c # b
    <3>1. PICK u \in Thread : held[u] = c /\ c # NoBuf
      BY <1>7, <2>2, NoBufFacts, Zenon DEF Inv, Hand, Types
    <3>2. u # t
      BY <1>1, <3>1 DEF Inv, Hand
    <3> QED
      BY <1>1, <3>1, <3>2, Zenon
  <2> QED
    BY <2>1, <2>2, Zenon
<1> QED
  BY <1>3, <1>4, <1>5, <1>6, <1>7, Zenon DEF Hand

(* bget finds the block's buffer free, ...                                 *)
LEMMA HitInv == ASSUME Inv, NEW t \in Thread, NEW b \in Buf, BgetHit(t, b) PROVE Inv'
<1>1. /\ pc'[t] = "fill" /\ \A u \in Thread \ {t} : pc'[u] = pc[u]
      /\ held'[t] = b /\ \A u \in Thread \ {t} : held'[u] = held[u]
      /\ pc' \in [Thread -> Places] /\ held' \in [Thread -> Buf \cup {NoBuf}]
      /\ pc[t] = "bget" /\ asleep[t] = NoBuf
      /\ b \notin busy /\ busy' = busy \cup {b} /\ blockno[b] = want[t]
  BY Zenon DEF BgetHit, At, Goto, Cached, Inv, Types, Places, Holding
<1>2. UNCHANGED <<blockno, data, valid, dirty, mru, idequeue, device, want, asleep>>
  BY Zenon DEF BgetHit
<1>3. Types'
  BY <1>1, <1>2, Zenon DEF Inv, Types, device
<1>4. Driver' /\ Distinct'
  BY <1>2, Zenon DEF Inv, Driver, Distinct, device
<1>5. Hand'
  BY <1>1, <1>2, TakesHand, Zenon DEF BgetHit
<1>6. \A u \in Thread : SleepsOK(u)'
  BY <1>1, <1>2, Zenon DEF Inv, SleepsOK
<1> QED
  BY <1>3, <1>4, <1>5, <1>6, Zenon DEF Inv

(* ... or busy, ...                                                        *)
LEMMA BgetSleepInv == ASSUME Inv, NEW t \in Thread, NEW b \in Buf, BgetSleep(t, b) PROVE Inv'
<1>1. /\ pc[t] = "bget" /\ b \in busy
      /\ asleep'[t] = b /\ \A u \in Thread \ {t} : asleep'[u] = asleep[u]
      /\ asleep' \in [Thread -> Buf \cup {NoBuf}]
  BY Zenon DEF BgetSleep, At, SleepOn, Inv, Types
<1>2. UNCHANGED <<buf, mru, idequeue, device, pc, want, held>>
  BY Zenon DEF BgetSleep
<1>3. Types'
  BY <1>1, <1>2, Zenon DEF Inv, Types, buf, device
<1>4. Driver' /\ Distinct' /\ Hand'
  BY <1>2, Zenon DEF Inv, Driver, Distinct, Hand, buf, device
<1>5. \A u \in Thread : SleepsOK(u)'
  BY <1>1, <1>2, Zenon DEF Inv, SleepsOK, buf
<1> QED
  BY <1>3, <1>4, <1>5, Zenon DEF Inv

(* ... or has to recycle one.                                              *)
LEMMA RecycleInv == ASSUME Inv, NEW t \in Thread, BgetRecycle(t) PROVE Inv'
<1>1. PICK b \in Buf \ (busy \cup dirty) :
        /\ At(t, "bget") /\ Cached(want[t]) = {}
        /\ blockno' = [blockno EXCEPT ![b] = want[t]]
        /\ busy' = busy \cup {b} /\ valid' = valid \ {b}
        /\ Goto(t, "fill") /\ held' = [held EXCEPT ![t] = b]
        /\ UNCHANGED <<data, dirty, mru, idequeue, device, want, asleep, panic>>
  BY Recycles, Zenon DEF Inv
<1>2. /\ pc'[t] = "fill" /\ \A u \in Thread \ {t} : pc'[u] = pc[u]
      /\ held'[t] = b /\ \A u \in Thread \ {t} : held'[u] = held[u]
      /\ pc' \in [Thread -> Places] /\ held' \in [Thread -> Buf \cup {NoBuf}]
      /\ pc[t] = "bget" /\ asleep[t] = NoBuf
  BY <1>1, Zenon DEF At, Goto, Inv, Types, Places, Holding
<1>3. want[t] \in Block
  BY <1>2, Zenon DEF Inv, Hand
<1>4. /\ blockno'[b] = want[t] /\ \A c \in Buf \ {b} : blockno'[c] = blockno[c]
      /\ blockno' \in [Buf -> Block \cup {NoBlock}] /\ \A c \in Buf : blockno[c] # want[t]
  BY <1>1, <1>3, Zenon DEF Cached, Inv, Types
<1>5. Types'
  BY <1>1, <1>2, <1>4, Zenon DEF Inv, Types, device
<1>6. Driver'
  BY <1>1, Zenon DEF Inv, Driver, device
<1>7. Distinct'
  BY <1>4, Zenon DEF Inv, Distinct
<1>8. Hand'
  BY <1>1, <1>2, <1>4, TakesHand, Zenon
<1>9. ASSUME NEW u \in Thread PROVE SleepsOK(u)'
  <2>1. CASE u = t
    BY <1>1, <1>2, <2>1, Zenon DEF SleepsOK
  <2>2. CASE u # t
    <3>1. SleepsOK(u) /\ pc'[u] = pc[u] /\ held'[u] = held[u] /\ asleep'[u] = asleep[u]
      BY <1>1, <1>2, <2>2, Zenon DEF Inv
    <3>2. pc[u] = "io" => held[u] # b
      BY <1>1, InHand, Zenon DEF Holding
    <3> QED
      BY <1>1, <3>1, <3>2 DEF SleepsOK
  <2> QED
    BY <2>1, <2>2, Zenon
<1> QED
  BY <1>5, <1>6, <1>7, <1>8, <1>9, Zenon DEF Inv

(* iderw finds its request done, or sleeps again.                          *)
LEMMA IoAgainInv == ASSUME Inv, NEW t \in Thread, IoAgain(t) PROVE Inv'
<1>1. pc[t] = "io" /\ pc[t] \in Holding /\ asleep[t] = NoBuf
  BY Zenon DEF IoAgain, At, Holding
<1>2. UNCHANGED <<buf, mru, idequeue, device, want, held>>
  BY Zenon DEF IoAgain
<1>3. CASE held[t] \in valid \ dirty
  <2>1. Goto(t, "have") /\ UNCHANGED asleep
    BY <1>3, Zenon DEF IoAgain
  <2>2. dirty' = dirty /\ blockno' = blockno /\ busy' = busy /\ valid' = valid
    BY <1>2, Zenon DEF Inv, Types, buf
  <2> QED
    BY <1>1, <1>2, <2>1, <2>2, GoesOnInv, Zenon
<1>4. CASE held[t] \notin valid \ dirty
  <2>1. held[t] \in Buf
    BY <1>1, InHand, Zenon
  <2>2. /\ asleep'[t] = held[t] /\ \A u \in Thread \ {t} : asleep'[u] = asleep[u]
        /\ asleep' \in [Thread -> Buf \cup {NoBuf}] /\ pc' = pc
    BY <1>4, <2>1, Zenon DEF IoAgain, SleepOn, Inv, Types
  <2>3. Types'
    BY <1>2, <2>2, Zenon DEF Inv, Types, buf, device
  <2>4. Driver' /\ Distinct' /\ Hand'
    BY <1>2, <2>2, Zenon DEF Inv, Driver, Distinct, Hand, buf, device
  <2>5. \A u \in Thread : SleepsOK(u)'
    BY <1>1, <1>2, <1>4, <2>2, Zenon DEF Inv, SleepsOK, buf
  <2> QED
    BY <2>3, <2>4, <2>5, Zenon DEF Inv
<1> QED
  BY <1>3, <1>4, Zenon

(* brelse: whoever waits for the buffer is woken.                          *)
LEMMA BrelseInv == ASSUME Inv, NEW t \in Thread, brelse(t) PROVE Inv'
<1>1. pc[t] = "have" /\ pc[t] \in Holding /\ asleep[t] = NoBuf /\ "user" \notin Holding
  BY Zenon DEF brelse, At, Holding
<1>2. PICK b \in Buf :
        /\ b = held[t] /\ b \in busy /\ b # NoBuf
        /\ \A u \in Thread : held[u] = b => u = t
  BY <1>1, InHand, Zenon
<1>3. /\ mru' = Touched(b) /\ busy' = busy \ {b}
      /\ pc'[t] = "user" /\ \A u \in Thread \ {t} : pc'[u] = pc[u]
      /\ want'[t] = NoBlock /\ \A u \in Thread \ {t} : want'[u] = want[u]
      /\ held'[t] = NoBuf /\ \A u \in Thread \ {t} : held'[u] = held[u]
      /\ \A u \in Thread : asleep'[u] = IF asleep[u] = b THEN NoBuf ELSE asleep[u]
      /\ pc' \in [Thread -> Places] /\ held' \in [Thread -> Buf \cup {NoBuf}]
      /\ want' \in [Thread -> Block \cup {NoBlock}]
  BY <1>2, Zenon DEF brelse, Goto, Wakeup, Inv, Types, Places
<1>4. asleep' \in [Thread -> Buf \cup {NoBuf}]
  BY <1>2, Zenon DEF brelse, Wakeup, Inv, Types
<1>5. UNCHANGED <<blockno, data, valid, dirty, idequeue, device>>
  BY Zenon DEF brelse
<1>6. Types'
  BY <1>3, <1>4, <1>5, TouchedType, Zenon DEF Inv, Types, device
<1>7. Driver' /\ Distinct'
  BY <1>5, Zenon DEF Inv, Driver, Distinct, device
<1>8. Hand'
  <2>1. \A u \in Thread : pc'[u] # "user" => want'[u] \in Block
    BY <1>3, Zenon DEF Inv, Hand
  <2>2. ASSUME NEW u \in Thread, pc'[u] \in Holding
        PROVE  held'[u] \in busy' /\ blockno'[held'[u]] = want'[u]
    <3>1. u # t
      BY <1>1, <1>3, <2>2, Zenon
    <3>2. held[u] \in busy /\ blockno[held[u]] = want[u] /\ held[u] # b
      BY <1>2, <1>3, <2>2, <3>1, Zenon DEF Inv, Hand
    <3> QED
      BY <1>3, <1>5, <3>1, <3>2, Zenon
  <2>3. \A u \in Thread : pc'[u] \notin Holding => held'[u] = NoBuf
    BY <1>3, Zenon DEF Inv, Hand
  <2>4. \A u, v \in Thread : held'[u] = held'[v] /\ held'[u] # NoBuf => u = v
    BY <1>3 DEF Inv, Hand
  <2>5. \A c \in busy' : \E u \in Thread : held'[u] = c
    BY <1>2, <1>3 DEF Inv, Hand
  <2> QED
    BY <2>1, <2>2, <2>3, <2>4, <2>5, Zenon DEF Hand
<1>9. ASSUME NEW u \in Thread PROVE SleepsOK(u)'
  <2>1. CASE u = t
    BY <1>1, <1>2, <1>3, <2>1, Zenon DEF SleepsOK
  <2>2. CASE u # t
    BY <1>2, <1>3, <1>5, <2>2, Zenon DEF Inv, SleepsOK
  <2> QED
    BY <2>1, <2>2, Zenon
<1> QED
  BY <1>6, <1>7, <1>8, <1>9, Zenon DEF Inv

(* The drive finishes, and ideintr wakes the buffer's thread.              *)
LEMMA DiskDoneInv == ASSUME Inv, DiskDone PROVE Inv'
<1>1. UNCHANGED <<buf, mru, idequeue, drive, thread>> /\ drive # "idle"
  BY Zenon DEF DiskDone
<1>2. Types'
  BY <1>1, Zenon DEF Inv, Types, buf, thread
<1>3. Driver' /\ Distinct' /\ Hand'
  BY <1>1, Zenon DEF Inv, Driver, Distinct, Hand, buf, thread
<1>4. \A u \in Thread : SleepsOK(u)'
  BY <1>1, Zenon DEF Inv, SleepsOK, buf, thread
<1> QED
  BY <1>2, <1>3, <1>4, Zenon DEF Inv

(* What ideintr does to the queue.                                         *)
LEMMA IntrFacts ==
  ASSUME Inv, NEW ok \in BOOLEAN, ideintr(ok)
  PROVE  \E b \in Buf, rest \in Seq(Buf) :
           /\ b = Head(idequeue) /\ rest = Tail(idequeue) /\ idequeue' = rest /\ idequeue # <<>>
           /\ Range(idequeue) = Range(rest) \cup {b}
           /\ data' = IF b \notin dirty /\ ok THEN [data EXCEPT ![b] = disk[blockno[b]]] ELSE data
           /\ valid' = valid \cup {b} /\ dirty' = dirty \ {b}
           /\ \A u \in Thread : asleep'[u] = IF asleep[u] = b THEN NoBuf ELSE asleep[u]
           /\ asleep' \in [Thread -> Buf \cup {NoBuf}]
           /\ irq /\ irq' = FALSE /\ (rest = <<>> <=> drive' = "idle")
           /\ UNCHANGED <<blockno, busy, mru, disk, pc, want, held>>
<1>1. irq /\ irq' = FALSE
  BY Zenon DEF ideintr
<1>2. idequeue # <<>> /\ idequeue \in Seq(Buf)
  BY <1>1, Zenon DEF Inv, Driver, Types
<1>3. PICK b \in Buf : b = Head(idequeue)
  BY <1>2, TailFacts, Zenon
<1>4. PICK rest \in Seq(Buf) : rest = Tail(idequeue)
  BY <1>2, TailFacts, Zenon
<1>5. Range(idequeue) = Range(rest) \cup {b}
  BY <1>2, <1>3, <1>4, TailFacts, Zenon
<1>6. /\ idequeue' = rest
      /\ data' = IF b \notin dirty /\ ok THEN [data EXCEPT ![b] = disk[blockno[b]]] ELSE data
      /\ valid' = valid \cup {b} /\ dirty' = dirty \ {b} /\ Wakeup(b)
      /\ UNCHANGED <<blockno, busy, mru, disk, pc, want, held>>
  BY <1>3, <1>4, Zenon DEF ideintr
<1>7. rest = <<>> <=> drive' = "idle"
  BY <1>4, Zenon DEF ideintr, idestart
<1>8. /\ \A u \in Thread : asleep'[u] = IF asleep[u] = b THEN NoBuf ELSE asleep[u]
      /\ asleep' \in [Thread -> Buf \cup {NoBuf}]
  BY <1>6, Zenon DEF Wakeup, Inv, Types
<1> QED
  BY <1>1, <1>2, <1>3, <1>4, <1>5, <1>6, <1>7, <1>8, Zenon

LEMMA IntrInv == ASSUME Inv, NEW ok \in BOOLEAN, ideintr(ok) PROVE Inv'
<1>1. PICK b \in Buf, rest \in Seq(Buf) :
           /\ b = Head(idequeue) /\ rest = Tail(idequeue) /\ idequeue' = rest /\ idequeue # <<>>
           /\ Range(idequeue) = Range(rest) \cup {b}
           /\ data' = IF b \notin dirty /\ ok THEN [data EXCEPT ![b] = disk[blockno[b]]] ELSE data
           /\ valid' = valid \cup {b} /\ dirty' = dirty \ {b}
           /\ \A u \in Thread : asleep'[u] = IF asleep[u] = b THEN NoBuf ELSE asleep[u]
           /\ asleep' \in [Thread -> Buf \cup {NoBuf}]
           /\ irq /\ irq' = FALSE /\ (rest = <<>> <=> drive' = "idle")
           /\ UNCHANGED <<blockno, busy, mru, disk, pc, want, held>>
  BY IntrFacts, Zenon
<1>2. Driver' /\ Distinct' /\ Hand'
  BY <1>1, Zenon DEF Inv, Driver, Distinct, Hand
<1>3. \A u \in Thread : SleepsOK(u)'
  BY <1>1, NoBufFacts, Zenon DEF Inv, SleepsOK
<1>4. Types'
  BY <1>1, Zenon DEF Inv, Types
<1> QED
  BY <1>2, <1>3, <1>4, Zenon DEF Inv

LEMMA InvInit == Init => Inv
<1> SUFFICES ASSUME Init PROVE Inv
  OBVIOUS
<1>1. mru \in [1 .. NBUF -> Buf]
  <2>1. \A i \in 1 .. NBUF : NBUF + 1 - i \in Buf
    BY BufAssumption DEF Buf
  <2> QED
    BY <2>1, Zenon DEF Init
<1>2. Types
  <2>1. idequeue \in Seq(Buf)
    BY DEF Init
  <2> QED
    BY <1>1, <2>1, Zenon DEF Init, Types, Places
<1>3. Driver /\ Distinct
  BY Zenon DEF Init, Driver, Distinct
<1>4. Hand
  BY Zenon DEF Init, Hand, Holding
<1>5. \A t \in Thread : SleepsOK(t)
  BY Zenon DEF Init, SleepsOK
<1> QED
  BY <1>2, <1>3, <1>4, <1>5, Zenon DEF Inv

LEMMA InvStep == Inv /\ [Next]_vars => Inv'
<1> SUFFICES ASSUME Inv, [Next]_vars PROVE Inv'
  OBVIOUS
<1>1. CASE UNCHANGED <<buf, mru, idequeue, device, thread>>
  <2>1. Types' /\ Driver'
    BY <1>1, Zenon DEF Inv, Types, Driver, buf, device, thread
  <2>2. Distinct' /\ Hand'
    BY <1>1, Zenon DEF Inv, Distinct, Hand, buf, thread
  <2>3. \A t \in Thread : SleepsOK(t)'
    BY <1>1, Zenon DEF Inv, SleepsOK, buf, thread
  <2> QED
    BY <2>1, <2>2, <2>3, Zenon DEF Inv
<1>2. ASSUME NEW t \in Thread, Kernel(t) PROVE Inv'
  <2>1. ASSUME FillValid(t) PROVE Inv'
    BY <2>1, GoesOnInv, Zenon DEF FillValid, At, Holding, buf
  <2>2. ASSUME FillRead(t) PROVE Inv'
    BY <2>2, RequestInv, Zenon DEF FillRead, At, Holding, buf
  <2>3. ASSUME BgetPanic(t) PROVE Inv'
    BY <1>1, <2>3, Zenon DEF BgetPanic
  <2> QED
    BY <1>2, <2>1, <2>2, <2>3, HitInv, BgetSleepInv, RecycleInv, IoAgainInv, Zenon DEF Kernel
<1>3. ASSUME NEW t \in Thread, log_write(t) PROVE Inv'
  BY <1>3, GoesOnInv, Zenon DEF log_write, At, Holding
<1>4. ASSUME NEW t \in Thread, bwrite(t) PROVE Inv'
  BY <1>4, RequestInv, Zenon DEF bwrite, At, Holding
<1>5. ASSUME NEW t \in Thread, NEW v \in Val, Change(t, v) PROVE Inv'
  BY <1>5, GoesOnInv, Zenon DEF Change, At, Holding
<1> QED
  BY <1>1, <1>2, <1>3, <1>4, <1>5, BreadInv, BrelseInv, DiskDoneInv, IntrInv, Zenon DEF Next, vars

LEMMA Invariance == Spec => []Inv
  BY InvInit, InvStep, PTL DEF Spec

-----------------------------------------------------------------------------
(* A block has at most one buffer and a busy buffer one user, whatever the *)
(* threads, and nobody sleeps on a buffer that is free or a request that   *)
(* is done (bio.c, ide.c), even if the disk fails.                         *)
THEOREM BufCacheOneBuffer == Spec => []OneBufferNoSleeper
<1>1. ASSUME Inv PROVE OneBufferNoSleeper
  <2>1. ASSUME NEW k \in Block PROVE Cardinality(Cached(k)) <= 1
    <3>1. CASE Cached(k) = {}
      BY <3>1, FS_EmptySet
    <3>2. CASE Cached(k) # {}
      <4>1. PICK b : b \in Cached(k)
        BY <3>2, Zenon
      <4>2. Cached(k) = {b}
        BY <1>1, <4>1, BufAssumption, Zenon DEF Cached, Inv, Distinct
      <4>3. Cardinality({b}) = 1
        BY FS_Singleton, Zenon
      <4> QED
        BY <4>2, <4>3
    <3> QED
      BY <3>1, <3>2, Zenon
  <2>2. ASSUME NEW b \in busy PROVE Cardinality({t \in Thread : held[t] = b}) = 1
    <3>1. PICK t \in Thread : held[t] = b /\ b # NoBuf
      BY <1>1, <2>2, NoBufFacts, Zenon DEF Inv, Hand, Types
    <3>2. {u \in Thread : held[u] = b} = {t}
      BY <1>1, <3>1, Zenon DEF Inv, Hand
    <3> QED
      BY <3>2, FS_Singleton, Zenon
  <2>3. ASSUME NEW t \in Thread
        PROVE  pc[t] \in Holding <=> held[t] \in busy /\ blockno[held[t]] = want[t]
    BY <1>1, NoBufFacts, Zenon DEF Inv, Hand, Types
  <2>4. NoLostWakeup
    BY <1>1, Zenon DEF NoLostWakeup, Inv, SleepsOK
  <2> QED
    BY <2>1, <2>2, <2>3, <2>4, Zenon DEF OneBufferNoSleeper, OneBuffer
<1> QED
  BY <1>1, Invariance, PTL

-----------------------------------------------------------------------------
(* What a disk without errors adds.  Only a buffer with data is pinned or  *)
(* in use (Flags); a request is queued once, by a thread that stays in     *)
(* iderw until it is done, and the drive does what the first one is for    *)
(* (Requests); a buffer with data that is neither pinned nor being changed *)
(* is a copy of its block (Clean).                                         *)
Flags ==
  /\ data \in [Buf -> Val] /\ disk \in [Block -> Val]
  /\ dirty \subseteq valid /\ \A b \in valid : blockno[b] \in Block
  /\ \A t \in Thread : pc[t] \in {"have", "changed"} => held[t] \in valid
Pending(t, b) == pc[t] = "io" /\ held[t] = b
Once(q) == \A i, j \in DOMAIN q : q[i] = q[j] => i = j
Requests ==
  /\ \A b \in Range(idequeue) : b \notin valid \ dirty /\ \E t \in Thread : Pending(t, b)
  /\ Once(idequeue)
  /\ drive # "idle" => (drive = "write" <=> Head(idequeue) \in dirty)
  /\ irq /\ drive = "write" => disk[blockno[Head(idequeue)]] = data[Head(idequeue)]
Changing(b) == \E t \in Thread : pc[t] = "changed" /\ held[t] = b
Clean == \A b \in valid \ dirty : Changing(b) \/ data[b] = disk[blockno[b]]
DInv == Flags /\ Requests /\ Clean

LEMMA AppendOnce ==
  ASSUME NEW q \in Seq(Buf), NEW b \in Buf, b \notin Range(q), Once(q)
  PROVE  Once(Append(q, b))
<1>1. /\ DOMAIN Append(q, b) = 1 .. Len(q) + 1 /\ DOMAIN q = 1 .. Len(q) /\ Len(q) \in Nat
      /\ Append(q, b)[Len(q) + 1] = b
  OBVIOUS
<1>2. \A i \in 1 .. Len(q) : Append(q, b)[i] = q[i] /\ q[i] # b
  BY <1>1 DEF Range
<1> QED
  BY <1>1, <1>2 DEF Once

LEMMA TailOnce ==
  ASSUME NEW q \in Seq(Buf), q # <<>>, Once(q)
  PROVE  Once(Tail(q)) /\ Head(q) \notin Range(Tail(q))
<1>1. /\ Len(q) \in Nat \ {0} /\ DOMAIN q = 1 .. Len(q) /\ Head(q) = q[1]
      /\ DOMAIN Tail(q) = 1 .. Len(q) - 1
  OBVIOUS
<1>2. \A i \in 1 .. Len(q) - 1 : Tail(q)[i] = q[i + 1] /\ i + 1 \in 1 .. Len(q) /\ i + 1 # 1
  OBVIOUS
<1>3. Once(Tail(q))
  BY <1>1, <1>2 DEF Once
<1>4. \A i \in 1 .. Len(q) - 1 : Tail(q)[i] # q[1]
  BY <1>1, <1>2 DEF Once
<1> QED
  BY <1>1, <1>3, <1>4, Zenon DEF Range

(* The first request, while the drive works.                               *)
LEMMA FirstRequest ==
  ASSUME Inv, DInv, drive # "idle"
  PROVE  \E b \in Buf : /\ b = Head(idequeue) /\ b \in Range(idequeue) /\ b \notin valid \ dirty
                        /\ blockno[b] \in Block /\ b \in busy
<1>1. idequeue # <<>> /\ idequeue \in Seq(Buf)
  BY Zenon DEF Inv, Driver, Types
<1>2. PICK b \in Buf : b = Head(idequeue) /\ b \in Range(idequeue)
  BY <1>1, TailFacts, Zenon
<1>3. PICK t \in Thread : Pending(t, b)
  BY <1>2, Zenon DEF DInv, Requests
<1>4. blockno[b] \in Block /\ b \in busy
  BY <1>3, InHand, Zenon DEF Pending, Holding
<1> QED
  BY <1>2, <1>4, Zenon DEF DInv, Requests

(* Steps that leave buffers and disk alone.                                *)
LEMMA SoftData ==
  ASSUME Inv, DInv, UNCHANGED <<blockno, data, valid, dirty, idequeue, device>>,
         \A t \in Thread : pc'[t] \in {"have", "changed"} => held'[t] \in valid,
         \A t \in Thread : pc[t] = "io" /\ held[t] \notin valid \ dirty
                          => pc'[t] = "io" /\ held'[t] = held[t],
         \A t \in Thread : pc[t] = "changed" => pc'[t] = "changed" /\ held'[t] = held[t]
  PROVE  DInv'
<1>1. Flags'
  BY Zenon DEF DInv, Flags, device
<1>2. ASSUME NEW b \in Range(idequeue)
      PROVE  b \notin valid \ dirty /\ \E t \in Thread : Pending(t, b)'
  BY <1>2, Zenon DEF DInv, Requests, Pending
<1>3. Requests'
  BY <1>2, Zenon DEF DInv, Requests, device
<1>4. ASSUME NEW b, Changing(b) PROVE Changing(b)'
  BY <1>4, Zenon DEF Changing
<1>5. Clean'
  BY <1>4, Zenon DEF DInv, Clean, device
<1> QED
  BY <1>1, <1>3, <1>5, Zenon DEF DInv

LEMMA QuietData ==
  ASSUME Inv, DInv, NEW t \in Thread,
         \/ (\E k \in Block : Bread(t, k)) \/ (\E b \in Buf : BgetHit(t, b) \/ BgetSleep(t, b))
         \/ BgetPanic(t) \/ FillValid(t) \/ IoAgain(t) \/ brelse(t)
  PROVE  DInv'
<1>1. UNCHANGED <<blockno, data, valid, dirty, idequeue, device>>
  BY Zenon DEF Bread, BgetHit, BgetSleep, BgetPanic, FillValid, IoAgain, brelse, buf
<1>2. /\ \A u \in Thread \ {t} : pc'[u] = pc[u] /\ held'[u] = held[u]
      /\ pc[t] # "changed" /\ (pc[t] = "io" => IoAgain(t))
  BY Zenon DEF Bread, BgetHit, BgetSleep, BgetPanic, FillValid, IoAgain, brelse, At, Goto,
      thread, Inv, Types
<1>3. IoAgain(t) => /\ held' = held
                    /\ pc'[t] = IF held[t] \in valid \ dirty THEN "have" ELSE pc[t]
  BY Zenon DEF IoAgain, Goto, Inv, Types
<1>4. pc'[t] \in {"have", "changed"} => held'[t] \in valid
  <2>1. CASE IoAgain(t)
    BY <1>2, <1>3, <2>1, Zenon DEF IoAgain, At
  <2>2. CASE FillValid(t)
    BY <2>2, Zenon DEF FillValid
  <2>3. CASE BgetPanic(t) \/ \E b \in Buf : BgetSleep(t, b)
    BY <2>3, Zenon DEF BgetPanic, BgetSleep, At, thread
  <2>4. CASE (\E k \in Block : Bread(t, k)) \/ (\E b \in Buf : BgetHit(t, b)) \/ brelse(t)
    BY <2>4, Zenon DEF Bread, BgetHit, brelse, Goto, Inv, Types
  <2> QED
    BY <2>1, <2>2, <2>3, <2>4, Zenon
<1>5. \A u \in Thread : pc'[u] \in {"have", "changed"} => held'[u] \in valid
  BY <1>2, <1>4, Zenon DEF DInv, Flags
<1> QED
  BY <1>1, <1>2, <1>3, <1>5, SoftData

(* The holder changes its buffer, ...                                      *)
LEMMA ChangeData ==
  ASSUME Inv, DInv, NEW t \in Thread, NEW v \in Val, Change(t, v)
  PROVE  DInv'
<1>1. pc[t] = "have" /\ pc[t] \in Holding
  BY Zenon DEF Change, At, Holding
<1>2. PICK b \in Buf : b = held[t] /\ b \in valid /\ \A u \in Thread : held[u] = b => u = t
  BY <1>1, InHand, Zenon DEF DInv, Flags
<1>3. /\ data'[b] = v /\ \A c \in Buf \ {b} : data'[c] = data[c]
      /\ data' \in [Buf -> Val]
      /\ pc'[t] = "changed" /\ \A u \in Thread \ {t} : pc'[u] = pc[u]
  BY <1>2, Zenon DEF Change, Goto, DInv, Flags, Inv, Types
<1>4. UNCHANGED <<blockno, valid, dirty, idequeue, device, held>>
  BY Zenon DEF Change
<1>5. Flags'
  BY <1>2, <1>3, <1>4, Zenon DEF DInv, Flags, device
<1>6. b \notin Range(idequeue)
  BY <1>1, <1>2, Zenon DEF DInv, Requests, Pending
<1>7. Requests'
  <2>1. ASSUME NEW c \in Range(idequeue) PROVE \E u \in Thread : Pending(u, c)'
    <3>1. PICK u \in Thread : Pending(u, c)
      BY <2>1, Zenon DEF DInv, Requests
    <3>2. u # t
      BY <1>1, <3>1, Zenon DEF Pending
    <3> QED
      BY <1>3, <1>4, <3>1, <3>2, Zenon DEF Pending
  <2>2. ASSUME drive # "idle" PROVE data'[Head(idequeue)] = data[Head(idequeue)]
    <3>1. PICK c \in Buf : c = Head(idequeue) /\ c \in Range(idequeue)
      BY <2>2, FirstRequest, Zenon
    <3> QED
      BY <1>3, <1>6, <3>1, Zenon
  <2> QED
    BY <1>4, <2>1, <2>2, Zenon DEF DInv, Requests, device, Inv, Driver
<1>8. Clean'
  <2>1. Changing(b)'
    BY <1>2, <1>3, <1>4, Zenon DEF Changing
  <2>2. ASSUME NEW c \in Buf, c # b, Changing(c) PROVE Changing(c)'
    BY <1>1, <1>3, <1>4, <2>2, Zenon DEF Changing
  <2>3. ASSUME NEW c \in valid \ dirty PROVE Changing(c)' \/ data'[c] = disk[blockno[c]]
    BY <1>3, <2>1, <2>2, <2>3, Zenon DEF DInv, Clean, Inv, Types
  <2> QED
    BY <1>4, <2>3, Zenon DEF Clean, device
<1> QED
  BY <1>5, <1>7, <1>8, Zenon DEF DInv

(* ... and pins it, ...                                                    *)
LEMMA LogWriteData ==
  ASSUME Inv, DInv, NEW t \in Thread, log_write(t)
  PROVE  DInv'
<1>1. pc[t] = "changed" /\ pc[t] \in Holding
  BY Zenon DEF log_write, At, Holding
<1>2. PICK b \in Buf : b = held[t] /\ b \in valid /\ \A u \in Thread : held[u] = b => u = t
  BY <1>1, InHand, Zenon DEF DInv, Flags
<1>3. /\ dirty' = dirty \cup {b}
      /\ pc'[t] = "have" /\ \A u \in Thread \ {t} : pc'[u] = pc[u]
  BY <1>2, Zenon DEF log_write, Goto, Inv, Types
<1>4. UNCHANGED <<blockno, data, valid, idequeue, device, held>>
  BY Zenon DEF log_write
<1>5. Flags'
  BY <1>2, <1>3, <1>4, Zenon DEF DInv, Flags, device
<1>6. b \notin Range(idequeue)
  BY <1>1, <1>2, Zenon DEF DInv, Requests, Pending
<1>7. Requests'
  <2>1. ASSUME NEW c \in Range(idequeue)
        PROVE  c \notin valid \ dirty' /\ \E u \in Thread : Pending(u, c)'
    BY <1>1, <1>3, <1>4, <2>1, Zenon DEF DInv, Requests, Pending
  <2>2. ASSUME drive # "idle" PROVE Head(idequeue) \in dirty' <=> Head(idequeue) \in dirty
    <3>1. PICK c \in Buf : c = Head(idequeue) /\ c \in Range(idequeue)
      BY <2>2, FirstRequest, Zenon
    <3> QED
      BY <1>3, <1>6, <3>1, Zenon
  <2> QED
    BY <1>4, <2>1, <2>2, Zenon DEF DInv, Requests, device
<1>8. Clean'
  <2>1. ASSUME NEW c \in Buf, c # b, Changing(c) PROVE Changing(c)'
    BY <1>2, <1>3, <1>4, <2>1, Zenon DEF Changing
  <2>2. ASSUME NEW c \in valid \ dirty' PROVE Changing(c)' \/ data[c] = disk[blockno[c]]
    BY <1>3, <2>1, <2>2, Zenon DEF DInv, Clean, Inv, Types
  <2> QED
    BY <1>4, <2>2, Zenon DEF Clean, device
<1> QED
  BY <1>5, <1>7, <1>8, Zenon DEF DInv

(* ... or asks the drive to read or to write it.                           *)
LEMMA RequestData ==
  ASSUME Inv, DInv, NEW t \in Thread, NEW isDirty \in BOOLEAN, iderw(t, isDirty),
         pc[t] \in Holding \ {"io"}, dirty' \in {dirty, dirty \cup {held[t]}},
         isDirty <=> held[t] \in dirty', held[t] \notin valid \ dirty', dirty' \subseteq valid,
         UNCHANGED <<blockno, data, busy, valid>>
  PROVE  DInv'
<1>1. PICK b \in Buf : b = held[t] /\ \A u \in Thread : held[u] = b => u = t
  BY InHand, Zenon
<1>2. /\ dirty' \in {dirty, dirty \cup {b}} /\ (isDirty <=> b \in dirty') /\ b \notin valid \ dirty'
      /\ pc'[t] = "io" /\ \A u \in Thread \ {t} : pc'[u] = pc[u]
      /\ disk' = disk /\ irq' = irq /\ held' = held /\ valid' = valid
  BY <1>1, Zenon DEF iderw, Goto, Inv, Types
<1>3. b \notin Range(idequeue)
  BY <1>1, Zenon DEF DInv, Requests, Pending
<1>4. PICK q \in Seq(Buf) : q = idequeue
  BY Zenon DEF Inv, Types
<1>5. /\ idequeue' = Append(q, b)
      /\ Range(idequeue') = Range(q) \cup {b} /\ Once(idequeue')
      /\ Head(idequeue') = IF q = <<>> THEN b ELSE Head(q)
  <2>1. idequeue' = Append(q, b)
    BY <1>1, <1>4, Zenon DEF iderw
  <2>2. Once(q)
    BY <1>4, Zenon DEF DInv, Requests
  <2> QED
    BY <1>3, <1>4, <2>1, <2>2, AppendFacts, AppendOnce, Zenon
<1>6. Flags'
  BY <1>2, Zenon DEF DInv, Flags
<1>7. ASSUME NEW c \in Range(idequeue')
      PROVE  c \notin valid' \ dirty' /\ \E u \in Thread : Pending(u, c)'
  <2>1. CASE c = b
    BY <1>1, <1>2, <2>1, Zenon DEF Pending
  <2>2. CASE c # b
    <3>1. PICK u \in Thread : Pending(u, c) /\ c \notin valid \ dirty
      BY <1>4, <1>5, <1>7, <2>2, Zenon DEF DInv, Requests
    <3>2. u # t
      BY <1>1, <2>2, <3>1, Zenon DEF Pending
    <3> QED
      BY <1>2, <3>1, <3>2, Zenon DEF Pending
  <2> QED
    BY <2>1, <2>2, Zenon
<1>8. ASSUME q = <<>> PROVE Requests'
  <2>1. drive' = (IF isDirty THEN "write" ELSE "read") /\ ~irq'
    <3>1. idequeue = <<>>
      BY <1>4, <1>8, Zenon
    <3>2. drive = "idle" /\ ~irq
      BY <3>1, Zenon DEF Inv, Driver
    <3> QED
      BY <1>2, <3>1, <3>2 DEF iderw, idestart
  <2>2. drive' = "write" <=> Head(idequeue') \in dirty'
    BY <1>2, <1>5, <1>8, <2>1, Zenon
  <2> QED
    BY <1>5, <1>7, <2>1, <2>2, Zenon DEF Requests, Range, Once
<1>9. ASSUME q # <<>> PROVE Requests'
  <2>1. drive' = drive /\ drive # "idle" /\ Head(idequeue') = Head(idequeue)
    BY <1>4, <1>5, <1>9, Zenon DEF iderw, Inv, Driver
  <2>2. PICK h \in Buf : h = Head(idequeue) /\ h \in Range(idequeue)
    BY <2>1, FirstRequest, Zenon
  <2>3. h \in dirty' <=> h \in dirty
    BY <1>2, <1>3, <2>2, Zenon
  <2> QED
    <3>1. drive' = "write" <=> Head(idequeue') \in dirty'
      BY <2>1, <2>2, <2>3, Zenon DEF DInv, Requests
    <3>2. irq' /\ drive' = "write" => disk'[blockno'[Head(idequeue')]] = data'[Head(idequeue')]
      BY <1>2, <2>1, Zenon DEF DInv, Requests
    <3> QED
      BY <1>5, <1>7, <3>1, <3>2, Zenon DEF Requests, Range, Once
<1>10. Clean'
  <2>1. ASSUME NEW c \in Buf, c # b, Changing(c) PROVE Changing(c)'
    BY <1>1, <1>2, <2>1, Zenon DEF Changing
  <2>2. ASSUME NEW c \in valid \ dirty' PROVE Changing(c)' \/ data[c] = disk[blockno[c]]
    BY <1>2, <2>1, <2>2, Zenon DEF DInv, Clean, Inv, Types
  <2> QED
    BY <1>2, <2>2, Zenon DEF Clean
<1> QED
  BY <1>6, <1>8, <1>9, <1>10, Zenon DEF DInv

LEMMA FillReadData == ASSUME Inv, DInv, NEW t \in Thread, FillRead(t) PROVE DInv'
<1>1. /\ iderw(t, FALSE) /\ pc[t] \in Holding \ {"io"} /\ held[t] \notin valid
      /\ UNCHANGED <<blockno, data, busy, valid>> /\ dirty' = dirty
  BY Zenon DEF FillRead, At, Holding, buf
<1>2. dirty \subseteq valid
  BY Zenon DEF DInv, Flags
<1>3. FALSE <=> held[t] \in dirty'
  BY <1>1, <1>2, Zenon
<1> QED
  BY <1>1, <1>2, <1>3, RequestData, Zenon

LEMMA BwriteData == ASSUME Inv, DInv, NEW t \in Thread, bwrite(t) PROVE DInv'
<1>1. /\ iderw(t, TRUE) /\ pc[t] \in {"have", "changed"} /\ pc[t] \in Holding \ {"io"}
      /\ UNCHANGED <<blockno, data, busy, valid>> /\ dirty' = dirty \cup {held[t]}
  BY Zenon DEF bwrite, At, Holding, buf
<1>2. dirty' \subseteq valid
  BY <1>1, Zenon DEF DInv, Flags
<1>3. TRUE <=> held[t] \in dirty'
  BY <1>1, Zenon
<1> QED
  BY <1>1, <1>2, <1>3, RequestData, Zenon

(* A buffer that is recycled is in no request.                             *)
LEMMA RecycleData == ASSUME Inv, DInv, NEW t \in Thread, BgetRecycle(t) PROVE DInv'
<1>1. PICK b \in Buf \ (busy \cup dirty) :
        /\ At(t, "bget") /\ Cached(want[t]) = {}
        /\ blockno' = [blockno EXCEPT ![b] = want[t]]
        /\ busy' = busy \cup {b} /\ valid' = valid \ {b}
        /\ Goto(t, "fill") /\ held' = [held EXCEPT ![t] = b]
        /\ UNCHANGED <<data, dirty, mru, idequeue, device, want, asleep, panic>>
  BY Recycles, Zenon DEF Inv
<1>2. /\ pc[t] = "bget" /\ pc'[t] = "fill"
      /\ \A u \in Thread \ {t} : pc'[u] = pc[u] /\ held'[u] = held[u]
      /\ \A c \in Buf \ {b} : blockno'[c] = blockno[c]
  BY <1>1, Zenon DEF At, Goto, Inv, Types
<1>3. \A u \in Thread : held[u] # b
  BY <1>1, NotHeld, Zenon
<1>4. Flags'
  <2>1. \A u \in Thread : pc'[u] \in {"have", "changed"} => held'[u] \in valid'
    BY <1>1, <1>2, <1>3 DEF DInv, Flags
  <2>2. \A c \in valid' : blockno'[c] \in Block
    BY <1>1, <1>2, Zenon DEF DInv, Flags, Inv, Types
  <2> QED
    BY <1>1, <2>1, <2>2, Zenon DEF DInv, Flags, device
<1>5. Requests'
  <2>1. ASSUME NEW c \in Range(idequeue)
        PROVE  c \notin valid' \ dirty /\ \E u \in Thread : Pending(u, c)'
    <3>1. PICK u \in Thread : Pending(u, c) /\ c \notin valid \ dirty
      BY <2>1, Zenon DEF DInv, Requests
    <3>2. pc'[u] = "io" /\ held'[u] = c
      BY <1>2, <3>1 DEF Pending
    <3> QED
      BY <1>1, <3>1, <3>2, Zenon DEF Pending
  <2>2. ASSUME drive # "idle" PROVE blockno'[Head(idequeue)] = blockno[Head(idequeue)]
    <3>1. PICK c \in Buf : c = Head(idequeue) /\ c \in busy
      BY <2>2, FirstRequest, Zenon
    <3> QED
      BY <1>1, <1>2, <3>1, Zenon
  <2> QED
    BY <1>1, <2>1, <2>2, Zenon DEF DInv, Requests, device, Inv, Driver
<1>6. Clean'
  <2>1. ASSUME NEW c, Changing(c) PROVE Changing(c)'
    BY <1>2, <2>1, Zenon DEF Changing
  <2>2. ASSUME NEW c \in valid' \ dirty PROVE Changing(c)' \/ data[c] = disk[blockno'[c]]
    <3>1. c \in Buf \ {b} /\ c \in valid \ dirty
      BY <1>1, <2>2, Zenon DEF Inv, Types
    <3>2. Changing(c) \/ data[c] = disk[blockno[c]]
      BY <3>1, Zenon DEF DInv, Clean
    <3> QED
      BY <1>2, <2>1, <3>1, <3>2, Zenon
  <2> QED
    BY <1>1, <2>2, Zenon DEF Clean, device
<1> QED
  BY <1>4, <1>5, <1>6, Zenon DEF DInv

(* The drive writes, or has read, ...                                      *)
LEMMA DiskDoneData == ASSUME Inv, DInv, DiskDone PROVE DInv'
<1>1. UNCHANGED <<buf, idequeue, drive, thread>> /\ drive # "idle"
  BY Zenon DEF DiskDone
<1>2. PICK b \in Buf : b = Head(idequeue) /\ blockno[b] \in Block
  BY <1>1, FirstRequest, Zenon
<1>3. CASE drive = "write"
  <2>1. b \in dirty
    BY <1>2, <1>3, Zenon DEF DInv, Requests
  <2>2. /\ disk'[blockno[b]] = data[b] /\ \A k \in Block \ {blockno[b]} : disk'[k] = disk[k]
        /\ disk' \in [Block -> Val]
    BY <1>2, <1>3, Zenon DEF DiskDone, DInv, Flags
  <2>3. Flags' /\ Requests'
    <3>1. Flags'
      BY <1>1, <2>2, Zenon DEF DInv, Flags, buf, thread
    <3>2. Requests'
      BY <1>1, <1>2, <2>2, Zenon DEF DInv, Requests, Pending, buf, thread
    <3> QED
      BY <3>1, <3>2, Zenon
  <2>4. ASSUME NEW c \in valid \ dirty PROVE disk'[blockno[c]] = disk[blockno[c]]
    <3>1. c \in Buf /\ blockno[c] \in Block /\ c # b
      BY <2>1, <2>4, Zenon DEF DInv, Flags, Inv, Types
    <3>2. blockno[c] # blockno[b]
      BY <1>2, <3>1, BufAssumption, Zenon DEF Inv, Distinct
    <3> QED
      BY <2>2, <3>1, <3>2, Zenon
  <2>5. Clean'
    BY <1>1, <2>4, Zenon DEF DInv, Clean, Changing, buf, thread
  <2> QED
    BY <2>3, <2>5, Zenon DEF DInv
<1>4. CASE drive # "write"
  <2>1. disk' = disk
    BY <1>4, Zenon DEF DiskDone
  <2>2. Flags' /\ Clean'
    BY <1>1, <2>1, Zenon DEF DInv, Flags, Clean, Changing, buf, thread
  <2>3. Requests'
    BY <1>1, <1>4, <2>1, Zenon DEF DInv, Requests, Pending, buf, thread
  <2> QED
    BY <2>2, <2>3, Zenon DEF DInv
<1> QED
  BY <1>3, <1>4, Zenon

(* ... and ideintr takes the request off the queue.                        *)
LEMMA IntrData ==
  ASSUME Inv, DInv, ~DiskErrors, NEW ok \in BOOLEAN, ideintr(ok)
  PROVE  DInv'
<1>1. PICK b \in Buf, rest \in Seq(Buf) :
           /\ b = Head(idequeue) /\ rest = Tail(idequeue) /\ idequeue' = rest /\ idequeue # <<>>
           /\ Range(idequeue) = Range(rest) \cup {b}
           /\ data' = IF b \notin dirty /\ ok THEN [data EXCEPT ![b] = disk[blockno[b]]] ELSE data
           /\ valid' = valid \cup {b} /\ dirty' = dirty \ {b}
           /\ \A u \in Thread : asleep'[u] = IF asleep[u] = b THEN NoBuf ELSE asleep[u]
           /\ asleep' \in [Thread -> Buf \cup {NoBuf}]
           /\ irq /\ irq' = FALSE /\ (rest = <<>> <=> drive' = "idle")
           /\ UNCHANGED <<blockno, busy, mru, disk, pc, want, held>>
  BY IntrFacts, Zenon
<1>2. ok /\ drive # "idle"
  BY <1>1, Zenon DEF ideintr, Inv, Driver
<1>3. blockno[b] \in Block /\ b \notin valid \ dirty
  BY <1>1, <1>2, FirstRequest, Zenon
<1>4. Once(rest) /\ b \notin Range(rest)
  <2>1. Once(idequeue) /\ idequeue \in Seq(Buf)
    BY Zenon DEF DInv, Requests, Inv, Types
  <2> QED
    BY <1>1, <2>1, TailOnce, Zenon
<1>5. /\ b \in dirty => data' = data
      /\ b \notin dirty => data'[b] = disk[blockno[b]]
      /\ \A c \in Buf \ {b} : data'[c] = data[c]
      /\ data' \in [Buf -> Val]
  <2>1. disk[blockno[b]] \in Val /\ data \in [Buf -> Val]
    BY <1>3, Zenon DEF DInv, Flags
  <2> QED
    BY <1>1, <1>2, <2>1, Zenon
<1>6. Flags'
  BY <1>1, <1>3, <1>5, Zenon DEF DInv, Flags
<1>7. Requests'
  <2>1. ASSUME NEW c \in Range(rest)
        PROVE  c \notin valid' \ dirty' /\ \E u \in Thread : Pending(u, c)'
    <3>1. c # b /\ c \in Range(idequeue)
      BY <1>1, <1>4, <2>1, Zenon
    <3>2. c \notin valid \ dirty /\ \E u \in Thread : Pending(u, c)
      BY <3>1, Zenon DEF DInv, Requests
    <3> QED
      BY <1>1, <3>1, <3>2, Zenon DEF Pending
  <2>2. ASSUME rest # <<>> PROVE drive' = "write" <=> Head(rest) \in dirty'
    <3>1. PICK h \in Buf : h = Head(rest) /\ h \in Range(rest)
      BY <2>2, TailFacts, Zenon
    <3>2. drive' = IF h \in dirty THEN "write" ELSE "read"
      BY <1>1, <2>2, <3>1, Zenon DEF ideintr, idestart
    <3>3. h \in dirty <=> h \in dirty'
      BY <1>1, <1>4, <3>1, Zenon
    <3> QED
      BY <3>1, <3>2, <3>3
  <2>3. ~irq' /\ (drive' # "idle" => rest # <<>>)
    BY <1>1, Zenon
  <2> QED
    BY <1>1, <1>4, <2>1, <2>2, <2>3, Zenon DEF Requests
<1>8. Clean'
  <2>1. ASSUME b \in dirty PROVE data[b] = disk[blockno[b]]
    BY <1>1, <1>2, <2>1, Zenon DEF DInv, Requests
  <2>2. data'[b] = disk[blockno[b]]
    BY <1>5, <2>1, Zenon
  <2>3. ASSUME NEW c \in Buf, Changing(c) PROVE Changing(c)'
    BY <1>1, <2>3, Zenon DEF Changing
  <2>4. ASSUME NEW c \in valid' \ dirty', c # b PROVE Changing(c)' \/ data'[c] = disk[blockno[c]]
    <3>1. c \in Buf \ {b} /\ c \in valid \ dirty
      BY <1>1, <2>4, Zenon DEF Inv, Types
    <3> QED
      BY <1>5, <2>3, <3>1, Zenon DEF DInv, Clean
  <2> QED
    BY <1>1, <2>2, <2>4, Zenon DEF Clean
<1> QED
  BY <1>6, <1>7, <1>8, Zenon DEF DInv

LEMMA DInvInit == Init => DInv
<1> SUFFICES ASSUME Init PROVE DInv
  OBVIOUS
<1>1. Flags
  BY Zenon DEF Init, Flags
<1>2. Requests
  <2>1. Range(idequeue) = {} /\ Once(idequeue)
    BY DEF Init, Range, Once
  <2> QED
    BY <2>1, Zenon DEF Init, Requests
<1>3. Clean
  BY Zenon DEF Init, Clean
<1> QED
  BY <1>1, <1>2, <1>3, Zenon DEF DInv

LEMMA DInvStep == ASSUME ~DiskErrors, Inv, DInv, [Next]_vars PROVE DInv'
<1>1. CASE UNCHANGED vars
  <2>1. /\ blockno' = blockno /\ data' = data /\ valid' = valid /\ dirty' = dirty
        /\ idequeue' = idequeue /\ device' = device /\ pc' = pc /\ held' = held
    BY <1>1, Zenon DEF vars, buf, thread
  <2> QED
    BY <2>1, SoftData, Zenon DEF DInv, Flags
<1>2. ASSUME NEW t \in Thread, Kernel(t) PROVE DInv'
  BY <1>2, QuietData, RecycleData, FillReadData, Zenon DEF Kernel
<1>3. ASSUME NEW t \in Thread, brelse(t) \/ \E k \in Block : Bread(t, k) PROVE DInv'
  BY <1>3, QuietData, Zenon
<1> QED
  BY <1>1, <1>2, <1>3, ChangeData, LogWriteData, BwriteData, DiskDoneData, IntrData, Zenon
     DEF Next

-----------------------------------------------------------------------------
(* The refinement.  Has says without CHOOSE what a block holds.            *)
Has(k, v) == \/ \E b \in valid : blockno[b] = k /\ data[b] = v
             \/ (\A b \in valid : blockno[b] # k) /\ disk[k] = v

LEMMA ContentHas == ASSUME Inv, NEW k \in Block PROVE Has(k, Content[k])
<1>1. \A b \in Buf : b \in Cached(k) <=> blockno[b] = k
  BY Zenon DEF Cached
<1>2. valid \subseteq Buf
  BY Zenon DEF Inv, Types
<1>3. CASE \E b \in Cached(k) : b \in valid
  <2>1. PICK c : c = CHOOSE b \in Cached(k) : b \in valid
    OBVIOUS
  <2>2. c \in Cached(k) /\ c \in valid
    BY <1>3, <2>1, Zenon
  <2>3. Content[k] = data[c]
    BY <1>3, <2>1, Zenon DEF Content
  <2> QED
    BY <2>2, <2>3, Zenon DEF Has, Cached
<1>4. CASE ~ \E b \in Cached(k) : b \in valid
  <2>1. Content[k] = disk[k]
    BY <1>4, Zenon DEF Content
  <2> QED
    BY <1>1, <1>2, <1>4, <2>1, Zenon DEF Has
<1> QED
  BY <1>3, <1>4, Zenon

LEMMA HasOne == ASSUME Inv, NEW k \in Block, NEW v, NEW w, Has(k, v), Has(k, w) PROVE v = w
<1>1. \A b, c \in valid : blockno[b] = k /\ blockno[c] = k => b = c
  BY BufAssumption, Zenon DEF Inv, Types, Distinct
<1> QED
  BY <1>1 DEF Has

LEMMA ContentIs == \A k \in Block : \A v : Inv /\ Has(k, v) => Content[k] = v
  BY ContentHas, HasOne, Zenon

LEMMA ContentIsNext == (\A k \in Block : \A v : Inv /\ Has(k, v) => Content[k] = v)'
  BY ContentIs, PTL

LEMMA UserIs == \A k \in Block : \A t \in Thread : Inv /\ t \in User(k) => UserOf[k] = t
<1> SUFFICES ASSUME NEW k \in Block, NEW t \in Thread, Inv, t \in User(k) PROVE UserOf[k] = t
  BY Zenon
<1>1. ASSUME NEW u \in User(k) PROVE u \in Thread /\ want[u] = k /\ pc[u] \in Holding
  BY <1>1, Zenon DEF User, Holding
<1>2. ASSUME NEW u \in User(k) PROVE u = t
  <2>1. held[u] \in Buf /\ held[t] \in Buf /\ blockno[held[u]] = k /\ blockno[held[t]] = k
    BY <1>1, <1>2, InHand, Zenon
  <2>2. held[u] = held[t]
    BY <2>1, BufAssumption, Zenon DEF Inv, Distinct
  <2> QED
    BY <1>1, <1>2, <2>2, InHand, Zenon
<1>3. User(k) = {t}
  BY <1>2, Zenon
<1> QED
  BY <1>3, Zenon DEF UserOf, OneOf

(* A step that keeps what blocks hold and who uses them.                   *)
LEMMA ContentSame ==
  ASSUME Inv, Inv', NEW S \in SUBSET Block, \A k \in S : \A v : Has(k, v) => Has(k, v)'
  PROVE  \A k \in S : Content'[k] = Content[k]
<1> SUFFICES ASSUME NEW k \in S PROVE Content'[k] = Content[k]
  BY Zenon
<1>1. PICK v : v = Content[k]
  OBVIOUS
<1>2. Has(k, v)
  BY <1>1, ContentHas, Zenon
<1>3. Has(k, v)'
  BY <1>2, Zenon
<1> QED
  BY <1>1, <1>3, ContentIsNext, Zenon

LEMMA ContentAll == (\A k \in Block : Content'[k] = Content[k]) => Content' = Content
  BY Zenon DEF Content

LEMMA UserSame ==
  ASSUME NEW S \in SUBSET Block, \A k \in S : User(k)' = User(k)
  PROVE  \A k \in S : UserOf'[k] = UserOf[k]
<1> SUFFICES ASSUME NEW k \in S PROVE UserOf'[k] = UserOf[k]
  BY Zenon
<1>1. UserOf[k] = OneOf(User(k)) /\ UserOf'[k] = OneOf(User(k)')
  BY Zenon DEF UserOf
<1> QED
  BY <1>1, Zenon

LEMMA UserAll == (\A k \in Block : UserOf'[k] = UserOf[k]) => UserOf' = UserOf
  BY Zenon DEF UserOf

(* Steps that are not visible.                                             *)
LEMMA Unseen ==
  ASSUME Inv, Inv', \A k \in Block : \A v : Has(k, v) => Has(k, v)',
         \A k \in Block : User(k)' = User(k)
  PROVE  Content' = Content /\ UserOf' = UserOf
<1>1. Content' = Content
  BY ContentSame, ContentAll, Zenon
<1>2. UserOf' = UserOf
  BY UserSame, UserAll, Zenon
<1> QED
  BY <1>1, <1>2, Zenon

LEMMA OneOfFacts == OneOf({}) = NoThread /\ \A t : OneOf({t}) = t
  BY Zenon DEF OneOf

(* A thread is given its block, or gives it back.                          *)
LEMMA Given ==
  ASSUME Inv, NEW t \in Thread, NEW k \in Block, want[t] = k, pc[t] \in Holding, t \notin User(k)
  PROVE  User(k) = {}
<1> SUFFICES ASSUME NEW u \in User(k) PROVE FALSE
  BY Zenon
<1>1. u \in Thread /\ want[u] = k /\ pc[u] \in Holding
  BY Zenon DEF User, Holding
<1>2. held[u] \in Buf /\ held[t] \in Buf /\ blockno[held[u]] = k /\ blockno[held[t]] = k
  BY <1>1, InHand, Zenon
<1>3. held[u] = held[t]
  BY <1>2, BufAssumption, Zenon DEF Inv, Distinct
<1> QED
  BY <1>1, <1>3, InHand, Zenon

LEMMA Appears ==
  ASSUME Content' = Content, NEW t \in Thread, NEW k \in Block, User(k) = {}, User(k)' = {t},
         \A j \in Block \ {k} : User(j)' = User(j)
  PROVE  Store!Next
<1>1. UserOf[k] = NoThread /\ UserOf'[k] = t
  <2>1. UserOf[k] = OneOf(User(k)) /\ UserOf'[k] = OneOf(User(k)')
    BY Zenon DEF UserOf
  <2> QED
    BY <2>1, OneOfFacts, Zenon
<1>2. \A j \in Block \ {k} : UserOf'[j] = UserOf[j]
  BY UserSame, Zenon
<1>3. UserOf' = [UserOf EXCEPT ![k] = t]
  <2>1. UserOf = [j \in Block |-> UserOf[j]] /\ UserOf' = [j \in Block |-> UserOf'[j]]
    BY Zenon DEF UserOf
  <2> QED
    BY <1>1, <1>2, <2>1
<1>4. Store!Bread(t, k)
  BY <1>1, <1>3, Zenon DEF Store!Bread
<1> QED
  BY <1>4, Zenon DEF Store!Next

LEMMA Vanishes ==
  ASSUME Content' = Content, NEW t \in Thread, NEW k \in Block, User(k) = {t}, User(k)' = {},
         \A j \in Block \ {k} : User(j)' = User(j)
  PROVE  Store!Next
<1>1. UserOf[k] = t /\ UserOf'[k] = NoThread
  <2>1. UserOf[k] = OneOf(User(k)) /\ UserOf'[k] = OneOf(User(k)')
    BY Zenon DEF UserOf
  <2> QED
    BY <2>1, OneOfFacts, Zenon
<1>2. \A j \in Block \ {k} : UserOf'[j] = UserOf[j]
  BY UserSame, Zenon
<1>3. UserOf' = [UserOf EXCEPT ![k] = NoThread]
  <2>1. UserOf = [j \in Block |-> UserOf[j]] /\ UserOf' = [j \in Block |-> UserOf'[j]]
    BY Zenon DEF UserOf
  <2> QED
    BY <1>1, <1>2, <2>1
<1>4. Store!Brelse(t, k)
  BY <1>1, <1>3, Zenon DEF Store!Brelse
<1> QED
  BY <1>4, Zenon DEF Store!Next

(* Steps that change no contents.                                          *)
LEMMA SameContent ==
  ASSUME blockno' = blockno, data' = data, valid' = valid, disk' = disk PROVE Content' = Content
<1>1. \A k : Cached(k)' = Cached(k)
  BY Zenon DEF Cached
<1>2. ASSUME NEW k \in Block PROVE Content'[k] = Content[k]
  <2>1. Cached(k)' = Cached(k)
    BY <1>1, Zenon
  <2> QED
    BY <2>1, Zenon DEF Content
<1> QED
  BY <1>2, ContentAll, Zenon

InUse(t) == pc[t] \in {"have", "changed"} \/ (pc[t] = "io" /\ held[t] \in valid)
Seen == Store!Next \/ (Content' = Content /\ UserOf' = UserOf)

LEMMA UserFacts ==
  \A t \in Thread, k \in Block : /\ t \in User(k) <=> want[t] = k /\ InUse(t)
                                 /\ t \in User(k)' <=> want'[t] = k /\ InUse(t)'
  BY Zenon DEF User, InUse

LEMMA UserLocal ==
  ASSUME NEW t \in Thread, NEW k \in Block, t \in User(k)' <=> t \in User(k),
         \A u \in Thread \ {t} : want'[u] = want[u] /\ (InUse(u)' <=> InUse(u))
  PROVE  User(k)' = User(k)
<1>1. \A u \in Thread : u \in User(k)' <=> u \in User(k)
  BY UserFacts, Zenon
<1>2. User(k) \subseteq Thread /\ User(k)' \subseteq Thread
  BY Zenon DEF User
<1> QED
  BY <1>1, <1>2, Zenon

(* Most steps are not visible.                                             *)
LEMMA QuietSeen ==
  ASSUME Inv, DInv, NEW t \in Thread,
         \/ (\E k \in Block : Bread(t, k)) \/ (\E b \in Buf : BgetHit(t, b) \/ BgetSleep(t, b))
         \/ BgetPanic(t) \/ IoAgain(t) \/ FillRead(t) \/ log_write(t) \/ bwrite(t)
  PROVE  Seen
<1>1. blockno' = blockno /\ data' = data /\ valid' = valid /\ disk' = disk
  BY Zenon DEF Bread, BgetHit, BgetSleep, BgetPanic, FillRead, IoAgain, log_write, bwrite, iderw,
    buf, device
<1>2. \A u \in Thread \ {t} : pc'[u] = pc[u] /\ held'[u] = held[u] /\ want'[u] = want[u]
  BY Zenon DEF Bread, BgetHit, BgetSleep, BgetPanic, FillRead, IoAgain, log_write, bwrite, iderw,
    Goto, thread, Inv, Types
<1>3. \A u \in Thread \ {t} : want'[u] = want[u] /\ (InUse(u)' <=> InUse(u))
  BY <1>1, <1>2, Zenon DEF InUse
<1>4. (InUse(t)' <=> InUse(t)) /\ (InUse(t) => want'[t] = want[t])
  <2>1. CASE (\E k \in Block : Bread(t, k)) \/ (\E b \in Buf : BgetHit(t, b))
    <3>1. pc[t] \in {"user", "bget"} /\ pc'[t] \in {"bget", "fill"}
      BY <2>1, Zenon DEF Bread, BgetHit, At, Goto, Inv, Types
    <3> QED
      BY <3>1, Zenon DEF InUse
  <2>2. CASE (\E b \in Buf : BgetSleep(t, b)) \/ BgetPanic(t)
    BY <1>1, <2>2, Zenon DEF BgetSleep, BgetPanic, thread, InUse
  <2>3. CASE IoAgain(t)
    <3>1. pc[t] = "io" /\ held' = held /\ want' = want
      BY <2>3, Zenon DEF IoAgain, At
    <3>2. pc'[t] = IF held[t] \in valid \ dirty THEN "have" ELSE "io"
      BY <2>3, <3>1, Zenon DEF IoAgain, Goto, Inv, Types
    <3> QED
      BY <1>1, <3>1, <3>2, Zenon DEF InUse
  <2>4. CASE FillRead(t)
    <3>1. pc[t] = "fill" /\ pc'[t] = "io" /\ held' = held /\ held[t] \notin valid
      BY <2>4, Zenon DEF FillRead, iderw, At, Goto, Inv, Types
    <3> QED
      BY <1>1, <3>1, Zenon DEF InUse
  <2>5. CASE log_write(t) \/ bwrite(t)
    <3>1. /\ pc[t] \in {"have", "changed"} /\ pc'[t] \in {"io", "have"} /\ held' = held
          /\ want' = want
      BY <2>5, Zenon DEF log_write, bwrite, iderw, At, Goto, Inv, Types
    <3>2. held[t] \in valid
      BY <3>1, Zenon DEF DInv, Flags
    <3> QED
      BY <1>1, <3>1, <3>2, Zenon DEF InUse
  <2> QED
    BY <2>1, <2>2, <2>3, <2>4, <2>5, Zenon
<1>5. ASSUME NEW k \in Block PROVE User(k)' = User(k)
  <2>1. t \in User(k)' <=> t \in User(k)
    BY <1>4, UserFacts, Zenon
  <2> QED
    BY <1>3, <2>1, UserLocal, Zenon
<1>6. UserOf' = UserOf
  BY <1>5, UserSame, UserAll, Zenon
<1> QED
  BY <1>1, <1>6, SameContent, Zenon DEF Seen

(* bread and brelse of a buffer that has data.                             *)
LEMMA FillValidSeen == ASSUME Inv, NEW t \in Thread, FillValid(t) PROVE Seen
<1>1. /\ pc[t] = "fill" /\ pc[t] \in Holding /\ pc'[t] = "have" /\ held[t] \in valid
      /\ \A u \in Thread \ {t} : pc'[u] = pc[u]
      /\ blockno' = blockno /\ data' = data /\ valid' = valid /\ disk' = disk
      /\ held' = held /\ want' = want
  BY Zenon DEF FillValid, At, Goto, Holding, Inv, Types, buf, device
<1>2. PICK k \in Block : k = want[t]
  BY <1>1, InHand, Zenon
<1>3. /\ ~InUse(t) /\ InUse(t)'
      /\ \A u \in Thread \ {t} : want'[u] = want[u] /\ (InUse(u)' <=> InUse(u))
  BY <1>1, Zenon DEF InUse
<1>4. User(k) = {}
  BY <1>1, <1>2, <1>3, UserFacts, Given, Zenon
<1>5. \A j \in Block \ {k} : User(j)' = User(j)
  BY <1>1, <1>2, <1>3, UserFacts, UserLocal, Zenon
<1>6. User(k)' = {t}
  <2>1. \A u \in Thread : u \in User(k)' <=> u = t
    BY <1>1, <1>2, <1>3, <1>4, UserFacts, Zenon
  <2>2. User(k)' \subseteq Thread
    BY Zenon DEF User
  <2> QED
    BY <2>1, <2>2, Zenon
<1> QED
  BY <1>1, <1>4, <1>5, <1>6, SameContent, Appears, Zenon DEF Seen

LEMMA BrelseSeen == ASSUME Inv, NEW t \in Thread, brelse(t) PROVE Seen
<1>1. pc[t] = "have" /\ pc[t] \in Holding
  BY Zenon DEF brelse, At, Holding
<1>2. PICK k \in Block : k = want[t]
  BY <1>1, InHand, Zenon
<1>3. /\ pc'[t] = "user"
      /\ \A u \in Thread \ {t} : pc'[u] = pc[u] /\ held'[u] = held[u] /\ want'[u] = want[u]
      /\ blockno' = blockno /\ data' = data /\ valid' = valid /\ disk' = disk
  BY Zenon DEF brelse, Goto, Inv, Types, device
<1>4. /\ InUse(t) /\ ~InUse(t)'
      /\ \A u \in Thread \ {t} : want'[u] = want[u] /\ (InUse(u)' <=> InUse(u))
  BY <1>1, <1>3, Zenon DEF InUse
<1>5. User(k) = {t}
  <2>1. ASSUME NEW u \in User(k) PROVE u = t
    <3>1. u \in Thread /\ t \in User(k)
      BY <1>2, <1>4, UserFacts, Zenon DEF User
    <3> QED
      BY <3>1, UserIs, Zenon
  <2> QED
    BY <1>2, <1>4, <2>1, UserFacts, Zenon
<1>6. \A j \in Block \ {k} : User(j)' = User(j)
  <2>1. \A j \in Block \ {k} : t \notin User(j) /\ t \notin User(j)'
    BY <1>2, <1>4, UserFacts, Zenon
  <2> QED
    BY <1>4, <2>1, UserLocal, Zenon
<1>7. User(k)' = {}
  <2>1. \A u \in Thread : u \notin User(k)'
    BY <1>4, <1>5, UserFacts, Zenon
  <2> QED
    BY <2>1, Zenon DEF User
<1> QED
  BY <1>3, <1>5, <1>6, <1>7, SameContent, Vanishes, Zenon DEF Seen

(* A change of the buffer is the change of its block.                      *)
LEMMA ChangeSeen ==
  ASSUME Inv, Inv', DInv, NEW t \in Thread, NEW v \in Val, Change(t, v)
  PROVE  Seen
<1>1. pc[t] = "have" /\ pc[t] \in Holding
  BY Zenon DEF Change, At, Holding
<1>2. PICK b \in Buf : b = held[t] /\ b \in valid /\ blockno[b] = want[t]
  BY <1>1, InHand, Zenon DEF DInv, Flags
<1>3. PICK k \in Block : k = want[t]
  BY <1>1, InHand, Zenon
<1>4. /\ data'[b] = v /\ \A c \in Buf \ {b} : data'[c] = data[c]
      /\ blockno' = blockno /\ valid' = valid /\ disk' = disk /\ held' = held /\ want' = want
      /\ pc'[t] = "changed" /\ \A u \in Thread \ {t} : pc'[u] = pc[u]
  BY <1>2, Zenon DEF Change, Goto, device, DInv, Flags, Inv, Types
<1>5. /\ InUse(t) /\ InUse(t)'
      /\ \A u \in Thread \ {t} : want'[u] = want[u] /\ (InUse(u)' <=> InUse(u))
  BY <1>1, <1>4, Zenon DEF InUse
<1>6. ASSUME NEW j \in Block PROVE User(j)' = User(j)
  <2>1. t \in User(j)' <=> t \in User(j)
    BY <1>4, <1>5, UserFacts, Zenon
  <2> QED
    BY <1>5, <2>1, UserLocal, Zenon
<1>7. UserOf' = UserOf
  BY <1>6, UserSame, UserAll, Zenon
<1>8. UserOf[k] = t
  BY <1>3, <1>5, UserFacts, UserIs, Zenon
<1>9. Content'[k] = v
  <2>1. Has(k, v)'
    BY <1>2, <1>3, <1>4, Zenon DEF Has
  <2> QED
    BY <2>1, ContentIsNext, Zenon
<1>10. \A j \in Block \ {k} : Content'[j] = Content[j]
  <2>1. ASSUME NEW j \in Block \ {k}, NEW x, Has(j, x) PROVE Has(j, x)'
    <3>1. CASE \E c \in valid : blockno[c] = j /\ data[c] = x
      <4>1. PICK c \in valid : blockno[c] = j /\ data[c] = x
        BY <3>1, Zenon
      <4>2. c \in Buf \ {b}
        BY <1>2, <1>3, <4>1, Zenon DEF Inv, Types
      <4>3. data'[c] = x
        BY <1>4, <4>1, <4>2, Zenon
      <4> QED
        BY <1>4, <4>1, <4>3, Zenon DEF Has
    <3>2. CASE ~ \E c \in valid : blockno[c] = j /\ data[c] = x
      BY <1>4, <2>1, <3>2, Zenon DEF Has
    <3> QED
      BY <3>1, <3>2, Zenon
  <2> QED
    BY <2>1, ContentSame, Zenon
<1>11. Content' = [Content EXCEPT ![k] = v]
  <2>1. Content = [j \in Block |-> Content[j]] /\ Content' = [j \in Block |-> Content'[j]]
    BY Zenon DEF Content
  <2> QED
    BY <1>9, <1>10, <2>1
<1>12. Store!Change(t, k, v)
  BY <1>7, <1>8, <1>11, Zenon DEF Store!Change
<1> QED
  BY <1>12, Zenon DEF Seen, Store!Next

(* What is recycled is a copy of the disk.                                 *)
LEMMA RecycleSeen ==
  ASSUME Inv, Inv', DInv, NEW t \in Thread, BgetRecycle(t)
  PROVE  Seen
<1>1. PICK b \in Buf \ (busy \cup dirty) :
        /\ At(t, "bget") /\ Cached(want[t]) = {}
        /\ blockno' = [blockno EXCEPT ![b] = want[t]]
        /\ busy' = busy \cup {b} /\ valid' = valid \ {b}
        /\ Goto(t, "fill") /\ held' = [held EXCEPT ![t] = b]
        /\ UNCHANGED <<data, dirty, mru, idequeue, device, want, asleep, panic>>
  BY Recycles, Zenon DEF Inv
<1>2. /\ pc[t] = "bget" /\ pc'[t] = "fill" /\ want' = want /\ disk' = disk
      /\ \A u \in Thread \ {t} : pc'[u] = pc[u] /\ held'[u] = held[u]
      /\ \A c \in Buf \ {b} : blockno'[c] = blockno[c]
  <2>1. pc[t] = "bget" /\ want' = want /\ disk' = disk
    BY <1>1, Zenon DEF At, device
  <2>2. pc'[t] = "fill" /\ \A u \in Thread \ {t} : pc'[u] = pc[u]
    BY <1>1, Zenon DEF Goto, Inv, Types
  <2>3. \A u \in Thread \ {t} : held'[u] = held[u]
    BY <1>1, Zenon DEF Inv, Types
  <2>4. \A c \in Buf \ {b} : blockno'[c] = blockno[c]
    BY <1>1, Zenon DEF Inv, Types
  <2> QED
    BY <2>1, <2>2, <2>3, <2>4, Zenon
<1>3. \A u \in Thread : held[u] # b
  BY <1>1, NotHeld, Zenon
<1>4. /\ ~InUse(t) /\ ~InUse(t)'
      /\ \A u \in Thread \ {t} : want'[u] = want[u] /\ (InUse(u)' <=> InUse(u))
  <2>1. ~InUse(t) /\ ~InUse(t)'
    BY <1>2, Zenon DEF InUse
  <2>2. ASSUME NEW u \in Thread \ {t} PROVE held[u] \in valid' <=> held[u] \in valid
    BY <1>1, <1>3, <2>2, Zenon
  <2> QED
    BY <1>2, <2>1, <2>2, Zenon DEF InUse
<1>5. ASSUME NEW j \in Block PROVE User(j)' = User(j)
  BY <1>4, UserFacts, UserLocal, Zenon
<1>6. b \in valid => data[b] = disk[blockno[b]]
  BY <1>1, <1>3, Zenon DEF DInv, Clean, Changing
<1>7. ASSUME NEW j \in Block, NEW x, Has(j, x) PROVE Has(j, x)'
  <2>1. CASE \E c \in valid \ {b} : blockno[c] = j /\ data[c] = x
    <3>1. PICK c \in valid \ {b} : blockno[c] = j /\ data[c] = x
      BY <2>1, Zenon
    <3>2. blockno'[c] = j /\ data'[c] = x /\ c \in valid'
      BY <1>1, <1>2, <3>1, Zenon DEF Inv, Types
    <3> QED
      BY <3>2, Zenon DEF Has
  <2>2. CASE ~ \E c \in valid \ {b} : blockno[c] = j /\ data[c] = x
    <3>1. disk[j] = x
      BY <1>6, <1>7, <2>2, Zenon DEF Has
    <3>2. ASSUME NEW c \in valid' PROVE blockno'[c] # j
      <4>1. c \in Buf \ {b} /\ c \in valid
        BY <1>1, <3>2, Zenon DEF Inv, Types
      <4>2. blockno'[c] = blockno[c]
        BY <1>2, <4>1, Zenon
      <4>3. ASSUME blockno[c] = j PROVE FALSE
        <5>1. Has(j, data[c])
          BY <4>1, <4>3, Zenon DEF Has
        <5>2. data[c] = x
          BY <1>7, <5>1, HasOne, Zenon
        <5> QED
          BY <2>2, <4>1, <4>3, <5>2, Zenon
      <4> QED
        BY <4>2, <4>3, Zenon
    <3> QED
      BY <1>2, <3>1, <3>2, Zenon DEF Has
  <2> QED
    BY <2>1, <2>2, Zenon
<1> QED
  BY <1>5, <1>7, Unseen, Zenon DEF Seen

(* What the drive writes is what the cache holds.                          *)
LEMMA DiskDoneSeen == ASSUME Inv, Inv', DInv, DiskDone PROVE Seen
<1>1. UNCHANGED <<buf, idequeue, drive, thread>> /\ drive # "idle"
  BY Zenon DEF DiskDone
<1>2. /\ blockno' = blockno /\ data' = data /\ valid' = valid
      /\ pc' = pc /\ want' = want /\ held' = held
  BY <1>1, Zenon DEF buf, thread
<1>3. ASSUME NEW j \in Block PROVE User(j)' = User(j)
  BY <1>2, Zenon DEF User
<1>4. CASE drive = "write"
  <2>1. PICK b \in Buf : b = Head(idequeue) /\ blockno[b] \in Block
    BY <1>1, FirstRequest, Zenon
  <2>2. b \in valid
    BY <1>4, <2>1, Zenon DEF DInv, Requests, Flags
  <2>3. \A k \in Block \ {blockno[b]} : disk'[k] = disk[k]
    BY <1>4, <2>1, Zenon DEF DiskDone, DInv, Flags
  <2>4. ASSUME NEW j \in Block, NEW x, Has(j, x) PROVE Has(j, x)'
    BY <1>2, <2>2, <2>3, <2>4, Zenon DEF Has
  <2> QED
    BY <1>3, <2>4, Unseen, Zenon DEF Seen
<1>5. CASE drive # "write"
  <2>1. disk' = disk
    BY <1>5, Zenon DEF DiskDone
  <2> QED
    BY <1>2, <1>3, <2>1, SameContent, UserSame, UserAll, Zenon DEF Seen
<1> QED
  BY <1>4, <1>5, Zenon

(* The end of a read is the bread of the thread that asked for it.         *)
LEMMA IntrSeen ==
  ASSUME Inv, Inv', DInv, ~DiskErrors, NEW ok \in BOOLEAN, ideintr(ok)
  PROVE  Seen
<1>1. PICK b \in Buf, rest \in Seq(Buf) :
           /\ b = Head(idequeue) /\ rest = Tail(idequeue) /\ idequeue' = rest /\ idequeue # <<>>
           /\ Range(idequeue) = Range(rest) \cup {b}
           /\ data' = IF b \notin dirty /\ ok THEN [data EXCEPT ![b] = disk[blockno[b]]] ELSE data
           /\ valid' = valid \cup {b} /\ dirty' = dirty \ {b}
           /\ \A u \in Thread : asleep'[u] = IF asleep[u] = b THEN NoBuf ELSE asleep[u]
           /\ asleep' \in [Thread -> Buf \cup {NoBuf}]
           /\ irq /\ irq' = FALSE /\ (rest = <<>> <=> drive' = "idle")
           /\ UNCHANGED <<blockno, busy, mru, disk, pc, want, held>>
  BY IntrFacts, Zenon
<1>2. b \in Range(idequeue) /\ b \notin valid \ dirty /\ ok
  BY <1>1, Zenon DEF ideintr, DInv, Requests
<1>3. CASE b \in valid
  <2>1. valid' = valid /\ data' = data
    BY <1>1, <1>2, <1>3, Zenon
  <2>2. ASSUME NEW j \in Block PROVE User(j)' = User(j)
    BY <1>1, <2>1, Zenon DEF User
  <2> QED
    BY <1>1, <2>1, <2>2, SameContent, UserSame, UserAll, Zenon DEF Seen
<1>4. CASE b \notin valid
  <2>1. PICK t \in Thread : pc[t] = "io" /\ held[t] = b
    BY <1>2, Zenon DEF DInv, Requests, Pending
  <2>2. pc[t] \in Holding
    BY <2>1, Zenon DEF Holding
  <2>3. PICK k \in Block : k = want[t] /\ blockno[b] = k
    BY <2>1, <2>2, InHand, Zenon
  <2>4. \A u \in Thread \ {t} : held[u] # b
    BY <2>1, <2>2, InHand, Zenon
  <2>5. /\ ~InUse(t) /\ InUse(t)'
        /\ \A u \in Thread \ {t} : want'[u] = want[u] /\ (InUse(u)' <=> InUse(u))
    <3>1. ~InUse(t) /\ InUse(t)'
      BY <1>1, <1>4, <2>1, Zenon DEF InUse
    <3>2. ASSUME NEW u \in Thread \ {t} PROVE held[u] \in valid' <=> held[u] \in valid
      BY <1>1, <2>4, <3>2, Zenon
    <3> QED
      BY <1>1, <3>1, <3>2, Zenon DEF InUse
  <2>6. User(k) = {}
    BY <2>2, <2>3, <2>5, UserFacts, Given, Zenon
  <2>7. \A j \in Block \ {k} : User(j)' = User(j)
    <3>1. want'[t] = want[t]
      BY <1>1, Zenon
    <3> QED
      BY <2>3, <2>5, <3>1, UserFacts, UserLocal, Zenon
  <2>8. User(k)' = {t}
    <3>1. \A u \in Thread : u \in User(k)' <=> u = t
      BY <1>1, <2>3, <2>5, <2>6, UserFacts, Zenon
    <3>2. User(k)' \subseteq Thread
      BY Zenon DEF User
    <3> QED
      BY <3>1, <3>2, Zenon
  <2>9. b \notin dirty
    BY <1>4, Zenon DEF DInv, Flags
  <2>10. data'[b] = disk[k] /\ \A c \in Buf \ {b} : data'[c] = data[c]
    BY <1>1, <1>2, <2>3, <2>9, Zenon DEF DInv, Flags
  <2>11. ASSUME NEW j \in Block, NEW x, Has(j, x) PROVE Has(j, x)'
    <3>1. CASE \E c \in valid : blockno[c] = j /\ data[c] = x
      <4>1. PICK c \in valid : blockno[c] = j /\ data[c] = x
        BY <3>1, Zenon
      <4>2. data'[c] = x /\ blockno'[c] = j /\ c \in valid'
        BY <1>1, <1>4, <2>10, <4>1, Zenon DEF Inv, Types
      <4> QED
        BY <4>2, Zenon DEF Has
    <3>2. CASE ~ \E c \in valid : blockno[c] = j /\ data[c] = x
      <4>1. (\A c \in valid : blockno[c] # j) /\ disk[j] = x
        BY <2>11, <3>2, Zenon DEF Has
      <4>2. CASE j = k
        <5>1. b \in valid' /\ blockno'[b] = j /\ data'[b] = x
          BY <1>1, <2>3, <2>10, <4>1, <4>2, Zenon
        <5> QED
          BY <5>1, Zenon DEF Has
      <4>3. CASE j # k
        BY <1>1, <2>3, <4>1, <4>3, Zenon DEF Has
      <4> QED
        BY <4>2, <4>3, Zenon
    <3> QED
      BY <3>1, <3>2, Zenon
  <2>12. Content' = Content
    BY <2>11, ContentSame, ContentAll, Zenon
  <2> QED
    BY <2>6, <2>7, <2>8, <2>12, Appears, Zenon DEF Seen
<1> QED
  BY <1>3, <1>4, Zenon

LEMMA StepSeen == ASSUME ~DiskErrors, Inv, Inv', DInv, [Next]_vars PROVE Seen
<1>1. CASE UNCHANGED vars
  <2>1. /\ blockno' = blockno /\ data' = data /\ valid' = valid /\ disk' = disk
        /\ pc' = pc /\ held' = held /\ want' = want
    BY <1>1, Zenon DEF vars, buf, device, thread
  <2>2. ASSUME NEW j \in Block PROVE User(j)' = User(j)
    BY <2>1, Zenon DEF User
  <2> QED
    BY <2>1, <2>2, SameContent, UserSame, UserAll, Zenon DEF Seen
<1>2. ASSUME NEW t \in Thread, Kernel(t) PROVE Seen
  BY <1>2, QuietSeen, RecycleSeen, FillValidSeen, Zenon DEF Kernel
<1>3. ASSUME NEW t \in Thread, log_write(t) \/ bwrite(t) \/ \E k \in Block : Bread(t, k)
      PROVE  Seen
  BY <1>3, QuietSeen, Zenon
<1> QED
  BY <1>1, <1>2, <1>3, BrelseSeen, ChangeSeen, DiskDoneSeen, IntrSeen, Zenon DEF Next

LEMMA InitSeen == Init => Store!Init
<1> SUFFICES ASSUME Init PROVE Store!Init
  OBVIOUS
<1>1. ASSUME NEW k \in Block PROVE Content[k] = disk[k] /\ UserOf[k] = NoThread
  <2>1. Inv /\ Has(k, disk[k])
    BY InvInit, Zenon DEF Init, Has
  <2>2. User(k) = {}
    BY Zenon DEF Init, User
  <2>3. UserOf[k] = NoThread
    BY <2>2, OneOfFacts, Zenon DEF UserOf
  <2> QED
    BY <2>1, <2>3, ContentIs, Zenon
<1>2. Content \in [Block -> Val]
  <2>1. \A k \in Block : Content[k] \in Val
    BY <1>1, Zenon DEF Init
  <2> QED
    BY <2>1, Zenon DEF Content
<1>3. UserOf = [k \in Block |-> NoThread]
  BY <1>1, Zenon DEF UserOf
<1> QED
  BY <1>2, <1>3, Zenon DEF Store!Init

(* With a disk that reads without errors, the cache implements one content *)
(* and one user per block (bio.c): no change is lost when a buffer is      *)
(* recycled or written back, and every bread sees the last change.         *)
THEOREM BufCacheStore == ASSUME ~DiskErrors PROVE Spec => ImplementsStore
<1>1. Spec => [](Inv /\ DInv)
  <2>1. Inv /\ DInv /\ [Next]_vars => DInv'
    BY DInvStep, Zenon
  <2> QED
    BY <2>1, DInvInit, Invariance, PTL DEF Spec
<1>2. Inv /\ Inv' /\ DInv /\ [Next]_vars => [Store!Next]_<<Content, UserOf>>
  BY StepSeen, Zenon DEF Seen
<1>3. Spec => Store!Init /\ [][Store!Next]_<<Content, UserOf>>
  BY <1>1, <1>2, InitSeen, PTL DEF Spec
<1> QED
  BY <1>3 DEF ImplementsStore, Store!Spec
=============================================================================

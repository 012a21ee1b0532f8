--------------------------- MODULE StreamsProofs ---------------------------
(***************************************************************************)
(* sys_sleep, pipes and the console's input: nobody is forgotten asleep,   *)
(* no pipe is freed in use, and the two ring buffers are the queues they   *)
(* are meant to be; for any number of threads, any size of a ring and any  *)
(* width of the counters that is a multiple of that size.                  *)
(***************************************************************************)
EXTENDS MCStreams, Sequences, WellFoundedInduction, TLAPS

(***************************************************************************)
(* Clock.                                                                  *)
(***************************************************************************)
(***************************************************************************)
(* The inductive invariant: in sys_sleep at least as many ticks have       *)
(* passed as the code computes, however often ticks has wrapped around;    *)
(* and whoever has decided to sleep, or does, has read a difference that   *)
(* still is the present one.                                               *)
(***************************************************************************)
ClockInv ==
    /\ TypeOK
    /\ \A t \in Sleeper : tpc[t] # "user" => minus(ticks, ticks0[t]) <= passed[t]
    /\ \A t \in Sleeper : tpc[t] = "slept" => passed[t] >= asked[t]
    /\ \A t \in Sleeper : tpc[t] \in {"going", "asleep"} => minus(ticks, ticks0[t]) < asked[t]

\* The unsigned difference is in the range of an unsigned number.
LEMMA MinusRange ==
    ASSUME UINT \in Nat \ {0}, NEW a \in 0..(UINT - 1), NEW b \in 0..(UINT - 1)
    PROVE  minus(a, b) \in 0..(UINT - 1)
BY DEF minus

\* One tick raises the difference by one, or makes it 0.
LEMMA MinusTick ==
    ASSUME UINT \in Nat \ {0}, NEW a \in 0..(UINT - 1), NEW b \in 0..(UINT - 1)
    PROVE  minus(IF a + 1 = UINT THEN 0 ELSE a + 1, b) <= minus(a, b) + 1
BY DEF minus

\* The step of the inductive invariant: one case for each action.
LEMMA ClockStep ==
    ASSUME UINT \in Nat \ {0}, ClockInv, [Next]_clockVars
    PROVE  ClockInv'
<1> USE DEF ClockInv, TypeOK
<1>1. CASE Timer
  <2>1. TypeOK'
    BY <1>1 DEF Timer
  <2>2. \A t \in Sleeper : tpc'[t] # "user" => minus(ticks', ticks0'[t]) <= passed'[t]
    <3> SUFFICES ASSUME NEW t \in Sleeper, tpc[t] # "user"
                 PROVE  minus(ticks', ticks0[t]) <= passed'[t]
      BY <1>1 DEF Timer
    <3>1. minus(ticks', ticks0[t]) <= minus(ticks, ticks0[t]) + 1
      BY <1>1, MinusTick DEF Timer
    <3>2. minus(ticks', ticks0[t]) \in 0..(UINT - 1) /\ minus(ticks, ticks0[t]) \in 0..(UINT - 1)
      BY <2>1, MinusRange
    <3>3. passed'[t] = IF passed[t] < UINT THEN passed[t] + 1 ELSE UINT
      BY <1>1 DEF Timer
    <3>4. passed[t] \in 0..UINT /\ minus(ticks, ticks0[t]) <= passed[t]
      OBVIOUS
    <3> HIDE DEF ClockInv, TypeOK
    <3> QED BY <3>1, <3>2, <3>3, <3>4
  <2>3. \A t \in Sleeper : tpc'[t] = "slept" => passed'[t] >= asked'[t]
    BY <1>1 DEF Timer
  <2>4. \A t \in Sleeper : tpc'[t] \notin {"going", "asleep"}
    BY <1>1 DEF Timer, TickslockFree
  <2> QED BY <2>1, <2>2, <2>3, <2>4
<1>2. ASSUME NEW t \in Sleeper, sys_sleep(t) PROVE ClockInv'
  <2>1. PICK len \in 0..(UINT - 1) : asked' = [asked EXCEPT ![t] = len] /\ Loop(t, len, ticks)
    BY <1>2, Zenon DEF sys_sleep
  <2>2. minus(ticks, ticks) = 0
    BY DEF minus
  <2>3. TypeOK'
    BY <1>2, <2>1 DEF sys_sleep, Loop
  <2>4. \A s \in Sleeper : tpc'[s] # "user" => minus(ticks', ticks0'[s]) <= passed'[s]
    BY <1>2, <2>1, <2>2 DEF sys_sleep, Loop
  <2>5. \A s \in Sleeper : tpc'[s] = "slept" => passed'[s] >= asked'[s]
    BY <1>2, <2>1, <2>2 DEF sys_sleep, Loop
  <2>6. \A s \in Sleeper : tpc'[s] \in {"going", "asleep"}
          => minus(ticks', ticks0'[s]) < asked'[s]
    BY <1>2, <2>1, <2>2 DEF sys_sleep, Loop
  <2> QED BY <2>3, <2>4, <2>5, <2>6 DEF minus
<1>3. ASSUME NEW t \in Sleeper, Wake(t) PROVE ClockInv'
  <2>1. minus(ticks, ticks0[t]) \in 0..(UINT - 1)
    BY MinusRange, Zenon
  <2>2. TypeOK' /\ UNCHANGED <<ticks, asked, ticks0, passed, tkilled>>
    BY <1>3 DEF Wake, Loop
  <2>3. \A s \in Sleeper : tpc'[s] = "slept" => passed[s] >= asked[s]
    BY <1>3, <2>1 DEF Wake, Loop
  <2>4. \A s \in Sleeper : tpc'[s] \in {"going", "asleep"} => minus(ticks, ticks0[s]) < asked[s]
    BY <1>3, <2>1 DEF Wake, Loop
  <2>5. \A s \in Sleeper : tpc'[s] # "user" => minus(ticks, ticks0[s]) <= passed[s]
    BY <1>3 DEF Wake, Loop
  <2> QED BY <2>2, <2>3, <2>4, <2>5 DEF minus
<1>4. ASSUME NEW t \in Sleeper, FallAsleep(t) PROVE ClockInv'
  BY <1>4 DEF FallAsleep, minus
<1>5. ASSUME NEW t \in Sleeper, Return(t) PROVE ClockInv'
  BY <1>5 DEF Return, minus
<1>6. ASSUME NEW t \in Sleeper, kill(t) PROVE ClockInv'
  BY <1>6 DEF kill, minus
<1>7. CASE UNCHANGED clockVars
  BY <1>7 DEF clockVars, minus
<1> QED BY <1>1, <1>2, <1>3, <1>4, <1>5, <1>6, <1>7 DEF Next

\* What ClockStep preserves holds in every behaviour.
LEMMA ClockInductive == ASSUME UINT \in Nat \ {0} PROVE Spec => []ClockInv
<1>1. Init => ClockInv
  BY DEF Init, ClockInv, TypeOK, minus
<1>2. ClockInv /\ [Next]_clockVars => ClockInv'
  BY ClockStep
<1> QED BY <1>1, <1>2, PTL DEF Spec

\* A sleep(len) that returns 0 has lasted at least len ticks, for any number of
\* sleepers and any width of the counter (sysproc.c, the loop of sys_sleep).
THEOREM ClockSleeps == ASSUME UINT \in Nat \ {0} PROVE Spec => []SleepsLongEnough
<1>1. ClockInv => SleepsLongEnough
  BY DEF ClockInv, SleepsLongEnough
<1> QED BY <1>1, ClockInductive, PTL

\* Nobody sleeps on when its time is over: a tick cannot fall between the test
\* and the sleep, because the timer interrupt needs tickslock (trap.c).
THEOREM ClockWakes == ASSUME UINT \in Nat \ {0} PROVE Spec => []NoMissedTick
<1>1. ClockInv => NoMissedTick
  BY DEF ClockInv, NoMissedTick
<1> QED BY <1>1, ClockInductive, PTL

(***************************************************************************)
(* Remainders and sequences.                                               *)
(***************************************************************************)
LEMMA ModIs ==
  ASSUME NEW N \in Nat \ {0}, NEW q \in Int, NEW z \in 0 .. N - 1
  PROVE  (q * N + z) % N = z
  OBVIOUS

LEMMA ModEx ==
  ASSUME NEW N \in Nat \ {0}, NEW x \in Int
  PROVE  x % N \in 0 .. N - 1 /\ \E q \in Int : x = q * N + (x % N)
<1>1. x % N \in 0 .. N - 1 /\ x \div N \in Int
  OBVIOUS
<1>2. x = (x \div N) * N + (x % N)
  OBVIOUS
<1> QED
  BY <1>1, <1>2, Zenon

LEMMA ModMinus ==
  ASSUME NEW N \in Nat \ {0}, NEW x \in 0 .. N - 1, NEW y \in 0 .. N - 1
  PROVE  (x - y) % N = IF x >= y THEN x - y ELSE x - y + N
  OBVIOUS

LEMMA ModPlus ==
  ASSUME NEW N \in Nat \ {0}, NEW x \in 0 .. N - 1, NEW y \in 0 .. N
  PROVE  (x + y) % N = IF x + y < N THEN x + y ELSE x + y - N
  OBVIOUS

LEMMA ModAdd ==
  ASSUME NEW N \in Nat \ {0}, NEW x \in Int, NEW y \in Int
  PROVE  ((x % N) + y) % N = (x + y) % N
<1>1. PICK q \in Int : x = q * N + (x % N)
  BY ModEx, Zenon
<1>2. PICK u \in Int : u = x % N
  BY ModEx
<1>3. PICK v \in Int : v = u + y
  OBVIOUS
<1>4. PICK k \in Int, z \in 0 .. N - 1 : z = v % N /\ v = k * N + z
  BY ModEx, Zenon
<1>5. x + y = (q + k) * N + z
  <2>1. x = q * N + u /\ u + y = k * N + z
    BY <1>1, <1>2, <1>3, <1>4
  <2> QED
    BY <1>2, <2>1
<1>6. PICK h \in Int : h = q + k
  OBVIOUS
<1>7. (h * N + z) % N = z
  BY ModIs, Zenon
<1> QED
  BY <1>2, <1>3, <1>4, <1>5, <1>6, <1>7, Zenon

LEMMA ModMod ==
  ASSUME NEW P \in Nat \ {0}, NEW m \in Nat \ {0}, NEW x \in Int
  PROVE  (x % (m * P)) % P = x % P
<1>1. m * P \in Nat \ {0}
  OBVIOUS
<1>2. PICK q \in Int : x = q * (m * P) + (x % (m * P))
  BY <1>1, ModEx, Zenon
<1>3. x % (m * P) \in Int
  BY <1>1, ModEx
<1>4. PICK k \in Int : x % (m * P) = k * P + ((x % (m * P)) % P)
  BY <1>3, ModEx, Zenon
<1>5. PICK z \in 0 .. P - 1 : z = (x % (m * P)) % P
  BY <1>3, ModEx
<1>6. x = (q * m + k) * P + z
  <2>1. ASSUME NEW u \in Int, x = q * (m * P) + u, u = k * P + z PROVE x = (q * m + k) * P + z
    BY <2>1
  <2> QED
    BY <1>2, <1>3, <1>4, <1>5, <2>1, Zenon
<1>7. PICK j \in Int : j = q * m + k
  OBVIOUS
<1>8. x % P = z
  BY <1>6, <1>7, ModIs, Zenon
<1> QED
  BY <1>5, <1>8, Zenon

LEMMA ModSame ==
  ASSUME NEW P \in Nat \ {0}, NEW x \in Int, NEW y \in Int, x % P = y % P, x <= y, y < x + P
  PROVE  x = y
<1>1. PICK q \in Int : x = q * P + (x % P)
  BY ModEx, Zenon
<1>2. PICK k \in Int : y = k * P + (y % P)
  BY ModEx, Zenon
<1>3. PICK d \in Int : d = k - q
  OBVIOUS
<1>4. y - x = d * P
  <2>1. PICK z \in Int : z = x % P
    BY ModEx
  <2>2. x = q * P + z /\ y = k * P + z
    BY <1>1, <1>2, <2>1, Zenon
  <2> QED
    BY <1>3, <2>2
<1>5. d * P >= 0 /\ d * P < P
  BY <1>4
<1>6. d = 0
  BY <1>5
<1> QED
  BY <1>4, <1>6

LEMMA SeqSame ==
  ASSUME NEW S, NEW p \in Seq(S), NEW q \in Seq(S), Len(p) = Len(q),
         \A i \in 1 .. Len(p) : p[i] = q[i]
  PROVE  p = q
  OBVIOUS

LEMMA ConcatIs ==
  ASSUME NEW S, NEW p \in Seq(S), NEW q \in Seq(S)
  PROVE  /\ p \o q \in Seq(S) /\ Len(p \o q) = Len(p) + Len(q)
         /\ \A i \in 1 .. Len(p) + Len(q) : (p \o q)[i] =
             IF i <= Len(p) THEN p[i] ELSE q[i - Len(p)]
  OBVIOUS

LEMMA AppendIs ==
  ASSUME NEW S, NEW p \in Seq(S), NEW x \in S
  PROVE  /\ Append(p, x) \in Seq(S) /\ Len(Append(p, x)) = Len(p) + 1
         /\ \A i \in 1 .. Len(p) + 1 : Append(p, x)[i] = IF i <= Len(p) THEN p[i] ELSE x
  OBVIOUS

LEMMA SubSeqIs ==
  ASSUME NEW S, NEW p \in Seq(S), NEW m \in Nat, m <= Len(p)
  PROVE  /\ SubSeq(p, m + 1, Len(p)) \in Seq(S) /\ Len(SubSeq(p, m + 1, Len(p))) = Len(p) - m
         /\ \A i \in 1 .. Len(p) - m : SubSeq(p, m + 1, Len(p))[i] = p[m + i]
  OBVIOUS

LEMMA EmptyConcat == ASSUME NEW S, NEW p \in Seq(S) PROVE p \o <<>> = p
  OBVIOUS

LEMMA WholeSeq == ASSUME NEW S, NEW p \in Seq(S) PROVE SubSeq(p, 0 + 1, Len(p)) = p
  OBVIOUS

(***************************************************************************)
(* Pipe.                                                                   *)
(***************************************************************************)
(* PIPESIZE divides the number of unsigned values, and is less.            *)
PipeSizes == PIPESIZE \in Nat \ {0} /\ \E m \in Nat : m >= 2 /\ UINT_MAX1 = m * PIPESIZE

(* Remainders.                                                             *)
-----------------------------------------------------------------------------
(* The counters.  With at most PIPESIZE bytes in the pipe, the unsigned    *)
(* comparisons of the code mean what they say.                             *)
LEMMA PipeSizesFacts ==
  ASSUME PipeSizes
  PROVE  PIPESIZE \in Nat \ {0} /\ UINT_MAX1 \in Nat \ {0} /\ PIPESIZE < UINT_MAX1
<1>1. PICK m \in Nat : m >= 2 /\ UINT_MAX1 = m * PIPESIZE
  BY Zenon DEF PipeSizes
<1>2. PIPESIZE \in Nat \ {0}
  BY Zenon DEF PipeSizes
<1> QED
  BY <1>1, <1>2

Counters ==
  /\ nread \in 0 .. UINT_MAX1 - 1 /\ nwrite \in 0 .. UINT_MAX1 - 1
  /\ Bytes!Count <= PIPESIZE

LEMMA CounterFacts ==
  ASSUME PipeSizes, Counters
  PROVE  /\ Bytes!Count \in 0 .. PIPESIZE /\ Bytes!Room = PIPESIZE - Bytes!Count
         /\ (Bytes!Empty <=> Bytes!Count = 0) /\ (Bytes!IsFull <=> Bytes!Count = PIPESIZE)
<1>1. /\ nread \in 0 .. UINT_MAX1 - 1 /\ nwrite \in 0 .. UINT_MAX1 - 1
      /\ PIPESIZE \in Nat \ {0} /\ UINT_MAX1 \in Nat \ {0} /\ PIPESIZE < UINT_MAX1
  BY PipeSizesFacts, Zenon DEF Counters
<1>2. Bytes!Count = IF nwrite >= nread THEN nwrite - nread ELSE nwrite - nread + UINT_MAX1
  BY <1>1, ModMinus, Zenon DEF Bytes!Count
<1>3. Bytes!Plus(nread, PIPESIZE) = IF nread + PIPESIZE < UINT_MAX1 THEN nread + PIPESIZE
                              ELSE nread + PIPESIZE - UINT_MAX1
  <2>1. PIPESIZE \in 0 .. UINT_MAX1
    BY <1>1
  <2> QED
    BY <1>1, <2>1, ModPlus, Zenon DEF Bytes!Plus
<1>4. PICK p \in 0 .. UINT_MAX1 - 1 : p = Bytes!Plus(nread, PIPESIZE)
  BY <1>1, <1>3
<1>5. Bytes!Room = IF p >= nwrite THEN p - nwrite ELSE p - nwrite + UINT_MAX1
  BY <1>1, <1>4, ModMinus, Zenon DEF Bytes!Room
<1>6. Bytes!Count \in 0 .. PIPESIZE
  BY <1>1, <1>2 DEF Counters
<1>7. (Bytes!Empty <=> Bytes!Count = 0) /\ (Bytes!IsFull <=> Bytes!Count = PIPESIZE)
  BY <1>1, <1>2, <1>3, <1>6 DEF Bytes!Empty, Bytes!IsFull
<1>8. Bytes!Room = PIPESIZE - Bytes!Count
  BY <1>1, <1>2, <1>3, <1>4, <1>5, <1>6
<1> QED
  BY <1>6, <1>7, <1>8, Zenon

LEMMA CounterFactsNext ==
  (PipeSizes /\ Counters
     => (Bytes!Empty <=> Bytes!Count = 0) /\ (Bytes!IsFull <=> Bytes!Count = PIPESIZE))'
<1>1. PipeSizes /\ Counters
        => (Bytes!Empty <=> Bytes!Count = 0) /\ (Bytes!IsFull <=> Bytes!Count = PIPESIZE)
  BY CounterFacts, Zenon
<1> QED
  BY <1>1, PTL

LEMMA CountAfter ==
  ASSUME PipeSizes, Counters, NEW k \in Nat
  PROVE  /\ nread' = nread /\ nwrite' = Bytes!Plus(nwrite, k) /\ k <= Bytes!Room
              => Counters' /\ Bytes!Count' = Bytes!Count + k
         /\ nwrite' = nwrite /\ nread' = Bytes!Plus(nread, k) /\ k <= Bytes!Count
              => Counters' /\ Bytes!Count' = Bytes!Count - k
<1>1. /\ nread \in 0 .. UINT_MAX1 - 1 /\ nwrite \in 0 .. UINT_MAX1 - 1
      /\ PIPESIZE \in Nat \ {0} /\ UINT_MAX1 \in Nat \ {0} /\ PIPESIZE < UINT_MAX1
      /\ Bytes!Count \in 0 .. PIPESIZE /\ Bytes!Room = PIPESIZE - Bytes!Count
  BY PipeSizesFacts, CounterFacts, Zenon DEF Counters
<1>2. Bytes!Count = IF nwrite >= nread THEN nwrite - nread ELSE nwrite - nread + UINT_MAX1
  BY <1>1, ModMinus, Zenon DEF Bytes!Count
<1>3. ASSUME nread' = nread, nwrite' = Bytes!Plus(nwrite, k), k <= Bytes!Room
      PROVE  Counters' /\ Bytes!Count' = Bytes!Count + k
  <2>1. nwrite' = IF nwrite + k < UINT_MAX1 THEN nwrite + k ELSE nwrite + k - UINT_MAX1
    <3>1. k \in 0 .. UINT_MAX1
      BY <1>1, <1>3
    <3> QED
      BY <1>1, <1>3, <3>1, ModPlus, Zenon DEF Bytes!Plus
  <2>2. nwrite' \in 0 .. UINT_MAX1 - 1
    BY <1>1, <1>3, <2>1
  <2>3. Bytes!Count' = IF nwrite' >= nread THEN nwrite' - nread ELSE nwrite' - nread + UINT_MAX1
    BY <1>1, <1>3, <2>2, ModMinus, SMTT(30) DEF Bytes!Count
  <2>4. Bytes!Count' = Bytes!Count + k
    BY <1>1, <1>2, <1>3, <2>1, <2>2, <2>3
  <2> QED
    BY <1>1, <1>3, <2>2, <2>4 DEF Counters
<1>4. ASSUME nwrite' = nwrite, nread' = Bytes!Plus(nread, k), k <= Bytes!Count
      PROVE  Counters' /\ Bytes!Count' = Bytes!Count - k
  <2>1. nread' = IF nread + k < UINT_MAX1 THEN nread + k ELSE nread + k - UINT_MAX1
    <3>1. k \in 0 .. UINT_MAX1
      BY <1>1, <1>4
    <3> QED
      BY <1>1, <1>4, <3>1, ModPlus, Zenon DEF Bytes!Plus
  <2>2. nread' \in 0 .. UINT_MAX1 - 1
    BY <1>1, <1>4, <2>1
  <2>3. Bytes!Count' = IF nwrite >= nread' THEN nwrite - nread' ELSE nwrite - nread' + UINT_MAX1
    BY <1>1, <1>4, <2>2, ModMinus, Zenon DEF Bytes!Count
  <2>4. Bytes!Count' = Bytes!Count - k
    BY <1>1, <1>2, <1>4, <2>1, <2>2, <2>3
  <2> QED
    BY <1>1, <1>4, <2>2, <2>4 DEF Counters
<1> QED
  BY <1>3, <1>4, Zenon

-----------------------------------------------------------------------------
(* Why nobody is forgotten, when every thread has descriptors of its own:  *)
(* an end stays open while somebody is in a call on it, and every step     *)
(* that ends a wait wakes those who wait.                                  *)
Apart == Writer \cap Reader = {} /\ ~SharedFiles
Calls ==
  /\ left \in [Bytes!Thread -> Nat] /\ asleep \subseteq Bytes!Thread
  /\ freed => ~readopen /\ ~writeopen
  /\ \A t \in asleep : left[t] > 0
  /\ \A t \in Writer : left[t] > 0 => writeopen
  /\ \A t \in Reader : left[t] > 0 => readopen
PipeInv == Counters /\ Calls /\ Bytes!NoLostWakeup

LEMMA ThreadEnds == Apart => \A t \in Writer : t \in Bytes!Thread /\ t \notin Reader
  BY Zenon DEF Apart, Bytes!Thread

LEMMA StoreCount ==
  ASSUME PipeSizes, Counters, NEW t \in Writer, left \in [Bytes!Thread -> Nat], Bytes!Store(t)
  PROVE  /\ Counters' /\ Bytes!Count' = Bytes!Count + Bytes!Min(left[t], Bytes!Room)
         /\ UNCHANGED <<nread, readopen, writeopen, freed, killed>>
<1>1. Bytes!Room \in Nat /\ left[t] \in Nat
  BY CounterFacts, PipeSizesFacts DEF Bytes!Thread
<1>2. Bytes!Min(left[t], Bytes!Room) \in Nat /\ Bytes!Min(left[t], Bytes!Room) <= Bytes!Room
  BY <1>1 DEF Bytes!Min
<1> QED
  BY <1>2, CountAfter, Zenon DEF Bytes!Store

LEMMA WriteInv ==
  ASSUME PipeSizes, Apart, PipeInv, NEW t \in Writer, Bytes!pipewrite(t)
  PROVE  PipeInv'
<1>1. /\ left \in [Bytes!Thread -> Nat] /\ asleep \subseteq Bytes!Thread /\ t \in Bytes!Thread
      /\ t \notin Reader
      /\ left[t] \in Nat /\ left[t] > 0 /\ t \notin asleep /\ Counters
  <2>1. Bytes!Runs(t)
    BY Zenon DEF Bytes!pipewrite, Bytes!WriteGivesUp, Bytes!WriteAll, Bytes!WriteBlocks,
           Bytes!WriteFails
  <2> QED
    BY <2>1, ThreadEnds DEF PipeInv, Calls, Bytes!Runs
<1>2. /\ PIPESIZE \in Nat \ {0} /\ Bytes!Count \in 0 .. PIPESIZE
      /\ Bytes!Room = PIPESIZE - Bytes!Count
      /\ (Bytes!Empty <=> Bytes!Count = 0) /\ (Bytes!IsFull <=> Bytes!Count = PIPESIZE)
  BY <1>1, PipeSizesFacts, CounterFacts, Zenon
<1>3. CASE Bytes!WriteGivesUp(t)
  <2>1. Counters' /\ Bytes!Empty' = Bytes!Empty /\ Bytes!IsFull' = Bytes!IsFull
    BY <1>1, <1>3, Zenon DEF Bytes!WriteGivesUp, Bytes!pipe, Counters, Bytes!Count, Bytes!Empty,
           Bytes!IsFull, Bytes!Plus
  <2>2. Calls'
    BY <1>1, <1>3 DEF Bytes!WriteGivesUp, Bytes!pipe, PipeInv, Calls
  <2>3. Bytes!NoLostWakeup'
    BY <1>3, <2>1, Zenon DEF Bytes!WriteGivesUp, Bytes!pipe, PipeInv, Bytes!NoLostWakeup
  <2> QED
    BY <2>1, <2>2, <2>3, Zenon DEF PipeInv
<1>4. ASSUME Bytes!Store(t), left[t] <= Bytes!Room, left' = [left EXCEPT ![t] = 0],
             asleep' = asleep \ Reader
      PROVE  PipeInv'
  <2>1. Counters' /\ UNCHANGED <<nread, readopen, writeopen, freed, killed>>
    BY <1>1, <1>4, StoreCount, Zenon
  <2>2. Calls'
    BY <1>1, <1>4, <2>1 DEF PipeInv, Calls
  <2>3. ~Bytes!IsFull
    BY <1>1, <1>2, <1>4
  <2>4. Bytes!NoLostWakeup'
    BY <1>4, <2>3, Zenon DEF PipeInv, Bytes!NoLostWakeup
  <2> QED
    BY <2>1, <2>2, <2>4, Zenon DEF PipeInv
<1>5. CASE Bytes!WriteBlocks(t)
  <2>1. /\ Counters' /\ Bytes!Count' = Bytes!Count + Bytes!Min(left[t], Bytes!Room)
        /\ UNCHANGED <<nread, readopen, writeopen, freed, killed>>
    BY <1>1, <1>5, StoreCount, Zenon DEF Bytes!WriteBlocks
  <2>2. Bytes!Count' = PIPESIZE
    BY <1>1, <1>2, <1>5, <2>1 DEF Bytes!WriteBlocks, Bytes!Min
  <2>3. Bytes!IsFull'
    BY <2>1, <2>2, CounterFactsNext, Zenon DEF PipeSizes
  <2>4. Calls'
    BY <1>1, <1>2, <1>5, <2>1 DEF Bytes!WriteBlocks, PipeInv, Calls
  <2>5. Bytes!NoLostWakeup'
    BY <1>1, <1>5, <2>1, <2>3, Zenon DEF Bytes!WriteBlocks, PipeInv, Bytes!NoLostWakeup
  <2> QED
    BY <2>1, <2>4, <2>5, Zenon DEF PipeInv
<1>6. CASE Bytes!WriteFails(t)
  <2>1. Counters' /\ UNCHANGED <<nread, readopen, writeopen, freed, killed>>
    BY <1>1, <1>6, StoreCount, Zenon DEF Bytes!WriteFails
  <2>2. Calls'
    BY <1>1, <1>6, <2>1 DEF Bytes!WriteFails, PipeInv, Calls
  <2>3. \A u \in Reader \cap asleep : readopen
    BY <1>1 DEF PipeInv, Calls
  <2>4. Bytes!NoLostWakeup'
    BY <1>6, <2>1, <2>3, Zenon DEF Bytes!WriteFails, PipeInv, Bytes!NoLostWakeup
  <2> QED
    BY <2>1, <2>2, <2>4, Zenon DEF PipeInv
<1> QED
  BY <1>3, <1>4, <1>5, <1>6, Zenon DEF Bytes!pipewrite, Bytes!WriteAll

LEMMA ReadInv ==
  ASSUME PipeSizes, Apart, PipeInv, NEW t \in Reader, Bytes!piperead(t)
  PROVE  PipeInv'
<1>1. /\ left \in [Bytes!Thread -> Nat] /\ asleep \subseteq Bytes!Thread /\ t \in Bytes!Thread
      /\ t \notin Writer
      /\ left[t] \in Nat /\ left[t] > 0 /\ t \notin asleep /\ Counters
  BY DEF PipeInv, Calls, Bytes!piperead, Bytes!ReadBlocks, Bytes!ReadGivesUp, Bytes!Read,
         Bytes!Runs, Apart, Bytes!Thread
<1>2. /\ PIPESIZE \in Nat \ {0} /\ Bytes!Count \in 0 .. PIPESIZE
      /\ (Bytes!Empty <=> Bytes!Count = 0) /\ (Bytes!IsFull <=> Bytes!Count = PIPESIZE)
  BY <1>1, PipeSizesFacts, CounterFacts, Zenon
<1>3. CASE Bytes!ReadBlocks(t)
  <2>1. Counters' /\ Bytes!Empty' = Bytes!Empty /\ Bytes!IsFull' = Bytes!IsFull
    BY <1>1, <1>3, Zenon DEF Bytes!ReadBlocks, Bytes!pipe, Counters, Bytes!Count, Bytes!Empty,
           Bytes!IsFull, Bytes!Plus
  <2>2. Calls'
    BY <1>1, <1>3 DEF Bytes!ReadBlocks, Bytes!pipe, PipeInv, Calls
  <2>3. Bytes!NoLostWakeup'
    BY <1>1, <1>3, <2>1, Zenon DEF Bytes!ReadBlocks, Bytes!pipe, PipeInv, Bytes!NoLostWakeup
  <2> QED
    BY <2>1, <2>2, <2>3, Zenon DEF PipeInv
<1>4. CASE Bytes!ReadGivesUp(t)
  <2>1. Counters' /\ Bytes!Empty' = Bytes!Empty /\ Bytes!IsFull' = Bytes!IsFull
    BY <1>1, <1>4, Zenon DEF Bytes!ReadGivesUp, Bytes!pipe, Counters, Bytes!Count, Bytes!Empty,
           Bytes!IsFull, Bytes!Plus
  <2>2. Calls'
    BY <1>1, <1>4 DEF Bytes!ReadGivesUp, Bytes!pipe, PipeInv, Calls
  <2>3. Bytes!NoLostWakeup'
    BY <1>1, <1>4, <2>1, Zenon DEF Bytes!ReadGivesUp, Bytes!pipe, PipeInv, Bytes!NoLostWakeup
  <2> QED
    BY <2>1, <2>2, <2>3, Zenon DEF PipeInv
<1>5. CASE Bytes!Read(t)
  <2>1. Bytes!Min(left[t], Bytes!Count) \in Nat /\ Bytes!Min(left[t], Bytes!Count) <= Bytes!Count
    BY <1>1, <1>2 DEF Bytes!Min
  <2>2. Counters'
    BY <1>1, <1>5, <2>1, CountAfter, Zenon DEF Bytes!Read
  <2>3. Calls'
    BY <1>1, <1>5 DEF Bytes!Read, PipeInv, Calls
  <2>4. Bytes!NoLostWakeup'
    BY <1>5, Zenon DEF Bytes!Read, PipeInv, Bytes!NoLostWakeup
  <2> QED
    BY <2>2, <2>3, <2>4, Zenon DEF PipeInv
<1> QED
  BY <1>3, <1>4, <1>5, Zenon DEF Bytes!piperead

LEMMA PipeOtherInv ==
  ASSUME PipeSizes, Apart, PipeInv,
         \/ \E t \in Bytes!Thread : Bytes!Kill(t) \/ \E k \in 1 .. MaxBytes : Bytes!SysCall(t, k)
         \/ Bytes!CloseWrite \/ Bytes!CloseRead \/ UNCHANGED Bytes!vars
  PROVE  PipeInv'
<1>1. /\ nread' = nread /\ nwrite' = nwrite /\ killed \subseteq killed'
  BY Zenon
     DEF Bytes!Kill, Bytes!SysCall, Bytes!CloseWrite, Bytes!CloseRead, Bytes!pipe, Bytes!vars
<1>2. Counters' /\ Bytes!Empty' = Bytes!Empty /\ Bytes!IsFull' = Bytes!IsFull
  BY <1>1, Zenon DEF PipeInv, Counters, Bytes!Count, Bytes!Empty, Bytes!IsFull, Bytes!Plus
<1>3. CASE \E t \in Bytes!Thread : Bytes!Kill(t) \/ \E k \in 1 .. MaxBytes : Bytes!SysCall(t, k)
  <2>1. Calls'
    BY <1>3 DEF Bytes!Kill, Bytes!SysCall, Bytes!pipe, PipeInv, Calls, Apart, Bytes!Thread
  <2>2. Bytes!NoLostWakeup'
    <3>1. asleep' = asleep /\ writeopen' = writeopen /\ readopen' = readopen
      BY <1>3, Zenon DEF Bytes!Kill, Bytes!SysCall, Bytes!pipe
    <3>2. Writer \cap killed # {} => Writer \cap killed' # {}
      BY <1>1, Zenon
    <3> QED
      BY <1>2, <3>1, <3>2, Zenon DEF PipeInv, Bytes!NoLostWakeup
  <2> QED
    BY <1>2, <2>1, <2>2, Zenon DEF PipeInv
<1>4. CASE Bytes!CloseWrite
  <2>1. /\ \A t \in Writer : left[t] = 0
        /\ left' = left /\ asleep' = asleep \ Reader /\ killed' = killed /\ readopen' = readopen
        /\ ~writeopen' /\ (freed' => ~readopen)
    BY <1>4, Zenon DEF Bytes!CloseWrite, Apart
  <2>2. Calls'
    BY <2>1 DEF PipeInv, Calls
  <2>3. Bytes!NoLostWakeup'
    BY <1>2, <2>1, Zenon DEF PipeInv, Bytes!NoLostWakeup
  <2> QED
    BY <1>2, <2>2, <2>3, Zenon DEF PipeInv
<1>5. CASE Bytes!CloseRead
  <2>1. /\ \A t \in Reader : left[t] = 0
        /\ left' = left /\ asleep' = asleep \ Writer /\ killed' = killed /\ writeopen' = writeopen
        /\ ~readopen' /\ (freed' => ~writeopen)
    BY <1>5, Zenon DEF Bytes!CloseRead, Apart
  <2>2. Calls'
    BY <2>1 DEF PipeInv, Calls
  <2>3. Bytes!NoLostWakeup'
    BY <1>2, <2>1, Zenon DEF PipeInv, Bytes!NoLostWakeup
  <2> QED
    BY <1>2, <2>2, <2>3, Zenon DEF PipeInv
<1>6. CASE UNCHANGED Bytes!vars
  <2>1. Calls'
    BY <1>6, Zenon DEF Bytes!vars, Bytes!pipe, PipeInv, Calls
  <2>2. Bytes!NoLostWakeup'
    BY <1>2, <1>6, Zenon DEF Bytes!vars, Bytes!pipe, PipeInv, Bytes!NoLostWakeup
  <2> QED
    BY <1>2, <2>1, <2>2, Zenon DEF PipeInv
<1> QED
  BY <1>3, <1>4, <1>5, <1>6, Zenon

LEMMA PipeInvInit == ASSUME PipeSizes, Bytes!Init PROVE PipeInv
<1>1. Bytes!Count = 0
  BY PipeSizesFacts DEF Bytes!Init, Bytes!Count
<1>2. Counters
  BY <1>1, PipeSizesFacts DEF Bytes!Init, Counters
<1>3. Calls /\ Bytes!NoLostWakeup
  BY DEF Bytes!Init, Calls, Bytes!NoLostWakeup
<1> QED
  BY <1>2, <1>3, Zenon DEF PipeInv

LEMMA PipeInvStep == ASSUME PipeSizes, Apart, PipeInv, [Bytes!Next]_(Bytes!vars) PROVE PipeInv'
  BY WriteInv, ReadInv, PipeOtherInv, Zenon DEF Bytes!Next

LEMMA NotFreed == PipeInv => Bytes!NotFreedInUse
<1> SUFFICES ASSUME PipeInv, freed, NEW t \in Bytes!Thread PROVE left[t] = 0
  BY Zenon DEF Bytes!NotFreedInUse
<1>1. ~(left[t] > 0) /\ left[t] \in Nat
  BY Zenon DEF PipeInv, Calls, Bytes!Thread
<1> QED
  BY <1>1

(* A reader sleeps only while somebody may write and there is nothing to   *)
(* read, but for what a killed writer left; a writer only on a full pipe   *)
(* that somebody may read; and the page of a pipe is freed when no call is *)
(* in it (pipe.c).                                                         *)
THEOREM PipeWakes ==
  ASSUME PipeSizes, Apart
  PROVE  Bytes!Spec => [](Bytes!NoLostWakeup /\ Bytes!NotFreedInUse)
<1>1. Bytes!Init => PipeInv
  BY PipeInvInit, Zenon
<1>2. PipeInv /\ [Bytes!Next]_(Bytes!vars) => PipeInv'
  BY PipeInvStep, Zenon
<1>3. PipeInv => Bytes!NoLostWakeup /\ Bytes!NotFreedInUse
  BY NotFreed, Zenon DEF PipeInv
<1> QED
  BY <1>1, <1>2, <1>3, PTL DEF Bytes!Spec

-----------------------------------------------------------------------------
(* The ring.  Byte j of the queue is in place Slot(j), and fewer than      *)
(* PIPESIZE bytes have places of their own: PIPESIZE divides the number of *)
(* values of the counters, so that their overflow skips no place.          *)
Slot(j) == Bytes!Plus(nread, j) % PIPESIZE

LEMMA SlotIs ==
  ASSUME PipeSizes, Counters, NEW j \in Nat
  PROVE  Slot(j) = (nread + j) % PIPESIZE /\ Slot(j) \in 0 .. PIPESIZE - 1
<1>1. PICK m \in Nat \ {0} : UINT_MAX1 = m * PIPESIZE
  BY DEF PipeSizes
<1>2. PIPESIZE \in Nat \ {0} /\ nread \in Int
  BY PipeSizesFacts DEF Counters
<1>3. PICK x \in Int : x = nread + j
  BY <1>2
<1>4. (x % (m * PIPESIZE)) % PIPESIZE = x % PIPESIZE
  BY <1>2, ModMod, Zenon
<1>5. x % PIPESIZE \in 0 .. PIPESIZE - 1
  BY <1>2, ModEx, Zenon
<1> QED
  BY <1>1, <1>3, <1>4, <1>5, Zenon DEF Slot, Bytes!Plus

LEMMA SlotOne ==
  ASSUME PipeSizes, Counters, NEW i \in 0 .. PIPESIZE - 1, NEW j \in 0 .. PIPESIZE - 1,
         Slot(i) = Slot(j)
  PROVE  i = j
<1>1. PIPESIZE \in Nat \ {0} /\ nread \in Int /\ i \in Nat /\ j \in Nat
  BY PipeSizesFacts DEF Counters
<1>2. PICK x \in Int, y \in Int : x = nread + i /\ y = nread + j
  BY <1>1
<1>3. x % PIPESIZE = y % PIPESIZE
  BY <1>1, <1>2, SlotIs, Zenon
<1>4. x < y + PIPESIZE /\ y < x + PIPESIZE
  BY <1>1, <1>2
<1>5. x = y
  <2>1. CASE x <= y
    BY <1>1, <1>3, <1>4, <2>1, ModSame, Zenon
  <2>2. CASE y <= x
    BY <1>1, <1>3, <1>4, <2>2, ModSame, Zenon
  <2> QED
    BY <2>1, <2>2
<1> QED
  BY <1>1, <1>2, <1>5

LEMMA PipePlusPlus ==
  ASSUME PipeSizes, NEW a \in Nat, NEW b \in Nat, NEW c \in Nat
  PROVE  Bytes!Plus(Bytes!Plus(a, b), c) = Bytes!Plus(a, b + c)
<1>1. PICK x \in Int : x = a + b
  OBVIOUS
<1>2. ((x % UINT_MAX1) + c) % UINT_MAX1 = (x + c) % UINT_MAX1
  <2>1. c \in Int
    OBVIOUS
  <2> QED
    BY <2>1, PipeSizesFacts, ModAdd, Zenon
<1>3. x + c = a + (b + c)
  BY <1>1
<1> QED
  BY <1>1, <1>2, <1>3, Zenon DEF Bytes!Plus

LEMMA WriteAt == ASSUME PipeSizes, Counters PROVE Bytes!Plus(nread, Bytes!Count) = nwrite
<1>1. /\ nread \in 0 .. UINT_MAX1 - 1 /\ nwrite \in 0 .. UINT_MAX1 - 1
      /\ PIPESIZE \in Nat \ {0} /\ UINT_MAX1 \in Nat \ {0} /\ PIPESIZE < UINT_MAX1
      /\ Bytes!Count \in 0 .. PIPESIZE
  BY PipeSizesFacts, CounterFacts, Zenon DEF Counters
<1>2. Bytes!Count = IF nwrite >= nread THEN nwrite - nread ELSE nwrite - nread + UINT_MAX1
  BY <1>1, ModMinus, Zenon DEF Bytes!Count
<1>3. Bytes!Count \in 0 .. UINT_MAX1
  BY <1>1
<1>4. Bytes!Plus(nread, Bytes!Count) =
          IF nread + Bytes!Count < UINT_MAX1
          THEN nread + Bytes!Count ELSE nread + Bytes!Count - UINT_MAX1
  BY <1>1, <1>3, ModPlus, Zenon DEF Bytes!Plus
<1> QED
  BY <1>1, <1>2, <1>4

(* The place of the byte d of a write.                                     *)
LEMMA WriteSlot ==
  ASSUME PipeSizes, Counters, NEW d \in Nat \ {0}
  PROVE  Bytes!Plus(nwrite, d - 1) % PIPESIZE = Slot(Bytes!Count + (d - 1))
<1>1. nread \in Nat /\ Bytes!Count \in Nat /\ d - 1 \in Nat
  BY PipeSizesFacts, CounterFacts DEF Counters
<1>2. Bytes!Plus(Bytes!Plus(nread, Bytes!Count), d - 1) = Bytes!Plus(nread, Bytes!Count + (d - 1))
  BY <1>1, PipePlusPlus, Zenon
<1> QED
  BY <1>2, WriteAt, Zenon DEF Slot

LEMMA StoredIs ==
  ASSUME PipeSizes, Counters, data \in [0 .. PIPESIZE - 1 -> Byte],
         NEW k \in Nat, k <= Bytes!Room, NEW s \in [1 .. k -> Byte]
  PROVE  /\ Bytes!Stored(s) \in [0 .. PIPESIZE - 1 -> Byte]
         /\ \A j \in 0 .. Bytes!Count - 1 : Bytes!Stored(s)[Slot(j)] = data[Slot(j)]
         /\ \A d \in 1 .. k : Bytes!Stored(s)[Slot(Bytes!Count + (d - 1))] = s[d]
<1>1. /\ PIPESIZE \in Nat \ {0} /\ Bytes!Count \in 0 .. PIPESIZE /\ Bytes!Count + k <= PIPESIZE
      /\ DOMAIN s = 1 .. k
  BY PipeSizesFacts, CounterFacts
<1>2. ASSUME NEW d \in 1 .. k
      PROVE  /\ Bytes!Plus(nwrite, d - 1) % PIPESIZE = Slot(Bytes!Count + (d - 1))
             /\ Bytes!Count + (d - 1) \in 0 .. PIPESIZE - 1 /\ Bytes!Count + (d - 1) \in Nat
  BY <1>1, WriteSlot
<1> DEFINE Hit(j) == \E d \in DOMAIN s : Bytes!Plus(nwrite, d - 1) % PIPESIZE = j
           At(j) == CHOOSE d \in DOMAIN s : Bytes!Plus(nwrite, d - 1) % PIPESIZE = j
<1>3. ASSUME NEW j \in 0 .. PIPESIZE - 1
      PROVE  /\ Bytes!Stored(s)[j] = IF Hit(j) THEN s[At(j)] ELSE data[j]
             /\ Hit(j) => At(j) \in 1 .. k /\ Bytes!Plus(nwrite, At(j) - 1) % PIPESIZE = j
  BY <1>1, Zenon DEF Bytes!Stored
<1>4. Bytes!Stored(s) \in [0 .. PIPESIZE - 1 -> Byte]
  <2>1. \A j \in 0 .. PIPESIZE - 1 : Bytes!Stored(s)[j] \in Byte
    BY <1>3, Zenon
  <2> QED
    BY <2>1, Zenon DEF Bytes!Stored
<1>5. ASSUME NEW j \in 0 .. Bytes!Count - 1 PROVE Bytes!Stored(s)[Slot(j)] = data[Slot(j)]
  <2>1. j \in 0 .. PIPESIZE - 1 /\ j \in Nat /\ Slot(j) \in 0 .. PIPESIZE - 1
    <3>1. j \in 0 .. PIPESIZE - 1 /\ j \in Nat
      BY <1>1
    <3> QED
      BY <3>1, SlotIs, Zenon
  <2>2. ASSUME Hit(Slot(j)) PROVE FALSE
    <3>1. PICK d \in 1 .. k : Bytes!Plus(nwrite, d - 1) % PIPESIZE = Slot(j)
      BY <1>1, <2>2, Zenon
    <3>2. Bytes!Count + (d - 1) = j
      BY <1>2, <2>1, <3>1, SlotOne, Zenon
    <3> QED
      BY <1>1, <3>2
  <2> QED
    BY <1>3, <2>1, <2>2, Zenon
<1>6. ASSUME NEW d \in 1 .. k PROVE Bytes!Stored(s)[Slot(Bytes!Count + (d - 1))] = s[d]
  <2>1. PICK j \in 0 .. PIPESIZE - 1 : j = Slot(Bytes!Count + (d - 1))
    BY <1>2, SlotIs, Zenon
  <2>2. Hit(j)
    BY <1>1, <1>2, <2>1, Zenon
  <2>3. PICK c \in 1 .. k : c = At(j) /\ Bytes!Plus(nwrite, c - 1) % PIPESIZE = j
    BY <1>3, <2>2, Zenon
  <2>4. Bytes!Count + (c - 1) = Bytes!Count + (d - 1)
    BY <1>2, <2>1, <2>3, SlotOne, Zenon
  <2>5. c = d
    BY <1>1, <2>4
  <2> QED
    BY <1>3, <2>1, <2>2, <2>3, <2>5, Zenon
<1> QED
  BY <1>4, <1>5, <1>6, Zenon

-----------------------------------------------------------------------------
(* What a step does to the queue.                                          *)
PipeRing == Counters /\ data \in [0 .. PIPESIZE - 1 -> Byte]

LEMMA QueueIs ==
  ASSUME PipeSizes, PipeRing
  PROVE  /\ Bytes!Queue \in Seq(Byte) /\ Len(Bytes!Queue) = Bytes!Count
         /\ Bytes!Count \in 0 .. PIPESIZE
         /\ \A j \in 1 .. Bytes!Count : Bytes!Queue[j] = data[Slot(j - 1)]
<1>1. Bytes!Count \in Nat /\ Bytes!Count \in 0 .. PIPESIZE
  BY PipeSizesFacts, CounterFacts DEF PipeRing
<1>2. ASSUME NEW j \in 1 .. Bytes!Count PROVE data[Slot(j - 1)] \in Byte
  <2>1. j - 1 \in Nat
    OBVIOUS
  <2> QED
    BY <2>1, SlotIs, Zenon DEF PipeRing
<1>3. Bytes!Queue = [j \in 1 .. Bytes!Count |-> data[Slot(j - 1)]]
  BY Zenon DEF Bytes!Queue, Slot
<1> HIDE DEF Bytes!Queue
<1> QED
  BY <1>1, <1>2, <1>3

LEMMA QueueIsNext ==
  (PipeSizes /\ PipeRing
     => /\ Bytes!Queue \in Seq(Byte) /\ Len(Bytes!Queue) = Bytes!Count
        /\ Bytes!Count \in 0 .. PIPESIZE
        /\ \A j \in 1 .. Bytes!Count : Bytes!Queue[j] = data[Slot(j - 1)])'
<1>1. PipeSizes /\ PipeRing
        => /\ Bytes!Queue \in Seq(Byte) /\ Len(Bytes!Queue) = Bytes!Count
           /\ Bytes!Count \in 0 .. PIPESIZE
           /\ \A j \in 1 .. Bytes!Count : Bytes!Queue[j] = data[Slot(j - 1)]
  BY QueueIs, Zenon
<1> QED
  BY <1>1, PTL

LEMMA PutQueue ==
  ASSUME PipeSizes, PipeRing, NEW k \in Nat, k <= Bytes!Room, NEW s \in [1 .. k -> Byte],
         data' = Bytes!Stored(s), nwrite' = Bytes!Plus(nwrite, k), nread' = nread
  PROVE  /\ PipeRing' /\ Len(Bytes!Queue) + Len(s) <= PIPESIZE
         /\ Bytes!Queue' = Bytes!Queue \o s /\ Len(s) = k
<1>1. /\ Bytes!Queue \in Seq(Byte) /\ Len(Bytes!Queue) = Bytes!Count
      /\ Bytes!Count \in 0 .. PIPESIZE
      /\ \A j \in 1 .. Bytes!Count : Bytes!Queue[j] = data[Slot(j - 1)]
  BY QueueIs, Zenon
<1>2. /\ data' \in [0 .. PIPESIZE - 1 -> Byte]
      /\ \A j \in 0 .. Bytes!Count - 1 : data'[Slot(j)] = data[Slot(j)]
      /\ \A d \in 1 .. k : data'[Slot(Bytes!Count + (d - 1))] = s[d]
  BY StoredIs, Zenon DEF PipeRing
<1>3. Counters' /\ Bytes!Count' = Bytes!Count + k
  BY CountAfter, Zenon DEF PipeRing
<1>4. PipeRing'
  BY <1>2, <1>3, Zenon DEF PipeRing
<1>5. /\ Bytes!Queue' \in Seq(Byte) /\ Len(Bytes!Queue') = Bytes!Count'
      /\ \A j \in 1 .. Bytes!Count' : Bytes!Queue'[j] = data'[Slot(j - 1)]
  BY <1>4, QueueIsNext, Zenon DEF PipeSizes, Slot, Bytes!Plus
<1>6. s \in Seq(Byte) /\ Len(s) = k
  OBVIOUS
<1>7. PICK q \in Seq(Byte) : /\ q = Bytes!Queue \o s /\ Len(q) = Bytes!Count + k
                             /\ \A j \in 1 .. Bytes!Count + k : q[j] =
                                 IF j <= Bytes!Count THEN Bytes!Queue[j] ELSE s[j - Bytes!Count]
  <2>1. PICK p \in Seq(Byte) : p = Bytes!Queue
    BY <1>1, Zenon
  <2>2. Len(p) = Bytes!Count
    BY <1>1, <2>1, Zenon
  <2>3. /\ p \o s \in Seq(Byte) /\ Len(p \o s) = Bytes!Count + k
        /\ \A j \in 1 .. Bytes!Count + k : (p \o s)[j] =
            IF j <= Bytes!Count THEN p[j] ELSE s[j - Bytes!Count]
    BY <1>6, <2>2, ConcatIs, Zenon
  <2> QED
    BY <2>1, <2>3, Zenon
<1>8. ASSUME NEW j \in 1 .. Bytes!Count + k PROVE Bytes!Queue'[j] = q[j]
  <2>1. CASE j <= Bytes!Count
    <3>1. j \in 1 .. Bytes!Count /\ j - 1 \in 0 .. Bytes!Count - 1
      BY <1>1, <2>1
    <3> QED
      BY <1>1, <1>2, <1>3, <1>5, <1>7, <2>1, <3>1, Zenon
  <2>2. CASE ~(j <= Bytes!Count)
    <3>1. PICK d \in 1 .. k : d = j - Bytes!Count /\ j - 1 = Bytes!Count + (d - 1)
      BY <1>1, <2>2
    <3> QED
      BY <1>2, <1>3, <1>5, <1>7, <2>2, <3>1, Zenon
  <2> QED
    BY <2>1, <2>2, Zenon
<1>9. Bytes!Queue' = q
  BY <1>3, <1>5, <1>7, <1>8, SeqSame, Zenon
<1>10. Len(Bytes!Queue) + Len(s) <= PIPESIZE
  BY <1>1, <1>6, PipeSizesFacts, CounterFacts DEF PipeRing
<1> QED
  BY <1>4, <1>6, <1>7, <1>9, <1>10, Zenon

LEMMA TakeQueue ==
  ASSUME PipeSizes, PipeRing, NEW m \in Nat, m <= Bytes!Count,
         data' = data, nread' = Bytes!Plus(nread, m), nwrite' = nwrite
  PROVE  /\ PipeRing' /\ m <= Len(Bytes!Queue)
         /\ Bytes!Queue' = SubSeq(Bytes!Queue, m + 1, Len(Bytes!Queue))
<1>1. /\ Bytes!Queue \in Seq(Byte) /\ Len(Bytes!Queue) = Bytes!Count
      /\ Bytes!Count \in 0 .. PIPESIZE
      /\ \A j \in 1 .. Bytes!Count : Bytes!Queue[j] = data[Slot(j - 1)]
  BY QueueIs, Zenon
<1>2. Counters' /\ Bytes!Count' = Bytes!Count - m
  BY CountAfter, Zenon DEF PipeRing
<1>3. PipeRing'
  BY <1>2, Zenon DEF PipeRing
<1>4. /\ Bytes!Queue' \in Seq(Byte) /\ Len(Bytes!Queue') = Bytes!Count'
      /\ \A j \in 1 .. Bytes!Count' : Bytes!Queue'[j] = data[Bytes!Plus(nread', j - 1) % PIPESIZE]
  BY <1>3, QueueIsNext, Zenon DEF PipeSizes, Slot, Bytes!Plus
<1>5. ASSUME NEW j \in 1 .. Bytes!Count - m
      PROVE  Bytes!Plus(nread', j - 1) % PIPESIZE = Slot((m + j) - 1)
  <2>1. nread \in Nat /\ j - 1 \in Nat /\ m + (j - 1) = (m + j) - 1
    BY PipeSizesFacts DEF PipeRing, Counters
  <2>2. Bytes!Plus(Bytes!Plus(nread, m), j - 1) = Bytes!Plus(nread, m + (j - 1))
    BY <2>1, PipePlusPlus, Zenon
  <2> QED
    BY <2>1, <2>2, Zenon DEF Slot
<1>6. PICK q \in Seq(Byte) : /\ q = SubSeq(Bytes!Queue, m + 1, Len(Bytes!Queue))
                             /\ Len(q) = Bytes!Count - m
                             /\ \A j \in 1 .. Bytes!Count - m : q[j] = Bytes!Queue[m + j]
  <2>1. PICK p \in Seq(Byte) : p = Bytes!Queue
    BY <1>1, Zenon
  <2>2. Len(p) = Bytes!Count
    BY <1>1, <2>1, Zenon
  <2>3. /\ SubSeq(p, m + 1, Len(p)) \in Seq(Byte)
        /\ Len(SubSeq(p, m + 1, Len(p))) = Bytes!Count - m
        /\ \A j \in 1 .. Bytes!Count - m : SubSeq(p, m + 1, Len(p))[j] = p[m + j]
    BY <2>2, SubSeqIs
  <2> QED
    BY <2>1, <2>3, Zenon
<1>7. ASSUME NEW j \in 1 .. Bytes!Count - m PROVE Bytes!Queue'[j] = q[j]
  <2>1. m + j \in 1 .. Bytes!Count
    BY <1>1
  <2> QED
    BY <1>1, <1>2, <1>4, <1>5, <1>6, <2>1, Zenon
<1>8. Bytes!Queue' = q
  BY <1>2, <1>4, <1>6, <1>7, SeqSame, Zenon
<1> QED
  BY <1>1, <1>3, <1>6, <1>8

-----------------------------------------------------------------------------
(* The steps of the pipe are steps of a bounded queue.                     *)
Open == readopen \in BOOLEAN /\ writeopen \in BOOLEAN /\ freed = ~(readopen \/ writeopen)
PipeRInv == PipeRing /\ Open /\ left \in [Bytes!Thread -> Nat]
Queues == Bytes!Stream!Next \/ (Bytes!Contents' = Bytes!Contents /\ freed' = freed)

LEMMA SameQueues ==
  ASSUME PipeRInv, left' \in [Bytes!Thread -> Nat],
         UNCHANGED <<data, nread, nwrite, readopen, writeopen, freed>>
  PROVE  PipeRInv' /\ Queues
<1>1. PipeRing' /\ Open' /\ Bytes!Queue' = Bytes!Queue
  BY Zenon DEF PipeRInv, PipeRing, Open, Counters, Bytes!Count, Bytes!Queue, Bytes!Plus
<1> QED
  BY <1>1, Zenon DEF PipeRInv, Queues, Bytes!Contents

LEMMA StoreQueues ==
  ASSUME PipeSizes, PipeRInv, NEW t \in Writer, ~freed, Bytes!Store(t)
  PROVE  PipeRing' /\ Open' /\ Queues
<1>1. PICK k \in Nat : k = Bytes!Min(left[t], Bytes!Room) /\ k <= Bytes!Room /\ k <= PIPESIZE
  <2>1. left[t] \in Nat /\ Bytes!Room \in 0 .. PIPESIZE /\ PIPESIZE \in Nat
    BY PipeSizesFacts, CounterFacts DEF PipeRInv, PipeRing, Bytes!Thread
  <2> QED
    BY <2>1 DEF Bytes!Min
<1>2. PICK s \in [1 .. k -> Byte] :
        data' = Bytes!Stored(s) /\ nwrite' = Bytes!Plus(nwrite, k) /\ nread' = nread
  BY <1>1, Zenon DEF Bytes!Store
<1>3. UNCHANGED <<readopen, writeopen, freed>>
  BY Zenon DEF Bytes!Store
<1>4. /\ PipeRing' /\ Len(Bytes!Queue) + Len(s) <= PIPESIZE /\ Bytes!Queue' = Bytes!Queue \o s
      /\ Len(s) = k
  BY <1>1, <1>2, PutQueue, Zenon DEF PipeRInv
<1>5. Bytes!Contents = Bytes!Queue /\ Bytes!Contents' = Bytes!Queue' /\ ~freed' /\ freed' = freed
  BY <1>3, Zenon DEF Bytes!Contents
<1>6. CASE k = 0
  <2>1. Bytes!Queue \in Seq(Byte) /\ Len(Bytes!Queue) \in Nat
    BY QueueIs, PipeSizesFacts DEF PipeRInv
  <2>2. s = <<>>
    BY <1>2, <1>6
  <2>3. Bytes!Queue \o s = Bytes!Queue
    BY <2>1, <2>2, EmptyConcat, Zenon
  <2> QED
    BY <1>3, <1>4, <1>5, <2>3, Zenon DEF Open, PipeRInv, Queues
<1>7. CASE k # 0
  <2>1. k \in 1 .. PIPESIZE
    BY <1>1, <1>7, PipeSizesFacts
  <2>2. Bytes!Stream!Put(s)
    BY <1>4, <1>5, Zenon DEF Bytes!Stream!Put
  <2> QED
    BY <1>2, <1>3, <1>4, <2>1, <2>2, Zenon DEF Open, PipeRInv, Queues, Bytes!Stream!Next
<1> QED
  BY <1>6, <1>7, Zenon

LEMMA WriteQueues ==
  ASSUME PipeSizes, PipeRInv, NEW t \in Writer, Bytes!pipewrite(t)
  PROVE  PipeRInv' /\ Queues
<1>1. t \in Bytes!Thread /\ left[t] \in Nat /\ ~freed
  BY Zenon DEF PipeRInv, Bytes!Thread, Bytes!pipewrite, Bytes!WriteGivesUp, Bytes!WriteAll,
         Bytes!WriteBlocks, Bytes!WriteFails, Bytes!Runs
<1>2. left' \in [Bytes!Thread -> Nat]
  <2>1. Bytes!Room \in Nat
    BY PipeSizesFacts, CounterFacts DEF PipeRInv, PipeRing
  <2>2. CASE Bytes!WriteGivesUp(t)
    BY <1>1, <2>2 DEF PipeRInv, Bytes!WriteGivesUp
  <2>3. CASE Bytes!WriteAll(t)
    BY <1>1, <2>3 DEF PipeRInv, Bytes!WriteAll
  <2>4. CASE Bytes!WriteBlocks(t)
    BY <1>1, <2>1, <2>4 DEF PipeRInv, Bytes!WriteBlocks
  <2>5. CASE Bytes!WriteFails(t)
    BY <1>1, <2>1, <2>5 DEF PipeRInv, Bytes!WriteFails
  <2> QED
    BY <2>2, <2>3, <2>4, <2>5, Zenon DEF Bytes!pipewrite
<1>3. CASE Bytes!WriteGivesUp(t)
  <2>1. UNCHANGED <<data, nread, nwrite, readopen, writeopen, freed>>
    BY <1>3, Zenon DEF Bytes!WriteGivesUp, Bytes!pipe
  <2> QED
    BY <1>2, <2>1, SameQueues, Zenon
<1>4. CASE Bytes!Store(t)
  BY <1>1, <1>2, <1>4, StoreQueues, Zenon DEF PipeRInv
<1> QED
  BY <1>3, <1>4, Zenon DEF Bytes!pipewrite, Bytes!WriteAll, Bytes!WriteBlocks, Bytes!WriteFails

LEMMA ReadQueues ==
  ASSUME PipeSizes, PipeRInv, NEW t \in Reader, Bytes!piperead(t)
  PROVE  PipeRInv' /\ Queues
<1>1. t \in Bytes!Thread /\ left[t] \in Nat /\ ~freed
  BY Zenon DEF PipeRInv, Bytes!Thread, Bytes!piperead, Bytes!ReadBlocks, Bytes!ReadGivesUp,
         Bytes!Read, Bytes!Runs
<1>2. left' \in [Bytes!Thread -> Nat]
  BY <1>1 DEF PipeRInv, Bytes!piperead, Bytes!ReadBlocks, Bytes!ReadGivesUp, Bytes!Read
<1>3. CASE Bytes!ReadBlocks(t) \/ Bytes!ReadGivesUp(t)
  <2>1. UNCHANGED <<data, nread, nwrite, readopen, writeopen, freed>>
    BY <1>3, Zenon DEF Bytes!ReadBlocks, Bytes!ReadGivesUp, Bytes!pipe
  <2> QED
    BY <1>2, <2>1, SameQueues, Zenon
<1>4. CASE Bytes!Read(t)
  <2>1. PICK m \in Nat : m = Bytes!Min(left[t], Bytes!Count) /\ m <= Bytes!Count /\ m <= PIPESIZE
    BY <1>1, PipeSizesFacts, CounterFacts DEF PipeRInv, PipeRing, Bytes!Min
  <2>2. /\ nread' = Bytes!Plus(nread, m)
        /\ UNCHANGED <<data, nwrite, readopen, writeopen, freed>>
    BY <1>4, <2>1, Zenon DEF Bytes!Read
  <2>3. /\ PipeRing' /\ m <= Len(Bytes!Queue)
        /\ Bytes!Queue' = SubSeq(Bytes!Queue, m + 1, Len(Bytes!Queue))
    BY <2>1, <2>2, TakeQueue, Zenon DEF PipeRInv
  <2>4. /\ Bytes!Contents = Bytes!Queue /\ Bytes!Contents' = Bytes!Queue' /\ ~freed'
        /\ freed' = freed
    BY <1>1, <2>2, Zenon DEF Bytes!Contents
  <2>5. CASE m = 0
    <3>1. Bytes!Queue \in Seq(Byte)
      BY QueueIs, Zenon DEF PipeRInv
    <3>2. SubSeq(Bytes!Queue, m + 1, Len(Bytes!Queue)) = Bytes!Queue
      BY <2>5, <3>1, WholeSeq, Zenon
    <3> QED
      BY <1>2, <2>2, <2>3, <2>4, <3>2, Zenon DEF PipeRInv, Open, Queues
  <2>6. CASE m # 0
    <3>1. m \in 1 .. PIPESIZE
      BY <2>1, <2>6, PipeSizesFacts
    <3>2. Bytes!Stream!Take(m)
      BY <1>1, <2>3, <2>4, Zenon DEF Bytes!Stream!Take
    <3> QED
      BY <1>2, <2>2, <2>3, <3>1, <3>2, Zenon DEF PipeRInv, Open, Queues, Bytes!Stream!Next
  <2> QED
    BY <2>5, <2>6, Zenon
<1> QED
  BY <1>3, <1>4, Zenon DEF Bytes!piperead

LEMMA OtherQueues ==
  ASSUME PipeSizes, PipeRInv,
         \/ \E t \in Bytes!Thread : Bytes!Kill(t) \/ \E k \in 1 .. MaxBytes : Bytes!SysCall(t, k)
         \/ Bytes!CloseWrite \/ Bytes!CloseRead \/ UNCHANGED Bytes!vars
  PROVE  PipeRInv' /\ Queues
<1>1. left' \in [Bytes!Thread -> Nat]
  BY DEF PipeRInv, Bytes!Kill, Bytes!SysCall, Bytes!CloseWrite, Bytes!CloseRead, Bytes!vars
<1>2. CASE UNCHANGED Bytes!pipe
  <2>1. UNCHANGED <<data, nread, nwrite, readopen, writeopen, freed>>
    BY <1>2, Zenon DEF Bytes!pipe
  <2> QED
    BY <1>1, <2>1, SameQueues, Zenon
<1>3. CASE Bytes!CloseWrite \/ Bytes!CloseRead
  <2>1. ~freed /\ Open' /\ UNCHANGED <<data, nread, nwrite>>
    BY <1>3, Zenon DEF PipeRInv, Open, Bytes!CloseWrite, Bytes!CloseRead
  <2>2. PipeRing' /\ Bytes!Queue' = Bytes!Queue
    BY <2>1, Zenon DEF PipeRInv, PipeRing, Counters, Bytes!Count, Bytes!Queue, Bytes!Plus
  <2>3. CASE freed'
    <3>1. Bytes!Stream!Close
      BY <2>1, <2>3, Zenon DEF Bytes!Stream!Close, Bytes!Contents, Open
    <3> QED
      BY <1>1, <2>1, <2>2, <3>1, Zenon DEF PipeRInv, Queues, Bytes!Stream!Next
  <2>4. CASE ~freed'
    BY <1>1, <2>1, <2>2, <2>4, Zenon DEF PipeRInv, Queues, Bytes!Contents, Open
  <2> QED
    BY <2>3, <2>4, Zenon
<1> QED
  BY <1>2, <1>3, Zenon DEF Bytes!Kill, Bytes!SysCall, Bytes!vars

LEMMA PipeRInvInit == ASSUME PipeSizes, Bytes!Init PROVE PipeRInv /\ Bytes!Stream!Init
<1>1. Bytes!Count = 0 /\ Counters
  <2>1. Bytes!Count = 0
    BY PipeSizesFacts DEF Bytes!Init, Bytes!Count
  <2> QED
    BY <2>1, PipeInvInit, Zenon DEF PipeInv
<1>2. PipeRInv
  BY <1>1, Zenon DEF Bytes!Init, PipeRInv, PipeRing, Open
<1>3. Bytes!Queue \in Seq(Byte) /\ Len(Bytes!Queue) = 0
  BY <1>1, <1>2, QueueIs, Zenon DEF PipeRInv
<1>4. Bytes!Queue = <<>>
  BY <1>3
<1> QED
  BY <1>2, <1>4, Zenon DEF Bytes!Init, Bytes!Stream!Init, Bytes!Contents

LEMMA RInvStep == ASSUME PipeSizes, PipeRInv, [Bytes!Next]_(Bytes!vars) PROVE PipeRInv' /\ Queues
  BY WriteQueues, ReadQueues, OtherQueues, Zenon DEF Bytes!Next

(* The ring buffer and its unsigned counters implement a bounded queue:    *)
(* every byte comes out once and in order, whatever threads share the      *)
(* ends (pipe.c).                                                          *)
THEOREM PipeStream == ASSUME PipeSizes PROVE Bytes!Spec => Bytes!ImplementsStream
<1>1. Bytes!Init => PipeRInv /\ Bytes!Stream!Init
  BY PipeRInvInit, Zenon
<1>2. PipeRInv /\ [Bytes!Next]_(Bytes!vars)
        => PipeRInv' /\ [Bytes!Stream!Next]_<<Bytes!Contents, freed>>
  BY RInvStep, Zenon DEF Queues
<1>3. Bytes!Spec => Bytes!Stream!Init /\ [][Bytes!Stream!Next]_<<Bytes!Contents, freed>>
  BY <1>1, <1>2, PTL DEF Bytes!Spec
<1> QED
  BY <1>3 DEF Bytes!ImplementsStream, Bytes!Stream!Spec

(***************************************************************************)
(* Console.                                                                *)
(***************************************************************************)
ConsoleSizes ==
  /\ INPUT_BUF \in Nat \ {0} /\ \E m \in Nat : m >= 2 /\ INPUT_UINT = m * INPUT_BUF
  /\ Newline \in Char

(* Remainders.                                                             *)
-----------------------------------------------------------------------------
LEMMA ConsoleSizesFacts ==
  ASSUME ConsoleSizes
  PROVE  INPUT_BUF \in Nat \ {0} /\ INPUT_UINT \in Nat \ {0} /\ INPUT_BUF < INPUT_UINT
<1>1. PICK m \in Nat : m >= 2 /\ INPUT_UINT = m * INPUT_BUF
  BY Zenon DEF ConsoleSizes
<1>2. INPUT_BUF \in Nat \ {0}
  BY Zenon DEF ConsoleSizes
<1> QED
  BY <1>1, <1>2

LEMMA MinusIs ==
  ASSUME ConsoleSizes, NEW i \in Tty!Index, NEW j \in Tty!Index
  PROVE  /\ Tty!Minus(j, i) = IF j >= i THEN j - i ELSE j - i + INPUT_UINT
         /\ Tty!Minus(j, i) \in Tty!Index /\ Tty!Minus(j, i) \in Nat /\ i \in Nat /\ j \in Nat
<1>1. Tty!Minus(j, i) = IF j >= i THEN j - i ELSE j - i + INPUT_UINT
  BY ConsoleSizesFacts, ModMinus, Zenon DEF Tty!Minus, Tty!Index
<1> QED
  BY <1>1, ConsoleSizesFacts DEF Tty!Index

LEMMA PlusIs ==
  ASSUME ConsoleSizes, NEW i \in Tty!Index, NEW k \in 0 .. INPUT_UINT
  PROVE  /\ Tty!Plus(i, k) = IF i + k < INPUT_UINT THEN i + k ELSE i + k - INPUT_UINT
         /\ Tty!Plus(i, k) \in Tty!Index
<1>1. Tty!Plus(i, k) = IF i + k < INPUT_UINT THEN i + k ELSE i + k - INPUT_UINT
  BY ConsoleSizesFacts, ModPlus, Zenon DEF Tty!Plus, Tty!Index
<1> QED
  BY <1>1, ConsoleSizesFacts DEF Tty!Index

LEMMA PlusMinus ==
  ASSUME ConsoleSizes, NEW i \in Tty!Index, NEW j \in Tty!Index
  PROVE  Tty!Plus(i, Tty!Minus(j, i)) = j
<1>1. Tty!Minus(j, i) \in 0 .. INPUT_UINT /\ INPUT_UINT \in Nat
  BY MinusIs, ConsoleSizesFacts DEF Tty!Index
<1>2. /\ Tty!Minus(j, i) = IF j >= i THEN j - i ELSE j - i + INPUT_UINT
      /\ Tty!Plus(i, Tty!Minus(j, i)) =
          IF i + Tty!Minus(j, i) < INPUT_UINT
          THEN i + Tty!Minus(j, i) ELSE i + Tty!Minus(j, i) - INPUT_UINT
  BY <1>1, MinusIs, PlusIs, Zenon
<1> QED
  BY <1>1, <1>2 DEF Tty!Index

(* What is between two indexes when one of them moves.                     *)
LEMMA MoveFirst ==
  ASSUME ConsoleSizes, NEW i \in Tty!Index, NEW j \in Tty!Index, NEW k \in Nat,
         k <= Tty!Minus(j, i)
  PROVE  Tty!Plus(i, k) \in Tty!Index /\ Tty!Minus(j, Tty!Plus(i, k)) = Tty!Minus(j, i) - k
<1>1. INPUT_UINT \in Nat /\ k \in 0 .. INPUT_UINT
  BY MinusIs, ConsoleSizesFacts DEF Tty!Index
<1>2. PICK x \in Tty!Index : x = Tty!Plus(i, k) /\ x =
          IF i + k < INPUT_UINT THEN i + k ELSE i + k - INPUT_UINT
  BY <1>1, PlusIs, Zenon
<1>3. /\ Tty!Minus(j, i) = IF j >= i THEN j - i ELSE j - i + INPUT_UINT
      /\ Tty!Minus(j, x) = IF j >= x THEN j - x ELSE j - x + INPUT_UINT
  BY MinusIs, Zenon
<1>4. Tty!Minus(j, x) = Tty!Minus(j, i) - k
  BY <1>1, <1>2, <1>3 DEF Tty!Index
<1> QED
  BY <1>2, <1>4, Zenon

LEMMA MoveLast ==
  ASSUME ConsoleSizes, NEW i \in Tty!Index, NEW j \in Tty!Index, NEW k \in Nat,
         Tty!Minus(j, i) + k < INPUT_UINT
  PROVE  Tty!Plus(j, k) \in Tty!Index /\ Tty!Minus(Tty!Plus(j, k), i) = Tty!Minus(j, i) + k
<1>1. INPUT_UINT \in Nat /\ k \in 0 .. INPUT_UINT
  BY MinusIs, ConsoleSizesFacts DEF Tty!Index
<1>2. PICK x \in Tty!Index : x = Tty!Plus(j, k) /\ x =
          IF j + k < INPUT_UINT THEN j + k ELSE j + k - INPUT_UINT
  BY <1>1, PlusIs, Zenon
<1>3. /\ Tty!Minus(j, i) = IF j >= i THEN j - i ELSE j - i + INPUT_UINT
      /\ Tty!Minus(x, i) = IF x >= i THEN x - i ELSE x - i + INPUT_UINT
  BY MinusIs, Zenon
<1>4. Tty!Minus(x, i) = Tty!Minus(j, i) + k
  BY <1>1, <1>2, <1>3 DEF Tty!Index
<1> QED
  BY <1>2, <1>4, Zenon

LEMMA MoveBack ==
  ASSUME ConsoleSizes, NEW i \in Tty!Index, NEW j \in Tty!Index, NEW k \in Nat,
         k <= Tty!Minus(j, i)
  PROVE  Tty!Minus(j, k) \in Tty!Index /\ Tty!Minus(Tty!Minus(j, k), i) = Tty!Minus(j, i) - k
<1>1. INPUT_UINT \in Nat /\ k \in Tty!Index
  BY MinusIs, ConsoleSizesFacts DEF Tty!Index
<1>2. PICK x \in Tty!Index : x = Tty!Minus(j, k) /\ x =
          IF j >= k THEN j - k ELSE j - k + INPUT_UINT
  BY <1>1, MinusIs, Zenon
<1>3. /\ Tty!Minus(j, i) = IF j >= i THEN j - i ELSE j - i + INPUT_UINT
      /\ Tty!Minus(x, i) = IF x >= i THEN x - i ELSE x - i + INPUT_UINT
  BY MinusIs, Zenon
<1>4. Tty!Minus(x, i) = Tty!Minus(j, i) - k
  BY <1>1, <1>2, <1>3, SMTT(30) DEF Tty!Index
<1> QED
  BY <1>2, <1>4, Zenon

LEMMA ConsolePlusPlus ==
  ASSUME ConsoleSizes, NEW a \in Nat, NEW b \in Nat, NEW c \in Nat
  PROVE  Tty!Plus(Tty!Plus(a, b), c) = Tty!Plus(a, b + c)
<1>1. PICK x \in Int : x = a + b
  OBVIOUS
<1>2. ((x % INPUT_UINT) + c) % INPUT_UINT = (x + c) % INPUT_UINT
  <2>1. c \in Int
    OBVIOUS
  <2> QED
    BY <2>1, ConsoleSizesFacts, ModAdd, Zenon
<1>3. x + c = a + (b + c)
  BY <1>1
<1> QED
  BY <1>1, <1>2, <1>3, Zenon DEF Tty!Plus

(* The indexes: input from r to w, the line from w to e.                   *)
Indexes ==
  /\ r \in Tty!Index /\ w \in Tty!Index /\ e \in Tty!Index
  /\ Tty!Minus(w, r) + Tty!Minus(e, w) <= INPUT_BUF

LEMMA IndexFacts ==
  ASSUME ConsoleSizes, Indexes
  PROVE  /\ Tty!Minus(w, r) \in Nat /\ Tty!Minus(e, w) \in Nat
         /\ Tty!Minus(e, r) = Tty!Minus(w, r) + Tty!Minus(e, w)
         /\ (r = w <=> Tty!Minus(w, r) = 0) /\ (e = w <=> Tty!Minus(e, w) = 0)
         /\ INPUT_BUF \in Nat \ {0} /\ INPUT_UINT \in Nat \ {0} /\ INPUT_BUF < INPUT_UINT
<1>1. INPUT_BUF \in Nat \ {0} /\ INPUT_UINT \in Nat \ {0} /\ INPUT_BUF < INPUT_UINT
  BY ConsoleSizesFacts, Zenon
<1>2. /\ Tty!Minus(w, r) = IF w >= r THEN w - r ELSE w - r + INPUT_UINT
      /\ Tty!Minus(e, w) = IF e >= w THEN e - w ELSE e - w + INPUT_UINT
      /\ Tty!Minus(e, r) = IF e >= r THEN e - r ELSE e - r + INPUT_UINT
      /\ Tty!Minus(w, r) \in Nat /\ Tty!Minus(e, w) \in Nat
  BY MinusIs, Zenon DEF Indexes
<1>3. Tty!Minus(e, r) = Tty!Minus(w, r) + Tty!Minus(e, w)
  BY <1>1, <1>2 DEF Indexes, Tty!Index
<1>4. (r = w <=> Tty!Minus(w, r) = 0) /\ (e = w <=> Tty!Minus(e, w) = 0)
  BY <1>1, <1>2 DEF Indexes, Tty!Index
<1> QED
  BY <1>1, <1>2, <1>3, <1>4, Zenon

-----------------------------------------------------------------------------
(* A turn of a reader: it takes what is before the first stop, and the     *)
(* stop itself or not.                                                     *)
LEMMA LeastOf ==
  ASSUME NEW S, S \subseteq Nat, S # {}
  PROVE  \E i \in S : \A j \in 0 .. i - 1 : j \notin S
<1> DEFINE R == OpToRel(<, Nat)
<1>1. IsWellFoundedOn(R, Nat)
  BY NatLessThanWellFounded, Zenon
<1>2. \A x, y \in Nat : x < y => <<x, y>> \in R
  BY Zenon DEF OpToRel
<1> HIDE DEF R
<1>3. PICK i \in S : \A j \in S : ~(<<j, i>> \in R)
  BY <1>1, WFMin, Zenon
<1>4. \A j \in S : ~(j < i)
  BY <1>2, <1>3, Zenon
<1>5. \A j \in 0 .. i - 1 : j < i
  BY <1>3
<1> QED
  BY <1>4, <1>5, Zenon

LEMMA StopIs ==
  ASSUME Tty!Waiting \in Nat
  PROVE  /\ Tty!FirstStop \in 0 .. Tty!Waiting
         /\ (Tty!FirstStop = Tty!Waiting \/ Tty!Stops(Tty!FirstStop))
         /\ \A j \in 0 .. Tty!FirstStop - 1 : ~Tty!Stops(j)
<1> DEFINE S == {i \in 0 .. Tty!Waiting : i = Tty!Waiting \/ Tty!Stops(i)}
<1>1. Tty!Waiting \in S /\ S \subseteq Nat
  OBVIOUS
<1>2. PICK i \in S : \A j \in 0 .. i - 1 : j \notin S
  <2> HIDE DEF S
  <2> QED
    BY <1>1, LeastOf, Zenon
<1>3. i \in 0 .. Tty!Waiting /\ (i = Tty!Waiting \/ Tty!Stops(i))
  BY <1>2, Zenon
<1>4. \A j \in 0 .. i - 1 : j \in 0 .. Tty!Waiting
  BY <1>3
<1>5. \A j \in 0 .. i - 1 : ~Tty!Stops(j)
  BY <1>2, <1>4, Zenon
<1> QED
  BY <1>3, <1>5, Zenon DEF Tty!FirstStop
Taken(t) == Tty!Plain(t) + IF Tty!TakesStop(t) THEN 1 ELSE 0

LEMMA TakenIs ==
  ASSUME Tty!Waiting \in Nat, NEW t \in ConsoleReader, n[t] \in Nat
  PROVE  /\ Taken(t) \in Nat /\ Taken(t) <= Tty!Waiting /\ Taken(t) <= Tty!FirstStop + 1
         /\ Tty!FirstStop \in Nat
         /\ n[t] - Tty!Plain(t) \in Nat
         /\ ~Tty!Ends(t) /\ n[t] - Tty!Plain(t) # 0 => Taken(t) = Tty!Waiting
<1>1. Tty!FirstStop \in 0 .. Tty!Waiting
  BY StopIs, Zenon
<1>2. Tty!Plain(t) = IF Tty!FirstStop < n[t] THEN Tty!FirstStop ELSE n[t]
  BY Zenon DEF Tty!Plain
<1>3. Tty!Ends(t) <=> Tty!FirstStop < n[t] /\ Tty!FirstStop < Tty!Waiting
  BY Zenon DEF Tty!Ends
<1>4. (Tty!TakesStop(t) => Tty!Ends(t)) /\ Tty!TakesStop(t) \in BOOLEAN
  BY Zenon DEF Tty!TakesStop
<1>5. Taken(t) = Tty!Plain(t) + IF Tty!TakesStop(t) THEN 1 ELSE 0
  BY Zenon DEF Taken
<1> QED
  BY <1>1, <1>2, <1>3, <1>4, <1>5

Readers == n \in [ConsoleReader -> Nat] /\ cpc \in [ConsoleReader -> {"idle", "ready", "asleep"}]
ConsoleInv == Indexes /\ Readers /\ Tty!NoLostWakeup

LEMMA KillLineIs ==
  ASSUME ConsoleSizes, Indexes, Tty!KillLine
  PROVE  \E k \in 0 .. Tty!Minus(e, w) :
           /\ e' = Tty!Minus(e, k)
           /\ k = Tty!Minus(e, w) \/ Tty!At(Tty!Minus(e, k + 1)) = Newline
<1> DEFINE P(k) == k = Tty!Minus(e, w) \/ Tty!At(Tty!Minus(e, k + 1)) = Newline
           S == {k \in 0 .. Tty!Minus(e, w) : P(k)}
<1>1. Tty!Minus(e, w) \in Nat
  BY IndexFacts, Zenon
<1>2. Tty!Minus(e, w) \in S /\ S \subseteq Nat
  BY <1>1
<1>3. PICK i \in S : \A j \in 0 .. i - 1 : j \notin S
  <2> HIDE DEF S
  <2> QED
    BY <1>2, LeastOf, Zenon
<1>4. i \in 0 .. Tty!Minus(e, w) /\ P(i)
  BY <1>3, Zenon
<1>5. \A j \in 0 .. i - 1 : j \in 0 .. Tty!Minus(e, w)
  BY <1>1, <1>4
<1>6. \A j \in 0 .. i - 1 : Tty!At(Tty!Minus(e, j + 1)) # Newline
  BY <1>3, <1>5, Zenon
<1> QED
  BY <1>4, <1>6, Zenon DEF Tty!KillLine

LEMMA KeyboardInv == ASSUME ConsoleSizes, ConsoleInv, Tty!Keyboard PROVE ConsoleInv'
<1>1. /\ Tty!Minus(w, r) \in Nat /\ Tty!Minus(e, w) \in Nat
      /\ Tty!Minus(e, r) = Tty!Minus(w, r) + Tty!Minus(e, w)
      /\ INPUT_BUF \in Nat \ {0} /\ INPUT_UINT \in Nat \ {0} /\ INPUT_BUF < INPUT_UINT
      /\ r \in Tty!Index /\ w \in Tty!Index /\ e \in Tty!Index
      /\ Tty!Minus(w, r) + Tty!Minus(e, w) <= INPUT_BUF
  BY IndexFacts, Zenon DEF ConsoleInv, Indexes
<1>2. n' = n /\ r' = r
  BY Zenon DEF Tty!Keyboard, Tty!Key, Tty!Backspace, Tty!KillLine
<1>3. ASSUME NEW c \in Char, Tty!Key(c) PROVE ConsoleInv'
  <2>1. Tty!Minus(e, r) < INPUT_BUF /\ e' = Tty!Plus(e, 1)
    BY <1>3, Zenon DEF Tty!Key, Tty!HasRoom
  <2>2. Tty!Minus(e, r) + 1 < INPUT_UINT /\ Tty!Minus(e, w) + 1 < INPUT_UINT /\ 1 \in Nat
    BY <1>1, <2>1
  <2>3. /\ e' \in Tty!Index /\ Tty!Minus(e', r) = Tty!Minus(e, r) + 1
        /\ Tty!Minus(e', w) = Tty!Minus(e, w) + 1
    BY <1>1, <2>1, <2>2, MoveLast, Zenon
  <2>4. CASE Tty!Complete(c, Tty!Plus(e, 1))
    <3>1. w' = e' /\ cpc' = [t \in ConsoleReader |-> IF cpc[t] = "asleep" THEN "ready" ELSE cpc[t]]
      BY <1>3, <2>1, <2>4, Zenon DEF Tty!Key, Tty!wakeup
    <3>2. Tty!Minus(e', e') = 0
      BY <1>1, <2>3, MinusIs, SMTT(30)
    <3>3. Indexes'
      BY <1>1, <1>2, <2>1, <2>3, <3>1, <3>2 DEF Indexes, Tty!Minus, Tty!Index
    <3>4. Readers' /\ Tty!NoLostWakeup'
      BY <1>2, <3>1, Zenon DEF ConsoleInv, Readers, Tty!NoLostWakeup
    <3> QED
      BY <3>3, <3>4, Zenon DEF ConsoleInv
  <2>5. CASE ~Tty!Complete(c, Tty!Plus(e, 1))
    <3>1. w' = w /\ cpc' = cpc
      BY <1>3, <2>5, Zenon DEF Tty!Key
    <3>2. Indexes'
      BY <1>1, <1>2, <2>1, <2>3, <3>1 DEF Indexes, Tty!Minus, Tty!Index
    <3>3. Readers' /\ Tty!NoLostWakeup'
      BY <1>2, <3>1, Zenon DEF ConsoleInv, Readers, Tty!NoLostWakeup
    <3> QED
      BY <3>2, <3>3, Zenon DEF ConsoleInv
  <2> QED
    BY <2>4, <2>5, Zenon
<1>4. ASSUME NEW k \in Nat, k <= Tty!Minus(e, w), e' = Tty!Minus(e, k), w' = w, cpc' = cpc
      PROVE  ConsoleInv'
  <2>1. e' \in Tty!Index /\ Tty!Minus(e', w) = Tty!Minus(e, w) - k
    BY <1>1, <1>4, MoveBack, Zenon
  <2>2. Indexes'
    BY <1>1, <1>2, <1>4, <2>1 DEF Indexes, Tty!Minus, Tty!Index
  <2>3. Readers' /\ Tty!NoLostWakeup'
    BY <1>2, <1>4, Zenon DEF ConsoleInv, Readers, Tty!NoLostWakeup
  <2> QED
    BY <2>2, <2>3, Zenon DEF ConsoleInv
<1>5. CASE Tty!Backspace
  <2>1. 1 \in Nat /\ 1 <= Tty!Minus(e, w)
    BY <1>1, <1>5, IndexFacts DEF Tty!Backspace, ConsoleInv
  <2> QED
    BY <1>4, <1>5, <2>1, Zenon DEF Tty!Backspace
<1>6. CASE Tty!KillLine
  <2>1. PICK k \in 0 .. Tty!Minus(e, w) : e' = Tty!Minus(e, k)
    BY <1>6, KillLineIs, Zenon DEF ConsoleInv
  <2>2. k \in Nat /\ k <= Tty!Minus(e, w)
    BY <1>1
  <2> QED
    BY <1>4, <1>6, <2>1, <2>2, Zenon DEF Tty!KillLine
<1> QED
  BY <1>3, <1>5, <1>6, Zenon DEF Tty!Keyboard

LEMMA TurnInv ==
  ASSUME ConsoleSizes, ConsoleInv, NEW t \in ConsoleReader, Tty!Turn(t)
  PROVE  ConsoleInv'
<1>1. /\ Tty!Minus(w, r) \in Nat /\ Tty!Minus(e, w) \in Nat /\ Tty!Waiting = Tty!Minus(w, r)
      /\ r \in Tty!Index /\ w \in Tty!Index /\ e \in Tty!Index
      /\ Tty!Minus(w, r) + Tty!Minus(e, w) <= INPUT_BUF
      /\ INPUT_BUF \in Nat
  BY IndexFacts, Zenon DEF ConsoleInv, Indexes, Tty!Waiting
<1>2. PICK k \in Nat : /\ k = Taken(t) /\ k <= Tty!Waiting /\ n[t] - Tty!Plain(t) \in Nat
                       /\ ~Tty!Ends(t) /\ n[t] - Tty!Plain(t) # 0 => k = Tty!Waiting
  BY <1>1, TakenIs, Zenon DEF ConsoleInv, Readers
<1>3. /\ r' = Tty!Plus(r, k) /\ w' = w /\ e' = e /\ n' = [n EXCEPT ![t] = n[t] - Tty!Plain(t)]
  BY <1>2, Zenon DEF Tty!Turn, Taken
<1>4. r' \in Tty!Index /\ Tty!Minus(w, r') = Tty!Minus(w, r) - k
  BY <1>1, <1>2, <1>3, MoveFirst, Zenon
<1>5. Indexes'
  BY <1>1, <1>2, <1>3, <1>4, SMTT(30) DEF Indexes, Tty!Minus, Tty!Index
<1>6. Readers'
  BY <1>2, <1>3, Zenon DEF ConsoleInv, Readers, Tty!Turn, Tty!Return, Tty!Sleep
<1>7. \A u \in ConsoleReader : cpc[u] # "asleep"
  BY Zenon DEF ConsoleInv, Tty!NoLostWakeup, Tty!Turn
<1>8. ASSUME NEW u \in ConsoleReader, cpc'[u] = "asleep" PROVE r' = w'
  <2>1. n'[t] = n[t] - Tty!Plain(t)
    BY <1>3, Zenon DEF ConsoleInv, Readers
  <2>2. ~Tty!Ends(t) /\ n[t] - Tty!Plain(t) # 0
    BY <1>7, <1>8, <2>1, Zenon DEF ConsoleInv, Readers, Tty!Turn, Tty!Return, Tty!Sleep
  <2>3. Tty!Minus(w, r') = 0
    BY <1>1, <1>2, <1>4, <2>2
  <2>4. Tty!Plus(r', 0) = w
    BY <1>1, <1>4, <2>3, PlusMinus, Zenon
  <2>5. r' = w
    BY <1>4, <2>4, PlusIs, ConsoleSizesFacts DEF Tty!Index
  <2> QED
    BY <1>3, <2>5, Zenon
<1> QED
  BY <1>5, <1>6, <1>8, Zenon DEF ConsoleInv, Tty!NoLostWakeup

LEMMA ConsoleOtherInv ==
  ASSUME ConsoleInv,
         \/ \E t \in ConsoleReader :
              Tty!Wait(t) \/ Tty!Kill(t) \/ \E k \in 1 .. MaxRead : Tty!Call(t, k)
         \/ UNCHANGED Tty!vars
  PROVE  ConsoleInv'
<1>1. UNCHANGED <<r, w, e>>
  BY Zenon DEF Tty!Wait, Tty!Kill, Tty!Call, Tty!vars, Tty!input
<1>2. Indexes'
  BY <1>1, Zenon DEF ConsoleInv, Indexes, Tty!Minus
<1>3. Readers'
  BY DEF ConsoleInv, Readers, Tty!Wait, Tty!Kill, Tty!Call, Tty!Return, Tty!Sleep, Tty!vars
<1>4. Tty!NoLostWakeup'
  BY <1>1, Zenon DEF ConsoleInv, Readers, Tty!NoLostWakeup, Tty!Wait, Tty!Kill, Tty!Call,
         Tty!Return, Tty!Sleep, Tty!vars
<1> QED
  BY <1>2, <1>3, <1>4, Zenon DEF ConsoleInv

LEMMA ConsoleInvInit == ASSUME ConsoleSizes, Tty!Init PROVE ConsoleInv
<1>1. r = 0 /\ w = 0 /\ e = 0 /\ 0 \in Tty!Index
  BY ConsoleSizesFacts DEF Tty!Init, Tty!Index
<1>2. Tty!Minus(0, 0) = 0
  BY <1>1, MinusIs
<1>3. Indexes
  BY <1>1, <1>2, ConsoleSizesFacts DEF Indexes
<1>4. Readers /\ Tty!NoLostWakeup
  BY DEF Tty!Init, Readers, Tty!NoLostWakeup
<1> QED
  BY <1>3, <1>4, Zenon DEF ConsoleInv

LEMMA ConsoleInvStep == ASSUME ConsoleSizes, ConsoleInv, [Tty!Next]_(Tty!vars) PROVE ConsoleInv'
  BY KeyboardInv, TurnInv, ConsoleOtherInv, Zenon DEF Tty!Next

-----------------------------------------------------------------------------
(* The ring.  The characters from r to e have places of their own.         *)
Place(j) == Tty!Plus(r, j) % INPUT_BUF
ConsoleRing == Indexes /\ buf \in [0 .. INPUT_BUF - 1 -> Char]

LEMMA AtIs ==
  ASSUME ConsoleSizes, buf \in [0 .. INPUT_BUF - 1 -> Char], NEW i \in Int
  PROVE  Tty!At(i) \in Char /\ i % INPUT_BUF \in 0 .. INPUT_BUF - 1
<1>1. i % INPUT_BUF \in 0 .. INPUT_BUF - 1
  BY ConsoleSizesFacts, ModEx, Zenon
<1> QED
  BY <1>1, Zenon DEF Tty!At

LEMMA PlaceIs ==
  ASSUME ConsoleSizes, r \in Tty!Index, NEW j \in Nat
  PROVE  Place(j) = (r + j) % INPUT_BUF
<1>1. PICK m \in Nat \ {0} : INPUT_UINT = m * INPUT_BUF
  BY DEF ConsoleSizes
<1>2. INPUT_BUF \in Nat \ {0} /\ r \in Int
  BY ConsoleSizesFacts DEF Tty!Index
<1>3. PICK x \in Int : x = r + j
  BY <1>2
<1>4. (x % (m * INPUT_BUF)) % INPUT_BUF = x % INPUT_BUF
  BY <1>2, ModMod, Zenon
<1> QED
  BY <1>1, <1>3, <1>4, Zenon DEF Place, Tty!Plus

LEMMA PlaceOne ==
  ASSUME ConsoleSizes, r \in Tty!Index, NEW i \in 0 .. INPUT_BUF - 1,
         NEW j \in 0 .. INPUT_BUF - 1,
         Place(i) = Place(j)
  PROVE  i = j
<1>1. INPUT_BUF \in Nat \ {0} /\ r \in Int /\ i \in Nat /\ j \in Nat
  BY ConsoleSizesFacts DEF Tty!Index
<1>2. PICK x \in Int, y \in Int : x = r + i /\ y = r + j
  BY <1>1
<1>3. x % INPUT_BUF = y % INPUT_BUF
  BY <1>1, <1>2, PlaceIs, Zenon
<1>4. x < y + INPUT_BUF /\ y < x + INPUT_BUF
  BY <1>1, <1>2
<1>5. x = y
  <2>1. CASE x <= y
    BY <1>1, <1>3, <1>4, <2>1, ModSame, Zenon
  <2>2. CASE y <= x
    BY <1>1, <1>3, <1>4, <2>2, ModSame, Zenon
  <2> QED
    BY <2>1, <2>2
<1> QED
  BY <1>1, <1>2, <1>5

(* The sequences of the refinement mapping.                                *)
LEMMA CharsIs ==
  ASSUME ConsoleSizes, buf \in [0 .. INPUT_BUF - 1 -> Char], NEW i \in Tty!Index,
         NEW j \in Tty!Index
  PROVE  /\ Tty!Chars(i, j) \in Seq(Char) /\ Len(Tty!Chars(i, j)) = Tty!Minus(j, i)
         /\ Tty!Minus(j, i) \in Nat
         /\ \A k \in 1 .. Tty!Minus(j, i) : Tty!Chars(i, j)[k] = Tty!At(Tty!Plus(i, k - 1))
<1>1. PICK m \in Nat : m = Tty!Minus(j, i)
  BY MinusIs, Zenon
<1>2. ASSUME NEW k \in 1 .. m PROVE Tty!At(Tty!Plus(i, k - 1)) \in Char
  <2>1. i + (k - 1) \in Int /\ INPUT_UINT \in Nat \ {0}
    BY ConsoleSizesFacts DEF Tty!Index
  <2>2. Tty!Plus(i, k - 1) \in Int
    BY <2>1, ModEx DEF Tty!Plus
  <2> QED
    BY <2>2, AtIs, Zenon
<1>3. Tty!Chars(i, j) = [k \in 1 .. m |-> Tty!At(Tty!Plus(i, k - 1))]
  BY <1>1, Zenon DEF Tty!Chars
<1> HIDE DEF Tty!Chars
<1>4. /\ Tty!Chars(i, j) \in Seq(Char) /\ Len(Tty!Chars(i, j)) = m
      /\ \A k \in 1 .. m : Tty!Chars(i, j)[k] = Tty!At(Tty!Plus(i, k - 1))
  BY <1>2, <1>3
<1> QED
  BY <1>1, <1>4, Zenon

(* The line, counted from r.                                               *)
LEMMA LineAt ==
  ASSUME ConsoleSizes, Indexes, NEW k \in Nat
  PROVE  Tty!Plus(w, k) = Tty!Plus(r, Tty!Minus(w, r) + k)
<1>1. r \in Nat /\ Tty!Minus(w, r) \in Nat /\ Tty!Plus(r, Tty!Minus(w, r)) = w
  BY MinusIs, PlusMinus, Zenon DEF Indexes
<1>2. Tty!Plus(Tty!Plus(r, Tty!Minus(w, r)), k) = Tty!Plus(r, Tty!Minus(w, r) + k)
  BY <1>1, ConsolePlusPlus, Zenon
<1> QED
  BY <1>1, <1>2, Zenon

(* A key goes to a place of its own.                                       *)
LEMMA KeyPlace ==
  ASSUME ConsoleSizes, ConsoleRing, NEW c \in Char, Tty!Key(c)
  PROVE  /\ buf' \in [0 .. INPUT_BUF - 1 -> Char] /\ buf'[e % INPUT_BUF] = c
         /\ \A j \in 0 .. Tty!Minus(e, r) - 1 : buf'[Place(j)] = buf[Place(j)]
<1>1. /\ Tty!Minus(e, r) \in Nat /\ Tty!Minus(e, r) < INPUT_BUF /\ INPUT_BUF \in Nat
      /\ r \in Tty!Index /\ e \in Tty!Index /\ Tty!Plus(r, Tty!Minus(e, r)) = e
  BY MinusIs, PlusMinus, ConsoleSizesFacts, Zenon DEF ConsoleRing, Indexes, Tty!Key, Tty!HasRoom
<1>2. e % INPUT_BUF = Place(Tty!Minus(e, r)) /\ e \in Int
  BY <1>1, MinusIs DEF Place, Tty!Index
<1>3. e % INPUT_BUF \in 0 .. INPUT_BUF - 1
  BY <1>2, AtIs, Zenon DEF ConsoleRing
<1>4. buf' = [buf EXCEPT ![e % INPUT_BUF] = c]
  BY Zenon DEF Tty!Key
<1>5. ASSUME NEW j \in 0 .. Tty!Minus(e, r) - 1 PROVE buf'[Place(j)] = buf[Place(j)]
  <2>1. /\ j \in 0 .. INPUT_BUF - 1 /\ Tty!Minus(e, r) \in 0 .. INPUT_BUF - 1
        /\ j # Tty!Minus(e, r)
        /\ r + j \in Int /\ j \in Nat
    BY <1>1 DEF Tty!Index
  <2>2. Place(j) # e % INPUT_BUF
    BY <1>1, <1>2, <2>1, PlaceOne, Zenon
  <2>3. Place(j) \in 0 .. INPUT_BUF - 1
    BY <1>1, <2>1, PlaceIs, AtIs, Zenon DEF ConsoleRing
  <2> QED
    BY <1>4, <2>2, <2>3, Zenon DEF ConsoleRing
<1> QED
  BY <1>3, <1>4, <1>5, Zenon DEF ConsoleRing

-----------------------------------------------------------------------------
(* The steps of the console are steps of the terminal.  The line holds no  *)
(* end of a line: that is why ^U, which stops at one, rubs all of it out.  *)
Input == Tty!Chars(r, w)
Line == Tty!Chars(w, e)
Mapped ==
  /\ Input \in Seq(Char) /\ Len(Input) = Tty!Minus(w, r) /\ Tty!Minus(w, r) \in Nat
  /\ \A k \in 1 .. Tty!Minus(w, r) : Input[k] = buf[Place(k - 1)]
  /\ Line \in Seq(Char) /\ Len(Line) = Tty!Minus(e, w) /\ Tty!Minus(e, w) \in Nat
  /\ \A k \in 1 .. Tty!Minus(e, w) : Line[k] = buf[Place(Tty!Minus(w, r) + (k - 1))]
Clean == \A k \in 1 .. Len(Line) : Line[k] # Newline
ConsoleRInv == ConsoleRing /\ n \in [ConsoleReader -> Nat] /\ Clean
Typed == Tty!T!Next \/ (Input' = Input /\ Line' = Line)

LEMMA MappedIs == ConsoleSizes /\ ConsoleRing => Mapped
<1> SUFFICES ASSUME ConsoleSizes, ConsoleRing PROVE Mapped
  OBVIOUS
<1>1. /\ Input \in Seq(Char) /\ Len(Input) = Tty!Minus(w, r) /\ Tty!Minus(w, r) \in Nat
      /\ \A k \in 1 .. Tty!Minus(w, r) : Input[k] = Tty!At(Tty!Plus(r, k - 1))
      /\ Line \in Seq(Char) /\ Len(Line) = Tty!Minus(e, w) /\ Tty!Minus(e, w) \in Nat
      /\ \A k \in 1 .. Tty!Minus(e, w) : Line[k] = Tty!At(Tty!Plus(w, k - 1))
  BY CharsIs, Zenon DEF ConsoleRing, Indexes, Input, Line
<1>2. ASSUME NEW k \in 1 .. Tty!Minus(e, w)
      PROVE  Tty!At(Tty!Plus(w, k - 1)) = buf[Place(Tty!Minus(w, r) + (k - 1))]
  <2>1. k - 1 \in Nat
    BY <1>1
  <2>2. Tty!Plus(w, k - 1) = Tty!Plus(r, Tty!Minus(w, r) + (k - 1))
    BY <2>1, LineAt, Zenon DEF ConsoleRing
  <2> QED
    BY <2>2, Zenon DEF Tty!At, Place
<1> QED
  BY <1>1, <1>2, Zenon DEF Mapped, Tty!At, Place

LEMMA MappedNext == (ConsoleSizes /\ ConsoleRing => Mapped)'
  BY MappedIs, PTL

LEMMA KeyTyped ==
  ASSUME ConsoleSizes, ConsoleRInv, Indexes', NEW c \in Char, Tty!Key(c)
  PROVE  ConsoleRInv' /\ Typed
<1>1. PICK p \in Seq(Char), l \in Seq(Char) :
        /\ p = Input /\ l = Line /\ Len(p) = Tty!Minus(w, r) /\ Len(l) = Tty!Minus(e, w)
        /\ \A k \in 1 .. Tty!Minus(w, r) : p[k] = buf[Place(k - 1)]
        /\ \A k \in 1 .. Tty!Minus(e, w) : l[k] = buf[Place(Tty!Minus(w, r) + (k - 1))]
  BY MappedIs, Zenon DEF ConsoleRInv, Mapped
<1>2. PICK a \in Nat, b \in Nat :
        /\ a = Tty!Minus(w, r) /\ b = Tty!Minus(e, w) /\ a + b = Tty!Minus(e, r)
        /\ a + b < INPUT_BUF
  BY IndexFacts DEF ConsoleRInv, ConsoleRing, Tty!Key, Tty!HasRoom
<1>3. /\ buf' \in [0 .. INPUT_BUF - 1 -> Char] /\ buf'[e % INPUT_BUF] = c
      /\ \A j \in 0 .. (a + b) - 1 : buf'[Place(j)] = buf[Place(j)]
  BY <1>2, KeyPlace, Zenon DEF ConsoleRInv
<1>4. e % INPUT_BUF = Place(a + b)
  BY <1>2, PlusMinus, Zenon DEF ConsoleRInv, ConsoleRing, Indexes, Place
<1>5. ConsoleRing' /\ n' = n /\ r' = r /\ e' = Tty!Plus(e, 1)
  BY <1>3, Zenon DEF ConsoleRing, Tty!Key
<1>6. INPUT_BUF \in Nat \ {0} /\ INPUT_UINT \in Nat \ {0} /\ INPUT_BUF < INPUT_UINT /\ 1 \in Nat
  BY ConsoleSizesFacts
<1>7. e' \in Tty!Index /\ Tty!Minus(e', r) = (a + b) + 1 /\ Tty!Minus(e', w) = b + 1
  <2>1. Tty!Minus(e, r) + 1 < INPUT_UINT /\ Tty!Minus(e, w) + 1 < INPUT_UINT
    BY <1>2, <1>6, SMTT(30)
  <2>2. r \in Tty!Index /\ w \in Tty!Index /\ e \in Tty!Index
    BY Zenon DEF ConsoleRInv, ConsoleRing, Indexes
  <2>3. /\ Tty!Plus(e, 1) \in Tty!Index /\ Tty!Minus(Tty!Plus(e, 1), r) = Tty!Minus(e, r) + 1
        /\ Tty!Minus(Tty!Plus(e, 1), w) = Tty!Minus(e, w) + 1
    BY <1>6, <2>1, <2>2, MoveLast, Zenon
  <2> QED
    BY <1>2, <1>5, <2>3, Zenon
<1>8. Tty!Complete(c, Tty!Plus(e, 1)) <=> c \in {Newline, EOF} \/ a + b + 1 = INPUT_BUF
  <2>1. Tty!Plus(e, 1) = Tty!Plus(r, INPUT_BUF) <=> (a + b) + 1 = INPUT_BUF
    <3>1. Tty!Plus(r, (a + b) + 1) = e'
      <4>1. r \in Tty!Index
        BY Zenon DEF ConsoleRInv, ConsoleRing, Indexes
      <4>2. Tty!Plus(r, Tty!Minus(e', r)) = e'
        BY <1>7, <4>1, PlusMinus, Zenon
      <4> QED
        BY <1>7, <4>2, Zenon
    <3>2. PICK x \in Nat, y \in Nat : x = (a + b) + 1 /\ y = INPUT_BUF /\ x <= y /\ y < INPUT_UINT
      BY <1>2, <1>6
    <3>3. /\ Tty!Plus(r, x) = (IF r + x < INPUT_UINT THEN r + x ELSE r + x - INPUT_UINT)
          /\ Tty!Plus(r, y) = (IF r + y < INPUT_UINT THEN r + y ELSE r + y - INPUT_UINT)
      <4>1. x \in 0 .. INPUT_UINT /\ y \in 0 .. INPUT_UINT
        BY <1>6, <3>2
      <4> QED
        BY <4>1, PlusIs, Zenon DEF ConsoleRInv, ConsoleRing, Indexes
    <3>4. Tty!Plus(r, x) = Tty!Plus(r, y) <=> x = y
      <4>1. r \in 0 .. INPUT_UINT - 1
        BY Zenon DEF ConsoleRInv, ConsoleRing, Indexes, Tty!Index
      <4>2. PICK X, Y : X = Tty!Plus(r, x) /\ Y = Tty!Plus(r, y)
        OBVIOUS
      <4>3. /\ X = (IF r + x < INPUT_UINT THEN r + x ELSE r + x - INPUT_UINT)
            /\ Y = (IF r + y < INPUT_UINT THEN r + y ELSE r + y - INPUT_UINT)
        BY <3>3, <4>2, Zenon
      <4>4. X = Y <=> x = y
        BY <1>6, <3>2, <4>1, <4>3
      <4> QED
        BY <4>2, <4>4, Zenon
    <3> QED
      BY <1>5, <3>1, <3>2, <3>4, Zenon
  <2> QED
    BY <2>1, Zenon DEF Tty!Complete
<1>9. /\ Input' \in Seq(Char) /\ Len(Input') = Tty!Minus(w', r)
      /\ \A k \in 1 .. Tty!Minus(w', r) : Input'[k] = buf'[Place(k - 1)]
      /\ Line' \in Seq(Char) /\ Len(Line') = Tty!Minus(e', w')
      /\ \A k \in 1 .. Tty!Minus(e', w') : Line'[k] = buf'[Place(Tty!Minus(w', r) + (k - 1))]
  BY <1>5, MappedNext, Zenon DEF Mapped, ConsoleSizes, Place, Tty!Plus, Tty!Minus
<1>10. Append(l, c) \in Seq(Char) /\ Len(Append(l, c)) = b + 1
       /\ \A k \in 1 .. b + 1 : Append(l, c)[k] = buf'[Place(a + (k - 1))]
  <2>1. /\ Append(l, c) \in Seq(Char) /\ Len(Append(l, c)) = b + 1
        /\ \A k \in 1 .. b + 1 : Append(l, c)[k] = IF k <= b THEN l[k] ELSE c
    <3>1. Len(l) = b
      BY <1>1, <1>2, Zenon
    <3>2. /\ Append(l, c) \in Seq(Char) /\ Len(Append(l, c)) = Len(l) + 1
          /\ \A k \in 1 .. Len(l) + 1 : Append(l, c)[k] = IF k <= Len(l) THEN l[k] ELSE c
      BY AppendIs, Zenon
    <3> QED
      BY <3>1, <3>2, Zenon
  <2>2. ASSUME NEW k \in 1 .. b + 1 PROVE Append(l, c)[k] = buf'[Place(a + (k - 1))]
    <3>1. CASE k <= b
      <4>1. k \in 1 .. b /\ a + (k - 1) \in 0 .. (a + b) - 1
        BY <3>1
      <4> QED
        BY <1>1, <1>2, <1>3, <2>1, <3>1, <4>1, Zenon
    <3>2. CASE ~(k <= b)
      <4>1. a + (k - 1) = a + b
        BY <3>2
      <4> QED
        BY <1>3, <1>4, <2>1, <3>2, <4>1, Zenon
    <3> QED
      BY <3>1, <3>2, Zenon
  <2> QED
    BY <2>1, <2>2, Zenon
<1>11. CASE Tty!Complete(c, Tty!Plus(e, 1))
  <2>1. w' = e'
    BY <1>5, <1>11, Zenon DEF Tty!Key
  <2>2. Tty!Minus(e', w') = 0
    BY <1>7, <2>1, MinusIs, SMTT(30)
  <2>3. Line' = <<>>
    BY <1>9, <2>2
  <2>4. PICK q \in Seq(Char) :
          /\ q = p \o Append(l, c) /\ Len(q) = (a + b) + 1
          /\ \A k \in 1 .. (a + b) + 1 : q[k] = IF k <= a THEN p[k] ELSE Append(l, c)[k - a]
    <3>1. PICK z \in Seq(Char) : z = Append(l, c) /\ Len(z) = b + 1
      BY <1>10, Zenon
    <3>2. /\ p \o z \in Seq(Char) /\ Len(p \o z) = (a + b) + 1
          /\ \A k \in 1 .. (a + b) + 1 : (p \o z)[k] = IF k <= a THEN p[k] ELSE z[k - a]
      <4>1. Len(p) = a /\ Len(z) = b + 1 /\ Len(p) + Len(z) = (a + b) + 1
        <5>1. Len(p) = a
          BY <1>1, <1>2, Zenon
        <5> QED
          BY <3>1, <5>1
      <4>2. /\ p \o z \in Seq(Char) /\ Len(p \o z) = Len(p) + Len(z)
            /\ \A i \in 1 .. Len(p) + Len(z) : (p \o z)[i] =
                IF i <= Len(p) THEN p[i] ELSE z[i - Len(p)]
        BY ConcatIs, Zenon
      <4>3. PICK m : m = Len(p) + Len(z)
        OBVIOUS
      <4>4. /\ m = (a + b) + 1 /\ Len(p \o z) = m
            /\ \A i \in 1 .. m : (p \o z)[i] = IF i <= a THEN p[i] ELSE z[i - a]
        BY <4>1, <4>2, <4>3, Zenon
      <4> QED
        BY <4>2, <4>4, Zenon
    <3> QED
      BY <3>1, <3>2, Zenon
  <2>5. ASSUME NEW k \in 1 .. (a + b) + 1 PROVE Input'[k] = q[k]
    <3>1. Input'[k] = buf'[Place(k - 1)]
      BY <1>7, <1>9, <2>1, Zenon
    <3>2. CASE k <= a
      <4>1. k \in 1 .. a /\ k - 1 \in 0 .. (a + b) - 1
        BY <3>2
      <4> QED
        BY <1>1, <1>2, <1>3, <2>4, <3>1, <3>2, <4>1, Zenon
    <3>3. CASE ~(k <= a)
      <4>1. k - a \in 1 .. b + 1 /\ a + ((k - a) - 1) = k - 1
        BY <3>3
      <4> QED
        BY <1>10, <2>4, <3>1, <3>3, <4>1, Zenon
    <3> QED
      BY <3>2, <3>3, Zenon
  <2>6. Input' = Input \o Append(Line, c)
    <3>1. Input' = q
      BY <1>7, <1>9, <2>1, <2>4, <2>5, SeqSame, Zenon
    <3> QED
      BY <1>1, <2>4, <3>1, Zenon
  <2>7. Tty!T!TypeChar(c)
    <3>1. Len(Input) + Len(Line) < INPUT_BUF /\ Len(Input) + Len(Line) + 1 = a + b + 1
      BY <1>1, <1>2
    <3> QED
      BY <1>8, <1>11, <2>3, <2>6, <3>1, Zenon DEF Tty!T!TypeChar, Input, Line
  <2>8. Clean'
    BY <2>3 DEF Clean
  <2> QED
    BY <1>5, <2>7, <2>8, Zenon DEF ConsoleRInv, Typed, Tty!T!Next
<1>12. CASE ~Tty!Complete(c, Tty!Plus(e, 1))
  <2>1. w' = w
    BY <1>12, Zenon DEF Tty!Key
  <2>2. Input' = p
    <3>1. ASSUME NEW k \in 1 .. a PROVE Input'[k] = p[k]
      <4>1. k - 1 \in 0 .. (a + b) - 1
        OBVIOUS
      <4> QED
        BY <1>1, <1>2, <1>3, <1>9, <2>1, <4>1, Zenon
    <3> QED
      BY <1>1, <1>2, <1>9, <2>1, <3>1, SeqSame, Zenon
  <2>3. Line' = Append(l, c)
    <3>1. \A k \in 1 .. b + 1 : Line'[k] = Append(l, c)[k]
      BY <1>2, <1>7, <1>9, <1>10, <2>1, Zenon
    <3> QED
      BY <1>7, <1>9, <1>10, <2>1, <3>1, SeqSame, Zenon
  <2>4. Tty!T!TypeChar(c)
    <3>1. Len(Input) + Len(Line) < INPUT_BUF /\ Len(Input) + Len(Line) + 1 = a + b + 1
      BY <1>1, <1>2
    <3> QED
      BY <1>1, <1>8, <1>12, <2>2, <2>3, <3>1, Zenon DEF Tty!T!TypeChar, Input, Line
  <2>5. Clean'
    <3>1. c # Newline /\ \A k \in 1 .. b : l[k] # Newline
      BY <1>1, <1>2, <1>8, <1>12, Zenon DEF ConsoleRInv, Clean
    <3>2. \A k \in 1 .. Len(Append(l, c)) : Append(l, c)[k] # Newline
      BY <1>1, <1>2, <3>1
    <3> QED
      BY <2>3, <3>2, Zenon DEF Clean
  <2> QED
    BY <1>5, <2>4, <2>5, Zenon DEF ConsoleRInv, Typed, Tty!T!Next
<1> QED
  BY <1>11, <1>12, Zenon

LEMMA BackspaceTyped ==
  ASSUME ConsoleSizes, ConsoleRInv, Indexes', Tty!Backspace
  PROVE  ConsoleRInv' /\ Typed
<1>1. PICK l \in Seq(Char) : l = Line /\ Len(l) = Tty!Minus(e, w)
        /\ \A k \in 1 .. Tty!Minus(e, w) : l[k] = buf[Place(Tty!Minus(w, r) + (k - 1))]
  BY MappedIs, Zenon DEF ConsoleRInv, Mapped
<1>2. PICK b \in Nat \ {0} : b = Tty!Minus(e, w)
  BY IndexFacts DEF ConsoleRInv, ConsoleRing, Tty!Backspace
<1>3. Tty!Minus(e', w') = b - 1 /\ 1 \in Nat
  BY <1>2, MoveBack DEF ConsoleRInv, ConsoleRing, Indexes, Tty!Backspace
<1>4. ConsoleRing' /\ n' = n /\ Input' = Input
  BY Zenon
     DEF ConsoleRInv, ConsoleRing, Tty!Backspace, Input, Tty!Chars, Tty!Minus, Tty!At, Tty!Plus
<1>5. /\ Line' \in Seq(Char) /\ Len(Line') = b - 1
      /\ \A k \in 1 .. b - 1 : Line'[k] = buf[Place(Tty!Minus(w, r) + (k - 1))]
  <2>1. /\ Line' \in Seq(Char) /\ Len(Line') = Tty!Minus(e', w')
        /\ \A k \in 1 .. Tty!Minus(e', w') : Line'[k] = buf[Place(Tty!Minus(w, r) + (k - 1))]
    BY <1>4, MappedNext, Zenon DEF Mapped, ConsoleSizes, Place, Tty!Plus, Tty!Minus, Tty!Backspace
  <2> QED
    BY <1>3, <2>1, Zenon
<1>6. /\ SubSeq(l, 1, Len(l) - 1) \in Seq(Char) /\ Len(SubSeq(l, 1, Len(l) - 1)) = b - 1
      /\ \A k \in 1 .. b - 1 : SubSeq(l, 1, Len(l) - 1)[k] = l[k]
  BY <1>1, <1>2
<1>7. \A k \in 1 .. b - 1 : k \in 1 .. b
  OBVIOUS
<1>8. \A k \in 1 .. b - 1 : Line'[k] = SubSeq(l, 1, Len(l) - 1)[k] /\ Line'[k] = l[k]
  BY <1>1, <1>2, <1>5, <1>6, <1>7, ZenonT(30)
<1>9. Line' = SubSeq(l, 1, Len(l) - 1)
  BY <1>5, <1>6, <1>8, SeqSame, Zenon
<1>10. Tty!T!Erase
  <2>1. Line # <<>>
    BY <1>1, <1>2
  <2> QED
    BY <1>1, <1>4, <1>9, <2>1, Zenon DEF Tty!T!Erase, Input, Line
<1>11. Clean'
  BY <1>1, <1>2, <1>5, <1>7, <1>8, Zenon DEF ConsoleRInv, Clean
<1> QED
  BY <1>4, <1>10, <1>11, Zenon DEF ConsoleRInv, Typed, Tty!T!Next

LEMMA KillLineTyped ==
  ASSUME ConsoleSizes, ConsoleRInv, Indexes', Tty!KillLine
  PROVE  ConsoleRInv' /\ Typed
<1>1. PICK l \in Seq(Char) : l = Line /\ Len(l) = Tty!Minus(e, w)
        /\ \A k \in 1 .. Tty!Minus(e, w) : l[k] = Tty!At(Tty!Plus(w, k - 1))
  <2>1. Line \in Seq(Char) /\ Len(Line) = Tty!Minus(e, w)
        /\ \A k \in 1 .. Tty!Minus(e, w) : Line[k] = Tty!At(Tty!Plus(w, k - 1))
    BY CharsIs, Zenon DEF ConsoleRInv, ConsoleRing, Indexes, Line
  <2> QED
    BY <2>1, Zenon
<1>2. PICK b \in Nat : b = Tty!Minus(e, w)
  BY IndexFacts, Zenon DEF ConsoleRInv, ConsoleRing
<1>3. PICK k \in 0 .. b : e' = Tty!Minus(e, k) /\ (k = b \/ Tty!At(Tty!Minus(e, k + 1)) = Newline)
  BY <1>2, KillLineIs, Zenon DEF ConsoleRInv, ConsoleRing
<1>4. k = b
  <2>1. SUFFICES ASSUME k # b PROVE FALSE
    OBVIOUS
  <2>2. k + 1 \in Nat /\ k + 1 <= b /\ b - k \in 1 .. b /\ (b - k) - 1 = b - (k + 1)
    BY <2>1
  <2>3. w \in Tty!Index /\ e \in Tty!Index
    BY Zenon DEF ConsoleRInv, ConsoleRing, Indexes
  <2>4. PICK x \in Tty!Index : x = Tty!Minus(e, k + 1) /\ Tty!Minus(x, w) = b - (k + 1)
    BY <1>2, <2>2, <2>3, MoveBack, Zenon
  <2>5. Tty!Plus(w, (b - k) - 1) = x
    <3>1. Tty!Plus(w, Tty!Minus(x, w)) = x
      BY <2>3, PlusMinus, Zenon
    <3> QED
      BY <2>2, <2>4, <3>1, Zenon
  <2>6. l[b - k] = Newline
    BY <1>1, <1>2, <1>3, <2>1, <2>2, <2>4, <2>5, Zenon
  <2> QED
    BY <1>1, <1>2, <2>2, <2>6, Zenon DEF ConsoleRInv, Clean
<1>5. Tty!Minus(e', w') = 0
  <2>1. /\ w \in Tty!Index /\ e \in Tty!Index /\ w' = w /\ e' = Tty!Minus(e, b)
        /\ b <= Tty!Minus(e, w)
    BY <1>2, <1>3, <1>4 DEF ConsoleRInv, ConsoleRing, Indexes, Tty!KillLine
  <2>2. Tty!Minus(Tty!Minus(e, b), w) = b - b
    BY <1>2, <2>1, MoveBack, Zenon
  <2> QED
    BY <2>1, <2>2
<1>6. ConsoleRing' /\ n' = n /\ Input' = Input
  BY Zenon
     DEF ConsoleRInv, ConsoleRing, Tty!KillLine, Input, Tty!Chars, Tty!Minus, Tty!At, Tty!Plus
<1>7. Line' = <<>>
  <2>1. Line' \in Seq(Char) /\ Len(Line') = 0
    BY <1>5, <1>6, MappedNext, Zenon DEF Mapped, ConsoleSizes, Tty!Minus
  <2> QED
    BY <2>1
<1>8. Tty!T!KillLine
  BY <1>6, <1>7, Zenon DEF Tty!T!KillLine, Input, Line
<1>9. Clean'
  BY <1>7 DEF Clean
<1> QED
  BY <1>6, <1>8, <1>9, Zenon DEF ConsoleRInv, Typed, Tty!T!Next

LEMMA TurnTyped ==
  ASSUME ConsoleSizes, ConsoleRInv, Indexes', NEW t \in ConsoleReader, Tty!Turn(t)
  PROVE  ConsoleRInv' /\ Typed
<1>1. PICK p \in Seq(Char) : p = Input /\ Len(p) = Tty!Minus(w, r)
        /\ \A k \in 1 .. Tty!Minus(w, r) : p[k] = Tty!At(Tty!Plus(r, k - 1))
  <2>1. Input \in Seq(Char) /\ Len(Input) = Tty!Minus(w, r)
        /\ \A k \in 1 .. Tty!Minus(w, r) : Input[k] = Tty!At(Tty!Plus(r, k - 1))
    BY CharsIs, Zenon DEF ConsoleRInv, ConsoleRing, Indexes, Input
  <2> QED
    BY <2>1, Zenon
<1>2. PICK a \in Nat : a = Tty!Minus(w, r) /\ a = Tty!Waiting
  BY IndexFacts, Zenon DEF ConsoleRInv, ConsoleRing, Tty!Waiting
<1>3. PICK k \in Nat : /\ k = Taken(t) /\ k <= a /\ k <= Tty!FirstStop + 1
                       /\ Tty!FirstStop \in Nat
                       /\ n[t] - Tty!Plain(t) \in Nat
  <2>1. n[t] \in Nat
    BY DEF ConsoleRInv
  <2> QED
    BY <1>2, <2>1, TakenIs, Zenon
<1>4. r' = Tty!Plus(r, k) /\ w' = w /\ e' = e /\ buf' = buf
  BY <1>3, Zenon DEF Tty!Turn, Taken
<1>5. n' \in [ConsoleReader -> Nat]
  BY <1>3 DEF Tty!Turn, ConsoleRInv
<1>6. ConsoleRing' /\ Line' = Line
  BY <1>4, Zenon DEF ConsoleRInv, ConsoleRing, Line, Tty!Chars, Tty!Minus, Tty!At, Tty!Plus
<1>7. /\ r \in Tty!Index /\ w \in Tty!Index /\ r \in Nat /\ r' \in Tty!Index
      /\ Tty!Minus(w, r') = a - k
  <2>1. r \in Tty!Index /\ w \in Tty!Index
    BY Zenon DEF ConsoleRInv, ConsoleRing, Indexes
  <2>2. r \in Nat
    BY <2>1, MinusIs, Zenon
  <2>3. Tty!Plus(r, k) \in Tty!Index /\ Tty!Minus(w, Tty!Plus(r, k)) = Tty!Minus(w, r) - k
    BY <1>2, <1>3, <2>1, MoveFirst, Zenon
  <2> QED
    BY <1>2, <1>4, <2>1, <2>2, <2>3, Zenon
<1>8. /\ Input' \in Seq(Char) /\ Len(Input') = a - k
      /\ \A j \in 1 .. a - k : Input'[j] = Tty!At(Tty!Plus(r', j - 1))
  <2>1. /\ Input' \in Seq(Char) /\ Len(Input') = Tty!Minus(w, r')
        /\ \A j \in 1 .. Tty!Minus(w, r') : Input'[j] = Tty!At(Tty!Plus(r', j - 1))
    BY <1>4, <1>6, MappedNext, Zenon DEF Mapped, ConsoleSizes, Place, Tty!Plus, Tty!Minus, Tty!At
  <2> QED
    BY <1>7, <2>1, Zenon
<1>9. /\ SubSeq(p, k + 1, Len(p)) \in Seq(Char) /\ Len(SubSeq(p, k + 1, Len(p))) = a - k
      /\ \A j \in 1 .. a - k : SubSeq(p, k + 1, Len(p))[j] = p[k + j]
  <2>1. Len(p) = a /\ k <= Len(p)
    BY <1>1, <1>2, <1>3, Zenon
  <2>2. /\ SubSeq(p, k + 1, Len(p)) \in Seq(Char) /\ Len(SubSeq(p, k + 1, Len(p))) = Len(p) - k
        /\ \A j \in 1 .. Len(p) - k : SubSeq(p, k + 1, Len(p))[j] = p[k + j]
    BY <2>1, SubSeqIs, Zenon
  <2> QED
    BY <2>1, <2>2, Zenon
<1>10. ASSUME NEW j \in 1 .. a - k PROVE Input'[j] = p[k + j]
  <2>1. k + j \in 1 .. a /\ j - 1 \in Nat /\ k + (j - 1) = (k + j) - 1
    BY <1>3, SMTT(30)
  <2>2. Tty!Plus(r', j - 1) = Tty!Plus(r, (k + j) - 1)
    <3>1. PICK h \in Nat : h = j - 1
      BY <2>1, Zenon
    <3>2. Tty!Plus(Tty!Plus(r, k), h) = Tty!Plus(r, k + h)
      BY <1>7, ConsolePlusPlus, Zenon
    <3> QED
      BY <1>4, <2>1, <3>1, <3>2, Zenon
  <2> QED
    BY <1>1, <1>2, <1>8, <2>1, <2>2, Zenon
<1>11. Input' = SubSeq(p, k + 1, Len(p))
  <2>1. \A j \in 1 .. Len(Input') : Input'[j] = SubSeq(p, k + 1, Len(p))[j]
    BY <1>8, <1>9, <1>10, Zenon
  <2> QED
    BY <1>8, <1>9, <2>1, SeqSame, Zenon
<1>12. Typed
  <2>1. CASE k = 0
    <3>1. SubSeq(p, 0 + 1, Len(p)) = p
      BY WholeSeq, Zenon
    <3> QED
      BY <1>1, <1>6, <1>11, <2>1, <3>1, Zenon DEF Typed
  <2>2. CASE k # 0
    <3>1. ASSUME NEW i \in 1 .. k - 1 PROVE p[i] \notin {Newline, EOF}
      <4>1. i - 1 \in 0 .. Tty!FirstStop - 1 /\ i \in 1 .. a
        BY <1>3
      <4>2. Tty!Waiting \in Nat
        BY <1>2, Zenon
      <4>3. ~Tty!Stops(i - 1)
        BY <4>1, <4>2, StopIs, Zenon
      <4> QED
        BY <1>1, <1>2, <4>1, <4>3, Zenon DEF Tty!Stops
    <3>2. k \in 1 .. Len(p)
      BY <1>1, <1>2, <1>3, <2>2
    <3>3. Tty!T!Read
      BY <1>1, <1>6, <1>11, <3>1, <3>2, Zenon DEF Tty!T!Read, Input, Line
    <3> QED
      BY <3>3, Zenon DEF Typed, Tty!T!Next
  <2> QED
    BY <2>1, <2>2, Zenon
<1>13. Clean'
  BY <1>6, Zenon DEF ConsoleRInv, Clean
<1> QED
  BY <1>5, <1>6, <1>12, <1>13, Zenon DEF ConsoleRInv

LEMMA OtherTyped ==
  ASSUME ConsoleSizes, ConsoleRInv, n' \in [ConsoleReader -> Nat], UNCHANGED Tty!input
  PROVE  ConsoleRInv' /\ Typed
  BY Zenon DEF ConsoleRInv, ConsoleRing, Indexes, Clean, Typed, Input, Line, Tty!Chars,
         Tty!Minus, Tty!At, Tty!Plus, Tty!input

LEMMA ConsoleRInvInit == ASSUME ConsoleSizes, Tty!Init, Indexes PROVE ConsoleRInv /\ Tty!T!Init
<1>1. ConsoleRing /\ n \in [ConsoleReader -> Nat]
  <2>1. buf \in [0 .. INPUT_BUF - 1 -> Char]
    BY DEF Tty!Init, ConsoleSizes
  <2>2. n \in [ConsoleReader -> Nat]
    BY DEF Tty!Init
  <2> QED
    BY <2>1, <2>2, Zenon DEF ConsoleRing
<1>2. Tty!Minus(w, r) = 0 /\ Tty!Minus(e, w) = 0
  BY IndexFacts, Zenon DEF Tty!Init
<1>3. Input = <<>> /\ Line = <<>>
  <2>1. Input \in Seq(Char) /\ Len(Input) = 0 /\ Line \in Seq(Char) /\ Len(Line) = 0
    BY <1>1, <1>2, MappedIs, Zenon DEF Mapped
  <2> QED
    BY <2>1
<1>4. Clean
  BY <1>3 DEF Clean
<1> QED
  BY <1>1, <1>3, <1>4, Zenon DEF ConsoleRInv, Tty!T!Init, Input, Line

LEMMA StepTyped ==
  ASSUME ConsoleSizes, ConsoleInv, ConsoleInv', ConsoleRInv, [Tty!Next]_(Tty!vars)
  PROVE  ConsoleRInv' /\ [Tty!T!Next]_<<Input, Line>>
<1>1. Indexes' /\ n' \in [ConsoleReader -> Nat]
  BY DEF ConsoleInv, Readers
<1>2. CASE \E c \in Char : Tty!Key(c)
  BY <1>1, <1>2, KeyTyped, Zenon DEF Typed
<1>3. CASE Tty!Backspace
  BY <1>1, <1>3, BackspaceTyped, Zenon DEF Typed
<1>4. CASE Tty!KillLine
  BY <1>1, <1>4, KillLineTyped, Zenon DEF Typed
<1>5. CASE \E t \in ConsoleReader : Tty!Turn(t)
  BY <1>1, <1>5, TurnTyped, Zenon DEF Typed
<1>6. CASE UNCHANGED Tty!input
  BY <1>1, <1>6, OtherTyped, Zenon DEF Typed
<1>7. (\E t \in ConsoleReader :
         Tty!Wait(t) \/ Tty!Kill(t) \/ \E k \in 1 .. MaxRead : Tty!Call(t, k))
        => UNCHANGED Tty!input
  BY Zenon DEF Tty!Wait, Tty!Kill, Tty!Call
<1>8. UNCHANGED Tty!vars => UNCHANGED Tty!input
  BY DEF Tty!vars
<1> QED
  BY <1>2, <1>3, <1>4, <1>5, <1>6, <1>7, <1>8, Zenon DEF Tty!Next, Tty!Keyboard

(* No reader of the console sleeps while committed input waits to be read: *)
(* consoleintr wakes all whom consoleread put to sleep (console.c).        *)
THEOREM ConsoleWakes == ASSUME ConsoleSizes PROVE Tty!Spec => []Tty!NoLostWakeup
<1>1. Tty!Init => ConsoleInv
  BY ConsoleInvInit
<1>2. ConsoleInv /\ [Tty!Next]_(Tty!vars) => ConsoleInv'
  BY ConsoleInvStep
<1> QED
  BY <1>1, <1>2, PTL DEF Tty!Spec, ConsoleInv

(* The ring with its three unsigned indexes implements a line that is      *)
(* edited and a queue of committed characters: backspace and ^U never take *)
(* back what was committed, and nothing is read twice (console.c).         *)
THEOREM ConsoleTerminal == ASSUME ConsoleSizes PROVE Tty!Spec => Tty!ImplementsTerminal
<1>1. Tty!Init => ConsoleInv /\ ConsoleRInv /\ Tty!T!Init
  BY ConsoleInvInit, ConsoleRInvInit, Zenon DEF ConsoleInv
<1>2. ConsoleInv /\ [Tty!Next]_(Tty!vars) => ConsoleInv'
  BY ConsoleInvStep
<1>3. ConsoleInv /\ ConsoleInv' /\ ConsoleRInv /\ [Tty!Next]_(Tty!vars)
        => ConsoleRInv' /\ [Tty!T!Next]_<<Tty!Chars(r, w), Tty!Chars(w, e)>>
  BY StepTyped, Zenon DEF Input, Line
<1> QED
  BY <1>1, <1>2, <1>3, PTL DEF Tty!Spec, Tty!ImplementsTerminal, Tty!T!Spec

(***************************************************************************)
(* The three of them, as they are composed.                                *)
(***************************************************************************)
LEMMA Widths ==
  ASSUME NEW P \in Nat \ {0}, NEW u \in Nat, P < u, u % P = 0
  PROVE  \E m \in Nat : m >= 2 /\ u = m * P
<1>1. PICK q \in Int : u = q * P + (u % P)
  <2>1. u \in Int
    OBVIOUS
  <2> QED
    BY <2>1, ModEx, Zenon
<1>2. u = q * P
  BY <1>1
<1>3. q >= 2
  <2>1. SUFFICES ASSUME q <= 1 PROVE q * P <= P
    BY <1>2
  <2>2. q = 1 \/ q <= 0
    BY <2>1
  <2>3. q <= 0 => q * P <= 0
    OBVIOUS
  <2>4. q = 1 => q * P = P
    OBVIOUS
  <2> QED
    BY <2>2, <2>3, <2>4
<1> QED
  BY <1>2, <1>3

LEMMA WidthsAssumed == PipeSizes /\ ConsoleSizes
<1>1. PipeSizes
  BY PipeAssumption, Widths, Zenon DEF PipeSizes
<1>2. ConsoleSizes
  BY ConsoleAssumption, Widths, Zenon DEF ConsoleSizes
<1> QED
  BY <1>1, <1>2, Zenon

LEMMA Parts == StreamsSpec => Bytes!Spec /\ Tty!Spec /\ Spec
<1>1. StreamsInit => Bytes!Init /\ Tty!Init /\ Init
  BY Zenon DEF StreamsInit
<1>2. [StreamsNext]_<<part, pipeVars, consoleVars, clockVars>>
        => [Bytes!Next]_(Bytes!vars) /\ [Tty!Next]_(Tty!vars) /\ [Next]_clockVars
  <2>1. UNCHANGED pipeVars => UNCHANGED Bytes!vars
    BY DEF pipeVars, Bytes!vars, Bytes!pipe
  <2>2. UNCHANGED consoleVars => UNCHANGED Tty!vars
    BY DEF consoleVars, Tty!vars, Tty!input
  <2>3. UNCHANGED <<part, pipeVars, consoleVars, clockVars>>
          => UNCHANGED pipeVars /\ UNCHANGED consoleVars /\ UNCHANGED clockVars
    OBVIOUS
  <2>4. /\ UNCHANGED <<part, consoleVars, clockVars>>
             => UNCHANGED consoleVars /\ UNCHANGED clockVars
        /\ UNCHANGED <<part, pipeVars, clockVars>> => UNCHANGED pipeVars /\ UNCHANGED clockVars
        /\ UNCHANGED <<part, pipeVars, consoleVars>> => UNCHANGED pipeVars /\ UNCHANGED consoleVars
    OBVIOUS
  <2> QED
    BY <2>1, <2>2, <2>3, <2>4, Zenon DEF StreamsNext
<1> QED
  BY <1>1, <1>2, PTL DEF StreamsSpec, Bytes!Spec, Tty!Spec, Spec

(* Nobody is forgotten asleep in a pipe, at the console or in sys_sleep,   *)
(* and no pipe is freed in use, as long as the threads of a process do not *)
(* share descriptors (pipe.c, console.c, sysproc.c).                       *)
THEOREM StreamsWake == ASSUME ~SharedFiles PROVE StreamsSpec => []NoSleeperForgotten
<1>1. Bytes!Spec => [](Bytes!NoLostWakeup /\ Bytes!NotFreedInUse)
  <2>1. Apart
    BY PipeAssumption, Zenon DEF Apart
  <2> QED
    BY <2>1, WidthsAssumed, PipeWakes
<1>2. Tty!Spec => []Tty!NoLostWakeup
  BY WidthsAssumed, ConsoleWakes
<1>3. Spec => []NoMissedTick
  BY ClockAssumption, ClockWakes
<1> QED
  BY <1>1, <1>2, <1>3, Parts, PTL DEF NoSleeperForgotten

(* Every byte written to a pipe is read once and in order, whatever the    *)
(* interleaving of its writers and readers (pipe.c).                       *)
THEOREM StreamsStream == StreamsSpec => ImplementsStream
<1>1. Bytes!Spec => Bytes!ImplementsStream
  BY WidthsAssumed, PipeStream
<1> QED
  BY <1>1, Parts, PTL DEF ImplementsStream

(* What is typed is edited in a line, committed as a whole and then read   *)
(* once, in order, up to the end of a line or a ^D (console.c).            *)
THEOREM StreamsTerminal == StreamsSpec => ImplementsTerminal
<1>1. Tty!Spec => Tty!ImplementsTerminal
  BY WidthsAssumed, ConsoleTerminal
<1> QED
  BY <1>1, Parts, PTL DEF ImplementsTerminal
=============================================================================

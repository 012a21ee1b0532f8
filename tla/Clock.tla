-------------------------------- MODULE Clock --------------------------------
(***************************************************************************)
(* The clock: ticks, which the timer interrupt of CPU 0 advances (trap.c), *)
(* and sys_sleep (sysproc.c).  A step is what is done between taking       *)
(* tickslock and giving it back or falling asleep; kill() does not take    *)
(* tickslock and may come between the test of killed and the sleep.  It    *)
(* does not wake the sleeper, who finds out at the next tick.              *)
(***************************************************************************)
EXTENDS Naturals

CONSTANTS Sleeper,  \* threads, of processes of their own
          UINT      \* 2^32: where ticks wraps around

VARIABLES ticks,
          tpc,      \* a sleeper: "user", "awake", "going", "asleep", "slept"
          asked,    \* the argument n, as the unsigned number it is compared as
          ticks0,
          passed,   \* ticks since ticks0 was read (no variable of the code)
          tkilled   \* proc->killed

clockVars == <<ticks, tpc, asked, ticks0, passed, tkilled>>

TypeOK ==
    /\ ticks \in 0..(UINT - 1)
    /\ tpc \in [Sleeper -> {"user", "awake", "going", "asleep", "slept"}]
    /\ asked \in [Sleeper -> 0..(UINT - 1)]
    /\ ticks0 \in [Sleeper -> 0..(UINT - 1)]
    /\ passed \in [Sleeper -> 0..UINT]
    /\ tkilled \in [Sleeper -> BOOLEAN]

Init ==
    /\ ticks \in 0..(UINT - 1)
    /\ tpc = [t \in Sleeper |-> "user"]
    /\ asked = [t \in Sleeper |-> 0]
    /\ ticks0 = [t \in Sleeper |-> 0]
    /\ passed = [t \in Sleeper |-> 0]
    /\ tkilled = [t \in Sleeper |-> FALSE]

\* tickslock is held by a sleeper on its way from the test into sleep.
TickslockFree == \A t \in Sleeper : tpc[t] # "going"

\* The difference of two unsigned numbers.
minus(a, b) == IF a >= b THEN a - b ELSE a + UINT - b

-----------------------------------------------------------------------------
\* The loop of sys_sleep, from ticks0 = since on: sleep, or return.
LoopUntilTick(t, n, since) ==
    IF (since + n) % UINT > ticks
    THEN tpc' = [tpc EXCEPT ![t] = IF tkilled[t] THEN "user" ELSE "going"]
    ELSE tpc' = [tpc EXCEPT ![t] = "slept"]

Loop(t, n, since) ==
    IF minus(ticks, since) < n
    THEN tpc' = [tpc EXCEPT ![t] = IF tkilled[t] THEN "user" ELSE "going"]
    ELSE tpc' = [tpc EXCEPT ![t] = "slept"]

sys_sleep(t) ==
    /\ tpc[t] = "user" /\ TickslockFree
    /\ \E n \in 0..(UINT - 1) :
          /\ asked' = [asked EXCEPT ![t] = n]
          /\ Loop(t, n, ticks)
    /\ ticks0' = [ticks0 EXCEPT ![t] = ticks]
    /\ passed' = [passed EXCEPT ![t] = 0]
    /\ UNCHANGED <<ticks, tkilled>>

\* sleep(&ticks, &tickslock) takes ptable.lock and gives back tickslock.
FallAsleep(t) ==
    /\ tpc[t] = "going"
    /\ tpc' = [tpc EXCEPT ![t] = "asleep"]
    /\ UNCHANGED <<ticks, asked, ticks0, passed, tkilled>>

Wake(t) ==
    /\ tpc[t] = "awake" /\ TickslockFree
    /\ Loop(t, asked[t], ticks0[t])
    /\ UNCHANGED <<ticks, asked, ticks0, passed, tkilled>>

Return(t) ==
    /\ tpc[t] = "slept"
    /\ tpc' = [tpc EXCEPT ![t] = "user"]
    /\ UNCHANGED <<ticks, asked, ticks0, passed, tkilled>>

\* The timer interrupt: ticks++ and wakeup(&ticks), under tickslock.
Timer ==
    /\ TickslockFree
    /\ ticks' = IF ticks + 1 = UINT THEN 0 ELSE ticks + 1
    /\ passed' = [t \in Sleeper |-> IF passed[t] < UINT THEN passed[t] + 1 ELSE UINT]
    /\ tpc' = [t \in Sleeper |-> IF tpc[t] = "asleep" THEN "awake" ELSE tpc[t]]
    /\ UNCHANGED <<asked, ticks0, tkilled>>

kill(t) ==
    /\ ~ tkilled[t]
    /\ tkilled' = [tkilled EXCEPT ![t] = TRUE]
    /\ UNCHANGED <<ticks, tpc, asked, ticks0, passed>>

Next == \/ Timer
        \/ \E t \in Sleeper : \/ sys_sleep(t) \/ FallAsleep(t) \/ Wake(t)
                              \/ Return(t) \/ kill(t)

Spec == Init /\ [][Next]_clockVars

-----------------------------------------------------------------------------
\* A sleep that returns 0 has lasted n ticks, wherever ticks wrapped around
\* meanwhile and however late the thread was scheduled.
SleepsLongEnough == \A t \in Sleeper : tpc[t] = "slept" => passed[t] >= asked[t]

\* No sleeper misses its tick: a thread asleep still has ticks to wait for.
NoMissedTick ==
    \A t \in Sleeper : tpc[t] = "asleep" => minus(ticks, ticks0[t]) < asked[t]
=============================================================================

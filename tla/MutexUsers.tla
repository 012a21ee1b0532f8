----------------------------- MODULE MutexUsers -----------------------------
(***************************************************************************)
(* The kernel mutexes together with the programs that use them.  Either    *)
(* the programs pass any id to any call, or (polite) they have discipline: *)
(* they lock ids that alloc returned and that they do not hold already,    *)
(* unlock what they hold, and deallocate what nobody uses.  known and      *)
(* holds are what polite programs know: the ids they may still use, and    *)
(* the ids each thread has locked and not yet unlocked.                    *)
(***************************************************************************)
EXTENDS Mutex

VARIABLES polite, known, holds
userVars == <<vars, polite, known, holds>>

UsersInit == Init /\ polite \in BOOLEAN /\ known = {} /\ holds = [t \in Thread |-> {}]

InUse(i) == \E u \in Thread : i \in holds[u] \/ (id[u] = i /\ pc[u] \in Op \cup {"lock_sleep", "lock_again", "unlock_wakeup"})
Allowed(t, op, i) ==
  CASE op = "alloc" -> TRUE
    [] op = "lock" -> i \in known \ holds[t]
    [] op = "unlock" -> i \in holds[t]
    [] op = "dealloc" -> i \in known /\ ~InUse(i)

(* The call is made; a mutex to be deallocated is forgotten first.         *)
UserCall(t, op, i) ==
  /\ SysCall(t, op, i) /\ (polite => Allowed(t, op, i))
  /\ known' = IF op = "dealloc" THEN known \ {i} ELSE known
  /\ UNCHANGED <<polite, holds>>
(* The kernel's steps, as the program sees them: a lock call that took the *)
(* mutex, an unlock call that released it, the id that alloc returned.     *)
Took == \E m \in Slot : state[m] # "LOCKED" /\ state'[m] = "LOCKED"
UserKernel(t) ==
  /\ Kernel(t)
  /\ known' = IF polite /\ pc[t] = "alloc_return" THEN known \cup {mxid[mx[t]]} ELSE known
  /\ holds' = [holds EXCEPT ![t] = IF polite /\ Took THEN @ \cup {id[t]}
                                   ELSE IF pc'[t] = "unlock_wakeup" THEN @ \ {id[t]} ELSE @]
  /\ UNCHANGED polite
UserDies(t) == Die(t) /\ UNCHANGED <<polite, known, holds>>
UsersNext ==
  /\ ~panicked
  /\ \E t \in Thread : \/ UserKernel(t) \/ UserDies(t)
                      \/ \E op \in Op, i \in 0 .. MaxId : UserCall(t, op, i)
UsersSpec == UsersInit /\ [][UsersNext]_userVars

-----------------------------------------------------------------------------
(* Among polite programs a mutex excludes: the thread that locked it is    *)
(* its only holder and its recorded owner until it unlocks.                *)
MutualExclusion ==
  \A t \in Thread : \A i \in holds[t] :
    /\ \A u \in Thread \ {t} : i \notin holds[u]
    /\ \E m \in Slot : mxid[m] = i /\ state[m] = "LOCKED" /\ owner[m] = t

(* An id that alloc returned names an allocated mutex, and a thread that   *)
(* waits in lock waits on the mutex it asked for: its slot is not recycled *)
(* under it, and lock() never panics.                                      *)
WaitsForItsMutex ==
  /\ ~(polite /\ panicked)
  /\ \A i \in known : \E m \in Slot : mxid[m] = i /\ state[m] # "FREE"
  /\ \A t \in Thread : pc[t] \in {"lock_sleep", "lock_again"} /\ polite => mxid[mx[t]] = id[t]
=============================================================================

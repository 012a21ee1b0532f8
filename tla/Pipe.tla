-------------------------------- MODULE Pipe --------------------------------
(***************************************************************************)
(* Pipes (pipe.c).  pipewrite and piperead hold p->lock except while they  *)
(* sleep, so a step runs from the acquire, or from the wakeup, to the next *)
(* sleep or to the return.                                                 *)
(*                                                                         *)
(* The counters are unsigned and wrap around.  pipeclose is called when    *)
(* the last descriptor of an end goes: with single-threaded processes not  *)
(* while somebody is inside a call on that end, with threads at any time.  *)
(***************************************************************************)
EXTENDS Integers, Sequences

CONSTANTS
  Writer, Reader,    \* the threads that use the two ends
  Byte,
  PIPESIZE,
  UINT_MAX1,         \* number of unsigned values (2^32), a multiple of PIPESIZE
  MaxBytes,          \* bound: bytes of one call
  SharedFiles        \* do threads share descriptors?

Thread == Writer \cup Reader

VARIABLES
  data, nread, nwrite, readopen, writeopen,  \* struct pipe
  freed,                                     \* has the page been given back?
  left,                                      \* per thread: n - i, 0 outside of a call
  asleep, killed                             \* threads that sleep, are killed

pipe == <<data, nread, nwrite, readopen, writeopen, freed>>
vars == <<pipe, left, asleep, killed>>

(* The type invariant.                                                     *)
TypeOK ==
  /\ data \in [0 .. PIPESIZE - 1 -> Byte]
  /\ nread \in 0 .. UINT_MAX1 - 1 /\ nwrite \in 0 .. UINT_MAX1 - 1
  /\ readopen \in BOOLEAN /\ writeopen \in BOOLEAN /\ freed \in BOOLEAN
  /\ left \in [Thread -> 0 .. MaxBytes]
  /\ asleep \subseteq Thread /\ killed \subseteq Thread

(* pipealloc.                                                              *)
Init ==
  /\ data \in [0 .. PIPESIZE - 1 -> Byte]
  /\ nread = 0 /\ nwrite = 0
  /\ readopen = TRUE /\ writeopen = TRUE /\ freed = FALSE
  /\ left = [t \in Thread |-> 0]
  /\ asleep = {} /\ killed = {}

Min(a, b) == IF a < b THEN a ELSE b
Plus(a, b) == (a + b) % UINT_MAX1
Count == (nwrite - nread) % UINT_MAX1
Empty == nread = nwrite
IsFull == nwrite = Plus(nread, PIPESIZE)
(* How many bytes go in before nwrite meets nread + PIPESIZE.              *)
Room == (Plus(nread, PIPESIZE) - nwrite) % UINT_MAX1
(* t is inside its call, awake, and the pipe is still there.               *)
Runs(t) == left[t] > 0 /\ t \notin asleep /\ ~freed

-----------------------------------------------------------------------------
(* A process that was killed does not start another system call.           *)
SysCall(t, n) ==
  /\ left[t] = 0 /\ t \notin killed
  /\ IF t \in Writer THEN writeopen ELSE readopen
  /\ left' = [left EXCEPT ![t] = n]
  /\ UNCHANGED <<pipe, asleep, killed>>

(* pipewrite: store what fits; wake the readers before going to sleep and  *)
(* after the last byte.                                                    *)
WriteGivesUp(t) ==
  /\ Runs(t) /\ IsFull /\ (~readopen \/ t \in killed)
  /\ left' = [left EXCEPT ![t] = 0]
  /\ UNCHANGED <<pipe, asleep, killed>>
StoredAtNext(s) ==
  [j \in 0 .. PIPESIZE - 1 |->
     IF \E d \in DOMAIN s : Plus(nwrite, d) % PIPESIZE = j
     THEN s[CHOOSE d \in DOMAIN s : Plus(nwrite, d) % PIPESIZE = j] ELSE data[j]]
Stored(s) ==
  [j \in 0 .. PIPESIZE - 1 |->
     IF \E d \in DOMAIN s : Plus(nwrite, d - 1) % PIPESIZE = j
     THEN s[CHOOSE d \in DOMAIN s : Plus(nwrite, d - 1) % PIPESIZE = j] ELSE data[j]]
Store(t) ==
  LET k == Min(left[t], Room) IN
  \E s \in [1 .. k -> Byte] :
    /\ data' = Stored(s)
    /\ nwrite' = Plus(nwrite, k)
    /\ UNCHANGED <<nread, readopen, writeopen, freed, killed>>
WriteAllSilent(t) ==
  /\ Runs(t) /\ left[t] <= Room
  /\ Store(t)
  /\ left' = [left EXCEPT ![t] = 0]
  /\ UNCHANGED asleep
WriteAll(t) ==
  /\ Runs(t) /\ left[t] <= Room
  /\ Store(t)
  /\ left' = [left EXCEPT ![t] = 0]
  /\ asleep' = asleep \ Reader
WriteBlocks(t) ==
  /\ Runs(t) /\ left[t] > Room /\ readopen /\ t \notin killed
  /\ Store(t)
  /\ left' = [left EXCEPT ![t] = @ - Room]
  /\ asleep' = (asleep \ Reader) \cup {t}
(* The pipe fills up and there is nobody to wait for.                      *)
WriteFails(t) ==
  /\ Runs(t) /\ ~IsFull /\ left[t] > Room /\ (~readopen \/ t \in killed)
  /\ Store(t)
  /\ left' = [left EXCEPT ![t] = 0]
  /\ UNCHANGED asleep

(* piperead: wait while there is nothing and somebody may still write,     *)
(* then take what is there; 0 bytes are the end of the file.               *)
ReadBlocks(t) ==
  /\ Runs(t) /\ Empty /\ writeopen /\ t \notin killed
  /\ asleep' = asleep \cup {t}
  /\ UNCHANGED <<pipe, left, killed>>
ReadGivesUp(t) ==
  /\ Runs(t) /\ Empty /\ writeopen /\ t \in killed
  /\ left' = [left EXCEPT ![t] = 0]
  /\ UNCHANGED <<pipe, asleep, killed>>
Read(t) ==
  /\ Runs(t) /\ ~(Empty /\ writeopen)
  /\ nread' = Plus(nread, Min(left[t], Count))
  /\ left' = [left EXCEPT ![t] = 0]
  /\ asleep' = asleep \ Writer
  /\ UNCHANGED <<data, nwrite, readopen, writeopen, freed, killed>>

(* pipeclose, by the last descriptor of an end.                            *)
CloseWrite ==
  /\ writeopen /\ (SharedFiles \/ \A t \in Writer : left[t] = 0)
  /\ writeopen' = FALSE /\ freed' = ~readopen
  /\ asleep' = asleep \ Reader
  /\ UNCHANGED <<data, nread, nwrite, readopen, left, killed>>
CloseRead ==
  /\ readopen /\ (SharedFiles \/ \A t \in Reader : left[t] = 0)
  /\ readopen' = FALSE /\ freed' = ~writeopen
  /\ asleep' = asleep \ Writer
  /\ UNCHANGED <<data, nread, nwrite, writeopen, left, killed>>

(* kill() marks a process and does not wake it.                            *)
Kill(t) ==
  /\ killed' = killed \cup {t}
  /\ UNCHANGED <<pipe, left, asleep>>

pipewrite(t) == WriteGivesUp(t) \/ WriteAll(t) \/ WriteBlocks(t) \/ WriteFails(t)
piperead(t) == ReadBlocks(t) \/ ReadGivesUp(t) \/ Read(t)
Next ==
  \/ \E t \in Writer : pipewrite(t)
  \/ \E t \in Reader : piperead(t)
  \/ \E t \in Thread : Kill(t) \/ \E n \in 1 .. MaxBytes : SysCall(t, n)
  \/ CloseWrite \/ CloseRead
Spec == Init /\ [][Next]_vars

-----------------------------------------------------------------------------
(* No lost wakeup: a reader sleeps only while somebody may write and, but  *)
(* for bytes left by a writer that was killed, there is nothing to read; a *)
(* writer only on a full pipe that somebody may read.                      *)
NoLostWakeup ==
  /\ \A t \in Reader \cap asleep : writeopen /\ (Empty \/ Writer \cap killed # {})
  /\ \A t \in Writer \cap asleep : IsFull /\ readopen

(* The pipe's page is given back ("kfree") only when no call uses it: what *)
(* is in it is not read or written, nor slept on, after that.              *)
NotFreedInUse == freed => \A t \in Thread : left[t] = 0

(* The ring buffer implements a bounded queue of bytes.                    *)
Queue == [j \in 1 .. Count |-> data[Plus(nread, j - 1) % PIPESIZE]]
Contents == IF freed THEN <<>> ELSE Queue
Stream == INSTANCE ByteStream WITH Capacity <- PIPESIZE, queue <- Contents, gone <- freed
ImplementsStream == Stream!Spec
=============================================================================

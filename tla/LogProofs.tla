----------------------------- MODULE LogProofs -----------------------------
(***************************************************************************)
(* The log makes system calls atomic across crashes, never runs out of     *)
(* room and forgets no sleeper, for any number of threads and blocks and   *)
(* any size of the log.                                                    *)
(***************************************************************************)
EXTENDS Log, FiniteSetTheorems, WellFoundedInduction, TLAPS

(* The inductive invariant: who may be where, and what is in the buffers,  *)
(* in the log and on the home blocks at every place.                       *)
Places == {"user", "begin", "asleep", "op", "append", "down"} \cup Committer
Logged == {lh[i] : i \in DOMAIN lh}

Types ==
  /\ home \in [Block -> Val] /\ cache \in [Block -> Val] /\ logblk \in [1 .. LOGSIZE -> Val]
  /\ head \in Seq(Block) /\ lh \in Seq(Block)
  /\ dirty \in SUBSET Block
  /\ outstanding \in Nat /\ committing \in BOOLEAN
  /\ pc \in [Thread -> Places]
  /\ arg \in [Thread -> Block \cup {NoBlock}] /\ mine \in [Thread -> SUBSET Block]
  /\ tail \in Nat

(* outstanding counts the system calls inside.                             *)
Counted == outstanding = Cardinality(Active)

(* Who may be where: one thread commits, and only when nobody is inside.   *)
Control ==
  /\ \A t \in Thread : pc[t] \in Committer =>
       /\ committing
       /\ \A u \in Thread \ {t} : pc[u] \in {"user", "begin", "asleep"}
  /\ committing => \E t \in Thread : pc[t] \in Committer
  /\ \A t, u \in Thread : pc[t] = "down" => pc[u] = "down"
  /\ \A t \in Thread : arg[t] # NoBlock <=> pc[t] = "append"
  /\ \A t \in Thread : pc[t] = "append" => arg[t] \in mine[t]
  /\ \A t, u \in Thread : pc[t] = "append" /\ arg[t] = arg[u] => t = u

(* A call that has begun writes what it is allowed to.                     *)
Calls == \A t \in Thread : pc[t] \in {"begin", "asleep", "op", "append"} => mine[t] \in Writes

(* The blocks of the transaction: on their home blocks, in the log.        *)
Clean ==
  panic = "no" =>
    \A b \in Block : b \notin Logged /\ (\A t \in Thread : arg[t] # b) => cache[b] = home[b]
Copied(n) == \A i \in 1 .. n : logblk[i] = cache[lh[i]]
Installed(n) == \A i \in 1 .. n : home[lh[i]] = logblk[i]

Open == head = <<>> /\ dirty = Logged /\ Clean
DataAt(t) ==
  /\ pc[t] = "write_log" => Open /\ tail < Len(lh) /\ Copied(tail)
  /\ pc[t] = "write_head" => Open /\ tail = 0 /\ lh # <<>> /\ Copied(Len(lh))
  /\ pc[t] = "install" =>
       /\ head = lh /\ tail < Len(lh) /\ Copied(Len(lh)) /\ Installed(tail)
       /\ dirty = {lh[i] : i \in tail + 1 .. Len(lh)} /\ Clean
  /\ pc[t] = "clear" => head = lh /\ Installed(Len(lh)) /\ cache = home /\ dirty = {}
  /\ pc[t] = "finish" => head = <<>> /\ lh = <<>> /\ cache = home /\ dirty = {}
Data ==
  /\ \A i, j \in DOMAIN lh : lh[i] = lh[j] => i = j
  /\ Down => head = lh /\ cache = home /\ dirty = {} /\ tail <= Len(lh) /\ Installed(tail)
  /\ ~Down /\ ~committing => Open
  /\ ~Down /\ ~committing /\ Active = {} => lh = <<>>
  /\ \A t \in Thread : DataAt(t)

Inv == Types /\ Counted /\ Control /\ Calls /\ Data

(* The blocks of a transaction fit into the log.                           *)
Fits == Len(lh) <= LOGSIZE

-----------------------------------------------------------------------------
(* Every field keeps its range.                                            *)
LEMMA TypesStep == Types /\ Counted /\ Control /\ Data /\ Fits /\ [Next]_vars => Types'
<1> SUFFICES ASSUME Types, Counted, Control, Data, Fits, [Next]_vars PROVE Types'
  BY Zenon
<1> USE LogAssumption DEF Types, Places, Goto, WakeupAnd, Committer, NoBlock, disk, log
<1>1. CASE UNCHANGED vars
  BY <1>1, Zenon DEF vars
<1>2. CASE Crash
  BY <1>2, Zenon DEF Crash
<1>3. CASE RecoverInstall
  BY <1>3 DEF RecoverInstall, InstallBlock, Fits, Data
<1>4. CASE RecoverDone
  BY <1>4 DEF RecoverDone
<1>5. ASSUME NEW b \in Block, Evict(b) PROVE Types'
  BY <1>5, Zenon DEF Evict
<1>6. ASSUME NEW t \in Thread, Step(t) PROVE Types'
  <2>1. CASE SysCall(t)
    BY <2>1 DEF SysCall
  <2>2. CASE BeginSleep(t)
    BY <2>2, Zenon DEF BeginSleep
  <2>3. CASE begin_op(t)
    BY <2>3 DEF begin_op
  <2>4. CASE log_write(t)
    <3>1. arg[t] \in Block
      BY <2>4 DEF log_write, Control
    <3>2. lh' \in Seq(Block)
      BY <2>4, <3>1 DEF log_write
    <3>3. arg' \in [Thread -> Block \cup {NoBlock}] /\ pc' \in [Thread -> Places]
      BY <2>4, Zenon DEF log_write
    <3> QED BY <2>4, <3>1, <3>2, <3>3 DEF log_write
  <2>5. CASE end_op(t)
    <3>1. outstanding # 0 /\ ~ committing
      <4>1. t \in Active /\ outstanding = Cardinality(Active) /\ IsFiniteSet(Active)
        BY <2>5, FS_Subset DEF end_op, Active, Counted
      <4>2. Cardinality(Active) # 0
        BY <4>1, FS_EmptySet, Zenon
      <4> QED BY <2>5, <4>1, <4>2, Zenon DEF end_op, Control
    <3>2. pc' \in [Thread -> Places]
      BY <2>5, <3>1 DEF end_op
    <3>3. committing' \in BOOLEAN /\ mine' \in [Thread -> SUBSET Block] /\ tail' = 0
      BY <2>5, <3>1, Zenon DEF end_op
    <3>4. UNCHANGED <<home, logblk, head, cache, dirty, lh, arg>> /\ outstanding' = outstanding - 1
      BY <2>5, Zenon DEF end_op
    <3> QED BY <3>1, <3>2, <3>3, <3>4
  <2>6. CASE write_log(t)
    <3>1. tail + 1 \in 1 .. LOGSIZE /\ lh[tail + 1] \in Block
      BY <2>6 DEF write_log, Data, DataAt, Fits
    <3> QED BY <2>6, <3>1 DEF write_log
  <2>7. CASE write_head(t)
    BY <2>7, Zenon DEF write_head
  <2>8. CASE install_trans(t)
    <3>1. tail + 1 \in 1 .. LOGSIZE /\ lh[tail + 1] \in Block
      BY <2>8 DEF install_trans, Data, DataAt, Fits
    <3>2. home' \in [Block -> Val] /\ cache' \in [Block -> Val] /\ dirty' \in SUBSET Block
      BY <2>8, <3>1, Zenon DEF install_trans, InstallBlock
    <3>3. \/ pc' = [pc EXCEPT ![t] = "clear"] /\ tail' = 0
          \/ pc' = pc /\ tail' = tail + 1
      BY <2>8, Zenon DEF install_trans
    <3>4. UNCHANGED <<logblk, head, lh, outstanding, committing, arg, mine>>
      BY <2>8, Zenon DEF install_trans
    <3> QED BY <3>2, <3>3, <3>4
  <2>9. CASE Erase(t)
    BY <2>9 DEF Erase
  <2>10. CASE Finish(t)
    BY <2>10, Zenon DEF Finish
  <2>11. ASSUME NEW b \in Block, NEW v \in Val, Modify(t, b, v) PROVE Types'
    <3>1. cache' \in [Block -> Val]
      BY <2>11, Zenon DEF Modify
    <3>2. \/ UNCHANGED <<pc, arg>>
          \/ Goto(t, "append") /\ arg' = [arg EXCEPT ![t] = b]
      BY <2>11, Zenon DEF Modify
    <3>3. pc' \in [Thread -> Places]
      BY <3>2, Zenon
    <3>4. arg' \in [Thread -> Block \cup {NoBlock}]
      BY <3>2
    <3> QED BY <2>11, <3>1, <3>3, <3>4, Zenon DEF Modify
  <2> QED BY <1>6, <2>1, <2>2, <2>3, <2>4, <2>5, <2>6, <2>7, <2>8, <2>9, <2>10, <2>11, Zenon DEF Step, Commit
<1> QED BY <1>1, <1>2, <1>3, <1>4, <1>5, <1>6, Zenon DEF Next

(* The counter of log.c is the number of system calls inside.              *)
LEMMA Inside == ASSUME Types PROVE IsFiniteSet(Active) /\ Cardinality(Active) \in Nat
BY LogAssumption, FS_Subset, FS_CardinalityType, Zenon DEF Active

LEMMA CountedStep == Types /\ Counted /\ Control /\ [Next]_vars => Counted'
<1> SUFFICES ASSUME Types, Counted, Control, [Next]_vars PROVE Counted'
  BY Zenon
<1> USE DEF Counted
<1>0. ASSUME Active' = Active, outstanding' = outstanding PROVE Counted'
  BY <1>0, Zenon
<1>1. CASE UNCHANGED vars
  BY <1>1, <1>0, Zenon DEF vars, log, Active
<1>2. CASE Crash
  BY <1>2, FS_EmptySet, Zenon DEF Crash, Active
<1>3. CASE RecoverInstall
  BY <1>3, <1>0, Zenon DEF RecoverInstall, log, Active
<1>4. CASE RecoverDone
  <2>1. Active' = Active
    BY <1>4, Zenon DEF RecoverDone, Down, Control, Active
  <2> QED BY <1>4, <2>1, Zenon DEF RecoverDone
<1>5. ASSUME NEW b \in Block, Evict(b) PROVE Counted'
  BY <1>5, <1>0, Zenon DEF Evict, log, Active
<1>6. ASSUME NEW t \in Thread, Step(t) PROVE Counted'
  <2> USE DEF Types, Goto
  <2>1. CASE SysCall(t)
    BY <2>1, <1>0, Zenon DEF SysCall, log, Active
  <2>2. CASE BeginSleep(t)
    BY <2>2, <1>0, Zenon DEF BeginSleep, log, Active
  <2>3. CASE begin_op(t)
    <3>1. Active' = Active \cup {t} /\ t \notin Active
      BY <2>3, Zenon DEF begin_op, Active
    <3> QED BY <2>3, <3>1, Inside, FS_AddElement, Zenon DEF begin_op
  <2>4. CASE log_write(t)
    BY <2>4, <1>0, Zenon DEF log_write, Active
  <2>5. CASE end_op(t)
    <3>1. ~ committing
      BY <2>5, Zenon DEF end_op, Control, Committer
    <3>2. Active' = Active \ {t} /\ t \in Active
      BY <2>5, <3>1 DEF end_op, WakeupAnd, Active
    <3>3. outstanding' = outstanding - 1
      BY <2>5, Zenon DEF end_op
    <3>4. Cardinality(Active') = Cardinality(Active) - 1
      BY <3>2, Inside, FS_RemoveElement, Zenon
    <3> QED BY <3>3, <3>4, Zenon
  <2>6. CASE Commit(t)
    BY <2>6, <1>0, Zenon DEF Commit, write_log, write_head, install_trans, Erase, Finish, WakeupAnd, log, Active
  <2>7. ASSUME NEW b \in Block, NEW v \in Val, Modify(t, b, v) PROVE Counted'
    BY <2>7, <1>0, Zenon DEF Modify, log, Active
  <2> QED BY <1>6, <2>1, <2>2, <2>3, <2>4, <2>5, <2>6, <2>7, Zenon DEF Step
<1> QED BY <1>1, <1>2, <1>3, <1>4, <1>5, <1>6, Zenon DEF Next

-----------------------------------------------------------------------------
(* One thread commits, alone; the buffer in the hands of a call is its own. *)
LEMMA ControlStep == Types /\ Counted /\ Control /\ [Next]_vars => Control'
<1> SUFFICES ASSUME Types, Counted, Control, [Next]_vars PROVE Control'
  BY Zenon
<1>1. CASE UNCHANGED vars
  BY <1>1, Zenon DEF vars, log, Control
<1>2. CASE Crash
  BY <1>2, Zenon DEF Crash, Control, Committer, NoBlock
<1>3. CASE RecoverInstall
  BY <1>3, Zenon DEF RecoverInstall, log, Control
<1>4. CASE RecoverDone
  BY <1>4, LogAssumption, Zenon DEF RecoverDone, Down, Control, Committer
<1>5. ASSUME NEW b \in Block, Evict(b) PROVE Control'
  BY <1>5 DEF Evict, log, Control
<1>6. ASSUME NEW t \in Thread, Step(t) PROVE Control'
  <2> USE DEF Types, Goto, Control, Committer
  <2>1. CASE SysCall(t)
    BY <2>1 DEF SysCall, log
  <2>2. CASE BeginSleep(t)
    BY <2>2 DEF BeginSleep, log
  <2>3. CASE begin_op(t)
    BY <2>3 DEF begin_op, MustWait
  <2>4. CASE log_write(t)
    BY <2>4 DEF log_write, NoBlock
  <2>5. CASE end_op(t)
    <3>1. ~ committing /\ arg' = arg /\ mine' = [mine EXCEPT ![t] = {}]
      BY <2>5, Zenon DEF end_op
    <3>2. CASE outstanding = 1
      <4>1. \A u \in Thread \ {t} : pc[u] \in {"user", "begin", "asleep"}
        <5>1. t \in Active /\ Cardinality(Active) = 1
          BY <2>5, <3>2, Zenon DEF end_op, Active, Counted
        <5>2. Active = {t}
          BY <5>1, Inside, FS_Singleton
        <5> QED BY <2>5, <3>1, <5>2 DEF end_op, Active, Places
      <4>2. committing' /\ \E l \in Committer : pc' = [pc EXCEPT ![t] = l]
        BY <2>5, <3>1, <3>2, Zenon DEF end_op
      <4> QED BY <2>5, <3>1, <4>1, <4>2 DEF end_op
    <3>3. CASE outstanding # 1
      <4>1. ~ committing' /\ WakeupAnd(t, "user")
        BY <2>5, <3>1, <3>3, Zenon DEF end_op
      <4> QED BY <2>5, <3>1, <4>1 DEF end_op, WakeupAnd
    <3> QED BY <3>2, <3>3, Zenon
  <2>6. CASE Commit(t)
    <3>1. CASE Finish(t)
      BY <3>1, Zenon DEF Finish, WakeupAnd
    <3>2. CASE write_log(t) \/ write_head(t) \/ install_trans(t) \/ Erase(t)
      <4>1. pc[t] \in Committer /\ \E l \in Committer : pc' = [pc EXCEPT ![t] = l]
        BY <3>2 DEF write_log, write_head, install_trans, Erase
      <4>2. committing' = committing /\ arg' = arg /\ mine' = mine
        BY <3>2, Zenon DEF write_log, write_head, install_trans, Erase, log
      <4> QED BY <4>1, <4>2
    <3> QED BY <2>6, <3>1, <3>2, Zenon DEF Commit
  <2>7. ASSUME NEW b \in Block, NEW v \in Val, Modify(t, b, v) PROVE Control'
    <3>1. pc[t] = "op" /\ b \in mine[t] /\ (\A u \in Thread : arg[u] # b) /\ b # NoBlock
      BY <2>7, LogAssumption DEF Modify, NoBlock
    <3>2. committing' = committing /\ mine' = mine
      BY <2>7, Zenon DEF Modify, log
    <3>3. CASE UNCHANGED <<pc, arg>>
      BY <3>2, <3>3
    <3>4. CASE Goto(t, "append") /\ arg' = [arg EXCEPT ![t] = b]
      BY <3>1, <3>2, <3>4
    <3> QED BY <2>7, <3>3, <3>4, Zenon DEF Modify
  <2> QED BY <1>6, <2>1, <2>2, <2>3, <2>4, <2>5, <2>6, <2>7, Zenon DEF Step
<1> QED BY <1>1, <1>2, <1>3, <1>4, <1>5, <1>6, Zenon DEF Next

LEMMA CallsStep == Types /\ Control /\ Calls /\ [Next]_vars => Calls'
<1> SUFFICES ASSUME Types, Control, Calls, [Next]_vars PROVE Calls'
  BY Zenon
<1> USE DEF Types, Calls
<1>1. CASE UNCHANGED vars
  BY <1>1, Zenon DEF vars
<1>2. CASE Crash
  BY <1>2, Zenon DEF Crash
<1>3. CASE RecoverInstall
  BY <1>3, Zenon DEF RecoverInstall
<1>4. CASE RecoverDone
  BY <1>4, Zenon DEF RecoverDone
<1>5. ASSUME NEW b \in Block, Evict(b) PROVE Calls'
  BY <1>5, Zenon DEF Evict
<1>6. ASSUME NEW t \in Thread, Step(t) PROVE Calls'
  <2> USE DEF Goto
  <2>1. CASE SysCall(t)
    BY <2>1, Zenon DEF SysCall
  <2>2. CASE BeginSleep(t) \/ begin_op(t) \/ log_write(t)
    BY <2>2 DEF BeginSleep, begin_op, log_write
  <2>3. CASE end_op(t)
    <3>1. ~ committing
      BY <2>3, Zenon DEF end_op, Control, Committer
    <3>2. \A u \in Thread \ {t} : mine'[u] = mine[u] /\ pc'[u] \in {pc[u], "begin"}
                                  /\ (pc'[u] # pc[u] => pc[u] = "asleep")
      BY <2>3, <3>1 DEF end_op, WakeupAnd
    <3>3. pc'[t] \in {"user", "finish", "write_log"}
      BY <2>3, <3>1 DEF end_op, WakeupAnd
    <3> QED BY <3>2, <3>3, Zenon
  <2>4. CASE Commit(t)
    BY <2>4 DEF Commit, write_log, write_head, install_trans, Erase, Finish, WakeupAnd
  <2>5. ASSUME NEW b \in Block, NEW v \in Val, Modify(t, b, v) PROVE Calls'
    BY <2>5 DEF Modify
  <2> QED BY <1>6, <2>1, <2>2, <2>3, <2>4, <2>5, Zenon DEF Step
<1> QED BY <1>1, <1>2, <1>3, <1>4, <1>5, <1>6, Zenon DEF Next

LEMMA OpenData ==
  ASSUME (\A i, j \in DOMAIN lh : lh[i] = lh[j] => i = j)', ~ Down', Open', Active' # {} \/ lh' = <<>>,
         \A t \in Thread : pc'[t] \notin Committer
  PROVE  Data'
<1>1. \A t \in Thread : DataAt(t)'
  BY Zenon DEF DataAt, Committer
<1> QED BY <1>1, Zenon DEF Data

LEMMA CommitData ==
  ASSUME (\A i, j \in DOMAIN lh : lh[i] = lh[j] => i = j)', ~ Down', committing', NEW t \in Thread,
         DataAt(t)', \A u \in Thread \ {t} : pc'[u] \in {"user", "begin", "asleep"}
  PROVE  Data'
<1>1. \A u \in Thread \ {t} : DataAt(u)'
  BY Zenon DEF DataAt
<1> QED BY <1>1, Zenon DEF Data

LEMMA InOp ==
  ASSUME Types, Control, NEW t \in Thread, pc[t] \in {"op", "append"}
  PROVE  ~ committing /\ ~ Down /\ \A u \in Thread : pc[u] \notin Committer
BY Zenon DEF Control, Committer, Down

LEMMA InCommit ==
  ASSUME Types, Control, NEW t \in Thread, pc[t] \in Committer
  PROVE  /\ committing /\ ~ Down /\ \A u \in Thread : arg[u] = NoBlock
         /\ \A u \in Thread \ {t} : pc[u] \in {"user", "begin", "asleep"}
<1>1. \A u \in Thread : pc[u] \notin {"append", "down"}
  BY DEF Control, Committer
<1> QED BY <1>1, Zenon DEF Control, Down

LEMMA CommitStep ==
  ASSUME Types, Control, NEW t \in Thread, pc[t] \in Committer, committing' = committing,
         (\A i, j \in DOMAIN lh : lh[i] = lh[j] => i = j)',
         pc' = pc \/ \E l \in Committer : pc' = [pc EXCEPT ![t] = l], DataAt(t)'
  PROVE  Data'
<1>1. committing' /\ ~ Down
  BY InCommit, Zenon
<1>2. \A u \in Thread \ {t} : pc'[u] \in {"user", "begin", "asleep"}
  BY InCommit DEF Types
<1>3. ~ Down'
  BY <1>1, <1>2 DEF Types, Down, Committer
<1> QED BY <1>1, <1>2, <1>3, CommitData, Zenon

(* What is on the disk and in the buffers, at every place of the commit.   *)
LEMMA LogWriteData ==
  ASSUME Types, Control, Data, Fits, panic = "no", NEW t \in Thread, log_write(t)
  PROVE  Data'
<1> USE DEF Types, Goto
<1> DEFINE b == arg[t]
<1>1. /\ pc[t] = "append" /\ b \in Block /\ dirty' = dirty \cup {b}
      /\ arg' = [arg EXCEPT ![t] = NoBlock] /\ pc' = [pc EXCEPT ![t] = "op"]
      /\ UNCHANGED <<home, logblk, head, cache, committing, tail, panic>>
  BY Zenon DEF log_write, Control, disk
<1>2. lh' = IF \E i \in DOMAIN lh : lh[i] = b THEN lh ELSE Append(lh, b)
  BY Zenon DEF log_write
<1>3. ~ Down' /\ (\A u \in Thread : pc'[u] \notin Committer) /\ t \in Active'
  BY <1>1, InOp DEF Down, Committer, Active
<1>4. Open
  BY <1>1, InOp, Zenon DEF Data
<1>5. Logged' = Logged \cup {b} /\ \A i, j \in DOMAIN lh' : lh'[i] = lh'[j] => i = j
  <2>1. CASE \E i \in DOMAIN lh : lh[i] = b
    BY <1>2, <2>1 DEF Logged, Data
  <2>2. CASE ~ \E i \in DOMAIN lh : lh[i] = b
    <3>1. /\ DOMAIN lh = 1 .. Len(lh) /\ DOMAIN lh' = 1 .. Len(lh) + 1
          /\ lh'[Len(lh) + 1] = b /\ \A i \in 1 .. Len(lh) : lh'[i] = lh[i]
      BY <1>1, <1>2, <2>2
    <3>2. \A i, j \in DOMAIN lh' : lh'[i] = lh'[j] => i = j
      BY <2>2, <3>1 DEF Data
    <3>3. 1 .. Len(lh) + 1 = (1 .. Len(lh)) \cup {Len(lh) + 1}
      OBVIOUS
    <3>4. \A c : c \in Logged' <=> c \in Logged \/ c = b
      BY <3>1, <3>3, Zenon DEF Logged
    <3> QED BY <3>2, <3>4, Zenon
  <2> QED BY <2>1, <2>2, Zenon
<1>6. Open'
  BY <1>1, <1>4, <1>5, Zenon DEF Open, Clean
<1> HIDE DEF b
<1> QED BY <1>3, <1>5, <1>6, OpenData, Zenon

LEMMA EndOpData ==
  ASSUME Types, Counted, Control, Data, Fits, panic = "no", NEW t \in Thread, end_op(t)
  PROVE  Data'
<1> USE DEF Types, Goto
<1>1. pc[t] = "op" /\ ~ committing /\ ~ Down /\ \A u \in Thread : pc[u] \notin Committer
  BY InOp, Zenon DEF end_op
<1>2. UNCHANGED <<home, logblk, head, cache, dirty, lh, arg, panic>> /\ tail' = 0
  BY <1>1, Zenon DEF end_op, disk
<1>3. Open /\ Open'
  BY <1>1, <1>2 DEF Data, Open, Clean, Logged
<1>4. CASE outstanding = 1
  <2>1. committing' /\ pc' = [pc EXCEPT ![t] = IF lh = <<>> THEN "finish" ELSE "write_log"]
    BY <1>1, <1>4, Zenon DEF end_op
  <2>2. Active = {t}
    <3>1. t \in Active /\ Cardinality(Active) = 1
      BY <1>1, <1>4, Zenon DEF Active, Counted
    <3> QED BY <3>1, Inside, FS_Singleton
  <2>3. \A u \in Thread : arg[u] \notin Block
    BY <1>1, <2>2, LogAssumption DEF Active, Control, NoBlock
  <2>4. lh = <<>> => cache = home /\ dirty = {}
    BY <1>3, <2>3 DEF Open, Clean, Logged
  <2>5. lh # <<>> => 0 < Len(lh) /\ Copied(0)'
    BY DEF Copied
  <2>6. ~ Down'
    BY <1>1, <2>1, Zenon DEF Down
  <2>7. lh # <<>> => Copied(tail)'
    BY <1>2, <2>5, Zenon
  <2>8. \A u \in Thread \ {t} : pc'[u] \in {"user", "begin", "asleep"}
    <3>1. \A u \in Thread \ {t} : pc[u] \in {"user", "begin", "asleep"}
      BY <1>1, <2>2, Zenon DEF Active, Places, Down
    <3> QED BY <2>1, <3>1, Zenon
  <2>9. DataAt(t)'
    BY <1>2, <1>3, <2>1, <2>4, <2>5, <2>7, Zenon DEF DataAt, Open
  <2> QED BY <1>2, <2>1, <2>6, <2>8, <2>9, CommitData, Zenon DEF Data
<1>5. CASE outstanding # 1
  <2>1. ~ committing' /\ WakeupAnd(t, "user")
    BY <1>1, <1>5, Zenon DEF end_op
  <2>2. ~ Down' /\ \A u \in Thread : pc'[u] \notin Committer
    BY <1>1, <2>1, Zenon DEF WakeupAnd, Down, Committer
  <2>3. Active' = Active \ {t} /\ t \in Active
    BY <1>1, <2>1, Zenon DEF WakeupAnd, Active
  <2>4. Active' # {}
    <3>1. ASSUME Active \ {t} = {} PROVE Cardinality(Active) = 1
      <4>1. Active = {t}
        BY <2>3, <3>1, Zenon
      <4> QED BY <4>1, FS_Singleton, Zenon
    <3> QED BY <1>5, <2>3, <3>1, Zenon DEF Counted
  <2> QED BY <1>2, <1>3, <2>2, <2>4, OpenData, Zenon DEF Data
<1> QED BY <1>4, <1>5, Zenon

LEMMA WriteLogData ==
  ASSUME Types, Control, Data, Fits, panic = "no", NEW t \in Thread, write_log(t)
  PROVE  Data'
<1> USE DEF Types, Goto
<1>1. /\ pc[t] = "write_log" /\ logblk' = [logblk EXCEPT ![tail + 1] = cache[lh[tail + 1]]]
      /\ UNCHANGED <<home, head, cache, dirty, lh, committing, arg, panic>>
  BY Zenon DEF write_log, log
<1>2. Open /\ tail < Len(lh) /\ Copied(tail) /\ tail + 1 \in 1 .. LOGSIZE
  BY <1>1, LogAssumption DEF Data, DataAt, Fits
<1>3. Open'
  BY <1>1, <1>2 DEF Open, Clean, Logged
<1>4. \A i \in 1 .. tail + 1 : logblk'[i] = cache'[lh'[i]]
  BY <1>1, <1>2 DEF Copied
<1>5. CASE tail + 1 = Len(lh)
  <2>1. tail' = 0 /\ pc' = [pc EXCEPT ![t] = "write_head"]
    BY <1>5, Zenon DEF write_log
  <2>2. Copied(Len(lh))' /\ lh # <<>>
    BY <1>1, <1>4, <1>5 DEF Copied
  <2>8. DataAt(t)'
    BY <1>1, <1>3, <2>1, <2>2, Zenon DEF DataAt
  <2> QED BY <1>1, <2>1, <2>8, CommitStep, Zenon DEF Data, Committer
<1>6. CASE tail + 1 # Len(lh)
  <2>1. tail' = tail + 1 /\ pc' = pc
    BY <1>6, Zenon DEF write_log
  <2>2. Copied(tail)' /\ tail' < Len(lh')
    BY <1>1, <1>2, <1>4, <1>6, <2>1 DEF Copied
  <2>8. DataAt(t)'
    BY <1>1, <1>3, <2>1, <2>2, Zenon DEF DataAt
  <2> QED BY <1>1, <2>1, <2>8, CommitStep, Zenon DEF Data, Committer
<1> QED BY <1>5, <1>6, Zenon

LEMMA WriteHeadData ==
  ASSUME Types, Control, Data, Fits, panic = "no", NEW t \in Thread, write_head(t)
  PROVE  Data'
<1> USE DEF Types, Goto
<1>1. /\ pc[t] = "write_head" /\ head' = lh /\ pc' = [pc EXCEPT ![t] = "install"]
      /\ UNCHANGED <<home, logblk, cache, dirty, lh, committing, arg, tail, panic>>
  BY Zenon DEF write_head, log
<1>2. Open /\ tail = 0 /\ lh # <<>> /\ Copied(Len(lh))
  BY <1>1, Zenon DEF Data, DataAt
<1>3. Clean' /\ Copied(Len(lh))' /\ Installed(tail)' /\ tail' < Len(lh')
  BY <1>1, <1>2 DEF Open, Clean, Logged, Copied, Installed
<1>4. dirty' = {lh'[i] : i \in tail' + 1 .. Len(lh')}
  BY <1>1, <1>2 DEF Open, Logged
<1>8. DataAt(t)'
  BY <1>1, <1>3, <1>4, Zenon DEF DataAt
<1> QED BY <1>1, <1>8, CommitStep, Zenon DEF Data, Committer

LEMMA InstallData ==
  ASSUME Types, Control, Data, Fits, panic = "no", NEW t \in Thread, install_trans(t)
  PROVE  Data'
<1> USE DEF Types, Goto
<1> DEFINE b == lh[tail + 1]
<1>1. /\ pc[t] = "install" /\ home' = [home EXCEPT ![b] = logblk[tail + 1]]
      /\ cache' = [cache EXCEPT ![b] = logblk[tail + 1]] /\ dirty' = dirty \ {b}
      /\ UNCHANGED <<logblk, head, lh, committing, arg, panic>>
  BY Zenon DEF install_trans, InstallBlock, log
<1>2. /\ head = lh /\ tail < Len(lh) /\ Copied(Len(lh)) /\ Installed(tail) /\ Clean
      /\ dirty = {lh[i] : i \in tail + 1 .. Len(lh)} /\ b \in Block
      /\ \A i, j \in DOMAIN lh : lh[i] = lh[j] => i = j
  BY <1>1 DEF Data, DataAt
<1>3. Copied(Len(lh))' /\ Clean'
  <2>1. \A i \in 1 .. Len(lh) : logblk[i] = cache'[lh[i]]
    <3> SUFFICES ASSUME NEW i \in 1 .. Len(lh) PROVE logblk[i] = cache'[lh[i]]
      BY Zenon
    <3>1. lh[i] \in Block /\ (lh[i] = b => i = tail + 1)
      BY <1>2
    <3> QED BY <1>1, <1>2, <3>1, Zenon DEF Copied
  <2>2. \A c \in Block : cache[c] = home[c] => cache'[c] = home'[c]
    BY <1>1, <1>2, Zenon
  <2>3. Copied(Len(lh))'
    BY <1>1, <2>1, Zenon DEF Copied
  <2>4. Logged' = Logged
    BY <1>1, Zenon DEF Logged
  <2>5. Clean'
    BY <1>1, <1>2, <2>2, <2>4 DEF Clean
  <2> QED BY <2>3, <2>5, Zenon
<1>4. \A i \in 1 .. tail + 1 : home'[lh'[i]] = logblk'[i]
  BY <1>1, <1>2 DEF Installed
<1>5. dirty' = {lh'[i] : i \in tail + 2 .. Len(lh)}
  <2>1. \A i \in tail + 1 .. Len(lh) : i \in DOMAIN lh /\ (lh[i] = b <=> i = tail + 1)
    BY <1>2
  <2> QED BY <1>1, <1>2, <2>1
<1> HIDE DEF b
<1>6. CASE tail + 1 = Len(lh)
  <2>1. tail' = 0 /\ pc' = [pc EXCEPT ![t] = "clear"]
    BY <1>6, Zenon DEF install_trans
  <2>2. dirty' = {} /\ Installed(Len(lh))'
    BY <1>1, <1>4, <1>5, <1>6 DEF Installed
  <2>3. cache' = home'
    <3>1. \A c \in Block : cache'[c] = home'[c]
      <4> SUFFICES ASSUME NEW c \in Block PROVE cache'[c] = home'[c]
        BY Zenon
      <4>1. CASE c \in Logged
        <5>1. PICK i \in 1 .. Len(lh) : c = lh[i]
          BY <4>1 DEF Logged
        <5> QED BY <1>1, <1>3, <2>2, <5>1 DEF Copied, Installed
      <4>2. CASE c \notin Logged
        BY <1>1, <1>3, <4>2, InCommit, LogAssumption DEF Clean, Logged, Committer, NoBlock
      <4> QED BY <4>1, <4>2, Zenon
    <3> QED BY <1>1, <3>1, Zenon
  <2>8. DataAt(t)'
    BY <1>1, <1>2, <2>1, <2>2, <2>3, Zenon DEF DataAt
  <2> QED BY <1>1, <2>1, <2>8, CommitStep, Zenon DEF Data, Committer
<1>7. CASE tail + 1 # Len(lh)
  <2>1. tail' = tail + 1 /\ pc' = pc
    BY <1>7, Zenon DEF install_trans
  <2>2. Installed(tail)' /\ tail' < Len(lh')
    BY <1>1, <1>2, <1>4, <1>7, <2>1 DEF Installed
  <2>3. dirty' = {lh'[i] : i \in tail' + 1 .. Len(lh')}
    BY <1>1, <1>5, <2>1
  <2>8. DataAt(t)'
    BY <1>1, <1>2, <1>3, <2>1, <2>2, <2>3, Zenon DEF DataAt
  <2> QED BY <1>1, <2>1, <2>8, CommitStep, Zenon DEF Data, Committer
<1> QED BY <1>6, <1>7, Zenon

LEMMA EraseData ==
  ASSUME Types, Control, Data, Fits, panic = "no", NEW t \in Thread, Erase(t)
  PROVE  Data'
<1> USE DEF Types, Goto
<1>1. /\ pc[t] = "clear" /\ pc' = [pc EXCEPT ![t] = "finish"] /\ lh' = <<>> /\ head' = <<>>
      /\ UNCHANGED <<home, cache, dirty, committing>>
  BY Zenon DEF Erase
<1>2. cache' = home' /\ dirty' = {}
  BY <1>1, Zenon DEF Data, DataAt
<1>8. DataAt(t)'
  BY <1>1, <1>2, Zenon DEF DataAt
<1>9. \A i, j \in DOMAIN lh' : lh'[i] = lh'[j] => i = j
  BY <1>1
<1> QED BY <1>1, <1>8, <1>9, CommitStep, Zenon DEF Committer

LEMMA FinishData ==
  ASSUME Types, Control, Data, Fits, panic = "no", NEW t \in Thread, Finish(t)
  PROVE  Data'
<1> USE DEF Types, Goto
<1>1. pc[t] = "finish" /\ ~ committing' /\ UNCHANGED <<home, head, lh, cache, dirty>>
  BY Zenon DEF Finish, disk
<1>2. lh' = <<>> /\ head' = <<>> /\ cache' = home' /\ dirty' = {}
  BY <1>1, Zenon DEF Data, DataAt
<1>3. \A u \in Thread : pc'[u] \in {"user", "begin"}
  BY <1>1, InCommit DEF Finish, WakeupAnd, Committer
<1>4. ~ Down' /\ Open'
  BY <1>2, <1>3 DEF Down, Open, Clean, Logged
<1> QED BY <1>1, <1>2, <1>3, <1>4, OpenData, Zenon DEF Data, Committer

LEMMA ModifyData ==
  ASSUME Types, Control, Data, Fits, panic = "no", NEW t \in Thread, NEW b \in Block, NEW v \in Val, Modify(t, b, v)
  PROVE  Data'
<1> USE DEF Types, Goto
<1>1. /\ pc[t] = "op" /\ cache' = [cache EXCEPT ![b] = v]
      /\ UNCHANGED <<disk, dirty, log, tail>>
  BY Zenon DEF Modify
<1>2. \/ panic' # "no" /\ UNCHANGED <<pc, arg>>
      \/ UNCHANGED panic /\ pc' = [pc EXCEPT ![t] = "append"] /\ arg' = [arg EXCEPT ![t] = b]
  BY Zenon DEF Modify
<1>3. ~ Down' /\ (\A u \in Thread : pc'[u] \notin Committer) /\ t \in Active'
  BY <1>1, <1>2, InOp DEF Down, Committer, Active
<1>4. Open
  BY <1>1, InOp, Zenon DEF Data
<1>5. Clean'
  <2>1. arg[t] \notin Block
    BY <1>1, LogAssumption, Zenon DEF Control, NoBlock
  <2> QED BY <1>1, <1>2, <1>4, <2>1 DEF Open, Clean, Logged, disk, log
<1>6. Open'
  BY <1>1, <1>4, <1>5, Zenon DEF Open, Logged, disk, log
<1> QED BY <1>1, <1>3, <1>6, OpenData, Zenon DEF Data, log

LEMMA EvictData ==
  ASSUME Types, Data, NEW b \in Block, Evict(b)
  PROVE  Data'
<1> USE DEF Types
<1>1. /\ b \notin dirty /\ cache' = [cache EXCEPT ![b] = home[b]]
      /\ UNCHANGED <<home, logblk, head, dirty, outstanding, committing, lh, pc, arg, tail, panic>>
  BY Zenon DEF Evict, log, disk
<1>2. UNCHANGED <<Logged, Active, Down>> /\ \A n \in Nat : Installed(n)' = Installed(n)
  BY <1>1 DEF Logged, Active, Down, Installed
<1>3. Clean => Clean'
  BY <1>1, <1>2, Zenon DEF Clean
<1>4. ASSUME NEW n \in Nat, n <= Len(lh), Copied(n), dirty = Logged PROVE Copied(n)'
  BY <1>1, <1>4 DEF Copied, Logged
<1>5. ASSUME tail < Len(lh), Copied(Len(lh)), Installed(tail), dirty = {lh[i] : i \in tail + 1 .. Len(lh)}
      PROVE  Copied(Len(lh))'
  BY <1>1, <1>5 DEF Copied, Installed
<1>6. cache = home => cache' = home'
  BY <1>1, Zenon
<1>7. Open => Open'
  BY <1>1, <1>2, <1>3, Zenon DEF Open
<1>8. ASSUME NEW u \in Thread, pc[u] = "write_log" PROVE (Open /\ tail < Len(lh) /\ Copied(tail))'
  BY <1>1, <1>4, <1>7, <1>8 DEF Data, DataAt, Open
<1>9. ASSUME NEW u \in Thread, pc[u] = "write_head" PROVE Open' /\ Copied(Len(lh))'
  BY <1>1, <1>4, <1>7, <1>9 DEF Data, DataAt, Open
<1>10. ASSUME NEW u \in Thread PROVE DataAt(u)'
  <2>1. CASE pc[u] = "install"
    BY <1>1, <1>2, <1>3, <1>5, <2>1 DEF Data, DataAt
  <2>2. CASE pc[u] # "install"
    BY <1>1, <1>2, <1>6, <1>8, <1>9, <2>2 DEF Data, DataAt
  <2> QED BY <2>1, <2>2, Zenon
<1> QED BY <1>1, <1>2, <1>6, <1>7, <1>10, Zenon DEF Data

LEMMA SameData == ASSUME Data, UNCHANGED vars PROVE Data'
<1>1. UNCHANGED <<home, logblk, head, cache, dirty, outstanding, committing, lh, pc, arg, tail, panic>>
  BY Zenon DEF vars, log, disk
<1>2. UNCHANGED <<Logged, Active, Down>>
  BY <1>1, Zenon DEF Logged, Active, Down
<1>3. Clean' = Clean
  BY <1>1, <1>2, Zenon DEF Clean
<1>4. Open' = Open
  BY <1>1, <1>2, <1>3, Zenon DEF Open
<1>5. \A n : Copied(n)' = Copied(n) /\ Installed(n)' = Installed(n)
  BY <1>1, Zenon DEF Copied, Installed
<1>6. \A u \in Thread : DataAt(u)' = DataAt(u)
  BY <1>1, <1>3, <1>4, <1>5 DEF DataAt
<1> QED BY <1>1, <1>2, <1>4, <1>5, <1>6, Zenon DEF Data

LEMMA DataStep == Inv /\ Fits /\ [Next]_vars => Data'
<1> SUFFICES ASSUME Types, Counted, Control, Data, Fits, [Next]_vars PROVE Data'
  BY Zenon DEF Inv
<1>1. CASE UNCHANGED vars
  BY <1>1, SameData, Zenon
<1>2. CASE Crash
  <2>1. head = lh \/ head = <<>>
    <3>1. CASE Down \/ ~ committing
      BY <3>1, Zenon DEF Data, Open
    <3>2. CASE ~ Down /\ committing
      BY <3>2 DEF Data, DataAt, Open, Control, Committer
    <3> QED BY <3>1, <3>2, Zenon
  <2>2. \A i, j \in DOMAIN head : head[i] = head[j] => i = j
    BY <2>1 DEF Data
  <2>3. Down'
    BY <1>2, LogAssumption, Zenon DEF Crash, Down
  <2> QED BY <1>2, <2>2, <2>3 DEF Crash, Data, DataAt, disk, Types, Installed
<1>3. CASE RecoverInstall
  <2>1. Down /\ tail < Len(lh) /\ Down'
    BY <1>3, Zenon DEF RecoverInstall, Down
  <2>2. \A t \in Thread : pc[t] = "down" /\ pc'[t] = "down"
    BY <1>3, <2>1, Zenon DEF RecoverInstall, Control, Down
  <2>3. Installed(tail)' /\ cache' = home' /\ dirty' = {}
    BY <1>3, <2>1 DEF RecoverInstall, InstallBlock, Data, Installed, Types, log
  <2> QED BY <1>3, <2>1, <2>2, <2>3 DEF RecoverInstall, Data, DataAt, Types, log
<1>4. CASE RecoverDone
  <2>1. lh' = <<>> /\ head' = <<>> /\ cache' = home' /\ dirty' = {}
    BY <1>4, Zenon DEF RecoverDone, Data
  <2>2. ~ Down' /\ \A t \in Thread : pc'[t] = "user"
    BY <1>4, Zenon DEF RecoverDone, Down
  <2>3. Open'
    BY <2>1 DEF Open, Clean, Logged
  <2> QED BY <2>1, <2>2, <2>3, OpenData DEF Committer
<1>5. ASSUME NEW b \in Block, Evict(b) PROVE Data'
  BY <1>5, EvictData, Zenon
<1>6. ASSUME NEW t \in Thread, Step(t), panic = "no" PROVE Data'
  <2>1. CASE SysCall(t) \/ BeginSleep(t)
    <3> USE DEF Types, Goto
    <3>1. UNCHANGED <<disk, cache, dirty, log, arg, tail, panic>>
      BY <2>1, Zenon DEF SysCall, BeginSleep
    <3>2. pc[t] \in {"user", "begin"} /\ \E l \in {"begin", "asleep"} : pc' = [pc EXCEPT ![t] = l]
      BY <2>1, Zenon DEF SysCall, BeginSleep
    <3>3. UNCHANGED <<Logged, Active, Down, Clean, Open>>
      <4>1. Logged' = Logged /\ UNCHANGED <<home, head, cache, dirty, arg, panic>>
        BY <3>1, Zenon DEF Logged, log, disk
      <4>2. Clean' = Clean
        BY <4>1, Zenon DEF Clean
      <4>3. Open' = Open
        BY <4>1, <4>2, Zenon DEF Open
      <4>4. UNCHANGED <<Active, Down>>
        BY <3>2 DEF Active, Down
      <4> QED BY <4>1, <4>2, <4>3, <4>4, Zenon
    <3>4. \A n \in Nat : Copied(n)' = Copied(n) /\ Installed(n)' = Installed(n)
      BY <3>1, Zenon DEF Copied, Installed, log, disk
    <3> QED BY <3>1, <3>2, <3>3, <3>4 DEF Data, DataAt, log, disk
  <2>2. CASE begin_op(t)
    <3> USE DEF Types, Goto
    <3>1. UNCHANGED <<disk, cache, dirty, committing, lh, arg, tail, panic>> /\ ~ committing
      BY <2>2, Zenon DEF begin_op, MustWait
    <3>2. ~ Down /\ \A u \in Thread : pc[u] \notin Committer
      BY <2>2, <3>1, Zenon DEF begin_op, Control, Down
    <3>3. ~ Down' /\ \A u \in Thread : pc'[u] \notin Committer
      BY <2>2, <3>2, Zenon DEF begin_op, Committer, Down
    <3>4. Active' # {}
      BY <2>2, Zenon DEF begin_op, Active
    <3>5. Open'
      BY <3>1, <3>2 DEF Data, Open, Clean, Logged, disk
    <3> QED BY <3>1, <3>3, <3>4, <3>5, OpenData, Zenon DEF Data
  <2>3. CASE log_write(t) \/ end_op(t)
    BY <1>6, <2>3, LogWriteData, EndOpData, Zenon
  <2>4. CASE Commit(t)
    BY <1>6, <2>4, WriteLogData, WriteHeadData, InstallData, EraseData, FinishData, Zenon DEF Commit
  <2>5. ASSUME NEW b \in Block, NEW v \in Val, Modify(t, b, v) PROVE Data'
    BY <1>6, <2>5, ModifyData, Zenon
  <2> QED BY <1>6, <2>1, <2>2, <2>3, <2>4, <2>5, Zenon DEF Step
<1> QED BY <1>1, <1>2, <1>3, <1>4, <1>5, <1>6, Zenon DEF Next

LEMMA InitInv == Init => Inv
<1> SUFFICES ASSUME Init PROVE Inv
  BY Zenon
<1>1. Types
  <2>1. logblk \in [1 .. LOGSIZE -> Val] /\ home \in [Block -> Val] /\ cache \in [Block -> Val]
    BY Zenon DEF Init
  <2>2. head \in Seq(Block) /\ lh \in Seq(Block)
    BY DEF Init
  <2> QED BY <2>1, <2>2, Zenon DEF Init, Types, Places, NoBlock
<1>2. Counted
  BY FS_EmptySet, Zenon DEF Init, Counted, Active
<1>3. Control /\ Calls
  BY Zenon DEF Init, Control, Calls, Committer
<1>4. Data
  BY DEF Init, Data, DataAt, Open, Clean, Logged, Active, Down
<1> QED BY <1>1, <1>2, <1>3, <1>4, Zenon DEF Inv

LEMMA InvStep == Inv /\ Fits /\ [Next]_vars => Inv'
BY TypesStep, CountedStep, ControlStep, CallsStep, DataStep, Zenon DEF Inv

-----------------------------------------------------------------------------
(* Induction over the natural numbers, for a set.                          *)
LEMMA NatSet ==
  ASSUME NEW S, 0 \in S, \A n \in Nat : n \in S => n + 1 \in S
  PROVE  Nat \subseteq S
<1> SUFFICES ASSUME Nat \ S # {} PROVE FALSE
  BY Zenon
<1> DEFINE R == OpToRel(<, Nat)
<1>1. IsWellFoundedOn(R, Nat)
  BY NatLessThanWellFounded, Zenon
<1>2. \A x, y \in Nat : x < y => <<x, y>> \in R
  BY Zenon DEF OpToRel
<1> HIDE DEF R
<1>3. PICK x \in Nat \ S : \A y \in Nat \ S : ~ (<<y, x>> \in R)
  BY <1>1, WFMin, Zenon
<1>4. x # 0
  BY <1>3, Zenon
<1>5. x - 1 \in Nat /\ x - 1 < x /\ x = (x - 1) + 1
  BY <1>4
<1>6. x - 1 \in S
  BY <1>2, <1>3, <1>5, Zenon
<1> QED BY <1>5, <1>6, Zenon

(* A finite union of sets of at most k elements.                           *)
LEMMA UnionBound ==
  ASSUME NEW A, IsFiniteSet(A), NEW f, NEW k \in Nat,
         \A a \in A : IsFiniteSet(f[a]) /\ Cardinality(f[a]) <= k
  PROVE  /\ IsFiniteSet(UNION {f[a] : a \in A})
         /\ Cardinality(UNION {f[a] : a \in A}) <= Cardinality(A) * k
<1> DEFINE U(B) == UNION {f[a] : a \in B}
           S == {n \in Nat : \A B \in SUBSET A : Cardinality(B) = n =>
                               IsFiniteSet(U(B)) /\ Cardinality(U(B)) <= n * k}
<1>1. 0 \in S
  <2> SUFFICES ASSUME NEW B \in SUBSET A, Cardinality(B) = 0
               PROVE  IsFiniteSet(U(B)) /\ Cardinality(U(B)) <= 0 * k
    BY Zenon
  <2>1. B = {}
    BY FS_Subset, FS_EmptySet, Zenon
  <2>2. U(B) = {}
    BY <2>1, Zenon
  <2> QED BY <2>2, FS_EmptySet
<1> HIDE DEF U
<1>2. ASSUME NEW n \in Nat, n \in S PROVE n + 1 \in S
  <2> SUFFICES ASSUME NEW B \in SUBSET A, Cardinality(B) = n + 1
               PROVE  IsFiniteSet(U(B)) /\ Cardinality(U(B)) <= (n + 1) * k
    OBVIOUS
  <2>1. IsFiniteSet(B) /\ B # {}
    BY FS_Subset, FS_EmptySet
  <2>2. PICK a \in B : TRUE
    BY <2>1, Zenon
  <2> DEFINE C == B \ {a}
  <2>3. C \in SUBSET A /\ Cardinality(C) = n
    <3>1. Cardinality(C) = (n + 1) - 1
      BY <2>1, <2>2, FS_RemoveElement, Zenon
    <3> QED BY <3>1
  <2>4. IsFiniteSet(U(C)) /\ Cardinality(U(C)) <= n * k
    BY <1>2, <2>3, Zenon
  <2>5. U(B) = U(C) \cup f[a]
    BY <2>2, Zenon DEF U
  <2>6. IsFiniteSet(f[a]) /\ Cardinality(f[a]) <= k
    BY <2>2, Zenon
  <2> HIDE DEF C
  <2>7. /\ IsFiniteSet(U(B))
        /\ Cardinality(U(B)) = Cardinality(U(C)) + Cardinality(f[a]) - Cardinality(U(C) \cap f[a])
    BY <2>4, <2>5, <2>6, FS_Union, Zenon
  <2>8. Cardinality(U(C)) \in Nat /\ Cardinality(f[a]) \in Nat /\ Cardinality(U(C) \cap f[a]) \in Nat
    BY <2>4, <2>6, FS_CardinalityType, FS_Intersection, Zenon
  <2>9. (n + 1) * k = n * k + k /\ n * k \in Nat
    OBVIOUS
  <2> QED BY <2>4, <2>6, <2>7, <2>8, <2>9
<1>3. Nat \subseteq S
  <2> HIDE DEF S
  <2> QED BY <1>1, <1>2, NatSet, Zenon
<1>4. Cardinality(A) \in S
  BY <1>3, FS_CardinalityType, Zenon
<1> QED BY <1>4, Zenon DEF U

-----------------------------------------------------------------------------
(* The blocks that are in the log or may still come, and the room for them. *)
Wanted == Logged \cup UNION {mine[t] : t \in Active}
AtMost(k) == \A S \in Writes : IsFiniteSet(S) /\ Cardinality(S) <= k
Room(k) == Active # {} => Cardinality(Wanted) <= LOGSIZE - k

LEMMA LoggedSize ==
  ASSUME Types, Data PROVE IsFiniteSet(Logged) /\ Cardinality(Logged) = Len(lh)
<1>1. lh \in Bijection(1 .. Len(lh), Logged)
  BY DEF Types, Data, Logged, Bijection, Injection, Surjection, IsInjective
<1>2. ExistsBijection(1 .. Len(lh), Logged)
  BY <1>1, Zenon DEF ExistsBijection
<1>3. Len(lh) \in Nat
  BY DEF Types
<1>4. ASSUME NEW n \in Nat PROVE IsFiniteSet(1 .. n) /\ Cardinality(1 .. n) = n
  <2>1. IsFiniteSet(1 .. n) /\ Cardinality(1 .. n) = IF 1 > n THEN 0 ELSE n - 1 + 1
    BY FS_Interval
  <2> QED BY <2>1
<1> QED BY <1>2, <1>3, <1>4, FS_Bijection, Zenon

LEMMA WantedSize ==
  ASSUME Inv, NEW k \in Nat, AtMost(k)
  PROVE  /\ IsFiniteSet(Wanted) /\ Cardinality(Wanted) \in Nat
         /\ Len(lh) <= Cardinality(Wanted)
         /\ Cardinality(Wanted) <= Len(lh) + outstanding * k
<1> DEFINE M == UNION {mine[t] : t \in Active}
<1>1. IsFiniteSet(M) /\ Cardinality(M) <= outstanding * k
  <2>1. IsFiniteSet(Active) /\ outstanding = Cardinality(Active)
    BY Inside, Zenon DEF Inv, Counted
  <2>2. \A t \in Active : IsFiniteSet(mine[t]) /\ Cardinality(mine[t]) <= k
    BY Zenon DEF Inv, Calls, AtMost, Active
  <2> QED BY <2>1, <2>2, UnionBound, Zenon
<1>2. IsFiniteSet(Logged) /\ Cardinality(Logged) = Len(lh)
  BY LoggedSize, Zenon DEF Inv
<1>3. Wanted = Logged \cup M
  BY Zenon DEF Wanted
<1> HIDE DEF M
<1>4. /\ IsFiniteSet(Wanted)
      /\ Cardinality(Wanted) = Cardinality(Logged) + Cardinality(M) - Cardinality(Logged \cap M)
  BY <1>1, <1>2, <1>3, FS_Union, Zenon
<1>5. Cardinality(Logged) <= Cardinality(Wanted)
  BY <1>3, <1>4, FS_Subset, Zenon
<1>6. Cardinality(M) \in Nat /\ Cardinality(Logged \cap M) \in Nat /\ Cardinality(Wanted) \in Nat
  BY <1>1, <1>2, <1>4, FS_CardinalityType, FS_Intersection, Zenon
<1>7. outstanding * k \in Nat /\ Len(lh) \in Nat
  BY DEF Inv, Types
<1> QED BY <1>1, <1>2, <1>4, <1>5, <1>6, <1>7

LEMMA WantedSizeNext ==
  ASSUME NEW k \in Nat, AtMost(k)
  PROVE  Inv' => /\ IsFiniteSet(Wanted)' /\ (Cardinality(Wanted) \in Nat)'
                 /\ (Len(lh) <= Cardinality(Wanted))'
                 /\ (Cardinality(Wanted) <= Len(lh) + outstanding * k)'
                 /\ (Cardinality(Logged) = Len(lh))'
<1>1. Inv => /\ IsFiniteSet(Wanted) /\ Cardinality(Wanted) \in Nat
             /\ Len(lh) <= Cardinality(Wanted)
             /\ Cardinality(Wanted) <= Len(lh) + outstanding * k
             /\ Cardinality(Logged) = Len(lh)
  BY WantedSize, LoggedSize, Zenon DEF Inv
<1> QED BY <1>1, PTL

(* Only begin_op adds to it.                                               *)
LEMMA WantedStep ==
  ASSUME Inv, [Next]_vars
  PROVE  \/ \E t \in Thread : begin_op(t)
         \/ /\ Wanted' \subseteq Wanted
            /\ Active' # {} => Active # {}
            /\ Active' = {} => Logged' \subseteq Logged
<1> DEFINE Less == /\ Wanted' \subseteq Wanted
                   /\ Active' # {} => Active # {}
                   /\ Active' = {} => Logged' \subseteq Logged
<1> USE DEF Inv
<1>0. ASSUME Logged' \subseteq Logged, Active' \subseteq Active, \A t \in Active' : mine'[t] = mine[t]
      PROVE  Less
  BY <1>0, Zenon DEF Wanted
<1>1. CASE UNCHANGED vars
  BY <1>1, <1>0, Zenon DEF vars, log, Logged, Active
<1>2. CASE Crash
  <2>1. head = lh \/ head = <<>>
    <3>1. CASE Down \/ ~ committing
      BY <3>1, Zenon DEF Data, Open
    <3>2. CASE ~ Down /\ committing
      BY <3>2, Zenon DEF Data, DataAt, Open, Control, Committer
    <3> QED BY <3>1, <3>2, Zenon
  <2> QED BY <1>2, <1>0, <2>1 DEF Crash, Logged, Active
<1>3. CASE RecoverInstall
  BY <1>3, <1>0, Zenon DEF RecoverInstall, log, Logged, Active
<1>4. CASE RecoverDone
  BY <1>4, <1>0 DEF RecoverDone, Logged, Active
<1>5. ASSUME NEW b \in Block, Evict(b) PROVE Less
  BY <1>5, <1>0, Zenon DEF Evict, log, Logged, Active
<1>6. ASSUME NEW t \in Thread, Step(t), ~ begin_op(t) PROVE Less
  <2> USE DEF Types, Goto
  <2>1. CASE SysCall(t)
    BY <2>1, <1>0, Zenon DEF SysCall, log, Logged, Active
  <2>2. CASE BeginSleep(t)
    BY <2>2, <1>0, Zenon DEF BeginSleep, log, Logged, Active
  <2>3. CASE log_write(t)
    <3>1. Active' = Active /\ mine' = mine /\ t \in Active
      BY <2>3, Zenon DEF log_write, Active
    <3>2. Logged' \subseteq Logged \cup {arg[t]} /\ arg[t] \in mine[t]
      BY <2>3 DEF log_write, Logged, Control
    <3> QED BY <3>1, <3>2 DEF Wanted
  <2>4. CASE end_op(t)
    <3>1. ~ committing
      BY <2>4, Zenon DEF end_op, Control, Committer
    <3>2. Active' \subseteq Active \ {t} /\ Logged' = Logged
      BY <2>4, <3>1 DEF end_op, Logged, Active, WakeupAnd
    <3>3. \A u \in Active' : mine'[u] = mine[u]
      BY <2>4, <3>1, <3>2, Zenon DEF end_op, Active
    <3> QED BY <1>0, <3>2, <3>3, Zenon
  <2>5. CASE Commit(t)
    <3>1. Active' = Active /\ mine' = mine
      BY <2>5, Zenon DEF Commit, write_log, write_head, install_trans, Erase, Finish, WakeupAnd, log, Active
    <3>2. lh' = lh \/ lh' = <<>>
      BY <2>5, Zenon DEF Commit, write_log, write_head, install_trans, Erase, Finish, log
    <3> QED BY <1>0, <3>1, <3>2 DEF Logged
  <2>6. ASSUME NEW b \in Block, NEW v \in Val, Modify(t, b, v) PROVE Less
    BY <2>6, <1>0, Zenon DEF Modify, log, Logged, Active
  <2> QED BY <1>6, <2>1, <2>2, <2>3, <2>4, <2>5, <2>6, Zenon DEF Step
<1> QED BY <1>1, <1>2, <1>3, <1>4, <1>5, <1>6, Zenon DEF Next

(* A call is let in when the log has room for all it may write.            *)
LEMMA BeginRoom ==
  ASSUME Inv, Inv', NEW k \in Nat, AtMost(k), NEW t \in Thread, begin_op(t)
  PROVE  /\ Cardinality(Wanted') <= Len(lh) + (outstanding + 1) * k
         /\ Len(lh) + (outstanding + 1) * MAXOPBLOCKS <= LOGSIZE
         /\ outstanding = 0 => lh = <<>>
         /\ lh' = lh /\ outstanding' = outstanding + 1
<1>1. lh' = lh /\ outstanding' = outstanding + 1 /\ ~ committing
  BY Zenon DEF begin_op, MustWait
<1>2. Cardinality(Wanted') <= Len(lh') + outstanding' * k
  BY WantedSizeNext, Zenon
<1>3. outstanding = 0 => lh = <<>>
  <2>1. ~ Down
    BY Zenon DEF begin_op, Inv, Control, Down
  <2>2. outstanding = 0 => Active = {}
    BY Inside, FS_EmptySet, Zenon DEF Inv, Counted
  <2> QED BY <1>1, <2>1, <2>2, Zenon DEF Inv, Data
<1>4. Len(lh) + (outstanding + 1) * MAXOPBLOCKS <= LOGSIZE
  BY LogAssumption DEF begin_op, MustWait, Inv, Types
<1> QED BY <1>1, <1>2, <1>3, <1>4, Zenon

LEMMA RoomStep ==
  ASSUME NEW k \in Nat, AtMost(k), NEW r \in Nat, Inv, Inv', Fits, Room(r), [Next]_vars,
         \A n, m \in Nat : n + (m + 1) * MAXOPBLOCKS <= LOGSIZE /\ (m = 0 => n = 0)
                             => n + (m + 1) * k <= LOGSIZE - r
  PROVE  Fits' /\ Room(r)'
<1>1. CASE \E t \in Thread : begin_op(t)
  <2>1. PICK t \in Thread : begin_op(t)
    BY <1>1, Zenon
  <2>2. /\ Cardinality(Wanted') <= Len(lh) + (outstanding + 1) * k
        /\ Len(lh) + (outstanding + 1) * MAXOPBLOCKS <= LOGSIZE
        /\ outstanding = 0 => lh = <<>>
        /\ lh' = lh /\ outstanding' = outstanding + 1
    BY <2>1, BeginRoom, Zenon
  <2>3. Len(lh) \in Nat /\ outstanding \in Nat /\ (lh = <<>> => Len(lh) = 0)
    BY DEF Inv, Types
  <2>4. Len(lh) + (outstanding + 1) * k <= LOGSIZE - r
    BY <2>2, <2>3, Zenon
  <2>5. Cardinality(Wanted') \in Nat
    BY WantedSizeNext, Zenon
  <2>6. Cardinality(Wanted') <= LOGSIZE - r
    BY <2>2, <2>3, <2>4, <2>5, LogAssumption
  <2> QED BY <2>2, <2>6, Zenon DEF Room, Fits
<1>2. CASE /\ Wanted' \subseteq Wanted
           /\ Active' # {} => Active # {}
           /\ Active' = {} => Logged' \subseteq Logged
  <2>1. IsFiniteSet(Wanted) /\ Cardinality(Wanted) \in Nat
    BY WantedSize, Zenon
  <2>2. Cardinality(Wanted') <= Cardinality(Wanted) /\ Cardinality(Wanted') \in Nat /\ Len(lh') <= Cardinality(Wanted')
    BY <1>2, <2>1, FS_Subset, WantedSizeNext, Zenon
  <2>3. Room(r)'
    BY <1>2, <2>1, <2>2, LogAssumption DEF Room
  <2>4. CASE Active' # {}
    <3>1. Cardinality(Wanted') <= LOGSIZE - r
      BY <2>3, <2>4, Zenon DEF Room
    <3>2. Len(lh') \in Nat
      BY DEF Inv, Types
    <3> QED BY <2>2, <2>3, <3>1, <3>2, LogAssumption DEF Fits
  <2>5. CASE Active' = {}
    <3>1. Cardinality(Logged') <= Cardinality(Logged)
      BY <1>2, <2>5, LoggedSize, FS_Subset, Zenon DEF Inv
    <3>2. Len(lh') <= Len(lh) /\ Len(lh') \in Nat /\ Len(lh) \in Nat
      <4>1. Cardinality(Logged') = Len(lh') /\ Cardinality(Logged) = Len(lh)
        BY LoggedSize, WantedSizeNext, Zenon DEF Inv
      <4>2. Len(lh') \in Nat /\ Len(lh) \in Nat
        BY DEF Inv, Types
      <4> QED BY <3>1, <4>1, <4>2, Zenon
    <3> QED BY <2>3, <3>2, LogAssumption DEF Fits
  <2> QED BY <2>4, <2>5, Zenon
<1> QED BY <1>1, <1>2, WantedStep, Zenon

-----------------------------------------------------------------------------
(* What keeps a transaction within the log: there are no more blocks than  *)
(* the log holds, or every system call keeps to what begin_op reserves for *)
(* it.                                                                     *)
FewBlocks == IsFiniteSet(Block) /\ Cardinality(Block) <= LOGSIZE
Reserved == AtMost(MAXOPBLOCKS)

LEMMA Always == ASSUME FewBlocks \/ Reserved PROVE Spec => [](Inv /\ Fits)
<1>1. Init => Fits /\ Room(0)
  <2> SUFFICES ASSUME Init PROVE Fits /\ Room(0)
    BY Zenon
  <2>1. Active = {} /\ Len(lh) = 0
    BY Zenon DEF Init, Active
  <2> QED BY <2>1, LogAssumption DEF Fits, Room
<1>2. CASE FewBlocks
  <2>1. Inv => Fits
    <3> SUFFICES ASSUME Inv PROVE Fits
      BY Zenon
    <3>1. Logged \in SUBSET Block
      BY DEF Inv, Types, Logged
    <3>2. Cardinality(Logged) <= Cardinality(Block) /\ Cardinality(Logged) = Len(lh)
      BY <1>2, <3>1, FS_Subset, LoggedSize, Zenon DEF FewBlocks, Inv
    <3>3. Cardinality(Block) \in Nat /\ Len(lh) \in Nat
      BY <1>2, FS_CardinalityType DEF FewBlocks, Inv, Types
    <3> QED BY <1>2, <3>2, <3>3, LogAssumption DEF FewBlocks, Fits
  <2> QED BY <2>1, InitInv, InvStep, PTL DEF Spec
<1>3. CASE Reserved
  <2>1. Inv /\ Fits /\ Room(0) /\ [Next]_vars => (Inv /\ Fits /\ Room(0))'
    <3> SUFFICES ASSUME Inv, Fits, Room(0), [Next]_vars PROVE (Inv /\ Fits /\ Room(0))'
      BY Zenon
    <3>1. Inv'
      BY InvStep, Zenon
    <3>2. MAXOPBLOCKS \in Nat /\ AtMost(MAXOPBLOCKS)
      BY <1>3, LogAssumption, Zenon DEF Reserved
    <3>3. \A n, m \in Nat : n + (m + 1) * MAXOPBLOCKS <= LOGSIZE /\ (m = 0 => n = 0)
                              => n + (m + 1) * MAXOPBLOCKS <= LOGSIZE - 0
      BY LogAssumption
    <3> HIDE DEF Room
    <3> QED BY <3>1, <3>2, <3>3, RoomStep, Zenon
  <2> QED BY <1>1, <2>1, InitInv, PTL DEF Spec
<1> QED BY <1>2, <1>3, Zenon

(* A kernel that has panicked did so inside a call.                        *)
Halted == panic # "no" => Active # {}

LEMMA HaltedAlways == ASSUME FewBlocks \/ Reserved PROVE Spec => []Halted
<1>1. Init => Halted
  BY Zenon DEF Init, Halted
<1>2. Inv /\ Halted /\ [Next]_vars => Halted'
  <2> SUFFICES ASSUME Inv, Halted, [Next]_vars PROVE Halted'
    BY Zenon
  <2> USE DEF Halted, Inv
  <2>1. CASE UNCHANGED vars
    BY <2>1, Zenon DEF vars, Active
  <2>2. ASSUME panic' = panic, panic = "no" PROVE Halted'
    BY <2>2, Zenon
  <2>3. ASSUME NEW t \in Thread, NEW b \in Block, NEW v \in Val, Modify(t, b, v), panic = "no"
        PROVE  Halted'
    BY <2>3, Zenon DEF Modify, Active, Goto, Types
  <2>4. ASSUME NEW t \in Thread, end_op(t) PROVE panic' = panic
    BY <2>4, Zenon DEF end_op, Control, Committer
  <2>5. ASSUME NEW t \in Thread, Step(t), ~ (\E b \in Block, v \in Val : Modify(t, b, v))
        PROVE  panic' = panic
    BY <2>4, <2>5, Zenon DEF Step, SysCall, BeginSleep, begin_op, log_write, Commit, write_log, write_head,
                      install_trans, Erase, Finish
  <2>6. ASSUME Crash \/ RecoverInstall \/ RecoverDone \/ \E b \in Block : Evict(b) PROVE panic' = panic
    BY <2>6, Zenon DEF Crash, RecoverInstall, RecoverDone, Evict
  <2> QED BY <2>1, <2>2, <2>3, <2>5, <2>6, Zenon DEF Next
<1> QED BY <1>1, <1>2, Always, PTL DEF Spec

(* Whoever sleeps in begin_op waits for a commit or for a call that is     *)
(* inside: an idle log has room for a call.                                *)
THEOREM LogNoLostWakeup == ASSUME FewBlocks \/ Reserved PROVE Spec => []NoLostWakeup
<1>1. Init => NoLostWakeup
  BY Zenon DEF Init, NoLostWakeup
<1>2. Inv /\ NoLostWakeup /\ [Next]_vars => NoLostWakeup'
  <2> SUFFICES ASSUME Inv, NoLostWakeup, [Next]_vars PROVE NoLostWakeup'
    BY Zenon
  <2> USE DEF NoLostWakeup, Inv, Types
  <2>1. CASE UNCHANGED vars
    BY <2>1, Zenon DEF vars, log
  <2>2. CASE Crash \/ RecoverInstall \/ RecoverDone
    BY <2>2, Zenon DEF Crash, RecoverInstall, RecoverDone, log
  <2>3. ASSUME NEW b \in Block, Evict(b) PROVE NoLostWakeup'
    BY <2>3, Zenon DEF Evict, log
  <2>4. ASSUME NEW t \in Thread, Step(t) PROVE NoLostWakeup'
    <3> USE DEF Goto
    <3>1. CASE SysCall(t)
      BY <3>1, Zenon DEF SysCall, log
    <3>2. CASE BeginSleep(t)
      <4>1. committing \/ outstanding > 0
        <5> SUFFICES ASSUME ~ committing, outstanding = 0 PROVE FALSE
          OBVIOUS
        <5>1. Active = {} /\ ~ Down
          BY <3>2, Inside, FS_EmptySet, Zenon DEF BeginSleep, Counted, Control, Down
        <5>2. lh = <<>>
          BY <5>1, Zenon DEF Data
        <5> QED BY <3>2, <5>2, LogAssumption DEF BeginSleep, MustWait
      <4> QED BY <3>2, <4>1, Zenon DEF BeginSleep, log
    <3>3. CASE begin_op(t)
      BY <3>3 DEF begin_op
    <3>4. CASE log_write(t)
      BY <3>4, Zenon DEF log_write
    <3>5. CASE end_op(t)
      <4>1. ~ committing
        BY <3>5, Zenon DEF end_op, Control, Committer
      <4>2. CASE outstanding = 1
        BY <3>5, <4>1, <4>2, Zenon DEF end_op
      <4>3. CASE outstanding # 1
        BY <3>5, <4>1, <4>3 DEF end_op, WakeupAnd
      <4> QED BY <4>2, <4>3, Zenon
    <3>6. CASE Commit(t)
      BY <3>6, Zenon DEF Commit, write_log, write_head, install_trans, Erase, Finish, WakeupAnd, log
    <3>7. ASSUME NEW b \in Block, NEW v \in Val, Modify(t, b, v) PROVE NoLostWakeup'
      BY <3>7, Zenon DEF Modify, log
    <3> QED BY <2>4, <3>1, <3>2, <3>3, <3>4, <3>5, <3>6, <3>7, Zenon DEF Step
  <2> QED BY <2>1, <2>2, <2>3, <2>4, Zenon DEF Next
<1> QED BY <1>1, <1>2, Always, PTL DEF Spec

(* With no call under way the buffers, the home blocks and an empty log    *)
(* agree.                                                                  *)
THEOREM LogDurable == ASSUME FewBlocks \/ Reserved PROVE Spec => []DurableWhenQuiet
<1>1. Inv /\ Halted => DurableWhenQuiet
  <2> SUFFICES ASSUME Inv, Halted, outstanding = 0, ~ committing, ~ Down
               PROVE  home = cache /\ head = <<>> /\ dirty = {}
    BY Zenon DEF DurableWhenQuiet
  <2>1. Active = {}
    BY Inside, FS_EmptySet, Zenon DEF Inv, Counted
  <2>2. lh = <<>> /\ Open /\ panic = "no"
    BY <2>1, Zenon DEF Inv, Data, Halted
  <2>3. \A t \in Thread : arg[t] \notin Block
    BY <2>1, LogAssumption, Zenon DEF Inv, Control, Active, NoBlock
  <2>4. \A b \in Block : cache[b] = home[b]
    BY <2>2, <2>3 DEF Open, Clean, Logged
  <2> QED BY <2>2, <2>4 DEF Open, Logged, Inv, Types
<1> QED BY <1>1, Always, HaltedAlways, PTL

-----------------------------------------------------------------------------
(* Calls that write less than they reserve never fill the log; log_write   *)
(* refuses a full log even when the block is in it already, hence the two. *)
Below == AtMost(MAXOPBLOCKS - 1) /\ MAXOPBLOCKS < LOGSIZE /\ LOGSIZE <= nlog

(* The kernel never runs into the assertions of log.c.                     *)
THEOREM LogNeverPanics == ASSUME Below PROVE Spec => []NeverPanics
<1> DEFINE I == Inv /\ Fits /\ Room(2) /\ NeverPanics
<1>1. Init => I
  <2> SUFFICES ASSUME Init PROVE Fits /\ Room(2) /\ NeverPanics
    BY InitInv, Zenon
  <2>1. Active = {} /\ Len(lh) = 0
    BY Zenon DEF Init, Active
  <2> QED BY <2>1, LogAssumption DEF Fits, Room, Init, NeverPanics
<1>2. I /\ [Next]_vars => I'
  <2> SUFFICES ASSUME I, [Next]_vars PROVE I'
    BY Zenon
  <2> DEFINE k == MAXOPBLOCKS - 1
  <2>1. Inv'
    BY InvStep, Zenon
  <2>2. k \in Nat /\ AtMost(k)
    BY LogAssumption DEF Below
  <2>3. \A n, m \in Nat : n + (m + 1) * MAXOPBLOCKS <= LOGSIZE /\ (m = 0 => n = 0)
                            => n + (m + 1) * k <= LOGSIZE - 2
    <3> SUFFICES ASSUME NEW n \in Nat, NEW m \in Nat, m = 0 => n = 0,
                        n + (m + 1) * MAXOPBLOCKS <= LOGSIZE
                 PROVE  n + (m + 1) * k <= LOGSIZE - 2
      BY Zenon
    <3>1. (m + 1) * k = (m + 1) * MAXOPBLOCKS - (m + 1)
      BY LogAssumption
    <3>2. CASE m = 0
      BY <3>2, LogAssumption DEF Below
    <3>3. CASE m # 0
      BY <3>1, <3>3, LogAssumption
    <3> QED BY <3>2, <3>3, Zenon
  <2> HIDE DEF k
  <2>4. Fits' /\ Room(2)'
    BY <2>1, <2>2, <2>3, RoomStep, Zenon
  <2>5. NeverPanics'
    <3>1. ASSUME NEW t \in Thread, NEW b \in Block, NEW v \in Val, Modify(t, b, v) PROVE panic' = panic
      <4>1. t \in Active
        BY <3>1, Zenon DEF Modify, Active
      <4>2. Cardinality(Wanted) <= LOGSIZE - 2 /\ Len(lh) <= Cardinality(Wanted)
            /\ Cardinality(Wanted) \in Nat
        BY <2>2, <4>1, WantedSize, Zenon DEF Room
      <4>3. ~ Full
        BY <4>2, LogAssumption DEF Full, Below, Inv, Types
      <4>4. outstanding >= 1
        BY <4>1, Inside, FS_EmptySet DEF Inv, Counted, Types
      <4>5. ~ (Full \/ outstanding < 1)
        BY <4>3, <4>4 DEF Inv, Types
      <4> QED BY <3>1, <4>5, Zenon DEF Modify
    <3>2. ASSUME NEW t \in Thread, end_op(t) PROVE panic' = panic
      BY <3>2, Zenon DEF end_op, Inv, Control, Committer
    <3>3. ASSUME NEW t \in Thread, Step(t) PROVE panic' = panic
      BY <3>1, <3>2, <3>3, Zenon DEF Step, SysCall, BeginSleep, begin_op, log_write, Commit, write_log,
                              write_head, install_trans, Erase, Finish
    <3>4. ASSUME Crash \/ RecoverInstall \/ RecoverDone \/ \E b \in Block : Evict(b) PROVE panic' = panic
      BY <3>4, Zenon DEF Crash, RecoverInstall, RecoverDone, Evict
    <3>5. CASE UNCHANGED vars
      BY <3>5, Zenon DEF vars, NeverPanics
    <3> QED BY <3>3, <3>4, <3>5, Zenon DEF Next, NeverPanics
  <2> QED BY <2>1, <2>4, <2>5, Zenon
<1> QED BY <1>1, <1>2, PTL DEF Spec

-----------------------------------------------------------------------------
(* What a crash leaves behind, at every place of the commit.               *)
LEMMA RecoveredOpen == ASSUME Types, head = <<>> PROVE Recovered = home
BY DEF Types, Recovered

LEMMA RecoveredLogged ==
  ASSUME Types, Data, head = lh, NEW i \in 1 .. Len(lh) PROVE Recovered[lh[i]] = logblk[i]
<1>1. lh[i] \in Block /\ i \in DOMAIN head
  BY DEF Types
<1>2. (CHOOSE j \in DOMAIN head : head[j] = lh[i]) = i
  BY <1>1, Zenon DEF Data
<1> QED BY <1>1, <1>2, Zenon DEF Recovered

LEMMA RecoveredHome ==
  ASSUME Types, NEW b \in Block, \A i \in DOMAIN head : head[i] # b PROVE Recovered[b] = home[b]
BY Zenon DEF Recovered

LEMMA RecoveredInstalled ==
  ASSUME Types, Data, head = lh, Installed(Len(lh)) PROVE Recovered = home
<1>1. \A b \in Block : Recovered[b] = home[b]
  <2> SUFFICES ASSUME NEW b \in Block PROVE Recovered[b] = home[b]
    BY Zenon
  <2>1. CASE \E i \in DOMAIN head : head[i] = b
    <3>1. PICK i \in 1 .. Len(lh) : lh[i] = b
      BY <2>1 DEF Types
    <3> QED BY <3>1, RecoveredLogged, Zenon DEF Installed
  <2>2. CASE ~ \E i \in DOMAIN head : head[i] = b
    BY <2>2, RecoveredHome, Zenon
  <2> QED BY <2>1, <2>2, Zenon
<1> QED BY <1>1 DEF Recovered, Types

LEMMA RecoveredCommitted ==
  (Types /\ Data /\ head = lh /\ Copied(Len(lh)) /\ \A b \in Block \ Logged : cache[b] = home[b])'
    => (Recovered = cache)'
<1>1. ASSUME Types, Data, head = lh, Copied(Len(lh)), \A b \in Block \ Logged : cache[b] = home[b]
      PROVE  Recovered = cache
  <2>1. \A b \in Block : Recovered[b] = cache[b]
    <3> SUFFICES ASSUME NEW b \in Block PROVE Recovered[b] = cache[b]
      BY Zenon
    <3>1. CASE b \in Logged
      <4>1. PICK i \in 1 .. Len(lh) : lh[i] = b
        BY <3>1 DEF Types, Logged
      <4> QED BY <1>1, <4>1, RecoveredLogged, Zenon DEF Copied
    <3>2. CASE b \notin Logged
      BY <1>1, <3>2, RecoveredHome, Zenon DEF Logged
    <3> QED BY <3>1, <3>2, Zenon
  <2> QED BY <1>1, <2>1, Zenon DEF Recovered, Types
<1>2. Types /\ Data /\ head = lh /\ Copied(Len(lh)) /\ (\A b \in Block \ Logged : cache[b] = home[b])
        => Recovered = cache
  BY <1>1, Zenon
<1> QED BY <1>2, PTL

(* Bringing a logged block home changes nothing a crash would see.         *)
LEMMA RecoveredInstall ==
  ASSUME Types, head = lh, tail < Len(lh), head' = head, logblk' = logblk,
         home' = [home EXCEPT ![lh[tail + 1]] = logblk[tail + 1]]
  PROVE  Recovered' = Recovered
<1>1. \A b \in Block : (\A i \in DOMAIN head : head[i] # b) => home'[b] = home[b]
  BY DEF Types
<1> QED BY <1>1, Zenon DEF Recovered

(* A buffer that is neither pinned nor held is what is on its home block.  *)
LEMMA CleanBuffer ==
  ASSUME Inv, panic = "no", NEW b \in Block, b \notin dirty, \A t \in Thread : arg[t] # b
  PROVE  cache[b] = home[b]
<1> USE DEF Inv
<1>1. Down \/ ~ committing \/ \E t \in Thread : pc[t] \in Committer
  BY Zenon DEF Control
<1>2. CASE Open
  BY <1>2, Zenon DEF Open, Clean
<1>3. CASE cache = home
  BY <1>3, Zenon
<1>4. ASSUME NEW t \in Thread, pc[t] = "install" PROVE cache[b] = home[b]
  <2>1. /\ tail < Len(lh) /\ Copied(Len(lh)) /\ Installed(tail) /\ Clean
        /\ dirty = {lh[i] : i \in tail + 1 .. Len(lh)}
    BY <1>4, Zenon DEF Data, DataAt
  <2>2. CASE b \in Logged
    <3>1. PICK i \in 1 .. Len(lh) : lh[i] = b
      BY <2>2 DEF Logged, Types
    <3>2. i \in 1 .. tail
      BY <2>1, <3>1 DEF Types
    <3> QED BY <2>1, <3>1, <3>2, Zenon DEF Copied, Installed
  <2> QED BY <2>1, <2>2, Zenon DEF Clean
<1>5. ASSUME NEW t \in Thread, pc[t] \in Committer, pc[t] # "install" PROVE Open \/ cache = home
  BY <1>5, Zenon DEF Data, DataAt, Committer
<1>6. Down \/ ~ committing => Open \/ cache = home
  BY Zenon DEF Data
<1> QED BY <1>1, <1>2, <1>3, <1>4, <1>5, <1>6, Zenon

AbstractStep == [Abstract!Next]_<<Current, Recovered, Active>>

LEMMA Invisible ==
  ASSUME Current' = Current, Recovered' = Recovered, Active' = Active PROVE AbstractStep
BY Zenon DEF AbstractStep

LEMMA SameDisk ==
  ASSUME home' = home, logblk' = logblk, head' = head PROVE Recovered' = Recovered
BY Zenon DEF Recovered

(* A commit becomes visible with the header of the log, and only then.     *)
LEMMA CommitRefines ==
  ASSUME Inv, Inv', panic = "no", NEW t \in Thread, Commit(t) PROVE AbstractStep
<1>1. pc[t] \in Committer
  BY Zenon DEF Commit, write_log, write_head, install_trans, Erase, Finish, Committer
<1>2. Types /\ Control /\ Data /\ Data'
  BY Zenon DEF Inv
<1>3. ~ Down /\ Active = {} /\ \A u \in Thread : arg[u] \notin Block
  BY <1>1, <1>2, InCommit, LogAssumption, Zenon DEF Active, NoBlock, Committer
<1>4. \A u \in Thread : pc'[u] \in Committer \cup {"user", "begin", "asleep"}
  <2>1. \A u \in Thread \ {t} : pc[u] \in {"user", "begin", "asleep"}
    BY <1>1, <1>2, InCommit, Zenon
  <2>2. CASE Finish(t)
    BY <2>1, <2>2, Zenon DEF Finish, WakeupAnd
  <2>3. CASE ~ Finish(t)
    <3>1. pc' = pc \/ \E l \in Committer : pc' = [pc EXCEPT ![t] = l]
      BY <2>3, Zenon DEF Commit, write_log, write_head, install_trans, Erase, Goto, Committer
    <3> QED BY <1>1, <1>2, <2>1, <3>1, Zenon DEF Types
  <2> QED BY <2>2, <2>3, Zenon
<1>5. ~ Down' /\ Active' = Active
  BY <1>3, <1>4, Zenon DEF Down, Active, Committer
<1>6. cache' = cache => Current' = Current
  BY <1>3, <1>5, Zenon DEF Current
<1>7. CASE write_log(t)
  <2>1. head = <<>> /\ head' = <<>> /\ home' = home /\ cache' = cache
    BY <1>2, <1>7, Zenon DEF write_log, Data, DataAt, Open
  <2>2. Recovered' = Recovered
    BY <2>1 DEF Recovered
  <2> QED BY <1>5, <1>6, <2>1, <2>2, Invisible, Zenon
<1>8. CASE write_head(t)
  <2>1. Recovered' = cache
    <3>1. pc'[t] = "install" /\ panic' = "no" /\ UNCHANGED <<cache, arg>>
      BY <1>2, <1>8, Zenon DEF write_head, Goto, Types
    <3>2. head' = lh' /\ Copied(Len(lh))' /\ Clean'
      BY <1>2, <3>1, Zenon DEF Data, DataAt
    <3>3. \A b \in Block \ Logged' : cache'[b] = home'[b]
      BY <1>3, <3>1, <3>2, Zenon DEF Clean
    <3> QED BY <3>1, <3>2, <3>3, RecoveredCommitted, Zenon DEF Inv
  <2>2. Abstract!Commit
    BY <1>3, <1>5, <1>6, <1>8, <2>1, Zenon DEF Abstract!Commit, Current, write_head
  <2> QED BY <2>2, Zenon DEF AbstractStep, Abstract!Next
<1>9. CASE install_trans(t)
  <2>1. head = lh /\ tail < Len(lh) /\ Copied(Len(lh))
    BY <1>2, <1>9, Zenon DEF install_trans, Data, DataAt
  <2>2. Recovered' = Recovered
    BY <1>2, <1>9, <2>1, RecoveredInstall, Zenon DEF install_trans, InstallBlock
  <2>3. logblk[tail + 1] = cache[lh[tail + 1]]
    BY <1>2, <2>1 DEF Copied, Types
  <2>4. cache' = cache
    BY <1>2, <1>9, <2>3, Zenon DEF install_trans, InstallBlock, Types
  <2> QED BY <1>5, <1>6, <2>2, <2>4, Invisible, Zenon
<1>10. CASE Erase(t)
  <2>1. Recovered = home
    <3>1. head = lh /\ Installed(Len(lh))
      BY <1>2, <1>10, Zenon DEF Erase, Data, DataAt
    <3> QED BY <1>2, <3>1, RecoveredInstalled, Zenon
  <2>2. Recovered' = home
    BY <1>2, <1>10 DEF Erase, Recovered, Types
  <2>3. cache' = cache
    BY <1>10, Zenon DEF Erase
  <2> QED BY <1>5, <1>6, <2>1, <2>2, <2>3, Invisible, Zenon
<1>11. CASE Finish(t)
  BY <1>5, <1>6, <1>11, SameDisk, Invisible, Zenon DEF Finish, disk
<1> QED BY <1>7, <1>8, <1>9, <1>10, <1>11, Zenon DEF Commit

(* Every step is one of an atomic disk: begin_op begins, a change of a     *)
(* buffer writes, end_op ends, the write of the header commits, and a      *)
(* crash falls back to the last commit; all other steps are invisible.     *)
LEMMA CallRefines ==
  ASSUME Types, Control, NEW t \in Thread, Step(t), ~ Commit(t) PROVE AbstractStep
<1>1. ~ Down
  <2>1. pc[t] # "down"
    BY Zenon DEF Step, SysCall, BeginSleep, begin_op, log_write, end_op, Modify
  <2> QED BY <2>1, Zenon DEF Control, Down
<1>2. ASSUME NEW l, pc' = pc \/ pc' = [pc EXCEPT ![t] = l], l # "down" PROVE ~ Down'
  BY <1>1, <1>2, Zenon DEF Down, Types
<1>3. ~ Down' /\ cache' = cache => Current' = Current
  BY <1>1, Zenon DEF Current
<1>4. CASE SysCall(t) \/ BeginSleep(t) \/ log_write(t)
  <2>1. ~ Down' /\ Active' = Active
    BY <1>1, <1>4, Zenon DEF SysCall, BeginSleep, log_write, Goto, Active, Down, Types
  <2>2. home' = home /\ logblk' = logblk /\ head' = head /\ cache' = cache
    BY <1>4, Zenon DEF SysCall, BeginSleep, log_write, disk
  <2> QED BY <1>3, <2>1, <2>2, SameDisk, Invisible, Zenon
<1>5. CASE begin_op(t)
  <2>1. ~ Down' /\ Active' = Active \cup {t} /\ t \notin Active
    BY <1>1, <1>5, Zenon DEF begin_op, Goto, Active, Down, Types
  <2>2. Recovered' = Recovered /\ Current' = Current
    BY <1>3, <1>5, <2>1, SameDisk, Zenon DEF begin_op, disk
  <2>3. Abstract!Begin(t)
    BY <2>1, <2>2, Zenon DEF Abstract!Begin
  <2> QED BY <2>3, Zenon DEF AbstractStep, Abstract!Next
<1>6. CASE end_op(t)
  <2>1. pc[t] = "op" /\ ~ committing
    BY <1>6, InOp, Zenon DEF end_op
  <2>2. WakeupAnd(t, "user") \/ \E l \in {"finish", "write_log"} : pc' = [pc EXCEPT ![t] = l]
    BY <1>6, <2>1, Zenon DEF end_op, Goto
  <2>3. ~ Down' /\ Active' = Active \ {t} /\ t \in Active
    BY <1>1, <2>1, <2>2, Zenon DEF WakeupAnd, Active, Down, Types
  <2>4. Recovered' = Recovered /\ Current' = Current
    BY <1>3, <1>6, <2>3, SameDisk, Zenon DEF end_op, disk
  <2>5. Abstract!End(t)
    BY <2>3, <2>4, Zenon DEF Abstract!End
  <2> QED BY <2>5, Zenon DEF AbstractStep, Abstract!Next
<1>7. ASSUME NEW b \in Block, NEW v \in Val, Modify(t, b, v) PROVE AbstractStep
  <2>1. pc' = pc \/ pc' = [pc EXCEPT ![t] = "append"]
    BY <1>7, Zenon DEF Modify, Goto
  <2>2. ~ Down' /\ Active' = Active /\ t \in Active
    BY <1>1, <1>7, <2>1, Zenon DEF Modify, Active, Down, Types
  <2>3. Recovered' = Recovered /\ Current' = [Current EXCEPT ![b] = v]
    BY <1>1, <1>7, <2>2, SameDisk, Zenon DEF Modify, disk, Current
  <2>4. Abstract!Write(t, b, v)
    BY <2>2, <2>3, Zenon DEF Abstract!Write
  <2> QED BY <2>4, Zenon DEF AbstractStep, Abstract!Next
<1> QED BY <1>4, <1>5, <1>6, <1>7, Zenon DEF Step

LEMMA RefineStep ==
  ASSUME Inv, Inv', Fits, [Next]_vars PROVE AbstractStep
<1>0. Types /\ Control /\ Data
  BY Zenon DEF Inv
<1>1. CASE UNCHANGED vars
  <2>1. Recovered' = Recovered
    BY <1>1, SameDisk, Zenon DEF vars, disk
  <2> QED BY <1>1, <2>1, Invisible, Zenon DEF vars, log, disk, Current, Active, Down
<1>2. CASE Crash
  <2>1. Recovered' = Recovered
    BY <1>2, SameDisk, Zenon DEF Crash, disk
  <2>2. Down' /\ Active' = {}
    BY <1>2, LogAssumption, Zenon DEF Crash, Down, Active
  <2>3. Abstract!Crash
    BY <2>1, <2>2, Zenon DEF Abstract!Crash, Current
  <2> QED BY <2>3, Zenon DEF AbstractStep, Abstract!Next
<1>3. CASE RecoverInstall
  <2>1. Down /\ Down' /\ Active' = Active /\ head = lh /\ tail < Len(lh)
    BY <1>0, <1>3, Zenon DEF RecoverInstall, Down, Active, Data
  <2>2. Recovered' = Recovered
    BY <1>0, <1>3, <2>1, RecoveredInstall, Zenon DEF RecoverInstall, InstallBlock
  <2> QED BY <2>1, <2>2, Invisible, Zenon DEF Current
<1>4. CASE RecoverDone
  <2>1. Down /\ ~ Down' /\ tail = Len(lh) /\ head' = <<>> /\ home' = home /\ cache' = cache
    BY <1>4, Zenon DEF RecoverDone, Down
  <2>2. Recovered = home /\ cache = home
    BY <1>0, <2>1, RecoveredInstalled, Zenon DEF Data
  <2>3. Recovered' = home'
    BY <1>0, <2>1 DEF Recovered, Types
  <2>4. Active' = Active
    BY <1>0, <1>4, <2>1, Zenon DEF RecoverDone, Active, Control, Down
  <2> QED BY <2>1, <2>2, <2>3, <2>4, Invisible, Zenon DEF Current
<1>5. ASSUME NEW b \in Block, Evict(b), panic = "no" PROVE AbstractStep
  <2>1. Down' = Down /\ Active' = Active /\ Recovered' = Recovered
    BY <1>5, SameDisk, Zenon DEF Evict, Down, Active, disk
  <2>2. cache[b] = home[b]
    BY <1>5, CleanBuffer, Zenon DEF Evict
  <2>3. cache' = cache
    BY <1>0, <1>5, <2>2, Zenon DEF Evict, Types
  <2> QED BY <2>1, <2>3, Invisible, Zenon DEF Current
<1>6. ASSUME NEW t \in Thread, Step(t), panic = "no" PROVE AbstractStep
  BY <1>0, <1>6, CommitRefines, CallRefines, Zenon DEF Step
<1> QED BY <1>1, <1>2, <1>3, <1>4, <1>5, <1>6, Zenon DEF Next

(* The log implements a disk on which the writes of system calls become    *)
(* durable together or not at all.                                         *)
THEOREM LogAtomic == ASSUME FewBlocks \/ Reserved PROVE Spec => AtomicTransactions
<1>1. Init => Abstract!Init
  <2> SUFFICES ASSUME Init PROVE Abstract!Init
    BY Zenon
  <2>1. Recovered = home /\ home \in [Block -> Val]
    BY DEF Init, Recovered
  <2>2. ~ Down /\ Active = {}
    BY Zenon DEF Init, Down, Active
  <2> QED BY <2>1, <2>2, Zenon DEF Abstract!Init, Current, Init
<1>2. Inv /\ Fits /\ Inv' /\ [Next]_vars => [Abstract!Next]_<<Current, Recovered, Active>>
  BY RefineStep, Zenon DEF AbstractStep
<1> QED BY <1>1, <1>2, Always, PTL DEF Spec, AtomicTransactions, Abstract!Spec
=============================================================================

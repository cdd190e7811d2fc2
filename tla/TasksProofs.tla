---------------------------- MODULE TasksProofs ----------------------------
(***************************************************************************)
(* Proofs about Tasks for any number of tasks, locks, fifos and priorities.*)
(*                                                                         *)
(* KernelInv: no part of the kernel keeps a pointer to a freed Ktask that  *)
(* it would follow, and the counters of parked tasks never get below the   *)
(* truth.                                                                  *)
(*                                                                         *)
(* ParkInv: in programs that use no locks, or no onexit() and onerror()    *)
(* functions, whoever has to restart a parked task can find it: a sleeping *)
(* task has its entry in the schedule, a blocked one its fifo, one that    *)
(* waits for a lock its place in exactly one line; and lock() and unlock() *)
(* implement LockService.                                                  *)
(***************************************************************************)
EXTENDS Tasks, FiniteSetTheorems, TLAPS

-----------------------------------------------------------------------------
(* Types.                                                                  *)

(* The lists that taskkill() builds hold tasks. *)
LEMMA KillListsType ==
  ASSUME TypeOK, NEW x \in Task
  PROVE  KillLists(x) \subseteq Seq(Task)
<1>1. CASE ~anychild[x]
  BY <1>1 DEF KillLists
<1>2. CASE anychild[x]
  <2>1. \A n : n \in 1 .. Cardinality(Live) => [1 .. n -> Live] \subseteq Seq(Task)
    BY DEF Live
  <2> QED BY <1>2, <2>1 DEF KillLists
<1> QED BY <1>1, <1>2

(* wakewaiters() restarts finitely many tasks. *)
LEMMA WaitersFinite ==
  ASSUME NEW x \in Task
  PROVE  Waiters(x) \subseteq Task /\ Cardinality(Waiters(x)) \in Nat
<1>1. Waiters(x) \subseteq Task
  BY DEF Waiters
<1>2. IsFiniteSet(Waiters(x))
  BY <1>1, TaskAssumption, FS_Subset
<1> QED BY <1>1, <1>2, FS_CardinalityType

LEMMA PhraseWaitersFinite ==
  PhraseWaiters \subseteq InState("WAITING") /\ Cardinality(PhraseWaiters) \in Nat
<1>1. PhraseWaiters \subseteq InState("WAITING") /\ PhraseWaiters \subseteq Task
  BY DEF PhraseWaiters, Waiters, InState
<1>2. IsFiniteSet(PhraseWaiters)
  BY <1>1, TaskAssumption, FS_Subset
<1> QED BY <1>1, <1>2, FS_CardinalityType

LEMMA StartKillType ==
  ASSUME TypeOK, NEW t \in Task, NEW x \in Task, StartKill(t, x), Inerror' \in 0 .. 2
  PROVE  KillTypeOK'
<1>1. KillLists(x) \subseteq Seq(Task)
  BY KillListsType
<1>2. todo' = <<>> \/ todo' \in KillLists(x)
  BY DEF StartKill
<1>3. todo' \in Seq(Task)
  <2>1. <<>> \in Seq(Task)
    OBVIOUS
  <2> QED BY <1>1, <1>2, <2>1, Zenon
<1> QED BY <1>3, TaskAssumption DEF StartKill, KillTypeOK

LEMMA RaiseErrorType ==
  ASSUME TypeOK, NEW t \in Task, RaiseError(t)
  PROVE  KillTypeOK'
<1>1. CASE Inerror < 2
  <2>1. Inerror' \in 0 .. 2
    BY <1>1 DEF RaiseError, TypeOK, KillTypeOK
  <2> QED BY <1>1, <2>1, StartKillType DEF RaiseError
<1>2. CASE ~(Inerror < 2)
  BY <1>2 DEF RaiseError, KillTypeOK
<1> QED BY <1>1, <1>2

(* newtp() and newtask() *)
LEMMA NewTaskType ==
  ASSUME TypeOK, NEW t \in Task, NEW s \in States, NEW p \in Task \cup {None},
         NEW pri \in Nat, NEW child \in BOOLEAN, NewTask(t, s, p, pri, child)
  PROVE  StructTypeOK' /\ state' \in [Task -> States]
<1>1. Tid' \in 0 .. HashSize - 1
  BY TaskAssumption, SMTT(20) DEF NewTask, TypeOK, StructTypeOK
<1> QED BY <1>1, TaskAssumption DEF NewTask, TypeOK, StructTypeOK, ParkTypeOK

(* The first half of taskbury() *)
LEMMA DetachType ==
  ASSUME TypeOK, NEW x \in Task, Detach(x, Waiters(x))
  PROVE  FifoTypeOK' /\ CountTypeOK' /\ wakes' \subseteq Task
         /\ Restarted(Waiters(x)) \in [Task -> States]
<1>1. CountTypeOK'
  BY WaitersFinite DEF Detach, TypeOK, CountTypeOK
<1>2. FifoTypeOK'
  BY DEF Detach, TypeOK, FifoTypeOK
<1>3. wakes' \subseteq Task /\ Restarted(Waiters(x)) \in [Task -> States]
  BY DEF Detach, Restarted, TypeOK, ParkTypeOK, States
<1> QED BY <1>1, <1>2, <1>3

(* unlocklk() *)
LEMMA PassOnType ==
  ASSUME TypeOK, NEW l \in Lock, PassOn(l)
  PROVE  LockTypeOK' /\ (RestartNext(l) => state' \in [Task -> States])
<1>1. notify[l] \in Seq(Task)
  BY DEF TypeOK, LockTypeOK
<1>2. notify[l] # <<>> => Head(notify[l]) \in Task /\ Tail(notify[l]) \in Seq(Task)
  BY <1>1
<1>3. LockTypeOK'
  BY <1>1, <1>2 DEF PassOn, TypeOK, LockTypeOK
<1>4. RestartNext(l) => state' \in [Task -> States]
  BY DEF RestartNext, TypeOK, ParkTypeOK, States
<1> QED BY <1>3, <1>4

(* taskkill(), taskbury() and unlocktid() keep the types. *)
LEMMA BuryStepType == TypeOK /\ BuryStep => TypeOK'
<1> SUFFICES ASSUME TypeOK, BuryStep PROVE TypeOK'
  OBVIOUS
<1> USE DEF structVars, lockVars, fifoVars, countVars, killVars, scanRest
<1>1. CASE Spare
  BY <1>1 DEF Spare, TypeOK, StructTypeOK, ParkTypeOK, LockTypeOK, FifoTypeOK,
              CountTypeOK, KillTypeOK
<1>2. CASE DeleteTask
  BY <1>2 DEF DeleteTask, TypeOK, StructTypeOK, ParkTypeOK, LockTypeOK, FifoTypeOK,
              CountTypeOK, KillTypeOK, States
<1>3. CASE KillDone
  BY <1>3 DEF KillDone, TypeOK, StructTypeOK, ParkTypeOK, LockTypeOK, FifoTypeOK,
              CountTypeOK, KillTypeOK
<1>4. ASSUME NEW t \in Task, BuryOnError(t) PROVE TypeOK'
  <2>1. FifoTypeOK' /\ CountTypeOK' /\ wakes' \subseteq Task
        /\ Restarted(Waiters(t)) \in [Task -> States]
    BY <1>4, DetachType DEF BuryOnError
  <2>2. ParkTypeOK'
    BY <1>4, <2>1 DEF BuryOnError, TypeOK, ParkTypeOK, States
  <2>3. StructTypeOK' /\ LockTypeOK' /\ KillTypeOK'
    BY <1>4 DEF BuryOnError, Burying, TypeOK, StructTypeOK, LockTypeOK, KillTypeOK
  <2> QED BY <2>1, <2>2, <2>3 DEF TypeOK
<1>5. ASSUME NEW t \in Task, BuryOnExit(t) PROVE TypeOK'
  <2>1. FifoTypeOK' /\ CountTypeOK' /\ wakes' \subseteq Task
        /\ Restarted(Waiters(t)) \in [Task -> States]
    BY <1>5, DetachType DEF BuryOnExit
  <2>2. ParkTypeOK'
    BY <1>5, <2>1 DEF BuryOnExit, TypeOK, ParkTypeOK, States
  <2>3. StructTypeOK' /\ LockTypeOK' /\ KillTypeOK'
    BY <1>5 DEF BuryOnExit, Burying, TypeOK, StructTypeOK, LockTypeOK, KillTypeOK
  <2> QED BY <2>1, <2>2, <2>3 DEF TypeOK
<1>6. ASSUME NEW t \in Task, BuryForGood(t) PROVE TypeOK'
  <2>1. FifoTypeOK' /\ CountTypeOK' /\ wakes' \subseteq Task
        /\ Restarted(Waiters(t)) \in [Task -> States]
    BY <1>6, DetachType DEF BuryForGood
  <2>2. ParkTypeOK'
    BY <1>6, <2>1 DEF BuryForGood, TypeOK, ParkTypeOK
  <2>3. StructTypeOK' /\ LockTypeOK' /\ KillTypeOK'
    BY <1>6 DEF BuryForGood, Burying, TypeOK, StructTypeOK, LockTypeOK, KillTypeOK
  <2> QED BY <2>1, <2>2, <2>3 DEF TypeOK
<1>7. ASSUME NEW t \in Task, StartErrorfunc(t) PROVE TypeOK'
  <2>1. StructTypeOK' /\ state' \in [Task -> States]
    BY <1>7, NewTaskType, TaskAssumption DEF StartErrorfunc, NewRoot, States
  <2> QED BY <1>7, <2>1 DEF StartErrorfunc, TypeOK, ParkTypeOK, LockTypeOK, FifoTypeOK,
                            CountTypeOK, KillTypeOK
<1>8. ASSUME NEW l \in Lock, ScanOther(l) PROVE TypeOK'
  BY <1>8 DEF ScanOther, Scanned, TypeOK, StructTypeOK, ParkTypeOK, LockTypeOK, FifoTypeOK,
              CountTypeOK, KillTypeOK
<1>9. ASSUME NEW l \in Lock, ScanUnlock(l) PROVE TypeOK'
  <2>1. LockTypeOK' /\ state' \in [Task -> States]
    BY <1>9, PassOnType DEF ScanUnlock
  <2> QED BY <1>9, <2>1 DEF ScanUnlock, Scanned, TypeOK, StructTypeOK, ParkTypeOK,
                            FifoTypeOK, CountTypeOK, KillTypeOK
<1>10. ASSUME NEW l \in Lock, ScanError(l) PROVE TypeOK'
  <2>1. LockTypeOK'
    BY <1>10, PassOnType DEF ScanError
  <2>2. killer \in Task
    BY <1>10 DEF ScanError, Scanned, TypeOK, KillTypeOK
  <2>3. KillTypeOK'
    BY <1>10, <2>2, RaiseErrorType DEF ScanError
  <2> QED BY <1>10, <2>1, <2>3 DEF ScanError, TypeOK, StructTypeOK, ParkTypeOK,
                                   FifoTypeOK, CountTypeOK
<1>11. ASSUME NEW l \in Lock, NEW i \in 1 .. Len(notify[l]), ScanDequeue(l, i)
       PROVE TypeOK'
  <2> DEFINE rest == [j \in 1 .. Len(notify[l]) - 1 |->
                        IF j < i THEN notify[l][j] ELSE notify[l][j + 1]]
  <2>1. notify[l] \in Seq(Task)
    BY DEF TypeOK, LockTypeOK
  <2>2. rest \in Seq(Task)
    BY <2>1
  <2>3. notify' = [notify EXCEPT ![l] = rest]
    BY <1>11 DEF ScanDequeue
  <2>4. LockTypeOK'
    BY <1>11, <2>2, <2>3 DEF ScanDequeue, TypeOK, LockTypeOK
  <2> QED BY <1>11, <2>4 DEF ScanDequeue, TypeOK, StructTypeOK, ParkTypeOK, FifoTypeOK,
                             CountTypeOK, KillTypeOK
<1> QED
  BY <1>1, <1>2, <1>3, <1>4, <1>5, <1>6, <1>7, <1>8, <1>9, <1>10, <1>11 DEF BuryStep

(* Byte codes that touch neither locks nor fifos keep the types. *)
LEMMA TaskStepType == TypeOK /\ TaskStep => TypeOK'
<1> SUFFICES ASSUME TypeOK, NEW t \in Task,
                    \/ Stop(t) \/ Error(t) \/ OnExit(t) \/ OnError(t) \/ SleepTill(t)
                    \/ \E u \in Task : \/ Spawn(t, u) \/ Realtime(t, u) \/ Kill(t, u)
                                       \/ Wait(t, u) \/ Reboot(t, u)
             PROVE  TypeOK'
  BY DEF TaskStep
<1> USE DEF structVars, lockVars, fifoVars, countVars, killVars, scanRest
<1>1. CASE Stop(t)
  <2>1. <<t>> \in Seq(Task)
    OBVIOUS
  <2> QED BY <1>1, <2>1, TaskAssumption
          DEF Stop, Runnable, TypeOK, StructTypeOK, ParkTypeOK, LockTypeOK, FifoTypeOK,
              CountTypeOK, KillTypeOK
<1>2. CASE Error(t)
  <2>1. KillTypeOK'
    BY <1>2, RaiseErrorType DEF Error
  <2> QED BY <1>2, <2>1 DEF Error, TypeOK, StructTypeOK, ParkTypeOK, LockTypeOK,
                            FifoTypeOK, CountTypeOK
<1>3. CASE OnExit(t)
  BY <1>3 DEF OnExit, TypeOK, StructTypeOK, ParkTypeOK, LockTypeOK, FifoTypeOK,
              CountTypeOK, KillTypeOK
<1>4. CASE OnError(t)
  BY <1>4 DEF OnError, TypeOK, StructTypeOK, ParkTypeOK, LockTypeOK, FifoTypeOK,
              CountTypeOK, KillTypeOK
<1>5. CASE SleepTill(t)
  BY <1>5 DEF SleepTill, TypeOK, StructTypeOK, ParkTypeOK, LockTypeOK, FifoTypeOK,
              CountTypeOK, KillTypeOK, States
<1>6. ASSUME NEW u \in Task, Spawn(t, u) PROVE TypeOK'
  <2>1. StructTypeOK' /\ state' \in [Task -> States]
    BY <1>6, NewTaskType DEF Spawn, States, TypeOK, StructTypeOK
  <2> QED BY <1>6, <2>1 DEF Spawn, TypeOK, ParkTypeOK, LockTypeOK, FifoTypeOK,
                            CountTypeOK, KillTypeOK
<1>7. ASSUME NEW u \in Task, Realtime(t, u) PROVE TypeOK'
  <2>1. StructTypeOK' /\ state' \in [Task -> States]
    BY <1>7, NewTaskType DEF Realtime, States
  <2> QED BY <1>7, <2>1 DEF Realtime, TypeOK, ParkTypeOK, LockTypeOK, FifoTypeOK,
                            CountTypeOK, KillTypeOK
<1>8. ASSUME NEW u \in Task, Kill(t, u) PROVE TypeOK'
  <2>1. KillTypeOK'
    BY <1>8, StartKillType DEF Kill, TypeOK, KillTypeOK
  <2> QED BY <1>8, <2>1 DEF Kill, TypeOK, StructTypeOK, ParkTypeOK, LockTypeOK,
                            FifoTypeOK, CountTypeOK
<1>9. ASSUME NEW u \in Task, Wait(t, u) PROVE TypeOK'
  <2>1. ParkTypeOK'
    BY <1>9 DEF Wait, TypeOK, ParkTypeOK, States
  <2>2. StructTypeOK' /\ CountTypeOK'
    BY <1>9 DEF Wait, TypeOK, StructTypeOK, CountTypeOK
  <2>3. LockTypeOK' /\ FifoTypeOK' /\ KillTypeOK'
    BY <1>9 DEF Wait, TypeOK, LockTypeOK, FifoTypeOK, KillTypeOK
  <2> QED BY <2>1, <2>2, <2>3 DEF TypeOK
<1>10. ASSUME NEW u \in Task, Reboot(t, u) PROVE TypeOK'
  <2>1. Tid' \in 0 .. HashSize - 1
    BY <1>10, TaskAssumption, SMTT(20) DEF Reboot, TypeOK, StructTypeOK
  <2>2. StructTypeOK' /\ state' \in [Task -> States]
    BY <1>10, <2>1, TaskAssumption DEF Reboot, TypeOK, StructTypeOK, ParkTypeOK, States
  <2>3. LockTypeOK'
    <3>1. <<>> \in Seq(Task)
      OBVIOUS
    <3> QED BY <1>10, <3>1 DEF Reboot, LockTypeOK
  <2>4. FifoTypeOK'
    BY <1>10, TaskAssumption DEF Reboot, TypeOK, FifoTypeOK
  <2>5. CountTypeOK'
    BY <1>10, PhraseWaitersFinite DEF Reboot, TypeOK, CountTypeOK
  <2> QED BY <1>10, <2>2, <2>3, <2>4, <2>5 DEF Reboot, TypeOK, ParkTypeOK, KillTypeOK
<1> QED BY <1>1, <1>2, <1>3, <1>4, <1>5, <1>6, <1>7, <1>8, <1>9, <1>10

(* lock() and unlock() keep the types. *)
LEMMA LockStepType == TypeOK /\ LockStep => TypeOK'
<1> SUFFICES ASSUME TypeOK, NEW t \in Task, NEW l \in Lock,
                    LockFree(t, l) \/ LockWait(t, l) \/ Unlock(t, l) \/ UnlockError(t, l)
             PROVE  TypeOK'
  BY DEF LockStep
<1> USE DEF structVars, lockVars, fifoVars, countVars, killVars, scanRest
<1>1. CASE LockFree(t, l)
  <2>1. LockTypeOK'
    <3>1. <<>> \in Seq(Task)
      OBVIOUS
    <3> QED BY <1>1, <3>1 DEF LockFree, TypeOK, LockTypeOK
  <2> QED BY <1>1, <2>1 DEF LockFree, TypeOK, StructTypeOK, ParkTypeOK, FifoTypeOK,
                            CountTypeOK, KillTypeOK
<1>2. CASE LockWait(t, l)
  <2>1. notify[l] \in Seq(Task) /\ Append(notify[l], t) \in Seq(Task)
    BY DEF TypeOK, LockTypeOK
  <2>2. LockTypeOK'
    BY <1>2, <2>1 DEF LockWait, TypeOK, LockTypeOK
  <2> QED BY <1>2, <2>2 DEF LockWait, TypeOK, StructTypeOK, ParkTypeOK, FifoTypeOK,
                            CountTypeOK, KillTypeOK, States
<1>3. CASE Unlock(t, l)
  <2>1. LockTypeOK' /\ state' \in [Task -> States]
    BY <1>3, PassOnType DEF Unlock
  <2> QED BY <1>3, <2>1 DEF Unlock, TypeOK, StructTypeOK, ParkTypeOK, FifoTypeOK,
                            CountTypeOK, KillTypeOK
<1>4. CASE UnlockError(t, l)
  <2>1. LockTypeOK'
    BY <1>4, PassOnType DEF UnlockError, TypeOK, LockTypeOK
  <2>2. KillTypeOK'
    BY <1>4, RaiseErrorType DEF UnlockError
  <2> QED BY <1>4, <2>1, <2>2 DEF UnlockError, TypeOK, StructTypeOK, ParkTypeOK,
                                  FifoTypeOK, CountTypeOK
<1> QED BY <1>1, <1>2, <1>3, <1>4

(* open(), get(), put(), flush() and close() keep the types. *)
LEMMA FifoStepType == TypeOK /\ FifoStep => TypeOK'
<1> SUFFICES ASSUME TypeOK, NEW t \in Task, NEW f \in Fifo,
                    \/ Open(t, f) \/ GetData(t, f) \/ GetBlocks(t, f) \/ GetError(t, f)
                    \/ PutStays(t, f) \/ PutUnblocks(t, f) \/ Flush(t, f) \/ Close(t, f)
             PROVE  TypeOK'
  BY DEF FifoStep
<1> USE DEF structVars, lockVars, fifoVars, countVars, killVars, fifoRest
<1>m. MaxSize \in Nat
  BY TaskAssumption
<1>1. CASE Open(t, f)
  BY <1>1, <1>m DEF Open, TypeOK, StructTypeOK, ParkTypeOK, LockTypeOK, FifoTypeOK,
              CountTypeOK, KillTypeOK
<1>2. CASE GetData(t, f)
  <2>1. size[f] - 1 \in 0 .. MaxSize
    BY <1>2, <1>m DEF GetData, TypeOK, FifoTypeOK
  <2> QED BY <1>2, <2>1 DEF GetData, TypeOK, StructTypeOK, ParkTypeOK, LockTypeOK,
                            FifoTypeOK, CountTypeOK, KillTypeOK
<1>3. CASE GetBlocks(t, f)
  BY <1>3 DEF GetBlocks, TypeOK, StructTypeOK, ParkTypeOK, LockTypeOK, FifoTypeOK,
              CountTypeOK, KillTypeOK, States
<1>4. CASE GetError(t, f)
  <2>1. KillTypeOK'
    BY <1>4, RaiseErrorType DEF GetError
  <2> QED BY <1>4, <2>1 DEF GetError, TypeOK, StructTypeOK, ParkTypeOK, LockTypeOK,
                            FifoTypeOK, CountTypeOK
<1>5. CASE PutStays(t, f)
  <2>1. size[f] + 1 \in 0 .. MaxSize
    BY <1>5, <1>m DEF PutStays, TypeOK, FifoTypeOK
  <2> QED BY <1>5, <2>1 DEF PutStays, TypeOK, StructTypeOK, ParkTypeOK, LockTypeOK,
                            FifoTypeOK, CountTypeOK, KillTypeOK
<1>6. CASE PutUnblocks(t, f)
  <2>1. FifoTypeOK'
    BY <1>6 DEF PutUnblocks, Unblock, TypeOK, FifoTypeOK
  <2>2. ParkTypeOK'
    BY <1>6 DEF PutUnblocks, Unblock, TypeOK, ParkTypeOK, States
  <2>4. CountTypeOK'
    BY <1>6 DEF PutUnblocks, Unblock, TypeOK, CountTypeOK
  <2>3. StructTypeOK' /\ LockTypeOK' /\ KillTypeOK'
    BY <1>6 DEF PutUnblocks, TypeOK, StructTypeOK, LockTypeOK, KillTypeOK
  <2> QED BY <2>1, <2>2, <2>3, <2>4 DEF TypeOK
<1>7. CASE Flush(t, f)
  BY <1>7, <1>m DEF Flush, TypeOK, StructTypeOK, ParkTypeOK, LockTypeOK, FifoTypeOK,
              CountTypeOK, KillTypeOK
<1>8. CASE Close(t, f)
  <2>1. FifoTypeOK'
    BY <1>8, <1>m DEF Close, Unblock, TypeOK, FifoTypeOK
  <2>2. ParkTypeOK' /\ CountTypeOK'
    BY <1>8 DEF Close, Unblock, TypeOK, ParkTypeOK, CountTypeOK, States
  <2>3. StructTypeOK' /\ LockTypeOK' /\ KillTypeOK'
    BY <1>8 DEF Close, TypeOK, StructTypeOK, LockTypeOK, KillTypeOK
  <2> QED BY <2>1, <2>2, <2>3 DEF TypeOK
<1> QED BY <1>1, <1>2, <1>3, <1>4, <1>5, <1>6, <1>7, <1>8

(* priority() keeps the types. *)
LEMMA PriorityStepType == TypeOK /\ PriorityStep => TypeOK'
<1> SUFFICES ASSUME TypeOK, NEW t \in Task, NEW v \in Priority,
                    \/ \E x \in Task : SetPriority(t, x, v)
                    \/ SetLimit(t, v) \/ SetLimitError(t, v)
             PROVE  TypeOK'
  BY DEF PriorityStep
<1> USE DEF structVars, lockVars, fifoVars, countVars, killVars, scanRest
<1>v. v \in Nat
  BY TaskAssumption
<1>1. ASSUME NEW x \in Task, SetPriority(t, x, v) PROVE TypeOK'
  BY <1>1, <1>v DEF SetPriority, TypeOK, StructTypeOK, ParkTypeOK, LockTypeOK,
                    FifoTypeOK, CountTypeOK, KillTypeOK
<1>2. CASE SetLimit(t, v)
  BY <1>2, <1>v DEF SetLimit, TypeOK, StructTypeOK, ParkTypeOK, LockTypeOK,
                    FifoTypeOK, CountTypeOK, KillTypeOK
<1>3. CASE SetLimitError(t, v)
  <2>1. KillTypeOK'
    BY <1>3, RaiseErrorType DEF SetLimitError
  <2> QED BY <1>3, <2>1 DEF SetLimitError, TypeOK, StructTypeOK, ParkTypeOK, LockTypeOK,
                            FifoTypeOK, CountTypeOK
<1> QED BY <1>1, <1>2, <1>3

(* What happens between two passes of exectasks() keeps the types. *)
LEMMA LoopStepType == TypeOK /\ LoopStep => TypeOK'
<1> SUFFICES ASSUME TypeOK, NEW t \in Task,
                    Wake(t) \/ PhraseDone(t) \/ Interrupt(t) \/ NextProgram(t)
             PROVE  TypeOK'
  BY DEF LoopStep
<1> USE DEF structVars, lockVars, fifoVars, countVars, killVars
<1>1. CASE Wake(t)
  BY <1>1 DEF Wake, TypeOK, StructTypeOK, ParkTypeOK, LockTypeOK, FifoTypeOK,
              CountTypeOK, KillTypeOK, States
<1>2. CASE PhraseDone(t)
  <2>1. CountTypeOK'
    BY <1>2, WaitersFinite DEF PhraseDone, TypeOK, CountTypeOK
  <2> QED BY <1>2, <2>1 DEF PhraseDone, Restarted, TypeOK, StructTypeOK, ParkTypeOK,
                            LockTypeOK, FifoTypeOK, KillTypeOK, States
<1>3. CASE Interrupt(t) \/ NextProgram(t)
  <2>1. StructTypeOK' /\ state' \in [Task -> States]
    BY <1>3, NewTaskType, TaskAssumption DEF Interrupt, NextProgram, NewRoot, States
  <2> QED BY <1>3, <2>1 DEF Interrupt, NextProgram, TypeOK, ParkTypeOK, LockTypeOK,
                            FifoTypeOK, CountTypeOK, KillTypeOK
<1> QED BY <1>1, <1>2, <1>3

LEMMA InitType == Init => TypeOK
<1> SUFFICES ASSUME Init PROVE TypeOK
  OBVIOUS
<1>1. Tid \in 0 .. HashSize - 1 /\ 0 \in 0 .. HashSize - 1
  BY TaskAssumption, SMTT(20) DEF Init
<1>2. <<>> \in Seq(Task)
  OBVIOUS
<1>3. StructTypeOK
  BY <1>1, TaskAssumption DEF Init, StructTypeOK
<1>4. ParkTypeOK
  BY TaskAssumption DEF Init, ParkTypeOK, States
<1>5. LockTypeOK
  BY <1>2 DEF Init, LockTypeOK
<1>6. FifoTypeOK
  BY TaskAssumption DEF Init, FifoTypeOK
<1>7. CountTypeOK /\ KillTypeOK
  BY <1>2 DEF Init, CountTypeOK, KillTypeOK
<1> QED BY <1>3, <1>4, <1>5, <1>6, <1>7 DEF TypeOK

LEMMA StepType == TypeOK /\ [Next]_vars => TypeOK'
<1> SUFFICES ASSUME TypeOK, [Next]_vars PROVE TypeOK'
  OBVIOUS
<1>1. CASE UNCHANGED vars
  BY <1>1 DEF vars, structVars, lockVars, fifoVars, countVars, killVars, TypeOK,
              StructTypeOK, ParkTypeOK, LockTypeOK, FifoTypeOK, CountTypeOK, KillTypeOK
<1> QED BY <1>1, BuryStepType, TaskStepType, LockStepType, FifoStepType,
           PriorityStepType, LoopStepType DEF Next

(* The kernel's variables keep their types, and the loop over the tasks to bury
   is entered only by a task and left with the error count at zero.             *)
THEOREM TypeCorrect == Spec => []TypeOK
<1> QED BY InitType, StepType, PTL DEF Spec

-----------------------------------------------------------------------------
(* KernelInv.                                                              *)

(* The variables that KernelInv reads, pc, todo and scan apart. *)
kernelVars == <<state, twait, anywait, wakes, owner, notify, fifo, reader, open, countVars>>

-----------------------------------------------------------------------------
(* How many tasks are parked.                                              *)

LEMMA InStateFinite ==
  ASSUME NEW s
  PROVE  IsFiniteSet(InState(s)) /\ Cardinality(InState(s)) \in Nat
<1>1. IsFiniteSet(InState(s))
  BY TaskAssumption, FS_Subset DEF InState
<1> QED BY <1>1, FS_CardinalityType

(* Fewer tasks in a state: their number does not grow. *)
LEMMA FewerIn ==
  ASSUME NEW s, InState(s)' \subseteq InState(s)
  PROVE  Count(s)' <= Count(s) /\ Count(s)' \in Nat /\ Count(s) \in Nat
<1>1. IsFiniteSet(InState(s)) /\ Cardinality(InState(s)) \in Nat
  BY InStateFinite
<1>2. Cardinality(InState(s)') <= Cardinality(InState(s)) /\ IsFiniteSet(InState(s)')
  BY <1>1, FS_Subset
<1>3. Cardinality(InState(s)') \in Nat
  BY <1>2, FS_CardinalityType
<1> QED BY <1>1, <1>2, <1>3 DEF Count

(* The tasks of S leave a state: their number goes down by that many. *)
LEMMA LeaveState ==
  ASSUME NEW s, NEW S, S \subseteq InState(s), InState(s)' \subseteq InState(s) \ S
  PROVE  /\ Count(s)' <= Count(s) - Cardinality(S)
         /\ Count(s)' \in Nat /\ Count(s) \in Nat /\ Cardinality(S) \in Nat
<1>1. IsFiniteSet(InState(s)) /\ Cardinality(InState(s)) \in Nat
  BY InStateFinite
<1>2. IsFiniteSet(S) /\ IsFiniteSet(InState(s) \ S)
  BY <1>1, FS_Subset
<1>3. Cardinality(S) \in Nat
  BY <1>2, FS_CardinalityType
<1>4. Cardinality(InState(s) \ S) = Cardinality(InState(s)) - Cardinality(InState(s) \cap S)
  BY <1>1, <1>2, FS_Difference
<1>5. InState(s) \cap S = S
  OBVIOUS
<1>6. Cardinality(InState(s)') <= Cardinality(InState(s) \ S) /\ IsFiniteSet(InState(s)')
  BY <1>2, FS_Subset
<1>7. Cardinality(InState(s)') \in Nat
  BY <1>6, FS_CardinalityType
<1> QED BY <1>1, <1>3, <1>4, <1>5, <1>6, <1>7 DEF Count

(* One more task in a state. *)
LEMMA EnterState ==
  ASSUME NEW s, NEW t, InState(s)' = InState(s) \cup {t}
  PROVE  Count(s)' <= Count(s) + 1 /\ Count(s)' \in Nat /\ Count(s) \in Nat
<1>1. IsFiniteSet(InState(s)) /\ Cardinality(InState(s)) \in Nat
  BY InStateFinite
<1>2. IsFiniteSet({t}) /\ Cardinality({t}) = 1
  BY FS_Singleton
<1>3. IsFiniteSet(InState(s)')
  BY <1>1, <1>2, FS_Union
<1>4. Cardinality(InState(s)') = Cardinality(InState(s)) + Cardinality({t}) - Cardinality(InState(s) \cap {t})
  BY <1>1, <1>2, FS_Union
<1>5. Cardinality(InState(s)') \in Nat /\ Cardinality(InState(s) \cap {t}) \in Nat
  BY <1>1, <1>3, FS_Subset, FS_CardinalityType
<1> QED BY <1>1, <1>2, <1>4, <1>5 DEF Count

(* The three counters cover the three counts when no task is newly parked. *)
LEMMA CountersKept ==
  ASSUME CountersCover, TypeOK, TypeOK', countVars' = countVars,
         InState("WAITING")' \subseteq InState("WAITING"),
         InState("BLOCKED")' \subseteq InState("BLOCKED"),
         InState("SLEEPTILL")' \subseteq InState("SLEEPTILL")
  PROVE  CountersCover'
<1>1. /\ Count("WAITING")' <= Count("WAITING") /\ Count("WAITING")' \in Nat
      /\ Count("WAITING") \in Nat
  BY FewerIn
<1>2. /\ Count("BLOCKED")' <= Count("BLOCKED") /\ Count("BLOCKED")' \in Nat
      /\ Count("BLOCKED") \in Nat
  BY FewerIn
<1>3. /\ Count("SLEEPTILL")' <= Count("SLEEPTILL") /\ Count("SLEEPTILL")' \in Nat
      /\ Count("SLEEPTILL") \in Nat
  BY FewerIn
<1> QED BY <1>1, <1>2, <1>3 DEF CountersCover, TypeOK, CountTypeOK, countVars

-----------------------------------------------------------------------------
(* Groups of steps.                                                        *)

(* Steps that change nothing KernelInv reads and leave or avoid unlocktid(). *)
LEMMA QuietStep ==
  ASSUME KernelInv, UNCHANGED kernelVars, pc' # "scan"
  PROVE  KernelInv'
<1> USE DEF kernelVars, KernelInv
<1>1. WaitInv'
  BY DEF WaitInv, NoLostWaiter, InState, Live, Dying
<1>2. SleepInv'
  BY DEF SleepInv, InState, Dying
<1>3. ReaderInv'
  BY DEF ReaderInv, Dying
<1>4. LockInv'
  BY DEF LockInv, Uses, Dying
<1>5. CountersCover'
  BY DEF CountersCover, Count, InState, countVars
<1> QED BY <1>1, <1>2, <1>3, <1>4, <1>5

(* newtp() and newtask(): the struct was free, so nothing refers to it. *)
LEMMA NewTaskStep ==
  ASSUME TypeOK, TypeOK', KernelInv, NEW t \in Task, NEW s \in {"RUNNING", "SCHED"}, NEW p,
         NEW pri, NEW child, NewTask(t, s, p, pri, child), pc' = "run",
         UNCHANGED <<twait, wakes, lockVars, fifoVars, countVars>>
  PROVE  KernelInv'
<1> USE DEF KernelInv, NewTask, lockVars, fifoVars, TypeOK, ParkTypeOK
<1>1. WaitInv'
  BY DEF WaitInv, NoLostWaiter, InState, Live, Dying, StructTypeOK
<1>2. SleepInv'
  BY DEF SleepInv, InState, Dying
<1>3. ReaderInv'
  BY DEF ReaderInv, Dying, FifoTypeOK
<1>4. LockInv'
  BY DEF LockInv, Uses, Dying
<1>5. CountersCover'
  BY CountersKept DEF InState
<1> QED BY <1>1, <1>2, <1>3, <1>4, <1>5

(* taskbury(x) as far as unlocktid(): x takes its own entries along, and the
   tasks waiting for x run again.                                           *)
LEMMA BuryKeeps ==
  ASSUME TypeOK, TypeOK', KernelInv, NEW x \in Task, Detach(x, Waiters(x)),
         \/ state' = [Restarted(Waiters(x)) EXCEPT ![x] = "RUNNING"] /\ pc' = "bury"
         \/ /\ state' = Restarted(Waiters(x)) /\ pc' = "scan" /\ Head(todo') = x
            /\ scan' = {l \in Lock : owner[l] # None},
         UNCHANGED <<twait, anywait, lockVars>>
  PROVE  KernelInv'
<1> USE DEF KernelInv, lockVars
<1>1. \A u \in Task : u # x =>
        \/ state'[u] = state[u] /\ u \notin Waiters(x)
        \/ state[u] = "WAITING" /\ state'[u] = "RUNNING"
  BY DEF Restarted, Waiters, TypeOK, ParkTypeOK
<1>2. \A u \in Task : ~Dying(u)' \/ u = x
  BY DEF Dying
<1>3. state'[x] = state[x] \/ state'[x] = "RUNNING"
  BY DEF Restarted, TypeOK, ParkTypeOK
<1>4. \A u \in Waiters(x) : state[u] = "WAITING" /\ state'[u] = "RUNNING"
  BY DEF Restarted, Waiters, TypeOK, ParkTypeOK
<1>5. WaitInv'
  <2> SUFFICES ASSUME NEW u \in Task, state'[u] = "WAITING"
               PROVE  twait[u] \in Live' /\ anywait[twait[u]] /\ ~Dying(twait[u])'
    BY DEF WaitInv, NoLostWaiter, InState
  <2>1. state[u] = "WAITING" /\ u \notin Waiters(x)
    BY <1>1, <1>3, <1>4
  <2>2. twait[u] \in Live /\ anywait[twait[u]]
    BY <2>1 DEF WaitInv, NoLostWaiter, InState
  <2>3. twait[u] # x
    BY <2>1, <2>2 DEF Waiters
  <2>4. state'[twait[u]] # "FREE"
    BY <1>1, <2>2, <2>3 DEF Live
  <2> QED BY <1>2, <2>2, <2>3, <2>4 DEF Live
<1>6. SleepInv'
  <2>1. x \notin wakes'
    BY DEF Detach, SleepInv, InState, Waiters
  <2>2. wakes' \subseteq wakes
    BY DEF Detach
  <2> QED BY <1>1, <1>2, <2>1, <2>2 DEF SleepInv, InState
<1>7. ReaderInv'
  <2> SUFFICES ASSUME NEW f \in open, reader'[f] # None
               PROVE  /\ state'[reader'[f]] = "BLOCKED" /\ fifo'[reader'[f]] = f
                      /\ ~Dying(reader[f])'
    BY DEF ReaderInv, Detach
  <2>0. f \in Fifo
    BY DEF TypeOK, FifoTypeOK
  <2>1. reader'[f] = reader[f]
    BY <2>0 DEF Detach, TypeOK, FifoTypeOK
  <2>2. reader[f] \in Task /\ state[reader[f]] = "BLOCKED" /\ fifo[reader[f]] = f
    BY <2>0, <2>1 DEF ReaderInv, TypeOK, FifoTypeOK
  <2>3. reader[f] # x
    <3>1. SUFFICES ASSUME reader[f] = x PROVE FALSE
      OBVIOUS
    <3>2. x \notin Waiters(x) /\ state[x] = "BLOCKED" /\ fifo[x] = f /\ f # None
      BY <2>0, <2>2, <3>1, TaskAssumption DEF Waiters
    <3>3. reader' = [reader EXCEPT ![f] = None]
      BY <3>2 DEF Detach
    <3> QED BY <2>0, <2>1, <3>3, TaskAssumption DEF TypeOK, FifoTypeOK
  <2>4. fifo'[reader[f]] = f
    BY <2>2, <2>3 DEF Detach, TypeOK, FifoTypeOK
  <2>5. state'[reader[f]] = "BLOCKED" /\ ~Dying(reader[f])'
    BY <1>1, <1>2, <2>1, <2>2, <2>3
  <2> QED BY <2>1, <2>4, <2>5
<1>8. LockInv'
  <2>1. \A l \in Lock : owner[l] = None => notify[l] = <<>>
    BY DEF LockInv
  <2>2. ASSUME NEW u \in Task, NEW l \in Lock, Uses(u, l)
        PROVE  state'[u] \notin {"FREE", "SCHED"} /\ (Dying(u)' => l \in scan')
    <3>1. state[u] \notin {"FREE", "SCHED"}
      BY <2>2 DEF LockInv
    <3>2. owner[l] # None
      BY <2>1, <2>2, TaskAssumption DEF Uses
    <3>3. state'[u] \notin {"FREE", "SCHED"}
      BY <1>1, <1>3, <3>1
    <3> QED BY <3>2, <3>3 DEF Dying
  <2>3. \A u, l : Uses(u, l)' <=> Uses(u, l)
    BY DEF Uses
  <2> QED BY <2>1, <2>2, <2>3 DEF LockInv
<1>9. CountersCover'
  <2>1. Waiters(x) \subseteq InState("WAITING")
    BY DEF Waiters, InState
  <2>2. InState("WAITING")' \subseteq InState("WAITING") \ Waiters(x)
    BY <1>1, <1>3, <1>4 DEF InState
  <2>3. /\ Count("WAITING")' <= Count("WAITING") - Cardinality(Waiters(x))
        /\ Count("WAITING")' \in Nat /\ Count("WAITING") \in Nat
        /\ Cardinality(Waiters(x)) \in Nat
    BY <2>1, <2>2, LeaveState
  <2>4. InState("BLOCKED")' \subseteq InState("BLOCKED")
    BY <1>1, <1>3 DEF InState
  <2>5. InState("SLEEPTILL")' \subseteq InState("SLEEPTILL")
    BY <1>1, <1>3 DEF InState
  <2>6. Count("BLOCKED")' <= Count("BLOCKED") /\ Count("BLOCKED")' \in Nat /\ Count("BLOCKED") \in Nat
    BY <2>4, FewerIn
  <2>7. /\ Count("SLEEPTILL")' <= Count("SLEEPTILL") /\ Count("SLEEPTILL")' \in Nat
        /\ Count("SLEEPTILL") \in Nat
    BY <2>5, FewerIn
  <2>8. /\ Nwaiting' = Nwaiting - Cardinality(Waiters(x))
        /\ Nblocked' = Nblocked /\ Nsleeptill' = Nsleeptill
    BY DEF Detach
  <2> QED BY <2>3, <2>6, <2>7, <2>8 DEF CountersCover, TypeOK, CountTypeOK
<1> QED BY <1>5, <1>6, <1>7, <1>8, <1>9

-----------------------------------------------------------------------------
(* The loops of taskkill() and unlocktid().                                *)

(* unlocklk(): the lock passes to the first waiter, who was parked, or the
   step fails and leaves unlocktid(); x no longer uses what it has scanned.   *)
LEMMA PassOnUses ==
  ASSUME TypeOK, LockInv, NEW l \in Lock, PassOn(l)
  PROVE  /\ \A m \in Lock : owner'[m] = None => notify'[m] = <<>>
         /\ \A u \in Task, m \in Lock : Uses(u, m)' => Uses(u, m)
         /\ \A u \in Task : (\A i \in 1 .. Len(notify[l]) : notify[l][i] # u) => ~Uses(u, l)'
<1>1. notify[l] \in Seq(Task) /\ owner \in [Lock -> Task \cup {None}]
      /\ notify \in [Lock -> Seq(Task)]
  BY DEF TypeOK, LockTypeOK
<1>2. \A m \in Lock : m # l => owner'[m] = owner[m] /\ notify'[m] = notify[m]
  BY <1>1 DEF PassOn
<1>3. CASE notify[l] = <<>>
  <2>1. owner'[l] = None /\ notify'[l] = <<>>
    BY <1>1, <1>3 DEF PassOn
  <2>2. \A u \in Task : ~Uses(u, l)'
    BY <2>1, TaskAssumption DEF Uses
  <2>3. \A u \in Task, m \in Lock : Uses(u, m)' => Uses(u, m)
    BY <1>2, <2>2 DEF Uses
  <2> QED BY <1>2, <2>1, <2>2, <2>3 DEF LockInv
<1>4. CASE notify[l] # <<>>
  <2>1. owner'[l] = Head(notify[l]) /\ notify'[l] = Tail(notify[l])
    BY <1>1, <1>4 DEF PassOn
  <2>2. Head(notify[l]) = notify[l][1] /\ 1 \in 1 .. Len(notify[l]) /\ notify[l][1] \in Task
    BY <1>1, <1>4
  <2>3. \A i \in 1 .. Len(Tail(notify[l])) :
          i + 1 \in 1 .. Len(notify[l]) /\ Tail(notify[l])[i] = notify[l][i + 1]
    BY <1>1, <1>4
  <2>4. \A u : Uses(u, l)' => \E i \in 1 .. Len(notify[l]) : notify[l][i] = u
    BY <2>1, <2>2, <2>3 DEF Uses
  <2>5. owner'[l] # None
    BY <2>1, <2>2, TaskAssumption
  <2>6. \A u \in Task, m \in Lock : Uses(u, m)' => Uses(u, m)
    BY <1>2, <2>4 DEF Uses
  <2>7. \A m \in Lock : owner'[m] = None => notify'[m] = <<>>
    BY <1>2, <2>5 DEF LockInv
  <2> QED BY <2>4, <2>6, <2>7
<1> QED BY <1>3, <1>4

(* A lock may be passed on and the task that gets it restarted whatever else
   goes on: restarting a task in "lockwait" touches none of the other parts.   *)
LEMMA RestartStep ==
  ASSUME TypeOK, TypeOK', KernelInv, NEW l \in Lock, NextIsParked(l), RestartNext(l),
         UNCHANGED <<twait, anywait, wakes, fifoVars, countVars, todo>>,
         pc' = pc
  PROVE  /\ WaitInv' /\ SleepInv' /\ ReaderInv' /\ CountersCover'
         /\ \A u \in Task : state[u] \notin {"FREE", "SCHED"} => state'[u] \notin {"FREE", "SCHED"}
<1> USE DEF KernelInv, fifoVars
<1>1. \A u \in Task : state'[u] = state[u] \/ (state[u] = "LOCKWAIT" /\ state'[u] = "RUNNING")
  BY DEF RestartNext, NextIsParked
<1>2. WaitInv'
  BY <1>1 DEF WaitInv, NoLostWaiter, InState, Live, Dying
<1>3. SleepInv'
  BY <1>1 DEF SleepInv, InState, Dying
<1>4. ReaderInv'
  BY <1>1 DEF ReaderInv, Dying, TypeOK, FifoTypeOK
<1>5. CountersCover'
  BY <1>1, CountersKept DEF InState
<1> QED BY <1>1, <1>2, <1>3, <1>4, <1>5

LEMMA BuryStepInv == TypeOK /\ TypeOK' /\ KernelInv /\ BuryStep => KernelInv'
<1> SUFFICES ASSUME TypeOK, TypeOK', KernelInv, BuryStep PROVE KernelInv'
  OBVIOUS
<1> USE DEF scanRest, structVars
<1>1. CASE Spare
  BY <1>1, QuietStep DEF Spare, kernelVars, lockVars, fifoVars, countVars
<1>2. CASE KillDone
  BY <1>2, QuietStep DEF KillDone, kernelVars, lockVars, fifoVars, countVars
<1>3. CASE DeleteTask
  <2> USE <1>3 DEF DeleteTask, KernelInv, lockVars, fifoVars, TypeOK, ParkTypeOK
  <2>1. Dying(Head(todo)) /\ \A u \in Task : u # Head(todo) => state'[u] = state[u]
    BY DEF Dying
  <2>2. WaitInv'
    BY <2>1 DEF WaitInv, NoLostWaiter, InState, Live, Dying
  <2>3. SleepInv'
    BY <2>1 DEF SleepInv, InState, Dying
  <2>4. ReaderInv'
    BY <2>1 DEF ReaderInv, Dying, FifoTypeOK
  <2>5. LockInv'
    BY <2>1 DEF LockInv, Uses, Dying
  <2>6. CountersCover'
    BY CountersKept DEF InState
  <2> QED BY <2>2, <2>3, <2>4, <2>5, <2>6
<1>4. ASSUME NEW t \in Task, BuryOnError(t) \/ BuryOnExit(t) \/ BuryForGood(t)
      PROVE  KernelInv'
  BY <1>4, BuryKeeps DEF BuryOnError, BuryOnExit, BuryForGood, Burying
<1>5. ASSUME NEW t \in Task, StartErrorfunc(t) PROVE KernelInv'
  BY <1>5, NewTaskStep DEF StartErrorfunc, NewRoot
<1>6. ASSUME NEW l \in Lock, ScanOther(l) PROVE KernelInv'
  <2> USE <1>6 DEF ScanOther, Scanned, KernelInv, lockVars, fifoVars
  <2>1. WaitInv' /\ SleepInv' /\ ReaderInv' /\ CountersCover'
    BY DEF WaitInv, NoLostWaiter, InState, Live, SleepInv, ReaderInv, CountersCover, Count,
           countVars, Dying
  <2>2. ~Uses(Head(todo), l)
    BY DEF Uses
  <2>3. LockInv'
    BY <2>2 DEF LockInv, Uses, Dying
  <2> QED BY <2>1, <2>3
<1>7. ASSUME NEW l \in Lock, ScanUnlock(l) PROVE KernelInv'
  <2> USE <1>7 DEF ScanUnlock, Scanned, KernelInv
  <2>1. /\ WaitInv' /\ SleepInv' /\ ReaderInv' /\ CountersCover'
        /\ \A u \in Task : state[u] \notin {"FREE", "SCHED"} => state'[u] \notin {"FREE", "SCHED"}
    BY RestartStep
  <2>2. Head(todo) \in Task
    BY DEF TypeOK, KillTypeOK
  <2>3. ~Uses(Head(todo), l)'
    BY <2>2, PassOnUses
  <2>4. \A u \in Task, m \in Lock : Uses(u, m)' => Uses(u, m)
    BY PassOnUses
  <2>5. \A m \in Lock : owner'[m] = None => notify'[m] = <<>>
    BY PassOnUses
  <2>6. LockInv'
    <3> SUFFICES ASSUME NEW u \in Task, NEW m \in Lock, Uses(u, m)'
                 PROVE  state'[u] \notin {"FREE", "SCHED"} /\ (Dying(u)' => m \in scan')
      BY <2>5 DEF LockInv
    <3>1. state[u] \notin {"FREE", "SCHED"} /\ (Dying(u) => m \in scan)
      BY <2>4 DEF LockInv
    <3>2. Dying(u)' => Dying(u) /\ u = Head(todo)
      BY DEF Dying
    <3> QED BY <2>1, <2>3, <3>1, <3>2
  <2> QED BY <2>1, <2>6
<1>8. ASSUME NEW l \in Lock, ScanError(l) PROVE KernelInv'
  <2> USE <1>8 DEF ScanError, KernelInv, fifoVars
  <2>1. pc' # "scan"
    BY DEF RaiseError, StartKill
  <2>2. WaitInv' /\ SleepInv' /\ ReaderInv' /\ CountersCover'
    BY <2>1 DEF WaitInv, NoLostWaiter, InState, Live, SleepInv, ReaderInv, CountersCover, Count,
           countVars, Dying
  <2>3. LockInv'
    BY <2>1, PassOnUses DEF LockInv, Dying
  <2> QED BY <2>2, <2>3
<1>9. ASSUME NEW l \in Lock, NEW i \in 1 .. Len(notify[l]), ScanDequeue(l, i)
      PROVE  KernelInv'
  <2> USE <1>9 DEF ScanDequeue, killVars, KernelInv, fifoVars
  <2>1. WaitInv' /\ SleepInv' /\ ReaderInv' /\ CountersCover'
    BY DEF WaitInv, NoLostWaiter, InState, Live, SleepInv, ReaderInv, CountersCover, Count,
           countVars, Dying
  <2> DEFINE rest == [j \in 1 .. Len(notify[l]) - 1 |->
                        IF j < i THEN notify[l][j] ELSE notify[l][j + 1]]
  <2>2. notify[l] \in Seq(Task) /\ notify' = [notify EXCEPT ![l] = rest]
    BY DEF TypeOK, LockTypeOK
  <2>3. \A j \in 1 .. Len(rest) : \E k \in 1 .. Len(notify[l]) : rest[j] = notify[l][k]
    <3>1. Len(notify[l]) \in Nat \ {0}
      BY <2>2
    <3>2. rest \in Seq(Task) /\ Len(rest) = Len(notify[l]) - 1
      BY <2>2, <3>1
    <3> SUFFICES ASSUME NEW j \in 1 .. Len(notify[l]) - 1
                 PROVE  \E k \in 1 .. Len(notify[l]) : rest[j] = notify[l][k]
      BY <3>2
    <3>3. j \in 1 .. Len(notify[l]) /\ j + 1 \in 1 .. Len(notify[l])
      BY <3>1
    <3>4. rest[j] = notify[l][j] \/ rest[j] = notify[l][j + 1]
      OBVIOUS
    <3> QED BY <3>3, <3>4
  <2>4. notify'[l] = rest /\ \A m \in Lock : m # l => notify'[m] = notify[m]
    BY <2>2 DEF TypeOK, LockTypeOK
  <2>5. \A u \in Task, m \in Lock : Uses(u, m)' => Uses(u, m)
    BY <2>3, <2>4 DEF Uses
  <2>6. owner[l] # None
    BY <2>2 DEF LockInv
  <2>7. LockInv'
    BY <2>4, <2>5, <2>6 DEF LockInv, Dying
  <2> QED BY <2>1, <2>7
<1> QED BY <1>1, <1>2, <1>3, <1>4, <1>5, <1>6, <1>7, <1>8, <1>9 DEF BuryStep

-----------------------------------------------------------------------------
(* Byte codes and the steps between passes.                                *)

(* A reboot leaves nothing behind that refers to a task. *)
LEMMA RebootInv ==
  ASSUME TypeOK, TypeOK', KernelInv, NEW t \in Task, NEW u \in Task, Reboot(t, u)
  PROVE  KernelInv'
<1> USE DEF Reboot, KernelInv, killVars, Calls, Runnable
<1>1. \A x \in Task : state'[x] \in {"RUNNING", "FREE"}
  OBVIOUS
<1>2. WaitInv' /\ SleepInv' /\ ReaderInv'
  BY <1>1 DEF WaitInv, NoLostWaiter, SleepInv, ReaderInv, InState
<1>3. LockInv'
  <2>1. \A x \in Task, l \in Lock : ~Uses(x, l)'
    BY TaskAssumption DEF Uses
  <2> QED BY <2>1 DEF LockInv
<1>4. CountersCover'
  <2>1. /\ InState("WAITING")' = {} /\ InState("BLOCKED")' = {}
        /\ InState("SLEEPTILL")' = {}
    BY <1>1 DEF InState
  <2>2. /\ Count("WAITING")' = 0 /\ Count("BLOCKED")' = 0 /\ Count("SLEEPTILL")' = 0
    BY <2>1, FS_EmptySet DEF Count
  <2>3. Count("WAITING") \in Nat /\ Count("SLEEPTILL") \in Nat
    BY InStateFinite DEF Count
  <2>4. Cardinality(PhraseWaiters) \in Nat /\ Cardinality(PhraseWaiters) <= Count("WAITING")
    BY PhraseWaitersFinite, InStateFinite, FS_Subset DEF Count
  <2> QED BY <2>2, <2>3, <2>4 DEF CountersCover, TypeOK, CountTypeOK
<1> QED BY <1>2, <1>3, <1>4

LEMMA TaskStepInv == TypeOK /\ TypeOK' /\ KernelInv /\ TaskStep => KernelInv'
<1> SUFFICES ASSUME TypeOK, TypeOK', KernelInv, NEW t \in Task,
                    \/ Stop(t) \/ Error(t) \/ OnExit(t) \/ OnError(t) \/ SleepTill(t)
                    \/ \E u \in Task : \/ Spawn(t, u) \/ Realtime(t, u) \/ Kill(t, u)
                                       \/ Wait(t, u) \/ Reboot(t, u)
             PROVE  KernelInv'
  BY DEF TaskStep
<1> USE DEF Calls, Runnable, scanRest, structVars, killVars
<1>1. CASE Stop(t) \/ Error(t) \/ OnExit(t) \/ OnError(t)
  BY <1>1, QuietStep
     DEF Stop, Error, OnExit, OnError, RaiseError, StartKill, kernelVars, lockVars,
         fifoVars, countVars
<1>2. ASSUME NEW u \in Task, Kill(t, u) PROVE KernelInv'
  BY <1>2, QuietStep DEF Kill, StartKill, kernelVars, lockVars, fifoVars, countVars
<1>3. ASSUME NEW u \in Task, Spawn(t, u) PROVE KernelInv'
  BY <1>3, NewTaskStep DEF Spawn
<1>4. ASSUME NEW u \in Task, Realtime(t, u) PROVE KernelInv'
  BY <1>4, NewTaskStep DEF Realtime
<1>5. ASSUME NEW u \in Task, Reboot(t, u) PROVE KernelInv'
  BY <1>5, RebootInv
<1>6. CASE SleepTill(t)
  <2> USE <1>6 DEF SleepTill, KernelInv, lockVars, fifoVars, TypeOK, ParkTypeOK
  <2>1. state[t] = "RUNNING" /\ state' = [state EXCEPT ![t] = "SLEEPTILL"]
    OBVIOUS
  <2>2. WaitInv'
    BY <2>1 DEF WaitInv, NoLostWaiter, InState, Live, Dying
  <2>3. SleepInv'
    BY <2>1 DEF SleepInv, InState, Dying
  <2>4. ReaderInv'
    BY <2>1 DEF ReaderInv, Dying
  <2>5. LockInv'
    BY <2>1 DEF LockInv, Uses, Dying
  <2>6. CountersCover'
    <3>1. /\ InState("SLEEPTILL")' = InState("SLEEPTILL") \cup {t}
          /\ InState("WAITING")' \subseteq InState("WAITING")
          /\ InState("BLOCKED")' \subseteq InState("BLOCKED")
      BY <2>1 DEF InState
    <3>2. /\ Count("SLEEPTILL")' <= Count("SLEEPTILL") + 1
          /\ Count("SLEEPTILL")' \in Nat /\ Count("SLEEPTILL") \in Nat
      BY <3>1, EnterState
    <3>3. /\ Count("WAITING")' <= Count("WAITING") /\ Count("WAITING")' \in Nat
          /\ Count("WAITING") \in Nat
      BY <3>1, FewerIn
    <3>4. /\ Count("BLOCKED")' <= Count("BLOCKED") /\ Count("BLOCKED")' \in Nat
          /\ Count("BLOCKED") \in Nat
      BY <3>1, FewerIn
    <3> QED BY <3>2, <3>3, <3>4 DEF CountersCover, CountTypeOK
  <2> QED BY <2>2, <2>3, <2>4, <2>5, <2>6
<1>7. ASSUME NEW x \in Task, Wait(t, x) PROVE KernelInv'
  <2> USE <1>7 DEF Wait, KernelInv, lockVars, fifoVars, TypeOK, ParkTypeOK
  <2>1. state[t] = "RUNNING" /\ state' = [state EXCEPT ![t] = "WAITING"]
    OBVIOUS
  <2>2. WaitInv'
    BY <2>1 DEF WaitInv, NoLostWaiter, InState, Live, Dying, StructTypeOK
  <2>3. SleepInv'
    BY <2>1 DEF SleepInv, InState, Dying
  <2>4. ReaderInv'
    BY <2>1 DEF ReaderInv, Dying
  <2>5. LockInv'
    BY <2>1 DEF LockInv, Uses, Dying
  <2>6. CountersCover'
    <3>1. /\ InState("WAITING")' = InState("WAITING") \cup {t}
          /\ InState("SLEEPTILL")' \subseteq InState("SLEEPTILL")
          /\ InState("BLOCKED")' \subseteq InState("BLOCKED")
      BY <2>1 DEF InState
    <3>2. /\ Count("WAITING")' <= Count("WAITING") + 1
          /\ Count("WAITING")' \in Nat /\ Count("WAITING") \in Nat
      BY <3>1, EnterState
    <3>3. /\ Count("SLEEPTILL")' <= Count("SLEEPTILL") /\ Count("SLEEPTILL")' \in Nat
          /\ Count("SLEEPTILL") \in Nat
      BY <3>1, FewerIn
    <3>4. /\ Count("BLOCKED")' <= Count("BLOCKED") /\ Count("BLOCKED")' \in Nat
          /\ Count("BLOCKED") \in Nat
      BY <3>1, FewerIn
    <3> QED BY <3>2, <3>3, <3>4 DEF CountersCover, CountTypeOK
  <2> QED BY <2>2, <2>3, <2>4, <2>5, <2>6
<1> QED BY <1>1, <1>2, <1>3, <1>4, <1>5, <1>6, <1>7

LEMMA LockStepInv == TypeOK /\ TypeOK' /\ KernelInv /\ LockStep => KernelInv'
<1> SUFFICES ASSUME TypeOK, TypeOK', KernelInv, NEW t \in Task, NEW l \in Lock,
                    LockFree(t, l) \/ LockWait(t, l) \/ Unlock(t, l) \/ UnlockError(t, l)
             PROVE  KernelInv'
  BY DEF LockStep
<1> USE DEF Calls, Runnable, scanRest, structVars, killVars
<1>1. CASE LockFree(t, l)
  <2> USE <1>1 DEF LockFree, KernelInv, fifoVars
  <2>1. WaitInv' /\ SleepInv' /\ ReaderInv' /\ CountersCover'
    BY DEF WaitInv, NoLostWaiter, InState, Live, SleepInv, ReaderInv, CountersCover, Count,
           countVars, Dying
  <2>2. owner' = [owner EXCEPT ![l] = t] /\ notify' = notify
    BY DEF LockInv, TypeOK, LockTypeOK
  <2>3. LockInv'
    BY <2>2, TaskAssumption DEF LockInv, Uses, Dying, TypeOK, LockTypeOK
  <2> QED BY <2>1, <2>3
<1>2. CASE LockWait(t, l)
  <2> USE <1>2 DEF LockWait, KernelInv, fifoVars
  <2>1. state[t] = "RUNNING" /\ state' = [state EXCEPT ![t] = "LOCKWAIT"]
    OBVIOUS
  <2>2. WaitInv'
    BY <2>1 DEF WaitInv, NoLostWaiter, InState, Live, Dying, TypeOK, ParkTypeOK
  <2>3. SleepInv'
    BY <2>1 DEF SleepInv, InState, Dying, TypeOK, ParkTypeOK
  <2>4. ReaderInv'
    BY <2>1 DEF ReaderInv, Dying, TypeOK, ParkTypeOK
  <2>5. CountersCover'
    BY <2>1, CountersKept DEF InState, TypeOK, ParkTypeOK
  <2>6. \A u \in Task, m \in Lock : Uses(u, m)' => Uses(u, m) \/ u = t
    BY DEF Uses, TypeOK, LockTypeOK
  <2>7. LockInv'
    BY <2>1, <2>6 DEF LockInv, Dying, TypeOK, ParkTypeOK, LockTypeOK
  <2> QED BY <2>2, <2>3, <2>4, <2>5, <2>7
<1>3. CASE Unlock(t, l)
  <2> USE <1>3 DEF Unlock, KernelInv
  <2>1. /\ WaitInv' /\ SleepInv' /\ ReaderInv' /\ CountersCover'
        /\ \A u \in Task : state[u] \notin {"FREE", "SCHED"} => state'[u] \notin {"FREE", "SCHED"}
    BY RestartStep
  <2>2. LockInv'
    BY <2>1, PassOnUses DEF LockInv, Dying
  <2> QED BY <2>1, <2>2
<1>4. CASE UnlockError(t, l)
  <2> USE <1>4 DEF UnlockError, KernelInv, fifoVars
  <2>1. pc' # "scan"
    BY DEF RaiseError, StartKill
  <2>2. WaitInv' /\ SleepInv' /\ ReaderInv' /\ CountersCover'
    BY <2>1 DEF WaitInv, NoLostWaiter, InState, Live, SleepInv, ReaderInv, CountersCover, Count,
           countVars, Dying
  <2>3. LockInv'
    <3>1. CASE UNCHANGED lockVars
      BY <2>1, <3>1 DEF LockInv, Uses, Dying, lockVars
    <3>2. CASE PassOn(l)
      BY <2>1, <3>2, PassOnUses DEF LockInv, Dying
    <3> QED BY <3>1, <3>2
  <2> QED BY <2>2, <2>3
<1> QED BY <1>1, <1>2, <1>3, <1>4

(* putfifo() or closefifo() restarts the reader of f. *)
LEMMA UnblockInv ==
  ASSUME TypeOK, TypeOK', KernelInv, NEW f \in open, reader[f] # None, Unblock(f), pc' = "run",
         open' \subseteq open,
         UNCHANGED <<twait, anywait, wakes, lockVars, Nwaiting, Nsleeptill>>
  PROVE  KernelInv'
<1> USE DEF KernelInv, lockVars, Unblock
<1>0. f \in Fifo /\ reader[f] \in Task /\ state[reader[f]] = "BLOCKED" /\ fifo[reader[f]] = f
  BY DEF ReaderInv, TypeOK, FifoTypeOK
<1>1. /\ state'[reader[f]] = "RUNNING"
      /\ \A u \in Task : u # reader[f] => state'[u] = state[u] /\ fifo'[u] = fifo[u]
  BY <1>0 DEF TypeOK, ParkTypeOK, FifoTypeOK
<1>2. WaitInv'
  BY <1>0, <1>1 DEF WaitInv, NoLostWaiter, InState, Live, Dying
<1>3. SleepInv'
  BY <1>0, <1>1 DEF SleepInv, InState, Dying
<1>4. ReaderInv'
  <2> SUFFICES ASSUME NEW g \in open, reader'[g] # None
               PROVE  state'[reader'[g]] = "BLOCKED" /\ fifo'[reader'[g]] = g
    BY DEF ReaderInv, Dying
  <2>1. g # f /\ reader'[g] = reader[g] /\ g \in Fifo
    BY <1>0 DEF TypeOK, FifoTypeOK
  <2>2. reader[g] \in Task /\ state[reader[g]] = "BLOCKED" /\ fifo[reader[g]] = g
    BY <2>1 DEF ReaderInv, TypeOK, FifoTypeOK
  <2>3. reader[g] # reader[f]
    BY <1>0, <2>1, <2>2
  <2> QED BY <1>1, <2>1, <2>2, <2>3
<1>5. LockInv'
  BY <1>0, <1>1 DEF LockInv, Uses, Dying
<1>6. CountersCover'
  <2>1. /\ {reader[f]} \subseteq InState("BLOCKED")
        /\ InState("BLOCKED")' \subseteq InState("BLOCKED") \ {reader[f]}
        /\ InState("WAITING")' \subseteq InState("WAITING")
        /\ InState("SLEEPTILL")' \subseteq InState("SLEEPTILL")
    BY <1>0, <1>1 DEF InState
  <2>2. /\ Count("BLOCKED")' <= Count("BLOCKED") - Cardinality({reader[f]})
        /\ Count("BLOCKED")' \in Nat /\ Count("BLOCKED") \in Nat
    BY <2>1, LeaveState
  <2>3. Cardinality({reader[f]}) = 1
    BY FS_Singleton
  <2>4. /\ Count("WAITING")' <= Count("WAITING") /\ Count("WAITING")' \in Nat
        /\ Count("WAITING") \in Nat
    BY <2>1, FewerIn
  <2>5. /\ Count("SLEEPTILL")' <= Count("SLEEPTILL") /\ Count("SLEEPTILL")' \in Nat
        /\ Count("SLEEPTILL") \in Nat
    BY <2>1, FewerIn
  <2> QED BY <2>2, <2>3, <2>4, <2>5 DEF CountersCover, TypeOK, CountTypeOK
<1> QED BY <1>2, <1>3, <1>4, <1>5, <1>6

LEMMA FifoStepInv == TypeOK /\ TypeOK' /\ KernelInv /\ FifoStep => KernelInv'
<1> SUFFICES ASSUME TypeOK, TypeOK', KernelInv, NEW t \in Task, NEW f \in Fifo,
                    \/ Open(t, f) \/ GetData(t, f) \/ GetBlocks(t, f) \/ GetError(t, f)
                    \/ PutStays(t, f) \/ PutUnblocks(t, f) \/ Flush(t, f) \/ Close(t, f)
             PROVE  KernelInv'
  BY DEF FifoStep
<1> USE DEF Calls, Runnable, fifoRest, structVars, killVars
<1>1. CASE GetData(t, f) \/ GetError(t, f) \/ PutStays(t, f)
  BY <1>1, QuietStep DEF GetData, GetError, PutStays, RaiseError, StartKill, kernelVars,
                         lockVars, fifoVars, countVars
<1>2. CASE Open(t, f) \/ Flush(t, f)
  <2>1. /\ reader' = [reader EXCEPT ![f] = None] /\ open' \subseteq open \cup {f}
        /\ UNCHANGED <<state, twait, anywait, wakes, lockVars, fifo, countVars, pc>> /\ pc = "run"
    BY <1>2 DEF Open, Flush, lockVars, countVars
  <2> USE <2>1 DEF KernelInv, lockVars
  <2>2. WaitInv' /\ SleepInv' /\ CountersCover'
    BY DEF WaitInv, NoLostWaiter, InState, Live, SleepInv, CountersCover, Count,
           countVars, Dying
  <2>3. ReaderInv'
    BY DEF ReaderInv, Dying, TypeOK, FifoTypeOK
  <2>4. LockInv'
    BY DEF LockInv, Uses, Dying
  <2> QED BY <2>2, <2>3, <2>4
<1>3. CASE GetBlocks(t, f)
  <2> USE <1>3 DEF GetBlocks, KernelInv, lockVars, TypeOK, ParkTypeOK, FifoTypeOK
  <2>1. state[t] = "RUNNING" /\ state' = [state EXCEPT ![t] = "BLOCKED"]
    OBVIOUS
  <2>2. WaitInv'
    BY <2>1 DEF WaitInv, NoLostWaiter, InState, Live, Dying
  <2>3. SleepInv'
    BY <2>1 DEF SleepInv, InState, Dying
  <2>4. ReaderInv'
    BY <2>1 DEF ReaderInv, Dying
  <2>5. LockInv'
    BY <2>1 DEF LockInv, Uses, Dying
  <2>6. CountersCover'
    <3>1. /\ InState("BLOCKED")' = InState("BLOCKED") \cup {t}
          /\ InState("WAITING")' \subseteq InState("WAITING")
          /\ InState("SLEEPTILL")' \subseteq InState("SLEEPTILL")
      BY <2>1 DEF InState
    <3>2. /\ Count("BLOCKED")' <= Count("BLOCKED") + 1
          /\ Count("BLOCKED")' \in Nat /\ Count("BLOCKED") \in Nat
      BY <3>1, EnterState
    <3>3. /\ Count("WAITING")' <= Count("WAITING") /\ Count("WAITING")' \in Nat
          /\ Count("WAITING") \in Nat
      BY <3>1, FewerIn
    <3>4. /\ Count("SLEEPTILL")' <= Count("SLEEPTILL") /\ Count("SLEEPTILL")' \in Nat
          /\ Count("SLEEPTILL") \in Nat
      BY <3>1, FewerIn
    <3> QED BY <3>2, <3>3, <3>4 DEF CountersCover, CountTypeOK
  <2> QED BY <2>2, <2>3, <2>4, <2>5, <2>6
<1>4. CASE PutUnblocks(t, f)
  BY <1>4, UnblockInv DEF PutUnblocks, lockVars
<1>5. CASE Close(t, f)
  <2>1. CASE reader[f] = None
    <3> USE <1>5, <2>1 DEF Close, KernelInv, lockVars
    <3>1. WaitInv' /\ SleepInv' /\ ReaderInv' /\ CountersCover'
      BY DEF WaitInv, NoLostWaiter, InState, Live, SleepInv, ReaderInv, CountersCover,
             Count, Dying
    <3>2. LockInv'
      BY DEF LockInv, Uses, Dying
    <3> QED BY <3>1, <3>2
  <2>2. CASE reader[f] # None
    BY <1>5, <2>2, UnblockInv DEF Close, lockVars
  <2> QED BY <2>1, <2>2
<1> QED BY <1>1, <1>2, <1>3, <1>4, <1>5

LEMMA PriorityStepInv == TypeOK /\ TypeOK' /\ KernelInv /\ PriorityStep => KernelInv'
<1> SUFFICES ASSUME TypeOK, TypeOK', KernelInv, NEW t \in Task, NEW v \in Priority,
                    \/ \E x \in Task : SetPriority(t, x, v)
                    \/ SetLimit(t, v) \/ SetLimitError(t, v)
             PROVE  KernelInv'
  BY DEF PriorityStep
<1> QED
  BY QuietStep DEF SetPriority, SetLimit, SetLimitError, RaiseError, StartKill, Calls,
                   Runnable, scanRest, structVars, killVars, kernelVars, lockVars,
                   fifoVars, countVars

LEMMA LoopStepInv == TypeOK /\ TypeOK' /\ KernelInv /\ LoopStep => KernelInv'
<1> SUFFICES ASSUME TypeOK, TypeOK', KernelInv, NEW t \in Task,
                    Wake(t) \/ PhraseDone(t) \/ Interrupt(t) \/ NextProgram(t)
             PROVE  KernelInv'
  BY DEF LoopStep
<1> USE DEF structVars, killVars
<1>1. CASE Interrupt(t) \/ NextProgram(t)
  BY <1>1, NewTaskStep DEF Interrupt, NextProgram, NewRoot
<1>2. CASE Wake(t)
  <2> USE <1>2 DEF Wake, KernelInv, lockVars, fifoVars
  <2>1. state[t] = "SLEEPTILL"
    BY DEF SleepInv, InState
  <2>2. state'[t] = "RUNNING" /\ \A u \in Task : u # t => state'[u] = state[u]
    BY DEF TypeOK, ParkTypeOK
  <2>3. WaitInv'
    BY <2>1, <2>2 DEF WaitInv, NoLostWaiter, InState, Live, Dying
  <2>4. SleepInv'
    BY <2>2 DEF SleepInv, InState, Dying
  <2>5. ReaderInv'
    BY <2>1, <2>2 DEF ReaderInv, Dying, TypeOK, FifoTypeOK
  <2>6. LockInv'
    BY <2>2 DEF LockInv, Uses, Dying
  <2>7. CountersCover'
    <3>1. /\ {t} \subseteq InState("SLEEPTILL")
          /\ InState("SLEEPTILL")' \subseteq InState("SLEEPTILL") \ {t}
          /\ InState("WAITING")' \subseteq InState("WAITING")
          /\ InState("BLOCKED")' \subseteq InState("BLOCKED")
      BY <2>1, <2>2 DEF InState
    <3>2. /\ Count("SLEEPTILL")' <= Count("SLEEPTILL") - Cardinality({t})
          /\ Count("SLEEPTILL")' \in Nat /\ Count("SLEEPTILL") \in Nat
      BY <3>1, LeaveState
    <3>3. Cardinality({t}) = 1
      BY FS_Singleton
    <3>4. /\ Count("WAITING")' <= Count("WAITING") /\ Count("WAITING")' \in Nat
          /\ Count("WAITING") \in Nat
      BY <3>1, FewerIn
    <3>5. /\ Count("BLOCKED")' <= Count("BLOCKED") /\ Count("BLOCKED")' \in Nat
          /\ Count("BLOCKED") \in Nat
      BY <3>1, FewerIn
    <3> QED BY <3>2, <3>3, <3>4, <3>5 DEF CountersCover, TypeOK, CountTypeOK
  <2> QED BY <2>3, <2>4, <2>5, <2>6, <2>7
<1>3. CASE PhraseDone(t)
  <2> USE <1>3 DEF PhraseDone, KernelInv, lockVars, fifoVars
  <2>1. /\ state'[t] = "FREE"
        /\ \A u \in Waiters(t) : state[u] = "WAITING" /\ state'[u] = "RUNNING"
        /\ \A u \in Task : u # t /\ u \notin Waiters(t) => state'[u] = state[u]
    BY DEF Restarted, Waiters, TypeOK, ParkTypeOK
  <2>2. WaitInv'
    <3> SUFFICES ASSUME NEW u \in Task, state'[u] = "WAITING"
                 PROVE  twait[u] \in Live' /\ anywait[twait[u]]
      BY DEF WaitInv, NoLostWaiter, InState, Dying
    <3>1. state[u] = "WAITING" /\ u \notin Waiters(t)
      BY <2>1
    <3>2. twait[u] \in Live /\ anywait[twait[u]] /\ twait[u] # t
      BY <3>1 DEF WaitInv, NoLostWaiter, InState, Waiters
    <3> QED BY <2>1, <3>2 DEF Live
  <2>3. SleepInv'
    BY <2>1 DEF SleepInv, InState, Dying
  <2>4. ReaderInv'
    BY <2>1 DEF ReaderInv, Dying, TypeOK, FifoTypeOK
  <2>5. LockInv'
    BY <2>1 DEF LockInv, Uses, Dying
  <2>6. CountersCover'
    <3>1. /\ Waiters(t) \subseteq InState("WAITING")
          /\ InState("WAITING")' \subseteq InState("WAITING") \ Waiters(t)
      BY <2>1 DEF InState, Waiters
    <3>2. /\ InState("BLOCKED")' \subseteq InState("BLOCKED")
          /\ InState("SLEEPTILL")' \subseteq InState("SLEEPTILL")
      BY <2>1 DEF InState
    <3>3. /\ Count("WAITING")' <= Count("WAITING") - Cardinality(Waiters(t))
          /\ Count("WAITING")' \in Nat /\ Count("WAITING") \in Nat
          /\ Cardinality(Waiters(t)) \in Nat
      BY <3>1, LeaveState
    <3>4. /\ Count("BLOCKED")' <= Count("BLOCKED") /\ Count("BLOCKED")' \in Nat
          /\ Count("BLOCKED") \in Nat
      BY <3>2, FewerIn
    <3>5. /\ Count("SLEEPTILL")' <= Count("SLEEPTILL") /\ Count("SLEEPTILL")' \in Nat
          /\ Count("SLEEPTILL") \in Nat
      BY <3>2, FewerIn
    <3> QED BY <3>3, <3>4, <3>5 DEF CountersCover, TypeOK, CountTypeOK
  <2> QED BY <2>2, <2>3, <2>4, <2>5, <2>6
<1> QED BY <1>1, <1>2, <1>3

LEMMA InitInv == Init => KernelInv
<1> SUFFICES ASSUME NEW t \in Task,
                    state = [u \in Task |-> IF u = t THEN "RUNNING" ELSE "FREE"],
                    wakes = {}, open = {}, owner = [l \in Lock |-> None],
                    notify = [l \in Lock |-> <<>>],
                    Nblocked = 0, Nwaiting = 0, Nsleeptill = 0
             PROVE  KernelInv
  BY DEF Init
<1>1. WaitInv /\ SleepInv /\ ReaderInv
  BY DEF WaitInv, NoLostWaiter, SleepInv, ReaderInv, InState
<1>2. LockInv
  BY TaskAssumption DEF LockInv, Uses
<1>3. CountersCover
  <2>1. InState("WAITING") = {} /\ InState("BLOCKED") = {} /\ InState("SLEEPTILL") = {}
    BY DEF InState
  <2>2. Count("WAITING") = 0 /\ Count("BLOCKED") = 0 /\ Count("SLEEPTILL") = 0
    BY <2>1, FS_EmptySet DEF Count
  <2> QED BY <2>2 DEF CountersCover
<1> QED BY <1>1, <1>2, <1>3 DEF KernelInv

LEMMA StepInv == TypeOK /\ TypeOK' /\ KernelInv /\ [Next]_vars => KernelInv'
<1> SUFFICES ASSUME TypeOK, TypeOK', KernelInv, [Next]_vars PROVE KernelInv'
  OBVIOUS
<1>1. CASE UNCHANGED vars
  <2> USE <1>1 DEF vars, structVars, lockVars, fifoVars, countVars, killVars, KernelInv
  <2>1. WaitInv' /\ SleepInv' /\ ReaderInv' /\ LockInv'
    BY DEF WaitInv, NoLostWaiter, InState, Live, SleepInv, ReaderInv, LockInv, Uses, Dying
  <2>2. CountersCover'
    BY DEF CountersCover, Count, InState
  <2> QED BY <2>1, <2>2
<1> QED BY <1>1, BuryStepInv, TaskStepInv, LockStepInv, FifoStepInv, PriorityStepInv,
           LoopStepInv DEF Next

-----------------------------------------------------------------------------
(* KernelInv holds in every state of every run. *)
THEOREM KernelCorrect == Spec => []KernelInv
<1>1. TypeOK /\ KernelInv /\ TypeOK' /\ [Next]_vars => KernelInv'
  BY StepInv
<1> QED BY <1>1, InitInv, TypeCorrect, PTL DEF Spec

(* A task that waits for another always waits for one that exists and that will
   wake it.                                                                    *)
THEOREM WaitersSafe == Spec => []NoLostWaiter
<1>1. KernelInv => NoLostWaiter
  BY DEF KernelInv, WaitInv
<1> QED BY <1>1, KernelCorrect, PTL

(* The counters exectasks() looks at are never too low. *)
THEOREM CountersSafe == Spec => []CountersCover
<1>1. KernelInv => CountersCover
  BY DEF KernelInv
<1> QED BY <1>1, KernelCorrect, PTL

(* exectasks() never returns while a task is blocked, waiting or asleep. *)
THEOREM QuitSafe == Spec => []NeverQuitsEarly
<1>1. TypeOK /\ KernelInv => NeverQuitsEarly
  <2> SUFFICES ASSUME TypeOK, KernelInv, QuitCondition
               PROVE  /\ InState("BLOCKED") = {} /\ InState("WAITING") = {}
                      /\ InState("SLEEPTILL") = {}
    BY DEF NeverQuitsEarly
  <2>1. /\ Count("BLOCKED") \in Nat /\ Count("WAITING") \in Nat
        /\ Count("SLEEPTILL") \in Nat
    BY InStateFinite DEF Count
  <2>2. Count("BLOCKED") = 0 /\ Count("WAITING") = 0 /\ Count("SLEEPTILL") = 0
    BY <2>1 DEF KernelInv, CountersCover, QuitCondition, TypeOK, CountTypeOK
  <2> QED BY <2>2, InStateFinite, FS_EmptySet DEF Count
<1> QED BY <1>1, KernelCorrect, TypeCorrect, PTL

(* Nothing the kernel follows points to a freed Ktask. *)
THEOREM PointersSafe == Spec => []NoDanglingRefs
<1>1. TypeOK /\ KernelInv => NoDanglingRefs
  <2> SUFFICES ASSUME TypeOK, KernelInv, NEW t \in Task, state[t] = "FREE"
               PROVE  /\ t \notin wakes
                      /\ \A l \in Lock :
                           owner[l] # t /\ \A i \in 1 .. Len(notify[l]) : notify[l][i] # t
                      /\ \A f \in open : reader[f] # t
                      /\ \A u \in InState("WAITING") : twait[u] # t
    BY DEF NoDanglingRefs, Live
  <2>1. t \notin wakes
    BY DEF KernelInv, SleepInv, InState
  <2>2. \A l \in Lock :
          owner[l] # t /\ \A i \in 1 .. Len(notify[l]) : notify[l][i] # t
    BY DEF KernelInv, LockInv, Uses
  <2>3. \A f \in open : reader[f] # t
    BY TaskAssumption DEF KernelInv, ReaderInv
  <2>4. \A u \in InState("WAITING") : twait[u] # t
    BY DEF KernelInv, WaitInv, NoLostWaiter, Live
  <2> QED BY <2>1, <2>2, <2>3, <2>4
<1> QED BY <1>1, KernelCorrect, TypeCorrect, PTL

-----------------------------------------------------------------------------
(* ParkInv.                                                                *)

-----------------------------------------------------------------------------
(* The parts of ParkInv in steps that do not concern them.  A task that is
   being deleted stays so, or is no longer parked.                          *)

LEMMA SleepersKept ==
  ASSUME SleepersInv, InState("SLEEPTILL")' \subseteq InState("SLEEPTILL"),
         wakes \subseteq wakes', \A t \in InState("SLEEPTILL")' : Dying(t) => Dying(t)'
  PROVE  SleepersInv'
BY DEF SleepersInv

LEMMA BlockedKept ==
  ASSUME BlockedInv, InState("BLOCKED")' \subseteq InState("BLOCKED"), UNCHANGED fifoVars,
         \A t \in InState("BLOCKED")' : Dying(t) => Dying(t)'
  PROVE  BlockedInv'
BY DEF BlockedInv, fifoVars

LEMMA LinesKept ==
  ASSUME TypeOK, LineInv, notify' = notify,
         \A t \in Task : state'[t] = "LOCKWAIT" <=> state[t] = "LOCKWAIT",
         \A t \in Task : (onexit'[t] => onexit[t]) /\ (ontaskerror'[t] => ontaskerror[t]),
         \A t \in InState("LOCKWAIT")' : Dying(t) => Dying(t)'
  PROVE  LineInv'
<1>1. \A l \in Lock : \A i \in 1 .. Len(notify[l]) : notify[l][i] \in Task
  BY DEF TypeOK, LockTypeOK
<1>2. \A l \in Lock : \A i \in 1 .. Len(notify[l]) : state'[notify[l][i]] = "LOCKWAIT"
  BY <1>1 DEF LineInv
<1>3. \A t \in InState("LOCKWAIT")' : Dying(t)' \/ InAnyLine(t)'
  BY DEF LineInv, InAnyLine, InState
<1> QED BY <1>2, <1>3 DEF LineInv

(* Steps outside unlocktid() that change none of what ParkInv reads. *)
LEMMA QuietPark ==
  ASSUME TypeOK, ParkInv, pc # "scan",
         UNCHANGED <<state, wakes, notify, onexit, ontaskerror, fifoVars>>
  PROVE  ParkInv'
<1>1. \A t \in Task : ~Dying(t)
  BY DEF Dying
<1>2. \A s : InState(s)' = InState(s) /\ InState(s) \subseteq Task
  BY DEF InState
<1>3. SleepersInv'
  BY <1>1, <1>2, SleepersKept DEF ParkInv
<1>4. BlockedInv'
  BY <1>1, <1>2, BlockedKept DEF ParkInv
<1>5. LineInv'
  BY <1>1, <1>2, LinesKept DEF ParkInv
<1> QED BY <1>3, <1>4, <1>5 DEF ParkInv

(* newtp(): the struct was free, so it was in no line and in no other place. *)
LEMMA NewTaskPark ==
  ASSUME TypeOK, ParkInv, pc # "scan", NEW t \in Task, NEW s \in {"RUNNING", "SCHED"}, NEW p,
         NEW pri, NEW child, NewTask(t, s, p, pri, child),
         UNCHANGED <<wakes, lockVars, fifoVars>>
  PROVE  ParkInv'
<1> USE DEF ParkInv, NewTask, lockVars
<1>1. \A u \in Task : ~Dying(u)
  BY DEF Dying
<1>2. \A u \in Task : state'[u] = state[u] \/ (state[u] = "FREE" /\ state'[u] = s)
  BY DEF TypeOK, ParkTypeOK
<1>3. \A r \in {"SLEEPTILL", "BLOCKED", "LOCKWAIT"} : InState(r)' = InState(r) /\ InState(r) \subseteq Task
  BY <1>2 DEF InState
<1>4. SleepersInv'
  BY <1>1, <1>3, SleepersKept
<1>5. BlockedInv'
  BY <1>1, <1>3, BlockedKept
<1>6. \A u \in Task : (onexit'[u] => onexit[u]) /\ (ontaskerror'[u] => ontaskerror[u])
  BY DEF TypeOK, StructTypeOK
<1>7. LineInv'
  BY <1>1, <1>2, <1>3, <1>6, LinesKept
<1> QED BY <1>4, <1>5, <1>7

-----------------------------------------------------------------------------
(* The loops of taskkill() and unlocktid().                                *)

(* taskbury(x) as far as unlocktid(): of the places x can be parked in, only
   the lines of locks may still hold it.                                    *)
LEMMA BuryPark ==
  ASSUME TypeOK, TypeOK', KernelInv, ParkInv, NEW x \in Task, pc = "bury",
         Detach(x, Waiters(x)),
         \/ /\ state' = [Restarted(Waiters(x)) EXCEPT ![x] = "RUNNING"] /\ pc' = "bury"
            /\ onexit[x] \/ ontaskerror[x]
         \/ state' = Restarted(Waiters(x)) /\ pc' = "scan" /\ Head(todo') = x,
         \A t \in Task : (onexit'[t] => onexit[t]) /\ (ontaskerror'[t] => ontaskerror[t]),
         UNCHANGED lockVars
  PROVE  ParkInv'
<1> USE DEF ParkInv, lockVars
<1>1. \A u \in Task : ~Dying(u)
  BY DEF Dying
<1>2. \A u \in Task : u # x => state'[u] = state[u] \/ (state[u] = "WAITING" /\ state'[u] = "RUNNING")
  BY DEF Restarted, Waiters, TypeOK, ParkTypeOK
<1>3. state'[x] = "RUNNING" \/ (Dying(x)' /\ state'[x] = state[x])
  BY DEF Restarted, Dying, TypeOK, ParkTypeOK
<1>4. SleepersInv'
  <2> SUFFICES ASSUME NEW u \in Task, state'[u] = "SLEEPTILL", u # x
               PROVE  u \in wakes'
    BY <1>3 DEF SleepersInv, InState
  <2>1. u \in wakes
    BY <1>1, <1>2 DEF SleepersInv, InState
  <2> QED BY <2>1 DEF Detach
<1>5. BlockedInv'
  <2>1. \A f \in open' : reader'[f] # None => reader[f] # None /\ size'[f] = size[f]
    BY DEF Detach, TypeOK, FifoTypeOK
  <2>2. ASSUME NEW u \in Task, state'[u] = "BLOCKED", u # x
        PROVE  fifo'[u] \in open' /\ reader'[fifo'[u]] = u
    <3>1. state[u] = "BLOCKED" /\ fifo[u] \in open /\ reader[fifo[u]] = u
      BY <1>1, <1>2, <2>2 DEF BlockedInv, InState
    <3>2. fifo'[u] = fifo[u] /\ open' = open
      BY <2>2 DEF Detach, TypeOK, FifoTypeOK
    <3>3. reader' = reader \/ (state[x] = "BLOCKED" /\ reader' = [reader EXCEPT ![fifo[x]] = None])
      BY DEF Detach
    <3>4. state[x] = "BLOCKED" => fifo[x] # fifo[u]
      BY <1>1, <2>2, <3>1 DEF BlockedInv, InState
    <3> QED BY <3>1, <3>2, <3>3, <3>4 DEF TypeOK, FifoTypeOK
  <2>3. open' = open
    BY DEF Detach
  <2> QED BY <1>3, <2>1, <2>2, <2>3 DEF BlockedInv, InState
<1>6. LineInv'
  <2>1. CASE Lock = {}
    <3>1. \A u \in Task : state[u] # "LOCKWAIT"
      BY <1>1, <2>1 DEF LineInv, InState, InAnyLine
    <3> QED BY <1>2, <1>3, <2>1, <3>1 DEF LineInv, InState
  <2>2. CASE Lock # {}
    <3>1. ~onexit[x] /\ ~ontaskerror[x]
      BY <2>2 DEF LineInv
    <3>2. \A u \in Task : state'[u] = "LOCKWAIT" <=> state[u] = "LOCKWAIT"
      BY <1>2, <3>1 DEF Restarted, Waiters, TypeOK, ParkTypeOK
    <3> QED BY <1>1, <3>2, LinesKept DEF InState
  <2> QED BY <2>1, <2>2
<1> QED BY <1>4, <1>5, <1>6

(* unlocklk(l): the first waiter, if any, leaves the line it stood in and runs
   again; the others keep their places.                                      *)
LEMMA PassOnPark ==
  ASSUME TypeOK, TypeOK', KernelInv, ParkInv, NEW l \in Lock, PassOn(l), RestartNext(l),
         UNCHANGED <<wakes, fifoVars, onexit, ontaskerror, pc, todo>>
  PROVE  ParkInv'
<1> USE DEF ParkInv
<1>0. notify[l] \in Seq(Task) /\ notify \in [Lock -> Seq(Task)]
  BY DEF TypeOK, LockTypeOK
<1>1. \A u : Dying(u)' <=> Dying(u)
  BY DEF Dying
<1>2. CASE notify[l] = <<>>
  <2>1. notify' = notify /\ state' = state
    BY <1>0, <1>2 DEF PassOn, RestartNext, TypeOK, ParkTypeOK
  <2> QED BY <1>1, <2>1, SleepersKept, BlockedKept, LinesKept DEF InState
<1>3. CASE notify[l] # <<>>
  <2> DEFINE w == notify[l][1]
  <2>0. w = Head(notify[l]) /\ w \in Task /\ 1 \in 1 .. Len(notify[l])
    BY <1>0, <1>3
  <2>1. state[w] = "LOCKWAIT" /\ state'[w] = "RUNNING" /\ \A u \in Task : u # w => state'[u] = state[u]
    BY <1>3, <2>0 DEF RestartNext, LineInv
  <2>2. /\ notify'[l] = Tail(notify[l]) /\ Len(notify'[l]) = Len(notify[l]) - 1
        /\ Len(notify[l]) \in Nat
        /\ \A i \in 1 .. Len(notify[l]) - 1 : notify'[l][i] = notify[l][i + 1]
    BY <1>0, <1>3 DEF PassOn
  <2>3. \A m \in Lock : m # l => notify'[m] = notify[m]
    BY <1>0 DEF PassOn
  <2> HIDE DEF w
  <2>4. SleepersInv'
    <3>1. InState("SLEEPTILL")' \subseteq InState("SLEEPTILL")
      BY <2>1 DEF InState
    <3> QED BY <1>1, <3>1, SleepersKept
  <2>5. BlockedInv'
    <3>1. InState("BLOCKED")' \subseteq InState("BLOCKED")
      BY <2>1 DEF InState
    <3> QED BY <1>1, <3>1, BlockedKept
  <2> DEFINE Before(m, i) == IF m = l THEN i + 1 ELSE i
  <2>6. ASSUME NEW m \in Lock, NEW i \in 1 .. Len(notify'[m])
        PROVE  Before(m, i) \in 1 .. Len(notify[m]) /\ notify'[m][i] = notify[m][Before(m, i)]
    <3>1. CASE m = l
      <4>1. i \in 1 .. Len(notify[l]) - 1 /\ Before(m, i) = i + 1
        BY <2>2, <2>6, <3>1
      <4>2. notify'[l][i] = notify[l][i + 1] /\ i + 1 \in 1 .. Len(notify[l])
        BY <2>2, <4>1
      <4> QED BY <3>1, <4>1, <4>2
    <3>2. CASE m # l
      BY <2>3, <2>6, <3>2
    <3> QED BY <3>1, <3>2
  <2>7. \A m \in Lock : \A i \in 1 .. Len(notify'[m]) : notify'[m][i] # w
    <3> SUFFICES ASSUME NEW m \in Lock, NEW i \in 1 .. Len(notify'[m]), notify'[m][i] = w
                 PROVE  FALSE
      OBVIOUS
    <3>1. /\ Before(m, i) \in 1 .. Len(notify[m]) /\ notify[m][Before(m, i)] = notify[l][1]
          /\ 1 \in 1 .. Len(notify[l])
      BY <2>0, <2>6 DEF w
    <3>2. \A j \in 1 .. Len(notify[m]) : notify[m][j] = notify[l][1] => m = l /\ j = 1
      BY <2>0 DEF LineInv
    <3>3. m = l /\ Before(m, i) = 1
      <4> HIDE DEF Before
      <4> QED BY <3>1, <3>2
    <3>4. i \in Nat /\ i >= 1
      BY <2>2, <2>3, <1>0
    <3> QED BY <3>3, <3>4
  <2>8. \A m \in Lock : \A i \in 1 .. Len(notify'[m]) : state'[notify'[m][i]] = "LOCKWAIT"
    <3> SUFFICES ASSUME NEW m \in Lock, NEW i \in 1 .. Len(notify'[m])
                 PROVE  state'[notify'[m][i]] = "LOCKWAIT"
      OBVIOUS
    <3>1. \A j \in 1 .. Len(notify[m]) : notify[m][j] \in Task /\ state[notify[m][j]] = "LOCKWAIT"
      BY <1>0 DEF LineInv
    <3>2. Before(m, i) \in 1 .. Len(notify[m]) /\ notify'[m][i] = notify[m][Before(m, i)]
      BY <2>6
    <3> HIDE DEF Before
    <3>3. notify'[m][i] # w
      BY <2>7
    <3> QED BY <2>1, <3>1, <3>2, <3>3
  <2>9. ASSUME NEW m \in Lock, NEW n \in Lock, NEW i \in 1 .. Len(notify'[m]),
               NEW j \in 1 .. Len(notify'[n]), notify'[m][i] = notify'[n][j]
        PROVE  m = n /\ i = j
    <3>1. m = n /\ Before(m, i) = Before(n, j)
      <4>1. /\ Before(m, i) \in 1 .. Len(notify[m]) /\ Before(n, j) \in 1 .. Len(notify[n])
            /\ notify[m][Before(m, i)] = notify[n][Before(n, j)]
        BY <2>6, <2>9
      <4> HIDE DEF Before
      <4> QED BY <4>1 DEF LineInv
    <3>2. Len(notify'[m]) \in Nat /\ Len(notify'[n]) \in Nat
      BY <1>0, <2>2, <2>3
    <3> QED BY <3>1, <3>2
  <2>10. ASSUME NEW u \in Task, state'[u] = "LOCKWAIT", ~Dying(u)'
         PROVE  InAnyLine(u)'
    <3>1. u # w /\ state[u] = "LOCKWAIT"
      BY <2>1, <2>10
    <3>2. PICK m \in Lock : \E i \in 1 .. Len(notify[m]) : notify[m][i] = u
      BY <1>1, <2>10, <3>1 DEF LineInv, InState, InAnyLine
    <3>3. PICK i \in 1 .. Len(notify[m]) : notify[m][i] = u
      BY <3>2
    <3>4. CASE m = l
      <4>1. i - 1 \in 1 .. Len(notify'[l]) /\ notify'[l][i - 1] = u
        BY <2>2, <3>1, <3>3, <3>4 DEF w
      <4> QED BY <4>1 DEF InAnyLine
    <3>5. CASE m # l
      BY <2>3, <3>3, <3>5 DEF InAnyLine
    <3> QED BY <3>4, <3>5
  <2>11. LineInv'
    BY <2>8, <2>9, <2>10 DEF LineInv, InState
  <2> QED BY <2>4, <2>5, <2>11
<1> QED BY <1>2, <1>3

(* The chains after one node of l's was dropped. *)
LEMMA DroppedNode ==
  ASSUME TypeOK, NEW l \in Lock, NEW i \in 1 .. Len(notify[l]), ScanDequeue(l, i)
  PROVE  /\ Len(notify'[l]) = Len(notify[l]) - 1
         /\ \A j \in 1 .. Len(notify[l]) - 1 :
              notify'[l][j] = IF j < i THEN notify[l][j] ELSE notify[l][j + 1]
         /\ \A m \in Lock : m # l => notify'[m] = notify[m]
<1> USE DEF ScanDequeue
<1> DEFINE rest == [j \in 1 .. Len(notify[l]) - 1 |->
                      IF j < i THEN notify[l][j] ELSE notify[l][j + 1]]
<1>1. /\ notify[l] \in Seq(Task) /\ notify \in [Lock -> Seq(Task)] /\ Len(notify[l]) \in Nat
  BY DEF TypeOK, LockTypeOK
<1>2. notify'[l] = rest /\ \A m \in Lock : m # l => notify'[m] = notify[m]
  BY <1>1
<1>3. \A j \in 1 .. Len(notify[l]) - 1 : rest[j] \in Task
  BY <1>1
<1>4. rest \in Seq(Task) /\ Len(rest) = Len(notify[l]) - 1
  BY <1>1, <1>3
<1> QED BY <1>2, <1>4

(* unlocktid(x): the i-th node of l's chain, x's own, is dropped. *)
LEMMA DequeuePark ==
  ASSUME TypeOK, TypeOK', ParkInv, NEW l \in Lock, NEW i \in 1 .. Len(notify[l]), ScanDequeue(l, i)
  PROVE  ParkInv'
<1> USE DEF ScanDequeue, scanRest, killVars, structVars, ParkInv
<1>0. /\ notify[l] \in Seq(Task) /\ notify \in [Lock -> Seq(Task)]
      /\ Len(notify[l]) \in Nat /\ notify[l][i] = Head(todo) /\ pc = "scan"
  BY DEF TypeOK, LockTypeOK
<1>1. \A u : Dying(u)' <=> Dying(u)
  BY DEF Dying
<1>2. SleepersInv' /\ BlockedInv'
  BY <1>1, SleepersKept, BlockedKept DEF InState
<1>3. /\ Len(notify'[l]) = Len(notify[l]) - 1
      /\ \A j \in 1 .. Len(notify[l]) - 1 :
           notify'[l][j] = IF j < i THEN notify[l][j] ELSE notify[l][j + 1]
  BY DroppedNode
<1>4. \A m \in Lock : m # l => notify'[m] = notify[m]
  BY DroppedNode
<1> DEFINE Before(m, j) == IF m = l /\ j >= i THEN j + 1 ELSE j
<1>5. ASSUME NEW m \in Lock, NEW j \in 1 .. Len(notify'[m])
      PROVE  Before(m, j) \in 1 .. Len(notify[m]) /\ notify'[m][j] = notify[m][Before(m, j)]
  <2>1. CASE m = l
    <3>1. j \in 1 .. Len(notify[l]) - 1 /\ (Before(m, j) = IF j < i THEN j ELSE j + 1)
      BY <1>0, <1>3, <1>5, <2>1
    <3>2. Before(m, j) \in 1 .. Len(notify[l]) /\ notify'[l][j] = notify[l][Before(m, j)]
      BY <1>0, <1>3, <3>1
    <3> QED BY <2>1, <3>2
  <2>2. CASE m # l
    BY <1>4, <1>5, <2>2
  <2> QED BY <2>1, <2>2
<1>6. ASSUME NEW m \in Lock, NEW j \in 1 .. Len(notify'[m])
      PROVE  state'[notify'[m][j]] = "LOCKWAIT"
  <2>1. Before(m, j) \in 1 .. Len(notify[m]) /\ notify'[m][j] = notify[m][Before(m, j)]
    BY <1>5
  <2>2. state[notify[m][Before(m, j)]] = "LOCKWAIT"
    <3> HIDE DEF Before
    <3> QED BY <2>1 DEF LineInv
  <2> QED BY <2>1, <2>2
<1>7. ASSUME NEW m \in Lock, NEW n \in Lock, NEW j \in 1 .. Len(notify'[m]),
             NEW k \in 1 .. Len(notify'[n]), notify'[m][j] = notify'[n][k]
      PROVE  m = n /\ j = k
  <2>1. m = n /\ Before(m, j) = Before(n, k)
    <3>1. /\ Before(m, j) \in 1 .. Len(notify[m]) /\ Before(n, k) \in 1 .. Len(notify[n])
          /\ notify[m][Before(m, j)] = notify[n][Before(n, k)]
      BY <1>5, <1>7, ZenonT(30)
    <3> HIDE DEF Before
    <3> QED BY <3>1 DEF LineInv
  <2>2. Len(notify'[m]) \in Nat /\ Len(notify'[n]) \in Nat
    BY <1>0, <1>3, <1>4
  <2> QED BY <2>1, <2>2
<1>8. ASSUME NEW u \in Task, state'[u] = "LOCKWAIT", ~Dying(u)'
      PROVE  InAnyLine(u)'
  <2>1. state[u] = "LOCKWAIT" /\ u # notify[l][i]
    BY <1>0, <1>8 DEF Dying
  <2>2. PICK m \in Lock : \E j \in 1 .. Len(notify[m]) : notify[m][j] = u
    BY <1>1, <1>8, <2>1 DEF LineInv, InState, InAnyLine
  <2>3. PICK j \in 1 .. Len(notify[m]) : notify[m][j] = u
    BY <2>2
  <2>4. CASE m = l
    <3>1. j # i
      BY <2>1, <2>3, <2>4
    <3>2. CASE j < i
      <4>1. j \in 1 .. Len(notify'[l]) /\ notify'[l][j] = u
        BY <1>0, <1>3, <2>3, <2>4, <3>2
      <4> QED BY <4>1 DEF InAnyLine
    <3>3. CASE j > i
      <4>1. j - 1 \in 1 .. Len(notify'[l]) /\ notify'[l][j - 1] = u
        BY <1>0, <1>3, <2>3, <2>4, <3>3
      <4> QED BY <4>1 DEF InAnyLine
    <3> QED BY <3>1, <3>2, <3>3, <1>0, <2>4
  <2>5. CASE m # l
    BY <1>4, <2>3, <2>5 DEF InAnyLine
  <2> QED BY <2>4, <2>5
<1>9. LineInv'
  BY <1>6, <1>7, <1>8 DEF LineInv, InState
<1> QED BY <1>2, <1>9

LEMMA BuryStepPark ==
  TypeOK /\ TypeOK' /\ KernelInv /\ ParkInv /\ BuryStep => ParkInv'
<1> SUFFICES ASSUME TypeOK, TypeOK', KernelInv, ParkInv, BuryStep PROVE ParkInv'
  OBVIOUS
<1> USE DEF scanRest, structVars
<1>1. CASE Spare \/ KillDone
  BY <1>1, QuietPark DEF Spare, KillDone, lockVars
<1>2. CASE DeleteTask
  <2> USE <1>2 DEF DeleteTask, ParkInv, lockVars
  <2>1. /\ state'[Head(todo)] = "FREE"
        /\ \A u \in Task : u # Head(todo) => state'[u] = state[u] /\ ~Dying(u)
    BY DEF Dying, TypeOK, ParkTypeOK, KillTypeOK
  <2>2. \A s \in {"SLEEPTILL", "BLOCKED", "LOCKWAIT"} :
          InState(s)' \subseteq InState(s) /\ \A u \in InState(s)' : ~Dying(u)
    BY <2>1 DEF InState
  <2>3. SleepersInv' /\ BlockedInv'
    BY <2>2, SleepersKept, BlockedKept
  <2>4. ASSUME NEW l \in Lock, NEW i \in 1 .. Len(notify[l])
        PROVE  state'[notify[l][i]] = "LOCKWAIT"
    <3>1. notify[l][i] \in Task /\ Uses(notify[l][i], l)
      BY DEF TypeOK, LockTypeOK, Uses
    <3>2. notify[l][i] # Head(todo)
      BY <3>1 DEF KernelInv, LockInv, Dying
    <3> QED BY <2>1, <3>1, <3>2 DEF LineInv
  <2>5. LineInv'
    BY <2>2, <2>4 DEF LineInv, InAnyLine
  <2> QED BY <2>3, <2>5
<1>3. ASSUME NEW t \in Task, BuryOnError(t) \/ BuryOnExit(t) \/ BuryForGood(t)
      PROVE  ParkInv'
  <2>1. \A u \in Task : (onexit'[u] => onexit[u]) /\ (ontaskerror'[u] => ontaskerror[u])
    BY <1>3 DEF BuryOnError, BuryOnExit, BuryForGood, TypeOK, StructTypeOK
  <2> QED
    BY <1>3, <2>1, BuryPark DEF BuryOnError, BuryOnExit, BuryForGood, Burying
<1>4. ASSUME NEW t \in Task, StartErrorfunc(t) PROVE ParkInv'
  BY <1>4, NewTaskPark DEF StartErrorfunc, NewRoot
<1>5. ASSUME NEW l \in Lock, ScanOther(l) PROVE ParkInv'
  <2> USE <1>5 DEF ScanOther, ParkInv, lockVars
  <2>1. \A u : Dying(u)' <=> Dying(u)
    BY DEF Dying
  <2> QED BY <2>1, SleepersKept, BlockedKept, LinesKept DEF InState
<1>6. ASSUME NEW l \in Lock, ScanUnlock(l) PROVE ParkInv'
  BY <1>6, PassOnPark DEF ScanUnlock
<1>7. ASSUME NEW l \in Lock, ScanError(l) PROVE ParkInv'
  <2>1. Len(notify[l]) > 0 => Head(notify[l]) = notify[l][1] /\ 1 \in 1 .. Len(notify[l])
    BY DEF TypeOK, LockTypeOK
  <2>2. NextIsParked(l)
    BY <2>1 DEF NextIsParked, ParkInv, LineInv, TypeOK, LockTypeOK
  <2> QED BY <1>7, <2>2 DEF ScanError
<1>8. ASSUME NEW l \in Lock, NEW i \in 1 .. Len(notify[l]), ScanDequeue(l, i)
      PROVE  ParkInv'
  BY <1>8, DequeuePark
<1> QED BY <1>1, <1>2, <1>3, <1>4, <1>5, <1>6, <1>7, <1>8 DEF BuryStep

-----------------------------------------------------------------------------
(* Byte codes and the steps between passes.                                *)

(* A running task parks itself, or sets another going, outside of killing. *)
LEMMA TaskStepPark ==
  TypeOK /\ TypeOK' /\ KernelInv /\ ParkInv /\ LocksUnhandled /\ TaskStep => ParkInv'
<1> SUFFICES ASSUME TypeOK, TypeOK', KernelInv, ParkInv, LocksUnhandled, NEW t \in Task,
                    \/ Stop(t) \/ Error(t) \/ OnExit(t) \/ OnError(t) \/ SleepTill(t)
                    \/ \E u \in Task : \/ Spawn(t, u) \/ Realtime(t, u) \/ Kill(t, u)
                                       \/ Wait(t, u) \/ Reboot(t, u)
             PROVE  ParkInv'
  BY DEF TaskStep
<1> USE DEF Calls, Runnable, scanRest, structVars, killVars
<1>1. CASE Stop(t) \/ Error(t)
  BY <1>1, QuietPark DEF Stop, Error, lockVars
<1>2. CASE OnExit(t) \/ OnError(t)
  <2>1. Lock = {}
    BY <1>2 DEF OnExit, OnError, LocksUnhandled
  <2>2. \A u : ~Dying(u) /\ ~Dying(u)'
    BY <1>2 DEF OnExit, OnError, Dying
  <2>3. UNCHANGED <<state, wakes, lockVars, fifoVars>>
    BY <1>2 DEF OnExit, OnError
  <2>4. SleepersInv' /\ BlockedInv'
    BY <2>2, <2>3, SleepersKept, BlockedKept DEF ParkInv, InState
  <2>5. LineInv'
    BY <2>1, <2>2, <2>3 DEF ParkInv, LineInv, InState, InAnyLine
  <2> QED BY <2>4, <2>5 DEF ParkInv
<1>3. ASSUME NEW u \in Task, Kill(t, u) PROVE ParkInv'
  BY <1>3, QuietPark DEF Kill, lockVars
<1>4. ASSUME NEW u \in Task, Spawn(t, u) PROVE ParkInv'
  BY <1>4, NewTaskPark DEF Spawn
<1>5. ASSUME NEW u \in Task, Realtime(t, u) PROVE ParkInv'
  BY <1>5, NewTaskPark DEF Realtime
<1>6. ASSUME NEW u \in Task, Reboot(t, u) PROVE ParkInv'
  <2> USE <1>6 DEF Reboot
  <2>1. \A x \in Task : state'[x] \in {"RUNNING", "FREE"}
    OBVIOUS
  <2>2. SleepersInv' /\ BlockedInv'
    BY <2>1 DEF SleepersInv, BlockedInv, InState
  <2>3. Lock # {} => \A x \in Task : ~onexit'[x] /\ ~ontaskerror'[x]
    BY DEF ParkInv, LineInv, TypeOK, StructTypeOK
  <2>4. \A l \in Lock : Len(notify'[l]) = 0
    OBVIOUS
  <2>5. LineInv'
    BY <2>1, <2>3, <2>4 DEF LineInv, InState
  <2> QED BY <2>2, <2>5 DEF ParkInv
<1>7. CASE SleepTill(t)
  <2> USE <1>7 DEF SleepTill, ParkInv, lockVars
  <2>1. /\ state[t] = "RUNNING" /\ state' = [state EXCEPT ![t] = "SLEEPTILL"]
        /\ \A u : ~Dying(u)
    BY DEF Dying
  <2>2. SleepersInv'
    BY <2>1 DEF SleepersInv, InState, TypeOK, ParkTypeOK
  <2>3. BlockedInv' /\ LineInv'
    BY <2>1, BlockedKept, LinesKept DEF InState, TypeOK, ParkTypeOK
  <2> QED BY <2>2, <2>3
<1>8. ASSUME NEW x \in Task, Wait(t, x) PROVE ParkInv'
  <2> USE <1>8 DEF Wait, ParkInv, lockVars
  <2>1. /\ state[t] = "RUNNING" /\ state' = [state EXCEPT ![t] = "WAITING"]
        /\ \A u : ~Dying(u)
    BY DEF Dying
  <2>2. SleepersInv' /\ BlockedInv' /\ LineInv'
    BY <2>1, SleepersKept, BlockedKept, LinesKept DEF InState, TypeOK, ParkTypeOK
  <2> QED BY <2>2
<1> QED BY <1>1, <1>2, <1>3, <1>4, <1>5, <1>6, <1>7, <1>8

LEMMA LockStepPark ==
  TypeOK /\ TypeOK' /\ KernelInv /\ ParkInv /\ LockStep => ParkInv'
<1> SUFFICES ASSUME TypeOK, TypeOK', KernelInv, ParkInv, NEW t \in Task, NEW l \in Lock,
                    LockFree(t, l) \/ LockWait(t, l) \/ Unlock(t, l) \/ UnlockError(t, l)
             PROVE  ParkInv'
  BY DEF LockStep
<1> USE DEF Calls, Runnable, scanRest, structVars, killVars
<1>1. CASE LockFree(t, l)
  <2>1. notify' = notify
    BY <1>1 DEF LockFree, KernelInv, LockInv, TypeOK, LockTypeOK
  <2> QED BY <1>1, <2>1, QuietPark DEF LockFree
<1>2. CASE LockWait(t, l)
  <2> USE <1>2 DEF LockWait, ParkInv
  <2>0. /\ state[t] = "RUNNING" /\ state' = [state EXCEPT ![t] = "LOCKWAIT"]
        /\ \A u : ~Dying(u)
        /\ \A u \in Task : u # t => state'[u] = state[u]
        /\ state'[t] = "LOCKWAIT" /\ notify \in [Lock -> Seq(Task)] /\ notify[l] \in Seq(Task)
    BY DEF Dying, TypeOK, ParkTypeOK, LockTypeOK
  <2>1. SleepersInv' /\ BlockedInv'
    BY <2>0, SleepersKept, BlockedKept DEF InState
  <2>2. /\ Len(notify[l]) \in Nat /\ Len(notify'[l]) = Len(notify[l]) + 1
        /\ notify'[l][Len(notify[l]) + 1] = t
        /\ \A i \in 1 .. Len(notify[l]) : notify'[l][i] = notify[l][i]
        /\ \A m \in Lock : m # l => notify'[m] = notify[m]
    BY <2>0
  <2>3. ASSUME NEW m \in Lock, NEW i \in 1 .. Len(notify'[m])
        PROVE  \/ i \in 1 .. Len(notify[m]) /\ notify'[m][i] = notify[m][i]
               \/ m = l /\ i = Len(notify[l]) + 1 /\ notify'[m][i] = t
    BY <2>2
  <2>4. \A m \in Lock : \A i \in 1 .. Len(notify[m]) : notify[m][i] \in Task /\ notify[m][i] # t
    BY <2>0 DEF LineInv
  <2>5. \A m \in Lock : \A i \in 1 .. Len(notify'[m]) : state'[notify'[m][i]] = "LOCKWAIT"
    BY <2>0, <2>3, <2>4 DEF LineInv
  <2>6. \A m, n \in Lock : \A i \in 1 .. Len(notify'[m]), j \in 1 .. Len(notify'[n]) :
          notify'[m][i] = notify'[n][j] => m = n /\ i = j
    BY <2>3, <2>4 DEF LineInv
  <2>7. ASSUME NEW u \in Task, state'[u] = "LOCKWAIT" PROVE InAnyLine(u)'
    <3>1. CASE u = t
      <4>1. Len(notify[l]) + 1 \in 1 .. Len(notify'[l])
        BY <2>2
      <4> QED BY <2>2, <3>1, <4>1 DEF InAnyLine
    <3>2. CASE u # t
      <4>1. PICK m \in Lock : \E i \in 1 .. Len(notify[m]) : notify[m][i] = u
        BY <2>0, <2>7, <3>2 DEF LineInv, InState, InAnyLine
      <4>2. PICK i \in 1 .. Len(notify[m]) : notify[m][i] = u
        BY <4>1
      <4>3. i \in 1 .. Len(notify'[m]) /\ notify'[m][i] = u
        BY <2>2, <4>2
      <4> QED BY <4>3 DEF InAnyLine
    <3> QED BY <3>1, <3>2
  <2>8. LineInv'
    BY <2>5, <2>6, <2>7 DEF LineInv, InState
  <2> QED BY <2>1, <2>8
<1>3. CASE Unlock(t, l)
  BY <1>3, PassOnPark DEF Unlock
<1>4. CASE UnlockError(t, l)
  <2>1. NextIsParked(l)
    <3>1. Len(notify[l]) > 0 => Head(notify[l]) = notify[l][1] /\ 1 \in 1 .. Len(notify[l])
      BY DEF TypeOK, LockTypeOK
    <3> QED BY <3>1 DEF NextIsParked, ParkInv, LineInv, TypeOK, LockTypeOK
  <2> QED BY <1>4, <2>1, QuietPark DEF UnlockError, lockVars
<1> QED BY <1>1, <1>2, <1>3, <1>4

(* putfifo() or closefifo() restarts the reader of f, the one task that was
   blocked on it.                                                           *)
LEMMA UnblockPark ==
  ASSUME TypeOK, TypeOK', KernelInv, ParkInv, NEW f \in open, reader[f] # None, Unblock(f),
         pc = "run", pc' = "run", open' \in {open, open \ {f}},
         \A g \in open : g # f => size'[g] = size[g],
         UNCHANGED <<wakes, lockVars, onexit, ontaskerror>>
  PROVE  ParkInv'
<1> USE DEF Unblock, ParkInv, lockVars
<1>0. f \in Fifo /\ reader[f] \in Task /\ state[reader[f]] = "BLOCKED" /\ fifo[reader[f]] = f
  BY DEF KernelInv, ReaderInv, TypeOK, FifoTypeOK
<1>1. /\ state'[reader[f]] = "RUNNING" /\ \A u : ~Dying(u)
      /\ \A u \in Task : u # reader[f] => state'[u] = state[u] /\ fifo'[u] = fifo[u]
  BY <1>0 DEF Dying, TypeOK, ParkTypeOK, FifoTypeOK
<1>2. reader'[f] = None /\ \A g \in open : g # f => reader'[g] = reader[g]
  BY <1>0 DEF TypeOK, FifoTypeOK
<1>3. SleepersInv' /\ LineInv'
  BY <1>0, <1>1, SleepersKept, LinesKept DEF InState
<1>4. ASSUME NEW u \in Task, state'[u] = "BLOCKED"
      PROVE  fifo'[u] \in open' /\ reader'[fifo'[u]] = u
  <2>1. u # reader[f] /\ fifo[u] \in open /\ reader[fifo[u]] = u
    BY <1>1, <1>4 DEF BlockedInv, InState
  <2> QED BY <1>1, <1>2, <2>1
<1>5. \A g \in open' : reader'[g] # None => size'[g] = 0
  BY <1>2 DEF BlockedInv
<1>6. BlockedInv'
  BY <1>4, <1>5 DEF BlockedInv, InState
<1> QED BY <1>3, <1>6

LEMMA FifoStepPark ==
  TypeOK /\ TypeOK' /\ KernelInv /\ ParkInv /\ FifoStep => ParkInv'
<1> SUFFICES ASSUME TypeOK, TypeOK', KernelInv, ParkInv, NEW t \in Task, NEW f \in Fifo,
                    \/ Open(t, f) \/ GetData(t, f) \/ GetBlocks(t, f) \/ GetError(t, f)
                    \/ PutStays(t, f) \/ PutUnblocks(t, f) \/ Flush(t, f) \/ Close(t, f)
             PROVE  ParkInv'
  BY DEF FifoStep
<1> USE DEF Calls, Runnable, fifoRest, structVars, killVars
<1>1. CASE GetError(t, f)
  BY <1>1, QuietPark DEF GetError, lockVars
<1>2. CASE Open(t, f) \/ GetData(t, f) \/ PutStays(t, f) \/ Flush(t, f)
  <2>1. /\ \A u : ~Dying(u)
        /\ UNCHANGED <<state, wakes, lockVars, onexit, ontaskerror, fifo>>
        /\ open \subseteq open' /\ open' \subseteq open \cup {f}
    BY <1>2 DEF Open, GetData, PutStays, Flush, Dying
  <2>2. SleepersInv' /\ LineInv'
    BY <2>1, SleepersKept, LinesKept DEF ParkInv, InState, lockVars
  <2>3. f \in open => (reader[f] # None => size[f] = 0)
    BY DEF ParkInv, BlockedInv
  <2>4. \A g \in open : reader'[g] = reader[g]
    BY <1>2, <2>3 DEF Open, GetData, PutStays, Flush, TypeOK, FifoTypeOK
  <2>5. \A g \in open' : reader'[g] # None => size'[g] = 0
    BY <1>2, <2>1 DEF Open, GetData, PutStays, Flush, ParkInv, BlockedInv, TypeOK, FifoTypeOK
  <2>6. BlockedInv'
    BY <2>1, <2>4, <2>5 DEF ParkInv, BlockedInv, InState
  <2> QED BY <2>2, <2>6 DEF ParkInv
<1>3. CASE GetBlocks(t, f)
  <2> USE <1>3 DEF GetBlocks, ParkInv, lockVars
  <2>1. /\ state[t] = "RUNNING" /\ state'[t] = "BLOCKED" /\ \A u : ~Dying(u)
        /\ \A u \in Task : u # t => state'[u] = state[u] /\ fifo'[u] = fifo[u]
        /\ fifo'[t] = f /\ reader'[f] = t /\ \A g \in Fifo : g # f => reader'[g] = reader[g]
    BY DEF Dying, TypeOK, ParkTypeOK, FifoTypeOK
  <2>2. SleepersInv' /\ LineInv'
    BY <2>1, SleepersKept, LinesKept DEF InState
  <2>3. ASSUME NEW u \in Task, state'[u] = "BLOCKED", u # t
        PROVE  fifo'[u] \in open /\ reader'[fifo'[u]] = u
    <3>1. fifo[u] \in open /\ reader[fifo[u]] = u
      BY <2>1, <2>3 DEF BlockedInv, InState
    <3>2. fifo[u] # f
      BY <3>1, TaskAssumption
    <3> QED BY <2>1, <3>1, <3>2 DEF TypeOK, FifoTypeOK
  <2>4. BlockedInv'
    BY <2>1, <2>3 DEF BlockedInv, InState, TypeOK, FifoTypeOK
  <2> QED BY <2>2, <2>4
<1>4. CASE PutUnblocks(t, f)
  BY <1>4, UnblockPark DEF PutUnblocks, lockVars
<1>5. CASE Close(t, f)
  <2>1. CASE reader[f] = None
    <3> USE <1>5, <2>1 DEF Close, ParkInv, lockVars
    <3>1. \A u : ~Dying(u)
      BY DEF Dying
    <3>2. SleepersInv' /\ LineInv'
      BY <3>1, SleepersKept, LinesKept DEF InState
    <3>3. \A u \in InState("BLOCKED") : fifo[u] # f
      BY <3>1, TaskAssumption DEF BlockedInv, InState
    <3>4. BlockedInv'
      BY <3>1, <3>3 DEF BlockedInv, InState, TypeOK, FifoTypeOK
    <3> QED BY <3>2, <3>4
  <2>2. CASE reader[f] # None
    <3>1. \A g \in open : g # f => size'[g] = size[g]
      BY <1>5 DEF Close, TypeOK, FifoTypeOK
    <3> QED BY <1>5, <2>2, <3>1, UnblockPark DEF Close, lockVars
  <2> QED BY <2>1, <2>2
<1> QED BY <1>1, <1>2, <1>3, <1>4, <1>5

LEMMA PriorityStepPark ==
  TypeOK /\ TypeOK' /\ KernelInv /\ ParkInv /\ PriorityStep => ParkInv'
BY QuietPark DEF PriorityStep, SetPriority, SetLimit, SetLimitError, Calls, Runnable,
                 scanRest, structVars, killVars, lockVars

LEMMA LoopStepPark ==
  TypeOK /\ TypeOK' /\ KernelInv /\ ParkInv /\ LoopStep => ParkInv'
<1> SUFFICES ASSUME TypeOK, TypeOK', KernelInv, ParkInv, NEW t \in Task,
                    Wake(t) \/ PhraseDone(t) \/ Interrupt(t) \/ NextProgram(t)
             PROVE  ParkInv'
  BY DEF LoopStep
<1> USE DEF structVars, killVars
<1>1. CASE Interrupt(t) \/ NextProgram(t)
  BY <1>1, NewTaskPark DEF Interrupt, NextProgram, NewRoot
<1>2. CASE Wake(t)
  <2> USE <1>2 DEF Wake, ParkInv, lockVars
  <2>1. state[t] = "SLEEPTILL" /\ \A u : ~Dying(u)
    BY DEF KernelInv, SleepInv, InState, Dying
  <2>2. state'[t] = "RUNNING" /\ \A u \in Task : u # t => state'[u] = state[u]
    BY DEF TypeOK, ParkTypeOK
  <2>3. SleepersInv'
    BY <2>1, <2>2 DEF SleepersInv, InState
  <2>4. BlockedInv' /\ LineInv'
    BY <2>1, <2>2, BlockedKept, LinesKept DEF InState
  <2> QED BY <2>3, <2>4
<1>3. CASE PhraseDone(t)
  <2> USE <1>3 DEF PhraseDone, ParkInv, lockVars
  <2>1. /\ state[t] = "SCHED" /\ state'[t] = "FREE" /\ \A u : ~Dying(u)
        /\ \A u \in Task : u # t => state'[u] = state[u] \/ (state[u] = "WAITING" /\ state'[u] = "RUNNING")
    BY DEF Restarted, Waiters, Dying, TypeOK, ParkTypeOK
  <2> QED BY <2>1, SleepersKept, BlockedKept, LinesKept DEF InState
<1> QED BY <1>1, <1>2, <1>3

LEMMA InitPark == Init => ParkInv
<1> SUFFICES ASSUME NEW t \in Task,
                    state = [u \in Task |-> IF u = t THEN "RUNNING" ELSE "FREE"],
                    open = {}, notify = [l \in Lock |-> <<>>],
                    onexit = [u \in Task |-> FALSE], ontaskerror = [u \in Task |-> FALSE]
             PROVE  ParkInv
  BY DEF Init
<1> QED BY DEF ParkInv, LineInv, SleepersInv, BlockedInv, InState

LEMMA StepPark ==
  TypeOK /\ TypeOK' /\ KernelInv /\ LocksUnhandled /\ ParkInv /\ [Next]_vars => ParkInv'
<1> SUFFICES ASSUME TypeOK, TypeOK', KernelInv, LocksUnhandled, ParkInv, [Next]_vars
             PROVE  ParkInv'
  OBVIOUS
<1>1. CASE UNCHANGED vars
  <2> USE <1>1 DEF vars, structVars, lockVars, killVars, ParkInv
  <2>1. \A u : Dying(u)' <=> Dying(u)
    BY DEF Dying
  <2> QED BY <2>1, SleepersKept, BlockedKept, LinesKept DEF InState
<1> QED BY <1>1, BuryStepPark, TaskStepPark, LockStepPark, FifoStepPark, PriorityStepPark,
           LoopStepPark DEF Next

-----------------------------------------------------------------------------
(* ParkInv holds in every state of every run of such a program. *)
THEOREM ParkedFound == LocksUnhandled => (Spec => []ParkInv)
<1>1. TypeOK /\ TypeOK' /\ KernelInv /\ LocksUnhandled /\ ParkInv /\ [Next]_vars => ParkInv'
  BY StepPark
<1>2. ASSUME LocksUnhandled PROVE Spec => []ParkInv
  <2>1. TypeOK /\ TypeOK' /\ KernelInv /\ ParkInv /\ [Next]_vars => ParkInv'
    BY <1>1, <1>2
  <2> QED BY <2>1, InitPark, TypeCorrect, KernelCorrect, PTL DEF Spec
<1> QED BY <1>2

(* In such a program no task sleeps without an entry in the schedule, and there
   is none of a task that does not sleep.                                       *)
THEOREM SleepersFound == LocksUnhandled => (Spec => []SleepersScheduled)
<1>1. KernelInv /\ ParkInv => SleepersScheduled
  BY DEF KernelInv, ParkInv, SleepInv, SleepersInv, SleepersScheduled, Dying
<1>2. ASSUME LocksUnhandled PROVE Spec => []SleepersScheduled
  <2>1. Spec => []ParkInv
    BY <1>2, ParkedFound
  <2> QED BY <1>1, <2>1, KernelCorrect, PTL
<1> QED BY <1>2

(* In such a program an open fifo and the task blocked on it name each other. *)
THEOREM ReadersFound == LocksUnhandled => (Spec => []ReadersMatch)
<1>1. KernelInv /\ ParkInv => ReadersMatch
  BY DEF KernelInv, ParkInv, ReaderInv, BlockedInv, ReadersMatch, Dying
<1>2. ASSUME LocksUnhandled PROVE Spec => []ReadersMatch
  <2>1. Spec => []ParkInv
    BY <1>2, ParkedFound
  <2> QED BY <1>1, <2>1, KernelCorrect, PTL
<1> QED BY <1>2

(* In such a program the tasks in the lines of locks are those parked in
   "lockwait", each in one place.                                         *)
THEOREM LinesSafe == LocksUnhandled => (Spec => []LockWaitersParked)
<1>1. ParkInv => LockWaitersParked
  BY DEF ParkInv, LineInv, LockWaitersParked
<1>2. ASSUME LocksUnhandled PROVE Spec => []LockWaitersParked
  <2>1. Spec => []ParkInv
    BY <1>2, ParkedFound
  <2> QED BY <1>1, <2>1, PTL
<1> QED BY <1>2

(* In such a program no task waits for a lock that nobody can give it. *)
THEOREM LockWaitersFound == LocksUnhandled => (Spec => []NoLostLockWaiter)
<1>1. KernelInv /\ ParkInv /\ TypeOK => NoLostLockWaiter
  <2> SUFFICES ASSUME KernelInv, ParkInv, TypeOK, pc = "run", NEW t \in InState("LOCKWAIT")
               PROVE  \E l \in Lock :
                        owner[l] # None /\ \E i \in 1 .. Len(notify[l]) : notify[l][i] = t
    BY DEF NoLostLockWaiter
  <2>1. PICK l \in Lock : \E i \in 1 .. Len(notify[l]) : notify[l][i] = t
    BY DEF ParkInv, LineInv, InAnyLine, Dying
  <2>2. notify[l] # <<>>
    BY <2>1
  <2> QED BY <2>1, <2>2 DEF KernelInv, LockInv
<1>2. ASSUME LocksUnhandled PROVE Spec => []NoLostLockWaiter
  <2>1. Spec => []ParkInv
    BY <1>2, ParkedFound
  <2> QED BY <1>1, <2>1, KernelCorrect, TypeCorrect, PTL
<1> QED BY <1>2

-----------------------------------------------------------------------------
(* The refinement.  In states of ParkInv the clients that LockService calls
   parked are those that stand in a line, so a step that leaves owner and notify
   alone is a stutter.                                                          *)

LEMMA ParkedInLine ==
  /\ TypeOK /\ ParkInv => ParkedClients = {t \in Task : InAnyLine(t)}
  /\ TypeOK' /\ ParkInv' => ParkedClients' = {t \in Task : InAnyLine(t)'}
<1>1. TypeOK /\ ParkInv => ParkedClients = {t \in Task : InAnyLine(t)}
  <2> SUFFICES ASSUME TypeOK, ParkInv PROVE ParkedClients = {t \in Task : InAnyLine(t)}
    OBVIOUS
  <2>1. \A t \in Task : InAnyLine(t) => state[t] = "LOCKWAIT"
    BY DEF ParkInv, LineInv, InAnyLine
  <2> QED BY <2>1 DEF ParkedClients, ParkInv, LineInv, InState
<1>2. (TypeOK /\ ParkInv => ParkedClients = {t \in Task : InAnyLine(t)})'
  BY <1>1, PTL
<1> QED BY <1>1, <1>2

LEMMA Stutters ==
  ASSUME TypeOK, TypeOK', ParkInv, ParkInv', UNCHANGED lockVars
  PROVE  UNCHANGED LS!lockVars
<1>1. ParkedClients = {t \in Task : InAnyLine(t)} /\ ParkedClients' = {t \in Task : InAnyLine(t)'}
  BY ParkedInLine
<1> QED BY <1>1 DEF LS!lockVars, lockVars, InAnyLine

(* unlocklk(l) *)
LEMMA PassesOn ==
  ASSUME TypeOK, TypeOK', ParkInv, ParkInv', NEW l \in Lock, owner[l] # None, PassOn(l)
  PROVE  LS!HandOver(l) \/ LS!GiveUp(l)
<1>0. /\ notify[l] \in Seq(Task) /\ notify \in [Lock -> Seq(Task)]
      /\ owner \in [Lock -> Task \cup {None}]
  BY DEF TypeOK, LockTypeOK
<1>1. ParkedClients = {t \in Task : InAnyLine(t)} /\ ParkedClients' = {t \in Task : InAnyLine(t)'}
  BY ParkedInLine
<1>2. CASE notify[l] = <<>>
  <2>1. notify' = notify /\ owner' = [owner EXCEPT ![l] = None]
    BY <1>0, <1>2 DEF PassOn
  <2>2. ParkedClients' = ParkedClients
    BY <1>1, <2>1 DEF InAnyLine
  <2> QED BY <1>2, <2>1, <2>2 DEF LS!GiveUp
<1>3. CASE notify[l] # <<>>
  <2>1. /\ owner' = [owner EXCEPT ![l] = Head(notify[l])]
        /\ notify' = [notify EXCEPT ![l] = Tail(@)]
    BY <1>0, <1>3 DEF PassOn
  <2>2. /\ Head(notify[l]) = notify[l][1] /\ 1 \in 1 .. Len(notify[l]) /\ Len(notify[l]) \in Nat
        /\ notify'[l] = Tail(notify[l]) /\ Len(notify'[l]) = Len(notify[l]) - 1
        /\ \A i \in 1 .. Len(notify[l]) - 1 : notify'[l][i] = notify[l][i + 1]
        /\ \A m \in Lock : m # l => notify'[m] = notify[m]
    BY <1>0, <1>3, <2>1
  <2>3. PICK w \in Task : w = notify[l][1] /\ InAnyLine(w)
    BY <1>0, <2>2 DEF InAnyLine
  <2>4. \A m \in Lock : \A i \in 1 .. Len(notify'[m]) : notify'[m][i] # w
    <3> SUFFICES ASSUME NEW m \in Lock, NEW i \in 1 .. Len(notify'[m])
                 PROVE  notify'[m][i] # w
      OBVIOUS
    <3>1. CASE m = l
      <4>1. i \in 1 .. Len(notify[l]) - 1
        BY <2>2, <3>1
      <4>2. i + 1 \in 1 .. Len(notify[l]) /\ notify'[l][i] = notify[l][i + 1] /\ i + 1 # 1
        BY <2>2, <4>1
      <4>3. notify[l][i + 1] # notify[l][1]
        BY <2>2, <4>2 DEF ParkInv, LineInv
      <4> QED BY <2>3, <3>1, <4>2, <4>3
    <3>2. CASE m # l
      <4>1. notify'[m] = notify[m]
        BY <2>2, <3>2
      <4> QED BY <2>2, <2>3, <3>2, <4>1 DEF ParkInv, LineInv
    <3> QED BY <3>1, <3>2
  <2>5. ~InAnyLine(w)'
    BY <2>4 DEF InAnyLine
  <2>6. ASSUME NEW u \in Task, u # w, InAnyLine(u) PROVE InAnyLine(u)'
    <3>1. PICK m \in Lock : \E i \in 1 .. Len(notify[m]) : notify[m][i] = u
      BY <2>6 DEF InAnyLine
    <3>2. PICK i \in 1 .. Len(notify[m]) : notify[m][i] = u
      BY <3>1
    <3>3. CASE m = l
      <4>1. i - 1 \in 1 .. Len(notify'[l]) /\ notify'[l][i - 1] = u
        BY <2>2, <2>3, <2>6, <3>2, <3>3
      <4> QED BY <4>1 DEF InAnyLine
    <3>4. CASE m # l
      BY <2>2, <3>2, <3>4 DEF InAnyLine
    <3> QED BY <3>3, <3>4
  <2>7. ASSUME NEW u \in Task, InAnyLine(u)' PROVE InAnyLine(u)
    <3>1. PICK m \in Lock : \E i \in 1 .. Len(notify'[m]) : notify'[m][i] = u
      BY <2>7 DEF InAnyLine
    <3>2. PICK i \in 1 .. Len(notify'[m]) : notify'[m][i] = u
      BY <3>1
    <3>3. CASE m = l
      <4>1. i \in 1 .. Len(notify[l]) - 1 /\ notify'[l][i] = u
        BY <2>2, <3>2, <3>3
      <4>2. i + 1 \in 1 .. Len(notify[l]) /\ notify[l][i + 1] = u
        BY <2>2, <4>1
      <4> QED BY <4>2 DEF InAnyLine
    <3>4. CASE m # l
      BY <2>2, <3>2, <3>4 DEF InAnyLine
    <3> QED BY <3>3, <3>4
  <2>8. ParkedClients' = ParkedClients \ {Head(notify[l])} /\ Head(notify[l]) \in ParkedClients
    BY <1>1, <2>2, <2>3, <2>5, <2>6, <2>7
  <2> QED BY <1>3, <2>1, <2>8 DEF LS!HandOver
<1> QED BY <1>2, <1>3

(* unlocktid(x): x's node leaves the line; it is the only one x had. *)
LEMMA Leaves ==
  ASSUME TypeOK, TypeOK', ParkInv, ParkInv', NEW l \in Lock, NEW i \in 1 .. Len(notify[l]),
         ScanDequeue(l, i)
  PROVE  LS!Leave(l, i)
<1> USE DEF ScanDequeue
<1>0. /\ notify[l] \in Seq(Task) /\ notify \in [Lock -> Seq(Task)] /\ Len(notify[l]) \in Nat
  BY DEF TypeOK, LockTypeOK
<1>1. /\ ParkedClients = {t \in Task : InAnyLine(t)}
      /\ ParkedClients' = {t \in Task : InAnyLine(t)'}
  BY ParkedInLine
<1>2. /\ Len(notify'[l]) = Len(notify[l]) - 1
      /\ \A j \in 1 .. Len(notify[l]) - 1 :
           notify'[l][j] = IF j < i THEN notify[l][j] ELSE notify[l][j + 1]
      /\ \A m \in Lock : m # l => notify'[m] = notify[m]
  BY <1>0, DroppedNode
<1>3. PICK x \in Task : x = notify[l][i] /\ InAnyLine(x)
  BY <1>0 DEF InAnyLine
<1>4. ASSUME NEW u \in Task, InAnyLine(u)' PROVE InAnyLine(u) /\ u # x
  <2>1. PICK m \in Lock : \E j \in 1 .. Len(notify'[m]) : notify'[m][j] = u
    BY <1>4 DEF InAnyLine
  <2>2. PICK j \in 1 .. Len(notify'[m]) : notify'[m][j] = u
    BY <2>1
  <2>3. CASE m = l
    <3>1. j \in 1 .. Len(notify[l]) - 1 /\ notify'[l][j] = u
      BY <1>2, <2>2, <2>3
    <3>2. PICK k \in 1 .. Len(notify[l]) : k # i /\ notify[l][k] = u
      <4>1. CASE j < i
        BY <1>0, <1>2, <3>1, <4>1
      <4>2. CASE j >= i
        <5>1. j + 1 \in 1 .. Len(notify[l]) /\ j + 1 # i /\ notify[l][j + 1] = u
          BY <1>0, <1>2, <3>1, <4>2
        <5> QED BY <5>1
      <4> QED BY <3>1, <4>1, <4>2
    <3>3. notify[l][k] # notify[l][i]
      BY <3>2 DEF ParkInv, LineInv
    <3> QED BY <1>3, <3>2, <3>3 DEF InAnyLine
  <2>4. CASE m # l
    <3>1. j \in 1 .. Len(notify[m]) /\ notify[m][j] = u
      BY <1>2, <2>2, <2>4
    <3>2. notify[m][j] # notify[l][i]
      BY <2>4, <3>1 DEF ParkInv, LineInv
    <3> QED BY <1>3, <3>1, <3>2 DEF InAnyLine
  <2> QED BY <2>3, <2>4
<1>5. ASSUME NEW u \in Task, InAnyLine(u), u # x PROVE InAnyLine(u)'
  <2>1. PICK m \in Lock : \E j \in 1 .. Len(notify[m]) : notify[m][j] = u
    BY <1>5 DEF InAnyLine
  <2>2. PICK j \in 1 .. Len(notify[m]) : notify[m][j] = u
    BY <2>1
  <2>3. CASE m = l
    <3>1. j \in 1 .. Len(notify[l]) /\ j # i /\ notify[l][j] = u
      BY <1>3, <1>5, <2>2, <2>3
    <3>2. CASE j < i
      <4>1. j \in 1 .. Len(notify'[l]) /\ notify'[l][j] = u
        BY <1>0, <1>2, <3>1, <3>2
      <4> QED BY <4>1 DEF InAnyLine
    <3>3. CASE j > i
      <4>1. j - 1 \in 1 .. Len(notify'[l]) /\ notify'[l][j - 1] = u
        BY <1>0, <1>2, <3>1, <3>3
      <4> QED BY <4>1 DEF InAnyLine
    <3> QED BY <1>0, <3>1, <3>2, <3>3
  <2>4. CASE m # l
    BY <1>2, <2>2, <2>4 DEF InAnyLine
  <2> QED BY <2>3, <2>4
<1>6. ParkedClients' = ParkedClients \ {notify[l][i]} /\ notify[l][i] \in ParkedClients
  BY <1>1, <1>3, <1>4, <1>5
<1> QED BY <1>6 DEF LS!Leave

(* lock(l) by t when somebody has l: one more client in line. *)
LEMMA StandsInLine ==
  ASSUME TypeOK, TypeOK', ParkInv, ParkInv', NEW t \in Task, NEW l \in Lock, LockWait(t, l)
  PROVE  LS!StandInLine(t, l)
<1> USE DEF LockWait, Calls, Runnable
<1>0. /\ notify[l] \in Seq(Task) /\ notify \in [Lock -> Seq(Task)] /\ Len(notify[l]) \in Nat
  BY DEF TypeOK, LockTypeOK
<1>1. /\ ParkedClients = {u \in Task : InAnyLine(u)}
      /\ ParkedClients' = {u \in Task : InAnyLine(u)'}
  BY ParkedInLine
<1>2. /\ Len(notify'[l]) = Len(notify[l]) + 1 /\ notify'[l][Len(notify[l]) + 1] = t
      /\ \A i \in 1 .. Len(notify[l]) : notify'[l][i] = notify[l][i]
      /\ \A m \in Lock : m # l => notify'[m] = notify[m]
  BY <1>0
<1>3. t \notin ParkedClients
  BY DEF ParkedClients, InState
<1>4. InAnyLine(t)'
  <2>1. Len(notify[l]) + 1 \in 1 .. Len(notify'[l])
    BY <1>0, <1>2
  <2> QED BY <1>2, <2>1 DEF InAnyLine
<1>5. ASSUME NEW u \in Task, InAnyLine(u)', u # t PROVE InAnyLine(u)
  <2>1. PICK m \in Lock : \E j \in 1 .. Len(notify'[m]) : notify'[m][j] = u
    BY <1>5 DEF InAnyLine
  <2>2. PICK j \in 1 .. Len(notify'[m]) : notify'[m][j] = u
    BY <2>1
  <2>3. j \in 1 .. Len(notify[m]) /\ notify[m][j] = u
    BY <1>0, <1>2, <1>5, <2>2
  <2> QED BY <2>3 DEF InAnyLine
<1>6. ASSUME NEW u \in Task, InAnyLine(u) PROVE InAnyLine(u)'
  <2>1. PICK m \in Lock : \E j \in 1 .. Len(notify[m]) : notify[m][j] = u
    BY <1>6 DEF InAnyLine
  <2>2. PICK j \in 1 .. Len(notify[m]) : notify[m][j] = u
    BY <2>1
  <2>3. j \in 1 .. Len(notify'[m]) /\ notify'[m][j] = u
    BY <1>0, <1>2, <2>2
  <2> QED BY <2>3 DEF InAnyLine
<1>7. ParkedClients' = ParkedClients \cup {t}
  BY <1>1, <1>4, <1>5, <1>6
<1> QED BY <1>3, <1>7 DEF LS!StandInLine

(* Every step of the kernel is one of LockService, or a stutter. *)
LEMMA LockServiceStep ==
  /\ TypeOK /\ KernelInv /\ ParkInv /\ TypeOK' /\ KernelInv' /\ ParkInv' /\ [Next]_vars
  => [LS!Next]_LS!lockVars
<1> SUFFICES ASSUME TypeOK, KernelInv, ParkInv, TypeOK', KernelInv', ParkInv', [Next]_vars
             PROVE  LS!Next \/ UNCHANGED LS!lockVars
  OBVIOUS
<1> USE DEF scanRest, killVars
<1>0. \A l \in Lock : NextIsParked(l)
  <2> SUFFICES ASSUME NEW l \in Lock, notify[l] # <<>>
               PROVE  state[Head(notify[l])] = "LOCKWAIT"
    BY DEF NextIsParked
  <2>1. Head(notify[l]) = notify[l][1] /\ 1 \in 1 .. Len(notify[l])
    BY DEF TypeOK, LockTypeOK
  <2> QED BY <2>1 DEF ParkInv, LineInv
<1>1. ASSUME NEW l \in Lock, ScanUnlock(l) PROVE LS!Next
  <2>1. owner[l] # None
    BY <1>1, TaskAssumption DEF ScanUnlock, Scanned, TypeOK, KillTypeOK
  <2> QED BY <1>1, <2>1, PassesOn DEF ScanUnlock, LS!Next
<1>2. ASSUME NEW l \in Lock, NEW i \in 1 .. Len(notify[l]), ScanDequeue(l, i) PROVE LS!Next
  BY <1>2, Leaves DEF LS!Next
<1>3. ASSUME NEW t \in Task, NEW l \in Lock, LockFree(t, l) PROVE LS!Next
  <2> USE <1>3 DEF LockFree, Calls, Runnable
  <2>1. notify[l] = <<>> /\ notify' = notify
    BY DEF KernelInv, LockInv, TypeOK, LockTypeOK
  <2>2. ParkedClients' = ParkedClients
    BY <2>1, ParkedInLine, ZenonT(30) DEF InAnyLine
  <2>3. t \notin ParkedClients
    BY DEF ParkedClients, InState
  <2>4. LS!Acquire(t, l)
    BY <2>1, <2>2, <2>3 DEF LS!Acquire
  <2> QED BY <2>4 DEF LS!Next
<1>4. ASSUME NEW t \in Task, NEW l \in Lock, LockWait(t, l) PROVE LS!Next
  BY <1>4, StandsInLine DEF LS!Next
<1>5. ASSUME NEW t \in Task, NEW l \in Lock, Unlock(t, l) PROVE LS!Next
  BY <1>5, PassesOn DEF Unlock, LS!Next
<1>6. ASSUME NEW t \in Task, NEW u \in Task, Reboot(t, u) PROVE LS!Next
  <2>1. \A l \in Lock : Len(notify'[l]) = 0
    BY <1>6 DEF Reboot
  <2>2. ParkedClients' = {}
    BY <2>1, ParkedInLine DEF InAnyLine
  <2>3. LS!Reset
    BY <1>6, <2>2 DEF Reboot, LS!Reset
  <2> QED BY <2>3 DEF LS!Next
<1>7. CASE UNCHANGED lockVars
  BY <1>7, Stutters
<1>8. BuryStep => LS!Next \/ UNCHANGED lockVars
  BY <1>0, <1>1, <1>2
     DEF BuryStep, Spare, DeleteTask, KillDone, BuryOnError, BuryOnExit, BuryForGood,
         StartErrorfunc, ScanOther, ScanError
<1>9. TaskStep => LS!Next \/ UNCHANGED lockVars
  BY <1>6 DEF TaskStep, Stop, Error, OnExit, OnError, SleepTill, Spawn, Realtime, Kill, Wait
<1>10. LockStep => LS!Next \/ UNCHANGED lockVars
  BY <1>0, <1>3, <1>4, <1>5 DEF LockStep, UnlockError
<1>11. FifoStep => UNCHANGED lockVars
  BY DEF FifoStep, fifoRest, Open, GetData, GetBlocks, GetError, PutStays, PutUnblocks, Flush,
         Close
<1>12. PriorityStep \/ LoopStep => UNCHANGED lockVars
  BY DEF PriorityStep, LoopStep, SetPriority, SetLimit, SetLimitError, Wake, PhraseDone,
         Interrupt, NextProgram
<1>13. UNCHANGED vars => UNCHANGED lockVars
  BY DEF vars
<1> QED BY <1>7, <1>8, <1>9, <1>10, <1>11, <1>12, <1>13 DEF Next

(* In such a program lock(), unlock(), kill(), reboot() and the end of tasks do
   what LockService says: a lock goes to the first in line, in one step, a
   client in line is parked, and nobody is let go without the lock.            *)
THEOREM LocksImplementService == LocksUnhandled => (Spec => ImplementsLockService)
<1>1. Init => LS!Init
  BY DEF Init, LS!Init, ParkedClients, InState
<1>2. ASSUME LocksUnhandled PROVE Spec => ImplementsLockService
  <2>1. Spec => []ParkInv
    BY <1>2, ParkedFound
  <2> QED
    BY <1>1, <2>1, LockServiceStep, TypeCorrect, KernelCorrect, PTL
       DEF Spec, ImplementsLockService, LS!Spec
<1> QED BY <1>2
=============================================================================

------------------------------- MODULE Tasks -------------------------------
(***************************************************************************)
(* The task kernel of KeyKit: the life of a Ktask from newtask() to        *)
(* deletetask(), and every way it can stop running in between - wait(),    *)
(* sleeptill(), get() on an empty fifo, lock() - or be stopped for good -  *)
(* the end of its code, kill(), a run-time error, a reboot.                *)
(*                                                                         *)
(* The interpreter is one C thread.  exectasks() gives every task of the   *)
(* Running list whose priority is high enough one byte code per pass; the  *)
(* order of the list is left out here (any such task may be next).  A byte *)
(* code is one action, except taskkill(): its loop over the tasks to bury, *)
(* and unlocktid()'s loop over the locks, are unfolded into one action per *)
(* iteration, and pc keeps everything else out until the loop is over.     *)
(***************************************************************************)
EXTENDS Integers, Sequences, FiniteSets

CONSTANTS
  Task,         (* the Ktask structs that newtp() can hand out              *)
  None,         (* the NULL pointer                                         *)
  Lock,         (* the names given to lock() and unlock()                   *)
  Fifo,         (* the structs behind the fifos that open() allocates       *)
  Priority,     (* the values a program passes to priority()                *)
  DefPriority,  (* DEFPRIORITY, also the initial value of Defpriority       *)
  HashSize,     (* the number of buckets of Tasktable                       *)
  MaxSize,      (* bound: data items in one fifo                            *)
  MaxCount,     (* bound: Nblocked, Nwaiting and Nsleeptill                 *)
  MaxNotify,    (* bound: notify nodes of one lock                          *)
  Ops           (* the built-in functions the program calls                 *)

ASSUME TaskAssumption ==
  /\ IsFiniteSet(Task)
  /\ None \notin Task \cup Lock \cup Fifo
  /\ Priority \subseteq Nat /\ DefPriority \in Nat
  /\ HashSize \in Nat \ {0}
  /\ MaxSize \in Nat /\ MaxCount \in Nat /\ MaxNotify \in Nat

VARIABLES
  (* fields of struct Ktask *)
  state, slot, parent, anychild, twait, anywait, priority, fifo,
  onexit, ontaskerror,
  (* the SCH_WAKE entries of Topsched, by task *)
  wakes,
  (* the Toplk list: the owner of each lock and its chain of notify nodes *)
  owner, notify,
  (* fields of struct Fifo: is it in Fifotable, size, and t (the blocked task) *)
  open, size, reader,
  (* globals *)
  Tid, Nblocked, Nwaiting, Nsleeptill, Currpriority,
  (* where the C code is: pc = "run" between byte codes, "bury" in the loop of
     taskkill() over todo, "scan" in the loop of unlocktid() over scan;
     killer is T in those loops, and Inerror counts nested execerror() calls *)
  pc, todo, scan, killer, Inerror

structVars  == <<slot, parent, anychild, anywait, priority, onexit, ontaskerror>>
lockVars    == <<owner, notify>>
fifoVars    == <<open, size, reader, fifo>>
countVars   == <<Nblocked, Nwaiting, Nsleeptill>>
killVars    == <<pc, todo, scan, killer, Inerror>>
vars == <<state, twait, wakes, Tid, Currpriority, structVars, lockVars, fifoVars,
          countVars, killVars>>

States == {"FREE", "RUNNING", "BLOCKED", "SLEEPTILL", "SCHED", "WAITING", "LOCKWAIT"}

-----------------------------------------------------------------------------
(* The state of the program.                                               *)

Live == {t \in Task : state[t] # "FREE"}
InState(s) == {t \in Task : state[t] = s}

(* The tasks exectasks() gives a byte code to. *)
Runnable(t) ==
  pc = "run" /\ state[t] = "RUNNING" /\ priority[t] >= Currpriority

Calls(t, op) == op \in Ops /\ Runnable(t)

(* Mutant of Waiters: nobody is restarted. *)
WaitersForgotten(x) == {}

(* The tasks wakewaiters(x) restarts. *)
Waiters(x) ==
  IF anywait[x] THEN {t \in Task : state[t] = "WAITING" /\ twait[t] = x} ELSE {}

(* The condition under which exectasks() returns to main(). *)
QuitCondition ==
  InState("RUNNING") = {} /\ Nblocked <= 0 /\ Nwaiting <= 0 /\ Nsleeptill <= 0

-----------------------------------------------------------------------------
(* newtp(): a struct from Freetp or from kmalloc().  A task's bucket in      *)
(* Tasktable is its tid modulo the size of the table, and only the bucket is *)
(* kept: Tid runs forever.                                                   *)

NewTask(t, s, p, pri, child) ==
  /\ state[t] = "FREE"
  /\ state' = [state EXCEPT ![t] = s]
  /\ slot' = [slot EXCEPT ![t] = Tid]
  /\ Tid' = (Tid + 1) % HashSize
  /\ parent' = [parent EXCEPT ![t] = p]
  /\ anychild' = [u \in Task |-> u # t /\ (anychild[u] \/ (child /\ u = p))]
  /\ anywait' = [anywait EXCEPT ![t] = FALSE]
  /\ priority' = [priority EXCEPT ![t] = pri]
  /\ onexit' = [onexit EXCEPT ![t] = FALSE]
  /\ ontaskerror' = [ontaskerror EXCEPT ![t] = FALSE]

(* newtask() with T = NULL *)
NewRoot(t) == NewTask(t, "RUNNING", None, DefPriority, FALSE)

Init ==
  \E t \in Task :
    /\ state = [u \in Task |-> IF u = t THEN "RUNNING" ELSE "FREE"]
    /\ slot = [u \in Task |-> 0] /\ Tid = 1 % HashSize
    /\ parent = [u \in Task |-> None] /\ twait = [u \in Task |-> None]
    /\ anychild = [u \in Task |-> FALSE] /\ anywait = [u \in Task |-> FALSE]
    /\ priority = [u \in Task |-> DefPriority]
    /\ onexit = [u \in Task |-> FALSE] /\ ontaskerror = [u \in Task |-> FALSE]
    /\ fifo = [u \in Task |-> None]
    /\ wakes = {}
    /\ owner = [l \in Lock |-> None] /\ notify = [l \in Lock |-> <<>>]
    /\ open = {} /\ size = [f \in Fifo |-> 0] /\ reader = [f \in Fifo |-> None]
    /\ Nblocked = 0 /\ Nwaiting = 0 /\ Nsleeptill = 0
    /\ Currpriority = DefPriority
    /\ pc = "run" /\ todo = <<>> /\ scan = {} /\ killer = None /\ Inerror = 0

-----------------------------------------------------------------------------
(* taskkill() and execerror().                                              *)

(* The lists taskkill(x,1) can build with its one hashvisit() over Tasktable.
   The list grows at its head, so reading it from the tail gives the order in
   which tasks were visited: buckets in ascending order and, within a bucket,
   last looked up first - which any order can be.  A task joins when its parent
   is on the list already; one visited before its parent is passed over.       *)
KillLists(x) ==
  IF ~anychild[x]
  THEN {<<x>>}
  ELSE {s \in UNION {[1 .. n -> Live] : n \in 1 .. Cardinality(Live)} :
         /\ s[Len(s)] = x
         /\ \A i, j \in 1 .. Len(s) : i # j => s[i] # s[j]
         /\ \A i \in 1 .. Len(s) - 1 :
              \E j \in i + 1 .. Len(s) : parent[s[i]] = s[j]
         /\ \A i, j \in 1 .. Len(s) - 1 : i < j => slot[s[i]] >= slot[s[j]]
         /\ \A u \in Live \ {s[i] : i \in 1 .. Len(s)} :
              /\ parent[u] # x
              /\ \A i \in 1 .. Len(s) - 1 :
                   parent[u] = s[i] => slot[u] <= slot[s[i]]}

(* Enter the loop of taskkill(x,1), called by t. *)
StartKill(t, x) ==
  /\ pc' = "bury" /\ killer' = t /\ scan' = {}
  /\ IF state[x] = "FREE" THEN todo' = <<>> ELSE todo' \in KillLists(x)

(* Mutant of RaiseError: nested errors are counted but not limited. *)
RaiseErrorUnlimited(t) == Inerror' = Inerror + 1 /\ StartKill(t, t)

(* execerror() in task t: the task and its children are killed, at most twice
   when burying them raises errors of its own; the third error gives up.      *)
RaiseError(t) ==
  IF Inerror < 2
  THEN Inerror' = Inerror + 1 /\ StartKill(t, t)
  ELSE /\ Inerror' = 0
       /\ pc' = "run" /\ todo' = <<>> /\ scan' = {} /\ killer' = None

(* The task at the head of the list is spared: its priority is higher. *)
Spare ==
  /\ pc = "bury" /\ todo # <<>>
  /\ priority[Head(todo)] > priority[killer]
  /\ todo' = Tail(todo)
  /\ UNCHANGED <<state, twait, wakes, Tid, Currpriority, structVars, lockVars,
                 fifoVars, countVars, pc, scan, killer, Inerror>>

(* Mutants of Detach: the flag anywait, never reset, is counted once more; the
   fifo keeps its pointer; the schedule keeps its entry.                       *)
DetachCountsFlag(x, woken) ==
  /\ Nwaiting' = Nwaiting - Cardinality(woken) - (IF anywait[x] THEN 1 ELSE 0)
  /\ UNCHANGED <<reader, fifo, wakes, Nblocked, Nsleeptill, open, size>>
DetachKeepsReader(x, woken) ==
  /\ Nwaiting' = Nwaiting - Cardinality(woken)
  /\ fifo' = IF state[x] = "BLOCKED" THEN [fifo EXCEPT ![x] = None] ELSE fifo
  /\ wakes' = IF state[x] \in {"SLEEPTILL", "SCHED"} THEN wakes \ {x} ELSE wakes
  /\ UNCHANGED <<reader, Nblocked, Nsleeptill, open, size>>
DetachKeepsWake(x, woken) ==
  /\ Nwaiting' = Nwaiting - Cardinality(woken)
  /\ reader' = IF state[x] = "BLOCKED" /\ fifo[x] # None
               THEN [reader EXCEPT ![fifo[x]] = None] ELSE reader
  /\ fifo' = IF state[x] = "BLOCKED" THEN [fifo EXCEPT ![x] = None] ELSE fifo
  /\ UNCHANGED <<wakes, Nblocked, Nsleeptill, open, size>>

(* What taskbury(x) does before it looks for a handler: wakewaiters(), then the
   fifo or the schedule entry x was parked on.  It leaves Nblocked and
   Nsleeptill alone, and Nwaiting counts the restarted waiters only.           *)
Detach(x, woken) ==
  LET parked == IF x \in woken THEN "RUNNING" ELSE state[x]
  IN  /\ Nwaiting' = Nwaiting - Cardinality(woken)
      /\ reader' = IF parked = "BLOCKED" /\ fifo[x] # None
                   THEN [reader EXCEPT ![fifo[x]] = None] ELSE reader
      /\ fifo' = IF parked = "BLOCKED" THEN [fifo EXCEPT ![x] = None] ELSE fifo
      /\ wakes' = IF parked \in {"SLEEPTILL", "SCHED"} THEN wakes \ {x} ELSE wakes
      /\ UNCHANGED <<Nblocked, Nsleeptill, open, size>>

Restarted(woken) == [u \in Task |-> IF u \in woken THEN "RUNNING" ELSE state[u]]

Burying(x) ==
  /\ pc = "bury" /\ todo # <<>> /\ x = Head(todo)
  /\ priority[x] <= priority[killer]

(* taskbury(x), the task has an onerror() function: it runs that instead. *)
BuryOnError(x) ==
  /\ Burying(x) /\ ontaskerror[x]
  /\ Detach(x, Waiters(x))
  /\ state' = [Restarted(Waiters(x)) EXCEPT ![x] = "RUNNING"]
  /\ ontaskerror' = [ontaskerror EXCEPT ![x] = FALSE]
  /\ todo' = Tail(todo)
  /\ UNCHANGED <<twait, Tid, Currpriority, slot, parent, anychild, anywait,
                 priority, onexit, lockVars, pc, scan, killer, Inerror>>

(* taskbury(x), the task has an onexit() function: it runs that instead. *)
BuryOnExit(x) ==
  /\ Burying(x) /\ ~ontaskerror[x] /\ onexit[x]
  /\ Detach(x, Waiters(x))
  /\ state' = [Restarted(Waiters(x)) EXCEPT ![x] = "RUNNING"]
  /\ onexit' = [onexit EXCEPT ![x] = FALSE]
  /\ todo' = Tail(todo)
  /\ UNCHANGED <<twait, Tid, Currpriority, slot, parent, anychild, anywait,
                 priority, ontaskerror, lockVars, pc, scan, killer, Inerror>>

(* Mutant of BuryForGood: unlocktid() looks at the locks x owns and no others. *)
BuryForGoodOwnLocks(x) ==
  /\ Burying(x) /\ ~ontaskerror[x] /\ ~onexit[x]
  /\ Detach(x, Waiters(x))
  /\ state' = Restarted(Waiters(x))
  /\ pc' = "scan" /\ scan' = {l \in Lock : owner[l] = x}
  /\ UNCHANGED <<twait, Tid, Currpriority, structVars, lockVars, todo, killer,
                 Inerror>>

(* taskbury(x), no handler is left: on to unlocktid(x). *)
BuryForGood(x) ==
  /\ Burying(x) /\ ~ontaskerror[x] /\ ~onexit[x]
  /\ Detach(x, Waiters(x))
  /\ state' = Restarted(Waiters(x))
  /\ pc' = "scan" /\ scan' = {l \in Lock : owner[l] # None}
  /\ UNCHANGED <<twait, Tid, Currpriority, structVars, lockVars, todo, killer,
                 Inerror>>

-----------------------------------------------------------------------------
(* Mutant of PassOn: the rest of the chain is freed with its first node. *)
PassOnDropsChain(l) ==
  /\ owner' = [owner EXCEPT ![l] = IF notify[l] = <<>> THEN None ELSE Head(notify[l])]
  /\ notify' = [notify EXCEPT ![l] = <<>>]

(* unlocklk(l): the first waiter becomes the owner, or there is none. *)

PassOn(l) ==
  /\ owner' = [owner EXCEPT ![l] = IF notify[l] = <<>> THEN None ELSE Head(notify[l])]
  /\ notify' = [notify EXCEPT ![l] = IF @ = <<>> THEN <<>> ELSE Tail(@)]

(* The test unlocklk() makes of the waiter it is about to restart. *)
NextIsParked(l) == notify[l] # <<>> => state[Head(notify[l])] = "LOCKWAIT"

RestartNext(l) ==
  state' = [t \in Task |-> IF notify[l] # <<>> /\ t = Head(notify[l])
                           THEN "RUNNING" ELSE state[t]]

scanRest == <<twait, wakes, Tid, Currpriority, structVars, fifoVars, countVars>>

(* unlocktid(x): drop one node of x from the chain of lock l. *)
ScanDequeue(l, i) ==
  /\ pc = "scan" /\ l \in scan
  /\ i \in 1 .. Len(notify[l]) /\ notify[l][i] = Head(todo)
  /\ \A j \in 1 .. i - 1 : notify[l][j] # Head(todo)
  /\ notify' = [notify EXCEPT ![l] =
                  [j \in 1 .. Len(@) - 1 |-> IF j < i THEN @[j] ELSE @[j + 1]]]
  /\ UNCHANGED <<state, owner, killVars, scanRest>>

(* Mutant of Scanned: the chain of l is left as it is. *)
ScannedOwnerOnly(l) == pc = "scan" /\ l \in scan

Scanned(l) ==
  pc = "scan" /\ l \in scan /\ \A i \in 1 .. Len(notify[l]) : notify[l][i] # Head(todo)

(* Mutant of ScanOther: the loop does not go on to the next lock. *)
ScanOtherStays(l) == Scanned(l) /\ owner[l] # Head(todo) /\ UNCHANGED vars

ScanOther(l) ==
  /\ Scanned(l) /\ owner[l] # Head(todo)
  /\ scan' = scan \ {l}
  /\ UNCHANGED <<state, lockVars, pc, todo, killer, Inerror, scanRest>>

ScanUnlock(l) ==
  /\ Scanned(l) /\ owner[l] = Head(todo) /\ NextIsParked(l)
  /\ PassOn(l) /\ RestartNext(l)
  /\ scan' = scan \ {l}
  /\ UNCHANGED <<pc, todo, killer, Inerror, scanRest>>

(* unlocklk() finds the next owner not waiting for a lock: execerror(). *)
ScanError(l) ==
  /\ Scanned(l) /\ owner[l] = Head(todo) /\ ~NextIsParked(l)
  /\ PassOn(l) /\ RaiseError(killer)
  /\ UNCHANGED <<state, scanRest>>

(* The end of taskbury(): unlinktask() and deletetask(). *)
DeleteTask ==
  /\ pc = "scan" /\ scan = {}
  /\ state' = [state EXCEPT ![Head(todo)] = "FREE"]
  /\ pc' = "bury" /\ todo' = Tail(todo)
  /\ UNCHANGED <<lockVars, scan, killer, Inerror, scanRest>>

(* The loop of taskkill() is over.  After a first error execerror() starts a
   task for Errorfunc, if that variable holds a function; after a second one
   it does not.                                                               *)
KillDone ==
  /\ pc = "bury" /\ todo = <<>>
  /\ pc' = "run" /\ killer' = None /\ Inerror' = 0
  /\ UNCHANGED <<state, todo, scan, lockVars, scanRest>>

StartErrorfunc(t) ==
  /\ pc = "bury" /\ todo = <<>> /\ Inerror = 1
  /\ NewRoot(t)
  /\ pc' = "run" /\ killer' = None /\ Inerror' = 0
  /\ UNCHANGED <<twait, wakes, Currpriority, lockVars, fifoVars, countVars, todo,
                 scan>>

-----------------------------------------------------------------------------
(* Byte codes and built-in functions of a running task t.                   *)

(* i_task, newtask(): the new task inherits T's priority. *)
Spawn(t, u) ==
  /\ Calls(t, "task")
  /\ NewTask(u, "RUNNING", t, priority[t], TRUE)
  /\ UNCHANGED <<twait, wakes, Currpriority, lockVars, fifoVars, countVars, killVars>>

(* bi_realtime(), taskphr(): a task stands for a scheduled phrase.  Unlike
   newtask() it does not set T->anychild.                                   *)
Realtime(t, u) ==
  /\ Calls(t, "realtime")
  /\ NewTask(u, "SCHED", t, 0, FALSE)
  /\ UNCHANGED <<twait, wakes, Currpriority, lockVars, fifoVars, countVars, killVars>>

(* i_stop: the code is over.  taskkill(T,0) hands the children to T's parent. *)
Stop(t) ==
  /\ Runnable(t)
  /\ pc' = "bury" /\ todo' = <<t>> /\ killer' = t
  /\ parent' = [u \in Task |-> IF anychild[t] /\ u \in Live /\ parent[u] = t
                               THEN parent[t] ELSE parent[u]]
  /\ UNCHANGED <<state, twait, wakes, Tid, Currpriority, slot, anychild, anywait,
                 priority, onexit, ontaskerror, lockVars, fifoVars, countVars, scan,
                 Inerror>>

(* bi_kill; a tid that names no task is no error *)
Kill(t, x) ==
  /\ Calls(t, "kill") /\ x \in Live
  /\ StartKill(t, x)
  /\ UNCHANGED <<state, lockVars, Inerror, scanRest>>

(* a run-time error in a byte code of t: execerror() *)
Error(t) ==
  /\ Calls(t, "error")
  /\ RaiseError(t)
  /\ UNCHANGED <<state, lockVars, scanRest>>

OnExit(t) ==
  /\ Calls(t, "onexit")
  /\ onexit' = [onexit EXCEPT ![t] = TRUE]
  /\ UNCHANGED <<state, twait, wakes, Tid, Currpriority, slot, parent, anychild,
                 anywait, priority, ontaskerror, lockVars, fifoVars, countVars,
                 killVars>>

OnError(t) ==
  /\ Calls(t, "onerror")
  /\ ontaskerror' = [ontaskerror EXCEPT ![t] = TRUE]
  /\ UNCHANGED <<state, twait, wakes, Tid, Currpriority, slot, parent, anychild,
                 anywait, priority, onexit, lockVars, fifoVars, countVars, killVars>>

(* bi_wait on a task that exists *)
Wait(t, x) ==
  /\ Calls(t, "wait") /\ x \in Live /\ Nwaiting < MaxCount
  /\ twait' = [twait EXCEPT ![t] = x]
  /\ state' = [state EXCEPT ![t] = "WAITING"]
  /\ Nwaiting' = Nwaiting + 1
  /\ anywait' = [anywait EXCEPT ![x] = TRUE]
  /\ UNCHANGED <<wakes, Tid, Currpriority, slot, parent, anychild, priority, onexit,
                 ontaskerror, lockVars, fifoVars, Nblocked, Nsleeptill, killVars>>

(* bi_sleeptill with a time still to come, schdwake() *)
SleepTill(t) ==
  /\ Calls(t, "sleeptill") /\ Nsleeptill < MaxCount
  /\ wakes' = wakes \cup {t}
  /\ state' = [state EXCEPT ![t] = "SLEEPTILL"]
  /\ Nsleeptill' = Nsleeptill + 1
  /\ UNCHANGED <<twait, Tid, Currpriority, structVars, lockVars, fifoVars, Nblocked,
                 Nwaiting, killVars>>

(* bi_lock without the test argument.  A lock nobody owns and one that is not
   on Toplk are the same to every caller.                                     *)
LockFree(t, l) ==
  /\ Calls(t, "lock") /\ owner[l] = None
  /\ owner' = [owner EXCEPT ![l] = t]
  /\ notify' = [notify EXCEPT ![l] = <<>>]
  /\ UNCHANGED <<state, scanRest, killVars>>

(* Mutant of LockWait: the new node goes to the front of the chain. *)
LockWaitInFront(t, l) ==
  /\ Calls(t, "lock") /\ owner[l] # None /\ Len(notify[l]) < MaxNotify
  /\ notify' = [notify EXCEPT ![l] = <<t>> \o @]
  /\ state' = [state EXCEPT ![t] = "LOCKWAIT"]
  /\ UNCHANGED <<owner, scanRest, killVars>>

LockWait(t, l) ==
  /\ Calls(t, "lock") /\ owner[l] # None /\ Len(notify[l]) < MaxNotify
  /\ notify' = [notify EXCEPT ![l] = Append(@, t)]
  /\ state' = [state EXCEPT ![t] = "LOCKWAIT"]
  /\ UNCHANGED <<owner, scanRest, killVars>>

(* bi_unlock, by any task *)
Unlock(t, l) ==
  /\ Calls(t, "unlock") /\ owner[l] # None /\ NextIsParked(l)
  /\ PassOn(l) /\ RestartNext(l)
  /\ UNCHANGED <<scanRest, killVars>>

UnlockError(t, l) ==
  /\ Calls(t, "unlock")
  /\ \/ /\ owner[l] = None
        /\ UNCHANGED lockVars
     \/ /\ owner[l] # None /\ ~NextIsParked(l)
        /\ PassOn(l)
  /\ RaiseError(t)
  /\ UNCHANGED <<state, scanRest>>

(* bi_open without a file: a fifo between tasks *)
Open(t, f) ==
  /\ Calls(t, "open") /\ f \notin open
  /\ open' = open \cup {f}
  /\ size' = [size EXCEPT ![f] = 0] /\ reader' = [reader EXCEPT ![f] = None]
  /\ UNCHANGED <<state, twait, wakes, Tid, Currpriority, structVars, lockVars, fifo,
                 countVars, killVars>>

fifoRest == <<twait, wakes, Tid, Currpriority, structVars, lockVars, Nwaiting,
              Nsleeptill>>

(* bi_get, getfromfifo(): there is data ... *)
GetData(t, f) ==
  /\ Calls(t, "get") /\ f \in open /\ size[f] > 0
  /\ size' = [size EXCEPT ![f] = @ - 1]
  /\ UNCHANGED <<state, open, reader, fifo, Nblocked, killVars, fifoRest>>

(* ... or there is none and the task blocks, blockfifo() ... *)
GetBlocks(t, f) ==
  /\ Calls(t, "get") /\ f \in open /\ size[f] = 0 /\ reader[f] = None
  /\ Nblocked < MaxCount
  /\ fifo' = [fifo EXCEPT ![t] = f] /\ reader' = [reader EXCEPT ![f] = t]
  /\ state' = [state EXCEPT ![t] = "BLOCKED"]
  /\ Nblocked' = Nblocked + 1
  /\ UNCHANGED <<open, size, killVars, fifoRest>>

(* ... unless another task is blocked on the fifo. *)
GetError(t, f) ==
  /\ Calls(t, "get") /\ f \in open /\ size[f] = 0 /\ reader[f] # None
  /\ RaiseError(t)
  /\ UNCHANGED <<state, fifoVars, Nblocked, fifoRest>>

(* Restart the task blocked on f. *)
Unblock(f) ==
  /\ state' = [state EXCEPT ![reader[f]] = "RUNNING"]
  /\ fifo' = [fifo EXCEPT ![reader[f]] = None]
  /\ reader' = [reader EXCEPT ![f] = None]
  /\ Nblocked' = Nblocked - 1

(* bi_put, putfifo(): the datum stays in the fifo, or goes to the task that is
   blocked on it.                                                             *)
PutStays(t, f) ==
  /\ Calls(t, "put") /\ f \in open /\ reader[f] = None /\ size[f] < MaxSize
  /\ size' = [size EXCEPT ![f] = @ + 1]
  /\ UNCHANGED <<state, open, reader, fifo, Nblocked, killVars, fifoRest>>

PutUnblocks(t, f) ==
  /\ Calls(t, "put") /\ f \in open /\ reader[f] # None
  /\ Unblock(f)
  /\ UNCHANGED <<open, size, killVars, fifoRest>>

(* bi_flush *)
Flush(t, f) ==
  /\ Calls(t, "flush") /\ f \in open /\ size[f] > 0
  /\ size' = [size EXCEPT ![f] = 0] /\ reader' = [reader EXCEPT ![f] = None]
  /\ UNCHANGED <<state, open, fifo, Nblocked, killVars, fifoRest>>

(* Mutant of Close: Nblocked is decremented whether a task is blocked or not. *)
CloseMiscounts(t, f) ==
  /\ Calls(t, "close") /\ f \in open
  /\ IF reader[f] = None
     THEN UNCHANGED <<state, fifo, reader>> /\ Nblocked' = Nblocked - 1
     ELSE Unblock(f)
  /\ open' = open \ {f} /\ size' = [size EXCEPT ![f] = 0]
  /\ UNCHANGED <<killVars, fifoRest>>

(* bi_close, closefifo(), deletefifo(): a blocked task gets an Eof *)
Close(t, f) ==
  /\ Calls(t, "close") /\ f \in open
  /\ IF reader[f] = None THEN UNCHANGED <<state, fifo, reader, Nblocked>> ELSE Unblock(f)
  /\ open' = open \ {f} /\ size' = [size EXCEPT ![f] = 0]
  /\ UNCHANGED <<killVars, fifoRest>>

(* bi_priority on a task, and on the global limit, which may be raised only to
   the priority of some task.                                                  *)
SetPriority(t, x, v) ==
  /\ Calls(t, "priority") /\ x \in Live
  /\ priority' = [priority EXCEPT ![x] = v]
  /\ UNCHANGED <<state, twait, wakes, Tid, Currpriority, slot, parent, anychild,
                 anywait, onexit, ontaskerror, lockVars, fifoVars, countVars,
                 killVars>>

SetLimit(t, v) ==
  /\ Calls(t, "priority")
  /\ v > Currpriority => \E x \in Live : priority[x] >= v
  /\ Currpriority' = v
  /\ UNCHANGED <<state, twait, wakes, Tid, structVars, lockVars, fifoVars, countVars,
                 killVars>>

SetLimitError(t, v) ==
  /\ Calls(t, "priority")
  /\ v > Currpriority /\ \A x \in Live : priority[x] < v
  /\ RaiseError(t)
  /\ UNCHANGED <<state, lockVars, scanRest>>

(* bi_reboot, forcereboot(), startreboot(): clrsched() frees the scheduled phrases,
   and restarts what waits for them, before every task, fifo and lock is freed and
   one task starts over.  Of the rest, Nwaiting, Nsleeptill and Currpriority keep
   their values.                                                               *)
PhraseWaiters == UNION {Waiters(x) : x \in InState("SCHED")}

Reboot(t, u) ==
  /\ Calls(t, "reboot")
  /\ state' = [x \in Task |-> IF x = u THEN "RUNNING" ELSE "FREE"]
  /\ slot' = [slot EXCEPT ![u] = Tid] /\ Tid' = (Tid + 1) % HashSize
  /\ parent' = [parent EXCEPT ![u] = None]
  /\ anychild' = [anychild EXCEPT ![u] = FALSE]
  /\ anywait' = [anywait EXCEPT ![u] = FALSE]
  /\ priority' = [priority EXCEPT ![u] = DefPriority]
  /\ onexit' = [onexit EXCEPT ![u] = FALSE]
  /\ ontaskerror' = [ontaskerror EXCEPT ![u] = FALSE]
  /\ wakes' = {}
  /\ Nblocked' = 0 /\ Nwaiting' = Nwaiting - Cardinality(PhraseWaiters)
  /\ owner' = [l \in Lock |-> None] /\ notify' = [l \in Lock |-> <<>>]
  /\ open' = {} /\ size' = [f \in Fifo |-> 0] /\ reader' = [f \in Fifo |-> None]
  /\ UNCHANGED <<twait, fifo, Nsleeptill, Currpriority, killVars>>

-----------------------------------------------------------------------------
(* Between two passes over the Running list.                                *)

(* chkoutput(), a SCH_WAKE entry is due *)
Wake(t) ==
  /\ pc = "run" /\ t \in wakes
  /\ wakes' = wakes \ {t}
  /\ state' = [state EXCEPT ![t] = "RUNNING"]
  /\ Nsleeptill' = Nsleeptill - 1
  /\ UNCHANGED <<twait, Tid, Currpriority, structVars, lockVars, fifoVars, Nblocked,
                 Nwaiting, killVars>>

(* chkoutput(), freesch(): the last note of a scheduled phrase is off *)
PhraseDone(t) ==
  /\ pc = "run" /\ state[t] = "SCHED"
  /\ state' = [Restarted(Waiters(t)) EXCEPT ![t] = "FREE"]
  /\ Nwaiting' = Nwaiting - Cardinality(Waiters(t))
  /\ UNCHANGED <<twait, wakes, Tid, Currpriority, structVars, lockVars, fifoVars,
                 Nblocked, Nsleeptill, killVars>>

(* doanint(): the console's interrupt starts Intrfunc *)
Interrupt(t) ==
  /\ pc = "run" /\ "interrupt" \in Ops
  /\ NewRoot(t)
  /\ UNCHANGED <<twait, wakes, Currpriority, lockVars, fifoVars, countVars, killVars>>

(* main(): exectasks() has returned, the next argument of the command line
   is run by a new task                                                     *)
NextProgram(t) ==
  /\ pc = "run" /\ QuitCondition
  /\ NewRoot(t)
  /\ UNCHANGED <<twait, wakes, Currpriority, lockVars, fifoVars, countVars, killVars>>

-----------------------------------------------------------------------------
BuryStep ==
  \/ Spare \/ DeleteTask \/ KillDone
  \/ \E t \in Task : \/ BuryOnError(t) \/ BuryOnExit(t) \/ BuryForGood(t)
                     \/ StartErrorfunc(t)
  \/ \E l \in Lock : \/ ScanOther(l) \/ ScanUnlock(l) \/ ScanError(l)
                     \/ \E i \in 1 .. Len(notify[l]) : ScanDequeue(l, i)

TaskStep ==
  \E t \in Task :
    \/ Stop(t) \/ Error(t) \/ OnExit(t) \/ OnError(t) \/ SleepTill(t)
    \/ \E u \in Task : \/ Spawn(t, u) \/ Realtime(t, u) \/ Kill(t, u) \/ Wait(t, u)
                       \/ Reboot(t, u)

LockStep ==
  \E t \in Task, l \in Lock :
    LockFree(t, l) \/ LockWait(t, l) \/ Unlock(t, l) \/ UnlockError(t, l)

FifoStep ==
  \E t \in Task, f \in Fifo :
    \/ Open(t, f) \/ GetData(t, f) \/ GetBlocks(t, f) \/ GetError(t, f)
    \/ PutStays(t, f) \/ PutUnblocks(t, f) \/ Flush(t, f) \/ Close(t, f)

PriorityStep ==
  \E t \in Task, v \in Priority :
    \/ \E x \in Task : SetPriority(t, x, v)
    \/ SetLimit(t, v) \/ SetLimitError(t, v)

LoopStep ==
  \E t \in Task : Wake(t) \/ PhraseDone(t) \/ Interrupt(t) \/ NextProgram(t)

Next == BuryStep \/ TaskStep \/ LockStep \/ FifoStep \/ PriorityStep \/ LoopStep

Spec == Init /\ [][Next]_vars

(* The loops of taskkill() and unlocktid() are C loops: they do go on. *)
FairSpec == Spec /\ WF_vars(BuryStep)

-----------------------------------------------------------------------------
(* Type invariant, in parts.                                                *)

StructTypeOK ==
  /\ slot \in [Task -> 0 .. HashSize - 1] /\ Tid \in 0 .. HashSize - 1
  /\ parent \in [Task -> Task \cup {None}]
  /\ anychild \in [Task -> BOOLEAN] /\ anywait \in [Task -> BOOLEAN]
  /\ priority \in [Task -> Nat]
  /\ onexit \in [Task -> BOOLEAN] /\ ontaskerror \in [Task -> BOOLEAN]

ParkTypeOK ==
  /\ state \in [Task -> States] /\ twait \in [Task -> Task \cup {None}]
  /\ wakes \subseteq Task /\ Currpriority \in Nat

LockTypeOK ==
  owner \in [Lock -> Task \cup {None}] /\ notify \in [Lock -> Seq(Task)]

FifoTypeOK ==
  /\ open \subseteq Fifo /\ size \in [Fifo -> 0 .. MaxSize]
  /\ reader \in [Fifo -> Task \cup {None}] /\ fifo \in [Task -> Fifo \cup {None}]

CountTypeOK == Nblocked \in Int /\ Nwaiting \in Int /\ Nsleeptill \in Int

(* The C code is between byte codes or in a loop that some task T entered. *)
KillTypeOK ==
  /\ pc \in {"run", "bury", "scan"} /\ todo \in Seq(Task) /\ scan \subseteq Lock
  /\ killer \in Task \cup {None} /\ Inerror \in 0 .. 2
  /\ pc # "run" => killer # None
  /\ pc = "scan" => todo # <<>>
  /\ pc = "run" => Inerror = 0

TypeOK ==
  StructTypeOK /\ ParkTypeOK /\ LockTypeOK /\ FifoTypeOK /\ CountTypeOK /\ KillTypeOK

-----------------------------------------------------------------------------
(* Safety.                                                                  *)

Count(s) == Cardinality(InState(s))

(* A task that wait()s for another waits for one that still exists and that
   knows it is waited for, so its end will wake the waiter: taskbury(),
   freesch() and newtp() never lose a waiter, whichever task dies or whichever
   struct is reused in between.                                              *)
NoLostWaiter ==
  \A t \in InState("WAITING") : twait[t] \in Live /\ anywait[twait[t]]

(* The SCH_WAKE entries of the schedule are exactly those of the tasks asleep:
   chkoutput()'s test "SCH_WAKE called on non-waiting task" never fires, and no
   task sleeps with nothing left to wake it.                                  *)
SleepersScheduled == pc = "run" => wakes = InState("SLEEPTILL")

(* f->t and t->fifo name each other: the task an open fifo will restart is
   blocked on that fifo and the fifo is empty, and every blocked task is the one
   its open fifo will restart.  putfifo()'s test of f->t's state never fires and
   no reader sleeps beside data.                                               *)
ReadersMatch ==
  pc = "run" =>
    /\ \A f \in open : reader[f] # None =>
         state[reader[f]] = "BLOCKED" /\ fifo[reader[f]] = f /\ size[f] = 0
    /\ \A t \in InState("BLOCKED") : fifo[t] \in open /\ reader[fifo[t]] = t

(* exectasks() returns, and main() ends the program or runs its next argument,
   only when no task is blocked, waiting or asleep.                            *)
NeverQuitsEarly ==
  pc = "run" /\ QuitCondition =>
    InState("BLOCKED") = {} /\ InState("WAITING") = {} /\ InState("SLEEPTILL") = {}

(* What NeverQuitsEarly rests on: taskbury() may leave the three counters of
   parked tasks too high, and nothing makes them too low.                     *)
CountersCover ==
  /\ Nwaiting >= Count("WAITING") /\ Nblocked >= Count("BLOCKED")
  /\ Nsleeptill >= Count("SLEEPTILL")

(* No part of the kernel keeps a pointer to a freed struct that it would
   follow: unlocktid(), unsched(), the fifo and the waiters were all dealt with
   before deletetask(), on every path to it.                                   *)
NoDanglingRefs ==
  \A t \in Task \ Live :
    /\ t \notin wakes
    /\ \A l \in Lock : owner[l] # t /\ \A i \in 1 .. Len(notify[l]) : notify[l][i] # t
    /\ \A f \in open : reader[f] # t
    /\ \A u \in InState("WAITING") : twait[u] # t

(* A task waiting for a lock is in the chain of a lock that somebody owns, so
   an unlock or the owner's end will get to it.                                *)
NoLostLockWaiter ==
  pc = "run" => \A t \in InState("LOCKWAIT") :
    \E l \in Lock : owner[l] # None /\ \E i \in 1 .. Len(notify[l]) : notify[l][i] = t

(* The tasks in the chains are parked in "lockwait", each in one chain and once:
   what unlocklk() tests before it restarts the next owner (util.c:1302).       *)
LockWaitersParked ==
  pc = "run" =>
    \A l, m \in Lock : \A i \in 1 .. Len(notify[l]), j \in 1 .. Len(notify[m]) :
      /\ state[notify[l][i]] = "LOCKWAIT"
      /\ notify[l][i] = notify[m][j] => l = m /\ i = j

(* Killing ends: taskkill() returns to the interpreter even when burying a task
   raises errors that make execerror() start killing again (main.c:475).       *)
KillTerminates == pc # "run" ~> pc = "run"

(* The invariant the proofs rest on.  A task that has been through the first
   half of taskbury() (pc = "scan") is referred to by the locks still to be
   scanned and by nothing else; a freed struct, or one that stands for a phrase
   in the schedule, is referred to by no lock and no fifo.                     *)
Dying(t) == pc = "scan" /\ t = Head(todo)

WaitInv ==
  /\ NoLostWaiter
  /\ \A t \in InState("WAITING") : ~Dying(twait[t])

SleepInv ==
  /\ wakes \subseteq InState("SLEEPTILL")
  /\ \A t \in wakes : ~Dying(t)

ReaderInv ==
  \A f \in open : reader[f] # None =>
    /\ state[reader[f]] = "BLOCKED" /\ fifo[reader[f]] = f
    /\ ~Dying(reader[f])

Uses(t, l) == owner[l] = t \/ \E i \in 1 .. Len(notify[l]) : notify[l][i] = t

LockInv ==
  /\ \A l \in Lock : owner[l] = None => notify[l] = <<>>
  /\ \A t \in Task, l \in Lock : Uses(t, l) =>
       /\ state[t] \notin {"FREE", "SCHED"}
       /\ Dying(t) => l \in scan

KernelInv == WaitInv /\ SleepInv /\ ReaderInv /\ LockInv /\ CountersCover

(* In a program without locks, or without onexit() and onerror() functions, more
   is true: a lock then never passes to a task that its handler has set going
   (ScanError), which would leave the task being buried parked for ever.        *)
LocksUnhandled == Lock # {} => {"onexit", "onerror"} \cap Ops = {}

InAnyLine(t) == \E l \in Lock : \E i \in 1 .. Len(notify[l]) : notify[l][i] = t

(* A task that is parked can be found by whoever has to restart it, unless it
   has been through the first half of taskbury() already.                       *)
SleepersInv == \A t \in InState("SLEEPTILL") : Dying(t) \/ t \in wakes

BlockedInv ==
  /\ \A f \in open : reader[f] # None => size[f] = 0
  /\ \A t \in InState("BLOCKED") :
       Dying(t) \/ (fifo[t] \in open /\ reader[fifo[t]] = t)

LineInv ==
  /\ Lock # {} => \A t \in Task : ~onexit[t] /\ ~ontaskerror[t]
  /\ \A l \in Lock : \A i \in 1 .. Len(notify[l]) : state[notify[l][i]] = "LOCKWAIT"
  /\ \A l, m \in Lock : \A i \in 1 .. Len(notify[l]), j \in 1 .. Len(notify[m]) :
       notify[l][i] = notify[m][j] => l = m /\ i = j
  /\ \A t \in InState("LOCKWAIT") : Dying(t) \/ InAnyLine(t)

ParkInv == LineInv /\ SleepersInv /\ BlockedInv

-----------------------------------------------------------------------------
(* The locks of the kernel implement LockService.  A task killed while it waits
   has left the line as soon as unlocktid() has dropped its node, although its
   state stays "lockwait" until it is deleted.                                 *)

ParkedClients == {t \in InState("LOCKWAIT") : Dying(t) => InAnyLine(t)}

LS == INSTANCE LockService WITH
        Client <- Task, holder <- owner, line <- notify,
        parked <- ParkedClients

(* In programs whose tasks have no onexit() or onerror() function, lock(),
   unlock(), kill() and the end of tasks keep LockService's promise.          *)
ImplementsLockService == LS!Spec
=============================================================================

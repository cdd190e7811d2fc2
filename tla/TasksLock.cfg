SPECIFICATION Spec
CONSTANTS
  t1 = t1  t2 = t2  t3 = t3  l1 = l1  l2 = l2  f1 = f1
  None = None
  Task = {t1, t2, t3}
  Lock = {l1, l2}
  Fifo = {}
  Priority = {}
  DefPriority = 1
  HashSize = 1
  MaxSize = 1
  MaxCount = 1
  MaxNotify = 2
  Ops = {"task", "kill", "lock", "unlock", "realtime", "reboot", "interrupt", "wait"}
VIEW MCView
INVARIANTS
  NoLostLockWaiter LockWaitersParked NoLostWaiter CountersCover
PROPERTY ImplementsLockService
CHECK_DEADLOCK FALSE

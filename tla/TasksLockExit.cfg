SPECIFICATION Spec
CONSTANTS
  t1 = t1  t2 = t2  t3 = t3  l1 = l1  l2 = l2  f1 = f1
  None = None
  Task = {t1, t2}
  Lock = {l1}
  Fifo = {}
  Priority = {}
  DefPriority = 1
  HashSize = 1
  MaxSize = 1
  MaxCount = 1
  MaxNotify = 1
  Ops = {"task", "kill", "lock", "unlock", "onexit"}
INVARIANT LockWaitersParked
CHECK_DEADLOCK FALSE

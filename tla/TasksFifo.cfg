SPECIFICATION Spec
CONSTANTS
  t1 = t1  t2 = t2  t3 = t3  l1 = l1  l2 = l2  f1 = f1
  None = None
  Task = {t1, t2, t3}
  Lock = {}
  Fifo = {f1}
  Priority = {1, 2}
  DefPriority = 1
  HashSize = 1
  MaxSize = 1
  MaxCount = 1
  MaxNotify = 2
  Ops = {"task", "kill", "open", "get", "put", "flush", "close", "priority", "sleeptill"}
VIEW MCView
INVARIANTS
  ReadersMatch SleepersScheduled NeverQuitsEarly NoDanglingRefs
CHECK_DEADLOCK FALSE

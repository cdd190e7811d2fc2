SPECIFICATION Spec
CONSTANTS
  t1 = t1  t2 = t2  t3 = t3  t4 = t4
  None = None
  Task = {t1, t2, t3, t4}
  MaxInts = 1
INVARIANTS
  ListExact TurnIsRunning
PROPERTIES
  PassEnds EveryoneRuns
CHECK_DEADLOCK FALSE

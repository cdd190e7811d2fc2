SPECIFICATION Spec
CONSTANTS
  Code <- MCCode
  Main = 1
  Handler = 8
  IPop = 7
  Phrases = {1}
  Arrays = {2}
  LoopLength = 2
  InitStackSize = 40
  MAXLONG = 99
  MaxFrames = 4
INVARIANTS
  PointersCurrent SelectExact LineExact
PROPERTIES
  CountsKept ImplementsActivations
CHECK_DEADLOCK FALSE

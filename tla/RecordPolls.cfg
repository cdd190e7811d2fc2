CONSTANTS
  Pitches = {2}
  Pedals = {1}
  Noteqsize = 3
  None = None
  MaxClock = 1
  MaxCount = 5

SPECIFICATION SpecPolls
INVARIANTS RecordedComplete
CHECK_DEADLOCK FALSE

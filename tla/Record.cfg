CONSTANTS
  Pitches = {2}
  Pedals = {1}
  Noteqsize = 3
  None = None
  MaxClock = 1
  MaxCount = 4
VIEW View
SPECIFICATION Spec
INVARIANTS TypeOK RecordedExact CurrentExact
PROPERTIES HeldUnchanged ImplementsNoteQueue
CHECK_DEADLOCK FALSE

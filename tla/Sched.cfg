SPECIFICATION FairSpec
CONSTANTS
  p1 = p1  p2 = p2  q1 = q1
  Task = {p1, p2}
  Sleeper = {q1}
  Pitch = {"c"}
  Phrase <- MCPhrases
  Delay <- MCDelays
  Repeat = {0, 2}
  Maxatonce = 4
  Midithrottle = 4
  MaxJump = 1
  MaxLate = 6
INVARIANTS
  Sorted CountsExact NotesEnd
CHECK_DEADLOCK FALSE
PROPERTY PhraseEnds

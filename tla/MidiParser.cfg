SPECIFICATION Spec
CONSTANTS
  Byte = {1, 2, 145, 194, 240, 241, 242, 247, 248, 253, 254}
  MESSAGESIZE = 2
  MaxInput = 6
INVARIANTS
  CallsRight BufferHolds
CHECK_DEADLOCK FALSE

CONSTANTS
  Var = {a, b}
  Literals <- SomeNotes
  Times <- MCTimes
  Durs <- MCDurs
  Lengths <- MCLengths
  MaxNotes = 2
  Bound = 2
SYMMETRY Symmetry
SPECIFICATION Spec
INVARIANTS AlwaysInOrder MergeExact SetOpsExact CutExact

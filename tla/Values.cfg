CONSTANTS
  Task = {t1, t2}
  Phrase = {p1, p2}
  Arr = {a1, a2}
  Globals = {x}
  ElemSym = {e1}
  Keys = 1
  Nil = Nil
  NoSym = NoSym
  MaxStack = 2
  MaxItems = 3
  MaxLost = 1
SPECIFICATION Spec
SYMMETRY Symmetry
VIEW View
INVARIANTS CountsExact NoDangling NothingForgotten
PROPERTIES ContentsPrivate
CHECK_DEADLOCK FALSE

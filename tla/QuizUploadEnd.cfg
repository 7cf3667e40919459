\* Presses that overlap, two classes, and a store that may raise.
SPECIFICATION Spec
CONSTANTS
  Class = {c1, c2}
  NoClass = NoClass
  Call = {k1, k2, k3}
  MaxEdits = 1
  MayFail = TRUE
  MayLose = TRUE
SYMMETRY Symmetry
INVARIANTS
  NoticeIsTrue
PROPERTIES
  EditsAreKept
CHECK_DEADLOCK FALSE

\* Every trace of none, three or six steps of a main with a loop and a recursive function.
SPECIFICATION Spec
CONSTANTS
  Line <- Lines
  FnOf <- Fns
  Main = 1
  Entry <- Entries
  Closing <- Closings
  Loop <- Loops
  MaxSteps = 6
  Length = {0, 3, 6}
  MaxDepth = 3
  MaxBreaks = 1
  MaxIgnore = 1
INVARIANTS
  SelectionIsOnStack
PROPERTIES
  NoBreakpointIsPassed
  EveryMoveMoves
  FinishUnwinds
  NextKeepsFrame

\* A frame that was finished, with the steps that are run next.
SPECIFICATION Spec
CONSTANTS
  Line <- Lines
  FnOf <- Fns
  Main = 1
  Entry <- Entries
  Closing <- Closings
  Loop <- Loops
  MaxSteps = 6
  Length = {0, 3, 6}
  MaxDepth = 3
  MaxBreaks = 1
  MaxIgnore = 1
PROPERTIES
  FinishedIsLeft

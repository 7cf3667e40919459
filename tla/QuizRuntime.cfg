\* A choice and a table on one line, whose narration ends with a command.
SPECIFICATION FairSpec
CONSTANTS
  choice = choice
  table = table
  here = here
  there = there
  None = None
  Question <- Questions
  TableQuestion = {table}
  Line <- Lines
  LineOf <- TriggerLine
  Spoken = {here}
  MaxTimers = 1
INVARIANTS
  WayOut
  NeverStalls
  StashIsHeld
PROPERTIES
  HeldWhileOpen
  DialogComesBack
CHECK_DEADLOCK FALSE

\* Presses that overlap; requests come to an end and timers run.
SPECIFICATION FairSpec
CONSTANTS
  Class = {c1}
  NoClass = NoClass
  Call = {k1, k2, k3}
  MaxEdits = 0
  MayFail = TRUE
  MayLose = TRUE
PROPERTIES
  EndedIsFinal
  EndReachesStudents
CHECK_DEADLOCK FALSE

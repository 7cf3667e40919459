\* Changed, lost and late answers to two questions, and links that break.
SPECIFICATION Spec
CONSTANTS
  a = a
  b = b
  Device = {d1}
  ChoiceQuestion = {q1, q2}
  Option <- Options
  correct_option <- Right
  None = None
  MaxLinks = 2
  MaxTeacherLinks = 2
  MaxAnswers = 2
  MaxQueue = 2
  MaxResync = 1
SYMMETRY Symmetry
INVARIANTS
  ShownIsCounted
  PageAgreesWhenQuiet
  RosterFollowsRelay
PROPERTIES
  NeverBackwards
CHECK_DEADLOCK FALSE

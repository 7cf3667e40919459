\* A changed answer that is confirmed after the question was closed.
SPECIFICATION Spec
CONSTANTS
  a = a
  b = b
  Device = {d1}
  ChoiceQuestion = {q1}
  Option <- Options
  correct_option <- Right
  None = None
  MaxLinks = 1
  MaxTeacherLinks = 1
  MaxAnswers = 2
  MaxQueue = 2
  MaxResync = 0
INVARIANTS
  OldAnswerAfterClose
CHECK_DEADLOCK FALSE

\* One question, no answer, pages and a teacher that lose their links.
SPECIFICATION FairSpec
CONSTANTS
  a = a
  b = b
  Device = {d1}
  ChoiceQuestion = {q1}
  Option <- Options
  correct_option <- Right
  None = None
  MaxLinks = 2
  MaxTeacherLinks = 2
  MaxAnswers = 1
  MaxQueue = 1
  MaxResync = 0
PROPERTIES
  EveryPageLearns
  NoPageLeftBehind
CHECK_DEADLOCK FALSE

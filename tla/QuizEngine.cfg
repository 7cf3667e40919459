\* Three students, a choice question with two options, a table of two cells.
SPECIFICATION Spec
CONSTANTS
  q1 = q1
  q2 = q2
  a = a
  b = b
  c1 = c1
  c2 = c2
  Device = {d1, d2, d3}
  ChoiceQuestion <- Choices
  TableQuestion <- Tables
  Option <- Options
  correct_option <- Right
  Cell <- Cells
SYMMETRY Symmetry
INVARIANTS
  TypeOK
  CountsMatchAnswers
  OptionCountsMatch
  CellStatsMatch
  OneOpenQuestion
  SameQuestionShown
PROPERTIES
  ClosedIsFinal

\* Four Runs, two signals, two failures.
SPECIFICATION FairSpec
CONSTANTS
  MaxRuns = 4
  MaxSignals = 2
  MaxFaults = 2
INVARIANTS
  SessionIsReported
  NeverOnDisposed
PROPERTIES
  EveryRunIsAnswered
CHECK_DEADLOCK FALSE

\* A server that stays up and two classes: abandoned classes end.
SPECIFICATION FairSpec
CONSTANTS
  Nonce = {n1, n2}
  Sid = {s1, s2, s3}
  Device = {d1}
  NoNonce = NoNonce
  NoDevice = NoDevice
  Grace = 2
  MaxStudents = 2
  Capacity = 1
  MaxDrops = 2
  MayRestart = FALSE
  MayFail = FALSE
PROPERTIES
  ClassesAreSeparate
  AbandonedClassEnds
CHECK_DEADLOCK FALSE

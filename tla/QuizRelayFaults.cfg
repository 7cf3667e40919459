\* One class, four connections, restarts and ends that raise.
SPECIFICATION Spec
CONSTANTS
  Nonce = {n1}
  Sid = {s1, s2, s3, s4}
  Device = {d1, d2}
  NoNonce = NoNonce
  NoDevice = NoDevice
  Grace = 2
  MaxStudents = 2
  Capacity = 2
  MaxDrops = 2
  MayRestart = TRUE
  MayFail = TRUE
SYMMETRY Symmetry
INVARIANTS
  TypeOK
  RoomsFollowRoles
  NobodyIsStranded
  TimerOnlyWhileAway
  TeacherKnowsClass
  PinnedDevice
PROPERTIES
  GraceNeverCutsShort
  NoSilentDrop
CHECK_DEADLOCK FALSE

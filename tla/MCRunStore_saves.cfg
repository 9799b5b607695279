SPECIFICATION Spec
CONSTANTS
  Threads = {t1, t2}
  MaxSize = 5
  Absent = absent
  Mixed = mixed
SYMMETRY Symmetric
INVARIANTS
  TypeOK
  CrashSafe
PROPERTIES
  SoloSaveLands
CHECK_DEADLOCK FALSE

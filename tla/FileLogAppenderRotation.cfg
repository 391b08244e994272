\* Two threads, a file moved away a directory missing and a disk full at
\* times.
SPECIFICATION Spec
CONSTANTS
  t1 = t1  t2 = t2  t3 = t3
  nobody = nobody
  Threads = {t1, t2}
  MaxTime = 6
  MaxFiles = 2
SYMMETRY ThreadSymmetry
INVARIANTS
  TypeOK
  StreamExclusive
  RotationNoticed
  OutageBounded

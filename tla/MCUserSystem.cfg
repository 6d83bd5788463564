\* An int8_t of four values; sessions up to twice its range.
SPECIFICATION Spec
CONSTANTS
  Users = {u1, u2, u3}
  Levels = {0, 1}
  Int8Max = 1
  MaxSession = 6
SYMMETRY Symmetric
INVARIANTS
  TypeOK
  RecognisedJustly
  LoginsCountWhileTheyFit
PROPERTY NobodyJoinsTheTop
CHECK_DEADLOCK FALSE

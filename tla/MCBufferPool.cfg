\* One guard more than frames: the callers can pin the whole pool.
SPECIFICATION Spec
CONSTANTS
  Frames = {f1, f2}
  Handles = {h1, h2, h3}
  Bodies = {zero, b1}
  Zero = zero
  MaxPageId = 2
  NoFrame = NoFrame
  NoPage = NoPage
  NoData = NoData
SYMMETRY Symmetric
INVARIANTS
  TypeOK
  BooksAgree
  NothingLost
  HangsOnlyWhenAllPinned
PROPERTY PagesPersist
CHECK_DEADLOCK FALSE

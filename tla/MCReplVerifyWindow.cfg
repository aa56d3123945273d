SPECIFICATION Spec
CONSTANTS
  Agreement = {a1, a2}
  Cause <- NoCause
  Proc = {p1}
  Explains <- AllExplain
  SubjectOf <- PeerSubjects
  PeerOf <- OnePeer
  Fixable = {}
  Window = 1
  MaxTime = 3
  SaveFails = FALSE
INVARIANTS
  WindowBounded
CHECK_DEADLOCK FALSE

SPECIFICATION Spec
CONSTANTS
  Agreement = {a1}
  Cause <- TwoPeer
  Proc = {p1}
  Explains <- AllExplain
  SubjectOf <- PeerSubjects
  PeerOf <- OnePeer
  Fixable = {"refuses"}
  Window = 1
  MaxTime = 3
  SaveFails = TRUE
INVARIANTS
  ResolvedMeansGone
  WindowBoundedAlone
  ExitZeroMeansRecovered
PROPERTIES
  FindingsKept
  ReferenceStands
CHECK_DEADLOCK FALSE

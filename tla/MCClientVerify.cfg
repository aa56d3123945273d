SPECIFICATION Spec
CONSTANTS
  p1 = p1
  p2 = p2
  Pid <- MCPid
  Hosts <- MCHosts
  Parts <- MCParts
  FewFaults <- MCFewFaults
  MaxFaults = 2
  MaxCommands <- MCMaxCommands
  None = None
  Damaged = Damaged
  Partial = Partial
SYMMETRY Symmetric
INVARIANTS HealthyIsEarned RelatedToAFailure VerdictsHonest ResolvedMeansGone
PROPERTIES BaselineHolds
CHECK_DEADLOCK FALSE

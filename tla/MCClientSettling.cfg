SPECIFICATION Spec
CONSTANTS
  p1 = p1
  p2 = p2
  Pid <- MCPid
  Hosts <- MCHosts
  Parts <- MCParts
  FewFaults <- MCFewFaults
  MaxFaults = 1
  MaxCommands <- MCMaxCommands
  None = None
  Damaged = Damaged
  Partial = Partial
INVARIANTS HealthyMeansLookedUp
CHECK_DEADLOCK FALSE

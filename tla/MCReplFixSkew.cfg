CONSTANTS
  Agreements <- MCAgreements
  Quiet <- MCQuiet
  MaxFindings = 2
  Deep = {"clock"}
  Servers <- MCServers
  MaxEntities = 16
  MAX_EVIDENCE_AGE = 2
  MaxSteps = 1

SPECIFICATION Spec
CHECK_DEADLOCK FALSE
INVARIANT Skew49

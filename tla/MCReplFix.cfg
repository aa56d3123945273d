CONSTANTS
  Agreements <- MCAgreements
  Quiet <- MCQuiet
  MaxFindings = 2
  Deep = {"clock", "keytab"}
  Servers <- MCServers
  MaxEntities = 16
  MAX_EVIDENCE_AGE = 2
  MaxSteps = 1

SPECIFICATION Spec
INVARIANTS
  ChainsSound
  CausesReported
  FailuresReported
  AbsenceIsReal
  HealthyMeansHealthy
  GraphHonest
  CutServers
  FixOfDownUnit
CHECK_DEADLOCK FALSE

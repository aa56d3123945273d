SPECIFICATION Spec
CONSTANTS
  Fault = {"service-down", "conflicts"}
  Crash = "check-failed"
  Fixable = {"service-down"}
  Collected = {"conflicts"}
  Tiers <- ServerTiers
INVARIANTS
  TypeOK
  ResolvedMeansGone
  ExitZeroMeansClean
  FixesKept
  RecordsHaveDiagnoses
PROPERTY VerifyForgetsNothing

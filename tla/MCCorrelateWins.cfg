CONSTANTS
  Reportable <- MCReportable
  Yieldable <- Item
  MaxEvidence = 3
  MaxGrouped = 1
SPECIFICATION Spec
INVARIANT DiagnosedWins
CHECK_DEADLOCK FALSE

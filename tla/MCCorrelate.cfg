CONSTANTS
  Reportable <- MCReportable
  Yieldable <- Item
  MaxEvidence = 3
  MaxGrouped = 1
SPECIFICATION Spec
INVARIANTS SymptomsGrounded RealProblemLeads FailuresShown StatusHonest
\* one report is the end
CHECK_DEADLOCK FALSE

SPECIFICATION FairSpec
CONSTANTS
  Step <- MCSteps
  Plan <- MCPlan
  Requires <- MCRequires
  Reads <- MCReads
  Gates <- MCGates
  Answers <- MCAnswers
  Stops <- MCStops
  SubjectStops <- MCSubjects
  Retries <- MCRetries
  Check <- MCCheck
  CheckKey <- Instance
  NeedsRoot = {"logs"}
  MaxSubject = 3
  IsRoot = FALSE
  MaxSteps = 4
  MaxSeconds = 1
  CheckTimeout = 2
INVARIANTS
  TypeOK
  NeverOnAGuess
  BudgetsHold
  OneAnswerPerQuestion
  TimeoutRetried
  NothingOmitted
  CompleteMeansAll
  SubjectIsolation
PROPERTIES
  StopIsFinal
  RecordsStand
  Termination
CHECK_DEADLOCK FALSE

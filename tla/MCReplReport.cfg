SPECIFICATION ReportSpec
CONSTANTS
  Step <- ReplSteps
  Plan <- ReplPlan
  Requires <- ReplRequires
  Reads <- ReplReads
  Gates <- ReplGates
  Answers <- ReplAnswers
  Stops <- ReplStops
  SubjectStops <- ReplSubjects
  Retries <- ReplRetries
  Check <- ReplCheck
  CheckKey <- Instance
  NeedsRoot = {"topology", "agreements", "principals", "gssapi"}
  MaxSubject = 2
  IsRoot = TRUE
  MaxSteps = 7
  MaxSeconds = 1
  CheckTimeout = 1
  LocalEssential = {"server", "local.ds", "topology", "agreements"}
  SubjectEssential = {"peer.rootdse", "gssapi"}
  LocalRoots = {"local.ds"}
  Server = "server"
  Agreements = "agreements"
  Reverse = "reverse"
  Principals = "principals"
  Topology = {"topology"}
  BindSteps = {"gssapi"}
INVARIANTS
  HealthyMeansVerified
CHECK_DEADLOCK FALSE

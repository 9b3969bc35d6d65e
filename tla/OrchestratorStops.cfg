SPECIFICATION Spec
CONSTANTS
  a = a
  b = b
  Target = Target
  IssueOrder <- TwoIssues
  DependsOn <- Independent
  MaxAttempts = 1
  Feedbacks <- OneCategory
  Untracked = {"tmp"}
  MaxExecutionsPerRun = 2
  Requests <- AnyRequest
  EngineDirt <- EngineLeavesEdits
  GateDirt <- GateLeavesFile
  IdleEngine = TRUE
  StopKinds <- AllStops
  MaxStops = 3
INVARIANTS IInv LogReplays MergesAreApproved MergedOnce EvidenceKept OneEngine

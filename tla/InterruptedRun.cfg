SPECIFICATION Spec
CONSTANTS
  a = a
  b = b
  Target = Target
  IssueOrder <- OneIssue
  DependsOn <- Independent
  MaxAttempts = 1
  Feedbacks <- OneCategory
  Untracked = {"tmp"}
  MaxExecutionsPerRun = 2
  Requests <- Legacy
  EngineDirt <- EngineLeavesEdits
  GateDirt <- GateLeavesNothing
  IdleEngine = FALSE
  StopKinds <- AllStops
  MaxStops = 1
INVARIANT OnlyApprovedOnTarget

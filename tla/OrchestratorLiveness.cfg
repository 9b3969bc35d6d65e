SPECIFICATION FairSpec
CONSTANTS
  a = a
  b = b
  Target = Target
  IssueOrder <- TwoIssues
  DependsOn <- Chained
  MaxAttempts = 2
  Feedbacks <- OneCategory
  Untracked = {"tmp"}
  MaxExecutionsPerRun = 2
  Requests <- Legacy
  EngineDirt <- EngineLeavesEdits
  GateDirt <- GateLeavesNothing
  IdleEngine = FALSE
  StopKinds <- BranchKillOnly
  MaxStops = 2
PROPERTIES  DeliverySpec

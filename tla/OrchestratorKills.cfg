SPECIFICATION Spec
CONSTANTS
  a = a
  b = b
  Target = Target
  IssueOrder <- TwoIssues
  DependsOn <- Independent
  MaxAttempts = 2
  Feedbacks <- OneCategory
  Untracked = {"tmp"}
  MaxExecutionsPerRun = 2
  Requests <- RunAll
  EngineDirt <- EngineLeavesEdits
  GateDirt <- GateLeavesFile
  IdleEngine = TRUE
  StopKinds <- BranchKillOnly
  MaxStops = 2
INVARIANTS OnlyApprovedOnTarget MergedTreeIsReviewedTree DoneIsMerged OneActiveIssue
PROPERTIES TargetMovesByMerge 

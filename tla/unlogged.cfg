SPECIFICATION MCSpec
CONSTANTS
  f1 = f1
  f2 = f2
  None = None
  Topics = {"dispatch"}
  Slices <- MCSlices
  NoSlice = "12"
  Refs = {f1, f2}
  Offered = {}
  Texts <- MCTexts
  Folds <- MCFolds
  RequiredFrom = 0
  MaxTime = 30
  MaxRecords = 7
  MaxEdits = 1
  Own = "07"
  ArcFiles = {"5", "9"}
  SrcFiles = {"a.ts", "b.ts"}
  Deltas <- MCDeltas
  Outcomes <- MCOutcomes
  Reports <- MCReports
  Threshold = 75
  MaxCommits = 3
  MaxRuns = 2
  MaxAttempts = 2
  Roles = {"architect", "implementer"}
  Window = 2
  Slack = 1
  MaxAgents = 2
  DependsOn <- MCDependsOn
  Minted = {f2}
  DesignDefined = {}
INVARIANT UnloggedDispatchFails
CHECK_DEADLOCK FALSE

SPECIFICATION MCSpec
CONSTANTS
  f1 = f1
  f2 = f2
  None = None
  Topics = {"obligations", "gate", "history", "tests", "mutation", "dispatch"}
  Slices <- MCSlices
  NoSlice = "12"
  Refs = {f1, f2}
  Offered <- MCOffered
  Texts <- MCTexts
  Folds <- MCFolds
  RequiredFrom = 0
  MaxTime = 30
  MaxRecords = 7
  MaxEdits = 1
  Own = "07"
  ArcFiles = {"5", "9"}
  SrcFiles = {"a.ts", "b.ts"}
  Deltas <- MCDeltas
  Outcomes <- MCOutcomes
  Reports <- MCReports
  Threshold = 75
  MaxCommits = 3
  MaxRuns = 2
  MaxAttempts = 2
  Roles = {"architect", "implementer"}
  Window = 2
  Slack = 1
  MaxAgents = 2
  DependsOn <- MCDependsOn
  Minted = {f2}
  DesignDefined = {}
INVARIANT TypeOK
INVARIANT SentIsSpokenOf
INVARIANT GreenCoversTheWork
INVARIANT RedCameFirst
INVARIANT HonestLogIsClean
INVARIANT LightGateIsEarned
PROPERTY UndeclaredEditStays
PROPERTY MutationPassIsWhole
CHECK_DEADLOCK FALSE

SPECIFICATION MCSpec
CONSTANTS
  Workloads = {w}
  MaxWindow = 2
  MaxMoves = 4
  MaxLosses = 1
  Targets = {i1, i2}
  MaxWindows = 2
  Horizon = 2
  Unreliable = {i1}
  MaxFaults = 1
  MaxChanges = 1
  MaxCommands = 3
  MaxDisk = 3
  Plans <- MCPlans
  BatchJobs = {"j1", "j2"}
  MaxPushes = 2
  MaxRuns = 3
  MaxDeploys = 2
  Collections <- MCCollections
  Reviewers <- MCReviewers
  Sweeper = "b"
  MaxFiles = 2
  FileRoom = 2
  ViewRoom = 5
  ChunkRoom = 2
  MaxChunks = 3
  SummaryRoom = 2
  Limit = 4
  MaxAssessed = 2
INVARIANTS
  PassesAreSound NoticesTellAStory CopiesAreVerified PlansAreTold
PROPERTIES
  PassesFinish ChangesAreTold AssessmentsAreSound RetiredDataIsGone
CHECK_DEADLOCK FALSE

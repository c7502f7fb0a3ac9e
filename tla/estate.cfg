SPECIFICATION MCSpec
CONSTANTS
  Tools = {"A", "B"}
  MaxScripts = 4
  MaxReboots = 1
  Corpus <- MCCorpus
  Strata <- MCStrata
  Models = {"m"}
  Replies <- MCReplies
  MaxBuilds = 2
  MaxKills = 1
  Slugs = {"a", "b"}
  MaxBoxes = 3
  MaxOwn = 2
  MaxRuns = 3
INVARIANTS
  BoxIsAsDeclared FairScores
PROPERTIES
  ControllerGetsReady RunBoxesAreTheirs
CHECK_DEADLOCK FALSE

\* Two phases, three process starts; two calls of any kind, of which a
\* rest may take all that is left; one iteration of at most two briefs and two stop
\* signals; the pages are bounded where MCRun instantiates them.
SPECIFICATION MCSpec
CONSTANTS
  Phases = 2
  MaxIterations <- MCMaxIterations
  Gated = {1}
  Paused = {1}
  Unreadable = {1}
  MaxLaunches = 3
  MaxRecords = 8
  Calls = {"c1", "c2"}
  MaxOutput = 2
  Total = 2
  MinRest = 1
  MaxRest = 2
  Asked = {0, 2}
  Briefs = {"b1", "b2"}
  MaxRounds = 1
  MaxStops = 2
INVARIANTS
  StateIsTrue ReportedFailureIsPrompted ToolsAreTrue
PROPERTIES
  ChannelSpec StopsAreTold NothingWaitsForEver
\* The bounded starts run out.
CHECK_DEADLOCK FALSE

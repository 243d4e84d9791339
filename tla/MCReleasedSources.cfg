\* The plan or the incoming local of a value handoff is released before a save.
SPECIFICATION ClosureSpec
CONSTANTS
  ChartKey = {k1}
  Programs <- MCReleases
INVARIANT SurvivesRelease
CHECK_DEADLOCK FALSE

\* A diamond whose operations are added one by one, and two runs.
SPECIFICATION Spec
CONSTANTS
  level = level  left = left  right = right  output = output
  Node = {level, left, right, output}
  Parents <- Diamond
  Axis = {1, 2}
  MaxDemand = 1
  Ask <- Asked
  Offer <- Offered
  Wanted <- Wished
  MaxRefinements = 2
  MaxRuns = 2
  None = None
INVARIANTS NothingStale ReturnMeets NoWastedBuild
PROPERTIES FloorsRise RunEnds
CHECK_DEADLOCK FALSE

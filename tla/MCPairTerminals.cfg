\* Finish overtakes the request that added the last tile.
SPECIFICATION StreamSpec
CONSTANTS
  Caller = {c1, c2, c3}
  Expected <- MCExpected
INVARIANT TerminalsKept
CHECK_DEADLOCK FALSE

\* Two states, pair contractions and streams that own a line between requests;
\* the large reservations of two-arm integration; or requests that solve,
\* match, march one arm and read its results.  What a closed session still
\* owes comes back (liveness).
SPECIFICATION MCSpec
CONSTANTS
  Call = {c1, c2}
  Ops = {}
  Local = 7  Match = 2  Endpoint = 1  Tile = 1  State = 2  Line = 3
  Capacity <- MCCapacity
  Reused = 0
  MaxHandle <- MCMaxHandle
  MaxBatch = 2
INVARIANTS Accounting StateCapacity ClosedIsEmpty SharedCapacity
PROPERTIES DrainsAfterClose
CHECK_DEADLOCK FALSE

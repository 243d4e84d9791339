\* A request of any kind, and a save of its session and of one of another precision;
\* or three overlapping preparations of charts, composites or equations.
SPECIFICATION MCSpec
CONSTANTS
  c1 = c1  c2 = c2  saver = saver
  Caller = {c1, c2, saver}
  Crew = 2
  Task = 3
  SessionOf <- Sessions
  Kinds <- Mixed
  Thread <- Threads
  Bits <- Precisions
  NoBits = 0
  None = None
  k1 = k1  k2 = k2  s1 = s1  s2 = s2
  Client = {c1, c2, saver}
  Key = {k1, k2}
  Sign = {s1, s2}
  Asks <- Asked
  Room = 1
  Absent = Absent
INVARIANTS OnePrecision NothingLeft EveryTaskOnce LowestFailure KeyMeansObject LateGuards
PROPERTIES PoolRequestsEnd
CHECK_DEADLOCK FALSE

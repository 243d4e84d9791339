\* The plan of an arm; requests that add, finish, abort and close around a stream; and threads
\* that ask a cache for keys whose dependencies end, where no call may be refused as
\* cyclic.
SPECIFICATION MCSpec
CONSTANTS
  ka = ka  kb = kb  kc = kc
  Thread = {t1, t2}
  Key = {ka, kb}
  Deps <- Chained
  Contract = {x, y}
  Build = {b1, b2, b3, b4}
  Nobody = Nobody
  Caller = {c1, c2, c3}
  Expected <- MCExpected
  Requests <- MCRequests
INVARIANTS RefusalsReal EveryTileOnce OneEnding PlanStands
PROPERTIES ImplementsTable CallsEnd ReservationReturns
CHECK_DEADLOCK FALSE

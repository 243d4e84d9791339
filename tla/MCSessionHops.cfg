\* Saves, crashes and restores among requests that reserve what they publish;
\* and hops and marches that spend their bases, value hops that do not, and
\* folds into states.
SPECIFICATION MCSpec
CONSTANTS
  Call = {c1, c2}
  Ops = {"prepare", "local.solve", "local.release", "tile.plan",
         "transport.run_arms", "transport.contract_pair_rolling_stream_begin",
         "transport.contract_pair_stream_abort", "session.close", "reset",
         "checkpoint.save"}
  Local = 2  State = 2  Line = 1
  Capacity <- MCCapacity
  Reused = 1
  MaxHandle <- MCMaxHandle
  MaxBatch = 1
  MaxGeneration = 2
  NoImage = NoImage
SYMMETRY Symmetry
INVARIANTS LocalCapacity ConsumedOnce ImageRestorable Ledger
PROPERTIES QuiescentImage
CHECK_DEADLOCK FALSE

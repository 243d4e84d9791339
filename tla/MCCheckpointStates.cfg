\* Two consuming marches promise the same room for states.
SPECIFICATION CheckpointSpec
CONSTANTS
  Call = {c1, c2}
  Ops = {"prepare", "local.solve", "tile.plan", "transport.run_arms_consuming",
         "checkpoint.save"}
  Local = 1  State = 2  Line = 0
  Capacity <- MCCapacity
  Reused = 2
  MaxHandle <- MCMaxHandle
  MaxBatch = 0
  MaxGeneration = 1
  NoImage = NoImage
INVARIANT ImageRestorable
CHECK_DEADLOCK FALSE

-------------------------- MODULE MCSessionCheckpoint --------------------------
(* SessionCheckpoint on small instances.                                       *)
EXTENDS SessionCheckpoint, TLC

CONSTANTS
  Local, State, Line,   \* capacities
  Reused                \* handles issued beyond them

MCCapacity == [k \in Kind |->
  CASE k = "local" -> Local [] k = "state" -> State [] k = "line" -> Line
    [] k = "tile" -> 1 [] k \in {"match", "endpoint"} -> 0]

MCMaxHandle == [k \in Kind |-> MCCapacity[k] + (IF MCCapacity[k] > 0 THEN Reused ELSE 0)]

Symmetry == Permutations(Call)
==============================================================================

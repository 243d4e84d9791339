--------------------------- MODULE MCSolverSession ---------------------------
(* SolverSession on small instances: which operations the clients use, and *)
(* how much room each registry has, in the configurations.                 *)
EXTENDS SolverSession, TLC

CONSTANTS
  Local, Match, Endpoint, Tile, State, Line,  \* capacities
  Reused                                      \* handles issued beyond them

MCCapacity == [k \in Kind |->
  CASE k = "local" -> Local [] k = "match" -> Match [] k = "endpoint" -> Endpoint
    [] k = "tile" -> Tile [] k = "state" -> State [] k = "line" -> Line]

MCMaxHandle == [k \in Kind |-> MCCapacity[k] + (IF MCCapacity[k] > 0 THEN Reused ELSE 0)]

(* In the run of hops, which register locals far more often than the rest. *)
MCHopHandle == [k \in Kind |->
  IF k = "local" THEN MCMaxHandle[k] ELSE MCCapacity[k] + (IF MCCapacity[k] > 0 THEN 1 ELSE 0)]

Symmetry == Permutations(Call)
==============================================================================

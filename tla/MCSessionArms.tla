----------------------------- MODULE MCSessionArms ---------------------------
(* Three sessions that differ in their requests: one keeps states and        *)
(* streams, one integrates over two arms, and one solves, matches, marches   *)
(* one arm and reads its results.  A behaviour is of one of them.  Capacity  *)
(* is the most room any of them has; each kind is at its limit in one.       *)
EXTENDS MCSolverSession

StreamOps == {"prepare", "local.solve", "tile.plan", "tile.plan_arm", "tile.release",
              "integration.line", "transport.run_arms", "transport.contract",
              "transport.release", "transport.contract_pair",
              "transport.contract_pair_rolling_stream_begin",
              "transport.contract_pair_stream_begin",
              "transport.contract_pair_stream_abort",
              "transport.contract_pair_stream_finish",
              "integration.release", "session.close"}

StreamCapacity == [k \in Kind |->
  CASE k \in {"state", "line"} -> 2 [] k \in {"local", "tile"} -> 1 [] OTHER -> 0]

Streams == INSTANCE SolverSession
             WITH Ops <- StreamOps, Capacity <- StreamCapacity, MaxBatch <- 2,
                  MaxHandle <- [k \in Kind |->
                    IF StreamCapacity[k] = 0 THEN 0 ELSE StreamCapacity[k] + 2]

(* Requests of the second: each reserves matches, locals and three lines.    *)
ArmOps == {"prepare", "local.solve", "tile.plan", "integration.run_arms",
           "integration.run_one_tile_arms", "local.release", "session.close"}

ArmCapacity == [k \in Kind |->
  CASE k = "local" -> 7 [] k = "match" -> 2 [] k = "line" -> 3 [] k = "tile" -> 1 [] OTHER -> 0]

Arms == INSTANCE SolverSession
          WITH Ops <- ArmOps, Capacity <- ArmCapacity, MaxBatch <- 1,
               MaxHandle <- [k \in Kind |-> IF k = "local" THEN 8 ELSE ArmCapacity[k]]

(* Requests of the third.                                                    *)
ResultOps == {"prepare", "prepared.release", "scc.solve_column", "local.solve",
              "scc.solve_columns", "local.solve_batch", "local.release",
              "local.specialize_rational_shadow", "local.apply_rational_row",
              "match.materialize_local", "local.match", "local.match_acb",
              "match.release", "tile.plan", "transport.run_arm",
              "transport.run_one_tile_arm", "tile.match_advance",
              "local.endpoint_limit", "tile.endpoint_limit", "transport.endpoint_batch",
              "transport.release", "endpoint.release", "session.close", "reset"}

ResultCapacity == [k \in Kind |->
  CASE k = "local" -> 2 [] k \in {"match", "endpoint", "tile", "state"} -> 1 [] OTHER -> 0]

Results == INSTANCE SolverSession
             WITH Ops <- ResultOps, Capacity <- ResultCapacity, MaxBatch <- 2,
                  MaxHandle <- [k \in Kind |->
                    ResultCapacity[k] + (IF k \in {"local", "tile"} THEN 1 ELSE 0)]

VARIABLE session

MCInit == Init /\ session \in {"streams", "arms", "results"}

MCNext ==
  \/ session = "streams" /\ Streams!Next /\ UNCHANGED session
  \/ session = "arms" /\ Arms!Next /\ UNCHANGED session
  \/ session = "results" /\ Results!Next /\ UNCHANGED session

MCAdvance(c) ==
  \/ session = "streams" /\ Streams!Advance(c) /\ UNCHANGED session
  \/ session = "arms" /\ Arms!Advance(c) /\ UNCHANGED session
  \/ session = "results" /\ Results!Advance(c) /\ UNCHANGED session

MCSpec ==
  MCInit /\ [][MCNext]_<<vars, session>> /\ \A c \in Call : WF_<<vars, session>>(MCAdvance(c))
==============================================================================

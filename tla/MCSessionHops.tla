----------------------------- MODULE MCSessionHops ---------------------------
(* Two sessions that differ in their requests: the one saves, crashes and    *)
(* restores among requests that reserve what they publish; the other spends  *)
(* bases in hops and marches and folds the rest into states.  A behaviour is *)
(* of one of them.                                                           *)
EXTENDS MCSessionCheckpoint

HopOps == {"prepare", "local.solve", "tile.plan", "local.release",
           "transport.consume_hop", "transport.consume_value_hop",
           "transport.consume_physical_value_hop",
           "transport.publish_consumed_states", "transport.run_arms_consuming",
           "session.close"}

HopCapacity == [MCCapacity EXCEPT !["match"] = 1, !["line"] = 0]

Hops == INSTANCE SolverSession
          WITH Ops <- HopOps, Capacity <- HopCapacity, MaxBatch <- 2,
               MaxHandle <- [k \in Kind |->
                 CASE k = "local" -> 4 [] k = "match" -> 2 [] k = "tile" -> 2
                   [] k = "state" -> 3 [] OTHER -> 0]

VARIABLE session

MCInit == CheckpointInit /\ session \in {"files", "hops"}

MCNext ==
  \/ session = "files" /\ CheckpointNext /\ UNCHANGED session
  \/ session = "hops" /\ Hops!Next /\ UNCHANGED <<disk, generation, session>>

MCSpec == MCInit /\ [][MCNext]_<<allVars, session>>
==============================================================================

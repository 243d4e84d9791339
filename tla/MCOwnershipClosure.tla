------------------------- MODULE MCOwnershipClosure -------------------------
(* What the clients of OwnershipClosure do, each in a small session.        *)
EXTENDS OwnershipClosure, TLC

Client(ops, keeps, made) == [ops |-> ops, keeps |-> keeps, made |-> made]

(* Keys taken again; rows and matches of values; hops whose bases are spent *)
(* by a state, shared with a match that stays, or held by a handoff; and    *)
(* arms published as one state, with the results taken from it.             *)
MCPrograms ==
  {Client({"chart.prepare", "tile.plan", "scc.solve_columns", "local.endpoint_limit"}, {}, 7),
   Client({"local.solve", "local.match", "local.apply_rational_row", "local.endpoint_limit"}, {}, 7),
   Client({"scc.solve_columns", "tile.match_advance", "transport.consume_hop",
           "transport.publish_consumed_state"}, {"chart", "scc", "tile"}, 9),
   Client({"tile.match_advance", "match.materialize_local", "transport.consume_value_hop",
           "transport.publish_consumed_state"}, {}, 8),
   Client({"local.solve", "transport.run_arm", "transport.contract"}, {}, 9)}

(* A client that hands a value over and releases what it came from.         *)
MCReleases == {Client({"transport.consume_value_hop", "transport.publish_consumed_state"}, {}, 8)}
==============================================================================

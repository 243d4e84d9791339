------------------------------- MODULE MCArmWork -------------------------------
(* Work of one arm on small instances: its plan, the tiles of its stream, and *)
(* the cache its builders share.  A behaviour is of one of the three.         *)
EXTENDS MCRecursiveCache, MCPairStream, MCPathPlanner

VARIABLE subject

armVars == <<vars, streamVars, planVars, subject>>

SomeArms == CHOOSE a \in Requests : TRUE

MCInit ==
  /\ subject \in {"plan", "cache", "stream"}
  /\ subject # "plan" => arms = SomeArms
  /\ Init /\ StreamInit /\ PlanInit

InCache(t) == subject = "cache" /\ Call(t) /\ UNCHANGED <<streamVars, planVars, subject>>

InStream(c) == subject = "stream" /\ Advance(c) /\ UNCHANGED <<vars, planVars, subject>>

MCNext ==
  \/ subject = "plan" /\ PlanTiles /\ UNCHANGED <<vars, streamVars, subject>>
  \/ subject = "cache" /\ Next /\ UNCHANGED <<streamVars, planVars, subject>>
  \/ subject = "stream" /\ StreamNext /\ UNCHANGED <<vars, planVars, subject>>

MCSpec ==
  /\ MCInit /\ [][MCNext]_armVars
  /\ \A t \in Thread : WF_armVars(InCache(t))
  /\ \A c \in Caller : WF_armVars(InStream(c))
==============================================================================

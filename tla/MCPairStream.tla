----------------------------- MODULE MCPairStream -----------------------------
(* PairStream with two tiles on the lower arm and one on the upper arm.       *)
EXTENDS PairStream, TLC

MCExpected == <<2, 1>>
==============================================================================

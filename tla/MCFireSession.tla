---------------------------- MODULE MCFireSession ----------------------------
(* FireSession with two processes: one extends the demand it completed, the *)
(* other starts with the larger one.                                        *)
EXTENDS FireSession, TLC

CONSTANTS fp, fq, fi, fj

MCDemand == {{fi}, {fi, fj}}
MCWants  == (fp :> MCDemand) @@ (fq :> {{fi, fj}})
==============================================================================

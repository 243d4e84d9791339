----------------------------- MODULE MCWorkerPools ----------------------------
(* WorkerPools for two sessions of different precision, both saved, the      *)
(* first also running a request of any kind; or PreparedCaches for three      *)
(* requests to one session.  The scenario says which of the two runs.         *)
EXTENDS WorkerPools, PreparedCaches, TLC

CONSTANTS c1, c2, saver

Threads == AllThreads
Sessions == (c1 :> 1) @@ (saver :> 1) @@ (c2 :> 2)
Precisions == [t \in AllThreads |-> 64 * Sessions[t[1]]]
Every == DOMAIN Trait \ {"save"}
Mixed == (c1 :> Every) @@ (saver :> {"save"}) @@ (c2 :> {"save"})

CONSTANTS k1, k2, s1, s2

(* Three requests of one kind, or one for a chart and two for composites of  *)
(* it; the first asks for k1 and s1, the third signs as the first.           *)
Asked ==
  {f \in [{c1, c2, saver} -> [kind : CacheKind, key : {k1, k2}, sign : {s1, s2}]] :
     /\ f[c1].key = k1 /\ f[c1].sign = s1 /\ f[saver].sign = s1
     /\ f[c2].kind = f[saver].kind
     /\ f[c1].kind = IF f[c2].kind = "scc" THEN "chart" ELSE f[c2].kind}

VARIABLE scenario

MCInit == scenario \in {"pools", "caches"} /\ Init /\ CacheInit
          /\ (scenario = "pools" => call = CHOOSE f \in Asked : TRUE)
          /\ (scenario = "caches" => kind = [c \in Caller |-> CHOOSE k \in Kinds[c] : TRUE]
                                     /\ bad = [c \in Caller |-> {}])

MCNext ==
  \/ scenario = "pools" /\ Next /\ UNCHANGED <<cacheVars, scenario>>
  \/ scenario = "caches" /\ CacheNext /\ UNCHANGED <<vars, scenario>>

MCSpec == MCInit /\ [][MCNext]_<<vars, cacheVars, scenario>> /\ WF_<<vars, cacheVars, scenario>>(MCNext)

PoolRequestsEnd == scenario = "pools" => RequestsEnd
===============================================================================

------------------------------- MODULE Executor -------------------------------
(***************************************************************************)
(* Executor: runs a target operation for a resource demand.  obtain        *)
(* reuses an artifact whose guarantee dominates the demand and the floor   *)
(* of the node, or obtains the parents and builds a new one.  A builder    *)
(* that finds a guarantee too weak throws a Refinement of some node: its   *)
(* floor rises, what was derived from it is forgotten, and the run starts  *)
(* again, at most max_refinements times.                                   *)
(*                                                                         *)
(* One thread runs; the call stack of obtain is explicit.  An artifact is  *)
(* its guarantee and those of the parents it was built from.  The five     *)
(* parts of a Demand are axes on which more is better (epsilon_low counts  *)
(* downwards).  Events and build counts are left out.                      *)
(***************************************************************************)
EXTENDS Integers, FiniteSets, Sequences

CONSTANTS
  Node,            \* operation nodes
  Parents,         \* the dependencies of each node, in order
  Axis,            \* parts of a demand
  MaxDemand,       \* bound on each part
  Ask,             \* Ask[n, m][d]: what n asks of m to meet d
  Offer,           \* Offer[n][d]: the guarantees the builder of n may reach
  Wanted,          \* what callers run: nodes with demands
  MaxRefinements,  \* max_refinements
  MaxRuns,         \* bound on the runs
  None             \* no demand, no goal

VARIABLES
  nodes,    \* nodes_: nodes added so far
  cache,    \* cache_: artifacts eligible for reuse, oldest first
  floors,   \* floors_
  last,     \* last_demand_
  stack,    \* calls of obtain, innermost first
  goal,     \* what the current run, or the last one, was asked for
  attempt,  \* refinements of the current run
  result,   \* what the last run returned, if it did
  runs      \* runs begun, at most MaxRuns

vars == <<nodes, cache, floors, last, stack, goal, attempt, result, runs>>

Demand == [Axis -> 0..MaxDemand]

ASSUME BoundsAssumption ==
  MaxDemand \in Nat /\ MaxRefinements \in Nat /\ MaxRuns \in Nat
ASSUME NoneAssumption == None \notin Demand \cup [node : Node, demand : Demand]
ASSUME ParentsAssumption == Parents \in [Node -> Seq(Node)]
ASSUME AskAssumption == Ask \in [Node \X Node -> [Demand -> Demand]]
ASSUME WantedAssumption == Wanted \subseteq Node \X Demand
ASSUME OfferAssumption == Offer \in [Node -> [Demand -> SUBSET Demand]]

Dominates(a, b) == \A x \in Axis : a[x] >= b[x]
Joined(a, b)    == [x \in Axis |-> IF a[x] >= b[x] THEN a[x] ELSE b[x]]

(* The demand on a node with its floor.                                    *)
Raised(n, d) == IF floors[n] = None THEN d ELSE Joined(d, floors[n])

Init ==
  /\ nodes = {}
  /\ cache = [n \in Node |-> <<>>]
  /\ floors = [n \in Node |-> None]
  /\ last = [n \in Node |-> None]
  /\ stack = <<>>
  /\ goal = None
  /\ attempt = 0
  /\ result = None
  /\ runs = 0

------------------------------------------------------------------------------
(* The graph.  Sets that the code collects step by step are the smallest   *)
(* ones with the same closure.                                             *)
ParentsOf(n) == {Parents[n][i] : i \in 1..Len(Parents[n])}

(* What a node is built from, itself included.                             *)
Closure ==
  [n \in Node |->
     {m \in Node : \A S \in SUBSET Node :
        n \in S /\ (\A k \in S : ParentsOf(k) \subseteq S) => m \in S}]

(* Mutant: one generation of descendants.                                  *)
DescendantsChildren(m) == {n \in nodes \ {m} : m \in ParentsOf(n)}

Descendants(m) ==
  {n \in nodes \ {m} : \A S \in SUBSET Node :
     m \in S /\ (\A k \in nodes : ParentsOf(k) \cap S # {} => k \in S) => n \in S}

(* validate_graph: every node that is reached is known, and none is its own *)
(* ancestor.                                                               *)
Valid(t) ==
  /\ Closure[t] \subseteq nodes
  /\ \A n \in Closure[t] : \A m \in ParentsOf(n) : n \notin Closure[m]

------------------------------------------------------------------------------
Running == stack # <<>>
Top     == Head(stack)

Frame(n, d) == [node |-> n, demand |-> d, at |-> "called", parents |-> <<>>]

Add(n) ==
  /\ ~Running /\ n \notin nodes
  /\ nodes' = nodes \cup {n}
  /\ UNCHANGED <<cache, floors, last, stack, goal, attempt, result, runs>>

(* run                                                                     *)
Run(t, d) ==
  /\ ~Running /\ runs < MaxRuns
  /\ runs' = runs + 1
  /\ goal' = [node |-> t, demand |-> d]
  /\ attempt' = 0
  /\ result' = None
  /\ IF Valid(t) THEN stack' = <<Frame(t, d)>> ELSE UNCHANGED stack
  /\ UNCHANGED <<nodes, cache, floors, last>>

(* obtain hands an artifact to its caller.                                 *)
Return(a) ==
  IF Len(stack) = 1
  THEN stack' = <<>> /\ result' = a.guarantee
  ELSE /\ LET caller == stack[2]
          IN  stack' = <<[caller EXCEPT !.parents = Append(caller.parents, a.guarantee)]>>
                         \o SubSeq(stack, 3, Len(stack))
       /\ UNCHANGED result

(* The exception leaves run.                                               *)
Raise == stack' = <<>> /\ UNCHANGED result

(* Mutant: only an artifact of exactly that guarantee is reused.           *)
EligibleExact(n, d) == {i \in 1..Len(cache[n]) : cache[n][i].guarantee = d}

Eligible(n, d) == {i \in 1..Len(cache[n]) : Dominates(cache[n][i].guarantee, d)}

(* Mutant: the floor is not joined.                                        *)
EnterBare ==
  /\ Running /\ Top.at = "called"
  /\ LET n == Top.node
         d == Top.demand
     IN  /\ last' = [last EXCEPT ![n] = d]
         /\ \/ \E i \in Eligible(n, d) :
                 (\A j \in Eligible(n, d) : i <= j) /\ Return(cache[n][i])
            \/ /\ Eligible(n, d) = {}
               /\ stack' = <<[Top EXCEPT !.at = "asking", !.demand = d]>> \o Tail(stack)
               /\ UNCHANGED result
  /\ UNCHANGED <<nodes, cache, floors, goal, attempt, runs>>

(* Mutant: the demand is recorded before the floor is joined.              *)
EnterLastBare ==
  /\ Running /\ Top.at = "called"
  /\ LET n == Top.node
         d == Raised(n, Top.demand)
     IN  /\ last' = [last EXCEPT ![n] = Top.demand]
         /\ \/ \E i \in Eligible(n, d) :
                 (\A j \in Eligible(n, d) : i <= j) /\ Return(cache[n][i])
            \/ /\ Eligible(n, d) = {}
               /\ stack' = <<[Top EXCEPT !.at = "asking", !.demand = d]>> \o Tail(stack)
               /\ UNCHANGED result
  /\ UNCHANGED <<nodes, cache, floors, goal, attempt, runs>>

(* obtain, up to the first parent.                                         *)
Enter ==
  /\ Running /\ Top.at = "called"
  /\ LET n == Top.node
         d == Raised(n, Top.demand)
     IN  /\ last' = [last EXCEPT ![n] = d]
         /\ \/ \E i \in Eligible(n, d) :
                 (\A j \in Eligible(n, d) : i <= j) /\ Return(cache[n][i])
            \/ /\ Eligible(n, d) = {}
               /\ stack' = <<[Top EXCEPT !.at = "asking", !.demand = d]>> \o Tail(stack)
               /\ UNCHANGED result
  /\ UNCHANGED <<nodes, cache, floors, goal, attempt, runs>>

Asking(n) == Running /\ Top.at = "asking" /\ Top.node = n

ObtainParent ==
  /\ Running /\ Top.at = "asking"
  /\ Len(Top.parents) < Len(Parents[Top.node])
  /\ LET m == Parents[Top.node][Len(Top.parents) + 1]
     IN  stack' = <<Frame(m, Ask[Top.node, m][Top.demand])>> \o stack
  /\ UNCHANGED <<nodes, cache, floors, last, goal, attempt, result, runs>>

Building == Running /\ Top.at = "asking" /\ Len(Top.parents) = Len(Parents[Top.node])

Built(g) ==
  /\ Building /\ g \in Offer[Top.node][Top.demand] /\ Dominates(g, Top.demand)
  /\ LET a == [guarantee |-> g, parents |-> Top.parents]
     IN  /\ cache' = [cache EXCEPT ![Top.node] = Append(@, a)]
         /\ Return(a)
  /\ UNCHANGED <<nodes, floors, last, goal, attempt, runs>>

(* A callback throws: what asks for a parent, or the builder.  Its demand or *)
(* artifact may be refused: invalid, too weak, or of another identity.      *)
Throws ==
  /\ Running /\ Top.at = "asking" /\ Raise
  /\ UNCHANGED <<nodes, cache, floors, last, goal, attempt, runs>>

(* The builder throws a Refinement, which run catches.                     *)
Refusable(m, needed) ==
  \/ attempt >= MaxRefinements
  \/ m \notin Closure[goal.node]
  \/ last[m] # None => Joined(last[m], needed) = last[m]

RefineRefused(m, needed) ==
  /\ Building /\ Refusable(m, needed) /\ Raise
  /\ UNCHANGED <<nodes, cache, floors, last, goal, attempt, runs>>

(* Mutant: the attempts are not counted.                                   *)
RefineUncounted(m, needed) ==
  /\ Building /\ ~Refusable(m, needed)
  /\ floors' = [floors EXCEPT ![m] = Joined(last[m], needed)]
  /\ LET affected == Descendants(m)
     IN  cache' = [n \in Node |-> IF n \in affected THEN <<>> ELSE cache[n]]
  /\ stack' = <<Frame(goal.node, goal.demand)>>
  /\ UNCHANGED <<nodes, last, goal, attempt, result, runs>>

Refine(m, needed) ==
  /\ Building /\ ~Refusable(m, needed)
  /\ floors' = [floors EXCEPT ![m] = Joined(last[m], needed)]
  /\ LET affected == Descendants(m)
     IN  cache' = [n \in Node |-> IF n \in affected THEN <<>> ELSE cache[n]]
  /\ attempt' = attempt + 1
  /\ stack' = <<Frame(goal.node, goal.demand)>>
  /\ UNCHANGED <<nodes, last, goal, result, runs>>

Step ==
  \/ Enter \/ ObtainParent \/ Throws
  \/ \E g \in Demand : Built(g)
  \/ \E m \in Node, needed \in Demand : RefineRefused(m, needed) \/ Refine(m, needed)

Next ==
  \/ Step
  \/ \E n \in Node : Add(n)
  \/ \E w \in Wanted : Run(w[1], w[2])

(* The thread that runs goes on, and builders end.                         *)
Spec == Init /\ [][Next]_vars /\ WF_vars(Step)

------------------------------------------------------------------------------
(* Properties.                                                             *)

Artifact == [guarantee : Demand, parents : Seq(Demand)]

FrameRecord ==
  [node : Node, demand : Demand, at : {"called", "asking"}, parents : Seq(Demand)]

(* Every variable has its type, and every artifact was built from the      *)
(* parents of its node.                                                    *)
TypeOK ==
  /\ nodes \subseteq Node
  /\ cache \in [Node -> Seq(Artifact)]
  /\ floors \in [Node -> Demand \cup {None}]
  /\ last \in [Node -> Demand \cup {None}]
  /\ stack \in Seq(FrameRecord)
  /\ goal \in [node : Node, demand : Demand] \cup {None}
  /\ attempt \in 0..MaxRefinements
  /\ result \in Demand \cup {None}
  /\ runs \in 0..MaxRuns
  /\ \A n \in Node : \A i \in 1..Len(cache[n]) :
       Len(cache[n][i].parents) = Len(Parents[n])

(* What may be reused was built over artifacts that are themselves still   *)
(* eligible and that meet the floor of their node: no refinement leaves    *)
(* anything derived, at any distance, from what it found too weak.         *)
NothingStale ==
  \A n \in Node : \A i \in 1..Len(cache[n]) : \A j \in 1..Len(Parents[n]) :
    LET m == Parents[n][j]
        g == cache[n][i].parents[j]
    IN  /\ \E k \in 1..Len(cache[m]) : cache[m][k].guarantee = g
        /\ floors[m] # None => Dominates(g, floors[m])

(* What a run returns meets what was asked and the floor its target has by *)
(* then, also when the floor rose while it ran.                            *)
ReturnMeets ==
  result # None => Dominates(result, Raised(goal.node, goal.demand))

(* No artifact was built while an earlier one would do, though the cache is *)
(* tested before the parents are obtained and extended after.              *)
NoWastedBuild ==
  \A n \in Node : \A i, j \in 1..Len(cache[n]) :
    i < j => ~Dominates(cache[n][i].guarantee, cache[n][j].guarantee)

(* A floor never falls when the node that asks for the refinement is built *)
(* from the one it names: last_demand_, which may date from another attempt *)
(* or run, is never older than the floor there.                            *)
FloorsRise ==
  [][\A m \in Node :
       Running /\ m \in Closure[Top.node] /\ floors[m] # None
         => Dominates(floors'[m], floors[m])]_vars

(* Every run ends.                                                         *)
RunEnds == Running ~> ~Running
===============================================================================

------------------------------- MODULE SccGraph -------------------------------
(***************************************************************************)
(* The certificate of a block triangular system: its strongly connected    *)
(* components in the order of their blocks, the edges between blocks, a    *)
(* topological order of the blocks, and the length of the longest chain    *)
(* of couplings.  A client submits it; validate_scc_certificate derives    *)
(* each part again from the structural edges and refuses what differs.     *)
(*                                                                         *)
(* Vertices are 1..dim, blocks positions of the component sequence.        *)
(***************************************************************************)
EXTENDS Integers, FiniteSets, Sequences, Functions

VerticesOf(dim) == 1..dim

(* The depth-first passes.  The calls of visit, and of collect, that have  *)
(* not returned are a stack; order has the vertices whose call returned;   *)
(* trees has, for each call that the loop over the roots made, what it     *)
(* marked as seen.                                                         *)
Start == [stack |-> <<>>, order |-> <<>>, trees |-> <<>>]

Seen(walk)            == UNION Range(walk.trees)
Successors(v, edges)  == {e[2] : e \in {e \in edges : e[1] = v}}
Ahead(walk, edges)    == Successors(walk.stack[Len(walk.stack)], edges) \ Seen(walk)
Unvisited(walk, roots) == {i \in 1..Len(roots) : roots[i] \notin Seen(walk)}
Smallest(S)           == CHOOSE v \in S : \A w \in S : v <= w

(* Call the first unseen root, or an unseen successor (the first in the    *)
(* order of vertices; a client may list them in any), or return.           *)
Visit(walk, v) ==
  [stack |-> <<v>>, order |-> walk.order, trees |-> Append(walk.trees, {v})]

Descend(walk, v) ==
  [stack |-> Append(walk.stack, v), order |-> walk.order,
   trees |-> [walk.trees EXCEPT ![Len(walk.trees)] = @ \cup {v}]]

Return(walk) ==
  LET last == Len(walk.stack)
  IN  [stack |-> SubSeq(walk.stack, 1, last - 1), order |-> Append(walk.order, walk.stack[last]),
       trees |-> walk.trees]

Onward(walk, roots, edges) ==
  IF walk.stack = <<>>
  THEN IF Unvisited(walk, roots) = {} THEN walk
       ELSE Visit(walk, roots[Smallest(Unvisited(walk, roots))])
  ELSE IF Ahead(walk, edges) # {} THEN Descend(walk, Smallest(Ahead(walk, edges)))
       ELSE Return(walk)

(* Each vertex is called once and returns once.                            *)
Walks(roots, edges) ==
  LET walks[n \in 0..(2 * Len(roots))] ==
        IF n = 0 THEN Start ELSE Onward(walks[n - 1], roots, edges)
  IN  walks

Pass(roots, edges) == Walks(roots, edges)[2 * Len(roots)]

FinishOrder(dim, edges) == Pass([v \in VerticesOf(dim) |-> v], edges).order

Reversed(edges) == {<<e[2], e[1]>> : e \in edges}
Backwards(s)    == [i \in 1..Len(s) |-> s[Len(s) + 1 - i]]

(* The second pass: in reverse finishing order, what the reversed edges    *)
(* reach and no earlier component took is one component.                   *)
DerivedComponents(dim, edges) ==
  Range(Pass(Backwards(FinishOrder(dim, edges)), Reversed(edges)).trees)

------------------------------------------------------------------------------
BlockOf(components, v) == CHOOSE i \in 1..Len(components) : v \in components[i]

DerivedCondensation(components, edges) ==
  {p \in {<<BlockOf(components, e[1]), BlockOf(components, e[2])>> : e \in edges} :
     p[1] # p[2]}

Partitions(components, dim) ==
  /\ components # <<>> /\ \A i \in 1..Len(components) : components[i] # {}
  /\ \A i, j \in 1..Len(components) : i # j => components[i] \cap components[j] = {}
  /\ UNION {components[i] : i \in 1..Len(components)} = VerticesOf(dim)

Position(order, b) == CHOOSE i \in 1..Len(order) : order[i] = b

(* Every block once, and no edge from a later block to an earlier one.     *)
Topological(order, blocks, condensation) ==
  /\ Len(order) = blocks /\ {order[i] : i \in 1..Len(order)} = 1..blocks
  /\ \A e \in condensation : Position(order, e[1]) < Position(order, e[2])

(* Depths are pushed along the edges, block after block in the order.      *)
Pushed(depth, b, condensation) ==
  [t \in DOMAIN depth |->
     IF <<b, t>> \in condensation /\ depth[t] < depth[b] + 1 THEN depth[b] + 1 ELSE depth[t]]

Depths(order, condensation) ==
  LET depths[k \in 0..Len(order)] ==
        IF k = 0 THEN [b \in 1..Len(order) |-> 0]
        ELSE Pushed(depths[k - 1], order[k], condensation)
  IN  depths

CouplingDepth(order, condensation) ==
  LET depth == Depths(order, condensation)[Len(order)]
  IN  CHOOSE d \in Range(depth) : \A b \in DOMAIN depth : depth[b] <= d

Accepts(c, dim, edges) ==
  /\ edges \subseteq VerticesOf(dim) \X VerticesOf(dim)
  /\ Partitions(c.components, dim)
  /\ Range(c.components) = DerivedComponents(dim, edges)
  /\ c.condensation = DerivedCondensation(c.components, edges)
  /\ Topological(c.order, Len(c.components), c.condensation)
  /\ c.depth = CouplingDepth(c.order, c.condensation)

------------------------------------------------------------------------------
(* Reference definitions.                                                  *)

(* What every set that has v and is closed under the edges has.            *)
Closed(S, edges) == \A e \in edges : e[1] \in S => e[2] \in S

Reach(v, dim, edges) ==
  {w \in VerticesOf(dim) :
     \A S \in SUBSET VerticesOf(dim) : v \in S /\ Closed(S, edges) => w \in S}

Mutual(v, w, dim, edges) == w \in Reach(v, dim, edges) /\ v \in Reach(w, dim, edges)

(* The chains of blocks along edges.                                       *)
IsChain(p, condensation) == \A i \in 1..(Len(p) - 1) : <<p[i], p[i + 1]>> \in condensation

Chains(blocks, condensation) ==
  {p \in UNION {[1..n -> 1..blocks] : n \in 1..blocks} : IsChain(p, condensation)}

ChainsFrom(a, b, blocks, condensation) ==
  {p \in Chains(blocks, condensation) : p[1] = a /\ p[Len(p)] = b}
===============================================================================

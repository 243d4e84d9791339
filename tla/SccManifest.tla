------------------------------ MODULE SccManifest -----------------------------
(***************************************************************************)
(* The manifest of scc.prepare: a parent system cut into diagonal blocks,  *)
(* each solved by a chart of its own, and couplings between blocks, each   *)
(* with the matrix entries it carries.  parse_composite_scc_chart compares *)
(* every piece with the parent's matrix, whose non-zero entries are the    *)
(* pairs <<source, target>> of edges.                                      *)
(*                                                                         *)
(* A manifest m has a certificate (components, condensation, order, depth, *)
(* for the graph m.edges), m.charts: the handle and the edges of the chart *)
(* of each block, m.couplings: blocks from and to with their entries, and  *)
(* m.work, the orders the blocks were prepared for.                        *)
(***************************************************************************)
EXTENDS SccGraph

Manifests ==
  [components : Seq(SUBSET Nat), edges : SUBSET (Nat \X Nat), condensation : SUBSET (Nat \X Nat),
   order : Seq(Nat), depth : Nat,
   work : [min : Int, requestedMin : Int, requestedMax : Int, completeMax : Int,
           public : Nat, halo : Nat, couplingDepth : Nat, order : Nat],
   charts : Seq([handle : Nat, edges : SUBSET (Nat \X Nat), frame : Int \X Int]),
   couplings : Seq([from : Nat, to : Nat, entries : Seq([edge : Nat \X Nat, zero : BOOLEAN])])]

(* The zero entries of both matrices are those the graph leaves out.       *)
FactsAgree(m, edges) == m.edges = edges

(* The Wolfram side counts blocks on the longest chain, this side edges;   *)
(* two orders for each, two more, and the private halo.                    *)
WorkFits(work, depth) ==
  /\ work.min <= work.requestedMin /\ work.requestedMin <= work.requestedMax
  /\ work.requestedMax <= work.completeMax
  /\ work.couplingDepth = depth + 1
  /\ work.order = work.public + 2 + 2 * work.couplingDepth + work.halo

Inside(block, edges) == {e \in edges : e[1] \in block /\ e[2] \in block}

(* One chart for each block, each of exactly one component, prepared for   *)
(* the frame of the work contract.                                         *)
ChartsFit(m) ==
  /\ Len(m.charts) = Len(m.components)
  /\ \A i, j \in 1..Len(m.charts) : m.charts[i].handle = m.charts[j].handle => i = j
  /\ \A i \in 1..Len(m.charts) :
       /\ m.charts[i].edges = Inside(m.components[i], m.edges)
       /\ m.charts[i].frame = <<m.work.min, m.work.completeMax>>

(* The condensation edges in order, as parse_edge collected them.          *)
Before(p, q) == p[1] < q[1] \/ (p[1] = q[1] /\ p[2] < q[2])

Pairs(m) == [i \in 1..Len(m.couplings) |-> <<m.couplings[i].from, m.couplings[i].to>>]

InEdgeOrder(m) ==
  /\ Range(Pairs(m)) = m.condensation
  /\ \A i, j \in 1..Len(m.couplings) : i < j => Before(Pairs(m)[i], Pairs(m)[j])

Crossing(m) == {e \in m.edges : BlockOf(m.components, e[1]) # BlockOf(m.components, e[2])}

(* An entry is [edge, zero].  Rows are targets, columns sources.           *)
RowByRow(entries) ==
  \A i \in 1..(Len(entries) - 1) :
    LET p == entries[i].edge  q == entries[i + 1].edge
    IN  p[2] < q[2] \/ (p[2] = q[2] /\ p[1] < q[1])

EntriesFit(m, coupling) ==
  /\ RowByRow(coupling.entries)
  /\ \A i \in 1..Len(coupling.entries) :
       LET x == coupling.entries[i] IN
       /\ x.edge[1] \in m.components[coupling.from]
       /\ x.edge[2] \in m.components[coupling.to]
       /\ x.zero <=> x.edge \notin m.edges

(* The entries that are not zero.                                          *)
Carried(m) ==
  {x.edge : x \in {x \in UNION {Range(c.entries) : c \in Range(m.couplings)} : ~x.zero}}

\* Mutant: what the entries leave out is not asked.
UncoveredFit(m) ==
  InEdgeOrder(m) /\ \A i \in 1..Len(m.couplings) : EntriesFit(m, m.couplings[i])

CouplingsFit(m) ==
  /\ InEdgeOrder(m) /\ \A i \in 1..Len(m.couplings) : EntriesFit(m, m.couplings[i])
  /\ Carried(m) = Crossing(m)

AcceptsManifest(m, dim, edges) ==
  /\ Accepts(m, dim, m.edges) /\ FactsAgree(m, edges)
  /\ WorkFits(m.work, m.depth) /\ ChartsFit(m) /\ CouplingsFit(m)

------------------------------------------------------------------------------
(* Reference: how often an entry of the parent appears in the pieces.      *)
ChartPlaces(m, e) == {i \in 1..Len(m.charts) : e \in m.charts[i].edges}

EntriesOf(c, e) == {j \in 1..Len(c.entries) : c.entries[j].edge = e /\ ~c.entries[j].zero}

CouplingPlaces(m, e) ==
  UNION {{<<i, j>> : j \in EntriesOf(m.couplings[i], e)} : i \in 1..Len(m.couplings)}

Places(m, e) == Cardinality(ChartPlaces(m, e)) + Cardinality(CouplingPlaces(m, e))
===============================================================================

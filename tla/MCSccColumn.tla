----------------------------- MODULE MCSccColumn -----------------------------
(* Columns of one composite, or the threads that ask the composite's cache   *)
(* of homogeneous targets, a RecursiveCache, around keys that need each      *)
(* other.  Columns are solved for systems of three and four vertices: graphs *)
(* on three that have a chosen part, and a diamond; ordinary, with a pole,   *)
(* and with two roots that meet.                                             *)
EXTENDS MCRecursiveCache, SccColumn
LOCAL INSTANCE SequencesExt

Edges3  == {{<<2, 1>>, <<3, 2>>} \cup more : more \in SUBSET {<<1, 2>>, <<3, 1>>, <<2, 3>>}}
Diamond == {<<1, 2>>, <<1, 3>>, <<2, 2>>, <<2, 4>>, <<3, 4>>}
Graphs  == [dim \in 3..4 |-> IF dim = 3 THEN Edges3 ELSE {Diamond}]
Meeting == {[a |-> 0, b |-> 0], [a |-> 1, b |-> 1]}

Shapes == {[pole |-> 0, roots |-> {Zero}], [pole |-> 1, roots |-> {Zero}], [pole |-> 1, roots |-> Meeting]}

MCSystems ==
  {[dim |-> d[1], edges |-> d[2], pole |-> s.pole, roots |-> s.roots] :
     d \in ({3} \X Graphs[3]) \cup ({4} \X Graphs[4]), s \in Shapes}

(* The couplings of a manifest, in their order.                              *)
EdgeOrder(condensation) == SetToSortSeq(condensation, Before)

(* Sequences of blocks that a manifest may name.                             *)
Named ==
  [dim \in 3..4 |->
     IF dim = 4 THEN {<<{1}, {2, 3}, {4}>>, <<{4}, {1}, {3}, {2}>>}
     ELSE {<<{1}, {2}, {3}>>, <<{1, 2}, {3}>>, <<{3}, {1, 2}>>, <<{1}, {2, 3}>>, <<{1, 2, 3}>>,
           <<{3}, {1}, {2}>>}]

Orders(n) == {f \in [1..n -> 1..n] : \A i, j \in 1..n : i # j => f[i] # f[j]} \cup {[i \in 1..n |-> 1]}

Budget(depth) ==
  [min |-> -1, requestedMin |-> 0, requestedMax |-> 1, completeMax |-> 2, public |-> 3, halo |-> 0,
   couplingDepth |-> depth + 1, order |-> 3 + 2 + 2 * (depth + 1)]

Entries(c, p, edges) ==
  LET row == SetToSortSeq({e \in edges : BlockOf(c, e[1]) = p[1] /\ BlockOf(c, e[2]) = p[2]},
                          LAMBDA x, y : x[2] < y[2] \/ (x[2] = y[2] /\ x[1] < y[1]))
  IN  [i \in 1..Len(row) |-> [edge |-> row[i], zero |-> FALSE]]

(* The pieces of a system in the given blocks, with any order and depth.     *)
Cut(c, edges) ==
  LET d == DerivedCondensation(c, edges)
      e == EdgeOrder(d)
  IN {[components |-> c, edges |-> edges, condensation |-> d, order |-> o, depth |-> h,
       work |-> Budget(h),
       charts |-> [i \in 1..Len(c) |->
                     [handle |-> i, edges |-> Inside(c[i], edges), frame |-> <<-1, 2>>]],
       couplings |-> [i \in 1..Len(e) |-> [from |-> e[i][1], to |-> e[i][2], entries |-> Entries(c, e[i], edges)]]] :
        o \in Orders(Len(c)), h \in 0..2}

(* One slip in one piece.                                                    *)
Slipped(m) ==
  {[m EXCEPT !.work.couplingDepth = @ - 1], [m EXCEPT !.work.order = @ - 2],
   [m EXCEPT !.charts[1].handle = 0], [m EXCEPT !.charts[1].edges = {}],
   [m EXCEPT !.couplings = <<>>], [m EXCEPT !.couplings = Reverse(@)]}
  \cup {[m EXCEPT !.couplings[i].entries = IF @ = <<>> THEN @ ELSE Tail(@)] : i \in 1..Len(m.couplings)}
  \cup {[m EXCEPT !.couplings[i].entries = IF @ = <<>> THEN @ ELSE <<Head(@)>> \o @] : i \in 1..Len(m.couplings)}
  \cup {[m EXCEPT !.couplings[i].entries = IF @ = <<>> THEN @ ELSE <<[Head(@) EXCEPT !.zero = TRUE]>> \o Tail(@)] :
           i \in 1..Len(m.couplings)}

MCOffers ==
  [dim \in 3..4 |->
     LET cut == UNION {Cut(c, e) : c \in Named[dim], e \in Graphs[dim]} IN
     cut \cup UNION {Slipped(m) : m \in {m \in cut : Accepts(m, dim, m.edges)}}]

ColumnSymmetry == Symmetry \cup Permutations(Forms)

VARIABLE scenario

(* What stands still while the threads ask.                                  *)
Chosen ==
  CHOOSE p \in {<<[dim |-> 4, edges |-> Diamond, pole |-> 1, roots |-> Meeting, domain |-> "acb"], m>> :
                  m \in MCOffers[4]} : TRUE

AllVars == <<vars, columnVars, scenario>>

MCInit ==
  /\ scenario \in {"columns", "targets"} /\ Init /\ ColumnInit
  /\ scenario = "targets" => <<system, offer>> = Chosen

(* A composite rests between requests; threads that build must not.          *)
MCNext ==
  \/ scenario = "columns" /\ (ColumnNext \/ UNCHANGED columnVars) /\ UNCHANGED <<vars, scenario>>
  \/ scenario = "targets" /\ Next /\ UNCHANGED <<columnVars, scenario>>

MCSpec == MCInit /\ [][MCNext]_AllVars
==============================================================================

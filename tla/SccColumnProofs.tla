--------------------------- MODULE SccColumnProofs ---------------------------
(***************************************************************************)
(* Theorems about SccGraph, SccManifest and SccColumn, for any system and  *)
(* any manifests a client may submit.  First the graph: the two passes     *)
(* find the strongly connected components, the depths are those of the     *)
(* longest chains; so a manifest that is accepted is true.  Then the       *)
(* columns: in ColumnInv every block that was solved holds the chains that *)
(* lead to it, because the blocks before it in the order do.               *)
(***************************************************************************)
EXTENDS SccColumn, FiniteSetTheorems, WellFoundedInduction, TLAPS

(* The least of the numbers in a set.                                      *)
LEMMA LeastOf ==
  ASSUME NEW S \in SUBSET Nat, S # {}
  PROVE  \E n \in S : \A m \in S : n <= m
<1>1. PICK n \in S : \A m \in S : <<m, n>> \notin OpToRel(<, Nat)
  BY WFMin, NatLessThanWellFounded, Zenon
<1>2. \A m \in S : ~(m < n)
  <2> TAKE m \in S
  <2>1. n \in Nat /\ m \in Nat /\ <<m, n>>[1] = m /\ <<m, n>>[2] = n /\ <<m, n>> \in Nat \X Nat
    OBVIOUS
  <2> QED  BY <1>1, <2>1, Zenon DEF OpToRel
<1> QED  BY <1>2

LEMMA SmallestIsLeast ==
  ASSUME NEW S \in SUBSET Nat, S # {}
  PROVE  Smallest(S) \in S /\ \A w \in S : Smallest(S) <= w
<1>1. \E v \in S : \A w \in S : v <= w
  BY LeastOf
<1> QED  BY <1>1 DEF Smallest

(* A function that is computed step by step exists.                        *)
Iterates(f, n, A, first, onward) ==
  f \in [0..n -> A] /\ f[0] = first /\ \A i \in 1..n : f[i] = onward[i][f[i - 1]]

LEMMA IterationExists ==
  ASSUME NEW n \in Nat, NEW A, NEW first \in A, NEW onward \in [1..n -> [A -> A]]
  PROVE  \E f : Iterates(f, n, A, first, onward)
<1> DEFINE Upto(f, m) == f \in [0..m -> A] /\ f[0] = first /\ \A i \in 1..m : f[i] = onward[i][f[i - 1]]
           Missing == {m \in 0..n : ~\E f : Upto(f, m)}
<1>1. ASSUME Missing # {}  PROVE FALSE
  <2>1. Missing \in SUBSET Nat
    OBVIOUS
  <2>2. PICK m \in Missing : \A k \in Missing : m <= k
    <3> HIDE DEF Missing
    <3> QED  BY <1>1, <2>1, LeastOf
  <2>3. m \in 0..n /\ ~\E f : Upto(f, m)
    OBVIOUS
  <2>4. CASE m = 0
    <3> DEFINE f == [i \in 0..0 |-> first]
    <3>1. Upto(f, 0)
      OBVIOUS
    <3> QED  BY <2>3, <2>4, <3>1
  <2>5. CASE m # 0
    <3>1. m - 1 \in 0..n /\ m - 1 < m
      BY <2>3, <2>5
    <3>2. m - 1 \notin Missing
      <4> HIDE DEF Missing
      <4> QED  BY <2>1, <2>2, <3>1
    <3>3. PICK f : Upto(f, m - 1)
      BY <3>1, <3>2
    <3> DEFINE last == onward[m][f[m - 1]]
               g == [i \in 0..m |-> IF i = m THEN last ELSE f[i]]
    <3>4. last \in A
      BY <2>3, <2>5, <3>3
    <3> HIDE DEF last
    <3>5. g \in [0..m -> A] /\ g[0] = first
      BY <2>3, <2>5, <3>3, <3>4
    <3>6. \A i \in 1..m : g[i] = onward[i][g[i - 1]]
      <4> TAKE i \in 1..m
      <4>1. CASE i = m
        BY <2>3, <2>5, <3>3, <4>1 DEF last
      <4>2. CASE i # m
        <5>1. i \in 1..(m - 1) /\ i - 1 \in 0..m /\ i - 1 # m
          BY <2>3, <4>2
        <5> QED  BY <2>3, <3>3, <4>2, <5>1
      <4> QED  BY <4>1, <4>2
    <3> QED  BY <2>3, <3>5, <3>6
  <2> QED  BY <2>4, <2>5
<1>2. n \notin Missing
  BY <1>1
<1>3. PICK f : Upto(f, n)
  BY <1>2
<1> QED  BY <1>3 DEF Iterates
------------------------------------------------------------------------------
(* The depth-first passes over the vertices of a graph.                    *)
WalksOver(dim) ==
  [stack : Seq(VerticesOf(dim)), order : Seq(VerticesOf(dim)), trees : Seq(SUBSET VerticesOf(dim))]

LEMMA SeenHas ==
  ASSUME NEW dim \in Nat, NEW w \in WalksOver(dim)
  PROVE  /\ Seen(w) \subseteq VerticesOf(dim)
         /\ \A v : v \in Seen(w) <=> \E i \in 1..Len(w.trees) : v \in w.trees[i]
<1>1. w.trees \in Seq(SUBSET VerticesOf(dim))
  BY DEF WalksOver
<1>2. Range(w.trees) = {w.trees[i] : i \in 1..Len(w.trees)}
  BY <1>1 DEF Range
<1> QED  BY <1>1, <1>2 DEF Seen

LEMMA CallIs ==
  ASSUME NEW dim \in Nat, NEW w \in WalksOver(dim), NEW v \in VerticesOf(dim)
  PROVE  /\ Visit(w, v) \in WalksOver(dim)
         /\ Visit(w, v).stack = <<v>> /\ Visit(w, v).order = w.order
         /\ Visit(w, v).trees = Append(w.trees, {v})
<1>1. Visit(w, v) = [stack |-> <<v>>, order |-> w.order, trees |-> Append(w.trees, {v})]
  BY DEF Visit, WalksOver
<1>2. /\ <<v>> \in Seq(VerticesOf(dim)) /\ w.order \in Seq(VerticesOf(dim))
      /\ Append(w.trees, {v}) \in Seq(SUBSET VerticesOf(dim))
  BY DEF WalksOver
<1> QED  BY <1>1, <1>2 DEF WalksOver

LEMMA DescendIs ==
  ASSUME NEW dim \in Nat, NEW w \in WalksOver(dim), NEW v \in VerticesOf(dim)
  PROVE  /\ Descend(w, v) \in WalksOver(dim)
         /\ Descend(w, v).stack = Append(w.stack, v) /\ Descend(w, v).order = w.order
         /\ Len(Descend(w, v).trees) = Len(w.trees)
         /\ \A i \in 1..Len(w.trees) :
              Descend(w, v).trees[i] = IF i = Len(w.trees) THEN w.trees[i] \cup {v} ELSE w.trees[i]
<1> DEFINE n == Len(w.trees)  grown == [w.trees EXCEPT ![n] = @ \cup {v}]
<1>1. Descend(w, v) = [stack |-> Append(w.stack, v), order |-> w.order, trees |-> grown]
  BY DEF Descend, WalksOver
<1>2. w.trees \in [1..n -> SUBSET VerticesOf(dim)] /\ n \in Nat
  BY DEF WalksOver
<1>3. grown \in [1..n -> SUBSET VerticesOf(dim)] /\ \A i \in 1..n : grown[i] = IF i = n THEN w.trees[i] \cup {v} ELSE w.trees[i]
  BY <1>2
<1>4. grown \in Seq(SUBSET VerticesOf(dim)) /\ Len(grown) = n
  BY <1>2, <1>3
<1>5. Append(w.stack, v) \in Seq(VerticesOf(dim)) /\ w.order \in Seq(VerticesOf(dim))
  BY DEF WalksOver
<1> HIDE DEF grown
<1> QED  BY <1>1, <1>3, <1>4, <1>5 DEF WalksOver

LEMMA ReturnIs ==
  ASSUME NEW dim \in Nat, NEW w \in WalksOver(dim), w.stack # <<>>
  PROVE  /\ Return(w) \in WalksOver(dim)
         /\ Return(w).order = Append(w.order, w.stack[Len(w.stack)])
         /\ Return(w).trees = w.trees
         /\ Len(Return(w).stack) = Len(w.stack) - 1
         /\ \A i \in 1..(Len(w.stack) - 1) : Return(w).stack[i] = w.stack[i]
<1> DEFINE n == Len(w.stack)  rest == SubSeq(w.stack, 1, n - 1)
<1>1. Return(w) = [stack |-> rest, order |-> Append(w.order, w.stack[n]), trees |-> w.trees]
  BY DEF Return, WalksOver
<1>2. w.stack \in Seq(VerticesOf(dim)) /\ n \in Nat \ {0} /\ w.stack[n] \in VerticesOf(dim)
  BY DEF WalksOver
<1>3. rest \in Seq(VerticesOf(dim)) /\ Len(rest) = n - 1 /\ \A i \in 1..(n - 1) : rest[i] = w.stack[i]
  BY <1>2
<1>4. Append(w.order, w.stack[n]) \in Seq(VerticesOf(dim)) /\ w.trees \in Seq(SUBSET VerticesOf(dim))
  BY <1>2 DEF WalksOver
<1> HIDE DEF rest
<1> QED  BY <1>1, <1>3, <1>4 DEF WalksOver

(* What a step of a pass is.                                               *)
Calls(w, t, roots) ==
  \E i \in 1..Len(roots) :
    /\ w.stack = <<>> /\ roots[i] \notin Seen(w) /\ t = Visit(w, roots[i])
    /\ \A h \in 1..(i - 1) : roots[h] \in Seen(w)

Descends(w, t, edges) ==
  \E v \in Ahead(w, edges) : w.stack # <<>> /\ t = Descend(w, v)

Returns(w, t, edges) == w.stack # <<>> /\ Ahead(w, edges) = {} /\ t = Return(w)

LEMMA AheadIs ==
  ASSUME NEW dim \in Nat, NEW w \in WalksOver(dim), w.stack # <<>>,
         NEW edges \in SUBSET (VerticesOf(dim) \X VerticesOf(dim))
  PROVE  /\ Ahead(w, edges) \subseteq VerticesOf(dim)
         /\ \A v : v \in Ahead(w, edges) <=> <<w.stack[Len(w.stack)], v>> \in edges /\ v \notin Seen(w)
<1>1. \A u, v : v \in Successors(u, edges) <=> <<u, v>> \in edges
  <2> TAKE u, v
  <2>1. ASSUME v \in Successors(u, edges)  PROVE <<u, v>> \in edges
    <3>1. PICK e \in edges : e[1] = u /\ e[2] = v
      BY <2>1 DEF Successors
    <3>2. e = <<u, v>>
      BY <3>1
    <3> QED  BY <3>2
  <2>2. ASSUME <<u, v>> \in edges  PROVE v \in Successors(u, edges)
    BY <2>2 DEF Successors
  <2> QED  BY <2>1, <2>2
<1>2. \A u, v : <<u, v>> \in edges => v \in VerticesOf(dim)
  OBVIOUS
<1> QED  BY <1>1, <1>2 DEF Ahead

LEMMA OnwardIs ==
  ASSUME NEW dim \in Nat, NEW w \in WalksOver(dim), NEW roots \in Seq(VerticesOf(dim)),
         NEW edges \in SUBSET (VerticesOf(dim) \X VerticesOf(dim))
  PROVE  LET t == Onward(w, roots, edges) IN
         /\ t \in WalksOver(dim)
         /\ \/ w.stack = <<>> /\ (\A i \in 1..Len(roots) : roots[i] \in Seen(w)) /\ t = w
            \/ Calls(w, t, roots) \/ Descends(w, t, edges) \/ Returns(w, t, edges)
<1> DEFINE t == Onward(w, roots, edges)
<1>1. CASE w.stack = <<>> /\ Unvisited(w, roots) = {}
  BY <1>1 DEF Onward, Unvisited
<1>2. CASE w.stack = <<>> /\ Unvisited(w, roots) # {}
  <2> DEFINE i == Smallest(Unvisited(w, roots))
  <2>1. Unvisited(w, roots) \in SUBSET Nat
    BY DEF Unvisited
  <2>2. i \in Unvisited(w, roots) /\ \A h \in Unvisited(w, roots) : i <= h
    BY <1>2, <2>1, SmallestIsLeast
  <2>3. t = Visit(w, roots[i])
    BY <1>2 DEF Onward
  <2> HIDE DEF i, t
  <2>4. i \in 1..Len(roots) /\ roots[i] \notin Seen(w) /\ \A h \in 1..(i - 1) : roots[h] \in Seen(w)
    BY <2>1, <2>2 DEF Unvisited
  <2>5. roots[i] \in VerticesOf(dim)
    BY <2>4
  <2>6. t \in WalksOver(dim)
    BY <2>3, <2>5, CallIs
  <2> QED  BY <1>2, <2>3, <2>4, <2>6 DEF Calls, t
<1>3. CASE w.stack # <<>> /\ Ahead(w, edges) # {}
  <2> DEFINE v == Smallest(Ahead(w, edges))
  <2>1. Ahead(w, edges) \subseteq VerticesOf(dim)
    BY <1>3, AheadIs
  <2>2. v \in Ahead(w, edges)
    BY <1>3, <2>1, SmallestIsLeast DEF VerticesOf
  <2>3. t = Descend(w, v)
    BY <1>3 DEF Onward
  <2> HIDE DEF v, t
  <2>4. t \in WalksOver(dim)
    BY <2>1, <2>2, <2>3, DescendIs
  <2> QED  BY <1>3, <2>2, <2>3, <2>4 DEF Descends, t
<1>4. CASE w.stack # <<>> /\ Ahead(w, edges) = {}
  <2>1. t = Return(w)
    BY <1>4 DEF Onward
  <2> QED  BY <1>4, <2>1, ReturnIs DEF Returns
<1> QED  BY <1>1, <1>2, <1>3, <1>4

LEMMA SeenGrows ==
  ASSUME NEW dim \in Nat, NEW w \in WalksOver(dim), NEW v \in VerticesOf(dim)
  PROVE  /\ Seen(Visit(w, v)) = Seen(w) \cup {v}
         /\ w.trees # <<>> => Seen(Descend(w, v)) = Seen(w) \cup {v}
<1>1. w.trees \in Seq(SUBSET VerticesOf(dim)) /\ Len(w.trees) \in Nat
  BY DEF WalksOver
<1>2. Seen(Visit(w, v)) = Seen(w) \cup {v}
  <2> DEFINE t == Visit(w, v)  n == Len(w.trees)
  <2>1. t \in WalksOver(dim) /\ t.trees = Append(w.trees, {v})
    BY CallIs
  <2> HIDE DEF t
  <2>2. /\ Len(t.trees) = n + 1 /\ t.trees[n + 1] = {v}
        /\ \A i \in 1..n : t.trees[i] = w.trees[i]
    BY <1>1, <2>1
  <2>3. ASSUME NEW x  PROVE x \in Seen(t) <=> x \in Seen(w) \/ x = v
    <3>1. x \in Seen(t) <=> \E i \in 1..(n + 1) : x \in t.trees[i]
      BY <2>1, <2>2, SeenHas
    <3>2. x \in Seen(w) <=> \E i \in 1..n : x \in w.trees[i]
      BY SeenHas
    <3>3. \A i \in 1..(n + 1) : i \in 1..n \/ i = n + 1
      BY <1>1
    <3>4. n + 1 \in 1..(n + 1) /\ \A i \in 1..n : i \in 1..(n + 1)
      BY <1>1
    <3> HIDE DEF n
    <3> QED  BY <2>2, <3>1, <3>2, <3>3, <3>4
  <2> QED  BY <2>3 DEF t
<1>3. ASSUME w.trees # <<>>  PROVE Seen(Descend(w, v)) = Seen(w) \cup {v}
  <2> DEFINE t == Descend(w, v)  n == Len(w.trees)
  <2>1. /\ t \in WalksOver(dim) /\ Len(t.trees) = n
        /\ \A i \in 1..n : t.trees[i] = IF i = n THEN w.trees[i] \cup {v} ELSE w.trees[i]
    BY DescendIs
  <2>2. n \in 1..n
    BY <1>1, <1>3
  <2> HIDE DEF t
  <2>3. ASSUME NEW x  PROVE x \in Seen(t) <=> x \in Seen(w) \/ x = v
    <3>1. x \in Seen(t) <=> \E i \in 1..n : x \in t.trees[i]
      BY <2>1, SeenHas
    <3>2. x \in Seen(w) <=> \E i \in 1..n : x \in w.trees[i]
      BY SeenHas
    <3> HIDE DEF n
    <3> QED  BY <2>1, <2>2, <3>1, <3>2
  <2> QED  BY <2>3 DEF t
<1> QED  BY <1>2, <1>3

------------------------------------------------------------------------------
(* What a vertex reaches.                                                  *)
LEMMA ReachSelf ==
  ASSUME NEW dim, NEW edges, NEW v \in VerticesOf(dim)
  PROVE  v \in Reach(v, dim, edges)
BY DEF Reach

LEMMA ReachStep ==
  ASSUME NEW dim, NEW edges \in SUBSET (VerticesOf(dim) \X VerticesOf(dim)), NEW v,
         NEW u \in Reach(v, dim, edges), NEW w, <<u, w>> \in edges
  PROVE  w \in Reach(v, dim, edges)
<1>1. w \in VerticesOf(dim)
  OBVIOUS
<1>2. ASSUME NEW S \in SUBSET VerticesOf(dim), v \in S, Closed(S, edges)  PROVE w \in S
  <2>1. u \in S
    BY <1>2 DEF Reach
  <2>2. <<u, w>>[1] \in S => <<u, w>>[2] \in S
    BY <1>2 DEF Closed
  <2> QED  BY <2>1, <2>2
<1> QED  BY <1>1, <1>2 DEF Reach

LEMMA ReachTrans ==
  ASSUME NEW dim, NEW edges, NEW v, NEW u \in Reach(v, dim, edges), NEW w \in Reach(u, dim, edges)
  PROVE  w \in Reach(v, dim, edges)
BY DEF Reach

LEMMA ReachIn ==
  ASSUME NEW dim, NEW edges, NEW v, NEW u \in Reach(v, dim, edges)
  PROVE  u \in VerticesOf(dim)
BY DEF Reach

------------------------------------------------------------------------------
(* The invariant of a pass.  When vertex i of the stack was called, the    *)
(* first j vertices of the order had returned: they lead to nothing but    *)
(* themselves and the calls below i; those that returned since, vertex i   *)
(* leads to.  What is left of that when it has returned as the k-th.       *)
Distinct(s) == \A i, j \in 1..Len(s) : s[i] = s[j] => i = j

OpenAt(w, i, j, dim, edges) ==
  /\ \A m \in 1..j, x \in VerticesOf(dim) :
       <<w.order[m], x>> \in edges =>
         (\E l \in 1..j : x = w.order[l]) \/ (\E l \in 1..(i - 1) : x = w.stack[l])
  /\ \A m \in (j + 1)..Len(w.order) : w.order[m] \in Reach(w.stack[i], dim, edges)

ClosedAt(order, k, j, dim, edges) ==
  /\ \A m \in 1..j, x \in VerticesOf(dim) :
       <<order[m], x>> \in edges =>
         (\E l \in 1..j : x = order[l]) \/ (\A l \in 1..k : x # order[l])
  /\ \A m \in (j + 1)..k : order[m] \in Reach(order[k], dim, edges)

OnStack(w, v) == \E i \in 1..Len(w.stack) : w.stack[i] = v
InOrder(w, v) == \E i \in 1..Len(w.order) : w.order[i] = v

Marks(w, dim) ==
  /\ Distinct(w.stack) /\ Distinct(w.order) /\ \A v : ~(OnStack(w, v) /\ InOrder(w, v))
  /\ \A v : v \in Seen(w) <=> OnStack(w, v) \/ InOrder(w, v)
  /\ w.stack # <<>> => w.trees # <<>>

Leads(w, dim, edges) ==
  /\ \A m \in 1..Len(w.order), x \in VerticesOf(dim) : <<w.order[m], x>> \in edges => x \in Seen(w)
  /\ \A i, j \in 1..Len(w.stack) : i <= j => w.stack[j] \in Reach(w.stack[i], dim, edges)
  /\ \A i \in 1..Len(w.stack) : \E j \in 0..Len(w.order) : OpenAt(w, i, j, dim, edges)
  /\ \A k \in 1..Len(w.order) : \E j \in 0..(k - 1) : ClosedAt(w.order, k, j, dim, edges)

LEMMA CallMarks ==
  ASSUME NEW dim \in Nat, NEW w \in WalksOver(dim), NEW v \in VerticesOf(dim),
         Marks(w, dim), w.stack = <<>>, v \notin Seen(w)
  PROVE  Marks(Visit(w, v), dim)
<1> DEFINE t == Visit(w, v)
<1>1. t \in WalksOver(dim) /\ t.stack = <<v>> /\ t.order = w.order /\ t.trees = Append(w.trees, {v})
  BY CallIs
<1>2. Seen(t) = Seen(w) \cup {v}
  BY SeenGrows
<1> HIDE DEF t
<1>3. Len(t.stack) = 1 /\ t.stack[1] = v /\ Len(w.stack) = 0
  BY <1>1
<1>4. (\A x : OnStack(t, x) <=> x = v) /\ (\A x : InOrder(t, x) <=> InOrder(w, x)) /\ (\A x : ~OnStack(w, x))
  BY <1>1, <1>3 DEF OnStack, InOrder
<1>5. t.trees # <<>>
  BY <1>1 DEF WalksOver
<1>6. Distinct(t.stack) /\ Distinct(t.order)
  BY <1>1, <1>3 DEF Distinct, Marks
<1> QED  BY <1>2, <1>4, <1>5, <1>6 DEF Marks, t

LEMMA DescendMarks ==
  ASSUME NEW dim \in Nat, NEW w \in WalksOver(dim), NEW v \in VerticesOf(dim),
         Marks(w, dim), w.stack # <<>>, v \notin Seen(w)
  PROVE  Marks(Descend(w, v), dim)
<1> DEFINE t == Descend(w, v)  n == Len(w.stack)
<1>1. /\ t \in WalksOver(dim) /\ t.stack = Append(w.stack, v) /\ t.order = w.order
      /\ Len(t.trees) = Len(w.trees)
  BY DescendIs
<1>2. w.stack \in Seq(VerticesOf(dim)) /\ n \in Nat /\ w.trees # <<>> /\ w.trees \in Seq(SUBSET VerticesOf(dim))
  BY DEF Marks, WalksOver
<1>3. Seen(t) = Seen(w) \cup {v}
  BY <1>2, SeenGrows
<1> HIDE DEF t
<1>4. Len(t.stack) = n + 1 /\ t.stack[n + 1] = v /\ \A i \in 1..n : t.stack[i] = w.stack[i]
  BY <1>1, <1>2
<1>5. ~OnStack(w, v) /\ ~InOrder(w, v)
  BY DEF Marks
<1>6. (\A x : OnStack(t, x) <=> OnStack(w, x) \/ x = v) /\ (\A x : InOrder(t, x) <=> InOrder(w, x))
  <2>1. ASSUME NEW x  PROVE OnStack(t, x) <=> OnStack(w, x) \/ x = v
    BY <1>2, <1>4 DEF OnStack
  <2> QED  BY <1>1, <2>1 DEF InOrder
<1>7. t.trees # <<>>
  BY <1>1, <1>2
<1>8. Distinct(t.stack)
  <2>1. \A i \in 1..n : t.stack[i] # v
    BY <1>4, <1>5 DEF OnStack
  <2>2. \A i, j \in 1..n : w.stack[i] = w.stack[j] => i = j
    BY <1>2 DEF Distinct, Marks
  <2> SUFFICES ASSUME NEW i \in 1..(n + 1), NEW j \in 1..(n + 1), t.stack[i] = t.stack[j]
               PROVE  i = j
    BY <1>4 DEF Distinct
  <2>3. CASE i \in 1..n /\ j \in 1..n
    BY <1>4, <2>2, <2>3
  <2>4. CASE i = n + 1 \/ j = n + 1
    BY <1>2, <1>4, <2>1, <2>4
  <2> QED  BY <1>2, <2>3, <2>4
<1>9. Distinct(t.order)
  BY <1>1 DEF Distinct, Marks
<1> QED  BY <1>3, <1>5, <1>6, <1>7, <1>8, <1>9 DEF Marks, t

LEMMA ReturnMarks ==
  ASSUME NEW dim \in Nat, NEW w \in WalksOver(dim), Marks(w, dim), w.stack # <<>>
  PROVE  Marks(Return(w), dim) /\ Seen(Return(w)) = Seen(w)
<1> DEFINE t == Return(w)  n == Len(w.stack)  k == Len(w.order)  v == w.stack[n]
<1>1. /\ t \in WalksOver(dim) /\ t.order = Append(w.order, v) /\ t.trees = w.trees
      /\ Len(t.stack) = n - 1 /\ \A i \in 1..(n - 1) : t.stack[i] = w.stack[i]
  BY ReturnIs
<1>2. w.stack \in Seq(VerticesOf(dim)) /\ n \in Nat \ {0} /\ w.order \in Seq(VerticesOf(dim)) /\ k \in Nat
  BY DEF WalksOver
<1>3. Seen(t) = Seen(w)
  BY <1>1 DEF Seen
<1> HIDE DEF t
<1>4. Len(t.order) = k + 1 /\ t.order[k + 1] = v /\ \A i \in 1..k : t.order[i] = w.order[i]
  BY <1>1, <1>2
<1>5. OnStack(w, v) /\ ~InOrder(w, v)
  BY <1>2 DEF OnStack, Marks
<1>6. (\A i, j \in 1..n : w.stack[i] = w.stack[j] => i = j) /\ n \in 1..n /\ w.stack[n] = v /\ Len(w.stack) = n
  BY <1>2 DEF Marks, Distinct
<1>7. (\A i \in 1..n : i \in 1..(n - 1) \/ i = n) /\ (\A i \in 1..(n - 1) : i \in 1..n /\ i # n)
  BY <1>2
<1> HIDE DEF v
<1>8. Distinct(t.stack)
  <2> SUFFICES ASSUME NEW i \in 1..(n - 1), NEW j \in 1..(n - 1), t.stack[i] = t.stack[j]  PROVE i = j
    BY <1>1 DEF Distinct
  <2> HIDE DEF n
  <2>1. i \in 1..n /\ j \in 1..n /\ w.stack[i] = w.stack[j]
    BY <1>1, <1>7
  <2> QED  BY <1>6, <2>1
<1>9. Distinct(t.order)
  <2>1. \A i \in 1..k : w.order[i] # v
    BY <1>5 DEF InOrder
  <2>2. \A i, j \in 1..k : w.order[i] = w.order[j] => i = j
    BY DEF Distinct, Marks
  <2>3. \A i \in 1..(k + 1) : i \in 1..k \/ i = k + 1
    BY <1>2
  <2> SUFFICES ASSUME NEW i \in 1..(k + 1), NEW j \in 1..(k + 1), t.order[i] = t.order[j]  PROVE i = j
    BY <1>4 DEF Distinct
  <2> QED  BY <1>4, <2>1, <2>2, <2>3
<1>10. ASSUME NEW x  PROVE OnStack(t, x) <=> OnStack(w, x) /\ x # v
  <2> HIDE DEF n
  <2> QED  BY <1>1, <1>6, <1>7 DEF OnStack
<1>11. ASSUME NEW x  PROVE InOrder(t, x) <=> InOrder(w, x) \/ x = v
  <2>1. (\A i \in 1..(k + 1) : i \in 1..k \/ i = k + 1) /\ (\A i \in 1..k : i \in 1..(k + 1)) /\ k + 1 \in 1..(k + 1)
      /\ Len(w.order) = k
    BY <1>2
  <2> HIDE DEF k
  <2> QED  BY <1>4, <2>1 DEF InOrder
<1> QED  BY <1>1, <1>3, <1>5, <1>8, <1>9, <1>10, <1>11 DEF Marks, t

LEMMA CallLeads ==
  ASSUME NEW dim \in Nat, NEW w \in WalksOver(dim), NEW v \in VerticesOf(dim), NEW edges,
         Marks(w, dim), Leads(w, dim, edges), w.stack = <<>>
  PROVE  Leads(Visit(w, v), dim, edges)
<1> DEFINE t == Visit(w, v)  k == Len(w.order)
<1>1. t.stack = <<v>> /\ t.order = w.order
  BY CallIs
<1>2. Seen(t) = Seen(w) \cup {v} /\ k \in Nat
  BY SeenGrows DEF WalksOver
<1> HIDE DEF t
<1>3. Len(t.stack) = 1 /\ t.stack[1] = v /\ Len(t.order) = k
  BY <1>1
<1>4. \A m \in 1..k, x \in VerticesOf(dim) : <<w.order[m], x>> \in edges => x \in Seen(w)
  BY DEF Leads
<1>5. \A i, j \in 1..Len(t.stack) : i <= j => t.stack[j] \in Reach(t.stack[i], dim, edges)
  <2>1. \A i \in 1..1 : i = 1
    OBVIOUS
  <2> QED  BY <1>3, <2>1, ReachSelf
<1>6. OpenAt(t, 1, k, dim, edges)
  <2>1. ASSUME NEW m \in 1..k, NEW x \in VerticesOf(dim), <<w.order[m], x>> \in edges
        PROVE  \E l \in 1..k : x = w.order[l]
    <3>1. ~OnStack(w, x)
      BY DEF OnStack
    <3>2. InOrder(w, x)
      BY <1>4, <2>1, <3>1 DEF Marks
    <3> QED  BY <3>2 DEF InOrder
  <2>2. \A m \in (k + 1)..k : FALSE
    BY <1>2
  <2> QED  BY <1>1, <1>3, <2>1, <2>2 DEF OpenAt
<1>7. \A i \in 1..Len(t.stack) : \E j \in 0..k : OpenAt(t, i, j, dim, edges)
  <2>1. (\A i \in 1..1 : i = 1) /\ k \in 0..k
    BY <1>2
  <2> QED  BY <1>3, <1>6, <2>1
<1>8. \A h \in 1..k : \E j \in 0..(h - 1) : ClosedAt(t.order, h, j, dim, edges)
  BY <1>1 DEF Leads
<1> QED  BY <1>1, <1>2, <1>3, <1>4, <1>5, <1>7, <1>8 DEF Leads, t

LEMMA DescendLeads ==
  ASSUME NEW dim \in Nat, NEW w \in WalksOver(dim), NEW v \in VerticesOf(dim),
         NEW edges \in SUBSET (VerticesOf(dim) \X VerticesOf(dim)),
         Marks(w, dim), Leads(w, dim, edges), w.stack # <<>>,
         <<w.stack[Len(w.stack)], v>> \in edges
  PROVE  Leads(Descend(w, v), dim, edges)
<1> DEFINE t == Descend(w, v)  k == Len(w.order)  n == Len(w.stack)
<1>1. t.stack = Append(w.stack, v) /\ t.order = w.order
  BY DescendIs
<1>2. w.stack \in Seq(VerticesOf(dim)) /\ n \in Nat \ {0} /\ w.order \in Seq(VerticesOf(dim)) /\ k \in Nat
  BY DEF WalksOver
<1>3. Seen(w) \subseteq Seen(t)
  BY SeenGrows DEF Marks
<1> HIDE DEF t
<1>4. /\ Len(t.stack) = n + 1 /\ t.stack[n + 1] = v /\ Len(t.order) = k
      /\ \A i \in 1..n : t.stack[i] = w.stack[i]
  BY <1>1, <1>2
<1>5. (\A i \in 1..(n + 1) : i \in 1..n \/ i = n + 1) /\ n \in 1..n /\ \A i \in 1..n : i <= n
  BY <1>2
<1>6. \A m \in 1..k, x \in VerticesOf(dim) : <<w.order[m], x>> \in edges => x \in Seen(w)
  BY DEF Leads
<1>7. ASSUME NEW i \in 1..(n + 1), NEW j \in 1..(n + 1), i <= j
      PROVE  t.stack[j] \in Reach(t.stack[i], dim, edges)
  <2>1. CASE j = n + 1 /\ i = n + 1
    BY <1>4, <2>1, ReachSelf
  <2>2. CASE j = n + 1 /\ i \in 1..n
    <3>1. w.stack[n] \in Reach(w.stack[i], dim, edges)
      BY <1>5, <2>2 DEF Leads
    <3>2. v \in Reach(w.stack[i], dim, edges)
      BY <3>1, ReachStep
    <3> QED  BY <1>4, <2>2, <3>2
  <2>3. CASE j \in 1..n
    <3>1. i \in 1..n
      BY <1>7, <2>3
    <3>2. w.stack[j] \in Reach(w.stack[i], dim, edges)
      BY <1>7, <2>3, <3>1 DEF Leads
    <3> QED  BY <1>4, <2>3, <3>1, <3>2
  <2> QED  BY <1>5, <2>1, <2>2, <2>3
<1>8. ASSUME NEW i \in 1..(n + 1)  PROVE \E j \in 0..k : OpenAt(t, i, j, dim, edges)
  <2>1. CASE i \in 1..n
    <3>1. PICK j \in 0..k : OpenAt(w, i, j, dim, edges)
      BY <2>1 DEF Leads
    <3>2. \A l \in 1..(i - 1) : t.stack[l] = w.stack[l]
      BY <1>2, <1>4, <2>1
    <3>3. t.stack[i] = w.stack[i]
      BY <1>4, <2>1
    <3>4. t.order = w.order
      BY <1>1
    <3>5. OpenAt(t, i, j, dim, edges)
      <4>1. ASSUME NEW m \in 1..j, NEW x \in VerticesOf(dim), <<t.order[m], x>> \in edges
            PROVE  (\E l \in 1..j : x = t.order[l]) \/ (\E l \in 1..(i - 1) : x = t.stack[l])
        <5>1. (\E l \in 1..j : x = w.order[l]) \/ (\E l \in 1..(i - 1) : x = w.stack[l])
          BY <3>1, <3>4, <4>1 DEF OpenAt
        <5> QED  BY <3>2, <3>4, <5>1
      <4>2. \A m \in (j + 1)..Len(t.order) : t.order[m] \in Reach(t.stack[i], dim, edges)
        BY <3>1, <3>3, <3>4 DEF OpenAt
      <4> QED  BY <4>1, <4>2 DEF OpenAt
    <3> QED  BY <3>5
  <2>2. CASE i = n + 1
    <3>1. ASSUME NEW m \in 1..k, NEW x \in VerticesOf(dim), <<w.order[m], x>> \in edges
          PROVE  (\E l \in 1..k : x = w.order[l]) \/ (\E l \in 1..n : x = t.stack[l])
      <4>1. OnStack(w, x) \/ InOrder(w, x)
        BY <1>6, <3>1 DEF Marks
      <4> QED  BY <1>4, <4>1 DEF OnStack, InOrder
    <3>2. (\A m \in (k + 1)..k : FALSE) /\ k \in 0..k /\ i - 1 = n
      BY <1>2, <2>2
    <3>3. OpenAt(t, i, k, dim, edges)
      <4>1. t.order = w.order
        BY <1>1
      <4>2. ASSUME NEW m \in 1..k, NEW x \in VerticesOf(dim), <<t.order[m], x>> \in edges
            PROVE  (\E l \in 1..k : x = t.order[l]) \/ (\E l \in 1..(i - 1) : x = t.stack[l])
        BY <3>1, <3>2, <4>1, <4>2
      <4>3. \A m \in (k + 1)..Len(t.order) : t.order[m] \in Reach(t.stack[i], dim, edges)
        BY <1>4, <3>2
      <4> QED  BY <4>2, <4>3 DEF OpenAt
    <3> QED  BY <3>2, <3>3
  <2> QED  BY <1>5, <2>1, <2>2
<1>9. \A h \in 1..k : \E j \in 0..(h - 1) : ClosedAt(t.order, h, j, dim, edges)
  BY <1>1 DEF Leads
<1> QED  BY <1>1, <1>3, <1>4, <1>6, <1>7, <1>8, <1>9 DEF Leads, t

LEMMA ReturnLeads ==
  ASSUME NEW dim \in Nat, NEW w \in WalksOver(dim),
         NEW edges \in SUBSET (VerticesOf(dim) \X VerticesOf(dim)),
         Marks(w, dim), Leads(w, dim, edges), w.stack # <<>>,
         \A x \in VerticesOf(dim) : <<w.stack[Len(w.stack)], x>> \in edges => x \in Seen(w)
  PROVE  Leads(Return(w), dim, edges)
<1> DEFINE t == Return(w)  n == Len(w.stack)  k == Len(w.order)  v == w.stack[n]
<1>1. /\ t.order = Append(w.order, v)
      /\ Len(t.stack) = n - 1 /\ \A i \in 1..(n - 1) : t.stack[i] = w.stack[i]
  BY ReturnIs
<1>2. /\ w.stack \in Seq(VerticesOf(dim)) /\ n \in Nat \ {0} /\ v \in VerticesOf(dim)
      /\ w.order \in Seq(VerticesOf(dim)) /\ k \in Nat
  BY DEF WalksOver
<1>3. Seen(t) = Seen(w)
  BY ReturnMarks
<1> HIDE DEF t
<1>4. Len(t.order) = k + 1 /\ t.order[k + 1] = v /\ \A i \in 1..k : t.order[i] = w.order[i]
  BY <1>1, <1>2
<1>5. (\A i \in 1..(k + 1) : i \in 1..k \/ i = k + 1) /\ n \in 1..n /\ \A i \in 1..(n - 1) : i \in 1..n /\ i <= n
  BY <1>2
<1>6. ASSUME NEW m \in 1..(k + 1), NEW x \in VerticesOf(dim), <<t.order[m], x>> \in edges
      PROVE  x \in Seen(t)
  <2>1. CASE m \in 1..k
    BY <1>3, <1>4, <1>6, <2>1 DEF Leads
  <2>2. CASE m = k + 1
    BY <1>3, <1>4, <1>6, <2>2
  <2> QED  BY <1>5, <2>1, <2>2
<1>7. \A i, j \in 1..(n - 1) : i <= j => t.stack[j] \in Reach(t.stack[i], dim, edges)
  BY <1>1, <1>5 DEF Leads
<1>8. ASSUME NEW i \in 1..(n - 1)  PROVE \E j \in 0..(k + 1) : OpenAt(t, i, j, dim, edges)
  <2>1. PICK j \in 0..k : OpenAt(w, i, j, dim, edges)
    BY <1>5 DEF Leads
  <2>2. \A l \in 1..(i - 1) : t.stack[l] = w.stack[l]
    BY <1>1, <1>2
  <2>3. t.stack[i] = w.stack[i] /\ v \in Reach(w.stack[i], dim, edges)
    BY <1>1, <1>5 DEF Leads
  <2>4. \A m \in 1..j : t.order[m] = w.order[m] /\ m \in 1..k
    BY <1>4
  <2>5. \A m \in (j + 1)..(k + 1) : t.order[m] \in Reach(w.stack[i], dim, edges)
    <3> TAKE m \in (j + 1)..(k + 1)
    <3>1. (m \in (j + 1)..k /\ m \in 1..k) \/ m = k + 1
      OBVIOUS
    <3> QED  BY <1>4, <2>1, <2>3, <3>1 DEF OpenAt
  <2>6. j \in 0..(k + 1)
    OBVIOUS
  <2>7. OpenAt(t, i, j, dim, edges)
    <3>1. ASSUME NEW m \in 1..j, NEW x \in VerticesOf(dim), <<t.order[m], x>> \in edges
          PROVE  (\E l \in 1..j : x = t.order[l]) \/ (\E l \in 1..(i - 1) : x = t.stack[l])
      <4>1. (\E l \in 1..j : x = w.order[l]) \/ (\E l \in 1..(i - 1) : x = w.stack[l])
        BY <2>1, <2>4, <3>1 DEF OpenAt
      <4> QED  BY <2>2, <2>4, <4>1
    <3>2. \A m \in (j + 1)..Len(t.order) : t.order[m] \in Reach(t.stack[i], dim, edges)
      BY <1>4, <2>3, <2>5
    <3> QED  BY <3>1, <3>2 DEF OpenAt
  <2> QED  BY <2>6, <2>7
<1>9. ASSUME NEW h \in 1..(k + 1)  PROVE \E j \in 0..(h - 1) : ClosedAt(t.order, h, j, dim, edges)
  <2>1. CASE h \in 1..k
    <3>1. PICK j \in 0..(h - 1) : ClosedAt(w.order, h, j, dim, edges)
      BY <2>1 DEF Leads
    <3>2. \A m \in 1..h : t.order[m] = w.order[m]
      BY <1>4, <2>1
    <3>3. (\A m \in 1..j : m \in 1..h) /\ (\A m \in (j + 1)..h : m \in 1..h) /\ h \in 1..h
      OBVIOUS
    <3> QED  BY <3>1, <3>2, <3>3 DEF ClosedAt
  <2>2. CASE h = k + 1
    <3>1. PICK j \in 0..k : OpenAt(w, n, j, dim, edges)
      BY <1>5 DEF Leads
    <3>2. \A m \in 1..j : t.order[m] = w.order[m] /\ m \in 1..k
      BY <1>4
    <3>3. ASSUME NEW m \in 1..j, NEW x \in VerticesOf(dim), <<t.order[m], x>> \in edges
          PROVE  (\E l \in 1..j : x = t.order[l]) \/ (\A l \in 1..h : x # t.order[l])
      <4>1. (\E l \in 1..j : x = w.order[l]) \/ (\E l \in 1..(n - 1) : x = w.stack[l])
        BY <3>1, <3>2, <3>3 DEF OpenAt
      <4>2. ASSUME NEW l \in 1..(n - 1), x = w.stack[l]  PROVE \A i \in 1..h : x # t.order[i]
        <5>1. l \in 1..n /\ l # n
          OBVIOUS
        <5>2. x # v
          BY <1>5, <4>2, <5>1 DEF Marks, Distinct
        <5>3. ~InOrder(w, x)
          BY <4>2, <5>1 DEF Marks, OnStack
        <5> HIDE DEF v
        <5> QED  BY <1>4, <1>5, <2>2, <5>2, <5>3 DEF InOrder
      <4> QED  BY <3>2, <4>1, <4>2
    <3>4. \A m \in (j + 1)..h : t.order[m] \in Reach(v, dim, edges)
      <4> TAKE m \in (j + 1)..h
      <4>1. (m \in (j + 1)..k /\ m \in 1..k) \/ m = k + 1
        BY <2>2
      <4> QED  BY <1>2, <1>4, <3>1, <4>1, ReachSelf DEF OpenAt
    <3>5. ClosedAt(t.order, h, j, dim, edges) /\ j \in 0..(h - 1)
      BY <1>4, <2>2, <3>3, <3>4 DEF ClosedAt
    <3> QED  BY <3>5
  <2> QED  BY <1>5, <2>1, <2>2
<1> QED  BY <1>1, <1>3, <1>4, <1>6, <1>7, <1>8, <1>9 DEF Leads, t

------------------------------------------------------------------------------
(* A sequence that names each vertex once.                                 *)
LEMMA IntervalCount ==
  ASSUME NEW n \in Nat
  PROVE  IsFiniteSet(1..n) /\ Cardinality(1..n) = n
BY FS_Interval

LEMMA VerticesCount ==
  ASSUME NEW dim \in Nat
  PROVE  IsFiniteSet(VerticesOf(dim)) /\ Cardinality(VerticesOf(dim)) = dim
BY IntervalCount DEF VerticesOf

LEMMA DistinctCount ==
  ASSUME NEW dim \in Nat, NEW s \in Seq(VerticesOf(dim)), Distinct(s)
  PROVE  Len(s) <= dim /\ (Len(s) = dim => \A v \in VerticesOf(dim) : \E i \in 1..Len(s) : s[i] = v)
<1> DEFINE n == Len(s)  S == 1..n  V == VerticesOf(dim)
<1>1. n \in Nat /\ s \in [S -> V]
  OBVIOUS
<1>2. s \in Injection(S, V)
  BY <1>1 DEF Distinct, Injection, IsInjective
<1>3. IsFiniteSet(S) /\ Cardinality(S) = n /\ IsFiniteSet(V) /\ Cardinality(V) = dim
  BY <1>1, VerticesCount, IntervalCount
<1> HIDE DEF S, V
<1>4. Cardinality(S) <= Cardinality(V) /\ (Cardinality(S) = Cardinality(V) <=> s \in Surjection(S, V))
  BY <1>2, <1>3, FS_Injection
<1>5. s \in Surjection(S, V) => \A v \in V : \E i \in S : s[i] = v
  BY DEF Surjection
<1> QED  BY <1>3, <1>4, <1>5 DEF S, V

LEMMA CoverCount ==
  ASSUME NEW dim \in Nat, NEW s \in Seq(VerticesOf(dim)),
         \A v \in VerticesOf(dim) : \E i \in 1..Len(s) : s[i] = v
  PROVE  dim <= Len(s)
<1> DEFINE n == Len(s)  S == 1..n  V == VerticesOf(dim)
<1>1. n \in Nat /\ s \in [S -> V]
  OBVIOUS
<1>2. s \in Surjection(S, V)
  BY <1>1 DEF Surjection
<1>3. IsFiniteSet(S) /\ Cardinality(S) = n /\ Cardinality(V) = dim
  BY <1>1, VerticesCount, IntervalCount
<1> HIDE DEF S, V
<1>4. Cardinality(V) <= Cardinality(S)
  BY <1>2, <1>3, FS_Surjection
<1> QED  BY <1>3, <1>4

LEMMA MarkedCount ==
  ASSUME NEW dim \in Nat, NEW w \in WalksOver(dim), Marks(w, dim)
  PROVE  Len(w.stack) + Len(w.order) <= dim
<1> DEFINE a == Len(w.stack)  b == Len(w.order)
           s == [i \in 1..(a + b) |-> IF i <= a THEN w.stack[i] ELSE w.order[i - a]]
<1>1. w.stack \in Seq(VerticesOf(dim)) /\ w.order \in Seq(VerticesOf(dim))
  BY DEF WalksOver
<1>2. /\ a \in Nat /\ b \in Nat /\ Len(w.stack) = a /\ Len(w.order) = b
      /\ w.stack \in [1..a -> VerticesOf(dim)] /\ w.order \in [1..b -> VerticesOf(dim)]
  BY <1>1
<1> HIDE DEF a, b
<1>3. \A i \in 1..(a + b) : (i <= a => i \in 1..a) /\ (~(i <= a) => i - a \in 1..b)
  BY <1>2
<1>4. s \in Seq(VerticesOf(dim)) /\ Len(s) = a + b
  <2>1. s \in [1..(a + b) -> VerticesOf(dim)]
    BY <1>2, <1>3
  <2>2. a + b \in Nat
    BY <1>2
  <2> HIDE DEF s
  <2> QED  BY <2>1, <2>2
<1>5. Distinct(s)
  <2> SUFFICES ASSUME NEW i \in 1..(a + b), NEW j \in 1..(a + b), s[i] = s[j]  PROVE i = j
    BY <1>4 DEF Distinct
  <2>1. CASE i <= a /\ j <= a
    <3>1. w.stack[i] = w.stack[j] /\ i \in 1..a /\ j \in 1..a
      BY <1>3, <2>1
    <3> QED  BY <1>2, <3>1 DEF Marks, Distinct
  <2>2. CASE ~(i <= a) /\ ~(j <= a)
    <3>1. w.order[i - a] = w.order[j - a] /\ i - a \in 1..b /\ j - a \in 1..b
      BY <1>3, <2>2
    <3>2. i - a = j - a
      BY <1>2, <3>1 DEF Marks, Distinct
    <3> QED  BY <1>2, <3>2
  <2>3. ASSUME NEW x \in 1..(a + b), NEW y \in 1..(a + b), x <= a, ~(y <= a)  PROVE s[x] # s[y]
    <3>1. s[x] = w.stack[x] /\ s[y] = w.order[y - a] /\ x \in 1..a /\ y - a \in 1..b
      BY <1>3, <2>3
    <3>2. OnStack(w, s[x]) /\ InOrder(w, s[y])
      <4> HIDE DEF s
      <4> QED  BY <1>2, <3>1 DEF OnStack, InOrder
    <3> HIDE DEF s
    <3> QED  BY <3>2 DEF Marks
  <2> QED  BY <2>1, <2>2, <2>3
<1> HIDE DEF s
<1>6. Len(s) <= dim
  BY <1>4, <1>5, DistinctCount
<1> QED  BY <1>2, <1>4, <1>6

------------------------------------------------------------------------------
(* A pass ends when every vertex was called and has returned.              *)
Enumerates(s, dim) ==
  /\ s \in Seq(VerticesOf(dim)) /\ Len(s) = dim /\ Distinct(s)
  /\ \A v \in VerticesOf(dim) : \E i \in 1..dim : s[i] = v

PassInv(w, n, dim, edges) ==
  /\ w \in WalksOver(dim) /\ Marks(w, dim) /\ Leads(w, dim, edges)
  /\ n = 2 * Len(w.order) + Len(w.stack)

LEMMA PassBegins ==
  ASSUME NEW dim \in Nat, NEW edges
  PROVE  PassInv(Start, 0, dim, edges)
<1>1. Start.stack = <<>> /\ Start.order = <<>> /\ Start.trees = <<>> /\ Start \in WalksOver(dim)
  BY DEF Start, WalksOver
<1>2. \A v : v \notin Seen(Start)
  BY <1>1, SeenHas
<1>3. (\A v : ~OnStack(Start, v)) /\ (\A v : ~InOrder(Start, v))
  BY <1>1 DEF OnStack, InOrder
<1> QED  BY <1>1, <1>2, <1>3 DEF PassInv, Marks, Leads, Distinct

LEMMA OneMore ==
  ASSUME NEW a \in Nat, NEW b \in Nat
  PROVE  /\ 2 * a + b + 1 = 2 * a + (b + 1)
         /\ 2 * a + b + 1 = 2 * (a + 1) + (b - 1)
OBVIOUS

LEMMA PassStep ==
  ASSUME NEW dim \in Nat, NEW edges \in SUBSET (VerticesOf(dim) \X VerticesOf(dim)),
         NEW roots, Enumerates(roots, dim), NEW n \in 0..(2 * dim - 1),
         NEW w, PassInv(w, n, dim, edges)
  PROVE  LET t == Onward(w, roots, edges) IN
         /\ PassInv(t, n + 1, dim, edges)
         /\ Calls(w, t, roots) \/ Descends(w, t, edges) \/ Returns(w, t, edges)
<1> DEFINE t == Onward(w, roots, edges)
<1>1. /\ w \in WalksOver(dim) /\ Marks(w, dim) /\ Leads(w, dim, edges)
      /\ n = 2 * Len(w.order) + Len(w.stack) /\ roots \in Seq(VerticesOf(dim))
      /\ w.stack \in Seq(VerticesOf(dim)) /\ w.order \in Seq(VerticesOf(dim))
  BY DEF PassInv, Enumerates, WalksOver
<1>2. t \in WalksOver(dim)
  BY <1>1, OnwardIs
<1>3. ASSUME w.stack = <<>>, \A i \in 1..Len(roots) : roots[i] \in Seen(w)  PROVE FALSE
  <2>1. \A v \in VerticesOf(dim) : InOrder(w, v)
    BY <1>1, <1>3 DEF Enumerates, Marks, OnStack
  <2>2. dim <= Len(w.order)
    BY <1>1, <2>1, CoverCount DEF InOrder
  <2> QED  BY <1>1, <1>3, <2>2
<1>4. Calls(w, t, roots) \/ Descends(w, t, edges) \/ Returns(w, t, edges)
  BY <1>1, <1>3, OnwardIs
<1> HIDE DEF t
<1>5. CASE Calls(w, t, roots)
  <2>1. PICK i \in 1..Len(roots) : w.stack = <<>> /\ roots[i] \notin Seen(w) /\ t = Visit(w, roots[i])
    BY <1>5 DEF Calls
  <2>2. roots[i] \in VerticesOf(dim)
    BY <1>1
  <2>3. t.stack = <<roots[i]>> /\ t.order = w.order
    BY <1>1, <2>1, <2>2, CallIs
  <2>4. Marks(t, dim) /\ Leads(t, dim, edges)
    BY <1>1, <2>1, <2>2, CallMarks, CallLeads
  <2>5. n + 1 = 2 * Len(t.order) + Len(t.stack)
    BY <1>1, <2>1, <2>3
  <2> QED  BY <1>2, <1>4, <2>4, <2>5 DEF PassInv, t
<1>6. CASE Descends(w, t, edges)
  <2>1. PICK v \in Ahead(w, edges) : w.stack # <<>> /\ t = Descend(w, v)
    BY <1>6 DEF Descends
  <2>2. v \in VerticesOf(dim) /\ <<w.stack[Len(w.stack)], v>> \in edges /\ v \notin Seen(w)
    BY <1>1, <2>1, AheadIs
  <2>3. t.stack = Append(w.stack, v) /\ t.order = w.order
    BY <1>1, <2>1, <2>2, DescendIs
  <2>4. Marks(t, dim) /\ Leads(t, dim, edges)
    BY <1>1, <2>1, <2>2, DescendMarks, DescendLeads
  <2>5. n + 1 = 2 * Len(t.order) + Len(t.stack)
    <3>1. Len(w.stack) \in Nat /\ Len(w.order) \in Nat /\ Len(t.stack) = Len(w.stack) + 1
      BY <1>1, <2>3
    <3> QED  BY <1>1, <2>3, <3>1, OneMore
  <2> QED  BY <1>2, <1>4, <2>4, <2>5 DEF PassInv, t
<1>7. CASE Returns(w, t, edges)
  <2>1. w.stack # <<>> /\ Ahead(w, edges) = {} /\ t = Return(w)
    BY <1>7 DEF Returns
  <2>2. \A x \in VerticesOf(dim) : <<w.stack[Len(w.stack)], x>> \in edges => x \in Seen(w)
    BY <1>1, <2>1, AheadIs
  <2>3. t.order = Append(w.order, w.stack[Len(w.stack)]) /\ Len(t.stack) = Len(w.stack) - 1
    BY <1>1, <2>1, ReturnIs
  <2>4. Marks(t, dim) /\ Leads(t, dim, edges)
    BY <1>1, <2>1, <2>2, ReturnMarks, ReturnLeads
  <2>5. n + 1 = 2 * Len(t.order) + Len(t.stack)
    <3>1. Len(w.order) \in Nat /\ Len(w.stack) \in Nat /\ Len(t.order) = Len(w.order) + 1
      BY <1>1, <2>3
    <3> QED  BY <1>1, <2>3, <3>1, OneMore
  <2> QED  BY <1>2, <1>4, <2>4, <2>5 DEF PassInv, t
<1> QED  BY <1>4, <1>5, <1>6, <1>7 DEF t

LEMMA WalksAre ==
  ASSUME NEW dim \in Nat, NEW edges \in SUBSET (VerticesOf(dim) \X VerticesOf(dim)),
         NEW roots, Enumerates(roots, dim)
  PROVE  /\ Walks(roots, edges) \in [0..(2 * dim) -> WalksOver(dim)]
         /\ Walks(roots, edges)[0] = Start
         /\ \A n \in 1..(2 * dim) :
              Walks(roots, edges)[n] = Onward(Walks(roots, edges)[n - 1], roots, edges)
<1> DEFINE A == WalksOver(dim)  N == 2 * dim
           onward == [n \in 1..N |-> [w \in A |-> Onward(w, roots, edges)]]
           Is(f) == f = [n \in 0..N |-> IF n = 0 THEN Start ELSE Onward(f[n - 1], roots, edges)]
<1>1. Start \in A /\ N \in Nat /\ Len(roots) = dim /\ roots \in Seq(VerticesOf(dim))
  <2>1. Start \in A
    BY PassBegins DEF PassInv
  <2> QED  BY <2>1 DEF Enumerates
<1>2. onward \in [1..N -> [A -> A]]
  BY <1>1, OnwardIs
<1>3. PICK f : Iterates(f, N, A, Start, onward)
  <2> HIDE DEF A, N, onward
  <2> QED  BY <1>1, <1>2, IterationExists
<1>4. \A i \in 1..N : i - 1 \in 0..N /\ f[i] = Onward(f[i - 1], roots, edges)
  BY <1>1, <1>3 DEF Iterates
<1>5. Is(f)
  <2>1. \A n \in 0..N : f[n] = IF n = 0 THEN Start ELSE Onward(f[n - 1], roots, edges)
    BY <1>1, <1>3, <1>4 DEF Iterates
  <2> HIDE DEF A
  <2> QED  BY <1>3, <2>1 DEF Iterates
<1>6. Walks(roots, edges) = CHOOSE g : Is(g)
  BY <1>1 DEF Walks
<1> DEFINE W == Walks(roots, edges)
<1>7. Is(W)
  <2> HIDE DEF Is, W
  <2>1. Is(CHOOSE g : Is(g))
    BY <1>5
  <2> QED  BY <1>6, <2>1 DEF W
<1> HIDE DEF W
<1>8. DOMAIN W = 0..N /\ W[0] = Start /\ \A n \in 1..N : W[n] = Onward(W[n - 1], roots, edges)
  BY <1>1, <1>7
<1>9. \A n \in 0..N : W[n] \in A
  <2> DEFINE Bad == {n \in 0..N : W[n] \notin A}
  <2>1. ASSUME Bad # {}  PROVE FALSE
    <3>1. Bad \in SUBSET Nat
      OBVIOUS
    <3>2. PICK n \in Bad : \A m \in Bad : n <= m
      <4> HIDE DEF Bad
      <4> QED  BY <2>1, <3>1, LeastOf
    <3>3. n \in 1..N /\ n - 1 \in 0..N /\ n - 1 < n
      BY <1>1, <1>8
    <3>4. n - 1 \notin Bad
      <4> HIDE DEF Bad
      <4> QED  BY <3>1, <3>2, <3>3
    <3>5. W[n - 1] \in A
      BY <3>3, <3>4
    <3>6. W[n] \in A
      BY <1>1, <1>8, <3>3, <3>5, OnwardIs
    <3> QED  BY <3>6
  <2> QED  BY <2>1
<1>10. W \in [0..N -> A]
  <2>1. W = [n \in 0..N |-> W[n]]
    BY <1>7
  <2> HIDE DEF A
  <2> QED  BY <1>9, <2>1
<1> QED  BY <1>8, <1>10 DEF W

LEMMA PassSteps ==
  ASSUME NEW dim \in Nat, NEW edges \in SUBSET (VerticesOf(dim) \X VerticesOf(dim)),
         NEW roots, Enumerates(roots, dim), NEW n \in 0..(2 * dim)
  PROVE  PassInv(Walks(roots, edges)[n], n, dim, edges)
<1> DEFINE N == 2 * dim  W == Walks(roots, edges)
           Bad == {m \in 0..N : ~PassInv(W[m], m, dim, edges)}
<1>1. W[0] = Start /\ \A m \in 1..N : W[m] = Onward(W[m - 1], roots, edges)
  BY WalksAre
<1> HIDE DEF W
<1>2. ASSUME Bad # {}  PROVE FALSE
  <2>1. Bad \in SUBSET Nat
    OBVIOUS
  <2>2. PICK m \in Bad : \A k \in Bad : m <= k
    <3> HIDE DEF Bad
    <3> QED  BY <1>2, <2>1, LeastOf
  <2>3. m \in 0..N /\ ~PassInv(W[m], m, dim, edges)
    OBVIOUS
  <2>4. m # 0
    BY <1>1, <2>3, PassBegins
  <2>5. m \in 1..N /\ m - 1 \in 0..N /\ m - 1 < m /\ m - 1 \in 0..(N - 1) /\ (m - 1) + 1 = m
    BY <2>3, <2>4
  <2>6. m - 1 \notin Bad
    <3> HIDE DEF Bad
    <3> QED  BY <2>1, <2>2, <2>5
  <2>7. PassInv(W[m - 1], m - 1, dim, edges)
    BY <2>5, <2>6
  <2>8. PassInv(W[m], (m - 1) + 1, dim, edges)
    BY <1>1, <2>5, <2>7, PassStep
  <2> QED  BY <2>3, <2>5, <2>8
<1> QED  BY <1>2 DEF W

LEMMA PassEnds ==
  ASSUME NEW dim \in Nat, NEW edges \in SUBSET (VerticesOf(dim) \X VerticesOf(dim)),
         NEW roots, Enumerates(roots, dim)
  PROVE  LET w == Pass(roots, edges) IN
         /\ PassInv(w, 2 * dim, dim, edges) /\ w.stack = <<>>
         /\ Enumerates(w.order, dim) /\ Seen(w) = VerticesOf(dim)
<1> DEFINE w == Pass(roots, edges)
<1>1. PassInv(w, 2 * dim, dim, edges)
  BY PassSteps DEF Pass, Enumerates
<1> HIDE DEF w
<1>2. /\ w \in WalksOver(dim) /\ Marks(w, dim) /\ 2 * dim = 2 * Len(w.order) + Len(w.stack)
      /\ w.stack \in Seq(VerticesOf(dim)) /\ w.order \in Seq(VerticesOf(dim)) /\ Len(w.stack) \in Nat /\ Len(w.order) \in Nat
  BY <1>1 DEF PassInv, WalksOver
<1>3. Len(w.stack) + Len(w.order) <= dim
  BY <1>2, MarkedCount
<1>4. Len(w.order) = dim /\ Len(w.stack) = 0
  <2>1. \A a, b \in Nat : 2 * dim = 2 * a + b /\ b + a <= dim => a = dim /\ b = 0
    OBVIOUS
  <2> QED  BY <1>2, <1>3, <2>1
<1>5. \A v \in VerticesOf(dim) : \E i \in 1..dim : w.order[i] = v
  BY <1>2, <1>4, DistinctCount DEF Marks
<1>6. \A v \in VerticesOf(dim) : v \in Seen(w)
  BY <1>2, <1>4, <1>5 DEF Marks, InOrder
<1>7. Enumerates(w.order, dim)
  BY <1>2, <1>4, <1>5 DEF Enumerates, Marks
<1>8. Seen(w) = VerticesOf(dim) /\ w.stack = <<>>
  <2>1. Seen(w) \subseteq VerticesOf(dim)
    BY <1>2, SeenHas
  <2>2. w.stack = <<>>
    BY <1>2, <1>4
  <2> QED  BY <1>6, <2>1, <2>2
<1> QED  BY <1>1, <1>7, <1>8 DEF w

------------------------------------------------------------------------------
(* The order in which the first pass returns.                              *)
ReturnsWell(o, dim, edges) ==
  /\ Enumerates(o, dim)
  /\ \A k \in 1..dim : \E j \in 0..(k - 1) : ClosedAt(o, k, j, dim, edges)

LEMMA FinishOrderReturnsWell ==
  ASSUME NEW dim \in Nat, NEW edges \in SUBSET (VerticesOf(dim) \X VerticesOf(dim))
  PROVE  ReturnsWell(FinishOrder(dim, edges), dim, edges)
<1> DEFINE roots == [v \in VerticesOf(dim) |-> v]  w == Pass(roots, edges)
<1>1. roots \in Seq(VerticesOf(dim)) /\ Len(roots) = dim /\ \A i \in 1..dim : roots[i] = i
  BY DEF VerticesOf
<1>2. Enumerates(roots, dim)
  <2> HIDE DEF roots
  <2>1. \A v \in VerticesOf(dim) : v \in 1..dim /\ roots[v] = v
    BY <1>1 DEF VerticesOf
  <2> QED  BY <1>1, <2>1 DEF Enumerates, Distinct
<1> HIDE DEF roots
<1>3. PassInv(w, 2 * dim, dim, edges) /\ Enumerates(w.order, dim)
  BY <1>2, PassEnds
<1>4. FinishOrder(dim, edges) = w.order
  BY DEF FinishOrder, roots
<1> HIDE DEF w
<1> QED  BY <1>3, <1>4 DEF PassInv, Leads, Enumerates, ReturnsWell

LEMMA BackwardsEnumerates ==
  ASSUME NEW dim \in Nat, NEW o, Enumerates(o, dim)
  PROVE  /\ Enumerates(Backwards(o), dim)
         /\ \A i \in 1..dim : dim + 1 - i \in 1..dim /\ Backwards(o)[i] = o[dim + 1 - i]
<1> DEFINE b == Backwards(o)
<1>1. o \in Seq(VerticesOf(dim)) /\ Len(o) = dim /\ o \in [1..dim -> VerticesOf(dim)]
  BY DEF Enumerates
<1>2. \A i \in 1..dim : dim + 1 - i \in 1..dim /\ dim + 1 - (dim + 1 - i) = i
  OBVIOUS
<1>3. b = [i \in 1..dim |-> o[dim + 1 - i]]
  BY <1>1 DEF Backwards
<1>4. b \in [1..dim -> VerticesOf(dim)]
  BY <1>1, <1>2, <1>3
<1>5. \A i \in 1..dim : b[i] = o[dim + 1 - i]
  BY <1>3
<1> HIDE DEF b
<1>6. b \in Seq(VerticesOf(dim)) /\ Len(b) = dim
  BY <1>4
<1>7. ASSUME NEW i \in 1..dim, NEW j \in 1..dim, b[i] = b[j]  PROVE i = j
  <2>1. o[dim + 1 - i] = o[dim + 1 - j]
    BY <1>5, <1>7
  <2>2. dim + 1 - i = dim + 1 - j
    BY <1>1, <1>2, <2>1 DEF Enumerates, Distinct
  <2> QED  BY <2>2
<1>8. ASSUME NEW v \in VerticesOf(dim)  PROVE \E i \in 1..dim : b[i] = v
  <2>1. PICK i \in 1..dim : o[i] = v
    BY DEF Enumerates
  <2>2. b[dim + 1 - i] = v /\ dim + 1 - i \in 1..dim
    BY <1>2, <1>5, <2>1
  <2> QED  BY <2>2
<1> QED  BY <1>2, <1>5, <1>6, <1>7, <1>8 DEF Enumerates, Distinct, b

LEMMA ReversedIs ==
  ASSUME NEW V, NEW edges \in SUBSET (V \X V)
  PROVE  /\ Reversed(edges) \in SUBSET (V \X V)
         /\ \A x, y : <<x, y>> \in Reversed(edges) <=> <<y, x>> \in edges
<1>1. ASSUME NEW p \in Reversed(edges)  PROVE p \in V \X V /\ <<p[2], p[1]>> \in edges
  <2>1. PICK e \in edges : p = <<e[2], e[1]>>
    BY DEF Reversed
  <2>2. e \in V \X V /\ e = <<e[1], e[2]>>
    OBVIOUS
  <2> QED  BY <2>1, <2>2
<1>2. ASSUME NEW x, NEW y, <<x, y>> \in Reversed(edges)  PROVE <<y, x>> \in edges
  <2>1. <<x, y>>[1] = x /\ <<x, y>>[2] = y
    OBVIOUS
  <2> QED  BY <1>1, <1>2, <2>1
<1>3. ASSUME NEW x, NEW y, <<y, x>> \in edges  PROVE <<x, y>> \in Reversed(edges)
  <2>1. <<y, x>>[1] = y /\ <<y, x>>[2] = x
    OBVIOUS
  <2> QED  BY <1>3, <2>1 DEF Reversed
<1> QED  BY <1>1, <1>2, <1>3

------------------------------------------------------------------------------
(* The trees of the second pass are the components.  A tree that grows has *)
(* the last vertex k of the order that no complete tree took, and of the   *)
(* vertices that lead to it only such as returned while k was called.      *)
Component(r, dim, edges) == {v \in VerticesOf(dim) : Mutual(r, v, dim, edges)}

Whole(w) == IF w.stack = <<>> THEN Len(w.trees) ELSE Len(w.trees) - 1
InWhole(w, v) == \E i \in 1..Whole(w) : v \in w.trees[i]

Growing(w, k, j, o, dim, edges) ==
  LET tree == w.trees[Len(w.trees)] IN
  /\ ClosedAt(o, k, j, dim, edges) /\ \A l \in (k + 1)..dim : InWhole(w, o[l])
  /\ o[k] \in tree /\ \A i \in 1..Len(w.stack) : w.stack[i] \in tree
  /\ \A u \in tree :
       /\ ~InWhole(w, u) /\ o[k] \in Reach(u, dim, edges)
       /\ \E l \in (j + 1)..k : o[l] = u

TreesInv(w, o, dim, edges) ==
  /\ \A i \in 1..Whole(w) : \E r \in VerticesOf(dim) : w.trees[i] = Component(r, dim, edges)
  /\ \A x, y \in VerticesOf(dim) : <<x, y>> \in edges /\ InWhole(w, y) => InWhole(w, x)
  /\ w.stack # <<>> => \E k \in 1..dim : \E j \in 0..(k - 1) : Growing(w, k, j, o, dim, edges)

LEMMA TreesCall ==
  ASSUME NEW dim \in Nat, NEW edges \in SUBSET (VerticesOf(dim) \X VerticesOf(dim)),
         NEW o, ReturnsWell(o, dim, edges), NEW w \in WalksOver(dim),
         TreesInv(w, o, dim, edges), NEW t, Calls(w, t, Backwards(o))
  PROVE  TreesInv(t, o, dim, edges)
<1> DEFINE n == Len(w.trees)
<1>1. Enumerates(o, dim) /\ Len(Backwards(o)) = dim
  BY BackwardsEnumerates DEF ReturnsWell, Enumerates
<1>2. PICK i \in 1..dim :
        /\ w.stack = <<>> /\ Backwards(o)[i] \notin Seen(w) /\ t = Visit(w, Backwards(o)[i])
        /\ \A h \in 1..(i - 1) : Backwards(o)[h] \in Seen(w)
  BY <1>1 DEF Calls
<1> DEFINE k == dim + 1 - i  r == o[k]
<1>3. k \in 1..dim /\ r \in VerticesOf(dim) /\ Backwards(o)[i] = r
  <2>1. k \in 1..dim
    OBVIOUS
  <2>2. Backwards(o)[i] = r
    BY <1>1, BackwardsEnumerates
  <2>3. o \in [1..dim -> VerticesOf(dim)]
    BY <1>1 DEF Enumerates
  <2> HIDE DEF k
  <2> QED  BY <2>1, <2>2, <2>3
<1>4. t.stack = <<r>> /\ t.trees = Append(w.trees, {r})
  BY <1>2, <1>3, CallIs
<1>5. w.trees \in Seq(SUBSET VerticesOf(dim)) /\ n \in Nat
  BY DEF WalksOver
<1>6. Len(t.trees) = n + 1 /\ t.trees[n + 1] = {r} /\ \A h \in 1..n : t.trees[h] = w.trees[h]
  BY <1>4, <1>5
<1>7. Whole(t) = n /\ Whole(w) = n /\ t.stack # <<>>
  BY <1>2, <1>4, <1>5, <1>6 DEF Whole
<1>8. \A v : InWhole(w, v) <=> v \in Seen(w)
  BY <1>7, SeenHas DEF InWhole
<1>9. \A v : InWhole(t, v) <=> InWhole(w, v)
  BY <1>6, <1>7 DEF InWhole
<1>10. PICK j \in 0..(k - 1) : ClosedAt(o, k, j, dim, edges)
  BY <1>3 DEF ReturnsWell
<1>11. ASSUME NEW l \in (k + 1)..dim  PROVE InWhole(t, o[l])
  <2>1. dim + 1 - l \in 1..(i - 1) /\ dim + 1 - l \in 1..dim /\ dim + 1 - (dim + 1 - l) = l
    BY <1>3
  <2>2. Backwards(o)[dim + 1 - l] = o[l]
    BY <1>1, <2>1, BackwardsEnumerates
  <2> QED  BY <1>2, <1>8, <1>9, <2>1, <2>2
<1>12. Growing(t, k, j, o, dim, edges)
  <2>1. ~InWhole(t, r) /\ r \in Reach(r, dim, edges) /\ k \in (j + 1)..k
    BY <1>2, <1>3, <1>8, <1>9, ReachSelf
  <2>2. \A h \in 1..Len(t.stack) : t.stack[h] = r
    BY <1>4
  <2> QED  BY <1>6, <1>10, <1>11, <2>1, <2>2 DEF Growing
<1>13. \A h \in 1..Whole(t) : \E s \in VerticesOf(dim) : t.trees[h] = Component(s, dim, edges)
  BY <1>6, <1>7 DEF TreesInv
<1> QED  BY <1>3, <1>9, <1>12, <1>13 DEF TreesInv

LEMMA TreesDescend ==
  ASSUME NEW dim \in Nat, NEW edges \in SUBSET (VerticesOf(dim) \X VerticesOf(dim)),
         NEW o, ReturnsWell(o, dim, edges), NEW w \in WalksOver(dim), Marks(w, dim),
         TreesInv(w, o, dim, edges), NEW t, Descends(w, t, Reversed(edges))
  PROVE  TreesInv(t, o, dim, edges)
<1> DEFINE n == Len(w.trees)  m == Len(w.stack)  top == w.stack[m]
<1>1. PICK v \in Ahead(w, Reversed(edges)) : w.stack # <<>> /\ t = Descend(w, v)
  BY DEF Descends
<1>2. v \in VerticesOf(dim) /\ <<v, top>> \in edges /\ v \notin Seen(w)
  <2>1. Reversed(edges) \in SUBSET (VerticesOf(dim) \X VerticesOf(dim))
    BY ReversedIs
  <2>2. v \in VerticesOf(dim) /\ <<top, v>> \in Reversed(edges) /\ v \notin Seen(w)
    BY <1>1, <2>1, AheadIs
  <2> QED  BY <2>2, ReversedIs
<1>3. /\ t.stack = Append(w.stack, v) /\ Len(t.trees) = n
      /\ \A i \in 1..n : t.trees[i] = IF i = n THEN w.trees[i] \cup {v} ELSE w.trees[i]
  <2>1. v \in VerticesOf(dim) /\ t = Descend(w, v)
    BY <1>1, <1>2
  <2> QED  BY <2>1, DescendIs, Zenon
<1>4. /\ w.trees \in Seq(SUBSET VerticesOf(dim)) /\ n \in Nat \ {0}
      /\ w.stack \in Seq(VerticesOf(dim)) /\ m \in Nat \ {0}
  BY <1>1 DEF WalksOver, Marks
<1>5. /\ Len(t.stack) = m + 1 /\ t.stack[m + 1] = v /\ t.stack # <<>>
      /\ \A i \in 1..m : t.stack[i] = w.stack[i]
  BY <1>3, <1>4
<1>6. Whole(t) = n - 1 /\ Whole(w) = n - 1
  BY <1>1, <1>3, <1>4, <1>5 DEF Whole
<1>7. (\A i \in 1..(n - 1) : i \in 1..n /\ i # n) /\ n \in 1..n /\ m \in 1..m
  BY <1>4
<1>8. \A i \in 1..(n - 1) : t.trees[i] = w.trees[i] /\ i \in 1..n
  <2> HIDE DEF n
  <2> QED  BY <1>3, <1>7
<1>9. t.trees[n] = w.trees[n] \cup {v}
  <2> HIDE DEF n
  <2> QED  BY <1>3, <1>7
<1>10. \A x : InWhole(t, x) <=> InWhole(w, x)
  BY <1>6, <1>8 DEF InWhole
<1>11. ~InWhole(w, v)
  BY <1>2, <1>6, <1>8, SeenHas DEF InWhole
<1>12. PICK k \in 1..dim, j \in 0..(dim - 1) : j \in 0..(k - 1) /\ Growing(w, k, j, o, dim, edges)
  <2>1. PICK k \in 1..dim : \E j \in 0..(k - 1) : Growing(w, k, j, o, dim, edges)
    BY <1>1 DEF TreesInv
  <2>2. PICK j \in 0..(k - 1) : Growing(w, k, j, o, dim, edges)
    BY <2>1
  <2>3. j \in 0..(dim - 1)
    OBVIOUS
  <2> QED  BY <2>2, <2>3
<1>13. /\ ClosedAt(o, k, j, dim, edges) /\ \A l \in (k + 1)..dim : InWhole(w, o[l])
       /\ o[k] \in w.trees[n] /\ \A i \in 1..m : w.stack[i] \in w.trees[n]
       /\ \A u \in w.trees[n] :
            /\ ~InWhole(w, u) /\ o[k] \in Reach(u, dim, edges)
            /\ \E l \in (j + 1)..k : o[l] = u
  BY <1>12 DEF Growing
<1>14. top \in w.trees[n] /\ top \in VerticesOf(dim)
  <2>1. top \in VerticesOf(dim)
    BY <1>4
  <2> HIDE DEF m, n
  <2> QED  BY <1>13, <1>7, <2>1
<1>15. o[k] \in Reach(v, dim, edges)
  <2>1. top \in Reach(v, dim, edges)
    BY <1>2, ReachSelf, ReachStep
  <2> QED  BY <1>13, <1>14, <2>1, ReachTrans
<1>16. \E l \in (j + 1)..k : o[l] = v
  <2>1. Enumerates(o, dim) /\ Len(o) = dim /\ \A a, b \in 1..dim : o[a] = o[b] => a = b
    BY DEF ReturnsWell, Enumerates, Distinct
  <2>2. PICK l \in 1..dim : o[l] = v
    BY <1>2, <2>1 DEF Enumerates
  <2>3. l <= k
    BY <1>11, <1>13, <2>2
  <2>4. ASSUME l <= j  PROVE FALSE
    <3>1. l \in 1..j
      BY <2>4
    <3>2. (\E q \in 1..j : top = o[q]) \/ (\A q \in 1..k : top # o[q])
      BY <1>2, <1>13, <1>14, <2>2, <3>1 DEF ClosedAt
    <3>3. PICK q \in (j + 1)..k : o[q] = top
      BY <1>13, <1>14
    <3>4. \A p \in 1..j : p \in 1..dim /\ p # q
      BY <1>12, <3>3
    <3>5. q \in 1..k /\ q \in 1..dim
      BY <1>12
    <3> QED  BY <2>1, <3>2, <3>3, <3>4, <3>5
  <2>5. l \in (j + 1)..k
    BY <1>12, <2>3, <2>4
  <2> QED  BY <2>2, <2>5
<1>17. Growing(t, k, j, o, dim, edges)
  <2>1. \A i \in 1..(m + 1) : i \in 1..m \/ i = m + 1
    BY <1>4
  <2>2. \A i \in 1..Len(t.stack) : t.stack[i] \in t.trees[n]
    BY <1>5, <1>9, <1>13, <2>1
  <2>3. \A u \in t.trees[n] :
          ~InWhole(t, u) /\ o[k] \in Reach(u, dim, edges) /\ \E l \in (j + 1)..k : o[l] = u
    BY <1>9, <1>10, <1>11, <1>13, <1>15, <1>16
  <2>4. \A l \in (k + 1)..dim : InWhole(t, o[l])
    BY <1>10, <1>13
  <2>5. o[k] \in t.trees[n]
    BY <1>9, <1>13
  <2> QED  BY <1>3, <1>13, <2>2, <2>3, <2>4, <2>5 DEF Growing
<1>18. \A i \in 1..Whole(t) : \E s \in VerticesOf(dim) : t.trees[i] = Component(s, dim, edges)
  BY <1>6, <1>8 DEF TreesInv
<1> QED  BY <1>10, <1>12, <1>17, <1>18 DEF TreesInv

LEMMA TreesReturn ==
  ASSUME NEW dim \in Nat, NEW edges \in SUBSET (VerticesOf(dim) \X VerticesOf(dim)),
         NEW o, ReturnsWell(o, dim, edges), NEW w \in WalksOver(dim), Marks(w, dim),
         TreesInv(w, o, dim, edges), NEW t, Returns(w, t, Reversed(edges)),
         Marks(t, dim), Leads(t, dim, Reversed(edges))
  PROVE  TreesInv(t, o, dim, edges)
<1> DEFINE n == Len(w.trees)  m == Len(w.stack)  V == VerticesOf(dim)
<1>1. w.stack # <<>> /\ t = Return(w) /\ t \in WalksOver(dim)
  BY ReturnIs DEF Returns
<1>2. /\ t.trees = w.trees /\ Len(t.stack) = m - 1
      /\ \A i \in 1..(m - 1) : t.stack[i] = w.stack[i]
  BY <1>1, ReturnIs
<1>3. /\ n \in Nat \ {0} /\ m \in Nat \ {0} /\ w.stack \in Seq(V) /\ t.stack \in Seq(V)
      /\ w.trees \in Seq(SUBSET V)
  BY <1>1 DEF WalksOver, Marks
<1>4. Whole(w) = n - 1
  BY <1>1 DEF Whole
<1>5. PICK k \in 1..dim, j \in 0..(dim - 1) : j \in 0..(k - 1) /\ Growing(w, k, j, o, dim, edges)
  <2>1. PICK k \in 1..dim : \E j \in 0..(k - 1) : Growing(w, k, j, o, dim, edges)
    BY <1>1 DEF TreesInv
  <2>2. PICK j \in 0..(k - 1) : Growing(w, k, j, o, dim, edges)
    BY <2>1
  <2>3. j \in 0..(dim - 1)
    OBVIOUS
  <2> QED  BY <2>2, <2>3
<1> DEFINE tree == w.trees[n]  r == o[k]
<1>6. /\ ClosedAt(o, k, j, dim, edges) /\ \A l \in (k + 1)..dim : InWhole(w, o[l])
      /\ r \in tree /\ \A i \in 1..m : w.stack[i] \in tree
      /\ \A u \in tree :
           /\ ~InWhole(w, u) /\ r \in Reach(u, dim, edges)
           /\ \E l \in (j + 1)..k : o[l] = u
  BY <1>5 DEF Growing
<1>7. CASE m # 1
  <2>1. t.stack # <<>>
    <3>1. m - 1 # 0
      BY <1>3, <1>7
    <3> HIDE DEF m
    <3> QED  BY <1>2, <3>1
  <2>2. Whole(t) = n - 1
    BY <1>2, <2>1 DEF Whole
  <2>3. \A x : InWhole(t, x) <=> InWhole(w, x)
    BY <1>2, <1>4, <2>2 DEF InWhole
  <2>4. \A i \in 1..(m - 1) : i \in 1..m
    BY <1>3
  <2>5. \A i \in 1..Len(t.stack) : t.stack[i] \in tree
    <3> HIDE DEF m, tree
    <3> QED  BY <1>2, <1>6, <2>4
  <2>6. Growing(t, k, j, o, dim, edges)
    BY <1>2, <1>6, <2>3, <2>5 DEF Growing
  <2>7. \A i \in 1..Whole(t) : \E s \in V : t.trees[i] = Component(s, dim, edges)
    BY <1>2, <1>4, <2>2 DEF TreesInv
  <2> QED  BY <1>5, <2>3, <2>6, <2>7 DEF TreesInv
<1>8. CASE m = 1
  <2>1. t.stack = <<>> /\ Whole(t) = n
    <3>1. t.stack = <<>>
      BY <1>2, <1>3, <1>8
    <3> QED  BY <1>2, <3>1 DEF Whole
  <2>2. \A x : InWhole(t, x) <=> x \in Seen(t)
    BY <1>1, <1>2, <2>1, SeenHas DEF InWhole
  <2>3. \A x : InWhole(t, x) <=> InWhole(w, x) \/ x \in tree
    <3>1. \A i : i \in 1..n <=> i \in 1..(n - 1) \/ i = n
      BY <1>3
    <3> HIDE DEF n
    <3> QED  BY <1>2, <1>4, <2>1, <3>1 DEF InWhole
  <2>4. ASSUME NEW x \in V, NEW y \in V, <<x, y>> \in edges, InWhole(t, y)  PROVE InWhole(t, x)
    <3>1. InOrder(t, y)
      BY <2>1, <2>2, <2>4 DEF Marks, OnStack
    <3>2. <<y, x>> \in Reversed(edges)
      BY <2>4, ReversedIs
    <3>3. x \in Seen(t)
      BY <3>1, <3>2 DEF Leads, InOrder
    <3> QED  BY <2>2, <3>3
  <2>5. r \in V /\ tree \subseteq V
    <3>1. o \in [1..dim -> V]
      BY DEF ReturnsWell, Enumerates
    <3>2. tree \in SUBSET V
      BY <1>3
    <3> QED  BY <3>1, <3>2
  <2>6. ASSUME NEW u \in tree  PROVE u \in Component(r, dim, edges)
    <3>1. PICK l \in (j + 1)..k : o[l] = u
      BY <1>6
    <3>2. u \in Reach(r, dim, edges)
      BY <1>6, <3>1 DEF ClosedAt
    <3> QED  BY <1>6, <2>5, <3>2 DEF Component, Mutual
  <2>7. ASSUME NEW v \in Component(r, dim, edges), v \notin tree  PROVE FALSE
    <3> DEFINE S == {y \in V : y \notin tree /\ y \in Reach(r, dim, edges)}
    <3>1. v \in V /\ v \in Reach(r, dim, edges) /\ r \in Reach(v, dim, edges)
      BY DEF Component, Mutual
    <3>2. ASSUME NEW e \in edges, e[1] \in S  PROVE e[2] \in S
      <4> DEFINE y == e[1]  z == e[2]
      <4>1. y \in V /\ z \in V /\ <<y, z>> \in edges /\ y \notin tree /\ y \in Reach(r, dim, edges)
        BY <3>2
      <4> HIDE DEF y, z
      <4>2. z \in Reach(r, dim, edges)
        BY <4>1, ReachStep
      <4>3. ASSUME z \in tree  PROVE FALSE
        <5>1. InWhole(w, y)
          BY <2>3, <2>4, <4>1, <4>3
        <5>2. PICK i \in 1..(n - 1) : y \in w.trees[i]
          BY <1>4, <5>1 DEF InWhole
        <5>3. PICK s \in V : w.trees[i] = Component(s, dim, edges)
          BY <1>4 DEF TreesInv
        <5>4. y \in Reach(s, dim, edges) /\ s \in Reach(y, dim, edges)
          BY <5>2, <5>3 DEF Component, Mutual
        <5>5. r \in Reach(y, dim, edges)
          <6>1. z \in Reach(y, dim, edges)
            BY <4>1, ReachSelf, ReachStep
          <6> QED  BY <1>6, <4>3, <6>1, ReachTrans
        <5>6. r \in Reach(s, dim, edges)
          BY <5>4, <5>5, ReachTrans
        <5>7. s \in Reach(r, dim, edges)
          BY <4>1, <5>4, ReachTrans
        <5>8. InWhole(w, r)
          BY <1>4, <2>5, <5>3, <5>6, <5>7 DEF InWhole, Component, Mutual
        <5> QED  BY <1>6, <5>8
      <4> QED  BY <4>1, <4>2, <4>3 DEF y, z
    <3>3. S \in SUBSET V /\ v \in S /\ Closed(S, edges)
      BY <2>7, <3>1, <3>2 DEF Closed
    <3>4. r \in S
      <4> HIDE DEF S
      <4> QED  BY <3>1, <3>3 DEF Reach
    <3> QED  BY <1>6, <3>4
  <2>8. tree = Component(r, dim, edges)
    BY <2>6, <2>7
  <2>9. ASSUME NEW i \in 1..Whole(t)  PROVE \E s \in V : t.trees[i] = Component(s, dim, edges)
    <3>1. i \in 1..(n - 1) \/ i = n
      BY <1>3, <2>1
    <3>2. CASE i \in 1..(n - 1)
      BY <1>2, <1>4, <3>2 DEF TreesInv
    <3>3. CASE i = n
      BY <1>2, <2>5, <2>8, <3>3
    <3> QED  BY <3>1, <3>2, <3>3
  <2> QED  BY <2>1, <2>4, <2>9 DEF TreesInv
<1> QED  BY <1>7, <1>8

LEMMA TreesSteps ==
  ASSUME NEW dim \in Nat, NEW edges \in SUBSET (VerticesOf(dim) \X VerticesOf(dim)),
         NEW o, ReturnsWell(o, dim, edges), NEW n \in 0..(2 * dim)
  PROVE  TreesInv(Walks(Backwards(o), Reversed(edges))[n], o, dim, edges)
<1> DEFINE N == 2 * dim  back == Reversed(edges)  roots == Backwards(o)
           W == Walks(roots, back)
           Bad == {m \in 0..N : ~TreesInv(W[m], o, dim, edges)}
<1>1. Enumerates(roots, dim) /\ back \in SUBSET (VerticesOf(dim) \X VerticesOf(dim))
  BY BackwardsEnumerates, ReversedIs DEF ReturnsWell
<1> HIDE DEF back, roots
<1>2. W[0] = Start /\ \A m \in 1..N : W[m] = Onward(W[m - 1], roots, back)
  BY <1>1, WalksAre
<1>3. \A m \in 0..N : PassInv(W[m], m, dim, back)
  BY <1>1, PassSteps
<1> HIDE DEF W
<1>4. ASSUME Bad # {}  PROVE FALSE
  <2>1. Bad \in SUBSET Nat
    OBVIOUS
  <2>2. PICK m \in Bad : \A k \in Bad : m <= k
    <3> HIDE DEF Bad
    <3> QED  BY <1>4, <2>1, LeastOf
  <2>3. m \in 0..N /\ ~TreesInv(W[m], o, dim, edges)
    OBVIOUS
  <2>4. TreesInv(Start, o, dim, edges)
    <3>1. Start.stack = <<>> /\ Start.trees = <<>>
      BY DEF Start
    <3>2. Whole(Start) = 0
      BY <3>1 DEF Whole
    <3> QED  BY <3>1, <3>2 DEF TreesInv, InWhole
  <2>5. m \in 1..N /\ m - 1 \in 0..N /\ m - 1 < m /\ m - 1 \in 0..(N - 1) /\ (m - 1) + 1 = m
    <3>1. m # 0
      BY <1>2, <2>3, <2>4
    <3> QED  BY <2>3, <3>1
  <2>6. m - 1 \notin Bad
    <3> HIDE DEF Bad
    <3> QED  BY <2>1, <2>2, <2>5
  <2>7. TreesInv(W[m - 1], o, dim, edges)
    BY <2>5, <2>6
  <2> DEFINE w == W[m - 1]  t == W[m]
  <2>8. PassInv(w, m - 1, dim, back) /\ PassInv(t, m, dim, back) /\ t = Onward(w, roots, back)
    BY <1>2, <1>3, <2>3, <2>5
  <2> HIDE DEF w, t
  <2>9. Calls(w, t, roots) \/ Descends(w, t, back) \/ Returns(w, t, back)
    BY <1>1, <2>5, <2>8, PassStep
  <2>10. /\ w \in WalksOver(dim) /\ Marks(w, dim) /\ Marks(t, dim) /\ Leads(t, dim, back)
         /\ TreesInv(w, o, dim, edges)
    BY <2>7, <2>8 DEF PassInv, w
  <2>11. TreesInv(t, o, dim, edges)
    <3>1. CASE Calls(w, t, roots)
      BY <2>10, <3>1, TreesCall DEF roots
    <3>2. CASE Descends(w, t, back)
      BY <2>10, <3>2, TreesDescend DEF back
    <3>3. CASE Returns(w, t, back)
      BY <2>10, <3>3, TreesReturn DEF back
    <3> QED  BY <2>9, <3>1, <3>2, <3>3
  <2> QED  BY <2>3, <2>11 DEF t
<1> QED  BY <1>4 DEF W, back, roots

(* validate_scc_certificate's two passes derive the strongly connected     *)
(* components: each is the set of vertices mutual with one of its own, and *)
(* every vertex is in one.                                                 *)
THEOREM PassesFindComponents ==
  ASSUME NEW dim \in Nat, NEW edges \in SUBSET (VerticesOf(dim) \X VerticesOf(dim))
  PROVE  DerivedComponents(dim, edges) = {Component(v, dim, edges) : v \in VerticesOf(dim)}
<1> DEFINE o == FinishOrder(dim, edges)  w == Pass(Backwards(o), Reversed(edges))  V == VerticesOf(dim)
<1>1. ReturnsWell(o, dim, edges)
  BY FinishOrderReturnsWell
<1> HIDE DEF o
<1>2. Enumerates(Backwards(o), dim) /\ Reversed(edges) \in SUBSET (V \X V)
  BY <1>1, BackwardsEnumerates, ReversedIs DEF ReturnsWell
<1>3. w = Walks(Backwards(o), Reversed(edges))[2 * dim]
  BY <1>2 DEF Pass, Enumerates
<1>4. TreesInv(w, o, dim, edges)
  <2>1. 2 * dim \in 0..(2 * dim)
    OBVIOUS
  <2> QED  BY <1>1, <1>3, <2>1, TreesSteps
<1>5. w.stack = <<>> /\ Seen(w) = V /\ w \in WalksOver(dim)
  BY <1>2, PassEnds DEF PassInv
<1> HIDE DEF w
<1> DEFINE n == Len(w.trees)
<1>6. /\ Range(w.trees) = {w.trees[i] : i \in 1..n} /\ Whole(w) = n
      /\ \A v : v \in V <=> \E i \in 1..n : v \in w.trees[i]
  <2>1. w.trees \in Seq(SUBSET V)
    BY <1>5 DEF WalksOver
  <2>2. Range(w.trees) = {w.trees[i] : i \in 1..n}
    BY <2>1 DEF Range
  <2> QED  BY <1>5, <2>2, SeenHas DEF Whole
<1>7. \A i \in 1..n : \E r \in V : w.trees[i] = Component(r, dim, edges)
  BY <1>4, <1>6 DEF TreesInv
<1>8. ASSUME NEW v \in V  PROVE \E i \in 1..n : w.trees[i] = Component(v, dim, edges)
  <2>1. PICK i \in 1..n : v \in w.trees[i]
    BY <1>6
  <2>2. PICK r \in V : w.trees[i] = Component(r, dim, edges)
    BY <1>7
  <2>3. Mutual(r, v, dim, edges)
    BY <2>1, <2>2 DEF Component
  <2>4. \A x \in V : Mutual(r, x, dim, edges) <=> Mutual(v, x, dim, edges)
    BY <2>3, ReachTrans DEF Mutual
  <2>5. Component(r, dim, edges) = Component(v, dim, edges)
    BY <2>4 DEF Component
  <2> QED  BY <2>2, <2>5
<1> HIDE DEF n
<1>9. Range(w.trees) = {Component(v, dim, edges) : v \in V}
  BY <1>6, <1>7, <1>8
<1> QED  BY <1>9 DEF DerivedComponents, w, o

------------------------------------------------------------------------------
(* Which block a vertex is in.                                             *)
LEMMA BlockOfIs ==
  ASSUME NEW dim \in Nat, NEW components \in Seq(SUBSET Nat), Partitions(components, dim),
         NEW v \in VerticesOf(dim)
  PROVE  /\ BlockOf(components, v) \in 1..Len(components) /\ v \in components[BlockOf(components, v)]
         /\ \A i \in 1..Len(components) : v \in components[i] => i = BlockOf(components, v)
<1>1. PICK i \in 1..Len(components) : v \in components[i]
  BY DEF Partitions
<1>2. BlockOf(components, v) \in 1..Len(components) /\ v \in components[BlockOf(components, v)]
  BY <1>1 DEF BlockOf
<1>3. ASSUME NEW j \in 1..Len(components), v \in components[j]  PROVE j = BlockOf(components, v)
  BY <1>2, <1>3 DEF Partitions
<1> QED  BY <1>2, <1>3

LEMMA AcceptedBlocks ==
  ASSUME NEW dim \in Nat, NEW c, c.components \in Seq(SUBSET Nat), NEW edges, Accepts(c, dim, edges),
         NEW v \in VerticesOf(dim), NEW u \in VerticesOf(dim)
  PROVE  BlockOf(c.components, v) = BlockOf(c.components, u) <=> Mutual(v, u, dim, edges)
<1> DEFINE C == c.components  V == VerticesOf(dim)
<1>1. /\ edges \in SUBSET (V \X V) /\ Partitions(C, dim) /\ Range(C) = DerivedComponents(dim, edges)
      /\ C \in Seq(SUBSET Nat)
  BY DEF Accepts
<1>2. Range(C) = {Component(r, dim, edges) : r \in V}
  BY <1>1, PassesFindComponents
<1>3. Range(C) = {C[i] : i \in 1..Len(C)}
  BY <1>1 DEF Range
<1> HIDE DEF C
<1>4. PICK r \in V : C[BlockOf(C, v)] = Component(r, dim, edges)
  <2>1. BlockOf(C, v) \in 1..Len(C)
    BY <1>1, BlockOfIs
  <2>2. C[BlockOf(C, v)] \in Range(C)
    BY <1>3, <2>1
  <2> QED  BY <1>2, <2>2
<1>5. Mutual(r, v, dim, edges)
  BY <1>1, <1>4, BlockOfIs DEF Component
<1>6. u \in C[BlockOf(C, v)] <=> Mutual(v, u, dim, edges)
  BY <1>4, <1>5, ReachTrans DEF Component, Mutual
<1>7. u \in C[BlockOf(C, v)] <=> BlockOf(C, v) = BlockOf(C, u)
  BY <1>1, BlockOfIs
<1> QED  BY <1>6, <1>7 DEF C

LEMMA CondensationJoinsBlocks ==
  ASSUME NEW dim \in Nat, NEW components \in Seq(SUBSET Nat), Partitions(components, dim),
         NEW edges \in SUBSET (VerticesOf(dim) \X VerticesOf(dim))
  PROVE  \A p \in DerivedCondensation(components, edges) :
           /\ p \in (1..Len(components)) \X (1..Len(components)) /\ p[1] # p[2]
<1> TAKE p \in DerivedCondensation(components, edges)
<1>1. PICK e \in edges :
        p = <<BlockOf(components, e[1]), BlockOf(components, e[2])>> /\ p[1] # p[2]
  BY DEF DerivedCondensation
<1>2. e[1] \in VerticesOf(dim) /\ e[2] \in VerticesOf(dim)
  OBVIOUS
<1> QED  BY <1>1, <1>2, BlockOfIs

------------------------------------------------------------------------------
(* Where the entries of the matrix are.                                    *)
RowBefore(p, q) == p[2] < q[2] \/ (p[2] = q[2] /\ p[1] < q[1])

LEMMA RowsAscend ==
  ASSUME NEW entries \in Seq([edge : Nat \X Nat, zero : BOOLEAN]), RowByRow(entries)
  PROVE  \A i, j \in 1..Len(entries) : i < j => RowBefore(entries[i].edge, entries[j].edge)
<1> SUFFICES ASSUME NEW i \in 1..Len(entries)
             PROVE  \A j \in 1..Len(entries) : i < j => RowBefore(entries[i].edge, entries[j].edge)
  OBVIOUS
<1> DEFINE n == Len(entries)
           Bad == {j \in 1..n : i < j /\ ~RowBefore(entries[i].edge, entries[j].edge)}
<1>1. \A j \in 1..n : entries[j].edge \in Nat \X Nat
  <2> DEFINE Entry == [edge : Nat \X Nat, zero : BOOLEAN]
  <2>1. \A x \in Entry : x.edge \in Nat \X Nat
    OBVIOUS
  <2>2. entries \in Seq(Entry)
    OBVIOUS
  <2> HIDE DEF Entry
  <2>3. \A j \in 1..n : entries[j] \in Entry
    BY <2>2
  <2> QED  BY <2>1, <2>3
<1>2. \A j \in 1..n : entries[j].edge[1] \in Nat /\ entries[j].edge[2] \in Nat
  BY <1>1
<1>3. \A j \in 1..(n - 1) : RowBefore(entries[j].edge, entries[j + 1].edge)
  BY DEF RowByRow, RowBefore
<1>4. n \in Nat
  OBVIOUS
<1> HIDE DEF n
<1>5. ASSUME Bad # {}  PROVE FALSE
  <2>1. Bad \in SUBSET Nat
    BY <1>4
  <2>2. PICK j \in Bad : \A k \in Bad : j <= k
    <3> HIDE DEF Bad
    <3> QED  BY <1>5, <2>1, LeastOf
  <2>3. j \in 1..n /\ i < j /\ i \in 1..n /\ ~RowBefore(entries[i].edge, entries[j].edge)
    BY DEF n
  <2>4. j - 1 \in 1..(n - 1) /\ j - 1 \in 1..n /\ (j - 1) + 1 = j /\ j - 1 < j /\ (i = j - 1 \/ i < j - 1)
    BY <1>4, <2>3
  <2>5. RowBefore(entries[j - 1].edge, entries[j].edge)
    BY <1>3, <2>4
  <2>6. i < j - 1
    BY <2>3, <2>4, <2>5
  <2>7. j - 1 \notin Bad
    <3>1. j \in Nat /\ j - 1 \in Nat /\ ~(j <= j - 1)
      BY <1>4, <2>3
    <3> HIDE DEF Bad
    <3> QED  BY <2>2, <3>1
  <2>8. RowBefore(entries[i].edge, entries[j - 1].edge)
    BY <2>4, <2>6, <2>7
  <2>9. \A a1, a2, b1, b2, c1, c2 \in Nat :
          (a2 < b2 \/ (a2 = b2 /\ a1 < b1)) /\ (b2 < c2 \/ (b2 = c2 /\ b1 < c1))
          => (a2 < c2 \/ (a2 = c2 /\ a1 < c1))
    OBVIOUS
  <2> DEFINE a == entries[i].edge  b == entries[j - 1].edge  c == entries[j].edge
  <2>10. a[1] \in Nat /\ a[2] \in Nat /\ b[1] \in Nat /\ b[2] \in Nat /\ c[1] \in Nat /\ c[2] \in Nat
    BY <1>2, <2>3, <2>4
  <2>11. RowBefore(a, b) /\ RowBefore(b, c) => RowBefore(a, c)
    <3> HIDE DEF a, b, c
    <3> QED  BY <2>9, <2>10 DEF RowBefore
  <2> QED  BY <2>3, <2>5, <2>8, <2>11
<1> QED  BY <1>5 DEF n

LEMMA ManifestParts ==
  ASSUME NEW m \in Manifests
  PROVE  /\ m.components \in Seq(SUBSET Nat) /\ m.order \in Seq(Nat)
         /\ Len(m.charts) \in Nat /\ Len(m.couplings) \in Nat
         /\ Range(m.couplings) = {m.couplings[i] : i \in 1..Len(m.couplings)}
         /\ \A i \in 1..Len(m.couplings) :
              /\ m.couplings[i].from \in Nat /\ m.couplings[i].to \in Nat
              /\ m.couplings[i].entries \in Seq([edge : Nat \X Nat, zero : BOOLEAN])
<1> DEFINE Entry == [edge : Nat \X Nat, zero : BOOLEAN]
           Coupling == [from : Nat, to : Nat, entries : Seq(Entry)]
<1>1. /\ m.components \in Seq(SUBSET Nat) /\ m.order \in Seq(Nat)
      /\ m.couplings \in Seq(Coupling) /\ Len(m.charts) \in Nat
  <2> DEFINE Chart == [handle : Nat, edges : SUBSET (Nat \X Nat), frame : Int \X Int]
  <2>1. /\ m.components \in Seq(SUBSET Nat) /\ m.order \in Seq(Nat)
        /\ m.couplings \in Seq(Coupling) /\ m.charts \in Seq(Chart)
    BY DEF Manifests
  <2> HIDE DEF Chart
  <2>2. Len(m.charts) \in Nat
    BY <2>1
  <2> QED  BY <2>1, <2>2
<1>2. \A c \in Coupling : c.from \in Nat /\ c.to \in Nat /\ c.entries \in Seq(Entry)
  <2> HIDE DEF Entry
  <2> QED  OBVIOUS
<1> HIDE DEF Coupling
<1>3. Len(m.couplings) \in Nat /\ \A i \in 1..Len(m.couplings) : m.couplings[i] \in Coupling
  BY <1>1
<1>4. Range(m.couplings) = {m.couplings[i] : i \in 1..Len(m.couplings)}
  BY <1>1 DEF Range
<1> QED  BY <1>1, <1>2, <1>3, <1>4

(* The blocks a coupling joins are those of the condensation edge it is.   *)
LEMMA CouplingsJoin ==
  ASSUME NEW dim \in Nat, NEW m \in Manifests, NEW edges, AcceptsManifest(m, dim, edges),
         NEW i \in 1..Len(m.couplings)
  PROVE  /\ m.couplings[i].from \in 1..Len(m.components) /\ m.couplings[i].to \in 1..Len(m.components)
         /\ m.couplings[i].from # m.couplings[i].to
         /\ <<m.couplings[i].from, m.couplings[i].to>> \in m.condensation
         /\ Pairs(m)[i] = <<m.couplings[i].from, m.couplings[i].to>>
<1> DEFINE p == <<m.couplings[i].from, m.couplings[i].to>>  C == m.components  n == Len(m.couplings)
<1>1. /\ Partitions(C, dim) /\ m.edges \in SUBSET (VerticesOf(dim) \X VerticesOf(dim))
      /\ m.condensation = DerivedCondensation(C, m.edges) /\ InEdgeOrder(m) /\ C \in Seq(SUBSET Nat)
  BY ManifestParts DEF AcceptsManifest, Accepts, CouplingsFit
<1>2. Pairs(m)[i] = p /\ p \in Range(Pairs(m))
  BY DEF Pairs, Range
<1>3. p \in m.condensation
  BY <1>1, <1>2 DEF InEdgeOrder
<1>4. p \in (1..Len(C)) \X (1..Len(C)) /\ p[1] # p[2]
  <2> HIDE DEF p, C
  <2> QED  BY <1>1, <1>3, CondensationJoinsBlocks
<1> QED  BY <1>2, <1>3, <1>4

LEMMA CouplingsDiffer ==
  ASSUME NEW m \in Manifests, InEdgeOrder(m),
         NEW i \in 1..Len(m.couplings), NEW j \in 1..Len(m.couplings),
         m.couplings[i].from = m.couplings[j].from, m.couplings[i].to = m.couplings[j].to
  PROVE  i = j
<1>1. m.couplings[i].from \in Nat /\ m.couplings[i].to \in Nat /\ Len(m.couplings) \in Nat
  BY ManifestParts
<1>2. Pairs(m)[i] = <<m.couplings[i].from, m.couplings[i].to>> /\ Pairs(m)[j] = Pairs(m)[i]
  BY DEF Pairs
<1>3. ~Before(Pairs(m)[i], Pairs(m)[j]) /\ ~Before(Pairs(m)[j], Pairs(m)[i])
  BY <1>1, <1>2 DEF Before
<1>4. ~(i < j) /\ ~(j < i)
  BY <1>3 DEF InEdgeOrder
<1> QED  BY <1>1, <1>4

LEMMA EntriesDiffer ==
  ASSUME NEW m \in Manifests, NEW c \in 1..Len(m.couplings), EntriesFit(m, m.couplings[c]),
         NEW e, NEW i \in EntriesOf(m.couplings[c], e), NEW j \in EntriesOf(m.couplings[c], e)
  PROVE  i = j
<1> DEFINE s == m.couplings[c].entries
<1>1. s \in Seq([edge : Nat \X Nat, zero : BOOLEAN]) /\ RowByRow(s)
  BY ManifestParts DEF EntriesFit
<1>2. i \in 1..Len(s) /\ j \in 1..Len(s) /\ s[i].edge = e /\ s[j].edge = e
  BY DEF EntriesOf
<1> HIDE DEF s
<1>3. e \in Nat \X Nat
  <2> DEFINE Entry == [edge : Nat \X Nat, zero : BOOLEAN]
  <2>1. \A x \in Entry : x.edge \in Nat \X Nat
    OBVIOUS
  <2>2. s \in Seq(Entry)
    BY <1>1
  <2> HIDE DEF Entry
  <2>3. s[i] \in Entry
    BY <1>2, <2>2
  <2> QED  BY <1>2, <2>1, <2>3
<1>4. ~RowBefore(e, e)
  BY <1>3 DEF RowBefore
<1>5. ~(i < j) /\ ~(j < i)
  BY <1>1, <1>2, <1>4, RowsAscend
<1>6. Len(s) \in Nat
  BY <1>1
<1> QED  BY <1>2, <1>5, <1>6

LEMMA AcceptedEntries ==
  ASSUME NEW dim \in Nat, NEW m \in Manifests, NEW edges, AcceptsManifest(m, dim, edges),
         NEW v \in VerticesOf(dim), NEW u \in VerticesOf(dim)
  PROVE  Places(m, <<v, u>>) = IF <<v, u>> \in edges THEN 1 ELSE 0
<1> DEFINE C == m.components  e == <<v, u>>  p == BlockOf(C, v)  q == BlockOf(C, u)
           charts == ChartPlaces(m, e)  couplings == CouplingPlaces(m, e)
<1>1. /\ C \in Seq(SUBSET Nat) /\ Partitions(C, dim) /\ ChartsFit(m) /\ CouplingsFit(m) /\ m.edges = edges
      /\ edges \subseteq VerticesOf(dim) \X VerticesOf(dim)
  BY ManifestParts DEF AcceptsManifest, Accepts, FactsAgree
<1>2. /\ p \in 1..Len(C) /\ \A i \in 1..Len(C) : v \in C[i] <=> i = p
      /\ q \in 1..Len(C) /\ \A i \in 1..Len(C) : u \in C[i] <=> i = q
  <2> HIDE DEF C
  <2> QED  BY <1>1, BlockOfIs
<1>3. charts = IF e \in edges /\ p = q THEN {p} ELSE {}
  <2>1. Len(m.charts) = Len(C) /\ \A i \in 1..Len(m.charts) : m.charts[i].edges = Inside(C[i], edges)
    BY <1>1 DEF ChartsFit
  <2>2. \A i \in 1..Len(C) : e \in Inside(C[i], edges) <=> e \in edges /\ v \in C[i] /\ u \in C[i]
    BY DEF Inside
  <2> HIDE DEF C, p, q, e
  <2> QED  BY <1>2, <2>1, <2>2 DEF ChartPlaces
<1>4. ASSUME NEW i \in 1..Len(m.couplings), NEW j \in EntriesOf(m.couplings[i], e)
      PROVE  e \in edges /\ p # q /\ m.couplings[i].from = p /\ m.couplings[i].to = q
  <2> DEFINE x == m.couplings[i].entries[j]
  <2>1. j \in 1..Len(m.couplings[i].entries) /\ x.edge = e /\ ~x.zero
    BY DEF EntriesOf
  <2>2. EntriesFit(m, m.couplings[i])
    BY <1>1 DEF CouplingsFit
  <2>3. x.edge[1] \in C[m.couplings[i].from] /\ x.edge[2] \in C[m.couplings[i].to] /\ x.edge \in edges
    BY <1>1, <2>1, <2>2 DEF EntriesFit
  <2>4. e[1] = v /\ e[2] = u
    OBVIOUS
  <2>5. /\ m.couplings[i].from \in 1..Len(C) /\ m.couplings[i].to \in 1..Len(C)
        /\ m.couplings[i].from # m.couplings[i].to
    BY CouplingsJoin
  <2> HIDE DEF C, p, q, e, x
  <2> QED  BY <1>2, <2>1, <2>3, <2>4, <2>5
<1>5. ASSUME e \in edges, p # q
      PROVE  \E i \in 1..Len(m.couplings) : \E j \in 1..Len(m.couplings[i].entries) :
               j \in EntriesOf(m.couplings[i], e)
  <2>1. e \in Crossing(m)
    BY <1>1, <1>5 DEF Crossing
  <2>2. e \in Carried(m)
    BY <1>1, <2>1 DEF CouplingsFit
  <2>3. PICK x \in UNION {Range(c.entries) : c \in Range(m.couplings)} : ~x.zero /\ e = x.edge
    <3> HIDE DEF e
    <3> QED  BY <2>2 DEF Carried
  <2>4. PICK c \in Range(m.couplings) : x \in Range(c.entries)
    BY <2>3
  <2>5. PICK i \in 1..Len(m.couplings) : c = m.couplings[i]
    BY <2>4, ManifestParts
  <2>6. Range(c.entries) = {c.entries[j] : j \in 1..Len(c.entries)}
    <3>1. c.entries \in Seq([edge : Nat \X Nat, zero : BOOLEAN])
      BY <2>5, ManifestParts
    <3> QED  BY <3>1 DEF Range
  <2>7. PICK j \in 1..Len(c.entries) : x = c.entries[j]
    BY <2>4, <2>6
  <2> QED  BY <2>3, <2>5, <2>7 DEF EntriesOf
<1>6. ASSUME ~(e \in edges /\ p # q)  PROVE couplings = {}
  BY <1>4, <1>6 DEF CouplingPlaces
<1>7. ASSUME e \in edges, p # q  PROVE \E x : couplings = {x}
  <2>1. PICK i \in 1..Len(m.couplings) : \E j \in 1..Len(m.couplings[i].entries) :
               j \in EntriesOf(m.couplings[i], e)
    BY <1>5, <1>7
  <2>2. PICK j \in EntriesOf(m.couplings[i], e) : TRUE
    BY <2>1
  <2>3. ASSUME NEW h \in 1..Len(m.couplings), NEW k \in EntriesOf(m.couplings[h], e)
        PROVE  h = i /\ k = j
    <3>1. m.couplings[h].from = m.couplings[i].from /\ m.couplings[h].to = m.couplings[i].to
      BY <1>4, <2>2
    <3>2. h = i
      BY <1>1, <3>1, CouplingsDiffer DEF CouplingsFit
    <3>3. EntriesFit(m, m.couplings[i])
      BY <1>1 DEF CouplingsFit
    <3>4. k = j
      <4> HIDE DEF e
      <4> QED  BY <2>2, <3>2, <3>3, EntriesDiffer
    <3> QED  BY <3>2, <3>4
  <2>4. couplings = {<<i, j>>}
    <3> HIDE DEF e
    <3>1. <<i, j>> \in couplings
      BY <2>2 DEF CouplingPlaces
    <3>2. ASSUME NEW z \in couplings  PROVE z = <<i, j>>
      <4>1. PICK h \in 1..Len(m.couplings) : z \in {<<h, k>> : k \in EntriesOf(m.couplings[h], e)}
        BY DEF CouplingPlaces
      <4>2. PICK k \in EntriesOf(m.couplings[h], e) : z = <<h, k>>
        BY <4>1
      <4> QED  BY <2>3, <4>2
    <3> HIDE DEF couplings
    <3> QED  BY <3>1, <3>2
  <2> QED  BY <2>4
<1> HIDE DEF charts, couplings
<1>8. /\ Cardinality(charts) = IF e \in edges /\ p = q THEN 1 ELSE 0
      /\ Cardinality(couplings) = IF e \in edges /\ p # q THEN 1 ELSE 0
  <2> HIDE DEF e, p, q
  <2>1. Cardinality({}) = 0 /\ \A x : Cardinality({x}) = 1
    BY FS_EmptySet, FS_Singleton
  <2>2. Cardinality(charts) = IF e \in edges /\ p = q THEN 1 ELSE 0
    BY <1>3, <2>1
  <2>3. CASE e \in edges /\ p # q
    <3>1. PICK x : couplings = {x}
      BY <1>7, <2>3
    <3>2. Cardinality(couplings) = 1
      BY <2>1, <3>1
    <3> QED  BY <2>2, <2>3, <3>2
  <2>4. CASE ~(e \in edges /\ p # q)
    BY <1>6, <2>1, <2>2, <2>4
  <2> QED  BY <2>3, <2>4
<1>9. Places(m, e) = Cardinality(charts) + Cardinality(couplings)
  BY DEF Places, charts, couplings
<1> HIDE DEF e, p, q
<1>10. Places(m, e) = IF e \in edges THEN 1 ELSE 0
  BY <1>8, <1>9
<1> QED  BY <1>10 DEF e

------------------------------------------------------------------------------
(* The positions of blocks in a topological order, and chains along it.    *)
Ordered(order, blocks, condensation) ==
  /\ Topological(order, blocks, condensation) /\ order \in Seq(Nat)
  /\ condensation \in SUBSET ((1..blocks) \X (1..blocks))

LEMMA PositionIs ==
  ASSUME NEW blocks \in Nat, NEW order, NEW condensation, Ordered(order, blocks, condensation)
  PROVE  /\ order \in [1..blocks -> 1..blocks] /\ Len(order) = blocks
         /\ \A b \in 1..blocks : Position(order, b) \in 1..blocks /\ order[Position(order, b)] = b
         /\ \A k \in 1..blocks : Position(order, order[k]) = k
<1> DEFINE B == 1..blocks
<1>1. Len(order) = blocks /\ {order[i] : i \in B} = B /\ order \in Seq(Nat)
  BY DEF Ordered, Topological
<1>2. order \in [B -> B]
  BY <1>1
<1>3. IsFiniteSet(B) /\ Cardinality(B) = Cardinality(B)
  BY IntervalCount
<1>4. order \in Surjection(B, B)
  <2> HIDE DEF B
  <2> QED  BY <1>1, <1>2 DEF Surjection
<1>5. \A i, j \in B : order[i] = order[j] => i = j
  <2> HIDE DEF B
  <2>1. order \in Injection(B, B)
    BY <1>3, <1>4, FS_SurjSameCardinalityImpliesInj
  <2> QED  BY <2>1 DEF Injection, IsInjective
<1>6. ASSUME NEW b \in B  PROVE Position(order, b) \in B /\ order[Position(order, b)] = b
  <2>1. \E i \in 1..Len(order) : order[i] = b
    BY <1>1
  <2> QED  BY <1>1, <2>1 DEF Position
<1>7. ASSUME NEW k \in B  PROVE Position(order, order[k]) = k
  BY <1>2, <1>5, <1>6
<1> QED  BY <1>1, <1>2, <1>6, <1>7

IsWalk(p, blocks, condensation) ==
  p \in Seq(1..blocks) /\ p # <<>> /\ IsChain(p, condensation)

LEMMA WalkAscends ==
  ASSUME NEW blocks \in Nat, NEW order, NEW condensation, Ordered(order, blocks, condensation),
         NEW p, IsWalk(p, blocks, condensation)
  PROVE  \A i, j \in 1..Len(p) : i < j => Position(order, p[i]) < Position(order, p[j])
<1> DEFINE n == Len(p)  at(i) == Position(order, p[i])
<1>1. n \in Nat /\ p \in [1..n -> 1..blocks]
  BY DEF IsWalk
<1>2. \A i \in 1..n : at(i) \in Nat
  <2>1. \A b \in 1..blocks : Position(order, b) \in Nat
    BY PositionIs
  <2> HIDE DEF n
  <2> QED  BY <1>1, <2>1
<1>3. \A i \in 1..(n - 1) : at(i) < at(i + 1)
  <2> TAKE i \in 1..(n - 1)
  <2>1. <<p[i], p[i + 1]>> \in condensation
    BY DEF IsWalk, IsChain
  <2> QED  BY <2>1 DEF Ordered, Topological
<1> HIDE DEF n, at
<1> SUFFICES ASSUME NEW i \in 1..n  PROVE \A j \in 1..n : i < j => at(i) < at(j)
  BY DEF n, at
<1> DEFINE Bad == {j \in 1..n : i < j /\ ~(at(i) < at(j))}
<1>4. ASSUME Bad # {}  PROVE FALSE
  <2>1. Bad \in SUBSET Nat
    BY <1>1
  <2>2. PICK j \in Bad : \A k \in Bad : j <= k
    <3> HIDE DEF Bad
    <3> QED  BY <1>4, <2>1, LeastOf
  <2>3. j \in 1..n /\ i < j /\ i \in 1..n /\ ~(at(i) < at(j))
    OBVIOUS
  <2>4. j - 1 \in 1..(n - 1) /\ j - 1 \in 1..n /\ (j - 1) + 1 = j /\ (i = j - 1 \/ i < j - 1)
    BY <1>1, <2>3
  <2>5. at(j - 1) < at(j)
    BY <1>3, <2>4
  <2>6. j - 1 \notin Bad
    <3>1. j \in Nat /\ j - 1 \in Nat /\ ~(j <= j - 1)
      BY <1>1, <2>3
    <3> HIDE DEF Bad
    <3> QED  BY <2>2, <3>1
  <2>7. at(i) <= at(j - 1)
    BY <1>2, <2>3, <2>4, <2>6
  <2> QED  BY <1>2, <2>3, <2>4, <2>5, <2>7
<1> QED  BY <1>4

LEMMA ChainsAre ==
  ASSUME NEW blocks \in Nat, NEW order, NEW condensation, Ordered(order, blocks, condensation), NEW p
  PROVE  p \in Chains(blocks, condensation) <=> IsWalk(p, blocks, condensation)
<1>1. ASSUME p \in Chains(blocks, condensation)  PROVE IsWalk(p, blocks, condensation)
  <2>1. IsChain(p, condensation) /\ p \in UNION {[1..n -> 1..blocks] : n \in 1..blocks}
    BY <1>1 DEF Chains
  <2>2. PICK n \in 1..blocks : p \in [1..n -> 1..blocks]
    BY <2>1
  <2>3. p \in Seq(1..blocks) /\ Len(p) = n
    BY <2>2
  <2> QED  BY <2>1, <2>2, <2>3 DEF IsWalk
<1>2. ASSUME IsWalk(p, blocks, condensation)  PROVE p \in Chains(blocks, condensation)
  <2>1. p \in Seq(VerticesOf(blocks)) /\ p # <<>> /\ IsChain(p, condensation)
    BY <1>2 DEF IsWalk, VerticesOf
  <2>2. Distinct(p)
    <3> SUFFICES ASSUME NEW i \in 1..Len(p), NEW j \in 1..Len(p), p[i] = p[j]  PROVE i = j
      BY DEF Distinct
    <3>1. p[i] = p[j]
      OBVIOUS
    <3>2. Position(order, p[i]) \in Nat /\ Position(order, p[i]) = Position(order, p[j])
      <4>1. p[i] \in 1..blocks
        BY <2>1 DEF VerticesOf
      <4>2. Position(order, p[i]) \in 1..blocks
        BY <4>1, PositionIs
      <4> QED  BY <3>1, <4>2
    <3>3. ~(i < j) /\ ~(j < i)
      BY <1>2, <3>2, WalkAscends
    <3>4. Len(p) \in Nat
      BY <2>1
    <3> QED  BY <3>3, <3>4
  <2>3. Len(p) <= blocks
    BY <2>1, <2>2, DistinctCount
  <2>4. Len(p) \in 1..blocks /\ p \in [1..Len(p) -> 1..blocks]
    BY <2>1, <2>3 DEF VerticesOf
  <2> QED  BY <2>1, <2>4 DEF Chains
<1> QED  BY <1>1, <1>2

------------------------------------------------------------------------------
(* The depths, after the first k blocks of the order were pushed, are the  *)
(* lengths of the longest chains that only the last block may leave those  *)
(* k.                                                                      *)
LEMMA PushedIs ==
  ASSUME NEW blocks \in Nat, NEW depth \in [1..blocks -> Nat], NEW b \in 1..blocks, NEW condensation
  PROVE  /\ Pushed(depth, b, condensation) \in [1..blocks -> Nat]
         /\ \A t \in 1..blocks :
              Pushed(depth, b, condensation)[t] =
                IF <<b, t>> \in condensation /\ depth[t] < depth[b] + 1 THEN depth[b] + 1 ELSE depth[t]
<1>1. Pushed(depth, b, condensation) =
        [t \in 1..blocks |->
           IF <<b, t>> \in condensation /\ depth[t] < depth[b] + 1 THEN depth[b] + 1 ELSE depth[t]]
  BY DEF Pushed
<1> QED  BY <1>1

LEMMA DepthsAre ==
  ASSUME NEW blocks \in Nat, NEW order, NEW condensation, Ordered(order, blocks, condensation)
  PROVE  /\ Depths(order, condensation) \in [0..blocks -> [1..blocks -> Nat]]
         /\ Depths(order, condensation)[0] = [b \in 1..blocks |-> 0]
         /\ \A k \in 1..blocks :
              Depths(order, condensation)[k] =
                Pushed(Depths(order, condensation)[k - 1], order[k], condensation)
<1> DEFINE A == [1..blocks -> Nat]  first == [b \in 1..blocks |-> 0]
           onward == [k \in 1..blocks |-> [d \in A |-> Pushed(d, order[k], condensation)]]
           Is(f) == f = [k \in 0..blocks |->
                           IF k = 0 THEN first ELSE Pushed(f[k - 1], order[k], condensation)]
<1>1. first \in A /\ Len(order) = blocks /\ order \in [1..blocks -> 1..blocks]
  BY PositionIs
<1>2. \A k \in 1..blocks : \A d \in A : Pushed(d, order[k], condensation) \in A
  <2> TAKE k \in 1..blocks
  <2> TAKE d \in A
  <2>1. order[k] \in 1..blocks
    BY <1>1
  <2> QED  BY <2>1, PushedIs
<1> HIDE DEF A, first
<1>3. onward \in [1..blocks -> [A -> A]]
  BY <1>2
<1>4. PICK f : Iterates(f, blocks, A, first, onward)
  <2> HIDE DEF onward
  <2> QED  BY <1>1, <1>3, IterationExists
<1>5. \A i \in 1..blocks : i - 1 \in 0..blocks /\ f[i] = Pushed(f[i - 1], order[i], condensation)
  <2> TAKE i \in 1..blocks
  <2>1. i - 1 \in 0..blocks /\ f[i] = onward[i][f[i - 1]] /\ f[i - 1] \in A
    <3> HIDE DEF onward
    <3> QED  BY <1>4 DEF Iterates
  <2> QED  BY <2>1
<1>6. Is(f)
  <2>1. \A k \in 0..blocks : f[k] = IF k = 0 THEN first ELSE Pushed(f[k - 1], order[k], condensation)
    BY <1>4, <1>5 DEF Iterates
  <2> QED  BY <1>4, <2>1 DEF Iterates
<1> DEFINE D == Depths(order, condensation)
<1>7. D = CHOOSE g : Is(g)
  BY <1>1 DEF Depths, first
<1>8. Is(D)
  <2> HIDE DEF Is, D
  <2>1. Is(CHOOSE g : Is(g))
    BY <1>6
  <2> QED  BY <1>7, <2>1
<1> HIDE DEF D
<1>9. D[0] = first /\ \A k \in 1..blocks : D[k] = Pushed(D[k - 1], order[k], condensation)
  BY <1>8
<1>10. \A k \in 0..blocks : D[k] \in A
  <2> DEFINE Bad == {k \in 0..blocks : D[k] \notin A}
  <2>1. ASSUME Bad # {}  PROVE FALSE
    <3>1. Bad \in SUBSET Nat
      OBVIOUS
    <3>2. PICK k \in Bad : \A h \in Bad : k <= h
      <4> HIDE DEF Bad
      <4> QED  BY <2>1, <3>1, LeastOf
    <3>3. k \in 1..blocks /\ k - 1 \in 0..blocks /\ k - 1 < k
      BY <1>1, <1>9
    <3>4. k - 1 \notin Bad
      <4> HIDE DEF Bad
      <4> QED  BY <3>1, <3>2, <3>3
    <3>5. D[k - 1] \in A
      BY <3>3, <3>4
    <3>6. D[k] \in A
      BY <1>2, <1>9, <3>3, <3>5
    <3> QED  BY <3>6
  <2> QED  BY <2>1
<1>11. D \in [0..blocks -> A]
  <2>1. D = [k \in 0..blocks |-> D[k]]
    BY <1>8
  <2> QED  BY <1>10, <2>1
<1> QED  BY <1>9, <1>11 DEF D, A, first

EndsAt(p, b, blocks, condensation) == IsWalk(p, blocks, condensation) /\ p[Len(p)] = b

Deep(depth, k, order, blocks, condensation) ==
  \A b \in 1..blocks :
    /\ \A p : EndsAt(p, b, blocks, condensation) /\ (\A i \in 1..(Len(p) - 1) : Position(order, p[i]) <= k)
              => Len(p) - 1 <= depth[b]
    /\ \E p : EndsAt(p, b, blocks, condensation) /\ Len(p) - 1 = depth[b]

LEMMA WalkLonger ==
  ASSUME NEW blocks \in Nat, NEW condensation, NEW p, NEW b,
         EndsAt(p, b, blocks, condensation), NEW t \in 1..blocks, <<b, t>> \in condensation
  PROVE  /\ EndsAt(Append(p, t), t, blocks, condensation)
         /\ Len(Append(p, t)) = Len(p) + 1 /\ Append(p, t)[1] = p[1]
<1> DEFINE q == Append(p, t)  n == Len(p)
<1>1. p \in Seq(1..blocks) /\ n \in Nat \ {0} /\ IsChain(p, condensation) /\ p[n] = b
  BY DEF EndsAt, IsWalk
<1>2. /\ q \in Seq(1..blocks) /\ Len(q) = n + 1 /\ q[n + 1] = t /\ q # <<>>
      /\ \A i \in 1..n : q[i] = p[i]
  BY <1>1
<1> HIDE DEF q
<1>3. \A i \in 1..(n - 1) : <<p[i], p[i + 1]>> \in condensation
  BY <1>1 DEF IsChain
<1>4. ASSUME NEW i \in 1..n  PROVE <<q[i], q[i + 1]>> \in condensation
  <2> HIDE DEF n
  <2>1. CASE i = n
    BY <1>1, <1>2, <2>1
  <2>2. CASE i # n
    <3>1. i \in 1..(n - 1) /\ i + 1 \in 1..n
      BY <1>1, <2>2
    <3> QED  BY <1>2, <1>3, <3>1
  <2> QED  BY <2>1, <2>2
<1>5. IsChain(q, condensation)
  <2>1. Len(q) - 1 = n
    BY <1>1, <1>2
  <2> QED  BY <1>4, <2>1 DEF IsChain
<1>6. 1 \in 1..n
  BY <1>1
<1> QED  BY <1>2, <1>5, <1>6 DEF EndsAt, IsWalk, q

AllButLast(p, q, blocks, condensation) ==
  LET n == Len(p) IN
  /\ n - 1 \in 1..n /\ EndsAt(q, p[n - 1], blocks, condensation) /\ Len(q) = n - 1
  /\ <<p[n - 1], p[n]>> \in condensation /\ \A i \in 1..(n - 1) : q[i] = p[i]

LEMMA WalkShorter ==
  ASSUME NEW blocks \in Nat, NEW condensation, NEW p, IsWalk(p, blocks, condensation), Len(p) # 1
  PROVE  AllButLast(p, SubSeq(p, 1, Len(p) - 1), blocks, condensation)
<1> DEFINE n == Len(p)  q == SubSeq(p, 1, n - 1)
<1>1. p \in Seq(1..blocks) /\ n \in Nat \ {0, 1} /\ \A i \in 1..(n - 1) : <<p[i], p[i + 1]>> \in condensation
  BY DEF IsWalk, IsChain
<1>2. q \in Seq(1..blocks) /\ Len(q) = n - 1 /\ \A i \in 1..(n - 1) : q[i] = p[i]
  <2> DEFINE B == 1..blocks
  <2>1. p \in Seq(B) /\ n - 1 \in 1..n
    <3> HIDE DEF n
    <3> QED  BY <1>1
  <2> HIDE DEF B
  <2>2. q \in Seq(B) /\ Len(q) = n - 1
    BY <2>1
  <2>3. \A i \in 1..(n - 1) : q[i] = p[i]
    BY <2>1
  <2> QED  BY <2>2, <2>3 DEF B
<1> HIDE DEF q, n
<1>3. n - 1 \in 1..n /\ n - 1 \in 1..(n - 1) /\ (n - 1) + 1 = n
  BY <1>1
<1>4. q # <<>>
  <2>1. n - 1 # 0
    BY <1>1
  <2> QED  BY <1>2, <2>1
<1>5. IsChain(q, condensation)
  <2> SUFFICES ASSUME NEW i \in 1..((n - 1) - 1)  PROVE <<q[i], q[i + 1]>> \in condensation
    BY <1>2 DEF IsChain
  <2>1. i \in 1..(n - 1) /\ i + 1 \in 1..(n - 1)
    BY <1>1
  <2> QED  BY <1>1, <1>2, <2>1
<1>6. <<p[n - 1], p[n]>> \in condensation /\ q[n - 1] = p[n - 1]
  BY <1>1, <1>2, <1>3
<1> QED  BY <1>2, <1>3, <1>4, <1>5, <1>6 DEF EndsAt, IsWalk, AllButLast, q, n

LEMMA DeepBegins ==
  ASSUME NEW blocks \in Nat, NEW order, NEW condensation, Ordered(order, blocks, condensation)
  PROVE  Deep([b \in 1..blocks |-> 0], 0, order, blocks, condensation)
<1> DEFINE depth == [b \in 1..blocks |-> 0]
<1> SUFFICES ASSUME NEW b \in 1..blocks
             PROVE  /\ \A p : EndsAt(p, b, blocks, condensation)
                              /\ (\A i \in 1..(Len(p) - 1) : Position(order, p[i]) <= 0)
                              => Len(p) - 1 <= depth[b]
                    /\ \E p : EndsAt(p, b, blocks, condensation) /\ Len(p) - 1 = depth[b]
  BY DEF Deep
<1>1. ASSUME NEW p, EndsAt(p, b, blocks, condensation),
             \A i \in 1..(Len(p) - 1) : Position(order, p[i]) <= 0
      PROVE  Len(p) - 1 <= 0
  <2>1. p \in Seq(1..blocks) /\ Len(p) \in Nat \ {0}
    BY <1>1 DEF EndsAt, IsWalk
  <2>2. ASSUME 1 \in 1..(Len(p) - 1)  PROVE FALSE
    <3>1. p[1] \in 1..blocks
      BY <2>1
    <3>2. Position(order, p[1]) \in 1..blocks
      BY <3>1, PositionIs
    <3> QED  BY <1>1, <2>2, <3>2
  <2> QED  BY <2>1, <2>2
<1>2. EndsAt(<<b>>, b, blocks, condensation) /\ Len(<<b>>) - 1 = 0
  BY DEF EndsAt, IsWalk, IsChain
<1> QED  BY <1>1, <1>2

LastStep(p, q, k, order, blocks, condensation) ==
  /\ EndsAt(q, order[k], blocks, condensation) /\ Len(q) = Len(p) - 1
  /\ <<order[k], p[Len(p)]>> \in condensation
  /\ q[1] = p[1] /\ \A h \in 1..(Len(q) - 1) : Position(order, q[h]) <= k - 1

LEMMA LastLeaves ==
  ASSUME NEW blocks \in Nat, NEW order, NEW condensation, Ordered(order, blocks, condensation),
         NEW k \in 1..blocks, NEW p, IsWalk(p, blocks, condensation),
         \A i \in 1..(Len(p) - 1) : Position(order, p[i]) <= k,
         ~\A i \in 1..(Len(p) - 1) : Position(order, p[i]) <= k - 1
  PROVE  \E q : LastStep(p, q, k, order, blocks, condensation)
<1> DEFINE n == Len(p)  b == order[k]  q == SubSeq(p, 1, n - 1)
<1>1. n \in Nat \ {0} /\ p \in [1..n -> 1..blocks]
  BY DEF IsWalk
<1>2. \A i \in 1..n : p[i] \in 1..blocks /\ Position(order, p[i]) \in Nat
  <2>1. \A c \in 1..blocks : Position(order, c) \in Nat
    <3> TAKE c \in 1..blocks
    <3>1. Position(order, c) \in 1..blocks
      BY PositionIs
    <3> QED  BY <3>1
  <2> HIDE DEF n
  <2> QED  BY <1>1, <2>1
<1>3. PICK i \in 1..(n - 1) : Position(order, p[i]) = k
  <2>1. PICK i \in 1..(n - 1) : ~(Position(order, p[i]) <= k - 1)
    OBVIOUS
  <2>2. i \in 1..n
    <3> HIDE DEF n
    <3> QED  BY <1>1
  <2>3. Position(order, p[i]) \in Nat /\ Position(order, p[i]) <= k
    BY <1>2, <2>2
  <2> QED  BY <2>1, <2>3
<1>4. /\ n # 1 /\ n - 1 \in 1..n /\ n - 1 \in 1..(n - 1) /\ i \in 1..n /\ (i = n - 1 \/ i < n - 1)
      /\ 1 \in 1..(n - 1)
  <2> HIDE DEF n
  <2> QED  BY <1>1, <1>3
<1>5. i = n - 1
  <2>1. ASSUME i < n - 1  PROVE FALSE
    <3>1. Position(order, p[i]) < Position(order, p[n - 1])
      BY <1>4, <2>1, WalkAscends
    <3>2. Position(order, p[n - 1]) <= k /\ Position(order, p[n - 1]) \in Nat
      BY <1>2, <1>4
    <3> QED  BY <1>3, <3>1, <3>2
  <2> QED  BY <1>4, <2>1
<1>6. p[n - 1] = b
  <2>1. p[n - 1] \in 1..blocks /\ Position(order, p[n - 1]) = k
    BY <1>2, <1>3, <1>4, <1>5
  <2>2. \A c \in 1..blocks : order[Position(order, c)] = c
    BY PositionIs
  <2> QED  BY <2>1, <2>2
<1> HIDE DEF b
<1>7. /\ EndsAt(q, b, blocks, condensation) /\ Len(q) = n - 1 /\ <<b, p[n]>> \in condensation
      /\ \A h \in 1..(n - 1) : q[h] = p[h]
  <2>1. AllButLast(p, q, blocks, condensation)
    BY <1>4, WalkShorter
  <2> HIDE DEF q
  <2> QED  BY <1>6, <2>1 DEF AllButLast
<1>8. ASSUME NEW h \in 1..((n - 1) - 1)  PROVE Position(order, q[h]) <= k - 1
  <2>1. h \in 1..(n - 1) /\ h \in 1..n /\ h < n - 1
    <3> HIDE DEF n
    <3> QED  BY <1>1
  <2>2. Position(order, p[h]) < Position(order, p[n - 1])
    BY <1>4, <2>1, WalkAscends
  <2>3. q[h] = p[h] /\ Position(order, p[h]) \in Nat /\ Position(order, p[n - 1]) = k
    BY <1>2, <1>3, <1>5, <1>7, <2>1
  <2> QED  BY <2>2, <2>3
<1> HIDE DEF q, n
<1>9. q[1] = p[1] /\ \A h \in 1..(Len(q) - 1) : Position(order, q[h]) <= k - 1
  BY <1>4, <1>7, <1>8
<1> QED  BY <1>7, <1>9 DEF n, b, LastStep

LEMMA DeepStep ==
  ASSUME NEW blocks \in Nat, NEW order, NEW condensation, Ordered(order, blocks, condensation),
         NEW k \in 1..blocks, NEW depth \in [1..blocks -> Nat],
         Deep(depth, k - 1, order, blocks, condensation)
  PROVE  Deep(Pushed(depth, order[k], condensation), k, order, blocks, condensation)
<1> DEFINE b == order[k]  d == Pushed(depth, b, condensation)
<1>1. b \in 1..blocks /\ Position(order, b) = k
  BY PositionIs
<1> HIDE DEF b
<1>2. /\ d \in [1..blocks -> Nat]
      /\ \A t \in 1..blocks :
           d[t] = IF <<b, t>> \in condensation /\ depth[t] < depth[b] + 1 THEN depth[b] + 1 ELSE depth[t]
  <2>1. Pushed(depth, b, condensation) \in [1..blocks -> Nat]
    BY <1>1, PushedIs
  <2>2. \A t \in 1..blocks :
          Pushed(depth, b, condensation)[t] =
            IF <<b, t>> \in condensation /\ depth[t] < depth[b] + 1 THEN depth[b] + 1 ELSE depth[t]
    BY <1>1 DEF Pushed
  <2> QED  BY <2>1, <2>2
<1> HIDE DEF d
<1> SUFFICES ASSUME NEW t \in 1..blocks
             PROVE  /\ \A p : EndsAt(p, t, blocks, condensation)
                              /\ (\A i \in 1..(Len(p) - 1) : Position(order, p[i]) <= k)
                              => Len(p) - 1 <= d[t]
                    /\ \E p : EndsAt(p, t, blocks, condensation) /\ Len(p) - 1 = d[t]
  BY DEF Deep, b, d
<1>3. depth[t] \in Nat /\ depth[b] \in Nat /\ depth[t] <= d[t]
      /\ (<<b, t>> \in condensation => depth[b] + 1 <= d[t])
  <2>1. depth[t] \in Nat /\ depth[b] \in Nat
    BY <1>1
  <2>2. d[t] = IF <<b, t>> \in condensation /\ depth[t] < depth[b] + 1 THEN depth[b] + 1 ELSE depth[t]
    BY <1>2
  <2> HIDE DEF Deep
  <2> QED  BY <2>1, <2>2
<1>4. ASSUME NEW p, EndsAt(p, t, blocks, condensation),
             \A i \in 1..(Len(p) - 1) : Position(order, p[i]) <= k
      PROVE  Len(p) - 1 <= d[t]
  <2> DEFINE n == Len(p)
  <2>1. n \in Nat /\ IsWalk(p, blocks, condensation) /\ p[n] = t
    BY <1>4 DEF EndsAt, IsWalk
  <2>2. CASE \A i \in 1..(n - 1) : Position(order, p[i]) <= k - 1
    <3>1. n - 1 <= depth[t]
      BY <1>4, <2>2 DEF Deep
    <3> HIDE DEF n
    <3> QED  BY <1>2, <1>3, <2>1, <3>1 DEF n
  <2>3. CASE ~\A i \in 1..(n - 1) : Position(order, p[i]) <= k - 1
    <3>1. PICK q : LastStep(p, q, k, order, blocks, condensation)
      BY <1>4, <2>1, <2>3, LastLeaves
    <3>2. /\ EndsAt(q, b, blocks, condensation) /\ Len(q) = n - 1 /\ <<b, t>> \in condensation
          /\ \A h \in 1..(Len(q) - 1) : Position(order, q[h]) <= k - 1
      BY <2>1, <3>1 DEF LastStep, b
    <3> HIDE DEF n
    <3>3. (n - 1) - 1 <= depth[b]
      BY <1>1, <3>2 DEF Deep
    <3> QED  BY <1>2, <1>3, <2>1, <3>2, <3>3 DEF n
  <2> QED  BY <2>2, <2>3
<1>5. \E p : EndsAt(p, t, blocks, condensation) /\ Len(p) - 1 = d[t]
  <2>1. CASE d[t] = depth[t]
    BY <2>1 DEF Deep
  <2>2. CASE d[t] # depth[t]
    <3>1. <<b, t>> \in condensation /\ d[t] = depth[b] + 1
      BY <1>2, <2>2
    <3>2. PICK p : EndsAt(p, b, blocks, condensation) /\ Len(p) - 1 = depth[b]
      BY <1>1 DEF Deep
    <3>3. EndsAt(Append(p, t), t, blocks, condensation) /\ Len(Append(p, t)) = Len(p) + 1
      BY <3>1, <3>2, WalkLonger
    <3>4. Len(p) \in Nat
      BY <3>2 DEF EndsAt, IsWalk
    <3>5. Len(Append(p, t)) - 1 = d[t]
      <4>1. \A a, c, e \in Nat : a - 1 = c /\ e = a + 1 => e - 1 = c + 1
        OBVIOUS
      <4> QED  BY <1>3, <3>1, <3>2, <3>3, <3>4, <4>1
    <3> QED  BY <3>3, <3>5
  <2> QED  BY <2>1, <2>2
<1> QED  BY <1>4, <1>5

LEMMA DepthsAreDeep ==
  ASSUME NEW blocks \in Nat, NEW order, NEW condensation, Ordered(order, blocks, condensation),
         NEW k \in 0..blocks
  PROVE  Deep(Depths(order, condensation)[k], k, order, blocks, condensation)
<1> DEFINE D == Depths(order, condensation)
           Bad == {h \in 0..blocks : ~Deep(D[h], h, order, blocks, condensation)}
<1>1. /\ D \in [0..blocks -> [1..blocks -> Nat]] /\ D[0] = [b \in 1..blocks |-> 0]
      /\ \A h \in 1..blocks : D[h] = Pushed(D[h - 1], order[h], condensation)
  BY DepthsAre
<1> HIDE DEF D
<1>2. ASSUME Bad # {}  PROVE FALSE
  <2>1. Bad \in SUBSET Nat
    OBVIOUS
  <2>2. PICK h \in Bad : \A j \in Bad : h <= j
    <3> HIDE DEF Bad
    <3> QED  BY <1>2, <2>1, LeastOf
  <2>3. h \in 0..blocks /\ ~Deep(D[h], h, order, blocks, condensation)
    OBVIOUS
  <2>4. h # 0
    BY <1>1, <2>3, DeepBegins
  <2>5. h \in 1..blocks /\ h - 1 \in 0..blocks /\ h - 1 < h
    BY <2>3, <2>4
  <2>6. h - 1 \notin Bad
    <3> HIDE DEF Bad
    <3> QED  BY <2>1, <2>2, <2>5
  <2>7. Deep(D[h - 1], h - 1, order, blocks, condensation) /\ D[h - 1] \in [1..blocks -> Nat]
    BY <1>1, <2>5, <2>6
  <2>8. Deep(D[h], h, order, blocks, condensation)
    <3>1. Deep(Pushed(D[h - 1], order[h], condensation), h, order, blocks, condensation)
      BY <2>5, <2>7, DeepStep
    <3>2. D[h] = Pushed(D[h - 1], order[h], condensation)
      BY <1>1, <2>5
    <3> QED  BY <3>1, <3>2
  <2> QED  BY <2>3, <2>8
<1> QED  BY <1>2 DEF D

(* scc_coupling_depth is the length of the longest chain of couplings.     *)
THEOREM CouplingDepthIsLongest ==
  ASSUME NEW blocks \in Nat \ {0}, NEW order, NEW condensation, Ordered(order, blocks, condensation)
  PROVE  /\ CouplingDepth(order, condensation) \in Nat
         /\ \A p \in Chains(blocks, condensation) : Len(p) - 1 <= CouplingDepth(order, condensation)
         /\ \E p \in Chains(blocks, condensation) : Len(p) - 1 = CouplingDepth(order, condensation)
<1> DEFINE D == Depths(order, condensation)[blocks]  B == 1..blocks
           d == CouplingDepth(order, condensation)
<1>1. blocks \in 0..blocks /\ blocks \in Nat /\ 1 \in B
  OBVIOUS
<1>2. D \in [B -> Nat] /\ Len(order) = blocks
  <2>1. Depths(order, condensation) \in [0..blocks -> [1..blocks -> Nat]]
    BY <1>1, DepthsAre
  <2> QED  BY <1>1, <2>1, PositionIs
<1>3. Deep(D, blocks, order, blocks, condensation)
  BY <1>1, DepthsAreDeep
<1>4. d = CHOOSE x \in Range(D) : \A b \in DOMAIN D : D[b] <= x
  BY <1>2 DEF CouplingDepth
<1> HIDE DEF D
<1>5. Range(D) = {D[b] : b \in B} /\ DOMAIN D = B
  BY <1>2 DEF Range
<1>6. ASSUME NEW b \in B  PROVE \E p \in Chains(blocks, condensation) : Len(p) - 1 = D[b] /\ Len(p) \in 1..blocks
  <2>1. PICK p : EndsAt(p, b, blocks, condensation) /\ Len(p) - 1 = D[b]
    BY <1>3 DEF Deep
  <2>2. p \in Chains(blocks, condensation)
    BY <1>1, <2>1, ChainsAre DEF EndsAt
  <2>3. PICK n \in 1..blocks : p \in [1..n -> 1..blocks]
    BY <2>2 DEF Chains
  <2>4. Len(p) = n
    BY <2>3
  <2> QED  BY <2>1, <2>2, <2>4
<1>7. \A b \in B : D[b] \in Nat /\ D[b] < blocks
  <2> TAKE b \in B
  <2>1. PICK p \in Chains(blocks, condensation) : Len(p) - 1 = D[b] /\ Len(p) \in 1..blocks
    BY <1>6
  <2>2. \A n \in 1..blocks : n - 1 < blocks
    OBVIOUS
  <2> QED  BY <1>2, <2>1, <2>2
<1>8. \E b \in B : \A c \in B : D[c] <= D[b]
  <2> DEFINE S == {blocks - D[b] : b \in B}
  <2>1. S \in SUBSET Nat /\ S # {}
    BY <1>1, <1>7
  <2>2. PICK x \in S : \A y \in S : x <= y
    <3> HIDE DEF S
    <3> QED  BY <2>1, LeastOf
  <2>3. PICK b \in B : x = blocks - D[b]
    OBVIOUS
  <2>4. \A c \in B : blocks - D[b] <= blocks - D[c]
    BY <2>2, <2>3
  <2> QED  BY <1>7, <2>4
<1>9. d \in Range(D) /\ \A b \in B : D[b] <= d
  <2>1. \E x \in Range(D) : \A b \in DOMAIN D : D[b] <= x
    BY <1>5, <1>8
  <2> HIDE DEF B, d
  <2> QED  BY <1>4, <1>5, <2>1
<1> HIDE DEF d
<1>10. \E p \in Chains(blocks, condensation) : Len(p) - 1 = d
  BY <1>5, <1>6, <1>9
<1>11. ASSUME NEW p \in Chains(blocks, condensation)  PROVE Len(p) - 1 <= d
  <2>1. IsWalk(p, blocks, condensation)
    BY <1>1, ChainsAre
  <2>2. p \in [1..Len(p) -> B] /\ Len(p) \in Nat \ {0}
    BY <2>1 DEF IsWalk
  <2>3. p[Len(p)] \in B
    <3>1. Len(p) \in 1..Len(p)
      BY <2>2
    <3> QED  BY <2>2, <3>1
  <2>4. \A i \in 1..(Len(p) - 1) : Position(order, p[i]) <= blocks
    <3> TAKE i \in 1..(Len(p) - 1)
    <3>1. i \in 1..Len(p)
      BY <2>2
    <3>2. p[i] \in 1..blocks
      BY <2>2, <3>1
    <3>3. Position(order, p[i]) \in 1..blocks
      BY <1>1, <3>2, PositionIs
    <3> QED  BY <3>3
  <2>5. Len(p) - 1 <= D[p[Len(p)]]
    BY <1>3, <2>1, <2>3, <2>4 DEF Deep, EndsAt
  <2>6. d \in Nat
    BY <1>5, <1>7, <1>9
  <2> QED  BY <1>7, <1>9, <2>2, <2>3, <2>5, <2>6
<1>12. d \in Nat
  BY <1>5, <1>7, <1>9
<1> QED  BY <1>10, <1>11, <1>12 DEF d

LEMMA AcceptedOrder ==
  ASSUME NEW dim \in Nat, NEW m \in Manifests, NEW edges, AcceptsManifest(m, dim, edges)
  PROVE  /\ Len(m.components) \in Nat \ {0}
         /\ Ordered(m.order, Len(m.components), m.condensation)
         /\ m.depth = CouplingDepth(m.order, m.condensation)
<1> DEFINE C == m.components
<1>1. /\ C \in Seq(SUBSET Nat) /\ C # <<>> /\ Partitions(C, dim)
      /\ m.edges \in SUBSET (VerticesOf(dim) \X VerticesOf(dim))
      /\ m.condensation = DerivedCondensation(C, m.edges)
      /\ Topological(m.order, Len(C), m.condensation) /\ m.depth = CouplingDepth(m.order, m.condensation)
  BY ManifestParts DEF AcceptsManifest, Accepts, Partitions
<1>2. m.order \in Seq(Nat)
  BY ManifestParts
<1>3. m.condensation \in SUBSET ((1..Len(C)) \X (1..Len(C)))
  <2> HIDE DEF C
  <2> QED  BY <1>1, CondensationJoinsBlocks
<1>4. Len(C) \in Nat \ {0}
  <2> HIDE DEF C
  <2> QED  BY <1>1
<1> QED  BY <1>1, <1>2, <1>3, <1>4 DEF Ordered

------------------------------------------------------------------------------
(* Nothing is solved from a manifest that was not accepted.                *)
ManifestInv ==
  /\ system.dim \in Nat /\ system.pole \in Nat /\ system.roots \subseteq [a : Int, b : Int]
  /\ IsFiniteSet(system.roots) /\ system.domain \in {"rational", "acb"} /\ offer \in Manifests
  /\ step \in {"prepare", "refused"} \/ AcceptsManifest(offer, system.dim, system.edges)

LEMMA ManifestBegins == ColumnInit => ManifestInv
<1> SUFFICES ASSUME ColumnInit  PROVE ManifestInv
  OBVIOUS
<1>1. PICK s \in Systems, d \in {"rational", "acb"} :
        system = [dim |-> s.dim, edges |-> s.edges, pole |-> s.pole, roots |-> s.roots, domain |-> d]
  BY DEF ColumnInit
<1>2. /\ s.dim \in Nat /\ s.pole \in Nat /\ s.roots \subseteq [a : Int, b : Int] /\ IsFiniteSet(s.roots)
      /\ Offers[s.dim] \subseteq Manifests
  BY SystemsAssumption
<1>3. /\ system.dim = s.dim /\ system.pole = s.pole /\ system.roots = s.roots /\ system.domain = d
  BY <1>1
<1>4. offer \in Manifests /\ step = "prepare"
  BY <1>2, <1>3 DEF ColumnInit
<1> QED  BY <1>2, <1>3, <1>4 DEF ManifestInv

LEMMA ManifestStays == ManifestInv /\ [ColumnNext]_columnVars => ManifestInv'
<1> SUFFICES ASSUME ManifestInv, [ColumnNext]_columnVars  PROVE ManifestInv'
  OBVIOUS
<1>1. CASE Prepare
  BY <1>1 DEF ManifestInv, Prepare
<1>2. ASSUME step \notin {"prepare", "refused"}, step' \notin {"prepare", "refused"},
             system' = system, offer' = offer
      PROVE  ManifestInv'
  BY <1>2 DEF ManifestInv
<1>3. ASSUME NEW b, NEW r, NEW form \in Forms, SolveSeed(b, r, form)  PROVE ManifestInv'
  BY <1>2, <1>3 DEF SolveSeed, SeedCompleted, RefusedByCache, Fails, Dropped
<1>4. ASSUME NEW form \in Forms, SolveTarget(form)  PROVE ManifestInv'
  BY <1>2, <1>4 DEF SolveTarget, TargetCompleted, RefusedByCache, Fails, Dropped
<1>5. CASE Finish
  BY <1>2, <1>5 DEF Finish, Fails, Dropped
<1>6. CASE UNCHANGED columnVars
  BY <1>6 DEF ManifestInv, columnVars
<1> QED  BY <1>1, <1>3, <1>4, <1>5, <1>6 DEF ColumnNext

LEMMA AcceptedIsTrue == ManifestInv => TrueManifest
<1> SUFFICES ASSUME ManifestInv, step # "prepare", step # "refused"
             PROVE  BlocksAreMutual /\ EntriesOnce /\ DepthIsLongest
  BY DEF TrueManifest
<1>1. /\ system.dim \in Nat /\ offer \in Manifests /\ AcceptsManifest(offer, system.dim, system.edges)
      /\ offer.components \in Seq(SUBSET Nat) /\ offer.edges = system.edges
      /\ Accepts(offer, system.dim, system.edges)
  BY ManifestParts DEF ManifestInv, AcceptsManifest, FactsAgree
<1>2. BlocksAreMutual
  BY <1>1, AcceptedBlocks DEF BlocksAreMutual, VerticesOf
<1>3. EntriesOnce
  <2> SUFFICES ASSUME NEW v \in VerticesOf(system.dim), NEW u \in VerticesOf(system.dim)
               PROVE  Places(offer, <<v, u>>) = IF <<v, u>> \in system.edges THEN 1 ELSE 0
    BY DEF EntriesOnce, VerticesOf
  <2> QED  BY <1>1, AcceptedEntries
<1>4. DepthIsLongest
  BY <1>1, AcceptedOrder, CouplingDepthIsLongest DEF DepthIsLongest
<1> QED  BY <1>2, <1>3, <1>4

(* A manifest that parse_composite_scc_chart accepts tells the truth of    *)
(* its system, whatever the client offered.                                *)
THEOREM ManifestIsTrue == ColumnSpec => []TrueManifest
<1>1. ColumnSpec => []ManifestInv
  BY ManifestBegins, ManifestStays, PTL DEF ColumnSpec
<1> QED  BY <1>1, AcceptedIsTrue, PTL

------------------------------------------------------------------------------
(* The columns.  What is built from an accepted manifest m, when a column  *)
(* from a seed block of it is under way: which blocks the seed leads to,   *)
(* what the sectors of a solved block and its couplings are, and the       *)
(* evidence for the blocks solved so far.                                  *)
ChainsBetween(a, b, m) == ChainsFrom(a, b, Len(m.components), m.condensation)

Led(from, m) == {b \in 1..Len(m.components) : ChainsBetween(from, b, m) # {}}

Shifted(root, by) == [a |-> root.a - by, b |-> root.b]

SectorFits(x, b, m, sys) ==
  /\ EndsAt(x.chain, b, Len(m.components), m.condensation) /\ x.root \in sys.roots
  /\ x.tag = Shifted(x.root, sys.pole * (Len(x.chain) - 1))

HasChains(sectors, from, b, m, sys) ==
  /\ \A x \in sectors : SectorFits(x, b, m, sys)
  /\ \A p \in ChainsBetween(from, b, m) : \E x \in sectors : x.chain = p

FedBy(indices, from, b, m) ==
  /\ indices \subseteq 1..Len(m.couplings)
  /\ \A i \in 1..Len(m.couplings) :
       i \in indices <=> m.couplings[i].to = b /\ m.couplings[i].from \in Led(from, m)

LogFits(log, solved, affine) ==
  /\ log \in Seq([block : Nat, rows : {Taylor + 1}, affine : {affine}, runs : Nat \ {0}])
  /\ \A i \in 1..Len(log) : log[i].block \in solved
  /\ \A i, j \in 1..Len(log) : log[i].block = log[j].block => i = j
  /\ IsFiniteSet(solved) /\ Len(log) = Cardinality(solved)

ColumnAt(m, sys, from, left, states, feeds) ==
  LET led == Led(from, m)  blocks == 1..Len(m.components) IN
  /\ from \in blocks /\ left \subseteq led \ {from} /\ DOMAIN states = blocks /\ DOMAIN feeds = blocks
  /\ \A b \in led \ left :
       /\ states[b].solved /\ HasChains(states[b].sectors, from, b, m, sys)
       /\ FedBy(feeds[b], from, b, m)
  /\ \A b \in blocks \ (led \ left) : ~states[b].solved /\ states[b].sectors = {} /\ feeds[b] = {}

UnderWay ==
  /\ ColumnAt(offer, system, seed, todo, state, fed)
  /\ system.domain = "rational" => LogFits(evidence, Led(seed, offer) \ todo, singular)
  /\ deferred \in BOOLEAN /\ (deferred => system.domain = "rational")

(* What the cache holds: of one contract under one key, and of a contract  *)
(* that only the form of a request decides.                                *)
Mine(form) == [probe |-> TRUE, order |-> Taylor, form |-> form]
InForms(entries) == \A x \in entries : \E form \in Forms : x[3] = Mine(form)
CacheFits(entries) == Consistent(entries) /\ InForms(entries)

ColumnInv ==
  /\ ManifestInv /\ step # "path-lost"
  /\ CacheFits(cached) /\ RefusedOverForm
  /\ step = "contract-changed" => refusal[2] \in Forms
  /\ step \in {"targets", "done"} => UnderWay
  /\ step = "done" => todo = {}

Coherent(m) ==
  /\ Len(m.components) \in Nat \ {0} /\ Ordered(m.order, Len(m.components), m.condensation)
  /\ Len(m.couplings) \in Nat
  /\ \A i \in 1..Len(m.couplings) :
       /\ m.couplings[i].from \in 1..Len(m.components) /\ m.couplings[i].to \in 1..Len(m.components)
       /\ <<m.couplings[i].from, m.couplings[i].to>> \in m.condensation
       /\ Pairs(m)[i] = <<m.couplings[i].from, m.couplings[i].to>>
  /\ Range(Pairs(m)) = m.condensation
  /\ \A i, j \in 1..Len(m.couplings) : Pairs(m)[i] = Pairs(m)[j] => i = j

LEMMA AcceptedCoheres ==
  ASSUME NEW dim \in Nat, NEW m \in Manifests, NEW edges, AcceptsManifest(m, dim, edges)
  PROVE  Coherent(m)
<1>1. InEdgeOrder(m)
  BY DEF AcceptsManifest, CouplingsFit
<1>2. ASSUME NEW i \in 1..Len(m.couplings), NEW j \in 1..Len(m.couplings), Pairs(m)[i] = Pairs(m)[j]
      PROVE  i = j
  <2>1. /\ Pairs(m)[i] = <<m.couplings[i].from, m.couplings[i].to>>
        /\ Pairs(m)[j] = <<m.couplings[j].from, m.couplings[j].to>>
    BY DEF Pairs
  <2>2. m.couplings[i].from = m.couplings[j].from /\ m.couplings[i].to = m.couplings[j].to
    <3> DEFINE a == m.couplings[i].from  b == m.couplings[i].to
               c == m.couplings[j].from  d == m.couplings[j].to
    <3> HIDE DEF a, b, c, d
    <3>1. <<a, b>> = <<c, d>>
      BY <1>2, <2>1 DEF a, b, c, d
    <3>2. a = c /\ b = d
      BY <3>1
    <3> QED  BY <3>2 DEF a, b, c, d
  <2> QED  BY <1>1, <2>2, CouplingsDiffer
<1>3. \A i \in 1..Len(m.couplings) :
       /\ m.couplings[i].from \in 1..Len(m.components) /\ m.couplings[i].to \in 1..Len(m.components)
       /\ <<m.couplings[i].from, m.couplings[i].to>> \in m.condensation
       /\ Pairs(m)[i] = <<m.couplings[i].from, m.couplings[i].to>>
  BY CouplingsJoin
<1>4. Len(m.components) \in Nat \ {0} /\ Ordered(m.order, Len(m.components), m.condensation)
  BY AcceptedOrder
<1>5. Len(m.couplings) \in Nat /\ Range(Pairs(m)) = m.condensation
  BY <1>1, ManifestParts DEF InEdgeOrder
<1> QED  BY <1>2, <1>3, <1>4, <1>5 DEF Coherent

LEMMA ChainsBetweenAre ==
  ASSUME NEW m, Coherent(m), NEW a, NEW b, NEW p
  PROVE  p \in ChainsBetween(a, b, m) <=> EndsAt(p, b, Len(m.components), m.condensation) /\ p[1] = a
<1>1. Len(m.components) \in Nat /\ Ordered(m.order, Len(m.components), m.condensation)
  BY DEF Coherent
<1>2. p \in Chains(Len(m.components), m.condensation) <=> IsWalk(p, Len(m.components), m.condensation)
  BY <1>1, ChainsAre
<1> QED  BY <1>2 DEF ChainsBetween, ChainsFrom, EndsAt

LEMMA LedHas ==
  ASSUME NEW m, Coherent(m), NEW from, NEW b
  PROVE  b \in Led(from, m) <=>
           b \in 1..Len(m.components) /\ \E p : EndsAt(p, b, Len(m.components), m.condensation) /\ p[1] = from
BY ChainsBetweenAre DEF Led

LEMMA LedSelf ==
  ASSUME NEW m, Coherent(m), NEW from \in 1..Len(m.components)
  PROVE  from \in Led(from, m) /\ ChainsBetween(from, from, m) = {<<from>>}
<1> DEFINE n == Len(m.components)
<1>1. EndsAt(<<from>>, from, n, m.condensation) /\ <<from>>[1] = from
  BY DEF EndsAt, IsWalk, IsChain
<1>2. <<from>> \in ChainsBetween(from, from, m)
  BY <1>1, ChainsBetweenAre
<1>3. ASSUME NEW p \in ChainsBetween(from, from, m)  PROVE p = <<from>>
  <2>1. IsWalk(p, n, m.condensation) /\ p[1] = from /\ p[Len(p)] = from
    BY ChainsBetweenAre DEF EndsAt
  <2>2. p \in Seq(1..n) /\ Len(p) \in Nat \ {0}
    BY <2>1 DEF IsWalk
  <2>3. 1 \in 1..Len(p) /\ Len(p) \in 1..Len(p)
    BY <2>2
  <2>4. Position(m.order, from) \in 1..n /\ n \in Nat
    BY PositionIs DEF Coherent
  <2>5. ASSUME 1 < Len(p)  PROVE FALSE
    <3>1. Position(m.order, p[1]) < Position(m.order, p[Len(p)])
      BY <2>1, <2>3, <2>5, WalkAscends DEF Coherent
    <3> QED  BY <2>1, <2>4, <3>1
  <2>6. Len(p) = 1
    BY <2>2, <2>5
  <2> QED  BY <2>1, <2>2, <2>6
<1> QED  BY <1>2, <1>3 DEF Led

(* The marks that expected_targets makes, after the first k blocks.        *)
MarkedUpto(M, k, from, m) ==
  LET n == Len(m.components) IN
  /\ M \subseteq Led(from, m) /\ from \in M
  /\ \A b \in 1..n : \A p :
       EndsAt(p, b, n, m.condensation) /\ p[1] = from
         /\ (\A i \in 1..(Len(p) - 1) : Position(m.order, p[i]) <= k)
       => b \in M

MarkedMore(M, b, condensation) == M \cup (IF b \in M THEN Successors(b, condensation) ELSE {})

LEMMA SuccessorsAre ==
  ASSUME NEW V, NEW edges \in SUBSET (V \X V), NEW u
  PROVE  /\ Successors(u, edges) \subseteq V
         /\ \A v : v \in Successors(u, edges) <=> <<u, v>> \in edges
<1>1. ASSUME NEW v, v \in Successors(u, edges)  PROVE <<u, v>> \in edges /\ v \in V
  <2>1. PICK e \in edges : e[1] = u /\ e[2] = v
    BY <1>1 DEF Successors
  <2>2. e = <<u, v>>
    BY <2>1
  <2> QED  BY <2>2
<1>2. ASSUME NEW v, <<u, v>> \in edges  PROVE v \in Successors(u, edges)
  BY <1>2 DEF Successors
<1> QED  BY <1>1, <1>2

LEMMA MarkedBegins ==
  ASSUME NEW m, Coherent(m), NEW from \in 1..Len(m.components)
  PROVE  MarkedUpto({from}, 0, from, m)
<1> DEFINE n == Len(m.components)
<1> SUFFICES ASSUME NEW b \in 1..n, NEW p, EndsAt(p, b, n, m.condensation), p[1] = from,
                    \A i \in 1..(Len(p) - 1) : Position(m.order, p[i]) <= 0
             PROVE  b = from
  BY LedSelf DEF MarkedUpto
<1>1. p \in Seq(1..n) /\ Len(p) \in Nat \ {0} /\ p[Len(p)] = b
  BY DEF EndsAt, IsWalk
<1>2. Len(p) = 1
  <2>1. ASSUME Len(p) # 1  PROVE FALSE
    <3>1. \A x \in Nat \ {0} : x # 1 => 1 \in 1..(x - 1)
      OBVIOUS
    <3>2. 1 \in 1..(Len(p) - 1)
      BY <1>1, <2>1, <3>1, Zenon
    <3>3. Position(m.order, p[1]) \in 1..n
      BY PositionIs DEF Coherent
    <3>4. Position(m.order, p[1]) <= 0
      BY <3>2
    <3> QED  BY <3>3, <3>4
  <2> QED  BY <2>1
<1> QED  BY <1>1, <1>2

LEMMA MarkedStep ==
  ASSUME NEW m, Coherent(m), NEW from \in 1..Len(m.components), NEW k \in 1..Len(m.components),
         NEW M, MarkedUpto(M, k - 1, from, m)
  PROVE  MarkedUpto(MarkedMore(M, m.order[k], m.condensation), k, from, m)
<1> DEFINE n == Len(m.components)  c == m.order[k]  N == MarkedMore(M, c, m.condensation)
<1>1. /\ n \in Nat /\ Ordered(m.order, n, m.condensation) /\ c \in 1..n
      /\ m.condensation \in SUBSET ((1..n) \X (1..n))
  <2>1. n \in Nat /\ Ordered(m.order, n, m.condensation)
    BY DEF Coherent
  <2>2. m.order \in [1..n -> 1..n]
    BY <2>1, PositionIs
  <2> HIDE DEF n
  <2> QED  BY <2>1, <2>2 DEF Ordered, n
<1> HIDE DEF c, n
<1>2. \A v : v \in Successors(c, m.condensation) <=> <<c, v>> \in m.condensation
  BY <1>1, SuccessorsAre
<1>3. ASSUME NEW v \in Successors(c, m.condensation), c \in M  PROVE v \in Led(from, m)
  <2>1. v \in 1..n
    BY <1>1, SuccessorsAre
  <2>2. PICK p : EndsAt(p, c, n, m.condensation) /\ p[1] = from
    BY <1>3, LedHas DEF MarkedUpto, n
  <2>3. EndsAt(Append(p, v), v, n, m.condensation) /\ Append(p, v)[1] = from
    <3>1. <<c, v>> \in m.condensation
      BY <1>2, <1>3
    <3> QED  BY <1>1, <2>1, <2>2, <3>1, WalkLonger
  <2> QED  BY <2>1, <2>3, LedHas DEF n
<1>4. ASSUME NEW b \in 1..n, NEW p, EndsAt(p, b, n, m.condensation), p[1] = from,
             \A i \in 1..(Len(p) - 1) : Position(m.order, p[i]) <= k
      PROVE  b \in N
  <2>1. CASE \A i \in 1..(Len(p) - 1) : Position(m.order, p[i]) <= k - 1
    BY <1>4, <2>1 DEF MarkedUpto, n, MarkedMore
  <2>2. CASE ~\A i \in 1..(Len(p) - 1) : Position(m.order, p[i]) <= k - 1
    <3>1. IsWalk(p, n, m.condensation) /\ p[Len(p)] = b
      BY <1>4 DEF EndsAt
    <3>2. PICK q : LastStep(p, q, k, m.order, n, m.condensation)
      BY <1>1, <1>4, <2>2, <3>1, LastLeaves DEF n
    <3>3. /\ EndsAt(q, c, n, m.condensation) /\ <<c, b>> \in m.condensation /\ q[1] = from
          /\ \A h \in 1..(Len(q) - 1) : Position(m.order, q[h]) <= k - 1
      BY <1>4, <3>1, <3>2 DEF LastStep, c
    <3>4. c \in M
      BY <1>1, <3>3 DEF MarkedUpto, n
    <3> QED  BY <1>2, <3>3, <3>4 DEF MarkedMore
  <2> QED  BY <2>1, <2>2
<1>5. N \subseteq Led(from, m) /\ from \in N
  BY <1>3 DEF MarkedMore, MarkedUpto
<1> HIDE DEF N
<1> QED  BY <1>4, <1>5 DEF MarkedUpto, N, c, n

LEMMA MarkedIs ==
  ASSUME Coherent(offer), NEW from \in 1..Len(offer.components)
  PROVE  Marked(from) = Led(from, offer)
<1> DEFINE n == Len(offer.components)  C == offer.condensation  A == SUBSET (1..n)
           onward == [k \in 1..n |-> [M \in A |-> MarkedMore(M, offer.order[k], C)]]
           Is(f) == f = [k \in 0..n |-> IF k = 0 THEN {from} ELSE MarkedMore(f[k - 1], offer.order[k], C)]
<1>1. n \in Nat \ {0} /\ Ordered(offer.order, n, C) /\ C \in SUBSET ((1..n) \X (1..n))
  BY DEF Coherent, Ordered
<1>2. Len(offer.order) = n /\ offer.order \in [1..n -> 1..n]
  <2> HIDE DEF n
  <2> QED  BY <1>1, PositionIs
<1>3. \A M \in A, b \in 1..n : MarkedMore(M, b, C) \in A
  <2> TAKE M \in A, b \in 1..n
  <2>1. Successors(b, C) \subseteq 1..n
    <3> HIDE DEF n, C
    <3> QED  BY <1>1, SuccessorsAre
  <2> QED  BY <2>1 DEF MarkedMore
<1>4. {from} \in A
  OBVIOUS
<1>5. n = Len(offer.components)
  OBVIOUS
<1> HIDE DEF A, n, C
<1>6. onward \in [1..n -> [A -> A]]
  BY <1>2, <1>3
<1>7. PICK f : Iterates(f, n, A, {from}, onward)
  <2> HIDE DEF onward
  <2> QED  BY <1>1, <1>4, <1>6, IterationExists
<1>8. \A i \in 1..n : i - 1 \in 0..n /\ f[i] = MarkedMore(f[i - 1], offer.order[i], C)
  <2> TAKE i \in 1..n
  <2>1. i - 1 \in 0..n /\ f[i] = onward[i][f[i - 1]] /\ f[i - 1] \in A
    <3> HIDE DEF onward
    <3> QED  BY <1>1, <1>7 DEF Iterates
  <2> QED  BY <2>1
<1>9. Is(f)
  <2>1. \A k \in 0..n : f[k] = IF k = 0 THEN {from} ELSE MarkedMore(f[k - 1], offer.order[k], C)
    BY <1>1, <1>7, <1>8 DEF Iterates
  <2> QED  BY <1>7, <2>1 DEF Iterates
<1> DEFINE marked == CHOOSE g : Is(g)
<1>10. Marked(from) = marked[n]
  BY <1>2 DEF Marked, MarkedMore, C
<1>11. Is(marked)
  <2> HIDE DEF Is
  <2> QED  BY <1>9
<1> HIDE DEF marked
<1>12. marked[0] = {from} /\ \A k \in 1..n : marked[k] = MarkedMore(marked[k - 1], offer.order[k], C)
  <2>1. 0 \in 0..n /\ \A k \in 1..n : k \in 0..n /\ k # 0
    BY <1>1
  <2>2. \A k \in 0..n : marked[k] = IF k = 0 THEN {from} ELSE MarkedMore(marked[k - 1], offer.order[k], C)
    BY <1>11
  <2> HIDE DEF Is
  <2> QED  BY <2>1, <2>2
<1> DEFINE Bad == {k \in 0..n : ~MarkedUpto(marked[k], k, from, offer)}
<1>13. ASSUME Bad # {}  PROVE FALSE
  <2>1. Bad \in SUBSET Nat
    BY <1>1
  <2>2. PICK k \in Bad : \A h \in Bad : k <= h
    <3> HIDE DEF Bad
    <3> QED  BY <1>13, <2>1, LeastOf
  <2>3. k \in 0..n /\ ~MarkedUpto(marked[k], k, from, offer)
    OBVIOUS
  <2>4. k # 0
    BY <1>12, <2>3, MarkedBegins
  <2>5. k \in 1..n /\ k - 1 \in 0..n /\ k - 1 < k
    BY <1>1, <2>3, <2>4
  <2>6. k - 1 \notin Bad
    <3> HIDE DEF Bad
    <3> QED  BY <2>1, <2>2, <2>5
  <2>7. MarkedUpto(marked[k - 1], k - 1, from, offer)
    BY <2>5, <2>6
  <2>8. MarkedUpto(MarkedMore(marked[k - 1], offer.order[k], C), k, from, offer)
    BY <1>5, <2>5, <2>7, MarkedStep DEF C
  <2> QED  BY <1>12, <2>3, <2>5, <2>8
<1>14. MarkedUpto(marked[n], n, from, offer)
  BY <1>1, <1>13
<1> HIDE DEF Bad
<1>15. ASSUME NEW b \in Led(from, offer)  PROVE b \in marked[n]
  <2>1. b \in 1..n
    BY <1>5, LedHas
  <2>2. PICK p : EndsAt(p, b, n, C) /\ p[1] = from
    BY <1>5, LedHas DEF C
  <2>3. p \in Seq(1..n)
    BY <2>2 DEF EndsAt, IsWalk
  <2>4. ASSUME NEW i \in 1..(Len(p) - 1)  PROVE Position(offer.order, p[i]) <= n
    <3>1. i \in 1..Len(p)
      BY <2>3
    <3>2. p[i] \in 1..n
      <4> DEFINE B == 1..n
      <4> HIDE DEF B
      <4>1. p \in Seq(B)
        BY <2>3 DEF B
      <4>2. p[i] \in B
        BY <3>1, <4>1
      <4> QED  BY <4>2 DEF B
    <3>3. Position(offer.order, p[i]) \in 1..n
      BY <1>1, <3>2, PositionIs
    <3> QED  BY <3>3
  <2> QED  BY <1>5, <1>14, <2>1, <2>2, <2>4 DEF MarkedUpto, C
<1>16. marked[n] \subseteq Led(from, offer)
  BY <1>14 DEF MarkedUpto
<1> QED  BY <1>10, <1>15, <1>16

------------------------------------------------------------------------------
(* What the steps of a column build.                                       *)
SystemFits(sys) ==
  sys.pole \in Nat /\ sys.roots \subseteq [a : Int, b : Int] /\ IsFiniteSet(sys.roots)

LEMMA SectorIs ==
  ASSUME NEW chain, NEW root, NEW tag
  PROVE  /\ Sector(chain, root, tag).chain = chain /\ Sector(chain, root, tag).root = root
         /\ Sector(chain, root, tag).tag = tag
BY DEF Sector

LEMMA RootIsUnshifted ==
  ASSUME NEW root \in [a : Int, b : Int]
  PROVE  Shifted(root, 0) = root /\ root.a \in Int
BY DEF Shifted

LEMMA ShiftedOnce ==
  ASSUME NEW root \in [a : Int, b : Int], NEW pole \in Nat, NEW n \in Nat \ {0}
  PROVE  [Shifted(root, pole * (n - 1)) EXCEPT !.a = @ - pole] = Shifted(root, pole * n)
<1> DEFINE x == pole * (n - 1)  y == pole * n
<1>1. root.a \in Int
  OBVIOUS
<1>2. y = x + pole /\ x \in Int /\ y \in Int
  OBVIOUS
<1> HIDE DEF x, y
<1>3. (root.a - x) - pole = root.a - y
  BY <1>1, <1>2
<1>4. [Shifted(root, x) EXCEPT !.a = @ - pole] = [a |-> (root.a - x) - pole, b |-> root.b]
  BY DEF Shifted
<1> QED  BY <1>3, <1>4 DEF Shifted, x, y

(* A solution that begins in a block.                                      *)
LEMMA BeginsFits ==
  ASSUME NEW m, Coherent(m), NEW b \in 1..Len(m.components), NEW sys, SystemFits(sys),
         NEW r \in sys.roots
  PROVE  SectorFits(Sector(<<b>>, r, r), b, m, sys) /\ Sector(<<b>>, r, r).chain = <<b>>
<1>1. EndsAt(<<b>>, b, Len(m.components), m.condensation) /\ Len(<<b>>) = 1
  BY DEF EndsAt, IsWalk, IsChain
<1>2. r \in [a : Int, b : Int] /\ sys.pole * (1 - 1) = 0
  BY DEF SystemFits
<1>3. r = Shifted(r, sys.pole * (Len(<<b>>) - 1))
  BY <1>1, <1>2, RootIsUnshifted
<1> DEFINE x == Sector(<<b>>, r, r)
<1>4. x.chain = <<b>> /\ x.root = r /\ x.tag = r
  BY SectorIs
<1> HIDE DEF x
<1> QED  BY <1>1, <1>3, <1>4 DEF SectorFits, x

LEMMA SeedHolds ==
  ASSUME NEW m, Coherent(m), NEW from \in 1..Len(m.components), NEW sys, SystemFits(sys),
         NEW r \in sys.roots, NEW more \in SUBSET sys.roots
  PROVE  HasChains({Sector(<<from>>, r, r)} \cup {Sector(<<from>>, q, q) : q \in more},
                   from, from, m, sys)
<1> DEFINE X == {Sector(<<from>>, r, r)} \cup {Sector(<<from>>, q, q) : q \in more}
<1>1. \A x \in X : SectorFits(x, from, m, sys)
  BY BeginsFits
<1>2. \A p \in ChainsBetween(from, from, m) : \E x \in X : x.chain = p
  BY LedSelf, SectorIs
<1> QED  BY <1>1, <1>2 DEF HasChains

(* What a coupling from block c adds to what block b is fed.               *)
LEMMA CoupledFits ==
  ASSUME NEW m, Coherent(m), NEW b \in 1..Len(m.components), NEW sys, SystemFits(sys),
         NEW c, <<c, b>> \in m.condensation, NEW y, SectorFits(y, c, m, sys)
  PROVE  LET x == Sector(Append(y.chain, b), y.root, [y.tag EXCEPT !.a = @ - sys.pole]) IN
         SectorFits(x, b, m, sys)
<1> DEFINE tag == [y.tag EXCEPT !.a = @ - sys.pole]  chain == Append(y.chain, b)
           x == Sector(chain, y.root, tag)  n == Len(y.chain)
<1>1. /\ EndsAt(y.chain, c, Len(m.components), m.condensation) /\ y.root \in sys.roots
      /\ y.tag = Shifted(y.root, sys.pole * (n - 1))
  BY DEF SectorFits
<1>2. n \in Nat \ {0} /\ sys.pole \in Nat /\ y.root \in [a : Int, b : Int]
  BY <1>1 DEF EndsAt, IsWalk, SystemFits
<1>3. EndsAt(chain, b, Len(m.components), m.condensation) /\ Len(chain) = n + 1
  BY <1>1, WalkLonger DEF Coherent
<1> HIDE DEF n
<1>4. tag = Shifted(y.root, sys.pole * n)
  BY <1>1, <1>2, ShiftedOnce
<1> HIDE DEF tag, chain
<1>5. (n + 1) - 1 = n
  BY <1>2
<1>6. x.chain = chain /\ x.root = y.root /\ x.tag = Shifted(y.root, sys.pole * n)
  BY <1>4, SectorIs
<1> HIDE DEF x
<1>7. SectorFits(x, b, m, sys)
  BY <1>1, <1>3, <1>5, <1>6 DEF SectorFits
<1> QED  BY <1>7 DEF x, chain, tag

LEMMA ChainShort ==
  ASSUME NEW m, Coherent(m), NEW b, NEW p, EndsAt(p, b, Len(m.components), m.condensation)
  PROVE  Len(p) \in 1..Len(m.components)
<1>1. p \in Chains(Len(m.components), m.condensation)
  BY ChainsAre DEF EndsAt, Coherent
<1>2. PICK n \in 1..Len(m.components) : p \in [1..n -> 1..Len(m.components)]
  BY <1>1 DEF Chains
<1> QED  BY <1>2

LEMMA FewTags ==
  ASSUME NEW m, Coherent(m), NEW b, NEW sys, SystemFits(sys), NEW X, X # {},
         \A x \in X : SectorFits(x, b, m, sys)
  PROVE  Cardinality(TagsOf(X)) \in Nat \ {0}
<1> DEFINE K == 1..Len(m.components)  R == sys.roots
           g == [z \in R \X K |-> Shifted(z[1], sys.pole * (z[2] - 1))]  T == {g[z] : z \in R \X K}
<1>1. IsFiniteSet(R \X K)
  <2>1. IsFiniteSet(K) /\ IsFiniteSet(R)
    BY IntervalCount DEF Coherent, SystemFits
  <2> HIDE DEF K, R
  <2> QED  BY <2>1, FS_Product
<1>2. IsFiniteSet(T)
  <2>1. g \in Surjection(R \X K, T)
    BY DEF Surjection
  <2> HIDE DEF g, T, R, K
  <2> QED  BY <1>1, <2>1, FS_Surjection
<1>3. TagsOf(X) \subseteq T
  <2> SUFFICES ASSUME NEW x \in X  PROVE x.tag \in T
    BY DEF TagsOf
  <2>1. /\ EndsAt(x.chain, b, Len(m.components), m.condensation) /\ x.root \in R
        /\ x.tag = Shifted(x.root, sys.pole * (Len(x.chain) - 1))
    BY DEF SectorFits
  <2>2. <<x.root, Len(x.chain)>> \in R \X K
    BY <2>1, ChainShort
  <2>3. g[<<x.root, Len(x.chain)>>] = x.tag
    BY <2>1, <2>2
  <2> HIDE DEF g
  <2> QED  BY <2>2, <2>3
<1> HIDE DEF T
<1>4. IsFiniteSet(TagsOf(X))
  BY <1>2, <1>3, FS_Subset
<1>5. TagsOf(X) # {}
  BY DEF TagsOf
<1> QED  BY <1>4, <1>5, FS_CardinalityType, FS_EmptySet

LEMMA NearestIs ==
  ASSUME Coherent(offer), NEW blocks \in SUBSET (1..Len(offer.components)), blocks # {}
  PROVE  /\ Nearest(blocks) \in blocks
         /\ \A c \in blocks : Position(offer.order, Nearest(blocks)) <= Position(offer.order, c)
<1> DEFINE at(c) == Position(offer.order, c)  S == {at(c) : c \in blocks}
<1>1. \A c \in blocks : at(c) \in Nat
  <2> TAKE c \in blocks
  <2>1. at(c) \in 1..Len(offer.components)
    BY PositionIs DEF Coherent
  <2> QED  BY <2>1
<1> HIDE DEF at
<1>2. S \in SUBSET Nat /\ S # {}
  BY <1>1
<1>3. PICK x \in S : \A y \in S : x <= y
  <2> HIDE DEF S
  <2> QED  BY <1>2, LeastOf
<1>4. \E b \in blocks : \A c \in blocks : at(b) <= at(c)
  BY <1>3
<1> QED  BY <1>4 DEF Nearest, at

(* The evidence grows by one block.                                        *)
LEMMA LogMore ==
  ASSUME NEW solved, NEW affine, NEW log, LogFits(log, solved, affine),
         NEW b \in Nat, b \notin solved, NEW runs \in Nat \ {0}
  PROVE  LogFits(Witnessed(log, b, affine, runs), solved \cup {b}, affine)
<1> DEFINE R == [block : Nat, rows : {Taylor + 1}, affine : {affine}, runs : Nat \ {0}]
           x == Evidence(b, affine, runs)  n == Len(log)  t == Append(log, x)
<1>1. /\ log \in Seq(R) /\ n \in Nat /\ \A i \in 1..n : log[i].block \in solved
      /\ \A i, j \in 1..n : log[i].block = log[j].block => i = j
      /\ IsFiniteSet(solved) /\ n = Cardinality(solved)
  <2> HIDE DEF R
  <2> QED  BY DEF LogFits, R
<1>2. x \in R /\ x.block = b
  BY DEF Evidence
<1>3. Witnessed(log, b, affine, runs) = t
  BY <1>1 DEF Witnessed
<1> HIDE DEF x, R
<1>4. t \in Seq(R) /\ Len(t) = n + 1 /\ t[n + 1] = x /\ \A i \in 1..n : t[i] = log[i]
  BY <1>1, <1>2
<1>5. IsFiniteSet(solved \cup {b}) /\ Cardinality(solved \cup {b}) = n + 1
  BY <1>1, FS_AddElement
<1> HIDE DEF t, n
<1>6. \A i \in 1..(n + 1) : i \in 1..n \/ i = n + 1
  BY <1>1
<1>7. \A i \in 1..(n + 1) : t[i].block \in solved \cup {b}
  BY <1>1, <1>2, <1>4, <1>6
<1>8. \A i, j \in 1..(n + 1) : t[i].block = t[j].block => i = j
  BY <1>1, <1>2, <1>4, <1>6
<1>9. LogFits(t, solved \cup {b}, affine)
  BY <1>4, <1>5, <1>7, <1>8 DEF LogFits, R
<1> QED  BY <1>3, <1>9

LEMMA LogFirst ==
  ASSUME NEW affine, NEW b \in Nat
  PROVE  LogFits(Witnessed(<<>>, b, affine, 1), {b}, affine)
<1> DEFINE R == [block : Nat, rows : {Taylor + 1}, affine : {affine}, runs : Nat \ {0}]
<1>1. LogFits(<<>>, {}, affine)
  <2>1. <<>> \in Seq(R) /\ Len(<<>>) = 0
    OBVIOUS
  <2>2. IsFiniteSet({}) /\ Cardinality({}) = 0
    BY FS_EmptySet
  <2> HIDE DEF R
  <2> QED  BY <2>1, <2>2 DEF LogFits, R
<1>2. LogFits(Witnessed(<<>>, b, affine, 1), {} \cup {b}, affine)
  BY <1>1, LogMore
<1>3. {} \cup {b} = {b}
  OBVIOUS
<1> QED  BY <1>2, <1>3

------------------------------------------------------------------------------
(* The block that is solved next.  Its neighbours before it in the order   *)
(* are solved if the seed leads to them, because they are nearer.          *)
LEMMA NextTarget ==
  ASSUME Coherent(offer), UnderWay, todo # {}, NEW b, b = Nearest(todo)
  PROVE  /\ b \in todo /\ b \in Blocks /\ b # seed /\ b \in Led(seed, offer)
         /\ \A c : <<c, b>> \in offer.condensation =>
              c \in Blocks /\ (c \in Led(seed, offer) <=> state[c].solved)
<1> DEFINE led == Led(seed, offer)  n == Len(offer.components)
<1>1. led \subseteq Blocks /\ todo \subseteq led \ {seed}
  BY DEF Led, UnderWay, ColumnAt, Blocks
<1>2. b \in todo /\ \A c \in todo : Position(offer.order, b) <= Position(offer.order, c)
  <2>1. todo \in SUBSET (1..n)
    BY <1>1 DEF Blocks
  <2> QED  BY <2>1, NearestIs
<1>3. ASSUME NEW c, <<c, b>> \in offer.condensation
      PROVE  c \in Blocks /\ (c \in led <=> state[c].solved)
  <2>1. c \in 1..n /\ b \in 1..n /\ n \in Nat /\ Ordered(offer.order, n, offer.condensation)
    <3> HIDE DEF n
    <3>1. n \in Nat /\ Ordered(offer.order, n, offer.condensation)
      BY DEF Coherent, n
    <3> QED  BY <1>3, <3>1 DEF Ordered
  <2>2. Position(offer.order, c) < Position(offer.order, b)
    <3>1. <<c, b>>[1] = c /\ <<c, b>>[2] = b
      OBVIOUS
    <3> QED  BY <1>3, <2>1, <3>1 DEF Ordered, Topological
  <2>3. Position(offer.order, c) \in 1..n /\ Position(offer.order, b) \in 1..n
    BY <2>1, PositionIs
  <2>4. c \notin todo
    <3>1. ~(Position(offer.order, b) <= Position(offer.order, c))
      BY <2>1, <2>2, <2>3
    <3> QED  BY <1>2, <3>1
  <2>5. c \in Blocks
    BY <2>1 DEF Blocks
  <2> QED  BY <2>4, <2>5 DEF UnderWay, ColumnAt, Blocks
<1> QED  BY <1>1, <1>2, <1>3

LEMMA SourceFed ==
  ASSUME Coherent(offer), UnderWay, todo # {}, NEW b, b = Nearest(todo)
  PROVE  FedBy(Couplings(b), seed, b, offer)
<1>1. Couplings(b) \subseteq 1..Len(offer.couplings)
  BY DEF Couplings
<1>2. ASSUME NEW i \in 1..Len(offer.couplings)
      PROVE  i \in Couplings(b) <=> offer.couplings[i].to = b /\ offer.couplings[i].from \in Led(seed, offer)
  <2>1. <<offer.couplings[i].from, offer.couplings[i].to>> \in offer.condensation
    BY DEF Coherent
  <2>2. offer.couplings[i].to = b =>
          (offer.couplings[i].from \in Led(seed, offer) <=> state[offer.couplings[i].from].solved)
    BY <2>1, NextTarget
  <2>3. i \in Couplings(b) <=> offer.couplings[i].to = b /\ state[offer.couplings[i].from].solved
    BY DEF Couplings
  <2> QED  BY <2>2, <2>3
<1> QED  BY <1>1, <1>2 DEF FedBy

LEMMA SourceHolds ==
  ASSUME Coherent(offer), SystemFits(system), UnderWay, todo # {}, NEW b, b = Nearest(todo)
  PROVE  HasChains(Source(b), seed, b, offer, system)
<1> DEFINE n == Len(offer.components)  C == offer.condensation
<1>1. b \in Blocks /\ b \in 1..n /\ b # seed /\ todo \subseteq Led(seed, offer) /\ b \in todo
  BY NextTarget DEF Blocks, UnderWay, ColumnAt
<1>2. ASSUME NEW i \in Couplings(b)
      PROVE  LET c == offer.couplings[i].from IN
             <<c, b>> \in C /\ HasChains(state[c].sectors, seed, c, offer, system)
  <2> DEFINE c == offer.couplings[i].from
  <2>1. i \in 1..Len(offer.couplings) /\ offer.couplings[i].to = b /\ state[c].solved
    BY DEF Couplings
  <2>2. <<c, b>> \in C
    BY <2>1 DEF Coherent
  <2>3. c \in Blocks
    BY <2>2, NextTarget
  <2>4. c \in Led(seed, offer) \ todo
    BY <2>1, <2>3 DEF UnderWay, ColumnAt, Blocks
  <2> QED  BY <2>2, <2>4 DEF UnderWay, ColumnAt
<1>3. ASSUME NEW x \in Source(b)  PROVE SectorFits(x, b, offer, system)
  <2>1. PICK i \in Couplings(b) : x \in Coupled(offer.couplings[i].from, b)
    BY DEF Source
  <2> DEFINE c == offer.couplings[i].from
  <2>2. <<c, b>> \in C /\ \A y \in state[c].sectors : SectorFits(y, c, offer, system)
    BY <1>2 DEF HasChains
  <2>3. PICK y \in state[c].sectors :
          x = Sector(Append(y.chain, b), y.root, [y.tag EXCEPT !.a = @ - system.pole])
    BY <2>1 DEF Coupled
  <2> HIDE DEF c
  <2> QED  BY <1>1, <2>2, <2>3, CoupledFits
<1>4. ASSUME NEW p \in ChainsBetween(seed, b, offer)  PROVE \E x \in Source(b) : x.chain = p
  <2>1. IsWalk(p, n, C) /\ p[1] = seed /\ p[Len(p)] = b
    BY ChainsBetweenAre DEF EndsAt
  <2> DEFINE h == Len(p)  q == SubSeq(p, 1, h - 1)  c == p[h - 1]
  <2>2. h \in Nat \ {0} /\ p \in Seq(1..n)
    BY <2>1 DEF IsWalk
  <2>3. h # 1
    BY <1>1, <2>1
  <2>4. /\ h - 1 \in 1..h /\ EndsAt(q, c, n, C) /\ Len(q) = h - 1 /\ <<c, p[h]>> \in C
        /\ \A i \in 1..(h - 1) : q[i] = p[i]
    <3>1. n \in Nat
      BY DEF Coherent
    <3>2. AllButLast(p, q, n, C)
      BY <2>1, <2>3, <3>1, WalkShorter
    <3> HIDE DEF q
    <3> QED  BY <3>2 DEF AllButLast
  <2>5. q[1] = seed /\ Append(q, b) = p
    <3>1. 1 \in 1..(h - 1)
      <4> HIDE DEF h
      <4> QED  BY <2>2, <2>3
    <3>2. q[1] = seed
      BY <2>1, <2>4, <3>1
    <3>3. Append(q, b) = p
      <4> DEFINE B == 1..n
      <4>1. p \in Seq(B) /\ q \in Seq(B)
        BY <2>2, <2>4 DEF EndsAt, IsWalk
      <4> HIDE DEF B, q
      <4>2. Len(Append(q, b)) = h /\ Append(q, b) \in Seq(B \cup {b}) /\ p \in Seq(B \cup {b})
        BY <2>2, <2>4, <4>1
      <4>3. \A i \in 1..h : Append(q, b)[i] = p[i]
        <5> TAKE i \in 1..h
        <5>1. i \in 1..(h - 1) \/ i = (h - 1) + 1
          <6> HIDE DEF h
          <6> QED  BY <2>2
        <5> QED  BY <2>1, <2>2, <2>4, <4>1, <5>1
      <4> QED  BY <4>2, <4>3
    <3> QED  BY <3>2, <3>3
  <2> HIDE DEF q, c, h
  <2>6. q \in ChainsBetween(seed, c, offer) /\ <<c, b>> \in C
    BY <2>1, <2>4, <2>5, ChainsBetweenAre DEF h
  <2>7. c \in Blocks /\ c \in Led(seed, offer) /\ state[c].solved
    <3>1. c \in Blocks /\ (c \in Led(seed, offer) <=> state[c].solved)
      BY <2>6, NextTarget
    <3>2. c \in Led(seed, offer)
      BY <2>6, <3>1 DEF Led, Blocks
    <3> QED  BY <3>1, <3>2
  <2>8. c \in Led(seed, offer) \ todo
    BY <2>7 DEF UnderWay, ColumnAt, Blocks
  <2>9. PICK y \in state[c].sectors : y.chain = q
    BY <2>6, <2>8 DEF UnderWay, ColumnAt, HasChains
  <2>10. PICK i \in 1..Len(offer.couplings) : <<offer.couplings[i].from, offer.couplings[i].to>> = <<c, b>>
    <3>1. <<c, b>> \in Range(Pairs(offer))
      BY <2>6 DEF Coherent
    <3>2. PICK i \in DOMAIN Pairs(offer) : Pairs(offer)[i] = <<c, b>>
      BY <3>1 DEF Range
    <3>3. i \in 1..Len(offer.couplings)
      BY DEF Pairs
    <3>4. Pairs(offer)[i] = <<offer.couplings[i].from, offer.couplings[i].to>>
      BY <3>3 DEF Coherent
    <3> QED  BY <3>2, <3>3, <3>4
  <2>11. offer.couplings[i].from = c /\ offer.couplings[i].to = b
    <3> DEFINE d == offer.couplings[i].from  e == offer.couplings[i].to
    <3> HIDE DEF d, e
    <3>1. <<d, e>> = <<c, b>>
      BY <2>10 DEF d, e
    <3>2. d = c /\ e = b
      BY <3>1
    <3> QED  BY <3>2 DEF d, e
  <2>12. i \in Couplings(b)
    BY <2>7, <2>11 DEF Couplings
  <2> DEFINE tag == [y.tag EXCEPT !.a = @ - system.pole]  chain == Append(y.chain, b)
             x == Sector(chain, y.root, tag)
  <2>13. x \in Source(b)
    <3>1. x \in Coupled(c, b)
      BY DEF Coupled
    <3> HIDE DEF x
    <3> QED  BY <2>11, <2>12, <3>1 DEF Source
  <2>14. x.chain = p
    <3> HIDE DEF tag
    <3>1. chain = p
      BY <2>5, <2>9
    <3> HIDE DEF chain
    <3>2. x.chain = chain
      BY SectorIs
    <3> QED  BY <3>1, <3>2
  <2> HIDE DEF x
  <2> QED  BY <2>13, <2>14
<1> QED  BY <1>3, <1>4 DEF HasChains

LEMMA FamilyIsOfRoots ==
  ASSUME NEW q
  PROVE  HomogeneousFamily(q) \subseteq system.roots
BY DEF HomogeneousFamily

(* What solving a group of sectors adds to it begins in the block.         *)
Brought(b, tag, homogeneous) ==
  {Sector(<<b>>, r, r) : r \in UNION {HomogeneousFamily(s) : s \in PseudoRoots(tag, homogeneous)}}

LEMMA ParticularsHold ==
  ASSUME Coherent(offer), SystemFits(system), NEW b \in Blocks, NEW from, NEW X,
         HasChains(X, from, b, offer, system)
  PROVE  HasChains(Particulars(b, X), from, b, offer, system)
<1> DEFINE more(tag) == Brought(b, tag, FALSE)  P == Particulars(b, X)
<1>1. P = UNION {Group(X, tag) \cup more(tag) : tag \in TagsOf(X)}
  BY DEF Particulars, Solved, Brought
<1>2. ASSUME NEW tag, NEW x \in more(tag)  PROVE \E r \in system.roots : x = Sector(<<b>>, r, r)
  BY FamilyIsOfRoots DEF Brought
<1> HIDE DEF more, P
<1>3. ASSUME NEW x \in X  PROVE x \in P
  BY <1>1 DEF TagsOf, Group
<1>4. ASSUME NEW x \in P  PROVE SectorFits(x, b, offer, system)
  <2>1. PICK tag \in TagsOf(X) : x \in Group(X, tag) \cup more(tag)
    BY <1>1
  <2>2. CASE x \in Group(X, tag)
    BY <2>2 DEF Group, HasChains
  <2>3. CASE x \in more(tag)
    <3>1. PICK r \in system.roots : x = Sector(<<b>>, r, r)
      BY <1>2, <2>3
    <3>2. b \in 1..Len(offer.components)
      BY DEF Blocks
    <3> QED  BY <3>1, <3>2, BeginsFits
  <2> QED  BY <2>1, <2>2, <2>3
<1>5. \A p \in ChainsBetween(from, b, offer) : \E x \in P : x.chain = p
  BY <1>3 DEF HasChains
<1> QED  BY <1>4, <1>5 DEF HasChains, P

(* What one request asks for is of one block and of one contract.          *)
AskedBy(asked, b, form) == \A x \in asked : x[1] = b /\ x[3] = Mine(form)

LEMMA AskedIs ==
  ASSUME NEW b, NEW tag, NEW homogeneous, NEW form
  PROVE  AskedBy(Asked(b, tag, homogeneous, form), b, form)
<1> SUFFICES ASSUME NEW x \in Asked(b, tag, homogeneous, form)
             PROVE  x[1] = b /\ x[3] = Mine(form)
  BY DEF AskedBy
<1>1. PICK r \in PseudoRoots(tag, homogeneous) :
        x \in {<<b, s, TargetContract(homogeneous, form)>> : s \in HomogeneousFamily(r)}
  BY DEF Asked
<1>2. PICK s \in HomogeneousFamily(r) : x = <<b, s, TargetContract(homogeneous, form)>>
  BY <1>1
<1>3. TargetContract(homogeneous, form) = Mine(form)
  BY DEF TargetContract, Mine
<1> QED  BY <1>2, <1>3

------------------------------------------------------------------------------
(* A column begins and grows.                                              *)
LEMMA NothingFeedsTheSeed ==
  ASSUME NEW m, Coherent(m), NEW from \in 1..Len(m.components)
  PROVE  FedBy({}, from, from, m)
<1> SUFFICES ASSUME NEW i \in 1..Len(m.couplings), m.couplings[i].to = from,
                    m.couplings[i].from \in Led(from, m)
             PROVE  FALSE
  BY DEF FedBy
<1> DEFINE c == m.couplings[i].from  n == Len(m.components)
<1>1. <<c, from>> \in m.condensation /\ n \in Nat
  BY DEF Coherent
<1> HIDE DEF c
<1>2. PICK p : EndsAt(p, c, n, m.condensation) /\ p[1] = from
  BY LedHas DEF c
<1>3. /\ EndsAt(Append(p, from), from, n, m.condensation)
      /\ Len(Append(p, from)) = Len(p) + 1 /\ Append(p, from)[1] = from
  BY <1>1, <1>2, WalkLonger
<1>4. Append(p, from) \in ChainsBetween(from, from, m)
  BY <1>3, ChainsBetweenAre
<1>5. Append(p, from) = <<from>>
  BY <1>4, LedSelf
<1>6. Len(p) \in Nat \ {0} /\ Len(<<from>>) = 1
  BY <1>2 DEF EndsAt, IsWalk
<1>7. Len(Append(p, from)) = 1
  BY <1>5, <1>6, Zenon
<1>8. \A x \in Nat \ {0} : x + 1 # 1
  OBVIOUS
<1> QED  BY <1>3, <1>6, <1>7, <1>8, Zenon

LEMMA ColumnBegins ==
  ASSUME NEW m, Coherent(m), NEW sys, NEW b \in 1..Len(m.components),
         NEW X, HasChains(X, b, b, m, sys), NEW states, NEW feeds,
         states = [c \in 1..Len(m.components) |->
                     IF c = b THEN [sectors |-> X, solved |-> TRUE] ELSE Unsolved],
         feeds = [c \in 1..Len(m.components) |-> {}]
  PROVE  ColumnAt(m, sys, b, Led(b, m) \ {b}, states, feeds)
<1> DEFINE led == Led(b, m)  left == led \ {b}  blocks == 1..Len(m.components)
<1>1. b \in led /\ led \subseteq blocks /\ led \ left = {b}
  BY LedSelf DEF Led
<1> HIDE DEF led, blocks
<1>2. DOMAIN states = blocks /\ DOMAIN feeds = blocks
  BY DEF blocks
<1>3. /\ states[b] = [sectors |-> X, solved |-> TRUE] /\ feeds[b] = {}
      /\ \A c \in blocks : c # b => states[c] = Unsolved /\ feeds[c] = {}
  BY DEF blocks
<1>4. states[b].solved /\ states[b].sectors = X
  BY <1>3
<1>5. \A c \in blocks : c # b => ~states[c].solved /\ states[c].sectors = {}
  <2>1. ~Unsolved.solved /\ Unsolved.sectors = {}
    BY DEF Unsolved
  <2> QED  BY <1>3, <2>1, Zenon
<1>6. FedBy(feeds[b], b, b, m)
  BY <1>3, NothingFeedsTheSeed
<1> QED  BY <1>1, <1>2, <1>3, <1>4, <1>5, <1>6 DEF ColumnAt, led, blocks

LEMMA ColumnGrows ==
  ASSUME NEW m, NEW sys, NEW from, NEW left, NEW states, NEW feeds,
         ColumnAt(m, sys, from, left, states, feeds), NEW b \in left,
         NEW X, HasChains(X, from, b, m, sys), NEW indices, FedBy(indices, from, b, m),
         NEW states2, states2 = [states EXCEPT ![b] = [sectors |-> X, solved |-> TRUE]],
         NEW feeds2, feeds2 = [feeds EXCEPT ![b] = indices]
  PROVE  ColumnAt(m, sys, from, left \ {b}, states2, feeds2)
<1> DEFINE led == Led(from, m)  blocks == 1..Len(m.components)
<1>1. /\ from \in blocks /\ left \subseteq led \ {from} /\ DOMAIN states = blocks /\ DOMAIN feeds = blocks
      /\ b \in blocks /\ led \subseteq blocks
  BY DEF ColumnAt, Led
<1> HIDE DEF blocks
<1>2. /\ DOMAIN states2 = blocks /\ DOMAIN feeds2 = blocks
      /\ states2[b] = [sectors |-> X, solved |-> TRUE] /\ feeds2[b] = indices
      /\ \A c \in blocks : c # b => states2[c] = states[c] /\ feeds2[c] = feeds[c]
  BY <1>1
<1>3. states2[b].solved /\ states2[b].sectors = X
  BY <1>2
<1>4. led \ (left \ {b}) = (led \ left) \cup {b}
  BY <1>1
<1> HIDE DEF led
<1>5. ASSUME NEW c \in led \ (left \ {b})
      PROVE  /\ states2[c].solved /\ HasChains(states2[c].sectors, from, c, m, sys)
             /\ FedBy(feeds2[c], from, c, m)
  <2>1. CASE c = b
    BY <1>2, <1>3, <2>1
  <2>2. CASE c # b
    <3>1. c \in led \ left /\ c \in blocks
      BY <1>1, <2>2
    <3>2. states[c].solved /\ HasChains(states[c].sectors, from, c, m, sys) /\ FedBy(feeds[c], from, c, m)
      BY <3>1 DEF ColumnAt, led
    <3> QED  BY <1>2, <2>2, <3>1, <3>2
  <2> QED  BY <2>1, <2>2
<1>6. ASSUME NEW c \in blocks \ (led \ (left \ {b}))
      PROVE  ~states2[c].solved /\ states2[c].sectors = {} /\ feeds2[c] = {}
  <2>1. c # b /\ c \in blocks \ (led \ left)
    BY <1>1, <1>4
  <2>2. ~states[c].solved /\ states[c].sectors = {} /\ feeds[c] = {}
    BY <2>1 DEF ColumnAt, led, blocks
  <2> QED  BY <1>2, <2>1, <2>2
<1> QED  BY <1>1, <1>2, <1>5, <1>6 DEF ColumnAt, led, blocks

------------------------------------------------------------------------------
(* A column that is complete.                                              *)
LEMMA AllFed ==
  ASSUME Coherent(offer), UnderWay, todo = {}, NEW b \in Blocks
  PROVE  FedBy(fed[b], seed, b, offer)
<1>1. CASE b \in Led(seed, offer)
  BY <1>1 DEF UnderWay, ColumnAt
<1>2. CASE b \notin Led(seed, offer)
  <2>1. fed[b] = {}
    BY <1>2 DEF UnderWay, ColumnAt, Blocks
  <2>2. ASSUME NEW i \in 1..Len(offer.couplings), offer.couplings[i].to = b,
               offer.couplings[i].from \in Led(seed, offer)
        PROVE  FALSE
    <3> DEFINE c == offer.couplings[i].from  n == Len(offer.components)
    <3>1. <<c, b>> \in offer.condensation /\ n \in Nat /\ b \in 1..n
      BY <2>2 DEF Coherent, Blocks
    <3>2. c \in Led(seed, offer)
      BY <2>2
    <3> HIDE DEF c
    <3>3. PICK p : EndsAt(p, c, n, offer.condensation) /\ p[1] = seed
      BY <3>2, LedHas
    <3>4. EndsAt(Append(p, b), b, n, offer.condensation) /\ Append(p, b)[1] = seed
      BY <3>1, <3>3, WalkLonger
    <3>5. b \in Led(seed, offer)
      BY <3>1, <3>4, LedHas
    <3> QED  BY <1>2, <3>5
  <2> QED  BY <2>1, <2>2 DEF FedBy
<1> QED  BY <1>1, <1>2

LEMMA CompleteIsFed ==
  ASSUME Coherent(offer), UnderWay, todo = {}, NEW b \in Blocks
  PROVE  FedOnce(b)
<1> DEFINE C == offer.condensation  fits(e) == e[2] = b /\ FromSeed(e[1]) # {}  n == Len(offer.components)
<1>1. FedBy(fed[b], seed, b, offer)
  BY AllFed
<1>2. fed[b] \subseteq 1..Len(offer.couplings)
  BY <1>1 DEF FedBy
<1>3. \A i, j \in fed[b] : Pairs(offer)[i] = Pairs(offer)[j] => i = j
  BY <1>2 DEF Coherent
<1>4. \A c \in 1..n : c \in Led(seed, offer) <=> FromSeed(c) # {}
  BY DEF Led, FromSeed, ChainsBetween
<1>5. ASSUME NEW i \in fed[b]  PROVE Pairs(offer)[i] \in C /\ fits(Pairs(offer)[i])
  <2> DEFINE c == offer.couplings[i].from
  <2>1. i \in 1..Len(offer.couplings) /\ offer.couplings[i].to = b /\ c \in Led(seed, offer)
    BY <1>1, <1>2 DEF FedBy
  <2>2. Pairs(offer)[i] = <<c, b>> /\ <<c, b>> \in C /\ c \in 1..n
    BY <2>1 DEF Coherent
  <2> HIDE DEF c
  <2>3. <<c, b>>[1] = c /\ <<c, b>>[2] = b
    OBVIOUS
  <2>4. FromSeed(c) # {}
    BY <1>4, <2>1, <2>2
  <2> QED  BY <2>2, <2>3, <2>4
<1>6. ASSUME NEW e \in C, fits(e)  PROVE \E i \in fed[b] : Pairs(offer)[i] = e
  <2>1. e \in Range(Pairs(offer)) /\ e \in (1..n) \X (1..n)
    BY DEF Coherent, Ordered
  <2>2. PICK i \in 1..Len(offer.couplings) : Pairs(offer)[i] = e
    BY <2>1 DEF Range, Pairs
  <2> DEFINE c == offer.couplings[i].from  d == offer.couplings[i].to
  <2>3. e = <<c, d>>
    BY <2>2 DEF Coherent
  <2> HIDE DEF c, d
  <2>4. e[1] = c /\ e[2] = d
    BY <2>3
  <2>5. c \in Led(seed, offer) /\ d = b
    <3>1. e[1] \in 1..n
      BY <2>1
    <3> QED  BY <1>4, <1>6, <2>4, <3>1
  <2>6. i \in fed[b]
    BY <1>1, <2>5 DEF FedBy, c, d
  <2> QED  BY <2>2, <2>6
<1>7. {Pairs(offer)[i] : i \in fed[b]} = {e \in C : fits(e)}
  <2> HIDE DEF fits, C
  <2> QED  BY <1>5, <1>6
<1> QED  BY <1>3, <1>7 DEF FedOnce

LEMMA CompleteHolds ==
  ASSUME Coherent(offer), SystemFits(system), UnderWay, todo = {}, NEW b \in Blocks
  PROVE  HoldsChains(b)
<1> DEFINE X == state[b].sectors  n == Len(offer.components)
<1>1. FromSeed(b) = ChainsBetween(seed, b, offer)
  BY DEF FromSeed, ChainsBetween
<1>2. HasChains(X, seed, b, offer, system)
  <2>1. CASE b \in Led(seed, offer)
    BY <2>1 DEF UnderWay, ColumnAt
  <2>2. CASE b \notin Led(seed, offer)
    <3>1. X = {}
      BY <2>2 DEF UnderWay, ColumnAt, Blocks
    <3>2. ChainsBetween(seed, b, offer) = {}
      BY <2>2 DEF Led, Blocks
    <3> HIDE DEF X
    <3> QED  BY <3>1, <3>2 DEF HasChains
  <2> QED  BY <2>1, <2>2
<1> HIDE DEF X
<1>3. ASSUME NEW x \in X
      PROVE  /\ EndsAt(x.chain, b, n, offer.condensation)
             /\ x.tag = [x.root EXCEPT !.a = @ - system.pole * (Len(x.chain) - 1)]
  <2>1. /\ EndsAt(x.chain, b, n, offer.condensation) /\ x.root \in system.roots
        /\ x.tag = Shifted(x.root, system.pole * (Len(x.chain) - 1))
    BY <1>2 DEF HasChains, SectorFits
  <2>2. x.root \in [a : Int, b : Int]
    BY <2>1 DEF SystemFits
  <2> DEFINE by == system.pole * (Len(x.chain) - 1)
  <2> HIDE DEF by
  <2>3. Shifted(x.root, by) = [x.root EXCEPT !.a = @ - by]
    BY <2>2 DEF Shifted
  <2> QED  BY <2>1, <2>3 DEF by
<1>4. ASSUME NEW x \in X, x.chain[1] = seed  PROVE x.chain \in FromSeed(b)
  <2> DEFINE p == x.chain
  <2>1. EndsAt(p, b, n, offer.condensation) /\ p[1] = seed
    BY <1>3, <1>4
  <2> HIDE DEF p
  <2>2. p \in ChainsBetween(seed, b, offer)
    BY <2>1, ChainsBetweenAre
  <2> QED  BY <1>1, <2>2 DEF p
<1>5. \A p \in FromSeed(b) : p[1] = seed /\ \E x \in X : x.chain = p
  BY <1>1, <1>2, ChainsBetweenAre DEF HasChains
<1>6. {x.chain : x \in {x \in X : x.chain[1] = seed}} = FromSeed(b)
  BY <1>4, <1>5
<1> QED  BY <1>3, <1>6 DEF HoldsChains, X

LEMMA CompleteIsUnique ==
  ASSUME Coherent(offer), UnderWay, todo = {}, system.domain = "rational"
  PROVE  UniquePath
<1> DEFINE led == Led(seed, offer)
<1>1. Marked(seed) = led
  BY MarkedIs DEF UnderWay, ColumnAt
<1>2. \A b \in Blocks : state[b].solved <=> b \in led
  BY DEF UnderWay, ColumnAt, Blocks
<1>3. LogFits(evidence, led, singular)
  <2>1. led \ todo = led
    OBVIOUS
  <2> QED  BY <2>1 DEF UnderWay
<1> DEFINE R == [block : Nat, rows : {Taylor + 1}, affine : {singular}, runs : Nat \ {0}]
<1>4. \A i \in 1..Len(evidence) : evidence[i] \in R
  <2>1. evidence \in Seq(R)
    BY <1>3 DEF LogFits
  <2> HIDE DEF R
  <2> QED  BY <2>1
<1>5. \A x \in R : x.rows = Taylor + 1 /\ x.affine = singular /\ x.runs # 0
  OBVIOUS
<1> HIDE DEF R, led
<1>6. \A i \in 1..Len(evidence) :
        /\ evidence[i].block \in led /\ evidence[i].rows = Taylor + 1
        /\ evidence[i].affine = singular /\ evidence[i].runs # 0
        /\ \A j \in 1..Len(evidence) : evidence[j].block = evidence[i].block => i = j
  BY <1>3, <1>4, <1>5 DEF LogFits
<1>7. Len(evidence) = Cardinality(led)
  BY <1>3 DEF LogFits
<1> QED  BY <1>1, <1>2, <1>6, <1>7 DEF UniquePath, Coherent

------------------------------------------------------------------------------
(* The invariant of the columns.                                           *)
LEMMA AskedInForms ==
  ASSUME NEW asked, NEW b, NEW form \in Forms, AskedBy(asked, b, form)
  PROVE  InForms(asked)
BY DEF AskedBy, InForms

LEMMA CacheGrows ==
  ASSUME NEW asked, InForms(asked), CacheFits(cached), Consistent(cached \cup asked)
  PROVE  CacheFits(cached \cup asked)
BY DEF CacheFits, InForms

LEMMA CacheIs ==
  ASSUME NEW entries, CacheFits(entries), cached' = entries
  PROVE  CacheFits(cached)'
BY DEF CacheFits, Consistent, InForms

(* A request that fails leaves no contract but its own.                    *)
LEMMA DroppedFits ==
  ASSUME NEW asked, InForms(asked), CacheFits(cached), Dropped(asked)
  PROVE  CacheFits(cached)' /\ cached \subseteq cached'
<1>1. PICK built \in SUBSET asked : cached' = cached \cup built /\ Consistent(cached \cup built)
  BY DEF Dropped
<1>2. InForms(built)
  BY <1>1 DEF InForms
<1>3. CacheFits(cached \cup built)
  BY <1>1, <1>2, CacheGrows
<1> QED  BY <1>1, <1>3, CacheIs

LEMMA FailureFits ==
  ASSUME ColumnInv, ManifestInv', NEW asked, InForms(asked), Fails(asked)
  PROVE  ColumnInv'
<1>1. step' = "failed" /\ CacheFits(cached)'
  BY DroppedFits DEF ColumnInv, Fails
<1> QED  BY <1>1 DEF ColumnInv, RefusedOverForm

(* A request is refused over another form: entries that were there agree,  *)
(* those it asks for agree, and the two kinds differ in nothing else.      *)
LEMMA RefusalFits ==
  ASSUME ColumnInv, ManifestInv', NEW asked, NEW b, NEW form \in Forms, AskedBy(asked, b, form),
         RefusedByCache(b, form, asked)
  PROVE  ColumnInv'
<1>1. step' = "contract-changed" /\ refusal' = <<b, form>> /\ ~Consistent(cached \cup asked)
  BY DEF RefusedByCache
<1>2. CacheFits(cached)' /\ cached \subseteq cached' /\ CacheFits(cached)
  BY DroppedFits, AskedInForms DEF ColumnInv, RefusedByCache
<1>3. PICK x \in cached \cup asked, y \in cached \cup asked : x[1] = y[1] /\ x[2] = y[2] /\ x[3] # y[3]
  BY <1>1 DEF Consistent
<1>4. ASSUME NEW z \in asked  PROVE z[1] = b /\ z[3] = Mine(form)
  BY <1>4 DEF AskedBy
<1>5. \E z \in cached : z[1] = b /\ z[3] # Mine(form)
  <2>1. CASE x \in asked
    <3>1. y \in cached
      BY <1>3, <1>4, <2>1
    <3> QED  BY <1>3, <1>4, <2>1, <3>1
  <2>2. CASE x \notin asked
    <3>1. x \in cached /\ y \notin cached
      BY <1>2, <1>3, <2>2 DEF CacheFits, Consistent
    <3>2. y \in asked
      BY <3>1
    <3> QED  BY <1>3, <1>4, <3>1, <3>2
  <2> QED  BY <2>1, <2>2
<1>6. PICK z \in cached : z[1] = b /\ z[3] # Mine(form)
  BY <1>5
<1>7. PICK f \in Forms : z[3] = Mine(f)
  BY <1>2 DEF CacheFits, InForms
<1>8. z[3].form = f
  BY <1>7 DEF Mine
<1>9. f # form
  BY <1>6, <1>7
<1>10. RefusedOverForm'
  BY <1>1, <1>2, <1>6, <1>8, <1>9 DEF RefusedOverForm
<1> QED  BY <1>1, <1>2, <1>10 DEF ColumnInv

LEMMA AcceptedParts ==
  ASSUME ManifestInv, step \notin {"prepare", "refused"}
  PROVE  Coherent(offer) /\ SystemFits(system) /\ Blocks \subseteq Nat
<1>1. AcceptsManifest(offer, system.dim, system.edges) /\ offer \in Manifests /\ system.dim \in Nat
  BY DEF ManifestInv
<1>2. Coherent(offer)
  BY <1>1, AcceptedCoheres
<1> QED  BY <1>2 DEF ManifestInv, SystemFits, Blocks

(* The seed's own solution, and what its schedule meets.                   *)
LEMMA SeedSolved ==
  ASSUME Coherent(offer), SystemFits(system), NEW b \in Blocks, NEW r \in system.roots
  PROVE  HasChains(Solved(b, {Sector(<<b>>, r, r)}, r, TRUE), b, b, offer, system)
<1> DEFINE more == UNION {HomogeneousFamily(s) : s \in PseudoRoots(r, TRUE)}
           X == Solved(b, {Sector(<<b>>, r, r)}, r, TRUE)
<1>1. more \in SUBSET system.roots
  BY FamilyIsOfRoots
<1>2. X = {Sector(<<b>>, r, r)} \cup {Sector(<<b>>, q, q) : q \in more}
  BY DEF Solved
<1>3. b \in 1..Len(offer.components)
  BY DEF Blocks
<1> HIDE DEF more, X
<1>4. HasChains(X, b, b, offer, system)
  BY <1>1, <1>2, <1>3, SeedHolds
<1> QED  BY <1>4 DEF X

LEMMA SeedStarts ==
  ASSUME ColumnInv, ManifestInv', NEW b, NEW r \in system.roots, NEW form \in Forms, SolveSeed(b, r, form)
  PROVE  ColumnInv'
<1> DEFINE asked == Asked(b, r, TRUE, form)
<1>1. Coherent(offer) /\ SystemFits(system) /\ Blocks \subseteq Nat
  BY AcceptedParts DEF ColumnInv, SolveSeed
<1>2. b \in Blocks /\ b \in Nat /\ b \in 1..Len(offer.components)
  BY <1>1 DEF SolveSeed, Blocks
<1>3. AskedBy(asked, b, form) /\ InForms(asked) /\ InForms({})
  <2>1. AskedBy(asked, b, form)
    BY AskedIs, Zenon
  <2> HIDE DEF asked
  <2> QED  BY <2>1, AskedInForms DEF InForms
<1>4. SeedCompleted(b, r, asked) \/ RefusedByCache(b, form, asked) \/ Fails(asked) \/ Fails({})
  BY DEF SolveSeed
<1> HIDE DEF asked
<1>5. CASE Fails(asked) \/ Fails({})
  BY <1>3, <1>5, FailureFits
<1>6. CASE RefusedByCache(b, form, asked)
  BY <1>3, <1>6, RefusalFits
<1>7. CASE SeedCompleted(b, r, asked)
  <2> DEFINE X == Solved(b, {Sector(<<b>>, r, r)}, r, TRUE)  affine == ~RegularReady
  <2>1. HasChains(X, b, b, offer, system)
    BY <1>1, <1>2, SeedSolved
  <2>2. /\ seed' = b /\ todo' = ExpectedTargets(b) /\ cached' = cached \cup asked
        /\ state' = [c \in Blocks |-> IF c = b THEN [sectors |-> X, solved |-> TRUE] ELSE Unsolved]
        /\ fed' = [c \in Blocks |-> {}] /\ step' = "targets" /\ Consistent(cached \cup asked)
        /\ offer' = offer /\ system' = system
    BY <1>7 DEF SeedCompleted
  <2>3. /\ evidence' = Validated(<<>>, b, affine, 1) /\ singular' = affine
        /\ deferred' \in (IF affine /\ system.domain = "rational" THEN BOOLEAN ELSE {FALSE})
    BY <1>7, Zenon DEF SeedCompleted
  <2>4. CacheFits(cached)'
    <3>1. CacheFits(cached \cup asked)
      BY <1>3, <2>2, CacheGrows DEF ColumnInv
    <3> QED  BY <2>2, <3>1, CacheIs
  <2> HIDE DEF X, affine
  <2>5. RefusedOverForm'
    BY <2>2 DEF RefusedOverForm
  <2>6. todo' = Led(b, offer) \ {b}
    BY <1>1, <1>2, <2>2, MarkedIs DEF ExpectedTargets
  <2>7. ColumnAt(offer, system, b, Led(b, offer) \ {b}, state', fed')
    <3>1. /\ state' = [c \in 1..Len(offer.components) |->
                         IF c = b THEN [sectors |-> X, solved |-> TRUE] ELSE Unsolved]
          /\ fed' = [c \in 1..Len(offer.components) |-> {}]
      BY <2>2 DEF Blocks
    <3> QED  BY <1>1, <1>2, <2>1, <3>1, ColumnBegins
  <2>8. system.domain = "rational" => LogFits(evidence', Led(b, offer) \ todo', singular')
    <3>1. Led(b, offer) \ todo' = {b}
      BY <1>1, <1>2, <2>6, LedSelf
    <3>2. LogFits(Witnessed(<<>>, b, affine, 1), {b}, affine)
      BY <1>2, LogFirst
    <3>3. system.domain = "rational" => evidence' = Witnessed(<<>>, b, affine, 1)
      BY <2>3 DEF Validated
    <3> QED  BY <2>3, <3>1, <3>2, <3>3, Zenon
  <2>9. deferred' \in BOOLEAN /\ (deferred' => system.domain = "rational")
    BY <2>3
  <2>10. UnderWay'
    BY <2>2, <2>6, <2>7, <2>8, <2>9, Zenon DEF UnderWay
  <2> QED  BY <2>2, <2>4, <2>5, <2>10 DEF ColumnInv
<1> QED  BY <1>4, <1>5, <1>6, <1>7

LEMMA TargetAdded ==
  ASSUME ColumnInv, ManifestInv', NEW form \in Forms, SolveTarget(form)
  PROVE  ColumnInv'
<1> DEFINE b == Nearest(todo)  S == Source(b)  asked == AskedFor(b, form)
           X == IF singular THEN Particulars(b, S) ELSE S
<1>1. step = "targets" /\ todo # {} /\ UnderWay
  BY DEF ColumnInv, SolveTarget
<1>2. Coherent(offer) /\ SystemFits(system) /\ Blocks \subseteq Nat
  BY <1>1, AcceptedParts DEF ColumnInv
<1>3. b = Nearest(todo)
  OBVIOUS
<1>4. AskedBy(asked, b, form) /\ InForms(asked) /\ InForms({})
  <2>1. ASSUME NEW x \in asked  PROVE x[1] = b /\ x[3] = Mine(form)
    <3>1. PICK tag \in TagsOf(S) : x \in Asked(b, tag, FALSE, form)
      BY DEF AskedFor
    <3> HIDE DEF b, S, asked
    <3>2. AskedBy(Asked(b, tag, FALSE, form), b, form)
      BY AskedIs, Zenon
    <3> QED  BY <3>1, <3>2 DEF AskedBy
  <2> HIDE DEF asked
  <2>2. AskedBy(asked, b, form)
    BY <2>1 DEF AskedBy
  <2> QED  BY <2>2, AskedInForms DEF InForms
<1>5. \/ Fails({}) \/ Fails(asked) \/ RefusedByCache(b, form, asked)
      \/ S # {} /\ TargetCompleted(b, asked)
  BY DEF SolveTarget
<1>6. HasChains(S, seed, b, offer, system)
  <2> HIDE DEF b
  <2>1. HasChains(Source(b), seed, b, offer, system)
    BY <1>1, <1>2, <1>3, SourceHolds
  <2> QED  BY <2>1
<1>7. FedBy(Couplings(b), seed, b, offer) /\ b \in todo /\ b \in Blocks /\ b \in Led(seed, offer)
  <2> HIDE DEF b
  <2> QED  BY <1>1, <1>2, <1>3, SourceFed, NextTarget
<1>8. HasChains(X, seed, b, offer, system)
  <2> HIDE DEF b, S
  <2>1. HasChains(Particulars(b, S), seed, b, offer, system)
    BY <1>2, <1>6, <1>7, ParticularsHold
  <2> QED  BY <1>6, <2>1
<1> HIDE DEF asked
<1>9. CASE Fails({}) \/ Fails(asked)
  <2> HIDE DEF b
  <2> QED  BY <1>4, <1>9, FailureFits
<1>10. CASE RefusedByCache(b, form, asked)
  <2> HIDE DEF b
  <2> QED  BY <1>4, <1>10, RefusalFits
<1>11. CASE S # {} /\ TargetCompleted(b, asked)
  <2> DEFINE count == Cardinality(TagsOf(S))
  <2>3. /\ cached' = cached \cup asked /\ Consistent(cached \cup asked)
        /\ state' = [state EXCEPT ![b] = [sectors |-> X, solved |-> TRUE]]
        /\ fed' = [fed EXCEPT ![b] = Couplings(b)]
        /\ evidence' = Validated(evidence, b, singular, count)
        /\ \E needed \in (IF singular /\ system.domain = "rational" THEN BOOLEAN ELSE {FALSE}) :
             deferred' = (deferred \/ needed)
        /\ todo' = todo \ {b} /\ step' = step
        /\ system' = system /\ offer' = offer /\ singular' = singular /\ seed' = seed
    BY <1>11 DEF TargetCompleted
  <2> HIDE DEF X, b
  <2>1. count \in Nat \ {0}
    <3> HIDE DEF S
    <3> QED  BY <1>2, <1>6, <1>11, FewTags DEF HasChains
  <2> HIDE DEF S, count
  <2>4. ColumnAt(offer, system, seed, todo \ {b}, state', fed')
    <3>1. ColumnAt(offer, system, seed, todo, state, fed)
      BY <1>1 DEF UnderWay
    <3> QED  BY <1>7, <1>8, <2>3, <3>1, ColumnGrows
  <2>5. system.domain = "rational" => LogFits(evidence', Led(seed, offer) \ todo', singular)
    <3> SUFFICES ASSUME system.domain = "rational"
                 PROVE  LogFits(evidence', Led(seed, offer) \ todo', singular)
      OBVIOUS
    <3>1. LogFits(evidence, Led(seed, offer) \ todo, singular)
      BY <1>1 DEF UnderWay
    <3>2. evidence' = Witnessed(evidence, b, singular, count)
      BY <2>3 DEF Validated
    <3>3. Led(seed, offer) \ todo' = (Led(seed, offer) \ todo) \cup {b} /\ b \notin Led(seed, offer) \ todo
      BY <1>7, <2>3
    <3>4. b \in Nat
      BY <1>2, <1>7
    <3>5. LogFits(Witnessed(evidence, b, singular, count), (Led(seed, offer) \ todo) \cup {b}, singular)
      BY <2>1, <3>1, <3>3, <3>4, LogMore
    <3> QED  BY <3>2, <3>3, <3>5, Zenon
  <2>6. deferred' \in BOOLEAN /\ (deferred' => system.domain = "rational")
    BY <1>1, <2>3 DEF UnderWay
  <2>7. UnderWay'
    BY <2>3, <2>4, <2>5, <2>6, Zenon DEF UnderWay
  <2>8. CacheFits(cached)'
    <3>1. CacheFits(cached \cup asked)
      BY <1>4, <2>3, CacheGrows DEF ColumnInv
    <3> QED  BY <2>3, <3>1, CacheIs
  <2>9. step' = "targets"
    BY <1>1, <2>3
  <2> QED  BY <2>7, <2>8, <2>9 DEF ColumnInv, RefusedOverForm
<1> QED  BY <1>5, <1>9, <1>10, <1>11

LEMMA ColumnFinishes ==
  ASSUME ColumnInv, ManifestInv', Finish
  PROVE  ColumnInv'
<1>1. step = "targets" /\ todo = {} /\ UnderWay
  BY DEF ColumnInv, Finish
<1>2. Coherent(offer)
  BY <1>1, AcceptedParts DEF ColumnInv
<1>3. deferred => UniquePath
  BY <1>1, <1>2, CompleteIsUnique DEF UnderWay
<1>4. CASE Fails({})
  BY <1>4, FailureFits DEF InForms
<1>5. CASE ~Fails({})
  <2>1. step' = "done" /\ todo' = {} /\ cached' = cached
    BY <1>1, <1>3, <1>5 DEF Finish
  <2>2. UnderWay'
    BY <1>1, <1>5 DEF Finish, UnderWay
  <2>3. CacheFits(cached)'
    BY <2>1, CacheIs DEF ColumnInv
  <2> QED  BY <2>1, <2>2, <2>3 DEF ColumnInv, RefusedOverForm
<1> QED  BY <1>4, <1>5

LEMMA ColumnInvBegins == ColumnInit => ColumnInv
BY ManifestBegins DEF ColumnInit, ColumnInv, CacheFits, InForms, Consistent, RefusedOverForm

LEMMA ColumnInvStays == ColumnInv /\ [ColumnNext]_columnVars => ColumnInv'
<1> SUFFICES ASSUME ColumnInv, [ColumnNext]_columnVars  PROVE ColumnInv'
  OBVIOUS
<1>1. ManifestInv'
  BY ManifestStays DEF ColumnInv
<1>2. ASSUME cached' = cached  PROVE CacheFits(cached)'
  BY <1>2, CacheIs DEF ColumnInv
<1>3. CASE Prepare
  <2>1. step' \in {"idle", "refused"} /\ cached' = cached
    BY <1>3 DEF Prepare
  <2> QED  BY <1>1, <1>2, <2>1 DEF ColumnInv, RefusedOverForm
<1>4. CASE \E b \in 1..system.dim, r \in system.roots, form \in Forms : SolveSeed(b, r, form)
  BY <1>1, <1>4, SeedStarts
<1>5. CASE \E form \in Forms : SolveTarget(form)
  BY <1>1, <1>5, TargetAdded
<1>6. CASE Finish
  BY <1>1, <1>6, ColumnFinishes
<1>7. CASE UNCHANGED columnVars
  <2>1. /\ step' = step /\ cached' = cached /\ refusal' = refusal /\ todo' = todo
        /\ UnderWay' = UnderWay
    BY <1>7 DEF columnVars, UnderWay
  <2> QED  BY <1>1, <1>2, <2>1 DEF ColumnInv, RefusedOverForm
<1> QED  BY <1>3, <1>4, <1>5, <1>6, <1>7 DEF ColumnNext

LEMMA ColumnIsWhole == ColumnInv => EveryChainOnce
<1> SUFFICES ASSUME ColumnInv  PROVE EveryChainOnce
  OBVIOUS
<1>1. ASSUME step = "done", NEW b \in Blocks  PROVE HoldsChains(b) /\ FedOnce(b)
  <2>1. UnderWay /\ todo = {}
    BY <1>1 DEF ColumnInv
  <2>2. Coherent(offer) /\ SystemFits(system)
    BY <1>1, AcceptedParts DEF ColumnInv
  <2> QED  BY <1>1, <2>1, <2>2, CompleteIsFed, CompleteHolds
<1> QED  BY <1>1 DEF EveryChainOnce, ColumnInv

LEMMA ColumnInvHolds == ColumnSpec => []ColumnInv
BY ColumnInvBegins, ColumnInvStays, PTL DEF ColumnSpec

(* A column that is published holds every chain of couplings from its seed *)
(* once and was fed by every neighbour once; the certificate never rejects *)
(* it; and the cache of homogeneous solutions refuses a request only while *)
(* it holds one of that block that was asked for in another form.          *)
THEOREM EveryChainHeldOnce == ColumnSpec => []EveryChainOnce
BY ColumnInvHolds, ColumnIsWhole, PTL

(* The contract of a cached homogeneous solution does not depend on which  *)
(* column met it, nor on whether a seed or a target did: where all clients *)
(* write their runs and metadata in one form, no request is refused.       *)
THEOREM OneFormNeverRefused ==
  ASSUME \A f, g \in Forms : f = g
  PROVE  ColumnSpec => [](step # "contract-changed")
<1>1. ColumnInv => step # "contract-changed"
  <2> SUFFICES ASSUME ColumnInv, step = "contract-changed"  PROVE FALSE
    OBVIOUS
  <2>1. PICK x \in cached : x[3].form # refusal[2]
    BY DEF ColumnInv, RefusedOverForm
  <2>2. PICK f \in Forms : x[3] = Mine(f)
    BY DEF ColumnInv, CacheFits, InForms
  <2>3. x[3].form = f
    BY <2>2 DEF Mine
  <2> QED  BY <2>1, <2>2, <2>3 DEF ColumnInv
<1> QED  BY <1>1, ColumnInvHolds, PTL
===============================================================================

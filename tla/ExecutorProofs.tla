---------------------------- MODULE ExecutorProofs ----------------------------
(***************************************************************************)
(* Theorems about Executor, for any graph of nodes, any demands and any   *)
(* builders: what may be reused, what is returned, what is not built twice, *)
(* and which floors never fall.                                             *)
(***************************************************************************)
EXTENDS Executor, StackLemmas

(* Of the artifacts of a node one has guarantee g, which meets the floor.  *)
Kept(artifacts, floor, g) ==
  /\ \E k \in 1..Len(artifacts) : artifacts[k].guarantee = g
  /\ floor # None => Dominates(g, floor)

(* No artifact of a node would do for d, which meets the floor.            *)
Wanting(artifacts, floor, d) ==
  /\ \A k \in 1..Len(artifacts) : ~Dominates(artifacts[k].guarantee, d)
  /\ floor # None => Dominates(d, floor)

(* m is obtained for n, directly or not.                                   *)
Below(n, m) == \E p \in ParentsOf(n) : m \in Closure[p]

(* The calls of obtain: all but the innermost wait for their next parent.  *)
Calls ==
  \A i \in 1..Len(stack) :
    LET f == stack[i]
    IN  /\ f.node \in Closure[goal.node]
        /\ Len(f.parents) <= Len(Parents[f.node])
        /\ \A j \in 1..Len(f.parents) :
             Kept(cache[Parents[f.node][j]], floors[Parents[f.node][j]], f.parents[j])
        /\ i > 1 => /\ f.at = "asking" /\ Len(f.parents) < Len(Parents[f.node])
                    /\ Parents[f.node][Len(f.parents) + 1] = stack[i - 1].node
        /\ f.at = "called" => f.parents = <<>>
        /\ f.at = "asking" => Wanting(cache[f.node], floors[f.node], f.demand)
        /\ \A j \in 1..Len(stack) : j > i => Below(stack[j].node, f.node)

(* The outermost call is that of the goal.                                 *)
Outermost ==
  Running =>
    /\ goal # None /\ Valid(goal.node) /\ result = None
    /\ LET f == stack[Len(stack)]
       IN  /\ f.node = goal.node
           /\ f.demand = IF f.at = "called" THEN goal.demand
                         ELSE Raised(goal.node, goal.demand)

(* What is cached was built in a valid graph.                              *)
CachedValid == \A n \in Node : cache[n] # <<>> => Valid(n)

HasGoal == result # None => goal # None

IndInv ==
  /\ TypeOK /\ NothingStale /\ NoWastedBuild /\ ReturnMeets
  /\ Calls /\ Outermost /\ CachedValid /\ HasGoal

------------------------------------------------------------------------------
(* Demands.                                                                *)
LEMMA DemandFacts ==
  ASSUME NEW a \in Demand, NEW b \in Demand
  PROVE  /\ Joined(a, b) \in Demand /\ Dominates(Joined(a, b), a) /\ Dominates(Joined(a, b), b)
         /\ Dominates(a, a)
         /\ \A c \in Demand : Dominates(a, b) /\ Dominates(b, c) => Dominates(a, c)
BY BoundsAssumption DEF Demand, Joined, Dominates

LEMMA RaisedFacts ==
  ASSUME TypeOK, NEW n \in Node, NEW d \in Demand
  PROVE  /\ Raised(n, d) \in Demand /\ Dominates(Raised(n, d), d)
         /\ floors[n] # None => Dominates(Raised(n, d), floors[n])
<1>1. floors[n] # None => floors[n] \in Demand
  BY DEF TypeOK
<1> QED  BY <1>1, DemandFacts DEF Raised

------------------------------------------------------------------------------
(* The graph.                                                              *)
LEMMA ParentNodes ==
  ASSUME NEW n \in Node
  PROVE  /\ ParentsOf(n) \subseteq Node /\ Len(Parents[n]) \in Nat
         /\ \A j \in 1..Len(Parents[n]) : Parents[n][j] \in ParentsOf(n)
<1>1. Parents[n] \in Seq(Node)
  BY ParentsAssumption
<1> QED  BY <1>1, ElementOfSeq, LenProperties DEF ParentsOf

LEMMA ClosureFacts ==
  ASSUME NEW n \in Node
  PROVE  /\ n \in Closure[n] /\ Closure[n] \subseteq Node
         /\ \A m \in Closure[n] : ParentsOf(m) \subseteq Closure[n]
         /\ \A m \in Closure[n] : Closure[m] \subseteq Closure[n]
<1>1. n \in Closure[n] /\ Closure[n] \subseteq Node
  BY DEF Closure
<1>2. ASSUME NEW m \in Closure[n], NEW p \in ParentsOf(m)  PROVE p \in Closure[n]
  <2>1. m \in Node /\ p \in Node
    BY <1>1, ParentNodes
  <2>2. ASSUME NEW S \in SUBSET Node, n \in S, \A k \in S : ParentsOf(k) \subseteq S
        PROVE  p \in S
    <3>1. m \in S
      BY <2>2 DEF Closure
    <3> QED  BY <2>2, <3>1
  <2> QED  BY <2>1, <2>2 DEF Closure
<1>3. ASSUME NEW m \in Closure[n], NEW k \in Closure[m]  PROVE k \in Closure[n]
  <2>1. m \in Node
    BY <1>1
  <2> DEFINE S == Closure[n]
  <2>2. S \in SUBSET Node /\ m \in S /\ \A j \in S : ParentsOf(j) \subseteq S
    BY <1>1, <1>2
  <2> HIDE DEF S
  <2>3. k \in S
    BY <2>1, <2>2 DEF Closure
  <2> QED  BY <2>3 DEF S
<1> QED  BY <1>1, <1>2, <1>3

(* A refined node is among what its descendants are built from, and what   *)
(* is built from a descendant is a descendant.                             *)
LEMMA DescendantFacts ==
  ASSUME TypeOK, NEW m \in Node
  PROVE  /\ \A n \in Descendants(m) : m \in Closure[n]
         /\ \A n \in nodes \ {m} :
              ParentsOf(n) \cap (Descendants(m) \cup {m}) # {} => n \in Descendants(m)
<1>1. nodes \subseteq Node
  BY DEF TypeOK
<1>2. ASSUME NEW n \in Descendants(m)  PROVE m \in Closure[n]
  <2> DEFINE S == {k \in Node : m \in Closure[k]}
  <2>1. S \in SUBSET Node /\ m \in S
    BY ClosureFacts
  <2>2. ASSUME NEW k \in nodes, NEW q \in ParentsOf(k) \cap S  PROVE k \in S
    <3>1. k \in Node /\ q \in Closure[k] /\ m \in Closure[q]
      BY <1>1, ClosureFacts
    <3> QED  BY <3>1, ClosureFacts
  <2>3. \A k \in nodes : ParentsOf(k) \cap S # {} => k \in S
    BY <2>2
  <2> HIDE DEF S
  <2>4. n \in S
    BY <2>1, <2>3 DEF Descendants
  <2> QED  BY <2>4 DEF S
<1>3. ASSUME NEW n \in nodes \ {m}, NEW q \in ParentsOf(n) \cap (Descendants(m) \cup {m})
      PROVE  n \in Descendants(m)
  <2>1. ASSUME NEW S \in SUBSET Node, m \in S,
               \A k \in nodes : ParentsOf(k) \cap S # {} => k \in S
        PROVE  n \in S
    <3>1. q \in S
      BY <2>1 DEF Descendants
    <3> QED  BY <2>1, <3>1
  <2> QED  BY <2>1 DEF Descendants
<1> QED  BY <1>2, <1>3

(* A valid graph has no node below itself, and its parts are valid.        *)
LEMMA ValidFacts ==
  ASSUME NEW t \in Node, Valid(t)
  PROVE  /\ \A n \in Closure[t] : ~Below(n, n) /\ Valid(n)
         /\ t \in nodes
<1>1. \A n \in Closure[t] : ~Below(n, n)
  BY DEF Valid, Below
<1>2. \A n \in Closure[t] : Closure[n] \subseteq Closure[t]
  BY ClosureFacts
<1>3. t \in Closure[t]
  BY ClosureFacts
<1> QED  BY <1>1, <1>2, <1>3 DEF Valid

LEMMA JoinedLeast ==
  ASSUME NEW a \in Demand, NEW b \in Demand, NEW g \in Demand,
         Dominates(g, a), Dominates(g, b)
  PROVE  Dominates(g, Joined(a, b))
BY DEF Joined, Dominates

------------------------------------------------------------------------------
(* What is known of the calls.                                             *)
LEMMA CallFacts ==
  ASSUME IndInv, Running
  PROVE  /\ stack \in Seq(FrameRecord) /\ Len(stack) \in Nat /\ Len(stack) > 0
         /\ 1 \in 1..Len(stack) /\ Len(stack) \in 1..Len(stack)
         /\ Top = stack[1]
         /\ goal \in [node : Node, demand : Demand] /\ Valid(goal.node) /\ result = None
         /\ \A i \in 1..Len(stack) :
              /\ stack[i] \in FrameRecord /\ stack[i].node \in Node
              /\ stack[i].demand \in Demand /\ stack[i].parents \in Seq(Demand)
              /\ Len(stack[i].parents) \in Nat
              /\ Valid(stack[i].node) /\ ~Below(stack[i].node, stack[i].node)
<1> USE DEF IndInv
<1>1. stack \in Seq(FrameRecord) /\ stack # <<>>
  BY DEF TypeOK, Running
<1>2. Len(stack) \in Nat /\ Len(stack) > 0
  BY <1>1, LenProperties, EmptySeq
<1>3. 1 \in 1..Len(stack) /\ Len(stack) \in 1..Len(stack)
  BY <1>2
<1>4. Top = stack[1]
  BY <1>1 DEF Top
<1>5. goal \in [node : Node, demand : Demand] /\ Valid(goal.node) /\ result = None
  BY DEF Outermost, TypeOK
<1>6. ASSUME NEW i \in 1..Len(stack)
      PROVE  /\ stack[i] \in FrameRecord /\ stack[i].node \in Node
             /\ stack[i].demand \in Demand /\ stack[i].parents \in Seq(Demand)
             /\ Len(stack[i].parents) \in Nat
             /\ Valid(stack[i].node) /\ ~Below(stack[i].node, stack[i].node)
  <2>1. stack[i] \in FrameRecord
    BY <1>1, ElementOfSeq
  <2>2. /\ stack[i].node \in Node /\ stack[i].demand \in Demand
        /\ stack[i].parents \in Seq(Demand)
    BY <2>1 DEF FrameRecord
  <2>3. Len(stack[i].parents) \in Nat
    BY <2>2, LenProperties
  <2>4. stack[i].node \in Closure[goal.node] /\ goal.node \in Node
    BY <1>5 DEF Calls
  <2>5. Valid(stack[i].node) /\ ~Below(stack[i].node, stack[i].node)
    BY <2>4, <1>5, ValidFacts
  <2> QED  BY <2>1, <2>2, <2>3, <2>5
<1> QED  BY <1>1, <1>2, <1>3, <1>4, <1>5, <1>6

(* obtain hands an artifact to its caller, or run returns it.              *)
LEMMA ReturnStep ==
  ASSUME IndInv, Running, NEW a \in Artifact, Return(a), UNCHANGED <<nodes, floors, goal>>,
         \A m \in Node, g \in Demand :
           Kept(cache[m], floors[m], g) => Kept(cache'[m], floors'[m], g),
         Kept(cache'[Top.node], floors'[Top.node], a.guarantee),
         Dominates(a.guarantee, Raised(Top.node, Top.demand)),
         \A i \in 1..Len(stack) : i > 1 =>
           Wanting(cache'[stack[i].node], floors'[stack[i].node], stack[i].demand)
  PROVE  /\ stack' \in Seq(FrameRecord) /\ result' \in Demand \cup {None}
         /\ Calls' /\ Outermost' /\ ReturnMeets' /\ HasGoal'
<1> USE DEF IndInv
<1> DEFINE s == stack
           g == a.guarantee
<1>1. g \in Demand
  BY DEF Artifact
<1>2. CASE Len(s) = 1
  <2>1. stack' = <<>> /\ result' = g
    BY <1>2 DEF Return
  <2>2. stack' \in Seq(FrameRecord) /\ Len(stack') = 0 /\ ~Running'
    BY <2>1, EmptySeq DEF Running
  <2>3. Calls' /\ Outermost'
    BY <2>2 DEF Calls, Outermost
  <2>4. goal # None /\ Top.node = goal.node
        /\ Top.demand = IF Top.at = "called" THEN goal.demand ELSE Raised(goal.node, goal.demand)
    BY <1>2, CallFacts DEF Outermost
  <2>5. Dominates(g, Raised(goal.node, goal.demand))
    <3>1. CASE Top.at = "called"
      BY <2>4, <3>1
    <3>2. CASE Top.at # "called"
      <4> DEFINE d == Raised(goal.node, goal.demand)
      <4>1. d \in Demand /\ Raised(goal.node, d) \in Demand /\ Dominates(Raised(goal.node, d), d)
        BY CallFacts, RaisedFacts
      <4>2. Dominates(g, Raised(goal.node, d))
        BY <2>4, <3>2
      <4> HIDE DEF d
      <4>3. Dominates(g, d)
        BY <4>1, <4>2, <1>1, DemandFacts
      <4> QED  BY <4>3 DEF d
    <3> QED  BY <3>1, <3>2
  <2>6. ReturnMeets'
    BY <2>1, <2>5 DEF ReturnMeets, Raised
  <2> QED  BY <2>1, <2>2, <2>3, <2>4, <2>6, <1>1 DEF HasGoal
<1>3. CASE Len(s) # 1
  <2>1. 2 \in 1..Len(s) /\ Len(s) > 1 /\ Len(s) \in Nat
    BY <1>3, CallFacts, TwoOrMore
  <2> DEFINE c == s[2]
             r == [c EXCEPT !.parents = Append(c.parents, g)]
             m == <<r>> \o SubSeq(s, 3, Len(s))
  <2>2. stack' = m /\ result' = result
    BY <1>3 DEF Return
  <2>3. /\ c \in FrameRecord /\ c.parents \in Seq(Demand) /\ Len(c.parents) \in Nat
        /\ c.at = "asking" /\ c.node \in Node
        /\ Len(c.parents) < Len(Parents[c.node])
        /\ Parents[c.node][Len(c.parents) + 1] = Top.node
    <3>1. /\ c.at = "asking" /\ Len(c.parents) < Len(Parents[c.node])
          /\ Parents[c.node][Len(c.parents) + 1] = s[2 - 1].node
      BY <2>1 DEF Calls
    <3> QED  BY <3>1, <2>1, CallFacts
  <2> DEFINE q == Append(c.parents, g)
  <2>4. /\ q \in Seq(Demand) /\ Len(q) = Len(c.parents) + 1
        /\ q[Len(c.parents) + 1] = g
        /\ \A j \in 1..Len(c.parents) : q[j] = c.parents[j]
    BY <2>3, <1>1, AppendProperties
  <2> HIDE DEF q
  <2>5. /\ r \in FrameRecord /\ r.node = c.node /\ r.demand = c.demand /\ r.at = "asking"
        /\ r.parents = q
    BY <2>3, <2>4 DEF FrameRecord, q
  <2> HIDE DEF r
  <2>6. /\ m \in Seq(FrameRecord) /\ Len(m) = Len(s) - 1 /\ m[1] = r
        /\ \A i \in 2..(Len(s) - 1) : m[i] = s[i + 1]
    BY <2>1, <2>5, CallFacts, MergeFrames
  <2> HIDE DEF m
  <2>7. ASSUME NEW i \in 1..Len(m)
        PROVE  /\ i + 1 \in 1..Len(s) /\ i + 1 > 1
               /\ m[i].node = s[i + 1].node /\ m[i].at = "asking" /\ m[i].demand = s[i + 1].demand
               /\ i > 1 => m[i] = s[i + 1]
               /\ i > 1 => i - 1 \in 1..Len(m) /\ s[i].node = m[i - 1].node
    <3>1. i \in Nat /\ i + 1 \in 1..Len(s) /\ i + 1 > 1 /\ i >= 1
      BY <2>1, <2>6
    <3>2. s[i + 1].at = "asking"
      BY <3>1 DEF Calls
    <3>3. CASE i = 1
      BY <3>1, <3>2, <3>3, <2>5, <2>6
    <3>4. CASE i # 1
      <4>1. i \in 2..(Len(s) - 1) /\ i - 1 \in 1..Len(m) /\ i - 1 >= 1
        BY <3>1, <3>4, <2>1, <2>6
      <4>2. m[i] = s[i + 1]
        BY <4>1, <2>6
      <4>3. s[i].node = m[i - 1].node
        <5>1. CASE i = 2
          BY <5>1, <2>5, <2>6
        <5>2. CASE i # 2
          <6>1. i - 1 \in 2..(Len(s) - 1) /\ (i - 1) + 1 = i
            BY <4>1, <5>2
          <6>2. m[i - 1] = s[(i - 1) + 1]
            BY <6>1, <2>6
          <6> QED  BY <6>1, <6>2
        <5> QED  BY <5>1, <5>2
      <4> QED  BY <3>1, <3>2, <4>1, <4>2, <4>3
    <3> QED  BY <3>3, <3>4
  <2>8. ASSUME NEW i \in 1..Len(m)
        PROVE  /\ m[i].node \in Closure[goal.node]
               /\ Wanting(cache'[m[i].node], floors'[m[i].node], m[i].demand)
               /\ \A j \in 1..Len(m) : j > i => Below(m[j].node, m[i].node)
    <3>1. /\ i + 1 \in 1..Len(s) /\ i + 1 > 1
          /\ m[i].node = s[i + 1].node /\ m[i].demand = s[i + 1].demand
      BY <2>7
    <3>2. ASSUME NEW j \in 1..Len(m), j > i  PROVE Below(m[j].node, m[i].node)
      <4>1. j + 1 \in 1..Len(s) /\ m[j].node = s[j + 1].node
        BY <2>7
      <4>2. j + 1 > i + 1
        BY <3>2, <2>6, <2>1
      <4> QED  BY <3>1, <4>1, <4>2 DEF Calls
    <3>3. s[i + 1].node \in Closure[goal.node]
      BY <3>1 DEF Calls
    <3> QED  BY <3>1, <3>2, <3>3
  <2>9. ASSUME NEW i \in 1..Len(m)
        PROVE  /\ Len(m[i].parents) <= Len(Parents[m[i].node])
               /\ \A j \in 1..Len(m[i].parents) :
                    Kept(cache'[Parents[m[i].node][j]], floors'[Parents[m[i].node][j]], m[i].parents[j])
               /\ i > 1 => /\ Len(m[i].parents) < Len(Parents[m[i].node])
                           /\ Parents[m[i].node][Len(m[i].parents) + 1] = m[i - 1].node
    <3>1. CASE i = 1
      <4>1. Len(q) <= Len(Parents[c.node])
        <5>1. Len(Parents[c.node]) \in Nat
          BY <2>3, ParentNodes
        <5> QED  BY <5>1, <2>3, <2>4
      <4>2. ASSUME NEW j \in 1..Len(q)
            PROVE Kept(cache'[Parents[c.node][j]], floors'[Parents[c.node][j]], q[j])
        <5>1. CASE j = Len(c.parents) + 1
          BY <5>1, <2>3, <2>4
        <5>2. CASE j # Len(c.parents) + 1
          <6>1. j \in 1..Len(c.parents)
            BY <5>2, <2>3, <2>4
          <6>2. Kept(cache[Parents[c.node][j]], floors[Parents[c.node][j]], c.parents[j])
            BY <6>1, <2>1 DEF Calls
          <6>3. j \in 1..Len(Parents[c.node])
            BY <6>1, <2>3, ParentNodes
          <6>4. Parents[c.node][j] \in Node /\ c.parents[j] \in Demand
            BY <6>1, <6>3, <2>3, ParentNodes, ElementOfSeq
          <6>5. Kept(cache'[Parents[c.node][j]], floors'[Parents[c.node][j]], c.parents[j])
            BY <6>2, <6>4
          <6> QED  BY <6>1, <6>5, <2>4
        <5> QED  BY <5>1, <5>2
      <4>3. m[i].parents = q /\ m[i].node = c.node
        BY <3>1, <2>5, <2>6
      <4> QED  BY <3>1, <4>1, <4>2, <4>3
    <3>2. CASE i # 1
      <4>1. /\ i + 1 \in 1..Len(s) /\ i + 1 > 1 /\ m[i] = s[i + 1] /\ i > 1
            /\ s[i].node = m[i - 1].node
        BY <3>2, <2>1, <2>6, <2>7
      <4> DEFINE f == s[i + 1]
      <4>2. /\ Len(f.parents) <= Len(Parents[f.node])
            /\ \A j \in 1..Len(f.parents) :
                 Kept(cache[Parents[f.node][j]], floors[Parents[f.node][j]], f.parents[j])
            /\ Len(f.parents) < Len(Parents[f.node])
            /\ Parents[f.node][Len(f.parents) + 1] = s[(i + 1) - 1].node
        BY <4>1 DEF Calls
      <4>3. (i + 1) - 1 = i
        BY <4>1, <2>1
      <4>4. f.node \in Node /\ f.parents \in Seq(Demand) /\ Len(f.parents) \in Nat
        BY <4>1, CallFacts
      <4> HIDE DEF f
      <4>5. ASSUME NEW j \in 1..Len(f.parents)
            PROVE Kept(cache'[Parents[f.node][j]], floors'[Parents[f.node][j]], f.parents[j])
        <5>1. j \in 1..Len(Parents[f.node])
          BY <4>2, <4>4, ParentNodes
        <5>2. Parents[f.node][j] \in Node /\ f.parents[j] \in Demand
          BY <5>1, <4>4, ParentNodes, ElementOfSeq
        <5> QED  BY <5>2, <4>2
      <4>6. m[i] = f
        BY <4>1 DEF f
      <4> QED  BY <4>1, <4>2, <4>3, <4>5, <4>6
    <3> QED  BY <3>1, <3>2
  <2>10. Calls'
    BY <2>2, <2>7, <2>8, <2>9 DEF Calls
  <2>11. Outermost'
    <3>1. Len(m) \in 1..Len(m) /\ Len(m) + 1 = Len(s)
      BY <2>1, <2>6
    <3>2. /\ m[Len(m)].node = s[Len(s)].node /\ m[Len(m)].demand = s[Len(s)].demand
          /\ m[Len(m)].at = "asking" /\ s[Len(s)].at = "asking"
      <4>1. s[Len(m) + 1].at = "asking"
        BY <2>7, <3>1 DEF Calls
      <4> QED  BY <4>1, <2>7, <3>1
    <3>3. /\ goal # None /\ Valid(goal.node) /\ result = None
          /\ s[Len(s)].node = goal.node /\ s[Len(s)].demand = Raised(goal.node, goal.demand)
      BY <3>2 DEF Outermost
    <3>4. Valid(goal.node)' /\ Raised(goal.node, goal.demand)' = Raised(goal.node, goal.demand)
      BY <3>3 DEF Valid, Raised
    <3> QED  BY <2>2, <3>2, <3>3, <3>4 DEF Outermost
  <2>12. result' = None
    BY <2>2, CallFacts
  <2> QED  BY <2>2, <2>6, <2>10, <2>11, <2>12 DEF ReturnMeets, HasGoal
<1> QED  BY <1>2, <1>3

LEMMA Caching ==
  ASSUME IndInv, NEW n \in Node
  PROVE  /\ cache[n] \in Seq(Artifact) /\ Len(cache[n]) \in Nat
         /\ \A k \in 1..Len(cache[n]) : cache[n][k] \in Artifact /\ cache[n][k].guarantee \in Demand
         /\ floors[n] \in Demand \cup {None}
<1>1. cache[n] \in Seq(Artifact) /\ floors[n] \in Demand \cup {None}
  BY DEF IndInv, TypeOK
<1>2. Len(cache[n]) \in Nat /\ \A k \in 1..Len(cache[n]) : cache[n][k] \in Artifact
  BY <1>1, LenProperties, ElementOfSeq
<1> QED  BY <1>1, <1>2 DEF Artifact

(* obtain reuses an artifact, or begins to obtain the parents.             *)
LEMMA EnterStep ==
  ASSUME IndInv, Enter
  PROVE  IndInv'
<1> USE DEF IndInv
<1> DEFINE n == Top.node
           d == Raised(n, Top.demand)
<1>1. /\ Running /\ Top.at = "called" /\ UNCHANGED <<nodes, cache, floors, goal, attempt, runs>>
      /\ last' = [last EXCEPT ![n] = d]
      /\ \/ \E i \in Eligible(n, d) : Return(cache[n][i])
         \/ /\ Eligible(n, d) = {} /\ UNCHANGED result
            /\ stack' = <<[Top EXCEPT !.at = "asking", !.demand = d]>> \o Tail(stack)
  BY DEF Enter
<1>2. /\ Top = stack[1] /\ 1 \in 1..Len(stack) /\ Len(stack) \in Nat
      /\ Top \in FrameRecord /\ n \in Node /\ Top.demand \in Demand /\ Top.parents \in Seq(Demand)
  BY <1>1, CallFacts
<1>3. /\ d \in Demand /\ Dominates(d, Top.demand)
      /\ floors[n] # None => Dominates(d, floors[n])
  BY <1>2, RaisedFacts
<1>4. last' \in [Node -> Demand \cup {None}]
  BY <1>1, <1>2, <1>3 DEF TypeOK
<1>5. NothingStale' /\ NoWastedBuild' /\ CachedValid'
  BY <1>1 DEF NothingStale, NoWastedBuild, CachedValid, Valid
<1>6. ASSUME stack' \in Seq(FrameRecord), result' \in Demand \cup {None}
      PROVE  TypeOK'
  BY <1>1, <1>4, <1>6 DEF TypeOK
<1>7. CASE \E i \in Eligible(n, d) : Return(cache[n][i])
  <2>1. PICK i \in Eligible(n, d) : Return(cache[n][i])
    BY <1>7
  <2> DEFINE a == cache[n][i]
  <2>2. i \in 1..Len(cache[n]) /\ a \in Artifact /\ a.guarantee \in Demand
        /\ Dominates(a.guarantee, d)
    BY <1>2, Caching DEF Eligible
  <2>3. floors[n] # None => Dominates(a.guarantee, floors[n])
    BY <2>2, <1>2, <1>3, Caching, DemandFacts
  <2>4. Kept(cache'[n], floors'[n], a.guarantee)
    BY <2>2, <2>3, <1>1 DEF Kept
  <2>5. \A k \in 1..Len(stack) :
          k > 1 => Wanting(cache'[stack[k].node], floors'[stack[k].node], stack[k].demand)
    BY <1>1 DEF Calls
  <2> HIDE DEF a
  <2>6. \A m \in Node, g \in Demand :
          Kept(cache[m], floors[m], g) => Kept(cache'[m], floors'[m], g)
    BY <1>1
  <2>7. Return(a)
    BY <2>1 DEF a
  <2>8. /\ stack' \in Seq(FrameRecord) /\ result' \in Demand \cup {None}
        /\ Calls' /\ Outermost' /\ ReturnMeets' /\ HasGoal'
    BY <2>2, <2>4, <2>5, <2>6, <2>7, <1>1, ReturnStep
  <2> QED  BY <2>8, <1>5, <1>6
<1>8. CASE /\ Eligible(n, d) = {} /\ UNCHANGED result
           /\ stack' = <<[Top EXCEPT !.at = "asking", !.demand = d]>> \o Tail(stack)
  <2> DEFINE r == [Top EXCEPT !.at = "asking", !.demand = d]
             s == stack
             m == <<r>> \o Tail(s)
  <2>1. /\ r \in FrameRecord /\ r.node = n /\ r.demand = d /\ r.at = "asking"
        /\ r.parents = Top.parents
    BY <1>2, <1>3 DEF FrameRecord
  <2>2. Top.parents = <<>> /\ Len(Top.parents) = 0
    <3>1. Top.parents = <<>>
      BY <1>1, <1>2 DEF Calls
    <3> QED  BY <3>1, EmptySeq
  <2>3. Wanting(cache[n], floors[n], d)
    BY <1>3, <1>8 DEF Wanting, Eligible
  <2>4. stack' = m
    BY <1>8
  <2> HIDE DEF r
  <2>5. /\ m \in Seq(FrameRecord) /\ Len(m) = Len(s) /\ m[1] = r
        /\ \A i \in 2..Len(s) : m[i] = s[i]
    BY <2>1, <1>1, CallFacts, ReplaceFrame DEF Running
  <2> HIDE DEF m
  <2>6. ASSUME NEW i \in 1..Len(s)
        PROVE  /\ m[i].node = s[i].node /\ m[i].parents = s[i].parents
               /\ m[i] = s[i] \/ i = 1
    <3>1. CASE i = 1
      BY <3>1, <2>1, <2>5, <1>2
    <3>2. CASE i # 1
      <4>1. i \in 2..Len(s)
        BY <3>2, <1>2
      <4> QED  BY <4>1, <2>5
    <3> QED  BY <3>1, <3>2
  <2>7. ASSUME NEW i \in 1..Len(m)
        PROVE  LET f == m[i]
               IN  /\ f.node \in Closure[goal.node]
                   /\ Len(f.parents) <= Len(Parents[f.node])
                   /\ \A j \in 1..Len(f.parents) :
                        Kept(cache[Parents[f.node][j]], floors[Parents[f.node][j]], f.parents[j])
                   /\ i > 1 => /\ f.at = "asking" /\ Len(f.parents) < Len(Parents[f.node])
                               /\ Parents[f.node][Len(f.parents) + 1] = m[i - 1].node
                   /\ f.at = "called" => f.parents = <<>>
                   /\ f.at = "asking" => Wanting(cache[f.node], floors[f.node], f.demand)
                   /\ \A j \in 1..Len(m) : j > i => Below(m[j].node, f.node)
    <3>1. i \in 1..Len(s) /\ m[i].node = s[i].node /\ m[i].parents = s[i].parents
      BY <2>5, <2>6
    <3>2. \A j \in 1..Len(m) : j > i => Below(m[j].node, m[i].node)
      BY <2>5, <2>6, <3>1 DEF Calls
    <3>3. i > 1 => /\ m[i] = s[i] /\ i - 1 \in 1..Len(s) /\ m[i - 1].node = s[i - 1].node
      BY <2>6, <3>1, <1>2
    <3>4. /\ m[i].at = "called" => m[i].parents = <<>>
          /\ m[i].at = "asking" => Wanting(cache[m[i].node], floors[m[i].node], m[i].demand)
      <4>1. CASE i = 1
        BY <4>1, <2>1, <2>2, <2>3, <2>5
      <4>2. CASE i # 1
        BY <4>2, <3>1, <2>6 DEF Calls
      <4> QED  BY <4>1, <4>2
    <3>5. /\ s[i].node \in Closure[goal.node]
          /\ Len(s[i].parents) <= Len(Parents[s[i].node])
          /\ \A j \in 1..Len(s[i].parents) :
               Kept(cache[Parents[s[i].node][j]], floors[Parents[s[i].node][j]], s[i].parents[j])
          /\ i > 1 => /\ s[i].at = "asking" /\ Len(s[i].parents) < Len(Parents[s[i].node])
                      /\ Parents[s[i].node][Len(s[i].parents) + 1] = s[i - 1].node
      BY <3>1 DEF Calls
    <3> QED  BY <3>1, <3>2, <3>3, <3>4, <3>5
  <2>8. Calls'
    BY <2>4, <2>7, <1>1 DEF Calls
  <2>9. Outermost'
    <3>1. Len(m) \in 1..Len(s) /\ Len(m) = Len(s)
      BY <2>5, <1>2
    <3>2. /\ goal # None /\ Valid(goal.node) /\ result = None
          /\ s[Len(s)].node = goal.node
          /\ s[Len(s)].demand = IF s[Len(s)].at = "called" THEN goal.demand
                                ELSE Raised(goal.node, goal.demand)
      BY <1>1 DEF Outermost
    <3>3. m[Len(m)].node = goal.node /\ m[Len(m)].at = "asking"
          /\ m[Len(m)].demand = Raised(goal.node, goal.demand)
      <4>1. CASE Len(s) = 1
        BY <4>1, <3>1, <3>2, <2>1, <2>5, <1>1, <1>2
      <4>2. CASE Len(s) # 1
        <5>1. m[Len(m)] = s[Len(s)] /\ Len(s) > 1
          BY <4>2, <3>1, <2>6, <1>2
        <5>2. s[Len(s)].at = "asking"
          BY <5>1, <3>1 DEF Calls
        <5> QED  BY <5>1, <5>2, <3>2
      <4> QED  BY <4>1, <4>2
    <3>4. Valid(goal.node)' /\ Raised(goal.node, goal.demand)' = Raised(goal.node, goal.demand)
      BY <3>2, <1>1 DEF Valid, Raised
    <3> QED  BY <3>2, <3>3, <3>4, <2>4, <1>1, <1>8 DEF Outermost
  <2>10. result' = None /\ result' = result
    BY <1>1, <1>8, CallFacts
  <2>11. ReturnMeets' /\ HasGoal' /\ TypeOK'
    BY <2>4, <2>5, <2>10, <1>6 DEF ReturnMeets, HasGoal
  <2> QED  BY <2>8, <2>9, <2>11, <1>5
<1> QED  BY <1>1, <1>7, <1>8

LEMMA AskFacts ==
  ASSUME NEW n \in Node, NEW m \in Node, NEW d \in Demand
  PROVE  Ask[n, m][d] \in Demand
<1>1. <<n, m>> \in Node \X Node
  OBVIOUS
<1>2. Ask[<<n, m>>] \in [Demand -> Demand]
  BY <1>1, AskAssumption, Zenon
<1>3. Ask[n, m] \in [Demand -> Demand]
  BY <1>2, Zenon
<1> QED  BY <1>3, Zenon

(* obtain of the next parent is called.                                    *)
LEMMA ObtainParentStep ==
  ASSUME IndInv, ObtainParent
  PROVE  IndInv'
<1> USE DEF IndInv
<1> DEFINE s == stack
           t == Top.node
           p == Parents[t][Len(Top.parents) + 1]
           r == Frame(p, Ask[t, p][Top.demand])
           m == <<r>> \o s
<1>1. /\ Running /\ Top.at = "asking" /\ Len(Top.parents) < Len(Parents[t])
      /\ stack' = m /\ UNCHANGED <<nodes, cache, floors, last, goal, attempt, result, runs>>
  BY DEF ObtainParent
<1>2. /\ Top = s[1] /\ 1 \in 1..Len(s) /\ Len(s) \in Nat /\ s \in Seq(FrameRecord)
      /\ Len(s) \in 1..Len(s)
      /\ t \in Node /\ Top.demand \in Demand /\ Len(Top.parents) \in Nat
      /\ goal.node \in Node
  BY <1>1, CallFacts
<1>3. p \in ParentsOf(t) /\ p \in Node
  <2>1. Len(Top.parents) + 1 \in 1..Len(Parents[t])
    <3>1. Len(Parents[t]) \in Nat
      BY <1>2, ParentNodes
    <3>2. Len(Top.parents) \in Nat /\ Len(Top.parents) < Len(Parents[t])
      BY <1>1, <1>2
    <3> QED  BY <3>1, <3>2
  <2> QED  BY <2>1, <1>2, ParentNodes
<1>4. /\ r \in FrameRecord /\ r.node = p /\ r.at = "called" /\ r.parents = <<>>
      /\ Len(r.parents) = 0
  <2>1. Ask[t, p][Top.demand] \in Demand
    BY <1>2, <1>3, AskFacts
  <2> QED  BY <2>1, <1>3, EmptySeq DEF Frame, FrameRecord
<1> HIDE DEF r
<1>5. /\ m \in Seq(FrameRecord) /\ Len(m) = Len(s) + 1 /\ m[1] = r
      /\ \A i \in 1..Len(s) : m[i + 1] = s[i]
  BY <1>2, <1>4, PushFrame
<1> HIDE DEF m
<1>6. p \in Closure[p] /\ p \in Closure[t] /\ t \in Closure[goal.node] /\ p \in Closure[goal.node]
  <2>1. t \in Closure[goal.node]
    BY <1>2 DEF Calls
  <2> QED  BY <2>1, <1>2, <1>3, ClosureFacts
<1>7. ASSUME NEW j \in 1..Len(s)  PROVE Below(s[j].node, p)
  <2>1. CASE j = 1
    BY <2>1, <1>2, <1>3, <1>6 DEF Below
  <2>2. CASE j # 1
    <3>1. j > 1 /\ s[j].node \in Node
      BY <2>2, <1>1, <1>2, CallFacts
    <3>2. Below(s[j].node, t)
      BY <3>1, <1>2 DEF Calls
    <3>3. PICK q \in ParentsOf(s[j].node) : t \in Closure[q]
      BY <3>2 DEF Below
    <3>4. q \in Node
      BY <3>1, <3>3, ParentNodes
    <3>5. p \in Closure[q]
      BY <1>6, <3>3, <3>4, ClosureFacts
    <3> QED  BY <3>3, <3>5 DEF Below
  <2> QED  BY <2>1, <2>2
<1>8. ASSUME NEW i \in 1..Len(m)
      PROVE  LET f == m[i]
             IN  /\ f.node \in Closure[goal.node]
                 /\ Len(f.parents) <= Len(Parents[f.node])
                 /\ \A j \in 1..Len(f.parents) :
                      Kept(cache[Parents[f.node][j]], floors[Parents[f.node][j]], f.parents[j])
                 /\ i > 1 => /\ f.at = "asking" /\ Len(f.parents) < Len(Parents[f.node])
                             /\ Parents[f.node][Len(f.parents) + 1] = m[i - 1].node
                 /\ f.at = "called" => f.parents = <<>>
                 /\ f.at = "asking" => Wanting(cache[f.node], floors[f.node], f.demand)
                 /\ \A j \in 1..Len(m) : j > i => Below(m[j].node, f.node)
  <2>1. CASE i = 1
    <3>1. m[i] = r /\ Len(Parents[p]) \in Nat
      BY <2>1, <1>3, <1>5, ParentNodes
    <3>2. ASSUME NEW j \in 1..Len(m), j > i  PROVE Below(m[j].node, p)
      <4>1. j - 1 \in 1..Len(s) /\ (j - 1) + 1 = j
        BY <3>2, <2>1, <1>2, <1>5
      <4>2. m[(j - 1) + 1] = s[j - 1]
        BY <4>1, <1>5
      <4>3. m[j] = s[j - 1]
        BY <4>1, <4>2
      <4> QED  BY <4>1, <4>3, <1>7
    <3>3. Len(r.parents) <= Len(Parents[p]) /\ 1..Len(r.parents) = {}
      BY <3>1, <1>4
    <3> QED  BY <2>1, <3>1, <3>2, <3>3, <1>4, <1>6
  <2>2. CASE i # 1
    <3> DEFINE k == i - 1
               f == s[k]
    <3>1. k \in 1..Len(s) /\ k + 1 = i /\ i > 1 /\ k \in Nat
      BY <2>2, <1>2, <1>5
    <3> HIDE DEF k
    <3>2. m[i] = f
      <4>1. m[k + 1] = f
        BY <3>1, <1>5
      <4> QED  BY <4>1, <3>1
    <3>3. ASSUME NEW j \in 1..Len(m), j > i  PROVE Below(m[j].node, f.node)
      <4>1. j - 1 \in 1..Len(s) /\ (j - 1) + 1 = j /\ j - 1 > k
        BY <3>1, <3>3, <1>2, <1>5
      <4>2. m[(j - 1) + 1] = s[j - 1]
        BY <4>1, <1>5
      <4>3. m[j] = s[j - 1]
        BY <4>1, <4>2
      <4> QED  BY <4>1, <4>3, <3>1 DEF Calls
    <3>4. f.at = "asking" /\ Len(f.parents) < Len(Parents[f.node])
          /\ Parents[f.node][Len(f.parents) + 1] = m[k].node
      <4>1. CASE k = 1
        BY <4>1, <1>1, <1>2, <1>4, <1>5
      <4>2. CASE k # 1
        <5>1. k > 1 /\ k - 1 \in 1..Len(s) /\ (k - 1) + 1 = k
          BY <4>2, <3>1, <1>2
        <5>2. m[(k - 1) + 1] = s[k - 1]
          BY <5>1, <1>5
        <5>3. m[k] = s[k - 1]
          BY <5>1, <5>2
        <5> QED  BY <5>1, <5>3, <3>1 DEF Calls
      <4> QED  BY <4>1, <4>2
    <3>5. /\ f.node \in Closure[goal.node]
          /\ Len(f.parents) <= Len(Parents[f.node])
          /\ \A j \in 1..Len(f.parents) :
               Kept(cache[Parents[f.node][j]], floors[Parents[f.node][j]], f.parents[j])
          /\ f.at = "called" => f.parents = <<>>
          /\ f.at = "asking" => Wanting(cache[f.node], floors[f.node], f.demand)
      BY <3>1 DEF Calls
    <3>6. i - 1 = k
      BY <3>1
    <3> HIDE DEF f
    <3> QED  BY <3>2, <3>3, <3>4, <3>5, <3>6
  <2> QED  BY <2>1, <2>2
<1>9. Calls'
  BY <1>1, <1>8 DEF Calls
<1>10. Outermost'
  <2>1. m[Len(m)] = s[Len(s)]
    <3>1. m[Len(s) + 1] = s[Len(s)]
      BY <1>2, <1>5
    <3> QED  BY <3>1, <1>5
  <2>2. /\ goal # None /\ Valid(goal.node) /\ result = None
        /\ s[Len(s)].node = goal.node
        /\ s[Len(s)].demand = IF s[Len(s)].at = "called" THEN goal.demand
                              ELSE Raised(goal.node, goal.demand)
    BY <1>1 DEF Outermost
  <2>3. Valid(goal.node)' /\ Raised(goal.node, goal.demand)' = Raised(goal.node, goal.demand)
    BY <2>2, <1>1 DEF Valid, Raised
  <2> QED  BY <2>1, <2>2, <2>3, <1>1 DEF Outermost
<1>11. /\ NothingStale' /\ NoWastedBuild' /\ CachedValid' /\ HasGoal' /\ ReturnMeets'
       /\ TypeOK'
  <2>1. NothingStale' /\ NoWastedBuild' /\ CachedValid' /\ HasGoal'
    BY <1>1 DEF NothingStale, NoWastedBuild, CachedValid, Valid, HasGoal
  <2>2. ReturnMeets'
    BY <1>1, CallFacts DEF ReturnMeets
  <2>3. TypeOK'
    BY <1>1, <1>5 DEF TypeOK
  <2> QED  BY <2>1, <2>2, <2>3
<1> QED  BY <1>9, <1>10, <1>11

(* The builder meets the demand: its artifact is cached and returned.      *)
LEMMA BuiltStep ==
  ASSUME IndInv, NEW g \in Demand, Built(g)
  PROVE  IndInv'
<1> USE DEF IndInv
<1> DEFINE s == stack
           t == Top.node
           a == [guarantee |-> g, parents |-> Top.parents]
<1>1. /\ Running /\ Top.at = "asking" /\ Len(Top.parents) = Len(Parents[t])
      /\ Dominates(g, Top.demand) /\ cache' = [cache EXCEPT ![t] = Append(@, a)]
      /\ Return(a) /\ UNCHANGED <<nodes, floors, last, goal, attempt, runs>>
  BY DEF Built, Building
<1>2. /\ Top = s[1] /\ 1 \in 1..Len(s) /\ Len(s) \in Nat
      /\ t \in Node /\ Top.demand \in Demand /\ Top.parents \in Seq(Demand)
      /\ Len(Top.parents) \in Nat /\ Valid(t)
  BY <1>1, CallFacts
<1>3. a \in Artifact /\ a.guarantee = g /\ a.parents = Top.parents
  BY <1>2 DEF Artifact
<1> HIDE DEF a
<1>4. /\ cache' \in [Node -> Seq(Artifact)]
      /\ \A n \in Node \ {t} : cache'[n] = cache[n]
      /\ cache'[t] = Append(cache[t], a)
  <2>1. cache \in [Node -> Seq(Artifact)]
    BY DEF TypeOK
  <2>2. Append(cache[t], a) \in Seq(Artifact)
    BY <2>1, <1>2, <1>3, AppendProperties
  <2>3. cache' = [cache EXCEPT ![t] = Append(cache[t], a)]
    BY <1>1
  <2> QED  BY <2>1, <2>2, <2>3, <1>2
<1>5. /\ Len(cache[t]) \in Nat /\ Len(cache'[t]) = Len(cache[t]) + 1
      /\ cache'[t][Len(cache[t]) + 1] = a
      /\ \A k \in 1..Len(cache[t]) : cache'[t][k] = cache[t][k]
  BY <1>2, <1>3, <1>4, Caching, AppendProperties
<1>6. ASSUME NEW m \in Node, NEW h \in Demand, Kept(cache[m], floors[m], h)
      PROVE  Kept(cache'[m], floors'[m], h)
  <2>1. CASE m # t
    BY <2>1, <1>1, <1>4, <1>6
  <2>2. CASE m = t
    <3>1. PICK k \in 1..Len(cache[t]) : cache[t][k].guarantee = h
      BY <2>2, <1>6 DEF Kept
    <3>2. k \in 1..Len(cache'[t])
      BY <3>1, <1>5
    <3> QED  BY <3>1, <3>2, <2>2, <1>1, <1>5, <1>6 DEF Kept
  <2> QED  BY <2>1, <2>2
<1>7. /\ Wanting(cache[t], floors[t], Top.demand)
      /\ \A j \in 1..Len(Parents[t]) :
           Kept(cache[Parents[t][j]], floors[Parents[t][j]], Top.parents[j])
  BY <1>1, <1>2 DEF Calls
<1>8. floors[t] # None => floors[t] \in Demand /\ Dominates(g, floors[t])
  <2>1. floors[t] # None => floors[t] \in Demand /\ Dominates(Top.demand, floors[t])
    BY <1>2, <1>7, Caching DEF Wanting
  <2> QED  BY <2>1, <1>1, <1>2, DemandFacts
<1>9. Kept(cache'[t], floors'[t], g)
  <2>1. Len(cache[t]) + 1 \in 1..Len(cache'[t])
    BY <1>5
  <2> QED  BY <2>1, <1>1, <1>3, <1>5, <1>8 DEF Kept
<1>10. Dominates(g, Raised(t, Top.demand))
  BY <1>1, <1>2, <1>8, JoinedLeast DEF Raised
<1>11. ASSUME NEW i \in 1..Len(s), i > 1
       PROVE  Wanting(cache'[s[i].node], floors'[s[i].node], s[i].demand)
  <2>1. Wanting(cache[s[i].node], floors[s[i].node], s[i].demand) /\ Below(s[i].node, t)
    BY <1>2, <1>11 DEF Calls
  <2>2. s[i].node # t /\ s[i].node \in Node
    BY <2>1, <1>1, CallFacts
  <2> QED  BY <2>1, <2>2, <1>1, <1>4
<1>12. /\ stack' \in Seq(FrameRecord) /\ result' \in Demand \cup {None}
       /\ Calls' /\ Outermost' /\ ReturnMeets' /\ HasGoal'
  BY <1>1, <1>3, <1>6, <1>9, <1>10, <1>11, ReturnStep
<1>13. ASSUME NEW n \in Node, NEW i \in 1..Len(cache'[n])
       PROVE  \/ i \in 1..Len(cache[n]) /\ cache'[n][i] = cache[n][i]
              \/ n = t /\ i = Len(cache[t]) + 1 /\ cache'[n][i] = a
  <2>1. CASE n # t
    BY <2>1, <1>4
  <2>2. CASE n = t
    <3>1. CASE i = Len(cache[t]) + 1
      BY <3>1, <2>2, <1>5
    <3>2. CASE i # Len(cache[t]) + 1
      <4>1. i \in 1..Len(cache[t])
        BY <3>2, <2>2, <1>5
      <4> QED  BY <4>1, <2>2, <1>5
    <3> QED  BY <3>1, <3>2
  <2> QED  BY <2>1, <2>2
<1>14. ASSUME NEW n \in Node, NEW i \in 1..Len(cache'[n])
       PROVE  Len(cache'[n][i].parents) = Len(Parents[n])
  <2>1. CASE i \in 1..Len(cache[n]) /\ cache'[n][i] = cache[n][i]
    BY <2>1 DEF TypeOK
  <2>2. CASE n = t /\ cache'[n][i] = a
    BY <2>2, <1>1, <1>3
  <2> QED  BY <2>1, <2>2, <1>13
<1>15. TypeOK'
  BY <1>1, <1>4, <1>12, <1>14 DEF TypeOK
<1>16. NothingStale'
  <2>1. ASSUME NEW n \in Node, NEW i \in 1..Len(cache'[n]), NEW j \in 1..Len(Parents[n])
        PROVE  Kept(cache'[Parents[n][j]], floors'[Parents[n][j]], cache'[n][i].parents[j])
    <3>1. Parents[n][j] \in Node /\ Len(Parents[n]) \in Nat
      BY ParentNodes
    <3>2. CASE i \in 1..Len(cache[n]) /\ cache'[n][i] = cache[n][i]
      <4> DEFINE b == cache[n][i]
      <4>1. b.parents \in Seq(Demand) /\ Len(b.parents) = Len(Parents[n])
        BY <3>2, Caching DEF Artifact, TypeOK
      <4>2. b.parents[j] \in Demand
        BY <4>1, ElementOfSeq
      <4>3. Kept(cache[Parents[n][j]], floors[Parents[n][j]], b.parents[j])
        BY <3>2 DEF NothingStale, Kept
      <4> HIDE DEF b
      <4>4. cache'[n][i] = b
        BY <3>2 DEF b
      <4> QED  BY <3>1, <4>2, <4>3, <4>4, <1>6
    <3>3. CASE n = t /\ cache'[n][i] = a
      <4>1. Top.parents[j] \in Demand
        BY <3>3, <1>1, <1>2, ElementOfSeq
      <4>2. Kept(cache[Parents[n][j]], floors[Parents[n][j]], Top.parents[j])
        BY <3>3, <1>7
      <4> QED  BY <3>1, <3>3, <4>1, <4>2, <1>3, <1>6
    <3> QED  BY <3>2, <3>3, <1>13
  <2> QED  BY <2>1 DEF NothingStale, Kept
<1>17. NoWastedBuild'
  <2>1. ASSUME NEW n \in Node, NEW i \in 1..Len(cache'[n]), NEW j \in 1..Len(cache'[n]), i < j
        PROVE  ~Dominates(cache'[n][i].guarantee, cache'[n][j].guarantee)
    <3>1. CASE j \in 1..Len(cache[n]) /\ cache'[n][j] = cache[n][j]
      <4>1. i \in 1..Len(cache[n]) /\ i # Len(cache[n]) + 1
        BY <3>1, <2>1, Caching
      <4>2. cache'[n][i] = cache[n][i]
        BY <4>1, <1>13
      <4> QED  BY <3>1, <4>1, <4>2, <2>1 DEF NoWastedBuild
    <3>2. CASE n = t /\ j = Len(cache[t]) + 1 /\ cache'[n][j] = a
      <4>1. i \in 1..Len(cache[t]) /\ cache'[n][i] = cache[t][i]
        BY <3>2, <2>1, <1>5
      <4>2. cache[t][i].guarantee \in Demand /\ ~Dominates(cache[t][i].guarantee, Top.demand)
        BY <4>1, <1>2, <1>7, Caching DEF Wanting
      <4>3. ~Dominates(cache[t][i].guarantee, g)
        BY <4>2, <1>1, <1>2, DemandFacts
      <4> QED  BY <3>2, <4>1, <4>3, <1>3
    <3> QED  BY <3>1, <3>2, <1>13
  <2> QED  BY <2>1 DEF NoWastedBuild
<1>18. CachedValid'
  <2>1. ASSUME NEW n \in Node, cache'[n] # <<>>  PROVE Valid(n)
    <3>1. CASE n = t
      BY <3>1, <1>2
    <3>2. CASE n # t
      BY <3>2, <2>1, <1>4 DEF CachedValid
    <3> QED  BY <3>1, <3>2
  <2>2. \A n \in Node : Valid(n) => Valid(n)'
    BY <1>1 DEF Valid
  <2> QED  BY <2>1, <2>2 DEF CachedValid
<1> QED  BY <1>12, <1>15, <1>16, <1>17, <1>18

(* A call with no caller.                                                  *)
LEMMA FirstCall ==
  ASSUME NEW n \in Node, NEW d \in Demand
  PROVE  LET s == <<Frame(n, d)>>
         IN  /\ s \in Seq(FrameRecord) /\ Len(s) = 1 /\ s[1] = Frame(n, d) /\ s # <<>>
             /\ s[1].node = n /\ s[1].demand = d /\ s[1].at = "called"
             /\ s[1].parents = <<>> /\ Len(s[1].parents) = 0
<1> DEFINE r == Frame(n, d)
<1>1. /\ r \in FrameRecord /\ r.node = n /\ r.demand = d /\ r.at = "called"
      /\ r.parents = <<>> /\ Len(r.parents) = 0
  BY EmptySeq DEF Frame, FrameRecord
<1> HIDE DEF r
<1>2. <<r>> \in Seq(FrameRecord) /\ Len(<<r>>) = 1 /\ <<r>>[1] = r
  BY <1>1
<1>3. <<r>> # <<>>
  BY <1>2, EmptySeq
<1> QED  BY <1>1, <1>2, <1>3 DEF r

(* What holds when the calls are those of a new attempt.                   *)
LEMMA FreshCalls ==
  ASSUME NEW d \in Demand, NEW n \in Node, goal' = [node |-> n, demand |-> d],
         stack' = <<Frame(n, d)>>, Valid(n)', result' = None
  PROVE  stack' \in Seq(FrameRecord) /\ Calls' /\ Outermost'
<1> DEFINE s == <<Frame(n, d)>>
<1>1. /\ s \in Seq(FrameRecord) /\ Len(s) = 1 /\ s # <<>>
      /\ s[1].node = n /\ s[1].demand = d /\ s[1].at = "called"
      /\ s[1].parents = <<>> /\ Len(s[1].parents) = 0
  BY FirstCall
<1>2. stack' = s /\ goal'.node = n /\ goal'.demand = d
  OBVIOUS
<1> HIDE DEF s
<1>3. n \in Closure[n] /\ Len(Parents[n]) \in Nat
  BY ClosureFacts, ParentNodes
<1>4. ASSUME NEW i \in 1..Len(s)  PROVE i = 1
  BY <1>1
<1>5. Len(s[1].parents) <= Len(Parents[n]) /\ 1..Len(s[1].parents) = {}
  BY <1>1, <1>3
<1>6. Calls'
  BY <1>1, <1>2, <1>3, <1>4, <1>5 DEF Calls
<1>7. goal' # None
  BY NoneAssumption
<1>8. Outermost'
  BY <1>1, <1>2, <1>7 DEF Outermost
<1> QED  BY <1>1, <1>2, <1>6, <1>8

(* An exception leaves run.                                                *)
LEMMA RaiseStep ==
  ASSUME IndInv, Running, Raise, UNCHANGED <<nodes, cache, floors, last, goal, attempt, runs>>
  PROVE  IndInv'
<1> USE DEF IndInv
<1>1. stack' = <<>> /\ result' = None
  BY CallFacts DEF Raise
<1>2. stack' \in Seq(FrameRecord) /\ Len(stack') = 0 /\ ~Running'
  BY <1>1, EmptySeq DEF Running
<1>3. Calls' /\ Outermost'
  BY <1>2 DEF Calls, Outermost
<1>4. /\ TypeOK' /\ NothingStale' /\ NoWastedBuild' /\ CachedValid' /\ HasGoal' /\ ReturnMeets'
  BY <1>1, <1>2 DEF TypeOK, NothingStale, NoWastedBuild, CachedValid, Valid, HasGoal, ReturnMeets
<1> QED  BY <1>3, <1>4

(* An operation is added.                                                  *)
LEMMA AddStep ==
  ASSUME IndInv, NEW n \in Node, Add(n)
  PROVE  IndInv'
<1> USE DEF IndInv
<1>1. /\ stack = <<>> /\ nodes' = nodes \cup {n}
      /\ UNCHANGED <<cache, floors, last, stack, goal, attempt, result, runs>>
  BY DEF Add, Running
<1>2. Len(stack') = 0 /\ ~Running'
  BY <1>1, EmptySeq DEF Running
<1>3. Calls' /\ Outermost'
  BY <1>2 DEF Calls, Outermost
<1>4. TypeOK' /\ NothingStale' /\ NoWastedBuild' /\ HasGoal' /\ ReturnMeets'
  <2>1. TypeOK'
    BY <1>1 DEF TypeOK
  <2>2. NothingStale'
    BY <1>1 DEF NothingStale
  <2>3. NoWastedBuild'
    BY <1>1 DEF NoWastedBuild
  <2>4. HasGoal'
    BY <1>1 DEF HasGoal
  <2>5. ReturnMeets'
    BY <1>1 DEF ReturnMeets, Raised
  <2> QED  BY <2>1, <2>2, <2>3, <2>4, <2>5
<1>5. \A m \in Node : Valid(m) => Valid(m)'
  BY <1>1 DEF Valid
<1>6. CachedValid'
  BY <1>1, <1>5 DEF CachedValid
<1> QED  BY <1>3, <1>4, <1>6

(* run is called.                                                          *)
LEMMA RunStep ==
  ASSUME IndInv, NEW w \in Wanted, Run(w[1], w[2])
  PROVE  IndInv'
<1> USE DEF IndInv
<1> DEFINE t == w[1]
           d == w[2]
<1>1. t \in Node /\ d \in Demand
  BY WantedAssumption
<1>2. /\ ~Running /\ runs < MaxRuns /\ runs' = runs + 1 /\ attempt' = 0 /\ result' = None
      /\ goal' = [node |-> t, demand |-> d]
      /\ IF Valid(t) THEN stack' = <<Frame(t, d)>> ELSE UNCHANGED stack
      /\ UNCHANGED <<nodes, cache, floors, last>>
  BY DEF Run
<1> HIDE DEF t, d
<1>3. goal' \in [node : Node, demand : Demand] /\ stack \in Seq(FrameRecord)
  BY <1>1, <1>2 DEF TypeOK
<1>4. stack' \in Seq(FrameRecord) /\ Calls' /\ Outermost'
  <2>1. CASE Valid(t)
    <3>1. Valid(t)'
      BY <2>1, <1>2 DEF Valid
    <3> QED  BY <2>1, <3>1, <1>1, <1>2, FreshCalls
  <2>2. CASE ~Valid(t)
    <3>1. stack' = <<>> /\ stack' = stack
      BY <2>2, <1>2 DEF Running
    <3>2. Len(stack') = 0 /\ ~Running'
      BY <3>1, EmptySeq DEF Running
    <3> QED  BY <3>1, <3>2, <1>3 DEF Calls, Outermost
  <2> QED  BY <2>1, <2>2
<1>5. runs' \in 0..MaxRuns /\ attempt' \in 0..MaxRefinements
  BY <1>2, BoundsAssumption DEF TypeOK
<1>6. TypeOK'
  BY <1>2, <1>3, <1>4, <1>5 DEF TypeOK
<1>7. NothingStale' /\ NoWastedBuild' /\ CachedValid' /\ HasGoal' /\ ReturnMeets'
  BY <1>2 DEF NothingStale, NoWastedBuild, CachedValid, Valid, HasGoal, ReturnMeets
<1> QED  BY <1>4, <1>6, <1>7

(* A refinement is granted: the run begins again.                          *)
LEMMA RefineStep ==
  ASSUME IndInv, NEW m \in Node, NEW needed \in Demand, Refine(m, needed)
  PROVE  IndInv'
<1> USE DEF IndInv
<1> DEFINE D == Descendants(m)
<1>1. /\ Running /\ attempt < MaxRefinements /\ last[m] # None
      /\ floors' = [floors EXCEPT ![m] = Joined(last[m], needed)]
      /\ cache' = [n \in Node |-> IF n \in D THEN <<>> ELSE cache[n]]
      /\ attempt' = attempt + 1 /\ stack' = <<Frame(goal.node, goal.demand)>>
      /\ UNCHANGED <<nodes, last, goal, result, runs>>
  <2>1. /\ Building /\ ~Refusable(m, needed)
        /\ floors' = [floors EXCEPT ![m] = Joined(last[m], needed)]
        /\ cache' = [n \in Node |-> IF n \in D THEN <<>> ELSE cache[n]]
        /\ attempt' = attempt + 1 /\ stack' = <<Frame(goal.node, goal.demand)>>
        /\ UNCHANGED <<nodes, last, goal, result, runs>>
    BY DEF Refine
  <2>2. Running
    BY <2>1 DEF Building
  <2>3. last[m] # None /\ ~(attempt >= MaxRefinements)
    BY <2>1 DEF Refusable
  <2>4. attempt < MaxRefinements
    BY <2>3, BoundsAssumption DEF TypeOK
  <2> QED  BY <2>1, <2>2, <2>3, <2>4
<1>2. /\ goal \in [node : Node, demand : Demand] /\ goal.node \in Node /\ goal.demand \in Demand
      /\ goal = [node |-> goal.node, demand |-> goal.demand]
      /\ Valid(goal.node) /\ result = None
  BY <1>1, CallFacts
<1>3. Valid(goal.node)'
  BY <1>1, <1>2 DEF Valid
<1>4. stack' \in Seq(FrameRecord) /\ Calls' /\ Outermost'
  BY <1>1, <1>2, <1>3, FreshCalls
<1>5. Joined(last[m], needed) \in Demand
  <2>1. last[m] \in Demand
    BY <1>1 DEF TypeOK
  <2> QED  BY <2>1, DemandFacts
<1>6. floors' \in [Node -> Demand \cup {None}]
  BY <1>1, <1>5 DEF TypeOK
<1>7. ASSUME NEW n \in Node, NEW i \in 1..Len(cache'[n])
      PROVE  /\ n \notin D /\ cache'[n] = cache[n] /\ i \in 1..Len(cache[n])
             /\ Valid(n)
  <2>1. n \notin D
    BY <1>1, EmptySeq
  <2>2. cache'[n] = cache[n]
    BY <2>1, <1>1
  <2>3. cache[n] # <<>>
    BY <2>2, EmptySeq
  <2> QED  BY <2>1, <2>2, <2>3 DEF CachedValid
<1>8. cache' \in [Node -> Seq(Artifact)]
  <2>1. \A n \in Node : cache'[n] \in Seq(Artifact)
    BY <1>1, EmptySeq DEF TypeOK
  <2> QED  BY <2>1, <1>1
<1>9. TypeOK'
  <2>1. \A n \in Node : \A i \in 1..Len(cache'[n]) :
          Len(cache'[n][i].parents) = Len(Parents[n])
    BY <1>7 DEF TypeOK
  <2>2. attempt' \in 0..MaxRefinements
    BY <1>1, BoundsAssumption DEF TypeOK
  <2> QED  BY <2>1, <2>2, <1>1, <1>4, <1>6, <1>8 DEF TypeOK
<1>10. NothingStale'
  <2>1. ASSUME NEW n \in Node, NEW i \in 1..Len(cache'[n]), NEW j \in 1..Len(Parents[n])
        PROVE  Kept(cache'[Parents[n][j]], floors'[Parents[n][j]], cache'[n][i].parents[j])
    <3> DEFINE p == Parents[n][j]
    <3>1. p \in ParentsOf(n) /\ p \in Node
      BY ParentNodes
    <3>2. p \in Closure[p]
      BY <3>1, ClosureFacts
    <3> HIDE DEF p
    <3>3. n \notin D /\ cache'[n] = cache[n] /\ i \in 1..Len(cache[n]) /\ Valid(n)
      BY <1>7
    <3>4. n \in nodes /\ ~Below(n, n)
      <4>1. n \in Closure[n]
        BY ClosureFacts
      <4> QED  BY <4>1, <3>3, ValidFacts
    <3>5. p \notin D /\ p # m
      <4>1. CASE n = m
        <5>1. p # m
          BY <4>1, <3>1, <3>2, <3>4 DEF Below
        <5>2. p \notin D
          BY <4>1, <3>1, <3>4, DescendantFacts DEF Below
        <5> QED  BY <5>1, <5>2
      <4>2. CASE n # m
        BY <4>2, <3>1, <3>3, <3>4, DescendantFacts
      <4> QED  BY <4>1, <4>2
    <3>6. cache'[p] = cache[p] /\ floors'[p] = floors[p]
      BY <3>1, <3>5, <1>1 DEF TypeOK
    <3>7. Kept(cache[p], floors[p], cache[n][i].parents[j])
      BY <3>3 DEF NothingStale, Kept, p
    <3> QED  BY <3>3, <3>6, <3>7 DEF p
  <2> QED  BY <2>1 DEF NothingStale, Kept
<1>11. NoWastedBuild'
  <2>1. ASSUME NEW n \in Node, NEW i \in 1..Len(cache'[n]), NEW j \in 1..Len(cache'[n]), i < j
        PROVE  ~Dominates(cache'[n][i].guarantee, cache'[n][j].guarantee)
    BY <1>7, <2>1 DEF NoWastedBuild
  <2> QED  BY <2>1 DEF NoWastedBuild
<1>12. CachedValid'
  <2>1. ASSUME NEW n \in Node, cache'[n] # <<>>  PROVE Valid(n)
    <3>1. cache'[n] = cache[n]
      BY <2>1, <1>1
    <3> QED  BY <3>1, <2>1 DEF CachedValid
  <2>2. \A n \in Node : Valid(n) => Valid(n)'
    BY <1>1 DEF Valid
  <2> QED  BY <2>1, <2>2 DEF CachedValid
<1>13. ReturnMeets' /\ HasGoal'
  BY <1>1, <1>2 DEF ReturnMeets, HasGoal
<1> QED  BY <1>4, <1>9, <1>10, <1>11, <1>12, <1>13

------------------------------------------------------------------------------
LEMMA InitIndInv == Init => IndInv
<1> SUFFICES ASSUME Init  PROVE IndInv
  OBVIOUS
<1>1. stack = <<>> /\ Len(stack) = 0 /\ result = None /\ ~Running
  BY EmptySeq DEF Init, Running
<1>2. \A n \in Node : cache[n] = <<>> /\ Len(cache[n]) = 0
  BY EmptySeq DEF Init
<1>3. TypeOK
  BY <1>1, <1>2, EmptySeq, BoundsAssumption DEF Init, TypeOK
<1>4. NothingStale /\ NoWastedBuild /\ CachedValid
  BY <1>2 DEF NothingStale, NoWastedBuild, CachedValid
<1> QED  BY <1>1, <1>3, <1>4 DEF IndInv, ReturnMeets, Calls, Outermost, HasGoal

LEMMA NextIndInv == IndInv /\ [Next]_vars => IndInv'
<1> SUFFICES ASSUME IndInv, [Next]_vars  PROVE IndInv'
  OBVIOUS
<1>1. CASE Enter
  BY <1>1, EnterStep
<1>2. CASE ObtainParent
  BY <1>2, ObtainParentStep
<1>3. CASE Throws
  BY <1>3, RaiseStep DEF Throws
<1>4. CASE \E g \in Demand : Built(g)
  BY <1>4, BuiltStep
<1>5. ASSUME NEW m \in Node, NEW needed \in Demand, RefineRefused(m, needed)
      PROVE  IndInv'
  BY <1>5, RaiseStep DEF RefineRefused, Building
<1>6. ASSUME NEW m \in Node, NEW needed \in Demand, Refine(m, needed)
      PROVE  IndInv'
  BY <1>6, RefineStep
<1>7. CASE \E n \in Node : Add(n)
  BY <1>7, AddStep
<1>8. CASE \E w \in Wanted : Run(w[1], w[2])
  BY <1>8, RunStep
<1>9. CASE UNCHANGED vars
  <2>1. UNCHANGED <<nodes, cache, floors, last, stack, goal, attempt, result, runs>>
    BY <1>9 DEF vars
  <2>2. TypeOK'
    BY <2>1 DEF IndInv, TypeOK
  <2>3. NothingStale' /\ NoWastedBuild' /\ CachedValid' /\ HasGoal'
    BY <2>1 DEF IndInv, NothingStale, NoWastedBuild, CachedValid, Valid, HasGoal
  <2>4. ReturnMeets'
    BY <2>1 DEF IndInv, ReturnMeets, Raised
  <2>5. Calls'
    BY <2>1 DEF IndInv, Calls
  <2>6. Outermost'
    BY <2>1 DEF IndInv, Outermost, Running, Valid, Raised
  <2> QED  BY <2>2, <2>3, <2>4, <2>5, <2>6 DEF IndInv
<1> QED  BY <1>1, <1>2, <1>3, <1>4, <1>5, <1>6, <1>7, <1>8, <1>9 DEF Next, Step

LEMMA SpecIndInv == Spec => []IndInv
BY InitIndInv, NextIndInv, PTL DEF Spec

(* Each variable of the executor has its type, and every cached artifact   *)
(* was built from as many parents as its node has.                         *)
THEOREM ExecutorTypes == Spec => []TypeOK
BY SpecIndInv, PTL DEF IndInv

(* Whatever obtain may reuse, in any run and after any refinement, was     *)
(* built over artifacts that may still be reused and that meet the floors  *)
(* refinements have set: descendants() reaches everything that was derived *)
(* from what was found too weak.                                           *)
THEOREM NothingStaleIsReused == Spec => []NothingStale
BY SpecIndInv, PTL DEF IndInv

(* run returns an artifact that meets the demand it was given and the floor *)
(* of its target.                                                          *)
THEOREM ReturnsMeetDemands == Spec => []ReturnMeets
BY SpecIndInv, PTL DEF IndInv

(* obtain never builds an artifact when one that would do is cached, though *)
(* it looks before it obtains the parents: no parent reaches the node that  *)
(* asks for it, since validate_graph refuses cycles.                       *)
THEOREM NothingBuiltTwice == Spec => []NoWastedBuild
BY SpecIndInv, PTL DEF IndInv
------------------------------------------------------------------------------
(* Floors do not fall.  last_demand_ of a node is as high as its floor once *)
(* obtain was called for it after the floor rose (MetNodes), and that is so *)
(* of all that an eligible artifact was built from, and of all that a call  *)
(* has obtained: a refinement forgets whatever was derived from its node.   *)
MetNodes ==
  {n \in Node : floors[n] # None => last[n] # None /\ Dominates(last[n], floors[n])}

Entered(f, met) ==
  f.at = "asking" => /\ f.node \in met
                     /\ \A j \in 1..Len(f.parents) : Closure[Parents[f.node][j]] \subseteq met

BelowMet(n, met) == \A m \in Node : Below(n, m) => m \in met

Recorded ==
  /\ \A n \in Node : cache[n] # <<>> => BelowMet(n, MetNodes)
  /\ \A i \in 1..Len(stack) : Entered(stack[i], MetNodes)

FloorInv == IndInv /\ Recorded

(* What a node is built from is itself and what is below it.               *)
LEMMA ClosureSplit ==
  ASSUME NEW n \in Node, NEW m \in Closure[n]
  PROVE  m \in Node /\ (m = n \/ Below(n, m))
<1> DEFINE S == {n} \cup {k \in Node : Below(n, k)}
<1>1. S \in SUBSET Node /\ n \in S
  OBVIOUS
<1>2. ASSUME NEW k \in S, NEW p \in ParentsOf(k)  PROVE p \in S
  <2>1. k \in Node /\ p \in Node
    BY <1>1, <1>2, ParentNodes
  <2>2. CASE k = n
    BY <2>1, <2>2, <1>2, ClosureFacts DEF Below
  <2>3. CASE Below(n, k)
    <3>1. PICK q \in ParentsOf(n) : k \in Closure[q]
      BY <2>3 DEF Below
    <3>2. q \in Node
      BY <3>1, ParentNodes
    <3>3. p \in Closure[q]
      BY <3>1, <3>2, <1>2, ClosureFacts
    <3> QED  BY <3>1, <3>3, <2>1 DEF Below
  <2> QED  BY <1>2, <2>2, <2>3
<1>3. \A k \in S : ParentsOf(k) \subseteq S
  BY <1>2
<1> HIDE DEF S
<1>4. m \in S /\ m \in Node
  BY <1>1, <1>3 DEF Closure
<1> QED  BY <1>4 DEF S

(* In a valid graph descendants() reaches all that is above a node.        *)
LEMMA AboveIsDescendant ==
  ASSUME TypeOK, NEW m \in Node, NEW n \in Node, Valid(n), Below(n, m)
  PROVE  n \in Descendants(m)
<1> DEFINE D == Descendants(m) \cup {m}
<1>1. PICK p \in ParentsOf(n) : m \in Closure[p]
  BY DEF Below
<1>2. n \in Closure[n] /\ p \in Node /\ p \in Closure[n] /\ Closure[p] \subseteq Closure[n]
      /\ Closure[n] \subseteq nodes
  BY <1>1, ClosureFacts, ParentNodes DEF Valid
<1>3. p \in D
  <2> SUFFICES ASSUME p \notin D  PROVE FALSE
    OBVIOUS
  <2> DEFINE S == Closure[p] \ D
  <2>1. S \in SUBSET Node /\ p \in S
    BY <1>2, ClosureFacts
  <2>2. ASSUME NEW k \in S, NEW q \in ParentsOf(k)  PROVE q \in S
    <3>1. q \in Closure[p]
      BY <2>2, <1>2, ClosureFacts
    <3>2. k \in nodes \ {m} /\ k \notin Descendants(m)
      BY <2>2, <1>2
    <3>3. q \notin D
      BY <3>2, <2>2, DescendantFacts
    <3> QED  BY <3>1, <3>3
  <2>3. \A k \in S : ParentsOf(k) \subseteq S
    BY <2>2
  <2>4. m \notin S
    OBVIOUS
  <2> HIDE DEF S
  <2>5. m \in S
    BY <1>1, <1>2, <2>1, <2>3 DEF Closure
  <2> QED  BY <2>4, <2>5
<1>4. n # m
  BY <1>2, ValidFacts
<1> QED  BY <1>1, <1>2, <1>3, <1>4, DescendantFacts

LEMMA MetIsMet ==
  ASSUME NEW f, NEW met, NEW more, met \subseteq more, Entered(f, met)
  PROVE  Entered(f, more)
BY DEF Entered

(* A call returns: its caller has obtained one more parent.                *)
LEMMA RecordedReturn ==
  ASSUME IndInv, Running, NEW a \in Artifact, Return(a), NEW met,
         \A i \in 1..Len(stack) : i > 1 => Entered(stack[i], met),
         Closure[Top.node] \subseteq met
  PROVE  \A i \in 1..Len(stack') : Entered(stack'[i], met)
<1> DEFINE s == stack
<1>1. CASE Len(s) = 1
  <2>1. stack' = <<>>
    BY <1>1 DEF Return
  <2>2. Len(stack') = 0
    BY <2>1, EmptySeq
  <2> QED  BY <2>2
<1>2. CASE Len(s) # 1
  <2>1. 2 \in 1..Len(s) /\ Len(s) > 1 /\ Len(s) \in Nat
    BY <1>2, CallFacts, TwoOrMore
  <2> DEFINE c == s[2]
             q == Append(c.parents, a.guarantee)
             r == [c EXCEPT !.parents = q]
             m == <<r>> \o SubSeq(s, 3, Len(s))
  <2>2. stack' = m
    BY <1>2 DEF Return
  <2>3. /\ c \in FrameRecord /\ Len(c.parents) \in Nat /\ c.at = "asking"
        /\ Parents[c.node][Len(c.parents) + 1] = Top.node
    <3>1. c.at = "asking" /\ Parents[c.node][Len(c.parents) + 1] = s[2 - 1].node
      BY <2>1 DEF IndInv, Calls
    <3> QED  BY <3>1, <2>1, CallFacts
  <2>4. c.parents \in Seq(Demand) /\ a.guarantee \in Demand
    BY <2>1, CallFacts DEF Artifact
  <2>5. q \in Seq(Demand) /\ Len(q) = Len(c.parents) + 1
    BY <2>4, AppendProperties
  <2> HIDE DEF q
  <2>6. r \in FrameRecord /\ r.node = c.node /\ r.at = "asking" /\ r.parents = q
    BY <2>3, <2>5 DEF FrameRecord
  <2> HIDE DEF r
  <2>7. /\ m \in Seq(FrameRecord) /\ Len(m) = Len(s) - 1 /\ m[1] = r
        /\ \A i \in 2..(Len(s) - 1) : m[i] = s[i + 1]
    BY <2>1, <2>6, CallFacts, MergeFrames
  <2>8. Entered(r, met)
    <3>1. c.node \in met /\ \A j \in 1..Len(c.parents) : Closure[Parents[c.node][j]] \subseteq met
      BY <2>1, <2>3 DEF Entered
    <3>2. ASSUME NEW j \in 1..Len(q)  PROVE Closure[Parents[c.node][j]] \subseteq met
      <4>1. CASE j = Len(c.parents) + 1
        BY <4>1, <2>3
      <4>2. CASE j # Len(c.parents) + 1
        BY <4>2, <3>1, <2>3, <2>5
      <4> QED  BY <4>1, <4>2
    <3> QED  BY <3>1, <3>2, <2>6 DEF Entered
  <2> HIDE DEF m
  <2>9. ASSUME NEW i \in 1..Len(m)  PROVE Entered(m[i], met)
    <3>1. CASE i = 1
      BY <3>1, <2>7, <2>8
    <3>2. CASE i # 1
      <4>1. i \in 2..(Len(s) - 1) /\ i + 1 \in 1..Len(s) /\ i + 1 > 1
        BY <3>2, <2>1, <2>7
      <4> QED  BY <4>1, <2>7
    <3> QED  BY <3>1, <3>2
  <2> QED  BY <2>2, <2>9
<1> QED  BY <1>1, <1>2

(* While no floor rises, what has been recorded stays as high.             *)
LEMMA MetStays ==
  ASSUME Recorded, MetNodes \subseteq MetNodes'
  PROVE  /\ \A n \in Node : cache[n] # <<>> => BelowMet(n, MetNodes')
         /\ \A i \in 1..Len(stack) : Entered(stack[i], MetNodes')
<1>1. \A n \in Node : cache[n] # <<>> => BelowMet(n, MetNodes')
  BY DEF Recorded, BelowMet
<1>2. ASSUME NEW i \in 1..Len(stack)  PROVE Entered(stack[i], MetNodes')
  BY MetIsMet DEF Recorded
<1> QED  BY <1>1, <1>2

LEMMA EnterRecords ==
  ASSUME FloorInv, Enter
  PROVE  Recorded'
<1> USE DEF FloorInv
<1> DEFINE n == Top.node
           d == Raised(n, Top.demand)
<1>1. /\ Running /\ UNCHANGED <<cache, floors>> /\ last' = [last EXCEPT ![n] = d]
      /\ \/ \E i \in Eligible(n, d) : Return(cache[n][i])
         \/ stack' = <<[Top EXCEPT !.at = "asking", !.demand = d]>> \o Tail(stack)
  BY DEF Enter
<1>2. /\ Top = stack[1] /\ 1 \in 1..Len(stack) /\ Len(stack) \in Nat
      /\ Top \in FrameRecord /\ n \in Node /\ Top.demand \in Demand /\ TypeOK
      /\ (Top.at = "called" => Top.parents = <<>>)
  BY <1>1, CallFacts DEF IndInv, Calls
<1>3. d \in Demand /\ (floors[n] # None => Dominates(d, floors[n])) /\ d # None
  BY <1>2, RaisedFacts, NoneAssumption
<1> HIDE DEF d
<1>4. MetNodes \subseteq MetNodes' /\ n \in MetNodes'
  <2>1. last'[n] = d /\ \A m \in Node \ {n} : last'[m] = last[m]
    BY <1>1, <1>2 DEF TypeOK
  <2> QED  BY <2>1, <1>1, <1>2, <1>3 DEF MetNodes
<1>5. /\ \A k \in Node : cache'[k] # <<>> => BelowMet(k, MetNodes')
      /\ \A i \in 1..Len(stack) : Entered(stack[i], MetNodes')
  BY <1>1, <1>4, MetStays
<1>6. CASE \E i \in Eligible(n, d) : Return(cache[n][i])
  <2>1. PICK i \in Eligible(n, d) : Return(cache[n][i])
    BY <1>6
  <2>2. i \in 1..Len(cache[n]) /\ cache[n][i] \in Artifact
    BY <1>2, Caching DEF Eligible
  <2>3. cache'[n] # <<>>
    BY <2>2, <1>1, EmptySeq
  <2>4. Closure[n] \subseteq MetNodes'
    BY <2>3, <1>2, <1>4, <1>5, ClosureSplit DEF BelowMet
  <2> DEFINE met == MetNodes'
  <2> HIDE DEF met
  <2>5. \A k \in 1..Len(stack') : Entered(stack'[k], met)
    BY <2>1, <2>2, <2>4, <1>1, <1>5, RecordedReturn DEF met
  <2> QED  BY <2>5, <1>5 DEF Recorded, met
<1>7. CASE stack' = <<[Top EXCEPT !.at = "asking", !.demand = d]>> \o Tail(stack)
  <2> DEFINE r == [Top EXCEPT !.at = "asking", !.demand = d]
  <2>1. r \in FrameRecord /\ r.node = n /\ r.parents = Top.parents
    BY <1>2, <1>3 DEF FrameRecord
  <2>2. Len(Top.parents) = 0
    BY <1>2, EmptySeq DEF Enter
  <2>3. Entered(r, MetNodes')
    BY <2>1, <2>2, <1>4 DEF Entered
  <2>4. stack' = <<r>> \o Tail(stack)
    BY <1>7
  <2> HIDE DEF r
  <2>5. /\ stack' \in Seq(FrameRecord) /\ Len(stack') = Len(stack) /\ stack'[1] = r
        /\ \A i \in 2..Len(stack) : stack'[i] = stack[i]
    BY <2>1, <2>4, <1>1, CallFacts, ReplaceFrame DEF Running
  <2>6. ASSUME NEW i \in 1..Len(stack')  PROVE Entered(stack'[i], MetNodes')
    <3>1. CASE i = 1
      BY <3>1, <2>3, <2>5
    <3>2. CASE i # 1
      <4>1. i \in 2..Len(stack) /\ i \in 1..Len(stack)
        BY <3>2, <2>5, <1>2
      <4> QED  BY <4>1, <2>5, <1>5
    <3> QED  BY <3>1, <3>2
  <2> QED  BY <2>6, <1>5 DEF Recorded
<1> QED  BY <1>1, <1>6, <1>7

LEMMA ObtainParentRecords ==
  ASSUME FloorInv, ObtainParent
  PROVE  Recorded'
<1> USE DEF FloorInv
<1> DEFINE p == Parents[Top.node][Len(Top.parents) + 1]
           r == Frame(p, Ask[Top.node, p][Top.demand])
<1>1. Running /\ stack' = <<r>> \o stack /\ UNCHANGED <<cache, floors, last>>
  BY DEF ObtainParent
<1>2. stack \in Seq(FrameRecord) /\ Len(stack) \in Nat /\ r.at # "asking"
  BY <1>1, CallFacts DEF Frame
<1>3. stack' \in Seq(FrameRecord)
  BY ObtainParentStep DEF IndInv, TypeOK
<1> HIDE DEF r
<1>4. MetNodes' = MetNodes
  BY <1>1 DEF MetNodes
<1>5. ASSUME NEW i \in 1..Len(stack')  PROVE Entered(stack'[i], MetNodes')
  <2> DEFINE S == FrameRecord \cup {r}
  <2>1. stack \in Seq(S) /\ r \in S
    BY <1>2
  <2>2. /\ Len(stack') = Len(stack) + 1 /\ stack'[1] = r
        /\ \A k \in 1..Len(stack) : stack'[k + 1] = stack[k]
    BY <2>1, <1>1, PushFrame
  <2>3. CASE i = 1
    BY <2>2, <2>3, <1>2 DEF Entered
  <2>4. CASE i # 1
    <3>1. i - 1 \in 1..Len(stack) /\ (i - 1) + 1 = i
      BY <2>2, <2>4, <1>2
    <3>2. stack'[(i - 1) + 1] = stack[i - 1]
      BY <3>1, <2>2
    <3> QED  BY <3>1, <3>2, <1>4 DEF Recorded
  <2> QED  BY <2>3, <2>4
<1> QED  BY <1>1, <1>4, <1>5 DEF Recorded

LEMMA BuiltRecords ==
  ASSUME FloorInv, NEW g \in Demand, Built(g)
  PROVE  Recorded'
<1> USE DEF FloorInv
<1> DEFINE t == Top.node
           a == [guarantee |-> g, parents |-> Top.parents]
<1>1. /\ Running /\ Top.at = "asking" /\ Len(Top.parents) = Len(Parents[t])
      /\ cache' = [cache EXCEPT ![t] = Append(@, a)]
      /\ Return(a) /\ UNCHANGED <<floors, last>>
  BY DEF Built, Building
<1>2. /\ Top = stack[1] /\ 1 \in 1..Len(stack) /\ t \in Node
      /\ Top.parents \in Seq(Demand) /\ a \in Artifact
  BY <1>1, CallFacts DEF Artifact
<1>3. MetNodes' = MetNodes
  BY <1>1 DEF MetNodes
<1>4. t \in MetNodes /\ \A j \in 1..Len(Parents[t]) : Closure[Parents[t][j]] \subseteq MetNodes
  BY <1>1, <1>2 DEF Recorded, Entered
<1>5. BelowMet(t, MetNodes)
  BY <1>4 DEF BelowMet, Below, ParentsOf
<1>6. Closure[t] \subseteq MetNodes
  BY <1>2, <1>4, <1>5, ClosureSplit DEF BelowMet
<1> HIDE DEF a
<1>7. \A i \in 1..Len(stack') : Entered(stack'[i], MetNodes)
  BY <1>1, <1>2, <1>6, RecordedReturn DEF Recorded
<1>8. ASSUME NEW n \in Node, cache'[n] # <<>>  PROVE BelowMet(n, MetNodes)
  <2>1. CASE n = t
    BY <2>1, <1>5
  <2>2. CASE n # t
    BY <2>2, <1>1, <1>8 DEF Recorded, IndInv, TypeOK
  <2> QED  BY <2>1, <2>2
<1> QED  BY <1>3, <1>7, <1>8 DEF Recorded

LEMMA RefineRecords ==
  ASSUME FloorInv, NEW m \in Node, NEW needed \in Demand, Refine(m, needed)
  PROVE  Recorded'
<1> USE DEF FloorInv
<1>1. /\ Running /\ floors' = [floors EXCEPT ![m] = Joined(last[m], needed)]
      /\ cache' = [n \in Node |-> IF n \in Descendants(m) THEN <<>> ELSE cache[n]]
      /\ stack' = <<Frame(goal.node, goal.demand)>> /\ UNCHANGED last
  BY DEF Refine, Building
<1>2. goal.node \in Node /\ goal.demand \in Demand
  BY <1>1, CallFacts
<1>3. ASSUME NEW i \in 1..Len(stack')  PROVE Entered(stack'[i], MetNodes')
  <2>1. Len(stack') = 1 /\ stack'[1].at = "called"
    BY <1>1, <1>2, FirstCall
  <2> QED  BY <2>1 DEF Entered
<1>4. MetNodes \ {m} \subseteq MetNodes'
  BY <1>1 DEF MetNodes, IndInv, TypeOK
<1>5. ASSUME NEW n \in Node, cache'[n] # <<>>  PROVE BelowMet(n, MetNodes')
  <2>1. n \notin Descendants(m) /\ cache[n] # <<>>
    BY <1>1, <1>5
  <2>2. Valid(n) /\ BelowMet(n, MetNodes)
    BY <2>1 DEF Recorded, IndInv, CachedValid
  <2>3. ~Below(n, m)
    BY <2>1, <2>2, AboveIsDescendant DEF IndInv
  <2> QED  BY <2>2, <2>3, <1>4 DEF BelowMet
<1> QED  BY <1>3, <1>5 DEF Recorded

LEMMA InitFloorInv == Init => FloorInv
<1> SUFFICES ASSUME Init  PROVE FloorInv
  OBVIOUS
<1>1. Len(stack) = 0 /\ \A n \in Node : cache[n] = <<>>
  BY EmptySeq DEF Init
<1> QED  BY <1>1, InitIndInv DEF FloorInv, Recorded

LEMMA NextFloorInv == FloorInv /\ [Next]_vars => FloorInv'
<1> SUFFICES ASSUME FloorInv, [Next]_vars  PROVE FloorInv'
  OBVIOUS
<1>1. IndInv'
  BY NextIndInv DEF FloorInv
<1> SUFFICES Recorded'
  BY <1>1 DEF FloorInv
<1>2. ASSUME UNCHANGED <<cache, floors, last>>, stack' = stack \/ stack' = <<>>
      PROVE  Recorded'
  <2>1. MetNodes' = MetNodes
    BY <1>2 DEF MetNodes
  <2>2. stack' = <<>> => Len(stack') = 0
    BY EmptySeq
  <2> QED  BY <2>1, <2>2, <1>2 DEF FloorInv, Recorded
<1>3. CASE Enter
  BY <1>3, EnterRecords
<1>4. CASE ObtainParent
  BY <1>4, ObtainParentRecords
<1>5. CASE Throws \/ (\E m \in Node, needed \in Demand : RefineRefused(m, needed))
  BY <1>2, <1>5 DEF Throws, RefineRefused, Raise
<1>6. CASE \E g \in Demand : Built(g)
  BY <1>6, BuiltRecords
<1>7. CASE \E m \in Node, needed \in Demand : Refine(m, needed)
  BY <1>7, RefineRecords
<1>8. CASE UNCHANGED vars \/ \E n \in Node : Add(n)
  BY <1>2, <1>8 DEF vars, Add
<1>9. ASSUME NEW w \in Wanted, Run(w[1], w[2])  PROVE Recorded'
  <2>1. CASE Valid(w[1])
    <3>1. w[1] \in Node /\ w[2] \in Demand
      BY WantedAssumption
    <3>2. stack' = <<Frame(w[1], w[2])>> /\ UNCHANGED <<cache, floors, last>>
      BY <2>1, <1>9 DEF Run
    <3>3. Len(stack') = 1 /\ stack'[1].at = "called"
      BY <3>1, <3>2, FirstCall
    <3>4. \A i \in 1..Len(stack') : Entered(stack'[i], MetNodes')
      BY <3>3 DEF Entered
    <3>5. MetNodes' = MetNodes
      BY <3>2 DEF MetNodes
    <3> QED  BY <3>2, <3>4, <3>5 DEF FloorInv, Recorded
  <2>2. CASE ~Valid(w[1])
    BY <2>2, <1>2, <1>9 DEF Run
  <2> QED  BY <2>1, <2>2
<1> QED  BY <1>3, <1>4, <1>5, <1>6, <1>7, <1>8, <1>9 DEF Next, Step

(* A refinement never lowers a floor when the builder that asks for it is  *)
(* built from the node it names: whatever attempt or run last_demand_ of   *)
(* that node dates from, it is not older than the floor.                   *)
THEOREM FloorsNeverFall == Spec => FloorsRise
<1> DEFINE Good == \A m \in Node :
                     Running /\ m \in Closure[Top.node] /\ floors[m] # None
                       => Dominates(floors'[m], floors[m])
<1>1. FloorInv /\ [Next]_vars => [Good]_vars
  <2> SUFFICES ASSUME FloorInv, Next, NEW m \in Node,
                      Running, m \in Closure[Top.node], floors[m] # None
               PROVE  Dominates(floors'[m], floors[m])
    OBVIOUS
  <2>1. floors[m] \in Demand /\ floors \in [Node -> Demand \cup {None}]
    BY DEF FloorInv, IndInv, TypeOK
  <2>2. CASE floors'[m] = floors[m]
    BY <2>1, <2>2, DemandFacts
  <2>3. ASSUME NEW k \in Node, NEW needed \in Demand, Refine(k, needed)
        PROVE  Dominates(floors'[m], floors[m])
    <3>1. /\ Building /\ floors' = [floors EXCEPT ![k] = Joined(last[k], needed)]
          /\ last[k] # None
      BY <2>3 DEF Refine, Refusable
    <3>2. CASE k # m
      BY <3>1, <3>2, <2>1, <2>2
    <3>3. CASE k = m
      <4>1. /\ Top = stack[1] /\ 1 \in 1..Len(stack) /\ Top.node \in Node
        BY CallFacts DEF FloorInv
      <4>2. /\ Top.at = "asking" /\ Len(Top.parents) = Len(Parents[Top.node])
        BY <3>1 DEF Building
      <4>3. Entered(Top, MetNodes)
        BY <4>1 DEF FloorInv, Recorded
      <4>4. m \in MetNodes
        BY <4>1, <4>2, <4>3, ClosureSplit DEF Entered, Below, ParentsOf
      <4>5. last[m] \in Demand /\ Dominates(last[m], floors[m])
        BY <4>4, <3>1, <3>3 DEF MetNodes, FloorInv, IndInv, TypeOK
      <4>6. Joined(last[m], needed) \in Demand /\ Dominates(Joined(last[m], needed), last[m])
        BY <4>5, DemandFacts
      <4> QED  BY <4>5, <4>6, <3>1, <3>3, <2>1, DemandFacts
    <3> QED  BY <3>2, <3>3
  <2>4. CASE UNCHANGED floors
    BY <2>2, <2>4
  <2> QED  BY <2>3, <2>4 DEF Next, Step, Enter, ObtainParent, Throws, Built, RefineRefused, Add, Run
<1> QED  BY <1>1, InitFloorInv, NextFloorInv, PTL DEF Spec, FloorsRise
==============================================================================

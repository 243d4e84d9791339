------------------------------ MODULE PathPlanner ------------------------------
(***************************************************************************)
(* The exact plan behind tile.plan and tile.plan_arm: where an arm hands   *)
(* over from each affine chart, x = center + scale t, to the next, and the *)
(* interval each chart integrates.                                         *)
(*                                                                         *)
(* A plan is rational and final: matching and integration read it, and no  *)
(* later step moves a point.  Identities, branch sheets and complex        *)
(* projections are labels the planner carries along, and are left out, as  *)
(* are the local coordinates, which Local gives for every point.           *)
(***************************************************************************)
EXTENDS Rationals, FiniteSetsExt, Functions, Sequences

CONSTANT Requests  \* what clients ask: one arm, or a lower and an upper arm

Chart == [center : Rational, scale : Rational, radius : Rational, singular : BOOLEAN]
Arm   == [from : Rational, to : Rational, order : Nat, charts : Seq(Chart),
          singular : SUBSET Rational, boundary : SUBSET Rational]

ASSUME RequestsAssumption ==
  \A request \in Requests :
    /\ request \in Seq(Arm)
    /\ \A i \in DOMAIN request :
         IsFiniteSet(request[i].singular) /\ IsFiniteSet(request[i].boundary)

------------------------------------------------------------------------------
(* An arm is [from, to, order, charts, singular, boundary]: its endpoints, *)
(* the division order k, its charts [center, scale, radius, singular] from *)
(* the anchor on, and the points no handoff may use.                       *)

Sign(arm) == IF Less(arm.from, arm.to) THEN 1 ELSE -1

(* A coordinate that grows along the arm.                                  *)
Along(arm, x) == IF Sign(arm) < 0 THEN Negate(x) ELSE x

Local(chart, x)    == Over(Minus(x, chart.center), chart.scale)
HalfRadius(chart)  == Over(chart.radius, <<2, 1>>)
Limit(arm, chart)  == Lesser(<<1, arm.order>>, HalfRadius(chart))

(* Mutant: the true radius in place of the affine scale's safe part of it. *)
ReachOfRadius(arm, chart) == Times(Absolute(chart.scale), HalfRadius(chart))
Reach(arm, chart) == Times(Absolute(chart.scale), Limit(arm, chart))

Forbidden(arm) == arm.singular \cup arm.boundary \cup {arm.from, arm.to}

Within(arm, x) ==
  /\ AtMost(Along(arm, arm.from), Along(arm, x))
  /\ AtMost(Along(arm, x), Along(arm, arm.to))

ValidArm(arm) ==
  /\ arm.order >= 2 /\ arm.from # arm.to /\ arm.charts # <<>>
  /\ arm.charts[1].center = arm.from
  /\ \A i \in DOMAIN arm.charts :
       LET chart == arm.charts[i] IN
       /\ chart.scale[1] # 0 /\ chart.radius[1] > 0
       /\ Within(arm, chart.center)
       /\ i > 1 => Less(Along(arm, arm.charts[i - 1].center), Along(arm, chart.center))
       /\ chart.singular <=> chart.center \in arm.singular
  /\ \A x \in arm.singular :
       Within(arm, x) => \E i \in DOMAIN arm.charts :
         arm.charts[i].singular /\ arm.charts[i].center = x

------------------------------------------------------------------------------
(* The handoff from the i-th chart, left, to the next, right.              *)

Point(x, how) == [at |-> x, how |-> how]
NoHandoff  == Point(<<0, 1>>, "none")

Gap(arm, left, right) ==
  Minus(Along(arm, right.center), Along(arm, left.center))

(* gap * a / (a + b) from left, or nothing when the reaches do not meet.   *)
Balance(arm, left, right, a, b) ==
  Along(arm, Plus(Along(arm, left.center),
                  Over(Times(Gap(arm, left, right), a), Plus(a, b))))

(* 9/10 of the reach of a producer that approaches a singular chart.       *)
Margin(arm, left) == Times(<<9, 10>>, Reach(arm, left))

ApproachPoint(arm, left, right) ==
  Balance(arm, left, right, Margin(arm, left), Reach(arm, right))

(* Into a singular chart: at the balanced point or nowhere.                *)
Approach(arm, left, right) ==
  IF /\ ~left.singular
     /\ Less(Gap(arm, left, right), Plus(Margin(arm, left), Reach(arm, right)))
     /\ AtMost(Absolute(Local(left, ApproachPoint(arm, left, right))), Limit(arm, left))
     /\ AtMost(Absolute(Local(right, ApproachPoint(arm, left, right))), Limit(arm, right))
     /\ ApproachPoint(arm, left, right) \notin Forbidden(arm)
  THEN Point(ApproachPoint(arm, left, right), "approach")
  ELSE NoHandoff

(* +1/k of a chart towards the end of the arm, for toward = 1.             *)
Division(arm, chart, toward) ==
  Plus(chart.center, Rat(toward * Sign(arm) * Size(chart.scale[1]),
                         arm.order * chart.scale[2]))

Symmetric(arm, left, right) ==
  LET x == Division(arm, left, 1) IN
  /\ x = Division(arm, right, -1)
  /\ AtMost(<<1, arm.order>>, HalfRadius(left))
  /\ AtMost(<<1, arm.order>>, HalfRadius(right))
  /\ x \notin Forbidden(arm)

(* The receiver's own division point, if the producer still reaches it.    *)
ReceiverReached(arm, left, right) ==
  LET x == Division(arm, right, -1) IN
  /\ Less(Along(arm, left.center), Along(arm, x))
  /\ Less(Along(arm, x), Along(arm, right.center))
  /\ AtMost(Absolute(Local(left, x)), HalfRadius(left))
  /\ AtMost(<<1, arm.order>>, Limit(arm, right))
  /\ x \notin Forbidden(arm)

(* The first of F + 1 equidistant points between two that is not one of    *)
(* the F forbidden ones.                                                   *)
Elsewhere(arm, low, high) ==
  LET n == Cardinality(arm.singular) + Cardinality(arm.boundary) + 3
      candidate(i) == Along(arm, Plus(low, Times(Minus(high, low), Rat(i, n + 1))))
      free == {i \in 1..n : candidate(i) \notin Forbidden(arm)}
  IN  IF Less(low, high) /\ free # {} THEN Point(candidate(Min(free)), "avoidance")
                                      ELSE NoHandoff

(* Between the producer's half radius and the receiver's reach.            *)
Overlap(arm, left, right) ==
  LET a == Times(Absolute(left.scale), HalfRadius(left))
      b == Reach(arm, right)
      x == Balance(arm, left, right, a, b)
      yLeft  == Along(arm, left.center)
      yRight == Along(arm, right.center)
  IN  IF Less(Plus(a, b), Gap(arm, left, right)) THEN NoHandoff
      ELSE IF x \notin Forbidden(arm) THEN Point(x, "overlap")
      ELSE Elsewhere(arm, Greater(yLeft, Minus(yRight, b)), Lesser(yRight, Plus(yLeft, a)))

Handoff(arm, i) ==
  LET left  == arm.charts[i]
      right == arm.charts[i + 1]
  IN  IF (left.scale[1] > 0) # (right.scale[1] > 0) THEN NoHandoff
      ELSE IF right.singular THEN Approach(arm, left, right)
      ELSE IF Symmetric(arm, left, right) THEN Point(Division(arm, left, 1), "symmetric")
      ELSE IF ReceiverReached(arm, left, right) THEN Point(Division(arm, right, -1), "overlap")
      ELSE Overlap(arm, left, right)

------------------------------------------------------------------------------
(* The plan of an arm: its handoffs, and one tile [begin, end, crosses] for *)
(* each chart, from one handoff to the next.                               *)

Tiles(arm, matches) ==
  [i \in DOMAIN arm.charts |->
     LET begin == IF i = 1 THEN arm.from ELSE matches[i - 1].at
         end   == IF i = Len(arm.charts) THEN arm.to ELSE matches[i].at
     IN  [begin |-> begin, end |-> end,
          crosses |-> /\ arm.charts[i].singular
                      /\ Less(Along(arm, begin), Along(arm, arm.charts[i].center))
                      /\ Less(Along(arm, arm.charts[i].center), Along(arm, end))]]

InDisk(chart, x) == Less(Absolute(Local(chart, x)), chart.radius)

(* valid_match_envelopes, for a match planned above.                       *)
Enveloped(arm, i, match) ==
  LET left  == arm.charts[i]
      right == arm.charts[i + 1]
  IN  /\ right.singular <=> match.how = "approach"
      /\ AtMost(Absolute(Local(left, match.at)),
                IF right.singular THEN Limit(arm, left) ELSE HalfRadius(left))
      /\ AtMost(Absolute(Local(right, match.at)), Limit(arm, right))
      /\ right.singular => ~left.singular /\ match.at = ApproachPoint(arm, left, right)

(* validate_exact_arm_plan.                                                *)
ValidPlan(arm, matches) ==
  /\ ValidArm(arm)
  /\ \A i \in DOMAIN matches :
       LET x == matches[i].at
           y == Along(arm, x)
       IN  /\ Less(Along(arm, arm.charts[i].center), y)
           /\ Less(y, Along(arm, arm.charts[i + 1].center))
           /\ i > 1 => Less(Along(arm, matches[i - 1].at), y)
           /\ x \notin Forbidden(arm)
           /\ Local(arm.charts[i], x)[1] * Local(arm.charts[i + 1], x)[1] < 0
           /\ InDisk(arm.charts[i], x) /\ InDisk(arm.charts[i + 1], x)
           /\ Enveloped(arm, i, matches[i])
  /\ LET tiles == Tiles(arm, matches) IN
     \A i \in DOMAIN tiles :
       /\ AtMost(Along(arm, tiles[i].begin), Along(arm, tiles[i].end))
       /\ InDisk(arm.charts[i], tiles[i].begin) /\ InDisk(arm.charts[i], tiles[i].end)

Refused == [matches |-> <<>>, tiles |-> <<>>]

PlanArm(arm) ==
  IF ~ValidArm(arm) THEN Refused
  ELSE LET matches == [i \in 1..(Len(arm.charts) - 1) |-> Handoff(arm, i)] IN
       IF NoHandoff \notin Range(matches) /\ ValidPlan(arm, matches)
       THEN [matches |-> matches, tiles |-> Tiles(arm, matches)]
       ELSE Refused

(* Two arms start from one anchor chart and go to its two sides.           *)
OneAnchor(lower, upper) ==
  /\ lower.from = upper.from
  /\ lower.charts # <<>> /\ upper.charts # <<>>
  /\ lower.charts[1] = upper.charts[1]
  /\ Sign(lower) # Sign(upper)

VARIABLES
  arms,   \* the request
  plans,  \* the plan of each arm
  answer  \* "asked", "planned" or "refused"

planVars == <<arms, plans, answer>>

PlanInit == arms \in Requests /\ plans = <<>> /\ answer = "asked"

(* build_tile_plan or build_single_arm_tile_plan: whole, or not at all.    *)
PlanTiles ==
  /\ answer = "asked"
  /\ LET made == [i \in DOMAIN arms |-> PlanArm(arms[i])] IN
     IF /\ Len(arms) = 2 => OneAnchor(arms[1], arms[2])
        /\ Refused \notin Range(made)
     THEN plans' = made /\ answer' = "planned"
     ELSE answer' = "refused" /\ UNCHANGED plans
  /\ UNCHANGED arms

PlanSpec == PlanInit /\ [][PlanTiles]_planVars

------------------------------------------------------------------------------
(* The same request, and plan, seen from the other side of the origin.     *)
MirrorSet(points) == {Negate(x) : x \in points}
MirrorChart(chart) == [chart EXCEPT !.center = Negate(@)]
MirrorMatch(match) == [match EXCEPT !.at = Negate(@)]
MirrorTile(tile)   == [tile EXCEPT !.begin = Negate(@), !.end = Negate(@)]
MirrorArm(arm) ==
  [arm EXCEPT !.from = Negate(@), !.to = Negate(@),
              !.singular = MirrorSet(@), !.boundary = MirrorSet(@),
              !.charts = [i \in DOMAIN @ |-> MirrorChart(@[i])]]
MirrorPlan(p) ==
  [matches |-> [i \in DOMAIN p.matches |-> MirrorMatch(p.matches[i])],
   tiles |-> [i \in DOMAIN p.tiles |-> MirrorTile(p.tiles[i])]]

(* How far a handoff may lie from the two centers.                         *)
Safe(arm, chart) == Times(Absolute(chart.scale), Lesser(<<1, arm.order>>, HalfRadius(chart)))
Half(chart)      == Times(Absolute(chart.scale), HalfRadius(chart))

(* Some point is safe for both charts, and allowed.  A singular chart is   *)
(* entered from a regular one, with a tenth to spare and at one point only.*)
Joinable(arm, left, right) ==
  LET a == IF right.singular THEN Times(<<9, 10>>, Safe(arm, left)) ELSE Half(left)
      b == Safe(arm, right)
      low  == Greater(Along(arm, left.center), Minus(Along(arm, right.center), b))
      high == Lesser(Along(arm, right.center), Plus(Along(arm, left.center), a))
  IN  /\ (left.scale[1] > 0) <=> (right.scale[1] > 0)
      /\ \/ Less(low, high)
         \/ ~right.singular /\ low = high /\ Along(arm, low) \notin Forbidden(arm)
      /\ right.singular =>
           /\ ~left.singular
           /\ Balance(arm, left, right, a, b) \notin Forbidden(arm)

Plannable(arm) ==
  /\ ValidArm(arm)
  /\ \A i \in 1..(Len(arm.charts) - 1) : Joinable(arm, arm.charts[i], arm.charts[i + 1])
  /\ InDisk(arm.charts[Len(arm.charts)], arm.to)

Sound(arm, p) ==
  /\ \A i \in DOMAIN p.matches :
       LET x == p.matches[i].at
           left  == arm.charts[i]
           right == arm.charts[i + 1]
       IN  /\ x \notin Forbidden(arm)
           /\ AtMost(Absolute(Minus(x, left.center)),
                     IF right.singular THEN Safe(arm, left) ELSE Half(left))
           /\ AtMost(Absolute(Minus(x, right.center)), Safe(arm, right))
  /\ \A x \in arm.singular \ {arm.from, arm.to} :
       Within(arm, x) => \E i \in DOMAIN p.tiles :
         p.tiles[i].crosses /\ arm.charts[i].center = x

(* A request gets a plan exactly when the charts can be joined: the order  *)
(* in which the planner tries its points, the exact limits and the points  *)
(* it must avoid lose no arm, and its own final test refuses nothing it    *)
(* has planned.  The plan keeps every handoff safe for both charts, crosses*)
(* every singularity in the middle of its own tile, and is the mirror image*)
(* of the plan of the mirrored arm.                                        *)
PlanStands ==
  answer # "asked" =>
    /\ answer = "planned" <=>
         /\ Len(arms) = 2 => OneAnchor(arms[1], arms[2])
         /\ \A i \in DOMAIN arms : Plannable(arms[i])
    /\ \A i \in DOMAIN plans :
         /\ Sound(arms[i], plans[i])
         /\ PlanArm(MirrorArm(arms[i])) = MirrorPlan(plans[i])
==============================================================================

----------------------------- MODULE MCPathPlanner -----------------------------
(* PathPlanner on arms of two and three charts around the origin.             *)
EXTENDS PathPlanner

ChartAt(x, s, r, b) == [center |-> <<x, 1>>, scale |-> s, radius |-> r, singular |-> b]

(* The singular points are the singular centers, or one of them more or less. *)
ArmOf(charts, end, order, boundary, stray) ==
  LET centers == {charts[i].center : i \in {j \in DOMAIN charts : charts[j].singular}}
  IN  [from |-> charts[1].center, to |-> end, order |-> order, charts |-> charts,
       singular |-> centers \cup stray, boundary |-> boundary]

Scales == {<<1, 1>>, <<2, 1>>}
Radii  == {<<1, 2>>, <<1, 1>>, <<4, 1>>}
Avoided == {{}, {<<1, 2>>}, {<<2, 3>>}, {<<1, 1>>, <<4, 3>>}}

TwoCharts ==
  {ArmOf(<<ChartAt(0, s, r, a), ChartAt(g, t, q, b)>>, Rat(2 * g + e, 2), k, avoid, {}) :
     s \in Scales, t \in Scales \cup {<<-1, 1>>}, r, q \in Radii, a, b \in BOOLEAN,
     g \in {1, 2}, e \in {0, 1, 2}, k \in {2, 3}, avoid \in Avoided}

ThreeCharts ==
  {ArmOf(<<ChartAt(0, <<1, 1>>, r, FALSE), ChartAt(1, s, q, a), ChartAt(2, <<1, 1>>, <<1, 1>>, b)>>,
         <<5, 2>>, k, avoid, stray) :
     s \in Scales, r, q \in Radii, a, b \in BOOLEAN, k \in {2, 3},
     avoid \in Avoided, stray \in {{}, {<<3, 2>>}, {<<3, 1>>}}}

Small == {arm \in TwoCharts :
  arm.order = 2 /\ arm.boundary = {<<1, 2>>} /\ arm.to[2] = 1
    /\ arm.charts[1].radius = <<1, 1>> /\ arm.charts[2].radius = <<1, 1>>
    /\ arm.charts[2].scale = <<1, 1>>}

MCRequests ==
  {<<arm>> : arm \in TwoCharts \cup ThreeCharts}
    \cup {<<MirrorArm(lower), upper>> : lower, upper \in Small}
    \cup {<<lower, upper>> : lower, upper \in {arm \in Small : arm.to = <<1, 1>>}}
==============================================================================

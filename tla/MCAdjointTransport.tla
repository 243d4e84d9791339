-------------------------- MODULE MCAdjointTransport --------------------------
(* AdjointTransport on paths of three legs at most.                          *)
EXTENDS AdjointTransport

CONSTANTS r1, r2

(* How far charts reach, by their start.                                     *)
Wide   == [x \in 0..(Ticks - 1) |-> Ticks]
Narrow == [x \in 0..(Ticks - 1) |-> IF x = 0 THEN 2 ELSE 1]

(* The longest conditioned chart, for batches of one, two and three rows.    *)
Calm    == <<4, 4, 4>>
Rough   == <<2, 2, 1>>
Hopeless == <<2, 2, 0>>

Leg(reach, fits, calm) == [still |-> FALSE, reach |-> reach, fits |-> fits, calm |-> calm]
StillLeg == [Leg(Wide, 3, Calm) EXCEPT !.still = TRUE]

Problem(charts, halvings, legs) ==
  [rows |-> 3, charts |-> charts, halvings |-> halvings, legs |-> legs]

(* Batches that shrink, with charts enough or too few; one that would grow   *)
(* again; a leg to skip; one where nothing fits; one too rough for any step. *)
Shrinking == <<Leg(Wide, 3, Rough), Leg(Narrow, 2, Calm)>>
Growing   == <<Leg(Wide, 2, Calm), Leg(Wide, 3, Rough)>>

MCProblems ==
  {Problem(4, 3, Shrinking), Problem(3, 3, Shrinking),
   Problem(4, 0, Growing), Problem(4, 3, Growing),
   Problem(4, 1, <<Leg(Narrow, 3, Calm), StillLeg, Leg(Wide, 1, Rough)>>),
   Problem(3, 0, <<Leg(Wide, 3, Calm), Leg(Wide, 0, Calm)>>),
   Problem(4, 1, <<Leg(Wide, 3, Rough), Leg(Wide, 3, Hopeless)>>),
   Problem(4, 3, <<Leg(Wide, 2, Rough), Leg(Wide, 3, Hopeless)>>)}

(* One run at least has the directory.                                       *)
MCAdjointInit == AdjointInit /\ stored[r1]
MCAdjointSpec == MCAdjointInit /\ [][AdjointNext]_adjointVars
==============================================================================

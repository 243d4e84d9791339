---------------------------- MODULE AdjointTransport ----------------------------
(***************************************************************************)
(* Adjoint transport along the legs of a path, and the continuation file   *)
(* that lets an interrupted run go on: transport_adjoint_rows inside       *)
(* adjoint_checkpoint::transport.                                          *)
(*                                                                         *)
(* A leg is walked from 0 to 1 in charts.  The reach of a chart is         *)
(* geometry; a chart that loses too much accuracy is halved and tried      *)
(* again; rows are worked in batches, made smaller until they fit.  After  *)
(* each accepted chart the state is written to a file beside the target,   *)
(* synced, renamed and the directory synced.  The coefficients are not     *)
(* modelled: they follow from the charts and batches that produced them,   *)
(* and path lists those.                                                   *)
(***************************************************************************)
EXTENDS Integers, FiniteSetsExt, Sequences

CONSTANTS
  Runner,     \* runs of one problem, in one process or in several
  Problems,   \* [rows, charts, halvings, legs]: observables, max_charts_per_leg,
              \* max_conditioning_halvings, and legs [still, reach, fits, calm]:
              \* from = to; reach of a chart by its start; largest batch that
              \* fits; longest chart that is conditioned, by batch
  Ticks,      \* bound: a leg has so many points after its start, 1 being the last
  MaxStops    \* bound: runs cut short, and losses of power

LegRecord ==
  [still : BOOLEAN, reach : [0..(Ticks - 1) -> Nat], fits : Nat, calm : Seq(Nat)]

ASSUME ProblemsAssumption ==
  /\ Ticks \in Nat \ {0}
  /\ \A p \in Problems :
       p.rows \in Nat \ {0} /\ p.charts \in Nat /\ p.halvings \in Nat /\ p.legs \in Seq(LegRecord)

VARIABLES
  problem, stored,  \* what is asked, and which runs have a directory
  walk,             \* where each run is
  file, survivors,  \* the continuation, and what a loss of power may leave of it
  stops

adjointVars == <<problem, stored, walk, file, survivors, stops>>

Scratch == [leg |-> 1, center |-> 0, charts |-> 0, path |-> <<>>]

Rest == [at |-> "idle", leg |-> 1, center |-> 0, charts |-> 0, path |-> <<>>,
         batch |-> 0, next |-> 0, halvings |-> 0]

AdjointInit ==
  /\ problem \in Problems
  /\ stored \in [Runner -> BOOLEAN]
  /\ walk = [w \in Runner |-> Rest]
  /\ file = Scratch /\ survivors = {Scratch}  \* no file reads as from scratch
  /\ stops = 0

Goes(w, to) == walk' = [walk EXCEPT ![w] = to]
Run(w)      == walk[w]
LegOf(w)    == problem.legs[walk[w].leg]

(* Ends with an exception.                                                 *)
Throws(w) == Goes(w, [Run(w) EXCEPT !.at = "failed"])

(* The batch is that of the options: the file does not say to what the     *)
(* interrupted run had reduced it.                                         *)
Start(w) ==
  /\ Run(w).at = "idle"
  /\ LET from == IF stored[w] THEN file ELSE Scratch IN
     Goes(w, [at |-> "leg", leg |-> from.leg, center |-> from.center,
              charts |-> from.charts, path |-> from.path,
              batch |-> problem.rows, next |-> 0, halvings |-> 0])
  /\ UNCHANGED <<problem, stored, file, survivors, stops>>

(* What becomes of a batch that is made smaller again and again.           *)
Reductions(b) ==
  {n \in 1..b : \A S \in SUBSET ((1..b) \ {n}) : b \in S => \E m \in S : (m + 1) \div 2 \notin S}

(* The first of them that fits; 0 when not even one row does.              *)
Fitting(b, fits) == Max({0} \cup {n \in Reductions(b) : n <= fits})

NextLeg(r) == [r EXCEPT !.at = "leg", !.leg = @ + 1, !.center = 0, !.charts = 0]

EnterLeg(w) ==
  /\ Run(w).at = "leg"
  /\ IF Run(w).leg > Len(problem.legs) THEN Goes(w, [Run(w) EXCEPT !.at = "done"])
     ELSE IF LegOf(w).still \/ Run(w).center = Ticks THEN Goes(w, NextLeg(Run(w)))
     ELSE IF Fitting(Run(w).batch, LegOf(w).fits) = 0 THEN Throws(w)
     ELSE Goes(w, [Run(w) EXCEPT !.at = "chart", !.batch = Fitting(@, LegOf(w).fits)])
  /\ UNCHANGED <<problem, stored, file, survivors, stops>>

StartChart(w) ==
  /\ Run(w).at = "chart"
  /\ LET next == Min({Run(w).center + LegOf(w).reach[Run(w).center], Ticks}) IN
     IF Run(w).charts = problem.charts \/ next = Run(w).center THEN Throws(w)
     ELSE Goes(w, [Run(w) EXCEPT !.at = "trial", !.charts = @ + 1,
                                 !.halvings = 0, !.next = next])
  /\ UNCHANGED <<problem, stored, file, survivors, stops>>

Chart(r) == [leg |-> r.leg, from |-> r.center, to |-> r.next, batch |-> r.batch]

(* center = next, and out of the loop at the end of the leg.               *)
Onward(r) ==
  IF r.next = Ticks THEN NextLeg(r) ELSE [r EXCEPT !.at = "chart", !.center = r.next]

Conditioned(w) ==
  \/ problem.halvings = 0
  \/ Run(w).next - Run(w).center <= LegOf(w).calm[Run(w).batch]

Accept(w) ==
  /\ Run(w).at = "trial"
  /\ Conditioned(w)
  /\ LET r == [Run(w) EXCEPT !.path = Append(@, Chart(Run(w)))] IN
     Goes(w, IF stored[w] THEN [r EXCEPT !.at = "save"] ELSE Onward(r))
  /\ UNCHANGED <<problem, stored, file, survivors, stops>>

(* The state from before the trial comes back, in every batch.             *)
Reject(w) ==
  /\ Run(w).at = "trial"
  /\ ~Conditioned(w)
  /\ LET smaller == Run(w).center + (Run(w).next - Run(w).center) \div 2 IN
     IF Run(w).halvings >= problem.halvings \/ smaller = Run(w).center
     THEN Throws(w)
     ELSE Goes(w, [Run(w) EXCEPT !.halvings = @ + 1, !.next = smaller])
  /\ UNCHANGED <<problem, stored, file, survivors, stops>>

(* Mutant: the charts of the leg are counted again after a resumption.     *)
ContinuationRecounts(r) ==
  [leg |-> r.leg, center |-> r.next, charts |-> 1, path |-> r.path]

Continuation(r) ==
  [leg |-> r.leg, center |-> r.next, charts |-> r.charts, path |-> r.path]

(* Written and synced beside the target, then renamed over it.             *)
SaveContinuation(w) ==
  /\ Run(w).at = "save"
  /\ file' = Continuation(Run(w))
  /\ survivors' = survivors \cup {file'}
  /\ Goes(w, [Run(w) EXCEPT !.at = "sync"])
  /\ UNCHANGED <<problem, stored, stops>>

SyncContinuation(w) ==
  /\ Run(w).at = "sync"
  /\ survivors' = {file}
  /\ Goes(w, Onward(Run(w)))
  /\ UNCHANGED <<problem, stored, file, stops>>

(* The process dies, the file cannot be written, or an observer throws; or *)
(* a run that ended is asked for again.                                    *)
Stop(w) ==
  /\ Run(w).at # "idle" /\ stops < MaxStops
  /\ Goes(w, Rest)
  /\ stops' = stops + 1
  /\ UNCHANGED <<problem, stored, file, survivors>>

LosePower ==
  /\ stops < MaxStops
  /\ file' \in survivors /\ survivors' = {file'}
  /\ walk' = [w \in Runner |-> Rest]
  /\ stops' = stops + 1
  /\ UNCHANGED <<problem, stored>>

AdjointNext ==
  \/ \E w \in Runner :
       Start(w) \/ EnterLeg(w) \/ StartChart(w) \/ Accept(w) \/ Reject(w)
         \/ SaveContinuation(w) \/ SyncContinuation(w) \/ Stop(w)
  \/ LosePower

AdjointSpec == AdjointInit /\ [][AdjointNext]_adjointVars

------------------------------------------------------------------------------
Moving(p) == {i \in DOMAIN p.legs : ~p.legs[i].still}

(* Where a leg is entered, and the ends of the path: legs 0 and n + 1.      *)
Gate(leg) == [leg |-> leg, from |-> 0, to |-> Ticks]

(* On the same leg from where c ends, or from the start of the next leg    *)
(* that moves.                                                             *)
Follows(p, c, d) ==
  IF d.leg = c.leg THEN d.from = c.to
  ELSE /\ c.to = Ticks /\ d.from = 0
       /\ c.leg < d.leg /\ \A i \in Moving(p) : i <= c.leg \/ d.leg <= i

Before(path, n) == IF n = 1 THEN Gate(0) ELSE path[n - 1]

(* The charts of a path walk every leg that moves from its start to its    *)
(* end, leg after leg, no farther than they reach and within the budget.   *)
Walked(p, path) ==
  /\ \A n \in DOMAIN path :
       /\ path[n].leg \in Moving(p) /\ Follows(p, Before(path, n), path[n])
       /\ path[n].to - path[n].from \in 1..p.legs[path[n].leg].reach[path[n].from]
       /\ n + p.charts \in DOMAIN path => path[n + p.charts].leg # path[n].leg
  /\ Follows(p, Before(path, Len(path) + 1), Gate(Len(p.legs) + 1))

(* No leg needs a smaller batch than a later one.                          *)
BatchesShrink(p) ==
  \A i, j \in Moving(p) :
    i < j => Fitting(p.rows, p.legs[j].fits) <= Fitting(p.rows, p.legs[i].fits)

Ended(w)   == walk[w].at \in {"done", "failed"}
Outcome(w) == <<walk[w].at, walk[w].path>>

(* Wherever runs were cut short and whatever of the file survived, a run   *)
(* that ends has walked the whole path once; and all runs of a problem end *)
(* alike, with the same charts in the same batches, or fail at the same    *)
(* chart - the budgets do not start again.  The last where no leg reduces  *)
(* the batch for a later one: see SameFuture.                              *)
ResumeContinues ==
  /\ \A w \in Runner : walk[w].at = "done" => Walked(problem, walk[w].path)
  /\ BatchesShrink(problem) =>
       \A v, w \in Runner : Ended(v) /\ Ended(w) => Outcome(v) = Outcome(w)

(* "Keeping its parameterization preserves the subsequent finite Taylor    *)
(* polynomials" (adjoint_transport.hpp:54): a resumed run takes the charts *)
(* the uninterrupted one takes, and ends as it does.                       *)
Charts(path) == [n \in DOMAIN path |-> <<path[n].leg, path[n].from, path[n].to>>]
SameFuture ==
  \A v, w \in Runner : Ended(v) /\ Ended(w) =>
    walk[v].at = walk[w].at /\ Charts(walk[v].path) = Charts(walk[w].path)
==============================================================================

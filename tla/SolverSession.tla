---------------------------- MODULE SolverSession ----------------------------
(***************************************************************************)
(* One persistent solver session of the native kernel: the handle          *)
(* registries of struct SolverSession, the pending counters that reserve   *)
(* room in them, and every request that reads or changes them.             *)
(*                                                                         *)
(* A request holds session->mutex only for short critical sections.  It    *)
(* finds the session, is admitted (resolves its sources to strong owners,  *)
(* tests the capacity, draws handles, reserves), computes without the      *)
(* mutex, and then publishes its results or gives its reservation back.    *)
(* Each critical section is one action.  Two requests interleave between   *)
(* any two of their sections.                                              *)
(*                                                                         *)
(* Handles are the numbers of the next_* counters.  The coefficient data   *)
(* behind a handle is not modelled.  prepared stands for the three keyed   *)
(* caches (charts, regular equations, SCCs): some owner is registered.     *)
(* Tiles added to a stream change only the stream (module PairStream).     *)
(***************************************************************************)
EXTENDS Integers, FiniteSets, Sequences

CONSTANTS
  Call,       \* the client requests that may be in flight together
  Ops,        \* the operations those requests ask for (run_one_tile_arm and
              \* run_one_tile_arms are run_arm and run_arms over one tile)
  Capacity,   \* the *_capacity fields, by kind of handle
  MaxHandle,  \* bound, by kind: next_* issues no handle above it
  MaxBatch    \* bound: columns, runs, observables or matches of one request

Kind == {"local", "match", "endpoint", "tile", "state", "line"}

ASSUME CapacityAssumption == Capacity \in [Kind -> Nat]
ASSUME BoundAssumption == MaxHandle \in [Kind -> Nat] /\ MaxBatch \in Nat
ASSUME CallAssumption == IsFiniteSet(Call)

VARIABLES
  listed,    \* find_session still finds the session in the registry
  closed,    \* SolverSession::closed
  prepared,  \* some chart, regular equation owner or SCC is registered
  next,      \* next_local, next_match, ...: the next handle of each kind
  reg,       \* locals, matches, ...: the visible handles of each kind
  pending,   \* pending_local_solves, pending_matches, ...
  streams,   \* line handles of the live streams (transport_pair_streams)
  call,      \* what each request holds between its critical sections
  heirs      \* history: <<consumed local, results that consumed it>>

vars == <<listed, closed, prepared, next, reg, pending, streams, call, heirs>>

------------------------------------------------------------------------------
(* The state of a request.  held is its reservation; yield is what its     *)
(* publication registers; checks are the locals whose owner publication    *)
(* compares again; spends are the locals publication erases; route is the  *)
(* receiving bases a consuming march has still to use.                     *)

Phase == {"idle", "entered", "evaluating", "working", "marching", "matching",
          "aborting", "closing"}

Nothing == [k \in Kind |-> {}]
None    == [k \in Kind |-> 0]

Idle == [at |-> "idle", held |-> Nothing, yield |-> Nothing,
         checks |-> {}, spends |-> {}, route |-> <<>>]

InFlight(c) == call[c].at \in {"working", "marching", "matching"}

(* Handles reserved: by a request in flight, or by a live stream.          *)
Reserved(k) == (UNION {call[c].held[k] : c \in Call})
                 \cup (IF k = "line" THEN streams ELSE {})

(* Locals reserved by every request but the hops that spend their basis.   *)
PlainLocals == UNION {call[c].held["local"] : c \in {d \in Call : call[d].spends = {}}}

Init ==
  /\ listed = TRUE
  /\ closed = FALSE
  /\ prepared = FALSE
  /\ next = [k \in Kind |-> 1]
  /\ reg = Nothing
  /\ pending = None
  /\ streams = {}
  /\ call = [c \in Call |-> Idle]
  /\ heirs = {}

------------------------------------------------------------------------------
(* Admission.                                                              *)

(* find_session under the registry mutex.                                  *)
Enter(c) ==
  /\ call[c].at = "idle"
  /\ listed
  /\ call' = [call EXCEPT ![c].at = "entered"]
  /\ UNCHANGED <<listed, closed, prepared, next, reg, pending, streams, heirs>>

(* A request that throws, or only reads, before it changes anything.       *)
Refuse(c) ==
  /\ call[c].at \in {"entered", "evaluating"}
  /\ call' = [call EXCEPT ![c] = Idle]
  /\ UNCHANGED <<listed, closed, prepared, next, reg, pending, streams, heirs>>

Entered(c, op) == op \in Ops /\ call[c].at = "entered"
Open(c, op)    == Entered(c, op) /\ ~closed
Visible(k)     == reg[k] # {}

(* Mutant: the test forgets what other requests were promised.             *)
FitsRegistered(need) ==
  \A k \in Kind : need[k] > 0 => Cardinality(reg[k]) + need[k] <= Capacity[k]

(* The capacity test of every admission that reserves.                     *)
Fits(need) ==
  \A k \in Kind :
    need[k] > 0 => Cardinality(reg[k]) + pending[k] + need[k] <= Capacity[k]

Issued(need) == [k \in Kind |-> next[k] .. (next[k] + need[k] - 1)]

Draw(need) ==
  /\ \A k \in Kind : next[k] + need[k] <= MaxHandle[k] + 1
  /\ next' = [k \in Kind |-> next[k] + need[k]]

(* Count handles pending and go on without the mutex.                      *)
Hold(c, need, yield, checks, spends) ==
  /\ pending' = [k \in Kind |-> pending[k] + need[k]]
  /\ call' = [call EXCEPT ![c] =
       [at |-> "working", held |-> Issued(need), yield |-> yield,
        checks |-> checks, spends |-> spends, route |-> <<>>]]
  /\ UNCHANGED <<listed, closed, prepared, reg, streams, heirs>>

Reserve(c, need, yield, checks, spends) ==
  Fits(need) /\ Draw(need) /\ Hold(c, need, yield, checks, spends)

Admit(c, need) == Reserve(c, need, Issued(need), {}, {})

------------------------------------------------------------------------------
(* Requests that publish every handle they reserve.                        *)

Locals(n)    == [None EXCEPT !["local"] = n]
Matches(n)   == [None EXCEPT !["match"] = n]
Endpoints(n) == [None EXCEPT !["endpoint"] = n]
Tiles(n)     == [None EXCEPT !["tile"] = n]
Lines(n)     == [None EXCEPT !["line"] = n]

(* The two solves do not test closed; closing also empties the caches.     *)
SccSolveColumn(c) ==
  Entered(c, "scc.solve_column") /\ prepared /\ Admit(c, Locals(1))
LocalSolve(c) ==
  Entered(c, "local.solve") /\ prepared /\ Admit(c, Locals(1))

SccSolveColumns(c) ==
  /\ Open(c, "scc.solve_columns") /\ prepared
  /\ \E n \in 1..MaxBatch : Admit(c, Locals(n))
LocalSolveBatch(c) ==
  /\ Open(c, "local.solve_batch") /\ prepared
  /\ \E n \in 1..MaxBatch : Admit(c, Locals(n))
SpecializeRationalShadow(c) ==
  Open(c, "local.specialize_rational_shadow") /\ prepared /\ Admit(c, Locals(1))
ApplyRationalRow(c) ==
  Open(c, "local.apply_rational_row") /\ Visible("local") /\ Admit(c, Locals(1))
MaterializeLocal(c) ==
  Open(c, "match.materialize_local") /\ Visible("match") /\ Admit(c, Locals(1))

LocalMatch(c) ==
  /\ Open(c, "local.match") /\ Cardinality(reg["local"]) > 1
  /\ Admit(c, Matches(1))
LocalMatchAcb(c) ==
  /\ Open(c, "local.match_acb") /\ Cardinality(reg["local"]) > 1
  /\ Admit(c, Matches(1))
TileMatchAdvance(c) ==
  /\ Open(c, "tile.match_advance") /\ Visible("tile") /\ Cardinality(reg["local"]) > 1
  /\ Admit(c, Matches(1))

EndpointLimit(c) ==
  Open(c, "local.endpoint_limit") /\ Visible("local") /\ Admit(c, Endpoints(1))
TileEndpointLimit(c) ==
  /\ Open(c, "tile.endpoint_limit") /\ Visible("tile") /\ Visible("local")
  /\ Admit(c, Endpoints(1))
EndpointBatch(c) ==
  /\ Open(c, "transport.endpoint_batch")
  /\ Visible("state") \/ (Visible("tile") /\ Visible("local"))
  /\ \E n \in 1..MaxBatch : Admit(c, Endpoints(n))

TilePlan(c)    == Open(c, "tile.plan") /\ prepared /\ Admit(c, Tiles(1))
TilePlanArm(c) == Open(c, "tile.plan_arm") /\ prepared /\ Admit(c, Tiles(1))

IntegrationLine(c) ==
  /\ Open(c, "integration.line") /\ Visible("tile") /\ Visible("local")
  /\ Admit(c, Lines(1))
Contract(c) ==
  /\ Open(c, "transport.contract") /\ Visible("state")
  /\ \E n \in 1..MaxBatch : Admit(c, Lines(n))
ContractPair(c) ==
  /\ Open(c, "transport.contract_pair") /\ Cardinality(reg["state"]) > 1
  /\ \E n \in 1..MaxBatch : Admit(c, Lines(n))

------------------------------------------------------------------------------
(* Whole arms.  Only the terminal objects are published, the matches and   *)
(* locals of the march stay private.  An arm of one tile has no match: its *)
(* final local is the anchor the request resolved when it was admitted.    *)

RunArms(c) ==
  /\ Open(c, "transport.run_arms") /\ Visible("tile") /\ Visible("local")
  /\ \E m \in 0..MaxBatch :
       LET need == [None EXCEPT !["match"] = m, !["local"] = m, !["state"] = 2]
       IN  Reserve(c, need, [Nothing EXCEPT !["state"] = Issued(need)["state"]], {}, {})

RunArm(c) ==
  /\ Open(c, "transport.run_arm") /\ Visible("tile") /\ Visible("local")
  /\ \E m \in 1..MaxBatch :
       LET need == [None EXCEPT !["match"] = m, !["local"] = m, !["state"] = 1]
       IN  Reserve(c, need,
                [Nothing EXCEPT !["state"] = Issued(need)["state"],
                                !["local"] = {next["local"] + m - 1}], {}, {})

RunOneTileArm(c) ==
  /\ Open(c, "transport.run_one_tile_arm") /\ Visible("tile")
  /\ \E anchor \in reg["local"] :
       LET need == [None EXCEPT !["state"] = 1]
       IN  Reserve(c, need,
                [Nothing EXCEPT !["state"] = Issued(need)["state"],
                                !["local"] = {anchor}], {}, {})

(* The handles of the lower arm, then of the upper arm: its m matched      *)
(* locals, then its m + 1 row locals.                                      *)
MarchArms(c, anchor, lower, upper) ==
  LET need   == [None EXCEPT !["match"] = lower + upper,
                             !["local"] = 2 * (lower + upper) + 2, !["line"] = 3]
      finals == {IF lower = 0 THEN anchor ELSE next["local"] + lower - 1,
                 IF upper = 0 THEN anchor ELSE next["local"] + 2 * lower + upper}
  IN  Reserve(c, need,
        [Nothing EXCEPT !["line"] = Issued(need)["line"], !["local"] = finals], {}, {})

IntegrationRunArms(c) ==
  /\ Open(c, "integration.run_arms") /\ Visible("tile")
  /\ \E anchor \in reg["local"], lower, upper \in 1..MaxBatch :
       MarchArms(c, anchor, lower, upper)

IntegrationRunOneTileArms(c) ==
  /\ Open(c, "integration.run_one_tile_arms") /\ Visible("tile")
  /\ \E anchor \in reg["local"], lower, upper \in 0..MaxBatch :
       0 \in {lower, upper} /\ MarchArms(c, anchor, lower, upper)

------------------------------------------------------------------------------
(* Hops.  A consuming hop is admitted with a credit for the basis it will  *)
(* erase; a value hop erases nothing.  Both publish only over the very     *)
(* owners they were admitted with.                                         *)

ConsumeHop(c) ==
  /\ Open(c, "transport.consume_hop") /\ Visible("tile")
  /\ \E basis \in (SUBSET reg["local"]) \ {{}} :
       /\ reg["local"] # basis
       /\ Cardinality(reg["local"]) - Cardinality(basis) + pending["local"] + 1
            <= Capacity["local"]
       /\ Draw([None EXCEPT !["local"] = 1, !["match"] = 1])
       /\ Hold(c, Locals(1), Issued(Locals(1)), basis, basis)

(* A value hop resolves its incoming local in one section, decides if it   *)
(* is eligible, and reserves in another that does not resolve it again.    *)
ConsumeValueHop(c) ==
  /\ Open(c, "transport.consume_value_hop") /\ Visible("tile")
  /\ \E incoming \in reg["local"] :
       call' = [call EXCEPT ![c].at = "evaluating", ![c].checks = {incoming}]
  /\ UNCHANGED <<listed, closed, prepared, next, reg, pending, streams, heirs>>

ConsumePhysicalValueHop(c) ==
  /\ Open(c, "transport.consume_physical_value_hop") /\ Visible("tile")
  /\ \E incoming \in reg["local"] :
       call' = [call EXCEPT ![c].at = "evaluating", ![c].checks = {incoming}]
  /\ UNCHANGED <<listed, closed, prepared, next, reg, pending, streams, heirs>>

ReserveValueHop(c) ==
  /\ call[c].at = "evaluating"
  /\ ~closed
  /\ Reserve(c, Locals(1), Issued(Locals(1)), call[c].checks, {})

(* Fold the locals of finished arms into one state for each arm; the       *)
(* anchor, tile 0 of each arm, is kept.                                    *)
PublishConsumedStates(c) ==
  /\ Open(c, "transport.publish_consumed_states") /\ Visible("tile")
  /\ \E anchor \in reg["local"], n \in 1..2 :
       \E tiles \in SUBSET (reg["local"] \ {anchor}) :
         LET need == [None EXCEPT !["state"] = n]
         IN  Reserve(c, need, Issued(need), tiles, tiles)

------------------------------------------------------------------------------
(* transport.run_arms_consuming.  It draws every handle first and then     *)
(* tests the room for two states, against the registered states only; it   *)
(* reserves nothing.  Its hops run one after the other, lower arm first.   *)

RunArmsConsuming(c) ==
  /\ Open(c, "transport.run_arms_consuming") /\ Visible("tile") /\ Visible("local")
  /\ \E m \in 0..MaxBatch : \E route \in [1..m -> (SUBSET reg["local"]) \ {{}}] :
       /\ Draw([None EXCEPT !["match"] = m, !["local"] = m, !["state"] = 2])
       /\ \/ /\ Cardinality(reg["state"]) + 2 <= Capacity["state"]
             /\ call' = [call EXCEPT ![c] =
                  [at |-> IF m = 0 THEN "working" ELSE "marching", held |-> Nothing,
                   yield |-> [Nothing EXCEPT
                                !["state"] = {next["state"], next["state"] + 1}],
                   checks |-> {}, spends |-> {}, route |-> route]]
          \/ /\ Cardinality(reg["state"]) + 2 > Capacity["state"]
             /\ call' = [call EXCEPT ![c] = Idle]
  /\ UNCHANGED <<listed, closed, prepared, reg, pending, streams, heirs>>

(* First section of a hop: resolve the receiving basis.                    *)
MarchResolve(c) ==
  /\ call[c].at = "marching"
  /\ ~closed
  /\ Head(call[c].route) \subseteq reg["local"]
  /\ call' = [call EXCEPT ![c].at = "matching"]
  /\ UNCHANGED <<listed, closed, prepared, next, reg, pending, streams, heirs>>

LastUses(route) ==
  {h \in Head(route) : \A i \in 2..Len(route) : h \notin route[i]}

(* Second section: erase the basis locals no later hop of either arm uses. *)
MarchCommit(c) ==
  /\ call[c].at = "matching"
  /\ LET route == call[c].route
         last  == LastUses(route)
     IN  /\ last \subseteq reg["local"]
         /\ reg' = [reg EXCEPT !["local"] = @ \ last]
         /\ heirs' = heirs \cup (last \X {call[c].yield})
         /\ call' = [call EXCEPT
              ![c].at = IF Len(route) = 1 THEN "working" ELSE "marching",
              ![c].route = Tail(route)]
  /\ UNCHANGED <<listed, closed, prepared, next, pending, streams>>

(* Another request erased a basis local meanwhile: the columns before it   *)
(* are gone, and the march fails.                                          *)
MarchLosesBasis(c) ==
  /\ call[c].at = "matching"
  /\ LET last == LastUses(call[c].route)
     IN  /\ ~(last \subseteq reg["local"])
         /\ \E erased \in SUBSET (last \cap reg["local"]) :
              reg' = [reg EXCEPT !["local"] = @ \ erased]
  /\ call' = [call EXCEPT ![c] = Idle]
  /\ UNCHANGED <<listed, closed, prepared, next, pending, streams, heirs>>

------------------------------------------------------------------------------
(* Publication and failure: each gives the whole reservation back.         *)

(* Mutant: only what the request publishes is given back.                  *)
SettlePublished(c) ==
  /\ pending' = [k \in Kind |->
       pending[k] - Cardinality(call[c].held[k] \cap call[c].yield[k])]
  /\ call' = [call EXCEPT ![c] = Idle]

Settle(c) ==
  /\ pending' = [k \in Kind |-> pending[k] - Cardinality(call[c].held[k])]
  /\ call' = [call EXCEPT ![c] = Idle]

Register(c, spends) ==
  /\ Settle(c)
  /\ reg' = [k \in Kind |->
       (IF k = "local" THEN reg[k] \ spends ELSE reg[k]) \cup call[c].yield[k]]
  /\ heirs' = heirs \cup (call[c].spends \X {call[c].yield})
  /\ UNCHANGED <<listed, closed, prepared, next, streams>>

(* Mutants: publication into a closed session, over owners that changed,   *)
(* and without erasing the basis.                                          *)
PublishIntoClosed(c) ==
  /\ call[c].at = "working" /\ call[c].checks \subseteq reg["local"]
  /\ Register(c, call[c].spends)
PublishUnchecked(c) ==
  /\ call[c].at = "working" /\ ~closed
  /\ Register(c, call[c].spends)
PublishKeepsBasis(c) ==
  /\ call[c].at = "working" /\ ~closed
  /\ call[c].checks \subseteq reg["local"]
  /\ Register(c, {})

Publish(c) ==
  /\ call[c].at = "working"
  /\ ~closed
  /\ call[c].checks \subseteq reg["local"]
  /\ Register(c, call[c].spends)

(* The computation failed, the session closed meanwhile, or an owner that  *)
(* publication compares again has changed.                                 *)
Fail(c) ==
  /\ InFlight(c)
  /\ Settle(c)
  /\ UNCHANGED <<listed, closed, prepared, next, reg, streams, heirs>>

------------------------------------------------------------------------------
(* Transport-pair streams.  A live stream keeps one line reserved between  *)
(* requests; the request that erases it from the map takes it over.        *)

StartStream(c) ==
  /\ Fits(Lines(1))
  /\ Draw(Lines(1))
  /\ \/ /\ streams' = streams \cup {next["line"]}
        /\ pending' = [pending EXCEPT !["line"] = @ + 1]
     \/ UNCHANGED <<streams, pending>>  \* its constructor rejects the request
  /\ call' = [call EXCEPT ![c] = Idle]
  /\ UNCHANGED <<listed, closed, prepared, reg, heirs>>

RollingStreamBegin(c) ==
  /\ Open(c, "transport.contract_pair_rolling_stream_begin")
  /\ Visible("tile") /\ Visible("local")
  /\ StartStream(c)

StreamBegin(c) ==
  /\ Open(c, "transport.contract_pair_stream_begin")
  /\ streams = {}
  /\ Cardinality(reg["state"]) > 1
  /\ StartStream(c)

TakeStream(c, line, at, yield) ==
  /\ streams' = streams \ {line}
  /\ call' = [call EXCEPT ![c] =
       [at |-> at, held |-> [Nothing EXCEPT !["line"] = {line}], yield |-> yield,
        checks |-> {}, spends |-> {}, route |-> <<>>]]
  /\ UNCHANGED <<listed, closed, prepared, next, reg, pending, heirs>>

StreamAbort(c) ==
  /\ Entered(c, "transport.contract_pair_stream_abort")
  /\ \E line \in streams : TakeStream(c, line, "aborting", Nothing)

StreamFinish(c) ==
  /\ Open(c, "transport.contract_pair_stream_finish")
  /\ \E line \in streams :
       TakeStream(c, line, "working", [Nothing EXCEPT !["line"] = {line}])

(* Mutant: the reservation of an aborted stream is forgotten.              *)
StreamAbortedKeeps(c) ==
  /\ call[c].at = "aborting"
  /\ call' = [call EXCEPT ![c] = Idle]
  /\ UNCHANGED <<listed, closed, prepared, next, reg, pending, streams, heirs>>

(* The second section of an abort, after stream->abort().                  *)
StreamAborted(c) ==
  /\ call[c].at = "aborting"
  /\ Settle(c)
  /\ UNCHANGED <<listed, closed, prepared, next, reg, streams, heirs>>

------------------------------------------------------------------------------
(* Caches, releases, and the end of the session.                           *)

(* chart.prepare, regular_equation.prepare, scc.prepare: the publication   *)
(* section.  That of chart.prepare does not test closed.                   *)
Prepare(c) ==
  /\ Entered(c, "prepare")
  /\ prepared' = TRUE
  /\ call' = [call EXCEPT ![c] = Idle]
  /\ UNCHANGED <<listed, closed, next, reg, pending, streams, heirs>>

(* chart.release, regular_equation.release, scc.release                    *)
ReleasePrepared(c) ==
  /\ Entered(c, "prepared.release")
  /\ prepared
  /\ prepared' \in BOOLEAN
  /\ call' = [call EXCEPT ![c] = Idle]
  /\ UNCHANGED <<listed, closed, next, reg, pending, streams, heirs>>

Release(c, k) ==
  /\ \E h \in reg[k] : reg' = [reg EXCEPT ![k] = @ \ {h}]
  /\ call' = [call EXCEPT ![c] = Idle]
  /\ UNCHANGED <<listed, closed, prepared, next, pending, streams, heirs>>

LocalRelease(c)       == Entered(c, "local.release") /\ Release(c, "local")
MatchRelease(c)       == Entered(c, "match.release") /\ Release(c, "match")
EndpointRelease(c)    == Entered(c, "endpoint.release") /\ Release(c, "endpoint")
TileRelease(c)        == Entered(c, "tile.release") /\ Release(c, "tile")
TransportRelease(c)   == Entered(c, "transport.release") /\ Release(c, "state")
IntegrationRelease(c) == Entered(c, "integration.release") /\ Release(c, "line")

(* session.close: erase the session from the registry, ...                 *)
CloseBegin(c) ==
  /\ "session.close" \in Ops
  /\ call[c].at = "idle"
  /\ listed
  /\ listed' = FALSE
  /\ call' = [call EXCEPT ![c].at = "closing"]
  /\ UNCHANGED <<closed, prepared, next, reg, pending, streams, heirs>>

(* Mutant: closing resets the pending counters of requests in flight.      *)
CloseEndResets(c) ==
  /\ call[c].at = "closing"
  /\ closed' = TRUE
  /\ prepared' = FALSE
  /\ reg' = Nothing
  /\ pending' = None
  /\ streams' = {}
  /\ call' = [call EXCEPT ![c] = Idle]
  /\ UNCHANGED <<listed, next, heirs>>

(* ... then close it.  Requests in flight keep their reservations.         *)
CloseEnd(c) ==
  /\ call[c].at = "closing"
  /\ closed' = TRUE
  /\ prepared' = FALSE
  /\ reg' = Nothing
  /\ pending' = [pending EXCEPT !["line"] = @ - Cardinality(streams)]
  /\ streams' = {}
  /\ call' = [call EXCEPT ![c] = Idle]
  /\ UNCHANGED <<listed, next, heirs>>

(* reset_solver_sessions: drop the registry's reference, close nothing.    *)
Reset ==
  /\ "reset" \in Ops
  /\ listed
  /\ listed' = FALSE
  /\ UNCHANGED <<closed, prepared, next, reg, pending, streams, call, heirs>>

------------------------------------------------------------------------------
Solve(c) ==
  \/ SccSolveColumn(c)  \/ SccSolveColumns(c) \/ LocalSolve(c)
  \/ LocalSolveBatch(c) \/ SpecializeRationalShadow(c)
  \/ ApplyRationalRow(c) \/ MaterializeLocal(c)
  \/ LocalMatch(c) \/ LocalMatchAcb(c) \/ TileMatchAdvance(c)
  \/ EndpointLimit(c) \/ TileEndpointLimit(c) \/ EndpointBatch(c)
  \/ TilePlan(c) \/ TilePlanArm(c)
  \/ IntegrationLine(c) \/ Contract(c) \/ ContractPair(c)

Arm(c) ==
  \/ RunArms(c) \/ RunArm(c) \/ RunOneTileArm(c)
  \/ IntegrationRunArms(c) \/ IntegrationRunOneTileArms(c)

Hop(c) ==
  \/ ConsumeHop(c) \/ PublishConsumedStates(c)
  \/ ConsumeValueHop(c) \/ ConsumePhysicalValueHop(c) \/ ReserveValueHop(c)

March(c) ==
  RunArmsConsuming(c) \/ MarchResolve(c) \/ MarchCommit(c) \/ MarchLosesBasis(c)

Stream(c) ==
  \/ RollingStreamBegin(c) \/ StreamBegin(c)
  \/ StreamAbort(c) \/ StreamAborted(c) \/ StreamFinish(c)

Retire(c) ==
  \/ Prepare(c) \/ ReleasePrepared(c)
  \/ LocalRelease(c) \/ MatchRelease(c) \/ EndpointRelease(c)
  \/ TileRelease(c) \/ TransportRelease(c) \/ IntegrationRelease(c)

Next ==
  \/ Reset
  \/ \E c \in Call :
       \/ Enter(c) \/ Refuse(c) \/ Publish(c) \/ Fail(c)
       \/ Solve(c) \/ Arm(c) \/ Hop(c) \/ March(c) \/ Stream(c) \/ Retire(c)
       \/ CloseBegin(c) \/ CloseEnd(c)

(* A request that has started goes on: its thread is scheduled, and the    *)
(* numeric work between two critical sections ends.                        *)
Advance(c) ==
  \/ Refuse(c) \/ Publish(c) \/ Fail(c) \/ StreamAborted(c) \/ CloseEnd(c)
  \/ MarchResolve(c) \/ MarchCommit(c) \/ MarchLosesBasis(c)

Spec == Init /\ [][Next]_vars /\ \A c \in Call : WF_vars(Advance(c))

------------------------------------------------------------------------------
(* Properties.                                                             *)

CallRecord ==
  [at : Phase, held : [Kind -> SUBSET Nat], yield : [Kind -> SUBSET Nat],
   checks : SUBSET Nat, spends : SUBSET Nat, route : Seq(SUBSET Nat)]

(* Every variable has its type (SUBSET Nat and Seq are tested by element). *)
TypeOK ==
  /\ listed \in BOOLEAN /\ closed \in BOOLEAN /\ prepared \in BOOLEAN
  /\ next \in [Kind -> Nat \ {0}]
  /\ reg \in [Kind -> SUBSET Nat]
  /\ pending \in [Kind -> Nat]
  /\ streams \in SUBSET Nat
  /\ call \in [Call -> CallRecord]
  /\ heirs \subseteq Nat \X [Kind -> SUBSET Nat]

(* Every pending counter is the number of results that requests in flight  *)
(* and live streams still owe: no path gives a reservation back twice,     *)
(* forgets it, or underflows, whatever close, abort and finish overlap.    *)
Accounting ==
  \A k \in Kind : pending[k] = Cardinality(Reserved(k))

(* Every handle in use was issued, and nothing but a request at work or    *)
(* aborting has a reservation.                                             *)
HandlesIssued ==
  /\ \A k \in Kind : reg[k] \subseteq 1..(next[k] - 1)
  /\ \A c \in Call, k \in Kind :
       call[c].held[k] \cup call[c].yield[k] \subseteq 1..(next[k] - 1)
  /\ streams \subseteq 1..(next["line"] - 1)

OnlyWorkHolds ==
  \A c \in Call :
    /\ call[c].at \notin {"working", "aborting"} => call[c].held = Nothing
    /\ call[c].at \in {"marching", "matching"} => call[c].route # <<>>

(* No handle is promised twice, or both promised and registered.           *)
HandlesApart ==
  \A c \in Call :
    /\ \A k \in Kind : call[c].held[k] \cap reg[k] = {}
    /\ \A d \in Call \ {c} : \A k \in Kind :
         call[c].held[k] \cap (call[d].held[k] \cup call[d].yield[k]) = {}
    /\ streams \cap (call[c].held["line"] \cup call[c].yield["line"] \cup reg["line"]) = {}

(* Whatever two requests overlap, the handles they were promised belong to *)
(* them alone.  With TypeOK and Accounting this is inductive.              *)
Ledger == HandlesIssued /\ OnlyWorkHolds /\ HandlesApart

(* Registered and promised objects of these kinds fit the capacity, so a   *)
(* publication needs no second test (the one in transport.endpoint_batch   *)
(* never fails) and no interleaving of requests overfills a registry.      *)
SharedCapacity ==
  \A k \in {"match", "endpoint", "tile", "line"} :
    Cardinality(reg[k]) + pending[k] <= Capacity[k]

(* Registered locals, and those promised by everything but consuming hops, *)
(* fit: a hop's credit for the basis it will erase never lets it, or the   *)
(* requests beside it, overfill the registry.  run_arm of one tile escapes *)
(* (it registers its anchor without a reservation).                        *)
LocalCapacity ==
  Cardinality(reg["local"]) + Cardinality(PlainLocals) <= Capacity["local"]

(* Registered and promised transport states fit, where no request is       *)
(* run_arms_consuming (which reserves nothing).                            *)
StateCapacity ==
  Cardinality(reg["state"]) + pending["state"] <= Capacity["state"]

(* Nothing that was in flight when the session closed registers an object  *)
(* or starts a stream in the closed session.                               *)
ClosedIsEmpty ==
  closed => reg = Nothing /\ streams = {}

(* Each local that hops, folds and marches consume enters exactly one      *)
(* transported result, and is not visible afterwards, where no request     *)
(* marches an arm of one tile (it registers its anchor again).             *)
ConsumedOnce ==
  \A p, q \in heirs :
    p[1] = q[1] => p[2] = q[2] /\ p[1] \notin reg["local"]

(* After close every reservation comes back, and none is made again.       *)
DrainsAfterClose ==
  closed ~> [](pending = None)
==============================================================================

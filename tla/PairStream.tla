------------------------------ MODULE PairStream ------------------------------
(***************************************************************************)
(* One TransportPairObservableStream and the requests that reach it: tiles *)
(* are added one by one, in order, until the stream is finished into a     *)
(* published line, aborted, or closed with its session.                    *)
(*                                                                         *)
(* A request takes the stream from the session's registry under            *)
(* session->mutex, and then works on it under the stream's own mutex_;     *)
(* each of these sections is one action.  add_tile_from_source and finish  *)
(* hold mutex_ through all their numeric work.                             *)
(***************************************************************************)
EXTENDS Integers, FiniteSets, Sequences

CONSTANTS
  Caller,     \* requests that may be in flight together
  Expected  \* expected_tiles_: the tiles of the lower and of the upper arm

Side == {1, 2}  \* lower, upper

ASSUME ExpectedAssumption == Expected \in [Side -> Nat \ {0}]

VARIABLES
  rolling,    \* rolling_: tiles come from march locals, not from arm states
  closed,     \* SolverSession::closed
  present,    \* the stream is in transport_pair_streams
  pending,    \* pending_line_integrations of this stream
  line,       \* the line was published in line_results
  status,     \* status_
  next,       \* next_tiles_
  summed,     \* the tiles in accumulators_, in the order they were added
  terminals,  \* the sides of rolling_terminals_ that are set
  call        \* what each request does

streamVars ==
  <<rolling, closed, present, pending, line, status, next, summed, terminals, call>>

Idle == [at |-> "idle", side |-> 0, tile |-> 0]

StreamInit ==
  /\ rolling \in BOOLEAN
  /\ closed = FALSE /\ present = TRUE /\ pending = 1 /\ line = FALSE
  /\ status = "active"
  /\ next = [s \in Side |-> 0]
  /\ summed = [s \in Side |-> <<>>]
  /\ terminals = {}
  /\ call = [c \in Caller |-> Idle]

Goes(c, at) == call' = [call EXCEPT ![c].at = at]
Ends(c)     == call' = [call EXCEPT ![c] = Idle]

------------------------------------------------------------------------------
(* add_tile, add_rolling_tile                                              *)

AddFind(c) ==
  /\ call[c].at = "idle"
  /\ ~closed /\ present
  /\ \E s \in Side : \E t \in 0..(Expected[s] - 1) :
       call' = [call EXCEPT ![c] = [at |-> "adding", side |-> s, tile |-> t]]
  /\ UNCHANGED <<closed, present, pending, line, status, next, summed, terminals>>

ExpectedSide == IF next[1] < Expected[1] THEN 1 ELSE 2

InOrder(s, t) == s = ExpectedSide /\ next[s] < Expected[s] /\ t = next[s]

Accepts(s, t) == status = "active" /\ InOrder(s, t)

AddRefused(c) ==
  /\ call[c].at = "adding"
  /\ ~Accepts(call[c].side, call[c].tile)
  /\ Ends(c)
  /\ UNCHANGED <<closed, present, pending, line, status, next, summed, terminals>>

IsLast(s, t) == t + 1 = Expected[s]

(* The tile is integrated and added.  A rolling stream keeps the local of  *)
(* the last tile of a side, after mutex_ is released.                      *)
AddTile(c) ==
  /\ call[c].at = "adding"
  /\ LET s == call[c].side
         t == call[c].tile
     IN  /\ Accepts(s, t)
         /\ next' = [next EXCEPT ![s] = @ + 1]
         /\ summed' = [summed EXCEPT ![s] = Append(@, t)]
         /\ IF rolling /\ IsLast(s, t) THEN Goes(c, "keeping") ELSE Ends(c)
  /\ UNCHANGED <<closed, present, pending, line, status, terminals>>

(* Mutant: the stream goes on after a failure.                             *)
AddFailsQuietly(c) ==
  /\ call[c].at = "adding"
  /\ Accepts(call[c].side, call[c].tile)
  /\ summed' = [summed EXCEPT ![call[c].side] = Append(@, call[c].tile)]
  /\ Ends(c)
  /\ UNCHANGED <<closed, present, pending, line, status, next, terminals>>

(* Whatever fails before or after the sum is updated poisons the stream.   *)
AddFails(c) ==
  /\ call[c].at = "adding"
  /\ Accepts(call[c].side, call[c].tile)
  /\ \/ summed' = [summed EXCEPT ![call[c].side] = Append(@, call[c].tile)]
     \/ UNCHANGED summed
  /\ status' = "poisoned"
  /\ Ends(c)
  /\ UNCHANGED <<closed, present, pending, line, next, terminals>>

KeepTerminal(c) ==
  /\ call[c].at = "keeping"
  /\ terminals' = terminals \cup {call[c].side}
  /\ Ends(c)
  /\ UNCHANGED <<closed, present, pending, line, status, next, summed>>

------------------------------------------------------------------------------
(* transport.contract_pair_stream_finish                                   *)

Take(c, at) ==
  /\ present
  /\ present' = FALSE
  /\ Goes(c, at)

FinishTake(c) ==
  /\ call[c].at = "idle"
  /\ ~closed
  /\ Take(c, "finishing")
  /\ UNCHANGED <<closed, pending, line, status, next, summed, terminals>>

AllAdded == next = Expected

Finishable == status = "active" /\ AllAdded

(* finish builds the line, or throws and is poisoned: also when a rolling  *)
(* stream has no terminal local.                                           *)
FinishBuilds(c) ==
  /\ call[c].at = "finishing"
  /\ Finishable
  /\ rolling => terminals = Side
  /\ status' = "finished"
  /\ Goes(c, "publishing")
  /\ UNCHANGED <<closed, present, pending, line, next, summed, terminals>>

FinishThrows(c) ==
  /\ call[c].at = "finishing"
  /\ status' = IF Finishable THEN "poisoned" ELSE status
  /\ Goes(c, "releasing")
  /\ UNCHANGED <<closed, present, pending, line, next, summed, terminals>>

(* The reservation comes back with the line, or without it.                *)
FinishPublishes(c) ==
  /\ call[c].at = "publishing"
  /\ pending' = pending - 1
  /\ line' = (IF closed THEN line ELSE TRUE)
  /\ Ends(c)
  /\ UNCHANGED <<closed, present, status, next, summed, terminals>>

(* The line does not reach the accuracy it was asked for.                  *)
FinishInaccurate(c) ==
  /\ call[c].at = "publishing"
  /\ Goes(c, "releasing")
  /\ UNCHANGED <<closed, present, pending, line, status, next, summed, terminals>>

(* Mutant: a finish that threw keeps its reservation.                      *)
ReleaseForgets(c) ==
  /\ call[c].at = "releasing"
  /\ Ends(c)
  /\ UNCHANGED <<closed, present, pending, line, status, next, summed, terminals>>

(* release_reservation, and the second section of an abort                 *)
Release(c) ==
  /\ call[c].at = "releasing"
  /\ pending' = pending - 1
  /\ Ends(c)
  /\ UNCHANGED <<closed, present, line, status, next, summed, terminals>>

------------------------------------------------------------------------------
(* transport.contract_pair_stream_abort and session.close                  *)

(* Mutant: the stream is found, and stays in the registry.                 *)
AbortFinds(c) ==
  /\ call[c].at = "idle"
  /\ present
  /\ Goes(c, "aborting")
  /\ UNCHANGED <<closed, present, pending, line, status, next, summed, terminals>>

AbortTake(c) ==
  /\ call[c].at = "idle"
  /\ Take(c, "aborting")
  /\ UNCHANGED <<closed, pending, line, status, next, summed, terminals>>

Aborts == status # "finished" /\ status' = "aborted"

Abort(c) ==
  /\ call[c].at = "aborting"
  /\ Aborts
  /\ Goes(c, "releasing")
  /\ UNCHANGED <<closed, present, pending, line, next, summed, terminals>>

Close(c) ==
  /\ call[c].at = "idle"
  /\ ~closed
  /\ closed' = TRUE
  /\ present' = FALSE
  /\ line' = FALSE
  /\ IF present
     THEN pending' = pending - 1 /\ Goes(c, "dropping")
     ELSE UNCHANGED <<pending, call>>
  /\ UNCHANGED <<status, next, summed, terminals>>

Drop(c) ==
  /\ call[c].at = "dropping"
  /\ Aborts
  /\ Ends(c)
  /\ UNCHANGED <<closed, present, pending, line, next, summed, terminals>>

------------------------------------------------------------------------------
Add(c)    == AddFind(c) \/ AddRefused(c) \/ AddTile(c) \/ AddFails(c) \/ KeepTerminal(c)
Finish(c) == \/ FinishTake(c) \/ FinishBuilds(c) \/ FinishThrows(c)
             \/ FinishPublishes(c) \/ FinishInaccurate(c) \/ Release(c)
End(c)    == AbortTake(c) \/ Abort(c) \/ Close(c) \/ Drop(c)

StreamNext ==
  /\ \E c \in Caller : Add(c) \/ Finish(c) \/ End(c)
  /\ UNCHANGED rolling

Advance(c) ==
  /\ \/ AddRefused(c) \/ AddTile(c) \/ AddFails(c) \/ KeepTerminal(c)
     \/ FinishBuilds(c) \/ FinishThrows(c) \/ FinishPublishes(c) \/ Release(c)
     \/ Abort(c) \/ Drop(c)
  /\ UNCHANGED rolling

(* A request in flight goes on; its numeric work ends.                     *)
StreamSpec ==
  StreamInit /\ [][StreamNext]_streamVars /\ \A c \in Caller : WF_streamVars(Advance(c))

------------------------------------------------------------------------------
(* Properties.                                                             *)

At == {"idle", "adding", "keeping", "finishing", "publishing", "releasing",
       "aborting", "dropping"}
Status == {"active", "poisoned", "finished", "aborted"}

(* Every variable has its type.                                            *)
StreamTypeOK ==
  /\ rolling \in BOOLEAN /\ closed \in BOOLEAN /\ present \in BOOLEAN /\ line \in BOOLEAN
  /\ pending \in {0, 1}
  /\ status \in Status
  /\ next \in [Side -> Nat]
  /\ summed \in [Side -> Seq(Nat)]
  /\ terminals \subseteq Side
  /\ call \in [Caller -> [at : At, side : 0..2, tile : Nat]]

(* A published line sums every tile of both arms exactly once, in order,   *)
(* whatever clients repeat, omit or overlap, and whatever tile failed with *)
(* its sum half updated.                                                   *)
EveryTileOnce ==
  line \/ status = "finished" =>
    \A s \in Side : summed[s] = [i \in 1..Expected[s] |-> i - 1]

(* One request ends the stream: abort and close never meet a finished      *)
(* stream ("finished transport-pair stream cannot be aborted" is out of    *)
(* reach), and no line is published twice or without a reservation.        *)
OneEnding ==
  /\ Cardinality({c \in Caller :
       call[c].at \in {"finishing", "publishing", "releasing", "aborting", "dropping"}})
       + (IF present THEN 1 ELSE 0) <= 1
  /\ present => pending = 1
  /\ line => pending = 0

(* A rolling stream that is finished after its last tile has both terminal *)
(* locals ("lost a terminal compact owner" is out of reach).               *)
TerminalsKept ==
  \A c \in Caller :
    rolling /\ call[c].at = "finishing" /\ Finishable => terminals = Side

(* Once the stream was taken from the registry its reservation comes back. *)
ReservationReturns == ~present ~> pending = 0
==============================================================================

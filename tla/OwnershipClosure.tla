--------------------------- MODULE OwnershipClosure ---------------------------
(***************************************************************************)
(* What a checkpoint holds.  The objects of a session keep each other      *)
(* alive; a client releases handles, which only takes them out of the      *)
(* registries.  make_checkpoint_snapshot writes down every object that a   *)
(* registered one still needs, and restore_checkpoint builds them again,   *)
(* one by one, and takes the unregistered ones out of the registries.      *)
(* SessionCheckpoint says when a save may happen; this module says what is *)
(* saved.  A save and the restore of its file are one step here, and the   *)
(* restored session carries on.                                            *)
(*                                                                         *)
(* A handle is <<kind, number>>.  The record of an object says what its    *)
(* constructor was given; which of it the object retains is Retained.  A   *)
(* "chart" stands for a regular equation owner as well: the two differ in  *)
(* the prefix of the handle.                                               *)
(***************************************************************************)
EXTENDS Naturals, FiniteSetsExt, Functions

CONSTANTS
  ChartKey,   \* keys of chart.prepare
  Programs    \* what clients do: the operations one uses (ops), the kinds of
              \* object it never releases (keeps), and a bound on the objects
              \* it makes, the first ones included (made)

ASSUME ProgramsAssumption == \A p \in Programs : p.made \in Nat

(* A result is an endpoint or a line.                                      *)
ObjectKind == {"chart", "scc", "tile", "local", "match", "state", "result"}
NoKey == "no key"

VARIABLES
  objects,   \* handle -> record, for every object that is still owned
  visible,   \* handles in the session's registries
  issued,    \* the number of the last handle, of each kind
  program    \* what this client does

sessionVars == <<objects, visible, issued, program>>

(* The fields that hold handles are empty unless given.                    *)
Bare == [key |-> NoKey, owner |-> {}, plan |-> {}, basis |-> {}, from |-> {},
         through |-> {}, terminal |-> {}, shadow |-> FALSE]

Object(form, fields) ==
  [f \in DOMAIN Bare \cup {"form"} |->
     IF f = "form" THEN form ELSE IF f \in DOMAIN fields THEN fields[f] ELSE Bare[f]]

------------------------------------------------------------------------------
(* Ownership.                                                              *)

(* The strong pointers of an object.  A local whose lineage is sealed let  *)
(* go of its match, plan and incoming local, and names them still; an Acb  *)
(* match and a free endpoint are values.                                   *)
Retained(o) ==
  CASE o.form \in {"acb match", "free endpoint"} -> {}
    [] o.form = "sealed"  -> o.owner \cup o.terminal
    [] o.form = "handoff" -> o.owner
    [] OTHER -> o.owner \cup o.plan \cup o.basis \cup o.from \cup o.through \cup o.terminal

(* What the snapshot follows: not the match attached to a sealed local.    *)
Followed(o) == IF o.form = "sealed" THEN o.owner ELSE Retained(o)

(* What restore looks up before it builds the object: a handoff needs the  *)
(* plan and the incoming local that its record names.                      *)
Needed(o) ==
  CASE o.form = "handoff" -> o.owner \cup o.plan \cup o.from
    [] o.form = "sealed"  -> o.owner
    [] OTHER -> Retained(o)

(* Everything reached from the handles: no set that is closed under the    *)
(* edges leaves it out.                                                    *)
ReachedFrom(edges, first) ==
  LET others == DOMAIN edges \ first
      Closed(S) == \A h \in first \cup S : edges[h] \subseteq first \cup S
  IN  first \cup {h \in others : \A S \in SUBSET (others \ {h}) : ~Closed(S)}

Owned(made, named) == ReachedFrom([h \in DOMAIN made |-> Retained(made[h])], named)

------------------------------------------------------------------------------
(* The operations, from admission to publication.  Their overlaps are the  *)
(* subject of SolverSession.                                               *)

Visible(kind) == {h \in visible : h[1] = kind}
Held(form)    == {h \in visible : objects[h].form = form}
KeysHeld(kind, named) == {objects[h].key : h \in {g \in named : g[1] = kind}}

Made == MapThenSumSet(LAMBDA k : issued[k], ObjectKind)

Fresh(kind) == <<kind, issued[kind] + 1>>

(* New objects, and the handles registered or erased with them.            *)
Publish(new, shown, spent) ==
  LET made  == [h \in DOMAIN objects \cup DOMAIN new |->
                  IF h \in DOMAIN new THEN new[h] ELSE objects[h]]
      named == (visible \cup shown) \ spent
  IN  /\ UNCHANGED program
      /\ issued' = [k \in ObjectKind |-> issued[k] + Cardinality({h \in DOMAIN new : h[1] = k})]
      /\ Made + Cardinality(DOMAIN new) <= program.made
      /\ visible' = named
      /\ objects' = Restrict(made, Owned(made, named))

Register(kind, o) == Publish([h \in {Fresh(kind)} |-> o], {Fresh(kind)}, {})

(* chart.prepare: the key is free when its chart was released.             *)
PrepareChart ==
  \E key \in ChartKey \ KeysHeld("chart", visible) :
    Register("chart", Object("chart", [key |-> key]))

(* tile.plan: charts and composites of the arms.                           *)
PlanTile ==
  \E owners \in SUBSET (Visible("chart") \cup Visible("scc")) :
    owners # {} /\ Register("tile", Object("tile", [owner |-> owners]))

(* local.solve; scc.solve_columns, some of them with a rational shadow.    *)
SolveLocal ==
  \E c \in Visible("chart") : Register("local", Object("local", [owner |-> {c}]))
SolveColumn ==
  \E c \in Visible("scc"), exact \in BOOLEAN :
    Register("local", Object("local", [owner |-> {c}, shadow |-> exact]))

(* local.apply_rational_row                                                *)
ApplyRow ==
  \E l \in Visible("local") :
    Register("local", Object("row", [owner |-> objects[l].owner, from |-> {l}]))

(* local.match and local.match_acb                                         *)
MatchLocals ==
  \E basis, from \in Visible("local") : basis # from /\
    \/ Register("match", Object("exact match", [basis |-> {basis}, from |-> {from}]))
    \/ Register("match", Object("acb match", [basis |-> {basis}, from |-> {from}]))

(* Two locals of one plan, as a hop joins them: the basis column of the    *)
(* receiving chart and the local that comes in.                            *)
Joins(plan, basis, from) ==
  /\ basis # from
  /\ objects[basis].owner \cup objects[from].owner \subseteq objects[plan].owner
  /\ objects[basis].owner # {} /\ objects[from].owner # {}

(* tile.match_advance                                                      *)
AdvanceMatch ==
  \E plan \in Visible("tile"), basis, from \in Visible("local") :
    Joins(plan, basis, from)
    /\ Register("match", Object("hop", [plan |-> {plan}, basis |-> {basis}, from |-> {from}]))

BasisOwner(m) == UNION {objects[b].owner : b \in objects[m].basis}

(* match.materialize_local                                                 *)
Materialize ==
  \E m \in Held("hop") :
    Register("local", Object("derived", [owner |-> BasisOwner(m), through |-> {m}]))

(* transport.consume_hop: the basis is erased, the lineage sealed; a       *)
(* terminal hop stays attached to its local.                               *)
ConsumeHop ==
  \E plan \in Visible("tile"), basis, from \in Visible("local"), terminal \in BOOLEAN :
    /\ Joins(plan, basis, from)
    /\ LET m   == Fresh("match")
           l   == Fresh("local")
           hop == Object("hop", [plan |-> {plan}, basis |-> {basis}, from |-> {from}])
           out == Object("sealed", [owner |-> objects[basis].owner, plan |-> {plan},
                                    from |-> {from}, terminal |-> IF terminal THEN {m} ELSE {}])
       IN  Publish([h \in {m, l} |-> IF h = m THEN hop ELSE out], {l}, {basis})

(* transport.consume_value_hop, transport.consume_physical_value_hop: no   *)
(* basis; the incoming local stays.                                        *)
ValueHop ==
  \E plan \in Visible("tile"), from \in Visible("local") :
    \E owner \in {h \in objects[plan].owner : h[1] = "chart"} :
      /\ objects[from].owner # {} /\ objects[from].owner \subseteq objects[plan].owner
      /\ objects[from].form \notin {"row"}
      /\ Register("local",
           Object("handoff", [owner |-> {owner}, plan |-> {plan}, from |-> {from}]))

Locals == {h \in DOMAIN objects : h[1] = "local"}

(* The tiles of an arm, last to first: each sealed local comes from the    *)
(* one before it.                                                          *)
Chain(last) ==
  ReachedFrom([l \in Locals |->
                 IF objects[l].form \in {"sealed", "handoff"} THEN objects[l].from \cap Locals ELSE {}],
              {last})

(* transport.publish_consumed_state                                        *)
PublishState ==
  \E plan \in Visible("tile"), last \in Held("sealed") \cup Held("handoff") :
    LET tiles   == Chain(last)
        carried == {l \in tiles : objects[l].form \in {"sealed", "handoff"}}
        state   == Object("state", [plan |-> {plan}, from |-> tiles,
                                    terminal |-> objects[last].terminal])
    IN  /\ tiles \subseteq visible
        /\ \A l \in carried : objects[l].plan = {plan} /\ objects[l].from \subseteq visible
        /\ Publish([h \in {Fresh("state")} |-> state], {Fresh("state")}, carried)

(* transport.run_arm, of one hop, registers its last local as well;        *)
(* transport.run_arms leaves it to the state.                              *)
RunArm ==
  \E plan \in Visible("tile"), basis, from \in Visible("local") :
    /\ Joins(plan, basis, from)
    /\ LET m == Fresh("match")
           l == Fresh("local")
           s == Fresh("state")
           hop   == Object("hop", [plan |-> {plan}, basis |-> {basis}, from |-> {from}])
           tile  == Object("derived", [owner |-> objects[basis].owner, through |-> {m}])
           state == Object("state", [plan |-> {plan}, basis |-> {basis}, from |-> {from, l},
                                     through |-> {m}])
           made  == [h \in {m, l, s} |-> CASE h = m -> hop [] h = l -> tile [] h = s -> state]
       IN  \E shown \in {{s}, {s, l}} : Publish(made, shown, {})

(* local.endpoint_limit; tile.endpoint_limit, integration.line.            *)
TakeResult ==
  \/ \E l \in Visible("local") :
       Register("result", Object("free endpoint", [from |-> {l}]))
  \/ \E plan \in Visible("tile"), l \in Visible("local") :
       Register("result", Object("planned", [plan |-> {plan}, from |-> {l}]))

(* transport.contract, and the endpoints of a state.                       *)
ContractState ==
  \E s \in Visible("state") :
    Register("result", Object("of state", [through |-> {s}]))

(* Any release command: the handle goes, the object stays while it is      *)
(* owned.                                                                  *)
ReleaseHandle ==
  \E h \in {g \in visible : g[1] \notin program.keeps} :
    /\ visible' = visible \ {h}
    /\ objects' = Restrict(objects, Owned(objects, visible'))
    /\ UNCHANGED <<issued, program>>

------------------------------------------------------------------------------
(* make_checkpoint_snapshot.                                               *)

Items == ReachedFrom([h \in DOMAIN objects |-> Followed(objects[h])], visible)

(* Terminal matches that a state alone keeps.                              *)
SpentMatches(items) == UNION {objects[h].terminal : h \in {g \in items : g[1] = "state"}} \ visible

BasesOf(matches) == UNION {objects[m].basis : m \in matches}
OtherMatches(items) == {h \in items : h[1] = "match"} \ SpentMatches(items)

(* Mutant: a basis column is spent though another match has it too.        *)
SpentBasisShared(items) == BasesOf(SpentMatches(items)) \ visible

(* Their basis columns, unless another match may still use them.           *)
SpentBasis(items) ==
  (BasesOf(SpentMatches(items)) \ visible) \ BasesOf(OtherMatches(items))

(* A rational shadow is live-only: its local is written when it is spent.  *)
Savable(items) == {h \in items : objects[h].shadow} \subseteq SpentBasis(items)

------------------------------------------------------------------------------
(* restore_checkpoint.                                                     *)

Replayed(items)       == {h \in items : h[1] \in {"chart", "scc", "tile"}}
OfForm(items, forms)  == {h \in items : objects[h].form \in forms}
FirstPass(items)      == OfForm(items, {"local", "sealed", "handoff"})
Pending(items)        == OfForm(items, {"exact match", "hop", "row", "derived"})
Finds(items, there)   == \A h \in items : Needed(objects[h]) \subseteq there

(* chart.prepare and scc.prepare run again, in the order of the handles: a *)
(* key that is taken already returns the other handle, or fails.           *)
KeysDistinct(items) ==
  \A g, h \in items : g # h /\ g[1] = h[1] /\ objects[g].key # NoKey
                        => objects[g].key # objects[h].key

(* The first pass installs locals in the order of their handles.           *)
FirstPassFinds(items) ==
  \A l \in FirstPass(items) :
    Finds({l}, Replayed(items) \cup {k \in FirstPass(items) : k[2] < l[2]})

(* Matches and derived locals are installed when what they need is there,  *)
(* until a walk over them installs nothing.                                *)
WalkPending(ready, pending) ==
  LET Stuck(S) == \A h \in pending \ S : ~(Needed(objects[h]) \subseteq ready \cup S)
  IN  ready \cup {h \in pending : \A S \in SUBSET (pending \ {h}) : ~Stuck(S)}

Accepted(items) ==
  LET ready  == Replayed(items) \cup FirstPass(items) \cup OfForm(items, {"acb match"})
      built  == WalkPending(ready, Pending(items))
      states == {h \in items : h[1] = "state"}
  IN  /\ KeysDistinct(items)
      /\ Finds(Replayed(items), Replayed(items))
      /\ FirstPassFinds(items)
      /\ Pending(items) \subseteq built
      /\ Finds(states, built)
      /\ Finds({h \in items : h[1] = "result"}, built \cup states)

(* The live-only parts are not restored.                                   *)
Rebuilt(o) ==
  [o EXCEPT !.shadow = FALSE, !.terminal = IF o.form = "sealed" THEN {} ELSE @]

RestoredObjects(items) == [h \in items |-> Rebuilt(objects[h])]

(* The registries keep what was registered.                                *)
RestoredVisible(items) == items \cap visible

SaveAndRestore ==
  LET items == Items
      made  == RestoredObjects(items)
  IN  /\ Savable(items) /\ Accepted(items)
      /\ objects' = Restrict(made, Owned(made, RestoredVisible(items)))
      /\ visible' = RestoredVisible(items)
      /\ UNCHANGED <<issued, program>>

------------------------------------------------------------------------------
(* A session that has prepared a chart, a composite of it, a plan over     *)
(* both and a local.                                                       *)
FirstObjects ==
  LET c == <<"chart", 1>>  s == <<"scc", 1>>  t == <<"tile", 1>>  l == <<"local", 1>>
  IN  [h \in {c, s, t, l} |->
         CASE h = c -> Object("chart", [key |-> CHOOSE k \in ChartKey : TRUE])
           [] h = s -> Object("scc", [key |-> "composite", owner |-> {c}])
           [] h = t -> Object("tile", [owner |-> {c, s}])
           [] h = l -> Object("local", [owner |-> {c}])]

ClosureInit ==
  /\ objects = FirstObjects
  /\ visible = DOMAIN FirstObjects
  /\ issued = [k \in ObjectKind |-> Cardinality({h \in DOMAIN FirstObjects : h[1] = k})]
  /\ program \in Programs

Uses(op) == op \in program.ops

ClosureNext ==
  \/ Uses("chart.prepare") /\ PrepareChart
  \/ Uses("tile.plan") /\ PlanTile
  \/ Uses("local.solve") /\ SolveLocal
  \/ Uses("scc.solve_columns") /\ SolveColumn
  \/ Uses("local.apply_rational_row") /\ ApplyRow
  \/ Uses("local.match") /\ MatchLocals
  \/ Uses("tile.match_advance") /\ AdvanceMatch
  \/ Uses("match.materialize_local") /\ Materialize
  \/ Uses("transport.consume_hop") /\ ConsumeHop
  \/ Uses("transport.consume_value_hop") /\ ValueHop
  \/ Uses("transport.publish_consumed_state") /\ PublishState
  \/ Uses("transport.run_arm") /\ RunArm
  \/ Uses("local.endpoint_limit") /\ TakeResult
  \/ Uses("transport.contract") /\ ContractState
  \/ ReleaseHandle
  \/ SaveAndRestore

ClosureSpec == ClosureInit /\ [][ClosureNext]_sessionVars

------------------------------------------------------------------------------
(* The two causes for which a file that was saved is refused: the key of a *)
(* released chart was taken again while the chart is owned, or a handoff   *)
(* names a plan or a local that is gone, or that comes later.              *)
KeyTakenAgain(items) == ~KeysDistinct(items)
HandoffUnfed(items) ==
  \E l \in OfForm(items, {"handoff"}) :
    ~(objects[l].plan \cup objects[l].from \subseteq Replayed(items) \cup FirstPass(items))

(* What a client, or a match that is not spent, may take as a basis.       *)
Usable(items) == visible \cup BasesOf(OtherMatches(items))

(* A session that can be saved comes back with the same handles registered *)
(* and every object under the same owners, and without a rational shadow   *)
(* that could still be used; or its file is refused for one of two causes. *)
(* A match attached to a registered sealed local is not among the objects: *)
(* no client reaches it, and the snapshot leaves it out.                   *)
RestoresWhole ==
  LET items == Items
  IN  Savable(items) =>
        \/ KeyTakenAgain(items) \/ HandoffUnfed(items)
        \/ /\ Accepted(items)
           /\ RestoredVisible(items) = visible
           /\ Owned(RestoredObjects(items), RestoredVisible(items)) = items
           /\ \A l \in items \cap Usable(items) : ~objects[l].shadow

(* Every session that can be saved can be restored: what a client released *)
(* and another object needs is in the file.                                *)
SurvivesRelease == LET items == Items IN Savable(items) => Accepted(items)
==============================================================================

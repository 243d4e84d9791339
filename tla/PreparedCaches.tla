---------------------------- MODULE PreparedCaches ----------------------------
(***************************************************************************)
(* The objects a session prepares once and finds again by key: charts,     *)
(* composite SCC charts, and regular equation owners.  A prepare request   *)
(* looks its key up under session->mutex, takes a handle in a second       *)
(* section, builds without the mutex, and publishes in a third; between    *)
(* any two of them other requests prepare, release and close.              *)
(*                                                                         *)
(* A key, and the signature of everything the object is made from, are     *)
(* values; what a chart contains is left out.                              *)
(***************************************************************************)
EXTENDS Naturals, FiniteSets

CONSTANTS
  Client,     \* prepare requests, each a thread
  Key, Sign,  \* cache keys and signatures
  Asks,       \* what the requests may ask: functions from Client to Calls
  Room,       \* chart_capacity, scc_capacity
  Absent      \* no handle, no object

CacheKind == {"equation", "chart", "scc"}

(* Which of the three test session->closed when they take a handle and     *)
(* when they publish, and which test the capacity again.                   *)
ClosedAtIssue   == {"scc"}
ClosedAtPublish == {"equation", "scc"}
RoomAtPublish   == {"scc"}

VARIABLES
  listed,    \* the session is in the session registry
  closed,    \* session->closed
  stored,    \* stored[k]: the objects of kind k by handle, as key and signature
  byKey,     \* byKey[k]: handle of each key
  issue,     \* next_chart, next_scc, next_regular_equation_owner
  call,      \* what each client asks: kind, key, signature, SCC block
  stage,     \* the section each client is before
  handle,    \* the handle each client was given
  reply      \* what each client was answered

cacheVars == <<listed, closed, stored, byKey, issue, call, stage, handle, reply>>

Entry(key, sign) == [key |-> key, sign |-> sign]
Handles == 1..Cardinality(Client)
Calls == [kind : CacheKind, key : Key, sign : Sign]
Reply == {"none", "reused", "made", "unknown", "collision", "full", "closed", "threw"}

ASSUME CacheAssumption ==
  /\ IsFiniteSet(Client) /\ Asks \subseteq [Client -> Calls] /\ Room \in Nat
  /\ Absent \notin Handles /\ Absent \notin [key : Key, sign : Sign]

CacheTypeOK ==
  /\ listed \in BOOLEAN /\ closed \in BOOLEAN
  /\ stored \in [CacheKind -> [Handles -> [key : Key, sign : Sign] \cup {Absent}]]
  /\ byKey \in [CacheKind -> [Key -> Handles \cup {Absent}]]
  /\ issue \in [CacheKind -> 1..(Cardinality(Client) + 1)]
  /\ call \in [Client -> Calls]
  /\ stage \in [Client -> {"find", "lookup", "issue", "build", "publish", "done"}]
  /\ handle \in [Client -> Handles \cup {Absent}]
  /\ reply \in [Client -> Reply]

CacheInit ==
  /\ listed = TRUE /\ closed = FALSE
  /\ stored = [k \in CacheKind |-> [h \in Handles |-> Absent]]
  /\ byKey = [k \in CacheKind |-> [x \in Key |-> Absent]]
  /\ issue = [k \in CacheKind |-> 1]
  /\ call \in Asks
  /\ stage = [c \in Client |-> "find"]
  /\ handle = [c \in Client |-> Absent]
  /\ reply = [c \in Client |-> "none"]

------------------------------------------------------------------------------
Stored(k) == {h \in Handles : stored[k][h] # Absent}
Found(c) == byKey[call[c].kind][call[c].key]

Answer(c, what, h) ==
  /\ stage' = [stage EXCEPT ![c] = "done"]
  /\ reply' = [reply EXCEPT ![c] = what]
  /\ handle' = [handle EXCEPT ![c] = h]

GoOn(c, place) ==
  /\ stage' = [stage EXCEPT ![c] = place]
  /\ UNCHANGED <<reply, handle>>

(* find_session: a session that was closed is no longer found.             *)
FindSession(c) ==
  /\ stage[c] = "find"
  /\ IF listed THEN GoOn(c, "lookup") ELSE Answer(c, "unknown", Absent)
  /\ UNCHANGED <<listed, closed, stored, byKey, issue, call>>

\* Mutant: the key alone decides.
MeetsKeyOnly(c) == Answer(c, "reused", Found(c))

(* A key that is taken answers with its object when the signatures agree.  *)
MeetsKey(c) ==
  IF stored[call[c].kind][Found(c)].sign = call[c].sign
  THEN Answer(c, "reused", Found(c)) ELSE Answer(c, "collision", Absent)

Lookup(c) ==
  /\ stage[c] = "lookup"
  /\ IF Found(c) # Absent THEN MeetsKey(c)
     ELSE IF Cardinality(Stored(call[c].kind)) >= Room THEN Answer(c, "full", Absent)
     ELSE GoOn(c, "issue")
  /\ UNCHANGED <<listed, closed, stored, byKey, issue, call>>

(* The second section.  scc.prepare also resolves the charts of its        *)
(* diagonal blocks, one of which may be gone.                              *)
Issue(c) ==
  LET k == call[c].kind IN
  /\ stage[c] = "issue"
  /\ \/ /\ k \in ClosedAtIssue /\ closed
        /\ Answer(c, "closed", Absent) /\ UNCHANGED issue
     \/ /\ k = "scc" /\ ~closed /\ Stored("chart") = {}
        /\ Answer(c, "unknown", Absent) /\ UNCHANGED issue
     \/ /\ (k = "scc" => ~closed /\ Stored("chart") # {})
        /\ issue' = [issue EXCEPT ![k] = @ + 1]
        /\ handle' = [handle EXCEPT ![c] = issue[k]]
        /\ stage' = [stage EXCEPT ![c] = "build"] /\ UNCHANGED reply
  /\ UNCHANGED <<listed, closed, stored, byKey, call>>

Build(c) ==
  /\ stage[c] = "build"
  /\ GoOn(c, "publish") \/ Answer(c, "threw", Absent)
  /\ UNCHANGED <<listed, closed, stored, byKey, issue, call>>

\* Mutant: the session is not looked at again.
RefusedNever(c) == FALSE

(* The third section.                                                      *)
Refused(c) == call[c].kind \in ClosedAtPublish /\ closed

Overfull(c) == call[c].kind \in RoomAtPublish /\ Cardinality(Stored(call[c].kind)) >= Room

Insert(c) ==
  /\ stored' = [stored EXCEPT ![call[c].kind][handle[c]] = Entry(call[c].key, call[c].sign)]
  /\ byKey' = [byKey EXCEPT ![call[c].kind][call[c].key] = handle[c]]

PublishPrepared(c) ==
  /\ stage[c] = "publish"
  /\ \/ Refused(c) /\ Answer(c, "closed", Absent) /\ UNCHANGED <<stored, byKey>>
     \/ ~Refused(c) /\ Found(c) # Absent /\ MeetsKey(c) /\ UNCHANGED <<stored, byKey>>
     \/ /\ ~Refused(c) /\ Found(c) = Absent /\ Overfull(c)
        /\ Answer(c, "full", Absent) /\ UNCHANGED <<stored, byKey>>
     \/ /\ ~Refused(c) /\ Found(c) = Absent /\ ~Overfull(c)
        /\ Insert(c) /\ Answer(c, "made", handle[c])
  /\ UNCHANGED <<listed, closed, issue, call>>

------------------------------------------------------------------------------
(* chart.release, scc.release and regular_equation.release: the object and *)
(* the entry of its key go together.                                       *)
Released(k, h) == [byKey EXCEPT ![k][stored[k][h].key] = Absent]
ReleasePrepared(k, h) ==
  /\ listed /\ stored[k][h] # Absent
  /\ byKey' = Released(k, h)
  /\ stored' = [stored EXCEPT ![k][h] = Absent]
  /\ UNCHANGED <<listed, closed, issue, call, stage, handle, reply>>

(* session.close: out of the registry first, then emptied.                 *)
Unlist ==
  /\ listed /\ listed' = FALSE
  /\ UNCHANGED <<closed, stored, byKey, issue, call, stage, handle, reply>>

CloseSession ==
  /\ ~listed /\ ~closed /\ closed' = TRUE
  /\ stored' = [k \in CacheKind |-> [h \in Handles |-> Absent]]
  /\ byKey' = [k \in CacheKind |-> [x \in Key |-> Absent]]
  /\ UNCHANGED <<listed, issue, call, stage, handle, reply>>

CacheNext ==
  \/ \E c \in Client :
       FindSession(c) \/ Lookup(c) \/ Issue(c) \/ Build(c) \/ PublishPrepared(c)
  \/ \E k \in CacheKind, h \in Handles : ReleasePrepared(k, h)
  \/ Unlist \/ CloseSession

CacheSpec == CacheInit /\ [][CacheNext]_cacheVars

------------------------------------------------------------------------------
(* The index of a cache and its registry agree: every key leads to the     *)
(* object that was stored for it, every object is found by its key, and a  *)
(* client that was answered with an object still stored was answered  *)
(* with what it asked for, whichever of two overlapping requests was first.*)
KeyMeansObject ==
  /\ \A k \in CacheKind :
       /\ \A x \in Key : byKey[k][x] # Absent =>
            /\ stored[k][byKey[k][x]] # Absent
            /\ stored[k][byKey[k][x]].key = x
       /\ \A h \in Stored(k) : byKey[k][stored[k][h].key] = h
  /\ \A c \in Client :
       LET k == call[c].kind IN
       reply[c] \in {"reused", "made"} /\ stored[k][handle[c]] # Absent =>
         stored[k][handle[c]] = Entry(call[c].key, call[c].sign)

(* What overlapping requests can do to the limits: composite charts never  *)
(* exceed their capacity, and a closed session keeps neither an equation   *)
(* owner nor a composite chart, whatever was being built when it closed.   *)
(* The other two caches do not test their capacity when they publish, nor  *)
(* charts whether the session was closed, and may exceed it and outlive it.*)
LateGuards ==
  /\ Cardinality(Stored("scc")) <= Room
  /\ closed => Stored("equation") = {} /\ Stored("scc") = {}
===============================================================================

---------------------------- MODULE RecursiveCache ----------------------------
(***************************************************************************)
(* ImmutableRecursiveCache: immutable values built once for each key by    *)
(* builders that run outside the cache mutex and may ask the same cache    *)
(* for other keys.  Callers of a key in flight wait for its one builder;   *)
(* a wait that would close a cycle is refused before it begins.            *)
(*                                                                         *)
(* Each critical section of get_or_build is one action of a thread.  A     *)
(* thread has a stack of frames, the innermost get_or_build first: the     *)
(* builder of the frame below called it.  The value of a key is the build  *)
(* state that made it.  The counters of stats() are left out.              *)
(***************************************************************************)
EXTENDS Naturals, FiniteSets, Sequences

CONSTANTS
  Thread,    \* threads that call the cache
  Key,       \* keys
  Deps,      \* the keys each builder asks for, in order
  Contract,  \* contracts a caller may present for a key
  Build,     \* BuildState objects (reused once nothing refers to them)
  Nobody     \* no thread, and no build

ASSUME DepsAssumption == Deps \in [Key -> Seq(Key)]
ASSUME NobodyAssumption == Nobody \notin Thread \cup Build
ASSUME ThreadAssumption == IsFiniteSet(Thread)

VARIABLES
  entries,  \* entries_: the build retained for a key
  build,    \* BuildState: contract, phase, owner, waiters
  waitFor,  \* wait_for_: the edge of a thread that waits
  stack,    \* the get_or_build calls of each thread, innermost first
  answers,  \* history: <<key, value>> of the calls that returned one
  refused   \* history: keys refused with ImmutableCacheCycleError

vars == <<entries, build, waitFor, stack, answers, refused>>

NoEdge == [owner |-> Nobody, build |-> Nobody]
Unused == [contract |-> Nobody, phase |-> "none", owner |-> Nobody, waiters |-> {}]

Init ==
  /\ entries = [k \in Key |-> Nobody]
  /\ build = [b \in Build |-> Unused]
  /\ waitFor = [t \in Thread |-> NoEdge]
  /\ stack = [t \in Thread |-> <<>>]
  /\ answers = {}
  /\ refused = {}

------------------------------------------------------------------------------
(* Frames.  at is "asking" before the first critical section, "waiting" on *)
(* the condition variable, "building" in the builder, and "failing" in a   *)
(* builder that an exception leaves.                                       *)

Busy(t) == stack[t] # <<>>
Top(t)  == Head(stack[t])

Asks(t)   == Busy(t) /\ Top(t).at = "asking"
Waits(t)  == Busy(t) /\ Top(t).at = "waiting"
Builds(t) == Busy(t) /\ Top(t).at = "building"

Frame(k, c) == [key |-> k, contract |-> c, at |-> "asking", build |-> Nobody, left |-> <<>>]

Retop(t, frame) == stack' = [stack EXCEPT ![t] = <<frame>> \o Tail(@)]

(* The innermost call returns: its caller, if any, has one key less to ask *)
(* for.  Or it throws: the builder that called it is left by the exception.*)
Returns(t) ==
  LET s == stack[t]
  IN  stack' = [stack EXCEPT ![t] =
        IF Len(s) = 1 THEN <<>>
        ELSE <<[s[2] EXCEPT !.left = Tail(s[2].left)]>> \o SubSeq(s, 3, Len(s))]
Throws(t) ==
  LET s == stack[t]
  IN  stack' = [stack EXCEPT ![t] =
        IF Len(s) = 1 THEN <<>>
        ELSE <<[s[2] EXCEPT !.at = "failing"]>> \o SubSeq(s, 3, Len(s))]

------------------------------------------------------------------------------
(* The wait graph.                                                         *)

(* The threads register_wait_locked visits, from the owner of the build.   *)
Chain(first) ==
  LET visit[n \in 0..Cardinality(Thread)] ==
        IF n = 0 THEN first
        ELSE IF visit[n - 1] = Nobody THEN Nobody ELSE waitFor[visit[n - 1]].owner
  IN  {visit[n] : n \in 0..Cardinality(Thread)} \ {Nobody}

(* Mutant: only the caller's own builds are looked at.                     *)
CyclicOwnOnly(t, b) == build[b].owner = t

Cyclic(t, b) == t \in Chain(build[b].owner)

(* clear_waiters_locked                                                    *)
ClearWaiters(b) ==
  waitFor' = [t \in Thread |->
    IF t \in build[b].waiters /\ waitFor[t].build = b THEN NoEdge ELSE waitFor[t]]

------------------------------------------------------------------------------
(* get_or_build.                                                           *)

(* A call from outside, and a call by a builder.                           *)
Request(t) ==
  /\ ~Busy(t)
  /\ \E k \in Key, c \in Contract : stack' = [stack EXCEPT ![t] = <<Frame(k, c)>>]
  /\ UNCHANGED <<entries, build, waitFor, answers, refused>>

Recurse(t) ==
  /\ Builds(t) /\ Top(t).left # <<>>
  /\ \E c \in Contract :
       stack' = [stack EXCEPT ![t] = <<Frame(Head(Top(t).left), c)>> \o @]
  /\ UNCHANGED <<entries, build, waitFor, answers, refused>>

Found(t)    == Asks(t) /\ entries[Top(t).key] # Nobody
Retained(t) == build[entries[Top(t).key]]
Agreed(t)   == Found(t) /\ Retained(t).contract = Top(t).contract

ContractChanged(t) ==
  /\ Found(t) /\ Retained(t).contract # Top(t).contract
  /\ Throws(t)
  /\ UNCHANGED <<entries, build, waitFor, answers, refused>>

Hit(t) ==
  /\ Agreed(t) /\ Retained(t).phase = "ready"
  /\ answers' = answers \cup {<<Top(t).key, entries[Top(t).key]>>}
  /\ Returns(t)
  /\ UNCHANGED <<entries, build, waitFor, refused>>

RefuseCycle(t) ==
  /\ Agreed(t) /\ Retained(t).phase = "building"
  /\ Cyclic(t, entries[Top(t).key])
  /\ refused' = refused \cup {Top(t).key}
  /\ Throws(t)
  /\ UNCHANGED <<entries, build, waitFor, answers>>

Wait(t) ==
  /\ Agreed(t) /\ Retained(t).phase = "building"
  /\ LET b == entries[Top(t).key]
     IN  /\ ~Cyclic(t, b)
         /\ waitFor' = [waitFor EXCEPT ![t] = [owner |-> build[b].owner, build |-> b]]
         /\ build' = [build EXCEPT ![b].waiters = @ \cup {t}]
         /\ Retop(t, [Top(t) EXCEPT !.at = "waiting", !.build = b])
  /\ UNCHANGED <<entries, answers, refused>>

(* Mutant: whoever waited for a build that failed asks again.              *)
WakeRetries(t) ==
  /\ Waits(t)
  /\ LET b == Top(t).build
     IN  /\ build[b].phase # "building"
         /\ waitFor' = [waitFor EXCEPT ![t] = IF @.build = b THEN NoEdge ELSE @]
         /\ build' = [build EXCEPT ![b].waiters = @ \ {t}]
         /\ \/ /\ build[b].phase = "ready"
               /\ answers' = answers \cup {<<Top(t).key, b>>}
               /\ Returns(t)
            \/ /\ build[b].phase = "failed"
               /\ Retop(t, Frame(Top(t).key, Top(t).contract))
               /\ UNCHANGED answers
  /\ UNCHANGED <<entries, refused>>

(* The waiter has the mutex again, and its build is no longer in flight.   *)
Wake(t) ==
  /\ Waits(t)
  /\ LET b == Top(t).build
     IN  /\ build[b].phase # "building"
         /\ waitFor' = [waitFor EXCEPT ![t] = IF @.build = b THEN NoEdge ELSE @]
         /\ build' = [build EXCEPT ![b].waiters = @ \ {t}]
         /\ \/ /\ build[b].phase = "ready"
               /\ answers' = answers \cup {<<Top(t).key, b>>}
               /\ Returns(t)
            \/ /\ build[b].phase = "failed"
               /\ Throws(t)
               /\ UNCHANGED answers
  /\ UNCHANGED <<entries, refused>>

(* A BuildState lives while an entry, or a call, refers to it.  Which free *)
(* one a new build gets makes no difference.                               *)
Referred ==
  {entries[k] : k \in Key}
    \cup UNION {{stack[t][i].build : i \in 1..Len(stack[t])} : t \in Thread}

StartBuild(t) ==
  LET b == CHOOSE free \in Build \ Referred : TRUE
  IN  /\ Build \ Referred # {}
      /\ entries' = [entries EXCEPT ![Top(t).key] = b]
      /\ build' = [build EXCEPT ![b] =
           [contract |-> Top(t).contract, phase |-> "building", owner |-> t, waiters |-> {}]]
      /\ Retop(t, [Top(t) EXCEPT !.at = "building", !.build = b, !.left = Deps[Top(t).key]])
      /\ UNCHANGED <<waitFor, answers, refused>>

(* Mutant: a key in flight is built again.                                 *)
OwnInFlight(t) ==
  /\ Asks(t)
  /\ entries[Top(t).key] # Nobody => Retained(t).phase = "building"
  /\ StartBuild(t)

Own(t) ==
  /\ Asks(t) /\ entries[Top(t).key] = Nobody
  /\ StartBuild(t)

(* Mutant: completion leaves the edges of the waiters to the waiters.      *)
PublishKeepsEdges(t) ==
  /\ Builds(t) /\ Top(t).left = <<>>
  /\ LET b == Top(t).build
     IN  build' = [build EXCEPT ![b].phase = "ready", ![b].owner = Nobody, ![b].waiters = {}]
  /\ answers' = answers \cup {<<Top(t).key, Top(t).build>>}
  /\ Returns(t)
  /\ UNCHANGED <<entries, waitFor, refused>>

Publish(t) ==
  /\ Builds(t) /\ Top(t).left = <<>>
  /\ LET b == Top(t).build
     IN  /\ ClearWaiters(b)
         /\ build' = [build EXCEPT ![b].phase = "ready", ![b].owner = Nobody,
                                   ![b].waiters = {}]
  /\ answers' = answers \cup {<<Top(t).key, Top(t).build>>}
  /\ Returns(t)
  /\ UNCHANGED <<entries, refused>>

(* The builder throws, by itself or because a call it made threw.          *)
Fail(t) ==
  /\ Busy(t) /\ Top(t).at \in {"building", "failing"}
  /\ LET b == Top(t).build
     IN  /\ ClearWaiters(b)
         /\ build' = [build EXCEPT ![b].phase = "failed", ![b].owner = Nobody,
                                   ![b].waiters = {}]
  /\ entries' = [entries EXCEPT ![Top(t).key] = Nobody]
  /\ Throws(t)
  /\ UNCHANGED <<answers, refused>>

------------------------------------------------------------------------------
Call(t) ==
  \/ Recurse(t) \/ ContractChanged(t) \/ Hit(t) \/ RefuseCycle(t) \/ Wait(t)
  \/ Wake(t) \/ Own(t) \/ Publish(t) \/ Fail(t)

Next == \E t \in Thread : Request(t) \/ Call(t)

(* Builders end, and a notified waiter gets the mutex.                     *)
Spec == Init /\ [][Next]_vars /\ \A t \in Thread : WF_vars(Call(t))

------------------------------------------------------------------------------
(* Properties.                                                             *)

Phase == {"none", "building", "ready", "failed"}

FrameRecord ==
  [key : Key, contract : Contract, at : {"asking", "waiting", "building", "failing"},
   build : Build \cup {Nobody}, left : Seq(Key)]

BuildRecord ==
  [contract : Contract \cup {Nobody}, phase : Phase, owner : Thread \cup {Nobody},
   waiters : SUBSET Thread]

(* Every variable has its type.                                            *)
TypeOK ==
  /\ entries \in [Key -> Build \cup {Nobody}]
  /\ build \in [Build -> BuildRecord]
  /\ waitFor \in [Thread -> [owner : Thread \cup {Nobody}, build : Build \cup {Nobody}]]
  /\ stack \in [Thread -> Seq(FrameRecord)]
  /\ answers \subseteq Key \X Build
  /\ refused \subseteq Key

(* A thread that is in a builder owns the build of that key, the build is  *)
(* still retained, and nobody else builds it; an entry is a build in       *)
(* flight or a value.  So "lost ownership", "lost a failed build" and      *)
(* "retained a failed build" of get_or_build are out of reach.             *)
OwnsWhatItBuilds ==
  /\ \A k \in Key :
       entries[k] # Nobody => build[entries[k]].phase \in {"building", "ready"}
  /\ \A t \in Thread : \A i \in 1..Len(stack[t]) :
       stack[t][i].at \in {"building", "failing"} =>
         LET b == stack[t][i].build
         IN  entries[stack[t][i].key] = b /\ build[b].phase = "building" /\ build[b].owner = t

(* An edge of the wait graph is there exactly while its thread waits for a *)
(* build in flight, and it leads to the thread that builds it, so neither  *)
(* "already waits" nor "already cyclic" can be thrown.                     *)
EdgesExact ==
  \A t \in Thread :
    IF Waits(t) /\ build[Top(t).build].phase = "building"
    THEN /\ waitFor[t] = [owner |-> build[Top(t).build].owner, build |-> Top(t).build]
         /\ t \in build[Top(t).build].waiters
    ELSE waitFor[t] = NoEdge

(* No builders wait for each other in a circle.                            *)
NoWaitCircle ==
  \A t \in Thread :
    Waits(t) /\ build[Top(t).build].phase = "building"
      => t \notin Chain(build[Top(t).build].owner)

(* Whoever asks for a key, whenever, gets the same immutable value.        *)
AnswersAgree ==
  \A p, q \in answers : p[1] = q[1] => p[2] = q[2]

(* The entries, read as the table the cache promises.                      *)
Holds(k, phase) == entries[k] # Nobody /\ build[entries[k]].phase = phase

Made    == [k \in Key |-> IF Holds(k, "ready") THEN entries[k] ELSE Nobody]
Builder == [k \in Key |-> IF Holds(k, "building") THEN build[entries[k]].owner ELSE Nobody]

Table == INSTANCE MemoTable
           WITH Value <- Build, made <- Made, builder <- Builder

(* get_or_build implements the table: one builder of a key at a time, one  *)
(* value forever, whatever overlaps, fails or is retried.                  *)
ImplementsTable == Table!Spec

(* Keys a builder of k needs, directly or through other builders.          *)
DepsOf(k) == {Deps[k][i] : i \in 1..Len(Deps[k])}

Needs(k) ==
  {m \in Key : \A S \in SUBSET Key :
     DepsOf(k) \subseteq S /\ (\A j \in S : DepsOf(j) \subseteq S) => m \in S}

(* Only a key that truly depends on itself is ever refused as cyclic,      *)
(* however the builders of several threads overlap.                        *)
RefusalsReal == \A k \in refused : k \in Needs(k)

(* Every call returns or throws.                                           *)
CallsEnd == \A t \in Thread : Busy(t) ~> ~Busy(t)
==============================================================================

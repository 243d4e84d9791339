----------------------------- MODULE WorkerPools ------------------------------
(***************************************************************************)
(* The requests that start threads of their own.  A caller admits its      *)
(* request under the mutex of its session, starts workers that draw tasks  *)
(* from one counter, joins them, and publishes or gives its reservation    *)
(* back under the mutex.  The arms of integration.run_arms and             *)
(* transport.run_arms wait for each other at a gate and march one arm      *)
(* each.  session.checkpoint.save takes leases with the mutex held, the    *)
(* other requests the mutex with leases held.                              *)
(*                                                                         *)
(* A task is an index; that its computation throws is a choice made        *)
(* before the request.  Timing records are left out.                       *)
(***************************************************************************)
EXTENDS PrecisionLease

CONSTANTS
  Caller,     \* requests, each a thread
  Crew,       \* worker_count
  Task,       \* tasks of a request: 1..Task
  SessionOf,  \* the session of each caller
  Kinds,      \* Kinds[c]: the kinds of request c may be
  None        \* no worker's task, no failure

VARIABLES
  kind,     \* what each caller runs
  bad,      \* the tasks of each caller that throw
  at,       \* where each caller is
  mutex,    \* owner of session->mutex, if a caller keeps it
  made,     \* workers started
  unmade,   \* a worker could not be started
  next,     \* next
  worker,   \* worker[c][i]: where worker i of c is, and with which task
  runs,     \* runs[c][t]: executions of task t
  first,    \* worker_error: the first task that threw
  stop,     \* workers whose stop was requested
  ready,    \* workers_ready
  start,    \* workers_start
  asleep,   \* threads asleep on start_changed: caller or worker numbers
  outcome   \* what each caller returned

poolVars ==
  <<kind, bad, at, mutex, made, unmade, next, worker, runs, first, stop,
    ready, start, asleep, outcome>>
vars == <<poolVars, leaseVars>>

Worker == 1..Crew
Tasks  == 1..Task
ThreadOf(c, i) == <<c, i>>
Self(c) == <<c, 0>>
AllThreads == Caller \X (0..Crew)

(* worker_count is at most the number of tasks.                            *)
ASSUME PoolAssumption ==
  /\ Task \in Nat /\ Crew \in 1..Task /\ AllThreads \subseteq Thread
  /\ None \notin Tasks /\ None \notin Caller

(* Where the kinds of request differ: whether the caller holds a lease for *)
(* all of it, how many leases a task takes, whether its arms meet at a     *)
(* gate, whether workers look at their stop token, and what becomes of a   *)
(* task that throws: a result, a failure in the slot of the task, or the   *)
(* one failure of the pool.                                                *)
Trait ==
  [batch     |-> [outer |-> FALSE, depth |-> 1, gate |-> FALSE, token |-> FALSE, failure |-> "result"],
   many      |-> [outer |-> FALSE, depth |-> 1, gate |-> FALSE, token |-> TRUE,  failure |-> "result"],
   columns   |-> [outer |-> FALSE, depth |-> 2, gate |-> FALSE, token |-> TRUE,  failure |-> "slot"],
   rows      |-> [outer |-> TRUE,  depth |-> 1, gate |-> FALSE, token |-> FALSE, failure |-> "slot"],
   responses |-> [outer |-> TRUE,  depth |-> 0, gate |-> FALSE, token |-> FALSE, failure |-> "first"],
   arms      |-> [outer |-> TRUE,  depth |-> 1, gate |-> TRUE,  token |-> FALSE, failure |-> "slot"],
   save      |-> [outer |-> TRUE,  depth |-> 0, gate |-> FALSE, token |-> FALSE, failure |-> "slot"]]

Of(c) == Trait[kind[c]]

Ends(how, task) == [how |-> how, task |-> task]
Idle == [at |-> "none", task |-> None]
Gone == [at |-> "gone", task |-> None]

Places ==
  {"admit", "lease", "create", "open", "notify", "join", "publish", "leave", "done"}
Stations == {"none", "ready", "gate", "draw", "check", "lease", "work", "release", "gone"}

TypeOK ==
  /\ LeaseTypeOK
  /\ kind \in [Caller -> DOMAIN Trait] /\ bad \in [Caller -> SUBSET Tasks]
  /\ at \in [Caller -> Places]
  /\ mutex \in [{SessionOf[c] : c \in Caller} -> Caller \cup {None}]
  /\ made \in [Caller -> 0..Crew] /\ unmade \in [Caller -> BOOLEAN]
  /\ next \in [Caller -> 0..(Task + Crew)]
  /\ worker \in [Caller -> [Worker -> [at : Stations, task : Tasks \cup {None}]]]
  /\ runs \in [Caller -> [Tasks -> 0..Crew]]
  /\ first \in [Caller -> Tasks \cup {None}]
  /\ stop \in [Caller -> SUBSET Worker]
  /\ ready \in [Caller -> 0..Crew] /\ start \in [Caller -> {"no", "yes", "cancel"}]
  /\ asleep \in [Caller -> SUBSET (0..Crew)]
  /\ outcome \in [Caller -> [how : {"none", "ok", "unmade", "threw"}, task : Tasks \cup {None}]]

Init ==
  /\ LeaseInit
  /\ kind \in [Caller -> DOMAIN Trait] /\ \A c \in Caller : kind[c] \in Kinds[c]
  /\ bad \in [Caller -> SUBSET Tasks]
  /\ \A c \in Caller : kind[c] = "save" => bad[c] = {}
  /\ at = [c \in Caller |-> "admit"]
  /\ mutex = [s \in {SessionOf[c] : c \in Caller} |-> None]
  /\ made = [c \in Caller |-> 0] /\ unmade = [c \in Caller |-> FALSE]
  /\ next = [c \in Caller |-> 0]
  /\ worker = [c \in Caller |-> [i \in Worker |-> Idle]]
  /\ runs = [c \in Caller |-> [t \in Tasks |-> 0]]
  /\ first = [c \in Caller |-> None]
  /\ stop = [c \in Caller |-> {}]
  /\ ready = [c \in Caller |-> 0] /\ start = [c \in Caller |-> "no"]
  /\ asleep = [c \in Caller |-> {}]
  /\ outcome = [c \in Caller |-> Ends("none", None)]

------------------------------------------------------------------------------
(* The caller.                                                             *)
Goes(c, place) == at[c] # place /\ at' = [at EXCEPT ![c] = place]

Free(c) == mutex[SessionOf[c]] = None

(* The critical section of the admission; a save stays in it.              *)
Admit(c) ==
  /\ at[c] = "admit" /\ Free(c)
  /\ Goes(c, IF Of(c).outer THEN "lease" ELSE "create")
  /\ mutex' = IF kind[c] = "save" THEN [mutex EXCEPT ![SessionOf[c]] = c] ELSE mutex
  /\ UNCHANGED <<kind, bad, made, unmade, next, worker, runs, first, stop, ready, start,
                 asleep, outcome, leaseVars>>

CallerLease(c) ==
  /\ at[c] = "lease"
  /\ \/ Acquire(Self(c)) /\ Goes(c, IF kind[c] = "save" THEN "publish" ELSE "create")
     \/ AwaitLease(Self(c)) /\ UNCHANGED at
  /\ UNCHANGED <<kind, bad, mutex, made, unmade, next, worker, runs, first, stop, ready,
                 start, asleep, outcome>>

(* A worker thread is started.                                             *)
Create(c) ==
  /\ at[c] = "create" /\ made[c] < Crew
  /\ made' = [made EXCEPT ![c] = @ + 1]
  /\ worker' = [worker EXCEPT ![c][made[c] + 1].at = IF Of(c).gate THEN "ready" ELSE "draw"]
  /\ IF made'[c] = Crew THEN Goes(c, IF Of(c).gate THEN "open" ELSE "join") ELSE UNCHANGED at
  /\ UNCHANGED <<kind, bad, mutex, unmade, next, runs, first, stop, ready, start, asleep,
                 outcome, leaseVars>>

(* The constructor of a thread throws: the gate opens with workers_cancel, *)
(* or the workers' tokens are set, one by one in the destructor of each    *)
(* jthread (StopNext), or at once by the handler of the batch.             *)
CreateFails(c) ==
  /\ at[c] = "create" /\ made[c] < Crew
  /\ unmade' = [unmade EXCEPT ![c] = TRUE]
  /\ start' = IF Of(c).gate THEN [start EXCEPT ![c] = "cancel"] ELSE start
  /\ stop' = IF kind[c] = "columns" THEN [stop EXCEPT ![c] = 1..made[c]] ELSE stop
  /\ Goes(c, IF Of(c).gate THEN "notify" ELSE "join")
  /\ UNCHANGED <<kind, bad, mutex, made, next, worker, runs, first, ready, asleep, outcome,
                 leaseVars>>

StopNext(c) ==
  /\ at[c] = "join" /\ unmade[c] /\ kind[c] = "many"
  /\ \E i \in Worker \ stop[c] :
       /\ worker[c][i].at \notin {"none", "gone"}
       /\ \A j \in 1..(i - 1) : worker[c][j].at = "gone"
       /\ stop' = [stop EXCEPT ![c] = @ \cup {i}]
  /\ UNCHANGED <<kind, bad, at, mutex, made, unmade, next, worker, runs, first, ready, start,
                 asleep, outcome, leaseVars>>

(* The caller waits until both workers are at the gate and opens it.       *)
Open(c) ==
  /\ at[c] = "open" /\ 0 \notin asleep[c]
  /\ IF ready[c] = Crew
     THEN /\ start' = [start EXCEPT ![c] = "yes"] /\ Goes(c, "notify")
          /\ UNCHANGED asleep
     ELSE /\ asleep' = [asleep EXCEPT ![c] = @ \cup {0}]
          /\ UNCHANGED <<start, at>>
  /\ UNCHANGED <<kind, bad, mutex, made, unmade, next, worker, runs, first, stop, ready,
                 outcome, leaseVars>>

NotifyGate(c) ==
  /\ at[c] = "notify"
  /\ asleep' = [asleep EXCEPT ![c] = {}]
  /\ Goes(c, "join")
  /\ UNCHANGED <<kind, bad, mutex, made, unmade, next, worker, runs, first, stop, ready,
                 start, outcome, leaseVars>>

Failed(c) == {t \in Tasks : runs[c][t] > 0 /\ t \in bad[c]}

(* Mutant: the failure that came first in time.                            *)
ResultFirst(c) ==
  IF unmade[c] THEN Ends("unmade", None)
  ELSE IF Of(c).failure = "result" \/ first[c] = None THEN Ends("ok", None)
  ELSE Ends("threw", first[c])

(* What the workers left behind, read when all have been joined.           *)
Result(c) ==
  IF unmade[c] THEN Ends("unmade", None)
  ELSE IF Of(c).failure = "result" \/ Failed(c) = {} THEN Ends("ok", None)
  ELSE IF Of(c).failure = "first" THEN Ends("threw", first[c])
  ELSE Ends("threw", CHOOSE t \in Failed(c) : \A u \in Failed(c) : t <= u)

(* Mutant: a failed start throws past the workers.                         *)
JoinMade(c) ==
  /\ at[c] = "join"
  /\ unmade[c] \/ \A i \in Worker : worker[c][i].at = "gone"
  /\ outcome' = [outcome EXCEPT ![c] = Result(c)]
  /\ Goes(c, "publish")
  /\ UNCHANGED <<kind, bad, mutex, made, unmade, next, worker, runs, first, stop, ready,
                 start, asleep, leaseVars>>

Join(c) ==
  /\ at[c] = "join"
  /\ \A i \in 1..made[c] : worker[c][i].at = "gone"
  /\ outcome' = [outcome EXCEPT ![c] = Result(c)]
  /\ Goes(c, "publish")
  /\ UNCHANGED <<kind, bad, mutex, made, unmade, next, worker, runs, first, stop, ready,
                 start, asleep, leaseVars>>

(* The critical section that publishes or gives the reservation back, with *)
(* the lease still held.  A save has been in it all along.                 *)
Publish(c) ==
  /\ at[c] = "publish"
  /\ IF kind[c] = "save" THEN TRUE ELSE Free(c)
  /\ outcome' = IF kind[c] = "save" THEN [outcome EXCEPT ![c] = Ends("ok", None)] ELSE outcome
  /\ Goes(c, IF Of(c).outer THEN "leave" ELSE "done")
  /\ UNCHANGED <<kind, bad, mutex, made, unmade, next, worker, runs, first, stop, ready,
                 start, asleep, leaseVars>>

Leave(c) ==
  /\ at[c] = "leave"
  /\ Release(Self(c))
  /\ mutex' = IF kind[c] = "save" THEN [mutex EXCEPT ![SessionOf[c]] = None] ELSE mutex
  /\ Goes(c, "done")
  /\ UNCHANGED <<kind, bad, made, unmade, next, worker, runs, first, stop, ready, start,
                 asleep, outcome>>

------------------------------------------------------------------------------
(* The workers.                                                            *)
Puts(c, i, station, task) ==
  worker' = [worker EXCEPT ![c][i] = [at |-> station, task |-> task]]

(* A worker reports at the gate, waking whoever waits there.               *)
Report(c, i) ==
  /\ worker[c][i].at = "ready"
  /\ ready' = [ready EXCEPT ![c] = @ + 1]
  /\ asleep' = [asleep EXCEPT ![c] = IF start[c] = "no" THEN {i} ELSE {}]
  /\ Puts(c, i, "gate", None)
  /\ UNCHANGED <<kind, bad, at, mutex, made, unmade, next, runs, first, stop, start, outcome,
                 leaseVars>>

(* An awake worker passes the open gate to its own arm, leaves, or sleeps. *)
PassGate(c, i) ==
  /\ worker[c][i].at = "gate" /\ i \notin asleep[c]
  /\ CASE start[c] = "yes"    -> Puts(c, i, "lease", i) /\ UNCHANGED asleep
       [] start[c] = "cancel" -> Puts(c, i, "gone", None) /\ UNCHANGED asleep
       [] start[c] = "no"     -> asleep' = [asleep EXCEPT ![c] = @ \cup {i}] /\ UNCHANGED worker
  /\ UNCHANGED <<kind, bad, at, mutex, made, unmade, next, runs, first, stop, ready, start,
                 outcome, leaseVars>>

Begins(c) == IF kind[c] = "responses" THEN "check" ELSE "lease"

(* Mutant: load and store instead of fetch_add.                            *)
DrawTorn(c, i) ==
  /\ worker[c][i].at = "draw"
  /\ IF (Of(c).token /\ i \in stop[c]) \/ next[c] >= Task
     THEN Puts(c, i, "gone", None) /\ UNCHANGED next
     ELSE Puts(c, i, Begins(c), next[c] + 1)
            /\ next' \in {next, [next EXCEPT ![c] = @ + 1]}
  /\ UNCHANGED <<kind, bad, at, mutex, made, unmade, runs, first, stop, ready, start, asleep,
                 outcome, leaseVars>>

(* A worker whose token is set leaves; the others draw, and leave when     *)
(* there is nothing left.                                                  *)
Draw(c, i) ==
  /\ worker[c][i].at = "draw"
  /\ IF Of(c).token /\ i \in stop[c]
     THEN Puts(c, i, "gone", None) /\ UNCHANGED next
     ELSE /\ next' = [next EXCEPT ![c] = @ + 1]
          /\ IF next[c] >= Task THEN Puts(c, i, "gone", None)
             ELSE Puts(c, i, Begins(c), next[c] + 1)
  /\ UNCHANGED <<kind, bad, at, mutex, made, unmade, runs, first, stop, ready, start, asleep,
                 outcome, leaseVars>>

(* A response worker reads worker_error before it solves.                  *)
Check(c, i) ==
  /\ worker[c][i].at = "check"
  /\ IF first[c] = None THEN Puts(c, i, "lease", worker[c][i].task)
     ELSE Puts(c, i, "gone", None)
  /\ UNCHANGED <<kind, bad, at, mutex, made, unmade, next, runs, first, stop, ready, start,
                 asleep, outcome, leaseVars>>

(* The leases of a task, one inside the other.                             *)
TaskLease(c, i) ==
  LET t == ThreadOf(c, i) IN
  /\ worker[c][i].at = "lease"
  /\ IF held[t] = Of(c).depth
     THEN Puts(c, i, "work", worker[c][i].task) /\ UNCHANGED leaseVars
     ELSE (Acquire(t) \/ AwaitLease(t)) /\ UNCHANGED worker
  /\ UNCHANGED <<kind, bad, at, mutex, made, unmade, next, runs, first, stop, ready, start,
                 asleep, outcome>>

Work(c, i) ==
  LET t == worker[c][i].task IN
  /\ worker[c][i].at = "work"
  /\ runs' = [runs EXCEPT ![c][t] = @ + 1]
  /\ first' = IF t \in bad[c] /\ first[c] = None THEN [first EXCEPT ![c] = t] ELSE first
  /\ Puts(c, i, "release", t)
  /\ UNCHANGED <<kind, bad, at, mutex, made, unmade, next, stop, ready, start, asleep, outcome,
                 leaseVars>>

(* After an arm, or a response that threw, the worker goes.                *)
Returns(c, i) ==
  Of(c).gate \/ (Of(c).failure = "first" /\ worker[c][i].task \in bad[c])

TaskRelease(c, i) ==
  LET t == ThreadOf(c, i) IN
  /\ worker[c][i].at = "release"
  /\ IF held[t] = 0
     THEN /\ Puts(c, i, IF Returns(c, i) THEN "gone" ELSE "draw", None)
          /\ UNCHANGED leaseVars
     ELSE Release(t) /\ UNCHANGED worker
  /\ UNCHANGED <<kind, bad, at, mutex, made, unmade, next, runs, first, stop, ready, start,
                 asleep, outcome>>

------------------------------------------------------------------------------
CallerStep(c) ==
  \/ Admit(c) \/ CallerLease(c) \/ Create(c) \/ CreateFails(c) \/ StopNext(c)
  \/ Open(c) \/ NotifyGate(c) \/ Join(c) \/ Publish(c) \/ Leave(c)

WorkerStep(c, i) ==
  \/ Report(c, i) \/ PassGate(c, i) \/ Draw(c, i) \/ Check(c, i)
  \/ TaskLease(c, i) \/ Work(c, i) \/ TaskRelease(c, i)

Done == \A c \in Caller : at[c] = "done"

(* The system stops when every request has returned.                       *)
Next ==
  \/ \E c \in Caller : CallerStep(c)
  \/ \E c \in Caller, i \in Worker : WorkerStep(c, i)

(* Some thread that can run does.                                          *)
Spec == Init /\ [][Next]_vars /\ WF_vars(Next)

------------------------------------------------------------------------------
Working(c) == \E i \in Worker : worker[c][i].at \in {"work", "release"}

(* Threads that hold leases agree on the precision, and a worker that      *)
(* computes, with a lease of its own or under that of its caller, does so  *)
(* at the precision in use.                                                *)
OnePrecision ==
  /\ \A t \in Holders : Bits[t] = bits
  /\ \A c \in Caller, i \in Worker : worker[c][i].at = "work" =>
       \E t \in {Self(c), ThreadOf(c, i)} : held[t] > 0 /\ Bits[t] = bits

(* When a request has returned, whatever went wrong in it, no thread of it *)
(* runs or sleeps, and no lease of it is left.                             *)
NothingLeft ==
  \A c \in Caller : at[c] \in {"publish", "leave", "done"} =>
    /\ \A i \in Worker : worker[c][i].at \in {"none", "gone"} /\ held[ThreadOf(c, i)] = 0
    /\ asleep[c] = {}
    /\ at[c] = "done" => held[Self(c)] = 0

(* No task is executed twice, and a request that succeeds has executed     *)
(* every one of its tasks.                                                 *)
EveryTaskOnce ==
  \A c \in Caller : \A t \in Tasks :
    /\ runs[c][t] <= 1
    /\ outcome[c].how = "ok" /\ kind[c] # "save" /\ (Of(c).gate => t <= Crew) => runs[c][t] = 1

(* Which failure a request reports does not depend on how its workers were *)
(* scheduled: it is that of the lowest task that throws.  Response columns *)
(* alone report the failure that came first.                               *)
LowestFailure ==
  \A c \in Caller :
    /\ outcome[c].how = "threw" =>
         /\ outcome[c].task \in bad[c]
         /\ Of(c).failure = "slot" => \A t \in bad[c] : outcome[c].task <= t
    /\ outcome[c].how = "ok" /\ Of(c).failure # "result" =>
         \A t \in bad[c] : Of(c).gate /\ t > Crew

(* Every request returns: the gate, the leases and the mutex of a session  *)
(* never leave all of its threads waiting, in whatever order lease and     *)
(* mutex are taken.                                                        *)
RequestsEnd == <>Done
===============================================================================

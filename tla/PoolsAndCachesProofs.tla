------------------------- MODULE PoolsAndCachesProofs -------------------------
(***************************************************************************)
(* Proofs about the requests of one process that share what is not theirs: *)
(* the worker threads of WorkerPools with their leases and counters, for   *)
(* any callers, kinds, tasks and precisions, and the caches of             *)
(* PreparedCaches, for any requests, keys, signatures and capacities.      *)
(***************************************************************************)
EXTENDS WorkerPools, PreparedCaches, FiniteSetTheorems, WellFoundedInduction, TLAPS

------------------------------------------------------------------------------
(* Prepared caches.                                                        *)

Building(c) == stage[c] \in {"build", "publish"}
Answered(c) == reply[c] \in {"reused", "made"}

(* A request that took a handle or went away without one.                  *)
Past == {c \in Client : stage[c] \in {"build", "publish", "done"}}

(* Handles are issued once to a request.                                   *)
IssueBound == \A k \in CacheKind : issue[k] <= Cardinality(Past) + 1

(* What is stored, being built, or was answered has an issued handle.      *)
Issued ==
  /\ \A k \in CacheKind : \A h \in Stored(k) : h < issue[k]
  /\ \A c \in Client : Building(c) \/ Answered(c) =>
       handle[c] \in Handles /\ handle[c] < issue[call[c].kind]

(* A handle that an object is being built for belongs to nobody else.      *)
Fresh ==
  \A c \in Client : Building(c) =>
    /\ stored[call[c].kind][handle[c]] = Absent
    /\ \A d \in Client : d # c /\ call[d].kind = call[c].kind /\ (Building(d) \/ Answered(d)) =>
         handle[d] # handle[c]

(* Only requests that are through have been answered.                      *)
AnsweredLast == \A c \in Client : stage[c] # "done" => reply[c] = "none"

CacheInv ==
  /\ CacheTypeOK /\ IssueBound /\ Issued /\ Fresh /\ AnsweredLast
  /\ KeyMeansObject /\ LateGuards

------------------------------------------------------------------------------
LEMMA HandlesFinite ==
  /\ Cardinality(Client) \in Nat
  /\ IsFiniteSet(Handles)
  /\ \A S \in SUBSET Handles : IsFiniteSet(S) /\ Cardinality(S) \in Nat
<1>1. Cardinality(Client) \in Nat
  BY CacheAssumption, FS_CardinalityType
<1>2. IsFiniteSet(Handles)
  BY <1>1, FS_Interval DEF Handles
<1>3. ASSUME NEW S \in SUBSET Handles  PROVE IsFiniteSet(S) /\ Cardinality(S) \in Nat
  BY <1>2, FS_Subset, FS_CardinalityType
<1> QED  BY <1>1, <1>2, <1>3

LEMMA Counting ==
  ASSUME NEW S \in SUBSET Client, NEW T \in SUBSET Client, S \subseteq T
  PROVE  /\ Cardinality(S) \in Nat /\ Cardinality(T) \in Nat /\ Cardinality(S) <= Cardinality(T)
         /\ Cardinality(T) <= Cardinality(Client)
         /\ \A c \in T \ S : Cardinality(S) + 1 <= Cardinality(T)
<1>1. IsFiniteSet(S) /\ IsFiniteSet(T)
  BY CacheAssumption, FS_Subset
<1>2. /\ Cardinality(S) \in Nat /\ Cardinality(T) \in Nat /\ Cardinality(S) <= Cardinality(T)
      /\ Cardinality(T) <= Cardinality(Client)
  BY <1>1, CacheAssumption, FS_Subset, FS_CardinalityType
<1>3. ASSUME NEW c \in T \ S  PROVE Cardinality(S) + 1 <= Cardinality(T)
  <2>1. Cardinality(S \cup {c}) = Cardinality(S) + 1
    BY <1>1, <1>3, FS_AddElement
  <2>2. Cardinality(S \cup {c}) <= Cardinality(T)
    BY <1>1, <1>3, FS_Subset
  <2> QED  BY <2>1, <2>2
<1> QED  BY <1>2, <1>3

(* Nothing but the stages of the requests is read by IssueBound.           *)
LEMMA MorePast ==
  ASSUME CacheInv, UNCHANGED issue, Past \subseteq Past'
  PROVE  IssueBound'
<1>1. Past \in SUBSET Client /\ Past' \in SUBSET Client
  BY DEF Past
<1>2. /\ Cardinality(Past) \in Nat /\ Cardinality(Past') \in Nat
      /\ Cardinality(Past) <= Cardinality(Past')
  BY <1>1, Counting
<1>3. \A k \in CacheKind : issue[k] \in Nat /\ issue'[k] = issue[k]
  BY HandlesFinite DEF CacheInv, CacheTypeOK
<1> QED  BY <1>2, <1>3 DEF CacheInv, IssueBound

(* What a request finds by its key is an object of that key.               *)
LEMMA FoundObject ==
  ASSUME CacheInv, NEW c \in Client, Found(c) # Absent
  PROVE  /\ Found(c) \in Handles /\ stored[call[c].kind][Found(c)] # Absent
         /\ Found(c) < issue[call[c].kind]
         /\ stored[call[c].kind][Found(c)].sign = call[c].sign =>
              stored[call[c].kind][Found(c)] = Entry(call[c].key, call[c].sign)
<1> DEFINE k == call[c].kind
<1>1. k \in CacheKind /\ call[c].key \in Key /\ call[c].sign \in Sign
  BY DEF CacheInv, CacheTypeOK, Calls
<1>2. Found(c) \in Handles
  BY <1>1 DEF CacheInv, CacheTypeOK, Found
<1>3. stored[k][Found(c)] # Absent /\ stored[k][Found(c)].key = call[c].key
  BY <1>1 DEF CacheInv, KeyMeansObject, Found
<1>4. stored[k][Found(c)] \in [key : Key, sign : Sign]
  BY <1>1, <1>2, <1>3 DEF CacheInv, CacheTypeOK
<1>5. Found(c) < issue[k]
  BY <1>1, <1>2, <1>3 DEF CacheInv, Issued, Stored
<1> QED  BY <1>2, <1>3, <1>4, <1>5 DEF Entry

(* A request is answered without an object, or with the one it found.      *)
LEMMA Answering ==
  ASSUME CacheInv, NEW c \in Client, stage[c] # "done",
         UNCHANGED <<listed, closed, stored, byKey, issue, call>>,
         NEW what \in Reply, NEW h \in Handles \cup {Absent}, Answer(c, what, h),
         what \in {"reused", "made"} =>
           /\ h \in Handles /\ h < issue[call[c].kind]
           /\ stored[call[c].kind][h] = Entry(call[c].key, call[c].sign)
  PROVE  CacheInv'
<1> USE DEF CacheInv, CacheTypeOK, Answer
<1>1. CacheTypeOK'
  OBVIOUS
<1>2. Past \subseteq Past'
  BY DEF Past
<1>3. IssueBound'
  BY <1>2, MorePast
<1>4. Entry(call[c].key, call[c].sign) # Absent
  BY CacheAssumption DEF Entry, Calls
<1>5. \A d \in Client : d # c => stage'[d] = stage[d] /\ reply'[d] = reply[d] /\ handle'[d] = handle[d]
  OBVIOUS
<1>6. stage'[c] = "done" /\ reply'[c] = what /\ handle'[c] = h
  OBVIOUS
<1>7. Issued' /\ Fresh' /\ AnsweredLast'
  BY <1>4, <1>5, <1>6 DEF Issued, Fresh, AnsweredLast, Building, Answered, Stored
<1>8. KeyMeansObject'
  BY <1>5, <1>6 DEF KeyMeansObject, Stored
<1>9. LateGuards'
  BY DEF LateGuards, Stored
<1> QED  BY <1>1, <1>3, <1>7, <1>8, <1>9

(* A request goes on to its next section, its handle its own.              *)
LEMMA GoingOn ==
  ASSUME CacheInv, NEW c \in Client,
         UNCHANGED <<listed, closed, stored, byKey, issue, call>>,
         NEW place, GoOn(c, place),
         \/ stage[c] \in {"find", "lookup"} /\ place \in {"lookup", "issue"}
         \/ stage[c] = "build" /\ place = "publish"
  PROVE  CacheInv'
<1> USE DEF CacheInv, CacheTypeOK, GoOn
<1>1. CacheTypeOK'
  OBVIOUS
<1>2. Past \subseteq Past'
  BY DEF Past
<1>3. IssueBound'
  BY <1>2, MorePast
<1>4. \A d \in Client : Building(d)' => Building(d)
  BY DEF Building
<1>5. \A d \in Client : Answered(d)' <=> Answered(d)
  BY DEF Answered
<1>6. Issued' /\ Fresh'
  BY <1>4, <1>5 DEF Issued, Fresh, Stored
<1>7. AnsweredLast' /\ KeyMeansObject' /\ LateGuards'
  BY DEF AnsweredLast, KeyMeansObject, LateGuards, Stored
<1> QED  BY <1>1, <1>3, <1>6, <1>7

(* A request that meets its key is answered.                               *)
LEMMA Meeting ==
  ASSUME CacheInv, NEW c \in Client, stage[c] # "done", Found(c) # Absent,
         UNCHANGED <<listed, closed, stored, byKey, issue, call>>, MeetsKey(c)
  PROVE  CacheInv'
<1>1. CASE stored[call[c].kind][Found(c)].sign = call[c].sign
  BY <1>1, FoundObject, Answering DEF MeetsKey, Reply
<1>2. CASE stored[call[c].kind][Found(c)].sign # call[c].sign
  BY <1>2, Answering DEF MeetsKey, Reply
<1> QED  BY <1>1, <1>2

------------------------------------------------------------------------------
LEMMA FindSessionStep ==
  ASSUME CacheInv, NEW c \in Client, FindSession(c)
  PROVE  CacheInv'
<1>1. CASE listed
  BY <1>1, GoingOn DEF FindSession
<1>2. CASE ~listed
  BY <1>2, Answering DEF FindSession, Reply
<1> QED  BY <1>1, <1>2

LEMMA LookupStep ==
  ASSUME CacheInv, NEW c \in Client, Lookup(c)
  PROVE  CacheInv'
<1>1. CASE Found(c) # Absent
  BY <1>1, Meeting DEF Lookup
<1>2. CASE Found(c) = Absent /\ Cardinality(Stored(call[c].kind)) >= Room
  BY <1>2, Answering DEF Lookup, Reply
<1>3. CASE Found(c) = Absent /\ ~(Cardinality(Stored(call[c].kind)) >= Room)
  BY <1>3, GoingOn DEF Lookup
<1> QED  BY <1>1, <1>2, <1>3

LEMMA IssueStep ==
  ASSUME CacheInv, NEW c \in Client, Issue(c)
  PROVE  CacheInv'
<1> DEFINE k == call[c].kind
<1>1. CASE UNCHANGED issue /\ \E what \in {"closed", "unknown"} : Answer(c, what, Absent)
  BY <1>1, Answering DEF Issue, Reply
<1>2. CASE /\ issue' = [issue EXCEPT ![k] = @ + 1]
           /\ handle' = [handle EXCEPT ![c] = issue[k]]
           /\ stage' = [stage EXCEPT ![c] = "build"] /\ UNCHANGED reply
  <2>1. stage[c] = "issue" /\ UNCHANGED <<listed, closed, stored, byKey, call>> /\ k \in CacheKind
    BY DEF Issue, CacheInv, CacheTypeOK, Calls
  <2>2. Past \subseteq Past' /\ c \in Past' \ Past /\ Past \in SUBSET Client /\ Past' \in SUBSET Client
    BY <1>2, <2>1 DEF Past, CacheInv, CacheTypeOK
  <2>3. /\ Cardinality(Past) \in Nat /\ Cardinality(Past') \in Nat
        /\ Cardinality(Past) + 1 <= Cardinality(Past')
        /\ Cardinality(Past') <= Cardinality(Client)
    BY <2>2, Counting
  <2>4. \A j \in CacheKind : issue[j] \in Nat /\ issue[j] >= 1 /\ issue[j] <= Cardinality(Past) + 1
    BY HandlesFinite DEF CacheInv, CacheTypeOK, IssueBound
  <2>5. issue[k] \in Handles
    BY <2>1, <2>3, <2>4, HandlesFinite DEF Handles
  <2>6. IssueBound'
    BY <1>2, <2>1, <2>3, <2>4 DEF IssueBound, CacheInv, CacheTypeOK
  <2>7. \A j \in CacheKind : issue'[j] \in Nat /\ issue'[j] >= issue[j]
                             /\ issue'[j] \in 1..(Cardinality(Client) + 1)
    BY <1>2, <2>1, <2>3, <2>4, HandlesFinite DEF CacheInv, CacheTypeOK
  <2>8. issue'[k] = issue[k] + 1
    BY <1>2, <2>1 DEF CacheInv, CacheTypeOK
  <2>9. CacheTypeOK'
    <3>1. issue' \in [CacheKind -> 1..(Cardinality(Client) + 1)]
      BY <1>2, <2>1, <2>7 DEF CacheInv, CacheTypeOK
    <3> QED  BY <1>2, <2>1, <2>5, <3>1 DEF CacheInv, CacheTypeOK
  <2>10. \A d \in Client : d # c => stage'[d] = stage[d] /\ reply'[d] = reply[d] /\ handle'[d] = handle[d]
    BY <1>2 DEF CacheInv, CacheTypeOK
  <2>11. stage'[c] = "build" /\ handle'[c] = issue[k] /\ reply'[c] = "none"
    BY <1>2, <2>1 DEF CacheInv, CacheTypeOK, AnsweredLast
  <2>12. Issued'
    <3>1. ASSUME NEW j \in CacheKind, NEW h \in Stored(j)  PROVE h < issue'[j]
      <4>1. h \in Nat /\ h < issue[j]
        BY HandlesFinite DEF CacheInv, Issued, Stored, Handles
      <4> QED  BY <2>4, <2>7, <4>1
    <3>2. ASSUME NEW d \in Client, Building(d)' \/ Answered(d)'
          PROVE  handle'[d] \in Handles /\ handle'[d] < issue'[call[d].kind]
      <4>1. CASE d = c
        BY <2>4, <2>5, <2>8, <2>11, <4>1, <2>1
      <4>2. CASE d # c
        <5>1. handle[d] \in Handles /\ handle[d] < issue[call[d].kind] /\ call[d].kind \in CacheKind
          BY <2>10, <3>2, <4>2 DEF Building, Answered, CacheInv, Issued, CacheTypeOK, Calls
        <5> QED  BY <2>4, <2>7, <2>10, <4>2, <5>1, HandlesFinite DEF Handles
      <4> QED  BY <4>1, <4>2
    <3> QED  BY <2>1, <3>1, <3>2 DEF Issued, Stored
  <2>13. Fresh'
    <3>1. stored[k][issue[k]] = Absent
      BY <2>1, <2>4, <2>5 DEF CacheInv, Issued, Stored
    <3>2. \A d \in Client : call[d].kind = k /\ d # c /\ (Building(d) \/ Answered(d)) => handle[d] # issue[k]
      BY <2>1, <2>4 DEF CacheInv, Issued
    <3> QED  BY <2>1, <2>10, <2>11, <3>1, <3>2 DEF CacheInv, Fresh, Building, Answered
  <2>14. AnsweredLast' /\ KeyMeansObject' /\ LateGuards'
    BY <2>1, <2>10, <2>11 DEF CacheInv, AnsweredLast, KeyMeansObject, LateGuards, Stored
  <2> QED  BY <2>6, <2>9, <2>12, <2>13, <2>14 DEF CacheInv
<1> QED  BY <1>1, <1>2 DEF Issue

LEMMA BuildStep ==
  ASSUME CacheInv, NEW c \in Client, Build(c)
  PROVE  CacheInv'
<1>1. CASE GoOn(c, "publish")
  BY <1>1, GoingOn DEF Build
<1>2. CASE Answer(c, "threw", Absent)
  BY <1>2, Answering DEF Build, Reply
<1> QED  BY <1>1, <1>2 DEF Build

(* A prepared object goes in under a key that nobody has, with a handle    *)
(* that nobody has.                                                        *)
LEMMA InsertStep ==
  ASSUME CacheInv, NEW c \in Client, stage[c] = "publish",
         UNCHANGED <<listed, closed, issue, call>>,
         ~Refused(c), Found(c) = Absent, ~Overfull(c), Insert(c), Answer(c, "made", handle[c])
  PROVE  CacheInv'
<1> DEFINE k == call[c].kind
           x == call[c].key
           h == handle[c]
           e == Entry(x, call[c].sign)
<1>1. k \in CacheKind /\ x \in Key /\ e \in [key : Key, sign : Sign] /\ e.key = x
  BY DEF CacheInv, CacheTypeOK, Calls, Entry
<1>2. h \in Handles /\ h < issue[k] /\ stored[k][h] = Absent /\ h # Absent /\ e # Absent
  BY <1>1, CacheAssumption DEF CacheInv, Issued, Fresh, Building
<1>3. byKey[k][x] = Absent
  BY DEF Found
<1>4. /\ stored' = [stored EXCEPT ![k][h] = e]
      /\ byKey' = [byKey EXCEPT ![k][x] = h]
      /\ stage' = [stage EXCEPT ![c] = "done"] /\ reply' = [reply EXCEPT ![c] = "made"]
      /\ handle' = handle
  <2>1. handle' = [handle EXCEPT ![c] = handle[c]] /\ handle \in [Client -> Handles \cup {Absent}]
    BY DEF Answer, CacheInv, CacheTypeOK
  <2> QED  BY <2>1 DEF Insert, Answer
<1> HIDE DEF k, x, h, e
<1>5. /\ stored'[k][h] = e /\ byKey'[k][x] = h
      /\ \A j \in CacheKind : \A g \in Handles :
           j # k \/ g # h => stored'[j][g] = stored[j][g]
      /\ \A j \in CacheKind : \A y \in Key :
           j # k \/ y # x => byKey'[j][y] = byKey[j][y]
  BY <1>1, <1>2, <1>4 DEF CacheInv, CacheTypeOK
<1>6. CacheTypeOK'
  <2>1. stored' \in [CacheKind -> [Handles -> [key : Key, sign : Sign] \cup {Absent}]]
    BY <1>1, <1>2, <1>4 DEF CacheInv, CacheTypeOK
  <2>2. byKey' \in [CacheKind -> [Key -> Handles \cup {Absent}]]
    BY <1>1, <1>2, <1>4 DEF CacheInv, CacheTypeOK
  <2> QED  BY <1>4, <2>1, <2>2 DEF CacheInv, CacheTypeOK, Reply
<1>7. IssueBound'
  <2>1. Past \subseteq Past'
    BY <1>4 DEF Past, CacheInv, CacheTypeOK
  <2> QED  BY <2>1, MorePast
<1>8. \A d \in Client : d # c => stage'[d] = stage[d] /\ reply'[d] = reply[d]
  BY <1>4 DEF CacheInv, CacheTypeOK
<1>9. stage'[c] = "done" /\ reply'[c] = "made"
  BY <1>4 DEF CacheInv, CacheTypeOK
<1>10. AnsweredLast'
  BY <1>8, <1>9 DEF CacheInv, AnsweredLast
<1>11. Issued'
  <2>1. ASSUME NEW j \in CacheKind, NEW g \in Stored(j)'  PROVE g < issue[j]
    <3>1. CASE j = k /\ g = h
      BY <1>2, <3>1
    <3>2. CASE ~(j = k /\ g = h)
      BY <1>5, <2>1, <3>2 DEF CacheInv, Issued, Stored
    <3> QED  BY <3>1, <3>2
  <2>2. \A d \in Client : Building(d)' \/ Answered(d)' => Building(d) \/ Answered(d)
    BY <1>8 DEF Building, Answered
  <2> QED  BY <1>4, <2>1, <2>2 DEF CacheInv, Issued
<1>12. Fresh'
  <2>1. \A d \in Client : Building(d)' => Building(d) /\ d # c
    BY <1>8, <1>9 DEF Building
  <2>2. \A d \in Client : Building(d)' \/ Answered(d)' => Building(d) \/ Answered(d)
    BY <1>8 DEF Building, Answered
  <2>3. ASSUME NEW d \in Client, Building(d)'  PROVE stored'[call[d].kind][handle[d]] = Absent
    <3>1. stored[call[d].kind][handle[d]] = Absent /\ handle[d] \in Handles
      BY <2>1, <2>3 DEF CacheInv, Fresh, Issued
    <3>2. call[d].kind # k \/ handle[d] # h
      BY <2>1, <2>3 DEF CacheInv, Fresh, Building, k, h
    <3>3. call[d].kind \in CacheKind
      BY DEF CacheInv, CacheTypeOK, Calls
    <3> QED  BY <1>5, <3>1, <3>2, <3>3
  <2> QED  BY <1>4, <2>1, <2>2, <2>3 DEF CacheInv, Fresh
<1>13. KeyMeansObject'
  <2>1. ASSUME NEW j \in CacheKind, NEW y \in Key, byKey'[j][y] # Absent
        PROVE  stored'[j][byKey'[j][y]] # Absent /\ stored'[j][byKey'[j][y]].key = y
    <3>1. CASE j = k /\ y = x
      BY <1>1, <1>2, <1>5, <3>1
    <3>2. CASE ~(j = k /\ y = x)
      <4>1. /\ byKey'[j][y] = byKey[j][y] /\ byKey[j][y] \in Handles
            /\ stored[j][byKey[j][y]] # Absent /\ stored[j][byKey[j][y]].key = y
        BY <1>5, <2>1, <3>2 DEF CacheInv, KeyMeansObject, CacheTypeOK
      <4>2. j # k \/ byKey[j][y] # h
        BY <1>2, <4>1
      <4> QED  BY <1>5, <4>1, <4>2
    <3> QED  BY <3>1, <3>2
  <2>2. ASSUME NEW j \in CacheKind, NEW g \in Stored(j)'
        PROVE  byKey'[j][stored'[j][g].key] = g
    <3>1. CASE j = k /\ g = h
      BY <1>1, <1>2, <1>5, <3>1
    <3>2. CASE ~(j = k /\ g = h)
      <4>1. g \in Handles /\ stored'[j][g] = stored[j][g] /\ stored[j][g] # Absent
        BY <1>5, <2>2, <3>2 DEF Stored
      <4>2. byKey[j][stored[j][g].key] = g /\ stored[j][g].key \in Key
        BY <4>1 DEF CacheInv, KeyMeansObject, Stored, CacheTypeOK
      <4>3. g # Absent
        BY <4>1, CacheAssumption
      <4>4. j # k \/ stored[j][g].key # x
        BY <1>3, <4>2, <4>3 DEF k, x
      <4> QED  BY <1>5, <4>1, <4>2, <4>4
    <3> QED  BY <3>1, <3>2
  <2>3. ASSUME NEW d \in Client, Answered(d)', stored'[call[d].kind][handle[d]] # Absent
        PROVE  stored'[call[d].kind][handle[d]] = Entry(call[d].key, call[d].sign)
    <3>1. CASE d = c
      BY <1>5, <3>1 DEF k, h, e, x
    <3>2. CASE d # c
      <4>1. Answered(d) /\ call[d].kind \in CacheKind /\ handle[d] \in Handles
        BY <1>8, <2>3, <3>2 DEF Answered, CacheInv, Issued, CacheTypeOK, Calls
      <4>2. call[d].kind # k \/ handle[d] # h
        BY <3>2, <4>1 DEF CacheInv, Fresh, Building, k, h
      <4>3. stored'[call[d].kind][handle[d]] = stored[call[d].kind][handle[d]]
        BY <1>5, <4>1, <4>2
      <4> QED  BY <2>3, <4>1, <4>3 DEF CacheInv, KeyMeansObject, Answered
    <3> QED  BY <3>1, <3>2
  <2> QED  BY <1>4, <2>1, <2>2, <2>3 DEF KeyMeansObject, Answered
<1>14. LateGuards'
  <2>1. ASSUME NEW j \in CacheKind, j # k  PROVE Stored(j)' = Stored(j)
    BY <1>5, <2>1 DEF Stored
  <2>2. CASE k = "scc"
    <3>1. Stored("scc")' = Stored("scc") \cup {h} /\ h \notin Stored("scc")
      BY <1>2, <1>5, <2>2 DEF Stored, CacheKind
    <3>2. Stored("scc") \in SUBSET Handles
      BY DEF Stored
    <3>3. Cardinality(Stored("scc")') = Cardinality(Stored("scc")) + 1
      BY <3>1, <3>2, HandlesFinite, FS_AddElement
    <3>4. Cardinality(Stored("scc")) < Room /\ Cardinality(Stored("scc")) \in Nat /\ Room \in Nat
      BY <2>2, <3>2, HandlesFinite, CacheAssumption DEF Overfull, RoomAtPublish, k
    <3>5. ~closed
      BY <2>2 DEF Refused, ClosedAtPublish, k
    <3> QED  BY <3>3, <3>4, <3>5 DEF LateGuards
  <2>3. CASE k # "scc"
    <3>1. Stored("scc")' = Stored("scc")
      BY <2>1, <2>3 DEF CacheKind
    <3>2. closed => Stored("equation")' = Stored("equation")
      BY <2>1 DEF CacheKind, Refused, ClosedAtPublish, k
    <3> QED  BY <3>1, <3>2 DEF CacheInv, LateGuards
  <2> QED  BY <2>2, <2>3
<1> QED  BY <1>6, <1>7, <1>10, <1>11, <1>12, <1>13, <1>14 DEF CacheInv

LEMMA PublishPreparedStep ==
  ASSUME CacheInv, NEW c \in Client, PublishPrepared(c)
  PROVE  CacheInv'
<1>1. stage[c] = "publish" /\ UNCHANGED <<listed, closed, issue, call>>
  BY DEF PublishPrepared
<1>2. CASE /\ UNCHANGED <<stored, byKey>>
           /\ \E what \in {"closed", "full"} : Answer(c, what, Absent)
  BY <1>1, <1>2, Answering DEF Reply
<1>3. CASE Found(c) # Absent /\ MeetsKey(c) /\ UNCHANGED <<stored, byKey>>
  BY <1>1, <1>3, Meeting
<1>4. CASE /\ ~Refused(c) /\ Found(c) = Absent /\ ~Overfull(c)
           /\ Insert(c) /\ Answer(c, "made", handle[c])
  BY <1>1, <1>4, InsertStep
<1> QED  BY <1>2, <1>3, <1>4 DEF PublishPrepared

LEMMA ReleaseStep ==
  ASSUME CacheInv, NEW k \in CacheKind, NEW h \in Handles, ReleasePrepared(k, h)
  PROVE  CacheInv'
<1> DEFINE x == stored[k][h].key
<1>1. stored[k][h] # Absent /\ stored[k][h] \in [key : Key, sign : Sign] /\ x \in Key
  BY DEF ReleasePrepared, CacheInv, CacheTypeOK
<1>2. /\ byKey' = [byKey EXCEPT ![k][x] = Absent]
      /\ stored' = [stored EXCEPT ![k][h] = Absent]
      /\ UNCHANGED <<listed, closed, issue, call, stage, handle, reply>>
  BY DEF ReleasePrepared, Released
<1>3. byKey[k][x] = h
  BY <1>1 DEF CacheInv, KeyMeansObject, Stored
<1> HIDE DEF x
<1>4. CacheTypeOK'
  <2>1. byKey' \in [CacheKind -> [Key -> Handles \cup {Absent}]]
    BY <1>1, <1>2 DEF CacheInv, CacheTypeOK
  <2>2. stored' \in [CacheKind -> [Handles -> [key : Key, sign : Sign] \cup {Absent}]]
    BY <1>2 DEF CacheInv, CacheTypeOK
  <2> QED  BY <1>2, <2>1, <2>2 DEF CacheInv, CacheTypeOK
<1>5. /\ stored'[k][h] = Absent /\ byKey'[k][x] = Absent
      /\ \A j \in CacheKind : \A g \in Handles :
           j # k \/ g # h => stored'[j][g] = stored[j][g]
      /\ \A j \in CacheKind : \A y \in Key :
           j # k \/ y # x => byKey'[j][y] = byKey[j][y]
  BY <1>1, <1>2 DEF CacheInv, CacheTypeOK
<1>6. \A j \in CacheKind : \A g \in Handles :
        stored'[j][g] # Absent => stored'[j][g] = stored[j][g] /\ ~(j = k /\ g = h)
  BY <1>5
<1>7. IssueBound'
  <2>1. Past \subseteq Past'
    BY <1>2 DEF Past
  <2> QED  BY <1>2, <2>1, MorePast
<1>8. Issued' /\ Fresh' /\ AnsweredLast'
  <2>1. \A d \in Client : (Building(d)' <=> Building(d)) /\ (Answered(d)' <=> Answered(d))
    BY <1>2 DEF Building, Answered
  <2>2. Issued'
    BY <1>2, <1>6, <2>1 DEF CacheInv, Issued, Stored
  <2>3. Fresh'
    <3>1. ASSUME NEW d \in Client, Building(d)  PROVE stored'[call[d].kind][handle[d]] = Absent
      <4>1. call[d].kind \in CacheKind /\ handle[d] \in Handles
        BY <3>1 DEF CacheInv, Issued, CacheTypeOK, Calls
      <4> QED  BY <1>6, <3>1, <4>1 DEF CacheInv, Fresh
    <3> QED  BY <1>2, <2>1, <3>1 DEF CacheInv, Fresh
  <2> QED  BY <1>2, <2>2, <2>3 DEF CacheInv, AnsweredLast
<1>9. KeyMeansObject'
  <2>1. ASSUME NEW j \in CacheKind, NEW y \in Key, byKey'[j][y] # Absent
        PROVE  stored'[j][byKey'[j][y]] # Absent /\ stored'[j][byKey'[j][y]].key = y
    <3>1. byKey'[j][y] = byKey[j][y] /\ (j # k \/ y # x)
      BY <1>5, <2>1
    <3>2. /\ byKey[j][y] \in Handles
          /\ stored[j][byKey[j][y]] # Absent /\ stored[j][byKey[j][y]].key = y
      BY <2>1, <3>1 DEF CacheInv, KeyMeansObject, CacheTypeOK
    <3>3. j # k \/ byKey[j][y] # h
      BY <3>1, <3>2 DEF x
    <3> QED  BY <1>5, <3>1, <3>2, <3>3
  <2>2. ASSUME NEW j \in CacheKind, NEW g \in Stored(j)'
        PROVE  byKey'[j][stored'[j][g].key] = g
    <3>1. /\ g \in Handles /\ stored'[j][g] = stored[j][g] /\ stored[j][g] # Absent
          /\ ~(j = k /\ g = h)
      BY <1>6, <2>2 DEF Stored
    <3>2. byKey[j][stored[j][g].key] = g /\ stored[j][g].key \in Key
      BY <3>1 DEF CacheInv, KeyMeansObject, Stored, CacheTypeOK
    <3>3. j # k \/ stored[j][g].key # x
      BY <1>3, <3>1, <3>2
    <3> QED  BY <1>5, <3>1, <3>2, <3>3
  <2>3. ASSUME NEW d \in Client, Answered(d), stored'[call[d].kind][handle[d]] # Absent
        PROVE  stored'[call[d].kind][handle[d]] = Entry(call[d].key, call[d].sign)
    <3>1. call[d].kind \in CacheKind /\ handle[d] \in Handles
      BY <2>3 DEF CacheInv, Issued, CacheTypeOK, Calls
    <3> QED  BY <1>6, <2>3, <3>1 DEF CacheInv, KeyMeansObject, Answered
  <2> QED  BY <1>2, <2>1, <2>2, <2>3 DEF KeyMeansObject, Answered
<1>10. LateGuards'
  <2>1. \A j \in CacheKind : Stored(j)' \subseteq Stored(j)
    BY <1>6 DEF Stored
  <2>2. Stored("scc") \in SUBSET Handles /\ Stored("scc")' \in SUBSET Stored("scc")
    BY <2>1 DEF Stored, CacheKind
  <2>3. /\ Cardinality(Stored("scc")') <= Cardinality(Stored("scc"))
        /\ Cardinality(Stored("scc")') \in Nat /\ Cardinality(Stored("scc")) \in Nat
    BY <2>2, HandlesFinite, FS_Subset
  <2>4. closed => Stored("equation")' = {} /\ Stored("scc")' = {}
    BY <2>1 DEF CacheInv, LateGuards, CacheKind
  <2> QED  BY <1>2, <2>3, <2>4, CacheAssumption DEF CacheInv, LateGuards
<1> QED  BY <1>4, <1>7, <1>8, <1>9, <1>10 DEF CacheInv

LEMMA UnlistStep == CacheInv /\ Unlist => CacheInv'
<1> SUFFICES ASSUME CacheInv, Unlist  PROVE CacheInv'
  OBVIOUS
<1>1. CacheTypeOK'
  BY DEF Unlist, CacheInv, CacheTypeOK
<1> QED
  BY <1>1
  DEF Unlist, CacheInv, IssueBound, Past, Issued, Fresh, Building, Answered, AnsweredLast,
      KeyMeansObject, LateGuards, Stored

LEMMA NothingStored ==
  ASSUME NEW objects, NEW index,
         objects = [k \in CacheKind |-> [h \in Handles |-> Absent]],
         index = [k \in CacheKind |-> [x \in Key |-> Absent]]
  PROVE  /\ objects \in [CacheKind -> [Handles -> [key : Key, sign : Sign] \cup {Absent}]]
         /\ index \in [CacheKind -> [Key -> Handles \cup {Absent}]]
         /\ \A k \in CacheKind : /\ {h \in Handles : objects[k][h] # Absent} = {}
                                 /\ \A x \in Key : index[k][x] = Absent
         /\ Cardinality({h \in Handles : objects["scc"][h] # Absent}) <= Room
<1>1. \A k \in CacheKind : {h \in Handles : objects[k][h] # Absent} = {}
  OBVIOUS
<1>2. {h \in Handles : objects["scc"][h] # Absent} = {}
  BY <1>1 DEF CacheKind
<1>3. Cardinality({}) = 0 /\ Room \in Nat
  BY FS_EmptySet, CacheAssumption
<1>4. Cardinality({h \in Handles : objects["scc"][h] # Absent}) <= Room
  BY <1>2, <1>3
<1> QED  BY <1>1, <1>4

LEMMA CloseStep == CacheInv /\ CloseSession => CacheInv'
<1> SUFFICES ASSUME CacheInv, CloseSession  PROVE CacheInv'
  OBVIOUS
<1>1. /\ stored' = [k \in CacheKind |-> [h \in Handles |-> Absent]]
      /\ byKey' = [k \in CacheKind |-> [x \in Key |-> Absent]]
      /\ closed' = TRUE /\ UNCHANGED <<listed, issue, call, stage, handle, reply>>
  BY DEF CloseSession
<1>2. /\ stored' \in [CacheKind -> [Handles -> [key : Key, sign : Sign] \cup {Absent}]]
      /\ byKey' \in [CacheKind -> [Key -> Handles \cup {Absent}]]
      /\ \A k \in CacheKind : Stored(k)' = {} /\ \A x \in Key : byKey'[k][x] = Absent
      /\ Cardinality(Stored("scc")') <= Room
  BY <1>1, NothingStored DEF Stored
<1>3. CacheTypeOK'
  BY <1>1, <1>2 DEF CacheInv, CacheTypeOK
<1>4. IssueBound' /\ AnsweredLast'
  BY <1>1 DEF CacheInv, IssueBound, Past, AnsweredLast
<1>5. Issued' /\ Fresh'
  <2>1. ASSUME NEW d \in Client, Building(d) \/ Answered(d)
        PROVE  stored'[call[d].kind][handle[d]] = Absent
    <3>1. call[d].kind \in CacheKind /\ handle[d] \in Handles
      BY <2>1 DEF CacheInv, Issued, CacheTypeOK, Calls
    <3> QED  BY <1>1, <3>1
  <2> QED  BY <1>1, <1>2, <2>1 DEF CacheInv, Issued, Fresh, Building, Answered
<1>6. KeyMeansObject'
  <2>1. ASSUME NEW d \in Client, Answered(d)  PROVE stored'[call[d].kind][handle[d]] = Absent
    <3>1. call[d].kind \in CacheKind /\ handle[d] \in Handles
      BY <2>1 DEF CacheInv, Issued, CacheTypeOK, Calls
    <3> QED  BY <1>1, <3>1
  <2> QED  BY <1>1, <1>2, <2>1 DEF KeyMeansObject, Answered
<1>7. LateGuards'
  BY <1>2 DEF LateGuards, CacheKind
<1> QED  BY <1>3, <1>4, <1>5, <1>6, <1>7 DEF CacheInv

LEMMA InitCache == CacheInit => CacheInv
<1> SUFFICES ASSUME CacheInit  PROVE CacheInv
  OBVIOUS
<1>1. /\ stored \in [CacheKind -> [Handles -> [key : Key, sign : Sign] \cup {Absent}]]
      /\ byKey \in [CacheKind -> [Key -> Handles \cup {Absent}]]
      /\ \A k \in CacheKind : Stored(k) = {} /\ \A x \in Key : byKey[k][x] = Absent
      /\ Cardinality(Stored("scc")) <= Room
  BY NothingStored DEF CacheInit, Stored
<1>2. Past = {} /\ Cardinality(Past) = 0
  <2>1. Past = {}
    BY DEF CacheInit, Past
  <2> QED  BY <2>1, FS_EmptySet
<1>3. issue \in [CacheKind -> 1..(Cardinality(Client) + 1)]
  BY HandlesFinite DEF CacheInit
<1>4. call \in [Client -> Calls]
  BY CacheAssumption DEF CacheInit
<1>5. CacheTypeOK
  BY <1>1, <1>3, <1>4 DEF CacheInit, CacheTypeOK, Reply
<1>6. IssueBound
  BY <1>2 DEF CacheInit, IssueBound
<1>7. \A c \in Client : ~Building(c) /\ ~Answered(c)
  BY DEF CacheInit, Building, Answered
<1>8. Issued /\ Fresh /\ AnsweredLast /\ KeyMeansObject
  BY <1>1, <1>7 DEF CacheInit, Issued, Fresh, AnsweredLast, KeyMeansObject, Answered
<1>9. LateGuards
  BY <1>1 DEF LateGuards, CacheKind
<1> QED  BY <1>5, <1>6, <1>8, <1>9 DEF CacheInv

LEMMA StepCache == CacheInv /\ [CacheNext]_cacheVars => CacheInv'
<1> SUFFICES ASSUME CacheInv, [CacheNext]_cacheVars  PROVE CacheInv'
  OBVIOUS
<1>1. CASE UNCHANGED cacheVars
  <2>1. CacheTypeOK'
    BY <1>1 DEF cacheVars, CacheInv, CacheTypeOK
  <2> QED
    BY <1>1, <2>1
    DEF cacheVars, CacheInv, IssueBound, Past, Issued, Fresh, Building, Answered, AnsweredLast,
        KeyMeansObject, LateGuards, Stored
<1> QED
  BY <1>1, FindSessionStep, LookupStep, IssueStep, BuildStep, PublishPreparedStep, ReleaseStep,
     UnlistStep, CloseStep DEF CacheNext

LEMMA CacheInvariant == CacheSpec => []CacheInv
BY InitCache, StepCache, PTL DEF CacheSpec

------------------------------------------------------------------------------
(* Every variable has its type: no request is given a handle beyond those  *)
(* that were ever issued.                                                  *)
THEOREM CacheTypes == CacheSpec => []CacheTypeOK
<1>1. CacheInv => CacheTypeOK
  BY DEF CacheInv
<1> QED  BY <1>1, CacheInvariant, PTL

(* For any number of requests that look up, build, publish and release at  *)
(* once, index and registry agree, and whoever was answered with an object *)
(* that is still stored has the one it asked for.                          *)
THEOREM KeysMeanObjects == CacheSpec => []KeyMeansObject
<1>1. CacheInv => KeyMeansObject
  BY DEF CacheInv
<1> QED  BY <1>1, CacheInvariant, PTL

(* For any capacity and any number of requests, composite charts keep to   *)
(* their capacity, and a closed session keeps no composite chart and no    *)
(* equation owner.                                                         *)
THEOREM GuardsHold == CacheSpec => []LateGuards
<1>1. CacheInv => LateGuards
  BY DEF CacheInv
<1> QED  BY <1>1, CacheInvariant, PTL

------------------------------------------------------------------------------
Waiting(c, i) == worker[c][i].at \in {"check", "lease", "work"}
Started == {"create", "open", "notify", "join", "publish", "leave"}
Joined  == {"publish", "leave", "done"}

LeaseAgreed == \A t \in Holders : Bits[t] = bits

(* The caller has started the workers 1..made[c], all of them unless one   *)
(* could not be started, and has seen them go before it publishes.         *)
Crewed(c) ==
  /\ \A i \in Worker : worker[c][i].at = "none" <=> i > made[c]
  /\ at[c] \in {"admit", "lease"} => made[c] = 0 /\ ~unmade[c]
  /\ at[c] = "create" => made[c] < Crew /\ ~unmade[c]
  /\ kind[c] = "save" => at[c] \in {"admit", "lease"} \cup Joined /\ made[c] = 0 /\ bad[c] = {}
  /\ kind[c] # "save" /\ at[c] \in {"open", "notify", "join"} \cup Joined =>
       unmade[c] \/ made[c] = Crew
  /\ at[c] \in {"open", "notify"} => Of(c).gate
  /\ at[c] \in {"lease", "leave"} => Of(c).outer
  /\ at[c] \in Joined => \A i \in Worker : worker[c][i].at \in {"none", "gone"}
  /\ stop[c] # {} => unmade[c]
  /\ start[c] = "cancel" => unmade[c]

(* Whoever sleeps is at the gate.                                          *)
Sleepers(c) ==
  \A i \in asleep[c] :
    IF i = 0 THEN at[c] = "open" ELSE i \in Worker /\ worker[c][i].at = "gate"

(* Leases are held for the whole of a request, and for the whole of a task.*)
Leased(c) ==
  /\ held[Self(c)] = IF Of(c).outer /\ at[c] \in Started THEN 1 ELSE 0
  /\ \A i \in Worker :
       /\ worker[c][i].at = "work" => held[ThreadOf(c, i)] = Of(c).depth
       /\ worker[c][i].at \in {"lease", "release"} => held[ThreadOf(c, i)] <= Of(c).depth
       /\ worker[c][i].at \notin {"lease", "work", "release"} => held[ThreadOf(c, i)] = 0

(* A task has one worker, and is executed once at most.                    *)
Drawn(c) ==
  /\ \A i \in Worker :
       /\ worker[c][i].at \in {"ready", "gate"} => Of(c).gate
       /\ worker[c][i].at = "draw" => ~Of(c).gate
       /\ worker[c][i].at = "check" => kind[c] = "responses"
       /\ Waiting(c, i) \/ worker[c][i].at = "release" =>
            /\ worker[c][i].task \in Tasks
            /\ IF Of(c).gate THEN worker[c][i].task = i ELSE worker[c][i].task <= next[c]
       /\ Waiting(c, i) => runs[c][worker[c][i].task] = 0
       /\ worker[c][i].at = "release" => runs[c][worker[c][i].task] = 1
       /\ \A j \in Worker :
            Waiting(c, i) /\ Waiting(c, j) /\ worker[c][i].task = worker[c][j].task => i = j
  /\ \A t \in Tasks :
       /\ runs[c][t] \in {0, 1}
       /\ runs[c][t] = 1 => IF Of(c).gate THEN t \in Worker /\ worker[c][t].at \in {"release", "gone"}
                            ELSE t <= next[c]

(* A response worker gives up when another has failed.                     *)
GivenUp(c) == kind[c] = "responses" /\ first[c] # None

(* No task is lost, and no worker goes before its time.                    *)
Accounted(c) ==
  /\ ~Of(c).gate => \A t \in Tasks : t <= next[c] =>
       \/ runs[c][t] = 1 \/ GivenUp(c)
       \/ \E i \in Worker : Waiting(c, i) /\ worker[c][i].task = t
  /\ \A i \in Worker : worker[c][i].at = "gone" =>
       \/ unmade[c]
       \/ IF Of(c).gate THEN runs[c][i] = 1 ELSE next[c] >= Task \/ GivenUp(c)
  /\ first[c] # None => first[c] \in Failed(c)
  /\ Failed(c) # {} => first[c] # None

(* What is returned is what the workers left behind.                       *)
Returned(c) ==
  /\ at[c] \notin Joined => outcome[c] = Ends("none", None)
  /\ at[c] \in Joined =>
       IF kind[c] = "save" THEN outcome[c] \in {Ends("none", None), Ends("ok", None)}
       ELSE outcome[c] = Result(c)

(* Each worker reports once, and draws past the last task once.            *)
Counted(c) ==
  /\ next[c] <= Task + Cardinality({i \in Worker : worker[c][i].at = "gone"})
  /\ ready[c] <= Cardinality({i \in Worker : worker[c][i].at \notin {"none", "ready"}})

Local(c) ==
  Crewed(c) /\ Sleepers(c) /\ Leased(c) /\ Drawn(c) /\ Accounted(c) /\ Returned(c) /\ Counted(c)

PoolInv == TypeOK /\ LeaseAgreed /\ \A c \in Caller : Local(c)

------------------------------------------------------------------------------
LEMMA Traits ==
  ASSUME TypeOK, NEW c \in Caller
  PROVE  /\ Of(c).outer \in BOOLEAN /\ Of(c).gate \in BOOLEAN /\ Of(c).token \in BOOLEAN
         /\ Of(c).depth \in 0..2 /\ (Of(c).depth = 0 => Of(c).outer)
         /\ Of(c).failure \in {"result", "slot", "first"}
         /\ (Of(c).failure = "first" <=> kind[c] = "responses")
         /\ (Of(c).gate => kind[c] = "arms" /\ Of(c).failure = "slot")
         /\ (kind[c] = "save" => Of(c).outer /\ Of(c).failure = "slot")
<1>1. kind[c] \in {"batch", "many", "columns", "rows", "responses", "arms", "save"}
  BY DEF TypeOK, Trait
<1>2. CASE kind[c] = "batch"
  <2>1. Of(c) = [outer |-> FALSE, depth |-> 1,
                gate |-> FALSE, token |-> FALSE, failure |-> "result"]
    BY <1>2 DEF Of, Trait
  <2> QED  BY <1>2, <2>1
<1>3. CASE kind[c] = "many"
  <2>1. Of(c) = [outer |-> FALSE, depth |-> 1,
                gate |-> FALSE, token |-> TRUE, failure |-> "result"]
    BY <1>3 DEF Of, Trait
  <2> QED  BY <1>3, <2>1
<1>4. CASE kind[c] = "columns"
  <2>1. Of(c) = [outer |-> FALSE, depth |-> 2,
                gate |-> FALSE, token |-> TRUE, failure |-> "slot"]
    BY <1>4 DEF Of, Trait
  <2> QED  BY <1>4, <2>1
<1>5. CASE kind[c] = "rows"
  <2>1. Of(c) = [outer |-> TRUE, depth |-> 1,
                gate |-> FALSE, token |-> FALSE, failure |-> "slot"]
    BY <1>5 DEF Of, Trait
  <2> QED  BY <1>5, <2>1
<1>6. CASE kind[c] = "responses"
  <2>1. Of(c) = [outer |-> TRUE, depth |-> 0,
                gate |-> FALSE, token |-> FALSE, failure |-> "first"]
    BY <1>6 DEF Of, Trait
  <2> QED  BY <1>6, <2>1
<1>7. CASE kind[c] = "arms"
  <2>1. Of(c) = [outer |-> TRUE, depth |-> 1,
                gate |-> TRUE, token |-> FALSE, failure |-> "slot"]
    BY <1>7 DEF Of, Trait
  <2> QED  BY <1>7, <2>1
<1>8. CASE kind[c] = "save"
  <2>1. Of(c) = [outer |-> TRUE, depth |-> 0,
                gate |-> FALSE, token |-> FALSE, failure |-> "slot"]
    BY <1>8 DEF Of, Trait
  <2> QED  BY <1>8, <2>1
<1> QED  BY <1>1, <1>2, <1>3, <1>4, <1>5, <1>6, <1>7, <1>8

LEMMA Sizes ==
  /\ Task \in Nat /\ Crew \in Nat /\ Crew >= 1 /\ Crew <= Task /\ Worker \subseteq Tasks
  /\ Worker \subseteq 0..Crew /\ 0 \notin Worker /\ \A t \in Tasks : t \in Nat /\ t # 0
  /\ None \notin Tasks
BY PoolAssumption DEF Worker, Tasks

LEMMA Threads ==
  ASSUME NEW c \in Caller
  PROVE  /\ Self(c) \in Thread /\ Self(c) = <<c, 0>>
         /\ \A i \in Worker : ThreadOf(c, i) \in Thread /\ ThreadOf(c, i) = <<c, i>>
         /\ \A i \in 0..Crew : <<c, i>> \in Thread
BY PoolAssumption, Sizes DEF Self, ThreadOf, AllThreads

LEMMA Gathered ==
  ASSUME NEW S \in SUBSET Worker, NEW T \in SUBSET Worker, S \subseteq T
  PROVE  /\ Cardinality(S) \in Nat /\ Cardinality(T) \in Nat /\ Cardinality(S) <= Cardinality(T)
         /\ Cardinality(T) <= Crew
         /\ \A i \in T \ S : Cardinality(S) + 1 <= Cardinality(T)
<1>1. IsFiniteSet(Worker) /\ Cardinality(Worker) = Crew
  BY Sizes, FS_Interval DEF Worker
<1>2. IsFiniteSet(S) /\ IsFiniteSet(T)
  BY <1>1, FS_Subset
<1>3. /\ Cardinality(S) \in Nat /\ Cardinality(T) \in Nat /\ Cardinality(S) <= Cardinality(T)
      /\ Cardinality(T) <= Crew
  BY <1>1, <1>2, FS_Subset, FS_CardinalityType
<1>4. ASSUME NEW i \in T \ S  PROVE Cardinality(S) + 1 <= Cardinality(T)
  <2>1. Cardinality(S \cup {i}) = Cardinality(S) + 1
    BY <1>2, <1>4, FS_AddElement
  <2>2. Cardinality(S \cup {i}) <= Cardinality(T)
    BY <1>2, <1>4, FS_Subset
  <2> QED  BY <2>1, <2>2
<1> QED  BY <1>3, <1>4

(* The lowest task of a set.                                               *)
Lowest(S) == CHOOSE t \in S : \A u \in S : t <= u

LEMMA LowestTask ==
  ASSUME NEW S \in SUBSET Tasks, S # {}
  PROVE  Lowest(S) \in S /\ \A u \in S : Lowest(S) <= u
<1>1. S \in SUBSET Nat
  BY Sizes
<1>2. PICK t \in S : \A u \in S : <<u, t>> \notin OpToRel(<, Nat)
  BY <1>1, WFMin, NatLessThanWellFounded, Zenon
<1>3. \A u \in S : ~(u < t)
  <2> TAKE u \in S
  <2>1. u \in Nat /\ t \in Nat /\ <<u, t>>[1] = u /\ <<u, t>>[2] = t /\ <<u, t>> \in Nat \X Nat
    BY <1>1
  <2> QED  BY <1>2, <2>1, Zenon DEF OpToRel
<1>4. \A u \in S : t <= u
  BY <1>1, <1>3
<1> QED  BY <1>4 DEF Lowest

LEMMA Results ==
  ASSUME NEW c \in Caller
  PROVE  Result(c) = IF unmade[c] THEN Ends("unmade", None)
                     ELSE IF Of(c).failure = "result" \/ Failed(c) = {} THEN Ends("ok", None)
                     ELSE IF Of(c).failure = "first" THEN Ends("threw", first[c])
                     ELSE Ends("threw", Lowest(Failed(c)))
BY DEF Result, Lowest

------------------------------------------------------------------------------
(* Leases.                                                                 *)
LEMMA Acquires ==
  ASSUME LeaseTypeOK, LeaseAgreed, NEW t \in Thread, Acquire(t)
  PROVE  /\ LeaseTypeOK' /\ LeaseAgreed' /\ held'[t] = held[t] + 1
         /\ \A u \in Thread : u # t => held'[u] = held[u]
<1>1. /\ held'[t] = held[t] + 1 /\ held[t] \in Nat
      /\ \A u \in Thread : u # t => held'[u] = held[u]
  BY DEF LeaseTypeOK, Acquire
<1>2. LeaseTypeOK'
  BY <1>1 DEF LeaseTypeOK, Acquire
<1>3. LeaseAgreed'
  BY <1>1 DEF LeaseAgreed, LeaseTypeOK, Acquire, Admits, Holders
<1> QED  BY <1>1, <1>2, <1>3

LEMMA Releases ==
  ASSUME LeaseTypeOK, LeaseAgreed, NEW t \in Thread, Release(t)
  PROVE  /\ LeaseTypeOK' /\ LeaseAgreed' /\ held'[t] = held[t] - 1 /\ held[t] > 0
         /\ \A u \in Thread : u # t => held'[u] = held[u]
<1>1. /\ held'[t] = held[t] - 1 /\ held[t] \in Nat /\ held[t] > 0
      /\ \A u \in Thread : u # t => held'[u] = held[u]
  BY DEF LeaseTypeOK, Release
<1>2. LeaseTypeOK'
  BY <1>1 DEF LeaseTypeOK, Release
<1>3. LeaseAgreed'
  BY <1>1 DEF LeaseAgreed, LeaseTypeOK, Release, Holders
<1> QED  BY <1>1, <1>2, <1>3

LEMMA Stays ==
  ASSUME LeaseTypeOK, LeaseAgreed,
         UNCHANGED leaseVars \/ \E t \in Thread : AwaitLease(t)
  PROVE  LeaseTypeOK' /\ LeaseAgreed' /\ held' = held
BY DEF leaseVars, AwaitLease, LeaseTypeOK, LeaseAgreed, Holders

------------------------------------------------------------------------------
(* What a step of one request leaves alone.                                *)
Elsewhere(c) ==
  \A d \in Caller : d # c =>
    /\ kind'[d] = kind[d] /\ bad'[d] = bad[d] /\ at'[d] = at[d]
    /\ made'[d] = made[d] /\ unmade'[d] = unmade[d] /\ next'[d] = next[d]
    /\ worker'[d] = worker[d] /\ runs'[d] = runs[d] /\ first'[d] = first[d]
    /\ stop'[d] = stop[d] /\ ready'[d] = ready[d] /\ start'[d] = start[d]
    /\ asleep'[d] = asleep[d] /\ outcome'[d] = outcome[d]
    /\ \A i \in 0..Crew : held'[<<d, i>>] = held[<<d, i>>]

LEMMA Undisturbed ==
  ASSUME PoolInv, NEW c \in Caller, NEW d \in Caller, d # c, Elsewhere(c)
  PROVE  Local(d)'
<1> USE DEF PoolInv, Local
<1>1. Of(d)' = Of(d) /\ Failed(d)' = Failed(d)
  BY DEF Elsewhere, Of, Failed
<1>2. Crewed(d)' /\ Sleepers(d)'
  BY <1>1 DEF Elsewhere, Crewed, Sleepers
<1>3. Leased(d)'
  <2>1. held'[Self(d)] = held[Self(d)]
    BY Threads, Sizes DEF Elsewhere
  <2>2. \A i \in Worker : held'[ThreadOf(d, i)] = held[ThreadOf(d, i)]
    <3> TAKE i \in Worker
    <3>1. i \in 0..Crew /\ ThreadOf(d, i) = <<d, i>>
      BY Threads, Sizes
    <3> QED  BY <3>1 DEF Elsewhere
  <2> QED  BY <1>1, <2>1, <2>2 DEF Elsewhere, Leased
<1>4. Drawn(d)'
  BY <1>1 DEF Elsewhere, Drawn, Waiting
<1>5. Accounted(d)'
  BY <1>1 DEF Elsewhere, Accounted, Waiting, GivenUp
<1>6. Result(d)' = Result(d)
  BY <1>1 DEF Elsewhere, Result
<1>7. Returned(d)'
  BY <1>6 DEF Elsewhere, Returned
<1>8. Counted(d)'
  <2>1. worker'[d] = worker[d] /\ next'[d] = next[d] /\ ready'[d] = ready[d]
    BY DEF Elsewhere
  <2>2. Counted(d)
    OBVIOUS
  <2> QED  BY ONLY <2>1, <2>2 DEF Counted
<1> QED  BY <1>2, <1>3, <1>4, <1>5, <1>7, <1>8

LEMMA SameTasks ==
  ASSUME PoolInv, NEW c \in Caller, unmade[c] => unmade'[c],
         UNCHANGED <<kind, bad, next, worker, runs, first, ready>>
  PROVE  Drawn(c)' /\ Accounted(c)' /\ Counted(c)'
<1> USE DEF PoolInv, Local
<1>1. Drawn(c)'
  BY DEF Drawn, Waiting, Of
<1>2. Accounted(c)'
  BY DEF Accounted, Waiting, GivenUp, Of, Failed
<1>3. Counted(c)'
  BY DEF Counted
<1> QED  BY <1>1, <1>2, <1>3

LEMMA SameLeases ==
  ASSUME PoolInv, NEW c \in Caller, UNCHANGED <<kind, worker>>, held' = held,
         Of(c).outer => (at'[c] \in Started <=> at[c] \in Started)
  PROVE  Leased(c)'
BY DEF PoolInv, Local, Leased, Of

LEMMA SameReturn ==
  ASSUME PoolInv, NEW c \in Caller,
         UNCHANGED <<kind, bad, runs, first, outcome>>, at'[c] \in Joined <=> at[c] \in Joined,
         at[c] \in Joined => UNCHANGED unmade
  PROVE  Returned(c)'
<1>1. at[c] \in Joined => Result(c)' = Result(c)
  BY DEF Result, Of, Failed
<1> QED  BY <1>1 DEF PoolInv, Local, Returned

LEMMA ThreadsElsewhere ==
  ASSUME NEW c \in Caller, NEW t, t = Self(c) \/ \E i \in Worker : t = ThreadOf(c, i),
         \A u \in Thread : u # t => held'[u] = held[u]
  PROVE  \A d \in Caller : d # c => \A i \in 0..Crew : held'[<<d, i>>] = held[<<d, i>>]
<1> SUFFICES ASSUME NEW d \in Caller, d # c, NEW i \in 0..Crew
             PROVE  held'[<<d, i>>] = held[<<d, i>>]
  OBVIOUS
<1>1. <<d, i>> \in Thread
  BY Threads
<1>2. <<d, i>> # t
  BY Threads
<1> QED  BY <1>1, <1>2

(* What each step of c has to keep.                                        *)
Kept(c) == TypeOK' /\ LeaseAgreed' /\ Local(c)' /\ Elsewhere(c)

------------------------------------------------------------------------------
(* The caller.                                                             *)
LEMMA AdmitStep ==
  ASSUME PoolInv, NEW c \in Caller, Admit(c)
  PROVE  Kept(c)
<1> DEFINE place == IF Of(c).outer THEN "lease" ELSE "create"
<1>1. /\ at[c] = "admit" /\ at' = [at EXCEPT ![c] = place]
      /\ UNCHANGED <<kind, bad, made, unmade, next, worker, runs, first, stop, ready, start,
                     asleep, outcome, leaseVars>>
      /\ mutex' = mutex \/ mutex' = [mutex EXCEPT ![SessionOf[c]] = c]
  BY DEF Admit, Goes
<1>2. LeaseTypeOK' /\ LeaseAgreed' /\ held' = held
  BY <1>1, Stays DEF PoolInv, TypeOK
<1>3. at'[c] = place /\ \A d \in Caller : d # c => at'[d] = at[d]
  BY <1>1 DEF PoolInv, TypeOK
<1>4. place \in {"lease", "create"} /\ (place = "lease" <=> Of(c).outer)
  OBVIOUS
<1> HIDE DEF place
<1>5. TypeOK'
  BY <1>1, <1>2, <1>4 DEF PoolInv, TypeOK, Places
<1>6. Crewed(c)'
  BY <1>1, <1>3, <1>4, Sizes, Traits DEF PoolInv, Local, Crewed, Of, Joined
<1>7. Sleepers(c)'
  BY <1>1, <1>3 DEF PoolInv, Local, Sleepers
<1>8. Leased(c)'
  BY <1>1, <1>2, <1>3, <1>4, SameLeases DEF Started
<1>9. Drawn(c)' /\ Accounted(c)' /\ Counted(c)'
  BY <1>1, SameTasks
<1>10. Returned(c)'
  BY <1>1, <1>3, <1>4, SameReturn DEF Joined
<1>11. Elsewhere(c)
  BY <1>1, <1>2, <1>3 DEF Elsewhere
<1> QED  BY <1>2, <1>5, <1>6, <1>7, <1>8, <1>9, <1>10, <1>11 DEF Kept, Local

LEMMA CallerLeaseStep ==
  ASSUME PoolInv, NEW c \in Caller, CallerLease(c)
  PROVE  Kept(c)
<1> DEFINE place == IF kind[c] = "save" THEN "publish" ELSE "create"
<1>1. /\ at[c] = "lease" /\ Of(c).outer
      /\ UNCHANGED <<kind, bad, mutex, made, unmade, next, worker, runs, first, stop, ready,
                     start, asleep, outcome>>
  BY DEF CallerLease, PoolInv, Local, Crewed
<1>2. Drawn(c)' /\ Accounted(c)' /\ Counted(c)'
  BY <1>1, SameTasks
<1>3. CASE Acquire(Self(c)) /\ Goes(c, place)
  <2>1. /\ LeaseTypeOK' /\ LeaseAgreed' /\ held'[Self(c)] = held[Self(c)] + 1
        /\ \A u \in Thread : u # Self(c) => held'[u] = held[u]
    BY <1>3, Threads, Acquires DEF PoolInv, TypeOK
  <2>2. /\ at' = [at EXCEPT ![c] = place]
        /\ at'[c] = place /\ \A d \in Caller : d # c => at'[d] = at[d]
    BY <1>3 DEF Goes, PoolInv, TypeOK
  <2>3. place \in {"publish", "create"} /\ (place = "publish" <=> kind[c] = "save")
    OBVIOUS
  <2> HIDE DEF place
  <2>4. TypeOK'
    BY <1>1, <2>1, <2>2, <2>3 DEF PoolInv, TypeOK, Places
  <2>5. made[c] = 0 /\ ~unmade[c] /\ \A i \in Worker : worker[c][i].at = "none"
    BY <1>1, Sizes DEF PoolInv, Local, Crewed, Worker
  <2>6. Crewed(c)'
    BY <1>1, <2>2, <2>3, <2>5, Sizes DEF PoolInv, Local, Crewed, Of, Joined
  <2>7. Sleepers(c)'
    BY <1>1, <2>2 DEF PoolInv, Local, Sleepers
  <2>8. Leased(c)'
    <3>1. held'[Self(c)] = 1
      BY <1>1, <2>1 DEF PoolInv, Local, Leased, Started
    <3>2. \A i \in Worker : held'[ThreadOf(c, i)] = held[ThreadOf(c, i)]
      BY <2>1, Threads, Sizes
    <3> QED  BY <1>1, <2>2, <2>3, <3>1, <3>2 DEF PoolInv, Local, Leased, Of, Started
  <2>9. Returned(c)'
    BY <1>1, <2>2, <2>3 DEF PoolInv, Local, Returned, Joined
  <2>10. Elsewhere(c)
    BY <1>1, <2>1, <2>2, ThreadsElsewhere DEF Elsewhere
  <2> QED  BY <1>2, <2>1, <2>4, <2>6, <2>7, <2>8, <2>9, <2>10 DEF Kept, Local
<1>4. CASE AwaitLease(Self(c)) /\ UNCHANGED at
  <2>1. LeaseTypeOK' /\ LeaseAgreed' /\ held' = held
    BY <1>4, Threads, Stays DEF PoolInv, TypeOK
  <2>2. TypeOK'
    BY <1>1, <1>4, <2>1 DEF PoolInv, TypeOK
  <2>3. Crewed(c)' /\ Sleepers(c)'
    BY <1>1, <1>4 DEF PoolInv, Local, Crewed, Sleepers, Of
  <2>4. Leased(c)' /\ Returned(c)'
    BY <1>1, <1>4, <2>1, SameLeases, SameReturn
  <2>5. Elsewhere(c)
    BY <1>1, <1>4, <2>1 DEF Elsewhere
  <2> QED  BY <1>2, <2>1, <2>2, <2>3, <2>4, <2>5 DEF Kept, Local
<1> QED  BY <1>1, <1>3, <1>4 DEF CallerLease

LEMMA CreateStep ==
  ASSUME PoolInv, NEW c \in Caller, Create(c)
  PROVE  Kept(c)
<1> DEFINE m == made[c] + 1
           station == IF Of(c).gate THEN "ready" ELSE "draw"
           place == IF m # Crew THEN "create" ELSE IF Of(c).gate THEN "open" ELSE "join"
<1>1. /\ at[c] = "create" /\ made[c] < Crew /\ made[c] \in Nat /\ m \in Worker /\ kind[c] # "save"
      /\ ~unmade[c]
  <2>1. at[c] = "create" /\ made[c] < Crew /\ made[c] \in 0..Crew
    BY DEF Create, PoolInv, TypeOK
  <2>2. kind[c] # "save" /\ ~unmade[c]
    BY <2>1 DEF PoolInv, Local, Crewed, Joined
  <2> QED  BY <2>1, <2>2, Sizes DEF Worker
<1>2. /\ made' = [made EXCEPT ![c] = m] /\ made'[c] = m
      /\ worker' = [worker EXCEPT ![c][m].at = station]
      /\ UNCHANGED <<kind, bad, mutex, unmade, next, runs, first, stop, ready, start, asleep,
                     outcome, leaseVars>>
  BY DEF Create, PoolInv, TypeOK
<1>3. /\ at' = [at EXCEPT ![c] = place] /\ at'[c] = place
      /\ \A d \in Caller : d # c => at'[d] = at[d]
  BY <1>1, <1>2 DEF Create, Goes, PoolInv, TypeOK
<1>4. /\ station \in {"ready", "draw"} /\ (station = "ready" <=> Of(c).gate)
      /\ place \in {"create", "open", "join"} /\ (place = "create" <=> m # Crew)
      /\ (place = "open" => Of(c).gate)
  OBVIOUS
<1> HIDE DEF station, place
<1>5. LeaseTypeOK' /\ LeaseAgreed' /\ held' = held
  BY <1>2, Stays DEF PoolInv, TypeOK
<1>6. /\ worker'[c][m].at = station /\ worker'[c][m].task = worker[c][m].task
      /\ \A i \in Worker : i # m => worker'[c][i] = worker[c][i]
      /\ \A d \in Caller : d # c => worker'[d] = worker[d] /\ made'[d] = made[d]
      /\ worker[c][m].at = "none"
  <2>1. /\ worker \in [Caller -> [Worker -> [at : Stations, task : Tasks \cup {None}]]]
        /\ made \in [Caller -> 0..Crew]
    BY DEF PoolInv, TypeOK
  <2>2. worker[c][m].at = "none"
    BY <1>1, Sizes DEF PoolInv, Local, Crewed, Worker
  <2> HIDE DEF m
  <2>3. worker[c][m] \in [at : Stations, task : Tasks \cup {None}]
    BY <1>1, <2>1
  <2>4. worker'[c] = [worker[c] EXCEPT ![m].at = station]
    BY <1>2, <2>1
  <2>5. worker'[c][m] = [worker[c][m] EXCEPT !.at = station]
    BY <1>1, <2>1, <2>4
  <2>6. worker'[c][m].at = station /\ worker'[c][m].task = worker[c][m].task
    BY <2>3, <2>5
  <2> QED  BY <1>1, <1>2, <2>1, <2>2, <2>4, <2>6
<1> HIDE DEF m
<1>7. TypeOK'
  <2>1. worker' \in [Caller -> [Worker -> [at : Stations, task : Tasks \cup {None}]]]
    <3>1. station \in Stations
      BY <1>4 DEF Stations
    <3>2. worker \in [Caller -> [Worker -> [at : Stations, task : Tasks \cup {None}]]]
      BY DEF PoolInv, TypeOK
    <3> DEFINE r == [worker[c][m] EXCEPT !.at = station]
               w == [worker[c] EXCEPT ![m] = r]
    <3>3. r \in [at : Stations, task : Tasks \cup {None}]
      <4>1. worker[c][m] \in [at : Stations, task : Tasks \cup {None}]
        BY <1>1, <3>2
      <4> QED  BY <3>1, <4>1
    <3>4. worker' = [worker EXCEPT ![c] = w]
      BY <1>2
    <3> HIDE DEF r
    <3>5. w \in [Worker -> [at : Stations, task : Tasks \cup {None}]]
      BY <1>1, <3>2, <3>3
    <3> HIDE DEF w
    <3> QED  BY <3>2, <3>4, <3>5
  <2>2. m \in 0..Crew
    BY <1>1, Sizes
  <2> QED  BY <1>2, <1>3, <1>4, <1>5, <2>1, <2>2 DEF PoolInv, TypeOK, Places
<1>8. Crewed(c)'
  <2>1. \A i \in Worker : worker'[c][i].at = "none" <=> i > m
    BY <1>1, <1>4, <1>6 DEF PoolInv, Local, Crewed, Worker, m
  <2> QED
    BY <1>1, <1>2, <1>3, <1>4, <2>1, Sizes DEF PoolInv, Local, Crewed, Of, Joined, Worker
<1>9. Sleepers(c)'
  BY <1>1, <1>2, <1>3, <1>6 DEF PoolInv, Local, Sleepers
<1>10. Leased(c)'
  BY <1>1, <1>2, <1>3, <1>4, <1>5, <1>6 DEF PoolInv, Local, Leased, Of, Started
<1>11. \A i \in Worker : Waiting(c, i)' <=> Waiting(c, i)
  BY <1>4, <1>6 DEF Waiting
<1>12. Drawn(c)'
  BY <1>2, <1>4, <1>6, <1>11 DEF PoolInv, Local, Drawn, Of, Waiting
<1>13. Accounted(c)'
  BY <1>2, <1>4, <1>6, <1>11 DEF PoolInv, Local, Accounted, Of, GivenUp, Failed, Waiting
<1>14. Counted(c)'
  <2> DEFINE S == {i \in Worker : worker[c][i].at \notin {"none", "ready"}}
             T == {i \in Worker : worker'[c][i].at \notin {"none", "ready"}}
  <2>1. {i \in Worker : worker'[c][i].at = "gone"} = {i \in Worker : worker[c][i].at = "gone"}
    BY <1>4, <1>6
  <2>2. S \in SUBSET Worker /\ T \in SUBSET Worker /\ S \subseteq T
    BY <1>4, <1>6
  <2>3. ready[c] \in Nat /\ ready[c] <= Cardinality(S)
    <3>1. ready[c] \in 0..Crew
      BY DEF PoolInv, TypeOK
    <3>2. ready[c] <= Cardinality(S)
      BY DEF PoolInv, Local, Counted
    <3> QED  BY <3>1, <3>2
  <2> HIDE DEF S, T
  <2>4. /\ Cardinality(S) \in Nat /\ Cardinality(T) \in Nat
        /\ Cardinality(S) <= Cardinality(T)
    BY <2>2, Gathered
  <2>5. ready'[c] <= Cardinality(T)
    BY <1>2, <2>3, <2>4
  <2> QED  BY <1>2, <2>1, <2>5 DEF PoolInv, Local, Counted, T
<1>15. Returned(c)'
  BY <1>1, <1>2, <1>3, <1>4 DEF PoolInv, Local, Returned, Joined
<1>16. Elsewhere(c)
  BY <1>2, <1>3, <1>5, <1>6 DEF Elsewhere
<1> QED  BY <1>5, <1>7, <1>8, <1>9, <1>10, <1>12, <1>13, <1>14, <1>15, <1>16 DEF Kept, Local

LEMMA CreateFailsStep ==
  ASSUME PoolInv, NEW c \in Caller, CreateFails(c)
  PROVE  Kept(c)
<1> DEFINE place == IF Of(c).gate THEN "notify" ELSE "join"
<1>1. /\ at[c] = "create" /\ made[c] < Crew /\ made[c] \in Nat /\ kind[c] # "save"
      /\ UNCHANGED <<kind, bad, mutex, made, next, worker, runs, first, ready, asleep, outcome,
                     leaseVars>>
      /\ unmade' = [unmade EXCEPT ![c] = TRUE] /\ unmade'[c]
      /\ \A d \in Caller : d # c => unmade'[d] = unmade[d]
  <2>1. at[c] = "create" /\ made[c] < Crew /\ made[c] \in 0..Crew
    BY DEF CreateFails, PoolInv, TypeOK
  <2>2. kind[c] # "save"
    BY <2>1 DEF PoolInv, Local, Crewed, Joined
  <2>3. unmade \in [Caller -> BOOLEAN] /\ unmade' = [unmade EXCEPT ![c] = TRUE]
    BY DEF CreateFails, PoolInv, TypeOK
  <2> QED  BY <2>1, <2>2, <2>3 DEF CreateFails
<1>2. /\ at' = [at EXCEPT ![c] = place] /\ at'[c] = place
      /\ \A d \in Caller : d # c => at'[d] = at[d]
  BY DEF CreateFails, Goes, PoolInv, TypeOK
<1>3. /\ start' \in [Caller -> {"no", "yes", "cancel"}] /\ stop' \in [Caller -> SUBSET Worker]
      /\ \A d \in Caller : d # c => start'[d] = start[d] /\ stop'[d] = stop[d]
  <2>1. 1..made[c] \in SUBSET Worker
    BY <1>1, Sizes DEF Worker
  <2>2. start' = [start EXCEPT ![c] = "cancel"] \/ start' = start
    BY DEF CreateFails
  <2>3. stop' = [stop EXCEPT ![c] = 1..made[c]] \/ stop' = stop
    BY DEF CreateFails
  <2>4. start \in [Caller -> {"no", "yes", "cancel"}] /\ stop \in [Caller -> SUBSET Worker]
    BY DEF PoolInv, TypeOK
  <2>5. /\ start' \in [Caller -> {"no", "yes", "cancel"}]
        /\ \A d \in Caller : d # c => start'[d] = start[d]
    BY <2>2, <2>4
  <2>6. /\ stop' \in [Caller -> SUBSET Worker]
        /\ \A d \in Caller : d # c => stop'[d] = stop[d]
    BY <2>1, <2>3, <2>4
  <2> QED  BY <2>5, <2>6
<1>4. place \in {"notify", "join"} /\ (place = "notify" => Of(c).gate)
  OBVIOUS
<1> HIDE DEF place
<1>5. LeaseTypeOK' /\ LeaseAgreed' /\ held' = held
  BY <1>1, Stays DEF PoolInv, TypeOK
<1>6. TypeOK'
  BY <1>1, <1>2, <1>3, <1>4, <1>5 DEF PoolInv, TypeOK, Places
<1>7. Crewed(c)' /\ Sleepers(c)'
  BY <1>1, <1>2, <1>4 DEF PoolInv, Local, Crewed, Sleepers, Of, Joined
<1>8. Leased(c)'
  BY <1>1, <1>2, <1>4, <1>5, SameLeases DEF Started
<1>9. Drawn(c)' /\ Accounted(c)' /\ Counted(c)'
  BY <1>1, SameTasks
<1>10. Returned(c)'
  BY <1>1, <1>2, <1>4, SameReturn DEF Joined
<1>11. Elsewhere(c)
  BY <1>1, <1>2, <1>3, <1>5 DEF Elsewhere
<1> QED  BY <1>5, <1>6, <1>7, <1>8, <1>9, <1>10, <1>11 DEF Kept, Local

LEMMA StopNextStep ==
  ASSUME PoolInv, NEW c \in Caller, StopNext(c)
  PROVE  Kept(c)
<1>1. PICK i \in Worker : stop' = [stop EXCEPT ![c] = @ \cup {i}]
  BY DEF StopNext
<1>2. /\ unmade[c]
      /\ UNCHANGED <<kind, bad, at, mutex, made, unmade, next, worker, runs, first, ready, start,
                     asleep, outcome, leaseVars>>
  BY DEF StopNext
<1>3. LeaseTypeOK' /\ LeaseAgreed' /\ held' = held
  BY <1>2, Stays DEF PoolInv, TypeOK
<1>4. TypeOK'
  BY <1>1, <1>2, <1>3 DEF PoolInv, TypeOK
<1>5. Crewed(c)' /\ Sleepers(c)'
  BY <1>2 DEF PoolInv, Local, Crewed, Sleepers, Of
<1>6. Leased(c)' /\ Drawn(c)' /\ Accounted(c)' /\ Counted(c)' /\ Returned(c)'
  BY <1>2, <1>3, SameLeases, SameTasks, SameReturn
<1>7. Elsewhere(c)
  BY <1>1, <1>2, <1>3 DEF Elsewhere, PoolInv, TypeOK
<1> QED  BY <1>3, <1>4, <1>5, <1>6, <1>7 DEF Kept, Local

LEMMA OpenStep ==
  ASSUME PoolInv, NEW c \in Caller, Open(c)
  PROVE  Kept(c)
<1>1. /\ at[c] = "open" /\ 0 \notin asleep[c]
      /\ UNCHANGED <<kind, bad, mutex, made, unmade, next, worker, runs, first, stop, ready,
                     outcome, leaseVars>>
  BY DEF Open
<1>2. LeaseTypeOK' /\ LeaseAgreed' /\ held' = held
  BY <1>1, Stays DEF PoolInv, TypeOK
<1>3. Drawn(c)' /\ Accounted(c)' /\ Counted(c)'
  BY <1>1, SameTasks
<1>4. CASE /\ start' = [start EXCEPT ![c] = "yes"] /\ Goes(c, "notify")
           /\ UNCHANGED asleep
  <2>1. /\ at' = [at EXCEPT ![c] = "notify"] /\ at'[c] = "notify" /\ start'[c] = "yes"
        /\ \A d \in Caller : d # c => at'[d] = at[d] /\ start'[d] = start[d]
    BY <1>4 DEF Goes, PoolInv, TypeOK
  <2>2. TypeOK'
    BY <1>1, <1>2, <1>4, <2>1 DEF PoolInv, TypeOK, Places
  <2>3. Crewed(c)' /\ Sleepers(c)'
    BY <1>1, <1>4, <2>1 DEF PoolInv, Local, Crewed, Sleepers, Of, Joined
  <2>4. Leased(c)' /\ Returned(c)'
    BY <1>1, <1>2, <2>1, SameLeases, SameReturn DEF Started, Joined
  <2>5. Elsewhere(c)
    BY <1>1, <1>2, <1>4, <2>1 DEF Elsewhere
  <2> QED  BY <1>2, <1>3, <2>2, <2>3, <2>4, <2>5 DEF Kept, Local
<1>5. CASE asleep' = [asleep EXCEPT ![c] = @ \cup {0}] /\ UNCHANGED <<start, at>>
  <2>1. 0 \in 0..Crew
    BY Sizes
  <2>2. TypeOK'
    BY <1>1, <1>2, <1>5, <2>1 DEF PoolInv, TypeOK
  <2>3. Crewed(c)' /\ Sleepers(c)'
    <3>1. asleep'[c] = asleep[c] \cup {0}
      BY <1>5 DEF PoolInv, TypeOK
    <3> QED  BY <1>1, <1>5, <3>1 DEF PoolInv, Local, Crewed, Sleepers, Of
  <2>4. Leased(c)' /\ Returned(c)'
    BY <1>1, <1>2, <1>5, SameLeases, SameReturn
  <2>5. Elsewhere(c)
    BY <1>1, <1>2, <1>5 DEF Elsewhere, PoolInv, TypeOK
  <2> QED  BY <1>2, <1>3, <2>2, <2>3, <2>4, <2>5 DEF Kept, Local
<1> QED  BY <1>4, <1>5 DEF Open

LEMMA NotifyGateStep ==
  ASSUME PoolInv, NEW c \in Caller, NotifyGate(c)
  PROVE  Kept(c)
<1>1. /\ at[c] = "notify" /\ asleep' = [asleep EXCEPT ![c] = {}]
      /\ at' = [at EXCEPT ![c] = "join"] /\ at'[c] = "join" /\ asleep'[c] = {}
      /\ \A d \in Caller : d # c => at'[d] = at[d] /\ asleep'[d] = asleep[d]
      /\ UNCHANGED <<kind, bad, mutex, made, unmade, next, worker, runs, first, stop, ready,
                     start, outcome, leaseVars>>
  BY DEF NotifyGate, Goes, PoolInv, TypeOK
<1>2. LeaseTypeOK' /\ LeaseAgreed' /\ held' = held
  BY <1>1, Stays DEF PoolInv, TypeOK
<1>3. TypeOK'
  BY <1>1, <1>2 DEF PoolInv, TypeOK, Places
<1>4. Crewed(c)' /\ Sleepers(c)'
  BY <1>1 DEF PoolInv, Local, Crewed, Sleepers, Of, Joined
<1>5. Leased(c)' /\ Drawn(c)' /\ Accounted(c)' /\ Counted(c)' /\ Returned(c)'
  BY <1>1, <1>2, SameLeases, SameTasks, SameReturn DEF Started, Joined
<1>6. Elsewhere(c)
  BY <1>1, <1>2 DEF Elsewhere
<1> QED  BY <1>2, <1>3, <1>4, <1>5, <1>6 DEF Kept, Local

LEMMA JoinStep ==
  ASSUME PoolInv, NEW c \in Caller, Join(c)
  PROVE  Kept(c)
<1>1. /\ at[c] = "join" /\ \A i \in 1..made[c] : worker[c][i].at = "gone"
      /\ at' = [at EXCEPT ![c] = "publish"] /\ at'[c] = "publish"
      /\ outcome' = [outcome EXCEPT ![c] = Result(c)] /\ outcome'[c] = Result(c)
      /\ \A d \in Caller : d # c => at'[d] = at[d] /\ outcome'[d] = outcome[d]
      /\ UNCHANGED <<kind, bad, mutex, made, unmade, next, worker, runs, first, stop, ready,
                     start, asleep, leaseVars>>
  BY DEF Join, Goes, PoolInv, TypeOK
<1>2. LeaseTypeOK' /\ LeaseAgreed' /\ held' = held
  BY <1>1, Stays DEF PoolInv, TypeOK
<1>3. kind[c] # "save" /\ made[c] \in 0..Crew
  BY <1>1 DEF PoolInv, TypeOK, Local, Crewed, Joined
<1>4. \A i \in Worker : worker[c][i].at \in {"none", "gone"}
  BY <1>1, <1>3 DEF PoolInv, Local, Crewed, Worker
<1>5. Result(c) \in [how : {"none", "ok", "unmade", "threw"}, task : Tasks \cup {None}]
  <2>1. Failed(c) \in SUBSET Tasks
    BY DEF Failed
  <2>2. Failed(c) # {} => Lowest(Failed(c)) \in Tasks
    BY <2>1, LowestTask
  <2>3. first[c] \in Tasks \cup {None}
    BY DEF PoolInv, TypeOK
  <2> QED  BY <2>2, <2>3, Results DEF Ends
<1>6. TypeOK'
  BY <1>1, <1>2, <1>5 DEF PoolInv, TypeOK, Places
<1>7. Crewed(c)' /\ Sleepers(c)'
  BY <1>1, <1>3, <1>4 DEF PoolInv, Local, Crewed, Sleepers, Of, Joined
<1>8. Leased(c)' /\ Drawn(c)' /\ Accounted(c)' /\ Counted(c)'
  BY <1>1, <1>2, SameLeases, SameTasks DEF Started
<1>9. Returned(c)'
  <2>1. Result(c)' = Result(c)
    BY <1>1 DEF Result, Of, Failed
  <2> QED  BY <1>1, <1>3, <2>1 DEF Returned, Joined
<1>10. Elsewhere(c)
  BY <1>1, <1>2 DEF Elsewhere
<1> QED  BY <1>2, <1>6, <1>7, <1>8, <1>9, <1>10 DEF Kept, Local

LEMMA PublishStep ==
  ASSUME PoolInv, NEW c \in Caller, Publish(c)
  PROVE  Kept(c)
<1> DEFINE place == IF Of(c).outer THEN "leave" ELSE "done"
<1>1. /\ at[c] = "publish"
      /\ at' = [at EXCEPT ![c] = place] /\ at'[c] = place
      /\ \A d \in Caller : d # c => at'[d] = at[d]
      /\ UNCHANGED <<kind, bad, mutex, made, unmade, next, worker, runs, first, stop, ready,
                     start, asleep, leaseVars>>
  BY DEF Publish, Goes, PoolInv, TypeOK
<1>2. place \in {"leave", "done"} /\ (place = "leave" <=> Of(c).outer)
  OBVIOUS
<1> HIDE DEF place
<1>3. LeaseTypeOK' /\ LeaseAgreed' /\ held' = held
  BY <1>1, Stays DEF PoolInv, TypeOK
<1>4. /\ outcome' \in [Caller -> [how : {"none", "ok", "unmade", "threw"}, task : Tasks \cup {None}]]
      /\ \A d \in Caller : d # c => outcome'[d] = outcome[d]
      /\ IF kind[c] = "save" THEN outcome'[c] = Ends("ok", None) ELSE outcome'[c] = outcome[c]
  <2>1. Ends("ok", None) \in [how : {"none", "ok", "unmade", "threw"}, task : Tasks \cup {None}]
    BY DEF Ends
  <2>2. CASE kind[c] = "save"
    BY <2>1, <2>2 DEF Publish, PoolInv, TypeOK
  <2>3. CASE kind[c] # "save"
    BY <2>3 DEF Publish, PoolInv, TypeOK
  <2> QED  BY <2>2, <2>3
<1>5. TypeOK'
  BY <1>1, <1>2, <1>3, <1>4 DEF PoolInv, TypeOK, Places
<1>6. Crewed(c)' /\ Sleepers(c)'
  BY <1>1, <1>2 DEF PoolInv, Local, Crewed, Sleepers, Of, Joined
<1>7. Leased(c)' /\ Drawn(c)' /\ Accounted(c)' /\ Counted(c)'
  BY <1>1, <1>2, <1>3, SameLeases, SameTasks DEF Started
<1>8. Returned(c)'
  <2>1. Result(c)' = Result(c)
    BY <1>1 DEF Result, Of, Failed
  <2> QED  BY <1>1, <1>2, <1>4, <2>1 DEF PoolInv, Local, Returned, Joined
<1>9. Elsewhere(c)
  BY <1>1, <1>3, <1>4 DEF Elsewhere
<1> QED  BY <1>3, <1>5, <1>6, <1>7, <1>8, <1>9 DEF Kept, Local

LEMMA LeaveStep ==
  ASSUME PoolInv, NEW c \in Caller, Leave(c)
  PROVE  Kept(c)
<1>1. /\ at[c] = "leave" /\ Release(Self(c))
      /\ at' = [at EXCEPT ![c] = "done"] /\ at'[c] = "done"
      /\ \A d \in Caller : d # c => at'[d] = at[d]
      /\ mutex' = mutex \/ mutex' = [mutex EXCEPT ![SessionOf[c]] = None]
      /\ UNCHANGED <<kind, bad, made, unmade, next, worker, runs, first, stop, ready, start,
                     asleep, outcome>>
  BY DEF Leave, Goes, PoolInv, TypeOK
<1>2. /\ LeaseTypeOK' /\ LeaseAgreed' /\ held'[Self(c)] = held[Self(c)] - 1
      /\ \A u \in Thread : u # Self(c) => held'[u] = held[u]
  BY <1>1, Threads, Releases DEF PoolInv, TypeOK
<1>3. TypeOK'
  BY <1>1, <1>2 DEF PoolInv, TypeOK, Places
<1>4. Crewed(c)' /\ Sleepers(c)'
  BY <1>1 DEF PoolInv, Local, Crewed, Sleepers, Of, Joined
<1>5. Leased(c)'
  <2>1. held[Self(c)] = 1 /\ Of(c).outer
    BY <1>1 DEF PoolInv, Local, Leased, Crewed, Started
  <2>2. \A i \in Worker : held'[ThreadOf(c, i)] = held[ThreadOf(c, i)]
    BY <1>2, Threads, Sizes
  <2> QED  BY <1>1, <1>2, <2>1, <2>2 DEF PoolInv, Local, Leased, Of, Started
<1>6. Drawn(c)' /\ Accounted(c)' /\ Counted(c)' /\ Returned(c)'
  BY <1>1, SameTasks, SameReturn DEF Joined
<1>7. Elsewhere(c)
  BY <1>1, <1>2, ThreadsElsewhere DEF Elsewhere
<1> QED  BY <1>2, <1>3, <1>4, <1>5, <1>6, <1>7 DEF Kept, Local

------------------------------------------------------------------------------
(* The workers.                                                            *)
WorkerRecord == [at : Stations, task : Tasks \cup {None}]

(* Worker i of c is at a station, the others are where they were.          *)
Moved(c, i, station, task) ==
  /\ worker' \in [Caller -> [Worker -> WorkerRecord]]
  /\ worker'[c][i].at = station /\ worker'[c][i].task = task
  /\ \A j \in Worker : j # i => worker'[c][j] = worker[c][j]
  /\ \A d \in Caller : d # c => worker'[d] = worker[d]

LEMMA Moves ==
  ASSUME PoolInv, NEW c \in Caller, NEW i \in Worker, NEW station \in Stations,
         NEW task \in Tasks \cup {None}, Puts(c, i, station, task)
  PROVE  Moved(c, i, station, task)
<1> DEFINE r == [at |-> station, task |-> task]
           w == [worker[c] EXCEPT ![i] = r]
<1>1. worker \in [Caller -> [Worker -> WorkerRecord]]
  BY DEF PoolInv, TypeOK, WorkerRecord
<1>2. r \in WorkerRecord /\ r.at = station /\ r.task = task
  BY DEF WorkerRecord
<1>3. worker' = [worker EXCEPT ![c] = w]
  BY DEF Puts
<1> HIDE DEF r
<1>4. /\ w \in [Worker -> WorkerRecord] /\ w[i] = r
      /\ \A j \in Worker : j # i => w[j] = worker[c][j]
  BY <1>1, <1>2
<1> HIDE DEF w
<1> QED  BY <1>1, <1>2, <1>3, <1>4 DEF Moved

Steady == UNCHANGED <<kind, bad, at, mutex, made, unmade, stop, start, outcome>>

LEMMA AtWork ==
  ASSUME PoolInv, NEW c \in Caller, NEW i \in Worker, worker[c][i].at \notin {"none", "gone"}
  PROVE  at[c] \notin Joined /\ at[c] \notin {"admit", "lease"} /\ kind[c] # "save"
         /\ at[c] \in Started /\ worker[c][i] \in WorkerRecord
<1>1. worker[c][i] \in WorkerRecord /\ at[c] \in Places
  BY DEF PoolInv, TypeOK, WorkerRecord
<1>2. at[c] \notin Joined
  BY DEF PoolInv, Local, Crewed
<1>3. ~(i > made[c])
  BY DEF PoolInv, Local, Crewed
<1>4. made[c] # 0
  BY <1>3, Sizes DEF Worker
<1>5. at[c] \notin {"admit", "lease"} /\ kind[c] # "save"
  BY <1>4 DEF PoolInv, Local, Crewed
<1> QED  BY <1>1, <1>2, <1>5 DEF Places, Joined, Started

LEMMA SameCaller ==
  ASSUME PoolInv, NEW c \in Caller, NEW i \in Worker, worker[c][i].at \notin {"none", "gone"},
         Steady, NEW station, station # "none", NEW task, Moved(c, i, station, task)
  PROVE  Crewed(c)' /\ Returned(c)'
<1>1. at[c] \notin Joined
  BY AtWork
<1>2. \A j \in Worker : worker'[c][j].at = "none" <=> worker[c][j].at = "none"
  BY DEF Moved
<1>3. Crewed(c)'
  BY <1>1, <1>2 DEF Steady, PoolInv, Local, Crewed, Of
<1>4. Returned(c)'
  BY <1>1 DEF Steady, PoolInv, Local, Returned
<1> QED  BY <1>3, <1>4

(* The leases of c when its worker i moves, and may take or give one.      *)
LEMMA SameHeld ==
  ASSUME PoolInv, NEW c \in Caller, NEW i \in Worker,
         Steady, NEW station, NEW task, Moved(c, i, station, task),
         \A u \in Thread : u # ThreadOf(c, i) => held'[u] = held[u],
         station = "work" => held'[ThreadOf(c, i)] = Of(c).depth,
         station \in {"lease", "release"} => held'[ThreadOf(c, i)] <= Of(c).depth,
         station \notin {"lease", "work", "release"} => held'[ThreadOf(c, i)] = 0
  PROVE  Leased(c)'
<1>1. held'[Self(c)] = held[Self(c)]
  BY Threads, Sizes
<1>2. \A j \in Worker : j # i => held'[ThreadOf(c, j)] = held[ThreadOf(c, j)]
  BY Threads
<1> QED  BY <1>1, <1>2 DEF PoolInv, Local, Leased, Moved, Steady, Of

(* The workers that are gone, and those that have reported.                *)
GoneSet(c) == {j \in Worker : worker[c][j].at = "gone"}
Reported(c) == {j \in Worker : worker[c][j].at \notin {"none", "ready"}}

LEMMA Counts ==
  ASSUME PoolInv, NEW c \in Caller
  PROVE  /\ next[c] \in Nat /\ ready[c] \in Nat
         /\ next[c] <= Task + Cardinality(GoneSet(c)) /\ ready[c] <= Cardinality(Reported(c))
         /\ Cardinality(GoneSet(c)) \in Nat /\ Cardinality(Reported(c)) \in Nat
         /\ Cardinality(GoneSet(c)) <= Crew /\ Cardinality(Reported(c)) <= Crew
<1>1. next[c] \in 0..(Task + Crew) /\ ready[c] \in 0..Crew
  BY DEF PoolInv, TypeOK
<1>2. next[c] <= Task + Cardinality(GoneSet(c)) /\ ready[c] <= Cardinality(Reported(c))
  BY DEF PoolInv, Local, Counted, GoneSet, Reported
<1>3. GoneSet(c) \in SUBSET Worker /\ Reported(c) \in SUBSET Worker
  BY DEF GoneSet, Reported
<1>4. /\ Cardinality(GoneSet(c)) \in Nat /\ Cardinality(Reported(c)) \in Nat
      /\ Cardinality(GoneSet(c)) <= Crew /\ Cardinality(Reported(c)) <= Crew
  BY <1>3, Gathered
<1> QED  BY <1>1, <1>2, <1>4

LEMMA MoreCounted ==
  ASSUME PoolInv, NEW c \in Caller, NEW i \in Worker, worker[c][i].at \notin {"none", "gone"},
         NEW station, NEW task, Moved(c, i, station, task), station \notin {"none", "ready"},
         UNCHANGED ready \/ (worker[c][i].at = "ready" /\ ready'[c] = ready[c] + 1),
         \/ UNCHANGED next \/ next'[c] \in 0..Task
         \/ station = "gone" /\ next'[c] = next[c] + 1
  PROVE  Counted(c)' /\ next'[c] <= Task + Crew /\ ready'[c] <= Crew
<1> DEFINE G == GoneSet(c)
           H == GoneSet(c)'
           S == Reported(c)
           T == Reported(c)'
<1>1. /\ G \in SUBSET Worker /\ H \in SUBSET Worker /\ G \subseteq H
      /\ (station = "gone" => i \in H \ G)
  BY DEF GoneSet, Moved
<1>2. /\ S \in SUBSET Worker /\ T \in SUBSET Worker /\ S \subseteq T
      /\ (worker[c][i].at = "ready" => i \in T \ S)
  BY DEF Reported, Moved
<1> HIDE DEF G, H, S, T
<1>3. /\ Cardinality(G) \in Nat /\ Cardinality(H) \in Nat /\ Cardinality(G) <= Cardinality(H)
      /\ Cardinality(H) <= Crew /\ (station = "gone" => Cardinality(G) + 1 <= Cardinality(H))
  BY <1>1, Gathered
<1>4. /\ Cardinality(S) \in Nat /\ Cardinality(T) \in Nat /\ Cardinality(S) <= Cardinality(T)
      /\ Cardinality(T) <= Crew
      /\ (worker[c][i].at = "ready" => Cardinality(S) + 1 <= Cardinality(T))
  BY <1>2, Gathered
<1>5. /\ next[c] \in Nat /\ ready[c] \in Nat
      /\ next[c] <= Task + Cardinality(G) /\ ready[c] <= Cardinality(S)
  BY Counts DEF G, S
<1>6. next'[c] <= Task + Cardinality(H)
  <2>1. CASE UNCHANGED next
    BY <1>3, <1>5, <2>1, Sizes
  <2>2. CASE next'[c] \in 0..Task
    BY <1>3, <2>2, Sizes
  <2>3. CASE station = "gone" /\ next'[c] = next[c] + 1
    BY <1>3, <1>5, <2>3, Sizes
  <2> QED  BY <2>1, <2>2, <2>3
<1>7. ready'[c] <= Cardinality(T)
  BY <1>4, <1>5
<1>8. next'[c] \in Nat /\ ready'[c] \in Nat
  BY <1>5, Sizes
<1>9. next'[c] <= Task + Crew /\ ready'[c] <= Crew
  BY <1>3, <1>4, <1>6, <1>7, <1>8, Sizes
<1> QED  BY <1>6, <1>7, <1>9 DEF Counted, H, T, GoneSet, Reported

LEMMA ReportStep ==
  ASSUME PoolInv, NEW c \in Caller, NEW i \in Worker, Report(c, i)
  PROVE  Kept(c)
<1>1. /\ worker[c][i].at = "ready" /\ Puts(c, i, "gate", None)
      /\ ready' = [ready EXCEPT ![c] = @ + 1]
      /\ \E A \in {{i}, {}} : asleep' = [asleep EXCEPT ![c] = A]
      /\ Steady /\ UNCHANGED <<next, runs, first, leaseVars>>
  BY DEF Report, Steady
<1>2. Moved(c, i, "gate", None)
  BY <1>1, Moves DEF Stations
<1>3. LeaseTypeOK' /\ LeaseAgreed' /\ held' = held
  BY <1>1, Stays DEF PoolInv, TypeOK
<1>4. /\ ready'[c] = ready[c] + 1 /\ asleep'[c] \in {{i}, {}}
      /\ \A d \in Caller : d # c => ready'[d] = ready[d] /\ asleep'[d] = asleep[d]
  BY <1>1 DEF PoolInv, TypeOK
<1>5. Counted(c)' /\ ready'[c] <= Crew
  BY <1>1, <1>2, <1>4, MoreCounted
<1>6. TypeOK'
  <2>1. ready'[c] \in 0..Crew
    BY <1>4, <1>5, Counts, Sizes
  <2>2. ready' \in [Caller -> 0..Crew]
    BY <1>1, <2>1 DEF PoolInv, TypeOK
  <2>3. asleep' \in [Caller -> SUBSET (0..Crew)]
    BY <1>1, Sizes DEF PoolInv, TypeOK
  <2> QED  BY <1>1, <1>2, <1>3, <2>2, <2>3 DEF PoolInv, TypeOK, Steady, Moved, WorkerRecord
<1>7. Crewed(c)' /\ Returned(c)'
  BY <1>1, <1>2, SameCaller
<1>8. Sleepers(c)'
  BY <1>2, <1>4, Sizes DEF Moved, Sleepers
<1>9. Of(c).gate /\ held[ThreadOf(c, i)] = 0
  BY <1>1 DEF PoolInv, Local, Drawn, Leased
<1>10. Leased(c)'
  BY <1>1, <1>2, <1>3, <1>9, SameHeld
<1>11. \A j \in Worker : Waiting(c, j)' <=> Waiting(c, j)
  BY <1>1, <1>2 DEF Waiting, Moved
<1>12. Drawn(c)'
  <2>1. Of(c)' = Of(c) /\ UNCHANGED <<kind, runs, next>>
    BY <1>1 DEF Of, Steady
  <2>2. ~Waiting(c, i)
    BY <1>1 DEF Waiting
  <2> QED  BY <1>1, <1>2, <1>9, <1>11, <2>1, <2>2 DEF PoolInv, Local, Drawn, Moved
<1>13. Accounted(c)'
  BY <1>1, <1>2, <1>9, <1>11 DEF PoolInv, Local, Accounted, Of, GivenUp, Failed, Moved, Steady
<1>14. Elsewhere(c)
  BY <1>1, <1>2, <1>3, <1>4 DEF Elsewhere, Moved, Steady
<1> QED  BY <1>3, <1>5, <1>6, <1>7, <1>8, <1>10, <1>12, <1>13, <1>14 DEF Kept, Local

(* Most steps move a worker and leave the gate alone.                      *)
LEMMA Passes ==
  ASSUME PoolInv, NEW c \in Caller, NEW i \in Worker, worker[c][i].at \notin {"none", "gone"},
         NEW station, NEW task, Moved(c, i, station, task), station \notin {"none", "ready"},
         Steady, UNCHANGED <<ready, asleep>>, i \notin asleep[c]
  PROVE  Crewed(c)' /\ Returned(c)' /\ Sleepers(c)'
<1>1. Sleepers(c)'
  BY DEF PoolInv, Local, Sleepers, Moved, Steady
<1> QED  BY <1>1, SameCaller

LEMMA Awake ==
  ASSUME PoolInv, NEW c \in Caller, NEW i \in Worker, worker[c][i].at # "gate"
  PROVE  i \notin asleep[c]
BY Sizes DEF PoolInv, Local, Sleepers

LEMMA PassGateStep ==
  ASSUME PoolInv, NEW c \in Caller, NEW i \in Worker, PassGate(c, i)
  PROVE  Kept(c)
<1>1. /\ worker[c][i].at = "gate" /\ i \notin asleep[c]
      /\ Steady /\ UNCHANGED <<next, runs, first, ready, leaseVars>>
  BY DEF PassGate, Steady
<1>2. LeaseTypeOK' /\ LeaseAgreed' /\ held' = held
  BY <1>1, Stays DEF PoolInv, TypeOK
<1>3. Of(c).gate /\ held[ThreadOf(c, i)] = 0 /\ Of(c).depth \in 0..2
  BY <1>1, Traits DEF PoolInv, Local, Drawn, Leased
<1>4. CASE start[c] = "no"
  <2>1. asleep' = [asleep EXCEPT ![c] = @ \cup {i}] /\ UNCHANGED worker
    BY <1>4 DEF PassGate
  <2>2. asleep'[c] = asleep[c] \cup {i} /\ \A d \in Caller : d # c => asleep'[d] = asleep[d]
    BY <2>1 DEF PoolInv, TypeOK
  <2>3. TypeOK'
    <3>1. i \in 0..Crew
      BY Sizes
    <3> QED  BY <1>1, <1>2, <2>1, <3>1 DEF PoolInv, TypeOK, Steady
  <2>4. Crewed(c)' /\ Sleepers(c)'
    BY <1>1, <2>1, <2>2, Sizes DEF PoolInv, Local, Crewed, Sleepers, Of, Steady
  <2>5. Leased(c)' /\ Returned(c)' /\ Drawn(c)' /\ Accounted(c)' /\ Counted(c)'
    BY <1>1, <1>2, <2>1, SameLeases, SameReturn, SameTasks DEF Steady
  <2>6. Elsewhere(c)
    BY <1>1, <1>2, <2>1, <2>2 DEF Elsewhere, Steady
  <2> QED  BY <1>2, <2>3, <2>4, <2>5, <2>6 DEF Kept, Local
<1>5. ASSUME NEW station \in {"lease", "gone"}, NEW task \in Tasks \cup {None},
             Puts(c, i, station, task), UNCHANGED asleep,
             station = "lease" => task = i, station = "gone" => start[c] = "cancel"
      PROVE  Kept(c)
  <2>1. Moved(c, i, station, task)
    BY <1>5, Moves DEF Stations
  <2>2. Crewed(c)' /\ Returned(c)' /\ Sleepers(c)' /\ Counted(c)'
    BY <1>1, <1>5, <2>1, Passes, MoreCounted
  <2>3. Leased(c)'
    BY <1>1, <1>2, <1>3, <1>5, <2>1, SameHeld
  <2>4. runs[c][i] = 0 /\ i \in Tasks
    BY <1>1, <1>3, Sizes DEF PoolInv, Local, Drawn
  <2>5. \A j \in Worker : Waiting(c, j)' <=> IF j = i THEN station = "lease" ELSE Waiting(c, j)
    BY <1>5, <2>1 DEF Waiting, Moved
  <2>6. Drawn(c)'
    BY <1>1, <1>3, <1>5, <2>1, <2>4, <2>5 DEF PoolInv, Local, Drawn, Of, Waiting, Moved, Steady
  <2>7. Accounted(c)'
    <3>1. start[c] = "cancel" => unmade[c]
      BY DEF PoolInv, Local, Crewed
    <3> QED
      BY <1>1, <1>3, <1>5, <2>1, <2>5, <3>1
      DEF PoolInv, Local, Accounted, Of, GivenUp, Failed, Moved, Steady
  <2>8. TypeOK'
    BY <1>1, <1>2, <1>5, <2>1 DEF PoolInv, TypeOK, Steady, Moved, WorkerRecord
  <2>9. Elsewhere(c)
    BY <1>1, <1>2, <1>5, <2>1 DEF Elsewhere, Moved, Steady
  <2> QED  BY <1>2, <2>2, <2>3, <2>6, <2>7, <2>8, <2>9 DEF Kept, Local
<1>6. start[c] \in {"no", "yes", "cancel"} /\ i \in Tasks
  BY Sizes DEF PoolInv, TypeOK
<1>7. CASE start[c] = "yes"
  <2>1. Puts(c, i, "lease", i) /\ UNCHANGED asleep
    BY <1>7 DEF PassGate
  <2> QED  BY <1>5, <1>6, <2>1
<1>8. CASE start[c] = "cancel"
  <2>1. Puts(c, i, "gone", None) /\ UNCHANGED asleep
    BY <1>8 DEF PassGate
  <2> QED  BY <1>5, <1>8, <2>1
<1> QED  BY <1>4, <1>6, <1>7, <1>8

LEMMA DrawStep ==
  ASSUME PoolInv, NEW c \in Caller, NEW i \in Worker, Draw(c, i)
  PROVE  Kept(c)
<1>1. /\ worker[c][i].at = "draw" /\ i \notin asleep[c]
      /\ Steady /\ UNCHANGED <<runs, first, ready, asleep, leaseVars>>
  BY Awake DEF Draw, Steady
<1>2. LeaseTypeOK' /\ LeaseAgreed' /\ held' = held
  BY <1>1, Stays DEF PoolInv, TypeOK
<1>3. /\ ~Of(c).gate /\ held[ThreadOf(c, i)] = 0 /\ Of(c).depth \in 0..2
      /\ next[c] \in Nat
  BY <1>1, Traits, Counts DEF PoolInv, Local, Drawn, Leased
<1>4. ASSUME NEW station \in {"check", "lease", "gone"}, NEW task \in Tasks \cup {None},
             Puts(c, i, station, task),
             \A d \in Caller : d # c => next'[d] = next[d],
             next' \in [Caller -> Nat],
             \/ station = "gone" /\ UNCHANGED next /\ unmade[c]
             \/ station = "gone" /\ next'[c] = next[c] + 1 /\ next[c] >= Task
             \/ /\ station # "gone" /\ next'[c] = next[c] + 1 /\ next[c] < Task
                /\ task = next[c] + 1 /\ (station = "check" => kind[c] = "responses")
      PROVE  Kept(c)
  <2>1. Moved(c, i, station, task)
    BY <1>4, Moves DEF Stations
  <2>2. Crewed(c)' /\ Returned(c)' /\ Sleepers(c)'
    BY <1>1, <1>4, <2>1, Passes
  <2>3. Counted(c)' /\ next'[c] <= Task + Crew
    <3>1. \/ UNCHANGED next \/ next'[c] \in 0..Task
          \/ station = "gone" /\ next'[c] = next[c] + 1
      BY <1>3, <1>4, Sizes
    <3> QED  BY <1>1, <1>4, <2>1, <3>1, MoreCounted
  <2>4. Leased(c)'
    BY <1>1, <1>2, <1>3, <1>4, <2>1, SameHeld
  <2>5. \A j \in Worker : Waiting(c, j)' <=> IF j = i THEN station # "gone" ELSE Waiting(c, j)
    BY <1>4, <2>1 DEF Waiting, Moved
  <2>6. next'[c] \in Nat /\ next'[c] >= next[c]
    BY <1>3, <1>4
  <2>7. station # "gone" => /\ runs[c][task] = 0 /\ task \in Tasks /\ task <= next'[c]
                            /\ \A j \in Worker : Waiting(c, j) => worker[c][j].task # task
    <3>1. ASSUME station # "gone"
          PROVE  /\ task \in Tasks /\ task <= next'[c] /\ ~(task <= next[c])
      BY <1>3, <1>4, <3>1, Sizes DEF Tasks
    <3> QED  BY <1>3, <3>1 DEF PoolInv, Local, Drawn
  <2>8. Drawn(c)'
    <3>1. \A j \in Worker : worker[c][j].task \in Tasks /\ worker[c][j].task <= next[c] =>
            worker[c][j].task <= next'[c]
      <4> TAKE j \in Worker
      <4> DEFINE t == worker[c][j].task
      <4>1. t \in Tasks /\ t <= next[c] => t <= next'[c]
        <5> HIDE DEF t
        <5> QED  BY <1>3, <2>6, Sizes
      <4> QED  BY <4>1
    <3>2. \A t \in Tasks : t <= next[c] => t <= next'[c]
      BY <1>3, <2>6, Sizes
    <3>3. ~Of(c)'.gate
      BY <1>1, <1>3 DEF Of, Steady
    <3>4. ASSUME NEW j \in Worker
          PROVE  /\ worker'[c][j].at \in {"ready", "gate"} => Of(c)'.gate
                 /\ worker'[c][j].at = "draw" => ~Of(c)'.gate
                 /\ worker'[c][j].at = "check" => kind'[c] = "responses"
                 /\ Waiting(c, j)' \/ worker'[c][j].at = "release" =>
                      worker'[c][j].task \in Tasks /\ worker'[c][j].task <= next'[c]
                 /\ Waiting(c, j)' => runs'[c][worker'[c][j].task] = 0
                 /\ worker'[c][j].at = "release" => runs'[c][worker'[c][j].task] = 1
      <4>1. CASE j = i
        BY <1>1, <1>4, <2>1, <2>5, <2>7, <3>3, <4>1 DEF Moved, Steady
      <4>2. CASE j # i
        BY <1>1, <1>3, <2>1, <2>5, <3>1, <3>3, <4>2 DEF PoolInv, Local, Drawn, Moved, Steady
      <4> QED  BY <4>1, <4>2
    <3>5. ASSUME NEW j \in Worker, NEW k \in Worker, Waiting(c, j)', Waiting(c, k)',
                 worker'[c][j].task = worker'[c][k].task
          PROVE  j = k
      BY <2>1, <2>5, <2>7, <3>5 DEF PoolInv, Local, Drawn, Moved
    <3>6. \A t \in Tasks : runs'[c][t] \in {0, 1} /\ (runs'[c][t] = 1 => t <= next'[c])
      BY <1>1, <1>3, <3>2 DEF PoolInv, Local, Drawn
    <3> QED  BY <3>3, <3>4, <3>5, <3>6 DEF Drawn
  <2>9. Accounted(c)'
    <3>1. /\ Failed(c)' = Failed(c) /\ (GivenUp(c)' <=> GivenUp(c)) /\ Of(c)' = Of(c)
      BY <1>1 DEF Failed, GivenUp, Of, Steady
    <3>2. ASSUME NEW t \in Tasks, t <= next'[c], ~GivenUp(c), runs[c][t] # 1
          PROVE  \E j \in Worker : Waiting(c, j)' /\ worker'[c][j].task = t
      <4>1. CASE t <= next[c]
        <5>1. PICK j \in Worker : Waiting(c, j) /\ worker[c][j].task = t
          BY <1>3, <3>2, <4>1 DEF PoolInv, Local, Accounted
        <5>2. j # i
          BY <1>1, <5>1 DEF Waiting
        <5> QED  BY <2>1, <2>5, <5>1, <5>2 DEF Moved
      <4>2. CASE ~(t <= next[c])
        <5>1. station # "gone" /\ t = task
          BY <1>3, <1>4, <3>2, <4>2, Sizes DEF Tasks
        <5> QED  BY <2>1, <2>5, <5>1 DEF Moved
      <4> QED  BY <4>1, <4>2
    <3>3. ASSUME NEW j \in Worker, worker'[c][j].at = "gone"
          PROVE  unmade[c] \/ next'[c] >= Task \/ GivenUp(c)
      <4>1. CASE j = i
        BY <1>3, <1>4, <2>1, <3>3, <4>1, Sizes DEF Moved
      <4>2. CASE j # i
        <5>1. unmade[c] \/ next[c] >= Task \/ GivenUp(c)
          BY <1>3, <2>1, <3>3, <4>2 DEF PoolInv, Local, Accounted, Moved
        <5> QED  BY <1>3, <2>6, <5>1, Sizes
      <4> QED  BY <4>1, <4>2
    <3> QED  BY <1>1, <1>3, <3>1, <3>2, <3>3 DEF PoolInv, Local, Accounted, Steady
  <2>10. TypeOK'
    <3>1. next' \in [Caller -> 0..(Task + Crew)]
      <4>1. \A d \in Caller : next'[d] \in 0..(Task + Crew)
        <5> TAKE d \in Caller
        <5>1. CASE d = c
          BY <2>3, <2>6, <5>1, Sizes
        <5>2. CASE d # c
          BY <1>4, <5>2 DEF PoolInv, TypeOK
        <5> QED  BY <5>1, <5>2
      <4> QED  BY <1>4, <4>1
    <3> QED  BY <1>1, <1>2, <2>1, <3>1 DEF PoolInv, TypeOK, Steady, Moved, WorkerRecord
  <2>11. Elsewhere(c)
    BY <1>1, <1>2, <1>4, <2>1 DEF Elsewhere, Moved, Steady
  <2> QED  BY <1>2, <2>2, <2>3, <2>4, <2>8, <2>9, <2>10, <2>11 DEF Kept, Local
<1>5. next \in [Caller -> Nat]
  BY Sizes DEF PoolInv, TypeOK
<1>6. CASE Of(c).token /\ i \in stop[c]
  <2>1. Puts(c, i, "gone", None) /\ UNCHANGED next
    BY <1>6 DEF Draw
  <2>2. unmade[c]
    BY <1>6 DEF PoolInv, Local, Crewed
  <2> QED  BY <1>4, <1>5, <2>1, <2>2
<1>7. CASE ~(Of(c).token /\ i \in stop[c])
  <2>1. next' = [next EXCEPT ![c] = @ + 1]
    BY <1>7 DEF Draw
  <2>2. /\ next' \in [Caller -> Nat] /\ next'[c] = next[c] + 1
        /\ \A d \in Caller : d # c => next'[d] = next[d]
    BY <1>5, <2>1
  <2>3. CASE next[c] >= Task
    <3>1. Puts(c, i, "gone", None)
      BY <1>7, <2>3 DEF Draw
    <3> QED  BY <1>4, <2>2, <2>3, <3>1
  <2>4. CASE next[c] < Task
    <3>1. Puts(c, i, Begins(c), next[c] + 1)
      BY <1>3, <1>7, <2>4, Sizes DEF Draw
    <3>2. next[c] + 1 \in Tasks
      BY <1>3, <2>4, Sizes DEF Tasks
    <3>3. Begins(c) \in {"check", "lease"} /\ (Begins(c) = "check" => kind[c] = "responses")
      BY DEF Begins
    <3> QED  BY <1>4, <2>2, <2>4, <3>1, <3>2, <3>3
  <2> QED  BY <1>3, <2>3, <2>4, Sizes
<1> QED  BY <1>6, <1>7

LEMMA CheckStep ==
  ASSUME PoolInv, NEW c \in Caller, NEW i \in Worker, Check(c, i)
  PROVE  Kept(c)
<1> DEFINE t == worker[c][i].task
<1>1. /\ worker[c][i].at = "check" /\ i \notin asleep[c] /\ kind[c] = "responses"
      /\ Steady /\ UNCHANGED <<next, runs, first, ready, asleep, leaseVars>>
  <2>1. worker[c][i].at = "check"
    BY DEF Check
  <2> QED  BY <2>1, Awake DEF Check, Steady, PoolInv, Local, Drawn
<1>2. LeaseTypeOK' /\ LeaseAgreed' /\ held' = held
  BY <1>1, Stays DEF PoolInv, TypeOK
<1>3. /\ ~Of(c).gate /\ held[ThreadOf(c, i)] = 0 /\ Of(c).depth \in 0..2
      /\ t \in Tasks /\ Waiting(c, i)
  BY <1>1, Traits DEF PoolInv, Local, Drawn, Leased, Waiting
<1>4. ASSUME NEW station \in {"lease", "gone"}, NEW task \in Tasks \cup {None},
             Puts(c, i, station, task),
             station = "lease" => task = t, station = "gone" => GivenUp(c)
      PROVE  Kept(c)
  <2>1. Moved(c, i, station, task)
    BY <1>4, Moves DEF Stations
  <2>2. Crewed(c)' /\ Returned(c)' /\ Sleepers(c)' /\ Counted(c)'
    BY <1>1, <1>4, <2>1, Passes, MoreCounted
  <2>3. Leased(c)'
    BY <1>1, <1>2, <1>3, <1>4, <2>1, SameHeld
  <2>4. \A j \in Worker : Waiting(c, j)' <=> IF j = i THEN station = "lease" ELSE Waiting(c, j)
    BY <1>4, <2>1 DEF Waiting, Moved
  <2>5. \A j \in Worker : Waiting(c, j)' => Waiting(c, j) /\ worker'[c][j].task = worker[c][j].task
    BY <1>3, <1>4, <2>1, <2>4 DEF Moved
  <2>6. Of(c)' = Of(c) /\ Failed(c)' = Failed(c) /\ (GivenUp(c)' <=> GivenUp(c))
    BY <1>1 DEF Of, Failed, GivenUp, Steady
  <2>7. Drawn(c)'
    BY <1>1, <1>3, <1>4, <2>1, <2>5, <2>6 DEF PoolInv, Local, Drawn, Moved, Steady
  <2>8. Accounted(c)'
    <3>1. ASSUME NEW u \in Tasks, u <= next[c], ~GivenUp(c), runs[c][u] # 1
          PROVE  \E j \in Worker : Waiting(c, j)' /\ worker'[c][j].task = u
      <4>1. PICK j \in Worker : Waiting(c, j) /\ worker[c][j].task = u
        BY <1>3, <3>1 DEF PoolInv, Local, Accounted
      <4> QED  BY <1>4, <2>1, <2>4, <3>1, <4>1 DEF Moved
    <3>2. \A j \in Worker : worker'[c][j].at = "gone" => worker[c][j].at = "gone" \/ GivenUp(c)
      BY <1>4, <2>1 DEF Moved
    <3> QED  BY <1>1, <1>3, <2>6, <3>1, <3>2 DEF PoolInv, Local, Accounted, Steady
  <2>9. TypeOK'
    BY <1>1, <1>2, <2>1 DEF PoolInv, TypeOK, Steady, Moved, WorkerRecord
  <2>10. Elsewhere(c)
    BY <1>1, <1>2, <2>1 DEF Elsewhere, Moved, Steady
  <2> QED  BY <1>2, <2>2, <2>3, <2>7, <2>8, <2>9, <2>10 DEF Kept, Local
<1>5. CASE first[c] = None
  <2>1. Puts(c, i, "lease", t)
    BY <1>5 DEF Check
  <2> QED  BY <1>3, <1>4, <2>1
<1>6. CASE first[c] # None
  <2>1. Puts(c, i, "gone", None)
    BY <1>6 DEF Check
  <2> QED  BY <1>1, <1>4, <1>6, <2>1 DEF GivenUp
<1> QED  BY <1>5, <1>6

LEMMA TaskLeaseStep ==
  ASSUME PoolInv, NEW c \in Caller, NEW i \in Worker, TaskLease(c, i)
  PROVE  Kept(c)
<1> DEFINE n == held[ThreadOf(c, i)]
           t == worker[c][i].task
<1>1. /\ worker[c][i].at = "lease" /\ i \notin asleep[c]
      /\ Steady /\ UNCHANGED <<next, runs, first, ready, asleep>>
  BY Awake DEF TaskLease, Steady
<1>2. /\ n \in Nat /\ n <= Of(c).depth /\ Of(c).depth \in 0..2 /\ ThreadOf(c, i) \in Thread
      /\ t \in Tasks /\ Waiting(c, i)
  <2>1. ThreadOf(c, i) \in Thread
    BY Threads
  <2>2. n \in Nat
    BY <2>1 DEF PoolInv, TypeOK, LeaseTypeOK
  <2> QED  BY <1>1, <2>1, <2>2, Traits DEF PoolInv, Local, Leased, Drawn, Waiting
<1>3. CASE n = Of(c).depth /\ Puts(c, i, "work", t) /\ UNCHANGED leaseVars
  <2>1. LeaseTypeOK' /\ LeaseAgreed' /\ held' = held
    BY <1>3, Stays DEF PoolInv, TypeOK
  <2>2. Moved(c, i, "work", t)
    BY <1>2, <1>3, Moves DEF Stations
  <2>3. Crewed(c)' /\ Returned(c)' /\ Sleepers(c)' /\ Counted(c)'
    BY <1>1, <2>2, Passes, MoreCounted
  <2>4. Leased(c)'
    BY <1>1, <1>3, <2>1, <2>2, SameHeld
  <2>5. \A j \in Worker : /\ Waiting(c, j)' <=> Waiting(c, j)
                          /\ worker'[c][j].task = worker[c][j].task
    BY <1>1, <2>2 DEF Waiting, Moved
  <2>6. Of(c)' = Of(c) /\ Failed(c)' = Failed(c) /\ (GivenUp(c)' <=> GivenUp(c))
    BY <1>1 DEF Of, Failed, GivenUp, Steady
  <2>7. Drawn(c)'
    <3>1. Drawn(c)
      BY DEF PoolInv, Local
    <3> QED  BY <1>1, <1>2, <2>2, <2>5, <2>6, <3>1 DEF Drawn, Moved, Steady
  <2>8. Accounted(c)'
    <3>1. \A j \in Worker : worker'[c][j].at = "gone" => worker[c][j].at = "gone"
      BY <2>2 DEF Moved
    <3>2. ASSUME ~Of(c).gate, NEW u \in Tasks, u <= next[c], ~GivenUp(c), runs[c][u] # 1
          PROVE  \E j \in Worker : Waiting(c, j)' /\ worker'[c][j].task = u
      <4>1. PICK j \in Worker : Waiting(c, j) /\ worker[c][j].task = u
        BY <3>2 DEF PoolInv, Local, Accounted
      <4> QED  BY <2>5, <4>1
    <3> QED  BY <1>1, <2>6, <3>1, <3>2 DEF PoolInv, Local, Accounted, Steady
  <2>9. TypeOK'
    BY <1>1, <2>1, <2>2 DEF PoolInv, TypeOK, Steady, Moved, WorkerRecord
  <2>10. Elsewhere(c)
    BY <1>1, <2>1, <2>2 DEF Elsewhere, Moved, Steady
  <2> QED  BY <2>1, <2>3, <2>4, <2>7, <2>8, <2>9, <2>10 DEF Kept, Local
<1>4. CASE /\ n # Of(c).depth /\ UNCHANGED worker
           /\ Acquire(ThreadOf(c, i)) \/ AwaitLease(ThreadOf(c, i))
  <2>1. /\ LeaseTypeOK' /\ LeaseAgreed' /\ held'[ThreadOf(c, i)] \in {n, n + 1}
        /\ \A u \in Thread : u # ThreadOf(c, i) => held'[u] = held[u]
    <3>1. CASE Acquire(ThreadOf(c, i))
      BY <1>2, <3>1, Acquires DEF PoolInv, TypeOK
    <3>2. CASE AwaitLease(ThreadOf(c, i))
      BY <1>2, <3>2, Stays DEF PoolInv, TypeOK
    <3> QED  BY <1>4, <3>1, <3>2
  <2>2. held'[ThreadOf(c, i)] <= Of(c).depth
    BY <1>2, <1>4, <2>1
  <2>3. Leased(c)'
    <3>1. held'[Self(c)] = held[Self(c)]
      BY <2>1, Threads, Sizes
    <3>2. \A j \in Worker : j # i => held'[ThreadOf(c, j)] = held[ThreadOf(c, j)]
      BY <2>1, Threads
    <3> QED  BY <1>1, <1>4, <2>2, <3>1, <3>2 DEF PoolInv, Local, Leased, Steady, Of
  <2>4. Drawn(c)' /\ Accounted(c)' /\ Counted(c)' /\ Returned(c)'
    BY <1>1, <1>4, SameTasks, SameReturn DEF Steady
  <2>5. Crewed(c)' /\ Sleepers(c)'
    BY <1>1, <1>4 DEF PoolInv, Local, Crewed, Sleepers, Of, Steady
  <2>6. TypeOK'
    BY <1>1, <1>4, <2>1 DEF PoolInv, TypeOK, Steady
  <2>7. Elsewhere(c)
    BY <1>1, <1>4, <2>1, ThreadsElsewhere DEF Elsewhere, Steady
  <2> QED  BY <2>1, <2>3, <2>4, <2>5, <2>6, <2>7 DEF Kept, Local
<1> QED  BY <1>3, <1>4 DEF TaskLease

LEMMA WorkStep ==
  ASSUME PoolInv, NEW c \in Caller, NEW i \in Worker, Work(c, i)
  PROVE  Kept(c)
<1> DEFINE t == worker[c][i].task
<1>1. /\ worker[c][i].at = "work" /\ i \notin asleep[c] /\ Puts(c, i, "release", t)
      /\ runs' = [runs EXCEPT ![c][t] = @ + 1]
      /\ first' = IF t \in bad[c] /\ first[c] = None THEN [first EXCEPT ![c] = t] ELSE first
      /\ Steady /\ UNCHANGED <<next, ready, asleep, leaseVars>>
  BY Awake DEF Work, Steady
<1>2. LeaseTypeOK' /\ LeaseAgreed' /\ held' = held
  BY <1>1, Stays DEF PoolInv, TypeOK
<1>3. /\ t \in Tasks /\ Waiting(c, i) /\ runs[c][t] = 0
      /\ held[ThreadOf(c, i)] = Of(c).depth /\ Of(c).depth \in 0..2
      /\ IF Of(c).gate THEN t = i ELSE t <= next[c]
  BY <1>1, Traits DEF PoolInv, Local, Drawn, Leased, Waiting
<1>4. Moved(c, i, "release", t)
  BY <1>1, <1>3, Moves DEF Stations
<1> HIDE DEF t
<1>5. /\ runs' \in [Caller -> [Tasks -> 0..Crew]]
      /\ runs'[c][t] = 1 /\ \A u \in Tasks : u # t => runs'[c][u] = runs[c][u]
      /\ \A d \in Caller : d # c => runs'[d] = runs[d]
  <2>1. runs \in [Caller -> [Tasks -> 0..Crew]] /\ 1 \in 0..Crew
    BY Sizes DEF PoolInv, TypeOK
  <2>2. runs' = [runs EXCEPT ![c] = [runs[c] EXCEPT ![t] = 1]]
    BY <1>1, <1>3, <2>1
  <2> QED  BY <1>3, <2>1, <2>2
<1>6. /\ first' \in [Caller -> Tasks \cup {None}]
      /\ first'[c] = IF t \in bad[c] /\ first[c] = None THEN t ELSE first[c]
      /\ \A d \in Caller : d # c => first'[d] = first[d]
  BY <1>1, <1>3 DEF PoolInv, TypeOK
<1>7. Crewed(c)' /\ Returned(c)' /\ Sleepers(c)' /\ Counted(c)'
  BY <1>1, <1>4, Passes, MoreCounted
<1>8. Leased(c)'
  BY <1>1, <1>2, <1>3, <1>4, SameHeld
<1>9. /\ \A j \in Worker : worker'[c][j].task = worker[c][j].task
      /\ \A j \in Worker : Waiting(c, j)' <=> Waiting(c, j) /\ j # i
      /\ \A j \in Worker : Waiting(c, j) /\ j # i => worker[c][j].task # t
  BY <1>1, <1>3, <1>4 DEF Waiting, Moved, t, PoolInv, Local, Drawn
<1>10. Of(c)' = Of(c) /\ (GivenUp(c) => GivenUp(c)')
  BY <1>1, <1>3, <1>6, Sizes DEF Of, GivenUp, Steady
<1>11. Drawn(c)'
  <2>1. ASSUME NEW j \in Worker
        PROVE  /\ worker'[c][j].at \in {"ready", "gate"} => Of(c)'.gate
               /\ worker'[c][j].at = "draw" => ~Of(c)'.gate
               /\ worker'[c][j].at = "check" => kind'[c] = "responses"
               /\ Waiting(c, j)' \/ worker'[c][j].at = "release" =>
                    /\ worker'[c][j].task \in Tasks
                    /\ IF Of(c)'.gate THEN worker'[c][j].task = j
                       ELSE worker'[c][j].task <= next'[c]
               /\ Waiting(c, j)' => runs'[c][worker'[c][j].task] = 0
               /\ worker'[c][j].at = "release" => runs'[c][worker'[c][j].task] = 1
    <3>1. CASE j = i
      BY <1>1, <1>3, <1>4, <1>5, <1>9, <1>10, <3>1 DEF Moved
    <3>2. CASE j # i
      <4>1. worker'[c][j] = worker[c][j]
        BY <1>4, <3>2 DEF Moved
      <4>2. \A u \in Tasks : runs[c][u] = 1 => runs'[c][u] = 1
        BY <1>5
      <4> QED
        BY <1>1, <1>5, <1>9, <1>10, <3>2, <4>1, <4>2 DEF PoolInv, Local, Drawn, Steady
    <3> QED  BY <3>1, <3>2
  <2>2. \A j, k \in Worker : Waiting(c, j)' /\ Waiting(c, k)'
                             /\ worker'[c][j].task = worker'[c][k].task => j = k
    BY <1>9 DEF PoolInv, Local, Drawn
  <2>3. \A u \in Tasks :
          /\ runs'[c][u] \in {0, 1}
          /\ runs'[c][u] = 1 =>
               IF Of(c)'.gate THEN u \in Worker /\ worker'[c][u].at \in {"release", "gone"}
               ELSE u <= next'[c]
    <3> TAKE u \in Tasks
    <3>1. CASE u = t
      BY <1>1, <1>3, <1>4, <1>5, <1>10, <3>1 DEF Moved
    <3>2. CASE u # t
      BY <1>1, <1>4, <1>5, <1>10, <3>2 DEF PoolInv, Local, Drawn, Moved
    <3> QED  BY <3>1, <3>2
  <2> QED  BY <2>1, <2>2, <2>3 DEF Drawn
<1>12. Accounted(c)'
  <2>1. ASSUME ~Of(c).gate, NEW u \in Tasks, u <= next[c]
        PROVE  \/ runs'[c][u] = 1 \/ GivenUp(c)'
               \/ \E j \in Worker : Waiting(c, j)' /\ worker'[c][j].task = u
    <3>1. CASE u = t
      BY <1>5, <3>1
    <3>2. CASE u # t
      <4>1. CASE runs[c][u] = 1 \/ GivenUp(c)
        BY <1>5, <1>10, <3>2, <4>1
      <4>2. CASE \E j \in Worker : Waiting(c, j) /\ worker[c][j].task = u
        BY <1>9, <3>2, <4>2 DEF t
      <4> QED  BY <2>1, <4>1, <4>2 DEF PoolInv, Local, Accounted
    <3> QED  BY <3>1, <3>2
  <2>2. \A j \in Worker : runs[c][j] = 1 => runs'[c][j] = 1
    BY <1>5, Sizes
  <2>3. \A j \in Worker : worker'[c][j].at = "gone" => worker[c][j].at = "gone"
    BY <1>4 DEF Moved
  <2>4. \A j \in Worker : worker'[c][j].at = "gone" =>
          \/ unmade'[c]
          \/ IF Of(c)'.gate THEN runs'[c][j] = 1 ELSE next'[c] >= Task \/ GivenUp(c)'
    BY <1>1, <1>10, <2>2, <2>3 DEF PoolInv, Local, Accounted, Steady
  <2>5. Failed(c)' = IF t \in bad[c] THEN Failed(c) \cup {t} ELSE Failed(c)
    BY <1>1, <1>3, <1>5 DEF Failed, Steady
  <2>6. /\ first'[c] # None => first'[c] \in Failed(c)'
        /\ Failed(c)' # {} => first'[c] # None
    BY <1>3, <1>6, <2>5, Sizes DEF PoolInv, Local, Accounted
  <2> QED  BY <1>1, <1>10, <2>1, <2>4, <2>6 DEF Accounted
<1>13. TypeOK'
  BY <1>1, <1>2, <1>4, <1>5, <1>6 DEF PoolInv, TypeOK, Steady, Moved, WorkerRecord
<1>14. Elsewhere(c)
  BY <1>1, <1>2, <1>4, <1>5, <1>6 DEF Elsewhere, Moved, Steady
<1> QED  BY <1>2, <1>7, <1>8, <1>11, <1>12, <1>13, <1>14 DEF Kept, Local

LEMMA TaskReleaseStep ==
  ASSUME PoolInv, NEW c \in Caller, NEW i \in Worker, TaskRelease(c, i)
  PROVE  Kept(c)
<1> DEFINE n == held[ThreadOf(c, i)]
           t == worker[c][i].task
           station == IF Returns(c, i) THEN "gone" ELSE "draw"
<1>1. /\ worker[c][i].at = "release" /\ i \notin asleep[c]
      /\ Steady /\ UNCHANGED <<next, runs, first, ready, asleep>>
  BY Awake DEF TaskRelease, Steady
<1>2. /\ n \in Nat /\ n <= Of(c).depth /\ Of(c).depth \in 0..2 /\ ThreadOf(c, i) \in Thread
      /\ t \in Tasks /\ ~Waiting(c, i) /\ runs[c][t] = 1
      /\ (Of(c).gate => t = i)
  <2>1. ThreadOf(c, i) \in Thread
    BY Threads
  <2>2. n \in Nat
    BY <2>1 DEF PoolInv, TypeOK, LeaseTypeOK
  <2> QED  BY <1>1, <2>1, <2>2, Traits DEF PoolInv, Local, Leased, Drawn, Waiting
<1>3. CASE n = 0 /\ Puts(c, i, station, None) /\ UNCHANGED leaseVars
  <2>1. /\ station \in {"gone", "draw"} /\ (station = "draw" => ~Of(c).gate)
        /\ (station = "gone" => Of(c).gate \/ GivenUp(c))
    <3>1. CASE Of(c).gate
      BY <3>1 DEF Returns
    <3>2. CASE ~Of(c).gate /\ Of(c).failure = "first" /\ t \in bad[c]
      <4>1. t \in Failed(c)
        BY <1>2, <3>2 DEF Failed
      <4> QED  BY <3>2, <4>1, Traits DEF GivenUp, PoolInv, Local, Accounted
    <3>3. CASE ~Of(c).gate /\ ~(Of(c).failure = "first" /\ t \in bad[c])
      BY <3>3 DEF Returns
    <3> QED  BY <3>1, <3>2, <3>3
  <2> HIDE DEF station
  <2>2. LeaseTypeOK' /\ LeaseAgreed' /\ held' = held
    BY <1>3, Stays DEF PoolInv, TypeOK
  <2>3. Moved(c, i, station, None)
    BY <1>3, <2>1, Moves DEF Stations
  <2>4. Crewed(c)' /\ Returned(c)' /\ Sleepers(c)' /\ Counted(c)'
    BY <1>1, <2>1, <2>3, Passes, MoreCounted
  <2>5. Leased(c)'
    BY <1>1, <1>3, <2>1, <2>2, <2>3, SameHeld
  <2>6. \A j \in Worker : Waiting(c, j)' <=> Waiting(c, j)
    BY <1>1, <2>1, <2>3 DEF Waiting, Moved
  <2>7. Of(c)' = Of(c) /\ Failed(c)' = Failed(c) /\ (GivenUp(c)' <=> GivenUp(c))
    BY <1>1 DEF Of, Failed, GivenUp, Steady
  <2>8. Drawn(c)'
    <3>1. ASSUME NEW j \in Worker
          PROVE  /\ worker'[c][j].at \in {"ready", "gate"} => Of(c)'.gate
                 /\ worker'[c][j].at = "draw" => ~Of(c)'.gate
                 /\ worker'[c][j].at = "check" => kind'[c] = "responses"
                 /\ Waiting(c, j)' \/ worker'[c][j].at = "release" =>
                      /\ worker'[c][j].task \in Tasks
                      /\ IF Of(c)'.gate THEN worker'[c][j].task = j
                         ELSE worker'[c][j].task <= next'[c]
                 /\ Waiting(c, j)' => runs'[c][worker'[c][j].task] = 0
                 /\ worker'[c][j].at = "release" => runs'[c][worker'[c][j].task] = 1
      <4>1. CASE j = i
        BY <1>1, <1>2, <2>1, <2>3, <2>6, <2>7, <4>1 DEF Moved
      <4>2. CASE j # i
        <5>1. worker'[c][j] = worker[c][j]
          BY <2>3, <4>2 DEF Moved
        <5> QED
          BY <1>1, <2>6, <2>7, <5>1 DEF PoolInv, Local, Drawn, Steady
      <4> QED  BY <4>1, <4>2
    <3>2. \A j \in Worker : Waiting(c, j) => worker'[c][j].task = worker[c][j].task
      BY <1>2, <2>3 DEF Moved
    <3>3. \A j, k \in Worker : Waiting(c, j)' /\ Waiting(c, k)'
                               /\ worker'[c][j].task = worker'[c][k].task => j = k
      BY <2>6, <3>2 DEF PoolInv, Local, Drawn
    <3>4. \A u \in Worker : worker[c][u].at \in {"release", "gone"} /\ Of(c).gate =>
            worker'[c][u].at \in {"release", "gone"}
      BY <2>1, <2>3 DEF Moved
    <3>5. \A u \in Tasks :
            /\ runs'[c][u] \in {0, 1}
            /\ runs'[c][u] = 1 =>
                 IF Of(c)'.gate THEN u \in Worker /\ worker'[c][u].at \in {"release", "gone"}
                 ELSE u <= next'[c]
      BY <1>1, <2>7, <3>4 DEF PoolInv, Local, Drawn
    <3> QED  BY <3>1, <3>3, <3>5 DEF Drawn
  <2>9. Accounted(c)'
    <3>1. \A j \in Worker : worker'[c][j].at = "gone" =>
            worker[c][j].at = "gone" \/ (j = i /\ (Of(c).gate \/ GivenUp(c)))
      BY <2>1, <2>3 DEF Moved
    <3>2. \A j \in Worker : Waiting(c, j) => worker'[c][j].task = worker[c][j].task
      BY <1>2, <2>3 DEF Moved
    <3>3. Of(c).gate => runs[c][i] = 1
      BY <1>2
    <3> QED
      BY <1>1, <2>6, <2>7, <3>1, <3>2, <3>3, Traits DEF PoolInv, Local, Accounted, Steady, GivenUp
  <2>10. TypeOK'
    BY <1>1, <2>2, <2>3 DEF PoolInv, TypeOK, Steady, Moved, WorkerRecord
  <2>11. Elsewhere(c)
    BY <1>1, <2>2, <2>3 DEF Elsewhere, Moved, Steady
  <2> QED  BY <2>2, <2>4, <2>5, <2>8, <2>9, <2>10, <2>11 DEF Kept, Local
<1>4. CASE Release(ThreadOf(c, i)) /\ UNCHANGED worker
  <2>1. /\ LeaseTypeOK' /\ LeaseAgreed' /\ held'[ThreadOf(c, i)] = n - 1
        /\ \A u \in Thread : u # ThreadOf(c, i) => held'[u] = held[u]
    BY <1>2, <1>4, Releases DEF PoolInv, TypeOK
  <2>2. Leased(c)'
    <3>1. held'[Self(c)] = held[Self(c)]
      BY <2>1, Threads, Sizes
    <3>2. \A j \in Worker : j # i => held'[ThreadOf(c, j)] = held[ThreadOf(c, j)]
      BY <2>1, Threads
    <3>3. held'[ThreadOf(c, i)] <= Of(c).depth
      BY <1>2, <2>1
    <3> QED  BY <1>1, <1>4, <3>1, <3>2, <3>3 DEF PoolInv, Local, Leased, Steady, Of
  <2>3. Drawn(c)' /\ Accounted(c)' /\ Counted(c)' /\ Returned(c)'
    BY <1>1, <1>4, SameTasks, SameReturn DEF Steady
  <2>4. Crewed(c)' /\ Sleepers(c)'
    BY <1>1, <1>4 DEF PoolInv, Local, Crewed, Sleepers, Of, Steady
  <2>5. TypeOK'
    BY <1>1, <1>4, <2>1 DEF PoolInv, TypeOK, Steady
  <2>6. Elsewhere(c)
    BY <1>1, <1>4, <2>1, ThreadsElsewhere DEF Elsewhere, Steady
  <2> QED  BY <2>1, <2>2, <2>3, <2>4, <2>5, <2>6 DEF Kept, Local
<1> QED  BY <1>3, <1>4 DEF TaskRelease

------------------------------------------------------------------------------
LEMMA InitPool == Init => PoolInv
<1> SUFFICES ASSUME Init  PROVE PoolInv
  OBVIOUS
<1>1. LeaseTypeOK /\ LeaseAgreed /\ \A t \in Thread : held[t] = 0
  BY DEF Init, LeaseInit, LeaseTypeOK, LeaseAgreed, Holders
<1>2. TypeOK
  <2>1. /\ made \in [Caller -> 0..Crew] /\ next \in [Caller -> 0..(Task + Crew)]
        /\ runs \in [Caller -> [Tasks -> 0..Crew]] /\ ready \in [Caller -> 0..Crew]
    BY Sizes DEF Init
  <2>2. worker \in [Caller -> [Worker -> [at : Stations, task : Tasks \cup {None}]]]
    BY DEF Init, Idle, Stations
  <2>3. outcome \in [Caller -> [how : {"none", "ok", "unmade", "threw"}, task : Tasks \cup {None}]]
    BY DEF Init, Ends
  <2>4. unmade \in [Caller -> BOOLEAN] /\ start \in [Caller -> {"no", "yes", "cancel"}]
    BY DEF Init
  <2> QED  BY <1>1, <2>1, <2>2, <2>3, <2>4 DEF Init, TypeOK, Places
<1>3. ASSUME NEW c \in Caller  PROVE Local(c)
  <2>1. \A i \in Worker : worker[c][i].at = "none" /\ ~Waiting(c, i)
    BY DEF Init, Idle, Waiting
  <2>2. /\ at[c] = "admit" /\ made[c] = 0 /\ ~unmade[c] /\ next[c] = 0 /\ first[c] = None
        /\ stop[c] = {} /\ ready[c] = 0 /\ start[c] = "no" /\ asleep[c] = {}
        /\ outcome[c] = Ends("none", None) /\ \A t \in Tasks : runs[c][t] = 0
        /\ (kind[c] = "save" => bad[c] = {})
    BY DEF Init
  <2>3. Crewed(c)
    BY <2>1, <2>2, Sizes DEF Crewed, Joined, Worker
  <2>4. Sleepers(c) /\ Returned(c)
    BY <2>2 DEF Sleepers, Returned, Joined
  <2>5. Leased(c)
    BY <1>1, <2>1, <2>2, Threads DEF Leased, Started
  <2>6. Drawn(c)
    BY <2>1, <2>2 DEF Drawn
  <2>7. Accounted(c)
    <3>1. Failed(c) = {}
      <4>1. \A t \in Tasks : ~(runs[c][t] > 0)
        BY <2>2
      <4> QED  BY <4>1 DEF Failed, PoolInv, TypeOK
    <3>2. \A t \in Tasks : ~(t <= next[c])
      BY <2>2, Sizes DEF Tasks
    <3> QED  BY <2>1, <2>2, <3>1, <3>2 DEF Accounted
  <2>8. Counted(c)
    <3>1. /\ {i \in Worker : worker[c][i].at = "gone"} = {}
          /\ {i \in Worker : worker[c][i].at \notin {"none", "ready"}} = {}
      BY <2>1
    <3>2. Cardinality({}) = 0
      BY FS_EmptySet
    <3>3. /\ Cardinality({i \in Worker : worker[c][i].at = "gone"}) = 0
          /\ Cardinality({i \in Worker : worker[c][i].at \notin {"none", "ready"}}) = 0
      BY <3>1, <3>2
    <3> QED  BY <2>2, <3>3, Sizes DEF Counted
  <2> QED  BY <2>3, <2>4, <2>5, <2>6, <2>7, <2>8 DEF Local
<1> QED  BY <1>1, <1>2, <1>3 DEF PoolInv

LEMMA StepPool == PoolInv /\ [Next]_vars => PoolInv'
<1> SUFFICES ASSUME PoolInv, [Next]_vars  PROVE PoolInv'
  OBVIOUS
<1>1. ASSUME NEW c \in Caller, Kept(c)  PROVE PoolInv'
  BY <1>1, Undisturbed DEF Kept, PoolInv
<1>2. ASSUME NEW c \in Caller, CallerStep(c)  PROVE PoolInv'
  <2>1. Kept(c)
    BY <1>2, AdmitStep, CallerLeaseStep, CreateStep, CreateFailsStep, StopNextStep, OpenStep,
       NotifyGateStep, JoinStep, PublishStep, LeaveStep DEF CallerStep
  <2> QED  BY <1>1, <2>1
<1>3. ASSUME NEW c \in Caller, NEW i \in Worker, WorkerStep(c, i)  PROVE PoolInv'
  <2>1. Kept(c)
    BY <1>3, ReportStep, PassGateStep, DrawStep, CheckStep, TaskLeaseStep, WorkStep,
       TaskReleaseStep DEF WorkerStep
  <2> QED  BY <1>1, <2>1
<1>4. CASE UNCHANGED vars
  <2>1. LeaseTypeOK' /\ LeaseAgreed' /\ held' = held
    BY <1>4, Stays DEF PoolInv, TypeOK, vars
  <2>2. TypeOK'
    BY <1>4, <2>1 DEF PoolInv, TypeOK, vars, poolVars
  <2>3. ASSUME NEW c \in Caller  PROVE Local(c)'
    <3>1. Leased(c)' /\ Drawn(c)' /\ Accounted(c)' /\ Counted(c)' /\ Returned(c)'
      BY <1>4, <2>1, SameLeases, SameTasks, SameReturn DEF vars, poolVars
    <3>2. Crewed(c)' /\ Sleepers(c)'
      BY <1>4 DEF PoolInv, Local, Crewed, Sleepers, Of, vars, poolVars
    <3> QED  BY <3>1, <3>2 DEF Local
  <2> QED  BY <2>1, <2>2, <2>3 DEF PoolInv
<1> QED  BY <1>2, <1>3, <1>4 DEF Next

LEMMA PoolInvariant == Spec => []PoolInv
BY InitPool, StepPool, PTL DEF Spec

------------------------------------------------------------------------------
(* A request that was not cut short has executed all of its tasks.         *)
LEMMA AllExecuted ==
  ASSUME PoolInv, NEW c \in Caller, at[c] \in Joined, kind[c] # "save", ~unmade[c], ~GivenUp(c)
  PROVE  \A t \in Tasks : (Of(c).gate => t <= Crew) => runs[c][t] = 1
<1>1. made[c] = Crew /\ \A i \in Worker : worker[c][i].at = "gone"
  <2>1. made[c] = Crew
    BY DEF PoolInv, Local, Crewed
  <2>2. \A i \in Worker : ~(i > Crew)
    BY Sizes DEF Worker
  <2> QED  BY <2>1, <2>2 DEF PoolInv, Local, Crewed
<1>2. CASE Of(c).gate
  <2>1. \A i \in Worker : runs[c][i] = 1
    BY <1>1, <1>2 DEF PoolInv, Local, Accounted
  <2>2. \A t \in Tasks : t <= Crew => t \in Worker
    BY Sizes DEF Tasks, Worker
  <2> QED  BY <1>2, <2>1, <2>2
<1>3. CASE ~Of(c).gate
  <2>1. 1 \in Worker
    BY Sizes DEF Worker
  <2>2. next[c] >= Task /\ next[c] \in Nat
    BY <1>1, <1>3, <2>1, Counts DEF PoolInv, Local, Accounted
  <2>3. \A t \in Tasks : t <= next[c]
    BY <2>2, Sizes DEF Tasks
  <2>4. \A i \in Worker : ~Waiting(c, i)
    BY <1>1 DEF Waiting
  <2>5. Accounted(c)
    BY DEF PoolInv, Local
  <2>6. ASSUME NEW t \in Tasks  PROVE runs[c][t] = 1
    BY <1>3, <2>3, <2>4, <2>5, <2>6 DEF Accounted
  <2> QED  BY <2>6
<1> QED  BY <1>2, <1>3

(* What the outcome of a request tells of it.                              *)
LEMMA Outcomes ==
  ASSUME PoolInv, NEW c \in Caller, kind[c] # "save"
  PROVE  /\ outcome[c].how = "ok" =>
              /\ at[c] \in Joined /\ ~unmade[c] /\ ~GivenUp(c)
              /\ Of(c).failure = "result" \/ Failed(c) = {}
         /\ outcome[c].how = "threw" =>
              /\ at[c] \in Joined /\ ~unmade[c] /\ Failed(c) # {} /\ Of(c).failure # "result"
              /\ outcome[c].task = IF Of(c).failure = "first" THEN first[c] ELSE Lowest(Failed(c))
<1>1. /\ Ends("none", None).how = "none" /\ Ends("unmade", None).how = "unmade"
      /\ Ends("ok", None).how = "ok"
      /\ \A t : Ends("threw", t).how = "threw" /\ Ends("threw", t).task = t
  BY DEF Ends
<1>2. outcome[c].how \in {"ok", "threw"} => at[c] \in Joined /\ outcome[c] = Result(c)
  BY <1>1 DEF PoolInv, Local, Returned
<1>3. ASSUME outcome[c].how = "ok"
      PROVE  ~unmade[c] /\ (Of(c).failure = "result" \/ Failed(c) = {})
  BY <1>1, <1>2, <1>3, Results
<1>4. ASSUME outcome[c].how = "ok"  PROVE ~GivenUp(c)
  BY <1>3, <1>4, Traits DEF PoolInv, Local, Accounted, GivenUp
<1>5. ASSUME outcome[c].how = "threw"
      PROVE  /\ ~unmade[c] /\ Failed(c) # {} /\ Of(c).failure # "result"
             /\ outcome[c].task = IF Of(c).failure = "first" THEN first[c] ELSE Lowest(Failed(c))
  BY <1>1, <1>2, <1>5, Results
<1> QED  BY <1>2, <1>3, <1>4, <1>5

(* Every variable has its type: a counter of tasks is never drawn beyond   *)
(* one past the last task for each worker.                                 *)
THEOREM PoolTypes == Spec => []TypeOK
<1>1. PoolInv => TypeOK
  BY DEF PoolInv
<1> QED  BY <1>1, PoolInvariant, PTL

(* For any callers, crews and precisions, whoever computes does so at the  *)
(* precision in use, and all who hold a lease agree on it.                 *)
THEOREM PrecisionHeld == Spec => []OnePrecision
<1>1. PoolInv => OnePrecision
  <2> SUFFICES ASSUME PoolInv  PROVE OnePrecision
    OBVIOUS
  <2>1. ASSUME NEW c \in Caller, NEW i \in Worker, worker[c][i].at = "work"
        PROVE  \E t \in {Self(c), ThreadOf(c, i)} : held[t] > 0 /\ Bits[t] = bits
    <3>1. held[ThreadOf(c, i)] = Of(c).depth /\ Of(c).depth \in 0..2
      BY <2>1, Traits DEF PoolInv, Local, Leased
    <3>2. CASE Of(c).depth # 0
      <4>1. held[ThreadOf(c, i)] > 0 /\ ThreadOf(c, i) \in Thread
        BY <3>1, <3>2, Threads
      <4> QED  BY <4>1 DEF PoolInv, LeaseAgreed, Holders
    <3>3. CASE Of(c).depth = 0
      <4>1. Of(c).outer /\ at[c] \in Started
        BY <2>1, <3>3, Traits, AtWork DEF PoolInv
      <4>2. held[Self(c)] > 0 /\ Self(c) \in Thread
        BY <4>1, Threads DEF PoolInv, Local, Leased
      <4> QED  BY <4>2 DEF PoolInv, LeaseAgreed, Holders
    <3> QED  BY <3>2, <3>3
  <2> QED  BY <2>1 DEF OnePrecision, PoolInv, LeaseAgreed
<1> QED  BY <1>1, PoolInvariant, PTL

(* Whatever went wrong in a request, when it returns none of its threads   *)
(* runs or sleeps and none of its leases is left.                          *)
THEOREM NothingIsLeft == Spec => []NothingLeft
<1>1. PoolInv => NothingLeft
  <2> SUFFICES ASSUME PoolInv, NEW c \in Caller, at[c] \in Joined
               PROVE  /\ \A i \in Worker : /\ worker[c][i].at \in {"none", "gone"}
                                           /\ held[ThreadOf(c, i)] = 0
                      /\ asleep[c] = {}
                      /\ at[c] = "done" => held[Self(c)] = 0
    BY DEF NothingLeft, Joined
  <2>1. \A i \in Worker : worker[c][i].at \in {"none", "gone"}
    BY DEF PoolInv, Local, Crewed
  <2>2. \A i \in Worker : held[ThreadOf(c, i)] = 0
    BY <2>1 DEF PoolInv, Local, Leased
  <2>3. asleep[c] = {}
    BY <2>1 DEF PoolInv, Local, Sleepers, Joined
  <2>4. at[c] = "done" => held[Self(c)] = 0
    BY DEF PoolInv, Local, Leased, Started
  <2> QED  BY <2>1, <2>2, <2>3, <2>4
<1> QED  BY <1>1, PoolInvariant, PTL

(* For any number of workers and tasks, no task is executed twice, and a   *)
(* request that succeeds has executed all of them.                         *)
THEOREM TasksOnce == Spec => []EveryTaskOnce
<1>1. PoolInv => EveryTaskOnce
  <2> SUFFICES ASSUME PoolInv, NEW c \in Caller, NEW t \in Tasks
               PROVE  /\ runs[c][t] <= 1
                      /\ outcome[c].how = "ok" /\ kind[c] # "save"
                           /\ (Of(c).gate => t <= Crew) => runs[c][t] = 1
    BY DEF EveryTaskOnce
  <2>1. runs[c][t] \in {0, 1}
    BY DEF PoolInv, Local, Drawn
  <2>2. ASSUME outcome[c].how = "ok", kind[c] # "save", Of(c).gate => t <= Crew
        PROVE  runs[c][t] = 1
    <3>1. at[c] \in Joined /\ ~unmade[c] /\ ~GivenUp(c)
      BY <2>2, Outcomes
    <3> QED  BY <2>2, <3>1, AllExecuted
  <2> QED  BY <2>1, <2>2
<1> QED  BY <1>1, PoolInvariant, PTL

(* The failure a request reports is that of its lowest task that throws,   *)
(* however its workers were scheduled; and a success hides no failure.     *)
THEOREM LowestReported == Spec => []LowestFailure
<1>1. PoolInv => LowestFailure
  <2> SUFFICES ASSUME PoolInv, NEW c \in Caller
               PROVE  /\ outcome[c].how = "threw" =>
                           /\ outcome[c].task \in bad[c]
                           /\ Of(c).failure = "slot" => \A t \in bad[c] : outcome[c].task <= t
                      /\ outcome[c].how = "ok" /\ Of(c).failure # "result" =>
                           \A t \in bad[c] : Of(c).gate /\ t > Crew
    BY DEF LowestFailure
  <2>1. bad[c] \subseteq Tasks /\ Failed(c) \subseteq bad[c] /\ Failed(c) \subseteq Tasks
    BY DEF PoolInv, TypeOK, Failed
  <2>2. CASE kind[c] = "save"
    <3>1. Ends("none", None).how = "none" /\ Ends("ok", None).how = "ok"
      BY DEF Ends
    <3>2. outcome[c].how # "threw"
      BY <2>2, <3>1 DEF PoolInv, Local, Returned
    <3> QED  BY <2>2, <3>2 DEF PoolInv, Local, Crewed
  <2>3. CASE kind[c] # "save" /\ outcome[c].how = "threw"
    <3>1. /\ at[c] \in Joined /\ ~unmade[c] /\ Failed(c) # {}
          /\ outcome[c].task = IF Of(c).failure = "first" THEN first[c] ELSE Lowest(Failed(c))
      BY <2>3, Outcomes
    <3>2. CASE Of(c).failure = "first"
      BY <2>1, <2>3, <3>1, <3>2 DEF PoolInv, Local, Accounted
    <3>3. CASE Of(c).failure # "first"
      <4>1. outcome[c].task = Lowest(Failed(c)) /\ ~GivenUp(c)
        BY <3>1, <3>3, Traits DEF GivenUp, PoolInv
      <4>2. Lowest(Failed(c)) \in Failed(c) /\ \A u \in Failed(c) : Lowest(Failed(c)) <= u
        BY <2>1, <3>1, LowestTask
      <4>3. ASSUME NEW t \in bad[c]  PROVE Lowest(Failed(c)) <= t
        <5>1. t \in Tasks /\ Lowest(Failed(c)) \in Tasks
          BY <2>1, <4>2
        <5>2. CASE Of(c).gate => t <= Crew
          <6>1. t \in Failed(c)
            BY <2>3, <3>1, <4>1, <5>1, <5>2, AllExecuted DEF Failed
          <6> QED  BY <4>2, <6>1
        <5>3. CASE Of(c).gate /\ ~(t <= Crew)
          <6>1. Lowest(Failed(c)) \in Worker
            <7>1. runs[c][Lowest(Failed(c))] = 1
              <8> DEFINE m == Lowest(Failed(c))
              <8>1. m \in Failed(c) /\ m \in Tasks
                BY <4>2, <5>1
              <8> HIDE DEF m
              <8>2. runs[c][m] > 0 /\ runs[c][m] \in {0, 1}
                BY <8>1 DEF PoolInv, Local, Drawn, Failed
              <8>3. runs[c][m] = 1
                BY <8>2
              <8> QED  BY <8>3 DEF m
            <7> QED  BY <5>1, <5>3, <7>1 DEF PoolInv, Local, Drawn
          <6> QED  BY <5>1, <5>3, <6>1, Sizes DEF Worker, Tasks
        <5> QED  BY <5>2, <5>3
      <4> QED  BY <2>1, <2>3, <4>1, <4>2, <4>3
    <3> QED  BY <3>2, <3>3
  <2>4. CASE kind[c] # "save" /\ outcome[c].how = "ok"
    <3>1. ASSUME Of(c).failure # "result", NEW t \in bad[c]  PROVE Of(c).gate /\ t > Crew
      <4>1. at[c] \in Joined /\ ~unmade[c] /\ ~GivenUp(c) /\ Failed(c) = {}
        BY <2>4, <3>1, Outcomes
      <4>2. t \in Tasks /\ runs[c][t] # 1
        BY <2>1, <4>1 DEF Failed
      <4>3. Of(c).gate /\ ~(t <= Crew)
        BY <2>4, <4>1, <4>2, AllExecuted
      <4> QED  BY <4>2, <4>3, Sizes
    <3> QED  BY <2>4, <3>1
  <2> QED  BY <2>2, <2>3, <2>4
<1> QED  BY <1>1, PoolInvariant, PTL
==============================================================================

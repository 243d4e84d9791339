------------------------- MODULE SolverSessionProofs -------------------------
(***************************************************************************)
(* Proofs about SolverSession and SessionCheckpoint, for any set of        *)
(* requests, any operations and any capacities.  Accounting and Ledger     *)
(* together are inductive; room, the lifetime of handles and the emptiness *)
(* of a closed session follow, and with them what a checkpoint may assume. *)
(***************************************************************************)
EXTENDS SessionCheckpoint, FiniteSetTheorems, SequenceTheorems, TLAPS

IndInv == TypeOK /\ Ledger /\ Accounting

(* The reservations of every request but c, and of the live streams.       *)
Others(c, k) ==
  (UNION {call[d].held[k] : d \in Call \ {c}}) \cup (IF k = "line" THEN streams ELSE {})

Before(n) == 1..(n - 1)

------------------------------------------------------------------------------
(* Finite sets of handles.                                                 *)

LEMMA IssuedFinite ==
  ASSUME NEW n \in Nat, NEW S, S \subseteq Before(n)
  PROVE  IsFiniteSet(S) /\ Cardinality(S) \in Nat
<1>1. IsFiniteSet(1..(n - 1))
  BY FS_Interval, 1 \in Int, n - 1 \in Int
<1>2. IsFiniteSet(S)
  BY <1>1, FS_Subset DEF Before
<1> QED  BY <1>2, FS_CardinalityType

LEMMA DisjointSum ==
  ASSUME NEW A, NEW B, IsFiniteSet(A), IsFiniteSet(B), A \cap B = {}
  PROVE  /\ IsFiniteSet(A \cup B)
         /\ Cardinality(A \cup B) = Cardinality(A) + Cardinality(B)
<1>1. Cardinality(A) \in Nat /\ Cardinality(B) \in Nat
  BY FS_CardinalityType
<1>2. /\ IsFiniteSet(A \cup B)
      /\ Cardinality(A \cup B) = Cardinality(A) + Cardinality(B) - Cardinality(A \cap B)
  BY FS_Union
<1>3. Cardinality(A \cap B) = 0
  BY FS_EmptySet
<1> QED  BY <1>1, <1>2, <1>3

LEMMA IssuedCount ==
  ASSUME NEW n \in Nat \ {0}, NEW m \in Nat
  PROVE  /\ IsFiniteSet(n .. (n + m - 1))
         /\ Cardinality(n .. (n + m - 1)) = m
BY FS_Interval

------------------------------------------------------------------------------
(* What is reserved, with one request singled out.                         *)

LEMMA ReservedIsOwnAndOthers ==
  ASSUME NEW c \in Call, NEW k \in Kind
  PROVE  Reserved(k) = call[c].held[k] \cup Others(c, k)
BY DEF Reserved, Others

LEMMA OthersKeep ==
  ASSUME TypeOK, NEW c \in Call, NEW k \in Kind, NEW r,
         call' = [call EXCEPT ![c] = r], streams' = streams
  PROVE  Others(c, k)' = Others(c, k)
<1>1. \A d \in Call \ {c} : call'[d] = call[d]
  BY DEF TypeOK
<1> QED  BY <1>1 DEF Others

LEMMA OthersApart ==
  ASSUME Ledger, NEW c \in Call, NEW k \in Kind
  PROVE  /\ call[c].held[k] \cap Others(c, k) = {}
         /\ reg[k] \cap Others(c, k) = {}
<1>1. \A d \in Call \ {c} : call[c].held[k] \cap call[d].held[k] = {}
  BY DEF Ledger, HandlesApart
<1>2. \A d \in Call : call[d].held[k] \cap reg[k] = {}
  BY DEF Ledger, HandlesApart
<1>3. k = "line" => streams \cap (call[c].held[k] \cup reg[k]) = {}
  BY DEF Ledger, HandlesApart
<1> QED  BY <1>1, <1>2, <1>3 DEF Others

LEMMA ReservedFinite ==
  ASSUME TypeOK, Ledger, NEW c \in Call, NEW k \in Kind
  PROVE  /\ IsFiniteSet(reg[k]) /\ Cardinality(reg[k]) \in Nat
         /\ IsFiniteSet(call[c].held[k]) /\ Cardinality(call[c].held[k]) \in Nat
         /\ IsFiniteSet(Others(c, k)) /\ Cardinality(Others(c, k)) \in Nat
         /\ IsFiniteSet(streams) /\ Cardinality(streams) \in Nat
<1>1. next[k] \in Nat /\ next["line"] \in Nat
  BY DEF TypeOK, Kind
<1>2. /\ reg[k] \subseteq Before(next[k]) /\ call[c].held[k] \subseteq Before(next[k])
      /\ streams \subseteq Before(next["line"])
  BY DEF Ledger, HandlesIssued, Before
<1>3. Others(c, k) \subseteq Before(next[k])
  BY DEF Others, Ledger, HandlesIssued, Before
<1> QED  BY <1>1, <1>2, <1>3, IssuedFinite

(* Accounting, read for one request.                                       *)
LEMMA PendingIsOwnAndOthers ==
  ASSUME IndInv, NEW c \in Call, NEW k \in Kind
  PROVE  pending[k] = Cardinality(call[c].held[k]) + Cardinality(Others(c, k))
<1>1. pending[k] = Cardinality(call[c].held[k] \cup Others(c, k))
  BY ReservedIsOwnAndOthers DEF IndInv, Accounting
<1> QED  BY <1>1, ReservedFinite, OthersApart, DisjointSum DEF IndInv

LEMMA ReservedAfter ==
  ASSUME TypeOK, NEW c \in Call, NEW k \in Kind, NEW r,
         call' = [call EXCEPT ![c] = r], streams' = streams
  PROVE  Reserved(k)' = r.held[k] \cup Others(c, k)
<1>1. Reserved(k)' = call'[c].held[k] \cup Others(c, k)'
  BY DEF Reserved, Others
<1>2. call'[c] = r
  BY DEF TypeOK
<1> QED  BY <1>1, <1>2, OthersKeep

LEMMA OthersIssued ==
  ASSUME Ledger, NEW c \in Call, NEW k \in Kind
  PROVE  Others(c, k) \subseteq Before(next[k])
BY DEF Ledger, HandlesIssued, Others, Before

------------------------------------------------------------------------------
(* The four ways a step can touch the ledger.                              *)

(* A request that holds nothing goes on holding nothing: handles may be    *)
(* drawn and objects erased, but nothing is promised or registered.        *)
LEMMA QuietStep ==
  ASSUME IndInv, NEW c \in Call, NEW r \in CallRecord,
         call[c].held = Nothing, r.held = Nothing,
         r.at \in {"marching", "matching"} => r.route # <<>>,
         call' = [call EXCEPT ![c] = r],
         UNCHANGED <<pending, streams>>,
         next' \in [Kind -> Nat \ {0}], \A k \in Kind : next[k] <= next'[k],
         reg' \in [Kind -> SUBSET Nat], \A k \in Kind : reg'[k] \subseteq reg[k],
         \A k \in Kind : r.yield[k] \subseteq call[c].yield[k] \cup (next[k]..(next'[k] - 1))
  PROVE  Ledger' /\ Accounting'
<1>1. call'[c] = r /\ \A d \in Call \ {c} : call'[d] = call[d]
  BY DEF IndInv, TypeOK
<1>2. next \in [Kind -> Nat \ {0}]
  BY DEF IndInv, TypeOK
<1>3. HandlesIssued'
  <2>1. ASSUME NEW k \in Kind  PROVE reg'[k] \subseteq 1..(next'[k] - 1)
    BY <1>2 DEF IndInv, Ledger, HandlesIssued
  <2>2. ASSUME NEW d \in Call, NEW k \in Kind
        PROVE  call'[d].held[k] \cup call'[d].yield[k] \subseteq 1..(next'[k] - 1)
    <3>1. CASE d = c
      <4>1. call[c].yield[k] \subseteq 1..(next[k] - 1)
        BY DEF IndInv, Ledger, HandlesIssued
      <4>2. r.yield[k] \subseteq call[c].yield[k] \cup (next[k]..(next'[k] - 1))
        OBVIOUS
      <4>3. next[k] \in Nat \ {0} /\ next'[k] \in Nat \ {0} /\ next[k] <= next'[k]
        BY <1>2
      <4>4. r.yield[k] \subseteq 1..(next'[k] - 1)
        BY <4>1, <4>2, <4>3
      <4> QED  BY <4>4, <3>1, <1>1 DEF Nothing
    <3>2. CASE d # c
      BY <3>2, <1>1, <1>2 DEF IndInv, Ledger, HandlesIssued
    <3> QED  BY <3>1, <3>2
  <2>3. streams' \subseteq 1..(next'["line"] - 1)
    BY <1>2 DEF IndInv, Ledger, HandlesIssued, Kind
  <2> QED  BY <2>1, <2>2, <2>3 DEF HandlesIssued
<1>4. OnlyWorkHolds'
  BY <1>1 DEF IndInv, Ledger, OnlyWorkHolds
<1>5. HandlesApart'
  <2>1. \A d \in Call, k \in Kind : call'[d].held[k] = call[d].held[k]
    BY <1>1
  <2>2. \A d \in Call, k \in Kind :
          call'[d].yield[k] \subseteq call[d].yield[k] \cup (next[k]..(next'[k] - 1))
    BY <1>1
  <2>3. \A d \in Call, k \in Kind :
          call[d].held[k] \cap (next[k]..(next'[k] - 1)) = {}
    BY <1>2 DEF IndInv, Ledger, HandlesIssued
  <2>4. streams \cap (next["line"]..(next'["line"] - 1)) = {}
    BY <1>2 DEF IndInv, Ledger, HandlesIssued, Kind
  <2>5. ASSUME NEW d \in Call, NEW k \in Kind  PROVE call'[d].held[k] \cap reg'[k] = {}
    BY <2>1 DEF IndInv, Ledger, HandlesApart
  <2>6. ASSUME NEW d \in Call, NEW e \in Call \ {d}, NEW k \in Kind
        PROVE  call'[d].held[k] \cap (call'[e].held[k] \cup call'[e].yield[k]) = {}
    <3>1. call[d].held[k] \cap (call[e].held[k] \cup call[e].yield[k]) = {}
      BY DEF IndInv, Ledger, HandlesApart
    <3> QED  BY <3>1, <2>1, <2>2, <2>3
  <2>7. ASSUME NEW d \in Call
        PROVE  streams' \cap (call'[d].held["line"] \cup call'[d].yield["line"] \cup reg'["line"]) = {}
    <3>1. streams \cap (call[d].held["line"] \cup call[d].yield["line"] \cup reg["line"]) = {}
      BY DEF IndInv, Ledger, HandlesApart
    <3> QED  BY <3>1, <2>1, <2>2, <2>4 DEF Kind
  <2> QED  BY <2>5, <2>6, <2>7 DEF HandlesApart
<1>6. ASSUME NEW k \in Kind  PROVE pending'[k] = Cardinality(Reserved(k)')
  <2>1. Reserved(k)' = r.held[k] \cup Others(c, k)
    BY ReservedAfter DEF IndInv
  <2>2. Reserved(k) = call[c].held[k] \cup Others(c, k)
    BY ReservedIsOwnAndOthers
  <2> QED  BY <2>1, <2>2 DEF IndInv, Accounting
<1> QED  BY <1>3, <1>4, <1>5, <1>6 DEF Ledger, Accounting

(* A request with nothing draws need handles and reserves issue of them.   *)
LEMMA ReservingStep ==
  ASSUME IndInv, NEW c \in Call, call[c].held = Nothing,
         NEW need \in [Kind -> Nat], NEW issue \in [Kind -> Nat],
         \A k \in Kind : issue[k] <= need[k],
         NEW yield \in [Kind -> SUBSET Nat],
         \A k \in Kind : yield[k] \subseteq reg[k] \cup Issued(issue)[k],
         NEW checks \in SUBSET Nat, NEW spends \in SUBSET Nat,
         Draw(need), Hold(c, issue, yield, checks, spends)
  PROVE  IndInv'
<1> DEFINE r == [at |-> "working", held |-> Issued(issue), yield |-> yield,
                 checks |-> checks, spends |-> spends, route |-> <<>>]
<1> USE DEF IndInv
<1>1. /\ call' = [call EXCEPT ![c] = r] /\ r.held = Issued(issue) /\ r.yield = yield
      /\ r.at = "working"
      /\ pending' = [k \in Kind |-> pending[k] + issue[k]]
      /\ next' = [k \in Kind |-> next[k] + need[k]]
      /\ UNCHANGED <<listed, closed, prepared, reg, streams, heirs>>
  BY DEF Hold, Draw
<1>2. call'[c] = r /\ \A d \in Call \ {c} : call'[d] = call[d]
  BY <1>1 DEF TypeOK
<1>3. next \in [Kind -> Nat \ {0}] /\ pending \in [Kind -> Nat]
  BY DEF TypeOK
<1>4. \A k \in Kind : /\ Issued(issue)[k] = next[k]..(next[k] + issue[k] - 1)
                      /\ Issued(issue)[k] \subseteq Nat
                      /\ Issued(issue)[k] \subseteq next[k]..(next'[k] - 1)
  BY <1>1, <1>3 DEF Issued
<1> HIDE DEF r
<1>5. r \in CallRecord
  <2>1. Issued(issue) \in [Kind -> SUBSET Nat]
    BY <1>4 DEF Issued
  <2> QED  BY <2>1 DEF r, CallRecord, Phase
<1>6. TypeOK'
  <2>1. next' \in [Kind -> Nat \ {0}]
    BY <1>1, <1>3
  <2>2. pending' \in [Kind -> Nat]
    BY <1>1, <1>3
  <2>3. call' \in [Call -> CallRecord]
    BY <1>1, <1>5 DEF TypeOK
  <2> QED  BY <2>1, <2>2, <2>3, <1>1 DEF TypeOK
<1>7. HandlesIssued'
  <2>1. \A k \in Kind : next[k] <= next'[k] /\ next'[k] \in Nat
    BY <1>1, <1>3
  <2>2. ASSUME NEW k \in Kind  PROVE reg'[k] \subseteq 1..(next'[k] - 1)
    BY <2>1, <1>1, <1>3 DEF Ledger, HandlesIssued
  <2>3. ASSUME NEW d \in Call, NEW k \in Kind
        PROVE  call'[d].held[k] \cup call'[d].yield[k] \subseteq 1..(next'[k] - 1)
    <3>1. CASE d = c
      <4>1. yield[k] \subseteq reg[k] \cup (next[k]..(next'[k] - 1))
        BY <1>4
      <4> QED  BY <3>1, <4>1, <1>1, <1>2, <1>3, <1>4, <2>1, <2>2
    <3>2. CASE d # c
      BY <3>2, <1>2, <1>3, <2>1 DEF Ledger, HandlesIssued
    <3> QED  BY <3>1, <3>2
  <2>4. streams' \subseteq 1..(next'["line"] - 1)
    BY <2>1, <1>1, <1>3 DEF Ledger, HandlesIssued, Kind
  <2> QED  BY <2>2, <2>3, <2>4 DEF HandlesIssued
<1>8. OnlyWorkHolds'
  BY <1>1, <1>2 DEF Ledger, OnlyWorkHolds
<1>9. HandlesApart'
  <2> DEFINE New(k) == next[k]..(next'[k] - 1)
  <2>1. ASSUME NEW d \in Call, NEW k \in Kind
        PROVE  /\ (call[d].held[k] \cup call[d].yield[k]) \cap New(k) = {}
               /\ reg[k] \cap New(k) = {}
    BY <1>3 DEF Ledger, HandlesIssued
  <2>2. streams \cap New("line") = {}
    BY <1>3 DEF Ledger, HandlesIssued, Kind
  <2>3. \A k \in Kind : r.held[k] \subseteq New(k) /\ r.yield[k] \subseteq reg[k] \cup New(k)
    BY <1>1, <1>4
  <2> HIDE DEF New
  <2>4. ASSUME NEW d \in Call, NEW k \in Kind  PROVE call'[d].held[k] \cap reg'[k] = {}
    <3>1. CASE d = c
      BY <3>1, <2>1, <2>3, <1>1, <1>2
    <3>2. CASE d # c
      BY <3>2, <1>1, <1>2 DEF Ledger, HandlesApart
    <3> QED  BY <3>1, <3>2
  <2>5. ASSUME NEW d \in Call, NEW e \in Call \ {d}, NEW k \in Kind
        PROVE  call'[d].held[k] \cap (call'[e].held[k] \cup call'[e].yield[k]) = {}
    <3>1. call[d].held[k] \cap (call[e].held[k] \cup call[e].yield[k]) = {}
      BY DEF Ledger, HandlesApart
    <3>2. call[d].held[k] \cap reg[k] = {}
      BY DEF Ledger, HandlesApart
    <3>3. CASE d = c
      BY <3>3, <2>1, <2>3, <1>2
    <3>4. CASE e = c
      BY <3>4, <3>2, <2>1, <2>3, <1>2
    <3>5. CASE d # c /\ e # c
      BY <3>1, <3>5, <1>2
    <3> QED  BY <3>3, <3>4, <3>5
  <2>6. ASSUME NEW d \in Call
        PROVE  streams' \cap (call'[d].held["line"] \cup call'[d].yield["line"] \cup reg'["line"]) = {}
    <3>1. streams \cap (call[d].held["line"] \cup call[d].yield["line"] \cup reg["line"]) = {}
      BY DEF Ledger, HandlesApart
    <3>2. CASE d = c
      BY <3>1, <3>2, <2>2, <2>3, <1>1, <1>2 DEF Kind
    <3>3. CASE d # c
      BY <3>1, <3>3, <1>1, <1>2
    <3> QED  BY <3>2, <3>3
  <2> QED  BY <2>4, <2>5, <2>6 DEF HandlesApart
<1>10. ASSUME NEW k \in Kind  PROVE pending'[k] = Cardinality(Reserved(k)')
  <2>1. Reserved(k)' = Issued(issue)[k] \cup Others(c, k)
    BY <1>1, ReservedAfter
  <2>2. Reserved(k) = Others(c, k)
    <3>1. Reserved(k) = call[c].held[k] \cup Others(c, k)
      BY ReservedIsOwnAndOthers
    <3> QED  BY <3>1 DEF Nothing
  <2>3. IsFiniteSet(Issued(issue)[k]) /\ Cardinality(Issued(issue)[k]) = issue[k]
    BY <1>3, <1>4, IssuedCount
  <2>4. Issued(issue)[k] \cap Others(c, k) = {}
    BY <1>3, <1>4, OthersIssued DEF Before
  <2>5. IsFiniteSet(Others(c, k)) /\ Cardinality(Others(c, k)) \in Nat
    BY ReservedFinite
  <2>6. Cardinality(Issued(issue)[k] \cup Others(c, k)) = issue[k] + Cardinality(Others(c, k))
    BY <2>3, <2>4, <2>5, DisjointSum
  <2> QED  BY <1>1, <2>1, <2>2, <2>5, <2>6 DEF Accounting
<1> QED  BY <1>6, <1>7, <1>8, <1>9, <1>10 DEF Ledger, Accounting

LEMMA IdleRecord == /\ Idle \in CallRecord /\ Idle.held = Nothing /\ Idle.yield = Nothing
                    /\ Idle.at = "idle" /\ Idle.spends = {}
BY DEF Idle, CallRecord, Nothing, Phase

(* A quiet step that draws no handle: only the request, what it erases,    *)
(* and what no reservation depends on may change.                          *)
LEMMA QuietRequest ==
  ASSUME IndInv, NEW c \in Call, NEW r \in CallRecord,
         call[c].held = Nothing, r.held = Nothing,
         r.at \in {"marching", "matching"} => r.route # <<>>,
         \A k \in Kind : r.yield[k] \subseteq call[c].yield[k],
         call' = [call EXCEPT ![c] = r],
         UNCHANGED <<pending, streams, next>>,
         reg' \in [Kind -> SUBSET Nat], \A k \in Kind : reg'[k] \subseteq reg[k],
         listed' \in BOOLEAN, closed' \in BOOLEAN, prepared' \in BOOLEAN,
         heirs' \subseteq Nat \X [Kind -> SUBSET Nat]
  PROVE  IndInv'
<1>1. /\ next' \in [Kind -> Nat \ {0}] /\ \A k \in Kind : next[k] <= next'[k]
      /\ \A k \in Kind : r.yield[k] \subseteq call[c].yield[k] \cup (next[k]..(next'[k] - 1))
  BY DEF IndInv, TypeOK
<1>2. Ledger' /\ Accounting'
  BY <1>1, QuietStep
<1>3. TypeOK'
  BY <1>1 DEF IndInv, TypeOK
<1> QED  BY <1>2, <1>3 DEF IndInv

(* A request that holds nothing goes idle, erasing objects or nothing.     *)
LEMMA IdleRequest ==
  ASSUME IndInv, NEW c \in Call, call[c].held = Nothing,
         call' = [call EXCEPT ![c] = Idle],
         UNCHANGED <<listed, closed, pending, streams, next, heirs>>,
         prepared' \in BOOLEAN,
         reg' \in [Kind -> SUBSET Nat], \A k \in Kind : reg'[k] \subseteq reg[k]
  PROVE  IndInv'
<1>1. \A k \in Kind : Idle.yield[k] \subseteq call[c].yield[k]
  BY IdleRecord DEF Nothing
<1> QED  BY <1>1, IdleRecord, QuietRequest DEF IndInv, TypeOK

(* A request gives everything back and may register what it yields.        *)
LEMMA SettlingStep ==
  ASSUME IndInv, NEW c \in Call, Settle(c), UNCHANGED <<next, streams>>,
         reg' \in [Kind -> SUBSET Nat],
         \A k \in Kind : reg'[k] \subseteq reg[k] \cup call[c].yield[k]
  PROVE  /\ Ledger' /\ Accounting'
         /\ pending' \in [Kind -> Nat] /\ call' \in [Call -> CallRecord]
<1> USE DEF IndInv
<1>1. /\ call' = [call EXCEPT ![c] = Idle]
      /\ pending' = [k \in Kind |-> pending[k] - Cardinality(call[c].held[k])]
  BY DEF Settle
<1>2. call'[c] = Idle /\ \A d \in Call \ {c} : call'[d] = call[d]
  BY <1>1 DEF TypeOK
<1>3. call' \in [Call -> CallRecord]
  BY <1>1, IdleRecord DEF TypeOK
<1>4. \A k \in Kind : call'[c].held[k] = {} /\ call'[c].yield[k] = {}
  BY <1>2, IdleRecord DEF Nothing
<1>5. HandlesIssued'
  <2>1. ASSUME NEW k \in Kind  PROVE reg'[k] \subseteq 1..(next'[k] - 1)
    BY DEF Ledger, HandlesIssued
  <2>2. ASSUME NEW d \in Call, NEW k \in Kind
        PROVE  call'[d].held[k] \cup call'[d].yield[k] \subseteq 1..(next'[k] - 1)
    BY <1>2, <1>4 DEF Ledger, HandlesIssued
  <2>3. streams' \subseteq 1..(next'["line"] - 1)
    BY DEF Ledger, HandlesIssued
  <2> QED  BY <2>1, <2>2, <2>3 DEF HandlesIssued
<1>6. OnlyWorkHolds'
  BY <1>2, IdleRecord DEF Ledger, OnlyWorkHolds
<1>7. HandlesApart'
  <2>1. ASSUME NEW d \in Call, NEW k \in Kind  PROVE call'[d].held[k] \cap reg'[k] = {}
    <3>1. CASE d = c
      BY <3>1, <1>4
    <3>2. CASE d # c
      <4>1. call[d].held[k] \cap reg[k] = {} /\ call[d].held[k] \cap call[c].yield[k] = {}
        BY <3>2 DEF Ledger, HandlesApart
      <4> QED  BY <4>1, <3>2, <1>2
    <3> QED  BY <3>1, <3>2
  <2>2. ASSUME NEW d \in Call, NEW e \in Call \ {d}, NEW k \in Kind
        PROVE  call'[d].held[k] \cap (call'[e].held[k] \cup call'[e].yield[k]) = {}
    <3>1. call[d].held[k] \cap (call[e].held[k] \cup call[e].yield[k]) = {}
      BY DEF Ledger, HandlesApart
    <3> QED  BY <3>1, <1>2, <1>4
  <2>3. ASSUME NEW d \in Call
        PROVE  streams' \cap (call'[d].held["line"] \cup call'[d].yield["line"] \cup reg'["line"]) = {}
    <3>1. /\ streams \cap (call[d].held["line"] \cup call[d].yield["line"] \cup reg["line"]) = {}
          /\ streams \cap call[c].yield["line"] = {}
      BY DEF Ledger, HandlesApart
    <3> QED  BY <3>1, <1>2, <1>4 DEF Kind
  <2> QED  BY <2>1, <2>2, <2>3 DEF HandlesApart
<1>8. ASSUME NEW k \in Kind
      PROVE  pending'[k] \in Nat /\ pending'[k] = Cardinality(Reserved(k)')
  <2>1. Reserved(k)' = Idle.held[k] \cup Others(c, k)
    BY <1>1, ReservedAfter
  <2>2. Reserved(k)' = Others(c, k)
    BY <2>1, IdleRecord DEF Nothing
  <2>3. pending[k] = Cardinality(call[c].held[k]) + Cardinality(Others(c, k))
    BY PendingIsOwnAndOthers
  <2>4. Cardinality(call[c].held[k]) \in Nat /\ Cardinality(Others(c, k)) \in Nat
    BY ReservedFinite
  <2> QED  BY <1>1, <2>2, <2>3, <2>4
<1>9. pending' \in [Kind -> Nat]
  BY <1>1, <1>8
<1> QED  BY <1>3, <1>5, <1>6, <1>7, <1>8, <1>9 DEF Ledger, Accounting

(* The request that erases a stream takes its line over.                   *)
LEMMA TakingStep ==
  ASSUME IndInv, NEW c \in Call, NEW line \in streams, call[c].held = Nothing,
         NEW at \in {"working", "aborting"}, NEW yield \in [Kind -> SUBSET Nat],
         \A k \in Kind : yield[k] \subseteq (IF k = "line" THEN {line} ELSE {}),
         TakeStream(c, line, at, yield)
  PROVE  IndInv'
<1> DEFINE held == [Nothing EXCEPT !["line"] = {line}]
           r == [at |-> at, held |-> held, yield |-> yield,
                 checks |-> {}, spends |-> {}, route |-> <<>>]
<1> USE DEF IndInv
<1>1. /\ call' = [call EXCEPT ![c] = r] /\ streams' = streams \ {line}
      /\ UNCHANGED <<listed, closed, prepared, next, reg, pending, heirs>>
  BY DEF TakeStream
<1>2. call'[c] = r /\ \A d \in Call \ {c} : call'[d] = call[d]
  BY <1>1 DEF TypeOK
<1>3. /\ r.held = held /\ r.yield = yield /\ r.at = at
      /\ \A k \in Kind : held[k] = IF k = "line" THEN {line} ELSE {}
      /\ held \in [Kind -> SUBSET Nat]
  BY DEF Nothing, Kind, TypeOK
<1> HIDE DEF held
<1>4. r \in CallRecord
  BY <1>3 DEF CallRecord, Phase
<1> HIDE DEF r
<1>5. TypeOK'
  <2>1. call' \in [Call -> CallRecord]
    BY <1>1, <1>4 DEF TypeOK
  <2> QED  BY <2>1, <1>1 DEF TypeOK
<1>6. HandlesIssued'
  <2>1. \A d \in Call, k \in Kind :
          call'[d].held[k] \cup call'[d].yield[k] \subseteq 1..(next[k] - 1)
    BY <1>2, <1>3 DEF Ledger, HandlesIssued
  <2> QED  BY <2>1, <1>1 DEF Ledger, HandlesIssued
<1>7. OnlyWorkHolds'
  BY <1>2, <1>3 DEF Ledger, OnlyWorkHolds
<1>8. HandlesApart'
  <2>1. ASSUME NEW d \in Call, NEW k \in Kind  PROVE call'[d].held[k] \cap reg'[k] = {}
    <3>1. call[d].held[k] \cap reg[k] = {} /\ streams \cap reg["line"] = {}
      BY DEF Ledger, HandlesApart
    <3> QED  BY <3>1, <1>1, <1>2, <1>3
  <2>2. ASSUME NEW d \in Call, NEW e \in Call \ {d}, NEW k \in Kind
        PROVE  call'[d].held[k] \cap (call'[e].held[k] \cup call'[e].yield[k]) = {}
    <3>1. call[d].held[k] \cap (call[e].held[k] \cup call[e].yield[k]) = {}
      BY DEF Ledger, HandlesApart
    <3>2. /\ streams \cap (call[d].held["line"] \cup call[d].yield["line"]) = {}
          /\ streams \cap (call[e].held["line"] \cup call[e].yield["line"]) = {}
      BY DEF Ledger, HandlesApart
    <3> QED  BY <3>1, <3>2, <1>2, <1>3
  <2>3. ASSUME NEW d \in Call
        PROVE  streams' \cap (call'[d].held["line"] \cup call'[d].yield["line"] \cup reg'["line"]) = {}
    <3>1. streams \cap (call[d].held["line"] \cup call[d].yield["line"] \cup reg["line"]) = {}
      BY DEF Ledger, HandlesApart
    <3> QED  BY <3>1, <1>1, <1>2, <1>3 DEF Kind
  <2> QED  BY <2>1, <2>2, <2>3 DEF HandlesApart
<1>9. ASSUME NEW k \in Kind  PROVE pending'[k] = Cardinality(Reserved(k)')
  <2>1. \A d \in Call \ {c} : call'[d].held[k] = call[d].held[k]
    BY <1>2
  <2>2. call[c].held[k] = {}
    BY DEF Nothing
  <2>3. Reserved(k)' = Reserved(k)
    BY <2>1, <2>2, <1>1, <1>2, <1>3 DEF Reserved
  <2> QED  BY <2>3, <1>1 DEF Accounting
<1> QED  BY <1>5, <1>6, <1>7, <1>8, <1>9 DEF Ledger, Accounting

(* A new stream reserves one line; or its constructor rejects the request. *)
LEMMA StreamingStep ==
  ASSUME IndInv, NEW c \in Call, call[c].held = Nothing, StartStream(c)
  PROVE  IndInv'
<1> DEFINE n == next["line"]
<1> USE DEF IndInv
<1>1. /\ call' = [call EXCEPT ![c] = Idle]
      /\ next' = [k \in Kind |-> next[k] + Lines(1)[k]]
      /\ UNCHANGED <<listed, closed, prepared, reg, heirs>>
  BY DEF StartStream, Draw
<1>2. \A k \in Kind : Lines(1)[k] = IF k = "line" THEN 1 ELSE 0
  BY DEF Lines, None, Kind
<1>3. next \in [Kind -> Nat \ {0}] /\ pending \in [Kind -> Nat] /\ "line" \in Kind
      /\ n \in Nat \ {0}
  BY DEF TypeOK, Kind
<1>4. /\ next' \in [Kind -> Nat \ {0}] /\ \A k \in Kind : next[k] <= next'[k]
      /\ next'["line"] = n + 1
  BY <1>1, <1>2, <1>3
<1>5. CASE UNCHANGED <<streams, pending>>
  <2>1. Ledger' /\ Accounting'
    BY QuietStep, IdleRecord, <1>1, <1>4, <1>5 DEF TypeOK, Nothing
  <2>2. call' \in [Call -> CallRecord]
    BY <1>1, IdleRecord DEF TypeOK
  <2> QED  BY <2>1, <2>2, <1>1, <1>4, <1>5 DEF TypeOK
<1>6. CASE streams' = streams \cup {n} /\ pending' = [pending EXCEPT !["line"] = @ + 1]
  <2>1. call'[c] = Idle /\ \A d \in Call \ {c} : call'[d] = call[d]
    BY <1>1 DEF TypeOK
  <2>2. \A k \in Kind : call'[c].held[k] = {} /\ call'[c].yield[k] = {}
    BY <2>1, IdleRecord DEF Nothing
  <2>3. TypeOK'
    <3>1. call' \in [Call -> CallRecord]
      BY <1>1, IdleRecord DEF TypeOK
    <3>2. pending' \in [Kind -> Nat]
      BY <1>3, <1>6
    <3>3. streams' \in SUBSET Nat
      BY <1>3, <1>6 DEF TypeOK
    <3> QED  BY <3>1, <3>2, <3>3, <1>1, <1>4 DEF TypeOK
  <2>4. HandlesIssued'
    <3>1. ASSUME NEW k \in Kind  PROVE reg'[k] \subseteq 1..(next'[k] - 1)
      BY <1>1, <1>3, <1>4 DEF Ledger, HandlesIssued
    <3>2. ASSUME NEW d \in Call, NEW k \in Kind
          PROVE  call'[d].held[k] \cup call'[d].yield[k] \subseteq 1..(next'[k] - 1)
      BY <2>1, <2>2, <1>3, <1>4 DEF Ledger, HandlesIssued
    <3>3. streams' \subseteq 1..(next'["line"] - 1)
      <4>1. streams \subseteq 1..(n - 1)
        BY DEF Ledger, HandlesIssued
      <4> HIDE DEF n
      <4> QED  BY <4>1, <1>3, <1>4, <1>6
    <3> QED  BY <3>1, <3>2, <3>3 DEF HandlesIssued
  <2>5. OnlyWorkHolds'
    BY <2>1, IdleRecord DEF Ledger, OnlyWorkHolds
  <2>6. HandlesApart'
    <3>1. ASSUME NEW d \in Call
          PROVE  n \notin call[d].held["line"] \cup call[d].yield["line"] \cup reg["line"]
      BY <1>3 DEF Ledger, HandlesIssued
    <3>2. ASSUME NEW d \in Call, NEW k \in Kind  PROVE call'[d].held[k] \cap reg'[k] = {}
      BY <2>1, <2>2, <1>1 DEF Ledger, HandlesApart
    <3>3. ASSUME NEW d \in Call, NEW e \in Call \ {d}, NEW k \in Kind
          PROVE  call'[d].held[k] \cap (call'[e].held[k] \cup call'[e].yield[k]) = {}
      <4>1. call[d].held[k] \cap (call[e].held[k] \cup call[e].yield[k]) = {}
        BY DEF Ledger, HandlesApart
      <4> QED  BY <4>1, <2>1, <2>2
    <3>4. ASSUME NEW d \in Call
          PROVE  streams' \cap (call'[d].held["line"] \cup call'[d].yield["line"] \cup reg'["line"]) = {}
      <4>1. streams \cap (call[d].held["line"] \cup call[d].yield["line"] \cup reg["line"]) = {}
        BY DEF Ledger, HandlesApart
      <4> HIDE DEF n
      <4>2. CASE d = c
        BY <4>1, <4>2, <3>1, <2>2, <1>1, <1>3, <1>6
      <4>3. CASE d # c
        BY <4>1, <4>3, <3>1, <2>1, <1>1, <1>6
      <4> QED  BY <4>2, <4>3
    <3> QED  BY <3>2, <3>3, <3>4 DEF HandlesApart
  <2>7. ASSUME NEW k \in Kind  PROVE pending'[k] = Cardinality(Reserved(k)')
    <3>1. \A d \in Call : call'[d].held[k] = call[d].held[k]
      BY <2>1, <2>2 DEF Nothing
    <3>2. CASE k # "line"
      <4>1. Reserved(k)' = Reserved(k)
        BY <3>1, <3>2 DEF Reserved
      <4> QED  BY <4>1, <3>2, <1>3, <1>6 DEF Accounting
    <3>3. CASE k = "line"
      <4>1. Reserved(k)' = Reserved(k) \cup {n}
        BY <3>1, <3>3, <1>6 DEF Reserved
      <4>2. Reserved(k) = call[c].held[k] \cup Others(c, k)
        BY ReservedIsOwnAndOthers
      <4>3. Reserved(k) \subseteq Before(n)
        BY <4>2, <3>3, OthersIssued DEF Nothing
      <4>4. n \notin Reserved(k) /\ IsFiniteSet(Reserved(k))
        BY <4>3, <1>3, IssuedFinite DEF Before
      <4>5. Cardinality(Reserved(k)') = Cardinality(Reserved(k)) + 1
        BY <4>1, <4>4, FS_AddElement
      <4> QED  BY <4>5, <3>3, <1>3, <1>6 DEF Accounting
    <3> QED  BY <3>2, <3>3
  <2> QED  BY <2>3, <2>4, <2>5, <2>6, <2>7 DEF Ledger, Accounting
<1> QED  BY <1>5, <1>6 DEF StartStream

(* Closing gives back the lines of the streams and nothing else.           *)
LEMMA ClosingStep ==
  ASSUME IndInv, NEW c \in Call, CloseEnd(c)
  PROVE  IndInv'
<1> USE DEF IndInv
<1>1. /\ call' = [call EXCEPT ![c] = Idle] /\ closed' = TRUE /\ prepared' = FALSE
      /\ reg' = Nothing /\ streams' = {}
      /\ pending' = [pending EXCEPT !["line"] = @ - Cardinality(streams)]
      /\ UNCHANGED <<listed, next, heirs>>
  BY DEF CloseEnd
<1>2. call'[c] = Idle /\ \A d \in Call \ {c} : call'[d] = call[d]
  BY <1>1 DEF TypeOK
<1>3. call[c].held = Nothing
  BY DEF CloseEnd, Ledger, OnlyWorkHolds
<1>4. \A k \in Kind : call'[c].held[k] = {} /\ call'[c].yield[k] = {} /\ reg'[k] = {}
  BY <1>1, <1>2, IdleRecord DEF Nothing
<1>5. \A d \in Call, k \in Kind : call'[d].held[k] = call[d].held[k]
  BY <1>2, <1>3, <1>4 DEF Nothing
<1>6. Ledger'
  <2>1. HandlesIssued'
    BY <1>1, <1>2, <1>4 DEF Ledger, HandlesIssued
  <2>2. OnlyWorkHolds'
    BY <1>2, IdleRecord DEF Ledger, OnlyWorkHolds
  <2>3. ASSUME NEW d \in Call, NEW e \in Call \ {d}, NEW k \in Kind
        PROVE  call'[d].held[k] \cap (call'[e].held[k] \cup call'[e].yield[k]) = {}
    <3>1. call[d].held[k] \cap (call[e].held[k] \cup call[e].yield[k]) = {}
      BY DEF Ledger, HandlesApart
    <3> QED  BY <3>1, <1>2, <1>4
  <2>4. HandlesApart'
    BY <2>3, <1>1, <1>4 DEF HandlesApart
  <2> QED  BY <2>1, <2>2, <2>4 DEF Ledger
<1>7. ASSUME NEW k \in Kind  PROVE pending'[k] \in Nat /\ pending'[k] = Cardinality(Reserved(k)')
  <2>1. Reserved(k)' = UNION {call[d].held[k] : d \in Call}
    BY <1>1, <1>5 DEF Reserved
  <2>2. CASE k # "line"
    <3>1. Reserved(k)' = Reserved(k)
      BY <2>1, <2>2 DEF Reserved
    <3> QED  BY <3>1, <2>2, <1>1 DEF Accounting, TypeOK
  <2>3. CASE k = "line"
    <3>1. Reserved(k) = Reserved(k)' \cup streams
      BY <2>1, <2>3 DEF Reserved
    <3>2. Reserved(k)' \cap streams = {}
      BY <2>1, <2>3 DEF Ledger, HandlesApart
    <3>3. Reserved(k) = call[c].held[k] \cup Others(c, k)
      BY ReservedIsOwnAndOthers
    <3>4. Reserved(k) \subseteq Before(next[k]) /\ next[k] \in Nat
      BY <3>3, <1>3, OthersIssued DEF Nothing, TypeOK
    <3>5. /\ IsFiniteSet(Reserved(k)') /\ Cardinality(Reserved(k)') \in Nat
          /\ IsFiniteSet(streams) /\ Cardinality(streams) \in Nat
      BY <3>1, <3>4, IssuedFinite
    <3>6. Cardinality(Reserved(k)) = Cardinality(Reserved(k)') + Cardinality(streams)
      BY <3>1, <3>2, <3>5, DisjointSum
    <3> QED  BY <3>5, <3>6, <2>3, <1>1 DEF Accounting, TypeOK
  <2> QED  BY <2>2, <2>3
<1>8. TypeOK'
  <2>1. call' \in [Call -> CallRecord]
    BY <1>1, IdleRecord DEF TypeOK
  <2>2. pending' \in [Kind -> Nat]
    BY <1>1, <1>7 DEF TypeOK
  <2> QED  BY <2>1, <2>2, <1>1 DEF TypeOK, Nothing
<1> QED  BY <1>6, <1>7, <1>8 DEF Accounting

------------------------------------------------------------------------------
(* The actions, one group of Next after the other.                         *)

LEMMA NeedTypes ==
  ASSUME NEW n \in Nat
  PROVE  /\ Locals(n) \in [Kind -> Nat] /\ Matches(n) \in [Kind -> Nat]
         /\ Endpoints(n) \in [Kind -> Nat] /\ Tiles(n) \in [Kind -> Nat]
         /\ Lines(n) \in [Kind -> Nat] /\ None \in [Kind -> Nat]
BY DEF Locals, Matches, Endpoints, Tiles, Lines, None, Kind

LEMMA EnteredHoldsNothing ==
  ASSUME IndInv, NEW c \in Call,
         call[c].at \in {"idle", "entered", "evaluating", "marching", "matching", "closing"}
  PROVE  call[c].held = Nothing
BY DEF IndInv, Ledger, OnlyWorkHolds

LEMMA IssuedType ==
  ASSUME TypeOK, NEW need \in [Kind -> Nat]
  PROVE  Issued(need) \in [Kind -> SUBSET Nat]
<1>1. \A k \in Kind : next[k]..(next[k] + need[k] - 1) \subseteq Nat
  BY DEF TypeOK
<1> QED  BY <1>1 DEF Issued

(* Something is asked for.                                                 *)
Wants(need) == \E k \in Kind : need[k] > 0

LEMMA NeedWants ==
  ASSUME NEW n \in Nat \ {0}
  PROVE  /\ Wants(Locals(n)) /\ Wants(Matches(n)) /\ Wants(Endpoints(n)) /\ Wants(Tiles(n))
         /\ Wants(Lines(n))
BY DEF Wants, Locals, Matches, Endpoints, Tiles, Lines, None, Kind

LEMMA SolveAdmits ==
  ASSUME NEW c \in Call, Solve(c)
  PROVE  /\ call[c].at = "entered"
         /\ \E need \in [Kind -> Nat] : Wants(need) /\ Admit(c, need)
<1>1. \A n \in 1..MaxBatch : n \in Nat /\ n \in Nat \ {0}
  BY BoundAssumption
<1> USE NeedTypes, NeedWants, BoundAssumption DEF Open, Entered
<1>2. CASE \/ SccSolveColumn(c) \/ LocalSolve(c) \/ SpecializeRationalShadow(c)
           \/ ApplyRationalRow(c) \/ MaterializeLocal(c)
  BY <1>2 DEF SccSolveColumn, LocalSolve, SpecializeRationalShadow, ApplyRationalRow,
    MaterializeLocal
<1>3. CASE SccSolveColumns(c) \/ LocalSolveBatch(c)
  BY <1>1, <1>3 DEF SccSolveColumns, LocalSolveBatch
<1>4. CASE LocalMatch(c) \/ LocalMatchAcb(c) \/ TileMatchAdvance(c)
  BY <1>4 DEF LocalMatch, LocalMatchAcb, TileMatchAdvance
<1>5. CASE EndpointLimit(c) \/ TileEndpointLimit(c) \/ EndpointBatch(c)
  <2>1. CASE EndpointLimit(c) \/ TileEndpointLimit(c)
    BY <2>1 DEF EndpointLimit, TileEndpointLimit
  <2>2. CASE EndpointBatch(c)
    BY <1>1, <2>2 DEF EndpointBatch
  <2> QED  BY <1>5, <2>1, <2>2
<1>6. CASE TilePlan(c) \/ TilePlanArm(c)
  BY <1>6 DEF TilePlan, TilePlanArm
<1>7. CASE IntegrationLine(c) \/ Contract(c) \/ ContractPair(c)
  <2>1. CASE IntegrationLine(c)
    BY <2>1 DEF IntegrationLine
  <2>2. CASE Contract(c) \/ ContractPair(c)
    <3>1. PICK n \in 1..MaxBatch : Admit(c, Lines(n))
      BY <2>2 DEF Contract, ContractPair
    <3>2. Lines(n) \in [Kind -> Nat] /\ Wants(Lines(n))
      BY <1>1
    <3>3. call[c].at = "entered"
      BY <2>2 DEF Contract, ContractPair
    <3> QED  BY <3>1, <3>2, <3>3
  <2> QED  BY <1>7, <2>1, <2>2
<1> QED  BY <1>2, <1>3, <1>4, <1>5, <1>6, <1>7 DEF Solve

LEMMA SolveStep ==
  ASSUME IndInv, NEW c \in Call, Solve(c)
  PROVE  IndInv'
<1>1. PICK need \in [Kind -> Nat] : Admit(c, need)
  BY SolveAdmits
<1>2. call[c].held = Nothing
  BY SolveAdmits, EnteredHoldsNothing
<1>3. Draw(need) /\ Hold(c, need, Issued(need), {}, {})
  BY <1>1 DEF Admit, Reserve
<1>4. Issued(need) \in [Kind -> SUBSET Nat]
  BY IssuedType DEF IndInv
<1> QED  BY <1>2, <1>3, <1>4, ReservingStep

(* A whole arm publishes states, lines, and locals it reserved or resolved. *)
LEMMA ArmReserves ==
  ASSUME IndInv, NEW c \in Call, Arm(c)
  PROVE  /\ call[c].at = "entered"
         /\ \E need \in [Kind -> Nat], yield \in [Kind -> SUBSET Nat] :
              /\ Reserve(c, need, yield, {}, {}) /\ Wants(need)
              /\ \A k \in Kind : yield[k] \subseteq reg[k] \cup Issued(need)[k]
              /\ \A k \in Kind \ {"local"} : yield[k] \subseteq Issued(need)[k]
              /\ \/ yield["local"] \subseteq Issued(need)["local"]
                 \/ /\ need["local"] >= 2 /\ \E g, h \in Nat : yield["local"] = {g, h}
                    /\ "integration.run_one_tile_arms" \in Ops
                 \/ "transport.run_one_tile_arm" \in Ops
<1> USE BoundAssumption DEF IndInv, TypeOK
<1>1. next \in [Kind -> Nat \ {0}] /\ reg \in [Kind -> SUBSET Nat]
  OBVIOUS
<1>2. CASE RunArms(c)
  <2>1. PICK m \in 0..MaxBatch :
          LET need == [None EXCEPT !["match"] = m, !["local"] = m, !["state"] = 2]
          IN  Reserve(c, need, [Nothing EXCEPT !["state"] = Issued(need)["state"]], {}, {})
    BY <1>2 DEF RunArms
  <2> DEFINE need  == [None EXCEPT !["match"] = m, !["local"] = m, !["state"] = 2]
             yield == [Nothing EXCEPT !["state"] = Issued(need)["state"]]
  <2>2. need \in [Kind -> Nat] /\ Wants(need)
    BY DEF None, Kind, Wants
  <2>3. Issued(need) \in [Kind -> SUBSET Nat]
    BY <2>2, IssuedType
  <2> HIDE DEF need
  <2>4. /\ yield \in [Kind -> SUBSET Nat]
        /\ \A k \in Kind : yield[k] \subseteq Issued(need)[k]
    BY <2>3 DEF Nothing, Kind
  <2>6. "local" \in Kind
    BY DEF Kind
  <2>5. Reserve(c, need, yield, {}, {})
    BY <2>1 DEF need
  <2> HIDE DEF yield
  <2> QED  BY <2>2, <2>4, <2>5, <2>6, <1>2 DEF RunArms, Open, Entered
<1>3. CASE RunArm(c)
  <2>1. PICK m \in 1..MaxBatch :
          LET need == [None EXCEPT !["match"] = m, !["local"] = m, !["state"] = 1]
          IN  Reserve(c, need,
                [Nothing EXCEPT !["state"] = Issued(need)["state"],
                                !["local"] = {next["local"] + m - 1}], {}, {})
    BY <1>3 DEF RunArm
  <2> DEFINE need  == [None EXCEPT !["match"] = m, !["local"] = m, !["state"] = 1]
             yield == [Nothing EXCEPT !["state"] = Issued(need)["state"],
                                      !["local"] = {next["local"] + m - 1}]
  <2>2. need \in [Kind -> Nat] /\ need["local"] = m /\ Wants(need)
    BY DEF None, Kind, Wants
  <2>3. Issued(need) \in [Kind -> SUBSET Nat]
    BY <2>2, IssuedType
  <2>4. next["local"] + m - 1 \in Issued(need)["local"]
    BY <2>2, <1>1 DEF Issued, Kind
  <2> HIDE DEF need
  <2>5. /\ yield \in [Kind -> SUBSET Nat]
        /\ \A k \in Kind : yield[k] \subseteq Issued(need)[k]
    BY <2>3, <2>4 DEF Nothing, Kind
  <2>7. "local" \in Kind
    BY DEF Kind
  <2>6. Reserve(c, need, yield, {}, {})
    BY <2>1 DEF need
  <2> HIDE DEF yield
  <2> QED  BY <2>2, <2>5, <2>6, <2>7, <1>3 DEF RunArm, Open, Entered
<1>4. CASE RunOneTileArm(c)
  <2>1. PICK anchor \in reg["local"] :
          LET need == [None EXCEPT !["state"] = 1]
          IN  Reserve(c, need,
                [Nothing EXCEPT !["state"] = Issued(need)["state"], !["local"] = {anchor}],
                {}, {})
    BY <1>4 DEF RunOneTileArm
  <2> DEFINE need  == [None EXCEPT !["state"] = 1]
             yield == [Nothing EXCEPT !["state"] = Issued(need)["state"], !["local"] = {anchor}]
  <2>2. need \in [Kind -> Nat] /\ Wants(need)
    BY DEF None, Kind, Wants
  <2>3. Issued(need) \in [Kind -> SUBSET Nat] /\ anchor \in Nat
    BY <2>2, IssuedType, <1>1 DEF Kind
  <2> HIDE DEF need
  <2>4. /\ yield \in [Kind -> SUBSET Nat]
        /\ \A k \in Kind : yield[k] \subseteq reg[k] \cup Issued(need)[k]
        /\ \A k \in Kind \ {"local"} : yield[k] \subseteq Issued(need)[k]
    BY <2>3 DEF Nothing, Kind
  <2>5. Reserve(c, need, yield, {}, {})
    BY <2>1 DEF need
  <2> HIDE DEF yield
  <2> QED  BY <2>2, <2>4, <2>5, <1>4 DEF RunOneTileArm, Open, Entered
<1>5. CASE IntegrationRunArms(c) \/ IntegrationRunOneTileArms(c)
  <2>1. PICK anchor \in reg["local"], lower \in 0..MaxBatch, upper \in 0..MaxBatch :
          /\ MarchArms(c, anchor, lower, upper)
          /\ lower = 0 \/ upper = 0 => "integration.run_one_tile_arms" \in Ops
    <3>1. 1..MaxBatch \subseteq 0..MaxBatch /\ 0 \notin 1..MaxBatch
      OBVIOUS
    <3> QED
      BY <3>1, <1>5 DEF IntegrationRunArms, IntegrationRunOneTileArms, Open, Entered
  <2> DEFINE need   == [None EXCEPT !["match"] = lower + upper,
                          !["local"] = 2 * (lower + upper) + 2, !["line"] = 3]
             finals == {IF lower = 0 THEN anchor ELSE next["local"] + lower - 1,
                        IF upper = 0 THEN anchor ELSE next["local"] + 2 * lower + upper}
             yield  == [Nothing EXCEPT !["line"] = Issued(need)["line"], !["local"] = finals]
  <2>2. need \in [Kind -> Nat] /\ need["local"] = 2 * (lower + upper) + 2 /\ Wants(need)
    BY DEF None, Kind, Wants
  <2>3. Issued(need) \in [Kind -> SUBSET Nat] /\ anchor \in Nat
    BY <2>2, IssuedType, <1>1 DEF Kind
  <2> HIDE DEF need
  <2>4. /\ finals \subseteq reg["local"] \cup Issued(need)["local"] /\ finals \subseteq Nat
        /\ lower # 0 /\ upper # 0 => finals \subseteq Issued(need)["local"]
    <3>1. Issued(need)["local"] = next["local"]..(next["local"] + need["local"] - 1)
      BY DEF Issued, Kind
    <3>2. next["local"] \in Nat \ {0}
      BY <1>1 DEF Kind
    <3>3. PICK first \in Nat \ {0} : first = next["local"]
      BY <3>2
    <3>4. lower \in Nat /\ upper \in Nat
      BY BoundAssumption
    <3>5. Issued(need)["local"] = first..(first + 2 * (lower + upper) + 1)
      <4>1. first + (2 * (lower + upper) + 2) - 1 = first + 2 * (lower + upper) + 1
        BY <3>3, <3>4
      <4> QED  BY <4>1, <3>1, <3>3, <2>2
    <3>6. lower # 0 => first + lower - 1 \in first..(first + 2 * (lower + upper) + 1)
      BY <3>3, <3>4
    <3>7. first + 2 * lower + upper \in first..(first + 2 * (lower + upper) + 1)
      BY <3>3, <3>4
    <3>8. first + lower - 1 \in Nat /\ first + 2 * lower + upper \in Nat
      BY <3>3, <3>4
    <3>9. finals = {IF lower = 0 THEN anchor ELSE first + lower - 1,
                    IF upper = 0 THEN anchor ELSE first + 2 * lower + upper}
      BY <3>3
    <3> HIDE DEF finals
    <3> QED  BY <3>5, <3>6, <3>7, <3>8, <3>9, <2>3, <2>1
  <2> HIDE DEF finals
  <2>5. /\ yield \in [Kind -> SUBSET Nat]
        /\ \A k \in Kind : yield[k] \subseteq reg[k] \cup Issued(need)[k]
        /\ \A k \in Kind \ {"local"} : yield[k] \subseteq Issued(need)[k]
        /\ yield["local"] = finals
    BY <2>3, <2>4 DEF Nothing, Kind
  <2>7. need["local"] >= 2
    BY <2>2
  <2>8. \E g, h \in Nat : finals = {g, h}
    BY <2>4 DEF finals
  <2>6. Reserve(c, need, yield, {}, {})
    BY <2>1 DEF MarchArms, need, finals
  <2> HIDE DEF yield
  <2>9. call[c].at = "entered"
    BY <1>5 DEF IntegrationRunArms, IntegrationRunOneTileArms, Open, Entered
  <2> QED  BY <2>1, <2>2, <2>4, <2>5, <2>6, <2>7, <2>8, <2>9
<1> QED  BY <1>2, <1>3, <1>4, <1>5 DEF Arm

LEMMA ArmStep ==
  ASSUME IndInv, NEW c \in Call, Arm(c)
  PROVE  IndInv'
<1>1. PICK need \in [Kind -> Nat], yield \in [Kind -> SUBSET Nat] :
        /\ Reserve(c, need, yield, {}, {})
        /\ \A k \in Kind : yield[k] \subseteq reg[k] \cup Issued(need)[k]
  BY ArmReserves
<1>2. call[c].held = Nothing
  BY ArmReserves, EnteredHoldsNothing
<1> QED  BY <1>1, <1>2, ReservingStep DEF Reserve

(* A hop, or a fold of finished arms, publishes what it reserves.          *)
LEMMA HopStep ==
  ASSUME IndInv, NEW c \in Call, Hop(c)
  PROVE  IndInv'
<1>1. CASE ConsumeHop(c)
  <2>1. PICK basis \in SUBSET reg["local"] :
          /\ Draw([None EXCEPT !["local"] = 1, !["match"] = 1])
          /\ Hold(c, Locals(1), Issued(Locals(1)), basis, basis)
    BY <1>1 DEF ConsumeHop
  <2> DEFINE need == [None EXCEPT !["local"] = 1, !["match"] = 1]
  <2>2. need \in [Kind -> Nat] /\ \A k \in Kind : Locals(1)[k] <= need[k]
    BY DEF None, Locals, Kind
  <2>3. basis \in SUBSET Nat
    BY DEF IndInv, TypeOK, Kind
  <2>4. Locals(1) \in [Kind -> Nat]
    BY NeedTypes
  <2>5. Issued(Locals(1)) \in [Kind -> SUBSET Nat]
    BY <2>4, IssuedType DEF IndInv
  <2>6. call[c].held = Nothing
    BY <1>1, EnteredHoldsNothing DEF ConsumeHop, Open, Entered
  <2> HIDE DEF need
  <2> QED  BY <2>1, <2>2, <2>3, <2>4, <2>5, <2>6, ReservingStep DEF need
<1>2. CASE PublishConsumedStates(c)
  <2>1. PICK n \in 1..2, tiles \in SUBSET reg["local"] :
          LET need == [None EXCEPT !["state"] = n]
          IN  Reserve(c, need, Issued(need), tiles, tiles)
    BY <1>2 DEF PublishConsumedStates
  <2> DEFINE need == [None EXCEPT !["state"] = n]
  <2>2. need \in [Kind -> Nat]
    BY DEF None, Kind
  <2>3. tiles \in SUBSET Nat
    BY DEF IndInv, TypeOK, Kind
  <2>4. Issued(need) \in [Kind -> SUBSET Nat]
    BY <2>2, IssuedType DEF IndInv
  <2>5. call[c].held = Nothing
    BY <1>2, EnteredHoldsNothing DEF PublishConsumedStates, Open, Entered
  <2>6. Draw(need) /\ Hold(c, need, Issued(need), tiles, tiles)
    BY <2>1 DEF Reserve
  <2> HIDE DEF need
  <2>7. \A k \in Kind : need[k] <= need[k]
    BY <2>2
  <2> QED  BY <2>2, <2>3, <2>4, <2>5, <2>6, <2>7, ReservingStep
<1>3. CASE ConsumeValueHop(c) \/ ConsumePhysicalValueHop(c)
  <2>1. PICK incoming \in reg["local"] :
          call' = [call EXCEPT ![c].at = "evaluating", ![c].checks = {incoming}]
    BY <1>3 DEF ConsumeValueHop, ConsumePhysicalValueHop
  <2>2. UNCHANGED <<listed, closed, prepared, next, reg, pending, streams, heirs>>
    BY <1>3 DEF ConsumeValueHop, ConsumePhysicalValueHop
  <2>3. call[c].at = "entered"
    BY <1>3 DEF ConsumeValueHop, ConsumePhysicalValueHop, Open, Entered
  <2> DEFINE r == [call[c] EXCEPT !.at = "evaluating", !.checks = {incoming}]
  <2>4. r \in CallRecord /\ r.held = Nothing /\ r.at = "evaluating" /\ r.yield = call[c].yield
    <3>1. call[c] \in CallRecord /\ {incoming} \in SUBSET Nat
      BY DEF IndInv, TypeOK, Kind
    <3>2. call[c].held = Nothing
      BY <2>3, EnteredHoldsNothing
    <3> QED  BY <3>1, <3>2 DEF CallRecord, Phase
  <2>5. call' = [call EXCEPT ![c] = r]
    BY <2>1 DEF IndInv, TypeOK
  <2> HIDE DEF r
  <2> QED  BY <2>2, <2>3, <2>4, <2>5, QuietRequest, EnteredHoldsNothing DEF IndInv, TypeOK
<1>4. CASE ReserveValueHop(c)
  <2>1. /\ Draw(Locals(1))
        /\ Hold(c, Locals(1), Issued(Locals(1)), call[c].checks, {})
    BY <1>4 DEF ReserveValueHop, Reserve
  <2>2. Locals(1) \in [Kind -> Nat] /\ Wants(Locals(1))
    BY NeedTypes, NeedWants
  <2>3. Issued(Locals(1)) \in [Kind -> SUBSET Nat]
    BY <2>2, IssuedType DEF IndInv
  <2>4. call[c].checks \in SUBSET Nat
    BY DEF IndInv, TypeOK, CallRecord
  <2>5. call[c].held = Nothing
    BY <1>4, EnteredHoldsNothing DEF ReserveValueHop
  <2>6. \A k \in Kind : Locals(1)[k] <= Locals(1)[k]
    BY <2>2
  <2> QED  BY <2>1, <2>2, <2>3, <2>4, <2>5, <2>6, ReservingStep
<1> QED  BY <1>1, <1>2, <1>3, <1>4 DEF Hop

LEMMA RouteTail ==
  ASSUME NEW S, NEW route \in Seq(S), route # <<>>
  PROVE  Tail(route) \in Seq(S) /\ (Len(route) # 1 => Tail(route) # <<>>)
<1>1. Tail(route) \in Seq(S) /\ Len(Tail(route)) = Len(route) - 1
  BY HeadTailProperties
<1>2. Len(route) \in Nat
  BY LenProperties
<1>3. Tail(route) = <<>> => Len(Tail(route)) = 0
  BY EmptySeq
<1> QED  BY <1>1, <1>2, <1>3

LEMMA RouteIsSeq ==
  ASSUME NEW S, NEW m \in Nat, NEW route \in [1..m -> S]
  PROVE  route \in Seq(S) /\ (m # 0 => route # <<>>)
<1>1. route \in Seq(S)
  BY SeqDef
<1>2. DOMAIN route = 1..m
  OBVIOUS
<1>3. route = <<>> => DOMAIN route = {}
  OBVIOUS
<1>4. m # 0 => 1 \in 1..m
  OBVIOUS
<1> QED  BY <1>1, <1>2, <1>3, <1>4

(* A consuming march reserves nothing: it is quiet until it publishes.     *)
LEMMA MarchBegins ==
  ASSUME IndInv, NEW c \in Call, RunArmsConsuming(c)
  PROVE  IndInv'
<1> USE BoundAssumption
<1>1. PICK m \in 0..MaxBatch : \E route \in [1..m -> (SUBSET reg["local"]) \ {{}}] :
       /\ Draw([None EXCEPT !["match"] = m, !["local"] = m, !["state"] = 2])
       /\ \/ call' = [call EXCEPT ![c] =
                  [at |-> IF m = 0 THEN "working" ELSE "marching", held |-> Nothing,
                   yield |-> [Nothing EXCEPT
                                !["state"] = {next["state"], next["state"] + 1}],
                   checks |-> {}, spends |-> {}, route |-> route]]
          \/ call' = [call EXCEPT ![c] = Idle]
  BY DEF RunArmsConsuming
<1>2. PICK route \in [1..m -> (SUBSET reg["local"]) \ {{}}] :
       /\ Draw([None EXCEPT !["match"] = m, !["local"] = m, !["state"] = 2])
       /\ \/ call' = [call EXCEPT ![c] =
                  [at |-> IF m = 0 THEN "working" ELSE "marching", held |-> Nothing,
                   yield |-> [Nothing EXCEPT
                                !["state"] = {next["state"], next["state"] + 1}],
                   checks |-> {}, spends |-> {}, route |-> route]]
          \/ call' = [call EXCEPT ![c] = Idle]
  BY <1>1
<1> DEFINE need == [None EXCEPT !["match"] = m, !["local"] = m, !["state"] = 2]
           r == [at |-> IF m = 0 THEN "working" ELSE "marching", held |-> Nothing,
                 yield |-> [Nothing EXCEPT !["state"] = {next["state"], next["state"] + 1}],
                 checks |-> {}, spends |-> {}, route |-> route]
<1>3. need \in [Kind -> Nat] /\ need["state"] = 2
  BY DEF None, Kind
<1>4. next \in [Kind -> Nat \ {0}]
  BY DEF IndInv, TypeOK
<1> HIDE DEF need
<1>5. /\ next' \in [Kind -> Nat \ {0}] /\ \A k \in Kind : next[k] <= next'[k]
      /\ next'["state"] = next["state"] + 2
  <2>1. next' = [k \in Kind |-> next[k] + need[k]]
    BY <1>2 DEF Draw, need
  <2>2. "state" \in Kind
    BY DEF Kind
  <2>3. ASSUME NEW k \in Kind
        PROVE  next[k] + need[k] \in Nat \ {0} /\ next[k] <= next'[k]
    <3>1. next[k] \in Nat \ {0} /\ need[k] \in Nat
      BY <1>3, <1>4
    <3>2. next'[k] = next[k] + need[k]
      BY <2>1
    <3> QED  BY <3>1, <3>2
  <2>4. next' \in [Kind -> Nat \ {0}]
    BY <2>1, <2>3
  <2>5. next'["state"] = next["state"] + 2
    BY <2>1, <2>2, <1>3
  <2> QED  BY <2>3, <2>4, <2>5
<1>6. call[c].held = Nothing
  BY EnteredHoldsNothing DEF RunArmsConsuming, Open, Entered
<1>7. UNCHANGED <<listed, closed, prepared, reg, pending, streams, heirs>>
  BY DEF RunArmsConsuming
<1>8. CASE call' = [call EXCEPT ![c] = Idle]
  <2>1. Ledger' /\ Accounting'
    <3>1. \A k \in Kind : Idle.yield[k] = {}
      BY IdleRecord DEF Nothing
    <3>2. reg' \in [Kind -> SUBSET Nat] /\ reg' = reg /\ UNCHANGED <<pending, streams>>
      BY <1>7 DEF IndInv, TypeOK
    <3>3. Idle.at \notin {"marching", "matching"}
      BY IdleRecord
    <3>4. \A k \in Kind : reg'[k] \subseteq reg[k]
      BY <3>2
    <3>5. \A k \in Kind :
            Idle.yield[k] \subseteq call[c].yield[k] \cup (next[k]..(next'[k] - 1))
      BY <3>1
    <3> QED  BY <3>2, <3>3, <3>4, <3>5, <1>5, <1>6, <1>8, IdleRecord, QuietStep
  <2>2. call' \in [Call -> CallRecord]
    BY <1>8, IdleRecord DEF IndInv, TypeOK
  <2> QED  BY <2>1, <2>2, <1>5, <1>7 DEF IndInv, TypeOK
<1>9. CASE call' = [call EXCEPT ![c] = r]
  <2>1. route \in Seq(SUBSET Nat) /\ (m # 0 => route # <<>>)
    <3>1. (SUBSET reg["local"]) \ {{}} \subseteq SUBSET Nat
      BY DEF IndInv, TypeOK, Kind
    <3>2. route \in [1..m -> SUBSET Nat]
      BY <3>1
    <3> QED  BY <3>2, RouteIsSeq
  <2>2. r.yield \in [Kind -> SUBSET Nat]
        /\ \A k \in Kind : r.yield[k] \subseteq next[k]..(next'[k] - 1)
    <3>1. next["state"] \in Nat \ {0}
      BY <1>4 DEF Kind
    <3> DEFINE states == {next["state"], next["state"] + 1}
    <3>2. states \subseteq Nat /\ states \subseteq next["state"]..(next'["state"] - 1)
      BY <3>1, <1>5
    <3>3. r.yield = [Nothing EXCEPT !["state"] = states]
      OBVIOUS
    <3> HIDE DEF states, r
    <3>4. \A k \in Kind : r.yield[k] = IF k = "state" THEN states ELSE {}
      BY <3>3 DEF Nothing, Kind
    <3>5. r.yield \in [Kind -> SUBSET Nat]
      BY <3>2, <3>3 DEF Nothing, Kind
    <3> QED  BY <3>2, <3>4, <3>5
  <2>3. /\ r \in CallRecord /\ r.held = Nothing
        /\ r.at \in {"marching", "matching"} => r.route # <<>>
    BY <2>1, <2>2 DEF CallRecord, Phase, Nothing
  <2> HIDE DEF r
  <2>4. Ledger' /\ Accounting'
    BY <1>5, <1>6, <1>7, <1>9, <2>2, <2>3, QuietStep DEF IndInv, TypeOK
  <2>5. call' \in [Call -> CallRecord]
    BY <1>9, <2>3 DEF IndInv, TypeOK
  <2> QED  BY <2>4, <2>5, <1>5, <1>7 DEF IndInv, TypeOK
<1> QED  BY <1>2, <1>8, <1>9

LEMMA MarchStep ==
  ASSUME IndInv, NEW c \in Call, March(c)
  PROVE  IndInv'
<1>1. CASE RunArmsConsuming(c)
  BY <1>1, MarchBegins
<1>2. CASE MarchResolve(c)
  <2> DEFINE r == [call[c] EXCEPT !.at = "matching"]
  <2>1. call[c].held = Nothing /\ call[c].route # <<>>
    BY <1>2, EnteredHoldsNothing DEF MarchResolve, IndInv, Ledger, OnlyWorkHolds
  <2>2. call[c] \in CallRecord
    BY DEF IndInv, TypeOK
  <2>3. r \in CallRecord /\ r.held = Nothing /\ r.route # <<>> /\ r.yield = call[c].yield
    BY <2>1, <2>2 DEF CallRecord, Phase
  <2>4. call' = [call EXCEPT ![c] = r]
    BY <1>2 DEF MarchResolve, IndInv, TypeOK
  <2> HIDE DEF r
  <2> QED  BY <1>2, <2>1, <2>3, <2>4, QuietRequest DEF MarchResolve, IndInv, TypeOK
<1>3. CASE MarchCommit(c)
  <2> DEFINE route == call[c].route
             last  == LastUses(route)
             r == [call[c] EXCEPT
                     !.at = IF Len(route) = 1 THEN "working" ELSE "marching",
                     !.route = Tail(route)]
  <2>1. call[c].held = Nothing /\ call[c].route # <<>>
    BY <1>3, EnteredHoldsNothing DEF MarchCommit, IndInv, Ledger, OnlyWorkHolds
  <2>2. call[c] \in CallRecord /\ call[c].route \in Seq(SUBSET Nat)
        /\ call[c].yield \in [Kind -> SUBSET Nat]
    BY DEF IndInv, TypeOK, CallRecord
  <2>3. Tail(route) \in Seq(SUBSET Nat) /\ (Len(route) # 1 => Tail(route) # <<>>)
    BY <2>1, <2>2, RouteTail
  <2>4. /\ r \in CallRecord /\ r.held = Nothing /\ r.yield = call[c].yield
        /\ r.at \in {"marching", "matching"} => r.route # <<>>
    BY <2>1, <2>2, <2>3 DEF CallRecord, Phase
  <2>5. /\ call' = [call EXCEPT ![c] = r]
        /\ last \subseteq reg["local"]
        /\ reg' = [reg EXCEPT !["local"] = @ \ last]
        /\ heirs' = heirs \cup (last \X {call[c].yield})
        /\ UNCHANGED <<listed, closed, prepared, next, pending, streams>>
    BY <1>3 DEF MarchCommit, IndInv, TypeOK
  <2> HIDE DEF r, last
  <2>6. reg' \in [Kind -> SUBSET Nat] /\ \A k \in Kind : reg'[k] \subseteq reg[k]
    BY <2>5 DEF IndInv, TypeOK
  <2>7. last \subseteq Nat
    BY <2>5 DEF IndInv, TypeOK, Kind
  <2>8. heirs' \subseteq Nat \X [Kind -> SUBSET Nat]
    BY <2>2, <2>5, <2>7 DEF IndInv, TypeOK
  <2> QED  BY <2>1, <2>4, <2>5, <2>6, <2>8, QuietRequest DEF IndInv, TypeOK
<1>4. CASE MarchLosesBasis(c)
  <2>1. call[c].held = Nothing
    BY <1>4, EnteredHoldsNothing DEF MarchLosesBasis
  <2>2. PICK erased : reg' = [reg EXCEPT !["local"] = @ \ erased]
    BY <1>4 DEF MarchLosesBasis
  <2>3. reg' \in [Kind -> SUBSET Nat] /\ \A k \in Kind : reg'[k] \subseteq reg[k]
    BY <2>2 DEF IndInv, TypeOK
  <2> QED  BY <1>4, <2>1, <2>3, IdleRequest DEF MarchLosesBasis, IndInv, TypeOK
<1> QED  BY <1>1, <1>2, <1>3, <1>4 DEF March

LEMMA PublishStep ==
  ASSUME IndInv, NEW c \in Call, Publish(c)
  PROVE  IndInv'
<1>1. /\ Settle(c)
      /\ reg' = [k \in Kind |->
           (IF k = "local" THEN reg[k] \ call[c].spends ELSE reg[k]) \cup call[c].yield[k]]
      /\ heirs' = heirs \cup (call[c].spends \X {call[c].yield})
      /\ UNCHANGED <<listed, closed, prepared, next, streams>>
  BY DEF Publish, Register
<1>2. call[c].yield \in [Kind -> SUBSET Nat] /\ call[c].spends \subseteq Nat
  BY DEF IndInv, TypeOK, CallRecord
<1>3. /\ reg' \in [Kind -> SUBSET Nat]
      /\ \A k \in Kind : reg'[k] \subseteq reg[k] \cup call[c].yield[k]
  BY <1>1, <1>2 DEF IndInv, TypeOK
<1>4. heirs' \subseteq Nat \X [Kind -> SUBSET Nat]
  BY <1>1, <1>2 DEF IndInv, TypeOK
<1>5. /\ Ledger' /\ Accounting'
      /\ pending' \in [Kind -> Nat] /\ call' \in [Call -> CallRecord]
  BY <1>1, <1>3, SettlingStep
<1> QED  BY <1>1, <1>3, <1>4, <1>5 DEF IndInv, TypeOK

LEMMA GivingBackStep ==
  ASSUME IndInv, NEW c \in Call, Fail(c) \/ StreamAborted(c)
  PROVE  IndInv'
<1>1. Settle(c) /\ UNCHANGED <<listed, closed, prepared, next, reg, streams, heirs>>
  BY DEF Fail, StreamAborted
<1>2. /\ reg' \in [Kind -> SUBSET Nat]
      /\ \A k \in Kind : reg'[k] \subseteq reg[k] \cup call[c].yield[k]
  BY <1>1 DEF IndInv, TypeOK
<1>3. /\ Ledger' /\ Accounting'
      /\ pending' \in [Kind -> Nat] /\ call' \in [Call -> CallRecord]
  BY <1>1, <1>2, SettlingStep
<1> QED  BY <1>1, <1>3 DEF IndInv, TypeOK

LEMMA StreamStep ==
  ASSUME IndInv, NEW c \in Call, Stream(c)
  PROVE  IndInv'
<1>1. CASE RollingStreamBegin(c) \/ StreamBegin(c)
  BY <1>1, EnteredHoldsNothing, StreamingStep
     DEF RollingStreamBegin, StreamBegin, Open, Entered
<1>2. CASE StreamAbort(c)
  <2>1. PICK line \in streams : TakeStream(c, line, "aborting", Nothing)
    BY <1>2 DEF StreamAbort
  <2>2. Nothing \in [Kind -> SUBSET Nat]
        /\ \A k \in Kind : Nothing[k] \subseteq (IF k = "line" THEN {line} ELSE {})
    BY DEF Nothing
  <2>3. call[c].held = Nothing
    BY <1>2, EnteredHoldsNothing DEF StreamAbort, Entered
  <2> QED  BY <2>1, <2>2, <2>3, TakingStep
<1>3. CASE StreamFinish(c)
  <2> DEFINE yield(line) == [Nothing EXCEPT !["line"] = {line}]
  <2>1. PICK line \in streams : TakeStream(c, line, "working", yield(line))
    BY <1>3 DEF StreamFinish
  <2>2. yield(line) \in [Kind -> SUBSET Nat]
        /\ \A k \in Kind : yield(line)[k] \subseteq (IF k = "line" THEN {line} ELSE {})
    BY DEF Nothing, Kind, IndInv, TypeOK
  <2>3. call[c].held = Nothing
    BY <1>3, EnteredHoldsNothing DEF StreamFinish, Open, Entered
  <2> HIDE DEF yield
  <2> QED  BY <2>1, <2>2, <2>3, TakingStep
<1>4. CASE StreamAborted(c)
  BY <1>4, GivingBackStep
<1> QED  BY <1>1, <1>2, <1>3, <1>4 DEF Stream

LEMMA RetireStep ==
  ASSUME IndInv, NEW c \in Call, Retire(c)
  PROVE  IndInv'
<1>1. call[c].held = Nothing
  BY EnteredHoldsNothing
     DEF Retire, Prepare, ReleasePrepared, LocalRelease, MatchRelease, EndpointRelease,
         TileRelease, TransportRelease, IntegrationRelease, Entered
<1>2. CASE Prepare(c) \/ ReleasePrepared(c)
  BY <1>1, <1>2, IdleRequest DEF Prepare, ReleasePrepared, IndInv, TypeOK
<1>3. ASSUME NEW k \in Kind, Release(c, k)  PROVE IndInv'
  <2>1. PICK h : reg' = [reg EXCEPT ![k] = @ \ {h}]
    BY <1>3 DEF Release
  <2>2. reg' \in [Kind -> SUBSET Nat] /\ \A j \in Kind : reg'[j] \subseteq reg[j]
    BY <2>1 DEF IndInv, TypeOK
  <2> QED  BY <1>1, <1>3, <2>2, IdleRequest DEF Release, IndInv, TypeOK
<1> QED  BY <1>2, <1>3
         DEF Retire, LocalRelease, MatchRelease, EndpointRelease, TileRelease,
             TransportRelease, IntegrationRelease, Kind

LEMMA EnterOrLeaveStep ==
  ASSUME IndInv, NEW c \in Call, Enter(c) \/ Refuse(c) \/ CloseBegin(c)
  PROVE  IndInv'
<1>1. call[c] \in CallRecord
  BY DEF IndInv, TypeOK
<1>2. call[c].held = Nothing
  BY EnteredHoldsNothing DEF Enter, Refuse, CloseBegin
<1>3. CASE Enter(c) \/ CloseBegin(c)
  <2>1. PICK at \in {"entered", "closing"} : call' = [call EXCEPT ![c].at = at]
    BY <1>3 DEF Enter, CloseBegin
  <2> DEFINE r == [call[c] EXCEPT !.at = at]
  <2>2. /\ r \in CallRecord /\ r.held = Nothing /\ r.yield = call[c].yield
        /\ r.at \notin {"marching", "matching"}
    BY <1>1, <1>2 DEF CallRecord, Phase
  <2>3. call' = [call EXCEPT ![c] = r]
    BY <2>1 DEF IndInv, TypeOK
  <2> HIDE DEF r
  <2>4. /\ UNCHANGED <<closed, prepared, next, reg, pending, streams, heirs>>
        /\ listed' \in BOOLEAN
    BY <1>3 DEF Enter, CloseBegin, IndInv, TypeOK
  <2> QED  BY <1>2, <2>2, <2>3, <2>4, QuietRequest DEF IndInv, TypeOK
<1>4. CASE Refuse(c)
  BY <1>2, <1>4, IdleRequest DEF Refuse, IndInv, TypeOK
<1> QED  BY <1>3, <1>4

------------------------------------------------------------------------------
LEMMA InitIndInv == Init => IndInv
<1> SUFFICES ASSUME Init  PROVE IndInv
  OBVIOUS
<1>1. \A c \in Call : call[c] = Idle
  BY DEF Init
<1>2. TypeOK
  <2>1. /\ next \in [Kind -> Nat \ {0}] /\ pending \in [Kind -> Nat]
        /\ reg \in [Kind -> SUBSET Nat]
    BY DEF Init, Nothing, None
  <2>2. call \in [Call -> CallRecord]
    BY IdleRecord DEF Init
  <2> QED  BY <2>1, <2>2 DEF Init, TypeOK
<1>3. Ledger
  BY <1>1, IdleRecord
     DEF Init, Ledger, HandlesIssued, OnlyWorkHolds, HandlesApart, Nothing, Kind
<1>4. ASSUME NEW k \in Kind  PROVE pending[k] = Cardinality(Reserved(k))
  <2>1. Reserved(k) = {}
    BY <1>1, IdleRecord DEF Init, Reserved, Nothing
  <2> QED  BY <2>1, FS_EmptySet DEF Init, None
<1> QED  BY <1>2, <1>3, <1>4 DEF IndInv, Accounting

LEMMA NextIndInv ==
  ASSUME IndInv, [Next]_vars
  PROVE  IndInv'
<1>1. CASE UNCHANGED vars
  <2>1. \A k \in Kind : Reserved(k)' = Reserved(k)
    BY <1>1 DEF vars, Reserved
  <2>2. Accounting'
    BY <1>1, <2>1 DEF vars, IndInv, Accounting
  <2>3. TypeOK' /\ Ledger'
    BY <1>1 DEF vars, IndInv, TypeOK, Ledger, HandlesIssued, OnlyWorkHolds, HandlesApart
  <2> QED  BY <2>2, <2>3 DEF IndInv
<1>2. CASE Reset
  <2>1. \A k \in Kind : Reserved(k)' = Reserved(k)
    BY <1>2 DEF Reset, Reserved
  <2>2. Accounting'
    BY <1>2, <2>1 DEF Reset, IndInv, Accounting
  <2>3. TypeOK' /\ Ledger'
    BY <1>2 DEF Reset, IndInv, TypeOK, Ledger, HandlesIssued, OnlyWorkHolds, HandlesApart
  <2> QED  BY <2>2, <2>3 DEF IndInv
<1>3. ASSUME NEW c \in Call, Enter(c) \/ Refuse(c) \/ CloseBegin(c)  PROVE IndInv'
  BY <1>3, EnterOrLeaveStep
<1>4. ASSUME NEW c \in Call, Publish(c)  PROVE IndInv'
  BY <1>4, PublishStep
<1>5. ASSUME NEW c \in Call, Fail(c)  PROVE IndInv'
  BY <1>5, GivingBackStep
<1>6. ASSUME NEW c \in Call, Solve(c)  PROVE IndInv'
  BY <1>6, SolveStep
<1>7. ASSUME NEW c \in Call, Arm(c)  PROVE IndInv'
  BY <1>7, ArmStep
<1>8. ASSUME NEW c \in Call, Hop(c)  PROVE IndInv'
  BY <1>8, HopStep
<1>9. ASSUME NEW c \in Call, March(c)  PROVE IndInv'
  BY <1>9, MarchStep
<1>10. ASSUME NEW c \in Call, Stream(c)  PROVE IndInv'
  BY <1>10, StreamStep
<1>11. ASSUME NEW c \in Call, Retire(c)  PROVE IndInv'
  BY <1>11, RetireStep
<1>12. ASSUME NEW c \in Call, CloseEnd(c)  PROVE IndInv'
  BY <1>12, ClosingStep
<1> QED  BY <1>1, <1>2, <1>3, <1>4, <1>5, <1>6, <1>7, <1>8, <1>9, <1>10, <1>11, <1>12 DEF Next

(* The state of a session is always well formed.                           *)
THEOREM TypeCorrect == Spec => []TypeOK
<1>1. IndInv => TypeOK
  BY DEF IndInv
<1> QED  BY <1>1, InitIndInv, NextIndInv, PTL DEF Spec

(* Handles that one request was promised are never promised to another,    *)
(* nor visible before it publishes them.                                   *)
THEOREM PromisesApart == Spec => []Ledger
<1>1. IndInv => Ledger
  BY DEF IndInv
<1> QED  BY <1>1, InitIndInv, NextIndInv, PTL DEF Spec

(* The pending counters are exact in every interleaving of any number of   *)
(* requests: what failure, close, abort and finish give back is what was   *)
(* reserved, once.                                                         *)
THEOREM CountersExact == Spec => []Accounting
<1>1. IndInv => Accounting
  BY DEF IndInv
<1> QED  BY <1>1, InitIndInv, NextIndInv, PTL DEF Spec

------------------------------------------------------------------------------
(* That no interleaving of requests overfills a registry, and that nothing   *)
(* outlives the close of a session: from IndInv and the few shapes a step    *)
(* can have.                                                               *)

(* c reserves all it may register, up to an anchor it resolved.            *)
Promises(c) ==
  \E need \in [Kind -> Nat], yield \in [Kind -> SUBSET Nat],
     checks \in SUBSET Nat, spends \in SUBSET Nat :
    /\ ~closed /\ call[c].held = Nothing
    /\ Reserve(c, need, yield, checks, spends) /\ Wants(need)
    /\ \A k \in Kind \ {"local"} : yield[k] \subseteq Issued(need)[k]
    /\ \/ yield["local"] \subseteq Issued(need)["local"]
       \/ /\ need["local"] >= 2 /\ \E g, h \in Nat : yield["local"] = {g, h}
          /\ "integration.run_one_tile_arms" \in Ops
       \/ "transport.run_one_tile_arm" \in Ops
    /\ spends # {} => spends \subseteq checks /\ need["local"] = 0

(* The same, by a solve that does not test closed.                         *)
Solves(c) ==
  \E need \in [Kind -> Nat] : call[c].held = Nothing /\ Wants(need) /\ Admit(c, need)

(* c reserves nothing before or after, and nothing new appears.            *)
Quiet(c) ==
  \E r \in CallRecord :
    /\ r.at = "idle" => r = Idle
    /\ r.at \in {"working", "marching", "matching"} =>
         \/ "transport.run_arms_consuming" \in Ops
         \/ call[c].at \in {"marching", "matching"}
    /\ call[c].held = Nothing /\ r.held = Nothing /\ call[c].at # "working"
    /\ call' = [call EXCEPT ![c] = r]
    /\ r.spends \subseteq call[c].spends
    /\ \A k \in Kind : \/ r.yield[k] \subseteq call[c].yield[k]
                       \/ k = "state" /\ "transport.run_arms_consuming" \in Ops
    /\ \A k \in Kind : reg'[k] \subseteq reg[k]
    /\ UNCHANGED <<pending, streams, closed>>

GivesBack(c) == Settle(c) /\ UNCHANGED <<reg, streams, closed>>

Starts(c) == call[c].held = Nothing /\ ~closed /\ StartStream(c)

Takes(c) ==
  \E line \in streams, at \in {"working", "aborting"}, yield \in [Kind -> SUBSET Nat] :
    /\ call[c].held = Nothing
    /\ \A k \in Kind : yield[k] \subseteq (IF k = "line" THEN {line} ELSE {})
    /\ TakeStream(c, line, at, yield)

Shape(c) ==
  \/ Solves(c) \/ Promises(c) \/ ConsumeHop(c) \/ Quiet(c) \/ Publish(c)
  \/ GivesBack(c) \/ Starts(c) \/ Takes(c) \/ CloseEnd(c)

Same == UNCHANGED <<closed, reg, pending, streams, call>>

------------------------------------------------------------------------------
LEMMA QuietIdle ==
  ASSUME IndInv, NEW c \in Call, call[c].held = Nothing, call[c].at # "working",
         call' = [call EXCEPT ![c] = Idle],
         UNCHANGED <<pending, streams, closed>>,
         \A k \in Kind : reg'[k] \subseteq reg[k]
  PROVE  Quiet(c)
BY IdleRecord DEF Quiet, Nothing

LEMMA MarchIsQuiet ==
  ASSUME IndInv, NEW c \in Call, March(c)
  PROVE  Quiet(c)
<1> USE DEF IndInv
<1>1. call[c].held = Nothing /\ call[c].at # "working"
  BY EnteredHoldsNothing
     DEF March, RunArmsConsuming, MarchResolve, MarchCommit, MarchLosesBasis, Open, Entered
<1>2. call[c] \in CallRecord /\ call'[c] \in CallRecord
  BY MarchStep DEF TypeOK
<1>3. CASE RunArmsConsuming(c)
  <2>1. PICK r : /\ call' = [call EXCEPT ![c] = r]
                 /\ r.held = Nothing /\ r.spends = {} /\ (r.at = "idle" => r = Idle)
                 /\ \/ r.yield = Nothing
                    \/ r.yield = [Nothing EXCEPT
                                    !["state"] = {next["state"], next["state"] + 1}]
    <3> DEFINE march(m, route) ==
          [at |-> IF m = 0 THEN "working" ELSE "marching", held |-> Nothing,
           yield |-> [Nothing EXCEPT !["state"] = {next["state"], next["state"] + 1}],
           checks |-> {}, spends |-> {}, route |-> route]
    <3>1. \E m, route : \/ call' = [call EXCEPT ![c] = march(m, route)]
                        \/ call' = [call EXCEPT ![c] = Idle]
      BY <1>3 DEF RunArmsConsuming
    <3>2. PICK m, route : \/ call' = [call EXCEPT ![c] = march(m, route)]
                          \/ call' = [call EXCEPT ![c] = Idle]
      BY <3>1
    <3>3. CASE call' = [call EXCEPT ![c] = march(m, route)]
      <4>1. /\ march(m, route).held = Nothing /\ march(m, route).spends = {}
            /\ march(m, route).at # "idle"
            /\ march(m, route).yield
                 = [Nothing EXCEPT !["state"] = {next["state"], next["state"] + 1}]
        OBVIOUS
      <4> HIDE DEF march
      <4> QED  BY <3>3, <4>1
    <3>4. CASE call' = [call EXCEPT ![c] = Idle]
      BY <3>4, IdleRecord
    <3> QED  BY <3>2, <3>3, <3>4
  <2>2. r \in CallRecord
    BY <1>2, <2>1 DEF TypeOK
  <2>3. \A k \in Kind : r.yield[k] \subseteq call[c].yield[k] \/ k = "state"
    BY <2>1 DEF Nothing, Kind
  <2>4. UNCHANGED <<pending, streams, closed, reg>> /\ "transport.run_arms_consuming" \in Ops
    BY <1>3 DEF RunArmsConsuming, Open, Entered
  <2> QED  BY <1>1, <2>1, <2>2, <2>3, <2>4 DEF Quiet
<1>4. CASE MarchResolve(c)
  <2> DEFINE r == [call[c] EXCEPT !.at = "matching"]
  <2>1. /\ r.held = Nothing /\ r.yield = call[c].yield /\ r.spends = call[c].spends
        /\ r \in CallRecord /\ r.at = "matching"
    BY <1>1, <1>2 DEF CallRecord, Phase
  <2>2. /\ call' = [call EXCEPT ![c] = r] /\ UNCHANGED <<pending, streams, closed, reg>>
        /\ call[c].at = "marching"
    BY <1>4 DEF MarchResolve, TypeOK
  <2> HIDE DEF r
  <2> QED  BY <1>1, <2>1, <2>2 DEF Quiet
<1>5. CASE MarchCommit(c)
  <2> DEFINE last == LastUses(call[c].route)
             r == [call[c] EXCEPT
                     !.at = IF Len(call[c].route) = 1 THEN "working" ELSE "marching",
                     !.route = Tail(call[c].route)]
  <2>1. /\ r.held = Nothing /\ r.yield = call[c].yield /\ r.spends = call[c].spends
        /\ r.at # "idle"
    BY <1>1, <1>2 DEF CallRecord
  <2>2. /\ call[c].at = "matching" /\ call' = [call EXCEPT ![c] = r] /\ UNCHANGED <<pending, streams, closed>>
        /\ reg' = [reg EXCEPT !["local"] = @ \ last]
    BY <1>5 DEF MarchCommit, TypeOK
  <2> HIDE DEF r, last
  <2>3. r \in CallRecord
    BY <1>2, <2>2 DEF TypeOK
  <2>4. \A k \in Kind : reg'[k] \subseteq reg[k]
    BY <2>2 DEF TypeOK
  <2> QED  BY <1>1, <2>1, <2>2, <2>3, <2>4 DEF Quiet
<1>6. CASE MarchLosesBasis(c)
  <2>1. PICK erased : reg' = [reg EXCEPT !["local"] = @ \ erased]
    BY <1>6 DEF MarchLosesBasis
  <2>2. \A k \in Kind : reg'[k] \subseteq reg[k]
    BY <2>1 DEF TypeOK
  <2> QED  BY <1>1, <1>6, <2>2, QuietIdle DEF MarchLosesBasis
<1> QED  BY <1>3, <1>4, <1>5, <1>6 DEF March

LEMMA HopShape ==
  ASSUME IndInv, NEW c \in Call, Hop(c)
  PROVE  ConsumeHop(c) \/ Promises(c) \/ Quiet(c)
<1> USE DEF IndInv
<1>1. CASE PublishConsumedStates(c)
  <2>1. PICK n \in 1..2, tiles \in SUBSET reg["local"] :
          LET need == [None EXCEPT !["state"] = n]
          IN  Reserve(c, need, Issued(need), tiles, tiles)
    BY <1>1 DEF PublishConsumedStates
  <2> DEFINE need == [None EXCEPT !["state"] = n]
  <2>2. need \in [Kind -> Nat] /\ need["local"] = 0 /\ "local" \in Kind /\ Wants(need)
    BY DEF None, Kind, Wants
  <2>3. tiles \in SUBSET Nat
    BY DEF TypeOK, Kind
  <2>4. Issued(need) \in [Kind -> SUBSET Nat]
    BY <2>2, IssuedType
  <2>5. call[c].held = Nothing /\ ~closed
    BY <1>1, EnteredHoldsNothing DEF PublishConsumedStates, Open, Entered
  <2>6. Reserve(c, need, Issued(need), tiles, tiles)
    BY <2>1
  <2> HIDE DEF need
  <2> QED  BY <2>2, <2>3, <2>4, <2>5, <2>6 DEF Promises
<1>2. CASE ConsumeValueHop(c) \/ ConsumePhysicalValueHop(c)
  <2>1. PICK incoming \in reg["local"] :
          call' = [call EXCEPT ![c].at = "evaluating", ![c].checks = {incoming}]
    BY <1>2 DEF ConsumeValueHop, ConsumePhysicalValueHop
  <2>2. call[c].held = Nothing /\ call[c].at # "working"
    BY <1>2, EnteredHoldsNothing
       DEF ConsumeValueHop, ConsumePhysicalValueHop, Open, Entered
  <2> DEFINE r == [call[c] EXCEPT !.at = "evaluating", !.checks = {incoming}]
  <2>3. /\ r.held = Nothing /\ r.yield = call[c].yield /\ r.spends = call[c].spends
        /\ r \in CallRecord /\ r.at = "evaluating"
    <3>1. call[c] \in CallRecord /\ {incoming} \in SUBSET Nat
      BY DEF TypeOK, Kind
    <3> QED  BY <3>1, <2>2 DEF CallRecord, Phase
  <2>4. call' = [call EXCEPT ![c] = r] /\ UNCHANGED <<pending, streams, closed, reg>>
    BY <1>2, <2>1 DEF TypeOK, ConsumeValueHop, ConsumePhysicalValueHop
  <2> HIDE DEF r
  <2> QED  BY <2>2, <2>3, <2>4 DEF Quiet
<1>3. CASE ReserveValueHop(c)
  <2>1. Reserve(c, Locals(1), Issued(Locals(1)), call[c].checks, {}) /\ ~closed
    BY <1>3 DEF ReserveValueHop
  <2>2. Locals(1) \in [Kind -> Nat] /\ Wants(Locals(1))
    BY NeedTypes, NeedWants
  <2>3. Issued(Locals(1)) \in [Kind -> SUBSET Nat] /\ call[c].checks \in SUBSET Nat
    BY <2>2, IssuedType DEF TypeOK, CallRecord
  <2>4. call[c].held = Nothing
    BY <1>3, EnteredHoldsNothing DEF ReserveValueHop
  <2> QED  BY <2>1, <2>2, <2>3, <2>4 DEF Promises
<1> QED  BY <1>1, <1>2, <1>3 DEF Hop

LEMMA StreamShape ==
  ASSUME IndInv, NEW c \in Call, Stream(c)
  PROVE  Starts(c) \/ Takes(c) \/ GivesBack(c)
<1> USE DEF IndInv
<1>1. CASE RollingStreamBegin(c) \/ StreamBegin(c)
  BY <1>1, EnteredHoldsNothing DEF RollingStreamBegin, StreamBegin, Open, Entered, Starts
<1>2. CASE StreamAbort(c)
  <2>1. PICK line \in streams : TakeStream(c, line, "aborting", Nothing)
    BY <1>2 DEF StreamAbort
  <2>2. Nothing \in [Kind -> SUBSET Nat]
        /\ \A k \in Kind : Nothing[k] \subseteq (IF k = "line" THEN {line} ELSE {})
    BY DEF Nothing
  <2>3. call[c].held = Nothing
    BY <1>2, EnteredHoldsNothing DEF StreamAbort, Entered
  <2> QED  BY <2>1, <2>2, <2>3 DEF Takes
<1>3. CASE StreamFinish(c)
  <2> DEFINE yield(line) == [Nothing EXCEPT !["line"] = {line}]
  <2>1. PICK line \in streams : TakeStream(c, line, "working", yield(line))
    BY <1>3 DEF StreamFinish
  <2>2. yield(line) \in [Kind -> SUBSET Nat]
        /\ \A k \in Kind : yield(line)[k] \subseteq (IF k = "line" THEN {line} ELSE {})
    BY DEF Nothing, Kind, TypeOK
  <2>3. call[c].held = Nothing
    BY <1>3, EnteredHoldsNothing DEF StreamFinish, Open, Entered
  <2> HIDE DEF yield
  <2> QED  BY <2>1, <2>2, <2>3 DEF Takes
<1>4. CASE StreamAborted(c)
  BY <1>4 DEF StreamAborted, GivesBack
<1> QED  BY <1>1, <1>2, <1>3, <1>4 DEF Stream

LEMMA RetireIsQuiet ==
  ASSUME IndInv, NEW c \in Call, Retire(c)
  PROVE  Quiet(c)
<1>1. call[c].held = Nothing /\ call[c].at # "working"
  BY EnteredHoldsNothing
     DEF Retire, Prepare, ReleasePrepared, LocalRelease, MatchRelease, EndpointRelease,
         TileRelease, TransportRelease, IntegrationRelease, Entered
<1>2. CASE Prepare(c) \/ ReleasePrepared(c)
  BY <1>1, <1>2, QuietIdle DEF Prepare, ReleasePrepared
<1>3. ASSUME NEW k \in Kind, Release(c, k)  PROVE Quiet(c)
  <2>1. PICK h : reg' = [reg EXCEPT ![k] = @ \ {h}]
    BY <1>3 DEF Release
  <2>2. \A j \in Kind : reg'[j] \subseteq reg[j]
    BY <2>1 DEF IndInv, TypeOK
  <2> QED  BY <1>1, <1>3, <2>2, QuietIdle DEF Release
<1> QED  BY <1>2, <1>3
         DEF Retire, LocalRelease, MatchRelease, EndpointRelease, TileRelease,
             TransportRelease, IntegrationRelease, Kind

LEMMA EnterIsQuiet ==
  ASSUME IndInv, NEW c \in Call, Enter(c) \/ Refuse(c) \/ CloseBegin(c)
  PROVE  Quiet(c)
<1>1. call[c] \in CallRecord
  BY DEF IndInv, TypeOK
<1>2. call[c].held = Nothing /\ call[c].at # "working"
  BY EnteredHoldsNothing DEF Enter, Refuse, CloseBegin
<1>3. CASE Enter(c) \/ CloseBegin(c)
  <2>1. PICK at \in {"entered", "closing"} : call' = [call EXCEPT ![c].at = at]
    BY <1>3 DEF Enter, CloseBegin
  <2> DEFINE r == [call[c] EXCEPT !.at = at]
  <2>2. /\ r \in CallRecord /\ r.held = Nothing /\ r.yield = call[c].yield
        /\ r.spends = call[c].spends /\ r.at \in {"entered", "closing"}
    BY <1>1, <1>2 DEF CallRecord, Phase
  <2>3. call' = [call EXCEPT ![c] = r]
    BY <2>1 DEF IndInv, TypeOK
  <2> HIDE DEF r
  <2> QED  BY <1>2, <1>3, <2>2, <2>3 DEF Quiet, Enter, CloseBegin
<1>4. CASE Refuse(c)
  BY <1>2, <1>4, QuietIdle DEF Refuse
<1> QED  BY <1>3, <1>4

LEMMA StepShape ==
  ASSUME IndInv, [Next]_vars
  PROVE  Same \/ \E c \in Call : Shape(c)
<1>1. CASE UNCHANGED vars
  BY <1>1 DEF vars, Same
<1>2. CASE Reset
  BY <1>2 DEF Reset, Same
<1>3. ASSUME NEW c \in Call, Solve(c)  PROVE Shape(c)
  BY <1>3, SolveAdmits, EnteredHoldsNothing DEF Solves, Shape
<1>4. ASSUME NEW c \in Call, Arm(c)  PROVE Shape(c)
  <2>1. ~closed
    BY <1>4 DEF Arm, RunArms, RunArm, RunOneTileArm, IntegrationRunArms,
      IntegrationRunOneTileArms, Open
  <2>2. call[c].held = Nothing
    BY <1>4, ArmReserves, EnteredHoldsNothing
  <2>3. {} \in SUBSET Nat
    OBVIOUS
  <2> QED  BY <1>4, <2>1, <2>2, <2>3, ArmReserves DEF Promises, Shape
<1>5. ASSUME NEW c \in Call, Hop(c)  PROVE Shape(c)
  BY <1>5, HopShape DEF Shape
<1>6. ASSUME NEW c \in Call, March(c)  PROVE Shape(c)
  BY <1>6, MarchIsQuiet DEF Shape
<1>7. ASSUME NEW c \in Call, Stream(c)  PROVE Shape(c)
  BY <1>7, StreamShape DEF Shape
<1>8. ASSUME NEW c \in Call, Retire(c)  PROVE Shape(c)
  BY <1>8, RetireIsQuiet DEF Shape
<1>9. ASSUME NEW c \in Call, Enter(c) \/ Refuse(c) \/ CloseBegin(c)  PROVE Shape(c)
  BY <1>9, EnterIsQuiet DEF Shape
<1>10. ASSUME NEW c \in Call, Publish(c) \/ Fail(c) \/ CloseEnd(c)  PROVE Shape(c)
  BY <1>10 DEF Shape, Fail, GivesBack
<1> QED  BY <1>1, <1>2, <1>3, <1>4, <1>5, <1>6, <1>7, <1>8, <1>9, <1>10 DEF Next

------------------------------------------------------------------------------
(* Close.                                                                  *)

LEMMA ClosedStep ==
  ASSUME IndInv, ClosedIsEmpty, [Next]_vars
  PROVE  ClosedIsEmpty'
<1> USE DEF IndInv
<1>1. CASE Same
  BY <1>1 DEF Same, ClosedIsEmpty
<1>2. ASSUME NEW c \in Call, Shape(c)  PROVE ClosedIsEmpty'
  <2>1. CASE Solves(c) \/ Promises(c) \/ ConsumeHop(c)
    <3>1. UNCHANGED <<closed, reg, streams>>
      <4>1. CASE Solves(c)
        BY <4>1 DEF Solves, Admit, Reserve, Hold
      <4>2. CASE Promises(c)
        BY <4>2 DEF Promises, Reserve, Hold
      <4>3. CASE ConsumeHop(c)
        BY <4>3 DEF ConsumeHop, Hold
      <4> QED  BY <2>1, <4>1, <4>2, <4>3
    <3> QED  BY <3>1 DEF ClosedIsEmpty
  <2>2. CASE Quiet(c)
    <3>1. \A k \in Kind : reg'[k] \subseteq reg[k]
      BY <2>2 DEF Quiet
    <3>2. reg' \in [Kind -> SUBSET Nat]
      BY NextIndInv DEF TypeOK
    <3>3. reg = Nothing => reg' = Nothing
      BY <3>1, <3>2 DEF Nothing
    <3> QED  BY <2>2, <3>3 DEF Quiet, ClosedIsEmpty
  <2>3. CASE Publish(c)
    BY <2>3 DEF Publish, Register, ClosedIsEmpty
  <2>4. CASE GivesBack(c)
    BY <2>4 DEF GivesBack, ClosedIsEmpty
  <2>5. CASE Starts(c)
    BY <2>5 DEF Starts, StartStream, ClosedIsEmpty
  <2>6. CASE Takes(c)
    BY <2>6 DEF Takes, TakeStream, ClosedIsEmpty
  <2>7. CASE CloseEnd(c)
    BY <2>7 DEF CloseEnd, ClosedIsEmpty
  <2> QED  BY <1>2, <2>1, <2>2, <2>3, <2>4, <2>5, <2>6, <2>7 DEF Shape
<1> QED  BY <1>1, <1>2, StepShape

(* Nothing registers an object, or starts a stream, in a closed session,   *)
(* however many requests were in flight when it closed.                    *)
THEOREM NothingAfterClose == Spec => []ClosedIsEmpty
<1>1. Init => IndInv /\ ClosedIsEmpty
  BY InitIndInv DEF Init, ClosedIsEmpty
<1>2. IndInv /\ ClosedIsEmpty /\ [Next]_vars => IndInv' /\ ClosedIsEmpty'
  BY NextIndInv, ClosedStep
<1> QED  BY <1>1, <1>2, PTL DEF Spec

------------------------------------------------------------------------------
(* Room.                                                                   *)

(* A request registers no more handles than it reserved, and all of them   *)
(* fit: with IndInv the two are inductive.                                 *)
Covered(k) ==
  \A c \in Call : Cardinality(call[c].yield[k]) <= Cardinality(call[c].held[k])
Room(k) == Cardinality(reg[k]) + pending[k] <= Capacity[k]
Tidy(k) == Covered(k) /\ Room(k)

(* Where run_arms_consuming may promise states it has not reserved, states *)
(* are excepted; locals have their own accounts below.                     *)
Plain(k) ==
  k \in Kind \ {"local"} /\ (k = "state" => "transport.run_arms_consuming" \notin Ops)

LEMMA Finite ==
  ASSUME IndInv, NEW c \in Call, NEW k \in Kind
  PROVE  /\ IsFiniteSet(reg[k]) /\ Cardinality(reg[k]) \in Nat
         /\ IsFiniteSet(call[c].held[k]) /\ Cardinality(call[c].held[k]) \in Nat
         /\ IsFiniteSet(call[c].yield[k]) /\ Cardinality(call[c].yield[k]) \in Nat
         /\ pending[k] \in Nat /\ Capacity[k] \in Nat /\ next[k] \in Nat \ {0}
<1>1. /\ call[c].yield[k] \subseteq Before(next[k]) /\ next[k] \in Nat \ {0}
      /\ pending[k] \in Nat
  BY DEF IndInv, TypeOK, Ledger, HandlesIssued, Before
<1> QED  BY <1>1, IssuedFinite, ReservedFinite, CapacityAssumption DEF IndInv

LEMMA SubsetCount ==
  ASSUME NEW T, IsFiniteSet(T), NEW S \in SUBSET T
  PROVE  IsFiniteSet(S) /\ Cardinality(S) \in Nat /\ Cardinality(S) <= Cardinality(T)
BY FS_Subset, FS_CardinalityType

LEMMA UnionCount ==
  ASSUME NEW S, NEW T, IsFiniteSet(S), IsFiniteSet(T)
  PROVE  /\ IsFiniteSet(S \cup T) /\ Cardinality(S \cup T) \in Nat
         /\ Cardinality(S \cup T) <= Cardinality(S) + Cardinality(T)
<1>1. IsFiniteSet(S \cap T)
  BY FS_Subset
<1>2. /\ Cardinality(S) \in Nat /\ Cardinality(T) \in Nat
      /\ Cardinality(S \cap T) \in Nat
  BY <1>1, FS_CardinalityType
<1>3. /\ IsFiniteSet(S \cup T)
      /\ Cardinality(S \cup T) = Cardinality(S) + Cardinality(T) - Cardinality(S \cap T)
  BY FS_Union
<1>4. Cardinality(S \cup T) \in Nat
  BY <1>3, FS_CardinalityType
<1> QED  BY <1>2, <1>3, <1>4

(* What the other requests promised does not change.                       *)
LEMMA CoveredStep ==
  ASSUME IndInv, NEW c \in Call, NEW k \in Kind, Covered(k), NEW r,
         call' = [call EXCEPT ![c] = r],
         Cardinality(r.yield[k]) <= Cardinality(r.held[k])
  PROVE  Covered(k)'
<1>1. call'[c] = r /\ \A d \in Call \ {c} : call'[d] = call[d]
  BY DEF IndInv, TypeOK
<1> QED  BY <1>1 DEF Covered

LEMMA NothingCounts ==
  ASSUME NEW k \in Kind
  PROVE  Cardinality(Nothing[k]) = 0 /\ Cardinality(Idle.yield[k]) = 0
         /\ Cardinality(Idle.held[k]) = 0
BY FS_EmptySet, IdleRecord DEF Nothing

LEMMA IdleCovered ==
  ASSUME IndInv, NEW c \in Call, NEW k \in Kind, Covered(k),
         call' = [call EXCEPT ![c] = Idle]
  PROVE  Covered(k)'
<1>1. Cardinality(Idle.yield[k]) <= Cardinality(Idle.held[k])
  BY NothingCounts
<1> QED  BY <1>1, CoveredStep

LEMMA PromisedCount ==
  ASSUME IndInv, NEW need \in [Kind -> Nat], NEW k \in Kind
  PROVE  IsFiniteSet(Issued(need)[k]) /\ Cardinality(Issued(need)[k]) = need[k]
<1>1. next[k] \in Nat \ {0} /\ need[k] \in Nat
  BY DEF IndInv, TypeOK
<1> QED  BY <1>1, IssuedCount DEF Issued

LEMMA PromisesTidy ==
  ASSUME IndInv, NEW c \in Call, NEW k, Plain(k), Tidy(k), Solves(c) \/ Promises(c)
  PROVE  Tidy(k)'
<1> k \in Kind /\ k # "local"
  BY DEF Plain
<1>1. PICK need \in [Kind -> Nat], yield \in [Kind -> SUBSET Nat],
          checks \in SUBSET Nat, spends \in SUBSET Nat :
        /\ Reserve(c, need, yield, checks, spends)
        /\ yield[k] \subseteq Issued(need)[k]
  <2>1. \A need \in [Kind -> Nat] : Issued(need) \in [Kind -> SUBSET Nat]
    BY IssuedType DEF IndInv
  <2>2. CASE Solves(c)
    BY <2>1, <2>2 DEF Solves, Admit
  <2>3. CASE Promises(c)
    BY <2>3 DEF Promises
  <2> QED  BY <2>2, <2>3
<1>2. /\ pending' = [j \in Kind |-> pending[j] + need[j]] /\ reg' = reg
      /\ need[k] > 0 => Cardinality(reg[k]) + pending[k] + need[k] <= Capacity[k]
  BY <1>1 DEF Reserve, Hold, Fits
<1>3. Room(k)'
  BY <1>2, Finite DEF Tidy, Room
<1> DEFINE r == [at |-> "working", held |-> Issued(need), yield |-> yield,
                 checks |-> checks, spends |-> spends, route |-> <<>>]
<1>4. call' = [call EXCEPT ![c] = r]
  BY <1>1 DEF Reserve, Hold
<1>5. Cardinality(r.yield[k]) <= Cardinality(r.held[k])
  <2>1. r.yield = yield /\ r.held = Issued(need)
    OBVIOUS
  <2>2. IsFiniteSet(Issued(need)[k])
    BY PromisedCount
  <2> QED  BY <1>1, <2>1, <2>2, SubsetCount
<1> HIDE DEF r
<1> QED  BY <1>3, <1>4, <1>5, CoveredStep DEF Tidy

LEMMA PublishTidy ==
  ASSUME IndInv, NEW c \in Call, NEW k, Plain(k), Tidy(k), Publish(c)
  PROVE  Tidy(k)'
<1> k \in Kind /\ k # "local"
  BY DEF Plain
<1>1. /\ call' = [call EXCEPT ![c] = Idle]
      /\ reg'[k] = reg[k] \cup call[c].yield[k]
      /\ pending'[k] = pending[k] - Cardinality(call[c].held[k])
  BY DEF Publish, Register, Settle
<1>2. Cardinality(reg'[k]) \in Nat
      /\ Cardinality(reg'[k]) <= Cardinality(reg[k]) + Cardinality(call[c].yield[k])
  BY <1>1, Finite, UnionCount
<1>3. Cardinality(call[c].yield[k]) <= Cardinality(call[c].held[k])
  BY DEF Tidy, Covered
<1>4. Room(k)'
  BY <1>1, <1>2, <1>3, Finite DEF Tidy, Room
<1>5. Covered(k)'
  BY <1>1, IdleCovered DEF Tidy
<1> QED  BY <1>4, <1>5 DEF Tidy

LEMMA TidyStep ==
  ASSUME IndInv, NEW k, Plain(k), Tidy(k), [Next]_vars
  PROVE  Tidy(k)'
<1> k \in Kind /\ k # "local"
  BY DEF Plain
<1>1. CASE Same
  BY <1>1 DEF Same, Tidy, Covered, Room
<1>2. ASSUME NEW c \in Call, Shape(c)  PROVE Tidy(k)'
  <2>1. CASE Solves(c) \/ Promises(c)
    BY <2>1, PromisesTidy
  <2>2. CASE ConsumeHop(c)
    <3>1. PICK basis : Hold(c, Locals(1), Issued(Locals(1)), basis, basis)
      BY <2>2 DEF ConsumeHop
    <3>2. Locals(1) \in [Kind -> Nat] /\ Locals(1)[k] = 0
      BY DEF Locals, None, Kind
    <3>3. Room(k)'
      BY <3>1, <3>2, Finite DEF Hold, Tidy, Room
    <3> DEFINE r == [at |-> "working", held |-> Issued(Locals(1)),
                     yield |-> Issued(Locals(1)),
                     checks |-> basis, spends |-> basis, route |-> <<>>]
    <3>4. call' = [call EXCEPT ![c] = r]
      BY <3>1 DEF Hold
    <3>5. Cardinality(r.yield[k]) <= Cardinality(r.held[k])
      BY <3>2, PromisedCount
    <3> HIDE DEF r
    <3> QED  BY <3>3, <3>4, <3>5, CoveredStep DEF Tidy
  <2>3. CASE Quiet(c)
    <3>1. PICK r : /\ call[c].held = Nothing /\ r.held = Nothing
                   /\ call' = [call EXCEPT ![c] = r]
                   /\ r.yield[k] \subseteq call[c].yield[k]
                   /\ reg'[k] \subseteq reg[k]
                   /\ UNCHANGED <<pending, streams>>
      BY <2>3 DEF Quiet, Plain
    <3>2. Room(k)'
      BY <3>1, Finite, SubsetCount DEF Tidy, Room
    <3>3. Cardinality(r.yield[k]) <= Cardinality(r.held[k])
      BY <3>1, Finite, SubsetCount DEF Tidy, Covered
    <3> QED  BY <3>1, <3>2, <3>3, CoveredStep DEF Tidy
  <2>4. CASE Publish(c)
    BY <2>4, PublishTidy
  <2>5. CASE GivesBack(c)
    <3>1. /\ call' = [call EXCEPT ![c] = Idle] /\ reg' = reg
          /\ pending'[k] = pending[k] - Cardinality(call[c].held[k])
      BY <2>5 DEF GivesBack, Settle
    <3>2. Room(k)'
      BY <3>1, Finite DEF Tidy, Room
    <3> QED  BY <3>1, <3>2, IdleCovered DEF Tidy
  <2>6. CASE Starts(c)
    <3>1. /\ call' = [call EXCEPT ![c] = Idle] /\ reg' = reg
          /\ \/ pending' = pending
             \/ /\ pending' = [pending EXCEPT !["line"] = @ + 1]
                /\ Cardinality(reg["line"]) + pending["line"] + 1 <= Capacity["line"]
      BY <2>6 DEF Starts, StartStream, Fits, Lines, None, Kind
    <3>2. Room(k)'
      BY <3>1, Finite DEF Tidy, Room, IndInv, TypeOK
    <3> QED  BY <3>1, <3>2, IdleCovered DEF Tidy
  <2>7. CASE Takes(c)
    <3>1. PICK line, at, yield :
            /\ yield[k] \subseteq (IF k = "line" THEN {line} ELSE {})
            /\ TakeStream(c, line, at, yield)
      BY <2>7 DEF Takes
    <3> DEFINE held == [Nothing EXCEPT !["line"] = {line}]
               r == [at |-> at, held |-> held, yield |-> yield,
                     checks |-> {}, spends |-> {}, route |-> <<>>]
    <3>2. call' = [call EXCEPT ![c] = r] /\ reg' = reg /\ pending' = pending
      BY <3>1 DEF TakeStream
    <3>3. held[k] = (IF k = "line" THEN {line} ELSE {})
      BY DEF Nothing, Kind
    <3>4. IsFiniteSet(held[k])
      <4>1. IsFiniteSet({line}) /\ IsFiniteSet({})
        BY FS_Singleton, FS_EmptySet
      <4> QED  BY <3>3, <4>1
    <3> HIDE DEF held
    <3>5. Cardinality(r.yield[k]) <= Cardinality(r.held[k])
      BY <3>1, <3>3, <3>4, SubsetCount
    <3> HIDE DEF r
    <3>6. Room(k)'
      BY <3>2 DEF Tidy, Room
    <3> QED  BY <3>2, <3>5, <3>6, CoveredStep DEF Tidy
  <2>8. CASE CloseEnd(c)
    <3>1. /\ call' = [call EXCEPT ![c] = Idle] /\ reg' = Nothing
          /\ pending' = [pending EXCEPT !["line"] = @ - Cardinality(streams)]
      BY <2>8 DEF CloseEnd
    <3>2. Cardinality(streams) \in Nat
      BY ReservedFinite DEF IndInv
    <3>3. Room(k)'
      BY <3>1, <3>2, Finite, NothingCounts DEF Tidy, Room, IndInv, TypeOK
    <3> QED  BY <3>1, <3>3, IdleCovered DEF Tidy
  <2> QED  BY <1>2, <2>1, <2>2, <2>3, <2>4, <2>5, <2>6, <2>7, <2>8 DEF Shape
<1> QED  BY <1>1, <1>2, StepShape

LEMMA InitTidy ==
  ASSUME Init, NEW k \in Kind
  PROVE  Tidy(k)
<1>1. \A c \in Call : call[c] = Idle
  BY DEF Init
<1>2. Cardinality(reg[k]) = 0 /\ pending[k] = 0 /\ Capacity[k] \in Nat
  BY NothingCounts, CapacityAssumption DEF Init, None
<1> QED  BY <1>1, <1>2, NothingCounts DEF Tidy, Covered, Room

(* Matches, endpoints, tiles and lines: whatever requests overlap, the     *)
(* objects of a kind that are visible or promised fit its capacity.        *)
THEOREM SharedRoom == Spec => []SharedCapacity
<1> DEFINE Shared == {"match", "endpoint", "tile", "line"}
           AllTidy == \A k \in Shared : Tidy(k)
<1>1. \A k \in Shared : Plain(k) /\ k \in Kind
  BY DEF Plain, Kind
<1>2. Init => IndInv /\ AllTidy
  BY <1>1, InitIndInv, InitTidy
<1>3. IndInv /\ AllTidy /\ [Next]_vars => IndInv' /\ AllTidy'
  BY <1>1, NextIndInv, TidyStep
<1>4. AllTidy => SharedCapacity
  BY DEF Tidy, Room, SharedCapacity
<1> HIDE DEF AllTidy
<1> QED  BY <1>2, <1>3, <1>4, PTL DEF Spec

(* Transport states fit as well, if no client asks for run_arms_consuming, *)
(* the one operation that promises states without reserving them.          *)
THEOREM StateRoom ==
  ASSUME "transport.run_arms_consuming" \notin Ops
  PROVE  Spec => []StateCapacity
<1>1. Plain("state") /\ "state" \in Kind
  BY DEF Plain, Kind
<1>2. Init => IndInv /\ Tidy("state")
  BY <1>1, InitIndInv, InitTidy
<1>3. IndInv /\ Tidy("state") /\ [Next]_vars => IndInv' /\ Tidy("state")'
  BY <1>1, NextIndInv, TidyStep
<1>4. Tidy("state") => StateCapacity
  BY DEF Tidy, Room, StateCapacity
<1> QED  BY <1>2, <1>3, <1>4, PTL DEF Spec

------------------------------------------------------------------------------
(* Locals, where hops are admitted with a credit for what they will erase. *)

(* A request that will erase its basis compares it again, and adds at most *)
(* one local for it.                                                       *)
Spending ==
  \A c \in Call : call[c].spends # {} =>
    /\ call[c].at = "working" /\ call[c].spends \subseteq call[c].checks
    /\ Cardinality(call[c].held["local"]) <= 1

LocalTidy == Covered("local") /\ Spending /\ LocalCapacity

OtherPlain(c) ==
  UNION {call[d].held["local"] : d \in {e \in Call \ {c} : call[e].spends = {}}}

LEMMA PlainFinite ==
  ASSUME IndInv, NEW c \in Call
  PROVE  /\ IsFiniteSet(PlainLocals) /\ Cardinality(PlainLocals) \in Nat
         /\ IsFiniteSet(OtherPlain(c)) /\ Cardinality(OtherPlain(c)) \in Nat
         /\ OtherPlain(c) \subseteq PlainLocals
         /\ Cardinality(OtherPlain(c)) <= Cardinality(PlainLocals)
         /\ Cardinality(PlainLocals) <= pending["local"]
<1>1. "local" \in Kind
  BY DEF Kind
<1>2. PlainLocals \subseteq Reserved("local") /\ OtherPlain(c) \subseteq PlainLocals
  BY DEF PlainLocals, OtherPlain, Reserved
<1>3. Reserved("local") = call[c].held["local"] \cup Others(c, "local")
  BY <1>1, ReservedIsOwnAndOthers
<1>4. IsFiniteSet(Reserved("local"))
  BY <1>1, <1>3, ReservedFinite, UnionCount DEF IndInv
<1>5. IsFiniteSet(PlainLocals) /\ Cardinality(PlainLocals) \in Nat
      /\ Cardinality(PlainLocals) <= Cardinality(Reserved("local"))
  BY <1>2, <1>4, SubsetCount
<1>6. Cardinality(Reserved("local")) = pending["local"]
  BY <1>1 DEF IndInv, Accounting
<1> QED  BY <1>2, <1>5, <1>6, SubsetCount

LEMMA PlainAfter ==
  ASSUME IndInv, NEW c \in Call, NEW r, call' = [call EXCEPT ![c] = r]
  PROVE  /\ r.held["local"] = {} \/ r.spends # {} => PlainLocals' = OtherPlain(c)
         /\ PlainLocals' \subseteq r.held["local"] \cup OtherPlain(c)
<1>1. call'[c] = r /\ \A d \in Call \ {c} : call'[d] = call[d]
  BY DEF IndInv, TypeOK
<1> QED  BY <1>1 DEF PlainLocals, OtherPlain

(* Nothing is added, and nothing more is promised.                         *)
LEMMA NoMoreLocals ==
  ASSUME IndInv, LocalCapacity, NEW c \in Call, NEW r,
         call' = [call EXCEPT ![c] = r], r.held["local"] = {} \/ r.spends # {},
         reg'["local"] \subseteq reg["local"]
  PROVE  LocalCapacity'
<1>1. Cardinality(PlainLocals') <= Cardinality(PlainLocals) /\ Cardinality(PlainLocals') \in Nat
  BY PlainAfter, PlainFinite
<1>2. /\ Cardinality(reg'["local"]) <= Cardinality(reg["local"])
      /\ Cardinality(reg'["local"]) \in Nat /\ Cardinality(reg["local"]) \in Nat
      /\ Capacity["local"] \in Nat
  BY Finite, SubsetCount DEF Kind
<1>3. Cardinality(PlainLocals) \in Nat
  BY PlainFinite
<1> QED  BY <1>1, <1>2, <1>3 DEF LocalCapacity

LEMMA SpendingStep ==
  ASSUME IndInv, Spending, NEW c \in Call, NEW r, call' = [call EXCEPT ![c] = r],
         r.spends # {} => /\ r.at = "working" /\ r.spends \subseteq r.checks
                          /\ Cardinality(r.held["local"]) <= 1
  PROVE  Spending'
<1>1. call'[c] = r /\ \A d \in Call \ {c} : call'[d] = call[d]
  BY DEF IndInv, TypeOK
<1> QED  BY <1>1 DEF Spending

LEMMA IdleLocals ==
  ASSUME IndInv, LocalTidy, NEW c \in Call, call' = [call EXCEPT ![c] = Idle],
         reg'["local"] \subseteq reg["local"]
  PROVE  LocalTidy'
<1>1. Idle.held["local"] = {} /\ Idle.spends = {} /\ "local" \in Kind
  BY IdleRecord DEF Nothing, Kind
<1>2. LocalCapacity'
  BY <1>1, NoMoreLocals DEF LocalTidy
<1>3. Spending'
  BY <1>1, SpendingStep DEF LocalTidy
<1>4. Covered("local")'
  BY <1>1, IdleCovered DEF LocalTidy
<1> QED  BY <1>2, <1>3, <1>4 DEF LocalTidy

LEMMA TwoLocals ==
  ASSUME NEW g \in Nat, NEW h \in Nat
  PROVE  IsFiniteSet({g, h}) /\ Cardinality({g, h}) <= 2
<1>1. IsFiniteSet({g}) /\ Cardinality({g}) = 1 /\ IsFiniteSet({h}) /\ Cardinality({h}) = 1
  BY FS_Singleton
<1>2. /\ IsFiniteSet({g} \cup {h}) /\ Cardinality({g} \cup {h}) \in Nat
      /\ Cardinality({g} \cup {h}) <= Cardinality({g}) + Cardinality({h})
  BY <1>1, UnionCount
<1>3. Cardinality({g} \cup {h}) <= 2
  BY <1>1, <1>2
<1>4. {g, h} = {g} \cup {h}
  OBVIOUS
<1> QED  BY <1>2, <1>3, <1>4

LEMMA PromisesLocals ==
  ASSUME "transport.run_one_tile_arm" \notin Ops,
         IndInv, LocalTidy, NEW c \in Call, Solves(c) \/ Promises(c)
  PROVE  LocalTidy'
<1> "local" \in Kind
  BY DEF Kind
<1>1. PICK need \in [Kind -> Nat], yield \in [Kind -> SUBSET Nat],
          checks \in SUBSET Nat, spends \in SUBSET Nat :
        /\ call[c].held = Nothing
        /\ Reserve(c, need, yield, checks, spends)
        /\ \/ yield["local"] \subseteq Issued(need)["local"]
           \/ need["local"] >= 2 /\ \E g, h \in Nat : yield["local"] = {g, h}
        /\ spends # {} => spends \subseteq checks /\ need["local"] = 0
  <2>1. \A need \in [Kind -> Nat] : Issued(need) \in [Kind -> SUBSET Nat]
    BY IssuedType DEF IndInv
  <2>2. CASE Solves(c)
    BY <2>1, <2>2 DEF Solves, Admit
  <2>3. CASE Promises(c)
    BY <2>3 DEF Promises
  <2> QED  BY <2>2, <2>3
<1> DEFINE mine == Issued(need)["local"]
           r == [at |-> "working", held |-> Issued(need), yield |-> yield,
                 checks |-> checks, spends |-> spends, route |-> <<>>]
<1>2. /\ call' = [call EXCEPT ![c] = r] /\ reg' = reg
      /\ need["local"] > 0 => Cardinality(reg["local"]) + pending["local"] + need["local"] <= Capacity["local"]
  BY <1>1 DEF Reserve, Hold, Fits
<1>3. IsFiniteSet(mine) /\ Cardinality(mine) = need["local"] /\ need["local"] \in Nat
  BY PromisedCount
<1>4. /\ r.held["local"] = mine /\ r.yield = yield /\ r.spends = spends
      /\ r.checks = checks /\ r.at = "working"
  OBVIOUS
<1> HIDE DEF r, mine
<1>5. Covered("local")'
  <2>1. CASE yield["local"] \subseteq mine
    BY <2>1, <1>2, <1>3, <1>4, SubsetCount, CoveredStep DEF LocalTidy
  <2>2. CASE need["local"] >= 2 /\ \E g, h \in Nat : yield["local"] = {g, h}
    <3>1. PICK g \in Nat, h \in Nat : yield["local"] = {g, h}
      BY <2>2
    <3>2. IsFiniteSet(yield["local"]) /\ Cardinality(yield["local"]) <= 2
      BY <3>1, TwoLocals
    <3>3. Cardinality(yield["local"]) \in Nat
      BY <3>2, FS_CardinalityType
    <3>4. /\ Cardinality(r.yield["local"]) = Cardinality(yield["local"])
          /\ Cardinality(r.held["local"]) = need["local"]
      BY <1>3, <1>4
    <3>5. Cardinality(yield["local"]) <= need["local"]
      BY <2>2, <3>2, <3>3, <1>3
    <3>6. Cardinality(r.yield["local"]) <= Cardinality(r.held["local"])
      BY <3>4, <3>5
    <3> QED  BY <3>6, <1>2, CoveredStep DEF LocalTidy
  <2> QED  BY <1>1, <2>1, <2>2 DEF mine
<1>6. Spending'
  <2>1. r.spends # {} => /\ r.at = "working" /\ r.spends \subseteq r.checks
                         /\ Cardinality(r.held["local"]) <= 1
    BY <1>1, <1>3, <1>4
  <2> QED  BY <2>1, <1>2, SpendingStep DEF LocalTidy
<1>7. LocalCapacity'
  <2>1. CASE need["local"] = 0
    <3>1. mine = {}
      BY <2>1, <1>3, FS_EmptySet
    <3> QED  BY <3>1, <1>2, <1>4, NoMoreLocals DEF LocalTidy
  <2>2. CASE need["local"] > 0
    <3>1. PlainLocals' \subseteq mine \cup OtherPlain(c)
      BY <1>2, <1>4, PlainAfter
    <3>2. /\ IsFiniteSet(mine \cup OtherPlain(c)) /\ Cardinality(mine \cup OtherPlain(c)) \in Nat
          /\ Cardinality(mine \cup OtherPlain(c)) <= need["local"] + Cardinality(OtherPlain(c))
      BY <1>3, PlainFinite, UnionCount
    <3>3. /\ Cardinality(PlainLocals') \in Nat
          /\ Cardinality(PlainLocals') <= Cardinality(mine \cup OtherPlain(c))
      BY <3>1, <3>2, SubsetCount
    <3>4. Cardinality(OtherPlain(c)) \in Nat /\ Cardinality(OtherPlain(c)) <= pending["local"]
      <4>1. pending["local"] \in Nat
        BY Finite
      <4> QED  BY <4>1, PlainFinite
    <3>5. Cardinality(reg["local"]) \in Nat /\ pending["local"] \in Nat /\ Capacity["local"] \in Nat
      BY Finite
    <3> QED  BY <2>2, <3>2, <3>3, <3>4, <3>5, <1>2, <1>3 DEF LocalCapacity
  <2> QED  BY <1>3, <2>1, <2>2
<1> QED  BY <1>5, <1>6, <1>7 DEF LocalTidy

LEMMA PublishLocals ==
  ASSUME IndInv, LocalTidy, NEW c \in Call, Publish(c)
  PROVE  LocalTidy'
<1> "local" \in Kind
  BY DEF Kind
<1> DEFINE yield == call[c].yield["local"]
           held == call[c].held["local"]
           spends == call[c].spends
           R == reg["local"]
<1>1. /\ call' = [call EXCEPT ![c] = Idle] /\ reg'["local"] = (R \ spends) \cup yield
      /\ call[c].checks \subseteq R
  BY DEF Publish, Register, Settle
<1>2. Idle.held["local"] = {} /\ Idle.spends = {}
  BY IdleRecord DEF Nothing
<1>3. PlainLocals' = OtherPlain(c)
  BY <1>1, <1>2, PlainAfter
<1>4. Cardinality(yield) <= Cardinality(held)
  BY DEF LocalTidy, Covered
<1>5. /\ IsFiniteSet(R) /\ Cardinality(R) \in Nat /\ IsFiniteSet(yield)
      /\ Cardinality(yield) \in Nat /\ Cardinality(held) \in Nat /\ Capacity["local"] \in Nat
      /\ IsFiniteSet(held)
  BY Finite
<1>6. Cardinality(R) + Cardinality(PlainLocals) <= Capacity["local"]
  BY DEF LocalTidy, LocalCapacity
<1>7. LocalCapacity'
  <2>1. CASE spends = {}
    <3>1. PlainLocals = held \cup OtherPlain(c)
      BY <2>1 DEF PlainLocals, OtherPlain
    <3>2. held \cap OtherPlain(c) = {}
      <4>1. \A d \in Call \ {c} : held \cap call[d].held["local"] = {}
        BY DEF IndInv, Ledger, HandlesApart
      <4> QED  BY <4>1 DEF OtherPlain
    <3>3. Cardinality(PlainLocals) = Cardinality(held) + Cardinality(OtherPlain(c))
      BY <3>1, <3>2, <1>5, PlainFinite, DisjointSum
    <3>4. Cardinality(R \cup yield) \in Nat
          /\ Cardinality(R \cup yield) <= Cardinality(R) + Cardinality(yield)
      BY <1>5, UnionCount
    <3>5. reg'["local"] = R \cup yield
      BY <1>1, <2>1
    <3> HIDE DEF R, yield, held
    <3> QED  BY <3>3, <3>4, <3>5, <1>3, <1>4, <1>5, <1>6, PlainFinite DEF LocalCapacity
  <2>2. CASE spends # {}
    <3>1. spends \subseteq R /\ Cardinality(held) <= 1
      BY <2>2, <1>1 DEF LocalTidy, Spending
    <3>2. PICK gone \in spends : gone \in R
      BY <2>2, <3>1
    <3>3. R \ spends \subseteq R \ {gone} /\ IsFiniteSet(R \ {gone})
          /\ Cardinality(R \ {gone}) = Cardinality(R) - 1
      BY <3>2, <1>5, FS_RemoveElement
    <3>4. /\ IsFiniteSet(R \ spends) /\ Cardinality(R \ spends) \in Nat
          /\ Cardinality(R \ spends) <= Cardinality(R) - 1
      BY <3>3, SubsetCount
    <3>5. /\ Cardinality((R \ spends) \cup yield) \in Nat
          /\ Cardinality((R \ spends) \cup yield)
               <= Cardinality(R \ spends) + Cardinality(yield)
      BY <3>4, <1>5, UnionCount
    <3> HIDE DEF R, yield, held, spends
    <3> QED  BY <3>1, <3>4, <3>5, <1>1, <1>3, <1>4, <1>5, <1>6, PlainFinite
             DEF LocalCapacity
  <2> QED  BY <2>1, <2>2
<1>8. Spending'
  BY <1>1, <1>2, SpendingStep DEF LocalTidy
<1>9. Covered("local")'
  BY <1>1, IdleCovered DEF LocalTidy
<1> QED  BY <1>7, <1>8, <1>9 DEF LocalTidy

LEMMA LocalTidyStep ==
  ASSUME "transport.run_one_tile_arm" \notin Ops, IndInv, LocalTidy, [Next]_vars
  PROVE  LocalTidy'
<1> "local" \in Kind
  BY DEF Kind
<1>1. CASE Same
  BY <1>1 DEF Same, LocalTidy, Covered, Spending, LocalCapacity, PlainLocals
<1>2. ASSUME NEW c \in Call, Shape(c)  PROVE LocalTidy'
  <2>1. CASE Solves(c) \/ Promises(c)
    BY <2>1, PromisesLocals
  <2>2. CASE ConsumeHop(c)
    <3>1. PICK basis \in (SUBSET reg["local"]) \ {{}} :
            Hold(c, Locals(1), Issued(Locals(1)), basis, basis)
      BY <2>2 DEF ConsumeHop
    <3>2. Locals(1) \in [Kind -> Nat] /\ Locals(1)["local"] = 1
      BY DEF Locals, None, Kind
    <3>3. Cardinality(Issued(Locals(1))["local"]) = 1
      BY <3>2, PromisedCount
    <3> DEFINE r == [at |-> "working", held |-> Issued(Locals(1)),
                     yield |-> Issued(Locals(1)),
                     checks |-> basis, spends |-> basis, route |-> <<>>]
    <3>4. call' = [call EXCEPT ![c] = r] /\ reg' = reg
      BY <3>1 DEF Hold
    <3>5. /\ r.held["local"] = Issued(Locals(1))["local"] /\ r.yield = r.held
          /\ r.spends # {} /\ r.spends = r.checks /\ r.at = "working"
      BY <3>1
    <3> HIDE DEF r
    <3>6. Covered("local")'
      <4>1. Cardinality(r.yield["local"]) <= Cardinality(r.held["local"])
        BY <3>3, <3>5
      <4> QED  BY <4>1, <3>4, CoveredStep DEF LocalTidy
    <3>7. Spending'
      <4>1. Cardinality(r.held["local"]) <= 1
        BY <3>3, <3>5
      <4> QED  BY <4>1, <3>4, <3>5, SpendingStep DEF LocalTidy
    <3>8. LocalCapacity'
      BY <3>4, <3>5, NoMoreLocals DEF LocalTidy
    <3> QED  BY <3>6, <3>7, <3>8 DEF LocalTidy
  <2>3. CASE Quiet(c)
    <3>1. PICK r : /\ call[c].held = Nothing /\ r.held = Nothing
                   /\ call[c].at # "working" /\ r.spends \subseteq call[c].spends
                   /\ call' = [call EXCEPT ![c] = r]
                   /\ r.yield["local"] \subseteq call[c].yield["local"]
                   /\ reg'["local"] \subseteq reg["local"]
      BY <2>3 DEF Quiet
    <3>2. r.spends = {} /\ r.held["local"] = {}
      BY <3>1 DEF LocalTidy, Spending, Nothing
    <3>3. Cardinality(r.yield["local"]) <= Cardinality(r.held["local"])
      <4>1. Cardinality(call[c].yield["local"]) <= Cardinality(call[c].held["local"])
        BY DEF LocalTidy, Covered
      <4>2. /\ IsFiniteSet(call[c].yield["local"]) /\ Cardinality(call[c].yield["local"]) \in Nat
            /\ Cardinality(call[c].held["local"]) \in Nat
        BY Finite
      <4>3. /\ Cardinality(r.yield["local"]) <= Cardinality(call[c].yield["local"])
            /\ Cardinality(r.yield["local"]) \in Nat
        BY <3>1, <4>2, SubsetCount
      <4>4. r.held["local"] = call[c].held["local"]
        BY <3>1
      <4> QED  BY <4>1, <4>2, <4>3, <4>4
    <3>4. Covered("local")'
      BY <3>1, <3>3, CoveredStep DEF LocalTidy
    <3>5. Spending'
      BY <3>1, <3>2, SpendingStep DEF LocalTidy
    <3>6. LocalCapacity'
      BY <3>1, <3>2, NoMoreLocals DEF LocalTidy
    <3> QED  BY <3>4, <3>5, <3>6 DEF LocalTidy
  <2>4. CASE Publish(c)
    BY <2>4, PublishLocals
  <2>5. CASE GivesBack(c) \/ Starts(c)
    BY <2>5, IdleLocals DEF GivesBack, Settle, Starts, StartStream
  <2>6. CASE Takes(c)
    <3>1. PICK line, at, yield :
            yield["local"] \subseteq {} /\ TakeStream(c, line, at, yield)
      BY <2>6 DEF Takes
    <3> DEFINE held == [Nothing EXCEPT !["line"] = {line}]
               r == [at |-> at, held |-> held, yield |-> yield,
                     checks |-> {}, spends |-> {}, route |-> <<>>]
    <3>2. call' = [call EXCEPT ![c] = r] /\ reg' = reg
      BY <3>1 DEF TakeStream
    <3>3. r.held["local"] = {} /\ r.spends = {} /\ r.yield["local"] = {}
      BY <3>1 DEF Nothing
    <3> HIDE DEF r
    <3>4. Covered("local")'
      <4>1. Cardinality(r.yield["local"]) <= Cardinality(r.held["local"])
        <5>1. Cardinality({}) = 0
          BY FS_EmptySet
        <5> QED  BY <5>1, <3>3
      <4> QED  BY <4>1, <3>2, CoveredStep DEF LocalTidy
    <3>5. Spending'
      BY <3>2, <3>3, SpendingStep DEF LocalTidy
    <3>6. LocalCapacity'
      BY <3>2, <3>3, NoMoreLocals DEF LocalTidy
    <3> QED  BY <3>4, <3>5, <3>6 DEF LocalTidy
  <2>7. CASE CloseEnd(c)
    BY <2>7, IdleLocals DEF CloseEnd, Nothing
  <2> QED  BY <1>2, <2>1, <2>2, <2>3, <2>4, <2>5, <2>6, <2>7 DEF Shape
<1> QED  BY <1>1, <1>2, StepShape

(* Locals fit too, although a hop is admitted with a credit for the basis  *)
(* it has not erased yet: unless run_arm of one tile registers its anchor  *)
(* again without a reservation.                                            *)
THEOREM LocalRoom ==
  ASSUME "transport.run_one_tile_arm" \notin Ops
  PROVE  Spec => []LocalCapacity
<1>1. Init => IndInv /\ LocalTidy
  <2>1. ASSUME Init  PROVE LocalTidy
    <3>1. \A c \in Call : call[c] = Idle
      BY <2>1 DEF Init
    <3>2. PlainLocals = {}
      <4>1. \A c \in Call : call[c].held["local"] = {}
        BY <3>1, IdleRecord DEF Nothing, Kind
      <4> QED  BY <4>1 DEF PlainLocals
    <3>3. Tidy("local")
      BY <2>1, InitTidy DEF Kind
    <3>4. Cardinality(PlainLocals) = 0
      BY <3>2, FS_EmptySet
    <3>5. LocalCapacity
      BY <2>1, <3>3, <3>4 DEF Tidy, Room, LocalCapacity, Init, None, Kind
    <3> QED  BY <3>1, <3>3, <3>5, IdleRecord DEF LocalTidy, Tidy, Spending
  <2> QED  BY <2>1, InitIndInv
<1>2. IndInv /\ LocalTidy /\ [Next]_vars => IndInv' /\ LocalTidy'
  BY NextIndInv, LocalTidyStep
<1>3. LocalTidy => LocalCapacity
  BY DEF LocalTidy
<1> QED  BY <1>1, <1>2, <1>3, PTL DEF Spec

------------------------------------------------------------------------------
(* Consumed locals.  A local that was consumed is not registered, and no   *)
(* request can register it again: requests register what they reserved     *)
(* themselves, and what is reserved was never registered before.           *)

Restores == {"transport.run_one_tile_arm", "integration.run_one_tile_arms"}

YieldsItsOwn == \A c \in Call : call[c].yield["local"] \subseteq call[c].held["local"]

SpendsResolved ==
  \A c \in Call : call[c].spends # {} =>
    call[c].at = "working" /\ call[c].spends \subseteq call[c].checks

HeirsGone ==
  \A p \in heirs :
    /\ p[1] \in Nat /\ p[1] < next["local"] /\ p[1] \notin reg["local"]
    /\ \A c \in Call : p[1] \notin call[c].held["local"]

Consumed == YieldsItsOwn /\ SpendsResolved /\ HeirsGone /\ ConsumedOnce

(* Handle counters do not fall, and only two steps consume.                *)
LEMMA HistoryStep ==
  ASSUME IndInv, [Next]_vars
  PROVE  /\ next["local"] \in Nat /\ next'["local"] \in Nat /\ next'["local"] >= next["local"]
         /\ heirs' = heirs \/ \E c \in Call : Publish(c) \/ MarchCommit(c)
<1>1. next \in [Kind -> Nat \ {0}] /\ next' \in [Kind -> Nat \ {0}] /\ "local" \in Kind
  BY NextIndInv DEF IndInv, TypeOK, Kind
<1>2. ASSUME NEW need \in [Kind -> Nat], Draw(need)
      PROVE  next'["local"] >= next["local"]
  BY <1>1, <1>2 DEF Draw
<1>3. ASSUME UNCHANGED next  PROVE next'["local"] >= next["local"]
  BY <1>1, <1>3
<1>4. CASE UNCHANGED vars \/ Reset
  BY <1>1, <1>3, <1>4 DEF vars, Reset
<1>5. ASSUME NEW c \in Call, Solve(c)
      PROVE  next'["local"] >= next["local"] /\ UNCHANGED heirs
  <2>1. PICK need \in [Kind -> Nat] : Admit(c, need)
    BY <1>5, SolveAdmits
  <2> QED  BY <1>2, <2>1 DEF Admit, Reserve, Hold
<1>6. ASSUME NEW c \in Call, Arm(c)
      PROVE  next'["local"] >= next["local"] /\ UNCHANGED heirs
  <2>1. PICK need \in [Kind -> Nat], yield \in [Kind -> SUBSET Nat] :
          Reserve(c, need, yield, {}, {})
    BY <1>6, ArmReserves
  <2> QED  BY <1>2, <2>1 DEF Reserve, Hold
<1>7. ASSUME NEW c \in Call, Hop(c)
      PROVE  next'["local"] >= next["local"] /\ UNCHANGED heirs
  <2>1. CASE ConsumeHop(c)
    <3>1. [None EXCEPT !["local"] = 1, !["match"] = 1] \in [Kind -> Nat]
      BY DEF None, Kind
    <3>2. Draw([None EXCEPT !["local"] = 1, !["match"] = 1]) /\ UNCHANGED heirs
      BY <2>1 DEF ConsumeHop, Hold
    <3> QED  BY <1>2, <3>1, <3>2
  <2>2. CASE PublishConsumedStates(c)
    <3>1. PICK n \in 1..2 :
            \E tiles \in SUBSET reg["local"] :
              LET need == [None EXCEPT !["state"] = n]
              IN  Reserve(c, need, Issued(need), tiles, tiles)
      BY <2>2 DEF PublishConsumedStates
    <3>2. [None EXCEPT !["state"] = n] \in [Kind -> Nat]
      BY DEF None, Kind
    <3> QED  BY <1>2, <3>1, <3>2 DEF Reserve, Hold
  <2>3. CASE ConsumeValueHop(c) \/ ConsumePhysicalValueHop(c)
    BY <1>3, <2>3 DEF ConsumeValueHop, ConsumePhysicalValueHop
  <2>4. CASE ReserveValueHop(c)
    BY <1>2, <2>4, NeedTypes DEF ReserveValueHop, Reserve, Hold
  <2> QED  BY <1>7, <2>1, <2>2, <2>3, <2>4 DEF Hop
<1>8. ASSUME NEW c \in Call, March(c)
      PROVE  /\ next'["local"] >= next["local"]
             /\ UNCHANGED heirs \/ MarchCommit(c)
  <2>1. CASE RunArmsConsuming(c)
    <3>1. PICK m \in 0..MaxBatch :
            Draw([None EXCEPT !["match"] = m, !["local"] = m, !["state"] = 2])
      BY <2>1 DEF RunArmsConsuming
    <3>2. [None EXCEPT !["match"] = m, !["local"] = m, !["state"] = 2] \in [Kind -> Nat]
      BY BoundAssumption DEF None, Kind
    <3> QED  BY <1>2, <2>1, <3>1, <3>2 DEF RunArmsConsuming
  <2>2. CASE MarchResolve(c) \/ MarchCommit(c) \/ MarchLosesBasis(c)
    BY <1>3, <2>2 DEF MarchResolve, MarchCommit, MarchLosesBasis
  <2> QED  BY <1>8, <2>1, <2>2 DEF March
<1>9. ASSUME NEW c \in Call, Stream(c)
      PROVE  next'["local"] >= next["local"] /\ UNCHANGED heirs
  <2>1. CASE RollingStreamBegin(c) \/ StreamBegin(c)
    BY <1>2, <2>1, NeedTypes DEF RollingStreamBegin, StreamBegin, StartStream
  <2>2. CASE StreamAbort(c) \/ StreamAborted(c) \/ StreamFinish(c)
    BY <1>3, <2>2 DEF StreamAbort, StreamAborted, StreamFinish, TakeStream
  <2> QED  BY <1>9, <2>1, <2>2 DEF Stream
<1>10. ASSUME NEW c \in Call, Retire(c)
       PROVE  next'["local"] >= next["local"] /\ UNCHANGED heirs
  BY <1>3, <1>10
     DEF Retire, Prepare, ReleasePrepared, LocalRelease, MatchRelease, EndpointRelease,
         TileRelease, TransportRelease, IntegrationRelease, Release
<1>11. ASSUME NEW c \in Call, Enter(c) \/ Refuse(c) \/ Fail(c) \/ CloseBegin(c) \/ CloseEnd(c)
       PROVE  next'["local"] >= next["local"] /\ UNCHANGED heirs
  BY <1>3, <1>11 DEF Enter, Refuse, Fail, CloseBegin, CloseEnd
<1>12. ASSUME NEW c \in Call, Publish(c)
       PROVE  next'["local"] >= next["local"]
  BY <1>3, <1>12 DEF Publish, Register
<1> QED
  BY <1>1, <1>4, <1>5, <1>6, <1>7, <1>8, <1>9, <1>10, <1>11, <1>12 DEF Next

(* One request changes; S is what its step consumes.                       *)
LEMMA InheritStep ==
  ASSUME IndInv, Consumed, [Next]_vars, NEW c \in Call, NEW r, NEW S, NEW y,
         call' = [call EXCEPT ![c] = r],
         r.yield["local"] \subseteq r.held["local"],
         r.spends # {} => r.at = "working" /\ r.spends \subseteq r.checks,
         \A h \in r.held["local"] : h \in call[c].held["local"] \/ h >= next["local"],
         reg'["local"] \subseteq reg["local"] \cup call[c].yield["local"],
         S \subseteq reg["local"], S \cap reg'["local"] = {},
         heirs' = heirs \cup (S \X {y})
  PROVE  Consumed'
<1>1. call'[c] = r /\ \A d \in Call \ {c} : call'[d] = call[d]
  BY DEF IndInv, TypeOK
<1>2. YieldsItsOwn' /\ SpendsResolved'
  BY <1>1 DEF Consumed, YieldsItsOwn, SpendsResolved
<1>3. /\ next["local"] \in Nat /\ next'["local"] \in Nat /\ next'["local"] >= next["local"]
      /\ "local" \in Kind
  BY HistoryStep DEF Kind
<1>4. ASSUME NEW h \in S
      PROVE  /\ h \in Nat /\ h < next["local"] /\ h \notin reg'["local"]
             /\ \A d \in Call : h \notin call[d].held["local"]
  <2>1. h \in reg["local"] /\ reg["local"] \subseteq 1..(next["local"] - 1)
    BY <1>3 DEF IndInv, Ledger, HandlesIssued
  <2>2. \A d \in Call : call[d].held["local"] \cap reg["local"] = {}
    BY <1>3 DEF IndInv, Ledger, HandlesApart
  <2> QED  BY <1>3, <2>1, <2>2
<1>5. ASSUME NEW p \in heirs
      PROVE  /\ p[1] \in Nat /\ p[1] < next["local"] /\ p[1] \notin reg'["local"]
             /\ \A d \in Call : p[1] \notin call[d].held["local"]
  BY DEF Consumed, HeirsGone, YieldsItsOwn
<1>6. HeirsGone'
  <2>1. ASSUME NEW h \in Nat, h < next["local"],
               \A d \in Call : h \notin call[d].held["local"]
        PROVE  h < next'["local"] /\ \A d \in Call : h \notin call'[d].held["local"]
    <3>1. h < next'["local"] /\ ~(h >= next["local"])
      BY <1>3, <2>1
    <3> QED  BY <1>1, <2>1, <3>1
  <2>2. ASSUME NEW p \in heirs'
        PROVE  /\ p[1] \in Nat /\ p[1] < next["local"] /\ p[1] \notin reg'["local"]
               /\ \A d \in Call : p[1] \notin call[d].held["local"]
    BY <1>4, <1>5
  <2> QED  BY <2>1, <2>2 DEF HeirsGone
<1>7. ConsumedOnce'
  <2>1. ASSUME NEW p \in heirs', NEW q \in heirs', p[1] = q[1]
        PROVE  p[2] = q[2]
    <3>1. \A u \in S \X {y} : u[1] \in S /\ u[2] = y
      OBVIOUS
    <3>2. \A u \in heirs : u[1] \notin S
      BY DEF Consumed, HeirsGone
    <3> QED  BY <2>1, <3>1, <3>2 DEF Consumed, ConsumedOnce
  <2>2. \A p \in heirs' : p[1] \notin reg'["local"]
    BY <1>6 DEF HeirsGone
  <2> QED  BY <2>1, <2>2 DEF ConsumedOnce
<1> QED  BY <1>2, <1>6, <1>7 DEF Consumed

LEMMA ConsumedStep ==
  ASSUME Restores \cap Ops = {}, IndInv, Consumed, [Next]_vars
  PROVE  Consumed'
<1> "local" \in Kind
  BY DEF Kind
<1>1. ASSUME NEW c \in Call, Publish(c)  PROVE Consumed'
  <2> DEFINE S == call[c].spends
             y == call[c].yield
  <2>1. /\ call' = [call EXCEPT ![c] = Idle] /\ reg'["local"] = (reg["local"] \ S) \cup y["local"]
        /\ call[c].checks \subseteq reg["local"] /\ heirs' = heirs \cup (S \X {y})
    BY <1>1 DEF Publish, Register, Settle
  <2>2. S \subseteq reg["local"]
    BY <2>1 DEF Consumed, SpendsResolved
  <2>3. y["local"] \cap reg["local"] = {}
    BY DEF Consumed, YieldsItsOwn, IndInv, Ledger, HandlesApart
  <2>4. Idle.held["local"] = {} /\ Idle.yield["local"] = {} /\ Idle.spends = {}
    BY IdleRecord DEF Nothing
  <2>5. S \cap reg'["local"] = {} /\ reg'["local"] \subseteq reg["local"] \cup y["local"]
    BY <2>1, <2>2, <2>3
  <2> HIDE DEF S
  <2> QED  BY <2>1, <2>2, <2>4, <2>5, InheritStep
<1>2. ASSUME NEW c \in Call, Quiet(c), NEW S, NEW y, S \subseteq reg["local"],
             S \cap reg'["local"] = {}, heirs' = heirs \cup (S \X {y})
      PROVE  Consumed'
  <2>1. PICK r : /\ call[c].held = Nothing /\ r.held = Nothing
                 /\ call[c].at # "working" /\ r.spends \subseteq call[c].spends
                 /\ call' = [call EXCEPT ![c] = r]
                 /\ r.yield["local"] \subseteq call[c].yield["local"]
                 /\ reg'["local"] \subseteq reg["local"]
    BY <1>2 DEF Quiet
  <2>2. r.spends = {} /\ r.held["local"] = {}
    BY <2>1 DEF Consumed, SpendsResolved, Nothing
  <2>3. r.yield["local"] \subseteq r.held["local"]
    BY <2>1 DEF Consumed, YieldsItsOwn
  <2> QED  BY <1>2, <2>1, <2>2, <2>3, InheritStep
<1>3. ASSUME NEW c \in Call, MarchCommit(c)  PROVE Consumed'
  <2> DEFINE S == LastUses(call[c].route)
             y == call[c].yield
  <2>1. Quiet(c)
    BY <1>3, MarchIsQuiet DEF March
  <2>2. S \subseteq reg["local"] /\ reg'["local"] = reg["local"] \ S
        /\ heirs' = heirs \cup (S \X {y})
    BY <1>3 DEF MarchCommit, IndInv, TypeOK
  <2>3. S \cap reg'["local"] = {}
    BY <2>2
  <2> HIDE DEF S
  <2> QED  BY <1>2, <2>1, <2>2, <2>3
<1>4. CASE heirs' = heirs
  <2> DEFINE none == {}
  <2>1. /\ none \subseteq reg["local"] /\ none \cap reg'["local"] = {}
        /\ heirs' = heirs \cup (none \X {None})
    BY <1>4
  <2> HIDE DEF none
  <2>2. CASE Same
    <3>1. /\ next["local"] \in Nat /\ next'["local"] \in Nat /\ next'["local"] >= next["local"]
      BY HistoryStep
    <3>2. HeirsGone'
      BY <1>4, <2>2, <3>1 DEF Same, Consumed, HeirsGone
    <3> QED  BY <1>4, <2>2, <3>2 DEF Same, Consumed, YieldsItsOwn, SpendsResolved, ConsumedOnce
  <2>3. ASSUME NEW c \in Call, NEW r, call' = [call EXCEPT ![c] = r],
               r.yield["local"] \subseteq r.held["local"],
               r.spends # {} => r.at = "working" /\ r.spends \subseteq r.checks,
               \A h \in r.held["local"] : h \in call[c].held["local"] \/ h >= next["local"],
               reg'["local"] \subseteq reg["local"]
        PROVE  Consumed'
    BY <2>1, <2>3, InheritStep
  <2>4. ASSUME NEW c \in Call, NEW need \in [Kind -> Nat], NEW yield, NEW checks, NEW spends,
               Hold(c, need, yield, checks, spends),
               yield["local"] \subseteq Issued(need)["local"], spends \subseteq checks
        PROVE  Consumed'
    <3> DEFINE r == [at |-> "working", held |-> Issued(need), yield |-> yield,
                     checks |-> checks, spends |-> spends, route |-> <<>>]
    <3>1. call' = [call EXCEPT ![c] = r] /\ reg' = reg
      BY <2>4 DEF Hold
    <3>2. /\ r.yield = yield /\ r.held = Issued(need) /\ r.spends = spends /\ r.checks = checks
          /\ r.at = "working"
      OBVIOUS
    <3> HIDE DEF r
    <3>3. \A h \in Issued(need)["local"] : h >= next["local"]
      BY DEF Issued
    <3> QED  BY <2>3, <2>4, <3>1, <3>2, <3>3
  <2>5. ASSUME NEW c \in Call, call' = [call EXCEPT ![c] = Idle],
               reg'["local"] \subseteq reg["local"]
        PROVE  Consumed'
    <3>1. Idle.held["local"] = {} /\ Idle.yield["local"] = {} /\ Idle.spends = {}
      BY IdleRecord DEF Nothing
    <3> QED  BY <2>3, <2>5, <3>1
  <2>6. ASSUME NEW c \in Call, Shape(c)  PROVE Consumed'
    <3>1. CASE Solves(c)
      BY <2>4, <3>1 DEF Solves, Admit, Reserve
    <3>2. CASE Promises(c)
      <4>1. PICK need \in [Kind -> Nat] :
              \E yield, checks, spends :
                /\ Hold(c, need, yield, checks, spends) /\ spends \subseteq checks
                /\ yield["local"] \subseteq Issued(need)["local"]
        BY <3>2 DEF Promises, Reserve, Restores
      <4>2. PICK yield, checks, spends :
              /\ Hold(c, need, yield, checks, spends) /\ spends \subseteq checks
              /\ yield["local"] \subseteq Issued(need)["local"]
        BY <4>1
      <4> QED  BY <2>4, <4>1, <4>2
    <3>3. CASE ConsumeHop(c)
      <4>1. PICK basis : Hold(c, Locals(1), Issued(Locals(1)), basis, basis)
        BY <3>3 DEF ConsumeHop
      <4> QED  BY <2>4, <4>1, NeedTypes
    <3>4. CASE Quiet(c)
      BY <1>2, <2>1, <3>4
    <3>5. CASE Publish(c)
      BY <1>1, <3>5
    <3>6. CASE GivesBack(c) \/ Starts(c) \/ CloseEnd(c)
      BY <2>5, <3>6 DEF GivesBack, Settle, Starts, StartStream, CloseEnd, Nothing
    <3>7. CASE Takes(c)
      <4>1. PICK line, at, yield :
              yield["local"] \subseteq {} /\ TakeStream(c, line, at, yield)
        BY <3>7 DEF Takes
      <4> DEFINE r == [at |-> at, held |-> [Nothing EXCEPT !["line"] = {line}],
                       yield |-> yield, checks |-> {}, spends |-> {}, route |-> <<>>]
      <4>2. call' = [call EXCEPT ![c] = r] /\ reg' = reg
        BY <4>1 DEF TakeStream
      <4>3. r.held["local"] = {} /\ r.spends = {} /\ r.yield["local"] = {}
        BY <4>1 DEF Nothing
      <4> HIDE DEF r
      <4> QED  BY <2>3, <4>2, <4>3
    <3> QED  BY <2>6, <3>1, <3>2, <3>3, <3>4, <3>5, <3>6, <3>7 DEF Shape
  <2> QED  BY <2>2, <2>6, StepShape
<1> QED  BY <1>1, <1>3, <1>4, HistoryStep

(* Whatever hops, folds and marches overlap, a local they consume enters   *)
(* one result and is never visible again: unless an arm of one tile, which *)
(* registers its anchor again, is among the operations.                    *)
THEOREM EachConsumedOnce ==
  ASSUME Restores \cap Ops = {}
  PROVE  Spec => []ConsumedOnce
<1>1. Init => IndInv /\ Consumed
  <2>1. ASSUME Init  PROVE Consumed
    <3>1. heirs = {} /\ \A c \in Call : call[c] = Idle
      BY <2>1 DEF Init
    <3> QED  BY <3>1, IdleRecord
             DEF Consumed, YieldsItsOwn, SpendsResolved, HeirsGone, ConsumedOnce
  <2> QED  BY <2>1, InitIndInv
<1>2. IndInv /\ Consumed /\ [Next]_vars => IndInv' /\ Consumed'
  BY NextIndInv, ConsumedStep
<1>3. Consumed => ConsumedOnce
  BY DEF Consumed
<1> QED  BY <1>1, <1>2, <1>3, PTL DEF Spec

------------------------------------------------------------------------------
(* Saves, crashes and restores.                                            *)

(* A request that is idle is as it was before its first section.           *)
IdleIsFresh == \A c \in Call : call[c].at = "idle" => call[c] = Idle

(* A request in flight holds a handle.                                     *)
FlightHolds == \A c \in Call : InFlight(c) => \E k \in Kind : call[c].held[k] # {}

(* A session in which no request has begun: a new one, or one restored.    *)
Rested ==
  /\ listed \in BOOLEAN /\ closed \in BOOLEAN /\ prepared \in BOOLEAN
  /\ next \in [Kind -> Nat \ {0}] /\ reg \in [Kind -> SUBSET Nat]
  /\ \A k \in Kind : reg[k] \subseteq 1..(next[k] - 1) /\ Cardinality(reg[k]) <= Capacity[k]
  /\ pending = None /\ streams = {} /\ heirs = {} /\ call = [c \in Call |-> Idle]

(* Every kind has room where nothing is promised without a reservation.    *)
AllTidy == LocalTidy /\ \A k \in Kind \ {"local"} : Tidy(k)

LEMMA RestedIsSound == Rested => IndInv /\ IdleIsFresh /\ FlightHolds /\ AllTidy
<1> SUFFICES ASSUME Rested  PROVE IndInv /\ IdleIsFresh /\ FlightHolds /\ AllTidy
  OBVIOUS
<1>1. \A c \in Call : call[c] = Idle
  BY DEF Rested
<1>2. TypeOK
  BY IdleRecord DEF Rested, TypeOK, None
<1>3. \A k \in Kind : Reserved(k) = {}
  <2> TAKE k \in Kind
  <2>1. \A c \in Call : call[c].held[k] = {}
    BY <1>1, IdleRecord DEF Nothing
  <2> QED  BY <2>1 DEF Reserved, Rested
<1>4. Accounting
  BY <1>3, FS_EmptySet DEF Rested, Accounting, None
<1>5. Ledger
  BY <1>1, IdleRecord DEF Rested, Ledger, HandlesIssued, OnlyWorkHolds, HandlesApart, Nothing
<1>6. IdleIsFresh /\ FlightHolds
  BY <1>1, IdleRecord DEF IdleIsFresh, FlightHolds, InFlight
<1>7. \A k \in Kind : Tidy(k)
  <2> TAKE k \in Kind
  <2>1. Covered(k)
    BY <1>1, NothingCounts DEF Covered
  <2>2. pending[k] = 0 /\ Cardinality(reg[k]) <= Capacity[k] /\ Cardinality(reg[k]) \in Nat
    <3>1. IsFiniteSet(reg[k])
      <4>1. IsFiniteSet(1..(next[k] - 1))
        BY FS_Interval DEF Rested
      <4> QED  BY <4>1, FS_Subset DEF Rested
    <3> QED  BY <3>1, FS_CardinalityType DEF Rested, None
  <2> QED  BY <2>1, <2>2 DEF Tidy, Room
<1>8. LocalTidy
  <2>1. PlainLocals = {} /\ "local" \in Kind
    BY <1>1, IdleRecord DEF PlainLocals, Nothing, Kind
  <2>2. Cardinality(PlainLocals) = 0
    BY <2>1, FS_EmptySet
  <2>3. LocalCapacity
    BY <1>7, <2>1, <2>2 DEF Tidy, Room, LocalCapacity, Rested, None
  <2> QED  BY <1>1, <1>7, <2>1, <2>3, IdleRecord DEF LocalTidy, Tidy, Spending
<1> QED  BY <1>2, <1>4, <1>5, <1>6, <1>7, <1>8 DEF IndInv, AllTidy

LEMMA RestedNext == Rested' => IndInv' /\ IdleIsFresh' /\ FlightHolds' /\ AllTidy'
BY RestedIsSound, PTL

LEMMA IdleStep ==
  ASSUME IndInv, IdleIsFresh, [Next]_vars
  PROVE  IdleIsFresh'
<1>1. CASE Same
  BY <1>1 DEF Same, IdleIsFresh
<1>2. ASSUME NEW c \in Call, NEW r, call' = [call EXCEPT ![c] = r], r.at = "idle" => r = Idle
      PROVE  IdleIsFresh'
  BY <1>2 DEF IdleIsFresh, IndInv, TypeOK
<1>3. ASSUME NEW c \in Call, NEW need, NEW yield, NEW checks, NEW spends,
             Hold(c, need, yield, checks, spends)
      PROVE  IdleIsFresh'
  <2> DEFINE r == [at |-> "working", held |-> Issued(need), yield |-> yield,
                   checks |-> checks, spends |-> spends, route |-> <<>>]
  <2>1. call' = [call EXCEPT ![c] = r] /\ r.at # "idle"
    BY <1>3 DEF Hold
  <2> HIDE DEF r
  <2> QED  BY <1>2, <2>1
<1>4. ASSUME NEW c \in Call, Shape(c)  PROVE IdleIsFresh'
  <2>1. CASE Solves(c)
    BY <1>3, <2>1 DEF Solves, Admit, Reserve
  <2>2. CASE Promises(c)
    BY <1>3, <2>2 DEF Promises, Reserve
  <2>3. CASE ConsumeHop(c)
    BY <1>3, <2>3 DEF ConsumeHop
  <2>4. CASE Quiet(c)
    BY <1>2, <2>4 DEF Quiet
  <2>5. CASE Publish(c) \/ GivesBack(c) \/ Starts(c) \/ CloseEnd(c)
    BY <1>2, <2>5 DEF Publish, Register, GivesBack, Settle, Starts, StartStream, CloseEnd
  <2>6. CASE Takes(c)
    <3>1. PICK line \in streams, at \in {"working", "aborting"}, yield \in [Kind -> SUBSET Nat] :
             TakeStream(c, line, at, yield)
      BY <2>6 DEF Takes
    <3> DEFINE r == [at |-> at, held |-> [Nothing EXCEPT !["line"] = {line}],
                     yield |-> yield, checks |-> {}, spends |-> {}, route |-> <<>>]
    <3>2. call' = [call EXCEPT ![c] = r] /\ r.at # "idle"
      BY <3>1 DEF TakeStream
    <3> HIDE DEF r
    <3> QED  BY <1>2, <3>2
  <2> QED  BY <1>4, <2>1, <2>2, <2>3, <2>4, <2>5, <2>6 DEF Shape
<1> QED  BY <1>1, <1>4, StepShape

LEMMA FlightStep ==
  ASSUME "transport.run_arms_consuming" \notin Ops, IndInv, FlightHolds, [Next]_vars
  PROVE  FlightHolds'
<1>1. CASE Same
  BY <1>1 DEF Same, FlightHolds, InFlight
<1>2. ASSUME NEW c \in Call, NEW r, call' = [call EXCEPT ![c] = r],
             \/ r.at \notin {"working", "marching", "matching"}
             \/ \E k \in Kind : r.held[k] # {}
      PROVE  FlightHolds'
  <2>1. call'[c] = r /\ \A d \in Call \ {c} : call'[d] = call[d]
    BY <1>2 DEF IndInv, TypeOK
  <2> QED  BY <1>2, <2>1 DEF FlightHolds, InFlight
<1>3. ASSUME NEW c \in Call, NEW need \in [Kind -> Nat], NEW yield, NEW checks, NEW spends,
             Hold(c, need, yield, checks, spends), Wants(need)
      PROVE  FlightHolds'
  <2> DEFINE r == [at |-> "working", held |-> Issued(need), yield |-> yield,
                   checks |-> checks, spends |-> spends, route |-> <<>>]
  <2>1. call' = [call EXCEPT ![c] = r] /\ r.held = Issued(need)
    BY <1>3 DEF Hold
  <2>2. PICK k \in Kind : need[k] > 0
    BY <1>3 DEF Wants
  <2>3. next[k] \in Nat /\ need[k] \in Nat
    BY DEF IndInv, TypeOK
  <2>4. next[k] \in Issued(need)[k]
    BY <2>2, <2>3 DEF Issued
  <2> HIDE DEF r
  <2> QED  BY <1>2, <2>1, <2>4
<1>4. ASSUME NEW c \in Call, call' = [call EXCEPT ![c] = Idle]  PROVE FlightHolds'
  BY <1>2, <1>4, IdleRecord
<1>5. ASSUME NEW c \in Call, Shape(c)  PROVE FlightHolds'
  <2>1. CASE Solves(c)
    BY <1>3, <2>1 DEF Solves, Admit, Reserve
  <2>2. CASE Promises(c)
    BY <1>3, <2>2 DEF Promises, Reserve
  <2>3. CASE ConsumeHop(c)
    <3>1. Locals(1) \in [Kind -> Nat] /\ Wants(Locals(1))
      BY NeedTypes, NeedWants
    <3> QED  BY <1>3, <2>3, <3>1 DEF ConsumeHop
  <2>4. CASE Quiet(c)
    <3>1. PICK r : /\ call' = [call EXCEPT ![c] = r]
                   /\ r.at \in {"working", "marching", "matching"} =>
                        call[c].at \in {"marching", "matching"}
      BY <2>4 DEF Quiet
    <3>2. call[c].at \notin {"marching", "matching"}
      <4>1. call[c].at \in {"marching", "matching"} => call[c].held = Nothing
        BY EnteredHoldsNothing
      <4> QED  BY <4>1 DEF FlightHolds, InFlight, Nothing
    <3> QED  BY <1>2, <3>1, <3>2
  <2>5. CASE Publish(c) \/ GivesBack(c) \/ Starts(c) \/ CloseEnd(c)
    BY <1>4, <2>5 DEF Publish, Register, GivesBack, Settle, Starts, StartStream, CloseEnd
  <2>6. CASE Takes(c)
    <3>1. PICK line, at, yield : TakeStream(c, line, at, yield)
      BY <2>6 DEF Takes
    <3> DEFINE held == [Nothing EXCEPT !["line"] = {line}]
               r == [at |-> at, held |-> held,
                     yield |-> yield, checks |-> {}, spends |-> {}, route |-> <<>>]
    <3>2. call' = [call EXCEPT ![c] = r] /\ r.held = held
      BY <3>1 DEF TakeStream
    <3>3. "line" \in Kind /\ held["line"] # {}
      BY DEF Kind, Nothing
    <3> HIDE DEF r, held
    <3> QED  BY <1>2, <3>2, <3>3
  <2> QED  BY <1>5, <2>1, <2>2, <2>3, <2>4, <2>5, <2>6 DEF Shape
<1> QED  BY <1>1, <1>5, StepShape

(* A session that is quiescent has nothing in flight and no stream.        *)
LEMMA QuiescentIsQuiet ==
  ASSUME IndInv, FlightHolds, Quiescent
  PROVE  streams = {} /\ \A c \in Call : ~InFlight(c)
<1>1. \A k \in Kind : Reserved(k) = {}
  <2> TAKE k \in Kind
  <2>1. Cardinality(Reserved(k)) = 0
    BY DEF IndInv, Accounting, Quiescent, None
  <2>2. IsFiniteSet(Reserved(k))
    <3>1. Call = {} \/ \E c : c \in Call
      OBVIOUS
    <3>2. ASSUME NEW c \in Call  PROVE IsFiniteSet(Reserved(k))
      <4>1. TypeOK /\ Ledger
        BY DEF IndInv
      <4>2. IsFiniteSet(call[c].held[k]) /\ IsFiniteSet(Others(c, k))
        BY <4>1, ReservedFinite
      <4>3. IsFiniteSet(call[c].held[k] \cup Others(c, k))
        BY <4>2, UnionCount
      <4> QED  BY <4>3, ReservedIsOwnAndOthers
    <3>3. CASE Call = {}
      <4>1. streams \subseteq 1..(next["line"] - 1) /\ "line" \in Kind
        BY DEF IndInv, Ledger, HandlesIssued, Kind
      <4>2. IsFiniteSet(1..(next["line"] - 1))
        BY <4>1, FS_Interval DEF IndInv, TypeOK
      <4>3. IsFiniteSet(streams) /\ IsFiniteSet({})
        BY <4>1, <4>2, FS_Subset, FS_EmptySet
      <4>4. Reserved(k) = IF k = "line" THEN streams ELSE {}
        BY <3>3 DEF Reserved
      <4> QED  BY <4>3, <4>4
    <3> QED  BY <3>1, <3>2, <3>3
  <2> QED  BY <2>1, <2>2, FS_EmptySet
<1>2. streams = {}
  BY <1>1 DEF Reserved, Kind
<1>3. \A c \in Call, k \in Kind : call[c].held[k] = {}
  BY <1>1 DEF Reserved
<1> QED  BY <1>2, <1>3 DEF FlightHolds

(* What is on disk can be made a session of.                               *)
DiskTypeOK ==
  disk # NoImage =>
    /\ disk.reg \in [Kind -> SUBSET Nat] /\ disk.next \in [Kind -> Nat \ {0}]
    /\ disk.prepared \in BOOLEAN /\ disk.generation \in Nat
    /\ \A k \in Kind : disk.reg[k] \subseteq 1..(disk.next[k] - 1)

(* Wherever a request may still save, its image will not be older.         *)
Generations ==
  /\ generation \in Nat
  /\ disk # NoImage /\ (listed \/ \E c \in Call : call[c].at # "idle") =>
       disk.generation <= generation + 1

StoredInv == IndInv /\ IdleIsFresh /\ DiskTypeOK /\ Generations

LEMMA SnapshotRecord ==
  /\ Snapshot.reg = reg /\ Snapshot.next = next /\ Snapshot.prepared = prepared
  /\ Snapshot.generation = generation + 1
BY DEF Snapshot

LEMMA CheckpointStep ==
  ASSUME [CheckpointNext]_allVars
  PROVE  \/ [Next]_vars /\ UNCHANGED <<disk, generation>>
         \/ \E c \in Call : Save(c) /\ Refuse(c)
         \/ Crash
         \/ Restore
<1>1. \A c \in Call : Save(c) => Refuse(c)
  BY DEF Save, Refuse, Entered
<1> QED  BY <1>1 DEF CheckpointNext, allVars

LEMMA CrashRests ==
  ASSUME Crash
  PROVE  Rested' /\ generation' = 0 /\ disk' = disk /\ listed' = FALSE
         /\ \A c \in Call : call'[c].at = "idle"
<1>1. \A k \in Kind : /\ Nothing[k] = {} /\ Cardinality({}) = 0 /\ Capacity[k] \in Nat
  BY FS_EmptySet, CapacityAssumption DEF Nothing
<1>2. Nothing \in [Kind -> SUBSET Nat]
  BY DEF Nothing
<1>3. /\ listed' = FALSE /\ closed' = TRUE /\ prepared' = FALSE
      /\ next' = [k \in Kind |-> 1] /\ reg' = Nothing
      /\ pending' = None /\ streams' = {} /\ heirs' = {}
      /\ call' = [c \in Call |-> Idle] /\ generation' = 0 /\ disk' = disk
  BY DEF Crash
<1>4. next' \in [Kind -> Nat \ {0}] /\ reg' \in [Kind -> SUBSET Nat]
  BY <1>2, <1>3
<1>5. \A k \in Kind : reg'[k] \subseteq 1..(next'[k] - 1) /\ Cardinality(reg'[k]) <= Capacity[k]
  BY <1>1, <1>3
<1>6. Rested'
  BY <1>3, <1>4, <1>5 DEF Rested
<1>7. \A c \in Call : call'[c].at = "idle"
  BY <1>3, IdleRecord
<1> QED  BY <1>3, <1>6, <1>7

LEMMA RestoreRests ==
  ASSUME IdleIsFresh, IndInv, DiskTypeOK, Restore
  PROVE  Rested' /\ disk # NoImage /\ disk' = disk /\ generation' = disk.generation
<1>1. /\ disk # NoImage /\ Restorable(disk) /\ UNCHANGED <<call, disk>>
      /\ \A c \in Call : call[c].at = "idle"
      /\ listed' = TRUE /\ closed' = FALSE /\ prepared' = disk.prepared
      /\ next' = disk.next /\ reg' = disk.reg
      /\ pending' = None /\ streams' = {} /\ heirs' = {} /\ generation' = disk.generation
  BY DEF Restore, Load
<1>2. call = [c \in Call |-> Idle]
  BY <1>1 DEF IdleIsFresh, IndInv, TypeOK
<1> QED  BY <1>1, <1>2 DEF Rested, DiskTypeOK, Restorable

(* A session nobody finds, with no request begun, stays as it is.          *)
LEMMA RestedStands ==
  ASSUME IndInv, ~listed, \A c \in Call : call[c].at = "idle", [Next]_vars
  PROVE  ~listed' /\ \A c \in Call : call'[c].at = "idle"
<1>1. ~Reset
  BY DEF Reset
<1>2. ASSUME NEW c \in Call
      PROVE  /\ ~Enter(c) /\ ~Refuse(c) /\ ~Publish(c) /\ ~Fail(c) /\ ~CloseBegin(c)
             /\ ~CloseEnd(c) /\ ~Solve(c) /\ ~Arm(c) /\ ~Hop(c) /\ ~March(c) /\ ~Stream(c)
             /\ ~Retire(c)
  <2>1. /\ ~Enter(c) /\ ~Refuse(c) /\ ~Publish(c) /\ ~Fail(c) /\ ~CloseBegin(c)
        /\ ~CloseEnd(c)
    BY DEF Enter, Refuse, Publish, Fail, InFlight, CloseBegin, CloseEnd
  <2>2. ~Solve(c) /\ ~Arm(c)
    BY SolveAdmits, ArmReserves
  <2>3. ~Hop(c) /\ ~March(c)
    BY DEF Hop, March, ConsumeHop, PublishConsumedStates, ConsumeValueHop,
           ConsumePhysicalValueHop, ReserveValueHop, RunArmsConsuming, MarchResolve,
           MarchCommit, MarchLosesBasis, Open, Entered
  <2>4. ~Stream(c) /\ ~Retire(c)
    BY DEF Stream, Retire, RollingStreamBegin, StreamBegin, StreamAbort, StreamAborted,
           StreamFinish, Prepare, ReleasePrepared, LocalRelease, MatchRelease,
           EndpointRelease, TileRelease, TransportRelease, IntegrationRelease, Open, Entered
  <2> QED  BY <2>1, <2>2, <2>3, <2>4
<1> QED  BY <1>1, <1>2 DEF Next, vars

LEMMA StoredStep ==
  ASSUME StoredInv, [CheckpointNext]_allVars
  PROVE  StoredInv'
<1> USE DEF StoredInv
<1>1. ASSUME [Next]_vars, UNCHANGED <<disk, generation>>  PROVE StoredInv'
  <2>1. IndInv' /\ IdleIsFresh'
    BY <1>1, NextIndInv, IdleStep
  <2>2. DiskTypeOK'
    BY <1>1 DEF DiskTypeOK
  <2>3. listed' \/ (\E c \in Call : call'[c].at # "idle") =>
          listed \/ \E c \in Call : call[c].at # "idle"
    <3>1. CASE ~listed /\ \A c \in Call : call[c].at = "idle"
      BY <1>1, <3>1, RestedStands
    <3> QED  BY <3>1
  <2>4. Generations'
    BY <1>1, <2>3 DEF Generations
  <2> QED  BY <2>1, <2>2, <2>4
<1>2. ASSUME NEW c \in Call, Save(c), Refuse(c)  PROVE StoredInv'
  <2>1. IndInv' /\ IdleIsFresh'
    BY <1>2, NextIndInv, IdleStep DEF Next
  <2>2. /\ disk' = Snapshot \/ disk' = disk
        /\ generation' \in {generation, generation + 1}
        /\ disk' = disk => generation' = generation \/ disk' = Snapshot
        /\ call[c].at # "idle" /\ generation \in Nat
    BY <1>2 DEF Save, Entered, Generations
  <2>3. CASE disk' = Snapshot
    <3>1. DiskTypeOK'
      <4>1. /\ reg \in [Kind -> SUBSET Nat] /\ next \in [Kind -> Nat \ {0}]
            /\ prepared \in BOOLEAN /\ generation + 1 \in Nat
        BY DEF IndInv, TypeOK, Generations
      <4>2. \A k \in Kind : reg[k] \subseteq 1..(next[k] - 1)
        BY DEF IndInv, Ledger, HandlesIssued
      <4>3. /\ disk'.reg = reg /\ disk'.next = next /\ disk'.prepared = prepared
            /\ disk'.generation = generation + 1
        BY <2>3, SnapshotRecord
      <4> QED  BY <4>1, <4>2, <4>3 DEF DiskTypeOK
    <3>2. Generations'
      <4>1. disk'.generation = generation + 1
        BY <2>3, SnapshotRecord
      <4>2. generation' = generation \/ generation' = generation + 1
        BY <2>2
      <4>3. generation \in Nat
        BY <2>2
      <4>4. generation' \in Nat /\ generation + 1 <= generation' + 1
        BY <4>2, <4>3
      <4> QED  BY <4>1, <4>4 DEF Generations
    <3> QED  BY <2>1, <3>1, <3>2
  <2>4. CASE disk' = disk /\ disk' # Snapshot
    <3>1. DiskTypeOK'
      BY <2>4 DEF DiskTypeOK
    <3>2. Generations'
      BY <2>2, <2>4 DEF Generations
    <3> QED  BY <2>1, <3>1, <3>2
  <2> QED  BY <2>2, <2>3, <2>4
<1>3. CASE Crash
  <2>1. IndInv' /\ IdleIsFresh'
    BY <1>3, CrashRests, RestedNext
  <2>2. DiskTypeOK' /\ Generations'
    BY <1>3, CrashRests DEF DiskTypeOK, Generations
  <2> QED  BY <2>1, <2>2
<1>4. CASE Restore
  <2>1. IndInv' /\ IdleIsFresh'
    BY <1>4, RestoreRests, RestedNext
  <2>2. DiskTypeOK' /\ Generations'
    BY <1>4, RestoreRests DEF DiskTypeOK, Generations
  <2> QED  BY <2>1, <2>2
<1> QED  BY <1>1, <1>2, <1>3, <1>4, CheckpointStep

(* What makes AllTidy inductive, and what it says of the registries.       *)
LEMMA AllTidyStep ==
  ASSUME {"transport.run_arms_consuming", "transport.run_one_tile_arm"} \cap Ops = {},
         IndInv, AllTidy, [Next]_vars
  PROVE  AllTidy'
<1>1. \A k \in Kind \ {"local"} : Plain(k)
  BY DEF Plain
<1>2. \A k \in Kind \ {"local"} : Tidy(k)'
  BY <1>1, TidyStep DEF AllTidy
<1>3. LocalTidy'
  BY LocalTidyStep DEF AllTidy
<1> QED  BY <1>2, <1>3 DEF AllTidy

LEMMA RegistriesFit ==
  ASSUME IndInv, AllTidy, NEW c \in Call, NEW k \in Kind
  PROVE  Cardinality(reg[k]) <= Capacity[k]
<1>1. Cardinality(reg[k]) \in Nat /\ pending[k] \in Nat /\ Capacity[k] \in Nat
  BY Finite
<1>2. CASE k = "local"
  <2>1. Cardinality(PlainLocals) \in Nat
    BY PlainFinite
  <2> QED  BY <1>1, <1>2, <2>1 DEF AllTidy, LocalTidy, LocalCapacity
<1>3. CASE k # "local"
  BY <1>1, <1>3 DEF AllTidy, Tidy, Room
<1> QED  BY <1>2, <1>3

LEMMA InitRests == CheckpointInit => Rested /\ disk = NoImage /\ generation = 0
<1>1. \A k \in Kind : Nothing[k] = {} /\ Cardinality({}) = 0 /\ Capacity[k] \in Nat
  BY FS_EmptySet, CapacityAssumption DEF Nothing
<1>2. Nothing \in [Kind -> SUBSET Nat]
  BY DEF Nothing
<1> SUFFICES ASSUME CheckpointInit  PROVE Rested /\ disk = NoImage /\ generation = 0
  OBVIOUS
<1>3. /\ listed = TRUE /\ closed = FALSE /\ prepared = FALSE
      /\ next = [k \in Kind |-> 1] /\ reg = Nothing
      /\ pending = None /\ streams = {} /\ heirs = {}
      /\ call = [c \in Call |-> Idle] /\ generation = 0 /\ disk = NoImage
  BY DEF CheckpointInit, Init
<1>4. next \in [Kind -> Nat \ {0}] /\ reg \in [Kind -> SUBSET Nat]
  BY <1>2, <1>3
<1>5. \A k \in Kind : reg[k] \subseteq 1..(next[k] - 1) /\ Cardinality(reg[k]) <= Capacity[k]
  BY <1>1, <1>3
<1> QED  BY <1>3, <1>4, <1>5 DEF Rested

LEMMA InitStored == CheckpointInit => StoredInv /\ FlightHolds /\ AllTidy
BY InitRests, RestedIsSound DEF StoredInv, DiskTypeOK, Generations

(* A session that is restored, again and again, keeps the accounts of its  *)
(* handles: none is promised twice, and every reservation is paid back.    *)
THEOREM AccountsSurviveRestores == CheckpointSpec => [](TypeOK /\ Ledger /\ Accounting)
<1>1. CheckpointInit => StoredInv
  BY InitStored
<1>2. StoredInv /\ [CheckpointNext]_allVars => StoredInv'
  BY StoredStep
<1>3. StoredInv => TypeOK /\ Ledger /\ Accounting
  BY DEF StoredInv, IndInv
<1> QED  BY <1>1, <1>2, <1>3, PTL DEF CheckpointSpec

(* A save takes its picture between requests, and what is on disk is never *)
(* replaced by something older, unless a march that reserves nothing is    *)
(* among the operations.                                                   *)
THEOREM SavesAreQuiescent ==
  ASSUME "transport.run_arms_consuming" \notin Ops
  PROVE  CheckpointSpec => QuiescentImage
<1> DEFINE Inv == StoredInv /\ FlightHolds
           Good == disk' # disk =>
                     /\ streams = {} /\ \A c \in Call : ~InFlight(c)
                     /\ disk # NoImage => disk'.generation >= disk.generation
<1>1. CheckpointInit => Inv
  BY InitStored
<1>2. Inv /\ [CheckpointNext]_allVars => Inv' /\ [Good]_allVars
  <2> SUFFICES ASSUME Inv, [CheckpointNext]_allVars  PROVE Inv' /\ Good
    OBVIOUS
  <2>1. StoredInv'
    BY StoredStep
  <2>2. ASSUME [Next]_vars, UNCHANGED <<disk, generation>>  PROVE FlightHolds' /\ Good
    BY <2>2, FlightStep DEF StoredInv
  <2>3. ASSUME NEW c \in Call, Save(c), Refuse(c)  PROVE FlightHolds' /\ Good
    <3>1. FlightHolds'
      BY <2>3, FlightStep DEF Next, StoredInv
    <3>2. streams = {} /\ \A d \in Call : ~InFlight(d)
      BY <2>3, QuiescentIsQuiet DEF Save, StoredInv
    <3>3. disk' # disk => disk'.generation = generation + 1
      BY <2>3, SnapshotRecord DEF Save
    <3>4. disk # NoImage => disk.generation <= generation + 1 /\ disk.generation \in Nat
      BY <2>3 DEF Save, Entered, StoredInv, Generations, DiskTypeOK
    <3>5. generation \in Nat
      BY DEF StoredInv, Generations
    <3> QED  BY <3>1, <3>2, <3>3, <3>4, <3>5
  <2>4. CASE Crash \/ Restore
    <3>1. Rested' /\ disk' = disk
      BY <2>4, CrashRests, RestoreRests DEF StoredInv
    <3> QED  BY <2>1, <3>1, RestedNext
  <2> QED  BY <2>1, <2>2, <2>3, <2>4, CheckpointStep
<1> HIDE DEF Inv
<1> QED  BY <1>1, <1>2, PTL DEF CheckpointSpec, QuiescentImage

(* Whatever requests were interleaved before it, restore accepts what a    *)
(* save has written: unless the two operations that overfill a registry    *)
(* are among them.                                                         *)
THEOREM SavesAreRestorable ==
  ASSUME {"transport.run_arms_consuming", "transport.run_one_tile_arm"} \cap Ops = {}
  PROVE  CheckpointSpec => []ImageRestorable
<1> DEFINE Inv == StoredInv /\ AllTidy /\ ImageRestorable
<1>1. CheckpointInit => Inv
  BY InitStored, InitRests DEF ImageRestorable
<1>2. Inv /\ [CheckpointNext]_allVars => Inv'
  <2> SUFFICES ASSUME Inv, [CheckpointNext]_allVars  PROVE Inv'
    OBVIOUS
  <2>1. StoredInv'
    BY StoredStep
  <2>2. ASSUME [Next]_vars, UNCHANGED <<disk, generation>>  PROVE AllTidy' /\ ImageRestorable'
    <3>1. AllTidy'
      BY <2>2, AllTidyStep DEF StoredInv
    <3> QED  BY <2>2, <3>1 DEF ImageRestorable, Restorable
  <2>3. ASSUME NEW c \in Call, Save(c), Refuse(c)  PROVE AllTidy' /\ ImageRestorable'
    <3>1. AllTidy'
      BY <2>3, AllTidyStep DEF Next, StoredInv
    <3>2. \A k \in Kind : /\ Cardinality(Snapshot.reg[k]) <= Capacity[k]
                          /\ \A h \in Snapshot.reg[k] : h < Snapshot.next[k]
      <4> TAKE k \in Kind
      <4>1. Cardinality(reg[k]) <= Capacity[k]
        BY RegistriesFit DEF StoredInv
      <4>2. reg[k] \subseteq 1..(next[k] - 1) /\ next[k] \in Nat
        BY DEF StoredInv, IndInv, Ledger, HandlesIssued, TypeOK
      <4> QED  BY <4>1, <4>2, SnapshotRecord
    <3>3. disk' = Snapshot \/ disk' = disk
      BY <2>3 DEF Save
    <3> QED  BY <3>1, <3>2, <3>3 DEF ImageRestorable, Restorable
  <2>4. CASE Crash \/ Restore
    <3>1. AllTidy'
      BY <2>4, CrashRests, RestoreRests, RestedNext DEF StoredInv
    <3>2. disk' = disk
      BY <2>4, CrashRests, RestoreRests DEF StoredInv
    <3>3. ImageRestorable
      OBVIOUS
    <3> QED  BY <2>1, <3>1, <3>2, <3>3 DEF ImageRestorable, Restorable
  <2> QED  BY <2>1, <2>2, <2>3, <2>4, CheckpointStep
<1>3. Inv => ImageRestorable
  OBVIOUS
<1> HIDE DEF Inv
<1> QED  BY <1>1, <1>2, <1>3, PTL DEF CheckpointSpec
==============================================================================

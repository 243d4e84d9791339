------------------------------ MODULE ArmProofs ------------------------------
(***************************************************************************)
(* Theorems about the work of one arm: PairStream, for any number of       *)
(* requests in flight and of tiles on the two arms; and PathPlanner, for any *)
(* requests, charts and rationals.  For the planner the rationals come first, *)
(* as fractions over a common denominator; then each handoff fits its two  *)
(* charts, and fits are found; then the plan of an arm is sound, and the same *)
(* from the other side of the origin.                                      *)
(***************************************************************************)
EXTENDS PairStream, PathPlanner, FiniteSetTheorems, SequenceTheorems,
        WellFoundedInduction, TLAPS

------------------------------------------------------------------------------
(* The stream of a transport pair.                                         *)

Ending == {"finishing", "publishing", "releasing", "aborting", "dropping"}

(* The first n tiles of an arm, in order.                                  *)
FirstTiles(n) == [i \in 1..n |-> i - 1]

(* A tile request names a side, and a tile of it.                          *)
NamesTile ==
  \A c \in Caller : call[c].at \in {"adding", "keeping"} =>
    call[c].side \in Side /\ call[c].tile < Expected[call[c].side]

(* Until something fails, the sums hold the tiles that were counted.       *)
SumsCount ==
  /\ status \in {"active", "finished"} =>
       \A s \in Side : next[s] <= Expected[s] /\ summed[s] = FirstTiles(next[s])
  /\ status = "finished" => AllAdded

(* Whoever took the stream has it, and its reservation, alone.             *)
TakenAlone ==
  /\ \A c, d \in Caller : call[c].at \in Ending /\ call[d].at \in Ending => c = d
  /\ present => \A c \in Caller : call[c].at \notin Ending
  /\ present => pending = 1 /\ ~closed /\ status # "finished"
  /\ \A c \in Caller :
       call[c].at \in {"finishing", "publishing", "releasing", "aborting"} => pending = 1

(* A stream is finished once it was taken to be finished, and stays so.    *)
FinishedOnce ==
  /\ \A c \in Caller :
       /\ call[c].at \in {"finishing", "aborting", "dropping"} => status # "finished"
       /\ call[c].at = "publishing" => status = "finished"
       /\ call[c].at = "dropping" => closed
  /\ line => pending = 0 /\ status = "finished" /\ ~closed

StreamInv == StreamTypeOK /\ NamesTile /\ SumsCount /\ TakenAlone /\ FinishedOnce

------------------------------------------------------------------------------
LEMMA ExpectedNat == \A s \in Side : Expected[s] \in Nat /\ Expected[s] > 0
BY ExpectedAssumption

LEMMA NextTile ==
  ASSUME NEW n \in Nat
  PROVE  Append(FirstTiles(n), n) = FirstTiles(n + 1)
<1> DEFINE s == FirstTiles(n)
<1>1. s \in Seq(Nat) /\ Len(s) = n
  <2>1. s \in [1..n -> Nat]
    BY DEF FirstTiles
  <2> QED  BY <2>1, SeqDef, LenProperties DEF FirstTiles
<1>2. /\ Append(s, n) \in Seq(Nat) /\ Len(Append(s, n)) = n + 1
      /\ \A i \in 1..n : Append(s, n)[i] = s[i]
      /\ Append(s, n)[n + 1] = n
  BY <1>1, AppendProperties
<1>3. Append(s, n) = [i \in 1..(n + 1) |-> Append(s, n)[i]]
  BY <1>2, LenProperties
<1>4. \A i \in 1..(n + 1) : Append(s, n)[i] = i - 1
  <2> TAKE i \in 1..(n + 1)
  <2> QED  BY <1>2 DEF FirstTiles
<1> QED  BY <1>3, <1>4 DEF FirstTiles

LEMMA InitStream == StreamInit => StreamInv
<1> SUFFICES ASSUME StreamInit  PROVE StreamInv
  OBVIOUS
<1>1. <<>> \in Seq(Nat) /\ FirstTiles(0) = <<>>
  BY EmptySeq DEF FirstTiles
<1>2. StreamTypeOK
  <2>1. summed \in [Side -> Seq(Nat)] /\ next \in [Side -> Nat]
    BY <1>1 DEF StreamInit
  <2>2. call \in [Caller -> [at : At, side : 0..2, tile : Nat]]
    BY DEF StreamInit, Idle, At
  <2> QED  BY <2>1, <2>2 DEF StreamInit, StreamTypeOK, Status
<1>3. SumsCount
  BY <1>1, ExpectedNat DEF StreamInit, SumsCount
<1> QED
  BY <1>2, <1>3 DEF StreamInit, StreamInv, NamesTile, TakenAlone, FinishedOnce, Idle, Ending

LEMMA StepStream == StreamInv /\ [StreamNext]_streamVars => StreamInv'
<1> SUFFICES ASSUME StreamInv, [StreamNext]_streamVars  PROVE StreamInv'
  OBVIOUS
<1> USE DEF StreamInv, StreamTypeOK, NamesTile, SumsCount, TakenAlone, FinishedOnce, Ending
<1>1. ASSUME NEW c \in Caller, AddFind(c), UNCHANGED rolling  PROVE StreamInv'
  BY <1>1, ExpectedNat DEF AddFind, At, Side, AllAdded
<1>2. ASSUME NEW c \in Caller, AddRefused(c), UNCHANGED rolling  PROVE StreamInv'
  BY <1>2 DEF AddRefused, Ends, Idle, At, AllAdded
<1>3. ASSUME NEW c \in Caller, AddTile(c), UNCHANGED rolling  PROVE StreamInv'
  <2> DEFINE s == call[c].side
             t == call[c].tile
  <2>1. /\ s \in Side /\ t = next[s] /\ t \in Nat /\ t < Expected[s] /\ status = "active"
        /\ Expected[s] \in Nat
        /\ next' = [next EXCEPT ![s] = @ + 1]
        /\ summed' = [summed EXCEPT ![s] = Append(@, t)]
    BY <1>3, ExpectedNat DEF AddTile, Accepts, InOrder
  <2>2. summed'[s] = FirstTiles(next'[s]) /\ next'[s] <= Expected[s] /\ next'[s] \in Nat
    <3>1. summed[s] = FirstTiles(t) /\ Append(FirstTiles(t), t) = FirstTiles(t + 1)
      BY <2>1, NextTile
    <3>2. next'[s] = t + 1 /\ summed'[s] = Append(summed[s], t)
      BY <2>1
    <3> QED  BY <2>1, <3>1, <3>2
  <2>3. summed[s] \in Seq(Nat) /\ Append(summed[s], t) \in Seq(Nat)
    BY <2>1, AppendProperties
  <2>4. /\ next' \in [Side -> Nat] /\ summed' \in [Side -> Seq(Nat)]
        /\ \A r \in Side : next'[r] <= Expected[r] /\ summed'[r] = FirstTiles(next'[r])
    BY <2>1, <2>2, <2>3
  <2>5. /\ call' \in [Caller -> [at : At, side : 0..2, tile : Nat]]
        /\ \A d \in Caller : d # c => call'[d] = call[d]
        /\ call'[c].at \in {"idle", "keeping"}
        /\ call'[c].at = "keeping" => call'[c].side = s /\ call'[c].tile = t
    <3>1. call' = [call EXCEPT ![c].at = "keeping"] \/ call' = [call EXCEPT ![c] = Idle]
      BY <1>3 DEF AddTile, Goes, Ends
    <3> QED  BY <3>1 DEF Idle, At
  <2>6. UNCHANGED <<rolling, closed, present, pending, line, status, terminals>>
    BY <1>3 DEF AddTile
  <2> HIDE DEF s, t
  <2>7. NamesTile'
    BY <2>1, <2>5 DEF s, t
  <2> QED  BY <2>1, <2>4, <2>5, <2>6, <2>7
<1>4. ASSUME NEW c \in Caller, AddFails(c), UNCHANGED rolling  PROVE StreamInv'
  <2>1. summed' \in [Side -> Seq(Nat)]
    <3>1. summed[call[c].side] \in Seq(Nat) /\ call[c].tile \in Nat
      BY <1>4 DEF AddFails
    <3>2. Append(summed[call[c].side], call[c].tile) \in Seq(Nat)
      BY <3>1, AppendProperties
    <3> QED  BY <1>4, <3>2 DEF AddFails
  <2> QED  BY <1>4, <2>1 DEF AddFails, Accepts, Ends, Idle, At, AllAdded, Status
<1>5. ASSUME NEW c \in Caller, KeepTerminal(c), UNCHANGED rolling  PROVE StreamInv'
  BY <1>5 DEF KeepTerminal, Ends, Idle, At, AllAdded
<1>6. ASSUME NEW c \in Caller, FinishTake(c), UNCHANGED rolling  PROVE StreamInv'
  BY <1>6 DEF FinishTake, Take, Goes, At, AllAdded
<1>7. ASSUME NEW c \in Caller, FinishBuilds(c), UNCHANGED rolling  PROVE StreamInv'
  BY <1>7 DEF FinishBuilds, Finishable, Goes, At, AllAdded, Status
<1>8. ASSUME NEW c \in Caller, FinishThrows(c), UNCHANGED rolling  PROVE StreamInv'
  BY <1>8 DEF FinishThrows, Goes, At, AllAdded, Status
<1>9. ASSUME NEW c \in Caller, FinishPublishes(c), UNCHANGED rolling  PROVE StreamInv'
  <2>1. /\ call[c].at = "publishing" /\ pending = 1 /\ pending' = 0 /\ ~present
        /\ status = "finished" /\ ~line
    BY <1>9 DEF FinishPublishes
  <2>2. line' \in BOOLEAN /\ (line' => ~closed)
    <3>1. CASE closed
      BY <1>9, <2>1, <3>1 DEF FinishPublishes
    <3>2. CASE ~closed
      BY <1>9, <3>2 DEF FinishPublishes
    <3> QED  BY <3>1, <3>2
  <2>3. /\ call' = [call EXCEPT ![c] = Idle]
        /\ UNCHANGED <<rolling, closed, present, status, next, summed, terminals>>
    BY <1>9 DEF FinishPublishes, Ends
  <2> QED  BY <2>1, <2>2, <2>3 DEF Idle, At, AllAdded
<1>10. ASSUME NEW c \in Caller, FinishInaccurate(c), UNCHANGED rolling  PROVE StreamInv'
  BY <1>10 DEF FinishInaccurate, Goes, At, AllAdded
<1>11. ASSUME NEW c \in Caller, Release(c), UNCHANGED rolling  PROVE StreamInv'
  BY <1>11 DEF Release, Ends, Idle, At, AllAdded
<1>12. ASSUME NEW c \in Caller, AbortTake(c), UNCHANGED rolling  PROVE StreamInv'
  BY <1>12 DEF AbortTake, Take, Goes, At, AllAdded
<1>13. ASSUME NEW c \in Caller, Abort(c), UNCHANGED rolling  PROVE StreamInv'
  BY <1>13 DEF Abort, Aborts, Goes, At, AllAdded, Status
<1>14. ASSUME NEW c \in Caller, Close(c), UNCHANGED rolling  PROVE StreamInv'
  <2>1. /\ closed' = TRUE /\ present' = FALSE /\ line' = FALSE /\ call[c].at = "idle"
        /\ UNCHANGED <<rolling, status, next, summed, terminals>>
    BY <1>14 DEF Close
  <2>2. CASE present
    <3>1. pending' = 0 /\ call' = [call EXCEPT ![c].at = "dropping"]
      BY <1>14, <2>2 DEF Close, Goes
    <3> QED  BY <2>1, <2>2, <3>1 DEF At, AllAdded
  <2>3. CASE ~present
    <3>1. UNCHANGED <<pending, call>>
      BY <1>14, <2>3 DEF Close
    <3> QED  BY <2>1, <2>3, <3>1 DEF AllAdded
  <2> QED  BY <2>2, <2>3
<1>15. ASSUME NEW c \in Caller, Drop(c), UNCHANGED rolling  PROVE StreamInv'
  BY <1>15 DEF Drop, Aborts, Ends, Idle, At, AllAdded, Status
<1>16. CASE UNCHANGED streamVars
  BY <1>16 DEF streamVars, AllAdded
<1> QED
  BY <1>1, <1>2, <1>3, <1>4, <1>5, <1>6, <1>7, <1>8, <1>9, <1>10, <1>11, <1>12, <1>13, <1>14,
     <1>15, <1>16 DEF StreamNext, Add, Finish, End

LEMMA StreamInvariant == StreamSpec => []StreamInv
BY InitStream, StepStream, PTL DEF StreamSpec

------------------------------------------------------------------------------
(* Every variable of a stream has its type: what it owes is one            *)
(* reservation or none.                                                    *)
THEOREM StreamTypes == StreamSpec => []StreamTypeOK
<1>1. StreamInv => StreamTypeOK
  BY DEF StreamInv
<1> QED  BY <1>1, StreamInvariant, PTL

(* The line a client reads sums every tile of both arms exactly once, in   *)
(* order, for any number of tiles and of requests that add them.           *)
THEOREM TilesOnce == StreamSpec => []EveryTileOnce
<1>1. StreamInv => EveryTileOnce
  BY DEF StreamInv, SumsCount, FinishedOnce, AllAdded, EveryTileOnce, FirstTiles
<1> QED  BY <1>1, StreamInvariant, PTL

(* One request ends the stream and gives its reservation back, once.       *)
THEOREM EndsOnce == StreamSpec => []OneEnding
<1>1. StreamInv => OneEnding
  <2> SUFFICES ASSUME StreamInv  PROVE OneEnding
    OBVIOUS
  <2> DEFINE E == {c \in Caller : call[c].at \in Ending}
  <2>1. present => E = {}
    BY DEF StreamInv, TakenAlone
  <2>2. Cardinality({}) = 0
    BY FS_EmptySet
  <2>3. Cardinality(E) \in {0, 1}
    <3>1. CASE E = {}
      BY <3>1, <2>2
    <3>2. CASE E # {}
      <4>1. PICK c : E = {c}
        BY <3>2 DEF StreamInv, TakenAlone
      <4> QED  BY <4>1, FS_Singleton
    <3> QED  BY <3>1, <3>2
  <2>4. Cardinality(E) + (IF present THEN 1 ELSE 0) <= 1
    <3>1. CASE present
      BY <2>1, <2>2, <3>1
    <3>2. CASE ~present
      BY <2>3, <3>2
    <3> QED  BY <3>1, <3>2
  <2> QED  BY <2>4 DEF StreamInv, TakenAlone, FinishedOnce, OneEnding, Ending
<1> QED  BY <1>1, StreamInvariant, PTL

------------------------------------------------------------------------------
(* Divisors.                                                               *)

(* b is a multiple of a.                                                   *)
Divides(a, b) == \E k \in Int : b = a * k

(* Just the divisors of g divide both m and n.                             *)
IsGcd(g, m, n) ==
  g \in Nat /\ \A h \in Nat : Divides(h, m) /\ Divides(h, n) <=> Divides(h, g)

(* The least of the numbers in a set.                                      *)
LEMMA LeastOf ==
  ASSUME NEW S \in SUBSET Nat, S # {}
  PROVE  \E n \in S : \A m \in S : n <= m
<1>1. PICK n \in S : \A m \in S : <<m, n>> \notin OpToRel(<, Nat)
  BY WFMin, NatLessThanWellFounded, Zenon
<1>2. \A m \in S : ~(m < n)
  <2> TAKE m \in S
  <2>1. n \in Nat /\ m \in Nat /\ <<m, n>>[1] = m /\ <<m, n>>[2] = n /\ <<m, n>> \in Nat \X Nat
    OBVIOUS
  <2> QED  BY <1>1, <2>1, Zenon DEF OpToRel
<1> QED  BY <1>2

(* A divisor of two numbers divides their sum and difference.              *)
LEMMA DividesSum ==
  ASSUME NEW a \in Int, NEW b \in Int, NEW c \in Int, Divides(a, b), Divides(a, c)
  PROVE  Divides(a, b + c) /\ Divides(a, b - c)
<1>1. PICK k \in Int : b = a * k
  BY DEF Divides
<1>2. PICK l \in Int : c = a * l
  BY DEF Divides
<1>3. b + c = a * (k + l) /\ b - c = a * (k - l) /\ k + l \in Int /\ k - l \in Int
  BY <1>1, <1>2
<1> QED  BY <1>3 DEF Divides

(* A divisor of a number divides its multiples.                            *)
LEMMA DividesMultiple ==
  ASSUME NEW a \in Int, NEW b \in Int, NEW c \in Int, Divides(a, b)
  PROVE  Divides(a, b * c)
<1>1. PICK k \in Int : b = a * k
  BY DEF Divides
<1>2. b * c = a * (k * c) /\ k * c \in Int
  BY <1>1
<1> QED  BY <1>2 DEF Divides

(* A number divides itself and zero.                                       *)
LEMMA DividesSelf ==
  ASSUME NEW a \in Int
  PROVE  Divides(a, a) /\ Divides(a, 0)
<1>1. a = a * 1 /\ 0 = a * 0
  OBVIOUS
<1> QED  BY <1>1 DEF Divides

(* Two naturals that divide each other are the same.                       *)
LEMMA DividesEach ==
  ASSUME NEW a \in Nat, NEW b \in Nat, Divides(a, b), Divides(b, a)
  PROVE  a = b
<1>1. PICK k \in Int : b = a * k
  BY DEF Divides
<1>2. PICK l \in Int : a = b * l
  BY DEF Divides
<1>3. CASE a = 0 \/ b = 0
  BY <1>1, <1>2, <1>3
<1>4. CASE a # 0 /\ b # 0
  <2>1. k > 0 /\ l > 0
    BY <1>1, <1>2, <1>4
  <2>2. b >= a /\ a >= b
    BY <2>1, <1>1, <1>2
  <2> QED  BY <2>2
<1> QED  BY <1>3, <1>4

(* Division with remainder.                                                *)
LEMMA Remainder ==
  ASSUME NEW m \in Nat, NEW n \in Nat, n # 0
  PROVE  /\ m % n \in Nat /\ m % n < n /\ m \div n \in Nat
         /\ m = n * (m \div n) + (m % n)
OBVIOUS

(* Two numbers have one greatest common divisor at most,                   *)
LEMMA GcdUnique ==
  ASSUME NEW m \in Nat, NEW n \in Nat, NEW g, NEW h, IsGcd(g, m, n), IsGcd(h, m, n)
  PROVE  g = h
<1>1. g \in Nat /\ h \in Nat
  BY DEF IsGcd
<1>2. Divides(g, h) /\ Divides(h, g)
  BY <1>1, DividesSelf DEF IsGcd
<1> QED  BY <1>1, <1>2, DividesEach

(* which a step of the algorithm keeps,                                    *)
LEMMA GcdStep ==
  ASSUME NEW m \in Nat, NEW n \in Nat, n # 0, NEW g
  PROVE  IsGcd(g, n, m % n) <=> IsGcd(g, m, n)
<1> DEFINE r == m % n
           q == m \div n
<1>1. r \in Nat /\ q \in Nat /\ m = n * q + r
  BY Remainder
<1> HIDE DEF r, q
<1>2. ASSUME NEW h \in Nat
      PROVE  Divides(h, n) /\ Divides(h, r) <=> Divides(h, m) /\ Divides(h, n)
  <2>1. Divides(h, n) => Divides(h, n * q)
    <3>1. h \in Int /\ n \in Int /\ q \in Int
      BY <1>1
    <3> QED  BY <3>1, DividesMultiple
  <2>2. Divides(h, n) /\ Divides(h, r) => Divides(h, m)
    BY <2>1, <1>1, DividesSum
  <2>3. n * q \in Int /\ m - n * q = r
    BY <1>1
  <2>4. Divides(h, n) /\ Divides(h, m) => Divides(h, r)
    BY <2>1, <2>3, DividesSum
  <2> QED  BY <2>2, <2>4
<1>3. IsGcd(g, n, r) <=> IsGcd(g, m, n)
  BY <1>2, Zenon DEF IsGcd
<1> QED  BY <1>3 DEF r

(* and which is the first when the second is zero;                         *)
LEMMA GcdZero ==
  ASSUME NEW m \in Nat
  PROVE  IsGcd(m, m, 0)
BY DividesSelf DEF IsGcd

(* so they have one.                                                       *)
LEMMA GcdExists ==
  ASSUME NEW m \in Nat, NEW n \in Nat
  PROVE  \E g : IsGcd(g, m, n)
<1> DEFINE Without == {k \in Nat : \E a \in Nat : ~\E g : IsGcd(g, a, k)}
<1>1. SUFFICES Without = {}
  OBVIOUS
<1>2. SUFFICES ASSUME Without # {}  PROVE FALSE
  OBVIOUS
<1>3. PICK k \in Without : \A l \in Without : k <= l
  BY <1>2, LeastOf
<1>4. PICK a \in Nat : ~\E g : IsGcd(g, a, k)
  BY <1>3
<1>5. k # 0
  BY <1>4, GcdZero
<1>6. a % k \in Nat /\ a % k < k
  BY <1>3, <1>5, Remainder
<1>7. a % k \notin Without
  BY <1>3, <1>6
<1>8. PICK g : IsGcd(g, k, a % k)
  BY <1>3, <1>6, <1>7
<1>9. IsGcd(g, a, k)
  BY <1>3, <1>5, <1>8, GcdStep
<1> QED  BY <1>4, <1>9

(* The recursive function takes the steps it is defined by.                *)
LEMMA GcdRecursion ==
  ASSUME NEW m \in Nat, NEW n \in Nat
  PROVE  Gcd[<<m, n>>] = IF n = 0 THEN m ELSE Gcd[<<n, m % n>>]
<1> DEFINE G == [p \in Nat \X Nat |-> CHOOSE g : IsGcd(g, p[1], p[2])]
           Step(f) == [p \in Nat \X Nat |-> IF p[2] = 0 THEN p[1] ELSE f[<<p[2], p[1] % p[2]>>]]
<1>1. ASSUME NEW p \in Nat \X Nat
      PROVE  G[p] = IF p[2] = 0 THEN p[1] ELSE G[<<p[2], p[1] % p[2]>>]
  <2> DEFINE a == p[1]
             b == p[2]
             after == <<b, a % b>>
  <2>1. a \in Nat /\ b \in Nat
    OBVIOUS
  <2>2. IsGcd(G[p], a, b)
    BY <2>1, GcdExists
  <2>3. CASE b = 0
    BY <2>1, <2>2, <2>3, GcdZero, GcdUnique
  <2>4. CASE b # 0
    <3>1. a % b \in Nat
      BY <2>1, <2>4, Remainder
    <3>2. after \in Nat \X Nat /\ after[1] = b /\ after[2] = a % b
      BY <2>1, <3>1
    <3>3. \E g : IsGcd(g, b, a % b)
      BY <2>1, <3>1, GcdExists
    <3>4. G[after] = CHOOSE g : IsGcd(g, b, a % b)
      BY <3>2
    <3>5. IsGcd(G[after], b, a % b)
      BY <3>3, <3>4
    <3>6. IsGcd(G[after], a, b)
      BY <2>1, <2>4, <3>5, GcdStep
    <3>7. G[p] = G[after]
      BY <2>1, <2>2, <3>6, GcdUnique
    <3> QED  BY <2>4, <3>7
  <2> QED  BY <2>3, <2>4
<1>2. G = Step(G)
  BY <1>1
<1>3. Gcd = CHOOSE f : f = Step(f)
  BY DEF Gcd
<1> HIDE DEF G
<1>4. Gcd = Step(Gcd)
  BY <1>2, <1>3
<1>5. <<m, n>> \in Nat \X Nat /\ <<m, n>>[1] = m /\ <<m, n>>[2] = n
  OBVIOUS
<1> QED  BY <1>4, <1>5

(* Euclid's algorithm, as fmpq_canonicalise uses it: the recursive function *)
(* Gcd is the greatest common divisor, by which every exact operation of   *)
(* the planner reduces its result.                                         *)
THEOREM GcdIsGreatest ==
  ASSUME NEW m \in Nat, NEW n \in Nat
  PROVE  IsGcd(Gcd[<<m, n>>], m, n)
<1> DEFINE Wrong == {k \in Nat : \E a \in Nat : ~IsGcd(Gcd[<<a, k>>], a, k)}
<1>1. SUFFICES ASSUME Wrong # {}  PROVE FALSE
  OBVIOUS
<1>2. PICK k \in Wrong : \A l \in Wrong : k <= l
  BY <1>1, LeastOf
<1>3. PICK a \in Nat : ~IsGcd(Gcd[<<a, k>>], a, k)
  BY <1>2
<1>4. k # 0
  BY <1>3, GcdZero, GcdRecursion
<1>5. a % k \in Nat /\ a % k < k
  BY <1>2, <1>4, Remainder
<1>6. a % k \notin Wrong
  <2>1. k \in Nat
    BY <1>2
  <2>2. \A l \in Nat : l < k => ~(k <= l)
    BY <2>1
  <2> QED  BY <1>2, <1>5, <2>2
<1>7. IsGcd(Gcd[<<k, a % k>>], k, a % k)
  BY <1>2, <1>5, <1>6
<1>8. IsGcd(Gcd[<<k, a % k>>], a, k)
  BY <1>2, <1>4, <1>7, GcdStep
<1>9. Gcd[<<a, k>>] = Gcd[<<k, a % k>>]
  BY <1>2, <1>4, GcdRecursion
<1> QED  BY <1>3, <1>8, <1>9

(* Gcd is a natural number.                                                *)
LEMMA GcdNat ==
  ASSUME NEW m \in Nat, NEW n \in Nat
  PROVE  Gcd[<<m, n>>] \in Nat
BY GcdIsGreatest DEF IsGcd

(* Gcd in terms of the divisors of its arguments.                          *)
LEMMA GcdDivides ==
  ASSUME NEW m \in Nat, NEW n \in Nat
  PROVE  /\ Divides(Gcd[<<m, n>>], m) /\ Divides(Gcd[<<m, n>>], n)
         /\ \A h \in Nat : Divides(h, m) /\ Divides(h, n) => Divides(h, Gcd[<<m, n>>])
<1>1. IsGcd(Gcd[<<m, n>>], m, n)
  BY GcdIsGreatest
<1>2. Gcd[<<m, n>>] \in Nat
  BY GcdNat
<1>3. Divides(Gcd[<<m, n>>], Gcd[<<m, n>>])
  BY <1>2, DividesSelf
<1> QED  BY <1>1, <1>2, <1>3 DEF IsGcd

(* A divisor of a product that shares nothing with the first factor.       *)
LEMMA EuclidsLemma ==
  ASSUME NEW n \in Nat, NEW d \in Nat \ {0}, NEW q \in Int,
         Gcd[<<n, d>>] = 1, Divides(d, n * q)
  PROVE  Divides(d, q)
<1> DEFINE T == {m \in Nat : m # 0 /\ Divides(d, m * q)}
<1>1. d \in T
  <2>1. Divides(d, d * q)
    BY DividesSelf, DividesMultiple
  <2> QED  BY <2>1
<1>2. PICK m \in T : \A l \in T : m <= l
  BY <1>1, LeastOf
<1>3. m \in Nat /\ m # 0 /\ Divides(d, m * q)
  BY <1>2
<1>4. ASSUME NEW k \in Nat, Divides(d, k * q)
      PROVE  Divides(m, k)
  <2> DEFINE r == k % m
             c == k \div m
  <2>1. r \in Nat /\ r < m /\ c \in Nat /\ k = m * c + r
    BY <1>3, Remainder
  <2> HIDE DEF r, c
  <2>2. Divides(d, (m * q) * c)
    BY <1>3, <2>1, DividesMultiple, d \in Int, m * q \in Int, c \in Int
  <2>3. r * q = k * q - (m * q) * c
    BY <1>3, <2>1
  <2>4. Divides(d, r * q)
    BY <1>3, <1>4, <2>1, <2>2, <2>3, DividesSum, k * q \in Int, (m * q) * c \in Int
  <2>5. r \notin T
    BY <1>2, <2>1
  <2>6. r = 0
    BY <2>1, <2>4, <2>5
  <2>7. k = m * c /\ c \in Int
    BY <2>1, <2>6, <1>3
  <2> QED  BY <2>7 DEF Divides
<1>5. Divides(m, n) /\ Divides(m, d)
  <2>1. Divides(d, d * q)
    BY DividesSelf, DividesMultiple
  <2> QED  BY <1>4, <2>1
<1>6. Divides(m, 1)
  BY <1>3, <1>5, GcdDivides
<1>7. m = 1
  <2>1. PICK k \in Int : 1 = m * k
    BY <1>6 DEF Divides
  <2>2. k > 0
    BY <1>3, <2>1
  <2>3. m <= 1
    BY <1>3, <2>1, <2>2
  <2> QED  BY <1>3, <2>3
<1>8. m * q = q
  BY <1>7
<1> QED  BY <1>3, <1>8

(* The parts of a rational.                                                *)
LEMMA RationalType ==
  ASSUME NEW a \in Rational
  PROVE  /\ a[1] \in Int /\ a[2] \in Nat /\ a[2] > 0 /\ a = <<a[1], a[2]>>
         /\ Size(a[1]) \in Nat /\ Gcd[<<Size(a[1]), a[2]>>] = 1
BY DEF Rational, Size

(* Signs do not matter to divisors.                                        *)
LEMMA DividesSigned ==
  ASSUME NEW n \in Int, NEW d \in Int
  PROVE  Divides(d, n) <=> Divides(d, Size(n))
<1>1. ASSUME NEW k \in Int, n = d * k  PROVE -n = d * (-k) /\ -k \in Int
  BY <1>1
<1>2. ASSUME NEW k \in Int, -n = d * k  PROVE n = d * (-k) /\ -k \in Int
  BY <1>2
<1>3. Divides(d, n) <=> Divides(d, -n)
  BY <1>1, <1>2 DEF Divides
<1> QED  BY <1>3 DEF Size

(* Equal fractions in lowest terms are the same pair.                      *)
LEMMA SameFraction ==
  ASSUME NEW a \in Rational, NEW b \in Rational, a[1] * b[2] = b[1] * a[2]
  PROVE  a = b
<1> DEFINE n == a[1]
           d == a[2]
           p == b[1]
           q == b[2]
<1>1. /\ n \in Int /\ d \in Nat /\ d > 0 /\ a = <<n, d>> /\ Size(n) \in Nat /\ Gcd[<<Size(n), d>>] = 1
      /\ p \in Int /\ q \in Nat /\ q > 0 /\ b = <<p, q>> /\ Size(p) \in Nat /\ Gcd[<<Size(p), q>>] = 1
  BY RationalType
<1>2. n * q = p * d
  OBVIOUS
<1> HIDE DEF n, d, p, q
<1>3. Divides(d, Size(n) * q)
  <2>1. CASE n < 0
    <3>1. Size(n) * q = d * (-p) /\ -p \in Int
      BY <1>1, <1>2, <2>1 DEF Size
    <3> QED  BY <3>1 DEF Divides
  <2>2. CASE ~(n < 0)
    <3>1. Size(n) * q = d * p
      BY <1>1, <1>2, <2>2 DEF Size
    <3> QED  BY <1>1, <3>1 DEF Divides
  <2> QED  BY <2>1, <2>2
<1>4. Divides(q, Size(p) * d)
  <2>1. CASE p < 0
    <3>1. Size(p) * d = q * (-n) /\ -n \in Int
      BY <1>1, <1>2, <2>1 DEF Size
    <3> QED  BY <3>1 DEF Divides
  <2>2. CASE ~(p < 0)
    <3>1. Size(p) * d = q * n
      BY <1>1, <1>2, <2>2 DEF Size
    <3> QED  BY <1>1, <3>1 DEF Divides
  <2> QED  BY <2>1, <2>2
<1>5. Divides(d, q) /\ Divides(q, d)
  BY <1>1, <1>3, <1>4, EuclidsLemma
<1>6. d = q
  BY <1>1, <1>5, DividesEach
<1>7. n = p
  BY <1>1, <1>2, <1>6
<1> QED  BY <1>1, <1>6, <1>7

(* A product is divided without remainder.                                 *)
LEMMA ExactQuotient ==
  ASSUME NEW g \in Nat \ {0}, NEW k \in Int
  PROVE  (g * k) \div g = k
OBVIOUS

(* The quotients by the greatest divisor share nothing.                    *)
LEMMA LowestTerms ==
  ASSUME NEW n \in Int, NEW d \in Nat \ {0}
  PROVE  LET g == Gcd[<<Size(n), d>>] IN
         /\ g \in Nat \ {0} /\ n = g * (n \div g) /\ d = g * (d \div g)
         /\ <<n \div g, d \div g>> \in Rational
<1> DEFINE g == Gcd[<<Size(n), d>>]
<1>1. Size(n) \in Nat
  BY DEF Size
<1>2. g \in Nat /\ Divides(g, Size(n)) /\ Divides(g, d)
  BY <1>1, GcdNat, GcdDivides
<1>3. \A h \in Nat : Divides(h, Size(n)) /\ Divides(h, d) => Divides(h, g)
  BY <1>1, GcdDivides
<1> HIDE DEF g
<1>4. PICK e \in Int : d = g * e
  BY <1>2 DEF Divides
<1>5. Divides(g, n)
  BY <1>2, DividesSigned
<1>6. PICK m \in Int : n = g * m
  BY <1>5 DEF Divides
<1>7. g # 0 /\ e > 0
  BY <1>2, <1>4
<1>8. n \div g = m /\ d \div g = e
  BY <1>2, <1>4, <1>6, <1>7, ExactQuotient
<1>9. Size(m) \in Nat /\ e \in Nat
  BY <1>7 DEF Size
<1> DEFINE h == Gcd[<<Size(m), e>>]
<1>10. h \in Nat /\ Divides(h, Size(m)) /\ Divides(h, e)
  BY <1>9, GcdNat, GcdDivides
<1> HIDE DEF h
<1>11. Divides(h, m)
  BY <1>10, DividesSigned
<1>12. PICK x \in Int : m = h * x
  BY <1>11 DEF Divides
<1>13. PICK y \in Int : e = h * y
  BY <1>10 DEF Divides
<1>14. n = (g * h) * x /\ d = (g * h) * y /\ g * h \in Nat
  BY <1>2, <1>4, <1>6, <1>10, <1>12, <1>13
<1>15. Divides(g * h, n) /\ Divides(g * h, d)
  BY <1>14 DEF Divides
<1>16. Divides(g * h, g)
  BY <1>3, <1>14, <1>15, DividesSigned
<1>17. PICK z \in Int : g = (g * h) * z
  BY <1>16 DEF Divides
<1>18. g * (h * z) = g * 1
  BY <1>2, <1>10, <1>17
<1>19. h * z = 1
  BY <1>2, <1>7, <1>10, <1>18
<1>20. h = 1
  <2>1. z > 0
    BY <1>10, <1>19
  <2> QED  BY <2>1, <1>10, <1>19
<1>21. <<m, e>> \in Rational
  BY <1>7, <1>20 DEF Rational, h
<1> QED  BY <1>2, <1>4, <1>6, <1>7, <1>8, <1>21 DEF g

------------------------------------------------------------------------------
(* Rationals.  One is worth n / d when it is that fraction; over a common  *)
(* denominator every operation is one on integers.                         *)

(* q is worth n / d.                                                       *)
Worth(q, n, d) ==
  /\ q \in Rational /\ n \in Int /\ d \in Nat \ {0}
  /\ q[1] * d = n * q[2]

(* A factor may be cancelled.                                              *)
LEMMA Cancel ==
  ASSUME NEW a \in Int, NEW b \in Int, NEW c \in Int, c # 0, a * c = b * c
  PROVE  a = b
OBVIOUS

(* A product of positive numbers is positive,                              *)
LEMMA PositiveProduct ==
  ASSUME NEW a \in Nat \ {0}, NEW b \in Nat \ {0}
  PROVE  a * b \in Nat \ {0}
OBVIOUS

(* and a positive factor keeps the order.                                  *)
LEMMA KeepsOrder ==
  ASSUME NEW a \in Int, NEW b \in Int, NEW c \in Nat \ {0}
  PROVE  a * c < b * c <=> a < b
OBVIOUS

(* Rat reduces n / d without a change of its worth.                        *)
LEMMA RatWorth ==
  ASSUME NEW n \in Int, NEW d \in Int, d # 0
  PROVE  /\ Rat(n, d) \in Rational
         /\ Rat(n, d)[1] * d = n * Rat(n, d)[2]
<1> DEFINE g == Gcd[<<Size(n), Size(d)>>]
<1>1. CASE d > 0
  <2>1. Size(d) = d /\ d \in Nat \ {0}
    BY <1>1 DEF Size
  <2>2. Rat(n, d) = <<n \div g, d \div g>>
    BY <1>1 DEF Rat
  <2>3. g \in Nat \ {0} /\ n = g * (n \div g) /\ d = g * (d \div g) /\ <<n \div g, d \div g>> \in Rational
    BY <2>1, LowestTerms
  <2> HIDE DEF g
  <2> DEFINE p == n \div g
             q == d \div g
  <2>4. p \in Int /\ q \in Int /\ n = g * p /\ d = g * q /\ Rat(n, d) = <<p, q>> /\ <<p, q>> \in Rational
    BY <2>2, <2>3
  <2> HIDE DEF p, q
  <2>5. p * d = n * q
    BY <2>3, <2>4
  <2> QED  BY <2>4, <2>5
<1>2. CASE ~(d > 0)
  <2>1. Size(d) = -d /\ -d \in Nat \ {0} /\ Size(n) = Size(-n)
    BY <1>2 DEF Size
  <2>2. Rat(n, d) = <<(-n) \div g, (-d) \div g>>
    BY <1>2 DEF Rat
  <2>3. g \in Nat \ {0} /\ -n = g * ((-n) \div g) /\ -d = g * ((-d) \div g)
        /\ <<(-n) \div g, (-d) \div g>> \in Rational
    BY <2>1, LowestTerms, -n \in Int
  <2> HIDE DEF g
  <2> DEFINE p == (-n) \div g
             q == (-d) \div g
  <2>4. p \in Int /\ q \in Int /\ -n = g * p /\ -d = g * q /\ Rat(n, d) = <<p, q>> /\ <<p, q>> \in Rational
    BY <2>2, <2>3
  <2> HIDE DEF p, q
  <2>5. n = -(g * p) /\ d = -(g * q)
    BY <2>4, <2>3
  <2>6. p * d = n * q
    BY <2>3, <2>4, <2>5
  <2> QED  BY <2>4, <2>6
<1> QED  BY <1>1, <1>2

(* A rational is worth itself,                                             *)
LEMMA WorthSelf ==
  ASSUME NEW a \in Rational
  PROVE  Worth(a, a[1], a[2])
<1>1. a[1] \in Int /\ a[2] \in Nat /\ a[2] > 0
  BY RationalType
<1> QED  BY <1>1 DEF Worth

(* over any multiple of its denominator,                                   *)
LEMMA WorthScaled ==
  ASSUME NEW a, NEW m, NEW d, Worth(a, m, d), NEW k \in Nat \ {0}
  PROVE  Worth(a, m * k, d * k)
<1>1. a \in Rational /\ m \in Int /\ d \in Nat \ {0} /\ a[1] * d = m * a[2] /\ a[1] \in Int /\ a[2] \in Nat
  BY RationalType DEF Worth
<1>2. d * k \in Nat \ {0}
  BY <1>1, PositiveProduct
<1>3. a[1] * (d * k) = (m * k) * a[2]
  <2>1. a[1] * (d * k) = (a[1] * d) * k /\ (m * k) * a[2] = (m * a[2]) * k
    BY <1>1
  <2> QED  BY <1>1, <2>1
<1> QED  BY <1>1, <1>2, <1>3 DEF Worth

(* and whatever is left when a common factor is cancelled.                 *)
LEMMA WorthReduced ==
  ASSUME NEW a, NEW m \in Int, NEW d \in Nat \ {0}, NEW k \in Nat \ {0}, Worth(a, m * k, d * k)
  PROVE  Worth(a, m, d)
<1>1. a \in Rational /\ a[1] * (d * k) = (m * k) * a[2] /\ a[1] \in Int /\ a[2] \in Nat
  BY RationalType DEF Worth
<1>2. (a[1] * d) * k = (m * a[2]) * k
  BY <1>1
<1>3. a[1] * d = m * a[2]
  BY <1>1, <1>2, Cancel, a[1] * d \in Int, m * a[2] \in Int
<1> QED  BY <1>1, <1>3 DEF Worth

(* The operations are exact: a negation,                                   *)
LEMMA WorthNegate ==
  ASSUME NEW a, NEW m, NEW d, Worth(a, m, d)
  PROVE  Worth(Negate(a), -m, d)
<1>1. a \in Rational /\ m \in Int /\ d \in Nat \ {0} /\ a[1] * d = m * a[2] /\ a[1] \in Int
      /\ a[2] \in Nat /\ a[2] > 0 /\ Gcd[<<Size(a[1]), a[2]>>] = 1
  BY RationalType DEF Worth
<1>2. Size(-a[1]) = Size(a[1])
  BY <1>1 DEF Size
<1>3. Negate(a) = <<-a[1], a[2]>> /\ Negate(a)[1] = -a[1] /\ Negate(a)[2] = a[2]
  BY DEF Negate
<1>4. Negate(a) \in Rational
  BY <1>1, <1>2, <1>3 DEF Rational
<1>5. (-a[1]) * d = (-m) * a[2]
  BY <1>1
<1> QED  BY <1>1, <1>3, <1>4, <1>5 DEF Worth

(* a sum,                                                                  *)
LEMMA WorthPlus ==
  ASSUME NEW a, NEW m, NEW d, NEW b, NEW n, Worth(a, m, d), Worth(b, n, d)
  PROVE  Worth(Plus(a, b), m + n, d)
<1> DEFINE N == a[1] * b[2] + b[1] * a[2]
           D == a[2] * b[2]
           s == Rat(N, D)
<1>1. /\ a \in Rational /\ m \in Int /\ d \in Nat \ {0} /\ a[1] * d = m * a[2] /\ a[1] \in Int /\ a[2] \in Nat /\ a[2] > 0
      /\ b \in Rational /\ n \in Int /\ b[1] * d = n * b[2] /\ b[1] \in Int /\ b[2] \in Nat /\ b[2] > 0
  BY RationalType DEF Worth
<1>2. N \in Int /\ D \in Nat \ {0}
  BY <1>1, PositiveProduct
<1>3. s \in Rational /\ s[1] * D = N * s[2]
  BY <1>2, RatWorth
<1>4. s[1] \in Int /\ s[2] \in Nat
  BY <1>3, RationalType
<1>5. N * d = (m + n) * D
  <2>1. N * d = (a[1] * d) * b[2] + (b[1] * d) * a[2]
    BY <1>1
  <2>2. N * d = (m * a[2]) * b[2] + (n * b[2]) * a[2]
    BY <1>1, <2>1
  <2> QED  BY <1>1, <2>2
<1>6. Plus(a, b) = s
  BY DEF Plus
<1> HIDE DEF N, D, s
<1>7. (s[1] * d) * D = ((m + n) * s[2]) * D
  <2>1. (s[1] * d) * D = (s[1] * D) * d
    BY <1>1, <1>2, <1>4
  <2>2. (s[1] * D) * d = (N * d) * s[2]
    BY <1>1, <1>2, <1>3, <1>4
  <2>3. (N * d) * s[2] = ((m + n) * D) * s[2]
    BY <1>5
  <2> QED  BY <1>1, <1>2, <1>4, <2>1, <2>2, <2>3
<1>8. s[1] * d = (m + n) * s[2]
  <2> DEFINE x == s[1] * d
             y == (m + n) * s[2]
  <2>1. x \in Int /\ y \in Int /\ x * D = y * D
    BY <1>1, <1>4, <1>7
  <2> HIDE DEF x, y
  <2>2. x = y
    BY <2>1, <1>2, Cancel
  <2> QED  BY <2>2 DEF x, y
<1> QED  BY <1>1, <1>3, <1>6, <1>8 DEF Worth

(* a difference,                                                           *)
LEMMA WorthMinus ==
  ASSUME NEW a, NEW m, NEW d, NEW b, NEW n, Worth(a, m, d), Worth(b, n, d)
  PROVE  Worth(Minus(a, b), m - n, d)
<1>1. Worth(Negate(b), -n, d)
  BY WorthNegate
<1>2. Worth(Minus(a, b), m + (-n), d)
  BY <1>1, WorthPlus DEF Minus
<1> QED  BY <1>2 DEF Worth

(* a product,                                                              *)
LEMMA WorthTimes ==
  ASSUME NEW a, NEW m, NEW d, NEW b, NEW n, NEW e, Worth(a, m, d), Worth(b, n, e)
  PROVE  Worth(Times(a, b), m * n, d * e)
<1> DEFINE N == a[1] * b[1]
           D == a[2] * b[2]
           s == Rat(N, D)
<1>1. /\ a \in Rational /\ m \in Int /\ d \in Nat \ {0} /\ a[1] * d = m * a[2] /\ a[1] \in Int /\ a[2] \in Nat /\ a[2] > 0
      /\ b \in Rational /\ n \in Int /\ e \in Nat \ {0} /\ b[1] * e = n * b[2] /\ b[1] \in Int /\ b[2] \in Nat /\ b[2] > 0
  BY RationalType DEF Worth
<1>2. N \in Int /\ D \in Nat \ {0}
  BY <1>1, PositiveProduct
<1>3. s \in Rational /\ s[1] * D = N * s[2]
  BY <1>2, RatWorth
<1>4. s[1] \in Int /\ s[2] \in Nat
  BY <1>3, RationalType
<1>5. N * (d * e) = (m * n) * D
  <2>1. N * (d * e) = (a[1] * d) * (b[1] * e)
    BY <1>1
  <2>2. N * (d * e) = (m * a[2]) * (n * b[2])
    BY <1>1, <2>1
  <2> QED  BY <1>1, <2>2
<1>6. Times(a, b) = s
  BY DEF Times
<1>7. d * e \in Nat \ {0} /\ m * n \in Int
  BY <1>1, PositiveProduct
<1> DEFINE f == d * e
           k == m * n
<1>8. N * f = k * D /\ f \in Nat \ {0} /\ k \in Int
  BY <1>5, <1>7
<1> HIDE DEF N, D, s, f, k
<1>9. (s[1] * f) * D = (k * s[2]) * D
  <2>1. (s[1] * f) * D = (s[1] * D) * f
    BY <1>8, <1>2, <1>4
  <2>2. (s[1] * D) * f = (N * f) * s[2]
    BY <1>8, <1>2, <1>3, <1>4
  <2>3. (N * f) * s[2] = (k * D) * s[2]
    BY <1>8
  <2> QED  BY <1>8, <1>2, <1>4, <2>1, <2>2, <2>3
<1>10. s[1] * f = k * s[2]
  <2> DEFINE x == s[1] * f
             y == k * s[2]
  <2>1. x \in Int /\ y \in Int /\ x * D = y * D
    BY <1>8, <1>4, <1>9
  <2> HIDE DEF x, y
  <2>2. x = y
    BY <2>1, <1>2, Cancel
  <2> QED  BY <2>2 DEF x, y
<1> QED  BY <1>3, <1>6, <1>8, <1>10 DEF Worth, f, k

(* a quotient,                                                             *)
LEMMA WorthOver ==
  ASSUME NEW a, NEW m, NEW d, NEW b, NEW n, NEW e, Worth(a, m, d), Worth(b, n, e), n # 0
  PROVE  /\ Over(a, b) \in Rational
         /\ n > 0 => Worth(Over(a, b), m * e, d * n)
         /\ n < 0 => Worth(Over(a, b), -(m * e), d * (-n))
<1> DEFINE N == a[1] * b[2]
           D == a[2] * b[1]
           s == Rat(N, D)
<1>1. /\ a \in Rational /\ m \in Int /\ d \in Nat \ {0} /\ a[1] * d = m * a[2] /\ a[1] \in Int /\ a[2] \in Nat /\ a[2] > 0
      /\ b \in Rational /\ n \in Int /\ e \in Nat \ {0} /\ b[1] * e = n * b[2] /\ b[1] \in Int /\ b[2] \in Nat /\ b[2] > 0
  BY RationalType DEF Worth
<1>2. b[1] # 0
  BY <1>1
<1>3. N \in Int /\ D \in Int /\ D # 0
  BY <1>1, <1>2
<1>4. s \in Rational /\ s[1] * D = N * s[2]
  BY <1>3, RatWorth
<1>5. s[1] \in Int /\ s[2] \in Nat
  BY <1>4, RationalType
<1>6. N * (d * n) = (m * e) * D
  <2>1. N * (d * n) = (a[1] * d) * (n * b[2])
    BY <1>1
  <2>2. N * (d * n) = (m * a[2]) * (b[1] * e)
    BY <1>1, <2>1
  <2> QED  BY <1>1, <2>2
<1>7. Over(a, b) = s
  BY DEF Over
<1> DEFINE f == d * n
           k == m * e
<1>8. N * f = k * D /\ f \in Int /\ k \in Int
  BY <1>1, <1>6
<1> HIDE DEF N, D, s, f, k
<1>9. (s[1] * f) * D = (k * s[2]) * D
  <2>1. (s[1] * f) * D = (s[1] * D) * f
    BY <1>8, <1>3, <1>5
  <2>2. (s[1] * D) * f = (N * f) * s[2]
    BY <1>8, <1>3, <1>4, <1>5
  <2>3. (N * f) * s[2] = (k * D) * s[2]
    BY <1>8
  <2> QED  BY <1>8, <1>3, <1>5, <2>1, <2>2, <2>3
<1>10. s[1] * f = k * s[2]
  <2> DEFINE x == s[1] * f
             y == k * s[2]
  <2>1. x \in Int /\ y \in Int /\ x * D = y * D
    BY <1>8, <1>5, <1>9
  <2> HIDE DEF x, y
  <2>2. x = y
    BY <2>1, <1>3, Cancel
  <2> QED  BY <2>2 DEF x, y
<1>11. n > 0 => Worth(s, k, f)
  <2>1. n > 0 => f \in Nat \ {0}
    BY <1>1, PositiveProduct DEF f
  <2> QED  BY <2>1, <1>4, <1>8, <1>10 DEF Worth
<1>12. n < 0 => Worth(s, -k, d * (-n))
  <2>1. n < 0 => d * (-n) \in Nat \ {0}
    BY <1>1, PositiveProduct
  <2>2. d * (-n) = -f
    BY <1>1 DEF f
  <2>3. s[1] * (-f) = -(s[1] * f) /\ (-k) * s[2] = -(k * s[2])
    BY <1>5, <1>8
  <2>4. s[1] * (-f) = (-k) * s[2]
    BY <2>3, <1>10
  <2> QED  BY <2>1, <2>2, <2>4, <1>4, <1>8 DEF Worth
<1> QED  BY <1>4, <1>7, <1>11, <1>12 DEF f, k

(* an absolute value,                                                      *)
LEMMA WorthAbsolute ==
  ASSUME NEW a, NEW m, NEW d, Worth(a, m, d)
  PROVE  Worth(Absolute(a), Size(m), d)
<1>1. a \in Rational /\ m \in Int /\ d \in Nat \ {0} /\ a[1] * d = m * a[2] /\ a[1] \in Int
      /\ a[2] \in Nat /\ a[2] > 0 /\ Gcd[<<Size(a[1]), a[2]>>] = 1
  BY RationalType DEF Worth
<1>2. Size(Size(a[1])) = Size(a[1]) /\ Size(a[1]) \in Int /\ Size(m) \in Int
  BY <1>1 DEF Size
<1>3. Absolute(a) = <<Size(a[1]), a[2]>> /\ Absolute(a)[1] = Size(a[1]) /\ Absolute(a)[2] = a[2]
  BY DEF Absolute
<1>4. Absolute(a) \in Rational
  BY <1>1, <1>2, <1>3 DEF Rational
<1>5. a[1] < 0 <=> m < 0
  BY <1>1
<1>6. Size(a[1]) * d = Size(m) * a[2]
  BY <1>1, <1>5 DEF Size
<1> QED  BY <1>1, <1>2, <1>3, <1>4, <1>6 DEF Worth

(* and the order, over one denominator,                                    *)
LEMMA WorthOrder ==
  ASSUME NEW a, NEW m, NEW d, NEW b, NEW n, Worth(a, m, d), Worth(b, n, d)
  PROVE  /\ Less(a, b) <=> m < n
         /\ AtMost(a, b) <=> m <= n
         /\ a = b <=> m = n
<1>1. /\ a \in Rational /\ m \in Int /\ d \in Nat \ {0} /\ a[1] * d = m * a[2] /\ a[1] \in Int /\ a[2] \in Nat /\ a[2] > 0
      /\ b \in Rational /\ n \in Int /\ b[1] * d = n * b[2] /\ b[1] \in Int /\ b[2] \in Nat /\ b[2] > 0
  BY RationalType DEF Worth
<1> DEFINE D == a[2] * b[2]
           u == a[1] * b[2]
           v == b[1] * a[2]
<1>2. D \in Nat \ {0} /\ u \in Int /\ v \in Int
  BY <1>1, PositiveProduct
<1>3. u * d = m * D
  <2>1. u * d = (a[1] * d) * b[2]
    BY <1>1
  <2> QED  BY <1>1, <2>1
<1>4. v * d = n * D
  <2>1. v * d = (b[1] * d) * a[2]
    BY <1>1
  <2>2. v * d = (n * b[2]) * a[2]
    BY <1>1, <2>1
  <2> QED  BY <1>1, <2>2
<1>5. Less(a, b) <=> u < v
  BY DEF Less
<1>6. AtMost(a, b) <=> ~(v < u)
  BY DEF AtMost, Less
<1>7. u = v => a = b
  BY SameFraction, <1>1
<1>8. a = b => u = v
  OBVIOUS
<1> HIDE DEF D, u, v
<1>9. (u < v <=> m < n) /\ (v < u <=> n < m)
  BY <1>1, <1>2, <1>3, <1>4, KeepsOrder
<1>10. u = v <=> m = n
  BY <1>1, <1>2, <1>9
<1> QED  BY <1>1, <1>5, <1>6, <1>7, <1>8, <1>9, <1>10

(* The parts of a worth.                                                   *)
LEMMA WorthType ==
  ASSUME NEW a, NEW m, NEW d, Worth(a, m, d)
  PROVE  a \in Rational /\ m \in Int /\ d \in Nat \ {0}
BY DEF Worth

(* The sign of a rational is that of any worth of it.                      *)
LEMMA WorthSign ==
  ASSUME NEW a, NEW m, NEW d, Worth(a, m, d)
  PROVE  /\ a[1] > 0 <=> m > 0
         /\ a[1] < 0 <=> m < 0
<1>1. /\ a \in Rational /\ m \in Int /\ d \in Nat \ {0} /\ a[1] * d = m * a[2] /\ a[1] \in Int /\ a[2] \in Nat /\ a[2] > 0
  BY RationalType DEF Worth
<1>2. m > 0 => m * a[2] > 0
  BY <1>1
<1>3. m < 0 => m * a[2] < 0
  BY <1>1
<1>4. m = 0 => m * a[2] = 0
  BY <1>1
<1>5. a[1] > 0 => a[1] * d > 0
  BY <1>1
<1>6. a[1] < 0 => a[1] * d < 0
  BY <1>1
<1>7. a[1] = 0 => a[1] * d = 0
  BY <1>1
<1> QED  BY <1>1, <1>2, <1>3, <1>4, <1>5, <1>6, <1>7

(* Every fraction over one denominator more.                               *)
LEMMA Join ==
  ASSUME NEW d \in Nat \ {0}, NEW b \in Rational
  PROVE  \E k \in Nat \ {0}, n \in Int : Worth(b, n, d * k)
<1>1. b[1] \in Int /\ b[2] \in Nat /\ b[2] > 0
  BY RationalType
<1>2. Worth(b, b[1] * d, b[2] * d)
  BY WorthSelf, WorthScaled
<1>3. b[2] * d = d * b[2] /\ b[1] * d \in Int
  BY <1>1
<1>4. Worth(b, b[1] * d, d * b[2])
  BY <1>2, <1>3
<1>5. b[2] \in Nat \ {0}
  BY <1>1
<1> QED  BY <1>3, <1>4, <1>5

(* Two rationals have a common denominator,                                *)
LEMMA Common2 ==
  ASSUME NEW a \in Rational, NEW b \in Rational
  PROVE  \E d \in Nat \ {0}, k, l \in Int : Worth(a, k, d) /\ Worth(b, l, d)
<1>1. Worth(a, a[1], a[2]) /\ a[2] \in Nat \ {0}
  BY WorthSelf, WorthType
<1>2. PICK e \in Nat \ {0}, l \in Int : Worth(b, l, a[2] * e)
  BY <1>1, Join
<1>3. Worth(a, a[1] * e, a[2] * e)
  BY <1>1, <1>2, WorthScaled
<1>4. a[2] * e \in Nat \ {0} /\ a[1] * e \in Int
  BY <1>3, WorthType
<1> QED  BY <1>2, <1>3, <1>4

(* three have,                                                             *)
LEMMA Common3 ==
  ASSUME NEW a \in Rational, NEW b \in Rational, NEW c \in Rational
  PROVE  \E d \in Nat \ {0}, k, l, m \in Int : Worth(a, k, d) /\ Worth(b, l, d) /\ Worth(c, m, d)
<1>1. PICK d \in Nat \ {0}, k, l \in Int : Worth(a, k, d) /\ Worth(b, l, d)
  BY Common2
<1>2. PICK e \in Nat \ {0}, m \in Int : Worth(c, m, d * e)
  BY Join
<1>3. Worth(a, k * e, d * e) /\ Worth(b, l * e, d * e)
  BY <1>1, WorthScaled
<1>4. d * e \in Nat \ {0} /\ k * e \in Int /\ l * e \in Int
  BY <1>3, WorthType
<1> QED  BY <1>2, <1>3, <1>4

(* and four.                                                               *)
LEMMA Common4 ==
  ASSUME NEW a \in Rational, NEW b \in Rational, NEW c \in Rational, NEW f \in Rational
  PROVE  \E d \in Nat \ {0}, k, l, m, n \in Int :
           Worth(a, k, d) /\ Worth(b, l, d) /\ Worth(c, m, d) /\ Worth(f, n, d)
<1>1. PICK d \in Nat \ {0}, k, l, m \in Int : Worth(a, k, d) /\ Worth(b, l, d) /\ Worth(c, m, d)
  BY Common3
<1>2. PICK e \in Nat \ {0}, n \in Int : Worth(f, n, d * e)
  BY Join
<1>3. Worth(a, k * e, d * e) /\ Worth(b, l * e, d * e) /\ Worth(c, m * e, d * e)
  BY <1>1, WorthScaled
<1>4. d * e \in Nat \ {0} /\ k * e \in Int /\ l * e \in Int /\ m * e \in Int
  BY <1>3, WorthType
<1> QED  BY <1>2, <1>3, <1>4

(* The rationals are closed under sums and differences,                    *)
LEMMA SumsAreRational ==
  ASSUME NEW a \in Rational, NEW b \in Rational
  PROVE  Plus(a, b) \in Rational /\ Minus(a, b) \in Rational
<1>1. PICK d \in Nat \ {0}, k, l \in Int : Worth(a, k, d) /\ Worth(b, l, d)
  BY Common2
<1>2. Worth(Plus(a, b), k + l, d)
  BY <1>1, WorthPlus
<1>3. Worth(Minus(a, b), k - l, d)
  BY <1>1, WorthMinus
<1> QED  BY <1>2, <1>3, WorthType

(* products and quotients,                                                 *)
LEMMA ProductsAreRational ==
  ASSUME NEW a \in Rational, NEW b \in Rational
  PROVE  Times(a, b) \in Rational /\ (b[1] # 0 => Over(a, b) \in Rational)
<1>1. Worth(a, a[1], a[2]) /\ Worth(b, b[1], b[2])
  BY WorthSelf
<1>2. Worth(Times(a, b), a[1] * b[1], a[2] * b[2])
  BY <1>1, WorthTimes
<1>3. b[1] # 0 => Over(a, b) \in Rational
  BY <1>1, WorthOver
<1> QED  BY <1>2, <1>3, WorthType

(* negation, absolute values and bounds.                                   *)
LEMMA SidesAreRational ==
  ASSUME NEW a \in Rational, NEW b \in Rational
  PROVE  /\ Negate(a) \in Rational /\ Absolute(a) \in Rational /\ Negate(Negate(a)) = a
         /\ Lesser(a, b) \in Rational /\ Greater(a, b) \in Rational
<1>1. Worth(a, a[1], a[2])
  BY WorthSelf
<1>2. Worth(Negate(a), -a[1], a[2]) /\ Worth(Absolute(a), Size(a[1]), a[2])
  BY <1>1, WorthNegate, WorthAbsolute
<1>3. Worth(Negate(Negate(a)), -(-a[1]), a[2])
  BY <1>2, WorthNegate
<1>4. -(-a[1]) = a[1]
  <2>1. a[1] \in Int
    BY RationalType
  <2> QED  BY <2>1
<1>5. Negate(Negate(a)) = a
  BY <1>1, <1>3, <1>4, WorthOrder
<1> QED  BY <1>2, <1>5, WorthType DEF Lesser, Greater

(* Only one divides one.                                                   *)
LEMMA GcdOfOne ==
  ASSUME NEW g \in Nat, Divides(g, 1)
  PROVE  g = 1
<1>1. PICK k \in Int : 1 = g * k
  BY DEF Divides
<1>2. k > 0
  BY <1>1
<1> QED  BY <1>1, <1>2

(* The rationals the planner names.                                        *)
LEMMA Numbers ==
  /\ Worth(<<0, 1>>, 0, 1) /\ Worth(<<2, 1>>, 2, 1) /\ Worth(<<9, 10>>, 9, 10)
  /\ \A k \in Nat \ {0} : Worth(<<1, k>>, 1, k)
<1>1. ASSUME NEW n \in Nat, NEW d \in Nat \ {0}, Divides(Gcd[<<n, d>>], 1)
      PROVE  Worth(<<n, d>>, n, d)
  <2>1. Gcd[<<n, d>>] = 1
    BY <1>1, GcdNat, GcdOfOne
  <2>2. Size(n) = n
    BY DEF Size
  <2>3. <<n, d>> \in Rational
    BY <2>1, <2>2 DEF Rational
  <2> QED  BY <2>3 DEF Worth
<1>2. Divides(Gcd[<<0, 1>>], 1) /\ Divides(Gcd[<<2, 1>>], 1)
  BY GcdDivides
<1>3. Divides(Gcd[<<9, 10>>], 10 - 9)
  <2>1. Gcd[<<9, 10>>] \in Int /\ Divides(Gcd[<<9, 10>>], 9) /\ Divides(Gcd[<<9, 10>>], 10)
    BY GcdNat, GcdDivides
  <2> QED  BY <2>1, DividesSum
<1>4. \A k \in Nat \ {0} : Divides(Gcd[<<1, k>>], 1)
  BY GcdDivides
<1>5. 10 - 9 = 1
  OBVIOUS
<1>6. \A k \in Nat \ {0} : Worth(<<1, k>>, 1, k)
  BY <1>1, <1>4
<1>7. Worth(<<0, 1>>, 0, 1) /\ Worth(<<2, 1>>, 2, 1)
  BY <1>1, <1>2
<1>8. Worth(<<9, 10>>, 9, 10)
  BY <1>1, <1>3, <1>5
<1> QED  BY <1>6, <1>7, <1>8

(* The order, over two denominators.                                       *)
LEMMA WorthCross ==
  ASSUME NEW a, NEW m, NEW d, NEW b, NEW n, NEW e, Worth(a, m, d), Worth(b, n, e)
  PROVE  /\ Less(a, b) <=> m * e < n * d
         /\ AtMost(a, b) <=> m * e <= n * d
         /\ a = b <=> m * e = n * d
<1>1. d \in Nat \ {0} /\ e \in Nat \ {0}
  BY WorthType
<1>2. Worth(a, m * e, d * e) /\ Worth(b, n * d, e * d)
  BY <1>1, WorthScaled
<1>3. e * d = d * e
  BY <1>1
<1>4. Worth(b, n * d, d * e)
  BY <1>2, <1>3
<1> QED  BY <1>2, <1>4, WorthOrder

(* A positive factor keeps the order.                                      *)
LEMMA TimesOrder ==
  ASSUME NEW a \in Rational, NEW b \in Rational, NEW c \in Rational, c[1] > 0
  PROVE  /\ Less(Times(c, a), Times(c, b)) <=> Less(a, b)
         /\ AtMost(Times(c, a), Times(c, b)) <=> AtMost(a, b)
<1>1. PICK d \in Nat \ {0}, k, l \in Int : Worth(a, k, d) /\ Worth(b, l, d)
  BY Common2
<1>2. Worth(c, c[1], c[2]) /\ c[1] \in Int
  BY WorthSelf, RationalType
<1>3. Worth(Times(c, a), c[1] * k, c[2] * d) /\ Worth(Times(c, b), c[1] * l, c[2] * d)
  BY <1>1, <1>2, WorthTimes
<1>4. /\ Less(a, b) <=> k < l
      /\ AtMost(a, b) <=> k <= l
  BY <1>1, WorthOrder
<1>5. /\ Less(Times(c, a), Times(c, b)) <=> c[1] * k < c[1] * l
      /\ AtMost(Times(c, a), Times(c, b)) <=> c[1] * k <= c[1] * l
  BY <1>3, WorthOrder
<1>6. (c[1] * k < c[1] * l <=> k < l) /\ (c[1] * l < c[1] * k <=> l < k)
  BY <1>2
<1>7. c[1] * k \in Int /\ c[1] * l \in Int
  BY <1>2
<1> QED  BY <1>4, <1>5, <1>6, <1>7

(* A product of positive rationals is positive.                            *)
LEMMA TimesPositive ==
  ASSUME NEW a \in Rational, NEW b \in Rational, a[1] > 0, b[1] > 0
  PROVE  Times(a, b)[1] > 0
<1>1. Worth(Times(a, b), a[1] * b[1], a[2] * b[2])
  BY WorthSelf, WorthTimes
<1>2. a[1] \in Int /\ b[1] \in Int
  BY RationalType
<1>3. a[1] * b[1] > 0
  BY <1>2
<1> QED  BY <1>1, <1>3, WorthSign

(* The size of a quotient, and its sign.                                   *)
LEMMA QuotientSize ==
  ASSUME NEW a \in Rational, NEW s \in Rational, NEW h \in Rational, s[1] # 0
  PROVE  /\ AtMost(Absolute(Over(a, s)), h) <=> AtMost(Absolute(a), Times(Absolute(s), h))
         /\ Less(Absolute(Over(a, s)), h) <=> Less(Absolute(a), Times(Absolute(s), h))
<1> DEFINE m == a[1]
           d == a[2]
           p == s[1]
           e == s[2]
           u == h[1]
           v == h[2]
<1>1. Worth(a, m, d) /\ Worth(s, p, e) /\ Worth(h, u, v)
  BY WorthSelf
<1>2. m \in Int /\ d \in Nat \ {0} /\ p \in Int /\ e \in Nat \ {0} /\ u \in Int /\ v \in Nat \ {0} /\ p # 0
  BY <1>1, WorthType
<1> HIDE DEF m, d, p, e, u, v
<1>3. Size(m) \in Int /\ Size(p) \in Nat \ {0}
  BY <1>2 DEF Size
<1>4. Worth(Absolute(a), Size(m), d) /\ Worth(Absolute(s), Size(p), e)
  BY <1>1, WorthAbsolute
<1>5. Worth(Times(Absolute(s), h), Size(p) * u, e * v)
  BY <1>1, <1>4, WorthTimes
<1>6. Worth(Absolute(Over(a, s)), Size(m) * e, d * Size(p))
  <2>1. CASE p > 0
    <3>1. Worth(Over(a, s), m * e, d * p)
      BY <1>1, <2>1, WorthOver
    <3>2. Worth(Absolute(Over(a, s)), Size(m * e), d * p)
      BY <3>1, WorthAbsolute
    <3>3. Size(m * e) = Size(m) * e
      <4>1. m < 0 <=> m * e < 0
        BY <1>2
      <4>2. -(m * e) = (-m) * e
        BY <1>2
      <4> QED  BY <4>1, <4>2 DEF Size
    <3>4. Size(p) = p
      BY <1>2, <2>1 DEF Size
    <3> QED  BY <3>2, <3>3, <3>4
  <2>2. CASE p < 0
    <3>1. Worth(Over(a, s), -(m * e), d * (-p))
      BY <1>1, <2>2, WorthOver
    <3>2. Worth(Absolute(Over(a, s)), Size(-(m * e)), d * (-p))
      BY <3>1, WorthAbsolute
    <3>3. Size(-(m * e)) = Size(m) * e
      <4>1. (m < 0 <=> m * e < 0) /\ m * e \in Int /\ (m = 0 <=> m * e = 0)
        BY <1>2
      <4>2. -(m * e) = (-m) * e
        BY <1>2
      <4>3. Size(-(m * e)) = Size(m * e)
        BY <4>1 DEF Size
      <4> QED  BY <4>1, <4>2, <4>3 DEF Size
    <3>4. Size(p) = -p
      BY <1>2, <2>2 DEF Size
    <3> QED  BY <3>2, <3>3, <3>4
  <2> QED  BY <1>2, <2>1, <2>2
<1>7. /\ Less(Absolute(Over(a, s)), h) <=> (Size(m) * e) * v < u * (d * Size(p))
      /\ AtMost(Absolute(Over(a, s)), h) <=> (Size(m) * e) * v <= u * (d * Size(p))
  BY <1>1, <1>6, WorthCross
<1>8. /\ Less(Absolute(a), Times(Absolute(s), h)) <=> Size(m) * (e * v) < (Size(p) * u) * d
      /\ AtMost(Absolute(a), Times(Absolute(s), h)) <=> Size(m) * (e * v) <= (Size(p) * u) * d
  BY <1>4, <1>5, WorthCross
<1>9. Size(m) * (e * v) = (Size(m) * e) * v /\ (Size(p) * u) * d = u * (d * Size(p))
  BY <1>2, <1>3
<1> QED  BY <1>7, <1>8, <1>9

(* The sign of a quotient.                                                 *)
LEMMA QuotientSign ==
  ASSUME NEW a \in Rational, NEW s \in Rational, s[1] # 0
  PROVE  /\ Over(a, s) \in Rational
         /\ Over(a, s)[1] > 0 <=> (a[1] > 0 /\ s[1] > 0) \/ (a[1] < 0 /\ s[1] < 0)
         /\ Over(a, s)[1] < 0 <=> (a[1] > 0 /\ s[1] < 0) \/ (a[1] < 0 /\ s[1] > 0)
<1>1. Worth(a, a[1], a[2]) /\ Worth(s, s[1], s[2])
  BY WorthSelf
<1>2. a[1] \in Int /\ s[1] \in Int /\ s[2] \in Nat /\ s[2] > 0
  BY RationalType
<1>3. (a[1] * s[2] > 0 <=> a[1] > 0) /\ (a[1] * s[2] < 0 <=> a[1] < 0) /\ a[1] * s[2] \in Int
  BY <1>2
<1>4. CASE s[1] > 0
  <2>1. Worth(Over(a, s), a[1] * s[2], a[2] * s[1])
    BY <1>1, <1>4, WorthOver
  <2> QED  BY <1>2, <1>3, <1>4, <2>1, WorthSign, WorthType
<1>5. CASE s[1] < 0
  <2>1. Worth(Over(a, s), -(a[1] * s[2]), a[2] * (-s[1]))
    BY <1>1, <1>5, WorthOver
  <2>2. Over(a, s)[1] > 0 <=> a[1] * s[2] < 0
    BY <1>3, <2>1, WorthSign
  <2>3. Over(a, s)[1] < 0 <=> a[1] * s[2] > 0
    BY <1>3, <2>1, WorthSign
  <2> QED  BY <1>2, <1>3, <1>5, <2>1, <2>2, <2>3, WorthType
<1> QED  BY <1>2, <1>4, <1>5

------------------------------------------------------------------------------
(* Along an arm.                                                           *)

(* The lesser and the greater of two rationals.                            *)
LEMMA WorthLesser ==
  ASSUME NEW a, NEW m, NEW d, NEW b, NEW n, Worth(a, m, d), Worth(b, n, d)
  PROVE  /\ Worth(Lesser(a, b), IF m < n THEN m ELSE n, d)
         /\ Worth(Greater(a, b), IF n < m THEN m ELSE n, d)
BY WorthOrder DEF Lesser, Greater

(* The lesser is the one it should be.                                     *)
LEMMA LesserIs ==
  ASSUME NEW a \in Rational, NEW b \in Rational, AtMost(a, b)
  PROVE  Lesser(a, b) = a
<1>1. PICK d \in Nat \ {0}, k, l \in Int : Worth(a, k, d) /\ Worth(b, l, d)
  BY Common2
<1> QED  BY <1>1, WorthOrder DEF Lesser

(* A positive factor may be drawn into the lesser of two.                  *)
LEMMA TimesLesser ==
  ASSUME NEW a \in Rational, NEW b \in Rational, NEW c \in Rational, c[1] > 0
  PROVE  Times(c, Lesser(a, b)) = Lesser(Times(c, a), Times(c, b))
BY TimesOrder DEF Lesser

(* An arm goes up or down.                                                 *)
LEMMA SignType ==
  ASSUME NEW arm
  PROVE  Sign(arm) \in {1, -1}
BY DEF Sign

(* The coordinate of a point along an arm                                  *)
LEMMA AlongWorth ==
  ASSUME NEW arm, NEW x, NEW m, NEW d, Worth(x, m, d)
  PROVE  Worth(Along(arm, x), IF Sign(arm) < 0 THEN -m ELSE m, d)
BY WorthNegate DEF Along

(* is rational, and gives back the point,                                  *)
LEMMA AlongRational ==
  ASSUME NEW arm, NEW x \in Rational
  PROVE  Along(arm, x) \in Rational /\ Along(arm, Along(arm, x)) = x
BY SidesAreRational DEF Along

(* and keeps distances.                                                    *)
LEMMA AlongDistance ==
  ASSUME NEW arm, NEW x \in Rational, NEW c \in Rational
  PROVE  Absolute(Minus(Along(arm, x), Along(arm, c))) = Absolute(Minus(x, c))
<1>1. PICK d \in Nat \ {0}, m, n \in Int : Worth(x, m, d) /\ Worth(c, n, d)
  BY Common2
<1>2. Worth(Absolute(Minus(x, c)), Size(m - n), d)
  BY <1>1, WorthMinus, WorthAbsolute
<1>3. CASE Sign(arm) < 0
  <2>1. Worth(Along(arm, x), -m, d) /\ Worth(Along(arm, c), -n, d)
    BY <1>1, <1>3, AlongWorth
  <2>2. Worth(Absolute(Minus(Along(arm, x), Along(arm, c))), Size((-m) - (-n)), d)
    BY <2>1, WorthMinus, WorthAbsolute
  <2>3. Size((-m) - (-n)) = Size(m - n)
    BY DEF Size
  <2> QED  BY <1>2, <2>2, <2>3, WorthOrder
<1>4. CASE ~(Sign(arm) < 0)
  BY <1>4 DEF Along
<1> QED  BY <1>3, <1>4

(***************************************************************************)
(* A usable chart, its division, half its radius and its radius, measured  *)
(* along the arm.                                                          *)
(***************************************************************************)
Usable(chart) == chart \in Chart /\ chart.scale[1] # 0 /\ chart.radius[1] > 0
(* An arm that has a division point in every chart.                        *)
Divided(arm)  == arm \in Arm /\ arm.order >= 2

(* One k-th of the scale of a chart, and its true radius, along the arm.   *)
Step(arm, chart) == Times(Absolute(chart.scale), <<1, arm.order>>)
Disk(chart)      == Times(Absolute(chart.scale), chart.radius)

(* The parts of a usable chart.                                            *)
LEMMA ChartType ==
  ASSUME NEW chart, Usable(chart)
  PROVE  /\ chart.center \in Rational /\ chart.scale \in Rational /\ chart.radius \in Rational
         /\ chart.singular \in BOOLEAN /\ chart.scale[1] # 0 /\ chart.radius[1] > 0
         /\ Absolute(chart.scale) \in Rational /\ Absolute(chart.scale)[1] > 0
<1>1. /\ chart.center \in Rational /\ chart.scale \in Rational /\ chart.radius \in Rational
      /\ chart.singular \in BOOLEAN /\ chart.scale[1] # 0 /\ chart.radius[1] > 0
  BY DEF Usable, Chart
<1>2. Absolute(chart.scale) \in Rational
  BY <1>1, SidesAreRational
<1>3. Absolute(chart.scale)[1] = Size(chart.scale[1])
  BY DEF Absolute
<1>4. chart.scale[1] \in Int
  BY <1>1, RationalType
<1>5. Size(chart.scale[1]) > 0
  BY <1>1, <1>4 DEF Size
<1> QED  BY <1>1, <1>2, <1>3, <1>5

(* Limits in the coordinate of a chart,                                    *)
LEMMA LocalLimits ==
  ASSUME NEW arm, Divided(arm), NEW chart, Usable(chart)
  PROVE  /\ HalfRadius(chart) \in Rational /\ HalfRadius(chart)[1] > 0
         /\ Less(HalfRadius(chart), chart.radius)
         /\ <<1, arm.order>> \in Rational /\ <<1, arm.order>>[1] > 0
         /\ Limit(arm, chart) \in Rational /\ Limit(arm, chart)[1] > 0
         /\ AtMost(Limit(arm, chart), HalfRadius(chart))
<1> DEFINE r == chart.radius
<1>1. r \in Rational /\ r[1] > 0
  BY ChartType
<1>2. Worth(r, r[1], r[2]) /\ r[1] \in Int /\ r[2] \in Nat \ {0}
  BY <1>1, WorthSelf, WorthType
<1>3. Worth(<<2, 1>>, 2, 1)
  BY Numbers
<1>4. Worth(HalfRadius(chart), r[1] * 1, r[2] * 2)
  BY <1>2, <1>3, WorthOver DEF HalfRadius
<1>5. HalfRadius(chart) \in Rational /\ HalfRadius(chart)[1] > 0
  BY <1>1, <1>2, <1>4, WorthType, WorthSign
<1>6. Less(HalfRadius(chart), r) <=> (r[1] * 1) * r[2] < r[1] * (r[2] * 2)
  BY <1>2, <1>4, WorthCross
<1>7. (r[1] * 1) * r[2] < r[1] * (r[2] * 2)
  <2> DEFINE p == r[1] * r[2]
  <2>1. p \in Nat \ {0}
    BY <1>1, <1>2, PositiveProduct
  <2>2. (r[1] * 1) * r[2] = p /\ r[1] * (r[2] * 2) = p * 2
    BY <1>2
  <2> QED  BY <2>1, <2>2
<1>8. arm.order \in Nat \ {0}
  BY DEF Divided, Arm
<1>9. Worth(<<1, arm.order>>, 1, arm.order)
  BY <1>8, Numbers
<1>10. <<1, arm.order>> \in Rational /\ <<1, arm.order>>[1] > 0
  BY <1>9, WorthType
<1>11. Limit(arm, chart) = Lesser(<<1, arm.order>>, HalfRadius(chart))
  BY DEF Limit
<1>12. PICK d \in Nat \ {0}, m, n \in Int : Worth(<<1, arm.order>>, m, d) /\ Worth(HalfRadius(chart), n, d)
  BY <1>5, <1>10, Common2
<1>13. Worth(Limit(arm, chart), IF m < n THEN m ELSE n, d)
  BY <1>11, <1>12, WorthLesser
<1>14. AtMost(Limit(arm, chart), HalfRadius(chart))
  BY <1>12, <1>13, WorthOrder
<1>15. Limit(arm, chart)[1] > 0
  BY <1>5, <1>10, <1>11 DEF Lesser
<1> QED  BY <1>5, <1>6, <1>7, <1>10, <1>13, <1>14, <1>15, WorthType

(* and the same along the arm.                                             *)
LEMMA ReachLimits ==
  ASSUME NEW arm, Divided(arm), NEW chart, Usable(chart)
  PROVE  /\ Step(arm, chart) \in Rational /\ Step(arm, chart)[1] > 0
         /\ Half(chart) \in Rational /\ Half(chart)[1] > 0
         /\ Disk(chart) \in Rational /\ Less(Half(chart), Disk(chart))
         /\ Reach(arm, chart) \in Rational /\ Reach(arm, chart)[1] > 0
         /\ AtMost(Reach(arm, chart), Half(chart))
         /\ Safe(arm, chart) = Reach(arm, chart)
         /\ Reach(arm, chart) = Lesser(Step(arm, chart), Half(chart))
<1> DEFINE s == Absolute(chart.scale)
<1>1. s \in Rational /\ s[1] > 0 /\ chart.radius \in Rational
  BY ChartType
<1>2. /\ HalfRadius(chart) \in Rational /\ HalfRadius(chart)[1] > 0
      /\ Less(HalfRadius(chart), chart.radius)
      /\ <<1, arm.order>> \in Rational /\ <<1, arm.order>>[1] > 0
      /\ Limit(arm, chart) \in Rational /\ Limit(arm, chart)[1] > 0
      /\ AtMost(Limit(arm, chart), HalfRadius(chart))
  BY LocalLimits
<1> HIDE DEF s
<1>3. Step(arm, chart) = Times(s, <<1, arm.order>>) /\ Half(chart) = Times(s, HalfRadius(chart))
      /\ Disk(chart) = Times(s, chart.radius) /\ Reach(arm, chart) = Times(s, Limit(arm, chart))
      /\ Safe(arm, chart) = Times(s, Limit(arm, chart))
  BY DEF Step, Half, Disk, Reach, Safe, Limit, s
<1>4. Step(arm, chart) \in Rational /\ Step(arm, chart)[1] > 0
  BY <1>1, <1>2, <1>3, ProductsAreRational, TimesPositive
<1>5. Half(chart) \in Rational /\ Half(chart)[1] > 0
  BY <1>1, <1>2, <1>3, ProductsAreRational, TimesPositive
<1>6. Reach(arm, chart) \in Rational /\ Reach(arm, chart)[1] > 0
  BY <1>1, <1>2, <1>3, ProductsAreRational, TimesPositive
<1>7. Disk(chart) \in Rational
  BY <1>1, <1>3, ProductsAreRational
<1>8. Less(Half(chart), Disk(chart)) /\ AtMost(Reach(arm, chart), Half(chart))
  BY <1>1, <1>2, <1>3, TimesOrder
<1>9. Reach(arm, chart) = Lesser(Step(arm, chart), Half(chart))
  BY <1>1, <1>2, <1>3, TimesLesser DEF Limit
<1> QED  BY <1>3, <1>4, <1>5, <1>6, <1>7, <1>8, <1>9

(* How far along the arm a point is from a chart.                          *)
Away(arm, chart, x) == Absolute(Minus(Along(arm, x), Along(arm, chart.center)))

(* How far a point is from a chart: in its coordinate, and along the arm.  *)
LEMMA LocalReach ==
  ASSUME NEW arm, Divided(arm), NEW chart, Usable(chart), NEW x \in Rational
  PROVE  /\ AtMost(Absolute(Local(chart, x)), HalfRadius(chart)) <=> AtMost(Away(arm, chart, x), Half(chart))
         /\ AtMost(Absolute(Local(chart, x)), Limit(arm, chart)) <=> AtMost(Away(arm, chart, x), Reach(arm, chart))
         /\ InDisk(chart, x) <=> Less(Away(arm, chart, x), Disk(chart))
<1> DEFINE v == Minus(x, chart.center)
<1>1. chart.center \in Rational /\ chart.scale \in Rational /\ chart.radius \in Rational /\ chart.scale[1] # 0
  BY ChartType
<1>2. v \in Rational /\ Local(chart, x) = Over(v, chart.scale)
  BY <1>1, SumsAreRational DEF Local
<1>3. Away(arm, chart, x) = Absolute(v)
  BY <1>1, AlongDistance DEF Away
<1> HIDE DEF v
<1>4. \A h \in Rational :
        /\ AtMost(Absolute(Local(chart, x)), h) <=> AtMost(Away(arm, chart, x), Times(Absolute(chart.scale), h))
        /\ Less(Absolute(Local(chart, x)), h) <=> Less(Away(arm, chart, x), Times(Absolute(chart.scale), h))
  BY <1>1, <1>2, <1>3, QuotientSize
<1>5. HalfRadius(chart) \in Rational /\ Limit(arm, chart) \in Rational
  BY LocalLimits
<1> QED  BY <1>1, <1>4, <1>5 DEF Half, Reach, Disk, InDisk

(* On which side of a chart a point is.                                    *)
LEMMA LocalSide ==
  ASSUME NEW arm, NEW left, Usable(left), NEW right, Usable(right), NEW x \in Rational,
         (left.scale[1] > 0) <=> (right.scale[1] > 0),
         Less(Along(arm, left.center), Along(arm, x)), Less(Along(arm, x), Along(arm, right.center))
  PROVE  Local(left, x)[1] * Local(right, x)[1] < 0
<1> DEFINE u == Minus(x, left.center)
           v == Minus(x, right.center)
<1>1. /\ left.center \in Rational /\ left.scale \in Rational /\ left.scale[1] # 0
      /\ right.center \in Rational /\ right.scale \in Rational /\ right.scale[1] # 0
  BY ChartType
<1>2. PICK d \in Nat \ {0}, k, l, m \in Int :
        Worth(left.center, k, d) /\ Worth(right.center, l, d) /\ Worth(x, m, d)
  BY <1>1, Common3
<1>3. Worth(u, m - k, d) /\ Worth(v, m - l, d)
  BY <1>2, WorthMinus
<1>4. (k < m /\ m < l) \/ (l < m /\ m < k)
  <2>1. CASE Sign(arm) < 0
    <3>1. Worth(Along(arm, left.center), -k, d) /\ Worth(Along(arm, right.center), -l, d) /\ Worth(Along(arm, x), -m, d)
      BY <1>2, <2>1, AlongWorth
    <3>2. -k < -m /\ -m < -l
      BY <3>1, WorthOrder
    <3> QED  BY <3>2
  <2>2. CASE ~(Sign(arm) < 0)
    <3>1. Worth(Along(arm, left.center), k, d) /\ Worth(Along(arm, right.center), l, d) /\ Worth(Along(arm, x), m, d)
      BY <1>2, <2>2, AlongWorth
    <3> QED  BY <3>1, WorthOrder
  <2> QED  BY <2>1, <2>2
<1>5. u \in Rational /\ v \in Rational /\ (u[1] > 0 <=> m - k > 0) /\ (u[1] < 0 <=> m - k < 0)
      /\ (v[1] > 0 <=> m - l > 0) /\ (v[1] < 0 <=> m - l < 0)
  BY <1>3, WorthSign, WorthType
<1>6. Local(left, x) = Over(u, left.scale) /\ Local(right, x) = Over(v, right.scale)
  BY DEF Local
<1> HIDE DEF u, v
<1>7. left.scale[1] \in Int /\ right.scale[1] \in Int /\ Local(left, x) \in Rational /\ Local(right, x) \in Rational
  BY <1>1, <1>5, <1>6, RationalType, QuotientSign
<1>8. /\ Local(left, x)[1] > 0 <=> (u[1] > 0 /\ left.scale[1] > 0) \/ (u[1] < 0 /\ left.scale[1] < 0)
      /\ Local(left, x)[1] < 0 <=> (u[1] > 0 /\ left.scale[1] < 0) \/ (u[1] < 0 /\ left.scale[1] > 0)
  BY <1>1, <1>5, <1>6, QuotientSign
<1>9. /\ Local(right, x)[1] > 0 <=> (v[1] > 0 /\ right.scale[1] > 0) \/ (v[1] < 0 /\ right.scale[1] < 0)
      /\ Local(right, x)[1] < 0 <=> (v[1] > 0 /\ right.scale[1] < 0) \/ (v[1] < 0 /\ right.scale[1] > 0)
  BY <1>1, <1>5, <1>6, QuotientSign
<1> DEFINE p == Local(left, x)[1]
           q == Local(right, x)[1]
<1>10. p \in Int /\ q \in Int
  BY <1>7, RationalType
<1>11. (p > 0 /\ q < 0) \/ (p < 0 /\ q > 0)
  BY <1>1, <1>2, <1>4, <1>5, <1>7, <1>8, <1>9
<1> HIDE DEF p, q
<1>12. p * q < 0
  BY <1>10, <1>11
<1> QED  BY <1>12 DEF p, q

(* A division point lies one step from the center.                         *)
LEMMA DivisionPoint ==
  ASSUME NEW arm, Divided(arm), NEW chart, Usable(chart)
  PROVE  /\ Division(arm, chart, 1) \in Rational /\ Division(arm, chart, -1) \in Rational
         /\ Along(arm, Division(arm, chart, 1)) = Plus(Along(arm, chart.center), Step(arm, chart))
         /\ Along(arm, Division(arm, chart, -1)) = Minus(Along(arm, chart.center), Step(arm, chart))
<1> DEFINE p == Size(chart.scale[1])
           e == chart.scale[2]
           k == arm.order
           c == chart.center
           f(t) == Rat(t * Sign(arm) * p, k * e)
<1>1. c \in Rational /\ chart.scale \in Rational
  BY ChartType
<1>2. p \in Nat /\ e \in Nat \ {0} /\ k \in Nat \ {0}
  <2>1. chart.scale[1] \in Int /\ chart.scale[2] \in Nat /\ chart.scale[2] > 0
    BY <1>1, RationalType
  <2> QED  BY <2>1 DEF Divided, Arm, Size
<1>3. k * e \in Nat \ {0}
  BY <1>2, PositiveProduct
<1>4. ASSUME NEW z \in Int  PROVE Worth(Rat(z, k * e), z, k * e)
  BY <1>3, RatWorth DEF Worth
<1>5. Worth(Step(arm, chart), p, k * e)
  <2>1. Worth(Absolute(chart.scale), p, e)
    BY <1>1, WorthSelf, WorthAbsolute
  <2>2. Worth(<<1, k>>, 1, k)
    BY <1>2, Numbers
  <2>3. Worth(Step(arm, chart), p * 1, e * k)
    BY <2>1, <2>2, WorthTimes DEF Step
  <2>4. p * 1 = p /\ e * k = k * e
    BY <1>2
  <2> QED  BY <2>3, <2>4
<1>6. \A t \in {1, -1} : Division(arm, chart, t) = Plus(c, f(t))
  BY DEF Division
<1>7. ASSUME NEW t \in {1, -1}
      PROVE  /\ Worth(f(t), IF Sign(arm) < 0 THEN -(t * p) ELSE t * p, k * e)
  <2>1. CASE Sign(arm) < 0
    <3>1. Sign(arm) = -1
      BY <2>1, SignType
    <3>2. t * Sign(arm) * p = -(t * p) /\ t * p \in Int
      BY <3>1, <1>2
    <3> QED  BY <2>1, <3>2, <1>4
  <2>2. CASE ~(Sign(arm) < 0)
    <3>1. Sign(arm) = 1
      BY <2>2, SignType
    <3>2. t * Sign(arm) * p = t * p /\ t * p \in Int
      BY <3>1, <1>2
    <3> QED  BY <2>2, <3>2, <1>4
  <2> QED  BY <2>1, <2>2
<1> HIDE DEF p, e, k, c, f
<1>8. PICK j \in Nat \ {0}, m \in Int : Worth(c, m, (k * e) * j)
  BY <1>1, <1>3, Join
<1>9. Worth(Step(arm, chart), p * j, (k * e) * j)
  BY <1>5, WorthScaled
<1>10. ASSUME NEW t \in {1, -1}
       PROVE  /\ Division(arm, chart, t) \in Rational
              /\ Worth(Along(arm, Division(arm, chart, t)), (IF Sign(arm) < 0 THEN -m ELSE m) + t * (p * j), (k * e) * j)
  <2>1. CASE Sign(arm) < 0
    <3>1. Worth(f(t), (-(t * p)) * j, (k * e) * j)
      BY <2>1, <1>7, WorthScaled
    <3>2. Worth(Plus(c, f(t)), m + ((-(t * p)) * j), (k * e) * j)
      BY <1>8, <3>1, WorthPlus
    <3>3. Worth(Along(arm, Plus(c, f(t))), -(m + ((-(t * p)) * j)), (k * e) * j)
      BY <2>1, <3>2, AlongWorth
    <3>4. -(m + ((-(t * p)) * j)) = -m + t * (p * j)
      BY <1>2
    <3> QED  BY <2>1, <3>2, <3>3, <3>4, <1>6, WorthType
  <2>2. CASE ~(Sign(arm) < 0)
    <3>1. Worth(f(t), (t * p) * j, (k * e) * j)
      BY <2>2, <1>7, WorthScaled
    <3>2. Worth(Plus(c, f(t)), m + ((t * p) * j), (k * e) * j)
      BY <1>8, <3>1, WorthPlus
    <3>3. Worth(Along(arm, Plus(c, f(t))), m + ((t * p) * j), (k * e) * j)
      BY <2>2, <3>2, AlongWorth
    <3>4. m + ((t * p) * j) = m + t * (p * j)
      BY <1>2
    <3> QED  BY <2>2, <3>2, <3>3, <3>4, <1>6, WorthType
  <2> QED  BY <2>1, <2>2
<1>11. Worth(Along(arm, c), IF Sign(arm) < 0 THEN -m ELSE m, (k * e) * j)
  BY <1>8, AlongWorth
<1> DEFINE n == IF Sign(arm) < 0 THEN -m ELSE m
<1>12. /\ Worth(Along(arm, Division(arm, chart, 1)), n + 1 * (p * j), (k * e) * j)
       /\ Worth(Along(arm, Division(arm, chart, -1)), n + (-1) * (p * j), (k * e) * j)
       /\ Worth(Along(arm, c), n, (k * e) * j)
       /\ Division(arm, chart, 1) \in Rational /\ Division(arm, chart, -1) \in Rational
  BY <1>10, <1>11
<1> HIDE DEF n
<1>13. /\ Worth(Plus(Along(arm, c), Step(arm, chart)), n + p * j, (k * e) * j)
       /\ Worth(Minus(Along(arm, c), Step(arm, chart)), n - p * j, (k * e) * j)
  BY <1>9, <1>12, WorthPlus, WorthMinus
<1>14. n + 1 * (p * j) = n + p * j /\ n + (-1) * (p * j) = n - p * j
  BY <1>2, <1>12, WorthType
<1>15. /\ Along(arm, Division(arm, chart, 1)) = Plus(Along(arm, c), Step(arm, chart))
       /\ Along(arm, Division(arm, chart, -1)) = Minus(Along(arm, c), Step(arm, chart))
  BY <1>12, <1>13, <1>14, WorthOrder
<1> QED  BY <1>12, <1>15 DEF c

(* l + g a / (a + b), over d (a + b).                                      *)
LEMMA BalanceWorth ==
  ASSUME NEW l, NEW g, NEW a, NEW b, NEW d, NEW L, NEW G, NEW A, NEW B,
         Worth(l, L, d), Worth(g, G, d), Worth(a, A, d), Worth(b, B, d), A > 0, B > 0
  PROVE  Worth(Plus(l, Over(Times(g, a), Plus(a, b))), L * (A + B) + G * A, d * (A + B))
<1>1. d \in Nat \ {0} /\ L \in Int /\ G \in Int /\ A \in Int /\ B \in Int
  BY WorthType
<1>2. Worth(Times(g, a), G * A, d * d)
  BY WorthTimes
<1>3. Worth(Plus(a, b), A + B, d)
  BY WorthPlus
<1>4. Worth(Over(Times(g, a), Plus(a, b)), (G * A) * d, (d * d) * (A + B))
  <2>1. A + B > 0 /\ A + B # 0
    BY <1>1
  <2> QED  BY <1>2, <1>3, <2>1, WorthOver
<1>5. (d * d) * (A + B) = (d * (A + B)) * d
  BY <1>1
<1>6. d * (A + B) \in Nat \ {0} /\ A + B \in Nat \ {0} /\ G * A \in Int
  BY <1>1, PositiveProduct
<1>7. Worth(Over(Times(g, a), Plus(a, b)), G * A, d * (A + B))
  BY <1>1, <1>4, <1>5, <1>6, WorthReduced
<1>8. Worth(l, L * (A + B), d * (A + B))
  BY <1>6, WorthScaled
<1> QED  BY <1>7, <1>8, WorthPlus

(* The same in integers.                                                   *)
LEMMA BalanceNumbers ==
  ASSUME NEW G \in Nat \ {0}, NEW A \in Nat \ {0}, NEW B \in Nat \ {0}
  PROVE  /\ 0 < G * A /\ G * A < G * (A + B) /\ G * A \in Int /\ G * (A + B) \in Int
         /\ G <= A + B => G * A <= A * (A + B) /\ G * (A + B) - G * A <= B * (A + B)
         /\ G < A + B => G * A < A * (A + B) /\ G * (A + B) - G * A < B * (A + B)
<1>1. G * A \in Nat \ {0} /\ G * B \in Nat \ {0} /\ G * (A + B) = G * A + G * B
  BY PositiveProduct
<1>2. G * (A + B) - G * A = G * B
  BY <1>1
<1>3. /\ G <= A + B => G * A <= (A + B) * A /\ G * B <= (A + B) * B
      /\ G < A + B => G * A < (A + B) * A /\ G * B < (A + B) * B
  OBVIOUS
<1>4. (A + B) * A = A * (A + B) /\ (A + B) * B = B * (A + B)
  OBVIOUS
<1> QED  BY <1>1, <1>2, <1>3, <1>4

(* The point that divides a gap in the ratio of two reaches.               *)
Balanced(l, r, a, b) == Plus(l, Over(Times(Minus(r, l), a), Plus(a, b)))

(* It lies between, and no farther from either side than the reaches.      *)
LEMMA BalancePoint ==
  ASSUME NEW l \in Rational, NEW r \in Rational, NEW a \in Rational, NEW b \in Rational,
         Less(l, r), a[1] > 0, b[1] > 0
  PROVE  LET z == Balanced(l, r, a, b)
         IN  /\ z \in Rational /\ Less(l, z) /\ Less(z, r)
             /\ AtMost(Minus(r, l), Plus(a, b)) => AtMost(Minus(z, l), a) /\ AtMost(Minus(r, z), b)
             /\ Minus(r, l) = Plus(a, b) => z = Plus(l, a)
<1> DEFINE z == Balanced(l, r, a, b)
<1>1. PICK d \in Nat \ {0}, L, R, A, B \in Int :
        Worth(l, L, d) /\ Worth(r, R, d) /\ Worth(a, A, d) /\ Worth(b, B, d)
  BY Common4
<1>2. A > 0 /\ B > 0 /\ L < R
  BY <1>1, WorthSign, WorthOrder
<1> DEFINE G == R - L
           E == d * (A + B)
<1>3. Worth(Minus(r, l), G, d) /\ G \in Nat \ {0}
  <2>1. Worth(Minus(r, l), G, d)
    BY <1>1, WorthMinus
  <2> QED  BY <1>2, <2>1
<1>4. Worth(z, L * (A + B) + G * A, E)
  BY <1>1, <1>2, <1>3, BalanceWorth DEF Balanced
<1> HIDE DEF z
<1>5. A + B \in Nat \ {0} /\ A \in Nat \ {0} /\ B \in Nat \ {0}
  BY <1>2
<1>6. /\ Worth(l, L * (A + B), E) /\ Worth(r, R * (A + B), E)
      /\ Worth(a, A * (A + B), E) /\ Worth(b, B * (A + B), E)
  BY <1>1, <1>5, WorthScaled
<1>7. Worth(Plus(a, b), A + B, d)
  BY <1>1, WorthPlus
<1>8. /\ Worth(Minus(z, l), (L * (A + B) + G * A) - L * (A + B), E)
      /\ Worth(Minus(r, z), R * (A + B) - (L * (A + B) + G * A), E)
      /\ Worth(Plus(l, a), L * (A + B) + A * (A + B), E)
  BY <1>4, <1>6, WorthMinus, WorthPlus
<1>9. R * (A + B) = L * (A + B) + G * (A + B)
  BY <1>1
<1>10. /\ 0 < G * A /\ G * A < G * (A + B) /\ G * A \in Int /\ G * (A + B) \in Int
       /\ G <= A + B => G * A <= A * (A + B) /\ G * (A + B) - G * A <= B * (A + B)
  BY <1>3, <1>5, BalanceNumbers
<1>11. AtMost(Minus(r, l), Plus(a, b)) <=> G <= A + B
  BY <1>3, <1>7, WorthOrder
<1>12. Minus(r, l) = Plus(a, b) <=> G = A + B
  BY <1>3, <1>7, WorthOrder
<1> DEFINE u == L * (A + B)
           v == R * (A + B)
           x == G * A
           y == G * (A + B)
           p == A * (A + B)
           q == B * (A + B)
<1>13. u \in Int /\ v \in Int /\ x \in Int /\ y \in Int /\ p \in Int /\ q \in Int /\ v = u + y
  BY <1>9, <1>10, <1>5, <1>1
<1>14. G = A + B => x = p
  OBVIOUS
<1>15. /\ Worth(z, u + x, E) /\ Worth(l, u, E) /\ Worth(r, v, E) /\ Worth(a, p, E) /\ Worth(b, q, E)
       /\ Worth(Minus(z, l), (u + x) - u, E) /\ Worth(Minus(r, z), v - (u + x), E)
       /\ Worth(Plus(l, a), u + p, E)
       /\ 0 < x /\ x < y
       /\ G <= A + B => x <= p /\ y - x <= q
  BY <1>4, <1>6, <1>8, <1>10
<1> HIDE DEF u, v, x, y, p, q, E
<1>16. Less(l, z) /\ Less(z, r)
  BY <1>13, <1>15, WorthOrder
<1>17. AtMost(Minus(r, l), Plus(a, b)) => AtMost(Minus(z, l), a) /\ AtMost(Minus(r, z), b)
  <2> SUFFICES ASSUME G <= A + B  PROVE AtMost(Minus(z, l), a) /\ AtMost(Minus(r, z), b)
    BY <1>11
  <2>1. x <= p /\ y - x <= q
    BY <1>15
  <2>2. (u + x) - u <= p /\ v - (u + x) <= q
    BY <2>1, <1>13
  <2> QED  BY <2>2, <1>15, WorthOrder
<1>18. Minus(r, l) = Plus(a, b) => z = Plus(l, a)
  <2> SUFFICES ASSUME G = A + B  PROVE z = Plus(l, a)
    BY <1>12
  <2>1. x = p
    BY <1>14
  <2> QED  BY <2>1, <1>15, WorthOrder
<1> QED  BY <1>15, <1>16, <1>17, <1>18, WorthType DEF z

(* The points i / (n + 1) of the way from low to high.                     *)
Part(low, high, i, n) == Plus(low, Times(Minus(high, low), Rat(i, n + 1)))

(* These points lie between, and differ.                                   *)
LEMMA PartWay ==
  ASSUME NEW low \in Rational, NEW high \in Rational, NEW n \in Nat \ {0}, Less(low, high)
  PROVE  /\ \A i \in 1..n : /\ Part(low, high, i, n) \in Rational
                           /\ Less(low, Part(low, high, i, n)) /\ Less(Part(low, high, i, n), high)
         /\ \A i, j \in 1..n : Part(low, high, i, n) = Part(low, high, j, n) => i = j
<1>1. PICK d \in Nat \ {0}, L, H \in Int : Worth(low, L, d) /\ Worth(high, H, d)
  BY Common2
<1> DEFINE W == H - L
           N == n + 1
           f(i) == Part(low, high, i, n)
<1>2. Worth(Minus(high, low), W, d) /\ W \in Nat \ {0}
  <2>1. L < H
    BY <1>1, WorthOrder
  <2>2. Worth(Minus(high, low), W, d)
    BY <1>1, WorthMinus
  <2> QED  BY <2>1, <2>2
<1>3. N \in Nat \ {0} /\ d * N \in Nat \ {0}
  BY PositiveProduct
<1>4. Worth(low, L * N, d * N) /\ Worth(high, H * N, d * N)
  BY <1>1, <1>3, WorthScaled
<1>5. H * N = L * N + W * N
  BY <1>1
<1>6. ASSUME NEW i \in 1..n
      PROVE  Worth(f(i), L * N + W * i, d * N)
  <2>1. Worth(Rat(i, N), i, N)
    BY <1>3, RatWorth DEF Worth
  <2>2. Worth(Times(Minus(high, low), Rat(i, N)), W * i, d * N)
    BY <1>2, <2>1, WorthTimes
  <2>3. Worth(Plus(low, Times(Minus(high, low), Rat(i, N))), L * N + W * i, d * N)
    BY <1>4, <2>2, WorthPlus
  <2> QED  BY <2>3 DEF Part
<1> HIDE DEF f
<1>7. ASSUME NEW i \in 1..n
      PROVE  0 < W * i /\ W * i < W * N /\ W * i \in Int /\ W * N \in Int
  BY <1>2, <1>3
<1>8. ASSUME NEW i \in 1..n
      PROVE  f(i) \in Rational /\ Less(low, f(i)) /\ Less(f(i), high)
  <2>1. L * N \in Int /\ H * N \in Int
    BY <1>1, <1>3
  <2>2. L * N < L * N + W * i /\ L * N + W * i < H * N
    BY <1>5, <1>7, <2>1
  <2> QED  BY <1>4, <1>6, <2>2, WorthOrder, WorthType
<1>9. ASSUME NEW i \in 1..n, NEW j \in 1..n, f(i) = f(j)
      PROVE  i = j
  <2>1. L * N + W * i = L * N + W * j
    BY <1>6, <1>9, WorthOrder
  <2>2. W * i = W * j
    <3>1. L * N \in Int /\ W * i \in Int /\ W * j \in Int
      BY <1>1, <1>3, <1>2
    <3> QED  BY <2>1, <3>1
  <2> QED  BY <2>2, <1>2
<1> QED  BY <1>8, <1>9 DEF f

(* Two charts in the order of the arm.                                     *)
Follows(arm, left, right) ==
  /\ Divided(arm) /\ Usable(left) /\ Usable(right)
  /\ Less(Along(arm, left.center), Along(arm, right.center))

(* Only finitely many points are to be avoided.                            *)
Finite(arm) == IsFiniteSet(arm.singular) /\ IsFiniteSet(arm.boundary)

(* What a handoff is good for.                                             *)
Fits(arm, left, right, match) ==
  LET x == match.at IN
  /\ (left.scale[1] > 0) <=> (right.scale[1] > 0)
  /\ x \in Rational /\ x \notin Forbidden(arm)
  /\ Less(Along(arm, left.center), Along(arm, x))
  /\ Less(Along(arm, x), Along(arm, right.center))
  /\ AtMost(Away(arm, left, x), IF right.singular THEN Reach(arm, left) ELSE Half(left))
  /\ AtMost(Away(arm, right, x), Reach(arm, right))
  /\ right.singular <=> match.how = "approach"
  /\ right.singular => /\ ~left.singular /\ x = ApproachPoint(arm, left, right)
                       /\ Less(Gap(arm, left, right), Plus(Margin(arm, left), Reach(arm, right)))

(* There are fewer forbidden points than candidates.                       *)
LEMMA ForbiddenFinite ==
  ASSUME NEW arm, Finite(arm)
  PROVE  /\ Cardinality(arm.singular) + Cardinality(arm.boundary) + 3 \in Nat \ {0}
         /\ IsFiniteSet(Forbidden(arm))
         /\ Cardinality(Forbidden(arm)) < Cardinality(arm.singular) + Cardinality(arm.boundary) + 3
<1> DEFINE S == arm.singular
           B == arm.boundary
           U == S \cup B
           V == U \cup {arm.from}
           W == V \cup {arm.to}
<1>1. Forbidden(arm) = W
  BY DEF Forbidden
<1>2. IsFiniteSet(S) /\ IsFiniteSet(B)
  BY DEF Finite
<1>3. Cardinality(S) \in Nat /\ Cardinality(B) \in Nat
  BY <1>2, FS_CardinalityType
<1> HIDE DEF S, B
<1>4. IsFiniteSet(U) /\ Cardinality(U) <= Cardinality(S) + Cardinality(B)
  <2>1. /\ IsFiniteSet(U) /\ IsFiniteSet(S \cap B)
        /\ Cardinality(U) = Cardinality(S) + Cardinality(B) - Cardinality(S \cap B)
    BY <1>2, FS_Union, FS_Intersection
  <2>2. Cardinality(S \cap B) \in Nat
    BY <2>1, FS_CardinalityType
  <2> QED  BY <1>3, <2>1, <2>2
<1> HIDE DEF U
<1>5. Cardinality(U) \in Nat
  BY <1>4, FS_CardinalityType
<1>6. IsFiniteSet(V) /\ Cardinality(V) <= Cardinality(U) + 1 /\ Cardinality(V) \in Nat
  <2>1. IsFiniteSet(V) /\ (Cardinality(V) = Cardinality(U) \/ Cardinality(V) = Cardinality(U) + 1)
    BY <1>4, FS_AddElement
  <2> QED  BY <1>5, <2>1
<1> HIDE DEF V
<1>7. IsFiniteSet(W) /\ Cardinality(W) <= Cardinality(V) + 1 /\ Cardinality(W) \in Nat
  <2>1. IsFiniteSet(W) /\ (Cardinality(W) = Cardinality(V) \/ Cardinality(W) = Cardinality(V) + 1)
    BY <1>6, FS_AddElement
  <2> QED  BY <1>6, <2>1
<1>8. Cardinality(W) < Cardinality(S) + Cardinality(B) + 3
  BY <1>3, <1>4, <1>5, <1>6, <1>7
<1> HIDE DEF W
<1> QED  BY <1>1, <1>3, <1>7, <1>8 DEF S, B

(* The least of some numbers is one of them.                               *)
LEMMA MinIn ==
  ASSUME NEW S \in SUBSET Nat, S # {}
  PROVE  Min(S) \in S
<1>1. \E x \in S : \A y \in S : x <= y
  BY LeastOf
<1>2. Min(S) = CHOOSE x \in S : \A y \in S : x <= y
  BY DEF Min
<1> QED  BY <1>1, <1>2

(* One of the points of the way is allowed, and any it takes is between.   *)
LEMMA ElsewherePoint ==
  ASSUME NEW arm \in Arm, Finite(arm), NEW low \in Rational, NEW high \in Rational
  PROVE  /\ Less(low, high) => Elsewhere(arm, low, high) # NoHandoff
         /\ Elsewhere(arm, low, high) # NoHandoff =>
              \E z \in Rational : /\ Less(low, z) /\ Less(z, high)
                                  /\ Elsewhere(arm, low, high) = Point(Along(arm, z), "avoidance")
                                  /\ Along(arm, z) \notin Forbidden(arm)
<1> DEFINE n == Cardinality(arm.singular) + Cardinality(arm.boundary) + 3
           z(i) == Part(low, high, i, n)
           free == {i \in 1..n : Along(arm, z(i)) \notin Forbidden(arm)}
<1>1. /\ n \in Nat \ {0} /\ IsFiniteSet(Forbidden(arm)) /\ Cardinality(Forbidden(arm)) < n
  BY ForbiddenFinite
<1>2. Elsewhere(arm, low, high) =
        IF Less(low, high) /\ free # {} THEN Point(Along(arm, z(Min(free))), "avoidance")
                                        ELSE NoHandoff
  BY DEF Elsewhere, Part
<1>3. \A x : Point(x, "avoidance") # NoHandoff
  BY DEF Point, NoHandoff
<1> HIDE DEF n
<1>4. ASSUME Less(low, high)  PROVE free # {}
  <2> SUFFICES ASSUME free = {}  PROVE FALSE
    OBVIOUS
  <2> DEFINE f == [i \in 1..n |-> Along(arm, z(i))]
  <2>1. \A i \in 1..n : z(i) \in Rational
    BY <1>1, <1>4, PartWay
  <2>2. \A i, j \in 1..n : z(i) = z(j) => i = j
    BY <1>1, <1>4, PartWay
  <2>3. f \in [1..n -> Forbidden(arm)]
    OBVIOUS
  <2>4. IsFiniteSet(1..n) /\ Cardinality(1..n) = n
    BY <1>1, FS_Interval
  <2>5. \E i, j \in 1..n : i # j /\ f[i] = f[j]
    <3> HIDE DEF f
    <3>1. Cardinality(Forbidden(arm)) < Cardinality(1..n)
      BY <1>1, <2>4
    <3> DEFINE I == 1..n
               T == Forbidden(arm)
    <3>2. IsFiniteSet(I) /\ IsFiniteSet(T) /\ Cardinality(T) < Cardinality(I) /\ f \in [I -> T]
      BY <1>1, <2>3, <2>4, <3>1
    <3> HIDE DEF I, T
    <3>3. \E x, y \in I : x # y /\ f[x] = f[y]
      BY <3>2, FS_PigeonHole
    <3> QED  BY <3>3 DEF I
  <2>6. PICK i \in 1..n, j \in 1..n : i # j /\ Along(arm, z(i)) = Along(arm, z(j))
    BY <2>5
  <2>7. z(i) = z(j)
    BY <2>1, <2>6, AlongRational
  <2> QED  BY <2>2, <2>6, <2>7
<1>5. ASSUME Elsewhere(arm, low, high) # NoHandoff
      PROVE  \E y \in Rational : /\ Less(low, y) /\ Less(y, high)
                                 /\ Elsewhere(arm, low, high) = Point(Along(arm, y), "avoidance")
                                 /\ Along(arm, y) \notin Forbidden(arm)
  <2>1. Less(low, high) /\ free # {}
    BY <1>2, <1>5
  <2>2. Min(free) \in free
    BY <1>1, <2>1, MinIn
  <2>3. z(Min(free)) \in Rational /\ Less(low, z(Min(free))) /\ Less(z(Min(free)), high)
    BY <1>1, <2>1, <2>2, PartWay
  <2> QED  BY <1>2, <2>1, <2>2, <2>3
<1> QED  BY <1>2, <1>3, <1>4, <1>5

(* Distances on either side.                                               *)
LEMMA AwaySides ==
  ASSUME NEW l \in Rational, NEW y \in Rational, Less(l, y)
  PROVE  Absolute(Minus(y, l)) = Minus(y, l) /\ Absolute(Minus(l, y)) = Minus(y, l)
<1>1. PICK d \in Nat \ {0}, k, m \in Int : Worth(l, k, d) /\ Worth(y, m, d)
  BY Common2
<1>2. k < m
  BY <1>1, WorthOrder
<1>3. Worth(Minus(y, l), m - k, d) /\ Worth(Minus(l, y), k - m, d)
  BY <1>1, WorthMinus
<1>4. Worth(Absolute(Minus(y, l)), Size(m - k), d) /\ Worth(Absolute(Minus(l, y)), Size(k - m), d)
  BY <1>3, WorthAbsolute
<1>5. Size(m - k) = m - k /\ Size(k - m) = m - k
  BY <1>2 DEF Size
<1> QED  BY <1>3, <1>4, <1>5, WorthOrder

(* The points that lie between two others and within reach of both.        *)
LEMMA BetweenBounds ==
  ASSUME NEW l \in Rational, NEW r \in Rational, NEW a \in Rational, NEW b \in Rational,
         a[1] > 0, b[1] > 0, Less(l, r), NEW y \in Rational
  PROVE  LET low  == Greater(l, Minus(r, b))
             high == Lesser(r, Plus(l, a))
         IN  /\ low \in Rational /\ high \in Rational
             /\ Less(l, y) /\ Less(y, r) /\ AtMost(Minus(y, l), a) /\ AtMost(Minus(r, y), b) =>
                  AtMost(low, y) /\ AtMost(y, high)
             /\ Less(low, y) /\ Less(y, high) =>
                  Less(l, y) /\ Less(y, r) /\ AtMost(Minus(y, l), a) /\ AtMost(Minus(r, y), b)
             /\ AtMost(low, high) <=> AtMost(Minus(r, l), Plus(a, b))
             /\ Less(low, high) <=> Less(Minus(r, l), Plus(a, b))
             /\ low = high <=> Minus(r, l) = Plus(a, b)
             /\ Minus(r, l) = Plus(a, b) => low = Plus(l, a)
<1> DEFINE low  == Greater(l, Minus(r, b))
           high == Lesser(r, Plus(l, a))
<1>1. PICK d \in Nat \ {0}, L, R, A, B, Y \in Int :
        Worth(l, L, d) /\ Worth(r, R, d) /\ Worth(a, A, d) /\ Worth(b, B, d) /\ Worth(y, Y, d)
  <2>1. PICK e \in Nat \ {0}, K, L, M, N \in Int :
          Worth(l, K, e) /\ Worth(r, L, e) /\ Worth(a, M, e) /\ Worth(b, N, e)
    BY Common4
  <2>2. PICK f \in Nat \ {0}, O \in Int : Worth(y, O, e * f)
    BY Join
  <2>3. Worth(l, K * f, e * f) /\ Worth(r, L * f, e * f) /\ Worth(a, M * f, e * f) /\ Worth(b, N * f, e * f)
    BY <2>1, WorthScaled
  <2>4. e * f \in Nat \ {0} /\ K * f \in Int /\ L * f \in Int /\ M * f \in Int /\ N * f \in Int
    BY <2>3, WorthType
  <2> QED  BY <2>2, <2>3, <2>4
<1>2. A > 0 /\ B > 0 /\ L < R
  BY <1>1, WorthSign, WorthOrder
<1>3. /\ Worth(Minus(r, b), R - B, d) /\ Worth(Plus(l, a), L + A, d)
      /\ Worth(Minus(y, l), Y - L, d) /\ Worth(Minus(r, y), R - Y, d)
      /\ Worth(Minus(r, l), R - L, d) /\ Worth(Plus(a, b), A + B, d)
  BY <1>1, WorthMinus, WorthPlus
<1>4. /\ Worth(low, IF R - B < L THEN L ELSE R - B, d)
      /\ Worth(high, IF R < L + A THEN R ELSE L + A, d)
  BY <1>1, <1>3, WorthLesser
<1> DEFINE LO == IF R - B < L THEN L ELSE R - B
           HI == IF R < L + A THEN R ELSE L + A
<1>5. LO \in Int /\ HI \in Int /\ Worth(low, LO, d) /\ Worth(high, HI, d)
  BY <1>4
<1>6. /\ Less(l, y) <=> L < Y
      /\ Less(y, r) <=> Y < R
      /\ AtMost(Minus(y, l), a) <=> Y - L <= A
      /\ AtMost(Minus(r, y), b) <=> R - Y <= B
      /\ AtMost(Minus(r, l), Plus(a, b)) <=> R - L <= A + B
      /\ Less(Minus(r, l), Plus(a, b)) <=> R - L < A + B
      /\ Minus(r, l) = Plus(a, b) <=> R - L = A + B
  BY <1>1, <1>3, WorthOrder
<1> HIDE DEF low, high
<1>7. /\ AtMost(low, y) <=> LO <= Y
      /\ AtMost(y, high) <=> Y <= HI
      /\ Less(low, y) <=> LO < Y
      /\ Less(y, high) <=> Y < HI
      /\ AtMost(low, high) <=> LO <= HI
      /\ Less(low, high) <=> LO < HI
      /\ low = high <=> LO = HI
      /\ low = Plus(l, a) <=> LO = L + A
  BY <1>1, <1>3, <1>5, WorthOrder
<1>8. /\ L < Y /\ Y < R /\ Y - L <= A /\ R - Y <= B => LO <= Y /\ Y <= HI
      /\ LO < Y /\ Y < HI => L < Y /\ Y < R /\ Y - L <= A /\ R - Y <= B
      /\ LO <= HI <=> R - L <= A + B
      /\ LO < HI <=> R - L < A + B
      /\ LO = HI <=> R - L = A + B
      /\ R - L = A + B => LO = L + A
  BY <1>2
<1>9. low \in Rational /\ high \in Rational
  BY <1>5, WorthType
<1> QED  BY <1>6, <1>7, <1>8, <1>9 DEF low, high

------------------------------------------------------------------------------
(* What the planner finds fits.                                            *)

(* The parts of two charts in order.                                       *)
LEMMA FollowsType ==
  ASSUME NEW arm, NEW left, NEW right, Follows(arm, left, right)
  PROVE  /\ arm \in Arm /\ Divided(arm) /\ Usable(left) /\ Usable(right)
         /\ left.center \in Rational /\ right.center \in Rational
         /\ Along(arm, left.center) \in Rational /\ Along(arm, right.center) \in Rational
         /\ Less(Along(arm, left.center), Along(arm, right.center))
BY ChartType, AlongRational DEF Follows, Divided

(* Nine tenths of a reach are within it.                                   *)
LEMMA MarginType ==
  ASSUME NEW arm, Divided(arm), NEW chart, Usable(chart)
  PROVE  Margin(arm, chart) \in Rational /\ Margin(arm, chart)[1] > 0
         /\ AtMost(Margin(arm, chart), Reach(arm, chart))
<1> DEFINE r == Reach(arm, chart)
<1>1. r \in Rational /\ r[1] > 0
  BY ReachLimits
<1> HIDE DEF r
<1>2. Worth(r, r[1], r[2]) /\ r[1] \in Int /\ r[2] \in Nat /\ r[2] > 0
  BY <1>1, WorthSelf, RationalType
<1>3. Worth(<<9, 10>>, 9, 10)
  BY Numbers
<1>4. Worth(Times(<<9, 10>>, r), 9 * r[1], 10 * r[2])
  BY <1>2, <1>3, WorthTimes
<1>5. AtMost(Times(<<9, 10>>, r), r) <=> (9 * r[1]) * r[2] <= r[1] * (10 * r[2])
  BY <1>2, <1>4, WorthCross
<1>6. (9 * r[1]) * r[2] <= r[1] * (10 * r[2])
  <2> DEFINE p == r[1] * r[2]
  <2>1. p \in Nat
    BY <1>1, <1>2
  <2>2. (9 * r[1]) * r[2] = 9 * p /\ r[1] * (10 * r[2]) = 10 * p
    BY <1>2
  <2> QED  BY <2>1, <2>2
<1>7. 9 * r[1] > 0
  BY <1>1, <1>2
<1> QED  BY <1>4, <1>5, <1>6, <1>7, WorthSign, WorthType DEF Margin, r

(* At most is reflexive.                                                   *)
LEMMA AtMostSelf ==
  ASSUME NEW a \in Rational
  PROVE  AtMost(a, a)
<1>1. Worth(a, a[1], a[2]) /\ a[1] \in Int
  BY WorthSelf, RationalType
<1>2. a[1] <= a[1]
  BY <1>1
<1> QED  BY <1>1, <1>2, WorthOrder

(* Distances of a point between two charts.                                *)
LEMMA AwayIs ==
  ASSUME NEW arm, NEW left, NEW right, Follows(arm, left, right), NEW x \in Rational,
         Less(Along(arm, left.center), Along(arm, x)), Less(Along(arm, x), Along(arm, right.center))
  PROVE  /\ Away(arm, left, x) = Minus(Along(arm, x), Along(arm, left.center))
         /\ Away(arm, right, x) = Minus(Along(arm, right.center), Along(arm, x))
BY FollowsType, AlongRational, AwaySides DEF Away

(* A step forward and back.                                                *)
LEMMA StepsBetween ==
  ASSUME NEW l \in Rational, NEW k \in Rational, k[1] > 0
  PROVE  /\ Less(l, Plus(l, k)) /\ Less(Minus(l, k), l)
         /\ Minus(Plus(l, k), l) = k /\ Minus(l, Minus(l, k)) = k
<1>1. PICK d \in Nat \ {0}, L, K \in Int : Worth(l, L, d) /\ Worth(k, K, d)
  BY Common2
<1>2. K > 0
  BY <1>1, WorthSign
<1>3. Worth(Plus(l, k), L + K, d) /\ Worth(Minus(l, k), L - K, d)
  BY <1>1, WorthPlus, WorthMinus
<1>4. Worth(Minus(Plus(l, k), l), (L + K) - L, d) /\ Worth(Minus(l, Minus(l, k)), L - (L - K), d)
  BY <1>1, <1>3, WorthMinus
<1>5. (L + K) - L = K /\ L - (L - K) = K /\ L < L + K /\ L - K < L
  BY <1>2
<1> QED  BY <1>1, <1>3, <1>4, <1>5, WorthOrder

(* The balanced point of two charts, as the planner takes it.              *)
LEMMA BalanceBetween ==
  ASSUME NEW arm, NEW left, NEW right, Follows(arm, left, right),
         NEW a \in Rational, NEW b \in Rational, a[1] > 0, b[1] > 0
  PROVE  LET x == Balance(arm, left, right, a, b)
             yl == Along(arm, left.center)
             yr == Along(arm, right.center)
         IN  /\ x \in Rational /\ Gap(arm, left, right) = Minus(yr, yl)
             /\ Less(yl, Along(arm, x)) /\ Less(Along(arm, x), yr)
             /\ AtMost(Gap(arm, left, right), Plus(a, b)) =>
                  AtMost(Away(arm, left, x), a) /\ AtMost(Away(arm, right, x), b)
             /\ Gap(arm, left, right) = Plus(a, b) => Along(arm, x) = Plus(yl, a)
<1> DEFINE yl == Along(arm, left.center)
           yr == Along(arm, right.center)
           z  == Balanced(yl, yr, a, b)
           x  == Balance(arm, left, right, a, b)
<1>1. yl \in Rational /\ yr \in Rational /\ Less(yl, yr)
  BY FollowsType
<1>2. Gap(arm, left, right) = Minus(yr, yl)
  BY DEF Gap
<1>3. x = Along(arm, z)
  BY DEF Balance, Gap, Balanced
<1>4. /\ z \in Rational /\ Less(yl, z) /\ Less(z, yr)
      /\ AtMost(Minus(yr, yl), Plus(a, b)) => AtMost(Minus(z, yl), a) /\ AtMost(Minus(yr, z), b)
      /\ Minus(yr, yl) = Plus(a, b) => z = Plus(yl, a)
  <2> HIDE DEF yl, yr
  <2> QED  BY <1>1, BalancePoint
<1> HIDE DEF z, x
<1>5. x \in Rational /\ Along(arm, x) = z
  BY <1>3, <1>4, AlongRational
<1>6. Away(arm, left, x) = Minus(z, yl) /\ Away(arm, right, x) = Minus(yr, z)
  BY <1>4, <1>5, AwayIs
<1> QED  BY <1>2, <1>4, <1>5, <1>6 DEF x

(* Each kind of handoff fits: into a singular chart,                       *)
LEMMA ApproachFits ==
  ASSUME NEW arm, NEW left, NEW right, Follows(arm, left, right), right.singular,
         (left.scale[1] > 0) <=> (right.scale[1] > 0),
         Approach(arm, left, right) # NoHandoff
  PROVE  Fits(arm, left, right, Approach(arm, left, right))
<1> DEFINE x == ApproachPoint(arm, left, right)
           a == Margin(arm, left)
           b == Reach(arm, right)
<1>1. /\ ~left.singular
      /\ Less(Gap(arm, left, right), Plus(a, b))
      /\ AtMost(Absolute(Local(left, x)), Limit(arm, left))
      /\ AtMost(Absolute(Local(right, x)), Limit(arm, right))
      /\ x \notin Forbidden(arm)
      /\ Approach(arm, left, right) = Point(x, "approach")
  BY DEF Approach
<1>2. Divided(arm) /\ Usable(left) /\ Usable(right)
  BY FollowsType
<1>3. a \in Rational /\ a[1] > 0 /\ b \in Rational /\ b[1] > 0
  BY <1>2, MarginType, ReachLimits
<1>4. x = Balance(arm, left, right, a, b)
  BY DEF ApproachPoint
<1> HIDE DEF x, a, b
<1>5. x \in Rational /\ Less(Along(arm, left.center), Along(arm, x)) /\ Less(Along(arm, x), Along(arm, right.center))
  BY <1>3, <1>4, BalanceBetween
<1>6. AtMost(Away(arm, left, x), Reach(arm, left)) /\ AtMost(Away(arm, right, x), Reach(arm, right))
  BY <1>1, <1>2, <1>5, LocalReach
<1>7. Point(x, "approach").at = x /\ Point(x, "approach").how = "approach"
  BY DEF Point
<1> QED  BY <1>1, <1>5, <1>6, <1>7 DEF Fits, x, a, b

(* at a common division point,                                             *)
LEMMA SymmetricFits ==
  ASSUME NEW arm, NEW left, NEW right, Follows(arm, left, right), ~right.singular,
         (left.scale[1] > 0) <=> (right.scale[1] > 0),
         Symmetric(arm, left, right)
  PROVE  Fits(arm, left, right, Point(Division(arm, left, 1), "symmetric"))
<1> DEFINE x == Division(arm, left, 1)
           yl == Along(arm, left.center)
           yr == Along(arm, right.center)
           h == Step(arm, left)
           k == Step(arm, right)
<1>1. /\ x = Division(arm, right, -1)
      /\ AtMost(<<1, arm.order>>, HalfRadius(left))
      /\ AtMost(<<1, arm.order>>, HalfRadius(right))
      /\ x \notin Forbidden(arm)
  BY DEF Symmetric
<1>2. Divided(arm) /\ Usable(left) /\ Usable(right) /\ yl \in Rational /\ yr \in Rational
  BY FollowsType
<1>3. x \in Rational /\ Along(arm, x) = Plus(yl, h) /\ Along(arm, x) = Minus(yr, k)
  BY <1>1, <1>2, DivisionPoint
<1>4. h \in Rational /\ h[1] > 0 /\ k \in Rational /\ k[1] > 0
  BY <1>2, ReachLimits
<1>5. AtMost(h, Half(left)) /\ AtMost(k, Half(right))
  <2>1. ASSUME NEW c, Usable(c), AtMost(<<1, arm.order>>, HalfRadius(c))
        PROVE  AtMost(Step(arm, c), Half(c))
    BY <1>2, <2>1, TimesOrder, ChartType, LocalLimits DEF Step, Half
  <2> QED  BY <1>1, <1>2, <2>1
<1>6. Reach(arm, right) = k
  BY <1>2, <1>4, <1>5, ReachLimits, LesserIs
<1> HIDE DEF x, yl, yr, h, k
<1>7. Less(yl, Along(arm, x)) /\ Less(Along(arm, x), yr)
      /\ Minus(Along(arm, x), yl) = h /\ Minus(yr, Along(arm, x)) = k
  <2>1. Less(yl, Plus(yl, h)) /\ Minus(Plus(yl, h), yl) = h
    BY <1>2, <1>4, StepsBetween
  <2>2. Less(Minus(yr, k), yr) /\ Minus(yr, Minus(yr, k)) = k
    BY <1>2, <1>4, StepsBetween
  <2>3. Less(yl, Along(arm, x)) /\ Minus(Along(arm, x), yl) = h
    BY <1>3, <2>1
  <2>4. Less(Along(arm, x), yr) /\ Minus(yr, Along(arm, x)) = k
    BY <1>3, <2>2
  <2> QED  BY <2>3, <2>4
<1>8. Away(arm, left, x) = h /\ Away(arm, right, x) = k
  BY <1>3, <1>7, AwayIs DEF yl, yr
<1>9. AtMost(k, k)
  BY <1>4, AtMostSelf
<1>10. Point(x, "symmetric").at = x /\ Point(x, "symmetric").how # "approach"
  BY DEF Point
<1> QED  BY <1>1, <1>3, <1>5, <1>6, <1>7, <1>8, <1>9, <1>10 DEF Fits, x, yl, yr

(* at the division point of the receiver,                                  *)
LEMMA ReachedFits ==
  ASSUME NEW arm, NEW left, NEW right, Follows(arm, left, right), ~right.singular,
         (left.scale[1] > 0) <=> (right.scale[1] > 0),
         ReceiverReached(arm, left, right)
  PROVE  Fits(arm, left, right, Point(Division(arm, right, -1), "overlap"))
<1> DEFINE x == Division(arm, right, -1)
           yl == Along(arm, left.center)
           yr == Along(arm, right.center)
           k == Step(arm, right)
<1>1. /\ Less(yl, Along(arm, x)) /\ Less(Along(arm, x), yr)
      /\ AtMost(Absolute(Local(left, x)), HalfRadius(left))
      /\ AtMost(<<1, arm.order>>, Limit(arm, right))
      /\ x \notin Forbidden(arm)
  BY DEF ReceiverReached
<1>2. Divided(arm) /\ Usable(left) /\ Usable(right) /\ yl \in Rational /\ yr \in Rational
  BY FollowsType
<1>3. x \in Rational /\ Along(arm, x) = Minus(yr, k)
  BY <1>2, DivisionPoint
<1>4. k \in Rational /\ k[1] > 0
  BY <1>2, ReachLimits
<1>5. AtMost(k, Reach(arm, right))
  BY <1>1, <1>2, TimesOrder, ChartType, LocalLimits DEF Step, Reach
<1> HIDE DEF x, yl, yr, k
<1>6. Minus(yr, Along(arm, x)) = k
  BY <1>2, <1>3, <1>4, StepsBetween
<1>7. Away(arm, right, x) = k
  BY <1>1, <1>3, <1>6, AwayIs DEF yl, yr
<1>8. AtMost(Away(arm, left, x), Half(left))
  BY <1>1, <1>2, <1>3, LocalReach
<1>9. Point(x, "overlap").at = x /\ Point(x, "overlap").how # "approach"
  BY DEF Point
<1> QED  BY <1>1, <1>3, <1>5, <1>7, <1>8, <1>9 DEF Fits, x, yl, yr

(* and at the balance of the reaches or one of the points near it.         *)
LEMMA OverlapFits ==
  ASSUME NEW arm, Finite(arm), NEW left, NEW right, Follows(arm, left, right), ~right.singular,
         (left.scale[1] > 0) <=> (right.scale[1] > 0),
         Overlap(arm, left, right) # NoHandoff
  PROVE  Fits(arm, left, right, Overlap(arm, left, right))
<1> DEFINE a == Half(left)
           b == Reach(arm, right)
           x == Balance(arm, left, right, a, b)
           yl == Along(arm, left.center)
           yr == Along(arm, right.center)
           low == Greater(yl, Minus(yr, b))
           high == Lesser(yr, Plus(yl, a))
<1>1. /\ ~Less(Plus(a, b), Gap(arm, left, right))
      /\ Overlap(arm, left, right) = IF x \notin Forbidden(arm) THEN Point(x, "overlap") ELSE Elsewhere(arm, low, high)
  BY DEF Overlap, Half
<1>2. arm \in Arm /\ Divided(arm) /\ Usable(left) /\ Usable(right) /\ yl \in Rational /\ yr \in Rational /\ Less(yl, yr)
  BY FollowsType
<1>3. a \in Rational /\ a[1] > 0 /\ b \in Rational /\ b[1] > 0
  BY <1>2, ReachLimits
<1> HIDE DEF a, b
<1>4. ASSUME NEW y \in Rational, NEW how, how # "approach", Along(arm, y) \notin Forbidden(arm),
             Less(yl, y), Less(y, yr), AtMost(Minus(y, yl), a), AtMost(Minus(yr, y), b)
      PROVE  Fits(arm, left, right, Point(Along(arm, y), how))
  <2> DEFINE w == Along(arm, y)
  <2>1. w \in Rational /\ Along(arm, w) = y
    BY AlongRational
  <2> HIDE DEF w
  <2>2. Away(arm, left, w) = Minus(y, yl) /\ Away(arm, right, w) = Minus(yr, y)
    BY <1>4, <2>1, AwayIs
  <2>3. Point(w, how).at = w /\ Point(w, how).how # "approach"
    BY <1>4 DEF Point
  <2> QED  BY <1>4, <2>1, <2>2, <2>3 DEF Fits, w, a, b
<1>5. CASE x \notin Forbidden(arm)
  <2>1. /\ x \in Rational /\ Less(yl, Along(arm, x)) /\ Less(Along(arm, x), yr)
        /\ AtMost(Gap(arm, left, right), Plus(a, b)) => AtMost(Away(arm, left, x), a) /\ AtMost(Away(arm, right, x), b)
    BY <1>3, BalanceBetween
  <2>2. AtMost(Gap(arm, left, right), Plus(a, b))
    BY <1>1 DEF AtMost
  <2> HIDE DEF x
  <2>3. Point(x, "overlap").at = x /\ Point(x, "overlap").how # "approach"
    BY DEF Point
  <2> QED  BY <1>1, <1>5, <2>1, <2>2, <2>3 DEF Fits, a, b
<1>6. CASE x \in Forbidden(arm)
  <2> HIDE DEF x
  <2>1. low \in Rational /\ high \in Rational
    BY <1>2, <1>3, SumsAreRational, SidesAreRational
  <2>2. Elsewhere(arm, low, high) # NoHandoff /\ Overlap(arm, left, right) = Elsewhere(arm, low, high)
    BY <1>1, <1>6
  <2>3. PICK y \in Rational : /\ Less(low, y) /\ Less(y, high)
                              /\ Elsewhere(arm, low, high) = Point(Along(arm, y), "avoidance")
                              /\ Along(arm, y) \notin Forbidden(arm)
    <3> HIDE DEF low, high
    <3> QED  BY <1>2, <2>1, <2>2, ElsewherePoint
  <2>4. Less(yl, y) /\ Less(y, yr) /\ AtMost(Minus(y, yl), a) /\ AtMost(Minus(yr, y), b)
    <3> HIDE DEF yl, yr
    <3> QED  BY <1>2, <1>3, <2>3, BetweenBounds
  <2>5. "avoidance" # "approach"
    OBVIOUS
  <2> QED  BY <1>4, <2>2, <2>3, <2>4, <2>5
<1> QED  BY <1>5, <1>6

(* Every handoff the planner finds fits.                                   *)
LEMMA HandoffFits ==
  ASSUME NEW arm, Finite(arm), NEW i, NEW left, left = arm.charts[i],
         NEW right, right = arm.charts[i + 1], Follows(arm, left, right),
         Handoff(arm, i) # NoHandoff
  PROVE  Fits(arm, left, right, Handoff(arm, i))
<1>1. Handoff(arm, i) =
        IF (left.scale[1] > 0) # (right.scale[1] > 0) THEN NoHandoff
        ELSE IF right.singular THEN Approach(arm, left, right)
        ELSE IF Symmetric(arm, left, right) THEN Point(Division(arm, left, 1), "symmetric")
        ELSE IF ReceiverReached(arm, left, right) THEN Point(Division(arm, right, -1), "overlap")
        ELSE Overlap(arm, left, right)
  BY DEF Handoff
<1>2. (left.scale[1] > 0) <=> (right.scale[1] > 0)
  BY <1>1
<1>3. CASE right.singular
  BY <1>1, <1>2, <1>3, ApproachFits
<1>4. CASE ~right.singular /\ Symmetric(arm, left, right)
  BY <1>1, <1>2, <1>4, SymmetricFits
<1>5. CASE ~right.singular /\ ~Symmetric(arm, left, right) /\ ReceiverReached(arm, left, right)
  BY <1>1, <1>2, <1>5, ReachedFits
<1>6. CASE ~right.singular /\ ~Symmetric(arm, left, right) /\ ~ReceiverReached(arm, left, right)
  BY <1>1, <1>2, <1>6, OverlapFits
<1> QED  BY <1>3, <1>4, <1>5, <1>6

------------------------------------------------------------------------------
(* What fits is found.                                                     *)

(* The order of the rationals.                                             *)
LEMMA OrderOf ==
  ASSUME NEW a \in Rational, NEW b \in Rational, NEW c \in Rational
  PROVE  /\ AtMost(a, b) /\ AtMost(b, c) => AtMost(a, c)
         /\ AtMost(a, b) /\ AtMost(b, c) /\ a = c => b = a
         /\ AtMost(a, b) <=> Less(a, b) \/ a = b
         /\ AtMost(a, b) /\ Less(b, c) => Less(a, c)
         /\ Less(a, b) /\ AtMost(b, c) => Less(a, c)
         /\ Less(a, b) => AtMost(a, b) /\ ~Less(b, a) /\ a # b
<1>1. PICK d \in Nat \ {0}, k, l, m \in Int : Worth(a, k, d) /\ Worth(b, l, d) /\ Worth(c, m, d)
  BY Common3
<1> QED  BY <1>1, WorthOrder

(* Two charts that can be joined are joined.                               *)
LEMMA JoinableHandoff ==
  ASSUME NEW arm, Finite(arm), NEW i, NEW left, left = arm.charts[i],
         NEW right, right = arm.charts[i + 1], Follows(arm, left, right),
         Joinable(arm, left, right)
  PROVE  Handoff(arm, i) # NoHandoff
<1> DEFINE a == IF right.singular THEN Margin(arm, left) ELSE Half(left)
           b == Reach(arm, right)
           x == Balance(arm, left, right, a, b)
           yl == Along(arm, left.center)
           yr == Along(arm, right.center)
           low == Greater(yl, Minus(yr, b))
           high == Lesser(yr, Plus(yl, a))
<1>1. arm \in Arm /\ Divided(arm) /\ Usable(left) /\ Usable(right) /\ yl \in Rational /\ yr \in Rational /\ Less(yl, yr)
  BY FollowsType
<1>2. a \in Rational /\ a[1] > 0 /\ b \in Rational /\ b[1] > 0
  BY <1>1, ReachLimits, MarginType
<1>3. Safe(arm, left) = Reach(arm, left) /\ Safe(arm, right) = b
  BY <1>1, ReachLimits
<1>4. /\ (left.scale[1] > 0) <=> (right.scale[1] > 0)
      /\ Less(low, high) \/ (~right.singular /\ low = high /\ Along(arm, low) \notin Forbidden(arm))
      /\ right.singular => ~left.singular /\ x \notin Forbidden(arm)
  BY <1>3 DEF Joinable, Margin
<1>5. /\ low \in Rational /\ high \in Rational
      /\ AtMost(low, high) <=> AtMost(Minus(yr, yl), Plus(a, b))
      /\ Less(low, high) <=> Less(Minus(yr, yl), Plus(a, b))
      /\ low = high <=> Minus(yr, yl) = Plus(a, b)
      /\ Minus(yr, yl) = Plus(a, b) => low = Plus(yl, a)
  <2> HIDE DEF a, b, yl, yr
  <2> QED  BY <1>1, <1>2, BetweenBounds
<1>6. /\ x \in Rational /\ Gap(arm, left, right) = Minus(yr, yl)
      /\ AtMost(Minus(yr, yl), Plus(a, b)) => AtMost(Away(arm, left, x), a) /\ AtMost(Away(arm, right, x), b)
      /\ Minus(yr, yl) = Plus(a, b) => Along(arm, x) = Plus(yl, a)
  <2> HIDE DEF a, b
  <2> QED  BY <1>2, BalanceBetween
<1>7. AtMost(low, high)
  <2> HIDE DEF low, high
  <2> QED  BY <1>4, <1>5, OrderOf
<1>8. \A p : Point(p, "approach") # NoHandoff /\ Point(p, "symmetric") # NoHandoff /\ Point(p, "overlap") # NoHandoff
  BY DEF Point, NoHandoff
<1>9. CASE right.singular
  <2>1. a = Margin(arm, left) /\ x = ApproachPoint(arm, left, right)
    BY <1>9 DEF ApproachPoint
  <2>2. Less(Gap(arm, left, right), Plus(Margin(arm, left), b))
    BY <1>4, <1>5, <1>6, <1>9, <2>1
  <2>3. AtMost(Away(arm, left, x), Margin(arm, left)) /\ AtMost(Away(arm, right, x), b)
    BY <1>5, <1>6, <1>7, <2>1
  <2>4. AtMost(Away(arm, left, x), Reach(arm, left))
    <3>1. Away(arm, left, x) \in Rational
      <4> HIDE DEF x
      <4> QED  BY <1>1, <1>6, AlongRational, SumsAreRational, SidesAreRational, ChartType DEF Away
    <3>2. Margin(arm, left) \in Rational /\ AtMost(Margin(arm, left), Reach(arm, left)) /\ Reach(arm, left) \in Rational
      BY <1>1, MarginType, ReachLimits
    <3> QED  BY <2>3, <3>1, <3>2, OrderOf
  <2>5. AtMost(Absolute(Local(left, x)), Limit(arm, left)) /\ AtMost(Absolute(Local(right, x)), Limit(arm, right))
    BY <1>1, <1>6, <2>3, <2>4, LocalReach
  <2>6. Approach(arm, left, right) = Point(x, "approach")
    BY <1>4, <1>9, <2>1, <2>2, <2>5 DEF Approach
  <2>7. Handoff(arm, i) = Approach(arm, left, right)
    BY <1>4, <1>9 DEF Handoff
  <2> QED  BY <1>8, <2>6, <2>7
<1>10. CASE ~right.singular
  <2>1. a = Half(left)
    BY <1>10
  <2>2. Handoff(arm, i) \in {Point(Division(arm, left, 1), "symmetric"), Point(Division(arm, right, -1), "overlap"), Overlap(arm, left, right)}
    BY <1>4, <1>10 DEF Handoff
  <2>3. Overlap(arm, left, right) # NoHandoff
    <3>1. Overlap(arm, left, right) =
            IF Less(Plus(a, b), Gap(arm, left, right)) THEN NoHandoff
            ELSE IF x \notin Forbidden(arm) THEN Point(x, "overlap")
            ELSE Elsewhere(arm, low, high)
      BY <2>1 DEF Overlap, Half
    <3>2. ~Less(Plus(a, b), Gap(arm, left, right))
      BY <1>5, <1>6, <1>7 DEF AtMost
    <3>3. CASE x \notin Forbidden(arm)
      BY <1>8, <3>1, <3>2, <3>3
    <3>4. CASE x \in Forbidden(arm)
      <4>1. Less(low, high)
        <5> SUFFICES ASSUME ~Less(low, high)  PROVE FALSE
          OBVIOUS
        <5>1. low = high /\ Along(arm, low) \notin Forbidden(arm)
          BY <1>4
        <5>2. Along(arm, x) = low
          BY <1>5, <1>6, <5>1
        <5>3. Along(arm, low) = x
          <6> HIDE DEF x, low
          <6> QED  BY <1>6, <5>2, AlongRational
        <5> QED  BY <3>4, <5>1, <5>3
      <4>2. Elsewhere(arm, low, high) # NoHandoff
        <5> HIDE DEF low, high
        <5> QED  BY <1>1, <1>5, <4>1, ElsewherePoint
      <4> QED  BY <3>1, <3>2, <3>4, <4>2
    <3> QED  BY <3>3, <3>4
  <2> QED  BY <1>8, <2>2, <2>3
<1> QED  BY <1>9, <1>10

(* Charts that a point fits can be joined.                                 *)
LEMMA FitsJoinable ==
  ASSUME NEW arm, NEW left, NEW right, Follows(arm, left, right),
         NEW match, Fits(arm, left, right, match)
  PROVE  Joinable(arm, left, right)
<1> DEFINE a == IF right.singular THEN Margin(arm, left) ELSE Half(left)
           b == Reach(arm, right)
           x == match.at
           y == Along(arm, x)
           yl == Along(arm, left.center)
           yr == Along(arm, right.center)
           low == Greater(yl, Minus(yr, b))
           high == Lesser(yr, Plus(yl, a))
<1>1. Divided(arm) /\ Usable(left) /\ Usable(right) /\ yl \in Rational /\ yr \in Rational /\ Less(yl, yr)
  BY FollowsType
<1>2. a \in Rational /\ a[1] > 0 /\ b \in Rational /\ b[1] > 0
  BY <1>1, ReachLimits, MarginType
<1>3. /\ (left.scale[1] > 0) <=> (right.scale[1] > 0)
      /\ x \in Rational /\ x \notin Forbidden(arm) /\ Less(yl, y) /\ Less(y, yr)
      /\ AtMost(Away(arm, left, x), IF right.singular THEN Reach(arm, left) ELSE Half(left))
      /\ AtMost(Away(arm, right, x), b)
      /\ right.singular => /\ ~left.singular /\ x = ApproachPoint(arm, left, right)
                           /\ Less(Gap(arm, left, right), Plus(Margin(arm, left), b))
  BY DEF Fits
<1>4. y \in Rational /\ Along(arm, y) = x
  BY <1>3, AlongRational
<1>5. /\ low \in Rational /\ high \in Rational
      /\ Less(yl, y) /\ Less(y, yr) /\ AtMost(Minus(y, yl), a) /\ AtMost(Minus(yr, y), b) =>
           AtMost(low, y) /\ AtMost(y, high)
      /\ Less(low, high) <=> Less(Minus(yr, yl), Plus(a, b))
  <2> HIDE DEF a, b, y, yl, yr
  <2> QED  BY <1>1, <1>2, <1>4, BetweenBounds
<1>6. Safe(arm, left) = Reach(arm, left) /\ Safe(arm, right) = b
  BY <1>1, ReachLimits
<1>7. SUFFICES /\ Less(low, high) \/ (~right.singular /\ low = high /\ Along(arm, low) \notin Forbidden(arm))
               /\ right.singular => ~left.singular /\ Balance(arm, left, right, a, b) \notin Forbidden(arm)
  BY <1>3, <1>6 DEF Joinable, Margin
<1>8. CASE right.singular
  <2>1. Gap(arm, left, right) = Minus(yr, yl)
    BY DEF Gap
  <2>2. Less(low, high)
    BY <1>3, <1>5, <1>8, <2>1
  <2>3. Balance(arm, left, right, a, b) = x
    BY <1>3, <1>8 DEF ApproachPoint
  <2> QED  BY <1>3, <1>8, <2>2, <2>3
<1>9. CASE ~right.singular
  <2>1. Away(arm, left, x) = Minus(y, yl) /\ Away(arm, right, x) = Minus(yr, y)
    BY <1>3, AwayIs
  <2>2. AtMost(low, y) /\ AtMost(y, high)
    BY <1>3, <1>5, <1>9, <2>1
  <2> HIDE DEF low, high, y
  <2>3. Less(low, high) \/ (low = high /\ y = low)
    BY <1>4, <1>5, <2>2, OrderOf
  <2> QED  BY <1>3, <1>4, <1>9, <2>3
<1> QED  BY <1>8, <1>9

------------------------------------------------------------------------------
(* All the handoffs of an arm together.                                    *)

(* The handoffs of an arm.                                                 *)
Matches(arm) == [i \in 1..(Len(arm.charts) - 1) |-> Handoff(arm, i)]

(* What the planner tests of one match.                                    *)
MatchStands(arm, i, match) ==
  LET x == match.at
      y == Along(arm, x)
  IN  /\ Less(Along(arm, arm.charts[i].center), y)
      /\ Less(y, Along(arm, arm.charts[i + 1].center))
      /\ x \notin Forbidden(arm)
      /\ Local(arm.charts[i], x)[1] * Local(arm.charts[i + 1], x)[1] < 0
      /\ InDisk(arm.charts[i], x) /\ InDisk(arm.charts[i + 1], x)
      /\ Enveloped(arm, i, match)

(* The parts of an arm,                                                    *)
LEMMA ArmType ==
  ASSUME NEW arm \in Arm
  PROVE  /\ arm.from \in Rational /\ arm.to \in Rational /\ arm.order \in Nat
         /\ arm.charts \in Seq(Chart) /\ Len(arm.charts) \in Nat
         /\ DOMAIN arm.charts = 1..Len(arm.charts)
         /\ \A i \in DOMAIN arm.charts : arm.charts[i] \in Chart
         /\ arm.singular \subseteq Rational /\ arm.boundary \subseteq Rational
BY DEF Arm

(* and of a valid one.                                                     *)
LEMMA ValidParts ==
  ASSUME NEW arm \in Arm, ValidArm(arm)
  PROVE  /\ Divided(arm) /\ Len(arm.charts) \in Nat \ {0} /\ arm.from # arm.to
         /\ DOMAIN arm.charts = 1..Len(arm.charts)
         /\ arm.charts[1].center = arm.from
         /\ \A i \in 1..Len(arm.charts) : Usable(arm.charts[i]) /\ Within(arm, arm.charts[i].center)
         /\ \A i \in 1..(Len(arm.charts) - 1) : Follows(arm, arm.charts[i], arm.charts[i + 1])
<1>1. /\ arm.charts \in Seq(Chart) /\ Len(arm.charts) \in Nat
      /\ DOMAIN arm.charts = 1..Len(arm.charts)
      /\ \A i \in DOMAIN arm.charts : arm.charts[i] \in Chart
  BY ArmType
<1>2. /\ arm.order >= 2 /\ arm.from # arm.to /\ arm.charts # <<>>
      /\ arm.charts[1].center = arm.from
      /\ \A i \in DOMAIN arm.charts :
           /\ arm.charts[i].scale[1] # 0 /\ arm.charts[i].radius[1] > 0
           /\ Within(arm, arm.charts[i].center)
           /\ i > 1 => Less(Along(arm, arm.charts[i - 1].center), Along(arm, arm.charts[i].center))
  BY DEF ValidArm
<1>3. Len(arm.charts) # 0
  <2>1. \A s \in Seq(Chart) : Len(s) = 0 => s = <<>>
    OBVIOUS
  <2> QED  BY <1>1, <1>2, <2>1
<1>4. Divided(arm)
  BY <1>2 DEF Divided
<1>5. \A i \in 1..Len(arm.charts) : Usable(arm.charts[i]) /\ Within(arm, arm.charts[i].center)
  BY <1>1, <1>2 DEF Usable
<1>6. ASSUME NEW i \in 1..(Len(arm.charts) - 1)
      PROVE  Follows(arm, arm.charts[i], arm.charts[i + 1])
  <2>1. i \in 1..Len(arm.charts) /\ i + 1 \in 1..Len(arm.charts) /\ i + 1 > 1 /\ (i + 1) - 1 = i
    BY <1>1
  <2>2. Less(Along(arm, arm.charts[(i + 1) - 1].center), Along(arm, arm.charts[i + 1].center))
    BY <1>1, <1>2, <2>1
  <2> QED  BY <1>4, <1>5, <2>1, <2>2 DEF Follows
<1> QED  BY <1>1, <1>2, <1>3, <1>4, <1>5, <1>6

(* A handoff that fits passes the test of one match.                       *)
LEMMA FitsStands ==
  ASSUME NEW arm \in Arm, NEW i, Follows(arm, arm.charts[i], arm.charts[i + 1]),
         NEW match, Fits(arm, arm.charts[i], arm.charts[i + 1], match)
  PROVE  MatchStands(arm, i, match)
<1> DEFINE left == arm.charts[i]
           right == arm.charts[i + 1]
           x == match.at
<1>1. Follows(arm, left, right) /\ Fits(arm, left, right, match)
  OBVIOUS
<1>2. MatchStands(arm, i, match) <=>
        /\ Less(Along(arm, left.center), Along(arm, x))
        /\ Less(Along(arm, x), Along(arm, right.center))
        /\ x \notin Forbidden(arm)
        /\ Local(left, x)[1] * Local(right, x)[1] < 0
        /\ InDisk(left, x) /\ InDisk(right, x)
        /\ right.singular <=> match.how = "approach"
        /\ AtMost(Absolute(Local(left, x)), IF right.singular THEN Limit(arm, left) ELSE HalfRadius(left))
        /\ AtMost(Absolute(Local(right, x)), Limit(arm, right))
        /\ right.singular => ~left.singular /\ x = ApproachPoint(arm, left, right)
  BY DEF MatchStands, Enveloped
<1> HIDE DEF left, right
<1>3. Divided(arm) /\ Usable(left) /\ Usable(right) /\ left.center \in Rational /\ right.center \in Rational
  BY <1>1, FollowsType
<1>4. /\ (left.scale[1] > 0) <=> (right.scale[1] > 0)
      /\ x \in Rational /\ x \notin Forbidden(arm)
      /\ Less(Along(arm, left.center), Along(arm, x))
      /\ Less(Along(arm, x), Along(arm, right.center))
      /\ AtMost(Away(arm, left, x), IF right.singular THEN Reach(arm, left) ELSE Half(left))
      /\ AtMost(Away(arm, right, x), Reach(arm, right))
      /\ right.singular <=> match.how = "approach"
      /\ right.singular => ~left.singular /\ x = ApproachPoint(arm, left, right)
  BY <1>1 DEF Fits
<1> HIDE DEF x
<1>5. Local(left, x)[1] * Local(right, x)[1] < 0
  BY <1>3, <1>4, LocalSide
<1>6. /\ AtMost(Absolute(Local(left, x)), IF right.singular THEN Limit(arm, left) ELSE HalfRadius(left))
      /\ AtMost(Absolute(Local(right, x)), Limit(arm, right))
  BY <1>3, <1>4, LocalReach
<1>7. ASSUME NEW c, Usable(c), AtMost(Away(arm, c, x), Half(c)) \/ AtMost(Away(arm, c, x), Reach(arm, c))
      PROVE  InDisk(c, x)
  <2>1. Away(arm, c, x) \in Rational
    BY <1>4, <1>7, AlongRational, SumsAreRational, SidesAreRational, ChartType DEF Away
  <2>2. /\ Half(c) \in Rational /\ Disk(c) \in Rational /\ Less(Half(c), Disk(c))
        /\ Reach(arm, c) \in Rational /\ AtMost(Reach(arm, c), Half(c))
    BY <1>3, <1>7, ReachLimits
  <2>3. AtMost(Away(arm, c, x), Half(c))
    BY <1>7, <2>1, <2>2, OrderOf
  <2>4. Less(Away(arm, c, x), Disk(c))
    BY <2>1, <2>2, <2>3, OrderOf
  <2> QED  BY <1>3, <1>4, <1>7, <2>4, LocalReach
<1>8. InDisk(left, x) /\ InDisk(right, x)
  BY <1>3, <1>4, <1>7
<1> QED  BY <1>2, <1>4, <1>5, <1>6, <1>8

(* A chart contains its center.                                            *)
LEMMA CenterInDisk ==
  ASSUME NEW arm, Divided(arm), NEW chart, Usable(chart)
  PROVE  InDisk(chart, chart.center)
<1> DEFINE y == Along(arm, chart.center)
           e == Disk(chart)
<1>1. chart.center \in Rational /\ y \in Rational
  BY ChartType, AlongRational
<1>2. e \in Rational /\ Half(chart) \in Rational /\ Half(chart)[1] > 0 /\ Less(Half(chart), e)
  BY ReachLimits
<1>3. PICK d \in Nat \ {0}, k, l, m \in Int : Worth(y, k, d) /\ Worth(e, l, d) /\ Worth(Half(chart), m, d)
  BY <1>1, <1>2, Common3
<1>4. Worth(Absolute(Minus(y, y)), Size(k - k), d)
  BY <1>3, WorthMinus, WorthAbsolute
<1>5. m > 0 /\ m < l
  BY <1>2, <1>3, WorthSign, WorthOrder
<1>6. Size(k - k) < l
  BY <1>5 DEF Size
<1>7. Less(Away(arm, chart, chart.center), e)
  BY <1>3, <1>4, <1>6, WorthOrder DEF Away
<1> QED  BY <1>1, <1>7, LocalReach

(* When every handoff is found, all of them together pass the final test.  *)
LEMMA PlanValid ==
  ASSUME NEW arm \in Arm, Finite(arm), ValidArm(arm),
         \A i \in 1..(Len(arm.charts) - 1) : Handoff(arm, i) # NoHandoff,
         InDisk(arm.charts[Len(arm.charts)], arm.to)
  PROVE  /\ ValidPlan(arm, Matches(arm))
         /\ \A i \in 1..(Len(arm.charts) - 1) :
              Fits(arm, arm.charts[i], arm.charts[i + 1], Handoff(arm, i))
<1> DEFINE n == Len(arm.charts)
           c(i) == Along(arm, arm.charts[i].center)
           x(i) == Handoff(arm, i).at
           y(i) == Along(arm, x(i))
           tile == Tiles(arm, Matches(arm))
<1>1. /\ Divided(arm) /\ n \in Nat \ {0} /\ DOMAIN arm.charts = 1..n
      /\ arm.charts[1].center = arm.from
      /\ \A i \in 1..n : Usable(arm.charts[i]) /\ Within(arm, arm.charts[i].center)
      /\ \A i \in 1..(n - 1) : Follows(arm, arm.charts[i], arm.charts[i + 1])
  BY ValidParts
<1>2. ASSUME NEW i \in 1..(n - 1)
      PROVE  Fits(arm, arm.charts[i], arm.charts[i + 1], Handoff(arm, i))
  BY <1>1, HandoffFits
<1>3. ASSUME NEW i \in 1..(n - 1)
      PROVE  MatchStands(arm, i, Handoff(arm, i)) /\ x(i) \in Rational /\ y(i) \in Rational
             /\ Less(c(i), y(i)) /\ Less(y(i), c(i + 1))
             /\ InDisk(arm.charts[i], x(i)) /\ InDisk(arm.charts[i + 1], x(i))
  <2>1. MatchStands(arm, i, Handoff(arm, i))
    BY <1>1, <1>2, FitsStands
  <2>2. x(i) \in Rational
    BY <1>2 DEF Fits
  <2>3. y(i) \in Rational
    BY <2>2, AlongRational
  <2> QED  BY <2>1, <2>2, <2>3 DEF MatchStands
<1>4. ASSUME NEW i \in 1..n
      PROVE  c(i) \in Rational /\ AtMost(c(i), Along(arm, arm.to))
  BY <1>1, ChartType, AlongRational DEF Within
<1>5. Matches(arm) = [i \in 1..(n - 1) |-> Handoff(arm, i)] /\ DOMAIN Matches(arm) = 1..(n - 1)
      /\ \A i \in 1..(n - 1) : Matches(arm)[i] = Handoff(arm, i)
  BY DEF Matches
<1>6. /\ DOMAIN tile = 1..n
      /\ \A i \in 1..n : /\ tile[i].begin = IF i = 1 THEN arm.from ELSE x(i - 1)
                         /\ tile[i].end = IF i = n THEN arm.to ELSE x(i)
  <2>1. ASSUME NEW i \in 1..n
        PROVE  /\ tile[i].begin = IF i = 1 THEN arm.from ELSE Matches(arm)[i - 1].at
               /\ tile[i].end = IF i = n THEN arm.to ELSE Matches(arm)[i].at
    BY <1>1 DEF Tiles
  <2>2. \A i \in 1..n : (i # 1 => i - 1 \in 1..(n - 1)) /\ (i # n => i \in 1..(n - 1))
    BY <1>1
  <2>3. DOMAIN tile = 1..n
    BY <1>1 DEF Tiles
  <2> HIDE DEF tile, n
  <2> QED  BY <1>5, <2>1, <2>2, <2>3
<1> HIDE DEF tile, n
<1>7. ASSUME NEW i \in 1..n
      PROVE  /\ AtMost(Along(arm, tile[i].begin), c(i)) /\ Along(arm, tile[i].begin) \in Rational
             /\ InDisk(arm.charts[i], tile[i].begin)
  <2>1. CASE i = 1
    <3>1. tile[i].begin = arm.charts[i].center
      BY <1>1, <1>6, <2>1
    <3> QED  BY <1>1, <1>4, <3>1, AtMostSelf, CenterInDisk
  <2>2. CASE i # 1
    <3>1. i - 1 \in 1..(n - 1) /\ (i - 1) + 1 = i
      BY <1>1, <2>2
    <3>2. tile[i].begin = x(i - 1)
      BY <1>6, <2>2
    <3>3. y(i - 1) \in Rational /\ Less(y(i - 1), c((i - 1) + 1)) /\ InDisk(arm.charts[(i - 1) + 1], x(i - 1))
      BY <1>3, <3>1
    <3>4. y(i - 1) \in Rational /\ Less(y(i - 1), c(i)) /\ InDisk(arm.charts[i], x(i - 1))
      BY <3>1, <3>3
    <3> QED  BY <1>4, <3>2, <3>4, OrderOf
  <2> QED  BY <2>1, <2>2
<1>8. ASSUME NEW i \in 1..n
      PROVE  /\ AtMost(c(i), Along(arm, tile[i].end)) /\ Along(arm, tile[i].end) \in Rational
             /\ InDisk(arm.charts[i], tile[i].end)
  <2>1. CASE i = n
    <3>1. tile[i].end = arm.to
      BY <1>6, <2>1
    <3> QED  BY <1>4, <2>1, <3>1, ArmType, AlongRational DEF n
  <2>2. CASE i # n
    <3>1. i \in 1..(n - 1)
      BY <1>1, <2>2
    <3>2. tile[i].end = x(i)
      BY <1>6, <2>2
    <3> QED  BY <1>3, <1>4, <3>1, <3>2, OrderOf
  <2> QED  BY <2>1, <2>2
<1>9. \A i \in 1..n : /\ AtMost(Along(arm, tile[i].begin), Along(arm, tile[i].end))
                      /\ InDisk(arm.charts[i], tile[i].begin) /\ InDisk(arm.charts[i], tile[i].end)
  BY <1>4, <1>7, <1>8, OrderOf
<1>10. ASSUME NEW i \in 1..(n - 1), i > 1
       PROVE  Less(y(i - 1), y(i))
  <2>1. i - 1 \in 1..(n - 1) /\ (i - 1) + 1 = i /\ i \in 1..n
    BY <1>1, <1>10
  <2>2. Less(y(i - 1), c((i - 1) + 1)) /\ y(i - 1) \in Rational
    BY <1>3, <2>1
  <2>3. Less(y(i - 1), c(i)) /\ AtMost(c(i), y(i)) /\ y(i) \in Rational /\ c(i) \in Rational
    BY <1>3, <1>4, <2>1, <2>2, OrderOf
  <2> QED  BY <2>2, <2>3, OrderOf
<1>11. ValidPlan(arm, Matches(arm))
  <2>1. ASSUME NEW i \in DOMAIN Matches(arm)
        PROVE  /\ MatchStands(arm, i, Matches(arm)[i])
               /\ i > 1 => Less(Along(arm, Matches(arm)[i - 1].at), Along(arm, Matches(arm)[i].at))
    <3>1. i \in 1..(n - 1) /\ Matches(arm)[i] = Handoff(arm, i) /\ MatchStands(arm, i, Handoff(arm, i))
      BY <1>3, <1>5
    <3>2. i > 1 => i - 1 \in 1..(n - 1)
      BY <1>1, <3>1
    <3>3. i > 1 => Matches(arm)[i - 1] = Handoff(arm, i - 1)
      BY <1>5, <3>2
    <3> QED  BY <1>10, <3>1, <3>3
  <2>2. \A i \in DOMAIN tile : /\ AtMost(Along(arm, tile[i].begin), Along(arm, tile[i].end))
                               /\ InDisk(arm.charts[i], tile[i].begin) /\ InDisk(arm.charts[i], tile[i].end)
    BY <1>6, <1>9
  <2> QED  BY <2>1, <2>2 DEF ValidPlan, MatchStands, tile
<1> QED  BY <1>2, <1>11 DEF n

(* The plan of an arm that is not refused.                                 *)
Made(arm) == [matches |-> Matches(arm), tiles |-> Tiles(arm, Matches(arm))]

(* plan_exact_arm gives an arm its plan exactly when its charts can be     *)
(* joined and the last one holds the end: no order of attempts, limit or   *)
(* point to avoid loses an arm, and the final test refuses nothing.        *)
THEOREM PlannableIsPlanned ==
  ASSUME NEW arm \in Arm, Finite(arm)
  PROVE  /\ PlanArm(arm) # Refused <=> Plannable(arm)
         /\ PlanArm(arm) # Refused =>
              /\ ValidArm(arm) /\ PlanArm(arm) = Made(arm)
              /\ \A i \in 1..(Len(arm.charts) - 1) :
                   Fits(arm, arm.charts[i], arm.charts[i + 1], Handoff(arm, i))
<1> DEFINE n == Len(arm.charts)
           Found == \A i \in 1..(n - 1) : Handoff(arm, i) # NoHandoff
           Arrives == InDisk(arm.charts[n], arm.to)
<1>1. Range(Matches(arm)) = {Handoff(arm, i) : i \in 1..(n - 1)}
  BY DEF Range, Matches
<1>2. NoHandoff \notin Range(Matches(arm)) <=> Found
  BY <1>1
<1>3. PlanArm(arm) = IF ValidArm(arm) /\ Found /\ ValidPlan(arm, Matches(arm)) THEN Made(arm) ELSE Refused
  BY <1>2 DEF PlanArm, Matches, Made
<1>4. ASSUME ValidArm(arm)
      PROVE  Made(arm) # Refused /\ n \in Nat \ {0} /\ DOMAIN arm.charts = 1..n
  <2>1. n \in Nat \ {0} /\ DOMAIN arm.charts = 1..n
    BY <1>4, ValidParts
  <2>2. DOMAIN Tiles(arm, Matches(arm)) = 1..n
    BY <2>1 DEF Tiles
  <2>3. 1 \in DOMAIN Tiles(arm, Matches(arm))
    BY <2>1, <2>2
  <2>4. Made(arm).tiles = Tiles(arm, Matches(arm)) /\ Refused.tiles = <<>>
    BY DEF Made, Refused
  <2>5. DOMAIN <<>> = {}
    OBVIOUS
  <2> QED  BY <2>1, <2>3, <2>4, <2>5
<1>5. ASSUME ValidArm(arm), Found, ValidPlan(arm, Matches(arm))
      PROVE  Arrives
  <2>1. n \in 1..n /\ DOMAIN arm.charts = 1..n
    BY <1>4, <1>5
  <2>2. DOMAIN Tiles(arm, Matches(arm)) = 1..n /\ Tiles(arm, Matches(arm))[n].end = arm.to
    BY <2>1 DEF Tiles
  <2> QED  BY <1>5, <2>1, <2>2 DEF ValidPlan
<1>6. ASSUME ValidArm(arm), Found, Arrives
      PROVE  /\ ValidPlan(arm, Matches(arm))
             /\ \A i \in 1..(n - 1) : Fits(arm, arm.charts[i], arm.charts[i + 1], Handoff(arm, i))
  BY <1>6, PlanValid
<1>7. ASSUME ValidArm(arm), NEW i \in 1..(n - 1)
      PROVE  Handoff(arm, i) # NoHandoff <=> Joinable(arm, arm.charts[i], arm.charts[i + 1])
  <2>1. Follows(arm, arm.charts[i], arm.charts[i + 1])
    BY <1>7, ValidParts
  <2>2. Handoff(arm, i) # NoHandoff => Fits(arm, arm.charts[i], arm.charts[i + 1], Handoff(arm, i))
    BY <2>1, HandoffFits
  <2> QED  BY <2>1, <2>2, JoinableHandoff, FitsJoinable
<1>8. Plannable(arm) <=> ValidArm(arm) /\ Found /\ Arrives
  BY <1>7 DEF Plannable
<1> QED  BY <1>3, <1>4, <1>5, <1>6, <1>8

(* A plan is sound.                                                        *)
LEMMA PlanIsSound ==
  ASSUME NEW arm \in Arm, Finite(arm), PlanArm(arm) # Refused
  PROVE  Sound(arm, PlanArm(arm))
<1> DEFINE n == Len(arm.charts)
           c(i) == Along(arm, arm.charts[i].center)
           match == Matches(arm)
           tile == Tiles(arm, match)
<1>1. /\ ValidArm(arm) /\ PlanArm(arm) = Made(arm)
      /\ \A i \in 1..(n - 1) : Fits(arm, arm.charts[i], arm.charts[i + 1], Handoff(arm, i))
  BY PlannableIsPlanned
<1>2. /\ Divided(arm) /\ n \in Nat \ {0} /\ DOMAIN arm.charts = 1..n
      /\ arm.charts[1].center = arm.from
      /\ \A i \in 1..n : Usable(arm.charts[i]) /\ Within(arm, arm.charts[i].center)
  BY <1>1, ValidParts
<1>3. DOMAIN match = 1..(n - 1) /\ \A i \in 1..(n - 1) : match[i] = Handoff(arm, i)
  BY DEF Matches
<1>4. PlanArm(arm).matches = match /\ PlanArm(arm).tiles = tile
  BY <1>1 DEF Made
<1>5. /\ DOMAIN tile = 1..n
      /\ \A i \in 1..n :
           /\ tile[i].begin = IF i = 1 THEN arm.from ELSE match[i - 1].at
           /\ tile[i].end = IF i = n THEN arm.to ELSE match[i].at
           /\ tile[i].crosses <=> /\ arm.charts[i].singular
                                  /\ Less(Along(arm, tile[i].begin), c(i))
                                  /\ Less(c(i), Along(arm, tile[i].end))
  BY <1>2 DEF Tiles
<1> HIDE DEF match, tile
<1>6. ASSUME NEW i \in DOMAIN match
      PROVE  /\ match[i].at \notin Forbidden(arm)
             /\ AtMost(Absolute(Minus(match[i].at, arm.charts[i].center)),
                       IF arm.charts[i + 1].singular THEN Safe(arm, arm.charts[i]) ELSE Half(arm.charts[i]))
             /\ AtMost(Absolute(Minus(match[i].at, arm.charts[i + 1].center)), Safe(arm, arm.charts[i + 1]))
  <2> DEFINE left == arm.charts[i]
             right == arm.charts[i + 1]
             x == match[i].at
  <2>1. i \in 1..(n - 1) /\ i \in 1..n /\ i + 1 \in 1..n /\ match[i] = Handoff(arm, i)
    BY <1>2, <1>3
  <2>2. Fits(arm, left, right, match[i]) /\ Usable(left) /\ Usable(right)
    BY <1>1, <1>2, <2>1
  <2> HIDE DEF left, right
  <2>3. /\ x \in Rational /\ x \notin Forbidden(arm)
        /\ AtMost(Away(arm, left, x), IF right.singular THEN Reach(arm, left) ELSE Half(left))
        /\ AtMost(Away(arm, right, x), Reach(arm, right))
    BY <2>2 DEF Fits
  <2>4. Safe(arm, left) = Reach(arm, left) /\ Safe(arm, right) = Reach(arm, right)
    BY <1>2, <2>2, ReachLimits
  <2>5. left.center \in Rational /\ right.center \in Rational
    BY <2>2, ChartType
  <2>6. Away(arm, left, x) = Absolute(Minus(x, left.center)) /\ Away(arm, right, x) = Absolute(Minus(x, right.center))
    BY <2>3, <2>5, AlongDistance DEF Away
  <2> QED  BY <2>3, <2>4, <2>6 DEF left, right
<1>7. ASSUME NEW x \in arm.singular \ {arm.from, arm.to}, Within(arm, x)
      PROVE  \E i \in DOMAIN tile : tile[i].crosses /\ arm.charts[i].center = x
  <2>1. PICK i \in DOMAIN arm.charts : arm.charts[i].singular /\ arm.charts[i].center = x
    BY <1>1, <1>7 DEF ValidArm
  <2>2. i \in 1..n /\ i # 1
    BY <1>2, <1>7, <2>1
  <2>3. x \in Rational /\ arm.to \in Rational
    BY <1>7, ArmType
  <2>4. Less(Along(arm, tile[i].begin), c(i))
    <3>1. i - 1 \in 1..(n - 1) /\ (i - 1) + 1 = i
      BY <1>2, <2>2
    <3>2. Fits(arm, arm.charts[i - 1], arm.charts[(i - 1) + 1], Handoff(arm, i - 1))
      BY <1>1, <3>1
    <3>3. Fits(arm, arm.charts[i - 1], arm.charts[i], Handoff(arm, i - 1))
      BY <3>1, <3>2
    <3>4. tile[i].begin = Handoff(arm, i - 1).at
      BY <1>3, <1>5, <2>2, <3>1
    <3> QED  BY <3>3, <3>4 DEF Fits
  <2>5. Less(c(i), Along(arm, tile[i].end))
    <3>1. CASE i = n
      <4>1. tile[i].end = arm.to
        BY <1>5, <2>2, <3>1
      <4>2. AtMost(Along(arm, x), Along(arm, arm.to))
        BY <1>7 DEF Within
      <4>3. Along(arm, x) # Along(arm, arm.to)
        BY <1>7, <2>3, AlongRational
      <4> QED  BY <2>1, <2>3, <4>1, <4>2, <4>3, AlongRational, OrderOf
    <3>2. CASE i # n
      <4>1. i \in 1..(n - 1)
        BY <1>2, <2>2, <3>2
      <4>2. Fits(arm, arm.charts[i], arm.charts[i + 1], Handoff(arm, i))
        BY <1>1, <4>1
      <4>3. tile[i].end = Handoff(arm, i).at
        BY <1>3, <1>5, <2>2, <3>2, <4>1
      <4> QED  BY <4>2, <4>3 DEF Fits
    <3> QED  BY <3>1, <3>2
  <2>6. tile[i].crosses
    BY <1>5, <2>1, <2>2, <2>4, <2>5
  <2> QED  BY <1>5, <2>1, <2>2, <2>6
<1> QED  BY <1>4, <1>6, <1>7 DEF Sound

------------------------------------------------------------------------------
(* The other side of the origin.                                           *)

(* Negation commutes with sums and reverses the order,                     *)
LEMMA NegateLaws ==
  ASSUME NEW a \in Rational, NEW b \in Rational
  PROVE  /\ Plus(Negate(a), Negate(b)) = Negate(Plus(a, b))
         /\ Minus(Negate(a), Negate(b)) = Negate(Minus(a, b))
         /\ Absolute(Negate(a)) = Absolute(a)
         /\ Less(Negate(a), Negate(b)) <=> Less(b, a)
         /\ Negate(a) = Negate(b) <=> a = b
<1>1. PICK d \in Nat \ {0}, k, l \in Int : Worth(a, k, d) /\ Worth(b, l, d)
  BY Common2
<1>2. Worth(Negate(a), -k, d) /\ Worth(Negate(b), -l, d)
  BY <1>1, WorthNegate
<1>3. Worth(Plus(Negate(a), Negate(b)), (-k) + (-l), d) /\ Worth(Minus(Negate(a), Negate(b)), (-k) - (-l), d)
  BY <1>2, WorthPlus, WorthMinus
<1>4. Worth(Plus(a, b), k + l, d) /\ Worth(Minus(a, b), k - l, d)
  BY <1>1, WorthPlus, WorthMinus
<1>5. Worth(Negate(Plus(a, b)), -(k + l), d) /\ Worth(Negate(Minus(a, b)), -(k - l), d)
  BY <1>4, WorthNegate
<1>6. Worth(Absolute(a), Size(k), d) /\ Worth(Absolute(Negate(a)), Size(-k), d)
  BY <1>1, <1>2, WorthAbsolute
<1>7. Size(-k) = Size(k) /\ (-k) + (-l) = -(k + l) /\ (-k) - (-l) = -(k - l)
  BY DEF Size
<1>8. -k = -l <=> k = l
  OBVIOUS
<1>9. Negate(a) = Negate(b) <=> a = b
  BY <1>1, <1>2, <1>8, WorthOrder
<1>10. Less(Negate(a), Negate(b)) <=> Less(b, a)
  BY <1>1, <1>2, WorthOrder
<1> QED  BY <1>3, <1>5, <1>6, <1>7, <1>9, <1>10, WorthOrder

(* Negation commutes with division,                                        *)
LEMMA NegateOver ==
  ASSUME NEW a \in Rational, NEW s \in Rational, s[1] # 0
  PROVE  Over(Negate(a), s) = Negate(Over(a, s))
<1> DEFINE m == a[1]
           d == a[2]
           p == s[1]
           e == s[2]
<1>1. Worth(a, m, d) /\ Worth(s, p, e) /\ Worth(Negate(a), -m, d)
  BY WorthSelf, WorthNegate
<1>2. m \in Int /\ e \in Int /\ p \in Int /\ p # 0
  BY <1>1, WorthType
<1> HIDE DEF m, d, p, e
<1>3. CASE p > 0
  <2>1. Worth(Over(a, s), m * e, d * p) /\ Worth(Over(Negate(a), s), (-m) * e, d * p)
    BY <1>1, <1>2, <1>3, WorthOver
  <2>2. Worth(Negate(Over(a, s)), -(m * e), d * p)
    BY <2>1, WorthNegate
  <2>3. (-m) * e = -(m * e)
    BY <1>2
  <2> QED  BY <2>1, <2>2, <2>3, WorthOrder
<1>4. CASE p < 0
  <2>1. Worth(Over(a, s), -(m * e), d * (-p)) /\ Worth(Over(Negate(a), s), -((-m) * e), d * (-p))
    BY <1>1, <1>2, <1>4, WorthOver
  <2>2. Worth(Negate(Over(a, s)), -(-(m * e)), d * (-p))
    BY <2>1, WorthNegate
  <2>3. -((-m) * e) = -(-(m * e))
    BY <1>2
  <2> QED  BY <2>1, <2>2, <2>3, WorthOrder
<1> QED  BY <1>2, <1>3, <1>4

(* and with reduction,                                                     *)
LEMMA NegateRat ==
  ASSUME NEW n \in Int, NEW d \in Nat \ {0}
  PROVE  Rat(n, d) \in Rational /\ Rat(-n, d) = Negate(Rat(n, d))
<1>1. Worth(Rat(n, d), n, d) /\ Worth(Rat(-n, d), -n, d)
  BY RatWorth, -n \in Int DEF Worth
<1>2. Worth(Negate(Rat(n, d)), -n, d)
  BY <1>1, WorthNegate
<1> QED  BY <1>1, <1>2, WorthOrder, WorthType

(* The parts of a mirrored chart,                                          *)
LEMMA MirrorChartParts ==
  ASSUME NEW chart \in Chart
  PROVE  /\ MirrorChart(chart) \in Chart
         /\ MirrorChart(chart).center = Negate(chart.center)
         /\ MirrorChart(chart).scale = chart.scale /\ MirrorChart(chart).radius = chart.radius
         /\ MirrorChart(chart).singular = chart.singular
<1>1. chart.center \in Rational
  BY DEF Chart
<1>2. Negate(chart.center) \in Rational
  BY <1>1, SidesAreRational
<1> QED  BY <1>2 DEF MirrorChart, Chart

(* of a mirrored set,                                                      *)
LEMMA MirrorSetParts ==
  ASSUME NEW S \in SUBSET Rational
  PROVE  /\ MirrorSet(S) \subseteq Rational
         /\ \A x \in Rational : Negate(x) \in MirrorSet(S) <=> x \in S
         /\ IsFiniteSet(S) => IsFiniteSet(MirrorSet(S)) /\ Cardinality(MirrorSet(S)) = Cardinality(S)
<1>1. \A x \in S : Negate(x) \in Rational /\ Negate(Negate(x)) = x
  BY SidesAreRational
<1>2. MirrorSet(S) = {Negate(x) : x \in S}
  BY DEF MirrorSet
<1>3. MirrorSet(S) \subseteq Rational
  BY <1>1, <1>2
<1>4. ASSUME NEW x \in Rational  PROVE Negate(x) \in MirrorSet(S) <=> x \in S
  <2>1. ASSUME NEW y \in S, Negate(x) = Negate(y)  PROVE x \in S
    BY <2>1, NegateLaws
  <2> QED  BY <1>2, <2>1
<1>5. ASSUME IsFiniteSet(S)
      PROVE  IsFiniteSet(MirrorSet(S)) /\ Cardinality(MirrorSet(S)) = Cardinality(S)
  <2> DEFINE f == [x \in S |-> Negate(x)]
  <2>1. f \in Bijection(S, MirrorSet(S))
    <3>1. f \in [S -> MirrorSet(S)] /\ \A y \in MirrorSet(S) : \E x \in S : f[x] = y
      BY <1>2
    <3>2. \A x, y \in S : f[x] = f[y] => x = y
      BY NegateLaws
    <3>3. f \in Surjection(S, MirrorSet(S))
      BY <3>1 DEF Surjection
    <3>4. f \in Injection(S, MirrorSet(S))
      BY <3>1, <3>2 DEF Injection, IsInjective
    <3> QED  BY <3>3, <3>4 DEF Bijection
  <2> HIDE DEF f
  <2>2. f \in Surjection(S, MirrorSet(S))
    BY <2>1 DEF Bijection
  <2>3. IsFiniteSet(MirrorSet(S))
    BY <1>5, <2>2, FS_Surjection
  <2>4. Cardinality(MirrorSet(S)) = Cardinality(S)
    <3>1. ExistsBijection(S, MirrorSet(S))
      BY <2>1 DEF ExistsBijection
    <3> QED  BY <1>5, <3>1, FS_Bijection
  <2> QED  BY <2>3, <2>4
<1> QED  BY <1>3, <1>4, <1>5

(* and of a mirrored arm.                                                  *)
LEMMA MirrorArmParts ==
  ASSUME NEW arm \in Arm
  PROVE  LET mirror == MirrorArm(arm) IN
         /\ mirror \in Arm
         /\ mirror.from = Negate(arm.from) /\ mirror.to = Negate(arm.to) /\ mirror.order = arm.order
         /\ mirror.singular = MirrorSet(arm.singular) /\ mirror.boundary = MirrorSet(arm.boundary)
         /\ DOMAIN mirror.charts = 1..Len(arm.charts) /\ Len(mirror.charts) = Len(arm.charts)
         /\ \A i \in 1..Len(arm.charts) : mirror.charts[i] = MirrorChart(arm.charts[i])
<1> DEFINE cs == [i \in DOMAIN arm.charts |-> MirrorChart(arm.charts[i])]
           mirror == MirrorArm(arm)
<1>1. /\ arm.from \in Rational /\ arm.to \in Rational /\ arm.charts \in Seq(Chart)
      /\ Len(arm.charts) \in Nat /\ DOMAIN arm.charts = 1..Len(arm.charts)
      /\ \A i \in DOMAIN arm.charts : arm.charts[i] \in Chart
      /\ arm.singular \subseteq Rational /\ arm.boundary \subseteq Rational
  BY ArmType
<1>2. mirror = [arm EXCEPT !.from = Negate(@), !.to = Negate(@), !.singular = MirrorSet(@),
                           !.boundary = MirrorSet(@), !.charts = cs]
  BY DEF MirrorArm
<1>3. /\ cs \in Seq(Chart) /\ DOMAIN cs = 1..Len(arm.charts) /\ Len(cs) = Len(arm.charts)
      /\ \A i \in 1..Len(arm.charts) : cs[i] = MirrorChart(arm.charts[i])
  <2>1. \A i \in 1..Len(arm.charts) : MirrorChart(arm.charts[i]) \in Chart
    BY <1>1, MirrorChartParts
  <2>2. cs \in [1..Len(arm.charts) -> Chart]
    BY <1>1, <2>1
  <2> QED  BY <1>1, <2>2
<1>4. Negate(arm.from) \in Rational /\ Negate(arm.to) \in Rational
  BY <1>1, SidesAreRational
<1>5. MirrorSet(arm.singular) \subseteq Rational /\ MirrorSet(arm.boundary) \subseteq Rational
  BY <1>1, MirrorSetParts
<1> HIDE DEF cs, mirror
<1>6. /\ mirror.from = Negate(arm.from) /\ mirror.to = Negate(arm.to) /\ mirror.order = arm.order
      /\ mirror.singular = MirrorSet(arm.singular) /\ mirror.boundary = MirrorSet(arm.boundary)
      /\ mirror.charts = cs
  BY <1>2 DEF Arm
<1>7. mirror \in Arm
  BY <1>2, <1>3, <1>4, <1>5 DEF Arm
<1> QED  BY <1>3, <1>6, <1>7 DEF mirror

(* Coordinates along an arm are those along its mirror.                    *)
LEMMA MirrorAlong ==
  ASSUME NEW arm \in Arm, arm.from # arm.to, NEW x \in Rational
  PROVE  /\ Sign(MirrorArm(arm)) = -Sign(arm)
         /\ Along(MirrorArm(arm), Negate(x)) = Along(arm, x)
         /\ Along(MirrorArm(arm), x) = Negate(Along(arm, x))
<1> DEFINE mirror == MirrorArm(arm)
<1>1. arm.from \in Rational /\ arm.to \in Rational
  BY ArmType
<1>2. mirror.from = Negate(arm.from) /\ mirror.to = Negate(arm.to)
  BY MirrorArmParts
<1> HIDE DEF mirror
<1>3. Less(mirror.from, mirror.to) <=> Less(arm.to, arm.from)
  BY <1>1, <1>2, NegateLaws
<1>4. Less(arm.to, arm.from) <=> ~Less(arm.from, arm.to)
  BY <1>1, OrderOf DEF AtMost
<1>5. Sign(mirror) = -Sign(arm)
  BY <1>3, <1>4 DEF Sign
<1>6. Sign(arm) = 1 \/ Sign(arm) = -1
  BY SignType
<1>7. Negate(Negate(x)) = x
  BY SidesAreRational
<1>8. CASE Sign(arm) = 1
  <2>1. Sign(mirror) < 0 /\ ~(Sign(arm) < 0)
    BY <1>5, <1>8
  <2> QED  BY <1>5, <1>7, <2>1 DEF Along, mirror
<1>9. CASE Sign(arm) = -1
  <2>1. ~(Sign(mirror) < 0) /\ Sign(arm) < 0
    BY <1>5, <1>9
  <2> QED  BY <1>5, <1>7, <2>1 DEF Along, mirror
<1> QED  BY <1>6, <1>8, <1>9

(* The mirrored points are forbidden.                                      *)
LEMMA MirrorForbidden ==
  ASSUME NEW arm \in Arm, NEW x \in Rational
  PROVE  Negate(x) \in Forbidden(MirrorArm(arm)) <=> x \in Forbidden(arm)
<1>1. arm.from \in Rational /\ arm.to \in Rational /\ arm.singular \subseteq Rational /\ arm.boundary \subseteq Rational
  BY ArmType
<1>2. /\ Negate(x) \in MirrorSet(arm.singular) <=> x \in arm.singular
      /\ Negate(x) \in MirrorSet(arm.boundary) <=> x \in arm.boundary
  BY <1>1, MirrorSetParts
<1>3. (Negate(x) = Negate(arm.from) <=> x = arm.from) /\ (Negate(x) = Negate(arm.to) <=> x = arm.to)
  BY <1>1, NegateLaws
<1> QED  BY <1>2, <1>3, MirrorArmParts DEF Forbidden

(* The mirror keeps limits and reaches,                                    *)
LEMMA MirrorReach ==
  ASSUME NEW arm \in Arm, NEW chart, Usable(chart)
  PROVE  /\ Usable(MirrorChart(chart))
         /\ HalfRadius(MirrorChart(chart)) = HalfRadius(chart)
         /\ Limit(MirrorArm(arm), MirrorChart(chart)) = Limit(arm, chart)
         /\ Reach(MirrorArm(arm), MirrorChart(chart)) = Reach(arm, chart)
         /\ Margin(MirrorArm(arm), MirrorChart(chart)) = Margin(arm, chart)
<1>1. chart \in Chart /\ chart.scale[1] # 0 /\ chart.radius[1] > 0
  BY DEF Usable
<1>2. /\ MirrorChart(chart) \in Chart /\ MirrorChart(chart).scale = chart.scale
      /\ MirrorChart(chart).radius = chart.radius
  BY <1>1, MirrorChartParts
<1>3. MirrorArm(arm).order = arm.order
  BY MirrorArmParts
<1>4. Usable(MirrorChart(chart))
  BY <1>1, <1>2 DEF Usable
<1>5. HalfRadius(MirrorChart(chart)) = HalfRadius(chart)
  BY <1>2 DEF HalfRadius
<1>6. Limit(MirrorArm(arm), MirrorChart(chart)) = Limit(arm, chart)
  BY <1>3, <1>5 DEF Limit
<1>7. Reach(MirrorArm(arm), MirrorChart(chart)) = Reach(arm, chart)
  BY <1>2, <1>6 DEF Reach
<1>8. Margin(MirrorArm(arm), MirrorChart(chart)) = Margin(arm, chart)
  BY <1>7 DEF Margin
<1> QED  BY <1>4, <1>5, <1>6, <1>7, <1>8

(* distances in a chart,                                                   *)
LEMMA MirrorLocal ==
  ASSUME NEW chart, Usable(chart), NEW x \in Rational
  PROVE  /\ Absolute(Local(MirrorChart(chart), Negate(x))) = Absolute(Local(chart, x))
         /\ InDisk(MirrorChart(chart), Negate(x)) <=> InDisk(chart, x)
<1> DEFINE v == Minus(x, chart.center)
<1>1. /\ chart \in Chart /\ chart.center \in Rational /\ chart.scale \in Rational /\ chart.scale[1] # 0
  BY ChartType DEF Usable
<1>2. v \in Rational
  BY <1>1, SumsAreRational
<1>3. Local(chart, x) = Over(v, chart.scale)
  BY DEF Local
<1>4. Minus(Negate(x), Negate(chart.center)) = Negate(v)
  BY <1>1, NegateLaws
<1>5. Local(MirrorChart(chart), Negate(x)) = Over(Negate(v), chart.scale)
  BY <1>1, <1>4, MirrorChartParts DEF Local
<1> HIDE DEF v
<1>6. Local(chart, x) \in Rational
  BY <1>1, <1>2, <1>3, ProductsAreRational
<1>7. Local(MirrorChart(chart), Negate(x)) = Negate(Local(chart, x))
  BY <1>1, <1>2, <1>3, <1>5, NegateOver
<1>8. Absolute(Local(MirrorChart(chart), Negate(x))) = Absolute(Local(chart, x))
  BY <1>6, <1>7, NegateLaws
<1> QED  BY <1>1, <1>8, MirrorChartParts DEF InDisk

(* division points,                                                        *)
LEMMA MirrorDivision ==
  ASSUME NEW arm, Divided(arm), arm.from # arm.to, NEW chart, Usable(chart), NEW t \in {1, -1}
  PROVE  Division(MirrorArm(arm), MirrorChart(chart), t) = Negate(Division(arm, chart, t))
<1> DEFINE p == Size(chart.scale[1])
           e == chart.scale[2]
           k == arm.order
           n == t * Sign(arm) * p
           mirror == MirrorArm(arm)
<1>1. arm \in Arm /\ chart \in Chart /\ chart.center \in Rational /\ chart.scale \in Rational
  BY ChartType DEF Divided, Usable
<1>2. p \in Nat /\ e \in Nat \ {0} /\ k \in Nat \ {0}
  <2>1. chart.scale[1] \in Int /\ chart.scale[2] \in Nat /\ chart.scale[2] > 0
    BY <1>1, RationalType
  <2> QED  BY <2>1 DEF Divided, Arm, Size
<1>3. k * e \in Nat \ {0}
  BY <1>2, PositiveProduct
<1>4. Sign(mirror) = -Sign(arm) /\ mirror.order = k
  BY <1>1, MirrorAlong, MirrorArmParts
<1>5. MirrorChart(chart).center = Negate(chart.center) /\ MirrorChart(chart).scale = chart.scale
  BY <1>1, MirrorChartParts
<1>6. Division(mirror, MirrorChart(chart), t) = Plus(Negate(chart.center), Rat(t * Sign(mirror) * p, k * e))
  BY <1>4, <1>5 DEF Division
<1>7. Division(arm, chart, t) = Plus(chart.center, Rat(n, k * e))
  BY DEF Division
<1>8. t * Sign(mirror) * p = -n /\ n \in Int
  <2>1. Sign(arm) \in {1, -1}
    BY SignType
  <2> HIDE DEF p, mirror
  <2> QED  BY <1>2, <1>4, <2>1
<1> HIDE DEF n, p, e, k
<1>9. Rat(n, k * e) \in Rational /\ Rat(-n, k * e) = Negate(Rat(n, k * e))
  BY <1>3, <1>8, NegateRat
<1>10. Plus(Negate(chart.center), Negate(Rat(n, k * e))) = Negate(Plus(chart.center, Rat(n, k * e)))
  BY <1>1, <1>9, NegateLaws
<1> QED  BY <1>6, <1>7, <1>8, <1>9, <1>10

(* centers and gaps,                                                       *)
LEMMA MirrorCenters ==
  ASSUME NEW arm, arm.from # arm.to, NEW left, NEW right, Follows(arm, left, right)
  PROVE  /\ Along(MirrorArm(arm), MirrorChart(left).center) = Along(arm, left.center)
         /\ Along(MirrorArm(arm), MirrorChart(right).center) = Along(arm, right.center)
         /\ Gap(MirrorArm(arm), MirrorChart(left), MirrorChart(right)) = Gap(arm, left, right)
<1>1. arm \in Arm /\ left \in Chart /\ right \in Chart /\ left.center \in Rational /\ right.center \in Rational
  BY FollowsType DEF Usable
<1>2. /\ Along(MirrorArm(arm), MirrorChart(left).center) = Along(arm, left.center)
      /\ Along(MirrorArm(arm), MirrorChart(right).center) = Along(arm, right.center)
  BY <1>1, MirrorChartParts, MirrorAlong
<1> QED  BY <1>2 DEF Gap

(* balanced points,                                                        *)
LEMMA MirrorBalance ==
  ASSUME NEW arm, arm.from # arm.to, NEW left, NEW right, Follows(arm, left, right),
         NEW a \in Rational, NEW b \in Rational, a[1] > 0, b[1] > 0
  PROVE  Balance(MirrorArm(arm), MirrorChart(left), MirrorChart(right), a, b)
           = Negate(Balance(arm, left, right, a, b))
<1> DEFINE z == Balanced(Along(arm, left.center), Along(arm, right.center), a, b)
<1>1. /\ arm \in Arm /\ Along(arm, left.center) \in Rational /\ Along(arm, right.center) \in Rational
      /\ Less(Along(arm, left.center), Along(arm, right.center))
  BY FollowsType
<1>2. z \in Rational
  BY <1>1, BalancePoint
<1>3. Balance(arm, left, right, a, b) = Along(arm, z)
  BY DEF Balance, Balanced, Gap
<1>4. Balance(MirrorArm(arm), MirrorChart(left), MirrorChart(right), a, b) = Along(MirrorArm(arm), z)
  BY MirrorCenters DEF Balance, Balanced, Gap
<1> HIDE DEF z
<1> QED  BY <1>1, <1>2, <1>3, <1>4, MirrorAlong

(* and leaves zero alone.                                                  *)
LEMMA NegateZero ==
  /\ Negate(<<0, 1>>) = <<0, 1>>
  /\ <<0, 1>> \in Rational
<1>1. \A z \in Int : z < 1 /\ z > -1 => -z = z /\ z = 0
  OBVIOUS
<1>2. Worth(<<0, 1>>, 0, 1)
  BY Numbers
<1>3. \A z \in Int : z = 0 => Worth(Negate(<<0, 1>>), -z, 1)
  BY <1>2, WorthNegate
<1>4. Worth(Negate(<<0, 1>>), 0, 1)
  <2>1. PICK z \in Int : z < 1 /\ z > -1
    OBVIOUS
  <2> QED  BY <1>1, <1>3, <2>1
<1> QED  BY <1>2, <1>4, WorthOrder, WorthType

(* kinds of handoff,                                                       *)
LEMMA MirrorPoint ==
  /\ \A x, how : MirrorMatch(Point(x, how)) = Point(Negate(x), how)
  /\ MirrorMatch(NoHandoff) = NoHandoff
<1>1. ASSUME NEW x, NEW how  PROVE MirrorMatch(Point(x, how)) = Point(Negate(x), how)
  BY DEF MirrorMatch, Point
<1> QED  BY <1>1, NegateZero DEF NoHandoff

(* the choice of another point,                                            *)
LEMMA MirrorElsewhere ==
  ASSUME NEW arm \in Arm, Finite(arm), arm.from # arm.to, NEW low \in Rational, NEW high \in Rational
  PROVE  Elsewhere(MirrorArm(arm), low, high) = MirrorMatch(Elsewhere(arm, low, high))
<1> DEFINE mirror == MirrorArm(arm)
           n == Cardinality(arm.singular) + Cardinality(arm.boundary) + 3
           z(i) == Part(low, high, i, n)
           free == {i \in 1..n : Along(arm, z(i)) \notin Forbidden(arm)}
           mirrored == {i \in 1..n : Along(mirror, z(i)) \notin Forbidden(mirror)}
<1>1. Elsewhere(arm, low, high) =
        IF Less(low, high) /\ free # {} THEN Point(Along(arm, z(Min(free))), "avoidance")
                                        ELSE NoHandoff
  BY DEF Elsewhere, Part
<1>2. n \in Nat \ {0}
  BY ForbiddenFinite
<1>3. n = Cardinality(mirror.singular) + Cardinality(mirror.boundary) + 3
  <2>1. /\ IsFiniteSet(arm.singular) /\ IsFiniteSet(arm.boundary)
        /\ arm.singular \subseteq Rational /\ arm.boundary \subseteq Rational
    BY ArmType DEF Finite
  <2>2. Cardinality(MirrorSet(arm.singular)) = Cardinality(arm.singular)
        /\ Cardinality(MirrorSet(arm.boundary)) = Cardinality(arm.boundary)
    BY <2>1, MirrorSetParts
  <2> QED  BY <2>2, MirrorArmParts
<1>4. Elsewhere(mirror, low, high) =
        IF Less(low, high) /\ mirrored # {} THEN Point(Along(mirror, z(Min(mirrored))), "avoidance")
                                            ELSE NoHandoff
  BY <1>3 DEF Elsewhere, Part
<1> HIDE DEF n
<1>5. CASE ~Less(low, high)
  BY <1>1, <1>4, <1>5, MirrorPoint
<1>6. CASE Less(low, high)
  <2>1. \A i \in 1..n : z(i) \in Rational
    BY <1>2, <1>6, PartWay
  <2> HIDE DEF z
  <2>2. ASSUME NEW i \in 1..n
        PROVE  /\ Along(mirror, z(i)) = Negate(Along(arm, z(i)))
               /\ Along(mirror, z(i)) \in Forbidden(mirror) <=> Along(arm, z(i)) \in Forbidden(arm)
    <3>1. z(i) \in Rational /\ Along(arm, z(i)) \in Rational
      BY <2>1, AlongRational
    <3>2. Along(mirror, z(i)) = Negate(Along(arm, z(i)))
      BY <3>1, MirrorAlong
    <3> QED  BY <3>1, <3>2, MirrorForbidden
  <2>3. mirrored = free
    BY <2>2
  <2>4. free # {} => Min(free) \in 1..n
    <3>1. free \subseteq Nat
      BY <1>2
    <3> QED  BY <3>1, MinIn
  <2>5. free # {} => Along(mirror, z(Min(mirrored))) = Negate(Along(arm, z(Min(free))))
    BY <2>2, <2>3, <2>4
  <2> HIDE DEF free, mirrored
  <2> QED  BY <1>1, <1>4, <2>3, <2>5, MirrorPoint
<1> QED  BY <1>5, <1>6

(* The parts of a mirrored tile.                                           *)
LEMMA MirrorTileParts ==
  ASSUME NEW b, NEW e, NEW c
  PROVE  MirrorTile([begin |-> b, end |-> e, crosses |-> c])
           = [begin |-> Negate(b), end |-> Negate(e), crosses |-> c]
<1> DEFINE tile == [begin |-> b, end |-> e, crosses |-> c]
<1>1. tile.begin = b /\ tile.end = e /\ tile.crosses = c
  OBVIOUS
<1>2. DOMAIN tile = {"begin", "end", "crosses"} /\ tile = [i \in DOMAIN tile |-> tile[i]]
  OBVIOUS
<1> HIDE DEF tile
<1>3. MirrorTile(tile) = [i \in DOMAIN tile |-> IF i = "end" THEN Negate(e)
                                              ELSE IF i = "begin" THEN Negate(b) ELSE tile[i]]
  BY <1>1, <1>2 DEF MirrorTile
<1> QED  BY <1>1, <1>2, <1>3 DEF tile

(* so it keeps every handoff,                                              *)
LEMMA MirrorHandoff ==
  ASSUME NEW arm, Finite(arm), arm.from # arm.to, NEW left, NEW right, Follows(arm, left, right),
         NEW i, left = arm.charts[i], right = arm.charts[i + 1],
         MirrorArm(arm).charts[i] = MirrorChart(left), MirrorArm(arm).charts[i + 1] = MirrorChart(right)
  PROVE  Handoff(MirrorArm(arm), i) = MirrorMatch(Handoff(arm, i))
<1> DEFINE mirror == MirrorArm(arm)
           ml == MirrorChart(left)
           mr == MirrorChart(right)
           yl == Along(arm, left.center)
           yr == Along(arm, right.center)
           b == Reach(arm, right)
<1>1. /\ arm \in Arm /\ Divided(arm) /\ Usable(left) /\ Usable(right) /\ left \in Chart /\ right \in Chart
      /\ yl \in Rational /\ yr \in Rational /\ Less(yl, yr)
  BY FollowsType DEF Usable
<1>2. /\ ml.scale = left.scale /\ mr.scale = right.scale /\ ml.singular = left.singular /\ mr.singular = right.singular
  BY <1>1, MirrorChartParts
<1>3. /\ HalfRadius(ml) = HalfRadius(left) /\ HalfRadius(mr) = HalfRadius(right)
      /\ Limit(mirror, ml) = Limit(arm, left) /\ Limit(mirror, mr) = Limit(arm, right)
      /\ Reach(mirror, mr) = b /\ Margin(mirror, ml) = Margin(arm, left)
      /\ mirror.order = arm.order
  BY <1>1, MirrorReach, MirrorArmParts
<1>4. Along(mirror, ml.center) = yl /\ Along(mirror, mr.center) = yr /\ Gap(mirror, ml, mr) = Gap(arm, left, right)
  BY MirrorCenters
<1>5. ASSUME NEW x \in Rational
      PROVE  /\ Absolute(Local(ml, Negate(x))) = Absolute(Local(left, x))
             /\ Absolute(Local(mr, Negate(x))) = Absolute(Local(right, x))
             /\ Negate(x) \in Forbidden(mirror) <=> x \in Forbidden(arm)
             /\ Along(mirror, Negate(x)) = Along(arm, x)
  BY <1>1, MirrorLocal, MirrorForbidden, MirrorAlong
<1>6. b \in Rational /\ b[1] > 0 /\ Half(left) \in Rational /\ Half(left)[1] > 0
      /\ Margin(arm, left) \in Rational /\ Margin(arm, left)[1] > 0
  BY <1>1, ReachLimits, MarginType
<1>7. Approach(mirror, ml, mr) = MirrorMatch(Approach(arm, left, right))
  <2> DEFINE x == ApproachPoint(arm, left, right)
  <2>1. x = Balance(arm, left, right, Margin(arm, left), b)
    BY DEF ApproachPoint
  <2>2. ApproachPoint(mirror, ml, mr) = Balance(mirror, ml, mr, Margin(arm, left), b)
    BY <1>3 DEF ApproachPoint
  <2>3. x \in Rational
    BY <1>6, <2>1, BalanceBetween
  <2>4. ApproachPoint(mirror, ml, mr) = Negate(x)
    BY <1>6, <2>1, <2>2, MirrorBalance
  <2>5. Approach(arm, left, right) =
          IF /\ ~left.singular
             /\ Less(Gap(arm, left, right), Plus(Margin(arm, left), b))
             /\ AtMost(Absolute(Local(left, x)), Limit(arm, left))
             /\ AtMost(Absolute(Local(right, x)), Limit(arm, right))
             /\ x \notin Forbidden(arm)
          THEN Point(x, "approach") ELSE NoHandoff
    BY DEF Approach
  <2> HIDE DEF x
  <2>6. Approach(mirror, ml, mr) =
          IF /\ ~left.singular
             /\ Less(Gap(arm, left, right), Plus(Margin(arm, left), b))
             /\ AtMost(Absolute(Local(left, x)), Limit(arm, left))
             /\ AtMost(Absolute(Local(right, x)), Limit(arm, right))
             /\ x \notin Forbidden(arm)
          THEN Point(Negate(x), "approach") ELSE NoHandoff
    <3> HIDE DEF mirror, ml, mr
    <3>1. Approach(mirror, ml, mr) =
          IF /\ ~ml.singular
             /\ Less(Gap(mirror, ml, mr), Plus(Margin(mirror, ml), Reach(mirror, mr)))
             /\ AtMost(Absolute(Local(ml, ApproachPoint(mirror, ml, mr))), Limit(mirror, ml))
             /\ AtMost(Absolute(Local(mr, ApproachPoint(mirror, ml, mr))), Limit(mirror, mr))
             /\ ApproachPoint(mirror, ml, mr) \notin Forbidden(mirror)
          THEN Point(ApproachPoint(mirror, ml, mr), "approach") ELSE NoHandoff
      BY DEF Approach
    <3> QED  BY <1>2, <1>3, <1>4, <1>5, <2>3, <2>4, <3>1
  <2> QED  BY <2>5, <2>6, MirrorPoint
<1>8. /\ Division(arm, left, 1) \in Rational /\ Division(arm, right, -1) \in Rational
      /\ Division(mirror, ml, 1) = Negate(Division(arm, left, 1))
      /\ Division(mirror, mr, -1) = Negate(Division(arm, right, -1))
  BY <1>1, DivisionPoint, MirrorDivision
<1>9. Symmetric(mirror, ml, mr) <=> Symmetric(arm, left, right)
  <2> DEFINE x == Division(arm, left, 1)
             w == Division(arm, right, -1)
  <2>1. x \in Rational /\ w \in Rational /\ Division(mirror, ml, 1) = Negate(x) /\ Division(mirror, mr, -1) = Negate(w)
    BY <1>8
  <2>2. Negate(x) = Negate(w) <=> x = w
    BY <2>1, NegateLaws
  <2>3. Symmetric(arm, left, right) <=>
          /\ x = w
          /\ AtMost(<<1, arm.order>>, HalfRadius(left)) /\ AtMost(<<1, arm.order>>, HalfRadius(right))
          /\ x \notin Forbidden(arm)
    BY DEF Symmetric
  <2>4. Symmetric(mirror, ml, mr) <=>
          /\ Division(mirror, ml, 1) = Division(mirror, mr, -1)
          /\ AtMost(<<1, mirror.order>>, HalfRadius(ml)) /\ AtMost(<<1, mirror.order>>, HalfRadius(mr))
          /\ Division(mirror, ml, 1) \notin Forbidden(mirror)
    BY DEF Symmetric
  <2> HIDE DEF x, w, mirror, ml, mr
  <2> QED  BY <1>3, <1>5, <2>1, <2>2, <2>3, <2>4
<1>10. ReceiverReached(mirror, ml, mr) <=> ReceiverReached(arm, left, right)
  <2> DEFINE x == Division(arm, right, -1)
  <2>1. x \in Rational /\ Division(mirror, mr, -1) = Negate(x)
    BY <1>8
  <2>2. ReceiverReached(arm, left, right) <=>
          /\ Less(yl, Along(arm, x)) /\ Less(Along(arm, x), yr)
          /\ AtMost(Absolute(Local(left, x)), HalfRadius(left))
          /\ AtMost(<<1, arm.order>>, Limit(arm, right))
          /\ x \notin Forbidden(arm)
    BY DEF ReceiverReached
  <2>3. ReceiverReached(mirror, ml, mr) <=>
          /\ Less(Along(mirror, ml.center), Along(mirror, Division(mirror, mr, -1)))
          /\ Less(Along(mirror, Division(mirror, mr, -1)), Along(mirror, mr.center))
          /\ AtMost(Absolute(Local(ml, Division(mirror, mr, -1))), HalfRadius(ml))
          /\ AtMost(<<1, mirror.order>>, Limit(mirror, mr))
          /\ Division(mirror, mr, -1) \notin Forbidden(mirror)
    BY DEF ReceiverReached
  <2> HIDE DEF x, mirror, ml, mr, yl, yr
  <2> QED  BY <1>3, <1>4, <1>5, <2>1, <2>2, <2>3
<1>11. Overlap(mirror, ml, mr) = MirrorMatch(Overlap(arm, left, right))
  <2> DEFINE a == Half(left)
             x == Balance(arm, left, right, a, b)
             low == Greater(yl, Minus(yr, b))
             high == Lesser(yr, Plus(yl, a))
  <2>1. Overlap(arm, left, right) =
          IF Less(Plus(a, b), Gap(arm, left, right)) THEN NoHandoff
          ELSE IF x \notin Forbidden(arm) THEN Point(x, "overlap")
          ELSE Elsewhere(arm, low, high)
    BY DEF Overlap, Half
  <2>2. Times(Absolute(ml.scale), HalfRadius(ml)) = a
    BY <1>2, <1>3 DEF Half
  <2>3. Overlap(mirror, ml, mr) =
          IF Less(Plus(a, b), Gap(arm, left, right)) THEN NoHandoff
          ELSE IF Balance(mirror, ml, mr, a, b) \notin Forbidden(mirror) THEN Point(Balance(mirror, ml, mr, a, b), "overlap")
          ELSE Elsewhere(mirror, low, high)
    <3> HIDE DEF mirror, ml, mr, a, b, yl, yr
    <3> QED  BY <1>3, <1>4, <2>2 DEF Overlap
  <2> HIDE DEF a
  <2>4. x \in Rational /\ Balance(mirror, ml, mr, a, b) = Negate(x)
    BY <1>6, BalanceBetween, MirrorBalance DEF a
  <2>5. low \in Rational /\ high \in Rational
    BY <1>1, <1>6, SumsAreRational, SidesAreRational DEF a
  <2> HIDE DEF x, low, high
  <2>6. Elsewhere(mirror, low, high) = MirrorMatch(Elsewhere(arm, low, high))
    BY <1>1, <2>5, MirrorElsewhere
  <2>7. Negate(x) \in Forbidden(mirror) <=> x \in Forbidden(arm)
    BY <1>5, <2>4
  <2> HIDE DEF mirror, ml, mr
  <2> QED  BY <2>1, <2>3, <2>4, <2>6, <2>7, MirrorPoint
<1>12. Handoff(mirror, i) =
        IF (left.scale[1] > 0) # (right.scale[1] > 0) THEN NoHandoff
        ELSE IF right.singular THEN Approach(mirror, ml, mr)
        ELSE IF Symmetric(mirror, ml, mr) THEN Point(Division(mirror, ml, 1), "symmetric")
        ELSE IF ReceiverReached(mirror, ml, mr) THEN Point(Division(mirror, mr, -1), "overlap")
        ELSE Overlap(mirror, ml, mr)
  <2>1. mirror.charts[i] = ml /\ mirror.charts[i + 1] = mr
    OBVIOUS
  <2> HIDE DEF mirror, ml, mr
  <2> QED  BY <1>2, <2>1 DEF Handoff
<1>13. Handoff(arm, i) =
        IF (left.scale[1] > 0) # (right.scale[1] > 0) THEN NoHandoff
        ELSE IF right.singular THEN Approach(arm, left, right)
        ELSE IF Symmetric(arm, left, right) THEN Point(Division(arm, left, 1), "symmetric")
        ELSE IF ReceiverReached(arm, left, right) THEN Point(Division(arm, right, -1), "overlap")
        ELSE Overlap(arm, left, right)
  BY DEF Handoff
<1> HIDE DEF mirror, ml, mr
<1>14. Handoff(mirror, i) = MirrorMatch(Handoff(arm, i))
  BY <1>7, <1>8, <1>9, <1>10, <1>11, <1>12, <1>13, MirrorPoint
<1> QED  BY <1>14 DEF mirror

(* and the arm is as valid.                                                *)
LEMMA MirrorValid ==
  ASSUME NEW arm \in Arm, Finite(arm), ValidArm(arm)
  PROVE  MirrorArm(arm) \in Arm /\ Finite(MirrorArm(arm)) /\ ValidArm(MirrorArm(arm))
<1> DEFINE mirror == MirrorArm(arm)
           n == Len(arm.charts)
<1>1. /\ Divided(arm) /\ n \in Nat \ {0} /\ arm.from # arm.to /\ DOMAIN arm.charts = 1..n
      /\ arm.charts[1].center = arm.from
      /\ \A i \in 1..n : Usable(arm.charts[i]) /\ Within(arm, arm.charts[i].center)
      /\ \A i \in 1..(n - 1) : Follows(arm, arm.charts[i], arm.charts[i + 1])
  BY ValidParts
<1>2. /\ arm.from \in Rational /\ arm.to \in Rational
      /\ arm.singular \subseteq Rational /\ arm.boundary \subseteq Rational
  BY ArmType
<1>3. /\ mirror \in Arm
      /\ mirror.from = Negate(arm.from) /\ mirror.to = Negate(arm.to) /\ mirror.order = arm.order
      /\ mirror.singular = MirrorSet(arm.singular) /\ mirror.boundary = MirrorSet(arm.boundary)
      /\ DOMAIN mirror.charts = 1..n /\ Len(mirror.charts) = n
      /\ \A i \in 1..n : mirror.charts[i] = MirrorChart(arm.charts[i])
  BY MirrorArmParts
<1>4. Finite(mirror)
  BY <1>2, <1>3, MirrorSetParts DEF Finite
<1>5. ASSUME NEW x \in Rational
      PROVE  Within(mirror, Negate(x)) <=> Within(arm, x)
  <2>1. Along(mirror, Negate(x)) = Along(arm, x)
    BY <1>1, <1>5, MirrorAlong
  <2>2. Along(mirror, mirror.from) = Along(arm, arm.from) /\ Along(mirror, mirror.to) = Along(arm, arm.to)
    BY <1>1, <1>2, <1>3, MirrorAlong
  <2> HIDE DEF mirror
  <2> QED  BY <2>1, <2>2 DEF Within
<1>6. ASSUME NEW i \in 1..n
      PROVE  LET c == arm.charts[i]
                 m == mirror.charts[i]
             IN  /\ c.center \in Rational /\ m.center = Negate(c.center)
                 /\ m.scale = c.scale /\ m.radius = c.radius /\ m.singular = c.singular
                 /\ Along(mirror, m.center) = Along(arm, c.center)
                 /\ m.scale[1] # 0 /\ m.radius[1] > 0
                 /\ Within(mirror, m.center)
                 /\ m.singular <=> m.center \in mirror.singular
  <2> DEFINE c == arm.charts[i]
             m == mirror.charts[i]
  <2>1. Usable(c) /\ Within(arm, c.center) /\ m = MirrorChart(c) /\ (c.singular <=> c.center \in arm.singular)
    BY <1>1, <1>3 DEF ValidArm
  <2>2. c \in Chart /\ c.center \in Rational /\ c.scale[1] # 0 /\ c.radius[1] > 0
    BY <2>1, ChartType DEF Usable
  <2>3. m.center = Negate(c.center) /\ m.scale = c.scale /\ m.radius = c.radius /\ m.singular = c.singular
    BY <2>1, <2>2, MirrorChartParts
  <2>4. Along(mirror, Negate(c.center)) = Along(arm, c.center)
    BY <1>1, <2>2, MirrorAlong
  <2>5. Negate(c.center) \in mirror.singular <=> c.center \in arm.singular
    BY <1>2, <1>3, <2>2, MirrorSetParts
  <2> HIDE DEF mirror, c, m
  <2>6. Within(mirror, m.center)
    BY <1>5, <2>1, <2>2, <2>3
  <2> QED  BY <2>1, <2>2, <2>3, <2>4, <2>5, <2>6 DEF c, m
<1> HIDE DEF mirror
<1>7. mirror.from # mirror.to
  BY <1>1, <1>2, <1>3, NegateLaws
<1>8. mirror.charts # <<>>
  BY <1>1, <1>3
<1>9. mirror.charts[1].center = mirror.from
  BY <1>1, <1>3, <1>6
<1>10. ASSUME NEW i \in 1..n, i > 1
       PROVE  Less(Along(mirror, mirror.charts[i - 1].center), Along(mirror, mirror.charts[i].center))
  <2>1. i - 1 \in 1..n
    BY <1>1, <1>10
  <2>2. Less(Along(arm, arm.charts[i - 1].center), Along(arm, arm.charts[i].center))
    BY <1>1, <1>10 DEF ValidArm
  <2> QED  BY <1>6, <2>1, <2>2
<1>11. ASSUME NEW x \in mirror.singular, Within(mirror, x)
       PROVE  \E i \in DOMAIN mirror.charts : mirror.charts[i].singular /\ mirror.charts[i].center = x
  <2>1. PICK y \in arm.singular : x = Negate(y)
    BY <1>3 DEF MirrorSet
  <2>2. y \in Rational /\ Within(arm, y)
    BY <1>2, <1>5, <1>11, <2>1
  <2>3. PICK i \in 1..n : arm.charts[i].singular /\ arm.charts[i].center = y
    BY <1>1, <2>2 DEF ValidArm
  <2> QED  BY <1>3, <1>6, <2>1, <2>3
<1>12. mirror.order >= 2
  BY <1>1, <1>3 DEF Divided
<1>13. ValidArm(mirror)
  BY <1>3, <1>6, <1>7, <1>8, <1>9, <1>10, <1>11, <1>12 DEF ValidArm
<1> QED  BY <1>3, <1>4, <1>13 DEF mirror

(* plan_exact_arm treats both directions alike: the mirrored arm has the   *)
(* mirrored plan, whatever points the planner had to try.                  *)
THEOREM MirroredPlan ==
  ASSUME NEW arm \in Arm, Finite(arm), PlanArm(arm) # Refused
  PROVE  PlanArm(MirrorArm(arm)) = MirrorPlan(PlanArm(arm))
<1> DEFINE mirror == MirrorArm(arm)
           n == Len(arm.charts)
           plan == PlanArm(arm)
           matches == Matches(arm)
           tile == Tiles(arm, matches)
           mtile == Tiles(mirror, Matches(mirror))
<1>1. /\ ValidArm(arm) /\ plan = Made(arm)
      /\ \A i \in 1..(n - 1) : Fits(arm, arm.charts[i], arm.charts[i + 1], Handoff(arm, i))
      /\ Plannable(arm)
  BY PlannableIsPlanned
<1>2. /\ Divided(arm) /\ n \in Nat \ {0} /\ arm.from # arm.to /\ DOMAIN arm.charts = 1..n
      /\ \A i \in 1..n : Usable(arm.charts[i])
      /\ \A i \in 1..(n - 1) : Follows(arm, arm.charts[i], arm.charts[i + 1])
  BY <1>1, ValidParts
<1>3. mirror \in Arm /\ Finite(mirror) /\ ValidArm(mirror)
  BY <1>1, MirrorValid
<1>4. /\ mirror.from = Negate(arm.from) /\ mirror.to = Negate(arm.to)
      /\ DOMAIN mirror.charts = 1..n /\ Len(mirror.charts) = n
      /\ \A i \in 1..n : mirror.charts[i] = MirrorChart(arm.charts[i])
  BY MirrorArmParts
<1>5. arm.from \in Rational /\ arm.to \in Rational
  BY ArmType
<1>6. ASSUME NEW i \in 1..(n - 1)
      PROVE  /\ Handoff(mirror, i) = MirrorMatch(Handoff(arm, i))
             /\ Handoff(arm, i) # NoHandoff => Handoff(mirror, i) # NoHandoff
             /\ Handoff(arm, i).at \in Rational
             /\ Handoff(mirror, i).at = Negate(Handoff(arm, i).at)
  <2>1. i \in 1..n /\ i + 1 \in 1..n
    BY <1>2
  <2>2. Handoff(mirror, i) = MirrorMatch(Handoff(arm, i))
    BY <1>2, <1>4, <2>1, MirrorHandoff
  <2>3. PICK x, how : Handoff(arm, i) = Point(x, how)
    BY DEF Handoff, Approach, Overlap, Elsewhere, NoHandoff
  <2>4. Handoff(arm, i).at = x /\ Handoff(mirror, i) = Point(Negate(x), how)
    BY <2>2, <2>3, MirrorPoint DEF Point
  <2>5. x \in Rational
    BY <1>1, <2>4 DEF Fits
  <2>6. Handoff(mirror, i).at = Negate(x)
    BY <2>4 DEF Point
  <2>7. ASSUME Handoff(mirror, i) = NoHandoff  PROVE Handoff(arm, i) = NoHandoff
    <3>1. Negate(x) = <<0, 1>> /\ how = "none"
      BY <2>4, <2>7 DEF Point, NoHandoff
    <3>2. x = <<0, 1>>
      BY <2>5, <3>1, NegateZero, NegateLaws
    <3> QED  BY <2>3, <3>1, <3>2 DEF NoHandoff
  <2> QED  BY <2>2, <2>4, <2>5, <2>6, <2>7
<1>7. \A i \in 1..(n - 1) : Handoff(arm, i) # NoHandoff
  <2>1. PlanArm(arm) # Refused => NoHandoff \notin Range(Matches(arm))
    BY DEF PlanArm, Matches
  <2>2. Range(Matches(arm)) = {Handoff(arm, i) : i \in 1..(n - 1)}
    BY DEF Range, Matches
  <2> QED  BY <2>1, <2>2
<1>8. InDisk(mirror.charts[n], mirror.to)
  <2>1. InDisk(arm.charts[n], arm.to) /\ n \in 1..n /\ Usable(arm.charts[n])
    BY <1>1, <1>2 DEF Plannable
  <2> QED  BY <1>4, <1>5, <2>1, MirrorLocal
<1>9. PlanArm(mirror) = Made(mirror)
  <2>1. \A i \in 1..(Len(mirror.charts) - 1) : Handoff(mirror, i) # NoHandoff
    BY <1>4, <1>6, <1>7
  <2>2. ValidPlan(mirror, Matches(mirror))
    BY <1>3, <1>4, <1>8, <2>1, PlanValid
  <2>3. Range(Matches(mirror)) = {Handoff(mirror, i) : i \in 1..(Len(mirror.charts) - 1)}
    BY DEF Range, Matches
  <2> QED  BY <1>3, <2>1, <2>2, <2>3 DEF PlanArm, Matches, Made
<1>10. plan.matches = matches /\ plan.tiles = tile
  BY <1>1 DEF Made
<1>11. Matches(mirror) = [i \in DOMAIN matches |-> MirrorMatch(matches[i])]
  BY <1>4, <1>6 DEF Matches
<1>12. /\ DOMAIN tile = 1..n /\ DOMAIN mtile = 1..n
  BY <1>2, <1>4 DEF Tiles
<1>13. ASSUME NEW i \in 1..n
       PROVE  mtile[i] = MirrorTile(tile[i])
  <2> DEFINE c == arm.charts[i]
             begin == IF i = 1 THEN arm.from ELSE matches[i - 1].at
             end   == IF i = n THEN arm.to ELSE matches[i].at
             mbegin == IF i = 1 THEN mirror.from ELSE Matches(mirror)[i - 1].at
             mend   == IF i = n THEN mirror.to ELSE Matches(mirror)[i].at
             crosses == c.singular /\ Less(Along(arm, begin), Along(arm, c.center))
                          /\ Less(Along(arm, c.center), Along(arm, end))
             mcrosses == mirror.charts[i].singular /\ Less(Along(mirror, mbegin), Along(mirror, mirror.charts[i].center))
                          /\ Less(Along(mirror, mirror.charts[i].center), Along(mirror, mend))
  <2>1. tile[i] = [begin |-> begin, end |-> end, crosses |-> crosses]
    BY <1>2 DEF Tiles
  <2>2. mtile[i] = [begin |-> mbegin, end |-> mend, crosses |-> mcrosses]
    BY <1>4 DEF Tiles
  <2>3. begin \in Rational /\ mbegin = Negate(begin)
    <3>1. CASE i = 1
      BY <1>4, <1>5, <3>1
    <3>2. CASE i # 1
      <4>1. i - 1 \in 1..(n - 1)
        BY <1>2, <3>2
      <4>2. matches[i - 1] = Handoff(arm, i - 1) /\ Matches(mirror)[i - 1] = Handoff(mirror, i - 1)
        BY <1>4, <4>1 DEF Matches
      <4> QED  BY <1>6, <3>2, <4>1, <4>2
    <3> QED  BY <3>1, <3>2
  <2>4. end \in Rational /\ mend = Negate(end)
    <3>1. CASE i = n
      BY <1>4, <1>5, <3>1
    <3>2. CASE i # n
      <4>1. i \in 1..(n - 1)
        BY <1>2, <3>2
      <4>2. matches[i] = Handoff(arm, i) /\ Matches(mirror)[i] = Handoff(mirror, i)
        BY <1>4, <4>1 DEF Matches
      <4> QED  BY <1>6, <3>2, <4>1, <4>2
    <3> QED  BY <3>1, <3>2
  <2>5. c \in Chart /\ c.center \in Rational
    BY <1>2, ChartType DEF Usable
  <2>6. mirror.charts[i].center = Negate(c.center) /\ mirror.charts[i].singular = c.singular
    BY <1>4, <2>5, MirrorChartParts
  <2>7. /\ Along(mirror, Negate(begin)) = Along(arm, begin)
        /\ Along(mirror, Negate(end)) = Along(arm, end)
        /\ Along(mirror, Negate(c.center)) = Along(arm, c.center)
    <3> HIDE DEF begin, end
    <3> QED  BY <1>2, <2>3, <2>4, <2>5, MirrorAlong
  <2> HIDE DEF begin, end, mbegin, mend, mirror, c, tile, mtile
  <2>8. mcrosses = crosses
    BY <2>3, <2>4, <2>6, <2>7
  <2> HIDE DEF crosses, mcrosses
  <2>9. MirrorTile(tile[i]) = [begin |-> Negate(begin), end |-> Negate(end), crosses |-> crosses]
    BY <2>1, MirrorTileParts
  <2> QED  BY <2>2, <2>3, <2>4, <2>8, <2>9
<1>14. mtile = [i \in DOMAIN tile |-> MirrorTile(tile[i])]
  <2>1. mtile = [i \in 1..n |-> mtile[i]]
    BY <1>4 DEF Tiles
  <2> HIDE DEF mtile, tile
  <2> QED  BY <1>12, <1>13, <2>1
<1> QED  BY <1>9, <1>10, <1>11, <1>14 DEF Made, MirrorPlan

------------------------------------------------------------------------------
(* The answer to a request.                                                *)

(* Every arm of the request has a plan, and two arms start together.       *)
Accepted(request) ==
  /\ Len(request) = 2 => OneAnchor(request[1], request[2])
  /\ \A i \in DOMAIN request : PlanArm(request[i]) # Refused

(* An answer is the plans of all the arms, or no plan at all.              *)
PlanIInv ==
  /\ arms \in Requests
  /\ answer \in {"asked", "planned", "refused"}
  /\ answer = "asked" => plans = <<>>
  /\ answer = "planned" => Accepted(arms) /\ plans = [i \in DOMAIN arms |-> PlanArm(arms[i])]
  /\ answer = "refused" => ~Accepted(arms) /\ plans = <<>>

(* Clients ask for arms.                                                   *)
LEMMA RequestedArms ==
  ASSUME NEW request \in Requests, NEW i \in DOMAIN request
  PROVE  request[i] \in Arm /\ Finite(request[i])
BY RequestsAssumption DEF Finite

(* One step keeps the invariant,                                           *)
LEMMA PlanStep == PlanIInv /\ [PlanTiles]_planVars => PlanIInv'
<1> SUFFICES ASSUME PlanIInv, [PlanTiles]_planVars
             PROVE  PlanIInv'
  OBVIOUS
<1>1. CASE UNCHANGED planVars
  BY <1>1 DEF PlanIInv, planVars
<1>2. CASE PlanTiles
  <2> DEFINE made == [i \in DOMAIN arms |-> PlanArm(arms[i])]
  <2>1. answer = "asked" /\ arms' = arms /\ plans = <<>> /\ arms \in Requests
    BY <1>2 DEF PlanTiles, PlanIInv
  <2>2. Refused \notin Range(made) <=> \A i \in DOMAIN arms : PlanArm(arms[i]) # Refused
    BY DEF Range
  <2>3. CASE Accepted(arms)
    <3>1. plans' = made /\ answer' = "planned"
      BY <1>2, <2>2, <2>3 DEF PlanTiles, Accepted
    <3> QED  BY <2>1, <2>3, <3>1 DEF PlanIInv
  <2>4. CASE ~Accepted(arms)
    <3>1. plans' = plans /\ answer' = "refused"
      BY <1>2, <2>2, <2>4 DEF PlanTiles, Accepted
    <3> QED  BY <2>1, <2>4, <3>1 DEF PlanIInv
  <2> QED  BY <2>3, <2>4
<1> QED  BY <1>1, <1>2

(* which implies that plans stand.                                         *)
LEMMA PlanImplies == PlanIInv => PlanStands
<1> SUFFICES ASSUME PlanIInv, answer # "asked"
             PROVE  /\ answer = "planned" <=>
                         /\ Len(arms) = 2 => OneAnchor(arms[1], arms[2])
                         /\ \A i \in DOMAIN arms : Plannable(arms[i])
                    /\ \A i \in DOMAIN plans :
                         /\ Sound(arms[i], plans[i])
                         /\ PlanArm(MirrorArm(arms[i])) = MirrorPlan(plans[i])
  BY DEF PlanStands
<1>1. \A i \in DOMAIN arms : arms[i] \in Arm /\ Finite(arms[i])
  BY RequestedArms DEF PlanIInv
<1>2. \A i \in DOMAIN arms : PlanArm(arms[i]) # Refused <=> Plannable(arms[i])
  BY <1>1, PlannableIsPlanned
<1>3. answer = "planned" <=> Accepted(arms)
  BY DEF PlanIInv
<1>4. ASSUME NEW i \in DOMAIN plans
      PROVE  /\ Sound(arms[i], plans[i])
             /\ PlanArm(MirrorArm(arms[i])) = MirrorPlan(plans[i])
  <2>1. answer = "planned"
    <3>1. DOMAIN <<>> = {}
      OBVIOUS
    <3> QED  BY <1>4, <3>1 DEF PlanIInv
  <2>2. /\ i \in DOMAIN arms /\ plans[i] = PlanArm(arms[i])
        /\ PlanArm(arms[i]) # Refused
    BY <2>1 DEF PlanIInv, Accepted
  <2> QED  BY <1>1, <2>2, PlanIsSound, MirroredPlan
<1> QED  BY <1>2, <1>3, <1>4 DEF Accepted

(* The answer to build_tile_plan or build_single_arm_tile_plan is all of   *)
(* this for every arm asked for, or no plan: a plan exactly when the       *)
(* charts can be joined, every handoff safe for both, every singularity    *)
(* inside its own tile, and no side of the origin preferred.               *)
THEOREM PlansStand == PlanSpec => []PlanStands
<1>1. PlanInit => PlanIInv
  BY DEF PlanInit, PlanIInv
<1> QED  BY <1>1, PlanStep, PlanImplies, PTL DEF PlanSpec
==============================================================================

---------------------------- MODULE PrecisionLease ----------------------------
(***************************************************************************)
(* AcbPrecisionLease: threads of any number of sessions compute with balls *)
(* of one precision at a time.  A thread may hold several leases, one      *)
(* inside the other.  A newcomer with the precision in use walks past the  *)
(* threads that wait for another: a nested lease depends on it.            *)
(***************************************************************************)
EXTENDS Naturals, FiniteSets

CONSTANTS
  Thread,    \* threads that may ask for a lease
  Bits,      \* Bits[t]: precision_bits of the session t works for
  NoBits     \* precision_bits without a value

VARIABLES
  bits,      \* precision_bits
  held,      \* leases of each thread; active is their sum
  waiting    \* threads asleep on changed

leaseVars == <<bits, held, waiting>>

ASSUME BitsAssumption == \A t \in Thread : Bits[t] \in Nat \ {NoBits}

Holders == {t \in Thread : held[t] > 0}

LeaseTypeOK ==
  /\ bits \in {Bits[t] : t \in Thread} \cup {NoBits}
  /\ held \in [Thread -> Nat]
  /\ waiting \subseteq Thread

LeaseInit ==
  /\ bits = NoBits
  /\ held = [t \in Thread |-> 0]
  /\ waiting = {}

(* Mutant: whoever comes while others wait, waits.                         *)
AdmitsQueue(t) == waiting \subseteq {t} /\ (Holders = {} \/ bits = Bits[t])

(* Mutant: a greater precision in use is good enough.                      *)
AdmitsLower(t) == Holders = {} \/ bits >= Bits[t]

(* The predicate of the wait.                                              *)
Admits(t) == Holders = {} \/ bits = Bits[t]

(* The constructor goes through.                                           *)
Acquire(t) ==
  /\ t \notin waiting /\ Admits(t)
  /\ bits' = IF Holders = {} THEN Bits[t] ELSE bits
  /\ held' = [held EXCEPT ![t] = @ + 1]
  /\ UNCHANGED waiting

(* The constructor goes to sleep.                                          *)
AwaitLease(t) ==
  /\ t \notin waiting /\ ~Admits(t)
  /\ waiting' = waiting \cup {t}
  /\ UNCHANGED <<bits, held>>

(* The destructor; the last one wakes every sleeper.                       *)
Release(t) ==
  /\ held[t] > 0
  /\ held' = [held EXCEPT ![t] = @ - 1]
  /\ waiting' = IF Holders = {t} /\ held[t] = 1 THEN {} ELSE waiting
  /\ UNCHANGED bits
===============================================================================

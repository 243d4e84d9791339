------------------------------ MODULE MemoTable ------------------------------
(***************************************************************************)
(* What an immutable cache promises: a key has no value, then at most one  *)
(* builder at a time, then one value forever; callers get that value.      *)
(***************************************************************************)
CONSTANTS Key, Value, Thread, Nobody

VARIABLES
  made,     \* the value of a key, or Nobody
  builder,  \* the thread that is making it, or Nobody
  answers   \* <<key, value>> of the calls that returned one

Init ==
  /\ made = [k \in Key |-> Nobody]
  /\ builder = [k \in Key |-> Nobody]
  /\ answers = {}

Begin(k) ==
  /\ made[k] = Nobody /\ builder[k] = Nobody
  /\ \E t \in Thread : builder' = [builder EXCEPT ![k] = t]
  /\ UNCHANGED <<made, answers>>

Finish(k) ==
  /\ builder[k] # Nobody
  /\ \E v \in Value : /\ made' = [made EXCEPT ![k] = v]
                      /\ answers' = answers \cup {<<k, v>>}
  /\ builder' = [builder EXCEPT ![k] = Nobody]

Abandon(k) ==
  /\ builder[k] # Nobody
  /\ builder' = [builder EXCEPT ![k] = Nobody]
  /\ UNCHANGED <<made, answers>>

Answer(k) ==
  /\ made[k] # Nobody
  /\ answers' = answers \cup {<<k, made[k]>>}
  /\ UNCHANGED <<made, builder>>

Next == \E k \in Key : Begin(k) \/ Finish(k) \/ Abandon(k) \/ Answer(k)

Spec == Init /\ [][Next]_<<made, builder, answers>>
==============================================================================

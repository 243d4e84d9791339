------------------------------ MODULE MCExecutor ------------------------------
(* Executor with a diamond of operations.                                    *)
EXTENDS Executor, TLC

CONSTANTS level, left, right, output

(* left and right are built from level, output from both.                    *)
Diamond ==
  (level :> <<>>) @@ (left :> <<level>>) @@ (right :> <<level>>)
    @@ (output :> <<left, right>>)

(* right asks level for as much as there is, whatever is asked of right.     *)
Most == [x \in Axis |-> MaxDemand]
Asked ==
  [p \in Node \X Node |->
     [d \in Demand |-> IF p = <<right, level>> THEN Most ELSE d]]

(* Builders reach what is demanded, that of right as much as there is.       *)
Offered ==
  [n \in Node |-> [d \in Demand |-> {IF n = right THEN Most ELSE d}]]

(* Callers run output, and its parts alone.                                  *)
Least == [x \in Axis |-> 0]
Some  == [x \in Axis |-> IF x = 1 THEN 1 ELSE 0]
Wished ==
  {<<right, Least>>, <<output, Least>>, <<output, Some>>}
===============================================================================

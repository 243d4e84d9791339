--------------------------- MODULE MCCheckpointFile ---------------------------
(* What is kept on disk, on small instances: how the bytes of a checkpoint   *)
(* reach it, which objects they are, the batches and snapshots of FIRE, and   *)
(* the continuations of adjoint transport.  A behaviour is of one of these.  *)
EXTENDS CheckpointFile, MCOwnershipClosure, MCFireSession, MCAdjointTransport

VARIABLE subject

SomeProgram == CHOOSE p \in Programs : TRUE
SomeProblem == CHOOSE p \in Problems : TRUE

MCInit ==
  /\ subject \in {"bytes", "objects", "batches", "continuations"}
  /\ subject # "objects" => program = SomeProgram
  /\ subject # "continuations" => problem = SomeProblem /\ stored = [w \in Runner |-> TRUE]
  /\ Init /\ ClosureInit /\ FireInit /\ MCAdjointInit

MCNext ==
  \/ subject = "bytes" /\ Next /\ UNCHANGED <<sessionVars, fireVars, adjointVars, subject>>
  \/ subject = "objects" /\ ClosureNext /\ UNCHANGED <<vars, fireVars, adjointVars, subject>>
  \/ subject = "batches" /\ FireNext /\ UNCHANGED <<vars, sessionVars, adjointVars, subject>>
  \/ subject = "continuations" /\ AdjointNext
       /\ UNCHANGED <<vars, sessionVars, fireVars, subject>>

MCSpec == MCInit /\ [][MCNext]_<<vars, sessionVars, fireVars, adjointVars, subject>>

Symmetry == Permutations(Writer)
==============================================================================

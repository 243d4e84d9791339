-------------------------- MODULE SessionCheckpoint --------------------------
(***************************************************************************)
(* checkpoint.save, checkpoint.restore and the loss of the process, around *)
(* the requests of a session.  A save runs under session->mutex from the   *)
(* test that nothing is pending to the rename of the file; a restore makes *)
(* a session of the image, or rejects it.  The client restarts from the    *)
(* image it has: it does not write a new session over the old file.  How   *)
(* the bytes reach the disk is the subject of CheckpointFile.              *)
(***************************************************************************)
EXTENDS SolverSession

CONSTANTS
  MaxGeneration,  \* bound: saves of one timeline
  NoImage         \* nothing was saved yet

ASSUME GenerationAssumption == MaxGeneration \in Nat

VARIABLES
  disk,        \* the image at the checkpoint path
  generation   \* SolverSession::checkpoint_generation

allVars == <<vars, disk, generation>>

CheckpointInit == Init /\ disk = NoImage /\ generation = 0

(* Mutant: requests in flight are forgotten.                               *)
QuiescentUntested == ~closed

(* make_checkpoint_snapshot's test.  A request that reserves nothing, such *)
(* as a consuming march between two hops, does not count as pending.       *)
Quiescent == ~closed /\ pending = None

Snapshot ==
  [reg |-> reg, next |-> next, prepared |-> prepared, generation |-> generation + 1]

(* The save may fail before the rename, and after it (the directory cannot *)
(* be opened or synchronised): then the file is new, the counter old.      *)
Save(c) ==
  /\ Entered(c, "checkpoint.save")
  /\ Quiescent
  /\ generation < MaxGeneration
  /\ \/ disk' = Snapshot /\ generation' = generation + 1
     \/ disk' = Snapshot /\ UNCHANGED generation
     \/ UNCHANGED <<disk, generation>>
  /\ call' = [call EXCEPT ![c] = Idle]
  /\ UNCHANGED <<listed, closed, prepared, next, reg, pending, streams, heirs>>

(* The process ends: nothing of the session is left but the file.          *)
Crash ==
  /\ listed
  /\ listed' = FALSE /\ closed' = TRUE /\ prepared' = FALSE
  /\ next' = [k \in Kind |-> 1]
  /\ reg' = Nothing /\ pending' = None /\ streams' = {}
  /\ call' = [c \in Call |-> Idle]
  /\ heirs' = {}
  /\ generation' = 0
  /\ UNCHANGED disk

(* What restore_checkpoint tests: each registry fits its capacity, and the *)
(* counters follow the handles.                                            *)
Restorable(image) ==
  \A k \in Kind : /\ Cardinality(image.reg[k]) <= Capacity[k]
                  /\ \A h \in image.reg[k] : h < image.next[k]

(* A new session takes the place of the one that was lost or closed.       *)
Load(counters) ==
  /\ ~listed /\ \A c \in Call : call[c].at = "idle"
  /\ disk # NoImage /\ Restorable(disk)
  /\ listed' = TRUE /\ closed' = FALSE /\ prepared' = disk.prepared
  /\ next' = counters /\ reg' = disk.reg
  /\ pending' = None /\ streams' = {} /\ heirs' = {}
  /\ generation' = disk.generation
  /\ UNCHANGED <<call, disk>>

(* Mutant: the handle counters start again.                                *)
RestoreRecounts ==
  disk # NoImage /\ Load([k \in Kind |-> Cardinality(disk.reg[k]) + 1])

Restore == disk # NoImage /\ Load(disk.next)

CheckpointNext ==
  \/ Next /\ UNCHANGED <<disk, generation>>
  \/ \E c \in Call : Save(c)
  \/ Crash
  \/ Restore

CheckpointSpec == CheckpointInit /\ [][CheckpointNext]_allVars

------------------------------------------------------------------------------
(* Every file a save leaves, whatever requests were interleaved before it, *)
(* is one that restore accepts.                                            *)
ImageRestorable == disk # NoImage => Restorable(disk)

(* A save takes its picture only when no request is between admission and  *)
(* publication and no stream is alive; and the generation on disk does not *)
(* fall back, through failed saves, crashes and restores.                  *)
QuiescentImage ==
  [][disk' # disk =>
       /\ streams = {} /\ \A c \in Call : ~InFlight(c)
       /\ disk # NoImage => disk'.generation >= disk.generation]_allVars
==============================================================================

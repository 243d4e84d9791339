------------------------------ MODULE FireSession ------------------------------
(***************************************************************************)
(* fire::Session over its two directories: the completed batches (the      *)
(* artifact store) and the pending snapshots (fire_checkpoint::Store).     *)
(* Several processes share both.  A run of FIRE may be stopped by its time *)
(* or memory budget; a process may die and the power may fail between any  *)
(* two steps.                                                              *)
(*                                                                         *)
(* A demand is the set of integrals asked for.  A batch is named by its    *)
(* demand; a snapshot by the demand and by the batch whose rules the run   *)
(* was given.  How far a run came is the number of sectors it finished.    *)
(* Two runs that finished the same sectors save the same generation.       *)
(* Power that fails may also bring back a retired snapshot, whose rename   *)
(* was not synchronised: that is a snapshot beside a durable batch, which  *)
(* another process may leave there too.                                    *)
(***************************************************************************)
EXTENDS Naturals, Sequences

CONSTANTS
  Process,         \* processes, each with a session of its own
  Demand,          \* demands, as sets of integrals
  Wants,           \* the demands the clients of each process make
  Sectors,         \* sectors a run has to finish
  MaxGenerations,  \* 64 in the code
  MaxLosses        \* bound: processes that die and power failures, together

ASSUME WantsAssumption == Wants \in [Process -> SUBSET Demand]
ASSUME SectorsAssumption == Sectors \in Nat \ {0}

Cold == {}   \* the rules of no batch

VARIABLES
  batch,    \* the record of each demand: absent, linked, or synced to the disk
  pending,  \* the generations of each snapshot name, the newest last
  session,  \* what each process does, and the demand_ it last completed
  losses,   \* deaths and outages so far
  outages   \* outages alone

fireVars == <<batch, pending, session, losses, outages>>
still    == <<losses, outages>>

Name == {n \in Demand \X (Demand \cup {Cold}) : n[2] \subseteq n[1] /\ n[2] # n[1]}

Unused == [at |-> "idle", held |-> Cold, want |-> Cold, done |-> 0]

FireInit ==
  /\ batch = [d \in Demand |-> "absent"]
  /\ pending = [n \in Name |-> <<>>]
  /\ session = [p \in Process |-> Unused]
  /\ losses = 0 /\ outages = 0

At(p, step)  == session[p].at = step
Identity(p)  == <<session[p].want, session[p].held>>
Go(p, step)  == session' = [session EXCEPT ![p].at = step]

(* The call returns: with a result, or with its reason for having none.    *)
Answer(p) == session' = [session EXCEPT ![p] = [Unused EXCEPT !.held = session[p].want]]
Refuse(p) == session' = [session EXCEPT ![p] = [Unused EXCEPT !.held = session[p].held]]

------------------------------------------------------------------------------
(* operator().                                                             *)

(* Demands grow; the one last completed is answered from memory.           *)
Ask(p, d) ==
  /\ At(p, "idle")
  /\ session[p].held \subseteq d /\ session[p].held # d
  /\ session' = [session EXCEPT ![p].at = "asking", ![p].want = d]
  /\ UNCHANGED <<batch, pending, still>>

FindBatch(p) ==
  /\ At(p, "asking")
  /\ IF batch[session[p].want] = "absent" THEN Go(p, "looking") ELSE Answer(p)
  /\ UNCHANGED <<batch, pending, still>>

(* Store::lookup: one unreadable generation, or too many of them, and the  *)
(* call is refused; else the newest is resumed.                            *)
LookPending(p) ==
  LET found == pending[Identity(p)] IN
  /\ At(p, "looking")
  /\ IF Len(found) > MaxGenerations \/ \E i \in 1..Len(found) : ~found[i].whole
       THEN Refuse(p)
       ELSE IF found = <<>> THEN Go(p, "running")
       ELSE session' = [session EXCEPT ![p].at = "opening", ![p].done = found[Len(found)].done]
  /\ UNCHANGED <<batch, pending, still>>

(* reduce reads the manifest again and copies its sectors; meanwhile       *)
(* another process may have retired them.                                  *)
OpenPending(p) ==
  LET found == pending[Identity(p)] IN
  /\ At(p, "opening")
  /\ IF \E i \in 1..Len(found) : found[i] = [done |-> session[p].done, whole |-> TRUE]
       THEN Go(p, "running")
       ELSE Refuse(p)
  /\ UNCHANGED <<batch, pending, still>>

FinishSector(p) ==
  /\ At(p, "running") /\ session[p].done < Sectors
  /\ session' = [session EXCEPT ![p].done = @ + 1]
  /\ UNCHANGED <<batch, pending, still>>

(* A budget is exhausted, FIRE fails or its tables are refused: what it    *)
(* finished is published by a rename in Store::put, unless there is no     *)
(* manifest, a generation of the same content is there, or the directory   *)
(* is retired meanwhile.                                                   *)
StopEarly(p) ==
  LET name  == Identity(p)
      known == \E i \in 1..Len(pending[name]) : pending[name][i].done = session[p].done
  IN
  /\ At(p, "running")
  /\ \/ UNCHANGED pending
     \/ ~known /\ pending' =
          [pending EXCEPT ![name] = Append(@, [done |-> session[p].done, whole |-> TRUE])]
  /\ Refuse(p)
  /\ UNCHANGED <<batch, still>>

(* Mutant: the batch is taken for durable once it has a name.              *)
PublishUnsynced(p) ==
  /\ At(p, "running") /\ session[p].done = Sectors
  /\ batch' = [batch EXCEPT ![session[p].want] = IF @ = "absent" THEN "linked" ELSE @]
  /\ Go(p, "retiring")
  /\ UNCHANGED <<pending, still>>

(* FIRE succeeds.  Cache::put: the file is synced and linked, then the     *)
(* directory is synced.                                                    *)
PublishBatch(p) ==
  /\ At(p, "running") /\ session[p].done = Sectors
  /\ \/ /\ batch' = [batch EXCEPT ![session[p].want] = IF @ = "absent" THEN "linked" ELSE @]
        /\ Go(p, "syncing")
     \/ Refuse(p) /\ UNCHANGED batch
  /\ UNCHANGED <<pending, still>>

SyncBatch(p) ==
  /\ At(p, "syncing")
  /\ \/ batch' = [batch EXCEPT ![session[p].want] = "synced"] /\ Go(p, "retiring")
     \/ Refuse(p) /\ UNCHANGED batch
  /\ UNCHANGED <<pending, still>>

(* Store::retire; when it fails the call fails, although the batch is kept.*)
RetirePending(p) ==
  /\ At(p, "retiring")
  /\ \/ pending' = [pending EXCEPT ![Identity(p)] = <<>>] /\ Answer(p)
     \/ Refuse(p) /\ UNCHANGED pending
  /\ UNCHANGED <<batch, still>>

------------------------------------------------------------------------------
(* Processes die with what they hold in memory and with the FIRE they run. *)
ProcessDies(p) ==
  /\ losses < MaxLosses
  /\ session[p] # Unused
  /\ session' = [session EXCEPT ![p] = Unused]
  /\ losses' = losses + 1
  /\ UNCHANGED <<batch, pending, outages>>

(* Without power nothing that was not synchronised is sure: a record whose *)
(* directory was not synced may be gone, and so may the last snapshots of  *)
(* a name, which are never synced; one that is there may be torn.          *)
Saved == UNION {{<<n, pending[n][i].done>> : i \in 1..Len(pending[n])} : n \in Name}

After(n, kept, torn) ==
  [i \in 1..kept |->
     [pending[n][i] EXCEPT !.whole = @ /\ <<n, pending[n][i].done>> \notin torn]]

PowerFailure ==
  /\ losses < MaxLosses
  /\ session' = [p \in Process |-> Unused]
  /\ \E gone \in SUBSET {d \in Demand : batch[d] = "linked"} :
       batch' = [d \in Demand |-> IF d \in gone THEN "absent"
                                  ELSE IF batch[d] = "linked" THEN "synced" ELSE batch[d]]
  /\ \E kept \in [Name -> 0..(Sectors + 1)] : \E torn \in SUBSET Saved :
       /\ \A n \in Name : kept[n] <= Len(pending[n])
       /\ pending' = [n \in Name |-> After(n, kept[n], torn)]
  /\ losses' = losses + 1 /\ outages' = outages + 1

FireStep(p) ==
  \/ \E d \in Wants[p] : Ask(p, d)
  \/ FindBatch(p) \/ LookPending(p) \/ OpenPending(p)
  \/ FinishSector(p) \/ StopEarly(p)
  \/ PublishBatch(p) \/ SyncBatch(p) \/ RetirePending(p)
  \/ ProcessDies(p)

FireNext == (\E p \in Process : FireStep(p)) \/ PowerFailure

FireSpec == FireInit /\ [][FireNext]_fireVars

------------------------------------------------------------------------------
(* Properties.                                                             *)

Step == {"idle", "asking", "looking", "opening", "running", "syncing", "retiring"}

FireTypeOK ==
  /\ batch \in [Demand -> {"absent", "linked", "synced"}]
  /\ pending \in [Name -> Seq([done : Nat, whole : BOOLEAN])]
  /\ session \in [Process -> [at : Step, held : Demand \cup {Cold},
                              want : Demand \cup {Cold}, done : Nat]]
  /\ losses \in Nat /\ outages \in Nat

(* "Retire pending algebra only after its exact completed batch is         *)
(* durable": but for an outage, a snapshot name loses its generations only *)
(* when the batch would survive an outage, whichever process completed it. *)
RetiredWhenDurable ==
  [][\A n \in Name :
       pending[n] # <<>> /\ pending'[n] = <<>> /\ outages' = outages
         => batch'[n[1]] = "synced"]_fireVars

(* "Durable pending work uses its own directory tree": what Store::put     *)
(* published can be read back, and a demand stays answerable.              *)
PendingReadable ==
  \A n \in Name : \A i \in 1..Len(pending[n]) : pending[n][i].whole
==============================================================================

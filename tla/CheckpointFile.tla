---------------------------- MODULE CheckpointFile ----------------------------
(***************************************************************************)
(* The checkpoint container on disk: write_raw_atomic and read_raw, step   *)
(* by step, over a file system that may lose what was not synchronised.    *)
(* Several processes may save to one path; readers open the path while     *)
(* they do; a process may die and the power may fail between any two       *)
(* system calls.                                                           *)
(*                                                                         *)
(* A file (an inode) is named by the save that created it; its content is  *)
(* the sequence of images its pieces came from.  A whole file has Pieces   *)
(* pieces of one image: that is what the lengths and checksums establish.  *)
(***************************************************************************)
EXTENDS Naturals, FiniteSets, Sequences

CONSTANTS
  Writer,     \* processes that save, each with a process id of its own
  Reader,     \* processes that restore
  Pieces,     \* writes to the temporary file
  MaxImages   \* bound: saves that create a file

ASSUME PiecesAssumption == Pieces \in Nat \ {0}
ASSUME ImagesAssumption == MaxImages \in Nat

Image == 1..MaxImages
None  == 0   \* no file

VARIABLES
  created,   \* saves that created a file
  content,   \* what a file holds
  durable,   \* how many pieces of it the disk is sure to hold
  temps,     \* temporary names: <<process, sequence number, file>>
  target,    \* the file the checkpoint path names
  settled,   \* the file it names on disk, when the directory was last synced
  loose,     \* files renamed to the path since then
  renames,   \* history: files renamed to the path, in order
  acked,     \* history: images whose save returned
  writer,    \* the save of each writer
  sequence,  \* temporary_path's counter, in each process
  reader     \* the open file and the pieces read, of each reader

vars == <<created, content, durable, temps, target, settled, loose, renames,
          acked, writer, sequence, reader>>

Resting == [at |-> "idle", image |-> None, name |-> 0]
Closed  == [at |-> "idle", file |-> None, got |-> <<>>]

Init ==
  /\ created = 0
  /\ content = [i \in Image |-> <<>>]
  /\ durable = [i \in Image |-> 0]
  /\ temps = {}
  /\ target = None /\ settled = None /\ loose = {}
  /\ renames = <<>> /\ acked = {}
  /\ writer = [w \in Writer |-> Resting]
  /\ sequence = [w \in Writer |-> 0]
  /\ reader = [r \in Reader |-> Closed]

------------------------------------------------------------------------------
(* write_raw_atomic.                                                       *)

Named(w)    == {t \in temps : t[1] = w /\ t[2] = writer[w].name}
Now(w, at)  == writer' = [writer EXCEPT ![w].at = at]

(* open(temporary, O_CREAT | O_EXCL): a name left by a dead process with   *)
(* the same id makes the save fail.                                        *)
Create(w) ==
  /\ writer[w].at = "idle"
  /\ sequence[w] < MaxImages
  /\ sequence' = [sequence EXCEPT ![w] = @ + 1]
  /\ \/ /\ \E t \in temps : t[1] = w /\ t[2] = sequence'[w]
        /\ UNCHANGED <<created, temps, writer>>
     \/ /\ \A t \in temps : <<t[1], t[2]>> # <<w, sequence'[w]>>
        /\ created < MaxImages
        /\ created' = created + 1
        /\ temps' = temps \cup {<<w, sequence'[w], created'>>}
        /\ writer' = [writer EXCEPT ![w] =
             [at |-> "writing", image |-> created', name |-> sequence'[w]]]
  /\ UNCHANGED <<content, durable, target, settled, loose, renames, acked, reader>>

(* write_all                                                               *)
WritePiece(w) ==
  /\ writer[w].at = "writing"
  /\ LET i == writer[w].image
     IN  /\ Len(content[i]) < Pieces
         /\ content' = [content EXCEPT ![i] = Append(@, i)]
  /\ UNCHANGED <<created, durable, temps, target, settled, loose, renames, acked,
                 writer, sequence, reader>>

(* Mutant: the file is closed, not synchronised.                           *)
CloseUnsynced(w) ==
  /\ writer[w].at = "writing"
  /\ Len(content[writer[w].image]) = Pieces
  /\ Now(w, "synced")
  /\ UNCHANGED <<created, content, durable, temps, target, settled, loose, renames,
                 acked, sequence, reader>>

(* fsync of the file, and close                                            *)
Sync(w) ==
  /\ writer[w].at = "writing"
  /\ Len(content[writer[w].image]) = Pieces
  /\ durable' = [durable EXCEPT ![writer[w].image] = Pieces]
  /\ Now(w, "synced")
  /\ UNCHANGED <<created, content, temps, target, settled, loose, renames, acked,
                 sequence, reader>>

(* Mutant: the checkpoint file itself is rewritten.                        *)
CopyOver(w) ==
  /\ writer[w].at = "synced"
  /\ \/ target = None /\ target' = writer[w].image /\ UNCHANGED content
     \/ /\ target # None
        /\ content' = [content EXCEPT ![target] = content[writer[w].image]]
        /\ UNCHANGED target
  /\ temps' = temps \ Named(w)
  /\ loose' = loose \cup {target'}
  /\ renames' = Append(renames, target')
  /\ Now(w, "renamed")
  /\ UNCHANGED <<created, durable, settled, acked, sequence, reader>>

(* rename(temporary, path)                                                 *)
Rename(w) ==
  /\ writer[w].at = "synced"
  /\ target' = writer[w].image
  /\ temps' = temps \ Named(w)
  /\ loose' = loose \cup {target'}
  /\ renames' = Append(renames, target')
  /\ Now(w, "renamed")
  /\ UNCHANGED <<created, content, durable, settled, acked, sequence, reader>>

Return(w) ==
  /\ acked' = acked \cup {writer[w].image}
  /\ writer' = [writer EXCEPT ![w] = Resting]

(* Mutant: the save returns when the file is in place.                     *)
ReturnUnsynced(w) ==
  /\ writer[w].at = "renamed"
  /\ Return(w)
  /\ UNCHANGED <<created, content, durable, temps, target, settled, loose, renames,
                 sequence, reader>>

(* open and fsync of the directory, and the return                         *)
SyncDirectory(w) ==
  /\ writer[w].at = "renamed"
  /\ settled' = target /\ loose' = {}
  /\ Return(w)
  /\ UNCHANGED <<created, content, durable, temps, target, renames, sequence, reader>>

(* Mutant: the exception leaves the temporary file.                        *)
FailKeepsTemp(w) ==
  /\ writer[w].at # "idle"
  /\ writer' = [writer EXCEPT ![w] = Resting]
  /\ UNCHANGED <<created, content, durable, temps, target, settled, loose, renames,
                 acked, sequence, reader>>

(* Any system call fails: unlink the temporary name, which the rename may  *)
(* have taken away already, and throw.                                     *)
Fail(w) ==
  /\ writer[w].at # "idle"
  /\ temps' = temps \ Named(w)
  /\ writer' = [writer EXCEPT ![w] = Resting]
  /\ UNCHANGED <<created, content, durable, target, settled, loose, renames, acked,
                 sequence, reader>>

------------------------------------------------------------------------------
(* read_raw.  The open file stays the reader's, whatever is renamed.       *)

Whole(pieces) ==
  /\ Len(pieces) = Pieces
  /\ \A i, j \in 1..Len(pieces) : pieces[i] = pieces[j]

Open(r) ==
  /\ reader[r].at \in {"idle", "accepted", "rejected"}
  /\ target # None
  /\ reader' = [reader EXCEPT ![r] = [at |-> "reading", file |-> target, got |-> <<>>]]
  /\ UNCHANGED <<created, content, durable, temps, target, settled, loose, renames,
                 acked, writer, sequence>>

Read(r) ==
  /\ reader[r].at = "reading"
  /\ LET file == content[reader[r].file]
         n    == Len(reader[r].got) + 1
     IN  IF n <= Len(file) /\ n <= Pieces
         THEN reader' = [reader EXCEPT ![r].got = Append(@, file[n])]
         ELSE reader' = [reader EXCEPT
                ![r].at = IF Whole(reader[r].got) THEN "accepted" ELSE "rejected"]
  /\ UNCHANGED <<created, content, durable, temps, target, settled, loose, renames,
                 acked, writer, sequence>>

------------------------------------------------------------------------------
(* Failures.                                                               *)

(* A process dies; its successor has the same id.  Its files stay.         *)
Die(w) ==
  /\ writer[w].at # "idle" \/ sequence[w] > 0
  /\ writer' = [writer EXCEPT ![w] = Resting]
  /\ sequence' = [sequence EXCEPT ![w] = 0]
  /\ UNCHANGED <<created, content, durable, temps, target, settled, loose, renames,
                 acked, reader>>

(* What the path may name after the power fails.                           *)
Findable == {settled} \cup loose

(* The power fails: files lose what was not synchronised, names since the  *)
(* last synchronisation of the directory may be lost or kept.              *)
PowerFails ==
  /\ \E found \in Findable : target' = found /\ settled' = found
  /\ loose' = {}
  /\ \E kept \in [Image -> 0..Pieces] :
       /\ \A i \in Image : durable[i] <= kept[i] /\ kept[i] <= Len(content[i])
       /\ content' = [i \in Image |-> SubSeq(content[i], 1, kept[i])]
       /\ durable' = kept
  /\ temps' \in SUBSET temps
  /\ writer' = [w \in Writer |-> Resting]
  /\ sequence' = [w \in Writer |-> 0]
  /\ reader' = [r \in Reader |-> Closed]
  /\ UNCHANGED <<created, renames, acked>>

------------------------------------------------------------------------------
Save(w) ==
  Create(w) \/ WritePiece(w) \/ Sync(w) \/ Rename(w) \/ SyncDirectory(w) \/ Fail(w)

Next ==
  \/ \E w \in Writer : Save(w) \/ Die(w)
  \/ \E r \in Reader : Open(r) \/ Read(r)
  \/ PowerFails

Spec == Init /\ [][Next]_vars

------------------------------------------------------------------------------
(* Properties.                                                             *)

File == Image \cup {None}

WriterRecord ==
  [at : {"idle", "writing", "synced", "renamed"}, image : File, name : Nat]

ReaderRecord ==
  [at : {"idle", "reading", "accepted", "rejected"}, file : File, got : Seq(Image)]

(* Every variable has its type.                                            *)
TypeOK ==
  /\ created \in 0..MaxImages
  /\ content \in [Image -> Seq(Image)]
  /\ durable \in [Image -> 0..Pieces]
  /\ temps \subseteq Writer \X Nat \X Image
  /\ target \in File /\ settled \in File /\ loose \subseteq Image
  /\ renames \in Seq(Image)
  /\ acked \subseteq Image
  /\ writer \in [Writer -> WriterRecord]
  /\ sequence \in [Writer -> Nat]
  /\ reader \in [Reader -> ReaderRecord]

(* Whatever the checkpoint path names, now or after a loss of power, is    *)
(* one whole image, and on disk.                                           *)
PathWhole ==
  \A i \in (Findable \cup {target}) \ {None} : Whole(content[i]) /\ durable[i] = Pieces

(* A reader that opened the path gets one whole image, however many saves  *)
(* replace the file while it reads.                                        *)
ReaderGetsOneImage ==
  \A r \in Reader : reader[r].at # "rejected" /\
    \A i \in 1..Len(reader[r].got) : reader[r].got[i] = reader[r].file

(* Once a save has returned, the path names a file whatever fails, and not *)
(* one that was put in place before that save's own.                       *)
AcknowledgedKept ==
  /\ acked # {} => None \notin Findable \cup {target}
  /\ \A i, j \in 1..Len(renames) :
       i < j /\ renames[j] \in acked => renames[i] \notin Findable \cup {target}

(* A save that failed leaves no temporary file of its own: the ones that   *)
(* no save is writing are left by dead processes.                          *)
LeftByTheDead ==
  [][\A t \in temps' : t \in temps /\ writer[t[1]].image = t[3] /\ writer'[t[1]].image # t[3]
       => sequence'[t[1]] = 0]_vars
==============================================================================

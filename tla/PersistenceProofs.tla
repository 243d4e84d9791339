-------------------------- MODULE PersistenceProofs --------------------------
(***************************************************************************)
(* Theorems about what outlives the process that made it: CheckpointFile,  *)
(* for any number of savers and readers; OwnershipClosure, for any clients; *)
(* FireSession, where pending work is retired only behind a durable batch, *)
(* for every number of processes, demands and losses; and AdjointTransport, *)
(* where a resumed run goes on as it would have.                           *)
(***************************************************************************)
EXTENDS CheckpointFile, OwnershipClosure, FireSession, AdjointTransport,
        FiniteSetTheorems, SequenceTheorems, NaturalsInduction, WellFoundedInduction, TLAPS

(* The files the path may come to name.                                    *)
Reachable == (Findable \cup {target}) \ {None}

(* A file holds pieces of its own image only, at most Pieces of them.      *)
FilesPure ==
  \A i \in Image :
    /\ durable[i] <= Len(content[i]) /\ Len(content[i]) <= Pieces
    /\ \A n \in 1..Len(content[i]) : content[i][n] = i

(* Nothing is renamed to the path, or left there, before it is on disk.    *)
OnDisk ==
  /\ \A i \in Reachable : durable[i] = Pieces
  /\ \A w \in Writer :
       writer[w].at \in {"synced", "renamed"} => durable[writer[w].image] = Pieces

(* Each save has an image of its own, and renames it at most once.         *)
SavesApart ==
  /\ \A w \in Writer :
       IF writer[w].at = "idle" THEN writer[w].image = None
       ELSE writer[w].image \in Image /\ writer[w].image <= created
  /\ \A v, w \in Writer : v # w /\ writer[v].at # "idle" => writer[v].image # writer[w].image
  /\ \A i \in 1..Len(renames) :
       /\ renames[i] <= created
       /\ \A w \in Writer : writer[w].at \in {"writing", "synced"} => renames[i] # writer[w].image

(* Only renamed images are acknowledged.                                   *)
AckedRenamed ==
  /\ \A a \in acked : \E i \in 1..Len(renames) : renames[i] = a
  /\ \A w \in Writer : writer[w].at = "renamed" =>
       \E i \in 1..Len(renames) : renames[i] = writer[w].image

(* While a save synchronises the directory, the path names its file or one *)
(* that was renamed later.                                                 *)
RenamedOrLater ==
  \A w \in Writer : writer[w].at = "renamed" =>
    /\ target # None
    /\ \A i, j \in 1..Len(renames) :
         i < j /\ renames[j] = writer[w].image => renames[i] # target

(* A temporary file of a save in progress has that save's name.            *)
TempsNamed ==
  \A t \in temps :
    /\ t[3] <= created
    /\ writer[t[1]].image = t[3] =>
         writer[t[1]].at \in {"writing", "synced"} /\ t[2] = writer[t[1]].name

(* A reader has pieces of the file it opened, and that file is on disk.    *)
ReadersWhole ==
  \A r \in Reader :
    /\ reader[r].at # "rejected"
    /\ IF reader[r].at = "idle" THEN reader[r].got = <<>>
       ELSE reader[r].file \in Image /\ durable[reader[r].file] = Pieces
    /\ Len(reader[r].got) <= Pieces
    /\ \A n \in 1..Len(reader[r].got) : reader[r].got[n] = reader[r].file

IndInv ==
  /\ TypeOK /\ FilesPure /\ OnDisk /\ SavesApart /\ AckedRenamed /\ RenamedOrLater
  /\ TempsNamed /\ ReadersWhole /\ AcknowledgedKept

------------------------------------------------------------------------------
LEMMA InitIndInv == Init => IndInv
<1> SUFFICES ASSUME Init  PROVE IndInv
  OBVIOUS
<1> USE PiecesAssumption, ImagesAssumption DEF Init, Resting, Closed
<1>1. <<>> \in Seq(Image) /\ Len(<<>>) = 0
  BY EmptySeq
<1>2. TypeOK
  BY <1>1 DEF TypeOK, File, Image, None, WriterRecord, ReaderRecord
<1>3. FilesPure /\ OnDisk
  BY <1>1 DEF FilesPure, OnDisk, Reachable, Findable
<1>4. SavesApart /\ AckedRenamed /\ RenamedOrLater /\ TempsNamed
  BY <1>1 DEF SavesApart, AckedRenamed, RenamedOrLater, TempsNamed
<1>5. ReadersWhole /\ AcknowledgedKept
  BY <1>1 DEF ReadersWhole, AcknowledgedKept
<1> QED  BY <1>2, <1>3, <1>4, <1>5 DEF IndInv

(* What a file held stays, or is cut, but a file on disk stays whole.      *)
LEMMA Types ==
  ASSUME IndInv
  PROVE  /\ Image \subseteq Nat \ {0}
         /\ \A i \in Image : /\ content[i] \in Seq(Image) /\ Len(content[i]) \in Nat
                            /\ durable[i] \in Nat
         /\ Len(renames) \in Nat /\ \A i \in 1..Len(renames) : renames[i] \in Image
         /\ \A r \in Reader : Len(reader[r].got) \in Nat
         /\ \A t \in temps : t[1] \in Writer /\ t[2] \in Nat /\ t[3] \in Image /\ t[3] \in Nat
         /\ \A w \in Writer : /\ writer[w] \in WriterRecord
                             /\ writer[w].image \in Nat /\ sequence[w] \in Nat
         /\ created \in Nat /\ created <= MaxImages /\ MaxImages \in Nat
         /\ Pieces \in Nat \ {0}
<1>1. \A s \in Seq(Image) : Len(s) \in Nat
  BY LenProperties
<1>2. \A s \in Seq(Image) : \A i \in 1..Len(s) : s[i] \in Image
  BY ElementOfSeq
<1>3. \A i \in Image : content[i] \in Seq(Image) /\ durable[i] \in 0..Pieces
  BY DEF IndInv, TypeOK
<1>4. \A r \in Reader : reader[r].got \in Seq(Image)
  BY DEF IndInv, TypeOK, ReaderRecord
<1>5. \A t \in temps : t \in Writer \X Nat \X Image
  BY DEF IndInv, TypeOK
<1>6. \A t \in temps : t[1] \in Writer /\ t[2] \in Nat /\ t[3] \in Image
  BY <1>5
<1>7. \A w \in Writer : writer[w] \in WriterRecord /\ sequence[w] \in Nat
  BY DEF IndInv, TypeOK
<1>8. Image \subseteq Nat \ {0} /\ File \subseteq Nat
  BY ImagesAssumption DEF Image, File, None
<1>9. \A w \in Writer : writer[w].image \in Nat
  BY <1>7, <1>8 DEF WriterRecord
<1>10. created \in Nat /\ created <= MaxImages
  BY ImagesAssumption DEF IndInv, TypeOK
<1>11. renames \in Seq(Image)
  BY DEF IndInv, TypeOK
<1>12. \A t \in temps : t[3] \in Nat
  BY <1>6, <1>8
<1>13. \A i \in Image : /\ content[i] \in Seq(Image) /\ Len(content[i]) \in Nat
                       /\ durable[i] \in Nat
  BY <1>1, <1>3, PiecesAssumption
<1>14. Len(renames) \in Nat /\ \A i \in 1..Len(renames) : renames[i] \in Image
  BY <1>1, <1>2, <1>11
<1>15. \A r \in Reader : Len(reader[r].got) \in Nat
  BY <1>1, <1>4
<1> QED  BY <1>6, <1>7, <1>8, <1>9, <1>10, <1>12, <1>13, <1>14, <1>15,
            PiecesAssumption, ImagesAssumption

LEMMA Appends ==
  ASSUME NEW S, NEW s \in Seq(S), NEW e \in S
  PROVE  /\ Append(s, e) \in Seq(S) /\ Len(s) \in Nat /\ Len(Append(s, e)) = Len(s) + 1
         /\ Append(s, e)[Len(s) + 1] = e /\ \A m \in 1..Len(s) : Append(s, e)[m] = s[m]
OBVIOUS

LEMMA Counts ==
  ASSUME sequence \in [Writer -> Nat], NEW w \in Writer,
         sequence' = [sequence EXCEPT ![w] = sequence[w] + 1]
  PROVE  sequence' \in [Writer -> Nat] /\ sequence'[w] \in Nat
OBVIOUS

LEMMA CreateStep ==
  ASSUME IndInv, NEW w \in Writer, Create(w)
  PROVE  IndInv'
<1> USE Types DEF IndInv
<1>1. CASE UNCHANGED <<created, temps, writer>>
  <2>1. UNCHANGED <<created, content, durable, temps, target, settled, loose, renames,
                    acked, writer, reader>>
    BY <1>1 DEF Create
  <2>2. sequence' \in [Writer -> Nat]
    BY Counts DEF Create, TypeOK
  <2>3. TypeOK'
    BY <2>1, <2>2 DEF TypeOK
  <2>4. (FilesPure /\ OnDisk /\ SavesApart /\ AckedRenamed /\ RenamedOrLater /\ TempsNamed)'
    BY <2>1 DEF FilesPure, OnDisk, SavesApart, AckedRenamed, RenamedOrLater, TempsNamed,
                Reachable, Findable
  <2>5. (ReadersWhole /\ AcknowledgedKept)'
    BY <2>1 DEF ReadersWhole, AcknowledgedKept, Findable
  <2> QED  BY <2>3, <2>4, <2>5
<1>2. CASE /\ created < MaxImages /\ created' = created + 1
           /\ temps' = temps \cup {<<w, sequence'[w], created'>>}
           /\ writer' = [writer EXCEPT ![w] =
                [at |-> "writing", image |-> created', name |-> sequence'[w]]]
  <2> DEFINE i == created + 1
  <2>1. i \in Image /\ i \in Nat /\ i # None /\ created' = i
    BY <1>2 DEF Image, None
  <2>13. sequence'[w] \in Nat /\ sequence' \in [Writer -> Nat]
    BY Counts DEF Create, TypeOK
  <2>2. /\ temps' = temps \cup {<<w, sequence'[w], i>>}
        /\ writer' = [writer EXCEPT ![w] =
                        [at |-> "writing", image |-> i, name |-> sequence'[w]]]
        /\ UNCHANGED <<content, durable, target, settled, loose, renames, acked, reader>>
    BY <1>2, <2>1 DEF Create
  <2>3. /\ writer'[w] = [at |-> "writing", image |-> i, name |-> sequence'[w]]
        /\ \A v \in Writer \ {w} : writer'[v] = writer[v]
    BY <2>2 DEF TypeOK
  <2>4. \A v \in Writer : writer[v].image # i
    BY <2>1 DEF SavesApart
  <2>5. writer[w].at = "idle"
    BY DEF Create
  <2> HIDE DEF i
  <2>6. TypeOK'
    <3>1. created' \in 0..MaxImages
      BY <1>2
    <3>2. writer' \in [Writer -> WriterRecord]
      <4>1. [at |-> "writing", image |-> i, name |-> sequence'[w]] \in WriterRecord
        BY <2>1, <2>13 DEF WriterRecord, File
      <4> QED  BY <4>1, <2>2 DEF TypeOK
    <3>3. temps' \subseteq Writer \X Nat \X Image
      <4>1. <<w, sequence'[w], i>> \in Writer \X Nat \X Image
        BY <2>1, <2>13
      <4> QED  BY <4>1, <2>2 DEF TypeOK
    <3> QED  BY <2>2, <2>13, <3>1, <3>2, <3>3 DEF TypeOK
  <2>7. FilesPure'
    BY <2>2 DEF FilesPure
  <2>8. OnDisk'
    BY <2>2, <2>3 DEF OnDisk, Reachable, Findable
  <2>9. SavesApart'
    <3>1. \A j \in 1..Len(renames) : renames[j] <= created /\ renames[j] # i
      <4>1. \A j \in 1..Len(renames) : renames[j] <= created
        BY DEF SavesApart
      <4>2. created \in Nat /\ ~(i <= created)
        BY DEF i
      <4> QED  BY <4>1, <4>2
    <3>2. \A n \in Nat : n <= created => n <= i
      BY DEF i
    <3>3. \A v \in Writer : IF writer'[v].at = "idle" THEN writer'[v].image = None
                          ELSE writer'[v].image \in Image /\ writer'[v].image <= i
      BY <2>1, <2>3, <3>2 DEF SavesApart
    <3>4. ASSUME NEW u \in Writer, NEW v \in Writer, u # v, writer'[u].at # "idle"
          PROVE  writer'[u].image # writer'[v].image
      <4>1. writer'[w].image = i
        BY <2>3
      <4>2. CASE u = w
        BY <2>3, <2>4, <3>4, <4>1, <4>2
      <4>3. CASE v = w
        BY <2>3, <2>4, <3>4, <4>1, <4>3
      <4>4. CASE u # w /\ v # w
        BY <2>3, <3>4, <4>4 DEF SavesApart
      <4> QED  BY <4>2, <4>3, <4>4
    <3>5. \A j \in 1..Len(renames) :
            /\ renames[j] <= i
            /\ \A v \in Writer : writer'[v].at \in {"writing", "synced"} =>
                                 renames[j] # writer'[v].image
      BY <2>3, <3>1, <3>2 DEF SavesApart
    <3> QED  BY <2>1, <2>2, <3>3, <3>4, <3>5 DEF SavesApart
  <2>10. (AckedRenamed /\ RenamedOrLater)'
    BY <2>2, <2>3 DEF AckedRenamed, RenamedOrLater
  <2>11. TempsNamed'
    <3>1. \A t \in temps : t[3] \in Nat /\ t[3] <= created /\ t[3] # i
      BY DEF TempsNamed, i
    <3>2. ASSUME NEW t \in temps
          PROVE  /\ t[3] <= i
                 /\ writer'[t[1]].image = t[3] =>
                      writer'[t[1]].at \in {"writing", "synced"} /\ t[2] = writer'[t[1]].name
      <4>1. t[3] <= i
        BY <3>1 DEF i
      <4>2. CASE t[1] = w
        BY <4>1, <4>2, <2>3, <3>1
      <4>3. CASE t[1] # w
        BY <4>1, <4>3, <2>3 DEF TempsNamed
      <4> QED  BY <4>2, <4>3
    <3> QED  BY <2>1, <2>2, <2>3, <3>2 DEF TempsNamed
  <2>12. (ReadersWhole /\ AcknowledgedKept)'
    BY <2>2 DEF ReadersWhole, AcknowledgedKept, Findable
  <2> QED  BY <2>6, <2>7, <2>8, <2>9, <2>10, <2>11, <2>12
<1> QED  BY <1>1, <1>2 DEF Create

LEMMA WritePieceStep ==
  ASSUME IndInv, NEW w \in Writer, WritePiece(w)
  PROVE  IndInv'
<1> USE Types DEF IndInv
<1> DEFINE i == writer[w].image
<1>1. /\ i \in Image /\ Len(content[i]) < Pieces
      /\ content' = [content EXCEPT ![i] = Append(@, i)]
  BY DEF WritePiece, SavesApart
<1>2. UNCHANGED <<created, durable, temps, target, settled, loose, renames, acked,
                  writer, sequence, reader>>
  BY DEF WritePiece
<1> HIDE DEF i
<1>3. /\ content'[i] \in Seq(Image) /\ Len(content'[i]) = Len(content[i]) + 1
      /\ \A n \in 1..Len(content'[i]) :
            content'[i][n] = IF n <= Len(content[i]) THEN content[i][n] ELSE i
  <2>1. content'[i] = Append(content[i], i) /\ content[i] \in Seq(Image)
    BY <1>1 DEF TypeOK
  <2>2. \A n \in 1..(Len(content[i]) + 1) :
          IF n <= Len(content[i]) THEN n \in 1..Len(content[i]) ELSE n = Len(content[i]) + 1
    BY <1>1
  <2> QED  BY <1>1, <2>1, <2>2, Appends
<1>4. \A j \in Image \ {i} : content'[j] = content[j]
  BY <1>1 DEF TypeOK
<1>5. TypeOK'
  BY <1>1, <1>2, <1>3, <1>4 DEF TypeOK
<1>6. FilesPure'
  BY <1>1, <1>2, <1>3, <1>4 DEF FilesPure
<1>7. (OnDisk /\ SavesApart /\ AckedRenamed /\ RenamedOrLater /\ TempsNamed)'
  BY <1>2 DEF OnDisk, SavesApart, AckedRenamed, RenamedOrLater, TempsNamed, Reachable, Findable
<1>8. (ReadersWhole /\ AcknowledgedKept)'
  BY <1>2 DEF ReadersWhole, AcknowledgedKept, Findable
<1> QED  BY <1>5, <1>6, <1>7, <1>8

LEMMA SyncStep ==
  ASSUME IndInv, NEW w \in Writer, Sync(w)
  PROVE  IndInv'
<1> USE Types DEF IndInv
<1> DEFINE i == writer[w].image
<1>1. /\ i \in Image /\ Len(content[i]) = Pieces /\ writer[w].at = "writing"
      /\ durable' = [durable EXCEPT ![i] = Pieces]
      /\ writer' = [writer EXCEPT ![w].at = "synced"]
  BY DEF Sync, SavesApart, Now
<1>2. UNCHANGED <<created, content, temps, target, settled, loose, renames, acked,
                  sequence, reader>>
  BY DEF Sync
<1>3. /\ writer'[w] = [writer[w] EXCEPT !.at = "synced"]
      /\ \A v \in Writer \ {w} : writer'[v] = writer[v]
      /\ durable'[i] = Pieces /\ \A j \in Image \ {i} : durable'[j] = durable[j]
  BY <1>1 DEF TypeOK
<1>5. writer'[w].at = "synced" /\ writer'[w].image = i /\ writer'[w].name = writer[w].name
  BY <1>3 DEF WriterRecord
<1>4. \A v \in Writer : writer'[v].image = writer[v].image /\ writer'[v].name = writer[v].name
  BY <1>3, <1>5
<1>6. \A j \in Image : durable[j] = Pieces => durable'[j] = Pieces
  BY <1>3
<1> HIDE DEF i
<1>7. TypeOK'
  <2>1. durable' \in [Image -> 0..Pieces]
    BY <1>1 DEF TypeOK
  <2>2. writer'[w] \in WriterRecord
    BY <1>3 DEF WriterRecord
  <2>3. writer' \in [Writer -> WriterRecord]
    BY <1>1, <1>3, <2>2 DEF TypeOK
  <2> QED  BY <1>2, <2>1, <2>3 DEF TypeOK
<1>8. FilesPure'
  BY <1>1, <1>2, <1>3 DEF FilesPure
<1>9. OnDisk'
  <2>1. Reachable' = Reachable /\ Reachable \subseteq Image
    BY <1>2 DEF Reachable, Findable, TypeOK, File
  <2>2. ASSUME NEW v \in Writer, writer'[v].at \in {"synced", "renamed"}
        PROVE  durable'[writer'[v].image] = Pieces
    <3>1. CASE v = w
      BY <3>1, <1>3, <1>5
    <3>2. CASE v # w
      <4>1. writer'[v] = writer[v]
        BY <3>2, <1>3
      <4>2. writer[v].image \in Image /\ durable[writer[v].image] = Pieces
        BY <2>2, <4>1 DEF SavesApart, OnDisk
      <4> QED  BY <4>1, <4>2, <1>6
    <3> QED  BY <3>1, <3>2
  <2>3. \A j \in Reachable : durable'[j] = Pieces
    BY <2>1, <1>6 DEF OnDisk
  <2> QED  BY <2>1, <2>2, <2>3 DEF OnDisk
<1>10. (SavesApart /\ AckedRenamed /\ RenamedOrLater /\ TempsNamed)'
  <2>1. SavesApart'
    <3>1. ASSUME NEW v \in Writer
          PROVE  /\ writer'[v].image = writer[v].image
                 /\ writer'[v].at = "idle" <=> writer[v].at = "idle"
                 /\ writer'[v].at \in {"writing", "synced"} =>
                      writer[v].at \in {"writing", "synced"}
      <4>1. CASE v = w
        BY <4>1, <1>1, <1>4, <1>5
      <4>2. CASE v # w
        BY <4>2, <1>3
      <4> QED  BY <4>1, <4>2
    <3>2. \A v \in Writer : IF writer'[v].at = "idle" THEN writer'[v].image = None
                          ELSE writer'[v].image \in Image /\ writer'[v].image <= created
      BY <3>1 DEF SavesApart
    <3>3. \A u, v \in Writer :
            u # v /\ writer'[u].at # "idle" => writer'[u].image # writer'[v].image
      BY <3>1 DEF SavesApart
    <3>4. \A j \in 1..Len(renames) :
            /\ renames[j] <= created
            /\ \A v \in Writer : writer'[v].at \in {"writing", "synced"} =>
                                 renames[j] # writer'[v].image
      BY <3>1 DEF SavesApart
    <3> QED  BY <1>2, <3>2, <3>3, <3>4 DEF SavesApart
  <2>4. \A v \in Writer : writer'[v].at = "renamed" => writer'[v] = writer[v]
    BY <1>3, <1>5
  <2>2. (AckedRenamed /\ RenamedOrLater)'
    BY <1>2, <2>4 DEF AckedRenamed, RenamedOrLater
  <2>3. TempsNamed'
    BY <1>1, <1>2, <1>3, <1>4, <1>5 DEF TempsNamed, TypeOK
  <2> QED  BY <2>1, <2>2, <2>3
<1>11. (ReadersWhole /\ AcknowledgedKept)'
  BY <1>2, <1>6 DEF ReadersWhole, AcknowledgedKept, Findable
<1> QED  BY <1>7, <1>8, <1>9, <1>10, <1>11

LEMMA RenameStep ==
  ASSUME IndInv, NEW w \in Writer, Rename(w)
  PROVE  IndInv'
<1> USE Types DEF IndInv
<1> DEFINE i == writer[w].image
           n == Len(renames)
<1>1. /\ writer[w].at = "synced" /\ i \in Image /\ durable[i] = Pieces
      /\ target' = i /\ loose' = loose \cup {i} /\ renames' = Append(renames, i)
      /\ temps' = temps \ Named(w)
      /\ writer' = [writer EXCEPT ![w].at = "renamed"]
  BY DEF Rename, SavesApart, OnDisk, Now
<1>2. UNCHANGED <<created, content, durable, settled, acked, sequence, reader>>
  BY DEF Rename
<1>3. writer'[w] = [writer[w] EXCEPT !.at = "renamed"]
      /\ \A v \in Writer \ {w} : writer'[v] = writer[v]
  BY <1>1 DEF TypeOK
<1>4. /\ writer'[w].at = "renamed" /\ writer'[w].image = i
      /\ writer'[w].name = writer[w].name /\ writer'[w] \in WriterRecord
  BY <1>3 DEF WriterRecord
<1>5. \A v \in Writer : writer'[v].image = writer[v].image
  BY <1>3, <1>4
<1> HIDE DEF i
<1>6. /\ renames' \in Seq(Image) /\ n \in Nat /\ Len(renames') = n + 1
      /\ renames'[n + 1] = i /\ \A j \in 1..n : renames'[j] = renames[j]
  BY <1>1 DEF TypeOK
<1> HIDE DEF n
<1>7. \A j \in 1..(n + 1) : j \in 1..n \/ j = n + 1
  BY <1>6
<1>8. \A j \in 1..n : renames[j] # i
  BY <1>1 DEF SavesApart, n, i
<1>9. i # None
  BY <1>1 DEF None
<1>10. TypeOK'
  <2>1. temps' \subseteq Writer \X Nat \X Image
    BY <1>1 DEF TypeOK
  <2>2. writer' \in [Writer -> WriterRecord]
    BY <1>1, <1>3, <1>4 DEF TypeOK
  <2> QED  BY <1>1, <1>2, <1>6, <2>1, <2>2 DEF TypeOK, File
<1>11. FilesPure'
  BY <1>2 DEF FilesPure
<1>12. OnDisk'
  <2>1. Reachable' \subseteq Reachable \cup {i}
    BY <1>1, <1>2 DEF Reachable, Findable
  <2>2. \A v \in Writer \ {w} :
          writer'[v].at \in {"synced", "renamed"} => durable[writer'[v].image] = Pieces
    BY <1>3 DEF OnDisk
  <2> QED  BY <2>1, <2>2, <1>1, <1>2, <1>4 DEF OnDisk
<1>13. SavesApart'
  <2>1. \A v \in Writer : IF writer'[v].at = "idle" THEN writer'[v].image = None
                        ELSE writer'[v].image \in Image /\ writer'[v].image <= created
    BY <1>1, <1>3, <1>4 DEF SavesApart, i
  <2>2. \A u, v \in Writer :
          u # v /\ writer'[u].at # "idle" => writer'[u].image # writer'[v].image
    BY <1>1, <1>3, <1>5 DEF SavesApart
  <2>3. i <= created
    BY <1>1 DEF SavesApart, i
  <2>4. ASSUME NEW v \in Writer, writer'[v].at \in {"writing", "synced"}
        PROVE  i # writer'[v].image /\ \A j \in 1..n : renames[j] # writer'[v].image
    <3>1. v # w
      BY <2>4, <1>4
    <3> QED  BY <3>1, <2>4, <1>1, <1>3 DEF SavesApart, i, n
  <2>5. \A j \in 1..(n + 1) :
          /\ renames'[j] <= created
          /\ \A v \in Writer : writer'[v].at \in {"writing", "synced"} =>
                               renames'[j] # writer'[v].image
    <3>1. \A j \in 1..n : renames[j] <= created
      BY DEF SavesApart, n
    <3> QED  BY <1>6, <1>7, <2>3, <2>4, <3>1
  <2> QED  BY <1>2, <1>6, <2>1, <2>2, <2>5 DEF SavesApart
<1>14. AckedRenamed'
  <2>1. ASSUME NEW a, NEW j \in 1..n, renames[j] = a  PROVE \E h \in 1..(n + 1) : renames'[h] = a
    <3>1. j \in 1..(n + 1) /\ renames'[j] = a
      BY <1>6, <2>1
    <3> QED  BY <3>1
  <2>2. n + 1 \in 1..(n + 1)
    BY <1>6
  <2>3. ASSUME NEW v \in Writer, writer'[v].at = "renamed"
        PROVE  \E j \in 1..(n + 1) : renames'[j] = writer'[v].image
    <3>1. CASE v = w
      BY <2>2, <3>1, <1>4, <1>6
    <3>2. CASE v # w
      <4>1. writer'[v] = writer[v]
        BY <3>2, <1>3
      <4>2. \E j \in 1..n : renames[j] = writer[v].image
        BY <2>3, <4>1 DEF AckedRenamed, n
      <4> QED  BY <2>1, <4>1, <4>2
    <3> QED  BY <3>1, <3>2
  <2>4. \A a \in acked : \E j \in 1..n : renames[j] = a
    BY DEF AckedRenamed, n
  <2> QED  BY <2>1, <2>3, <2>4, <1>2, <1>6 DEF AckedRenamed
<1>15. \A j, k \in 1..(n + 1) : j < k => j \in 1..n
  BY <1>6
<1>16. RenamedOrLater'
  BY <1>1, <1>6, <1>8, <1>9, <1>15 DEF RenamedOrLater
<1>17. TempsNamed'
  <2>1. ASSUME NEW t \in temps, t[2] # writer[w].name \/ t[1] # w
        PROVE  /\ t[3] <= created
               /\ writer'[t[1]].image = t[3] =>
                    writer'[t[1]].at \in {"writing", "synced"} /\ t[2] = writer'[t[1]].name
    <3>1. CASE t[1] = w
      BY <2>1, <3>1, <1>5 DEF TempsNamed
    <3>2. CASE t[1] # w
      BY <3>2, <1>3 DEF TempsNamed
    <3> QED  BY <3>1, <3>2
  <2>2. \A t \in temps' : t \in temps /\ (t[2] # writer[w].name \/ t[1] # w)
    BY <1>1 DEF Named
  <2> QED  BY <2>1, <2>2, <1>2 DEF TempsNamed
<1>18. ReadersWhole'
  BY <1>2 DEF ReadersWhole
<1>19. AcknowledgedKept'
  <2>1. i \notin acked
    BY <1>8 DEF AckedRenamed, n
  <2>2. acked # {} => None \notin Findable' \cup {target'}
    BY <1>1, <1>2, <1>9 DEF AcknowledgedKept, Findable
  <2>3. ASSUME NEW j \in 1..(n + 1), NEW k \in 1..(n + 1), j < k, renames'[k] \in acked
        PROVE  renames'[j] \notin Findable' \cup {target'}
    <3>1. j \in 1..n /\ k \in 1..n
      BY <2>1, <2>3, <1>6, <1>7, <1>15
    <3>2. renames[j] \notin Findable \cup {target} /\ renames[j] # i
      BY <3>1, <2>3, <1>6, <1>8 DEF AcknowledgedKept, n
    <3> QED  BY <3>1, <3>2, <1>1, <1>2, <1>6 DEF Findable
  <2> QED  BY <2>2, <2>3, <1>2, <1>6 DEF AcknowledgedKept
<1> QED  BY <1>10, <1>11, <1>12, <1>13, <1>14, <1>16, <1>17, <1>18, <1>19

(* A save that ends: its writer rests, and no image is in two hands.       *)
LEMMA Rests ==
  ASSUME IndInv, NEW w \in Writer, writer' = [writer EXCEPT ![w] = Resting],
         UNCHANGED <<created, content, durable, renames>>
  PROVE  /\ writer' \in [Writer -> WriterRecord]
         /\ FilesPure' /\ SavesApart'
         /\ \A v \in Writer : writer'[v] # writer[v] =>
                             writer'[v].at = "idle" /\ writer'[v].image = None
<1> USE Types DEF IndInv
<1>1. Resting \in WriterRecord
  BY DEF Resting, WriterRecord, File
<1>2. writer' \in [Writer -> WriterRecord]
  BY <1>1 DEF TypeOK
<1>3. writer'[w] = Resting /\ \A v \in Writer \ {w} : writer'[v] = writer[v]
  BY DEF TypeOK
<1>4. FilesPure'
  BY DEF FilesPure
<1>5. \A v \in Writer : writer'[v] # writer[v] =>
                      writer'[v].at = "idle" /\ writer'[v].image = None
  BY <1>3 DEF Resting
<1>6. SavesApart'
  <2>1. \A v \in Writer : IF writer'[v].at = "idle" THEN writer'[v].image = None
                        ELSE writer'[v].image \in Image /\ writer'[v].image <= created
    BY <1>3 DEF SavesApart, Resting
  <2>2. \A u, v \in Writer :
          u # v /\ writer'[u].at # "idle" => writer'[u].image # writer'[v].image
    BY <1>3, <1>5 DEF SavesApart, Resting, None
  <2>3. \A j \in 1..Len(renames) :
          /\ renames[j] <= created
          /\ \A v \in Writer : writer'[v].at \in {"writing", "synced"} =>
                               renames[j] # writer'[v].image
    BY <1>5 DEF SavesApart
  <2> QED  BY <2>1, <2>2, <2>3 DEF SavesApart
<1> QED  BY <1>2, <1>4, <1>5, <1>6

LEMMA SyncDirectoryStep ==
  ASSUME IndInv, NEW w \in Writer, SyncDirectory(w)
  PROVE  IndInv'
<1> USE Types DEF IndInv
<1> DEFINE i == writer[w].image
<1>1. /\ writer[w].at = "renamed" /\ i \in Image /\ target # None /\ target \in Image
      /\ settled' = target /\ loose' = {} /\ acked' = acked \cup {i}
      /\ writer' = [writer EXCEPT ![w] = Resting]
  BY DEF SyncDirectory, SavesApart, Return, RenamedOrLater, TypeOK, File
<1>2. UNCHANGED <<created, content, durable, temps, target, renames, sequence, reader>>
  BY DEF SyncDirectory
<1>3. /\ writer' \in [Writer -> WriterRecord]
      /\ FilesPure' /\ SavesApart'
      /\ \A v \in Writer : writer'[v] # writer[v] =>
                          writer'[v].at = "idle" /\ writer'[v].image = None
  BY <1>1, <1>2, Rests
<1>4. TypeOK'
  BY <1>1, <1>2, <1>3 DEF TypeOK
<1>5. OnDisk'
  <2>1. Reachable' \subseteq Reachable
    BY <1>1, <1>2 DEF Reachable, Findable
  <2> QED  BY <2>1, <1>2, <1>3 DEF OnDisk
<1>6. AckedRenamed'
  BY <1>1, <1>2, <1>3 DEF AckedRenamed
<1>7. RenamedOrLater'
  BY <1>2, <1>3 DEF RenamedOrLater
<1>8. TempsNamed'
  BY <1>2, <1>3 DEF TempsNamed, None
<1>9. ReadersWhole'
  BY <1>2 DEF ReadersWhole
<1>10. AcknowledgedKept'
  <2>1. Findable' \cup {target'} = {target}
    BY <1>1, <1>2 DEF Findable
  <2>2. \A j, k \in 1..Len(renames) :
          j < k /\ renames[k] \in acked \cup {i} => renames[j] # target
    BY <1>1 DEF RenamedOrLater, AcknowledgedKept
  <2> QED  BY <2>1, <2>2, <1>1, <1>2 DEF AcknowledgedKept
<1> QED  BY <1>3, <1>4, <1>5, <1>6, <1>7, <1>8, <1>9, <1>10

(* A failed save takes its temporary name away, a dead one does not.       *)
LEMMA GivesUp ==
  ASSUME IndInv, NEW w \in Writer, writer' = [writer EXCEPT ![w] = Resting],
         temps' \subseteq temps, sequence' \in [Writer -> Nat],
         UNCHANGED <<created, content, durable, target, settled, loose, renames, acked, reader>>
  PROVE  IndInv'
<1> USE Types DEF IndInv
<1>1. /\ writer' \in [Writer -> WriterRecord]
      /\ FilesPure' /\ SavesApart'
      /\ \A v \in Writer : writer'[v] # writer[v] =>
                          writer'[v].at = "idle" /\ writer'[v].image = None
  BY Rests
<1>2. TypeOK'
  BY <1>1 DEF TypeOK
<1>3. (OnDisk /\ AckedRenamed /\ RenamedOrLater)'
  <2>1. OnDisk'
    BY <1>1 DEF OnDisk, Reachable, Findable
  <2> QED  BY <2>1, <1>1 DEF AckedRenamed, RenamedOrLater
<1>4. TempsNamed'
  BY <1>1 DEF TempsNamed, None
<1>5. (ReadersWhole /\ AcknowledgedKept)'
  BY DEF ReadersWhole, AcknowledgedKept, Findable
<1> QED  BY <1>1, <1>2, <1>3, <1>4, <1>5

LEMMA FailStep ==
  ASSUME IndInv, NEW w \in Writer, Fail(w) \/ Die(w)
  PROVE  IndInv'
<1>1. writer' = [writer EXCEPT ![w] = Resting] /\ temps' \subseteq temps
      /\ UNCHANGED <<created, content, durable, target, settled, loose, renames, acked, reader>>
  BY DEF Fail, Die
<1>2. sequence' \in [Writer -> Nat]
  <2>1. sequence' = sequence \/ sequence' = [sequence EXCEPT ![w] = 0]
    BY DEF Fail, Die
  <2> QED  BY <2>1 DEF IndInv, TypeOK
<1> QED  BY <1>1, <1>2, GivesUp

------------------------------------------------------------------------------
(* A step that only moves a reader.                                        *)
LEMMA Moves ==
  ASSUME IndInv, NEW r \in Reader, NEW g \in ReaderRecord,
         reader' = [reader EXCEPT ![r] = g],
         g.at \in {"reading", "accepted"}, g.file \in Image, durable[g.file] = Pieces,
         Len(g.got) <= Pieces, \A n \in 1..Len(g.got) : g.got[n] = g.file,
         UNCHANGED <<created, content, durable, temps, target, settled, loose, renames,
                     acked, writer, sequence>>
  PROVE  IndInv'
<1> USE Types DEF IndInv
<1>1. reader'[r] = g /\ \A q \in Reader \ {r} : reader'[q] = reader[q]
  BY DEF TypeOK
<1>2. TypeOK'
  BY DEF TypeOK
<1>3. (FilesPure /\ OnDisk /\ SavesApart /\ AckedRenamed /\ RenamedOrLater /\ TempsNamed
       /\ AcknowledgedKept)'
  <2>1. (FilesPure /\ OnDisk)'
    BY DEF FilesPure, OnDisk, Reachable, Findable
  <2>2. (SavesApart /\ AckedRenamed)'
    BY DEF SavesApart, AckedRenamed
  <2>3. (RenamedOrLater /\ TempsNamed /\ AcknowledgedKept)'
    BY DEF RenamedOrLater, TempsNamed, AcknowledgedKept, Findable
  <2> QED  BY <2>1, <2>2, <2>3
<1>4. ReadersWhole'
  <2>1. \A q \in Reader : q = r \/ reader'[q] = reader[q]
    BY <1>1
  <2> QED  BY <1>1, <2>1 DEF ReadersWhole
<1> QED  BY <1>2, <1>3, <1>4

LEMMA OpenStep ==
  ASSUME IndInv, NEW r \in Reader, Open(r)
  PROVE  IndInv'
<1> DEFINE g == [at |-> "reading", file |-> target, got |-> <<>>]
<1>1. target \in Image /\ durable[target] = Pieces
  BY DEF Open, IndInv, TypeOK, File, OnDisk, Reachable
<1>2. <<>> \in Seq(Image) /\ Len(<<>>) = 0
  BY EmptySeq
<1>3. g \in ReaderRecord
  BY <1>1, <1>2 DEF ReaderRecord, File
<1>4. g.at = "reading" /\ g.file = target /\ g.got = <<>>
  OBVIOUS
<1>5. reader' = [reader EXCEPT ![r] = g]
      /\ UNCHANGED <<created, content, durable, temps, target, settled, loose, renames,
                     acked, writer, sequence>>
  BY DEF Open
<1> HIDE DEF g
<1>6. Len(g.got) <= Pieces /\ \A n \in 1..Len(g.got) : g.got[n] = g.file
  BY <1>2, <1>4, PiecesAssumption
<1> QED  BY <1>1, <1>3, <1>4, <1>5, <1>6, Moves

LEMMA ReadStep ==
  ASSUME IndInv, NEW r \in Reader, Read(r)
  PROVE  IndInv'
<1> USE Types DEF IndInv
<1> DEFINE bytes == content[reader[r].file]
           got  == reader[r].got
           n    == Len(got) + 1
<1>1. /\ reader[r].file \in Image /\ durable[reader[r].file] = Pieces /\ Len(bytes) = Pieces
      /\ bytes \in Seq(Image) /\ \A m \in 1..Pieces : bytes[m] = reader[r].file
  <2>1. reader[r].file \in Image /\ durable[reader[r].file] = Pieces
    BY DEF Read, ReadersWhole
  <2>2. bytes \in Seq(Image) /\ Len(bytes) \in Nat
    BY <2>1
  <2>3. /\ Pieces <= Len(bytes) /\ Len(bytes) <= Pieces
        /\ \A m \in 1..Len(bytes) : bytes[m] = reader[r].file
    BY <2>1 DEF FilesPure
  <2>4. Len(bytes) = Pieces
    BY <2>2, <2>3
  <2> QED  BY <2>1, <2>2, <2>3, <2>4
<1>2. /\ reader[r] \in ReaderRecord /\ got \in Seq(Image) /\ Len(got) \in Nat
      /\ Len(got) <= Pieces /\ \A m \in 1..Len(got) : got[m] = reader[r].file
  BY DEF TypeOK, ReaderRecord, ReadersWhole
<1>3. CASE n <= Pieces
  <2> DEFINE g == [reader[r] EXCEPT !.got = Append(got, bytes[n])]
  <2>1. bytes[n] = reader[r].file
    <3>1. n \in 1..Pieces
      BY <1>2, <1>3
    <3> QED  BY <1>1, <3>1
  <2>2. /\ Append(got, bytes[n]) \in Seq(Image) /\ Len(Append(got, bytes[n])) = n
        /\ \A m \in 1..n : Append(got, bytes[n])[m] = reader[r].file
    <3> HIDE DEF got, bytes
    <3>1. /\ Append(got, bytes[n]) \in Seq(Image) /\ Len(Append(got, bytes[n])) = n
          /\ Append(got, bytes[n])[n] = bytes[n]
          /\ \A m \in 1..Len(got) : Append(got, bytes[n])[m] = got[m]
      BY <1>1, <1>2, <2>1, Appends
    <3>2. \A m \in 1..n : m \in 1..Len(got) \/ m = n
      BY <1>2
    <3> QED  BY <1>2, <2>1, <3>1, <3>2
  <2>3. reader' = [reader EXCEPT ![r] = g]
    <3>1. n <= Len(bytes) /\ n <= Pieces
      BY <1>1, <1>3
    <3>2. reader' = [reader EXCEPT ![r].got = Append(@, bytes[n])]
      BY <3>1 DEF Read
    <3> QED  BY <3>2 DEF TypeOK
  <2>4. /\ g \in ReaderRecord /\ g.at = "reading" /\ g.file = reader[r].file
        /\ g.got = Append(got, bytes[n])
    BY <1>2, <2>2 DEF ReaderRecord, Read
  <2>5. UNCHANGED <<created, content, durable, temps, target, settled, loose, renames,
                    acked, writer, sequence>>
    BY DEF Read
  <2>6. Len(g.got) <= Pieces /\ \A m \in 1..Len(g.got) : g.got[m] = g.file
    <3> HIDE DEF g, got, bytes
    <3> QED  BY <1>3, <2>2, <2>4
  <2> HIDE DEF g, got, bytes
  <2> QED  BY <1>1, <2>3, <2>4, <2>5, <2>6, Moves
<1>4. CASE ~(n <= Pieces)
  <2> DEFINE g == [reader[r] EXCEPT !.at = "accepted"]
  <2>1. Len(got) = Pieces
    BY <1>2, <1>4
  <2>2. Whole(got)
    BY <1>2, <2>1 DEF Whole
  <2>3. reader' = [reader EXCEPT ![r].at = "accepted"]
    BY <1>4, <2>2 DEF Read
  <2>4. reader' = [reader EXCEPT ![r] = g]
    BY <2>3 DEF TypeOK
  <2>5. /\ g \in ReaderRecord /\ g.at = "accepted" /\ g.file = reader[r].file /\ g.got = got
    BY <1>2 DEF ReaderRecord
  <2>6. UNCHANGED <<created, content, durable, temps, target, settled, loose, renames,
                    acked, writer, sequence>>
    BY DEF Read
  <2>7. Len(g.got) <= Pieces /\ \A m \in 1..Len(g.got) : g.got[m] = g.file
    <3> HIDE DEF g, got
    <3> QED  BY <1>2, <2>5
  <2> HIDE DEF g, got, bytes
  <2> QED  BY <1>1, <2>4, <2>5, <2>6, <2>7, Moves
<1> QED  BY <1>3, <1>4

------------------------------------------------------------------------------
(* The power fails: what is on disk is what the invariant speaks of.       *)
LEMMA PowerFailsStep ==
  ASSUME IndInv, PowerFails
  PROVE  IndInv'
<1> USE Types DEF IndInv
<1>1. PICK found \in Findable : target' = found /\ settled' = found
  BY DEF PowerFails
<1>2. PICK kept \in [Image -> 0..Pieces] :
        /\ \A i \in Image : durable[i] <= kept[i] /\ kept[i] <= Len(content[i])
        /\ content' = [i \in Image |-> SubSeq(content[i], 1, kept[i])]
        /\ durable' = kept
  BY DEF PowerFails
<1>3. /\ loose' = {} /\ temps' \subseteq temps
      /\ writer' = [w \in Writer |-> Resting] /\ sequence' = [w \in Writer |-> 0]
      /\ reader' = [r \in Reader |-> Closed] /\ UNCHANGED <<created, renames, acked>>
  BY DEF PowerFails
<1>4. ASSUME NEW i \in Image
      PROVE  /\ content'[i] \in Seq(Image) /\ Len(content'[i]) = kept[i]
             /\ \A n \in 1..kept[i] : content'[i][n] = content[i][n]
  <2>1. kept[i] \in Nat /\ kept[i] <= Len(content[i]) /\ content[i] \in Seq(Image)
    BY <1>2
  <2>2. \A n \in 1..kept[i] : content[i][n] \in Image
    BY <2>1, ElementOfSeq
  <2>3. content'[i] = SubSeq(content[i], 1, kept[i])
    BY <1>2
  <2>4. 1 \in Int /\ kept[i] \in Int
    BY <2>1
  <2>5. /\ SubSeq(content[i], 1, kept[i]) \in Seq(Image)
        /\ Len(SubSeq(content[i], 1, kept[i])) = IF 1 <= kept[i] THEN kept[i] - 1 + 1 ELSE 0
        /\ \A n \in 1..(kept[i] - 1 + 1) :
              SubSeq(content[i], 1, kept[i])[n] = content[i][1 + n - 1]
    BY <2>2, <2>4, SubSeqProperties
  <2>6. Len(SubSeq(content[i], 1, kept[i])) = kept[i]
    BY <2>1, <2>5
  <2>7. \A n \in 1..kept[i] : SubSeq(content[i], 1, kept[i])[n] = content[i][n]
    <3>1. \A n \in 1..kept[i] : n \in 1..(kept[i] - 1 + 1) /\ 1 + n - 1 = n
      BY <2>1
    <3> QED  BY <2>5, <3>1
  <2> QED  BY <2>3, <2>5, <2>6, <2>7
<1>5. \A i \in Image : kept[i] \in Nat /\ kept[i] <= Pieces
                     /\ (durable[i] = Pieces => durable'[i] = Pieces)
  BY <1>2
<1>6. Reachable' \subseteq Reachable /\ Reachable \subseteq Image
  BY <1>1, <1>3 DEF Reachable, Findable, TypeOK, File
<1>7. Resting \in WriterRecord /\ Resting.at = "idle" /\ Resting.image = None
  BY DEF Resting, WriterRecord, File
<1>8. \A w \in Writer : writer'[w].at = "idle" /\ writer'[w].image = None
  BY <1>3, <1>7
<1>9. /\ Closed \in ReaderRecord /\ Closed.at = "idle" /\ Closed.got = <<>>
      /\ Len(<<>>) = 0
  <2>1. <<>> \in Seq(Image) /\ Len(<<>>) = 0
    BY EmptySeq
  <2> QED  BY <2>1 DEF Closed, ReaderRecord, File
<1>10. TypeOK'
  <2>1. content' \in [Image -> Seq(Image)]
    BY <1>2, <1>4
  <2>2. durable' \in [Image -> 0..Pieces]
    BY <1>2
  <2>3. target' \in File /\ settled' \in File
    BY <1>1 DEF Findable, TypeOK, File
  <2>4. writer' \in [Writer -> WriterRecord] /\ sequence' \in [Writer -> Nat]
        /\ reader' \in [Reader -> ReaderRecord]
    BY <1>3, <1>7, <1>9
  <2> QED  BY <1>3, <2>1, <2>2, <2>3, <2>4 DEF TypeOK
<1>11. FilesPure'
  <2>1. ASSUME NEW i \in Image
        PROVE  /\ durable'[i] <= Len(content'[i]) /\ Len(content'[i]) <= Pieces
               /\ \A n \in 1..Len(content'[i]) : content'[i][n] = i
    <3>1. durable'[i] = kept[i] /\ Len(content'[i]) = kept[i] /\ kept[i] \in Nat
          /\ kept[i] <= Pieces /\ kept[i] <= Len(content[i])
      BY <1>2, <1>4, <1>5
    <3>2. \A n \in 1..kept[i] : content[i][n] = i
      <4>1. 1..kept[i] \subseteq 1..Len(content[i])
        BY <3>1
      <4> QED  BY <4>1 DEF FilesPure
    <3>3. \A n \in 1..kept[i] : content'[i][n] = i
      BY <3>2, <1>4
    <3> QED  BY <3>1, <3>3
  <2> QED  BY <2>1 DEF FilesPure
<1>12. (OnDisk /\ SavesApart)'
  <2>1. OnDisk'
    BY <1>5, <1>6, <1>8 DEF OnDisk
  <2>2. SavesApart'
    BY <1>3, <1>8 DEF SavesApart
  <2> QED  BY <2>1, <2>2
<1>13. (AckedRenamed /\ RenamedOrLater /\ TempsNamed)'
  BY <1>3, <1>8 DEF AckedRenamed, RenamedOrLater, TempsNamed, None
<1>14. ReadersWhole'
  BY <1>3, <1>9 DEF ReadersWhole
<1>15. AcknowledgedKept'
  <2>1. Findable' \cup {target'} \subseteq Findable \cup {target}
    BY <1>1, <1>3 DEF Findable
  <2> QED  BY <2>1, <1>3 DEF AcknowledgedKept
<1> QED  BY <1>10, <1>11, <1>12, <1>13, <1>14, <1>15

LEMMA NextIndInv ==
  ASSUME IndInv, [Next]_vars
  PROVE  IndInv'
<1>1. CASE UNCHANGED vars
  <2> USE <1>1 DEF vars, IndInv
  <2>1. (TypeOK /\ FilesPure /\ OnDisk /\ SavesApart)'
    BY DEF TypeOK, FilesPure, OnDisk, SavesApart, Reachable, Findable
  <2>2. (AckedRenamed /\ RenamedOrLater /\ TempsNamed /\ ReadersWhole /\ AcknowledgedKept)'
    BY DEF AckedRenamed, RenamedOrLater, TempsNamed, ReadersWhole, AcknowledgedKept, Findable
  <2> QED  BY <2>1, <2>2
<1>2. ASSUME NEW w \in Writer, Save(w) \/ Die(w)  PROVE IndInv'
  BY <1>2, CreateStep, WritePieceStep, SyncStep, RenameStep, SyncDirectoryStep, FailStep
     DEF Save
<1>3. ASSUME NEW r \in Reader, Open(r) \/ Read(r)  PROVE IndInv'
  BY <1>3, OpenStep, ReadStep
<1>4. CASE PowerFails
  BY <1>4, PowerFailsStep
<1> QED  BY <1>1, <1>2, <1>3, <1>4 DEF Next

LEMMA SpecIndInv == Spec => []IndInv
  BY InitIndInv, NextIndInv, PTL DEF Spec

------------------------------------------------------------------------------
(* Every variable of the checkpoint file model has its type.               *)
THEOREM FileTypes == Spec => []TypeOK
<1>1. IndInv => TypeOK
  BY DEF IndInv
<1> QED  BY <1>1, SpecIndInv, PTL

(* write_raw_atomic: whatever the path names, or may name after a loss of  *)
(* power, is one whole image on disk, however many processes save.         *)
THEOREM PathAlwaysWhole == Spec => []PathWhole
<1>1. IndInv => PathWhole
  <2> SUFFICES ASSUME IndInv, NEW i \in Reachable
               PROVE  Whole(content[i]) /\ durable[i] = Pieces
    BY DEF PathWhole, Reachable
  <2>1. i \in Image /\ durable[i] = Pieces
    BY DEF IndInv, TypeOK, File, OnDisk, Reachable, Findable
  <2>2. Len(content[i]) = Pieces /\ \A n \in 1..Len(content[i]) : content[i][n] = i
    BY <2>1, Types DEF IndInv, FilesPure
  <2> QED  BY <2>1, <2>2 DEF Whole
<1> QED  BY <1>1, SpecIndInv, PTL

(* read_raw: an open file never mixes two saves, and is never refused.     *)
THEOREM ReadersGetOneImage == Spec => []ReaderGetsOneImage
<1>1. IndInv => ReaderGetsOneImage
  BY DEF IndInv, ReadersWhole, ReaderGetsOneImage
<1> QED  BY <1>1, SpecIndInv, PTL

(* write_raw_atomic: a save that returned is never undone by a failure.    *)
THEOREM SavesAreKept == Spec => []AcknowledgedKept
<1>1. IndInv => AcknowledgedKept
  BY DEF IndInv
<1> QED  BY <1>1, SpecIndInv, PTL

(* write_raw_atomic: only a process that dies leaves its temporary file.   *)
THEOREM TempsOfTheDead == Spec => LeftByTheDead
<1> DEFINE A == \A t \in temps' :
                  t \in temps /\ writer[t[1]].image = t[3] /\ writer'[t[1]].image # t[3]
                    => sequence'[t[1]] = 0
<1>1. IndInv /\ [Next]_vars => [A]_vars
  <2> SUFFICES ASSUME IndInv, Next, NEW t \in temps', t \in temps,
                      writer[t[1]].image = t[3], writer'[t[1]].image # t[3]
               PROVE  sequence'[t[1]] = 0
    BY DEF Next
  <2> USE Types DEF IndInv
  <2>1. t[1] \in Writer /\ writer[t[1]].at \in {"writing", "synced"}
        /\ t[2] = writer[t[1]].name
    BY DEF TempsNamed
  <2>2. ASSUME NEW w \in Writer, Save(w)  PROVE sequence'[t[1]] = 0
    <3>1. CASE t[1] # w
      <4>1. writer'[t[1]] = writer[t[1]]
        BY <2>1, <2>2, <3>1
           DEF TypeOK, Save, Create, WritePiece, Sync, Rename, SyncDirectory, Fail, Return, Now
      <4> QED  BY <4>1
    <3>2. CASE t[1] = w
      <4>1. t \in Named(w)
        BY <2>1, <3>2 DEF Named
      <4>2. ~Fail(w) /\ ~Rename(w)
        BY <4>1 DEF Fail, Rename
      <4>3. ~Create(w) /\ ~SyncDirectory(w)
        BY <2>1, <3>2 DEF Create, SyncDirectory
      <4>4. writer'[w].image = writer[w].image
        BY <2>2, <4>2, <4>3 DEF Save, WritePiece, Sync, Now, TypeOK, WriterRecord
      <4> QED  BY <3>2, <4>4
    <3> QED  BY <3>1, <3>2
  <2>3. ASSUME NEW w \in Writer, Die(w)  PROVE sequence'[t[1]] = 0
    BY <2>1, <2>3 DEF Die, TypeOK
  <2>4. ASSUME NEW r \in Reader, Open(r) \/ Read(r)  PROVE sequence'[t[1]] = 0
    BY <2>4 DEF Open, Read
  <2>5. CASE PowerFails
    BY <2>1, <2>5 DEF PowerFails
  <2> QED  BY <2>2, <2>3, <2>4, <2>5 DEF Next
<1> QED  BY <1>1, SpecIndInv, PTL DEF Spec, LeftByTheDead

------------------------------------------------------------------------------
(* What is reached from some handles.                                      *)

Inside(edges) == \A h \in DOMAIN edges : edges[h] \subseteq DOMAIN edges

(* It holds them, leads nowhere else, and is the least such set.           *)
LEMMA Reached ==
  ASSUME NEW edges, NEW first, Inside(edges), first \subseteq DOMAIN edges
  PROVE  /\ first \subseteq ReachedFrom(edges, first)
         /\ ReachedFrom(edges, first) \subseteq DOMAIN edges
         /\ \A h \in ReachedFrom(edges, first) : edges[h] \subseteq ReachedFrom(edges, first)
         /\ \A S \in SUBSET DOMAIN edges :
              first \subseteq S /\ (\A h \in S : edges[h] \subseteq S)
                => ReachedFrom(edges, first) \subseteq S
<1> DEFINE others == DOMAIN edges \ first
           Shut(S) == \A h \in first \cup S : edges[h] \subseteq first \cup S
           R == ReachedFrom(edges, first)
<1>1. R = first \cup {h \in others : \A S \in SUBSET (others \ {h}) : ~Shut(S)}
  BY DEF ReachedFrom
<1>2. ASSUME NEW h \in R, NEW g \in edges[h], g \notin first  PROVE g \in R
  <2>1. h \in DOMAIN edges /\ g \in others
    BY <1>1, <1>2 DEF Inside
  <2>2. ASSUME NEW S \in SUBSET (others \ {g}), Shut(S)  PROVE FALSE
    <3>1. h \notin first \cup S
      BY <1>2, <2>2
    <3>2. S \in SUBSET (others \ {h})
      BY <3>1
    <3> QED  BY <1>1, <2>2, <3>1, <3>2
  <2> QED  BY <1>1, <2>1, <2>2
<1>3. ASSUME NEW S \in SUBSET DOMAIN edges,
             first \subseteq S, \A h \in S : edges[h] \subseteq S
      PROVE  R \subseteq S
  <2> SUFFICES ASSUME NEW h \in R, h \notin S  PROVE FALSE
    OBVIOUS
  <2>1. S \ first \in SUBSET (others \ {h}) /\ first \cup (S \ first) = S
    BY <1>3
  <2>2. Shut(S \ first)
    BY <1>3, <2>1
  <2>3. h \notin first
    BY <1>3
  <2> HIDE DEF others, Shut, R
  <2> QED  BY <1>1, <2>1, <2>2, <2>3
<1> QED  BY <1>1, <1>2, <1>3

(* Nothing changes when the other handles are gone.                        *)
LEMMA ReachedAgain ==
  ASSUME NEW edges, NEW first, Inside(edges), first \subseteq DOMAIN edges,
         NEW fewer, DOMAIN fewer = ReachedFrom(edges, first),
         \A h \in DOMAIN fewer : fewer[h] = edges[h]
  PROVE  ReachedFrom(fewer, first) = DOMAIN fewer
<1>1. Inside(fewer) /\ first \subseteq DOMAIN fewer
  BY Reached DEF Inside
<1> DEFINE R == ReachedFrom(fewer, first)
<1>2. /\ first \subseteq R /\ R \subseteq DOMAIN fewer
      /\ \A h \in R : fewer[h] \subseteq R
  BY <1>1, Reached
<1>3. R \in SUBSET DOMAIN edges /\ \A h \in R : edges[h] \subseteq R
  BY <1>2, Reached
<1>4. ReachedFrom(edges, first) \subseteq R
  BY <1>2, <1>3, Reached
<1> QED  BY <1>2, <1>4

------------------------------------------------------------------------------
Forms ==
  {"chart", "scc", "tile", "local", "row", "derived", "sealed", "handoff",
   "exact match", "acb match", "hop", "state", "free endpoint", "planned", "of state"}

KindOf(form) ==
  CASE form \in {"local", "row", "derived", "sealed", "handoff"} -> "local"
    [] form \in {"exact match", "acb match", "hop"} -> "match"
    [] form \in {"free endpoint", "planned", "of state"} -> "result"
    [] OTHER -> form

Fields == DOMAIN Bare \cup {"form"}

Handles(kind) == {kind} \X Nat

(* What the fields of the object of a handle may hold.                     *)
Typed(h, o) ==
  /\ DOMAIN o = Fields
  /\ o.form \in Forms /\ h \in Handles(KindOf(o.form))
  /\ o.owner \subseteq Handles("chart") \cup Handles("scc")
  /\ o.plan \subseteq Handles("tile")
  /\ o.basis \subseteq Handles("local") /\ o.from \subseteq Handles("local")
  /\ o.terminal \subseteq Handles("match")
  /\ o.through \subseteq Handles("match") \cup Handles("state")
  /\ o.form \notin {"free endpoint", "planned", "of state"} => o.through \subseteq Handles("match")
  /\ o.form \in {"chart", "scc", "tile", "local"} => Retained(o) = o.owner
  /\ o.form = "handoff" => o.terminal = {} /\ \A g \in o.from : g[2] < h[2]

(* No object owns itself, however indirectly.                              *)
Founded(made) ==
  \A S \in SUBSET DOMAIN made : S # {} => \E h \in S : Retained(made[h]) \cap S = {}

ClosureTypes ==
  /\ issued \in [ObjectKind -> Nat]
  /\ objects = [h \in DOMAIN objects |-> objects[h]]
  /\ \A h \in DOMAIN objects : Typed(h, objects[h]) /\ h[2] <= issued[h[1]]

(* Whatever an object owns is there, and so is whatever is registered.     *)
Kept ==
  /\ visible \subseteq DOMAIN objects
  /\ \A h \in DOMAIN objects : Retained(objects[h]) \subseteq DOMAIN objects

ClosureInv == ClosureTypes /\ Kept /\ Founded(objects)

------------------------------------------------------------------------------
(* An object has its form, the fields it was given, and nothing else.      *)
Has(o, form, owner, plan, basis, from, through, terminal) ==
  /\ DOMAIN o = Fields /\ o.form = form
  /\ o.owner = owner /\ o.plan = plan /\ o.basis = basis /\ o.from = from
  /\ o.through = through /\ o.terminal = terminal

LEMMA ObjectHas ==
  ASSUME NEW form, NEW fields, NEW owner, NEW plan, NEW basis, NEW from, NEW through, NEW terminal,
         IF "owner" \in DOMAIN fields THEN owner = fields.owner ELSE owner = {},
         IF "plan" \in DOMAIN fields THEN plan = fields.plan ELSE plan = {},
         IF "basis" \in DOMAIN fields THEN basis = fields.basis ELSE basis = {},
         IF "from" \in DOMAIN fields THEN from = fields.from ELSE from = {},
         IF "through" \in DOMAIN fields THEN through = fields.through ELSE through = {},
         IF "terminal" \in DOMAIN fields THEN terminal = fields.terminal ELSE terminal = {}
  PROVE  Has(Object(form, fields), form, owner, plan, basis, from, through, terminal)
<1>1. /\ DOMAIN Bare = {"key", "owner", "plan", "basis", "from", "through", "terminal", "shadow"}
      /\ Bare.owner = {} /\ Bare.plan = {} /\ Bare.basis = {} /\ Bare.from = {}
      /\ Bare.through = {} /\ Bare.terminal = {}
  BY DEF Bare
<1>2. DOMAIN Object(form, fields) = Fields
  BY DEF Object, Fields
<1>3. \A f \in Fields :
        Object(form, fields)[f] = IF f = "form" THEN form
                                  ELSE IF f \in DOMAIN fields THEN fields[f] ELSE Bare[f]
  BY DEF Object, Fields
<1>4. Fields = {"key", "owner", "plan", "basis", "from", "through", "terminal", "shadow", "form"}
  BY <1>1 DEF Fields
<1>5. Object(form, fields).form = form
  BY <1>3, <1>4
<1> QED  BY <1>1, <1>2, <1>3, <1>4, <1>5 DEF Has

LEMMA ObjectOfKey ==
  ASSUME NEW form, NEW key
  PROVE  Has(Object(form, [key |-> key]), form, {}, {}, {}, {}, {}, {})
<1> DEFINE fields == [key |-> key]
<1>1. DOMAIN fields = {"key"}
  OBVIOUS
<1> HIDE DEF fields
<1>2. Has(Object(form, fields), form, {}, {}, {}, {}, {}, {})
  BY <1>1, ObjectHas
<1> QED  BY <1>2 DEF fields

LEMMA ObjectOfOwner ==
  ASSUME NEW form, NEW owner
  PROVE  Has(Object(form, [owner |-> owner]), form, owner, {}, {}, {}, {}, {})
<1> DEFINE fields == [owner |-> owner]
<1>1. DOMAIN fields = {"owner"} /\ fields.owner = owner
  OBVIOUS
<1> HIDE DEF fields
<1>2. Has(Object(form, fields), form, owner, {}, {}, {}, {}, {})
  BY <1>1, ObjectHas
<1> QED  BY <1>2 DEF fields

LEMMA ObjectOfShadow ==
  ASSUME NEW form, NEW owner, NEW shadow
  PROVE  Has(Object(form, [owner |-> owner, shadow |-> shadow]), form, owner, {}, {}, {}, {}, {})
<1> DEFINE fields == [owner |-> owner, shadow |-> shadow]
<1>1. DOMAIN fields = {"owner", "shadow"} /\ fields.owner = owner
  OBVIOUS
<1> HIDE DEF fields
<1>2. Has(Object(form, fields), form, owner, {}, {}, {}, {}, {})
  BY <1>1, ObjectHas
<1> QED  BY <1>2 DEF fields

LEMMA ObjectOfComposite ==
  ASSUME NEW form, NEW key, NEW owner
  PROVE  Has(Object(form, [key |-> key, owner |-> owner]), form, owner, {}, {}, {}, {}, {})
<1> DEFINE fields == [key |-> key, owner |-> owner]
<1>1. DOMAIN fields = {"key", "owner"} /\ fields.owner = owner
  OBVIOUS
<1> HIDE DEF fields
<1>2. Has(Object(form, fields), form, owner, {}, {}, {}, {}, {})
  BY <1>1, ObjectHas
<1> QED  BY <1>2 DEF fields

LEMMA ObjectOfRow ==
  ASSUME NEW form, NEW owner, NEW from
  PROVE  Has(Object(form, [owner |-> owner, from |-> from]), form, owner, {}, {}, from, {}, {})
<1> DEFINE fields == [owner |-> owner, from |-> from]
<1>1. DOMAIN fields = {"owner", "from"} /\ fields.owner = owner /\ fields.from = from
  OBVIOUS
<1> HIDE DEF fields
<1>2. Has(Object(form, fields), form, owner, {}, {}, from, {}, {})
  BY <1>1, ObjectHas
<1> QED  BY <1>2 DEF fields

LEMMA ObjectOfMatch ==
  ASSUME NEW form, NEW basis, NEW from
  PROVE  Has(Object(form, [basis |-> basis, from |-> from]), form, {}, {}, basis, from, {}, {})
<1> DEFINE fields == [basis |-> basis, from |-> from]
<1>1. DOMAIN fields = {"basis", "from"} /\ fields.basis = basis /\ fields.from = from
  OBVIOUS
<1> HIDE DEF fields
<1>2. Has(Object(form, fields), form, {}, {}, basis, from, {}, {})
  BY <1>1, ObjectHas
<1> QED  BY <1>2 DEF fields

LEMMA ObjectOfHop ==
  ASSUME NEW form, NEW plan, NEW basis, NEW from
  PROVE  Has(Object(form, [plan |-> plan, basis |-> basis, from |-> from]), form, {}, plan, basis, from, {}, {})
<1> DEFINE fields == [plan |-> plan, basis |-> basis, from |-> from]
<1>1. /\ DOMAIN fields = {"plan", "basis", "from"}
      /\ fields.plan = plan /\ fields.basis = basis /\ fields.from = from
  OBVIOUS
<1> HIDE DEF fields
<1>2. Has(Object(form, fields), form, {}, plan, basis, from, {}, {})
  BY <1>1, ObjectHas
<1> QED  BY <1>2 DEF fields

LEMMA ObjectOfDerived ==
  ASSUME NEW form, NEW owner, NEW through
  PROVE  Has(Object(form, [owner |-> owner, through |-> through]), form, owner, {}, {}, {}, through, {})
<1> DEFINE fields == [owner |-> owner, through |-> through]
<1>1. /\ DOMAIN fields = {"owner", "through"}
      /\ fields.owner = owner /\ fields.through = through
  OBVIOUS
<1> HIDE DEF fields
<1>2. Has(Object(form, fields), form, owner, {}, {}, {}, through, {})
  BY <1>1, ObjectHas
<1> QED  BY <1>2 DEF fields

LEMMA ObjectOfSealed ==
  ASSUME NEW form, NEW owner, NEW plan, NEW from, NEW terminal
  PROVE  Has(Object(form, [owner |-> owner, plan |-> plan, from |-> from, terminal |-> terminal]), form, owner, plan, {}, from, {}, terminal)
<1> DEFINE fields == [owner |-> owner, plan |-> plan, from |-> from, terminal |-> terminal]
<1>1. /\ DOMAIN fields = {"owner", "plan", "from", "terminal"}
      /\ fields.owner = owner /\ fields.plan = plan /\ fields.from = from /\ fields.terminal = terminal
  OBVIOUS
<1> HIDE DEF fields
<1>2. Has(Object(form, fields), form, owner, plan, {}, from, {}, terminal)
  BY <1>1, ObjectHas
<1> QED  BY <1>2 DEF fields

LEMMA ObjectOfHandoff ==
  ASSUME NEW form, NEW owner, NEW plan, NEW from
  PROVE  Has(Object(form, [owner |-> owner, plan |-> plan, from |-> from]), form, owner, plan, {}, from, {}, {})
<1> DEFINE fields == [owner |-> owner, plan |-> plan, from |-> from]
<1>1. /\ DOMAIN fields = {"owner", "plan", "from"}
      /\ fields.owner = owner /\ fields.plan = plan /\ fields.from = from
  OBVIOUS
<1> HIDE DEF fields
<1>2. Has(Object(form, fields), form, owner, plan, {}, from, {}, {})
  BY <1>1, ObjectHas
<1> QED  BY <1>2 DEF fields

LEMMA ObjectOfFold ==
  ASSUME NEW form, NEW plan, NEW from, NEW terminal
  PROVE  Has(Object(form, [plan |-> plan, from |-> from, terminal |-> terminal]), form, {}, plan, {}, from, {}, terminal)
<1> DEFINE fields == [plan |-> plan, from |-> from, terminal |-> terminal]
<1>1. /\ DOMAIN fields = {"plan", "from", "terminal"}
      /\ fields.plan = plan /\ fields.from = from /\ fields.terminal = terminal
  OBVIOUS
<1> HIDE DEF fields
<1>2. Has(Object(form, fields), form, {}, plan, {}, from, {}, terminal)
  BY <1>1, ObjectHas
<1> QED  BY <1>2 DEF fields

LEMMA ObjectOfArm ==
  ASSUME NEW form, NEW plan, NEW basis, NEW from, NEW through
  PROVE  Has(Object(form, [plan |-> plan, basis |-> basis, from |-> from, through |-> through]), form, {}, plan, basis, from, through, {})
<1> DEFINE fields == [plan |-> plan, basis |-> basis, from |-> from, through |-> through]
<1>1. /\ DOMAIN fields = {"plan", "basis", "from", "through"}
      /\ fields.plan = plan /\ fields.basis = basis /\ fields.from = from /\ fields.through = through
  OBVIOUS
<1> HIDE DEF fields
<1>2. Has(Object(form, fields), form, {}, plan, basis, from, through, {})
  BY <1>1, ObjectHas
<1> QED  BY <1>2 DEF fields

LEMMA ObjectOfEndpoint ==
  ASSUME NEW form, NEW from
  PROVE  Has(Object(form, [from |-> from]), form, {}, {}, {}, from, {}, {})
<1> DEFINE fields == [from |-> from]
<1>1. DOMAIN fields = {"from"} /\ fields.from = from
  OBVIOUS
<1> HIDE DEF fields
<1>2. Has(Object(form, fields), form, {}, {}, {}, from, {}, {})
  BY <1>1, ObjectHas
<1> QED  BY <1>2 DEF fields

LEMMA ObjectOfPlanned ==
  ASSUME NEW form, NEW plan, NEW from
  PROVE  Has(Object(form, [plan |-> plan, from |-> from]), form, {}, plan, {}, from, {}, {})
<1> DEFINE fields == [plan |-> plan, from |-> from]
<1>1. DOMAIN fields = {"plan", "from"} /\ fields.plan = plan /\ fields.from = from
  OBVIOUS
<1> HIDE DEF fields
<1>2. Has(Object(form, fields), form, {}, plan, {}, from, {}, {})
  BY <1>1, ObjectHas
<1> QED  BY <1>2 DEF fields

LEMMA ObjectOfState ==
  ASSUME NEW form, NEW through
  PROVE  Has(Object(form, [through |-> through]), form, {}, {}, {}, {}, through, {})
<1> DEFINE fields == [through |-> through]
<1>1. DOMAIN fields = {"through"} /\ fields.through = through
  OBVIOUS
<1> HIDE DEF fields
<1>2. Has(Object(form, fields), form, {}, {}, {}, {}, through, {})
  BY <1>1, ObjectHas
<1> QED  BY <1>2 DEF fields

(* What is left of the objects when those that no handle of named leads to *)
(* are gone.                                                               *)
LEMMA Collected ==
  ASSUME NEW made, NEW named, named \subseteq DOMAIN made,
         \A h \in DOMAIN made : Retained(made[h]) \subseteq DOMAIN made, Founded(made)
  PROVE  LET left == Restrict(made, Owned(made, named)) IN
         /\ left = [h \in DOMAIN left |-> left[h]]
         /\ DOMAIN left \subseteq DOMAIN made /\ named \subseteq DOMAIN left
         /\ \A h \in DOMAIN left :
              left[h] = made[h] /\ Retained(left[h]) \subseteq DOMAIN left
         /\ Founded(left)
<1> DEFINE edges == [h \in DOMAIN made |-> Retained(made[h])]
           left  == Restrict(made, Owned(made, named))
<1>1. Inside(edges) /\ DOMAIN edges = DOMAIN made
  BY DEF Inside
<1>2. DOMAIN left = ReachedFrom(edges, named) /\ left = [h \in DOMAIN left |-> made[h]]
  BY DEF Restrict, Owned
<1> HIDE DEF edges, left
<1>3. /\ named \subseteq DOMAIN left /\ DOMAIN left \subseteq DOMAIN made
      /\ \A h \in DOMAIN left : edges[h] \subseteq DOMAIN left
  BY <1>1, <1>2, Reached
<1>4. \A h \in DOMAIN left : left[h] = made[h]
  BY <1>2
<1>5. \A h \in DOMAIN left : Retained(left[h]) \subseteq DOMAIN left
  BY <1>3, <1>4 DEF edges
<1>6. Founded(left)
  BY <1>3, <1>4 DEF Founded
<1>7. left = [h \in DOMAIN left |-> left[h]]
  BY <1>2
<1> QED  BY <1>3, <1>4, <1>5, <1>6, <1>7 DEF left

(* New objects may own the old ones, and one another if in a chain.        *)
LEMMA Published ==
  ASSUME ClosureInv, NEW new, NEW shown, NEW spent, Publish(new, shown, spent),
         IsFiniteSet(DOMAIN new), shown \subseteq DOMAIN new, Founded(new),
         \A h \in DOMAIN new :
           /\ h[1] \in ObjectKind /\ h = Fresh(h[1]) /\ Typed(h, new[h])
           /\ Retained(new[h]) \subseteq DOMAIN objects \cup DOMAIN new
  PROVE  ClosureInv'
<1> DEFINE made  == [h \in DOMAIN objects \cup DOMAIN new |->
                       IF h \in DOMAIN new THEN new[h] ELSE objects[h]]
           named == (visible \cup shown) \ spent
           count(k) == Cardinality({h \in DOMAIN new : h[1] = k})
<1>1. /\ issued' = [k \in ObjectKind |-> issued[k] + count(k)]
      /\ visible' = named /\ objects' = Restrict(made, Owned(made, named))
  BY DEF Publish
<1>2. \A h \in DOMAIN new : h \notin DOMAIN objects
  <2>1. SUFFICES ASSUME NEW h \in DOMAIN new, h \in DOMAIN objects  PROVE FALSE
    OBVIOUS
  <2>2. h[2] = issued[h[1]] + 1 /\ issued[h[1]] \in Nat /\ h[2] <= issued[h[1]]
    BY <2>1 DEF Fresh, ClosureInv, ClosureTypes
  <2> QED  BY <2>2
<1>3. /\ DOMAIN made = DOMAIN objects \cup DOMAIN new
      /\ \A h \in DOMAIN new : made[h] = new[h]
      /\ \A h \in DOMAIN objects : made[h] = objects[h]
  BY <1>2
<1> HIDE DEF made
<1>4. named \subseteq DOMAIN made
  BY <1>3 DEF ClosureInv, Kept
<1>5. \A h \in DOMAIN made : Retained(made[h]) \subseteq DOMAIN made
  BY <1>3 DEF ClosureInv, Kept
<1>6. Founded(made)
  <2> SUFFICES ASSUME NEW S \in SUBSET DOMAIN made, S # {}
               PROVE  \E h \in S : Retained(made[h]) \cap S = {}
    BY DEF Founded
  <2>1. CASE S \cap DOMAIN objects = {}
    <3>1. S \in SUBSET DOMAIN new
      BY <1>3, <2>1
    <3> QED  BY <1>3, <3>1 DEF Founded
  <2>2. CASE S \cap DOMAIN objects # {}
    <3>1. PICK h \in S \cap DOMAIN objects : Retained(objects[h]) \cap (S \cap DOMAIN objects) = {}
      BY <2>2 DEF ClosureInv, Founded
    <3>2. Retained(objects[h]) \subseteq DOMAIN objects /\ made[h] = objects[h]
      BY <1>3 DEF ClosureInv, Kept
    <3> QED  BY <3>1, <3>2
  <2> QED  BY <2>1, <2>2
<1>7. /\ objects' = [h \in DOMAIN objects' |-> objects'[h]]
      /\ DOMAIN objects' \subseteq DOMAIN made /\ named \subseteq DOMAIN objects'
      /\ \A h \in DOMAIN objects' :
           objects'[h] = made[h] /\ Retained(objects'[h]) \subseteq DOMAIN objects'
      /\ Founded(objects')
  <2> DEFINE left == Restrict(made, Owned(made, named))
  <2>1. /\ left = [h \in DOMAIN left |-> left[h]]
        /\ DOMAIN left \subseteq DOMAIN made /\ named \subseteq DOMAIN left
        /\ \A h \in DOMAIN left :
             left[h] = made[h] /\ Retained(left[h]) \subseteq DOMAIN left
        /\ Founded(left)
    BY <1>4, <1>5, <1>6, Collected
  <2>2. objects' = left
    BY <1>1
  <2> HIDE DEF left, named
  <2> QED  BY <2>1, <2>2
<1>8. \A k \in ObjectKind : count(k) \in Nat /\ \A h \in DOMAIN new : h[1] = k => count(k) >= 1
  <2> TAKE k \in ObjectKind
  <2> DEFINE those == {h \in DOMAIN new : h[1] = k}
  <2>1. IsFiniteSet(those) /\ Cardinality(those) \in Nat
    BY FS_Subset, FS_CardinalityType
  <2>2. those # {} => Cardinality(those) # 0
    BY <2>1, FS_EmptySet
  <2>3. \A h \in DOMAIN new : h[1] = k => those # {}
    OBVIOUS
  <2>4. count(k) = Cardinality(those)
    OBVIOUS
  <2> HIDE DEF those, count
  <2>5. count(k) \in Nat
    BY <2>1, <2>4
  <2>6. ASSUME NEW h \in DOMAIN new, h[1] = k  PROVE count(k) >= 1
    <3>1. those # {}
      BY <2>3, <2>6
    <3> QED  BY <2>1, <2>2, <2>4, <3>1
  <2> QED  BY <2>5, <2>6
<1>9. issued' \in [ObjectKind -> Nat] /\ \A k \in ObjectKind : issued'[k] = issued[k] + count(k)
  BY <1>1, <1>8 DEF ClosureInv, ClosureTypes
<1> HIDE DEF count
<1>10. ASSUME NEW h \in DOMAIN made
       PROVE  Typed(h, made[h]) /\ h[2] <= issued'[h[1]]
  <2>1. CASE h \in DOMAIN new
    <3>1. issued[h[1]] \in Nat /\ count(h[1]) \in Nat /\ count(h[1]) >= 1
      BY <1>8, <2>1 DEF ClosureInv, ClosureTypes
    <3>2. h[2] = issued[h[1]] + 1 /\ issued'[h[1]] = issued[h[1]] + count(h[1])
      BY <1>9, <2>1 DEF Fresh
    <3>3. Typed(h, made[h])
      BY <1>3, <2>1
    <3> QED  BY <3>1, <3>2, <3>3
  <2>2. CASE h \in DOMAIN objects
    <3>1. Typed(h, objects[h]) /\ made[h] = objects[h] /\ h[2] <= issued[h[1]]
      BY <1>3, <2>2 DEF ClosureInv, ClosureTypes
    <3>2. h[1] \in ObjectKind /\ h[2] \in Nat
      BY <3>1 DEF Typed, Handles, KindOf, Forms, ObjectKind
    <3>3. issued[h[1]] \in Nat /\ count(h[1]) \in Nat /\ issued'[h[1]] = issued[h[1]] + count(h[1])
      BY <1>8, <1>9, <3>2 DEF ClosureInv, ClosureTypes
    <3> QED  BY <3>1, <3>2, <3>3
  <2> QED  BY <1>3, <2>1, <2>2
<1>11. ClosureTypes'
  BY <1>7, <1>9, <1>10 DEF ClosureTypes
<1>12. Kept'
  BY <1>1, <1>7 DEF Kept
<1> QED  BY <1>7, <1>11, <1>12 DEF ClosureInv

------------------------------------------------------------------------------
LEMMA NewHandle ==
  ASSUME ClosureInv, NEW kind \in ObjectKind
  PROVE  /\ Fresh(kind) \in Handles(kind) /\ Fresh(kind)[1] = kind
         /\ Fresh(kind) \notin DOMAIN objects
         /\ Fresh(kind)[2] = issued[kind] + 1 /\ issued[kind] \in Nat
<1>1. issued[kind] \in Nat
  BY DEF ClosureInv, ClosureTypes
<1>2. Fresh(kind) \notin DOMAIN objects
  BY <1>1 DEF Fresh, ClosureInv, ClosureTypes
<1> QED  BY <1>1, <1>2 DEF Fresh, Handles

LEMMA SeenTyped ==
  ASSUME ClosureInv, NEW h \in visible
  PROVE  /\ h \in DOMAIN objects /\ Typed(h, objects[h])
         /\ Retained(objects[h]) \subseteq DOMAIN objects
         /\ h[1] \in ObjectKind /\ h \in Handles(h[1]) /\ h[2] <= issued[h[1]]
<1>1. h \in DOMAIN objects
  BY DEF ClosureInv, Kept
<1>2. Typed(h, objects[h])
  BY <1>1 DEF ClosureInv, ClosureTypes
<1>3. h \in Handles(KindOf(objects[h].form)) /\ KindOf(objects[h].form) \in ObjectKind
  BY <1>2 DEF Typed, KindOf, Forms, ObjectKind
<1>4. h[1] \in ObjectKind /\ h \in Handles(h[1])
  BY <1>3 DEF Handles
<1> QED  BY <1>1, <1>2, <1>4 DEF ClosureInv, ClosureTypes, Kept

LEMMA Registered ==
  ASSUME ClosureInv, NEW kind \in ObjectKind, NEW o, Register(kind, o),
         Typed(Fresh(kind), o), Retained(o) \subseteq DOMAIN objects
  PROVE  ClosureInv'
<1> DEFINE new == [h \in {Fresh(kind)} |-> o]
<1>1. DOMAIN new = {Fresh(kind)} /\ new[Fresh(kind)] = o
  OBVIOUS
<1>2. Publish(new, {Fresh(kind)}, {})
  BY DEF Register
<1>3. Founded(new)
  BY NewHandle DEF Founded
<1>4. IsFiniteSet(DOMAIN new)
  BY <1>1, FS_Singleton
<1>5. \A h \in DOMAIN new :
        /\ h[1] \in ObjectKind /\ h = Fresh(h[1]) /\ Typed(h, new[h])
        /\ Retained(new[h]) \subseteq DOMAIN objects \cup DOMAIN new
  BY <1>1, NewHandle
<1> HIDE DEF new
<1> QED  BY <1>1, <1>2, <1>3, <1>4, <1>5, Published

(* A local keeps its equation, or composite, for ever.                     *)
LEMMA LocalOwns ==
  ASSUME NEW l, NEW o, Typed(l, o), l[1] = "local"
  PROVE  /\ o.form \in {"local", "row", "derived", "sealed", "handoff"}
         /\ o.owner \subseteq Retained(o)
<1>1. o.form \in Forms /\ KindOf(o.form) = "local"
  BY DEF Typed, Handles
<1>2. o.form \in {"local", "row", "derived", "sealed", "handoff"}
  BY <1>1 DEF Forms, KindOf
<1> QED  BY <1>2 DEF Retained

LEMMA FirstSteps ==
  ASSUME ClosureInv, PrepareChart \/ PlanTile \/ SolveLocal \/ SolveColumn \/ ApplyRow
  PROVE  ClosureInv'
<1>1. CASE PrepareChart
  <2>1. PICK key \in ChartKey : Register("chart", Object("chart", [key |-> key]))
    BY <1>1 DEF PrepareChart
  <2> DEFINE o == Object("chart", [key |-> key])
  <2>2. Has(o, "chart", {}, {}, {}, {}, {}, {})
    BY ObjectOfKey
  <2> HIDE DEF o
  <2>3. "chart" \in ObjectKind /\ Fresh("chart") \in Handles("chart")
    BY NewHandle DEF ObjectKind
  <2>4. Retained(o) = {}
    BY <2>2 DEF Has, Retained
  <2>5. Typed(Fresh("chart"), o)
    BY <2>2, <2>3, <2>4 DEF Has, Typed, Handles, Forms, KindOf
  <2> QED  BY <2>1, <2>3, <2>4, <2>5, Registered DEF o
<1>2. CASE PlanTile
  <2>1. PICK owners \in SUBSET (Visible("chart") \cup Visible("scc")) :
          Register("tile", Object("tile", [owner |-> owners]))
    BY <1>2 DEF PlanTile
  <2> DEFINE o == Object("tile", [owner |-> owners])
  <2>2. Has(o, "tile", owners, {}, {}, {}, {}, {})
    BY ObjectOfOwner
  <2> HIDE DEF o
  <2>3. "tile" \in ObjectKind /\ Fresh("tile") \in Handles("tile")
    BY NewHandle DEF ObjectKind
  <2>4. Retained(o) = owners
    BY <2>2 DEF Has, Retained
  <2>5. owners \subseteq DOMAIN objects /\ owners \subseteq Handles("chart") \cup Handles("scc")
    BY <2>1, SeenTyped DEF Visible, Handles
  <2>6. Typed(Fresh("tile"), o)
    BY <2>2, <2>3, <2>4, <2>5 DEF Has, Typed, Handles, Forms, KindOf
  <2> QED  BY <2>1, <2>3, <2>4, <2>5, <2>6, Registered DEF o
<1>3. CASE SolveLocal \/ SolveColumn
  <2>1. PICK c \in Visible("chart") \cup Visible("scc"), exact \in BOOLEAN :
          \/ Register("local", Object("local", [owner |-> {c}]))
          \/ Register("local", Object("local", [owner |-> {c}, shadow |-> exact]))
    BY <1>3 DEF SolveLocal, SolveColumn
  <2>2. "local" \in ObjectKind /\ Fresh("local") \in Handles("local")
    BY NewHandle DEF ObjectKind
  <2>3. c \in DOMAIN objects /\ c \in Handles("chart") \cup Handles("scc")
    BY <2>1, SeenTyped DEF Visible, Handles
  <2>4. ASSUME NEW o, Has(o, "local", {c}, {}, {}, {}, {}, {})
        PROVE  Typed(Fresh("local"), o) /\ Retained(o) \subseteq DOMAIN objects
    <3>1. Retained(o) = {c}
      BY <2>4 DEF Has, Retained
    <3>2. Typed(Fresh("local"), o)
      BY <2>2, <2>3, <2>4, <3>1 DEF Has, Typed, Handles, Forms, KindOf
    <3> QED  BY <2>3, <3>1, <3>2
  <2>5. Has(Object("local", [owner |-> {c}]), "local", {c}, {}, {}, {}, {}, {})
    BY ObjectOfOwner
  <2>6. Has(Object("local", [owner |-> {c}, shadow |-> exact]), "local", {c}, {}, {}, {}, {}, {})
    BY ObjectOfShadow
  <2>7. PICK o : Register("local", o) /\ Has(o, "local", {c}, {}, {}, {}, {}, {})
    BY <2>1, <2>5, <2>6
  <2> QED  BY <2>2, <2>4, <2>7, Registered
<1>4. CASE ApplyRow
  <2>1. PICK l \in Visible("local") :
          Register("local", Object("row", [owner |-> objects[l].owner, from |-> {l}]))
    BY <1>4 DEF ApplyRow
  <2> DEFINE o == Object("row", [owner |-> objects[l].owner, from |-> {l}])
  <2>2. Has(o, "row", objects[l].owner, {}, {}, {l}, {}, {})
    BY ObjectOfRow
  <2> HIDE DEF o
  <2>3. "local" \in ObjectKind /\ Fresh("local") \in Handles("local")
    BY NewHandle DEF ObjectKind
  <2>4. /\ l \in DOMAIN objects /\ l \in Handles("local") /\ Typed(l, objects[l])
        /\ Retained(objects[l]) \subseteq DOMAIN objects
    BY <2>1, SeenTyped DEF Visible, Handles
  <2>5. objects[l].owner \subseteq DOMAIN objects
    BY <2>1, <2>4, LocalOwns DEF Visible
  <2>6. Retained(o) = objects[l].owner \cup {l}
    BY <2>2 DEF Has, Retained
  <2>7. Typed(Fresh("local"), o)
    BY <2>2, <2>3, <2>4 DEF Has, Typed, Handles, Forms, KindOf
  <2> QED  BY <2>1, <2>3, <2>4, <2>5, <2>6, <2>7, Registered DEF o
<1> QED  BY <1>1, <1>2, <1>3, <1>4

LEMMA MatchSteps ==
  ASSUME ClosureInv, MatchLocals \/ AdvanceMatch \/ Materialize
  PROVE  ClosureInv'
<1>1. /\ "match" \in ObjectKind /\ Fresh("match") \in Handles("match")
      /\ "local" \in ObjectKind /\ Fresh("local") \in Handles("local")
  BY NewHandle DEF ObjectKind
<1>2. CASE MatchLocals
  <2>1. PICK basis \in Visible("local"), from \in Visible("local"), form \in {"exact match", "acb match"} :
          Register("match", Object(form, [basis |-> {basis}, from |-> {from}]))
    BY <1>2 DEF MatchLocals
  <2> DEFINE o == Object(form, [basis |-> {basis}, from |-> {from}])
  <2>2. Has(o, form, {}, {}, {basis}, {from}, {}, {})
    BY ObjectOfMatch
  <2> HIDE DEF o
  <2>3. {basis, from} \subseteq DOMAIN objects /\ {basis, from} \subseteq Handles("local")
    BY <2>1, SeenTyped DEF Visible, Handles
  <2>4. Retained(o) \subseteq {basis, from}
    BY <2>1, <2>2 DEF Has, Retained
  <2>5. Typed(Fresh("match"), o)
    BY <1>1, <2>1, <2>2, <2>3 DEF Has, Typed, Forms, KindOf
  <2> QED  BY <1>1, <2>1, <2>3, <2>4, <2>5, Registered DEF o
<1>3. CASE AdvanceMatch
  <2>1. PICK plan \in Visible("tile"), basis \in Visible("local"), from \in Visible("local") :
          Register("match", Object("hop", [plan |-> {plan}, basis |-> {basis}, from |-> {from}]))
    BY <1>3 DEF AdvanceMatch
  <2> DEFINE o == Object("hop", [plan |-> {plan}, basis |-> {basis}, from |-> {from}])
  <2>2. Has(o, "hop", {}, {plan}, {basis}, {from}, {}, {})
    BY ObjectOfHop
  <2> HIDE DEF o
  <2>3. /\ {plan, basis, from} \subseteq DOMAIN objects
        /\ {basis, from} \subseteq Handles("local") /\ plan \in Handles("tile")
    BY <2>1, SeenTyped DEF Visible, Handles
  <2>4. Retained(o) = {plan, basis, from}
    BY <2>2 DEF Has, Retained
  <2>5. Typed(Fresh("match"), o)
    BY <1>1, <2>2, <2>3 DEF Has, Typed, Forms, KindOf
  <2> QED  BY <1>1, <2>1, <2>3, <2>4, <2>5, Registered DEF o
<1>4. CASE Materialize
  <2>1. PICK m \in Held("hop") :
          Register("local", Object("derived", [owner |-> BasisOwner(m), through |-> {m}]))
    BY <1>4 DEF Materialize
  <2> DEFINE o == Object("derived", [owner |-> BasisOwner(m), through |-> {m}])
  <2>2. Has(o, "derived", BasisOwner(m), {}, {}, {}, {m}, {})
    BY ObjectOfDerived
  <2> HIDE DEF o
  <2>3. /\ m \in DOMAIN objects /\ objects[m].form = "hop" /\ Typed(m, objects[m])
        /\ Retained(objects[m]) \subseteq DOMAIN objects
    BY <2>1, SeenTyped DEF Held
  <2>4. m \in Handles("match") /\ objects[m].basis \subseteq Handles("local")
    BY <2>3 DEF Typed, KindOf
  <2>5. objects[m].basis \subseteq DOMAIN objects
    BY <2>3 DEF Retained
  <2>6. ASSUME NEW b \in objects[m].basis
        PROVE  /\ objects[b].owner \subseteq DOMAIN objects
               /\ objects[b].owner \subseteq Handles("chart") \cup Handles("scc")
    <3>1. b \in DOMAIN objects /\ b[1] = "local"
      BY <2>4, <2>5 DEF Handles
    <3>2. Typed(b, objects[b]) /\ Retained(objects[b]) \subseteq DOMAIN objects
      BY <3>1 DEF ClosureInv, ClosureTypes, Kept
    <3>3. objects[b].owner \subseteq Handles("chart") \cup Handles("scc")
      BY <3>2 DEF Typed
    <3> QED  BY <3>1, <3>2, <3>3, LocalOwns
  <2>7. /\ BasisOwner(m) \subseteq DOMAIN objects
        /\ BasisOwner(m) \subseteq Handles("chart") \cup Handles("scc")
    BY <2>6 DEF BasisOwner
  <2>8. Retained(o) = BasisOwner(m) \cup {m}
    BY <2>2 DEF Has, Retained
  <2>9. Typed(Fresh("local"), o)
    BY <1>1, <2>2, <2>4, <2>7 DEF Has, Typed, Forms, KindOf
  <2> QED  BY <1>1, <2>1, <2>3, <2>7, <2>8, <2>9, Registered DEF o
<1> QED  BY <1>2, <1>3, <1>4

(* A local seen by a client, with its equations.                           *)
LEMMA SeenLocal ==
  ASSUME ClosureInv, NEW l \in Visible("local")
  PROVE  /\ l \in DOMAIN objects /\ l \in Handles("local") /\ Typed(l, objects[l])
         /\ l[2] <= issued["local"]
         /\ objects[l].owner \subseteq DOMAIN objects
         /\ objects[l].owner \subseteq Handles("chart") \cup Handles("scc")
<1>1. /\ l \in DOMAIN objects /\ l \in Handles("local") /\ Typed(l, objects[l])
      /\ l[1] = "local" /\ l[2] <= issued["local"]
      /\ Retained(objects[l]) \subseteq DOMAIN objects
  BY SeenTyped DEF Visible, Handles
<1>2. objects[l].owner \subseteq Handles("chart") \cup Handles("scc")
  BY <1>1 DEF Typed
<1> QED  BY <1>1, <1>2, LocalOwns

LEMMA HopSteps ==
  ASSUME ClosureInv, ConsumeHop \/ ValueHop
  PROVE  ClosureInv'
<1>1. CASE ConsumeHop
  <2> DEFINE m == Fresh("match")
             l == Fresh("local")
  <2>1. PICK plan \in Visible("tile"), basis \in Visible("local"), from \in Visible("local"),
             terminal \in {{}, {m}} :
          LET hop == Object("hop", [plan |-> {plan}, basis |-> {basis}, from |-> {from}])
              out == Object("sealed", [owner |-> objects[basis].owner, plan |-> {plan},
                                       from |-> {from}, terminal |-> terminal])
          IN  Publish([h \in {m, l} |-> IF h = m THEN hop ELSE out], {l}, {basis})
    BY <1>1 DEF ConsumeHop
  <2> DEFINE hop == Object("hop", [plan |-> {plan}, basis |-> {basis}, from |-> {from}])
             out == Object("sealed", [owner |-> objects[basis].owner, plan |-> {plan},
                                      from |-> {from}, terminal |-> terminal])
             new == [h \in {m, l} |-> IF h = m THEN hop ELSE out]
  <2>2. /\ Has(hop, "hop", {}, {plan}, {basis}, {from}, {}, {})
        /\ Has(out, "sealed", objects[basis].owner, {plan}, {}, {from}, {}, terminal)
    BY ObjectOfHop, ObjectOfSealed
  <2>3. Publish(new, {l}, {basis})
    BY <2>1
  <2>4. /\ "match" \in ObjectKind /\ m \in Handles("match") /\ m[1] = "match"
        /\ "local" \in ObjectKind /\ l \in Handles("local") /\ l[1] = "local"
        /\ m \notin DOMAIN objects /\ l \notin DOMAIN objects /\ m # l
    BY NewHandle DEF ObjectKind
  <2>5. DOMAIN new = {m, l} /\ new[m] = hop /\ new[l] = out
    BY <2>4
  <2>6. m = Fresh(m[1]) /\ l = Fresh(l[1])
    BY <2>4
  <2> HIDE DEF m, l, hop, out, new
  <2>7. /\ {plan, basis, from} \subseteq DOMAIN objects
        /\ {basis, from} \subseteq Handles("local") /\ plan \in Handles("tile")
        /\ objects[basis].owner \subseteq DOMAIN objects
        /\ objects[basis].owner \subseteq Handles("chart") \cup Handles("scc")
    BY <2>1, SeenTyped, SeenLocal DEF Visible, Handles
  <2>8. Retained(hop) = {plan, basis, from} /\ Retained(out) = objects[basis].owner \cup terminal
    BY <2>2 DEF Has, Retained
  <2>9. Typed(m, hop)
    BY <2>2, <2>4, <2>7 DEF Has, Typed, Forms, KindOf
  <2>10. Typed(l, out)
    BY <2>1, <2>2, <2>4, <2>7 DEF Has, Typed, Forms, KindOf
  <2>11. IsFiniteSet(DOMAIN new)
    <3>1. IsFiniteSet({m}) /\ {m} \cup {l} = {m, l}
      BY FS_Singleton
    <3>2. IsFiniteSet({m} \cup {l})
      BY <3>1, FS_AddElement
    <3> QED  BY <2>5, <3>1, <3>2
  <2>12. Founded(new)
    <3> SUFFICES ASSUME NEW S \in SUBSET {m, l}, S # {}
                 PROVE  \E h \in S : Retained(new[h]) \cap S = {}
      BY <2>5 DEF Founded
    <3>1. CASE m \in S
      BY <2>4, <2>5, <2>7, <2>8, <3>1
    <3>2. CASE S = {l}
      BY <2>1, <2>4, <2>5, <2>7, <2>8, <3>2
    <3> QED  BY <3>1, <3>2
  <2> QED  BY <2>1, <2>3, <2>4, <2>5, <2>6, <2>7, <2>8, <2>9, <2>10, <2>11, <2>12, Published
<1>2. CASE ValueHop
  <2> DEFINE Hop(plan, from, owner) ==
               Register("local",
                 Object("handoff", [owner |-> {owner}, plan |-> {plan}, from |-> {from}]))
  <2>0. PICK plan \in Visible("tile"), from \in Visible("local") :
          \E owner \in {h \in objects[plan].owner : h[1] = "chart"} : Hop(plan, from, owner)
    BY <1>2 DEF ValueHop
  <2>1. PICK owner \in objects[plan].owner : owner[1] = "chart" /\ Hop(plan, from, owner)
    BY <2>0
  <2> DEFINE o == Object("handoff", [owner |-> {owner}, plan |-> {plan}, from |-> {from}])
  <2>2. Has(o, "handoff", {owner}, {plan}, {}, {from}, {}, {})
    BY ObjectOfHandoff
  <2> HIDE DEF o
  <2>3. /\ "local" \in ObjectKind /\ Fresh("local") \in Handles("local")
        /\ Fresh("local")[2] = issued["local"] + 1 /\ issued["local"] \in Nat
    BY NewHandle DEF ObjectKind
  <2>4. from \in Handles("local") /\ from[2] < Fresh("local")[2]
    <3>1. from \in Handles("local") /\ from[2] <= issued["local"]
      BY SeenLocal
    <3>2. from[2] \in Nat
      BY <3>1 DEF Handles
    <3> QED  BY <2>3, <3>1, <3>2
  <2>5. /\ plan \in DOMAIN objects /\ plan \in Handles("tile") /\ Typed(plan, objects[plan])
        /\ Retained(objects[plan]) \subseteq DOMAIN objects
    BY <2>1, SeenTyped DEF Visible, Handles
  <2>6. objects[plan].form = "tile"
    BY <2>5 DEF Typed, Forms, KindOf, Handles
  <2>7. owner \in DOMAIN objects /\ owner \in Handles("chart")
    BY <2>1, <2>5, <2>6 DEF Typed, Handles
  <2>8. Retained(o) = {owner}
    BY <2>2 DEF Has, Retained
  <2>9. Typed(Fresh("local"), o)
    BY <2>2, <2>3, <2>4, <2>5, <2>7 DEF Has, Typed, Forms, KindOf
  <2>10. Register("local", o)
    BY <2>1 DEF o
  <2> QED  BY <2>3, <2>7, <2>8, <2>9, <2>10, Registered
<1> QED  BY <1>1, <1>2

(* The tiles of an arm are locals.                                         *)
LEMMA ChainLocal ==
  ASSUME ClosureInv, NEW last \in Locals
  PROVE  Chain(last) \subseteq Locals
<1> DEFINE edges == [l \in Locals |->
                      IF objects[l].form \in {"sealed", "handoff"} THEN objects[l].from \cap Locals
                      ELSE {}]
<1>1. Inside(edges) /\ {last} \subseteq DOMAIN edges /\ DOMAIN edges = Locals
  BY DEF Inside
<1>2. Chain(last) = ReachedFrom(edges, {last})
  BY DEF Chain
<1> HIDE DEF edges
<1> QED  BY <1>1, <1>2, Reached

LEMMA StateSteps ==
  ASSUME ClosureInv, PublishState \/ ContractState
  PROVE  ClosureInv'
<1>1. CASE PublishState
  <2>1. PICK plan \in Visible("tile"), last \in Held("sealed") \cup Held("handoff") :
          LET tiles   == Chain(last)
              carried == {l \in tiles : objects[l].form \in {"sealed", "handoff"}}
              state   == Object("state", [plan |-> {plan}, from |-> tiles,
                                          terminal |-> objects[last].terminal])
          IN  /\ tiles \subseteq visible
              /\ Publish([h \in {Fresh("state")} |-> state], {Fresh("state")}, carried)
    BY <1>1 DEF PublishState
  <2> DEFINE tiles   == Chain(last)
             carried == {l \in tiles : objects[l].form \in {"sealed", "handoff"}}
             o == Object("state", [plan |-> {plan}, from |-> tiles,
                                   terminal |-> objects[last].terminal])
             new == [h \in {Fresh("state")} |-> o]
  <2>2. Has(o, "state", {}, {plan}, {}, tiles, {}, objects[last].terminal)
    BY ObjectOfFold
  <2>3. tiles \subseteq visible /\ Publish(new, {Fresh("state")}, carried)
    BY <2>1
  <2>4. DOMAIN new = {Fresh("state")} /\ new[Fresh("state")] = o
    OBVIOUS
  <2> HIDE DEF o, new, carried
  <2>5. /\ last \in DOMAIN objects /\ Typed(last, objects[last])
        /\ objects[last].form \in {"sealed", "handoff"}
        /\ Retained(objects[last]) \subseteq DOMAIN objects
    BY <2>1, SeenTyped DEF Held
  <2>6. last \in Locals
    BY <2>5 DEF Typed, KindOf, Handles, Locals
  <2>7. tiles \subseteq DOMAIN objects /\ tiles \subseteq Handles("local")
    BY <2>3, <2>6, ChainLocal, SeenTyped DEF Locals
  <2>8. objects[last].terminal \subseteq Handles("match")
    BY <2>5 DEF Typed
  <2>9. objects[last].terminal \subseteq DOMAIN objects
    BY <2>5 DEF Typed, Retained
  <2>10. plan \in DOMAIN objects /\ plan \in Handles("tile")
    BY <2>1, SeenTyped DEF Visible
  <2>11. /\ "state" \in ObjectKind /\ Fresh("state") \in Handles("state")
         /\ Fresh("state")[1] = "state" /\ Fresh("state") \notin DOMAIN objects
    BY NewHandle DEF ObjectKind
  <2> HIDE DEF tiles
  <2>12. Retained(o) = {plan} \cup tiles \cup objects[last].terminal
    BY <2>2 DEF Has, Retained
  <2>13. Typed(Fresh("state"), o)
    BY <2>2, <2>7, <2>8, <2>10, <2>11 DEF Has, Typed, Forms, KindOf
  <2>14. Retained(o) \subseteq DOMAIN objects
    BY <2>7, <2>9, <2>10, <2>12
  <2>15. Founded(new)
    BY <2>4, <2>11, <2>14 DEF Founded
  <2>16. IsFiniteSet(DOMAIN new)
    BY <2>4, FS_Singleton
  <2>17. ASSUME NEW h \in DOMAIN new
         PROVE  /\ h[1] \in ObjectKind /\ h = Fresh(h[1]) /\ Typed(h, new[h])
                /\ Retained(new[h]) \subseteq DOMAIN objects \cup DOMAIN new
    BY <2>4, <2>11, <2>13, <2>14
  <2>18. {Fresh("state")} \subseteq DOMAIN new
    BY <2>4
  <2> QED  BY <2>3, <2>15, <2>16, <2>17, <2>18, Published
<1>2. CASE ContractState
  <2>1. PICK s \in Visible("state") : Register("result", Object("of state", [through |-> {s}]))
    BY <1>2 DEF ContractState
  <2> DEFINE o == Object("of state", [through |-> {s}])
  <2>2. Has(o, "of state", {}, {}, {}, {}, {s}, {})
    BY ObjectOfState
  <2> HIDE DEF o
  <2>3. "result" \in ObjectKind /\ Fresh("result") \in Handles("result")
    BY NewHandle DEF ObjectKind
  <2>4. s \in DOMAIN objects /\ s \in Handles("state")
    BY <2>1, SeenTyped DEF Visible
  <2>5. Retained(o) = {s}
    BY <2>2 DEF Has, Retained
  <2>6. Typed(Fresh("result"), o)
    BY <2>2, <2>3, <2>4 DEF Has, Typed, Forms, KindOf
  <2> QED  BY <2>1, <2>3, <2>4, <2>5, <2>6, Registered DEF o
<1> QED  BY <1>1, <1>2

LEMMA ResultSteps ==
  ASSUME ClosureInv, TakeResult
  PROVE  ClosureInv'
<1>1. "result" \in ObjectKind /\ Fresh("result") \in Handles("result")
  BY NewHandle DEF ObjectKind
<1>2. ASSUME NEW l \in Visible("local"),
             Register("result", Object("free endpoint", [from |-> {l}]))
      PROVE  ClosureInv'
  <2> DEFINE o == Object("free endpoint", [from |-> {l}])
  <2>1. Has(o, "free endpoint", {}, {}, {}, {l}, {}, {})
    BY ObjectOfEndpoint
  <2> HIDE DEF o
  <2>2. l \in DOMAIN objects /\ l \in Handles("local")
    BY <1>2, SeenLocal
  <2>3. Retained(o) = {}
    BY <2>1 DEF Has, Retained
  <2>4. Typed(Fresh("result"), o)
    BY <1>1, <2>1, <2>2 DEF Has, Typed, Forms, KindOf
  <2> QED  BY <1>1, <1>2, <2>3, <2>4, Registered DEF o
<1>3. ASSUME NEW plan \in Visible("tile"), NEW l \in Visible("local"),
             Register("result", Object("planned", [plan |-> {plan}, from |-> {l}]))
      PROVE  ClosureInv'
  <2> DEFINE o == Object("planned", [plan |-> {plan}, from |-> {l}])
  <2>1. Has(o, "planned", {}, {plan}, {}, {l}, {}, {})
    BY ObjectOfPlanned
  <2> HIDE DEF o
  <2>2. {plan, l} \subseteq DOMAIN objects /\ l \in Handles("local") /\ plan \in Handles("tile")
    BY <1>3, SeenLocal, SeenTyped DEF Visible
  <2>3. Retained(o) = {plan, l}
    BY <2>1 DEF Has, Retained
  <2>4. Typed(Fresh("result"), o)
    BY <1>1, <2>1, <2>2 DEF Has, Typed, Forms, KindOf
  <2> QED  BY <1>1, <1>3, <2>2, <2>3, <2>4, Registered DEF o
<1> QED  BY <1>2, <1>3 DEF TakeResult

LEMMA ArmStep ==
  ASSUME ClosureInv, RunArm
  PROVE  ClosureInv'
<1> DEFINE m == Fresh("match")
           l == Fresh("local")
           s == Fresh("state")
<1>1. PICK plan \in Visible("tile"), basis \in Visible("local"), from \in Visible("local"),
           shown \in {{s}, {s, l}} :
        LET hop   == Object("hop", [plan |-> {plan}, basis |-> {basis}, from |-> {from}])
            tile  == Object("derived", [owner |-> objects[basis].owner, through |-> {m}])
            state == Object("state", [plan |-> {plan}, basis |-> {basis}, from |-> {from, l},
                                      through |-> {m}])
            made  == [h \in {m, l, s} |-> CASE h = m -> hop [] h = l -> tile [] h = s -> state]
        IN  Publish(made, shown, {})
  BY DEF RunArm
<1> DEFINE hop   == Object("hop", [plan |-> {plan}, basis |-> {basis}, from |-> {from}])
           tile  == Object("derived", [owner |-> objects[basis].owner, through |-> {m}])
           state == Object("state", [plan |-> {plan}, basis |-> {basis}, from |-> {from, l},
                                     through |-> {m}])
           made  == [h \in {m, l, s} |-> CASE h = m -> hop [] h = l -> tile [] h = s -> state]
<1>2. /\ Has(hop, "hop", {}, {plan}, {basis}, {from}, {}, {})
      /\ Has(tile, "derived", objects[basis].owner, {}, {}, {}, {m}, {})
      /\ Has(state, "state", {}, {plan}, {basis}, {from, l}, {m}, {})
  BY ObjectOfHop, ObjectOfDerived, ObjectOfArm
<1>3. Publish(made, shown, {})
  BY <1>1
<1>4. /\ "match" \in ObjectKind /\ m \in Handles("match") /\ m[1] = "match"
      /\ "local" \in ObjectKind /\ l \in Handles("local") /\ l[1] = "local"
      /\ "state" \in ObjectKind /\ s \in Handles("state") /\ s[1] = "state"
      /\ m \notin DOMAIN objects /\ l \notin DOMAIN objects /\ s \notin DOMAIN objects
  BY NewHandle DEF ObjectKind
<1>5. m # l /\ m # s /\ l # s
  BY <1>4
<1>6. DOMAIN made = {m, l, s} /\ made[m] = hop /\ made[l] = tile /\ made[s] = state
  BY <1>5
<1>7. m = Fresh(m[1]) /\ l = Fresh(l[1]) /\ s = Fresh(s[1])
  BY <1>4
<1> HIDE DEF m, l, s, hop, tile, state, made
<1>8. /\ {plan, basis, from} \subseteq DOMAIN objects
      /\ {basis, from} \subseteq Handles("local") /\ plan \in Handles("tile")
      /\ objects[basis].owner \subseteq DOMAIN objects
      /\ objects[basis].owner \subseteq Handles("chart") \cup Handles("scc")
  BY <1>1, SeenTyped, SeenLocal DEF Visible, Handles
<1>9. /\ Retained(hop) = {plan, basis, from}
      /\ Retained(tile) = objects[basis].owner \cup {m}
      /\ Retained(state) = {plan, basis, from, l, m}
  BY <1>2 DEF Has, Retained
<1>10. Typed(m, hop)
  BY <1>2, <1>4, <1>8 DEF Has, Typed, Forms, KindOf
<1>11. Typed(l, tile)
  BY <1>2, <1>4, <1>8 DEF Has, Typed, Forms, KindOf
<1>12. Typed(s, state)
  BY <1>2, <1>4, <1>8 DEF Has, Typed, Forms, KindOf
<1>13. IsFiniteSet(DOMAIN made)
  <2>1. IsFiniteSet({m}) /\ {m} \cup {l} = {m, l} /\ {m, l} \cup {s} = {m, l, s}
    BY FS_Singleton
  <2>2. IsFiniteSet({m, l})
    BY <2>1, FS_AddElement
  <2>3. IsFiniteSet({m, l, s})
    BY <2>1, <2>2, FS_AddElement
  <2> QED  BY <1>6, <2>3
<1>14. Founded(made)
  <2> SUFFICES ASSUME NEW S \in SUBSET {m, l, s}, S # {}
               PROVE  \E h \in S : Retained(made[h]) \cap S = {}
    BY <1>6 DEF Founded
  <2>1. CASE m \in S
    <3>1. Retained(hop) \cap S = {}
      BY <1>4, <1>8, <1>9
    <3> QED  BY <1>6, <2>1, <3>1
  <2>2. CASE m \notin S /\ l \in S
    <3>1. Retained(tile) \cap S = {}
      BY <1>4, <1>8, <1>9, <2>2
    <3> QED  BY <1>6, <2>2, <3>1
  <2>3. CASE S = {s}
    <3>1. Retained(state) \cap S = {}
      BY <1>4, <1>5, <1>8, <1>9, <2>3
    <3> QED  BY <1>6, <2>3, <3>1
  <2> QED  BY <2>1, <2>2, <2>3
<1>15. ASSUME NEW h \in DOMAIN made
       PROVE  /\ h[1] \in ObjectKind /\ h = Fresh(h[1]) /\ Typed(h, made[h])
              /\ Retained(made[h]) \subseteq DOMAIN objects \cup DOMAIN made
  BY <1>4, <1>6, <1>7, <1>8, <1>9, <1>10, <1>11, <1>12
<1>16. shown \subseteq DOMAIN made
  BY <1>1, <1>6
<1> QED  BY <1>3, <1>13, <1>14, <1>15, <1>16, Published

LEMMA ReleaseStep ==
  ASSUME ClosureInv, ReleaseHandle
  PROVE  ClosureInv'
<1>1. /\ visible' \subseteq visible /\ issued' = issued
      /\ objects' = Restrict(objects, Owned(objects, visible'))
  BY DEF ReleaseHandle
<1>2. visible' \subseteq DOMAIN objects
  BY <1>1 DEF ClosureInv, Kept
<1> DEFINE left == Restrict(objects, Owned(objects, visible'))
<1>3. /\ left = [h \in DOMAIN left |-> left[h]]
      /\ DOMAIN left \subseteq DOMAIN objects /\ visible' \subseteq DOMAIN left
      /\ \A h \in DOMAIN left :
           left[h] = objects[h] /\ Retained(left[h]) \subseteq DOMAIN left
      /\ Founded(left)
  BY <1>2, Collected DEF ClosureInv, Kept
<1>4. objects' = left
  BY <1>1
<1> HIDE DEF left
<1>5. ClosureTypes'
  BY <1>1, <1>3, <1>4 DEF ClosureInv, ClosureTypes
<1>6. Kept'
  BY <1>3, <1>4 DEF Kept
<1> QED  BY <1>3, <1>4, <1>5, <1>6 DEF ClosureInv

------------------------------------------------------------------------------
(* Saving and restoring.                                                   *)

(* What is built again owns what the snapshot followed.                    *)
LEMMA BuiltAgain ==
  ASSUME NEW h, NEW o, Typed(h, o)
  PROVE  /\ Typed(h, Rebuilt(o))
         /\ Retained(Rebuilt(o)) = Followed(o) /\ Followed(o) \subseteq Retained(o)
<1> DEFINE r == Rebuilt(o)
<1>1. /\ DOMAIN o = Fields
      /\ {"form", "owner", "plan", "basis", "from", "through", "terminal", "shadow"} \subseteq Fields
  BY DEF Typed, Fields, Bare
<1>2. /\ DOMAIN r = Fields /\ r.form = o.form /\ r.owner = o.owner /\ r.plan = o.plan
      /\ r.basis = o.basis /\ r.from = o.from /\ r.through = o.through
      /\ r.terminal = IF o.form = "sealed" THEN {} ELSE o.terminal
  BY <1>1 DEF Rebuilt
<1> HIDE DEF r
<1>3. Retained(r) = Followed(o)
  BY <1>2 DEF Retained, Followed
<1>4. Followed(o) \subseteq Retained(o)
  BY DEF Retained, Followed
<1>5. o.form # "sealed" => Followed(o) = Retained(o)
  BY DEF Followed
<1>6. Typed(h, r)
  BY <1>2, <1>3, <1>5 DEF Typed
<1> QED  BY <1>3, <1>4, <1>6 DEF r

LEMMA ItemsKept ==
  ASSUME ClosureInv
  PROVE  /\ visible \subseteq Items /\ Items \subseteq DOMAIN objects
         /\ \A h \in Items :
              /\ Typed(h, objects[h]) /\ h \in Handles(KindOf(objects[h].form))
              /\ Followed(objects[h]) \subseteq Items
<1> DEFINE edges == [h \in DOMAIN objects |-> Followed(objects[h])]
<1>1. \A h \in DOMAIN objects :
        Typed(h, objects[h]) /\ Followed(objects[h]) \subseteq DOMAIN objects
  BY BuiltAgain DEF ClosureInv, ClosureTypes, Kept
<1>2. Inside(edges) /\ visible \subseteq DOMAIN edges /\ DOMAIN edges = DOMAIN objects
  BY <1>1 DEF Inside, ClosureInv, Kept
<1>3. Items = ReachedFrom(edges, visible) /\ \A h \in DOMAIN objects : edges[h] = Followed(objects[h])
  BY DEF Items
<1> HIDE DEF edges
<1>4. /\ visible \subseteq Items /\ Items \subseteq DOMAIN objects
      /\ \A h \in Items : edges[h] \subseteq Items
  BY <1>2, <1>3, Reached
<1>5. \A h \in Items : Typed(h, objects[h]) /\ h \in Handles(KindOf(objects[h].form))
  BY <1>1, <1>4 DEF Typed
<1> QED  BY <1>3, <1>4, <1>5

LEMMA RestoreStep ==
  ASSUME ClosureInv, SaveAndRestore
  PROVE  ClosureInv'
<1> DEFINE made  == RestoredObjects(Items)
           named == RestoredVisible(Items)
           left  == Restrict(made, Owned(made, named))
<1>1. objects' = left /\ visible' = named /\ issued' = issued
  BY DEF SaveAndRestore
<1>2. named \subseteq Items
  BY DEF RestoredVisible
<1>3. DOMAIN made = Items /\ \A h \in Items : made[h] = Rebuilt(objects[h])
  BY DEF RestoredObjects
<1> HIDE DEF made, named
<1>4. ASSUME NEW h \in Items
      PROVE  /\ h \in DOMAIN objects /\ Typed(h, made[h]) /\ h[2] <= issued[h[1]]
             /\ Retained(made[h]) \subseteq Items
             /\ Retained(made[h]) \subseteq Retained(objects[h])
  <2>1. /\ h \in DOMAIN objects /\ Typed(h, objects[h]) /\ Followed(objects[h]) \subseteq Items
        /\ made[h] = Rebuilt(objects[h])
    BY <1>3, ItemsKept
  <2>2. h[2] <= issued[h[1]]
    BY <2>1 DEF ClosureInv, ClosureTypes
  <2> QED  BY <2>1, <2>2, BuiltAgain
<1>5. Founded(made)
  <2> SUFFICES ASSUME NEW S \in SUBSET DOMAIN made, S # {}
               PROVE  \E h \in S : Retained(made[h]) \cap S = {}
    BY DEF Founded
  <2>1. S \in SUBSET DOMAIN objects
    BY <1>3, <1>4
  <2>2. PICK h \in S : Retained(objects[h]) \cap S = {}
    BY <2>1 DEF ClosureInv, Founded
  <2> QED  BY <1>3, <1>4, <2>2
<1>6. /\ left = [h \in DOMAIN left |-> left[h]]
      /\ DOMAIN left \subseteq DOMAIN made /\ named \subseteq DOMAIN left
      /\ \A h \in DOMAIN left :
           left[h] = made[h] /\ Retained(left[h]) \subseteq DOMAIN left
      /\ Founded(left)
  BY <1>2, <1>3, <1>4, <1>5, Collected
<1> HIDE DEF left
<1>7. ClosureTypes'
  BY <1>1, <1>3, <1>4, <1>6 DEF ClosureInv, ClosureTypes
<1>8. Kept'
  BY <1>1, <1>6 DEF Kept
<1> QED  BY <1>1, <1>6, <1>7, <1>8 DEF ClosureInv

------------------------------------------------------------------------------
LEMMA ClosureStart == ClosureInit => ClosureInv
<1> SUFFICES ASSUME ClosureInit  PROVE ClosureInv
  OBVIOUS
<1> DEFINE c == <<"chart", 1>>
           s == <<"scc", 1>>
           t == <<"tile", 1>>
           l == <<"local", 1>>
           k == CHOOSE k \in ChartKey : TRUE
           oc == Object("chart", [key |-> k])
           os == Object("scc", [key |-> "composite", owner |-> {c}])
           ot == Object("tile", [owner |-> {c, s}])
           ol == Object("local", [owner |-> {c}])
<1>1. /\ objects = [h \in {c, s, t, l} |->
                     CASE h = c -> oc [] h = s -> os [] h = t -> ot [] h = l -> ol]
      /\ visible = DOMAIN objects
      /\ issued = [n \in ObjectKind |-> Cardinality({h \in DOMAIN objects : h[1] = n})]
  BY DEF ClosureInit, FirstObjects
<1>2. /\ Has(oc, "chart", {}, {}, {}, {}, {}, {})
      /\ Has(os, "scc", {c}, {}, {}, {}, {}, {})
      /\ Has(ot, "tile", {c, s}, {}, {}, {}, {}, {})
      /\ Has(ol, "local", {c}, {}, {}, {}, {}, {})
  BY ObjectOfKey, ObjectOfComposite, ObjectOfOwner
<1>3. /\ c \in Handles("chart") /\ s \in Handles("scc")
      /\ t \in Handles("tile") /\ l \in Handles("local")
      /\ c[1] = "chart" /\ s[1] = "scc" /\ t[1] = "tile" /\ l[1] = "local"
      /\ c[2] = 1 /\ s[2] = 1 /\ t[2] = 1 /\ l[2] = 1
  BY DEF Handles
<1>4. c # s /\ c # t /\ c # l /\ s # t /\ s # l /\ t # l
  BY <1>3
<1>5. /\ DOMAIN objects = {c, s, t, l}
      /\ objects[c] = oc /\ objects[s] = os /\ objects[t] = ot /\ objects[l] = ol
  BY <1>1, <1>4
<1> HIDE DEF c, s, t, l, k, oc, os, ot, ol
<1>6. /\ Retained(oc) = {} /\ Retained(os) = {c}
      /\ Retained(ot) = {c, s} /\ Retained(ol) = {c}
  BY <1>2 DEF Has, Retained
<1>7. Typed(c, oc) /\ Typed(s, os) /\ Typed(t, ot) /\ Typed(l, ol)
  BY <1>2, <1>3, <1>6 DEF Has, Typed, Forms, KindOf
<1>8. IsFiniteSet(DOMAIN objects)
  <2>1. /\ {c} \cup {s} = {c, s} /\ {c, s} \cup {t} = {c, s, t}
        /\ {c, s, t} \cup {l} = {c, s, t, l} /\ IsFiniteSet({c})
    BY FS_Singleton
  <2>2. IsFiniteSet({c, s})
    BY <2>1, FS_AddElement
  <2>3. IsFiniteSet({c, s, t})
    BY <2>1, <2>2, FS_AddElement
  <2>4. IsFiniteSet({c, s, t, l})
    BY <2>1, <2>3, FS_AddElement
  <2> QED  BY <1>5, <2>4
<1>9. ASSUME NEW n \in ObjectKind
      PROVE  issued[n] \in Nat /\ \A h \in DOMAIN objects : h[1] = n => 1 <= issued[n]
  <2> DEFINE those == {h \in DOMAIN objects : h[1] = n}
  <2>1. IsFiniteSet(those) /\ Cardinality(those) \in Nat
    BY <1>8, FS_Subset, FS_CardinalityType
  <2>2. those # {} => Cardinality(those) # 0
    BY <2>1, FS_EmptySet
  <2>3. issued[n] = Cardinality(those)
    BY <1>1
  <2>4. \A h \in DOMAIN objects : h[1] = n => those # {}
    OBVIOUS
  <2> HIDE DEF those
  <2>5. issued[n] \in Nat
    BY <2>1, <2>3
  <2>6. ASSUME NEW h \in DOMAIN objects, h[1] = n  PROVE 1 <= issued[n]
    BY <2>1, <2>2, <2>3, <2>4, <2>6
  <2> QED  BY <2>5, <2>6
<1>10. ASSUME NEW h \in DOMAIN objects
       PROVE  /\ Typed(h, objects[h]) /\ h[2] <= issued[h[1]]
              /\ Retained(objects[h]) \subseteq DOMAIN objects
  <2>1. Typed(h, objects[h]) /\ h[2] = 1 /\ Retained(objects[h]) \subseteq DOMAIN objects
    BY <1>3, <1>5, <1>6, <1>7
  <2>2. h[1] \in ObjectKind
    BY <1>3, <1>5 DEF ObjectKind
  <2> QED  BY <1>9, <2>1, <2>2
<1>11. ClosureTypes
  <2>1. issued = [n \in ObjectKind |-> issued[n]] /\ objects = [h \in DOMAIN objects |-> objects[h]]
    BY <1>1
  <2> QED  BY <1>9, <1>10, <2>1 DEF ClosureTypes
<1>12. Kept
  BY <1>1, <1>10 DEF Kept
<1>13. Founded(objects)
  <2> SUFFICES ASSUME NEW S \in SUBSET {c, s, t, l}, S # {}
               PROVE  \E h \in S : Retained(objects[h]) \cap S = {}
    BY <1>5 DEF Founded
  <2>1. CASE c \in S
    BY <1>5, <1>6, <2>1
  <2>2. CASE c \notin S /\ s \in S
    BY <1>5, <1>6, <2>2
  <2>3. CASE c \notin S /\ s \notin S
    BY <1>5, <1>6, <2>3
  <2> QED  BY <2>1, <2>2, <2>3
<1> QED  BY <1>11, <1>12, <1>13 DEF ClosureInv

LEMMA ClosureSteps == ClosureInv /\ [ClosureNext]_sessionVars => ClosureInv'
<1> SUFFICES ASSUME ClosureInv, [ClosureNext]_sessionVars  PROVE ClosureInv'
  OBVIOUS
<1>1. CASE UNCHANGED sessionVars
  BY <1>1 DEF sessionVars, ClosureInv, ClosureTypes, Kept
<1>2. CASE ClosureNext
  BY <1>2, FirstSteps, MatchSteps, HopSteps, StateSteps, ArmStep, ResultSteps,
     ReleaseStep, RestoreStep DEF ClosureNext
<1> QED  BY <1>1, <1>2

(* Whatever an object or a client's handle owns is there, of the kind its  *)
(* owner expects, and no object owns itself, however indirectly, whatever  *)
(* clients make, spend, release and restore.                               *)
THEOREM OwnersStay == ClosureSpec => []ClosureInv
<1> QED  BY ClosureStart, ClosureSteps, PTL DEF ClosureSpec

------------------------------------------------------------------------------
(* What is saved can be restored.                                          *)

(* The walks install whatever finds what it needs.                         *)
LEMMA WalksInstall ==
  ASSUME NEW ready, NEW unbuilt, NEW h \in unbuilt,
         Needed(objects[h]) \subseteq WalkPending(ready, unbuilt)
  PROVE  h \in WalkPending(ready, unbuilt)
<1> DEFINE Stuck(S) == \A g \in unbuilt \ S : ~(Needed(objects[g]) \subseteq ready \cup S)
           built == WalkPending(ready, unbuilt)
<1>1. built = ready \cup {g \in unbuilt : \A S \in SUBSET (unbuilt \ {g}) : ~Stuck(S)}
  BY DEF WalkPending
<1> SUFFICES ASSUME NEW S \in SUBSET (unbuilt \ {h}), Stuck(S)  PROVE FALSE
  BY <1>1
<1>2. PICK n \in Needed(objects[h]) : n \notin ready \cup S
  OBVIOUS
<1>3. n \in built /\ n \notin ready
  BY <1>2
<1>4. S \in SUBSET (unbuilt \ {n})
  BY <1>2
<1> HIDE DEF Stuck, built
<1> QED  BY <1>1, <1>3, <1>4

(* Every item is replayed, installed by a pass, or comes after.            *)
LEMMA ItemsSorted ==
  ASSUME ClosureInv, NEW h \in Items
  PROVE  /\ h \in Handles("chart") \cup Handles("scc") \cup Handles("tile") => h \in Replayed(Items)
         /\ h \in Handles("local") => h \in FirstPass(Items) \cup Pending(Items)
         /\ h \in Handles("match") => h \in OfForm(Items, {"acb match"}) \cup Pending(Items)
         /\ h \in Handles("state") => h[1] = "state"
<1>1. objects[h].form \in Forms /\ h[1] = KindOf(objects[h].form)
  BY ItemsKept DEF Typed, Handles
<1>2. CASE h[1] = "local"
  <2>1. objects[h].form \in {"local", "row", "derived", "sealed", "handoff"}
    BY <1>1, <1>2 DEF Forms, KindOf
  <2> QED  BY <1>2, <2>1 DEF FirstPass, Pending, OfForm, Handles
<1>3. CASE h[1] = "match"
  <2>1. objects[h].form \in {"exact match", "acb match", "hop"}
    BY <1>1, <1>3 DEF Forms, KindOf
  <2> QED  BY <1>3, <2>1 DEF Pending, OfForm, Handles
<1> QED  BY <1>2, <1>3 DEF Replayed, Handles

(* What restore needs for an item is among the items, but for the plan and *)
(* the local that a handoff names.                                         *)
LEMMA NeedsSaved ==
  ASSUME ClosureInv, NEW h \in Items, objects[h].form # "handoff"
  PROVE  /\ Needed(objects[h]) \subseteq Items
         /\ Needed(objects[h]) \subseteq
              Handles("chart") \cup Handles("scc") \cup Handles("tile") \cup Handles("local")
                \cup Handles("match") \cup Handles("state")
         /\ h[1] # "result" =>
              Needed(objects[h]) \subseteq Handles("chart") \cup Handles("scc") \cup Handles("tile")
                                         \cup Handles("local") \cup Handles("match")
         /\ h[1] \in {"chart", "scc", "tile"} \/ objects[h].form \in {"local", "sealed"} =>
              Needed(objects[h]) \subseteq Handles("chart") \cup Handles("scc")
<1> DEFINE o == objects[h]
<1>1. Typed(h, o) /\ Followed(o) \subseteq Items
  BY ItemsKept
<1> HIDE DEF o
<1>2. Needed(o) = Followed(o)
  BY DEF Needed, Followed, o
<1>3. Needed(o) \subseteq o.owner \cup o.plan \cup o.basis \cup o.from \cup o.through \cup o.terminal
  BY DEF Needed, Retained
<1>4. h[1] # "result" => o.through \subseteq Handles("match")
  BY <1>1 DEF Typed, KindOf, Handles
<1>5. h[1] \in {"chart", "scc", "tile"} => o.form \in {"chart", "scc", "tile"}
  BY <1>1 DEF Typed, KindOf, Handles, Forms
<1>6. o.form \in {"chart", "scc", "tile", "local", "sealed"} => Needed(o) = o.owner
  BY <1>1 DEF Needed, Typed
<1>7. /\ o.owner \subseteq Handles("chart") \cup Handles("scc") /\ o.plan \subseteq Handles("tile")
      /\ o.basis \subseteq Handles("local") /\ o.from \subseteq Handles("local")
      /\ o.terminal \subseteq Handles("match")
      /\ o.through \subseteq Handles("match") \cup Handles("state")
  BY <1>1 DEF Typed
<1>8. Needed(o) \subseteq Items
  BY <1>1, <1>2
<1>9. Needed(o) \subseteq
        Handles("chart") \cup Handles("scc") \cup Handles("tile") \cup Handles("local")
          \cup Handles("match") \cup Handles("state")
  BY <1>3, <1>7
<1>10. h[1] # "result" =>
         Needed(o) \subseteq Handles("chart") \cup Handles("scc") \cup Handles("tile")
                              \cup Handles("local") \cup Handles("match")
  BY <1>3, <1>4, <1>7
<1>11. h[1] \in {"chart", "scc", "tile"} \/ o.form \in {"local", "sealed"} =>
         Needed(o) \subseteq Handles("chart") \cup Handles("scc")
  BY <1>5, <1>6, <1>7
<1> QED  BY <1>8, <1>9, <1>10, <1>11 DEF o

(* Matches and derived locals own one another in no circle, so the walks   *)
(* end with all of them installed.                                         *)
LEMMA AllInstalled ==
  ASSUME ClosureInv, NEW ready,
         ready = Replayed(Items) \cup FirstPass(Items) \cup OfForm(Items, {"acb match"})
  PROVE  Pending(Items) \subseteq WalkPending(ready, Pending(Items))
<1> DEFINE built == WalkPending(ready, Pending(Items))
           left  == Pending(Items) \ built
<1>1. ready \subseteq built
  BY DEF WalkPending
<1>2. Pending(Items) \subseteq Items /\ \A h \in Pending(Items) :
        /\ objects[h].form \in {"exact match", "hop", "row", "derived"}
        /\ Needed(objects[h]) = Retained(objects[h])
  BY DEF Pending, OfForm, Needed
<1>3. ASSUME NEW h \in Pending(Items)
      PROVE  Needed(objects[h]) \subseteq built \cup left
  <2>1. h \in Items /\ h[1] # "result"
    <3>1. h \in Items /\ h \in Handles(KindOf(objects[h].form))
      BY <1>2, ItemsKept
    <3> QED  BY <1>2, <3>1 DEF KindOf, Handles
  <2>2. /\ Needed(objects[h]) \subseteq Items
        /\ Needed(objects[h]) \subseteq Handles("chart") \cup Handles("scc") \cup Handles("tile")
                                         \cup Handles("local") \cup Handles("match")
    BY <1>2, <2>1, NeedsSaved
  <2>3. Needed(objects[h]) \subseteq ready \cup Pending(Items)
    BY <2>2, ItemsSorted
  <2> QED  BY <1>1, <2>3
<1>4. left = {}
  <2> SUFFICES ASSUME left # {}  PROVE FALSE
    OBVIOUS
  <2>1. left \in SUBSET DOMAIN objects
    BY <1>2, ItemsKept
  <2> HIDE DEF left
  <2>2. PICK h \in left : Retained(objects[h]) \cap left = {}
    BY <2>1 DEF ClosureInv, Founded
  <2>3. h \in Pending(Items) /\ h \notin built
    BY DEF left
  <2>4. Needed(objects[h]) \subseteq built
    BY <1>2, <1>3, <2>2, <2>3
  <2> QED  BY <2>3, <2>4, WalksInstall
<1> QED  BY <1>4

LEMMA FirstPassFed ==
  ASSUME ClosureInv, ~HandoffUnfed(Items)
  PROVE  FirstPassFinds(Items)
<1> SUFFICES ASSUME NEW l \in FirstPass(Items), NEW n \in Needed(objects[l])
             PROVE  n \in Replayed(Items) \cup {k \in FirstPass(Items) : k[2] < l[2]}
  BY DEF FirstPassFinds, Finds
<1>1. l \in Items /\ objects[l].form \in {"local", "sealed", "handoff"}
  BY DEF FirstPass, OfForm
<1>2. CASE objects[l].form # "handoff"
  <2>1. n \in Items /\ n \in Handles("chart") \cup Handles("scc")
    BY <1>1, <1>2, NeedsSaved
  <2> QED  BY <2>1, ItemsSorted
<1>3. CASE objects[l].form = "handoff"
  <2>1. /\ Typed(l, objects[l]) /\ Followed(objects[l]) \subseteq Items
        /\ objects[l].plan \cup objects[l].from \subseteq Replayed(Items) \cup FirstPass(Items)
    BY <1>1, <1>3, ItemsKept DEF HandoffUnfed, OfForm
  <2>2. n \in objects[l].owner \cup objects[l].plan \cup objects[l].from
    BY <1>3 DEF Needed
  <2>3. CASE n \in objects[l].owner
    <3>1. n \in Items
      BY <1>3, <2>1, <2>3 DEF Followed, Retained
    <3>2. n \in Handles("chart") \cup Handles("scc")
      BY <2>1, <2>3 DEF Typed
    <3> QED  BY <3>1, <3>2, ItemsSorted
  <2>4. CASE n \in objects[l].plan
    <3>1. n \in Items /\ n \in Handles("tile")
      BY <2>1, <2>4 DEF Typed, Replayed, FirstPass, OfForm
    <3> QED  BY <3>1, ItemsSorted
  <2>5. CASE n \in objects[l].from
    <3>1. n[2] < l[2] /\ n[1] = "local"
      BY <1>3, <2>1, <2>5 DEF Typed, Handles
    <3>2. n \in FirstPass(Items)
      BY <2>1, <2>5, <3>1 DEF Replayed
    <3> QED  BY <3>1, <3>2
  <2> QED  BY <2>2, <2>3, <2>4, <2>5
<1> QED  BY <1>2, <1>3

LEMMA FilesAccepted ==
  ASSUME ClosureInv, ~KeyTakenAgain(Items), ~HandoffUnfed(Items)
  PROVE  Accepted(Items)
<1> DEFINE ready  == Replayed(Items) \cup FirstPass(Items) \cup OfForm(Items, {"acb match"})
           built  == WalkPending(ready, Pending(Items))
           states == {h \in Items : h[1] = "state"}
<1>1. ready \subseteq built /\ Pending(Items) \subseteq built
  <2>1. ready \subseteq built
    BY DEF WalkPending
  <2>2. Pending(Items) \subseteq built
    BY AllInstalled
  <2> QED  BY <2>1, <2>2
<1>2. Finds(Replayed(Items), Replayed(Items))
  <2> SUFFICES ASSUME NEW h \in Replayed(Items), NEW n \in Needed(objects[h])
               PROVE  n \in Replayed(Items)
    BY DEF Finds
  <2>1. h \in Items /\ h[1] \in {"chart", "scc", "tile"}
    BY DEF Replayed
  <2>2. objects[h].form # "handoff"
    BY <2>1, ItemsKept DEF KindOf, Handles
  <2>3. n \in Items /\ n \in Handles("chart") \cup Handles("scc")
    BY <2>1, <2>2, NeedsSaved
  <2> QED  BY <2>3, ItemsSorted
<1>3. ASSUME NEW h \in Items, h[1] \in {"state", "result"}
      PROVE  /\ Needed(objects[h]) \subseteq built \cup states
             /\ h[1] = "state" => Needed(objects[h]) \subseteq built
  <2>1. objects[h].form # "handoff"
    BY <1>3, ItemsKept DEF KindOf, Handles
  <2>2. /\ Needed(objects[h]) \subseteq Items
        /\ Needed(objects[h]) \subseteq
             Handles("chart") \cup Handles("scc") \cup Handles("tile") \cup Handles("local")
               \cup Handles("match") \cup Handles("state")
        /\ h[1] # "result" =>
             Needed(objects[h]) \subseteq Handles("chart") \cup Handles("scc") \cup Handles("tile")
                                        \cup Handles("local") \cup Handles("match")
    BY <2>1, NeedsSaved
  <2>3. \A n \in Items :
          /\ n \in Handles("chart") \cup Handles("scc") \cup Handles("tile")
                  \cup Handles("local") \cup Handles("match") => n \in built
          /\ n \in Handles("state") => n \in states
    BY <1>1, ItemsSorted
  <2> QED  BY <2>2, <2>3
<1>4. Finds(states, built) /\ Finds({h \in Items : h[1] = "result"}, built \cup states)
  BY <1>3 DEF Finds
<1> QED  BY <1>1, <1>2, <1>4, FirstPassFed DEF Accepted, KeyTakenAgain

(* Every object comes back, under the same owners.                         *)
LEMMA SameOwners ==
  ASSUME ClosureInv
  PROVE  /\ RestoredVisible(Items) = visible
         /\ Owned(RestoredObjects(Items), RestoredVisible(Items)) = Items
<1> DEFINE edges == [h \in DOMAIN objects |-> Followed(objects[h])]
           again == [h \in DOMAIN RestoredObjects(Items) |-> Retained(RestoredObjects(Items)[h])]
<1>1. RestoredVisible(Items) = visible
  BY ItemsKept DEF RestoredVisible
<1>2. \A h \in DOMAIN objects :
        Typed(h, objects[h]) /\ Followed(objects[h]) \subseteq DOMAIN objects
  BY BuiltAgain DEF ClosureInv, ClosureTypes, Kept
<1>3. Inside(edges) /\ visible \subseteq DOMAIN edges
  BY <1>2 DEF Inside, ClosureInv, Kept
<1>4. DOMAIN again = ReachedFrom(edges, visible) /\ DOMAIN again = Items
  BY DEF RestoredObjects, Items
<1>5. \A h \in Items : again[h] = edges[h]
  BY <1>2, ItemsKept, BuiltAgain DEF RestoredObjects
<1>6. Owned(RestoredObjects(Items), visible) = ReachedFrom(again, visible)
  BY DEF Owned
<1> HIDE DEF edges, again
<1>7. ReachedFrom(again, visible) = DOMAIN again
  BY <1>3, <1>4, <1>5, ReachedAgain
<1> QED  BY <1>1, <1>4, <1>6, <1>7

(* A shadow is saved only in a basis that was spent, which no client and   *)
(* no match that stays may use.                                            *)
LEMMA NoShadowLost ==
  ASSUME Savable(Items)
  PROVE  \A l \in Items \cap Usable(Items) : ~objects[l].shadow
  BY DEF Savable, Usable, SpentBasis

(* A session that can be saved comes back whole, or its file is refused    *)
(* for one of the two causes: make_checkpoint_snapshot writes down all     *)
(* that restore_checkpoint needs, in any order of the clients' commands.   *)
THEOREM SessionsComeBack == ClosureSpec => []RestoresWhole
<1>1. ClosureInv => RestoresWhole
  BY FilesAccepted, SameOwners, NoShadowLost DEF RestoresWhole
<1> QED  BY <1>1, OwnersStay, PTL

------------------------------------------------------------------------------
(* FIRE sessions.                                                         *)

(* A process that is about to retire has seen its batch synced, and nothing *)
(* undoes that while the process lives.                                     *)
RetiresDurable ==
  \A p \in Process : At(p, "retiring") => batch[session[p].want] = "synced"

(* A call that is under way extends what its session completed.             *)
Extends ==
  \A p \in Process : ~At(p, "idle") => Identity(p) \in Name

FireInv == FireTypeOK /\ RetiresDurable /\ Extends

Calls == [at : Step, held : Demand \cup {Cold}, want : Demand \cup {Cold}, done : Nat]

Generation == [done : Nat, whole : BOOLEAN]

LEMMA FireInitInv == FireInit => FireInv
  BY DEF FireInit, FireInv, FireTypeOK, RetiresDurable, Extends, Unused, Step, At

(* What the other processes are promised is left to them.                   *)
LEMMA OthersKept ==
  ASSUME NEW p \in Process, FireInv,
         \A q \in Process \ {p} : session'[q] = session[q],
         batch' \in [Demand -> {"absent", "linked", "synced"}],
         \A d \in Demand : batch[d] = "synced" => batch'[d] = "synced",
         At(p, "retiring")' => batch'[session'[p].want] = "synced",
         ~At(p, "idle")' => Identity(p)' \in Name
  PROVE  RetiresDurable' /\ Extends'
  <1>1. ASSUME NEW q \in Process, At(q, "retiring")'
        PROVE  batch'[session'[q].want] = "synced"
    <2>1. CASE q = p
      BY <1>1, <2>1
    <2>2. CASE q # p
      <3>1. session'[q] = session[q]
        BY <2>2
      <3>2. At(q, "retiring") /\ ~At(q, "idle")
        BY <1>1, <3>1 DEF At
      <3>3. session[q].want \in Demand
        BY <3>2 DEF FireInv, Extends, Identity, Name
      <3>4. batch[session[q].want] = "synced"
        BY <3>2 DEF FireInv, RetiresDurable
      <3> QED
        BY <3>1, <3>3, <3>4
    <2> QED
      BY <2>1, <2>2
  <1>2. ASSUME NEW q \in Process, ~At(q, "idle")'
        PROVE  Identity(q)' \in Name
    <2>1. CASE q = p
      BY <1>2, <2>1
    <2>2. CASE q # p
      <3>1. session'[q] = session[q]
        BY <2>2
      <3>2. ~At(q, "idle")
        BY <1>2, <3>1 DEF At
      <3>3. Identity(q) \in Name
        BY <3>2 DEF FireInv, Extends
      <3> QED
        BY <3>1, <3>3 DEF Identity
    <2> QED
      BY <2>1, <2>2
  <1> QED
    BY <1>1, <1>2 DEF RetiresDurable, Extends

(* How a call ends.                                                         *)
LEMMA Ends ==
  ASSUME NEW p \in Process, FireTypeOK, Answer(p) \/ Refuse(p)
  PROVE  /\ session' \in [Process -> Calls]
         /\ session'[p].at = "idle"
         /\ \A q \in Process \ {p} : session'[q] = session[q]
  <1>1. session \in [Process -> Calls]
    BY DEF FireTypeOK, Calls
  <1>2. session[p].want \in Demand \cup {Cold} /\ session[p].held \in Demand \cup {Cold}
    BY <1>1 DEF Calls
  <1>3. PICK h \in Demand \cup {Cold} :
          session' = [session EXCEPT ![p] = [Unused EXCEPT !.held = h]]
    BY <1>2 DEF Answer, Refuse
  <1>4. /\ [Unused EXCEPT !.held = h] \in Calls
        /\ [Unused EXCEPT !.held = h].at = "idle"
    BY DEF Unused, Step, Calls
  <1> QED
    BY <1>1, <1>3, <1>4

(* How a call goes on.                                                      *)
LEMMA GoesOn ==
  ASSUME NEW p \in Process, FireTypeOK, NEW step \in Step, Go(p, step)
  PROVE  /\ session' \in [Process -> Calls]
         /\ session'[p].at = step
         /\ session'[p].want = session[p].want /\ session'[p].held = session[p].held
         /\ \A q \in Process \ {p} : session'[q] = session[q]
  BY DEF FireTypeOK, Go, Calls

(* A step that only ends a call, or takes it one step on.                   *)
LEMMA EndsInv ==
  ASSUME NEW p \in Process, FireInv, Answer(p) \/ Refuse(p),
         batch' \in [Demand -> {"absent", "linked", "synced"}],
         \A d \in Demand : batch[d] = "synced" => batch'[d] = "synced",
         pending' \in [Name -> Seq(Generation)], UNCHANGED still
  PROVE  FireInv'
  <1>1. /\ session' \in [Process -> Calls]
        /\ session'[p].at = "idle"
        /\ \A q \in Process \ {p} : session'[q] = session[q]
    BY Ends DEF FireInv
  <1>2. RetiresDurable' /\ Extends'
    BY <1>1, OthersKept DEF At
  <1>3. FireTypeOK'
    BY <1>1 DEF FireInv, FireTypeOK, still, Calls, Generation
  <1> QED
    BY <1>2, <1>3 DEF FireInv

LEMMA GoesInv ==
  ASSUME NEW p \in Process, FireInv, NEW step \in Step, Go(p, step), ~At(p, "idle"),
         batch' \in [Demand -> {"absent", "linked", "synced"}],
         \A d \in Demand : batch[d] = "synced" => batch'[d] = "synced",
         step = "retiring" => batch'[session[p].want] = "synced",
         pending' = pending, UNCHANGED still
  PROVE  FireInv'
  <1>1. /\ session' \in [Process -> Calls]
        /\ session'[p].at = step
        /\ session'[p].want = session[p].want /\ session'[p].held = session[p].held
        /\ \A q \in Process \ {p} : session'[q] = session[q]
    BY GoesOn DEF FireInv
  <1>2. Identity(p) \in Name
    BY DEF FireInv, Extends
  <1>3. RetiresDurable' /\ Extends'
    BY <1>1, <1>2, OthersKept DEF At, Identity
  <1>4. FireTypeOK'
    BY <1>1 DEF FireInv, FireTypeOK, still, Calls
  <1> QED
    BY <1>3, <1>4 DEF FireInv

------------------------------------------------------------------------------
LEMMA FireStepInv == FireInv /\ [FireNext]_fireVars => FireInv'
  <1> SUFFICES ASSUME FireInv, [FireNext]_fireVars PROVE FireInv'
    OBVIOUS
  <1>0. /\ batch \in [Demand -> {"absent", "linked", "synced"}]
        /\ pending \in [Name -> Seq(Generation)]
        /\ session \in [Process -> Calls]
        /\ losses \in Nat /\ outages \in Nat
    BY DEF FireInv, FireTypeOK, Calls, Generation
  <1>1. ASSUME NEW p \in Process, NEW d \in Wants[p], Ask(p, d) PROVE FireInv'
    <2>1. d \in Demand
      BY WantsAssumption
    <2>2. /\ session' \in [Process -> Calls]
          /\ session'[p].at = "asking" /\ session'[p].want = d
          /\ session'[p].held = session[p].held
          /\ \A q \in Process \ {p} : session'[q] = session[q]
      BY <1>0, <1>1, <2>1 DEF Ask, Step, Calls
    <2>3. Identity(p)' \in Name
      BY <1>0, <1>1, <2>1, <2>2 DEF Ask, Identity, Name, Calls
    <2>4. RetiresDurable' /\ Extends'
      BY <1>0, <1>1, <2>2, <2>3, OthersKept DEF Ask, At
    <2>5. FireTypeOK'
      BY <1>0, <1>1, <2>2 DEF Ask, FireTypeOK, still, Calls, Generation
    <2> QED
      BY <2>4, <2>5 DEF FireInv
  <1>2. ASSUME NEW p \in Process, FindBatch(p) PROVE FireInv'
    <2>1. CASE Go(p, "looking")
      BY <1>0, <1>2, <2>1, GoesInv DEF FindBatch, At, Step
    <2>2. CASE Answer(p)
      BY <1>0, <1>2, <2>2, EndsInv DEF FindBatch
    <2> QED
      BY <1>2, <2>1, <2>2 DEF FindBatch
  <1>3. ASSUME NEW p \in Process, LookPending(p) PROVE FireInv'
    <2> DEFINE found == pending[Identity(p)]
    <2>1. CASE Refuse(p)
      BY <1>0, <1>3, <2>1, EndsInv DEF LookPending
    <2>2. CASE Go(p, "running")
      BY <1>0, <1>3, <2>2, GoesInv DEF LookPending, At, Step
    <2>3. CASE found # <<>> /\
               session' = [session EXCEPT ![p].at = "opening", ![p].done = found[Len(found)].done]
      <3>1. Identity(p) \in Name
        BY <1>3 DEF FireInv, Extends, LookPending, At
      <3>2. found \in Seq(Generation)
        BY <1>0, <3>1
      <3>3. found[Len(found)].done \in Nat
        <4>1. Len(found) \in 1..Len(found)
          BY <2>3, <3>2
        <4>2. found[Len(found)] \in Generation
          BY <3>2, <4>1
        <4> QED
          BY <4>2 DEF Generation
      <3>4. /\ session' \in [Process -> Calls]
            /\ session'[p].at = "opening" /\ session'[p].want = session[p].want
            /\ session'[p].held = session[p].held
            /\ \A q \in Process \ {p} : session'[q] = session[q]
        BY <1>0, <2>3, <3>3 DEF Step, Calls
      <3>5. RetiresDurable' /\ Extends'
        BY <1>0, <1>3, <3>1, <3>4, OthersKept DEF LookPending, At, Identity
      <3>6. FireTypeOK'
        BY <1>0, <1>3, <3>4 DEF LookPending, FireTypeOK, still, Calls, Generation
      <3> QED
        BY <3>5, <3>6 DEF FireInv
    <2> QED
      BY <1>3, <2>1, <2>2, <2>3 DEF LookPending
  <1>4. ASSUME NEW p \in Process, OpenPending(p) PROVE FireInv'
    <2>1. CASE Go(p, "running")
      BY <1>0, <1>4, <2>1, GoesInv DEF OpenPending, At, Step
    <2>2. CASE Refuse(p)
      BY <1>0, <1>4, <2>2, EndsInv DEF OpenPending
    <2> QED
      BY <1>4, <2>1, <2>2 DEF OpenPending
  <1>5. ASSUME NEW p \in Process, FinishSector(p) PROVE FireInv'
    <2>1. /\ session' \in [Process -> Calls]
          /\ session'[p].at = "running" /\ session'[p].want = session[p].want
          /\ session'[p].held = session[p].held
          /\ \A q \in Process \ {p} : session'[q] = session[q]
      <3> DEFINE new == [session[p] EXCEPT !.done = @ + 1]
      <3>1. session[p] \in Calls /\ session[p].at = "running"
        BY <1>0, <1>5 DEF FinishSector, At
      <3>2. /\ new \in Calls /\ new.at = "running"
            /\ new.want = session[p].want /\ new.held = session[p].held
        BY <3>1 DEF Calls
      <3>3. session' = [session EXCEPT ![p] = new]
        BY <1>5 DEF FinishSector
      <3> HIDE DEF new
      <3> QED
        BY <1>0, <3>2, <3>3
    <2>2. Identity(p) \in Name
      BY <1>5 DEF FireInv, Extends, FinishSector, At
    <2>3. RetiresDurable' /\ Extends'
      BY <1>0, <1>5, <2>1, <2>2, OthersKept DEF FinishSector, At, Identity
    <2>4. FireTypeOK'
      BY <1>0, <1>5, <2>1 DEF FinishSector, FireTypeOK, still, Calls, Generation
    <2> QED
      BY <2>3, <2>4 DEF FireInv
  <1>6. ASSUME NEW p \in Process, StopEarly(p) PROVE FireInv'
    <2> DEFINE new == [done |-> session[p].done, whole |-> TRUE]
    <2>1. new \in Generation
      BY <1>0 DEF Generation, Calls
    <2>2. Identity(p) \in Name
      BY <1>6 DEF FireInv, Extends, StopEarly, At
    <2>3. pending' \in [Name -> Seq(Generation)]
      <3>1. CASE UNCHANGED pending
        BY <1>0, <3>1
      <3>2. CASE pending' = [pending EXCEPT ![Identity(p)] = Append(@, new)]
        <4>1. Append(pending[Identity(p)], new) \in Seq(Generation)
          BY <1>0, <2>1, <2>2
        <4> QED
          BY <1>0, <3>2, <4>1
      <3> QED
        BY <1>6, <3>1, <3>2 DEF StopEarly
    <2> QED
      BY <1>0, <1>6, <2>3, EndsInv DEF StopEarly
  <1>7. ASSUME NEW p \in Process, PublishBatch(p) PROVE FireInv'
    <2>1. CASE Refuse(p) /\ UNCHANGED batch
      BY <1>0, <1>7, <2>1, EndsInv DEF PublishBatch
    <2>2. CASE /\ batch' = [batch EXCEPT ![session[p].want] = IF @ = "absent" THEN "linked" ELSE @]
               /\ Go(p, "syncing")
      <3>1. /\ batch' \in [Demand -> {"absent", "linked", "synced"}]
            /\ \A d \in Demand : batch[d] = "synced" => batch'[d] = "synced"
        BY <1>0, <2>2
      <3> QED
        BY <1>7, <2>2, <3>1, GoesInv DEF PublishBatch, At, Step
    <2> QED
      BY <1>7, <2>1, <2>2 DEF PublishBatch
  <1>8. ASSUME NEW p \in Process, SyncBatch(p) PROVE FireInv'
    <2>1. CASE Refuse(p) /\ UNCHANGED batch
      BY <1>0, <1>8, <2>1, EndsInv DEF SyncBatch
    <2>2. CASE batch' = [batch EXCEPT ![session[p].want] = "synced"] /\ Go(p, "retiring")
      <3>1. session[p].want \in Demand
        BY <1>8 DEF FireInv, Extends, SyncBatch, At, Identity, Name
      <3>2. /\ batch' \in [Demand -> {"absent", "linked", "synced"}]
            /\ \A d \in Demand : batch[d] = "synced" => batch'[d] = "synced"
            /\ batch'[session[p].want] = "synced"
        BY <1>0, <2>2, <3>1
      <3> QED
        BY <1>8, <2>2, <3>2, GoesInv DEF SyncBatch, At, Step
    <2> QED
      BY <1>8, <2>1, <2>2 DEF SyncBatch
  <1>9. ASSUME NEW p \in Process, RetirePending(p) PROVE FireInv'
    <2>1. pending' \in [Name -> Seq(Generation)]
      <3>1. <<>> \in Seq(Generation)
        OBVIOUS
      <3>2. \/ pending' = [pending EXCEPT ![Identity(p)] = <<>>]
            \/ pending' = pending
        BY <1>9 DEF RetirePending
      <3> QED
        BY <1>0, <3>1, <3>2
    <2> QED
      BY <1>0, <1>9, <2>1, EndsInv DEF RetirePending
  <1>10. ASSUME NEW p \in Process, ProcessDies(p) PROVE FireInv'
    <2>1. /\ session' \in [Process -> Calls]
          /\ session'[p].at = "idle"
          /\ \A q \in Process \ {p} : session'[q] = session[q]
      BY <1>0, <1>10 DEF ProcessDies, Unused, Step, Calls
    <2>2. RetiresDurable' /\ Extends'
      BY <1>0, <1>10, <2>1, OthersKept DEF ProcessDies, At
    <2>3. FireTypeOK'
      BY <1>0, <1>10, <2>1 DEF ProcessDies, FireTypeOK, Calls, Generation
    <2> QED
      BY <2>2, <2>3 DEF FireInv
  <1>11. ASSUME PowerFailure PROVE FireInv'
    <2>1. batch' \in [Demand -> {"absent", "linked", "synced"}]
      BY <1>0, <1>11 DEF PowerFailure
    <2>2. pending' \in [Name -> Seq(Generation)]
      <3>1. PICK kept \in [Name -> 0..(Sectors + 1)], torn \in SUBSET Saved :
              /\ \A n \in Name : kept[n] <= Len(pending[n])
              /\ pending' = [n \in Name |-> After(n, kept[n], torn)]
        BY <1>11 DEF PowerFailure
      <3>2. ASSUME NEW n \in Name PROVE After(n, kept[n], torn) \in Seq(Generation)
        <4>1. kept[n] \in Nat /\ kept[n] <= Len(pending[n]) /\ pending[n] \in Seq(Generation)
          BY <1>0, <3>1, SectorsAssumption
        <4> DEFINE left(i) ==
              [pending[n][i] EXCEPT !.whole = @ /\ <<n, pending[n][i].done>> \notin torn]
        <4>2. ASSUME NEW i \in 1..kept[n] PROVE left(i) \in Generation
          <5>1. pending[n][i] \in Generation
            BY <4>1
          <5>2. (pending[n][i].whole /\ <<n, pending[n][i].done>> \notin torn) \in BOOLEAN
            OBVIOUS
          <5> QED
            BY <5>1, <5>2 DEF Generation
        <4>3. After(n, kept[n], torn) = [i \in 1..kept[n] |-> left(i)]
          BY DEF After
        <4> HIDE DEF left
        <4> QED
          BY <4>1, <4>2, <4>3
      <3> QED
        BY <3>1, <3>2
    <2>3. session' = [p \in Process |-> Unused] /\ Unused \in Calls
      BY <1>11 DEF PowerFailure, Unused, Step, Calls
    <2>4. RetiresDurable' /\ Extends'
      BY <2>3 DEF RetiresDurable, Extends, At, Unused
    <2>5. FireTypeOK'
      BY <1>0, <1>11, <2>1, <2>2, <2>3 DEF PowerFailure, FireTypeOK, Calls, Generation
    <2> QED
      BY <2>4, <2>5 DEF FireInv
  <1>12. CASE UNCHANGED fireVars
    BY <1>12 DEF fireVars, FireInv, FireTypeOK, RetiresDurable, Extends, At, Identity
  <1> QED
    BY <1>1, <1>2, <1>3, <1>4, <1>5, <1>6, <1>7, <1>8, <1>9, <1>10, <1>11, <1>12
    DEF FireNext, FireStep

(* Every state has the types of the session, of the batches and of the      *)
(* snapshots, and whoever is about to retire pending work has synced the    *)
(* batch (fire_session.hpp:31-33).                                          *)
THEOREM FireInvariant == FireSpec => []FireInv
  <1> QED
    BY FireInitInv, FireStepInv, PTL DEF FireSpec

(* A snapshot name loses its generations only behind a durable batch.       *)
LEMMA RetiringStep ==
  ASSUME FireInv, [FireNext]_fireVars,
         NEW n \in Name, pending[n] # <<>>, pending'[n] = <<>>, outages' = outages
  PROVE  batch'[n[1]] = "synced"
  <1>0. /\ pending \in [Name -> Seq(Generation)]
        /\ outages \in Nat
    BY DEF FireInv, FireTypeOK, Generation
  <1>1. ~PowerFailure
    BY <1>0 DEF PowerFailure
  <1>2. pending' # pending
    OBVIOUS
  <1>3. PICK p \in Process : StopEarly(p) \/ RetirePending(p)
    BY <1>1, <1>2 DEF FireNext, FireStep, fireVars, Ask, FindBatch, LookPending, OpenPending,
       FinishSector, PublishBatch, SyncBatch, ProcessDies
  <1>4. ~StopEarly(p)
    <2> SUFFICES ASSUME StopEarly(p) PROVE FALSE
      OBVIOUS
    <2> DEFINE new == [done |-> session[p].done, whole |-> TRUE]
    <2>1. pending' = [pending EXCEPT ![Identity(p)] = Append(@, new)]
      BY <1>2 DEF StopEarly
    <2>2. n = Identity(p) /\ pending'[n] = Append(pending[n], new)
      BY <1>0, <2>1
    <2>3. Append(pending[n], new) # <<>>
      BY <1>0
    <2> QED
      BY <2>2, <2>3
  <1>5. pending' = [pending EXCEPT ![Identity(p)] = <<>>] /\ At(p, "retiring")
    BY <1>2, <1>3, <1>4 DEF RetirePending
  <1>6. n = Identity(p)
    BY <1>0, <1>5
  <1>7. batch[session[p].want] = "synced" /\ batch' = batch
    BY <1>3, <1>4, <1>5 DEF FireInv, RetiresDurable, RetirePending
  <1> QED
    BY <1>6, <1>7 DEF Identity

(* "Retire pending algebra only after its exact completed batch is durable" *)
(* (fire_session.hpp:32), for any number of processes and losses.           *)
THEOREM RetiredBehindTheBatch == FireSpec => RetiredWhenDurable
  <1>1. FireInv /\ [FireNext]_fireVars =>
          [\A n \in Name :
             pending[n] # <<>> /\ pending'[n] = <<>> /\ outages' = outages
               => batch'[n[1]] = "synced"]_fireVars
    BY RetiringStep
  <1> QED
    BY <1>1, FireInvariant, PTL DEF FireSpec, RetiredWhenDurable

------------------------------------------------------------------------------
(* Batches.                                                                *)
Half(m) == (m + 1) \div 2

(* A set that halving does not leave.                                      *)
Halved(S) == \A m \in S : Half(m) \in S

LEMMA Halving == \A m \in Nat \ {0} : Half(m) \in 1..m
BY DEF Half

LEMMA ReductionsDef ==
  ASSUME NEW b \in Nat
  PROVE  Reductions(b) = {n \in 1..b : \A S \in SUBSET (1..b) : b \in S /\ Halved(S) => n \in S}
<1> DEFINE Low == {n \in 1..b : \A S \in SUBSET (1..b) : b \in S /\ Halved(S) => n \in S}
<1>1. ASSUME NEW n \in Reductions(b) PROVE n \in Low
  <2>1. n \in 1..b
    BY <1>1 DEF Reductions
  <2>2. ASSUME NEW S \in SUBSET (1..b), b \in S, Halved(S), n \notin S PROVE FALSE
    <3>1. S \in SUBSET ((1..b) \ {n})
      BY <2>2
    <3>2. \E m \in S : (m + 1) \div 2 \notin S
      BY <1>1, <2>2, <3>1 DEF Reductions
    <3> QED  BY <2>2, <3>2 DEF Halved, Half
  <2> QED  BY <2>1, <2>2
<1>2. ASSUME NEW n \in Low PROVE n \in Reductions(b)
  <2>1. ASSUME NEW S \in SUBSET ((1..b) \ {n}), b \in S PROVE \E m \in S : (m + 1) \div 2 \notin S
    <3>1. S \in SUBSET (1..b) /\ n \notin S
      BY <2>1
    <3>2. ~Halved(S)
      BY <1>2, <2>1, <3>1
    <3> QED  BY <3>2 DEF Halved, Half
  <2> QED  BY <1>2, <2>1 DEF Reductions
<1> QED  BY <1>1, <1>2

(* The reductions of a batch are the least closed set that holds it.       *)
LEMMA ReductionsClosed ==
  ASSUME NEW b \in Nat \ {0}
  PROVE  Reductions(b) \subseteq 1..b /\ b \in Reductions(b) /\ Halved(Reductions(b))
<1>1. Reductions(b) = {n \in 1..b : \A S \in SUBSET (1..b) : b \in S /\ Halved(S) => n \in S}
  BY ReductionsDef
<1>2. ASSUME NEW m \in Reductions(b) PROVE Half(m) \in Reductions(b)
  <2>1. m \in 1..b /\ Half(m) \in 1..b
    BY <1>1, <1>2, Halving
  <2>2. ASSUME NEW S \in SUBSET (1..b), b \in S, Halved(S) PROVE Half(m) \in S
    <3>1. m \in S
      BY <1>1, <1>2, <2>2
    <3> QED  BY <2>2, <3>1 DEF Halved
  <2> QED  BY <1>1, <2>1, <2>2
<1> QED  BY <1>1, <1>2 DEF Halved

LEMMA ReductionsLeast ==
  ASSUME NEW b \in Nat \ {0}, NEW S, b \in S, \A m \in 1..b : m \in S => Half(m) \in S
  PROVE  Reductions(b) \subseteq S
<1> DEFINE T == {m \in 1..b : m \in S}
<1>1. T \in SUBSET (1..b) /\ b \in T
  OBVIOUS
<1>2. Halved(T)
  BY Halving DEF Halved
<1>3. \A n \in Reductions(b) : n \in T
  <2> HIDE DEF T
  <2> QED  BY <1>1, <1>2, ReductionsDef
<1> QED  BY <1>3

LEMMA ReductionsWithin ==
  ASSUME NEW b \in Nat \ {0}, NEW t \in Reductions(b)
  PROVE  t \in Nat \ {0} /\ Reductions(t) \subseteq Reductions(b)
<1>1. t \in Nat \ {0}
  BY ReductionsClosed
<1>2. \A m \in Reductions(b) : Half(m) \in Reductions(b)
  BY ReductionsClosed DEF Halved
<1> QED  BY <1>1, <1>2, ReductionsLeast

LEMMA ReductionsStep ==
  ASSUME NEW b \in Nat \ {0}
  PROVE  Reductions(b) = {b} \cup Reductions(Half(b))
<1>1. Half(b) \in 1..b /\ Half(b) \in Nat \ {0}
  BY Halving
<1>2. Half(b) \in Reductions(b) /\ b \in Reductions(b)
  BY ReductionsClosed DEF Halved
<1>3. Reductions(Half(b)) \subseteq Reductions(b)
  BY <1>2, ReductionsWithin
<1>4. \A m \in {b} \cup Reductions(Half(b)) : Half(m) \in {b} \cup Reductions(Half(b))
  BY <1>1, ReductionsClosed DEF Halved
<1>5. Reductions(b) \subseteq {b} \cup Reductions(Half(b))
  <2> DEFINE T == {b} \cup Reductions(Half(b))
  <2>1. b \in T /\ \A m \in 1..b : m \in T => Half(m) \in T
    BY <1>4
  <2> HIDE DEF T
  <2>2. Reductions(b) \subseteq T
    BY <2>1, ReductionsLeast
  <2> QED  BY <2>2 DEF T
<1> QED  BY <1>2, <1>3, <1>5

(* Of two reductions, the smaller is one of the larger.                    *)
LEMMA ReductionsOrdered ==
  ASSUME NEW b \in Nat \ {0}, NEW x \in Reductions(b), NEW y \in Reductions(b), x <= y
  PROVE  x \in Reductions(y)
<1> DEFINE S == {u \in Reductions(b) : \A v \in Reductions(b) :
                   /\ u <= v => u \in Reductions(v)
                   /\ v < u => v \in Reductions(Half(u))}
<1>0. Reductions(b) \subseteq 1..b /\ \A u \in Reductions(b) : u \in Nat \ {0} /\ Half(u) \in Reductions(b) /\ Half(u) <= u
  BY ReductionsClosed, Halving DEF Halved
<1>1. b \in S
  <2>1. b \in Reductions(b)
    BY ReductionsClosed
  <2>2. \A v \in Reductions(b) : b <= v => v = b
    BY <1>0
  <2>3. \A v \in Reductions(b) : v < b => v \in Reductions(Half(b))
    BY ReductionsStep, <1>0
  <2> QED  BY <2>1, <2>2, <2>3
<1>2. ASSUME NEW u \in 1..b, u \in S PROVE Half(u) \in S
  <2> DEFINE z == Half(u)
  <2>1. z \in Reductions(b) /\ z \in Nat \ {0} /\ z <= u /\ u \in Nat
    BY <1>0, <1>2
  <2>2. ASSUME NEW v \in Reductions(b), z <= v PROVE z \in Reductions(v)
    <3>1. v \in Nat \ {0}
      BY <1>0
    <3>2. CASE u <= v
      <4>1. u \in Reductions(v)
        BY <1>2, <3>2
      <4> QED  BY <4>1, <3>1, ReductionsClosed DEF Halved
    <3>3. CASE v < u
      <4>1. v \in Reductions(z)
        BY <1>2, <3>3
      <4>2. v = z
        BY <4>1, <2>1, <2>2, <3>1, ReductionsClosed
      <4> QED  BY <4>1, <4>2
    <3> QED  BY <2>1, <3>1, <3>2, <3>3
  <2>3. ASSUME NEW v \in Reductions(b), v < z PROVE v \in Reductions(Half(z))
    <3>1. v \in Nat /\ v < u
      BY <1>0, <2>1, <2>3
    <3>2. v \in Reductions(z)
      BY <1>2, <3>1
    <3>3. Reductions(z) = {z} \cup Reductions(Half(z))
      BY <2>1, ReductionsStep
    <3> QED  BY <2>1, <2>3, <3>1, <3>2, <3>3
  <2> HIDE DEF z
  <2>4. z \in S
    BY <2>1, <2>2, <2>3
  <2> QED  BY <2>4 DEF z
<1>3. Reductions(b) \subseteq S
  <2> HIDE DEF S
  <2> QED  BY <1>1, <1>2, ReductionsLeast
<1> QED  BY <1>3

LEMMA Least ==
  ASSUME NEW S \in SUBSET Nat, S # {}
  PROVE  \E t \in S : \A u \in S : t <= u
<1>1. PICK t \in S : \A u \in S : <<u, t>> \notin OpToRel(<, Nat)
  BY WFMin, NatLessThanWellFounded, Zenon
<1>2. \A u \in S : ~(u < t)
  <2> TAKE u \in S
  <2>1. u \in Nat /\ t \in Nat /\ <<u, t>>[1] = u /\ <<u, t>>[2] = t /\ <<u, t>> \in Nat \X Nat
    OBVIOUS
  <2> QED  BY <1>1, <2>1, Zenon DEF OpToRel
<1>3. \A u \in S : t <= u
  BY <1>2
<1> QED  BY <1>3

(* Fitting is the largest reduction that fits, and 0 if none does.         *)
LEMMA FittingIs ==
  ASSUME NEW b \in Nat, NEW fits \in Nat
  PROVE  /\ Fitting(b, fits) \in Nat /\ Fitting(b, fits) <= b
         /\ Fitting(b, fits) # 0 => Fitting(b, fits) \in Reductions(b) /\ Fitting(b, fits) <= fits
         /\ \A n \in Reductions(b) : n <= fits => n <= Fitting(b, fits)
<1> DEFINE S == {0} \cup {n \in Reductions(b) : n <= fits}
           D == {b - x : x \in S}
<1>1. S \in SUBSET (0..b)
  BY DEF Reductions
<1>2. D \in SUBSET Nat /\ D # {}
  BY <1>1
<1>4. PICK t \in D : \A u \in D : t <= u
  <2> HIDE DEF D
  <2> QED  BY <1>2, Least
<1>5. PICK x \in S : t = b - x
  OBVIOUS
<1>6. \A y \in S : y <= x
  <2> TAKE y \in S
  <2>1. b - y \in D
    OBVIOUS
  <2>2. b - x <= b - y
    BY <1>4, <1>5, <2>1
  <2> QED  BY <1>1, <2>2
<1>7. Fitting(b, fits) \in S /\ \A y \in S : y <= Fitting(b, fits)
  BY <1>6 DEF Fitting, Max
<1> QED  BY <1>1, <1>7

(* Reducing a batch for a leg, and then for one that wants no larger one,  *)
(* is reducing it for the latter.                                          *)
LEMMA FittingTwice ==
  ASSUME NEW b \in Nat, NEW f \in Nat, NEW g \in Nat, Fitting(b, f) # 0,
         Fitting(b, g) <= Fitting(b, f)
  PROVE  Fitting(Fitting(b, f), g) = Fitting(b, g)
<1>1. PICK s : s = Fitting(b, f)
  OBVIOUS
<1>2. PICK t : t = Fitting(b, g)
  OBVIOUS
<1>3. s \in Reductions(b) /\ s \in Nat \ {0} /\ b \in Nat \ {0} /\ t <= s
  BY <1>1, <1>2, FittingIs
<1>4. PICK u : u = Fitting(s, g)
  OBVIOUS
<1>5. /\ t \in Nat /\ (t # 0 => t \in Reductions(b) /\ t <= g)
      /\ \A n \in Reductions(b) : n <= g => n <= t
  BY <1>2, FittingIs
<1>6. /\ u \in Nat /\ (u # 0 => u \in Reductions(s) /\ u <= g)
      /\ \A n \in Reductions(s) : n <= g => n <= u
  BY <1>3, <1>4, FittingIs
<1>7. t <= u
  BY <1>3, <1>5, <1>6, ReductionsOrdered
<1>8. u <= t
  <2>1. CASE u # 0
    BY <1>3, <1>5, <1>6, <2>1, ReductionsWithin
  <2> QED  BY <1>5, <1>6, <2>1
<1>9. u = t
  BY <1>5, <1>6, <1>7, <1>8
<1> QED  BY <1>1, <1>2, <1>4, <1>9

------------------------------------------------------------------------------
(* Where a run stands on the path.                                         *)
ChartRecord == [leg : Nat, from : Nat, to : Nat, batch : Nat]

Continuations == [leg : Nat, center : Nat, charts : Nat, path : Seq(ChartRecord)]

Walks ==
  [at : {"idle", "leg", "chart", "trial", "save", "sync", "done", "failed"},
   leg : Nat, center : Nat, charts : Nat, path : Seq(ChartRecord),
   batch : Nat, next : Nat, halvings : Nat]

AdjointTypes ==
  /\ problem \in Problems /\ stored \in [Runner -> BOOLEAN]
  /\ walk \in [Runner -> Walks]
  /\ file \in Continuations /\ survivors \subseteq Continuations

(* The charts of path lead to center on this leg, the last count of them   *)
(* on it.                                                                  *)
Here(leg, center) == [leg |-> leg, from |-> center, to |-> Ticks]

Placed(p, path, leg, center, count) ==
  /\ leg \in 1..(Len(p.legs) + 1) /\ center \in 0..Ticks
  /\ \A n \in DOMAIN path :
       /\ path[n].leg \in Moving(p) /\ Follows(p, Before(path, n), path[n])
       /\ path[n].to - path[n].from \in 1..p.legs[path[n].leg].reach[path[n].from]
       /\ n + p.charts \in DOMAIN path => path[n + p.charts].leg # path[n].leg
  /\ count <= p.charts /\ count <= Len(path)
  /\ \A n \in DOMAIN path :
       path[n].leg <= leg /\ (path[n].leg = leg <=> n > Len(path) - count)
  /\ Follows(p, Before(path, Len(path) + 1), Here(leg, center))

OnMove(p, r) == r.leg \in Moving(p) /\ r.center < Ticks

Sane(p, r) ==
  /\ r.at = "leg" => Placed(p, r.path, r.leg, r.center, r.charts)
  /\ r.at = "chart" => OnMove(p, r) /\ Placed(p, r.path, r.leg, r.center, r.charts)
  /\ r.at = "trial" =>
       /\ OnMove(p, r) /\ r.charts \in 1..p.charts
       /\ Placed(p, r.path, r.leg, r.center, r.charts - 1)
       /\ r.next <= Ticks /\ r.next - r.center \in 1..p.legs[r.leg].reach[r.center]
  /\ r.at \in {"save", "sync"} =>
       r.leg \in Moving(p) /\ Placed(p, r.path, r.leg, r.next, r.charts)
  /\ r.at = "done" => Walked(p, r.path)

LEMMA ProblemTypes ==
  ASSUME NEW p \in Problems
  PROVE  /\ Ticks \in Nat \ {0} /\ p.rows \in Nat \ {0} /\ p.charts \in Nat /\ p.halvings \in Nat
         /\ p.legs \in Seq(LegRecord) /\ Len(p.legs) \in Nat /\ DOMAIN p.legs = 1..Len(p.legs)
         /\ Moving(p) \subseteq 1..Len(p.legs)
         /\ \A i \in 1..Len(p.legs) :
              /\ p.legs[i].still \in BOOLEAN /\ p.legs[i].fits \in Nat
              /\ p.legs[i].reach \in [0..(Ticks - 1) -> Nat]
<1>1. /\ Ticks \in Nat \ {0} /\ p.rows \in Nat \ {0} /\ p.charts \in Nat /\ p.halvings \in Nat
      /\ p.legs \in Seq(LegRecord)
  BY ProblemsAssumption
<1>2. PICK legs \in Seq(LegRecord) : legs = p.legs
  BY <1>1
<1>3. \A i \in 1..Len(legs) : legs[i] \in LegRecord
  OBVIOUS
<1>4. \A i \in 1..Len(legs) :
        /\ legs[i].still \in BOOLEAN /\ legs[i].fits \in Nat
        /\ legs[i].reach \in [0..(Ticks - 1) -> Nat]
  BY <1>3 DEF LegRecord
<1>5. Len(legs) \in Nat /\ DOMAIN legs = 1..Len(legs)
  OBVIOUS
<1> QED  BY <1>1, <1>2, <1>4, <1>5 DEF Moving

LEMMA PathTypes ==
  ASSUME NEW path \in Seq(ChartRecord)
  PROVE  /\ Len(path) \in Nat /\ DOMAIN path = 1..Len(path)
         /\ \A n \in 1..Len(path) :
              /\ path[n] \in ChartRecord /\ path[n].leg \in Nat /\ path[n].from \in Nat
              /\ path[n].to \in Nat
<1>1. \A n \in 1..Len(path) : path[n] \in ChartRecord
  OBVIOUS
<1> QED  BY <1>1 DEF ChartRecord

(* A chart farther along the leg.                                          *)
LEMMA ChartAdded ==
  ASSUME NEW p \in Problems, NEW path \in Seq(ChartRecord), NEW leg \in Moving(p),
         NEW center \in Nat, center < Ticks, NEW count \in Nat, count < p.charts,
         NEW next \in Nat, next <= Ticks, next - center \in 1..p.legs[leg].reach[center],
         NEW size \in Nat, Placed(p, path, leg, center, count)
  PROVE  Placed(p, Append(path, [leg |-> leg, from |-> center, to |-> next, batch |-> size]),
                leg, next, count + 1)
<1> DEFINE c == [leg |-> leg, from |-> center, to |-> next, batch |-> size]
           q == Append(path, c)
           k == Len(path)
<1>1. leg \in Nat /\ p.charts \in Nat /\ c.leg = leg /\ c.from = center /\ c.to = next
  BY ProblemTypes
<1>2. /\ k \in Nat /\ DOMAIN path = 1..k /\ Len(q) = k + 1 /\ DOMAIN q = 1..(k + 1)
      /\ q[k + 1] = c /\ \A n \in 1..k : q[n] = path[n]
  OBVIOUS
<1>3. \A n \in 1..(k + 1) : Before(q, n) = Before(path, n)
  BY <1>2 DEF Before
<1>4. Before(q, k + 2) = c
  BY <1>2 DEF Before
<1>5. \A n \in 1..k : path[n].leg \in Nat
  BY PathTypes
<1> HIDE DEF c, q, k
<1>6. ASSUME NEW n \in 1..(k + 1)
      PROVE  /\ q[n].leg \in Moving(p) /\ Follows(p, Before(q, n), q[n])
             /\ q[n].to - q[n].from \in 1..p.legs[q[n].leg].reach[q[n].from]
             /\ n + p.charts \in 1..(k + 1) => q[n + p.charts].leg # q[n].leg
  <2>1. CASE n = k + 1
    <3>1. Follows(p, Before(path, k + 1), Here(leg, center))
      BY <1>2 DEF Placed, k
    <3>2. Follows(p, Before(q, n), q[n])
      BY <1>1, <1>2, <1>3, <2>1, <3>1 DEF Follows, Here
    <3>3. n + p.charts \notin 1..(k + 1)
      BY <1>1, <1>2, <2>1
    <3> QED  BY <1>1, <1>2, <2>1, <3>2, <3>3
  <2>2. CASE n \in 1..k
    <3>1. /\ path[n].leg \in Moving(p) /\ Follows(p, Before(path, n), path[n])
          /\ path[n].to - path[n].from \in 1..p.legs[path[n].leg].reach[path[n].from]
          /\ n + p.charts \in 1..k => path[n + p.charts].leg # path[n].leg
          /\ path[n].leg = leg <=> n > k - count
      BY <1>2, <2>2 DEF Placed, k
    <3>2. ASSUME n + p.charts = k + 1 PROVE path[n].leg # leg
      BY <1>1, <1>2, <3>1, <3>2
    <3>3. n + p.charts \in 1..(k + 1) => q[n + p.charts].leg # q[n].leg
      <4>1. CASE n + p.charts \in 1..k
        BY <1>2, <2>2, <3>1, <4>1
      <4>2. CASE n + p.charts = k + 1
        BY <1>1, <1>2, <2>2, <3>2, <4>2
      <4> QED  BY <1>1, <1>2, <2>2, <4>1, <4>2
    <3> QED  BY <1>2, <1>3, <2>2, <3>1, <3>3
  <2> QED  BY <1>2, <2>1, <2>2
<1>7. ASSUME NEW n \in 1..(k + 1)
      PROVE  q[n].leg <= leg /\ (q[n].leg = leg <=> n > (k + 1) - (count + 1))
  <2>1. CASE n = k + 1
    BY <1>1, <1>2, <2>1
  <2>2. CASE n \in 1..k
    BY <1>2, <2>2 DEF Placed, k
  <2> QED  BY <1>2, <2>1, <2>2
<1>8. leg \in 1..(Len(p.legs) + 1) /\ next \in 0..Ticks /\ count + 1 <= p.charts /\ count + 1 <= k + 1
  BY <1>1, <1>2, ProblemTypes DEF Placed, k
<1>9. Follows(p, c, Here(leg, next))
  BY <1>1 DEF Follows, Here
<1>10. Before(q, Len(q) + 1) = c /\ DOMAIN q = 1..(k + 1) /\ Len(q) = k + 1
  BY <1>2, <1>4
<1>11. Placed(p, q, leg, next, count + 1)
  <2> HIDE DEF Before, Follows, Here
  <2> QED  BY <1>6, <1>7, <1>8, <1>9, <1>10 DEF Placed
<1> QED  BY <1>11 DEF c, q

(* The start of the next leg, from the end of this one or if it is still.  *)
LEMMA LegPassed ==
  ASSUME NEW p \in Problems, NEW path \in Seq(ChartRecord), NEW leg \in 1..Len(p.legs),
         NEW center, NEW count, Placed(p, path, leg, center, count),
         p.legs[leg].still \/ center = Ticks
  PROVE  Placed(p, path, leg + 1, 0, 0)
<1> DEFINE c == Before(path, Len(path) + 1)
<1>1. /\ Ticks \in Nat \ {0} /\ Moving(p) \subseteq 1..Len(p.legs) /\ Len(p.legs) \in Nat
      /\ p.charts \in Nat /\ Len(path) \in Nat /\ DOMAIN path = 1..Len(path)
  BY ProblemTypes
<1>2. c.leg \in Moving(p) \cup {0} /\ Follows(p, c, Here(leg, center))
  BY <1>1 DEF Placed, Before, Gate
<1> HIDE DEF c
<1>3. c.leg \in Nat
  BY <1>1, <1>2
<1>4. c.leg = leg => center = Ticks /\ c.to = Ticks
  BY <1>2 DEF Follows, Here, Moving
<1>5. c.leg # leg => c.to = Ticks /\ c.leg < leg /\ center = 0 /\ \A i \in Moving(p) : i <= c.leg \/ leg <= i
  BY <1>2 DEF Follows, Here
<1>6. c.leg # leg => leg \notin Moving(p)
  BY <1>1, <1>5 DEF Moving
<1>7. c.to = Ticks /\ c.leg < leg + 1 /\ \A i \in Moving(p) : i <= c.leg \/ leg + 1 <= i
  BY <1>1, <1>3, <1>4, <1>5, <1>6
<1>8. Follows(p, c, Here(leg + 1, 0))
  BY <1>3, <1>7 DEF Follows, Here
<1>9. \A n \in DOMAIN path : path[n].leg \in Nat /\ path[n].leg <= leg
  BY PathTypes DEF Placed
<1>10. \A n \in DOMAIN path : path[n].leg <= leg + 1 /\ (path[n].leg = leg + 1 <=> n > Len(path) - 0)
  BY <1>1, <1>9
<1> QED  BY <1>1, <1>8, <1>10 DEF Placed, c

LEMMA EndReached ==
  ASSUME NEW p \in Problems, NEW path \in Seq(ChartRecord), NEW leg, NEW center, NEW count,
         Placed(p, path, leg, center, count), leg > Len(p.legs)
  PROVE  Walked(p, path)
<1> DEFINE c == Before(path, Len(path) + 1)
<1>1. /\ Ticks \in Nat \ {0} /\ Moving(p) \subseteq 1..Len(p.legs) /\ Len(p.legs) \in Nat
      /\ Len(path) \in Nat /\ DOMAIN path = 1..Len(path)
  BY ProblemTypes
<1>2. leg = Len(p.legs) + 1
  BY <1>1 DEF Placed
<1>3. c.leg \in Moving(p) \cup {0} /\ Follows(p, c, Here(leg, center))
  BY <1>1 DEF Placed, Before, Gate
<1> HIDE DEF c
<1>4. Follows(p, c, Gate(Len(p.legs) + 1))
  BY <1>1, <1>2, <1>3 DEF Follows, Here, Gate
<1> QED  BY <1>4 DEF Placed, Walked, c

------------------------------------------------------------------------------
(* The walk of a run that is never cut short, place by place.              *)
Place(at, leg, center, charts, path, next, halvings) ==
  [at |-> at, leg |-> leg, center |-> center, charts |-> charts, path |-> path,
   next |-> next, halvings |-> halvings]

Spot(leg, center, charts, path) == Place("leg", leg, center, charts, path, 0, 0)

Over(at, path) == Place(at, 0, 0, 0, path, 0, 0)

FirstReach(p, leg, center) == Min({center + p.legs[leg].reach[center], Ticks})

LegBatch(p, leg) == Fitting(p.rows, p.legs[leg].fits)

ThenLeg(p, leg, center, charts, path) ==
  IF leg > Len(p.legs) THEN Over("done", path)
  ELSE IF p.legs[leg].still \/ center = Ticks THEN Spot(leg + 1, 0, 0, path)
  ELSE IF LegBatch(p, leg) = 0 THEN Over("failed", path)
  ELSE Place("chart", leg, center, charts, path, 0, 0)

ThenChart(p, leg, center, charts, path) ==
  IF charts = p.charts \/ FirstReach(p, leg, center) = center THEN Over("failed", path)
  ELSE Place("trial", leg, center, charts + 1, path, FirstReach(p, leg, center), 0)

ThenTrial(p, leg, center, charts, path, next, halvings) ==
  IF p.halvings = 0 \/ next - center <= p.legs[leg].calm[LegBatch(p, leg)]
  THEN Spot(leg, next, charts,
            Append(path, [leg |-> leg, from |-> center, to |-> next, batch |-> LegBatch(p, leg)]))
  ELSE IF halvings >= p.halvings \/ center + (next - center) \div 2 = center THEN Over("failed", path)
  ELSE Place("trial", leg, center, charts, path, center + (next - center) \div 2, halvings + 1)

Then(p, c) ==
  IF c.at = "leg" THEN ThenLeg(p, c.leg, c.center, c.charts, c.path)
  ELSE IF c.at = "chart" THEN ThenChart(p, c.leg, c.center, c.charts, c.path)
  ELSE ThenTrial(p, c.leg, c.center, c.charts, c.path, c.next, c.halvings)

Leads(p, f, n) ==
  /\ f[1] = Spot(1, 0, 0, <<>>)
  /\ \A i \in 1..(n - 1) : f[i].at \notin {"done", "failed"} /\ f[i + 1] = Then(p, f[i])

OnWay(p, c) == \E n \in Nat \ {0} : \E f : Leads(p, f, n) /\ f[n] = c

LEMMA OnWayStarts == \A p : OnWay(p, Spot(1, 0, 0, <<>>))
<1> TAKE p
<1> DEFINE f == [i \in {1} |-> Spot(1, 0, 0, <<>>)]
<1>1. f[1] = Spot(1, 0, 0, <<>>)
  OBVIOUS
<1> HIDE DEF f
<1>2. Leads(p, f, 1)
  BY <1>1 DEF Leads
<1> QED  BY <1>1, <1>2 DEF OnWay

LEMMA OnWayGoesOn ==
  ASSUME NEW p, NEW c, OnWay(p, c), c.at \notin {"done", "failed"}
  PROVE  OnWay(p, Then(p, c))
<1>1. PICK n \in Nat \ {0} : \E f : Leads(p, f, n) /\ f[n] = c
  BY DEF OnWay
<1>2. PICK f : Leads(p, f, n) /\ f[n] = c
  BY <1>1
<1>3. PICK d : d = Then(p, c)
  OBVIOUS
<1> DEFINE g == [i \in 1..(n + 1) |-> IF i <= n THEN f[i] ELSE d]
<1>4. g[n + 1] = d /\ \A i \in 1..n : g[i] = f[i]
  OBVIOUS
<1> HIDE DEF g
<1>5. g[1] = Spot(1, 0, 0, <<>>)
  BY <1>2, <1>4 DEF Leads
<1>6. \A i \in 1..n : g[i].at \notin {"done", "failed"} /\ g[i + 1] = Then(p, g[i])
  <2> TAKE i \in 1..n
  <2>1. CASE i = n
    BY <1>2, <1>3, <1>4, <2>1
  <2>2. CASE i \in 1..(n - 1)
    <3>1. f[i].at \notin {"done", "failed"} /\ f[i + 1] = Then(p, f[i])
      BY <1>2, <2>2 DEF Leads
    <3> QED  BY <1>4, <2>2, <3>1
  <2> QED  BY <2>1, <2>2
<1>7. Leads(p, g, n + 1)
  BY <1>5, <1>6 DEF Leads
<1> QED  BY <1>3, <1>4, <1>7 DEF OnWay

(* There is only one way, and it has one end.                              *)
LEMMA WaysAgree ==
  ASSUME NEW p, NEW n \in Nat \ {0}, NEW m \in Nat \ {0}, NEW f, NEW g,
         Leads(p, f, n), Leads(p, g, m)
  PROVE  \A i \in 1..n : i <= m => f[i] = g[i]
<1> DEFINE S == {i \in 1..n : i <= m /\ f[i] # g[i]}
<1> SUFFICES ASSUME S # {} PROVE FALSE
  OBVIOUS
<1>1. S \in SUBSET Nat
  OBVIOUS
<1>2. PICK t \in S : \A u \in S : t <= u
  BY <1>1, Least
<1>3. t # 1
  BY <1>2 DEF Leads
<1>4. t - 1 \notin S /\ t - 1 \in 1..n /\ t - 1 <= m
  BY <1>2, <1>3
<1>5. f[t - 1] = g[t - 1]
  BY <1>4
<1>6. t - 1 \in 1..(n - 1) /\ t - 1 \in 1..(m - 1) /\ (t - 1) + 1 = t
  BY <1>2, <1>3
<1>7. f[t] = Then(p, f[t - 1]) /\ g[t] = Then(p, g[t - 1])
  BY <1>6 DEF Leads
<1> QED  BY <1>2, <1>5, <1>7

LEMMA OneEnd ==
  ASSUME NEW p, NEW c, NEW d, OnWay(p, c), OnWay(p, d),
         c.at \in {"done", "failed"}, d.at \in {"done", "failed"}
  PROVE  c = d
<1>1. PICK n \in Nat \ {0} : \E f : Leads(p, f, n) /\ f[n] = c
  BY DEF OnWay
<1>2. PICK f : Leads(p, f, n) /\ f[n] = c
  BY <1>1
<1>3. PICK m \in Nat \ {0} : \E g : Leads(p, g, m) /\ g[m] = d
  BY DEF OnWay
<1>4. PICK g : Leads(p, g, m) /\ g[m] = d
  BY <1>3
<1>5. \A i \in 1..n : i <= m => f[i] = g[i]
  BY <1>2, <1>4, WaysAgree
<1>6. ~(n < m)
  <2> SUFFICES ASSUME n < m PROVE FALSE
    OBVIOUS
  <2>1. n \in 1..(m - 1) /\ n \in 1..n /\ n <= m
    OBVIOUS
  <2>2. g[n].at \notin {"done", "failed"}
    BY <1>4, <2>1 DEF Leads
  <2> QED  BY <1>2, <1>5, <2>1, <2>2
<1>7. ~(m < n)
  <2> SUFFICES ASSUME m < n PROVE FALSE
    OBVIOUS
  <2>1. m \in 1..(n - 1) /\ m \in 1..n /\ m <= m
    OBVIOUS
  <2>2. f[m].at \notin {"done", "failed"}
    BY <1>2, <2>1 DEF Leads
  <2> QED  BY <1>4, <1>5, <2>1, <2>2
<1>8. n = m /\ n \in 1..n
  BY <1>6, <1>7
<1> QED  BY <1>2, <1>4, <1>5, <1>8

------------------------------------------------------------------------------
(* Where a walk is on the way; a chart that was accepted is behind it.     *)
PlaceOf(r) ==
  CASE r.at = "leg" -> Spot(r.leg, r.center, r.charts, r.path)
    [] r.at = "chart" -> Place("chart", r.leg, r.center, r.charts, r.path, 0, 0)
    [] r.at = "trial" -> Place("trial", r.leg, r.center, r.charts, r.path, r.next, r.halvings)
    [] r.at \in {"save", "sync"} -> Spot(r.leg, r.next, r.charts, r.path)
    [] r.at \in {"done", "failed"} -> Over(r.at, r.path)

(* The batch is the one of the options, or what an earlier leg made of it; *)
(* on a leg, what fits it.                                                 *)
Sized(p, r) ==
  /\ r.at = "leg" =>
       \/ r.batch = p.rows
       \/ r.batch # 0 /\ \E i \in Moving(p) : i < r.leg /\ r.batch = LegBatch(p, i)
  /\ r.at \in {"chart", "trial", "save", "sync"} => r.batch # 0 /\ r.batch = LegBatch(p, r.leg)

Alike(p, r) == r.at # "idle" => Sized(p, r) /\ OnWay(p, PlaceOf(r))

Resumable(p, s) ==
  /\ Placed(p, s.path, s.leg, s.center, s.charts)
  /\ BatchesShrink(p) => OnWay(p, Spot(s.leg, s.center, s.charts, s.path))

Runs(p, r) == Sane(p, r) /\ (BatchesShrink(p) => Alike(p, r))

AdjointInv ==
  /\ AdjointTypes
  /\ \A w \in Runner : Runs(problem, walk[w])
  /\ \A s \in survivors \cup {file} : Resumable(problem, s)

LEMMA Shape ==
  ASSUME NEW r \in Walks
  PROVE  /\ r.at \in {"idle", "leg", "chart", "trial", "save", "sync", "done", "failed"}
         /\ r.leg \in Nat /\ r.center \in Nat /\ r.charts \in Nat /\ r.path \in Seq(ChartRecord)
         /\ r.batch \in Nat /\ r.next \in Nat /\ r.halvings \in Nat
BY DEF Walks

LEMMA FreshStarts ==
  ASSUME NEW p \in Problems
  PROVE  Scratch \in Continuations /\ Resumable(p, Scratch)
<1>1. /\ Scratch.path = <<>> /\ Scratch.leg = 1 /\ Scratch.center = 0 /\ Scratch.charts = 0
      /\ Scratch \in Continuations
  BY DEF Scratch, Continuations
<1>2. Before(<<>>, 0 + 1) = Gate(0)
  BY DEF Before
<1>3. Follows(p, Gate(0), Here(1, 0))
  BY ProblemTypes DEF Follows, Gate, Here
<1>4. Placed(p, <<>>, 1, 0, 0)
  <2> HIDE DEF Before, Follows, Here, Gate
  <2> QED  BY <1>2, <1>3, ProblemTypes DEF Placed
<1> QED  BY <1>1, <1>4, OnWayStarts DEF Resumable

LEMMA NextLegShape ==
  ASSUME NEW r \in Walks, NEW x, x = NextLeg(r)
  PROVE  /\ x \in Walks /\ x.at = "leg" /\ x.leg = r.leg + 1 /\ x.center = 0 /\ x.charts = 0
         /\ x.path = r.path /\ x.batch = r.batch
<1>1. r.leg + 1 \in Nat
  BY Shape
<1>2. PICK n \in Nat : n = r.leg + 1
  BY <1>1
<1>3. x = [at |-> "leg", leg |-> n, center |-> 0, charts |-> 0, path |-> r.path,
           batch |-> r.batch, next |-> r.next, halvings |-> r.halvings]
  BY <1>2 DEF NextLeg, Walks
<1>4. /\ x \in Walks /\ x.at = "leg" /\ x.leg = n /\ x.center = 0 /\ x.charts = 0
      /\ x.path = r.path /\ x.batch = r.batch
  BY <1>3, Shape DEF Walks
<1> QED  BY <1>2, <1>4

(* At rest and after an exception there is little to say.                  *)
LEMMA RestRuns == \A p : Rest \in Walks /\ Runs(p, Rest)
BY DEF Rest, Walks, Runs, Sane, Alike

LEMMA LegRuns ==
  ASSUME NEW p \in Problems, NEW r \in Walks, r.at = "leg",
         Placed(p, r.path, r.leg, r.center, r.charts),
         BatchesShrink(p) => Sized(p, r) /\ OnWay(p, Spot(r.leg, r.center, r.charts, r.path))
  PROVE  Runs(p, r)
BY DEF Runs, Sane, Alike, PlaceOf

(* Onward from a chart that was accepted.                                  *)
LEMMA OnwardRuns ==
  ASSUME NEW p \in Problems, NEW r \in Walks, r.leg \in Moving(p),
         Placed(p, r.path, r.leg, r.next, r.charts),
         BatchesShrink(p) =>
           /\ r.batch # 0 /\ r.batch = LegBatch(p, r.leg)
           /\ OnWay(p, Spot(r.leg, r.next, r.charts, r.path))
  PROVE  Onward(r) \in Walks /\ Runs(p, Onward(r))
<1>1. /\ r.leg \in Nat /\ r.center \in Nat /\ r.charts \in Nat /\ r.path \in Seq(ChartRecord)
      /\ r.batch \in Nat /\ r.next \in Nat /\ r.halvings \in Nat
  BY Shape
<1>2. r.leg \in 1..Len(p.legs) /\ ~p.legs[r.leg].still /\ Ticks \in Nat \ {0} /\ r.next \in 0..Ticks
  BY ProblemTypes DEF Moving, Placed
<1>3. BatchesShrink(p) => OnWay(p, ThenLeg(p, r.leg, r.next, r.charts, r.path))
  <2> DEFINE c == Spot(r.leg, r.next, r.charts, r.path)
  <2>1. /\ c.at = "leg" /\ c.leg = r.leg /\ c.center = r.next /\ c.charts = r.charts
        /\ c.path = r.path
    BY DEF Spot, Place
  <2>2. Then(p, c) = ThenLeg(p, r.leg, r.next, r.charts, r.path)
    <3> HIDE DEF c
    <3> QED  BY <2>1 DEF Then
  <2> QED  BY <2>1, <2>2, OnWayGoesOn
<1>4. CASE r.next = Ticks
  <2>1. PICK x : x = Onward(r)
    OBVIOUS
  <2>2. /\ x \in Walks /\ x.at = "leg" /\ x.leg = r.leg + 1 /\ x.center = 0 /\ x.charts = 0
        /\ x.path = r.path /\ x.batch = r.batch
    BY <1>4, <2>1, NextLegShape DEF Onward
  <2>3. Placed(p, r.path, r.leg + 1, 0, 0)
    BY <1>1, <1>2, <1>4, LegPassed
  <2>4. ThenLeg(p, r.leg, r.next, r.charts, r.path) = Spot(r.leg + 1, 0, 0, r.path)
    BY <1>1, <1>2, <1>4, ProblemTypes DEF ThenLeg
  <2>5. BatchesShrink(p) => Sized(p, x)
    BY <1>1, <2>2 DEF Sized
  <2>6. Placed(p, x.path, x.leg, x.center, x.charts)
    BY <2>2, <2>3
  <2>7. BatchesShrink(p) => OnWay(p, Spot(x.leg, x.center, x.charts, x.path))
    BY <1>3, <2>2, <2>4
  <2>8. Runs(p, x)
    BY <2>2, <2>5, <2>6, <2>7, LegRuns
  <2> QED  BY <2>1, <2>2, <2>8
<1>5. CASE r.next # Ticks
  <2>1. PICK x : x = Onward(r)
    OBVIOUS
  <2>2. /\ x \in Walks /\ x.at = "chart" /\ x.leg = r.leg /\ x.center = r.next
        /\ x.charts = r.charts /\ x.path = r.path /\ x.batch = r.batch
    BY <1>1, <1>5, <2>1 DEF Onward, Walks
  <2>3. Sane(p, x)
    BY <1>1, <1>2, <1>5, <2>2 DEF Sane, OnMove
  <2>4. ASSUME BatchesShrink(p) PROVE Alike(p, x)
    <3>1. ThenLeg(p, r.leg, r.next, r.charts, r.path) = Place("chart", r.leg, r.next, r.charts, r.path, 0, 0)
      BY <1>1, <1>2, <1>5, <2>4, ProblemTypes DEF ThenLeg
    <3>2. PlaceOf(x) = Place("chart", r.leg, r.next, r.charts, r.path, 0, 0)
      BY <2>2 DEF PlaceOf
    <3>3. Sized(p, x)
      BY <2>2, <2>4 DEF Sized
    <3> QED  BY <1>3, <2>4, <3>1, <3>2, <3>3 DEF Alike
  <2> QED  BY <2>1, <2>2, <2>3, <2>4 DEF Runs
<1> QED  BY <1>4, <1>5

(* A step of one run, which leaves the file alone.                         *)
LEMMA RunMoves ==
  ASSUME AdjointInv, NEW w \in Runner, NEW x \in Walks, Goes(w, x),
         UNCHANGED <<problem, stored, file, survivors>>, Runs(problem, x)
  PROVE  AdjointInv'
<1>1. /\ walk' \in [Runner -> Walks] /\ walk'[w] = x
      /\ \A v \in Runner : v # w => walk'[v] = walk[v]
  BY DEF AdjointInv, AdjointTypes, Goes
<1>2. AdjointTypes'
  BY <1>1 DEF AdjointInv, AdjointTypes
<1>3. \A v \in Runner : Runs(problem', walk'[v])
  BY <1>1 DEF AdjointInv
<1> QED  BY <1>2, <1>3 DEF AdjointInv

LEMMA RunShape ==
  ASSUME AdjointInv, NEW w \in Runner
  PROVE  problem \in Problems /\ Run(w) \in Walks /\ Runs(problem, Run(w))
BY DEF AdjointInv, AdjointTypes, Run

(* An exception where the way ends, too.                                   *)
LEMMA FailedRuns ==
  ASSUME NEW p \in Problems, NEW r \in Walks, BatchesShrink(p) => OnWay(p, Over("failed", r.path))
  PROVE  [r EXCEPT !.at = "failed"] \in Walks /\ Runs(p, [r EXCEPT !.at = "failed"])
<1>1. PICK x : x = [r EXCEPT !.at = "failed"]
  OBVIOUS
<1>2. x \in Walks /\ x.at = "failed" /\ x.path = r.path
  BY <1>1 DEF Walks
<1>3. Sane(p, x)
  BY <1>2 DEF Sane
<1>4. Sized(p, x)
  BY <1>2 DEF Sized
<1>5. PlaceOf(x) = Over("failed", r.path)
  BY <1>2 DEF PlaceOf
<1> QED  BY <1>1, <1>2, <1>3, <1>4, <1>5 DEF Runs, Alike

------------------------------------------------------------------------------
LEMMA AdjointStart == AdjointInit => AdjointInv
<1> SUFFICES ASSUME AdjointInit PROVE AdjointInv
  OBVIOUS
<1>1. problem \in Problems /\ Scratch \in Continuations /\ Resumable(problem, Scratch)
  BY FreshStarts DEF AdjointInit
<1>2. \A w \in Runner : walk[w] = Rest
  BY DEF AdjointInit
<1>3. AdjointTypes
  BY <1>1, RestRuns DEF AdjointInit, AdjointTypes
<1> QED  BY <1>1, <1>2, <1>3, RestRuns DEF AdjointInv, AdjointInit

LEMMA StartKeeps ==
  ASSUME AdjointInv, NEW w \in Runner, Start(w)
  PROVE  AdjointInv'
<1>1. PICK from : from = IF stored[w] THEN file ELSE Scratch
  OBVIOUS
<1>2. problem \in Problems /\ problem.rows \in Nat /\ from \in Continuations /\ Resumable(problem, from)
  BY <1>1, FreshStarts, ProblemTypes DEF AdjointInv, AdjointTypes
<1>3. PICK x : x = [at |-> "leg", leg |-> from.leg, center |-> from.center,
                    charts |-> from.charts, path |-> from.path,
                    batch |-> problem.rows, next |-> 0, halvings |-> 0]
  OBVIOUS
<1>4. Goes(w, x) /\ UNCHANGED <<problem, stored, file, survivors>>
  BY <1>1, <1>3 DEF Start
<1>5. /\ x \in Walks /\ x.at = "leg" /\ x.leg = from.leg /\ x.center = from.center
      /\ x.charts = from.charts /\ x.path = from.path /\ x.batch = problem.rows
  BY <1>2, <1>3 DEF Walks, Continuations
<1>6. Placed(problem, x.path, x.leg, x.center, x.charts)
  BY <1>2, <1>5 DEF Resumable
<1>7. BatchesShrink(problem) => OnWay(problem, Spot(x.leg, x.center, x.charts, x.path))
  BY <1>2, <1>5 DEF Resumable
<1>8. Sized(problem, x)
  BY <1>5 DEF Sized
<1>9. Runs(problem, x)
  BY <1>2, <1>5, <1>6, <1>7, <1>8, LegRuns
<1> QED  BY <1>4, <1>5, <1>9, RunMoves

(* The batch that a leg makes of the one of an earlier leg is the one it   *)
(* would make of the options' batch.                                       *)
LEMMA LegSizes ==
  ASSUME NEW p \in Problems, NEW r \in Walks, r.at = "leg", r.leg \in Moving(p),
         BatchesShrink(p), Sized(p, r)
  PROVE  Fitting(r.batch, p.legs[r.leg].fits) = LegBatch(p, r.leg)
<1>1. /\ p.rows \in Nat /\ \A i \in Moving(p) : p.legs[i].fits \in Nat
  BY ProblemTypes
<1>2. CASE r.batch = p.rows
  BY <1>2 DEF LegBatch
<1>3. CASE r.batch # p.rows
  <2>1. PICK i \in Moving(p) : i < r.leg /\ r.batch # 0 /\ r.batch = LegBatch(p, i)
    BY <1>3 DEF Sized
  <2>2. Fitting(p.rows, p.legs[r.leg].fits) <= Fitting(p.rows, p.legs[i].fits)
    BY <2>1 DEF BatchesShrink
  <2>3. PICK f \in Nat : f = p.legs[i].fits
    BY <1>1, <2>1
  <2>4. PICK g \in Nat : g = p.legs[r.leg].fits
    BY <1>1
  <2>5. r.batch = Fitting(p.rows, f) /\ Fitting(p.rows, f) # 0 /\ Fitting(p.rows, g) <= Fitting(p.rows, f)
    BY <2>1, <2>2, <2>3, <2>4 DEF LegBatch
  <2>6. Fitting(Fitting(p.rows, f), g) = Fitting(p.rows, g)
    BY <1>1, <2>5, FittingTwice
  <2> QED  BY <2>4, <2>5, <2>6 DEF LegBatch
<1> QED  BY <1>2, <1>3

LEMMA EnterLegKeeps ==
  ASSUME AdjointInv, NEW w \in Runner, EnterLeg(w)
  PROVE  AdjointInv'
<1>1. PICK p : p = problem
  OBVIOUS
<1>2. PICK r : r = Run(w)
  OBVIOUS
<1>3. p \in Problems /\ r \in Walks /\ Runs(p, r) /\ r.at = "leg"
  BY <1>1, <1>2, RunShape DEF EnterLeg
<1>4. /\ r.leg \in Nat /\ r.center \in Nat /\ r.charts \in Nat /\ r.path \in Seq(ChartRecord)
      /\ r.batch \in Nat
  BY <1>3, Shape
<1>5. /\ Ticks \in Nat \ {0} /\ Len(p.legs) \in Nat /\ DOMAIN p.legs = 1..Len(p.legs) /\ p.rows \in Nat
      /\ \A i \in 1..Len(p.legs) : p.legs[i].fits \in Nat
  BY <1>3, ProblemTypes
<1>6. Placed(p, r.path, r.leg, r.center, r.charts)
  BY <1>3 DEF Runs, Sane
<1>7. r.leg \in 1..(Len(p.legs) + 1) /\ r.center \in 0..Ticks
  BY <1>6 DEF Placed
<1>8. BatchesShrink(p) => Sized(p, r) /\ OnWay(p, ThenLeg(p, r.leg, r.center, r.charts, r.path))
  <2> SUFFICES ASSUME BatchesShrink(p)
               PROVE  Sized(p, r) /\ OnWay(p, ThenLeg(p, r.leg, r.center, r.charts, r.path))
    OBVIOUS
  <2> DEFINE c == Spot(r.leg, r.center, r.charts, r.path)
  <2>1. Sized(p, r) /\ OnWay(p, c)
    BY <1>3 DEF Runs, Alike, PlaceOf
  <2>2. /\ c.at = "leg" /\ c.leg = r.leg /\ c.center = r.center /\ c.charts = r.charts
        /\ c.path = r.path
    BY DEF Spot, Place
  <2> HIDE DEF c
  <2>3. Then(p, c) = ThenLeg(p, r.leg, r.center, r.charts, r.path)
    BY <2>2 DEF Then
  <2>4. OnWay(p, Then(p, c))
    BY <2>1, <2>2, OnWayGoesOn
  <2> QED  BY <2>1, <2>3, <2>4
<1>9. UNCHANGED <<problem, stored, file, survivors>>
  BY DEF EnterLeg
<1>10. CASE r.leg > Len(p.legs)
  <2>1. PICK x : x = [r EXCEPT !.at = "done"]
    OBVIOUS
  <2>2. Goes(w, x)
    BY <1>1, <1>2, <1>10, <2>1 DEF EnterLeg
  <2>3. x \in Walks /\ x.at = "done" /\ x.path = r.path
    BY <1>3, <2>1 DEF Walks
  <2>4. Walked(p, r.path)
    BY <1>3, <1>4, <1>6, <1>10, EndReached
  <2>5. ThenLeg(p, r.leg, r.center, r.charts, r.path) = Over("done", r.path)
    BY <1>10 DEF ThenLeg
  <2>6. PlaceOf(x) = Over("done", r.path)
    BY <2>3 DEF PlaceOf
  <2>7. Sane(p, x) /\ Sized(p, x)
    BY <2>3, <2>4 DEF Sane, Sized
  <2>8. Runs(p, x)
    BY <1>8, <2>5, <2>6, <2>7 DEF Runs, Alike
  <2> QED  BY <1>1, <1>9, <2>2, <2>3, <2>8, RunMoves
<1>11. CASE ~(r.leg > Len(p.legs)) /\ (p.legs[r.leg].still \/ r.center = Ticks)
  <2>1. PICK x : x = NextLeg(r)
    OBVIOUS
  <2>2. Goes(w, x)
    BY <1>1, <1>2, <1>11, <2>1 DEF EnterLeg, LegOf, Run
  <2>3. /\ x \in Walks /\ x.at = "leg" /\ x.leg = r.leg + 1 /\ x.center = 0 /\ x.charts = 0
        /\ x.path = r.path /\ x.batch = r.batch
    BY <1>3, <2>1, NextLegShape
  <2>4. r.leg \in 1..Len(p.legs)
    BY <1>4, <1>5, <1>7, <1>11
  <2>5. Placed(p, r.path, r.leg + 1, 0, 0)
    BY <1>3, <1>4, <1>6, <1>11, <2>4, LegPassed
  <2>6. Placed(p, x.path, x.leg, x.center, x.charts)
    BY <2>3, <2>5
  <2>7. ThenLeg(p, r.leg, r.center, r.charts, r.path) = Spot(r.leg + 1, 0, 0, r.path)
    BY <1>11 DEF ThenLeg
  <2>8. BatchesShrink(p) => OnWay(p, Spot(x.leg, x.center, x.charts, x.path))
    BY <1>8, <2>3, <2>7
  <2>9. BatchesShrink(p) => Sized(p, x)
    <3> SUFFICES ASSUME BatchesShrink(p), x.batch # p.rows
                 PROVE  x.batch # 0 /\ \E i \in Moving(p) : i < x.leg /\ x.batch = LegBatch(p, i)
      BY <2>3 DEF Sized
    <3>1. r.batch # 0 /\ \E i \in Moving(p) : i < r.leg /\ r.batch = LegBatch(p, i)
      BY <1>3, <1>8, <2>3 DEF Sized
    <3>2. \A i \in Moving(p) : i \in Nat
      BY <1>5 DEF Moving
    <3> QED  BY <1>4, <2>3, <3>1, <3>2
  <2>10. Runs(p, x)
    BY <1>3, <2>3, <2>6, <2>8, <2>9, LegRuns
  <2> QED  BY <1>1, <1>9, <2>2, <2>3, <2>10, RunMoves
<1>12. CASE ~(r.leg > Len(p.legs)) /\ ~(p.legs[r.leg].still \/ r.center = Ticks)
  <2>1. r.leg \in Moving(p) /\ r.center < Ticks
    BY <1>4, <1>5, <1>7, <1>12 DEF Moving
  <2>2. PICK b : b = Fitting(r.batch, p.legs[r.leg].fits)
    OBVIOUS
  <2>3. BatchesShrink(p) => b = LegBatch(p, r.leg)
    BY <1>3, <1>8, <2>1, <2>2, LegSizes
  <2>4. b \in Nat
    BY <1>4, <1>5, <2>1, <2>2, FittingIs DEF Moving
  <2>5. CASE b = 0
    <3>1. Goes(w, [r EXCEPT !.at = "failed"])
      BY <1>1, <1>2, <1>12, <2>2, <2>5 DEF EnterLeg, LegOf, Run, Throws
    <3>2. BatchesShrink(p) => OnWay(p, Over("failed", r.path))
      BY <1>8, <1>12, <2>3, <2>5 DEF ThenLeg
    <3> QED  BY <1>1, <1>3, <1>9, <3>1, <3>2, FailedRuns, RunMoves
  <2>6. CASE b # 0
    <3>1. PICK x : x = [r EXCEPT !.at = "chart", !.batch = b]
      OBVIOUS
    <3>2. Goes(w, x)
      BY <1>1, <1>2, <1>12, <2>2, <2>6, <3>1 DEF EnterLeg, LegOf, Run
    <3>3. /\ x \in Walks /\ x.at = "chart" /\ x.leg = r.leg /\ x.center = r.center
          /\ x.charts = r.charts /\ x.path = r.path /\ x.batch = b
      BY <1>3, <2>4, <3>1 DEF Walks
    <3>4. Sane(p, x)
      BY <1>6, <2>1, <3>3 DEF Sane, OnMove
    <3>5. ASSUME BatchesShrink(p) PROVE Alike(p, x)
      <4>1. ThenLeg(p, r.leg, r.center, r.charts, r.path)
              = Place("chart", r.leg, r.center, r.charts, r.path, 0, 0)
        BY <1>12, <2>3, <2>6, <3>5 DEF ThenLeg
      <4>2. PlaceOf(x) = Place("chart", r.leg, r.center, r.charts, r.path, 0, 0)
        BY <3>3 DEF PlaceOf
      <4>3. Sized(p, x)
        BY <2>3, <2>6, <3>3, <3>5 DEF Sized
      <4> QED  BY <1>8, <3>5, <4>1, <4>2, <4>3 DEF Alike
    <3>6. Runs(p, x)
      BY <3>4, <3>5 DEF Runs
    <3> QED  BY <1>1, <1>9, <3>2, <3>3, <3>6, RunMoves
  <2> QED  BY <2>5, <2>6
<1> QED  BY <1>10, <1>11, <1>12

LEMMA FirstReachIs ==
  ASSUME NEW p \in Problems, NEW leg \in Moving(p), NEW center \in Nat, center < Ticks
  PROVE  /\ FirstReach(p, leg, center) \in Nat /\ FirstReach(p, leg, center) <= Ticks
         /\ FirstReach(p, leg, center) # center =>
              FirstReach(p, leg, center) - center \in 1..p.legs[leg].reach[center]
<1>1. Ticks \in Nat /\ p.legs[leg].reach[center] \in Nat
  BY ProblemTypes
<1>2. PICK n \in Nat : n = p.legs[leg].reach[center]
  BY <1>1
<1>3. Min({center + n, Ticks}) = IF center + n <= Ticks THEN center + n ELSE Ticks
  BY <1>1 DEF Min
<1>4. FirstReach(p, leg, center) = IF center + n <= Ticks THEN center + n ELSE Ticks
  BY <1>2, <1>3 DEF FirstReach
<1>5. PICK f : f = FirstReach(p, leg, center)
  OBVIOUS
<1>6. /\ f \in Nat /\ f <= Ticks
      /\ f # center => f - center \in 1..n
  BY <1>1, <1>2, <1>4, <1>5
<1> QED  BY <1>2, <1>5, <1>6

LEMMA StartChartKeeps ==
  ASSUME AdjointInv, NEW w \in Runner, StartChart(w)
  PROVE  AdjointInv'
<1>1. PICK p : p = problem
  OBVIOUS
<1>2. PICK r : r = Run(w)
  OBVIOUS
<1>3. p \in Problems /\ r \in Walks /\ Runs(p, r) /\ r.at = "chart"
  BY <1>1, <1>2, RunShape DEF StartChart
<1>4. /\ r.leg \in Nat /\ r.center \in Nat /\ r.charts \in Nat /\ r.path \in Seq(ChartRecord)
      /\ r.batch \in Nat /\ p.charts \in Nat
  BY <1>3, Shape, ProblemTypes
<1>5. r.leg \in Moving(p) /\ r.center < Ticks /\ Placed(p, r.path, r.leg, r.center, r.charts)
  BY <1>3 DEF Runs, Sane, OnMove
<1>6. BatchesShrink(p) => Sized(p, r) /\ OnWay(p, ThenChart(p, r.leg, r.center, r.charts, r.path))
  <2> SUFFICES ASSUME BatchesShrink(p)
               PROVE  Sized(p, r) /\ OnWay(p, ThenChart(p, r.leg, r.center, r.charts, r.path))
    OBVIOUS
  <2> DEFINE c == Place("chart", r.leg, r.center, r.charts, r.path, 0, 0)
  <2>1. Sized(p, r) /\ OnWay(p, c)
    BY <1>3 DEF Runs, Alike, PlaceOf
  <2>2. /\ c.at = "chart" /\ c.leg = r.leg /\ c.center = r.center /\ c.charts = r.charts
        /\ c.path = r.path
    BY DEF Place
  <2> HIDE DEF c
  <2>3. Then(p, c) = ThenChart(p, r.leg, r.center, r.charts, r.path)
    BY <2>2 DEF Then
  <2>4. OnWay(p, Then(p, c))
    BY <2>1, <2>2, OnWayGoesOn
  <2> QED  BY <2>1, <2>3, <2>4
<1>7. UNCHANGED <<problem, stored, file, survivors>>
  BY DEF StartChart
<1>8. PICK next : next = FirstReach(p, r.leg, r.center)
  OBVIOUS
<1>9. /\ next \in Nat /\ next <= Ticks
      /\ next # r.center => next - r.center \in 1..p.legs[r.leg].reach[r.center]
  BY <1>3, <1>4, <1>5, <1>8, FirstReachIs
<1>10. Min({Run(w).center + LegOf(w).reach[Run(w).center], Ticks}) = next
  BY <1>1, <1>2, <1>8 DEF FirstReach, LegOf, Run
<1>11. CASE r.charts = p.charts \/ next = r.center
  <2>1. Goes(w, [r EXCEPT !.at = "failed"])
    BY <1>1, <1>2, <1>10, <1>11 DEF StartChart, Throws, Run
  <2>2. BatchesShrink(p) => OnWay(p, Over("failed", r.path))
    BY <1>6, <1>8, <1>11 DEF ThenChart
  <2> QED  BY <1>1, <1>3, <1>7, <2>1, <2>2, FailedRuns, RunMoves
<1>12. CASE ~(r.charts = p.charts \/ next = r.center)
  <2>1. PICK x : x = [r EXCEPT !.at = "trial", !.charts = r.charts + 1, !.halvings = 0, !.next = next]
    OBVIOUS
  <2>2. Goes(w, x)
    BY <1>1, <1>2, <1>10, <1>12, <2>1 DEF StartChart
  <2>3. PICK n \in Nat : n = r.charts + 1
    BY <1>4
  <2>4. x = [at |-> "trial", leg |-> r.leg, center |-> r.center, charts |-> n, path |-> r.path,
             batch |-> r.batch, next |-> next, halvings |-> 0]
    BY <1>3, <2>1, <2>3 DEF Walks
  <2>5. /\ x \in Walks /\ x.at = "trial" /\ x.leg = r.leg /\ x.center = r.center /\ x.charts = n
        /\ x.path = r.path /\ x.batch = r.batch /\ x.next = next /\ x.halvings = 0
    BY <1>4, <1>9, <2>4 DEF Walks
  <2>6. x.charts \in 1..p.charts /\ x.charts - 1 = r.charts
    BY <1>4, <1>5, <1>12, <2>3, <2>5 DEF Placed
  <2>7. Placed(p, x.path, x.leg, x.center, x.charts - 1)
    BY <1>5, <2>5, <2>6
  <2>8. Sane(p, x)
    BY <1>5, <1>9, <1>12, <2>5, <2>6, <2>7 DEF Sane, OnMove
  <2>9. ASSUME BatchesShrink(p) PROVE Alike(p, x)
    <3>1. ThenChart(p, r.leg, r.center, r.charts, r.path)
            = Place("trial", r.leg, r.center, n, r.path, next, 0)
      BY <1>8, <1>12, <2>3 DEF ThenChart
    <3>2. PlaceOf(x) = Place("trial", r.leg, r.center, n, r.path, next, 0)
      BY <2>5 DEF PlaceOf
    <3>3. Sized(p, x)
      BY <1>3, <1>6, <2>5, <2>9 DEF Sized
    <3> QED  BY <1>6, <2>9, <3>1, <3>2, <3>3 DEF Alike
  <2>10. Runs(p, x)
    BY <2>8, <2>9 DEF Runs
  <2> QED  BY <1>1, <1>7, <2>2, <2>5, <2>10, RunMoves
<1> QED  BY <1>11, <1>12

(* What a trial stands for.                                                *)
LEMMA TrialShape ==
  ASSUME AdjointInv, NEW w \in Runner, Run(w).at = "trial", NEW p, p = problem, NEW r, r = Run(w)
  PROVE  /\ p \in Problems /\ r \in Walks /\ p.charts \in Nat /\ Ticks \in Nat
         /\ r.leg \in Nat /\ r.center \in Nat /\ r.charts \in 1..p.charts
         /\ r.path \in Seq(ChartRecord) /\ r.batch \in Nat /\ r.next \in Nat /\ r.halvings \in Nat
         /\ r.leg \in Moving(p) /\ r.center < Ticks
         /\ Placed(p, r.path, r.leg, r.center, r.charts - 1)
         /\ r.next <= Ticks /\ r.next - r.center \in 1..p.legs[r.leg].reach[r.center]
         /\ BatchesShrink(p) =>
              /\ r.batch # 0 /\ r.batch = LegBatch(p, r.leg)
              /\ OnWay(p, ThenTrial(p, r.leg, r.center, r.charts, r.path, r.next, r.halvings))
         /\ Conditioned(w) <=>
              p.halvings = 0 \/ r.next - r.center <= p.legs[r.leg].calm[r.batch]
<1>1. p \in Problems /\ r \in Walks /\ Runs(p, r) /\ r.at = "trial"
  BY RunShape
<1>2. /\ r.leg \in Nat /\ r.center \in Nat /\ r.charts \in Nat /\ r.path \in Seq(ChartRecord)
      /\ r.batch \in Nat /\ r.next \in Nat /\ r.halvings \in Nat
      /\ p.charts \in Nat /\ Ticks \in Nat
  BY <1>1, Shape, ProblemTypes
<1>3. /\ r.leg \in Moving(p) /\ r.center < Ticks /\ r.charts \in 1..p.charts
      /\ Placed(p, r.path, r.leg, r.center, r.charts - 1)
      /\ r.next <= Ticks /\ r.next - r.center \in 1..p.legs[r.leg].reach[r.center]
  BY <1>1 DEF Runs, Sane, OnMove
<1>4. ASSUME BatchesShrink(p)
      PROVE  /\ r.batch # 0 /\ r.batch = LegBatch(p, r.leg)
             /\ OnWay(p, ThenTrial(p, r.leg, r.center, r.charts, r.path, r.next, r.halvings))
  <2> DEFINE c == Place("trial", r.leg, r.center, r.charts, r.path, r.next, r.halvings)
  <2>1. Sized(p, r) /\ OnWay(p, c)
    BY <1>1, <1>4 DEF Runs, Alike, PlaceOf
  <2>2. /\ c.at = "trial" /\ c.leg = r.leg /\ c.center = r.center /\ c.charts = r.charts
        /\ c.path = r.path /\ c.next = r.next /\ c.halvings = r.halvings
    BY DEF Place
  <2> HIDE DEF c
  <2>3. Then(p, c) = ThenTrial(p, r.leg, r.center, r.charts, r.path, r.next, r.halvings)
    BY <2>2 DEF Then
  <2>4. OnWay(p, Then(p, c))
    BY <2>1, <2>2, OnWayGoesOn
  <2> QED  BY <1>1, <2>1, <2>3, <2>4 DEF Sized
<1>5. Conditioned(w) <=> p.halvings = 0 \/ r.next - r.center <= p.legs[r.leg].calm[r.batch]
  BY DEF Conditioned, LegOf, Run
<1> QED  BY <1>1, <1>2, <1>3, <1>4, <1>5

LEMMA AcceptKeeps ==
  ASSUME AdjointInv, NEW w \in Runner, Accept(w)
  PROVE  AdjointInv'
<1>1. PICK p : p = problem
  OBVIOUS
<1>2. PICK r : r = Run(w)
  OBVIOUS
<1>3. /\ p \in Problems /\ r \in Walks /\ p.charts \in Nat /\ Ticks \in Nat
      /\ r.leg \in Nat /\ r.center \in Nat /\ r.charts \in 1..p.charts
      /\ r.path \in Seq(ChartRecord) /\ r.batch \in Nat /\ r.next \in Nat /\ r.halvings \in Nat
      /\ r.leg \in Moving(p) /\ r.center < Ticks
      /\ Placed(p, r.path, r.leg, r.center, r.charts - 1)
      /\ r.next <= Ticks /\ r.next - r.center \in 1..p.legs[r.leg].reach[r.center]
  BY <1>1, <1>2, TrialShape DEF Accept
<1>4. BatchesShrink(p) =>
        /\ r.batch # 0 /\ r.batch = LegBatch(p, r.leg)
        /\ OnWay(p, ThenTrial(p, r.leg, r.center, r.charts, r.path, r.next, r.halvings))
  BY <1>1, <1>2, TrialShape DEF Accept
<1>5. p.halvings = 0 \/ r.next - r.center <= p.legs[r.leg].calm[r.batch]
  BY <1>1, <1>2, TrialShape DEF Accept
<1>6. PICK c : c = [leg |-> r.leg, from |-> r.center, to |-> r.next, batch |-> r.batch]
  OBVIOUS
<1>7. c \in ChartRecord /\ Append(r.path, c) \in Seq(ChartRecord) /\ Chart(r) = c
  BY <1>3, <1>6 DEF ChartRecord, Chart
<1>8. PICK q \in Seq(ChartRecord) : q = Append(r.path, c)
  BY <1>7
<1>9. Placed(p, q, r.leg, r.next, r.charts)
  <2>1. PICK k \in Nat : k = r.charts - 1 /\ k < p.charts /\ k + 1 = r.charts
    BY <1>3
  <2>2. Placed(p, r.path, r.leg, r.center, k)
    BY <1>3, <2>1
  <2>3. Placed(p, q, r.leg, r.next, k + 1)
    BY <1>3, <1>6, <1>8, <2>1, <2>2, ChartAdded
  <2> QED  BY <2>1, <2>3
<1>10. BatchesShrink(p) => OnWay(p, Spot(r.leg, r.next, r.charts, q))
  BY <1>4, <1>5, <1>6, <1>8 DEF ThenTrial
<1>11. PICK s : s = [r EXCEPT !.path = q]
  OBVIOUS
<1>12. /\ s \in Walks /\ s.at = "trial" /\ s.leg = r.leg /\ s.next = r.next /\ s.charts = r.charts
       /\ s.path = q /\ s.batch = r.batch
  BY <1>2, <1>3, <1>11 DEF Walks, Accept
<1>13. /\ UNCHANGED <<problem, stored, file, survivors>>
       /\ Goes(w, IF stored[w] THEN [s EXCEPT !.at = "save"] ELSE Onward(s))
  BY <1>2, <1>7, <1>8, <1>11 DEF Accept
<1>14. CASE stored[w]
  <2>1. PICK x : x = [s EXCEPT !.at = "save"]
    OBVIOUS
  <2>2. /\ x \in Walks /\ x.at = "save" /\ x.leg = r.leg /\ x.next = r.next
        /\ x.charts = r.charts /\ x.path = q /\ x.batch = r.batch
    BY <1>12, <2>1 DEF Walks
  <2>3. Sane(p, x)
    BY <1>3, <1>9, <2>2 DEF Sane
  <2>4. ASSUME BatchesShrink(p) PROVE Alike(p, x)
    <3>1. PlaceOf(x) = Spot(r.leg, r.next, r.charts, q)
      BY <2>2 DEF PlaceOf
    <3>2. Sized(p, x)
      BY <1>4, <2>2, <2>4 DEF Sized
    <3> QED  BY <1>10, <2>4, <3>1, <3>2 DEF Alike
  <2>5. Runs(p, x)
    BY <2>3, <2>4 DEF Runs
  <2> QED  BY <1>1, <1>13, <1>14, <2>1, <2>2, <2>5, RunMoves
<1>15. CASE ~stored[w]
  <2>1. Placed(p, s.path, s.leg, s.next, s.charts) /\ s.leg \in Moving(p)
    BY <1>3, <1>9, <1>12
  <2>2. BatchesShrink(p) =>
          /\ s.batch # 0 /\ s.batch = LegBatch(p, s.leg)
          /\ OnWay(p, Spot(s.leg, s.next, s.charts, s.path))
    BY <1>4, <1>10, <1>12
  <2>3. Onward(s) \in Walks /\ Runs(p, Onward(s))
    BY <1>3, <1>12, <2>1, <2>2, OnwardRuns
  <2> QED  BY <1>1, <1>13, <1>15, <2>3, RunMoves
<1> QED  BY <1>14, <1>15

LEMMA RejectKeeps ==
  ASSUME AdjointInv, NEW w \in Runner, Reject(w)
  PROVE  AdjointInv'
<1>1. PICK p : p = problem
  OBVIOUS
<1>2. PICK r : r = Run(w)
  OBVIOUS
<1>3. /\ p \in Problems /\ r \in Walks /\ p.charts \in Nat /\ Ticks \in Nat
      /\ r.leg \in Nat /\ r.center \in Nat /\ r.charts \in 1..p.charts
      /\ r.path \in Seq(ChartRecord) /\ r.batch \in Nat /\ r.next \in Nat /\ r.halvings \in Nat
      /\ r.leg \in Moving(p) /\ r.center < Ticks
      /\ Placed(p, r.path, r.leg, r.center, r.charts - 1)
      /\ r.next <= Ticks /\ r.next - r.center \in 1..p.legs[r.leg].reach[r.center]
  BY <1>1, <1>2, TrialShape DEF Reject
<1>4. BatchesShrink(p) =>
        /\ r.batch # 0 /\ r.batch = LegBatch(p, r.leg)
        /\ OnWay(p, ThenTrial(p, r.leg, r.center, r.charts, r.path, r.next, r.halvings))
  BY <1>1, <1>2, TrialShape DEF Reject
<1>5. ~(p.halvings = 0 \/ r.next - r.center <= p.legs[r.leg].calm[r.batch])
  BY <1>1, <1>2, TrialShape DEF Reject
<1>6. r.at = "trial" /\ UNCHANGED <<problem, stored, file, survivors>>
  BY <1>2 DEF Reject
<1>7. PICK smaller : smaller = r.center + (r.next - r.center) \div 2
  OBVIOUS
<1>8. CASE r.halvings >= p.halvings \/ smaller = r.center
  <2>1. Goes(w, [r EXCEPT !.at = "failed"])
    BY <1>1, <1>2, <1>7, <1>8 DEF Reject, Throws, Run
  <2>2. BatchesShrink(p) => OnWay(p, Over("failed", r.path))
    BY <1>4, <1>5, <1>7, <1>8 DEF ThenTrial
  <2> QED  BY <1>1, <1>3, <1>6, <2>1, <2>2, FailedRuns, RunMoves
<1>9. CASE ~(r.halvings >= p.halvings \/ smaller = r.center)
  <2>1. PICK x : x = [r EXCEPT !.halvings = r.halvings + 1, !.next = smaller]
    OBVIOUS
  <2>2. Goes(w, x)
    BY <1>1, <1>2, <1>7, <1>9, <2>1 DEF Reject
  <2>3. PICK n \in Nat : n = p.legs[r.leg].reach[r.center]
    <3>1. r.leg \in 1..Len(p.legs) /\ r.center \in 0..(Ticks - 1)
      BY <1>3, ProblemTypes
    <3>2. p.legs[r.leg].reach \in [0..(Ticks - 1) -> Nat]
      BY <1>3, <3>1, ProblemTypes
    <3> QED  BY <3>1, <3>2
  <2>4. /\ smaller \in Nat /\ smaller <= Ticks /\ r.halvings + 1 \in Nat
        /\ smaller - r.center \in 1..p.legs[r.leg].reach[r.center]
    <3>1. PICK d \in Nat : d = r.next - r.center /\ d \in 1..n
      BY <1>3, <2>3
    <3>2. PICK e : e = d \div 2
      OBVIOUS
    <3>3. e \in Nat /\ e <= d /\ smaller = r.center + e
      BY <1>7, <3>1, <3>2
    <3>4. e # 0
      BY <1>3, <1>9, <3>3
    <3>5. /\ d <= n /\ r.center + d = r.next /\ r.next <= Ticks
          /\ r.center \in Nat /\ r.next \in Nat /\ Ticks \in Nat
      BY <1>3, <2>3, <3>1
    <3>6. smaller \in Nat /\ smaller <= Ticks /\ smaller - r.center \in 1..n
      BY <3>3, <3>4, <3>5
    <3>7. r.halvings + 1 \in Nat
      BY <1>3
    <3> QED  BY <2>3, <3>6, <3>7
  <2>5. /\ x \in Walks /\ x.at = "trial" /\ x.leg = r.leg /\ x.center = r.center
        /\ x.charts = r.charts /\ x.path = r.path /\ x.batch = r.batch /\ x.next = smaller
        /\ x.halvings = r.halvings + 1
    BY <1>3, <1>6, <2>1, <2>4 DEF Walks
  <2>6. Sane(p, x)
    BY <1>3, <2>4, <2>5 DEF Sane, OnMove
  <2>7. ASSUME BatchesShrink(p) PROVE Alike(p, x)
    <3>1. ThenTrial(p, r.leg, r.center, r.charts, r.path, r.next, r.halvings)
            = Place("trial", r.leg, r.center, r.charts, r.path, smaller, r.halvings + 1)
      BY <1>4, <1>5, <1>7, <1>9, <2>7 DEF ThenTrial
    <3>2. PlaceOf(x) = Place("trial", r.leg, r.center, r.charts, r.path, smaller, r.halvings + 1)
      BY <2>5 DEF PlaceOf
    <3>3. Sized(p, x)
      BY <1>4, <2>5, <2>7 DEF Sized
    <3> QED  BY <1>4, <2>7, <3>1, <3>2, <3>3 DEF Alike
  <2>8. Runs(p, x)
    BY <2>6, <2>7 DEF Runs
  <2> QED  BY <1>1, <1>6, <2>2, <2>5, <2>8, RunMoves
<1> QED  BY <1>8, <1>9

(* The continuation stands where the walk does, and so does whatever of it *)
(* a loss of power may bring back.                                         *)
LEMMA SaveKeeps ==
  ASSUME AdjointInv, NEW w \in Runner, SaveContinuation(w)
  PROVE  AdjointInv'
<1>1. PICK p : p = problem
  OBVIOUS
<1>2. PICK r : r = Run(w)
  OBVIOUS
<1>3. p \in Problems /\ r \in Walks /\ Runs(p, r) /\ r.at = "save"
  BY <1>1, <1>2, RunShape DEF SaveContinuation
<1>4. /\ r.leg \in Nat /\ r.charts \in Nat /\ r.path \in Seq(ChartRecord) /\ r.next \in Nat
  BY <1>3, Shape
<1>5. r.leg \in Moving(p) /\ Placed(p, r.path, r.leg, r.next, r.charts)
  BY <1>3 DEF Runs, Sane
<1>6. BatchesShrink(p) => Sized(p, r) /\ OnWay(p, Spot(r.leg, r.next, r.charts, r.path))
  BY <1>3 DEF Runs, Alike, PlaceOf
<1>7. PICK s : s = Continuation(r)
  OBVIOUS
<1>8. /\ s \in Continuations /\ s.leg = r.leg /\ s.center = r.next /\ s.charts = r.charts
      /\ s.path = r.path
  BY <1>4, <1>7 DEF Continuation, Continuations
<1>9. Resumable(p, s)
  BY <1>5, <1>6, <1>8 DEF Resumable
<1>10. file' = s /\ survivors' = survivors \cup {s} /\ UNCHANGED <<problem, stored>>
  BY <1>2, <1>7 DEF SaveContinuation
<1>11. PICK x : x = [r EXCEPT !.at = "sync"]
  OBVIOUS
<1>12. /\ x \in Walks /\ x.at = "sync" /\ x.leg = r.leg /\ x.next = r.next
       /\ x.charts = r.charts /\ x.path = r.path /\ x.batch = r.batch
  BY <1>3, <1>11 DEF Walks
<1>13. Sane(p, x)
  BY <1>5, <1>12 DEF Sane
<1>14. BatchesShrink(p) => Alike(p, x)
  <2>1. PlaceOf(x) = Spot(r.leg, r.next, r.charts, r.path)
    BY <1>12 DEF PlaceOf
  <2>2. BatchesShrink(p) => Sized(p, x)
    BY <1>3, <1>6, <1>12 DEF Sized
  <2> QED  BY <1>6, <2>1, <2>2 DEF Alike
<1>15. Runs(p, x)
  BY <1>13, <1>14 DEF Runs
<1>16. /\ walk' \in [Runner -> Walks] /\ walk'[w] = x
       /\ \A v \in Runner : v # w => walk'[v] = walk[v]
  BY <1>2, <1>11, <1>12 DEF AdjointInv, AdjointTypes, SaveContinuation, Goes
<1>17. AdjointTypes'
  BY <1>8, <1>10, <1>16 DEF AdjointInv, AdjointTypes
<1>18. \A v \in Runner : Runs(problem', walk'[v])
  BY <1>1, <1>10, <1>15, <1>16 DEF AdjointInv
<1>19. \A t \in survivors' \cup {file'} : Resumable(problem', t)
  BY <1>1, <1>9, <1>10 DEF AdjointInv
<1> QED  BY <1>17, <1>18, <1>19 DEF AdjointInv

LEMMA SyncKeeps ==
  ASSUME AdjointInv, NEW w \in Runner, SyncContinuation(w)
  PROVE  AdjointInv'
<1>1. PICK p : p = problem
  OBVIOUS
<1>2. PICK r : r = Run(w)
  OBVIOUS
<1>3. p \in Problems /\ r \in Walks /\ Runs(p, r) /\ r.at = "sync"
  BY <1>1, <1>2, RunShape DEF SyncContinuation
<1>4. r.leg \in Moving(p) /\ Placed(p, r.path, r.leg, r.next, r.charts)
  BY <1>3 DEF Runs, Sane
<1>5. BatchesShrink(p) =>
        /\ r.batch # 0 /\ r.batch = LegBatch(p, r.leg)
        /\ OnWay(p, Spot(r.leg, r.next, r.charts, r.path))
  BY <1>3 DEF Runs, Alike, PlaceOf, Sized
<1>6. PICK x : x = Onward(r)
  OBVIOUS
<1>7. x \in Walks /\ Runs(p, x)
  BY <1>3, <1>4, <1>5, <1>6, OnwardRuns
<1>8. /\ walk' \in [Runner -> Walks] /\ walk'[w] = x
      /\ \A v \in Runner : v # w => walk'[v] = walk[v]
      /\ file' = file /\ survivors' = {file} /\ UNCHANGED <<problem, stored>>
  BY <1>2, <1>6, <1>7 DEF AdjointInv, AdjointTypes, SyncContinuation, Goes
<1>9. AdjointTypes'
  BY <1>8 DEF AdjointInv, AdjointTypes
<1>10. \A v \in Runner : Runs(problem', walk'[v])
  BY <1>1, <1>7, <1>8 DEF AdjointInv
<1> QED  BY <1>8, <1>9, <1>10 DEF AdjointInv

LEMMA StopKeeps ==
  ASSUME AdjointInv, NEW w \in Runner, Stop(w)
  PROVE  AdjointInv'
BY RestRuns, RunMoves DEF Stop

LEMMA LosePowerKeeps ==
  ASSUME AdjointInv, LosePower
  PROVE  AdjointInv'
<1>1. /\ UNCHANGED <<problem, stored>> /\ file' \in survivors /\ survivors' = {file'}
      /\ walk' = [w \in Runner |-> Rest]
  BY DEF LosePower
<1>2. AdjointTypes'
  BY <1>1, RestRuns DEF AdjointInv, AdjointTypes
<1>3. \A w \in Runner : Runs(problem', walk'[w])
  BY <1>1, RestRuns
<1>4. \A s \in survivors' \cup {file'} : Resumable(problem', s)
  BY <1>1 DEF AdjointInv
<1> QED  BY <1>2, <1>3, <1>4 DEF AdjointInv

LEMMA AdjointSteps == AdjointInv /\ [AdjointNext]_adjointVars => AdjointInv'
<1> SUFFICES ASSUME AdjointInv, [AdjointNext]_adjointVars PROVE AdjointInv'
  OBVIOUS
<1>1. CASE UNCHANGED adjointVars
  BY <1>1 DEF adjointVars, AdjointInv, AdjointTypes
<1>2. CASE AdjointNext
  BY <1>2, StartKeeps, EnterLegKeeps, StartChartKeeps, AcceptKeeps, RejectKeeps, SaveKeeps,
     SyncKeeps, StopKeeps, LosePowerKeeps DEF AdjointNext
<1> QED  BY <1>1, <1>2

(* Every run, and every continuation that may be read, stands on the path: *)
(* its charts follow one another, within the budget of their legs; and,    *)
(* where no leg reduces the batch for a later one, on the way of a run     *)
(* that is never cut short, with the batches of that run.                  *)
THEOREM OnTheWay == AdjointSpec => []AdjointInv
<1> QED  BY AdjointStart, AdjointSteps, PTL DEF AdjointSpec

LEMMA AlikeAtTheEnd == AdjointInv => ResumeContinues
<1> SUFFICES ASSUME AdjointInv PROVE ResumeContinues
  OBVIOUS
<1>1. ASSUME NEW w \in Runner, walk[w].at = "done" PROVE Walked(problem, walk[w].path)
  BY <1>1 DEF AdjointInv, Runs, Sane
<1>2. ASSUME BatchesShrink(problem), NEW v \in Runner, NEW w \in Runner, Ended(v), Ended(w)
      PROVE  Outcome(v) = Outcome(w)
  <2>1. /\ OnWay(problem, Over(walk[v].at, walk[v].path))
        /\ OnWay(problem, Over(walk[w].at, walk[w].path))
    BY <1>2 DEF AdjointInv, Runs, Alike, PlaceOf, Ended
  <2>2. /\ Over(walk[v].at, walk[v].path).at = walk[v].at
        /\ Over(walk[w].at, walk[w].path).at = walk[w].at
        /\ Over(walk[v].at, walk[v].path).path = walk[v].path
        /\ Over(walk[w].at, walk[w].path).path = walk[w].path
    BY DEF Over, Place
  <2>3. Over(walk[v].at, walk[v].path) = Over(walk[w].at, walk[w].path)
    BY <1>2, <2>1, <2>2, OneEnd DEF Ended
  <2> QED  BY <2>2, <2>3 DEF Outcome
<1> QED  BY <1>1, <1>2 DEF ResumeContinues

(* However often a run is cut short and whatever survives of its file, one *)
(* that ends well has walked every leg once, within the budgets, and all   *)
(* runs of a problem end alike where no leg reduces the batch for a later  *)
(* one.                                                                    *)
THEOREM RunsGoOn == AdjointSpec => []ResumeContinues
<1> QED  BY OnTheWay, AlikeAtTheEnd, PTL
==============================================================================

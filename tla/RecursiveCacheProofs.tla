------------------------- MODULE RecursiveCacheProofs -------------------------
(***************************************************************************)
(* Theorems about RecursiveCache, for any threads, keys and dependencies:  *)
(* who owns a build, when an edge of the wait graph is there, that the     *)
(* cache implements MemoTable, that no circle of waits ever closes, and    *)
(* that only a key that needs itself is refused as cyclic.                 *)
(***************************************************************************)
EXTENDS RecursiveCache, StackLemmas, FiniteSetTheorems, WellFoundedInduction

Making(t, i) == stack[t][i].at \in {"building", "failing"}

(* A build is retained for one key.                                        *)
OneKey ==
  \A j, k \in Key : j # k /\ entries[j] # Nobody => entries[j] # entries[k]

(* Only the innermost call of a thread is not in a builder; the others     *)
(* build different keys, and wait for a key they asked for.                *)
Frames ==
  \A t \in Thread : \A i \in 1..Len(stack[t]) :
    /\ i > 1 => stack[t][i].at = "building" /\ stack[t][i].left # <<>>
    /\ Making(t, i) => stack[t][i].build \in Build
    /\ \A j \in 1..Len(stack[t]) :
         i # j /\ Making(t, i) /\ Making(t, j) => stack[t][i].key # stack[t][j].key

(* Who waits, waits for the build retained for the key, unless it failed.  *)
Waiting ==
  \A t \in Thread : \A i \in 1..Len(stack[t]) :
    stack[t][i].at = "waiting" =>
      /\ stack[t][i].build \in Build
      /\ build[stack[t][i].build].phase \in {"building", "ready"} =>
           entries[stack[t][i].key] = stack[t][i].build

(* Every answer is retained for good.                                      *)
Answered ==
  \A a \in answers : entries[a[1]] = a[2] /\ build[a[2]].phase = "ready"

IndInv ==
  TypeOK /\ OneKey /\ Frames /\ Waiting /\ OwnsWhatItBuilds /\ EdgesExact /\ Answered

------------------------------------------------------------------------------
(* The stack of a thread after a call returned or threw, after its         *)
(* innermost frame changed, and after one more call.                       *)
Elsewhere(t) ==
  /\ stack' \in [Thread -> Seq(FrameRecord)]
  /\ \A u \in Thread \ {t} : stack'[u] = stack[u]

(* The keys a frame has still to ask for.                                  *)
LeftOf(frame) == {frame.left[i] : i \in 1..Len(frame.left)}

Popped(t) ==
  /\ Elsewhere(t)
  /\ Len(stack'[t]) = Len(stack[t]) - 1
  /\ \A i \in 1..Len(stack'[t]) :
       /\ stack'[t][i].key = stack[t][i + 1].key
       /\ stack'[t][i].build = stack[t][i + 1].build
       /\ stack'[t][i].at \in {"building", "failing"}
       /\ LeftOf(stack'[t][i]) \subseteq LeftOf(stack[t][i + 1])
       /\ i > 1 => stack'[t][i] = stack[t][i + 1]

Retopped(t, frame) ==
  /\ Elsewhere(t)
  /\ Len(stack'[t]) = Len(stack[t])
  /\ stack'[t][1] = frame
  /\ \A i \in 2..Len(stack[t]) : stack'[t][i] = stack[t][i]

Pushed(t, frame) ==
  /\ Elsewhere(t)
  /\ Len(stack'[t]) = Len(stack[t]) + 1
  /\ stack'[t][1] = frame
  /\ \A i \in 1..Len(stack[t]) : stack'[t][i + 1] = stack[t][i]

LEMMA StackTypes ==
  ASSUME TypeOK, NEW t \in Thread
  PROVE  /\ stack[t] \in Seq(FrameRecord) /\ Len(stack[t]) \in Nat
         /\ \A i \in 1..Len(stack[t]) : stack[t][i] \in FrameRecord
         /\ Busy(t) <=> Len(stack[t]) > 0
         /\ Busy(t) => Top(t) = stack[t][1] /\ 1 \in 1..Len(stack[t])
<1>1. stack[t] \in Seq(FrameRecord)
  BY DEF TypeOK
<1>2. Len(stack[t]) \in Nat
  BY <1>1, LenProperties
<1>3. \A i \in 1..Len(stack[t]) : stack[t][i] \in FrameRecord
  BY <1>1, ElementOfSeq
<1>4. Busy(t) <=> Len(stack[t]) > 0
  BY <1>1, <1>2, EmptySeq DEF Busy
<1>5. Busy(t) => Top(t) = stack[t][1] /\ 1 \in 1..Len(stack[t])
  BY <1>1, <1>2, <1>4 DEF Top, Busy
<1> QED  BY <1>1, <1>2, <1>3, <1>4, <1>5

(* A thread keeps its other calls when the innermost one ends.             *)
LEMMA Pops ==
  ASSUME IndInv, NEW t \in Thread, Busy(t), Returns(t) \/ Throws(t)
  PROVE  Popped(t)
<1> USE DEF IndInv
<1> DEFINE s == stack[t]
<1>1. s \in Seq(FrameRecord) /\ Len(s) \in Nat /\ Len(s) > 0
  BY StackTypes
<1>2. CASE Len(s) = 1
  <2>1. stack' = [stack EXCEPT ![t] = <<>>]
    BY <1>2 DEF Returns, Throws
  <2>2. <<>> \in Seq(FrameRecord) /\ Len(<<>>) = 0
    BY EmptySeq
  <2>3. stack'[t] = <<>> /\ Elsewhere(t)
    BY <2>1, <2>2 DEF TypeOK, Elsewhere
  <2> QED  BY <1>2, <2>2, <2>3 DEF Popped
<1>3. CASE Len(s) # 1
  <2>1. PICK r : /\ r \in {[s[2] EXCEPT !.left = Tail(s[2].left)],
                          [s[2] EXCEPT !.at = "failing"]}
                 /\ stack' = [stack EXCEPT ![t] = <<r>> \o SubSeq(s, 3, Len(s))]
    <3>1. CASE Returns(t)
      <4>1. stack' = [stack EXCEPT ![t] =
              <<[s[2] EXCEPT !.left = Tail(s[2].left)]>> \o SubSeq(s, 3, Len(s))]
        BY <1>3, <3>1 DEF Returns
      <4> QED  BY <4>1
    <3>2. CASE Throws(t)
      <4>1. stack' = [stack EXCEPT ![t] =
              <<[s[2] EXCEPT !.at = "failing"]>> \o SubSeq(s, 3, Len(s))]
        BY <1>3, <3>2 DEF Throws
      <4> QED  BY <4>1
    <3> QED  BY <3>1, <3>2
  <2>2. 2 \in 1..Len(s) /\ Len(s) > 1
    BY <1>1, <1>3, TwoOrMore
  <2>3. s[2] \in FrameRecord /\ s[2].at = "building" /\ s[2].left # <<>>
    BY <2>2, StackTypes DEF Frames
  <2>4. Tail(s[2].left) \in Seq(Key)
    BY <2>3, HeadTailProperties DEF FrameRecord
  <2>5. /\ r \in FrameRecord /\ r.key = s[2].key /\ r.build = s[2].build
        /\ r.at \in {"building", "failing"}
        /\ r.left \in {s[2].left, Tail(s[2].left)}
    BY <2>1, <2>3, <2>4 DEF FrameRecord
  <2>5a. LeftOf(r) \subseteq LeftOf(s[2])
    <3>1. s[2].left \in Seq(Key)
      BY <2>3 DEF FrameRecord
    <3>2. CASE r.left = s[2].left
      BY <3>2 DEF LeftOf
    <3>3. CASE r.left = Tail(s[2].left)
      BY <2>3, <3>1, <3>3, TailElements DEF LeftOf
    <3> QED  BY <2>5, <3>2, <3>3
  <2> HIDE DEF s
  <2> DEFINE m == <<r>> \o SubSeq(s, 3, Len(s))
  <2>6. /\ m \in Seq(FrameRecord) /\ Len(m) = Len(s) - 1 /\ m[1] = r
        /\ \A i \in 2..(Len(s) - 1) : m[i] = s[i + 1]
    BY <1>1, <2>2, <2>5, MergeFrames
  <2>7. stack' = [stack EXCEPT ![t] = m]
    BY <2>1
  <2> HIDE DEF m
  <2>8. stack'[t] = m /\ Elsewhere(t)
    BY <2>6, <2>7 DEF TypeOK, Elsewhere
  <2>9. ASSUME NEW i \in 1..Len(m)
        PROVE  /\ m[i].key = s[i + 1].key /\ m[i].build = s[i + 1].build
               /\ m[i].at \in {"building", "failing"}
               /\ LeftOf(m[i]) \subseteq LeftOf(s[i + 1])
               /\ i > 1 => m[i] = s[i + 1]
    <3>1. CASE i = 1
      BY <2>5, <2>6, <2>5a, <3>1
    <3>2. CASE i # 1
      <4>1. i \in 2..(Len(s) - 1) /\ i + 1 \in 1..Len(s) /\ i + 1 > 1
        BY <1>1, <2>6, <3>2
      <4>2. s[i + 1].at = "building"
        BY <4>1 DEF Frames, s
      <4> QED  BY <2>6, <4>1, <4>2
    <3> QED  BY <3>1, <3>2
  <2> QED  BY <2>6, <2>8, <2>9 DEF Popped, s
<1> QED  BY <1>2, <1>3

LEMMA Retops ==
  ASSUME IndInv, NEW t \in Thread, Busy(t), NEW r \in FrameRecord, Retop(t, r)
  PROVE  Retopped(t, r)
<1> DEFINE s == stack[t]
           m == <<r>> \o Tail(s)
<1>1. s \in Seq(FrameRecord) /\ s # <<>>
  BY StackTypes DEF IndInv, Busy
<1>2. stack' = [stack EXCEPT ![t] = m]
  BY DEF Retop
<1> HIDE DEF s
<1>3. /\ m \in Seq(FrameRecord) /\ Len(m) = Len(s) /\ m[1] = r
      /\ \A i \in 2..Len(s) : m[i] = s[i]
  BY <1>1, ReplaceFrame
<1> HIDE DEF m
<1>4. stack'[t] = m /\ Elsewhere(t)
  BY <1>2, <1>3 DEF IndInv, TypeOK, Elsewhere
<1> QED  BY <1>3, <1>4 DEF Retopped, s

LEMMA Pushes ==
  ASSUME IndInv, NEW t \in Thread, NEW r \in FrameRecord,
         stack' = [stack EXCEPT ![t] = <<r>> \o @]
  PROVE  Pushed(t, r)
<1> DEFINE s == stack[t]
           m == <<r>> \o s
<1>1. s \in Seq(FrameRecord)
  BY StackTypes DEF IndInv
<1>2. stack' = [stack EXCEPT ![t] = m]
  OBVIOUS
<1> HIDE DEF s
<1>3. /\ m \in Seq(FrameRecord) /\ Len(m) = Len(s) + 1 /\ m[1] = r
      /\ \A i \in 1..Len(s) : m[i + 1] = s[i]
  BY <1>1, PushFrame
<1> HIDE DEF m
<1>4. stack'[t] = m /\ Elsewhere(t)
  BY <1>2, <1>3 DEF IndInv, TypeOK, Elsewhere
<1> QED  BY <1>3, <1>4 DEF Pushed, s

------------------------------------------------------------------------------
LEMMA InitIndInv == Init => IndInv
<1> SUFFICES ASSUME Init  PROVE IndInv
  OBVIOUS
<1> USE DEF Init
<1>1. <<>> \in Seq(FrameRecord) /\ Len(<<>>) = 0
  BY EmptySeq
<1>2. Unused \in BuildRecord
  BY DEF Unused, BuildRecord, Phase
<1>3. TypeOK
  BY <1>1, <1>2 DEF TypeOK, NoEdge
<1>4. \A t \in Thread : 1..Len(stack[t]) = {}
  BY <1>1
<1>5. OneKey /\ Frames /\ Waiting
  BY <1>4 DEF OneKey, Frames, Waiting
<1>6. OwnsWhatItBuilds /\ Answered
  BY <1>4 DEF OwnsWhatItBuilds, Answered
<1>7. EdgesExact
  BY DEF EdgesExact, Waits, Busy
<1> QED  BY <1>3, <1>5, <1>6, <1>7 DEF IndInv

(* What is known of the innermost call.                                    *)
LEMMA TopFacts ==
  ASSUME IndInv, NEW t \in Thread, Busy(t)
  PROVE  /\ Top(t) = stack[t][1] /\ Top(t) \in FrameRecord
         /\ 1 \in 1..Len(stack[t]) /\ Len(stack[t]) \in Nat
         /\ Top(t).key \in Key /\ Top(t).contract \in Contract
BY StackTypes DEF IndInv, FrameRecord

(* Threads other than t keep what the invariant says of them.              *)
LEMMA PoppedFrames ==
  ASSUME IndInv, NEW t \in Thread, Busy(t), Popped(t)
  PROVE  /\ Frames' /\ stack' \in [Thread -> Seq(FrameRecord)]
         /\ \A i \in 1..Len(stack'[t]) :
              /\ i + 1 \in 1..Len(stack[t]) /\ Making(t, i + 1) /\ i + 1 # 1
              /\ stack'[t][i].key = stack[t][i + 1].key
              /\ stack'[t][i].build = stack[t][i + 1].build
              /\ stack'[t][i].at # "waiting"
         /\ ~Waits(t)'
<1> USE DEF IndInv
<1>1. Len(stack[t]) \in Nat /\ Len(stack'[t]) = Len(stack[t]) - 1
      /\ stack' \in [Thread -> Seq(FrameRecord)]
  BY TopFacts DEF Popped, Elsewhere
<1>2. ASSUME NEW i \in 1..Len(stack'[t])
      PROVE  /\ i + 1 \in 1..Len(stack[t]) /\ i + 1 > 1 /\ Making(t, i + 1)
             /\ stack'[t][i].key = stack[t][i + 1].key
             /\ stack'[t][i].build = stack[t][i + 1].build
             /\ stack'[t][i].at \in {"building", "failing"}
             /\ i > 1 => stack'[t][i] = stack[t][i + 1]
  <2>1. i + 1 \in 1..Len(stack[t]) /\ i + 1 > 1
    BY <1>1
  <2>2. stack[t][i + 1].at = "building"
    BY <2>1 DEF Frames
  <2> QED  BY <2>1, <2>2 DEF Popped, Making
<1>3. ASSUME NEW u \in Thread, NEW i \in 1..Len(stack'[u])
      PROVE  /\ i > 1 => stack'[u][i].at = "building" /\ stack'[u][i].left # <<>>
             /\ Making(u, i)' => stack'[u][i].build \in Build
             /\ \A j \in 1..Len(stack'[u]) :
                  i # j /\ Making(u, i)' /\ Making(u, j)' =>
                    stack'[u][i].key # stack'[u][j].key
  <2>1. CASE u = t
    <3>1. i > 1 => stack[t][i + 1].at = "building" /\ stack[t][i + 1].left # <<>>
      BY <2>1, <1>2 DEF Frames
    <3>2. stack[t][i + 1].build \in Build
      BY <2>1, <1>2 DEF Frames
    <3>3. \A j \in 1..Len(stack'[t]) : i # j => stack[t][i + 1].key # stack[t][j + 1].key
      <4> SUFFICES ASSUME NEW j \in 1..Len(stack'[t]), i # j
                   PROVE  stack[t][i + 1].key # stack[t][j + 1].key
        OBVIOUS
      <4>1. i + 1 # j + 1
        BY <2>1, <1>1
      <4>2. /\ i + 1 \in 1..Len(stack[t]) /\ Making(t, i + 1)
            /\ j + 1 \in 1..Len(stack[t]) /\ Making(t, j + 1)
        BY <2>1, <1>2
      <4> QED  BY <4>1, <4>2 DEF Frames
    <3> QED  BY <2>1, <3>1, <3>2, <3>3, <1>2
  <2>2. CASE u # t
    <3>1. stack'[u] = stack[u]
      BY <2>2 DEF Popped, Elsewhere
    <3> QED  BY <3>1 DEF Frames, Making
  <2> QED  BY <2>1, <2>2
<1>4. Frames'
  BY <1>3 DEF Frames
<1>5. ~Waits(t)'
  <2>1. stack'[t] \in Seq(FrameRecord)
    BY <1>1
  <2>2. CASE Len(stack'[t]) = 0
    BY <2>1, <2>2, EmptySeq DEF Waits, Busy
  <2>3. CASE Len(stack'[t]) # 0
    <3>1. 1 \in 1..Len(stack'[t])
      BY <2>1, <2>3, LenProperties
    <3>2. stack'[t][1].at \in {"building", "failing"}
      BY <3>1, <1>2
    <3>3. Head(stack'[t]) = stack'[t][1]
      BY <2>1
    <3> QED  BY <3>2, <3>3 DEF Waits, Top
  <2> QED  BY <2>2, <2>3
<1>6. ASSUME NEW i \in 1..Len(stack'[t])
      PROVE  i + 1 # 1 /\ stack'[t][i].at # "waiting"
  <2>1. i \in Nat /\ i + 1 # 1
    BY <1>1
  <2>2. stack'[t][i].at \in {"building", "failing"}
    BY <1>2
  <2> QED  BY <2>1, <2>2
<1> QED  BY <1>1, <1>2, <1>4, <1>5, <1>6

(* A call that builds nothing returns or throws.                           *)
LEMMA EndsQuietly ==
  ASSUME IndInv, NEW t \in Thread, Busy(t), Popped(t),
         UNCHANGED entries, build' \in [Build -> BuildRecord],
         \A b \in Build : /\ build'[b].phase = build[b].phase
                         /\ build'[b].owner = build[b].owner
                         /\ build[b].waiters \ {t} \subseteq build'[b].waiters,
         waitFor' \in [Thread -> [owner : Thread \cup {Nobody}, build : Build \cup {Nobody}]],
         \A u \in Thread \ {t} : waitFor'[u] = waitFor[u], waitFor'[t] = NoEdge,
         answers' \subseteq Key \X Build,
         \A a \in answers' : a \in answers \/ (entries[a[1]] = a[2] /\ build[a[2]].phase = "ready"),
         refused' \subseteq Key
  PROVE  IndInv'
<1> USE DEF IndInv
<1>1. Frames' /\ stack' \in [Thread -> Seq(FrameRecord)]
  BY PoppedFrames
<1>2. \A u \in Thread \ {t} : stack'[u] = stack[u]
  BY DEF Popped, Elsewhere
<1>3. TypeOK'
  BY <1>1 DEF TypeOK
<1>4. OneKey'
  BY DEF OneKey
<1>5. ASSUME NEW u \in Thread, NEW i \in 1..Len(stack'[u]), stack'[u][i].at = "waiting"
      PROVE  /\ stack'[u][i].build \in Build
             /\ build'[stack'[u][i].build].phase \in {"building", "ready"} =>
                  entries[stack'[u][i].key] = stack'[u][i].build
  <2>1. u # t
    BY <1>5, PoppedFrames
  <2>2. stack'[u] = stack[u]
    BY <2>1, <1>2
  <2> DEFINE f == stack[u][i]
  <2>3. /\ f.build \in Build
        /\ build[f.build].phase \in {"building", "ready"} => entries[f.key] = f.build
    BY <2>2, <1>5 DEF Waiting
  <2>4. build'[f.build].phase = build[f.build].phase
    BY <2>3
  <2> QED  BY <2>2, <2>3, <2>4
<1>6. Waiting'
  BY <1>5 DEF Waiting
<1>7. \A k \in Key : entries[k] # Nobody => build'[entries[k]].phase \in {"building", "ready"}
  <2>1. \A k \in Key : entries[k] # Nobody => entries[k] \in Build
    BY DEF TypeOK
  <2>2. \A k \in Key : entries[k] # Nobody => build[entries[k]].phase \in {"building", "ready"}
    BY DEF OwnsWhatItBuilds
  <2> QED  BY <2>1, <2>2
<1>8. ASSUME NEW u \in Thread, NEW i \in 1..Len(stack'[u]), Making(u, i)'
      PROVE  LET b == stack'[u][i].build
             IN  entries[stack'[u][i].key] = b /\ build'[b].phase = "building"
                 /\ build'[b].owner = u
  <2>1. CASE u = t
    <3> DEFINE f == stack[t][i + 1]
    <3>1. /\ i + 1 \in 1..Len(stack[t]) /\ Making(t, i + 1)
          /\ stack'[t][i].key = f.key /\ stack'[t][i].build = f.build
      BY <2>1, PoppedFrames
    <3>2. f.build \in Build
      BY <3>1 DEF Frames
    <3>3. entries[f.key] = f.build /\ build[f.build].phase = "building"
          /\ build[f.build].owner = t
      BY <3>1 DEF OwnsWhatItBuilds, Making
    <3> HIDE DEF f
    <3> QED  BY <2>1, <3>1, <3>2, <3>3
  <2>2. CASE u # t
    <3> DEFINE f == stack[u][i]
    <3>1. stack'[u] = stack[u]
      BY <2>2, <1>2
    <3>2. i \in 1..Len(stack[u]) /\ Making(u, i)
      BY <3>1, <1>8 DEF Making
    <3>3. f.build \in Build
      BY <3>2 DEF Frames
    <3>4. entries[f.key] = f.build /\ build[f.build].phase = "building"
          /\ build[f.build].owner = u
      BY <3>2 DEF OwnsWhatItBuilds, Making
    <3> QED  BY <3>1, <3>3, <3>4
  <2> QED  BY <2>1, <2>2
<1>9. OwnsWhatItBuilds'
  BY <1>7, <1>8 DEF OwnsWhatItBuilds, Making
<1>10. ASSUME NEW u \in Thread
       PROVE  (IF Waits(u) /\ build[Top(u).build].phase = "building"
               THEN /\ waitFor[u] = [owner |-> build[Top(u).build].owner, build |-> Top(u).build]
                    /\ u \in build[Top(u).build].waiters
               ELSE waitFor[u] = NoEdge)'
  <2>1. CASE u = t
    BY <2>1, PoppedFrames
  <2>2. CASE u # t
    <3>1. (Waits(u)' <=> Waits(u)) /\ Top(u)' = Top(u)
      BY <2>2, <1>2 DEF Waits, Busy, Top
    <3>2. Waits(u) => Top(u).build \in Build
      BY TopFacts DEF Waits, Waiting
    <3>3. Waits(u) => /\ build'[Top(u).build].phase = build[Top(u).build].phase
                      /\ build'[Top(u).build].owner = build[Top(u).build].owner
                      /\ u \in build[Top(u).build].waiters => u \in build'[Top(u).build].waiters
      BY <2>2, <3>2
    <3>4. waitFor'[u] = waitFor[u]
      BY <2>2
    <3>5. CASE Waits(u) /\ build[Top(u).build].phase = "building"
      <4>1. /\ waitFor[u] = [owner |-> build[Top(u).build].owner, build |-> Top(u).build]
            /\ u \in build[Top(u).build].waiters
        BY <3>5 DEF EdgesExact
      <4> QED  BY <3>1, <3>3, <3>4, <3>5, <4>1
    <3>6. CASE ~(Waits(u) /\ build[Top(u).build].phase = "building")
      <4>1. waitFor[u] = NoEdge
        BY <3>6 DEF EdgesExact
      <4> QED  BY <3>1, <3>3, <3>4, <3>6, <4>1
    <3> QED  BY <3>5, <3>6
  <2> QED  BY <2>1, <2>2
<1>11. EdgesExact'
  BY <1>10 DEF EdgesExact
<1>12. Answered'
  BY DEF Answered, TypeOK
<1> QED  BY <1>1, <1>3, <1>4, <1>6, <1>9, <1>11, <1>12

(* A builder ends: the build is ready, or it failed and is not retained.   *)
Ends(t, phase) ==
  /\ Busy(t) /\ Making(t, 1) /\ Popped(t) /\ ClearWaiters(Top(t).build)
  /\ build' = [build EXCEPT ![Top(t).build].phase = phase,
                            ![Top(t).build].owner = Nobody,
                            ![Top(t).build].waiters = {}]
  /\ UNCHANGED refused

LEMMA BuilderEnds ==
  ASSUME IndInv, NEW t \in Thread, NEW phase \in {"ready", "failed"}, Ends(t, phase),
         phase = "ready" => UNCHANGED entries
                            /\ answers' = answers \cup {<<Top(t).key, Top(t).build>>},
         phase = "failed" => UNCHANGED answers
                             /\ entries' = [entries EXCEPT ![Top(t).key] = Nobody]
  PROVE  IndInv'
<1> USE DEF IndInv
<1> DEFINE k == Top(t).key
           b == Top(t).build
<1>1. /\ k \in Key /\ b \in Build /\ Top(t) = stack[t][1] /\ 1 \in 1..Len(stack[t])
      /\ entries[k] = b /\ build[b].phase = "building" /\ build[b].owner = t
  <2>1. Busy(t) /\ Making(t, 1)
    BY DEF Ends
  <2>2. k \in Key /\ Top(t) = stack[t][1] /\ 1 \in 1..Len(stack[t])
    BY <2>1, TopFacts
  <2>3. b \in Build
    BY <2>1, <2>2 DEF Frames
  <2>4. entries[k] = b /\ build[b].phase = "building" /\ build[b].owner = t
    BY <2>1, <2>2 DEF OwnsWhatItBuilds, Making
  <2> QED  BY <2>2, <2>3, <2>4
<1>2. /\ Popped(t) /\ Busy(t) /\ Top(t).at \in {"building", "failing"}
      /\ waitFor' = [u \in Thread |->
           IF u \in build[b].waiters /\ waitFor[u].build = b THEN NoEdge ELSE waitFor[u]]
      /\ UNCHANGED refused
  BY <1>1 DEF Ends, ClearWaiters, Making
<1>3. build' = [build EXCEPT ![b].phase = phase, ![b].owner = Nobody, ![b].waiters = {}]
  BY DEF Ends
<1>4. /\ phase = "ready" => entries' = entries /\ answers' = answers \cup {<<k, b>>}
      /\ phase = "failed" => answers' = answers /\ entries' = [entries EXCEPT ![k] = Nobody]
  OBVIOUS
<1>5. Making(t, 1) /\ k = stack[t][1].key
  BY <1>1, <1>2 DEF Making
<1> HIDE DEF k, b
<1>6. b # Nobody
  BY <1>1, NobodyAssumption
<1>7. /\ build' \in [Build -> BuildRecord]
      /\ build'[b].phase = phase /\ \A c \in Build \ {b} : build'[c] = build[c]
  <2>1. build[b] \in BuildRecord
    BY <1>1 DEF TypeOK
  <2> DEFINE r == [build[b] EXCEPT !.phase = phase, !.owner = Nobody, !.waiters = {}]
  <2>2. r \in BuildRecord /\ r.phase = phase
    BY <2>1 DEF BuildRecord, Phase
  <2>3. build' = [build EXCEPT ![b] = r]
    BY <1>1, <1>3 DEF TypeOK
  <2> HIDE DEF r
  <2> QED  BY <1>1, <2>2, <2>3 DEF TypeOK
<1>8. /\ entries' \in [Key -> Build \cup {Nobody}]
      /\ \A j \in Key \ {k} : entries'[j] = entries[j]
      /\ phase = "ready" => entries'[k] = b
      /\ phase = "failed" => entries'[k] = Nobody
  BY <1>1, <1>4 DEF TypeOK
<1>9. Frames' /\ stack' \in [Thread -> Seq(FrameRecord)]
  BY <1>2, PoppedFrames
<1>10. \A u \in Thread \ {t} : stack'[u] = stack[u]
  BY <1>2 DEF Popped, Elsewhere
<1>11. TypeOK'
  <2>1. waitFor' \in [Thread -> [owner : Thread \cup {Nobody}, build : Build \cup {Nobody}]]
    BY <1>2 DEF TypeOK, NoEdge
  <2>2. answers' \subseteq Key \X Build
    BY <1>1, <1>4 DEF TypeOK
  <2> QED  BY <1>2, <1>7, <1>8, <1>9, <2>1, <2>2 DEF TypeOK
<1>12. OneKey'
  <2>1. \A j \in Key : entries'[j] # Nobody => entries'[j] = entries[j]
    BY <1>1, <1>8
  <2> QED  BY <2>1, <1>8 DEF OneKey
<1>13. \A j \in Key : entries[j] = b => j = k
  BY <1>1, <1>6 DEF OneKey
<1>14. ASSUME NEW u \in Thread, NEW i \in 1..Len(stack'[u]), stack'[u][i].at = "waiting"
      PROVE  /\ stack'[u][i].build \in Build
             /\ build'[stack'[u][i].build].phase \in {"building", "ready"} =>
                  entries'[stack'[u][i].key] = stack'[u][i].build
  <2> DEFINE f == stack[u][i]
  <2>1. u # t
    BY <1>2, <1>14, PoppedFrames
  <2>2. /\ stack'[u][i] = f /\ f.build \in Build /\ f.key \in Key
        /\ build[f.build].phase \in {"building", "ready"} => entries[f.key] = f.build
    BY <2>1, <1>10, <1>14, StackTypes DEF Waiting, FrameRecord
  <2> HIDE DEF f
  <2>3. CASE f.build = b
    BY <2>2, <2>3, <1>1, <1>7, <1>8, <1>13
  <2>4. CASE f.build # b
    BY <2>2, <2>4, <1>1, <1>7, <1>8
  <2> QED  BY <2>3, <2>4
<1>15. Waiting'
  BY <1>14 DEF Waiting
<1>16. ASSUME NEW j \in Key, entries'[j] # Nobody
       PROVE  build'[entries'[j]].phase \in {"building", "ready"}
  <2>1. CASE j = k
    BY <2>1, <1>7, <1>8, <1>16
  <2>2. CASE j # k
    <3>1. entries'[j] = entries[j] /\ entries[j] \in Build /\ entries[j] # b
      BY <2>2, <1>8, <1>13, <1>16
    <3>2. build[entries[j]].phase \in {"building", "ready"}
      BY <3>1, <1>16 DEF OwnsWhatItBuilds
    <3> QED  BY <3>1, <3>2, <1>7
  <2> QED  BY <2>1, <2>2
<1>17. ASSUME NEW u \in Thread, NEW i \in 1..Len(stack'[u]), Making(u, i)'
       PROVE  LET c == stack'[u][i].build
              IN  entries'[stack'[u][i].key] = c /\ build'[c].phase = "building"
                  /\ build'[c].owner = u
  <2>1. PICK i0 \in 1..Len(stack[u]) :
          /\ Making(u, i0) /\ stack'[u][i].key = stack[u][i0].key
          /\ stack'[u][i].build = stack[u][i0].build
          /\ u = t => i0 # 1
    <3>1. CASE u = t
      BY <3>1, <1>2, PoppedFrames
    <3>2. CASE u # t
      BY <3>2, <1>10, <1>17 DEF Making
    <3> QED  BY <3>1, <3>2
  <2> DEFINE f == stack[u][i0]
  <2>2. /\ f.build \in Build /\ f.key \in Key /\ entries[f.key] = f.build
        /\ build[f.build].phase = "building" /\ build[f.build].owner = u
    BY <2>1, StackTypes DEF Frames, OwnsWhatItBuilds, Making, FrameRecord
  <2>3. f.key # k
    <3>1. CASE u = t
      BY <2>1, <3>1, <1>1, <1>5 DEF Frames
    <3>2. CASE u # t
      BY <2>2, <3>2, <1>1
    <3> QED  BY <3>1, <3>2
  <2> HIDE DEF f
  <2>4. f.build # b
    BY <2>2, <2>3, <1>13
  <2> QED  BY <2>1, <2>2, <2>3, <2>4, <1>7, <1>8 DEF f
<1>18. OwnsWhatItBuilds'
  BY <1>16, <1>17 DEF OwnsWhatItBuilds, Making
<1>19. ASSUME NEW u \in Thread
       PROVE  (IF Waits(u) /\ build[Top(u).build].phase = "building"
               THEN /\ waitFor[u] = [owner |-> build[Top(u).build].owner, build |-> Top(u).build]
                    /\ u \in build[Top(u).build].waiters
               ELSE waitFor[u] = NoEdge)'
  <2>1. waitFor[u] = NoEdge => waitFor'[u] = NoEdge
    BY <1>2
  <2>2. CASE u = t
    <3>1. waitFor[t] = NoEdge
      BY <1>2 DEF EdgesExact, Waits
    <3> QED  BY <2>1, <2>2, <3>1, <1>2, PoppedFrames
  <2>3. CASE u # t
    <3> DEFINE c == Top(u).build
    <3>1. (Waits(u)' <=> Waits(u)) /\ Top(u)' = Top(u)
      BY <2>3, <1>10 DEF Waits, Busy, Top
    <3>2. Waits(u) => c \in Build
      BY TopFacts DEF Waits, Waiting
    <3>3. CASE Waits(u) /\ build[c].phase = "building"
      <4>1. /\ waitFor[u] = [owner |-> build[c].owner, build |-> c]
            /\ u \in build[c].waiters
        BY <3>3 DEF EdgesExact
      <4>2. CASE c = b
        <5>1. waitFor'[u] = NoEdge
          BY <4>1, <4>2, <1>2
        <5>2. build'[c].phase # "building"
          BY <4>2, <1>7
        <5> QED  BY <5>1, <5>2, <3>1
      <4>3. CASE c # b
        <5>1. build'[c] = build[c]
          BY <3>2, <3>3, <4>3, <1>7
        <5>2. waitFor'[u] = waitFor[u]
          BY <4>1, <4>3, <1>2
        <5> QED  BY <5>1, <5>2, <3>1, <3>3, <4>1
      <4> QED  BY <4>2, <4>3
    <3>4. CASE ~(Waits(u) /\ build[c].phase = "building")
      <4>1. waitFor'[u] = NoEdge
        BY <3>4, <2>1 DEF EdgesExact
      <4>2. Waits(u) => build'[c].phase # "building"
        BY <3>2, <3>4, <1>1, <1>7
      <4> QED  BY <3>1, <4>1, <4>2
    <3> QED  BY <3>3, <3>4
  <2> QED  BY <2>2, <2>3
<1>20. EdgesExact'
  BY <1>19 DEF EdgesExact
<1>21. Answered'
  <2>1. ASSUME NEW a \in answers
        PROVE  entries'[a[1]] = a[2] /\ build'[a[2]].phase = "ready"
    <3>1. a[1] \in Key /\ a[2] \in Build /\ entries[a[1]] = a[2] /\ build[a[2]].phase = "ready"
      BY DEF Answered, TypeOK
    <3>2. a[2] # b
      BY <3>1, <1>1
    <3>3. a[1] # k
      BY <3>1, <3>2, <1>1
    <3> QED  BY <3>1, <3>2, <3>3, <1>7, <1>8
  <2> QED  BY <2>1, <1>4, <1>7, <1>8 DEF Answered
<1> QED  BY <1>9, <1>11, <1>12, <1>15, <1>18, <1>20, <1>21

(* One more call: it asks, and its caller is in a builder.                 *)
LEMMA Asked ==
  ASSUME IndInv, NEW t \in Thread, NEW k \in Key, NEW c \in Contract,
         Pushed(t, Frame(k, c)), Busy(t) => Builds(t) /\ Top(t).left # <<>>,
         UNCHANGED <<entries, build, waitFor, answers, refused>>
  PROVE  IndInv'
<1> USE DEF IndInv
<1> DEFINE r == Frame(k, c)
           n == Len(stack[t])
<1>1. r.at = "asking" /\ stack' \in [Thread -> Seq(FrameRecord)]
  BY DEF Frame, Pushed, Elsewhere
<1>2. n \in Nat /\ Len(stack'[t]) = n + 1 /\ stack'[t][1] = r
      /\ \A i \in 1..n : stack'[t][i + 1] = stack[t][i]
  BY StackTypes DEF Pushed
<1>3. \A u \in Thread \ {t} : stack'[u] = stack[u]
  BY DEF Pushed, Elsewhere
<1>4. \A i \in 1..n : stack[t][i].at = "building" /\ stack[t][i].left # <<>>
  <2> SUFFICES ASSUME NEW i \in 1..n
               PROVE  stack[t][i].at = "building" /\ stack[t][i].left # <<>>
    OBVIOUS
  <2>1. CASE i = 1
    <3>1. Busy(t) /\ Top(t) = stack[t][1]
      BY <1>2, StackTypes
    <3> QED  BY <2>1, <3>1 DEF Builds
  <2>2. CASE i # 1
    <3>1. i > 1
      BY <1>2, <2>2
    <3> QED  BY <3>1 DEF Frames
  <2> QED  BY <2>1, <2>2
<1> HIDE DEF r, n
<1>5. \A i \in 1..Len(stack'[t]) :
        i = 1 \/ (i - 1 \in 1..n /\ i > 1 /\ stack'[t][i] = stack[t][i - 1])
  BY <1>2
<1>6. TypeOK' /\ OneKey' /\ Answered'
  BY <1>1 DEF TypeOK, OneKey, Answered
<1>7. ASSUME NEW u \in Thread, NEW i \in 1..Len(stack'[u])
      PROVE  /\ i > 1 => stack'[u][i].at = "building" /\ stack'[u][i].left # <<>>
             /\ stack'[u][i].at = "asking"
                \/ \E i0 \in 1..Len(stack[u]) :
                     stack'[u][i] = stack[u][i0] /\ (u = t => i0 + 1 = i) /\ (u # t => i0 = i)
  <2>1. CASE u = t
    <3>1. CASE i = 1
      BY <2>1, <3>1, <1>1, <1>2
    <3>2. CASE i # 1
      <4>1. i - 1 \in 1..n /\ i > 1 /\ stack'[t][i] = stack[t][i - 1] /\ (i - 1) + 1 = i
        BY <2>1, <3>2, <1>5
      <4> QED  BY <2>1, <4>1, <1>4 DEF n
    <3> QED  BY <3>1, <3>2
  <2>2. CASE u # t
    BY <2>2, <1>3 DEF Frames
  <2> QED  BY <2>1, <2>2
<1>8. ASSUME NEW u \in Thread, NEW i \in 1..Len(stack'[u]), Making(u, i)',
             NEW j \in 1..Len(stack'[u]), Making(u, j)', i # j
      PROVE  stack'[u][i].key # stack'[u][j].key
  <2>1. PICK i0 \in 1..Len(stack[u]), j0 \in 1..Len(stack[u]) :
          /\ stack'[u][i] = stack[u][i0] /\ (u = t => i0 + 1 = i) /\ (u # t => i0 = i)
          /\ stack'[u][j] = stack[u][j0] /\ (u = t => j0 + 1 = j) /\ (u # t => j0 = j)
    BY <1>7, <1>8 DEF Making
  <2>2. i0 # j0
    BY <2>1, <1>8
  <2>3. Making(u, i0) /\ Making(u, j0)
    BY <2>1, <1>8 DEF Making
  <2> QED  BY <2>1, <2>2, <2>3 DEF Frames
<1>9. ASSUME NEW u \in Thread, NEW i \in 1..Len(stack'[u]), Making(u, i)'
      PROVE  /\ stack'[u][i].build \in Build
             /\ LET b == stack'[u][i].build
                IN  entries[stack'[u][i].key] = b /\ build[b].phase = "building"
                    /\ build[b].owner = u
  <2>1. PICK i0 \in 1..Len(stack[u]) : stack'[u][i] = stack[u][i0]
    BY <1>7, <1>9 DEF Making
  <2>2. Making(u, i0)
    BY <2>1, <1>9 DEF Making
  <2> QED  BY <2>1, <2>2 DEF Frames, OwnsWhatItBuilds, Making
<1>10. Frames'
  BY <1>7, <1>8, <1>9 DEF Frames
<1>11. Waiting'
  <2>1. ASSUME NEW u \in Thread, NEW i \in 1..Len(stack'[u]), stack'[u][i].at = "waiting"
        PROVE  \E i0 \in 1..Len(stack[u]) : stack'[u][i] = stack[u][i0]
    BY <2>1, <1>7
  <2> QED  BY <2>1 DEF Waiting
<1>12. OwnsWhatItBuilds'
  BY <1>9 DEF OwnsWhatItBuilds, Making
<1>13. EdgesExact'
  <2>1. ~Waits(t) /\ ~Waits(t)'
    <3>1. Head(stack'[t]) = stack'[t][1]
      BY <1>1, <1>2
    <3>2. ~Waits(t)'
      BY <3>1, <1>1, <1>2 DEF Waits, Top
    <3> QED  BY <3>2 DEF Waits, Builds
  <2>2. ASSUME NEW u \in Thread  PROVE (Waits(u)' <=> Waits(u)) /\ (Waits(u) => Top(u)' = Top(u))
    BY <2>1, <1>3 DEF Waits, Busy, Top
  <2> QED  BY <2>2 DEF EdgesExact
<1> QED  BY <1>6, <1>10, <1>11, <1>12, <1>13

(* A call from outside, or from a builder for the next key it needs.       *)
LEMMA PushesAsked ==
  ASSUME IndInv, NEW t \in Thread, Request(t) \/ Recurse(t)
  PROVE  /\ \E k \in Key, c \in Contract :
               Pushed(t, Frame(k, c)) /\ (Busy(t) => k \in LeftOf(Top(t)))
         /\ Busy(t) => Builds(t) /\ Top(t).left # <<>>
<1>1. \A k \in Key, c \in Contract : Frame(k, c) \in FrameRecord
  <2>1. <<>> \in Seq(Key)
    BY EmptySeq
  <2> QED  BY <2>1 DEF Frame, FrameRecord
<1>2. CASE Request(t)
  <2>1. PICK k \in Key, c \in Contract : stack' = [stack EXCEPT ![t] = <<Frame(k, c)>>]
    BY <1>2 DEF Request
  <2>2. stack[t] = <<>> /\ ~Busy(t)
    BY <1>2 DEF Request, Busy
  <2> DEFINE one == <<Frame(k, c)>>
  <2>3. one \in Seq(FrameRecord)
    BY <1>1
  <2> HIDE DEF one
  <2>4. one \o stack[t] = one
    BY <2>2, <2>3, ConcatEmptySeq
  <2>5. stack' = [stack EXCEPT ![t] = one \o @]
    BY <2>1, <2>4 DEF one
  <2>6. Pushed(t, Frame(k, c))
    BY <2>5, <1>1, Pushes DEF one
  <2> QED  BY <2>2, <2>6
<1>3. CASE Recurse(t)
  <2>1. /\ Busy(t) /\ Builds(t) /\ Top(t).left # <<>> /\ Top(t).left \in Seq(Key)
    BY <1>3, TopFacts DEF Recurse, Builds, FrameRecord
  <2>2. Head(Top(t).left) \in Key
    BY <2>1, HeadTailProperties
  <2>3. Head(Top(t).left) \in LeftOf(Top(t))
    <3>1. Len(Top(t).left) \in Nat /\ Len(Top(t).left) > 0
      BY <2>1, LenProperties, EmptySeq
    <3>2. Head(Top(t).left) = Top(t).left[1] /\ 1 \in 1..Len(Top(t).left)
      BY <2>1, <3>1
    <3> QED  BY <3>2 DEF LeftOf
  <2>4. PICK c \in Contract :
          stack' = [stack EXCEPT ![t] = <<Frame(Head(Top(t).left), c)>> \o @]
    BY <1>3 DEF Recurse
  <2>5. Pushed(t, Frame(Head(Top(t).left), c))
    BY <2>2, <2>4, <1>1, Pushes
  <2> QED  BY <2>1, <2>2, <2>3, <2>5
<1> QED  BY <1>2, <1>3

LEMMA AskStep ==
  ASSUME IndInv, NEW t \in Thread, Request(t) \/ Recurse(t)
  PROVE  IndInv'
<1>1. UNCHANGED <<entries, build, waitFor, answers, refused>>
  BY DEF Request, Recurse
<1>2. Busy(t) => Builds(t) /\ Top(t).left # <<>>
  BY PushesAsked
<1>3. PICK k \in Key, c \in Contract : Pushed(t, Frame(k, c))
  BY PushesAsked
<1> QED  BY <1>1, <1>2, <1>3, Asked

(* The innermost frame of a call that asked is replaced.                   *)
LEMMA RetoppedFrames ==
  ASSUME IndInv, NEW t \in Thread, Asks(t), NEW r \in FrameRecord, Retopped(t, r),
         r.at \in {"building", "waiting"},
         r.at = "building" =>
           /\ r.build \in Build
           /\ \A i \in 1..Len(stack[t]) : Making(t, i) => stack[t][i].key # r.key
  PROVE  /\ Frames' /\ stack' \in [Thread -> Seq(FrameRecord)]
         /\ \A u \in Thread : \A i \in 1..Len(stack'[u]) :
              \/ i \in 1..Len(stack[u]) /\ stack'[u][i] = stack[u][i] /\ (u = t => i # 1)
              \/ u = t /\ i = 1 /\ stack'[u][i] = r
         /\ ~Waits(t) /\ Busy(t)' /\ Top(t)' = r
<1> USE DEF IndInv
<1>1. /\ Len(stack[t]) \in Nat /\ 1 \in 1..Len(stack[t]) /\ Top(t) = stack[t][1]
      /\ Top(t).at = "asking"
  BY TopFacts DEF Asks
<1>2. /\ Len(stack'[t]) = Len(stack[t]) /\ stack'[t][1] = r
      /\ \A i \in 2..Len(stack[t]) : stack'[t][i] = stack[t][i]
      /\ stack' \in [Thread -> Seq(FrameRecord)]
      /\ \A u \in Thread \ {t} : stack'[u] = stack[u]
  BY DEF Retopped, Elsewhere
<1>3. ASSUME NEW u \in Thread, NEW i \in 1..Len(stack'[u])
      PROVE  \/ i \in 1..Len(stack[u]) /\ stack'[u][i] = stack[u][i] /\ (u = t => i # 1)
             \/ u = t /\ i = 1 /\ stack'[u][i] = r
  <2>1. CASE u = t
    <3>1. i = 1 \/ i \in 2..Len(stack[t])
      BY <2>1, <1>1, <1>2
    <3> QED  BY <2>1, <3>1, <1>1, <1>2
  <2>2. CASE u # t
    BY <2>2, <1>2
  <2> QED  BY <2>1, <2>2
<1>4. ASSUME NEW u \in Thread, NEW i \in 1..Len(stack'[u])
      PROVE  /\ i > 1 => stack'[u][i].at = "building" /\ stack'[u][i].left # <<>>
             /\ Making(u, i)' => stack'[u][i].build \in Build
  <2>1. CASE i \in 1..Len(stack[u]) /\ stack'[u][i] = stack[u][i]
    BY <2>1 DEF Frames, Making
  <2>2. CASE u = t /\ i = 1 /\ stack'[u][i] = r
    BY <2>2 DEF Making
  <2> QED  BY <2>1, <2>2, <1>3
<1>5. ASSUME NEW u \in Thread, NEW i \in 1..Len(stack'[u]), Making(u, i)',
             NEW j \in 1..Len(stack'[u]), Making(u, j)', i # j
      PROVE  stack'[u][i].key # stack'[u][j].key
  <2>1. CASE /\ i \in 1..Len(stack[u]) /\ stack'[u][i] = stack[u][i]
             /\ j \in 1..Len(stack[u]) /\ stack'[u][j] = stack[u][j]
    BY <2>1, <1>5 DEF Frames, Making
  <2>2. CASE u = t /\ i = 1 /\ stack'[u][i] = r /\ stack'[u][j] = stack[u][j]
             /\ j \in 1..Len(stack[u])
    BY <2>2, <1>5 DEF Making
  <2>3. CASE u = t /\ j = 1 /\ stack'[u][j] = r /\ stack'[u][i] = stack[u][i]
             /\ i \in 1..Len(stack[u])
    BY <2>3, <1>5 DEF Making
  <2> QED  BY <2>1, <2>2, <2>3, <1>3, <1>5
<1>6. Frames'
  BY <1>4, <1>5 DEF Frames
<1>7. ~Waits(t)
  BY DEF Asks, Waits
<1>8. Busy(t)' /\ Top(t)' = r
  <2>1. stack'[t] \in Seq(FrameRecord) /\ Len(stack'[t]) \in Nat /\ Len(stack'[t]) > 0
    BY <1>1, <1>2
  <2>2. stack'[t] # <<>> /\ Head(stack'[t]) = stack'[t][1]
    BY <2>1, EmptySeq
  <2> QED  BY <2>2, <1>2 DEF Busy, Top
<1> QED  BY <1>2, <1>3, <1>6, <1>7, <1>8

LEMMA WaitStep ==
  ASSUME IndInv, NEW t \in Thread, Wait(t)
  PROVE  IndInv'
<1> USE DEF IndInv
<1> DEFINE k == Top(t).key
           b == entries[k]
           r == [Top(t) EXCEPT !.at = "waiting", !.build = b]
<1>1. /\ Asks(t) /\ Busy(t) /\ k \in Key /\ b \in Build /\ build[b].phase = "building"
      /\ Top(t) \in FrameRecord
  BY TopFacts DEF Wait, Agreed, Found, Retained, Asks, TypeOK
<1>2. /\ waitFor' = [waitFor EXCEPT ![t] = [owner |-> build[b].owner, build |-> b]]
      /\ build' = [build EXCEPT ![b].waiters = @ \cup {t}]
      /\ Retop(t, r) /\ UNCHANGED <<entries, answers, refused>>
  BY DEF Wait
<1>3. r \in FrameRecord /\ r.at = "waiting" /\ r.build = b /\ r.key = k
  BY <1>1 DEF FrameRecord
<1>4. Retopped(t, r)
  BY <1>1, <1>2, <1>3, Retops
<1> HIDE DEF r
<1>5. /\ Frames' /\ stack' \in [Thread -> Seq(FrameRecord)]
      /\ \A u \in Thread : \A i \in 1..Len(stack'[u]) :
           \/ i \in 1..Len(stack[u]) /\ stack'[u][i] = stack[u][i] /\ (u = t => i # 1)
           \/ u = t /\ i = 1 /\ stack'[u][i] = r
      /\ ~Waits(t) /\ Busy(t)' /\ Top(t)' = r
  BY <1>1, <1>3, <1>4, RetoppedFrames
<1>6. \A u \in Thread \ {t} : stack'[u] = stack[u]
  BY <1>4 DEF Retopped, Elsewhere
<1>7. build[b] \in BuildRecord /\ b = entries[k]
  BY <1>1 DEF TypeOK
<1> HIDE DEF k, b
<1>8. /\ build' \in [Build -> BuildRecord]
      /\ \A c \in Build : /\ build'[c].phase = build[c].phase
                         /\ build'[c].owner = build[c].owner
                         /\ build[c].waiters \subseteq build'[c].waiters
      /\ t \in build'[b].waiters
  <2> DEFINE s == [build[b] EXCEPT !.waiters = @ \cup {t}]
  <2>1. /\ s \in BuildRecord /\ s.phase = build[b].phase /\ s.owner = build[b].owner
        /\ s.waiters = build[b].waiters \cup {t}
    BY <1>7 DEF BuildRecord
  <2>2. build' = [build EXCEPT ![b] = s]
    BY <1>1, <1>2 DEF TypeOK
  <2> HIDE DEF s
  <2>3. build'[b] = s /\ \A c \in Build \ {b} : build'[c] = build[c]
    BY <1>1, <2>2 DEF TypeOK
  <2>4. build' \in [Build -> BuildRecord]
    BY <1>1, <2>1, <2>2 DEF TypeOK
  <2> QED  BY <2>1, <2>3, <2>4, <1>1
<1>9. /\ waitFor' \in [Thread -> [owner : Thread \cup {Nobody}, build : Build \cup {Nobody}]]
      /\ waitFor'[t] = [owner |-> build[b].owner, build |-> b]
      /\ \A u \in Thread \ {t} : waitFor'[u] = waitFor[u]
  <2>1. build[b].owner \in Thread \cup {Nobody}
    BY <1>7 DEF BuildRecord
  <2> QED  BY <2>1, <1>1, <1>2 DEF TypeOK
<1>10. TypeOK'
  BY <1>2, <1>5, <1>8, <1>9 DEF TypeOK
<1>11. OneKey' /\ Answered'
  BY <1>2, <1>8 DEF OneKey, Answered, TypeOK
<1>12. Waiting'
  <2>1. ASSUME NEW u \in Thread, NEW i \in 1..Len(stack'[u]), stack'[u][i].at = "waiting"
        PROVE  /\ stack'[u][i].build \in Build
               /\ build'[stack'[u][i].build].phase \in {"building", "ready"} =>
                    entries[stack'[u][i].key] = stack'[u][i].build
    <3>1. CASE i \in 1..Len(stack[u]) /\ stack'[u][i] = stack[u][i]
      BY <2>1, <3>1, <1>8 DEF Waiting
    <3>2. CASE stack'[u][i] = r
      BY <3>2, <1>1, <1>3, <1>7
    <3> QED  BY <3>1, <3>2, <1>5
  <2> QED  BY <2>1, <1>2 DEF Waiting
<1>13. OwnsWhatItBuilds'
  <2>1. ASSUME NEW j \in Key, entries[j] # Nobody
        PROVE  build'[entries[j]].phase \in {"building", "ready"}
    <3>1. entries[j] \in Build /\ build[entries[j]].phase \in {"building", "ready"}
      BY <2>1 DEF OwnsWhatItBuilds, TypeOK
    <3> QED  BY <3>1, <1>8
  <2>2. ASSUME NEW u \in Thread, NEW i \in 1..Len(stack'[u]), Making(u, i)'
        PROVE  LET c == stack'[u][i].build
               IN  entries[stack'[u][i].key] = c /\ build'[c].phase = "building"
                   /\ build'[c].owner = u
    <3>1. i \in 1..Len(stack[u]) /\ stack'[u][i] = stack[u][i]
      BY <2>2, <1>3, <1>5 DEF Making
    <3>2. Making(u, i) /\ stack[u][i].build \in Build
      BY <2>2, <3>1 DEF Making, Frames
    <3>3. LET c == stack[u][i].build
          IN  entries[stack[u][i].key] = c /\ build[c].phase = "building" /\ build[c].owner = u
      BY <3>1, <3>2 DEF OwnsWhatItBuilds, Making
    <3> QED  BY <3>1, <3>2, <3>3, <1>8
  <2> QED  BY <2>1, <2>2, <1>2 DEF OwnsWhatItBuilds, Making
<1>14. ASSUME NEW u \in Thread
       PROVE  (IF Waits(u) /\ build[Top(u).build].phase = "building"
               THEN /\ waitFor[u] = [owner |-> build[Top(u).build].owner, build |-> Top(u).build]
                    /\ u \in build[Top(u).build].waiters
               ELSE waitFor[u] = NoEdge)'
  <2>1. CASE u = t
    <3>1. Waits(t)' /\ Top(t)' = r
      BY <1>3, <1>5 DEF Waits
    <3>2. build'[b].phase = "building" /\ build'[b].owner = build[b].owner
      BY <1>1, <1>8
    <3> QED  BY <2>1, <3>1, <3>2, <1>3, <1>8, <1>9
  <2>2. CASE u # t
    <3> DEFINE c == Top(u).build
    <3>1. (Waits(u)' <=> Waits(u)) /\ Top(u)' = Top(u)
      BY <2>2, <1>6 DEF Waits, Busy, Top
    <3>2. Waits(u) => c \in Build
      BY TopFacts DEF Waits, Waiting
    <3>3. CASE Waits(u) /\ build[c].phase = "building"
      <4>1. /\ waitFor[u] = [owner |-> build[c].owner, build |-> c]
            /\ u \in build[c].waiters
        BY <3>3 DEF EdgesExact
      <4>2. /\ build'[c].phase = "building" /\ build'[c].owner = build[c].owner
            /\ u \in build'[c].waiters /\ waitFor'[u] = waitFor[u]
        BY <2>2, <3>2, <3>3, <4>1, <1>8, <1>9
      <4> QED  BY <3>1, <3>3, <4>1, <4>2
    <3>4. CASE ~(Waits(u) /\ build[c].phase = "building")
      <4>1. waitFor'[u] = NoEdge
        BY <2>2, <3>4, <1>9 DEF EdgesExact
      <4>2. Waits(u) => build'[c].phase # "building"
        BY <3>2, <3>4, <1>8
      <4> QED  BY <3>1, <4>1, <4>2
    <3> QED  BY <3>3, <3>4
  <2> QED  BY <2>1, <2>2
<1>15. EdgesExact'
  BY <1>14 DEF EdgesExact
<1> QED  BY <1>5, <1>10, <1>11, <1>12, <1>13, <1>15

(* A new build is one that nothing refers to.                              *)
LEMMA OwnStep ==
  ASSUME IndInv, NEW t \in Thread, Own(t)
  PROVE  IndInv'
<1> USE DEF IndInv
<1> DEFINE k == Top(t).key
           c == Top(t).contract
           b == CHOOSE free \in Build \ Referred : TRUE
           r == [Top(t) EXCEPT !.at = "building", !.build = b, !.left = Deps[k]]
<1>1. /\ Asks(t) /\ Busy(t) /\ k \in Key /\ c \in Contract /\ entries[k] = Nobody
      /\ Top(t) \in FrameRecord
  BY TopFacts DEF Own, Asks
<1>2. /\ Build \ Referred # {}
      /\ entries' = [entries EXCEPT ![k] = b]
      /\ build' = [build EXCEPT ![b] =
           [contract |-> c, phase |-> "building", owner |-> t, waiters |-> {}]]
      /\ Retop(t, r) /\ UNCHANGED <<waitFor, answers, refused>>
  BY DEF Own, StartBuild
<1>3. b \in Build /\ b \notin Referred
  BY <1>2
<1> HIDE DEF b
<1>4. /\ \A j \in Key : entries[j] # b
      /\ \A u \in Thread : \A i \in 1..Len(stack[u]) : stack[u][i].build # b
  BY <1>3 DEF Referred
<1>5. b # Nobody /\ Deps[k] \in Seq(Key)
  BY <1>1, <1>3, NobodyAssumption, DepsAssumption
<1>6. r \in FrameRecord /\ r.at = "building" /\ r.build = b /\ r.key = k
  BY <1>1, <1>3, <1>5 DEF FrameRecord
<1>7. Retopped(t, r)
  BY <1>1, <1>2, <1>6, Retops
<1> HIDE DEF r, k, c
<1>8. ASSUME NEW i \in 1..Len(stack[t]), Making(t, i)
      PROVE  stack[t][i].key # k
  <2>1. entries[stack[t][i].key] = stack[t][i].build /\ stack[t][i].build \in Build
    BY <1>8 DEF OwnsWhatItBuilds, Making, Frames
  <2> QED  BY <2>1, <1>1, NobodyAssumption
<1>9. /\ Frames' /\ stack' \in [Thread -> Seq(FrameRecord)]
      /\ \A u \in Thread : \A i \in 1..Len(stack'[u]) :
           \/ i \in 1..Len(stack[u]) /\ stack'[u][i] = stack[u][i] /\ (u = t => i # 1)
           \/ u = t /\ i = 1 /\ stack'[u][i] = r
      /\ ~Waits(t) /\ Busy(t)' /\ Top(t)' = r
  BY <1>1, <1>3, <1>6, <1>7, <1>8, RetoppedFrames
<1>10. \A u \in Thread \ {t} : stack'[u] = stack[u]
  BY <1>7 DEF Retopped, Elsewhere
<1>11. /\ build' \in [Build -> BuildRecord]
       /\ build'[b].phase = "building" /\ build'[b].owner = t
       /\ \A d \in Build \ {b} : build'[d] = build[d]
  <2> DEFINE new == [contract |-> c, phase |-> "building", owner |-> t, waiters |-> {}]
  <2>1. new \in BuildRecord /\ new.phase = "building" /\ new.owner = t
    BY <1>1 DEF BuildRecord, Phase
  <2>2. build' = [build EXCEPT ![b] = new]
    BY <1>2
  <2> HIDE DEF new
  <2> QED  BY <2>1, <2>2, <1>3 DEF TypeOK
<1>12. /\ entries' \in [Key -> Build \cup {Nobody}]
       /\ entries'[k] = b /\ \A j \in Key \ {k} : entries'[j] = entries[j]
  BY <1>1, <1>2, <1>3 DEF TypeOK
<1>13. TypeOK'
  BY <1>2, <1>9, <1>11, <1>12 DEF TypeOK
<1>14. OneKey'
  <2>1. ASSUME NEW i \in Key, NEW j \in Key, i # j, entries'[i] # Nobody
        PROVE  entries'[i] # entries'[j]
    <3>1. CASE i = k
      BY <2>1, <3>1, <1>4, <1>12
    <3>2. CASE j = k
      BY <2>1, <3>2, <1>4, <1>12
    <3>3. CASE i # k /\ j # k
      BY <2>1, <3>3, <1>12 DEF OneKey
    <3> QED  BY <3>1, <3>2, <3>3
  <2> QED  BY <2>1 DEF OneKey
<1>15. Answered'
  <2>1. ASSUME NEW a \in answers
        PROVE  entries'[a[1]] = a[2] /\ build'[a[2]].phase = "ready"
    <3>1. a[1] \in Key /\ a[2] \in Build /\ entries[a[1]] = a[2] /\ build[a[2]].phase = "ready"
      BY DEF Answered, TypeOK
    <3>2. a[2] # b /\ a[1] # k
      BY <3>1, <1>1, <1>4, NobodyAssumption
    <3> QED  BY <3>1, <3>2, <1>11, <1>12
  <2> QED  BY <2>1, <1>2 DEF Answered
<1>16. Waiting'
  <2>1. ASSUME NEW u \in Thread, NEW i \in 1..Len(stack'[u]), stack'[u][i].at = "waiting"
        PROVE  /\ stack'[u][i].build \in Build
               /\ build'[stack'[u][i].build].phase \in {"building", "ready"} =>
                    entries'[stack'[u][i].key] = stack'[u][i].build
    <3>1. i \in 1..Len(stack[u]) /\ stack'[u][i] = stack[u][i]
      BY <2>1, <1>6, <1>9
    <3> DEFINE f == stack[u][i]
    <3>2. f.build \in Build /\ f.build # b /\ f.key \in Key
      BY <2>1, <3>1, <1>4, StackTypes DEF Waiting, FrameRecord
    <3>3. build[f.build].phase \in {"building", "ready"} => entries[f.key] = f.build
      BY <2>1, <3>1 DEF Waiting
    <3>4. build'[f.build] = build[f.build]
      BY <3>2, <1>11
    <3>5. entries[f.key] = f.build => entries'[f.key] = f.build
      BY <3>2, <1>1, <1>12, NobodyAssumption
    <3> QED  BY <3>1, <3>2, <3>3, <3>4, <3>5
  <2> QED  BY <2>1 DEF Waiting
<1>17. OwnsWhatItBuilds'
  <2>1. ASSUME NEW j \in Key, entries'[j] # Nobody
        PROVE  build'[entries'[j]].phase \in {"building", "ready"}
    <3>1. CASE j = k
      BY <3>1, <1>11, <1>12
    <3>2. CASE j # k
      <4>1. /\ entries'[j] = entries[j] /\ entries[j] \in Build /\ entries[j] # b
            /\ build[entries[j]].phase \in {"building", "ready"}
        BY <2>1, <3>2, <1>4, <1>12 DEF OwnsWhatItBuilds, TypeOK
      <4> QED  BY <4>1, <1>11
    <3> QED  BY <3>1, <3>2
  <2>2. ASSUME NEW u \in Thread, NEW i \in 1..Len(stack'[u]), Making(u, i)'
        PROVE  LET d == stack'[u][i].build
               IN  entries'[stack'[u][i].key] = d /\ build'[d].phase = "building"
                   /\ build'[d].owner = u
    <3>1. CASE i \in 1..Len(stack[u]) /\ stack'[u][i] = stack[u][i]
      <4> DEFINE f == stack[u][i]
      <4>1. Making(u, i) /\ f.build \in Build /\ f.build # b /\ f.key \in Key
        BY <2>2, <3>1, <1>4, StackTypes DEF Making, Frames, FrameRecord
      <4>2. entries[f.key] = f.build /\ build[f.build].phase = "building"
            /\ build[f.build].owner = u
        BY <3>1, <4>1 DEF OwnsWhatItBuilds, Making
      <4>3. f.key # k
        BY <4>1, <4>2, <1>1, NobodyAssumption
      <4> HIDE DEF f
      <4>4. entries'[f.key] = f.build /\ build'[f.build] = build[f.build]
        BY <4>1, <4>2, <4>3, <1>11, <1>12
      <4>5. stack'[u][i] = f
        BY <3>1 DEF f
      <4> QED  BY <4>2, <4>4, <4>5
    <3>2. CASE u = t /\ stack'[u][i] = r
      BY <3>2, <1>6, <1>11, <1>12
    <3> QED  BY <3>1, <3>2, <1>9
  <2> QED  BY <2>1, <2>2 DEF OwnsWhatItBuilds, Making
<1>18. ASSUME NEW u \in Thread
       PROVE  (IF Waits(u) /\ build[Top(u).build].phase = "building"
               THEN /\ waitFor[u] = [owner |-> build[Top(u).build].owner, build |-> Top(u).build]
                    /\ u \in build[Top(u).build].waiters
               ELSE waitFor[u] = NoEdge)'
  <2>1. CASE u = t
    <3>1. waitFor[t] = NoEdge
      BY <1>9 DEF EdgesExact
    <3>2. ~Waits(t)'
      BY <1>6, <1>9 DEF Waits
    <3> QED  BY <2>1, <3>1, <3>2, <1>2
  <2>2. CASE u # t
    <3>1. (Waits(u)' <=> Waits(u)) /\ Top(u)' = Top(u) /\ waitFor'[u] = waitFor[u]
      BY <2>2, <1>2, <1>10 DEF Waits, Busy, Top
    <3>2. Waits(u) => Top(u).build \in Build /\ Top(u).build # b
      BY <1>4, TopFacts DEF Waits, Waiting
    <3>3. Waits(u) => build'[Top(u).build] = build[Top(u).build]
      BY <3>2, <1>11
    <3>4. IF Waits(u) /\ build[Top(u).build].phase = "building"
          THEN /\ waitFor[u] = [owner |-> build[Top(u).build].owner, build |-> Top(u).build]
               /\ u \in build[Top(u).build].waiters
          ELSE waitFor[u] = NoEdge
      BY DEF EdgesExact
    <3> QED  BY <3>1, <3>3, <3>4
  <2> QED  BY <2>1, <2>2
<1>19. EdgesExact'
  BY <1>18 DEF EdgesExact
<1> QED  BY <1>9, <1>13, <1>14, <1>15, <1>16, <1>17, <1>19

(* A call that finds the key retained returns or throws at once.           *)
LEMMA FoundStep ==
  ASSUME IndInv, NEW t \in Thread, ContractChanged(t) \/ Hit(t) \/ RefuseCycle(t)
  PROVE  IndInv'
<1> USE DEF IndInv
<1> DEFINE k == Top(t).key
<1>1. /\ Asks(t) /\ Busy(t) /\ entries[k] # Nobody /\ k \in Key
      /\ (Returns(t) \/ Throws(t)) /\ UNCHANGED <<entries, build, waitFor>>
  BY TopFacts DEF ContractChanged, Hit, RefuseCycle, Agreed, Found, Asks
<1>2. Popped(t)
  BY <1>1, Pops
<1>3. entries[k] \in Build
  BY <1>1 DEF TypeOK
<1>4. waitFor[t] = NoEdge
  BY <1>1 DEF EdgesExact, Waits, Asks
<1>5. /\ answers' \subseteq Key \X Build /\ refused' \subseteq Key
      /\ \A a \in answers' : a \in answers \/ (entries[a[1]] = a[2] /\ build[a[2]].phase = "ready")
  <2>1. CASE ContractChanged(t)
    BY <2>1 DEF ContractChanged, TypeOK
  <2>2. CASE Hit(t)
    <3>1. /\ build[entries[k]].phase = "ready" /\ answers' = answers \cup {<<k, entries[k]>>}
          /\ refused' = refused
      BY <2>2 DEF Hit, Retained
    <3> QED  BY <3>1, <1>1, <1>3 DEF TypeOK
  <2>3. CASE RefuseCycle(t)
    BY <2>3, <1>1 DEF RefuseCycle, TypeOK
  <2> QED  BY <2>1, <2>2, <2>3
<1> QED  BY <1>1, <1>2, <1>4, <1>5, EndsQuietly DEF TypeOK

LEMMA WakeStep ==
  ASSUME IndInv, NEW t \in Thread, Wake(t)
  PROVE  IndInv'
<1> USE DEF IndInv
<1> DEFINE k == Top(t).key
           b == Top(t).build
<1>1. /\ Waits(t) /\ Busy(t) /\ k \in Key /\ b \in Build /\ build[b].phase # "building"
      /\ build[b].phase \in {"building", "ready"} => entries[k] = b
  BY TopFacts DEF Wake, Waits, Waiting
<1>2. /\ waitFor' = [waitFor EXCEPT ![t] = IF waitFor[t].build = b THEN NoEdge ELSE waitFor[t]]
      /\ build' = [build EXCEPT ![b].waiters = @ \ {t}]
      /\ \/ build[b].phase = "ready" /\ answers' = answers \cup {<<k, b>>} /\ Returns(t)
         \/ Throws(t) /\ UNCHANGED answers
      /\ UNCHANGED <<entries, refused>>
  BY DEF Wake
<1>3. Popped(t)
  BY <1>1, <1>2, Pops
<1>4. waitFor[t] = NoEdge
  BY <1>1 DEF EdgesExact
<1> HIDE DEF k, b
<1>5. waitFor' = waitFor
  <2>1. waitFor' = [waitFor EXCEPT ![t] = NoEdge]
    BY <1>2, <1>4
  <2> QED  BY <2>1, <1>4 DEF TypeOK
<1>6. /\ build' \in [Build -> BuildRecord]
      /\ \A c \in Build : /\ build'[c].phase = build[c].phase
                         /\ build'[c].owner = build[c].owner
                         /\ build[c].waiters \ {t} \subseteq build'[c].waiters
  <2> DEFINE s == [build[b] EXCEPT !.waiters = @ \ {t}]
  <2>1. build[b] \in BuildRecord
    BY <1>1 DEF TypeOK
  <2>2. /\ s \in BuildRecord /\ s.phase = build[b].phase /\ s.owner = build[b].owner
        /\ s.waiters = build[b].waiters \ {t}
    BY <2>1 DEF BuildRecord
  <2>3. build' = [build EXCEPT ![b] = s]
    BY <1>1, <1>2 DEF TypeOK
  <2> HIDE DEF s
  <2> QED  BY <2>2, <2>3, <1>1 DEF TypeOK
<1>7. /\ answers' \subseteq Key \X Build
      /\ \A a \in answers' : a \in answers \/ (entries[a[1]] = a[2] /\ build[a[2]].phase = "ready")
  BY <1>1, <1>2 DEF TypeOK
<1>8. refused' \subseteq Key /\ entries' = entries
  BY <1>2 DEF TypeOK
<1>9. /\ waitFor' \in [Thread -> [owner : Thread \cup {Nobody}, build : Build \cup {Nobody}]]
      /\ \A u \in Thread \ {t} : waitFor'[u] = waitFor[u]
      /\ waitFor'[t] = NoEdge
  BY <1>4, <1>5 DEF TypeOK
<1> QED  BY <1>1, <1>3, <1>6, <1>7, <1>8, <1>9, EndsQuietly

LEMMA BuilderStep ==
  ASSUME IndInv, NEW t \in Thread, Publish(t) \/ Fail(t)
  PROVE  IndInv'
<1> USE DEF IndInv
<1>1. CASE Publish(t)
  <2>1. /\ Busy(t) /\ Top(t).at = "building" /\ Returns(t) /\ ClearWaiters(Top(t).build)
        /\ UNCHANGED <<entries, refused>>
        /\ answers' = answers \cup {<<Top(t).key, Top(t).build>>}
    BY <1>1 DEF Publish, Builds
  <2>2. Popped(t) /\ Making(t, 1)
    BY <2>1, Pops, TopFacts DEF Making
  <2>3. Ends(t, "ready")
    BY <2>1, <2>2, <1>1 DEF Ends, Publish
  <2> QED  BY <2>1, <2>3, BuilderEnds
<1>2. CASE Fail(t)
  <2>1. /\ Busy(t) /\ Top(t).at \in {"building", "failing"} /\ Throws(t)
        /\ ClearWaiters(Top(t).build) /\ UNCHANGED <<answers, refused>>
        /\ entries' = [entries EXCEPT ![Top(t).key] = Nobody]
    BY <1>2 DEF Fail
  <2>2. Popped(t) /\ Making(t, 1)
    BY <2>1, Pops, TopFacts DEF Making
  <2>3. Ends(t, "failed")
    BY <2>1, <2>2, <1>2 DEF Ends, Fail
  <2> QED  BY <2>1, <2>3, BuilderEnds
<1> QED  BY <1>1, <1>2

LEMMA NextIndInv == IndInv /\ [Next]_vars => IndInv'
<1> SUFFICES ASSUME IndInv, [Next]_vars  PROVE IndInv'
  OBVIOUS
<1>1. CASE UNCHANGED vars
  <2> USE <1>1 DEF vars, IndInv
  <2>1. TypeOK' /\ OneKey' /\ Answered'
    BY DEF TypeOK, OneKey, Answered
  <2>2. Frames' /\ Waiting'
    BY DEF Frames, Making, Waiting
  <2>3. OwnsWhatItBuilds'
    BY DEF OwnsWhatItBuilds
  <2>4. EdgesExact'
    BY DEF EdgesExact, Waits, Busy, Top
  <2> QED  BY <2>1, <2>2, <2>3, <2>4
<1>2. ASSUME NEW t \in Thread, Request(t) \/ Call(t)  PROVE IndInv'
  BY <1>2, AskStep, FoundStep, WaitStep, WakeStep, OwnStep, BuilderStep DEF Call
<1> QED  BY <1>1, <1>2 DEF Next

LEMMA SpecIndInv == Spec => []IndInv
BY InitIndInv, NextIndInv, PTL DEF Spec

------------------------------------------------------------------------------
(* No interleaving of calls, failures and retries takes a build from the   *)
(* thread in whose builder it is, or retains one that failed.              *)
THEOREM OneBuilder == Spec => []OwnsWhatItBuilds
<1>1. IndInv => OwnsWhatItBuilds
  BY DEF IndInv
<1> QED  BY <1>1, SpecIndInv, PTL

(* wait_for_ has an edge exactly while its thread waits for a build in     *)
(* flight, and the edge leads to the thread that builds it.                *)
THEOREM EdgesAreExact == Spec => []EdgesExact
<1>1. IndInv => EdgesExact
  BY DEF IndInv
<1> QED  BY <1>1, SpecIndInv, PTL

(* Two calls for a key never return different values, however far apart.   *)
THEOREM AnswersNeverDiffer == Spec => []AnswersAgree
<1>1. IndInv => AnswersAgree
  BY DEF IndInv, Answered, AnswersAgree
<1> QED  BY <1>1, SpecIndInv, PTL

------------------------------------------------------------------------------
(* The cache implements the table.                                         *)
LEMMA SameTable ==
  ASSUME IndInv, entries' = entries,
         \A b \in Build : build'[b].phase = build[b].phase /\ build'[b].owner = build[b].owner
  PROVE  Made' = Made /\ Builder' = Builder
<1>1. \A k \in Key : entries[k] # Nobody => entries[k] \in Build
  BY DEF IndInv, TypeOK
<1>2. \A k \in Key : (Holds(k, "ready")' <=> Holds(k, "ready"))
                    /\ (Holds(k, "building")' <=> Holds(k, "building"))
  BY <1>1 DEF Holds
<1>3. \A k \in Key : Holds(k, "building") => build'[entries[k]].owner = build[entries[k]].owner
  BY <1>1 DEF Holds
<1> QED  BY <1>2, <1>3 DEF Made, Builder

(* What the table shows of a key after its entry or its build changed, and *)
(* of the other keys.                                                      *)
LEMMA OneEntry ==
  ASSUME IndInv, IndInv', NEW k \in Key, NEW b \in Build,
         \A j \in Key \ {k} : entries'[j] = entries[j] /\ entries[j] # b,
         \A c \in Build \ {b} : build'[c] = build[c]
  PROVE  \A j \in Key \ {k} : Made'[j] = Made[j] /\ Builder'[j] = Builder[j]
<1> SUFFICES ASSUME NEW j \in Key \ {k}
             PROVE  Made'[j] = Made[j] /\ Builder'[j] = Builder[j]
  OBVIOUS
<1>1. entries'[j] = entries[j] /\ (entries[j] # Nobody => entries[j] \in Build \ {b})
  BY DEF IndInv, TypeOK
<1>2. entries[j] # Nobody => build'[entries[j]] = build[entries[j]]
  BY <1>1
<1> QED  BY <1>1, <1>2 DEF Made, Builder, Holds

LEMMA TableInit == Init => Table!Init
BY DEF Init, Table!Init, Made, Builder, Holds

LEMMA TableAnswers ==
  ASSUME IndInv, NEW t \in Thread, Busy(t), entries[Top(t).key] # Nobody,
         build[entries[Top(t).key]].phase = "ready", Made' = Made, Builder' = Builder,
         answers' = answers \cup {<<Top(t).key, entries[Top(t).key]>>}
  PROVE  Table!Next
<1> DEFINE k == Top(t).key
<1>1. k \in Key
  BY TopFacts
<1>2. Made[k] = entries[k] /\ Made[k] # Nobody
  BY <1>1 DEF Made, Holds
<1>3. Table!Answer(k)
  BY <1>2 DEF Table!Answer
<1> QED  BY <1>1, <1>3 DEF Table!Next

LEMMA TableBegins ==
  ASSUME IndInv, IndInv', NEW t \in Thread, Own(t)
  PROVE  Table!Next
<1> DEFINE k == Top(t).key
           b == CHOOSE free \in Build \ Referred : TRUE
<1>1. /\ k \in Key /\ entries[k] = Nobody
  BY TopFacts DEF Own, Asks
<1>2. /\ Build \ Referred # {}
      /\ entries' = [entries EXCEPT ![k] = b]
      /\ build' = [build EXCEPT ![b] = [contract |-> Top(t).contract, phase |-> "building",
                                       owner |-> t, waiters |-> {}]]
      /\ answers' = answers
  BY DEF Own, StartBuild
<1>3. b \in Build /\ b \notin Referred
  BY <1>2
<1> HIDE DEF b, k
<1>4. b # Nobody /\ \A j \in Key : entries[j] # b
  BY <1>3, NobodyAssumption DEF Referred
<1>5. entries'[k] = b /\ \A j \in Key \ {k} : entries'[j] = entries[j]
  BY <1>1, <1>2 DEF IndInv, TypeOK
<1>6. /\ build'[b].phase = "building" /\ build'[b].owner = t
      /\ \A c \in Build \ {b} : build'[c] = build[c]
  BY <1>2, <1>3 DEF IndInv, TypeOK
<1>7. \A j \in Key \ {k} : Made'[j] = Made[j] /\ Builder'[j] = Builder[j]
  BY <1>1, <1>3, <1>4, <1>5, <1>6, OneEntry
<1>8. /\ Made[k] = Nobody /\ Builder[k] = Nobody
      /\ Made'[k] = Nobody /\ Builder'[k] = t
  BY <1>1, <1>4, <1>5, <1>6 DEF Made, Builder, Holds
<1>9. Made' = Made /\ Builder' = [Builder EXCEPT ![k] = t]
  BY <1>7, <1>8 DEF Made, Builder
<1>10. Table!Begin(k)
  BY <1>2, <1>8, <1>9 DEF Table!Begin
<1> QED  BY <1>1, <1>10 DEF Table!Next

LEMMA TableEnds ==
  ASSUME IndInv, IndInv', NEW t \in Thread, Publish(t) \/ Fail(t)
  PROVE  Table!Next
<1> USE DEF IndInv
<1> DEFINE k == Top(t).key
           b == Top(t).build
<1>1. Busy(t) /\ Top(t).at \in {"building", "failing"}
  BY DEF Publish, Fail, Builds
<1>2. k \in Key /\ Top(t) = stack[t][1] /\ 1 \in 1..Len(stack[t]) /\ Making(t, 1)
  BY <1>1, TopFacts DEF Making
<1>3. /\ b \in Build /\ entries[k] = b /\ build[b].phase = "building" /\ build[b].owner = t
  BY <1>2 DEF Frames, OwnsWhatItBuilds, Making
<1>4. \/ /\ build' = [build EXCEPT ![b].phase = "ready", ![b].owner = Nobody, ![b].waiters = {}]
         /\ entries' = entries /\ answers' = answers \cup {<<k, b>>}
      \/ /\ build' = [build EXCEPT ![b].phase = "failed", ![b].owner = Nobody, ![b].waiters = {}]
         /\ entries' = [entries EXCEPT ![k] = Nobody] /\ answers' = answers
  BY DEF Publish, Fail
<1> HIDE DEF k, b
<1>5. \A c \in Build \ {b} : build'[c] = build[c]
  BY <1>3, <1>4 DEF TypeOK
<1>6. b # Nobody /\ t # Nobody
  BY <1>3, NobodyAssumption
<1>7. \A j \in Key \ {k} : entries'[j] = entries[j] /\ entries[j] # b
  BY <1>2, <1>3, <1>4, <1>6 DEF OneKey, TypeOK
<1>8. \A j \in Key \ {k} : Made'[j] = Made[j] /\ Builder'[j] = Builder[j]
  BY <1>2, <1>3, <1>5, <1>7, OneEntry
<1>9. Made[k] = Nobody /\ Builder[k] = t
  BY <1>2, <1>3, <1>6 DEF Made, Builder, Holds
<1>10. CASE /\ build' = [build EXCEPT ![b].phase = "ready", ![b].owner = Nobody, ![b].waiters = {}]
            /\ entries' = entries /\ answers' = answers \cup {<<k, b>>}
  <2>1. build'[b].phase = "ready"
    BY <1>3, <1>10 DEF TypeOK, BuildRecord
  <2>2. Made'[k] = b /\ Builder'[k] = Nobody
    BY <2>1, <1>2, <1>3, <1>6, <1>10 DEF Made, Builder, Holds
  <2>3. Made' = [Made EXCEPT ![k] = b] /\ Builder' = [Builder EXCEPT ![k] = Nobody]
    BY <2>2, <1>8 DEF Made, Builder
  <2>4. Table!Finish(k)
    BY <2>3, <1>3, <1>6, <1>9, <1>10 DEF Table!Finish
  <2> QED  BY <2>4, <1>2 DEF Table!Next
<1>11. CASE entries' = [entries EXCEPT ![k] = Nobody] /\ answers' = answers
  <2>1. entries'[k] = Nobody
    BY <1>2, <1>11 DEF TypeOK
  <2>2. Made'[k] = Nobody /\ Builder'[k] = Nobody
    BY <2>1, <1>2 DEF Made, Builder, Holds
  <2>3. Made' = Made /\ Builder' = [Builder EXCEPT ![k] = Nobody]
    BY <2>2, <1>8, <1>9 DEF Made, Builder
  <2>4. Table!Abandon(k)
    BY <2>3, <1>6, <1>9, <1>11 DEF Table!Abandon
  <2> QED  BY <2>4, <1>2 DEF Table!Next
<1> QED  BY <1>4, <1>10, <1>11

LEMMA TableWakes ==
  ASSUME IndInv, NEW t \in Thread, Wake(t)
  PROVE  Table!Next \/ UNCHANGED <<Made, Builder, answers>>
<1> DEFINE k == Top(t).key
           b == Top(t).build
<1>1. /\ Busy(t) /\ k \in Key /\ b \in Build /\ b # Nobody
      /\ build[b].phase = "ready" => entries[k] = b
  BY TopFacts, NobodyAssumption DEF Wake, Waits, Waiting, IndInv
<1>2. /\ build' = [build EXCEPT ![b].waiters = @ \ {t}] /\ entries' = entries
      /\ \/ build[b].phase = "ready" /\ answers' = answers \cup {<<k, b>>}
         \/ UNCHANGED answers
  BY DEF Wake
<1>3. \A c \in Build : build'[c].phase = build[c].phase /\ build'[c].owner = build[c].owner
  <2> DEFINE s == [build[b] EXCEPT !.waiters = @ \ {t}]
  <2>1. build[b] \in BuildRecord
    BY <1>1 DEF IndInv, TypeOK
  <2>2. s.phase = build[b].phase /\ s.owner = build[b].owner
    BY <2>1 DEF BuildRecord
  <2>3. build' = [build EXCEPT ![b] = s]
    BY <1>1, <1>2 DEF IndInv, TypeOK
  <2> HIDE DEF s, b
  <2> QED  BY <2>2, <2>3, <1>1 DEF IndInv, TypeOK
<1>4. Made' = Made /\ Builder' = Builder
  BY <1>2, <1>3, SameTable
<1>5. CASE build[b].phase = "ready" /\ answers' = answers \cup {<<k, b>>}
  BY <1>1, <1>4, <1>5, TableAnswers
<1>6. CASE UNCHANGED answers
  BY <1>4, <1>6
<1> QED  BY <1>2, <1>5, <1>6

LEMMA TableWaits ==
  ASSUME IndInv, NEW t \in Thread, Wait(t)
  PROVE  UNCHANGED <<Made, Builder, answers>>
<1> DEFINE b == entries[Top(t).key]
<1>1. b \in Build /\ entries' = entries /\ answers' = answers
      /\ build' = [build EXCEPT ![b].waiters = @ \cup {t}]
  BY TopFacts DEF Wait, Agreed, Found, Asks, IndInv, TypeOK
<1>2. \A c \in Build : build'[c].phase = build[c].phase /\ build'[c].owner = build[c].owner
  <2> DEFINE s == [build[b] EXCEPT !.waiters = @ \cup {t}]
  <2>1. build[b] \in BuildRecord
    BY <1>1 DEF IndInv, TypeOK
  <2>2. s.phase = build[b].phase /\ s.owner = build[b].owner
    BY <2>1 DEF BuildRecord
  <2>3. build' = [build EXCEPT ![b] = s]
    BY <1>1 DEF IndInv, TypeOK
  <2> HIDE DEF s, b
  <2> QED  BY <2>2, <2>3, <1>1 DEF IndInv, TypeOK
<1> QED  BY <1>1, <1>2, SameTable

LEMMA TableStep ==
  ASSUME IndInv, IndInv', [Next]_vars
  PROVE  [Table!Next]_<<Made, Builder, answers>>
<1>1. CASE UNCHANGED vars
  BY <1>1, SameTable DEF vars
<1>2. ASSUME NEW t \in Thread, Request(t) \/ Call(t)
      PROVE  Table!Next \/ UNCHANGED <<Made, Builder, answers>>
  <2>1. CASE Request(t) \/ Recurse(t) \/ ContractChanged(t) \/ RefuseCycle(t)
    BY <2>1, SameTable DEF Request, Recurse, ContractChanged, RefuseCycle
  <2>2. CASE Hit(t)
    <3>1. /\ Busy(t) /\ entries[Top(t).key] # Nobody
          /\ build[entries[Top(t).key]].phase = "ready"
          /\ answers' = answers \cup {<<Top(t).key, entries[Top(t).key]>>}
          /\ UNCHANGED <<entries, build>>
      BY <2>2 DEF Hit, Agreed, Found, Asks, Retained
    <3>2. Made' = Made /\ Builder' = Builder
      BY <3>1, SameTable
    <3> QED  BY <3>1, <3>2, TableAnswers
  <2>3. CASE Wait(t)
    BY <2>3, TableWaits
  <2>4. CASE Wake(t)
    BY <2>4, TableWakes
  <2>5. CASE Own(t)
    BY <2>5, TableBegins
  <2>6. CASE Publish(t) \/ Fail(t)
    BY <2>6, TableEnds
  <2> QED  BY <1>2, <2>1, <2>2, <2>3, <2>4, <2>5, <2>6 DEF Call
<1> QED  BY <1>1, <1>2 DEF Next

(* get_or_build implements the table: for a key, one builder at a time,    *)
(* then one value for good, whatever overlaps, fails or is retried.        *)
THEOREM CacheImplementsTable == Spec => ImplementsTable
<1>1. IndInv /\ IndInv' /\ [Next]_vars => [Table!Next]_<<Made, Builder, answers>>
  BY TableStep
<1> QED  BY <1>1, TableInit, SpecIndInv, PTL DEF Spec, ImplementsTable, Table!Spec

------------------------------------------------------------------------------
(* Circles of waits.  No set of threads all wait for one another: a thread *)
(* that begins to wait would find itself behind the owner of the build,    *)
(* since what register_wait_locked visits reaches as far as a path without *)
(* repetition can.                                                         *)
Edge(t) == waitFor[t].owner

Acyclic == \A S \in SUBSET Thread : S # {} => \E t \in S : Edge(t) \notin S

Steps == Cardinality(Thread)

IsVisit(f, first, n) ==
  f = [i \in 0..n |-> IF i = 0 THEN first
                      ELSE IF f[i - 1] = Nobody THEN Nobody ELSE waitFor[f[i - 1]].owner]

LEMMA LeastElement ==
  ASSUME NEW S \in SUBSET Nat, S # {}
  PROVE  \E n \in S : \A m \in S : n <= m
<1>1. PICK n \in S : \A m \in S : <<m, n>> \notin OpToRel(<, Nat)
  BY WFMin, NatLessThanWellFounded, Zenon
<1>2. \A m \in S : ~(m < n)
  <2> TAKE m \in S
  <2>1. n \in Nat /\ m \in Nat /\ <<m, n>>[1] = m /\ <<m, n>>[2] = n /\ <<m, n>> \in Nat \X Nat
    OBVIOUS
  <2> QED  BY <1>1, <2>1, Zenon DEF OpToRel
<1> QED  BY <1>2

LEMMA StepsNat == Steps \in Nat
BY ThreadAssumption, FS_CardinalityType DEF Steps

LEMMA VisitExists ==
  ASSUME NEW first, NEW n \in Nat
  PROVE  \E f : IsVisit(f, first, n)
<1> DEFINE Missing == {m \in Nat : ~\E f : IsVisit(f, first, m)}
<1> SUFFICES ASSUME Missing # {}  PROVE FALSE
  OBVIOUS
<1>1. PICK m \in Missing : \A k \in Missing : m <= k
  BY LeastElement
<1>2. m \in Nat /\ ~\E f : IsVisit(f, first, m)
  OBVIOUS
<1>3. CASE m = 0
  <2> DEFINE f == [i \in 0..0 |-> first]
  <2>1. IsVisit(f, first, 0)
    BY DEF IsVisit
  <2> HIDE DEF f
  <2> QED  BY <1>2, <1>3, <2>1
<1>4. CASE m # 0
  <2>1. m - 1 \in Nat /\ m - 1 \notin Missing
    BY <1>1, <1>2, <1>4
  <2>2. PICK f : IsVisit(f, first, m - 1)
    BY <2>1
  <2> DEFINE last == IF f[m - 1] = Nobody THEN Nobody ELSE waitFor[f[m - 1]].owner
             g == [i \in 0..m |-> IF i = m THEN last ELSE f[i]]
  <2> HIDE DEF last
  <2>3. \A i \in 0..(m - 1) : g[i] = f[i]
    BY <1>2
  <2>4. g[m] = last /\ g[m - 1] = f[m - 1]
    BY <1>2, <1>4
  <2>5. \A i \in 0..(m - 1) :
          f[i] = IF i = 0 THEN first
                 ELSE IF f[i - 1] = Nobody THEN Nobody ELSE waitFor[f[i - 1]].owner
    BY <2>2 DEF IsVisit
  <2>6. ASSUME NEW i \in 0..m
        PROVE  g[i] = IF i = 0 THEN first
                      ELSE IF g[i - 1] = Nobody THEN Nobody ELSE waitFor[g[i - 1]].owner
    <3>1. CASE i = m
      BY <3>1, <2>4, <1>4 DEF last
    <3>2. CASE i # m
      <4>1. i \in 0..(m - 1) /\ (i # 0 => i - 1 \in 0..(m - 1))
        BY <3>2, <1>2
      <4> QED  BY <4>1, <2>3, <2>5
    <3> QED  BY <3>1, <3>2
  <2>7. g = [i \in 0..m |-> g[i]]
    OBVIOUS
  <2> HIDE DEF g
  <2>8. IsVisit(g, first, m)
    BY <2>6, <2>7 DEF IsVisit
  <2> QED  BY <2>8, <1>2
<1> QED  BY <1>3, <1>4

(* What register_wait_locked visits, as a sequence.                        *)
LEMMA ChainVisits ==
  ASSUME NEW first
  PROVE  \E f : /\ Chain(first) = {f[i] : i \in 0..Steps} \ {Nobody}
                /\ f[0] = first
                /\ \A i \in 0..(Steps - 1) :
                     f[i + 1] = IF f[i] = Nobody THEN Nobody ELSE Edge(f[i])
<1>1. Steps \in Nat
  BY StepsNat
<1>2. \E f : IsVisit(f, first, Steps)
  BY <1>1, VisitExists
<1>3. PICK f : IsVisit(f, first, Steps) /\ Chain(first) = {f[i] : i \in 0..Steps} \ {Nobody}
  BY <1>2 DEF Chain, IsVisit, Steps
<1>4. \A i \in 0..Steps :
        f[i] = IF i = 0 THEN first
               ELSE IF f[i - 1] = Nobody THEN Nobody ELSE waitFor[f[i - 1]].owner
  BY <1>3 DEF IsVisit
<1>5. ASSUME NEW i \in 0..(Steps - 1)
      PROVE  f[i + 1] = IF f[i] = Nobody THEN Nobody ELSE Edge(f[i])
  <2>1. i + 1 \in 0..Steps /\ i + 1 # 0 /\ (i + 1) - 1 = i
    BY <1>1
  <2>2. f[i + 1] = IF f[(i + 1) - 1] = Nobody THEN Nobody ELSE waitFor[f[(i + 1) - 1]].owner
    BY <2>1, <1>4
  <2> QED  BY <2>1, <2>2 DEF Edge
<1>6. f[0] = first
  BY <1>1, <1>4
<1> QED  BY <1>3, <1>5, <1>6

(* A set of threads is too small for one more than its number of them.     *)
LEMMA Repeats ==
  ASSUME NEW f, \A i \in 0..Steps : f[i] \in Thread
  PROVE  \E i, j \in 0..Steps : i < j /\ f[i] = f[j]
<1>1. Steps \in Nat /\ IsFiniteSet(Thread)
  BY StepsNat, ThreadAssumption
<1>2. IsFiniteSet(0..Steps) /\ Cardinality(0..Steps) = Steps + 1
  BY <1>1, FS_Interval
<1> DEFINE g == [i \in 0..Steps |-> f[i]]
<1>3. g \in [0..Steps -> Thread]
  OBVIOUS
<1>4. Cardinality(Thread) < Cardinality(0..Steps)
  BY <1>1, <1>2 DEF Steps
<1> HIDE DEF g
<1>5. PICK i \in 0..Steps, j \in 0..Steps : i # j /\ g[i] = g[j]
  BY <1>1, <1>2, <1>3, <1>4, FS_PigeonHole, Zenon
<1>6. f[i] = f[j] /\ f[j] = f[i] /\ i \in Int /\ j \in Int
  BY <1>5 DEF g
<1>7. CASE i < j
  BY <1>6, <1>7
<1>8. CASE j < i
  BY <1>6, <1>8
<1> QED  BY <1>5, <1>6, <1>7, <1>8

(* With no circle, the path of owners from one thread comes to an end.     *)
LEMMA WaitAdds ==
  ASSUME Acyclic, NEW t \in Thread, NEW u \in Thread, t \notin Chain(u), t # Nobody,
         Edge(t)' = u, \A v \in Thread \ {t} : Edge(v)' = Edge(v)
  PROVE  Acyclic'
<1> SUFFICES ASSUME NEW S \in SUBSET Thread, S # {}, \A v \in S : Edge(v)' \in S
             PROVE  FALSE
  BY DEF Acyclic
<1>1. t \in S /\ u \in S
  BY DEF Acyclic
<1>2. Steps \in Nat /\ Nobody \notin Thread
  BY StepsNat, NobodyAssumption
<1>3. PICK f : /\ Chain(u) = {f[i] : i \in 0..Steps} \ {Nobody}
               /\ f[0] = u
               /\ \A i \in 0..(Steps - 1) :
                    f[i + 1] = IF f[i] = Nobody THEN Nobody ELSE Edge(f[i])
  BY ChainVisits
<1>4. \A i \in 0..Steps : f[i] # t
  BY <1>3
<1>5. \A i \in 0..Steps : f[i] \in S
  <2> DEFINE Out == {i \in Nat : i <= Steps /\ f[i] \notin S}
  <2> SUFFICES ASSUME Out # {}  PROVE FALSE
    BY <1>2
  <2>1. PICK n \in Out : \A m \in Out : n <= m
    BY LeastElement
  <2>2. n # 0
    BY <1>1, <1>3
  <2>3. n - 1 \in 0..(Steps - 1) /\ n - 1 \notin Out /\ (n - 1) + 1 = n /\ n \in 0..Steps
    BY <2>1, <2>2, <1>2
  <2>4. f[n - 1] \in S
    BY <2>3, <1>2
  <2>5. f[(n - 1) + 1] = Edge(f[n - 1])
    BY <2>3, <2>4, <1>2, <1>3
  <2>6. f[n - 1] # t
    BY <2>3, <1>2, <1>4
  <2>7. Edge(f[n - 1])' = Edge(f[n - 1])
    BY <2>4, <2>6
  <2> QED  BY <2>3, <2>4, <2>5, <2>7
<1>6. \A i \in 0..Steps : f[i] \in Thread
  BY <1>5
<1>7. PICK i \in 0..Steps, j \in 0..Steps : i < j /\ f[i] = f[j]
  BY <1>6, Repeats
<1> DEFINE Ring == {f[m] : m \in i..(j - 1)}
<1>8. Ring \in SUBSET Thread /\ Ring # {}
  BY <1>2, <1>6, <1>7
<1>9. ASSUME NEW v \in Ring  PROVE Edge(v) \in Ring
  <2>1. PICK m \in i..(j - 1) : v = f[m]
    BY <1>9
  <2>2. m \in 0..(Steps - 1) /\ m \in 0..Steps
    BY <2>1, <1>2, <1>7
  <2>3. f[m + 1] = Edge(v)
    BY <2>1, <2>2, <1>2, <1>3, <1>6
  <2>4. CASE m + 1 = j
    <3>1. i \in i..(j - 1)
      BY <1>2, <1>7
    <3> QED  BY <2>3, <2>4, <3>1, <1>7
  <2>5. CASE m + 1 # j
    <3>1. m + 1 \in i..(j - 1)
      BY <2>1, <2>5, <1>2, <1>7
    <3> QED  BY <2>3, <3>1
  <2> QED  BY <2>4, <2>5
<1> HIDE DEF Ring
<1> QED  BY <1>8, <1>9 DEF Acyclic

------------------------------------------------------------------------------
(* No thread of the path after the first that waits for nobody.            *)
LEMMA PathOfThreads ==
  ASSUME IndInv, NEW f, NEW n \in 0..Steps, f[n] \in Thread,
         \A i \in 0..(Steps - 1) : f[i + 1] = IF f[i] = Nobody THEN Nobody ELSE Edge(f[i]),
         f[0] \in Thread
  PROVE  \A i \in 0..n : f[i] \in Thread
<1>1. Steps \in Nat /\ Nobody \notin Thread
  BY StepsNat, NobodyAssumption
<1>3. \A v \in Thread : Edge(v) \in Thread \cup {Nobody}
  BY DEF IndInv, TypeOK, Edge
<1> DEFINE Out == {i \in Nat : i <= n /\ f[i] \notin Thread}
<1> SUFFICES ASSUME Out # {}  PROVE FALSE
  BY <1>1
<1>4. PICK i \in Out : \A m \in Out : i <= m
  BY LeastElement
<1>5. i # 0
  BY <1>4
<1>6. /\ i - 1 \in 0..(Steps - 1) /\ i - 1 \notin Out /\ i - 1 <= n /\ i - 1 \in Nat
      /\ (i - 1) + 1 = i
  BY <1>4, <1>5, <1>1
<1>7. f[i - 1] \in Thread
  BY <1>6
<1>8. f[(i - 1) + 1] = Edge(f[i - 1])
  BY <1>6, <1>7, <1>1
<1>9. f[i] = Nobody
  BY <1>4, <1>6, <1>7, <1>8, <1>3
<1> DEFINE Later == {m \in Nat : i <= m /\ m <= n /\ f[m] # Nobody}
<1>10. n \in Later /\ i \in Nat
  BY <1>1, <1>4
<1>11. PICK m \in Later : \A k \in Later : m <= k
  BY <1>10, LeastElement
<1>12. m # i
  BY <1>9, <1>11
<1>13. /\ m - 1 \in 0..(Steps - 1) /\ m - 1 \notin Later /\ i <= m - 1 /\ m - 1 <= n
       /\ m - 1 \in Nat /\ (m - 1) + 1 = m
  BY <1>10, <1>11, <1>12, <1>1
<1>14. f[m - 1] = Nobody
  BY <1>13
<1>15. f[(m - 1) + 1] = Nobody
  BY <1>13, <1>14
<1> QED  BY <1>11, <1>13, <1>15

(* A thread that waits is not among those its owner waits for.             *)
LEMMA AcyclicChain ==
  ASSUME IndInv, Acyclic, NEW t \in Thread, Edge(t) \in Thread
  PROVE  t \notin Chain(Edge(t))
<1>1. Steps \in Nat /\ Nobody \notin Thread
  BY StepsNat, NobodyAssumption
<1>2. PICK f : /\ Chain(Edge(t)) = {f[i] : i \in 0..Steps} \ {Nobody}
               /\ f[0] = Edge(t)
               /\ \A i \in 0..(Steps - 1) :
                    f[i + 1] = IF f[i] = Nobody THEN Nobody ELSE Edge(f[i])
  BY ChainVisits
<1> SUFFICES ASSUME NEW n \in 0..Steps, f[n] = t  PROVE FALSE
  BY <1>2
<1>4. \A i \in 0..n : f[i] \in Thread
  BY <1>2, PathOfThreads
<1> DEFINE Ring == {f[m] : m \in 0..n}
<1>5. Ring \in SUBSET Thread /\ Ring # {}
  BY <1>1, <1>4
<1>6. ASSUME NEW v \in Ring  PROVE Edge(v) \in Ring
  <2>1. PICK m \in 0..n : v = f[m]
    BY <1>6
  <2>2. CASE m = n
    <3>1. Edge(v) = f[0] /\ 0 \in 0..n
      BY <2>1, <2>2, <1>1, <1>2
    <3> QED  BY <3>1
  <2>3. CASE m # n
    <3>1. m \in 0..(Steps - 1) /\ m + 1 \in 0..n
      BY <2>1, <2>3, <1>1
    <3>2. f[m + 1] = Edge(v)
      BY <2>1, <3>1, <1>1, <1>2, <1>4
    <3> QED  BY <3>1, <3>2
  <2> QED  BY <2>2, <2>3
<1> HIDE DEF Ring
<1> QED  BY <1>5, <1>6 DEF Acyclic

------------------------------------------------------------------------------
(* A call of a stack is for a key that the builder below it asks for, and  *)
(* a key in flight is being made by a call of some thread.                 *)
Descends ==
  \A t \in Thread : \A i \in 1..Len(stack[t]) :
    /\ LeftOf(stack[t][i]) \subseteq DepsOf(stack[t][i].key)
    /\ i > 1 => stack[t][i - 1].key \in DepsOf(stack[t][i].key)

BeingMade(k) == \E t \in Thread : \E i \in 1..Len(stack[t]) : Making(t, i) /\ stack[t][i].key = k

Owned == \A k \in Key : Holds(k, "building") => BeingMade(k)

CircleInv == IndInv /\ Acyclic /\ Descends /\ Owned /\ RefusalsReal

(* A set of keys that has what its keys ask for has the innermost key of a *)
(* stack with a key of the set further out.                                *)
LEMMA UpStack ==
  ASSUME IndInv, Descends, NEW S, \A j \in S : DepsOf(j) \subseteq S,
         NEW t \in Thread, NEW m \in 1..Len(stack[t]), m > 1,
         DepsOf(stack[t][m].key) \subseteq S
  PROVE  stack[t][1].key \in S
<1>1. Len(stack[t]) \in Nat
  BY StackTypes DEF IndInv
<1> DEFINE Bad == {d \in Nat : 1 <= d /\ d <= m - 1 /\ stack[t][m - d].key \notin S}
<1> SUFFICES ASSUME Bad # {}  PROVE FALSE
  <2>1. PICK d \in Nat : d = m - 1
    BY <1>1
  <2>2. 1 <= d /\ d <= m - 1 /\ m - d = 1
    BY <2>1, <1>1
  <2>3. d \notin Bad
    OBVIOUS
  <2>4. stack[t][m - d].key \in S
    BY <2>2, <2>3
  <2> QED  BY <2>2, <2>4
<1>2. PICK d \in Bad : \A e \in Bad : d <= e
  BY LeastElement
<1>3. /\ d \in Nat /\ 1 <= d /\ d <= m - 1 /\ stack[t][m - d].key \notin S
      /\ m - (d - 1) \in 1..Len(stack[t]) /\ m - (d - 1) > 1 /\ (m - (d - 1)) - 1 = m - d
  BY <1>1, <1>2
<1>4. stack[t][m - d].key \in DepsOf(stack[t][m - (d - 1)].key)
  BY <1>3 DEF Descends
<1>5. DepsOf(stack[t][m - (d - 1)].key) \subseteq S
  <2>1. CASE d = 1
    <3>1. m - (d - 1) = m
      BY <2>1, <1>1
    <3> QED  BY <3>1
  <2>2. CASE d # 1
    <3>1. d - 1 \in Nat /\ 1 <= d - 1 /\ d - 1 <= m - 1 /\ ~(d <= d - 1)
      BY <2>2, <1>1, <1>3
    <3>2. d - 1 \notin Bad
      BY <3>1, <1>2
    <3> HIDE DEF Bad
    <3>3. stack[t][m - (d - 1)].key \in S
      BY <3>1, <3>2 DEF Bad
    <3> QED  BY <3>3
  <2> QED  BY <2>1, <2>2
<1> QED  BY <1>3, <1>4, <1>5

(* The thread that makes what another waits for.                           *)
LEMMA WaitsForMaker ==
  ASSUME IndInv, Owned, NEW u \in Thread, Waits(u), build[Top(u).build].phase = "building"
  PROVE  /\ Edge(u) = build[Top(u).build].owner /\ Edge(u) \in Thread
         /\ \E i \in 1..Len(stack[Edge(u)]) :
              Making(Edge(u), i) /\ stack[Edge(u)][i].key = Top(u).key
<1> USE DEF IndInv
<1>1. /\ Top(u).build \in Build /\ entries[Top(u).key] = Top(u).build /\ Top(u).key \in Key
  BY TopFacts DEF Waits, Waiting
<1>2. Edge(u) = build[Top(u).build].owner
  <2>1. waitFor[u] = [owner |-> build[Top(u).build].owner, build |-> Top(u).build]
    BY DEF EdgesExact
  <2> QED  BY <2>1 DEF Edge
<1>3. Holds(Top(u).key, "building")
  BY <1>1, NobodyAssumption DEF Holds
<1>4. PICK t \in Thread : \E i \in 1..Len(stack[t]) :
        Making(t, i) /\ stack[t][i].key = Top(u).key
  BY <1>1, <1>3 DEF Owned, BeingMade
<1>5. build[Top(u).build].owner = t
  BY <1>1, <1>4 DEF OwnsWhatItBuilds, Making
<1> QED  BY <1>2, <1>4, <1>5

LEMMA CircleRefused ==
  ASSUME IndInv, Descends, Owned, NEW t \in Thread, RefuseCycle(t)
  PROVE  Top(t).key \in Needs(Top(t).key)
<1> USE DEF IndInv
<1> DEFINE k == Top(t).key
           first == build[entries[k]].owner
<1>1. /\ Busy(t) /\ Top(t).at = "asking" /\ k \in Key /\ entries[k] # Nobody
      /\ build[entries[k]].phase = "building" /\ t \in Chain(first)
      /\ Top(t) = stack[t][1] /\ Len(stack[t]) \in Nat
  BY TopFacts DEF RefuseCycle, Agreed, Found, Asks, Retained, Cyclic
<1> SUFFICES ASSUME NEW S \in SUBSET Key, DepsOf(k) \subseteq S, \A j \in S : DepsOf(j) \subseteq S
             PROVE  k \in S
  BY <1>1 DEF Needs
<1> HIDE DEF k
<1> DEFINE Has(u) == \E i \in 1..Len(stack[u]) : Making(u, i) /\ stack[u][i].key \in S \cup {k}
<1>2. first \in Thread /\ Has(first)
  <2>1. Holds(k, "building")
    BY <1>1 DEF Holds
  <2>2. PICK u \in Thread : \E i \in 1..Len(stack[u]) : Making(u, i) /\ stack[u][i].key = k
    BY <1>1, <2>1 DEF Owned, BeingMade
  <2>3. first = u
    BY <2>2 DEF OwnsWhatItBuilds, Making
  <2> QED  BY <2>2, <2>3
<1>3. Steps \in Nat /\ Nobody \notin Thread
  BY StepsNat, NobodyAssumption
<1>4. PICK f : /\ Chain(first) = {f[i] : i \in 0..Steps} \ {Nobody}
               /\ f[0] = first
               /\ \A i \in 0..(Steps - 1) :
                    f[i + 1] = IF f[i] = Nobody THEN Nobody ELSE Edge(f[i])
  BY ChainVisits
<1>5. PICK n \in 0..Steps : f[n] = t
  BY <1>1, <1>4
<1> HIDE DEF first
<1>6. \A i \in 0..n : f[i] \in Thread
  BY <1>2, <1>4, <1>5, PathOfThreads
<1>7. ASSUME NEW u \in Thread, Has(u), NEW i \in 1..Len(stack[u]), Making(u, i),
             stack[u][i].key \in S \cup {k}, i > 1
      PROVE  stack[u][1].key \in S
  <2>1. DepsOf(stack[u][i].key) \subseteq S
    BY <1>7
  <2> QED  BY <1>7, <2>1, UpStack
<1>8. ASSUME NEW u \in Thread, Has(u), Edge(u) \in Thread  PROVE Has(Edge(u))
  <2>1. Waits(u) /\ build[Top(u).build].phase = "building"
    <3>1. waitFor[u] # NoEdge
      BY <1>8, <1>3 DEF Edge, NoEdge
    <3> QED  BY <3>1 DEF EdgesExact
  <2>2. /\ Top(u) = stack[u][1] /\ Top(u).at = "waiting" /\ Len(stack[u]) \in Nat
    BY <2>1, TopFacts DEF Waits
  <2>3. PICK i \in 1..Len(stack[u]) : Making(u, i) /\ stack[u][i].key \in S \cup {k}
    BY <1>8
  <2>4. i > 1
    <3>1. i # 1
      BY <2>2, <2>3 DEF Making
    <3> QED  BY <3>1, <2>2
  <2>5. Top(u).key \in S
    BY <1>7, <1>8, <2>2, <2>3, <2>4
  <2>6. PICK j \in 1..Len(stack[Edge(u)]) :
          Making(Edge(u), j) /\ stack[Edge(u)][j].key = Top(u).key
    BY <2>1, WaitsForMaker
  <2> QED  BY <2>5, <2>6
<1> HIDE DEF Has
<1>9. Has(t)
  <2> DEFINE Out == {i \in Nat : i <= n /\ ~Has(f[i])}
  <2> SUFFICES ASSUME Out # {}  PROVE FALSE
    BY <1>3, <1>5
  <2>1. PICK i \in Out : \A m \in Out : i <= m
    BY LeastElement
  <2>2. i # 0
    BY <2>1, <1>2, <1>4
  <2>3. /\ i - 1 \in 0..(Steps - 1) /\ i - 1 \notin Out /\ i - 1 \in Nat /\ i - 1 <= n
        /\ i - 1 \in 0..n /\ i \in 0..n /\ (i - 1) + 1 = i
    BY <2>1, <2>2, <1>3
  <2>4. Has(f[i - 1]) /\ f[i - 1] \in Thread /\ f[i] \in Thread
    BY <2>3, <1>6
  <2>5. f[(i - 1) + 1] = Edge(f[i - 1])
    BY <2>3, <2>4, <1>3, <1>4
  <2>6. f[i] = Edge(f[i - 1])
    BY <2>3, <2>5
  <2>7. Has(f[i])
    BY <2>4, <2>6, <1>8
  <2> QED  BY <2>1, <2>7
<1>10. PICK i \in 1..Len(stack[t]) : Making(t, i) /\ stack[t][i].key \in S \cup {k}
  BY <1>9 DEF Has
<1>11. i > 1
  <2>1. i # 1
    BY <1>1, <1>10 DEF Making
  <2> QED  BY <2>1, <1>1
<1> QED  BY <1>1, <1>7, <1>9, <1>10, <1>11 DEF k

------------------------------------------------------------------------------
(* What a step does to the edges, to the stacks and to who makes a key.    *)
EdgesOnlyFall == \A t \in Thread : Edge(t)' = Edge(t) \/ Edge(t)' = Nobody

LEMMA FallingEdges == Acyclic /\ EdgesOnlyFall => Acyclic'
<1> SUFFICES ASSUME Acyclic, EdgesOnlyFall, NEW S \in SUBSET Thread, S # {},
                    \A t \in S : Edge(t)' \in S
             PROVE  FALSE
  BY DEF Acyclic
<1>1. \A t \in S : Edge(t)' = Edge(t)
  BY NobodyAssumption DEF EdgesOnlyFall
<1>2. \A t \in S : Edge(t) \in S
  BY <1>1
<1> QED  BY <1>2 DEF Acyclic

LEMMA PoppedDescends == \A t \in Thread : IndInv /\ Descends /\ Popped(t) => Descends'
<1> SUFFICES ASSUME NEW t \in Thread, IndInv, Descends, Popped(t),
                    NEW u \in Thread, NEW i \in 1..Len(stack'[u])
             PROVE  /\ LeftOf(stack'[u][i]) \subseteq DepsOf(stack'[u][i].key)
                    /\ i > 1 => stack'[u][i - 1].key \in DepsOf(stack'[u][i].key)
  BY DEF Descends
<1>1. CASE u = t
  <2>1. Len(stack[t]) \in Nat /\ Len(stack'[t]) = Len(stack[t]) - 1
    BY StackTypes DEF IndInv, Popped
  <2>2. /\ i + 1 \in 1..Len(stack[t]) /\ i + 1 > 1 /\ i \in Nat
        /\ i > 1 => i - 1 \in 1..Len(stack'[t]) /\ (i - 1) + 1 = i /\ (i + 1) - 1 = i
    BY <1>1, <2>1
  <2>3. /\ LeftOf(stack[t][i + 1]) \subseteq DepsOf(stack[t][i + 1].key)
        /\ stack[t][(i + 1) - 1].key \in DepsOf(stack[t][i + 1].key)
    BY <2>2 DEF Descends
  <2>4. /\ stack'[t][i].key = stack[t][i + 1].key
        /\ LeftOf(stack'[t][i]) \subseteq LeftOf(stack[t][i + 1])
    BY <1>1 DEF Popped
  <2>5. i > 1 => stack'[t][i - 1].key = stack[t][(i - 1) + 1].key
    BY <2>2 DEF Popped
  <2> QED  BY <1>1, <2>2, <2>3, <2>4, <2>5
<1>2. CASE u # t
  <2>1. stack'[u] = stack[u]
    BY <1>2 DEF Popped, Elsewhere
  <2> QED  BY <2>1 DEF Descends
<1> QED  BY <1>1, <1>2

LEMMA RetoppedDescends ==
  ASSUME IndInv, Descends, NEW t \in Thread, NEW r, Busy(t), Retopped(t, r),
         r.key = Top(t).key, LeftOf(r) \subseteq DepsOf(r.key)
  PROVE  Descends'
<1> SUFFICES ASSUME NEW u \in Thread, NEW i \in 1..Len(stack'[u])
             PROVE  /\ LeftOf(stack'[u][i]) \subseteq DepsOf(stack'[u][i].key)
                    /\ i > 1 => stack'[u][i - 1].key \in DepsOf(stack'[u][i].key)
  BY DEF Descends
<1>1. CASE u = t
  <2>1. /\ Len(stack[t]) \in Nat /\ Len(stack'[t]) = Len(stack[t]) /\ Top(t) = stack[t][1]
        /\ stack'[t][1] = r /\ \A j \in 2..Len(stack[t]) : stack'[t][j] = stack[t][j]
    BY TopFacts DEF Retopped
  <2>2. \A j \in 1..Len(stack[t]) : stack'[t][j].key = stack[t][j].key
    <3>1. \A j \in 1..Len(stack[t]) : j = 1 \/ j \in 2..Len(stack[t])
      BY <2>1
    <3> QED  BY <2>1, <3>1
  <2>3. i \in 1..Len(stack[t]) /\ (i > 1 => i - 1 \in 1..Len(stack[t]))
    BY <1>1, <2>1
  <2>4. /\ LeftOf(stack[t][i]) \subseteq DepsOf(stack[t][i].key)
        /\ i > 1 => stack[t][i - 1].key \in DepsOf(stack[t][i].key)
    BY <2>3 DEF Descends
  <2>5. LeftOf(stack'[t][i]) \subseteq DepsOf(stack'[t][i].key)
    <3>1. CASE i = 1
      BY <3>1, <2>1
    <3>2. CASE i # 1
      <4>1. i \in 2..Len(stack[t])
        BY <3>2, <2>1, <2>3
      <4> QED  BY <4>1, <2>1, <2>4
    <3> QED  BY <3>1, <3>2
  <2> QED  BY <1>1, <2>2, <2>3, <2>4, <2>5
<1>2. CASE u # t
  <2>1. stack'[u] = stack[u]
    BY <1>2 DEF Retopped, Elsewhere
  <2> QED  BY <2>1 DEF Descends
<1> QED  BY <1>1, <1>2

LEMMA PushedDescends ==
  ASSUME IndInv, Descends, NEW t \in Thread, NEW r, Pushed(t, r),
         LeftOf(r) = {}, Busy(t) => r.key \in LeftOf(Top(t))
  PROVE  Descends'
<1> SUFFICES ASSUME NEW u \in Thread, NEW i \in 1..Len(stack'[u])
             PROVE  /\ LeftOf(stack'[u][i]) \subseteq DepsOf(stack'[u][i].key)
                    /\ i > 1 => stack'[u][i - 1].key \in DepsOf(stack'[u][i].key)
  BY DEF Descends
<1>1. CASE u = t
  <2>1. /\ Len(stack[t]) \in Nat /\ Len(stack'[t]) = Len(stack[t]) + 1
        /\ stack'[t][1] = r /\ \A j \in 1..Len(stack[t]) : stack'[t][j + 1] = stack[t][j]
        /\ Busy(t) <=> Len(stack[t]) > 0
        /\ Busy(t) => Top(t) = stack[t][1]
    BY StackTypes DEF IndInv, Pushed
  <2>2. CASE i = 1
    BY <1>1, <2>1, <2>2
  <2>3. CASE i # 1
    <3>1. i - 1 \in 1..Len(stack[t]) /\ (i - 1) + 1 = i
      BY <1>1, <2>1, <2>3
    <3>2. stack'[t][(i - 1) + 1] = stack[t][i - 1]
      BY <3>1, <2>1
    <3>3. stack'[t][i] = stack[t][i - 1]
      BY <3>1, <3>2
    <3>4. /\ LeftOf(stack[t][i - 1]) \subseteq DepsOf(stack[t][i - 1].key)
          /\ i - 1 > 1 => stack[t][(i - 1) - 1].key \in DepsOf(stack[t][i - 1].key)
      BY <3>1 DEF Descends
    <3>5. stack'[t][i - 1].key \in DepsOf(stack'[t][i].key)
      <4>1. CASE i - 1 = 1
        <5>1. 1 \in 1..Len(stack[t]) /\ Busy(t)
          BY <3>1, <4>1, <2>1
        <5> QED  BY <4>1, <5>1, <3>3, <3>4, <2>1
      <4>2. CASE i - 1 # 1
        <5>1. i - 1 > 1 /\ (i - 1) - 1 \in 1..Len(stack[t]) /\ ((i - 1) - 1) + 1 = i - 1
          BY <3>1, <4>2, <2>1
        <5>2. stack'[t][((i - 1) - 1) + 1] = stack[t][(i - 1) - 1]
          BY <5>1, <2>1
        <5>3. stack'[t][i - 1] = stack[t][(i - 1) - 1]
          BY <5>1, <5>2
        <5> QED  BY <5>1, <5>3, <3>3, <3>4
      <4> QED  BY <4>1, <4>2
    <3> QED  BY <1>1, <3>3, <3>4, <3>5
  <2> QED  BY <2>2, <2>3
<1>2. CASE u # t
  <2>1. stack'[u] = stack[u]
    BY <1>2 DEF Pushed, Elsewhere
  <2> QED  BY <2>1 DEF Descends
<1> QED  BY <1>1, <1>2

(* A call in a builder stays where it is, unless it is the innermost and   *)
(* ends.                                                                   *)
LEMMA StillMade ==
  ASSUME IndInv, NEW t \in Thread, NEW u \in Thread, NEW i \in 1..Len(stack[u]), Making(u, i),
         NEW k, stack[u][i].key = k,
         \/ Popped(t) /\ (u = t => i # 1)
         \/ (\E r : Retopped(t, r)) /\ (u = t => i # 1)
         \/ \E r : Pushed(t, r)
  PROVE  BeingMade(k)'
<1> SUFFICES \E j \in 1..Len(stack'[u]) :
               stack'[u][j].at \in {"building", "failing"} /\ stack'[u][j].key = k
  BY DEF BeingMade, Making
<1>1. CASE u # t
  <2>1. stack'[u] = stack[u]
    BY <1>1 DEF Popped, Retopped, Pushed, Elsewhere
  <2> QED  BY <2>1 DEF Making
<1>2. CASE u = t
  <2>1. Len(stack[t]) \in Nat
    BY StackTypes DEF IndInv
  <2>2. CASE Popped(t) /\ i # 1
    <3>1. i - 1 \in 1..Len(stack'[t]) /\ (i - 1) + 1 = i
      BY <1>2, <2>1, <2>2 DEF Popped
    <3>2. /\ stack'[t][i - 1].key = stack[t][(i - 1) + 1].key
          /\ stack'[t][i - 1].at \in {"building", "failing"}
      BY <3>1, <2>2 DEF Popped
    <3> QED  BY <1>2, <3>1, <3>2
  <2>3. CASE (\E r : Retopped(t, r)) /\ i # 1
    <3>1. i \in 2..Len(stack[t]) /\ i \in 1..Len(stack'[t])
      BY <1>2, <2>1, <2>3 DEF Retopped
    <3> QED  BY <1>2, <2>3, <3>1 DEF Retopped, Making
  <2>4. CASE \E r : Pushed(t, r)
    <3>1. i + 1 \in 1..Len(stack'[t]) /\ stack'[t][i + 1] = stack[t][i]
      BY <1>2, <2>1, <2>4 DEF Pushed
    <3> QED  BY <1>2, <3>1 DEF Making
  <2> QED  BY <1>2, <2>2, <2>3, <2>4
<1> QED  BY <1>1, <1>2

(* Every key in flight keeps its maker, when the innermost call of the     *)
(* thread that moves is not in a builder or makes another key.             *)
LEMMA StillOwned ==
  ASSUME IndInv, Owned, NEW t \in Thread, NEW K,
         \/ Popped(t) /\ (Making(t, 1) => stack[t][1].key \in K)
         \/ (\E r : Retopped(t, r)) /\ (Making(t, 1) => stack[t][1].key \in K)
         \/ \E r : Pushed(t, r),
         \A k \in Key \ K : Holds(k, "building")' => Holds(k, "building")
  PROVE  \A k \in Key \ K : Holds(k, "building")' => BeingMade(k)'
<1> SUFFICES ASSUME NEW k \in Key \ K, Holds(k, "building")  PROVE BeingMade(k)'
  OBVIOUS
<1>1. PICK u \in Thread : \E i \in 1..Len(stack[u]) : Making(u, i) /\ stack[u][i].key = k
  BY DEF Owned, BeingMade
<1>2. PICK i \in 1..Len(stack[u]) : Making(u, i) /\ stack[u][i].key = k
  BY <1>1
<1>3. u = t /\ i = 1 => \E r : Pushed(t, r)
  BY <1>2
<1> QED  BY <1>2, <1>3, StillMade

------------------------------------------------------------------------------
(* One lemma for each kind of step.                                        *)
LEMMA CircleAsk ==
  ASSUME CircleInv, IndInv', NEW t \in Thread, Request(t) \/ Recurse(t)
  PROVE  CircleInv'
<1> USE DEF CircleInv
<1>1. UNCHANGED <<entries, build, waitFor, answers, refused>>
  BY DEF Request, Recurse
<1>2. PICK k \in Key, c \in Contract :
        Pushed(t, Frame(k, c)) /\ (Busy(t) => k \in LeftOf(Top(t)))
  BY PushesAsked
<1>3. Frame(k, c).key = k /\ LeftOf(Frame(k, c)) = {}
  <2>1. Frame(k, c).left = <<>> /\ Frame(k, c).key = k
    BY DEF Frame
  <2>2. Len(<<>>) = 0 /\ 1..0 = {}
    BY EmptySeq
  <2> QED  BY <2>1, <2>2 DEF LeftOf
<1>4. Descends'
  BY <1>2, <1>3, PushedDescends
<1>5. Owned'
  <2>1. \A j \in Key \ {} : Holds(j, "building")' => Holds(j, "building")
    BY <1>1 DEF Holds
  <2>2. \A j \in Key \ {} : Holds(j, "building")' => BeingMade(j)'
    BY <1>2, <2>1, StillOwned
  <2> QED  BY <2>2 DEF Owned
<1>6. Acyclic' /\ RefusalsReal'
  BY <1>1 DEF Acyclic, Edge, RefusalsReal, Needs
<1> QED  BY <1>4, <1>5, <1>6

LEMMA CircleFound ==
  ASSUME CircleInv, IndInv', NEW t \in Thread,
         ContractChanged(t) \/ Hit(t) \/ RefuseCycle(t)
  PROVE  CircleInv'
<1> USE DEF CircleInv
<1>1. /\ Busy(t) /\ Top(t).at = "asking" /\ Top(t) = stack[t][1]
      /\ (Returns(t) \/ Throws(t)) /\ UNCHANGED <<entries, build, waitFor>>
  BY TopFacts DEF ContractChanged, Hit, RefuseCycle, Agreed, Found, Asks
<1>2. Popped(t) /\ ~Making(t, 1)
  BY <1>1, Pops DEF Making
<1>3. Descends'
  BY <1>2, PoppedDescends
<1>4. Owned'
  <2>1. \A j \in Key \ {} : Holds(j, "building")' => Holds(j, "building")
    BY <1>1 DEF Holds
  <2>2. \A j \in Key \ {} : Holds(j, "building")' => BeingMade(j)'
    BY <1>2, <2>1, StillOwned
  <2> QED  BY <2>2 DEF Owned
<1>5. Acyclic'
  BY <1>1 DEF Acyclic, Edge
<1>6. RefusalsReal'
  <2>1. CASE RefuseCycle(t)
    <3>1. PICK k : k = Top(t).key
      OBVIOUS
    <3>2. refused' = refused \cup {k} /\ k \in Needs(k)
      BY <2>1, <3>1, CircleRefused DEF RefuseCycle
    <3> QED  BY <3>2 DEF RefusalsReal, Needs
  <2>2. CASE refused' = refused
    BY <2>2 DEF RefusalsReal, Needs
  <2> QED  BY <2>1, <2>2 DEF ContractChanged, Hit
<1> QED  BY <1>3, <1>4, <1>5, <1>6

LEMMA CircleWake ==
  ASSUME CircleInv, IndInv', NEW t \in Thread, Wake(t)
  PROVE  CircleInv'
<1> USE DEF CircleInv
<1> DEFINE b == Top(t).build
<1>1. /\ Busy(t) /\ Top(t).at = "waiting" /\ Top(t) = stack[t][1] /\ b \in Build
      /\ (Returns(t) \/ Throws(t)) /\ UNCHANGED <<entries, refused>>
      /\ build' = [build EXCEPT ![b].waiters = @ \ {t}]
      /\ waitFor' = [waitFor EXCEPT ![t] = IF waitFor[t].build = b THEN NoEdge ELSE waitFor[t]]
  BY TopFacts DEF Wake, Waits, Waiting, IndInv
<1>2. Popped(t) /\ ~Making(t, 1)
  BY <1>1, Pops DEF Making
<1> HIDE DEF b
<1>3. \A c \in Build : build'[c].phase = build[c].phase
  <2> DEFINE s == [build[b] EXCEPT !.waiters = @ \ {t}]
  <2>1. build[b] \in BuildRecord
    BY <1>1 DEF IndInv, TypeOK
  <2>2. s.phase = build[b].phase
    BY <2>1 DEF BuildRecord
  <2>3. build' = [build EXCEPT ![b] = s]
    BY <1>1 DEF IndInv, TypeOK
  <2> HIDE DEF s
  <2> QED  BY <2>2, <2>3, <1>1 DEF IndInv, TypeOK
<1>4. Owned'
  <2>1. \A j \in Key \ {} : Holds(j, "building")' => Holds(j, "building")
    <3>1. \A j \in Key : entries[j] # Nobody => entries[j] \in Build
      BY DEF IndInv, TypeOK
    <3> QED  BY <3>1, <1>1, <1>3 DEF Holds
  <2>2. \A j \in Key \ {} : Holds(j, "building")' => BeingMade(j)'
    BY <1>2, <2>1, StillOwned
  <2> QED  BY <2>2 DEF Owned
<1>5. Descends'
  BY <1>2, PoppedDescends
<1>6. EdgesOnlyFall
  <2>1. waitFor \in [Thread -> [owner : Thread \cup {Nobody}, build : Build \cup {Nobody}]]
    BY DEF IndInv, TypeOK
  <2>2. \A u \in Thread : waitFor'[u] = waitFor[u] \/ waitFor'[u] = NoEdge
    BY <1>1, <2>1
  <2> QED  BY <2>2 DEF EdgesOnlyFall, Edge, NoEdge
<1>7. Acyclic' /\ RefusalsReal'
  BY <1>1, <1>6, FallingEdges DEF RefusalsReal, Needs
<1> QED  BY <1>4, <1>5, <1>7

LEMMA CircleWait ==
  ASSUME CircleInv, IndInv', NEW t \in Thread, Wait(t)
  PROVE  CircleInv'
<1> USE DEF CircleInv
<1> DEFINE k == Top(t).key
           b == entries[k]
           r == [Top(t) EXCEPT !.at = "waiting", !.build = b]
<1>1. /\ Asks(t) /\ Busy(t) /\ k \in Key /\ b \in Build /\ b # Nobody /\ build[b].phase = "building"
      /\ Top(t) \in FrameRecord /\ ~Cyclic(t, b) /\ Top(t) = stack[t][1]
      /\ 1 \in 1..Len(stack[t])
  BY TopFacts DEF Wait, Agreed, Found, Retained, Asks, IndInv, TypeOK
<1>2. /\ waitFor' = [waitFor EXCEPT ![t] = [owner |-> build[b].owner, build |-> b]]
      /\ build' = [build EXCEPT ![b].waiters = @ \cup {t}]
      /\ Retop(t, r) /\ UNCHANGED <<entries, answers, refused>>
  BY DEF Wait
<1>3. r \in FrameRecord /\ r.key = k /\ r.left = Top(t).left
  BY <1>1 DEF FrameRecord
<1>4. Retopped(t, r) /\ ~Making(t, 1)
  BY <1>1, <1>2, <1>3, Retops DEF Making, Asks
<1> HIDE DEF r
<1>5. Descends'
  <2>1. LeftOf(r) \subseteq DepsOf(r.key)
    BY <1>1, <1>3 DEF Descends, LeftOf
  <2> QED  BY <1>1, <1>3, <1>4, <2>1, RetoppedDescends
<1> HIDE DEF b
<1>6. \A c \in Build : build'[c].phase = build[c].phase
  <2> DEFINE s == [build[b] EXCEPT !.waiters = @ \cup {t}]
  <2>1. build[b] \in BuildRecord
    BY <1>1 DEF IndInv, TypeOK
  <2>2. s.phase = build[b].phase
    BY <2>1 DEF BuildRecord
  <2>3. build' = [build EXCEPT ![b] = s]
    BY <1>1, <1>2 DEF IndInv, TypeOK
  <2> HIDE DEF s
  <2> QED  BY <2>2, <2>3, <1>1 DEF IndInv, TypeOK
<1>7. Owned'
  <2>1. \A j \in Key \ {} : Holds(j, "building")' => Holds(j, "building")
    <3>1. \A j \in Key : entries[j] # Nobody => entries[j] \in Build
      BY DEF IndInv, TypeOK
    <3> QED  BY <3>1, <1>2, <1>6 DEF Holds
  <2>2. \A j \in Key \ {} : Holds(j, "building")' => BeingMade(j)'
    BY <1>4, <2>1, StillOwned
  <2> QED  BY <2>2 DEF Owned
<1>8. Acyclic'
  <2>1. PICK u : u = build[b].owner
    OBVIOUS
  <2>2. u \in Thread
    <3>1. Holds(k, "building") /\ b = entries[k]
      BY <1>1 DEF Holds, b
    <3>2. PICK v \in Thread : \E i \in 1..Len(stack[v]) : Making(v, i) /\ stack[v][i].key = k
      BY <1>1, <3>1 DEF Owned, BeingMade
    <3>3. build[b].owner = v
      BY <3>1, <3>2 DEF IndInv, OwnsWhatItBuilds, Making
    <3> QED  BY <2>1, <3>2, <3>3
  <2>3. t \notin Chain(u) /\ t # Nobody
    BY <1>1, <2>1, NobodyAssumption DEF Cyclic
  <2>4. waitFor \in [Thread -> [owner : Thread \cup {Nobody}, build : Build \cup {Nobody}]]
    BY DEF IndInv, TypeOK
  <2>5. waitFor'[t] = [owner |-> u, build |-> b] /\ \A v \in Thread \ {t} : waitFor'[v] = waitFor[v]
    BY <1>2, <2>1, <2>4
  <2>6. Edge(t)' = u /\ \A v \in Thread \ {t} : Edge(v)' = Edge(v)
    BY <2>5 DEF Edge
  <2> QED  BY <2>2, <2>3, <2>6, WaitAdds
<1>9. RefusalsReal'
  BY <1>2 DEF RefusalsReal, Needs
<1> QED  BY <1>5, <1>7, <1>8, <1>9

LEMMA CircleOwn ==
  ASSUME CircleInv, IndInv', NEW t \in Thread, Own(t)
  PROVE  CircleInv'
<1> USE DEF CircleInv
<1> DEFINE k == Top(t).key
           b == CHOOSE free \in Build \ Referred : TRUE
           r == [Top(t) EXCEPT !.at = "building", !.build = b, !.left = Deps[k]]
<1>1. /\ Asks(t) /\ Busy(t) /\ k \in Key /\ entries[k] = Nobody /\ Deps[k] \in Seq(Key)
      /\ Top(t) \in FrameRecord /\ Top(t) = stack[t][1] /\ 1 \in 1..Len(stack[t])
  BY TopFacts, DepsAssumption DEF Own, Asks
<1>2. /\ Build \ Referred # {}
      /\ entries' = [entries EXCEPT ![k] = b]
      /\ build' = [build EXCEPT ![b] = [contract |-> Top(t).contract, phase |-> "building",
                                       owner |-> t, waiters |-> {}]]
      /\ Retop(t, r) /\ UNCHANGED <<waitFor, answers, refused>>
  BY DEF Own, StartBuild
<1>3. b \in Build /\ b \notin Referred
  BY <1>2
<1> HIDE DEF b
<1>4. /\ r \in FrameRecord /\ r.key = k /\ r.left = Deps[k] /\ r.at = "building"
  BY <1>1, <1>3 DEF FrameRecord
<1>5. Retopped(t, r) /\ ~Making(t, 1)
  BY <1>1, <1>2, <1>4, Retops DEF Making, Asks
<1> HIDE DEF r
<1>6. Descends'
  <2>1. LeftOf(r) = DepsOf(k)
    BY <1>4 DEF LeftOf, DepsOf
  <2> QED  BY <1>1, <1>4, <1>5, <2>1, RetoppedDescends
<1>7. PICK key : key = k
  OBVIOUS
<1> HIDE DEF k
<1>8. Owned'
  <2>1. \A j \in Key \ {key} : Holds(j, "building")' => Holds(j, "building")
    <3>1. \A j \in Key : entries[j] # Nobody => entries[j] \in Build \ {b}
      BY <1>3 DEF IndInv, TypeOK, Referred
    <3>2. \A j \in Key \ {key} : entries'[j] = entries[j]
      BY <1>1, <1>2, <1>7 DEF IndInv, TypeOK
    <3>3. \A c \in Build \ {b} : build'[c] = build[c]
      BY <1>2 DEF IndInv, TypeOK
    <3> QED  BY <3>1, <3>2, <3>3 DEF Holds
  <2>2. \A j \in Key \ {key} : Holds(j, "building")' => BeingMade(j)'
    BY <1>5, <2>1, StillOwned
  <2>3. BeingMade(key)'
    <3>1. 1 \in 1..Len(stack'[t]) /\ stack'[t][1] = r
      BY <1>1, <1>5 DEF Retopped
    <3> QED  BY <3>1, <1>4, <1>7 DEF BeingMade, Making
  <2> QED  BY <2>2, <2>3 DEF Owned
<1>9. Acyclic' /\ RefusalsReal'
  BY <1>2 DEF Acyclic, Edge, RefusalsReal, Needs
<1> QED  BY <1>6, <1>8, <1>9

LEMMA CircleBuilder ==
  ASSUME CircleInv, IndInv', NEW t \in Thread, Publish(t) \/ Fail(t)
  PROVE  CircleInv'
<1> USE DEF CircleInv
<1> DEFINE k == Top(t).key
           b == Top(t).build
<1>1. Busy(t) /\ Top(t).at \in {"building", "failing"} /\ (Returns(t) \/ Throws(t))
  BY DEF Publish, Fail, Builds
<1>2. k \in Key /\ Top(t) = stack[t][1] /\ 1 \in 1..Len(stack[t]) /\ Making(t, 1)
  BY <1>1, TopFacts DEF Making
<1>3. b \in Build /\ entries[k] = b
  BY <1>2 DEF IndInv, Frames, OwnsWhatItBuilds, Making
<1>4. /\ \/ /\ build' = [build EXCEPT ![b].phase = "ready", ![b].owner = Nobody, ![b].waiters = {}]
            /\ entries' = entries
         \/ /\ build' = [build EXCEPT ![b].phase = "failed", ![b].owner = Nobody, ![b].waiters = {}]
            /\ entries' = [entries EXCEPT ![k] = Nobody]
      /\ refused' = refused
      /\ waitFor' = [u \in Thread |->
           IF u \in build[b].waiters /\ waitFor[u].build = b THEN NoEdge ELSE waitFor[u]]
  BY DEF Publish, Fail, ClearWaiters
<1>5. Popped(t)
  BY <1>1, Pops
<1>6. PICK key : key = k
  OBVIOUS
<1> HIDE DEF k, b
<1>7. Descends'
  BY <1>5, PoppedDescends
<1>8. ~Holds(key, "building")'
  <2>1. CASE /\ build' = [build EXCEPT ![b].phase = "ready", ![b].owner = Nobody, ![b].waiters = {}]
             /\ entries' = entries
    <3>1. build'[b].phase = "ready"
      BY <1>3, <2>1 DEF IndInv, TypeOK, BuildRecord
    <3> QED  BY <3>1, <2>1, <1>3, <1>6 DEF Holds
  <2>2. CASE entries' = [entries EXCEPT ![k] = Nobody]
    BY <2>2, <1>2, <1>6 DEF Holds, IndInv, TypeOK
  <2> QED  BY <1>4, <2>1, <2>2
<1>9. Owned'
  <2>1. \A j \in Key \ {key} : Holds(j, "building")' => Holds(j, "building")
    <3>1. \A j \in Key \ {key} : entries[j] # Nobody => entries[j] \in Build \ {b}
      BY <1>2, <1>3, <1>6 DEF IndInv, TypeOK, OneKey
    <3>2. \A j \in Key \ {key} : entries'[j] = entries[j]
      BY <1>2, <1>4, <1>6 DEF IndInv, TypeOK
    <3>3. \A c \in Build \ {b} : build'[c] = build[c]
      BY <1>3, <1>4 DEF IndInv, TypeOK
    <3> QED  BY <3>1, <3>2, <3>3 DEF Holds
  <2>2. \A j \in Key \ {key} : Holds(j, "building")' => BeingMade(j)'
    BY <1>2, <1>5, <1>6, <2>1, StillOwned DEF k
  <2> QED  BY <2>2, <1>8 DEF Owned
<1>10. EdgesOnlyFall
  <2>1. \A u \in Thread : waitFor'[u] = waitFor[u] \/ waitFor'[u] = NoEdge
    BY <1>4
  <2> QED  BY <2>1 DEF EdgesOnlyFall, Edge, NoEdge
<1>11. Acyclic' /\ RefusalsReal'
  BY <1>4, <1>10, FallingEdges DEF RefusalsReal, Needs
<1> QED  BY <1>7, <1>9, <1>11

LEMMA InitCircleInv == Init => CircleInv
<1> SUFFICES ASSUME Init  PROVE CircleInv
  OBVIOUS
<1>1. \A t \in Thread : 1..Len(stack[t]) = {} /\ Edge(t) = Nobody
  <2>1. Len(<<>>) = 0
    BY EmptySeq
  <2> QED  BY <2>1 DEF Init, Edge, NoEdge
<1>2. Acyclic
  BY <1>1, NobodyAssumption DEF Acyclic
<1>3. Descends
  BY <1>1 DEF Descends
<1>4. Owned /\ RefusalsReal
  BY DEF Init, Owned, Holds, RefusalsReal
<1> QED  BY <1>2, <1>3, <1>4, InitIndInv DEF CircleInv

LEMMA NextCircleInv == CircleInv /\ IndInv' /\ [Next]_vars => CircleInv'
<1> SUFFICES ASSUME CircleInv, IndInv', [Next]_vars  PROVE CircleInv'
  OBVIOUS
<1>1. CASE UNCHANGED vars
  <2> USE <1>1 DEF vars, CircleInv
  <2>1. Acyclic' /\ RefusalsReal'
    BY DEF Acyclic, Edge, RefusalsReal, Needs
  <2>2. Descends' /\ Owned'
    BY DEF Descends, Owned, Holds, BeingMade, Making
  <2> QED  BY <2>1, <2>2
<1>2. ASSUME NEW t \in Thread, Request(t) \/ Call(t)  PROVE CircleInv'
  BY <1>2, CircleAsk, CircleFound, CircleWait, CircleWake, CircleOwn, CircleBuilder DEF Call
<1> QED  BY <1>1, <1>2 DEF Next

LEMMA SpecCircleInv == Spec => []CircleInv
BY InitCircleInv, NextCircleInv, SpecIndInv, PTL DEF Spec

(* However calls, builders and failures overlap, no builder waits for one  *)
(* that waits, directly or through others, for it: register_wait_locked    *)
(* sees every circle before it closes.                                     *)
THEOREM NoCircles == Spec => []NoWaitCircle
<1>1. CircleInv => NoWaitCircle
  <2> SUFFICES ASSUME CircleInv, NEW t \in Thread, Waits(t),
                      build[Top(t).build].phase = "building"
               PROVE  t \notin Chain(build[Top(t).build].owner)
    BY DEF NoWaitCircle
  <2>1. Edge(t) = build[Top(t).build].owner /\ Edge(t) \in Thread
    BY WaitsForMaker DEF CircleInv
  <2> QED  BY <2>1, AcyclicChain DEF CircleInv
<1> QED  BY <1>1, SpecCircleInv, PTL

(* ImmutableCacheCycleError is only ever thrown for a key that needs       *)
(* itself: the path of waits that register_wait_locked finds leads, build  *)
(* by build, through keys that the builders ask for.                       *)
THEOREM RefusalsAreReal == Spec => []RefusalsReal
<1>1. CircleInv => RefusalsReal
  BY DEF CircleInv
<1> QED  BY <1>1, SpecCircleInv, PTL
==============================================================================

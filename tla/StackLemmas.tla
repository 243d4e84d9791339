------------------------------ MODULE StackLemmas ------------------------------
(***************************************************************************)
(* A call stack is a sequence, the innermost call first.  What it looks    *)
(* like after one more call, after its innermost frame changed, and after  *)
(* the innermost call ended and its caller went on.                        *)
(***************************************************************************)
EXTENDS Integers, Sequences, SequenceTheorems, TLAPS

(* One more frame.                                                         *)
LEMMA PushFrame ==
  ASSUME NEW S, NEW s \in Seq(S), NEW r \in S
  PROVE  /\ <<r>> \o s \in Seq(S) /\ Len(<<r>> \o s) = Len(s) + 1
         /\ (<<r>> \o s)[1] = r
         /\ \A i \in 1..Len(s) : (<<r>> \o s)[i + 1] = s[i]
<1> DEFINE one == <<r>>
           m   == one \o s
<1>1. Len(s) \in Nat
  BY LenProperties
<1>2. one \in Seq(S) /\ Len(one) = 1 /\ one[1] = r
  OBVIOUS
<1> HIDE DEF one
<1>3. /\ m \in Seq(S) /\ Len(m) = Len(one) + Len(s)
      /\ \A i \in 1..(Len(one) + Len(s)) :
            m[i] = IF i <= Len(one) THEN one[i] ELSE s[i - Len(one)]
  BY <1>2, ConcatProperties
<1> HIDE DEF m
<1>4. Len(m) = Len(s) + 1 /\ m[1] = r
  BY <1>1, <1>2, <1>3
<1>5. ASSUME NEW i \in 1..Len(s)  PROVE m[i + 1] = s[i]
  <2>1. i + 1 \in 1..(Len(one) + Len(s)) /\ ~(i + 1 <= Len(one)) /\ i + 1 - Len(one) = i
    BY <1>1, <1>2
  <2> QED  BY <2>1, <1>3
<1> QED  BY <1>3, <1>4, <1>5 DEF m, one

(* Another frame in place of the innermost.                                *)
LEMMA ReplaceFrame ==
  ASSUME NEW S, NEW s \in Seq(S), s # <<>>, NEW r \in S
  PROVE  /\ <<r>> \o Tail(s) \in Seq(S) /\ Len(<<r>> \o Tail(s)) = Len(s)
         /\ (<<r>> \o Tail(s))[1] = r
         /\ \A i \in 2..Len(s) : (<<r>> \o Tail(s))[i] = s[i]
<1> DEFINE rest == Tail(s)
<1>1. /\ rest \in Seq(S) /\ Len(rest) = Len(s) - 1
      /\ \A i \in 1..Len(rest) : rest[i] = s[i + 1]
  BY HeadTailProperties
<1>2. Len(s) \in Nat
  BY LenProperties
<1> HIDE DEF rest
<1>3. /\ <<r>> \o rest \in Seq(S) /\ Len(<<r>> \o rest) = Len(rest) + 1
      /\ (<<r>> \o rest)[1] = r
      /\ \A i \in 1..Len(rest) : (<<r>> \o rest)[i + 1] = rest[i]
  BY <1>1, PushFrame
<1>4. Len(<<r>> \o rest) = Len(s)
  BY <1>1, <1>2, <1>3
<1>5. ASSUME NEW i \in 2..Len(s)  PROVE (<<r>> \o rest)[i] = s[i]
  <2>1. i - 1 \in 1..Len(rest) /\ (i - 1) + 1 = i
    BY <1>1, <1>2
  <2>2. rest[i - 1] = s[i]
    BY <2>1, <1>1
  <2>3. (<<r>> \o rest)[(i - 1) + 1] = rest[i - 1]
    BY <2>1, <1>3
  <2> QED  BY <2>1, <2>2, <2>3
<1> QED  BY <1>3, <1>4, <1>5 DEF rest

(* One frame in place of the two innermost.                                *)
LEMMA MergeFrames ==
  ASSUME NEW S, NEW s \in Seq(S), Len(s) > 1, NEW r \in S
  PROVE  /\ <<r>> \o SubSeq(s, 3, Len(s)) \in Seq(S)
         /\ Len(<<r>> \o SubSeq(s, 3, Len(s))) = Len(s) - 1
         /\ (<<r>> \o SubSeq(s, 3, Len(s)))[1] = r
         /\ \A i \in 2..(Len(s) - 1) : (<<r>> \o SubSeq(s, 3, Len(s)))[i] = s[i + 1]
<1> DEFINE rest == SubSeq(s, 3, Len(s))
<1>1. Len(s) \in Nat /\ \A i \in 3..Len(s) : s[i] \in S
  BY LenProperties, ElementOfSeq
<1>2. /\ rest \in Seq(S) /\ Len(rest) = IF 3 <= Len(s) THEN Len(s) - 3 + 1 ELSE 0
      /\ \A i \in 1..(Len(s) - 3 + 1) : rest[i] = s[3 + i - 1]
  <2>1. 3 \in Int /\ Len(s) \in Int
    BY <1>1
  <2> QED  BY <1>1, <2>1, SubSeqProperties
<1> HIDE DEF rest
<1>3. Len(rest) = Len(s) - 2 /\ Len(rest) \in Nat
  <2>1. PICK n \in Nat : n = Len(s) /\ n > 1
    BY <1>1
  <2>2. Len(rest) = IF 3 <= n THEN n - 3 + 1 ELSE 0
    BY <1>2, <2>1
  <2>3. Len(rest) = n - 2
    BY <2>1, <2>2
  <2> QED  BY <2>1, <2>3
<1>4. /\ <<r>> \o rest \in Seq(S) /\ Len(<<r>> \o rest) = Len(rest) + 1
      /\ (<<r>> \o rest)[1] = r
      /\ \A i \in 1..Len(rest) : (<<r>> \o rest)[i + 1] = rest[i]
  BY <1>2, PushFrame
<1>5. Len(<<r>> \o rest) = Len(s) - 1
  BY <1>1, <1>3, <1>4
<1>6. ASSUME NEW i \in 2..(Len(s) - 1)  PROVE (<<r>> \o rest)[i] = s[i + 1]
  <2>1. /\ i - 1 \in 1..Len(rest) /\ (i - 1) + 1 = i
        /\ i - 1 \in 1..(Len(s) - 3 + 1) /\ 3 + (i - 1) - 1 = i + 1
    BY <1>1, <1>3
  <2>2. rest[i - 1] = s[3 + (i - 1) - 1]
    BY <2>1, <1>2
  <2>3. (<<r>> \o rest)[(i - 1) + 1] = rest[i - 1]
    BY <2>1, <1>4
  <2> QED  BY <2>1, <2>2, <2>3
<1> QED  BY <1>4, <1>5, <1>6 DEF rest

(* Nothing new is left after the first of a sequence is taken.             *)
LEMMA TailElements ==
  ASSUME NEW S, NEW s \in Seq(S), s # <<>>
  PROVE  {Tail(s)[i] : i \in 1..Len(Tail(s))} \subseteq {s[i] : i \in 1..Len(s)}
<1> DEFINE rest == Tail(s)
<1>1. /\ Len(rest) = Len(s) - 1 /\ Len(s) \in Nat
      /\ \A i \in 1..Len(rest) : rest[i] = s[i + 1]
  BY HeadTailProperties, LenProperties
<1> HIDE DEF rest
<1>2. \A i \in 1..Len(rest) : i + 1 \in 1..Len(s)
  BY <1>1
<1>3. \A i \in 1..Len(rest) : \E j \in 1..Len(s) : rest[i] = s[j]
  BY <1>1, <1>2
<1>4. {rest[i] : i \in 1..Len(rest)} \subseteq {s[i] : i \in 1..Len(s)}
  BY <1>3
<1> QED  BY <1>4 DEF rest

LEMMA TwoOrMore ==
  ASSUME NEW n \in Nat, n > 0, n # 1
  PROVE  2 \in 1..n /\ n > 1
OBVIOUS
================================================================================

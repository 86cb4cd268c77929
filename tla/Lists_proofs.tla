------------------------------ MODULE Lists_proofs ------------------------------
(***************************************************************************)
(* Lists with a node added, removed or inserted, for lists of any length:  *)
(* what stands where, which nodes are linked, and that none is linked      *)
(* twice.                                                                  *)
(***************************************************************************)
EXTENDS Integers, Sequences, SequencesExt, SequenceTheorems, WellFoundedInduction, TLAPS


(* A set of numbers that is not empty has a least one: the queue the       *)
(* scheduler dispatches from, the place of an insertion.                   *)
LEMMA LeastElement ==
  ASSUME NEW S \in SUBSET Nat, S # {}
  PROVE  /\ Min(S) \in S
         /\ \A n \in S : Min(S) <= n
<1> DEFINE R == OpToRel(<, Nat)
<1>1. PICK x \in S : \A y \in S : ~(<<y, x>> \in R)
  BY NatLessThanWellFounded, WFMin
<1>2. \A y \in S : x =< y
  <2> SUFFICES ASSUME NEW y \in S PROVE x =< y
    OBVIOUS
  <2>1. x \in Nat /\ y \in Nat
    OBVIOUS
  <2>2. ~(y < x)
    <3> SUFFICES ASSUME y < x PROVE FALSE
      OBVIOUS
    <3>1. <<y, x>> \in R
      BY <2>1 DEF OpToRel
    <3> QED
      BY <1>1, <3>1
  <2> QED
    BY <2>1, <2>2
<1>3. /\ Min(S) \in S
      /\ \A n \in S : Min(S) =< n
  BY <1>2, Zenon DEF Min
<1> QED
  BY <1>3

(* The empty list is the list without elements.                            *)
LEMMA EmptyList ==
  ASSUME NEW T, NEW s \in Seq(T)
  PROVE  s = << >> <=> ToSet(s) = {}
BY LenProperties, EmptySeq DEF ToSet

LEMMA AppendedList ==
  ASSUME NEW T, NEW s \in Seq(T), NEW e \in T
  PROVE  /\ Append(s, e) \in Seq(T)
         /\ ToSet(Append(s, e)) = ToSet(s) \cup {e}
         /\ IsInjective(s) /\ e \notin ToSet(s) => IsInjective(Append(s, e))
<1>1. /\ Append(s, e) \in Seq(T)
      /\ Len(Append(s, e)) = Len(s) + 1
      /\ \A i \in 1 .. Len(s) : Append(s, e)[i] = s[i]
      /\ Append(s, e)[Len(s) + 1] = e
  BY AppendProperties
<1>2. /\ Len(s) \in Nat /\ DOMAIN s = 1 .. Len(s)
      /\ DOMAIN Append(s, e) = 1 .. Len(s) + 1
  BY <1>1, LenProperties
<1>3. ToSet(Append(s, e)) = ToSet(s) \cup {e}
  BY <1>1, <1>2 DEF ToSet
<1>4. ASSUME IsInjective(s), e \notin ToSet(s)
      PROVE  IsInjective(Append(s, e))
  BY <1>1, <1>2, <1>4 DEF ToSet, IsInjective
<1> QED
  BY <1>1, <1>3, <1>4

LEMMA PoppedList ==
  ASSUME NEW T, NEW s \in Seq(T), s # << >>
  PROVE  /\ Head(s) \in T /\ Head(s) \in ToSet(s)
         /\ Tail(s) \in Seq(T)
         /\ IsInjective(s) => IsInjective(Tail(s)) /\ ToSet(Tail(s)) = ToSet(s) \ {Head(s)}
<1>1. /\ Head(s) \in T
      /\ Tail(s) \in Seq(T)
      /\ Len(Tail(s)) = Len(s) - 1
      /\ \A i \in 1 .. Len(Tail(s)) : Tail(s)[i] = s[i + 1]
  BY HeadTailProperties
<1>2. /\ Len(s) \in Nat \ {0} /\ DOMAIN s = 1 .. Len(s)
      /\ DOMAIN Tail(s) = 1 .. Len(s) - 1
      /\ Head(s) = s[1]
  BY <1>1, LenProperties, EmptySeq
<1>3. Head(s) \in ToSet(s)
  BY <1>2 DEF ToSet
<1>4. ASSUME IsInjective(s)
      PROVE  IsInjective(Tail(s)) /\ ToSet(Tail(s)) = ToSet(s) \ {Head(s)}
  <2>1. IsInjective(Tail(s))
    BY <1>1, <1>2, <1>4 DEF IsInjective
  <2>2. \A i \in DOMAIN s : s[i] # Head(s) => i - 1 \in DOMAIN Tail(s) /\ Tail(s)[i - 1] = s[i]
    BY <1>1, <1>2
  <2>3. \A i \in DOMAIN Tail(s) : i + 1 \in DOMAIN s /\ s[i + 1] = Tail(s)[i] /\ Tail(s)[i] # Head(s)
    BY <1>1, <1>2, <1>4 DEF IsInjective
  <2>4. ASSUME NEW x \in ToSet(s), x # Head(s)
        PROVE  x \in ToSet(Tail(s))
    BY <2>2, <2>4 DEF ToSet
  <2>5. ASSUME NEW x \in ToSet(Tail(s))
        PROVE  x \in ToSet(s) /\ x # Head(s)
    BY <2>3 DEF ToSet
  <2> QED
    BY <2>1, <2>4, <2>5
<1> QED
  BY <1>1, <1>3, <1>4

LEMMA ListWithout ==
  ASSUME NEW T, NEW s \in Seq(T), NEW i \in DOMAIN s
  PROVE  /\ RemoveAt(s, i) \in Seq(T)
         /\ Len(RemoveAt(s, i)) = Len(s) - 1
         /\ \A j \in 1 .. Len(s) - 1 : RemoveAt(s, i)[j] = IF j < i THEN s[j] ELSE s[j + 1]
<1>1. Len(s) \in Nat /\ DOMAIN s = 1 .. Len(s) /\ i \in 1 .. Len(s)
  BY LenProperties
<1>2. \A j \in DOMAIN s : s[j] \in T
  BY <1>1, ElementOfSeq
<1> DEFINE l == SubSeq(s, 1, i - 1)
           r == SubSeq(s, i + 1, Len(s))
<1>3. /\ l \in Seq(T) /\ Len(l) = i - 1
      /\ \A j \in 1 .. i - 1 : l[j] = s[j]
  <2>1. /\ l \in Seq(T) /\ Len(l) = IF 1 <= i - 1 THEN (i - 1) - 1 + 1 ELSE 0
        /\ \A j \in 1 .. (i - 1) - 1 + 1 : l[j] = s[1 + j - 1]
    <3>1. \A j \in 1 .. i - 1 : s[j] \in T
      BY <1>1, <1>2
    <3>2. 1 \in Int /\ i - 1 \in Int
      BY <1>1
    <3> HIDE DEF l
    <3> QED
      BY <3>1, <3>2, SubSeqProperties DEF l
  <2> HIDE DEF l
  <2> QED
    BY <2>1, <1>1
<1>4. /\ r \in Seq(T) /\ Len(r) = Len(s) - i
      /\ \A j \in 1 .. Len(s) - i : r[j] = s[i + j]
  <2>1. /\ r \in Seq(T) /\ Len(r) = IF i + 1 <= Len(s) THEN Len(s) - (i + 1) + 1 ELSE 0
        /\ \A j \in 1 .. Len(s) - (i + 1) + 1 : r[j] = s[(i + 1) + j - 1]
    <3>1. \A j \in i + 1 .. Len(s) : s[j] \in T
      BY <1>1, <1>2
    <3>2. i + 1 \in Int /\ Len(s) \in Int
      BY <1>1
    <3> HIDE DEF r
    <3> QED
      BY <3>1, <3>2, SubSeqProperties DEF r
  <2> HIDE DEF r
  <2>2. Len(r) = Len(s) - i
    BY <2>1, <1>1
  <2>3. ASSUME NEW j \in 1 .. Len(s) - i
        PROVE  r[j] = s[i + j]
    <3>1. j \in 1 .. Len(s) - (i + 1) + 1 /\ (i + 1) + j - 1 = i + j
      BY <1>1
    <3> QED
      BY <2>1, <3>1
  <2> QED
    BY <2>1, <2>2, <2>3
<1> HIDE DEF l, r
<1>5. /\ l \o r \in Seq(T) /\ Len(l \o r) = Len(l) + Len(r)
      /\ \A j \in 1 .. Len(l) + Len(r) : (l \o r)[j] = IF j <= Len(l) THEN l[j] ELSE r[j - Len(l)]
  BY <1>3, <1>4, ConcatProperties
<1>6. RemoveAt(s, i) = l \o r
  BY DEF RemoveAt, l, r
<1>7. ASSUME NEW j \in 1 .. Len(s) - 1
      PROVE  (l \o r)[j] = IF j < i THEN s[j] ELSE s[j + 1]
  <2>1. CASE j < i
    <3>1. j \in 1 .. Len(l) + Len(r) /\ j <= Len(l) /\ j \in 1 .. i - 1
      BY <2>1, <1>1, <1>3, <1>4
    <3> QED
      BY <2>1, <3>1, <1>3, <1>5
  <2>2. CASE j >= i
    <3>1. j - (i - 1) \in 1 .. Len(s) - i /\ i + (j - (i - 1)) = j + 1
      BY <2>2, <1>1
    <3>2. j \in 1 .. Len(l) + Len(r) /\ ~(j <= Len(l)) /\ j - Len(l) = j - (i - 1)
      BY <2>2, <1>1, <1>3, <1>4
    <3>3. (l \o r)[j] = r[j - (i - 1)]
      BY <3>2, <1>5
    <3>4. r[j - (i - 1)] = s[j + 1]
      BY <3>1, <1>4
    <3> QED
      BY <2>2, <3>3, <3>4, <1>1
  <2>3. j < i \/ j >= i
    BY <1>1
  <2> QED
    BY <2>1, <2>2, <2>3
<1>8. Len(l \o r) = Len(s) - 1
  BY <1>1, <1>3, <1>4, <1>5
<1> QED
  BY <1>5, <1>6, <1>7, <1>8

LEMMA ListWith ==
  ASSUME NEW T, NEW s \in Seq(T), NEW i \in 1 .. Len(s) + 1, NEW e \in T
  PROVE  /\ InsertAt(s, i, e) \in Seq(T) /\ Len(InsertAt(s, i, e)) = Len(s) + 1
         /\ \A j \in 1 .. Len(s) + 1 :
              InsertAt(s, i, e)[j] = IF j < i THEN s[j] ELSE IF j = i THEN e ELSE s[j - 1]
         /\ ToSet(InsertAt(s, i, e)) = ToSet(s) \cup {e}
         /\ IsInjective(s) /\ e \notin ToSet(s) => IsInjective(InsertAt(s, i, e))
<1>1. Len(s) \in Nat /\ DOMAIN s = 1 .. Len(s)
  BY LenProperties
<1>2. \A j \in DOMAIN s : s[j] \in T
  BY <1>1, ElementOfSeq
<1> DEFINE l == SubSeq(s, 1, i - 1)
           m == << e >>
           r == SubSeq(s, i, Len(s))
           u == InsertAt(s, i, e)
<1>3. /\ l \in Seq(T) /\ Len(l) = i - 1
      /\ \A j \in 1 .. i - 1 : l[j] = s[j]
  <2>1. \A j \in 1 .. i - 1 : s[j] \in T
    BY <1>1, <1>2
  <2>2. 1 \in Int /\ i - 1 \in Int
    BY <1>1
  <2>3. /\ l \in Seq(T) /\ Len(l) = IF 1 <= i - 1 THEN (i - 1) - 1 + 1 ELSE 0
        /\ \A j \in 1 .. (i - 1) - 1 + 1 : l[j] = s[1 + j - 1]
    <3> HIDE DEF l
    <3> QED
      BY <2>1, <2>2, SubSeqProperties DEF l
  <2> HIDE DEF l
  <2> QED
    BY <2>3, <1>1
<1>4. /\ r \in Seq(T) /\ Len(r) = Len(s) - i + 1
      /\ \A j \in 1 .. Len(s) - i + 1 : r[j] = s[i + j - 1]
  <2>1. \A j \in i .. Len(s) : s[j] \in T
    BY <1>1, <1>2
  <2>2. i \in Int /\ Len(s) \in Int
    BY <1>1
  <2>3. /\ r \in Seq(T) /\ Len(r) = IF i <= Len(s) THEN Len(s) - i + 1 ELSE 0
        /\ \A j \in 1 .. Len(s) - i + 1 : r[j] = s[i + j - 1]
    <3> HIDE DEF r
    <3> QED
      BY <2>1, <2>2, SubSeqProperties DEF r
  <2> HIDE DEF r
  <2> QED
    BY <2>3, <1>1
<1>5. m \in Seq(T) /\ Len(m) = 1 /\ m[1] = e
  OBVIOUS
<1> HIDE DEF l, r, m
<1>6. /\ l \o m \in Seq(T) /\ Len(l \o m) = i
      /\ \A j \in 1 .. i : (l \o m)[j] = IF j <= i - 1 THEN s[j] ELSE e
  <2>1. /\ l \o m \in Seq(T) /\ Len(l \o m) = Len(l) + Len(m)
        /\ \A j \in 1 .. Len(l) + Len(m) : (l \o m)[j] = IF j <= Len(l) THEN l[j] ELSE m[j - Len(l)]
    BY <1>3, <1>5, ConcatProperties
  <2> QED
    BY <2>1, <1>1, <1>3, <1>5
<1> DEFINE begin == l \o m
<1>7. u = begin \o r
  BY DEF InsertAt, l, r, m
<1> HIDE DEF begin
<1>8. /\ u \in Seq(T) /\ Len(u) = Len(s) + 1
      /\ \A j \in 1 .. Len(s) + 1 :
            u[j] = IF j < i THEN s[j] ELSE IF j = i THEN e ELSE s[j - 1]
  <2>1. /\ begin \in Seq(T) /\ Len(begin) = i
        /\ \A j \in 1 .. i : begin[j] = IF j <= i - 1 THEN s[j] ELSE e
    BY <1>6 DEF begin
  <2>2. /\ u \in Seq(T) /\ Len(u) = Len(begin) + Len(r)
        /\ \A j \in 1 .. Len(begin) + Len(r) :
              u[j] = IF j <= Len(begin) THEN begin[j] ELSE r[j - Len(begin)]
    <3>1. /\ begin \o r \in Seq(T) /\ Len(begin \o r) = Len(begin) + Len(r)
          /\ \A j \in 1 .. Len(begin) + Len(r) :
                (begin \o r)[j] = IF j <= Len(begin) THEN begin[j] ELSE r[j - Len(begin)]
      BY <2>1, <1>4, ConcatProperties
    <3> QED
      BY <3>1, <1>7
  <2>3. ASSUME NEW j \in 1 .. Len(s) + 1
        PROVE  u[j] = IF j < i THEN s[j] ELSE IF j = i THEN e ELSE s[j - 1]
    <3>1. CASE j <= i
      BY <3>1, <2>1, <2>2, <1>1, <1>4
    <3>2. CASE j > i
      <4>1. j - i \in 1 .. Len(s) - i + 1 /\ i + (j - i) - 1 = j - 1
        BY <3>2, <1>1
      <4> QED
        BY <3>2, <4>1, <2>1, <2>2, <1>1, <1>4
    <3> QED
      BY <3>1, <3>2, <1>1
  <2> QED
    BY <2>1, <2>2, <2>3, <1>1, <1>4
<1> HIDE DEF u
<1>9. DOMAIN u = 1 .. Len(s) + 1
  BY <1>8, LenProperties
<1>10. ToSet(u) = ToSet(s) \cup {e}
  <2>1. \A j \in DOMAIN u : u[j] = e \/ \E n \in DOMAIN s : u[j] = s[n]
    BY <1>1, <1>8, <1>9
  <2>2. i \in DOMAIN u /\ u[i] = e
    BY <1>1, <1>8, <1>9
  <2>3. ASSUME NEW n \in DOMAIN s
        PROVE  \E j \in DOMAIN u : u[j] = s[n]
    <3>1. CASE n < i
      <4>1. n \in DOMAIN u /\ u[n] = s[n]
        BY <3>1, <1>1, <1>8, <1>9
      <4> QED BY <4>1
    <3>2. CASE n >= i
      <4>1. n + 1 \in DOMAIN u /\ u[n + 1] = s[n]
        BY <3>2, <1>1, <1>8, <1>9
      <4> QED BY <4>1
    <3> QED
      BY <3>1, <3>2, <1>1
  <2> QED
    BY <2>1, <2>2, <2>3 DEF ToSet
<1>11. ASSUME IsInjective(s), e \notin ToSet(s)
       PROVE  IsInjective(u)
  <2> SUFFICES ASSUME NEW a \in DOMAIN u, NEW b \in DOMAIN u, u[a] = u[b], a < b
               PROVE  FALSE
    BY <1>1, <1>9 DEF IsInjective
  <2>1. \A n1 \in DOMAIN s : s[n1] # e
    BY <1>11 DEF ToSet
  <2>2. \A n1, n2 \in DOMAIN s : s[n1] = s[n2] => n1 = n2
    BY <1>11 DEF IsInjective
  <2>3. a \in 1 .. Len(s) + 1 /\ b \in 1 .. Len(s) + 1
    BY <1>9
  <2>4. CASE a < i /\ b < i
    BY <2>4, <2>2, <2>3, <1>1, <1>8
  <2>5. CASE a < i /\ b = i
    BY <2>5, <2>1, <2>3, <1>1, <1>8
  <2>6. CASE a < i /\ b > i
    BY <2>6, <2>2, <2>3, <1>1, <1>8
  <2>7. CASE a = i /\ b > i
    BY <2>7, <2>1, <2>3, <1>1, <1>8
  <2>8. CASE a > i /\ b > i
    BY <2>8, <2>2, <2>3, <1>1, <1>8
  <2> QED
    BY <2>3, <2>4, <2>5, <2>6, <2>7, <2>8, <1>1
<1> QED
  BY <1>8, <1>10, <1>11 DEF u
=============================================================================

--------------------------- MODULE SelectionProofs ---------------------------
(***************************************************************************)
(* What is in the sequences of Selections, how long they are, in which     *)
(* order, and how often an element is in them.  Induction is not needed    *)
(* for the ranks: an injection of a finite set into one of the same size   *)
(* fills it.  For the first of some positions it is.                       *)
(***************************************************************************)
EXTENDS Selections, Integers, SequencesExt, FiniteSetTheorems, SequenceTheorems,
        WellFoundedInduction, TLAPS

-----------------------------------------------------------------------------
(* A sequence, whatever of.                                                *)
IsSeq(s) == s \in Seq(ToSet(s))

LEMMA SeqSelf ==
    ASSUME NEW T, NEW s \in Seq(T)
    PROVE  IsSeq(s) /\ ToSet(s) \subseteq T
<1>1. /\ Len(s) \in Nat /\ DOMAIN s = 1 .. Len(s)
      /\ \A i \in 1 .. Len(s) : s[i] \in T /\ s[i] \in ToSet(s)
    BY DEF ToSet
<1>2. s \in [1 .. Len(s) -> ToSet(s)]
    BY <1>1
<1>3. s \in Seq(ToSet(s))
    BY <1>1, <1>2
<1> QED BY <1>1, <1>3 DEF IsSeq, ToSet

LEMMA SeqMap ==
    ASSUME NEW T, NEW s \in Seq(T), NEW U, NEW t,
           t \in [DOMAIN s -> U]
    PROVE  t \in Seq(U) /\ Len(t) = Len(s) /\ DOMAIN t = DOMAIN s
<1>1. Len(s) \in Nat /\ DOMAIN s = 1 .. Len(s)
    OBVIOUS
<1>2. t \in [1 .. Len(s) -> U]
    BY <1>1
<1>3. t \in Seq(U)
    BY <1>1, <1>2
<1> QED BY <1>1, <1>2, <1>3, LenProperties

(* One sequence and another behind it.                                     *)
LEMMA ConcatAt ==
    ASSUME NEW T, NEW s \in Seq(T), NEW t \in Seq(T)
    PROVE  /\ s \o t \in Seq(T) /\ Len(s \o t) = Len(s) + Len(t)
           /\ Len(s) \in Nat /\ Len(t) \in Nat
           /\ DOMAIN s = 1 .. Len(s) /\ DOMAIN t = 1 .. Len(t)
           /\ DOMAIN (s \o t) = 1 .. Len(s) + Len(t)
           /\ \A i \in 1 .. Len(s) : (s \o t)[i] = s[i]
           /\ \A i \in 1 .. Len(t) : (s \o t)[Len(s) + i] = t[i]
BY ConcatProperties

LEMMA SeqConcat ==
    ASSUME NEW s, IsSeq(s), NEW t, IsSeq(t)
    PROVE  /\ IsSeq(s \o t)
           /\ Len(s \o t) = Len(s) + Len(t)
           /\ ToSet(s \o t) = ToSet(s) \cup ToSet(t)
<1> DEFINE T == ToSet(s) \cup ToSet(t)
           u == s \o t
<1>1. s \in Seq(T) /\ t \in Seq(T)
    BY DEF IsSeq
<1> HIDE DEF T, u
<1>2. /\ u \in Seq(T) /\ Len(u) = Len(s) + Len(t)
      /\ Len(s) \in Nat /\ Len(t) \in Nat
      /\ DOMAIN s = 1 .. Len(s) /\ DOMAIN t = 1 .. Len(t)
      /\ DOMAIN u = 1 .. Len(s) + Len(t)
      /\ \A i \in 1 .. Len(s) : u[i] = s[i]
      /\ \A i \in 1 .. Len(t) : u[Len(s) + i] = t[i]
    BY <1>1, ConcatAt DEF u
<1>3. IsSeq(u) /\ ToSet(u) \subseteq T
    BY <1>2, SeqSelf
<1>4. ASSUME NEW i \in DOMAIN s PROVE s[i] \in ToSet(u)
  <2>1. i \in DOMAIN u /\ u[i] = s[i]
    BY <1>2
  <2> QED BY <2>1 DEF ToSet
<1>5. ASSUME NEW i \in DOMAIN t PROVE t[i] \in ToSet(u)
  <2>1. Len(s) + i \in DOMAIN u /\ u[Len(s) + i] = t[i]
    BY <1>2
  <2> QED BY <2>1 DEF ToSet
<1>6. T \subseteq ToSet(u)
    BY <1>4, <1>5 DEF ToSet, T
<1>7. ToSet(u) = T
    BY <1>3, <1>6
<1> QED BY <1>2, <1>3, <1>7 DEF T, u

(* A sequence cut in two.                                                  *)
LEMMA Cut ==
    ASSUME NEW T, NEW s \in Seq(T), NEW n \in 0 .. Len(s)
    PROVE  /\ SubSeq(s, 1, n) \in Seq(T) /\ SubSeq(s, n + 1, Len(s)) \in Seq(T)
           /\ Len(SubSeq(s, 1, n)) = n
           /\ Len(SubSeq(s, n + 1, Len(s))) = Len(s) - n
           /\ SubSeq(s, 1, n) \o SubSeq(s, n + 1, Len(s)) = s
<1> DEFINE a == SubSeq(s, 1, n)
           b == SubSeq(s, n + 1, Len(s))
<1>1. Len(s) \in Nat /\ DOMAIN s = 1 .. Len(s) /\ \A i \in 1 .. Len(s) : s[i] \in T
    OBVIOUS
<1>2. a \in Seq(T) /\ Len(a) = n /\ \A i \in 1 .. n : a[i] = s[i]
    BY <1>1, SubSeqProperties
<1>3. /\ b \in Seq(T) /\ Len(b) = Len(s) - n
      /\ \A i \in 1 .. Len(s) - n : b[i] = s[n + i]
  <2>0. Len(s) \in Nat
    BY <1>1
  <2>1. n + 1 \in Int /\ Len(s) \in Int /\ \A i \in n + 1 .. Len(s) : s[i] \in T
    BY <1>1
  <2>2. /\ b \in Seq(T)
        /\ Len(b) = IF n + 1 <= Len(s) THEN Len(s) - (n + 1) + 1 ELSE 0
        /\ \A i \in 1 .. Len(s) - (n + 1) + 1 : b[i] = s[n + 1 + i - 1]
    BY <2>1, SubSeqProperties
  <2> HIDE DEF b
  <2>3. Len(s) - (n + 1) + 1 = Len(s) - n /\ n \in Nat /\ n <= Len(s)
    BY <1>1
  <2>4. Len(b) = Len(s) - n
    <3>1. CASE n + 1 <= Len(s)
      BY <2>2, <2>3, <3>1
    <3>2. CASE ~(n + 1 <= Len(s))
      <4>1. n = Len(s)
        BY <2>0, <3>2
      <4> QED BY <1>1, <2>2, <3>2, <4>1
    <3> QED BY <3>1, <3>2
  <2>5. ASSUME NEW i \in 1 .. Len(s) - n PROVE b[i] = s[n + i]
    <3>1. n + 1 + i - 1 = n + i /\ i \in 1 .. Len(s) - (n + 1) + 1
      BY <1>1, <2>3
    <3> QED BY <2>2, <3>1
  <2> QED BY <2>2, <2>4, <2>5
<1> HIDE DEF a, b
<1>4. /\ a \o b \in Seq(T) /\ Len(a \o b) = Len(s)
      /\ \A i \in 1 .. n : (a \o b)[i] = a[i]
      /\ \A i \in 1 .. Len(b) : (a \o b)[n + i] = b[i]
  <2>1. /\ a \o b \in Seq(T) /\ Len(a \o b) = Len(a) + Len(b)
        /\ \A i \in 1 .. Len(a) : (a \o b)[i] = a[i]
        /\ \A i \in 1 .. Len(b) : (a \o b)[Len(a) + i] = b[i]
    BY <1>2, <1>3, ConcatAt
  <2>2. n + (Len(s) - n) = Len(s)
    BY <1>1
  <2> QED BY <1>2, <1>3, <2>1, <2>2
<1>5. ASSUME NEW i \in 1 .. Len(s) PROVE (a \o b)[i] = s[i]
  <2>1. CASE i <= n
    BY <2>1, <1>2, <1>4
  <2>2. CASE i > n
    <3>1. i - n \in 1 .. Len(s) - n /\ n + (i - n) = i
      BY <2>2, <1>1
    <3> QED BY <3>1, <1>3, <1>4
  <2>3. i <= n \/ i > n
    BY <1>1
  <2> QED BY <2>1, <2>2, <2>3
<1>6. a \o b = s
    BY <1>4, <1>5, SeqEqual
<1> QED BY <1>2, <1>3, <1>6 DEF a, b

-----------------------------------------------------------------------------
(* A one-to-one map between two sets, with what it says spelt out.         *)
LEMMA SameSize ==
    ASSUME NEW S, IsFiniteSet(S), NEW T, NEW f \in [S -> T],
           \A i, j \in S : f[i] = f[j] => i = j,
           \A y \in T : \E i \in S : f[i] = y
    PROVE  IsFiniteSet(T) /\ Cardinality(T) = Cardinality(S)
<1>1. f \in Bijection(S, T)
    BY DEF Bijection, Injection, Surjection, IsInjective
<1> QED BY <1>1, FS_Bijection DEF ExistsBijection

LEMMA Filled ==
    ASSUME NEW S, IsFiniteSet(S), NEW f \in [S -> 1 .. Cardinality(S)],
           \A i, j \in S : f[i] = f[j] => i = j
    PROVE  \A n \in 1 .. Cardinality(S) : \E i \in S : f[i] = n
<1> DEFINE m == Cardinality(S)
<1>1. m \in Nat
    BY FS_CardinalityType
<1>2. IsFiniteSet(1 .. m) /\ Cardinality(1 .. m) = m
    BY <1>1, FS_Interval
<1>3. f \in Injection(S, 1 .. m)
    BY DEF Injection, IsInjective
<1>4. f \in Surjection(S, 1 .. m)
    BY <1>2, <1>3, FS_Injection
<1> QED BY <1>4 DEF Surjection

LEMMA Positions ==
    ASSUME NEW T, NEW s \in Seq(T), NEW S \in SUBSET DOMAIN s
    PROVE  /\ DOMAIN s = 1 .. Len(s) /\ Len(s) \in Nat
           /\ IsFiniteSet(S) /\ Cardinality(S) \in 0 .. Len(s)
           /\ IsFiniteSet(DOMAIN s) /\ Cardinality(DOMAIN s) = Len(s)
<1>1. DOMAIN s = 1 .. Len(s) /\ Len(s) \in Nat
    OBVIOUS
<1>2. IsFiniteSet(1 .. Len(s)) /\ Cardinality(1 .. Len(s)) = Len(s)
  <2>1. 1 \in Int /\ Len(s) \in Int /\ Len(s) >= 0
    BY <1>1
  <2>2. /\ IsFiniteSet(1 .. Len(s))
        /\ Cardinality(1 .. Len(s)) = IF 1 > Len(s) THEN 0 ELSE Len(s) - 1 + 1
    BY <2>1, FS_Interval, Zenon
  <2> QED BY <2>1, <2>2
<1>3. IsFiniteSet(S) /\ Cardinality(S) <= Len(s)
    BY <1>1, <1>2, FS_Subset
<1>4. Cardinality(S) \in Nat
    BY <1>3, FS_CardinalityType
<1> QED BY <1>1, <1>2, <1>3, <1>4

(* With only tells TLC what to evaluate once.                              *)
LEMMA PickedIs ==
    ASSUME NEW s, NEW S
    PROVE  Picked(s, S) = Placed(s, [i \in S |-> Cardinality({j \in S : j <= i})])
BY DEF Picked, With

LEMMA AmongIs ==
    ASSUME NEW s, NEW M
    PROVE  Among(s, M) = Picked(s, {i \in DOMAIN s : s[i] \in M})
BY DEF Among, With

LEMMA OnceIs ==
    ASSUME NEW s
    PROVE  Once(s) = Picked(s, {i \in DOMAIN s : \A j \in 1 .. i - 1 : s[j] # s[i]})
BY DEF Once, With

(* Elements are where their rank puts them, if no two have the same.       *)
LEMMA PlacedFacts ==
    ASSUME NEW T, NEW s \in Seq(T), NEW S \in SUBSET DOMAIN s,
           NEW r \in [S -> 1 .. Cardinality(S)],
           \A i, j \in S : r[i] = r[j] => i = j
    PROVE  /\ Placed(s, r) \in Seq(T)
           /\ Len(Placed(s, r)) = Cardinality(S)
           /\ DOMAIN Placed(s, r) = 1 .. Cardinality(S)
           /\ \A i \in S : Placed(s, r)[r[i]] = s[i]
           /\ \A n \in 1 .. Cardinality(S) : \E i \in S : r[i] = n
<1> DEFINE m == Cardinality(S)
           At(n) == CHOOSE i \in S : r[i] = n
<1>1. IsFiniteSet(S) /\ m \in Nat
    BY Positions
<1>2. \A n \in 1 .. m : \E i \in S : r[i] = n
    BY <1>1, Filled
<1>3. \A n \in 1 .. m : At(n) \in S /\ r[At(n)] = n
    BY <1>2
<1> DEFINE p == [n \in 1 .. m |-> s[At(n)]]
<1>0. Placed(s, r) = SubSeq(p, 1, m)
  <2> DEFINE q == [n \in 1 .. Cardinality(DOMAIN r) |->
                     s[CHOOSE i \in DOMAIN r : r[i] = n]]
  <2>1. Placed(s, r) = SubSeq(q, 1, Cardinality(DOMAIN r))
    BY DEF Placed
  <2>2. DOMAIN r = S
    OBVIOUS
  <2>3. q = p
    BY <2>2
  <2> HIDE DEF q, p
  <2> QED BY <2>1, <2>2, <2>3
<1> HIDE DEF At
<1>4. Placed(s, r) = p
  <2>1. p \in [1 .. m -> T]
    BY <1>3
  <2> HIDE DEF p
  <2>2. p \in Seq(T) /\ Len(p) = m
    BY <1>1, <2>1, LenProperties, IsASeq
  <2> HIDE DEF m
  <2>3. /\ SubSeq(p, 1, m) \in Seq(T) /\ Len(SubSeq(p, 1, m)) = m
        /\ \A i \in 1 .. m : SubSeq(p, 1, m)[i] = p[i]
    BY <1>1, <2>2, SubSeqProperties
  <2> QED BY <1>0, <2>2, <2>3, SeqEqual
<1>5. Placed(s, r) \in [1 .. m -> T]
    BY <1>3, <1>4
<1>6. \A i \in S : r[i] \in 1 .. m /\ At(r[i]) = i
    BY <1>3
<1>7. \A i \in S : Placed(s, r)[r[i]] = s[i]
    BY <1>4, <1>6
<1>8. Placed(s, r) \in Seq(T) /\ Len(Placed(s, r)) = m
    BY <1>1, <1>5, LenProperties, IsASeq
<1> QED BY <1>2, <1>5, <1>7, <1>8

(* t has what s has at the positions in S, in their order, where r says.   *)
Keeps(s, S, t, r) ==
    /\ r \in [S -> 1 .. Cardinality(S)]
    /\ \A i \in S : t[r[i]] = s[i]
    /\ \A i, j \in S : i < j <=> r[i] < r[j]
    /\ \A n \in 1 .. Cardinality(S) : \E i \in S : r[i] = n

(* What is picked is all there and in order.                               *)
LEMMA PickedFacts ==
    ASSUME NEW T, NEW s \in Seq(T), NEW S \in SUBSET DOMAIN s
    PROVE  /\ Picked(s, S) \in Seq(T)
           /\ Len(Picked(s, S)) = Cardinality(S)
           /\ DOMAIN Picked(s, S) = 1 .. Cardinality(S)
           /\ \E r : Keeps(s, S, Picked(s, S), r)
<1> DEFINE Down(i) == {j \in S : j <= i}
           r == [i \in S |-> Cardinality(Down(i))]
           m == Cardinality(S)
<1>1. IsFiniteSet(S) /\ m \in Nat /\ S \subseteq Nat
    BY Positions
<1>2. ASSUME NEW i \in S
      PROVE  IsFiniteSet(Down(i)) /\ Cardinality(Down(i)) \in 1 .. m
  <2>1. IsFiniteSet(Down(i)) /\ Cardinality(Down(i)) <= m /\ Cardinality(Down(i)) \in Nat
    BY <1>1, FS_Subset, FS_CardinalityType
  <2>2. Down(i) # {}
    BY <1>1
  <2>3. Cardinality(Down(i)) # 0
    BY <2>1, <2>2, FS_EmptySet
  <2> QED BY <1>1, <2>1, <2>3
<1>3. ASSUME NEW i \in S, NEW j \in S, i < j PROVE r[i] < r[j]
  <2>1. Down(i) \in SUBSET Down(j) /\ j \in Down(j) /\ j \notin Down(i)
    BY <1>1, <1>3
  <2>2. /\ Cardinality(Down(i)) <= Cardinality(Down(j))
        /\ Cardinality(Down(j)) # Cardinality(Down(i))
    BY <1>2, <2>1, FS_Subset
  <2>3. Cardinality(Down(i)) \in Nat /\ Cardinality(Down(j)) \in Nat
    BY <1>1, FS_Subset, FS_CardinalityType
  <2> DEFINE a == Cardinality(Down(i))
             b == Cardinality(Down(j))
  <2>4. r[i] = a /\ r[j] = b
    OBVIOUS
  <2> HIDE DEF a, b, r
  <2>5. a < b
    BY <2>2, <2>3 DEF a, b
  <2> QED BY <2>4, <2>5
<1>4. r \in [S -> 1 .. m]
    BY <1>2
<1>5. \A i, j \in S : i < j \/ j < i \/ i = j
    BY <1>1
<1>6. \A i, j \in S : r[i] \in Nat /\ r[j] \in Nat
    BY <1>4, <1>1
<1>7. Picked(s, S) = Placed(s, r)
    BY PickedIs
<1> HIDE DEF r
<1>8. \A i, j \in S : r[i] = r[j] => i = j
    BY <1>3, <1>5, <1>6
<1>9. \A i, j \in S : i < j <=> r[i] < r[j]
    BY <1>1, <1>3, <1>5, <1>6
<1>10. /\ Picked(s, S) \in Seq(T)
       /\ Len(Picked(s, S)) = m
       /\ DOMAIN Picked(s, S) = 1 .. m
       /\ \A i \in S : Picked(s, S)[r[i]] = s[i]
       /\ \A n \in 1 .. m : \E i \in S : r[i] = n
    BY <1>4, <1>8, PlacedFacts, <1>7
<1>11. Keeps(s, S, Picked(s, S), r)
    BY <1>4, <1>9, <1>10 DEF Keeps
<1> QED BY <1>10, <1>11

(* What is sorted by an order is all there and in that order.              *)
LEMMA SortedFacts ==
    ASSUME NEW T, NEW s \in Seq(T), NEW ahead \in [DOMAIN s -> SUBSET DOMAIN s],
           \A i \in DOMAIN s : i \notin ahead[i],
           \A i, j \in DOMAIN s : j \in ahead[i] => ahead[j] \subseteq ahead[i],
           \A i, j \in DOMAIN s : i # j => i \in ahead[j] \/ j \in ahead[i]
    PROVE  /\ Sorted(s, ahead) \in Seq(T)
           /\ Len(Sorted(s, ahead)) = Len(s)
           /\ DOMAIN Sorted(s, ahead) = DOMAIN s
           /\ \E r \in [DOMAIN s -> DOMAIN s] :
                /\ \A i \in DOMAIN s : Sorted(s, ahead)[r[i]] = s[i]
                /\ \A i, j \in DOMAIN s : i \in ahead[j] <=> r[i] < r[j]
                /\ \A n \in DOMAIN s : \E i \in DOMAIN s : r[i] = n
<1> DEFINE S == DOMAIN s
           r == [i \in S |-> Cardinality(ahead[i]) + 1]
           m == Cardinality(S)
<1>1. IsFiniteSet(S) /\ m \in Nat /\ m = Len(s) /\ S = 1 .. m
    BY Positions
<1>2. ASSUME NEW i \in S
      PROVE  IsFiniteSet(ahead[i]) /\ Cardinality(ahead[i]) \in Nat
             /\ Cardinality(ahead[i]) < m
  <2>1. /\ IsFiniteSet(ahead[i]) /\ Cardinality(ahead[i]) <= m
        /\ Cardinality(ahead[i]) \in Nat /\ Cardinality(ahead[i]) # m
    BY <1>1, FS_Subset, FS_CardinalityType
  <2> QED BY <1>1, <2>1
<1>3. ASSUME NEW i \in S, NEW j \in S, i \in ahead[j] PROVE r[i] < r[j]
  <2>1. ahead[i] \in SUBSET ahead[j] /\ i \notin ahead[i]
    BY <1>3
  <2>2. /\ Cardinality(ahead[i]) <= Cardinality(ahead[j])
        /\ Cardinality(ahead[j]) # Cardinality(ahead[i])
    BY <1>2, <1>3, <2>1, FS_Subset
  <2>3. Cardinality(ahead[i]) < Cardinality(ahead[j])
    BY <1>2, <2>2
  <2> QED BY <1>2, <2>3
<1>4. r \in [S -> 1 .. m]
    BY <1>1, <1>2
<1>5. \A i, j \in S : r[i] \in Nat /\ r[j] \in Nat
    BY <1>4, <1>1
<1>6. Sorted(s, ahead) = Placed(s, r)
    BY DEF Sorted
<1> HIDE DEF r
<1>7. \A i, j \in S : r[i] = r[j] => i = j
    BY <1>3, <1>5
<1>8. \A i, j \in S : i \in ahead[j] <=> r[i] < r[j]
    BY <1>3, <1>5
<1>9. S \in SUBSET DOMAIN s
    OBVIOUS
<1>10. /\ Sorted(s, ahead) \in Seq(T)
       /\ Len(Sorted(s, ahead)) = m
       /\ DOMAIN Sorted(s, ahead) = 1 .. m
       /\ \A i \in S : Sorted(s, ahead)[r[i]] = s[i]
       /\ \A n \in 1 .. m : \E i \in S : r[i] = n
    BY <1>4, <1>7, <1>9, PlacedFacts, <1>6
<1>11. r \in [S -> S]
    BY <1>1, <1>4
<1>12. \E q \in [S -> S] :
         /\ \A i \in S : Sorted(s, ahead)[q[i]] = s[i]
         /\ \A i, j \in S : i \in ahead[j] <=> q[i] < q[j]
         /\ \A n \in S : \E i \in S : q[i] = n
  <2> WITNESS r \in [S -> S]
  <2> QED BY <1>1, <1>8, <1>10
<1> QED BY <1>1, <1>10, <1>12

-----------------------------------------------------------------------------
Below == {pair \in Nat \X Nat : pair[1] < pair[2]}

LEMMA Least ==
    ASSUME NEW S \in SUBSET Nat, S # {}
    PROVE  \E n \in S : \A m \in S : n <= m
<1>1. IsWellFoundedOn(Below, Nat)
    BY NatLessThanWellFounded DEF OpToRel, Below
<1>2. PICK n \in S : \A m \in S : <<m, n>> \notin Below
    BY <1>1, WFMin
<1>3. ASSUME NEW m \in S PROVE n <= m
  <2>1. m \in Nat /\ n \in Nat
    OBVIOUS
  <2>2. ASSUME m < n PROVE FALSE
    <3> DEFINE pair == <<m, n>>
    <3>1. pair \in Nat \X Nat /\ pair[1] = m /\ pair[2] = n
      BY <2>1
    <3>2. pair \in Below
      BY <2>2, <3>1 DEF Below
    <3> QED BY <3>2, <1>2
  <2> QED BY <2>1, <2>2
<1> QED BY <1>3

(* Nothing else is picked, and all of it.                                  *)
LEMMA PickedElements ==
    ASSUME NEW T, NEW s \in Seq(T), NEW S \in SUBSET DOMAIN s
    PROVE  ToSet(Picked(s, S)) = {s[i] : i \in S}
<1>0. PICK r : Keeps(s, S, Picked(s, S), r)
    BY PickedFacts
<1>1. /\ r \in [S -> 1 .. Cardinality(S)]
      /\ \A i \in S : Picked(s, S)[r[i]] = s[i]
      /\ \A i, j \in S : i < j <=> r[i] < r[j]
      /\ \A n \in 1 .. Cardinality(S) : \E i \in S : r[i] = n
    BY <1>0 DEF Keeps
<1>2. DOMAIN Picked(s, S) = 1 .. Cardinality(S)
    BY PickedFacts
<1>3. \A n \in DOMAIN Picked(s, S) : \E i \in S : Picked(s, S)[n] = s[i]
    BY <1>1, <1>2
<1>4. \A i \in S : \E n \in DOMAIN Picked(s, S) : Picked(s, S)[n] = s[i]
    BY <1>1, <1>2
<1> QED BY <1>3, <1>4 DEF ToSet

LEMMA AmongFacts ==
    ASSUME NEW T, NEW s \in Seq(T), NEW M
    PROVE  /\ Among(s, M) \in Seq(T)
           /\ ToSet(Among(s, M)) = ToSet(s) \cap M
<1> DEFINE S == {i \in DOMAIN s : s[i] \in M}
<1>1. S \in SUBSET DOMAIN s /\ Among(s, M) = Picked(s, S)
    BY AmongIs
<1>2. {s[i] : i \in S} = ToSet(s) \cap M
    BY DEF ToSet
<1> HIDE DEF S
<1>3. ToSet(Picked(s, S)) = {s[i] : i \in S} /\ Picked(s, S) \in Seq(T)
    BY <1>1, PickedElements, PickedFacts
<1> QED BY <1>1, <1>2, <1>3

LEMMA OnceFacts ==
    ASSUME NEW T, NEW s \in Seq(T)
    PROVE  /\ Once(s) \in Seq(T)
           /\ ToSet(Once(s)) = ToSet(s)
<1> DEFINE S == {i \in DOMAIN s : \A j \in 1 .. i - 1 : s[j] # s[i]}
<1>1. S \in SUBSET DOMAIN s /\ Once(s) = Picked(s, S)
    BY OnceIs
<1>2. ASSUME NEW i \in DOMAIN s PROVE \E j \in S : s[j] = s[i]
  <2> DEFINE R == {j \in DOMAIN s : s[j] = s[i]}
  <2>1. R \in SUBSET Nat /\ R # {}
    OBVIOUS
  <2>2. PICK j \in R : \A k \in R : j <= k
    BY <2>1, Least
  <2>3. j \in 1 .. Len(s) /\ Len(s) \in Nat /\ s[j] = s[i]
    BY <2>2
  <2>4. ASSUME NEW k \in 1 .. j - 1 PROVE s[k] # s[j]
    <3>1. k \in DOMAIN s /\ ~(j <= k)
      BY <2>3
    <3>2. k \notin R
      BY <3>1, <2>2
    <3> QED BY <3>1, <3>2, <2>3
  <2> QED BY <2>3, <2>4
<1>3. {s[i] : i \in S} = ToSet(s)
    BY <1>1, <1>2 DEF ToSet
<1> HIDE DEF S
<1>4. ToSet(Picked(s, S)) = {s[i] : i \in S} /\ Picked(s, S) \in Seq(T)
    BY <1>1, PickedElements, PickedFacts
<1> QED BY <1>1, <1>3, <1>4

-----------------------------------------------------------------------------
(* A sequence of other elements is one of those it has.                    *)
LEMMA SeqWithin ==
    ASSUME NEW T, NEW s \in Seq(T), NEW U, ToSet(s) \subseteq U
    PROVE  s \in Seq(U)
<1>1. /\ Len(s) \in Nat /\ DOMAIN s = 1 .. Len(s)
      /\ \A i \in 1 .. Len(s) : s[i] \in U
    BY DEF ToSet
<1>2. s \in [1 .. Len(s) -> U]
    BY <1>1
<1> QED BY <1>1, <1>2

(* No element is in s twice.                                               *)
Distinct(s) == \A i, j \in DOMAIN s : s[i] = s[j] => i = j

LEMMA DistinctSize ==
    ASSUME NEW T, NEW s \in Seq(T)
    PROVE  /\ IsFiniteSet(ToSet(s))
           /\ Distinct(s) <=> Cardinality(ToSet(s)) = Len(s)
<1>1. /\ IsFiniteSet(DOMAIN s) /\ Cardinality(DOMAIN s) = Len(s)
    BY Positions
<1>2. s \in [DOMAIN s -> ToSet(s)]
  <2>1. \A i \in DOMAIN s : s[i] \in ToSet(s)
    BY DEF ToSet
  <2>2. s = [i \in DOMAIN s |-> s[i]]
    OBVIOUS
  <2> QED BY <2>1, <2>2
<1>3. s \in Surjection(DOMAIN s, ToSet(s))
    BY <1>2 DEF Surjection, ToSet
<1>4. /\ IsFiniteSet(ToSet(s))
      /\ Cardinality(ToSet(s)) = Cardinality(DOMAIN s)
           <=> s \in Injection(DOMAIN s, ToSet(s))
    BY <1>1, <1>3, FS_Surjection
<1>5. s \in Injection(DOMAIN s, ToSet(s)) <=> Distinct(s)
    BY <1>2 DEF Injection, IsInjective, Distinct
<1> QED BY <1>1, <1>4, <1>5

(* What is picked from a sequence without repetitions has none.            *)
LEMMA PickedDistinct ==
    ASSUME NEW T, NEW s \in Seq(T), NEW S \in SUBSET DOMAIN s,
           \A i, j \in S : s[i] = s[j] => i = j
    PROVE  Distinct(Picked(s, S))
<1> DEFINE p == Picked(s, S)
<1>0. PICK r : Keeps(s, S, Picked(s, S), r)
    BY PickedFacts
<1>1. DOMAIN p = 1 .. Cardinality(S)
    BY PickedFacts
<1> HIDE DEF p
<1>2. ASSUME NEW m \in DOMAIN p, NEW n \in DOMAIN p, p[m] = p[n]
      PROVE  m = n
  <2>1. PICK i \in S, j \in S : r[i] = m /\ r[j] = n
    BY <1>0, <1>1 DEF Keeps, p
  <2>2. s[i] = s[j]
    BY <1>0, <1>2, <2>1 DEF Keeps, p
  <2> QED BY <2>1, <2>2
<1> QED BY <1>2 DEF Distinct, p

LEMMA AmongDistinct ==
    ASSUME NEW T, NEW s \in Seq(T), NEW M, Distinct(s)
    PROVE  Distinct(Among(s, M))
<1> DEFINE S == {i \in DOMAIN s : s[i] \in M}
<1>1. S \in SUBSET DOMAIN s /\ \A i, j \in S : s[i] = s[j] => i = j
    BY DEF Distinct
<1>2. Among(s, M) = Picked(s, S)
    BY AmongIs
<1> HIDE DEF S
<1> QED BY <1>1, <1>2, PickedDistinct

LEMMA OnceDistinct ==
    ASSUME NEW T, NEW s \in Seq(T)
    PROVE  Distinct(Once(s))
<1> DEFINE S == {i \in DOMAIN s : \A j \in 1 .. i - 1 : s[j] # s[i]}
<1>1. S \in SUBSET DOMAIN s
    OBVIOUS
<1>2. Once(s) = Picked(s, S)
    BY OnceIs
<1>3. ASSUME NEW i \in S, NEW j \in S, s[i] = s[j] PROVE i = j
  <2>1. i \in Nat /\ j \in Nat /\ i >= 1 /\ j >= 1
    BY <1>1
  <2>2. i \notin 1 .. j - 1 /\ j \notin 1 .. i - 1
    BY <1>3
  <2> QED BY <2>1, <2>2
<1> HIDE DEF S
<1> QED BY <1>1, <1>2, <1>3, PickedDistinct

LEMMA ConcatDistinct ==
    ASSUME NEW T, NEW s \in Seq(T), NEW t \in Seq(T),
           Distinct(s), Distinct(t), ToSet(s) \cap ToSet(t) = {}
    PROVE  Distinct(s \o t)
<1> DEFINE u == s \o t
<1>1. /\ Len(s) \in Nat /\ Len(t) \in Nat
      /\ DOMAIN s = 1 .. Len(s) /\ DOMAIN t = 1 .. Len(t)
      /\ DOMAIN u = 1 .. Len(s) + Len(t)
      /\ \A i \in 1 .. Len(s) : u[i] = s[i]
      /\ \A i \in 1 .. Len(t) : u[Len(s) + i] = t[i]
    BY ConcatAt
<1> HIDE DEF u
<1>2. ASSUME NEW i \in DOMAIN u
      PROVE  \/ i \in DOMAIN s /\ u[i] = s[i] /\ u[i] \in ToSet(s)
             \/ /\ i - Len(s) \in DOMAIN t /\ u[i] = t[i - Len(s)]
                /\ u[i] \in ToSet(t)
  <2>1. CASE i <= Len(s)
    BY <2>1, <1>1 DEF ToSet
  <2>2. CASE i > Len(s)
    <3>1. i - Len(s) \in 1 .. Len(t) /\ Len(s) + (i - Len(s)) = i
      BY <2>2, <1>1
    <3> QED BY <3>1, <1>1 DEF ToSet
  <2> QED BY <1>1, <2>1, <2>2
<1>3. ASSUME NEW i \in DOMAIN u, NEW j \in DOMAIN u, u[i] = u[j]
      PROVE  i = j
  <2>1. i \in Int /\ j \in Int /\ Len(s) \in Int
    BY <1>1
  <2>2. CASE i \in DOMAIN s /\ u[i] = s[i] /\ u[i] \in ToSet(s)
    <3>1. j \in DOMAIN s /\ u[j] = s[j]
      BY <1>2, <1>3, <2>2
    <3> QED BY <1>3, <2>2, <3>1 DEF Distinct
  <2>3. CASE /\ i - Len(s) \in DOMAIN t /\ u[i] = t[i - Len(s)]
             /\ u[i] \in ToSet(t)
    <3>1. j - Len(s) \in DOMAIN t /\ u[j] = t[j - Len(s)]
      BY <1>2, <1>3, <2>3
    <3>2. i - Len(s) = j - Len(s)
      BY <1>3, <2>3, <3>1 DEF Distinct
    <3> QED BY <2>1, <3>2
  <2> QED BY <1>2, <2>2, <2>3
<1> QED BY <1>3 DEF Distinct, u

(* All positions picked.                                                   *)
LEMMA PickedAll ==
    ASSUME NEW T, NEW s \in Seq(T)
    PROVE  Picked(s, DOMAIN s) = s
<1> DEFINE D == DOMAIN s
           p == Picked(s, D)
<1>1. /\ D = 1 .. Len(s) /\ Len(s) \in Nat
      /\ IsFiniteSet(D) /\ Cardinality(D) = Len(s)
    BY Positions
<1>2. p \in Seq(T) /\ Len(p) = Len(s) /\ DOMAIN p = D
    BY <1>1, PickedFacts
<1> HIDE DEF p
<1>3. p = Placed(s, [i \in D |-> Cardinality({j \in D : j <= i})])
    BY PickedIs DEF p
<1>4. ASSUME NEW i \in D PROVE Cardinality({j \in D : j <= i}) = i
  <2>1. {j \in D : j <= i} = 1 .. i /\ i \in Nat /\ i >= 1
    BY <1>1
  <2>2. Cardinality(1 .. i) = i
    <3>1. Cardinality(1 .. i) = IF 1 > i THEN 0 ELSE i - 1 + 1
      BY <2>1, FS_Interval
    <3> QED BY <2>1, <3>1
  <2>3. Cardinality({j \in D : j <= i}) = Cardinality(1 .. i)
    BY <2>1, Zenon
  <2> QED BY <2>2, <2>3
<1> DEFINE r == [i \in D |-> i]
<1>5. p = Placed(s, r)
  <2>1. [i \in D |-> Cardinality({j \in D : j <= i})] = r
    BY <1>4
  <2> QED BY <1>3, <2>1
<1>6. r \in [D -> 1 .. Cardinality(D)] /\ \A i, j \in D : r[i] = r[j] => i = j
    BY <1>1
<1>7. \A i \in D : r[i] = i
    OBVIOUS
<1> HIDE DEF r
<1>8. \A i \in D : Placed(s, r)[r[i]] = s[i]
    BY <1>6, PlacedFacts
<1>9. \A i \in 1 .. Len(s) : p[i] = s[i]
    BY <1>1, <1>5, <1>7, <1>8
<1> QED BY <1>2, <1>9, SeqEqual DEF p

(* Sorting adds no element, drops none and repeats none.                   *)
LEMMA SortedElements ==
    ASSUME NEW T, NEW s \in Seq(T), NEW ahead \in [DOMAIN s -> SUBSET DOMAIN s],
           \A i \in DOMAIN s : i \notin ahead[i],
           \A i, j \in DOMAIN s : j \in ahead[i] => ahead[j] \subseteq ahead[i],
           \A i, j \in DOMAIN s : i # j => i \in ahead[j] \/ j \in ahead[i]
    PROVE  /\ ToSet(Sorted(s, ahead)) = ToSet(s)
           /\ Distinct(s) => Distinct(Sorted(s, ahead))
<1> DEFINE p == Sorted(s, ahead)
           D == DOMAIN s
<1>1. DOMAIN p = D
    BY SortedFacts
<1>2. PICK r \in [D -> D] :
        /\ \A i \in D : p[r[i]] = s[i]
        /\ \A i, j \in D : i \in ahead[j] <=> r[i] < r[j]
        /\ \A n \in D : \E i \in D : r[i] = n
    BY SortedFacts
<1> HIDE DEF p
<1>3. ToSet(p) = ToSet(s)
    BY <1>1, <1>2 DEF ToSet
<1>4. ASSUME Distinct(s), NEW m \in D, NEW n \in D, p[m] = p[n] PROVE m = n
  <2>1. PICK i \in D, j \in D : r[i] = m /\ r[j] = n
    BY <1>2
  <2>2. s[i] = s[j]
    BY <1>2, <1>4, <2>1
  <2> QED BY <1>4, <2>1, <2>2 DEF Distinct
<1> QED BY <1>1, <1>3, <1>4 DEF Distinct, p

-----------------------------------------------------------------------------
(* How many elements of s are in K.                                        *)
At(s, K) == {i \in DOMAIN s : s[i] \in K}
Count(s, K) == Cardinality(At(s, K))

LEMMA CountType ==
    ASSUME NEW T, NEW s \in Seq(T), NEW K
    PROVE  /\ IsFiniteSet(At(s, K))
           /\ Count(s, K) \in Nat
           /\ Count(s, K) <= Len(s)
           /\ Len(s) \in Nat
           /\ T \subseteq K => Count(s, K) = Len(s)
           /\ Count(s, K) # 0 => \E i \in DOMAIN s : s[i] \in K
           /\ (\E i \in DOMAIN s : s[i] \in K) => Count(s, K) # 0
<1>1. At(s, K) \in SUBSET DOMAIN s
    BY DEF At
<1>2. /\ IsFiniteSet(At(s, K)) /\ Cardinality(At(s, K)) \in 0 .. Len(s)
      /\ Len(s) \in Nat /\ Cardinality(DOMAIN s) = Len(s)
    BY <1>1, Positions
<1>3. ASSUME T \subseteq K PROVE At(s, K) = DOMAIN s
  <2>1. \A i \in DOMAIN s : s[i] \in K
    BY <1>3
  <2> QED BY <2>1 DEF At
<1>4. Cardinality(At(s, K)) = 0 <=> At(s, K) = {}
    BY <1>2, FS_EmptySet
<1> QED BY <1>2, <1>3, <1>4 DEF Count, At

(* Two sequences whose positions in K correspond.                          *)
LEMMA CountSame ==
    ASSUME NEW T, NEW s \in Seq(T), NEW K, NEW t, NEW L,
           NEW f \in [At(s, K) -> At(t, L)],
           \A i, j \in At(s, K) : f[i] = f[j] => i = j,
           \A n \in At(t, L) : \E i \in At(s, K) : f[i] = n
    PROVE  Count(s, K) = Count(t, L)
BY CountType, SameSize DEF Count

LEMMA CountConcat ==
    ASSUME NEW T, NEW s \in Seq(T), NEW t \in Seq(T), NEW K
    PROVE  /\ s \o t \in Seq(T)
           /\ Len(s \o t) = Len(s) + Len(t)
           /\ Count(s \o t, K) = Count(s, K) + Count(t, K)
<1>1. /\ s \o t \in Seq(T) /\ Len(s \o t) = Len(s) + Len(t)
      /\ Len(s) \in Nat /\ Len(t) \in Nat
      /\ DOMAIN s = 1 .. Len(s) /\ DOMAIN t = 1 .. Len(t)
      /\ DOMAIN (s \o t) = 1 .. Len(s) + Len(t)
      /\ \A i \in DOMAIN s : (s \o t)[i] = s[i]
      /\ \A i \in DOMAIN t : (s \o t)[Len(s) + i] = t[i]
    BY ConcatProperties
<1> DEFINE u == s \o t
           n == Len(s)
           A == At(s, K)
           B == {i \in At(u, K) : i > n}
           f == [i \in At(t, K) |-> n + i]
<1> HIDE DEF u, n
<1>2. A = {i \in At(u, K) : i <= n}
    BY <1>1 DEF At, u, n
<1>3. At(u, K) = A \cup B /\ A \cap B = {}
    BY <1>1, <1>2 DEF At, u, n
<1>4. f \in [At(t, K) -> B]
    BY <1>1 DEF At, u, n
<1>5. \A i, j \in At(t, K) : f[i] = f[j] => i = j
    BY <1>1 DEF At, n
<1>6. \A j \in B : \E i \in At(t, K) : f[i] = j
  <2> TAKE j \in B
  <2>1. j \in 1 .. n + Len(t) /\ j > n /\ u[j] \in K
    BY <1>1 DEF At, u, n
  <2>2. j - n \in DOMAIN t /\ n + (j - n) = j /\ u[n + (j - n)] = t[j - n]
    BY <2>1, <1>1 DEF u, n
  <2>3. j - n \in At(t, K)
    BY <2>1, <2>2 DEF At
  <2> QED BY <2>2, <2>3
<1>7. IsFiniteSet(A) /\ IsFiniteSet(At(t, K))
    BY CountType
<1>8. IsFiniteSet(B) /\ Cardinality(B) = Count(t, K)
  <2> HIDE DEF f, B
  <2> QED BY <1>4, <1>5, <1>6, <1>7, SameSize DEF Count
<1>9. Cardinality(A \cap B) = 0
    BY <1>3, FS_EmptySet
<1>10. Cardinality(A \cup B) = Cardinality(A) + Cardinality(B) - Cardinality(A \cap B)
    BY <1>7, <1>8, FS_Union
<1>11. Count(s, K) \in Nat /\ Count(t, K) \in Nat
    BY CountType
<1> HIDE DEF B
<1>12. Count(u, K) = Count(s, K) + Count(t, K) - 0
    BY <1>3, <1>8, <1>9, <1>10 DEF Count
<1> QED BY <1>1, <1>11, <1>12 DEF u

(* A part of a sequence.                                                   *)
LEMMA CountPicked ==
    ASSUME NEW T, NEW s \in Seq(T), NEW S \in SUBSET DOMAIN s, NEW K
    PROVE  Count(Picked(s, S), K) = Cardinality({i \in S : s[i] \in K})
<1> DEFINE p == Picked(s, S)
           A == {i \in S : s[i] \in K}
<1>0. PICK r : Keeps(s, S, Picked(s, S), r)
    BY PickedFacts
<1>1. /\ r \in [S -> 1 .. Cardinality(S)]
      /\ \A i \in S : p[r[i]] = s[i]
      /\ \A i, j \in S : i < j <=> r[i] < r[j]
      /\ \A n \in 1 .. Cardinality(S) : \E i \in S : r[i] = n
    BY <1>0 DEF Keeps
<1>2. DOMAIN p = 1 .. Cardinality(S) /\ S \subseteq Nat /\ IsFiniteSet(S)
    BY PickedFacts, Positions
<1>3. \A i, j \in S : r[i] \in Int /\ (r[i] = r[j] => i = j)
    BY <1>1, <1>2
<1> HIDE DEF p
<1> DEFINE f == [i \in A |-> r[i]]
<1>4. f \in [A -> At(p, K)]
    BY <1>1, <1>2 DEF At
<1>5. \A i, j \in A : f[i] = f[j] => i = j
    BY <1>3
<1>6. \A n \in At(p, K) : \E i \in A : f[i] = n
    BY <1>1, <1>2 DEF At
<1>7. IsFiniteSet(A)
    BY <1>2, FS_Subset
<1> HIDE DEF f, A
<1>8. Cardinality(At(p, K)) = Cardinality(A)
    BY <1>4, <1>5, <1>6, <1>7, SameSize
<1> QED BY <1>8 DEF Count, A, p

LEMMA CountAmong ==
    ASSUME NEW T, NEW s \in Seq(T), NEW M, NEW K
    PROVE  Count(Among(s, M), K) = Count(s, K \cap M)
<1> DEFINE S == {i \in DOMAIN s : s[i] \in M}
<1>1. S \in SUBSET DOMAIN s /\ Among(s, M) = Picked(s, S)
    BY AmongIs
<1>2. {i \in S : s[i] \in K} = At(s, K \cap M)
    BY DEF At
<1> HIDE DEF S
<1>3. Count(Picked(s, S), K) = Cardinality({i \in S : s[i] \in K})
    BY <1>1, CountPicked
<1> QED BY <1>1, <1>2, <1>3 DEF Count

LEMMA CountSorted ==
    ASSUME NEW T, NEW s \in Seq(T), NEW ahead \in [DOMAIN s -> SUBSET DOMAIN s],
           \A i \in DOMAIN s : i \notin ahead[i],
           \A i, j \in DOMAIN s : j \in ahead[i] => ahead[j] \subseteq ahead[i],
           \A i, j \in DOMAIN s : i # j => i \in ahead[j] \/ j \in ahead[i],
           NEW K
    PROVE  Count(Sorted(s, ahead), K) = Count(s, K)
<1> DEFINE p == Sorted(s, ahead)
           D == DOMAIN s
<1>1. DOMAIN p = D
    BY SortedFacts
<1>2. PICK r \in [D -> D] :
        /\ \A i \in D : p[r[i]] = s[i]
        /\ \A i, j \in D : i \in ahead[j] <=> r[i] < r[j]
        /\ \A n \in D : \E i \in D : r[i] = n
    BY SortedFacts
<1>3. D \subseteq Nat
    BY Positions
<1>4. \A i, j \in D : r[i] = r[j] => i = j
    BY <1>2, <1>3
<1> HIDE DEF p
<1> DEFINE f == [i \in At(s, K) |-> r[i]]
<1>5. f \in [At(s, K) -> At(p, K)]
    BY <1>1, <1>2 DEF At
<1>6. \A i, j \in At(s, K) : f[i] = f[j] => i = j
    BY <1>4 DEF At
<1>7. \A n \in At(p, K) : \E i \in At(s, K) : f[i] = n
    BY <1>1, <1>2 DEF At
<1> HIDE DEF f
<1> QED BY <1>5, <1>6, <1>7, CountSame DEF p
=============================================================================

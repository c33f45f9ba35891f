------------------------- MODULE SearchRequestProofs -------------------------
(***************************************************************************)
(* Proofs about SearchRequest: what a request answers with, for any index, *)
(* any rankings of its legs and of the engines, and any reindex meanwhile. *)
(***************************************************************************)
EXTENDS SearchRequest, SelectionProofs

-----------------------------------------------------------------------------
(* The inductive invariant.                                                *)

(* Some of the elements of C, none of them twice.                          *)
Listing(s, C) == s \in Seq(C) /\ Distinct(s)

(* No file is named twice.                                                 *)
FilesApart(s) == \A i, j \in DOMAIN s : FileOf[s[i]] = FileOf[s[j]] => i = j

(* The chunks a request may answer with, now or at an earlier moment.      *)
Allowed == {c \in lived : Admits(c)}
Sound(s) == Listing(s, Allowed)

Requests == [mode : Modes, k : Ks, filtered : BOOLEAN, engine : Engines]
Hybrid   == {"lexical", "fuse", "blend", "rerank", "scoring"}
Late     == {"found", "deduped", "answered"}

IndexInv == live \subseteq lived /\ lived \subseteq Chunks

RequestInv ==
    /\ request \in Requests
    /\ phase \in {"asked", "failed"} \cup Hybrid \cup Late
    /\ phase \in Hybrid => request.mode = "hybrid"
    /\ phase \in {"found", "deduped"} => request.mode # "similar"

(* What the steps hand on repeats no chunk and holds none that is not      *)
(* allowed.                                                                *)
SoundInv == Sound(near) /\ Sound(words) /\ Sound(candidates) /\ Sound(answer)

(* A call for each candidate of the pool, none once they have been settled *)
(* or given up.                                                            *)
CallsInv ==
    /\ phase = "scoring" =>
         /\ calls \in Seq({"flying", "high", "low", "failed"})
         /\ Len(calls) = Len(Pool)
    /\ phase # "scoring" => Flying = {}

(* Of the candidates none is lost, and those of one file are one.          *)
HybridInv ==
    /\ FilesApart(candidates)
    /\ phase \in Late /\ request.mode = "hybrid" =>
         /\ FilesApart(answer)
         /\ Len(answer) = Lesser(request.k, Len(candidates))
         /\ ~judged /\ applied =>
              \A i \in PoolSize + 1 .. Len(answer) : answer[i] = candidates[i]
         /\ ~judged /\ ~applied /\ request.engine # "cross-encoder" =>
              answer = Take(request.k, candidates)

AnswerInv ==
    /\ phase \in Late => Len(answer) <= request.k
    /\ phase = "found" /\ request.mode = "semantic" =>
         ToSet(answer) \subseteq ToSet(near)
    /\ phase \in {"deduped", "answered"} /\ request.mode # "similar" =>
         FilesApart(answer)
    /\ phase = "answered" /\ request.mode = "similar" =>
         Subject \notin ToSet(answer)

IInv == /\ IndexInv /\ RequestInv /\ SoundInv /\ CallsInv /\ HybridInv
        /\ AnswerInv

-----------------------------------------------------------------------------
(* Lemmas on listings.                                                     *)

LEMMA Bounds ==
    /\ Ks \subseteq Nat \ {0} /\ CandidateK \in Nat \ {0}
    /\ PoolSize \in Nat \ {0} /\ JudgePool \in Nat \ {0}
    /\ VectorWeight \in Nat /\ LexicalWeight \in Nat
BY SearchAssumption DEF SearchAssumption

LEMMA TakeFacts ==
    ASSUME NEW T, NEW s \in Seq(T), NEW n \in Nat
    PROVE  /\ Take(n, s) \in Seq(T)
           /\ Len(Take(n, s)) = Lesser(n, Len(s))
           /\ Len(Take(n, s)) \in Nat
           /\ Len(Take(n, s)) <= n /\ Len(Take(n, s)) <= Len(s)
           /\ Len(s) <= n => Take(n, s) = s
           /\ DOMAIN Take(n, s) \subseteq DOMAIN s
           /\ \A i \in DOMAIN Take(n, s) : Take(n, s)[i] = s[i]
           /\ ToSet(Take(n, s)) \subseteq ToSet(s)
<1> DEFINE m == Lesser(n, Len(s))
           t == Take(n, s)
<1> DEFINE l == Len(s)
<1>1. l \in Nat /\ DOMAIN s = 1 .. l /\ \A i \in 1 .. l : s[i] \in T
    OBVIOUS
<1>3. t = SubSeq(s, 1, m)
    BY DEF Take
<1> HIDE DEF l
<1>2. m \in Nat /\ m <= l /\ m <= n /\ (l <= n => m = l)
  <2>1. m = IF n < l THEN n ELSE l
    BY DEF Lesser, l
  <2> HIDE DEF m
  <2> QED BY <1>1, <2>1
<1> HIDE DEF m, t
<1>4. \A i \in 1 .. m : s[i] \in T
    BY <1>1, <1>2
<1>5. t \in Seq(T) /\ Len(t) = m /\ \A i \in 1 .. m : t[i] = s[i]
  <2>1. t \in Seq(T)
    BY <1>1, <1>2, <1>3, <1>4, SubSeqProperties
  <2>2. Len(t) = m
    BY <1>2, <1>3, <1>4, SubSeqProperties
  <2>3. ASSUME NEW i \in 1 .. m PROVE t[i] = s[i]
    <3>1. i \in 1 .. m - 1 + 1 /\ 1 + i - 1 = i
      BY <1>2
    <3> QED BY <1>2, <1>3, <1>4, <3>1, SubSeqProperties
  <2> QED BY <2>1, <2>2, <2>3
<1>6. DOMAIN t = 1 .. m
    BY <1>5
<1>7. l <= n => t = s
    BY <1>2, <1>5, SeqEqual DEF l
<1>8. \A i \in DOMAIN t : i \in DOMAIN s /\ t[i] = s[i]
    BY <1>1, <1>2, <1>5, <1>6
<1>9. ToSet(t) \subseteq ToSet(s)
    BY <1>8 DEF ToSet
<1> QED BY <1>2, <1>5, <1>7, <1>8, <1>9 DEF m, t, l

LEMMA TakeListing ==
    ASSUME NEW C, NEW s, Listing(s, C), NEW n \in Nat
    PROVE  /\ Listing(Take(n, s), C)
           /\ ToSet(Take(n, s)) \subseteq ToSet(s)
           /\ Len(Take(n, s)) = Lesser(n, Len(s))
<1>1. /\ Take(n, s) \in Seq(C) /\ DOMAIN Take(n, s) \subseteq DOMAIN s
      /\ ToSet(Take(n, s)) \subseteq ToSet(s)
      /\ Len(Take(n, s)) = Lesser(n, Len(s))
      /\ \A i \in DOMAIN Take(n, s) : Take(n, s)[i] = s[i]
    BY TakeFacts DEF Listing
<1>2. Distinct(Take(n, s))
    BY <1>1 DEF Listing, Distinct
<1> QED BY <1>1, <1>2 DEF Listing

LEMMA ListingWithin ==
    ASSUME NEW C, NEW s, Listing(s, C), NEW D, ToSet(s) \subseteq D
    PROVE  Listing(s, D)
BY SeqWithin DEF Listing

LEMMA ListingElements ==
    ASSUME NEW C, NEW s, Listing(s, C)
    PROVE  /\ ToSet(s) \subseteq C
           /\ \A i \in DOMAIN s : s[i] \in C /\ s[i] \in ToSet(s)
           /\ Len(s) \in Nat /\ DOMAIN s = 1 .. Len(s)
           /\ Len(s) = Cardinality(ToSet(s))
<1>1. s \in Seq(C) /\ Distinct(s)
    BY DEF Listing
<1>2. ToSet(s) \subseteq C /\ Len(s) = Cardinality(ToSet(s))
    BY <1>1, SeqSelf, DistinctSize
<1>3. Len(s) \in Nat /\ DOMAIN s = 1 .. Len(s)
    BY <1>1
<1>4. \A i \in DOMAIN s : s[i] \in ToSet(s)
    BY DEF ToSet
<1> QED BY <1>2, <1>3, <1>4

LEMMA AmongListing ==
    ASSUME NEW C, NEW s, Listing(s, C), NEW M
    PROVE  /\ Listing(Among(s, M), C)
           /\ ToSet(Among(s, M)) = ToSet(s) \cap M
BY AmongFacts, AmongDistinct DEF Listing

LEMMA PickedListing ==
    ASSUME NEW C, NEW s, Listing(s, C), NEW S \in SUBSET DOMAIN s
    PROVE  /\ Listing(Picked(s, S), C)
           /\ ToSet(Picked(s, S)) \subseteq ToSet(s)
<1>1. s \in Seq(C) /\ \A i, j \in S : s[i] = s[j] => i = j
    BY DEF Listing, Distinct
<1>2. ToSet(Picked(s, S)) = {s[i] : i \in S} /\ Picked(s, S) \in Seq(C)
    BY <1>1, PickedFacts, PickedElements
<1>3. Distinct(Picked(s, S))
    BY <1>1, PickedDistinct
<1> QED BY <1>2, <1>3 DEF Listing, ToSet

(* Listings of the same elements are equally long.                         *)
LEMMA SameLength ==
    ASSUME NEW C, NEW s, Listing(s, C), NEW D, NEW t, Listing(t, D),
           ToSet(s) = ToSet(t)
    PROVE  Len(s) = Len(t)
BY ListingElements

LEMMA ConcatListing ==
    ASSUME NEW C, NEW s, Listing(s, C), NEW t, Listing(t, C),
           ToSet(s) \cap ToSet(t) = {}
    PROVE  /\ Listing(s \o t, C)
           /\ ToSet(s \o t) = ToSet(s) \cup ToSet(t)
           /\ Len(s \o t) = Len(s) + Len(t)
<1>1. s \in Seq(C) /\ t \in Seq(C) /\ Distinct(s) /\ Distinct(t)
    BY DEF Listing
<1>2. Distinct(s \o t) /\ s \o t \in Seq(C)
    BY <1>1, ConcatDistinct, ConcatAt
<1>3. IsSeq(s) /\ IsSeq(t)
    BY <1>1, SeqSelf
<1> QED BY <1>2, <1>3, SeqConcat DEF Listing

LEMMA PromoteListing ==
    ASSUME NEW C \in SUBSET Chunks, NEW s, Listing(s, C), NEW S
    PROVE  /\ Listing(Promote(S, s), C)
           /\ ToSet(Promote(S, s)) = ToSet(s)
           /\ Len(Promote(S, s)) = Len(s)
<1> DEFINE a == Among(s, S)
           b == Among(s, Chunks \ S)
<1>1. /\ Listing(a, C) /\ ToSet(a) = ToSet(s) \cap S
      /\ Listing(b, C) /\ ToSet(b) = ToSet(s) \cap (Chunks \ S)
    BY AmongListing
<1>2. Promote(S, s) = a \o b
    BY DEF Promote
<1>3. ToSet(s) \subseteq Chunks
    BY ListingElements
<1> HIDE DEF a, b
<1>4. ToSet(a) \cap ToSet(b) = {} /\ ToSet(a) \cup ToSet(b) = ToSet(s)
    BY <1>1, <1>3
<1>5. Listing(a \o b, C) /\ ToSet(a \o b) = ToSet(a) \cup ToSet(b)
    BY <1>1, <1>4, ConcatListing
<1>6. Listing(Promote(S, s), C) /\ ToSet(Promote(S, s)) = ToSet(s)
    BY <1>2, <1>4, <1>5
<1> QED BY <1>6, SameLength

(* The elements of a listing in the order of another one, of positions.    *)
LEMMA MappedListing ==
    ASSUME NEW C, NEW s, Listing(s, C), NEW order, Listing(order, DOMAIN s),
           NEW t, t = [i \in DOMAIN order |-> s[order[i]]]
    PROVE  /\ Listing(t, C) /\ Len(t) = Len(order)
           /\ ToSet(t) \subseteq ToSet(s)
           /\ ToSet(order) = DOMAIN s => ToSet(t) = ToSet(s)
<1>1. /\ order \in Seq(DOMAIN s)
      /\ \A i \in DOMAIN order : order[i] \in DOMAIN s
      /\ \A i, j \in DOMAIN order : order[i] = order[j] => i = j
      /\ \A i \in DOMAIN s : s[i] \in C
      /\ \A i, j \in DOMAIN s : s[i] = s[j] => i = j
    BY ListingElements DEF Listing, Distinct
<1>2. t \in [DOMAIN order -> C]
    BY <1>1
<1>3. t \in Seq(C) /\ Len(t) = Len(order) /\ DOMAIN t = DOMAIN order
    BY <1>1, <1>2, SeqMap
<1>4. \A i \in DOMAIN t : t[i] = s[order[i]] /\ order[i] \in DOMAIN s
    BY <1>1, <1>3
<1>5. Distinct(t)
    BY <1>1, <1>3, <1>4 DEF Distinct
<1>6. ToSet(t) \subseteq ToSet(s)
    BY <1>4 DEF ToSet
<1>7. ASSUME ToSet(order) = DOMAIN s PROVE ToSet(s) \subseteq ToSet(t)
    BY <1>3, <1>4, <1>7 DEF ToSet
<1> QED BY <1>3, <1>5, <1>6, <1>7 DEF Listing

(* Files are apart where chunks are and no two of one file are there.      *)
LEMMA ApartIs ==
    ASSUME NEW s
    PROVE  FilesApart(s) <=>
             /\ Distinct(s)
             /\ \A c, d \in ToSet(s) : FileOf[c] = FileOf[d] => c = d
BY DEF FilesApart, Distinct, ToSet

LEMMA ApartWithin ==
    ASSUME NEW s, FilesApart(s), NEW t, Distinct(t), ToSet(t) \subseteq ToSet(s)
    PROVE  FilesApart(t)
BY ApartIs

(* One per file: what is left out shares its file with something kept.     *)
LEMMA OncePerFileListing ==
    ASSUME NEW C, NEW s, Listing(s, C), NEW order, order \in Seq(Chunks),
           ToSet(s) \subseteq ToSet(order)
    PROVE  /\ Listing(OncePerFile(s, order), C)
           /\ ToSet(OncePerFile(s, order)) \subseteq ToSet(s)
           /\ FilesApart(OncePerFile(s, order))
           /\ FilesApart(s) => OncePerFile(s, order) = s
<1> DEFINE Kept(c) == \A d \in ToSet(s) : FileOf[d] = FileOf[c] =>
                          Place(order, c) <= Place(order, d)
           S == {i \in DOMAIN s : Kept(s[i])}
           t == OncePerFile(s, order)
<1>1. t = Picked(s, S) /\ S \in SUBSET DOMAIN s
    BY DEF OncePerFile
<1>2. /\ s \in Seq(C) /\ DOMAIN order \subseteq Nat
      /\ \A i \in DOMAIN s : s[i] \in ToSet(s)
    BY ListingElements DEF Listing
<1>3. \A c \in ToSet(s) : Place(order, c) \in DOMAIN order /\ order[Place(order, c)] = c
  <2>1. \A c \in ToSet(s) : \E i \in DOMAIN order : order[i] = c
    BY DEF ToSet
  <2> QED BY <2>1 DEF Place
<1> HIDE DEF t, Kept
<1>4. Listing(t, C) /\ ToSet(t) \subseteq ToSet(s) /\ ToSet(t) = {s[i] : i \in S}
  <2> HIDE DEF S
  <2> QED BY <1>1, <1>2, PickedListing, PickedElements
<1>5. \A c \in ToSet(t) : Kept(c)
    BY <1>4
<1>6. ASSUME NEW c \in ToSet(t), NEW d \in ToSet(t), FileOf[c] = FileOf[d]
      PROVE  c = d
  <2>1. c \in ToSet(s) /\ d \in ToSet(s)
    BY <1>4
  <2>2. Place(order, c) <= Place(order, d) /\ Place(order, d) <= Place(order, c)
    BY <1>5, <1>6, <2>1 DEF Kept
  <2>3. Place(order, c) \in Nat /\ Place(order, d) \in Nat
    BY <1>2, <1>3, <2>1
  <2>4. Place(order, c) = Place(order, d)
    BY <2>2, <2>3
  <2> QED BY <1>3, <2>1, <2>4
<1>7. FilesApart(t)
    BY <1>4, <1>6, ApartIs DEF Listing
<1>8. ASSUME FilesApart(s) PROVE t = s
  <2>1. ASSUME NEW i \in DOMAIN s PROVE Kept(s[i])
    <3>1. ASSUME NEW d \in ToSet(s), FileOf[d] = FileOf[s[i]]
          PROVE  Place(order, s[i]) <= Place(order, d)
      <4>1. d = s[i]
        BY <1>2, <1>8, <3>1, ApartIs
      <4>2. Place(order, d) \in Nat
        BY <1>2, <1>3
      <4> QED BY <4>1, <4>2
    <3> QED BY <3>1 DEF Kept
  <2>2. S = DOMAIN s
    BY <2>1
  <2> HIDE DEF S
  <2> QED BY <1>1, <1>2, <2>2, PickedAll
<1> QED BY <1>4, <1>7, <1>8 DEF t

-----------------------------------------------------------------------------
(* Lemmas on rankings.                                                     *)

(* s has a somewhere before b.                                             *)
Precedes(s, a, b) == \E i, j \in DOMAIN s : i < j /\ s[i] = a /\ s[j] = b

LEMMA PrecedesPlaces ==
    ASSUME NEW C, NEW s, Listing(s, C), NEW i \in DOMAIN s, NEW j \in DOMAIN s
    PROVE  Precedes(s, s[i], s[j]) <=> i < j
BY DEF Precedes, Listing, Distinct

(* Ahead in the order of the scores, or of the places if the scores agree. *)
Before(s, score, i, j) == \/ score[s[i]] > score[s[j]]
                          \/ score[s[i]] = score[s[j]] /\ i < j

LEMMA DescendingFacts ==
    ASSUME NEW C, NEW s, Listing(s, C), NEW score,
           \A c \in ToSet(s) : score[c] \in Int
    PROVE  /\ Listing(Descending(s, score), C)
           /\ ToSet(Descending(s, score)) = ToSet(s)
           /\ Len(Descending(s, score)) = Len(s)
           /\ \A a, b : Precedes(s, a, b) /\ score[a] >= score[b]
                          => Precedes(Descending(s, score), a, b)
<1> DEFINE D == DOMAIN s
           ahead == [i \in D |-> {j \in D : Before(s, score, j, i)}]
           t == Descending(s, score)
<1>1. t = Sorted(s, ahead)
    BY DEF Descending, With, Before
<1>2. /\ s \in Seq(C) /\ D \subseteq Nat
      /\ \A i \in D : score[s[i]] \in Int /\ s[i] \in ToSet(s)
    BY ListingElements DEF Listing
<1>3. /\ ahead \in [D -> SUBSET D]
      /\ \A i, j \in D : j \in ahead[i] <=> Before(s, score, j, i)
    OBVIOUS
<1> HIDE DEF ahead, t
<1>4. \A i \in D : i \notin ahead[i]
    BY <1>2, <1>3 DEF Before
<1>5. ASSUME NEW i \in D, NEW j \in D, j \in ahead[i]
      PROVE  ahead[j] \subseteq ahead[i]
  <2>1. ASSUME NEW k \in ahead[j] PROVE k \in ahead[i]
    <3>1. k \in D /\ Before(s, score, k, j) /\ Before(s, score, j, i)
      BY <1>3, <1>5, <2>1
    <3>2. Before(s, score, k, i)
      BY <1>2, <3>1 DEF Before
    <3> QED BY <1>3, <3>1, <3>2
  <2> QED BY <2>1
<1>6. ASSUME NEW i \in D, NEW j \in D, i # j
      PROVE  i \in ahead[j] \/ j \in ahead[i]
  <2>1. Before(s, score, i, j) \/ Before(s, score, j, i)
    BY <1>2, <1>6 DEF Before
  <2> QED BY <1>3, <2>1
<1>7. t \in Seq(C) /\ Len(t) = Len(s) /\ DOMAIN t = D
    BY <1>1, <1>2, <1>3, <1>4, <1>5, <1>6, SortedFacts
<1>8. ToSet(t) = ToSet(s) /\ (Distinct(s) => Distinct(t))
    BY <1>1, <1>2, <1>3, <1>4, <1>5, <1>6, SortedElements
<1>9. ASSUME NEW a, NEW b, Precedes(s, a, b), score[a] >= score[b]
      PROVE  Precedes(t, a, b)
  <2>1. PICK r \in [D -> D] :
          /\ \A i \in D : Sorted(s, ahead)[r[i]] = s[i]
          /\ \A i, j \in D : i \in ahead[j] <=> r[i] < r[j]
    BY <1>2, <1>3, <1>4, <1>5, <1>6, SortedFacts
  <2>2. PICK i \in D, j \in D : i < j /\ s[i] = a /\ s[j] = b
    BY <1>9 DEF Precedes
  <2>3. Before(s, score, i, j)
    BY <1>2, <1>9, <2>2 DEF Before
  <2>4. r[i] < r[j] /\ t[r[i]] = a /\ t[r[j]] = b
    BY <1>1, <1>3, <2>1, <2>2, <2>3
  <2> QED BY <1>7, <2>1, <2>4 DEF Precedes
<1> QED BY <1>7, <1>8, <1>9 DEF Listing, t

LEMMA TakePrecedes ==
    ASSUME NEW C, NEW s, Listing(s, C), NEW n \in Nat, NEW a, NEW b,
           Precedes(s, a, b), a \in ToSet(Take(n, s)), b \in ToSet(Take(n, s))
    PROVE  Precedes(Take(n, s), a, b)
<1> DEFINE t == Take(n, s)
<1>1. DOMAIN t \subseteq DOMAIN s /\ \A i \in DOMAIN t : t[i] = s[i]
    BY TakeFacts DEF Listing
<1>2. PICK i \in DOMAIN s, j \in DOMAIN s : i < j /\ s[i] = a /\ s[j] = b
    BY DEF Precedes
<1> HIDE DEF t
<1>3. PICK k \in DOMAIN t, l \in DOMAIN t : t[k] = a /\ t[l] = b
    BY DEF ToSet, t
<1>4. k = i /\ l = j
    BY <1>1, <1>2, <1>3 DEF Listing, Distinct
<1> QED BY <1>2, <1>3, <1>4 DEF Precedes, t

LEMMA PickedPrecedes ==
    ASSUME NEW C, NEW s \in Seq(C), NEW S \in SUBSET DOMAIN s,
           NEW i \in S, NEW j \in S, i < j
    PROVE  Precedes(Picked(s, S), s[i], s[j])
<1>1. PICK r : Keeps(s, S, Picked(s, S), r)
    BY PickedFacts
<1>2. DOMAIN Picked(s, S) = 1 .. Cardinality(S)
    BY PickedFacts
<1>3. /\ r[i] \in DOMAIN Picked(s, S) /\ r[j] \in DOMAIN Picked(s, S)
      /\ Picked(s, S)[r[i]] = s[i] /\ Picked(s, S)[r[j]] = s[j]
      /\ r[i] < r[j]
    BY <1>1, <1>2 DEF Keeps
<1> QED BY <1>3 DEF Precedes

-----------------------------------------------------------------------------
(* Lemmas on fusion.                                                       *)

(* Induction up to a bound, on a set.                                      *)
LEMMA UpTo ==
    ASSUME NEW l \in Nat, NEW S \in SUBSET Nat, 0 \in S,
           \A n \in 1 .. l : n - 1 \in S => n \in S
    PROVE  \A n \in 0 .. l : n \in S
<1> SUFFICES ASSUME NEW n \in 0 .. l, n \notin S PROVE FALSE
    OBVIOUS
<1> DEFINE R == {m \in 0 .. l : m \notin S}
<1>1. R \in SUBSET Nat /\ R # {}
    OBVIOUS
<1>2. PICK m \in R : \A k \in R : m <= k
    BY <1>1, Least
<1>3. m \in 1 .. l /\ m - 1 \in 0 .. l /\ ~(m <= m - 1)
    BY <1>2
<1>4. m - 1 \in S
    BY <1>2, <1>3
<1> QED BY <1>2, <1>3, <1>4

LEMMA Division ==
    /\ \A d \in Nat \ {0} : Scale \div d \in Nat
    /\ \A d, e \in Nat \ {0} : d < e => Scale \div d >= Scale \div e
<1>1. ASSUME NEW d \in Nat \ {0} PROVE Scale \div d \in Nat
    BY DEF Scale
<1>2. ASSUME NEW d \in Nat \ {0}, NEW e \in Nat \ {0}, d < e
      PROVE  Scale \div d >= Scale \div e
  <2> DEFINE p == Scale \div d
             q == Scale \div e
  <2>1. /\ p \in Nat /\ Scale < d * (p + 1)
        /\ q \in Nat /\ e * q <= Scale
    BY <1>1 DEF Scale
  <2> HIDE DEF p, q
  <2>2. Scale \in Nat
    BY DEF Scale
  <2>3. ASSUME p < q PROVE FALSE
    <3>1. d * (p + 1) <= d * q
      BY <2>1, <2>3
    <3>2. d * q <= e * q
      BY <1>2, <2>1
    <3> QED BY <2>1, <2>2, <3>1, <3>2
  <2>4. p >= q
    BY <2>1, <2>3
  <2> QED BY <2>4 DEF p, q
<1> QED BY <1>1, <1>2

(* What the place n of a ranking adds to the score of x.                   *)
Part(ranking, weight, smooth, x, n) ==
    IF ranking[n] = x THEN weight * (Scale \div (smooth + n)) ELSE 0

Sums(ranking, weight, smooth, x, l, f) ==
    f = [n \in 0 .. l |-> IF n = 0 THEN 0
                          ELSE f[n - 1] + Part(ranking, weight, smooth, x, n)]

LEMMA PartType ==
    ASSUME NEW ranking, NEW weight \in Nat, NEW smooth \in Nat, NEW x,
           NEW n \in Nat \ {0}
    PROVE  Part(ranking, weight, smooth, x, n) \in Nat
<1>1. smooth + n \in Nat \ {0}
    OBVIOUS
<1>2. Scale \div (smooth + n) \in Nat
    BY <1>1, Division
<1> DEFINE d == Scale \div (smooth + n)
<1>3. d \in Nat
    BY <1>2
<1> HIDE DEF d
<1>4. weight * d \in Nat
    BY <1>3
<1> QED BY <1>4 DEF Part, d

LEMMA SumsExist ==
    ASSUME NEW ranking, NEW weight \in Nat, NEW smooth \in Nat, NEW x,
           NEW l \in Nat
    PROVE  \E f : Sums(ranking, weight, smooth, x, l, f)
<1> DEFINE P(n) == Part(ranking, weight, smooth, x, n)
           Is(n, f) == Sums(ranking, weight, smooth, x, n, f)
           S == {n \in Nat : \E f : Is(n, f)}
<1>1. 0 \in S
  <2> DEFINE f == [n \in 0 .. 0 |-> 0]
  <2>1. Is(0, f)
    BY DEF Sums
  <2> QED BY <2>1
<1>2. ASSUME NEW n \in 1 .. l, n - 1 \in S PROVE n \in S
  <2>1. PICK f : Is(n - 1, f)
    BY <1>2
  <2> DEFINE g == [m \in 0 .. n |-> IF m = n THEN f[n - 1] + P(n) ELSE f[m]]
  <2>2. \A m \in 0 .. n - 1 :
          f[m] = IF m = 0 THEN 0 ELSE f[m - 1] + P(m)
    BY <2>1 DEF Sums
  <2>3. \A m \in 0 .. n : g[m] = IF m = 0 THEN 0 ELSE g[m - 1] + P(m)
    <3> TAKE m \in 0 .. n
    <3>1. CASE m = n
      <4>1. n - 1 \in 0 .. n /\ n - 1 # n /\ n # 0
        OBVIOUS
      <4> QED BY <3>1, <4>1
    <3>2. CASE m # n
      <4>1. m \in 0 .. n - 1
        BY <3>2
      <4>2. m # 0 => m - 1 \in 0 .. n /\ m - 1 # n
        BY <4>1
      <4> HIDE DEF P
      <4> QED BY <2>2, <3>2, <4>1, <4>2
    <3> QED BY <3>1, <3>2
  <2>4. g = [m \in 0 .. n |-> g[m]]
    OBVIOUS
  <2> HIDE DEF g, P
  <2>5. g = [m \in 0 .. n |-> IF m = 0 THEN 0 ELSE g[m - 1] + P(m)]
    BY <2>3, <2>4
  <2>6. Is(n, g)
    BY <2>5 DEF Sums, P
  <2> QED BY <2>6
<1> HIDE DEF S
<1>3. S \in SUBSET Nat
    BY DEF S
<1>4. \A n \in 1 .. l : n - 1 \in S => n \in S
    BY <1>2
<1>5. l \in S
  <2>1. \A n \in 0 .. l : n \in S
    BY <1>1, <1>3, <1>4, UpTo
  <2> QED BY <2>1
<1> QED BY <1>5 DEF S

LEMMA ShareIs ==
    ASSUME NEW T, NEW ranking \in Seq(T), NEW weight \in Nat,
           NEW smooth \in Nat, NEW x
    PROVE  \E f : /\ Sums(ranking, weight, smooth, x, Len(ranking), f)
                  /\ Share(ranking, weight, smooth, x) = f[Len(ranking)]
<1>1. \E f : Sums(ranking, weight, smooth, x, Len(ranking), f)
  <2>1. Len(ranking) \in Nat
    OBVIOUS
  <2> QED BY <2>1, SumsExist
<1> QED BY <1>1 DEF Share, Sums, Part

(* A score is a number.  One that occurs once in a ranking gets the share  *)
(* of its place.                                                           *)
LEMMA ShareFacts ==
    ASSUME NEW T, NEW ranking \in Seq(T), NEW weight \in Nat,
           NEW smooth \in Nat, NEW x
    PROVE  /\ Share(ranking, weight, smooth, x) \in Nat
           /\ \A i \in DOMAIN ranking :
                ranking[i] = x /\ Distinct(ranking) =>
                  Share(ranking, weight, smooth, x)
                    = weight * (Scale \div (smooth + i))
<1> DEFINE l == Len(ranking)
           P(n) == Part(ranking, weight, smooth, x, n)
<1>1. PICK f : /\ Sums(ranking, weight, smooth, x, l, f)
               /\ Share(ranking, weight, smooth, x) = f[l]
    BY ShareIs
<1>2. l \in Nat /\ DOMAIN ranking = 1 .. l /\ l \in 0 .. l
    OBVIOUS
<1> HIDE DEF l
<1>3. f[0] = 0 /\ \A n \in 1 .. l : f[n] = f[n - 1] + P(n)
    BY <1>1, <1>2 DEF Sums
<1>4. \A n \in 1 .. l : P(n) \in Nat
    BY PartType
<1> HIDE DEF P
<1>5. \A n \in 0 .. l : f[n] \in Nat
  <2> DEFINE S == {n \in Nat : f[n] \in Nat}
  <2>1. 0 \in S /\ S \in SUBSET Nat
    BY <1>3
  <2>2. \A n \in 1 .. l : n - 1 \in S => n \in S
    BY <1>3, <1>4
  <2> HIDE DEF S
  <2>3. \A n \in 0 .. l : n \in S
    BY <1>2, <2>1, <2>2, UpTo
  <2> QED BY <2>3 DEF S
<1>6. ASSUME NEW i \in 1 .. l, ranking[i] = x, Distinct(ranking)
      PROVE  f[l] = P(i)
  <2>1. \A n \in 1 .. l : n # i => P(n) = 0
    BY <1>2, <1>6 DEF P, Part, Distinct
  <2> DEFINE S == {n \in Nat : f[n] = IF n < i THEN 0 ELSE P(i)}
  <2>2. 0 \in S /\ S \in SUBSET Nat
    BY <1>3
  <2>3. ASSUME NEW n \in 1 .. l, n - 1 \in S PROVE n \in S
    <3>1. f[n] = f[n - 1] + P(n) /\ n - 1 \in Nat
      BY <1>3
    <3>2. f[n - 1] = IF n - 1 < i THEN 0 ELSE P(i)
      BY <2>3
    <3>3. CASE n < i
      BY <2>1, <3>1, <3>2, <3>3
    <3>4. CASE n = i
      BY <1>4, <3>1, <3>2, <3>4
    <3>5. CASE n > i
      <4>1. P(n) = 0 /\ f[n - 1] = P(i) /\ P(i) \in Nat
        BY <1>4, <2>1, <3>2, <3>5
      <4> QED BY <3>1, <3>5, <4>1
    <3> QED BY <3>3, <3>4, <3>5
  <2> HIDE DEF S
  <2>4. l \in S
    BY <1>2, <2>2, <2>3, UpTo
  <2> QED BY <1>2, <2>4 DEF S
<1>7. ASSUME NEW i \in 1 .. l, ranking[i] = x
      PROVE  P(i) = weight * (Scale \div (smooth + i))
    BY <1>7 DEF P, Part
<1> QED BY <1>1, <1>2, <1>5, <1>6, <1>7

LEMMA ShareFalls ==
    ASSUME NEW T, NEW ranking \in Seq(T), Distinct(ranking),
           NEW weight \in Nat, NEW smooth \in Nat,
           NEW a, NEW b, Precedes(ranking, a, b)
    PROVE  Share(ranking, weight, smooth, a) >= Share(ranking, weight, smooth, b)
<1>1. PICK i \in DOMAIN ranking, j \in DOMAIN ranking :
        i < j /\ ranking[i] = a /\ ranking[j] = b
    BY DEF Precedes
<1> DEFINE d == smooth + i
           e == smooth + j
           p == Scale \div d
           q == Scale \div e
<1>2. d \in Nat \ {0} /\ e \in Nat \ {0} /\ d < e
    BY <1>1
<1>3. p \in Nat /\ q \in Nat /\ p >= q
    BY <1>2, Division
<1>4. /\ Share(ranking, weight, smooth, a) = weight * p
      /\ Share(ranking, weight, smooth, b) = weight * q
    BY <1>1, ShareFacts
<1> HIDE DEF p, q
<1>5. weight * p >= weight * q
    BY <1>3
<1> QED BY <1>4, <1>5

-----------------------------------------------------------------------------
(* Lemmas on retrieval.                                                    *)

(* What a read operation of the manager may return at this moment.         *)
Current == {c \in live : Admits(c)}

LEMMA CurrentAllowed ==
    ASSUME IndexInv
    PROVE  Current \subseteq Allowed /\ Allowed \subseteq Chunks
BY DEF IndexInv, Current, Allowed

LEMMA ChosenFacts ==
    ASSUME NEW T, NEW keys \in Seq(T)
    PROVE  Listing(Chosen(keys), Current)
<1> DEFINE names == [i \in DOMAIN keys |-> keys[i][1]]
           U == {keys[i][1] : i \in DOMAIN keys}
           t == Among(Once(names), Current)
<1>1. Chosen(keys) = t
    BY DEF Chosen, Current
<1>2. names \in [DOMAIN keys -> U]
    OBVIOUS
<1> HIDE DEF names, U, t
<1>3. names \in Seq(U)
    BY <1>2, SeqMap
<1>4. Once(names) \in Seq(U) /\ Distinct(Once(names))
    BY <1>3, OnceFacts, OnceDistinct
<1>5. Listing(t, U) /\ ToSet(t) \subseteq Current
    BY <1>4, AmongListing DEF Listing, t
<1> QED BY <1>1, <1>5, ListingWithin

LEMMA Orders ==
    ASSUME NEW order \in VectorOrders \cup LexicalOrders
    PROVE  order \in Seq((Chunks \cup {NoChunk}) \X (1 .. Texts))
BY SearchAssumption DEF SearchAssumption

LEMMA VectorLegFacts ==
    ASSUME NEW order \in VectorOrders, NEW k \in Nat
    PROVE  Listing(VectorLeg(order, k), Current) /\ Len(VectorLeg(order, k)) <= k
<1> DEFINE T == (Chunks \cup {NoChunk}) \X (1 .. Texts)
           found == Take(3 * k, Among(order, vectors))
<1>1. Among(order, vectors) \in Seq(T)
    BY Orders, AmongFacts
<1> HIDE DEF T
<1>2. found \in Seq(T)
    BY <1>1, TakeFacts
<1> HIDE DEF found
<1>3. Listing(Chosen(found), Current)
    BY <1>2, ChosenFacts
<1>4. VectorLeg(order, k) = Take(k, Chosen(found))
    BY DEF VectorLeg, found
<1> QED BY <1>3, <1>4, TakeListing, TakeFacts DEF Listing

LEMMA LexicalLegFacts ==
    ASSUME NEW order \in LexicalOrders, NEW k \in Nat
    PROVE  Listing(LexicalLeg(order, k), Current) /\ Len(LexicalLeg(order, k)) <= k
<1> DEFINE T == (Chunks \cup {NoChunk}) \X (1 .. Texts)
           n == IF request.filtered THEN 3 * k ELSE k
           found == Take(n, Among(order, rows))
<1>1. Among(order, rows) \in Seq(T)
    BY Orders, AmongFacts
<1>0. n \in Nat
    OBVIOUS
<1> HIDE DEF T, n
<1>2. found \in Seq(T)
    BY <1>0, <1>1, TakeFacts
<1> HIDE DEF found
<1>3. Listing(Chosen(found), Current)
    BY <1>2, ChosenFacts
<1>4. LexicalLeg(order, k) = Take(k, Chosen(found))
    BY DEF LexicalLeg, found, n
<1> QED BY <1>3, <1>4, TakeListing, TakeFacts DEF Listing

LEMMA SimilarFacts ==
    ASSUME NEW order \in VectorOrders, NEW k \in Nat, NEW c
    PROVE  /\ Listing(SimilarTo(c, order, k), Current)
           /\ Len(SimilarTo(c, order, k)) <= k
           /\ c \notin ToSet(SimilarTo(c, order, k))
<1>1. CASE c \notin live
  <2>1. SimilarTo(c, order, k) = <<>>
    BY <1>1 DEF SimilarTo
  <2>2. Listing(<<>>, Current) /\ Len(<<>>) = 0 /\ ToSet(<<>>) = {}
    BY DEF Listing, Distinct, ToSet
  <2> QED BY <2>1, <2>2
<1>2. CASE c \in live
  <2> DEFINE leg == VectorLeg(order, k + 1)
             others == Among(leg, Chunks \ {c})
  <2>1. Listing(leg, Current)
    BY VectorLegFacts
  <2> HIDE DEF leg
  <2>2. Listing(others, Current) /\ ToSet(others) \subseteq Chunks \ {c}
    BY <2>1, AmongListing
  <2> HIDE DEF others
  <2>3. SimilarTo(c, order, k) = Take(k, others)
    BY <1>2 DEF SimilarTo, leg, others
  <2>4. /\ Listing(Take(k, others), Current) /\ Len(Take(k, others)) <= k
        /\ ToSet(Take(k, others)) \subseteq ToSet(others)
    BY <2>2, TakeListing, TakeFacts DEF Listing
  <2> QED BY <2>2, <2>3, <2>4
<1> QED BY <1>1, <1>2

(* Scores are numbers, and fall along what both legs agree on.             *)
LEMMA ScoreFacts ==
    ASSUME NEW T, NEW a \in Seq(T), NEW b \in Seq(T),
           NEW v \in Nat, NEW w \in Nat, NEW smooth \in Nat
    PROVE  /\ \A x \in ToSet(a \o b) : RRF(a, v, b, w, smooth)[x] \in Nat
           /\ \A x, y \in ToSet(a \o b) :
                /\ Distinct(a) /\ Distinct(b)
                /\ Precedes(a, x, y) /\ Precedes(b, x, y)
                => RRF(a, v, b, w, smooth)[x] >= RRF(a, v, b, w, smooth)[y]
<1> DEFINE P(x) == Share(a, v, smooth, x)
           Q(x) == Share(b, w, smooth, x)
           score == RRF(a, v, b, w, smooth)
<1>1. \A x : P(x) \in Nat /\ Q(x) \in Nat
    BY ShareFacts
<1>2. \A x \in ToSet(a \o b) : score[x] = P(x) + Q(x)
    BY DEF RRF
<1>3. \A x, y : Distinct(a) /\ Precedes(a, x, y) => P(x) >= P(y)
    BY ShareFalls
<1>4. \A x, y : Distinct(b) /\ Precedes(b, x, y) => Q(x) >= Q(y)
    BY ShareFalls
<1> HIDE DEF P, Q, score
<1>5. \A x \in ToSet(a \o b) : score[x] \in Nat
    BY <1>1, <1>2
<1>6. ASSUME NEW x \in ToSet(a \o b), NEW y \in ToSet(a \o b),
             Distinct(a), Distinct(b), Precedes(a, x, y), Precedes(b, x, y)
      PROVE  score[x] >= score[y]
  <2>1. P(x) >= P(y) /\ Q(x) >= Q(y)
    BY <1>3, <1>4, <1>6
  <2> QED BY <1>1, <1>2, <2>1
<1> QED BY <1>5, <1>6 DEF score

(* The fused order holds what the legs hold.  What the first leg has in    *)
(* some order, Once keeps in that order.                                   *)
LEMMA FusedFacts ==
    ASSUME NEW C, NEW a, Listing(a, C), NEW b \in Seq(C), NEW score,
           \A x \in ToSet(a \o b) : score[x] \in Int
    PROVE  /\ Listing(Fused(a, b, score), C)
           /\ ToSet(Fused(a, b, score)) = ToSet(a \o b)
           /\ \A x, y : Precedes(a, x, y) /\ score[x] >= score[y]
                          => Precedes(Fused(a, b, score), x, y)
<1> DEFINE u == a \o b
           S == {i \in DOMAIN u : \A j \in 1 .. i - 1 : u[j] # u[i]}
<1>1. /\ u \in Seq(C) /\ Len(a) \in Nat /\ Len(b) \in Nat
      /\ DOMAIN a = 1 .. Len(a)
      /\ DOMAIN u = 1 .. Len(a) + Len(b)
      /\ \A i \in 1 .. Len(a) : u[i] = a[i]
    BY ConcatAt DEF Listing
<1> HIDE DEF u
<1>2. Listing(Once(u), C) /\ ToSet(Once(u)) = ToSet(u)
    BY <1>1, OnceFacts, OnceDistinct DEF Listing
<1>3. Once(u) = Picked(u, S) /\ S \in SUBSET DOMAIN u
    BY OnceIs
<1>4. ASSUME NEW i \in DOMAIN a PROVE i \in S
  <2>1. i \in DOMAIN u
    BY <1>1
  <2>2. ASSUME NEW j \in 1 .. i - 1 PROVE u[j] # u[i]
    <3>1. j \in DOMAIN a /\ j # i /\ u[j] = a[j] /\ u[i] = a[i]
      BY <1>1
    <3> QED BY <3>1 DEF Listing, Distinct
  <2> QED BY <2>1, <2>2
<1>5. ASSUME NEW x, NEW y, Precedes(a, x, y) PROVE Precedes(Once(u), x, y)
  <2>1. PICK i \in DOMAIN a, j \in DOMAIN a : i < j /\ a[i] = x /\ a[j] = y
    BY <1>5 DEF Precedes
  <2>2. i \in S /\ j \in S /\ u[i] = x /\ u[j] = y
    BY <1>1, <1>4, <2>1
  <2> HIDE DEF S
  <2>3. Precedes(Picked(u, S), u[i], u[j])
    BY <1>1, <1>3, <2>1, <2>2, PickedPrecedes
  <2> QED BY <1>3, <2>2, <2>3
<1>6. Fused(a, b, score) = Descending(Once(u), score)
    BY DEF Fused, u
<1>7. \A x \in ToSet(Once(u)) : score[x] \in Int
    BY <1>2 DEF u
<1>8. /\ Listing(Fused(a, b, score), C)
      /\ ToSet(Fused(a, b, score)) = ToSet(u)
      /\ \A x, y : Precedes(Once(u), x, y) /\ score[x] >= score[y]
                     => Precedes(Fused(a, b, score), x, y)
    BY <1>2, <1>6, <1>7, DescendingFacts
<1> QED BY <1>5, <1>8 DEF u


LEMMA PickedKeeps ==
    ASSUME NEW C, NEW s, Listing(s, C), NEW S \in SUBSET DOMAIN s,
           NEW a \in ToSet(Picked(s, S)), NEW b \in ToSet(Picked(s, S)),
           Precedes(s, a, b)
    PROVE  Precedes(Picked(s, S), a, b)
<1>1. s \in Seq(C) /\ \A i, j \in DOMAIN s : s[i] = s[j] => i = j
    BY DEF Listing, Distinct
<1>2. PICK i \in S, j \in S : s[i] = a /\ s[j] = b
    BY <1>1, PickedElements
<1>3. i < j
    BY <1>1, <1>2 DEF Precedes
<1> QED BY <1>1, <1>2, <1>3, PickedPrecedes

LEMMA Placement ==
    ASSUME NEW s, NEW a \in ToSet(s), NEW b \in ToSet(s), Place(s, a) < Place(s, b)
    PROVE  Precedes(s, a, b)
<1>1. \E i \in DOMAIN s : s[i] = a
    BY DEF ToSet
<1>2. \E i \in DOMAIN s : s[i] = b
    BY DEF ToSet
<1>3. Place(s, a) \in DOMAIN s /\ s[Place(s, a)] = a
    BY <1>1 DEF Place
<1>4. Place(s, b) \in DOMAIN s /\ s[Place(s, b)] = b
    BY <1>2 DEF Place
<1> QED BY <1>3, <1>4 DEF Precedes

(* What fusion makes of the legs, step by step.                            *)
FusedInto(score, best, boosted, sorted, out) ==
    /\ score = RRF(near, VectorWeight, words, LexicalWeight, 60)
    /\ best = Take(3 * request.k, Fused(near, words, score))
    /\ boosted = [c \in ToSet(best) |-> score[c] * Boost(c)]
    /\ sorted = Descending(best, boosted)
    /\ out = OncePerFile(sorted, sorted)

LEMMA FuseFacts ==
    ASSUME NEW C \in SUBSET Chunks, Listing(near, C), Listing(words, C),
           request.k \in Nat,
           NEW score, NEW best, NEW boosted, NEW sorted, NEW out,
           FusedInto(score, best, boosted, sorted, out)
    PROVE  /\ Listing(out, C) /\ FilesApart(out)
           /\ promoted = {} =>
                \A a, b \in ToSet(out) :
                  Precedes(near, a, b) /\ Precedes(words, a, b)
                    => Precedes(out, a, b)
<1> DEFINE F == Fused(near, words, score)
<1>1. near \in Seq(C) /\ words \in Seq(C) /\ Distinct(near) /\ Distinct(words)
    BY DEF Listing
<1>2. VectorWeight \in Nat /\ LexicalWeight \in Nat /\ 60 \in Nat
    BY Bounds
<1>3. /\ \A x \in ToSet(near \o words) : score[x] \in Nat
      /\ \A x, y \in ToSet(near \o words) :
           Precedes(near, x, y) /\ Precedes(words, x, y) => score[x] >= score[y]
    BY <1>1, <1>2, ScoreFacts DEF FusedInto
<1>4. \A x \in ToSet(near \o words) : score[x] \in Int
    BY <1>3
<1>5. /\ Listing(F, C) /\ ToSet(F) = ToSet(near \o words)
      /\ \A x, y : Precedes(near, x, y) /\ score[x] >= score[y]
                     => Precedes(F, x, y)
    BY <1>1, <1>4, FusedFacts
<1> HIDE DEF F
<1>6. 3 * request.k \in Nat /\ best = Take(3 * request.k, F)
    BY DEF FusedInto, F
<1>7. Listing(best, C) /\ ToSet(best) \subseteq ToSet(F)
    BY <1>5, <1>6, TakeListing
<1>8. \A c \in ToSet(best) :
        /\ score[c] \in Nat
        /\ boosted[c] = score[c] * Boost(c)
    BY <1>3, <1>5, <1>7 DEF FusedInto
<1>9. \A c \in ToSet(best) : /\ boosted[c] \in Int
                             /\ promoted = {} => boosted[c] = score[c]
    BY <1>8 DEF Boost
<1>10. sorted = Descending(best, boosted) /\ out = OncePerFile(sorted, sorted)
    BY DEF FusedInto
<1>11. /\ Listing(sorted, C) /\ ToSet(sorted) = ToSet(best)
       /\ \A a, b : Precedes(best, a, b) /\ boosted[a] >= boosted[b]
                      => Precedes(sorted, a, b)
    BY <1>7, <1>9, <1>10, DescendingFacts
<1>12. sorted \in Seq(Chunks) /\ ToSet(sorted) \subseteq ToSet(sorted)
    BY <1>11, ListingElements, SeqWithin DEF Listing
<1>13. Listing(out, C) /\ FilesApart(out) /\ ToSet(out) \subseteq ToSet(sorted)
    BY <1>10, <1>11, <1>12, OncePerFileListing
<1>14. PICK S \in SUBSET DOMAIN sorted : out = Picked(sorted, S)
  <2> DEFINE S == {i \in DOMAIN sorted :
                     \A d \in ToSet(sorted) : FileOf[d] = FileOf[sorted[i]] =>
                         Place(sorted, sorted[i]) <= Place(sorted, d)}
  <2>1. S \in SUBSET DOMAIN sorted /\ out = Picked(sorted, S)
    BY <1>10 DEF OncePerFile
  <2> QED BY <2>1
<1>15. ASSUME promoted = {}, NEW a \in ToSet(out), NEW b \in ToSet(out),
              Precedes(near, a, b), Precedes(words, a, b)
       PROVE  Precedes(out, a, b)
  <2>1. a \in ToSet(best) /\ b \in ToSet(best) /\ a \in ToSet(F) /\ b \in ToSet(F)
    BY <1>7, <1>11, <1>13
  <2>2. score[a] >= score[b]
    BY <1>3, <1>5, <1>15, <2>1
  <2>3. Precedes(F, a, b)
    BY <1>5, <1>15, <2>2
  <2>4. Precedes(best, a, b)
    BY <1>5, <1>6, <2>1, <2>3, TakePrecedes
  <2>5. Precedes(sorted, a, b)
    BY <1>9, <1>11, <1>15, <2>1, <2>2, <2>4
  <2> QED BY <1>11, <1>14, <2>5, PickedKeeps
<1> QED BY <1>13, <1>15


-----------------------------------------------------------------------------
(* Lemmas on the engines.                                                  *)

LEMMA EmptyListing ==
    ASSUME NEW C
    PROVE  /\ Listing(<<>>, C) /\ FilesApart(<<>>)
           /\ Len(<<>>) = 0 /\ ToSet(<<>>) = {} /\ DOMAIN <<>> = {}
BY DEF Listing, Distinct, ToSet, FilesApart

LEMMA Numbers ==
    ASSUME NEW T, NEW s \in Seq(T)
    PROVE  /\ Listing([i \in DOMAIN s |-> i], DOMAIN s)
           /\ ToSet([i \in DOMAIN s |-> i]) = DOMAIN s
<1> DEFINE D == DOMAIN s
           n == [i \in D |-> i]
<1>1. n \in [D -> D] /\ \A i \in D : n[i] = i
    OBVIOUS
<1> HIDE DEF n
<1>2. n \in Seq(D) /\ DOMAIN n = D
    BY <1>1, SeqMap
<1>3. ToSet(n) = D /\ Distinct(n)
    BY <1>1, <1>2 DEF ToSet, Distinct
<1> QED BY <1>2, <1>3 DEF Listing, n

LEMMA ReverseListing ==
    ASSUME NEW C, NEW s, Listing(s, C)
    PROVE  Listing(Reverse(s), C) /\ ToSet(Reverse(s)) = ToSet(s)
<1> DEFINE l == Len(s)
           D == DOMAIN s
           t == Reverse(s)
<1>1. s \in Seq(C) /\ l \in Nat /\ D = 1 .. l
    BY DEF Listing
<1>2. \A i \in D : s[i] \in C
    BY ListingElements
<1>3. t = [i \in 1 .. l |-> s[(l - i) + 1]]
    BY DEF Reverse
<1> HIDE DEF l
<1>4. \A i \in D : (l - i) + 1 \in D /\ l - ((l - i) + 1) + 1 = i
    BY <1>1
<1>5. DOMAIN t = D /\ \A i \in D : t[i] = s[(l - i) + 1]
    BY <1>1, <1>3
<1>6. t \in [D -> C]
    BY <1>1, <1>2, <1>3, <1>4
<1> HIDE DEF t
<1>7. t \in Seq(C)
    BY <1>1, <1>6, SeqMap
<1>8. ToSet(t) = ToSet(s)
    BY <1>4, <1>5 DEF ToSet
<1>9. ASSUME NEW i \in D, NEW j \in D, t[i] = t[j] PROVE i = j
  <2>1. (l - i) + 1 = (l - j) + 1
    BY <1>4, <1>5, <1>9 DEF Listing, Distinct
  <2> QED BY <1>1, <2>1
<1>10. Distinct(t)
    BY <1>5, <1>9 DEF Distinct
<1> QED BY <1>7, <1>8, <1>10 DEF Listing, t

LEMMA PoolFacts ==
    ASSUME NEW C, Listing(candidates, C)
    PROVE  /\ Listing(Pool, C) /\ Listing(Rest, C)
           /\ Len(Pool) \in Nat /\ Len(Pool) <= PoolSize
           /\ DOMAIN Pool = 1 .. Len(Pool)
           /\ \A i \in DOMAIN Pool : Pool[i] = candidates[i]
           /\ Pool \o Rest = candidates
           /\ ToSet(Pool) \cap ToSet(Rest) = {}
           /\ ToSet(Pool) \cup ToSet(Rest) = ToSet(candidates)
<1> DEFINE n == Len(Pool)
<1>1. candidates \in Seq(C) /\ Distinct(candidates) /\ Len(candidates) \in Nat
    BY DEF Listing
<1>2. /\ Pool \in Seq(C) /\ n \in Nat /\ n <= PoolSize /\ n <= Len(candidates)
      /\ n = Lesser(PoolSize, Len(candidates))
      /\ \A i \in DOMAIN Pool : Pool[i] = candidates[i]
    BY <1>1, Bounds, TakeFacts DEF Pool
<1>3. Pool = SubSeq(candidates, 1, n) /\ Rest = SubSeq(candidates, n + 1, Len(candidates))
    BY <1>2 DEF Pool, Rest, Take
<1> HIDE DEF n
<1>4. n \in 0 .. Len(candidates)
    BY <1>1, <1>2
<1>5. Rest \in Seq(C) /\ Pool \o Rest = candidates
    BY <1>1, <1>3, <1>4, Cut
<1>6. /\ Len(Rest) \in Nat /\ DOMAIN Rest = 1 .. Len(Rest)
      /\ DOMAIN Pool = 1 .. n
      /\ DOMAIN candidates = 1 .. n + Len(Rest)
      /\ \A i \in 1 .. n : candidates[i] = Pool[i]
      /\ \A i \in 1 .. Len(Rest) : candidates[n + i] = Rest[i]
    BY <1>2, <1>5, ConcatAt DEF n
<1> DEFINE m == Len(Rest)
<1> HIDE DEF m
<1>7. /\ m \in Nat /\ DOMAIN Rest = 1 .. m /\ DOMAIN candidates = 1 .. n + m
      /\ \A i \in 1 .. m : candidates[n + i] = Rest[i]
    BY <1>6 DEF m
<1>8. \A i \in 1 .. m : n + i \in DOMAIN candidates
    BY <1>2, <1>7
<1>9. Distinct(Pool)
    BY <1>1, <1>2, <1>6, <1>7 DEF Distinct
<1>10. Distinct(Rest)
  <2>1. ASSUME NEW i \in 1 .. m, NEW j \in 1 .. m, Rest[i] = Rest[j]
        PROVE  i = j
    <3>1. n + i = n + j
      BY <1>1, <1>7, <1>8, <2>1 DEF Distinct
    <3> QED BY <1>2, <1>7, <3>1
  <2> QED BY <1>7, <2>1 DEF Distinct
<1>11. ASSUME NEW i \in 1 .. n, NEW j \in 1 .. m PROVE Pool[i] # Rest[j]
  <2>1. i # n + j /\ i \in DOMAIN candidates /\ n + j \in DOMAIN candidates
    BY <1>2, <1>7
  <2>2. candidates[i] # candidates[n + j]
    BY <1>1, <2>1 DEF Distinct
  <2> QED BY <1>6, <1>7, <2>2
<1>12. ToSet(Pool) \cap ToSet(Rest) = {}
    BY <1>6, <1>7, <1>11 DEF ToSet
<1>13. IsSeq(Pool) /\ IsSeq(Rest)
    BY <1>2, <1>5, SeqSelf
<1>14. ToSet(Pool) \cup ToSet(Rest) = ToSet(candidates)
    BY <1>5, <1>13, SeqConcat
<1> QED BY <1>2, <1>5, <1>6, <1>9, <1>10, <1>12, <1>14 DEF Listing, n

(* The answer of a search for which nothing is lost.                       *)
Whole(out, C) ==
    /\ Listing(out, C) /\ FilesApart(out)
    /\ Len(out) = Lesser(request.k, Len(candidates))

LEMMA HybridOrderFacts ==
    ASSUME NEW C, Listing(candidates, C), FilesApart(candidates),
           request.k \in Nat
    PROVE  Whole(Take(request.k, candidates), C)
<1> DEFINE t == Take(request.k, candidates)
<1>1. /\ Listing(t, C) /\ ToSet(t) \subseteq ToSet(candidates)
      /\ Len(t) = Lesser(request.k, Len(candidates))
    BY TakeListing
<1> HIDE DEF t
<1>2. FilesApart(t)
    BY <1>1, ApartWithin DEF Listing
<1> QED BY <1>1, <1>2 DEF Whole, t

LEMMA ReorderedFacts ==
    ASSUME NEW C, Listing(candidates, C), FilesApart(candidates),
           request.k \in Nat,
           NEW all, Listing(all, C), ToSet(all) = ToSet(candidates)
    PROVE  Whole(Take(request.k, all), C)
<1> DEFINE t == Take(request.k, all)
<1>1. /\ Listing(t, C) /\ ToSet(t) \subseteq ToSet(all)
      /\ Len(t) = Lesser(request.k, Len(all))
    BY TakeListing
<1>2. Len(all) = Len(candidates)
    BY SameLength
<1> HIDE DEF t
<1>3. FilesApart(t)
    BY <1>1, ApartWithin DEF Listing
<1> QED BY <1>1, <1>2, <1>3 DEF Whole, t

(* An engine that hands back its pool in another order touches no more.    *)
LEMMA RankFacts ==
    ASSUME NEW C, Listing(candidates, C), FilesApart(candidates),
           request.k \in Nat,
           NEW pool, Listing(pool, C), ToSet(pool) = ToSet(Pool)
    PROVE  /\ Whole(Take(request.k, pool \o Rest), C)
           /\ \A i \in PoolSize + 1 .. Len(Take(request.k, pool \o Rest)) :
                Take(request.k, pool \o Rest)[i] = candidates[i]
<1> DEFINE all == pool \o Rest
           t == Take(request.k, all)
           n == Len(Pool)
           m == Len(Rest)
<1>1. /\ Listing(Pool, C) /\ Listing(Rest, C)
      /\ n \in Nat /\ n <= PoolSize /\ PoolSize \in Nat
      /\ Pool \o Rest = candidates
      /\ ToSet(Pool) \cap ToSet(Rest) = {}
      /\ ToSet(Pool) \cup ToSet(Rest) = ToSet(candidates)
    BY PoolFacts, Bounds
<1>2. Listing(all, C) /\ ToSet(all) = ToSet(candidates)
  <2>1. ToSet(pool) \cap ToSet(Rest) = {}
    BY <1>1
  <2>2. Listing(all, C) /\ ToSet(all) = ToSet(pool) \cup ToSet(Rest)
    BY <1>1, <2>1, ConcatListing
  <2> QED BY <1>1, <2>2
<1>3. Len(pool) = n
    BY <1>1, SameLength
<1>4. /\ m \in Nat /\ DOMAIN all = 1 .. n + m
      /\ \A i \in 1 .. m : all[n + i] = Rest[i]
  <2>1. pool \in Seq(C) /\ Rest \in Seq(C)
    BY <1>1 DEF Listing
  <2>2. /\ m \in Nat /\ DOMAIN all = 1 .. Len(pool) + m
        /\ \A i \in 1 .. m : all[Len(pool) + i] = Rest[i]
    BY <2>1, ConcatAt
  <2> QED BY <1>3, <2>2
<1>5. \A i \in 1 .. m : candidates[n + i] = Rest[i]
    BY <1>1, ConcatAt DEF Listing
<1> HIDE DEF all, n, m
<1>6. Whole(t, C)
    BY <1>2, ReorderedFacts
<1>7. /\ DOMAIN t = 1 .. Len(t) /\ Len(t) \in Nat
      /\ DOMAIN t \subseteq DOMAIN all
      /\ \A i \in DOMAIN t : t[i] = all[i]
  <2>1. all \in Seq(C)
    BY <1>2 DEF Listing
  <2>2. t \in Seq(C)
    BY <2>1, TakeFacts
  <2> QED BY <2>1, <2>2, TakeFacts
<1> HIDE DEF t
<1>8. ASSUME NEW i \in PoolSize + 1 .. Len(t) PROVE t[i] = candidates[i]
  <2>1. i \in DOMAIN t /\ i \in DOMAIN all
    BY <1>1, <1>7
  <2>2. i - n \in 1 .. m /\ n + (i - n) = i
    BY <1>1, <1>4, <2>1
  <2>3. all[i] = Rest[i - n] /\ candidates[i] = Rest[i - n]
    BY <1>4, <1>5, <2>2
  <2> QED BY <1>7, <2>1, <2>3
<1> QED BY <1>6, <1>8 DEF t, all

(* The pool in the order of a list of all its places.                      *)
LEMMA PoolMapped ==
    ASSUME NEW C, Listing(candidates, C),
           NEW order, Listing(order, DOMAIN Pool), ToSet(order) = DOMAIN Pool,
           NEW pool, pool = [i \in DOMAIN order |-> candidates[order[i]]]
    PROVE  Listing(pool, C) /\ ToSet(pool) = ToSet(Pool)
<1>1. Listing(Pool, C) /\ \A i \in DOMAIN Pool : Pool[i] = candidates[i]
    BY PoolFacts
<1>2. \A i \in DOMAIN order : order[i] \in DOMAIN Pool
    BY ListingElements
<1>3. pool = [i \in DOMAIN order |-> Pool[order[i]]]
    BY <1>1, <1>2
<1> QED BY <1>1, <1>3, MappedListing

LEMMA PermutesFacts ==
    ASSUME NEW C, Listing(candidates, C), NEW ranking \in Rankings,
           Permutes(ranking)
    PROVE  Listing(ranking, DOMAIN Pool) /\ ToSet(ranking) = DOMAIN Pool
<1>1. ranking \in Seq(Int)
    BY SearchAssumption DEF SearchAssumption
<1>2. Pool \in Seq(C)
    BY PoolFacts DEF Listing
<1>3. ToSet(ranking) = DOMAIN Pool /\ Len(ranking) = Len(Pool)
    BY DEF Permutes
<1>4. Cardinality(DOMAIN Pool) = Len(Pool)
    BY <1>2, Positions
<1>5. Distinct(ranking)
    BY <1>1, <1>3, <1>4, DistinctSize
<1>6. ranking \in Seq(DOMAIN Pool)
    BY <1>1, <1>3, SeqWithin
<1> QED BY <1>3, <1>5, <1>6 DEF Listing

(* When no call is running, each place of the pool has one grade.          *)
LEMMA GradedFacts ==
    ASSUME NEW C, Listing(candidates, C),
           calls \in Seq({"flying", "high", "low", "failed"}),
           Len(calls) = Len(Pool), Flying = {},
           NEW order, order = Graded("high") \o Graded("low") \o Graded("failed")
    PROVE  Listing(order, DOMAIN Pool) /\ ToSet(order) = DOMAIN Pool
<1> DEFINE D == DOMAIN Pool
           n == [i \in D |-> i]
           G(g) == {i \in DOMAIN calls : calls[i] = g}
<1>1. Pool \in Seq(C) /\ DOMAIN calls = D
    BY PoolFacts DEF Listing
<1>2. Listing(n, D) /\ ToSet(n) = D
    BY <1>1, Numbers
<1>3. \A g : Graded(g) = Among(n, G(g))
    BY DEF Graded
<1> HIDE DEF n
<1>4. \A g : Listing(Graded(g), D) /\ ToSet(Graded(g)) = G(g)
  <2> TAKE g
  <2>1. Listing(Among(n, G(g)), D) /\ ToSet(Among(n, G(g))) = ToSet(n) \cap G(g)
    BY <1>2, AmongListing
  <2>2. G(g) \subseteq D
    BY <1>1
  <2> QED BY <1>2, <1>3, <2>1, <2>2
<1>5. G("high") \cap G("low") = {} /\ (G("high") \cup G("low")) \cap G("failed") = {}
    OBVIOUS
<1>6. G("high") \cup G("low") \cup G("failed") = D
  <2>1. \A i \in D : calls[i] \in {"flying", "high", "low", "failed"}
    BY <1>1
  <2> QED BY <1>1, <2>1 DEF Flying
<1> HIDE DEF G
<1> DEFINE a == Graded("high") \o Graded("low")
<1>7. Listing(a, D) /\ ToSet(a) = G("high") \cup G("low")
    BY <1>4, <1>5, ConcatListing
<1>8. order = a \o Graded("failed")
    OBVIOUS
<1> HIDE DEF a
<1>9. ToSet(a) \cap ToSet(Graded("failed")) = {}
    BY <1>4, <1>5, <1>7
<1>10. /\ Listing(a \o Graded("failed"), D)
       /\ ToSet(a \o Graded("failed")) = ToSet(a) \cup ToSet(Graded("failed"))
    BY <1>4, <1>7, <1>9, ConcatListing
<1> QED BY <1>4, <1>6, <1>7, <1>8, <1>10

(* The agentic ranking loses none of the results it is given.              *)
Renumbered(reply, said, numbers, shown, score, ranked, rest, order) ==
    /\ said = Among(reply, DOMAIN answer)
    /\ numbers = [i \in DOMAIN answer |-> i]
    /\ shown = Take(JudgePool, numbers)
    /\ score = RRF(shown, 1, said, 1, 20)
    /\ ranked = Fused(shown, said, score)
    /\ rest = Among(numbers, DOMAIN answer \ ToSet(ranked))
    /\ order = Take(request.k, ranked \o rest)

LEMMA AgenticFacts ==
    ASSUME NEW C, Listing(answer, C), request.k \in Nat,
           Len(answer) <= request.k,
           NEW reply \in Replies, NEW said, NEW numbers, NEW shown, NEW score,
           NEW ranked, NEW rest, NEW order,
           Renumbered(reply, said, numbers, shown, score, ranked, rest, order),
           NEW out, out = [i \in DOMAIN order |-> answer[order[i]]]
    PROVE  /\ Listing(out, C) /\ ToSet(out) \subseteq ToSet(answer)
           /\ Len(out) = Len(answer)
<1> DEFINE D == DOMAIN answer
           all == ranked \o rest
<1>1. answer \in Seq(C) /\ Len(answer) \in Nat
    BY DEF Listing
<1>2. Listing(numbers, D) /\ ToSet(numbers) = D
    BY <1>1, Numbers DEF Renumbered
<1>3. Listing(shown, D)
    BY <1>2, Bounds, TakeListing DEF Renumbered
<1>4. said \in Seq(D)
  <2>1. reply \in Seq(Int)
    BY SearchAssumption DEF SearchAssumption
  <2>2. said \in Seq(Int) /\ ToSet(said) \subseteq D
    BY <2>1, AmongFacts DEF Renumbered
  <2> QED BY <2>2, SeqWithin
<1>5. \A x \in ToSet(shown \o said) : score[x] \in Nat
  <2>1. shown \in Seq(D)
    BY <1>3 DEF Listing
  <2>2. 1 \in Nat /\ 20 \in Nat /\ score = RRF(shown, 1, said, 1, 20)
    BY DEF Renumbered
  <2> QED BY <1>4, <2>1, <2>2, ScoreFacts
<1>6. \A x \in ToSet(shown \o said) : score[x] \in Int
    BY <1>5
<1>7. Listing(ranked, D)
    BY <1>3, <1>4, <1>6, FusedFacts DEF Renumbered
<1>8. ToSet(ranked) \subseteq D
    BY <1>7, ListingElements
<1>9. Listing(rest, D) /\ ToSet(rest) = D \ ToSet(ranked)
  <2>1. rest = Among(numbers, D \ ToSet(ranked))
    BY DEF Renumbered
  <2> QED BY <1>2, <2>1, AmongListing
<1>10. Listing(all, D) /\ ToSet(all) = D
  <2>1. /\ ToSet(ranked) \cap ToSet(rest) = {}
        /\ ToSet(ranked) \cup ToSet(rest) = D
    BY <1>8, <1>9
  <2> HIDE DEF D
  <2> QED BY <1>7, <1>9, <2>1, ConcatListing
<1> HIDE DEF all
<1>11. Len(all) = Len(answer)
  <2>1. Len(all) = Cardinality(D)
    BY <1>10, ListingElements
  <2>2. Cardinality(D) = Len(answer)
    BY <1>1, Positions
  <2> QED BY <2>1, <2>2
<1>12. order = all
  <2>1. all \in Seq(D)
    BY <1>10 DEF Listing
  <2>2. order = Take(request.k, all)
    BY DEF Renumbered, all
  <2> QED BY <1>11, <2>1, <2>2, TakeFacts
<1> HIDE DEF D
<1>13. Listing(order, D) /\ Len(order) = Len(answer)
    BY <1>10, <1>11, <1>12
<1> QED BY <1>13, MappedListing DEF D


-----------------------------------------------------------------------------
(* The invariant holds at first, and every step keeps it.                  *)

LEMMA Kinds ==
    ASSUME IInv
    PROVE  /\ Allowed \in SUBSET Chunks
           /\ Listing(near, Allowed) /\ Listing(words, Allowed)
           /\ Listing(candidates, Allowed) /\ Listing(answer, Allowed)
           /\ request \in Requests /\ request.k \in Nat
           /\ FilesApart(candidates)
<1>1. request.k \in Nat
    BY Bounds DEF IInv, RequestInv, Requests
<1>2. Allowed \in SUBSET Chunks
    BY CurrentAllowed DEF IInv
<1> QED BY <1>1, <1>2 DEF IInv, RequestInv, SoundInv, Sound, HybridInv

(* The request does not change the index, nor what it may answer with.     *)
LEMMA Frame ==
    ASSUME IInv, UNCHANGED <<index, request>>
    PROVE  IndexInv' /\ Allowed' = Allowed /\ request' \in Requests
<1>1. /\ live' = live /\ lived' = lived /\ request' = request
      /\ IndexInv /\ request \in Requests
    BY DEF index, IInv, RequestInv
<1>2. Allowed' = Allowed
    BY <1>1 DEF Allowed, Admits
<1> QED BY <1>1, <1>2 DEF IndexInv

LEMMA SoundStep ==
    ASSUME Allowed' = Allowed,
           Listing(near', Allowed), Listing(words', Allowed),
           Listing(candidates', Allowed), Listing(answer', Allowed)
    PROVE  SoundInv'
BY DEF SoundInv, Sound

(* The legs and the fusion.                                                *)
LEMMA Retrieved ==
    ASSUME IInv, UNCHANGED <<index, request, calls>>,
           phase \in {"asked", "lexical", "fuse", "blend"},
           request.mode = "hybrid", phase' \in {"lexical", "fuse", "blend", "rerank"},
           Listing(near', Allowed), Listing(words', Allowed),
           Listing(candidates', Allowed), FilesApart(candidates'),
           answer' = answer
    PROVE  IInv'
<1>1. IndexInv' /\ Allowed' = Allowed /\ request' \in Requests /\ request' = request
    BY Frame
<1>2. RequestInv'
    BY <1>1 DEF RequestInv, Hybrid, Late
<1>3. SoundInv'
    BY <1>1, Kinds, SoundStep
<1>4. CallsInv'
    BY DEF IInv, CallsInv, Flying
<1>5. HybridInv'
    BY DEF HybridInv, Late
<1>6. AnswerInv'
    BY DEF AnswerInv, Late
<1> QED BY <1>1, <1>2, <1>3, <1>4, <1>5, <1>6 DEF IInv

LEMMA HybridVectorsStep ==
    ASSUME IInv, HybridVectors
    PROVE  IInv'
<1>1. /\ phase = "asked" /\ request.mode = "hybrid" /\ phase' = "lexical"
      /\ UNCHANGED <<index, request, calls>>
      /\ words' = words /\ candidates' = candidates /\ answer' = answer
    BY Zenon DEF HybridVectors, Asks, Goto, engine
<1>2. PICK order \in VectorOrders : near' = Signalled(VectorLeg(order, CandidateK))
    BY Zenon DEF HybridVectors
<1>3. CandidateK \in Nat
    BY Bounds
<1>4. Listing(VectorLeg(order, CandidateK), Allowed)
  <2>1. Listing(VectorLeg(order, CandidateK), Current)
    BY <1>3, VectorLegFacts
  <2>2. Current \subseteq Allowed
    BY CurrentAllowed DEF IInv
  <2>3. ToSet(VectorLeg(order, CandidateK)) \subseteq Allowed
    BY <2>1, <2>2, ListingElements
  <2> QED BY <2>1, <2>3, ListingWithin
<1>5. Listing(near', Allowed)
    BY <1>2, <1>4, Kinds, PromoteListing DEF Signalled
<1> QED BY <1>1, <1>5, Kinds, Retrieved

LEMMA HybridWordsStep ==
    ASSUME IInv, HybridWords
    PROVE  IInv'
<1>1. /\ phase = "lexical" /\ phase' = "fuse"
      /\ UNCHANGED <<index, request, calls>>
      /\ near' = near /\ candidates' = candidates /\ answer' = answer
    BY Zenon DEF HybridWords, Goto, engine
<1>2. request.mode = "hybrid"
    BY <1>1 DEF IInv, RequestInv, Hybrid
<1>3. Listing(words', Allowed)
  <2>1. CASE words' = <<>>
    BY <2>1, EmptyListing
  <2>2. ASSUME NEW order \in LexicalOrders,
               words' = Signalled(LexicalLeg(order, CandidateK))
        PROVE  Listing(words', Allowed)
    <3>0. CandidateK \in Nat
      BY Bounds
    <3>1. Listing(LexicalLeg(order, CandidateK), Current)
      BY <3>0, LexicalLegFacts
    <3>2. Current \subseteq Allowed
      BY CurrentAllowed DEF IInv
    <3>3. ToSet(LexicalLeg(order, CandidateK)) \subseteq Allowed
      BY <3>1, <3>2, ListingElements
    <3>4. Listing(LexicalLeg(order, CandidateK), Allowed)
      BY <3>1, <3>3, ListingWithin
    <3> QED BY <2>2, <3>4, Kinds, PromoteListing DEF Signalled
  <2> QED BY <2>1, <2>2, Zenon DEF HybridWords
<1> QED BY <1>1, <1>2, <1>3, Kinds, Retrieved

LEMMA FuseStep ==
    ASSUME IInv, Fuse
    PROVE  IInv' /\ FusionMonotone'
<1>1. /\ phase = "fuse" /\ phase' = "blend"
      /\ UNCHANGED <<index, request, calls>>
      /\ near' = near /\ words' = words /\ answer' = answer
      /\ promoted' = promoted
    BY Zenon DEF Fuse, Goto, engine, legs
<1>2. request.mode = "hybrid"
    BY <1>1 DEF IInv, RequestInv, Hybrid
<1>3. PICK score, best, boosted, sorted :
        FusedInto(score, best, boosted, sorted, candidates')
  <2>1. PICK score \in {RRF(near, VectorWeight, words, LexicalWeight, 60)} :
        \E best \in {Take(3 * request.k, Fused(near, words, score))} :
        \E boosted \in {[c \in ToSet(best) |-> score[c] * Boost(c)]} :
        \E sorted \in {Descending(best, boosted)} :
          candidates' = OncePerFile(sorted, sorted)
    BY Zenon DEF Fuse
  <2>2. PICK best \in {Take(3 * request.k, Fused(near, words, score))} :
        \E boosted \in {[c \in ToSet(best) |-> score[c] * Boost(c)]} :
        \E sorted \in {Descending(best, boosted)} :
          candidates' = OncePerFile(sorted, sorted)
    BY <2>1, Zenon
  <2>3. PICK boosted \in {[c \in ToSet(best) |-> score[c] * Boost(c)]} :
        \E sorted \in {Descending(best, boosted)} :
          candidates' = OncePerFile(sorted, sorted)
    BY <2>2, Zenon
  <2>4. FusedInto(score, best, boosted, Descending(best, boosted), candidates')
    BY <2>1, <2>2, <2>3 DEF FusedInto
  <2> QED BY <2>4
<1>4. /\ Listing(candidates', Allowed) /\ FilesApart(candidates')
      /\ promoted = {} =>
           \A a, b \in ToSet(candidates') :
             Precedes(near, a, b) /\ Precedes(words, a, b)
               => Precedes(candidates', a, b)
    BY <1>3, Kinds, FuseFacts
<1>5. IInv'
    BY <1>1, <1>2, <1>4, Kinds, Retrieved
<1> DEFINE c == candidates'
<1>6. ASSUME promoted = {}, NEW i \in DOMAIN c, NEW j \in DOMAIN c,
             {c[i], c[j]} \subseteq ToSet(near) \cap ToSet(words),
             Place(near, c[i]) < Place(near, c[j]),
             Place(words, c[i]) < Place(words, c[j])
      PROVE  i < j
  <2>1. Precedes(near, c[i], c[j]) /\ Precedes(words, c[i], c[j])
    BY <1>6, Placement
  <2>2. c[i] \in ToSet(c) /\ c[j] \in ToSet(c)
    BY DEF ToSet
  <2>3. Precedes(c, c[i], c[j])
    BY <1>4, <1>6, <2>1, <2>2
  <2> QED BY <1>4, <2>3, PrecedesPlaces
<1>7. FusionMonotone'
    BY <1>1, <1>6 DEF FusionMonotone
<1> QED BY <1>5, <1>7

LEMMA BlendStep ==
    ASSUME IInv, Blend
    PROVE  IInv'
<1>1. /\ phase = "blend" /\ phase' = "rerank"
      /\ UNCHANGED <<index, request, calls>>
      /\ near' = <<>> /\ words' = <<>> /\ answer' = answer
      /\ candidates' = candidates \/ candidates' = ByGraph(candidates)
    BY Zenon DEF Blend, Goto, engine
<1>2. request.mode = "hybrid"
    BY <1>1 DEF IInv, RequestInv, Hybrid
<1>3. Listing(near', Allowed) /\ Listing(words', Allowed)
    BY <1>1, EmptyListing
<1>4. /\ Listing(ByGraph(candidates), Allowed)
      /\ ToSet(ByGraph(candidates)) = ToSet(candidates)
    BY Kinds, PromoteListing DEF ByGraph
<1>5. FilesApart(ByGraph(candidates))
    BY <1>4, Kinds, ApartWithin DEF Listing
<1>6. Listing(candidates', Allowed) /\ FilesApart(candidates')
    BY <1>1, <1>4, <1>5, Kinds
<1> QED BY <1>1, <1>2, <1>3, <1>6, Retrieved


(* The engines.                                                            *)
LEMMA Reranked ==
    ASSUME IInv, UNCHANGED <<index, request, near, words, candidates>>,
           phase \in {"rerank", "scoring"}, phase' = "found", Flying' = {},
           Whole(answer', Allowed),
           applied' => \A i \in PoolSize + 1 .. Len(answer') :
                         answer'[i] = candidates[i],
           ~applied' /\ request.engine # "cross-encoder" =>
             answer' = Take(request.k, candidates)
    PROVE  IInv'
<1>1. /\ IndexInv' /\ Allowed' = Allowed /\ request' \in Requests
      /\ request' = request /\ candidates' = candidates
    BY Frame
<1>2. request.mode = "hybrid"
    BY DEF IInv, RequestInv, Hybrid
<1>3. RequestInv'
    BY <1>1, <1>2 DEF RequestInv, Hybrid, Late
<1>4. SoundInv'
    BY <1>1, Kinds, SoundStep DEF Whole
<1>5. CallsInv'
    BY DEF CallsInv
<1>6. HybridInv'
    BY <1>1, Kinds DEF HybridInv, Whole
<1>7. AnswerInv'
  <2>1. request.k \in Nat /\ Len(candidates) \in Nat
    BY Kinds, ListingElements
  <2>2. Len(answer') <= request'.k
    BY <1>1, <2>1 DEF Whole, Lesser
  <2> QED BY <1>1, <1>2, <2>2 DEF AnswerInv
<1> QED BY <1>1, <1>3, <1>4, <1>5, <1>6, <1>7 DEF IInv

LEMMA HybridOrderStep ==
    ASSUME IInv, UNCHANGED <<index, request, near, words, candidates>>,
           phase \in {"rerank", "scoring"}, Flying' = {}, HybridOrder
    PROVE  IInv'
<1>1. answer' = Take(request.k, candidates) /\ ~applied' /\ phase' = "found"
    BY DEF HybridOrder, Goto
<1>2. Whole(answer', Allowed)
    BY <1>1, Kinds, HybridOrderFacts
<1> QED BY <1>1, <1>2, Reranked

LEMMA RankStep ==
    ASSUME IInv, UNCHANGED <<index, request, near, words, candidates>>,
           phase \in {"rerank", "scoring"}, Flying' = {},
           NEW order, Listing(order, DOMAIN Pool), ToSet(order) = DOMAIN Pool,
           Rank([i \in DOMAIN order |-> candidates[order[i]]])
    PROVE  IInv'
<1> DEFINE pool == [i \in DOMAIN order |-> candidates[order[i]]]
<1>1. answer' = Take(request.k, pool \o Rest) /\ applied' /\ phase' = "found"
    BY DEF Rank, Goto
<1>2. Listing(pool, Allowed) /\ ToSet(pool) = ToSet(Pool)
    BY Kinds, PoolMapped
<1> HIDE DEF pool
<1>3. /\ Whole(answer', Allowed)
      /\ \A i \in PoolSize + 1 .. Len(answer') : answer'[i] = candidates[i]
    BY <1>1, <1>2, Kinds, RankFacts
<1> QED BY <1>1, <1>3, Reranked

(* No call is running before the calls are started.                        *)
LEMMA NoneFlying ==
    ASSUME IInv, phase # "scoring", calls' = calls
    PROVE  Flying' = {}
BY DEF IInv, CallsInv, Flying

LEMMA NotRerankedStep ==
    ASSUME IInv, NotReranked
    PROVE  IInv'
<1>1. /\ phase = "rerank" /\ HybridOrder /\ calls' = calls
      /\ UNCHANGED <<index, request, near, words, candidates>>
    BY Zenon DEF NotReranked, legs
<1> QED BY <1>1, NoneFlying, HybridOrderStep

LEMMA CrossEncodeStep ==
    ASSUME IInv, CrossEncode
    PROVE  IInv'
<1>1. /\ phase = "rerank" /\ request.engine = "cross-encoder"
      /\ calls' = calls /\ applied' = FALSE /\ phase' = "found"
      /\ UNCHANGED <<index, request, near, words, candidates>>
    BY Zenon DEF CrossEncode, legs, Goto
<1>2. PICK ranked \in {candidates, Reverse(candidates)} :
        answer' = Take(request.k, ranked)
    BY Zenon DEF CrossEncode
<1>3. Listing(ranked, Allowed) /\ ToSet(ranked) = ToSet(candidates)
    BY <1>2, Kinds, ReverseListing
<1>4. Whole(answer', Allowed)
    BY <1>2, <1>3, Kinds, ReorderedFacts
<1> QED BY <1>1, <1>4, NoneFlying, Reranked

LEMMA ListwiseStep ==
    ASSUME IInv, Listwise
    PROVE  IInv'
<1>1. /\ phase = "rerank" /\ calls' = calls
      /\ UNCHANGED <<index, request, near, words, candidates>>
    BY Zenon DEF Listwise, legs
<1>2. PICK ranking \in Rankings :
        IF Permutes(ranking)
        THEN Rank([i \in DOMAIN ranking |-> candidates[ranking[i]]])
        ELSE HybridOrder
    BY Zenon DEF Listwise
<1>3. CASE Permutes(ranking)
  <2>1. Rank([i \in DOMAIN ranking |-> candidates[ranking[i]]])
    BY <1>2, <1>3, Zenon
  <2>2. Listing(ranking, DOMAIN Pool) /\ ToSet(ranking) = DOMAIN Pool
    BY <1>3, Kinds, PermutesFacts
  <2> QED BY <1>1, <2>1, <2>2, NoneFlying, RankStep
<1>4. CASE ~Permutes(ranking)
  <2>1. HybridOrder
    BY <1>2, <1>4, Zenon
  <2> QED BY <1>1, <2>1, NoneFlying, HybridOrderStep
<1> QED BY <1>3, <1>4

LEMMA SettleStep ==
    ASSUME IInv, Settle
    PROVE  IInv'
<1>1. /\ phase = "scoring" /\ Flying = {} /\ calls' = calls
      /\ UNCHANGED <<index, request, near, words, candidates>>
    BY Zenon DEF Settle, legs
<1>2. Flying' = {}
    BY <1>1 DEF Flying
<1>3. CASE Usable
  <2>1. PICK order \in {Graded("high") \o Graded("low") \o Graded("failed")} :
          Rank([i \in DOMAIN order |-> candidates[order[i]]])
    BY <1>3, Zenon DEF Settle
  <2>2. calls \in Seq({"flying", "high", "low", "failed"}) /\ Len(calls) = Len(Pool)
    BY <1>1 DEF IInv, CallsInv
  <2>3. Listing(order, DOMAIN Pool) /\ ToSet(order) = DOMAIN Pool
    BY <1>1, <2>1, <2>2, Kinds, GradedFacts
  <2> QED BY <1>1, <1>2, <2>1, <2>3, RankStep
<1>4. CASE ~Usable
  <2>1. HybridOrder
    BY <1>4, Zenon DEF Settle
  <2> QED BY <1>1, <1>2, <2>1, HybridOrderStep
<1> QED BY <1>3, <1>4

LEMMA SonnetTimeoutStep ==
    ASSUME IInv, SonnetTimeout
    PROVE  IInv'
<1>1. /\ phase = "scoring" /\ HybridOrder
      /\ UNCHANGED <<index, request, near, words, candidates>>
    BY Zenon DEF SonnetTimeout, legs
<1>2. calls' = [i \in DOMAIN calls |->
                  IF i \in Flying THEN "cancelled" ELSE calls[i]]
    BY Zenon DEF SonnetTimeout
<1>3. Flying' = {}
    BY <1>2 DEF Flying
<1> QED BY <1>1, <1>3, HybridOrderStep

(* The calls of a pointwise engine.                                        *)
LEMMA Scoring ==
    ASSUME IInv, UNCHANGED <<index, request, near, words, candidates, answer>>,
           phase \in {"rerank", "scoring"}, phase' = "scoring",
           calls' \in Seq({"flying", "high", "low", "failed"}),
           Len(calls') = Len(Pool)
    PROVE  IInv'
<1>1. /\ IndexInv' /\ Allowed' = Allowed /\ request' \in Requests
      /\ request' = request /\ candidates' = candidates
    BY Frame
<1>2. RequestInv'
    BY <1>1 DEF IInv, RequestInv, Hybrid, Late
<1>3. SoundInv'
    BY <1>1, Kinds, SoundStep
<1>4. CallsInv'
  <2>1. Pool' = Pool
    BY <1>1 DEF Pool
  <2> QED BY <2>1 DEF CallsInv
<1>5. HybridInv'
    BY <1>1, Kinds DEF HybridInv, Late
<1>6. AnswerInv'
    BY DEF AnswerInv, Late
<1> QED BY <1>1, <1>2, <1>3, <1>4, <1>5, <1>6 DEF IInv

LEMMA StartCallsStep ==
    ASSUME IInv, StartCalls
    PROVE  IInv'
<1>1. /\ phase = "rerank" /\ phase' = "scoring"
      /\ calls' = [i \in DOMAIN Pool |-> "flying"]
      /\ UNCHANGED <<index, request, near, words, candidates, answer>>
    BY Zenon DEF StartCalls, Goto, legs
<1>2. Pool \in Seq(Allowed)
    BY Kinds, PoolFacts DEF Listing
<1>3. calls' \in [DOMAIN Pool -> {"flying", "high", "low", "failed"}]
    BY <1>1
<1>4. /\ calls' \in Seq({"flying", "high", "low", "failed"})
      /\ Len(calls') = Len(Pool)
    BY <1>2, <1>3, SeqMap
<1> QED BY <1>1, <1>4, Scoring

LEMMA CallEndsStep ==
    ASSUME IInv, NEW i, CallEnds(i)
    PROVE  IInv'
<1> DEFINE T == {"flying", "high", "low", "failed"}
<1>1. /\ phase = "scoring" /\ phase' = "scoring"
      /\ UNCHANGED <<index, request, near, words, candidates, answer>>
    BY Zenon DEF CallEnds, legs
<1>2. PICK outcome \in {"high", "low", "failed"} :
        calls' = [calls EXCEPT ![i] = outcome]
    BY Zenon DEF CallEnds
<1>3. calls \in Seq(T) /\ Len(calls) = Len(Pool)
    BY <1>1 DEF IInv, CallsInv
<1>4. calls' \in [DOMAIN calls -> T]
  <2>1. \A j \in DOMAIN calls : calls[j] \in T
    BY <1>3
  <2> QED BY <1>2, <2>1
<1>5. calls' \in Seq(T) /\ Len(calls') = Len(Pool)
    BY <1>3, <1>4, SeqMap
<1> QED BY <1>1, <1>5, Scoring

LEMMA OpenaiTimeoutStep ==
    ASSUME IInv, OpenaiTimeout
    PROVE  IInv'
<1>1. /\ phase = "scoring" /\ phase' = "scoring" /\ calls' = calls
      /\ UNCHANGED <<index, request, near, words, candidates, answer>>
    BY Zenon DEF OpenaiTimeout, legs
<1>2. calls' \in Seq({"flying", "high", "low", "failed"}) /\ Len(calls') = Len(Pool)
    BY <1>1 DEF IInv, CallsInv
<1> QED BY <1>1, <1>2, Scoring


(* The answer of the other searches, and what search_code makes of one.    *)
LEMMA FoundStep ==
    ASSUME IInv, UNCHANGED <<index, request, words, candidates, calls>>,
           phase = "asked", phase' = "found",
           request.mode \in {"keyword", "semantic"},
           Listing(near', Allowed), Listing(answer', Allowed),
           Len(answer') <= request.k,
           request.mode = "semantic" => ToSet(answer') \subseteq ToSet(near')
    PROVE  IInv'
<1>1. /\ IndexInv' /\ Allowed' = Allowed /\ request' \in Requests
      /\ request' = request /\ candidates' = candidates
    BY Frame
<1>2. RequestInv'
    BY <1>1 DEF RequestInv, Hybrid, Late
<1>3. SoundInv'
    BY <1>1, Kinds, SoundStep
<1>4. CallsInv'
    BY DEF IInv, CallsInv, Flying
<1>5. HybridInv'
    BY <1>1, Kinds DEF HybridInv
<1>6. AnswerInv'
    BY <1>1 DEF AnswerInv
<1> QED BY <1>1, <1>2, <1>3, <1>4, <1>5, <1>6 DEF IInv

LEMMA KeywordSearchStep ==
    ASSUME IInv, KeywordSearch
    PROVE  IInv'
<1>1. /\ phase = "asked" /\ request.mode = "keyword" /\ phase' = "found"
      /\ UNCHANGED <<index, request, near, words, candidates, calls>>
    BY Zenon DEF KeywordSearch, Asks, Goto, legs, engine
<1>2. PICK order \in LexicalOrders : answer' = LexicalLeg(order, request.k)
    BY Zenon DEF KeywordSearch
<1>3. Listing(answer', Current) /\ Len(answer') <= request.k
    BY <1>2, Kinds, LexicalLegFacts
<1>4. ToSet(answer') \subseteq Allowed
    BY <1>3, CurrentAllowed, ListingElements DEF IInv
<1>5. Listing(answer', Allowed)
    BY <1>3, <1>4, ListingWithin
<1> QED BY <1>1, <1>3, <1>5, Kinds, FoundStep

LEMMA SemanticSearchStep ==
    ASSUME IInv, SemanticSearch
    PROVE  IInv'
<1>1. /\ phase = "asked" /\ request.mode = "semantic" /\ phase' = "found"
      /\ UNCHANGED <<index, request, words, candidates, calls>>
      /\ answer' = Take(request.k, Ranked(near'))
    BY Zenon DEF SemanticSearch, Asks, Goto, engine
<1>2. PICK order \in VectorOrders : near' = VectorLeg(order, 10 * request.k)
    BY Zenon DEF SemanticSearch
<1>3. request.k \in Nat /\ 10 * request.k \in Nat
    BY Kinds
<1>4. Listing(near', Current)
    BY <1>2, <1>3, VectorLegFacts
<1>5. ToSet(near') \subseteq Allowed
    BY <1>4, CurrentAllowed, ListingElements DEF IInv
<1>6. Listing(near', Allowed)
    BY <1>4, <1>5, ListingWithin
<1>7. Listing(Ranked(near'), Allowed) /\ ToSet(Ranked(near')) = ToSet(near')
    BY <1>6, Kinds, PromoteListing DEF Ranked
<1>8. /\ Listing(answer', Allowed) /\ ToSet(answer') \subseteq ToSet(near')
      /\ Len(answer') <= request.k
  <2> DEFINE r == Ranked(near')
  <2>1. Listing(r, Allowed) /\ answer' = Take(request.k, r) /\ ToSet(r) = ToSet(near')
    BY <1>1, <1>7
  <2> HIDE DEF r
  <2> QED BY <1>3, <2>1, TakeListing, TakeFacts DEF Listing
<1> QED BY <1>1, <1>6, <1>8, Kinds, FoundStep

(* Steps to the phases after a result has been found.                      *)
LEMMA AnswerStep ==
    ASSUME IInv,
           UNCHANGED <<index, request, near, words, candidates, calls, applied>>,
           phase \in {"asked", "found", "deduped"},
           phase' \in {"deduped", "answered"},
           phase = "asked" <=> request.mode = "similar",
           phase' = "deduped" => phase = "found",
           Listing(answer', Allowed), Len(answer') <= request.k,
           request.mode # "similar" => FilesApart(answer'),
           request.mode = "similar" => Subject \notin ToSet(answer'),
           request.mode = "hybrid" =>
             /\ Len(answer') = Len(answer)
             /\ judged' \/ (judged' = judged /\ answer' = answer)
    PROVE  IInv'
<1>1. /\ IndexInv' /\ Allowed' = Allowed /\ request' \in Requests
      /\ request' = request /\ candidates' = candidates
    BY Frame
<1>2. RequestInv'
    BY <1>1 DEF RequestInv, Hybrid, Late
<1>3. SoundInv'
    BY <1>1, Kinds, SoundStep
<1>4. CallsInv'
    BY DEF IInv, CallsInv, Flying
<1>5. HybridInv'
  <2>1. FilesApart(candidates')
    BY <1>1, Kinds
  <2>2. ASSUME request.mode = "hybrid"
        PROVE  /\ FilesApart(answer')
               /\ Len(answer') = Lesser(request.k, Len(candidates))
               /\ ~judged' /\ applied =>
                    \A i \in PoolSize + 1 .. Len(answer') :
                      answer'[i] = candidates[i]
               /\ ~judged' /\ ~applied /\ request.engine # "cross-encoder" =>
                    answer' = Take(request.k, candidates)
    BY <2>2 DEF IInv, HybridInv, Late
  <2> QED BY <1>1, <2>1, <2>2 DEF HybridInv
<1>6. AnswerInv'
    BY <1>1 DEF AnswerInv
<1> QED BY <1>1, <1>2, <1>3, <1>4, <1>5, <1>6 DEF IInv

LEMMA SimilarSearchStep ==
    ASSUME IInv, SimilarSearch
    PROVE  IInv'
<1>1. /\ phase = "asked" /\ request.mode = "similar" /\ phase' = "answered"
      /\ UNCHANGED <<index, request, near, words, candidates, calls, applied>>
    BY Zenon DEF SimilarSearch, Asks, Goto, legs, engine
<1>2. PICK order \in VectorOrders :
        answer' = SimilarTo(Subject, order, request.k)
    BY Zenon DEF SimilarSearch
<1>3. /\ Listing(answer', Current) /\ Len(answer') <= request.k
      /\ Subject \notin ToSet(answer')
    BY <1>2, Kinds, SimilarFacts
<1>4. ToSet(answer') \subseteq Allowed
    BY <1>3, CurrentAllowed, ListingElements DEF IInv
<1>5. Listing(answer', Allowed)
    BY <1>3, <1>4, ListingWithin
<1> QED BY <1>1, <1>3, <1>5, AnswerStep

LEMMA PerFileStep ==
    ASSUME IInv, PerFile
    PROVE  IInv'
<1>1. /\ phase = "found" /\ phase' = "deduped" /\ judged' = judged
      /\ UNCHANGED <<index, request, near, words, candidates, calls, applied>>
      /\ answer' = OncePerFile(answer, Similarity)
    BY Zenon DEF PerFile, Goto, legs, engine
<1>2. /\ request.mode # "similar" /\ Len(answer) <= request.k
      /\ request.mode = "semantic" => ToSet(answer) \subseteq ToSet(near)
      /\ request.mode = "hybrid" => FilesApart(answer)
    BY <1>1 DEF IInv, RequestInv, AnswerInv, HybridInv, Late
<1>3. Similarity \in Seq(Chunks) /\ ToSet(answer) \subseteq ToSet(Similarity)
  <2>1. near \in Seq(Chunks) /\ answer \in Seq(Chunks)
    BY Kinds, ListingElements, SeqWithin DEF Listing
  <2> QED BY <1>2, <2>1 DEF Similarity
<1>4. /\ Listing(answer', Allowed) /\ FilesApart(answer')
      /\ ToSet(answer') \subseteq ToSet(answer)
      /\ FilesApart(answer) => answer' = answer
    BY <1>1, <1>3, Kinds, OncePerFileListing
<1>5. Len(answer') <= request.k
  <2>1. /\ IsFiniteSet(ToSet(answer))
        /\ Len(answer) = Cardinality(ToSet(answer)) /\ Len(answer) \in Nat
        /\ Len(answer') = Cardinality(ToSet(answer')) /\ Len(answer') \in Nat
    BY <1>4, Kinds, ListingElements, DistinctSize DEF Listing
  <2>2. Cardinality(ToSet(answer')) <= Cardinality(ToSet(answer))
    BY <1>4, <2>1, FS_Subset
  <2> QED BY <1>2, <2>1, <2>2, Kinds
<1> QED BY <1>1, <1>2, <1>4, <1>5, AnswerStep

LEMMA AnswerStands ==
    ASSUME IInv, phase = "deduped"
    PROVE  /\ request.mode # "similar" /\ FilesApart(answer)
           /\ Len(answer) <= request.k
BY DEF IInv, RequestInv, AnswerInv, Late

LEMMA AnswerIsStep ==
    ASSUME IInv, Answer
    PROVE  IInv'
<1>1. /\ phase = "deduped" /\ phase' = "answered"
      /\ judged' = judged /\ answer' = answer
      /\ UNCHANGED <<index, request, near, words, candidates, calls, applied>>
    BY Zenon DEF Answer, Goto, legs, engine
<1> QED BY <1>1, AnswerStands, Kinds, AnswerStep

LEMMA AgenticStep ==
    ASSUME IInv, Agentic
    PROVE  IInv'
<1>1. /\ phase = "deduped" /\ phase' = "answered" /\ judged' = TRUE
      /\ UNCHANGED <<index, request, near, words, candidates, calls, applied>>
    BY Zenon DEF Agentic, Goto, legs, engine
<1>2. request.mode # "similar" /\ FilesApart(answer) /\ Len(answer) <= request.k
    BY <1>1, AnswerStands
<1> DEFINE numbers == [i \in DOMAIN answer |-> i]
           shown == Take(JudgePool, numbers)
<1>3. PICK reply \in Replies :
        \E said \in {Among(reply, DOMAIN answer)} :
        \E score \in {RRF(shown, 1, said, 1, 20)} :
        \E ranked \in {Fused(shown, said, score)} :
        \E rest \in {Among(numbers, DOMAIN answer \ ToSet(ranked))} :
        \E order \in {Take(request.k, ranked \o rest)} :
          answer' = [i \in DOMAIN order |-> answer[order[i]]]
    BY Zenon DEF Agentic
<1> HIDE DEF numbers, shown
<1>4. PICK said, score, ranked, rest, order :
        /\ Renumbered(reply, said, numbers, shown, score, ranked, rest, order)
        /\ answer' = [i \in DOMAIN order |-> answer[order[i]]]
  <2>1. PICK said \in {Among(reply, DOMAIN answer)} :
        \E score \in {RRF(shown, 1, said, 1, 20)} :
        \E ranked \in {Fused(shown, said, score)} :
        \E rest \in {Among(numbers, DOMAIN answer \ ToSet(ranked))} :
        \E order \in {Take(request.k, ranked \o rest)} :
          answer' = [i \in DOMAIN order |-> answer[order[i]]]
    BY <1>3, Zenon
  <2>2. PICK score \in {RRF(shown, 1, said, 1, 20)} :
        \E ranked \in {Fused(shown, said, score)} :
        \E rest \in {Among(numbers, DOMAIN answer \ ToSet(ranked))} :
        \E order \in {Take(request.k, ranked \o rest)} :
          answer' = [i \in DOMAIN order |-> answer[order[i]]]
    BY <2>1, Zenon
  <2>3. PICK ranked \in {Fused(shown, said, score)} :
        \E rest \in {Among(numbers, DOMAIN answer \ ToSet(ranked))} :
        \E order \in {Take(request.k, ranked \o rest)} :
          answer' = [i \in DOMAIN order |-> answer[order[i]]]
    BY <2>2, Zenon
  <2>4. PICK rest \in {Among(numbers, DOMAIN answer \ ToSet(ranked))} :
        \E order \in {Take(request.k, ranked \o rest)} :
          answer' = [i \in DOMAIN order |-> answer[order[i]]]
    BY <2>3, Zenon
  <2>5. PICK order \in {Take(request.k, ranked \o rest)} :
          answer' = [i \in DOMAIN order |-> answer[order[i]]]
    BY <2>4, Zenon
  <2>6. Renumbered(reply, said, numbers, shown, score, ranked, rest, order)
    BY <2>1, <2>2, <2>3, <2>4, <2>5 DEF Renumbered, numbers, shown
  <2> QED BY <2>5, <2>6
<1>5. /\ Listing(answer', Allowed) /\ ToSet(answer') \subseteq ToSet(answer)
      /\ Len(answer') = Len(answer)
    BY <1>2, <1>4, Kinds, AgenticFacts
<1>6. FilesApart(answer')
    BY <1>2, <1>5, ApartWithin DEF Listing
<1> QED BY <1>1, <1>2, <1>5, <1>6, AnswerStep

(* A search that fails.                                                    *)
LEMMA FailsStep ==
    ASSUME IInv, EmbeddingFails \/ CrossEncoderFails
    PROVE  IInv'
<1>1. /\ phase # "scoring" /\ phase' = "failed" /\ calls' = calls
      /\ UNCHANGED <<index, request, near, words, candidates, answer>>
    BY Zenon DEF EmbeddingFails, CrossEncoderFails, Asks, Goto, legs, engine
<1>2. /\ IndexInv' /\ Allowed' = Allowed /\ request' \in Requests
      /\ request' = request /\ candidates' = candidates
    BY <1>1, Frame
<1>3. RequestInv'
    BY <1>1, <1>2 DEF RequestInv, Hybrid, Late
<1>4. SoundInv'
    BY <1>1, <1>2, Kinds, SoundStep
<1>5. CallsInv'
    BY <1>1 DEF IInv, CallsInv, Flying
<1>6. HybridInv'
    BY <1>1, <1>2, Kinds DEF HybridInv, Late
<1>7. AnswerInv'
    BY <1>1 DEF AnswerInv, Late
<1> QED BY <1>2, <1>3, <1>4, <1>5, <1>6, <1>7 DEF IInv

(* What the reindex removes was allowed, and stays so.                     *)
LEMMA ReindexStep ==
    ASSUME IInv, NEW f, RemoveFile(f) \/ AddFile(f)
    PROVE  IInv'
<1>1. /\ MayUpdate
      /\ \/ live' \subseteq live /\ lived' = lived
         \/ /\ live' = live \cup ChunksOf(f)
            /\ lived' = lived \cup ChunksOf(f)
    BY DEF RemoveFile, AddFile
<1>2. UNCHANGED <<request, phase, near, words, candidates, calls, late, applied,
                  judged, answer>>
    BY <1>1 DEF MayUpdate, legs, engine
<1>3. IndexInv' /\ lived \subseteq lived'
    BY <1>1 DEF IInv, IndexInv, ChunksOf
<1>4. Allowed \subseteq Allowed'
    BY <1>2, <1>3 DEF Allowed, Admits
<1>5. SoundInv'
  <2>1. ASSUME NEW s, Listing(s, Allowed) PROVE Listing(s, Allowed')
    BY <1>4, <2>1, ListingElements, ListingWithin
  <2> QED BY <1>2, <2>1, Kinds DEF SoundInv, Sound
<1>6. RequestInv' /\ AnswerInv'
    BY <1>2 DEF IInv, RequestInv, AnswerInv
<1>7. CallsInv'
    BY <1>2 DEF IInv, CallsInv, Flying, Pool
<1>8. HybridInv'
    BY <1>2 DEF IInv, HybridInv
<1> QED BY <1>3, <1>5, <1>6, <1>7, <1>8 DEF IInv

LEMMA Initial ==
    ASSUME Init
    PROVE  IInv /\ FusionMonotone
<1>1. /\ near = <<>> /\ words = <<>> /\ candidates = <<>> /\ answer = <<>>
      /\ calls = <<>> /\ phase = "asked" /\ request \in Requests
      /\ \E s \in Stores : live = s.live /\ lived = s.live
    BY DEF Init, Requests
<1>2. IndexInv
    BY <1>1, SearchAssumption DEF SearchAssumption, IndexInv
<1>3. RequestInv
    BY <1>1 DEF RequestInv, Hybrid, Late
<1>4. SoundInv
    BY <1>1, EmptyListing DEF SoundInv, Sound
<1>5. CallsInv
    BY <1>1 DEF CallsInv, Flying
<1>6. HybridInv
    BY <1>1, EmptyListing DEF HybridInv, Late
<1>7. AnswerInv
    BY <1>1 DEF AnswerInv, Late
<1>8. FusionMonotone
    BY <1>1 DEF FusionMonotone
<1> QED BY <1>2, <1>3, <1>4, <1>5, <1>6, <1>7, <1>8 DEF IInv

LEMMA SearchInductive ==
    ASSUME IInv, [Next]_vars
    PROVE  IInv'
<1>1. ASSUME Reindex PROVE IInv'
    BY <1>1, ReindexStep DEF Reindex
<1>2. ASSUME Searching PROVE IInv'
    BY <1>2, FailsStep, KeywordSearchStep, SemanticSearchStep,
       SimilarSearchStep, HybridVectorsStep, HybridWordsStep, FuseStep,
       BlendStep, NotRerankedStep, CrossEncodeStep, ListwiseStep,
       StartCallsStep, SettleStep, PerFileStep, AnswerIsStep, AgenticStep, Zenon
       DEF Searching
<1>3. ASSUME SomeCallEnds PROVE IInv'
    BY <1>3, CallEndsStep DEF SomeCallEnds
<1>4. ASSUME Timer PROVE IInv'
    BY <1>4, SonnetTimeoutStep, OpenaiTimeoutStep DEF Timer
<1>5. ASSUME UNCHANGED vars PROVE IInv'
  <2>1. UNCHANGED <<index, live, lived, request, phase, near, words, candidates,
                    calls, applied, judged, answer>>
    BY <1>5 DEF vars, index, legs, engine
  <2>2. Allowed' = Allowed
    BY <2>1 DEF Allowed, Admits
  <2>3. SoundInv'
    BY <2>1, <2>2, Kinds, SoundStep
  <2>4. CallsInv'
    BY <2>1 DEF IInv, CallsInv, Flying, Pool
  <2> QED BY <2>1, <2>3, <2>4 DEF IInv, IndexInv, RequestInv, HybridInv, AnswerInv
<1> QED BY <1>1, <1>2, <1>3, <1>4, <1>5 DEF Next

(* Only fusion leads to the phase FusionMonotone is about, and no step but *)
(* one of the reindex stays in it.                                         *)
LEMMA FusionKept ==
    ASSUME IInv, FusionMonotone, [Next]_vars
    PROVE  FusionMonotone'
<1>1. CASE Fuse
    BY <1>1, FuseStep
<1>2. ASSUME ~Fuse, phase' = "blend"
      PROVE  UNCHANGED <<phase, promoted, near, words, candidates>>
    BY <1>2 DEF Next, vars, Reindex, RemoveFile, AddFile, MayUpdate, Searching,
       SomeCallEnds, Timer, Goto, legs, EmbeddingFails, KeywordSearch,
       SemanticSearch, SimilarSearch, HybridVectors, HybridWords, Blend,
       NotReranked, CrossEncode, CrossEncoderFails, Listwise, StartCalls,
       Settle, PerFile, Answer, Agentic, CallEnds, SonnetTimeout,
       OpenaiTimeout, HybridOrder, Rank
<1>3. CASE ~Fuse
    BY <1>2, <1>3 DEF FusionMonotone
<1> QED BY <1>1, <1>3


-----------------------------------------------------------------------------
(* Every state of a request keeps the invariant: what its steps hand on    *)
(* repeats no chunk and holds none that was not live, or that the filters  *)
(* do not let through (_semantic_search, retrieve_hybrid_candidates,       *)
(* run_hybrid_pipeline, search_code).                                      *)
THEOREM SearchInvariantHolds == Spec => []IInv
<1>1. Init => IInv
    BY Initial
<1>2. IInv /\ [Next]_vars => IInv'
    BY SearchInductive
<1> QED BY <1>1, <1>2, PTL DEF Spec

LEMMA Sounds ==
    ASSUME IInv
    PROVE  AnswerSound
<1> SUFFICES ASSUME phase = "answered" PROVE AnswerSound
    BY DEF AnswerSound
<1>1. Len(answer) <= request.k
    BY DEF IInv, AnswerInv, Late
<1>2. \A c \in ToSet(answer) : c \in lived /\ Admits(c)
    BY Kinds, ListingElements DEF Allowed
<1>3. \A i, j \in DOMAIN answer : i # j => answer[i] # answer[j]
    BY Kinds DEF Listing, Distinct
<1>4. request.mode # "similar" => FilesApart(answer)
    BY DEF IInv, AnswerInv
<1>5. request.mode = "similar" => Subject \notin ToSet(answer)
    BY DEF IInv, AnswerInv
<1>6. Flying = {}
    BY DEF IInv, CallsInv
<1> QED BY <1>1, <1>2, <1>3, <1>4, <1>5, <1>6 DEF AnswerSound, FilesApart

(* No search answers with a chunk twice, with two of one file, with one    *)
(* that was never live during the request or that its filters reject,      *)
(* whatever stale vectors and rows the index holds, at whatever moment a   *)
(* reindex removes and adds files, and whatever its engine makes of it.    *)
THEOREM AnswerSoundHolds == Spec => []AnswerSound
BY SearchInvariantHolds, Sounds, PTL

(* A hybrid search answers with as many of its candidates as were asked    *)
(* for; no engine reorders more than its pool; one that reports itself not *)
(* applied leaves the order alone (reranker_registry, the three rerankers).*)
THEOREM NothingLostHolds == Spec => []NothingLost
<1>1. IInv => NothingLost
    BY DEF IInv, HybridInv, NothingLost, Late
<1> QED BY <1>1, SearchInvariantHolds, PTL

(* Fusion keeps what both legs agree on, for any weights of the legs and   *)
(* any rankings (reciprocal_rank_fusion, retrieve_hybrid_candidates).      *)
THEOREM FusionMonotoneHolds == Spec => []FusionMonotone
<1>1. Init => FusionMonotone
    BY Initial
<1>2. IInv /\ FusionMonotone /\ [Next]_vars => FusionMonotone'
    BY FusionKept
<1> QED BY <1>1, <1>2, SearchInvariantHolds, PTL DEF Spec
=============================================================================

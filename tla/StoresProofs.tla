---------------------------- MODULE StoresProofs ----------------------------
(***************************************************************************)
(* Proofs about what is found and what is kept, for any number of threads, *)
(* entries and crashes: the catalogue (what the search makes of an answer  *)
(* is in its order and holds no track twice), the tools' stores (a fact    *)
(* and a reminder that were confirmed are kept) and the albums (their file *)
(* is that of a store with atomic operations).                             *)
(***************************************************************************)
EXTENDS ZingCatalog, ToolStores, AlbumLibrary, FiniteSetTheorems, SequenceTheorems, TLAPS

(* A nonempty set of numbers has a least one.                              *)
LEMMA LeastNumber ==
  ASSUME NEW S \in SUBSET Nat, S # {} PROVE \E i \in S : \A j \in S : i <= j
<1>1. PICK i \in S : \A j \in S : ~(<<j, i>> \in OpToRel(<, Nat))
  BY WFMin, NatLessThanWellFounded
<1>2. \A j \in S : ~(j < i) BY <1>1 DEF OpToRel
<1>3. \A j \in S : i <= j BY <1>2
<1> QED BY <1>3

-----------------------------------------------------------------------------
(* The places of a finite set in order: all of them, each once, growing.   *)
LEMMA InOrderSorts ==
  ASSUME NEW S \in SUBSET Nat, IsFiniteSet(S)
  PROVE  /\ Cardinality(S) \in Nat
         /\ InOrder(S) \in [1 .. Cardinality(S) -> S]
         /\ \A k, l \in 1 .. Cardinality(S) : k < l => InOrder(S)[k] < InOrder(S)[l]
         /\ \A i \in S : \E k \in 1 .. Cardinality(S) : InOrder(S)[k] = i
<1> DEFINE upTo(i) == {j \in S : j <= i}
           n == Cardinality(S)
           rank == [i \in S |-> Cardinality(upTo(i))]
<1>0. n \in Nat BY FS_CardinalityType
<1>1. ASSUME NEW i \in S PROVE IsFiniteSet(upTo(i)) /\ Cardinality(upTo(i)) \in 1 .. n
  <2>1. upTo(i) \in SUBSET S /\ i \in upTo(i) OBVIOUS
  <2>2. IsFiniteSet(upTo(i)) /\ Cardinality(upTo(i)) <= n BY <2>1, FS_Subset
  <2>3. Cardinality(upTo(i)) \in Nat /\ Cardinality(upTo(i)) # 0
    <3> HIDE DEF upTo
    <3> QED BY <2>1, <2>2, FS_CardinalityType, FS_EmptySet
  <2> QED BY <1>0, <2>2, <2>3
<1>2. ASSUME NEW i \in S, NEW j \in S, i < j PROVE Cardinality(upTo(i)) < Cardinality(upTo(j))
  <2>1. upTo(i) \in SUBSET upTo(j) /\ j \in upTo(j) /\ j \notin upTo(i)
    <3>1. \A k \in S : k <= i => k <= j BY <1>2
    <3>2. i \in Nat /\ j \in Nat /\ j <= j /\ ~(j <= i) BY <1>2
    <3> QED BY <3>1, <3>2
  <2>2. Cardinality(upTo(i)) <= Cardinality(upTo(j))
        /\ (Cardinality(upTo(i)) = Cardinality(upTo(j)) => upTo(i) = upTo(j))
    <3>1. IsFiniteSet(upTo(j)) BY <1>1
    <3> HIDE DEF upTo
    <3> QED BY <2>1, <3>1, FS_Subset
  <2>3. Cardinality(upTo(i)) # Cardinality(upTo(j))
    <3> HIDE DEF upTo
    <3> QED BY <2>1, <2>2
  <2>4. Cardinality(upTo(i)) \in Nat /\ Cardinality(upTo(j)) \in Nat BY <1>1, <1>0
  <2> QED BY <2>2, <2>3, <2>4
<1>3. rank \in Injection(S, 1 .. n)
  <2>1. \A i, j \in S : rank[i] = rank[j] => ~(i < j) BY <1>1, <1>2
  <2>2. \A i, j \in S : rank[i] = rank[j] => i = j
    <3>1. \A i, j \in S : i < j \/ j < i \/ i = j OBVIOUS
    <3> HIDE DEF rank
    <3> QED BY <2>1, <3>1
  <2>3. rank \in [S -> 1 .. n] BY <1>1
  <2> HIDE DEF rank
  <2> QED BY <2>2, <2>3 DEF Injection, IsInjective
<1>4. rank \in Surjection(S, 1 .. n)
  <2>1. IsFiniteSet(1 .. n) /\ Cardinality(1 .. n) = n
    <3>1. IsFiniteSet(1 .. n) /\ Cardinality(1 .. n) = IF 1 > n THEN 0 ELSE n - 1 + 1
      BY <1>0, FS_Interval
    <3> QED BY <1>0, <3>1
  <2> HIDE DEF rank
  <2> QED BY <1>3, <2>1, FS_Injection
<1> DEFINE at(k) == CHOOSE i \in S : Cardinality(upTo(i)) = k
<1>5. InOrder(S) = [k \in 1 .. n |-> at(k)] BY DEF InOrder
<1>6. ASSUME NEW k \in 1 .. n PROVE at(k) \in S /\ Cardinality(upTo(at(k))) = k
  <2>1. \E i \in S : rank[i] = k BY <1>4 DEF Surjection
  <2>2. \E i \in S : Cardinality(upTo(i)) = k BY <2>1
  <2> QED BY <2>2
<1> HIDE DEF at
<1>7. \A k \in 1 .. n : InOrder(S)[k] \in S /\ Cardinality(upTo(InOrder(S)[k])) = k BY <1>5, <1>6
<1>8. InOrder(S) \in [1 .. n -> S] BY <1>5, <1>6
<1>9. ASSUME NEW k \in 1 .. n, NEW l \in 1 .. n, k < l PROVE InOrder(S)[k] < InOrder(S)[l]
  <2> DEFINE a == InOrder(S)[k]
             b == InOrder(S)[l]
  <2>1. a \in S /\ b \in S /\ Cardinality(upTo(a)) = k /\ Cardinality(upTo(b)) = l BY <1>7
  <2>2. b < a => Cardinality(upTo(b)) < Cardinality(upTo(a)) BY <1>2, <2>1
  <2> HIDE DEF a, b, upTo
  <2>3. ~(b < a) /\ a # b BY <1>9, <2>1, <2>2
  <2>4. a < b BY <2>1, <2>3
  <2> QED BY <2>4 DEF a, b
<1>10. ASSUME NEW i \in S PROVE \E k \in 1 .. n : InOrder(S)[k] = i
  <2>1. rank[i] \in 1 .. n BY <1>1
  <2> DEFINE b == InOrder(S)[rank[i]]
  <2>2. b \in S /\ rank[b] = rank[i] BY <1>7, <2>1
  <2>3. b = i
    <3> HIDE DEF rank, b
    <3> QED BY <1>3, <2>2 DEF Injection, IsInjective
  <2> QED BY <2>1, <2>3
<1> QED BY <1>0, <1>8, <1>9, <1>10

(* Two intervals that begin at 1 are of the same length if they are equal. *)
LEMMA SameInterval == ASSUME NEW m \in Nat, NEW n \in Nat, 1 .. m = 1 .. n PROVE m = n
<1>1. CASE m < n
  <2>1. n \in 1 .. n /\ n \notin 1 .. m BY <1>1
  <2> QED BY <2>1
<1>2. CASE n < m
  <2>1. m \in 1 .. m /\ m \notin 1 .. n BY <1>2
  <2> QED BY <2>1
<1> QED BY <1>1, <1>2

(* How many entries are taken.                                             *)
CountTaken(places, most) == IF Cardinality(places) < most THEN Cardinality(places) ELSE most

LEMMA CountTakenIs ==
  ASSUME NEW places \in SUBSET Nat, IsFiniteSet(places), NEW most \in Nat
  PROVE  /\ CountTaken(places, most) \in Nat /\ CountTaken(places, most) <= Cardinality(places)
         /\ \A k \in 1 .. CountTaken(places, most) : InOrder(places)[k] \in places
<1>1. CountTaken(places, most) \in Nat /\ CountTaken(places, most) <= Cardinality(places)
  BY InOrderSorts DEF CountTaken
<1>2. \A k \in 1 .. CountTaken(places, most) : InOrder(places)[k] \in places
  BY <1>1, InOrderSorts
<1> QED BY <1>1, <1>2

(* What is taken of tracks are tracks, those at the places, in their order.*)
LEMMA TakenIsSeq ==
  ASSUME NEW entries, NEW places \in SUBSET Nat, IsFiniteSet(places),
         \A i \in places : entries[i] \in Track, NEW most \in Nat
  PROVE  /\ Taken(entries, places, most) \in Seq(Track)
         /\ Len(Taken(entries, places, most)) = CountTaken(places, most)
         /\ \A k \in 1 .. CountTaken(places, most) :
              Taken(entries, places, most)[k] = entries[InOrder(places)[k]]
<1> DEFINE m == CountTaken(places, most)
           t == Taken(entries, places, most)
<1>1. m \in Nat /\ \A k \in 1 .. m : InOrder(places)[k] \in places BY CountTakenIs
<1>2. t = [k \in 1 .. m |-> entries[InOrder(places)[k]]] BY DEF Taken, CountTaken
<1> HIDE DEF m, t
<1>3. t \in [1 .. m -> Track] /\ DOMAIN t = 1 .. m /\ \A k \in 1 .. m : t[k] = entries[InOrder(places)[k]]
  BY <1>1, <1>2
<1>4. t \in Seq(Track) BY <1>1, <1>3, SeqDef
<1>5. Len(t) \in Nat /\ DOMAIN t = 1 .. Len(t) BY <1>4, LenProperties
<1>6. Len(t) = m BY <1>1, <1>3, <1>5, SameInterval
<1> QED BY <1>3, <1>4, <1>6 DEF m, t

(* The first tracks of their ids in an answer.                             *)
Firsts(entries) == {i \in DOMAIN entries : FirstOfItsId(entries, i)}
(* The tracks that may be played.                                          *)
Free(tracks) == {i \in DOMAIN tracks : ~tracks[i].premium}

(* An answer is a finite sequence.                                         *)
LEMMA AnswerIsSeq ==
  ASSUME NEW entries \in CatalogEntries
  PROVE  /\ entries \in Seq(CatalogEntry) /\ Len(entries) \in Nat /\ DOMAIN entries = 1 .. Len(entries)
         /\ Firsts(entries) \in SUBSET Nat /\ IsFiniteSet(Firsts(entries))
         /\ \A i \in Firsts(entries) : entries[i] \in Track
<1>1. PICK n \in 0 .. MaxEntries : entries \in [1 .. n -> CatalogEntry] BY DEF CatalogEntries
<1>2. entries \in Seq(CatalogEntry) BY <1>1, SeqDef, CatalogAssumption DEF CatalogAssumption
<1>3. Len(entries) \in Nat /\ DOMAIN entries = 1 .. Len(entries) BY <1>2, LenProperties
<1>4. Firsts(entries) \in SUBSET (1 .. Len(entries)) BY <1>3 DEF Firsts
<1>5. IsFiniteSet(Firsts(entries))
  <2>1. IsFiniteSet(1 .. Len(entries)) BY <1>3, FS_Interval
  <2> QED BY <1>4, <2>1, FS_Subset
<1>6. ASSUME NEW i \in Firsts(entries) PROVE entries[i] \in Track
  <2>1. entries[i] \in CatalogEntry BY <1>2, <1>3, <1>4, ElementOfSeq
  <2>2. entries[i] # NoTrackEntry BY DEF Firsts, FirstOfItsId, NoTrackEntry
  <2> QED BY <2>1, <2>2 DEF CatalogEntry
<1> QED BY <1>2, <1>3, <1>4, <1>5, <1>6

(* What a search finds are tracks, what is played are some of them.        *)
LEMMA HitsAreTracks ==
  ASSUME NEW entries \in CatalogEntries
  PROVE  /\ Hits(entries) \in Seq(Track)
         /\ Len(Hits(entries)) = CountTaken(Firsts(entries), Limit)
         /\ CountTaken(Firsts(entries), Limit) \in Nat
         /\ CountTaken(Firsts(entries), Limit) <= Cardinality(Firsts(entries))
         /\ \A k \in 1 .. CountTaken(Firsts(entries), Limit) :
              /\ InOrder(Firsts(entries))[k] \in Firsts(entries)
              /\ Hits(entries)[k] = entries[InOrder(Firsts(entries))[k]]
<1>1. Hits(entries) = Taken(entries, Firsts(entries), Limit) BY DEF Hits, Firsts
<1>2. Limit \in Nat BY CatalogAssumption DEF CatalogAssumption
<1>3. Firsts(entries) \in SUBSET Nat BY AnswerIsSeq
<1>4. IsFiniteSet(Firsts(entries)) BY AnswerIsSeq
<1>5. \A i \in Firsts(entries) : entries[i] \in Track BY AnswerIsSeq
<1>6. Taken(entries, Firsts(entries), Limit) \in Seq(Track) BY <1>2, <1>3, <1>4, <1>5, TakenIsSeq
<1>7. Len(Taken(entries, Firsts(entries), Limit)) = CountTaken(Firsts(entries), Limit)
  BY <1>2, <1>3, <1>4, <1>5, TakenIsSeq
<1>8. \A k \in 1 .. CountTaken(Firsts(entries), Limit) :
         Taken(entries, Firsts(entries), Limit)[k] = entries[InOrder(Firsts(entries))[k]]
  BY <1>2, <1>3, <1>4, <1>5, TakenIsSeq
<1> QED BY <1>1, <1>2, <1>3, <1>4, <1>6, <1>7, <1>8, CountTakenIs

LEMMA PlayableAreTracks ==
  ASSUME NEW tracks \in Seq(Track)
  PROVE  /\ Free(tracks) \in SUBSET (1 .. Len(tracks)) /\ IsFiniteSet(Free(tracks))
         /\ Playable(tracks) \in Seq(Track)
         /\ Len(Playable(tracks)) = CountTaken(Free(tracks), MaxQueue)
         /\ CountTaken(Free(tracks), MaxQueue) \in Nat
         /\ CountTaken(Free(tracks), MaxQueue) <= Cardinality(Free(tracks))
         /\ \A k \in 1 .. CountTaken(Free(tracks), MaxQueue) :
              /\ InOrder(Free(tracks))[k] \in Free(tracks)
              /\ Playable(tracks)[k] = tracks[InOrder(Free(tracks))[k]]
<1>1. Playable(tracks) = Taken(tracks, Free(tracks), MaxQueue) BY DEF Playable, Free
<1>2. MaxQueue \in Nat BY CatalogAssumption DEF CatalogAssumption
<1>3. Len(tracks) \in Nat /\ DOMAIN tracks = 1 .. Len(tracks) BY LenProperties
<1>4. Free(tracks) \in SUBSET (1 .. Len(tracks)) BY <1>3 DEF Free
<1>5. IsFiniteSet(Free(tracks)) /\ Free(tracks) \in SUBSET Nat
  <2>1. IsFiniteSet(1 .. Len(tracks)) BY <1>3, FS_Interval
  <2> QED BY <1>3, <1>4, <2>1, FS_Subset
<1>6. \A i \in Free(tracks) : tracks[i] \in Track BY <1>4, ElementOfSeq
<1>7. Taken(tracks, Free(tracks), MaxQueue) \in Seq(Track) BY <1>2, <1>5, <1>6, TakenIsSeq
<1>8. Len(Taken(tracks, Free(tracks), MaxQueue)) = CountTaken(Free(tracks), MaxQueue)
  BY <1>2, <1>5, <1>6, TakenIsSeq
<1>9. \A k \in 1 .. CountTaken(Free(tracks), MaxQueue) :
         Taken(tracks, Free(tracks), MaxQueue)[k] = tracks[InOrder(Free(tracks))[k]]
  BY <1>2, <1>5, <1>6, TakenIsSeq
<1> QED BY <1>1, <1>2, <1>4, <1>5, <1>7, <1>8, <1>9, CountTakenIs

(* The id of an entry appears for the first time somewhere.                *)
LEMMA FirstPlaceIsFirst ==
  ASSUME NEW entries, Len(entries) \in Nat, NEW i \in 1 .. Len(entries)
  PROVE  \A j \in 1 .. FirstPlace(entries, entries[i]) - 1 : entries[j].id # entries[i].id
<1> DEFINE same == {j \in 1 .. Len(entries) : entries[j].id = entries[i].id}
<1>1. same \in SUBSET Nat /\ i \in same OBVIOUS
<1>2. PICK k \in same : \A j \in same : k <= j BY <1>1, LeastNumber
<1>3. k \in 1 .. Len(entries) /\ entries[k].id = entries[i].id BY <1>2
<1>4. \A j \in 1 .. k - 1 : entries[j].id # entries[i].id BY <1>2, <1>3
<1> QED BY <1>3, <1>4 DEF FirstPlace

(* A first track of its id is found where it is.                           *)
LEMMA FirstPlaceIsIt ==
  ASSUME NEW entries \in CatalogEntries, NEW i \in Firsts(entries)
  PROVE  FirstPlace(entries, entries[i]) = i
<1>1. /\ i \in 1 .. Len(entries) /\ Len(entries) \in Nat
      /\ \A j \in 1 .. i - 1 : entries[j].id # entries[i].id
  BY AnswerIsSeq DEF Firsts, FirstOfItsId
<1>2. ASSUME NEW k \in 1 .. Len(entries), entries[k].id = entries[i].id,
             \A j \in 1 .. k - 1 : entries[j].id # entries[i].id
      PROVE  k = i
  <2>1. ~(k < i) BY <1>1, <1>2
  <2>2. ~(i < k) BY <1>1, <1>2
  <2> QED BY <1>1, <2>1, <2>2
<1> QED BY <1>1, <1>2 DEF FirstPlace

(* The queue made of an answer, best match first.                          *)
LEMMA QueueKeepsOrder ==
  ASSUME NEW entries \in CatalogEntries
  PROVE  KeepsOrder(entries, Playable(Hits(entries)))
<1> DEFINE K == Firsts(entries)
           h == InOrder(K)
           m == CountTaken(K, Limit)
           f == Hits(entries)
           P == Free(f)
           g == InOrder(P)
           n == CountTaken(P, MaxQueue)
           q == Playable(f)
           at(k) == FirstPlace(entries, q[k])
           places == {at(k) : k \in 1 .. Len(q)}
<1>1. /\ f \in Seq(Track) /\ Len(f) = m /\ m \in Nat /\ m <= Cardinality(K)
      /\ \A k \in 1 .. m : h[k] \in K /\ f[k] = entries[h[k]]
  BY HitsAreTracks
<1>2. /\ P \in SUBSET (1 .. m) /\ IsFiniteSet(P)
      /\ Len(q) = n /\ n \in Nat /\ n <= Cardinality(P)
      /\ \A k \in 1 .. n : g[k] \in P /\ q[k] = f[g[k]]
  BY <1>1, PlayableAreTracks
<1>3. /\ K \in SUBSET (1 .. Len(entries)) /\ IsFiniteSet(K) /\ Len(entries) \in Nat
      /\ DOMAIN entries = 1 .. Len(entries)
  BY AnswerIsSeq DEF Firsts
<1>4. /\ Cardinality(K) \in Nat
      /\ \A k, l \in 1 .. Cardinality(K) : k < l => h[k] < h[l]
      /\ \A i \in K : \E k \in 1 .. Cardinality(K) : h[k] = i
      /\ \A k \in 1 .. Cardinality(K) : h[k] \in K
  <2>1. K \in SUBSET Nat BY <1>3
  <2> QED BY <1>3, <2>1, InOrderSorts
<1>5. /\ Cardinality(P) \in Nat
      /\ \A k, l \in 1 .. Cardinality(P) : k < l => g[k] < g[l]
      /\ \A i \in P : \E k \in 1 .. Cardinality(P) : g[k] = i
      /\ \A k \in 1 .. Cardinality(P) : g[k] \in P
  <2>1. P \in SUBSET Nat BY <1>1, <1>2
  <2> QED BY <1>2, <2>1, InOrderSorts
<1>6. \A j \in 1 .. m : j \in P <=> ~f[j].premium
  <2>1. DOMAIN f = 1 .. m BY <1>1, LenProperties
  <2> QED BY <2>1 DEF Free
<1>7. ASSUME NEW k \in 1 .. n PROVE at(k) = h[g[k]] /\ q[k] = entries[h[g[k]]] /\ h[g[k]] \in K
  <2>1. g[k] \in 1 .. m /\ q[k] = f[g[k]] BY <1>2
  <2>2. h[g[k]] \in K /\ q[k] = entries[h[g[k]]] BY <1>1, <2>1
  <2> QED BY <2>2, FirstPlaceIsIt
<1>8. \A i \in 1 .. Len(entries) : i \in K <=> FirstOfItsId(entries, i) BY <1>3 DEF Firsts
<1> HIDE DEF K, h, m, f, P, g, n, q, at
<1>9. ASSUME NEW k \in 1 .. n PROVE entries[at(k)] = q[k] /\ ~q[k].premium
  <2>1. entries[at(k)] = q[k] BY <1>7
  <2>2. g[k] \in P /\ g[k] \in 1 .. m /\ q[k] = f[g[k]] BY <1>2
  <2> QED BY <1>6, <2>1, <2>2
<1>10. ASSUME NEW k \in 2 .. n PROVE at(k - 1) < at(k)
  <2>1. k - 1 \in 1 .. n /\ k \in 1 .. n /\ k - 1 < k BY <1>2
  <2>2. k - 1 \in 1 .. Cardinality(P) /\ k \in 1 .. Cardinality(P) BY <1>2, <1>5, <2>1
  <2>3. g[k - 1] < g[k] BY <1>5, <2>1, <2>2
  <2>4. g[k - 1] \in 1 .. m /\ g[k] \in 1 .. m BY <1>2, <2>1
  <2>5. g[k - 1] \in 1 .. Cardinality(K) /\ g[k] \in 1 .. Cardinality(K) BY <1>1, <1>4, <2>4
  <2>6. h[g[k - 1]] < h[g[k]] BY <1>4, <2>3, <2>5
  <2> QED BY <1>7, <2>1, <2>6
<1>11. ASSUME NEW i \in 1 .. Len(entries), NEW p \in places, i < p, i \notin places,
              entries[i].id # NoId, FirstPlace(entries, entries[i]) = i, ~entries[i].premium
       PROVE  FALSE
  <2>1. PICK k \in 1 .. n : p = h[g[k]] BY <1>2, <1>7
  <2>2. i \in K
    <3>1. \A j \in 1 .. i - 1 : entries[j].id # entries[i].id
      BY <1>3, <1>11, FirstPlaceIsFirst
    <3> QED BY <1>8, <1>11, <3>1 DEF FirstOfItsId
  <2>3. PICK j \in 1 .. Cardinality(K) : h[j] = i BY <1>4, <2>2
  <2>4. g[k] \in 1 .. m BY <1>2
  <2>5. j < g[k] /\ j \in 1 .. m
    <3>1. g[k] \in 1 .. Cardinality(K) BY <1>1, <1>4, <2>4
    <3>2. ~(g[k] < j) /\ g[k] # j
      <4>1. g[k] < j => h[g[k]] < h[j] BY <1>4, <2>3, <3>1
      <4>2. i \in Nat /\ p \in Nat
        <5>1. p \in K BY <1>7, <2>1
        <5> QED BY <1>3, <5>1
      <4> QED BY <1>11, <2>1, <2>3, <4>1, <4>2
    <3> QED BY <1>1, <1>4, <2>3, <2>4, <3>2
  <2>6. j \in P
    <3>1. f[j] = entries[i] BY <1>1, <2>3, <2>5
    <3> QED BY <1>6, <1>11, <2>5, <3>1
  <2>7. PICK l \in 1 .. Cardinality(P) : g[l] = j BY <1>5, <2>6
  <2>8. l \in 1 .. n
    <3>1. k \in 1 .. Cardinality(P) BY <1>2, <1>5
    <3>2. k < l => g[k] < g[l] BY <1>5, <3>1
    <3>3. ~(k < l) BY <1>2, <2>4, <2>5, <2>7, <3>2
    <3> QED BY <1>2, <1>5, <2>7, <3>1, <3>3
  <2>9. at(l) = i BY <1>7, <2>3, <2>7, <2>8
  <2>10. i \in places BY <1>2, <2>8, <2>9
  <2> QED BY <1>11, <2>10
<1>12. /\ \A k \in 1 .. Len(q) : entries[at(k)] = q[k] /\ ~q[k].premium
       /\ \A k \in 2 .. Len(q) : at(k - 1) < at(k)
       /\ \A i \in 1 .. Len(entries) : \A p \in places :
            i < p /\ i \notin places =>
              entries[i].id = NoId \/ FirstPlace(entries, entries[i]) # i \/ entries[i].premium
  BY <1>2, <1>9, <1>10, <1>11
<1> QED BY <1>12 DEF at, q, f, KeepsOrder

-----------------------------------------------------------------------------
(* The requests a call may have made where it is: two for each attempt and *)
(* four for the first endpoint, before what the attempt it is in has made. *)
RequestsAreCounted ==
  LET before == (IF purpose = "typed" THEN 4 ELSE 0) + 2 * attempt
  IN  /\ attempt \in {0, 1}
      /\ catalogAt = "sign" => requests <= before
      /\ catalogAt = "answer" => requests <= before + 1
      /\ catalogAt = "retry" => requests <= before + 2
      /\ requests <= (IF purpose = "typed" THEN 4 ELSE 0) + 4

(* What is found and queued is of the answer that is remembered.           *)
QueueIsOfAnswer ==
  /\ catalogAt = "play" => found = Hits(answer)
  /\ catalogAt # "idle" /\ purpose # "stream" => queued = <<>>
  /\ queued # <<>> => queued = Playable(Hits(answer))

CatalogIndInv == CatalogTypeOK /\ CatalogInv /\ RequestsAreCounted /\ QueueIsOfAnswer

(* A request to one of Zing's hosts takes no cookie elsewhere.             *)
LEMMA RequestsStay ==
  ASSUME CatalogTypeOK, ~wandered, NEW host \in {"base", "zing"}, NEW at, Requests(host, at)
  PROVE  sending' \in Request /\ wandered' \in BOOLEAN /\ ~wandered'
<1>1. wandered' = (wandered \/ ((cookies /\ attempt = 0) /\ host \notin {"base", "zing"}))
      /\ sending' = [host |-> host, cookie |-> cookies /\ attempt = 0]
  BY DEF Requests
<1>2. (cookies /\ attempt = 0) \in BOOLEAN BY Zenon DEF CatalogTypeOK
<1>3. sending' \in Request BY <1>1, <1>2 DEF Request
<1>4. ~wandered' BY <1>1
<1>5. wandered' \in BOOLEAN BY <1>1, Zenon
<1> QED BY <1>3, <1>4, <1>5

(* An answer may be empty.                                                 *)
LEMMA NoEntries == <<>> \in CatalogEntries
BY CatalogAssumption DEF CatalogEntries, CatalogAssumption

(* A call begins.                                                          *)
LEMMA CallInv ==
  ASSUME CatalogIndInv, MusicPlay \/ FetchStreamingUrl PROVE CatalogIndInv'
<1> USE DEF CatalogIndInv
<1>1. CatalogTypeOK'
  <2>1. <<>> \in CatalogEntries /\ <<>> \in Seq(Track) BY NoEntries, EmptySeq
  <2>2. UNCHANGED <<cookies, wandered, sending, found>> BY DEF MusicPlay, FetchStreamingUrl
  <2>3. /\ catalogAt' = "sign" /\ purpose' \in {"multi", "stream"} /\ attempt' = 0 /\ requests' = 0
        /\ answer' \in {<<>>, answer} /\ queued' \in {<<>>, queued} /\ stream' \in {NoUrl, stream}
    BY DEF MusicPlay, FetchStreamingUrl
  <2>4. answer' \in CatalogEntries /\ queued' \in Seq(Track) BY <2>1, <2>3 DEF CatalogTypeOK
  <2>5. stream' \in Url \cup {NoUrl} BY <2>3 DEF CatalogTypeOK
  <2> QED BY <2>2, <2>3, <2>4, <2>5 DEF CatalogTypeOK
<1>2. CatalogInv' /\ RequestsAreCounted'
  BY DEF CatalogInv, RequestsAreCounted, MusicPlay, FetchStreamingUrl
<1>3. QueueIsOfAnswer' BY DEF QueueIsOfAnswer, MusicPlay, FetchStreamingUrl
<1> QED BY <1>1, <1>2, <1>3

(* A request is made, or an attempt or a call gives up.                    *)
LEMMA AttemptInv ==
  ASSUME CatalogIndInv, SignFails \/ Sign \/ AttemptFails \/ Retry PROVE CatalogIndInv'
<1> USE DEF CatalogIndInv
<1>0. UNCHANGED <<cookies, answer, found, queued, stream>>
  BY DEF SignFails, Sign, AttemptFails, Retry
<1>1. CASE SignFails \/ AttemptFails
  <2>1. UNCHANGED <<requests, wandered>> /\ sending' = NoRequest
    BY <1>1 DEF SignFails, AttemptFails, GivesUp, Gives
  <2>2. catalogAt \in {"sign", "answer", "retry"} BY <1>1 DEF SignFails, AttemptFails
  <2>3. \/ catalogAt' = "sign" /\ attempt' = 1 /\ attempt = 0 /\ purpose' = purpose /\ catalogAt # "sign"
        \/ catalogAt' = "sign" /\ attempt' = 0 /\ purpose = "multi" /\ purpose' = "typed"
        \/ catalogAt' = "idle" /\ attempt' = 0 /\ purpose' = purpose
    BY <1>1 DEF SignFails, AttemptFails, GivesUp, Gives
  <2>4. CatalogTypeOK'
    <3>1. NoRequest \in Request BY DEF NoRequest, Request
    <3> QED BY <1>0, <2>1, <2>3, <3>1 DEF CatalogTypeOK
  <2>5. RequestsAreCounted' BY <2>1, <2>2, <2>3 DEF RequestsAreCounted, CatalogTypeOK
  <2>6. CatalogInv' BY <1>0, <2>1, <2>3, <2>5 DEF CatalogInv, RequestsAreCounted, CatalogTypeOK
  <2>7. QueueIsOfAnswer' BY <1>0, <2>2, <2>3 DEF QueueIsOfAnswer
  <2> QED BY <2>4, <2>5, <2>6, <2>7
<1>2. CASE Sign \/ Retry
  <2>1. \E host \in {"base", "zing"}, at \in {"answer", "retry"} :
           /\ Requests(host, at)
           /\ catalogAt = (IF at = "answer" THEN "sign" ELSE "answer")
    <3>1. CASE Sign BY <3>1 DEF Sign
    <3>2. CASE Retry
      <4>1. PICK url \in Url : IsSafeApiRetry(url) /\ Requests(ResolveUrl(url).host, "retry")
        BY <3>2 DEF Retry
      <4>2. url.host \in {"base", "zing"}
        BY <4>1 DEF IsSafeApiRetry, HttpsHost, Url
      <4>3. ResolveUrl(url).host = url.host BY DEF ResolveUrl
      <4> QED BY <3>2, <4>1, <4>2, <4>3 DEF Retry
    <3> QED BY <1>2, <3>1, <3>2
  <2>2. PICK host \in {"base", "zing"}, at \in {"answer", "retry"} :
           /\ Requests(host, at)
           /\ catalogAt = (IF at = "answer" THEN "sign" ELSE "answer")
    BY <2>1
  <2>3. catalogAt' = at /\ requests' = requests + 1 BY <2>2 DEF Requests
  <2>4. sending' \in Request /\ wandered' \in BOOLEAN /\ ~wandered'
    BY <2>2, RequestsStay DEF CatalogInv
  <2>5. UNCHANGED <<purpose, attempt>> BY <1>2 DEF Sign, Retry
  <2>6. RequestsAreCounted' BY <2>2, <2>3, <2>5 DEF RequestsAreCounted, CatalogTypeOK
  <2>7. CatalogTypeOK'
    <3>1. requests' \in 0 .. 8 BY <2>2, <2>3, <2>5, <2>6 DEF RequestsAreCounted, CatalogTypeOK
    <3> QED BY <1>0, <2>3, <2>4, <2>5, <3>1 DEF CatalogTypeOK
  <2>8. CatalogInv' BY <1>0, <2>4, <2>5, <2>6, <2>7 DEF CatalogInv, RequestsAreCounted, CatalogTypeOK
  <2>9. QueueIsOfAnswer' BY <1>0, <2>2, <2>3, <2>5 DEF QueueIsOfAnswer
  <2> QED BY <2>6, <2>7, <2>8, <2>9
<1> QED BY <1>1, <1>2

(* A search is answered, and what it found is played.                      *)
LEMMA SearchInv ==
  ASSUME CatalogIndInv, SearchAnswered \/ PlayFound PROVE CatalogIndInv'
<1> USE DEF CatalogIndInv
<1>0. UNCHANGED <<cookies, requests, wandered, stream>> BY DEF SearchAnswered, PlayFound
<1>1. CASE SearchAnswered
  <2>1. PICK entries \in CatalogEntries :
           /\ answer' = entries /\ found' = Hits(entries)
           /\ IF Hits(entries) = <<>> THEN GivesUp ELSE Gives("play", purpose)
    BY <1>1 DEF SearchAnswered
  <2>2. catalogAt \in {"answer", "retry"} /\ purpose \in {"multi", "typed"} /\ queued' = queued
    BY <1>1 DEF SearchAnswered
  <2>3. /\ sending' = NoRequest /\ attempt' = 0
        /\ \/ catalogAt' = "sign" /\ purpose = "multi" /\ purpose' = "typed"
           \/ catalogAt' \in {"idle", "play"} /\ purpose' = purpose
    BY <2>1, <2>2 DEF GivesUp, Gives
  <2>4. queued' = <<>> BY <2>2 DEF QueueIsOfAnswer
  <2>5. CatalogTypeOK'
    <3>1. NoRequest \in Request BY DEF NoRequest, Request
    <3>2. found' \in Seq(Track) /\ queued' \in Seq(Track) BY <2>1, <2>4, HitsAreTracks, EmptySeq
    <3> QED BY <1>0, <2>1, <2>2, <2>3, <3>1, <3>2 DEF CatalogTypeOK
  <2>6. RequestsAreCounted' BY <1>0, <2>2, <2>3 DEF RequestsAreCounted, CatalogTypeOK
  <2>7. CatalogInv' BY <1>0, <2>3, <2>5, <2>6 DEF CatalogInv, RequestsAreCounted, CatalogTypeOK
  <2>8. QueueIsOfAnswer' BY <2>1, <2>4 DEF QueueIsOfAnswer
  <2> QED BY <2>5, <2>6, <2>7, <2>8
<1>2. CASE PlayFound
  <2>1. /\ catalogAt = "play" /\ catalogAt' = "idle" /\ found' = <<>> /\ queued' = Playable(found)
        /\ UNCHANGED <<purpose, attempt, sending, answer>>
    BY <1>2 DEF PlayFound
  <2>2. CatalogTypeOK'
    <3>1. queued' \in Seq(Track) /\ found' \in Seq(Track)
      BY <2>1, EmptySeq, PlayableAreTracks DEF CatalogTypeOK
    <3> QED BY <1>0, <2>1, <3>1 DEF CatalogTypeOK
  <2>3. RequestsAreCounted' BY <1>0, <2>1 DEF RequestsAreCounted
  <2>4. CatalogInv' BY <1>0, <2>1 DEF CatalogInv
  <2>5. QueueIsOfAnswer' BY <2>1 DEF QueueIsOfAnswer
  <2> QED BY <2>2, <2>3, <2>4, <2>5
<1> QED BY <1>1, <1>2

(* A stream's address is https and of a host that may be asked.            *)
LEMMA StreamInv == ASSUME CatalogIndInv, StreamAnswered PROVE CatalogIndInv'
<1> USE DEF CatalogIndInv
<1>0. /\ UNCHANGED <<cookies, requests, wandered, answer, found, queued>>
      /\ catalogAt' = "idle" /\ purpose' = purpose /\ attempt' = 0 /\ sending' = NoRequest
  BY DEF StreamAnswered, Gives
<1>1. PICK url \in Url \cup {NoUrl} :
         stream' = IF url # NoUrl /\ IsSafeZingAssetUrl(url) THEN ResolveUrl(url) ELSE NoUrl
  BY DEF StreamAnswered
<1>2. stream' \in Url \cup {NoUrl}
      /\ (stream' # NoUrl => stream'.form = "https" /\ stream'.host \in {"base", "zing", "cdn"})
  <2>1. CASE url # NoUrl /\ IsSafeZingAssetUrl(url)
    <3>1. url \in Url /\ url.form # "http"
      BY <2>1 DEF IsSafeZingAssetUrl, HttpsHost, ResolveUrl
    <3>2. stream' = [form |-> "https", host |-> url.host] BY <1>1, <2>1, <3>1 DEF ResolveUrl
    <3>3. url.host \in {"base", "zing", "cdn"}
      BY <2>1, <3>1 DEF IsSafeZingAssetUrl, HttpsHost, ResolveUrl
    <3> QED BY <3>2, <3>3 DEF Url
  <2>2. CASE ~(url # NoUrl /\ IsSafeZingAssetUrl(url)) BY <1>1, <2>2
  <2> QED BY <2>1, <2>2
<1>3. CatalogTypeOK'
  <2>1. NoRequest \in Request BY DEF NoRequest, Request
  <2> QED BY <1>0, <1>2, <2>1 DEF CatalogTypeOK
<1>4. RequestsAreCounted' BY <1>0 DEF RequestsAreCounted
<1>5. CatalogInv' BY <1>0, <1>2 DEF CatalogInv
<1>6. QueueIsOfAnswer' BY <1>0 DEF QueueIsOfAnswer
<1> QED BY <1>3, <1>4, <1>5, <1>6

(* However the service answers, a call makes at most four requests, a      *)
(* search eight, and cookies stay with Zing.                               *)
THEOREM CatalogInvariant == CatalogSpec => []CatalogIndInv
<1>1. CatalogInit => CatalogIndInv
  <2> SUFFICES ASSUME CatalogInit PROVE CatalogIndInv
    OBVIOUS
  <2>1. CatalogTypeOK
    <3>1. cookies \in BOOLEAN /\ wandered \in BOOLEAN BY Zenon DEF CatalogInit
    <3>2. NoRequest \in Request BY DEF NoRequest, Request
    <3>3. answer \in CatalogEntries /\ found \in Seq(Track) /\ queued \in Seq(Track)
      BY EmptySeq, NoEntries DEF CatalogInit
    <3> QED BY <3>1, <3>2, <3>3 DEF CatalogInit, CatalogTypeOK
  <2>2. CatalogInv /\ RequestsAreCounted /\ QueueIsOfAnswer
    BY DEF CatalogInit, CatalogInv, RequestsAreCounted, QueueIsOfAnswer
  <2> QED BY <2>1, <2>2 DEF CatalogIndInv
<1>2. CatalogIndInv /\ [CatalogNext]_catalogVars => CatalogIndInv'
  <2>1. ASSUME CatalogIndInv, UNCHANGED catalogVars PROVE CatalogIndInv'
    BY <2>1 DEF catalogVars, CatalogIndInv, CatalogTypeOK, CatalogInv, RequestsAreCounted, QueueIsOfAnswer
  <2> QED BY <2>1, CallInv, AttemptInv, SearchInv, StreamInv DEF CatalogNext
<1> QED BY <1>1, <1>2, PTL DEF CatalogSpec

(* The queue keeps the order of the answer, without a track twice, one     *)
(* that is premium or a gap, for an answer of any length.                  *)
THEOREM QueueIsPlayableHolds == CatalogSpec => []QueueIsPlayable
<1>1. CatalogIndInv => QueueIsPlayable
  <2> SUFFICES ASSUME CatalogIndInv, queued # <<>> PROVE QueueIsPlayable
    BY DEF QueueIsPlayable
  <2>1. answer \in CatalogEntries /\ queued = Playable(Hits(answer))
    BY DEF CatalogIndInv, CatalogTypeOK, QueueIsOfAnswer
  <2> QED BY <2>1, QueueKeepsOrder DEF QueueIsPlayable
<1> QED BY <1>1, CatalogInvariant, PTL

-----------------------------------------------------------------------------
(* The tools' stores.                                                      *)
USE StoresAssumption DEF StoresAssumption

InMemoryTool(w) == doing[w] \in {"memory", "write"}

Promised(i) == <<"fact", i>> \in promised

(* The memory of the user under its mutex: whoever edits it holds the      *)
(* mutex and has every promised fact in the list it is about to write.     *)
FactsIndInv ==
  /\ doing \in [Writers -> {"idle", "remind", "event", "index", "reminded", "noted", "memory",
                            "write"}]
  /\ DOMAIN edited = Writers /\ DOMAIN item = Writers
  /\ itemsAsked \in Nat
  /\ \A w \in Writers : InMemoryTool(w) => factsLock = w
  /\ factsTorn => damaged \/ \E w \in Writers : factsLock = w /\ doing[w] = "write"
  /\ \A w \in Writers : doing[w] = "idle" => item[w] = 0
  /\ \A w \in Writers : InMemoryTool(w) /\ item[w] # 0 => \E e \in edited[w] : e.item = item[w]
  /\ ~damaged => \A w \in Writers : InMemoryTool(w) =>
       \A i \in Items : Promised(i) => \E e \in edited[w] : e.item = i
  /\ FactsAreKept

SettingsStep(w) ==
  \/ ReadReminders(w) \/ ReadDay(w) \/ SetReminders(w) \/ SetDay(w) \/ SetIndex(w)
  \/ SettingsReply(w)

(* A tool that changes settings leaves the memory and its mutex alone, and *)
(* promises no fact.                                                       *)
LEMMA SettingsFrame ==
  ASSUME FactsIndInv, NEW w \in Writers, SettingsStep(w)
  PROVE  /\ UNCHANGED <<facts, factsTorn, factsLock, damaged>>
         /\ \A i : Promised(i)' <=> Promised(i)
         /\ itemsAsked' \in Nat
<1>1. CASE ReadReminders(w)
  <2>1. itemsAsked' \in Nat BY <1>1 DEF ReadReminders, TakesItem, FactsIndInv
  <2> QED BY <1>1, <2>1 DEF ReadReminders, Promised
<1>2. CASE ReadDay(w) BY <1>2 DEF ReadDay, TakesItem, Promised, FactsIndInv
<1>3. CASE SetReminders(w) \/ SetDay(w) \/ SetIndex(w)
  BY <1>3 DEF SetReminders, SetDay, SetIndex, Promised, FactsIndInv
<1>4. CASE SettingsReply(w)
  <2>1. promised' = promised \/ promised' = promised \cup {<<"reminder", item[w]>>}
    BY <1>4 DEF SettingsReply, Promise
  <2>2. \A i : <<"fact", i>> # <<"reminder", item[w]>> OBVIOUS
  <2>3. \A i : Promised(i)' <=> Promised(i) BY <2>1, <2>2 DEF Promised
  <2> QED BY <1>4, <2>3 DEF SettingsReply, FactsIndInv
<1> QED BY <1>1, <1>2, <1>3, <1>4 DEF SettingsStep

(* It moves between the steps that need no mutex of the memory.            *)
LEMMA SettingsMoves ==
  ASSUME FactsIndInv, NEW w \in Writers, SettingsStep(w)
  PROVE  /\ doing' \in [Writers -> {"idle", "remind", "event", "index", "reminded", "noted",
                                    "memory", "write"}]
         /\ DOMAIN edited' = Writers /\ DOMAIN item' = Writers
         /\ \A u \in Writers : u # w => /\ doing'[u] = doing[u] /\ edited'[u] = edited[u]
                                        /\ item'[u] = item[u]
         /\ doing'[w] \notin {"memory", "write"}
         /\ doing'[w] = "idle" => item'[w] = 0
         /\ doing[w] \notin {"memory", "write"}
<1>0. /\ doing \in [Writers -> {"idle", "remind", "event", "index", "reminded", "noted",
                                "memory", "write"}]
      /\ DOMAIN edited = Writers /\ DOMAIN item = Writers
      /\ doing[w] = "idle" => item[w] = 0
  BY DEF FactsIndInv
<1>1. CASE ReadReminders(w)
  <2>1. doing[w] = "idle" /\ doing' = [doing EXCEPT ![w] = "remind"]
    BY <1>1 DEF ReadReminders, Begin
  <2>2. PICK value : edited' = [edited EXCEPT ![w] = value] BY <1>1 DEF ReadReminders, Begin
  <2>3. item' = item \/ item' = [item EXCEPT ![w] = itemsAsked + 1]
    BY <1>1 DEF ReadReminders, TakesItem
  <2> QED BY <1>0, <2>1, <2>2, <2>3
<1>2. CASE ReadDay(w) BY <1>0, <1>2 DEF ReadDay, Begin, TakesItem
<1>3. CASE SetReminders(w) BY <1>0, <1>3 DEF SetReminders
<1>4. CASE SetDay(w) BY <1>0, <1>4 DEF SetDay
<1>5. CASE SetIndex(w) BY <1>0, <1>5 DEF SetIndex
<1>6. CASE SettingsReply(w) BY <1>0, <1>6 DEF SettingsReply, Finish
<1> QED BY <1>1, <1>2, <1>3, <1>4, <1>5, <1>6 DEF SettingsStep

(* So the settings cannot lose a fact.                                     *)
LEMMA SettingsKeepFacts ==
  ASSUME FactsIndInv, NEW w \in Writers, SettingsStep(w) PROVE FactsIndInv'
<1>1. /\ UNCHANGED <<facts, factsTorn, factsLock, damaged>>
      /\ \A i : Promised(i)' <=> Promised(i)
      /\ itemsAsked' \in Nat
  BY SettingsFrame
<1>2. /\ \A u \in Writers : u # w => /\ doing'[u] = doing[u] /\ edited'[u] = edited[u]
                                     /\ item'[u] = item[u]
      /\ doing'[w] \notin {"memory", "write"}
      /\ doing'[w] = "idle" => item'[w] = 0
      /\ doing[w] \notin {"memory", "write"}
  BY SettingsMoves
<1>3. \A u \in Writers : InMemoryTool(u)' => u # w /\ InMemoryTool(u)
  BY <1>2 DEF InMemoryTool
<1>4. (\A u \in Writers : InMemoryTool(u) => factsLock = u)' BY <1>1, <1>3 DEF FactsIndInv
<1>5. (factsTorn => damaged \/ \E u \in Writers : factsLock = u /\ doing[u] = "write")'
  BY <1>1, <1>2 DEF FactsIndInv
<1>6. (\A u \in Writers : doing[u] = "idle" => item[u] = 0)' BY <1>2 DEF FactsIndInv
<1>7. (\A u \in Writers : InMemoryTool(u) /\ item[u] # 0 =>
         \E e \in edited[u] : e.item = item[u])'
  BY <1>2, <1>3 DEF FactsIndInv
<1>8. (~damaged => \A u \in Writers : InMemoryTool(u) =>
         \A i \in Items : Promised(i) => \E e \in edited[u] : e.item = i)'
  BY <1>1, <1>2, <1>3 DEF FactsIndInv
<1>9. FactsAreKept' BY <1>1 DEF FactsIndInv, FactsAreKept, Promised
<1> QED BY <1>1, SettingsMoves, <1>4, <1>5, <1>6, <1>7, <1>8, <1>9 DEF FactsIndInv

(* Whoever takes the mutex sees the whole memory, unless a crash tore it,  *)
(* and the fact it forgets is no longer promised.                          *)
LEMMA LoadMemoryKeeps ==
  ASSUME FactsIndInv, NEW w \in Writers, LoadMemory(w) PROVE FactsIndInv'
<1>0. UNCHANGED <<facts, factsTorn, damaged>> /\ factsLock = Nobody /\ factsLock' = w
  BY DEF LoadMemory
<1>1. doing[w] = "idle" /\ doing' = [doing EXCEPT ![w] = "memory"] BY DEF LoadMemory, Begin
<1>2. PICK value : edited' = [edited EXCEPT ![w] = value] BY DEF LoadMemory, Begin
<1>3. \A u \in Writers : ~InMemoryTool(u) BY <1>0 DEF FactsIndInv
<1>4. doing \in [Writers -> {"idle", "remind", "event", "index", "reminded", "noted", "memory",
                            "write"}] /\ DOMAIN edited = Writers /\ DOMAIN item = Writers
  BY DEF FactsIndInv
<1>5. \A u \in Writers : u # w => doing'[u] = doing[u] /\ edited'[u] = edited[u]
  BY <1>1, <1>2, <1>4
<1>6. doing'[w] = "memory" /\ edited'[w] = value BY <1>1, <1>2, <1>4
<1>7. ~damaged => Remembered = facts
  BY <1>0, <1>3 DEF FactsIndInv, Remembered, InMemoryTool
<1>8. /\ DOMAIN item' = Writers /\ itemsAsked' \in Nat
      /\ \A u \in Writers : u # w => item'[u] = item[u]
      /\ item'[w] # 0 => \E e \in value : e.item = item'[w]
      /\ \A i \in Items : Promised(i)' => Promised(i)
      /\ ~damaged => \A i \in Items : Promised(i)' => \E e \in value : e.item = i
  <2>1. CASE /\ TakesItem(w) /\ Begin(w, "memory", Added(Remembered, itemsAsked + 1))
             /\ UNCHANGED promised
    <3>1. value = Remembered \cup {[id |-> FreeId(Remembered), item |-> itemsAsked + 1,
                                    done |-> FALSE]}
      BY <1>4, <1>6, <2>1 DEF Begin, Added
    <3>2. \E e \in value : e.item = itemsAsked + 1
      <4>1. [id |-> FreeId(Remembered), item |-> itemsAsked + 1, done |-> FALSE] \in value
        BY <3>1
      <4>2. [id |-> FreeId(Remembered), item |-> itemsAsked + 1, done |-> FALSE].item
              = itemsAsked + 1
        OBVIOUS
      <4> QED BY <4>1, <4>2
    <3>3. DOMAIN item' = Writers /\ itemsAsked' \in Nat /\ item'[w] = itemsAsked + 1
          /\ \A u \in Writers : u # w => item'[u] = item[u]
      BY <1>4, <2>1 DEF TakesItem, FactsIndInv
    <3>4. \A i \in Items : Promised(i)' => Promised(i) BY <2>1 DEF Promised
    <3>5. ~damaged => \A i \in Items : Promised(i) => \E e \in value : e.item = i
      <4>1. ~damaged => ~factsTorn BY <1>0, <1>3 DEF FactsIndInv, InMemoryTool
      <4>2. ~damaged => \A i \in Items : Promised(i) => \E e \in facts : e.item = i
        BY <4>1 DEF FactsIndInv, FactsAreKept, Promised
      <4>3. ~damaged => facts \subseteq value BY <1>7, <3>1
      <4> QED BY <4>2, <4>3
    <3> QED BY <3>2, <3>3, <3>4, <3>5
  <2>2. CASE /\ \E e \in Remembered : /\ Begin(w, "memory", Remembered \ {e})
                                      /\ promised' = promised \ {<<"fact", e.item>>}
             /\ UNCHANGED <<itemsAsked, item>>
    <3>1. PICK gone \in Remembered : /\ Begin(w, "memory", Remembered \ {gone})
                                     /\ promised' = promised \ {<<"fact", gone.item>>}
      BY <2>2
    <3>2. value = Remembered \ {gone} BY <1>4, <1>6, <3>1 DEF Begin
    <3>3. \A i \in Items : Promised(i)' => Promised(i) /\ i # gone.item BY <3>1 DEF Promised
    <3>4. ~damaged => \A i \in Items : Promised(i)' => \E e \in value : e.item = i
      <4>1. ~damaged => ~factsTorn BY <1>0, <1>3 DEF FactsIndInv, InMemoryTool
      <4>2. ~damaged => \A i \in Items : Promised(i) => \E e \in facts : e.item = i
        BY <4>1 DEF FactsIndInv, FactsAreKept, Promised
      <4> QED BY <1>7, <3>2, <3>3, <4>2
    <3>5. item'[w] = 0 BY <1>1, <2>2 DEF FactsIndInv
    <3> QED BY <1>4, <2>2, <3>3, <3>4, <3>5 DEF FactsIndInv
  <2> QED BY <2>1, <2>2 DEF LoadMemory
<1>9. \A u \in Writers : InMemoryTool(u)' => u = w BY <1>3, <1>5 DEF InMemoryTool
<1>10. doing' \in [Writers -> {"idle", "remind", "event", "index", "reminded", "noted",
                               "memory", "write"}] /\ DOMAIN edited' = Writers
  BY <1>1, <1>2, <1>4
<1>11. (\A u \in Writers : InMemoryTool(u) => factsLock = u)' BY <1>0, <1>9
<1>12. factsTorn => damaged BY <1>0, <1>3 DEF FactsIndInv, InMemoryTool
<1>13. (\A u \in Writers : doing[u] = "idle" => item[u] = 0)'
  BY <1>5, <1>6, <1>8 DEF FactsIndInv
<1>14. (\A u \in Writers : InMemoryTool(u) /\ item[u] # 0 =>
          \E e \in edited[u] : e.item = item[u])'
  BY <1>6, <1>8, <1>9
<1>15. (~damaged => \A u \in Writers : InMemoryTool(u) =>
          \A i \in Items : Promised(i) => \E e \in edited[u] : e.item = i)'
  BY <1>0, <1>6, <1>8, <1>9
<1>16. FactsAreKept' BY <1>0, <1>8 DEF FactsIndInv, FactsAreKept, Promised
<1> QED BY <1>0, <1>8, <1>10, <1>11, <1>12, <1>13, <1>14, <1>15, <1>16 DEF FactsIndInv

(* The file is torn while the mutex is held, ...                           *)
LEMMA TruncateKeeps ==
  ASSUME FactsIndInv, NEW w \in Writers, TruncateMemory(w) PROVE FactsIndInv'
<1>0. /\ UNCHANGED <<damaged, factsLock, edited, item, itemsAsked, promised>>
      /\ factsTorn' /\ doing[w] = "memory" /\ doing' = [doing EXCEPT ![w] = "write"]
  BY DEF TruncateMemory
<1>1. doing \in [Writers -> {"idle", "remind", "event", "index", "reminded", "noted", "memory",
                            "write"}]
  BY DEF FactsIndInv
<1>2. \A u \in Writers : doing'[u] = IF u = w THEN "write" ELSE doing[u] BY <1>0, <1>1
<1>3. \A u \in Writers : InMemoryTool(u)' <=> InMemoryTool(u) BY <1>0, <1>2 DEF InMemoryTool
<1>4. factsLock' = w BY <1>0 DEF FactsIndInv, InMemoryTool
<1>5. \A i : Promised(i)' <=> Promised(i) BY <1>0 DEF Promised
<1>6. doing' \in [Writers -> {"idle", "remind", "event", "index", "reminded", "noted", "memory",
                             "write"}]
  BY <1>0, <1>1
<1>7. (\A u \in Writers : doing[u] = "idle" => item[u] = 0)' BY <1>0, <1>2 DEF FactsIndInv
<1>8. FactsAreKept' BY <1>0 DEF FactsAreKept
<1> QED BY <1>0, <1>2, <1>3, <1>4, <1>5, <1>6, <1>7, <1>8 DEF FactsIndInv

(* ... and whole again when it is released, with the fact that is promised *)
(* then.                                                                   *)
LEMMA WriteKeeps ==
  ASSUME FactsIndInv, NEW w \in Writers, WriteMemory(w) PROVE FactsIndInv'
<1>0. /\ UNCHANGED <<damaged, itemsAsked>> /\ doing[w] = "write"
      /\ facts' = edited[w] /\ factsTorn' = FALSE /\ factsLock' = Nobody
      /\ doing' = [doing EXCEPT ![w] = "idle"] /\ edited' = [edited EXCEPT ![w] = {}]
      /\ item' = [item EXCEPT ![w] = 0]
  BY DEF WriteMemory, Finish
<1>1. doing \in [Writers -> {"idle", "remind", "event", "index", "reminded", "noted", "memory",
                            "write"}] /\ DOMAIN edited = Writers /\ DOMAIN item = Writers
  BY DEF FactsIndInv
<1>2. doing' \in [Writers -> {"idle", "remind", "event", "index", "reminded", "noted", "memory",
                             "write"}] /\ DOMAIN edited' = Writers /\ DOMAIN item' = Writers
  BY <1>0, <1>1
<1>3. \A u \in Writers : ~InMemoryTool(u)'
  <2>1. InMemoryTool(w) BY <1>0 DEF InMemoryTool
  <2>2. \A u \in Writers : u # w => ~InMemoryTool(u) BY <2>1 DEF FactsIndInv
  <2>3. \A u \in Writers : doing'[u] = IF u = w THEN "idle" ELSE doing[u] BY <1>0, <1>1
  <2> QED BY <2>2, <2>3 DEF InMemoryTool
<1>4. (\A u \in Writers : doing[u] = "idle" => item[u] = 0)'
  BY <1>0, <1>1 DEF FactsIndInv
<1>5. FactsAreKept'
  <2>1. CASE damaged BY <1>0, <2>1 DEF FactsAreKept
  <2>2. CASE ~damaged
    <3>1. InMemoryTool(w) BY <1>0 DEF InMemoryTool
    <3>2. \A i \in Items : Promised(i) => \E e \in edited[w] : e.item = i
      BY <2>2, <3>1 DEF FactsIndInv
    <3>3. item[w] # 0 => \E e \in edited[w] : e.item = item[w] BY <3>1 DEF FactsIndInv
    <3>4. \A i \in Items : <<"fact", i>> \in promised' => Promised(i) \/ (item[w] # 0 /\ i = item[w])
      BY DEF WriteMemory, Promise, Promised
    <3>5. \A i \in Items : <<"fact", i>> \in promised' => \E e \in edited[w] : e.item = i
      BY <3>2, <3>3, <3>4
    <3> QED BY <1>0, <3>5 DEF FactsAreKept
  <2> QED BY <2>1, <2>2
<1> QED BY <1>0, <1>2, <1>3, <1>4, <1>5 DEF FactsIndInv

(* A crash that tore the file is remembered as damage.                     *)
LEMMA RebootKeeps == ASSUME FactsIndInv, Reboot PROVE FactsIndInv'
<1>0. /\ UNCHANGED <<facts, factsTorn, promised, itemsAsked>>
      /\ damaged' = (damaged \/ kvSaver # Nobody \/ factsTorn)
      /\ doing' = [w \in Writers |-> "idle"] /\ edited' = [w \in Writers |-> {}]
      /\ item' = [w \in Writers |-> 0]
  BY DEF Reboot
<1>1. \A u \in Writers : ~InMemoryTool(u)' BY <1>0 DEF InMemoryTool
<1>2. FactsAreKept' BY <1>0 DEF FactsIndInv, FactsAreKept
<1>3. \A i : Promised(i)' <=> Promised(i) BY <1>0 DEF Promised
<1> QED BY <1>0, <1>1, <1>2 DEF FactsIndInv

LEMMA FactsStart == StoresInit => FactsIndInv
<1> SUFFICES ASSUME StoresInit PROVE FactsIndInv
  OBVIOUS
<1>1. \A u \in Writers : ~InMemoryTool(u) BY DEF StoresInit, InMemoryTool
<1>2. FactsAreKept BY DEF StoresInit, FactsAreKept
<1> QED BY <1>1, <1>2 DEF StoresInit, FactsIndInv

LEMMA FactsStep == ASSUME FactsIndInv, [StoresNext]_storesVars PROVE FactsIndInv'
<1>1. CASE UNCHANGED storesVars
  BY <1>1 DEF storesVars, FactsIndInv, InMemoryTool, Promised, FactsAreKept
<1>2. CASE SettingsSaved
  BY <1>2 DEF SettingsSaved, FactsIndInv, InMemoryTool, Promised, FactsAreKept
<1>3. ASSUME NEW w \in Writers,
             SettingsStep(w) \/ LoadMemory(w) \/ TruncateMemory(w) \/ WriteMemory(w)
      PROVE  FactsIndInv'
  BY <1>3, SettingsKeepFacts, LoadMemoryKeeps, TruncateKeeps, WriteKeeps
<1>4. CASE Reboot BY <1>4, RebootKeeps
<1> QED BY <1>1, <1>2, <1>3, <1>4 DEF StoresNext, SettingsStep

(* Every writer that edits the memory holds its mutex and all that was     *)
(* promised, in every reachable state.                                     *)
THEOREM FactsInvariant == StoresSpec => []FactsIndInv
BY FactsStart, FactsStep, PTL DEF StoresSpec

(* A fact whose caller was told that it is remembered is in the memory     *)
(* until it is forgotten, for any number of writers and of crashes.        *)
THEOREM FactsAreKeptHolds == StoresSpec => []FactsAreKept
<1>1. FactsIndInv => FactsAreKept BY DEF FactsIndInv
<1> QED BY <1>1, FactsInvariant, PTL

-----------------------------------------------------------------------------
(* What the tools keep is lists of entries with their numbers and items,   *)
(* both of which are at most the things asked to be kept so far, and no    *)
(* number twice.                                                           *)
KeptUpTo(n) == [id : 1 .. n, item : 1 .. n, done : BOOLEAN]

IsList(entries, n) == entries \in SUBSET KeptUpTo(n) /\ UniqueIds(entries)

Listed(i, entries) == \E e \in entries : e.item = i

(* The free number is above all there are, and at most one above what was  *)
(* asked.                                                                  *)
LEMMA FreeIdIs ==
  ASSUME NEW n \in 0 .. MaxItems, NEW entries, IsList(entries, n)
  PROVE  FreeId(entries) \in 1 .. n + 1 /\ \A e \in entries : e.id < FreeId(entries)
<1> DEFINE Above == {m \in Nat : 1 <= m /\ \A e \in entries : e.id < m}
<1>1. n \in Nat /\ n <= MaxItems /\ MaxItems \in Nat OBVIOUS
<1>2. \A e \in entries : e.id \in 1 .. n BY DEF IsList, KeptUpTo
<1>3. n + 1 \in Above BY <1>1, <1>2
<1>4. PICK m \in Above : \A k \in Above : m <= k
  <2>1. Above \in SUBSET Nat /\ Above # {} BY <1>3
  <2> HIDE DEF Above
  <2> QED BY <2>1, LeastNumber
<1>5. m \in 1 .. n + 1 BY <1>1, <1>3, <1>4
<1>6. m = 1 \/ \E e \in entries : e.id = m - 1
  <2>1. SUFFICES ASSUME m # 1 PROVE \E e \in entries : e.id = m - 1
    OBVIOUS
  <2>2. m - 1 \in Nat /\ 1 <= m - 1 /\ ~(m <= m - 1) BY <1>5, <2>1
  <2>3. m - 1 \notin Above
    <3> HIDE DEF Above
    <3> QED BY <1>4, <2>2
  <2>4. PICK e \in entries : ~(e.id < m - 1) BY <2>2, <2>3
  <2>5. e.id < m BY <1>4
  <2>6. e.id = m - 1 BY <1>2, <1>5, <2>4, <2>5
  <2> QED BY <2>6
<1>7. m \in 1 .. MaxItems + 1 /\ \A e \in entries : e.id < m BY <1>1, <1>4, <1>5
<1>8. \A k \in 1 .. MaxItems + 1 :
        (\A e \in entries : e.id < k) /\ (k = 1 \/ \E e \in entries : e.id = k - 1) => k = m
  <2> SUFFICES ASSUME NEW k \in 1 .. MaxItems + 1, \A e \in entries : e.id < k,
                      k = 1 \/ \E e \in entries : e.id = k - 1
               PROVE  k = m
    OBVIOUS
  <2>1. k \in Nat /\ 1 <= k BY <1>1
  <2>2. k \in Above BY <2>1
  <2>3. m <= k BY <1>4, <2>2
  <2>4. ~(m < k)
    <3>1. CASE k = 1 BY <1>5, <3>1
    <3>2. CASE \E e \in entries : e.id = k - 1
      <4>1. PICK e \in entries : e.id = k - 1 BY <3>2
      <4>2. e.id < m BY <1>7
      <4> QED BY <1>5, <2>1, <4>1, <4>2
    <3> QED BY <3>1, <3>2
  <2> QED BY <1>5, <2>1, <2>3, <2>4
<1>9. FreeId(entries) = m
  <2> HIDE DEF Above
  <2> QED BY <1>6, <1>7, <1>8 DEF FreeId
<1> QED BY <1>5, <1>7, <1>9

(* An entry is added to a list under a number of its own, ...              *)
LEMMA AddedIsList ==
  ASSUME NEW n \in 0 .. MaxItems, n < MaxItems, NEW entries, IsList(entries, n)
  PROVE  /\ IsList(Added(entries, n + 1), n + 1)
         /\ Listed(n + 1, Added(entries, n + 1))
         /\ \A i : Listed(i, entries) => Listed(i, Added(entries, n + 1))
<1> DEFINE new == [id |-> FreeId(entries), item |-> n + 1, done |-> FALSE]
<1>1. /\ FreeId(entries) \in 1 .. n + 1
      /\ \A e \in entries : e.id < FreeId(entries)
  BY FreeIdIs
<1>2. Added(entries, n + 1) = entries \cup {new} BY DEF Added
<1>3. new \in KeptUpTo(n + 1) /\ new.item = n + 1 /\ new.id = FreeId(entries)
  BY <1>1 DEF KeptUpTo
<1>4. entries \subseteq KeptUpTo(n + 1)
  <2>1. 1 .. n \subseteq 1 .. n + 1 OBVIOUS
  <2> QED BY <2>1 DEF IsList, KeptUpTo
<1>5. \A e \in entries : e.id # new.id
  <2>1. \A e \in entries : e.id \in 1 .. n BY DEF IsList, KeptUpTo
  <2> QED BY <1>1, <1>3, <2>1
<1> HIDE DEF new
<1>6. UniqueIds(entries \cup {new}) BY <1>5 DEF IsList, UniqueIds
<1> QED BY <1>2, <1>3, <1>4, <1>6 DEF IsList, Listed

(* ... completing one keeps all of them, ...                               *)
LEMMA CompletedIsList ==
  ASSUME NEW n \in Nat, NEW entries, IsList(entries, n), NEW id
  PROVE  /\ IsList(Completed(entries, id), n)
         /\ \A i : Listed(i, entries) => Listed(i, Completed(entries, id))
<1> DEFINE after(e) == [e EXCEPT !.done = e.done \/ e.id = id]
<1>1. Completed(entries, id) = {after(e) : e \in entries} BY DEF Completed
<1>2. ASSUME NEW e \in entries
      PROVE  after(e) \in KeptUpTo(n) /\ after(e).id = e.id /\ after(e).item = e.item
  <2>1. e \in [id : 1 .. n, item : 1 .. n, done : BOOLEAN] BY DEF IsList, KeptUpTo
  <2>2. (e.done \/ e.id = id) \in BOOLEAN BY Zenon
  <2> HIDE DEF after
  <2>3. after(e) = [e EXCEPT !.done = e.done \/ e.id = id] BY DEF after
  <2> QED BY <2>1, <2>2, <2>3 DEF KeptUpTo
<1> HIDE DEF after
<1>3. UniqueIds(Completed(entries, id)) BY <1>1, <1>2 DEF IsList, UniqueIds
<1>4. Completed(entries, id) \subseteq KeptUpTo(n) BY <1>1, <1>2
<1>5. \A i : Listed(i, entries) => Listed(i, Completed(entries, id))
  <2> SUFFICES ASSUME NEW i, Listed(i, entries) PROVE Listed(i, Completed(entries, id))
    OBVIOUS
  <2>1. PICK e \in entries : e.item = i BY DEF Listed
  <2>2. after(e) \in Completed(entries, id) /\ after(e).item = i BY <1>1, <1>2, <2>1
  <2> QED BY <2>2 DEF Listed
<1> QED BY <1>3, <1>4, <1>5 DEF IsList

(* ... a part of a list is one, and a list stays one when more is asked.   *)
LEMMA ListGrows ==
  ASSUME NEW n \in Nat, NEW m \in Nat, n <= m, NEW entries, IsList(entries, n),
         NEW sublist \in SUBSET entries
  PROVE  IsList(sublist, m)
<1>1. 1 .. n \subseteq 1 .. m OBVIOUS
<1>2. KeptUpTo(n) \subseteq KeptUpTo(m) BY <1>1 DEF KeptUpTo
<1> QED BY <1>2 DEF IsList, UniqueIds

LEMMA NoListIs == ASSUME NEW n PROVE IsList({}, n)
BY DEF IsList, UniqueIds

-----------------------------------------------------------------------------
(* The settings, in the map and in the file; the memory and what the tools *)
(* edit; what was asked for and promised.                                  *)
IsSettings(s, n) ==
  /\ s \in [reminders : SUBSET KeptUpTo(n), day : SUBSET KeptUpTo(n), index : BOOLEAN]
  /\ IsList(s.reminders, n) /\ IsList(s.day, n)

SettingsAre ==
  /\ IsSettings(kv, itemsAsked) /\ IsSettings(kvFile, itemsAsked)
  /\ kvSaver \in Writers \cup {Nobody}
  /\ kvSaver = Nobody => Reloaded(kvFile) = Reloaded(kv)

ListsAre ==
  /\ IsList(facts, itemsAsked)
  /\ DOMAIN edited = Writers
  /\ edited \in [Writers -> SUBSET KeptUpTo(itemsAsked)]
  /\ \A w \in Writers : IsList(edited[w], itemsAsked)
  /\ factsLock \in Writers \cup {Nobody}

ItemsAre ==
  /\ itemsAsked \in 0 .. MaxItems /\ reboots \in 0 .. MaxReboots
  /\ item \in [Writers -> 0 .. itemsAsked]
  /\ promised \subseteq {"reminder", "fact"} \X (1 .. itemsAsked)

FlagsAre == factsTorn \in BOOLEAN /\ overlap \in BOOLEAN /\ damaged \in BOOLEAN

KeptIndInv == FactsIndInv /\ SettingsAre /\ ListsAre /\ ItemsAre /\ FlagsAre

(* The flags are set by conditions.                                        *)
LEMMA FlagsStay == ASSUME FactsIndInv, FlagsAre, StoresNext PROVE FlagsAre'
<1>1. overlap' \in BOOLEAN
  BY Zenon DEF FlagsAre, StoresNext, ReadReminders, ReadDay, Overlaps, SetReminders, SetDay, SetIndex,
               SettingsReply, LoadMemory, TruncateMemory, WriteMemory, SettingsSaved, Reboot
<1>2. damaged' \in BOOLEAN
  BY Zenon DEF FlagsAre, StoresNext, ReadReminders, ReadDay, Overlaps, SetReminders, SetDay, SetIndex,
               SettingsReply, LoadMemory, TruncateMemory, WriteMemory, SettingsSaved, Reboot
<1>3. factsTorn' \in BOOLEAN
  BY Zenon DEF FlagsAre, StoresNext, ReadReminders, ReadDay, Overlaps, SetReminders, SetDay, SetIndex,
               SettingsReply, LoadMemory, TruncateMemory, WriteMemory, SettingsSaved, Reboot
<1> QED BY <1>1, <1>2, <1>3 DEF FlagsAre

(* A tool begins: more may be asked for, and what it edits is a list.      *)
BeginsWith(w, value) ==
  /\ edited' = [edited EXCEPT ![w] = value] /\ IsList(value, itemsAsked')
  /\ itemsAsked' \in itemsAsked .. MaxItems
  /\ item' = item \/ item' = [item EXCEPT ![w] = itemsAsked']
  /\ promised' \subseteq promised

LEMMA BeginKeeps ==
  ASSUME SettingsAre, ListsAre, ItemsAre, NEW w \in Writers, NEW value, BeginsWith(w, value),
         factsLock' \in Writers \cup {Nobody},
         UNCHANGED <<kv, kvFile, kvSaver, facts, reboots>>
  PROVE  SettingsAre' /\ ListsAre' /\ ItemsAre'
<1>1. /\ itemsAsked \in Nat /\ itemsAsked' \in 0 .. MaxItems /\ itemsAsked' \in Nat
      /\ itemsAsked <= itemsAsked'
  BY DEF ItemsAre, BeginsWith
<1>2. \A entries : IsList(entries, itemsAsked) => IsList(entries, itemsAsked')
  BY <1>1, ListGrows
<1>3. SettingsAre'
  <2>1. KeptUpTo(itemsAsked) \subseteq KeptUpTo(itemsAsked')
    <3>1. 1 .. itemsAsked \subseteq 1 .. itemsAsked' BY <1>1
    <3> QED BY <3>1 DEF KeptUpTo
  <2>2. \A s : IsSettings(s, itemsAsked) => IsSettings(s, itemsAsked')
    BY <1>2, <2>1 DEF IsSettings
  <2>3. IsSettings(kv', itemsAsked') /\ IsSettings(kvFile', itemsAsked')
    BY <2>2 DEF SettingsAre
  <2> QED BY <2>3 DEF SettingsAre
<1>4. ListsAre'
  <2>1. \A u \in Writers : edited'[u] = IF u = w THEN value ELSE edited[u]
    BY DEF ListsAre, BeginsWith
  <2>2. \A u \in Writers : IsList(edited'[u], itemsAsked') BY <1>2, <2>1 DEF ListsAre, BeginsWith
  <2>3. edited' \in [Writers -> SUBSET KeptUpTo(itemsAsked')]
    <3>1. \A u \in Writers : edited'[u] \in SUBSET KeptUpTo(itemsAsked') BY <2>2 DEF IsList
    <3>2. edited' = [u \in Writers |-> edited'[u]] BY DEF ListsAre, BeginsWith
    <3> QED BY <3>1, <3>2
  <2>4. IsList(facts', itemsAsked') BY <1>2 DEF ListsAre
  <2> QED BY <2>2, <2>3, <2>4 DEF ListsAre, BeginsWith
<1>5. ItemsAre'
  <2>1. 0 .. itemsAsked \subseteq 0 .. itemsAsked' /\ 1 .. itemsAsked \subseteq 1 .. itemsAsked'
        /\ itemsAsked' \in 0 .. itemsAsked'
    BY <1>1
  <2>2. item' \in [Writers -> 0 .. itemsAsked'] BY <2>1 DEF ItemsAre, BeginsWith
  <2>3. promised' \subseteq {"reminder", "fact"} \X (1 .. itemsAsked') BY <2>1 DEF ItemsAre, BeginsWith
  <2> QED BY <1>1, <2>2, <2>3 DEF ItemsAre
<1> QED BY <1>3, <1>4, <1>5

(* The tools begin with a list they have edited.                           *)
LEMMA BeginsKeep ==
  ASSUME KeptIndInv, NEW w \in Writers, ReadReminders(w) \/ ReadDay(w) \/ LoadMemory(w)
  PROVE  SettingsAre' /\ ListsAre' /\ ItemsAre'
<1>1. /\ itemsAsked \in 0 .. MaxItems /\ itemsAsked \in Nat /\ itemsAsked \in itemsAsked .. MaxItems
      /\ itemsAsked < MaxItems => itemsAsked + 1 \in itemsAsked .. MaxItems
  BY DEF KeptIndInv, ItemsAre
<1>2. SettingsAre /\ ListsAre /\ ItemsAre BY DEF KeptIndInv
<1>3. UNCHANGED <<kv, kvFile, kvSaver, facts, reboots>>
  BY DEF ReadReminders, ReadDay, LoadMemory
<1>4. factsLock' \in Writers \cup {Nobody}
  BY <1>2 DEF ListsAre, ReadReminders, ReadDay, LoadMemory
<1>5. IsList(kv.reminders, itemsAsked) /\ IsList(kv.day, itemsAsked) /\ IsList(Remembered, itemsAsked)
  BY <1>2, NoListIs DEF SettingsAre, IsSettings, ListsAre, Remembered
<1>6. \E value : BeginsWith(w, value)
  <2>1. ASSUME NEW entries, IsList(entries, itemsAsked), NEW step, TakesItem(w),
               Begin(w, step, Added(entries, itemsAsked + 1)), UNCHANGED promised
        PROVE  \E value : BeginsWith(w, value)
    <3> DEFINE value == Added(entries, itemsAsked + 1)
    <3>1. /\ edited' = [edited EXCEPT ![w] = value] /\ itemsAsked < MaxItems
          /\ itemsAsked' = itemsAsked + 1 /\ item' = [item EXCEPT ![w] = itemsAsked']
      BY <2>1 DEF Begin, TakesItem
    <3>2. IsList(value, itemsAsked') BY <1>1, <2>1, <3>1, AddedIsList
    <3> HIDE DEF value
    <3> QED BY <1>1, <2>1, <3>1, <3>2 DEF BeginsWith
  <2>2. CASE ReadReminders(w)
    <3>1. CASE TakesItem(w) /\ Begin(w, "remind", Added(kv.reminders, itemsAsked + 1))
      <4>1. UNCHANGED promised BY <2>2 DEF ReadReminders
      <4> QED BY <1>5, <2>1, <3>1, <4>1
    <3>2. CASE /\ \E e \in kv.reminders : ~e.done /\ Begin(w, "remind", Completed(kv.reminders, e.id))
               /\ UNCHANGED <<itemsAsked, item>>
      <4>1. PICK e \in kv.reminders : Begin(w, "remind", Completed(kv.reminders, e.id)) BY <3>2
      <4>2. IsList(Completed(kv.reminders, e.id), itemsAsked) BY <1>1, <1>5, CompletedIsList
      <4>3. edited' = [edited EXCEPT ![w] = Completed(kv.reminders, e.id)] BY <4>1 DEF Begin
      <4>4. UNCHANGED promised BY <2>2 DEF ReadReminders
      <4> QED BY <1>1, <3>2, <4>2, <4>3, <4>4 DEF BeginsWith
    <3> QED BY <2>2, <3>1, <3>2 DEF ReadReminders
  <2>3. CASE ReadDay(w)
    <3>1. /\ TakesItem(w) /\ Begin(w, "event", Added(kv.day, itemsAsked + 1)) /\ UNCHANGED promised
      BY <2>3 DEF ReadDay
    <3> QED BY <1>5, <2>1, <3>1
  <2>4. CASE LoadMemory(w)
    <3>1. CASE TakesItem(w) /\ Begin(w, "memory", Added(Remembered, itemsAsked + 1)) /\ UNCHANGED promised
      BY <1>5, <2>1, <3>1
    <3>2. CASE /\ \E e \in Remembered : /\ Begin(w, "memory", Remembered \ {e})
                                        /\ promised' = promised \ {<<"fact", e.item>>}
               /\ UNCHANGED <<itemsAsked, item>>
      <4>1. PICK e \in Remembered : /\ Begin(w, "memory", Remembered \ {e})
                                    /\ promised' = promised \ {<<"fact", e.item>>}
        BY <3>2
      <4>2. IsList(Remembered \ {e}, itemsAsked) BY <1>1, <1>5, ListGrows
      <4>3. edited' = [edited EXCEPT ![w] = Remembered \ {e}] BY <4>1 DEF Begin
      <4> QED BY <1>1, <3>2, <4>1, <4>2, <4>3 DEF BeginsWith
    <3> QED BY <2>4, <3>1, <3>2 DEF LoadMemory
  <2> QED BY <2>2, <2>3, <2>4
<1> QED BY <1>2, <1>3, <1>4, <1>6, BeginKeeps

(* A tool ends: it edits nothing.                                          *)
LEMMA EmptiesKeep ==
  ASSUME ListsAre, ItemsAre, NEW w \in Writers, Finish(w)
  PROVE  /\ DOMAIN edited' = Writers
         /\ edited' \in [Writers -> SUBSET KeptUpTo(itemsAsked)]
         /\ \A u \in Writers : IsList(edited'[u], itemsAsked)
         /\ item' \in [Writers -> 0 .. itemsAsked]
<1>1. edited' = [edited EXCEPT ![w] = {}] /\ item' = [item EXCEPT ![w] = 0] BY DEF Finish
<1>2. 0 \in 0 .. itemsAsked BY DEF ItemsAre
<1>3. \A u \in Writers : edited'[u] = IF u = w THEN {} ELSE edited[u] BY <1>1 DEF ListsAre
<1>4. \A u \in Writers : IsList(edited'[u], itemsAsked) BY <1>3, NoListIs DEF ListsAre
<1> QED BY <1>1, <1>2, <1>4 DEF ListsAre, ItemsAre

(* The map changes in one field, and the file is truncated and written.    *)
LEMMA SetsKeep ==
  ASSUME KeptIndInv, NEW w \in Writers, SetReminders(w) \/ SetDay(w) \/ SetIndex(w)
  PROVE  SettingsAre' /\ ListsAre' /\ ItemsAre'
<1>1. UNCHANGED <<facts, factsLock, edited, item, itemsAsked, reboots, promised>>
  BY DEF SetReminders, SetDay, SetIndex
<1>2. ListsAre' /\ ItemsAre' BY <1>1 DEF KeptIndInv, ListsAre, ItemsAre
<1>3. IsSettings(NoSettings, itemsAsked) BY NoListIs DEF NoSettings, IsSettings
<1>4. IsSettings(kv, itemsAsked) /\ IsList(edited[w], itemsAsked)
  BY DEF KeptIndInv, SettingsAre, ListsAre
<1>5. ASSUME UNCHANGED <<kv, kvFile, kvSaver>> PROVE SettingsAre'
  <2>1. SettingsAre BY DEF KeptIndInv
  <2> QED BY <1>1, <1>5, <2>1 DEF SettingsAre
<1>6. ASSUME NEW s, Set(w, s), IsSettings(s, itemsAsked) PROVE SettingsAre'
  BY <1>1, <1>3, <1>6 DEF Set, SettingsAre
<1>7. IsSettings([kv EXCEPT !.reminders = edited[w]], itemsAsked)
  BY <1>4 DEF IsSettings, IsList
<1>8. IsSettings([kv EXCEPT !.day = edited[w]], itemsAsked) BY <1>4 DEF IsSettings, IsList
<1>9. IsSettings([kv EXCEPT !.index = TRUE], itemsAsked) BY <1>4 DEF IsSettings, IsList
<1>10. SettingsAre'
  BY <1>5, <1>6, <1>7, <1>8, <1>9 DEF SetReminders, SetDay, SetIndex
<1> QED BY <1>2, <1>10

(* What is reloaded is settings, and reloads as itself.                    *)
LEMMA ReloadedIs ==
  ASSUME NEW n \in Nat, NEW s, IsSettings(s, n)
  PROVE  /\ IsSettings(Reloaded(s), n) /\ Reloaded(Reloaded(s)) = Reloaded(s)
         /\ Reloaded(s).reminders = s.reminders
<1> DEFINE firsts == {e \in s.day : e.id = 1}
<1>1. IsList(firsts, n)
  <2>1. firsts \in SUBSET s.day /\ n <= n OBVIOUS
  <2> HIDE DEF firsts
  <2> QED BY <2>1, ListGrows DEF IsSettings
<1>2. Reloaded(s) = [s EXCEPT !.day = firsts] BY DEF Reloaded
<1>3. {e \in firsts : e.id = 1} = firsts OBVIOUS
<1> HIDE DEF firsts
<1>4. IsSettings(Reloaded(s), n) BY <1>1, <1>2 DEF IsSettings, IsList
<1>5. Reloaded(s).reminders = s.reminders /\ Reloaded(s).day = firsts BY <1>2 DEF IsSettings
<1>6. Reloaded(Reloaded(s)) = [Reloaded(s) EXCEPT !.day = firsts] BY <1>3, <1>5 DEF Reloaded
<1>7. [Reloaded(s) EXCEPT !.day = firsts] = Reloaded(s) BY <1>4, <1>5 DEF IsSettings
<1> QED BY <1>4, <1>5, <1>6, <1>7

(* The other steps: the file is written, a tool answers, the memory is     *)
(* written, the process starts again.                                      *)
LEMMA OthersKeep ==
  ASSUME KeptIndInv,
         \/ SettingsSaved \/ Reboot
         \/ \E w \in Writers : SettingsReply(w) \/ TruncateMemory(w) \/ WriteMemory(w)
  PROVE  SettingsAre' /\ ListsAre' /\ ItemsAre'
<1>0. SettingsAre /\ ListsAre /\ ItemsAre /\ FactsIndInv /\ itemsAsked \in Nat
  BY DEF KeptIndInv, ItemsAre
<1>1. CASE SettingsSaved
  <2>1. UNCHANGED <<kv, facts, factsLock, edited, item, itemsAsked, reboots, promised>>
        /\ kvFile' = kv /\ kvSaver' = Nobody
    BY <1>1 DEF SettingsSaved
  <2> QED BY <1>0, <2>1 DEF SettingsAre, ListsAre, ItemsAre
<1>2. ASSUME NEW w \in Writers, SettingsReply(w) PROVE SettingsAre' /\ ListsAre' /\ ItemsAre'
  <2>1. UNCHANGED <<kv, kvFile, kvSaver, facts, factsLock, itemsAsked, reboots>> /\ Finish(w)
    BY <1>2 DEF SettingsReply
  <2>2. SettingsAre' BY <1>0, <2>1 DEF SettingsAre
  <2>3. ListsAre' BY <1>0, <2>1, EmptiesKeep DEF ListsAre
  <2>4. promised' \subseteq {"reminder", "fact"} \X (1 .. itemsAsked)
    <3>1. CASE UNCHANGED promised BY <1>0, <3>1 DEF ItemsAre
    <3>2. CASE item[w] # 0 /\ Promise(w, "reminder")
      <4>1. item[w] \in 1 .. itemsAsked BY <1>0, <3>2 DEF ItemsAre
      <4> QED BY <1>0, <3>2, <4>1 DEF ItemsAre, Promise
    <3> QED BY <1>2, <3>1, <3>2 DEF SettingsReply
  <2>5. item' \in [Writers -> 0 .. itemsAsked] BY <1>0, <2>1, EmptiesKeep
  <2>6. ItemsAre' BY <1>0, <2>1, <2>4, <2>5 DEF ItemsAre
  <2> QED BY <2>2, <2>3, <2>6
<1>3. ASSUME NEW w \in Writers, TruncateMemory(w) PROVE SettingsAre' /\ ListsAre' /\ ItemsAre'
  <2>1. /\ UNCHANGED <<kv, kvFile, kvSaver, factsLock, edited, item, itemsAsked, reboots, promised>>
        /\ facts' = {}
    BY <1>3 DEF TruncateMemory
  <2> QED BY <1>0, <2>1, NoListIs DEF SettingsAre, ListsAre, ItemsAre
<1>4. ASSUME NEW w \in Writers, WriteMemory(w) PROVE SettingsAre' /\ ListsAre' /\ ItemsAre'
  <2>1. UNCHANGED <<kv, kvFile, kvSaver, itemsAsked, reboots>> /\ Finish(w)
        /\ facts' = edited[w] /\ factsLock' = Nobody
    BY <1>4 DEF WriteMemory
  <2>2. SettingsAre' BY <1>0, <2>1 DEF SettingsAre
  <2>3. ListsAre' BY <1>0, <2>1, EmptiesKeep DEF ListsAre
  <2>4. promised' \subseteq {"reminder", "fact"} \X (1 .. itemsAsked)
    <3>1. CASE UNCHANGED promised BY <1>0, <3>1 DEF ItemsAre
    <3>2. CASE item[w] # 0 /\ Promise(w, "fact")
      <4>1. item[w] \in 1 .. itemsAsked BY <1>0, <3>2 DEF ItemsAre
      <4> QED BY <1>0, <3>2, <4>1 DEF ItemsAre, Promise
    <3> QED BY <1>4, <3>1, <3>2 DEF WriteMemory
  <2>5. item' \in [Writers -> 0 .. itemsAsked] BY <1>0, <2>1, EmptiesKeep
  <2>6. ItemsAre' BY <1>0, <2>1, <2>4, <2>5 DEF ItemsAre
  <2> QED BY <2>2, <2>3, <2>6
<1>5. CASE Reboot
  <2>1. /\ kv' = Reloaded(kvFile) /\ kvSaver' = Nobody /\ factsLock' = Nobody
        /\ edited' = [u \in Writers |-> {}] /\ item' = [u \in Writers |-> 0]
        /\ reboots < MaxReboots /\ reboots' = reboots + 1
        /\ UNCHANGED <<kvFile, facts, itemsAsked, promised>>
    BY <1>5 DEF Reboot
  <2>2. SettingsAre' BY <1>0, <2>1, ReloadedIs DEF SettingsAre
  <2>3. ListsAre' BY <1>0, <2>1, NoListIs DEF ListsAre
  <2>4. ItemsAre' BY <1>0, <2>1 DEF ItemsAre
  <2> QED BY <2>2, <2>3, <2>4
<1> QED BY <1>1, <1>2, <1>3, <1>4, <1>5

(* The lists of what is kept, in every reachable state.                    *)
LEMMA KeptStep == ASSUME KeptIndInv, [StoresNext]_storesVars PROVE KeptIndInv'
<1>1. FactsIndInv' BY FactsStep DEF KeptIndInv
<1>2. CASE UNCHANGED storesVars
  <2>1. SettingsAre' /\ ListsAre' /\ ItemsAre' /\ FlagsAre'
    BY <1>2 DEF storesVars, KeptIndInv, SettingsAre, ListsAre, ItemsAre, FlagsAre
  <2> QED BY <1>1, <2>1 DEF KeptIndInv
<1>3. CASE StoresNext
  <2>1. SettingsAre' /\ ListsAre' /\ ItemsAre'
    BY <1>3, BeginsKeep, SetsKeep, OthersKeep DEF StoresNext
  <2>2. FlagsAre' BY <1>3, FlagsStay DEF KeptIndInv
  <2> QED BY <1>1, <2>1, <2>2 DEF KeptIndInv
<1> QED BY <1>2, <1>3

LEMMA KeptTypes == ASSUME KeptIndInv PROVE StoresTypeOK /\ StoresInv
<1>1. itemsAsked \in Nat /\ itemsAsked <= MaxItems BY DEF KeptIndInv, ItemsAre
<1>2. 1 .. itemsAsked \subseteq Items /\ 0 .. itemsAsked \subseteq 0 .. MaxItems BY <1>1 DEF Items
<1>3. KeptUpTo(itemsAsked) \subseteq Kept BY <1>2 DEF Kept, KeptUpTo
<1>4. kv \in Settings /\ kvFile \in Settings
  BY <1>3 DEF KeptIndInv, SettingsAre, IsSettings, Settings
<1>5. facts \subseteq Kept /\ edited \in [Writers -> SUBSET Kept]
  BY <1>3 DEF KeptIndInv, ListsAre, IsList
<1>6. /\ item \in [Writers -> 0 .. MaxItems] /\ promised \subseteq {"reminder", "fact"} \X Items
      /\ itemsAsked \in 0 .. MaxItems /\ reboots \in 0 .. MaxReboots
  BY <1>2 DEF KeptIndInv, ItemsAre
<1>7. StoresTypeOK
  <2>1. /\ doing \in [Writers -> {"idle", "remind", "event", "index", "reminded", "noted",
                                  "memory", "write"}]
        /\ factsLock \in Writers \cup {Nobody} /\ kvSaver \in Writers \cup {Nobody}
    BY DEF KeptIndInv, FactsIndInv, ListsAre, SettingsAre
  <2>2. factsTorn \in BOOLEAN /\ overlap \in BOOLEAN /\ damaged \in BOOLEAN
    BY DEF KeptIndInv, FlagsAre
  <2> QED BY <1>4, <1>5, <1>6, <2>1, <2>2 DEF StoresTypeOK
<1>8. StoresInv
  <2>1. UniqueIds(facts) /\ UniqueIds(kv.reminders)
    BY DEF KeptIndInv, ListsAre, SettingsAre, IsSettings, IsList
  <2> QED BY <2>1 DEF KeptIndInv, SettingsAre, FactsIndInv, StoresInv
<1> QED BY <1>7, <1>8

-----------------------------------------------------------------------------
(* Unless tools overlapped or a crash hit a file, at most one tool changes *)
(* settings, and a reminder that was or will be confirmed is in the list   *)
(* and in the list that is about to replace it.                            *)
Changing(w) == doing[w] \in {"remind", "event", "index"}

Confirmed(i) ==
  \/ <<"reminder", i>> \in promised
  \/ \E w \in Writers : doing[w] = "reminded" /\ item[w] = i /\ i # 0

RemindersInv ==
  \/ damaged \/ overlap
  \/ /\ \A u, w \in Writers : Changing(u) /\ Changing(w) => u = w
     /\ \A i \in Items : Confirmed(i) => Listed(i, kv.reminders)
     /\ \A w \in Writers : doing[w] = "remind" =>
          /\ \A i \in Items : Confirmed(i) => Listed(i, edited[w])
          /\ item[w] # 0 => Listed(item[w], edited[w])

(* A tool begins to change settings, and every other step keeps the list.  *)
LEMMA RemindersBegin ==
  ASSUME KeptIndInv, RemindersInv, NEW w \in Writers, ReadReminders(w) \/ ReadDay(w)
  PROVE  RemindersInv'
<1>0. /\ doing \in [Writers -> {"idle", "remind", "event", "index", "reminded", "noted", "memory",
                                "write"}]
      /\ edited \in [Writers -> SUBSET KeptUpTo(itemsAsked)]
      /\ item \in [Writers -> 0 .. itemsAsked]
      /\ itemsAsked \in 0 .. MaxItems /\ itemsAsked \in Nat
      /\ doing[w] = "idle" => item[w] = 0
  BY DEF KeptIndInv, FactsIndInv, ListsAre, ItemsAre
<1>1. UNCHANGED <<kv, promised, damaged>> /\ Overlaps BY DEF ReadReminders, ReadDay
<1>2. SUFFICES ASSUME ~damaged, ~overlap, \A u \in Writers : ~Changing(u) PROVE RemindersInv'
  BY <1>1 DEF Overlaps, Changing, RemindersInv
<1>3. \E step, value :
        /\ doing[w] = "idle" /\ step \in {"remind", "event"}
        /\ doing' = [doing EXCEPT ![w] = step] /\ edited' = [edited EXCEPT ![w] = value]
        /\ \A u \in Writers : u # w => item'[u] = item[u]
        /\ step = "remind" =>
             /\ \A i : Listed(i, kv.reminders) => Listed(i, value)
             /\ item'[w] # 0 => Listed(item'[w], value)
  <2>1. CASE ReadDay(w)
    <3>1. TakesItem(w) /\ Begin(w, "event", Added(kv.day, itemsAsked + 1)) BY <2>1 DEF ReadDay
    <3>2. \A u \in Writers : u # w => item'[u] = item[u] BY <1>0, <3>1 DEF TakesItem
    <3> DEFINE value == Added(kv.day, itemsAsked + 1)
    <3>3. /\ doing[w] = "idle" /\ doing' = [doing EXCEPT ![w] = "event"]
          /\ edited' = [edited EXCEPT ![w] = value]
      BY <3>1 DEF Begin
    <3> HIDE DEF value
    <3>4. "event" # "remind" OBVIOUS
    <3> QED BY <3>2, <3>3, <3>4
  <2>2. CASE TakesItem(w) /\ Begin(w, "remind", Added(kv.reminders, itemsAsked + 1))
    <3> DEFINE value == Added(kv.reminders, itemsAsked + 1)
    <3>1. IsList(kv.reminders, itemsAsked) BY DEF KeptIndInv, SettingsAre, IsSettings
    <3>2. itemsAsked < MaxItems /\ item' = [item EXCEPT ![w] = itemsAsked + 1]
      BY <2>2 DEF TakesItem
    <3>3. Listed(itemsAsked + 1, value) /\ \A i : Listed(i, kv.reminders) => Listed(i, value)
      BY <1>0, <3>1, <3>2, AddedIsList
    <3>4. item'[w] = itemsAsked + 1 /\ \A u \in Writers : u # w => item'[u] = item[u]
      BY <1>0, <3>2
    <3>5. /\ doing[w] = "idle" /\ doing' = [doing EXCEPT ![w] = "remind"]
          /\ edited' = [edited EXCEPT ![w] = value]
      BY <2>2 DEF Begin
    <3> HIDE DEF value
    <3> QED BY <3>3, <3>4, <3>5
  <2>3. CASE /\ \E e \in kv.reminders : ~e.done /\ Begin(w, "remind", Completed(kv.reminders, e.id))
             /\ UNCHANGED <<itemsAsked, item>>
    <3>1. PICK e \in kv.reminders : Begin(w, "remind", Completed(kv.reminders, e.id)) BY <2>3
    <3> DEFINE value == Completed(kv.reminders, e.id)
    <3>2. IsList(kv.reminders, itemsAsked) BY DEF KeptIndInv, SettingsAre, IsSettings
    <3>3. \A i : Listed(i, kv.reminders) => Listed(i, value) BY <1>0, <3>2, CompletedIsList
    <3>4. /\ doing[w] = "idle" /\ doing' = [doing EXCEPT ![w] = "remind"]
          /\ edited' = [edited EXCEPT ![w] = value]
      BY <3>1 DEF Begin
    <3> HIDE DEF value
    <3> QED BY <1>0, <2>3, <3>3, <3>4
  <2> QED BY <2>1, <2>2, <2>3 DEF ReadReminders
<1>4. PICK step, value :
        /\ doing[w] = "idle" /\ step \in {"remind", "event"}
        /\ doing' = [doing EXCEPT ![w] = step] /\ edited' = [edited EXCEPT ![w] = value]
        /\ \A u \in Writers : u # w => item'[u] = item[u]
        /\ step = "remind" =>
             /\ \A i : Listed(i, kv.reminders) => Listed(i, value)
             /\ item'[w] # 0 => Listed(item'[w], value)
  BY <1>3
<1>5. \A u \in Writers : doing'[u] = IF u = w THEN step ELSE doing[u] BY <1>0, <1>4
<1>6. edited'[w] = value BY <1>0, <1>4
<1>7. \A i : Confirmed(i)' => Confirmed(i) BY <1>1, <1>4, <1>5 DEF Confirmed
<1>8. \A i \in Items : Confirmed(i)' => Listed(i, kv.reminders)
  BY <1>2, <1>7 DEF RemindersInv
<1>9. \A u \in Writers : Changing(u)' => u = w BY <1>2, <1>5 DEF Changing
<1>10. \A u \in Writers : doing'[u] = "remind" => u = w /\ step = "remind"
  BY <1>5, <1>9 DEF Changing
<1> QED BY <1>1, <1>4, <1>6, <1>8, <1>9, <1>10 DEF RemindersInv

(* The list that replaces it has all that is confirmed, and what the tool  *)
(* will confirm.                                                           *)
LEMMA RemindersSet ==
  ASSUME KeptIndInv, RemindersInv, NEW w \in Writers, SetReminders(w) PROVE RemindersInv'
<1>0. /\ doing \in [Writers -> {"idle", "remind", "event", "index", "reminded", "noted", "memory",
                                "write"}]
      /\ IsSettings(kv, itemsAsked)
  BY DEF KeptIndInv, FactsIndInv, SettingsAre
<1>1. /\ doing[w] = "remind" /\ doing' = [doing EXCEPT ![w] = "reminded"]
      /\ kv' = [kv EXCEPT !.reminders = edited[w]]
      /\ UNCHANGED <<edited, item, promised, overlap, damaged>>
  BY DEF SetReminders, Set
<1>2. SUFFICES ASSUME ~damaged, ~overlap PROVE RemindersInv'
  BY <1>1 DEF RemindersInv
<1>3. kv'.reminders = edited[w] BY <1>0, <1>1 DEF IsSettings
<1>4. \A u \in Writers : doing'[u] = IF u = w THEN "reminded" ELSE doing[u] BY <1>0, <1>1
<1>5. \A u \in Writers : Changing(u) => u = w BY <1>1, <1>2 DEF RemindersInv, Changing
<1>6. \A u \in Writers : ~Changing(u)' BY <1>4, <1>5 DEF Changing
<1>7. \A u \in Writers : doing'[u] # "remind" BY <1>6 DEF Changing
<1>8. \A i \in Items : Confirmed(i)' => Confirmed(i) \/ (i = item[w] /\ item[w] # 0)
  BY <1>1, <1>4 DEF Confirmed
<1>9. \A i \in Items : Confirmed(i)' => Listed(i, kv'.reminders)
  BY <1>1, <1>2, <1>3, <1>8 DEF RemindersInv
<1> QED BY <1>6, <1>7, <1>9 DEF RemindersInv

(* No other step of a tool takes a reminder from the list, and what is     *)
(* confirmed was about to be.                                              *)
LEMMA RemindersStay ==
  ASSUME KeptIndInv, RemindersInv, NEW w \in Writers,
         \/ SetDay(w) \/ SetIndex(w) \/ SettingsReply(w)
         \/ LoadMemory(w) \/ TruncateMemory(w) \/ WriteMemory(w)
  PROVE  RemindersInv'
<1>0. /\ doing \in [Writers -> {"idle", "remind", "event", "index", "reminded", "noted", "memory",
                                "write"}]
      /\ edited \in [Writers -> SUBSET KeptUpTo(itemsAsked)]
      /\ item \in [Writers -> 0 .. itemsAsked] /\ DOMAIN item = Writers
      /\ IsSettings(kv, itemsAsked)
  BY DEF KeptIndInv, FactsIndInv, ListsAre, ItemsAre, SettingsAre
<1>1. UNCHANGED <<overlap, damaged>>
  BY DEF SetDay, SetIndex, SettingsReply, LoadMemory, TruncateMemory, WriteMemory
<1>2. kv'.reminders = kv.reminders
  BY <1>0 DEF SetDay, SetIndex, Set, SettingsReply, LoadMemory, TruncateMemory, WriteMemory, IsSettings
<1>3. \E step, value, asked :
        /\ doing' = [doing EXCEPT ![w] = step] /\ edited' = [edited EXCEPT ![w] = value]
        /\ item' = [item EXCEPT ![w] = asked]
        /\ step \notin {"remind", "event", "reminded"}
        /\ step = "index" => doing[w] = "event"
  <2>1. CASE SetDay(w) \/ SetIndex(w) \/ TruncateMemory(w)
    <3>1. UNCHANGED <<edited, item>> BY <2>1 DEF SetDay, SetIndex, TruncateMemory
    <3>2. edited = [edited EXCEPT ![w] = edited[w]] /\ item = [item EXCEPT ![w] = item[w]] BY <1>0
    <3>3. \E step : /\ doing' = [doing EXCEPT ![w] = step]
                    /\ step \notin {"remind", "event", "reminded"}
                    /\ step = "index" => doing[w] = "event"
      BY <2>1 DEF SetDay, SetIndex, TruncateMemory
    <3> QED BY <3>1, <3>2, <3>3
  <2>2. CASE SettingsReply(w) \/ WriteMemory(w)
    BY <2>2 DEF SettingsReply, WriteMemory, Finish
  <2>3. CASE LoadMemory(w)
    <3>1. item = [item EXCEPT ![w] = item[w]] BY <1>0
    <3>2. \E value : doing' = [doing EXCEPT ![w] = "memory"] /\ edited' = [edited EXCEPT ![w] = value]
      BY <2>3 DEF LoadMemory, Begin
    <3>3. \E asked : item' = [item EXCEPT ![w] = asked] BY <2>3, <3>1 DEF LoadMemory, TakesItem
    <3>4. "memory" \notin {"remind", "event", "reminded"} /\ "memory" # "index" OBVIOUS
    <3> QED BY <3>2, <3>3, <3>4
  <2> QED BY <2>1, <2>2, <2>3
<1>4. PICK step, value, asked :
        /\ doing' = [doing EXCEPT ![w] = step] /\ edited' = [edited EXCEPT ![w] = value]
        /\ item' = [item EXCEPT ![w] = asked]
        /\ step \notin {"remind", "event", "reminded"}
        /\ step = "index" => doing[w] = "event"
  BY <1>3
<1>5. \A u \in Writers : /\ doing'[u] = IF u = w THEN step ELSE doing[u]
                         /\ u # w => edited'[u] = edited[u] /\ item'[u] = item[u]
  BY <1>0, <1>4
<1>6. \A u \in Writers : Changing(u)' => Changing(u) BY <1>4, <1>5 DEF Changing
<1>7. \A u \in Writers : doing'[u] \in {"remind", "reminded"} => u # w BY <1>4, <1>5
<1>8. \A i \in Items : Confirmed(i)' => Confirmed(i)
  <2>1. \A i : <<"reminder", i>> \in promised' =>
          \/ <<"reminder", i>> \in promised
          \/ doing[w] = "reminded" /\ item[w] = i /\ i # 0
    <3>1. CASE SetDay(w) \/ SetIndex(w) \/ TruncateMemory(w)
      BY <3>1 DEF SetDay, SetIndex, TruncateMemory
    <3>2. CASE SettingsReply(w) BY <3>2 DEF SettingsReply, Promise
    <3>3. CASE LoadMemory(w) BY <3>3 DEF LoadMemory
    <3>4. CASE WriteMemory(w)
      <4>1. \A i : <<"reminder", i>> # <<"fact", item[w]>> OBVIOUS
      <4> QED BY <3>4, <4>1 DEF WriteMemory, Promise
    <3> QED BY <3>1, <3>2, <3>3, <3>4
  <2>2. \A i, u : u \in Writers /\ doing'[u] = "reminded" /\ item'[u] = i =>
          doing[u] = "reminded" /\ item[u] = i
    BY <1>5, <1>7
  <2> QED BY <2>1, <2>2 DEF Confirmed
<1>9. \A u \in Writers : doing'[u] = "remind" =>
        doing[u] = "remind" /\ edited'[u] = edited[u] /\ item'[u] = item[u]
  BY <1>5, <1>7
<1> QED BY <1>1, <1>2, <1>6, <1>8, <1>9 DEF RemindersInv

(* A crash that hits no file being written takes nothing from the list.    *)
LEMMA RemindersReload ==
  ASSUME KeptIndInv, RemindersInv, Reboot \/ SettingsSaved PROVE RemindersInv'
<1>0. /\ IsSettings(kv, itemsAsked) /\ IsSettings(kvFile, itemsAsked)
      /\ kvSaver = Nobody => Reloaded(kvFile) = Reloaded(kv)
      /\ itemsAsked \in Nat
  BY DEF KeptIndInv, SettingsAre, ItemsAre
<1>1. CASE SettingsSaved
  <2>1. UNCHANGED <<kv, doing, edited, item, promised, overlap, damaged>> BY <1>1 DEF SettingsSaved
  <2> QED BY <2>1 DEF RemindersInv, Changing, Confirmed
<1>2. CASE Reboot
  <2>1. /\ kv' = Reloaded(kvFile) /\ damaged' = (damaged \/ kvSaver # Nobody \/ factsTorn)
        /\ doing' = [u \in Writers |-> "idle"] /\ UNCHANGED <<overlap, promised>>
    BY <1>2 DEF Reboot
  <2>2. SUFFICES ASSUME ~damaged, ~overlap, kvSaver = Nobody PROVE RemindersInv'
    BY <2>1 DEF RemindersInv
  <2>3. kv'.reminders = kv.reminders BY <1>0, <2>1, <2>2, ReloadedIs
  <2>4. \A i : Confirmed(i)' => Confirmed(i) BY <2>1 DEF Confirmed
  <2>5. \A u \in Writers : doing'[u] = "idle" BY <2>1
  <2> QED BY <2>2, <2>3, <2>4, <2>5 DEF RemindersInv, Changing
<1> QED BY <1>1, <1>2

StoresIndInv == KeptIndInv /\ RemindersInv

LEMMA StoresStep == ASSUME StoresIndInv, [StoresNext]_storesVars PROVE StoresIndInv'
<1>1. KeptIndInv' BY KeptStep DEF StoresIndInv
<1>2. RemindersInv'
  <2>1. CASE UNCHANGED storesVars
    BY <2>1 DEF storesVars, StoresIndInv, RemindersInv, Changing, Confirmed
  <2>2. CASE StoresNext
    BY <2>2, RemindersBegin, RemindersSet, RemindersStay, RemindersReload
    DEF StoresNext, StoresIndInv
  <2> QED BY <2>1, <2>2
<1> QED BY <1>1, <1>2 DEF StoresIndInv

LEMMA StoresStart == StoresInit => StoresIndInv
<1> SUFFICES ASSUME StoresInit PROVE StoresIndInv
  OBVIOUS
<1>1. FactsIndInv BY FactsStart
<1>2. IsSettings(NoSettings, 0) BY NoListIs DEF NoSettings, IsSettings
<1>3. SettingsAre BY <1>2 DEF StoresInit, SettingsAre
<1>4. ListsAre BY NoListIs DEF StoresInit, ListsAre
<1>5. FlagsAre BY DEF StoresInit, FlagsAre
<1>6. ItemsAre BY DEF StoresInit, ItemsAre
<1>7. \A i : ~Confirmed(i) BY DEF StoresInit, Confirmed
<1>8. RemindersInv BY <1>7 DEF StoresInit, RemindersInv, Changing
<1> QED BY <1>1, <1>3, <1>4, <1>5, <1>6, <1>8 DEF StoresIndInv, KeptIndInv

(* The types of the stores, that the file follows the map, and that a      *)
(* reminder that was confirmed is kept, for any number of writers and of   *)
(* restarts.                                                               *)
THEOREM StoresInvariant == StoresSpec => [](StoresTypeOK /\ StoresInv /\ RemindersAreKept)
<1>1. StoresIndInv => StoresTypeOK /\ StoresInv /\ RemindersAreKept
  <2> SUFFICES ASSUME StoresIndInv PROVE StoresTypeOK /\ StoresInv /\ RemindersAreKept
    OBVIOUS
  <2>1. StoresTypeOK /\ StoresInv BY KeptTypes DEF StoresIndInv
  <2>2. RemindersAreKept BY DEF StoresIndInv, RemindersInv, RemindersAreKept, Confirmed, Listed
  <2> QED BY <2>1, <2>2
<1> QED BY <1>1, StoresStart, StoresStep, PTL DEF StoresSpec

-----------------------------------------------------------------------------
(* A nonempty set of numbers has a first one.                              *)
LEMMA FirstIsOne ==
  ASSUME NEW ids \in SUBSET Nat, ids # {} PROVE First(ids) \in ids
BY LeastNumber DEF First

(* The albums and the next number, in memory and in the file: an album has *)
(* its type and a number below the next.                                   *)
AlbumsAre(list, next) ==
  /\ next \in 1 .. MaxAlbums + 1
  /\ DOMAIN list \subseteq 1 .. MaxAlbums
  /\ \A i \in DOMAIN list : list[i] \in Album /\ i < next

FileIs ==
  /\ DOMAIN disk = {"albums", "next"}
  /\ disk = [albums |-> disk.albums, next |-> disk.next]
  /\ AlbumsAre(disk.albums, disk.next)

CallsAre ==
  /\ saveAt \in [Savers -> {"idle", "create", "add"}]
  /\ want \in [Savers -> [name : Names, track : Tracks]]
  /\ target \in [Savers -> 0 .. MaxAlbums]
  /\ \A s \in Savers : saveAt[s] = "add" => target[s] \in DOMAIN albums

SaveIs ==
  /\ tempFile \in {"none", "part", "whole"}
  /\ saving \in {"free", "open", "write", "rename"}
  /\ faults \in 0 .. MaxFaults
  /\ disk.next <= nextId
  /\ saving = "free" /\ ~unsaved => disk = [albums |-> albums, next |-> nextId]

LibraryIndInv ==
  AlbumsAre(albums, nextId) /\ FileIs /\ CallsAre /\ SaveIs /\ unsaved \in BOOLEAN

LEMMA LibraryIsTyped == LibraryIndInv => LibraryTypeOK /\ LibraryInv
BY DEF LibraryIndInv, LibraryTypeOK, LibraryInv, AlbumsAre, FileIs, CallsAre, SaveIs

(* A save up to its rename does not touch the file; a write that fails     *)
(* unseen is the one that is lost.                                         *)
LEMMA SavingKeeps ==
  ASSUME LibraryIndInv, OpenTemp \/ WriteTemp \/ CloseFails \/ SaveFails
  PROVE  /\ LibraryIndInv'
         /\ \/ UNCHANGED <<albums, nextId, disk, LastWrite>>
            \/ Durable!LoseWrite \/ Durable!EndLostWrite
<1>0. AlbumsAre(albums, nextId) /\ FileIs /\ CallsAre /\ SaveIs /\ unsaved \in BOOLEAN
  BY DEF LibraryIndInv
<1>1. UNCHANGED <<albums, nextId, disk, saveAt, want, target>>
  BY DEF OpenTemp, WriteTemp, CloseFails, SaveFails
<1>2. AlbumsAre(albums, nextId)' /\ CallsAre' /\ FileIs'
  BY <1>0, <1>1 DEF AlbumsAre, CallsAre, FileIs
<1>3. SaveIs'
  BY <1>0, <1>1, LibraryAssumption
  DEF LibraryAssumption, SaveIs, OpenTemp, WriteTemp, CloseFails, SaveFails
<1>4. unsaved' \in BOOLEAN
  BY <1>0, Zenon DEF OpenTemp, WriteTemp, CloseFails, SaveFails
<1>5. \/ UNCHANGED <<albums, nextId, disk, LastWrite>>
      \/ Durable!LoseWrite \/ Durable!EndLostWrite
  <2>1. CASE OpenTemp \/ WriteTemp
    <3>1. LastWrite' = LastWrite BY <2>1 DEF OpenTemp, WriteTemp, LastWrite
    <3> QED BY <1>1, <3>1
  <2>2. CASE CloseFails
    <3>1. LastWrite' = "lost" BY <2>2 DEF CloseFails, LastWrite
    <3> QED BY <1>1, <3>1 DEF Durable!LoseWrite
  <2>3. CASE SaveFails
    <3>1. LastWrite' = "sound" /\ (LastWrite = "lost" \/ LastWrite' = LastWrite)
      BY <2>3 DEF SaveFails, LastWrite
    <3> QED BY <1>1, <3>1 DEF Durable!EndLostWrite
  <2> QED BY <2>1, <2>2, <2>3
<1> QED BY <1>2, <1>3, <1>4, <1>5 DEF LibraryIndInv

(* The rename commits what was written, which is nothing after a write that*)
(* was lost.                                                               *)
LEMMA RenameKeeps ==
  ASSUME LibraryIndInv, RenameTemp
  PROVE  LibraryIndInv' /\ (Durable!Commit \/ Durable!EndLostWrite)
<1>0. AlbumsAre(albums, nextId) /\ FileIs /\ CallsAre /\ SaveIs /\ unsaved \in BOOLEAN
  BY DEF LibraryIndInv
<1>1. /\ UNCHANGED <<albums, nextId, saveAt, want, target, faults>>
      /\ tempFile' = "none" /\ saving' = "free" /\ saving = "rename"
  BY DEF RenameTemp
<1>2. AlbumsAre(albums, nextId)' /\ CallsAre' BY <1>0, <1>1 DEF AlbumsAre, CallsAre
<1>3. LastWrite' = "sound" BY <1>1 DEF LastWrite
<1>4. MaxAlbums \in Nat /\ nextId \in Nat /\ 1 <= nextId
  BY <1>0, LibraryAssumption DEF LibraryAssumption, AlbumsAre
<1>5. CASE tempFile = "part"
  <2>1. disk' = EmptyStore /\ unsaved' = TRUE BY <1>5, Zenon DEF RenameTemp
  <2>2. disk'.albums = <<>> /\ disk'.next = 1 /\ DOMAIN disk' = {"albums", "next"}
        /\ disk' = [albums |-> <<>>, next |-> 1]
    BY <2>1 DEF EmptyStore
  <2>3. FileIs' BY <1>4, <2>2 DEF FileIs, AlbumsAre
  <2>4. SaveIs' BY <1>0, <1>1, <1>4, <2>1, <2>2 DEF SaveIs
  <2>5. LastWrite = "lost" BY <1>1, <1>5 DEF LastWrite
  <2>6. Durable!EndLostWrite
    BY <1>1, <1>3, <2>2, <2>5 DEF Durable!EndLostWrite, Durable!Empty
  <2> QED BY <1>2, <2>1, <2>3, <2>4, <2>6 DEF LibraryIndInv
<1>6. CASE tempFile # "part"
  <2>1. disk' = [albums |-> albums, next |-> nextId] /\ unsaved' = FALSE
    <3>1. disk' = [albums |-> albums, next |-> nextId] BY <1>6 DEF RenameTemp
    <3>2. unsaved' = FALSE BY <1>6, Zenon DEF RenameTemp
    <3> QED BY <3>1, <3>2
  <2>2. disk'.albums = albums /\ disk'.next = nextId /\ DOMAIN disk' = {"albums", "next"}
    BY <2>1
  <2>3. FileIs' BY <1>0, <2>1, <2>2 DEF FileIs, AlbumsAre
  <2>4. SaveIs' BY <1>0, <1>1, <1>4, <2>1, <2>2 DEF SaveIs
  <2>5. LastWrite = "sound" BY <1>6 DEF LastWrite
  <2>6. Durable!Commit BY <1>1, <1>3, <2>1, <2>5 DEF Durable!Commit
  <2> QED BY <1>2, <2>1, <2>3, <2>4, <2>6 DEF LibraryIndInv
<1> QED BY <1>5, <1>6

(* A call finds the first album of its name, or none.                      *)
LEMMA SaveCallKeeps ==
  ASSUME LibraryIndInv, NEW s \in Savers, SaveCall(s)
  PROVE  LibraryIndInv' /\ UNCHANGED <<albums, nextId, disk, LastWrite>>
<1>0. AlbumsAre(albums, nextId) /\ FileIs /\ CallsAre /\ SaveIs /\ unsaved \in BOOLEAN
  BY DEF LibraryIndInv
<1>1. PICK name \in Names, t \in Tracks :
        /\ want' = [want EXCEPT ![s] = [name |-> name, track |-> t]]
        /\ target' = [target EXCEPT ![s] = IF Named(name) = {} THEN 0 ELSE First(Named(name))]
        /\ saveAt' = [saveAt EXCEPT ![s] = IF Named(name) = {} THEN "create" ELSE "add"]
  BY DEF SaveCall
<1>2. UNCHANGED <<albums, nextId, disk, tempFile, saving, faults, unsaved>> BY DEF SaveCall
<1>3. want' \in [Savers -> [name : Names, track : Tracks]] BY <1>0, <1>1 DEF CallsAre
<1>4. Named(name) # {} => First(Named(name)) \in DOMAIN albums
  <2>1. Named(name) \subseteq DOMAIN albums /\ Named(name) \in SUBSET Nat
    BY <1>0 DEF Named, AlbumsAre
  <2> QED BY <2>1, FirstIsOne
<1>5. \A u \in Savers : saveAt'[u] = "add" => target'[u] \in DOMAIN albums
  BY <1>0, <1>1, <1>4 DEF CallsAre
<1>6. saveAt' \in [Savers -> {"idle", "create", "add"}] BY <1>0, <1>1 DEF CallsAre
<1>7. target' \in [Savers -> 0 .. MaxAlbums]
  <2>1. Named(name) # {} => First(Named(name)) \in 0 .. MaxAlbums
    BY <1>0, <1>4, LibraryAssumption DEF LibraryAssumption, AlbumsAre
  <2>2. 0 \in 0 .. MaxAlbums BY LibraryAssumption DEF LibraryAssumption
  <2> QED BY <1>0, <1>1, <2>1, <2>2 DEF CallsAre
<1>8. CallsAre' BY <1>2, <1>3, <1>5, <1>6, <1>7 DEF CallsAre
<1>9. AlbumsAre(albums, nextId)' /\ FileIs' /\ SaveIs' /\ LastWrite' = LastWrite
  BY <1>0, <1>2 DEF AlbumsAre, FileIs, SaveIs, LastWrite
<1> QED BY <1>0, <1>2, <1>8, <1>9 DEF LibraryIndInv

(* A new album takes the next number, ...                                  *)
LEMMA CreateAlbumKeeps ==
  ASSUME LibraryIndInv, NEW s \in Savers, CreateAlbum(s)
  PROVE  LibraryIndInv' /\ Durable!NewAlbum
<1>0. AlbumsAre(albums, nextId) /\ FileIs /\ CallsAre /\ SaveIs /\ unsaved \in BOOLEAN
  BY DEF LibraryIndInv
<1>1. want[s].name \in Names BY <1>0 DEF CallsAre
<1>2. /\ albums' = [i \in DOMAIN albums \cup {nextId} |->
                      IF i = nextId THEN [name |-> want[s].name, tracks |-> {}] ELSE albums[i]]
      /\ nextId' = nextId + 1 /\ UNCHANGED <<disk, want, tempFile, faults, unsaved>>
      /\ target' = [target EXCEPT ![s] = nextId] /\ saveAt' = [saveAt EXCEPT ![s] = "add"]
      /\ saving' = "open" /\ nextId <= MaxAlbums
  BY DEF CreateAlbum
<1>3. DOMAIN albums' = DOMAIN albums \cup {nextId} BY <1>2
<1>4. Durable!NewAlbum
  <2>1. LastWrite' = LastWrite BY <1>2 DEF CreateAlbum, LastWrite
  <2> QED BY <1>1, <1>2, <2>1 DEF Durable!NewAlbum
<1>5. nextId \in 1 .. MaxAlbums /\ MaxAlbums \in Nat
  BY <1>0, <1>2, LibraryAssumption DEF LibraryAssumption, AlbumsAre
<1>6. AlbumsAre(albums, nextId)'
  <2>1. DOMAIN albums' \subseteq 1 .. MaxAlbums BY <1>0, <1>3, <1>5 DEF AlbumsAre
  <2>2. \A i \in DOMAIN albums' : albums'[i] \in Album
    <3>1. [name |-> want[s].name, tracks |-> {}] \in Album BY <1>1 DEF Album
    <3> QED BY <1>0, <1>2, <1>3, <3>1 DEF AlbumsAre
  <2>3. \A i \in DOMAIN albums' : i < nextId'
    BY <1>0, <1>2, <1>3, <1>5 DEF AlbumsAre
  <2>4. nextId' \in 1 .. MaxAlbums + 1
    <3>1. nextId' = nextId + 1 BY <1>2
    <3> QED BY <1>5, <3>1
  <2> QED BY <2>1, <2>2, <2>3, <2>4 DEF AlbumsAre
<1>7. CallsAre'
  <2>1. \A u \in Savers : saveAt'[u] = "add" => target'[u] \in DOMAIN albums'
    BY <1>0, <1>2, <1>3 DEF CallsAre
  <2>2. saveAt' \in [Savers -> {"idle", "create", "add"}] /\ target' \in [Savers -> 0 .. MaxAlbums]
    BY <1>0, <1>2, <1>5 DEF CallsAre
  <2> QED BY <1>0, <1>2, <2>1, <2>2 DEF CallsAre
<1>8. FileIs' BY <1>0, <1>2 DEF FileIs, AlbumsAre
<1>9. SaveIs'
  <2>1. disk.next \in Nat BY <1>0, <1>5 DEF FileIs, AlbumsAre
  <2> QED BY <1>0, <1>2, <1>5, <2>1 DEF SaveIs
<1> QED BY <1>0, <1>2, <1>4, <1>6, <1>7, <1>8, <1>9 DEF LibraryIndInv

(* ... and a new track goes to an album there is.                          *)
LEMMA AddTrackKeeps ==
  ASSUME LibraryIndInv, NEW s \in Savers, AddTrack(s)
  PROVE  /\ LibraryIndInv'
         /\ UNCHANGED <<albums, nextId, disk, LastWrite>> \/ Durable!NewTrack
<1>0. AlbumsAre(albums, nextId) /\ FileIs /\ CallsAre /\ SaveIs /\ unsaved \in BOOLEAN
  BY DEF LibraryIndInv
<1>1. /\ saveAt' = [saveAt EXCEPT ![s] = "idle"] /\ want' = [want EXCEPT ![s] = Unset]
      /\ target' = [target EXCEPT ![s] = 0] /\ saveAt[s] = "add"
      /\ UNCHANGED <<nextId, disk, tempFile, faults, unsaved>>
  BY DEF AddTrack
<1>2. want[s].track \in Tracks /\ want[s].name \in Names /\ target[s] \in DOMAIN albums
  BY <1>0, <1>1 DEF CallsAre
<1>3. Unset \in [name : Names, track : Tracks] /\ LastWrite' = LastWrite
  <2>1. Unset \in [name : Names, track : Tracks] BY <1>2 DEF Unset
  <2>2. LastWrite' = LastWrite BY DEF AddTrack, LastWrite
  <2> QED BY <2>1, <2>2
<1>4. /\ DOMAIN albums' = DOMAIN albums /\ \A i \in DOMAIN albums : albums'[i] \in Album
      /\ \/ UNCHANGED <<albums, saving>>
         \/ Durable!NewTrack /\ saving' = "open"
  <2>1. CASE want[s].track \in albums[target[s]].tracks
    <3>1. UNCHANGED <<albums, saving>> BY <2>1 DEF AddTrack
    <3>2. \A i \in DOMAIN albums : albums[i] \in Album BY <1>0 DEF AlbumsAre
    <3> QED BY <3>1, <3>2
  <2>2. CASE want[s].track \notin albums[target[s]].tracks
    <3>1. /\ albums' = [albums EXCEPT ![target[s]].tracks = @ \cup {want[s].track}]
          /\ saving' = "open"
      BY <2>2 DEF AddTrack
    <3>2. want[s].track \in Tracks \ albums[target[s]].tracks BY <1>2, <2>2
    <3>3. Durable!NewTrack BY <1>1, <1>2, <1>3, <3>1, <3>2 DEF Durable!NewTrack
    <3>4. DOMAIN albums' = DOMAIN albums BY <3>1
    <3>5. \A i \in DOMAIN albums : albums'[i] \in Album
      BY <1>0, <1>2, <3>1 DEF AlbumsAre, Album
    <3> QED BY <3>1, <3>3, <3>4, <3>5
  <2> QED BY <2>1, <2>2
<1>5. AlbumsAre(albums, nextId)' BY <1>0, <1>1, <1>4 DEF AlbumsAre
<1>6. CallsAre'
  <2>1. 0 \in 0 .. MaxAlbums BY LibraryAssumption DEF LibraryAssumption
  <2>2. /\ saveAt' \in [Savers -> {"idle", "create", "add"}]
        /\ want' \in [Savers -> [name : Names, track : Tracks]]
        /\ target' \in [Savers -> 0 .. MaxAlbums]
        /\ \A u \in Savers : saveAt'[u] = "add" => saveAt[u] = "add" /\ target'[u] = target[u]
    BY <1>0, <1>1, <1>3, <2>1 DEF CallsAre
  <2> QED BY <1>0, <1>4, <2>2 DEF CallsAre
<1>7. FileIs' BY <1>0, <1>1 DEF FileIs, AlbumsAre
<1>8. SaveIs' BY <1>0, <1>1, <1>4 DEF SaveIs
<1> QED BY <1>0, <1>1, <1>3, <1>4, <1>5, <1>6, <1>7, <1>8 DEF LibraryIndInv

(* What a crash leaves is what the file holds.                             *)
LEMMA LibraryCrashKeeps ==
  ASSUME LibraryIndInv, LibraryCrash PROVE LibraryIndInv' /\ Durable!Recover
<1>0. AlbumsAre(albums, nextId) /\ FileIs /\ CallsAre /\ SaveIs /\ unsaved \in BOOLEAN
  BY DEF LibraryIndInv
<1>1. /\ albums' = disk.albums /\ nextId' = disk.next /\ UNCHANGED <<disk, tempFile>>
      /\ saveAt' = [s \in Savers |-> "idle"] /\ target' = [s \in Savers |-> 0]
      /\ want' = [s \in Savers |-> Unset]
      /\ saving' = "free" /\ unsaved' = FALSE /\ faults' = faults + 1 /\ faults < MaxFaults
  BY DEF LibraryCrash
<1>2. Durable!Recover
  <2>1. LastWrite' = "sound" BY <1>1 DEF LastWrite
  <2> QED BY <1>1, <2>1 DEF Durable!Recover
<1>3. want' \in [Savers -> [name : Names, track : Tracks]]
  <2>1. CASE Savers = {} BY <1>1, <2>1
  <2>2. CASE Savers # {}
    <3>1. PICK s \in Savers : want[s].name \in Names /\ want[s].track \in Tracks
      BY <1>0, <2>2 DEF CallsAre
    <3>2. Unset \in [name : Names, track : Tracks] BY <3>1 DEF Unset
    <3> QED BY <1>1, <3>2
  <2> QED BY <2>1, <2>2
<1>4. AlbumsAre(albums, nextId)' /\ FileIs' BY <1>0, <1>1 DEF FileIs, AlbumsAre
<1>5. CallsAre'
  <2>1. 0 \in 0 .. MaxAlbums BY LibraryAssumption DEF LibraryAssumption
  <2> QED BY <1>1, <1>3, <2>1 DEF CallsAre
<1>6. SaveIs'
  <2>1. disk.next \in Nat /\ MaxFaults \in Nat
    BY <1>0, LibraryAssumption DEF LibraryAssumption, FileIs, AlbumsAre
  <2>2. disk' = [albums |-> albums', next |-> nextId'] BY <1>0, <1>1 DEF FileIs
  <2> QED BY <1>0, <1>1, <2>1, <2>2 DEF SaveIs
<1>7. unsaved' \in BOOLEAN BY <1>1
<1> QED BY <1>2, <1>4, <1>5, <1>6, <1>7 DEF LibraryIndInv

(* A step of the library keeps the invariant, and is one of the abstract   *)
(* store or none.                                                          *)
LEMMA LibraryStep ==
  ASSUME LibraryIndInv, [LibraryNext]_libraryVars
  PROVE  LibraryIndInv' /\ [Durable!StoreNext]_<<albums, nextId, disk, LastWrite>>
<1>1. CASE UNCHANGED libraryVars
  BY <1>1 DEF libraryVars, LibraryIndInv, AlbumsAre, FileIs, CallsAre, SaveIs, LastWrite
<1>2. CASE LibraryNext
  <2>1. /\ LibraryIndInv'
        /\ \/ UNCHANGED <<albums, nextId, disk, LastWrite>>
           \/ Durable!Commit \/ Durable!NewAlbum \/ Durable!NewTrack \/ Durable!Recover
           \/ Durable!LoseWrite \/ Durable!EndLostWrite
    BY <1>2, SavingKeeps, RenameKeeps, SaveCallKeeps, CreateAlbumKeeps, AddTrackKeeps, LibraryCrashKeeps, Zenon
    DEF LibraryNext
  <2> QED BY <2>1, Zenon DEF Durable!StoreNext
<1> QED BY <1>1, <1>2

LEMMA LibraryStarts == LibraryInit => LibraryIndInv /\ Durable!StoreInit
<1> SUFFICES ASSUME LibraryInit PROVE LibraryIndInv /\ Durable!StoreInit
  OBVIOUS
<1>1. Durable!StoreInit
  BY DEF LibraryInit, Durable!StoreInit, Durable!Empty, EmptyStore, LastWrite
<1>2. MaxAlbums \in Nat /\ MaxFaults \in Nat BY LibraryAssumption DEF LibraryAssumption
<1>3. Unset \in [name : Names, track : Tracks] BY LibraryAssumption DEF LibraryAssumption, Unset
<1>4. /\ albums = <<>> /\ nextId = 1 /\ disk = [albums |-> <<>>, next |-> 1]
      /\ disk.albums = albums /\ disk.next = 1
  BY DEF LibraryInit, EmptyStore
<1>5. AlbumsAre(albums, nextId) /\ FileIs BY <1>2, <1>4 DEF AlbumsAre, FileIs
<1>6. CallsAre /\ SaveIs BY <1>2, <1>3, <1>4 DEF LibraryInit, CallsAre, SaveIs
<1>7. unsaved \in BOOLEAN BY DEF LibraryInit
<1> QED BY <1>1, <1>5, <1>6, <1>7 DEF LibraryIndInv

(* The types of the library, its numbering, and that the file has what is  *)
(* in memory unless a save is open or the last one failed, seen or unseen, *)
(* in every reachable state.                                               *)
THEOREM LibraryInvariant == LibrarySpec => [](LibraryTypeOK /\ LibraryInv)
BY LibraryStarts, LibraryStep, LibraryIsTyped, PTL DEF LibrarySpec

(* The library implements a durable store with atomic operations, for any  *)
(* number of threads, albums, crashes and failures: it goes back to what it*)
(* was after an operation, or, after a write that failed unseen only, to   *)
(* the empty store.                                                        *)
THEOREM AlbumsAreDurableHolds == LibrarySpec => AlbumsAreDurable
BY LibraryStarts, LibraryStep, PTL
DEF LibrarySpec, AlbumsAreDurable, Durable!StoreSpec, Durable!storeVars

HIDE StoresAssumption DEF StoresAssumption
=============================================================================

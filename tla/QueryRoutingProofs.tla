------------------------- MODULE QueryRoutingProofs -------------------------
(***************************************************************************)
(* What the pure parts of the router and of a node's profile compute, for   *)
(* every input: the score, the mix a client's becomes, the classification   *)
(* that is read from a model's reply, what a node advertises and whom the   *)
(* threshold lets it serve.  Then what holds of QueryRouting for every set   *)
(* of nodes and queries, and every profile, mix and exclusion they come     *)
(* with: the inductive invariant, one lemma per action; what a query        *)
(* decides and returns; that answer_query keeps the promise of              *)
(* QueryContract; and that each step of a query uses something up, so that  *)
(* a query takes finitely many.                                             *)
(***************************************************************************)
EXTENDS QueryRouting, CapabilityInputs, PeerRegistryProofs, FiniteSetTheorems,
        WellFoundedInduction

-----------------------------------------------------------------------------
(* The routing score, for every mix and every profile.                      *)

Quality100 == [Caps -> 0 .. 100]

LEMMA ProductType ==
    ASSUME NEW x \in Int, NEW y \in Int
    PROVE  x * y \in Int
OBVIOUS

LEMMA ClampType ==
    ASSUME NEW x \in Int, NEW high \in Nat
    PROVE  Clamp(x, 0, high) \in 0 .. high
BY DEF Clamp, AtMost, AtLeast

LEMMA MixEntries ==
    ASSUME NEW mix \in Mix
    PROVE  /\ \A i \in DOMAIN mix : mix[i] \in Entry
           /\ 1 \in DOMAIN mix
BY DEF Mix

\* A mix has a positive total demand, so the code's division is defined.
LEMMA TotalDemandPositive ==
    ASSUME NEW mix \in Mix
    PROVE  TotalDemand(mix) \in Nat \ {0}
<1>1. \A i \in DOMAIN mix : mix[i].demand \in 1 .. 100
  BY MixEntries DEF Entry
<1>2. DemandAt(mix, 1) \in Nat \ {0} /\ DemandAt(mix, 2) \in Nat /\ DemandAt(mix, 3) \in Nat
  BY <1>1, MixEntries DEF DemandAt
<1>3. QED
  BY <1>2 DEF TotalDemand

LEMMA WeightedQualityType ==
    ASSUME NEW mix \in Mix, NEW quality \in Quality100
    PROVE  WeightedQuality(mix, quality) \in 0 .. 100 * TotalDemand(mix)
<1>1. ASSUME NEW i \in Nat PROVE WeightedAt(mix, quality, i) \in Int
  <2>1. CASE i \in DOMAIN mix
    <3> mix[i] \in Entry
      BY <2>1, MixEntries
    <3>1. mix[i].demand \in 1 .. 100 /\ mix[i].cap \in Caps
      BY DEF Entry
    <3>2. quality[mix[i].cap] \in 0 .. 100
      BY <3>1 DEF Quality100
    <3>3. mix[i].demand * quality[mix[i].cap] \in Int
      <4>1. mix[i].demand \in Int /\ quality[mix[i].cap] \in Int
        BY <3>1, <3>2
      <4>2. QED
        BY <4>1, ProductType
    <3>4. QED
      BY <2>1, <3>3 DEF WeightedAt
  <2>2. CASE i \notin DOMAIN mix
    BY <2>2 DEF WeightedAt
  <2>3. QED
    BY <2>1, <2>2
<1>2. /\ WeightedAt(mix, quality, 1) \in Int
      /\ WeightedAt(mix, quality, 2) \in Int
      /\ WeightedAt(mix, quality, 3) \in Int
  BY <1>1
<1>3. 100 * TotalDemand(mix) \in Nat
  BY TotalDemandPositive
<1>4. QED
  <2> DEFINE X == WeightedAt(mix, quality, 1) + WeightedAt(mix, quality, 2)
                    + WeightedAt(mix, quality, 3)
  <2>1. X \in Int
    BY <1>2
  <2> HIDE DEF X
  <2>2. Clamp(X, 0, 100 * TotalDemand(mix)) \in 0 .. 100 * TotalDemand(mix)
    BY <2>1, <1>3, ClampType
  <2>3. QED
    BY <2>2 DEF WeightedQuality, X

\* What the code adds to the weighted quality for the contact with the peer.
Contact(fresh, failures, latency) ==
    (IF fresh THEN 4500 ELSE 0) - 700 * AtMost(failures, 3) - 24 * AtMost(latency, 100)

LEMMA ContactType ==
    ASSUME NEW fresh \in BOOLEAN, NEW failures \in Nat, NEW latency \in Nat
    PROVE  Contact(fresh, failures, latency) \in Int /\ Contact(fresh, failures, latency) <= 4500
BY DEF Contact, AtMost

LEMMA ScoreByContact ==
    ASSUME NEW mix \in Mix, NEW quality \in Quality100,
           NEW fresh \in BOOLEAN, NEW failures \in Nat, NEW latency \in Nat
    PROVE  ScoreOf(mix, quality, fresh, failures, latency) =
             Clamp(225 * WeightedQuality(mix, quality)
                     + TotalDemand(mix) * Contact(fresh, failures, latency), 0, Scale(mix))
BY DEF ScoreOf, Contact

\* Every score is between 0 and 1.
LEMMA ScoreType ==
    ASSUME NEW mix \in Mix, NEW quality \in Quality100,
           NEW fresh \in BOOLEAN, NEW failures \in Nat, NEW latency \in Nat
    PROVE  ScoreOf(mix, quality, fresh, failures, latency) \in 0 .. Scale(mix)
<1> DEFINE C == Contact(fresh, failures, latency)
           W == WeightedQuality(mix, quality)
           T == TotalDemand(mix)
<1>1. C \in Int /\ W \in Int /\ T \in Nat
  BY ContactType, WeightedQualityType, TotalDemandPositive
<1>2. 225 * W + T * C \in Int /\ Scale(mix) \in Nat
  BY <1>1 DEF Scale
<1> DEFINE X == 225 * W + T * C
<1>3. X \in Int /\ Scale(mix) \in Nat
  BY <1>2
<1>4. ScoreOf(mix, quality, fresh, failures, latency) = Clamp(X, 0, Scale(mix))
  BY ScoreByContact
<1> HIDE DEF X
<1>5. QED
  BY <1>3, <1>4, ClampType

\* The threshold of 0.65 asks for a weighted quality of at least two thirds,
\* whatever the contact: only a peer that good ends a search early.
THEOREM ThresholdNeedsQuality ==
    ASSUME NEW mix \in Mix, NEW quality \in Quality100,
           NEW fresh \in BOOLEAN, NEW failures \in Nat, NEW latency \in Nat,
           ScoreOf(mix, quality, fresh, failures, latency) >= Threshold(mix)
    PROVE  3 * WeightedQuality(mix, quality) >= 200 * TotalDemand(mix)
<1> DEFINE C == Contact(fresh, failures, latency)
           W == WeightedQuality(mix, quality)
           T == TotalDemand(mix)
           X == 225 * W + T * C
<1>1. C \in Int /\ C <= 4500 /\ W \in Int /\ T \in Nat \ {0}
  BY ContactType, WeightedQualityType, TotalDemandPositive
<1>2. T * C \in Int /\ T * C <= T * 4500
  BY <1>1
<1>3. Clamp(X, 0, 30000 * T) >= 19500 * T
  BY ScoreByContact DEF Scale, Threshold
<1> HIDE DEF C, W, T
<1>4. X \in Int
  BY <1>1, <1>2
<1> HIDE DEF X
<1>5. X >= 19500 * T
  BY <1>1, <1>3, <1>4 DEF Clamp, AtMost, AtLeast
<1>6. 225 * W + T * 4500 >= 19500 * T
  BY <1>1, <1>2, <1>5 DEF X
<1>7. 3 * W >= 200 * T
  BY <1>1, <1>6
<1>8. QED
  BY <1>7 DEF W, T

\* The history of a peer is worth 0.3 at most, which 0.4 of quality outweighs:
\* the contacts decide only between candidates of similar quality.
THEOREM QualityOutweighsContact ==
    ASSUME NEW mix \in Mix, NEW better \in Quality100, NEW worse \in Quality100,
           NEW fresh \in BOOLEAN, NEW failures \in Nat, NEW latency \in Nat,
           NEW fresh2 \in BOOLEAN, NEW failures2 \in Nat, NEW latency2 \in Nat,
           WeightedQuality(mix, better) - WeightedQuality(mix, worse) >= 40 * TotalDemand(mix)
    PROVE  ScoreOf(mix, better, fresh, failures, latency)
             >= ScoreOf(mix, worse, fresh2, failures2, latency2)
<1> DEFINE C == Contact(fresh, failures, latency)
           D == Contact(fresh2, failures2, latency2)
           W == WeightedQuality(mix, better)
           V == WeightedQuality(mix, worse)
           T == TotalDemand(mix)
           X == 225 * W + T * C
           Y == 225 * V + T * D
<1>1. /\ C \in Int /\ C >= -4500 /\ D \in Int /\ D <= 4500
      /\ W \in Int /\ V \in Int /\ T \in Nat \ {0}
  BY ContactType, WeightedQualityType, TotalDemandPositive DEF Contact, AtMost
<1>2. /\ ScoreOf(mix, better, fresh, failures, latency) = Clamp(X, 0, 30000 * T)
      /\ ScoreOf(mix, worse, fresh2, failures2, latency2) = Clamp(Y, 0, 30000 * T)
  <2>1. ScoreOf(mix, better, fresh, failures, latency) = Clamp(X, 0, Scale(mix))
    BY ScoreByContact
  <2>2. ScoreOf(mix, worse, fresh2, failures2, latency2) = Clamp(Y, 0, Scale(mix))
    BY ScoreByContact
  <2>3. QED
    BY <2>1, <2>2 DEF Scale
<1>3. W - V >= 40 * T
  OBVIOUS
<1> HIDE DEF C, D, W, V, T
<1>4. /\ T * C \in Int /\ T * C >= -(4500 * T)
      /\ T * D \in Int /\ D <= 4500 * T
  BY <1>1
<1>5. X \in Int /\ Y \in Int /\ X >= Y
  BY <1>1, <1>3, <1>4
<1> HIDE DEF X, Y
<1>6. 30000 * T \in Nat
  BY <1>1
<1>7. /\ Clamp(X, 0, 30000 * T) \in Int /\ Clamp(Y, 0, 30000 * T) \in Int
      /\ Clamp(X, 0, 30000 * T) >= Clamp(Y, 0, 30000 * T)
  BY <1>5, <1>6 DEF Clamp, AtMost, AtLeast
<1>8. QED
  BY <1>2, <1>7

\* A contact that gets worse never raises a score, and so never carries a
\* candidate over the threshold: a ping may only help.
THEOREM WorseContactNeverRaises ==
    ASSUME NEW mix \in Mix, NEW quality \in Quality100,
           NEW fresh \in BOOLEAN, NEW failures \in Nat, NEW latency \in Nat,
           NEW fresh2 \in BOOLEAN, NEW failures2 \in Nat, NEW latency2 \in Nat,
           fresh2 => fresh, failures <= failures2, latency <= latency2
    PROVE  ScoreOf(mix, quality, fresh2, failures2, latency2)
             <= ScoreOf(mix, quality, fresh, failures, latency)
<1> DEFINE C == Contact(fresh, failures, latency)
           D == Contact(fresh2, failures2, latency2)
           W == WeightedQuality(mix, quality)
           T == TotalDemand(mix)
           X == 225 * W + T * C
           Y == 225 * W + T * D
<1>1. C \in Int /\ D \in Int /\ W \in Int /\ T \in Nat \ {0}
  BY ContactType, WeightedQualityType, TotalDemandPositive
<1>2. D <= C
  <2>1. AtMost(failures, 3) <= AtMost(failures2, 3) /\ AtMost(latency, 100) <= AtMost(latency2, 100)
    BY DEF AtMost
  <2>2. /\ AtMost(failures, 3) \in Int /\ AtMost(failures2, 3) \in Int
        /\ AtMost(latency, 100) \in Int /\ AtMost(latency2, 100) \in Int
    BY DEF AtMost
  <2>3. QED
    BY <2>1, <2>2 DEF Contact
<1>3. /\ ScoreOf(mix, quality, fresh, failures, latency) = Clamp(X, 0, 30000 * T)
      /\ ScoreOf(mix, quality, fresh2, failures2, latency2) = Clamp(Y, 0, 30000 * T)
  <2>1. ScoreOf(mix, quality, fresh, failures, latency) = Clamp(X, 0, Scale(mix))
    BY ScoreByContact
  <2>2. ScoreOf(mix, quality, fresh2, failures2, latency2) = Clamp(Y, 0, Scale(mix))
    BY ScoreByContact
  <2>3. QED
    BY <2>1, <2>2 DEF Scale
<1> HIDE DEF C, D, W, T
<1>4. T * C \in Int /\ T * D \in Int /\ T * D <= T * C
  BY <1>1, <1>2
<1>5. X \in Int /\ Y \in Int /\ Y <= X
  BY <1>1, <1>4
<1> HIDE DEF X, Y
<1>6. 30000 * T \in Nat
  BY <1>1
<1>7. Clamp(Y, 0, 30000 * T) <= Clamp(X, 0, 30000 * T)
  BY <1>5, <1>6 DEF Clamp, AtMost, AtLeast
<1>8. QED
  BY <1>3, <1>7

\* The capabilities to look up are among the mix's, and there is one.
LEMMA DiscoveryType ==
    ASSUME NEW mix \in Mix
    PROVE  /\ DiscoveryCapabilities(mix) \subseteq CapsOf(mix)
           /\ DiscoveryCapabilities(mix) # {}
           /\ CapsOf(mix) \subseteq Caps
<1>1. /\ \A i \in DOMAIN mix : mix[i] \in Entry
      /\ 1 \in DOMAIN mix
  BY MixEntries
<1>2. CapsOf(mix) \subseteq Caps
  BY <1>1 DEF CapsOf, Entry
<1> DEFINE meaningful == {i \in DOMAIN mix : mix[i].demand >= 30}
<1>3. CASE meaningful = {}
  <2>1. DiscoveryCapabilities(mix) = {mix[1].cap}
    BY <1>3 DEF DiscoveryCapabilities
  <2>2. QED
    BY <1>1, <1>2, <2>1 DEF CapsOf
<1>4. CASE meaningful # {}
  <2>1. DiscoveryCapabilities(mix) = {mix[i].cap : i \in meaningful}
    BY <1>4 DEF DiscoveryCapabilities
  <2>2. QED
    BY <1>2, <1>4, <2>1 DEF CapsOf
<1>5. QED
  BY <1>3, <1>4

-----------------------------------------------------------------------------
(* Normalisation, for every mix a client may write.                         *)

\* The rank of an element, in a strict total order of a finite set.
StrictOrder(R, K) ==
    /\ \A i \in K : <<i, i>> \notin R
    /\ \A i, j, k \in K : <<i, j>> \in R /\ <<j, k>> \in R => <<i, k>> \in R
    /\ \A i, j \in K : i # j => <<i, j>> \in R \/ <<j, i>> \in R

Rank(R, K, i) == Cardinality({j \in K : <<j, i>> \in R})

\* Ranks number the elements from 0 in their order.
Numbered(R, K) ==
    /\ Cardinality(K) \in Nat
    /\ \A i \in K : Rank(R, K, i) \in 0 .. Cardinality(K) - 1
    /\ \A i, j \in K : <<i, j>> \in R <=> Rank(R, K, i) < Rank(R, K, j)
    /\ \A i, j \in K : Rank(R, K, i) = Rank(R, K, j) => i = j
    /\ \A r \in 0 .. Cardinality(K) - 1 : \E i \in K : Rank(R, K, i) = r

LEMMA Ranks ==
    ASSUME NEW K, IsFiniteSet(K), NEW R, StrictOrder(R, K)
    PROVE  Numbered(R, K)
<1> DEFINE n == Cardinality(K)
           before(i) == {j \in K : <<j, i>> \in R}
           rank == [i \in K |-> Rank(R, K, i)]
           ranks == {rank[i] : i \in K}
<1>1. n \in Nat
  BY FS_CardinalityType
<1>2. ASSUME NEW i \in K
      PROVE  /\ IsFiniteSet(before(i)) /\ Rank(R, K, i) = Cardinality(before(i))
             /\ Rank(R, K, i) \in 0 .. n - 1
  <2>1. IsFiniteSet(K \ {i}) /\ Cardinality(K \ {i}) = n - 1
    BY FS_RemoveElement
  <2>2. before(i) \in SUBSET (K \ {i})
    BY DEF StrictOrder
  <2>3. IsFiniteSet(before(i)) /\ Cardinality(before(i)) <= Cardinality(K \ {i})
    BY <2>1, <2>2, FS_Subset
  <2>4. Cardinality(before(i)) \in Nat
    BY <2>3, FS_CardinalityType
  <2>5. Rank(R, K, i) = Cardinality(before(i))
    BY DEF Rank
  <2> HIDE DEF n, before
  <2>6. QED
    BY <1>1, <2>1, <2>3, <2>4, <2>5
<1>0. \A i \in K : Rank(R, K, i) \in 0 .. n - 1 /\ Rank(R, K, i) \in Nat
  <2> HIDE DEF n, before
  <2>1. \A i \in K : Rank(R, K, i) \in 0 .. n - 1
    BY <1>2
  <2>2. QED
    BY <1>1, <2>1
<1>3. ASSUME NEW i \in K, NEW j \in K, <<i, j>> \in R
      PROVE  Rank(R, K, i) < Rank(R, K, j)
  <2>1. before(i) \in SUBSET before(j)
    BY <1>3 DEF StrictOrder
  <2>2. before(i) # before(j)
    <3>1. i \in before(j) /\ i \notin before(i)
      BY <1>3 DEF StrictOrder
    <3>2. QED
      BY <3>1
  <2> HIDE DEF before
  <2>3. /\ Cardinality(before(i)) <= Cardinality(before(j))
        /\ Cardinality(before(j)) = Cardinality(before(i)) => before(j) = before(i)
    BY <1>2, <2>1, FS_Subset
  <2>4. Rank(R, K, i) \in Nat /\ Rank(R, K, j) \in Nat
    BY <1>0
  <2>5. QED
    BY <1>2, <2>2, <2>3, <2>4
<1>4. ASSUME NEW i \in K, NEW j \in K, i # j
      PROVE  /\ Rank(R, K, i) # Rank(R, K, j)
             /\ <<i, j>> \in R <=> Rank(R, K, i) < Rank(R, K, j)
  <2>1. Rank(R, K, i) \in Nat /\ Rank(R, K, j) \in Nat
    BY <1>0
  <2>2. <<i, j>> \in R \/ <<j, i>> \in R
    BY <1>4 DEF StrictOrder
  <2>3. QED
    BY <1>3, <2>1, <2>2
<1>5. ranks = 0 .. n - 1
  <2>1. rank \in Bijection(K, ranks)
    <3>1. rank \in Injection(K, ranks)
      BY <1>4 DEF Injection, IsInjective
    <3>2. rank \in Surjection(K, ranks)
      BY DEF Surjection
    <3>3. QED
      BY <3>1, <3>2 DEF Bijection
  <2>2. IsFiniteSet(ranks) /\ Cardinality(ranks) = n
    BY <2>1, FS_Bijection DEF ExistsBijection
  <2>3. 0 \in Int /\ n - 1 \in Int
    BY <1>1
  <2>4. IsFiniteSet(0 .. n - 1) /\ Cardinality(0 .. n - 1) = n
    BY <1>1, <2>3, FS_Interval
  <2>5. ranks \in SUBSET (0 .. n - 1)
    BY <1>2
  <2> HIDE DEF ranks, n
  <2>6. QED
    BY <2>2, <2>4, <2>5, FS_Subset
<1>6. \A r \in 0 .. n - 1 : \E i \in K : Rank(R, K, i) = r
  BY <1>5
<1>8. ASSUME NEW i \in K, NEW j \in K
      PROVE  <<i, j>> \in R <=> Rank(R, K, i) < Rank(R, K, j)
  <2>1. CASE i = j
    <3>1. <<i, j>> \notin R
      BY <2>1 DEF StrictOrder
    <3>2. QED
      BY <1>0, <2>1, <3>1
  <2>2. CASE i # j
    BY <1>4, <2>2
  <2>3. QED
    BY <2>1, <2>2
<1>9. \A i, j \in K : Rank(R, K, i) = Rank(R, K, j) => i = j
  BY <1>4
<1> HIDE DEF n, before, rank, ranks
<1>10. QED
  BY <1>0, <1>1, <1>6, <1>8, <1>9 DEF n, Numbered

\* A finite set of numbers has a least and a greatest one.
LEMMA Extremes ==
    ASSUME NEW K \in SUBSET Int, IsFiniteSet(K), K # {}
    PROVE  /\ \E i \in K : \A j \in K : i <= j
           /\ \E i \in K : \A j \in K : j <= i
<1> DEFINE R == {p \in K \X K : p[1] < p[2]}
           n == Cardinality(K)
<1>1. \A i, j \in K : <<i, j>> \in R <=> i < j
  OBVIOUS
<1> HIDE DEF R
<1>2. StrictOrder(R, K)
  BY <1>1 DEF StrictOrder
<1>3. n \in Nat \ {0}
  BY FS_CardinalityType, FS_EmptySet
<1> HIDE DEF n
<1>4. /\ \A i \in K : Rank(R, K, i) \in 0 .. n - 1
      /\ \A i, j \in K : <<i, j>> \in R <=> Rank(R, K, i) < Rank(R, K, j)
      /\ \A r \in 0 .. n - 1 : \E i \in K : Rank(R, K, i) = r
  <2>1. Numbered(R, K)
    BY <1>2, Ranks
  <2>2. QED
    BY <2>1 DEF n, Numbered
<1>5. 0 \in 0 .. n - 1 /\ n - 1 \in 0 .. n - 1
  BY <1>3
<1>6. PICK least \in K, greatest \in K : Rank(R, K, least) = 0 /\ Rank(R, K, greatest) = n - 1
  BY <1>4, <1>5
<1>7. ASSUME NEW j \in K PROVE least <= j /\ j <= greatest
  <2>1. Rank(R, K, j) \in 0 .. n - 1
    BY <1>4
  <2>2. ~(Rank(R, K, j) < Rank(R, K, least)) /\ ~(Rank(R, K, greatest) < Rank(R, K, j))
    BY <1>3, <1>6, <2>1
  <2>3. <<j, least>> \notin R /\ <<greatest, j>> \notin R
    BY <1>4, <2>2
  <2>4. ~(j < least) /\ ~(greatest < j)
    BY <1>1, <2>3
  <2>5. QED
    BY <2>4
<1>8. QED
  BY <1>7

\* The keys of the dictionary are one position for each name that counts.
LEMMA KeysOfNames ==
    ASSUME NEW raw, IsRaw(raw)
    PROVE  /\ Kept(raw) \subseteq 1 .. Len(raw) /\ IsFiniteSet(Kept(raw))
           /\ Keys(raw) \subseteq Kept(raw) /\ IsFiniteSet(Keys(raw))
           /\ \A i, j \in Keys(raw) : raw[i].cap = raw[j].cap => i = j
           /\ \A i \in Kept(raw) : \E k \in Keys(raw) : raw[k].cap = raw[i].cap
<1>1. Kept(raw) \in SUBSET (1 .. Len(raw)) /\ Len(raw) \in Nat
  BY DEF Kept, IsRaw
<1>2. IsFiniteSet(1 .. Len(raw))
  BY <1>1, FS_Interval
<1>3. IsFiniteSet(Kept(raw)) /\ Kept(raw) \in SUBSET Int
  BY <1>1, <1>2, FS_Subset
<1>4. Keys(raw) \in SUBSET Kept(raw)
  BY DEF Keys
<1>5. IsFiniteSet(Keys(raw))
  BY <1>3, <1>4, FS_Subset
<1>6. ASSUME NEW i \in Keys(raw), NEW j \in Keys(raw), raw[i].cap = raw[j].cap PROVE i = j
  <2>1. i <= j /\ j <= i /\ i \in Int /\ j \in Int
    BY <1>3, <1>4, <1>6 DEF Keys
  <2>2. QED
    BY <2>1
<1>7. ASSUME NEW i \in Kept(raw) PROVE \E k \in Keys(raw) : raw[k].cap = raw[i].cap
  <2> DEFINE same == {j \in Kept(raw) : raw[j].cap = raw[i].cap}
  <2>1. same \in SUBSET Kept(raw) /\ same # {}
    OBVIOUS
  <2>2. IsFiniteSet(same) /\ same \in SUBSET Int
    BY <1>3, <2>1, FS_Subset
  <2> HIDE DEF same
  <2>3. PICK k \in same : \A j \in same : k <= j
    BY <2>1, <2>2, Extremes
  <2>4. k \in Keys(raw) /\ raw[k].cap = raw[i].cap
    BY <2>3 DEF same, Keys
  <2>5. QED
    BY <2>4
<1>8. QED
  BY <1>1, <1>3, <1>4, <1>5, <1>6, <1>7

\* What a key is worth is what its name was given last.
LEMMA ValueIsLast ==
    ASSUME NEW raw, IsRaw(raw), NEW i \in Keys(raw)
    PROVE  /\ raw[i].cap \in Caps
           /\ ValueAt(raw, i) \in 1 .. 100
           /\ ValueAt(raw, i) = LastDemand(raw, raw[i].cap)
<1> DEFINE c == raw[i].cap
           positive == {j \in DOMAIN raw : raw[j].cap = c /\ raw[j].demand > 0}
           last == CHOOSE j \in Kept(raw) :
                      /\ raw[j].cap = raw[i].cap
                      /\ \A k \in Kept(raw) : raw[k].cap = raw[i].cap => k <= j
           latest == CHOOSE j \in positive : \A k \in positive : k <= j
<1>1. i \in Kept(raw) /\ c \in Caps
  BY KeysOfNames DEF Kept
<1>2. /\ positive \in SUBSET Kept(raw) /\ positive # {}
      /\ \A j \in Kept(raw) : j \in positive <=> raw[j].cap = c
  BY <1>1 DEF Kept
<1>3. IsFiniteSet(positive) /\ positive \in SUBSET Int
  <2>1. IsFiniteSet(Kept(raw)) /\ Kept(raw) \in SUBSET Int
    BY KeysOfNames
  <2> HIDE DEF positive
  <2>2. QED
    BY <1>2, <2>1, FS_Subset
<1>4. PICK m \in positive : \A j \in positive : j <= m
  <2> HIDE DEF positive
  <2>1. QED
    BY <1>2, <1>3, Extremes
<1>5. \A m2 \in positive : (\A j \in positive : j <= m2) => m2 = m
  <2> HIDE DEF positive
  <2>1. ASSUME NEW m2 \in positive, \A j \in positive : j <= m2 PROVE m2 = m
    <3>1. m2 \in Int /\ m \in Int /\ m2 <= m /\ m <= m2
      BY <1>3, <1>4, <2>1
    <3>2. QED
      BY <3>1
  <2>2. QED
    BY <2>1
<1>6. latest = m
  <2> HIDE DEF positive
  <2>1. QED
    BY <1>4, <1>5
<1>7. last = m
  <2>1. /\ m \in Kept(raw) /\ raw[m].cap = c
        /\ \A k \in Kept(raw) : raw[k].cap = c => k <= m
    BY <1>2, <1>4
  <2>2. \A m2 \in Kept(raw) :
            raw[m2].cap = c /\ (\A k \in Kept(raw) : raw[k].cap = c => k <= m2) => m2 = m
    BY <1>2, <1>5
  <2>3. QED
    BY <2>1, <2>2
<1>8. ValueAt(raw, i) = Clamp(raw[m].demand, 0, 100)
  <2>1. ValueAt(raw, i) = Clamp(raw[last].demand, 0, 100)
    BY DEF ValueAt
  <2> HIDE DEF last
  <2>2. QED
    BY <1>7, <2>1
<1>9. LastDemand(raw, c) = AtMost(raw[m].demand, 100)
  <2>1. LastDemand(raw, c) = AtMost(raw[latest].demand, 100)
    BY <1>1, <1>2 DEF LastDemand
  <2> HIDE DEF latest
  <2>2. QED
    BY <1>6, <2>1
<1>10. raw[m].demand \in Int /\ raw[m].demand > 0
  BY <1>4 DEF IsRaw
<1>11. Clamp(raw[m].demand, 0, 100) = AtMost(raw[m].demand, 100)
       /\ AtMost(raw[m].demand, 100) \in 1 .. 100
  BY <1>10 DEF Clamp, AtMost, AtLeast
<1>12. QED
  BY <1>1, <1>8, <1>9, <1>11

\* The keys are ranked by what they are worth, then by place.
LEMMA KeysAreRanked ==
    ASSUME NEW raw, IsRaw(raw)
    PROVE  /\ Cardinality(Keys(raw)) \in Nat
           /\ Keys(raw) = {} <=> Cardinality(Keys(raw)) = 0
           /\ \A i \in Keys(raw) : RankOf(raw, i) \in 0 .. Cardinality(Keys(raw)) - 1
           /\ \A i, j \in Keys(raw) :
                 RankOf(raw, i) < RankOf(raw, j) => ValueAt(raw, i) >= ValueAt(raw, j)
           /\ \A i, j \in Keys(raw) : RankOf(raw, i) = RankOf(raw, j) => i = j
           /\ \A r \in 0 .. Cardinality(Keys(raw)) - 1 : \E i \in Keys(raw) : RankOf(raw, i) = r
<1> DEFINE K == Keys(raw)
           value == [i \in K |-> ValueAt(raw, i)]
           R == {p \in K \X K : value[p[1]] > value[p[2]]
                                   \/ (value[p[1]] = value[p[2]] /\ p[1] < p[2])}
<1>1. \A i, j \in K : <<i, j>> \in R <=> value[i] > value[j] \/ (value[i] = value[j] /\ i < j)
  OBVIOUS
<1>2. \A i \in K : RankOf(raw, i) = Rank(R, K, i)
  <2> SUFFICES ASSUME NEW i \in K PROVE RankOf(raw, i) = Rank(R, K, i)
    OBVIOUS
  <2>1. {j \in K : \/ ValueAt(raw, j) > ValueAt(raw, i)
                   \/ ValueAt(raw, j) = ValueAt(raw, i) /\ j < i} = {j \in K : <<j, i>> \in R}
    BY <1>1
  <2> HIDE DEF R
  <2>2. QED
    BY <2>1 DEF RankOf, Rank
<1>3. \A i \in K : value[i] \in Int /\ i \in Int /\ value[i] = ValueAt(raw, i)
  BY ValueIsLast, KeysOfNames
<1>4. IsFiniteSet(K)
  BY KeysOfNames
<1> HIDE DEF K, value, R
<1>5. StrictOrder(R, K)
  BY <1>1, <1>3 DEF StrictOrder
<1>6. /\ Cardinality(K) \in Nat
      /\ \A i \in K : Rank(R, K, i) \in 0 .. Cardinality(K) - 1
      /\ \A i, j \in K : <<i, j>> \in R <=> Rank(R, K, i) < Rank(R, K, j)
      /\ \A i, j \in K : Rank(R, K, i) = Rank(R, K, j) => i = j
      /\ \A r \in 0 .. Cardinality(K) - 1 : \E i \in K : Rank(R, K, i) = r
  <2>1. Numbered(R, K)
    BY <1>4, <1>5, Ranks
  <2>2. QED
    BY <2>1 DEF Numbered
<1>7. K = {} <=> Cardinality(K) = 0
  BY <1>4, FS_EmptySet
<1>8. ASSUME NEW i \in K, NEW j \in K, RankOf(raw, i) < RankOf(raw, j)
      PROVE  ValueAt(raw, i) >= ValueAt(raw, j)
  <2>1. <<i, j>> \in R
    BY <1>2, <1>6, <1>8
  <2>2. value[i] > value[j] \/ value[i] = value[j]
    BY <1>1, <2>1
  <2>3. QED
    BY <1>3, <2>2
<1>9. \A i \in K : RankOf(raw, i) \in 0 .. Cardinality(K) - 1
  BY <1>2, <1>6
<1>10. \A i, j \in K : RankOf(raw, i) = RankOf(raw, j) => i = j
  BY <1>2, <1>6
<1>11. \A r \in 0 .. Cardinality(K) - 1 : \E i \in K : RankOf(raw, i) = r
  BY <1>2, <1>6
<1>12. QED
  BY <1>6, <1>7, <1>8, <1>9, <1>10, <1>11 DEF K

\* As many names are wanted as there are keys.
LEMMA WantedNames ==
    ASSUME NEW raw, IsRaw(raw), NEW wanted, wanted = {c \in Caps : LastDemand(raw, c) > 0}
    PROVE  /\ wanted = {raw[k].cap : k \in Keys(raw)}
           /\ Cardinality(wanted) = Cardinality(Keys(raw))
           /\ wanted = {} <=> Keys(raw) = {}
<1> DEFINE cap == [k \in Keys(raw) |-> raw[k].cap]
<1>1. ASSUME NEW c \in wanted PROVE \E k \in Keys(raw) : raw[k].cap = c
  <2>1. c \in Caps /\ LastDemand(raw, c) > 0
    OBVIOUS
  <2>2. PICK i \in DOMAIN raw : raw[i].cap = c /\ raw[i].demand > 0
    <3> DEFINE positive == {i \in DOMAIN raw : raw[i].cap = c /\ raw[i].demand > 0}
    <3>1. positive = {} => LastDemand(raw, c) = 0
      BY DEF LastDemand
    <3>2. ~(LastDemand(raw, c) = 0)
      BY <2>1
    <3>3. positive # {}
      BY <3>1, <3>2
    <3>4. QED
      BY <3>3
  <2>3. i \in Kept(raw)
    BY <2>1, <2>2 DEF Kept
  <2>4. QED
    BY <2>2, <2>3, KeysOfNames
<1>2. ASSUME NEW k \in Keys(raw) PROVE raw[k].cap \in wanted
  <2>1. raw[k].cap \in Caps /\ LastDemand(raw, raw[k].cap) \in 1 .. 100
    BY ValueIsLast
  <2>2. QED
    BY <2>1
<1>3. wanted = {raw[k].cap : k \in Keys(raw)}
  BY <1>1, <1>2
<1> HIDE DEF cap
<1>4. cap \in Bijection(Keys(raw), wanted)
  <2>1. cap \in [Keys(raw) -> wanted] /\ \A k \in Keys(raw) : cap[k] = raw[k].cap
    BY <1>2 DEF cap
  <2>2. \A i, j \in Keys(raw) : cap[i] = cap[j] => i = j
    BY <2>1, KeysOfNames
  <2>3. \A c \in wanted : \E k \in Keys(raw) : cap[k] = c
    BY <1>1, <2>1
  <2>4. QED
    BY <2>1, <2>2, <2>3 DEF Bijection, Injection, Surjection, IsInjective
<1>5. Cardinality(wanted) = Cardinality(Keys(raw))
  BY <1>4, KeysOfNames, FS_Bijection DEF ExistsBijection
<1>6. QED
  BY <1>3, <1>5

\* Whatever a client sends, the mix the router works with is its normal form.
THEOREM NormalizeIsRight ==
    ASSUME NEW raw, IsRaw(raw)
    PROVE  IsNormalFormOf(Normalize(raw), raw)
<1> DEFINE mix == Normalize(raw)
           wanted == {c \in Caps : LastDemand(raw, c) > 0}
           K == Keys(raw)
           n == Cardinality(K)
           m == AtMost(n, 3)
<1>1. /\ wanted = {raw[k].cap : k \in K} /\ Cardinality(wanted) = n
      /\ wanted = {} <=> K = {}
  BY WantedNames
<1>2. /\ n \in Nat /\ (K = {} <=> n = 0)
      /\ \A i \in K : RankOf(raw, i) \in 0 .. n - 1
      /\ \A i, j \in K : RankOf(raw, i) < RankOf(raw, j) => ValueAt(raw, i) >= ValueAt(raw, j)
      /\ \A i, j \in K : RankOf(raw, i) = RankOf(raw, j) => i = j
      /\ \A r \in 0 .. n - 1 : \E i \in K : RankOf(raw, i) = r
  BY KeysAreRanked
<1>3. \A i \in K : /\ raw[i].cap \in Caps /\ ValueAt(raw, i) \in 1 .. 100
                   /\ ValueAt(raw, i) = LastDemand(raw, raw[i].cap)
  BY ValueIsLast
<1>4. CASE K = {}
  <2>1. mix = DefaultMix
    BY <1>4 DEF Normalize
  <2>2. DefaultMix \in Mix
    BY GeneralAssumption DEF DefaultMix, Mix, Entry
  <2> HIDE DEF mix
  <2>3. QED
    BY <1>1, <1>4, <2>1, <2>2 DEF IsNormalFormOf, mix
<1>5. CASE K # {}
  <2> DEFINE key(r) == CHOOSE i \in K : RankOf(raw, i) = r - 1
  <2>1. m \in 1 .. 3 /\ m <= n /\ (m < n => m = 3)
    BY <1>2, <1>5 DEF AtMost
  <2>2. mix = [r \in 1 .. m |-> [cap |-> raw[key(r)].cap, demand |-> ValueAt(raw, key(r))]]
    BY <1>5 DEF Normalize, Largest
  <2>3. ASSUME NEW r \in 1 .. m PROVE key(r) \in K /\ RankOf(raw, key(r)) = r - 1
    <3>1. r - 1 \in 0 .. n - 1
      BY <1>2, <2>1
    <3>2. \E i \in K : RankOf(raw, i) = r - 1
      BY <1>2, <3>1
    <3>3. QED
      BY <3>2
  <2> HIDE DEF mix, key, m, n, wanted, K
  <2>4. ASSUME NEW r \in 1 .. m
        PROVE  /\ mix[r].cap = raw[key(r)].cap /\ mix[r].demand = ValueAt(raw, key(r))
               /\ mix[r] \in Entry
    <3>1. mix[r] = [cap |-> raw[key(r)].cap, demand |-> ValueAt(raw, key(r))]
      BY <2>2
    <3>2. QED
      BY <1>3, <2>3, <3>1 DEF Entry
  <2>5. mix \in Mix /\ Len(mix) = m /\ DOMAIN mix = 1 .. m
    <3>1. mix = [r \in 1 .. m |-> mix[r]]
      BY <2>2
    <3>2. mix \in Seq(Entry) /\ Len(mix) = m /\ DOMAIN mix = 1 .. m
      BY <2>1, <2>4, <3>1
    <3>3. QED
      BY <2>1, <3>2 DEF Mix
  <2>6. \A i \in 1 .. m : mix[i].demand = LastDemand(raw, mix[i].cap)
    BY <1>3, <2>3, <2>4
  <2>7. ASSUME NEW i \in 1 .. m, NEW j \in 1 .. m, i < j
        PROVE  mix[i].cap # mix[j].cap /\ mix[i].demand >= mix[j].demand
    <3>1. RankOf(raw, key(i)) < RankOf(raw, key(j)) /\ key(i) # key(j)
      BY <2>1, <2>3, <2>7
    <3>2. raw[key(i)].cap # raw[key(j)].cap
      BY <2>3, <3>1, KeysOfNames DEF K
    <3>3. ValueAt(raw, key(i)) >= ValueAt(raw, key(j))
      BY <1>2, <2>3, <3>1
    <3>4. QED
      BY <2>4, <3>2, <3>3
  <2>8. ASSUME NEW c \in wanted \ CapsOf(mix), NEW i \in 1 .. m
        PROVE  mix[i].demand >= LastDemand(raw, c)
    <3>1. PICK k \in K : raw[k].cap = c
      BY <1>1
    <3>2. ~(RankOf(raw, k) < m)
      <4> SUFFICES ASSUME RankOf(raw, k) < m PROVE FALSE
        OBVIOUS
      <4>1. RankOf(raw, k) \in 0 .. n - 1
        BY <1>2
      <4>2. RankOf(raw, k) + 1 \in 1 .. m /\ (RankOf(raw, k) + 1) - 1 = RankOf(raw, k)
        BY <1>2, <2>1, <4>1
      <4>3. PICK r \in 1 .. m : r - 1 = RankOf(raw, k)
        BY <4>2
      <4>4. key(r) = k
        BY <1>2, <2>3, <4>3
      <4>5. mix[r].cap = c
        BY <2>4, <3>1, <4>4
      <4>6. c \in CapsOf(mix)
        BY <2>5, <4>5 DEF CapsOf
      <4>7. QED
        BY <2>8, <4>6
    <3>3. RankOf(raw, key(i)) < RankOf(raw, k)
      <4>1. RankOf(raw, k) \in 0 .. n - 1 /\ RankOf(raw, key(i)) = i - 1
        BY <1>2, <2>3
      <4>2. QED
        BY <1>2, <2>1, <3>2, <4>1
    <3>4. ValueAt(raw, key(i)) >= ValueAt(raw, k)
      BY <1>2, <2>3, <3>3
    <3>5. QED
      BY <1>3, <2>4, <3>1, <3>4
  <2>9. wanted # {} /\ m = AtMost(Cardinality(wanted), 3)
    BY <1>1, <1>5 DEF m
  <2>10. QED
    BY <2>5, <2>6, <2>7, <2>8, <2>9 DEF IsNormalFormOf, mix, wanted
<1>6. QED
  BY <1>4, <1>5

\* What is looked up for a mix that a client sent covers it.
THEOREM DiscoveryIsRight ==
    ASSUME NEW raw, IsRaw(raw)
    PROVE  IsCoverOf(DiscoveryCapabilities(Normalize(raw)), Normalize(raw))
<1> DEFINE mix == Normalize(raw)
           meaningful == {i \in DOMAIN mix : mix[i].demand >= 30}
           wanted == {c \in Caps : LastDemand(raw, c) > 0}
<1>1. IsNormalFormOf(mix, raw)
  BY NormalizeIsRight
<1> HIDE DEF mix
<1>2. mix \in Mix
  BY <1>1 DEF IsNormalFormOf
<1>3. /\ 1 \in DOMAIN mix /\ DOMAIN mix \subseteq Nat \ {0}
      /\ \A i \in DOMAIN mix : mix[i].demand \in Int
  <2>1. mix \in Seq(Entry) /\ Len(mix) \in Nat /\ Len(mix) >= 1
    BY <1>2 DEF Mix
  <2>2. DOMAIN mix = 1 .. Len(mix)
    BY <2>1
  <2>3. \A i \in DOMAIN mix : mix[i] \in Entry
    BY <2>1
  <2>4. \A i \in DOMAIN mix : mix[i].demand \in Int
    BY <2>3 DEF Entry
  <2>5. QED
    BY <2>1, <2>2, <2>4
<1>4. \A i, j \in DOMAIN mix :
         i < j => mix[i].cap # mix[j].cap /\ mix[i].demand >= mix[j].demand
  <2>1. CASE wanted = {}
    <3>1. mix = DefaultMix
      BY <1>1, <2>1 DEF IsNormalFormOf
    <3>2. QED
      BY <3>1 DEF DefaultMix
  <2>2. CASE wanted # {}
    BY <1>1, <2>2 DEF IsNormalFormOf
  <2>3. QED
    BY <2>1, <2>2
<1>5. \A i, j \in DOMAIN mix : mix[i].cap = mix[j].cap => i = j
  <2> SUFFICES ASSUME NEW i \in DOMAIN mix, NEW j \in DOMAIN mix, mix[i].cap = mix[j].cap
               PROVE  i = j
    OBVIOUS
  <2>1. ~(i < j) /\ ~(j < i) /\ i \in Int /\ j \in Int
    BY <1>3, <1>4
  <2>2. QED
    BY <2>1
<1>6. CASE meaningful = {}
  <2>1. DiscoveryCapabilities(mix) = {mix[1].cap}
    BY <1>6 DEF DiscoveryCapabilities
  <2>2. QED
    BY <1>3, <1>5, <1>6, <2>1 DEF IsCoverOf, mix
<1>7. CASE meaningful # {}
  <2>1. DiscoveryCapabilities(mix) = {mix[i].cap : i \in meaningful}
    BY <1>7 DEF DiscoveryCapabilities
  <2>2. PICK k \in meaningful : k \in DOMAIN mix /\ mix[k].demand >= 30
    BY <1>7
  <2>3. mix[1].demand >= 30
    <3>1. k = 1 \/ 1 < k
      BY <1>3, <2>2
    <3>2. k # 1 => mix[1].demand >= mix[k].demand
      BY <1>3, <1>4, <2>2, <3>1
    <3>3. QED
      BY <1>3, <2>2, <3>2
  <2>4. ASSUME NEW i \in DOMAIN mix
        PROVE  mix[i].cap \in DiscoveryCapabilities(mix) <=> i = 1 \/ mix[i].demand >= 30
    <3>1. mix[i].cap \in DiscoveryCapabilities(mix) <=> i \in meaningful
      BY <1>5, <2>1
    <3>2. QED
      BY <2>3, <3>1
  <2>5. QED
    BY <1>3, <2>4 DEF IsCoverOf, mix
<1>8. QED
  BY <1>6, <1>7

-----------------------------------------------------------------------------
(* The classification of a query, for every reply of the language model.    *)

\* A mix that is sorted and names nothing twice is its own normal form.
LEMMA SortedMixIsNormal ==
    ASSUME NEW mix \in Mix,
           \A i, j \in DOMAIN mix :
               i < j => mix[i].cap # mix[j].cap /\ mix[i].demand >= mix[j].demand
    PROVE  Normalize(mix) = mix
<1> DEFINE n == Len(mix)
           key(r) == CHOOSE i \in 1 .. n : RankOf(mix, i) = r - 1
<1>1. mix \in Seq(Entry) /\ n \in 1 .. 3 /\ DOMAIN mix = 1 .. n
  <2>1. mix \in Seq(Entry) /\ n \in 1 .. 3
    BY DEF Mix
  <2>2. QED
    BY <2>1
<1>2. \A i \in 1 .. n : /\ mix[i].cap \in Caps /\ mix[i].demand \in 1 .. 100
                        /\ mix[i] = [cap |-> mix[i].cap, demand |-> mix[i].demand]
  <2>1. \A i \in 1 .. n : mix[i] \in Entry
    BY <1>1
  <2>2. QED
    BY <2>1 DEF Entry
<1> HIDE DEF n
<1>3. \A i, j \in 1 .. n : mix[i].cap = mix[j].cap => i = j
  <2> SUFFICES ASSUME NEW i \in 1 .. n, NEW j \in 1 .. n, mix[i].cap = mix[j].cap PROVE i = j
    OBVIOUS
  <2>1. ~(i < j) /\ ~(j < i)
    BY <1>1
  <2>2. QED
    BY <1>1, <2>1
<1>4. Kept(mix) = 1 .. n
  <2>1. ASSUME NEW i \in 1 .. n PROVE mix[i].cap \in Caps /\ mix[i].demand > 0
    <3>1. mix[i].cap \in Caps /\ mix[i].demand \in 1 .. 100
      BY <1>2
    <3>2. QED
      BY <3>1
  <2>2. QED
    BY <1>1, <2>1 DEF Kept
<1>5. Keys(mix) = 1 .. n
  BY <1>1, <1>3, <1>4 DEF Keys
<1>6. ASSUME NEW i \in 1 .. n PROVE ValueAt(mix, i) = mix[i].demand
  <2> DEFINE last == CHOOSE j \in Kept(mix) :
                        /\ mix[j].cap = mix[i].cap
                        /\ \A k \in Kept(mix) : mix[k].cap = mix[i].cap => k <= j
  <2>1. /\ i \in Kept(mix) /\ \A k \in Kept(mix) : mix[k].cap = mix[i].cap => k <= i
        /\ \A j \in Kept(mix) : mix[j].cap = mix[i].cap => j = i
    BY <1>1, <1>3, <1>4
  <2>2. last = i
    BY <2>1
  <2>3. ValueAt(mix, i) = Clamp(mix[last].demand, 0, 100)
    BY DEF ValueAt
  <2> HIDE DEF last
  <2>4. mix[i].demand \in 1 .. 100
    BY <1>2
  <2>5. Clamp(mix[i].demand, 0, 100) = mix[i].demand
    BY <2>4 DEF Clamp, AtMost, AtLeast
  <2>6. QED
    BY <2>2, <2>3, <2>5
<1>7. ASSUME NEW i \in 1 .. n PROVE RankOf(mix, i) = i - 1
  <2> DEFINE before == {j \in Keys(mix) :
                \/ ValueAt(mix, j) > ValueAt(mix, i)
                \/ ValueAt(mix, j) = ValueAt(mix, i) /\ j < i}
  <2>1. ASSUME NEW j \in 1 .. n PROVE j \in before <=> j < i
    <3>1. mix[i].demand \in Int /\ mix[j].demand \in Int
      <4>1. mix[i].demand \in 1 .. 100 /\ mix[j].demand \in 1 .. 100
        BY <1>2
      <4>2. QED
        BY <4>1
    <3>2. /\ j < i => mix[j].demand >= mix[i].demand
          /\ i < j => mix[i].demand >= mix[j].demand
      BY <1>1
    <3>3. ValueAt(mix, i) = mix[i].demand /\ ValueAt(mix, j) = mix[j].demand
      BY <1>6
    <3>4. j < i \/ j = i \/ i < j
      BY <1>1
    <3>5. QED
      BY <1>1, <1>5, <3>1, <3>2, <3>3, <3>4
  <2>2. before = 1 .. i - 1
    <3>1. before \subseteq 1 .. n
      BY <1>5
    <3> HIDE DEF before
    <3>2. \A j \in 1 .. i - 1 : j \in 1 .. n /\ j < i
      BY <1>1
    <3>3. \A j \in 1 .. n : j < i => j \in 1 .. i - 1
      BY <1>1
    <3>4. QED
      BY <2>1, <3>1, <3>2, <3>3
  <2>3. Cardinality(1 .. i - 1) = i - 1
    BY <1>1, FS_Interval
  <2>4. QED
    BY <2>2, <2>3 DEF RankOf
<1>8. ASSUME NEW r \in 1 .. n PROVE key(r) = r
  <2>1. RankOf(mix, r) = r - 1 /\ \A i \in 1 .. n : RankOf(mix, i) = r - 1 => i = r
    BY <1>1, <1>7
  <2>2. QED
    BY <2>1
<1>9. Cardinality(Keys(mix)) = n /\ AtMost(n, 3) = n /\ Keys(mix) # {}
  <2>1. Cardinality(1 .. n) = n
    BY <1>1, FS_Interval
  <2>2. 1 \in 1 .. n /\ ~(n > 3) /\ n \in Int
    BY <1>1
  <2>3. AtMost(n, 3) = n
    BY <1>1 DEF AtMost
  <2>4. QED
    BY <1>5, <2>1, <2>2, <2>3
<1>10. Normalize(mix) =
         [r \in 1 .. n |-> [cap |-> mix[key(r)].cap, demand |-> ValueAt(mix, key(r))]]
  BY <1>5, <1>9 DEF Normalize, Largest
<1>11. \A r \in 1 .. n :
         [cap |-> mix[key(r)].cap, demand |-> ValueAt(mix, key(r))] = mix[r]
  BY <1>2, <1>6, <1>8
<1>12. mix = [r \in 1 .. n |-> mix[r]]
  BY <1>1
<1>13. QED
  BY <1>10, <1>11, <1>12

\* The largest needs are a normal form, and normalising them again changes
\* nothing.
LEMMA LargestIsNormal ==
    ASSUME NEW raw, IsRaw(raw)
    PROVE  /\ Keys(raw) = {} => Largest(raw) = <<>>
           /\ Keys(raw) # {} => IsNormalFormOf(Largest(raw), raw)
                                /\ Normalize(Largest(raw)) = Largest(raw)
<1> DEFINE mix == Largest(raw)
           wanted == {c \in Caps : LastDemand(raw, c) > 0}
<1>1. ASSUME Keys(raw) = {} PROVE mix = <<>>
  <2>1. Cardinality(Keys(raw)) = 0
    BY <1>1, FS_EmptySet
  <2>2. AtMost(Cardinality(Keys(raw)), 3) = 0
    BY <2>1 DEF AtMost
  <2>3. 1 .. 0 = {}
    OBVIOUS
  <2>4. mix = [r \in 1 .. 0 |-> 
                  LET i == CHOOSE i \in Keys(raw) : RankOf(raw, i) = r - 1
                  IN  [cap |-> raw[i].cap, demand |-> ValueAt(raw, i)]]
    BY <2>2 DEF Largest
  <2>5. QED
    BY <2>3, <2>4
<1>2. ASSUME Keys(raw) # {} PROVE IsNormalFormOf(mix, raw) /\ Normalize(mix) = mix
  <2>1. IsNormalFormOf(mix, raw)
    BY <1>2, NormalizeIsRight DEF Normalize
  <2>2. wanted # {}
    BY <1>2, WantedNames
  <2> HIDE DEF mix
  <2>3. mix \in Mix /\ \A i, j \in DOMAIN mix :
              i < j => mix[i].cap # mix[j].cap /\ mix[i].demand >= mix[j].demand
    BY <2>1, <2>2 DEF IsNormalFormOf
  <2>4. QED
    BY <2>1, <2>3, SortedMixIsNormal
<1>3. QED
  BY <1>1, <1>2

\* One need is a mix of its own.
LEMMA OneNeedIsNormal ==
    ASSUME NEW c \in Caps, NEW d \in 1 .. 100
    PROVE  /\ <<[cap |-> c, demand |-> d]>> \in Mix
           /\ Normalize(<<[cap |-> c, demand |-> d]>>) = <<[cap |-> c, demand |-> d]>>
<1> DEFINE e == [cap |-> c, demand |-> d]
<1>1. e \in Entry
  BY DEF Entry
<1> HIDE DEF e
<1>2. <<e>> \in Mix
  BY <1>1 DEF Mix
<1>3. \A i, j \in DOMAIN <<e>> : ~(i < j)
  OBVIOUS
<1>4. Normalize(<<e>>) = <<e>>
  BY <1>2, <1>3, SortedMixIsNormal
<1>5. QED
  BY <1>2, <1>4 DEF e

\* The items of an object, as the demands the sort is about.
LEMMA DemandsOfEntries ==
    ASSUME NEW entries, Len(entries) \in Nat, DOMAIN entries = 1 .. Len(entries),
           \A k \in DOMAIN entries :
               entries[k].value.number \in BOOLEAN /\ entries[k].value.n \in Int
    PROVE  /\ IsRaw(Demands(entries))
           /\ \A k \in DOMAIN entries :
                 Demands(entries)[k].cap = entries[k].cap
                 /\ Demands(entries)[k].demand =
                        IF entries[k].value.number THEN entries[k].value.n ELSE 0
           /\ Keys(Demands(entries)) = {} <=>
                 ~\E k \in DOMAIN entries :
                     entries[k].cap \in Caps /\ entries[k].value.number /\ entries[k].value.n > 0
<1> DEFINE n == Len(entries)
           raw == Demands(entries)
           item(k) == [cap |-> entries[k].cap,
                       demand |-> IF entries[k].value.number THEN entries[k].value.n ELSE 0]
<1>1. raw = [k \in 1 .. n |-> item(k)]
  BY DEF Demands
<1> HIDE DEF item, raw
<1>2. DOMAIN raw = 1 .. n /\ Len(raw) = n /\ \A k \in 1 .. n : raw[k] = item(k)
  <2> HIDE DEF n
  <2>1. n \in Nat
    BY DEF n
  <2>2. QED
    BY <1>1, <2>1
<1>3. ASSUME NEW k \in 1 .. n
      PROVE  /\ raw[k].cap = entries[k].cap /\ raw[k].demand \in Int
             /\ raw[k].demand = IF entries[k].value.number THEN entries[k].value.n ELSE 0
  <2>1. raw[k] = item(k) /\ entries[k].value.n \in Int
    BY <1>2
  <2>2. QED
    BY <2>1 DEF item
<1>4. IsRaw(raw)
  BY <1>2, <1>3 DEF IsRaw
<1>5. Keys(raw) = {} <=> Kept(raw) = {}
  BY <1>4, KeysOfNames
<1>6. Kept(raw) = {} <=>
        ~\E k \in 1 .. n :
            entries[k].cap \in Caps /\ entries[k].value.number /\ entries[k].value.n > 0
  <2>1. ASSUME NEW k \in 1 .. n
        PROVE  k \in Kept(raw) <=>
                  entries[k].cap \in Caps /\ entries[k].value.number /\ entries[k].value.n > 0
    <3>1. ~(0 > 0)
      OBVIOUS
    <3>2. k \in Kept(raw) <=> entries[k].cap \in Caps /\ raw[k].demand > 0
      BY <1>2, <1>3 DEF Kept
    <3>3. QED
      BY <1>3, <3>1, <3>2
  <2>2. Kept(raw) \subseteq 1 .. n
    BY <1>2 DEF Kept
  <2>3. QED
    BY <2>1, <2>2
<1>7. QED
  BY <1>3, <1>4, <1>5, <1>6 DEF raw

\* The object that is read is the last that parses.
LEMMA ParsedIsLast ==
    ASSUME NEW objects, NEW words, IsReply(objects, words)
    PROVE  \/ Parsed(objects) = Broken /\ \A i \in DOMAIN objects : objects[i].form = "broken"
           \/ \E i \in DOMAIN objects :
                 /\ Parsed(objects) = objects[i] /\ objects[i].form # "broken"
                 /\ \A j \in DOMAIN objects : objects[j].form # "broken" => j <= i
<1> DEFINE R == Readable(objects)
<1>1. Len(objects) \in Nat /\ DOMAIN objects = 1 .. Len(objects)
  BY DEF IsReply
<1>2. IsFiniteSet(R) /\ R \in SUBSET Int
  <2>1. R \subseteq 1 .. Len(objects)
    BY <1>1 DEF Readable
  <2> HIDE DEF R
  <2>2. IsFiniteSet(1 .. Len(objects)) /\ 1 .. Len(objects) \subseteq Int
    BY <1>1, FS_Interval
  <2>3. QED
    BY <2>1, <2>2, FS_Subset
<1>3. CASE R = {}
  BY <1>3 DEF Parsed, Readable
<1>4. CASE R # {}
  <2> DEFINE last == CHOOSE i \in R : \A j \in R : j <= i
  <2>1. \E i \in R : \A j \in R : j <= i
    <3> HIDE DEF R
    <3>1. QED
      BY <1>2, <1>4, Extremes
  <2>2. last \in R /\ \A j \in R : j <= last
    <3> HIDE DEF R
    <3>1. QED
      BY <2>1
  <2>3. Parsed(objects) = objects[last]
    BY <1>4 DEF Parsed
  <2> HIDE DEF last
  <2>4. QED
    BY <2>2, <2>3 DEF Readable
<1>5. QED
  BY <1>3, <1>4

\* A pair that says something is the one need it names.
LEMMA PairIsNormal ==
    ASSUME NEW entries, DOMAIN entries = 1 .. 1, Len(entries) = 1,
           entries[1].cap \in Caps, entries[1].value.number = TRUE,
           entries[1].value.n \in 1 .. 100
    PROVE  /\ IsNormalFormOf(PairScores(entries[1]), Demands(entries))
           /\ Normalize(PairScores(entries[1])) = PairScores(entries[1])
<1> DEFINE c == entries[1].cap
           d == entries[1].value.n
           raw == Demands(entries)
           mix == <<[cap |-> c, demand |-> d]>>
           wanted == {x \in Caps : LastDemand(raw, x) > 0}
<1>1. \A x \in 1 .. 100 : x > 0 /\ x \in 0 .. 100 /\ x \in Int /\ AtMost(x, 100) = x
  BY DEF AtMost
<1>2. PairScores(entries[1]) = mix
  BY <1>1 DEF PairScores, InRange
<1>3. DOMAIN raw = 1 .. 1 /\ raw[1].cap = c /\ raw[1].demand = d
  BY DEF Demands
<1>4. mix \in Mix /\ Normalize(mix) = mix
  BY OneNeedIsNormal
<1> HIDE DEF c, d, raw
<1>5. c \in Caps /\ d \in 1 .. 100
  BY DEF c, d
<1>6. ASSUME NEW x \in Caps PROVE LastDemand(raw, x) = IF x = c THEN d ELSE 0
  <2> DEFINE positive == {i \in DOMAIN raw : raw[i].cap = x /\ raw[i].demand > 0}
  <2>1. CASE x = c
    <3>1. positive = {1}
      BY <1>1, <1>3, <1>5, <2>1
    <3>2. (CHOOSE i \in positive : \A j \in positive : j <= i) = 1
      <4> HIDE DEF positive
      <4>1. QED
        BY <3>1
    <3>3. LastDemand(raw, x) = AtMost(raw[1].demand, 100)
      BY <3>1, <3>2 DEF LastDemand
    <3>4. QED
      BY <1>1, <1>3, <1>5, <2>1, <3>3
  <2>2. CASE x # c
    <3>1. positive = {}
      BY <1>3, <2>2
    <3>2. QED
      BY <2>2, <3>1 DEF LastDemand
  <2>3. QED
    BY <2>1, <2>2
<1>7. wanted = {c}
  <2>1. ~(0 > 0) /\ d > 0
    BY <1>1, <1>5
  <2>2. QED
    BY <1>5, <1>6, <2>1
<1>8. Len(mix) = 1 /\ DOMAIN mix = 1 .. 1 /\ mix[1].cap = c /\ mix[1].demand = d
  OBVIOUS
<1>9. AtMost(Cardinality(wanted), 3) = 1
  <2>1. Cardinality({c}) = 1
    BY FS_Singleton
  <2>2. QED
    BY <1>7, <2>1 DEF AtMost
<1>10. CapsOf(mix) = {c}
  BY <1>8 DEF CapsOf
<1> HIDE DEF mix
<1>11. IsNormalFormOf(mix, raw)
  <2>1. \A i \in DOMAIN mix : mix[i].demand = LastDemand(raw, mix[i].cap)
    BY <1>5, <1>6, <1>8
  <2>2. \A i, j \in DOMAIN mix : ~(i < j)
    BY <1>8
  <2>3. wanted \ CapsOf(mix) = {} /\ wanted # {}
    BY <1>7, <1>10
  <2> HIDE DEF wanted
  <2>4. QED
    BY <1>4, <1>8, <1>9, <2>1, <2>2, <2>3 DEF IsNormalFormOf, wanted, mix
<1>12. QED
  BY <1>2, <1>4, <1>11 DEF raw

\* The scores of a usable object are its largest needs; of any other reply
\* there are none.
LEMMA ScoresAreNormal ==
    ASSUME NEW objects, NEW words, IsReply(objects, words)
    PROVE  LET scores == ParseScores(objects) IN
           /\ \A i \in Usable(objects) :
                 /\ IsNormalFormOf(scores, Demands(objects[i].entries))
                 /\ Normalize(scores) = scores
           /\ Usable(objects) = {} => scores = <<>>
<1> DEFINE scores == ParseScores(objects)
           Needed(entries) == \E k \in DOMAIN entries :
                entries[k].cap \in Caps /\ entries[k].value.number /\ entries[k].value.n > 0
<1>1. Len(objects) \in Nat /\ DOMAIN objects = 1 .. Len(objects)
  BY DEF IsReply
<1>2. CASE Parsed(objects) = Broken /\ \A i \in DOMAIN objects : objects[i].form = "broken"
  <2>1. Usable(objects) = {}
    BY <1>2 DEF Usable
  <2>2. scores = <<>>
    BY <1>2 DEF ParseScores, Broken
  <2>3. QED
    BY <2>1, <2>2
<1>3. CASE \E i \in DOMAIN objects :
              /\ Parsed(objects) = objects[i] /\ objects[i].form # "broken"
              /\ \A j \in DOMAIN objects : objects[j].form # "broken" => j <= i
  <2>1. PICK i \in DOMAIN objects :
              /\ Parsed(objects) = objects[i] /\ objects[i].form # "broken"
              /\ \A j \in DOMAIN objects : objects[j].form # "broken" => j <= i
    BY <1>3
  <2> DEFINE entries == objects[i].entries
  <2>2. /\ objects[i].form \in {"scores", "pair"}
        /\ Len(entries) \in Nat /\ DOMAIN entries = 1 .. Len(entries)
        /\ objects[i].form = "pair" => Len(entries) = 1
        /\ \A k \in DOMAIN entries :
              entries[k].value.number \in BOOLEAN /\ entries[k].value.n \in Int
    BY <2>1 DEF IsReply
  <2>3. /\ IsRaw(Demands(entries))
        /\ Keys(Demands(entries)) = {} <=> ~Needed(entries)
    <3> HIDE DEF entries
    <3>1. QED
      BY <2>2, DemandsOfEntries
  <2>4. Spoiled(entries) <=>
            \E k \in DOMAIN entries :
                entries[k].cap \in Caps /\ entries[k].value.number
                /\ entries[k].value.n \notin 0 .. 100
    <3> HIDE DEF entries
    <3>1. QED
      BY DEF Spoiled, InRange
  <2>5. \A j \in DOMAIN objects : j > i => objects[j].form = "broken"
    BY <1>1, <2>1
  <2>6. Usable(objects) = IF Needed(entries) /\ ~Spoiled(entries) THEN {i} ELSE {}
    <3>1. ASSUME NEW j \in DOMAIN objects, objects[j].form # "broken",
                 \A k \in DOMAIN objects : k > j => objects[k].form = "broken"
          PROVE  j = i
      <4>1. j <= i /\ ~(i > j) /\ i \in Int /\ j \in Int
        BY <1>1, <2>1, <3>1
      <4>2. QED
        BY <4>1
    <3>2. Usable(objects) \subseteq {i}
      BY <3>1 DEF Usable
    <3>3. i \in Usable(objects) <=> Needed(entries) /\ ~Spoiled(entries)
      <4>1. i \in Usable(objects) <=>
              /\ \A k \in DOMAIN entries :
                    entries[k].cap \in Caps /\ entries[k].value.number =>
                        entries[k].value.n \in 0 .. 100
              /\ Needed(entries)
        BY <2>1, <2>5 DEF Usable
      <4> HIDE DEF entries, Needed
      <4>2. QED
        BY <2>4, <4>1
    <3> HIDE DEF entries, Needed
    <3>4. QED
      BY <3>2, <3>3
  <2>7. CASE objects[i].form = "pair"
    <3>1. scores = PairScores(entries[1])
      BY <2>1, <2>7 DEF ParseScores
    <3>2. Len(entries) = 1 /\ DOMAIN entries = 1 .. 1 /\ 1 \in 1 .. 1
      BY <2>2, <2>7
    <3>3. entries[1].value.number \in BOOLEAN /\ entries[1].value.n \in Int
      BY <2>2, <3>2
    <3> HIDE DEF entries, scores
    <3>4. Needed(entries) <=>
            entries[1].cap \in Caps /\ entries[1].value.number /\ entries[1].value.n > 0
      BY <3>2
    <3>5. Spoiled(entries) <=>
            entries[1].cap \in Caps /\ entries[1].value.number
            /\ entries[1].value.n \notin 0 .. 100
      BY <2>4, <3>2
    <3> HIDE DEF Needed
    <3>6. CASE Needed(entries) /\ ~Spoiled(entries)
      <4>1. /\ entries[1].cap \in Caps /\ entries[1].value.number = TRUE
            /\ entries[1].value.n \in 1 .. 100
        BY <3>3, <3>4, <3>5, <3>6
      <4>2. IsNormalFormOf(scores, Demands(entries)) /\ Normalize(scores) = scores
        BY <3>1, <3>2, <4>1, PairIsNormal
      <4>3. QED
        BY <2>6, <3>6, <4>2 DEF entries, scores
    <3>7. CASE ~(Needed(entries) /\ ~Spoiled(entries))
      <4>1. scores = <<>>
        BY <3>1, <3>4, <3>5, <3>7 DEF PairScores, InRange
      <4>2. QED
        BY <2>6, <3>7, <4>1 DEF scores
    <3>8. QED
      BY <3>6, <3>7
  <2>8. CASE objects[i].form = "scores"
    <3>1. scores = DictScores(entries)
      BY <2>1, <2>8 DEF ParseScores
    <3> HIDE DEF entries, Needed, scores
    <3>2. CASE Needed(entries) /\ ~Spoiled(entries)
      <4>1. scores = Largest(Demands(entries))
        BY <3>1, <3>2 DEF DictScores
      <4>2. IsNormalFormOf(scores, Demands(entries)) /\ Normalize(scores) = scores
        BY <2>3, <3>2, <4>1, LargestIsNormal
      <4>3. QED
        BY <2>6, <3>2, <4>2 DEF entries, scores
    <3>3. CASE ~(Needed(entries) /\ ~Spoiled(entries))
      <4>1. scores = <<>>
        BY <2>3, <3>1, <3>3, LargestIsNormal DEF DictScores
      <4>2. QED
        BY <2>6, <3>3, <4>1 DEF scores
    <3>4. QED
      BY <3>2, <3>3
  <2>9. QED
    BY <2>2, <2>7, <2>8
<1>4. QED
  BY <1>2, <1>3, ParsedIsLast

\* classify_scores, for every reply of the language model: the classification
\* is the largest needs of the last object that parses, or the one name that
\* stands in the text when there are none, or an exception when there is neither
\* (IsReadingOf); and the router's normalisation leaves it as it is.
THEOREM ClassificationIsRight ==
    ASSUME NEW objects, NEW words, IsReply(objects, words)
    PROVE  LET mix == Classification(objects, words) IN
           IsReadingOf(mix, objects, words) /\ RouterTakesItAsItIs(mix)
<1> DEFINE mix == Classification(objects, words)
           scores == ParseScores(objects)
           named == \E c \in words : words = {c}
<1>1. /\ \A i \in Usable(objects) :
            /\ IsNormalFormOf(scores, Demands(objects[i].entries))
            /\ Normalize(scores) = scores
      /\ Usable(objects) = {} => scores = <<>>
  BY ScoresAreNormal
<1> HIDE DEF scores, mix
<1>2. CASE Usable(objects) # {}
  <2>1. scores \in Mix /\ Normalize(scores) = scores
    BY <1>1, <1>2 DEF IsNormalFormOf
  <2>2. scores # <<>>
    BY <2>1 DEF Mix
  <2>3. mix = scores
    BY <2>2 DEF Classification, mix, scores
  <2>4. QED
    BY <1>1, <1>2, <2>1, <2>3 DEF IsReadingOf, RouterTakesItAsItIs, mix
<1>3. CASE Usable(objects) = {}
  <2>1. scores = <<>>
    BY <1>1, <1>3
  <2>2. mix = ParseCapability(words)
    BY <2>1 DEF Classification, Raised, mix, scores
  <2>3. IsFiniteSet(words) /\ words \subseteq Caps
    BY DEF IsReply
  <2>4. CASE named
    <3>1. PICK c \in words : words = {c}
      BY <2>4
    <3>2. Cardinality(words) = 1 /\ (CHOOSE x \in words : TRUE) = c /\ c \in Caps
      BY <2>3, <3>1, FS_Singleton
    <3>3. mix = <<[cap |-> c, demand |-> 100]>>
      BY <2>2, <3>2 DEF ParseCapability
    <3>4. mix \in Mix /\ Normalize(mix) = mix
      <4>1. 100 \in 1 .. 100
        OBVIOUS
      <4>2. \A d \in 1 .. 100 :
              /\ <<[cap |-> c, demand |-> d]>> \in Mix
              /\ Normalize(<<[cap |-> c, demand |-> d]>>) = <<[cap |-> c, demand |-> d]>>
        BY <3>2, OneNeedIsNormal
      <4>3. QED
        BY <3>3, <4>1, <4>2
    <3>5. Len(mix) = 1 /\ mix[1].cap = c /\ mix[1].demand = 100
      BY <3>3
    <3>6. IsReadingOf(mix, objects, words)
      BY <1>3, <2>4, <3>1, <3>5 DEF IsReadingOf
    <3>7. QED
      BY <3>4, <3>6 DEF RouterTakesItAsItIs, mix
  <2>5. CASE ~named
    <3>1. Cardinality(words) # 1
      <4>1. Cardinality(words) = 1 => \E c : words = {c}
        BY <2>3, FS_Singleton
      <4>2. QED
        BY <2>5, <4>1
    <3>2. mix = Raised
      BY <2>2, <3>1 DEF ParseCapability, Raised
    <3>3. QED
      BY <1>3, <2>5, <3>2 DEF IsReadingOf, RouterTakesItAsItIs, mix
  <2>6. QED
    BY <2>4, <2>5
<1>4. QED
  BY <1>2, <1>3 DEF mix

-----------------------------------------------------------------------------
(* Profiles, for every configuration and every draw of the scores.          *)

\* What score_all draws: three capabilities, the primary one strong, the
\* second in the middle and the third weak.
LEMMA SimulatedScores ==
    ASSUME NEW primary \in Caps, NEW s \in Simulated(primary)
    PROVE  /\ DOMAIN s = 1 .. 3 /\ Len(s) = 3
           /\ s[1].cap = primary
           /\ \A i \in 1 .. 3 : s[i].cap \in Caps
           /\ \A i, j \in 1 .. 3 : s[i].cap = s[j].cap => i = j
           /\ s[1].score \in 80 .. 100 /\ s[2].score \in 50 .. 75 /\ s[3].score \in 10 .. 45
<1>1. PICK high \in HighScores, medium \in MediumScores, low \in LowScores,
           m \in Caps \ {primary}, l \in Caps \ {primary} :
              /\ s = <<[cap |-> primary, score |-> high], [cap |-> m, score |-> medium],
                       [cap |-> l, score |-> low]>>
              /\ s[2].cap # s[3].cap
  BY DEF Simulated
<1>2. high \in 80 .. 100 /\ medium \in 50 .. 75 /\ low \in 10 .. 45
  BY ScoresAssumption
<1>3. /\ s[1] = [cap |-> primary, score |-> high] /\ s[2] = [cap |-> m, score |-> medium]
      /\ s[3] = [cap |-> l, score |-> low]
      /\ DOMAIN s = 1 .. 3 /\ Len(s) = 3
  BY <1>1
<1>4. s[1].cap = primary /\ s[2].cap = m /\ s[3].cap = l
  BY <1>3
<1>5. s[1].score = high /\ s[2].score = medium /\ s[3].score = low
  BY <1>3
<1>6. \A i \in 1 .. 3 : i = 1 \/ i = 2 \/ i = 3
  OBVIOUS
<1>7. primary # m /\ primary # l /\ m # l
  BY <1>1, <1>4
<1>8. \A i \in 1 .. 3 : s[i].cap \in Caps
  BY <1>4, <1>6
<1>9. \A i, j \in 1 .. 3 : s[i].cap = s[j].cap => i = j
  BY <1>4, <1>6, <1>7
<1>10. QED
  BY <1>2, <1>3, <1>4, <1>5, <1>8, <1>9

LEMMA BelowCount ==
    ASSUME NEW k \in Nat
    PROVE  IsFiniteSet(1 .. k) /\ Cardinality(1 .. k) = k
BY FS_Interval

\* dict.fromkeys changes nothing in a list without repetitions.
LEMMA UniqueOfDistinct ==
    ASSUME NEW s, Len(s) \in Nat, s = [i \in 1 .. Len(s) |-> s[i]],
           \A i, j \in 1 .. Len(s) : s[i] = s[j] => i = j
    PROVE  Unique(s) = s
<1> DEFINE first == {i \in DOMAIN s : \A j \in 1 .. i - 1 : s[j] # s[i]}
           at(k) == CHOOSE i \in first : Cardinality({j \in first : j <= i}) = k
<1>1. DOMAIN s = 1 .. Len(s)
  OBVIOUS
<1>2. first = 1 .. Len(s)
  <2>1. ASSUME NEW i \in 1 .. Len(s), NEW j \in 1 .. i - 1 PROVE s[j] # s[i]
    <3>1. j \in 1 .. Len(s) /\ j # i
      OBVIOUS
    <3>2. QED
      BY <3>1
  <2>2. QED
    BY <1>1, <2>1
<1>3. Cardinality(first) = Len(s)
  BY <1>2, BelowCount
<1>4. Unique(s) = [k \in 1 .. Cardinality(first) |-> s[at(k)]]
  BY DEF Unique
<1>5. ASSUME NEW i \in 1 .. Len(s) PROVE Cardinality({j \in first : j <= i}) = i
  <2>1. {j \in first : j <= i} = 1 .. i
    BY <1>2
  <2> HIDE DEF first
  <2>2. i \in Nat
    OBVIOUS
  <2>3. QED
    BY <2>1, <2>2, BelowCount
<1>6. ASSUME NEW k \in 1 .. Len(s) PROVE at(k) = k
  <2> DEFINE count(i) == Cardinality({j \in first : j <= i})
  <2>1. \A i \in first : count(i) = i
    BY <1>2, <1>5
  <2>2. at(k) = CHOOSE i \in first : count(i) = k
    OBVIOUS
  <2> HIDE DEF count, first, at
  <2>3. k \in first
    BY <1>2
  <2>4. QED
    BY <2>1, <2>2, <2>3
<1> HIDE DEF first, at
<1>7. [k \in 1 .. Len(s) |-> s[at(k)]] = [k \in 1 .. Len(s) |-> s[k]]
  BY <1>6
<1>8. QED
  BY <1>3, <1>4, <1>7

\* Simulated scores are drawn best first.
LEMMA SimulatedRanking ==
    ASSUME NEW primary \in Caps, NEW s \in Simulated(primary)
    PROVE  Ranked(s) = [k \in 1 .. 3 |-> s[k].cap]
<1> DEFINE positive == {i \in DOMAIN s : s[i].score > 0}
           better(i, j) == \/ s[i].score > s[j].score
                           \/ s[i].score = s[j].score /\ i < j
           count(i) == Cardinality({j \in positive : better(j, i)})
           at(k) == CHOOSE i \in positive : count(i) = k - 1
<1>1. /\ DOMAIN s = 1 .. 3
      /\ s[1].score \in 80 .. 100 /\ s[2].score \in 50 .. 75 /\ s[3].score \in 10 .. 45
  BY SimulatedScores
<1>0. \A i \in 1 .. 3 : i = 1 \/ i = 2 \/ i = 3
  OBVIOUS
<1>2. positive = 1 .. 3
  <2>1. s[1].score > 0 /\ s[2].score > 0 /\ s[3].score > 0
    BY <1>1
  <2>2. QED
    BY <1>0, <1>1, <2>1
<1>3. Ranked(s) = [k \in 1 .. Cardinality(positive) |-> s[at(k)].cap]
  BY DEF Ranked
<1>4. \A i, j \in 1 .. 3 : better(j, i) <=> j < i
  <2>1. s[1].score > s[2].score /\ s[1].score > s[3].score /\ s[2].score > s[3].score
        /\ s[1].score \in Int /\ s[2].score \in Int /\ s[3].score \in Int
    BY <1>1
  <2>2. QED
    BY <1>0, <2>1
<1> HIDE DEF better
<1>5. ASSUME NEW i \in 1 .. 3 PROVE count(i) = i - 1
  <2>1. {j \in positive : better(j, i)} = 1 .. i - 1
    BY <1>2, <1>4
  <2>2. i - 1 \in Nat
    OBVIOUS
  <2>3. PICK k \in Nat : k = i - 1
    BY <2>2
  <2>4. Cardinality(1 .. k) = k
    BY BelowCount
  <2>5. QED
    BY <2>1, <2>3, <2>4
<1>6. Cardinality(positive) = 3
  BY <1>2, BelowCount
<1> HIDE DEF count, positive
<1>7. ASSUME NEW k \in 1 .. 3 PROVE at(k) = k
  <2>1. /\ k \in positive /\ count(k) = k - 1
        /\ \A i \in positive : count(i) = k - 1 => i = k
    BY <1>2, <1>5
  <2>2. QED
    BY <2>1
<1> HIDE DEF at
<1>8. [k \in 1 .. 3 |-> s[at(k)].cap] = [k \in 1 .. 3 |-> s[k].cap]
  BY <1>7
<1>9. QED
  BY <1>3, <1>6, <1>8

\* What a scored node is, and what it advertises.
LEMMA ScoredProfile ==
    ASSUME NEW primary \in Caps, NEW s \in Simulated(primary)
    PROVE  Resolved(<<>>, s) = [advertised |-> [k \in 1 .. 3 |-> s[k].cap], scores |-> s]
<1> DEFINE names == [k \in 1 .. 3 |-> s[k].cap]
<1>1. /\ DOMAIN s = 1 .. 3 /\ Len(s) = 3
      /\ \A i \in 1 .. 3 : s[i].cap \in Caps
      /\ \A i, j \in 1 .. 3 : s[i].cap = s[j].cap => i = j
  BY SimulatedScores
<1>2. s # <<>>
  BY <1>1
<1>3. names \in Seq(Caps) /\ Len(names) = 3 /\ \A i \in 1 .. 3 : names[i] = s[i].cap
  BY <1>1
<1>4. Ranked(s) = names
  BY SimulatedRanking
<1> HIDE DEF names
<1>5. <<>> \o names = names
  BY <1>3
<1>6. Unique(names) = names
  <2>1. names = [i \in 1 .. Len(names) |-> names[i]]
    BY <1>3
  <2>2. \A i, j \in 1 .. Len(names) : names[i] = names[j] => i = j
    BY <1>1, <1>3
  <2>3. QED
    BY <1>3, <2>1, <2>2, UniqueOfDistinct
<1>7. AtMost(Len(names), MAX_ADVERTISED_CAPABILITIES) = 3
  BY <1>3 DEF AtMost, MAX_ADVERTISED_CAPABILITIES
<1>8. SubSeq(names, 1, 3) = names
  <2>1. SubSeq(names, 1, 3) = [i \in 1 .. 3 |-> names[i]]
    BY <1>3
  <2>2. names = [i \in 1 .. 3 |-> names[i]]
    BY <1>3
  <2>3. QED
    BY <2>1, <2>2
<1>9. Resolved(<<>>, s) =
        [advertised |-> SubSeq(Unique(<<>> \o Ranked(s)), 1,
                               AtMost(Len(Unique(<<>> \o Ranked(s))), MAX_ADVERTISED_CAPABILITIES)),
         scores |-> s]
  BY <1>2 DEF Resolved
<1>10. QED
  BY <1>4, <1>5, <1>6, <1>7, <1>8, <1>9 DEF names

\* "The DHT indexes only the strongest capabilities" (node.py): a node that
\* has scored itself advertises what it scored, best first, led by the
\* capability it is meant for.
THEOREM ScoredNodesAdvertiseTheirBest ==
    ASSUME NEW primary \in Caps, NEW s \in Simulated(primary)
    PROVE  LET advertised == Resolved(<<>>, s).advertised
               quality == QualityOf(Resolved(<<>>, s).scores)
           IN  /\ Len(advertised) = 3 /\ \A i \in 1 .. 3 : advertised[i] \in Caps
               /\ advertised[1] = primary
               /\ quality \in Quality100
               /\ quality[advertised[1]] \in 80 .. 100
               /\ quality[advertised[2]] \in 50 .. 75
               /\ quality[advertised[3]] \in 10 .. 45
               /\ \A c \in Caps : (\A i \in 1 .. 3 : advertised[i] # c) => quality[c] = 0
<1> DEFINE advertised == Resolved(<<>>, s).advertised
           quality == QualityOf(Resolved(<<>>, s).scores)
<1>1. advertised = [k \in 1 .. 3 |-> s[k].cap] /\ quality = QualityOf(s)
  BY ScoredProfile
<1> HIDE DEF advertised, quality
<1>2. /\ DOMAIN s = 1 .. 3 /\ s[1].cap = primary
      /\ \A i \in 1 .. 3 : s[i].cap \in Caps
      /\ \A i, j \in 1 .. 3 : s[i].cap = s[j].cap => i = j
      /\ s[1].score \in 80 .. 100 /\ s[2].score \in 50 .. 75 /\ s[3].score \in 10 .. 45
  BY SimulatedScores
<1>3. /\ advertised \in Seq(Caps) /\ Len(advertised) = 3
      /\ \A i \in 1 .. 3 : advertised[i] = s[i].cap
  <2>1. \A i \in 1 .. 3 : advertised[i] = s[i].cap
    BY <1>1
  <2>2. [k \in 1 .. 3 |-> s[k].cap] \in Seq(Caps) /\ Len([k \in 1 .. 3 |-> s[k].cap]) = 3
    BY <1>2
  <2>3. QED
    BY <1>1, <2>1, <2>2
<1>4. \A c \in Caps : quality[c] =
          IF \E i \in DOMAIN s : s[i].cap = c
          THEN s[CHOOSE i \in DOMAIN s : s[i].cap = c].score ELSE 0
  BY <1>1 DEF QualityOf
<1>5. \A i \in 1 .. 3 : quality[s[i].cap] = s[i].score
  <2> SUFFICES ASSUME NEW i \in 1 .. 3 PROVE quality[s[i].cap] = s[i].score
    OBVIOUS
  <2>1. (CHOOSE j \in 1 .. 3 : s[j].cap = s[i].cap) = i
    BY <1>2
  <2>2. QED
    BY <1>2, <1>4, <2>1
<1>6. \A c \in Caps : (\A i \in 1 .. 3 : s[i].cap # c) => quality[c] = 0
  BY <1>2, <1>4
<1>7. \A i \in 1 .. 3 : i = 1 \/ i = 2 \/ i = 3
  OBVIOUS
<1>8. \A c \in Caps : quality[c] \in 0 .. 100
  <2> SUFFICES ASSUME NEW c \in Caps PROVE quality[c] \in 0 .. 100
    OBVIOUS
  <2>1. CASE \A i \in 1 .. 3 : s[i].cap # c
    <3>1. quality[c] = 0
      BY <1>6, <2>1
    <3>2. QED
      BY <3>1
  <2>2. CASE \E i \in 1 .. 3 : s[i].cap = c
    <3>1. s[1].score \in 0 .. 100 /\ s[2].score \in 0 .. 100 /\ s[3].score \in 0 .. 100
      BY <1>2
    <3>2. \A i \in 1 .. 3 : s[i].score \in 0 .. 100
      BY <1>7, <3>1
    <3>3. PICK i \in 1 .. 3 : s[i].cap = c
      BY <2>2
    <3>4. quality[c] = s[i].score
      BY <1>5, <3>3
    <3>5. QED
      BY <3>2, <3>4
  <2>3. QED
    BY <2>1, <2>2
<1>9. quality \in Quality100
  <2>1. quality = [c \in Caps |-> quality[c]]
    BY <1>1 DEF QualityOf
  <2>2. QED
    BY <1>8, <2>1 DEF Quality100
<1>10. /\ advertised[1] = primary
       /\ quality[advertised[1]] = s[1].score /\ quality[advertised[2]] = s[2].score
       /\ quality[advertised[3]] = s[3].score
  <2>1. 1 \in 1 .. 3 /\ 2 \in 1 .. 3 /\ 3 \in 1 .. 3
    OBVIOUS
  <2>2. QED
    BY <1>2, <1>3, <1>5, <2>1
<1>11. \A c \in Caps : (\A i \in 1 .. 3 : advertised[i] # c) => quality[c] = 0
  BY <1>3, <1>6
<1>12. QED
  BY <1>2, <1>3, <1>9, <1>10, <1>11 DEF advertised, quality

\* A mix of one need: its score is decided by the quality for that need.
LEMMA OneNeed ==
    ASSUME NEW c \in Caps, NEW demand \in 1 .. 100, NEW quality \in Quality100,
           NEW mix, mix = <<[cap |-> c, demand |-> demand]>>
    PROVE  /\ mix \in Mix /\ TotalDemand(mix) = demand
           /\ WeightedQuality(mix, quality) = demand * quality[c]
<1>1. /\ DOMAIN mix = {1} /\ Len(mix) = 1 /\ mix[1] = [cap |-> c, demand |-> demand]
      /\ 2 \notin DOMAIN mix /\ 3 \notin DOMAIN mix
  OBVIOUS
<1>2. mix \in Mix
  <2>1. [cap |-> c, demand |-> demand] \in Entry
    BY DEF Entry
  <2>2. mix \in Seq(Entry)
    BY <2>1
  <2>3. QED
    BY <1>1, <2>2 DEF Mix
<1>3. /\ DemandAt(mix, 1) = demand /\ DemandAt(mix, 2) = 0 /\ DemandAt(mix, 3) = 0
  BY <1>1 DEF DemandAt
<1>4. TotalDemand(mix) = demand
  BY <1>3 DEF TotalDemand
<1>5. /\ WeightedAt(mix, quality, 1) = demand * quality[c]
      /\ WeightedAt(mix, quality, 2) = 0 /\ WeightedAt(mix, quality, 3) = 0
  BY <1>1 DEF WeightedAt
<1>6. WeightedQuality(mix, quality) = Clamp(demand * quality[c] + 0 + 0, 0, 100 * demand)
  BY <1>4, <1>5 DEF WeightedQuality
<1> DEFINE q == quality[c]
           x == demand * q
<1>7. q \in 0 .. 100
  BY DEF Quality100
<1> HIDE DEF q
<1>8. x \in Int /\ x >= 0 /\ x <= demand * 100
  BY <1>7
<1>9. WeightedQuality(mix, quality) = Clamp(x + 0 + 0, 0, 100 * demand)
  BY <1>6 DEF q
<1> HIDE DEF x
<1>10. Clamp(x + 0 + 0, 0, 100 * demand) = x
  BY <1>8 DEF Clamp, AtMost, AtLeast
<1>11. QED
  BY <1>2, <1>4, <1>9, <1>10 DEF x, q

\* A fresh peer that has not failed since, however slow, is suitable for a
\* need it meets by 0.8; no peer is for one that it meets by 0.45 at most.
LEMMA StrongIsSuitable ==
    ASSUME NEW mix \in Mix, NEW quality \in Quality100, NEW q \in 80 .. 100,
           WeightedQuality(mix, quality) = TotalDemand(mix) * q, NEW latency \in Nat
    PROVE  ScoreOf(mix, quality, TRUE, 0, latency) >= Threshold(mix)
<1> DEFINE T == TotalDemand(mix)
           C == Contact(TRUE, 0, latency)
           X == 225 * (T * q) + T * C
           high == 30000 * T
           low == 19500 * T
<1>1. T \in Nat \ {0}
  BY TotalDemandPositive
<1>2. C \in Int /\ C >= 2100
  BY DEF Contact, AtMost
<1>3. ScoreOf(mix, quality, TRUE, 0, latency) = Clamp(X, 0, high) /\ Threshold(mix) = low
  <2>1. ScoreOf(mix, quality, TRUE, 0, latency) =
           Clamp(225 * WeightedQuality(mix, quality) + T * C, 0, Scale(mix))
    BY DEF ScoreOf, Contact
  <2>2. Scale(mix) = high /\ Threshold(mix) = low
    BY DEF Scale, Threshold
  <2>3. WeightedQuality(mix, quality) = T * q
    OBVIOUS
  <2> HIDE DEF T, C, high, low
  <2>4. QED
    BY <2>1, <2>2, <2>3
<1> HIDE DEF T, C
<1>4. T * q \in Int /\ T * q >= T * 80
  BY <1>1
<1>5. T * C \in Int /\ T * C >= T * 2100
  BY <1>1, <1>2
<1>6. X \in Int /\ X >= low /\ high \in Int /\ low \in Int /\ low >= 0 /\ high >= low
  BY <1>1, <1>4, <1>5
<1> HIDE DEF X, high, low
<1>7. Clamp(X, 0, high) >= low
  BY <1>6 DEF Clamp, AtMost, AtLeast
<1>8. QED
  BY <1>3, <1>7

LEMMA WeakIsUnsuitable ==
    ASSUME NEW mix \in Mix, NEW quality \in Quality100, NEW q \in 0 .. 45,
           WeightedQuality(mix, quality) = TotalDemand(mix) * q,
           NEW fresh \in BOOLEAN, NEW failures \in Nat, NEW latency \in Nat
    PROVE  ScoreOf(mix, quality, fresh, failures, latency) < Threshold(mix)
<1> DEFINE T == TotalDemand(mix)
           S == ScoreOf(mix, quality, fresh, failures, latency)
<1>1. T \in Nat \ {0}
  BY TotalDemandPositive
<1>2. ~(3 * (T * q) >= 200 * T)
  <2> HIDE DEF T
  <2>1. T * q \in Int /\ T * q <= T * 45
    BY <1>1
  <2> DEFINE x == T * q
  <2>2. x \in Int /\ x <= T * 45
    BY <2>1
  <2> HIDE DEF x
  <2>3. ~(3 * x >= 200 * T)
    BY <1>1, <2>2
  <2>4. QED
    BY <2>3 DEF x
<1>3. ~(S >= Threshold(mix))
  BY <1>2, ThresholdNeedsQuality
<1>4. S \in Int /\ Threshold(mix) \in Int
  <2>1. S \in 0 .. Scale(mix)
    BY ScoreType
  <2>2. Scale(mix) \in Int /\ Threshold(mix) \in Int
    BY <1>1 DEF Scale, Threshold
  <2> HIDE DEF S
  <2>3. QED
    BY <2>1, <2>2
<1> HIDE DEF S
<1>5. QED
  BY <1>3, <1>4 DEF S

\* A query for the capability a node leads with finds it suitable as long as
\* it answers pings, however slowly; a query for its weak capability alone
\* never does, whatever the contact.
THEOREM ThresholdTellsLeaderFromWeak ==
    ASSUME NEW primary \in Caps, NEW s \in Simulated(primary), NEW demand \in 1 .. 100
    PROVE  LET advertised == Resolved(<<>>, s).advertised
               quality == QualityOf(Resolved(<<>>, s).scores)
               Only(c) == <<[cap |-> c, demand |-> demand]>>
           IN  /\ \A latency \in Nat :
                     ScoreOf(Only(advertised[1]), quality, TRUE, 0, latency)
                        >= Threshold(Only(advertised[1]))
               /\ \A fresh \in BOOLEAN, failures, latency \in Nat :
                     ScoreOf(Only(advertised[3]), quality, fresh, failures, latency)
                        < Threshold(Only(advertised[3]))
<1> DEFINE advertised == Resolved(<<>>, s).advertised
           quality == QualityOf(Resolved(<<>>, s).scores)
           Only(c) == <<[cap |-> c, demand |-> demand]>>
           lead == advertised[1]
           weak == advertised[3]
<1>1. /\ \A i \in 1 .. 3 : advertised[i] \in Caps
      /\ quality \in Quality100
      /\ quality[lead] \in 80 .. 100 /\ quality[weak] \in 10 .. 45
  BY ScoredNodesAdvertiseTheirBest, Zenon
<1> HIDE DEF advertised, quality
<1>2. lead \in Caps /\ weak \in Caps /\ quality[weak] \in 0 .. 45
  <2>1. lead \in Caps /\ weak \in Caps
    <3>1. 1 \in 1 .. 3 /\ 3 \in 1 .. 3
      OBVIOUS
    <3>2. QED
      BY <1>1, <3>1
  <2>2. quality[weak] \in 10 .. 45
    BY <1>1
  <2> HIDE DEF lead, weak
  <2>3. QED
    BY <2>1, <2>2
<1>3. ASSUME NEW c \in Caps
      PROVE  /\ Only(c) \in Mix /\ TotalDemand(Only(c)) = demand
             /\ WeightedQuality(Only(c), quality) = demand * quality[c]
  BY <1>1, OneNeed
<1> HIDE DEF Only, lead, weak
<1>4. ASSUME NEW latency \in Nat
      PROVE  ScoreOf(Only(lead), quality, TRUE, 0, latency) >= Threshold(Only(lead))
  BY <1>1, <1>2, <1>3, StrongIsSuitable
<1>5. ASSUME NEW fresh \in BOOLEAN, NEW failures \in Nat, NEW latency \in Nat
      PROVE  ScoreOf(Only(weak), quality, fresh, failures, latency) < Threshold(Only(weak))
  BY <1>1, <1>2, <1>3, WeakIsUnsuitable
<1>6. QED
  BY <1>4, <1>5 DEF advertised, quality, Only, lead, weak

FirstOnes(s) == {i \in DOMAIN s : \A j \in 1 .. i - 1 : s[j] # s[i]}
UpTo(s, i) == Cardinality({j \in FirstOnes(s) : j <= i})

\* dict.fromkeys keeps the first occurrences, in their order.
LEMMA UniqueKeepsFirsts ==
    ASSUME NEW s, Len(s) \in Nat, DOMAIN s = 1 .. Len(s)
    PROVE  /\ Cardinality(FirstOnes(s)) \in Nat /\ IsFiniteSet(FirstOnes(s))
           /\ DOMAIN Unique(s) = 1 .. Cardinality(FirstOnes(s))
           /\ \A i \in FirstOnes(s) :
                 UpTo(s, i) \in 1 .. Cardinality(FirstOnes(s)) /\ Unique(s)[UpTo(s, i)] = s[i]
           /\ \A i, j \in FirstOnes(s) : i < j <=> UpTo(s, i) < UpTo(s, j)
           /\ \A k \in 1 .. Cardinality(FirstOnes(s)) : \E i \in FirstOnes(s) : UpTo(s, i) = k
<1> DEFINE K == FirstOnes(s)
           n == Cardinality(K)
           R == {p \in K \X K : p[1] < p[2]}
           at(k) == CHOOSE i \in K : UpTo(s, i) = k
<1>1. IsFiniteSet(K) /\ n \in Nat /\ K \in SUBSET Int
  <2>1. K \in SUBSET (1 .. Len(s))
    BY DEF FirstOnes
  <2>2. IsFiniteSet(1 .. Len(s))
    BY FS_Interval
  <2>3. QED
    BY <2>1, <2>2, FS_Subset, FS_CardinalityType
<1>2. Unique(s) = [k \in 1 .. n |-> s[at(k)]]
  BY DEF Unique, FirstOnes, UpTo
<1>3. \A i, j \in K : <<i, j>> \in R <=> i < j
  OBVIOUS
<1>4. ASSUME NEW i \in K
      PROVE  Rank(R, K, i) \in Nat /\ UpTo(s, i) = Rank(R, K, i) + 1
  <2> DEFINE B == {j \in K : <<j, i>> \in R}
  <2>1. B \in SUBSET K /\ i \notin B
    BY <1>1, <1>3
  <2>2. IsFiniteSet(B)
    BY <1>1, <2>1, FS_Subset
  <2>3. Cardinality(B \cup {i}) = Cardinality(B) + 1 /\ Cardinality(B) \in Nat
    BY <2>1, <2>2, FS_AddElement, FS_CardinalityType
  <2>4. {j \in K : j <= i} = B \cup {i}
    BY <1>1, <1>3
  <2>5. UpTo(s, i) = Cardinality(B \cup {i})
    BY <2>4 DEF UpTo
  <2>6. Rank(R, K, i) = Cardinality(B)
    BY DEF Rank
  <2> HIDE DEF B
  <2>7. QED
    BY <2>3, <2>5, <2>6
<1> HIDE DEF K, R, at, n
<1>5. IsFiniteSet(K) /\ StrictOrder(R, K)
  BY <1>1, <1>3 DEF StrictOrder
<1>6. /\ \A i \in K : Rank(R, K, i) \in 0 .. n - 1
      /\ \A i, j \in K : <<i, j>> \in R <=> Rank(R, K, i) < Rank(R, K, j)
      /\ \A i, j \in K : Rank(R, K, i) = Rank(R, K, j) => i = j
      /\ \A r \in 0 .. n - 1 : \E i \in K : Rank(R, K, i) = r
  <2>1. Numbered(R, K)
    BY <1>5, Ranks
  <2>2. QED
    BY <2>1 DEF n, Numbered
<1>7. ASSUME NEW i \in K PROVE UpTo(s, i) \in 1 .. n
  <2>1. Rank(R, K, i) \in 0 .. n - 1 /\ UpTo(s, i) = Rank(R, K, i) + 1
    BY <1>4, <1>6
  <2>2. QED
    BY <1>1, <2>1
<1>8. ASSUME NEW i \in K, NEW j \in K
      PROVE  /\ i < j <=> UpTo(s, i) < UpTo(s, j)
             /\ UpTo(s, i) = UpTo(s, j) => i = j
  <2> DEFINE a == Rank(R, K, i)
             b == Rank(R, K, j)
  <2>1. /\ a \in Nat /\ b \in Nat /\ UpTo(s, i) = a + 1 /\ UpTo(s, j) = b + 1
        /\ i < j <=> a < b
        /\ a = b => i = j
    BY <1>3, <1>4, <1>6
  <2> HIDE DEF a, b
  <2>2. QED
    BY <2>1
<1>9. ASSUME NEW k \in 1 .. n PROVE \E i \in K : UpTo(s, i) = k
  <2>1. PICK r \in 0 .. n - 1 : k = r + 1
    <3>1. k - 1 \in 0 .. n - 1 /\ k = (k - 1) + 1
      BY <1>1
    <3>2. QED
      BY <3>1
  <2>2. PICK i \in K : Rank(R, K, i) = r
    BY <1>6
  <2>3. QED
    BY <1>4, <2>1, <2>2
<1>10. ASSUME NEW i \in K PROVE Unique(s)[UpTo(s, i)] = s[i]
  <2>1. at(UpTo(s, i)) = i
    <3>1. \A j \in K : UpTo(s, j) = UpTo(s, i) => j = i
      BY <1>8
    <3>2. QED
      BY <3>1 DEF at
  <2>2. QED
    BY <1>2, <1>7, <2>1
<1>11. DOMAIN Unique(s) = 1 .. n
  BY <1>2
<1>12. QED
  BY <1>1, <1>7, <1>8, <1>9, <1>10, <1>11 DEF K, n

\* The names that come first keep coming first.
LEMMA UniqueOfPrefix ==
    ASSUME NEW s, Len(s) \in Nat, DOMAIN s = 1 .. Len(s), NEW i \in 1 .. Len(s),
           \A j \in 1 .. i - 1 : s[j] # s[i],
           Cardinality({s[j] : j \in 1 .. i - 1}) < MAX_ADVERTISED_CAPABILITIES
    PROVE  \E k \in 1 .. MAX_ADVERTISED_CAPABILITIES :
              /\ k \in DOMAIN Unique(s) /\ Unique(s)[k] = s[i]
              /\ \A l \in 1 .. k - 1 : l \in DOMAIN Unique(s)
                                       /\ Unique(s)[l] \in {s[j] : j \in 1 .. i - 1}
<1> DEFINE K == FirstOnes(s)
           n == Cardinality(K)
           k == UpTo(s, i)
           B == {j \in K : j < i}
           before == {s[j] : j \in 1 .. i - 1}
<1>1. /\ n \in Nat /\ IsFiniteSet(K) /\ DOMAIN Unique(s) = 1 .. n
      /\ \A j \in K : UpTo(s, j) \in 1 .. n /\ Unique(s)[UpTo(s, j)] = s[j]
      /\ \A j, l \in K : j < l <=> UpTo(s, j) < UpTo(s, l)
      /\ \A l \in 1 .. n : \E j \in K : UpTo(s, j) = l
  BY UniqueKeepsFirsts
<1>2. i \in K /\ K \in SUBSET (1 .. Len(s))
  BY DEF FirstOnes
<1>3. Cardinality(B) < 3
  <2>1. IsFiniteSet(1 .. i - 1)
    <3>1. 1 \in Int /\ i - 1 \in Int
      OBVIOUS
    <3>2. QED
      BY <3>1, FS_Interval
  <2>2. IsFiniteSet(before)
    <3> DEFINE f == [j \in 1 .. i - 1 |-> s[j]]
    <3>1. f \in Surjection(1 .. i - 1, before)
      BY DEF Surjection
    <3>2. QED
      BY <2>1, <3>1, FS_Surjection
  <2>3. IsFiniteSet(B) /\ Cardinality(B) <= Cardinality(before)
    <3> DEFINE f == [j \in B |-> s[j]]
    <3>1. f \in [B -> before]
      BY <1>2
    <3>2. ASSUME NEW j \in B, NEW l \in B, f[j] = f[l] PROVE j = l
      <4>1. ~(j \in 1 .. l - 1) /\ ~(l \in 1 .. j - 1)
        BY <3>2 DEF FirstOnes
      <4>2. j \in Nat \ {0} /\ l \in Nat \ {0}
        BY <1>2
      <4>3. QED
        BY <4>1, <4>2
    <3>3. f \in Injection(B, before)
      BY <3>1, <3>2 DEF Injection, IsInjective
    <3>4. QED
      BY <2>2, <3>3, FS_Injection
  <2>4. Cardinality(before) < 3
    BY DEF MAX_ADVERTISED_CAPABILITIES
  <2>5. Cardinality(B) \in Nat /\ Cardinality(before) \in Nat
    BY <2>2, <2>3, FS_CardinalityType
  <2> HIDE DEF B, before
  <2>6. QED
    BY <2>3, <2>4, <2>5
<1>4. k = Cardinality(B) + 1 /\ Cardinality(B) \in Nat
  <2>1. B \in SUBSET K /\ i \notin B
    BY <1>2
  <2>2. IsFiniteSet(B)
    BY <1>1, <2>1, FS_Subset
  <2>3. {j \in K : j <= i} = B \cup {i}
    BY <1>2
  <2>4. QED
    BY <2>1, <2>2, <2>3, FS_AddElement, FS_CardinalityType DEF UpTo
<1>5. k \in 1 .. n /\ k \in 1 .. 3 /\ Unique(s)[k] = s[i]
  <2>1. k \in 1 .. n /\ Unique(s)[k] = s[i]
    BY <1>1, <1>2
  <2> HIDE DEF k, B, n
  <2>2. k \in 1 .. 3
    BY <1>3, <1>4
  <2>3. QED
    BY <2>1, <2>2
<1>6. ASSUME NEW l \in 1 .. k - 1 PROVE l \in 1 .. n /\ Unique(s)[l] \in before
  <2>0. k \in 1 .. n
    BY <1>5
  <2>1. l \in 1 .. n /\ l < k
    <3> HIDE DEF k, n
    <3>1. QED
      BY <1>1, <1>5
  <2>2. PICK j \in K : UpTo(s, j) = l
    BY <1>1, <2>1
  <2>3. j < i
    BY <1>1, <1>2, <2>1, <2>2
  <2>4. j \in 1 .. i - 1
    BY <1>2, <2>3
  <2>5. Unique(s)[l] = s[j]
    BY <1>1, <2>2
  <2>6. QED
    BY <2>1, <2>4, <2>5
<1> HIDE DEF k, n, before, K, B
<1>7. /\ k \in 1 .. 3 /\ k \in DOMAIN Unique(s) /\ Unique(s)[k] = s[i]
      /\ \A l \in 1 .. k - 1 : l \in DOMAIN Unique(s) /\ Unique(s)[l] \in before
  BY <1>1, <1>5, <1>6
<1>8. QED
  BY <1>7 DEF before, MAX_ADVERTISED_CAPABILITIES

\* The first known name of a configuration is the primary capability of the
\* node's scorer, whatever scores it is given, unless three other names stand
\* before it.
LEMMA FirstKnownNameIsPrimary ==
    ASSUME NEW Names, NEW names \in Seq(Names), NEW given, IsFiniteSet(DOMAIN given),
           NEW i \in DOMAIN names, names[i] \in Caps,
           {names[j] : j \in 1 .. i - 1} \cap Caps = {},
           Cardinality({names[j] : j \in 1 .. i - 1}) < MAX_ADVERTISED_CAPABILITIES
    PROVE  Primary(Resolved(names, given).advertised) = names[i]
<1> DEFINE scores == IF given # <<>> THEN given
                     ELSE [j \in DOMAIN Unique(names) |-> [cap |-> Unique(names)[j], score |-> 100]]
           positive == {j \in DOMAIN scores : scores[j].score > 0}
           ranked == Ranked(scores)
           n == Cardinality(positive)
           z == names \o ranked
           all == Unique(z)
           m == AtMost(Len(all), MAX_ADVERTISED_CAPABILITIES)
           hints == SubSeq(all, 1, m)
           before == {names[j] : j \in 1 .. i - 1}
<1>1. Len(names) \in Nat /\ DOMAIN names = 1 .. Len(names) /\ names # <<>>
  OBVIOUS
<1>2. IsFiniteSet(DOMAIN scores)
  <2>1. CASE given # <<>>
    BY <2>1
  <2>2. CASE given = <<>>
    <3>1. DOMAIN scores = 1 .. Cardinality(FirstOnes(names)) /\ Cardinality(FirstOnes(names)) \in Nat
      BY <1>1, <2>2, UniqueKeepsFirsts
    <3>2. QED
      BY <3>1, FS_Interval
  <2>3. QED
    BY <2>1, <2>2
<1>3. n \in Nat
  <2>1. positive \in SUBSET DOMAIN scores
    OBVIOUS
  <2> HIDE DEF positive, scores
  <2>2. QED
    BY <1>2, <2>1, FS_Subset, FS_CardinalityType
<1>4. DOMAIN ranked = 1 .. n /\ ranked = [k \in 1 .. n |-> ranked[k]]
  BY DEF Ranked
<1> HIDE DEF ranked, positive, scores, n
<1>5. /\ Len(z) \in Nat /\ DOMAIN z = 1 .. Len(z) /\ Len(names) <= Len(z)
      /\ \A j \in 1 .. Len(names) : z[j] = names[j]
  <2> DEFINE S == Names \cup {ranked[k] : k \in 1 .. n}
  <2>1. names \in Seq(S)
    <3>1. \A j \in 1 .. Len(names) : names[j] \in S
      BY <1>1
    <3>2. QED
      BY <1>1, <3>1
  <2>2. ranked \in Seq(S)
    <3>1. \A k \in 1 .. n : ranked[k] \in S
      OBVIOUS
    <3> HIDE DEF S
    <3>2. QED
      BY <1>3, <1>4, <3>1
  <2> HIDE DEF S
  <2>3. QED
    BY <2>1, <2>2
<1> HIDE DEF z
<1>6. \A j \in 1 .. i : z[j] = names[j] /\ j \in 1 .. Len(names)
  BY <1>1, <1>5
<1>7. {z[j] : j \in 1 .. i - 1} = before
  BY <1>1, <1>6
<1>8. PICK k \in 1 .. 3 :
         /\ k \in DOMAIN all /\ all[k] = names[i]
         /\ \A l \in 1 .. k - 1 : l \in DOMAIN all /\ all[l] \in before
  <2>1. i \in 1 .. Len(z) /\ z[i] = names[i]
    BY <1>1, <1>5
  <2>2. \A j \in 1 .. i - 1 : z[j] # z[i]
    <3>1. \A j \in 1 .. i - 1 : z[j] = names[j]
      BY <1>1, <1>6
    <3>2. QED
      BY <2>1, <3>1
  <2>3. Cardinality({z[j] : j \in 1 .. i - 1}) < MAX_ADVERTISED_CAPABILITIES
    BY <1>7
  <2>4. \E k \in 1 .. MAX_ADVERTISED_CAPABILITIES :
              /\ k \in DOMAIN Unique(z) /\ Unique(z)[k] = z[i]
              /\ \A l \in 1 .. k - 1 : l \in DOMAIN Unique(z)
                                       /\ Unique(z)[l] \in {z[j] : j \in 1 .. i - 1}
    BY <1>5, <2>1, <2>2, <2>3, UniqueOfPrefix
  <2>5. QED
    BY <1>7, <2>1, <2>4 DEF MAX_ADVERTISED_CAPABILITIES
<1>9. /\ Len(all) \in Nat /\ DOMAIN all = 1 .. Len(all)
  <2>1. DOMAIN all = 1 .. Cardinality(FirstOnes(z)) /\ Cardinality(FirstOnes(z)) \in Nat
    BY <1>5, UniqueKeepsFirsts
  <2>2. all = [j \in 1 .. Cardinality(FirstOnes(z)) |-> all[j]]
    BY <2>1 DEF Unique
  <2> HIDE DEF all
  <2>3. QED
    BY <2>1, <2>2
<1>10. Resolved(names, given).advertised = hints
  BY <1>1 DEF Resolved, scores, ranked, z
<1> HIDE DEF all, before
<1>11. /\ k \in 1 .. m
       /\ DOMAIN hints = 1 .. m
       /\ \A l \in 1 .. m : hints[l] = all[l]
  <2>1. m \in Nat /\ m <= Len(all) /\ k \in 1 .. m
    BY <1>8, <1>9 DEF AtMost, MAX_ADVERTISED_CAPABILITIES
  <2> HIDE DEF m
  <2>2. hints = [l \in 1 .. m |-> all[l]]
    BY <1>9, <2>1
  <2>3. QED
    BY <2>1, <2>2
<1> HIDE DEF m, hints
<1> DEFINE known == {l \in DOMAIN hints : hints[l] \in Caps}
           least == CHOOSE l \in known : \A j \in known : l <= j
<1>12. k \in known /\ hints[k] = names[i]
  BY <1>8, <1>11
<1>13. ASSUME NEW l \in known PROVE k <= l
  <2>1. l \in 1 .. m /\ hints[l] \in Caps /\ hints[l] = all[l]
    BY <1>11
  <2>2. ~(l \in 1 .. k - 1)
    <3>1. all[l] \notin before
      BY <2>1 DEF before
    <3>2. QED
      BY <1>8, <3>1
  <2>3. QED
    BY <2>1, <2>2
<1>14. least = k
  <2>1. \A l \in known : l \in Int
    BY <1>11
  <2> HIDE DEF known
  <2>2. \A l \in known : (\A j \in known : l <= j) => l = k
    BY <1>12, <1>13, <2>1
  <2>3. QED
    BY <1>12, <1>13, <2>2
<1>15. Primary(hints) = hints[least]
  BY <1>12 DEF Primary
<1>16. QED
  BY <1>10, <1>12, <1>14, <1>15
\* A node becomes best at what it is meant for: once it has scored itself it
\* leads with the first known name of its configuration, unless three other
\* names stand before it.
THEOREM FirstKnownNameLeads ==
    ASSUME NEW Names, NEW names \in Seq(Names), NEW given, IsFiniteSet(DOMAIN given),
           NEW i \in DOMAIN names, names[i] \in Caps,
           {names[j] : j \in 1 .. i - 1} \cap Caps = {},
           Cardinality({names[j] : j \in 1 .. i - 1}) < MAX_ADVERTISED_CAPABILITIES,
           NEW s \in Simulated(Primary(Resolved(names, given).advertised))
    PROVE  Resolved(<<>>, s).advertised[1] = names[i]
<1> DEFINE primary == Primary(Resolved(names, given).advertised)
<1>1. primary = names[i]
  BY FirstKnownNameIsPrimary
<1> HIDE DEF primary
<1>2. s \in Simulated(primary) /\ primary \in Caps
  BY <1>1 DEF primary
<1>3. Resolved(<<>>, s).advertised[1] = primary
  BY <1>2, ScoredNodesAdvertiseTheirBest
<1>4. QED
  BY <1>1, <1>3

-----------------------------------------------------------------------------
(* The inputs of the pure parts (module CapabilityInputs): mixes of any      *)
(* length from any entries.                                                  *)

Needs == NeedEntries \cup PairEntries

MixInputs ==
    topic \in {"mixes", "contacts"} =>
        input \in [raw : Seq(Needs), fresh : BOOLEAN, failures : Nat, latency : Nat]

LEMMA NeedsAreRaw ==
    ASSUME NEW raw \in Seq(Needs)
    PROVE  IsRaw(raw)
<1>1. Len(raw) \in Nat /\ DOMAIN raw = 1 .. Len(raw) /\ \A i \in 1 .. Len(raw) : raw[i] \in Needs
  OBVIOUS
<1>2. \A e \in Needs : e.demand \in Int
  BY InputsAssumption DEF Needs
<1>3. \A i \in DOMAIN raw : raw[i].demand \in Int
  BY <1>1, <1>2
<1>4. QED
  BY <1>1, <1>3 DEF IsRaw

LEMMA MixInputsStart == InputInit => MixInputs
<1> SUFFICES ASSUME InputInit, topic \in {"mixes", "contacts"}
             PROVE  input \in [raw : Seq(Needs), fresh : BOOLEAN, failures : Nat, latency : Nat]
  BY DEF MixInputs
<1>1. input = NoEntry
  BY DEF InputInit
<1>2. QED
  BY <1>1 DEF NoEntry

LEMMA MixInputsStep == MixInputs /\ [InputNext]_inputVars => MixInputs'
<1> SUFFICES ASSUME MixInputs, [InputNext]_inputVars, topic' \in {"mixes", "contacts"}
             PROVE  input' \in [raw : Seq(Needs), fresh : BOOLEAN, failures : Nat, latency : Nat]
  BY DEF MixInputs
<1> USE DEF MixInputs, About
<1>1. CASE WriteMix
  <2>1. PICK e \in NeedEntries : input' = [input EXCEPT !.raw = Append(input.raw, e)]
    BY <1>1 DEF WriteMix, NeedWritten
  <2>2. Append(input.raw, e) \in Seq(Needs)
    BY <1>1, <2>1 DEF WriteMix, Needs
  <2>3. QED
    BY <1>1, <2>1, <2>2 DEF WriteMix
<1>2. CASE WritePair
  <2>1. PICK e \in PairEntries : input' = [input EXCEPT !.raw = Append(input.raw, e)]
    BY <1>2 DEF WritePair, NeedWritten
  <2>2. Append(input.raw, e) \in Seq(Needs)
    BY <1>2, <2>1 DEF WritePair, Needs
  <2>3. QED
    BY <1>2, <2>1, <2>2 DEF WritePair
<1>3. CASE ContactWorsens
  BY <1>3, InputsAssumption DEF ContactWorsens
<1>4. CASE WriteName \/ WriteScore \/ Make \/ Score
  BY <1>4 DEF WriteName, WriteScore, Make, Score
<1>5. CASE WriteObject \/ WriteItem
  BY <1>5 DEF WriteObject, WriteItem
<1>6. CASE UNCHANGED inputVars
  BY <1>6 DEF inputVars
<1>7. QED
  BY <1>1, <1>2, <1>3, <1>4, <1>5, <1>6 DEF InputNext

LEMMA MixInputsHold == InputSpec => []MixInputs
BY MixInputsStart, MixInputsStep, PTL DEF InputSpec

\* The mix of a client, whatever it wrote, and what the router looks up for it,
\* are what they should be.
THEOREM MixesAreCorrect == InputSpec => []MixesCorrect
<1>1. ASSUME MixInputs, topic \in {"mixes", "contacts"}
      PROVE  LET mix == Normalize(input.raw) IN
             IsNormalFormOf(mix, input.raw) /\ IsCoverOf(DiscoveryCapabilities(mix), mix)
  <2>1. IsRaw(input.raw)
    BY <1>1, NeedsAreRaw DEF MixInputs
  <2>2. QED
    BY <2>1, NormalizeIsRight, DiscoveryIsRight
<1>2. MixInputs => MixesCorrect
  BY <1>1 DEF MixesCorrect
<1>3. QED
  BY <1>2, MixInputsHold, PTL

\* Of two candidates the one that leads by 0.4 of quality is ahead, whatever
\* the mix and however far contacts have worsened.
THEOREM QualityLeads == InputSpec => []QualityDominates
<1>1. ASSUME MixInputs, topic = "contacts", NEW better \in Candidates, NEW worse \in Candidates
      PROVE  LET mix == Normalize(input.raw) IN
             WeightedQuality(mix, better) - WeightedQuality(mix, worse) >= 40 * TotalDemand(mix) =>
                ScoreOf(mix, better, input.fresh, input.failures, input.latency)
                    >= ScoreOf(mix, worse, TRUE, 0, 0)
  <2> DEFINE mix == Normalize(input.raw)
  <2>1. input.fresh \in BOOLEAN /\ input.failures \in Nat /\ input.latency \in Nat /\ IsRaw(input.raw)
    BY <1>1, NeedsAreRaw DEF MixInputs
  <2>2. mix \in Mix
    BY <2>1, NormalizeIsRight DEF IsNormalFormOf
  <2>3. better \in Quality100 /\ worse \in Quality100
    BY InputsAssumption DEF Quality100
  <2> HIDE DEF mix
  <2>4. TRUE \in BOOLEAN /\ 0 \in Nat
    OBVIOUS
  <2>5. WeightedQuality(mix, better) - WeightedQuality(mix, worse) >= 40 * TotalDemand(mix) =>
                ScoreOf(mix, better, input.fresh, input.failures, input.latency)
                    >= ScoreOf(mix, worse, TRUE, 0, 0)
    BY <2>1, <2>2, <2>3, <2>4, QualityOutweighsContact
  <2>6. QED
    BY <2>5 DEF mix
<1>2. MixInputs => QualityDominates
  BY <1>1 DEF QualityDominates
<1>3. QED
  BY <1>2, MixInputsHold, PTL

\* No contact that gets worse helps a candidate.
THEOREM WorseContactsNeverHelp == InputSpec => WorseContactNeverHelps
<1> DEFINE Harmless ==
        topic = "contacts" /\ input'.raw = input.raw =>
        LET mix == Normalize(input.raw) IN
        \A quality \in Candidates :
            LET before == ScoreOf(mix, quality, input.fresh, input.failures, input.latency)
                after == ScoreOf(mix, quality, input'.fresh, input'.failures, input'.latency) IN
            after <= before /\ (after >= Threshold(mix) => before >= Threshold(mix))
<1>1. ASSUME MixInputs, [InputNext]_inputVars PROVE Harmless
  <2> SUFFICES ASSUME topic = "contacts", input'.raw = input.raw, NEW quality \in Candidates
               PROVE  LET mix == Normalize(input.raw)
                          before == ScoreOf(mix, quality, input.fresh, input.failures, input.latency)
                          after == ScoreOf(mix, quality, input'.fresh, input'.failures, input'.latency) IN
                      after <= before /\ (after >= Threshold(mix) => before >= Threshold(mix))
    OBVIOUS
  <2> DEFINE mix == Normalize(input.raw)
             before == ScoreOf(mix, quality, input.fresh, input.failures, input.latency)
             after == ScoreOf(mix, quality, input'.fresh, input'.failures, input'.latency)
  <2>1. /\ input \in [raw : Seq(Needs), fresh : BOOLEAN, failures : Nat, latency : Nat]
        /\ IsRaw(input.raw)
    BY <1>1, NeedsAreRaw DEF MixInputs
  <2>2. Worsens(input, input') /\ input' \in [raw : Seq(Needs), fresh : BOOLEAN, failures : Nat, latency : Nat]
    <3>1. CASE WritePair
      <4>1. PICK e \in PairEntries : input' = [input EXCEPT !.raw = Append(@, e)]
        BY <3>1 DEF WritePair, NeedWritten
      <4>2. input.raw \in Seq(Needs) /\ e \in Needs /\ input'.raw = Append(input.raw, e)
        BY <2>1, <4>1 DEF Needs
      <4>3. Len(input'.raw) = Len(input.raw) + 1 /\ Len(input.raw) \in Nat
        BY <4>2
      <4>4. Len(input.raw) # Len(input.raw) + 1
        BY <4>3
      <4>5. QED
        BY <4>3, <4>4
    <3>2. CASE ContactWorsens
      BY <2>1, <3>2, InputsAssumption DEF ContactWorsens
    <3>3. CASE UNCHANGED inputVars
      BY <2>1, <3>3 DEF inputVars, Worsens
    <3>4. QED
      BY <1>1, <3>1, <3>2, <3>3 DEF InputNext, About, WriteMix, WriteName, WriteScore, Make, Score,
                                   WriteObject, WriteItem
  <2>3. mix \in Mix
    BY <2>1, NormalizeIsRight DEF IsNormalFormOf
  <2>4. quality \in Quality100
    BY InputsAssumption DEF Quality100
  <2>5. /\ input.fresh \in BOOLEAN /\ input.failures \in Nat /\ input.latency \in Nat
        /\ input'.fresh \in BOOLEAN /\ input'.failures \in Nat /\ input'.latency \in Nat
        /\ input'.fresh => input.fresh
        /\ input.failures <= input'.failures /\ input.latency <= input'.latency
    BY <2>1, <2>2 DEF Worsens
  <2> HIDE DEF mix
  <2>6. after <= before
    BY <2>3, <2>4, <2>5, WorseContactNeverRaises
  <2>7. after \in Int /\ before \in Int /\ Threshold(mix) \in Int
    <3>1. TotalDemand(mix) \in Nat
      BY <2>3, TotalDemandPositive
    <3>2. Scale(mix) \in Int /\ Threshold(mix) \in Int
      BY <3>1 DEF Scale, Threshold
    <3>3. before \in 0 .. Scale(mix) /\ after \in 0 .. Scale(mix)
      BY <2>3, <2>4, <2>5, ScoreType
    <3> HIDE DEF before, after
    <3>4. QED
      BY <3>2, <3>3
  <2> HIDE DEF before, after
  <2>8. after >= Threshold(mix) => before >= Threshold(mix)
    BY <2>6, <2>7
  <2>9. QED
    BY <2>6, <2>8 DEF mix, before, after
<1>2. MixInputs /\ [InputNext]_inputVars => [Harmless]_inputVars
  BY <1>1
<1>3. QED
  BY <1>2, MixInputsHold, PTL DEF InputSpec, WorseContactNeverHelps

-----------------------------------------------------------------------------
(* Configurations of any length.                                            *)

GivenEntry == [cap : ConfigNames, score : ConfigScores]

\* What a node that has scored itself is made of.
ScoredFrom(names, given, profile) ==
    \E s \in Simulated(Primary(Resolved(names, given).advertised)) : profile = Resolved(<<>>, s)

ProfileInputs ==
    topic = "profiles" =>
        /\ input = [stage |-> input.stage, names |-> input.names, given |-> input.given,
                    profile |-> input.profile]
        /\ input.names \in Seq(ConfigNames)
        /\ input.given \in Seq(GivenEntry)
        /\ \/ input.stage = "written"
           \/ /\ input.stage = "made"
              /\ \E given \in Seq(GivenEntry) : input.profile = Resolved(input.names, given)
           \/ /\ input.stage = "scored"
              /\ \E given \in Seq(GivenEntry) : ScoredFrom(input.names, given, input.profile)

LEMMA ProfileInputsStart == InputInit => ProfileInputs
<1> SUFFICES ASSUME InputInit, topic = "profiles" PROVE ProfileInputs
  BY DEF ProfileInputs
<1>1. input = NoConfig
  BY DEF InputInit
<1>2. QED
  BY <1>1 DEF NoConfig, ProfileInputs

LEMMA ProfileInputsStep == ProfileInputs /\ [InputNext]_inputVars => ProfileInputs'
<1> SUFFICES ASSUME ProfileInputs, [InputNext]_inputVars, topic' = "profiles"
             PROVE  ProfileInputs'
  BY DEF ProfileInputs
<1> USE DEF ProfileInputs
<1>1. CASE WriteName
  <2>1. PICK n \in ConfigNames : input' = [input EXCEPT !.names = Append(@, n)]
    BY <1>1 DEF WriteName
  <2>2. topic = "profiles" /\ input.stage = "written"
    BY <1>1 DEF WriteName, About
  <2>3. Append(input.names, n) \in Seq(ConfigNames)
    BY <2>2
  <2>4. QED
    BY <2>1, <2>2, <2>3
<1>2. CASE WriteScore
  <2>1. PICK n \in ConfigNames, x \in ConfigScores :
            input' = [input EXCEPT !.given = Append(@, [cap |-> n, score |-> x])]
    BY <1>2 DEF WriteScore
  <2>2. topic = "profiles" /\ input.stage = "written"
    BY <1>2 DEF WriteScore, About
  <2>3. Append(input.given, [cap |-> n, score |-> x]) \in Seq(GivenEntry)
    BY <2>2 DEF GivenEntry
  <2>4. QED
    BY <2>1, <2>2, <2>3
<1>3. CASE Make
  <2>1. /\ topic = "profiles" /\ input.stage = "written"
        /\ input' = [input EXCEPT !.stage = "made", !.given = <<>>,
                                  !.profile = Resolved(input.names, input.given)]
    BY <1>3 DEF Make, About
  <2>2. /\ input'.stage = "made" /\ input'.given = <<>> /\ input'.names = input.names
        /\ input'.profile = Resolved(input.names, input.given)
        /\ input' = [stage |-> input'.stage, names |-> input'.names, given |-> input'.given,
                    profile |-> input'.profile]
    BY <2>1
  <2>3. QED
    BY <2>1, <2>2
<1>4. CASE Score
  <2>1. PICK scores \in Simulated(Primary(input.profile.advertised)) :
            input' = [input EXCEPT !.stage = "scored", !.profile = Resolved(<<>>, scores)]
    BY <1>4 DEF Score
  <2>2. topic = "profiles" /\ input.stage = "made"
    BY <1>4 DEF Score, About
  <2>3. /\ input'.stage = "scored" /\ input'.given = input.given /\ input'.names = input.names
        /\ input'.profile = Resolved(<<>>, scores)
        /\ input' = [stage |-> input'.stage, names |-> input'.names, given |-> input'.given,
                    profile |-> input'.profile]
    BY <2>1, <2>2
  <2>4. PICK given \in Seq(GivenEntry) : input.profile = Resolved(input.names, given)
    BY <2>2
  <2>5. ScoredFrom(input'.names, given, input'.profile)
    BY <2>3, <2>4 DEF ScoredFrom
  <2>6. QED
    BY <2>2, <2>3, <2>4, <2>5
<1>5. CASE WriteMix \/ WritePair \/ ContactWorsens \/ WriteObject \/ WriteItem
  BY <1>5 DEF WriteMix, WritePair, ContactWorsens, WriteObject, WriteItem, About
<1>6. CASE UNCHANGED inputVars
  BY <1>6 DEF inputVars
<1>7. QED
  BY <1>1, <1>2, <1>3, <1>4, <1>5, <1>6 DEF InputNext

LEMMA ProfileInputsHold == InputSpec => []ProfileInputs
BY ProfileInputsStart, ProfileInputsStep, PTL DEF InputSpec

\* What a configuration advertises is a sequence, whatever it gives.
LEMMA AdvertisedIsFinite ==
    ASSUME NEW Names, NEW names \in Seq(Names), NEW given, IsFiniteSet(DOMAIN given)
    PROVE  \E m \in Nat : DOMAIN Resolved(names, given).advertised = 1 .. m
<1> DEFINE explicit == IF names # <<>> \/ given # <<>> THEN names ELSE <<General>>
           scores == IF given # <<>> THEN given
                     ELSE [j \in DOMAIN Unique(explicit) |->
                              [cap |-> Unique(explicit)[j], score |-> 100]]
           positive == {j \in DOMAIN scores : scores[j].score > 0}
           ranked == Ranked(scores)
           n == Cardinality(positive)
           z == explicit \o ranked
           all == Unique(z)
           m == AtMost(Len(all), MAX_ADVERTISED_CAPABILITIES)
           S == Names \cup {General} \cup {ranked[k] : k \in 1 .. n}
<1>1. explicit \in Seq(Names \cup {General})
  <2>1. \A k \in 1 .. Len(names) : names[k] \in Names
    OBVIOUS
  <2>2. names \in Seq(Names \cup {General}) /\ <<General>> \in Seq(Names \cup {General})
    BY <2>1
  <2>3. QED
    BY <2>2
<1> HIDE DEF explicit
<1>2. /\ Len(explicit) \in Nat /\ DOMAIN explicit = 1 .. Len(explicit)
      /\ \A k \in 1 .. Len(explicit) : explicit[k] \in Names \cup {General}
  BY <1>1
<1>3. IsFiniteSet(DOMAIN scores)
  <2>1. CASE given # <<>>
    BY <2>1
  <2>2. CASE given = <<>>
    <3>1. /\ DOMAIN scores = 1 .. Cardinality(FirstOnes(explicit))
          /\ Cardinality(FirstOnes(explicit)) \in Nat
      BY <1>2, <2>2, UniqueKeepsFirsts
    <3>2. QED
      BY <3>1, FS_Interval
  <2>3. QED
    BY <2>1, <2>2
<1>4. n \in Nat
  <2>1. positive \in SUBSET DOMAIN scores
    OBVIOUS
  <2> HIDE DEF positive, scores
  <2>2. QED
    BY <1>3, <2>1, FS_Subset, FS_CardinalityType
<1>5. DOMAIN ranked = 1 .. n /\ ranked = [k \in 1 .. n |-> ranked[k]]
  BY DEF Ranked
<1>6. /\ \A k \in 1 .. Len(explicit) : explicit[k] \in S
      /\ \A k \in 1 .. n : ranked[k] \in S
  BY <1>2
<1>7. Resolved(names, given).advertised = SubSeq(all, 1, m)
  BY DEF Resolved, explicit, scores, ranked, z
<1> HIDE DEF ranked, positive, scores, n, S
<1>8. explicit \in Seq(S) /\ ranked \in Seq(S)
  <2>1. explicit \in Seq(S)
    BY <1>1, <1>2, <1>6
  <2>2. ranked \in Seq(S)
    BY <1>4, <1>5, <1>6
  <2>3. QED
    BY <2>1, <2>2
<1>9. Len(z) \in Nat /\ DOMAIN z = 1 .. Len(z)
  BY <1>8
<1> HIDE DEF z
<1>10. Len(all) \in Nat
  <2>1. DOMAIN all = 1 .. Cardinality(FirstOnes(z)) /\ Cardinality(FirstOnes(z)) \in Nat
    BY <1>9, UniqueKeepsFirsts
  <2>2. all = [j \in 1 .. Cardinality(FirstOnes(z)) |-> all[j]]
    BY <2>1 DEF Unique
  <2> HIDE DEF all
  <2>3. QED
    BY <2>1, <2>2
<1> HIDE DEF all
<1>11. m \in Nat /\ m <= Len(all)
  BY <1>10 DEF AtMost, MAX_ADVERTISED_CAPABILITIES
<1> HIDE DEF m
<1>12. DOMAIN SubSeq(all, 1, m) = 1 .. m
  BY <1>10, <1>11
<1>13. QED
  BY <1>7, <1>11, <1>12

\* What a node is meant for is a name the classifier knows.
LEMMA PrimaryIsKnown ==
    ASSUME NEW hints, NEW m \in Nat, DOMAIN hints = 1 .. m
    PROVE  Primary(hints) \in Caps
<1> DEFINE known == {i \in DOMAIN hints : hints[i] \in Caps}
           least == CHOOSE i \in known : \A j \in known : i <= j
<1>1. CASE known = {}
  BY <1>1, GeneralAssumption DEF Primary
<1>2. CASE known # {}
  <2>1. known \in SUBSET Int /\ IsFiniteSet(known)
    <3>1. known \in SUBSET (1 .. m) /\ IsFiniteSet(1 .. m)
      BY FS_Interval
    <3>2. QED
      BY <3>1, FS_Subset
  <2>2. \E i \in known : \A j \in known : i <= j
    <3> HIDE DEF known
    <3>1. QED
      BY <1>2, <2>1, Extremes
  <2>3. least \in known
    BY <2>2
  <2>4. Primary(hints) = hints[least]
    BY <1>2 DEF Primary
  <2> HIDE DEF least
  <2>5. QED
    BY <2>3, <2>4
<1>3. QED
  BY <1>1, <1>2

LEMMA BandsAreApart ==
    ASSUME NEW high \in 80 .. 100, NEW medium \in 50 .. 75, NEW low \in 10 .. 45
    PROVE  high > medium /\ high > low /\ medium > low /\ high > 0 /\ medium > 0 /\ low > 0
OBVIOUS

LEMMA PlacesInOrder ==
    ASSUME NEW i \in 1 .. 3, NEW j \in 1 .. 3, i < j
    PROVE  (i = 1 /\ j = 2) \/ (i = 1 /\ j = 3) \/ (i = 2 /\ j = 3)
OBVIOUS

\* A node advertises what it scored best on, leads with what it was meant for,
\* and the threshold tells its best capability from its weak one: for every
\* configuration, however long.
THEOREM ProfilesAreCorrect == InputSpec => []ProfilesCorrect
<1> DEFINE names == input.names
           advertised == input.profile.advertised
<1>1. ASSUME ProfileInputs, IsScored PROVE ProfilesCorrect
  <2>1. PICK given \in Seq(GivenEntry) : ScoredFrom(names, given, input.profile)
    BY <1>1 DEF ProfileInputs, IsScored
  <2> DEFINE primary == Primary(Resolved(names, given).advertised)
  <2>2. PICK s \in Simulated(primary) : input.profile = Resolved(<<>>, s)
    BY <2>1 DEF ScoredFrom
  <2>3. names \in Seq(ConfigNames) /\ IsFiniteSet(DOMAIN given)
    <3>1. DOMAIN given = 1 .. Len(given) /\ Len(given) \in Nat
      OBVIOUS
    <3>2. IsFiniteSet(DOMAIN given)
      BY <3>1, FS_Interval
    <3>3. names \in Seq(ConfigNames)
      BY <1>1 DEF ProfileInputs, IsScored
    <3>4. QED
      BY <3>2, <3>3
  <2>4. primary \in Caps
    BY <2>3, AdvertisedIsFinite, PrimaryIsKnown
  <2> HIDE DEF primary
  <2>5. /\ Len(advertised) = 3 /\ \A i \in 1 .. 3 : advertised[i] \in Caps
        /\ ScoredQuality \in Quality100
        /\ ScoredQuality[advertised[1]] \in 80 .. 100
        /\ ScoredQuality[advertised[2]] \in 50 .. 75
        /\ ScoredQuality[advertised[3]] \in 10 .. 45
        /\ \A c \in Caps : (\A i \in 1 .. 3 : advertised[i] # c) => ScoredQuality[c] = 0
    BY <2>2, <2>4, ScoredNodesAdvertiseTheirBest DEF ScoredQuality
  <2>6. AdvertisesStrongest
    <3> DEFINE value(i) == ScoredQuality[advertised[i]]
    <3>1. value(1) \in 80 .. 100 /\ value(2) \in 50 .. 75 /\ value(3) \in 10 .. 45
      BY <2>5
    <3> HIDE DEF value
    <3>2. value(1) > value(2) /\ value(1) > value(3) /\ value(2) > value(3)
          /\ value(1) > 0 /\ value(2) > 0 /\ value(3) > 0
      BY <3>1, BandsAreApart
    <3>3. ASSUME NEW i \in 1 .. 3 PROVE value(i) > 0
      <4>1. i = 1 \/ i = 2 \/ i = 3
        OBVIOUS
      <4>2. QED
        BY <3>2, <4>1
    <3>4. ASSUME NEW i \in 1 .. 3, NEW j \in 1 .. 3, i < j PROVE value(i) > value(j)
      <4>1. (i = 1 /\ j = 2) \/ (i = 1 /\ j = 3) \/ (i = 2 /\ j = 3)
        BY <3>4, PlacesInOrder
      <4>2. QED
        BY <3>2, <4>1
    <3>5. /\ \A i \in 1 .. 3 : ScoredQuality[advertised[i]] > 0
          /\ \A i, j \in 1 .. 3 : i < j =>
                ScoredQuality[advertised[i]] > ScoredQuality[advertised[j]]
      BY <3>3, <3>4 DEF value
    <3>6. QED
      BY <2>5, <3>5 DEF AdvertisesStrongest, Leading
  <2>7. FirstNameLeads
    <3> SUFFICES ASSUME NEW i \in DOMAIN names, names[i] \in Caps,
                        {names[j] : j \in 1 .. i - 1} \cap Caps = {},
                        Cardinality({names[j] : j \in 1 .. i - 1}) < 3
                 PROVE  advertised[1] = names[i]
      BY DEF FirstNameLeads, Leading
    <3>1. Resolved(<<>>, s).advertised[1] = names[i]
      BY <2>2, <2>3, FirstKnownNameLeads DEF primary, MAX_ADVERTISED_CAPABILITIES
    <3>2. QED
      BY <2>2, <3>1
  <2>8. LeaderIsSuitable
    <3>1. 60 \in 1 .. 100
      OBVIOUS
    <3>2. \A latency \in Nat :
             ScoreOf(OnlyFor(advertised[1]), ScoredQuality, TRUE, 0, latency)
                >= Threshold(OnlyFor(advertised[1]))
      BY <2>2, <2>4, <3>1, ThresholdTellsLeaderFromWeak DEF OnlyFor, ScoredQuality
    <3>3. QED
      BY <3>2, InputsAssumption DEF LeaderIsSuitable, Leading
  <2>9. WeakIsNotSuitable
    <3>1. 60 \in 1 .. 100
      OBVIOUS
    <3>2. \A fresh \in BOOLEAN, failures, latency \in Nat :
             ScoreOf(OnlyFor(advertised[3]), ScoredQuality, fresh, failures, latency)
                < Threshold(OnlyFor(advertised[3]))
      BY <2>2, <2>4, <3>1, ThresholdTellsLeaderFromWeak DEF OnlyFor, ScoredQuality
    <3>3. QED
      BY <3>2 DEF WeakIsNotSuitable, Leading
  <2>10. QED
    BY <2>6, <2>7, <2>8, <2>9 DEF ProfilesCorrect
<1>2. ProfileInputs => ProfilesCorrect
  BY <1>1 DEF ProfilesCorrect, AdvertisesStrongest, FirstNameLeads, LeaderIsSuitable, WeakIsNotSuitable
<1>3. QED
  BY <1>2, ProfileInputsHold, PTL

-----------------------------------------------------------------------------
(* Replies of any length.                                                   *)

ReplyEntries == UNION {shape.entries : shape \in ReplyShapes}

ReplyObjects ==
    {Broken} \cup {Scores(entries) : entries \in Seq(ReplyEntries)} \cup {Pair(e) : e \in ReplyEntries}

ReplyInputs ==
    topic = "replies" =>
        input \in [objects : Seq(ReplyObjects), words : WordSets, shape : ReplyShapes]

LEMMA ReplyInputsStart == InputInit => ReplyInputs
<1> SUFFICES ASSUME InputInit, topic = "replies"
             PROVE  input \in [objects : Seq(ReplyObjects), words : WordSets, shape : ReplyShapes]
  BY DEF ReplyInputs
<1>1. input \in NoReplies
  BY DEF InputInit
<1>2. <<>> \in Seq(ReplyObjects)
  OBVIOUS
<1>3. QED
  BY <1>1, <1>2 DEF NoReplies

LEMMA ReplyInputsStep == ReplyInputs /\ [InputNext]_inputVars => ReplyInputs'
<1> SUFFICES ASSUME ReplyInputs, [InputNext]_inputVars, topic' = "replies"
             PROVE  input' \in [objects : Seq(ReplyObjects), words : WordSets, shape : ReplyShapes]
  BY DEF ReplyInputs
<1>1. CASE WriteObject
  <2>1. PICK o \in {Broken, Scores(<<>>)} \cup {Pair(e) : e \in input.shape.entries} :
            input' = [input EXCEPT !.objects = Append(@, o)]
    BY <1>1 DEF WriteObject
  <2>2. input \in [objects : Seq(ReplyObjects), words : WordSets, shape : ReplyShapes]
    BY <1>1 DEF WriteObject, About, ReplyInputs
  <2>3. o \in ReplyObjects
    <3>1. <<>> \in Seq(ReplyEntries)
      OBVIOUS
    <3>2. input.shape.entries \subseteq ReplyEntries
      BY <2>2 DEF ReplyEntries
    <3>3. QED
      BY <2>1, <3>1, <3>2 DEF ReplyObjects
  <2>4. Append(input.objects, o) \in Seq(ReplyObjects)
    BY <2>2, <2>3
  <2>5. QED
    BY <2>1, <2>2, <2>4
<1>2. CASE WriteItem
  <2> DEFINE last == Last(input.objects)
             l == Len(input.objects)
  <2>1. input \in [objects : Seq(ReplyObjects), words : WordSets, shape : ReplyShapes]
    BY <1>2 DEF WriteItem, About, ReplyInputs
  <2>2. PICK e \in input.shape.entries :
            input' = [input EXCEPT !.objects[l] = Scores(Append(last.entries, e))]
    BY <1>2 DEF WriteItem
  <2>3. last.form = "scores" /\ input.objects # <<>>
    BY <1>2 DEF WriteItem
  <2>4. l \in 1 .. l /\ l \in Nat /\ input.objects \in [1 .. l -> ReplyObjects]
    BY <2>1, <2>3
  <2>5. last \in ReplyObjects
    BY <2>4 DEF Last
  <2>6. last.entries \in Seq(ReplyEntries)
    <3>1. Broken.form = "broken" /\ \A x \in ReplyEntries : Pair(x).form = "pair"
      BY DEF Broken, Pair
    <3>2. last # Broken /\ \A x \in ReplyEntries : last # Pair(x)
      BY <2>3, <3>1
    <3> HIDE DEF last
    <3>3. PICK entries \in Seq(ReplyEntries) : last = Scores(entries)
      BY <2>5, <3>2 DEF ReplyObjects
    <3>4. QED
      BY <3>3 DEF Scores
  <2>7. e \in ReplyEntries
    BY <2>1, <2>2 DEF ReplyEntries
  <2>8. Scores(Append(last.entries, e)) \in ReplyObjects
    <3>1. Append(last.entries, e) \in Seq(ReplyEntries)
      BY <2>6, <2>7
    <3>2. QED
      BY <3>1 DEF ReplyObjects
  <2> DEFINE objects == [input.objects EXCEPT ![l] = Scores(Append(last.entries, e))]
  <2>9. objects \in Seq(ReplyObjects)
    <3>1. objects \in [1 .. l -> ReplyObjects]
      BY <2>4, <2>8
    <3> HIDE DEF objects
    <3>2. QED
      BY <2>4, <3>1
  <2>10. input' = [input EXCEPT !.objects = objects]
    BY <2>1, <2>2
  <2> HIDE DEF objects
  <2>11. QED
    BY <2>1, <2>9, <2>10
<1>3. CASE WriteMix \/ WritePair \/ ContactWorsens \/ WriteName \/ WriteScore \/ Make \/ Score
  BY <1>3 DEF WriteMix, WritePair, ContactWorsens, WriteName, WriteScore, Make, Score, About
<1>4. CASE UNCHANGED inputVars
  BY <1>4 DEF inputVars, ReplyInputs
<1>5. QED
  BY <1>1, <1>2, <1>3, <1>4 DEF InputNext

LEMMA ObjectsAreReply ==
    ASSUME NEW objects \in Seq(ReplyObjects), NEW words \in WordSets
    PROVE  IsReply(objects, words)
<1>1. /\ Len(objects) \in Nat /\ DOMAIN objects = 1 .. Len(objects)
      /\ \A i \in DOMAIN objects : objects[i] \in ReplyObjects
  OBVIOUS
<1>2. \A e \in ReplyEntries : e.value.number \in BOOLEAN /\ e.value.n \in Int
  BY InputsAssumption DEF ReplyEntries
<1>3. ASSUME NEW o \in ReplyObjects
      PROVE  /\ o.form \in {"broken", "scores", "pair"}
             /\ Len(o.entries) \in Nat /\ DOMAIN o.entries = 1 .. Len(o.entries)
             /\ o.form = "pair" => Len(o.entries) = 1
             /\ \A k \in DOMAIN o.entries :
                   o.entries[k].value.number \in BOOLEAN /\ o.entries[k].value.n \in Int
  <2>1. CASE o = Broken
    <3>1. o.form = "broken" /\ o.entries = <<>>
      BY <2>1 DEF Broken
    <3>2. QED
      BY <3>1
  <2>2. ASSUME NEW entries \in Seq(ReplyEntries), o = Scores(entries)
        PROVE  /\ o.form = "scores" /\ o.entries = entries
               /\ Len(entries) \in Nat /\ DOMAIN entries = 1 .. Len(entries)
               /\ \A k \in DOMAIN entries : entries[k] \in ReplyEntries
    BY <2>2 DEF Scores
  <2>3. ASSUME NEW e \in ReplyEntries, o = Pair(e)
        PROVE  /\ o.form = "pair" /\ o.entries = <<e>>
               /\ Len(o.entries) = 1 /\ DOMAIN o.entries = 1 .. 1 /\ o.entries[1] = e
    BY <2>3 DEF Pair
  <2>4. CASE \E entries \in Seq(ReplyEntries) : o = Scores(entries)
    BY <1>2, <2>2, <2>4
  <2>5. CASE \E e \in ReplyEntries : o = Pair(e)
    <3>1. PICK e \in ReplyEntries : o = Pair(e)
      BY <2>5
    <3>2. /\ o.form = "pair" /\ Len(o.entries) = 1 /\ DOMAIN o.entries = 1 .. 1
          /\ o.entries[1] = e
      BY <2>3, <3>1
    <3>3. \A k \in DOMAIN o.entries : k = 1
      BY <3>2
    <3>4. QED
      BY <1>2, <3>2, <3>3
  <2>6. QED
    BY <2>1, <2>4, <2>5 DEF ReplyObjects
<1>4. IsFiniteSet(words) /\ words \subseteq Caps
  BY InputsAssumption
<1>5. QED
  BY <1>1, <1>3, <1>4 DEF IsReply

\* A reply of the language model is classified by what it says, and refused when
\* it says nothing, and the router takes the classification as it is: for
\* replies of any number of objects and entries.
THEOREM RepliesAreCorrect == InputSpec => []RepliesCorrect
<1>1. ASSUME ReplyInputs, topic = "replies"
      PROVE  LET mix == Classification(input.objects, input.words) IN
             RouterTakesItAsItIs(mix) /\ IsReadingOf(mix, input.objects, input.words)
  <2>1. IsReply(input.objects, input.words)
    BY <1>1, ObjectsAreReply DEF ReplyInputs
  <2>2. QED
    BY <2>1, ClassificationIsRight
<1>2. ReplyInputs => RepliesCorrect
  BY <1>1 DEF RepliesCorrect
<1>3. QED
  BY <1>2, ReplyInputsStart, ReplyInputsStep, PTL DEF InputSpec
-----------------------------------------------------------------------------
(* One step of one query.                                                   *)

\* What the invariant says of one query.
QueryOK(t, c) ==
    /\ t \in Tasks
    /\ c \in Seq(Calls)
    /\ PhaseInvariant(t)
    /\ PoolInvariant(t)
    /\ ForwardInvariant(t, c)

LEMMA QueryHasInvariant ==
    ASSUME Invariant, NEW q \in Queries
    PROVE  QueryOK(task[q], calls[q])
BY DEF Invariant, TypeOK, QueriesConsistent, QueryOK

\* A step moves one query and perhaps the registry: it is enough to look at
\* the new frame, the new forwards and the new registry.
LEMMA QueryStep ==
    ASSUME Invariant, NEW q \in Queries, NEW t, NEW c, QueryOK(t, c),
           task' = [task EXCEPT ![q] = t], calls' = [calls EXCEPT ![q] = c],
           registry' \in Registries, Consistent(registry')
    PROVE  Invariant'
<1>1. /\ task' \in [Queries -> Tasks]
      /\ calls' \in [Queries -> Seq(Calls)]
  BY DEF Invariant, TypeOK, QueryOK
<1>2. \A p \in Queries : QueryOK(task'[p], calls'[p])
  <2> TAKE p \in Queries
  <2>1. CASE p = q
    BY <2>1 DEF Invariant, TypeOK
  <2>2. CASE p # q
    <3>1. task'[p] = task[p] /\ calls'[p] = calls[p]
      BY <2>2 DEF Invariant, TypeOK
    <3>2. QED
      BY <3>1, QueryHasInvariant
  <2>3. QED
    BY <2>1, <2>2
<1>3. QED
  BY <1>1, <1>2 DEF Invariant, TypeOK, RegistryConsistent, QueriesConsistent, QueryOK,
                    ForwardInvariant

\* The same when only the frame of the query changes.
LEMMA FrameStep ==
    ASSUME Invariant, NEW q \in Queries, NEW t, QueryOK(t, calls[q]),
           Become(q, t), UNCHANGED <<registry, calls>>
    PROVE  Invariant'
<1>1. calls' = [calls EXCEPT ![q] = calls[q]]
  BY DEF Invariant, TypeOK
<1>2. registry' \in Registries /\ Consistent(registry')
  BY DEF Invariant, TypeOK, RegistryConsistent
<1>3. QED
  BY <1>1, <1>2, QueryStep DEF Become

\* The same when the frame and the registry change.
LEMMA RegistryStep ==
    ASSUME Invariant, NEW q \in Queries, NEW t, QueryOK(t, calls[q]),
           Become(q, t), UNCHANGED calls, registry' \in Registries, Consistent(registry')
    PROVE  Invariant'
<1>1. calls' = [calls EXCEPT ![q] = calls[q]]
  BY DEF Invariant, TypeOK
<1>2. QED
  BY <1>1, QueryStep DEF Become

\* The forwards stay right while the router works with the same exclusions.
LEMMA RoutingKeepsForwards ==
    ASSUME NEW t, NEW u, NEW c, ForwardInvariant(t, c),
           t.pc \in RoutingPCs, u.excluded = t.excluded,
           u.pc \in (RoutingPCs \ UnroutedPCs) \cup {"generate", "done", "escaped"}
    PROVE  ForwardInvariant(u, c)
BY DEF ForwardInvariant, RoutingPCs, PCs, UnroutedPCs

\* A query that has ended has nothing left to keep.
LEMMA FinalQuery ==
    ASSUME NEW t, NEW c, QueryOK(t, c), NEW u \in Tasks, u.pc \in {"done", "escaped"}
    PROVE  QueryOK(u, c)
BY DEF QueryOK, PhaseInvariant, PoolInvariant, ForwardInvariant, Final, RoutingPCs,
       UnroutedPCs

LEMMA ReturnsOK ==
    ASSUME NEW t, NEW c, QueryOK(t, c), NEW status \in Results
    PROVE  QueryOK(Returns(t, status), c)
<1>1. Returns(t, status) \in Tasks /\ Returns(t, status).pc = "done"
  BY DEF QueryOK, Returns, Tasks, PCs
<1>2. QED
  BY <1>1, FinalQuery

LEMMA RaisesOK ==
    ASSUME Invariant, NEW q \in Queries, NEW t \in Tasks
    PROVE  QueryOK(Raises(q, t), calls[q])
<1>1. QueryOK(task[q], calls[q])
  BY QueryHasInvariant
<1>2. CASE calls[q] = <<>>
  <2>1. Returns(t, "routing_error") \in Tasks /\ Returns(t, "routing_error").pc = "done"
    BY DEF Returns, Tasks, PCs, Results
  <2>2. QED
    BY <1>1, <1>2, <2>1, FinalQuery DEF Raises
<1>3. CASE calls[q] # <<>>
  <2>1. [t EXCEPT !.pc = "escaped"] \in Tasks /\ [t EXCEPT !.pc = "escaped"].pc = "escaped"
    BY DEF Tasks, PCs
  <2>2. QED
    BY <1>1, <1>3, <2>1, FinalQuery DEF Raises
<1>4. QED
  BY <1>2, <1>3

-----------------------------------------------------------------------------
(* The search.                                                              *)

LEMMA GeneralMixType == GeneralMix \in Mix /\ DefaultMix \in Mix
BY GeneralAssumption DEF GeneralMix, DefaultMix, Mix, Entry

LEMMA SearchMixType ==
    ASSUME NEW t \in Tasks
    PROVE  SearchMix(t) \in Mix
BY GeneralMixType DEF SearchMix, Tasks

LEMMA NoScoresType == NoScores \in [Nodes -> {Unscored} \cup Nat]
BY DEF NoScores

\* A new search starts from empty pools.
LEMMA BeginSearchOK ==
    ASSUME NEW excluded \in SUBSET Nodes, NEW c \in Seq(Calls),
           NEW mix \in Mix, NEW general \in BOOLEAN,
           Len(c) < MAX_FORWARD_ATTEMPTS,
           \A i \in DOMAIN c : c[i].node \in excluded /\ c[i].node # Self,
           \A i, j \in DOMAIN c : c[i].node = c[j].node => i = j
    PROVE  QueryOK(BeginSearch(excluded, mix, general), c)
<1> DEFINE u == BeginSearch(excluded, mix, general)
           caps == DiscoveryCapabilities(IF general THEN GeneralMix ELSE mix)
<1>1. caps \in SUBSET Caps
  BY DiscoveryType, GeneralMixType
<1> HIDE DEF caps
<1>2. /\ IdleTask \in Tasks
      /\ IdleTask.direct = {} /\ IdleTask.recommended = {} /\ IdleTask.ids = {}
      /\ IdleTask.score = NoScores
  BY NoScoresType, GeneralMixType DEF IdleTask, Tasks, PCs, Results
<1>3. /\ u \in Tasks
      /\ u.pc = "lookup" /\ u.direct = {} /\ u.recommended = {} /\ u.ids = {}
      /\ u.score = NoScores /\ u.excluded = excluded
  <2>1. u = [IdleTask EXCEPT !.pc = "lookup", !.mix = mix, !.general = general,
                             !.excluded = excluded, !.caps = caps]
    BY DEF BeginSearch, caps
  <2> HIDE DEF u
  <2>2. QED
    BY <1>1, <1>2, <2>1 DEF Tasks, PCs
<1> HIDE DEF u
<1>4. Evaluated(u) = {}
  BY <1>3 DEF Evaluated, NoScores
<1>5. PhaseInvariant(u)
  BY <1>3 DEF PhaseInvariant, UnroutedPCs
<1>6. PoolInvariant(u)
  BY <1>3, <1>4 DEF PoolInvariant
<1>7. ForwardInvariant(u, c)
  BY <1>3 DEF ForwardInvariant, RoutingPCs, UnroutedPCs, PCs, MAX_FORWARD_ATTEMPTS
<1>8. QED
  BY <1>3, <1>5, <1>6, <1>7 DEF QueryOK, u

\* The same, for a query the router is already at work on.
LEMMA SearchAgainOK ==
    ASSUME NEW t, NEW c, QueryOK(t, c), t.pc \in RoutingPCs,
           NEW mix \in Mix, NEW general \in BOOLEAN
    PROVE  QueryOK(BeginSearch(t.excluded, mix, general), c)
<1>1. /\ t.excluded \in SUBSET Nodes /\ c \in Seq(Calls) /\ Len(c) < MAX_FORWARD_ATTEMPTS
      /\ \A i \in DOMAIN c : c[i].node \in t.excluded /\ c[i].node # Self
      /\ \A i, j \in DOMAIN c : c[i].node = c[j].node => i = j
  BY DEF QueryOK, ForwardInvariant, Tasks
<1>2. QED
  BY <1>1, BeginSearchOK

\* What a query the router works on keeps when its pools do.
LEMMA SamePools ==
    ASSUME NEW t, NEW c, QueryOK(t, c), t.pc \in RoutingPCs,
           NEW u \in Tasks, u.pc \in RoutingPCs \ UnroutedPCs, u.excluded = t.excluded,
           u.direct = t.direct, u.recommended = t.recommended, u.score = t.score,
           u.ids \subseteq t.ids, PhaseInvariant(u)
    PROVE  QueryOK(u, c)
<1>1. ForwardInvariant(u, c)
  BY RoutingKeepsForwards DEF QueryOK
<1>2. PoolInvariant(u)
  BY DEF QueryOK, PoolInvariant, Final, RoutingPCs, Evaluated, Excluded, RecommendationExcluded
<1>3. QED
  BY <1>1, <1>2 DEF QueryOK

\* One turn of the loop a query is in.
LEMMA LoopShrinks ==
    ASSUME NEW t, NEW c, QueryOK(t, c), NEW n,
           t.pc \in {"profiles", "direct", "recommended"}
    PROVE  QueryOK([t EXCEPT !.todo = t.todo \ {n}], c)
<1> DEFINE u == [t EXCEPT !.todo = t.todo \ {n}]
<1>1. /\ u \in Tasks /\ u.pc = t.pc /\ u.todo = t.todo \ {n}
      /\ u.excluded = t.excluded /\ u.direct = t.direct /\ u.recommended = t.recommended
      /\ u.score = t.score /\ u.ids = t.ids
  BY DEF QueryOK, Tasks
<1> HIDE DEF u
<1>2. PhaseInvariant(u) /\ t.pc \in RoutingPCs /\ u.pc \in RoutingPCs \ UnroutedPCs
  BY <1>1 DEF QueryOK, PhaseInvariant, RoutingPCs, UnroutedPCs, PCs
<1>3. QED
  BY <1>1, <1>2, SamePools DEF u

-----------------------------------------------------------------------------
(* Every step of a query keeps the invariant: its arrival, its lookups.     *)

LEMMA InitInvariant == Init => Invariant
<1> SUFFICES ASSUME Init PROVE Invariant
  OBVIOUS
<1>1. registry \in Registries /\ Consistent(registry)
  BY EmptyRegistryConsistent DEF Init
<1>2. IdleTask \in Tasks
  BY NoScoresType, GeneralMixType DEF IdleTask, Tasks, PCs, Results
<1>3. Evaluated(IdleTask) = {}
  BY DEF Evaluated, IdleTask, NoScores
<1>4. PhaseInvariant(IdleTask) /\ PoolInvariant(IdleTask)
  BY <1>3 DEF PhaseInvariant, PoolInvariant, IdleTask
<1>5. <<>> \in Seq(Calls) /\ ForwardInvariant(IdleTask, <<>>)
  BY DEF ForwardInvariant, IdleTask, MAX_FORWARD_ATTEMPTS
<1>6. \A q \in Queries : task[q] = IdleTask /\ calls[q] = <<>>
  BY DEF Init
<1>7. QED
  BY <1>1, <1>2, <1>4, <1>5, <1>6
     DEF Init, Invariant, TypeOK, RegistryConsistent, QueriesConsistent, ForwardInvariant

LEMMA SubmitStep ==
    ASSUME Invariant, NEW q \in Queries, Submit(q)
    PROVE  Invariant'
<1> PICK excluded \in ClientExclusions :
        Become(q, [task[q] EXCEPT !.pc = "classify", !.excluded = excluded])
  BY DEF Submit
<1> DEFINE t == task[q]
           u == [t EXCEPT !.pc = "classify", !.excluded = excluded]
<1>1. QueryOK(t, calls[q]) /\ t.pc = "idle"
  BY QueryHasInvariant DEF Submit
<1>2. excluded \in SUBSET Nodes
  BY InputAssumption
<1> HIDE DEF t
<1>3. /\ u \in Tasks
      /\ u.pc = "classify" /\ u.direct = {} /\ u.recommended = {} /\ u.ids = {}
      /\ u.score = NoScores
  BY <1>1, <1>2 DEF QueryOK, PhaseInvariant, UnroutedPCs, Tasks, PCs
<1>4. calls[q] = <<>>
  BY <1>1 DEF QueryOK, ForwardInvariant, UnroutedPCs
<1> HIDE DEF u
<1>5. Evaluated(u) = {}
  BY <1>3 DEF Evaluated, NoScores
<1>6. PhaseInvariant(u) /\ PoolInvariant(u)
  BY <1>3, <1>5 DEF PhaseInvariant, PoolInvariant, UnroutedPCs
<1>7. ForwardInvariant(u, <<>>)
  BY <1>3 DEF ForwardInvariant, MAX_FORWARD_ATTEMPTS
<1>8. QueryOK(u, calls[q])
  BY <1>1, <1>3, <1>4, <1>6, <1>7 DEF QueryOK
<1>9. QED
  BY <1>8, FrameStep DEF Submit, u, t

LEMMA SubmitClassifiedStep ==
    ASSUME Invariant, NEW q \in Queries, SubmitClassified(q)
    PROVE  Invariant'
<1> PICK excluded \in ClientExclusions, raw \in GivenMixes :
        Become(q, BeginSearch(excluded, Normalize(raw), FALSE))
  BY DEF SubmitClassified
<1>1. QueryOK(task[q], calls[q]) /\ task[q].pc = "idle"
  BY QueryHasInvariant DEF SubmitClassified
<1>2. excluded \in SUBSET Nodes /\ Normalize(raw) \in Mix
  BY InputAssumption, NormalizeIsRight DEF IsNormalFormOf
<1>3. calls[q] = <<>>
  BY <1>1 DEF QueryOK, ForwardInvariant, UnroutedPCs
<1>4. /\ calls[q] \in Seq(Calls) /\ Len(calls[q]) < MAX_FORWARD_ATTEMPTS
      /\ DOMAIN calls[q] = {}
  BY <1>3 DEF MAX_FORWARD_ATTEMPTS
<1>5. QueryOK(BeginSearch(excluded, Normalize(raw), FALSE), calls[q])
  BY <1>2, <1>4, BeginSearchOK
<1>6. QED
  BY <1>5, FrameStep DEF SubmitClassified

LEMMA ClassifiedStep ==
    ASSUME Invariant, NEW q \in Queries, Classified(q)
    PROVE  Invariant'
<1> PICK mix \in ClassifiedMixes : Become(q, BeginSearch(task[q].excluded, mix, FALSE))
  BY DEF Classified
<1>1. QueryOK(task[q], calls[q]) /\ task[q].pc = "classify"
  BY QueryHasInvariant DEF Classified
<1>2. mix \in Mix /\ task[q].pc \in RoutingPCs
  BY <1>1, InputAssumption DEF RoutingPCs, PCs
<1>3. QueryOK(BeginSearch(task[q].excluded, mix, FALSE), calls[q])
  BY <1>1, <1>2, SearchAgainOK
<1>4. QED
  BY <1>3, FrameStep DEF Classified

LEMMA ClassifierRaisesStep ==
    ASSUME Invariant, NEW q \in Queries, ClassifierRaises(q)
    PROVE  Invariant'
<1>1. QueryOK(task[q], calls[q])
  BY QueryHasInvariant
<1>2. QueryOK(Returns(task[q], "routing_error"), calls[q])
  BY <1>1, ReturnsOK DEF Results
<1>3. QED
  BY <1>2, FrameStep DEF ClassifierRaises

LEMMA LookupReturnsStep ==
    ASSUME Invariant, NEW q \in Queries, LookupReturns(q)
    PROVE  Invariant'
<1> DEFINE t == task[q]
<1> PICK c \in t.caps : \E found \in SUBSET Providers(c) :
        Become(q, [t EXCEPT !.pc = "profiles", !.caps = t.caps \ {c}, !.todo = found \ {Self}])
  BY DEF LookupReturns
<1> PICK found \in SUBSET Providers(c) :
        Become(q, [t EXCEPT !.pc = "profiles", !.caps = t.caps \ {c}, !.todo = found \ {Self}])
  OBVIOUS
<1> DEFINE u == [t EXCEPT !.pc = "profiles", !.caps = t.caps \ {c}, !.todo = found \ {Self}]
<1>1. QueryOK(t, calls[q]) /\ t.pc = "lookup"
  BY QueryHasInvariant DEF LookupReturns
<1>2. found \subseteq Nodes
  BY DEF Providers
<1> HIDE DEF t
<1>3. /\ u \in Tasks /\ u.pc = "profiles" /\ Self \notin u.todo
      /\ u.excluded = t.excluded /\ u.direct = t.direct /\ u.recommended = t.recommended
      /\ u.score = t.score /\ u.ids = t.ids
  BY <1>1, <1>2 DEF QueryOK, Tasks, PCs
<1> HIDE DEF u
<1>4. PhaseInvariant(u) /\ t.pc \in RoutingPCs /\ u.pc \in RoutingPCs \ UnroutedPCs
  BY <1>1, <1>3 DEF QueryOK, PhaseInvariant, RoutingPCs, UnroutedPCs, PCs
<1>5. QueryOK(u, calls[q])
  BY <1>1, <1>3, <1>4, SamePools
<1>6. QED
  BY <1>5, FrameStep DEF LookupReturns, t, u

LEMMA LookupRaisesStep ==
    ASSUME Invariant, NEW q \in Queries, LookupRaises(q)
    PROVE  Invariant'
<1>1. QueryOK(Raises(q, task[q]), calls[q])
  BY RaisesOK DEF Invariant, TypeOK
<1>2. QED
  BY <1>1, FrameStep DEF LookupRaises

LEMMA ProfileServedStep ==
    ASSUME Invariant, NEW q \in Queries, ProfileServed(q)
    PROVE  Invariant'
<1> DEFINE t == task[q]
<1> PICK n \in t.todo : /\ registry' = Upsert(registry, n)
                        /\ Become(q, [t EXCEPT !.todo = t.todo \ {n}])
  BY DEF ProfileServed
<1> DEFINE u == [t EXCEPT !.todo = t.todo \ {n}]
<1>1. QueryOK(t, calls[q]) /\ t.pc = "profiles"
  BY QueryHasInvariant DEF ProfileServed
<1>2. n \in Nodes \ {Self}
  BY <1>1 DEF QueryOK, PhaseInvariant, Tasks
<1>3. registry' \in Registries /\ Consistent(registry')
  BY <1>2, UpsertConsistent DEF Invariant, TypeOK, RegistryConsistent
<1> HIDE DEF t
<1>4. QueryOK(u, calls[q])
  BY <1>1, LoopShrinks
<1>5. QED
  BY <1>3, <1>4, RegistryStep DEF ProfileServed, t

LEMMA ProfileMissingStep ==
    ASSUME Invariant, NEW q \in Queries, ProfileMissing(q)
    PROVE  Invariant'
<1> DEFINE t == task[q]
<1> PICK n \in t.todo : Become(q, [t EXCEPT !.todo = t.todo \ {n}])
  BY DEF ProfileMissing
<1>1. QueryOK(t, calls[q]) /\ t.pc = "profiles"
  BY QueryHasInvariant DEF ProfileMissing
<1> HIDE DEF t
<1>2. QueryOK([t EXCEPT !.todo = t.todo \ {n}], calls[q])
  BY <1>1, LoopShrinks
<1>3. QED
  BY <1>2, FrameStep DEF ProfileMissing, t

LEMMA ProvidersVisitedStep ==
    ASSUME Invariant, NEW q \in Queries, ProvidersVisited(q)
    PROVE  Invariant'
<1> DEFINE t == task[q]
           u == [t EXCEPT !.pc = "lookup"]
<1>1. QueryOK(t, calls[q]) /\ t.pc = "profiles"
  BY QueryHasInvariant DEF ProvidersVisited
<1> HIDE DEF t
<1>2. /\ u \in Tasks /\ u.pc = "lookup"
      /\ u.excluded = t.excluded /\ u.direct = t.direct /\ u.recommended = t.recommended
      /\ u.score = t.score /\ u.ids = t.ids
  BY <1>1 DEF QueryOK, Tasks, PCs
<1> HIDE DEF u
<1>3. PhaseInvariant(u) /\ t.pc \in RoutingPCs /\ u.pc \in RoutingPCs \ UnroutedPCs
  BY <1>1, <1>2 DEF QueryOK, PhaseInvariant, RoutingPCs, UnroutedPCs, PCs
<1>4. QueryOK(u, calls[q])
  BY <1>1, <1>2, <1>3, SamePools
<1>5. QED
  BY <1>4, FrameStep DEF ProvidersVisited, t, u

-----------------------------------------------------------------------------
(* The two stages of the search.                                            *)

LEMMA ScoreIsNat ==
    ASSUME NEW t \in Tasks, NEW n \in Nodes, NEW fresh \in BOOLEAN,
           NEW failures \in Nat, NEW latency \in Nat
    PROVE  ScoreOf(SearchMix(t), Quality[n], fresh, failures, latency) \in Nat
<1>1. SearchMix(t) \in Mix /\ Quality[n] \in Quality100
  BY SearchMixType, ProfileAssumption DEF Quality100
<1>2. ScoreOf(SearchMix(t), Quality[n], fresh, failures, latency) \in 0 .. Scale(SearchMix(t))
  BY <1>1, ScoreType
<1>3. QED
  BY <1>2

LEMMA RemoteScoreType ==
    ASSUME NEW t \in Tasks, NEW n \in Nodes, NEW reg \in Registries
    PROVE  RemoteScore(t, n, reg) \in Nat
<1> DEFINE status == reg.status[n]
           latency == IF status.rtt = NoRtt THEN 0 ELSE status.rtt
<1>1. status \in Statuses
  BY DEF Registries
<1>2. status.failures \in Nat /\ latency \in Nat /\ IsPeerFreshLive(reg, n) \in BOOLEAN
  BY <1>1, FailureCapAssumption DEF Statuses, IsPeerFreshLive
<1>3. RemoteScore(t, n, reg) =
        ScoreOf(SearchMix(t), Quality[n], IsPeerFreshLive(reg, n), status.failures, latency)
  BY DEF RemoteScore
<1> HIDE DEF status, latency
<1>4. QED
  BY <1>2, <1>3, ScoreIsNat

LEMMA BeginDirectStep ==
    ASSUME Invariant, NEW q \in Queries, BeginDirect(q)
    PROVE  Invariant'
<1> DEFINE t == task[q]
           candidates == {n \in Nodes : Candidate(t, n)}
           score == IF HasAnyRequested(Quality[Self], SearchMix(t))
                    THEN [NoScores EXCEPT ![Self] = LocalScore(t)] ELSE NoScores
           u == [t EXCEPT !.pc = "direct", !.direct = candidates, !.todo = candidates,
                          !.score = score]
<1>1. QueryOK(t, calls[q]) /\ t.pc = "lookup"
  BY QueryHasInvariant DEF BeginDirect
<1>2. Become(q, u) /\ UNCHANGED <<registry, calls>>
  BY DEF BeginDirect
<1>3. candidates \subseteq Nodes /\ Excluded(t) \cap candidates = {}
  BY DEF Candidate
<1> HIDE DEF t, candidates
<1>4. LocalScore(t) \in Nat
  BY <1>1, ScoreIsNat, SelfAssumption DEF LocalScore, QueryOK
<1>5. /\ score \in [Nodes -> {Unscored} \cup Nat]
      /\ \A n \in Nodes \ {Self} : score[n] = Unscored
  BY <1>4, NoScoresType DEF NoScores
<1> HIDE DEF score
<1>6. /\ u \in Tasks /\ u.pc = "direct" /\ u.todo = candidates
      /\ u.excluded = t.excluded /\ u.direct = candidates /\ u.recommended = {}
      /\ u.score = score /\ u.ids = {}
  BY <1>1, <1>3, <1>5 DEF QueryOK, PhaseInvariant, Tasks, PCs
<1> HIDE DEF u
<1>7. PhaseInvariant(u) /\ t.pc \in RoutingPCs /\ u.pc \in RoutingPCs \ UnroutedPCs
  BY <1>1, <1>6 DEF PhaseInvariant, RoutingPCs, UnroutedPCs, PCs
<1>8. PoolInvariant(u)
  BY <1>3, <1>5, <1>6 DEF PoolInvariant, Evaluated, Excluded
<1>9. QueryOK(u, calls[q])
  BY <1>1, <1>6, <1>7, <1>8, RoutingKeepsForwards DEF QueryOK
<1>10. QED
  BY <1>2, <1>9, FrameStep

LEMMA PingSucceedsStep ==
    ASSUME Invariant, NEW q \in Queries, PingSucceeds(q)
    PROVE  Invariant'
<1> DEFINE t == task[q]
<1> PICK n \in t.todo, rtt \in Rtts :
        /\ registry' = MarkAlive(registry, n, rtt)
        /\ Become(q, [t EXCEPT !.todo = t.todo \ {n}, !.score[n] = RemoteScore(t, n, registry')])
  BY DEF PingSucceeds
<1> DEFINE score == [t.score EXCEPT ![n] = RemoteScore(t, n, registry')]
           u == [t EXCEPT !.todo = t.todo \ {n}, !.score = score]
<1>1. QueryOK(t, calls[q]) /\ t.pc \in {"direct", "recommended"}
  BY QueryHasInvariant DEF PingSucceeds
<1>2. /\ n \in Nodes \ {Self}
      /\ n \in t.direct \cup t.recommended
  BY <1>1 DEF QueryOK, PhaseInvariant, PoolInvariant, Excluded, Final, Tasks
<1>3. registry' \in Registries /\ Consistent(registry')
  <2>1. rtt \in {NoRtt} \cup Nat
    BY InputAssumption
  <2>2. QED
    BY <1>2, <2>1, MarkAliveConsistent DEF Invariant, TypeOK, RegistryConsistent
<1>4. RemoteScore(t, n, registry') \in Nat
  BY <1>1, <1>2, <1>3, RemoteScoreType DEF QueryOK
<1>5. Become(q, u) /\ UNCHANGED calls
  BY DEF PingSucceeds
<1> HIDE DEF t
<1>6. /\ score \in [Nodes -> {Unscored} \cup Nat]
      /\ \A m \in Nodes \ {n} : score[m] = t.score[m]
  BY <1>1, <1>4 DEF QueryOK, Tasks
<1> HIDE DEF score
<1>7. /\ u \in Tasks /\ u.pc = t.pc /\ u.todo = t.todo \ {n}
      /\ u.excluded = t.excluded /\ u.direct = t.direct /\ u.recommended = t.recommended
      /\ u.score = score /\ u.ids = t.ids
  BY <1>1, <1>6 DEF QueryOK, Tasks
<1> HIDE DEF u
<1>8. PhaseInvariant(u) /\ t.pc \in RoutingPCs /\ u.pc \in RoutingPCs \ UnroutedPCs
  BY <1>1, <1>7 DEF QueryOK, PhaseInvariant, RoutingPCs, UnroutedPCs, PCs
<1>9. PoolInvariant(u)
  <2>1. Evaluated(u) \subseteq Evaluated(t) \cup {n}
    BY <1>6, <1>7 DEF Evaluated
  <2>2. PoolInvariant(t) /\ ~Final(t)
    BY <1>1 DEF QueryOK, Final
  <2>3. QED
    BY <1>2, <1>7, <2>1, <2>2 DEF PoolInvariant, Excluded, RecommendationExcluded
<1>10. QueryOK(u, calls[q])
  BY <1>1, <1>7, <1>8, <1>9, RoutingKeepsForwards DEF QueryOK
<1>11. QED
  BY <1>3, <1>5, <1>10, RegistryStep

LEMMA PingFailsStep ==
    ASSUME Invariant, NEW q \in Queries, PingFails(q)
    PROVE  Invariant'
<1> DEFINE t == task[q]
<1> PICK n \in t.todo : /\ registry' = MarkUnreachable(registry, n)
                        /\ Become(q, [t EXCEPT !.todo = t.todo \ {n}])
  BY DEF PingFails
<1>1. QueryOK(t, calls[q]) /\ t.pc \in {"direct", "recommended"}
  BY QueryHasInvariant DEF PingFails
<1>2. n \in Nodes \ {Self}
  BY <1>1 DEF QueryOK, PhaseInvariant, PoolInvariant, Excluded, Final, Tasks
<1>3. registry' \in Registries /\ Consistent(registry')
  BY <1>2, MarkUnreachableConsistent DEF Invariant, TypeOK, RegistryConsistent
<1> HIDE DEF t
<1>4. QueryOK([t EXCEPT !.todo = t.todo \ {n}], calls[q])
  BY <1>1, LoopShrinks
<1>5. QED
  BY <1>3, <1>4, RegistryStep DEF PingFails, t

\* The router decides for an evaluated node.
LEMMA SelectStep ==
    ASSUME Invariant, NEW q \in Queries, NEW pool \in SUBSET Evaluated(task[q]),
           task[q].pc \in {"direct", "recommended"},
           Select(q, task[q], pool), UNCHANGED <<registry, calls>>
    PROVE  Invariant'
<1> DEFINE t == task[q]
<1> PICK n \in Best(t, pool) : Become(q, [t EXCEPT !.pc = "decided", !.target = n])
  BY DEF Select
<1> DEFINE u == [t EXCEPT !.pc = "decided", !.target = n]
<1>1. QueryOK(t, calls[q])
  BY QueryHasInvariant
<1>2. n \in Evaluated(t)
  BY DEF Best
<1>3. n \in Nodes /\ (n = Self \/ n \notin t.excluded)
  BY <1>1, <1>2 DEF QueryOK, PoolInvariant, Final, Excluded, Evaluated
<1>4. t.pc \in {"direct", "recommended"}
  OBVIOUS
<1> HIDE DEF t
<1>5. /\ u \in Tasks /\ u.pc = "decided" /\ u.target = n
      /\ u.excluded = t.excluded /\ u.direct = t.direct /\ u.recommended = t.recommended
      /\ u.score = t.score /\ u.ids = t.ids
  BY <1>1, <1>3 DEF QueryOK, Tasks, PCs
<1> HIDE DEF u
<1>6. PhaseInvariant(u) /\ t.pc \in RoutingPCs /\ u.pc \in RoutingPCs \ UnroutedPCs
  BY <1>3, <1>4, <1>5 DEF PhaseInvariant, RoutingPCs, UnroutedPCs, PCs
<1>7. QueryOK(u, calls[q])
  BY <1>1, <1>5, <1>6, SamePools
<1>8. QED
  BY <1>7, FrameStep DEF t, u

\* The loop that asks for recommendations moves to its next capability.
LEMMA AskOnOK ==
    ASSUME NEW t, NEW c, QueryOK(t, c), NEW caps \in SUBSET Caps,
           t.pc \in {"direct", "ask"}
    PROVE  QueryOK(AskOn(t, caps), c)
<1> DEFINE u == AskOn(t, caps)
<1>1. ASSUME NEW todo \in SUBSET Nodes, NEW left \in SUBSET Caps
      PROVE  QueryOK([t EXCEPT !.pc = "ask", !.caps = left, !.todo = todo], c)
  <2> DEFINE v == [t EXCEPT !.pc = "ask", !.caps = left, !.todo = todo]
  <2>1. /\ v \in Tasks /\ v.pc = "ask"
        /\ v.excluded = t.excluded /\ v.direct = t.direct /\ v.recommended = t.recommended
        /\ v.score = t.score /\ v.ids = t.ids
    BY DEF QueryOK, Tasks, PCs
  <2> HIDE DEF v
  <2>2. PhaseInvariant(v) /\ t.pc \in RoutingPCs /\ v.pc \in RoutingPCs \ UnroutedPCs
    BY <2>1 DEF PhaseInvariant, RoutingPCs, UnroutedPCs, PCs
  <2>3. QED
    BY <2>1, <2>2, SamePools DEF v
<1>2. CASE caps = {}
  BY <1>1, <1>2 DEF AskOn
<1>3. CASE caps # {}
  <2> DEFINE first == CHOOSE k \in caps : IsFirstOf(k, caps, SearchMix(t))
  <2>1. u = [t EXCEPT !.pc = "ask", !.caps = caps, !.todo = CapableSources(t, first)]
    BY <1>3 DEF AskOn
  <2> HIDE DEF first, u
  <2>2. CapableSources(t, first) \subseteq Nodes
    BY DEF CapableSources, QueryOK, Tasks
  <2>3. QED
    BY <1>1, <2>1, <2>2 DEF u
<1>4. QED
  BY <1>2, <1>3

LEMMA DirectEvaluatedStep ==
    ASSUME Invariant, NEW q \in Queries, DirectEvaluated(q)
    PROVE  Invariant'
<1> DEFINE t == task[q]
<1>1. QueryOK(t, calls[q]) /\ t.pc = "direct"
  BY QueryHasInvariant DEF DirectEvaluated
<1>2. CASE Suffices(t, Evaluated(t))
  BY <1>1, <1>2, SelectStep DEF DirectEvaluated
<1>3. CASE ~Suffices(t, Evaluated(t))
  <2>1. CapsOf(SearchMix(t)) \in SUBSET Caps
    BY <1>1, SearchMixType, DiscoveryType DEF QueryOK
  <2>2. QueryOK(AskOn(t, CapsOf(SearchMix(t))), calls[q])
    BY <1>1, <2>1, AskOnOK
  <2>3. QED
    BY <1>3, <2>2, FrameStep DEF DirectEvaluated
<1>4. QED
  BY <1>2, <1>3

-----------------------------------------------------------------------------
(* The recommendations.                                                     *)

LEMMA RecommendationsReturnStep ==
    ASSUME Invariant, NEW q \in Queries, RecommendationsReturn(q)
    PROVE  Invariant'
<1> DEFINE t == task[q]
<1> PICK c \in t.caps, source \in t.todo :
        \E ids \in Recommendations(t, c) :
            Become(q, [t EXCEPT !.todo = t.todo \ {source}, !.ids = ids])
  BY DEF RecommendationsReturn
<1> PICK ids \in Recommendations(t, c) :
        Become(q, [t EXCEPT !.todo = t.todo \ {source}, !.ids = ids])
  OBVIOUS
<1> DEFINE u == [t EXCEPT !.todo = t.todo \ {source}, !.ids = ids]
<1>1. QueryOK(t, calls[q]) /\ t.pc = "ask"
  BY QueryHasInvariant DEF RecommendationsReturn
<1>2. ids \subseteq Nodes /\ ids \cap RecommendationExcluded(t) = {}
  BY DEF Recommendations, Providers
<1> HIDE DEF t
<1>3. /\ u \in Tasks /\ u.pc = "ask" /\ u.ids = ids
      /\ u.excluded = t.excluded /\ u.direct = t.direct /\ u.recommended = t.recommended
      /\ u.score = t.score
  BY <1>1, <1>2 DEF QueryOK, Tasks, PCs
<1> HIDE DEF u
<1>4. PhaseInvariant(u) /\ t.pc \in RoutingPCs /\ u.pc \in RoutingPCs \ UnroutedPCs
  BY <1>1, <1>3 DEF PhaseInvariant, RoutingPCs, UnroutedPCs, PCs
<1>5. PoolInvariant(u)
  BY <1>1, <1>2, <1>3
     DEF QueryOK, PoolInvariant, Final, Evaluated, Excluded, RecommendationExcluded
<1>6. QueryOK(u, calls[q])
  BY <1>1, <1>3, <1>4, <1>5, RoutingKeepsForwards DEF QueryOK
<1>7. QED
  BY <1>6, FrameStep DEF RecommendationsReturn, t, u

\* A peer that is in no pool yet joins the recommended ones, or does not.
LEMMA RecommendedOK ==
    ASSUME NEW t, NEW c, QueryOK(t, c), t.pc = "ask", NEW reg,
           NEW n \in Nodes, n \notin RecommendationExcluded(t), n \notin t.ids
    PROVE  QueryOK(Recommended(t, n, reg), c)
<1> DEFINE u == [t EXCEPT !.recommended = t.recommended \cup {n}]
<1>1. /\ u \in Tasks /\ u.pc = "ask" /\ u.recommended = t.recommended \cup {n}
      /\ u.excluded = t.excluded /\ u.direct = t.direct
      /\ u.score = t.score /\ u.ids = t.ids
  BY DEF QueryOK, Tasks
<1>2. Recommended(t, n, reg) \in {t, u}
  BY DEF Recommended
<1> HIDE DEF u
<1>3. PhaseInvariant(u) /\ t.pc \in RoutingPCs /\ u.pc \in RoutingPCs \ UnroutedPCs
  BY <1>1 DEF PhaseInvariant, RoutingPCs, UnroutedPCs, PCs
<1>4. PoolInvariant(u)
  BY <1>1 DEF QueryOK, PoolInvariant, Final, Evaluated, Excluded, RecommendationExcluded
<1>5. QueryOK(u, c)
  BY <1>1, <1>3, <1>4, RoutingKeepsForwards DEF QueryOK
<1>6. QED
  BY <1>2, <1>5

LEMMA ConsiderKnownStep ==
    ASSUME Invariant, NEW q \in Queries, ConsiderKnown(q)
    PROVE  Invariant'
<1> DEFINE t == task[q]
<1> PICK n \in t.ids :
        Become(q, IF n \in RecommendationExcluded(t) THEN [t EXCEPT !.ids = t.ids \ {n}]
                  ELSE Recommended([t EXCEPT !.ids = t.ids \ {n}], n, registry))
  BY DEF ConsiderKnown
<1> DEFINE rest == [t EXCEPT !.ids = t.ids \ {n}]
<1>1. QueryOK(t, calls[q]) /\ t.pc = "ask" /\ UNCHANGED <<registry, calls>>
  BY QueryHasInvariant DEF ConsiderKnown
<1> HIDE DEF t
<1>2. /\ rest \in Tasks /\ rest.pc = "ask" /\ rest.ids = t.ids \ {n} /\ n \in Nodes
      /\ rest.excluded = t.excluded /\ rest.direct = t.direct
      /\ rest.recommended = t.recommended /\ rest.score = t.score
  BY <1>1 DEF QueryOK, Tasks
<1>3. Become(q, IF n \in RecommendationExcluded(t) THEN rest ELSE Recommended(rest, n, registry))
  BY DEF t
<1> HIDE DEF rest
<1>4. PhaseInvariant(rest) /\ t.pc \in RoutingPCs /\ rest.pc \in RoutingPCs \ UnroutedPCs
  BY <1>1, <1>2 DEF PhaseInvariant, RoutingPCs, UnroutedPCs, PCs
<1>5. QueryOK(rest, calls[q])
  BY <1>1, <1>2, <1>4, SamePools
<1>6. CASE n \in RecommendationExcluded(t)
  BY <1>1, <1>3, <1>5, <1>6, FrameStep
<1>7. CASE n \notin RecommendationExcluded(t)
  <2>1. n \notin RecommendationExcluded(rest) /\ n \notin rest.ids
    BY <1>2, <1>7 DEF RecommendationExcluded, Excluded
  <2>2. QueryOK(Recommended(rest, n, registry), calls[q])
    BY <1>2, <1>5, <2>1, RecommendedOK
  <2>3. QED
    BY <1>1, <1>3, <1>7, <2>2, FrameStep
<1>8. QED
  BY <1>6, <1>7

LEMMA FetchRecommendedStep ==
    ASSUME Invariant, NEW q \in Queries, FetchRecommended(q)
    PROVE  Invariant'
<1> DEFINE t == task[q]
<1> PICK n \in t.ids :
        /\ n \notin RecommendationExcluded(t)
        /\ Become(q, [t EXCEPT !.pc = "fetch", !.ids = t.ids \ {n}, !.target = n])
  BY DEF FetchRecommended
<1> DEFINE u == [t EXCEPT !.pc = "fetch", !.ids = t.ids \ {n}, !.target = n]
<1>1. QueryOK(t, calls[q]) /\ t.pc = "ask"
  BY QueryHasInvariant DEF FetchRecommended
<1> HIDE DEF t
<1>2. /\ u \in Tasks /\ u.pc = "fetch" /\ u.ids = t.ids \ {n} /\ u.target = n /\ n \in Nodes
      /\ u.excluded = t.excluded /\ u.direct = t.direct
      /\ u.recommended = t.recommended /\ u.score = t.score
  BY <1>1 DEF QueryOK, Tasks, PCs
<1> HIDE DEF u
<1>3. PhaseInvariant(u) /\ t.pc \in RoutingPCs /\ u.pc \in RoutingPCs \ UnroutedPCs
  BY <1>1, <1>2 DEF PhaseInvariant, RoutingPCs, UnroutedPCs, PCs, RecommendationExcluded, Excluded
<1>4. QueryOK(u, calls[q])
  BY <1>1, <1>2, <1>3, SamePools
<1>5. QED
  BY <1>4, FrameStep DEF FetchRecommended, t, u

\* The fetch is over, with or without a profile.
LEMMA FetchEnds ==
    ASSUME NEW t, NEW c, QueryOK(t, c), t.pc = "fetch"
    PROVE  LET rest == [t EXCEPT !.pc = "ask", !.target = NoNode] IN
           /\ QueryOK(rest, c) /\ rest.pc = "ask" /\ rest.ids = t.ids
           /\ RecommendationExcluded(rest) = RecommendationExcluded(t)
<1> DEFINE rest == [t EXCEPT !.pc = "ask", !.target = NoNode]
<1>1. /\ rest \in Tasks /\ rest.pc = "ask" /\ rest.ids = t.ids
      /\ rest.excluded = t.excluded /\ rest.direct = t.direct
      /\ rest.recommended = t.recommended /\ rest.score = t.score
  BY DEF QueryOK, Tasks, PCs
<1> HIDE DEF rest
<1>2. PhaseInvariant(rest) /\ t.pc \in RoutingPCs /\ rest.pc \in RoutingPCs \ UnroutedPCs
  BY <1>1 DEF PhaseInvariant, RoutingPCs, UnroutedPCs, PCs
<1>3. QueryOK(rest, c)
  BY <1>1, <1>2, SamePools
<1>4. RecommendationExcluded(rest) = RecommendationExcluded(t)
  BY <1>1 DEF RecommendationExcluded, Excluded
<1>5. QED
  BY <1>1, <1>3, <1>4 DEF rest

LEMMA FetchServedStep ==
    ASSUME Invariant, NEW q \in Queries, FetchServed(q)
    PROVE  Invariant'
<1> DEFINE t == task[q]
           rest == [t EXCEPT !.pc = "ask", !.target = NoNode]
<1>1. QueryOK(t, calls[q]) /\ t.pc = "fetch"
  BY QueryHasInvariant DEF FetchServed
<1>2. t.target \in Nodes \ (RecommendationExcluded(t) \cup t.ids) /\ t.target # Self
  BY <1>1 DEF QueryOK, PhaseInvariant, RecommendationExcluded, Excluded
<1>3. registry' \in Registries /\ Consistent(registry')
  BY <1>2, UpsertConsistent DEF FetchServed, Invariant, TypeOK, RegistryConsistent
<1>4. Become(q, Recommended(rest, t.target, registry')) /\ UNCHANGED calls
  BY DEF FetchServed
<1> HIDE DEF t
<1>5. QueryOK(rest, calls[q]) /\ rest.pc = "ask" /\ rest.ids = t.ids
      /\ RecommendationExcluded(rest) = RecommendationExcluded(t)
  BY <1>1, FetchEnds
<1> HIDE DEF rest
<1>6. QueryOK(Recommended(rest, t.target, registry'), calls[q])
  BY <1>2, <1>5, RecommendedOK
<1>7. QED
  BY <1>3, <1>4, <1>6, RegistryStep

LEMMA FetchMissingStep ==
    ASSUME Invariant, NEW q \in Queries, FetchMissing(q)
    PROVE  Invariant'
<1>1. QueryOK(task[q], calls[q]) /\ task[q].pc = "fetch"
  BY QueryHasInvariant DEF FetchMissing
<1>2. QueryOK([task[q] EXCEPT !.pc = "ask", !.target = NoNode], calls[q])
  BY <1>1, FetchEnds
<1>3. QED
  BY <1>2, FrameStep DEF FetchMissing

LEMMA FetchRaisesStep ==
    ASSUME Invariant, NEW q \in Queries, FetchRaises(q)
    PROVE  Invariant'
<1>1. [task[q] EXCEPT !.target = NoNode] \in Tasks
  BY DEF Invariant, TypeOK, Tasks
<1>2. QueryOK(Raises(q, [task[q] EXCEPT !.target = NoNode]), calls[q])
  BY <1>1, RaisesOK
<1>3. QED
  BY <1>2, FrameStep DEF FetchRaises

LEMMA SourcesAskedStep ==
    ASSUME Invariant, NEW q \in Queries, SourcesAsked(q)
    PROVE  Invariant'
<1> PICK c \in task[q].caps : Become(q, AskOn(task[q], task[q].caps \ {c}))
  BY DEF SourcesAsked
<1>1. QueryOK(task[q], calls[q]) /\ task[q].pc = "ask"
  BY QueryHasInvariant DEF SourcesAsked
<1>2. task[q].caps \ {c} \in SUBSET Caps
  BY <1>1 DEF QueryOK, Tasks
<1>3. QueryOK(AskOn(task[q], task[q].caps \ {c}), calls[q])
  BY <1>1, <1>2, AskOnOK
<1>4. QED
  BY <1>3, FrameStep DEF SourcesAsked

LEMMA RecommendationsDoneStep ==
    ASSUME Invariant, NEW q \in Queries, RecommendationsDone(q)
    PROVE  Invariant'
<1> DEFINE t == task[q]
           u == [t EXCEPT !.pc = "recommended", !.todo = t.recommended]
<1>1. QueryOK(t, calls[q]) /\ t.pc = "ask"
  BY QueryHasInvariant DEF RecommendationsDone
<1> HIDE DEF t
<1>2. /\ u \in Tasks /\ u.pc = "recommended" /\ u.todo = t.recommended
      /\ u.excluded = t.excluded /\ u.direct = t.direct /\ u.recommended = t.recommended
      /\ u.score = t.score /\ u.ids = t.ids
  BY <1>1 DEF QueryOK, Tasks, PCs
<1> HIDE DEF u
<1>3. PhaseInvariant(u) /\ t.pc \in RoutingPCs /\ u.pc \in RoutingPCs \ UnroutedPCs
  BY <1>1, <1>2 DEF PhaseInvariant, RoutingPCs, UnroutedPCs, PCs
<1>4. QueryOK(u, calls[q])
  BY <1>1, <1>2, <1>3, SamePools
<1>5. QED
  BY <1>4, FrameStep DEF RecommendationsDone, t, u

LEMMA RecommendedEvaluatedStep ==
    ASSUME Invariant, NEW q \in Queries, RecommendedEvaluated(q)
    PROVE  Invariant'
<1> DEFINE t == task[q]
<1>1. /\ QueryOK(t, calls[q]) /\ t.pc = "recommended" /\ t.pc \in RoutingPCs
      /\ UNCHANGED <<registry, calls>>
  BY QueryHasInvariant DEF RecommendedEvaluated, RoutingPCs, PCs
<1>2. CASE Select(q, t, t.recommended \cap Evaluated(t)) \/ Select(q, t, Evaluated(t))
  BY <1>1, <1>2, SelectStep
<1>3. CASE NoCandidate(q, t)
  <2>1. QueryOK(Returns(t, "no_suitable_node"), calls[q])
    BY <1>1, ReturnsOK DEF Results
  <2>2. QueryOK(BeginSearch(t.excluded, t.mix, TRUE), calls[q])
    BY <1>1, SearchAgainOK DEF QueryOK, Tasks
  <2>3. QED
    BY <1>1, <1>3, <2>1, <2>2, FrameStep DEF NoCandidate
<1>4. QED
  BY <1>2, <1>3 DEF RecommendedEvaluated

-----------------------------------------------------------------------------
(* Execution: here, or at the peer the router chose.                        *)

LEMMA ExecuteLocallyStep ==
    ASSUME Invariant, NEW q \in Queries, ExecuteLocally(q)
    PROVE  Invariant'
<1> DEFINE t == task[q]
           u == [t EXCEPT !.pc = "generate"]
<1>1. QueryOK(t, calls[q]) /\ t.pc = "decided" /\ t.target = Self
  BY QueryHasInvariant DEF ExecuteLocally
<1> HIDE DEF t
<1>2. /\ u \in Tasks /\ u.pc = "generate" /\ u.target = t.target
      /\ u.excluded = t.excluded /\ u.direct = t.direct /\ u.recommended = t.recommended
      /\ u.score = t.score /\ u.ids = t.ids
  BY <1>1 DEF QueryOK, Tasks, PCs
<1> HIDE DEF u
<1>3. PhaseInvariant(u) /\ t.pc \in RoutingPCs
  BY <1>1, <1>2 DEF PhaseInvariant, RoutingPCs, UnroutedPCs, PCs
<1>4. PoolInvariant(u)
  BY <1>1, <1>2 DEF QueryOK, PoolInvariant, Final, Evaluated, Excluded, RecommendationExcluded
<1>5. QueryOK(u, calls[q])
  BY <1>1, <1>2, <1>3, <1>4, RoutingKeepsForwards DEF QueryOK
<1>6. QED
  BY <1>5, FrameStep DEF ExecuteLocally, t, u

LEMMA GenerationStep ==
    ASSUME Invariant, NEW q \in Queries, GenerationSucceeds(q) \/ GenerationRaises(q)
    PROVE  Invariant'
<1>1. QueryOK(task[q], calls[q])
  BY QueryHasInvariant
<1>2. /\ QueryOK(Returns(task[q], "ok"), calls[q])
      /\ QueryOK(Returns(task[q], "generation_error"), calls[q])
  BY <1>1, ReturnsOK DEF Results
<1>3. QueryOK([task[q] EXCEPT !.pc = "escaped"], calls[q])
  <2>1. [task[q] EXCEPT !.pc = "escaped"] \in Tasks /\ [task[q] EXCEPT !.pc = "escaped"].pc = "escaped"
    BY <1>1 DEF QueryOK, Tasks, PCs
  <2>2. QED
    BY <1>1, <2>1, FinalQuery
<1>4. CASE GenerationSucceeds(q)
  BY <1>2, <1>4, FrameStep DEF GenerationSucceeds
<1>5. CASE GenerationRaises(q)
  BY <1>2, <1>3, <1>5, FrameStep DEF GenerationRaises
<1>6. QED
  BY <1>4, <1>5

\* A new forward goes to a peer none has gone to.
LEMMA StartForwardStep ==
    ASSUME Invariant, NEW q \in Queries, StartForward(q)
    PROVE  Invariant'
<1> DEFINE t == task[q]
           c == calls[q]
           u == [t EXCEPT !.pc = "connect"]
           forward == [node |-> t.target, state |-> "connecting"]
           d == Append(c, forward)
<1>1. QueryOK(t, c) /\ t.pc = "decided" /\ t.target # Self
  BY QueryHasInvariant DEF StartForward
<1>2. Become(q, u) /\ calls' = [calls EXCEPT ![q] = d] /\ registry' = registry
  BY DEF StartForward, Invariant, TypeOK
<1>3. t.target \in Nodes \ Excluded(t)
  BY <1>1 DEF QueryOK, PhaseInvariant, Excluded
<1> HIDE DEF t, c
<1>4. /\ u \in Tasks /\ u.pc = "connect" /\ u.target = t.target
      /\ u.excluded = t.excluded /\ u.direct = t.direct /\ u.recommended = t.recommended
      /\ u.score = t.score /\ u.ids = t.ids
  BY <1>1 DEF QueryOK, Tasks, PCs
<1> HIDE DEF u
<1>5. PhaseInvariant(u)
  BY <1>3, <1>4 DEF PhaseInvariant, UnroutedPCs, Excluded
<1>6. PoolInvariant(u)
  BY <1>1, <1>4 DEF QueryOK, PoolInvariant, Final, Evaluated, Excluded, RecommendationExcluded
<1>7. /\ c \in Seq(Calls) /\ Len(c) < MAX_FORWARD_ATTEMPTS
      /\ \A i \in DOMAIN c : c[i].node \in t.excluded /\ c[i].node # Self
      /\ \A i, j \in DOMAIN c : c[i].node = c[j].node => i = j
  BY <1>1 DEF QueryOK, ForwardInvariant, RoutingPCs, PCs
<1>8. forward \in Calls /\ forward.node = t.target
  BY <1>3 DEF Calls, CallStates
<1> HIDE DEF forward
<1>9. /\ d \in Seq(Calls) /\ Len(d) = Len(c) + 1 /\ d[Len(d)].node = t.target /\ d # <<>>
      /\ \A i \in DOMAIN d : i # Len(d) => i \in DOMAIN c /\ d[i] = c[i]
  BY <1>7, <1>8
<1> HIDE DEF d
<1>10. ForwardInvariant(u, d)
  BY <1>3, <1>4, <1>7, <1>9
     DEF ForwardInvariant, RoutingPCs, UnroutedPCs, PCs, Excluded, MAX_FORWARD_ATTEMPTS
<1>11. QueryOK(u, d)
  BY <1>4, <1>5, <1>6, <1>9, <1>10 DEF QueryOK
<1>12. registry' \in Registries /\ Consistent(registry')
  BY <1>2 DEF Invariant, TypeOK, RegistryConsistent
<1>13. QED
  BY <1>2, <1>11, <1>12, QueryStep DEF Become

\* A forward that moves on keeps its place and its peer.
LEMMA ForwardMoves ==
    ASSUME NEW t, NEW c, QueryOK(t, c), NEW i \in DOMAIN c, NEW state \in CallStates
    PROVE  QueryOK(t, [c EXCEPT ![i].state = state])
<1> DEFINE d == [c EXCEPT ![i].state = state]
<1>1. /\ d \in Seq(Calls) /\ Len(d) = Len(c) /\ DOMAIN d = DOMAIN c
      /\ \A j \in DOMAIN c : d[j].node = c[j].node
  <2> DEFINE moved == [c[i] EXCEPT !.state = state]
  <2>1. c \in Seq(Calls) /\ c[i] \in Calls
    BY DEF QueryOK
  <2>2. moved \in Calls /\ moved.node = c[i].node
    BY <2>1 DEF Calls
  <2>3. d = [c EXCEPT ![i] = moved]
    OBVIOUS
  <2> HIDE DEF moved, d
  <2>4. QED
    BY <2>1, <2>2, <2>3
<1>2. c = <<>> <=> d = <<>>
  BY <1>1 DEF QueryOK
<1>3. Len(c) \in Nat /\ (c # <<>> => Len(c) \in DOMAIN c)
  BY DEF QueryOK
<1> HIDE DEF d
<1>4. ForwardInvariant(t, d)
  BY <1>1, <1>2, <1>3 DEF QueryOK, ForwardInvariant
<1>5. QED
  BY <1>1, <1>4 DEF QueryOK, d

\* The forward a query waits for.
LEMMA CurrentForward ==
    ASSUME NEW t, NEW c, QueryOK(t, c), t.pc \in {"connect", "reply"}
    PROVE  /\ Len(c) \in DOMAIN c /\ c[Len(c)] \in Calls
           /\ t.target \in Nodes \ {Self}
<1>1. c \in Seq(Calls) /\ c # <<>>
  BY DEF QueryOK, ForwardInvariant
<1>2. Len(c) \in DOMAIN c
  BY <1>1
<1>3. QED
  BY <1>1, <1>2 DEF QueryOK, PhaseInvariant, Excluded

LEMMA SendQueryStep ==
    ASSUME Invariant, NEW q \in Queries, SendQuery(q)
    PROVE  Invariant'
<1> DEFINE t == task[q]
           c == calls[q]
           u == [t EXCEPT !.pc = "reply"]
           d == [c EXCEPT ![Len(c)].state = "sent"]
<1>1. QueryOK(t, c) /\ t.pc = "connect"
  BY QueryHasInvariant DEF SendQuery
<1>2. Become(q, u) /\ calls' = [calls EXCEPT ![q] = d] /\ registry' = registry
  BY DEF SendQuery, Current, Invariant, TypeOK
<1> HIDE DEF t, c
<1>3. QueryOK(t, d)
  BY <1>1, CurrentForward, ForwardMoves DEF CallStates
<1> HIDE DEF d
<1>4. /\ u \in Tasks /\ u.pc = "reply" /\ u.target = t.target
      /\ u.excluded = t.excluded /\ u.direct = t.direct /\ u.recommended = t.recommended
      /\ u.score = t.score /\ u.ids = t.ids
  BY <1>1 DEF QueryOK, Tasks, PCs
<1> HIDE DEF u
<1>5. PhaseInvariant(u) /\ PoolInvariant(u)
  BY <1>1, <1>4 DEF QueryOK, PhaseInvariant, PoolInvariant, UnroutedPCs, Final, Evaluated,
                    Excluded, RecommendationExcluded
<1>6. ForwardInvariant(u, d)
  BY <1>1, <1>3, <1>4 DEF QueryOK, ForwardInvariant, RoutingPCs, UnroutedPCs, PCs
<1>7. QueryOK(u, d)
  BY <1>3, <1>4, <1>5, <1>6 DEF QueryOK
<1>8. registry' \in Registries /\ Consistent(registry')
  BY <1>2 DEF Invariant, TypeOK, RegistryConsistent
<1>9. QED
  BY <1>2, <1>7, <1>8, QueryStep DEF Become

LEMMA ReplyArrivesStep ==
    ASSUME Invariant, NEW q \in Queries, ReplyArrives(q)
    PROVE  Invariant'
<1> DEFINE reply == calls[q][Current(q)].state
<1>1. QueryOK(task[q], calls[q]) /\ task[q].pc = "reply"
  BY QueryHasInvariant DEF ReplyArrives
<1>2. registry' \in Registries /\ Consistent(registry')
  <2>1. task[q].target \in Nodes \ {Self}
    BY <1>1, CurrentForward
  <2>2. QED
    BY <2>1, MarkAliveConsistent DEF ReplyArrives, Invariant, TypeOK, RegistryConsistent
<1>3. reply \in Results
  BY DEF ReplyArrives, Replies, Results
<1>4. Become(q, Returns(task[q], reply)) /\ UNCHANGED calls
  BY DEF ReplyArrives
<1> HIDE DEF reply
<1>5. QueryOK(Returns(task[q], reply), calls[q])
  BY <1>1, <1>3, ReturnsOK
<1>6. QED
  BY <1>2, <1>4, <1>5, RegistryStep

\* A failed forward: its peer is excluded before the router is called again.
LEMMA ForwardFailsStep ==
    ASSUME Invariant, NEW q \in Queries, ForwardFails(q)
    PROVE  Invariant'
<1> DEFINE t == task[q]
           c == calls[q]
           excluded == t.excluded \cup {t.target}
           failed == [t EXCEPT !.excluded = excluded]
           u == IF Len(c) = MAX_FORWARD_ATTEMPTS THEN Returns(failed, "no_suitable_node")
                ELSE BeginSearch(failed.excluded, t.mix, FALSE)
           d == IF t.pc = "connect" THEN [c EXCEPT ![Len(c)].state = "lost"] ELSE c
<1>1. QueryOK(t, c) /\ t.pc \in {"connect", "reply"}
  BY QueryHasInvariant DEF ForwardFails
<1>2. /\ Become(q, u) /\ calls' = [calls EXCEPT ![q] = d]
      /\ registry' = MarkUnreachable(registry, t.target)
  BY DEF ForwardFails, Current, Invariant, TypeOK
<1> HIDE DEF t, c
<1>3. t.target \in Nodes \ {Self}
  BY <1>1, CurrentForward
<1>4. registry' \in Registries /\ Consistent(registry')
  BY <1>2, <1>3, MarkUnreachableConsistent DEF Invariant, TypeOK, RegistryConsistent
<1>5. QueryOK(t, d)
  BY <1>1, CurrentForward, ForwardMoves DEF CallStates
<1>6. /\ excluded \in SUBSET Nodes /\ t.mix \in Mix
      /\ failed \in Tasks /\ failed.excluded = excluded
  BY <1>1, <1>3 DEF QueryOK, Tasks
<1>7. Len(d) = Len(c) /\ Len(c) \in Nat
  BY <1>1 DEF QueryOK
<1> HIDE DEF d
<1>8. /\ d \in Seq(Calls) /\ Len(d) <= MAX_FORWARD_ATTEMPTS
      /\ \A i \in DOMAIN d : d[i].node \in excluded /\ d[i].node # Self
      /\ \A i, j \in DOMAIN d : d[i].node = d[j].node => i = j
  BY <1>1, <1>5 DEF QueryOK, ForwardInvariant
<1> HIDE DEF failed
<1>9. CASE Len(c) = MAX_FORWARD_ATTEMPTS
  <2>1. /\ Returns(failed, "no_suitable_node") \in Tasks
        /\ Returns(failed, "no_suitable_node").pc = "done"
    BY <1>6 DEF Returns, Tasks, PCs, Results
  <2>2. QueryOK(u, d)
    BY <1>5, <1>9, <2>1, FinalQuery
  <2>3. QED
    BY <1>2, <1>4, <2>2, QueryStep DEF Become
<1>10. CASE Len(c) # MAX_FORWARD_ATTEMPTS
  <2>1. Len(d) < MAX_FORWARD_ATTEMPTS
    BY <1>7, <1>8, <1>10 DEF MAX_FORWARD_ATTEMPTS
  <2>2. QueryOK(BeginSearch(excluded, t.mix, FALSE), d)
    BY <1>6, <1>8, <2>1, BeginSearchOK
  <2>3. QueryOK(u, d)
    BY <1>6, <1>10, <2>2
  <2>4. QED
    BY <1>2, <1>4, <2>3, QueryStep DEF Become
<1>11. QED
  BY <1>9, <1>10

-----------------------------------------------------------------------------
(* The peers, the rest of the node, and time.                               *)

LEMMA PeerStep ==
    ASSUME Invariant, NEW q \in Queries, Peer(q)
    PROVE  Invariant'
<1>1. PICK i \in DOMAIN calls[q], state \in CallStates : SetCall(q, i, state)
  BY DEF Peer, PeerReceives, PeerAnswers, PeerLost, CallStates
<1> DEFINE d == [calls[q] EXCEPT ![i].state = state]
<1>2. calls' = [calls EXCEPT ![q] = d] /\ UNCHANGED <<registry, task>>
  BY <1>1 DEF SetCall, Invariant, TypeOK
<1>3. QueryOK(task[q], d)
  BY QueryHasInvariant, ForwardMoves
<1> HIDE DEF d
<1>4. task' = [task EXCEPT ![q] = task[q]]
  BY <1>2 DEF Invariant, TypeOK
<1>5. registry' \in Registries /\ Consistent(registry')
  BY <1>2 DEF Invariant, TypeOK, RegistryConsistent
<1>6. QED
  BY <1>2, <1>3, <1>4, <1>5, QueryStep

\* A step that leaves the queries alone.
LEMMA OtherStep ==
    ASSUME Invariant, UNCHANGED <<task, calls>>, registry' \in Registries, Consistent(registry')
    PROVE  Invariant'
BY DEF Invariant, TypeOK, RegistryConsistent, QueriesConsistent

LEMMA RefreshStep ==
    ASSUME Invariant, NEW n \in Talkers, Refresh(n)
    PROVE  Invariant'
<1>1. n \in Nodes \ {Self}
  BY InputAssumption
<1>2. registry' \in Registries /\ Consistent(registry')
  BY <1>1, UpsertConsistent DEF Refresh, Invariant, TypeOK, RegistryConsistent
<1>3. QED
  BY <1>2, OtherStep DEF Refresh

LEMMA AgeStep ==
    ASSUME Invariant, NEW n \in Aging, Age(n)
    PROVE  Invariant'
<1>1. n \in Nodes
  BY InputAssumption
<1>2. registry' \in Registries /\ Consistent(registry')
  BY <1>1, ExpireConsistent DEF Age, Invariant, TypeOK, RegistryConsistent
<1>3. QED
  BY <1>2, OtherStep DEF Age

LEMMA NextInvariant == Invariant /\ [Next]_vars => Invariant'
<1> SUFFICES ASSUME Invariant, [Next]_vars PROVE Invariant'
  OBVIOUS
<1>1. ASSUME NEW q \in Queries, Submit(q) \/ SubmitClassified(q) PROVE Invariant'
  BY <1>1, SubmitStep, SubmitClassifiedStep
<1>2. ASSUME NEW q \in Queries, Route(q) PROVE Invariant'
  BY <1>2, ClassifiedStep, ClassifierRaisesStep, LookupReturnsStep, LookupRaisesStep,
     ProfileServedStep, ProfileMissingStep, ProvidersVisitedStep, BeginDirectStep,
     PingSucceedsStep, PingFailsStep, DirectEvaluatedStep, ConsiderKnownStep,
     FetchRecommendedStep, FetchServedStep, FetchMissingStep, FetchRaisesStep,
     SourcesAskedStep, RecommendationsDoneStep, RecommendedEvaluatedStep
     DEF Route, PingReturns, RouteInTime
<1>3. ASSUME NEW q \in Queries, Execute(q) PROVE Invariant'
  BY <1>3, ExecuteLocallyStep, GenerationStep, StartForwardStep, SendQueryStep,
     ForwardFailsStep, ReplyArrivesStep
     DEF Execute, ExecuteInTime
<1>4. CASE \E n \in Talkers : Refresh(n)
  BY <1>4, RefreshStep
<1>5. CASE \E n \in Aging : Age(n)
  BY <1>5, AgeStep
<1>6. CASE AllAnswered \/ UNCHANGED vars
  BY <1>6, OtherStep DEF AllAnswered, vars, Invariant, TypeOK, RegistryConsistent
<1>7. QED
  BY <1>1, <1>2, <1>3, <1>4, <1>5, <1>6, RecommendationsReturnStep, PeerStep DEF Next

-----------------------------------------------------------------------------
(* The theorems.                                                            *)

\* The invariant the others follow from: types, a registry whose flags and
\* statuses agree, and queries whose pools, targets, exclusions and forwards
\* agree, whatever the tasks of the node and its peers do.
THEOREM InvariantHolds == Spec => []Invariant
BY InitInvariant, NextInvariant, PTL DEF Spec

\* Every variable keeps its type; a query is forwarded at most twice.
THEOREM TypesHold == Spec => []TypeOK
<1>1. Invariant => TypeOK
  BY DEF Invariant
<1>2. QED
  BY <1>1, InvariantHolds, PTL

\* However many tasks interleave over the shared registry, a peer it holds as
\* alive is never flagged unavailable nor has a failure on record, and a flag
\* that is down always has a failed contact behind it.
THEOREM RegistryStaysConsistent == Spec => []RegistryConsistent
<1>1. Invariant => RegistryConsistent
  BY DEF Invariant
<1>2. QED
  BY <1>1, InvariantHolds, PTL

\* Pools, targets, exclusions and forwards of every query agree.
THEOREM QueriesStayConsistent == Spec => []QueriesConsistent
<1>1. Invariant => QueriesConsistent
  BY DEF Invariant
<1>2. QED
  BY <1>1, InvariantHolds, PTL

\* A search never considers the node, a peer the client excluded or one a
\* forward of the query failed on, through either stage or the general retry.
THEOREM ExclusionsAreRespected == Spec => []SearchRespectsExclusions
<1>1. Invariant => SearchRespectsExclusions
  BY DEF Invariant, QueriesConsistent, PoolInvariant, SearchRespectsExclusions
<1>2. QED
  BY <1>1, InvariantHolds, PTL

\* A query is never forwarded to one peer twice, nor to the node itself, so
\* the executions a timeout leaves behind are at most one per peer.
THEOREM ForwardsAreDistinct == Spec => []ForwardsDistinct
<1>1. Invariant => ForwardsDistinct
  BY DEF Invariant, QueriesConsistent, ForwardInvariant, ForwardsDistinct
<1>2. QED
  BY <1>1, InvariantHolds, PTL
-----------------------------------------------------------------------------
(* The mix of a query.                                                      *)

LEMMA NewSearchMix ==
    ASSUME NEW excluded, NEW mix, NEW general
    PROVE  BeginSearch(excluded, mix, general).mix = mix
BY DEF BeginSearch, IdleTask

LEMMA RouteKeepsMix ==
    ASSUME Invariant, NEW q \in Queries, Route(q) \/ RecommendationsReturn(q),
           task[q].pc \notin UnroutedPCs
    PROVE  task'[q].mix = task[q].mix
<1>1. task[q] \in Tasks /\ task[q].pc # "classify"
  BY DEF Invariant, TypeOK, UnroutedPCs
<1>2. \A t : Become(q, t) => task'[q] = t
  BY DEF Become, Invariant, TypeOK
<1>3. ~Classified(q) /\ ~ClassifierRaises(q)
  BY <1>1 DEF Classified, ClassifierRaises
<1>4. CASE LookupReturns(q) \/ ProfileServed(q) \/ ProfileMissing(q) \/ ProvidersVisited(q)
  BY <1>1, <1>2, <1>4 DEF LookupReturns, ProfileServed, ProfileMissing, ProvidersVisited, Tasks
<1>5. CASE LookupRaises(q) \/ FetchRaises(q)
  BY <1>1, <1>2, <1>5 DEF LookupRaises, FetchRaises, Raises, Returns, Tasks
<1>6. CASE BeginDirect(q) \/ PingSucceeds(q) \/ PingFails(q)
  BY <1>1, <1>2, <1>6 DEF BeginDirect, PingSucceeds, PingFails, Tasks
<1>7. CASE DirectEvaluated(q) \/ SourcesAsked(q)
  BY <1>1, <1>2, <1>7 DEF DirectEvaluated, SourcesAsked, Select, AskOn, Tasks
<1>8. CASE RecommendationsReturn(q) \/ RecommendationsDone(q)
  BY <1>1, <1>2, <1>8 DEF RecommendationsReturn, RecommendationsDone, Tasks
<1>9. CASE FetchRecommended(q) \/ FetchMissing(q)
  BY <1>1, <1>2, <1>9 DEF FetchRecommended, FetchMissing, Tasks
<1>10. CASE ConsiderKnown(q) \/ FetchServed(q)
  BY <1>1, <1>2, <1>10 DEF ConsiderKnown, FetchServed, Recommended, Tasks
<1>11. CASE RecommendedEvaluated(q)
  <2>1. CASE \E pool : Select(q, task[q], pool)
    BY <1>1, <1>2, <2>1 DEF Select, Tasks
  <2>2. CASE NoCandidate(q, task[q])
    <3>1. Returns(task[q], "no_suitable_node").mix = task[q].mix
      BY <1>1 DEF Returns, Tasks
    <3>2. \/ Become(q, Returns(task[q], "no_suitable_node"))
          \/ Become(q, BeginSearch(task[q].excluded, task[q].mix, TRUE))
      BY <2>2 DEF NoCandidate
    <3>3. \/ task'[q] = Returns(task[q], "no_suitable_node")
          \/ task'[q] = BeginSearch(task[q].excluded, task[q].mix, TRUE)
      BY <1>2, <3>2
    <3>4. BeginSearch(task[q].excluded, task[q].mix, TRUE).mix = task[q].mix
      BY NewSearchMix
    <3>5. QED
      BY <3>1, <3>3, <3>4
  <2>3. QED
    BY <1>11, <2>1, <2>2 DEF RecommendedEvaluated
<1>12. QED
  BY <1>3, <1>4, <1>5, <1>6, <1>7, <1>8, <1>9, <1>10, <1>11 DEF Route, PingReturns, RouteInTime

LEMMA ExecuteKeepsMix ==
    ASSUME Invariant, NEW q \in Queries, Execute(q)
    PROVE  task'[q].mix = task[q].mix
<1>1. task[q] \in Tasks
  BY DEF Invariant, TypeOK
<1>2. \A t : Become(q, t) => task'[q] = t
  BY DEF Become, Invariant, TypeOK
<1>3. CASE ExecuteLocally(q) \/ StartForward(q) \/ SendQuery(q)
  BY <1>1, <1>2, <1>3 DEF ExecuteLocally, StartForward, SendQuery, Tasks
<1>4. CASE GenerationSucceeds(q) \/ GenerationRaises(q) \/ ReplyArrives(q)
  BY <1>1, <1>2, <1>4 DEF GenerationSucceeds, GenerationRaises, ReplyArrives, Returns, Tasks
<1>5. CASE ForwardFails(q)
  <2>1. PICK failed : failed = [task[q] EXCEPT !.excluded = @ \cup {task[q].target}]
    OBVIOUS
  <2>2. Returns(failed, "no_suitable_node").mix = task[q].mix
    BY <1>1, <2>1 DEF Returns, Tasks
  <2>3. \/ Become(q, Returns(failed, "no_suitable_node"))
        \/ Become(q, BeginSearch(failed.excluded, task[q].mix, FALSE))
    BY <1>5, <2>1 DEF ForwardFails
  <2>4. \/ task'[q] = Returns(failed, "no_suitable_node")
        \/ task'[q] = BeginSearch(failed.excluded, task[q].mix, FALSE)
    BY <1>2, <2>3
  <2>5. BeginSearch(failed.excluded, task[q].mix, FALSE).mix = task[q].mix
    BY NewSearchMix
  <2>6. QED
    BY <2>2, <2>4, <2>5
<1>6. QED
  BY <1>3, <1>4, <1>5 DEF Execute, ExecuteInTime

\* The classifier decides the mix of a query once (routing_service.py:126): no
\* forward, retry or general search replaces it.
THEOREM MixIsResolvedOnce == Spec => ClassifiedOnce
<1>1. ASSUME Invariant, [Next]_vars, NEW q \in Queries, task[q].pc \notin {"idle", "classify"}
      PROVE  task'[q].mix = task[q].mix
  <2>1. ASSUME NEW p \in Queries, NEW t, Become(p, t), p # q
        PROVE  task'[q].mix = task[q].mix
    BY <1>1, <2>1 DEF Become, Invariant, TypeOK
  <2>2. ASSUME NEW p \in Queries, \/ Submit(p) \/ SubmitClassified(p)
        PROVE  task'[q].mix = task[q].mix
    <3>1. p # q
      BY <1>1, <2>2 DEF Submit, SubmitClassified
    <3>2. \E t : Become(p, t)
      BY <2>2 DEF Submit, SubmitClassified
    <3>3. QED
      BY <2>1, <3>1, <3>2
  <2>3. ASSUME NEW p \in Queries, Route(p) \/ RecommendationsReturn(p)
        PROVE  task'[q].mix = task[q].mix
    <3>1. CASE p = q
      BY <1>1, <2>3, <3>1, RouteKeepsMix DEF UnroutedPCs
    <3>2. CASE p # q
      <4>1. \E t : Become(p, t)
        BY <2>3 DEF Route, PingReturns, RouteInTime, RecommendationsReturn, Classified, ClassifierRaises, LookupReturns,
           LookupRaises, ProfileServed, ProfileMissing, ProvidersVisited, BeginDirect,
           PingSucceeds, PingFails, DirectEvaluated, Select, ConsiderKnown, FetchRecommended,
           FetchServed, FetchMissing, FetchRaises, SourcesAsked, RecommendationsDone,
           RecommendedEvaluated, NoCandidate
      <4>2. QED
        BY <2>1, <3>2, <4>1
    <3>3. QED
      BY <3>1, <3>2
  <2>4. ASSUME NEW p \in Queries, Execute(p)
        PROVE  task'[q].mix = task[q].mix
    <3>1. CASE p = q
      BY <1>1, <2>4, <3>1, ExecuteKeepsMix
    <3>2. CASE p # q
      <4>1. \E t : Become(p, t)
        BY <2>4 DEF Execute, ExecuteInTime, ExecuteLocally, GenerationSucceeds, GenerationRaises, StartForward,
           SendQuery, ForwardFails, ReplyArrives
      <4>2. QED
        BY <2>1, <3>2, <4>1
    <3>3. QED
      BY <3>1, <3>2
  <2>5. CASE \/ \E p \in Queries : Peer(p)
             \/ \E n \in Talkers : Refresh(n)
             \/ \E n \in Aging : Age(n)
             \/ AllAnswered \/ UNCHANGED vars
    BY <2>5 DEF Peer, PeerReceives, PeerAnswers, PeerLost, SetCall, Refresh, Age, AllAnswered, vars
  <2>6. QED
    BY <1>1, <2>2, <2>3, <2>4, <2>5 DEF Next
<1>2. Invariant /\ [Next]_vars =>
        [\A q \in Queries :
            task[q].pc \notin {"idle", "classify"} => task'[q].mix = task[q].mix]_vars
  BY <1>1
<1>3. QED
  BY <1>2, InvariantHolds, PTL DEF Spec, ClassifiedOnce

-----------------------------------------------------------------------------
(* What is decided and returned: the scores are of this search's contacts,  *)
(* the best candidate is selected, a refusal is justified, an answer is the *)
(* one that was waited for.                                                 *)


\* The search has not left its second stage.
LaterPCs == {"ask", "fetch", "recommended"}
SearchingPCs == LaterPCs \cup {"direct"}

\* Every score but the node's own is of a ping that succeeded.
ScoresOK(t) ==
    \A n \in Evaluated(t) \ {Self} :
        \E rtt \in Rtts : t.score[n] = ScoreOf(SearchMix(t), Quality[n], TRUE, 0, rtt)

\* The general retry follows a search in which the node had no score; the node
\* is evaluated if it has one; the second stage begins below the threshold.
StagesOK(t) ==
    /\ t.general => ~HasAnyRequested(Quality[Self], t.mix)
    /\ t.pc \in SearchingPCs /\ HasAnyRequested(Quality[Self], SearchMix(t)) => Self \in Evaluated(t)
    /\ t.pc \in LaterPCs =>
        \A n \in Evaluated(t) \ t.recommended : t.score[n] < Threshold(SearchMix(t))

DecisionOK(t) ==
    t.pc = "decided" =>
        t.target \in Evaluated(t) /\ \A n \in Evaluated(t) : t.score[n] <= t.score[t.target]

AnswerOK(t, c) ==
    t.pc = "done" /\ t.status \in {"ok", "generation_error"} /\ t.target # Self =>
        c[Len(c)].node = t.target /\ c[Len(c)].state = t.status

RefusalOK(t, c) ==
    t.pc = "done" /\ t.status = "no_suitable_node" /\ Len(c) < MAX_FORWARD_ATTEMPTS =>
        /\ Evaluated(t) = {}
        /\ General \in CapsOf(SearchMix(t))
        /\ ~HasAnyRequested(Quality[Self], t.mix)
        /\ Quality[Self][General] = 0

OutcomeOK(t, c) ==
    ScoresOK(t) /\ StagesOK(t) /\ DecisionOK(t) /\ AnswerOK(t, c) /\ RefusalOK(t, c)

\* The inductive invariant, on top of Invariant.
Outcomes == \A q \in Queries : OutcomeOK(task[q], calls[q])

-----------------------------------------------------------------------------
(* Lemmas on frames.                                                        *)

LEMMA OutcomeStep ==
    ASSUME Invariant, Outcomes, NEW q \in Queries, NEW t, NEW c, OutcomeOK(t, c),
           Become(q, t), calls' = [calls EXCEPT ![q] = c]
    PROVE  Outcomes'
<1> SUFFICES ASSUME NEW p \in Queries PROVE OutcomeOK(task'[p], calls'[p])
  BY DEF Outcomes
<1>1. CASE p = q
  BY <1>1 DEF Become, Invariant, TypeOK
<1>2. CASE p # q
  <2>1. task'[p] = task[p] /\ calls'[p] = calls[p]
    BY <1>2 DEF Become, Invariant, TypeOK
  <2>2. QED
    BY <2>1 DEF Outcomes
<1>3. QED
  BY <1>1, <1>2

\* The same when the forwards stay.
LEMMA OutcomeFrameStep ==
    ASSUME Invariant, Outcomes, NEW q \in Queries, NEW t, OutcomeOK(t, calls[q]),
           Become(q, t), UNCHANGED calls
    PROVE  Outcomes'
<1>1. calls' = [calls EXCEPT ![q] = calls[q]]
  BY DEF Invariant, TypeOK
<1>2. QED
  BY <1>1, OutcomeStep

\* Frame u is frame t some way further on in the same search, or beyond it.
Onward(t, u) ==
    /\ u.mix = t.mix /\ u.general = t.general /\ u.score = t.score
    /\ t.recommended \subseteq u.recommended
    /\ u.pc \notin {"decided", "done"}
    /\ u.pc \in SearchingPCs => t.pc \in SearchingPCs
    /\ u.pc \in LaterPCs => t.pc \in LaterPCs

LEMMA OnwardOK ==
    ASSUME NEW t, NEW u, NEW c, NEW d, OutcomeOK(t, c), Onward(t, u)
    PROVE  OutcomeOK(u, d)
<1>1. SearchMix(u) = SearchMix(t) /\ Evaluated(u) = Evaluated(t)
  BY DEF Onward, SearchMix, Evaluated
<1>2. ScoresOK(u)
  BY <1>1 DEF OutcomeOK, ScoresOK, Onward
<1>3. StagesOK(u)
  BY <1>1 DEF OutcomeOK, StagesOK, Onward
<1>4. QED
  BY <1>2, <1>3 DEF OutcomeOK, DecisionOK, AnswerOK, RefusalOK, Onward

\* A search that has not evaluated anybody.
LEMMA UnevaluatedOK ==
    ASSUME NEW u, NEW d, u.score = NoScores, u.pc \notin SearchingPCs \cup {"decided", "done"},
           u.general => ~HasAnyRequested(Quality[Self], u.mix)
    PROVE  OutcomeOK(u, d)
<1>1. Evaluated(u) = {}
  BY DEF Evaluated, NoScores
<1>2. QED
  BY <1>1 DEF OutcomeOK, ScoresOK, StagesOK, LaterPCs, SearchingPCs, DecisionOK, AnswerOK, RefusalOK

LEMMA BeginSearchFields ==
    ASSUME NEW excluded, NEW mix, NEW general
    PROVE  /\ BeginSearch(excluded, mix, general).score = NoScores
           /\ BeginSearch(excluded, mix, general).pc = "lookup"
           /\ BeginSearch(excluded, mix, general).mix = mix
           /\ BeginSearch(excluded, mix, general).general = general
BY DEF BeginSearch, IdleTask

LEMMA BeginSearchOutcome ==
    ASSUME NEW excluded, NEW mix, NEW general, NEW d,
           general => ~HasAnyRequested(Quality[Self], mix)
    PROVE  OutcomeOK(BeginSearch(excluded, mix, general), d)
<1> DEFINE u == BeginSearch(excluded, mix, general)
<1>1. u.score = NoScores /\ u.pc = "lookup" /\ u.mix = mix /\ u.general = general
  BY BeginSearchFields
<1> HIDE DEF u
<1>2. OutcomeOK(u, d)
  BY <1>1, UnevaluatedOK DEF SearchingPCs, LaterPCs
<1>3. QED
  BY <1>2 DEF u

\* answer_query returns: what it returns for which node is left to show.
LEMMA ReturnsFields ==
    ASSUME NEW t \in Tasks, NEW status
    PROVE  LET u == Returns(t, status) IN
           /\ u.pc = "done" /\ u.status = status /\ u.target = t.target /\ u.mix = t.mix
           /\ u.general = t.general /\ u.score = t.score /\ u.recommended = t.recommended
BY DEF Returns, Tasks

LEMMA ReturnsOutcome ==
    ASSUME NEW t \in Tasks, NEW status, NEW c, OutcomeOK(t, c), NEW d,
           AnswerOK(Returns(t, status), d), RefusalOK(Returns(t, status), d)
    PROVE  OutcomeOK(Returns(t, status), d)
<1> DEFINE u == Returns(t, status)
<1>1. /\ u.pc = "done" /\ u.mix = t.mix /\ u.general = t.general /\ u.score = t.score
  BY ReturnsFields
<1> HIDE DEF u
<1>2. SearchMix(u) = SearchMix(t) /\ Evaluated(u) = Evaluated(t)
  BY <1>1 DEF SearchMix, Evaluated
<1>3. ScoresOK(u) /\ StagesOK(u) /\ DecisionOK(u)
  BY <1>1, <1>2 DEF OutcomeOK, ScoresOK, StagesOK, SearchingPCs, LaterPCs, DecisionOK
<1>4. AnswerOK(u, d) /\ RefusalOK(u, d)
  BY DEF u
<1>5. QED
  BY <1>3, <1>4 DEF OutcomeOK, u

LEMMA RaisesOutcome ==
    ASSUME NEW q \in Queries, NEW t \in Tasks, OutcomeOK(t, calls[q])
    PROVE  OutcomeOK(Raises(q, t), calls[q])
<1>1. OutcomeOK(Returns(t, "routing_error"), calls[q])
  <2>1. Returns(t, "routing_error").status = "routing_error"
    BY ReturnsFields
  <2>2. /\ AnswerOK(Returns(t, "routing_error"), calls[q])
        /\ RefusalOK(Returns(t, "routing_error"), calls[q])
    BY <2>1 DEF AnswerOK, RefusalOK
  <2>3. QED
    BY <2>2, ReturnsOutcome
<1>2. OutcomeOK([t EXCEPT !.pc = "escaped"], calls[q])
  <2>1. Onward(t, [t EXCEPT !.pc = "escaped"])
    BY DEF Onward, Tasks, SearchingPCs, LaterPCs
  <2>2. QED
    BY <2>1, OnwardOK
<1>3. QED
  BY <1>1, <1>2 DEF Raises

-----------------------------------------------------------------------------
(* The steps that only move a query on.                                     *)

LEMMA InitOutcomes == Init => Outcomes
<1> SUFFICES ASSUME Init, NEW q \in Queries PROVE OutcomeOK(task[q], calls[q])
  BY DEF Outcomes
<1>1. task[q].score = NoScores /\ task[q].pc = "idle" /\ task[q].general = FALSE
  BY DEF Init, IdleTask
<1>2. QED
  BY <1>1, UnevaluatedOK DEF SearchingPCs, LaterPCs

\* The frame a search loop goes on with.
LEMMA AskOnOnward ==
    ASSUME NEW t \in Tasks, t.pc = "ask", NEW caps
    PROVE  Onward(t, AskOn(t, caps))
BY DEF AskOn, Onward, Tasks, SearchingPCs, LaterPCs

LEMMA RecommendedOnward ==
    ASSUME NEW t, NEW u \in Tasks, Onward(t, u), u.pc = "ask", NEW n, NEW reg
    PROVE  Onward(t, Recommended(u, n, reg))
<1> DEFINE v == [u EXCEPT !.recommended = u.recommended \cup {n}]
<1>1. Recommended(u, n, reg) \in {u, v}
  BY DEF Recommended
<1>2. Onward(t, v)
  BY DEF Onward, Tasks
<1>3. QED
  BY <1>1, <1>2

\* Arrivals, lookups, profiles, and what becomes of recommended ids.
MovesOn(q) ==
    \/ Submit(q) \/ LookupReturns(q) \/ ProfileServed(q) \/ ProfileMissing(q)
    \/ ProvidersVisited(q) \/ PingFails(q)
    \/ RecommendationsReturn(q) \/ ConsiderKnown(q) \/ FetchRecommended(q)
    \/ FetchServed(q) \/ FetchMissing(q) \/ SourcesAsked(q) \/ RecommendationsDone(q)
    \/ ExecuteLocally(q) \/ StartForward(q) \/ SendQuery(q)

LEMMA MovesOnFrame ==
    ASSUME Invariant, NEW q \in Queries, MovesOn(q)
    PROVE  \E u : Become(q, u) /\ Onward(task[q], u)
<1> DEFINE t == task[q]
<1>1. t \in Tasks
  BY DEF Invariant, TypeOK
<1>2. CASE Submit(q)
  <2>1. t.pc = "idle"
    BY <1>2 DEF Submit
  <2>2. PICK excluded \in ClientExclusions :
            Become(q, [t EXCEPT !.pc = "classify", !.excluded = excluded])
    BY <1>2 DEF Submit
  <2>3. Onward(t, [t EXCEPT !.pc = "classify", !.excluded = excluded])
    BY <1>1 DEF Onward, Tasks, SearchingPCs, LaterPCs
  <2>4. QED
    BY <2>2, <2>3
<1>3. CASE LookupReturns(q)
  <2>1. PICK caps, todo : Become(q, [t EXCEPT !.pc = "profiles", !.caps = caps, !.todo = todo])
    BY <1>3 DEF LookupReturns
  <2>2. Onward(t, [t EXCEPT !.pc = "profiles", !.caps = caps, !.todo = todo])
    BY <1>1 DEF Onward, Tasks, SearchingPCs, LaterPCs
  <2>3. QED
    BY <2>1, <2>2
<1>4. CASE ProfileServed(q) \/ ProfileMissing(q) \/ PingFails(q)
  <2>1. PICK todo : Become(q, [t EXCEPT !.todo = todo])
    BY <1>4 DEF ProfileServed, ProfileMissing, PingFails
  <2>2. t.pc \in {"profiles", "direct", "recommended"}
    BY <1>4 DEF ProfileServed, ProfileMissing, PingFails
  <2>3. Onward(t, [t EXCEPT !.todo = todo])
    BY <1>1, <2>2 DEF Onward, Tasks
  <2>4. QED
    BY <2>1, <2>3
<1>5. CASE ProvidersVisited(q)
  <2>1. Onward(t, [t EXCEPT !.pc = "lookup"])
    BY <1>1 DEF Onward, Tasks, SearchingPCs, LaterPCs
  <2>2. QED
    BY <1>5, <2>1 DEF ProvidersVisited
<1>6. CASE RecommendationsReturn(q)
  <2>1. PICK todo, ids : Become(q, [t EXCEPT !.todo = todo, !.ids = ids])
    BY <1>6 DEF RecommendationsReturn
  <2>2. t.pc = "ask"
    BY <1>6 DEF RecommendationsReturn
  <2>3. Onward(t, [t EXCEPT !.todo = todo, !.ids = ids])
    BY <1>1, <2>2 DEF Onward, Tasks
  <2>4. QED
    BY <2>1, <2>3
<1>7. CASE ConsiderKnown(q)
  <2>1. PICK n \in t.ids :
            Become(q, IF n \in RecommendationExcluded(t) THEN [t EXCEPT !.ids = t.ids \ {n}]
                      ELSE Recommended([t EXCEPT !.ids = t.ids \ {n}], n, registry))
    BY <1>7 DEF ConsiderKnown
  <2> DEFINE rest == [t EXCEPT !.ids = t.ids \ {n}]
  <2>2. t.pc = "ask"
    BY <1>7 DEF ConsiderKnown
  <2>3. rest \in Tasks /\ rest.pc = "ask" /\ Onward(t, rest)
    BY <1>1, <2>2 DEF Onward, Tasks
  <2> HIDE DEF rest
  <2>4. Onward(t, Recommended(rest, n, registry))
    BY <2>3, RecommendedOnward
  <2>5. QED
    BY <2>1, <2>3, <2>4 DEF rest
<1>8. CASE FetchRecommended(q)
  <2>1. PICK n, ids : Become(q, [t EXCEPT !.pc = "fetch", !.ids = ids, !.target = n])
    BY <1>8 DEF FetchRecommended
  <2>2. t.pc = "ask"
    BY <1>8 DEF FetchRecommended
  <2>3. Onward(t, [t EXCEPT !.pc = "fetch", !.ids = ids, !.target = n])
    BY <1>1, <2>2 DEF Onward, Tasks, SearchingPCs, LaterPCs
  <2>4. QED
    BY <2>1, <2>3
<1>9. CASE FetchServed(q) \/ FetchMissing(q)
  <2> DEFINE rest == [t EXCEPT !.pc = "ask", !.target = NoNode]
  <2>1. t.pc = "fetch"
    BY <1>9 DEF FetchServed, FetchMissing
  <2>2. rest \in Tasks /\ rest.pc = "ask" /\ Onward(t, rest)
    BY <1>1, <2>1 DEF Onward, Tasks, PCs, SearchingPCs, LaterPCs
  <2>3. Become(q, rest) \/ Become(q, Recommended(rest, t.target, registry'))
    BY <1>9 DEF FetchServed, FetchMissing
  <2> HIDE DEF rest
  <2>4. Onward(t, Recommended(rest, t.target, registry'))
    BY <2>2, RecommendedOnward
  <2>5. QED
    BY <2>2, <2>3, <2>4
<1>10. CASE SourcesAsked(q)
  <2>1. PICK caps : Become(q, AskOn(t, caps))
    BY <1>10 DEF SourcesAsked
  <2>2. Onward(t, AskOn(t, caps))
    BY <1>1, <1>10, AskOnOnward DEF SourcesAsked
  <2>3. QED
    BY <2>1, <2>2
<1>11. CASE RecommendationsDone(q)
  <2>1. t.pc = "ask"
    BY <1>11 DEF RecommendationsDone
  <2>2. Onward(t, [t EXCEPT !.pc = "recommended", !.todo = t.recommended])
    BY <1>1, <2>1 DEF Onward, Tasks, SearchingPCs, LaterPCs
  <2>3. QED
    BY <1>11, <2>2 DEF RecommendationsDone
<1>12. CASE ExecuteLocally(q) \/ StartForward(q) \/ SendQuery(q)
  <2>1. PICK pc \in {"generate", "connect", "reply"} : Become(q, [t EXCEPT !.pc = pc])
    BY <1>12 DEF ExecuteLocally, StartForward, SendQuery
  <2>2. Onward(t, [t EXCEPT !.pc = pc])
    BY <1>1 DEF Onward, Tasks, SearchingPCs, LaterPCs
  <2>3. QED
    BY <2>1, <2>2
<1>13. QED
  BY <1>2, <1>3, <1>4, <1>5, <1>6, <1>7, <1>8, <1>9, <1>10, <1>11, <1>12 DEF MovesOn

LEMMA MovesOnStep ==
    ASSUME Invariant, Outcomes, NEW q \in Queries, MovesOn(q)
    PROVE  Outcomes'
<1> PICK u : Become(q, u) /\ Onward(task[q], u)
  BY MovesOnFrame
<1>1. PICK c : calls' = [calls EXCEPT ![q] = c]
  <2>1. calls = [calls EXCEPT ![q] = calls[q]]
    BY DEF Invariant, TypeOK
  <2>2. CASE StartForward(q)
    BY <2>2 DEF StartForward
  <2>3. CASE SendQuery(q)
    BY <2>3 DEF SendQuery
  <2>4. CASE UNCHANGED calls
    BY <2>1, <2>4
  <2>5. QED
    BY <2>2, <2>3, <2>4
       DEF MovesOn, Submit, LookupReturns, ProfileServed, ProfileMissing, ProvidersVisited,
           PingFails, RecommendationsReturn, ConsiderKnown, FetchRecommended, FetchServed,
           FetchMissing, SourcesAsked, RecommendationsDone, ExecuteLocally
<1>2. OutcomeOK(task[q], calls[q])
  BY DEF Outcomes
<1>3. OutcomeOK(u, c)
  BY <1>2, OnwardOK
<1>4. QED
  BY <1>1, <1>3, OutcomeStep

-----------------------------------------------------------------------------
(* Searches that begin, and calls that raise.                               *)

LEMMA SearchBeginsStep ==
    ASSUME Invariant, Outcomes, NEW q \in Queries, SubmitClassified(q) \/ Classified(q)
    PROVE  Outcomes'
<1>1. PICK excluded, mix : Become(q, BeginSearch(excluded, mix, FALSE)) /\ UNCHANGED calls
  BY DEF SubmitClassified, Classified
<1>2. OutcomeOK(BeginSearch(excluded, mix, FALSE), calls[q])
  BY BeginSearchOutcome
<1>3. QED
  BY <1>1, <1>2, OutcomeFrameStep

LEMMA RaisesStep ==
    ASSUME Invariant, Outcomes, NEW q \in Queries,
           ClassifierRaises(q) \/ LookupRaises(q) \/ FetchRaises(q)
    PROVE  Outcomes'
<1> DEFINE t == task[q]
           u == [t EXCEPT !.target = NoNode]
<1>1. t \in Tasks /\ OutcomeOK(t, calls[q]) /\ UNCHANGED calls
  BY DEF Outcomes, Invariant, TypeOK, ClassifierRaises, LookupRaises, FetchRaises
<1>2. CASE ClassifierRaises(q)
  <2>1. Returns(t, "routing_error").status = "routing_error"
    BY <1>1, ReturnsFields
  <2>2. /\ AnswerOK(Returns(t, "routing_error"), calls[q])
        /\ RefusalOK(Returns(t, "routing_error"), calls[q])
    BY <2>1 DEF AnswerOK, RefusalOK
  <2>3. OutcomeOK(Returns(t, "routing_error"), calls[q])
    BY <1>1, <2>2, ReturnsOutcome
  <2>4. QED
    BY <1>1, <1>2, <2>3, OutcomeFrameStep DEF ClassifierRaises
<1>3. CASE LookupRaises(q)
  BY <1>1, <1>3, RaisesOutcome, OutcomeFrameStep DEF LookupRaises
<1>4. CASE FetchRaises(q)
  <2>1. t.pc = "fetch" /\ Become(q, Raises(q, u))
    BY <1>4 DEF FetchRaises
  <2>2. u \in Tasks /\ Onward(t, u)
    BY <1>1, <2>1 DEF Onward, Tasks
  <2> HIDE DEF t, u
  <2>3. OutcomeOK(u, calls[q])
    BY <1>1, <2>2, OnwardOK
  <2>4. QED
    BY <1>1, <2>1, <2>2, <2>3, RaisesOutcome, OutcomeFrameStep
<1>5. QED
  BY <1>2, <1>3, <1>4

-----------------------------------------------------------------------------
(* The two stages.                                                          *)

LEMMA BeginDirectOutcome ==
    ASSUME Invariant, Outcomes, NEW q \in Queries, BeginDirect(q)
    PROVE  Outcomes'
<1> DEFINE t == task[q]
           candidates == {n \in Nodes : Candidate(t, n)}
           score == IF HasAnyRequested(Quality[Self], SearchMix(t))
                    THEN [NoScores EXCEPT ![Self] = LocalScore(t)] ELSE NoScores
           u == [t EXCEPT !.pc = "direct", !.direct = candidates, !.todo = candidates,
                          !.score = score]
<1>1. t \in Tasks /\ OutcomeOK(t, calls[q])
  BY DEF Outcomes, Invariant, TypeOK
<1>2. Become(q, u) /\ UNCHANGED calls
  BY DEF BeginDirect
<1> HIDE DEF t, candidates
<1>3. LocalScore(t) \in Nat
  BY <1>1, ScoreIsNat, SelfAssumption DEF LocalScore
<1>4. /\ \A n \in Nodes \ {Self} : score[n] = Unscored
      /\ HasAnyRequested(Quality[Self], SearchMix(t)) => score[Self] # Unscored
  BY <1>3, SelfAssumption DEF NoScores, Unscored
<1> HIDE DEF score
<1>5. /\ u.pc = "direct" /\ u.mix = t.mix /\ u.general = t.general /\ u.score = score
  BY <1>1 DEF Tasks
<1> HIDE DEF u
<1>6. SearchMix(u) = SearchMix(t)
  BY <1>5 DEF SearchMix
<1>7. ScoresOK(u)
  BY <1>4, <1>5 DEF ScoresOK, Evaluated
<1>8. StagesOK(u)
  BY <1>1, <1>4, <1>5, <1>6, SelfAssumption
     DEF OutcomeOK, StagesOK, Evaluated, SearchingPCs, LaterPCs
<1>9. OutcomeOK(u, calls[q])
  BY <1>5, <1>7, <1>8 DEF OutcomeOK, DecisionOK, AnswerOK, RefusalOK
<1>10. QED
  BY <1>2, <1>9, OutcomeFrameStep

\* A ping that succeeded leaves a fresh status without failures, whatever the
\* registry held before.
LEMMA PingedScore ==
    ASSUME NEW t, NEW n \in Nodes, NEW rtt \in Rtts, NEW reg \in Registries
    PROVE  RemoteScore(t, n, MarkAlive(reg, n, rtt))
             = ScoreOf(SearchMix(t), Quality[n], TRUE, 0, rtt)
<1> DEFINE alive == MarkAlive(reg, n, rtt)
<1>1. alive.status[n] = [known |-> TRUE, alive |-> TRUE, rtt |-> rtt, checked |-> "fresh",
                         failures |-> 0]
  BY DEF MarkAlive, Registries
<1>2. rtt # NoRtt
  BY InputAssumption DEF NoRtt
<1> HIDE DEF alive
<1>3. IsPeerFreshLive(alive, n) = TRUE
  BY <1>1 DEF IsPeerFreshLive
<1>4. RemoteScore(t, n, alive) = ScoreOf(SearchMix(t), Quality[n], TRUE, 0, rtt)
  BY <1>1, <1>2, <1>3 DEF RemoteScore
<1>5. QED
  BY <1>4 DEF alive

LEMMA PingSucceedsOutcome ==
    ASSUME Invariant, Outcomes, NEW q \in Queries, PingSucceeds(q)
    PROVE  Outcomes'
<1> DEFINE t == task[q]
<1> PICK n \in t.todo, rtt \in Rtts :
        /\ registry' = MarkAlive(registry, n, rtt)
        /\ Become(q, [t EXCEPT !.todo = t.todo \ {n}, !.score[n] = RemoteScore(t, n, registry')])
  BY DEF PingSucceeds
<1> DEFINE score == [t.score EXCEPT ![n] = RemoteScore(t, n, registry')]
           u == [t EXCEPT !.todo = t.todo \ {n}, !.score = score]
<1>1. QueryOK(t, calls[q]) /\ OutcomeOK(t, calls[q]) /\ t.pc \in {"direct", "recommended"}
  BY QueryHasInvariant DEF Outcomes, PingSucceeds
<1>2. /\ n \in Nodes \ {Self}
      /\ t.pc = "recommended" => n \in t.recommended
  BY <1>1 DEF QueryOK, PhaseInvariant, PoolInvariant, Excluded, Final, Tasks
<1>3. RemoteScore(t, n, registry') = ScoreOf(SearchMix(t), Quality[n], TRUE, 0, rtt)
  BY <1>2, PingedScore DEF Invariant, TypeOK
<1>4. RemoteScore(t, n, registry') \in Nat
  <2>1. t \in Tasks /\ n \in Nodes /\ rtt \in Nat
    BY <1>1, <1>2, InputAssumption DEF QueryOK
  <2> HIDE DEF t
  <2>2. ScoreOf(SearchMix(t), Quality[n], TRUE, 0, rtt) \in Nat
    BY <2>1, ScoreIsNat
  <2>3. QED
    BY <1>3, <2>2
<1>5. Become(q, u) /\ UNCHANGED calls
  BY DEF PingSucceeds
<1> HIDE DEF t
<1>6. /\ score[n] = RemoteScore(t, n, registry')
      /\ \A m \in Nodes \ {n} : score[m] = t.score[m]
  BY <1>1, <1>2 DEF QueryOK, Tasks
<1> HIDE DEF score
<1>7. /\ u.pc = t.pc /\ u.mix = t.mix /\ u.general = t.general /\ u.score = score
      /\ u.recommended = t.recommended
  BY <1>1 DEF QueryOK, Tasks
<1> HIDE DEF u
<1>8. SearchMix(u) = SearchMix(t) /\ Evaluated(u) = Evaluated(t) \cup {n}
  BY <1>2, <1>4, <1>6, <1>7 DEF SearchMix, Evaluated, Unscored
<1>9. ScoresOK(u)
  <2> SUFFICES ASSUME NEW m \in Evaluated(u) \ {Self}
               PROVE  \E r \in Rtts : u.score[m] = ScoreOf(SearchMix(u), Quality[m], TRUE, 0, r)
    BY DEF ScoresOK
  <2>1. CASE m = n
    BY <1>3, <1>6, <1>7, <1>8, <2>1
  <2>2. CASE m # n
    <3>1. m \in Evaluated(t) \ {Self} /\ u.score[m] = t.score[m]
      BY <1>6, <1>7, <1>8, <2>2 DEF Evaluated
    <3>2. QED
      BY <1>1, <1>8, <3>1 DEF OutcomeOK, ScoresOK
  <2>3. QED
    BY <2>1, <2>2
<1>10. StagesOK(u)
  <2>1. \A m \in Evaluated(u) \ u.recommended :
            u.pc \in LaterPCs => m \in Evaluated(t) \ t.recommended /\ u.score[m] = t.score[m]
    BY <1>1, <1>2, <1>6, <1>7, <1>8 DEF LaterPCs, Evaluated
  <2>2. QED
    BY <1>1, <1>7, <1>8, <2>1 DEF OutcomeOK, StagesOK
<1>11. OutcomeOK(u, calls[q])
  BY <1>1, <1>7, <1>9, <1>10 DEF OutcomeOK, DecisionOK, AnswerOK, RefusalOK
<1>12. QED
  BY <1>5, <1>11, OutcomeFrameStep

\* The threshold and the scores of evaluated nodes are integers.
LEMMA ScoresAreIntegers ==
    ASSUME NEW t \in Tasks
    PROVE  /\ Threshold(SearchMix(t)) \in Int
           /\ \A n \in Nodes : t.score[n] \in Int
<1>1. TotalDemand(SearchMix(t)) \in Nat
  BY SearchMixType, TotalDemandPositive
<1>2. QED
  BY <1>1 DEF Threshold, Tasks, Unscored

\* A decision for the best of a pool that no node outside it can beat.
LEMMA SelectOutcome ==
    ASSUME Invariant, Outcomes, NEW q \in Queries, NEW pool \in SUBSET Evaluated(task[q]),
           Select(q, task[q], pool), UNCHANGED calls,
           \A m \in Evaluated(task[q]) \ pool :
               \E n \in pool : task[q].score[m] <= task[q].score[n]
    PROVE  Outcomes'
<1> DEFINE t == task[q]
<1> PICK n \in Best(t, pool) : Become(q, [t EXCEPT !.pc = "decided", !.target = n])
  BY DEF Select
<1> DEFINE u == [t EXCEPT !.pc = "decided", !.target = n]
<1>1. t \in Tasks /\ OutcomeOK(t, calls[q])
  BY DEF Outcomes, Invariant, TypeOK
<1>2. \A m \in Nodes : t.score[m] \in Int
  BY <1>1, ScoresAreIntegers
<1>3. n \in pool /\ \A m \in pool : t.score[m] <= t.score[n]
  BY <1>2 DEF Best, Evaluated
<1>4. n \in Evaluated(t) /\ \A m \in Evaluated(t) : t.score[m] <= t.score[n]
  <2>1. Evaluated(t) \subseteq Nodes
    BY DEF Evaluated
  <2>2. ASSUME NEW m \in Evaluated(t) \ pool PROVE t.score[m] <= t.score[n]
    <3>1. PICK k \in pool : t.score[m] <= t.score[k]
      OBVIOUS
    <3>2. t.score[k] <= t.score[n]
      BY <1>3
    <3>3. QED
      BY <1>2, <1>3, <2>1, <3>1, <3>2
  <2>3. QED
    BY <1>3, <2>2
<1> HIDE DEF t
<1>5. /\ u.pc = "decided" /\ u.target = n /\ u.mix = t.mix /\ u.general = t.general
      /\ u.score = t.score
  BY <1>1 DEF Tasks
<1>6. Become(q, u)
  BY DEF t
<1> HIDE DEF u
<1>7. SearchMix(u) = SearchMix(t) /\ Evaluated(u) = Evaluated(t)
  BY <1>5 DEF SearchMix, Evaluated
<1>8. ScoresOK(u) /\ StagesOK(u) /\ DecisionOK(u)
  BY <1>1, <1>4, <1>5, <1>7
     DEF OutcomeOK, ScoresOK, StagesOK, DecisionOK, SearchingPCs, LaterPCs
<1>9. OutcomeOK(u, calls[q])
  BY <1>5, <1>8 DEF OutcomeOK, AnswerOK, RefusalOK
<1>10. QED
  BY <1>6, <1>9, OutcomeFrameStep

LEMMA DirectEvaluatedOutcome ==
    ASSUME Invariant, Outcomes, NEW q \in Queries, DirectEvaluated(q)
    PROVE  Outcomes'
<1> DEFINE t == task[q]
           u == AskOn(t, CapsOf(SearchMix(t)))
<1>1. /\ t \in Tasks /\ OutcomeOK(t, calls[q]) /\ t.pc = "direct" /\ UNCHANGED calls
  BY DEF Outcomes, Invariant, TypeOK, DirectEvaluated
<1>2. CASE Suffices(t, Evaluated(t))
  BY <1>1, <1>2, SelectOutcome DEF DirectEvaluated
<1>3. CASE ~Suffices(t, Evaluated(t))
  <2>1. Become(q, u)
    BY <1>3 DEF DirectEvaluated
  <2> HIDE DEF t
  <2>2. /\ u.pc = "ask" /\ u.mix = t.mix /\ u.general = t.general /\ u.score = t.score
    BY <1>1 DEF AskOn, Tasks
  <2> HIDE DEF u
  <2>3. SearchMix(u) = SearchMix(t) /\ Evaluated(u) = Evaluated(t)
    BY <2>2 DEF SearchMix, Evaluated
  <2>4. \A n \in Evaluated(t) : t.score[n] < Threshold(SearchMix(t))
    <3>1. Evaluated(t) \subseteq Nodes
      BY DEF Evaluated
    <3>2. \A n \in Evaluated(t) : ~(t.score[n] >= Threshold(SearchMix(t)))
      BY <1>3 DEF Suffices
    <3>3. /\ Threshold(SearchMix(t)) \in Int
          /\ \A n \in Evaluated(t) : t.score[n] \in Int
      BY <1>1, <3>1, ScoresAreIntegers
    <3>4. QED
      BY <3>2, <3>3
  <2>5. ScoresOK(u)
    BY <1>1, <2>2, <2>3 DEF OutcomeOK, ScoresOK
  <2>6. StagesOK(u)
    BY <1>1, <2>2, <2>3, <2>4 DEF OutcomeOK, StagesOK, SearchingPCs
  <2>7. OutcomeOK(u, calls[q])
    BY <2>2, <2>5, <2>6 DEF OutcomeOK, DecisionOK, AnswerOK, RefusalOK
  <2>8. QED
    BY <1>1, <2>1, <2>7, OutcomeFrameStep
<1>4. QED
  BY <1>2, <1>3

\* The router has found nobody: it searches once more, or gives up.
LEMMA NoCandidateOutcome ==
    ASSUME Invariant, Outcomes, NEW q \in Queries, task[q].pc = "recommended",
           Evaluated(task[q]) = {}, NoCandidate(q, task[q]), UNCHANGED calls
    PROVE  Outcomes'
<1> DEFINE t == task[q]
<1>1. /\ t \in Tasks /\ OutcomeOK(t, calls[q]) /\ t.pc = "recommended"
      /\ Evaluated(t) = {} /\ NoCandidate(q, t)
  BY DEF Outcomes, Invariant, TypeOK
<1> HIDE DEF t
<1>2. ~HasAnyRequested(Quality[Self], SearchMix(t))
  BY <1>1 DEF OutcomeOK, StagesOK, SearchingPCs, LaterPCs
<1>3. ~HasAnyRequested(Quality[Self], t.mix)
  BY <1>1, <1>2 DEF OutcomeOK, StagesOK, SearchMix, Tasks
<1>4. CASE t.general \/ General \in CapsOf(t.mix)
  <2>1. Quality[Self][General] = 0
    <3>1. Quality[Self][General] \in 0 .. 100
      BY ProfileAssumption, SelfAssumption, GeneralAssumption
    <3>2. ~(Quality[Self][General] > 0)
      <4>1. CASE t.general
        <5>1. ~HasAnyRequested(Quality[Self], GeneralMix)
          BY <1>2, <4>1 DEF SearchMix
        <5>2. 1 \in DOMAIN GeneralMix /\ GeneralMix[1].cap = General
          BY DEF GeneralMix
        <5>3. QED
          BY <5>1, <5>2 DEF HasAnyRequested
      <4>2. CASE General \in CapsOf(t.mix)
        BY <1>3, <4>2 DEF CapsOf, HasAnyRequested
      <4>3. QED
        BY <1>4, <4>1, <4>2
    <3>3. QED
      BY <3>1, <3>2
  <2> DEFINE u == Returns(t, "no_suitable_node")
  <2>2. /\ u.status = "no_suitable_node" /\ u.mix = t.mix /\ u.score = t.score
        /\ u.general = t.general
    BY <1>1, ReturnsFields
  <2> HIDE DEF u
  <2>3. Evaluated(u) = {}
    BY <1>1, <2>2 DEF Evaluated
  <2>4. General \in CapsOf(SearchMix(u))
    <3>1. SearchMix(u) = SearchMix(t)
      BY <2>2 DEF SearchMix
    <3>2. General \in CapsOf(GeneralMix)
      BY DEF CapsOf, GeneralMix
    <3>3. QED
      BY <1>4, <3>1, <3>2 DEF SearchMix
  <2>5. AnswerOK(u, calls[q]) /\ RefusalOK(u, calls[q])
    BY <1>3, <2>1, <2>2, <2>3, <2>4 DEF AnswerOK, RefusalOK
  <2>6. OutcomeOK(u, calls[q])
    BY <1>1, <2>5, ReturnsOutcome DEF u
  <2>7. Become(q, u)
    BY <1>1, <1>4 DEF NoCandidate, u
  <2>8. QED
    BY <2>6, <2>7, OutcomeFrameStep
<1>5. CASE ~(t.general \/ General \in CapsOf(t.mix))
  <2>1. OutcomeOK(BeginSearch(t.excluded, t.mix, TRUE), calls[q])
    BY <1>3, BeginSearchOutcome
  <2>2. QED
    BY <1>1, <1>5, <2>1, OutcomeFrameStep DEF NoCandidate
<1>6. QED
  BY <1>4, <1>5

LEMMA RecommendedEvaluatedOutcome ==
    ASSUME Invariant, Outcomes, NEW q \in Queries, RecommendedEvaluated(q)
    PROVE  Outcomes'
<1> DEFINE t == task[q]
           pool == t.recommended \cap Evaluated(t)
<1>1. /\ t \in Tasks /\ OutcomeOK(t, calls[q]) /\ t.pc = "recommended" /\ UNCHANGED calls
  BY DEF Outcomes, Invariant, TypeOK, RecommendedEvaluated
<1>2. CASE Suffices(t, pool) /\ Select(q, t, pool)
  <2>1. PICK n \in pool : t.score[n] >= Threshold(SearchMix(t))
    BY <1>2 DEF Suffices
  <2>2. ASSUME NEW m \in Evaluated(t) \ pool PROVE t.score[m] <= t.score[n]
    <3>1. t.score[m] < Threshold(SearchMix(t))
      BY <1>1 DEF OutcomeOK, StagesOK, LaterPCs
    <3>2. m \in Nodes /\ n \in Nodes
      BY DEF Evaluated
    <3>3. t.score[m] \in Int /\ t.score[n] \in Int /\ Threshold(SearchMix(t)) \in Int
      BY <1>1, <3>2, ScoresAreIntegers
    <3>4. QED
      BY <2>1, <3>1, <3>3
  <2>3. QED
    BY <1>1, <1>2, <2>2, SelectOutcome
<1>3. CASE Select(q, t, Evaluated(t))
  BY <1>1, <1>3, SelectOutcome
<1>4. CASE Evaluated(t) = {} /\ NoCandidate(q, t)
  BY <1>1, <1>4, NoCandidateOutcome
<1>5. QED
  BY <1>2, <1>3, <1>4 DEF RecommendedEvaluated

-----------------------------------------------------------------------------
(* Execution.                                                               *)

\* The node's own answers, and its own failures.
LEMMA GenerationOutcome ==
    ASSUME Invariant, Outcomes, NEW q \in Queries, GenerationSucceeds(q) \/ GenerationRaises(q)
    PROVE  Outcomes'
<1> DEFINE t == task[q]
<1>1. /\ QueryOK(t, calls[q]) /\ t \in Tasks /\ OutcomeOK(t, calls[q]) /\ t.pc = "generate"
      /\ UNCHANGED calls
  BY QueryHasInvariant DEF Outcomes, Invariant, TypeOK, GenerationSucceeds, GenerationRaises
<1>2. t.target = Self
  BY <1>1 DEF QueryOK, PhaseInvariant
<1>3. ASSUME NEW status \in {"ok", "generation_error"}
      PROVE  OutcomeOK(Returns(t, status), calls[q])
  <2>1. Returns(t, status).target = Self /\ Returns(t, status).status = status
    BY <1>1, <1>2, ReturnsFields
  <2>2. AnswerOK(Returns(t, status), calls[q]) /\ RefusalOK(Returns(t, status), calls[q])
    BY <2>1 DEF AnswerOK, RefusalOK
  <2>3. QED
    BY <1>1, <2>2, ReturnsOutcome
<1>4. OutcomeOK([t EXCEPT !.pc = "escaped"], calls[q])
  <2>1. Onward(t, [t EXCEPT !.pc = "escaped"])
    BY <1>1 DEF Onward, Tasks, SearchingPCs, LaterPCs
  <2>2. QED
    BY <1>1, <2>1, OnwardOK
<1>5. Become(q, Returns(t, "ok")) \/ Become(q, Returns(t, "generation_error"))
        \/ Become(q, [t EXCEPT !.pc = "escaped"])
  BY DEF GenerationSucceeds, GenerationRaises
<1> HIDE DEF t
<1>6. QED
  BY <1>1, <1>3, <1>4, <1>5, OutcomeFrameStep

LEMMA ReplyArrivesOutcome ==
    ASSUME Invariant, Outcomes, NEW q \in Queries, ReplyArrives(q)
    PROVE  Outcomes'
<1> DEFINE t == task[q]
           c == calls[q]
           reply == c[Len(c)].state
           u == Returns(t, reply)
<1>1. QueryOK(t, c) /\ t \in Tasks /\ OutcomeOK(t, c) /\ t.pc = "reply"
  BY QueryHasInvariant DEF Outcomes, Invariant, TypeOK, ReplyArrives
<1>2. Become(q, u) /\ reply \in Replies /\ UNCHANGED calls
  BY DEF ReplyArrives, Current
<1>3. c[Len(c)].node = t.target
  BY <1>1 DEF QueryOK, ForwardInvariant
<1> HIDE DEF t
<1>4. u.target = t.target /\ u.status = reply
  BY <1>1, ReturnsFields
<1> HIDE DEF u
<1>5. AnswerOK(u, c) /\ RefusalOK(u, c)
  BY <1>2, <1>3, <1>4 DEF AnswerOK, RefusalOK, Replies
<1>6. OutcomeOK(u, c)
  BY <1>1, <1>5, ReturnsOutcome DEF u
<1>7. QED
  BY <1>2, <1>6, OutcomeFrameStep

LEMMA ForwardFailsOutcome ==
    ASSUME Invariant, Outcomes, NEW q \in Queries, ForwardFails(q)
    PROVE  Outcomes'
<1> DEFINE t == task[q]
           c == calls[q]
           failed == [t EXCEPT !.excluded = t.excluded \cup {t.target}]
           d == IF t.pc = "connect" THEN [c EXCEPT ![Len(c)].state = "lost"] ELSE c
<1>1. QueryOK(t, c) /\ t \in Tasks /\ OutcomeOK(t, c) /\ t.pc \in {"connect", "reply"}
  BY QueryHasInvariant DEF Outcomes, Invariant, TypeOK, ForwardFails
<1>2. /\ calls' = [calls EXCEPT ![q] = d]
      /\ Become(q, IF Len(c) = MAX_FORWARD_ATTEMPTS THEN Returns(failed, "no_suitable_node")
                   ELSE BeginSearch(failed.excluded, t.mix, FALSE))
  BY DEF ForwardFails, Current, Invariant, TypeOK
<1> HIDE DEF t, c
<1>3. Len(d) = Len(c)
  <2>1. QueryOK(t, [c EXCEPT ![Len(c)].state = "lost"])
    BY <1>1, CurrentForward, ForwardMoves DEF CallStates
  <2>2. c \in Seq(Calls) /\ [c EXCEPT ![Len(c)].state = "lost"] \in Seq(Calls)
    BY <1>1, <2>1 DEF QueryOK
  <2>3. QED
    BY <2>2
<1>4. CASE Len(c) = MAX_FORWARD_ATTEMPTS
  <2> DEFINE u == Returns(failed, "no_suitable_node")
  <2>1. failed \in Tasks /\ Onward(t, failed)
    <3>1. t.target \in Nodes
      BY <1>1, CurrentForward
    <3>2. QED
      BY <1>1, <3>1 DEF Tasks, Onward
  <2> HIDE DEF failed
  <2>2. u.status = "no_suitable_node"
    BY <2>1, ReturnsFields
  <2> HIDE DEF u, d
  <2>3. AnswerOK(u, d) /\ RefusalOK(u, d)
    <3>1. ~(Len(d) < MAX_FORWARD_ATTEMPTS)
      BY <1>3, <1>4 DEF MAX_FORWARD_ATTEMPTS
    <3>2. QED
      BY <2>2, <3>1 DEF AnswerOK, RefusalOK
  <2>4. OutcomeOK(failed, c)
    BY <1>1, <2>1, OnwardOK
  <2>5. OutcomeOK(u, d)
    BY <2>1, <2>3, <2>4, ReturnsOutcome DEF u
  <2>6. QED
    BY <1>2, <1>4, <2>5, OutcomeStep DEF u
<1>5. CASE Len(c) # MAX_FORWARD_ATTEMPTS
  <2>1. OutcomeOK(BeginSearch(failed.excluded, t.mix, FALSE), d)
    BY BeginSearchOutcome
  <2> HIDE DEF failed, d
  <2>2. QED
    BY <1>2, <1>5, <2>1, OutcomeStep
<1>6. QED
  BY <1>4, <1>5

\* A peer moves a forward on: never one whose reply was used.
LEMMA PeerOutcome ==
    ASSUME Invariant, Outcomes, NEW q \in Queries, Peer(q)
    PROVE  Outcomes'
<1> DEFINE t == task[q]
           c == calls[q]
<1>1. PICK i \in DOMAIN c, state \in CallStates :
          SetCall(q, i, state) /\ c[i].state \in {"sent", "running"}
  BY DEF Peer, PeerReceives, PeerAnswers, PeerLost, CallStates
<1> DEFINE d == [c EXCEPT ![i].state = state]
<1>2. calls' = [calls EXCEPT ![q] = d] /\ UNCHANGED task
  BY <1>1 DEF SetCall
<1>3. QueryOK(t, c) /\ OutcomeOK(t, c) /\ c \in Seq(Calls)
  BY QueryHasInvariant DEF Outcomes, QueryOK
<1>4. Become(q, t)
  BY <1>2 DEF Become, Invariant, TypeOK
<1> HIDE DEF t, c
<1>5. Len(d) = Len(c) /\ \A j \in DOMAIN c : j # i => d[j] = c[j]
  BY <1>3
<1> HIDE DEF d
<1>6. AnswerOK(t, d)
  <2> SUFFICES ASSUME t.pc = "done", t.status \in {"ok", "generation_error"}, t.target # Self
               PROVE  d[Len(d)].node = t.target /\ d[Len(d)].state = t.status
    BY DEF AnswerOK
  <2>1. c[Len(c)].node = t.target /\ c[Len(c)].state = t.status
    BY <1>3 DEF OutcomeOK, AnswerOK
  <2>2. i # Len(c)
    BY <1>1, <2>1
  <2>3. Len(c) \in DOMAIN c
    BY <1>1, <1>3
  <2>4. QED
    BY <1>5, <2>1, <2>2, <2>3
<1>7. OutcomeOK(t, d)
  BY <1>3, <1>5, <1>6 DEF OutcomeOK, RefusalOK
<1>8. QED
  BY <1>2, <1>4, <1>7, OutcomeStep DEF t

-----------------------------------------------------------------------------
(* The theorems.                                                            *)

LEMMA NextOutcomes == Invariant /\ Outcomes /\ [Next]_vars => Outcomes'
<1> SUFFICES ASSUME Invariant, Outcomes, [Next]_vars PROVE Outcomes'
  OBVIOUS
<1>1. ASSUME NEW q \in Queries, Submit(q) \/ SubmitClassified(q) PROVE Outcomes'
  BY <1>1, MovesOnStep, SearchBeginsStep DEF MovesOn
<1>2. ASSUME NEW q \in Queries, Route(q) PROVE Outcomes'
  BY <1>2, MovesOnStep, SearchBeginsStep, RaisesStep, BeginDirectOutcome,
     PingSucceedsOutcome, DirectEvaluatedOutcome, RecommendedEvaluatedOutcome
     DEF Route, PingReturns, RouteInTime, MovesOn
<1>3. ASSUME NEW q \in Queries, Execute(q) PROVE Outcomes'
  BY <1>3, MovesOnStep, GenerationOutcome, ForwardFailsOutcome, ReplyArrivesOutcome
     DEF Execute, ExecuteInTime, MovesOn
<1>4. ASSUME NEW q \in Queries, RecommendationsReturn(q) PROVE Outcomes'
  BY <1>4, MovesOnStep DEF MovesOn
<1>5. CASE UNCHANGED <<task, calls>>
  BY <1>5 DEF Outcomes
<1>6. QED
  BY <1>1, <1>2, <1>3, <1>4, <1>5, PeerOutcome DEF Next, Refresh, Age, AllAnswered, vars

\* Scores, stages, decisions, answers and refusals of every query agree,
\* whatever the tasks of the node and its peers do.
THEOREM OutcomesHold == Spec => []Outcomes
<1>1. Init => Invariant /\ Outcomes
  BY InitInvariant, InitOutcomes
<1>2. Invariant /\ Outcomes /\ [Next]_vars => Invariant' /\ Outcomes'
  BY NextInvariant, NextOutcomes
<1>3. QED
  BY <1>1, <1>2, PTL DEF Spec

\* A score is always of a contact of its own search: however the tasks
\* interleave, it is what a live, fresh peer without failures gets.
THEOREM ScoresAreFresh == Spec => []ScoredFresh
<1>1. Outcomes => ScoredFresh
  BY DEF Outcomes, OutcomeOK, ScoresOK, ScoredFresh
<1>2. QED
  BY <1>1, OutcomesHold, PTL

\* Two stages, threshold and tie-breaks select a candidate that no evaluated
\* one beats.
THEOREM TheBestIsSelected == Spec => []BestSelected
<1>1. Outcomes => BestSelected
  BY DEF Outcomes, OutcomeOK, DecisionOK, BestSelected
<1>2. QED
  BY <1>1, OutcomesHold, PTL

\* A selection rests on fresh scores and is beaten by none of them.
THEOREM SelectionsAreSound == Spec => []SelectionSound
BY ScoresAreFresh, TheBestIsSelected, PTL DEF SelectionSound

\* A client is told that no node is suitable only after two failed forwards, or
\* when nobody was evaluated by a search for the general capability, and the
\* node itself has no score for that nor for the query's mix.
THEOREM RefusalsAreJustified == Spec => []NoSuitableNodeJustified
<1>1. Outcomes => NoSuitableNodeJustified
  BY DEF Outcomes, OutcomeOK, RefusalOK, NoSuitableNodeJustified, Current
<1>2. QED
  BY <1>1, OutcomesHold, PTL

\* The status a query returns for a peer is its last forward's, never the late
\* reply to one that was given up.
THEOREM AnswersAreCurrent == Spec => []AnswerIsCurrent
<1>1. Outcomes => AnswerIsCurrent
  BY DEF Outcomes, OutcomeOK, AnswerOK, AnswerIsCurrent, Current
<1>2. QED
  BY <1>1, OutcomesHold, PTL

-----------------------------------------------------------------------------
(* QueryRouting implements QueryContract: each step of a query is a step of *)
(* the contract or changes nothing the contract speaks of.                  *)

\* What the contract sees of the forwards c and of a query in frame t.
AskedOf(c) == [i \in DOMAIN c |-> c[i].node]

OutcomeIn(t) ==
    CASE t.pc = "done" -> t.status
      [] t.pc = "escaped" -> "escaped"
      [] OTHER -> "pending"

AuthorIn(t) ==
    IF t.pc = "done" /\ t.status \in {"ok", "generation_error"} THEN t.target ELSE NoNode

\* The variables of the contract, as Contract substitutes them.
askedView == [q \in Queries |-> [i \in DOMAIN calls[q] |-> calls[q][i].node]]

outcomeView ==
    [q \in Queries |->
        CASE task[q].pc = "done" -> task[q].status
          [] task[q].pc = "escaped" -> "escaped"
          [] OTHER -> "pending"]

authorView ==
    [q \in Queries |->
        IF task[q].pc = "done" /\ task[q].status \in {"ok", "generation_error"}
        THEN task[q].target ELSE NoNode]

\* A peer never refuses a query for being the node that routed it: the node
\* does not forward to itself.
NeverRefused ==
    \A q \in Queries : \A i \in DOMAIN calls[q] : calls[q][i].state # "routing_error"

-----------------------------------------------------------------------------
(* Lemmas on what the contract sees.                                        *)

LEMMA AskedLength ==
    ASSUME NEW c \in Seq(Calls)
    PROVE  /\ AskedOf(c) \in Seq(Nodes)
           /\ Len(AskedOf(c)) = Len(c)
           /\ AskedOf(c) = <<>> <=> c = <<>>
           /\ \A i \in DOMAIN c : AskedOf(c)[i] = c[i].node
<1>1. DOMAIN c = 1 .. Len(c) /\ Len(c) \in Nat
  OBVIOUS
<1>2. \A i \in 1 .. Len(c) : c[i].node \in Nodes
  <2>1. \A i \in 1 .. Len(c) : c[i] \in Calls
    OBVIOUS
  <2>2. QED
    BY <2>1 DEF Calls
<1>3. AskedOf(c) \in [1 .. Len(c) -> Nodes]
  BY <1>1, <1>2 DEF AskedOf
<1>4. AskedOf(c) \in Seq(Nodes) /\ Len(AskedOf(c)) = Len(c)
  BY <1>1, <1>3
<1>5. QED
  BY <1>1, <1>4 DEF AskedOf

LEMMA ViewStep ==
    ASSUME TypeOK, NEW q \in Queries, NEW t, NEW c,
           Become(q, t), calls' = [calls EXCEPT ![q] = c]
    PROVE  /\ askedView' = [askedView EXCEPT ![q] = AskedOf(c)]
           /\ outcomeView' = [outcomeView EXCEPT ![q] = OutcomeIn(t)]
           /\ authorView' = [authorView EXCEPT ![q] = AuthorIn(t)]
<1>1. \A p \in Queries : /\ calls'[p] = IF p = q THEN c ELSE calls[p]
                         /\ task'[p] = IF p = q THEN t ELSE task[p]
  BY DEF TypeOK, Become
<1>2. askedView' = [p \in Queries |-> IF p = q THEN AskedOf(c) ELSE askedView[p]]
  BY <1>1 DEF askedView, AskedOf
<1>3. outcomeView' = [p \in Queries |-> IF p = q THEN OutcomeIn(t) ELSE outcomeView[p]]
  BY <1>1 DEF outcomeView, OutcomeIn
<1>4. authorView' = [p \in Queries |-> IF p = q THEN AuthorIn(t) ELSE authorView[p]]
  BY <1>1 DEF authorView, AuthorIn
<1>5. QED
  BY <1>2, <1>3, <1>4 DEF askedView, outcomeView, authorView

LEMMA ViewOf ==
    ASSUME NEW q \in Queries
    PROVE  /\ askedView[q] = AskedOf(calls[q])
           /\ outcomeView[q] = OutcomeIn(task[q])
           /\ authorView[q] = AuthorIn(task[q])
BY DEF askedView, outcomeView, authorView, AskedOf, OutcomeIn, AuthorIn

\* A step the contract does not see.
LEMMA Unseen ==
    ASSUME TypeOK, NEW q \in Queries, NEW t, NEW c,
           Become(q, t), calls' = [calls EXCEPT ![q] = c],
           AskedOf(c) = AskedOf(calls[q]), ~Final(t), ~Final(task[q])
    PROVE  UNCHANGED Contract!contractVars
<1>1. OutcomeIn(t) = OutcomeIn(task[q]) /\ AuthorIn(t) = AuthorIn(task[q])
  BY DEF OutcomeIn, AuthorIn, Final
<1>2. /\ askedView' = [askedView EXCEPT ![q] = askedView[q]]
      /\ outcomeView' = [outcomeView EXCEPT ![q] = outcomeView[q]]
      /\ authorView' = [authorView EXCEPT ![q] = authorView[q]]
  <2>1. /\ askedView' = [askedView EXCEPT ![q] = AskedOf(c)]
        /\ outcomeView' = [outcomeView EXCEPT ![q] = OutcomeIn(t)]
        /\ authorView' = [authorView EXCEPT ![q] = AuthorIn(t)]
    BY ViewStep
  <2>2. /\ askedView[q] = AskedOf(c)
        /\ outcomeView[q] = OutcomeIn(t)
        /\ authorView[q] = AuthorIn(t)
    BY <1>1, ViewOf
  <2>3. QED
    BY <2>1, <2>2
<1>3. UNCHANGED <<askedView, outcomeView, authorView>>
  <2>1. askedView' = askedView
    BY <1>2 DEF askedView
  <2>2. outcomeView' = outcomeView
    BY <1>2 DEF outcomeView
  <2>3. authorView' = authorView
    BY <1>2 DEF authorView
  <2>4. QED
    BY <2>1, <2>2, <2>3
<1>4. QED
  BY <1>3 DEF Contract!contractVars, askedView, outcomeView, authorView

LEMMA UnseenFrame ==
    ASSUME TypeOK, NEW q \in Queries, NEW t, Become(q, t), UNCHANGED calls,
           ~Final(t), ~Final(task[q])
    PROVE  UNCHANGED Contract!contractVars
<1>1. calls' = [calls EXCEPT ![q] = calls[q]]
  BY DEF TypeOK
<1>2. QED
  BY <1>1, Unseen

\* A step that ends a query.
LEMMA Ended ==
    ASSUME TypeOK, NEW q \in Queries, NEW t, NEW c,
           Become(q, t), calls' = [calls EXCEPT ![q] = c],
           AskedOf(c) = AskedOf(calls[q]), ~Final(task[q]),
           NEW result, result = OutcomeIn(t), NEW by, by = AuthorIn(t)
    PROVE  Contract!End(q, result, by)
<1>1. outcomeView[q] = "pending"
  BY ViewOf DEF OutcomeIn, Final
<1>2. askedView' = askedView
  <2>1. askedView' = [askedView EXCEPT ![q] = AskedOf(c)]
    BY ViewStep
  <2>2. askedView[q] = AskedOf(c)
    BY ViewOf
  <2>3. QED
    BY <2>1, <2>2 DEF askedView
<1>3. /\ outcomeView' = [outcomeView EXCEPT ![q] = OutcomeIn(t)]
      /\ authorView' = [authorView EXCEPT ![q] = AuthorIn(t)]
  BY ViewStep
<1>4. QED
  BY <1>1, <1>2, <1>3 DEF Contract!End, askedView, outcomeView, authorView

LEMMA EndedFrame ==
    ASSUME TypeOK, NEW q \in Queries, NEW t, Become(q, t), UNCHANGED calls, ~Final(task[q]),
           NEW result, result = OutcomeIn(t), NEW by, by = AuthorIn(t)
    PROVE  Contract!End(q, result, by)
<1>1. calls' = [calls EXCEPT ![q] = calls[q]]
  BY DEF TypeOK
<1>2. QED
  BY <1>1, Ended

-----------------------------------------------------------------------------
(* The steps of a search are not seen.                                      *)

Searches(q) ==
    \/ Submit(q) \/ SubmitClassified(q) \/ Classified(q)
    \/ LookupReturns(q) \/ ProfileServed(q) \/ ProfileMissing(q) \/ ProvidersVisited(q)
    \/ BeginDirect(q) \/ PingSucceeds(q) \/ PingFails(q) \/ DirectEvaluated(q)
    \/ RecommendationsReturn(q) \/ ConsiderKnown(q) \/ FetchRecommended(q)
    \/ FetchServed(q) \/ FetchMissing(q) \/ SourcesAsked(q) \/ RecommendationsDone(q)
    \/ ExecuteLocally(q)

\* The query goes on.
GoesOn(q) == \E u : Become(q, u) /\ ~Final(u)

LEMMA BeginSearchGoesOn ==
    ASSUME NEW excluded, NEW mix, NEW general
    PROVE  ~Final(BeginSearch(excluded, mix, general))
BY DEF BeginSearch, IdleTask, Final

LEMMA AskOnGoesOn ==
    ASSUME NEW t \in Tasks, NEW caps
    PROVE  ~Final(AskOn(t, caps))
BY DEF AskOn, Tasks, Final

LEMMA RecommendedGoesOn ==
    ASSUME NEW t \in Tasks, ~Final(t), NEW n, NEW reg
    PROVE  ~Final(Recommended(t, n, reg))
BY DEF Recommended, Tasks, Final

LEMMA SelectGoesOn ==
    ASSUME NEW q \in Queries, NEW t \in Tasks, NEW pool, Select(q, t, pool)
    PROVE  GoesOn(q)
<1>1. PICK n \in Best(t, pool) : Become(q, [t EXCEPT !.pc = "decided", !.target = n])
  BY DEF Select
<1>2. ~Final([t EXCEPT !.pc = "decided", !.target = n])
  BY DEF Tasks, Final
<1>3. QED
  BY <1>1, <1>2 DEF GoesOn

LEMMA SearchGoesOn ==
    ASSUME TypeOK, NEW q \in Queries, Searches(q)
    PROVE  GoesOn(q)
<1> DEFINE t == task[q]
<1>1. t \in Tasks
  BY DEF TypeOK
<1>2. CASE Submit(q)
  <2>1. PICK excluded : Become(q, [t EXCEPT !.pc = "classify", !.excluded = excluded])
    BY <1>2 DEF Submit
  <2>2. ~Final([t EXCEPT !.pc = "classify", !.excluded = excluded])
    BY <1>1 DEF Tasks, Final
  <2>3. QED
    BY <2>1, <2>2 DEF GoesOn
<1>3. CASE SubmitClassified(q) \/ Classified(q)
  <2>1. PICK excluded, mix : Become(q, BeginSearch(excluded, mix, FALSE))
    BY <1>3 DEF SubmitClassified, Classified
  <2>2. QED
    BY <2>1, BeginSearchGoesOn DEF GoesOn
<1>4. CASE LookupReturns(q)
  <2>1. PICK caps, todo : Become(q, [t EXCEPT !.pc = "profiles", !.caps = caps, !.todo = todo])
    BY <1>4 DEF LookupReturns
  <2>2. ~Final([t EXCEPT !.pc = "profiles", !.caps = caps, !.todo = todo])
    BY <1>1 DEF Tasks, Final
  <2>3. QED
    BY <2>1, <2>2 DEF GoesOn
<1>5. CASE ProfileServed(q) \/ ProfileMissing(q) \/ PingFails(q)
  <2>1. PICK todo : Become(q, [t EXCEPT !.todo = todo])
    BY <1>5 DEF ProfileServed, ProfileMissing, PingFails
  <2>2. t.pc \in {"profiles", "direct", "recommended"}
    BY <1>5 DEF ProfileServed, ProfileMissing, PingFails
  <2>3. ~Final([t EXCEPT !.todo = todo])
    BY <1>1, <2>2 DEF Tasks, Final
  <2>4. QED
    BY <2>1, <2>3 DEF GoesOn
<1>6. CASE ProvidersVisited(q)
  <2>1. ~Final([t EXCEPT !.pc = "lookup"])
    BY <1>1 DEF Tasks, Final
  <2>2. QED
    BY <1>6, <2>1 DEF ProvidersVisited, GoesOn
<1>7. CASE BeginDirect(q)
  <2>1. PICK direct, todo, score :
            Become(q, [t EXCEPT !.pc = "direct", !.direct = direct, !.todo = todo,
                                !.score = score])
    BY <1>7 DEF BeginDirect
  <2>2. ~Final([t EXCEPT !.pc = "direct", !.direct = direct, !.todo = todo,
                         !.score = score])
    BY <1>1 DEF Tasks, Final
  <2>3. QED
    BY <2>1, <2>2 DEF GoesOn
<1>8. CASE PingSucceeds(q)
  <2>1. PICK n, todo, score : Become(q, [t EXCEPT !.todo = todo, !.score[n] = score])
    BY <1>8 DEF PingSucceeds
  <2>2. t.pc \in {"direct", "recommended"}
    BY <1>8 DEF PingSucceeds
  <2>3. ~Final([t EXCEPT !.todo = todo, !.score[n] = score])
    BY <1>1, <2>2 DEF Tasks, Final
  <2>4. QED
    BY <2>1, <2>3 DEF GoesOn
<1>9. CASE DirectEvaluated(q)
  <2>1. CASE Select(q, t, Evaluated(t))
    BY <1>1, <2>1, SelectGoesOn
  <2>2. CASE Become(q, AskOn(t, CapsOf(SearchMix(t))))
    BY <1>1, <2>2, AskOnGoesOn DEF GoesOn
  <2>3. QED
    BY <1>9, <2>1, <2>2 DEF DirectEvaluated
<1>10. CASE RecommendationsReturn(q)
  <2>1. PICK todo, ids : Become(q, [t EXCEPT !.todo = todo, !.ids = ids])
    BY <1>10 DEF RecommendationsReturn
  <2>2. t.pc = "ask"
    BY <1>10 DEF RecommendationsReturn
  <2>3. ~Final([t EXCEPT !.todo = todo, !.ids = ids])
    BY <1>1, <2>2 DEF Tasks, Final
  <2>4. QED
    BY <2>1, <2>3 DEF GoesOn
<1>11. CASE ConsiderKnown(q)
  <2>1. PICK n \in t.ids :
            Become(q, IF n \in RecommendationExcluded(t) THEN [t EXCEPT !.ids = t.ids \ {n}]
                      ELSE Recommended([t EXCEPT !.ids = t.ids \ {n}], n, registry))
    BY <1>11 DEF ConsiderKnown
  <2> DEFINE rest == [t EXCEPT !.ids = t.ids \ {n}]
  <2>2. t.pc = "ask"
    BY <1>11 DEF ConsiderKnown
  <2>3. rest \in Tasks /\ ~Final(rest)
    BY <1>1, <2>2 DEF Tasks, Final
  <2> HIDE DEF rest
  <2>4. ~Final(Recommended(rest, n, registry))
    BY <2>3, RecommendedGoesOn
  <2>5. QED
    BY <2>1, <2>3, <2>4 DEF rest, GoesOn
<1>12. CASE FetchRecommended(q)
  <2>1. PICK n, ids : Become(q, [t EXCEPT !.pc = "fetch", !.ids = ids, !.target = n])
    BY <1>12 DEF FetchRecommended
  <2>2. ~Final([t EXCEPT !.pc = "fetch", !.ids = ids, !.target = n])
    BY <1>1 DEF Tasks, Final
  <2>3. QED
    BY <2>1, <2>2 DEF GoesOn
<1>13. CASE FetchServed(q) \/ FetchMissing(q)
  <2> DEFINE rest == [t EXCEPT !.pc = "ask", !.target = NoNode]
  <2>1. rest \in Tasks /\ ~Final(rest)
    BY <1>1 DEF Tasks, PCs, Final
  <2>2. Become(q, rest) \/ Become(q, Recommended(rest, t.target, registry'))
    BY <1>13 DEF FetchServed, FetchMissing
  <2> HIDE DEF rest
  <2>3. ~Final(Recommended(rest, t.target, registry'))
    BY <2>1, RecommendedGoesOn
  <2>4. QED
    BY <2>1, <2>2, <2>3 DEF GoesOn
<1>14. CASE SourcesAsked(q)
  <2>1. PICK caps : Become(q, AskOn(t, caps))
    BY <1>14 DEF SourcesAsked
  <2>2. QED
    BY <1>1, <2>1, AskOnGoesOn DEF GoesOn
<1>15. CASE RecommendationsDone(q)
  <2>1. ~Final([t EXCEPT !.pc = "recommended", !.todo = t.recommended])
    BY <1>1 DEF Tasks, Final
  <2>2. QED
    BY <1>15, <2>1 DEF RecommendationsDone, GoesOn
<1>16. CASE ExecuteLocally(q)
  <2>1. ~Final([t EXCEPT !.pc = "generate"])
    BY <1>1 DEF Tasks, Final
  <2>2. QED
    BY <1>16, <2>1 DEF ExecuteLocally, GoesOn
<1>17. QED
  BY <1>2, <1>3, <1>4, <1>5, <1>6, <1>7, <1>8, <1>9, <1>10, <1>11, <1>12, <1>13, <1>14,
     <1>15, <1>16 DEF Searches

LEMMA SearchUnseen ==
    ASSUME TypeOK, NEW q \in Queries, Searches(q)
    PROVE  UNCHANGED Contract!contractVars
<1>1. PICK u : Become(q, u) /\ ~Final(u)
  BY SearchGoesOn DEF GoesOn
<1>2. UNCHANGED calls /\ ~Final(task[q])
  BY DEF Searches, Submit, SubmitClassified, Classified, LookupReturns, ProfileServed,
         ProfileMissing, ProvidersVisited, BeginDirect, PingSucceeds, PingFails,
         DirectEvaluated, RecommendationsReturn, ConsiderKnown, FetchRecommended,
         FetchServed, FetchMissing, SourcesAsked, RecommendationsDone, ExecuteLocally, Final
<1>3. QED
  BY <1>1, <1>2, UnseenFrame

-----------------------------------------------------------------------------
(* The steps that end a query.                                              *)

\* What the contract's conditions on the nodes asked mean of the forwards.
LEMMA AskedBefore ==
    ASSUME TypeOK, NEW q \in Queries
    PROVE  /\ Len(askedView[q]) = Len(calls[q])
           /\ askedView[q] = <<>> <=> calls[q] = <<>>
           /\ \A i \in DOMAIN calls[q] : askedView[q][i] = calls[q][i].node
           /\ DOMAIN askedView[q] = DOMAIN calls[q]
<1>1. calls[q] \in Seq(Calls) /\ askedView[q] = AskedOf(calls[q])
  BY ViewOf DEF TypeOK
<1>2. DOMAIN AskedOf(calls[q]) = DOMAIN calls[q]
  BY DEF AskedOf
<1>3. QED
  BY <1>1, <1>2, AskedLength

LEMMA ReturnsEnd ==
    ASSUME TypeOK, NEW q \in Queries, NEW t \in Tasks, NEW status, NEW by,
           by = IF status \in {"ok", "generation_error"} THEN t.target ELSE NoNode,
           Become(q, Returns(t, status)), UNCHANGED calls, ~Final(task[q])
    PROVE  Contract!End(q, status, by)
<1> DEFINE u == Returns(t, status)
<1>1. u.pc = "done" /\ u.status = status /\ u.target = t.target
  BY DEF Returns, Tasks
<1>2. OutcomeIn(u) = status /\ AuthorIn(u) = by
  BY <1>1 DEF OutcomeIn, AuthorIn
<1> HIDE DEF u
<1>3. QED
  BY <1>2, EndedFrame DEF u

LEMMA EscapeStep ==
    ASSUME TypeOK, NEW q \in Queries, NEW t \in Tasks,
           Become(q, [t EXCEPT !.pc = "escaped"]), UNCHANGED calls, ~Final(task[q]),
           calls[q] # <<>>, Len(calls[q]) < MAX_FORWARD_ATTEMPTS
    PROVE  Contract!Escapes(q)
<1> DEFINE u == [t EXCEPT !.pc = "escaped"]
<1>1. u.pc = "escaped"
  BY DEF Tasks
<1>2. OutcomeIn(u) = "escaped" /\ AuthorIn(u) = NoNode
  BY <1>1 DEF OutcomeIn, AuthorIn
<1> HIDE DEF u
<1>3. Contract!End(q, "escaped", NoNode)
  BY <1>2, EndedFrame DEF u
<1>4. Len(askedView[q]) \in 1 .. MAX_FORWARD_ATTEMPTS - 1
  <2>1. calls[q] \in Seq(Calls)
    BY DEF TypeOK
  <2>2. Len(calls[q]) \in Nat /\ Len(calls[q]) # 0
    BY <2>1
  <2>3. Len(calls[q]) = 1
    <3>1. \A n \in Nat : n # 0 /\ n < 2 => n = 1
      OBVIOUS
    <3>2. Len(calls[q]) < 2
      BY DEF MAX_FORWARD_ATTEMPTS
    <3>3. QED
      BY <2>2, <3>1, <3>2
  <2>4. Len(askedView[q]) = 1
    BY <2>3, AskedBefore
  <2>5. 1 \in 1 .. MAX_FORWARD_ATTEMPTS - 1
    BY DEF MAX_FORWARD_ATTEMPTS
  <2>6. QED
    BY <2>4, <2>5
<1>5. QED
  BY <1>3, <1>4 DEF Contract!Escapes, askedView

LEMMA RaisesContract ==
    ASSUME TypeOK, NEW q \in Queries, NEW t \in Tasks, Become(q, Raises(q, t)),
           UNCHANGED calls, ~Final(task[q]), Len(calls[q]) < MAX_FORWARD_ATTEMPTS
    PROVE  Contract!RoutingFailed(q) \/ Contract!Escapes(q)
<1>1. CASE calls[q] = <<>>
  <2>1. Become(q, Returns(t, "routing_error"))
    BY <1>1 DEF Raises
  <2>2. Contract!End(q, "routing_error", NoNode)
    BY <2>1, ReturnsEnd
  <2>3. askedView[q] = <<>>
    BY <1>1, AskedBefore
  <2>4. QED
    BY <2>2, <2>3 DEF Contract!RoutingFailed, askedView
<1>2. CASE calls[q] # <<>>
  <2>1. Become(q, [t EXCEPT !.pc = "escaped"])
    BY <1>2 DEF Raises
  <2>2. QED
    BY <1>2, <2>1, EscapeStep
<1>3. QED
  BY <1>1, <1>2

LEMMA RoutingRaises ==
    ASSUME Invariant, NEW q \in Queries,
           ClassifierRaises(q) \/ LookupRaises(q) \/ FetchRaises(q)
    PROVE  Contract!RoutingFailed(q) \/ Contract!Escapes(q)
<1> DEFINE t == task[q]
<1>1. TypeOK /\ t \in Tasks /\ UNCHANGED calls /\ ForwardInvariant(t, calls[q])
  BY DEF Invariant, TypeOK, QueriesConsistent, ClassifierRaises, LookupRaises, FetchRaises
<1>2. t.pc \in {"classify", "lookup", "fetch"}
  BY DEF ClassifierRaises, LookupRaises, FetchRaises
<1>3. ~Final(t) /\ Len(calls[q]) < MAX_FORWARD_ATTEMPTS
  BY <1>1, <1>2 DEF Final, ForwardInvariant, RoutingPCs, PCs
<1>4. CASE ClassifierRaises(q)
  <2>1. calls[q] = <<>>
    BY <1>1, <1>4 DEF ClassifierRaises, ForwardInvariant, UnroutedPCs
  <2>2. Become(q, Raises(q, t))
    BY <1>4, <2>1 DEF ClassifierRaises, Raises
  <2>3. QED
    BY <1>1, <1>3, <2>2, RaisesContract
<1>5. CASE LookupRaises(q)
  BY <1>1, <1>3, <1>5, RaisesContract DEF LookupRaises
<1>6. CASE FetchRaises(q)
  <2>1. [t EXCEPT !.target = NoNode] \in Tasks
    BY <1>1 DEF Tasks
  <2>2. QED
    BY <1>1, <1>3, <1>6, <2>1, RaisesContract DEF FetchRaises
<1>7. QED
  BY <1>4, <1>5, <1>6

\* The end of a search goes on, or says that nobody is suitable.
LEMMA SearchEnds ==
    ASSUME Invariant, NEW q \in Queries, RecommendedEvaluated(q)
    PROVE  Contract!NobodySuitable(q) \/ UNCHANGED Contract!contractVars
<1> DEFINE t == task[q]
<1>1. TypeOK /\ t \in Tasks /\ UNCHANGED calls /\ t.pc = "recommended"
  BY DEF Invariant, TypeOK, RecommendedEvaluated
<1>2. ~Final(t)
  BY <1>1 DEF Final
<1>3. CASE GoesOn(q)
  BY <1>1, <1>2, <1>3, UnseenFrame DEF GoesOn
<1>4. CASE Become(q, Returns(t, "no_suitable_node"))
  <2>1. Contract!End(q, "no_suitable_node", NoNode)
    BY <1>1, <1>2, <1>4, ReturnsEnd
  <2>2. QED
    BY <2>1 DEF Contract!NobodySuitable
<1>5. GoesOn(q) \/ Become(q, Returns(t, "no_suitable_node"))
  <2>1. ASSUME NEW pool, Select(q, t, pool) PROVE GoesOn(q)
    BY <1>1, <2>1, SelectGoesOn
  <2>2. ASSUME NoCandidate(q, t)
        PROVE  GoesOn(q) \/ Become(q, Returns(t, "no_suitable_node"))
    BY <2>2, BeginSearchGoesOn DEF NoCandidate, GoesOn
  <2>3. QED
    BY <2>1, <2>2 DEF RecommendedEvaluated
<1>6. QED
  BY <1>3, <1>4, <1>5

LEMMA GenerationEnds ==
    ASSUME Invariant, NEW q \in Queries, GenerationSucceeds(q) \/ GenerationRaises(q)
    PROVE  Contract!AnsweredLocally(q) \/ Contract!FailedLocally(q) \/ Contract!Escapes(q)
<1> DEFINE t == task[q]
<1>1. TypeOK /\ t \in Tasks /\ UNCHANGED calls /\ t.pc = "generate"
  BY DEF Invariant, TypeOK, GenerationSucceeds, GenerationRaises
<1>2. /\ t.target = Self /\ Len(calls[q]) < MAX_FORWARD_ATTEMPTS /\ ~Final(t)
  BY <1>1 DEF Invariant, QueriesConsistent, PhaseInvariant, ForwardInvariant, Final
<1>3. CASE GenerationSucceeds(q)
  <2>1. Contract!End(q, "ok", Self)
    BY <1>1, <1>2, <1>3, ReturnsEnd DEF GenerationSucceeds
  <2>2. Len(askedView[q]) < MAX_FORWARD_ATTEMPTS
    BY <1>1, <1>2, AskedBefore
  <2>3. QED
    BY <2>1, <2>2 DEF Contract!AnsweredLocally, askedView
<1>4. CASE GenerationRaises(q) /\ calls[q] = <<>>
  <2>1. Become(q, Returns(t, "generation_error"))
    BY <1>4 DEF GenerationRaises
  <2>2. Contract!End(q, "generation_error", Self)
    BY <1>1, <1>2, <2>1, ReturnsEnd
  <2>3. askedView[q] = <<>>
    BY <1>1, <1>4, AskedBefore
  <2>4. QED
    BY <2>2, <2>3 DEF Contract!FailedLocally, askedView
<1>5. CASE GenerationRaises(q) /\ calls[q] # <<>>
  <2>1. Become(q, [t EXCEPT !.pc = "escaped"])
    BY <1>5 DEF GenerationRaises
  <2>2. QED
    BY <1>1, <1>2, <1>5, <2>1, EscapeStep
<1>6. QED
  BY <1>3, <1>4, <1>5

LEMMA ReplyEnds ==
    ASSUME Invariant, NeverRefused, NEW q \in Queries, ReplyArrives(q)
    PROVE  Contract!Answered(q)
<1> DEFINE t == task[q]
           c == calls[q]
<1>1. TypeOK /\ t \in Tasks /\ UNCHANGED calls /\ t.pc = "reply" /\ ~Final(t)
  BY DEF Invariant, TypeOK, ReplyArrives, Final
<1>2. c # <<>> /\ c[Len(c)].node = t.target
  BY <1>1 DEF Invariant, QueriesConsistent, ForwardInvariant
<1>3. c \in Seq(Calls) /\ Len(c) \in DOMAIN c
  BY <1>1, <1>2 DEF TypeOK
<1>4. PICK reply \in {"ok", "generation_error"} : Become(q, Returns(t, reply))
  BY <1>3 DEF NeverRefused, Replies, ReplyArrives, Current
<1>5. PICK n : n = t.target
  OBVIOUS
<1>6. Contract!End(q, reply, n)
  BY <1>1, <1>4, <1>5, ReturnsEnd
<1>7. askedView[q] # <<>> /\ askedView[q][Len(askedView[q])] = n
  BY <1>1, <1>2, <1>3, <1>5, AskedBefore
<1> HIDE DEF t, c
<1>8. QED
  BY <1>6, <1>7 DEF Contract!Answered, Contract!End, askedView

-----------------------------------------------------------------------------
(* Forwards.                                                                *)

LEMMA AskedAfter ==
    ASSUME NEW c \in Seq(Calls), NEW r \in Calls
    PROVE  AskedOf(Append(c, r)) = Append(AskedOf(c), r.node)
<1>1. /\ DOMAIN c = 1 .. Len(c) /\ Len(c) \in Nat
      /\ Append(c, r) \in Seq(Calls) /\ Len(Append(c, r)) = Len(c) + 1
      /\ \A i \in 1 .. Len(c) + 1 :
            Append(c, r)[i] = IF i = Len(c) + 1 THEN r ELSE c[i]
  OBVIOUS
<1>2. AskedOf(Append(c, r)) \in Seq(Nodes) /\ Len(AskedOf(Append(c, r))) = Len(c) + 1
  BY <1>1, AskedLength
<1>3. AskedOf(c) \in Seq(Nodes) /\ Len(AskedOf(c)) = Len(c)
  BY AskedLength
<1>4. \A i \in 1 .. Len(c) + 1 :
          AskedOf(Append(c, r))[i] = IF i = Len(c) + 1 THEN r.node ELSE AskedOf(c)[i]
  <2>1. DOMAIN Append(c, r) = 1 .. Len(c) + 1
    BY <1>1
  <2>2. \A i \in 1 .. Len(c) + 1 : AskedOf(Append(c, r))[i] = Append(c, r)[i].node
    BY <1>1, <2>1, AskedLength
  <2>3. \A i \in 1 .. Len(c) : AskedOf(c)[i] = c[i].node
    BY <1>1, AskedLength
  <2>4. \A i \in 1 .. Len(c) + 1 : i # Len(c) + 1 => i \in 1 .. Len(c)
    BY <1>1
  <2>5. QED
    BY <1>1, <2>2, <2>3, <2>4
<1>5. r.node \in Nodes
  BY DEF Calls
<1> DEFINE a == AskedOf(c)
           b == AskedOf(Append(c, r))
           k == Len(c)
           n == r.node
<1>6. /\ a \in Seq(Nodes) /\ b \in Seq(Nodes) /\ Len(a) = k /\ Len(b) = k + 1
      /\ \A i \in 1 .. k + 1 : b[i] = IF i = k + 1 THEN n ELSE a[i]
      /\ n \in Nodes /\ k \in Nat
  BY <1>1, <1>2, <1>3, <1>4, <1>5
<1> HIDE DEF a, b, k, n
<1>7. b = Append(a, n)
  BY <1>6
<1>8. QED
  BY <1>7 DEF a, b, n

\* Moving a forward on does not change whom the query went to.
LEMMA AskedStays ==
    ASSUME NEW c \in Seq(Calls), NEW i \in DOMAIN c, NEW state
    PROVE  AskedOf([c EXCEPT ![i].state = state]) = AskedOf(c)
<1>1. \A j \in DOMAIN c : c[j] \in Calls
  OBVIOUS
<1>2. \A j \in DOMAIN c : [c EXCEPT ![i].state = state][j].node = c[j].node
  BY <1>1 DEF Calls
<1>3. DOMAIN [c EXCEPT ![i].state = state] = DOMAIN c
  OBVIOUS
<1>4. QED
  BY <1>2, <1>3 DEF AskedOf

LEMMA StartForwardContract ==
    ASSUME Invariant, NEW q \in Queries, StartForward(q)
    PROVE  \E n \in Nodes : Contract!Ask(q, n)
<1> DEFINE t == task[q]
           c == calls[q]
           r == [node |-> t.target, state |-> "connecting"]
           u == [t EXCEPT !.pc = "connect"]
<1>1. /\ TypeOK /\ t \in Tasks /\ c \in Seq(Calls) /\ t.pc = "decided" /\ t.target # Self
      /\ Become(q, u) /\ calls' = [calls EXCEPT ![q] = Append(c, r)]
  BY DEF Invariant, TypeOK, StartForward
<1>2. /\ t.target \in Nodes \ t.excluded /\ Len(c) < MAX_FORWARD_ATTEMPTS
      /\ \A i \in DOMAIN c : c[i].node \in t.excluded
  BY <1>1 DEF Invariant, QueriesConsistent, PhaseInvariant, ForwardInvariant, RoutingPCs, PCs
<1>3. r \in Calls
  BY <1>2 DEF Calls, CallStates
<1>4. u.pc = "connect"
  BY <1>1 DEF Tasks
<1> DEFINE n == t.target
<1>5. AskedOf(Append(c, r)) = Append(askedView[q], n)
  <2>1. AskedOf(Append(c, r)) = Append(AskedOf(c), r.node)
    BY <1>1, <1>3, AskedAfter
  <2>2. QED
    BY <2>1, ViewOf
<1>6. /\ OutcomeIn(u) = OutcomeIn(t) /\ AuthorIn(u) = AuthorIn(t) /\ OutcomeIn(t) = "pending"
  BY <1>1, <1>4 DEF OutcomeIn, AuthorIn
<1>7. askedView' = [askedView EXCEPT ![q] = Append(askedView[q], n)]
  <2>1. askedView' = [askedView EXCEPT ![q] = AskedOf(Append(c, r))]
    BY <1>1, ViewStep
  <2>2. QED
    BY <1>5, <2>1
<1>8. outcomeView[q] = "pending" /\ UNCHANGED <<outcomeView, authorView>>
  <2>1. /\ outcomeView' = [outcomeView EXCEPT ![q] = OutcomeIn(u)]
        /\ authorView' = [authorView EXCEPT ![q] = AuthorIn(u)]
    BY <1>1, ViewStep
  <2>2. outcomeView[q] = OutcomeIn(u) /\ authorView[q] = AuthorIn(u)
    BY <1>6, ViewOf
  <2>3. outcomeView' = outcomeView
    BY <2>1, <2>2 DEF outcomeView
  <2>4. authorView' = authorView
    BY <2>1, <2>2 DEF authorView
  <2>5. QED
    BY <1>6, <2>2, <2>3, <2>4
<1>9. Len(askedView[q]) < MAX_FORWARD_ATTEMPTS
  BY <1>1, <1>2, AskedBefore
<1>10. n \notin {askedView[q][i] : i \in DOMAIN askedView[q]} \cup {Self}
  <2>1. \A i \in DOMAIN askedView[q] : askedView[q][i] \in t.excluded
    BY <1>1, <1>2, AskedBefore
  <2>2. QED
    BY <1>1, <1>2, <2>1
<1>11. PICK m \in Nodes : m = n
  BY <1>2
<1> HIDE DEF t, c, r, u, n
<1>12. Contract!Ask(q, m)
  BY <1>7, <1>8, <1>9, <1>10, <1>11
     DEF Contract!Ask, Contract!AskedNodes, askedView, outcomeView, authorView
<1>13. QED
  BY <1>12

LEMMA SendQueryContract ==
    ASSUME Invariant, NEW q \in Queries, SendQuery(q)
    PROVE  UNCHANGED Contract!contractVars
<1> DEFINE t == task[q]
           c == calls[q]
           u == [t EXCEPT !.pc = "reply"]
           d == [c EXCEPT ![Len(c)].state = "sent"]
<1>1. /\ TypeOK /\ t \in Tasks /\ c \in Seq(Calls) /\ t.pc = "connect"
      /\ Become(q, u) /\ calls' = [calls EXCEPT ![q] = d]
  BY DEF Invariant, TypeOK, SendQuery, Current
<1>2. Len(c) \in DOMAIN c
  BY <1>1 DEF Invariant, QueriesConsistent, ForwardInvariant
<1>3. ~Final(t) /\ ~Final(u)
  BY <1>1 DEF Final, Tasks
<1>4. AskedOf(d) = AskedOf(c)
  BY <1>1, <1>2, AskedStays
<1> HIDE DEF d, u
<1>5. QED
  BY <1>1, <1>3, <1>4, Unseen

LEMMA ForwardFailsContract ==
    ASSUME Invariant, NEW q \in Queries, ForwardFails(q)
    PROVE  Contract!NobodySuitable(q) \/ UNCHANGED Contract!contractVars
<1> DEFINE t == task[q]
           c == calls[q]
           failed == [t EXCEPT !.excluded = t.excluded \cup {t.target}]
           d == IF t.pc = "connect" THEN [c EXCEPT ![Len(c)].state = "lost"] ELSE c
           u == Returns(failed, "no_suitable_node")
           v == BeginSearch(failed.excluded, t.mix, FALSE)
<1>1. /\ TypeOK /\ t \in Tasks /\ c \in Seq(Calls) /\ t.pc \in {"connect", "reply"}
      /\ calls' = [calls EXCEPT ![q] = d]
      /\ Become(q, u) \/ Become(q, v)
  BY DEF Invariant, TypeOK, ForwardFails, Current
<1>2. Len(c) \in DOMAIN c
  BY <1>1 DEF Invariant, QueriesConsistent, ForwardInvariant
<1>3. AskedOf(d) = AskedOf(c)
  BY <1>1, <1>2, AskedStays
<1>4. ~Final(t) /\ ~Final(v)
  BY <1>1, BeginSearchGoesOn DEF Final
<1>5. OutcomeIn(u) = "no_suitable_node" /\ AuthorIn(u) = NoNode
  <2>1. u.pc = "done" /\ u.status = "no_suitable_node"
    BY <1>1 DEF Returns, Tasks
  <2>2. QED
    BY <2>1 DEF OutcomeIn, AuthorIn
<1> HIDE DEF d, u, v
<1>6. CASE Become(q, u)
  <2>1. Contract!End(q, "no_suitable_node", NoNode)
    BY <1>1, <1>3, <1>4, <1>5, <1>6, Ended
  <2>2. QED
    BY <2>1 DEF Contract!NobodySuitable
<1>7. CASE Become(q, v)
  BY <1>1, <1>3, <1>4, <1>7, Unseen
<1>8. QED
  BY <1>1, <1>6, <1>7

LEMMA PeerContract ==
    ASSUME Invariant, NEW q \in Queries, Peer(q)
    PROVE  UNCHANGED Contract!contractVars
<1> DEFINE c == calls[q]
<1>1. PICK i \in DOMAIN c, state \in CallStates : SetCall(q, i, state)
  BY DEF Peer, PeerReceives, PeerAnswers, PeerLost, CallStates
<1> DEFINE d == [c EXCEPT ![i].state = state]
<1>2. TypeOK /\ c \in Seq(Calls) /\ calls' = [calls EXCEPT ![q] = d] /\ UNCHANGED task
  BY <1>1 DEF SetCall, Invariant, TypeOK
<1>3. AskedOf(d) = AskedOf(c)
  BY <1>2, AskedStays
<1>4. \A p \in Queries : AskedOf(calls'[p]) = AskedOf(calls[p])
  BY <1>2, <1>3 DEF TypeOK
<1>5. UNCHANGED <<askedView, outcomeView, authorView>>
  BY <1>2, <1>4 DEF askedView, outcomeView, authorView, AskedOf
<1>6. QED
  BY <1>5 DEF Contract!contractVars, askedView, outcomeView, authorView

-----------------------------------------------------------------------------
(* No peer refuses.                                                         *)

\* It is enough to look at the forwards of the query that moves.
LEMMA NeverRefusedStep ==
    ASSUME Invariant, NeverRefused, NEW q \in Queries, NEW c,
           calls' = [calls EXCEPT ![q] = c],
           \A i \in DOMAIN c : c[i].state # "routing_error"
    PROVE  NeverRefused'
<1>1. \A p \in Queries : calls'[p] = IF p = q THEN c ELSE calls[p]
  BY DEF Invariant, TypeOK
<1>2. QED
  BY <1>1 DEF NeverRefused

\* A forward is moved on to another state.
LEMMA ForwardMovedOn ==
    ASSUME Invariant, NeverRefused, NEW q \in Queries, NEW i \in DOMAIN calls[q], NEW state,
           state # "routing_error", calls' = [calls EXCEPT ![q][i].state = state]
    PROVE  NeverRefused'
<1> DEFINE c == calls[q]
           d == [c EXCEPT ![i].state = state]
<1>1. c \in Seq(Calls) /\ calls' = [calls EXCEPT ![q] = d]
  BY DEF Invariant, TypeOK
<1>2. \A j \in DOMAIN c : c[j] \in Calls /\ c[j].state # "routing_error"
  BY <1>1 DEF NeverRefused
<1>3. DOMAIN d = DOMAIN c
  OBVIOUS
<1>4. \A j \in DOMAIN d : d[j].state # "routing_error"
  BY <1>2, <1>3 DEF Calls
<1> HIDE DEF d
<1>5. \A p \in Queries : calls'[p] = IF p = q THEN d ELSE calls[p]
  BY <1>1 DEF Invariant, TypeOK
<1>6. QED
  BY <1>4, <1>5 DEF NeverRefused

LEMMA NextNeverRefused == Invariant /\ NeverRefused /\ [Next]_vars => NeverRefused'
<1> SUFFICES ASSUME Invariant, NeverRefused, [Next]_vars PROVE NeverRefused'
  OBVIOUS
<1>1. ASSUME NEW q \in Queries, StartForward(q) PROVE NeverRefused'
  <2> DEFINE c == calls[q]
             r == [node |-> task[q].target, state |-> "connecting"]
  <2>1. c \in Seq(Calls) /\ calls' = [calls EXCEPT ![q] = Append(c, r)]
    BY <1>1 DEF StartForward, Invariant, TypeOK
  <2>2. \A i \in DOMAIN c : c[i].state # "routing_error"
    BY DEF NeverRefused
  <2>3. \A i \in DOMAIN Append(c, r) :
            \/ Append(c, r)[i] = r
            \/ i \in DOMAIN c /\ Append(c, r)[i] = c[i]
    BY <2>1
  <2>4. \A i \in DOMAIN Append(c, r) : Append(c, r)[i].state # "routing_error"
    BY <2>2, <2>3
  <2> HIDE DEF c, r
  <2>5. QED
    BY <2>1, <2>4, NeverRefusedStep
<1>2. ASSUME NEW q \in Queries, SendQuery(q) \/ ForwardFails(q) PROVE NeverRefused'
  <2>1. /\ \/ UNCHANGED calls
           \/ calls' = [calls EXCEPT ![q][Current(q)].state = "sent"]
           \/ calls' = [calls EXCEPT ![q][Current(q)].state = "lost"]
        /\ task[q].pc \in {"connect", "reply"}
    BY <1>2 DEF SendQuery, ForwardFails
  <2>2. Current(q) \in DOMAIN calls[q]
    BY <2>1 DEF Current, Invariant, TypeOK, QueriesConsistent, ForwardInvariant
  <2>3. CASE UNCHANGED calls
    BY <2>3 DEF NeverRefused
  <2>4. QED
    BY <2>1, <2>2, <2>3, ForwardMovedOn
<1>3. ASSUME NEW q \in Queries, Peer(q) PROVE NeverRefused'
  <2>1. PICK i \in DOMAIN calls[q] : PeerReceives(q, i) \/ PeerAnswers(q, i) \/ PeerLost(q, i)
    BY <1>3 DEF Peer
  <2>2. calls[q][i].node # Self
    BY DEF Invariant, QueriesConsistent, ForwardInvariant
  <2>3. PICK state : state # "routing_error" /\ calls' = [calls EXCEPT ![q][i].state = state]
    BY <2>1, <2>2 DEF PeerReceives, PeerAnswers, PeerLost, SetCall
  <2>4. QED
    BY <2>3, ForwardMovedOn
<1>4. CASE UNCHANGED calls
  BY <1>4 DEF NeverRefused
<1>5. ASSUME NEW q \in Queries, Submit(q) \/ SubmitClassified(q) \/ Route(q) \/ RecommendationsReturn(q)
      PROVE  UNCHANGED calls
  BY <1>5 DEF Submit, SubmitClassified, Route, PingReturns, RouteInTime, Classified, ClassifierRaises, LookupReturns,
     LookupRaises, ProfileServed, ProfileMissing, ProvidersVisited, BeginDirect, PingSucceeds,
     PingFails, DirectEvaluated, RecommendationsReturn, ConsiderKnown, FetchRecommended,
     FetchServed, FetchMissing, FetchRaises, SourcesAsked, RecommendationsDone,
     RecommendedEvaluated
<1>6. ASSUME NEW q \in Queries, Execute(q) PROVE NeverRefused'
  <2>1. CASE ExecuteLocally(q) \/ GenerationSucceeds(q) \/ GenerationRaises(q) \/ ReplyArrives(q)
    BY <1>4, <2>1 DEF ExecuteLocally, GenerationSucceeds, GenerationRaises, ReplyArrives
  <2>2. QED
    BY <1>1, <1>2, <1>6, <2>1 DEF Execute, ExecuteInTime
<1>7. QED
  BY <1>3, <1>4, <1>5, <1>6 DEF Next, Refresh, Age, AllAnswered, vars

-----------------------------------------------------------------------------
(* The refinement.                                                          *)

LEMMA InitContract == Init => Contract!Init
<1> SUFFICES ASSUME Init PROVE Contract!Init
  OBVIOUS
<1>1. \A q \in Queries : calls[q] = <<>> /\ task[q].pc = "idle"
  BY DEF Init, IdleTask
<1>2. \A q \in Queries : [i \in DOMAIN calls[q] |-> calls[q][i].node] = <<>>
  BY <1>1
<1>3. /\ askedView = [q \in Queries |-> <<>>]
      /\ outcomeView = [q \in Queries |-> "pending"]
      /\ authorView = [q \in Queries |-> NoNode]
  BY <1>1, <1>2 DEF askedView, outcomeView, authorView
<1>4. QED
  BY <1>3 DEF Contract!Init, askedView, outcomeView, authorView

LEMMA NextContract ==
    Invariant /\ NeverRefused /\ [Next]_vars => [Contract!Next]_(Contract!contractVars)
<1> SUFFICES ASSUME Invariant, NeverRefused, [Next]_vars
             PROVE  Contract!Next \/ UNCHANGED Contract!contractVars
  OBVIOUS
<1>1. TypeOK
  BY DEF Invariant
<1>2. ASSUME NEW q \in Queries, Searches(q) PROVE UNCHANGED Contract!contractVars
  BY <1>1, <1>2, SearchUnseen
<1>3. ASSUME NEW q \in Queries, Route(q)
      PROVE  Contract!Next \/ UNCHANGED Contract!contractVars
  <2>1. CASE Searches(q)
    BY <1>2, <2>1
  <2>2. CASE ClassifierRaises(q) \/ LookupRaises(q) \/ FetchRaises(q)
    BY <2>2, RoutingRaises DEF Contract!Next
  <2>3. CASE RecommendedEvaluated(q)
    BY <2>3, SearchEnds DEF Contract!Next
  <2>4. QED
    BY <1>3, <2>1, <2>2, <2>3 DEF Route, PingReturns, RouteInTime, Searches
<1>4. ASSUME NEW q \in Queries, Execute(q)
      PROVE  Contract!Next \/ UNCHANGED Contract!contractVars
  <2>1. CASE ExecuteLocally(q)
    BY <1>2, <2>1 DEF Searches
  <2>2. CASE GenerationSucceeds(q) \/ GenerationRaises(q)
    BY <2>2, GenerationEnds DEF Contract!Next
  <2>3. CASE StartForward(q)
    BY <2>3, StartForwardContract DEF Contract!Next
  <2>4. CASE SendQuery(q)
    BY <2>4, SendQueryContract
  <2>5. CASE ForwardFails(q)
    BY <2>5, ForwardFailsContract DEF Contract!Next
  <2>6. CASE ReplyArrives(q)
    BY <2>6, ReplyEnds DEF Contract!Next
  <2>7. QED
    BY <1>4, <2>1, <2>2, <2>3, <2>4, <2>5, <2>6 DEF Execute, ExecuteInTime
<1>5. ASSUME NEW q \in Queries, Submit(q) \/ SubmitClassified(q) \/ RecommendationsReturn(q)
      PROVE  UNCHANGED Contract!contractVars
  BY <1>2, <1>5 DEF Searches
<1>6. CASE UNCHANGED <<task, calls>>
  BY <1>6 DEF Contract!contractVars
<1>7. QED
  BY <1>3, <1>4, <1>5, <1>6, PeerContract DEF Next, Refresh, Age, AllAnswered, vars

\* answer_query keeps its promise: it asks other nodes, never the node itself,
\* no node twice and two at most; it ends once, with the answer or error of the
\* last node asked, its own, or none; and nobody is asked after that.
THEOREM ContractIsKept == Spec => KeepsContract
<1>1. Init => NeverRefused
  BY DEF Init, NeverRefused
<1>2. Spec => [](Invariant /\ NeverRefused)
  <2>1. Invariant /\ NeverRefused /\ [Next]_vars => Invariant' /\ NeverRefused'
    BY NextInvariant, NextNeverRefused
  <2>2. QED
    BY <1>1, <2>1, InitInvariant, PTL DEF Spec
<1>3. QED
  BY <1>2, InitContract, NextContract, PTL DEF Spec, KeepsContract, Contract!Spec
-----------------------------------------------------------------------------
(* Every step of a query brings it nearer to its end.                       *)

FiniteNetwork == IsFiniteSet(Nodes) /\ IsFiniteSet(Caps)

\* It is inside a forward.
Forwarding(t) == t.pc \in {"connect", "reply"}

LEMMA NumbersLeft ==
    ASSUME NEW t, NEW c
    PROVE  /\ DOMAIN Left(t, c) = 1 .. 7
           /\ Left(t, c)[1] = MAX_FORWARD_ATTEMPTS - IF Forwarding(t) THEN Len(c) - 1 ELSE Len(c)
           /\ Left(t, c)[2] = SearchesLeft(t)
           /\ Left(t, c)[3] = StagesLeft(t)
           /\ Left(t, c)[4] = Cardinality(t.caps)
           /\ Left(t, c)[5] = Cardinality(t.todo)
           /\ Left(t, c)[6] = Cardinality(t.ids)
           /\ Left(t, c)[7] = IF t.pc \in {"profiles", "fetch"} THEN 1 ELSE 0
BY DEF Left, Forwarding

\* What is left after an element is visited.
LEMMA OneLess ==
    ASSUME NEW S, IsFiniteSet(S), NEW x \in S
    PROVE  Cardinality(S \ {x}) < Cardinality(S)
<1>1. Cardinality(S) \in Nat
  BY FS_CardinalityType
<1>2. Cardinality(S \ {x}) = Cardinality(S) - 1
  BY FS_RemoveElement
<1>3. QED
  BY <1>1, <1>2

\* The sets of a frame are finite.
LEMMA FiniteFrame ==
    ASSUME FiniteNetwork, NEW t \in Tasks
    PROVE  IsFiniteSet(t.caps) /\ IsFiniteSet(t.todo) /\ IsFiniteSet(t.ids)
BY FS_Subset DEF FiniteNetwork, Tasks

\* An attempt ends.
LEMMA AttemptEnds ==
    ASSUME NEW t, NEW u, NEW c \in Seq(Calls), NEW d,
           Forwarding(t), ~Forwarding(u), Len(d) = Len(c)
    PROVE  LowerThan(Left(u, d), Left(t, c))
<1>1. Len(c) \in Nat /\ Len(d) \in Nat
  OBVIOUS
<1>2. Left(u, d)[1] < Left(t, c)[1]
  BY <1>1, NumbersLeft DEF MAX_FORWARD_ATTEMPTS
<1>3. 1 \in DOMAIN Left(t, c) /\ 1 .. 1 - 1 = {}
  BY NumbersLeft
<1> HIDE DEF Left
<1>4. QED
  BY <1>2, <1>3 DEF LowerThan

\* A search begins: the first one, or the one for the general capability.
LEMMA SearchBegins ==
    ASSUME NEW t, NEW u, NEW c, ~Forwarding(t), ~Forwarding(u),
           SearchesLeft(u) < SearchesLeft(t)
    PROVE  LowerThan(Left(u, c), Left(t, c))
<1>1. Left(u, c)[1] = Left(t, c)[1] /\ Left(u, c)[2] < Left(t, c)[2]
  BY NumbersLeft
<1>2. 2 \in DOMAIN Left(t, c) /\ 1 .. 2 - 1 = {1}
  BY NumbersLeft
<1>3. QED
  BY <1>1, <1>2 DEF LowerThan

\* A stage ends.
LEMMA StageEnds ==
    ASSUME NEW t, NEW u, NEW c, NEW d, Left(u, d)[1] = Left(t, c)[1],
           SearchesLeft(u) = SearchesLeft(t), StagesLeft(u) < StagesLeft(t)
    PROVE  LowerThan(Left(u, d), Left(t, c))
<1>1. Left(u, d)[2] = Left(t, c)[2] /\ Left(u, d)[3] < Left(t, c)[3]
  BY NumbersLeft
<1>2. 3 \in DOMAIN Left(t, c) /\ 1 .. 3 - 1 = {1, 2}
  BY NumbersLeft
<1>3. QED
  BY <1>1, <1>2 DEF LowerThan

\* u is at the same stage of the same search as t.
SameStage(u, t) ==
    /\ ~Forwarding(t) /\ ~Forwarding(u)
    /\ SearchesLeft(u) = SearchesLeft(t)
    /\ StagesLeft(u) = StagesLeft(t)

\* A capability is done with.
LEMMA CapabilityEnds ==
    ASSUME NEW t, NEW u, NEW c, SameStage(u, t),
           IsFiniteSet(t.caps), NEW x \in t.caps, u.caps = t.caps \ {x}
    PROVE  LowerThan(Left(u, c), Left(t, c))
<1>1. /\ \A j \in {1, 2, 3} : Left(u, c)[j] = Left(t, c)[j]
      /\ Left(u, c)[4] < Left(t, c)[4]
  BY NumbersLeft, OneLess DEF SameStage
<1>2. 4 \in DOMAIN Left(t, c) /\ 1 .. 4 - 1 = {1, 2, 3}
  BY NumbersLeft
<1>3. QED
  BY <1>1, <1>2 DEF LowerThan

\* A peer is done with.
LEMMA PeerEnds ==
    ASSUME NEW t, NEW u, NEW c, SameStage(u, t), u.caps = t.caps,
           IsFiniteSet(t.todo), NEW x \in t.todo, u.todo = t.todo \ {x}
    PROVE  LowerThan(Left(u, c), Left(t, c))
<1>1. /\ \A j \in {1, 2, 3, 4} : Left(u, c)[j] = Left(t, c)[j]
      /\ Left(u, c)[5] < Left(t, c)[5]
  BY NumbersLeft, OneLess DEF SameStage
<1>2. 5 \in DOMAIN Left(t, c) /\ 1 .. 5 - 1 = {1, 2, 3, 4}
  BY NumbersLeft
<1>3. QED
  BY <1>1, <1>2 DEF LowerThan

\* A recommended id is done with.
LEMMA IdEnds ==
    ASSUME NEW t, NEW u, NEW c, SameStage(u, t), u.caps = t.caps, u.todo = t.todo,
           IsFiniteSet(t.ids), NEW x \in t.ids, u.ids = t.ids \ {x}
    PROVE  LowerThan(Left(u, c), Left(t, c))
<1>1. /\ \A j \in {1, 2, 3, 4, 5} : Left(u, c)[j] = Left(t, c)[j]
      /\ Left(u, c)[6] < Left(t, c)[6]
  BY NumbersLeft, OneLess DEF SameStage
<1>2. 6 \in DOMAIN Left(t, c) /\ 1 .. 6 - 1 = {1, 2, 3, 4, 5}
  BY NumbersLeft
<1>3. QED
  BY <1>1, <1>2 DEF LowerThan

\* A profile has been fetched, or the profiles of a capability.
LEMMA FetchIsOver ==
    ASSUME NEW t, NEW u, NEW c, SameStage(u, t),
           u.caps = t.caps, u.todo = t.todo, u.ids = t.ids,
           Left(u, c)[7] = 0, Left(t, c)[7] = 1
    PROVE  LowerThan(Left(u, c), Left(t, c))
<1>1. \A j \in {1, 2, 3} : Left(u, c)[j] = Left(t, c)[j]
  BY NumbersLeft DEF SameStage
<1>2. \A j \in {4, 5, 6} : Left(u, c)[j] = Left(t, c)[j]
  BY NumbersLeft
<1>3. 7 \in DOMAIN Left(t, c)
  BY NumbersLeft
<1>4. \A j \in 1 .. 7 - 1 : Left(u, c)[j] = Left(t, c)[j]
  BY <1>1, <1>2
<1>5. QED
  BY <1>3, <1>4 DEF LowerThan

-----------------------------------------------------------------------------
(* The steps, one by one.                                                   *)

\* A step that moves the frame of q to u.
LEMMA FrameAdvances ==
    ASSUME Invariant, NEW q \in Queries, NEW u, Become(q, u), UNCHANGED calls,
           LowerThan(Left(u, calls[q]), Left(task[q], calls[q]))
    PROVE  Advances(q)
BY DEF Advances, Become, Invariant, TypeOK

\* The same, to another search.
LEMMA SearchAdvances ==
    ASSUME Invariant, NEW q \in Queries, NEW u, Become(q, u), UNCHANGED calls,
           ~Forwarding(task[q]), ~Forwarding(u), SearchesLeft(u) < SearchesLeft(task[q])
    PROVE  Advances(q)
BY SearchBegins, FrameAdvances

\* The same, to another stage of the search.
LEMMA StageAdvances ==
    ASSUME Invariant, NEW q \in Queries, NEW u, Become(q, u), UNCHANGED calls,
           ~Forwarding(task[q]), ~Forwarding(u),
           SearchesLeft(u) = SearchesLeft(task[q]), StagesLeft(u) < StagesLeft(task[q])
    PROVE  Advances(q)
<1>1. Left(u, calls[q])[1] = Left(task[q], calls[q])[1]
  BY NumbersLeft
<1>2. QED
  BY <1>1, StageEnds, FrameAdvances

\* A query that is answered or raises has no stage left.
LEMMA FinalAdvances ==
    ASSUME Invariant, NEW q \in Queries, NEW u, Become(q, u), UNCHANGED calls,
           ~Final(task[q]), Final(u), u.general = task[q].general
    PROVE  Advances(q)
<1>1. task[q] \in Tasks /\ ~Forwarding(u) /\ u.pc \notin {"idle", "classify"}
  BY DEF Invariant, TypeOK, Final, Forwarding
<1>2. CASE Forwarding(task[q])
  <2>1. calls[q] \in Seq(Calls)
    BY DEF Invariant, TypeOK
  <2>2. QED
    BY <1>1, <1>2, <2>1, AttemptEnds, FrameAdvances
<1>3. CASE task[q].pc \in {"idle", "classify"}
  <2>1. SearchesLeft(u) < SearchesLeft(task[q]) /\ ~Forwarding(task[q])
    BY <1>1, <1>3 DEF SearchesLeft, Forwarding
  <2>2. QED
    BY <1>1, <2>1, SearchAdvances
<1>4. CASE ~Forwarding(task[q]) /\ task[q].pc \notin {"idle", "classify"}
  <2>1. StagesLeft(u) = 0
    BY DEF Final, StagesLeft
  <2>2. StagesLeft(task[q]) \in 1 .. 7
    BY <1>1, <1>4 DEF Final, Forwarding, StagesLeft, Tasks, PCs
  <2>3. SearchesLeft(u) = SearchesLeft(task[q])
    BY <1>1, <1>4 DEF SearchesLeft
  <2>4. QED
    BY <1>1, <1>4, <2>1, <2>2, <2>3, StageAdvances
<1>5. QED
  BY <1>2, <1>3, <1>4

LEMMA RaisesAdvances ==
    ASSUME Invariant, NEW q \in Queries, NEW u \in Tasks, u.general = task[q].general,
           Become(q, Raises(q, u)), UNCHANGED calls, ~Final(task[q])
    PROVE  Advances(q)
<1>1. Final(Raises(q, u)) /\ Raises(q, u).general = u.general
  BY DEF Raises, Returns, Final, Tasks
<1>2. QED
  BY <1>1, FinalAdvances

LEMMA NewSearchFrame ==
    ASSUME NEW excluded, NEW mix, NEW general
    PROVE  BeginSearch(excluded, mix, general).pc = "lookup"
BY DEF BeginSearch, IdleTask

LEMMA ArrivalAdvances ==
    ASSUME Invariant, NEW q \in Queries, Submit(q) \/ SubmitClassified(q) \/ Classified(q)
    PROVE  Advances(q)
<1> DEFINE t == task[q]
<1>1. t \in Tasks /\ UNCHANGED calls
  BY DEF Invariant, TypeOK, Submit, SubmitClassified, Classified
<1>2. CASE Submit(q)
  <2>1. PICK excluded : Become(q, [t EXCEPT !.pc = "classify", !.excluded = excluded])
    BY <1>2 DEF Submit
  <2>2. t.pc = "idle"
    BY <1>2 DEF Submit
  <2> DEFINE u == [t EXCEPT !.pc = "classify", !.excluded = excluded]
  <2>3. u.pc = "classify"
    BY <1>1 DEF Tasks
  <2> HIDE DEF t, u
  <2>4. /\ ~Forwarding(t) /\ ~Forwarding(u) /\ SearchesLeft(u) = SearchesLeft(t)
        /\ StagesLeft(u) < StagesLeft(t)
    BY <2>2, <2>3 DEF Forwarding, SearchesLeft, StagesLeft
  <2>5. QED
    BY <1>1, <2>1, <2>4, StageAdvances DEF t, u
<1>3. CASE SubmitClassified(q) \/ Classified(q)
  <2>1. PICK excluded, mix : Become(q, BeginSearch(excluded, mix, FALSE))
    BY <1>3 DEF SubmitClassified, Classified
  <2>2. t.pc \in {"idle", "classify"}
    BY <1>3 DEF SubmitClassified, Classified
  <2> DEFINE u == BeginSearch(excluded, mix, FALSE)
  <2>3. BeginSearch(excluded, mix, FALSE).pc = "lookup"
    BY NewSearchFrame
  <2> HIDE DEF t, u
  <2>4. ~Forwarding(t) /\ ~Forwarding(u) /\ SearchesLeft(u) < SearchesLeft(t)
    <3>1. ~Forwarding(t) /\ SearchesLeft(t) = 2
      BY <2>2 DEF Forwarding, SearchesLeft
    <3>2. u.pc = "lookup"
      BY <2>3 DEF u
    <3>3. ~Forwarding(u) /\ SearchesLeft(u) \in {0, 1}
      BY <3>2 DEF Forwarding, SearchesLeft
    <3>4. QED
      BY <3>1, <3>3
  <2>5. QED
    BY <1>1, <2>1, <2>4, SearchAdvances DEF t, u
<1>4. QED
  BY <1>2, <1>3

\* Frames of the loops of one stage.
LEMMA StaysInStage ==
    ASSUME NEW t, NEW u, u.general = t.general,
           \/ t.pc \in {"lookup", "profiles"} /\ u.pc \in {"lookup", "profiles"}
           \/ t.pc \in {"ask", "fetch"} /\ u.pc \in {"ask", "fetch"}
           \/ t.pc \in {"direct", "recommended"} /\ u.pc = t.pc
    PROVE  SameStage(u, t)
BY DEF SameStage, Forwarding, SearchesLeft, StagesLeft

\* One turn of a loop over peers.
LEMMA PeerAdvances ==
    ASSUME Invariant, FiniteNetwork, NEW q \in Queries, NEW u, Become(q, u), UNCHANGED calls,
           SameStage(u, task[q]), u.caps = task[q].caps,
           NEW x \in task[q].todo, u.todo = task[q].todo \ {x}
    PROVE  Advances(q)
<1>1. IsFiniteSet(task[q].todo)
  BY FiniteFrame DEF Invariant, TypeOK
<1>2. QED
  BY <1>1, PeerEnds, FrameAdvances

\* One turn of a loop over capabilities.
LEMMA CapabilityAdvances ==
    ASSUME Invariant, FiniteNetwork, NEW q \in Queries, NEW u, Become(q, u), UNCHANGED calls,
           SameStage(u, task[q]), NEW x \in task[q].caps, u.caps = task[q].caps \ {x}
    PROVE  Advances(q)
<1>1. IsFiniteSet(task[q].caps)
  BY FiniteFrame DEF Invariant, TypeOK
<1>2. QED
  BY <1>1, CapabilityEnds, FrameAdvances

\* One turn of the loop over recommended ids.
LEMMA IdAdvances ==
    ASSUME Invariant, FiniteNetwork, NEW q \in Queries, NEW u, Become(q, u), UNCHANGED calls,
           SameStage(u, task[q]), u.caps = task[q].caps, u.todo = task[q].todo,
           NEW x \in task[q].ids, u.ids = task[q].ids \ {x}
    PROVE  Advances(q)
<1>1. IsFiniteSet(task[q].ids)
  BY FiniteFrame DEF Invariant, TypeOK
<1>2. QED
  BY <1>1, IdEnds, FrameAdvances

LEMMA LookupAdvances ==
    ASSUME Invariant, FiniteNetwork, NEW q \in Queries,
           LookupReturns(q) \/ LookupRaises(q) \/ ProfileServed(q) \/ ProfileMissing(q)
           \/ ProvidersVisited(q)
    PROVE  Advances(q)
<1> DEFINE t == task[q]
<1>1. t \in Tasks
  BY DEF Invariant, TypeOK
<1>2. CASE LookupReturns(q)
  <2>1. PICK x, todo :
            /\ x \in t.caps
            /\ Become(q, [t EXCEPT !.pc = "profiles", !.caps = t.caps \ {x}, !.todo = todo])
    BY <1>2 DEF LookupReturns
  <2> DEFINE u == [t EXCEPT !.pc = "profiles", !.caps = t.caps \ {x}, !.todo = todo]
  <2>2. t.pc = "lookup" /\ UNCHANGED calls
    BY <1>2 DEF LookupReturns
  <2>3. u.pc = "profiles" /\ u.caps = t.caps \ {x} /\ u.general = t.general
    BY <1>1 DEF Tasks
  <2> HIDE DEF u
  <2>4. SameStage(u, t)
    BY <2>2, <2>3, StaysInStage
  <2>5. QED
    BY <2>1, <2>2, <2>3, <2>4, CapabilityAdvances DEF u
<1>3. CASE LookupRaises(q)
  <2>1. /\ Become(q, Raises(q, t)) /\ UNCHANGED calls /\ ~Final(t)
    BY <1>3 DEF LookupRaises, Final
  <2>2. QED
    BY <1>1, <2>1, RaisesAdvances
<1>4. CASE ProfileServed(q) \/ ProfileMissing(q)
  <2>1. PICK x \in t.todo : Become(q, [t EXCEPT !.todo = t.todo \ {x}])
    BY <1>4 DEF ProfileServed, ProfileMissing
  <2> DEFINE u == [t EXCEPT !.todo = t.todo \ {x}]
  <2>2. t.pc = "profiles" /\ UNCHANGED calls
    BY <1>4 DEF ProfileServed, ProfileMissing
  <2>3. u.pc = "profiles" /\ u.caps = t.caps /\ u.general = t.general /\ u.todo = t.todo \ {x}
    BY <1>1, <2>2 DEF Tasks
  <2> HIDE DEF u
  <2>4. SameStage(u, t)
    BY <2>2, <2>3, StaysInStage
  <2>5. QED
    BY <2>1, <2>2, <2>3, <2>4, PeerAdvances DEF u
<1>5. CASE ProvidersVisited(q)
  <2> DEFINE u == [t EXCEPT !.pc = "lookup"]
  <2>1. t.pc = "profiles" /\ UNCHANGED calls /\ Become(q, u)
    BY <1>5 DEF ProvidersVisited
  <2>2. /\ u.pc = "lookup" /\ u.general = t.general
        /\ u.caps = t.caps /\ u.todo = t.todo /\ u.ids = t.ids
    BY <1>1 DEF Tasks
  <2> HIDE DEF t, u
  <2>3. SameStage(u, t)
    BY <2>1, <2>2, StaysInStage
  <2>4. Left(u, calls[q])[7] = 0 /\ Left(t, calls[q])[7] = 1
    BY <2>1, <2>2, NumbersLeft
  <2>5. LowerThan(Left(u, calls[q]), Left(t, calls[q]))
    BY <2>2, <2>3, <2>4, FetchIsOver
  <2>6. QED
    BY <2>1, <2>5, FrameAdvances DEF t
<1>6. QED
  BY <1>2, <1>3, <1>4, <1>5

LEMMA PingAdvances ==
    ASSUME Invariant, FiniteNetwork, NEW q \in Queries, PingSucceeds(q) \/ PingFails(q)
    PROVE  Advances(q)
<1> DEFINE t == task[q]
<1>1. t \in Tasks /\ t.pc \in {"direct", "recommended"} /\ UNCHANGED calls
  BY DEF Invariant, TypeOK, PingSucceeds, PingFails
<1>2. CASE PingSucceeds(q)
  <2>1. PICK x \in t.todo :
            Become(q, [t EXCEPT !.todo = t.todo \ {x}, !.score[x] = RemoteScore(t, x, registry')])
    BY <1>2 DEF PingSucceeds
  <2> DEFINE score == [t.score EXCEPT ![x] = RemoteScore(t, x, registry')]
             u == [t EXCEPT !.todo = t.todo \ {x}, !.score = score]
  <2>2. Become(q, u)
    BY <2>1
  <2> HIDE DEF score
  <2>3. u.pc = t.pc /\ u.caps = t.caps /\ u.general = t.general /\ u.todo = t.todo \ {x}
    BY <1>1 DEF Tasks
  <2> HIDE DEF u
  <2>4. SameStage(u, t)
    BY <1>1, <2>3, StaysInStage
  <2>5. QED
    BY <1>1, <2>2, <2>3, <2>4, PeerAdvances
<1>3. CASE PingFails(q)
  <2>1. PICK x \in t.todo : Become(q, [t EXCEPT !.todo = t.todo \ {x}])
    BY <1>3 DEF PingFails
  <2> DEFINE u == [t EXCEPT !.todo = t.todo \ {x}]
  <2>2. u.pc = t.pc /\ u.caps = t.caps /\ u.general = t.general /\ u.todo = t.todo \ {x}
    BY <1>1 DEF Tasks
  <2> HIDE DEF u
  <2>3. SameStage(u, t)
    BY <1>1, <2>2, StaysInStage
  <2>4. QED
    BY <1>1, <2>1, <2>2, <2>3, PeerAdvances DEF u
<1>4. QED
  BY <1>2, <1>3

\* The loop that asks for recommendations begins, or moves on.
LEMMA AskOnFields ==
    ASSUME NEW t \in Tasks, NEW caps
    PROVE  LET u == AskOn(t, caps) IN
           u.pc = "ask" /\ u.caps = caps /\ u.general = t.general
<1> DEFINE first == CHOOSE k \in caps : IsFirstOf(k, caps, SearchMix(t))
<1>1. CASE caps = {}
  BY <1>1 DEF AskOn, Tasks
<1>2. CASE caps # {}
  <2>1. AskOn(t, caps) =
            [t EXCEPT !.pc = "ask", !.caps = caps, !.todo = CapableSources(t, first)]
    BY <1>2 DEF AskOn
  <2> HIDE DEF first
  <2>2. QED
    BY <2>1 DEF Tasks
<1>3. QED
  BY <1>1, <1>2

LEMMA SelectAdvances ==
    ASSUME Invariant, NEW q \in Queries, task[q].pc \in {"direct", "recommended"},
           NEW pool, Select(q, task[q], pool), UNCHANGED calls
    PROVE  Advances(q)
<1> DEFINE t == task[q]
<1>1. t \in Tasks /\ t.pc \in {"direct", "recommended"}
  BY DEF Invariant, TypeOK
<1>2. PICK n : Become(q, [t EXCEPT !.pc = "decided", !.target = n])
  BY DEF Select
<1> DEFINE u == [t EXCEPT !.pc = "decided", !.target = n]
<1>3. u.pc = "decided" /\ u.general = t.general
  BY <1>1 DEF Tasks
<1> HIDE DEF t, u
<1>4. /\ ~Forwarding(t) /\ ~Forwarding(u) /\ SearchesLeft(u) = SearchesLeft(t)
      /\ StagesLeft(u) = 3 /\ StagesLeft(t) \in {6, 4}
  BY <1>1, <1>3 DEF Forwarding, SearchesLeft, StagesLeft
<1>5. QED
  BY <1>2, <1>4, StageAdvances DEF t, u

LEMMA DirectAdvances ==
    ASSUME Invariant, NEW q \in Queries, BeginDirect(q) \/ DirectEvaluated(q)
    PROVE  Advances(q)
<1> DEFINE t == task[q]
<1>1. t \in Tasks /\ UNCHANGED calls
  BY DEF Invariant, TypeOK, BeginDirect, DirectEvaluated
<1>2. CASE BeginDirect(q)
  <2>1. PICK all, score :
            Become(q, [t EXCEPT !.pc = "direct", !.direct = all, !.todo = all, !.score = score])
    BY <1>2 DEF BeginDirect
  <2> DEFINE u == [t EXCEPT !.pc = "direct", !.direct = all, !.todo = all, !.score = score]
  <2>2. t.pc = "lookup" /\ u.pc = "direct" /\ u.general = t.general
    BY <1>1, <1>2 DEF BeginDirect, Tasks
  <2> HIDE DEF t, u
  <2>3. /\ ~Forwarding(t) /\ ~Forwarding(u) /\ SearchesLeft(u) = SearchesLeft(t)
        /\ StagesLeft(u) = 6 /\ StagesLeft(t) = 7
    BY <2>2 DEF Forwarding, SearchesLeft, StagesLeft
  <2>4. QED
    BY <1>1, <2>1, <2>3, StageAdvances DEF t, u
<1>3. CASE DirectEvaluated(q)
  <2>1. t.pc = "direct"
    BY <1>3 DEF DirectEvaluated
  <2>2. CASE Select(q, t, Evaluated(t))
    BY <1>1, <2>1, <2>2, SelectAdvances
  <2>3. CASE Become(q, AskOn(t, CapsOf(SearchMix(t))))
    <3> DEFINE u == AskOn(t, CapsOf(SearchMix(t)))
    <3>1. u.pc = "ask" /\ u.general = t.general
      BY <1>1, AskOnFields
    <3> HIDE DEF t, u
    <3>2. /\ ~Forwarding(t) /\ ~Forwarding(u) /\ SearchesLeft(u) = SearchesLeft(t)
          /\ StagesLeft(u) = 5 /\ StagesLeft(t) = 6
      BY <2>1, <3>1 DEF Forwarding, SearchesLeft, StagesLeft
    <3>3. QED
      BY <1>1, <2>3, <3>2, StageAdvances DEF t, u
  <2>4. QED
    BY <1>3, <2>2, <2>3 DEF DirectEvaluated
<1>4. QED
  BY <1>2, <1>3

LEMMA AskAdvances ==
    ASSUME Invariant, FiniteNetwork, NEW q \in Queries,
           RecommendationsReturn(q) \/ SourcesAsked(q) \/ RecommendationsDone(q)
    PROVE  Advances(q)
<1> DEFINE t == task[q]
<1>1. t \in Tasks /\ t.pc = "ask" /\ UNCHANGED calls
  BY DEF Invariant, TypeOK, RecommendationsReturn, SourcesAsked, RecommendationsDone
<1>2. CASE RecommendationsReturn(q)
  <2>1. PICK x, ids :
            x \in t.todo /\ Become(q, [t EXCEPT !.todo = t.todo \ {x}, !.ids = ids])
    BY <1>2 DEF RecommendationsReturn
  <2> DEFINE u == [t EXCEPT !.todo = t.todo \ {x}, !.ids = ids]
  <2>2. u.pc = "ask" /\ u.caps = t.caps /\ u.general = t.general /\ u.todo = t.todo \ {x}
    BY <1>1 DEF Tasks
  <2> HIDE DEF u
  <2>3. SameStage(u, t)
    BY <1>1, <2>2, StaysInStage
  <2>4. QED
    BY <1>1, <2>1, <2>2, <2>3, PeerAdvances DEF u
<1>3. CASE SourcesAsked(q)
  <2>1. PICK x \in t.caps : Become(q, AskOn(t, t.caps \ {x}))
    BY <1>3 DEF SourcesAsked
  <2> DEFINE u == AskOn(t, t.caps \ {x})
  <2>2. u.pc = "ask" /\ u.caps = t.caps \ {x} /\ u.general = t.general
    BY <1>1, AskOnFields
  <2> HIDE DEF u
  <2>3. SameStage(u, t)
    BY <1>1, <2>2, StaysInStage
  <2>4. QED
    BY <1>1, <2>1, <2>2, <2>3, CapabilityAdvances DEF u
<1>4. CASE RecommendationsDone(q)
  <2> DEFINE u == [t EXCEPT !.pc = "recommended", !.todo = t.recommended]
  <2>1. Become(q, u)
    BY <1>4 DEF RecommendationsDone
  <2>2. u.pc = "recommended" /\ u.general = t.general
    BY <1>1 DEF Tasks
  <2> HIDE DEF t, u
  <2>3. /\ ~Forwarding(t) /\ ~Forwarding(u) /\ SearchesLeft(u) = SearchesLeft(t)
        /\ StagesLeft(u) = 4 /\ StagesLeft(t) = 5
    BY <1>1, <2>2 DEF Forwarding, SearchesLeft, StagesLeft
  <2>4. QED
    BY <1>1, <2>1, <2>3, StageAdvances DEF t, u
<1>5. QED
  BY <1>2, <1>3, <1>4

LEMMA RecommendedFields ==
    ASSUME NEW t \in Tasks, NEW n, NEW reg
    PROVE  LET u == Recommended(t, n, reg) IN
           /\ u.pc = t.pc /\ u.general = t.general
           /\ u.caps = t.caps /\ u.todo = t.todo /\ u.ids = t.ids
BY DEF Recommended, Tasks

LEMMA IdConsidered ==
    ASSUME Invariant, FiniteNetwork, NEW q \in Queries, ConsiderKnown(q) \/ FetchRecommended(q)
    PROVE  Advances(q)
<1> DEFINE t == task[q]
<1>1. t \in Tasks /\ t.pc = "ask" /\ UNCHANGED calls
  BY DEF Invariant, TypeOK, ConsiderKnown, FetchRecommended
<1>2. PICK x, u :
          /\ x \in t.ids
          /\ Become(q, u)
          /\ u.pc \in {"ask", "fetch"} /\ u.general = t.general
          /\ u.caps = t.caps /\ u.todo = t.todo /\ u.ids = t.ids \ {x}
  <2>1. CASE ConsiderKnown(q)
    <3>1. PICK x \in t.ids :
              \/ Become(q, [t EXCEPT !.ids = t.ids \ {x}])
              \/ Become(q, Recommended([t EXCEPT !.ids = t.ids \ {x}], x, registry))
      BY <2>1 DEF ConsiderKnown
    <3> DEFINE rest == [t EXCEPT !.ids = t.ids \ {x}]
    <3>2. /\ rest \in Tasks /\ rest.pc = "ask" /\ rest.general = t.general
          /\ rest.caps = t.caps /\ rest.todo = t.todo /\ rest.ids = t.ids \ {x}
      BY <1>1 DEF Tasks
    <3> HIDE DEF rest
    <3>3. LET u == Recommended(rest, x, registry) IN
          /\ u.pc = "ask" /\ u.general = t.general
          /\ u.caps = t.caps /\ u.todo = t.todo /\ u.ids = t.ids \ {x}
      BY <3>2, RecommendedFields
    <3>4. CASE Become(q, rest)
      BY <3>2, <3>4
    <3>5. CASE Become(q, Recommended(rest, x, registry))
      BY <3>3, <3>5
    <3>6. QED
      BY <3>1, <3>4, <3>5 DEF rest
  <2>2. CASE FetchRecommended(q)
    <3>1. PICK x \in t.ids :
              Become(q, [t EXCEPT !.pc = "fetch", !.ids = t.ids \ {x}, !.target = x])
      BY <2>2 DEF FetchRecommended
    <3> DEFINE u == [t EXCEPT !.pc = "fetch", !.ids = t.ids \ {x}, !.target = x]
    <3>2. /\ u.pc = "fetch" /\ u.general = t.general
          /\ u.caps = t.caps /\ u.todo = t.todo /\ u.ids = t.ids \ {x}
      BY <1>1 DEF Tasks
    <3> HIDE DEF u
    <3>3. Become(q, u)
      BY <3>1 DEF u
    <3>4. QED
      BY <3>2, <3>3
  <2>3. QED
    BY <2>1, <2>2
<1>3. SameStage(u, t)
  BY <1>1, <1>2, StaysInStage
<1>4. QED
  BY <1>1, <1>2, <1>3, IdAdvances

LEMMA FetchAdvances ==
    ASSUME Invariant, NEW q \in Queries, FetchServed(q) \/ FetchMissing(q)
    PROVE  Advances(q)
<1> DEFINE t == task[q]
           asking == [t EXCEPT !.pc = "ask", !.target = NoNode]
<1>1. t \in Tasks /\ t.pc = "fetch" /\ UNCHANGED calls
  BY DEF Invariant, TypeOK, FetchServed, FetchMissing
<1>2. /\ asking \in Tasks /\ asking.pc = "ask" /\ asking.general = t.general
      /\ asking.caps = t.caps /\ asking.todo = t.todo /\ asking.ids = t.ids
  BY <1>1 DEF Tasks, PCs
<1>3. \/ Become(q, asking)
      \/ Become(q, Recommended(asking, t.target, registry'))
  BY DEF FetchServed, FetchMissing
<1> HIDE DEF asking, t
<1>4. LET u == Recommended(asking, t.target, registry') IN
      /\ u.pc = "ask" /\ u.general = t.general
      /\ u.caps = t.caps /\ u.todo = t.todo /\ u.ids = t.ids
  BY <1>2, RecommendedFields
<1>5. ASSUME NEW u, Become(q, u), u.pc = "ask", u.general = t.general,
             u.caps = t.caps, u.todo = t.todo, u.ids = t.ids
      PROVE  Advances(q)
  <2>1. SameStage(u, t)
    BY <1>1, <1>5, StaysInStage
  <2>2. Left(u, calls[q])[7] = 0 /\ Left(t, calls[q])[7] = 1
    BY <1>1, <1>5, NumbersLeft
  <2>3. LowerThan(Left(u, calls[q]), Left(t, calls[q]))
    BY <1>5, <2>1, <2>2, FetchIsOver
  <2>4. QED
    BY <1>1, <1>5, <2>3, FrameAdvances DEF t
<1>6. CASE Become(q, asking)
  BY <1>2, <1>5, <1>6
<1>7. CASE Become(q, Recommended(asking, t.target, registry'))
  <2> DEFINE u == Recommended(asking, t.target, registry')
  <2> HIDE DEF u
  <2>1. /\ Become(q, u) /\ u.pc = "ask" /\ u.general = t.general
        /\ u.caps = t.caps /\ u.todo = t.todo /\ u.ids = t.ids
    BY <1>4, <1>7 DEF u
  <2>2. QED
    BY <1>5, <2>1
<1>8. QED
  BY <1>3, <1>6, <1>7

LEMMA FetchRaisesAdvances ==
    ASSUME Invariant, NEW q \in Queries, FetchRaises(q)
    PROVE  Advances(q)
<1> DEFINE u == [task[q] EXCEPT !.target = NoNode]
<1>1. task[q] \in Tasks
  BY DEF Invariant, TypeOK
<1>2. u \in Tasks /\ u.general = task[q].general
  BY <1>1 DEF Tasks
<1>3. Become(q, Raises(q, u)) /\ UNCHANGED calls /\ ~Final(task[q])
  BY DEF FetchRaises, Final
<1> HIDE DEF u
<1>4. QED
  BY <1>2, <1>3, RaisesAdvances

LEMMA RecommendedAdvances ==
    ASSUME Invariant, NEW q \in Queries, RecommendedEvaluated(q)
    PROVE  Advances(q)
<1> DEFINE t == task[q]
<1>1. t \in Tasks /\ t.pc = "recommended" /\ UNCHANGED calls
  BY DEF Invariant, TypeOK, RecommendedEvaluated
<1>2. CASE \E pool : Select(q, t, pool)
  BY <1>1, <1>2, SelectAdvances
<1>3. CASE NoCandidate(q, t)
  <2>1. CASE Become(q, Returns(t, "no_suitable_node"))
    <3>1. Final(Returns(t, "no_suitable_node")) /\ Returns(t, "no_suitable_node").general = t.general
      BY <1>1, ReturnsFields DEF Final
    <3>2. ~Final(t)
      BY <1>1 DEF Final
    <3>3. QED
      BY <1>1, <2>1, <3>1, <3>2, FinalAdvances
  <2>2. CASE ~t.general /\ Become(q, BeginSearch(t.excluded, t.mix, TRUE))
    <3> DEFINE u == BeginSearch(t.excluded, t.mix, TRUE)
    <3>1. Become(q, u)
      BY <2>2
    <3>2. u.pc = "lookup" /\ u.general
      BY DEF BeginSearch, IdleTask
    <3> HIDE DEF t, u
    <3>3. /\ ~Forwarding(t) /\ ~Forwarding(u)
          /\ SearchesLeft(u) = 0 /\ SearchesLeft(t) = 1
      BY <1>1, <2>2, <3>2 DEF Forwarding, SearchesLeft
    <3>4. SearchesLeft(u) < SearchesLeft(t)
      BY <3>3
    <3>5. QED
      BY <1>1, <3>1, <3>3, <3>4, SearchAdvances DEF t
  <2>3. QED
    BY <1>3, <2>1, <2>2 DEF NoCandidate
<1>4. QED
  BY <1>2, <1>3 DEF RecommendedEvaluated

LEMMA ExecuteAdvances ==
    ASSUME Invariant, NEW q \in Queries, Execute(q)
    PROVE  Advances(q)
<1> DEFINE t == task[q]
<1>1. t \in Tasks /\ calls[q] \in Seq(Calls)
  BY DEF Invariant, TypeOK
<1>2. CASE ExecuteLocally(q)
  <2> DEFINE u == [t EXCEPT !.pc = "generate"]
  <2>1. t.pc = "decided" /\ Become(q, u) /\ UNCHANGED calls
    BY <1>2 DEF ExecuteLocally
  <2>2. u.pc = "generate" /\ u.general = t.general
    BY <1>1 DEF Tasks
  <2> HIDE DEF t, u
  <2>3. /\ ~Forwarding(t) /\ ~Forwarding(u) /\ SearchesLeft(u) = SearchesLeft(t)
        /\ StagesLeft(u) = 2 /\ StagesLeft(t) = 3
    BY <2>1, <2>2 DEF Forwarding, SearchesLeft, StagesLeft
  <2>4. QED
    BY <2>1, <2>3, StageAdvances DEF t
<1>3. CASE GenerationSucceeds(q) \/ GenerationRaises(q) \/ ReplyArrives(q)
  <2>1. UNCHANGED calls /\ ~Final(t)
    BY <1>3 DEF GenerationSucceeds, GenerationRaises, ReplyArrives, Final
  <2>2. \/ \E status : Become(q, Returns(t, status))
        \/ Become(q, [t EXCEPT !.pc = "escaped"])
    BY <1>3 DEF GenerationSucceeds, GenerationRaises, ReplyArrives
  <2>3. \A status : Final(Returns(t, status)) /\ Returns(t, status).general = t.general
    BY <1>1, ReturnsFields DEF Final
  <2>4. Final([t EXCEPT !.pc = "escaped"]) /\ [t EXCEPT !.pc = "escaped"].general = t.general
    BY <1>1 DEF Final, Tasks
  <2>5. QED
    BY <2>1, <2>2, <2>3, <2>4, FinalAdvances
<1>4. CASE StartForward(q)
  <2> DEFINE u == [t EXCEPT !.pc = "connect"]
             d == Append(calls[q], [node |-> t.target, state |-> "connecting"])
  <2>1. t.pc = "decided" /\ Become(q, u) /\ calls' = [calls EXCEPT ![q] = d]
    BY <1>4 DEF StartForward
  <2>2. u.pc = "connect" /\ u.general = t.general
    BY <1>1 DEF Tasks
  <2>3. Len(d) = Len(calls[q]) + 1 /\ Len(calls[q]) \in Nat
    BY <1>1
  <2>4. task'[q] = u /\ calls'[q] = d
    BY <2>1 DEF Become, Invariant, TypeOK
  <2> HIDE DEF t, u, d
  <2>5. /\ ~Forwarding(t) /\ Forwarding(u) /\ SearchesLeft(u) = SearchesLeft(t)
        /\ StagesLeft(u) = 2 /\ StagesLeft(t) = 3
    BY <2>1, <2>2 DEF Forwarding, SearchesLeft, StagesLeft
  <2>6. Left(u, d)[1] = Left(t, calls[q])[1]
    BY <2>3, <2>5, NumbersLeft
  <2>7. LowerThan(Left(u, d), Left(t, calls[q]))
    BY <2>5, <2>6, StageEnds
  <2>8. QED
    BY <2>4, <2>7 DEF Advances, t
<1>5. CASE SendQuery(q)
  <2> DEFINE u == [t EXCEPT !.pc = "reply"]
             d == [calls[q] EXCEPT ![Current(q)].state = "sent"]
  <2>1. t.pc = "connect" /\ Become(q, u) /\ calls' = [calls EXCEPT ![q] = d]
    BY <1>5 DEF SendQuery
  <2>2. u.pc = "reply" /\ u.general = t.general
    BY <1>1 DEF Tasks
  <2>3. Len(d) = Len(calls[q])
    BY <1>1
  <2>4. task'[q] = u /\ calls'[q] = d
    BY <2>1 DEF Become, Invariant, TypeOK
  <2> HIDE DEF t, u, d
  <2>5. /\ Forwarding(t) /\ Forwarding(u) /\ SearchesLeft(u) = SearchesLeft(t)
        /\ StagesLeft(u) = 1 /\ StagesLeft(t) = 2
    BY <2>1, <2>2 DEF Forwarding, SearchesLeft, StagesLeft
  <2>6. Left(u, d)[1] = Left(t, calls[q])[1]
    BY <2>3, <2>5, NumbersLeft
  <2>7. LowerThan(Left(u, d), Left(t, calls[q]))
    BY <2>5, <2>6, StageEnds
  <2>8. QED
    BY <2>4, <2>7 DEF Advances, t
<1>6. CASE ForwardFails(q)
  <2> DEFINE lost == [calls[q] EXCEPT ![Current(q)].state = "lost"]
  <2>1. Forwarding(t)
    BY <1>6 DEF ForwardFails, Forwarding
  <2>2. PICK d \in {calls[q], lost} : calls'[q] = d
    BY <1>6 DEF ForwardFails, Invariant, TypeOK
  <2>3. Len(d) = Len(calls[q])
    BY <1>1, <2>2
  <2>4. \E u : Become(q, u) /\ u.pc \in {"done", "lookup"}
    <3> DEFINE failed == [t EXCEPT !.excluded = t.excluded \cup {t.target}]
    <3>1. failed \in Tasks
      BY <1>1, <1>6, QueryHasInvariant DEF QueryOK, PhaseInvariant, ForwardFails, Tasks
    <3>2. \/ Become(q, Returns(failed, "no_suitable_node"))
          \/ Become(q, BeginSearch(failed.excluded, t.mix, FALSE))
      BY <1>6 DEF ForwardFails
    <3> HIDE DEF failed
    <3>3. Returns(failed, "no_suitable_node").pc = "done"
      BY <3>1, ReturnsFields
    <3>4. BeginSearch(failed.excluded, t.mix, FALSE).pc = "lookup"
      BY NewSearchFrame
    <3>5. QED
      BY <3>2, <3>3, <3>4
  <2>5. PICK u : Become(q, u) /\ u.pc \in {"done", "lookup"}
    BY <2>4
  <2>6. task'[q] = u /\ ~Forwarding(u)
    BY <2>5 DEF Become, Invariant, TypeOK, Forwarding
  <2>7. LowerThan(Left(u, d), Left(t, calls[q]))
    BY <1>1, <2>1, <2>3, <2>6, AttemptEnds
  <2>8. QED
    BY <2>2, <2>6, <2>7 DEF Advances
<1>7. QED
  BY <1>2, <1>3, <1>4, <1>5, <1>6 DEF Execute, ExecuteInTime

LEMMA RouteAdvances ==
    ASSUME Invariant, FiniteNetwork, NEW q \in Queries, Route(q) \/ RecommendationsReturn(q)
    PROVE  Advances(q)
<1>1. CASE ClassifierRaises(q)
  <2> DEFINE t == task[q]
  <2>1. t \in Tasks /\ t.pc = "classify" /\ UNCHANGED calls
    BY <1>1 DEF Invariant, TypeOK, ClassifierRaises
  <2>2. Become(q, Returns(t, "routing_error"))
    BY <1>1 DEF ClassifierRaises
  <2>3. /\ ~Final(t) /\ Final(Returns(t, "routing_error"))
        /\ Returns(t, "routing_error").general = t.general
    BY <2>1, ReturnsFields DEF Final
  <2>4. QED
    BY <2>1, <2>2, <2>3, FinalAdvances
<1>2. QED
  BY <1>1, ArrivalAdvances, LookupAdvances, PingAdvances, DirectAdvances, AskAdvances,
     IdConsidered, FetchAdvances, FetchRaisesAdvances, RecommendedAdvances DEF Route, PingReturns, RouteInTime

\* Every step of a query leaves it with less before it: the loops of
\* answer_query and of the router, one inside the other, use something up at
\* each turn, in every network of finitely many nodes and capabilities.
THEOREM QueriesGoOn == ASSUME FiniteNetwork PROVE Spec => QueriesAdvance
<1>1. ASSUME Invariant, NEW q \in Queries, StepOf(q)
      PROVE  Advances(q)
  BY <1>1, ArrivalAdvances, RouteAdvances, ExecuteAdvances DEF StepOf
<1>2. Invariant => [\A q \in Queries : StepOf(q) => Advances(q)]_vars
  BY <1>1
<1>3. QED
  BY <1>2, InvariantHolds, PTL DEF QueriesAdvance

-----------------------------------------------------------------------------
(* Seven numbers, compared the first first, cannot be lowered forever.      *)

LEMMA LeastNatural ==
    ASSUME NEW T \in SUBSET Nat, T # {}
    PROVE  \E n \in T : \A m \in T : n <= m
<1> DEFINE R == OpToRel(<, Nat)
<1>1. IsWellFoundedOn(R, Nat)
  BY NatLessThanWellFounded
<1>2. PICK n \in T : \A m \in T : <<m, n>> \notin R
  BY <1>1, WFMin
<1>3. \A m \in T : ~(m < n)
  BY <1>2 DEF OpToRel
<1>4. QED
  BY <1>3

Measures == [1 .. 7 -> Nat]

\* Those of T whose i-th number is the least.
Lowest(T, i) == {x \in T : \A y \in T : x[i] <= y[i]}

LEMMA SomeAreLowest ==
    ASSUME NEW T \in SUBSET Measures, T # {}, NEW i \in 1 .. 7
    PROVE  /\ Lowest(T, i) \in SUBSET T
           /\ Lowest(T, i) # {}
<1> DEFINE N == {x[i] : x \in T}
<1>1. N \in SUBSET Nat /\ N # {}
  BY DEF Measures
<1>2. PICK n \in N : \A m \in N : n <= m
  BY <1>1, LeastNatural
<1>3. PICK x \in T : x[i] = n
  BY <1>2
<1>4. x \in Lowest(T, i)
  BY <1>2, <1>3 DEF Lowest
<1>5. QED
  BY <1>4 DEF Lowest

LEMMA NotBelowLowest ==
    ASSUME NEW T \in SUBSET Measures, NEW i \in 1 .. 7, NEW x \in Lowest(T, i), NEW y \in T
    PROVE  /\ ~(y[i] < x[i])
           /\ y[i] = x[i] => y \in Lowest(T, i)
<1>1. x[i] \in Nat /\ y[i] \in Nat /\ x[i] <= y[i]
  BY DEF Lowest, Measures
<1>2. QED
  BY <1>1 DEF Lowest

\* Numbers cannot be lowered forever.
THEOREM MeasuresEnd ==
    ASSUME NEW T \in SUBSET Measures, T # {}
    PROVE  \E x \in T : \A y \in T : ~LowerThan(y, x)
<1> DEFINE T1 == Lowest(T, 1)
           T2 == Lowest(T1, 2)
           T3 == Lowest(T2, 3)
           T4 == Lowest(T3, 4)
           T5 == Lowest(T4, 5)
           T6 == Lowest(T5, 6)
           T7 == Lowest(T6, 7)
<1>1. T1 \in SUBSET T /\ T1 # {}
  BY SomeAreLowest
<1> HIDE DEF T1
<1>2. T2 \in SUBSET T1 /\ T2 # {}
  BY <1>1, SomeAreLowest
<1> HIDE DEF T2
<1>3. T3 \in SUBSET T2 /\ T3 # {}
  BY <1>1, <1>2, SomeAreLowest
<1> HIDE DEF T3
<1>4. T4 \in SUBSET T3 /\ T4 # {}
  BY <1>1, <1>2, <1>3, SomeAreLowest
<1> HIDE DEF T4
<1>5. T5 \in SUBSET T4 /\ T5 # {}
  BY <1>1, <1>2, <1>3, <1>4, SomeAreLowest
<1> HIDE DEF T5
<1>6. T6 \in SUBSET T5 /\ T6 # {}
  BY <1>1, <1>2, <1>3, <1>4, <1>5, SomeAreLowest
<1> HIDE DEF T6
<1>7. T7 \in SUBSET T6 /\ T7 # {}
  BY <1>1, <1>2, <1>3, <1>4, <1>5, <1>6, SomeAreLowest
<1> HIDE DEF T7
<1>8. PICK x \in T7 : TRUE
  BY <1>7
<1>9. ASSUME NEW y \in T, LowerThan(y, x)
      PROVE  FALSE
  <2>1. /\ x \in T /\ x \in T1 /\ x \in T2 /\ x \in T3
        /\ x \in T4 /\ x \in T5 /\ x \in T6
    BY <1>1, <1>2, <1>3, <1>4, <1>5, <1>6, <1>7, <1>8
  <2>2. PICK i \in 1 .. 7 : y[i] < x[i] /\ \A j \in 1 .. i - 1 : y[j] = x[j]
    BY <1>9, <2>1 DEF LowerThan, Measures
  <2>3. /\ ~(y[1] < x[1])
        /\ y[1] = x[1] => y \in T1
    BY <1>9, <2>1, NotBelowLowest DEF T1
  <2>4. y \in T1 => /\ ~(y[2] < x[2])
                    /\ y[2] = x[2] => y \in T2
    BY <1>1, <2>1, <1>8, NotBelowLowest DEF T2
  <2>5. y \in T2 => /\ ~(y[3] < x[3])
                    /\ y[3] = x[3] => y \in T3
    BY <1>1, <1>2, <2>1, <1>8, NotBelowLowest DEF T3
  <2>6. y \in T3 => /\ ~(y[4] < x[4])
                    /\ y[4] = x[4] => y \in T4
    BY <1>1, <1>2, <1>3, <2>1, <1>8, NotBelowLowest DEF T4
  <2>7. y \in T4 => /\ ~(y[5] < x[5])
                    /\ y[5] = x[5] => y \in T5
    BY <1>1, <1>2, <1>3, <1>4, <2>1, <1>8, NotBelowLowest DEF T5
  <2>8. y \in T5 => /\ ~(y[6] < x[6])
                    /\ y[6] = x[6] => y \in T6
    BY <1>1, <1>2, <1>3, <1>4, <1>5, <2>1, <1>8, NotBelowLowest DEF T6
  <2>9. y \in T6 => /\ ~(y[7] < x[7])
                    /\ y[7] = x[7] => y \in T7
    BY <1>1, <1>2, <1>3, <1>4, <1>5, <1>6, <2>1, <1>8, NotBelowLowest DEF T7
  <2>10. QED
    BY <2>2, <2>3, <2>4, <2>5, <2>6, <2>7, <2>8, <2>9
<1>10. QED
  BY <1>1, <1>2, <1>3, <1>4, <1>5, <1>6, <1>7, <1>8, <1>9

LEMMA LeftIsMeasure ==
    ASSUME Invariant, FiniteNetwork, NEW q \in Queries
    PROVE  Left(task[q], calls[q]) \in Measures
<1> DEFINE t == task[q]
           c == calls[q]
           m == Left(t, c)
<1>1. t \in Tasks /\ Len(c) \in Nat /\ Len(c) <= MAX_FORWARD_ATTEMPTS
  BY DEF Invariant, TypeOK
<1>2. /\ Cardinality(t.caps) \in Nat /\ Cardinality(t.todo) \in Nat
      /\ Cardinality(t.ids) \in Nat
  BY <1>1, FiniteFrame, FS_CardinalityType
<1> HIDE DEF t, c
<1>3. m[1] \in Nat
  BY <1>1, NumbersLeft DEF MAX_FORWARD_ATTEMPTS
<1>4. m[2] \in Nat /\ m[3] \in Nat
  BY NumbersLeft DEF SearchesLeft, StagesLeft
<1>5. m[4] \in Nat /\ m[5] \in Nat /\ m[6] \in Nat /\ m[7] \in Nat
  BY <1>2, NumbersLeft
<1>6. m = [i \in 1 .. 7 |-> m[i]]
  BY DEF Left
<1> HIDE DEF m
<1>7. \A i \in 1 .. 7 : m[i] \in Nat
  BY <1>3, <1>4, <1>5
<1>8. QED
  BY <1>6, <1>7 DEF Measures, m, t, c

\* What a query has before it is always seven numbers, and no sequence of such
\* numbers is lowered forever: with QueriesGoOn, a query takes finitely many
\* steps, whatever the network answers.
THEOREM QueriesTakeFinitelyManySteps ==
    ASSUME FiniteNetwork
    PROVE  /\ Spec => [](\A q \in Queries : Left(task[q], calls[q]) \in Measures)
           /\ IsWellFoundedOn({p \in Measures \X Measures : LowerThan(p[1], p[2])}, Measures)
<1>1. Invariant => \A q \in Queries : Left(task[q], calls[q]) \in Measures
  BY LeftIsMeasure
<1>2. Spec => [](\A q \in Queries : Left(task[q], calls[q]) \in Measures)
  BY <1>1, InvariantHolds, PTL
<1> DEFINE Lower == {p \in Measures \X Measures : LowerThan(p[1], p[2])}
<1>3. ASSUME NEW T \in SUBSET Measures, T # {}
      PROVE  \E x \in T : \A y \in T : <<y, x>> \notin Lower
  BY <1>3, MeasuresEnd
<1> HIDE DEF Lower
<1>4. IsWellFoundedOn(Lower, Measures)
  BY <1>3, MinWF
<1>5. QED
  BY <1>2, <1>4 DEF Lower
=============================================================================

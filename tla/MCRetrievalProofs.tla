-------------------------- MODULE MCRetrievalProofs --------------------------
(***************************************************************************)
(* Proofs about RagContext, HybridSearch and LlmContext.                   *)
(***************************************************************************)
EXTENDS MCRetrieval, FiniteSetTheorems, TLAPS

-----------------------------------------------------------------------------
(* Members in an order, and the first of them.                               *)

Ordered(before, set) ==
    /\ \A m, n \in set : m # n => <<m, n>> \in before \/ <<n, m>> \in before
    /\ \A m, n \in set : ~(<<m, n>> \in before /\ <<n, m>> \in before)
    /\ \A k, m, n \in set : <<k, m>> \in before /\ <<m, n>> \in before => <<k, n>> \in before

\* What comes earlier has an earlier place, and places do not go beyond the number of members.
LEMMA PlacesInOrder ==
    ASSUME NEW before, NEW set, IsFiniteSet(set), Ordered(before, set)
    PROVE  /\ Cardinality(set) \in Nat
           /\ \A m \in set : Place(before, m, set) \in 1 .. Cardinality(set)
           /\ \A m, n \in set : <<m, n>> \in before => Place(before, m, set) < Place(before, n, set)
<1> DEFINE Earlier(m) == {n \in set : <<n, m>> \in before}
<1>1. ASSUME NEW m \in set
      PROVE  /\ IsFiniteSet(Earlier(m)) /\ Cardinality(Earlier(m)) \in Nat
             /\ Cardinality(Earlier(m) \cup {m}) = Cardinality(Earlier(m)) + 1
             /\ Earlier(m) \cup {m} \in SUBSET set
    <2>1. IsFiniteSet(Earlier(m)) /\ m \notin Earlier(m)
        BY FS_Subset DEF Ordered
    <2> HIDE DEF Earlier
    <2>2. /\ Cardinality(Earlier(m)) \in Nat
          /\ Cardinality(Earlier(m) \cup {m}) = Cardinality(Earlier(m)) + 1
        BY <2>1, FS_CardinalityType, FS_AddElement
    <2> QED BY <2>1, <2>2 DEF Earlier
<1>2. Cardinality(set) \in Nat
    BY FS_CardinalityType
<1>3. ASSUME NEW m \in set PROVE Place(before, m, set) = Cardinality(Earlier(m)) + 1
    BY DEF Place
<1>4. ASSUME NEW m \in set PROVE Place(before, m, set) \in 1 .. Cardinality(set)
    <2>1. Cardinality(Earlier(m) \cup {m}) <= Cardinality(set)
        BY <1>1, FS_Subset
    <2> HIDE DEF Earlier
    <2> QED BY <1>1, <1>2, <1>3, <2>1
<1>5. ASSUME NEW m \in set, NEW n \in set, <<m, n>> \in before
      PROVE  Place(before, m, set) < Place(before, n, set)
    <2>1. Earlier(m) \cup {m} \in SUBSET Earlier(n)
        BY <1>5 DEF Ordered
    <2> HIDE DEF Earlier
    <2>2. Cardinality(Earlier(m) \cup {m}) <= Cardinality(Earlier(n))
        BY <1>1, <2>1, FS_Subset
    <2>3. /\ Cardinality(Earlier(m)) \in Nat /\ Cardinality(Earlier(n)) \in Nat
          /\ Cardinality(Earlier(m) \cup {m}) = Cardinality(Earlier(m)) + 1
        BY <1>1
    <2>4. /\ Place(before, m, set) = Cardinality(Earlier(m)) + 1
          /\ Place(before, n, set) = Cardinality(Earlier(n)) + 1
        BY <1>3
    <2> QED BY <2>2, <2>3, <2>4
<1> QED BY <1>2, <1>4, <1>5

\* Each place is that of one member.
LEMMA OneForEachPlace ==
    ASSUME NEW before, NEW set, IsFiniteSet(set), Ordered(before, set)
    PROVE  /\ \A m, n \in set : Place(before, m, set) = Place(before, n, set) => m = n
           /\ \A i \in 1 .. Cardinality(set) : \E m \in set : Place(before, m, set) = i
<1> DEFINE top == Cardinality(set)
           f == [m \in set |-> Place(before, m, set)]
<1>1. /\ top \in Nat /\ \A m \in set : Place(before, m, set) \in 1 .. top
      /\ \A m, n \in set : <<m, n>> \in before => Place(before, m, set) < Place(before, n, set)
    BY PlacesInOrder
<1>2. ASSUME NEW m \in set, NEW n \in set, m # n
      PROVE  Place(before, m, set) # Place(before, n, set)
    <2>1. <<m, n>> \in before \/ <<n, m>> \in before
        BY <1>2 DEF Ordered
    <2>2. Place(before, m, set) \in Nat /\ Place(before, n, set) \in Nat
        BY <1>1
    <2>3. \/ Place(before, m, set) < Place(before, n, set)
          \/ Place(before, n, set) < Place(before, m, set)
        BY <1>1, <2>1
    <2> QED BY <2>2, <2>3
<1>3. f \in Injection(set, 1 .. top)
    BY <1>1, <1>2 DEF Injection, IsInjective
<1>4. IsFiniteSet(1 .. top) /\ Cardinality(1 .. top) = top
    BY <1>1, FS_Interval
<1>5. f \in Surjection(set, 1 .. top)
    <2> HIDE DEF f
    <2> QED BY <1>3, <1>4, FS_Injection
<1>6. \A i \in 1 .. top : \E m \in set : f[m] = i
    BY <1>5 DEF Surjection
<1> QED BY <1>2, <1>6

\* InOrder has every member once, the earlier before the later.
LEMMA InOrderGives ==
    ASSUME NEW before, NEW set, IsFiniteSet(set), Ordered(before, set)
    PROVE  /\ InOrder(before, set) \in Seq(set) /\ Len(InOrder(before, set)) = Cardinality(set)
           /\ Cardinality(set) \in Nat
           /\ \A i, j \in 1 .. Cardinality(set) :
                 /\ InOrder(before, set)[i] \in set
                 /\ InOrder(before, set)[i] = InOrder(before, set)[j] => i = j
                 /\ <<InOrder(before, set)[i], InOrder(before, set)[j]>> \in before => i < j
                 /\ i < j => <<InOrder(before, set)[i], InOrder(before, set)[j]>> \in before
           /\ \A m \in set : \E i \in 1 .. Cardinality(set) : InOrder(before, set)[i] = m
<1> DEFINE s == InOrder(before, set)
           top == Cardinality(set)
<1>1. /\ \A m, n \in set : Place(before, m, set) = Place(before, n, set) => m = n
      /\ \A i \in 1 .. top : \E m \in set : Place(before, m, set) = i
    BY OneForEachPlace
<1>2. s = [i \in 1 .. top |-> CHOOSE m \in set : Place(before, m, set) = i]
    BY DEF InOrder
<1>3. ASSUME NEW i \in 1 .. top
      PROVE  s[i] \in set /\ Place(before, s[i], set) = i
    BY <1>1, <1>2
<1>4. /\ top \in Nat
      /\ \A m \in set : Place(before, m, set) \in 1 .. top
      /\ \A m, n \in set : <<m, n>> \in before => Place(before, m, set) < Place(before, n, set)
    BY PlacesInOrder
<1>5. s \in Seq(set) /\ Len(s) = top
    <2> HIDE DEF s
    <2> QED BY <1>2, <1>3, <1>4
<1> HIDE DEF s, top
<1>6. ASSUME NEW i \in 1 .. top, NEW j \in 1 .. top
      PROVE  /\ s[i] \in set
             /\ s[i] = s[j] => i = j
             /\ <<s[i], s[j]>> \in before => i < j
             /\ i < j => <<s[i], s[j]>> \in before
    <2>1. s[i] \in set /\ s[j] \in set /\ Place(before, s[i], set) = i /\ Place(before, s[j], set) = j
        BY <1>3
    <2>2. <<s[i], s[j]>> \in before => i < j
        BY <1>4, <2>1
    <2>3. <<s[j], s[i]>> \in before => j < i
        BY <1>4, <2>1
    <2>4. i < j => <<s[i], s[j]>> \in before
        BY <1>4, <2>1, <2>3 DEF Ordered
    <2> QED BY <2>1, <2>2, <2>4
<1>7. ASSUME NEW m \in set PROVE \E i \in 1 .. top : s[i] = m
    <2>1. Place(before, m, set) \in 1 .. top
        BY <1>4
    <2> QED BY <1>1, <1>3, <2>1
<1> QED BY <1>4, <1>5, <1>6, <1>7 DEF s, top

\* A set that is not empty has an earliest member.
LEMMA OneIsEarliest ==
    ASSUME NEW before, NEW set, IsFiniteSet(set), set # {}, Ordered(before, set)
    PROVE  \E m \in set : \A n \in set \ {m} : <<m, n>> \in before
<1>1. Cardinality(set) \in Nat /\ Cardinality(set) # 0
    BY FS_CardinalityType, FS_EmptySet
<1>2. 1 \in 1 .. Cardinality(set)
    BY <1>1
<1>3. PICK m \in set : Place(before, m, set) = 1
    BY <1>2, OneForEachPlace
<1>4. ASSUME NEW n \in set \ {m} PROVE <<m, n>> \in before
    <2>1. Place(before, n, set) \in 1 .. Cardinality(set)
        BY PlacesInOrder
    <2>2. ~(<<n, m>> \in before)
        BY <1>1, <1>3, <2>1, PlacesInOrder
    <2> QED BY <2>2 DEF Ordered
<1> QED BY <1>4

LEMMA FirstOf ==
    ASSUME NEW S, NEW s \in Seq(S), NEW n \in Nat
    PROVE  /\ First(s, n) \in Seq(S) /\ Len(First(s, n)) \in Nat
           /\ Len(First(s, n)) <= n /\ Len(First(s, n)) <= Len(s)
           /\ Len(First(s, n)) = n \/ Len(First(s, n)) = Len(s)
           /\ \A i \in 1 .. Len(First(s, n)) : First(s, n)[i] = s[i]
BY DEF First

LEMMA LeastNatural ==
    ASSUME NEW set \in SUBSET Nat, set # {}, IsFiniteSet(set)
    PROVE  \E x \in set : \A y \in set : x <= y
<1> DEFINE before == {p \in set \X set : p[1] < p[2]}
<1>1. \A x, y \in set : <<x, y>> \in before <=> x < y
    OBVIOUS
<1>2. Ordered(before, set)
    <2> HIDE DEF before
    <2> QED BY <1>1 DEF Ordered
<1> HIDE DEF before
<1>3. PICK m \in set : \A n \in set \ {m} : <<m, n>> \in before
    BY <1>2, OneIsEarliest
<1>4. ASSUME NEW n \in set PROVE m <= n
    <2>1. m \in Nat /\ n \in Nat
        OBVIOUS
    <2>2. n # m => m < n
        BY <1>1, <1>3
    <2> QED BY <2>1, <2>2
<1> QED BY <1>4

LEMMA LeastOf ==
    ASSUME NEW a \in Nat, NEW b \in Nat
    PROVE  /\ Min({a, b}) \in {a, b} /\ Min({a, b}) <= a /\ Min({a, b}) <= b
BY DEF Min

-----------------------------------------------------------------------------
(* RagEvidence: a rerank takes candidates, each at most once.                *)

\* What a reranker answers about n candidates.
Answered(rankings, n) ==
    \E k \in Nat : rankings \in [1..k -> [index : 0..n, score : {0, 1}]]

LEMMA ReadInOrder ==
    ASSUME NEW n \in Nat, NEW rankings, Answered(rankings, n)
    PROVE  /\ IsFiniteSet(DOMAIN rankings)
           /\ \A a \in DOMAIN rankings : rankings[a].score \in {0, 1} /\ rankings[a].index \in Nat
           /\ \A a, b \in DOMAIN rankings : a # b => ReadBefore(rankings, a, b) \/ ReadBefore(rankings, b, a)
           /\ \A a, b \in DOMAIN rankings : ~(ReadBefore(rankings, a, b) /\ ReadBefore(rankings, b, a))
           /\ \A a, b, c \in DOMAIN rankings :
                 ReadBefore(rankings, a, b) /\ ReadBefore(rankings, b, c) => ReadBefore(rankings, a, c)
<1>1. PICK k \in Nat : rankings \in [1..k -> [index : 0..n, score : {0, 1}]]
    BY DEF Answered
<1>2. DOMAIN rankings = 1..k
    BY <1>1
<1>3. IsFiniteSet(1..k)
    BY FS_Interval
<1>4. \A a \in 1..k : rankings[a].score \in {0, 1} /\ rankings[a].index \in Nat
    BY <1>1
<1>5. ASSUME NEW a \in 1..k, NEW b \in 1..k
      PROVE  /\ a # b => ReadBefore(rankings, a, b) \/ ReadBefore(rankings, b, a)
             /\ ~(ReadBefore(rankings, a, b) /\ ReadBefore(rankings, b, a))
    <2>1. rankings[a].score \in {0, 1} /\ rankings[b].score \in {0, 1}
        BY <1>4
    <2> QED BY <2>1 DEF ReadBefore
<1>6. ASSUME NEW a \in 1..k, NEW b \in 1..k, NEW c \in 1..k,
             ReadBefore(rankings, a, b), ReadBefore(rankings, b, c)
      PROVE  ReadBefore(rankings, a, c)
    <2>1. rankings[a].score \in {0, 1} /\ rankings[b].score \in {0, 1} /\ rankings[c].score \in {0, 1}
        BY <1>4
    <2> QED BY <1>6, <2>1 DEF ReadBefore
<1> QED BY <1>2, <1>3, <1>4, <1>5, <1>6

\* Of the rankings that name a candidate one decides, and it decides about no other candidate.
LEMMA OneDecides ==
    ASSUME NEW n \in Nat, NEW rankings, Answered(rankings, n), NEW i \in Nat, Naming(rankings, i) # {}
    PROVE  Deciding(rankings, i) \in DOMAIN rankings /\ rankings[Deciding(rankings, i)].index + 1 = i
<1> DEFINE named == Naming(rankings, i)
           before == {p \in named \X named : ReadBefore(rankings, p[1], p[2])}
<1>1. named \in SUBSET DOMAIN rankings
    BY DEF Naming
<1>2. IsFiniteSet(named)
    BY <1>1, ReadInOrder, FS_Subset
<1>3. \A a, b \in named : <<a, b>> \in before <=> ReadBefore(rankings, a, b)
    OBVIOUS
<1>4. Ordered(before, named)
    <2> HIDE DEF before, named
    <2>1. \A a, b \in named : a # b => ReadBefore(rankings, a, b) \/ ReadBefore(rankings, b, a)
        BY <1>1, ReadInOrder
    <2>2. \A a, b \in named : ~(ReadBefore(rankings, a, b) /\ ReadBefore(rankings, b, a))
        BY <1>1, ReadInOrder
    <2>3. \A a, b, c \in named :
            ReadBefore(rankings, a, b) /\ ReadBefore(rankings, b, c) => ReadBefore(rankings, a, c)
        BY <1>1, ReadInOrder
    <2> QED BY <1>3, <2>1, <2>2, <2>3 DEF Ordered
<1> HIDE DEF before
<1>5. \E r \in named : \A q \in named \ {r} : <<r, q>> \in before
    BY <1>2, <1>4, OneIsEarliest
<1>6. \E r \in Naming(rankings, i) : \A q \in Naming(rankings, i) \ {r} : ReadBefore(rankings, r, q)
    BY <1>3, <1>5
<1>7. Deciding(rankings, i) \in Naming(rankings, i)
    BY <1>6 DEF Deciding
<1> QED BY <1>7 DEF Naming

LEMMA RankedIsOrdered ==
    ASSUME NEW n \in Nat, NEW candidates, DOMAIN candidates = 1..n, NEW rankings, Answered(rankings, n)
    PROVE  Ordered(RankedBefore(candidates, rankings), 1..n)
<1> DEFINE before == RankedBefore(candidates, rankings)
           Ranked(i) == Naming(rankings, i) # {}
           D(i) == Deciding(rankings, i)
           Reads(a, b) == ReadBefore(rankings, a, b)
<1>1. ASSUME NEW i \in 1..n, NEW j \in 1..n
      PROVE  <<i, j>> \in before <=> IF Ranked(i) THEN Ranked(j) => Reads(D(i), D(j))
                                     ELSE ~Ranked(j) /\ i < j
    BY DEF RankedBefore
<1>2. \A i \in 1..n : Ranked(i) => D(i) \in DOMAIN rankings
    BY OneDecides
<1>3. ASSUME NEW i \in 1..n, NEW j \in 1..n, Ranked(i), Ranked(j), i # j PROVE D(i) # D(j)
    <2>1. rankings[D(i)].index + 1 = i /\ rankings[D(j)].index + 1 = j
        BY <1>3, OneDecides
    <2> QED BY <1>3, <2>1
<1>4. /\ \A a, b \in DOMAIN rankings : a # b => Reads(a, b) \/ Reads(b, a)
      /\ \A a, b \in DOMAIN rankings : ~(Reads(a, b) /\ Reads(b, a))
      /\ \A a, b, c \in DOMAIN rankings : Reads(a, b) /\ Reads(b, c) => Reads(a, c)
    BY ReadInOrder
<1> HIDE DEF before, Ranked, D, Reads
<1>5. ASSUME NEW i \in 1..n, NEW j \in 1..n
      PROVE  /\ i # j => <<i, j>> \in before \/ <<j, i>> \in before
             /\ ~(<<i, j>> \in before /\ <<j, i>> \in before)
    BY <1>1, <1>2, <1>3, <1>4
<1>6. ASSUME NEW i \in 1..n, NEW j \in 1..n, NEW k \in 1..n, <<i, j>> \in before, <<j, k>> \in before
      PROVE  <<i, k>> \in before
    <2>1. CASE Ranked(i) /\ Ranked(k)
        <3>1. Ranked(j)
            BY <1>1, <1>6, <2>1
        <3>2. Reads(D(i), D(j)) /\ Reads(D(j), D(k))
            BY <1>1, <1>6, <2>1, <3>1
        <3>3. D(i) \in DOMAIN rankings /\ D(j) \in DOMAIN rankings /\ D(k) \in DOMAIN rankings
            BY <1>2, <2>1, <3>1
        <3> QED BY <1>1, <1>4, <2>1, <3>2, <3>3
    <2>2. CASE ~Ranked(i) \/ ~Ranked(k)
        BY <1>1, <1>6, <2>2
    <2> QED BY <2>1, <2>2
<1> QED BY <1>5, <1>6 DEF Ordered, before

\* The chunks are candidates, each at most once.
TakenFrom(s, candidates) ==
    \E f \in [1..Len(s) -> 1..Len(candidates)] :
        /\ \A i, j \in 1..Len(s) : f[i] = f[j] => i = j
        /\ \A k \in 1..Len(s) : s[k].source = candidates[f[k]].source /\ s[k].number = candidates[f[k]].number

LEMMA ApplyGives ==
    ASSUME NEW candidates \in Seq(ChunkRow), NEW rankings, Answered(rankings, Len(candidates)), NEW limit \in Nat
    PROVE  /\ ApplyRankings(candidates, rankings, limit) \in Seq(ChunkRow)
           /\ Len(ApplyRankings(candidates, rankings, limit)) = Min({limit, Len(candidates)})
           /\ TakenFrom(ApplyRankings(candidates, rankings, limit), candidates)
<1> DEFINE n == Len(candidates)
           all == InOrder(RankedBefore(candidates, rankings), 1..n)
           order == First(all, limit)
           Score(i) == IF Naming(rankings, i) = {} THEN NoScore ELSE rankings[Deciding(rankings, i)].score
           s == ApplyRankings(candidates, rankings, limit)
<1>1. n \in Nat /\ DOMAIN candidates = 1..n
    OBVIOUS
<1>2. IsFiniteSet(1..n) /\ Cardinality(1..n) = n
    BY <1>1, FS_Interval, SMTT(30)
<1>3. Ordered(RankedBefore(candidates, rankings), 1..n)
    BY <1>1, RankedIsOrdered
<1>4. all \in Seq(1..n) /\ Len(all) = n /\ \A i, j \in 1..n : all[i] = all[j] => i = j
    <2> HIDE DEF n
    <2> QED BY <1>1, <1>2, <1>3, InOrderGives
<1>5. /\ order \in Seq(1..n) /\ Len(order) \in Nat /\ Len(order) <= limit /\ Len(order) <= n
      /\ Len(order) = limit \/ Len(order) = n
      /\ \A i \in 1..Len(order) : order[i] = all[i]
    <2> HIDE DEF all, n
    <2> QED BY <1>4, FirstOf
<1>6. s = [k \in DOMAIN order |-> [candidates[order[k]] EXCEPT !.rerank = Score(order[k])]]
    BY <1>1 DEF ApplyRankings
<1>7. ASSUME NEW i \in 1..n PROVE Score(i) \in {NoScore, 0, 1}
    BY <1>1, <1>7, OneDecides, ReadInOrder
<1> HIDE DEF Score, order, all
<1>8. DOMAIN order = 1..Len(order)
    BY <1>5
<1>9. ASSUME NEW k \in 1..Len(order)
      PROVE  /\ order[k] \in 1..n /\ s[k] \in ChunkRow
             /\ s[k].source = candidates[order[k]].source /\ s[k].number = candidates[order[k]].number
    <2>1. order[k] \in 1..n
        BY <1>5
    <2>2. candidates[order[k]] \in ChunkRow
        BY <2>1
    <2>3. s[k] = [candidates[order[k]] EXCEPT !.rerank = Score(order[k])]
        BY <1>6, <1>8
    <2>4. Score(order[k]) \in {NoScore, 0, 1}
        BY <1>7, <2>1
    <2> QED BY <2>1, <2>2, <2>3, <2>4 DEF ChunkRow
<1>10. s \in Seq(ChunkRow) /\ Len(s) = Len(order)
    <2>1. s = [k \in 1..Len(order) |-> s[k]]
        BY <1>6, <1>8
    <2> HIDE DEF s
    <2> QED BY <1>5, <1>9, <2>1
<1>11. Len(s) = Min({limit, n})
    BY <1>1, <1>5, <1>10, LeastOf
<1>12. TakenFrom(s, candidates)
    <2> DEFINE f == [k \in 1..Len(order) |-> order[k]]
    <2>1. f \in [1..Len(s) -> 1..n]
        BY <1>9, <1>10
    <2>2. \A i, j \in 1..Len(s) : f[i] = f[j] => i = j
        <3>1. ASSUME NEW i \in 1..Len(order), NEW j \in 1..Len(order), order[i] = order[j] PROVE i = j
            <4>1. i \in 1..n /\ j \in 1..n /\ all[i] = all[j]
                BY <1>1, <1>5, <3>1
            <4> QED BY <1>4, <4>1
        <3> QED BY <1>10, <3>1
    <2>3. \A k \in 1..Len(s) : s[k].source = candidates[f[k]].source /\ s[k].number = candidates[f[k]].number
        BY <1>9, <1>10
    <2> HIDE DEF f, s
    <2> QED BY <2>1, <2>2, <2>3 DEF TakenFrom
<1> QED BY <1>10, <1>11, <1>12

LEMMA FirstIsTaken ==
    ASSUME NEW candidates \in Seq(ChunkRow), NEW limit \in Nat
    PROVE  /\ First(candidates, limit) \in Seq(ChunkRow)
           /\ Len(First(candidates, limit)) = Min({limit, Len(candidates)})
           /\ TakenFrom(First(candidates, limit), candidates)
<1> DEFINE s == First(candidates, limit)
           f == [k \in 1..Len(s) |-> k]
<1>1. /\ s \in Seq(ChunkRow) /\ Len(s) \in Nat /\ Len(s) <= limit /\ Len(s) <= Len(candidates)
      /\ Len(s) = limit \/ Len(s) = Len(candidates)
      /\ \A i \in 1..Len(s) : s[i] = candidates[i]
    BY FirstOf
<1> HIDE DEF s
<1>2. f \in [1..Len(s) -> 1..Len(candidates)] /\ \A i, j \in 1..Len(s) : f[i] = f[j] => i = j
    BY <1>1
<1>3. \A k \in 1..Len(s) : s[k].source = candidates[f[k]].source /\ s[k].number = candidates[f[k]].number
    BY <1>1
<1>4. TakenFrom(s, candidates)
    BY <1>2, <1>3 DEF TakenFrom
<1>5. Len(s) = Min({limit, Len(candidates)})
    BY <1>1, LeastOf
<1> QED BY <1>1, <1>4, <1>5 DEF s

\* When the rerank is unavailable a web hit keeps its place or is given the last one.
LEMMA FallbackGives ==
    ASSUME NEW candidates \in Seq(ChunkRow), NEW limit \in Nat \ {0}
    PROVE  /\ FallbackCandidates(candidates, limit) \in Seq(ChunkRow)
           /\ Len(FallbackCandidates(candidates, limit)) = Min({limit, Len(candidates)})
           /\ TakenFrom(FallbackCandidates(candidates, limit), candidates)
           /\ HasWeb(candidates) => HasWeb(FallbackCandidates(candidates, limit))
<1> DEFINE s == First(candidates, limit)
           r == FallbackCandidates(candidates, limit)
           webs == {i \in DOMAIN candidates : IsWeb(candidates[i])}
           w == Min(webs)
<1>1. /\ s \in Seq(ChunkRow) /\ Len(s) \in Nat /\ Len(s) <= limit /\ Len(s) <= Len(candidates)
      /\ Len(s) = limit \/ Len(s) = Len(candidates)
      /\ \A i \in 1..Len(s) : s[i] = candidates[i]
    BY FirstOf
<1>2. Len(s) = Min({limit, Len(candidates)}) /\ TakenFrom(s, candidates)
    BY FirstIsTaken
<1>3. CASE HasWeb(s) \/ ~HasWeb(candidates) \/ s = <<>>
    <2>1. r = s
        BY <1>3 DEF FallbackCandidates
    <2>2. s = <<>> => ~HasWeb(candidates)
        <3>1. s = <<>> => Len(s) = 0
            OBVIOUS
        <3>2. Len(candidates) \in Nat
            OBVIOUS
        <3>3. s = <<>> => Len(candidates) = 0
            BY <1>1, <3>1, <3>2
        <3> QED BY <3>3 DEF HasWeb
    <2> HIDE DEF s, r
    <2> QED BY <1>1, <1>2, <1>3, <2>1, <2>2 DEF r
<1>4. CASE ~HasWeb(s) /\ HasWeb(candidates) /\ s # <<>>
    <2> DEFINE f == [k \in 1..Len(s) |-> IF k = Len(s) THEN w ELSE k]
    <2>1. r = [s EXCEPT ![Len(s)] = candidates[w]]
        BY <1>4 DEF FallbackCandidates
    <2>2. webs # {} /\ webs \in SUBSET Nat /\ IsFiniteSet(webs)
        <3>1. webs \in SUBSET (1..Len(candidates)) /\ webs # {} /\ webs \in SUBSET Nat
            BY <1>4 DEF HasWeb
        <3>2. IsFiniteSet(1..Len(candidates))
            BY FS_Interval
        <3> QED BY <3>1, <3>2, FS_Subset
    <2>3. w \in webs
        <3>1. \E x \in webs : \A y \in webs : x <= y
            BY <2>2, LeastNatural
        <3> QED BY <3>1 DEF Min
    <2> HIDE DEF w
    <2>4. w \in 1..Len(candidates) /\ IsWeb(candidates[w]) /\ candidates[w] \in ChunkRow
        BY <2>3
    <2>5. \A k \in 1..Len(s) : k # w
        BY <1>1, <1>4, <2>4 DEF HasWeb
    <2>6. Len(s) \in 1..Len(s) /\ Len(s) # 0
        BY <1>1, <1>4
    <2> HIDE DEF s, r
    <2>7. r \in Seq(ChunkRow) /\ Len(r) = Len(s)
        BY <1>1, <2>1, <2>4, <2>6
    <2>8. \A k \in 1..Len(s) : r[k] = candidates[f[k]]
        BY <1>1, <2>1, <2>6
    <2>9. f \in [1..Len(r) -> 1..Len(candidates)]
        BY <1>1, <2>4, <2>7
    <2>10. \A i, j \in 1..Len(r) : f[i] = f[j] => i = j
        BY <2>5, <2>7
    <2>11. TakenFrom(r, candidates)
        <3> HIDE DEF f
        <3> QED BY <2>7, <2>8, <2>9, <2>10 DEF TakenFrom
    <2>12. HasWeb(r)
        BY <2>4, <2>6, <2>7, <2>8 DEF HasWeb
    <2> QED BY <1>2, <2>7, <2>11, <2>12 DEF r
<1> QED BY <1>3, <1>4

-----------------------------------------------------------------------------
(* RagContext: the inductive invariant.                                      *)

Steps == {"router-judge", "kb-search", "web-search"} \X {"running", "done"}

RagTypes ==
    /\ pc \in {"judge", "preflight", "kb", "web", "rerank", "decide", "done"}
    /\ req \in Requests /\ plan \in Plan \cup {None} /\ proposed \in Proposal \cup {None}
    /\ kb \in Seq(ChunkRow) /\ web \in Seq(ChunkRow) /\ chunks \in Seq(ChunkRow)
    /\ searched \subseteq {"kb", "web"} /\ fallback \in BOOLEAN
    /\ steps \in Seq(Steps)
    /\ outcome \in Outcomes \cup {None}
    /\ pc = "judge" <=> plan = None
    /\ pc = "done" <=> outcome # None

\* The plan is the default or what became of the model's proposal.
PlanMade ==
    /\ proposed # None =>
          /\ pc # "judge" /\ AsksPlanner(req)
          /\ plan = LET made == PreferWeb(req, Synced(proposed))
                    IN IF Usual(req, made) THEN made ELSE DefaultPlan(req)
    /\ proposed = None /\ pc # "judge" => plan = DefaultPlan(req)

\* What was searched, and what the searches and the rerank left.
SearchesFound ==
    /\ \A i \in 1..Len(kb) : kb[i].source = "kb" /\ kb[i].number = i
    /\ \A i \in 1..Len(web) : web[i].source = "web" /\ web[i].number = i
    /\ pc \in {"judge", "preflight", "kb"} => kb = <<>> /\ searched = {}
    /\ pc \in {"judge", "preflight", "kb", "web"} => web = <<>> /\ "web" \notin searched
    /\ pc \in {"judge", "preflight", "kb", "web", "rerank"} => chunks = <<>> /\ ~fallback
    /\ "kb" \in searched => ~req.preloaded /\ req.kb /\ WantsKb
    /\ "web" \in searched => SearchesWeb(req, plan)
    /\ req.preloaded => web = <<>> /\ (pc \in {"web", "rerank"} => Len(kb) = 1)

\* A refusal of the planner ends the question before anything is searched.
Refused ==
    /\ outcome = "preflight" => PreflightRefuses(req, plan) /\ searched = {} /\ ~fallback
    /\ pc \notin {"judge", "preflight"} /\ outcome # "preflight" => ~PreflightRefuses(req, plan)

\* The chunks after the rerank.
Reranks ==
    pc = "decide" \/ outcome \in {"prompt", "evidence"} =>
        /\ Len(chunks) = Min({IF plan.rerank THEN RerankTopK ELSE TopK, Len(kb \o web)})
        /\ TakenFrom(chunks, kb \o web)
        /\ fallback /\ web # <<>> => HasWeb(chunks)
        /\ req.preloaded => Len(kb) = 1
        /\ outcome = "prompt" /\ "refusal" \in req.flags =>
              ~MustRefuse(req.kb, WantsKb, WantsWeb, chunks, MinHits)

\* The steps the user was told of.
Judged == << <<"router-judge", "running">>, <<"router-judge", "done">> >>
KbRuns == IF WantsKb THEN Tell("kb-search", "running") ELSE <<>>
WebRuns == IF WantsWeb THEN Tell("web-search", "running") ELSE <<>>
WebDone == IF WantsWeb THEN Tell("web-search", "done") ELSE <<>>
KbIsDone == IF WantsKb THEN Tell("kb-search", "done") ELSE <<>>
StepsTold ==
    /\ pc = "judge" => steps = <<>>
    /\ pc = "preflight" \/ outcome = "preflight" => steps = Judged
    /\ pc = "kb" => steps = Judged \o KbRuns
    /\ pc = "web" => steps = Judged \o KbRuns \o WebRuns
    /\ pc = "rerank" => steps = Judged \o KbRuns \o WebRuns \o WebDone
    /\ pc = "decide" \/ outcome \in {"prompt", "evidence"} =>
          steps = Judged \o KbRuns \o WebRuns \o WebDone \o KbIsDone

RagInv == RagTypes /\ PlanMade /\ SearchesFound /\ Refused /\ Reranks /\ StepsTold

LEMMA StepsAreTyped ==
    /\ Judged \in Seq(Steps) /\ KbRuns \in Seq(Steps) /\ WebRuns \in Seq(Steps)
    /\ WebDone \in Seq(Steps) /\ KbIsDone \in Seq(Steps)
<1>1. ASSUME NEW k \in {"router-judge", "kb-search", "web-search"}, NEW s \in {"running", "done"}
      PROVE  <<k, s>> \in Steps
    BY DEF Steps
<1>2. ASSUME NEW k \in {"router-judge", "kb-search", "web-search"}, NEW s \in {"running", "done"}
      PROVE  Tell(k, s) \in Seq(Steps)
    <2>1. <<k, s>> \in Steps
        BY <1>1
    <2> QED BY <2>1 DEF Tell
<1>3. Judged \in Seq(Steps)
    <2>1. <<"router-judge", "running">> \in Steps /\ <<"router-judge", "done">> \in Steps
        BY <1>1
    <2> QED BY <2>1 DEF Judged
<1>4. <<>> \in Seq(Steps)
    OBVIOUS
<1> QED BY <1>2, <1>3, <1>4 DEF KbRuns, WebRuns, WebDone, KbIsDone

LEMMA ToldNothing == ASSUME NEW s \in Seq(Steps) PROVE s \o <<>> = s
OBVIOUS

LEMMA RagInit == ASSUME RagAssumption, Init PROVE RagInv
<1> USE DEF Init, RagAssumption
<1>1. RagTypes
    <2>1. steps \in Seq(Steps) /\ kb \in Seq(ChunkRow) /\ web \in Seq(ChunkRow) /\ chunks \in Seq(ChunkRow)
        OBVIOUS
    <2> QED BY <2>1 DEF RagTypes
<1>2. PlanMade
    BY DEF PlanMade
<1>3. SearchesFound
    BY DEF SearchesFound
<1>4. Refused /\ Reranks
    BY DEF Refused, Reranks, Outcomes
<1>5. StepsTold
    BY DEF StepsTold, Outcomes
<1> QED BY <1>1, <1>2, <1>3, <1>4, <1>5 DEF RagInv

\* Plans are plans, and becoming one changes neither the mode of a proposal nor its refusal.
LEMMA PlansAreTyped ==
    ASSUME RagAssumption, NEW r \in Requests
    PROVE  /\ Mode(r) \in Modes /\ DefaultPlan(r) \in Plan
           /\ \A p \in Proposal :
                 LET made == PreferWeb(r, Synced(p))
                 IN /\ made \in Plan
                    /\ made.mode = p.mode /\ made.refuse = p.refuse /\ made.sure = p.sure
<1>1. r \in Request
    BY DEF RagAssumption
<1>2. Mode(r) \in Modes
    BY <1>1 DEF Request, Mode, Modes
<1>3. DefaultPlan(r) \in Plan
    BY <1>1, <1>2 DEF DefaultPlan, Plan
<1>4. ASSUME NEW p \in Proposal
      PROVE  /\ Synced(p) \in Plan
             /\ Synced(p).mode = p.mode /\ Synced(p).refuse = p.refuse /\ Synced(p).sure = p.sure
    BY DEF Proposal, Plan, Synced, InMode
<1>5. ASSUME NEW p \in Plan
      PROVE  /\ PreferWeb(r, p) \in Plan
             /\ PreferWeb(r, p).mode = p.mode /\ PreferWeb(r, p).refuse = p.refuse /\ PreferWeb(r, p).sure = p.sure
    <2>1. [p EXCEPT !.sources = {"web"}, !.rerank = FALSE] \in Plan
        BY DEF Plan
    <2> QED BY <2>1 DEF PreferWeb, Plan
<1> QED BY <1>2, <1>3, <1>4, <1>5

LEMMA RagJudges == ASSUME RagAssumption, RagInv, Judge PROVE RagInv'
<1> USE DEF RagInv
<1>1. /\ pc = "judge" /\ pc' = "preflight" /\ plan = None /\ proposed = None /\ outcome = None
      /\ UNCHANGED <<req, kb, web, chunks, searched, fallback, outcome>>
      /\ steps = <<>> /\ steps' = steps \o Judged
    BY DEF Judge, Judged, RagTypes, PlanMade, StepsTold
<1>2. /\ req \in Requests /\ kb \in Seq(ChunkRow) /\ web \in Seq(ChunkRow) /\ chunks \in Seq(ChunkRow)
      /\ searched \subseteq {"kb", "web"} /\ fallback \in BOOLEAN
    BY DEF RagTypes
<1>3. /\ plan' \in Plan /\ proposed' \in Proposal \cup {None}
      /\ proposed' # None =>
            /\ AsksPlanner(req)
            /\ plan' = LET made == PreferWeb(req, Synced(proposed'))
                       IN IF Usual(req, made) THEN made ELSE DefaultPlan(req)
      /\ proposed' = None => plan' = DefaultPlan(req)
    <2>1. DefaultPlan(req) \in Plan /\ \A p \in Proposal : PreferWeb(req, Synced(p)) \in Plan
        BY <1>2, PlansAreTyped
    <2>2. CASE plan' = DefaultPlan(req) /\ UNCHANGED proposed
        BY <1>1, <2>1, <2>2
    <2>3. CASE \E p \in Proposals :
                  /\ AsksPlanner(req) /\ proposed' = p
                  /\ LET made == PreferWeb(req, Synced(p))
                     IN plan' = IF Usual(req, made) THEN made ELSE DefaultPlan(req)
        <3>1. PICK p \in Proposals :
                  /\ AsksPlanner(req) /\ proposed' = p
                  /\ LET made == PreferWeb(req, Synced(p))
                     IN plan' = IF Usual(req, made) THEN made ELSE DefaultPlan(req)
            BY <2>3
        <3>2. p \in Proposal /\ p # None
            BY DEF RagAssumption
        <3> QED BY <2>1, <3>1, <3>2
    <2>4. \/ plan' = DefaultPlan(req) /\ UNCHANGED proposed
          \/ \E p \in Proposals :
                  /\ AsksPlanner(req) /\ proposed' = p
                  /\ LET made == PreferWeb(req, Synced(p))
                     IN plan' = IF Usual(req, made) THEN made ELSE DefaultPlan(req)
        BY DEF Judge
    <2> QED BY <2>2, <2>3, <2>4
<1>4. plan' # None
    BY <1>3 DEF RagAssumption
<1>5. RagTypes'
    <2>1. steps' \in Seq(Steps)
        BY <1>1 DEF Judged, Steps
    <2> QED BY <1>1, <1>2, <1>3, <1>4, <2>1 DEF RagTypes
<1>6. PlanMade'
    BY <1>1, <1>3 DEF PlanMade
<1>7. SearchesFound'
    BY <1>1 DEF SearchesFound
<1>8. Refused' /\ Reranks'
    BY <1>1 DEF Refused, Reranks, RagAssumption, Outcomes
<1>9. StepsTold'
    BY <1>1 DEF StepsTold, Judged, RagAssumption, Outcomes
<1> QED BY <1>5, <1>6, <1>7, <1>8, <1>9

LEMMA RagPreflights == ASSUME RagAssumption, RagInv, Preflight PROVE RagInv'
<1> USE DEF RagInv
<1>1. /\ pc = "preflight" /\ plan # None /\ outcome = None /\ steps = Judged
      /\ UNCHANGED <<req, plan, proposed, kb, web, chunks, searched, fallback>>
      /\ WantsKb' = WantsKb /\ WantsWeb' = WantsWeb
    BY DEF Preflight, RagTypes, StepsTold, WantsKb, WantsWeb
<1>2. CASE PreflightRefuses(req, plan)
    <2>1. pc' = "done" /\ outcome' = "preflight" /\ steps' = steps
        BY <1>2 DEF Preflight
    <2>2. RagTypes'
        BY <1>1, <2>1 DEF RagTypes, RagAssumption, Outcomes
    <2>3. PlanMade' /\ SearchesFound'
        BY <1>1, <2>1 DEF PlanMade, SearchesFound
    <2>4. Refused'
        BY <1>1, <1>2, <2>1 DEF Refused, SearchesFound
    <2>5. Reranks' /\ StepsTold'
        BY <1>1, <2>1 DEF Reranks, StepsTold
    <2> QED BY <2>2, <2>3, <2>4, <2>5
<1>3. CASE ~PreflightRefuses(req, plan)
    <2>1. pc' = "kb" /\ outcome' = outcome /\ steps' = IF WantsKb THEN steps \o Tell("kb-search", "running") ELSE steps
        BY <1>3 DEF Preflight
    <2>2. steps' = Judged \o KbRuns
        BY <1>1, <2>1, StepsAreTyped, ToldNothing DEF KbRuns
    <2>3. RagTypes'
        <3>1. steps' \in Seq(Steps)
            BY <2>2, StepsAreTyped
        <3> QED BY <1>1, <2>1, <3>1 DEF RagTypes
    <2>4. PlanMade' /\ SearchesFound'
        BY <1>1, <2>1 DEF PlanMade, SearchesFound
    <2>5. Refused' /\ Reranks'
        BY <1>1, <1>3, <2>1 DEF Refused, Reranks, RagAssumption, Outcomes
    <2>6. StepsTold'
        BY <1>1, <2>1, <2>2 DEF StepsTold, KbRuns, RagAssumption, Outcomes
    <2> QED BY <2>3, <2>4, <2>5, <2>6
<1> QED BY <1>2, <1>3

\* What a search of the knowledge base finds.
LEMMA KbRows ==
    ASSUME RagAssumption, plan \in Plan, NEW found1 \in KbHits
    PROVE  LET row == [i \in DOMAIN found1 |->
                          [source |-> "kb", number |-> i, score |-> found1[i].score, rerank |-> NoScore,
                           retrieval |-> RetrievalMode, both |-> found1[i].both /\ RetrievalMode = "hybrid"]]
           IN row \in Seq(ChunkRow) /\ \A i \in 1..Len(row) : row[i].source = "kb" /\ row[i].number = i
<1> DEFINE row == [i \in DOMAIN found1 |->
                      [source |-> "kb", number |-> i, score |-> found1[i].score, rerank |-> NoScore,
                       retrieval |-> RetrievalMode, both |-> found1[i].both /\ RetrievalMode = "hybrid"]]
           top == Len(found1)
<1>1. found1 \in Seq([score : {0, 1}, both : BOOLEAN])
    BY DEF RagAssumption
<1>2. top \in Nat /\ DOMAIN found1 = 1..top
    BY <1>1
<1>3. RetrievalMode \in {"vector", "fulltext", "hybrid"}
    BY DEF RetrievalMode, Plan
<1>4. ASSUME NEW i \in 1..top PROVE row[i] \in ChunkRow /\ row[i].source = "kb" /\ row[i].number = i
    <2>1. found1[i].score \in {0, 1}
        <3> DEFINE R == [score : {0, 1}, both : BOOLEAN]
        <3>1. \A x \in R : x.score \in {0, 1}
            OBVIOUS
        <3>2. found1 \in Seq(R)
            BY <1>1
        <3> HIDE DEF R
        <3> QED BY <1>2, <3>1, <3>2
    <2>2. (found1[i].both /\ RetrievalMode = "hybrid") \in BOOLEAN
        OBVIOUS
    <2>3. row[i] = [source |-> "kb", number |-> i, score |-> found1[i].score, rerank |-> NoScore,
                    retrieval |-> RetrievalMode, both |-> found1[i].both /\ RetrievalMode = "hybrid"]
        BY <1>2
    <2> HIDE DEF row
    <2> QED BY <1>3, <2>1, <2>2, <2>3 DEF ChunkRow
<1>5. row = [i \in 1..top |-> row[i]]
    BY <1>2
<1> HIDE DEF row, top
<1>6. row \in Seq(ChunkRow) /\ Len(row) = top
    BY <1>2, <1>4, <1>5
<1> QED BY <1>4, <1>6 DEF row

LEMMA RagSearchesKb == ASSUME RagAssumption, RagInv, SearchKb PROVE RagInv'
<1> USE DEF RagInv
<1>1. /\ pc = "kb" /\ pc' = "web" /\ plan \in Plan /\ outcome = None /\ searched = {} /\ kb = <<>>
      /\ steps = Judged \o KbRuns /\ ~PreflightRefuses(req, plan)
      /\ UNCHANGED <<req, plan, proposed, web, chunks, fallback, outcome>>
      /\ WantsKb' = WantsKb /\ WantsWeb' = WantsWeb /\ KbRuns' = KbRuns /\ WebRuns' = WebRuns
    <2>1. /\ pc = "kb" /\ pc' = "web"
          /\ UNCHANGED <<req, plan, proposed, web, chunks, fallback, outcome>>
        BY DEF SearchKb
    <2>2. plan \in Plan /\ outcome = None
        BY <2>1 DEF RagTypes
    <2>3. kb = <<>> /\ searched = {}
        BY <2>1 DEF SearchesFound
    <2>4. steps = Judged \o KbRuns
        BY <2>1 DEF StepsTold
    <2>5. ~PreflightRefuses(req, plan)
        BY <2>1, <2>2 DEF Refused, RagAssumption, Outcomes
    <2>6. WantsKb' = WantsKb /\ WantsWeb' = WantsWeb
        BY <2>1 DEF WantsKb, WantsWeb
    <2>7. KbRuns' = KbRuns /\ WebRuns' = WebRuns
        BY <2>6 DEF KbRuns, WebRuns
    <2> QED BY <2>1, <2>2, <2>3, <2>4, <2>5, <2>6, <2>7
<1>2. /\ kb' \in Seq(ChunkRow)
      /\ \A i \in 1..Len(kb') : kb'[i].source = "kb" /\ kb'[i].number = i
      /\ searched' \subseteq {"kb"} /\ ("kb" \in searched' => ~req.preloaded /\ req.kb /\ WantsKb)
      /\ req.preloaded => Len(kb') = 1
    <2>1. CASE req.preloaded
        <3>1. kb' = Preloaded /\ searched' = {}
            BY <1>1, <2>1 DEF SearchKb
        <3>2. Preloaded \in Seq(ChunkRow) /\ Len(Preloaded) = 1
                 /\ Preloaded[1].source = "kb" /\ Preloaded[1].number = 1
            BY DEF Preloaded, ChunkRow
        <3>3. \A i \in 1..Len(Preloaded) : i = 1
            BY <3>2
        <3> QED BY <3>1, <3>2, <3>3
    <2>2. CASE ~req.preloaded /\ req.kb /\ WantsKb
        <3>1. searched' = {"kb"}
            BY <1>1, <2>2 DEF SearchKb
        <3>2. PICK found1 \in KbHits :
                 kb' = [i \in DOMAIN found1 |->
                          [source |-> "kb", number |-> i, score |-> found1[i].score, rerank |-> NoScore,
                           retrieval |-> RetrievalMode, both |-> found1[i].both /\ RetrievalMode = "hybrid"]]
            BY <2>2 DEF SearchKb
        <3>3. kb' \in Seq(ChunkRow) /\ \A i \in 1..Len(kb') : kb'[i].source = "kb" /\ kb'[i].number = i
            BY <1>1, <3>2, KbRows
        <3> QED BY <2>2, <3>1, <3>3
    <2>3. CASE ~req.preloaded /\ ~(req.kb /\ WantsKb)
        <3>1. kb' = <<>> /\ searched' = {}
            BY <1>1, <2>3 DEF SearchKb
        <3> QED BY <2>3, <3>1
    <2> QED BY <2>1, <2>2, <2>3
<1>3. steps' = Judged \o KbRuns \o WebRuns /\ steps' \in Seq(Steps)
    <2>1. steps' = IF WantsWeb THEN steps \o Tell("web-search", "running") ELSE steps
        BY DEF SearchKb
    <2>2. Judged \o KbRuns \in Seq(Steps)
        BY StepsAreTyped
    <2>3. steps' = Judged \o KbRuns \o WebRuns
        BY <1>1, <2>1, <2>2, ToldNothing DEF WebRuns
    <2> QED BY <2>2, <2>3, StepsAreTyped
<1>4. RagTypes'
    BY <1>1, <1>2, <1>3 DEF RagTypes
<1>5. PlanMade'
    BY <1>1 DEF PlanMade
<1>6. SearchesFound'
    BY <1>1, <1>2 DEF SearchesFound
<1>7. Refused' /\ Reranks'
    BY <1>1 DEF Refused, Reranks, RagAssumption, Outcomes
<1>8. StepsTold'
    BY <1>1, <1>3 DEF StepsTold, RagAssumption, Outcomes
<1> QED BY <1>4, <1>5, <1>6, <1>7, <1>8

LEMMA WebRows ==
    ASSUME RagAssumption, NEW found1 \in WebHits
    PROVE  LET row == [i \in DOMAIN found1 |->
                          [source |-> "web", number |-> i, score |-> found1[i], rerank |-> NoScore,
                           retrieval |-> "external", both |-> FALSE]]
           IN row \in Seq(ChunkRow) /\ \A i \in 1..Len(row) : row[i].source = "web" /\ row[i].number = i
<1> DEFINE row == [i \in DOMAIN found1 |->
                      [source |-> "web", number |-> i, score |-> found1[i], rerank |-> NoScore,
                       retrieval |-> "external", both |-> FALSE]]
           top == Len(found1)
<1>1. found1 \in Seq({0, 1})
    BY DEF RagAssumption
<1>2. top \in Nat /\ DOMAIN found1 = 1..top
    BY <1>1
<1>3. ASSUME NEW i \in 1..top PROVE row[i] \in ChunkRow /\ row[i].source = "web" /\ row[i].number = i
    <2>1. found1[i] \in {0, 1}
        BY <1>1, <1>2
    <2> QED BY <1>2, <2>1 DEF ChunkRow
<1>4. row = [i \in 1..top |-> row[i]]
    BY <1>2
<1> HIDE DEF row, top
<1>5. row \in Seq(ChunkRow) /\ Len(row) = top
    BY <1>2, <1>3, <1>4
<1> QED BY <1>3, <1>5 DEF row

LEMMA RagSearchesWeb == ASSUME RagAssumption, RagInv, SearchWeb PROVE RagInv'
<1> USE DEF RagInv
<1>1. /\ pc = "web" /\ pc' = "rerank" /\ plan \in Plan /\ outcome = None /\ web = <<>>
      /\ searched \subseteq {"kb"} /\ (req.preloaded => Len(kb) = 1)
      /\ steps = Judged \o KbRuns \o WebRuns /\ ~PreflightRefuses(req, plan)
      /\ UNCHANGED <<req, plan, proposed, kb, chunks, fallback, outcome>>
      /\ WantsKb' = WantsKb /\ WantsWeb' = WantsWeb
      /\ KbRuns' = KbRuns /\ WebRuns' = WebRuns /\ WebDone' = WebDone
    <2>1. /\ pc = "web" /\ pc' = "rerank"
          /\ UNCHANGED <<req, plan, proposed, kb, chunks, fallback, outcome>>
        BY DEF SearchWeb
    <2>2. plan \in Plan /\ outcome = None
        BY <2>1 DEF RagTypes
    <2>3. web = <<>> /\ searched \subseteq {"kb"} /\ (req.preloaded => Len(kb) = 1)
        BY <2>1 DEF RagTypes, SearchesFound
    <2>4. steps = Judged \o KbRuns \o WebRuns
        BY <2>1 DEF StepsTold
    <2>5. ~PreflightRefuses(req, plan)
        BY <2>1, <2>2 DEF Refused, RagAssumption, Outcomes
    <2>6. WantsKb' = WantsKb /\ WantsWeb' = WantsWeb
        BY <2>1 DEF WantsKb, WantsWeb
    <2>7. KbRuns' = KbRuns /\ WebRuns' = WebRuns /\ WebDone' = WebDone
        BY <2>6 DEF KbRuns, WebRuns, WebDone
    <2> QED BY <2>1, <2>2, <2>3, <2>4, <2>5, <2>6, <2>7
<1>2. /\ web' \in Seq(ChunkRow)
      /\ \A i \in 1..Len(web') : web'[i].source = "web" /\ web'[i].number = i
      /\ searched \subseteq searched' /\ searched' \subseteq searched \cup {"web"}
      /\ "web" \in searched' => SearchesWeb(req, plan)
      /\ req.preloaded => web' = <<>>
    <2>1. CASE SearchesWeb(req, plan)
        <3>1. searched' = searched \cup {"web"} /\ ~req.preloaded
            BY <2>1 DEF SearchWeb, SearchesWeb
        <3>2. PICK found1 \in WebHits :
                 web' = [i \in DOMAIN found1 |->
                          [source |-> "web", number |-> i, score |-> found1[i], rerank |-> NoScore,
                           retrieval |-> "external", both |-> FALSE]]
            BY <2>1 DEF SearchWeb
        <3>3. web' \in Seq(ChunkRow) /\ \A i \in 1..Len(web') : web'[i].source = "web" /\ web'[i].number = i
            BY <3>2, WebRows
        <3> QED BY <2>1, <3>1, <3>3
    <2>2. CASE ~SearchesWeb(req, plan)
        <3>1. web' = <<>> /\ searched' = searched
            BY <1>1, <2>2 DEF SearchWeb
        <3> QED BY <1>1, <3>1
    <2> QED BY <2>1, <2>2
<1>3. steps' = Judged \o KbRuns \o WebRuns \o WebDone /\ steps' \in Seq(Steps)
    <2>1. steps' = IF WantsWeb THEN steps \o Tell("web-search", "done") ELSE steps
        BY DEF SearchWeb
    <2>2. Judged \o KbRuns \o WebRuns \in Seq(Steps)
        BY StepsAreTyped
    <2>3. steps' = Judged \o KbRuns \o WebRuns \o WebDone
        BY <1>1, <2>1, <2>2, ToldNothing DEF WebDone
    <2> QED BY <2>2, <2>3, StepsAreTyped
<1>4. RagTypes'
    BY <1>1, <1>2, <1>3 DEF RagTypes
<1>5. PlanMade'
    BY <1>1 DEF PlanMade
<1>6. SearchesFound'
    BY <1>1, <1>2 DEF SearchesFound
<1>7. Refused' /\ Reranks'
    BY <1>1 DEF Refused, Reranks, RagAssumption, Outcomes
<1>8. StepsTold'
    BY <1>1, <1>3 DEF StepsTold, RagAssumption, Outcomes
<1> QED BY <1>4, <1>5, <1>6, <1>7, <1>8

LEMMA RagReranks == ASSUME RagAssumption, RagInv, Rerank PROVE RagInv'
<1> USE DEF RagInv
<1> DEFINE candidates == kb \o web
           limit == IF plan.rerank THEN RerankTopK ELSE TopK
<1>1. /\ pc = "rerank" /\ pc' = "decide" /\ plan \in Plan /\ outcome = None /\ chunks = <<>> /\ fallback = FALSE
      /\ (req.preloaded => Len(kb) = 1)
      /\ steps = Judged \o KbRuns \o WebRuns \o WebDone /\ ~PreflightRefuses(req, plan)
      /\ UNCHANGED <<req, plan, proposed, kb, web, searched, outcome>>
      /\ WantsKb' = WantsKb /\ WantsWeb' = WantsWeb
      /\ KbRuns' = KbRuns /\ WebRuns' = WebRuns /\ WebDone' = WebDone /\ KbIsDone' = KbIsDone
    <2>1. /\ pc = "rerank" /\ pc' = "decide"
          /\ UNCHANGED <<req, plan, proposed, kb, web, searched, outcome>>
        BY DEF Rerank
    <2>2. plan \in Plan /\ outcome = None
        BY <2>1 DEF RagTypes
    <2>3. chunks = <<>> /\ fallback = FALSE /\ (req.preloaded => Len(kb) = 1)
        BY <2>1 DEF RagTypes, SearchesFound
    <2>4. steps = Judged \o KbRuns \o WebRuns \o WebDone
        BY <2>1 DEF StepsTold
    <2>5. ~PreflightRefuses(req, plan)
        BY <2>1, <2>2 DEF Refused, RagAssumption, Outcomes
    <2>6. WantsKb' = WantsKb /\ WantsWeb' = WantsWeb
        BY <2>1 DEF WantsKb, WantsWeb
    <2>7. KbRuns' = KbRuns /\ WebRuns' = WebRuns /\ WebDone' = WebDone /\ KbIsDone' = KbIsDone
        BY <2>6 DEF KbRuns, WebRuns, WebDone, KbIsDone
    <2> QED BY <2>1, <2>2, <2>3, <2>4, <2>5, <2>6, <2>7
<1>2. /\ kb \in Seq(ChunkRow) /\ web \in Seq(ChunkRow) /\ candidates \in Seq(ChunkRow)
      /\ web # <<>> => HasWeb(candidates)
    <2>1. kb \in Seq(ChunkRow) /\ web \in Seq(ChunkRow)
        BY DEF RagTypes
    <2>2. ASSUME web # <<>> PROVE HasWeb(candidates)
        <3>1. Len(web) \in Nat /\ Len(kb) \in Nat /\ Len(web) # 0
            BY <2>1, <2>2
        <3>2. 1 \in 1..Len(web)
            BY <3>1
        <3>3. Len(kb) + 1 \in DOMAIN candidates /\ candidates[Len(kb) + 1] = web[1]
            BY <2>1, <3>1
        <3>4. web[1].source = "web"
            BY <3>2 DEF SearchesFound
        <3> QED BY <3>3, <3>4 DEF HasWeb, IsWeb
    <2> QED BY <2>1, <2>2
<1>3. TopK \in Nat \ {0} /\ RerankTopK \in Nat \ {0}
    BY DEF RagAssumption
<1> HIDE DEF candidates
<1>4. /\ chunks' \in Seq(ChunkRow) /\ fallback' \in BOOLEAN
      /\ Len(chunks') = Min({limit, Len(candidates)}) /\ TakenFrom(chunks', candidates)
      /\ fallback' /\ web # <<>> => HasWeb(chunks')
    <2>1. CASE candidates = <<>> /\ UNCHANGED <<chunks, fallback>>
        <3>1. Len(candidates) = 0 /\ chunks' = <<>> /\ ~fallback' /\ Len(chunks') = 0
            BY <1>1, <2>1
        <3>2. limit \in Nat
            BY <1>3
        <3>3. Min({limit, 0}) = 0
            BY <3>2, LeastOf
        <3>4. TakenFrom(chunks', candidates)
            <4> DEFINE f == [i \in 1..Len(chunks') |-> i]
            <4>1. f \in [1..Len(chunks') -> 1..Len(candidates)]
                BY <3>1
            <4>2. \A i \in 1..Len(chunks') : FALSE
                BY <3>1
            <4> HIDE DEF f
            <4> QED BY <4>1, <4>2 DEF TakenFrom
        <3>5. Len(chunks') = Min({limit, Len(candidates)})
            BY <3>1, <3>3
        <3>6. fallback' = FALSE
            BY <1>1, <2>1
        <3>7. chunks' \in Seq(ChunkRow)
            BY <3>1
        <3> HIDE DEF limit
        <3> QED BY <3>4, <3>5, <3>6, <3>7
    <2>2. CASE ~plan.rerank /\ chunks' = First(candidates, TopK) /\ UNCHANGED fallback
        BY <1>1, <1>2, <1>3, <2>2, FirstIsTaken
    <2>3. ASSUME plan.rerank, NEW rankings \in Rankings(Len(candidates)),
                 chunks' = ApplyRankings(candidates, rankings, RerankTopK), UNCHANGED fallback
          PROVE  /\ chunks' \in Seq(ChunkRow) /\ fallback' = FALSE
                 /\ Len(chunks') = Min({limit, Len(candidates)}) /\ TakenFrom(chunks', candidates)
        <3>1. Answered(rankings, Len(candidates))
            BY DEF Rankings, Answered, RagAssumption
        <3> QED BY <1>1, <1>2, <1>3, <2>3, <3>1, ApplyGives
    <2>4. CASE plan.rerank /\ chunks' = FallbackCandidates(candidates, RerankTopK) /\ fallback' = TRUE
        BY <1>2, <1>3, <2>4, FallbackGives
    <2> QED BY <2>1, <2>2, <2>3, <2>4 DEF Rerank, candidates
<1>5. steps' = Judged \o KbRuns \o WebRuns \o WebDone \o KbIsDone /\ steps' \in Seq(Steps)
    <2>1. steps' = IF WantsKb THEN steps \o Tell("kb-search", "done") ELSE steps
        BY DEF Rerank, KbDone
    <2>2. Judged \o KbRuns \o WebRuns \o WebDone \in Seq(Steps)
        BY StepsAreTyped
    <2>3. steps' = Judged \o KbRuns \o WebRuns \o WebDone \o KbIsDone
        BY <1>1, <2>1, <2>2, ToldNothing DEF KbIsDone
    <2> QED BY <2>2, <2>3, StepsAreTyped
<1>6. RagTypes'
    BY <1>1, <1>4, <1>5 DEF RagTypes
<1>7. PlanMade'
    BY <1>1 DEF PlanMade
<1>8. SearchesFound'
    BY <1>1, <1>4 DEF SearchesFound
<1>9. Refused'
    BY <1>1 DEF Refused, RagAssumption, Outcomes
<1>10. Reranks'
    <2>1. (kb \o web)' = candidates
        BY <1>1 DEF candidates
    <2> QED BY <1>1, <1>4, <2>1 DEF Reranks, RagAssumption, Outcomes
<1>11. StepsTold'
    BY <1>1, <1>5 DEF StepsTold, RagAssumption, Outcomes
<1> QED BY <1>6, <1>7, <1>8, <1>9, <1>10, <1>11

LEMMA RagDecides == ASSUME RagAssumption, RagInv, Decide PROVE RagInv'
<1> USE DEF RagInv
<1>1. /\ pc = "decide" /\ pc' = "done" /\ plan \in Plan /\ outcome = None
      /\ outcome' \in {"prompt", "evidence"}
      /\ outcome' = "prompt" /\ "refusal" \in req.flags => ~MustRefuse(req.kb, WantsKb, WantsWeb, chunks, MinHits)
      /\ UNCHANGED <<req, plan, proposed, kb, web, chunks, searched, fallback, steps>>
      /\ WantsKb' = WantsKb /\ WantsWeb' = WantsWeb
      /\ KbRuns' = KbRuns /\ WebRuns' = WebRuns /\ WebDone' = WebDone /\ KbIsDone' = KbIsDone
    <2>1. /\ pc = "decide" /\ pc' = "done"
          /\ outcome' \in {"prompt", "evidence"}
          /\ outcome' = "prompt" /\ "refusal" \in req.flags => ~MustRefuse(req.kb, WantsKb, WantsWeb, chunks, MinHits)
          /\ UNCHANGED <<req, plan, proposed, kb, web, chunks, searched, fallback, steps>>
        BY DEF Decide
    <2>2. plan \in Plan /\ outcome = None
        BY <2>1 DEF RagTypes
    <2>3. WantsKb' = WantsKb /\ WantsWeb' = WantsWeb
        BY <2>1 DEF WantsKb, WantsWeb
    <2>4. KbRuns' = KbRuns /\ WebRuns' = WebRuns /\ WebDone' = WebDone /\ KbIsDone' = KbIsDone
        BY <2>3 DEF KbRuns, WebRuns, WebDone, KbIsDone
    <2> QED BY <2>1, <2>2, <2>3, <2>4
<1>2. outcome' # None /\ outcome' # "preflight" /\ outcome' \in Outcomes
    BY <1>1 DEF RagAssumption, Outcomes
<1>3. RagTypes'
    BY <1>1, <1>2 DEF RagTypes
<1>4. PlanMade' /\ SearchesFound'
    BY <1>1 DEF PlanMade, SearchesFound
<1>5. Refused'
    BY <1>1, <1>2 DEF Refused, RagAssumption, Outcomes
<1>6. Reranks'
    <2> DEFINE candidates == kb \o web
    <2>1. candidates' = candidates
        BY <1>1
    <2>2. /\ Len(chunks) = Min({IF plan.rerank THEN RerankTopK ELSE TopK, Len(candidates)})
          /\ TakenFrom(chunks, candidates)
          /\ fallback /\ web # <<>> => HasWeb(chunks)
          /\ req.preloaded => Len(kb) = 1
        BY <1>1 DEF Reranks
    <2> HIDE DEF candidates
    <2> QED BY <1>1, <1>2, <2>1, <2>2 DEF Reranks, candidates
<1>7. StepsTold'
    BY <1>1, <1>2 DEF StepsTold
<1> QED BY <1>3, <1>4, <1>5, <1>6, <1>7

LEMMA RagStep == ASSUME RagAssumption, RagInv, [Next]_vars PROVE RagInv'
<1>1. CASE UNCHANGED vars
    <2>1. UNCHANGED <<pc, req, plan, proposed, kb, web, chunks, searched, fallback, steps, outcome>>
        BY <1>1 DEF vars
    <2>2. RagTypes' /\ PlanMade'
        BY <2>1 DEF RagInv, RagTypes, PlanMade
    <2>3. WantsKb' = WantsKb /\ WantsWeb' = WantsWeb
        BY <2>1 DEF WantsKb, WantsWeb
    <2>4. KbRuns' = KbRuns /\ WebRuns' = WebRuns /\ WebDone' = WebDone /\ KbIsDone' = KbIsDone
        BY <2>3 DEF KbRuns, WebRuns, WebDone, KbIsDone
    <2>5. SearchesFound' /\ Refused'
        BY <2>1, <2>3 DEF RagInv, SearchesFound, Refused
    <2>6. Reranks' /\ StepsTold'
        BY <2>1, <2>3, <2>4 DEF RagInv, Reranks, StepsTold
    <2> QED BY <2>2, <2>5, <2>6 DEF RagInv
<1> QED BY <1>1, RagJudges, RagPreflights, RagSearchesKb, RagSearchesWeb, RagReranks, RagDecides DEF Next

-----------------------------------------------------------------------------
(* RagContext: what the invariant says of it.                                *)

LEMMA RagIsTyped == ASSUME RagAssumption, RagInv PROVE TypeOK
<1>1. ASSUME NEW s \in {kb, web, chunks}, NEW i \in DOMAIN s PROVE s[i] \in ChunkRow
    BY DEF RagInv, RagTypes
<1>2. (pc = "judge") = (plan = None)
    BY DEF RagInv, RagTypes
<1> QED BY <1>1, <1>2 DEF RagInv, RagTypes, TypeOK, Steps

\* A plan's sources agree with its mode, the default's and those made of a proposal.
LEMMA PlansAgree ==
    ASSUME RagAssumption, NEW r \in Requests
    PROVE  \A p \in {DefaultPlan(r)} \cup {PreferWeb(r, Synced(q)) : q \in Proposal} :
              /\ "web" \in p.sources => p.mode \in {"auto", "web_only"}
              /\ "kb" \in p.sources => p.mode \in {"auto", "kb_only"}
              /\ p.rerank => "kb" \in p.sources
              /\ p.sources \subseteq {"kb", "web"}
<1> DEFINE Agrees(p) == /\ "web" \in p.sources => p.mode \in {"auto", "web_only"}
                        /\ "kb" \in p.sources => p.mode \in {"auto", "kb_only"}
                        /\ p.rerank => "kb" \in p.sources
                        /\ p.sources \subseteq {"kb", "web"}
<1>1. r \in Request
    BY DEF RagAssumption
<1>2. Agrees(DefaultPlan(r))
    BY <1>1 DEF DefaultPlan, Allowed
<1>3. ASSUME NEW q \in Proposal PROVE Agrees(PreferWeb(r, Synced(q)))
    <2> DEFINE made == Synced(q)
    <2>1. Agrees(made)
        BY DEF Synced, InMode, Proposal
    <2>2. CASE PreferWeb(r, made) = made
        BY <2>1, <2>2
    <2>3. CASE made.mode = "auto" /\ PreferWeb(r, made) = [made EXCEPT !.sources = {"web"}, !.rerank = FALSE]
        <3> DEFINE web_ == [made EXCEPT !.sources = {"web"}, !.rerank = FALSE]
        <3>1. web_.sources = {"web"} /\ web_.rerank = FALSE /\ web_.mode = made.mode
            BY DEF Synced
        <3> HIDE DEF made
        <3>2. Agrees(web_)
            <4> HIDE DEF web_
            <4> QED BY <2>3, <3>1
        <3>3. Agrees(PreferWeb(r, made))
            <4> HIDE DEF Agrees
            <4> QED BY <2>3, <3>2
        <3> HIDE DEF Agrees
        <3> USE DEF made
        <3> QED BY <3>3
    <2> QED BY <2>2, <2>3 DEF PreferWeb
<1> QED BY <1>2, <1>3

\* The plan in force is the default, of the request's mode, or made of the proposal, of its mode.
LEMMA PlanInForce ==
    ASSUME RagAssumption, RagInv, plan # None
    PROVE  /\ plan \in {DefaultPlan(req)} \cup {PreferWeb(req, Synced(q)) : q \in Proposal}
           /\ plan.mode = Mode(req) \/ (proposed # None /\ plan.mode = proposed.mode)
<1>1. req \in Requests /\ pc # "judge" /\ proposed \in Proposal \cup {None}
    BY DEF RagInv, RagTypes
<1>2. DefaultPlan(req).mode = Mode(req)
    BY DEF DefaultPlan
<1>3. CASE plan = DefaultPlan(req)
    BY <1>2, <1>3
<1>4. CASE proposed # None /\ plan = PreferWeb(req, Synced(proposed))
    <2>1. proposed \in Proposal /\ plan.mode = proposed.mode
        BY <1>1, <1>4, PlansAreTyped
    <2> QED BY <1>4, <2>1
<1> QED BY <1>1, <1>3, <1>4 DEF RagInv, PlanMade

LEMMA PlanIsConsistent == ASSUME RagAssumption, RagInv PROVE PlanConsistent
<1> SUFFICES ASSUME plan # None
             PROVE  /\ plan.mode = "off" => plan.sources = {}
                    /\ plan.mode = "kb_only" => "web" \notin plan.sources
                    /\ plan.mode = "web_only" => "kb" \notin plan.sources
                    /\ plan.rerank => "kb" \in plan.sources
    BY DEF PlanConsistent
<1>1. /\ "web" \in plan.sources => plan.mode \in {"auto", "web_only"}
      /\ "kb" \in plan.sources => plan.mode \in {"auto", "kb_only"}
      /\ plan.rerank => "kb" \in plan.sources
      /\ plan.sources \subseteq {"kb", "web"}
    <2>1. req \in Requests
        BY DEF RagInv, RagTypes
    <2> QED BY <2>1, PlansAgree, PlanInForce
<1> QED BY <1>1

LEMMA OnlyAllowed == ASSUME RagAssumption, RagInv PROVE SearchesAllowed
<1>1. "kb" \in searched => req.kb /\ "kb" \in plan.sources
    BY DEF RagInv, SearchesFound, WantsKb
<1>2. "web" \in searched => "external" \in req.flags /\ "web" \in plan.sources
    BY DEF RagInv, SearchesFound, SearchesWeb
<1>3. CASE plan = None
    <2>1. searched = {}
        BY <1>3 DEF RagInv, RagTypes, SearchesFound
    <2> QED BY <1>3, <2>1 DEF SearchesAllowed
<1>4. CASE plan # None
    <2>1. req \in Requests
        BY DEF RagInv, RagTypes
    <2>2. /\ "web" \in plan.sources => plan.mode \in {"auto", "web_only"}
          /\ "kb" \in plan.sources => plan.mode \in {"auto", "kb_only"}
        BY <1>4, <2>1, PlansAgree, PlanInForce
    <2>3. plan.mode = Mode(req) \/ (proposed # None /\ plan.mode = proposed.mode)
        BY <1>4, PlanInForce
    <2> QED BY <1>1, <1>2, <2>2, <2>3 DEF SearchesAllowed
<1> QED BY <1>3, <1>4

LEMMA RefusalsHold == ASSUME RagAssumption, RagInv PROVE RefusalAllOrNothing
<1> SUFFICES ASSUME proposed # None, proposed.refuse, outcome # None
             PROVE  IF "routing" \in req.flags /\ proposed.sure THEN outcome = "preflight" /\ searched = {}
                    ELSE plan = DefaultPlan(req)
    BY DEF RefusalAllOrNothing
<1> DEFINE made == PreferWeb(req, Synced(proposed))
<1>1. /\ pc = "done" /\ req \in Requests /\ proposed \in Proposal /\ AsksPlanner(req)
      /\ plan = IF Usual(req, made) THEN made ELSE DefaultPlan(req)
    BY DEF RagInv, RagTypes, PlanMade
<1>2. made.refuse /\ made.sure = proposed.sure
    BY <1>1, PlansAreTyped
<1>3. ~req.preloaded
    BY <1>1 DEF AsksPlanner
<1> HIDE DEF made
<1>4. CASE "routing" \in req.flags /\ proposed.sure
    <2>1. plan = made
        BY <1>1, <1>2, <1>4 DEF Usual
    <2>2. PreflightRefuses(req, plan)
        BY <1>2, <1>3, <1>4, <2>1 DEF PreflightRefuses
    <2> QED BY <1>1, <1>4, <2>2 DEF RagInv, Refused
<1>5. CASE ~("routing" \in req.flags /\ proposed.sure)
    BY <1>1, <1>2, <1>5 DEF Usual
<1> QED BY <1>4, <1>5
LEMMA PreloadedStays == ASSUME RagAssumption, RagInv PROVE PreloadedKept
<1> SUFFICES ASSUME req.preloaded
             PROVE  /\ searched = {} /\ outcome # "preflight"
                    /\ outcome # None => Len(chunks) = 1 /\ ~HasWeb(chunks)
    BY DEF PreloadedKept
<1>1. searched = {} /\ outcome # "preflight" /\ web = <<>> /\ kb \in Seq(ChunkRow) /\ chunks \in Seq(ChunkRow)
    BY DEF RagInv, RagTypes, SearchesFound, SearchesWeb, Refused, PreflightRefuses
<1>2. ASSUME outcome # None PROVE Len(chunks) = 1 /\ ~HasWeb(chunks)
    <2> DEFINE limit == IF plan.rerank THEN RerankTopK ELSE TopK
               candidates == kb \o web
    <2>1. outcome \in {"prompt", "evidence"}
        BY <1>1, <1>2 DEF RagInv, RagTypes, Outcomes
    <2>2. Len(kb) = 1 /\ Len(chunks) = Min({limit, Len(candidates)}) /\ TakenFrom(chunks, candidates)
        BY <2>1 DEF RagInv, Reranks
    <2>3. candidates = kb
        BY <1>1
    <2>4. limit \in Nat \ {0}
        BY DEF RagAssumption
    <2> HIDE DEF limit, candidates
    <2>5. Len(chunks) = 1
        <3>1. Len(chunks) = Min({limit, 1})
            BY <2>2, <2>3
        <3> QED BY <2>4, <3>1, LeastOf
    <2>6. kb[1].source = "kb"
        BY <2>2 DEF RagInv, SearchesFound
    <2>7. PICK f \in [1..Len(chunks) -> 1..Len(kb)] :
             \A k \in 1..Len(chunks) : chunks[k].source = kb[f[k]].source
        BY <2>2, <2>3, ZenonT(60) DEF TakenFrom
    <2>8. DOMAIN chunks = {1} /\ f[1] = 1
        <3>1. DOMAIN chunks = 1..1
            BY <1>1, <2>5
        <3>2. f[1] \in 1..1
            <4>1. 1 \in 1..Len(chunks)
                BY <2>5
            <4>2. f[1] \in 1..Len(kb)
                BY <2>7, <4>1
            <4> QED BY <2>2, <4>2
        <3> QED BY <3>1, <3>2
    <2>9. chunks[1].source = "kb"
        BY <2>5, <2>6, <2>7, <2>8
    <2> QED BY <2>5, <2>8, <2>9 DEF HasWeb, IsWeb
<1> QED BY <1>1, <1>2

LEMMA WebHitStays == ASSUME RagAssumption, RagInv PROVE WebHitKept
<1> SUFFICES ASSUME fallback, outcome # None, web # <<>>
             PROVE  \E i \in DOMAIN chunks : chunks[i].source = "web"
    BY DEF WebHitKept
<1>1. outcome \in {"prompt", "evidence"}
    BY DEF RagInv, RagTypes, Outcomes, Refused
<1>2. HasWeb(chunks)
    BY <1>1 DEF RagInv, Reranks
<1> QED BY <1>2 DEF HasWeb, IsWeb

LEMMA NothingRepeated == ASSUME RagAssumption, RagInv PROVE RerankKeeps
<1> SUFFICES ASSUME outcome \in {"prompt", "evidence"}
             PROVE  /\ Len(chunks) = Min({IF plan.rerank THEN RerankTopK ELSE TopK, Len(kb \o web)})
                    /\ \A i, j \in DOMAIN chunks :
                          chunks[i].source = chunks[j].source /\ chunks[i].number = chunks[j].number => i = j
    BY DEF RerankKeeps
<1> DEFINE candidates == kb \o web
           n == Len(kb)
<1>1. /\ Len(chunks) = Min({IF plan.rerank THEN RerankTopK ELSE TopK, Len(kb \o web)})
      /\ TakenFrom(chunks, candidates)
    BY DEF RagInv, Reranks
<1>2. kb \in Seq(ChunkRow) /\ web \in Seq(ChunkRow) /\ chunks \in Seq(ChunkRow)
    BY DEF RagInv, RagTypes
<1>3. n \in Nat /\ Len(web) \in Nat /\ Len(candidates) = n + Len(web)
    BY <1>2
<1>4. ASSUME NEW i \in 1..Len(candidates)
      PROVE  /\ i <= n => candidates[i].source = "kb" /\ candidates[i].number = i
             /\ i > n => candidates[i].source = "web" /\ candidates[i].number = i - n
    <2>1. CASE i <= n
        <3>1. i \in 1..n /\ candidates[i] = kb[i]
            BY <1>2, <1>3, <2>1
        <3> QED BY <1>3, <2>1, <3>1 DEF RagInv, SearchesFound
    <2>2. CASE i > n
        <3>1. i - n \in 1..Len(web) /\ candidates[i] = web[i - n]
            BY <1>2, <1>3, <2>2
        <3> QED BY <1>3, <2>2, <3>1 DEF RagInv, SearchesFound
    <2> QED BY <1>3, <2>1, <2>2
<1> HIDE DEF candidates, n
<1>5. ASSUME NEW i \in 1..Len(candidates), NEW j \in 1..Len(candidates),
             candidates[i].source = candidates[j].source, candidates[i].number = candidates[j].number
      PROVE  i = j
    BY <1>3, <1>4, <1>5
<1>6. PICK f \in [1..Len(chunks) -> 1..Len(candidates)] :
         /\ \A i, j \in 1..Len(chunks) : f[i] = f[j] => i = j
         /\ \A k \in 1..Len(chunks) :
               chunks[k].source = candidates[f[k]].source /\ chunks[k].number = candidates[f[k]].number
    BY <1>1 DEF TakenFrom
<1>7. ASSUME NEW i \in 1..Len(chunks), NEW j \in 1..Len(chunks),
             chunks[i].source = chunks[j].source, chunks[i].number = chunks[j].number
      PROVE  i = j
    <2>1. f[i] \in 1..Len(candidates) /\ f[j] \in 1..Len(candidates)
        BY <1>6
    <2>2. /\ candidates[f[i]].source = candidates[f[j]].source
          /\ candidates[f[i]].number = candidates[f[j]].number
        BY <1>6, <1>7
    <2>3. f[i] = f[j]
        BY <1>5, <2>1, <2>2
    <2> QED BY <1>6, <2>3
<1>8. DOMAIN chunks = 1..Len(chunks)
    BY <1>2
<1> QED BY <1>1, <1>7, <1>8
LEMMA BestOf ==
    ASSUME NEW S \in SUBSET {NoScore, 0, 1}
    PROVE  /\ Best(S) \in S \cup {NoScore} /\ \A x \in S : x <= Best(S)
<1> DEFINE T == {NoScore} \cup S
<1>1. \E x \in T : \A y \in T : x >= y
    <2>1. CASE 1 \in S
        BY <2>1 DEF NoScore
    <2>2. CASE 1 \notin S /\ 0 \in S
        BY <2>2 DEF NoScore
    <2>3. CASE 1 \notin S /\ 0 \notin S
        BY <2>3 DEF NoScore
    <2> QED BY <2>1, <2>2, <2>3
<1>2. Best(S) = CHOOSE x \in T : \A y \in T : x >= y
    BY DEF Best, Max
<1> HIDE DEF T
<1>3. Best(S) \in T /\ \A y \in T : Best(S) >= y
    BY <1>1, <1>2
<1>4. \A y \in T : y \in {NoScore, 0, 1}
    BY DEF T
<1> QED BY <1>3, <1>4 DEF T, NoScore

LEMMA AnswersAreGrounded == ASSUME RagAssumption, RagInv PROVE GroundedAnswer
<1> SUFFICES ASSUME outcome = "prompt", "refusal" \in req.flags, req.kb, plan.sources = {"kb"}
             PROVE  \E i \in DOMAIN chunks :
                       IF \E j \in DOMAIN chunks : chunks[j].rerank # NoScore
                         THEN chunks[i].rerank = 1 ELSE chunks[i].score = 1
    BY DEF GroundedAnswer
<1>1. KbEvidence(chunks, MinHits)
    <2>1. ~MustRefuse(req.kb, WantsKb, WantsWeb, chunks, MinHits)
        BY DEF RagInv, Reranks
    <2>2. WantsKb /\ ~WantsWeb
        BY DEF WantsKb, WantsWeb
    <2> QED BY <2>1, <2>2 DEF MustRefuse
<1>2. chunks \in Seq(ChunkRow)
    BY DEF RagInv, RagTypes
<1>3. \A i \in DOMAIN chunks : chunks[i].rerank \in {NoScore, 0, 1} /\ chunks[i].score \in {0, 1}
    <2>1. \A i \in DOMAIN chunks : chunks[i] \in ChunkRow
        BY <1>2
    <2> QED BY <2>1 DEF ChunkRow
<1>4. Reranked(chunks) \in SUBSET {NoScore, 0, 1} /\ Scores(chunks) \in SUBSET {NoScore, 0, 1}
    BY <1>3 DEF Reranked, Scores
<1>5. CASE Best(Reranked(chunks)) # NoScore
    <2>1. Best(Reranked(chunks)) = 1
        BY <1>1, <1>5 DEF KbEvidence, EvidenceScore
    <2>2. 1 \in Reranked(chunks)
        BY <1>4, <2>1, BestOf DEF NoScore
    <2>3. PICK i \in DOMAIN chunks : chunks[i].rerank = 1
        BY <2>2 DEF Reranked
    <2> QED BY <2>3 DEF NoScore
<1>6. CASE Best(Reranked(chunks)) = NoScore
    <2>1. \A j \in DOMAIN chunks : chunks[j].rerank = NoScore
        <3>1. \A j \in DOMAIN chunks : chunks[j].rerank \in Reranked(chunks)
            BY DEF Reranked
        <3>2. \A x \in Reranked(chunks) : x <= NoScore
            BY <1>4, <1>6, BestOf
        <3> QED BY <1>3, <3>1, <3>2 DEF NoScore
    <2>2. Best(Scores(chunks)) = 1
        BY <1>1, <1>6 DEF KbEvidence, EvidenceScore, HybridEvidence
    <2>3. 1 \in Scores(chunks)
        BY <1>4, <2>2, BestOf DEF NoScore
    <2>4. PICK i \in DOMAIN chunks : chunks[i].score = 1
        BY <2>3 DEF Scores
    <2> QED BY <2>1, <2>4
<1> QED BY <1>5, <1>6

\* Every step that is told is told when it starts and when it ends.
Paired(s) == \A k \in {"router-judge", "kb-search", "web-search"} :
    LET told == {i \in DOMAIN s : s[i][1] = k}
    IN told # {} => \E i, j \in told : /\ i < j /\ told = {i, j}
                                       /\ s[i][2] = "running" /\ s[j][2] = "done"

LEMMA Joined ==
    ASSUME NEW a, NEW b, NEW c, NEW d, NEW e, NEW f
    PROVE  /\ <<a, b>> \o <<>> = <<a, b>>
           /\ <<a, b>> \o <<c>> = <<a, b, c>>
           /\ <<a, b, c>> \o <<>> = <<a, b, c>>
           /\ <<a, b, c>> \o <<d>> = <<a, b, c, d>>
           /\ <<a, b, c, d>> \o <<>> = <<a, b, c, d>>
           /\ <<a, b, c, d>> \o <<e>> = <<a, b, c, d, e>>
           /\ <<a, b, c, d, e>> \o <<f>> = <<a, b, c, d, e, f>>
<1> DEFINE S == {a, b, c, d, e, f}
<1>1. <<a, b>> \o <<>> = <<a, b>> /\ <<a, b, c>> \o <<>> = <<a, b, c>>
    OBVIOUS
<1>2. <<a, b, c, d>> \o <<>> = <<a, b, c, d>>
    OBVIOUS
<1>3. <<a, b>> \o <<c>> = <<a, b, c>>
    <2> DEFINE t == <<a, b>> \o <<c>>
    <2>1. t \in Seq(S) /\ Len(t) = 3
        OBVIOUS
    <2>2. t[1] = a /\ t[2] = b /\ t[3] = c
        OBVIOUS
    <2> HIDE DEF t
    <2>3. t = <<a, b, c>>
        BY <2>1, <2>2
    <2> QED BY <2>3 DEF t
<1>4. <<a, b, c>> \o <<d>> = <<a, b, c, d>>
    <2> DEFINE t == <<a, b, c>> \o <<d>>
    <2>1. t \in Seq(S) /\ Len(t) = 4
        OBVIOUS
    <2>2. t[1] = a /\ t[2] = b /\ t[3] = c /\ t[4] = d
        OBVIOUS
    <2> HIDE DEF t
    <2>3. t = <<a, b, c, d>>
        BY <2>1, <2>2
    <2> QED BY <2>3 DEF t
<1>5. <<a, b, c, d>> \o <<e>> = <<a, b, c, d, e>>
    <2> DEFINE t == <<a, b, c, d>> \o <<e>>
    <2>1. t \in Seq(S) /\ Len(t) = 5
        OBVIOUS
    <2>2. t[1] = a /\ t[2] = b /\ t[3] = c /\ t[4] = d /\ t[5] = e
        OBVIOUS
    <2> HIDE DEF t
    <2>3. t = <<a, b, c, d, e>>
        BY <2>1, <2>2
    <2> QED BY <2>3 DEF t
<1>6. <<a, b, c, d, e>> \o <<f>> = <<a, b, c, d, e, f>>
    <2> DEFINE t == <<a, b, c, d, e>> \o <<f>>
    <2>1. t \in Seq(S) /\ Len(t) = 6
        OBVIOUS
    <2>2. t[1] = a /\ t[2] = b /\ t[3] = c /\ t[4] = d /\ t[5] = e /\ t[6] = f
        OBVIOUS
    <2> HIDE DEF t
    <2>3. t = <<a, b, c, d, e, f>>
        BY <2>1, <2>2
    <2> QED BY <2>3 DEF t
<1> QED BY <1>1, <1>2, <1>3, <1>4, <1>5, <1>6

LEMMA StepsArePaired == ASSUME RagAssumption, RagInv PROVE StepsPaired
<1> SUFFICES ASSUME outcome # None PROVE Paired(steps)
    BY DEF StepsPaired, Paired
<1>1. Paired(Judged)
    <2> DEFINE s == Judged
    <2>1. DOMAIN s = {1, 2} /\ s[1] = <<"router-judge", "running">> /\ s[2] = <<"router-judge", "done">>
        BY DEF Judged
    <2> HIDE DEF s
    <2>2. s[1][1] = "router-judge" /\ s[2][1] = "router-judge" /\ s[1][2] = "running" /\ s[2][2] = "done"
        BY <2>1
    <2>3. /\ {i \in DOMAIN s : s[i][1] = "router-judge"} = {1, 2}
          /\ {i \in DOMAIN s : s[i][1] = "kb-search"} = {}
          /\ {i \in DOMAIN s : s[i][1] = "web-search"} = {}
        BY <2>1, <2>2
    <2>4. Paired(s)
        BY <2>2, <2>3 DEF Paired
    <2> QED BY <2>4 DEF s
<1>2. ASSUME steps = Judged \o KbRuns \o WebRuns \o WebDone \o KbIsDone PROVE Paired(steps)
    <2>1. CASE WantsKb /\ WantsWeb
        <3> DEFINE s == << <<"router-judge", "running">>, <<"router-judge", "done">>, <<"kb-search", "running">>,
                           <<"web-search", "running">>, <<"web-search", "done">>, <<"kb-search", "done">> >>
        <3>1. steps = s
            <4> DEFINE a == <<"router-judge", "running">>
                       b == <<"router-judge", "done">>
                       c == <<"kb-search", "running">>
                       d == <<"web-search", "running">>
                       e == <<"web-search", "done">>
                       f == <<"kb-search", "done">>
            <4>1. Judged = <<a, b>> /\ KbRuns = <<c>> /\ WebRuns = <<d>> /\ WebDone = <<e>> /\ KbIsDone = <<f>>
                BY <2>1 DEF Judged, KbRuns, WebRuns, WebDone, KbIsDone, Tell
            <4>2. s = <<a, b, c, d, e, f>>
                BY DEF s
            <4> HIDE DEF a, b, c, d, e, f, s
            <4> QED BY <1>2, <4>1, <4>2, Joined, ZenonT(60)
        <3>2. /\ DOMAIN s = {1, 2, 3, 4, 5, 6}
              /\ s[1][1] = "router-judge" /\ s[2][1] = "router-judge" /\ s[3][1] = "kb-search"
              /\ s[4][1] = "web-search" /\ s[5][1] = "web-search" /\ s[6][1] = "kb-search"
              /\ s[1][2] = "running" /\ s[2][2] = "done" /\ s[3][2] = "running" /\ s[4][2] = "running"
              /\ s[5][2] = "done" /\ s[6][2] = "done"
            OBVIOUS
        <3> HIDE DEF s
        <3>3. /\ {i \in DOMAIN s : s[i][1] = "router-judge"} = {1, 2}
              /\ {i \in DOMAIN s : s[i][1] = "kb-search"} = {3, 6}
              /\ {i \in DOMAIN s : s[i][1] = "web-search"} = {4, 5}
            BY <3>2
        <3>4. Paired(s)
            BY <3>2, <3>3 DEF Paired
        <3> QED BY <3>1, <3>4
    <2>2. CASE WantsKb /\ ~WantsWeb
        <3> DEFINE s == << <<"router-judge", "running">>, <<"router-judge", "done">>, <<"kb-search", "running">>,
                           <<"kb-search", "done">> >>
        <3>1. steps = s
            <4> DEFINE a == <<"router-judge", "running">>
                       b == <<"router-judge", "done">>
                       c == <<"kb-search", "running">>
                       d == <<"web-search", "running">>
                       e == <<"web-search", "done">>
                       f == <<"kb-search", "done">>
            <4>1. Judged = <<a, b>> /\ KbRuns = <<c>> /\ WebRuns = <<>> /\ WebDone = <<>> /\ KbIsDone = <<f>>
                BY <2>2 DEF Judged, KbRuns, WebRuns, WebDone, KbIsDone, Tell
            <4>2. s = <<a, b, c, f>>
                BY DEF s
            <4> HIDE DEF a, b, c, d, e, f, s
            <4> QED BY <1>2, <4>1, <4>2, Joined, ZenonT(60)
        <3>2. /\ DOMAIN s = {1, 2, 3, 4}
              /\ s[1][1] = "router-judge" /\ s[2][1] = "router-judge" /\ s[3][1] = "kb-search"
              /\ s[4][1] = "kb-search"
              /\ s[1][2] = "running" /\ s[2][2] = "done" /\ s[3][2] = "running" /\ s[4][2] = "done"
            OBVIOUS
        <3> HIDE DEF s
        <3>3. /\ {i \in DOMAIN s : s[i][1] = "router-judge"} = {1, 2}
              /\ {i \in DOMAIN s : s[i][1] = "kb-search"} = {3, 4}
              /\ {i \in DOMAIN s : s[i][1] = "web-search"} = {}
            BY <3>2
        <3>4. Paired(s)
            BY <3>2, <3>3 DEF Paired
        <3> QED BY <3>1, <3>4
    <2>3. CASE ~WantsKb /\ WantsWeb
        <3> DEFINE s == << <<"router-judge", "running">>, <<"router-judge", "done">>, <<"web-search", "running">>,
                           <<"web-search", "done">> >>
        <3>1. steps = s
            <4> DEFINE a == <<"router-judge", "running">>
                       b == <<"router-judge", "done">>
                       c == <<"kb-search", "running">>
                       d == <<"web-search", "running">>
                       e == <<"web-search", "done">>
                       f == <<"kb-search", "done">>
            <4>1. Judged = <<a, b>> /\ KbRuns = <<>> /\ WebRuns = <<d>> /\ WebDone = <<e>> /\ KbIsDone = <<>>
                BY <2>3 DEF Judged, KbRuns, WebRuns, WebDone, KbIsDone, Tell
            <4>2. s = <<a, b, d, e>>
                BY DEF s
            <4> HIDE DEF a, b, c, d, e, f, s
            <4> QED BY <1>2, <4>1, <4>2, Joined, ZenonT(60)
        <3>2. /\ DOMAIN s = {1, 2, 3, 4}
              /\ s[1][1] = "router-judge" /\ s[2][1] = "router-judge" /\ s[3][1] = "web-search"
              /\ s[4][1] = "web-search"
              /\ s[1][2] = "running" /\ s[2][2] = "done" /\ s[3][2] = "running" /\ s[4][2] = "done"
            OBVIOUS
        <3> HIDE DEF s
        <3>3. /\ {i \in DOMAIN s : s[i][1] = "router-judge"} = {1, 2}
              /\ {i \in DOMAIN s : s[i][1] = "kb-search"} = {}
              /\ {i \in DOMAIN s : s[i][1] = "web-search"} = {3, 4}
            BY <3>2
        <3>4. Paired(s)
            BY <3>2, <3>3 DEF Paired
        <3> QED BY <3>1, <3>4
    <2>4. CASE ~WantsKb /\ ~WantsWeb
        <3>1. steps = Judged
            BY <1>2, <2>4 DEF Judged, KbRuns, WebRuns, WebDone, KbIsDone
        <3> QED BY <1>1, <3>1
    <2> QED BY <2>1, <2>2, <2>3, <2>4
<1>3. steps = Judged \/ steps = Judged \o KbRuns \o WebRuns \o WebDone \o KbIsDone
    BY DEF RagInv, RagTypes, StepsTold, Outcomes
<1> QED BY <1>1, <1>2, <1>3

LEMMA RagIsKept ==
    ASSUME RagAssumption, RagInv
    PROVE  /\ TypeOK /\ SearchesAllowed /\ PreloadedKept /\ RefusalAllOrNothing /\ StepsPaired
           /\ RerankKeeps /\ WebHitKept /\ GroundedAnswer /\ PlanConsistent
BY RagIsTyped, OnlyAllowed, PreloadedStays, RefusalsHold, StepsArePaired, NothingRepeated, WebHitStays,
   AnswersAreGrounded, PlanIsConsistent

-----------------------------------------------------------------------------
(* HybridSearch: what the fusion makes of the two answers.                   *)

\* The operators an instance shares with this module.
LEMMA SameOperators ==
    /\ \A b, s : Search!InOrder(b, s) = InOrder(b, s)
    /\ \A s, n : Search!First(s, n) = First(s, n)
    /\ \A s : Search!Cardinality(s) = Cardinality(s)
    /\ \A s : Search!Max(s) = Max(s) /\ Search!Min(s) = Min(s)
    /\ \A s : Search!ToSet(s) = {s[i] : i \in DOMAIN s}
<1>1. \A s : Search!Cardinality(s) = Cardinality(s)
    BY DEF Search!Cardinality, Cardinality
<1>2. \A b, m, s : Search!Place(b, m, s) = Place(b, m, s)
    BY <1>1 DEF Search!Place, Place
<1>3. \A b, s : Search!InOrder(b, s) = InOrder(b, s)
    BY <1>1, <1>2 DEF Search!InOrder, InOrder
<1>4. \A s, n : Search!First(s, n) = First(s, n)
    BY DEF Search!First, First
<1>5. \A s : Search!Max(s) = Max(s) /\ Search!Min(s) = Min(s)
    BY DEF Search!Max, Max, Search!Min, Min
<1>6. \A s : Search!ToSet(s) = {s[i] : i \in DOMAIN s}
    BY DEF Search!ToSet
<1> QED BY <1>1, <1>3, <1>4, <1>5, <1>6

\* A later rank gives no larger share.
LEMMA SharesFall ==
    ASSUME NEW r \in Nat, NEW q \in Nat, r <= q
    PROVE  Search!Share(r) \in Nat /\ Search!Share(q) \in Nat /\ Search!Share(q) <= Search!Share(r)
<1> DEFINE total == 15249024
           x == 60 + r
           y == 60 + q
           s == total \div x
           t == total \div y
<1>1. Search!Share(r) = s /\ Search!Share(q) = t
    BY DEF Search!Share
<1>2. x \in Nat /\ y \in Nat /\ 0 < x /\ x <= y
    OBVIOUS
<1> HIDE DEF x, y
<1>3. s \in Nat /\ t \in Nat /\ t * y <= total /\ total < (s + 1) * x
    BY <1>2
<1> HIDE DEF s, t, total
<1>4. (s + 1) * x <= (s + 1) * y
    BY <1>2, <1>3
<1>5. t * y < (s + 1) * y
    BY <1>2, <1>3, <1>4 DEF total
<1>6. t < s + 1
    BY <1>2, <1>3, <1>5
<1> QED BY <1>1, <1>3, <1>6

RankedBy(s, score) ==
    \A i, j \in DOMAIN s : (s[i] = s[j] => i = j) /\ (i < j => s[i][score] >= s[j][score])
Members(s) == {s[i] : i \in DOMAIN s}

LEMMA FieldsOfChunks == \A c \in Search!Chunk : c["vec"] = c.vec /\ c["text"] = c.text /\ c.vec \in 0..2 /\ c.text \in 0..2
BY DEF Search!Chunk

LEMMA PlacesOf ==
    ASSUME NEW s \in Seq(Search!Chunk), \A i, j \in DOMAIN s : s[i] = s[j] => i = j, NEW i \in DOMAIN s
    PROVE  Search!At(s, s[i]) = i
BY DEF Search!At

\* The two answers: chunks, each once, best first.
TwoAnswers ==
    /\ vectorHits \in Seq(Search!Chunk) /\ RankedBy(vectorHits, "vec")
    /\ textHits \in Seq(Search!Chunk) /\ RankedBy(textHits, "text")

LEMMA PoolIsFound ==
    ASSUME TwoAnswers
    PROVE  /\ IsFiniteSet(Search!Pool) /\ Search!Pool \subseteq Search!Chunk
           /\ Search!Pool \subseteq Members(vectorHits) \cup Members(textHits)
           /\ \A c \in Search!GoodVector :
                 /\ Search!At(vectorHits, c) \in 1..Len(vectorHits)
                 /\ vectorHits[Search!At(vectorHits, c)] = c /\ c.vec >= 1
           /\ \A c \in Search!GoodText :
                 /\ Search!At(textHits, c) \in 1..Len(textHits)
                 /\ textHits[Search!At(textHits, c)] = c /\ c.text >= 1
<1> USE DEF TwoAnswers, RankedBy
<1>1. /\ DOMAIN vectorHits = 1..Len(vectorHits) /\ Len(vectorHits) \in Nat
      /\ DOMAIN textHits = 1..Len(textHits) /\ Len(textHits) \in Nat
    OBVIOUS
<1>2. ASSUME NEW c \in Search!GoodVector
      PROVE  /\ Search!At(vectorHits, c) \in 1..Len(vectorHits)
             /\ vectorHits[Search!At(vectorHits, c)] = c /\ c.vec >= 1
    <2>1. c.vec >= 1 /\ \E i \in DOMAIN vectorHits : vectorHits[i] = c
        BY SameOperators DEF Search!GoodVector
    <2> QED BY <1>1, <2>1, PlacesOf
<1>3. ASSUME NEW c \in Search!GoodText
      PROVE  /\ Search!At(textHits, c) \in 1..Len(textHits)
             /\ textHits[Search!At(textHits, c)] = c /\ c.text >= 1
    <2>1. c.text >= 1 /\ \E i \in DOMAIN textHits : textHits[i] = c
        BY SameOperators DEF Search!GoodText
    <2> QED BY <1>1, <2>1, PlacesOf
<1>4. /\ Search!GoodVector \subseteq Members(vectorHits) /\ Search!GoodText \subseteq Members(textHits)
      /\ Members(vectorHits) \subseteq Search!Chunk /\ Members(textHits) \subseteq Search!Chunk
    BY SameOperators DEF Search!GoodVector, Search!GoodText, Members
<1>5. ASSUME NEW s \in Seq(Search!Chunk) PROVE IsFiniteSet(Members(s))
    <2>0. DOMAIN s = 1..Len(s) /\ Len(s) \in Nat
        OBVIOUS
    <2>1. IsFiniteSet(DOMAIN s)
        <3> DEFINE n == Len(s)
        <3>1. n \in Nat
            BY <2>0
        <3> HIDE DEF n
        <3>2. IsFiniteSet(1..n)
            BY <3>1, FS_Interval
        <3> QED BY <2>0, <3>2 DEF n
    <2>2. s \in Surjection(DOMAIN s, Members(s))
        BY DEF Surjection, Members
    <2> QED BY <2>1, <2>2, FS_Surjection
<1>6. IsFiniteSet(Search!GoodVector) /\ IsFiniteSet(Search!GoodText)
    BY <1>4, <1>5, FS_Subset
<1>7. IsFiniteSet(Search!Pool)
    BY <1>6, FS_Union DEF Search!Pool
<1> QED BY <1>2, <1>3, <1>4, <1>7 DEF Search!Pool

LEMMA TopOf ==
    ASSUME NEW S \in SUBSET (0..2), S # {}
    PROVE  Max(S) \in S /\ \A x \in S : x <= Max(S)
<1>1. \E x \in S : \A y \in S : x >= y
    <2>1. CASE 2 \in S
        BY <2>1
    <2>2. CASE 2 \notin S /\ 1 \in S
        BY <2>2
    <2>3. CASE 2 \notin S /\ 1 \notin S
        <3>1. S = {0}
            <4>1. \A x \in S : x = 0 \/ x = 1 \/ x = 2
                OBVIOUS
            <4> QED BY <2>3, <4>1
        <3> QED BY <3>1
    <2> QED BY <2>1, <2>2, <2>3
<1> QED BY <1>1 DEF Max

LEMMA EvidenceOf ==
    ASSUME TwoAnswers, NEW c \in Search!Pool
    PROVE  /\ Search!Evidence(c) \in 1..2
           /\ Search!Evidence(c) \in Search!GoodOf(c) /\ Search!Evidence(c) = Max(Search!GoodOf(c))
           /\ c \notin Search!GoodText => Search!Evidence(c) = c.vec
           /\ c \notin Search!GoodVector => Search!Evidence(c) = c.text
<1> DEFINE good == {c.vec : x \in Search!GoodVector \cap {c}} \cup {c.text : x \in Search!GoodText \cap {c}}
<1>1. c \in Search!Chunk /\ c.vec \in 0..2 /\ c.text \in 0..2
    BY PoolIsFound, FieldsOfChunks
<1>2. c \in Search!GoodVector \/ c \in Search!GoodText
    BY DEF Search!Pool
<1>3. good \in SUBSET (1..2) /\ good # {}
    BY <1>1, <1>2, PoolIsFound
<1>4. Search!GoodOf(c) = good
    <2>1. /\ c \in Search!GoodVector <=> c \in Search!ToSet(vectorHits) /\ c.vec >= 1
          /\ c \in Search!GoodText <=> c \in Search!ToSet(textHits) /\ c.text >= 1
        BY DEF Search!GoodVector, Search!GoodText
    <2> QED BY <2>1 DEF Search!GoodOf
<1>5. Search!Evidence(c) = Max({0} \cup good)
    <2>1. /\ "vector" \in Search!Matched(c) <=> c \in Search!GoodVector
          /\ "fulltext" \in Search!Matched(c) <=> c \in Search!GoodText
        BY DEF Search!Matched
    <2>2. /\ {c.vec : x \in Search!Matched(c) \cap {"vector"}} = {c.vec : x \in Search!GoodVector \cap {c}}
          /\ {c.text : x \in Search!Matched(c) \cap {"fulltext"}} = {c.text : x \in Search!GoodText \cap {c}}
        BY <2>1
    <2>3. {0} \cup {c.vec : x \in Search!Matched(c) \cap {"vector"}} \cup {c.text : x \in Search!Matched(c) \cap {"fulltext"}}
             = {0} \cup good
        BY <2>2
    <2> HIDE DEF good
    <2> QED BY <2>3, SameOperators DEF Search!Evidence
<1>6. c \notin Search!GoodText => good = {c.vec}
    BY <1>2
<1>7. c \notin Search!GoodVector => good = {c.text}
    BY <1>2
<1> HIDE DEF good
<1>8. /\ Max(good) \in good /\ \A x \in good : x <= Max(good)
      /\ Max({0} \cup good) \in {0} \cup good /\ \A x \in {0} \cup good : x <= Max({0} \cup good)
    <2>1. good \in SUBSET (0..2) /\ {0} \cup good \in SUBSET (0..2) /\ {0} \cup good # {}
        BY <1>3
    <2> QED BY <1>3, <2>1, TopOf
<1>9. Max({0} \cup good) = Max(good) /\ Max(good) \in 1..2
    <2>1. Max(good) \in 1..2
        BY <1>3, <1>8
    <2>2. Max({0} \cup good) \in good
        BY <1>8, <2>1
    <2>3. Max({0} \cup good) \in 1..2
        BY <1>3, <2>2
    <2> QED BY <1>8, <2>1, <2>2, <2>3
<1> QED BY <1>4, <1>5, <1>6, <1>7, <1>8, <1>9

LEMMA RanksAreNatural ==
    ASSUME NEW s \in Seq(Search!Chunk), NEW good, NEW a, NEW b,
           Search!At(s, a) \in Nat, Search!At(s, b) \in Nat, Search!At(s, a) <= Search!At(s, b)
    PROVE  /\ Search!Rank(s, good, a) \in Nat /\ Search!Rank(s, good, b) \in Nat
           /\ Search!Rank(s, good, a) <= Search!Rank(s, good, b)
<1> DEFINE I == {i \in 1..Search!At(s, a) : s[i] \in good}
           J == {i \in 1..Search!At(s, b) : s[i] \in good}
<1>1. IsFiniteSet(1..Search!At(s, a)) /\ IsFiniteSet(1..Search!At(s, b))
    BY FS_Interval
<1>2. I \subseteq 1..Search!At(s, a) /\ J \subseteq 1..Search!At(s, b) /\ I \subseteq J
    OBVIOUS
<1>3. Search!Rank(s, good, a) = Cardinality(I) /\ Search!Rank(s, good, b) = Cardinality(J)
    BY SameOperators DEF Search!Rank
<1> HIDE DEF I, J
<1>4. IsFiniteSet(I) /\ IsFiniteSet(J)
    BY <1>1, <1>2, FS_Subset
<1>5. Cardinality(I) \in Nat /\ Cardinality(J) \in Nat /\ Cardinality(I) <= Cardinality(J)
    BY <1>2, <1>4, FS_CardinalityType, FS_Subset
<1> QED BY <1>3, <1>5

LEMMA FusedOf ==
    ASSUME TwoAnswers, NEW c \in Search!Pool
    PROVE  Search!Fused(c) \in Nat /\ Search!Key(c) \in Nat
<1> DEFINE v == Search!Share(Search!Rank(vectorHits, Search!GoodVector, c))
           t == Search!Share(Search!Rank(textHits, Search!GoodText, c))
<1>1. c \in Search!GoodVector => v \in Nat
    <2> SUFFICES ASSUME c \in Search!GoodVector PROVE v \in Nat
        OBVIOUS
    <2>1. Search!At(vectorHits, c) \in Nat
        BY PoolIsFound
    <2>2. Search!Rank(vectorHits, Search!GoodVector, c) \in Nat
        BY <2>1, RanksAreNatural DEF TwoAnswers
    <2> QED BY <2>2, SharesFall
<1>2. c \in Search!GoodText => t \in Nat
    <2> SUFFICES ASSUME c \in Search!GoodText PROVE t \in Nat
        OBVIOUS
    <2>1. Search!At(textHits, c) \in Nat
        BY PoolIsFound
    <2>2. Search!Rank(textHits, Search!GoodText, c) \in Nat
        BY <2>1, RanksAreNatural DEF TwoAnswers
    <2> QED BY <2>2, SharesFall
<1>3. Search!Fused(c) = (IF c \in Search!GoodVector THEN 7 * v ELSE 0) + (IF c \in Search!GoodText THEN 3 * t ELSE 0)
    BY DEF Search!Fused
<1> HIDE DEF v, t
<1>4. Search!Fused(c) \in Nat
    BY <1>1, <1>2, <1>3
<1>5. Search!Evidence(c) \in Nat
    BY EvidenceOf
<1> QED BY <1>4, <1>5 DEF Search!Key

LEMMA EnteredOnce ==
    ASSUME TwoAnswers, NEW c \in Search!Pool
    PROVE  /\ Search!Entered(c) \in Nat
           /\ \A d \in Search!Pool : Search!Entered(c) = Search!Entered(d) => c = d
<1> DEFINE n == Len(vectorHits)
<1>1. n \in Nat /\ Len(textHits) \in Nat
    BY DEF TwoAnswers
<1>2. ASSUME NEW d \in Search!Pool
      PROVE  \/ /\ d \in Search!GoodVector /\ Search!Entered(d) \in 1..n /\ vectorHits[Search!Entered(d)] = d
             \/ /\ d \notin Search!GoodVector /\ Search!Entered(d) - n \in 1..Len(textHits)
                /\ textHits[Search!Entered(d) - n] = d /\ Search!Entered(d) \in Nat
    <2>1. CASE d \in Search!GoodVector
        BY <2>1, PoolIsFound DEF Search!Entered
    <2>2. CASE d \notin Search!GoodVector
        <3>1. d \in Search!GoodText
            BY <2>2 DEF Search!Pool
        <3> DEFINE i == Search!At(textHits, d)
        <3>2. i \in 1..Len(textHits) /\ textHits[i] = d
            BY <3>1, PoolIsFound
        <3>3. Search!Entered(d) = n + i
            BY <2>2 DEF Search!Entered
        <3> HIDE DEF i
        <3>4. Search!Entered(d) - n = i
            BY <1>1, <3>2, <3>3
        <3> QED BY <1>1, <2>2, <3>2, <3>3, <3>4
    <2> QED BY <2>1, <2>2
<1> HIDE DEF n
<1>3. Search!Entered(c) \in Nat
    BY <1>1, <1>2
<1>4. ASSUME NEW d \in Search!Pool, Search!Entered(c) = Search!Entered(d) PROVE c = d
    BY <1>1, <1>2, <1>4
<1> QED BY <1>3, <1>4

LEMMA BetterIsOrdered == ASSUME TwoAnswers PROVE Ordered(Search!Better, Search!Pool)
<1>1. ASSUME NEW a \in Search!Pool, NEW b \in Search!Pool
      PROVE  <<a, b>> \in Search!Better <=> \/ Search!Key(a) > Search!Key(b)
                                            \/ /\ Search!Key(a) = Search!Key(b)
                                               /\ Search!Entered(a) < Search!Entered(b)
    BY DEF Search!Better
<1>2. \A c \in Search!Pool : Search!Key(c) \in Nat /\ Search!Entered(c) \in Nat
    BY FusedOf, EnteredOnce
<1>3. \A c, d \in Search!Pool : Search!Entered(c) = Search!Entered(d) => c = d
    BY EnteredOnce
<1>4. ASSUME NEW a \in Search!Pool, NEW b \in Search!Pool
      PROVE  /\ a # b => <<a, b>> \in Search!Better \/ <<b, a>> \in Search!Better
             /\ ~(<<a, b>> \in Search!Better /\ <<b, a>> \in Search!Better)
    BY <1>1, <1>2, <1>3
<1>5. ASSUME NEW a \in Search!Pool, NEW b \in Search!Pool, NEW c \in Search!Pool,
             <<a, b>> \in Search!Better, <<b, c>> \in Search!Better
      PROVE  <<a, c>> \in Search!Better
    BY <1>1, <1>2, <1>5
<1> QED BY <1>4, <1>5 DEF Ordered

\* The result: the best of the pool in their order.
Fusion == First(InOrder(Search!Better, Search!Pool), 2)
Result ==
    hits = [k \in DOMAIN Fusion |->
              [chunk |-> Fusion[k], evidence |-> Search!Evidence(Fusion[k]), matched |-> Search!Matched(Fusion[k])]]

LEMMA ResultGives ==
    ASSUME TwoAnswers, Result
    PROVE  /\ Cardinality(Search!Pool) \in Nat
           /\ hits \in Seq([chunk : Search!Pool, evidence : 1..2, matched : SUBSET {"vector", "fulltext"}])
           /\ Len(hits) = Min({2, Cardinality(Search!Pool)}) /\ Len(hits) \in Nat
           /\ \A i \in 1..Len(hits) : hits[i].chunk \in Search!Pool /\ hits[i].evidence = Search!Evidence(hits[i].chunk)
           /\ \A i, j \in 1..Len(hits) : hits[i].chunk = hits[j].chunk => i = j
           /\ \A j \in 1..Len(hits) : \A a \in Search!Pool :
                 <<a, hits[j].chunk>> \in Search!Better => \E i \in 1..Len(hits) : i < j /\ hits[i].chunk = a
<1> DEFINE pool == Search!Pool
           before == Search!Better
           all == InOrder(before, pool)
           n == Cardinality(pool)
           f == Fusion
<1>1. IsFiniteSet(pool) /\ Ordered(before, pool)
    BY PoolIsFound, BetterIsOrdered
<1> HIDE DEF before, pool
<1>2. /\ all \in Seq(pool) /\ Len(all) = n /\ n \in Nat
      /\ \A i, j \in 1..n : /\ all[i] \in pool
                            /\ all[i] = all[j] => i = j
                            /\ <<all[i], all[j]>> \in before => i < j
      /\ \A m \in pool : \E i \in 1..n : all[i] = m
    BY <1>1, InOrderGives
<1>3. f = First(all, 2)
    BY DEF Fusion, pool, before
<1> HIDE DEF all, n, f
<1>4. /\ f \in Seq(pool) /\ Len(f) \in Nat /\ Len(f) <= 2 /\ Len(f) <= n
      /\ Len(f) = 2 \/ Len(f) = n
      /\ \A i \in 1..Len(f) : f[i] = all[i]
    <2>1. all \in Seq(pool) /\ 2 \in Nat /\ Len(all) = n
        BY <1>2
    <2>2. /\ First(all, 2) \in Seq(pool) /\ Len(First(all, 2)) \in Nat
          /\ Len(First(all, 2)) <= 2 /\ Len(First(all, 2)) <= Len(all)
          /\ Len(First(all, 2)) = 2 \/ Len(First(all, 2)) = Len(all)
          /\ \A i \in 1..Len(First(all, 2)) : First(all, 2)[i] = all[i]
        BY <2>1, FirstOf
    <2> QED BY <1>3, <2>1, <2>2
<1>5. DOMAIN f = 1..Len(f)
    BY <1>4
<1>6. hits = [k \in 1..Len(f) |-> [chunk |-> f[k], evidence |-> Search!Evidence(f[k]), matched |-> Search!Matched(f[k])]]
    BY <1>5 DEF Result, f
<1>7. ASSUME NEW k \in 1..Len(f)
      PROVE  /\ hits[k] \in [chunk : pool, evidence : 1..2, matched : SUBSET {"vector", "fulltext"}]
             /\ hits[k].chunk = f[k] /\ hits[k].evidence = Search!Evidence(f[k])
    <2>1. hits[k] = [chunk |-> f[k], evidence |-> Search!Evidence(f[k]), matched |-> Search!Matched(f[k])]
        BY <1>6
    <2>2. f[k] \in pool
        BY <1>4
    <2>3. Search!Evidence(f[k]) \in 1..2
        BY <2>2, EvidenceOf DEF pool
    <2>4. Search!Matched(f[k]) \in SUBSET {"vector", "fulltext"}
        BY DEF Search!Matched
    <2> QED BY <2>1, <2>2, <2>3, <2>4
<1>8. hits \in Seq([chunk : pool, evidence : 1..2, matched : SUBSET {"vector", "fulltext"}]) /\ Len(hits) = Len(f)
    <2> DEFINE R == [chunk : pool, evidence : 1..2, matched : SUBSET {"vector", "fulltext"}]
    <2>1. hits = [k \in 1..Len(f) |-> hits[k]] /\ \A k \in 1..Len(f) : hits[k] \in R
        BY <1>6, <1>7
    <2> HIDE DEF R
    <2>2. hits \in Seq(R) /\ Len(hits) = Len(f)
        BY <1>4, <2>1
    <2> QED BY <2>2 DEF R
<1>9. Len(f) = Min({2, n})
    <2>1. 2 \in Nat /\ n \in Nat
        BY <1>2
    <2>2. Min({2, n}) \in {2, n} /\ Min({2, n}) <= 2 /\ Min({2, n}) <= n
        BY <2>1, LeastOf
    <2> QED BY <1>4, <2>1, <2>2
<1>10. ASSUME NEW i \in 1..Len(f), NEW j \in 1..Len(f), f[i] = f[j] PROVE i = j
    <2>1. i \in 1..n /\ j \in 1..n /\ all[i] = all[j]
        BY <1>2, <1>4, <1>10, SMTT(30)
    <2> QED BY <1>2, <2>1
<1>11. ASSUME NEW j \in 1..Len(f), NEW a \in pool, <<a, f[j]>> \in before
       PROVE  \E i \in 1..Len(f) : i < j /\ f[i] = a
    <2>1. PICK i \in 1..n : all[i] = a
        BY <1>2
    <2>2. j \in 1..n /\ f[j] = all[j]
        BY <1>2, <1>4
    <2>3. i < j
        BY <1>2, <1>11, <2>1, <2>2
    <2>4. i \in 1..Len(f) /\ f[i] = a
        BY <1>2, <1>4, <2>1, <2>2, <2>3
    <2> QED BY <2>3, <2>4
<1>12. ASSUME NEW j \in 1..Len(f), NEW a \in pool, <<a, hits[j].chunk>> \in before
       PROVE  \E i \in 1..Len(f) : i < j /\ hits[i].chunk = a
    BY <1>7, <1>11, <1>12
<1>13. \A i \in 1..Len(hits) : hits[i].chunk \in pool /\ hits[i].evidence = Search!Evidence(hits[i].chunk)
    BY <1>4, <1>7, <1>8
<1>14. \A i, j \in 1..Len(hits) : hits[i].chunk = hits[j].chunk => i = j
    BY <1>7, <1>8, <1>10
<1>15. n \in Nat /\ Len(hits) = Min({2, n}) /\ Len(hits) \in Nat
    BY <1>2, <1>4, <1>8, <1>9
<1>16. \A j \in 1..Len(hits) : \A a \in pool :
          <<a, hits[j].chunk>> \in before => \E i \in 1..Len(hits) : i < j /\ hits[i].chunk = a
    BY <1>8, <1>12
<1> QED BY <1>8, <1>13, <1>14, <1>15, <1>16 DEF pool, before, n

LEMMA ResultIsComplete ==
    ASSUME TwoAnswers, Result, Members(vectorHits) \cup Members(textHits) \subseteq seen
    PROVE  Search!HitsComplete
<1> DEFINE found1 == {c \in Search!ToSet(vectorHits) \cup Search!ToSet(textHits) : Search!GoodOf(c) # {}}
<1>1. found1 = Search!Pool
    <2>1. ASSUME NEW c
          PROVE  /\ Search!GoodOf(c) # {} <=> \/ c \in Search!ToSet(vectorHits) /\ c.vec >= 1
                                              \/ c \in Search!ToSet(textHits) /\ c.text >= 1
        BY DEF Search!GoodOf
    <2>2. ASSUME NEW c
          PROVE  c \in Search!Pool <=> \/ c \in Search!ToSet(vectorHits) /\ c.vec >= 1
                                       \/ c \in Search!ToSet(textHits) /\ c.text >= 1
        BY DEF Search!Pool, Search!GoodVector, Search!GoodText
    <2> QED BY <2>1, <2>2
<1>2. DOMAIN hits = 1..Len(hits)
    <2> DEFINE R == [chunk : Search!Pool, evidence : 1..2, matched : SUBSET {"vector", "fulltext"}]
    <2>1. hits \in Seq(R)
        BY ResultGives
    <2> HIDE DEF R
    <2> QED BY <2>1
<1>3. \A i, j \in DOMAIN hits : hits[i].chunk = hits[j].chunk => i = j
    BY <1>2, ResultGives
<1>4. \A i \in DOMAIN hits : hits[i].chunk \in seen
    BY <1>2, ResultGives, PoolIsFound
<1> HIDE DEF found1
<1>5. Len(hits) = Search!Min({2, Search!Cardinality(found1)})
    BY <1>1, ResultGives, SameOperators
<1> QED BY <1>3, <1>4, <1>5 DEF Search!HitsComplete, found1

LEMMA ResultIsScored == ASSUME TwoAnswers, Result PROVE Search!EvidenceIsAScore
<1>1. DOMAIN hits = 1..Len(hits)
    <2> DEFINE R == [chunk : Search!Pool, evidence : 1..2, matched : SUBSET {"vector", "fulltext"}]
    <2>1. hits \in Seq(R)
        BY ResultGives
    <2> HIDE DEF R
    <2> QED BY <2>1
<1>2. ASSUME NEW i \in DOMAIN hits
      PROVE  /\ hits[i].evidence \in Search!GoodOf(hits[i].chunk)
             /\ hits[i].evidence = Search!Max(Search!GoodOf(hits[i].chunk))
    <2>1. hits[i].chunk \in Search!Pool /\ hits[i].evidence = Search!Evidence(hits[i].chunk)
        BY <1>1, ResultGives
    <2> QED BY <2>1, EvidenceOf, SameOperators
<1> QED BY <1>2 DEF Search!EvidenceIsAScore

\* A chunk that both channels put before another comes first in the pool.
LEMMA DominantIsBetter ==
    ASSUME TwoAnswers, NEW a \in seen, NEW b \in Search!Pool, a # b, seen \subseteq Search!Chunk,
           Search!Before(vectorHits, "vec", a, b), Search!Before(textHits, "text", a, b)
    PROVE  a \in Search!Pool /\ <<a, b>> \in Search!Better
<1> DEFINE GV == Search!GoodVector
           GT == Search!GoodText
<1>1. b \in Search!Chunk /\ a \in Search!Chunk
    BY PoolIsFound
<1>2. ASSUME b \in GV
      PROVE  /\ a \in GV /\ Search!At(vectorHits, a) < Search!At(vectorHits, b)
             /\ a.vec >= b.vec
    <2>1. b \in Search!ToSet(vectorHits) /\ b["vec"] >= 1
        BY <1>1, <1>2, FieldsOfChunks DEF Search!GoodVector
    <2>2. a["vec"] >= 1 /\ \E i, j \in DOMAIN vectorHits : i < j /\ vectorHits[i] = a /\ vectorHits[j] = b
        BY <2>1 DEF Search!Before
    <2>3. PICK i \in DOMAIN vectorHits, j \in DOMAIN vectorHits : i < j /\ vectorHits[i] = a /\ vectorHits[j] = b
        BY <2>2
    <2>4. Search!At(vectorHits, a) = i /\ Search!At(vectorHits, b) = j
        BY <2>3, PlacesOf DEF TwoAnswers, RankedBy
    <2>5. a \in GV
        BY <1>1, <2>2, <2>3, FieldsOfChunks, SameOperators DEF Search!GoodVector
    <2>6. a["vec"] >= b["vec"]
        BY <2>3 DEF TwoAnswers, RankedBy
    <2> QED BY <1>1, <2>3, <2>4, <2>5, <2>6, FieldsOfChunks
<1>3. ASSUME b \in GT
      PROVE  /\ a \in GT /\ Search!At(textHits, a) < Search!At(textHits, b)
             /\ a.text >= b.text
    <2>1. b \in Search!ToSet(textHits) /\ b["text"] >= 1
        BY <1>1, <1>3, FieldsOfChunks DEF Search!GoodText
    <2>2. a["text"] >= 1 /\ \E i, j \in DOMAIN textHits : i < j /\ textHits[i] = a /\ textHits[j] = b
        BY <2>1 DEF Search!Before
    <2>3. PICK i \in DOMAIN textHits, j \in DOMAIN textHits : i < j /\ textHits[i] = a /\ textHits[j] = b
        BY <2>2
    <2>4. Search!At(textHits, a) = i /\ Search!At(textHits, b) = j
        BY <2>3, PlacesOf DEF TwoAnswers, RankedBy
    <2>5. a \in GT
        BY <1>1, <2>2, <2>3, FieldsOfChunks, SameOperators DEF Search!GoodText
    <2>6. a["text"] >= b["text"]
        BY <2>3 DEF TwoAnswers, RankedBy
    <2> QED BY <1>1, <2>3, <2>4, <2>5, <2>6, FieldsOfChunks
<1>4. b \in GV \/ b \in GT
    BY DEF Search!Pool
<1>5. a \in Search!Pool
    BY <1>2, <1>3, <1>4 DEF Search!Pool
<1>6. Search!Entered(a) < Search!Entered(b)
    <2>0. Len(vectorHits) \in Nat
        BY DEF TwoAnswers
    <2>1. CASE b \in GV
        BY <1>2, <2>1 DEF Search!Entered
    <2>2. CASE b \notin GV
        <3>1. b \in GT /\ a \in GT
            BY <1>3, <1>4, <2>2
        <3>2. /\ Search!At(textHits, a) \in Nat /\ Search!At(textHits, b) \in Nat /\ Search!At(textHits, b) >= 1
              /\ Search!At(textHits, a) < Search!At(textHits, b)
            BY <1>3, <3>1, PoolIsFound
        <3>3. a \in GV => Search!At(vectorHits, a) \in 1..Len(vectorHits)
            BY PoolIsFound
        <3> QED BY <2>0, <2>2, <3>2, <3>3 DEF Search!Entered
    <2> QED BY <2>1, <2>2
<1>7. Search!Fused(a) >= Search!Fused(b)
    <2> DEFINE va == Search!Share(Search!Rank(vectorHits, GV, a))
               vb == Search!Share(Search!Rank(vectorHits, GV, b))
               ta == Search!Share(Search!Rank(textHits, GT, a))
               tb == Search!Share(Search!Rank(textHits, GT, b))
    <2>1. b \in GV => a \in GV /\ va \in Nat /\ vb \in Nat /\ vb <= va
        <3> SUFFICES ASSUME b \in GV PROVE a \in GV /\ va \in Nat /\ vb \in Nat /\ vb <= va
            OBVIOUS
        <3>1. a \in GV
            BY <1>2
        <3>2. /\ Search!At(vectorHits, a) \in Nat /\ Search!At(vectorHits, b) \in Nat
              /\ Search!At(vectorHits, a) <= Search!At(vectorHits, b)
            BY <1>2, <3>1, PoolIsFound
        <3>3. /\ Search!Rank(vectorHits, GV, a) \in Nat /\ Search!Rank(vectorHits, GV, b) \in Nat
              /\ Search!Rank(vectorHits, GV, a) <= Search!Rank(vectorHits, GV, b)
            BY <3>2, RanksAreNatural DEF TwoAnswers
        <3> QED BY <3>1, <3>3, SharesFall
    <2>2. b \in GT => a \in GT /\ ta \in Nat /\ tb \in Nat /\ tb <= ta
        <3> SUFFICES ASSUME b \in GT PROVE a \in GT /\ ta \in Nat /\ tb \in Nat /\ tb <= ta
            OBVIOUS
        <3>1. a \in GT
            BY <1>3
        <3>2. /\ Search!At(textHits, a) \in Nat /\ Search!At(textHits, b) \in Nat
              /\ Search!At(textHits, a) <= Search!At(textHits, b)
            BY <1>3, <3>1, PoolIsFound
        <3>3. /\ Search!Rank(textHits, GT, a) \in Nat /\ Search!Rank(textHits, GT, b) \in Nat
              /\ Search!Rank(textHits, GT, a) <= Search!Rank(textHits, GT, b)
            BY <3>2, RanksAreNatural DEF TwoAnswers
        <3> QED BY <3>1, <3>3, SharesFall
    <2>3. /\ a \in GV => va \in Nat
          /\ a \in GT => ta \in Nat
        <3>1. ASSUME a \in GV PROVE va \in Nat
            <4>1. Search!At(vectorHits, a) \in Nat
                BY <3>1, PoolIsFound
            <4>2. Search!Rank(vectorHits, GV, a) \in Nat
                BY <4>1, RanksAreNatural DEF TwoAnswers
            <4> QED BY <4>2, SharesFall
        <3>2. ASSUME a \in GT PROVE ta \in Nat
            <4>1. Search!At(textHits, a) \in Nat
                BY <3>2, PoolIsFound
            <4>2. Search!Rank(textHits, GT, a) \in Nat
                BY <4>1, RanksAreNatural DEF TwoAnswers
            <4> QED BY <4>2, SharesFall
        <3> QED BY <3>1, <3>2
    <2>4. /\ Search!Fused(a) = (IF a \in GV THEN 7 * va ELSE 0) + (IF a \in GT THEN 3 * ta ELSE 0)
          /\ Search!Fused(b) = (IF b \in GV THEN 7 * vb ELSE 0) + (IF b \in GT THEN 3 * tb ELSE 0)
        BY DEF Search!Fused
    <2> HIDE DEF va, vb, ta, tb, GV, GT
    <2> QED BY <2>1, <2>2, <2>3, <2>4
<1>8. Search!Key(a) >= Search!Key(b)
    <2>1. CASE GV # {} /\ GT # {}
        BY <1>7, <2>1 DEF Search!Key
    <2>2. CASE GT = {}
        <3>1. b \in GV /\ a \in GV
            BY <1>2, <1>4, <2>2
        <3>2. Search!Evidence(a) = a.vec /\ Search!Evidence(b) = b.vec
            BY <1>5, <2>2, EvidenceOf
        <3> QED BY <1>2, <2>2, <3>1, <3>2 DEF Search!Key
    <2>3. CASE GV = {}
        <3>1. b \in GT /\ a \in GT
            BY <1>3, <1>4, <2>3
        <3>2. Search!Evidence(a) = a.text /\ Search!Evidence(b) = b.text
            BY <1>5, <2>3, EvidenceOf
        <3> QED BY <1>3, <2>3, <3>1, <3>2 DEF Search!Key
    <2> QED BY <2>1, <2>2, <2>3
<1>9. Search!Key(a) \in Nat /\ Search!Key(b) \in Nat
    BY <1>5, FusedOf
<1>10. <<a, b>> \in Search!Better <=> \/ Search!Key(a) > Search!Key(b)
                                      \/ Search!Key(a) = Search!Key(b) /\ Search!Entered(a) < Search!Entered(b)
    BY <1>5 DEF Search!Better
<1> QED BY <1>5, <1>6, <1>8, <1>9, <1>10

LEMMA DominanceStays ==
    ASSUME TwoAnswers, Result, seen \subseteq Search!Chunk
    PROVE  Search!DominanceKept
<1> SUFFICES ASSUME NEW a \in seen, NEW b \in seen, a # b,
                    Search!Before(vectorHits, "vec", a, b), Search!Before(textHits, "text", a, b),
                    \E k \in DOMAIN hits : hits[k].chunk = b
             PROVE  \E i, j \in DOMAIN hits : i < j /\ hits[i].chunk = a /\ hits[j].chunk = b
    BY DEF Search!DominanceKept
<1>1. DOMAIN hits = 1..Len(hits)
    <2> DEFINE R == [chunk : Search!Pool, evidence : 1..2, matched : SUBSET {"vector", "fulltext"}]
    <2>1. hits \in Seq(R)
        BY ResultGives
    <2> HIDE DEF R
    <2> QED BY <2>1
<1>2. PICK j \in 1..Len(hits) : hits[j].chunk = b
    BY <1>1
<1>3. b \in Search!Pool
    BY <1>2, ResultGives
<1>4. a \in Search!Pool /\ <<a, b>> \in Search!Better
    BY <1>3, DominantIsBetter
<1>5. \E i \in 1..Len(hits) : i < j /\ hits[i].chunk = a
    BY <1>2, <1>4, ResultGives
<1> QED BY <1>1, <1>2, <1>5

-----------------------------------------------------------------------------
(* HybridSearch: the inductive invariant.                                    *)

SearchTypes ==
    /\ index \subseteq Search!Chunk /\ IsFiniteSet(index)
    /\ version \in [Files -> 1..2] /\ changes \in 0..1
    /\ \A f \in Files : version[f] <= changes + 1
    /\ \A c \in index : c.version = version[c.file]
    /\ at \in {"vector", "text", "fuse", "done"}
SearchInv ==
    /\ SearchTypes /\ TwoAnswers
    /\ seen \subseteq Search!Chunk /\ Members(vectorHits) \cup Members(textHits) \subseteq seen
    /\ at # "done" => hits = <<>>
    /\ at \in {"vector", "text"} => textHits = <<>>
    /\ at = "done" => Result

LEMMA NothingIsRanked == \A score : RankedBy(<<>>, score) /\ Members(<<>>) = {} /\ <<>> \in Seq(Search!Chunk)
BY DEF RankedBy, Members

LEMMA SearchStarts == ASSUME Search!SearchAssumption, Search!Init PROVE SearchInv
<1>1. PICK s \in [Files -> (0..2) \X (0..2)] :
         index = {[file |-> f, version |-> 1, vec |-> s[f][1], text |-> s[f][2]] : f \in Files}
    BY DEF Search!Init
<1>2. ASSUME NEW f \in Files
      PROVE  [file |-> f, version |-> 1, vec |-> s[f][1], text |-> s[f][2]] \in Search!Chunk
    <2>1. s[f][1] \in 0..2 /\ s[f][2] \in 0..2
        OBVIOUS
    <2> QED BY <2>1 DEF Search!Chunk
<1>3. index \subseteq Search!Chunk /\ \A c \in index : c.file \in Files /\ c.version = 1
    BY <1>1, <1>2
<1>4. IsFiniteSet(index)
    <2> DEFINE row == [f \in Files |-> [file |-> f, version |-> 1, vec |-> s[f][1], text |-> s[f][2]]]
    <2>1. row \in Surjection(Files, index)
        BY <1>1 DEF Surjection
    <2> HIDE DEF row
    <2>2. IsFiniteSet(Files)
        BY DEF Search!SearchAssumption, Search!IsFiniteSet, IsFiniteSet
    <2> QED BY <2>1, <2>2, FS_Surjection
<1>5. /\ version = [f \in Files |-> 1] /\ changes = 0 /\ at = "vector" /\ seen = {}
      /\ vectorHits = <<>> /\ textHits = <<>> /\ hits = <<>>
    BY DEF Search!Init
<1>6. SearchTypes
    <2>1. \A f \in Files : version[f] = 1
        BY <1>5
    <2> QED BY <1>3, <1>4, <1>5, <2>1 DEF SearchTypes
<1>7. TwoAnswers /\ Members(vectorHits) = {} /\ Members(textHits) = {}
    BY <1>5, NothingIsRanked DEF TwoAnswers
<1> QED BY <1>5, <1>6, <1>7 DEF SearchInv

\* What a query with a limit may answer.
LEMMA AnswersGive ==
    ASSUME NEW set, set \subseteq Search!Chunk, IsFiniteSet(set), NEW score, NEW n \in Nat,
           NEW s \in Search!Answers(set, score, n)
    PROVE  s \in Seq(Search!Chunk) /\ RankedBy(s, score) /\ Members(s) \subseteq set
<1> DEFINE top == Cardinality(set)
<1>1. top \in Nat
    BY FS_CardinalityType
<1>2. PICK q \in Search!SetToSeqs(set) :
         /\ \A i, j \in DOMAIN q : i < j => q[i][score] >= q[j][score]
         /\ s = Search!First(q, n)
    BY DEF Search!Answers
<1>3. q \in [1..top -> set] /\ \A i, j \in 1..top : i # j => q[i] # q[j]
    BY <1>2, SameOperators DEF Search!SetToSeqs
<1> HIDE DEF top
<1>4. q \in Seq(set) /\ Len(q) = top
    BY <1>1, <1>3
<1>5. /\ s \in Seq(set) /\ Len(s) \in Nat /\ Len(s) <= Len(q)
      /\ \A i \in 1..Len(s) : s[i] = q[i]
    BY <1>2, <1>4, FirstOf, SameOperators
<1>6. DOMAIN s = 1..Len(s) /\ DOMAIN q = 1..top
    BY <1>3, <1>5
<1>7. \A i \in DOMAIN s : i \in DOMAIN q /\ i \in Nat /\ s[i] = q[i] /\ s[i] \in set
    BY <1>1, <1>4, <1>5, <1>6
<1>8. RankedBy(s, score)
    BY <1>2, <1>3, <1>6, <1>7 DEF RankedBy
<1>9. Members(s) \subseteq set
    BY <1>7 DEF Members
<1>10. s \in Seq(Search!Chunk)
    BY <1>5
<1> QED BY <1>8, <1>9, <1>10

LEMMA SearchesByVector == ASSUME SearchInv, Search!VectorQuery PROVE SearchInv'
<1> USE DEF SearchInv
<1>1. /\ at = "vector" /\ at' = "text" /\ hits = <<>> /\ textHits = <<>> /\ seen' = index
      /\ vectorHits' \in Search!Answers(index, "vec", 2 * 2)
      /\ UNCHANGED <<index, version, changes, textHits, hits>>
    BY DEF Search!VectorQuery
<1>2. vectorHits' \in Seq(Search!Chunk) /\ RankedBy(vectorHits', "vec") /\ Members(vectorHits') \subseteq index
    <2>1. 2 * 2 \in Nat /\ index \subseteq Search!Chunk /\ IsFiniteSet(index)
        BY DEF SearchTypes
    <2> QED BY <1>1, <2>1, AnswersGive
<1>3. SearchTypes'
    BY <1>1 DEF SearchTypes
<1>4. TwoAnswers'
    BY <1>1, <1>2 DEF TwoAnswers
<1>5. (Members(vectorHits) \cup Members(textHits) \subseteq seen)'
    BY <1>1, <1>2, NothingIsRanked
<1>6. (seen \subseteq Search!Chunk)'
    BY <1>1 DEF SearchTypes
<1> QED BY <1>1, <1>3, <1>4, <1>5, <1>6

LEMMA SearchesByText == ASSUME SearchInv, Search!TextQuery PROVE SearchInv'
<1> USE DEF SearchInv
<1> DEFINE words == {c \in index : c.text > 0}
<1>1. /\ at = "text" /\ at' = "fuse" /\ hits = <<>> /\ seen' = seen \cup index
      /\ textHits' \in Search!Answers(words, "text", 2 * 2) \/ textHits' = <<>>
      /\ UNCHANGED <<index, version, changes, vectorHits, hits>>
    BY DEF Search!TextQuery
<1>2. textHits' \in Seq(Search!Chunk) /\ RankedBy(textHits', "text") /\ Members(textHits') \subseteq index
    <2>1. 2 * 2 \in Nat /\ words \subseteq Search!Chunk /\ IsFiniteSet(words) /\ words \subseteq index
        BY FS_Subset DEF SearchTypes
    <2>2. CASE textHits' = <<>>
        BY <2>2, NothingIsRanked
    <2>3. CASE textHits' \in Search!Answers(words, "text", 2 * 2)
        <3> HIDE DEF words
        <3> QED BY <2>1, <2>3, AnswersGive
    <2> QED BY <1>1, <2>2, <2>3
<1>3. SearchTypes'
    BY <1>1 DEF SearchTypes
<1>4. TwoAnswers'
    BY <1>1, <1>2 DEF TwoAnswers
<1>5. (Members(vectorHits) \cup Members(textHits) \subseteq seen)'
    BY <1>1, <1>2
<1>6. (seen \subseteq Search!Chunk)'
    BY <1>1 DEF SearchTypes
<1> QED BY <1>1, <1>3, <1>4, <1>5, <1>6

\* A change of the index leaves the answers alone.
LEMMA OnlyIndexChanges ==
    ASSUME SearchInv, SearchTypes', at = "text", UNCHANGED <<at, vectorHits, textHits, hits, seen>>
    PROVE  SearchInv'
<1>1. TwoAnswers'
    BY DEF SearchInv, TwoAnswers
<1> QED BY <1>1 DEF SearchInv

LEMMA Reindexes == ASSUME SearchInv, NEW f \in Files, Search!Reindex(f) PROVE SearchInv'
<1> USE DEF SearchTypes
<1>1. PICK v \in 0..2, t \in 0..2 :
         /\ version' = [version EXCEPT ![f] = @ + 1]
         /\ index' = {c \in index : c.file # f}
                        \cup {[file |-> f, version |-> version[f] + 1, vec |-> v, text |-> t]}
    BY DEF Search!Reindex, Search!Replaced
<1>2. at = "text" /\ changes < 1 /\ changes' = changes + 1 /\ UNCHANGED <<at, vectorHits, textHits, hits, seen>>
    BY DEF Search!Reindex, Search!Changes
<1>3. SearchTypes
    BY DEF SearchInv
<1> DEFINE chunk == [file |-> f, version |-> version[f] + 1, vec |-> v, text |-> t]
<1>4. changes = 0 /\ changes' = 1 /\ version[f] = 1
    BY <1>2, <1>3
<1>5. chunk \in Search!Chunk /\ chunk.file = f /\ chunk.version = 2
    BY <1>4 DEF Search!Chunk
<1>6. version' \in [Files -> 1..2] /\ version'[f] = 2 /\ \A g \in Files \ {f} : version'[g] = version[g]
    BY <1>1, <1>3, <1>4
<1>7. index' = {c \in index : c.file # f} \cup {chunk}
    BY <1>1
<1> HIDE DEF chunk
<1>8. IsFiniteSet(index')
    <2>1. IsFiniteSet({c \in index : c.file # f})
        BY <1>3, FS_Subset
    <2> QED BY <1>7, <2>1, FS_AddElement
<1>9. index' \subseteq Search!Chunk
    BY <1>3, <1>5, <1>7
<1>10. ASSUME NEW c \in index' PROVE c.version = version'[c.file]
    <2>1. CASE c = chunk
        BY <1>5, <1>6, <2>1
    <2>2. CASE c \in index /\ c.file # f
        <3>1. c.file \in Files /\ c.version = version[c.file]
            BY <1>3, <2>2 DEF Search!Chunk
        <3> QED BY <1>6, <2>2, <3>1
    <2> QED BY <1>7, <2>1, <2>2
<1>11. SearchTypes'
    BY <1>2, <1>3, <1>4, <1>6, <1>8, <1>9, <1>10
<1> QED BY <1>2, <1>11, OnlyIndexChanges

LEMMA Removes == ASSUME SearchInv, NEW f \in Files, Search!RemoveFile(f) PROVE SearchInv'
<1>1. /\ at = "text" /\ changes < 1 /\ changes' = changes + 1 /\ index' = {c \in index : c.file # f}
      /\ UNCHANGED <<version, at, vectorHits, textHits, hits, seen>>
    BY DEF Search!RemoveFile, Search!Changes
<1>2. SearchTypes
    BY DEF SearchInv
<1>3. IsFiniteSet(index') /\ index' \subseteq index
    BY <1>1, <1>2, FS_Subset DEF SearchTypes
<1>4. \A g \in Files : version[g] \in 1..2
    BY <1>2 DEF SearchTypes
<1>5. SearchTypes'
    BY <1>1, <1>2, <1>3, <1>4 DEF SearchTypes
<1> QED BY <1>1, <1>5, OnlyIndexChanges

LEMMA FusionStays ==
    ASSUME UNCHANGED <<vectorHits, textHits>>
    PROVE  /\ Fusion' = Fusion
           /\ \A c : Search!Evidence(c)' = Search!Evidence(c) /\ Search!Matched(c)' = Search!Matched(c)
<1>1. Search!GoodVector' = Search!GoodVector /\ Search!GoodText' = Search!GoodText
    BY DEF Search!GoodVector, Search!GoodText
<1>2. Search!Pool' = Search!Pool
    BY <1>1 DEF Search!Pool
<1>3. \A c : Search!Matched(c)' = Search!Matched(c)
    BY <1>1 DEF Search!Matched
<1>4. \A c : Search!Evidence(c)' = Search!Evidence(c)
    BY <1>3 DEF Search!Evidence
<1>5. \A c : Search!Fused(c)' = Search!Fused(c)
    BY <1>1 DEF Search!Fused
<1>6. \A c : Search!Key(c)' = Search!Key(c)
    BY <1>1, <1>4, <1>5 DEF Search!Key
<1>7. \A c : Search!Entered(c)' = Search!Entered(c)
    BY <1>1 DEF Search!Entered
<1>8. Search!Better' = Search!Better
    BY <1>2, <1>6, <1>7 DEF Search!Better
<1>9. Fusion' = Fusion
    BY <1>2, <1>8 DEF Fusion
<1> QED BY <1>3, <1>4, <1>9

LEMMA Fuses == ASSUME SearchInv, Search!Fuse PROVE SearchInv'
<1> USE DEF SearchInv
<1>1. /\ at = "fuse" /\ at' = "done"
      /\ UNCHANGED <<index, version, changes, vectorHits, textHits, seen>>
      /\ hits' = [k \in DOMAIN Fusion |->
                    [chunk |-> Fusion[k], evidence |-> Search!Evidence(Fusion[k]),
                     matched |-> Search!Matched(Fusion[k])]]
    BY SameOperators DEF Search!Fuse, Fusion
<1>2. SearchTypes' /\ TwoAnswers'
    BY <1>1 DEF SearchTypes, TwoAnswers
<1>3. Result'
    BY <1>1, FusionStays DEF Result
<1> QED BY <1>1, <1>2, <1>3

LEMMA SearchStep ==
    ASSUME SearchInv, Search!Next \/ UNCHANGED <<searchVars, at>>
    PROVE  SearchInv'
<1>1. CASE UNCHANGED <<searchVars, at>>
    <2>1. UNCHANGED <<index, version, changes, vectorHits, textHits, hits, seen, at>>
        BY <1>1 DEF searchVars
    <2>2. SearchTypes' /\ TwoAnswers'
        BY <2>1 DEF SearchInv, SearchTypes, TwoAnswers
    <2>3. at = "done" => Result'
        BY <2>1, FusionStays DEF SearchInv, Result
    <2> QED BY <2>1, <2>2, <2>3 DEF SearchInv
<1> QED BY <1>1, SearchesByVector, SearchesByText, Fuses, Reindexes, Removes DEF Search!Next

LEMMA SearchIsKept ==
    ASSUME SearchInv
    PROVE  Search!TypeOK /\ Search!HitsComplete /\ Search!EvidenceIsAScore /\ Search!DominanceKept
<1> USE DEF SearchInv
<1>1. CASE at = "done"
    <2>1. Search!HitsComplete /\ Search!EvidenceIsAScore /\ Search!DominanceKept
        BY <1>1, ResultIsComplete, ResultIsScored, DominanceStays
    <2>2. ASSUME NEW i \in DOMAIN hits PROVE hits[i].chunk \in Search!Chunk /\ hits[i].evidence \in 0..2
        <3> DEFINE R == [chunk : Search!Pool, evidence : 1..2, matched : SUBSET {"vector", "fulltext"}]
        <3>1. hits \in Seq(R)
            BY <1>1, ResultGives
        <3>2. hits[i] \in R
            <4> HIDE DEF R
            <4> QED BY <3>1
        <3> QED BY <3>2, PoolIsFound
    <2>3. Search!TypeOK
        BY <2>2 DEF Search!TypeOK, SearchTypes, TwoAnswers
    <2> QED BY <2>1, <2>3
<1>2. CASE at # "done"
    <2>1. hits = <<>> /\ DOMAIN hits = {}
        BY <1>2
    <2>2. Search!TypeOK
        BY <2>1 DEF Search!TypeOK, SearchTypes, TwoAnswers
    <2>3. Search!HitsComplete /\ Search!EvidenceIsAScore /\ Search!DominanceKept
        BY <1>2, <2>1 DEF Search!HitsComplete, Search!EvidenceIsAScore, Search!DominanceKept
    <2> QED BY <2>2, <2>3
<1> QED BY <1>1, <1>2

-----------------------------------------------------------------------------
(* LlmContext: how many tokens texts have together.                          *)

TokensIn(f) == UNION {{i} \X (1..f[i]) : i \in 1..Len(f)}

LEMMA TokensAreFinite ==
    ASSUME NEW f \in Seq(Nat)
    PROVE  IsFiniteSet(TokensIn(f)) /\ Prompt!SumOf(f) = Cardinality(TokensIn(f)) /\ Prompt!SumOf(f) \in Nat
<1> DEFINE all == {{i} \X (1..f[i]) : i \in 1..Len(f)}
           one == [i \in 1..Len(f) |-> {i} \X (1..f[i])]
<1>1. IsFiniteSet(1..Len(f))
    BY FS_Interval
<1>2. one \in Surjection(1..Len(f), all)
    BY DEF Surjection
<1>3. IsFiniteSet(all)
    <2> HIDE DEF one, all
    <2> QED BY <1>1, <1>2, FS_Surjection
<1>4. ASSUME NEW i \in 1..Len(f) PROVE IsFiniteSet({i} \X (1..f[i]))
    <2>1. f[i] \in Int /\ 1 \in Int
        OBVIOUS
    <2>2. IsFiniteSet(1..f[i])
        BY <2>1, FS_Interval
    <2>3. IsFiniteSet({i})
        BY FS_Singleton
    <2> QED BY <2>2, <2>3, FS_Product
<1>5. IsFiniteSet(UNION all)
    <2>1. \A T \in all : IsFiniteSet(T)
        BY <1>4
    <2> HIDE DEF all
    <2> QED BY <1>3, <2>1, FS_UNION
<1>6. IsFiniteSet(TokensIn(f))
    BY <1>5 DEF TokensIn
<1>7. Prompt!SumOf(f) = Cardinality(TokensIn(f))
    BY DEF Prompt!SumOf, Prompt!Cardinality, Cardinality, TokensIn
<1> QED BY <1>6, <1>7, FS_CardinalityType

LEMMA SumOfNone == Prompt!SumOf(<<>>) = 0
<1>1. <<>> \in Seq(Nat) /\ TokensIn(<<>>) = {}
    BY DEF TokensIn
<1> QED BY <1>1, TokensAreFinite, FS_EmptySet

\* One more text adds its tokens.
LEMMA SumOfMore ==
    ASSUME NEW f \in Seq(Nat), NEW g \in Seq(Nat), Len(g) = Len(f) + 1,
           \A i \in 1..Len(f) : g[i] = f[i]
    PROVE  Prompt!SumOf(g) = Prompt!SumOf(f) + g[Len(g)]
<1> DEFINE n == Len(g)
           more == {n} \X (1..g[n])
<1>1. n \in Nat /\ n = Len(f) + 1 /\ 1..n = (1..Len(f)) \cup {n} /\ n \notin 1..Len(f) /\ g[n] \in Nat
    OBVIOUS
<1>2. TokensIn(g) = TokensIn(f) \cup more
    <2>1. ASSUME NEW p PROVE p \in TokensIn(g) <=> p \in TokensIn(f) \cup more
        <3>1. p \in TokensIn(g) <=> \E i \in 1..n : p \in {i} \X (1..g[i])
            BY DEF TokensIn
        <3>2. p \in TokensIn(f) <=> \E i \in 1..Len(f) : p \in {i} \X (1..f[i])
            BY DEF TokensIn
        <3>3. (\E i \in 1..n : p \in {i} \X (1..g[i]))
                <=> (\E i \in 1..Len(f) : p \in {i} \X (1..g[i])) \/ p \in more
            BY <1>1
        <3>4. (\E i \in 1..Len(f) : p \in {i} \X (1..g[i])) <=> (\E i \in 1..Len(f) : p \in {i} \X (1..f[i]))
            OBVIOUS
        <3> QED BY <3>1, <3>2, <3>3, <3>4
    <2> QED BY <2>1
<1>3. TokensIn(f) \cap more = {}
    <2>1. ASSUME NEW p \in TokensIn(f), p \in more PROVE FALSE
        <3>1. PICK i \in 1..Len(f) : p \in {i} \X (1..f[i])
            BY <2>1 DEF TokensIn
        <3>2. p[1] = i /\ p[1] = n
            BY <2>1, <3>1
        <3> QED BY <1>1, <3>2
    <2> QED BY <2>1
<1>4. IsFiniteSet(more) /\ Cardinality(more) = g[n]
    <2>1. IsFiniteSet({n}) /\ Cardinality({n}) = 1
        BY FS_Singleton
    <2>2. IsFiniteSet(1..g[n]) /\ Cardinality(1..g[n]) = g[n]
        <3>1. g[n] \in Int /\ 1 \in Int /\ g[n] >= 0
            BY <1>1
        <3>2. IsFiniteSet(1..g[n]) /\ Cardinality(1..g[n]) = IF 1 > g[n] THEN 0 ELSE g[n] - 1 + 1
            BY <3>1, FS_Interval
        <3> HIDE DEF n
        <3> QED BY <3>1, <3>2
    <2>3. IsFiniteSet(more) /\ Cardinality(more) = Cardinality({n}) * Cardinality(1..g[n])
        BY <2>1, <2>2, FS_Product
    <2> QED BY <1>1, <2>1, <2>2, <2>3
<1>5. IsFiniteSet(TokensIn(f)) /\ Prompt!SumOf(f) = Cardinality(TokensIn(f)) /\ Prompt!SumOf(f) \in Nat
      /\ Prompt!SumOf(g) = Cardinality(TokensIn(g))
    BY TokensAreFinite
<1> HIDE DEF more
<1>6. Cardinality(TokensIn(f) \cup more) = Cardinality(TokensIn(f)) + Cardinality(more) - Cardinality({})
    BY <1>3, <1>4, <1>5, FS_Union
<1> HIDE DEF n
<1>7. Cardinality({}) = 0
    BY FS_EmptySet
<1> QED BY <1>1, <1>2, <1>4, <1>5, <1>6, <1>7 DEF n

\* Parts of a prompt: chunks by number and size.
Parts == Seq(Nat \X Nat)
Sizes(s) == [i \in 1..Len(s) |-> s[i][2]]

LEMMA TokensOf == ASSUME NEW s \in Parts PROVE Sizes(s) \in Seq(Nat) /\ Len(Sizes(s)) = Len(s)
                                               /\ Prompt!Tokens(s) = Prompt!SumOf(Sizes(s)) /\ Prompt!Tokens(s) \in Nat
<1>1. \A i \in 1..Len(s) : s[i][2] \in Nat
    BY DEF Parts
<1>2. Len(s) \in Nat
    BY DEF Parts
<1>3. Sizes(s) \in Seq(Nat) /\ Len(Sizes(s)) = Len(s)
    BY <1>1, <1>2 DEF Sizes
<1>4. Prompt!Tokens(s) = Prompt!SumOf(Sizes(s))
    BY DEF Prompt!Tokens, Sizes
<1> QED BY <1>3, <1>4, TokensAreFinite

LEMMA NoTokens == Prompt!Tokens(<<>>) = 0 /\ <<>> \in Parts
<1>1. [i \in 1..Len(<<>>) |-> <<>>[i][2]] = <<>>
    OBVIOUS
<1>2. Prompt!Tokens(<<>>) = Prompt!SumOf(<<>>)
    BY <1>1 DEF Prompt!Tokens
<1> QED BY <1>2, SumOfNone DEF Parts

Conversation == Seq(Prompt!Message)
LEMMA MessagesOf ==
    ASSUME NEW s \in Conversation, Overhead \in Nat
    PROVE  Prompt!Messages(s) \in Nat
<1> DEFINE f == [i \in 1..Len(s) |-> s[i].size + Overhead]
<1>1. ASSUME NEW i \in 1..Len(s) PROVE s[i].size \in Nat
    <2>1. s[i] \in Prompt!Message
        BY DEF Conversation
    <2> QED BY <2>1 DEF Prompt!Message
<1>2. Len(s) \in Nat
    BY DEF Conversation
<1>3. f \in Seq(Nat)
    BY <1>1, <1>2
<1>4. Prompt!Messages(s) = Prompt!SumOf(f)
    BY DEF Prompt!Messages
<1> HIDE DEF f
<1> QED BY <1>3, <1>4, TokensAreFinite

LEMMA NoMessages == Prompt!Messages(<<>>) = 0
<1>1. [i \in 1..Len(<<>>) |-> <<>>[i].size + Overhead] = <<>>
    OBVIOUS
<1>2. Prompt!Messages(<<>>) = Prompt!SumOf(<<>>)
    BY <1>1 DEF Prompt!Messages
<1> QED BY <1>2, SumOfNone

LEMMA GreatestNatural ==
    ASSUME NEW set \in SUBSET Nat, set # {}, IsFiniteSet(set)
    PROVE  \E x \in set : \A y \in set : y <= x
<1> DEFINE before == {p \in set \X set : p[1] > p[2]}
<1>1. \A x, y \in set : <<x, y>> \in before <=> x > y
    OBVIOUS
<1>2. Ordered(before, set)
    <2> HIDE DEF before
    <2> QED BY <1>1 DEF Ordered
<1> HIDE DEF before
<1>3. PICK m \in set : \A n \in set \ {m} : <<m, n>> \in before
    BY <1>2, OneIsEarliest
<1>4. ASSUME NEW n \in set PROVE n <= m
    <2>1. CASE n = m
        BY <2>1
    <2>2. CASE n # m
        <3>1. <<m, n>> \in before
            BY <1>3, <2>2
        <3>2. m > n
            BY <1>1, <3>1
        <3> QED BY <3>2
    <2> QED BY <2>1, <2>2
<1> QED BY <1>4

\* A product that is no more has a factor that is no more.
LEMMA TimesKeeps ==
    ASSUME NEW a \in Int, NEW b \in Int, NEW c \in Nat \ {0}, c * a <= c * b
    PROVE  a <= b
<1>1. SUFFICES ASSUME b < a PROVE FALSE
    OBVIOUS
<1>2. PICK d \in Nat \ {0} : a = b + d
    <2>1. a - b \in Nat \ {0} /\ a = b + (a - b)
        BY <1>1
    <2> QED BY <2>1
<1>3. c * a = c * b + c * d /\ c * b \in Int
    BY <1>2
<1>4. c * d \in Nat /\ c * d > 0
    BY <1>2
<1> QED BY <1>3, <1>4

LEMMA TimesNegative == ASSUME NEW a \in Int, a <= 0, NEW c \in Nat PROVE c * a <= 0
<1>1. PICK d \in Nat : a = -d
    <2>1. -a \in Nat /\ a = -(-a)
        OBVIOUS
    <2> QED BY <2>1
<1>2. c * a = -(c * d) /\ c * d \in Nat
    BY <1>1
<1> QED BY <1>2

\* What a try left of its budget, less the margin: what it took beyond is of its last part, which
\* was given so many tokens and costs no more than Growth times as many.
WithinCut(r, budget) == Growth * (Prompt!Tokens(r) + Margin - budget) <= (Growth - 1) * r[Len(r)][2]

\* What fits: all, nothing, or the first ones and a part of the next, which costs no more than the
\* budget without its margin and what the part can cost beyond its share.
LEMMA FitGives ==
    ASSUME NEW s \in Parts, NEW budget \in Nat, NEW r \in Prompt!FitChunks(s, budget),
           Margin \in Nat, Growth \in Nat \ {0}
    PROVE  /\ r \in Parts /\ Len(r) <= Len(s)
           /\ \A i \in 1..Len(r) : r[i][1] = s[i][1] /\ (r[i] # s[i] => i = Len(r))
           /\ \/ r = <<>>
              \/ r = s /\ budget > 0 /\ Prompt!Tokens(s) <= budget
              \/ r # <<>> /\ WithinCut(r, budget)
<1> DEFINE less == budget - Margin
           Prefix(k) == SubSeq(s, 1, k)
           Good(k) == Prompt!Tokens(Prefix(k)) <= less
           n == CHOOSE k \in 0..Len(s) : /\ Prompt!PrefixFits(s, k, less)
                                         /\ \A j \in (k + 1)..Len(s) : ~Prompt!PrefixFits(s, j, less)
           remaining == less - Prompt!Tokens(Prefix(n))
<1>1. CASE s = <<>> \/ budget <= 0
    <2>1. r = <<>>
        BY <1>1 DEF Prompt!FitChunks
    <2> QED BY <2>1, NoTokens DEF Parts
<1>2. CASE ~(s = <<>> \/ budget <= 0) /\ Prompt!Tokens(s) <= budget
    <2>1. r = s
        BY <1>2 DEF Prompt!FitChunks
    <2> QED BY <1>2, <2>1 DEF Parts
<1>3. CASE ~(s = <<>> \/ budget <= 0) /\ ~(Prompt!Tokens(s) <= budget)
    <2>1. CASE less <= 0
        <3>1. r = <<>>
            BY <1>3, <2>1 DEF Prompt!FitChunks
        <3> QED BY <3>1, NoTokens DEF Parts
    <2>2. CASE ~(less <= 0)
        <3>1. /\ Len(s) \in Nat /\ less \in Int /\ less > 0 /\ budget > 0
              /\ \A k \in 0..Len(s) : Prefix(k) \in Parts /\ Len(Prefix(k)) = k /\ \A i \in 1..k : Prefix(k)[i] = s[i]
            BY <1>3, <2>2 DEF Parts
        <3>2. \A k \in 0..Len(s) : Prompt!PrefixFits(s, k, less) <=> Good(k)
            BY DEF Prompt!PrefixFits
        <3>3. n \in 0..Len(s) /\ Good(n) /\ \A j \in (n + 1)..Len(s) : ~Good(j)
            <4> DEFINE all == {k \in 0..Len(s) : Good(k)}
            <4>1. all \in SUBSET Nat /\ IsFiniteSet(all)
                <5>1. IsFiniteSet(0..Len(s)) /\ all \in SUBSET (0..Len(s))
                    <6>1. 0 \in Int /\ Len(s) \in Int
                        BY <3>1
                    <6> QED BY <6>1, FS_Interval
                <5>2. 0..Len(s) \subseteq Nat
                    OBVIOUS
                <5> QED BY <5>1, <5>2, FS_Subset
            <4>2. 0 \in all
                <5>1. Prefix(0) = <<>>
                    BY <3>1
                <5>2. Prompt!Tokens(Prefix(0)) = 0
                    BY <5>1, NoTokens
                <5>3. 0 \in 0..Len(s) /\ 0 <= less
                    BY <3>1
                <5> HIDE DEF Prefix, less
                <5> QED BY <5>2, <5>3
            <4> HIDE DEF all
            <4>3. PICK x \in all : \A y \in all : y <= x
                BY <4>1, <4>2, GreatestNatural
            <4>4. x \in 0..Len(s) /\ Good(x)
                BY <4>3 DEF all
            <4>5. \A j \in (x + 1)..Len(s) : ~Good(j)
                <5>1. ASSUME NEW j \in (x + 1)..Len(s), Good(j) PROVE FALSE
                    <6>1. j \in 0..Len(s) /\ j > x
                        BY <4>4
                    <6>2. j \in all
                        BY <5>1, <6>1 DEF all
                    <6> QED BY <4>3, <6>1, <6>2, <4>4
                <5> QED BY <5>1
            <4> HIDE DEF Good
            <4>6. \A j \in (x + 1)..Len(s) : j \in 0..Len(s)
                BY <4>4
            <4>7. /\ Prompt!PrefixFits(s, x, less)
                  /\ \A j \in (x + 1)..Len(s) : ~Prompt!PrefixFits(s, j, less)
                BY <3>2, <4>4, <4>5, <4>6
            <4>8. /\ n \in 0..Len(s) /\ Prompt!PrefixFits(s, n, less)
                  /\ \A j \in (n + 1)..Len(s) : ~Prompt!PrefixFits(s, j, less)
                BY <4>4, <4>7
            <4> HIDE DEF n
            <4>9. \A j \in (n + 1)..Len(s) : j \in 0..Len(s)
                BY <4>8
            <4> QED BY <3>2, <4>8, <4>9
        <3>4. Prefix(Len(s)) = s
            BY DEF Parts
        <3>5. r \in IF remaining = 0 THEN {Prefix(n)}
                    ELSE {Append(Prefix(n), <<s[n + 1][1], size>>) : size \in Prompt!Shortened(s[n + 1][2], remaining)}
            BY <1>3, <2>2 DEF Prompt!FitChunks
        <3> HIDE DEF n, Good
        <3>6. n < Len(s)
            <4>1. ~Good(Len(s))
                <5>1. Prompt!Tokens(s) \in Nat
                    BY TokensOf
                <5> HIDE DEF Prefix
                <5> QED BY <1>3, <3>4, <5>1 DEF Good
            <4> HIDE DEF Prefix
            <4> QED BY <3>1, <3>3, <4>1
        <3> DEFINE p == Prefix(n)
                   next == s[n + 1]
        <3>7. p \in Parts /\ Len(p) = n /\ \A i \in 1..n : p[i] = s[i]
            BY <3>1, <3>3
        <3>8. n + 1 \in 1..Len(s) /\ next \in Nat \X Nat
            BY <3>1, <3>3, <3>6 DEF Parts
        <3>9. Prompt!Tokens(p) \in Nat /\ Prompt!Tokens(p) <= less
            BY <3>3, <3>7, TokensOf DEF Good
        <3>10. n \in Nat
            BY <3>3
        <3> HIDE DEF Prefix, p, next, less
        <3>11. CASE remaining = 0
            <4>1. r = p
                BY <3>5, <3>11 DEF p
            <4>2. ASSUME r # <<>> PROVE WithinCut(r, budget)
                <5>1. r[Len(r)][2] \in Nat
                    BY <3>7, <4>1, <4>2 DEF Parts
                <5> DEFINE last == r[Len(r)][2]
                           over == Prompt!Tokens(r) + Margin - budget
                <5>2. over \in Int /\ over <= 0
                    BY <3>9, <4>1 DEF less
                <5>3. (Growth - 1) * last \in Nat
                    <6>1. Growth - 1 \in Nat /\ last \in Nat
                        BY <5>1
                    <6> HIDE DEF last
                    <6> QED BY <6>1
                <5> HIDE DEF over, last
                <5>4. Growth * over <= 0
                    BY <5>2, TimesNegative
                <5>5. Growth * over <= (Growth - 1) * last
                    BY <5>2, <5>3, <5>4
                <5> QED BY <5>5 DEF WithinCut, over, last
            <4> QED BY <3>1, <3>6, <3>7, <3>8, <3>10, <4>1, <4>2
        <3>12. CASE remaining # 0
            <4>1. PICK size \in Prompt!Shortened(next[2], remaining) : r = Append(p, <<next[1], size>>)
                BY <3>5, <3>12 DEF p, next
            <4>2. remaining \in Nat \ {0} /\ remaining = less - Prompt!Tokens(p)
                BY <3>1, <3>9, <3>12 DEF p
            <4>3. next[1] \in Nat /\ next[2] \in Nat
                BY <3>8
            <4> HIDE DEF remaining
            <4>4. size \in Nat /\ size <= Growth * remaining
                <5>1. Growth * remaining \in Nat
                    BY <4>2
                <5>2. size \in 1..next[2] /\ size <= Growth * remaining
                    BY <4>1 DEF Prompt!Shortened
                <5> QED BY <4>3, <5>1, <5>2
            <4>5. r \in Parts /\ Len(r) = n + 1 /\ r[n + 1] = <<next[1], size>> /\ \A i \in 1..n : r[i] = p[i]
                <5> DEFINE e == <<next[1], size>>
                <5>1. e \in Nat \X Nat
                    BY <4>3, <4>4
                <5>2. p \in Seq(Nat \X Nat) /\ Len(p) = n /\ r = Append(p, e)
                    BY <3>7, <4>1 DEF Parts
                <5> HIDE DEF e
                <5>3. r \in Seq(Nat \X Nat) /\ Len(r) = n + 1 /\ r[n + 1] = e /\ \A i \in 1..n : r[i] = p[i]
                    BY <3>10, <5>1, <5>2
                <5> QED BY <5>3 DEF Parts, e
            <4>6. Prompt!Tokens(r) = Prompt!Tokens(p) + size
                <5>1. /\ Sizes(r) \in Seq(Nat) /\ Len(Sizes(r)) = n + 1 /\ Prompt!Tokens(r) = Prompt!SumOf(Sizes(r))
                      /\ Sizes(p) \in Seq(Nat) /\ Len(Sizes(p)) = n /\ Prompt!Tokens(p) = Prompt!SumOf(Sizes(p))
                    BY <3>7, <4>5, TokensOf
                <5>2. \A i \in 1..n : Sizes(r)[i] = Sizes(p)[i]
                    BY <3>7, <3>10, <4>5 DEF Sizes
                <5>3. Sizes(r)[n + 1] = size
                    BY <3>10, <4>5 DEF Sizes
                <5> QED BY <5>1, <5>2, <5>3, SumOfMore
            <4>7. WithinCut(r, budget)
                <5> DEFINE over == size - remaining
                <5>1. Prompt!Tokens(r) + Margin - budget = over
                    BY <3>9, <4>2, <4>4, <4>6 DEF less
                <5>2. Growth * over = Growth * size - Growth * remaining
                    BY <4>2, <4>4
                <5>3. (Growth - 1) * size = Growth * size - size
                    BY <4>4
                <5>4. Growth * size \in Nat /\ Growth * remaining \in Nat
                    BY <4>2, <4>4
                <5> HIDE DEF over
                <5>5. Growth * over <= (Growth - 1) * size
                    BY <4>4, <5>2, <5>3, <5>4
                <5>6. r[Len(r)][2] = size
                    BY <4>5
                <5> QED BY <5>1, <5>5, <5>6 DEF WithinCut
            <4>8. r # <<>>
                BY <3>10, <4>5
            <4>10. \A i \in 1..Len(r) : r[i][1] = s[i][1] /\ (r[i] # s[i] => i = Len(r))
                BY <3>7, <3>10, <4>5 DEF next
            <4>11. Len(r) <= Len(s)
                BY <3>8, <4>5
            <4> QED BY <4>5, <4>7, <4>8, <4>10, <4>11
        <3> QED BY <3>11, <3>12
    <2> QED BY <2>1, <2>2
<1> QED BY <1>1, <1>2, <1>3

-----------------------------------------------------------------------------
(* LlmContext: the window of recent messages.                                *)

LEMMA PastIsConversation ==
    ASSUME history \in Conversation
    PROVE  Prompt!Past \in Conversation
<1>1. CASE history = <<>>
    BY <1>1 DEF Prompt!Past
<1>2. CASE history # <<>>
    <2>1. Len(history) \in Nat /\ Len(history) > 0
        BY <1>2 DEF Conversation
    <2>2. SubSeq(history, 1, Len(history) - 1) \in Conversation
        BY <2>1 DEF Conversation
    <2>3. Prompt!Past \in {history, SubSeq(history, 1, Len(history) - 1)}
        BY DEF Prompt!Past, Prompt!Front
    <2> QED BY <2>2, <2>3
<1> QED BY <1>1, <1>2

LEMMA RecentBegins ==
    ASSUME NEW s \in Conversation, RecentRounds \in Nat
    PROVE  Prompt!RecentFrom(s) \in 1..(Len(s) + 1)
<1> DEFINE begins == Prompt!Begins(s)
           Later(i) == Prompt!Cardinality({j \in begins : j >= i})
           wanted == Prompt!Smaller(RecentRounds, Prompt!Cardinality(begins))
<1>0. Len(s) \in Nat
    BY DEF Conversation
<1>1. CASE RecentRounds = 0 \/ s = <<>>
    BY <1>0, <1>1 DEF Prompt!RecentFrom
<1>2. CASE ~(RecentRounds = 0 \/ s = <<>>)
    <2>1. Len(s) > 0
        BY <1>2, <1>0 DEF Conversation
    <2>2. begins \subseteq 1..Len(s) /\ 1 \in begins /\ \A i \in begins : i \in Nat
        BY <1>0, <2>1 DEF Prompt!Begins
    <2>3. IsFiniteSet(begins)
        <3>1. IsFiniteSet(1..Len(s))
            BY <1>0, FS_Interval
        <3> QED BY <2>2, <3>1, FS_Subset
    <2> HIDE DEF begins
    <2> DEFINE before == {q \in begins \X begins : q[1] > q[2]}
    <2>4. \A x, y \in begins : <<x, y>> \in before <=> x > y
        OBVIOUS
    <2>5. Ordered(before, begins)
        <3> HIDE DEF before
        <3> QED BY <2>2, <2>4 DEF Ordered
    <2> HIDE DEF before
    <2>6. ASSUME NEW i \in begins
          PROVE  Later(i) = Place(before, i, begins)
        <3> DEFINE after == {n \in begins : <<n, i>> \in before}
        <3>1. {j \in begins : j >= i} = after \cup {i} /\ i \notin after
            <4>1. \A x : x \in after <=> x \in begins /\ x > i
                BY <2>4
            <4>2. \A x \in begins : x >= i <=> x > i \/ x = i
                BY <2>2
            <4> HIDE DEF after
            <4>3. ASSUME NEW x PROVE x \in {j \in begins : j >= i} <=> x \in after \cup {i}
                BY <4>1, <4>2, ZenonT(30)
            <4>4. i \notin after
                BY <2>2, <4>1
            <4> QED BY <4>3, <4>4
        <3>2. IsFiniteSet(after)
            BY <2>3, FS_Subset
        <3>3. Place(before, i, begins) = Cardinality(after) + 1
            BY DEF Place
        <3> HIDE DEF after
        <3>4. Cardinality(after \cup {i}) = Cardinality(after) + 1
            BY <3>1, <3>2, FS_AddElement
        <3> QED BY <3>1, <3>3, <3>4 DEF Prompt!Cardinality, Cardinality
    <2>7. Prompt!Cardinality(begins) = Cardinality(begins)
        BY DEF Prompt!Cardinality, Cardinality
    <2>8. Cardinality(begins) \in Nat /\ Cardinality(begins) # 0
        <3>1. Cardinality(begins) \in Nat
            BY <2>3, FS_CardinalityType
        <3>2. begins # {}
            BY <2>2
        <3> QED BY <2>3, <3>1, <3>2, FS_EmptySet
    <2>9. wanted \in 1..Cardinality(begins)
        <3> HIDE DEF Later
        <3> QED BY <1>2, <2>7, <2>8 DEF Prompt!Smaller
    <2>10. PICK i \in begins : Place(before, i, begins) = wanted
        <3> HIDE DEF wanted
        <3> QED BY <2>3, <2>5, <2>9, OneForEachPlace
    <2>11. Later(i) = wanted
        BY <2>6, <2>10
    <2>12. Prompt!RecentFrom(s) = CHOOSE k \in begins : Later(k) = wanted
        BY <1>2 DEF Prompt!RecentFrom, begins
    <2> HIDE DEF Later, wanted
    <2>13. Prompt!RecentFrom(s) \in begins
        BY <2>11, <2>12
    <2>14. Prompt!RecentFrom(s) \in 1..Len(s)
        BY <2>2, <2>13
    <2>15. 1..Len(s) \subseteq 1..(Len(s) + 1)
        BY <1>0
    <2> QED BY <2>14, <2>15
<1> QED BY <1>1, <1>2

LEMMA OlderRoundsAreCounted ==
    ASSUME NEW s \in Conversation
    PROVE  Prompt!OlderRounds(s) \in Nat
<1> DEFINE older == {i \in Prompt!Begins(s) : i < Prompt!RecentFrom(s)}
<1>1. Len(s) \in Nat
    BY DEF Conversation
<1>2. older \in SUBSET (1..Len(s))
    BY DEF Prompt!Begins
<1>3. IsFiniteSet(1..Len(s))
    BY <1>1, FS_Interval
<1>4. Prompt!OlderRounds(s) = Cardinality(older)
    BY DEF Prompt!OlderRounds, Prompt!Cardinality, Cardinality
<1> HIDE DEF older
<1>5. IsFiniteSet(older)
    BY <1>2, <1>3, FS_Subset
<1> QED BY <1>4, <1>5, FS_CardinalityType

\* The longest of the newest messages that fit.
LEMMA TailGives ==
    ASSUME NEW s \in Conversation, NEW budget \in Nat
    PROVE  \E n \in 0..Len(s) :
              /\ Prompt!Longest(Prompt!FittingTails(s, budget)) = SubSeq(s, Len(s) - n + 1, Len(s))
<1> DEFINE Newest(n) == SubSeq(s, Len(s) - n + 1, Len(s))
           all == {n \in 0..Len(s) : Prompt!Messages(Newest(n)) <= budget}
           tails == Prompt!FittingTails(s, budget)
<1>1. Len(s) \in Nat /\ \A n \in 0..Len(s) : Len(Newest(n)) = n
    BY DEF Conversation
<1>2. all \in SUBSET Nat /\ IsFiniteSet(all)
    <2>1. IsFiniteSet(0..Len(s))
        <3>1. 0 \in Int /\ Len(s) \in Int
            BY <1>1
        <3> QED BY <3>1, FS_Interval
    <2>2. 0..Len(s) \subseteq Nat /\ all \in SUBSET (0..Len(s))
        OBVIOUS
    <2> QED BY <2>1, <2>2, FS_Subset
<1>3. 0 \in all
    <2>1. Newest(0) = <<>>
        BY <1>1 DEF Conversation
    <2>2. Prompt!Messages(Newest(0)) = 0
        BY <2>1, NoMessages
    <2>3. 0 \in 0..Len(s)
        BY <1>1
    <2> HIDE DEF Newest
    <2> QED BY <2>2, <2>3
<1>4. \A w : w \in tails <=> \E n \in 0..Len(s) : w = Newest(n) /\ Prompt!Messages(w) <= budget
    BY DEF Prompt!FittingTails, Prompt!Newest
<1> HIDE DEF all, tails
<1>5. PICK x \in all : \A y \in all : y <= x
    BY <1>2, <1>3, GreatestNatural
<1>6. x \in 0..Len(s) /\ Newest(x) \in tails
    BY <1>4, <1>5 DEF all
<1>7. ASSUME NEW v \in tails PROVE Len(v) <= Len(Newest(x))
    <2>1. PICK n \in 0..Len(s) : v = Newest(n) /\ Prompt!Messages(v) <= budget
        BY <1>4
    <2>2. n \in all
        BY <2>1 DEF all
    <2>3. Len(v) = n /\ Len(Newest(x)) = x /\ n <= x
        BY <1>1, <1>5, <1>6, <2>1, <2>2
    <2> QED BY <2>3
<1> HIDE DEF Newest
<1>8. Prompt!Longest(tails) \in tails
    BY <1>6, <1>7 DEF Prompt!Longest
<1> QED BY <1>4, <1>8 DEF tails, Newest

\* What BestKept says of the messages.
NewestOf(w) ==
    /\ w \in Conversation /\ Len(w) <= Len(Prompt!Past)
    /\ \A i \in 1..Len(w) :
          /\ w[i].role = Prompt!Past[Len(Prompt!Past) - Len(w) + i].role
          /\ w[i].size # Prompt!Past[Len(Prompt!Past) - Len(w) + i].size => Len(w) = 1

LEMMA WindowGives ==
    ASSUME history \in Conversation, share.history \in Nat, Prompt!ContextAssumption, Prompt!Window
    PROVE  NewestOf(window') /\ summary' \in Nat
<1> DEFINE past == Prompt!Past
           from == Prompt!RecentFrom(past)
           recent == SubSeq(past, from, Len(past))
           fits == Prompt!Longest(Prompt!FittingTails(recent, share.history))
<1>1. past \in Conversation /\ Len(past) \in Nat
    BY PastIsConversation DEF Conversation
<1>2. from \in 1..(Len(past) + 1)
    <2>1. RecentRounds \in Nat
        BY DEF Prompt!ContextAssumption
    <2> HIDE DEF past
    <2> QED BY <1>1, <2>1, RecentBegins
<1>3. summary' \in Nat
    <2>1. Prompt!OlderRounds(past) \in Nat
        <3> HIDE DEF past
        <3> QED BY <1>1, OlderRoundsAreCounted
    <2>2. summary' = Prompt!Smaller(Prompt!OlderRounds(past), SummaryLines) /\ SummaryLines \in Nat
        BY DEF Prompt!Window, Prompt!ContextAssumption
    <2> QED BY <2>1, <2>2 DEF Prompt!Smaller
<1>4. \/ window' = <<>>
      \/ window' = fits
      \/ recent # <<>> /\ \E m \in Prompt!Cut(Prompt!Last(recent), share.history) : window' = <<m>>
    BY DEF Prompt!Window
<1> HIDE DEF past, from
<1>5. /\ recent \in Conversation /\ Len(recent) = Len(past) - from + 1 /\ Len(recent) \in Nat
      /\ \A i \in 1..Len(recent) : recent[i] = past[from - 1 + i]
    BY <1>1, <1>2 DEF Conversation
<1> HIDE DEF recent
<1>6. PICK n \in 0..Len(recent) : fits = SubSeq(recent, Len(recent) - n + 1, Len(recent))
    BY <1>5, TailGives
<1> HIDE DEF fits
<1>7. /\ fits \in Conversation /\ Len(fits) = n
      /\ \A i \in 1..n : fits[i] = recent[Len(recent) - n + i]
    <2>1. fits \in Seq(Prompt!Message) /\ Len(fits) = n
        BY <1>5, <1>6, SMTT(30) DEF Conversation
    <2>2. ASSUME NEW i \in 1..n PROVE fits[i] = recent[Len(recent) - n + i]
        BY <1>5, <1>6, SMTT(30)
    <2> QED BY <2>1, <2>2 DEF Conversation
<1>8. CASE window' = <<>>
    <2>1. window' \in Conversation /\ Len(window') = 0 /\ 1..Len(window') = {}
        BY <1>8 DEF Conversation
    <2>2. Len(window') <= Len(past)
        BY <1>1, <2>1
    <2> QED BY <1>3, <2>1, <2>2 DEF NewestOf, past
<1>9. CASE window' = fits
    <2>1. ASSUME NEW i \in 1..n PROVE fits[i] = past[Len(past) - n + i]
        <3>1. /\ Len(recent) - n + i \in 1..Len(recent)
              /\ from - 1 + (Len(recent) - n + i) = Len(past) - n + i
            BY <1>1, <1>2, <1>5
        <3> QED BY <1>5, <1>7, <3>1
    <2>2. n <= Len(past)
        BY <1>1, <1>2, <1>5
    <2>3. window' \in Conversation /\ Len(window') = n
        BY <1>7, <1>9
    <2>4. \A i \in 1..Len(window') : window'[i] = past[Len(past) - Len(window') + i]
        BY <1>9, <2>1, <2>3
    <2> QED BY <1>3, <2>2, <2>3, <2>4 DEF NewestOf, past
<1>10. ASSUME recent # <<>>, NEW m \in Prompt!Cut(Prompt!Last(recent), share.history), window' = <<m>>
       PROVE  NewestOf(window')
    <2>1. Len(recent) \in 1..Len(recent) /\ Prompt!Last(recent) = recent[Len(recent)]
        BY <1>5, <1>10 DEF Prompt!Last, Conversation
    <2>2. recent[Len(recent)] = past[Len(past)]
        BY <1>1, <1>2, <1>5, <2>1
    <2>3. past[Len(past)] \in Prompt!Message /\ Len(past) >= 1
        BY <1>1, <1>2, <1>5, <2>1 DEF Conversation
    <2>4. PICK size \in Nat : m = [past[Len(past)] EXCEPT !.size = size]
        <3> DEFINE most == Prompt!Smaller(Prompt!Last(recent).size, Prompt!Larger(ShortText, (2 * Growth * share.history) \div 3))
        <3>1. PICK k \in 1..most : m = [Prompt!Last(recent) EXCEPT !.size = k]
            BY <1>10 DEF Prompt!Cut
        <3>2. k \in Nat
            BY <3>1
        <3> QED BY <2>1, <2>2, <3>1, <3>2
    <2>5. m \in Prompt!Message /\ m.role = past[Len(past)].role
        BY <2>3, <2>4 DEF Prompt!Message
    <2>6. window' \in Conversation /\ Len(window') = 1 /\ window'[1] = m
        BY <1>10, <2>5 DEF Conversation
    <2>7. ASSUME NEW i \in 1..Len(window')
          PROVE  i = 1 /\ Len(past) - Len(window') + i = Len(past)
        BY <1>1, <2>6
    <2> QED BY <2>3, <2>5, <2>6, <2>7 DEF NewestOf, past
<1> QED BY <1>3, <1>4, <1>8, <1>9, <1>10

-----------------------------------------------------------------------------
(* LlmContext: the numbers of citations.                                     *)

FoundIsTyped ==
    /\ found \in Seq(Prompt!Hit)
    /\ \A i, j \in 1..Len(found) : found[i].group = found[j].group => found[i].source = found[j].source

\* The first chunk of its group.
IsFirst(k) == \A l \in 1..Len(found) : found[l].group = found[k].group => k <= l
\* The groups that a chunk's number counts, and their first chunks.
GroupsBefore(i) ==
    {found[j].group : j \in {k \in 1..i : found[k].source = found[i].source
        /\ \A l \in 1..i : found[l].group = found[i].group => k <= l}}
FirstsBefore(i) ==
    {k \in 1..i : /\ found[k].source = found[i].source /\ IsFirst(k)
                  /\ \A l \in 1..i : found[l].group = found[i].group => k <= l}

LEMMA FirstOfGroup ==
    ASSUME FoundIsTyped, NEW i \in 1..Len(found)
    PROVE  \E k \in 1..i : IsFirst(k) /\ found[k].group = found[i].group
<1> DEFINE all == {k \in 1..Len(found) : found[k].group = found[i].group}
<1>1. Len(found) \in Nat
    BY DEF FoundIsTyped
<1>2. all \in SUBSET Nat /\ i \in all /\ IsFiniteSet(all)
    <2>1. all \in SUBSET (1..Len(found)) /\ 1..Len(found) \subseteq Nat
        OBVIOUS
    <2>2. IsFiniteSet(1..Len(found))
        BY <1>1, FS_Interval
    <2>3. i \in all
        OBVIOUS
    <2> QED BY <2>1, <2>2, <2>3, FS_Subset
<1> HIDE DEF all
<1>3. PICK k \in all : \A l \in all : k <= l
    BY <1>2, LeastNatural
<1>4. k \in 1..Len(found) /\ found[k].group = found[i].group
    BY <1>3 DEF all
<1>5. k <= i
    BY <1>2, <1>3
<1>6. IsFirst(k)
    BY <1>3, <1>4 DEF IsFirst, all
<1>7. k \in 1..i
    BY <1>4, <1>5
<1> QED BY <1>4, <1>6, <1>7

\* What the firsts are: those of the source up to the first of the group.
LEMMA FirstsUpTo ==
    ASSUME FoundIsTyped, NEW i \in 1..Len(found), NEW f \in 1..i, IsFirst(f), found[f].group = found[i].group
    PROVE  /\ \A k : k \in FirstsBefore(i) <=> k \in 1..f /\ found[k].source = found[i].source /\ IsFirst(k)
           /\ FirstsBefore(i) \in SUBSET Nat /\ IsFiniteSet(FirstsBefore(i)) /\ f \in FirstsBefore(i)
<1>1. Len(found) \in Nat /\ found[f].source = found[i].source /\ f \in 1..Len(found) /\ f <= i
    BY DEF FoundIsTyped
<1>2. ASSUME NEW k \in 1..i
      PROVE  (\A l \in 1..i : found[l].group = found[i].group => k <= l) <=> k <= f
    <2>1. k <= f => \A l \in 1..i : found[l].group = found[i].group => k <= l
        <3> SUFFICES ASSUME k <= f, NEW l \in 1..i, found[l].group = found[i].group PROVE k <= l
            OBVIOUS
        <3>1. l \in 1..Len(found)
            BY <1>1
        <3>2. f <= l
            BY <3>1 DEF IsFirst
        <3> QED BY <3>2
    <2> QED BY <2>1
<1>3. \A k : k \in FirstsBefore(i) <=> k \in 1..f /\ found[k].source = found[i].source /\ IsFirst(k)
    <2>1. \A k : k \in 1..f <=> k \in 1..i /\ k <= f
        BY <1>1
    <2> QED BY <1>2, <2>1 DEF FirstsBefore
<1>4. f \in FirstsBefore(i)
    <2>1. f \in 1..f
        OBVIOUS
    <2> QED BY <1>1, <1>3, <2>1
<1>5. FirstsBefore(i) \in SUBSET (1..i) /\ 1..i \subseteq Nat /\ IsFiniteSet(1..i)
    <2>1. 1 \in Int /\ i \in Int
        OBVIOUS
    <2>2. IsFiniteSet(1..i)
        BY <2>1, FS_Interval
    <2>3. FirstsBefore(i) \in SUBSET (1..i) /\ 1..i \subseteq Nat
        BY DEF FirstsBefore
    <2> QED BY <2>2, <2>3
<1> QED BY <1>3, <1>4, <1>5, FS_Subset

\* A chunk's group number is the number of first chunks of its source up to its own group's.
LEMMA NumberOfGroup ==
    ASSUME FoundIsTyped, NEW i \in 1..Len(found)
    PROVE  Prompt!GroupNumber(i) = Cardinality(FirstsBefore(i)) /\ Prompt!GroupNumber(i) \in Nat
<1>1. PICK f \in 1..i : IsFirst(f) /\ found[f].group = found[i].group
    BY FirstOfGroup
<1>2. /\ \A k : k \in FirstsBefore(i) <=> k \in 1..f /\ found[k].source = found[i].source /\ IsFirst(k)
      /\ IsFiniteSet(FirstsBefore(i))
    BY <1>1, FirstsUpTo
<1>3. Len(found) \in Nat /\ 1..f \subseteq 1..i /\ 1..i \subseteq 1..Len(found)
    BY DEF FoundIsTyped
<1> DEFINE g == [k \in FirstsBefore(i) |-> found[k].group]
<1>4. \A k \in FirstsBefore(i) : g[k] \in GroupsBefore(i)
    BY DEF FirstsBefore, GroupsBefore
<1>5. ASSUME NEW x \in GroupsBefore(i) PROVE \E k \in FirstsBefore(i) : g[k] = x
    <2>1. PICK j \in 1..i : /\ found[j].source = found[i].source /\ x = found[j].group
                            /\ \A l \in 1..i : found[l].group = found[i].group => j <= l
        BY DEF GroupsBefore
    <2>2. j \in 1..Len(found) /\ j <= f
        BY <1>1, <1>3, <2>1
    <2>3. PICK k \in 1..j : IsFirst(k) /\ found[k].group = found[j].group
        BY <2>2, FirstOfGroup
    <2>4. k \in 1..f /\ k \in 1..Len(found)
        BY <1>3, <2>2, <2>3
    <2>5. found[k].source = found[j].source
        BY <2>2, <2>3, <2>4 DEF FoundIsTyped
    <2>6. k \in FirstsBefore(i)
        BY <1>2, <2>1, <2>3, <2>4, <2>5
    <2> QED BY <2>1, <2>3, <2>6
<1>6. ASSUME NEW k \in FirstsBefore(i), NEW l \in FirstsBefore(i), g[k] = g[l] PROVE k = l
    <2>1. k \in 1..Len(found) /\ l \in 1..Len(found) /\ IsFirst(k) /\ IsFirst(l)
        BY <1>2, <1>3
    <2>2. k <= l /\ l <= k
        BY <1>6, <2>1 DEF IsFirst
    <2> QED BY <2>1, <2>2
<1>7. g \in Surjection(FirstsBefore(i), GroupsBefore(i)) /\ g \in Injection(FirstsBefore(i), GroupsBefore(i))
    <2>1. g \in [FirstsBefore(i) -> GroupsBefore(i)]
        BY <1>4
    <2> HIDE DEF g
    <2> QED BY <1>5, <1>6, <2>1 DEF Surjection, Injection, IsInjective
<1> HIDE DEF g
<1>8. Cardinality(GroupsBefore(i)) = Cardinality(FirstsBefore(i))
    BY <1>2, <1>7, FS_Surjection
<1>9. Prompt!GroupNumber(i) = Cardinality(GroupsBefore(i))
    BY DEF Prompt!GroupNumber, GroupsBefore, Prompt!Cardinality, Cardinality
<1> QED BY <1>2, <1>8, <1>9, FS_CardinalityType

\* The chunks of a group up to one of them, and its number there.
InGroupUpTo(i) == {j \in 1..i : found[j].group = found[i].group}
LEMMA NumberInGroup ==
    ASSUME FoundIsTyped, NEW i \in 1..Len(found)
    PROVE  /\ Prompt!InGroup(i) = Cardinality(InGroupUpTo(i)) /\ Prompt!InGroup(i) \in Nat
           /\ InGroupUpTo(i) \in SUBSET Nat /\ IsFiniteSet(InGroupUpTo(i))
<1>1. Prompt!InGroup(i) = Cardinality(InGroupUpTo(i))
    BY DEF Prompt!InGroup, InGroupUpTo, Prompt!Cardinality, Cardinality
<1>2. InGroupUpTo(i) \in SUBSET (1..i) /\ 1..i \subseteq Nat /\ IsFiniteSet(1..i)
    <2>1. 1 \in Int /\ i \in Int
        OBVIOUS
    <2>2. IsFiniteSet(1..i)
        BY <2>1, FS_Interval
    <2> QED BY <2>2 DEF InGroupUpTo
<1>3. IsFiniteSet(InGroupUpTo(i))
    BY <1>2, FS_Subset
<1> QED BY <1>1, <1>2, <1>3, FS_CardinalityType

\* Of a set of numbers that ends with one, those up to it count up to its place.
LEMMA CountedUpTo ==
    ASSUME NEW set \in SUBSET Nat, IsFiniteSet(set), NEW n \in 1..Cardinality(set)
    PROVE  \E m \in set : Cardinality({k \in set : k <= m}) = n
<1> DEFINE before == {q \in set \X set : q[1] < q[2]}
<1>1. \A x, y \in set : <<x, y>> \in before <=> x < y
    OBVIOUS
<1>2. Ordered(before, set)
    <2> HIDE DEF before
    <2> QED BY <1>1 DEF Ordered
<1> HIDE DEF before
<1>3. PICK m \in set : Place(before, m, set) = n
    BY <1>2, OneForEachPlace
<1> DEFINE earlier == {k \in set : <<k, m>> \in before}
<1>4. {k \in set : k <= m} = earlier \cup {m} /\ m \notin earlier
    <2>1. \A x : x \in earlier <=> x \in set /\ x < m
        BY <1>1
    <2>2. \A x \in set : x <= m <=> x < m \/ x = m
        OBVIOUS
    <2> HIDE DEF earlier
    <2>3. ASSUME NEW x PROVE x \in {k \in set : k <= m} <=> x \in earlier \cup {m}
        BY <2>1, <2>2, ZenonT(30)
    <2>4. m \notin earlier
        BY <2>1
    <2> QED BY <2>3, <2>4
<1>5. IsFiniteSet(earlier)
    BY FS_Subset
<1>6. Place(before, m, set) = Cardinality(earlier) + 1
    BY DEF Place
<1> HIDE DEF earlier
<1>7. Cardinality(earlier \cup {m}) = Cardinality(earlier) + 1
    BY <1>4, <1>5, FS_AddElement
<1> QED BY <1>3, <1>4, <1>6, <1>7

\* A set within another that lacks one of its members is smaller.
LEMMA FewerIn ==
    ASSUME NEW S, NEW T, IsFiniteSet(T), S \subseteq T, NEW x \in T, x \notin S
    PROVE  IsFiniteSet(S) /\ Cardinality(S) < Cardinality(T)
<1>1. IsFiniteSet(S) /\ Cardinality(S) <= Cardinality(T) /\ (Cardinality(T) = Cardinality(S) => T = S)
    BY FS_Subset
<1>2. Cardinality(S) \in Nat /\ Cardinality(T) \in Nat
    BY <1>1, FS_CardinalityType
<1>3. S # T
    OBVIOUS
<1> QED BY <1>1, <1>2, <1>3

Reference(i) == <<found[i].source, Prompt!GroupNumber(i), Prompt!InGroup(i)>>

LEMMA SameNumberSameGroup ==
    ASSUME FoundIsTyped, NEW i \in 1..Len(found), NEW j \in 1..Len(found), found[i].source = found[j].source,
           Prompt!GroupNumber(i) = Prompt!GroupNumber(j)
    PROVE  found[i].group = found[j].group
<1>1. PICK f \in 1..i : IsFirst(f) /\ found[f].group = found[i].group
    BY FirstOfGroup
<1>2. PICK g \in 1..j : IsFirst(g) /\ found[g].group = found[j].group
    BY FirstOfGroup
<1>3. /\ \A k : k \in FirstsBefore(i) <=> k \in 1..f /\ found[k].source = found[i].source /\ IsFirst(k)
      /\ IsFiniteSet(FirstsBefore(i)) /\ f \in FirstsBefore(i)
    BY <1>1, FirstsUpTo
<1>4. /\ \A k : k \in FirstsBefore(j) <=> k \in 1..g /\ found[k].source = found[j].source /\ IsFirst(k)
      /\ IsFiniteSet(FirstsBefore(j)) /\ g \in FirstsBefore(j)
    BY <1>2, FirstsUpTo
<1>5. Cardinality(FirstsBefore(i)) = Cardinality(FirstsBefore(j)) /\ Cardinality(FirstsBefore(i)) \in Nat
    BY NumberOfGroup
<1>6. CASE f = g
    BY <1>1, <1>2, <1>6
<1>7. CASE f < g
    <2>1. FirstsBefore(i) \subseteq FirstsBefore(j) /\ g \notin FirstsBefore(i)
        <3>1. \A k : k \in 1..f => k \in 1..g
            BY <1>7
        <3>2. g \notin 1..f
            BY <1>7
        <3> QED BY <1>3, <1>4, <3>1, <3>2
    <2>2. Cardinality(FirstsBefore(i)) < Cardinality(FirstsBefore(j))
        BY <1>4, <2>1, FewerIn
    <2> QED BY <1>5, <2>2
<1>8. CASE g < f
    <2>1. FirstsBefore(j) \subseteq FirstsBefore(i) /\ f \notin FirstsBefore(j)
        <3>1. \A k : k \in 1..g => k \in 1..f
            BY <1>8
        <3>2. f \notin 1..g
            BY <1>8
        <3> QED BY <1>3, <1>4, <3>1, <3>2
    <2>2. Cardinality(FirstsBefore(j)) < Cardinality(FirstsBefore(i))
        BY <1>3, <2>1, FewerIn
    <2> QED BY <1>5, <2>2
<1> QED BY <1>6, <1>7, <1>8

LEMMA SameGroupSameNumber ==
    ASSUME FoundIsTyped, NEW i \in 1..Len(found), NEW j \in 1..Len(found), found[i].group = found[j].group
    PROVE  found[i].source = found[j].source /\ Prompt!GroupNumber(i) = Prompt!GroupNumber(j)
<1>1. PICK f \in 1..i : IsFirst(f) /\ found[f].group = found[i].group
    BY FirstOfGroup
<1>2. PICK g \in 1..j : IsFirst(g) /\ found[g].group = found[j].group
    BY FirstOfGroup
<1>3. f = g
    <2>1. f \in 1..Len(found) /\ g \in 1..Len(found)
        BY DEF FoundIsTyped
    <2>2. f <= g /\ g <= f
        BY <1>1, <1>2, <2>1 DEF IsFirst
    <2> QED BY <2>1, <2>2
<1>4. \A k : k \in FirstsBefore(i) <=> k \in 1..f /\ found[k].source = found[i].source /\ IsFirst(k)
    BY <1>1, FirstsUpTo
<1>5. \A k : k \in FirstsBefore(j) <=> k \in 1..g /\ found[k].source = found[j].source /\ IsFirst(k)
    BY <1>2, FirstsUpTo
<1>6. found[i].source = found[j].source
    BY DEF FoundIsTyped
<1>7. FirstsBefore(i) = FirstsBefore(j)
    BY <1>3, <1>4, <1>5, <1>6
<1> QED BY <1>6, <1>7, NumberOfGroup

LEMMA ReferencesDiffer ==
    ASSUME FoundIsTyped, NEW i \in 1..Len(found), NEW j \in 1..Len(found), Reference(i) = Reference(j)
    PROVE  i = j
<1>1. /\ found[i].source = found[j].source /\ Prompt!GroupNumber(i) = Prompt!GroupNumber(j)
      /\ Prompt!InGroup(i) = Prompt!InGroup(j)
    BY DEF Reference
<1>2. found[i].group = found[j].group
    BY <1>1, SameNumberSameGroup
<1>3. /\ IsFiniteSet(InGroupUpTo(i)) /\ IsFiniteSet(InGroupUpTo(j))
      /\ Cardinality(InGroupUpTo(i)) = Cardinality(InGroupUpTo(j)) /\ Cardinality(InGroupUpTo(i)) \in Nat
    BY <1>1, NumberInGroup
<1>4. CASE i < j
    <2>1. InGroupUpTo(i) \subseteq InGroupUpTo(j) /\ j \in InGroupUpTo(j) /\ j \notin InGroupUpTo(i)
        BY <1>2, <1>4 DEF InGroupUpTo
    <2> QED BY <1>3, <2>1, FewerIn
<1>5. CASE j < i
    <2>1. InGroupUpTo(j) \subseteq InGroupUpTo(i) /\ i \in InGroupUpTo(i) /\ i \notin InGroupUpTo(j)
        BY <1>2, <1>5 DEF InGroupUpTo
    <2> QED BY <1>3, <2>1, FewerIn
<1> QED BY <1>4, <1>5

\* Every group number below a chunk's is that of an earlier chunk of the same source.
LEMMA GroupsHaveNoGap ==
    ASSUME FoundIsTyped, NEW i \in 1..Len(found), NEW n \in 1..Prompt!GroupNumber(i)
    PROVE  \E j \in 1..i : found[j].source = found[i].source /\ Prompt!GroupNumber(j) = n
<1>1. PICK f \in 1..i : IsFirst(f) /\ found[f].group = found[i].group
    BY FirstOfGroup
<1>2. /\ \A k : k \in FirstsBefore(i) <=> k \in 1..f /\ found[k].source = found[i].source /\ IsFirst(k)
      /\ FirstsBefore(i) \in SUBSET Nat /\ IsFiniteSet(FirstsBefore(i))
    BY <1>1, FirstsUpTo
<1>3. n \in 1..Cardinality(FirstsBefore(i))
    BY NumberOfGroup
<1>4. PICK m \in FirstsBefore(i) : Cardinality({k \in FirstsBefore(i) : k <= m}) = n
    BY <1>2, <1>3, CountedUpTo
<1>5. m \in 1..f /\ found[m].source = found[i].source /\ IsFirst(m)
    BY <1>2
<1>6. m \in 1..i /\ m \in 1..Len(found) /\ m \in 1..m
    BY <1>5 DEF FoundIsTyped
<1>7. \A k : k \in FirstsBefore(m) <=> k \in 1..m /\ found[k].source = found[m].source /\ IsFirst(k)
    BY <1>5, <1>6, FirstsUpTo
<1>8. FirstsBefore(m) = {k \in FirstsBefore(i) : k <= m}
    <2>1. \A k : k \in 1..m <=> k \in 1..f /\ k <= m
        BY <1>5
    <2> QED BY <1>2, <1>5, <1>7, <2>1
<1>9. Prompt!GroupNumber(m) = n
    BY <1>4, <1>6, <1>8, NumberOfGroup
<1> QED BY <1>5, <1>6, <1>9

LEMMA PartsHaveNoGap ==
    ASSUME FoundIsTyped, NEW i \in 1..Len(found), NEW n \in 1..Prompt!InGroup(i)
    PROVE  \E j \in 1..i : found[j].group = found[i].group /\ Prompt!InGroup(j) = n
<1>1. InGroupUpTo(i) \in SUBSET Nat /\ IsFiniteSet(InGroupUpTo(i)) /\ n \in 1..Cardinality(InGroupUpTo(i))
    BY NumberInGroup
<1>2. PICK m \in InGroupUpTo(i) : Cardinality({k \in InGroupUpTo(i) : k <= m}) = n
    BY <1>1, CountedUpTo
<1>3. m \in 1..i /\ m \in 1..Len(found) /\ found[m].group = found[i].group
    BY DEF InGroupUpTo, FoundIsTyped
<1>4. InGroupUpTo(m) = {k \in InGroupUpTo(i) : k <= m}
    <2>1. \A k : k \in 1..m <=> k \in 1..i /\ k <= m
        BY <1>3
    <2> QED BY <1>3, <2>1 DEF InGroupUpTo
<1>5. Prompt!InGroup(m) = n
    BY <1>2, <1>3, <1>4, NumberInGroup
<1> QED BY <1>3, <1>5

LEMMA CitationsAreRight ==
    ASSUME FoundIsTyped, refs = [i \in 1..Len(found) |-> Reference(i)]
    PROVE  Prompt!CitationsResolve
<1>1. \A i \in 1..Len(found) :
          /\ refs[i] = Reference(i) /\ refs[i][1] = found[i].source
          /\ refs[i][2] = Prompt!GroupNumber(i) /\ refs[i][3] = Prompt!InGroup(i)
    BY DEF Reference
<1>2. \A i, j \in 1..Len(found) : i # j => refs[i] # refs[j]
    BY <1>1, ReferencesDiffer
<1>3. \A i, j \in 1..Len(found) : found[i].group = found[j].group => refs[i][2] = refs[j][2]
    BY <1>1, SameGroupSameNumber
<1>4. \A i \in 1..Len(found) : \A j \in 1..i : j \in 1..Len(found)
    BY DEF FoundIsTyped
<1>5. ASSUME NEW i \in 1..Len(found), NEW g \in 1..refs[i][2]
      PROVE  \E j \in 1..i : refs[j][1] = refs[i][1] /\ refs[j][2] = g
    <2>1. PICK j \in 1..i : found[j].source = found[i].source /\ Prompt!GroupNumber(j) = g
        BY <1>1, GroupsHaveNoGap
    <2> QED BY <1>1, <1>4, <2>1
<1>6. ASSUME NEW i \in 1..Len(found), NEW n \in 1..refs[i][3]
      PROVE  \E j \in 1..i : refs[j] = <<refs[i][1], refs[i][2], n>>
    <2>1. PICK j \in 1..i : found[j].group = found[i].group /\ Prompt!InGroup(j) = n
        BY <1>1, PartsHaveNoGap
    <2>2. j \in 1..Len(found)
        BY <1>4
    <2>3. found[j].source = found[i].source /\ Prompt!GroupNumber(j) = Prompt!GroupNumber(i)
        BY <2>1, <2>2, SameGroupSameNumber
    <2> QED BY <1>1, <2>1, <2>2, <2>3 DEF Reference
<1> QED BY <1>2, <1>3, <1>5, <1>6 DEF Prompt!CitationsResolve

-----------------------------------------------------------------------------
(* LlmContext: the inductive invariant.                                      *)

PromptTypes ==
    /\ at \in {"refer", "allocate", "window", "fit", "refit", "validate", "prompt", "raised"}
    /\ history \in Conversation /\ query \in Nat /\ system \in Nat /\ FoundIsTyped
    /\ share \in [history : Nat, chunks : Nat]
    /\ NewestOf(window) /\ summary \in Nat /\ room \in Nat /\ kept \in Parts
\* The chunks kept are the first ones, of which only the last may be cut.
KeptOf(s) ==
    /\ Len(s) <= Len(found)
    /\ \A i \in 1..Len(s) : s[i][1] = i /\ (s[i][2] # found[i].size => i = Len(s))
\* What was kept at first: all or nothing, or so little that the margin is left for what the
\* template adds and the last part costs beyond its share.
FirstTry ==
    at = "refit" =>
        /\ room <= Prompt!Larger(0, Total - Prompt!Fixed)
        /\ \/ kept = <<>>
           \/ kept = Prompt!Numbered /\ Prompt!Tokens(kept) = room
           \/ kept # <<>> /\ WithinCut(kept, room)
\* The last part of these chunks passes the margin.
LongCut(s) == s # <<>> /\ Growth * (Margin - Wrap * Len(s)) < (Growth - 1) * s[Len(s)][2]
PromptInv ==
    /\ PromptTypes /\ KeptOf(kept)
    /\ at # "refer" => refs = [i \in 1..Len(found) |-> Reference(i)]
    /\ share.chunks <= Prompt!Tokens(Prompt!Numbered)
    /\ FirstTry
    /\ at \in {"validate", "prompt", "raised"} /\ Prompt!Fixed <= Total =>
          Prompt!Assembled <= Total \/ LongCut(kept)
    /\ at = "raised" => ~(Prompt!Assembled <= Total)

LEMMA NumberedIsParts ==
    ASSUME FoundIsTyped
    PROVE  /\ Prompt!Numbered \in Parts /\ Len(Prompt!Numbered) = Len(found) /\ Len(found) \in Nat
           /\ \A i \in 1..Len(found) : /\ Prompt!Numbered[i][1] = i /\ Prompt!Numbered[i][2] = found[i].size
                                       /\ found[i].size \in Nat
<1>1. Len(found) \in Nat
    BY DEF FoundIsTyped
<1>2. ASSUME NEW i \in 1..Len(found) PROVE found[i].size \in Nat /\ <<i, found[i].size>> \in Nat \X Nat
    <2>1. found[i] \in Prompt!Hit
        BY DEF FoundIsTyped
    <2> QED BY <2>1 DEF Prompt!Hit
<1>3. Prompt!Numbered = [i \in 1..Len(found) |-> <<i, found[i].size>>]
    BY DEF Prompt!Numbered
<1> QED BY <1>1, <1>2, <1>3 DEF Parts

LEMMA PromptStarts == ASSUME Prompt!ContextAssumption, Prompt!Init PROVE PromptInv
<1>1. history \in Conversation /\ query \in Nat /\ system \in Nat
    BY DEF Prompt!Init, Prompt!ContextAssumption, Conversation
<1>2. FoundIsTyped
    BY DEF Prompt!Init, Prompt!ContextAssumption, FoundIsTyped
<1>3. NewestOf(window)
    <2>1. window = <<>> /\ Len(window) = 0 /\ 1..Len(window) = {} /\ window \in Conversation
        BY DEF Prompt!Init, Conversation
    <2>2. Len(Prompt!Past) \in Nat
        BY <1>1, PastIsConversation DEF Conversation
    <2> QED BY <2>1, <2>2 DEF NewestOf
<1>4. kept \in Parts /\ KeptOf(kept)
    <2>1. kept = <<>> /\ Len(kept) = 0 /\ 1..Len(kept) = {}
        BY DEF Prompt!Init
    <2>2. Len(found) \in Nat
        BY <1>2 DEF FoundIsTyped
    <2> QED BY <2>1, <2>2, NoTokens DEF KeptOf
<1>5. Prompt!Tokens(Prompt!Numbered) \in Nat
    BY <1>2, NumberedIsParts, TokensOf
<1> QED BY <1>1, <1>2, <1>3, <1>4, <1>5 DEF Prompt!Init, PromptInv, PromptTypes, FirstTry

\* What depends on the input alone.
LEMMA InputStays ==
    ASSUME UNCHANGED <<history, found>>
    PROVE  /\ FoundIsTyped' = FoundIsTyped /\ Prompt!Past' = Prompt!Past
           /\ Prompt!Numbered' = Prompt!Numbered
           /\ \A s : KeptOf(s)' = KeptOf(s)
<1>1. history' = history /\ found' = found
    OBVIOUS
<1> QED BY <1>1 DEF FoundIsTyped, Prompt!Past, Prompt!Numbered, KeptOf

LEMMA FixedIsNatural ==
    ASSUME Prompt!ContextAssumption, PromptTypes
    PROVE  Prompt!Fixed \in Nat /\ Total \in Nat /\ Wrap \in Nat /\ Margin \in Nat /\ Growth \in Nat \ {0}
<1>1. /\ Overhead \in Nat /\ Total \in Nat /\ Wrap \in Nat /\ Margin \in Nat /\ Growth \in Nat \ {0}
    BY DEF Prompt!ContextAssumption
<1>2. window \in Conversation /\ system \in Nat /\ query \in Nat /\ summary \in Nat
    BY DEF PromptTypes, NewestOf
<1>3. Prompt!Messages(window) \in Nat
    BY <1>1, <1>2, MessagesOf
<1> QED BY <1>1, <1>2, <1>3 DEF Prompt!Fixed

LEMMA PromptRefers == ASSUME PromptInv, Prompt!Refer PROVE PromptInv'
<1>1. /\ UNCHANGED <<history, query, system, found, share, window, summary, room, kept>>
      /\ at' = "allocate" /\ refs' = [i \in 1..Len(found) |-> Reference(i)]
    BY DEF Prompt!Refer, Reference
<1>2. /\ FoundIsTyped' = FoundIsTyped /\ Prompt!Past' = Prompt!Past /\ Prompt!Numbered' = Prompt!Numbered
    BY <1>1, InputStays
<1>3. refs' = [i \in 1..Len(found) |-> Reference(i)]'
    BY <1>1 DEF Reference, Prompt!GroupNumber, Prompt!InGroup
<1>4. NewestOf(window)' /\ KeptOf(kept)'
    BY <1>1, <1>2 DEF PromptInv, PromptTypes, NewestOf, KeptOf
<1>5. Prompt!Tokens(Prompt!Numbered)' = Prompt!Tokens(Prompt!Numbered)
    BY <1>1, <1>2 DEF Prompt!Tokens, Prompt!SumOf
<1> QED BY <1>1, <1>2, <1>3, <1>4, <1>5 DEF PromptInv, PromptTypes, FirstTry

\* The references, the chunks and what is said of them stay.
Stays ==
    /\ UNCHANGED <<history, query, system, found, refs>>
    /\ at # "refer" /\ at' # "refer"
LEMMA StaysSame ==
    ASSUME PromptInv, Stays
    PROVE  /\ history' \in Conversation /\ query' \in Nat /\ system' \in Nat /\ FoundIsTyped'
           /\ (at # "refer" => refs = [i \in 1..Len(found) |-> Reference(i)])'
           /\ \A s : Prompt!Tokens(s)' = Prompt!Tokens(s)
           /\ Prompt!Numbered' = Prompt!Numbered
           /\ \A s : KeptOf(s)' = KeptOf(s)
           /\ \A s : NewestOf(s)' = NewestOf(s)
<1>1. UNCHANGED <<history, query, system, found, refs>>
    BY DEF Stays
<1>2. /\ FoundIsTyped' = FoundIsTyped /\ Prompt!Past' = Prompt!Past
      /\ Prompt!Numbered' = Prompt!Numbered
      /\ \A s : KeptOf(s)' = KeptOf(s)
    BY <1>1, InputStays
<1>3. refs = [i \in 1..Len(found) |-> Reference(i)]
    BY DEF PromptInv, Stays
<1>4. [i \in 1..Len(found) |-> Reference(i)]' = [i \in 1..Len(found) |-> Reference(i)]
    BY <1>1 DEF Reference, Prompt!GroupNumber, Prompt!InGroup
<1>5. \A s : Prompt!Tokens(s)' = Prompt!Tokens(s)
    OBVIOUS
<1>6. \A s : NewestOf(s)' = NewestOf(s)
    BY <1>2 DEF NewestOf
<1> QED BY <1>1, <1>2, <1>3, <1>4, <1>5, <1>6 DEF PromptInv, PromptTypes

LEMMA PromptAllocates == ASSUME Prompt!ContextAssumption, PromptInv, Prompt!Allocate PROVE PromptInv'
<1> DEFINE wanted == Prompt!Tokens(Prompt!Numbered)
           rest == Total - Prompt!Smaller(query, Total)
<1>1. /\ UNCHANGED <<history, query, system, found, refs, window, summary, room, kept>>
      /\ at = "allocate" /\ at' = "window"
    BY DEF Prompt!Allocate
<1>2. Stays
    BY <1>1 DEF Stays
<1>3. wanted \in Nat /\ Prompt!Wanted.chunks = wanted
    <2>1. [i \in 1..Len(Prompt!Numbered) |-> Prompt!Numbered[i][2]] = [i \in 1..Len(found) |-> found[i].size]
        BY NumberedIsParts DEF PromptInv, PromptTypes
    <2>2. Prompt!Wanted.chunks = Prompt!SumOf([i \in 1..Len(found) |-> found[i].size])
        BY DEF Prompt!Wanted
    <2>3. wanted = Prompt!SumOf([i \in 1..Len(Prompt!Numbered) |-> Prompt!Numbered[i][2]])
        BY DEF Prompt!Tokens
    <2>4. wanted \in Nat
        BY NumberedIsParts, TokensOf DEF PromptInv, PromptTypes
    <2> HIDE DEF wanted
    <2> QED BY <2>1, <2>2, <2>3, <2>4
<1>4. Prompt!Wanted.history \in Nat
    <2>1. history \in Conversation /\ Overhead \in Nat
        BY DEF PromptInv, PromptTypes, Prompt!ContextAssumption
    <2> QED BY <2>1, MessagesOf DEF Prompt!Wanted
<1>5. rest \in Nat
    <2>1. Total \in Nat /\ query \in Nat
        BY DEF PromptInv, PromptTypes, Prompt!ContextAssumption
    <2> QED BY <2>1 DEF Prompt!Smaller
<1>6. share' = [chunks |-> Prompt!Smaller(Prompt!Wanted.chunks, rest),
                history |-> Prompt!Smaller(Prompt!Wanted.history, rest - Prompt!Smaller(Prompt!Wanted.chunks, rest))]
    <2>1. Prompt!Wanted.query = query
        BY DEF Prompt!Wanted
    <2> QED BY <2>1 DEF Prompt!Allocate
<1> HIDE DEF rest, wanted
<1>7. /\ Prompt!Smaller(Prompt!Wanted.chunks, rest) \in Nat /\ Prompt!Smaller(Prompt!Wanted.chunks, rest) <= wanted
      /\ Prompt!Smaller(Prompt!Wanted.chunks, rest) <= rest
    BY <1>3, <1>5 DEF Prompt!Smaller
<1>8. rest - Prompt!Smaller(Prompt!Wanted.chunks, rest) \in Nat
    BY <1>5, <1>7
<1>9. Prompt!Smaller(Prompt!Wanted.history, rest - Prompt!Smaller(Prompt!Wanted.chunks, rest)) \in Nat
    BY <1>4, <1>8 DEF Prompt!Smaller
<1>10. share' \in [history : Nat, chunks : Nat] /\ share'.chunks <= wanted
    BY <1>6, <1>7, <1>9
<1>11. (Prompt!Tokens(Prompt!Numbered))' = wanted
    BY <1>2, StaysSame DEF wanted
<1> QED BY <1>1, <1>2, <1>10, <1>11, StaysSame DEF PromptInv, PromptTypes, FirstTry

LEMMA PromptWindows == ASSUME Prompt!ContextAssumption, PromptInv, Prompt!Window PROVE PromptInv'
<1>1. /\ UNCHANGED <<history, query, system, found, refs, share, room, kept>>
      /\ at = "window" /\ at' = "fit"
    BY DEF Prompt!Window
<1>2. Stays
    BY <1>1 DEF Stays
<1>3. NewestOf(window') /\ summary' \in Nat
    BY WindowGives DEF PromptInv, PromptTypes
<1>4. NewestOf(window)'
    BY <1>2, <1>3, StaysSame
<1>5. (Prompt!Tokens(Prompt!Numbered))' = Prompt!Tokens(Prompt!Numbered)
    BY <1>2, StaysSame
<1>6. KeptOf(kept)' /\ kept' \in Parts
    BY <1>1, <1>2, StaysSame DEF PromptInv, PromptTypes
<1> QED BY <1>1, <1>2, <1>3, <1>4, <1>5, <1>6, StaysSame DEF PromptInv, PromptTypes, FirstTry

LEMMA LargerOf == ASSUME NEW a \in Int PROVE /\ Prompt!Larger(0, a) \in Nat /\ a <= Prompt!Larger(0, a)
                                             /\ Prompt!Larger(0, a) > 0 => Prompt!Larger(0, a) = a
BY DEF Prompt!Larger

\* The first try keeps the first chunks and is what FirstTry says.
LEMMA PromptFitsFirst == ASSUME Prompt!ContextAssumption, PromptInv, Prompt!Fit PROVE PromptInv'
<1> DEFINE all == Prompt!Numbered
           left == Total - Prompt!Fixed
<1>1. /\ UNCHANGED <<history, query, system, found, refs, share, window, summary>>
      /\ at = "fit" /\ at' = "refit" /\ room' = Prompt!Smaller(share.chunks, Prompt!Larger(0, left))
      /\ kept' \in Prompt!FitChunks(all, room')
    BY DEF Prompt!Fit
<1>2. Stays
    BY <1>1 DEF Stays
<1>3. Prompt!Fixed \in Nat /\ Total \in Nat /\ Margin \in Nat /\ Growth \in Nat \ {0}
    BY FixedIsNatural DEF PromptInv
<1>4. Prompt!Fixed' = Prompt!Fixed
    BY <1>1 DEF Prompt!Fixed
<1>5. /\ all \in Parts /\ Len(all) = Len(found) /\ Len(found) \in Nat
      /\ \A i \in 1..Len(found) : all[i][1] = i /\ all[i][2] = found[i].size
    BY NumberedIsParts DEF PromptInv, PromptTypes
<1>6. Prompt!Tokens(all) \in Nat /\ share.chunks \in Nat /\ share.chunks <= Prompt!Tokens(all)
    BY <1>5, TokensOf DEF PromptInv, PromptTypes
<1>7. room' \in Nat /\ room' <= share.chunks /\ room' <= Prompt!Larger(0, left)
    <2>1. Prompt!Larger(0, left) \in Nat
        BY <1>3, LargerOf
    <2> HIDE DEF left
    <2> QED BY <1>1, <1>6, <2>1 DEF Prompt!Smaller
<1> HIDE DEF all, left
<1>8. /\ kept' \in Parts /\ Len(kept') <= Len(all)
      /\ \A i \in 1..Len(kept') : kept'[i][1] = all[i][1] /\ (kept'[i] # all[i] => i = Len(kept'))
      /\ \/ kept' = <<>>
         \/ kept' = all /\ room' > 0 /\ Prompt!Tokens(all) <= room'
         \/ kept' # <<>> /\ WithinCut(kept', room')
    BY <1>1, <1>3, <1>5, <1>7, FitGives, SMTT(30)
<1>9. KeptOf(kept')
    <2>1. \A i \in 1..Len(kept') : i \in 1..Len(found)
        BY <1>5, <1>8 DEF Parts
    <2> QED BY <1>5, <1>8, <2>1 DEF KeptOf
<1>10. \/ kept' = <<>>
       \/ kept' = all /\ Prompt!Tokens(kept') = room'
       \/ kept' # <<>> /\ WithinCut(kept', room')
    <2>1. CASE kept' = all /\ Prompt!Tokens(all) <= room'
        BY <1>6, <1>7, <2>1
    <2> QED BY <1>8, <2>1
<1>11. /\ Prompt!Tokens(Prompt!Numbered)' = Prompt!Tokens(all)
       /\ Prompt!Tokens(kept)' = Prompt!Tokens(kept')
       /\ Prompt!Numbered' = all
       /\ KeptOf(kept)' = KeptOf(kept') /\ NewestOf(window)' = NewestOf(window)
       /\ WithinCut(kept, room)' = WithinCut(kept', room')
    BY <1>1, <1>2, StaysSame DEF all, WithinCut
<1>12. FirstTry'
    <2>1. (Total - Prompt!Fixed)' = left
        BY <1>4 DEF left
    <2>2. Prompt!Larger(0, Total - Prompt!Fixed)' = Prompt!Larger(0, left)
        BY <2>1 DEF Prompt!Larger
    <2> QED BY <1>1, <1>7, <1>10, <1>11, <2>2 DEF FirstTry
<1> QED BY <1>1, <1>2, <1>6, <1>7, <1>8, <1>9, <1>11, <1>12, StaysSame DEF PromptInv, PromptTypes

\* A cut of what was kept is a cut of the chunks.
LEMMA CutAgain ==
    ASSUME FoundIsTyped, NEW s \in Parts, KeptOf(s), NEW r \in Parts, Len(r) <= Len(s),
           \A i \in 1..Len(r) : r[i][1] = s[i][1] /\ (r[i] # s[i] => i = Len(r))
    PROVE  KeptOf(r)
<1>1. Len(r) \in Nat /\ Len(s) \in Nat /\ Len(found) \in Nat
    BY DEF Parts, FoundIsTyped
<1>2. ASSUME NEW i \in 1..Len(r) PROVE r[i][1] = i /\ (r[i][2] # found[i].size => i = Len(r))
    <2>1. i \in 1..Len(s) /\ s[i][1] = i /\ (s[i][2] # found[i].size => i = Len(s))
        BY <1>1 DEF KeptOf
    <2>2. i = Len(s) => i = Len(r)
        BY <1>1
    <2> QED BY <2>1, <2>2
<1> QED BY <1>1, <1>2 DEF KeptOf

\* What a try with at most so much room keeps fits into it with what the template adds, or its last
\* part passes the margin.
LEMMA CutFits ==
    ASSUME NEW s \in Parts, s # <<>>, NEW budget \in Int, WithinCut(s, budget),
           Growth \in Nat \ {0}, Margin \in Nat, Wrap \in Nat
    PROVE  Prompt!Tokens(s) + Wrap * Len(s) <= budget \/ LongCut(s)
<1> DEFINE t == Prompt!Tokens(s)
           w == Wrap * Len(s)
           beyond == (Growth - 1) * s[Len(s)][2]
<1>1. t \in Nat /\ w \in Nat
    <2>1. t \in Nat /\ Len(s) \in Nat
        BY TokensOf DEF Parts
    <2> QED BY <2>1
<1>2. beyond \in Nat
    <2>1. s[Len(s)][2] \in Nat /\ Growth - 1 \in Nat
        BY DEF Parts
    <2> QED BY <2>1
<1>3. SUFFICES ASSUME ~LongCut(s) PROVE t + w <= budget
    OBVIOUS
<1>4. Growth * (t + Margin - budget) <= beyond
    BY DEF WithinCut
<1>5. ~(Growth * (Margin - w) < beyond)
    BY <1>3 DEF LongCut
<1> HIDE DEF t, w, beyond
<1> DEFINE a == t + Margin - budget
           b == Margin - w
<1>6. a \in Int /\ b \in Int /\ (a <= b => t + w <= budget)
    BY <1>1
<1>7. Growth * a \in Int /\ Growth * b \in Int
    BY <1>6
<1>8. Growth * a <= Growth * b
    BY <1>2, <1>4, <1>5, <1>7
<1> HIDE DEF a, b
<1>9. a <= b
    BY <1>6, <1>8, TimesKeeps
<1> QED BY <1>6, <1>9

\* When the rest of the prompt fits, the second try is enough but for a cut that passes the margin.
LEMMA SecondTry ==
    ASSUME Prompt!ContextAssumption, PromptInv, at = "refit", Prompt!Fixed <= Total,
           kept # <<>>, Prompt!Assembled > Total,
           NEW r \in Prompt!FitChunks(kept, Prompt!Larger(0, room - (Prompt!Assembled - Total)))
    PROVE  Prompt!Fixed + Prompt!Tokens(r) + Wrap * Len(r) <= Total \/ LongCut(r)
<1> DEFINE fixed == Prompt!Fixed
           used == Prompt!Tokens(kept)
           around == Wrap * Len(kept)
           budget == Prompt!Larger(0, room - (Prompt!Assembled - Total))
<1>1. fixed \in Nat /\ Total \in Nat /\ Wrap \in Nat /\ Margin \in Nat /\ Growth \in Nat \ {0}
    BY FixedIsNatural DEF PromptInv
<1>2. kept \in Parts /\ room \in Nat
    BY DEF PromptInv, PromptTypes
<1>3. used \in Nat /\ around \in Nat
    <2>1. used \in Nat /\ Len(kept) \in Nat
        BY <1>2, TokensOf DEF Parts
    <2> QED BY <1>1, <2>1
<1>4. Prompt!Assembled = fixed + used + around
    BY DEF Prompt!Assembled
<1>5. room <= Total - fixed
    <2>1. room <= Prompt!Larger(0, Total - fixed)
        BY DEF PromptInv, FirstTry
    <2>2. Total - fixed \in Nat
        BY <1>1
    <2> HIDE DEF fixed
    <2> QED BY <2>1, <2>2 DEF Prompt!Larger
<1>6. budget \in Nat /\ (budget > 0 => budget = room - ((fixed + used + around) - Total))
    <2>1. room - ((fixed + used + around) - Total) \in Int
        BY <1>1, <1>2, <1>3
    <2> HIDE DEF fixed, used, around
    <2>2. room - (Prompt!Assembled - Total) = room - ((fixed + used + around) - Total)
        BY <1>4
    <2> DEFINE spare == room - ((fixed + used + around) - Total)
    <2>3. budget = Prompt!Larger(0, spare)
        BY <2>2
    <2> HIDE DEF budget
    <2>4. budget \in Nat /\ (budget > 0 => budget = spare)
        <3>1. spare \in Int
            BY <2>1
        <3> HIDE DEF spare
        <3> QED BY <2>3, <3>1, LargerOf
    <2> QED BY <2>4
<1>7. \/ kept = Prompt!Numbered /\ used = room
      \/ WithinCut(kept, room)
    BY DEF PromptInv, FirstTry
<1>8. fixed + used + around > Total
    BY <1>4
<1> HIDE DEF budget
<1>9. /\ r \in Parts
      /\ \/ r = <<>>
         \/ r = kept /\ budget > 0 /\ used <= budget
         \/ r # <<>> /\ WithinCut(r, budget)
    <2>1. r \in Prompt!FitChunks(kept, budget)
        BY DEF budget
    <2> QED BY <1>1, <1>2, <1>6, <2>1, FitGives
<1>10. CASE r = <<>>
    <2>1. Prompt!Tokens(r) = 0 /\ Len(r) = 0
        BY <1>10, NoTokens
    <2>2. Wrap * Len(r) = 0
        BY <1>1, <2>1
    <2> QED BY <1>1, <2>1, <2>2
<1>11. CASE r = kept /\ budget > 0 /\ used <= budget
    <2>1. CASE used = room
        <3> HIDE DEF fixed, used, around
        <3>1. fixed + used + around <= Total
            BY <1>1, <1>2, <1>3, <1>6, <1>11, <2>1
        <3> QED BY <1>1, <1>3, <1>8, <3>1
    <2>2. CASE WithinCut(kept, room)
        <3>1. used + around <= room \/ LongCut(kept)
            BY <1>1, <1>2, <2>2, CutFits
        <3>2. ~(used + around <= room)
            <4> HIDE DEF fixed, used, around
            <4> QED BY <1>1, <1>2, <1>3, <1>5, <1>8
        <3> QED BY <1>11, <3>1, <3>2
    <2> QED BY <1>7, <2>1, <2>2
<1>12. CASE r # <<>> /\ WithinCut(r, budget)
    <2> DEFINE t == Prompt!Tokens(r)
               w == Wrap * Len(r)
    <2>1. t + w <= budget \/ LongCut(r)
        BY <1>1, <1>6, <1>9, <1>12, CutFits
    <2>2. t \in Nat /\ w \in Nat
        <3>1. t \in Nat /\ Len(r) \in Nat
            BY <1>9, TokensOf DEF Parts
        <3> QED BY <1>1, <3>1
    <2>3. budget <= Total - fixed
        <3> HIDE DEF fixed, used, around
        <3> QED BY <1>1, <1>2, <1>3, <1>5, <1>6, <1>8
    <2>4. t + w <= budget => fixed + t + w <= Total
        <3> HIDE DEF fixed, t, w
        <3> QED BY <1>1, <1>6, <2>2, <2>3
    <2> QED BY <2>1, <2>4
<1> QED BY <1>9, <1>10, <1>11, <1>12

LEMMA PromptRefits == ASSUME Prompt!ContextAssumption, PromptInv, Prompt!Refit PROVE PromptInv'
<1>1. /\ UNCHANGED <<history, query, system, found, refs, share, window, summary, room>>
      /\ at = "refit" /\ at' = "validate"
      /\ \/ kept # <<>> /\ Prompt!Assembled > Total
            /\ kept' \in Prompt!FitChunks(kept, Prompt!Larger(0, room - (Prompt!Assembled - Total)))
         \/ ~(kept # <<>> /\ Prompt!Assembled > Total) /\ kept' = kept
    BY DEF Prompt!Refit, Prompt!Refitted
<1>2. Stays
    BY <1>1 DEF Stays
<1>3. Prompt!Fixed \in Nat /\ Total \in Nat /\ Wrap \in Nat /\ Margin \in Nat /\ Growth \in Nat \ {0}
    BY FixedIsNatural DEF PromptInv
<1>4. kept \in Parts /\ KeptOf(kept) /\ FoundIsTyped /\ room \in Nat
    BY DEF PromptInv, PromptTypes
<1>5. Prompt!Fixed' = Prompt!Fixed
    BY <1>1 DEF Prompt!Fixed
<1>6. Prompt!Assembled \in Int
    <2>1. Prompt!Tokens(kept) \in Nat /\ Len(kept) \in Nat
        BY <1>4, TokensOf DEF Parts
    <2>2. Wrap * Len(kept) \in Nat
        BY <1>3, <2>1
    <2> QED BY <1>3, <2>1, <2>2 DEF Prompt!Assembled
<1>7. kept' \in Parts /\ KeptOf(kept')
    <2>1. CASE kept' = kept
        BY <1>4, <2>1
    <2>2. CASE kept' \in Prompt!FitChunks(kept, Prompt!Larger(0, room - (Prompt!Assembled - Total)))
        <3> DEFINE budget == Prompt!Larger(0, room - (Prompt!Assembled - Total))
        <3>1. budget \in Nat
            BY <1>3, <1>4, <1>6, LargerOf
        <3> HIDE DEF budget
        <3>2. /\ kept' \in Parts /\ Len(kept') <= Len(kept)
              /\ \A i \in 1..Len(kept') : kept'[i][1] = kept[i][1] /\ (kept'[i] # kept[i] => i = Len(kept'))
            <4>1. kept' \in Prompt!FitChunks(kept, budget)
                BY <2>2 DEF budget
            <4> QED BY <1>3, <1>4, <3>1, <4>1, FitGives
        <3> QED BY <1>4, <3>2, CutAgain
    <2> QED BY <1>1, <2>1, <2>2
<1>8. Prompt!Fixed <= Total =>
         Prompt!Fixed + Prompt!Tokens(kept') + Wrap * Len(kept') <= Total \/ LongCut(kept')
    <2> SUFFICES ASSUME Prompt!Fixed <= Total
                 PROVE  Prompt!Fixed + Prompt!Tokens(kept') + Wrap * Len(kept') <= Total \/ LongCut(kept')
        OBVIOUS
    <2>1. CASE kept # <<>> /\ Prompt!Assembled > Total
               /\ kept' \in Prompt!FitChunks(kept, Prompt!Larger(0, room - (Prompt!Assembled - Total)))
        BY <1>1, <2>1, SecondTry
    <2>2. CASE kept = <<>> /\ kept' = kept
        <3>1. Prompt!Tokens(kept') = 0 /\ Len(kept') = 0
            BY <2>2, NoTokens
        <3>2. Wrap * Len(kept') = 0
            BY <1>3, <3>1
        <3> QED BY <1>3, <3>1, <3>2
    <2>3. CASE ~(Prompt!Assembled > Total) /\ kept' = kept
        <3>1. Prompt!Assembled <= Total
            BY <1>3, <1>6, <2>3
        <3> QED BY <2>3, <3>1 DEF Prompt!Assembled
    <2> QED BY <1>1, <2>1, <2>2, <2>3
<1>9. /\ Prompt!Tokens(Prompt!Numbered)' = Prompt!Tokens(Prompt!Numbered)
      /\ Prompt!Tokens(kept)' = Prompt!Tokens(kept') /\ LongCut(kept)' = LongCut(kept')
      /\ KeptOf(kept)' = KeptOf(kept') /\ NewestOf(window)' = NewestOf(window)
    BY <1>1, <1>2, StaysSame DEF LongCut
<1>10. Prompt!Assembled' = Prompt!Fixed + Prompt!Tokens(kept') + Wrap * Len(kept')
    BY <1>5, <1>9 DEF Prompt!Assembled
<1>11. (Prompt!Fixed <= Total => Prompt!Assembled <= Total \/ LongCut(kept))'
    BY <1>5, <1>8, <1>9, <1>10
<1> QED BY <1>1, <1>2, <1>7, <1>9, <1>11, StaysSame DEF PromptInv, PromptTypes, FirstTry

LEMMA PromptValidates == ASSUME Prompt!ContextAssumption, PromptInv, Prompt!Validate PROVE PromptInv'
<1>1. /\ UNCHANGED <<history, query, system, found, refs, share, window, summary, room, kept>>
      /\ at = "validate" /\ at' = IF Prompt!Assembled <= Total THEN "prompt" ELSE "raised"
    BY DEF Prompt!Validate
<1>2. Stays
    BY <1>1 DEF Stays
<1>3. Prompt!Fixed' = Prompt!Fixed /\ Prompt!Tokens(kept)' = Prompt!Tokens(kept)
    BY <1>1 DEF Prompt!Fixed, Prompt!Tokens, Prompt!SumOf
<1>4. Prompt!Assembled' = Prompt!Assembled
    BY <1>1, <1>3 DEF Prompt!Assembled
<1>5. /\ Prompt!Tokens(Prompt!Numbered)' = Prompt!Tokens(Prompt!Numbered)
      /\ LongCut(kept)' = LongCut(kept)
      /\ KeptOf(kept)' = KeptOf(kept) /\ NewestOf(window)' = NewestOf(window)
    BY <1>1, <1>2, StaysSame DEF LongCut
<1> QED BY <1>1, <1>2, <1>3, <1>4, <1>5, StaysSame DEF PromptInv, PromptTypes, FirstTry

LEMMA PromptStep ==
    ASSUME Prompt!ContextAssumption, PromptInv, Prompt!Next \/ UNCHANGED <<promptVars, at>>
    PROVE  PromptInv'
<1>1. CASE Prompt!Next
    BY <1>1, PromptRefers, PromptAllocates, PromptWindows, PromptFitsFirst, PromptRefits, PromptValidates
       DEF Prompt!Next
<1>2. CASE UNCHANGED <<promptVars, at>>
    <2>1. UNCHANGED <<history, query, system, found, refs, share, window, summary, room, kept, at>>
        BY <1>2 DEF promptVars
    <2>2. /\ FoundIsTyped' = FoundIsTyped /\ Prompt!Past' = Prompt!Past
          /\ Prompt!Numbered' = Prompt!Numbered
          /\ \A s : KeptOf(s)' = KeptOf(s)
        BY <2>1, InputStays
    <2>3. Prompt!Fixed' = Prompt!Fixed /\ Prompt!Tokens(kept)' = Prompt!Tokens(kept)
          /\ Prompt!Tokens(Prompt!Numbered)' = Prompt!Tokens(Prompt!Numbered)
        BY <2>1, <2>2 DEF Prompt!Fixed, Prompt!Tokens, Prompt!SumOf
    <2>4. Prompt!Assembled' = Prompt!Assembled
        BY <2>1, <2>3 DEF Prompt!Assembled
    <2>5. /\ NewestOf(window)' = NewestOf(window) /\ KeptOf(kept)' = KeptOf(kept)
          /\ LongCut(kept)' = LongCut(kept)
        BY <2>1, <2>2 DEF NewestOf, KeptOf, LongCut
    <2>6. [i \in 1..Len(found) |-> Reference(i)]' = [i \in 1..Len(found) |-> Reference(i)]
        BY <2>1 DEF Reference, Prompt!GroupNumber, Prompt!InGroup
    <2>7. FirstTry' = FirstTry
        BY <2>1, <2>2, <2>3 DEF FirstTry, WithinCut
    <2> QED BY <2>1, <2>2, <2>3, <2>4, <2>5, <2>6, <2>7 DEF PromptInv, PromptTypes
<1> QED BY <1>1, <1>2

\* The properties from the invariant.
LEMMA PromptIsKept ==
    ASSUME Prompt!ContextAssumption, PromptInv
    PROVE  Prompt!CutsGiveWay /\ Prompt!BestKept /\ Prompt!CitationsResolve
<1>1. Prompt!CutsGiveWay
    <2> SUFFICES ASSUME at = "raised", Prompt!Fixed <= Total
                 PROVE  kept # <<>> /\ Prompt!PassesMargin(Prompt!Last(kept)[2])
        BY DEF Prompt!CutsGiveWay
    <2>1. LongCut(kept)
        BY DEF PromptInv
    <2> QED BY <2>1 DEF LongCut, Prompt!PassesMargin, Prompt!Last
<1>2. Prompt!BestKept
    <2>1. NewestOf(window) /\ KeptOf(kept)
        BY DEF PromptInv, PromptTypes
    <2> QED BY <2>1 DEF Prompt!BestKept, NewestOf, KeptOf
<1>3. Prompt!CitationsResolve
    <2>1. CASE at = "refer"
        BY <2>1 DEF Prompt!CitationsResolve
    <2>2. CASE at # "refer"
        BY <2>2, CitationsAreRight DEF PromptInv, PromptTypes
    <2> QED BY <2>1, <2>2
<1> QED BY <1>1, <1>2, <1>3

-----------------------------------------------------------------------------
(* The suite.                                                                *)

RetrievalInv ==
    /\ running = "rag" => RagInv
    /\ running = "search" => SearchInv

\* In every behaviour of the suite, for all requests, proposals, answers of the searches and files,
\* no source is searched that the question, the flag or the plan's mode exclude, the mode being the
\* request's or what the planner's model wrote; a caller's own evidence is what is answered from, a
\* refusal is all or nothing, steps are told in pairs, and neither fusion nor rerank loses, repeats
\* or reverses what the searches found (rag_planning_service.py, vector_index_service.py).
THEOREM EvidenceIsKept == SuiteSpec => []EvidenceKept
<1> USE RetrievalSuiteAssumption
<1>1. SuiteInit => RetrievalInv
    <2> SUFFICES ASSUME SuiteInit PROVE RetrievalInv
        OBVIOUS
    <2>1. Init /\ (running = "search" => Search!Init)
        BY DEF SuiteInit
    <2> QED BY <2>1, RagInit, SearchStarts DEF RetrievalInv
<1>2. RetrievalInv /\ [SuiteNext]_suiteVars => RetrievalInv'
    <2> SUFFICES ASSUME RetrievalInv, [SuiteNext]_suiteVars PROVE RetrievalInv'
        OBVIOUS
    <2>1. running' = running
        BY DEF SuiteNext, suiteVars
    <2>2. CASE running = "rag"
        <3>1. [Next]_vars
            BY <2>2 DEF SuiteNext, suiteVars
        <3> QED BY <2>1, <2>2, <3>1, RagStep DEF RetrievalInv
    <2>4. CASE running = "search"
        <3>1. Search!Next \/ UNCHANGED <<searchVars, at>>
            BY <2>4 DEF SuiteNext, suiteVars
        <3> QED BY <2>1, <2>4, <3>1, SearchStep DEF RetrievalInv
    <2>5. CASE running \notin {"rag", "search"}
        BY <2>1, <2>5 DEF RetrievalInv
    <2> QED BY <2>2, <2>4, <2>5
<1>3. RetrievalInv => EvidenceKept
    <2> SUFFICES ASSUME RetrievalInv PROVE EvidenceKept
        OBVIOUS
    <2>1. running = "rag" =>
             /\ TypeOK /\ SearchesAllowed /\ PreloadedKept /\ RefusalAllOrNothing /\ StepsPaired
             /\ RerankKeeps /\ WebHitKept /\ GroundedAnswer /\ PlanConsistent
        BY RagIsKept DEF RetrievalInv
    <2>3. running = "search" =>
             Search!TypeOK /\ Search!HitsComplete /\ Search!EvidenceIsAScore /\ Search!DominanceKept
        BY SearchIsKept DEF RetrievalInv
    <2> QED BY <2>1, <2>3 DEF EvidenceKept
<1> QED BY <1>1, <1>2, <1>3, PTL DEF SuiteSpec

\* In every behaviour of the suite, for all conversations, questions, chunks and budgets, a prompt
\* keeps the newest messages and the first chunks, a citation names one chunk, and a question that
\* fits without its chunks is refused only when the cut of a long one passes the margin.
THEOREM PromptsFit == SuiteSpec => []PromptFits
<1> DEFINE Inv == running = "prompt" => PromptInv
<1>0. Prompt!ContextAssumption
    BY RetrievalSuiteAssumption
<1>1. SuiteInit => Inv
    BY <1>0, PromptStarts DEF SuiteInit
<1>2. Inv /\ [SuiteNext]_suiteVars => Inv'
    <2> SUFFICES ASSUME running = "prompt", PromptInv, [SuiteNext]_suiteVars PROVE PromptInv'
        BY DEF SuiteNext, suiteVars
    <2>1. Prompt!Next \/ UNCHANGED <<promptVars, at>>
        BY DEF SuiteNext, suiteVars
    <2> QED BY <1>0, <2>1, PromptStep
<1>3. Inv => PromptFits
    BY <1>0, PromptIsKept DEF PromptFits
<1> QED BY <1>1, <1>2, <1>3, PTL DEF SuiteSpec
=============================================================================

-------------------------- MODULE SessionReadsProofs --------------------------
(***************************************************************************)
(* Proofs about SessionReads, for any questions of a session and any       *)
(* limits of a history and a page: the order of the messages gives each    *)
(* of them one place; an answer directly follows its question; and who     *)
(* pages to the end has seen all that was there when he began.             *)
(***************************************************************************)
EXTENDS SessionReads, FiniteSetTheorems, TLAPS

-----------------------------------------------------------------------------
(* Places in an order.                                                       *)

Ordered(set) ==
    /\ \A m, n \in set : m # n => Before(m, n) \/ Before(n, m)
    /\ \A m, n \in set : ~(Before(m, n) /\ Before(n, m))
    /\ \A k, m, n \in set : Before(k, m) /\ Before(m, n) => Before(k, n)

\* What comes earlier has an earlier place, and places do not go beyond the number of messages.
LEMMA PlacesInOrder ==
    ASSUME NEW set, IsFiniteSet(set), Ordered(set)
    PROVE  /\ Cardinality(set) \in Nat
           /\ \A m \in set : Place(m, set) \in 1 .. Cardinality(set)
           /\ \A m, n \in set : Before(m, n) => Place(m, set) < Place(n, set)
<1> DEFINE Earlier(m) == {n \in set : Before(n, m)}
<1>1. ASSUME NEW m \in set
      PROVE  /\ IsFiniteSet(Earlier(m)) /\ Cardinality(Earlier(m)) \in Nat
             /\ Cardinality(Earlier(m) \cup {m}) = Cardinality(Earlier(m)) + 1
             /\ Earlier(m) \cup {m} \in SUBSET set
    <2>1. IsFiniteSet(Earlier(m)) /\ m \notin Earlier(m)
        BY FS_Subset DEF Ordered
    <2> HIDE DEF Earlier
    <2>2. /\ Cardinality(Earlier(m)) \in Nat
          /\ Cardinality(Earlier(m) \cup {m}) = Cardinality(Earlier(m)) + 1
        BY <2>1, FS_CardinalityType, FS_AddElement
    <2> QED BY <2>1, <2>2 DEF Earlier
<1>2. Cardinality(set) \in Nat
    BY FS_CardinalityType
<1>3. ASSUME NEW m \in set PROVE Place(m, set) = Cardinality(Earlier(m)) + 1
    BY DEF Place
<1>4. ASSUME NEW m \in set PROVE Place(m, set) \in 1 .. Cardinality(set)
    <2>1. Cardinality(Earlier(m) \cup {m}) <= Cardinality(set)
        BY <1>1, FS_Subset
    <2> HIDE DEF Earlier
    <2> QED BY <1>1, <1>2, <1>3, <2>1
<1>5. ASSUME NEW m \in set, NEW n \in set, Before(m, n) PROVE Place(m, set) < Place(n, set)
    <2>1. Earlier(m) \cup {m} \in SUBSET Earlier(n)
        BY <1>5 DEF Ordered
    <2> HIDE DEF Earlier
    <2>2. Cardinality(Earlier(m) \cup {m}) <= Cardinality(Earlier(n))
        BY <1>1, <2>1, FS_Subset
    <2>3. /\ Cardinality(Earlier(m)) \in Nat /\ Cardinality(Earlier(n)) \in Nat
          /\ Cardinality(Earlier(m) \cup {m}) = Cardinality(Earlier(m)) + 1
        BY <1>1
    <2>4. /\ Place(m, set) = Cardinality(Earlier(m)) + 1
          /\ Place(n, set) = Cardinality(Earlier(n)) + 1
        BY <1>3
    <2> QED BY <2>2, <2>3, <2>4
<1> QED BY <1>2, <1>4, <1>5

\* Each place is that of one message.
LEMMA OneForEachPlace ==
    ASSUME NEW set, IsFiniteSet(set), Ordered(set)
    PROVE  /\ \A m, n \in set : Place(m, set) = Place(n, set) => m = n
           /\ \A i \in 1 .. Cardinality(set) : \E m \in set : Place(m, set) = i
<1> DEFINE top == Cardinality(set)
           f == [m \in set |-> Place(m, set)]
<1>1. /\ top \in Nat /\ \A m \in set : Place(m, set) \in 1 .. top
      /\ \A m, n \in set : Before(m, n) => Place(m, set) < Place(n, set)
    BY PlacesInOrder
<1>2. \A m, n \in set : Place(m, set) = Place(n, set) => m = n
    BY <1>1 DEF Ordered
<1>3. f \in Injection(set, 1 .. top)
    BY <1>1, <1>2 DEF Injection, IsInjective
<1>4. IsFiniteSet(1 .. top) /\ Cardinality(1 .. top) = top
    BY <1>1, FS_Interval
<1>5. f \in Surjection(set, 1 .. top)
    <2> HIDE DEF f
    <2> QED BY <1>3, <1>4, FS_Injection
<1>6. \A i \in 1 .. top : \E m \in set : f[m] = i
    BY <1>5 DEF Surjection
<1> QED BY <1>2, <1>6

LEMMA InOrderGives ==
    ASSUME NEW set, IsFiniteSet(set), Ordered(set)
    PROVE  /\ DOMAIN InOrder(set) = 1 .. Cardinality(set) /\ Cardinality(set) \in Nat
           /\ \A i \in 1 .. Cardinality(set) :
                InOrder(set)[i] \in set /\ Place(InOrder(set)[i], set) = i
           /\ \A m \in set : Place(m, set) \in 1 .. Cardinality(set) /\ InOrder(set)[Place(m, set)] = m
<1>1. /\ \A m, n \in set : Place(m, set) = Place(n, set) => m = n
      /\ \A i \in 1 .. Cardinality(set) : \E m \in set : Place(m, set) = i
    BY OneForEachPlace
<1>2. ASSUME NEW i \in 1 .. Cardinality(set)
      PROVE  InOrder(set)[i] \in set /\ Place(InOrder(set)[i], set) = i
    BY <1>1 DEF InOrder
<1>3. Cardinality(set) \in Nat /\ \A m \in set : Place(m, set) \in 1 .. Cardinality(set)
    BY PlacesInOrder
<1> QED BY <1>1, <1>2, <1>3 DEF InOrder

\* If a message comes after a page, the page is full.
LEMMA FullPage ==
    ASSUME NEW set, IsFiniteSet(set), Ordered(set), NEW skip \in Nat, NEW limit \in Nat,
           NEW m \in set, Place(m, set) > skip + limit
    PROVE  Cardinality(Messages(set, skip, limit)) >= limit
<1> DEFINE page == Messages(set, skip, limit)
           places == skip + 1 .. skip + limit
           g == [i \in places |-> InOrder(set)[i]]
<1>1. Place(m, set) \in 1 .. Cardinality(set) /\ Cardinality(set) \in Nat
    BY PlacesInOrder
<1>2. \A i \in places : i \in 1 .. Cardinality(set)
    BY <1>1
<1>3. \A i \in places : InOrder(set)[i] \in set /\ Place(InOrder(set)[i], set) = i
    BY <1>2, InOrderGives
<1>4. g \in Injection(places, page)
    <2>1. \A i \in places : g[i] \in page
        BY <1>3 DEF Messages
    <2>2. \A i, j \in places : g[i] = g[j] => i = j
        BY <1>3
    <2> HIDE DEF page, places
    <2> QED BY <2>1, <2>2 DEF Injection, IsInjective
<1>5. IsFiniteSet(page)
    BY FS_Subset DEF Messages
<1>6. Cardinality(places) = limit
    <2>1. skip + 1 \in Int /\ skip + limit \in Int
        OBVIOUS
    <2>2. Cardinality(places) = IF skip + 1 > skip + limit THEN 0 ELSE (skip + limit) - (skip + 1) + 1
        BY <2>1, FS_Interval
    <2> QED BY <2>2
<1>7. Cardinality(places) <= Cardinality(page) /\ Cardinality(page) \in Nat
    <2> HIDE DEF page, places, g
    <2> QED BY <1>4, <1>5, FS_Injection, FS_CardinalityType
<1> QED BY <1>6, <1>7
-----------------------------------------------------------------------------
\* The inductive invariant.
All == Rounds \X Kinds
Stages == {"none", "begun", "asked", "answered", "read", "committed", "gone"}
Written == {"answered", "read", "committed"}
Rows == [msg : All, status : {"THINKING", "SUCCESS", "FAILED"}, attempt : Nat, retryable : BOOLEAN]
Readers == [at : {"idle", "page", "next", "done"}, skip : Nat, page : Seq(Rows),
            shown : Seq([message : Rows, request : Rows]), seen : SUBSET All, due : SUBSET All]

Typed ==
    /\ clock \in Nat /\ ids \in Nat /\ created \in [Rounds -> Nat] /\ id \in [All -> Nat]
    /\ stage \in [Rounds -> Stages]
    /\ status \in [Rounds -> {"THINKING", "SUCCESS", "FAILED"}]
    /\ attempt \in [Rounds -> 1 .. MaxAttempts] /\ retryable \in [Rounds -> BOOLEAN]
    /\ \A r \in Rounds : retryable[r] => status[r] = "FAILED"
    /\ history \in [Rounds -> Seq(All) \cup {None}] /\ reader \in Readers

\* Times and ids are given one after the other ...
Given ==
    /\ clock = Cardinality({r \in Rounds : created[r] # 0})
    /\ ids = Cardinality({m \in All : id[m] # 0})
    /\ \A r \in Rounds : created[r] <= clock /\ (created[r] = 0 <=> stage[r] = "none")
    /\ \A m \in All : id[m] <= ids
    /\ \A r, s \in Rounds : r # s /\ created[r] = created[s] => created[r] = 0

\* ... to a question before its answer.
Paired ==
    \A r \in Rounds :
        LET q == id[<<r, "question">>]
            a == id[<<r, "answer">>]
        IN  /\ stage[r] \in {"none", "begun"} => q = 0 /\ a = 0
            /\ stage[r] = "asked" => q # 0 /\ a = 0
            /\ stage[r] \in Written => q < a

\* Only what is committed is retried.
Retried == \A r \in Rounds : attempt[r] > 1 => stage[r] = "committed"

\* What a client who is on the way has still before him.
Ahead(m) ==
    \/ m \in reader.seen
    \/ reader.at = "next" /\ Place(m, Committed) > reader.skip
    \/ /\ reader.at = "page"
       /\ \/ \E i \in DOMAIN reader.page : reader.page[i].msg = m
          \/ Place(m, Committed) > reader.skip + PageLimit /\ Len(reader.page) >= PageLimit
Following ==
    /\ reader.due \subseteq Committed
    /\ reader.at # "idle" => \A m \in reader.due : Ahead(m)
    /\ reader.at = "idle" => reader.skip = 0

\* A row that was read is the one there is, or its request has been tried again, or was open.
Older(row) ==
    LET r == row.msg[1]
    IN  /\ row.attempt <= attempt[r]
        /\ (row.attempt = attempt[r] /\ row.status # "THINKING") =>
                row.status = status[r] /\ row.retryable = retryable[r]
PageOlder == \A i \in DOMAIN reader.page : Older(reader.page[i])

ReadsInv ==
    /\ Typed /\ Given /\ Paired /\ Retried /\ Following /\ PageOlder
    /\ PairsStayTogether /\ RetryForgetsFailure /\ RequestNotOlder

LEMMA ReadsConstants ==
    ASSUME ReadsAssumption
    PROVE  /\ FetchLimit \in Nat /\ PageLimit \in Nat /\ PageLimit > 0 /\ MaxAttempts \in Nat
           /\ MaxAttempts > 0 /\ IsFiniteSet(Rounds) /\ IsFiniteSet(All)
           /\ Cardinality(All) = 2 * Cardinality(Rounds) /\ Cardinality(Rounds) \in Nat
<1>1. /\ FetchLimit \in Nat /\ PageLimit \in Nat /\ PageLimit > 0 /\ MaxAttempts \in Nat
      /\ MaxAttempts > 0 /\ IsFiniteSet(Rounds)
    BY DEF ReadsAssumption
<1>2. IsFiniteSet(Kinds) /\ Cardinality(Kinds) = 2
    <2>1. IsFiniteSet({}) /\ Cardinality({}) = 0
        BY FS_EmptySet
    <2> DEFINE one == {} \cup {"question"}
               two == one \cup {"answer"}
    <2>2. IsFiniteSet(one) /\ Cardinality(one) = 1
        BY <2>1, FS_AddElement
    <2>3. "answer" \notin one
        OBVIOUS
    <2>4. two = Kinds
        BY DEF Kinds
    <2> HIDE DEF one
    <2>5. IsFiniteSet(two) /\ Cardinality(two) = 1 + 1
        BY <2>2, <2>3, FS_AddElement
    <2> QED BY <2>4, <2>5
<1>3. Cardinality(Rounds) \in Nat
    BY <1>1, FS_CardinalityType
<1>4. IsFiniteSet(All) /\ Cardinality(All) = Cardinality(Rounds) * Cardinality(Kinds)
    BY <1>1, <1>2, FS_Product DEF All
<1> QED BY <1>1, <1>2, <1>3, <1>4

\* Messages of questions that are written are in an order.
LEMMA WrittenAreOrdered ==
    ASSUME Typed, Given, Paired, NEW set \in SUBSET All, \A m \in set : stage[m[1]] \in Written
    PROVE  Ordered(set)
<1>1. ASSUME NEW m \in set
      PROVE  /\ m[1] \in Rounds /\ m[2] \in Kinds /\ m = <<m[1], m[2]>>
             /\ created[m[1]] \in Nat /\ created[m[1]] # 0 /\ id[m] \in Nat
             /\ id[<<m[1], "question">>] < id[<<m[1], "answer">>]
             /\ id[<<m[1], "question">>] \in Nat /\ id[<<m[1], "answer">>] \in Nat
    BY DEF All, Kinds, Typed, Given, Paired, Written
<1>2. ASSUME NEW m \in set, NEW n \in set, m[1] # n[1] PROVE created[m[1]] # created[n[1]]
    BY <1>1, <1>2 DEF Given
<1>3. ASSUME NEW m \in set, NEW n \in set, m[1] = n[1], m # n PROVE id[m] < id[n] \/ id[n] < id[m]
    BY <1>1, <1>3 DEF Kinds
<1> DEFINE c(x) == created[x[1]]
           d(x) == id[x]
<1>4. ASSUME NEW m \in set, NEW n \in set
      PROVE  /\ c(m) \in Nat /\ d(m) \in Nat
             /\ Before(m, n) <=> c(m) < c(n) \/ (c(m) = c(n) /\ d(m) < d(n))
             /\ m # n => c(m) # c(n) \/ d(m) < d(n) \/ d(n) < d(m)
    BY <1>1, <1>2, <1>3 DEF Before
<1> HIDE DEF c, d
<1>5. \A m, n \in set : m # n => Before(m, n) \/ Before(n, m)
    BY <1>4
<1>6. \A m, n \in set : ~(Before(m, n) /\ Before(n, m))
    BY <1>4
<1>7. ASSUME NEW k \in set, NEW m \in set, NEW n \in set, Before(k, m), Before(m, n) PROVE Before(k, n)
    <2>1. c(k) \in Nat /\ c(m) \in Nat /\ c(n) \in Nat /\ d(k) \in Nat /\ d(m) \in Nat /\ d(n) \in Nat
        BY <1>4
    <2>2. /\ c(k) < c(m) \/ (c(k) = c(m) /\ d(k) < d(m))
          /\ c(m) < c(n) \/ (c(m) = c(n) /\ d(m) < d(n))
        BY <1>4, <1>7
    <2>3. c(k) < c(n) \/ (c(k) = c(n) /\ d(k) < d(n))
        BY <2>1, <2>2
    <2> QED BY <1>4, <2>3
<1> QED BY <1>5, <1>6, <1>7 DEF Ordered

LEMMA ReadsInit ==
    ASSUME ReadsAssumption, Init
    PROVE  ReadsInv
<1>1. /\ MaxAttempts \in Nat /\ MaxAttempts > 0
    BY ReadsConstants
<1>2. reader \in Readers
    <2>1. <<>> \in Seq(Rows) /\ <<>> \in Seq([message : Rows, request : Rows])
        OBVIOUS
    <2> QED BY <2>1 DEF Init, Readers
<1>3. Typed
    BY <1>1, <1>2 DEF Init, Typed, All, Stages
<1>4. Given
    <2>1. {r \in Rounds : created[r] # 0} = {} /\ {m \in All : id[m] # 0} = {}
        BY DEF Init, All
    <2>2. Cardinality({}) = 0
        BY FS_EmptySet
    <2>3. clock = 0 /\ ids = 0 /\ 0 <= 0
        BY DEF Init
    <2>4. \A r \in Rounds : created[r] = 0 /\ stage[r] = "none"
        BY DEF Init
    <2>5. \A m \in All : id[m] = 0
        BY DEF Init, All
    <2> QED BY <2>1, <2>2, <2>3, <2>4, <2>5 DEF Given
<1>5. Paired
    BY DEF Init, Paired, Kinds, Written
<1>6. Retried /\ PairsStayTogether /\ RetryForgetsFailure
    BY DEF Init, Retried, PairsStayTogether, RetryForgetsFailure
<1>7. Following /\ PageOlder /\ RequestNotOlder
    BY DEF Init, Following, PageOlder, RequestNotOlder
<1> QED BY <1>3, <1>4, <1>5, <1>6, <1>7 DEF ReadsInv

-----------------------------------------------------------------------------
(* The invariant gives the properties.                                       *)

LEMMA VisibleAreOrdered ==
    ASSUME ReadsAssumption, Typed, Given, Paired
    PROVE  /\ Committed \in SUBSET All /\ IsFiniteSet(Committed) /\ Ordered(Committed)
           /\ \A m \in Committed : stage[m[1]] = "committed"
           /\ \A r \in Rounds : <<r, "question">> \in Committed <=> stage[r] = "committed"
<1>1. Committed \in SUBSET All /\ \A m \in Committed : stage[m[1]] = "committed"
    BY DEF Committed, All
<1>2. IsFiniteSet(Committed)
    BY <1>1, ReadsConstants, FS_Subset
<1>3. \A m \in Committed : stage[m[1]] \in Written
    BY <1>1 DEF Written
<1>4. Ordered(Committed)
    BY <1>1, <1>3, WrittenAreOrdered
<1>5. \A r \in Rounds : <<r, "question">> \in Committed <=> stage[r] = "committed"
    BY DEF Committed, Kinds
<1> QED BY <1>1, <1>2, <1>4, <1>5

LEMMA ReadsAreSafe ==
    ASSUME ReadsAssumption, ReadsInv
    PROVE  TypeOK /\ NothingSkipped
<1> USE DEF ReadsInv
<1>1. clock \in 0 .. Cardinality(Rounds)
    <2> DEFINE set == {r \in Rounds : created[r] # 0}
    <2>1. set \in SUBSET Rounds
        OBVIOUS
    <2>2. Cardinality(set) <= Cardinality(Rounds) /\ clock = Cardinality(set) /\ clock \in Nat
        BY <2>1, ReadsConstants, FS_Subset DEF Given, Typed
    <2> HIDE DEF set
    <2> QED BY <2>2, ReadsConstants
<1>2. ids \in 0 .. 2 * Cardinality(Rounds)
    <2> DEFINE set == {m \in All : id[m] # 0}
    <2>1. set \in SUBSET All
        OBVIOUS
    <2>2. Cardinality(set) <= Cardinality(All) /\ ids = Cardinality(set) /\ ids \in Nat
        BY <2>1, ReadsConstants, FS_Subset DEF Given, Typed
    <2> HIDE DEF set
    <2> QED BY <2>2, ReadsConstants
<1>3. created \in [Rounds -> 0 .. clock] /\ id \in [All -> 0 .. ids]
    <2>1. \A r \in Rounds : created[r] \in 0 .. clock
        BY DEF Typed, Given
    <2>2. \A m \in All : id[m] \in 0 .. ids
        BY DEF Typed, Given
    <2> QED BY <2>1, <2>2 DEF Typed
<1>4. TypeOK
    BY <1>1, <1>2, <1>3 DEF TypeOK, Typed, All
<1>5. NothingSkipped
    BY DEF NothingSkipped, Following, Ahead
<1> QED BY <1>4, <1>5

-----------------------------------------------------------------------------
(* Histories.                                                                *)

\* Whatever messages are taken, an answer has the place after its question.
LEMMA AnswerAfterQuestion ==
    ASSUME ReadsAssumption, Typed, Given, Paired,
           NEW set \in SUBSET All, \A m \in set : stage[m[1]] \in Written,
           NEW r \in Rounds, <<r, "question">> \in set, <<r, "answer">> \in set
    PROVE  Place(<<r, "answer">>, set) = Place(<<r, "question">>, set) + 1
<1> DEFINE q == <<r, "question">>
           a == <<r, "answer">>
           Earlier(m) == {n \in set : Before(n, m)}
<1>1. Ordered(set) /\ IsFiniteSet(set)
    BY WrittenAreOrdered, ReadsConstants, FS_Subset
<1>2. id[q] < id[a] /\ created[r] \in Nat /\ created[r] # 0
    BY DEF Paired, Typed, Given, Written
<1>3. Before(q, a)
    BY <1>2 DEF Before
<1>4. ASSUME NEW n \in set, Before(n, a), n # q PROVE Before(n, q)
    <2>1. n # a /\ n[1] \in Rounds /\ n = <<n[1], n[2]>> /\ n[2] \in Kinds
        BY <1>1, <1>4 DEF Ordered, All
    <2>2. n[1] # r
        BY <1>4, <2>1 DEF Kinds
    <2>3. created[n[1]] # created[r]
        BY <1>2, <2>1, <2>2 DEF Given
    <2> QED BY <1>4, <2>3 DEF Before
<1>5. Earlier(a) = Earlier(q) \cup {q}
    BY <1>1, <1>3, <1>4 DEF Ordered
<1>6. q \notin Earlier(q) /\ IsFiniteSet(Earlier(q))
    BY <1>1, FS_Subset DEF Ordered
<1>7. Place(a, set) = Cardinality(Earlier(a)) + 1 /\ Place(q, set) = Cardinality(Earlier(q)) + 1
    BY DEF Place
<1> HIDE DEF Earlier, q, a
<1>8. Cardinality(Earlier(q) \cup {q}) = Cardinality(Earlier(q)) + 1
    BY <1>6, FS_AddElement
<1>9. Place(a, set) = Place(q, set) + 1
    BY <1>5, <1>7, <1>8
<1> QED BY <1>9 DEF q, a

\* A history of messages that hold a question with each answer.
Whole(sent) ==
    \A i \in DOMAIN sent : sent[i][2] = "answer" => i > 1 /\ sent[i - 1] = <<sent[i][1], "question">>

LEMMA HistoryOf ==
    ASSUME ReadsAssumption, Typed, Given, Paired,
           NEW set \in SUBSET All, \A m \in set : stage[m[1]] \in Written,
           \A r \in Rounds : <<r, "answer">> \in set => <<r, "question">> \in set
    PROVE  /\ InOrder(set) \in Seq(All) /\ Whole(InOrder(set))
           /\ \A i \in DOMAIN InOrder(set) : InOrder(set)[i] \in set
<1>1. Ordered(set) /\ IsFiniteSet(set)
    BY WrittenAreOrdered, ReadsConstants, FS_Subset
<1>2. /\ DOMAIN InOrder(set) = 1 .. Cardinality(set) /\ Cardinality(set) \in Nat
      /\ \A i \in 1 .. Cardinality(set) : InOrder(set)[i] \in set /\ Place(InOrder(set)[i], set) = i
      /\ \A m \in set : Place(m, set) \in 1 .. Cardinality(set) /\ InOrder(set)[Place(m, set)] = m
    BY <1>1, InOrderGives
<1>3. InOrder(set) \in Seq(All)
    <2>1. InOrder(set) = [i \in 1 .. Cardinality(set) |-> InOrder(set)[i]]
        BY <1>2 DEF InOrder
    <2>2. \A i \in 1 .. Cardinality(set) : InOrder(set)[i] \in All
        BY <1>2
    <2> DEFINE f == InOrder(set)
    <2> HIDE DEF f
    <2>3. f \in [1 .. Cardinality(set) -> All]
        BY <2>1, <2>2 DEF f
    <2>4. f \in Seq(All)
        BY <1>2, <2>3
    <2> QED BY <2>4 DEF f
<1>4. ASSUME NEW i \in 1 .. Cardinality(set), InOrder(set)[i][2] = "answer"
      PROVE  i > 1 /\ InOrder(set)[i - 1] = <<InOrder(set)[i][1], "question">>
    <2> DEFINE m == InOrder(set)[i]
               q == <<m[1], "question">>
    <2>1. m \in set /\ Place(m, set) = i
        BY <1>2
    <2>2. m[1] \in Rounds /\ m = <<m[1], "answer">>
        BY <1>4, <2>1 DEF All
    <2>3. q \in set
        BY <2>1, <2>2
    <2>4. Place(m, set) = Place(q, set) + 1
        <3> HIDE DEF m
        <3> QED BY <2>1, <2>2, <2>3, AnswerAfterQuestion
    <2>5. Place(q, set) \in 1 .. Cardinality(set) /\ InOrder(set)[Place(q, set)] = q
        BY <1>2, <2>3
    <2>6. i - 1 = Place(q, set) /\ i > 1
        <3> HIDE DEF q, m
        <3> QED BY <1>2, <2>1, <2>4, <2>5
    <2> QED BY <2>5, <2>6
<1> QED BY <1>2, <1>3, <1>4 DEF Whole

\* The first messages of those that can be seen hold a question with each answer.
LEMMA FirstMessages ==
    ASSUME ReadsAssumption, Typed, Given, Paired,
           NEW set \in SUBSET All, \A m \in set : stage[m[1]] \in Written,
           \A r \in Rounds : <<r, "answer">> \in set => <<r, "question">> \in set
    PROVE  \A r \in Rounds : <<r, "answer">> \in Messages(set, 0, FetchLimit) =>
               <<r, "question">> \in Messages(set, 0, FetchLimit)
<1> SUFFICES ASSUME NEW r \in Rounds, <<r, "answer">> \in Messages(set, 0, FetchLimit)
             PROVE  <<r, "question">> \in Messages(set, 0, FetchLimit)
    OBVIOUS
<1> DEFINE q == <<r, "question">>
           a == <<r, "answer">>
<1>1. a \in set /\ q \in set /\ Place(a, set) <= 0 + FetchLimit
    BY DEF Messages
<1>2. Ordered(set) /\ IsFiniteSet(set)
    BY WrittenAreOrdered, ReadsConstants, FS_Subset
<1>3. Place(q, set) \in 1 .. Cardinality(set) /\ Cardinality(set) \in Nat
    BY <1>1, <1>2, PlacesInOrder
<1>4. Place(a, set) = Place(q, set) + 1
    BY <1>1, AnswerAfterQuestion
<1>5. 0 < Place(q, set) /\ Place(q, set) <= 0 + FetchLimit
    <2> HIDE DEF q, a
    <2> QED BY <1>1, <1>3, <1>4, ReadsConstants
<1> QED BY <1>1, <1>5 DEF Messages

-----------------------------------------------------------------------------
(* Frames: what a step that moves no reader keeps.                           *)

\* A reader on his way keeps everything before him, when no message gets an earlier place.
LEMMA FollowingKept ==
    ASSUME ReadsAssumption, Typed, Given, Paired, Following, UNCHANGED reader,
           Committed \subseteq Committed', IsFiniteSet(Committed'),
           \A m \in Committed : created'[m[1]] = created[m[1]] /\ id'[m] = id[m]
    PROVE  Following'
<1>1. IsFiniteSet(Committed)
    BY VisibleAreOrdered
<1>2. ASSUME NEW m \in Committed
      PROVE  /\ Place(m, Committed) \in Nat /\ Place(m, Committed)' \in Nat
             /\ Place(m, Committed) <= Place(m, Committed)'
    <2> DEFINE Earlier == {n \in Committed : Before(n, m)}
    <2>1. Earlier \subseteq Earlier'
        BY DEF Before
    <2>2. Earlier' \subseteq Committed'
        OBVIOUS
    <2>3. Place(m, Committed) = Cardinality(Earlier) + 1 /\ Place(m, Committed)' = Cardinality(Earlier') + 1
        BY DEF Place
    <2> HIDE DEF Earlier
    <2>4. /\ IsFiniteSet(Earlier') /\ IsFiniteSet(Earlier)
          /\ Cardinality(Earlier) <= Cardinality(Earlier')
        BY <2>1, <2>2, FS_Subset
    <2>5. Cardinality(Earlier) \in Nat /\ Cardinality(Earlier') \in Nat
        BY <2>4, FS_CardinalityType
    <2> QED BY <2>3, <2>4, <2>5
<1>3. \A m \in Committed : Ahead(m) => Ahead(m)'
    <2> SUFFICES ASSUME NEW m \in Committed, Ahead(m) PROVE Ahead(m)'
        OBVIOUS
    <2>1. PageLimit \in Nat /\ reader.skip \in Nat
        BY ReadsConstants DEF Typed, Readers
    <2>2. /\ Place(m, Committed) \in Nat /\ Place(m, Committed)' \in Nat
          /\ Place(m, Committed) <= Place(m, Committed)'
        BY <1>2
    <2>3. Place(m, Committed) > reader.skip => Place(m, Committed)' > reader.skip
        BY <2>1, <2>2
    <2>4. Place(m, Committed) > reader.skip + PageLimit => Place(m, Committed)' > reader.skip + PageLimit
        BY <2>1, <2>2
    <2> QED BY <2>3, <2>4 DEF Ahead
<1> QED BY <1>3 DEF Following

\* What a page shows stays older than what there is, when requests only go on.
LEMMA PageKept ==
    ASSUME Typed, PageOlder, UNCHANGED reader,
           \A m \in All : LET r == m[1] IN
               /\ attempt[r] <= attempt'[r] /\ attempt'[r] \in Nat /\ attempt[r] \in Nat
               /\ attempt'[r] = attempt[r] /\ status[r] # "THINKING" =>
                      status'[r] = status[r] /\ retryable'[r] = retryable[r]
    PROVE  PageOlder'
<1> SUFFICES ASSUME NEW i \in DOMAIN reader.page PROVE Older(reader.page[i])'
    BY DEF PageOlder
<1> DEFINE row == reader.page[i]
           r == row.msg[1]
<1>1. row \in Rows
    <2>1. reader.page \in Seq(Rows)
        BY DEF Typed, Readers
    <2> QED BY <2>1
<1>2. row' = row
    OBVIOUS
<1>3. Older(row)
    BY DEF PageOlder
<1> HIDE DEF row
<1>4. row.msg \in All /\ row.attempt \in Nat
    BY <1>1 DEF Rows
<1>5. row.attempt <= attempt[r] /\ attempt[r] <= attempt'[r] /\ attempt'[r] \in Nat /\ attempt[r] \in Nat
    BY <1>3, <1>4 DEF Older
<1>6. row.attempt <= attempt'[r]
    BY <1>4, <1>5
<1>7. ASSUME row.attempt = attempt'[r], row.status # "THINKING"
      PROVE  row.status = status'[r] /\ row.retryable = retryable'[r]
    <2>1. row.attempt = attempt[r] /\ attempt'[r] = attempt[r]
        BY <1>4, <1>5, <1>7
    <2>2. row.status = status[r] /\ row.retryable = retryable[r]
        BY <1>3, <1>7, <2>1 DEF Older
    <2> QED BY <1>4, <1>7, <2>1, <2>2
<1>8. Older(row)'
    BY <1>2, <1>6, <1>7 DEF Older
<1> QED BY <1>8 DEF row

\* A history that is read.
LEMMA HistoryRead ==
    ASSUME Typed, PairsStayTogether, NEW r \in Rounds, NEW sent \in Seq(All), Whole(sent),
           history' = [history EXCEPT ![r] = sent]
    PROVE  /\ history' \in [Rounds -> Seq(All) \cup {None}]
           /\ PairsStayTogether'
           /\ history'[r] = sent /\ \A s \in Rounds : s # r => history'[s] = history[s]
<1>1. history \in [Rounds -> Seq(All) \cup {None}]
    BY DEF Typed
<1>2. history' \in [Rounds -> Seq(All) \cup {None}]
    BY <1>1
<1>3. history'[r] = sent /\ \A s \in Rounds : s # r => history'[s] = history[s]
    BY <1>1
<1>4. \A s \in Rounds : history'[s] # None => Whole(history'[s])
    <2>1. \A s \in Rounds : history[s] # None => Whole(history[s])
        BY DEF PairsStayTogether, Whole
    <2> QED BY <1>3, <2>1
<1>5. PairsStayTogether'
    BY <1>4 DEF PairsStayTogether, Whole
<1> QED BY <1>2, <1>3, <1>5

-----------------------------------------------------------------------------
(* Every action keeps the invariant.                                         *)

LEMMA BeginStep ==
    ASSUME ReadsAssumption, ReadsInv, NEW r \in Rounds, Begin(r)
    PROVE  ReadsInv'
<1> USE DEF ReadsInv
<1>1. /\ created[r] = 0 /\ clock \in Nat /\ created \in [Rounds -> Nat]
      /\ stage \in [Rounds -> Stages] /\ stage[r] = "none"
    BY DEF Typed, Given, Begin
<1>2. /\ clock' = clock + 1 /\ created' = [created EXCEPT ![r] = clock + 1]
      /\ stage' = [stage EXCEPT ![r] = "begun"]
      /\ UNCHANGED <<ids, id, status, attempt, retryable, history, reader>>
    BY DEF Begin
<1>3. /\ created'[r] = clock + 1 /\ \A s \in Rounds : s # r => created'[s] = created[s]
      /\ stage'[r] = "begun" /\ \A s \in Rounds : s # r => stage'[s] = stage[s]
    BY <1>1, <1>2
<1>4. Typed'
    <2>1. clock' \in Nat /\ created' \in [Rounds -> Nat]
        BY <1>1, <1>2
    <2>2. stage' \in [Rounds -> Stages]
        BY <1>1, <1>2 DEF Stages
    <2> QED BY <1>2, <2>1, <2>2 DEF Typed
<1>5. Given'
    <2> DEFINE set == {s \in Rounds : created[s] # 0}
    <2>1. set' = set \cup {r} /\ r \notin set
        BY <1>1, <1>3
    <2>2. IsFiniteSet(set)
        BY ReadsConstants, FS_Subset
    <2> HIDE DEF set
    <2>3. Cardinality(set') = Cardinality(set) + 1
        BY <2>1, <2>2, FS_AddElement
    <2>4. clock' = Cardinality(set')
        BY <1>2, <2>3 DEF Given, set
    <2>5. ids' = Cardinality({m \in All : id[m] # 0}')
        BY <1>2 DEF Given
    <2>6. \A s \in Rounds : created'[s] <= clock' /\ (created'[s] = 0 <=> stage'[s] = "none")
        BY <1>1, <1>2, <1>3 DEF Given
    <2>7. \A m \in All : id'[m] <= ids'
        BY <1>2 DEF Given
    <2>8. \A s, t \in Rounds : s # t /\ created'[s] = created'[t] => created'[s] = 0
        BY <1>1, <1>3 DEF Given
    <2> QED BY <2>4, <2>5, <2>6, <2>7, <2>8 DEF Given, set
<1>6. Paired'
    BY <1>1, <1>2, <1>3 DEF Paired, Written
<1>7. Retried'
    BY <1>1, <1>2, <1>3 DEF Retried
<1>8. Committed' = Committed /\ \A m \in Committed : created'[m[1]] = created[m[1]] /\ id'[m] = id[m]
    BY <1>1, <1>2, <1>3 DEF Committed
<1>9. Following'
    <2>1. IsFiniteSet(Committed)
        BY VisibleAreOrdered
    <2> QED BY <1>2, <1>8, <2>1, FollowingKept
<1>10. PageOlder' /\ PairsStayTogether' /\ RetryForgetsFailure' /\ RequestNotOlder'
    BY <1>2 DEF PageOlder, Older, PairsStayTogether, RetryForgetsFailure, RequestNotOlder
<1> QED BY <1>4, <1>5, <1>6, <1>7, <1>9, <1>10

LEMMA WriteStep ==
    ASSUME ReadsAssumption, ReadsInv, NEW r \in Rounds, NEW kind \in Kinds, NEW from, NEW to,
           <<kind, from, to>> \in {<<"question", "begun", "asked">>, <<"answer", "asked", "answered">>},
           Write(r, kind, from, to)
    PROVE  ReadsInv'
<1> USE DEF ReadsInv
<1> DEFINE m == <<r, kind>>
<1>1. /\ \/ kind = "question" /\ from = "begun" /\ to = "asked"
         \/ kind = "answer" /\ from = "asked" /\ to = "answered"
      /\ m \in All /\ stage[r] = from
      /\ ids \in Nat /\ id \in [All -> Nat] /\ stage \in [Rounds -> Stages]
    BY DEF Typed, Write, All
<1>2. id[m] = 0
    BY <1>1 DEF Paired
<1>3. /\ ids' = ids + 1 /\ id' = [id EXCEPT ![m] = ids + 1] /\ stage' = [stage EXCEPT ![r] = to]
      /\ UNCHANGED <<clock, created, status, attempt, retryable, history, reader>>
    BY DEF Write
<1>4. /\ id'[m] = ids + 1 /\ \A n \in All : n # m => id'[n] = id[n]
      /\ stage'[r] = to /\ \A s \in Rounds : s # r => stage'[s] = stage[s]
    BY <1>1, <1>3
<1>5. Typed'
    <2>1. ids' \in Nat /\ id' \in [All -> Nat]
        BY <1>1, <1>3
    <2>2. stage' \in [Rounds -> Stages]
        BY <1>1, <1>3 DEF Stages
    <2> QED BY <1>3, <2>1, <2>2 DEF Typed
<1>6. Given'
    <2> DEFINE set == {n \in All : id[n] # 0}
    <2>1. set' = set \cup {m} /\ m \notin set
        <3> HIDE DEF m
        <3> QED BY <1>1, <1>2, <1>4
    <2>2. IsFiniteSet(set)
        BY ReadsConstants, FS_Subset
    <2> HIDE DEF set, m
    <2>3. Cardinality(set') = Cardinality(set) + 1
        BY <2>1, <2>2, FS_AddElement
    <2>4. ids' = Cardinality(set')
        BY <1>3, <2>3 DEF Given, set
    <2>5. clock' = Cardinality({s \in Rounds : created[s] # 0}')
        BY <1>3 DEF Given
    <2>6. \A s \in Rounds : created'[s] <= clock' /\ (created'[s] = 0 <=> stage'[s] = "none")
        BY <1>1, <1>3, <1>4 DEF Given
    <2>7. \A n \in All : id'[n] <= ids'
        BY <1>1, <1>3, <1>4 DEF Given
    <2>8. \A s, t \in Rounds : s # t /\ created'[s] = created'[t] => created'[s] = 0
        BY <1>3 DEF Given
    <2> QED BY <2>4, <2>5, <2>6, <2>7, <2>8 DEF Given, set
<1>7. Paired'
    <2> SUFFICES ASSUME NEW s \in Rounds
                 PROVE  LET q == id'[<<s, "question">>]
                            a == id'[<<s, "answer">>]
                        IN  /\ stage'[s] \in {"none", "begun"} => q = 0 /\ a = 0
                            /\ stage'[s] = "asked" => q # 0 /\ a = 0
                            /\ stage'[s] \in Written => q < a
        BY DEF Paired
    <2> DEFINE q == <<s, "question">>
               a == <<s, "answer">>
    <2>1. q \in All /\ a \in All /\ q # a
        BY DEF All, Kinds
    <2>2. CASE s # r
        <3>1. q # m /\ a # m
            BY <2>2
        <3>2. id'[q] = id[q] /\ id'[a] = id[a] /\ stage'[s] = stage[s]
            <4> HIDE DEF q, a, m
            <4> QED BY <1>4, <2>1, <2>2, <3>1
        <3> QED BY <3>2 DEF Paired
    <2>3. CASE s = r /\ kind = "question"
        <3>1. id'[q] = ids + 1 /\ id'[a] = id[a] /\ stage'[s] = "asked"
            BY <1>1, <1>4, <2>1, <2>3
        <3>2. id[a] = 0
            BY <1>1, <2>3 DEF Paired
        <3> QED BY <1>1, <3>1, <3>2 DEF Written
    <2>4. CASE s = r /\ kind = "answer"
        <3>1. id'[a] = ids + 1 /\ id'[q] = id[q] /\ stage'[s] = "answered"
            BY <1>1, <1>4, <2>1, <2>4
        <3>2. id[q] \in Nat /\ id[q] <= ids
            BY <1>1, <2>1 DEF Given
        <3> QED BY <1>1, <3>1, <3>2 DEF Written
    <2> QED BY <1>1, <2>2, <2>3, <2>4
<1>8. Retried'
    BY <1>1, <1>3, <1>4 DEF Retried
<1>9. Committed' = Committed /\ \A n \in Committed : created'[n[1]] = created[n[1]] /\ id'[n] = id[n]
    <2>1. to # "committed" /\ from # "committed"
        BY <1>1
    <2>2. Committed' = Committed
        BY <1>1, <1>4, <2>1 DEF Committed
    <2>3. \A n \in Committed : n \in All /\ n # m
        BY <1>1, <2>1 DEF Committed, All
    <2> QED BY <1>3, <1>4, <2>2, <2>3
<1>10. Following'
    <2>1. IsFiniteSet(Committed)
        BY VisibleAreOrdered
    <2> QED BY <1>3, <1>9, <2>1, FollowingKept
<1>11. PageOlder' /\ PairsStayTogether' /\ RetryForgetsFailure' /\ RequestNotOlder'
    BY <1>3 DEF PageOlder, Older, PairsStayTogether, RetryForgetsFailure, RequestNotOlder
<1> QED BY <1>5, <1>6, <1>7, <1>8, <1>10, <1>11

\* A step that only moves one question from a stage on to another keeps what was given.
LEMMA MovesOn ==
    ASSUME Typed, Given, Paired, NEW r \in Rounds, NEW to \in Stages,
           stage' = [stage EXCEPT ![r] = to], stage[r] # "none", to \notin {"none", "begun", "asked"},
           to \in Written => stage[r] \in Written,
           UNCHANGED <<clock, ids, created, id>>
    PROVE  /\ stage' \in [Rounds -> Stages] /\ Given' /\ Paired'
           /\ stage'[r] = to /\ \A s \in Rounds : s # r => stage'[s] = stage[s]
<1>1. stage \in [Rounds -> Stages]
    BY DEF Typed
<1>2. stage'[r] = to /\ \A s \in Rounds : s # r => stage'[s] = stage[s]
    BY <1>1
<1>3. stage' \in [Rounds -> Stages]
    BY <1>1
<1>4. Given'
    <2>1. \A s \in Rounds : created'[s] <= clock' /\ (created'[s] = 0 <=> stage'[s] = "none")
        BY <1>2 DEF Given
    <2>2. clock' = Cardinality({s \in Rounds : created[s] # 0}')
        BY DEF Given
    <2>3. ids' = Cardinality({m \in All : id[m] # 0}')
        BY DEF Given
    <2> QED BY <2>1, <2>2, <2>3 DEF Given
<1>5. Paired'
    BY <1>2 DEF Paired, Written
<1> QED BY <1>2, <1>3, <1>4, <1>5

LEMMA ReadHistoryStep ==
    ASSUME ReadsAssumption, ReadsInv, NEW r \in Rounds, ReadHistory(r)
    PROVE  ReadsInv'
<1> USE DEF ReadsInv
<1> DEFINE seen == Committed \cup ({r} \X Kinds)
           sent == {m \in Messages(seen, 0, FetchLimit) : HasContent(m)}
<1>1. /\ stage[r] = "answered" /\ stage' = [stage EXCEPT ![r] = "read"]
      /\ history' = [history EXCEPT ![r] = InOrder(sent)]
      /\ UNCHANGED <<clock, ids, created, id, status, attempt, retryable, reader>>
    BY DEF ReadHistory
<1>2. /\ stage' \in [Rounds -> Stages] /\ Given' /\ Paired'
      /\ stage'[r] = "read" /\ \A s \in Rounds : s # r => stage'[s] = stage[s]
    BY <1>1, MovesOn DEF Stages, Written
<1>3. /\ seen \in SUBSET All /\ \A m \in seen : stage[m[1]] \in Written
      /\ \A s \in Rounds : <<s, "answer">> \in seen => <<s, "question">> \in seen
    BY <1>1 DEF Committed, All, Written, Kinds
<1>4. \A s \in Rounds : <<s, "answer">> \in Messages(seen, 0, FetchLimit) =>
          <<s, "question">> \in Messages(seen, 0, FetchLimit)
    <2> HIDE DEF seen
    <2> QED BY <1>3, FirstMessages
<1>5. /\ sent \in SUBSET All /\ \A m \in sent : stage[m[1]] \in Written
      /\ \A s \in Rounds : <<s, "answer">> \in sent => <<s, "question">> \in sent
    <2>1. Messages(seen, 0, FetchLimit) \in SUBSET seen
        BY DEF Messages
    <2> HIDE DEF seen
    <2> QED BY <1>3, <1>4, <2>1 DEF HasContent
<1>6. InOrder(sent) \in Seq(All) /\ Whole(InOrder(sent))
    <2> HIDE DEF sent
    <2> QED BY <1>5, HistoryOf
<1> HIDE DEF sent
<1>7. /\ history' \in [Rounds -> Seq(All) \cup {None}] /\ PairsStayTogether'
      /\ history'[r] = InOrder(sent) /\ \A s \in Rounds : s # r => history'[s] = history[s]
    <2> DEFINE h == InOrder(sent)
    <2>1. h \in Seq(All) /\ Whole(h) /\ history' = [history EXCEPT ![r] = h]
        BY <1>1, <1>6
    <2> HIDE DEF h
    <2>2. /\ history' \in [Rounds -> Seq(All) \cup {None}] /\ PairsStayTogether'
          /\ history'[r] = h /\ \A s \in Rounds : s # r => history'[s] = history[s]
        BY <2>1, HistoryRead
    <2> QED BY <2>2 DEF h
<1>8. Typed'
    BY <1>1, <1>2, <1>7 DEF Typed
<1>9. Retried' /\ RetryForgetsFailure'
    <2>1. ~(attempt[r] > 1)
        BY <1>1 DEF Retried
    <2> QED BY <1>1, <1>2, <1>7, <2>1 DEF Retried, RetryForgetsFailure
<1>10. Committed' = Committed /\ \A n \in Committed : created'[n[1]] = created[n[1]] /\ id'[n] = id[n]
    BY <1>1, <1>2 DEF Committed
<1>11. Following'
    <2>1. IsFiniteSet(Committed)
        BY VisibleAreOrdered
    <2> QED BY <1>1, <1>10, <2>1, FollowingKept
<1>12. PageOlder' /\ RequestNotOlder'
    BY <1>1 DEF PageOlder, Older, RequestNotOlder
<1> QED BY <1>2, <1>7, <1>8, <1>9, <1>11, <1>12

LEMMA CommitStep ==
    ASSUME ReadsAssumption, ReadsInv, NEW r \in Rounds, Commit(r)
    PROVE  ReadsInv'
<1> USE DEF ReadsInv
<1>1. /\ stage[r] = "read" /\ stage' = [stage EXCEPT ![r] = "committed"]
      /\ UNCHANGED <<clock, ids, created, id, status, attempt, retryable, history, reader>>
    BY DEF Commit
<1>2. /\ stage' \in [Rounds -> Stages] /\ Given' /\ Paired'
      /\ stage'[r] = "committed" /\ \A s \in Rounds : s # r => stage'[s] = stage[s]
    BY <1>1, MovesOn DEF Stages, Written
<1>3. Typed'
    BY <1>1, <1>2 DEF Typed
<1>4. Retried'
    BY <1>1, <1>2 DEF Retried
<1>5. Committed \subseteq Committed' /\ Committed' \subseteq All
    BY <1>1, <1>2 DEF Committed, All
<1>6. Following'
    <2>1. IsFiniteSet(Committed')
        BY <1>5, ReadsConstants, FS_Subset
    <2>2. \A m \in Committed : created'[m[1]] = created[m[1]] /\ id'[m] = id[m]
        BY <1>1
    <2> QED BY <1>1, <1>5, <2>1, <2>2, FollowingKept
<1>7. PageOlder' /\ PairsStayTogether' /\ RetryForgetsFailure' /\ RequestNotOlder'
    BY <1>1 DEF PageOlder, Older, PairsStayTogether, RetryForgetsFailure, RequestNotOlder
<1> QED BY <1>2, <1>3, <1>4, <1>6, <1>7

LEMMA AbortStep ==
    ASSUME ReadsAssumption, ReadsInv, NEW r \in Rounds, Abort(r)
    PROVE  ReadsInv'
<1> USE DEF ReadsInv
<1>1. /\ stage[r] \in {"begun", "asked", "answered", "read"} /\ stage' = [stage EXCEPT ![r] = "gone"]
      /\ UNCHANGED <<clock, ids, created, id, status, attempt, retryable, history, reader>>
    BY DEF Abort
<1>2. /\ stage' \in [Rounds -> Stages] /\ Given' /\ Paired'
      /\ stage'[r] = "gone" /\ \A s \in Rounds : s # r => stage'[s] = stage[s]
    BY <1>1, MovesOn DEF Stages, Written
<1>3. Typed'
    BY <1>1, <1>2 DEF Typed
<1>4. Retried'
    BY <1>1, <1>2 DEF Retried
<1>5. Committed' = Committed /\ \A m \in Committed : created'[m[1]] = created[m[1]] /\ id'[m] = id[m]
    BY <1>1, <1>2 DEF Committed
<1>6. Following'
    <2>1. IsFiniteSet(Committed)
        BY VisibleAreOrdered
    <2> QED BY <1>1, <1>5, <2>1, FollowingKept
<1>7. PageOlder' /\ PairsStayTogether' /\ RetryForgetsFailure' /\ RequestNotOlder'
    BY <1>1 DEF PageOlder, Older, PairsStayTogether, RetryForgetsFailure, RequestNotOlder
<1> QED BY <1>2, <1>3, <1>4, <1>6, <1>7

\* A settled answer was open before, and so it is with every page that shows it.
LEMMA SettleStep ==
    ASSUME ReadsAssumption, ReadsInv, NEW r \in Rounds, Settle(r)
    PROVE  ReadsInv'
<1> USE DEF ReadsInv
<1>1. /\ stage[r] = "committed" /\ status[r] = "THINKING"
      /\ UNCHANGED <<clock, ids, created, id, stage, attempt, history, reader>>
      /\ \/ status' = [status EXCEPT ![r] = "SUCCESS"] /\ UNCHANGED retryable
         \/ /\ status' = [status EXCEPT ![r] = "FAILED"]
            /\ \E b \in BOOLEAN : retryable' = [retryable EXCEPT ![r] = b]
    BY DEF Settle
<1>2. /\ status \in [Rounds -> {"THINKING", "SUCCESS", "FAILED"}] /\ retryable \in [Rounds -> BOOLEAN]
      /\ ~retryable[r]
    BY <1>1 DEF Typed
<1>3. status' \in [Rounds -> {"THINKING", "SUCCESS", "FAILED"}]
    BY <1>1, <1>2
<1>4. retryable' \in [Rounds -> BOOLEAN]
    BY <1>1, <1>2
<1>5. \A s \in Rounds : s # r => status'[s] = status[s] /\ retryable'[s] = retryable[s]
    BY <1>1, <1>2
<1>6. retryable'[r] => status'[r] = "FAILED"
    BY <1>1, <1>2
<1>7. Typed'
    <2>1. \A s \in Rounds : retryable'[s] => status'[s] = "FAILED"
        BY <1>5, <1>6 DEF Typed
    <2> QED BY <1>1, <1>3, <1>4, <2>1 DEF Typed
<1>8. Given'
    <2>1. clock' = Cardinality({s \in Rounds : created[s] # 0}')
        BY <1>1 DEF Given
    <2>2. ids' = Cardinality({m \in All : id[m] # 0}')
        BY <1>1 DEF Given
    <2> QED BY <1>1, <2>1, <2>2 DEF Given
<1>9. Paired' /\ Retried' /\ PairsStayTogether' /\ RetryForgetsFailure' /\ RequestNotOlder'
    BY <1>1 DEF Paired, Retried, PairsStayTogether, RetryForgetsFailure, RequestNotOlder
<1>10. Following'
    <2>1. IsFiniteSet(Committed) /\ Committed' = Committed
        BY <1>1, VisibleAreOrdered DEF Committed
    <2>2. \A m \in Committed : created'[m[1]] = created[m[1]] /\ id'[m] = id[m]
        BY <1>1
    <2> QED BY <1>1, <2>1, <2>2, FollowingKept
<1>11. PageOlder'
    <2>1. \A m \in All : LET s == m[1] IN
              /\ attempt[s] <= attempt'[s] /\ attempt'[s] \in Nat /\ attempt[s] \in Nat
              /\ attempt'[s] = attempt[s] /\ status[s] # "THINKING" =>
                     status'[s] = status[s] /\ retryable'[s] = retryable[s]
        <3>1. \A m \in All : m[1] \in Rounds
            BY DEF All
        <3>2. \A s \in Rounds : attempt[s] \in Nat
            BY ReadsConstants DEF Typed
        <3> QED BY <1>1, <1>5, <3>1, <3>2
    <2> QED BY <1>1, <2>1, PageKept
<1> QED BY <1>7, <1>8, <1>9, <1>10, <1>11

LEMMA RetryStep ==
    ASSUME ReadsAssumption, ReadsInv, NEW r \in Rounds, Retry(r)
    PROVE  ReadsInv'
<1> USE DEF ReadsInv
<1> DEFINE sent == {m \in Messages(Committed, 0, FetchLimit) : HasContent(m) /\ m # <<r, "answer">>}
<1>1. /\ stage[r] = "committed" /\ attempt[r] < MaxAttempts
      /\ attempt' = [attempt EXCEPT ![r] = attempt[r] + 1] /\ retryable' = [retryable EXCEPT ![r] = FALSE]
      /\ status' = [status EXCEPT ![r] = "THINKING"]
      /\ history' = [history EXCEPT ![r] = InOrder(sent)]
      /\ UNCHANGED <<clock, ids, created, id, stage, reader>>
    BY DEF Retry, CanRetry
<1>2. /\ status \in [Rounds -> {"THINKING", "SUCCESS", "FAILED"}] /\ retryable \in [Rounds -> BOOLEAN]
      /\ attempt \in [Rounds -> 1 .. MaxAttempts] /\ MaxAttempts \in Nat
    BY ReadsConstants DEF Typed
<1>3. status' \in [Rounds -> {"THINKING", "SUCCESS", "FAILED"}]
    BY <1>1, <1>2
<1>4. retryable' \in [Rounds -> BOOLEAN] /\ ~retryable'[r]
    BY <1>1, <1>2
<1>5. attempt' \in [Rounds -> 1 .. MaxAttempts] /\ attempt'[r] = attempt[r] + 1
    BY <1>1, <1>2
<1>6. \A s \in Rounds : s # r =>
          status'[s] = status[s] /\ retryable'[s] = retryable[s] /\ attempt'[s] = attempt[s]
    BY <1>1, <1>2
<1>7. /\ Committed \in SUBSET All /\ \A m \in Committed : stage[m[1]] \in Written
      /\ \A s \in Rounds : <<s, "answer">> \in Committed => <<s, "question">> \in Committed
    BY DEF Committed, All, Written, Kinds
<1>8. \A s \in Rounds : <<s, "answer">> \in Messages(Committed, 0, FetchLimit) =>
          <<s, "question">> \in Messages(Committed, 0, FetchLimit)
    BY <1>7, FirstMessages
<1>9. /\ sent \in SUBSET All /\ \A m \in sent : stage[m[1]] \in Written
      /\ \A s \in Rounds : <<s, "answer">> \in sent => <<s, "question">> \in sent
      /\ <<r, "answer">> \notin sent
    <2>1. Messages(Committed, 0, FetchLimit) \in SUBSET Committed
        BY DEF Messages
    <2> QED BY <1>7, <1>8, <2>1 DEF HasContent
<1> HIDE DEF sent
<1>10. InOrder(sent) \in Seq(All) /\ Whole(InOrder(sent)) /\ \A i \in DOMAIN InOrder(sent) : InOrder(sent)[i] \in sent
    BY <1>9, HistoryOf
<1>11. /\ history' \in [Rounds -> Seq(All) \cup {None}] /\ PairsStayTogether'
       /\ history'[r] = InOrder(sent) /\ \A s \in Rounds : s # r => history'[s] = history[s]
    <2> DEFINE h == InOrder(sent)
    <2>1. h \in Seq(All) /\ Whole(h) /\ history' = [history EXCEPT ![r] = h]
        BY <1>1, <1>10
    <2> HIDE DEF h
    <2>2. /\ history' \in [Rounds -> Seq(All) \cup {None}] /\ PairsStayTogether'
          /\ history'[r] = h /\ \A s \in Rounds : s # r => history'[s] = history[s]
        BY <2>1, HistoryRead
    <2> QED BY <2>2 DEF h
<1>12. Typed'
    <2>1. \A s \in Rounds : retryable'[s] => status'[s] = "FAILED"
        BY <1>4, <1>6 DEF Typed
    <2> QED BY <1>1, <1>3, <1>4, <1>5, <1>11, <2>1 DEF Typed
<1>13. Given'
    <2>1. clock' = Cardinality({s \in Rounds : created[s] # 0}')
        BY <1>1 DEF Given
    <2>2. ids' = Cardinality({m \in All : id[m] # 0}')
        BY <1>1 DEF Given
    <2> QED BY <1>1, <2>1, <2>2 DEF Given
<1>14. Paired' /\ RequestNotOlder'
    BY <1>1 DEF Paired, RequestNotOlder
<1>15. Retried'
    BY <1>1, <1>6 DEF Retried
<1>16. RetryForgetsFailure'
    <2>1. \A i \in DOMAIN history'[r] : history'[r][i] # <<r, "answer">>
        BY <1>9, <1>10, <1>11
    <2> QED BY <1>6, <1>11, <2>1 DEF RetryForgetsFailure
<1>17. Following'
    <2>1. IsFiniteSet(Committed) /\ Committed' = Committed
        BY <1>1, VisibleAreOrdered DEF Committed
    <2>2. \A m \in Committed : created'[m[1]] = created[m[1]] /\ id'[m] = id[m]
        BY <1>1
    <2> QED BY <1>1, <2>1, <2>2, FollowingKept
<1>18. PageOlder'
    <2>1. \A m \in All : LET s == m[1] IN
              /\ attempt[s] <= attempt'[s] /\ attempt'[s] \in Nat /\ attempt[s] \in Nat
              /\ attempt'[s] = attempt[s] /\ status[s] # "THINKING" =>
                     status'[s] = status[s] /\ retryable'[s] = retryable[s]
        <3>1. \A m \in All : m[1] \in Rounds
            BY DEF All
        <3>2. \A s \in Rounds : attempt[s] \in Nat
            BY <1>2
        <3>3. \A s \in Rounds : /\ attempt[s] <= attempt'[s] /\ attempt'[s] \in Nat
                                /\ attempt'[s] = attempt[s] => s # r
            BY <1>5, <1>6, <3>2
        <3> QED BY <1>6, <3>1, <3>2, <3>3
    <2> QED BY <1>1, <2>1, PageKept
<1> QED BY <1>11, <1>12, <1>13, <1>14, <1>15, <1>16, <1>17, <1>18

-----------------------------------------------------------------------------
(* The client.                                                               *)

\* What only the client's step changes.
LEMMA ClientFrame ==
    ASSUME ReadsInv, UNCHANGED rounds, reader' \in Readers
    PROVE  Typed' /\ Given' /\ Paired' /\ Retried' /\ PairsStayTogether' /\ RetryForgetsFailure'
<1>1. UNCHANGED <<clock, ids, created, id, stage, status, attempt, retryable, history>>
    BY DEF rounds
<1>2. Typed' /\ Paired' /\ Retried' /\ PairsStayTogether' /\ RetryForgetsFailure'
    BY <1>1 DEF ReadsInv, Typed, Paired, Retried, PairsStayTogether, RetryForgetsFailure
<1>3. Given'
    <2>1. clock' = Cardinality({s \in Rounds : created[s] # 0}')
        BY <1>1 DEF ReadsInv, Given
    <2>2. ids' = Cardinality({m \in All : id[m] # 0}')
        BY <1>1 DEF ReadsInv, Given
    <2> QED BY <1>1, <2>1, <2>2 DEF ReadsInv, Given
<1> QED BY <1>2, <1>3

\* A message of the session is a row.
LEMMA RowIs ==
    ASSUME ReadsAssumption, Typed, NEW m \in All
    PROVE  /\ Row(m) \in Rows /\ Row(m).msg = m
           /\ Row(m).status = status[m[1]] /\ Row(m).attempt = attempt[m[1]] /\ Row(m).retryable = retryable[m[1]]
<1>1. m[1] \in Rounds
    BY DEF All
<1>2. status[m[1]] \in {"THINKING", "SUCCESS", "FAILED"} /\ attempt[m[1]] \in Nat
    BY <1>1, ReadsConstants DEF Typed
<1>3. retryable[m[1]] \in BOOLEAN
    BY <1>1 DEF Typed
<1>4. /\ Row(m).msg = m /\ Row(m).status = status[m[1]] /\ Row(m).attempt = attempt[m[1]]
      /\ Row(m).retryable = retryable[m[1]]
    BY DEF Row
<1>5. Row(m) \in Rows
    BY <1>2, <1>3 DEF Row, Rows
<1> QED BY <1>4, <1>5

LEMMA ReadPageStep ==
    ASSUME ReadsAssumption, ReadsInv, ReadPage
    PROVE  ReadsInv'
<1> USE DEF ReadsInv
<1> DEFINE read == Messages(Committed, reader.skip, PageLimit)
           page == [i \in DOMAIN InOrder(read) |-> Row(InOrder(read)[i])]
           due == IF reader.at = "idle" THEN Committed ELSE reader.due
<1>1. /\ reader.at \in {"idle", "next"} /\ UNCHANGED rounds
      /\ reader' = [reader EXCEPT !.at = "page", !.shown = <<>>, !.page = page, !.due = due]
    BY DEF ReadPage
<1>2. /\ Committed \in SUBSET All /\ IsFiniteSet(Committed) /\ Ordered(Committed)
      /\ \A m \in Committed : stage[m[1]] \in Written
    BY VisibleAreOrdered DEF Written
<1>3. reader.skip \in Nat /\ PageLimit \in Nat /\ PageLimit > 0
    BY ReadsConstants DEF Typed, Readers
<1>4. read \in SUBSET Committed /\ IsFiniteSet(read) /\ Ordered(read)
    <2>1. read \in SUBSET Committed
        BY DEF Messages
    <2> HIDE DEF read
    <2>2. IsFiniteSet(read)
        BY <1>2, <2>1, FS_Subset
    <2>3. Ordered(read)
        BY <1>2, <2>1 DEF Ordered
    <2> QED BY <2>1, <2>2, <2>3
<1>5. /\ DOMAIN InOrder(read) = 1 .. Cardinality(read) /\ Cardinality(read) \in Nat
      /\ \A i \in 1 .. Cardinality(read) : InOrder(read)[i] \in read
      /\ \A m \in read : Place(m, read) \in 1 .. Cardinality(read) /\ InOrder(read)[Place(m, read)] = m
    <2> HIDE DEF read
    <2> QED BY <1>4, InOrderGives
<1>6. /\ page \in Seq(Rows) /\ Len(page) = Cardinality(read) /\ DOMAIN page = 1 .. Cardinality(read)
      /\ \A i \in DOMAIN page : InOrder(read)[i] \in All /\ page[i] = Row(InOrder(read)[i])
    <2> HIDE DEF read
    <2>1. \A i \in 1 .. Cardinality(read) : InOrder(read)[i] \in All
        BY <1>2, <1>4, <1>5
    <2>2. \A i \in 1 .. Cardinality(read) : Row(InOrder(read)[i]) \in Rows
        BY <2>1, RowIs
    <2>3. page = [i \in 1 .. Cardinality(read) |-> Row(InOrder(read)[i])]
        BY <1>5
    <2> HIDE DEF page
    <2>4. page \in [1 .. Cardinality(read) -> Rows]
        BY <2>2, <2>3
    <2>5. page \in Seq(Rows) /\ Len(page) = Cardinality(read)
        BY <1>5, <2>3, <2>4
    <2> QED BY <2>1, <2>3, <2>5
<1>7. \A m \in read : \E i \in DOMAIN page : page[i].msg = m
    <2> SUFFICES ASSUME NEW m \in read PROVE \E i \in DOMAIN page : page[i].msg = m
        OBVIOUS
    <2> HIDE DEF read, page
    <2>1. Place(m, read) \in DOMAIN page /\ page[Place(m, read)] = Row(m) /\ m \in All
        BY <1>5, <1>6
    <2> QED BY <2>1, RowIs
<1>8. due \in SUBSET Committed
    BY DEF Following
<1> HIDE DEF page, due
<1>9. /\ reader'.at = "page" /\ reader'.shown = <<>> /\ reader'.page = page /\ reader'.due = due
      /\ reader'.skip = reader.skip /\ reader'.seen = reader.seen /\ reader' \in Readers
    <2>1. due \in SUBSET All
        BY <1>2, <1>8
    <2>2. <<>> \in Seq([message : Rows, request : Rows])
        OBVIOUS
    <2>3. reader \in Readers
        BY DEF Typed
    <2> HIDE DEF ReadsInv, read
    <2> QED BY <1>1, <1>6, <2>1, <2>2, <2>3 DEF Readers
<1>10. Typed' /\ Given' /\ Paired' /\ Retried' /\ PairsStayTogether' /\ RetryForgetsFailure'
    BY <1>1, <1>9, ClientFrame
<1>11. UNCHANGED <<clock, ids, created, id, stage, status, attempt, retryable, history>>
    BY <1>1 DEF rounds
<1>12. ASSUME NEW m \in due PROVE Ahead(m)'
    <2>1. Place(m, Committed)' = Place(m, Committed) /\ m \in Committed
        BY <1>8, <1>11 DEF Committed, Place, Before
    <2>2. Place(m, Committed) \in Nat /\ Place(m, Committed) > 0
        BY <1>2, <2>1, PlacesInOrder
    <2>3. m \in reader.seen \/ Place(m, Committed) > reader.skip
        BY <1>1, <1>3, <2>2 DEF Following, Ahead, due
    <2>4. CASE m \in reader.seen
        BY <1>9, <2>4 DEF Ahead
    <2>5. CASE Place(m, Committed) > reader.skip + PageLimit
        <3>1. Cardinality(read) >= PageLimit
            BY <1>2, <1>3, <2>1, <2>5, FullPage
        <3> QED BY <1>6, <1>9, <2>1, <2>5, <3>1 DEF Ahead
    <2>6. CASE Place(m, Committed) > reader.skip /\ ~(Place(m, Committed) > reader.skip + PageLimit)
        <3>1. m \in read
            BY <1>3, <2>1, <2>2, <2>6 DEF Messages
        <3>2. \E i \in DOMAIN page : page[i].msg = m
            <4> HIDE DEF read
            <4> QED BY <1>7, <3>1
        <3> QED BY <1>9, <3>2 DEF Ahead
    <2> QED BY <2>3, <2>4, <2>5, <2>6
<1>13. Following'
    <2>1. Committed' = Committed
        BY <1>11 DEF Committed
    <2> QED BY <1>8, <1>9, <1>12, <2>1 DEF Following
<1>14. PageOlder' /\ RequestNotOlder'
    <2>1. ASSUME NEW i \in DOMAIN page
          PROVE  /\ page[i].attempt <= attempt'[page[i].msg[1]]
                 /\ page[i].status = status'[page[i].msg[1]]
                 /\ page[i].retryable = retryable'[page[i].msg[1]]
        <3> DEFINE m == InOrder(read)[i]
                   row == page[i]
        <3>1. m \in All /\ row = Row(m)
            BY <1>6
        <3> HIDE DEF m, row
        <3>2. /\ row.msg = m /\ row.status = status[m[1]] /\ row.attempt = attempt[m[1]]
              /\ row.retryable = retryable[m[1]] /\ m[1] \in Rounds
            BY <3>1, RowIs DEF All
        <3>3. attempt[m[1]] \in Nat
            BY <3>2, ReadsConstants DEF Typed
        <3>4. attempt[m[1]] <= attempt[m[1]]
            BY <3>3
        <3>5. row.msg[1] = m[1]
            BY <3>2
        <3>6. /\ row.attempt <= attempt'[row.msg[1]]
              /\ row.status = status'[row.msg[1]] /\ row.retryable = retryable'[row.msg[1]]
            BY <1>11, <3>2, <3>4, <3>5
        <3> QED BY <3>6 DEF row
    <2>2. PageOlder'
        <3> HIDE DEF read
        <3> QED BY <1>9, <2>1 DEF PageOlder, Older
    <2>3. RequestNotOlder'
        BY <1>9 DEF RequestNotOlder
    <2> QED BY <2>2, <2>3
<1> QED BY <1>10, <1>13, <1>14

LEMMA ReadRequestsStep ==
    ASSUME ReadsAssumption, ReadsInv, ReadRequests
    PROVE  ReadsInv'
<1> USE DEF ReadsInv
<1> DEFINE page == reader.page
           shown == [i \in DOMAIN page |-> Shown(page[i])]
           seen == reader.seen \cup {page[i].msg : i \in DOMAIN page}
           at == IF Len(page) < PageLimit THEN "done" ELSE "next"
           skip == NextSkip(reader.skip)
<1>1. /\ reader.at = "page" /\ UNCHANGED rounds
      /\ reader' = [reader EXCEPT !.shown = shown, !.seen = seen, !.at = at, !.skip = skip, !.page = <<>>]
    BY DEF ReadRequests
<1>2. /\ reader \in Readers /\ page \in Seq(Rows) /\ reader.skip \in Nat /\ PageLimit \in Nat
      /\ Len(page) \in Nat /\ DOMAIN page = 1 .. Len(page)
    <2>1. reader \in Readers
        BY DEF Typed
    <2>2. page \in Seq(Rows) /\ reader.skip \in Nat
        BY <2>1 DEF Readers
    <2> HIDE DEF page
    <2>3. Len(page) \in Nat /\ DOMAIN page = 1 .. Len(page)
        BY <2>2
    <2> QED BY <2>1, <2>2, <2>3, ReadsConstants
<1> HIDE DEF page
<1>3. ASSUME NEW i \in DOMAIN page
      PROVE  /\ page[i] \in Rows /\ page[i].msg \in All /\ page[i].msg[1] \in Rounds
             /\ Row(page[i].msg) \in Rows
             /\ Row(page[i].msg).attempt = attempt[page[i].msg[1]]
             /\ Row(page[i].msg).retryable = retryable[page[i].msg[1]]
    <2>1. page[i] \in Rows
        BY <1>2
    <2>2. page[i].msg \in All
        BY <2>1 DEF Rows
    <2>3. page[i].msg[1] \in Rounds
        BY <2>2 DEF All
    <2> QED BY <2>1, <2>2, <2>3, RowIs
<1>4. /\ shown \in Seq([message : Rows, request : Rows]) /\ DOMAIN shown = DOMAIN page
      /\ \A i \in DOMAIN page : shown[i].message = page[i] /\ shown[i].request = Row(page[i].msg)
    <2>1. \A i \in DOMAIN page : Shown(page[i]) \in [message : Rows, request : Rows]
        BY <1>3 DEF Shown
    <2>2. \A i \in DOMAIN page : shown[i].message = page[i] /\ shown[i].request = Row(page[i].msg)
        BY DEF Shown
    <2> HIDE DEF shown
    <2>3. shown \in [1 .. Len(page) -> [message : Rows, request : Rows]]
        BY <1>2, <2>1 DEF shown
    <2>4. shown \in Seq([message : Rows, request : Rows])
        <3> DEFINE pairs == [message : Rows, request : Rows]
                   n == Len(page)
        <3>1. n \in Nat /\ shown \in [1 .. n -> pairs]
            BY <1>2, <2>3
        <3> HIDE DEF pairs, n
        <3>2. shown \in Seq(pairs)
            BY <3>1
        <3> QED BY <3>2 DEF pairs
    <2> QED BY <1>2, <2>2, <2>3, <2>4
<1>5. seen \in SUBSET All
    BY <1>2, <1>3 DEF Readers
<1>6. skip = reader.skip + PageLimit /\ skip \in Nat /\ at \in {"done", "next"}
    BY <1>2 DEF NextSkip
<1> HIDE DEF shown, seen, skip, at
<1>7. /\ reader'.at = at /\ reader'.shown = shown /\ reader'.page = <<>> /\ reader'.due = reader.due
      /\ reader'.skip = skip /\ reader'.seen = seen /\ reader' \in Readers
    <2>1. <<>> \in Seq(Rows)
        OBVIOUS
    <2> HIDE DEF ReadsInv
    <2> QED BY <1>1, <1>2, <1>4, <1>5, <1>6, <2>1 DEF Readers
<1>8. Typed' /\ Given' /\ Paired' /\ Retried' /\ PairsStayTogether' /\ RetryForgetsFailure'
    BY <1>1, <1>7, ClientFrame
<1>9. UNCHANGED <<clock, ids, created, id, stage, status, attempt, retryable, history>>
    BY <1>1 DEF rounds
<1>10. ASSUME NEW m \in reader.due PROVE Ahead(m)'
    <2>1. Place(m, Committed)' = Place(m, Committed)
        BY <1>9 DEF Committed, Place, Before
    <2>2. \/ m \in reader.seen \/ \E i \in DOMAIN page : page[i].msg = m
          \/ Place(m, Committed) > reader.skip + PageLimit /\ Len(page) >= PageLimit
        BY <1>1 DEF Following, Ahead, page
    <2>3. CASE m \in reader.seen \/ \E i \in DOMAIN page : page[i].msg = m
        BY <1>7, <2>3 DEF Ahead, seen
    <2>4. CASE Place(m, Committed) > reader.skip + PageLimit /\ Len(page) >= PageLimit
        <3>1. at = "next"
            BY <1>2, <2>4 DEF at
        <3> QED BY <1>6, <1>7, <2>1, <2>4, <3>1 DEF Ahead
    <2> QED BY <2>2, <2>3, <2>4
<1>11. Following'
    <2>1. Committed' = Committed
        BY <1>9 DEF Committed
    <2> QED BY <1>6, <1>7, <1>10, <2>1 DEF Following
<1>12. PageOlder'
    BY <1>7 DEF PageOlder
<1>13. RequestNotOlder'
    <2>1. ASSUME NEW i \in DOMAIN page
          PROVE  /\ shown[i].request.attempt >= shown[i].message.attempt
                 /\ shown[i].request.attempt = shown[i].message.attempt /\ shown[i].message.status # "THINKING" =>
                        shown[i].request.retryable = shown[i].message.retryable
        <3>1. Older(page[i])
            BY DEF PageOlder, page
        <3>2. /\ page[i].attempt <= attempt[page[i].msg[1]]
              /\ (page[i].attempt = attempt[page[i].msg[1]] /\ page[i].status # "THINKING") =>
                     page[i].retryable = retryable[page[i].msg[1]]
            BY <3>1 DEF Older
        <3>3. page[i].attempt \in Nat /\ attempt[page[i].msg[1]] \in Nat
            BY <1>3, ReadsConstants DEF Rows, Typed
        <3> QED BY <1>3, <1>4, <3>2, <3>3
    <2> QED BY <1>4, <1>7, <2>1 DEF RequestNotOlder
<1> QED BY <1>8, <1>11, <1>12, <1>13

-----------------------------------------------------------------------------
(* The theorems.                                                             *)

LEMMA ReadsStep ==
    ASSUME ReadsAssumption, ReadsInv, [Next]_vars
    PROVE  ReadsInv'
<1>1. ASSUME NEW r \in Rounds, Begin(r) PROVE ReadsInv'
    BY <1>1, BeginStep
<1>2. ASSUME NEW r \in Rounds,
             Write(r, "question", "begun", "asked") \/ Write(r, "answer", "asked", "answered")
      PROVE  ReadsInv'
    <2>1. "question" \in Kinds /\ "answer" \in Kinds
        BY DEF Kinds
    <2>2. /\ <<"question", "begun", "asked">> \in {<<"question", "begun", "asked">>, <<"answer", "asked", "answered">>}
          /\ <<"answer", "asked", "answered">> \in {<<"question", "begun", "asked">>, <<"answer", "asked", "answered">>}
        OBVIOUS
    <2> QED BY <1>2, <2>1, <2>2, WriteStep
<1>3. ASSUME NEW r \in Rounds, ReadHistory(r) PROVE ReadsInv'
    BY <1>3, ReadHistoryStep
<1>4. ASSUME NEW r \in Rounds, Commit(r) PROVE ReadsInv'
    BY <1>4, CommitStep
<1>5. ASSUME NEW r \in Rounds, Abort(r) PROVE ReadsInv'
    BY <1>5, AbortStep
<1>6. ASSUME NEW r \in Rounds, Settle(r) PROVE ReadsInv'
    BY <1>6, SettleStep
<1>7. ASSUME NEW r \in Rounds, Retry(r) PROVE ReadsInv'
    BY <1>7, RetryStep
<1>8. CASE UNCHANGED vars
    <2>1. reader' = reader /\ UNCHANGED rounds
        BY <1>8 DEF vars
    <2>2. /\ Typed' /\ Given' /\ Paired' /\ Retried' /\ PairsStayTogether' /\ RetryForgetsFailure'
        BY <2>1, ClientFrame DEF ReadsInv, Typed
    <2>3. UNCHANGED <<clock, ids, created, id, stage, status, attempt, retryable, history>>
        BY <2>1 DEF rounds
    <2>4. Following' /\ PageOlder' /\ RequestNotOlder'
        BY <2>1, <2>3 DEF ReadsInv, Following, Ahead, Committed, Place, Before, PageOlder, Older, RequestNotOlder
    <2> QED BY <2>2, <2>4 DEF ReadsInv
<1> QED BY <1>1, <1>2, <1>3, <1>4, <1>5, <1>6, <1>7, <1>8, ReadPageStep, ReadRequestsStep DEF Next

LEMMA ReadsHold == ASSUME ReadsAssumption PROVE Safety => []ReadsInv
<1>1. Init => ReadsInv
    BY ReadsInit
<1>2. ReadsInv /\ [Next]_vars => ReadsInv'
    BY ReadsStep
<1> QED BY <1>1, <1>2, PTL DEF Safety

\* No more transactions are begun, ids given and attempts made than there are to be, and only what failed is retried.
THEOREM ReadsAreTyped ==
    ASSUME ReadsAssumption
    PROVE  Safety => []TypeOK
<1>1. ReadsInv => TypeOK
    BY ReadsAreSafe
<1> QED BY <1>1, ReadsHold, PTL

\* For any number of questions that are asked at the same time and any limit of a history: in each history an answer
\* directly follows its question (chat_repo.py, get_session_messages).
THEOREM PairsAreTogether ==
    ASSUME ReadsAssumption
    PROVE  Safety => []PairsStayTogether
<1>1. ReadsInv => PairsStayTogether
    BY DEF ReadsInv
<1> QED BY <1>1, ReadsHold, PTL

\* For any limit of a page: who pages to the end has been shown all that was committed when he began, whatever is
\* committed, settled and retried meanwhile (session_query_service.py, get_user_session_detail).
THEOREM NothingIsSkipped ==
    ASSUME ReadsAssumption
    PROVE  Safety => []NothingSkipped
<1>1. ReadsInv => NothingSkipped
    BY ReadsAreSafe
<1> QED BY <1>1, ReadsHold, PTL

\* For any number of attempts: a message is shown with its request as it was then or is later, and the question that is
\* asked again does not show the answer that failed (session_query_service.py; session_orchestrator.py, prepare_retry_request).
THEOREM RequestsAreNotOlder ==
    ASSUME ReadsAssumption
    PROVE  Safety => [](RequestNotOlder /\ RetryForgetsFailure)
<1>1. ReadsInv => RequestNotOlder /\ RetryForgetsFailure
    BY DEF ReadsInv
<1> QED BY <1>1, ReadsHold, PTL
==============================================================================

---------------------------- MODULE CreditsProofs ----------------------------
(***************************************************************************)
(* Proofs about Credits, for any users, messages, workers, bills, grants   *)
(* and ratios: the types, that every charge is recorded once and pays its  *)
(* value, that balances are what the transactions say, that an admitted    *)
(* generation can be paid while nobody else uses the account, and that the *)
(* expiry takes what has expired and no more.  Sums over the usage records *)
(* need induction over finite sets; it is had from the smallest of the     *)
(* subsets that would be counterexamples (LEMMA Smallest).                 *)
(***************************************************************************)
EXTENDS Credits, FiniteSetTheorems, WellFoundedInduction, TLAPS

-----------------------------------------------------------------------------
(* Sums over finite sets.                                                    *)

\* Of some subsets of a finite set one has no other of them in it: induction over finite sets.
LEMMA Smallest ==
    ASSUME NEW S, IsFiniteSet(S), NEW T, T \subseteq SUBSET S, T # {}
    PROVE  \E x \in T : \A y \in T : y \subseteq x => y = x
<1>1. IsWellFoundedOn(StrictSubsetOrdering(S), FiniteSubsetsOf(S)) /\ FiniteSubsetsOf(S) = SUBSET S
    BY FS_StrictSubsetOrderingWellFounded, FS_FiniteSubsetsOfFinite
<1>2. \E x \in T : \A y \in T : ~(<<y, x>> \in StrictSubsetOrdering(S))
    BY <1>1, WFMin
<1> QED BY <1>2 DEF StrictSubsetOrdering

\* The partial sums of v, and its sum over S.
One(s) == CHOOSE x \in s : TRUE
IsSum(g, v, S) == g = [s \in SUBSET S |-> IF s = {} THEN 0 ELSE v[One(s)] + g[s \ {One(s)}]]
Sums(v, S) == CHOOSE g : IsSum(g, v, S)
Total(v, S) == Sums(v, S)[S]

LEMMA OneOf == ASSUME NEW s, s # {} PROVE One(s) \in s
BY DEF One

LEMMA SumOfPart ==
    ASSUME NEW g, NEW v, NEW S, IsSum(g, v, S), NEW T \in SUBSET S
    PROVE  IsSum([s \in SUBSET T |-> g[s]], v, T)
<1> DEFINE h == [s \in SUBSET T |-> g[s]]
<1>1. \A s \in SUBSET T : g[s] = IF s = {} THEN 0 ELSE v[One(s)] + g[s \ {One(s)}]
    BY DEF IsSum
<1>2. \A s \in SUBSET T : h[s \ {One(s)}] = g[s \ {One(s)}]
    OBVIOUS
<1>3. h = [s \in SUBSET T |-> IF s = {} THEN 0 ELSE v[One(s)] + h[s \ {One(s)}]]
    BY <1>1, <1>2
<1> QED BY <1>3 DEF IsSum

LEMMA SumIsUnique ==
    ASSUME NEW v, NEW S, IsFiniteSet(S), NEW g, NEW h, IsSum(g, v, S), IsSum(h, v, S)
    PROVE  g = h
<1> DEFINE T == {s \in SUBSET S : g[s] # h[s]}
<1>0. T \subseteq SUBSET S
    OBVIOUS
<1>1. /\ g = [s \in SUBSET S |-> IF s = {} THEN 0 ELSE v[One(s)] + g[s \ {One(s)}]]
      /\ h = [s \in SUBSET S |-> IF s = {} THEN 0 ELSE v[One(s)] + h[s \ {One(s)}]]
    BY DEF IsSum
<1>2. CASE T = {}
    <2>1. \A s \in SUBSET S : g[s] = h[s]
        BY <1>2
    <2>2. g = [s \in SUBSET S |-> g[s]] /\ h = [s \in SUBSET S |-> h[s]]
        BY <1>1
    <2> QED BY <2>1, <2>2
<1>3. CASE T # {}
    <2>1. PICK x \in T : \A y \in T : y \subseteq x => y = x
        <3> HIDE DEF T
        <3> QED BY <1>0, <1>3, Smallest
    <2>2. x # {}
        BY <1>1, <2>1
    <2>3. One(x) \in x
        BY <2>2, OneOf
    <2>4. x \ {One(x)} \in SUBSET S /\ x \ {One(x)} # x
        BY <2>3
    <2>5. g[x \ {One(x)}] = h[x \ {One(x)}]
        BY <2>1, <2>4
    <2>6. g[x] = v[One(x)] + g[x \ {One(x)}] /\ h[x] = v[One(x)] + h[x \ {One(x)}]
        BY <1>1, <2>2
    <2> QED BY <2>1, <2>5, <2>6
<1> QED BY <1>2, <1>3

LEMMA SumExists ==
    ASSUME NEW v, NEW S, IsFiniteSet(S)
    PROVE  \E g : IsSum(g, v, S)
<1> DEFINE T == {s \in SUBSET S : ~\E g : IsSum(g, v, s)}
<1>0. T \subseteq SUBSET S
    OBVIOUS
<1> SUFFICES ASSUME T # {} PROVE FALSE
    OBVIOUS
<1>1. PICK x \in T : \A y \in T : y \subseteq x => y = x
    <2> HIDE DEF T
    <2> QED BY <1>0, Smallest
<1>2. ASSUME NEW s \in SUBSET x, s # x PROVE IsSum(Sums(v, s), v, s) /\ IsFiniteSet(s)
    <2>1. \E g : IsSum(g, v, s)
        BY <1>1, <1>2
    <2> QED BY <2>1, FS_Subset DEF Sums
<1>3. ASSUME NEW s \in SUBSET x, s # x
      PROVE  Total(v, s) = IF s = {} THEN 0 ELSE v[One(s)] + Total(v, s \ {One(s)})
    <2>1. IsSum(Sums(v, s), v, s)
        BY <1>2, <1>3
    <2>2. CASE s = {}
        BY <2>1, <2>2 DEF IsSum, Total
    <2>3. CASE s # {}
        <3> DEFINE t == s \ {One(s)}
        <3>1. t \in SUBSET s /\ t \in SUBSET x /\ t # x
            BY <1>3
        <3>2. IsSum([r \in SUBSET t |-> Sums(v, s)[r]], v, t)
            BY <2>1, <3>1, SumOfPart
        <3>3. Sums(v, t) = [r \in SUBSET t |-> Sums(v, s)[r]]
            BY <1>2, <3>1, <3>2, SumIsUnique
        <3>4. Sums(v, t)[t] = Sums(v, s)[t]
            BY <3>3
        <3>5. Sums(v, s)[s] = v[One(s)] + Sums(v, s)[t]
            BY <2>1, <2>3 DEF IsSum
        <3> QED BY <2>3, <3>4, <3>5 DEF Total
    <2> QED BY <2>2, <2>3
<1> DEFINE g == [s \in SUBSET x |-> IF s = {} THEN 0 ELSE v[One(s)] + Total(v, s \ {One(s)})]
<1>4. ASSUME NEW s \in SUBSET x, s # {} PROVE g[s \ {One(s)}] = Total(v, s \ {One(s)})
    <2>1. One(s) \in s /\ s \ {One(s)} \in SUBSET x /\ s \ {One(s)} # x
        BY <1>4, OneOf
    <2> QED BY <1>3, <2>1
<1>5. IsSum(g, v, x)
    <2>1. g = [s \in SUBSET x |-> IF s = {} THEN 0 ELSE v[One(s)] + g[s \ {One(s)}]]
        BY <1>4
    <2> HIDE DEF g
    <2> QED BY <2>1 DEF IsSum
<1> QED BY <1>1, <1>5

\* What the sum is: nothing for the empty set, and one more for one more.
LEMMA TotalSteps ==
    ASSUME NEW v, NEW S, IsFiniteSet(S)
    PROVE  Total(v, S) = IF S = {} THEN 0 ELSE v[One(S)] + Total(v, S \ {One(S)})
<1>1. IsSum(Sums(v, S), v, S)
    BY SumExists DEF Sums
<1>2. CASE S = {}
    BY <1>1, <1>2 DEF IsSum, Total
<1>3. CASE S # {}
    <2> DEFINE t == S \ {One(S)}
    <2>1. IsFiniteSet(t) /\ t \in SUBSET S
        BY FS_Subset
    <2>2. IsSum([r \in SUBSET t |-> Sums(v, S)[r]], v, t) /\ IsSum(Sums(v, t), v, t)
        BY <1>1, <2>1, SumOfPart, SumExists DEF Sums
    <2>3. Sums(v, t) = [r \in SUBSET t |-> Sums(v, S)[r]]
        BY <2>1, <2>2, SumIsUnique
    <2>4. Sums(v, t)[t] = Sums(v, S)[t]
        BY <2>3
    <2>5. Sums(v, S)[S] = v[One(S)] + Sums(v, S)[t]
        BY <1>1, <1>3 DEF IsSum
    <2> QED BY <1>3, <2>4, <2>5 DEF Total
<1> QED BY <1>2, <1>3

LEMMA TotalIsNat ==
    ASSUME NEW v, NEW S, IsFiniteSet(S), \A x \in S : v[x] \in Nat
    PROVE  Total(v, S) \in Nat
<1> DEFINE T == {s \in SUBSET S : Total(v, s) \notin Nat}
<1>0. T \subseteq SUBSET S
    OBVIOUS
<1> SUFFICES ASSUME T # {} PROVE FALSE
    OBVIOUS
<1>1. PICK x \in T : \A y \in T : y \subseteq x => y = x
    <2> HIDE DEF T
    <2> QED BY <1>0, Smallest
<1>2. Total(v, x) = IF x = {} THEN 0 ELSE v[One(x)] + Total(v, x \ {One(x)})
    BY <1>1, TotalSteps, FS_Subset
<1>3. x # {} /\ One(x) \in x
    BY <1>1, <1>2, OneOf
<1>4. Total(v, x \ {One(x)}) \in Nat
    BY <1>1, <1>3
<1> QED BY <1>1, <1>2, <1>3, <1>4

LEMMA TotalAgrees ==
    ASSUME NEW v, NEW w, NEW S, IsFiniteSet(S), \A x \in S : v[x] = w[x]
    PROVE  Total(v, S) = Total(w, S)
<1> DEFINE T == {s \in SUBSET S : Total(v, s) # Total(w, s)}
<1>0. T \subseteq SUBSET S
    OBVIOUS
<1> SUFFICES ASSUME T # {} PROVE FALSE
    OBVIOUS
<1>1. PICK x \in T : \A y \in T : y \subseteq x => y = x
    <2> HIDE DEF T
    <2> QED BY <1>0, Smallest
<1>2. /\ Total(v, x) = IF x = {} THEN 0 ELSE v[One(x)] + Total(v, x \ {One(x)})
      /\ Total(w, x) = IF x = {} THEN 0 ELSE w[One(x)] + Total(w, x \ {One(x)})
    BY <1>1, TotalSteps, FS_Subset
<1>3. x # {} /\ One(x) \in x
    BY <1>1, <1>2, OneOf
<1>4. Total(v, x \ {One(x)}) = Total(w, x \ {One(x)})
    BY <1>1, <1>3
<1> QED BY <1>1, <1>2, <1>3, <1>4

LEMMA TotalGrows ==
    ASSUME NEW v, NEW S, IsFiniteSet(S), \A x \in S : v[x] \in Nat, NEW e \in S
    PROVE  Total(v, S) = Total(v, S \ {e}) + v[e]
<1> DEFINE T == {s \in SUBSET S : \E x \in s : Total(v, s) # Total(v, s \ {x}) + v[x]}
<1>0. T \subseteq SUBSET S
    OBVIOUS
<1> SUFFICES ASSUME T # {} PROVE FALSE
    OBVIOUS
<1>1. PICK s \in T : \A y \in T : y \subseteq s => y = s
    <2> HIDE DEF T
    <2> QED BY <1>0, Smallest
<1>2. PICK x \in s : Total(v, s) # Total(v, s \ {x}) + v[x]
    BY <1>1
<1> DEFINE o == One(s)
<1>3. o \in s /\ v[o] \in Nat /\ v[x] \in Nat
    BY <1>1, <1>2, OneOf
<1>4. ASSUME NEW t \in SUBSET S PROVE Total(v, t) \in Nat /\ IsFiniteSet(t)
    BY FS_Subset, TotalIsNat
<1>5. Total(v, s) = v[o] + Total(v, s \ {o})
    BY <1>2, <1>4, TotalSteps
<1>6. CASE o = x
    BY <1>2, <1>3, <1>4, <1>5, <1>6
<1>7. CASE o # x
    <2>1. s \ {o} \notin T /\ s \ {x} \notin T
        BY <1>1, <1>3
    <2>2. Total(v, s \ {o}) = Total(v, (s \ {o}) \ {x}) + v[x]
        BY <1>7, <2>1
    <2>3. Total(v, s \ {x}) = Total(v, (s \ {x}) \ {o}) + v[o]
        BY <1>3, <1>7, <2>1
    <2>4. (s \ {o}) \ {x} = (s \ {x}) \ {o}
        OBVIOUS
    <2> DEFINE both == Total(v, (s \ {o}) \ {x})
    <2>5. /\ Total(v, s \ {o}) = both + v[x] /\ Total(v, s \ {x}) = both + v[o]
          /\ both \in Nat
        BY <1>1, <1>4, <2>2, <2>3, <2>4
    <2> HIDE DEF both
    <2> QED BY <1>2, <1>3, <1>5, <2>5
<1> QED BY <1>6, <1>7
-----------------------------------------------------------------------------
\* The sums over the usage records are totals of a field over the charged messages of a user.
Charged(us, u) == {m \in Messages : Owner[m] = u /\ us[m] # NoUsage}
Part(us, field) == [m \in Messages |-> us[m][field]]
TokensSpent(u) == SumOver({m \in Messages : Owner[m] = u /\ usage[m] # NoUsage},
                          LAMBDA m : usage[m].tokens)

\* MapThenSumSet of a field, as it is defined in the library, is its total.
LEMMA FieldTotal ==
    ASSUME NEW us, NEW field, NEW S \in SUBSET Messages, IsFiniteSet(S)
    PROVE  (CHOOSE g : g = [s \in SUBSET S |->
                              IF s = {} THEN 0
                              ELSE us[CHOOSE x \in s : TRUE][field]
                                     + g[s \ {CHOOSE x \in s : TRUE}]])[S]
             = Total(Part(us, field), S)
<1> DEFINE v == Part(us, field)
           P(g) == g = [s \in SUBSET S |->
                          IF s = {} THEN 0
                          ELSE us[CHOOSE x \in s : TRUE][field]
                                 + g[s \ {CHOOSE x \in s : TRUE}]]
<1>1. ASSUME NEW s \in SUBSET S, s # {}
      PROVE  us[CHOOSE x \in s : TRUE][field] = v[One(s)]
    <2>1. One(s) \in Messages
        BY <1>1, OneOf
    <2> QED BY <2>1 DEF One, Part
<1>2. ASSUME NEW g PROVE P(g) <=> IsSum(g, v, S)
    <2> DEFINE f1 == [s \in SUBSET S |->
                        IF s = {} THEN 0
                        ELSE us[CHOOSE x \in s : TRUE][field]
                               + g[s \ {CHOOSE x \in s : TRUE}]]
               f2 == [s \in SUBSET S |-> IF s = {} THEN 0 ELSE v[One(s)] + g[s \ {One(s)}]]
    <2> HIDE DEF v
    <2>1. ASSUME NEW s \in SUBSET S PROVE f1[s] = f2[s]
        BY <1>1 DEF One
    <2>2. f1 = f2
        BY <2>1
    <2> QED BY <2>2 DEF IsSum
<1> HIDE DEF v, P
<1>3. IsSum(Sums(v, S), v, S)
    BY SumExists DEF Sums
<1>4. P(CHOOSE g : P(g))
    BY <1>2, <1>3
<1>5. (CHOOSE g : P(g)) = Sums(v, S)
    BY <1>2, <1>3, <1>4, SumIsUnique
<1> QED BY <1>5 DEF Total, P, v

LEMMA SpentIsTotal ==
    ASSUME NEW u, IsFiniteSet(Messages)
    PROVE  /\ Spent(u) = Total(Part(usage, "credits"), Charged(usage, u))
           /\ TokensSpent(u) = Total(Part(usage, "tokens"), Charged(usage, u))
           /\ Spent(u)' = Total(Part(usage', "credits"), Charged(usage', u))
           /\ TokensSpent(u)' = Total(Part(usage', "tokens"), Charged(usage', u))
<1>1. /\ Charged(usage, u) \in SUBSET Messages /\ IsFiniteSet(Charged(usage, u))
      /\ Charged(usage', u) \in SUBSET Messages /\ IsFiniteSet(Charged(usage', u))
    BY FS_Subset DEF Charged
<1>2. Spent(u) = Total(Part(usage, "credits"), Charged(usage, u))
    BY ZenonT(60), <1>1, FieldTotal DEF Spent, SumOver, MapThenSumSet, MapThenFoldSet, Charged
<1>3. TokensSpent(u) = Total(Part(usage, "tokens"), Charged(usage, u))
    BY ZenonT(60), <1>1, FieldTotal DEF TokensSpent, SumOver, MapThenSumSet, MapThenFoldSet, Charged
<1>4. Spent(u)' = Total(Part(usage', "credits"), Charged(usage', u))
    BY ZenonT(60), <1>1, FieldTotal DEF Spent, SumOver, MapThenSumSet, MapThenFoldSet, Charged
<1>5. TokensSpent(u)' = Total(Part(usage', "tokens"), Charged(usage', u))
    BY ZenonT(60), <1>1, FieldTotal DEF TokensSpent, SumOver, MapThenSumSet, MapThenFoldSet, Charged
<1> QED BY <1>2, <1>3, <1>4, <1>5
-----------------------------------------------------------------------------
\* Rounding up is the least whole number that covers the quotient.
LEMMA Ceiling ==
    ASSUME NEW n \in Nat, NEW d \in Nat \ {0}
    PROVE  /\ CeilDiv(n, d) \in Nat
           /\ n <= CeilDiv(n, d) * d
           /\ CeilDiv(n, d) * d < n + d
<1> DEFINE q == (n + d - 1) \div d
<1>1. n + d - 1 \in Nat /\ d \in Nat /\ d > 0
    OBVIOUS
<1>2. q \in Int /\ d * q <= n + d - 1 /\ n + d - 1 < d * q + d
    BY <1>1
<1>3. q \in Nat
    BY <1>1, <1>2
<1> HIDE DEF q
<1>4. n <= q * d /\ q * d < n + d
    BY <1>2
<1> QED BY <1>3, <1>4 DEF CeilDiv, q

\* Products keep the order.
LEMMA Times ==
    ASSUME NEW a \in Int, NEW b \in Int, NEW k \in Nat \ {0}
    PROVE  /\ a <= b => a * k <= b * k
           /\ a * k < b * k => a < b
           /\ a * k <= b * k => a <= b
OBVIOUS

\* The value of a bill in tokens is covered by its cost in credits, and by no credit less.
LEMMA CostCovers ==
    ASSUME NEW bill \in Nat, CreditsAssumption
    PROVE  /\ Cost(bill) \in Nat /\ TokenValue(bill) \in Nat
           /\ TokenValue(bill) <= Cost(bill) * Ratio
           /\ Cost(bill) * Ratio < TokenValue(bill) + Ratio
<1> DEFINE c == Cost(bill)
           v == TokenValue(bill)
<1>1. Unit \in Nat \ {0} /\ Ratio \in Nat \ {0} /\ bill * Ratio \in Nat
    BY DEF CreditsAssumption
<1>2. c \in Nat /\ bill <= c * Unit /\ c * Unit < bill + Unit
    BY <1>1, Ceiling DEF Cost
<1>3. v \in Nat /\ bill * Ratio <= v * Unit /\ v * Unit < bill * Ratio + Unit
    BY <1>1, Ceiling DEF TokenValue
<1> HIDE DEF c, v
<1>4. v <= c * Ratio
    <2>1. bill * Ratio <= (c * Unit) * Ratio
        BY <1>1, <1>2, Times
    <2>2. (c * Unit) * Ratio = (c * Ratio) * Unit /\ (c * Ratio) * Unit \in Nat
        BY <1>1, <1>2
    <2>3. v * Unit < (c * Ratio) * Unit + Unit
        BY <1>1, <1>3, <2>1, <2>2
    <2>4. (c * Ratio) * Unit + Unit = (c * Ratio + 1) * Unit /\ c * Ratio + 1 \in Nat
        BY <1>1, <1>2
    <2>5. v < c * Ratio + 1
        BY <1>1, <1>3, <2>3, <2>4, Times
    <2> QED BY <1>1, <1>2, <1>3, <2>5
<1>5. c * Ratio < v + Ratio
    <2>1. (c - 1) * Unit < bill /\ c - 1 \in Int /\ (c - 1) * Unit \in Int
        BY <1>1, <1>2
    <2>2. ((c - 1) * Unit) * Ratio < bill * Ratio
        BY <1>1, <2>1
    <2>3. ((c - 1) * Unit) * Ratio = ((c - 1) * Ratio) * Unit /\ (c - 1) * Ratio \in Int
        BY <1>1, <2>1
    <2>4. ((c - 1) * Ratio) * Unit < v * Unit
        BY <1>1, <1>3, <2>2, <2>3
    <2>5. (c - 1) * Ratio < v
        BY <1>1, <1>3, <2>3, <2>4, Times
    <2>6. (c - 1) * Ratio = c * Ratio - Ratio
        BY <1>1, <1>2
    <2> QED BY <1>1, <1>2, <1>3, <2>5, <2>6
<1> QED BY <1>2, <1>3, <1>4, <1>5 DEF c, v

\* A share pays its bill: what ChargedItsValue says of a record.
PaysItsValue(share) ==
    LET paid == share.credits * Ratio + share.tokens
        value == TokenValue(share.bill)
    IN  /\ value <= paid
        /\ IF share.tokens > 0 THEN paid = value ELSE paid < value + Ratio

LEMMA SharePays ==
    ASSUME CreditsAssumption, NEW u \in Users, balance[u] \in Nat, NEW bill \in Bills
    PROVE  /\ Share(u, bill) \in Usage
           /\ Share(u, bill).credits <= balance[u]
           /\ PaysItsValue(Share(u, bill))
<1> DEFINE b == balance[u]
           c == Cost(bill)
           v == TokenValue(bill)
<1>1. bill \in Nat /\ Ratio \in Nat \ {0}
    BY DEF CreditsAssumption
<1>2. c \in Nat /\ v \in Nat /\ v <= c * Ratio /\ c * Ratio < v + Ratio
    BY <1>1, CostCovers
<1>3. b \in Nat
    OBVIOUS
<1> HIDE DEF b, c, v
<1>4. CASE b >= c
    <2>1. Share(u, bill) = [credits |-> c, tokens |-> 0, bill |-> bill]
        BY <1>4 DEF Share, b, c
    <2> QED BY <1>1, <1>2, <1>3, <1>4, <2>1 DEF PaysItsValue, Usage, b, v
<1>5. CASE b < c
    <2>1. b * Ratio \in Nat
        BY <1>1, <1>3
    <2>2. v > b * Ratio - 1
        <3>1. b <= c - 1 /\ c - 1 \in Int
            BY <1>2, <1>3, <1>5
        <3>2. b * Ratio <= (c - 1) * Ratio
            BY <1>1, <1>3, <3>1, Times
        <3>3. (c - 1) * Ratio = c * Ratio - Ratio
            BY <1>1, <1>2
        <3> QED BY <1>1, <1>2, <2>1, <3>2, <3>3
    <2> DEFINE br == b * Ratio
    <2>3. Share(u, bill) = [credits |-> b, tokens |-> v - br, bill |-> bill]
        BY <1>1, <1>2, <1>3, <1>5, <2>1, <2>2 DEF Share, b, c, v
    <2>4. v - br \in Nat
        BY <1>2, <2>1, <2>2
    <2>5. /\ Share(u, bill).credits = b /\ Share(u, bill).tokens = v - br
          /\ Share(u, bill).bill = bill /\ Share(u, bill) \in Usage
        BY <1>3, <2>3, <2>4 DEF Usage
    <2>6. PaysItsValue(Share(u, bill))
        <3>1. br + (v - br) = v /\ br \in Nat
            BY <1>2, <2>1
        <3> HIDE DEF br
        <3>2. /\ Share(u, bill).credits * Ratio + Share(u, bill).tokens = v
              /\ TokenValue(Share(u, bill).bill) = v
            BY <2>5, <3>1 DEF v, br
        <3> QED BY <1>1, <1>2, <3>2 DEF PaysItsValue
    <2> QED BY <1>3, <2>5, <2>6 DEF b
<1> QED BY <1>2, <1>3, <1>4, <1>5
-----------------------------------------------------------------------------
\* The state has its types; amounts are never negative.
Takings == UNION {[D -> Nat] : D \in SUBSET Users}
GenRow == [st : GenStatus, est : Nat, bill : Nat, quiet : BOOLEAN]
ExpiryRun == [st : {"idle", "running"}, now : 0..MaxDay, todo : SUBSET Users,
              took : Takings, faults : Nat]

Typed ==
    /\ day \in 0..MaxDay
    /\ balance \in [Users -> Nat]
    /\ used \in [Users -> 0..MaxTokens]
    /\ grants \in [Users -> SUBSET (0..MaxDay)]
    /\ expired \in [Users -> Nat]
    /\ usage \in [Messages -> Usage \cup {NoUsage}]
    /\ gen \in [Messages -> GenRow]
    /\ work \in [Workers -> Messages \cup {NoMessage}]
    /\ expiry \in ExpiryRun

\* What was spent is a whole number.
LEMMA SpentIsNat ==
    ASSUME CreditsAssumption, usage \in [Messages -> Usage \cup {NoUsage}], NEW u
    PROVE  Spent(u) \in Nat /\ TokensSpent(u) \in Nat
<1> DEFINE S == Charged(usage, u)
<1>1. IsFiniteSet(Messages) /\ IsFiniteSet(S)
    BY FS_Subset DEF CreditsAssumption, Charged
<1>2. \A m \in S : usage[m] \in Usage
    BY DEF Charged
<1>3. \A m \in S : Part(usage, "credits")[m] \in Nat /\ Part(usage, "tokens")[m] \in Nat
    BY <1>2 DEF Usage, Part, Charged
<1> HIDE DEF S
<1>4. Total(Part(usage, "credits"), S) \in Nat /\ Total(Part(usage, "tokens"), S) \in Nat
    BY <1>1, <1>3, TotalIsNat
<1> QED BY <1>1, <1>4, SpentIsTotal DEF S

\* A field's total is that of before and what the new record adds.
Records == [Messages -> Usage \cup {NoUsage}]
Adds(us, us2, m, share) ==
    /\ us \in Records /\ us2 \in Records /\ m \in Messages /\ share \in Usage
    /\ us[m] = NoUsage /\ us2[m] = share
    /\ \A n \in Messages \ {m} : us2[n] = us[n]

LEMMA OneMoreRecord ==
    ASSUME CreditsAssumption, NEW us, NEW us2, NEW m, NEW share, Adds(us, us2, m, share),
           NEW u, NEW field, field \in {"credits", "tokens"}
    PROVE  LET before == Total(Part(us, field), Charged(us, u))
               after == Total(Part(us2, field), Charged(us2, u))
           IN  /\ Owner[m] = u => after = before + share[field]
               /\ Owner[m] # u => after = before
<1>0. /\ us \in Records /\ us2 \in Records /\ m \in Messages /\ share \in Usage
      /\ us[m] = NoUsage /\ us2[m] = share
      /\ \A n \in Messages \ {m} : us2[n] = us[n]
    BY DEF Adds
<1> USE DEF Records
<1> DEFINE S == Charged(us, u)
           S2 == Charged(us2, u)
           v == Part(us, field)
           v2 == Part(us2, field)
<1>1. IsFiniteSet(S) /\ IsFiniteSet(S2)
    BY FS_Subset DEF CreditsAssumption, Charged
<1>2. share # NoUsage /\ us2 \in [Messages -> Usage \cup {NoUsage}]
    BY <1>0 DEF CreditsAssumption
<1>3. m \notin S /\ \A n \in S : v2[n] = v[n]
    BY <1>0 DEF Charged, Part
<1>4. \A n \in S : v[n] \in Nat
    <2>1. \A n \in S : us[n] \in Usage
        BY <1>0 DEF Charged
    <2>2. \A r \in Usage : r[field] \in Nat
        BY <1>0 DEF Usage
    <2> QED BY <1>0, <2>1, <2>2 DEF Part, Charged
<1>5. v2[m] = share[field] /\ share[field] \in Nat
    <2>1. share["credits"] \in Nat /\ share["tokens"] \in Nat
        BY <1>0 DEF Usage
    <2> QED BY <1>0, <2>1 DEF Part
<1>6. Total(v2, S) = Total(v, S) /\ Total(v, S) \in Nat
    BY <1>1, <1>3, <1>4, TotalAgrees, TotalIsNat
<1>7. CASE Owner[m] = u
    <2>1. S2 = S \cup {m} /\ S2 \ {m} = S /\ m \in S2
        BY <1>0, <1>2, <1>3, <1>7 DEF Charged
    <2>2. \A n \in S2 : v2[n] \in Nat
        BY <1>3, <1>4, <1>5, <2>1
    <2> HIDE DEF S, S2, v, v2
    <2>3. Total(v2, S2) = Total(v2, S2 \ {m}) + v2[m]
        BY <1>1, <2>1, <2>2, TotalGrows
    <2> QED BY <1>5, <1>6, <1>7, <2>1, <2>3 DEF S, S2, v, v2
<1>8. CASE Owner[m] # u
    <2>1. S2 = S
        BY <1>0, <1>2, <1>8 DEF Charged
    <2> HIDE DEF S, S2, v, v2
    <2> QED BY <1>6, <1>8, <2>1 DEF S, S2, v, v2
<1> QED BY <1>7, <1>8

\* A charge adds its share to what its user has spent, and to nobody else's.
LEMMA SpentAfterCharge ==
    ASSUME CreditsAssumption, usage \in [Messages -> Usage \cup {NoUsage}], NEW m \in Messages,
           usage[m] = NoUsage, NEW share \in Usage, usage' = [usage EXCEPT ![m] = share], NEW u
    PROVE  /\ Owner[m] = u => /\ Spent(u)' = Spent(u) + share.credits
                              /\ TokensSpent(u)' = TokensSpent(u) + share.tokens
           /\ Owner[m] # u => Spent(u)' = Spent(u) /\ TokensSpent(u)' = TokensSpent(u)
<1>1. IsFiniteSet(Messages)
    BY DEF CreditsAssumption
<1>2. ASSUME NEW field \in {"credits", "tokens"}
      PROVE  LET before == Total(Part(usage, field), Charged(usage, u))
                 after == Total(Part(usage', field), Charged(usage', u))
             IN  /\ Owner[m] = u => after = before + share[field]
                 /\ Owner[m] # u => after = before
    <2>1. Adds(usage, usage', m, share)
        BY DEF Adds, Records
    <2> QED BY <2>1, OneMoreRecord
<1>3. /\ Owner[m] = u => Spent(u)' = Spent(u) + share.credits
      /\ Owner[m] # u => Spent(u)' = Spent(u)
    <2>1. LET before == Total(Part(usage, "credits"), Charged(usage, u))
              after == Total(Part(usage', "credits"), Charged(usage', u))
          IN  /\ Owner[m] = u => after = before + share["credits"]
              /\ Owner[m] # u => after = before
        BY <1>2
    <2> QED BY <1>1, <2>1, SpentIsTotal
<1>4. /\ Owner[m] = u => TokensSpent(u)' = TokensSpent(u) + share.tokens
      /\ Owner[m] # u => TokensSpent(u)' = TokensSpent(u)
    <2>1. LET before == Total(Part(usage, "tokens"), Charged(usage, u))
              after == Total(Part(usage', "tokens"), Charged(usage', u))
          IN  /\ Owner[m] = u => after = before + share["tokens"]
              /\ Owner[m] # u => after = before
        BY <1>2
    <2> QED BY <1>1, <2>1, SpentIsTotal
<1> QED BY <1>3, <1>4

LEMMA SpentStays ==
    ASSUME IsFiniteSet(Messages), usage' = usage, NEW u
    PROVE  Spent(u)' = Spent(u) /\ TokensSpent(u)' = TokensSpent(u)
BY SpentIsTotal
-----------------------------------------------------------------------------
LEMMA MinOfTwo ==
    ASSUME NEW a \in Int, NEW b \in Int
    PROVE  Min({a, b}) \in {a, b} /\ Min({a, b}) <= a /\ Min({a, b}) <= b
<1>1. \E x \in {a, b} : \A y \in {a, b} : x <= y
    <2>1. CASE a <= b
        BY <2>1
    <2>2. CASE b <= a
        BY <2>2
    <2> QED BY <2>1, <2>2
<1>2. Min({a, b}) \in {a, b} /\ \A y \in {a, b} : Min({a, b}) <= y
    BY <1>1 DEF Min
<1> QED BY <1>2

\* The grants of a user are the expired ones and the valid ones.
LEMMA GrantsSplit ==
    ASSUME CreditsAssumption, NEW u, grants[u] \subseteq 0..MaxDay, NEW now \in 0..MaxDay
    PROVE  /\ ExpiredGrants(u, now) \in Nat /\ Protected(u, now) \in Nat
           /\ Grant * Cardinality(grants[u]) \in Nat
           /\ ExpiredGrants(u, now) + Protected(u, now) = Grant * Cardinality(grants[u])
           /\ Valid(u, now) = Protected(u, now)
<1> DEFINE G == grants[u]
           old == {d \in G : d + ValidDays <= now}
           new == {d \in G : d + ValidDays > now}
<1>0. Grant \in Nat /\ ValidDays \in Nat /\ MaxDay \in Nat
    BY DEF CreditsAssumption
<1>1. IsFiniteSet(G)
    <2>1. IsFiniteSet(0..MaxDay)
        BY <1>0, FS_Interval
    <2> QED BY <2>1, FS_Subset
<1>2. IsFiniteSet(old) /\ IsFiniteSet(new)
    BY <1>1, FS_Subset
<1>3. old \cup new = G /\ old \cap new = {}
    BY <1>0
<1>4. {d \in G : now < d + ValidDays} = new
    BY <1>0
<1> HIDE DEF old, new, G
<1>5. Cardinality(G) = Cardinality(old) + Cardinality(new) - Cardinality({})
    BY <1>2, <1>3, FS_Union
<1>6. Cardinality({}) = 0
    BY FS_EmptySet
<1>7. Cardinality(G) \in Nat /\ Cardinality(old) \in Nat /\ Cardinality(new) \in Nat
    BY <1>1, <1>2, FS_CardinalityType
<1>8. Cardinality(G) = Cardinality(old) + Cardinality(new)
    BY <1>5, <1>6, <1>7
<1>9. /\ Grant * Cardinality(old) \in Nat /\ Grant * Cardinality(new) \in Nat
      /\ Grant * Cardinality(G) \in Nat
      /\ Grant * Cardinality(G) = Grant * Cardinality(old) + Grant * Cardinality(new)
    BY <1>0, <1>7, <1>8
<1>10. /\ ExpiredGrants(u, now) = Grant * Cardinality(old)
       /\ Protected(u, now) = Grant * Cardinality(new)
       /\ Valid(u, now) = Grant * Cardinality(new)
    BY <1>4 DEF ExpiredGrants, Protected, Valid, old, new, G
<1> QED BY <1>9, <1>10 DEF G

\* What the expiry takes is there, leaves what the valid grants protect, and is all that is
\* above it when the account is what its transactions say.
LEMMA ExpireBounds ==
    ASSUME CreditsAssumption, Typed, NEW u \in Users, NEW now \in 0..MaxDay
    PROVE  LET t == ToExpire(u, now)
           IN  /\ t \in Nat /\ t <= balance[u]
               /\ t > 0 => balance[u] - t >= Valid(u, now)
               /\ balance[u] + Spent(u) + expired[u] = 2 * Grant * Cardinality(grants[u])
                    => /\ expired[u] + t + Spent(u) >= ExpiredGrants(u, now)
                       /\ t > 0 => expired[u] + t + Spent(u) <= ExpiredGrants(u, now)
<1> DEFINE b == balance[u]
           p == Protected(u, now)
           e == ExpiredGrants(u, now)
           gone == Spent(u) + expired[u]
           pending == IF e > gone THEN e - gone ELSE 0
           expirable == IF b > p THEN b - p ELSE 0
           t == ToExpire(u, now)
           all == Grant * Cardinality(grants[u])
<1>1. /\ b \in Nat /\ expired[u] \in Nat /\ grants[u] \subseteq 0..MaxDay
      /\ usage \in [Messages -> Usage \cup {NoUsage}]
    BY DEF Typed
<1>2. Spent(u) \in Nat
    BY <1>1, SpentIsNat
<1>3. gone \in Nat
    BY <1>1, <1>2
<1>4. e \in Nat /\ p \in Nat /\ all \in Nat /\ e + p = all /\ Valid(u, now) = p
    BY <1>1, GrantsSplit
<1>5. b + Spent(u) + expired[u] = b + gone
    BY <1>1, <1>2
<1>11. 2 * Grant * Cardinality(grants[u]) = 2 * all
    <2>1. IsFiniteSet(grants[u])
        <3>1. IsFiniteSet(0..MaxDay)
            BY FS_Interval DEF CreditsAssumption
        <3> QED BY <1>1, <3>1, FS_Subset
    <2>2. Cardinality(grants[u]) \in Nat /\ Grant \in Nat
        BY <2>1, FS_CardinalityType DEF CreditsAssumption
    <2> QED BY <2>2
<1>12. \A n \in Nat : expired[u] + n + Spent(u) = gone + n
    BY <1>1, <1>2
<1>6. t = Min({expirable, pending})
    BY DEF ToExpire
<1> HIDE DEF b, p, e, gone, t, all
<1>7. pending \in Nat /\ expirable \in Nat
    BY <1>1, <1>3, <1>4
<1>8. t \in {expirable, pending} /\ t <= expirable /\ t <= pending
    <2> HIDE DEF pending, expirable
    <2> QED BY <1>6, <1>7, MinOfTwo
<1>9. t \in Nat /\ t <= b /\ (t > 0 => b - t >= p)
    BY <1>1, <1>3, <1>4, <1>7, <1>8
<1>10. b + gone = 2 * all => gone + t >= e /\ (t > 0 => gone + t <= e)
    <2> SUFFICES ASSUME b + gone = 2 * all PROVE gone + t >= e /\ (t > 0 => gone + t <= e)
        OBVIOUS
    <2>1. pending <= expirable
        BY <1>1, <1>3, <1>4
    <2>2. t = pending
        BY <1>7, <1>8, <2>1
    <2> QED BY <1>3, <1>4, <2>2
<1>13. b + Spent(u) + expired[u] = 2 * Grant * Cardinality(grants[u])
         => expired[u] + t + Spent(u) >= e /\ (t > 0 => expired[u] + t + Spent(u) <= e)
    BY <1>5, <1>9, <1>10, <1>11, <1>12
<1> QED BY <1>4, <1>9, <1>13 DEF b, e, t
-----------------------------------------------------------------------------
\* The inductive invariant: besides the types, what an account that the expiry has locked will
\* lose is still what it would lose now; an account is what its transactions say, every check-in
\* counted twice, and its tokens are what its charges took; every charge paid its bill; and
\* a generation that was admitted and not disturbed can still be paid.
TookIsExact ==
    /\ expiry.st = "idle" => DOMAIN expiry.took = {}
    /\ \A u \in DOMAIN expiry.took : expiry.took[u] = ToExpire(u, expiry.now)

AccountIsLedger(u) ==
    balance[u] + Spent(u) + expired[u] = 2 * Grant * Cardinality(grants[u])
TokensAreSpent(u) == used[u] = TokensSpent(u)
LedgerKept ==
    \A u \in Users : AccountIsLedger(u) /\ TokensAreSpent(u)

AllPaid == \A m \in Messages : usage[m] # NoUsage => PaysItsValue(usage[m])

CanPay(credits, tokens, est) ==
    (IF tokens >= MaxTokens THEN 0 ELSE MaxTokens - tokens) + credits * Ratio >= est * Ratio
AdmittedCanPay ==
    \A m \in Messages :
        (gen[m].st = "admitted" /\ gen[m].quiet) =>
            CanPay(balance[Owner[m]], used[Owner[m]], gen[m].est)

CreditsInv == Typed /\ TookIsExact /\ LedgerKept /\ AllPaid /\ AdmittedCanPay

LEMMA NoTakings ==
    /\ [u \in {} |-> 0] \in Takings /\ DOMAIN [u \in {} |-> 0] = {}
    /\ \A f \in Takings : DOMAIN f \subseteq Users /\ \A u \in DOMAIN f : f[u] \in Nat
<1>1. [u \in {} |-> 0] \in [{} -> Nat] /\ {} \in SUBSET Users
    OBVIOUS
<1> QED BY <1>1 DEF Takings

LEMMA InitTyped ==
    ASSUME CreditsAssumption, Init
    PROVE  Typed
<1>1. 0 \in 0..MaxDay /\ 0 \in 0..MaxTokens
    BY DEF CreditsAssumption
<1>2. [st |-> "none", est |-> 0, bill |-> 0, quiet |-> TRUE] \in GenRow
    BY DEF GenRow, GenStatus
<1>3. gen \in [Messages -> GenRow]
    BY <1>2 DEF Init
<1>4. expiry \in ExpiryRun
    BY <1>1, NoTakings DEF Init, ExpiryRun
<1> QED BY <1>1, <1>3, <1>4 DEF Init, Typed

LEMMA CreditsInit ==
    ASSUME CreditsAssumption, Init
    PROVE  CreditsInv
<1>1. Typed
    BY InitTyped
<1>2. TookIsExact
    BY NoTakings DEF TookIsExact, Init
<1>3. ASSUME NEW u \in Users PROVE Spent(u) = 0 /\ TokensSpent(u) = 0
    <2>1. Charged(usage, u) = {}
        BY DEF Charged, Init
    <2>2. \A v : Total(v, {}) = 0
        BY FS_EmptySet, TotalSteps
    <2>3. IsFiniteSet(Messages)
        BY DEF CreditsAssumption
    <2> QED BY <2>1, <2>2, <2>3, SpentIsTotal
<1>4. LedgerKept
    <2>1. ASSUME NEW u \in Users
          PROVE  /\ balance[u] = 0 /\ used[u] = 0 /\ expired[u] = 0
                 /\ 2 * Grant * Cardinality(grants[u]) = 0
        <3>1. Cardinality(grants[u]) = 0
            BY FS_EmptySet DEF Init
        <3> QED BY <3>1 DEF Init, CreditsAssumption
    <2>2. ASSUME NEW u \in Users PROVE AccountIsLedger(u) /\ TokensAreSpent(u)
        BY <1>3, <2>1 DEF AccountIsLedger, TokensAreSpent
    <2> QED BY <2>2 DEF LedgerKept
<1>5. AllPaid
    BY DEF AllPaid, Init
<1>6. AdmittedCanPay
    BY DEF AdmittedCanPay, Init
<1> QED BY <1>1, <1>2, <1>4, <1>5, <1>6 DEF CreditsInv
-----------------------------------------------------------------------------
\* What an action that leaves the accounts alone keeps.
LEMMA ToExpireStays ==
    ASSUME NEW u, expiry'.now = expiry.now, Spent(u)' = Spent(u), balance'[u] = balance[u],
           expired'[u] = expired[u], grants'[u] = grants[u]
    PROVE  ToExpire(u, expiry.now)' = ToExpire(u, expiry.now)
BY DEF ToExpire, ExpiredGrants, Protected

LEMMA TookStays ==
    ASSUME TookIsExact, expiry'.st = expiry.st, expiry'.now = expiry.now,
           expiry'.took = expiry.took,
           \A u \in DOMAIN expiry.took :
               /\ Spent(u)' = Spent(u) /\ balance'[u] = balance[u]
               /\ expired'[u] = expired[u] /\ grants'[u] = grants[u]
    PROVE  TookIsExact'
<1>1. ASSUME NEW u \in DOMAIN expiry.took
      PROVE  ToExpire(u, expiry.now)' = ToExpire(u, expiry.now)
    BY ToExpireStays
<1> QED BY <1>1 DEF TookIsExact

LEMMA NotTaken ==
    ASSUME TookIsExact, Typed, NEW u, ~Locked(u)
    PROVE  u \notin DOMAIN expiry.took
BY DEF TookIsExact, Locked, Typed, ExpiryRun

LEMMA LedgerStays ==
    ASSUME CreditsAssumption, LedgerKept, AllPaid,
           UNCHANGED <<balance, used, grants, expired, usage>>
    PROVE  LedgerKept' /\ AllPaid'
<1>1. IsFiniteSet(Messages)
    BY DEF CreditsAssumption
<1>2. ASSUME NEW u \in Users
      PROVE  AccountIsLedger(u)' /\ TokensAreSpent(u)'
    BY <1>1, SpentStays DEF LedgerKept, AccountIsLedger, TokensAreSpent
<1> QED BY <1>2 DEF LedgerKept, AllPaid

LEMMA AdmittedStays ==
    ASSUME AdmittedCanPay, UNCHANGED <<balance, used, gen>>
    PROVE  AdmittedCanPay'
BY DEF AdmittedCanPay

\* An action that touches neither accounts nor generations keeps all but the types.
LEMMA AccountsStay ==
    ASSUME CreditsAssumption, CreditsInv, Typed',
           UNCHANGED <<balance, used, grants, expired, usage, gen>>,
           expiry'.st = expiry.st, expiry'.now = expiry.now, expiry'.took = expiry.took
    PROVE  CreditsInv'
<1>1. IsFiniteSet(Messages)
    BY DEF CreditsAssumption
<1>2. TookIsExact'
    BY <1>1, SpentStays, TookStays DEF CreditsInv
<1> QED BY <1>2, LedgerStays, AdmittedStays DEF CreditsInv

LEMMA NewDayStep ==
    ASSUME CreditsAssumption, CreditsInv, NewDay
    PROVE  CreditsInv'
<1>1. Typed'
    BY DEF CreditsInv, Typed, NewDay, CreditsAssumption
<1> QED BY <1>1, AccountsStay DEF NewDay

LEMMA ReadChargeStep ==
    ASSUME CreditsAssumption, CreditsInv, NEW w \in Workers, NEW m \in Messages, ReadCharge(w, m)
    PROVE  CreditsInv'
<1>1. Typed'
    BY DEF CreditsInv, Typed, ReadCharge
<1> QED BY <1>1, AccountsStay DEF ReadCharge

\* One field of the expiry's row at a time.
LEMMA RunWith ==
    ASSUME NEW e \in ExpiryRun, NEW x
    PROVE  /\ x \in SUBSET Users =>
                LET r == [e EXCEPT !.todo = x]
                IN  /\ r \in ExpiryRun /\ r.st = e.st /\ r.now = e.now /\ r.todo = x
                    /\ r.took = e.took /\ r.faults = e.faults
           /\ x \in Nat =>
                LET r == [e EXCEPT !.faults = x]
                IN  /\ r \in ExpiryRun /\ r.st = e.st /\ r.now = e.now /\ r.todo = e.todo
                    /\ r.took = e.took /\ r.faults = x
           /\ x \in Takings =>
                LET r == [e EXCEPT !.took = x]
                IN  /\ r \in ExpiryRun /\ r.st = e.st /\ r.now = e.now /\ r.todo = e.todo
                    /\ r.took = x /\ r.faults = e.faults
           /\ x \in 0..MaxDay =>
                LET r == [e EXCEPT !.now = x]
                IN  /\ r \in ExpiryRun /\ r.st = e.st /\ r.now = x /\ r.todo = e.todo
                    /\ r.took = e.took /\ r.faults = e.faults
           /\ x \in {"idle", "running"} =>
                LET r == [e EXCEPT !.st = x]
                IN  /\ r \in ExpiryRun /\ r.st = x /\ r.now = e.now /\ r.todo = e.todo
                    /\ r.took = e.took /\ r.faults = e.faults
<1>1. x \in SUBSET Users =>
        LET r == [e EXCEPT !.todo = x]
        IN  /\ r \in ExpiryRun /\ r.st = e.st /\ r.now = e.now /\ r.todo = x
            /\ r.took = e.took /\ r.faults = e.faults
    BY DEF ExpiryRun
<1>2. x \in Nat =>
        LET r == [e EXCEPT !.faults = x]
        IN  /\ r \in ExpiryRun /\ r.st = e.st /\ r.now = e.now /\ r.todo = e.todo
            /\ r.took = e.took /\ r.faults = x
    BY DEF ExpiryRun
<1>3. x \in Takings =>
        LET r == [e EXCEPT !.took = x]
        IN  /\ r \in ExpiryRun /\ r.st = e.st /\ r.now = e.now /\ r.todo = e.todo
            /\ r.took = x /\ r.faults = e.faults
    BY DEF ExpiryRun
<1>4. x \in 0..MaxDay =>
        LET r == [e EXCEPT !.now = x]
        IN  /\ r \in ExpiryRun /\ r.st = e.st /\ r.now = x /\ r.todo = e.todo
            /\ r.took = e.took /\ r.faults = e.faults
    BY DEF ExpiryRun
<1>5. x \in {"idle", "running"} =>
        LET r == [e EXCEPT !.st = x]
        IN  /\ r \in ExpiryRun /\ r.st = x /\ r.now = e.now /\ r.todo = e.todo
            /\ r.took = e.took /\ r.faults = e.faults
    BY DEF ExpiryRun
<1> QED BY <1>1, <1>2, <1>3, <1>4, <1>5

LEMMA SkipAccountStep ==
    ASSUME CreditsAssumption, CreditsInv, NEW u \in Users, SkipAccount(u)
    PROVE  CreditsInv'
<1> DEFINE left == expiry.todo \ {u}
           e1 == [expiry EXCEPT !.todo = left]
           more == e1.faults + 1
           e2 == [e1 EXCEPT !.faults = more]
<1>1. expiry \in ExpiryRun /\ left \in SUBSET Users
    BY DEF CreditsInv, Typed, ExpiryRun
<1>2. /\ e1 \in ExpiryRun /\ e1.st = expiry.st /\ e1.now = expiry.now
      /\ e1.took = expiry.took /\ e1.faults = expiry.faults
    <2> HIDE DEF left
    <2> QED BY ZenonT(60), <1>1, RunWith
<1>3. more \in Nat
    BY <1>2 DEF ExpiryRun
<1>4. e2 \in ExpiryRun /\ e2.st = e1.st /\ e2.now = e1.now /\ e2.took = e1.took
    <2> HIDE DEF e1, more
    <2> QED BY <1>2, <1>3, RunWith
<1>5. expiry' = e2
    BY <1>1, <1>2 DEF SkipAccount, ExpiryRun
<1>6. /\ expiry' \in ExpiryRun
      /\ expiry'.st = expiry.st /\ expiry'.now = expiry.now /\ expiry'.took = expiry.took
    <2> HIDE DEF e1, e2
    <2> QED BY <1>2, <1>4, <1>5
<1>7. Typed'
    BY <1>6 DEF CreditsInv, Typed, SkipAccount
<1> QED BY <1>6, <1>7, AccountsStay DEF SkipAccount

LEMMA AdmitStep ==
    ASSUME CreditsAssumption, CreditsInv, NEW m \in Messages, NEW est \in Estimates, Admit(m, est)
    PROVE  CreditsInv'
<1> DEFINE row == [st |-> "admitted", est |-> est, bill |-> 0, quiet |-> TRUE]
<1>1. gen' = [gen EXCEPT ![m] = row] /\ row \in GenRow /\ Sufficient(Owner[m], est)
    BY DEF Admit, GenRow, GenStatus, CreditsAssumption
<1>2. row.est = est
    OBVIOUS
<1> HIDE DEF row
<1>3. Typed'
    BY <1>1 DEF CreditsInv, Typed, Admit
<1>4. IsFiniteSet(Messages)
    BY DEF CreditsAssumption
<1>5. TookIsExact'
    BY <1>4, SpentStays, TookStays DEF CreditsInv, Admit
<1>6. LedgerKept' /\ AllPaid'
    BY LedgerStays DEF CreditsInv, Admit
<1>7. AdmittedCanPay'
    <2>1. balance' = balance /\ used' = used /\ gen \in [Messages -> GenRow]
        BY DEF Admit, CreditsInv, Typed
    <2>2. gen'[m] = row /\ \A n \in Messages \ {m} : gen'[n] = gen[n]
        BY <1>1, <2>1
    <2>3. CanPay(balance[Owner[m]], used[Owner[m]], est)
        BY <1>1 DEF CanPay, Sufficient, Remaining
    <2>4. ASSUME NEW n \in Messages, gen'[n].st = "admitted", gen'[n].quiet
          PROVE  CanPay(balance'[Owner[n]], used'[Owner[n]], gen'[n].est)
        <3>1. CASE n = m
            BY <1>2, <2>1, <2>2, <2>3, <3>1
        <3>2. CASE n # m
            BY <2>1, <2>2, <2>4, <3>2 DEF CreditsInv, AdmittedCanPay
        <3> QED BY <3>1, <3>2
    <2> QED BY <2>4 DEF AdmittedCanPay
<1> QED BY <1>3, <1>5, <1>6, <1>7 DEF CreditsInv
-----------------------------------------------------------------------------
LEMMA CanPayMore ==
    ASSUME CreditsAssumption, NEW b \in Nat, NEW c \in Nat, b <= c, NEW t \in Nat, NEW est \in Nat,
           CanPay(b, t, est)
    PROVE  CanPay(c, t, est)
<1>1. Ratio \in Nat \ {0} /\ MaxTokens \in Nat
    BY DEF CreditsAssumption
<1>2. b * Ratio <= c * Ratio /\ b * Ratio \in Nat /\ c * Ratio \in Nat /\ est * Ratio \in Nat
    BY <1>1, Times
<1> DEFINE br == b * Ratio
           cr == c * Ratio
           er == est * Ratio
           rest == IF t >= MaxTokens THEN 0 ELSE MaxTokens - t
<1>3. rest \in Nat /\ rest + br >= er
    BY <1>1 DEF CanPay
<1>4. rest + cr >= er
    <2> HIDE DEF rest, br, cr, er
    <2>1. br <= cr /\ br \in Nat /\ cr \in Nat /\ er \in Nat
        BY <1>2 DEF br, cr, er
    <2> QED BY <1>3, <2>1
<1> QED BY <1>4 DEF CanPay

LEMMA CheckInStep ==
    ASSUME CreditsAssumption, CreditsInv, NEW u \in Users, CheckIn(u)
    PROVE  CreditsInv'
<1> DEFINE loaded == balance[u] + Grant
<1>1. Typed /\ TookIsExact /\ LedgerKept /\ AllPaid /\ AdmittedCanPay
    BY DEF CreditsInv
<1>2. /\ Grant \in Nat /\ IsFiniteSet(Messages) /\ MaxDay \in Nat
      /\ Owner \in [Messages -> Users]
    BY DEF CreditsAssumption
<1>3. /\ balance' = [balance EXCEPT ![u] = loaded + Grant]
      /\ grants' = [grants EXCEPT ![u] = @ \cup {day}] /\ day \notin grants[u]
      /\ UNCHANGED <<day, used, expired, usage, gen, work, expiry>>
      /\ u \notin DOMAIN expiry.took
    BY <1>1, NotTaken DEF CheckIn
<1>4. /\ balance[u] \in Nat /\ loaded + Grant \in Nat /\ balance[u] <= loaded + Grant
      /\ loaded + Grant = balance[u] + 2 * Grant
    BY <1>1, <1>2 DEF Typed
<1> HIDE DEF loaded
<1>5. Typed'
    BY <1>1, <1>3, <1>4 DEF Typed
<1>6. /\ balance'[u] = loaded + Grant /\ grants'[u] = grants[u] \cup {day}
      /\ \A v \in Users \ {u} : balance'[v] = balance[v] /\ grants'[v] = grants[v]
    BY <1>1, <1>3 DEF Typed
<1>7. TookIsExact'
    <2>1. DOMAIN expiry.took \subseteq Users \ {u}
        BY <1>1, <1>3, NoTakings DEF Typed, ExpiryRun
    <2> QED BY <1>1, <1>2, <1>3, <1>6, <2>1, SpentStays, TookStays
<1>8. LedgerKept'
    <2>1. \A v \in Users : Spent(v)' = Spent(v) /\ TokensSpent(v)' = TokensSpent(v)
        BY <1>2, <1>3, SpentStays
    <2>2. AccountIsLedger(u)'
        <3>1. IsFiniteSet(grants[u])
            <4>1. IsFiniteSet(0..MaxDay)
                BY <1>2, FS_Interval
            <4>2. grants[u] \subseteq 0..MaxDay
                BY <1>1 DEF Typed
            <4> QED BY <4>1, <4>2, FS_Subset
        <3>2. Cardinality(grants[u]) \in Nat
            BY <3>1, FS_CardinalityType
        <3>3. Cardinality(grants'[u]) = Cardinality(grants[u]) + 1
            BY <1>3, <1>6, <3>1, FS_AddElement
        <3>4. 2 * Grant * Cardinality(grants'[u]) = 2 * Grant * Cardinality(grants[u]) + 2 * Grant
            BY <1>2, <3>2, <3>3
        <3>5. /\ Spent(u) \in Nat /\ expired[u] \in Nat /\ expired'[u] = expired[u]
              /\ 2 * Grant * Cardinality(grants[u]) \in Nat
            BY <1>1, <1>2, <1>3, <3>2, SpentIsNat DEF Typed
        <3>6. balance[u] + Spent(u) + expired[u] = 2 * Grant * Cardinality(grants[u])
            BY <1>1 DEF LedgerKept, AccountIsLedger
        <3>7. Spent(u)' = Spent(u) /\ balance'[u] = balance[u] + 2 * Grant
            BY <1>4, <1>6, <2>1
        <3> QED BY <1>2, <1>4, <3>4, <3>5, <3>6, <3>7 DEF AccountIsLedger
    <2>3. ASSUME NEW v \in Users \ {u} PROVE AccountIsLedger(v)'
        BY <1>1, <1>3, <1>6, <2>1, <2>3 DEF LedgerKept, AccountIsLedger
    <2>4. ASSUME NEW v \in Users PROVE TokensAreSpent(v)'
        BY <1>1, <1>3, <2>1 DEF LedgerKept, TokensAreSpent
    <2> QED BY <2>2, <2>3, <2>4 DEF LedgerKept
<1>9. AllPaid'
    BY <1>1, <1>3 DEF AllPaid
<1>10. AdmittedCanPay'
    <2>1. ASSUME NEW m \in Messages, gen'[m].st = "admitted", gen'[m].quiet
          PROVE  CanPay(balance'[Owner[m]], used'[Owner[m]], gen'[m].est)
        <3>1. Owner[m] \in Users /\ used'[Owner[m]] = used[Owner[m]] /\ gen'[m] = gen[m]
            BY <1>2, <1>3
        <3>2. CanPay(balance[Owner[m]], used[Owner[m]], gen[m].est)
            BY <1>1, <2>1, <3>1 DEF AdmittedCanPay
        <3>3. /\ balance[Owner[m]] \in Nat /\ balance'[Owner[m]] \in Nat
              /\ balance[Owner[m]] <= balance'[Owner[m]]
            BY <1>1, <1>4, <1>6, <3>1 DEF Typed
        <3>4. used[Owner[m]] \in Nat /\ gen[m].est \in Nat
            BY <1>1, <3>1 DEF Typed, GenRow
        <3> QED BY <3>1, <3>2, <3>3, <3>4, CanPayMore
    <2> QED BY <2>1 DEF AdmittedCanPay
<1> QED BY <1>5, <1>7, <1>8, <1>9, <1>10 DEF CreditsInv
-----------------------------------------------------------------------------
\* A charge that comes second changes nothing but the worker.
LEMMA SecondChargeStep ==
    ASSUME CreditsAssumption, CreditsInv, NEW w \in Workers, work[w] # NoMessage,
           work' = [work EXCEPT ![w] = NoMessage],
           UNCHANGED <<day, balance, used, grants, expired, usage, gen, expiry>>
    PROVE  CreditsInv'
<1>1. Typed'
    BY DEF CreditsInv, Typed
<1> QED BY <1>1, AccountsStay

\* One that the user cannot pay ends the generation and leaves the account alone.
LEMMA RefusedChargeStep ==
    ASSUME CreditsAssumption, CreditsInv, NEW w \in Workers, NEW bill \in Bills,
           NEW m \in Messages, work' = [work EXCEPT ![w] = NoMessage],
           gen' = [gen EXCEPT ![m].st = "refused", ![m].bill = bill],
           UNCHANGED <<day, balance, used, grants, expired, usage, expiry>>
    PROVE  CreditsInv'
<1> DEFINE ended == [gen[m] EXCEPT !.st = "refused"]
           row == [ended EXCEPT !.bill = bill]
<1>1. Typed /\ TookIsExact /\ LedgerKept /\ AllPaid /\ AdmittedCanPay
    BY DEF CreditsInv
<1>2. IsFiniteSet(Messages) /\ bill \in Nat
    BY DEF CreditsAssumption
<1>3. gen \in [Messages -> GenRow] /\ gen[m] \in GenRow
    BY <1>1 DEF Typed
<1>4. ended \in GenRow /\ ended.st = "refused"
    BY <1>3 DEF GenRow, GenStatus
<1>5. row \in GenRow /\ row.st = "refused"
    <2> HIDE DEF ended
    <2> QED BY <1>2, <1>4 DEF GenRow, GenStatus
<1>6. gen' = [gen EXCEPT ![m] = row]
    BY <1>3
<1> HIDE DEF ended, row
<1>7. Typed'
    BY <1>1, <1>5, <1>6 DEF Typed
<1>8. TookIsExact'
    BY <1>1, <1>2, SpentStays, TookStays
<1>9. LedgerKept' /\ AllPaid'
    BY <1>1, LedgerStays
<1>10. AdmittedCanPay'
    BY <1>1, <1>3, <1>5, <1>6 DEF AdmittedCanPay
<1> QED BY <1>7, <1>8, <1>9, <1>10 DEF CreditsInv

\* One that is paid: the account, the record and the generations of the user.
Pays(w, bill, m, u, share) ==
    /\ usage[m] = NoUsage
    /\ used[u] + share.tokens <= MaxTokens \/ share.tokens = 0
    /\ work' = [work EXCEPT ![w] = NoMessage]
    /\ balance' = [balance EXCEPT ![u] = @ - share.credits]
    /\ used' = [used EXCEPT ![u] = @ + share.tokens]
    /\ usage' = [usage EXCEPT ![m] = share]
    /\ gen' = [n \in Messages |->
                  IF n = m THEN [gen[m] EXCEPT !.st = "charged", !.bill = bill]
                  ELSE IF Owner[n] = u THEN [gen[n] EXCEPT !.quiet = FALSE]
                  ELSE gen[n]]
    /\ UNCHANGED <<day, grants, expired, expiry>>

LEMMA PaidChargeStep ==
    ASSUME CreditsAssumption, CreditsInv, NEW w \in Workers, NEW bill \in Bills,
           NEW m \in Messages, NEW u \in Users, u = Owner[m], ~Locked(u),
           NEW share, share = Share(u, bill), Pays(w, bill, m, u, share)
    PROVE  CreditsInv'
<1> USE DEF Pays
<1>1. Typed /\ TookIsExact /\ LedgerKept /\ AllPaid /\ AdmittedCanPay
    BY DEF CreditsInv
<1>2. /\ IsFiniteSet(Messages) /\ bill \in Nat /\ MaxTokens \in Nat
      /\ Owner \in [Messages -> Users]
    BY DEF CreditsAssumption
<1>3. balance[u] \in Nat /\ used[u] \in 0..MaxTokens /\ usage \in [Messages -> Usage \cup {NoUsage}]
    BY <1>1 DEF Typed
<1>4. share \in Usage /\ share.credits <= balance[u] /\ PaysItsValue(share)
    BY <1>3, SharePays
<1>5. share.credits \in Nat /\ share.tokens \in Nat
    BY <1>4 DEF Usage
<1>6. /\ balance'[u] = balance[u] - share.credits /\ used'[u] = used[u] + share.tokens
      /\ balance[u] - share.credits \in Nat /\ used[u] + share.tokens \in 0..MaxTokens
      /\ \A v \in Users \ {u} : balance'[v] = balance[v] /\ used'[v] = used[v]
    BY <1>1, <1>2, <1>3, <1>4, <1>5 DEF Typed
<1>7. gen' \in [Messages -> GenRow]
    <2> DEFINE paid == [gen[m] EXCEPT !.st = "charged", !.bill = bill]
    <2>1. paid \in GenRow
        BY <1>1, <1>2 DEF Typed, GenRow, GenStatus
    <2>2. ASSUME NEW n \in Messages PROVE [gen[n] EXCEPT !.quiet = FALSE] \in GenRow /\ gen[n] \in GenRow
        <3>1. gen[n] \in GenRow
            BY <1>1 DEF Typed
        <3> QED BY <3>1 DEF GenRow
    <2>3. ASSUME NEW n \in Messages PROVE gen'[n] \in GenRow
        <3>1. CASE n = m
            BY <2>1, <3>1
        <3>2. CASE n # m /\ Owner[n] = u
            BY <2>2, <3>2
        <3>3. CASE n # m /\ Owner[n] # u
            BY <2>2, <3>3
        <3> QED BY <3>1, <3>2, <3>3
    <2> QED BY <2>3
<1>8. Typed'
    <2>1. balance' \in [Users -> Nat] /\ used' \in [Users -> 0..MaxTokens]
        BY <1>1, <1>6 DEF Typed
    <2>2. usage' \in [Messages -> Usage \cup {NoUsage}]
        BY <1>3, <1>4
    <2>3. work' \in [Workers -> Messages \cup {NoMessage}]
        BY <1>1 DEF Typed
    <2> QED BY <1>1, <1>7, <2>1, <2>2, <2>3 DEF Typed
<1>9. /\ Spent(u)' = Spent(u) + share.credits
      /\ TokensSpent(u)' = TokensSpent(u) + share.tokens
    BY <1>3, <1>4, SpentAfterCharge
<1>10. \A v \in Users \ {u} : Spent(v)' = Spent(v) /\ TokensSpent(v)' = TokensSpent(v)
    BY <1>3, <1>4, SpentAfterCharge
<1>11. TookIsExact'
    <2>1. DOMAIN expiry.took \subseteq Users \ {u}
        BY <1>1, NotTaken, NoTakings DEF Typed, ExpiryRun
    <2> QED BY <1>1, <1>6, <1>10, <2>1, TookStays
<1>12. LedgerKept'
    <2>1. Spent(u) \in Nat /\ TokensSpent(u) \in Nat /\ expired[u] \in Nat
        BY <1>1, <1>3, SpentIsNat DEF Typed
    <2>2. AccountIsLedger(u)'
        <3>1. balance[u] + Spent(u) + expired[u] = 2 * Grant * Cardinality(grants[u])
            BY <1>1 DEF LedgerKept, AccountIsLedger
        <3>2. balance'[u] + Spent(u)' + expired'[u] = balance[u] + Spent(u) + expired[u]
            BY <1>3, <1>5, <1>6, <1>9, <2>1
        <3> QED BY <3>1, <3>2 DEF AccountIsLedger
    <2>3. TokensAreSpent(u)'
        BY <1>1, <1>6, <1>9 DEF LedgerKept, TokensAreSpent
    <2>4. ASSUME NEW v \in Users \ {u}
          PROVE  AccountIsLedger(v)' /\ TokensAreSpent(v)'
        BY <1>1, <1>6, <1>10 DEF LedgerKept, AccountIsLedger, TokensAreSpent
    <2> QED BY <2>2, <2>3, <2>4 DEF LedgerKept
<1>13. AllPaid'
    <2>1. usage'[m] = share /\ \A n \in Messages \ {m} : usage'[n] = usage[n]
        BY <1>3
    <2> QED BY <1>1, <1>4, <2>1 DEF AllPaid
<1>14. AdmittedCanPay'
    <2>1. ASSUME NEW n \in Messages, gen'[n].st = "admitted", gen'[n].quiet
          PROVE  CanPay(balance'[Owner[n]], used'[Owner[n]], gen'[n].est)
        <3>1. gen[m] \in GenRow /\ gen[n] \in GenRow
            BY <1>1 DEF Typed
        <3>2. n # m
            BY <2>1, <3>1 DEF GenRow
        <3>3. Owner[n] # u
            BY <2>1, <3>1, <3>2 DEF GenRow
        <3>4. gen'[n] = gen[n] /\ Owner[n] \in Users
            BY <1>2, <3>2, <3>3
        <3> QED BY <1>1, <1>6, <2>1, <3>3, <3>4 DEF AdmittedCanPay
    <2> QED BY <2>1 DEF AdmittedCanPay
<1> QED BY <1>8, <1>11, <1>12, <1>13, <1>14 DEF CreditsInv

LEMMA ChargeStep ==
    ASSUME CreditsAssumption, CreditsInv, NEW w \in Workers, NEW bill \in Bills, Charge(w, bill)
    PROVE  CreditsInv'
<1> DEFINE m == work[w]
           u == Owner[m]
           share == Share(u, bill)
<1>1. m \in Messages /\ m # NoMessage /\ ~Locked(u) /\ u \in Users
    BY DEF Charge, CreditsInv, Typed, CreditsAssumption
<1>2. work' = [work EXCEPT ![w] = NoMessage] /\ UNCHANGED <<day, grants, expired, expiry>>
    BY DEF Charge
<1>3. \/ UNCHANGED <<balance, used, usage, gen>>
      \/ /\ gen' = [gen EXCEPT ![m].st = "refused", ![m].bill = bill]
         /\ UNCHANGED <<balance, used, usage>>
      \/ Pays(w, bill, m, u, share)
    BY Zenon DEF Charge, Uncharged, Pays
<1>4. u = Owner[m] /\ share = Share(u, bill)
    OBVIOUS
<1> HIDE DEF m, u, share
<1>5. CASE UNCHANGED <<balance, used, usage, gen>>
    BY <1>1, <1>2, <1>5, SecondChargeStep DEF m
<1>6. CASE /\ gen' = [gen EXCEPT ![m].st = "refused", ![m].bill = bill]
           /\ UNCHANGED <<balance, used, usage>>
    BY <1>1, <1>2, <1>6, RefusedChargeStep
<1>7. CASE Pays(w, bill, m, u, share)
    BY <1>1, <1>4, <1>7, PaidChargeStep
<1> QED BY <1>3, <1>5, <1>6, <1>7
-----------------------------------------------------------------------------
LEMMA StartExpiryStep ==
    ASSUME CreditsAssumption, CreditsInv, StartExpiry
    PROVE  CreditsInv'
<1> DEFINE due == {u \in Users : ExpiredGrants(u, day) > 0}
           e1 == [expiry EXCEPT !.st = "running"]
           e2 == [e1 EXCEPT !.now = day]
           e3 == [e2 EXCEPT !.todo = due]
<1>1. /\ expiry \in ExpiryRun /\ due \in SUBSET Users /\ day \in 0..MaxDay
      /\ DOMAIN expiry.took = {}
    BY DEF CreditsInv, Typed, TookIsExact, StartExpiry
<1>2. e1 \in ExpiryRun /\ e1.took = expiry.took
    BY <1>1, RunWith
<1>3. e2 \in ExpiryRun /\ e2.took = e1.took
    <2> HIDE DEF e1
    <2> QED BY <1>1, <1>2, RunWith
<1>4. e3 \in ExpiryRun /\ e3.st = e2.st /\ e3.took = e2.took
    <2> HIDE DEF e2, due
    <2> QED BY <1>1, <1>3, RunWith
<1>5. e1.st = "running" /\ e2.st = e1.st
    <2>1. e1.st = "running"
        BY <1>1, RunWith
    <2> HIDE DEF e1
    <2> QED BY <1>1, <1>2, <2>1, RunWith
<1>6. expiry' = e3
    BY <1>1 DEF StartExpiry, ExpiryRun
<1>7. expiry' \in ExpiryRun /\ expiry'.st = "running" /\ DOMAIN expiry'.took = {}
    <2> HIDE DEF e1, e2, e3
    <2> QED BY <1>1, <1>2, <1>3, <1>4, <1>5, <1>6
<1>8. Typed'
    BY <1>7 DEF CreditsInv, Typed, StartExpiry
<1>9. TookIsExact'
    BY <1>7 DEF TookIsExact
<1>10. LedgerKept' /\ AllPaid' /\ AdmittedCanPay'
    BY LedgerStays, AdmittedStays DEF CreditsInv, StartExpiry
<1> QED BY <1>8, <1>9, <1>10 DEF CreditsInv

LEMMA ExpireAccountStep ==
    ASSUME CreditsAssumption, CreditsInv, NEW u \in Users, ExpireAccount(u)
    PROVE  CreditsInv'
<1> DEFINE left == expiry.todo \ {u}
           amount == ToExpire(u, expiry.now)
           taken == [v \in DOMAIN expiry.took \cup {u} |->
                        IF v = u THEN amount ELSE expiry.took[v]]
           e1 == [expiry EXCEPT !.todo = left]
           e2 == [e1 EXCEPT !.took = taken]
<1>1. /\ expiry \in ExpiryRun /\ left \in SUBSET Users /\ expiry.now \in 0..MaxDay
      /\ expiry.took \in Takings /\ expiry.st = "running"
    BY DEF CreditsInv, Typed, ExpiryRun, ExpireAccount
<1>2. amount \in Nat
    BY <1>1, ExpireBounds DEF CreditsInv
<1>3. taken \in Takings
    <2>1. DOMAIN expiry.took \subseteq Users /\ \A v \in DOMAIN expiry.took : expiry.took[v] \in Nat
        BY <1>1, NoTakings
    <2> HIDE DEF amount
    <2>2. taken \in [DOMAIN expiry.took \cup {u} -> Nat]
        BY <1>2, <2>1
    <2> HIDE DEF taken
    <2>3. DOMAIN expiry.took \cup {u} \in SUBSET Users
        BY <2>1
    <2> QED BY <2>2, <2>3 DEF Takings
<1>4. e1 \in ExpiryRun /\ e1.st = expiry.st /\ e1.now = expiry.now
    <2> HIDE DEF left
    <2> QED BY <1>1, RunWith
<1>5. e2 \in ExpiryRun /\ e2.st = e1.st /\ e2.now = e1.now /\ e2.took = taken
    <2> HIDE DEF e1, taken
    <2> QED BY ZenonT(60), <1>3, <1>4, RunWith
<1>6. expiry' = e2
    <2> HIDE DEF amount
    <2>1. expiry' = [expiry EXCEPT !.todo = left, !.took = taken]
        BY DEF ExpireAccount, amount
    <2> HIDE DEF left, taken
    <2> QED BY <1>1, <2>1 DEF ExpiryRun
<1>7. /\ expiry' \in ExpiryRun /\ expiry'.st = "running" /\ expiry'.now = expiry.now
      /\ expiry'.took = taken
    <2> HIDE DEF e1, e2, taken
    <2> QED BY <1>1, <1>4, <1>5, <1>6
<1>8. Typed'
    BY <1>7 DEF CreditsInv, Typed, ExpireAccount
<1>9. TookIsExact'
    <2>1. IsFiniteSet(Messages)
        BY DEF CreditsAssumption
    <2>2. ASSUME NEW v PROVE ToExpire(v, expiry.now)' = ToExpire(v, expiry.now)
        BY <1>7, <2>1, SpentStays, ToExpireStays DEF ExpireAccount
    <2>3. ASSUME NEW v \in DOMAIN expiry'.took
          PROVE  expiry'.took[v] = ToExpire(v, expiry.now)
        BY <1>7, <2>3 DEF CreditsInv, TookIsExact
    <2> HIDE DEF taken
    <2> QED BY <1>7, <2>2, <2>3 DEF TookIsExact
<1>10. LedgerKept' /\ AllPaid' /\ AdmittedCanPay'
    BY LedgerStays, AdmittedStays DEF CreditsInv, ExpireAccount
<1> QED BY <1>8, <1>9, <1>10 DEF CreditsInv

\* What a run leaves when it is over.
LEMMA EndedRow ==
    ASSUME expiry \in ExpiryRun, CreditsAssumption
    PROVE  Ended \in ExpiryRun /\ Ended.st = "idle" /\ DOMAIN Ended.took = {}
<1> DEFINE e1 == [expiry EXCEPT !.st = "idle"]
           e2 == [e1 EXCEPT !.todo = {}]
           none == [u \in {} |-> 0]
           e3 == [e2 EXCEPT !.took = none]
           e4 == [e3 EXCEPT !.now = 0]
<1>0. DOMAIN none = {} /\ 0 \in 0..MaxDay
    BY DEF CreditsAssumption
<1>1. none \in Takings
    BY NoTakings
<1>2. Ended = e4
    BY DEF Ended, ExpiryRun
<1> HIDE DEF none
<1>3. e1 \in ExpiryRun /\ e1.st = "idle"
    BY ZenonT(60), RunWith
<1>4. e2 \in ExpiryRun /\ e2.st = e1.st
    <2> HIDE DEF e1
    <2> QED BY <1>3, RunWith
<1>5. e3 \in ExpiryRun /\ e3.st = e2.st /\ e3.took = none
    <2> HIDE DEF e2
    <2> QED BY ZenonT(60), <1>1, <1>4, RunWith
<1>6. e4 \in ExpiryRun /\ e4.st = e3.st /\ e4.took = e3.took
    <2> HIDE DEF e3
    <2> QED BY <1>0, <1>5, RunWith
<1> HIDE DEF e1, e2, e3, e4
<1> QED BY <1>0, <1>2, <1>3, <1>4, <1>5, <1>6

LEMMA CrashExpiryStep ==
    ASSUME CreditsAssumption, CreditsInv, CrashExpiry
    PROVE  CreditsInv'
<1> DEFINE more == expiry.faults + 1
<1>1. expiry \in ExpiryRun /\ more \in Nat
    BY DEF CreditsInv, Typed, ExpiryRun
<1>2. Ended \in ExpiryRun /\ Ended.st = "idle" /\ DOMAIN Ended.took = {}
    BY <1>1, EndedRow
<1>3. expiry' = [Ended EXCEPT !.faults = more]
    BY DEF CrashExpiry
<1>4. expiry' \in ExpiryRun /\ expiry'.st = Ended.st /\ expiry'.took = Ended.took
    <2> HIDE DEF more
    <2> QED BY <1>1, <1>2, <1>3, RunWith
<1>5. Typed'
    BY <1>4 DEF CreditsInv, Typed, CrashExpiry
<1>6. TookIsExact'
    BY <1>2, <1>4 DEF TookIsExact
<1>7. LedgerKept' /\ AllPaid' /\ AdmittedCanPay'
    BY LedgerStays, AdmittedStays DEF CreditsInv, CrashExpiry
<1> QED BY <1>5, <1>6, <1>7 DEF CreditsInv

\* What the commit takes from an account.
Taken(u) == IF u \in DOMAIN expiry.took THEN expiry.took[u] ELSE 0

LEMMA CommitBounds ==
    ASSUME CreditsAssumption, CreditsInv, CommitExpiry, NEW u \in Users
    PROVE  /\ Taken(u) \in Nat /\ Taken(u) <= balance[u]
           /\ balance'[u] = balance[u] - Taken(u) /\ expired'[u] = expired[u] + Taken(u)
           /\ u \in DOMAIN expiry.took => Taken(u) = ToExpire(u, expiry.now)
<1>1. Typed /\ TookIsExact /\ balance[u] \in Nat /\ expiry \in ExpiryRun
    BY DEF CreditsInv, Typed
<1>2. expiry.now \in 0..MaxDay
    BY <1>1 DEF ExpiryRun
<1>3. u \in DOMAIN expiry.took => Taken(u) = ToExpire(u, expiry.now)
    BY <1>1 DEF TookIsExact, Taken
<1>4. ToExpire(u, expiry.now) \in Nat /\ ToExpire(u, expiry.now) <= balance[u]
    BY <1>1, <1>2, ExpireBounds
<1>5. u \notin DOMAIN expiry.took => Taken(u) = 0
    BY DEF Taken
<1>6. balance'[u] = balance[u] - Taken(u) /\ expired'[u] = expired[u] + Taken(u)
    BY DEF CommitExpiry, Taken
<1> QED BY <1>1, <1>3, <1>4, <1>5, <1>6

LEMMA CommitExpiryStep ==
    ASSUME CreditsAssumption, CreditsInv, CommitExpiry
    PROVE  CreditsInv'
<1>1. Typed /\ TookIsExact /\ LedgerKept /\ AllPaid /\ AdmittedCanPay
    BY DEF CreditsInv
<1>2. IsFiniteSet(Messages) /\ Owner \in [Messages -> Users]
    BY DEF CreditsAssumption
<1>3. ASSUME NEW u \in Users
      PROVE  /\ Taken(u) \in Nat /\ Taken(u) <= balance[u] /\ balance[u] \in Nat
             /\ expired[u] \in Nat
             /\ balance'[u] = balance[u] - Taken(u) /\ expired'[u] = expired[u] + Taken(u)
    BY <1>1, CommitBounds DEF Typed
<1>4. /\ UNCHANGED <<day, used, grants, usage, work>> /\ expiry' = Ended
      /\ gen' = [m \in Messages |-> [gen[m] EXCEPT !.quiet = @ /\ Taken(Owner[m]) = 0]]
      /\ balance' = [u \in Users |-> balance[u] - Taken(u)]
      /\ expired' = [u \in Users |-> expired[u] + Taken(u)]
    BY DEF CommitExpiry, Taken
<1>5. expiry' \in ExpiryRun /\ expiry'.st = "idle" /\ DOMAIN expiry'.took = {}
    BY <1>1, <1>4, EndedRow DEF Typed
<1>6. ASSUME NEW m \in Messages
      PROVE  /\ gen'[m] \in GenRow /\ gen'[m].st = gen[m].st /\ gen'[m].est = gen[m].est
             /\ gen'[m].quiet <=> (gen[m].quiet /\ Taken(Owner[m]) = 0)
    <2> DEFINE still == gen[m].quiet /\ Taken(Owner[m]) = 0
    <2>1. gen[m] \in GenRow
        BY <1>1 DEF Typed
    <2>2. gen'[m] = [gen[m] EXCEPT !.quiet = still]
        BY <1>4, Zenon
    <2>3. still \in BOOLEAN
        OBVIOUS
    <2> HIDE DEF still
    <2>4. gen'[m] \in GenRow /\ gen'[m].st = gen[m].st /\ gen'[m].est = gen[m].est
        BY <2>1, <2>2, <2>3 DEF GenRow
    <2>5. gen'[m].quiet = still
        BY <2>1, <2>2 DEF GenRow
    <2> QED BY <2>4, <2>5 DEF still
<1>7. Typed'
    <2>1. gen' \in [Messages -> GenRow]
        <3>1. gen' = [m \in Messages |-> gen'[m]]
            BY <1>4
        <3> QED BY <1>6, <3>1
    <2>2. balance' \in [Users -> Nat] /\ expired' \in [Users -> Nat]
        <3>1. ASSUME NEW u \in Users PROVE balance'[u] \in Nat /\ expired'[u] \in Nat
            BY <1>3
        <3> QED BY <1>4, <3>1
    <2> QED BY <1>1, <1>4, <1>5, <2>1, <2>2 DEF Typed
<1>8. TookIsExact'
    BY <1>5 DEF TookIsExact
<1>9. LedgerKept'
    <2>1. ASSUME NEW u \in Users
          PROVE  Spent(u)' = Spent(u) /\ TokensSpent(u)' = TokensSpent(u) /\ Spent(u) \in Nat
        BY <1>1, <1>2, <1>4, SpentStays, SpentIsNat DEF Typed
    <2>2. ASSUME NEW u \in Users PROVE AccountIsLedger(u)'
        <3>1. balance'[u] + Spent(u)' + expired'[u] = balance[u] + Spent(u) + expired[u]
            BY <1>3, <2>1
        <3> QED BY <1>1, <1>4, <2>2, <3>1 DEF LedgerKept, AccountIsLedger
    <2>3. ASSUME NEW u \in Users PROVE TokensAreSpent(u)'
        BY <1>1, <1>4, <2>1 DEF LedgerKept, TokensAreSpent
    <2> QED BY <2>2, <2>3 DEF LedgerKept
<1>10. AllPaid'
    BY <1>1, <1>4 DEF AllPaid
<1>11. AdmittedCanPay'
    <2>1. ASSUME NEW m \in Messages, gen'[m].st = "admitted", gen'[m].quiet
          PROVE  CanPay(balance'[Owner[m]], used'[Owner[m]], gen'[m].est)
        <3>1. Owner[m] \in Users
            BY <1>2
        <3>2. balance'[Owner[m]] = balance[Owner[m]]
            BY <1>3, <1>6, <2>1, <3>1
        <3> QED BY <1>1, <1>4, <1>6, <2>1, <3>2 DEF AdmittedCanPay
    <2> QED BY <2>1 DEF AdmittedCanPay
<1> QED BY <1>7, <1>8, <1>9, <1>10, <1>11 DEF CreditsInv
-----------------------------------------------------------------------------
LEMMA CreditsNext ==
    ASSUME CreditsAssumption, CreditsInv, [Next]_vars
    PROVE  CreditsInv'
<1>1. ASSUME UNCHANGED vars PROVE CreditsInv'
    <2>1. Typed'
        BY <1>1 DEF CreditsInv, Typed, vars
    <2> QED BY <1>1, <2>1, AccountsStay DEF vars
<1>2. ASSUME NEW u \in Users, CheckIn(u) \/ SkipAccount(u) PROVE CreditsInv'
    BY <1>2, CheckInStep, SkipAccountStep
<1>3. ASSUME NEW m \in Messages, NEW est \in Estimates, Admit(m, est) PROVE CreditsInv'
    BY <1>3, AdmitStep
<1>4. ASSUME NEW w \in Workers, NEW m \in Messages, ReadCharge(w, m) PROVE CreditsInv'
    BY <1>4, ReadChargeStep
<1>5. ASSUME NEW w \in Workers, NEW bill \in Bills, Charge(w, bill) PROVE CreditsInv'
    BY <1>5, ChargeStep
<1>6. ASSUME Expiry PROVE CreditsInv'
    BY <1>6, StartExpiryStep, CommitExpiryStep, ExpireAccountStep DEF Expiry
<1> QED BY <1>1, <1>2, <1>3, <1>4, <1>5, <1>6, NewDayStep, CrashExpiryStep DEF Next

\* What the invariant says of the properties of Credits.
LEMMA CreditsInvImplies ==
    ASSUME CreditsAssumption, CreditsInv
    PROVE  TypeOK /\ ChargedItsValue /\ BalanceIsLedger
<1>1. TypeOK
    <2>1. Typed
        BY DEF CreditsInv
    <2>2. expiry \in ExpiryRun /\ expiry.took \in Takings
        BY <2>1 DEF Typed, ExpiryRun
    <2>3. DOMAIN expiry.took \subseteq Users
        BY <2>2, NoTakings
    <2>4. \A m \in Messages : gen[m] \in GenRow
        BY <2>1 DEF Typed
    <2>5. \A m \in Messages : gen[m].st \in GenStatus /\ gen[m].quiet \in BOOLEAN
        BY <2>4 DEF GenRow
    <2> QED BY <2>1, <2>2, <2>3, <2>5 DEF TypeOK, Typed, ExpiryRun
<1>2. ChargedItsValue
    BY DEF CreditsInv, AllPaid, PaysItsValue, ChargedItsValue
<1>3. BalanceIsLedger
    BY DEF CreditsInv, LedgerKept, AccountIsLedger, TokensAreSpent, TokensSpent, BalanceIsLedger
<1> QED BY <1>1, <1>2, <1>3

LEMMA ChargedOnceHolds ==
    ASSUME CreditsAssumption, CreditsInv, [Next]_vars
    PROVE  ChargedOnceStep
<1>1. ASSUME NEW w \in Workers, NEW bill \in Bills, Charge(w, bill) PROVE ChargedOnceStep
    <2>1. usage \in [Messages -> Usage \cup {NoUsage}]
        BY DEF CreditsInv, Typed
    <2>2. \/ usage' = usage
          \/ usage[work[w]] = NoUsage /\ usage' = [usage EXCEPT ![work[w]] = Share(Owner[work[w]], bill)]
        BY <1>1, Zenon DEF Charge, Uncharged
    <2> HIDE DEF Share
    <2> QED BY <2>1, <2>2 DEF ChargedOnceStep
<1>2. ASSUME usage' = usage PROVE ChargedOnceStep
    BY <1>2 DEF ChargedOnceStep
<1>3. ASSUME Next, \A w \in Workers, bill \in Bills : ~Charge(w, bill) PROVE usage' = usage
    BY <1>3 DEF Next, NewDay, CheckIn, SkipAccount, Admit, ReadCharge, Expiry, StartExpiry,
                ExpireAccount, CommitExpiry, CrashExpiry
<1> QED BY <1>1, <1>2, <1>3 DEF vars
-----------------------------------------------------------------------------
\* A charge for no more than the estimate finds the credits and tokens the check found.
LEMMA EstimateCovers ==
    ASSUME CreditsAssumption, Typed, NEW u \in Users, NEW bill \in Bills, NEW est \in Nat,
           CanPay(balance[u], used[u], est), Cost(bill) <= est
    PROVE  ~(used[u] + Share(u, bill).tokens > MaxTokens /\ Share(u, bill).tokens > 0)
<1> DEFINE b == balance[u]
           c == Cost(bill)
           v == TokenValue(bill)
           t == used[u]
           br == b * Ratio
           er == est * Ratio
           cr == c * Ratio
           rest == v - br
           tokens == Share(u, bill).tokens
<1>1. bill \in Nat /\ Ratio \in Nat \ {0} /\ MaxTokens \in Nat
    BY DEF CreditsAssumption
<1>2. c \in Nat /\ v \in Nat /\ v <= cr
    BY <1>1, CostCovers
<1>3. b \in Nat /\ t \in 0..MaxTokens
    BY DEF Typed
<1>4. br \in Nat /\ er \in Nat /\ cr \in Nat /\ cr <= er
    <2> HIDE DEF c, b
    <2> QED BY <1>1, <1>2, <1>3, Times DEF c
<1>5. (IF t >= MaxTokens THEN 0 ELSE MaxTokens - t) + br >= er
    BY DEF CanPay
<1>6. tokens = 0 \/ (tokens = IF rest < 0 THEN 0 ELSE rest)
    <2>1. CASE b >= c
        BY <2>1 DEF Share
    <2>2. CASE ~(b >= c)
        BY <2>2 DEF Share
    <2> QED BY <2>1, <2>2
<1> HIDE DEF b, c, v, t, br, er, cr, tokens
<1>7. ~(t + tokens > MaxTokens /\ tokens > 0)
    BY <1>1, <1>2, <1>3, <1>4, <1>5, <1>6
<1> QED BY <1>7 DEF t, tokens

LEMMA AdmittedIsPaidHolds ==
    ASSUME CreditsAssumption, CreditsInv, [Next]_vars
    PROVE  AdmittedIsPaidStep
<1> SUFFICES ASSUME NEW m \in Messages, gen'[m].st = "refused", gen[m].st = "admitted",
                    gen[m].quiet, Cost(gen'[m].bill) <= gen[m].est
             PROVE  FALSE
    <2>1. gen \in [Messages -> GenRow] /\ gen' \in [Messages -> GenRow]
        BY CreditsNext DEF CreditsInv, Typed
    <2>2. ASSUME NEW m \in Messages
          PROVE  gen[m].est \in Nat /\ Cost(gen'[m].bill) \in Nat
        <3>1. gen[m].est \in Nat /\ gen'[m].bill \in Nat
            BY <2>1 DEF GenRow
        <3> QED BY <3>1, CostCovers
    <2> QED BY <2>2 DEF AdmittedIsPaidStep
<1>1. gen \in [Messages -> GenRow] /\ gen[m] \in GenRow
    BY DEF CreditsInv, Typed
<1>2. PICK w \in Workers, bill \in Bills : Charge(w, bill)
    <2>1. gen'[m].st # gen[m].st
        OBVIOUS
    <2>2. ASSUME gen' = gen PROVE FALSE
        BY <2>1, <2>2
    <2>3. ASSUME NEW n \in Messages, NEW est \in Estimates, Admit(n, est) PROVE FALSE
        BY <1>1, <2>1, <2>3 DEF Admit
    <2>4. ASSUME CommitExpiry PROVE FALSE
        <3>1. gen'[m] = [gen[m] EXCEPT !.quiet = @ /\ Taken(Owner[m]) = 0]
            BY <2>4, Zenon DEF CommitExpiry, Taken
        <3>2. gen'[m].st = gen[m].st
            BY <1>1, <3>1 DEF GenRow
        <3> QED BY <2>1, <3>2
    <2>5. \/ gen' = gen \/ CommitExpiry
          \/ \E n \in Messages, est \in Estimates : Admit(n, est)
          \/ \E w \in Workers, bill \in Bills : Charge(w, bill)
        BY DEF Next, vars, NewDay, CheckIn, SkipAccount, ReadCharge, Expiry, StartExpiry,
               ExpireAccount, CrashExpiry
    <2> QED BY <2>2, <2>3, <2>4, <2>5
<1> DEFINE u == Owner[m]
           share == Share(u, bill)
<1>3. work[w] = m /\ gen'[m].bill = bill /\ used[u] + share.tokens > MaxTokens /\ share.tokens > 0
    <2> DEFINE n == work[w]
               bills == Share(Owner[n], bill)
    <2>1. n \in Messages
        BY <1>2 DEF Charge, CreditsInv, Typed
    <2>2. \/ gen' = gen
          \/ /\ used[Owner[n]] + bills.tokens > MaxTokens /\ bills.tokens > 0
             /\ gen' = [gen EXCEPT ![n].st = "refused", ![n].bill = bill]
          \/ gen' = [k \in Messages |->
                        IF k = n THEN [gen[n] EXCEPT !.st = "charged", !.bill = bill]
                        ELSE IF Owner[k] = Owner[n] THEN [gen[k] EXCEPT !.quiet = FALSE]
                        ELSE gen[k]]
        BY <1>2, Zenon DEF Charge
    <2> HIDE DEF n, bills
    <2>3. gen' # gen
        OBVIOUS
    <2>4. ASSUME gen' = [k \in Messages |->
                        IF k = n THEN [gen[n] EXCEPT !.st = "charged", !.bill = bill]
                        ELSE IF Owner[k] = Owner[n] THEN [gen[k] EXCEPT !.quiet = FALSE]
                        ELSE gen[k]]
          PROVE  FALSE
        BY <1>1, <2>4 DEF GenRow
    <2>5. /\ used[Owner[n]] + bills.tokens > MaxTokens /\ bills.tokens > 0
          /\ gen' = [gen EXCEPT ![n].st = "refused", ![n].bill = bill]
        BY <2>2, <2>3, <2>4
    <2>6. n = m
        BY <1>1, <2>1, <2>5
    <2>7. gen'[m].bill = bill
        BY <1>1, <2>5, <2>6 DEF GenRow
    <2> QED BY <2>5, <2>6, <2>7 DEF n, bills
<1>4. u \in Users /\ Typed /\ gen[m].est \in Nat
    BY <1>1 DEF CreditsAssumption, CreditsInv, GenRow
<1>5. CanPay(balance[u], used[u], gen[m].est)
    BY DEF CreditsInv, AdmittedCanPay
<1> HIDE DEF u, share
<1> QED BY <1>3, <1>4, <1>5, EstimateCovers DEF share

LEMMA ExpiryHolds ==
    ASSUME CreditsAssumption, CreditsInv, [Next]_vars
    PROVE  ExpiryProtectsStep /\ ExpiryIsExactStep
<1>1. CASE expired' = expired
    <2>1. \A u \in Users : expired[u] \in Nat
        BY DEF CreditsInv, Typed
    <2> QED BY <1>1, <2>1 DEF ExpiryProtectsStep, ExpiryIsExactStep
<1>2. CASE expired' # expired
    <2>1. CommitExpiry
        BY <1>2 DEF Next, vars, NewDay, CheckIn, SkipAccount, Admit, ReadCharge, Charge, Expiry,
                    StartExpiry, ExpireAccount, CrashExpiry
    <2>2. Typed /\ expiry.now \in 0..MaxDay
        BY DEF CreditsInv, Typed, ExpiryRun
    <2>3. ASSUME NEW u \in Users
          PROVE  /\ expired[u] \in Nat /\ balance[u] \in Nat /\ Taken(u) \in Nat
                 /\ balance'[u] = balance[u] - Taken(u) /\ expired'[u] = expired[u] + Taken(u)
                 /\ u \in DOMAIN expiry.took => Taken(u) = ToExpire(u, expiry.now)
        BY <2>1, <2>2, CommitBounds DEF Typed
    <2>4. ExpiryProtectsStep
        <3>1. ASSUME NEW u \in Users, expired'[u] > expired[u]
              PROVE  balance'[u] >= Valid(u, expiry.now)
            <4>1. Taken(u) > 0
                BY <2>3, <3>1
            <4>2. u \in DOMAIN expiry.took
                BY <4>1 DEF Taken
            <4>3. Taken(u) > 0 => balance[u] - Taken(u) >= Valid(u, expiry.now)
                BY <2>2, <2>3, <4>2, ExpireBounds
            <4> QED BY <2>3, <4>1, <4>3
        <3> QED BY <3>1 DEF ExpiryProtectsStep
    <2>5. ExpiryIsExactStep
        <3>1. ASSUME NEW u \in Users, u \in DOMAIN expiry.took
              PROVE  /\ expired'[u] + Spent(u) >= ExpiredGrants(u, expiry.now)
                     /\ expired'[u] > expired[u] => expired'[u] + Spent(u) <= ExpiredGrants(u, expiry.now)
            <4>1. balance[u] + Spent(u) + expired[u] = 2 * Grant * Cardinality(grants[u])
                BY DEF CreditsInv, LedgerKept, AccountIsLedger
            <4>2. LET t == Taken(u)
                  IN  /\ expired[u] + t + Spent(u) >= ExpiredGrants(u, expiry.now)
                      /\ t > 0 => expired[u] + t + Spent(u) <= ExpiredGrants(u, expiry.now)
                BY <2>2, <2>3, <3>1, <4>1, ExpireBounds
            <4> QED BY <2>3, <4>2
        <3> QED BY <3>1 DEF ExpiryIsExactStep
    <2> QED BY <2>4, <2>5
<1> QED BY <1>1, <1>2
-----------------------------------------------------------------------------
\* The invariant holds in every state, and every step is as it should be.
CreditsStep ==
    /\ ChargedOnceStep /\ AdmittedIsPaidStep /\ ExpiryProtectsStep /\ ExpiryIsExactStep

LEMMA CreditsHold ==
    ASSUME CreditsAssumption
    PROVE  Safety => []CreditsInv /\ [][CreditsStep]_vars
<1>1. Init => CreditsInv
    BY CreditsInit
<1>2. CreditsInv /\ [Next]_vars => CreditsInv'
    BY CreditsNext
<1>3. CreditsInv /\ [Next]_vars => [CreditsStep]_vars
    BY ChargedOnceHolds, AdmittedIsPaidHolds, ExpiryHolds DEF CreditsStep
<1> QED BY <1>1, <1>2, <1>3, PTL DEF Safety

\* Balances, spent tokens and expired credits are never negative, tokens stay within the limit
\* of the user, and every record, generation and run of the expiry is one of its kind.
THEOREM CreditsTypes ==
    ASSUME CreditsAssumption
    PROVE  Safety => []TypeOK
<1>1. CreditsInv => TypeOK
    BY CreditsInvImplies
<1> QED BY <1>1, CreditsHold, PTL

\* For any bills and any ratio of credits to tokens: what a generation was charged covers its
\* value, to the token where tokens pay and by less than one credit more where credits pay
\* alone (credit_service.py, spend_for_model_usage).
THEOREM ChargesPayTheirValue ==
    ASSUME CreditsAssumption
    PROVE  Safety => []ChargedItsValue
<1>1. CreditsInv => ChargedItsValue
    BY CreditsInvImplies
<1> QED BY <1>1, CreditsHold, PTL

\* Every balance is the sum of its transactions, with each check-in counted once more, and every
\* user's tokens are what the charges took, whatever check-ins, charges, expiries and crashes
\* overlap (credit_service.py, credit_repo.py).
THEOREM LedgerIsKept ==
    ASSUME CreditsAssumption
    PROVE  Safety => []BalanceIsLedger
<1>1. CreditsInv => BalanceIsLedger
    BY CreditsInvImplies
<1> QED BY <1>1, CreditsHold, PTL

\* The charge of a message is recorded once and never changes, however many workers settle it.
THEOREM ChargesHappenOnce ==
    ASSUME CreditsAssumption
    PROVE  Safety => ChargedOnce
<1>1. CreditsStep => ChargedOnceStep
    BY DEF CreditsStep
<1> QED BY <1>1, CreditsHold, PTL DEF ChargedOnce

\* A generation that costs no more than it was admitted for is refused only if another one of
\* its user was charged, or credits of its user expired, since.
THEOREM AdmittedArePaid ==
    ASSUME CreditsAssumption
    PROVE  Safety => AdmittedIsPaid
<1>1. CreditsStep => AdmittedIsPaidStep
    BY DEF CreditsStep
<1> QED BY <1>1, CreditsHold, PTL DEF AdmittedIsPaid

\* The expiry leaves every user the grants that are still valid; and of the grants on record it
\* takes from an account it has dealt with all that has expired and was not spent, and no more.
THEOREM ExpiryTakesWhatExpired ==
    ASSUME CreditsAssumption
    PROVE  Safety => ExpiryProtects /\ ExpiryIsExact
<1>1. CreditsStep => ExpiryProtectsStep /\ ExpiryIsExactStep
    BY DEF CreditsStep
<1> QED BY <1>1, CreditsHold, PTL DEF ExpiryProtects, ExpiryIsExact
==============================================================================

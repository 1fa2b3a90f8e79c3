---------------------------- MODULE MCLimitsProofs ----------------------------
(***************************************************************************)
(* Proofs about what is limited, paid and locked: SmsCodes for any number  *)
(* of requests for a code, any limit of failures and any keys that expire; *)
(* the window of the rate limiter for any clients, requests and lengths of *)
(* a history; the row locks and deadlocks of the transactions; the bundle  *)
(* of secrets for any processes that write it; and the properties of the   *)
(* suite that follow, those about credits from CreditsProofs.              *)
(***************************************************************************)
EXTENDS MCLimits, SequenceTheorems, FiniteSetTheorems, TLAPS

\* A code that is stored, or about to be, has not been accepted, and nobody else is about to
\* store it.
Fresh(c, m, acc) == c \in Codes /\ c <= m /\ acc[c] = 0
CodesFresh ==
    /\ code # NoCode => Fresh(code, made, accepted)
    /\ \A s \in Senders : sender[s].st = "store" => Fresh(sender[s].code, made, accepted) /\ sender[s].code # code
    /\ \A s, t \in Senders : s # t /\ sender[s].st = "store" /\ sender[t].st = "store"
                                => sender[s].code # sender[t].code
    /\ \A c \in Codes : c > made => accepted[c] = 0

\* The counter and the history of wrong tries start afresh together.
TriesCounted == tried = failures

SmsInv == TypeOK /\ CodesFresh /\ TriesCounted /\ CodeIsOneTime

Sender == [st : {"idle", "store", "interval"}, code : Codes \cup {NoCode}]

-----------------------------------------------------------------------------
LEMMA SmsConstants == Limit \in Nat /\ MaxExpiries \in Nat /\ MaxCodes \in Nat /\ MaxCodes > 0
BY SmsAssumption

LEMMA SmsInit == Init => SmsInv
<1> SUFFICES ASSUME Init PROVE SmsInv
    OBVIOUS
<1>1. sender \in [Senders -> Sender] /\ \A s \in Senders : sender[s].st = "idle"
    BY DEF Init, Sender
<1>2. accepted \in [Codes -> Nat] /\ \A c \in Codes : accepted[c] = 0
    BY DEF Init
<1>3. TypeOK
    <2>1. rate \in BOOLEAN /\ locked \in BOOLEAN
        BY Zenon DEF Init
    <2>2. code = NoCode /\ failures = 0 /\ made = 0 /\ tried = 0 /\ sent = 0 /\ expiries = 0
        BY DEF Init
    <2> QED BY <1>1, <1>2, <2>1, <2>2, SmsConstants DEF TypeOK, Sender
<1>4. CodesFresh /\ TriesCounted /\ CodeIsOneTime
    BY <1>1, <1>2 DEF Init, CodesFresh, TriesCounted, CodeIsOneTime
<1> QED BY <1>3, <1>4 DEF SmsInv

LEMMA CheckRateKeeps ==
    ASSUME SmsInv, NEW s \in Senders, CheckRate(s) PROVE SmsInv'
<1> DEFINE new == [st |-> "store", code |-> made + 1]
<1>1. /\ made \in Nat /\ made < MaxCodes /\ made' = made + 1
      /\ sender' = [sender EXCEPT ![s] = new]
      /\ UNCHANGED <<code, rate, failures, locked, accepted, tried, sent, expiries>>
    BY SmsConstants DEF CheckRate, SmsInv, TypeOK
<1>2. made + 1 \in Codes
    BY <1>1, SmsConstants DEF Codes
<1>3. new \in Sender
    BY <1>2 DEF Sender
<1>4. sender \in [Senders -> Sender] /\ sender' \in [Senders -> Sender]
    BY <1>1, <1>3 DEF SmsInv, TypeOK, Sender
<1>5. sender'[s] = new /\ \A t \in Senders : t # s => sender'[t] = sender[t]
    BY <1>1, <1>4
<1>6. TypeOK'
    BY <1>1, <1>4, SmsConstants DEF SmsInv, TypeOK, Sender
<1>7. Fresh(made + 1, made', accepted')
    <2>1. accepted[made + 1] = 0
        BY <1>1, <1>2 DEF SmsInv, CodesFresh
    <2> QED BY <1>1, <1>2, <2>1 DEF Fresh
<1>8. \A c \in Codes : Fresh(c, made, accepted) => Fresh(c, made', accepted') /\ c # made + 1
    BY <1>1, SmsConstants DEF Fresh, Codes
<1>9. CodesFresh'
    <2>1. code' # NoCode => Fresh(code', made', accepted')
        BY <1>1, <1>8 DEF SmsInv, CodesFresh, Fresh
    <2>2. code # made + 1
        BY <1>1, <1>8 DEF SmsInv, CodesFresh, Fresh, NoCode
    <2>3. ASSUME NEW t \in Senders, sender'[t].st = "store"
          PROVE  Fresh(sender'[t].code, made', accepted') /\ sender'[t].code # code
        <3>1. CASE t = s
            BY <1>5, <1>7, <2>2, <3>1
        <3>2. CASE t # s
            BY <1>5, <1>8, <2>3, <3>2 DEF SmsInv, CodesFresh, Fresh
        <3> QED BY <3>1, <3>2
    <2>4. ASSUME NEW t \in Senders, NEW u \in Senders, t # u, sender'[t].st = "store", sender'[u].st = "store"
          PROVE  sender'[t].code # sender'[u].code
        BY <1>5, <1>8, <2>4 DEF SmsInv, CodesFresh, Fresh
    <2>5. \A c \in Codes : c > made' => accepted'[c] = 0
        BY <1>1, SmsConstants DEF SmsInv, CodesFresh, Codes
    <2> QED BY <1>1, <2>1, <2>3, <2>4, <2>5 DEF CodesFresh
<1>10. TriesCounted' /\ CodeIsOneTime'
    BY <1>1 DEF SmsInv, TriesCounted, CodeIsOneTime
<1> QED BY <1>6, <1>9, <1>10 DEF SmsInv

\* A request for a code goes on, and stores at most its own.
LEMMA SenderKeeps ==
    ASSUME SmsInv, NEW s \in Senders, StoreCode(s) \/ StartInterval(s) \/ Die(s) PROVE SmsInv'
<1>1. sender \in [Senders -> Sender]
    BY DEF SmsInv, TypeOK, Sender
<1>2. PICK place \in {"interval", "idle"} : sender' = [sender EXCEPT ![s].st = place]
    BY DEF StoreCode, StartInterval, Die
<1>3. sender' \in [Senders -> Sender]
    BY <1>1, <1>2 DEF Sender
<1>4. sender'[s].st # "store" /\ \A t \in Senders : t # s => sender'[t] = sender[t]
    BY <1>1, <1>2 DEF Sender
<1>5. UNCHANGED <<failures, locked, made, accepted, tried, expiries>>
    BY DEF StoreCode, StartInterval, Die, FailuresKept
<1>6. code' = code \/ (sender[s].st = "store" /\ code' = sender[s].code)
    BY DEF StoreCode, StartInterval, Die
<1>7. rate' \in BOOLEAN /\ sent' \in Nat
    <2>1. rate \in BOOLEAN /\ sent \in Nat
        BY DEF SmsInv, TypeOK
    <2>2. rate' = rate \/ rate' = TRUE
        BY DEF StoreCode, StartInterval, Die
    <2>3. sent' = sent \/ sent' = sent + 1
        BY DEF StoreCode, StartInterval, Die
    <2>4. rate' \in BOOLEAN
        BY <2>1, <2>2, Zenon
    <2> QED BY <2>1, <2>3, <2>4
<1>8. code' \in Codes \cup {NoCode}
    BY <1>1, <1>6 DEF SmsInv, TypeOK, Sender
<1>9. TypeOK'
    BY <1>3, <1>5, <1>7, <1>8 DEF SmsInv, TypeOK, Sender
<1>10. CodesFresh'
    <2>1. \A c : Fresh(c, made', accepted') <=> Fresh(c, made, accepted)
        BY <1>5
    <2>2. code' # NoCode => Fresh(code', made, accepted)
        BY <1>6 DEF SmsInv, CodesFresh
    <2>3. \A t \in Senders : sender'[t].st = "store" 
            => Fresh(sender'[t].code, made, accepted) /\ sender'[t].code # code'
        BY <1>4, <1>6 DEF SmsInv, CodesFresh
    <2>4. \A t, u \in Senders : t # u /\ sender'[t].st = "store" /\ sender'[u].st = "store"
                                    => sender'[t].code # sender'[u].code
        BY <1>4 DEF SmsInv, CodesFresh
    <2> QED BY <1>5, <2>1, <2>2, <2>3, <2>4 DEF CodesFresh, SmsInv
<1>11. TriesCounted' /\ CodeIsOneTime'
    BY <1>5 DEF SmsInv, TriesCounted, CodeIsOneTime
<1> QED BY <1>9, <1>10, <1>11 DEF SmsInv

LEMMA VerifyKeeps ==
    ASSUME SmsInv, Verify PROVE SmsInv'
<1>1. PICK c \in 0..made :
        /\ ~locked /\ code # NoCode
        /\ IF c = code
             THEN /\ accepted' = [accepted EXCEPT ![c] = @ + 1]
                  /\ code' = CodeAfterUse /\ failures' = 0 /\ tried' = 0
                  /\ UNCHANGED locked
             ELSE /\ tried' = IF Limit = 0 \/ Locks(failures + 1) THEN 0 ELSE tried + 1
                  /\ locked' = (Limit > 0 /\ Locks(failures + 1))
                  /\ failures' = IF Limit = 0 \/ Locks(failures + 1) THEN 0 ELSE failures + 1
                  /\ UNCHANGED <<code, accepted>>
        /\ UNCHANGED <<rate, sender, made, sent, expiries>>
    BY DEF Verify
<1>2. CASE c = code
    <2>1. Fresh(c, made, accepted) /\ accepted \in [Codes -> Nat]
        BY <1>1, <1>2 DEF SmsInv, CodesFresh, TypeOK
    <2>2. accepted' = [accepted EXCEPT ![c] = accepted[c] + 1] /\ code' = NoCode /\ failures' = 0 /\ tried' = 0
        BY <1>1, <1>2 DEF CodeAfterUse
    <2>3. accepted'[c] = 1 /\ \A d \in Codes : d # c => accepted'[d] = accepted[d]
        <3>1. accepted'[c] = accepted[c] + 1
            BY <2>1, <2>2 DEF Fresh
        <3> QED BY <2>1, <2>2, <3>1 DEF Fresh
    <2>4. accepted' \in [Codes -> Nat]
        BY <2>1, <2>2 DEF Fresh
    <2>5. TypeOK'
        BY <1>1, <1>2, <2>2, <2>4, SmsConstants DEF SmsInv, TypeOK
    <2>6. CodeIsOneTime' /\ TriesCounted'
        BY <2>2, <2>3 DEF SmsInv, CodeIsOneTime, TriesCounted
    <2>7. \A d \in Codes : d # c => (Fresh(d, made', accepted') <=> Fresh(d, made, accepted))
        BY <1>1, <2>3 DEF Fresh
    <2>8. CodesFresh'
        <3>1. \A t \in Senders : sender[t].st = "store" 
                => Fresh(sender[t].code, made', accepted') /\ sender[t].code # NoCode
            <4> TAKE t \in Senders
            <4> HAVE sender[t].st = "store"
            <4>1. Fresh(sender[t].code, made, accepted) /\ sender[t].code # c
                BY <1>2 DEF SmsInv, CodesFresh
            <4>2. sender[t].code \in Codes /\ sender[t].code # NoCode
                BY <4>1, SmsConstants DEF Fresh, Codes, NoCode
            <4> QED BY <2>7, <4>1, <4>2
        <3>2. \A d \in Codes : d > made => accepted'[d] = 0
            BY <2>1, <2>3, SmsConstants DEF SmsInv, CodesFresh, Fresh, Codes, TypeOK
        <3> QED BY <1>1, <2>2, <3>1, <3>2 DEF SmsInv, CodesFresh, Fresh
    <2> QED BY <2>5, <2>6, <2>8 DEF SmsInv
<1>3. CASE c # code
    <2>1. UNCHANGED <<code, accepted, rate, sender, made, sent, expiries>>
        BY <1>1, <1>3
    <2>2. CodesFresh' /\ CodeIsOneTime'
        BY <2>1 DEF SmsInv, CodesFresh, CodeIsOneTime, Fresh
    <2>3. CASE Limit = 0 \/ Locks(failures + 1)
        <3>1. tried' = 0 /\ failures' = 0 /\ locked' \in BOOLEAN
            BY <1>1, <1>3, <2>3
        <3> QED BY <2>1, <2>2, <3>1, SmsConstants DEF SmsInv, TypeOK, TriesCounted
    <2>4. CASE ~(Limit = 0 \/ Locks(failures + 1))
        <3>1. tried' = tried + 1 /\ failures' = failures + 1 /\ locked' = FALSE
            BY <1>1, <1>3, <2>4
        <3>2. failures \in Nat /\ failures + 1 < Limit
            BY <2>4, SmsConstants DEF Locks, SmsInv, TypeOK
        <3>3. TriesCounted' /\ tried' \in Nat /\ failures' \in Nat /\ failures' < Limit
            BY <3>1, <3>2 DEF SmsInv, TriesCounted
        <3>4. TypeOK'
            BY <2>1, <3>1, <3>3 DEF SmsInv, TypeOK
        <3> QED BY <2>2, <3>3, <3>4 DEF SmsInv
    <2> QED BY <2>3, <2>4
<1> QED BY <1>2, <1>3

LEMMA ExpireKeeps ==
    ASSUME SmsInv, Expire PROVE SmsInv'
<1>1. UNCHANGED <<sender, made, accepted>> /\ expiries' \in 0..MaxExpiries
    BY SmsConstants DEF Expire, SmsInv, TypeOK
<1>2. code' = code \/ code' = NoCode
    BY DEF Expire
<1>3. (failures' = failures /\ tried' = tried) \/ (failures' = 0 /\ tried' = 0)
    BY DEF Expire
<1>4. sent' = sent \/ sent' = 0
    BY DEF Expire
<1>5. locked' = locked \/ locked' = FALSE
    BY Zenon DEF Expire
<1>6. rate' = rate \/ rate' = FALSE
    BY Zenon DEF Expire
<1>7. rate \in BOOLEAN /\ locked \in BOOLEAN /\ (locked => failures = 0)
    BY DEF SmsInv, TypeOK
<1>8. TypeOK'
    <2>1. rate' \in BOOLEAN /\ locked' \in BOOLEAN
        BY <1>5, <1>6, <1>7, Zenon
    <2>2. locked' => failures' = 0
        BY <1>3, <1>5, <1>7, Zenon
    <2>3. code' \in Codes \cup {NoCode}
        BY <1>2 DEF SmsInv, TypeOK
    <2>4. sent' \in Nat /\ tried' \in Nat /\ failures' \in Nat /\ (Limit > 0 => failures' < Limit)
        BY <1>3, <1>4, SmsConstants DEF SmsInv, TypeOK
    <2> QED BY <1>1, <2>1, <2>2, <2>3, <2>4 DEF SmsInv, TypeOK
<1>9. CodesFresh'
    <2>1. \A c : Fresh(c, made', accepted') <=> Fresh(c, made, accepted)
        BY <1>1
    <2>2. \A t \in Senders : sender[t].st = "store" => sender[t].code # code'
        BY <1>2, SmsConstants DEF SmsInv, CodesFresh, Fresh, Codes, NoCode
    <2> QED BY <1>1, <1>2, <2>1, <2>2 DEF SmsInv, CodesFresh
<1>10. TriesCounted' /\ CodeIsOneTime'
    BY <1>1, <1>3 DEF SmsInv, TriesCounted, CodeIsOneTime
<1> QED BY <1>8, <1>9, <1>10 DEF SmsInv

LEMMA SmsStep == SmsInv /\ [Next]_vars => SmsInv'
<1> SUFFICES ASSUME SmsInv, [Next]_vars PROVE SmsInv'
    OBVIOUS
<1>1. CASE UNCHANGED vars
    BY <1>1 DEF vars, SmsInv, TypeOK, CodesFresh, Fresh, TriesCounted, CodeIsOneTime
<1> QED BY <1>1, CheckRateKeeps, SenderKeeps, VerifyKeeps, ExpireKeeps DEF Next

LEMMA SmsInvariant == Safety => []SmsInv
BY SmsInit, SmsStep, PTL DEF Safety

-----------------------------------------------------------------------------
\* Types, and no count goes on under a lock.
THEOREM SmsTypes == Safety => []TypeOK
<1>1. SmsInv => TypeOK
    BY DEF SmsInv
<1> QED BY <1>1, SmsInvariant, PTL

\* A code is accepted once, however many requests and checks overlap and keys expire.
THEOREM SmsCodeIsOneTime == Safety => []CodeIsOneTime
<1>1. SmsInv => CodeIsOneTime
    BY DEF SmsInv
<1> QED BY <1>1, SmsInvariant, PTL

\* A new code gives no further tries.
THEOREM SmsTriesBounded == Safety => []TriesBounded
<1>1. SmsInv => TriesBounded
    BY DEF SmsInv, TypeOK, TriesCounted, TriesBounded
<1> QED BY <1>1, SmsInvariant, PTL

-----------------------------------------------------------------------------
\* The rate limiter.
Stamps(last) == (0..last) \X (0..last) \X Nat
At(entries, s, t) == {e \in entries : e[1] = s /\ e[2] = t}
Within(entries, s, t, width) == {e \in entries : e[1] = s /\ t <= e[2] /\ e[2] < t + width}
Recent(entries, s, t) == {e \in entries : e[1] = s /\ e[2] > t}
Admissions(clients, last, entries) == entries \subseteq clients \X (0..last) \X Nat /\ IsFiniteSet(entries)

\* The members of a client's sorted set and the requests it was let in with.
Client(s, members, entries, until, clock, times, width, late, last) ==
    /\ members \subseteq Stamps(last) /\ IsFiniteSet(members) /\ Cardinality(members) <= times
    /\ \A m \in members : <<s, m[2], m[3]>> \in entries /\ m[1] <= m[2] /\ m[2] <= m[1] + late
    /\ \A m, k \in members : m[2] = k[2] /\ m[3] = k[3] => m = k
    /\ \A e \in entries : e[1] = s => /\ e[2] <= clock /\ e[2] + width + 1 <= until
                                      /\ e[3] < Cardinality(At(entries, s, e[2]))
                                      /\ e[2] - late > clock - width => \E m \in members : m[2] = e[2] /\ m[3] = e[3]
    /\ \A t \in 0..last : Cardinality(Within(entries, s, t, width - late)) <= times

\* A part of a finite set.
LEMMA PartOf ==
    ASSUME NEW X, NEW Y, IsFiniteSet(Y), X \subseteq Y
    PROVE  IsFiniteSet(X) /\ Cardinality(X) \in Nat /\ Cardinality(X) <= Cardinality(Y)
BY FS_Subset, FS_CardinalityType

-----------------------------------------------------------------------------
LEMMA ClientTicks ==
    ASSUME NEW s, NEW members, NEW entries, NEW until \in Nat, NEW clock \in Nat, NEW times \in Nat, NEW width \in Nat,
           NEW late \in Nat, NEW last \in Nat, NEW clients, Admissions(clients, last, entries),
           Client(s, members, entries, until, clock, times, width, late, last)
    PROVE  Client(s, members, entries, until, clock + 1, times, width, late, last)
<1>1. \A e \in entries : e[2] \in Nat
    BY DEF Admissions
<1> QED BY <1>1 DEF Client

LEMMA OthersStay ==
    ASSUME NEW s, NEW u, u # s, NEW members, NEW entries, NEW until, NEW clock, NEW times, NEW width, NEW n, NEW now1,
           NEW late, NEW last, IsFiniteSet(entries), Client(u, members, entries, until, clock, times, width, late, last)
    PROVE  Client(u, members, entries \cup {<<s, now1, n>>}, until, clock, times, width, late, last)
<1> DEFINE e == <<s, now1, n>>  new == entries \cup {e}
<1>1. e[1] = s
    OBVIOUS
<1> HIDE DEF e
<1>2. \A t : At(new, u, t) = At(entries, u, t) /\ Within(new, u, t, width - late) = Within(entries, u, t, width - late)
    BY <1>1 DEF At, Within
<1> QED BY <1>1, <1>2 DEF Client, e

\* A request stamped is evaluated.
Evaluating(s, members, entries, until, clock, stamp, kept, times, width, late, last, clients) ==
    /\ {until, last, times, width, late, stamp} \subseteq Nat /\ clock \in 0..last /\ s \in clients
    /\ Admissions(clients, last, entries) /\ Client(s, members, entries, until, clock, times, width, late, last)
    /\ stamp <= clock /\ clock <= stamp + late
    /\ kept = {m \in IF clock >= until THEN {} ELSE members : m[1] > stamp - width}

\* The members that are left when a request stamped is evaluated: all of the requests let in lately are among them, and
\* each of them is such a request.
LEMMA KeptOnes ==
    ASSUME NEW s, NEW members, NEW entries, NEW until, NEW clock, NEW stamp, NEW kept, NEW times, NEW width, NEW late,
           NEW last, NEW clients, Evaluating(s, members, entries, until, clock, stamp, kept, times, width, late, last, clients)
    PROVE  /\ kept \subseteq members /\ IsFiniteSet(kept) /\ Cardinality(kept) \in Nat /\ Cardinality(kept) <= times
           /\ \A e \in entries : e[1] = s /\ e[2] - late > clock - width => \E m \in kept : m[2] = e[2] /\ m[3] = e[3]
           /\ \A t \in 0..last : t > clock - (width - late)
                => Cardinality(Within(entries, s, t, width - late)) <= Cardinality(kept)
           /\ Cardinality(kept) <= Cardinality(Recent(entries, s, clock - width - late))
<1>0. /\ until \in Nat /\ last \in Nat /\ times \in Nat /\ width \in Nat /\ late \in Nat /\ stamp \in Nat
      /\ clock \in 0..last /\ clock \in Nat /\ s \in clients /\ stamp <= clock /\ clock <= stamp + late
    BY DEF Evaluating
<1>x. Admissions(clients, last, entries) /\ Client(s, members, entries, until, clock, times, width, late, last)
    BY DEF Evaluating
<1>y. kept = {m \in IF clock >= until THEN {} ELSE members : m[1] > stamp - width}
    BY DEF Evaluating
<1> USE <1>0, <1>x
<1>1. kept \subseteq members /\ IsFiniteSet(kept) /\ Cardinality(kept) \in Nat /\ Cardinality(kept) <= times
    <2>1. kept \subseteq members
        BY <1>y
    <2>2. IsFiniteSet(members) /\ Cardinality(members) <= times /\ Cardinality(members) \in Nat
        BY FS_CardinalityType DEF Client
    <2> QED BY <2>1, <2>2, PartOf
<1>2. /\ \A m \in members : m[1] \in Nat /\ m[2] \in Nat /\ m[3] \in Nat /\ m[1] <= m[2] /\ m[2] <= m[1] + late
      /\ \A e \in entries : e[2] \in Nat /\ e[3] \in Nat /\ e = <<e[1], e[2], e[3]>>
    <2>1. \A m \in members : m \in Stamps(last) /\ m[1] <= m[2] /\ m[2] <= m[1] + late
        BY DEF Client
    <2>2. \A m \in Stamps(last) : m[1] \in Nat /\ m[2] \in Nat /\ m[3] \in Nat
        BY DEF Stamps
    <2>3. \A e \in entries : e \in clients \X (0..last) \X Nat
        BY DEF Admissions
    <2>4. \A e \in clients \X (0..last) \X Nat : e[2] \in Nat /\ e[3] \in Nat /\ e = <<e[1], e[2], e[3]>>
        OBVIOUS
    <2> QED BY <2>1, <2>2, <2>3, <2>4
<1>3. ASSUME NEW e \in entries, e[1] = s, e[2] - late > clock - width
      PROVE  \E m \in kept : m[2] = e[2] /\ m[3] = e[3]
    <2>1. PICK m \in members : m[2] = e[2] /\ m[3] = e[3]
        BY <1>3 DEF Client
    <2>2. ~(clock >= until)
        BY <1>2, <1>3 DEF Client
    <2>3. m[1] > stamp - width
        BY <1>2, <1>3, <2>1
    <2> QED BY <1>y, <2>1, <2>2, <2>3
<1>4. ASSUME NEW t \in 0..last, t > clock - (width - late)
      PROVE  Cardinality(Within(entries, s, t, width - late)) <= Cardinality(kept)
    <2> DEFINE A == Within(entries, s, t, width - late)
               f == [e \in A |-> CHOOSE m \in kept : m[2] = e[2] /\ m[3] = e[3]]
    <2>1. ASSUME NEW e \in A PROVE f[e] \in kept /\ f[e][2] = e[2] /\ f[e][3] = e[3]
        <3>1. \E m \in kept : m[2] = e[2] /\ m[3] = e[3]
            BY <1>2, <1>3, <1>4 DEF Within
        <3> QED BY <3>1
    <2>2. \A x, y \in A : f[x] = f[y] => x = y
        <3> TAKE x \in A, y \in A
        <3> HAVE f[x] = f[y]
        <3>1. x[2] = y[2] /\ x[3] = y[3]
            BY <2>1
        <3> QED BY <1>2, <3>1 DEF Within
    <2>3. f \in Injection(A, kept)
        BY <2>1, <2>2 DEF Injection, IsInjective
    <2> HIDE DEF f, A
    <2>4. Cardinality(A) <= Cardinality(kept)
        BY <1>1, <2>3, FS_Injection
    <2> QED BY <2>4 DEF A
<1>5. Cardinality(kept) <= Cardinality(Recent(entries, s, clock - width - late))
    <2> DEFINE R == Recent(entries, s, clock - width - late)
               f == [m \in kept |-> <<s, m[2], m[3]>>]
    <2>0. \A m \in kept : m \in members /\ m[1] > stamp - width
        BY <1>y
    <2>1. \A m \in kept : f[m] \in R
        <3> TAKE m \in kept
        <3>1. m[2] > clock - width - late
            BY <1>2, <2>0
        <3>2. <<s, m[2], m[3]>> \in entries
            BY <2>0 DEF Client
        <3> QED BY <3>1, <3>2 DEF Recent
    <2>2. \A x, y \in kept : f[x] = f[y] => x = y
        BY <2>0 DEF Client
    <2>3. f \in Injection(kept, R)
        BY <2>1, <2>2 DEF Injection, IsInjective
    <2>4. IsFiniteSet(R)
        BY PartOf DEF Recent, Admissions
    <2> HIDE DEF f, R
    <2>5. Cardinality(kept) <= Cardinality(R)
        BY <2>3, <2>4, FS_Injection
    <2> QED BY <2>5 DEF R
<1> QED BY <1>1, <1>3, <1>4, <1>5

\* The request is counted, or turned away.
LEMMA ClientCounts ==
    ASSUME NEW s, NEW members, NEW entries, NEW until, NEW clock, NEW stamp, NEW kept, NEW times, NEW width, NEW late,
           NEW last, NEW clients, Evaluating(s, members, entries, until, clock, stamp, kept, times, width, late, last, clients),
           NEW n, n = Cardinality(At(entries, s, clock))
    PROVE  /\ Cardinality(kept) < times =>
                /\ <<s, clock, n>> \notin entries
                /\ Admissions(clients, last, entries \cup {<<s, clock, n>>})
                /\ Client(s, kept \cup {<<stamp, clock, n>>}, entries \cup {<<s, clock, n>>}, clock + (width + 1), clock,
                          times, width, late, last)
           /\ ~(Cardinality(kept) < times) => Client(s, kept, entries, until, clock, times, width, late, last)
<1>0. /\ until \in Nat /\ last \in Nat /\ times \in Nat /\ width \in Nat /\ late \in Nat /\ stamp \in Nat
      /\ clock \in 0..last /\ clock \in Nat /\ s \in clients /\ stamp <= clock /\ clock <= stamp + late
    BY DEF Evaluating
<1>x. Admissions(clients, last, entries) /\ Client(s, members, entries, until, clock, times, width, late, last)
    BY DEF Evaluating
<1>y. kept = {m \in IF clock >= until THEN {} ELSE members : m[1] > stamp - width}
    BY DEF Evaluating
<1> USE <1>0, <1>x
<1> DEFINE e == <<s, clock, n>>  m == <<stamp, clock, n>>  new == entries \cup {e}
<1>1. /\ kept \subseteq members /\ IsFiniteSet(kept) /\ Cardinality(kept) \in Nat /\ Cardinality(kept) <= times
      /\ \A x \in entries : x[1] = s /\ x[2] - late > clock - width => \E k \in kept : k[2] = x[2] /\ k[3] = x[3]
      /\ \A t \in 0..last : t > clock - (width - late)
                => Cardinality(Within(entries, s, t, width - late)) <= Cardinality(kept)
    BY KeptOnes
<1>2. n \in Nat /\ IsFiniteSet(entries) /\ \A x \in entries : x[2] \in Nat /\ x[3] \in Nat
    <2>1. IsFiniteSet(entries)
        BY DEF Admissions
    <2>2. At(entries, s, clock) \subseteq entries
        BY DEF At
    <2>3. n \in Nat
        BY <2>1, <2>2, PartOf
    <2> QED BY <2>1, <2>3 DEF Admissions
<1>3. Client(s, kept, entries, until, clock, times, width, late, last)
    BY <1>1 DEF Client
<1>4. e \notin entries
    <2> SUFFICES ASSUME e \in entries PROVE FALSE
        OBVIOUS
    <2>1. e[3] < Cardinality(At(entries, s, e[2])) /\ e[2] = clock /\ e[3] = n
        BY DEF Client
    <2> QED BY <1>2, <2>1
<1>5. ASSUME Cardinality(kept) < times
      PROVE  /\ Admissions(clients, last, new)
             /\ Client(s, kept \cup {m}, new, clock + (width + 1), clock, times, width, late, last)
    <2>1. Admissions(clients, last, new)
        <3>1. e \in clients \X (0..last) \X Nat
            BY <1>2
        <3> HIDE DEF e
        <3> QED BY <1>2, <3>1, FS_AddElement DEF Admissions
    <2>2. e[1] = s /\ e[2] = clock /\ e[3] = n /\ m[1] = stamp /\ m[2] = clock /\ m[3] = n /\ m \in Stamps(last)
        BY <1>2 DEF Stamps
    <2> HIDE DEF e, m
    <2>3. kept \cup {m} \subseteq Stamps(last) /\ IsFiniteSet(kept \cup {m}) /\ Cardinality(kept \cup {m}) <= times
        <3>1. Cardinality(kept \cup {m}) <= Cardinality(kept) + 1 /\ IsFiniteSet(kept \cup {m})
            <4>1. /\ IsFiniteSet(kept \cup {m})
                  /\ Cardinality(kept \cup {m}) = IF m \in kept THEN Cardinality(kept) ELSE Cardinality(kept) + 1
                BY <1>1, FS_AddElement
            <4> QED BY <1>1, <4>1
        <3>2. kept \subseteq Stamps(last)
            BY <1>3 DEF Client
        <3>3. Cardinality(kept \cup {m}) \in Nat
            BY <3>1, FS_CardinalityType
        <3> QED BY <1>1, <1>5, <2>2, <3>1, <3>2, <3>3
    <2>4. \A k \in kept \cup {m} : <<s, k[2], k[3]>> \in new /\ k[1] <= k[2] /\ k[2] <= k[1] + late
        BY <1>3, <2>2 DEF Client, e
    <2>5. \A k \in kept : ~(k[2] = clock /\ k[3] = n)
        BY <1>3, <1>4 DEF Client, e
    <2>6. \A k, l \in kept \cup {m} : k[2] = l[2] /\ k[3] = l[3] => k = l
        BY <1>3, <2>2, <2>5 DEF Client
    <2>7. /\ \A t : t # clock => At(new, s, t) = At(entries, s, t)
          /\ At(new, s, clock) = At(entries, s, clock) \cup {e} /\ e \notin At(entries, s, clock)
        BY <1>4, <2>2 DEF At
    <2>8. Cardinality(At(new, s, clock)) = n + 1
        <3>1. IsFiniteSet(At(entries, s, clock))
            BY <1>2, PartOf DEF At
        <3> QED BY <2>7, <3>1, FS_AddElement
    <2>9. ASSUME NEW x \in new, x[1] = s
          PROVE  /\ x[2] <= clock /\ x[2] + width + 1 <= clock + (width + 1)
                 /\ x[3] < Cardinality(At(new, s, x[2]))
                 /\ x[2] - late > clock - width => \E k \in kept \cup {m} : k[2] = x[2] /\ k[3] = x[3]
        <3>1. CASE x = e
            BY <1>2, <2>2, <2>8, <3>1
        <3>2. CASE x \in entries
            <4>1. x[2] <= clock /\ x[3] < Cardinality(At(entries, s, x[2])) /\ x[2] \in Nat /\ x[3] \in Nat
                BY <1>2, <2>9, <3>2 DEF Client
            <4>2. x[3] < Cardinality(At(new, s, x[2]))
                <5>1. CASE x[2] = clock
                    BY <1>2, <2>8, <4>1, <5>1
                <5>2. CASE x[2] # clock
                    BY <2>7, <4>1, <5>2
                <5> QED BY <5>1, <5>2
            <4>3. x[2] - late > clock - width => \E k \in kept : k[2] = x[2] /\ k[3] = x[3]
                BY <1>1, <2>9, <3>2
            <4> QED BY <4>1, <4>2, <4>3
        <3> QED BY <3>1, <3>2
    <2>10. ASSUME NEW t \in 0..last PROVE Cardinality(Within(new, s, t, width - late)) <= times
        <3>1. Cardinality(Within(entries, s, t, width - late)) <= times
            BY DEF Client
        <3>2. CASE t <= clock /\ clock < t + (width - late)
            <4>1. Within(new, s, t, width - late) = Within(entries, s, t, width - late) \cup {e}
                BY <2>2, <3>2 DEF Within
            <4>2. IsFiniteSet(Within(entries, s, t, width - late)) /\ Cardinality(Within(entries, s, t, width - late)) \in Nat
                BY <1>2, PartOf DEF Within
            <4>3. Cardinality(Within(entries, s, t, width - late)) <= Cardinality(kept)
                BY <1>1, <3>2
            <4>4. \/ Cardinality(Within(new, s, t, width - late)) = Cardinality(Within(entries, s, t, width - late))
                  \/ Cardinality(Within(new, s, t, width - late)) = Cardinality(Within(entries, s, t, width - late)) + 1
                BY <4>1, <4>2, FS_AddElement
            <4> QED BY <1>1, <1>5, <4>2, <4>3, <4>4
        <3>3. CASE ~(t <= clock /\ clock < t + (width - late))
            <4>1. Within(new, s, t, width - late) = Within(entries, s, t, width - late)
                BY <2>2, <3>3 DEF Within
            <4> QED BY <3>1, <4>1
        <3> QED BY <3>2, <3>3
    <2> HIDE DEF new
    <2>11. Client(s, kept \cup {m}, new, clock + (width + 1), clock, times, width, late, last)
        BY <2>3, <2>4, <2>6, <2>9, <2>10 DEF Client
    <2> QED BY <2>1, <2>11
<1> QED BY <1>3, <1>4, <1>5

-----------------------------------------------------------------------------
RequestRow(clients, last) ==
    [st : {"free", "body", "limiter", "stamped"}, sender : clients \cup {None}, peer : clients \cup {"proxy", None},
     header : clients \cup {None}, kind : {"json", "multipart", "other"}, read : Nat, stamp : 0..last]

\* Whose request it is, as the server sees it.
SeenAs(row) == IF row.peer = "proxy" /\ row.header # None THEN row.header ELSE row.peer
Honest(row, clients) == row.st # "free" => row.sender \in clients /\ SeenAs(row) = row.sender

WindowInv(clients, requests, times, last) ==
    /\ now \in 0..last
    /\ req \in [requests -> RequestRow(clients, last)]
    /\ \A r \in requests : Honest(req[r], clients)
    /\ \A r \in requests : req[r].st = "stamped" => req[r].stamp <= now /\ now <= req[r].stamp + 1
    /\ zset \in [clients \cup {"proxy"} -> SUBSET Stamps(last)] /\ zset["proxy"] = {}
    /\ expires \in [clients \cup {"proxy"} -> 0..(last + 4)]
    /\ Admissions(clients, last, admitted)
    /\ \A s \in clients : Client(s, zset[s], admitted, expires[s], now, times, 3, 1, last)

\* The steps of a request up to its stamp, of the clock, and of the script.
Moves(clients, requests, last) ==
    \E r \in requests, row \in RequestRow(clients, last) :
        /\ req[r].st # "stamped" /\ Honest(row, clients) /\ (row.st = "stamped" => row.stamp = now)
        /\ req' = [req EXCEPT ![r] = row]
        /\ UNCHANGED <<now, zset, expires, admitted>>

Ticks(requests, last) ==
    /\ now < last /\ \A r \in requests : req[r].st = "stamped" => now < req[r].stamp + 1
    /\ now' = now + 1
    /\ UNCHANGED <<zset, expires, req, admitted>>

Kept(s, stamp) == {m \in IF now >= expires[s] THEN {} ELSE zset[s] : m[1] > stamp - 3}

Evaluates(clients, requests, times, last) ==
    \E r \in requests, row \in RequestRow(clients, last) :
        LET s == req[r].sender
            kept == Kept(s, req[r].stamp)
            n == Cardinality(At(admitted, s, now))
        IN /\ req[r].st = "stamped" /\ row.st = "free" /\ req' = [req EXCEPT ![r] = row]
           /\ now' = now
           /\ \/ /\ Cardinality(kept) < times
                 /\ zset' = [zset EXCEPT ![s] = kept \cup {<<req[r].stamp, now, n>>}]
                 /\ expires' = [expires EXCEPT ![s] = now + 4]
                 /\ admitted' = admitted \cup {<<s, now, n>>}
              \/ /\ ~(Cardinality(kept) < times)
                 /\ zset' = [zset EXCEPT ![s] = kept]
                 /\ UNCHANGED <<expires, admitted>>

Rejects(requests, times) ==
    \A r \in requests : (req[r].st = "stamped" /\ req'[r].st = "free" /\ admitted' = admitted) =>
        Cardinality(Recent(admitted, req[r].sender, now - 3 - 1)) >= times

LEMMA MovesKeep ==
    ASSUME NEW clients, NEW requests, NEW times \in Nat, NEW last \in Nat,
           WindowInv(clients, requests, times, last), Moves(clients, requests, last)
    PROVE  WindowInv(clients, requests, times, last)' /\ Rejects(requests, times)
<1>1. PICK r \in requests, row \in RequestRow(clients, last) :
        /\ req[r].st # "stamped" /\ Honest(row, clients) /\ (row.st = "stamped" => row.stamp = now)
        /\ req' = [req EXCEPT ![r] = row]
        /\ UNCHANGED <<now, zset, expires, admitted>>
    BY DEF Moves
<1>2. req \in [requests -> RequestRow(clients, last)] /\ now \in Nat
    BY DEF WindowInv
<1>3. /\ req' \in [requests -> RequestRow(clients, last)] /\ req'[r] = row
      /\ \A q \in requests : q # r => req'[q] = req[q]
    BY <1>1, <1>2
<1>4. row.st = "stamped" => row.stamp <= now /\ now <= row.stamp + 1
    BY <1>1, <1>2
<1>5. WindowInv(clients, requests, times, last)'
    BY <1>1, <1>3, <1>4 DEF WindowInv
<1>6. Rejects(requests, times)
    BY <1>1, <1>3 DEF Rejects
<1> QED BY <1>5, <1>6

LEMMA TicksKeep ==
    ASSUME NEW clients, NEW requests, NEW times \in Nat, NEW last \in Nat,
           WindowInv(clients, requests, times, last), Ticks(requests, last)
    PROVE  WindowInv(clients, requests, times, last)' /\ Rejects(requests, times)
<1>1. /\ now \in Nat /\ now' = now + 1 /\ now' \in 0..last /\ UNCHANGED <<zset, expires, req, admitted>>
      /\ \A r \in requests : req[r].st = "stamped" => now < req[r].stamp + 1
    BY DEF Ticks, WindowInv
<1>2. \A r \in requests : req[r].st = "stamped" => req[r].stamp <= now + 1 /\ now + 1 <= req[r].stamp + 1
    <2> TAKE r \in requests
    <2>1. req[r].stamp \in Nat
        BY DEF WindowInv, RequestRow
    <2> QED BY <1>1, <2>1 DEF WindowInv
<1>3. \A s \in clients : Client(s, zset[s], admitted, expires[s], now + 1, times, 3, 1, last)
    <2> TAKE s \in clients
    <2>1. /\ expires[s] \in Nat /\ Admissions(clients, last, admitted)
          /\ Client(s, zset[s], admitted, expires[s], now, times, 3, 1, last)
        BY DEF WindowInv
    <2> QED BY <1>1, <2>1, ClientTicks
<1>4. WindowInv(clients, requests, times, last)'
    BY <1>1, <1>2, <1>3 DEF WindowInv
<1>5. Rejects(requests, times)
    BY <1>1 DEF Rejects
<1> QED BY <1>4, <1>5

LEMMA EvaluatesKeep ==
    ASSUME NEW clients, NEW requests, NEW times \in Nat, NEW last \in Nat, "proxy" \notin clients,
           WindowInv(clients, requests, times, last), Evaluates(clients, requests, times, last)
    PROVE  WindowInv(clients, requests, times, last)' /\ Rejects(requests, times)
<1>1. PICK r \in requests, row \in RequestRow(clients, last) :
        LET s == req[r].sender
            kept == Kept(s, req[r].stamp)
            n == Cardinality(At(admitted, s, now))
        IN /\ req[r].st = "stamped" /\ row.st = "free" /\ req' = [req EXCEPT ![r] = row]
           /\ now' = now
           /\ \/ /\ Cardinality(kept) < times
                 /\ zset' = [zset EXCEPT ![s] = kept \cup {<<req[r].stamp, now, n>>}]
                 /\ expires' = [expires EXCEPT ![s] = now + 4]
                 /\ admitted' = admitted \cup {<<s, now, n>>}
              \/ /\ ~(Cardinality(kept) < times)
                 /\ zset' = [zset EXCEPT ![s] = kept]
                 /\ UNCHANGED <<expires, admitted>>
    BY DEF Evaluates
<1> DEFINE s == req[r].sender
           stamp == req[r].stamp
           kept == Kept(s, stamp)
           n == Cardinality(At(admitted, s, now))
<1>2. /\ req \in [requests -> RequestRow(clients, last)] /\ now \in 0..last /\ now \in Nat
      /\ req[r].st = "stamped" /\ row.st = "free" /\ req' = [req EXCEPT ![r] = row] /\ now' = now
    BY <1>1 DEF WindowInv
<1>3. s \in clients /\ stamp \in 0..last /\ stamp <= now /\ now <= stamp + 1 /\ expires[s] \in Nat
    <2>1. s \in clients
        BY <1>2 DEF WindowInv, Honest
    <2> QED BY <1>2, <2>1 DEF WindowInv, RequestRow
<1>4. Client(s, zset[s], admitted, expires[s], now, times, 3, 1, last) /\ Admissions(clients, last, admitted)
    BY <1>3 DEF WindowInv
<1>5. Evaluating(s, zset[s], admitted, expires[s], now, stamp, kept, times, 3, 1, last, clients)
    BY <1>2, <1>3, <1>4 DEF Evaluating, Kept
<1>6. \/ /\ Cardinality(kept) < times
         /\ zset' = [zset EXCEPT ![s] = kept \cup {<<stamp, now, n>>}]
         /\ expires' = [expires EXCEPT ![s] = now + 4]
         /\ admitted' = admitted \cup {<<s, now, n>>}
      \/ /\ ~(Cardinality(kept) < times)
         /\ zset' = [zset EXCEPT ![s] = kept]
         /\ UNCHANGED <<expires, admitted>>
    BY <1>1
<1> HIDE DEF kept, n, s, stamp
<1>7. /\ zset \in [clients \cup {"proxy"} -> SUBSET Stamps(last)] /\ zset["proxy"] = {}
      /\ expires \in [clients \cup {"proxy"} -> 0..(last + 4)] /\ s # "proxy"
    BY <1>3 DEF WindowInv
<1>8. /\ Cardinality(kept) < times =>
                /\ <<s, now, n>> \notin admitted
                /\ Admissions(clients, last, admitted \cup {<<s, now, n>>})
                /\ Client(s, kept \cup {<<stamp, now, n>>}, admitted \cup {<<s, now, n>>}, now + (3 + 1), now,
                          times, 3, 1, last)
      /\ ~(Cardinality(kept) < times) => Client(s, kept, admitted, expires[s], now, times, 3, 1, last)
    BY <1>5, ClientCounts DEF n
<1>9. ~(Cardinality(kept) < times) => Cardinality(Recent(admitted, s, now - 3 - 1)) >= times
    <2>1. Cardinality(kept) <= Cardinality(Recent(admitted, s, now - 3 - 1)) /\ Cardinality(kept) \in Nat
        BY <1>5, KeptOnes
    <2>2. Recent(admitted, s, now - 3 - 1) \subseteq admitted
        BY DEF Recent
    <2>3. Cardinality(Recent(admitted, s, now - 3 - 1)) \in Nat
        BY <1>4, <2>2, PartOf DEF Admissions
    <2> QED BY <2>1, <2>3
<1>10. /\ req' \in [requests -> RequestRow(clients, last)] /\ req'[r].st = "free"
       /\ \A q \in requests : q # r => req'[q] = req[q]
    BY <1>2
<1>11. /\ \A q \in requests : Honest(req'[q], clients)
       /\ \A q \in requests : req'[q].st = "stamped" => req'[q].stamp <= now /\ now <= req'[q].stamp + 1
    BY <1>10 DEF WindowInv, Honest
<1>12. CASE Cardinality(kept) < times
    <2>1. /\ zset' = [zset EXCEPT ![s] = kept \cup {<<stamp, now, n>>}] /\ expires' = [expires EXCEPT ![s] = now + 4]
          /\ admitted' = admitted \cup {<<s, now, n>>}
        BY <1>6, <1>12
    <2>2. /\ Admissions(clients, last, admitted')
          /\ Client(s, zset'[s], admitted', expires'[s], now, times, 3, 1, last)
          /\ admitted' # admitted
        <3>1. 3 + 1 = 4
            OBVIOUS
        <3>2. zset'[s] = kept \cup {<<stamp, now, n>>} /\ expires'[s] = now + 4
            BY <1>3, <1>7, <2>1
        <3> QED BY <1>8, <1>12, <2>1, <3>1, <3>2
    <2>3. \A u \in clients : Client(u, zset'[u], admitted', expires'[u], now, times, 3, 1, last)
        <3> TAKE u \in clients
        <3>1. CASE u = s
            BY <2>2, <3>1
        <3>2. CASE u # s
            <4>1. Client(u, zset[u], admitted, expires[u], now, times, 3, 1, last) /\ IsFiniteSet(admitted)
                BY DEF WindowInv, Admissions
            <4>2. Client(u, zset[u], admitted \cup {<<s, now, n>>}, expires[u], now, times, 3, 1, last)
                BY <3>2, <4>1, OthersStay
            <4>3. zset'[u] = zset[u] /\ expires'[u] = expires[u]
                BY <1>7, <2>1, <3>2
            <4> QED BY <2>1, <4>2, <4>3
        <3> QED BY <3>1, <3>2
    <2>4. zset'[s] \subseteq Stamps(last)
        BY <1>3, <2>3 DEF Client
    <2>5. /\ zset' \in [clients \cup {"proxy"} -> SUBSET Stamps(last)] /\ zset'["proxy"] = {}
          /\ expires' \in [clients \cup {"proxy"} -> 0..(last + 4)]
        BY <1>2, <1>3, <1>7, <2>1, <2>4
    <2>6. WindowInv(clients, requests, times, last)'
        BY <1>2, <1>10, <1>11, <2>2, <2>3, <2>5 DEF WindowInv
    <2>7. Rejects(requests, times)
        BY <2>2 DEF Rejects
    <2> QED BY <2>6, <2>7
<1>13. CASE ~(Cardinality(kept) < times)
    <2>1. zset' = [zset EXCEPT ![s] = kept] /\ UNCHANGED <<expires, admitted>>
        BY <1>6, <1>13
    <2>2. \A u \in clients : Client(u, zset'[u], admitted', expires'[u], now, times, 3, 1, last)
        BY <1>7, <1>8, <1>13, <2>1 DEF WindowInv
    <2>3. zset'[s] \subseteq Stamps(last)
        BY <1>3, <2>2 DEF Client
    <2>4. zset' \in [clients \cup {"proxy"} -> SUBSET Stamps(last)] /\ zset'["proxy"] = {}
        BY <1>3, <1>7, <2>1, <2>3
    <2>5. WindowInv(clients, requests, times, last)'
        BY <1>2, <1>4, <1>7, <1>10, <1>11, <2>1, <2>2, <2>4 DEF WindowInv
    <2>6. Rejects(requests, times)
        BY <1>9, <1>10, <1>13, <2>1 DEF Rejects, s
    <2> QED BY <2>5, <2>6
<1> QED BY <1>12, <1>13

-----------------------------------------------------------------------------
FreeRow == [st |-> "free", sender |-> None, peer |-> None, header |-> None, kind |-> "other", read |-> 0, stamp |-> 0]
ArrivedRow(s, p, h, k) == [st |-> "body", sender |-> s, peer |-> p, header |-> h, kind |-> k, read |-> 0, stamp |-> 0]

LEMMA FreeOnes ==
    ASSUME NEW clients, NEW last \in Nat
    PROVE  FreeRow \in RequestRow(clients, last) /\ Honest(FreeRow, clients) /\ FreeRow.st = "free"
BY DEF FreeRow, RequestRow, Honest

LEMMA Arriving ==
    ASSUME NEW s, NEW p, NEW h, NEW k
    PROVE  [FreeRow EXCEPT !.st = "body", !.sender = s, !.peer = p, !.header = h, !.kind = k] = ArrivedRow(s, p, h, k)
<1> DEFINE f1 == [FreeRow EXCEPT !.st = "body"]
           f2 == [f1 EXCEPT !.sender = s]
           f3 == [f2 EXCEPT !.peer = p]
           f4 == [f3 EXCEPT !.header = h]
           f5 == [f4 EXCEPT !.kind = k]
<1>1. f1 = [st |-> "body", sender |-> None, peer |-> None, header |-> None, kind |-> "other", read |-> 0, stamp |-> 0]
    BY DEF FreeRow
<1> HIDE DEF f1
<1>2. f2 = [st |-> "body", sender |-> s, peer |-> None, header |-> None, kind |-> "other", read |-> 0, stamp |-> 0]
    BY <1>1
<1> HIDE DEF f2
<1>3. f3 = [st |-> "body", sender |-> s, peer |-> p, header |-> None, kind |-> "other", read |-> 0, stamp |-> 0]
    BY <1>2
<1> HIDE DEF f3
<1>4. f4 = [st |-> "body", sender |-> s, peer |-> p, header |-> h, kind |-> "other", read |-> 0, stamp |-> 0]
    BY <1>3
<1> HIDE DEF f4
<1>5. f5 = ArrivedRow(s, p, h, k)
    BY <1>4 DEF ArrivedRow
<1> QED BY <1>5 DEF f1, f2, f3, f4, f5

LEMMA NothingYet ==
    ASSUME NEW s, NEW times \in Nat, NEW last \in Nat PROVE Client(s, {}, {}, 0, 0, times, 3, 1, last)
<1>1. Cardinality({}) = 0 /\ IsFiniteSet({})
    BY FS_EmptySet
<1>2. \A t : Within({}, s, t, 3 - 1) = {}
    BY DEF Within
<1> QED BY <1>1, <1>2 DEF Client

LEMMA LimitsStarts == Limits!Init => WindowInv(Two, {"q1", "q2"}, 1, 5)
<1> SUFFICES ASSUME Limits!Init PROVE WindowInv(Two, {"q1", "q2"}, 1, 5)
    OBVIOUS
<1>1. /\ now = 0 /\ admitted = {} /\ req = [r \in {"q1", "q2"} |-> FreeRow]
      /\ zset = [a \in Two \cup {"proxy"} |-> {}] /\ expires = [a \in Two \cup {"proxy"} |-> 0]
    BY DEF Limits!Init, Limits!Addresses, Limits!Free, FreeRow
<1>2. FreeRow \in RequestRow(Two, 5) /\ FreeRow.st = "free"
    BY FreeOnes
<1>3. \A s \in Two : Client(s, {}, {}, 0, 0, 1, 3, 1, 5)
    BY NothingYet
<1>4. Admissions(Two, 5, {})
    BY FS_EmptySet DEF Admissions
<1> QED BY <1>1, <1>2, <1>3, <1>4 DEF WindowInv, Honest

LEMMA LimitsSteps ==
    ASSUME WindowInv(Two, {"q1", "q2"}, 1, 5), Limits!Next
    PROVE  Moves(Two, {"q1", "q2"}, 5) \/ Ticks({"q1", "q2"}, 5) \/ Evaluates(Two, {"q1", "q2"}, 1, 5)
<1>0. None \notin Two /\ "proxy" \notin Two
    BY LimitsSuiteAssumption DEF Limits!LimitsAssumption
<1>1. /\ req \in [{"q1", "q2"} -> RequestRow(Two, 5)] /\ now \in 0..5
      /\ \A r \in {"q1", "q2"} : Honest(req[r], Two)
    BY DEF WindowInv
<1>f. /\ FreeRow \in RequestRow(Two, 5) /\ Honest(FreeRow, Two) /\ FreeRow.st = "free" /\ Limits!Free = FreeRow
    BY FreeOnes DEF Limits!Free, FreeRow
<1>2. CASE Limits!Tick
    BY <1>2 DEF Limits!Tick, Ticks
<1>3. ASSUME NEW r \in {"q1", "q2"}, Limits!Arrive(r) PROVE Moves(Two, {"q1", "q2"}, 5)
    <2>1. PICK s \in Two, peer \in Two \cup {"proxy"}, h \in Two \cup {None}, k \in {"other"} :
            /\ req[r].st = "free" /\ IF peer = "proxy" THEN h = s ELSE peer = s
            /\ req' = [req EXCEPT ![r] = ArrivedRow(s, peer, h, k)]
            /\ UNCHANGED <<now, zset, expires, admitted>>
        <3> DEFINE new(s, peer, h, k) == [Limits!Free EXCEPT !.st = "body", !.sender = s, !.peer = peer, !.header = h, !.kind = k]
        <3>1. \A s, peer, h, k : new(s, peer, h, k) = ArrivedRow(s, peer, h, k)
            BY <1>f, Arriving
        <3>2. PICK s \in Two, peer \in Limits!Addresses, h \in Two \cup {None}, k \in {"other"}, d \in 0..(1 + 1) :
                /\ req[r].st = "free" /\ IF peer = "proxy" THEN h = s ELSE peer = s
                /\ d <= 1
                /\ req' = [req EXCEPT ![r] = new(s, peer, h, k)]
                /\ UNCHANGED <<now, zset, expires, admitted>>
            BY <1>3, Zenon DEF Limits!Arrive
        <3>3. peer \in Two \cup {"proxy"}
            BY <3>2 DEF Limits!Addresses
        <3> HIDE DEF new
        <3> QED BY <3>1, <3>2, <3>3
    <2>2. ArrivedRow(s, peer, h, k) \in RequestRow(Two, 5)
        BY <2>1 DEF ArrivedRow, RequestRow
    <2>3. Honest(ArrivedRow(s, peer, h, k), Two) /\ ArrivedRow(s, peer, h, k).st = "body"
        BY <1>0, <2>1 DEF ArrivedRow, Honest, SeenAs
    <2> QED BY <2>1, <2>2, <2>3 DEF Moves
<1>4. ASSUME NEW r \in {"q1", "q2"}, Limits!ReadBody(r) PROVE Moves(Two, {"q1", "q2"}, 5)
    <2>1. req[r].st = "body" /\ UNCHANGED <<now, zset, expires, admitted>>
        BY <1>4 DEF Limits!ReadBody
    <2>2. CASE req' = [req EXCEPT ![r].st = "limiter"]
        <3> DEFINE row == [req[r] EXCEPT !.st = "limiter"]
        <3>1. req' = [req EXCEPT ![r] = row]
            BY <1>1, <2>2
        <3>2. row \in RequestRow(Two, 5) /\ row.st = "limiter"
            BY <1>1 DEF RequestRow
        <3>3. Honest(row, Two)
            BY <1>1, <2>1 DEF Honest, SeenAs, RequestRow
        <3> HIDE DEF row
        <3> QED BY <2>1, <3>1, <3>2, <3>3 DEF Moves
    <2>3. ASSUME NEW n \in Nat, NEW place \in {"limiter", "body"},
                 req' = [req EXCEPT ![r] = [@ EXCEPT !.read = req[r].read + n, !.st = place]]
          PROVE  Moves(Two, {"q1", "q2"}, 5)
        <3> DEFINE row == [req[r] EXCEPT !.read = req[r].read + n, !.st = place]
        <3>1. req' = [req EXCEPT ![r] = row]
            BY <1>1, <2>3
        <3>2. row \in RequestRow(Two, 5) /\ row.st = place
            <4>1. req[r] \in RequestRow(Two, 5) /\ req[r].read + n \in Nat
                BY <1>1 DEF RequestRow
            <4> DEFINE m == req[r].read + n
            <4> HIDE DEF m
            <4>2. m \in Nat => [req[r] EXCEPT !.read = m, !.st = place] \in RequestRow(Two, 5)
                BY <4>1 DEF RequestRow
            <4>3. [req[r] EXCEPT !.read = m, !.st = place].st = place
                BY <4>1 DEF RequestRow
            <4> QED BY <4>1, <4>2, <4>3 DEF m
        <3>3. Honest(row, Two)
            BY <1>1, <2>1 DEF Honest, SeenAs, RequestRow
        <3> HIDE DEF row
        <3> QED BY <2>1, <3>1, <3>2, <3>3 DEF Moves
    <2>4. CASE req' = [req EXCEPT ![r] = FreeRow]
        BY <1>f, <2>1, <2>4 DEF Moves
    <2>5. \/ req' = [req EXCEPT ![r].st = "limiter"]
          \/ \E n \in 1..1, l \in BOOLEAN :
                req' = [req EXCEPT ![r] = IF req[r].read + n > 1 THEN FreeRow
                                          ELSE [@ EXCEPT !.read = req[r].read + n, !.st = IF l THEN "limiter" ELSE "body"]]
        BY <1>4, <1>f DEF Limits!ReadBody, Limits!Sizes, Limits!Grown
    <2>6. CASE \E n \in 1..1, l \in BOOLEAN :
                req' = [req EXCEPT ![r] = IF req[r].read + n > 1 THEN FreeRow
                                          ELSE [@ EXCEPT !.read = req[r].read + n, !.st = IF l THEN "limiter" ELSE "body"]]
        <3>1. PICK n \in 1..1, l \in BOOLEAN :
                req' = [req EXCEPT ![r] = IF req[r].read + n > 1 THEN FreeRow
                                          ELSE [@ EXCEPT !.read = req[r].read + n, !.st = IF l THEN "limiter" ELSE "body"]]
            BY <2>6
        <3> DEFINE place == IF l THEN "limiter" ELSE "body"
        <3>2. place \in {"limiter", "body"} /\ n \in Nat
            OBVIOUS
        <3>3. req' = [req EXCEPT ![r] = IF req[r].read + n > 1 THEN FreeRow
                                       ELSE [@ EXCEPT !.read = req[r].read + n, !.st = place]]
            BY <3>1
        <3> HIDE DEF place
        <3>4. CASE req[r].read + n > 1
            BY <2>4, <3>3, <3>4
        <3>5. CASE ~(req[r].read + n > 1)
            <4>1. req' = [req EXCEPT ![r] = [@ EXCEPT !.read = req[r].read + n, !.st = place]]
                BY <3>3, <3>5
            <4> QED BY <2>3, <3>2, <4>1
        <3> QED BY <3>4, <3>5
    <2> QED BY <2>2, <2>5, <2>6
<1>5. ASSUME NEW r \in {"q1", "q2"}, Limits!Stamp(r) PROVE Moves(Two, {"q1", "q2"}, 5)
    <2>1. req[r].st = "limiter" /\ UNCHANGED <<now, zset, expires, admitted>>
          /\ req' = [req EXCEPT ![r].st = "stamped", ![r].stamp = now]
        BY <1>5 DEF Limits!Stamp
    <2> DEFINE row == [req[r] EXCEPT !.st = "stamped", !.stamp = now]
    <2>2. req' = [req EXCEPT ![r] = row]
        BY <1>1, <2>1
    <2>3. row \in RequestRow(Two, 5) /\ row.st = "stamped" /\ row.stamp = now
        BY <1>1 DEF RequestRow
    <2>4. Honest(row, Two)
        BY <1>1, <2>1 DEF Honest, SeenAs, RequestRow
    <2> HIDE DEF row
    <2> QED BY <2>1, <2>2, <2>3, <2>4 DEF Moves
<1>6. ASSUME NEW r \in {"q1", "q2"}, Limits!Evaluate(r) PROVE Evaluates(Two, {"q1", "q2"}, 1, 5)
    <2> DEFINE s == req[r].sender
               kept == Kept(s, req[r].stamp)
               n == Cardinality(At(admitted, s, now))
    <2>1. req[r].st = "stamped" /\ now' = now /\ req' = [req EXCEPT ![r] = FreeRow]
        BY <1>6, <1>f DEF Limits!Evaluate
    <2>2. Limits!Resolve(req[r].peer, req[r].header) = s
        BY <1>1, <2>1 DEF Limits!Resolve, Honest, SeenAs
    <2>3. Limits!InWindow(Limits!Live(s), req[r].stamp) = kept
        BY DEF Limits!InWindow, Limits!Live, Kept
    <2>4. \A S : Limits!Cardinality(S) = Cardinality(S)
        BY DEF Limits!Cardinality, Cardinality
    <2>5. Limits!Cardinality({e \in admitted : e[1] = req[r].sender /\ e[2] = now}) = n
        BY <2>4 DEF At
    <2>6. \A m : Limits!Counted(kept, m) = IF Cardinality(kept) < 1 THEN kept \cup {m} ELSE kept
        BY <2>4 DEF Limits!Counted
    <2>7. Limits!Ttl = 4
        BY DEF Limits!Ttl
    <2>8. /\ zset' = [zset EXCEPT ![s] = Limits!Counted(kept, <<req[r].stamp, now, n>>)]
          /\ expires' = IF Limits!Cardinality(kept) < 1 THEN [expires EXCEPT ![s] = now + Limits!Ttl] ELSE expires
          /\ admitted' = IF Limits!Cardinality(kept) < 1 THEN admitted \cup {<<s, now, n>>} ELSE admitted
        <3> HIDE DEF kept, n
        <3> QED BY <1>6, <2>2, <2>3, <2>5 DEF Limits!Evaluate
    <2>9. \/ /\ Cardinality(kept) < 1
             /\ zset' = [zset EXCEPT ![s] = kept \cup {<<req[r].stamp, now, n>>}]
             /\ expires' = [expires EXCEPT ![s] = now + 4]
             /\ admitted' = admitted \cup {<<s, now, n>>}
          \/ /\ ~(Cardinality(kept) < 1)
             /\ zset' = [zset EXCEPT ![s] = kept]
             /\ UNCHANGED <<expires, admitted>>
        <3> HIDE DEF kept, n, s
        <3> QED BY <2>4, <2>6, <2>7, <2>8
    <2> QED BY <1>f, <2>1, <2>9 DEF Evaluates
<1> QED BY <1>2, <1>3, <1>4, <1>5, <1>6 DEF Limits!Next

LEMMA LimitsKeeps ==
    ASSUME WindowInv(Two, {"q1", "q2"}, 1, 5), Limits!Next
    PROVE  WindowInv(Two, {"q1", "q2"}, 1, 5)' /\ Limits!RejectedOnlyWhenFullStep
<1>1. "proxy" \notin Two /\ 1 \in Nat /\ 5 \in Nat
    BY LimitsSuiteAssumption DEF Limits!LimitsAssumption
<1>2. WindowInv(Two, {"q1", "q2"}, 1, 5)' /\ Rejects({"q1", "q2"}, 1)
    BY <1>1, LimitsSteps, MovesKeep, TicksKeep, EvaluatesKeep
<1>3. \A S : Limits!Cardinality(S) = Cardinality(S)
    BY DEF Limits!Cardinality, Cardinality
<1>4. Limits!RejectedOnlyWhenFullStep
    BY <1>2, <1>3 DEF Rejects, Recent, Limits!RejectedOnlyWhenFullStep
<1> QED BY <1>2, <1>4

LEMMA LimitsSafe == WindowInv(Two, {"q1", "q2"}, 1, 5) => Limits!TypeOK /\ Limits!WindowHolds
<1> SUFFICES ASSUME WindowInv(Two, {"q1", "q2"}, 1, 5) PROVE Limits!TypeOK /\ Limits!WindowHolds
    OBVIOUS
<1>1. \A S : Limits!Cardinality(S) = Cardinality(S)
    BY DEF Limits!Cardinality, Cardinality
<1>2. /\ now \in 0..5 /\ req \in [{"q1", "q2"} -> RequestRow(Two, 5)]
      /\ zset["proxy"] = {} /\ expires \in [Two \cup {"proxy"} -> 0..(5 + 4)]
      /\ Admissions(Two, 5, admitted)
    BY DEF WindowInv
<1>3. \A s \in Two : /\ zset[s] \subseteq Stamps(5) /\ Cardinality(zset[s]) <= 1
                           /\ \A t \in 0..5 : Cardinality(Within(admitted, s, t, 3 - 1)) <= 1
    BY DEF WindowInv, Client
<1>4. Limits!WindowHolds
    <2> SUFFICES ASSUME NEW s \in Two, NEW t \in 0..5
                 PROVE  Limits!Cardinality({e \in admitted : e[1] = s /\ t <= e[2] /\ e[2] < t + 3 - 1}) <= 1
        BY DEF Limits!WindowHolds
    <2>1. {e \in admitted : e[1] = s /\ t <= e[2] /\ e[2] < t + 3 - 1} = Within(admitted, s, t, 3 - 1)
        <3>1. t + 3 - 1 = t + (3 - 1)
            OBVIOUS
        <3> QED BY <3>1 DEF Within
    <2> QED BY <1>1, <1>3, <2>1
<1>5. \A a \in Limits!Addresses :
         /\ \A m \in zset[a] : m \in (0..5) \X (0..5) \X Nat
         /\ Limits!Cardinality(zset[a]) <= 1
    <2> TAKE a \in Limits!Addresses
    <2>1. CASE a = "proxy"
        <3>1. Cardinality({}) = 0 /\ zset[a] = {}
            BY <1>2, <2>1, FS_EmptySet
        <3> QED BY <1>1, <3>1
    <2>2. CASE a \in Two
        BY <1>1, <1>3, <2>2 DEF Stamps
    <2> QED BY <2>1, <2>2 DEF Limits!Addresses
<1>6. \A a \in Two \cup {"proxy"} : expires[a] \in 0..(5 + 3 + 1)
    BY <1>2
<1>7. \A e \in admitted : e \in Two \X (0..5) \X Nat
    BY <1>2 DEF Admissions
<1>8. Limits!TypeOK
    <2>1. Limits!Addresses = Two \cup {"proxy"}
        BY DEF Limits!Addresses
    <2>2. now \in 0..5
        BY <1>2
    <2>4. \A a \in Limits!Addresses : expires[a] \in 0..(5 + 3 + 1)
        BY <1>6, <2>1
    <2>5. \A r \in {"q1", "q2"} : req[r] \in [st : {"free", "body", "limiter", "stamped"},
          sender : Two \cup {None}, peer : Limits!Addresses \cup {None},
          header : Two \cup {None}, kind : {"json", "multipart", "other"}, read : Nat, stamp : 0..5]
        BY <1>2, <2>1 DEF RequestRow
    <2> QED BY <1>5, <1>7, <2>2, <2>4, <2>5, Zenon DEF Limits!TypeOK
<1> QED BY <1>4, <1>8

LEMMA SecondStarts == Second!Init => WindowInv(First, Two, 2, 6)
<1> SUFFICES ASSUME Second!Init PROVE WindowInv(First, Two, 2, 6)
    OBVIOUS
<1>1. /\ now = 0 /\ admitted = {} /\ req = [r \in Two |-> FreeRow]
      /\ zset = [a \in First \cup {"proxy"} |-> {}] /\ expires = [a \in First \cup {"proxy"} |-> 0]
    BY DEF Second!Init, Second!Addresses, Second!Free, FreeRow
<1>2. FreeRow \in RequestRow(First, 6) /\ FreeRow.st = "free"
    BY FreeOnes
<1>3. \A s \in First : Client(s, {}, {}, 0, 0, 2, 3, 1, 6)
    BY NothingYet
<1>4. Admissions(First, 6, {})
    BY FS_EmptySet DEF Admissions
<1> QED BY <1>1, <1>2, <1>3, <1>4 DEF WindowInv, Honest

LEMMA SecondSteps ==
    ASSUME WindowInv(First, Two, 2, 6), Second!Next
    PROVE  Moves(First, Two, 6) \/ Ticks(Two, 6) \/ Evaluates(First, Two, 2, 6)
<1>0. None \notin First /\ "proxy" \notin First
    BY LimitsSuiteAssumption DEF Second!LimitsAssumption
<1>1. /\ req \in [Two -> RequestRow(First, 6)] /\ now \in 0..6
      /\ \A r \in Two : Honest(req[r], First)
    BY DEF WindowInv
<1>f. /\ FreeRow \in RequestRow(First, 6) /\ Honest(FreeRow, First) /\ FreeRow.st = "free" /\ Second!Free = FreeRow
    BY FreeOnes DEF Second!Free, FreeRow
<1>2. CASE Second!Tick
    BY <1>2 DEF Second!Tick, Ticks
<1>3. ASSUME NEW r \in Two, Second!Arrive(r) PROVE Moves(First, Two, 6)
    <2>1. PICK s \in First, peer \in First \cup {"proxy"}, h \in First \cup {None}, k \in {"other"} :
            /\ req[r].st = "free" /\ IF peer = "proxy" THEN h = s ELSE peer = s
            /\ req' = [req EXCEPT ![r] = ArrivedRow(s, peer, h, k)]
            /\ UNCHANGED <<now, zset, expires, admitted>>
        <3> DEFINE new(s, peer, h, k) == [Second!Free EXCEPT !.st = "body", !.sender = s, !.peer = peer, !.header = h, !.kind = k]
        <3>1. \A s, peer, h, k : new(s, peer, h, k) = ArrivedRow(s, peer, h, k)
            BY <1>f, Arriving
        <3>2. PICK s \in First, peer \in Second!Addresses, h \in First \cup {None}, k \in {"other"}, d \in 0..(1 + 1) :
                /\ req[r].st = "free" /\ IF peer = "proxy" THEN h = s ELSE peer = s
                /\ d <= 1
                /\ req' = [req EXCEPT ![r] = new(s, peer, h, k)]
                /\ UNCHANGED <<now, zset, expires, admitted>>
            BY <1>3, Zenon DEF Second!Arrive
        <3>3. peer \in First \cup {"proxy"}
            BY <3>2 DEF Second!Addresses
        <3> HIDE DEF new
        <3> QED BY <3>1, <3>2, <3>3
    <2>2. ArrivedRow(s, peer, h, k) \in RequestRow(First, 6)
        BY <2>1 DEF ArrivedRow, RequestRow
    <2>3. Honest(ArrivedRow(s, peer, h, k), First) /\ ArrivedRow(s, peer, h, k).st = "body"
        BY <1>0, <2>1 DEF ArrivedRow, Honest, SeenAs
    <2> QED BY <2>1, <2>2, <2>3 DEF Moves
<1>4. ASSUME NEW r \in Two, Second!ReadBody(r) PROVE Moves(First, Two, 6)
    <2>1. req[r].st = "body" /\ UNCHANGED <<now, zset, expires, admitted>>
        BY <1>4 DEF Second!ReadBody
    <2>2. CASE req' = [req EXCEPT ![r].st = "limiter"]
        <3> DEFINE row == [req[r] EXCEPT !.st = "limiter"]
        <3>1. req' = [req EXCEPT ![r] = row]
            BY <1>1, <2>2
        <3>2. row \in RequestRow(First, 6) /\ row.st = "limiter"
            BY <1>1 DEF RequestRow
        <3>3. Honest(row, First)
            BY <1>1, <2>1 DEF Honest, SeenAs, RequestRow
        <3> HIDE DEF row
        <3> QED BY <2>1, <3>1, <3>2, <3>3 DEF Moves
    <2>3. ASSUME NEW n \in Nat, NEW place \in {"limiter", "body"},
                 req' = [req EXCEPT ![r] = [@ EXCEPT !.read = req[r].read + n, !.st = place]]
          PROVE  Moves(First, Two, 6)
        <3> DEFINE row == [req[r] EXCEPT !.read = req[r].read + n, !.st = place]
        <3>1. req' = [req EXCEPT ![r] = row]
            BY <1>1, <2>3
        <3>2. row \in RequestRow(First, 6) /\ row.st = place
            <4>1. req[r] \in RequestRow(First, 6) /\ req[r].read + n \in Nat
                BY <1>1 DEF RequestRow
            <4> DEFINE m == req[r].read + n
            <4> HIDE DEF m
            <4>2. m \in Nat => [req[r] EXCEPT !.read = m, !.st = place] \in RequestRow(First, 6)
                BY <4>1 DEF RequestRow
            <4>3. [req[r] EXCEPT !.read = m, !.st = place].st = place
                BY <4>1 DEF RequestRow
            <4> QED BY <4>1, <4>2, <4>3 DEF m
        <3>3. Honest(row, First)
            BY <1>1, <2>1 DEF Honest, SeenAs, RequestRow
        <3> HIDE DEF row
        <3> QED BY <2>1, <3>1, <3>2, <3>3 DEF Moves
    <2>4. CASE req' = [req EXCEPT ![r] = FreeRow]
        BY <1>f, <2>1, <2>4 DEF Moves
    <2>5. \/ req' = [req EXCEPT ![r].st = "limiter"]
          \/ \E n \in 1..1, l \in BOOLEAN :
                req' = [req EXCEPT ![r] = IF req[r].read + n > 1 THEN FreeRow
                                          ELSE [@ EXCEPT !.read = req[r].read + n, !.st = IF l THEN "limiter" ELSE "body"]]
        BY <1>4, <1>f DEF Second!ReadBody, Second!Sizes, Second!Grown
    <2>6. CASE \E n \in 1..1, l \in BOOLEAN :
                req' = [req EXCEPT ![r] = IF req[r].read + n > 1 THEN FreeRow
                                          ELSE [@ EXCEPT !.read = req[r].read + n, !.st = IF l THEN "limiter" ELSE "body"]]
        <3>1. PICK n \in 1..1, l \in BOOLEAN :
                req' = [req EXCEPT ![r] = IF req[r].read + n > 1 THEN FreeRow
                                          ELSE [@ EXCEPT !.read = req[r].read + n, !.st = IF l THEN "limiter" ELSE "body"]]
            BY <2>6
        <3> DEFINE place == IF l THEN "limiter" ELSE "body"
        <3>2. place \in {"limiter", "body"} /\ n \in Nat
            OBVIOUS
        <3>3. req' = [req EXCEPT ![r] = IF req[r].read + n > 1 THEN FreeRow
                                       ELSE [@ EXCEPT !.read = req[r].read + n, !.st = place]]
            BY <3>1
        <3> HIDE DEF place
        <3>4. CASE req[r].read + n > 1
            BY <2>4, <3>3, <3>4
        <3>5. CASE ~(req[r].read + n > 1)
            <4>1. req' = [req EXCEPT ![r] = [@ EXCEPT !.read = req[r].read + n, !.st = place]]
                BY <3>3, <3>5
            <4> QED BY <2>3, <3>2, <4>1
        <3> QED BY <3>4, <3>5
    <2> QED BY <2>2, <2>5, <2>6
<1>5. ASSUME NEW r \in Two, Second!Stamp(r) PROVE Moves(First, Two, 6)
    <2>1. req[r].st = "limiter" /\ UNCHANGED <<now, zset, expires, admitted>>
          /\ req' = [req EXCEPT ![r].st = "stamped", ![r].stamp = now]
        BY <1>5 DEF Second!Stamp
    <2> DEFINE row == [req[r] EXCEPT !.st = "stamped", !.stamp = now]
    <2>2. req' = [req EXCEPT ![r] = row]
        BY <1>1, <2>1
    <2>3. row \in RequestRow(First, 6) /\ row.st = "stamped" /\ row.stamp = now
        BY <1>1 DEF RequestRow
    <2>4. Honest(row, First)
        BY <1>1, <2>1 DEF Honest, SeenAs, RequestRow
    <2> HIDE DEF row
    <2> QED BY <2>1, <2>2, <2>3, <2>4 DEF Moves
<1>6. ASSUME NEW r \in Two, Second!Evaluate(r) PROVE Evaluates(First, Two, 2, 6)
    <2> DEFINE s == req[r].sender
               kept == Kept(s, req[r].stamp)
               n == Cardinality(At(admitted, s, now))
    <2>1. req[r].st = "stamped" /\ now' = now /\ req' = [req EXCEPT ![r] = FreeRow]
        BY <1>6, <1>f DEF Second!Evaluate
    <2>2. Second!Resolve(req[r].peer, req[r].header) = s
        BY <1>1, <2>1 DEF Second!Resolve, Honest, SeenAs
    <2>3. Second!InWindow(Second!Live(s), req[r].stamp) = kept
        BY DEF Second!InWindow, Second!Live, Kept
    <2>4. \A S : Second!Cardinality(S) = Cardinality(S)
        BY DEF Second!Cardinality, Cardinality
    <2>5. Second!Cardinality({e \in admitted : e[1] = req[r].sender /\ e[2] = now}) = n
        BY <2>4 DEF At
    <2>6. \A m : Second!Counted(kept, m) = IF Cardinality(kept) < 2 THEN kept \cup {m} ELSE kept
        BY <2>4 DEF Second!Counted
    <2>7. Second!Ttl = 4
        BY DEF Second!Ttl
    <2>8. /\ zset' = [zset EXCEPT ![s] = Second!Counted(kept, <<req[r].stamp, now, n>>)]
          /\ expires' = IF Second!Cardinality(kept) < 2 THEN [expires EXCEPT ![s] = now + Second!Ttl] ELSE expires
          /\ admitted' = IF Second!Cardinality(kept) < 2 THEN admitted \cup {<<s, now, n>>} ELSE admitted
        <3> HIDE DEF kept, n
        <3> QED BY <1>6, <2>2, <2>3, <2>5 DEF Second!Evaluate
    <2>9. \/ /\ Cardinality(kept) < 2
             /\ zset' = [zset EXCEPT ![s] = kept \cup {<<req[r].stamp, now, n>>}]
             /\ expires' = [expires EXCEPT ![s] = now + 4]
             /\ admitted' = admitted \cup {<<s, now, n>>}
          \/ /\ ~(Cardinality(kept) < 2)
             /\ zset' = [zset EXCEPT ![s] = kept]
             /\ UNCHANGED <<expires, admitted>>
        <3> HIDE DEF kept, n, s
        <3> QED BY <2>4, <2>6, <2>7, <2>8
    <2> QED BY <1>f, <2>1, <2>9 DEF Evaluates
<1> QED BY <1>2, <1>3, <1>4, <1>5, <1>6 DEF Second!Next

LEMMA SecondKeeps ==
    ASSUME WindowInv(First, Two, 2, 6), Second!Next
    PROVE  WindowInv(First, Two, 2, 6)' /\ Second!RejectedOnlyWhenFullStep
<1>1. "proxy" \notin First /\ 2 \in Nat /\ 6 \in Nat
    BY LimitsSuiteAssumption DEF Second!LimitsAssumption
<1>2. WindowInv(First, Two, 2, 6)' /\ Rejects(Two, 2)
    BY <1>1, SecondSteps, MovesKeep, TicksKeep, EvaluatesKeep
<1>3. \A S : Second!Cardinality(S) = Cardinality(S)
    BY DEF Second!Cardinality, Cardinality
<1>4. Second!RejectedOnlyWhenFullStep
    BY <1>2, <1>3 DEF Rejects, Recent, Second!RejectedOnlyWhenFullStep
<1> QED BY <1>2, <1>4

LEMMA SecondSafe == WindowInv(First, Two, 2, 6) => Second!TypeOK /\ Second!WindowHolds
<1> SUFFICES ASSUME WindowInv(First, Two, 2, 6) PROVE Second!TypeOK /\ Second!WindowHolds
    OBVIOUS
<1>1. \A S : Second!Cardinality(S) = Cardinality(S)
    BY DEF Second!Cardinality, Cardinality
<1>2. /\ now \in 0..6 /\ req \in [Two -> RequestRow(First, 6)]
      /\ zset["proxy"] = {} /\ expires \in [First \cup {"proxy"} -> 0..(6 + 4)]
      /\ Admissions(First, 6, admitted)
    BY DEF WindowInv
<1>3. \A s \in First : /\ zset[s] \subseteq Stamps(6) /\ Cardinality(zset[s]) <= 2
                           /\ \A t \in 0..6 : Cardinality(Within(admitted, s, t, 3 - 1)) <= 2
    BY DEF WindowInv, Client
<1>4. Second!WindowHolds
    <2> SUFFICES ASSUME NEW s \in First, NEW t \in 0..6
                 PROVE  Second!Cardinality({e \in admitted : e[1] = s /\ t <= e[2] /\ e[2] < t + 3 - 1}) <= 2
        BY DEF Second!WindowHolds
    <2>1. {e \in admitted : e[1] = s /\ t <= e[2] /\ e[2] < t + 3 - 1} = Within(admitted, s, t, 3 - 1)
        <3>1. t + 3 - 1 = t + (3 - 1)
            OBVIOUS
        <3> QED BY <3>1 DEF Within
    <2> QED BY <1>1, <1>3, <2>1
<1>5. \A a \in Second!Addresses :
         /\ \A m \in zset[a] : m \in (0..6) \X (0..6) \X Nat
         /\ Second!Cardinality(zset[a]) <= 2
    <2> TAKE a \in Second!Addresses
    <2>1. CASE a = "proxy"
        <3>1. Cardinality({}) = 0 /\ zset[a] = {}
            BY <1>2, <2>1, FS_EmptySet
        <3> QED BY <1>1, <3>1
    <2>2. CASE a \in First
        BY <1>1, <1>3, <2>2 DEF Stamps
    <2> QED BY <2>1, <2>2 DEF Second!Addresses
<1>6. \A a \in First \cup {"proxy"} : expires[a] \in 0..(6 + 3 + 1)
    BY <1>2
<1>7. \A e \in admitted : e \in First \X (0..6) \X Nat
    BY <1>2 DEF Admissions
<1>8. Second!TypeOK
    <2>1. Second!Addresses = First \cup {"proxy"}
        BY DEF Second!Addresses
    <2>2. now \in 0..6
        BY <1>2
    <2>4. \A a \in Second!Addresses : expires[a] \in 0..(6 + 3 + 1)
        BY <1>6, <2>1
    <2>5. \A r \in Two : req[r] \in [st : {"free", "body", "limiter", "stamped"},
          sender : First \cup {None}, peer : Second!Addresses \cup {None},
          header : First \cup {None}, kind : {"json", "multipart", "other"}, read : Nat, stamp : 0..6]
        BY <1>2, <2>1 DEF RequestRow
    <2> QED BY <1>5, <1>7, <2>2, <2>4, <2>5, Zenon DEF Second!TypeOK
<1> QED BY <1>4, <1>8

-----------------------------------------------------------------------------
\* A JSON body that got as far as the limiter was measured.
Measured(row) == row.kind = "json" /\ row.st \in {"limiter", "stamped"} => row.read <= 3
BodiesInv ==
    /\ now \in 0..2
    /\ req \in [Two -> RequestRow(First, 2)]
    /\ \A r \in Two : Measured(req[r])

LEMMA BodiesStart == Bodies!Init => BodiesInv
<1> SUFFICES ASSUME Bodies!Init PROVE BodiesInv
    OBVIOUS
<1>1. now = 0 /\ req = [r \in Two |-> FreeRow]
    BY DEF Bodies!Init, Bodies!Free, FreeRow
<1>2. FreeRow \in RequestRow(First, 2) /\ FreeRow.st = "free"
    BY FreeOnes
<1> QED BY <1>1, <1>2 DEF BodiesInv, Measured

\* A request's new state, when it is measured, keeps the invariant.
LEMMA BodyMoves ==
    ASSUME BodiesInv, NEW r \in Two, NEW row \in RequestRow(First, 2), Measured(row), now' = now,
           req' = [req EXCEPT ![r] = row]
    PROVE  BodiesInv'
<1>1. req \in [Two -> RequestRow(First, 2)]
    BY DEF BodiesInv
<1>2. req' \in [Two -> RequestRow(First, 2)] /\ req'[r] = row /\ \A q \in Two : q # r => req'[q] = req[q]
    BY <1>1
<1> QED BY <1>2 DEF BodiesInv

LEMMA BodiesKeep == ASSUME BodiesInv, Bodies!Next PROVE BodiesInv'
<1>1. req \in [Two -> RequestRow(First, 2)] /\ now \in 0..2
    BY DEF BodiesInv
<1>f. FreeRow \in RequestRow(First, 2) /\ Measured(FreeRow) /\ Bodies!Free = FreeRow
    BY FreeOnes DEF Bodies!Free, FreeRow, Measured
<1>2. CASE Bodies!Tick
    BY <1>1, <1>2 DEF Bodies!Tick, BodiesInv
<1>3. ASSUME NEW r \in Two, Bodies!Arrive(r) PROVE BodiesInv'
    <2> DEFINE new(s, peer, h, k) == [Bodies!Free EXCEPT !.st = "body", !.sender = s, !.peer = peer, !.header = h, !.kind = k]
    <2>1. \A s, peer, h, k : new(s, peer, h, k) = ArrivedRow(s, peer, h, k)
        BY <1>f, Arriving
    <2>2. PICK s \in First, peer \in Bodies!Addresses, h \in First \cup {None}, k \in {"json", "multipart"}, d \in 0..(3 + 1) :
            /\ req[r].st = "free" /\ IF peer = "proxy" THEN h = s ELSE peer = s
            /\ d <= 3
            /\ req' = [req EXCEPT ![r] = new(s, peer, h, k)]
            /\ UNCHANGED <<now, zset, expires, admitted>>
        BY <1>3, Zenon DEF Bodies!Arrive
    <2>3. ArrivedRow(s, peer, h, k) \in RequestRow(First, 2) /\ Measured(ArrivedRow(s, peer, h, k))
        BY DEF ArrivedRow, RequestRow, Measured, Bodies!Addresses
    <2> HIDE DEF new
    <2>4. req' = [req EXCEPT ![r] = ArrivedRow(s, peer, h, k)] /\ now' = now
        BY <2>1, <2>2
    <2> QED BY <2>3, <2>4, BodyMoves
<1>4. ASSUME NEW r \in Two, Bodies!ReadBody(r) PROVE BodiesInv'
    <2>0. req[r] \in RequestRow(First, 2) /\ req[r].read \in Nat /\ now' = now
        BY <1>1, <1>4 DEF RequestRow, Bodies!ReadBody
    <2>1. ASSUME NEW place \in {"limiter", "body"}, NEW m \in Nat, place = "limiter" => req[r].kind # "json" \/ m <= 3,
                 req' = [req EXCEPT ![r] = [@ EXCEPT !.read = m, !.st = place]]
          PROVE  BodiesInv'
        <3> DEFINE row == [req[r] EXCEPT !.read = m, !.st = place]
        <3>1. req' = [req EXCEPT ![r] = row]
            BY <1>1, <2>1
        <3>2. row \in RequestRow(First, 2)
            BY <2>0 DEF RequestRow
        <3>3. row.st = place /\ row.read = m /\ row.kind = req[r].kind
            BY <2>0 DEF RequestRow
        <3> HIDE DEF row
        <3> QED BY <2>0, <2>1, <3>1, <3>2, <3>3, BodyMoves DEF Measured
    <2>2. CASE req' = [req EXCEPT ![r] = FreeRow]
        BY <1>f, <2>0, <2>2, BodyMoves
    <2>3. CASE req[r].kind # "json" /\ req' = [req EXCEPT ![r].st = "limiter"]
        <3> DEFINE row == [req[r] EXCEPT !.st = "limiter"]
        <3>1. req' = [req EXCEPT ![r] = row]
            BY <1>1, <2>3
        <3>2. row \in RequestRow(First, 2) /\ row.kind = req[r].kind
            BY <2>0 DEF RequestRow
        <3> HIDE DEF row
        <3> QED BY <2>0, <2>3, <3>1, <3>2, BodyMoves DEF Measured
    <2>4. CASE \E n \in 1..3, last \in BOOLEAN :
                req' = [req EXCEPT ![r] = IF req[r].read + n > 3 THEN FreeRow
                                          ELSE [@ EXCEPT !.read = req[r].read + n, !.st = IF last THEN "limiter" ELSE "body"]]
        <3>1. PICK n \in 1..3, last \in BOOLEAN :
                req' = [req EXCEPT ![r] = IF req[r].read + n > 3 THEN FreeRow
                                          ELSE [@ EXCEPT !.read = req[r].read + n, !.st = IF last THEN "limiter" ELSE "body"]]
            BY <2>4
        <3> DEFINE place == IF last THEN "limiter" ELSE "body"
                   m == req[r].read + n
        <3>2. place \in {"limiter", "body"} /\ m \in Nat
            BY <2>0
        <3>3. req' = [req EXCEPT ![r] = IF m > 3 THEN FreeRow ELSE [@ EXCEPT !.read = m, !.st = place]]
            BY <3>1
        <3> HIDE DEF place, m
        <3>4. CASE m > 3
            BY <2>2, <3>3, <3>4
        <3>5. CASE ~(m > 3)
            <4>1. req' = [req EXCEPT ![r] = [@ EXCEPT !.read = m, !.st = place]]
                BY <3>3, <3>5
            <4>2. m <= 3
                BY <3>2, <3>5
            <4> QED BY <2>1, <3>2, <4>1, <4>2
        <3> QED BY <3>4, <3>5
    <2>5. \/ req[r].kind # "json" /\ req' = [req EXCEPT ![r].st = "limiter"]
          \/ \E n \in 1..3, last \in BOOLEAN :
                req' = [req EXCEPT ![r] = IF req[r].read + n > 3 THEN FreeRow
                                          ELSE [@ EXCEPT !.read = req[r].read + n, !.st = IF last THEN "limiter" ELSE "body"]]
        BY <1>4, <1>f DEF Bodies!ReadBody, Bodies!Sizes, Bodies!Grown
    <2> QED BY <2>3, <2>4, <2>5
<1>5. ASSUME NEW r \in Two, Bodies!Stamp(r) PROVE BodiesInv'
    <2>1. req[r].st = "limiter" /\ now' = now /\ req' = [req EXCEPT ![r].st = "stamped", ![r].stamp = now]
        BY <1>5 DEF Bodies!Stamp
    <2>0. req[r] \in RequestRow(First, 2) /\ Measured(req[r])
        BY DEF BodiesInv
    <2> DEFINE row == [req[r] EXCEPT !.st = "stamped", !.stamp = now]
    <2>2. req' = [req EXCEPT ![r] = row]
        BY <1>1, <2>1
    <2>3. row \in RequestRow(First, 2) /\ row.kind = req[r].kind /\ row.read = req[r].read
        BY <1>1, <2>0 DEF RequestRow
    <2> HIDE DEF row
    <2> QED BY <2>0, <2>1, <2>2, <2>3, BodyMoves DEF Measured
<1>6. ASSUME NEW r \in Two, Bodies!Evaluate(r) PROVE BodiesInv'
    <2>1. now' = now /\ req' = [req EXCEPT ![r] = FreeRow]
        BY <1>6, <1>f DEF Bodies!Evaluate
    <2> QED BY <1>f, <2>1, BodyMoves
<1> QED BY <1>2, <1>3, <1>4, <1>5, <1>6 DEF Bodies!Next

LEMMA BodiesSafe == BodiesInv => Bodies!BodyBounded
BY DEF BodiesInv, Measured, Bodies!BodyBounded

-----------------------------------------------------------------------------
\* The row locks: the locks of the transactions.
Txs == {"t1", "t2", "t3"}
Kinds == {"ask", "settle", "unpaid", "fail", "retry", "recover", "merge",
          "checkin", "open", "expire", "expire2", "ingest", "remove"}
OnUser == [row |-> "user", mode |-> "all"]
OnAccount == [row |-> "account", mode |-> "all"]
OnOther == [row |-> "other account", mode |-> "all"]
OnMessage == [row |-> "message", mode |-> "update"]
OnRequest == [row |-> "request", mode |-> "update"]
OnTask == [row |-> "task", mode |-> "update"]
OnFile == [row |-> "file", mode |-> "update"]
WholeFile == [row |-> "file", mode |-> "all"]
OnChunks == [row |-> "chunks", mode |-> "all"]
OnSession == [row |-> "session", mode |-> "share"]
UserShared == [row |-> "user", mode |-> "share"]
Savepoint == [row |-> "none", mode |-> "release"]

LEMMA Join21 ==
    ASSUME NEW a, NEW b, NEW c PROVE <<a, b>> \o <<c>> = <<a, b, c>>
<1> DEFINE X == {a, b, c}  s == <<a, b>>  t == <<c>>  r == <<a, b, c>>
<1>1. s \in Seq(X) /\ t \in Seq(X) /\ r \in Seq(X) /\ Len(s) = 2 /\ Len(t) = 1 /\ Len(r) = 3
    OBVIOUS
<1>2. /\ s \o t \in Seq(X) /\ Len(s \o t) = Len(s) + Len(t)
      /\ \A i \in 1..Len(s) + Len(t) : (s \o t)[i] = IF i <= Len(s) THEN s[i] ELSE t[i - Len(s)]
    <2> HIDE DEF s, t, r, X
    <2> QED BY <1>1, ConcatProperties
<1>3. \A i \in 1..3 : IF i <= 2 THEN r[i] = s[i] ELSE r[i] = t[i - 2]
    OBVIOUS
<1> HIDE DEF s, t, r, X
<1>4. s \o t = r
    BY <1>1, <1>2, <1>3, SeqEqual
<1> QED BY <1>4 DEF s, t, r

LEMMA Join22 ==
    ASSUME NEW a, NEW b, NEW c, NEW d PROVE <<a, b>> \o <<c, d>> = <<a, b, c, d>>
<1> DEFINE X == {a, b, c, d}  s == <<a, b>>  t == <<c, d>>  r == <<a, b, c, d>>
<1>1. s \in Seq(X) /\ t \in Seq(X) /\ r \in Seq(X) /\ Len(s) = 2 /\ Len(t) = 2 /\ Len(r) = 4
    OBVIOUS
<1>2. /\ s \o t \in Seq(X) /\ Len(s \o t) = Len(s) + Len(t)
      /\ \A i \in 1..Len(s) + Len(t) : (s \o t)[i] = IF i <= Len(s) THEN s[i] ELSE t[i - Len(s)]
    <2> HIDE DEF s, t, r, X
    <2> QED BY <1>1, ConcatProperties
<1>3. \A i \in 1..4 : IF i <= 2 THEN r[i] = s[i] ELSE r[i] = t[i - 2]
    OBVIOUS
<1> HIDE DEF s, t, r, X
<1>4. s \o t = r
    BY <1>1, <1>2, <1>3, SeqEqual
<1> QED BY <1>4 DEF s, t, r

LEMMA Join32 ==
    ASSUME NEW a, NEW b, NEW c, NEW d, NEW e PROVE <<a, b, c>> \o <<d, e>> = <<a, b, c, d, e>>
<1> DEFINE X == {a, b, c, d, e}  s == <<a, b, c>>  t == <<d, e>>  r == <<a, b, c, d, e>>
<1>1. s \in Seq(X) /\ t \in Seq(X) /\ r \in Seq(X) /\ Len(s) = 3 /\ Len(t) = 2 /\ Len(r) = 5
    OBVIOUS
<1>2. /\ s \o t \in Seq(X) /\ Len(s \o t) = Len(s) + Len(t)
      /\ \A i \in 1..Len(s) + Len(t) : (s \o t)[i] = IF i <= Len(s) THEN s[i] ELSE t[i - Len(s)]
    <2> HIDE DEF s, t, r, X
    <2> QED BY <1>1, ConcatProperties
<1>3. \A i \in 1..5 : IF i <= 3 THEN r[i] = s[i] ELSE r[i] = t[i - 3]
    OBVIOUS
<1> HIDE DEF s, t, r, X
<1>4. s \o t = r
    BY <1>1, <1>2, <1>3, SeqEqual
<1> QED BY <1>4 DEF s, t, r

LEMMA Programs ==
    /\ Locks3!Program("ask") = <<OnUser, OnAccount, OnSession>>
    /\ Locks3!Program("settle") = <<OnUser, OnAccount, OnMessage, OnRequest>>
    /\ Locks3!Program("unpaid") = <<OnUser, OnAccount, Savepoint, OnMessage, OnRequest>>
    /\ Locks3!Program("fail") = <<OnMessage, OnRequest>>
    /\ Locks3!Program("retry") = <<OnUser, OnAccount, OnRequest, OnMessage>>
    /\ Locks3!Program("recover") = <<OnRequest, OnMessage>>
    /\ Locks3!Program("merge") = <<OnMessage>>
    /\ Locks3!Program("checkin") = <<OnAccount>>
    /\ Locks3!Program("open") = <<OnAccount, UserShared>>
    /\ Locks3!Program("expire") = <<OnAccount, OnOther>>
    /\ Locks3!Program("expire2") = <<OnOther, OnAccount>>
    /\ Locks3!Program("ingest") = <<OnTask, OnFile, OnChunks>>
    /\ Locks3!Program("remove") = <<OnChunks, WholeFile, OnTask>>
<1> USE DEF OnUser, OnAccount, OnOther, OnMessage, OnRequest, OnTask, OnFile, WholeFile, OnChunks, OnSession, UserShared, Savepoint, Locks3!All, Locks3!Update, Locks3!Share, Locks3!BackToSavepoint
<1>0. /\ Locks3!UserThenAccount = <<OnUser, OnAccount>>
      /\ Locks3!MessageThenRequest = <<OnMessage, OnRequest>>
      /\ Locks3!RequestThenMessage = <<OnRequest, OnMessage>>
      /\ Locks3!TaskThenFile = <<OnTask, OnFile, OnChunks>>
      /\ Locks3!FileThenTask = <<OnChunks, WholeFile, OnTask>>
    BY DEF Locks3!UserThenAccount, Locks3!MessageThenRequest, Locks3!RequestThenMessage, Locks3!TaskThenFile, Locks3!FileThenTask
<1> HIDE DEF OnUser, OnAccount, OnOther, OnMessage, OnRequest, OnTask, OnFile, WholeFile, OnChunks, OnSession, UserShared, Savepoint
<1>j. /\ <<OnUser, OnAccount>> \o <<OnSession>> = <<OnUser, OnAccount, OnSession>> /\ <<OnUser, OnAccount>> \o <<OnMessage, OnRequest>> = <<OnUser, OnAccount, OnMessage, OnRequest>>
      /\ <<OnUser, OnAccount>> \o <<OnRequest, OnMessage>> = <<OnUser, OnAccount, OnRequest, OnMessage>> /\ <<OnUser, OnAccount>> \o <<Savepoint>> = <<OnUser, OnAccount, Savepoint>>
      /\ <<OnUser, OnAccount, Savepoint>> \o <<OnMessage, OnRequest>> = <<OnUser, OnAccount, Savepoint, OnMessage, OnRequest>>
    BY Join21, Join22, Join32
<1>1. /\ Locks3!Program("ask") = <<OnUser, OnAccount, OnSession>> /\ Locks3!Program("settle") = <<OnUser, OnAccount, OnMessage, OnRequest>>
      /\ Locks3!Program("unpaid") = <<OnUser, OnAccount, Savepoint, OnMessage, OnRequest>> /\ Locks3!Program("fail") = <<OnMessage, OnRequest>>
      /\ Locks3!Program("retry") = <<OnUser, OnAccount, OnRequest, OnMessage>> /\ Locks3!Program("recover") = <<OnRequest, OnMessage>>
    BY <1>0, <1>j DEF Locks3!Program, Locks3!Retry, OnSession, Savepoint
<1>2. /\ Locks3!Program("merge") = <<OnMessage>> /\ Locks3!Program("checkin") = <<OnAccount>>
      /\ Locks3!Program("open") = <<OnAccount, UserShared>> /\ Locks3!Program("expire") = <<OnAccount, OnOther>>
      /\ Locks3!Program("expire2") = <<OnOther, OnAccount>> /\ Locks3!Program("ingest") = <<OnTask, OnFile, OnChunks>>
      /\ Locks3!Program("remove") = <<OnChunks, WholeFile, OnTask>>
    BY <1>0 DEF Locks3!Program, OnMessage, OnAccount, UserShared, OnOther
<1> QED BY <1>1, <1>2

Statuses == {"open", "committed", "aborted"}
Len3(k) == Len(Locks3!Program(k))

LocksTypes ==
    /\ kind \in [Txs -> Kinds] /\ \A t \in Txs : Locks3!Possible(kind[t], fresh)
    /\ next \in [Txs -> Nat] /\ since \in [Txs -> Nat] /\ st \in [Txs -> Statuses]
    /\ \A t \in Txs : /\ 1 <= since[t] /\ since[t] <= next[t] /\ next[t] <= Len3(kind[t]) + 1
                      /\ since[t] = 1 \/ kind[t] = "unpaid"

LocksInv == LocksTypes /\ Locks3!NeverBoth

Row(k, n) == Locks3!Program(k)[n].row

\* How far each row is in the order most transactions take them in.
Rank(row) ==
    IF row \in {"user", "task"} THEN 1
    ELSE IF row \in {"other account", "file"} THEN 2
    ELSE IF row \in {"account", "chunks"} THEN 3
    ELSE IF row = "none" THEN 4
    ELSE IF row = "session" THEN 5
    ELSE IF row = "message" THEN 6 ELSE 7

LEMMA Lengths ==
    /\ \A k \in {"merge", "checkin"} : Len3(k) = 1
    /\ \A k \in {"fail", "recover", "open", "expire", "expire2"} : Len3(k) = 2
    /\ \A k \in {"ask", "ingest", "remove"} : Len3(k) = 3
    /\ \A k \in {"settle", "retry"} : Len3(k) = 4
    /\ Len3("unpaid") = 5
    /\ \A k \in Kinds : Len3(k) \in Nat
BY Programs DEF Len3, Kinds

\* Which rows the transactions take, and as which of their locks.
LEMMA TheRows ==
    /\ Row("ask", 1) = "user" /\ Row("ask", 2) = "account" /\ Row("ask", 3) = "session"
    /\ Row("settle", 1) = "user" /\ Row("settle", 2) = "account" /\ Row("settle", 3) = "message" /\ Row("settle", 4) = "request"
    /\ Row("unpaid", 1) = "user" /\ Row("unpaid", 2) = "account" /\ Row("unpaid", 3) = "none" /\ Row("unpaid", 4) = "message" /\ Row("unpaid", 5) = "request"
    /\ Row("fail", 1) = "message" /\ Row("fail", 2) = "request"
    /\ Row("retry", 1) = "user" /\ Row("retry", 2) = "account" /\ Row("retry", 3) = "request" /\ Row("retry", 4) = "message"
    /\ Row("recover", 1) = "request" /\ Row("recover", 2) = "message"
    /\ Row("merge", 1) = "message"
    /\ Row("checkin", 1) = "account"
    /\ Row("open", 1) = "account" /\ Row("open", 2) = "user"
    /\ Row("expire", 1) = "account" /\ Row("expire", 2) = "other account"
    /\ Row("expire2", 1) = "other account" /\ Row("expire2", 2) = "account"
    /\ Row("ingest", 1) = "task" /\ Row("ingest", 2) = "file" /\ Row("ingest", 3) = "chunks"
    /\ Row("remove", 1) = "chunks" /\ Row("remove", 2) = "file" /\ Row("remove", 3) = "task"
<1>1. Row("ask", 1) = OnUser.row /\ Row("ask", 2) = OnAccount.row /\ Row("ask", 3) = OnSession.row
    BY Programs DEF Row
<1>2. Row("settle", 1) = OnUser.row /\ Row("settle", 2) = OnAccount.row /\ Row("settle", 3) = OnMessage.row /\ Row("settle", 4) = OnRequest.row
    BY Programs DEF Row
<1>3. Row("unpaid", 1) = OnUser.row /\ Row("unpaid", 2) = OnAccount.row /\ Row("unpaid", 3) = Savepoint.row /\ Row("unpaid", 4) = OnMessage.row /\ Row("unpaid", 5) = OnRequest.row
    BY Programs DEF Row
<1>4. Row("fail", 1) = OnMessage.row /\ Row("fail", 2) = OnRequest.row
    BY Programs DEF Row
<1>5. Row("retry", 1) = OnUser.row /\ Row("retry", 2) = OnAccount.row /\ Row("retry", 3) = OnRequest.row /\ Row("retry", 4) = OnMessage.row
    BY Programs DEF Row
<1>6. Row("recover", 1) = OnRequest.row /\ Row("recover", 2) = OnMessage.row
    BY Programs DEF Row
<1>7. Row("merge", 1) = OnMessage.row
    BY Programs DEF Row
<1>8. Row("checkin", 1) = OnAccount.row
    BY Programs DEF Row
<1>9. Row("open", 1) = OnAccount.row /\ Row("open", 2) = UserShared.row
    BY Programs DEF Row
<1>10. Row("expire", 1) = OnAccount.row /\ Row("expire", 2) = OnOther.row
    BY Programs DEF Row
<1>11. Row("expire2", 1) = OnOther.row /\ Row("expire2", 2) = OnAccount.row
    BY Programs DEF Row
<1>12. Row("ingest", 1) = OnTask.row /\ Row("ingest", 2) = OnFile.row /\ Row("ingest", 3) = OnChunks.row
    BY Programs DEF Row
<1>13. Row("remove", 1) = OnChunks.row /\ Row("remove", 2) = WholeFile.row /\ Row("remove", 3) = OnTask.row
    BY Programs DEF Row
<1> QED BY ZenonT(60), <1>1, <1>2, <1>3, <1>4, <1>5, <1>6, <1>7, <1>8, <1>9, <1>10, <1>11, <1>12, <1>13 DEF OnUser, OnAccount, OnOther, OnMessage, OnRequest, OnTask, OnFile, WholeFile, OnChunks, OnSession, UserShared, Savepoint

\* Up to where a transaction takes rows in their order.
InOrder(k) == IF k \in {"recover", "expire", "open", "remove"} THEN 1 ELSE IF k = "retry" THEN 3 ELSE Len3(k)

Where(k, n) ==
    /\ Row(k, n) = "none" => k = "unpaid"
    /\ Row(k, n) = "user" => (k \in {"ask", "settle", "unpaid", "retry"} /\ n = 1) \/ (k = "open" /\ n = 2)
    /\ Row(k, n) = "message" => k \in {"settle", "recover", "fail", "retry", "unpaid", "merge"}
    /\ Row(k, n) = "message" /\ k \in {"retry", "recover", "merge"} => n = Len3(k)
    /\ Row(k, n) = "other account" => (k = "expire" /\ n = 2) \/ (k = "expire2" /\ n = 1)
    /\ Row(k, n) = "file" => k \in {"ingest", "remove"} /\ n = 2
    /\ Row(k, n) = "task" => (k = "ingest" /\ n = 1) \/ (k = "remove" /\ n = 3)

LEMMA Places ==
    ASSUME NEW k \in Kinds, NEW n \in 1..Len3(k)
    PROVE  /\ Where(k, n)
           /\ Rank(Row(k, n)) \in 1..7
           /\ n <= InOrder(k) => \A m \in 1..(n - 1) : Rank(Row(k, m)) < Rank(Row(k, n))
<1>1. CASE k = "ask"
    <2>1. Len3(k) = 3 /\ (n = 1 \/ n = 2 \/ n = 3)
        BY <1>1, Lengths
    <2>2. Row(k, 1) = "user" /\ Row(k, 2) = "account" /\ Row(k, 3) = "session"
        BY <1>1, TheRows
    <2>3. Where(k, n)
        BY <1>1, <2>1, <2>2 DEF Where
    <2>4. Rank(Row(k, 1)) = 1 /\ Rank(Row(k, 2)) = 3 /\ Rank(Row(k, 3)) = 5
        BY <2>2 DEF Rank
    <2>5. ASSUME n <= InOrder(k), NEW m \in 1..(n - 1) PROVE Rank(Row(k, m)) < Rank(Row(k, n))
        <3>1. (m = 1 /\ n = 2) \/ (m = 1 /\ n = 3) \/ (m = 2 /\ n = 3)
            BY <1>1, <2>1, <2>5 DEF InOrder
        <3> QED BY <3>1, <2>4
    <2>6. Rank(Row(k, n)) \in 1..7
        BY <2>1, <2>4
    <2> QED BY <2>3, <2>5, <2>6
<1>2. CASE k = "settle"
    <2>1. Len3(k) = 4 /\ (n = 1 \/ n = 2 \/ n = 3 \/ n = 4)
        BY <1>2, Lengths
    <2>2. Row(k, 1) = "user" /\ Row(k, 2) = "account" /\ Row(k, 3) = "message" /\ Row(k, 4) = "request"
        BY <1>2, TheRows
    <2>3. Where(k, n)
        BY <1>2, <2>1, <2>2 DEF Where
    <2>4. Rank(Row(k, 1)) = 1 /\ Rank(Row(k, 2)) = 3 /\ Rank(Row(k, 3)) = 6 /\ Rank(Row(k, 4)) = 7
        BY <2>2 DEF Rank
    <2>5. ASSUME n <= InOrder(k), NEW m \in 1..(n - 1) PROVE Rank(Row(k, m)) < Rank(Row(k, n))
        <3>1. (m = 1 /\ n = 2) \/ (m = 1 /\ n = 3) \/ (m = 2 /\ n = 3) \/ (m = 1 /\ n = 4) \/ (m = 2 /\ n = 4) \/ (m = 3 /\ n = 4)
            BY <1>2, <2>1, <2>5 DEF InOrder
        <3> QED BY <3>1, <2>4
    <2>6. Rank(Row(k, n)) \in 1..7
        BY <2>1, <2>4
    <2> QED BY <2>3, <2>5, <2>6
<1>3. CASE k = "unpaid"
    <2>1. Len3(k) = 5 /\ (n = 1 \/ n = 2 \/ n = 3 \/ n = 4 \/ n = 5)
        BY <1>3, Lengths
    <2>2. Row(k, 1) = "user" /\ Row(k, 2) = "account" /\ Row(k, 3) = "none" /\ Row(k, 4) = "message" /\ Row(k, 5) = "request"
        BY <1>3, TheRows
    <2>3. Where(k, n)
        BY <1>3, <2>1, <2>2 DEF Where
    <2>4. Rank(Row(k, 1)) = 1 /\ Rank(Row(k, 2)) = 3 /\ Rank(Row(k, 3)) = 4 /\ Rank(Row(k, 4)) = 6 /\ Rank(Row(k, 5)) = 7
        BY <2>2 DEF Rank
    <2>5. ASSUME n <= InOrder(k), NEW m \in 1..(n - 1) PROVE Rank(Row(k, m)) < Rank(Row(k, n))
        <3>1. (m = 1 /\ n = 2) \/ (m = 1 /\ n = 3) \/ (m = 2 /\ n = 3) \/ (m = 1 /\ n = 4) \/ (m = 2 /\ n = 4) \/ (m = 3 /\ n = 4) \/ (m = 1 /\ n = 5) \/ (m = 2 /\ n = 5) \/ (m = 3 /\ n = 5) \/ (m = 4 /\ n = 5)
            BY <1>3, <2>1, <2>5 DEF InOrder
        <3> QED BY <3>1, <2>4
    <2>6. Rank(Row(k, n)) \in 1..7
        BY <2>1, <2>4
    <2> QED BY <2>3, <2>5, <2>6
<1>4. CASE k = "fail"
    <2>1. Len3(k) = 2 /\ (n = 1 \/ n = 2)
        BY <1>4, Lengths
    <2>2. Row(k, 1) = "message" /\ Row(k, 2) = "request"
        BY <1>4, TheRows
    <2>3. Where(k, n)
        BY <1>4, <2>1, <2>2 DEF Where
    <2>4. Rank(Row(k, 1)) = 6 /\ Rank(Row(k, 2)) = 7
        BY <2>2 DEF Rank
    <2>5. ASSUME n <= InOrder(k), NEW m \in 1..(n - 1) PROVE Rank(Row(k, m)) < Rank(Row(k, n))
        <3>1. (m = 1 /\ n = 2)
            BY <1>4, <2>1, <2>5 DEF InOrder
        <3> QED BY <3>1, <2>4
    <2>6. Rank(Row(k, n)) \in 1..7
        BY <2>1, <2>4
    <2> QED BY <2>3, <2>5, <2>6
<1>5. CASE k = "retry"
    <2>1. Len3(k) = 4 /\ (n = 1 \/ n = 2 \/ n = 3 \/ n = 4)
        BY <1>5, Lengths
    <2>2. Row(k, 1) = "user" /\ Row(k, 2) = "account" /\ Row(k, 3) = "request" /\ Row(k, 4) = "message"
        BY <1>5, TheRows
    <2>3. Where(k, n)
        BY <1>5, <2>1, <2>2 DEF Where
    <2>4. Rank(Row(k, 1)) = 1 /\ Rank(Row(k, 2)) = 3 /\ Rank(Row(k, 3)) = 7 /\ Rank(Row(k, 4)) = 6
        BY <2>2 DEF Rank
    <2>5. ASSUME n <= InOrder(k), NEW m \in 1..(n - 1) PROVE Rank(Row(k, m)) < Rank(Row(k, n))
        <3>1. (m = 1 /\ n = 2) \/ (m = 1 /\ n = 3) \/ (m = 2 /\ n = 3)
            BY <1>5, <2>1, <2>5 DEF InOrder
        <3> QED BY <3>1, <2>4
    <2>6. Rank(Row(k, n)) \in 1..7
        BY <2>1, <2>4
    <2> QED BY <2>3, <2>5, <2>6
<1>6. CASE k = "recover"
    <2>1. Len3(k) = 2 /\ (n = 1 \/ n = 2)
        BY <1>6, Lengths
    <2>2. Row(k, 1) = "request" /\ Row(k, 2) = "message"
        BY <1>6, TheRows
    <2>3. Where(k, n)
        BY <1>6, <2>1, <2>2 DEF Where
    <2>4. Rank(Row(k, 1)) = 7 /\ Rank(Row(k, 2)) = 6
        BY <2>2 DEF Rank
    <2>5. ASSUME n <= InOrder(k), NEW m \in 1..(n - 1) PROVE Rank(Row(k, m)) < Rank(Row(k, n))
        BY <1>6, <2>1, <2>5 DEF InOrder
    <2>6. Rank(Row(k, n)) \in 1..7
        BY <2>1, <2>4
    <2> QED BY <2>3, <2>5, <2>6
<1>7. CASE k = "merge"
    <2>1. Len3(k) = 1 /\ (n = 1)
        BY <1>7, Lengths
    <2>2. Row(k, 1) = "message"
        BY <1>7, TheRows
    <2>3. Where(k, n)
        BY <1>7, <2>1, <2>2 DEF Where
    <2>4. Rank(Row(k, 1)) = 6
        BY <2>2 DEF Rank
    <2>5. ASSUME n <= InOrder(k), NEW m \in 1..(n - 1) PROVE Rank(Row(k, m)) < Rank(Row(k, n))
        BY <1>7, <2>1, <2>5 DEF InOrder
    <2>6. Rank(Row(k, n)) \in 1..7
        BY <2>1, <2>4
    <2> QED BY <2>3, <2>5, <2>6
<1>8. CASE k = "checkin"
    <2>1. Len3(k) = 1 /\ (n = 1)
        BY <1>8, Lengths
    <2>2. Row(k, 1) = "account"
        BY <1>8, TheRows
    <2>3. Where(k, n)
        BY <1>8, <2>1, <2>2 DEF Where
    <2>4. Rank(Row(k, 1)) = 3
        BY <2>2 DEF Rank
    <2>5. ASSUME n <= InOrder(k), NEW m \in 1..(n - 1) PROVE Rank(Row(k, m)) < Rank(Row(k, n))
        BY <1>8, <2>1, <2>5 DEF InOrder
    <2>6. Rank(Row(k, n)) \in 1..7
        BY <2>1, <2>4
    <2> QED BY <2>3, <2>5, <2>6
<1>9. CASE k = "open"
    <2>1. Len3(k) = 2 /\ (n = 1 \/ n = 2)
        BY <1>9, Lengths
    <2>2. Row(k, 1) = "account" /\ Row(k, 2) = "user"
        BY <1>9, TheRows
    <2>3. Where(k, n)
        BY <1>9, <2>1, <2>2 DEF Where
    <2>4. Rank(Row(k, 1)) = 3 /\ Rank(Row(k, 2)) = 1
        BY <2>2 DEF Rank
    <2>5. ASSUME n <= InOrder(k), NEW m \in 1..(n - 1) PROVE Rank(Row(k, m)) < Rank(Row(k, n))
        BY <1>9, <2>1, <2>5 DEF InOrder
    <2>6. Rank(Row(k, n)) \in 1..7
        BY <2>1, <2>4
    <2> QED BY <2>3, <2>5, <2>6
<1>10. CASE k = "expire"
    <2>1. Len3(k) = 2 /\ (n = 1 \/ n = 2)
        BY <1>10, Lengths
    <2>2. Row(k, 1) = "account" /\ Row(k, 2) = "other account"
        BY <1>10, TheRows
    <2>3. Where(k, n)
        BY <1>10, <2>1, <2>2 DEF Where
    <2>4. Rank(Row(k, 1)) = 3 /\ Rank(Row(k, 2)) = 2
        BY <2>2 DEF Rank
    <2>5. ASSUME n <= InOrder(k), NEW m \in 1..(n - 1) PROVE Rank(Row(k, m)) < Rank(Row(k, n))
        BY <1>10, <2>1, <2>5 DEF InOrder
    <2>6. Rank(Row(k, n)) \in 1..7
        BY <2>1, <2>4
    <2> QED BY <2>3, <2>5, <2>6
<1>11. CASE k = "expire2"
    <2>1. Len3(k) = 2 /\ (n = 1 \/ n = 2)
        BY <1>11, Lengths
    <2>2. Row(k, 1) = "other account" /\ Row(k, 2) = "account"
        BY <1>11, TheRows
    <2>3. Where(k, n)
        BY <1>11, <2>1, <2>2 DEF Where
    <2>4. Rank(Row(k, 1)) = 2 /\ Rank(Row(k, 2)) = 3
        BY <2>2 DEF Rank
    <2>5. ASSUME n <= InOrder(k), NEW m \in 1..(n - 1) PROVE Rank(Row(k, m)) < Rank(Row(k, n))
        <3>1. (m = 1 /\ n = 2)
            BY <1>11, <2>1, <2>5 DEF InOrder
        <3> QED BY <3>1, <2>4
    <2>6. Rank(Row(k, n)) \in 1..7
        BY <2>1, <2>4
    <2> QED BY <2>3, <2>5, <2>6
<1>12. CASE k = "ingest"
    <2>1. Len3(k) = 3 /\ (n = 1 \/ n = 2 \/ n = 3)
        BY <1>12, Lengths
    <2>2. Row(k, 1) = "task" /\ Row(k, 2) = "file" /\ Row(k, 3) = "chunks"
        BY <1>12, TheRows
    <2>3. Where(k, n)
        BY <1>12, <2>1, <2>2 DEF Where
    <2>4. Rank(Row(k, 1)) = 1 /\ Rank(Row(k, 2)) = 2 /\ Rank(Row(k, 3)) = 3
        BY <2>2 DEF Rank
    <2>5. ASSUME n <= InOrder(k), NEW m \in 1..(n - 1) PROVE Rank(Row(k, m)) < Rank(Row(k, n))
        <3>1. (m = 1 /\ n = 2) \/ (m = 1 /\ n = 3) \/ (m = 2 /\ n = 3)
            BY <1>12, <2>1, <2>5 DEF InOrder
        <3> QED BY <3>1, <2>4
    <2>6. Rank(Row(k, n)) \in 1..7
        BY <2>1, <2>4
    <2> QED BY <2>3, <2>5, <2>6
<1>13. CASE k = "remove"
    <2>1. Len3(k) = 3 /\ (n = 1 \/ n = 2 \/ n = 3)
        BY <1>13, Lengths
    <2>2. Row(k, 1) = "chunks" /\ Row(k, 2) = "file" /\ Row(k, 3) = "task"
        BY <1>13, TheRows
    <2>3. Where(k, n)
        BY <1>13, <2>1, <2>2 DEF Where
    <2>4. Rank(Row(k, 1)) = 3 /\ Rank(Row(k, 2)) = 2 /\ Rank(Row(k, 3)) = 1
        BY <2>2 DEF Rank
    <2>5. ASSUME n <= InOrder(k), NEW m \in 1..(n - 1) PROVE Rank(Row(k, m)) < Rank(Row(k, n))
        BY <1>13, <2>1, <2>5 DEF InOrder
    <2>6. Rank(Row(k, n)) \in 1..7
        BY <2>1, <2>4
    <2> QED BY <2>3, <2>5, <2>6
<1> QED BY <1>1, <1>2, <1>3, <1>4, <1>5, <1>6, <1>7, <1>8, <1>9, <1>10, <1>11, <1>12, <1>13 DEF Kinds

LEMMA FirstLocks ==
    /\ \A k \in {"settle", "retry"} : Locks3!Program(k)[1] = OnUser
    /\ Locks3!Program("remove")[1] = OnChunks
BY Programs

-----------------------------------------------------------------------------
LEMMA LocksStart == Locks3!Init => LocksInv
<1> SUFFICES ASSUME Locks3!Init PROVE LocksInv
    OBVIOUS
<1>1. kind \in [Txs -> Kinds] /\ \A t \in Txs : Locks3!Possible(kind[t], fresh)
    BY DEF Locks3!Init, Txs, Kinds
<1>2. /\ next \in [Txs -> Nat] /\ since \in [Txs -> Nat] /\ st \in [Txs -> Statuses]
      /\ \A t \in Txs : next[t] = 1 /\ since[t] = 1
    BY DEF Locks3!Init, Txs, Statuses
<1>3. LocksTypes
    BY <1>1, <1>2, Lengths DEF LocksTypes
<1>4. \A t \in Txs : Locks3!Held(t) = {}
    BY <1>2 DEF Locks3!Held
<1>5. Locks3!NeverBoth
    BY <1>4 DEF Locks3!NeverBoth, Txs
<1> QED BY <1>3, <1>5 DEF LocksInv

LEMMA LockKeeps ==
    ASSUME LocksInv, NEW t \in Txs, Locks3!Lock(t) PROVE LocksInv'
<1>1. /\ kind \in [Txs -> Kinds] /\ \A x \in Txs : Locks3!Possible(kind[x], fresh)
      /\ next \in [Txs -> Nat] /\ since \in [Txs -> Nat] /\ st \in [Txs -> Statuses]
      /\ \A x \in Txs : /\ 1 <= since[x] /\ since[x] <= next[x] /\ next[x] <= Len3(kind[x]) + 1
                        /\ since[x] = 1 \/ kind[x] = "unpaid"
    BY DEF LocksInv, LocksTypes
<1>2. /\ st[t] = "open" /\ next[t] <= Len3(kind[t]) /\ UNCHANGED <<fresh, kind, st>>
      /\ next' = [next EXCEPT ![t] = next[t] + 1]
      /\ since' = [since EXCEPT ![t] = IF Locks3!Wants(t) = Locks3!BackToSavepoint THEN next[t] + 1 ELSE since[t]]
    BY DEF Locks3!Lock, Locks3!Waiting, Len3
<1>3. /\ next'[t] = next[t] + 1 /\ since'[t] \in {since[t], next[t] + 1}
      /\ \A x \in Txs : x # t => next'[x] = next[x] /\ since'[x] = since[x]
      /\ next' \in [Txs -> Nat] /\ since' \in [Txs -> Nat]
    BY <1>1, <1>2
<1>4. since'[t] = 1 \/ kind[t] = "unpaid"
    <2>1. CASE Locks3!Wants(t) = Locks3!BackToSavepoint
        <3>1. Row(kind[t], next[t]) = "none"
            BY <2>1 DEF Row, Locks3!Wants, Locks3!BackToSavepoint
        <3>2. next[t] \in 1..Len3(kind[t]) /\ kind[t] \in Kinds
            BY <1>1, <1>2, Lengths
        <3> QED BY <3>1, <3>2, Places DEF Where
    <2>2. CASE Locks3!Wants(t) # Locks3!BackToSavepoint
        BY <1>1, <1>2, <2>2
    <2> QED BY <2>1, <2>2
<1>5. LocksTypes'
    <2>1. next'[t] <= Len3(kind[t]) + 1 /\ 1 <= since'[t] /\ since'[t] <= next'[t]
        BY <1>1, <1>2, <1>3, Lengths
    <2> QED BY <1>1, <1>2, <1>3, <1>4, <2>1 DEF LocksTypes
<1>6. \A x \in Txs : x # t => Locks3!Held(x)' = Locks3!Held(x)
    BY <1>2, <1>3 DEF Locks3!Held
<1>7. \A a \in Locks3!Held(t)' : a \in Locks3!Held(t) \/ a = Locks3!Wants(t)
    <2> TAKE a \in Locks3!Held(t)'
    <2>1. PICK n \in since'[t]..(next'[t] - 1) : a = Locks3!Program(kind[t])[n]
        BY <1>2 DEF Locks3!Held
    <2>2. n = next[t] \/ n \in since[t]..(next[t] - 1)
        BY <1>1, <1>3, <2>1
    <2> QED BY <1>2, <2>1, <2>2 DEF Locks3!Held, Locks3!Wants
<1>8. \A x \in Txs : x # t => \A b \in Locks3!Held(x) : ~Locks3!Conflicts(b, Locks3!Wants(t))
    BY DEF Locks3!Lock, Locks3!Blocks, Txs
<1>9. Locks3!NeverBoth'
    <2> SUFFICES ASSUME NEW x \in Txs, NEW y \in Txs, x # y, NEW a \in Locks3!Held(x)', NEW b \in Locks3!Held(y)', a.row = b.row
                 PROVE  "all" \notin {a.mode, b.mode} /\ {a.mode, b.mode} # {"update"}
        BY DEF Locks3!NeverBoth, Txs
    <2>0. ASSUME NEW c, NEW d, ~Locks3!Conflicts(c, d), c.row = d.row
          PROVE  "all" \notin {c.mode, d.mode} /\ {c.mode, d.mode} # {"update"}
        BY <2>0 DEF Locks3!Conflicts
    <2>1. CASE a \in Locks3!Held(x) /\ b \in Locks3!Held(y)
        BY <2>1 DEF LocksInv, Locks3!NeverBoth, Txs
    <2>2. CASE x = t /\ a = Locks3!Wants(t)
        <3>1. ~Locks3!Conflicts(b, a) /\ b.row = a.row
            BY <1>6, <1>8, <2>2
        <3> QED BY <2>0, <3>1
    <2>3. CASE y = t /\ b = Locks3!Wants(t)
        <3>1. ~Locks3!Conflicts(a, b)
            BY <1>6, <1>8, <2>3
        <3> QED BY <2>0, <3>1
    <2> QED BY <1>6, <1>7, <2>1, <2>2, <2>3
<1> QED BY <1>5, <1>9 DEF LocksInv

\* A transaction that ends holds nothing more.
LEMMA EndKeeps ==
    ASSUME LocksInv, NEW t \in Txs, Locks3!Commit(t) \/ Locks3!Abort(t) PROVE LocksInv'
<1>1. UNCHANGED <<fresh, kind, next, since>>
    BY DEF Locks3!Commit, Locks3!Abort
<1>2. PICK s \in {"committed", "aborted"} : st' = [st EXCEPT ![t] = s]
    BY DEF Locks3!Commit, Locks3!Abort
<1>3. st \in [Txs -> Statuses] /\ st' \in [Txs -> Statuses]
    BY <1>2 DEF LocksInv, LocksTypes, Statuses
<1>4. LocksTypes'
    BY <1>1, <1>3 DEF LocksInv, LocksTypes
<1>5. \A x \in Txs : Locks3!Held(x)' \subseteq Locks3!Held(x)
    <2> TAKE x \in Txs
    <2>1. st'[x] = "open" => st[x] = "open"
        BY <1>2, <1>3
    <2> QED BY <1>1, <2>1 DEF Locks3!Held
<1>6. Locks3!NeverBoth'
    BY <1>5 DEF LocksInv, Locks3!NeverBoth, Txs
<1> QED BY <1>4, <1>6 DEF LocksInv

LEMMA LocksStep == ASSUME LocksInv, Locks3!Next PROVE LocksInv'
BY LockKeeps, EndKeeps DEF Locks3!Next, Txs

-----------------------------------------------------------------------------
\* What a transaction that blocks another holds.
LEMMA Blockers ==
    ASSUME LocksInv, NEW t \in Txs, NEW u \in Txs, Locks3!Blocks(u, t)
    PROVE  \E n \in since[u]..(next[u] - 1) :
              /\ n \in 1..Len3(kind[u])
              /\ Locks3!Program(kind[u])[n] \in Locks3!Held(u)
              /\ Row(kind[u], n) = Row(kind[t], next[t])
<1>1. PICK lock \in Locks3!Held(u) : Locks3!Conflicts(lock, Locks3!Wants(t))
    BY DEF Locks3!Blocks
<1>2. PICK n \in since[u]..(next[u] - 1) : lock = Locks3!Program(kind[u])[n]
    BY <1>1 DEF Locks3!Held
<1>3. n \in 1..Len3(kind[u])
    BY <1>2, Lengths DEF LocksInv, LocksTypes
<1>4. Row(kind[u], n) = Row(kind[t], next[t])
    BY <1>1, <1>2 DEF Locks3!Conflicts, Locks3!Wants, Row
<1> QED BY <1>1, <1>2, <1>3, <1>4

\* Two transactions that have their first locks, and neither gave them back, do not both lock the user or the chunks.
LEMMA FirstLockAlone ==
    ASSUME LocksInv, NEW t \in Txs, NEW u \in Txs, t # u, st[t] = "open", st[u] = "open", next[t] > 1, next[u] > 1,
           (kind[t] \in {"settle", "retry"} /\ kind[u] \in {"settle", "retry"}) \/ (kind[t] = "remove" /\ kind[u] = "remove")
    PROVE  FALSE
<1>1. since[t] = 1 /\ since[u] = 1 /\ next[t] \in Nat /\ next[u] \in Nat
    BY DEF LocksInv, LocksTypes
<1>2. Locks3!Program(kind[t])[1] \in Locks3!Held(t) /\ Locks3!Program(kind[u])[1] \in Locks3!Held(u)
    BY <1>1 DEF Locks3!Held
<1>3. Locks3!Program(kind[t])[1] = Locks3!Program(kind[u])[1] /\ Locks3!Program(kind[t])[1].mode = "all"
    BY FirstLocks DEF OnUser, OnChunks
<1> QED BY <1>2, <1>3 DEF LocksInv, Locks3!NeverBoth, Txs

\* A transaction that waits.
LEMMA Waiters ==
    ASSUME LocksInv, NEW D \in SUBSET Txs, Locks3!Deadlocked(D), NEW t \in D
    PROVE  /\ kind[t] \in Kinds /\ st[t] = "open" /\ next[t] \in 1..Len3(kind[t]) /\ since[t] \in 1..next[t]
           /\ Locks3!Possible(kind[t], fresh) /\ Len3(kind[t]) \in Nat
<1>1. Locks3!Waiting(t)
    BY DEF Locks3!Deadlocked, Locks3!Blocks
<1>2. t \in Txs /\ kind[t] \in Kinds /\ Locks3!Possible(kind[t], fresh) /\ next[t] \in Nat /\ since[t] \in Nat
    BY DEF LocksInv, LocksTypes
<1>3. 1 <= since[t] /\ since[t] <= next[t]
    BY <1>2 DEF LocksInv, LocksTypes
<1>4. Len3(kind[t]) \in Nat
    BY <1>2, Lengths
<1>5. st[t] = "open" /\ next[t] <= Len3(kind[t])
    BY <1>1 DEF Locks3!Waiting, Len3
<1> QED BY <1>2, <1>3, <1>4, <1>5

\* In a deadlock without a known pair, nobody waits for a row out of the order.
LEMMA AllInOrder ==
    ASSUME LocksInv, NEW D \in SUBSET Txs, Locks3!Deadlocked(D),
           \A x, y \in D : x # y => {kind[x], kind[y]} \notin Locks3!Inversions,
           NEW t \in D
    PROVE  next[t] \in 1..InOrder(kind[t])
<1>1. ASSUME NEW x \in D
      PROVE  /\ x \in Txs /\ kind[x] \in Kinds /\ st[x] = "open" /\ next[x] \in 1..Len3(kind[x])
             /\ since[x] \in 1..next[x] /\ Locks3!Possible(kind[x], fresh) /\ Len3(kind[x]) \in Nat
    BY <1>1, Waiters
<1>2. PICK u \in D : Locks3!Blocks(u, t)
    BY DEF Locks3!Deadlocked
<1>3. PICK n \in since[u]..(next[u] - 1) : n \in 1..Len3(kind[u]) /\ Row(kind[u], n) = Row(kind[t], next[t])
    BY <1>1, <1>2, Blockers
<1>4. u # t /\ u \in Txs /\ t \in Txs
    BY <1>1, <1>2 DEF Locks3!Blocks
<1>5. n < next[u] /\ n # Len3(kind[u]) /\ next[u] > 1
    <2>1. next[u] \in 1..Len3(kind[u]) /\ since[u] \in 1..next[u] /\ Len3(kind[u]) \in Nat
        BY <1>1
    <2> QED BY <1>3, <2>1
<1>6. Where(kind[u], n)
    BY <1>1, <1>3, Places
<1>7. {kind[t], kind[u]} \notin Locks3!Inversions
    BY <1>2, <1>4
<1>8. ASSUME kind[t] \in {"settle", "retry"}, kind[u] \in {"settle", "retry"}, next[t] > 1 PROVE FALSE
    <2>1. st[t] = "open" /\ st[u] = "open" /\ next[t] > 1 /\ next[u] > 1 /\ t # u
        BY <1>1, <1>4, <1>5, <1>8
    <2> QED BY <1>4, <1>8, <2>1, FirstLockAlone
<1>9. CASE kind[t] = "retry"
    <2> SUFFICES ASSUME next[t] # 1, next[t] # 2, next[t] # 3 PROVE FALSE
        BY <1>1, <1>9, Lengths DEF InOrder
    <2>1. next[t] = 4
        BY <1>1, <1>9, Lengths
    <2>2. Row(kind[u], n) = "message"
        BY <1>3, <1>9, <2>1, TheRows
    <2>3. kind[u] \in {"settle", "fail", "unpaid"}
        <3>1. kind[u] \notin {"retry", "recover", "merge"}
            BY <1>5, <1>6, <2>2 DEF Where
        <3> QED BY <1>6, <2>2, <3>1 DEF Where
    <2> QED BY <1>7, <1>8, <1>9, <2>1, <2>3 DEF Locks3!Inversions
<1>10. CASE kind[t] = "recover"
    <2> SUFFICES ASSUME next[t] # 1 PROVE FALSE
        BY <1>1, <1>10, Lengths DEF InOrder
    <2>1. next[t] = 2
        BY <1>1, <1>10, Lengths
    <2>2. Row(kind[u], n) = "message"
        BY <1>3, <1>10, <2>1, TheRows
    <2>3. kind[u] \in {"settle", "fail", "unpaid"}
        <3>1. kind[u] \notin {"retry", "recover", "merge"}
            BY <1>5, <1>6, <2>2 DEF Where
        <3> QED BY <1>6, <2>2, <3>1 DEF Where
    <2> QED BY <1>7, <1>10, <2>3 DEF Locks3!Inversions
<1>11. CASE kind[t] = "expire"
    <2> SUFFICES ASSUME next[t] # 1 PROVE FALSE
        BY <1>1, <1>11, Lengths DEF InOrder
    <2>1. next[t] = 2
        BY <1>1, <1>11, Lengths
    <2>2. Row(kind[u], n) = "other account"
        BY <1>3, <1>11, <2>1, TheRows
    <2>3. kind[u] = "expire2"
        <3>1. kind[u] = "expire" => Len3(kind[u]) = 2
            BY Lengths
        <3> QED BY <1>5, <1>6, <2>2, <3>1 DEF Where
    <2> QED BY <1>7, <1>11, <2>3 DEF Locks3!Inversions
<1>12. CASE kind[t] = "open"
    <2> SUFFICES ASSUME next[t] # 1 PROVE FALSE
        BY <1>1, <1>12, Lengths DEF InOrder
    <2>1. next[t] = 2
        BY <1>1, <1>12, Lengths
    <2>2. Row(kind[u], n) = "user"
        BY <1>3, <1>12, <2>1, TheRows
    <2>3. kind[u] = "ask"
        <3>1. fresh
            BY <1>1, <1>12 DEF Locks3!Possible
        <3>2. kind[u] \notin {"settle", "unpaid", "retry"}
            BY <1>1, <3>1 DEF Locks3!Possible
        <3> QED BY <1>5, <1>6, <2>2, <3>2, Lengths DEF Where
    <2> QED BY <1>7, <1>12, <2>3 DEF Locks3!Inversions
<1>13. CASE kind[t] = "remove"
    <2> SUFFICES ASSUME next[t] # 1 PROVE FALSE
        BY <1>1, <1>13, Lengths DEF InOrder
    <2>1. next[t] = 2 \/ next[t] = 3
        BY <1>1, <1>13, Lengths
    <2>2. Row(kind[u], n) \in {"file", "task"}
        BY <1>3, <1>13, <2>1, TheRows
    <2>3. kind[u] = "ingest" \/ kind[u] = "remove"
        BY <1>5, <1>6, <2>2, Lengths DEF Where
    <2>4. kind[u] # "remove"
        BY <1>1, <1>4, <1>5, <1>13, <2>1, FirstLockAlone
    <2> QED BY <1>7, <1>13, <2>3, <2>4 DEF Locks3!Inversions
<1>14. CASE kind[t] \notin {"retry", "recover", "expire", "open", "remove"}
    BY <1>1, <1>14 DEF InOrder
<1> QED BY <1>9, <1>10, <1>11, <1>12, <1>13, <1>14

\* The rank of what a transaction of a deadlock waits for.
Waits(t) == Rank(Row(kind[t], next[t]))

LEMMA OnlyKnownPairs == LocksInv => Locks3!OnlyInversions
<1> SUFFICES ASSUME LocksInv, NEW D \in SUBSET Txs, Locks3!Deadlocked(D),
                    \A x, y \in D : x # y => {kind[x], kind[y]} \notin Locks3!Inversions
             PROVE  FALSE
    BY DEF Locks3!OnlyInversions, Txs
<1>1. ASSUME NEW t \in D PROVE Waits(t) \in 1..7
    <2>1. kind[t] \in Kinds /\ next[t] \in 1..Len3(kind[t])
        BY Waiters
    <2> QED BY <2>1, Places DEF Waits
<1>2. ASSUME NEW t \in D PROVE \E u \in D : Waits(t) < Waits(u)
    <2>1. PICK u \in D : Locks3!Blocks(u, t)
        BY DEF Locks3!Deadlocked
    <2>2. PICK n \in since[u]..(next[u] - 1) : n \in 1..Len3(kind[u]) /\ Row(kind[u], n) = Row(kind[t], next[t])
        BY <2>1, Blockers
    <2>3. next[u] \in 1..InOrder(kind[u])
        BY AllInOrder
    <2>4. kind[u] \in Kinds /\ next[u] \in 1..Len3(kind[u])
        BY Waiters
    <2>5. n \in 1..(next[u] - 1) /\ next[u] <= InOrder(kind[u])
        BY <2>2, <2>3, <2>4, Lengths DEF InOrder
    <2>6. Rank(Row(kind[u], n)) < Rank(Row(kind[u], next[u]))
        BY <2>4, <2>5, Places
    <2> QED BY <2>2, <2>6 DEF Waits
<1>3. PICK t \in D : TRUE
    BY DEF Locks3!Deadlocked
<1> HIDE DEF Waits
<1>4. \E u \in D : Waits(u) >= 2
    BY <1>1, <1>2, <1>3
<1>5. \E u \in D : Waits(u) >= 3
    BY <1>1, <1>2, <1>4
<1>6. \E u \in D : Waits(u) >= 4
    BY <1>1, <1>2, <1>5
<1>7. \E u \in D : Waits(u) >= 5
    BY <1>1, <1>2, <1>6
<1>8. \E u \in D : Waits(u) >= 6
    BY <1>1, <1>2, <1>7
<1>9. \E u \in D : Waits(u) >= 7
    BY <1>1, <1>2, <1>8
<1> QED BY <1>1, <1>2, <1>9

-----------------------------------------------------------------------------
\* The bundle of secrets.
Keys == {"k1", "k2"}
Dirs == Bundle!Directories \cup {None}
ImportRow == [st : {"idle", "fetch", "put", "done"}, bundle : Bundle!Bundles, read : Bundle!Bundles]
WriterRow == [st : {"idle", "check", "stage", "publish", "restore", "clean"}, bundle : Bundle!Bundles,
              stage : Dirs, backup : Dirs, stuck : BOOLEAN]

\* One of the bundles that were in AWS, with a value for every required key.
Whole(files, bundles) == files \in bundles /\ Bundle!Valid(files)
WholeDir(dir, bundles) == dir # None /\ dir.managed => Whole(dir.files, bundles)

\* What a materialisation has at each of its steps.
WriterGood(row, bundles) ==
    /\ row.st \in {"check", "stage", "publish"} => Whole(row.bundle, bundles)
    /\ row.st = "check" => row.stage = None /\ row.backup = None
    /\ row.st \in {"stage", "publish"} => row.stage # None /\ row.stage.managed
    /\ row.st = "stage" => \A k \in Keys : row.stage.files[k] \in {Bundle!Missing, row.bundle[k]}
    /\ row.st = "publish" => row.stage.files = row.bundle
    /\ row.st = "idle" /\ ~row.stuck => row.stage = None /\ row.backup = None
    /\ WholeDir(row.backup, bundles)

\* There is a bundle when one was stored, and an import merges into one that was.
ImportsGood ==
    /\ importer \in [Three -> ImportRow]
    /\ IF aws = None THEN stored = {} ELSE Whole(aws, stored)
    /\ \A i \in Three :
          /\ importer[i].st \in {"fetch", "put"} => aws # None /\ Bundle!Valid(importer[i].bundle)
          /\ importer[i].st = "put" => importer[i].read \in stored
    /\ Bundle!FirstKeysStay

\* The old directory is with a run that has not put its own in its place, nor given up its own.
SomebodyHasIt ==
    published /\ crashes = 0 /\ ~unrestored /\ target = None =>
        \E w \in Two : writer[w].st \in {"publish", "restore"} /\ writer[w].backup # None

WritersGood ==
    /\ writer \in [Two -> WriterRow]
    /\ \A w \in Two : WriterGood(writer[w], stored)
    /\ target \in Dirs /\ WholeDir(target, stored)
    /\ crashes \in Nat
    /\ SomebodyHasIt

BundleInv == (aws = None \/ aws \in Bundle!Bundles) /\ stored \subseteq Bundle!Bundles /\ ImportsGood /\ WritersGood

LEMMA NoneIsNoDir == None \notin Bundle!Bundles /\ None \notin Bundle!Directories /\ "empty" \notin Three
BY LimitsSuiteAssumption DEF Bundle!SecretAssumption, Bundle!Values

LEMMA EmptyBundle == [k \in Keys |-> "empty"] \in Bundle!Bundles
BY DEF Bundle!Bundles, Keys

LEMMA BundleStarts == Bundle!Init => BundleInv
<1> SUFFICES ASSUME Bundle!Init PROVE BundleInv
    OBVIOUS
<1> DEFINE irow == [st |-> "idle", bundle |-> [k \in Keys |-> "empty"], read |-> [k \in Keys |-> "empty"]]
           wrow == [st |-> "idle", bundle |-> [k \in Keys |-> "empty"], stage |-> None, backup |-> None, stuck |-> FALSE]
<1>1. aws = None /\ stored = {} /\ published = FALSE /\ crashes = 0 /\ unrestored = FALSE
    BY DEF Bundle!Init
<1>2. importer = [i \in Three |-> irow] /\ writer = [w \in Two |-> wrow]
    BY DEF Bundle!Init, Keys
<1>3. irow \in ImportRow /\ wrow \in WriterRow /\ irow.st = "idle" /\ wrow.st = "idle" /\ wrow.stage = None /\ wrow.backup = None
    BY EmptyBundle DEF ImportRow, WriterRow, Dirs
<1>4. target \in Dirs /\ (target = None \/ ~target.managed)
    <2>1. target \in {None, [managed |-> FALSE, files |-> [k \in Keys |-> "missing"]],
                      [managed |-> FALSE, files |-> [k \in Keys |-> "hand"]]}
        BY DEF Bundle!Init, Keys, Bundle!Missing
    <2>2. [k \in Keys |-> "missing"] \in [Keys -> Bundle!Values \cup {"empty", Bundle!Missing, "hand"}]
          /\ [k \in Keys |-> "hand"] \in [Keys -> Bundle!Values \cup {"empty", Bundle!Missing, "hand"}]
        BY DEF Bundle!Missing
    <2>3. \A f \in [Keys -> Bundle!Values \cup {"empty", Bundle!Missing, "hand"}] :
             [managed |-> FALSE, files |-> f] \in Bundle!Directories
        BY DEF Bundle!Directories, Keys
    <2>4. \A f : ~[managed |-> FALSE, files |-> f].managed
        OBVIOUS
    <2> HIDE DEF Keys
    <2>5. target \in Dirs
        BY <2>1, <2>2, <2>3 DEF Dirs
    <2> QED BY <2>1, <2>4, <2>5
<1> HIDE DEF irow, wrow
<1>5. ImportsGood
    BY <1>1, <1>2, <1>3 DEF ImportsGood, Bundle!FirstKeysStay
<1>6. WriterGood(wrow, stored)
    BY <1>3 DEF WriterGood, WholeDir
<1>7. WritersGood
    BY <1>1, <1>2, <1>3, <1>4, <1>6 DEF WritersGood, WholeDir, SomebodyHasIt
<1> QED BY <1>1, <1>5, <1>7 DEF BundleInv

-----------------------------------------------------------------------------
\* The bundles only become more.
LEMMA GoodStays ==
    ASSUME NEW old, NEW new, old \subseteq new, NEW row, WriterGood(row, old) PROVE WriterGood(row, new)
BY DEF WriterGood, WholeDir, Whole

LEMMA WritersStay ==
    ASSUME WritersGood, UNCHANGED <<target, writer, published, unrestored, crashes>>, stored \subseteq stored' PROVE WritersGood'
<1>1. \A w \in Two : WriterGood(writer[w], stored')
    BY GoodStays DEF WritersGood
<1>2. WholeDir(target, stored')
    BY DEF WritersGood, WholeDir, Whole
<1> QED BY <1>1, <1>2 DEF WritersGood, SomebodyHasIt

\* A bundle that is added has the keys of one that was there.
LEMMA FirstStays ==
    ASSUME Bundle!FirstKeysStay, NEW b, stored' = stored \cup {b},
           stored = {} \/ \E old \in stored : Bundle!Present(old) \subseteq Bundle!Present(b)
    PROVE  Bundle!FirstKeysStay'
<1>1. CASE stored = {}
    BY <1>1 DEF Bundle!FirstKeysStay
<1>2. CASE stored # {}
    <2>1. PICK first \in stored : \A later \in stored : Bundle!Present(first) \subseteq Bundle!Present(later)
        BY <1>2 DEF Bundle!FirstKeysStay
    <2>2. Bundle!Present(first) \subseteq Bundle!Present(b)
        BY <1>2, <2>1
    <2>3. \A later \in stored' : Bundle!Present(first) \subseteq Bundle!Present(later)
        BY <2>1, <2>2
    <2> QED BY <2>1, <2>3 DEF Bundle!FirstKeysStay
<1> QED BY <1>1, <1>2

LEMMA ImportKeeps == ASSUME BundleInv, NEW i \in Three, Bundle!Import(i) PROVE BundleInv'
<1>1. PICK ks \in SUBSET Keys :
        LET bundle == [k \in Keys |-> IF k \in ks THEN i ELSE "empty"]
        IN /\ importer[i].st = "idle" /\ {"k1"} \subseteq ks
           /\ importer' = [importer EXCEPT ![i].bundle = bundle,
                                           ![i].st = IF aws = None THEN "done" ELSE "fetch"]
           /\ IF aws = None THEN Bundle!Store(bundle) ELSE UNCHANGED <<aws, stored>>
           /\ Bundle!Rest
    BY DEF Bundle!Import, Keys
<1> DEFINE b == [k \in Keys |-> IF k \in ks THEN i ELSE "empty"]
           s == IF aws = None THEN "done" ELSE "fetch"
<1>2. b \in Bundle!Bundles /\ Bundle!Valid(b)
    BY <1>1, NoneIsNoDir DEF Bundle!Bundles, Bundle!Valid, Bundle!Values, Keys
<1>3. /\ importer[i].st = "idle" /\ importer' = [importer EXCEPT ![i].bundle = b, ![i].st = s]
      /\ IF aws = None THEN aws' = b /\ stored' = stored \cup {b} ELSE UNCHANGED <<aws, stored>>
      /\ UNCHANGED <<target, writer, published, unrestored, crashes>>
    BY <1>1 DEF Bundle!Store, Bundle!Rest
<1> HIDE DEF b
<1>4. importer \in [Three -> ImportRow] /\ Bundle!FirstKeysStay
    BY DEF BundleInv, ImportsGood
<1>5. /\ importer' \in [Three -> ImportRow] /\ importer'[i].st = s /\ importer'[i].bundle = b
      /\ \A j \in Three : j # i => importer'[j] = importer[j]
    BY <1>2, <1>3, <1>4 DEF ImportRow
<1>6. (aws' = None \/ aws' \in Bundle!Bundles) /\ stored' \subseteq Bundle!Bundles /\ stored \subseteq stored'
    BY <1>2, <1>3 DEF BundleInv
<1>7. WritersGood'
    BY <1>3, <1>6, WritersStay DEF BundleInv
<1>8. ImportsGood'
    <2>1. CASE aws = None
        <3>1. aws' = b /\ aws' # None /\ Whole(b, stored') /\ importer'[i].st = "done"
            BY <1>2, <1>3, <1>5, <2>1, NoneIsNoDir DEF Whole
        <3>2. \A j \in Three : importer'[j].st \notin {"fetch", "put"}
            BY <1>5, <2>1 DEF BundleInv, ImportsGood
        <3>3. stored = {}
            BY <2>1 DEF BundleInv, ImportsGood
        <3>4. Bundle!FirstKeysStay'
            BY <1>3, <1>4, <2>1, <3>3, FirstStays
        <3> QED BY <1>5, <3>1, <3>2, <3>4 DEF ImportsGood
    <2>2. CASE aws # None
        <3>1. importer'[i].st = "fetch" /\ UNCHANGED <<aws, stored>>
            BY <1>3, <1>5, <2>2
        <3>2. Whole(aws, stored) /\ Bundle!FirstKeysStay'
            BY <1>4, <2>2, <3>1 DEF BundleInv, ImportsGood, Bundle!FirstKeysStay
        <3>3. \A j \in Three : j # i =>
                 /\ importer[j].st \in {"fetch", "put"} => aws # None /\ Bundle!Valid(importer[j].bundle)
                 /\ importer[j].st = "put" => importer[j].read \in stored
            BY DEF BundleInv, ImportsGood
        <3> QED BY <1>2, <1>5, <2>2, <3>1, <3>2, <3>3 DEF ImportsGood
    <2> QED BY <2>1, <2>2
<1> QED BY <1>6, <1>7, <1>8 DEF BundleInv

LEMMA FetchKeeps == ASSUME BundleInv, NEW i \in Three, Bundle!FetchExisting(i) PROVE BundleInv'
<1> DEFINE s == IF Bundle!Valid(aws) THEN "put" ELSE "done"
<1>1. /\ importer[i].st = "fetch" /\ importer' = [importer EXCEPT ![i].read = aws, ![i].st = s]
      /\ UNCHANGED <<aws, stored, target, writer, published, unrestored, crashes>>
    BY DEF Bundle!FetchExisting, Bundle!Rest
<1>2. /\ importer \in [Three -> ImportRow] /\ aws # None /\ aws \in Bundle!Bundles /\ Whole(aws, stored)
      /\ Bundle!Valid(importer[i].bundle)
    BY <1>1 DEF BundleInv, ImportsGood
<1>3. /\ importer' \in [Three -> ImportRow] /\ importer'[i].st = s /\ importer'[i].bundle = importer[i].bundle
      /\ importer'[i].read = aws
      /\ \A j \in Three : j # i => importer'[j] = importer[j]
    BY <1>1, <1>2 DEF ImportRow
<1>4. Bundle!FirstKeysStay'
    BY <1>1 DEF BundleInv, ImportsGood, Bundle!FirstKeysStay
<1>5. \A j \in Three : /\ importer'[j].st \in {"fetch", "put"} => aws # None /\ Bundle!Valid(importer'[j].bundle)
                       /\ importer'[j].st = "put" => importer'[j].read \in stored
    BY <1>2, <1>3 DEF BundleInv, ImportsGood, Whole
<1>6. ImportsGood'
    BY <1>1, <1>2, <1>3, <1>4, <1>5 DEF ImportsGood
<1>7. WritersGood'
    BY <1>1, WritersStay DEF BundleInv
<1> QED BY <1>1, <1>6, <1>7 DEF BundleInv

LEMMA PutKeeps == ASSUME BundleInv, NEW i \in Three, Bundle!Put(i) PROVE BundleInv'
<1> DEFINE m == Bundle!Merged(importer[i].read, importer[i].bundle)
<1>1. /\ importer[i].st = "put" /\ aws' = m /\ stored' = stored \cup {m}
      /\ importer' = [importer EXCEPT ![i].st = "done"]
      /\ UNCHANGED <<target, writer, published, unrestored, crashes>>
    BY DEF Bundle!Put, Bundle!Store, Bundle!Rest
<1>2. /\ importer \in [Three -> ImportRow] /\ importer[i].read \in stored /\ Bundle!Valid(importer[i].bundle)
      /\ importer[i] \in ImportRow /\ Bundle!FirstKeysStay /\ stored \subseteq Bundle!Bundles
    BY <1>1 DEF BundleInv, ImportsGood
<1>3. m \in Bundle!Bundles /\ Bundle!Valid(m) /\ Bundle!Present(importer[i].read) \subseteq Bundle!Present(m)
    BY <1>2 DEF ImportRow, Bundle!Merged, Bundle!Bundles, Bundle!Valid, Bundle!Present
<1> HIDE DEF m
<1>4. /\ importer' \in [Three -> ImportRow] /\ importer'[i].st = "done"
      /\ \A j \in Three : j # i => importer'[j] = importer[j]
    BY <1>1, <1>2 DEF ImportRow
<1>5. Bundle!FirstKeysStay'
    BY <1>1, <1>2, <1>3, FirstStays
<1>6. aws' # None /\ Whole(aws', stored')
    BY <1>1, <1>3, NoneIsNoDir DEF Whole
<1>7. \A j \in Three : j # i =>
         /\ importer[j].st \in {"fetch", "put"} => Bundle!Valid(importer[j].bundle)
         /\ importer[j].st = "put" => importer[j].read \in stored
    BY DEF BundleInv, ImportsGood
<1>8. ImportsGood'
    BY <1>1, <1>4, <1>5, <1>6, <1>7 DEF ImportsGood
<1>9. WritersGood'
    BY <1>1, WritersStay DEF BundleInv
<1> QED BY <1>1, <1>2, <1>3, <1>8, <1>9 DEF BundleInv

-----------------------------------------------------------------------------
\* A materialisation makes a step of its own.
LEMMA WriterMoves ==
    ASSUME BundleInv, NEW w \in Two, UNCHANGED <<aws, importer, stored>>,
           writer' \in [Two -> WriterRow], \A v \in Two : v # w => writer'[v] = writer[v],
           WriterGood(writer'[w], stored), target' \in Dirs, WholeDir(target', stored), crashes' \in Nat,
           SomebodyHasIt'
    PROVE  BundleInv'
<1>1. \A v \in Two : WriterGood(writer'[v], stored)
    BY DEF BundleInv, WritersGood
<1>2. WritersGood'
    BY <1>1 DEF WritersGood
<1>3. ImportsGood'
    BY DEF BundleInv, ImportsGood, Bundle!FirstKeysStay
<1> QED BY <1>2, <1>3 DEF BundleInv

\* One that is not publishing makes a step, and leaves the target alone.
LEMMA QuietMove ==
    ASSUME BundleInv, NEW w \in Two, UNCHANGED <<aws, importer, stored, published, unrestored, target, crashes>>,
           writer' \in [Two -> WriterRow], \A v \in Two : v # w => writer'[v] = writer[v],
           WriterGood(writer'[w], stored), writer[w].st \notin {"publish", "restore"}
    PROVE  BundleInv'
<1>1. target \in Dirs /\ WholeDir(target, stored) /\ crashes \in Nat /\ SomebodyHasIt
    BY DEF BundleInv, WritersGood
<1>2. SomebodyHasIt'
    BY <1>1 DEF SomebodyHasIt
<1> QED BY <1>1, <1>2, WriterMoves

LEMMA TheirRows ==
    ASSUME BundleInv, NEW w \in Two
    PROVE  /\ writer[w] \in WriterRow /\ writer \in [Two -> WriterRow]
           /\ WriterGood(writer[w], stored) /\ target \in Dirs /\ WholeDir(target, stored) /\ crashes \in Nat
BY DEF BundleInv, WritersGood

LEMMA FetchCheckKeep == ASSUME BundleInv, NEW w \in Two, Bundle!Fetch(w) \/ Bundle!Check(w) PROVE BundleInv'
<1>1. /\ writer[w] \in WriterRow /\ writer \in [Two -> WriterRow] /\ WriterGood(writer[w], stored)
    BY TheirRows
<1>2. UNCHANGED <<aws, importer, stored, published, unrestored, target, crashes>>
    BY DEF Bundle!Fetch, Bundle!Check, Bundle!Quiet, Bundle!Still
<1>3. CASE Bundle!Fetch(w)
    <2>1. /\ writer[w].st = "idle" /\ aws # None
          /\ writer' = [writer EXCEPT ![w].stage = None, ![w].backup = None, ![w].stuck = FALSE,
                                      ![w].bundle = IF Bundle!Valid(aws) THEN aws ELSE @,
                                      ![w].st = IF Bundle!Valid(aws) THEN "check" ELSE "idle"]
        BY <1>3 DEF Bundle!Fetch
    <2>2. aws \in Bundle!Bundles /\ Whole(aws, stored)
        BY <2>1 DEF BundleInv, ImportsGood
    <2>3. /\ writer' \in [Two -> WriterRow] /\ \A v \in Two : v # w => writer'[v] = writer[v]
          /\ writer'[w].stage = None /\ writer'[w].backup = None
          /\ writer'[w].st = "check" /\ writer'[w].bundle = aws
        BY <1>1, <2>1, <2>2 DEF WriterRow, Whole, Dirs
    <2>4. WriterGood(writer'[w], stored)
        BY <1>1, <2>1, <2>2, <2>3 DEF WriterGood, WholeDir
    <2> QED BY <1>2, <2>1, <2>3, <2>4, QuietMove
<1>4. CASE Bundle!Check(w)
    <2>1. writer[w].st = "check"
        BY <1>4 DEF Bundle!Check
    <2>2. CASE writer' = Bundle!Become(w, "idle")
        <3>1. /\ writer' \in [Two -> WriterRow] /\ \A v \in Two : v # w => writer'[v] = writer[v]
              /\ writer'[w].stage = writer[w].stage /\ writer'[w].backup = writer[w].backup /\ writer'[w].st = "idle"
            BY <1>1, <2>2 DEF WriterRow, Bundle!Become
        <3>2. WriterGood(writer'[w], stored)
            BY <1>1, <2>1, <3>1 DEF WriterGood
        <3> QED BY <1>2, <2>1, <3>1, <3>2, QuietMove
    <2>3. CASE writer' = [writer EXCEPT ![w].st = "stage", ![w].stage = Bundle!Fresh]
        <3>1. /\ Bundle!Fresh \in Bundle!Directories /\ Bundle!Fresh.managed
              /\ \A k \in Keys : Bundle!Fresh.files[k] = Bundle!Missing
            BY DEF Bundle!Fresh, Bundle!Directories, Keys
        <3> HIDE DEF Bundle!Fresh
        <3>2. /\ writer' \in [Two -> WriterRow] /\ \A v \in Two : v # w => writer'[v] = writer[v]
              /\ writer'[w].stage = Bundle!Fresh /\ writer'[w].backup = writer[w].backup
              /\ writer'[w].bundle = writer[w].bundle /\ writer'[w].st = "stage"
            BY <1>1, <2>3, <3>1 DEF WriterRow, Dirs
        <3>3. WriterGood(writer'[w], stored)
            BY <1>1, <2>1, <3>1, <3>2, NoneIsNoDir DEF WriterGood
        <3> QED BY <1>2, <2>1, <3>2, <3>3, QuietMove
    <2> QED BY <1>4, <2>2, <2>3 DEF Bundle!Check
<1> QED BY <1>3, <1>4

LEMMA WriteFileKeeps == ASSUME BundleInv, NEW w \in Two, Bundle!WriteFile(w) PROVE BundleInv'
<1>1. writer[w] \in WriterRow /\ writer \in [Two -> WriterRow] /\ WriterGood(writer[w], stored)
    BY TheirRows
<1>2. UNCHANGED <<aws, importer, stored, published, unrestored, target, crashes>> /\ writer[w].st = "stage"
    BY DEF Bundle!WriteFile, Bundle!Quiet, Bundle!Still
<1>3. PICK k \in Keys : writer' = [writer EXCEPT ![w].stage.files[k] = writer[w].bundle[k]]
    BY DEF Bundle!WriteFile, Keys
<1>4. writer[w].stage \in Bundle!Directories /\ writer[w].stage.managed /\ writer[w].bundle \in Bundle!Bundles
    BY <1>1, <1>2 DEF WriterGood, WriterRow, Dirs
<1> DEFINE new == [writer[w].stage EXCEPT !.files[k] = writer[w].bundle[k]]
<1>5. /\ new \in Bundle!Directories /\ new.managed = writer[w].stage.managed
      /\ new.files[k] = writer[w].bundle[k] /\ \A l \in Keys : l # k => new.files[l] = writer[w].stage.files[l]
    BY <1>4 DEF Bundle!Directories, Bundle!Bundles, Keys
<1>6. writer' = [writer EXCEPT ![w].stage = new]
    BY <1>1, <1>3
<1> HIDE DEF new
<1>7. /\ writer' \in [Two -> WriterRow] /\ \A v \in Two : v # w => writer'[v] = writer[v]
      /\ writer'[w].stage = new /\ writer'[w].backup = writer[w].backup
      /\ writer'[w].bundle = writer[w].bundle /\ writer'[w].st = writer[w].st
    BY <1>1, <1>5, <1>6 DEF WriterRow, Dirs
<1>8. new.managed
    BY <1>4, <1>5, Zenon
<1>9. WriterGood(writer'[w], stored)
    BY <1>1, <1>2, <1>5, <1>7, <1>8, NoneIsNoDir DEF WriterGood
<1> QED BY <1>2, <1>7, <1>9, QuietMove

LEMMA BackupKeeps == ASSUME BundleInv, NEW w \in Two, Bundle!Backup(w) PROVE BundleInv'
<1>1. /\ writer[w] \in WriterRow /\ writer \in [Two -> WriterRow] /\ WriterGood(writer[w], stored)
      /\ target \in Dirs /\ WholeDir(target, stored) /\ crashes \in Nat
    BY TheirRows
<1>2. /\ UNCHANGED <<aws, importer, stored, published, unrestored, crashes>> /\ target' = None
      /\ writer[w].st = "stage" /\ Bundle!Staged(w)
      /\ writer' = [writer EXCEPT ![w].st = "publish", ![w].backup = target]
    BY DEF Bundle!Backup, Bundle!Quiet, Bundle!Still
<1>3. /\ writer' \in [Two -> WriterRow] /\ \A v \in Two : v # w => writer'[v] = writer[v]
      /\ writer'[w].stage = writer[w].stage /\ writer'[w].backup = target
      /\ writer'[w].bundle = writer[w].bundle /\ writer'[w].st = "publish"
    BY <1>1, <1>2 DEF WriterRow
<1>4. writer[w].stage.files = writer[w].bundle
    <2>1. writer[w].stage \in Bundle!Directories /\ writer[w].bundle \in Bundle!Bundles
        BY <1>1, <1>2 DEF WriterGood, WriterRow, Dirs
    <2>2. \A k \in Keys : writer[w].stage.files[k] = writer[w].bundle[k]
        BY <1>1, <1>2 DEF WriterGood, Bundle!Staged, Keys
    <2> QED BY <2>1, <2>2 DEF Bundle!Directories, Bundle!Bundles, Keys
<1>5. WriterGood(writer'[w], stored)
    BY <1>1, <1>2, <1>3, <1>4 DEF WriterGood
<1>6. SomebodyHasIt'
    <2>1. SomebodyHasIt
        BY DEF BundleInv, WritersGood
    <2>2. CASE target = None
        BY <1>2, <1>3, <2>1, <2>2 DEF SomebodyHasIt
    <2>3. CASE target # None
        BY <1>2, <1>3, <2>3 DEF SomebodyHasIt
    <2> QED BY <2>2, <2>3
<1>7. target' \in Dirs /\ WholeDir(target', stored) /\ crashes' \in Nat
    BY <1>1, <1>2 DEF Dirs, WholeDir
<1> QED BY <1>2, <1>3, <1>5, <1>6, <1>7, WriterMoves

LEMMA PublishKeeps == ASSUME BundleInv, NEW w \in Two, Bundle!Publish(w) PROVE BundleInv'
<1>1. /\ writer[w] \in WriterRow /\ writer \in [Two -> WriterRow] /\ WriterGood(writer[w], stored)
      /\ crashes \in Nat
    BY TheirRows
<1>2. /\ UNCHANGED <<aws, importer, stored, crashes>> /\ target' = writer[w].stage
      /\ writer[w].st = "publish"
      /\ writer' = [writer EXCEPT ![w].st = "clean", ![w].stage = None]
    BY DEF Bundle!Publish
<1>3. /\ writer' \in [Two -> WriterRow] /\ \A v \in Two : v # w => writer'[v] = writer[v]
      /\ writer'[w].stage = None /\ writer'[w].backup = writer[w].backup /\ writer'[w].st = "clean"
    BY <1>1, <1>2 DEF WriterRow, Dirs
<1>4. WriterGood(writer'[w], stored)
    BY <1>1, <1>2, <1>3 DEF WriterGood
<1>5. target' # None /\ target' \in Dirs /\ WholeDir(target', stored)
    BY <1>1, <1>2 DEF WriterGood, WriterRow, WholeDir
<1>6. SomebodyHasIt'
    BY <1>5 DEF SomebodyHasIt
<1> QED BY <1>1, <1>2, <1>3, <1>4, <1>5, <1>6, WriterMoves

\* A run that fails tries to put the old directory back.
LEMMA GiveUpKeeps == ASSUME BundleInv, NEW w \in Two, Bundle!GiveUp(w) PROVE BundleInv'
<1>1. /\ writer[w] \in WriterRow /\ writer \in [Two -> WriterRow] /\ WriterGood(writer[w], stored)
      /\ target \in Dirs /\ WholeDir(target, stored) /\ crashes \in Nat
    BY TheirRows
<1>2. /\ UNCHANGED <<aws, importer, stored, published, unrestored, target, crashes>>
      /\ writer[w].st \in {"stage", "publish"} /\ writer' = [writer EXCEPT ![w].st = "restore"]
    BY DEF Bundle!GiveUp, Bundle!Become
<1>3. /\ writer' \in [Two -> WriterRow] /\ \A v \in Two : v # w => writer'[v] = writer[v]
      /\ writer'[w].stage = writer[w].stage /\ writer'[w].backup = writer[w].backup /\ writer'[w].st = "restore"
    BY <1>1, <1>2 DEF WriterRow
<1>4. WriterGood(writer'[w], stored)
    BY <1>1, <1>3 DEF WriterGood
<1>5. SomebodyHasIt
    BY DEF BundleInv, WritersGood
<1>6. SomebodyHasIt'
    BY <1>2, <1>3, <1>5 DEF SomebodyHasIt
<1> QED BY <1>1, <1>2, <1>3, <1>4, <1>6, WriterMoves

LEMMA RestoreKeeps == ASSUME BundleInv, NEW w \in Two, Bundle!Restore(w) \/ Bundle!RestoreFails(w) PROVE BundleInv'
<1>1. /\ writer[w] \in WriterRow /\ writer \in [Two -> WriterRow] /\ WriterGood(writer[w], stored)
      /\ target \in Dirs /\ WholeDir(target, stored) /\ crashes \in Nat
    BY TheirRows
<1>2. writer[w].st = "restore" /\ UNCHANGED <<aws, importer, stored, published, crashes>>
    BY DEF Bundle!Restore, Bundle!RestoreFails, Bundle!Quiet, Bundle!Still
<1>3. SomebodyHasIt
    BY DEF BundleInv, WritersGood
<1>4. CASE /\ Bundle!Misses(w) /\ target' = writer[w].backup
           /\ writer' = [writer EXCEPT ![w].st = "clean", ![w].backup = None]
    <2>1. /\ writer' \in [Two -> WriterRow] /\ \A v \in Two : v # w => writer'[v] = writer[v]
          /\ writer'[w].backup = None /\ writer'[w].st = "clean"
        BY <1>1, <1>4 DEF WriterRow, Dirs
    <2>2. WriterGood(writer'[w], stored)
        BY <2>1 DEF WriterGood, WholeDir
    <2>3. target' # None /\ target' \in Dirs /\ WholeDir(target', stored)
        BY <1>1, <1>4 DEF WriterGood, WriterRow, Bundle!Misses
    <2>4. SomebodyHasIt'
        BY <2>3 DEF SomebodyHasIt
    <2> QED BY <1>1, <1>2, <2>1, <2>2, <2>3, <2>4, WriterMoves
<1>5. CASE target' = target /\ writer' = Bundle!Become(w, "clean")
    <2>1. /\ writer' \in [Two -> WriterRow] /\ \A v \in Two : v # w => writer'[v] = writer[v]
          /\ writer'[w].backup = writer[w].backup /\ writer'[w].st = "clean"
        BY <1>1, <1>5 DEF WriterRow, Bundle!Become
    <2>2. WriterGood(writer'[w], stored)
        BY <1>1, <2>1 DEF WriterGood
    <2>3. SomebodyHasIt'
        <3>1. CASE Bundle!RestoreFails(w)
            BY <3>1 DEF SomebodyHasIt, Bundle!RestoreFails
        <3>2. CASE Bundle!Restore(w) /\ ~Bundle!Misses(w)
            <4>1. UNCHANGED unrestored
                BY <3>2 DEF Bundle!Restore, Bundle!Quiet, Bundle!Still
            <4>2. target = None => writer[w].backup = None
                BY <3>2 DEF Bundle!Misses
            <4> QED BY <1>2, <1>3, <1>5, <2>1, <4>1, <4>2 DEF SomebodyHasIt
        <3>3. CASE Bundle!Restore(w) /\ Bundle!Misses(w)
            <4>1. target' = writer[w].backup /\ writer[w].backup # None
                BY <3>3 DEF Bundle!Restore, Bundle!Misses
            <4> QED BY <4>1 DEF SomebodyHasIt
        <3> QED BY <3>1, <3>2, <3>3
    <2> QED BY <1>1, <1>2, <1>5, <2>1, <2>2, <2>3, WriterMoves
<1> QED BY <1>4, <1>5 DEF Bundle!Restore, Bundle!RestoreFails

\* A run that ends: its directories are gone, or it died or could not remove them.
LEMMA EndKeepsBundle ==
    ASSUME BundleInv, NEW w \in Two, Bundle!Clean(w) \/ Bundle!CleanFails(w) \/ Bundle!Crash(w) PROVE BundleInv'
<1>1. /\ writer[w] \in WriterRow /\ writer \in [Two -> WriterRow] /\ WriterGood(writer[w], stored)
      /\ target \in Dirs /\ WholeDir(target, stored) /\ crashes \in Nat
    BY TheirRows
<1>2. CASE Bundle!Clean(w)
    <2>1. /\ writer[w].st = "clean" /\ UNCHANGED <<aws, importer, stored, published, unrestored, target, crashes>>
          /\ writer' = [writer EXCEPT ![w] = [Bundle!Cleaned(@) EXCEPT !.st = "idle"]]
        BY <1>2 DEF Bundle!Clean, Bundle!Quiet, Bundle!Still
    <2>2. /\ writer' \in [Two -> WriterRow] /\ \A v \in Two : v # w => writer'[v] = writer[v]
          /\ writer'[w].stage = None /\ writer'[w].backup = None /\ writer'[w].st = "idle"
        BY <1>1, <2>1 DEF WriterRow, Dirs, Bundle!Cleaned
    <2>3. WriterGood(writer'[w], stored)
        BY <2>2 DEF WriterGood, WholeDir
    <2> QED BY <2>1, <2>2, <2>3, QuietMove
<1>3. CASE Bundle!CleanFails(w)
    <2>1. /\ writer[w].st = "clean" /\ UNCHANGED <<aws, importer, stored, published, unrestored, target, crashes>>
          /\ \/ writer' = [writer EXCEPT ![w].st = "idle", ![w].stuck = TRUE]
             \/ writer' = [writer EXCEPT ![w].st = "idle", ![w].stuck = TRUE, ![w].stage = None]
        BY <1>3 DEF Bundle!CleanFails
    <2>2. /\ writer' \in [Two -> WriterRow] /\ \A v \in Two : v # w => writer'[v] = writer[v]
          /\ writer'[w].backup = writer[w].backup /\ writer'[w].st = "idle" /\ writer'[w].stuck
        BY <1>1, <2>1 DEF WriterRow, Dirs
    <2>3. WriterGood(writer'[w], stored)
        BY <1>1, <2>2 DEF WriterGood
    <2> QED BY <2>1, <2>2, <2>3, QuietMove
<1>4. CASE Bundle!Crash(w)
    <2>1. /\ UNCHANGED <<aws, importer, stored, published, unrestored, target>> /\ crashes' = crashes + 1
          /\ writer' = [writer EXCEPT ![w].st = "idle", ![w].stuck = TRUE]
        BY <1>4 DEF Bundle!Crash
    <2>2. /\ writer' \in [Two -> WriterRow] /\ \A v \in Two : v # w => writer'[v] = writer[v]
          /\ writer'[w].backup = writer[w].backup /\ writer'[w].st = "idle" /\ writer'[w].stuck
        BY <1>1, <2>1 DEF WriterRow
    <2>3. WriterGood(writer'[w], stored)
        BY <1>1, <2>2 DEF WriterGood
    <2>4. SomebodyHasIt' /\ crashes' \in Nat
        BY <1>1, <2>1 DEF SomebodyHasIt
    <2> QED BY <1>1, <2>1, <2>2, <2>3, <2>4, WriterMoves
<1> QED BY <1>2, <1>3, <1>4

LEMMA BundleStep == ASSUME BundleInv, Bundle!Next PROVE BundleInv'
BY ImportKeeps, FetchKeeps, PutKeeps, FetchCheckKeep, WriteFileKeeps, BackupKeeps, PublishKeeps, GiveUpKeeps,
   RestoreKeeps, EndKeepsBundle DEF Bundle!Next

LEMMA BundleSafe ==
    ASSUME BundleInv
    PROVE  Bundle!TypeOK /\ Bundle!TargetIsOneBundle /\ Bundle!TargetStays /\ Bundle!NothingLeft
           /\ Bundle!FirstKeysStay
<1>1. Bundle!TypeOK
    <2>1. \A i \in Three : importer[i].st \in {"idle", "fetch", "put", "done"} /\ importer[i].bundle \in Bundle!Bundles
        BY DEF BundleInv, ImportsGood, ImportRow
    <2>2. \A w \in Two : /\ writer[w].st \in {"idle", "check", "stage", "publish", "restore", "clean"}
                         /\ writer[w].bundle \in Bundle!Bundles
                         /\ {writer[w].stage, writer[w].backup} \subseteq Dirs
                         /\ writer[w].st \in {"stage", "publish"} => writer[w].stage # None
        BY DEF BundleInv, WritersGood, WriterRow, WriterGood
    <2> QED BY <2>1, <2>2 DEF BundleInv, WritersGood, Bundle!TypeOK, Dirs
<1>2. Bundle!TargetIsOneBundle
    BY DEF BundleInv, WritersGood, WholeDir, Whole, Bundle!Valid, Bundle!TargetIsOneBundle
<1>3. Bundle!NothingLeft
    BY DEF BundleInv, WritersGood, WriterGood, Bundle!NothingLeft
<1>4. Bundle!TargetStays
    BY DEF BundleInv, WritersGood, SomebodyHasIt, Bundle!TargetStays
<1> QED BY <1>1, <1>2, <1>3, <1>4 DEF BundleInv, ImportsGood

-----------------------------------------------------------------------------
\* The suite: the codes' invariant, whichever component runs, and the one of the component that does.
SuiteInv ==
    /\ SmsInv
    /\ running = "limits" => WindowInv(Two, {"q1", "q2"}, 1, 5)
    /\ running = "second" => WindowInv(First, Two, 2, 6)
    /\ running = "bodies" => BodiesInv
    /\ running = "locks" => LocksInv
    /\ running = "bundle" => BundleInv

LimitsStep ==
    /\ running = "limits" => Limits!RejectedOnlyWhenFullStep
    /\ running = "second" => Second!RejectedOnlyWhenFullStep

LEMMA SuiteStarts == SuiteInit => SuiteInv
<1> SUFFICES ASSUME SuiteInit PROVE SuiteInv
    OBVIOUS
<1>1. /\ running = "limits" => Limits!Init
      /\ running = "second" => Second!Init
      /\ running = "bodies" => Bodies!Init
      /\ running = "locks" => Locks3!Init
      /\ running = "bundle" => Bundle!Init
    <2>1. /\ CASE running = "limits" -> Limits!Init
               [] running = "second" -> Second!Init
               [] running = "bodies" -> Bodies!Init
               [] OTHER -> LimitsOff
          /\ running = "locks" => Locks3!Init
          /\ running = "bundle" => Bundle!Init
        BY Zenon DEF SuiteInit
    <2>2. (running = "limits" => Limits!Init) /\ (running = "second" => Second!Init) /\ (running = "bodies" => Bodies!Init)
        BY <2>1
    <2> QED BY <2>1, <2>2
<1>2. SmsInv
    BY SmsInit DEF SuiteInit
<1> QED BY <1>1, <1>2, LimitsStarts, SecondStarts, BodiesStart, LocksStart, BundleStarts DEF SuiteInv

\* Nothing that a component's invariant speaks of changes unless the component runs.
LEMMA SuiteStutters ==
    /\ UNCHANGED limitVars =>
          /\ \A clients, requests, times, last : WindowInv(clients, requests, times, last) => WindowInv(clients, requests, times, last)'
          /\ BodiesInv => BodiesInv'
          /\ Limits!RejectedOnlyWhenFullStep /\ Second!RejectedOnlyWhenFullStep
    /\ UNCHANGED lockVars => (LocksInv => LocksInv')
    /\ UNCHANGED bundleVars => (BundleInv => BundleInv')
    /\ UNCHANGED vars => (SmsInv => SmsInv')
<1>1. ASSUME UNCHANGED limitVars
      PROVE  /\ \A clients, requests, times, last :
                   WindowInv(clients, requests, times, last) => WindowInv(clients, requests, times, last)'
             /\ BodiesInv => BodiesInv'
             /\ Limits!RejectedOnlyWhenFullStep /\ Second!RejectedOnlyWhenFullStep
    <2>1. UNCHANGED <<now, zset, expires, req, admitted>>
        BY <1>1 DEF limitVars
    <2>2. \A clients, requests, times, last :
                   WindowInv(clients, requests, times, last) => WindowInv(clients, requests, times, last)'
        BY <2>1 DEF WindowInv
    <2>3. BodiesInv => BodiesInv'
        BY <2>1 DEF BodiesInv
    <2>4. Limits!RejectedOnlyWhenFullStep /\ Second!RejectedOnlyWhenFullStep
        BY <2>1 DEF Limits!RejectedOnlyWhenFullStep, Second!RejectedOnlyWhenFullStep
    <2> QED BY <2>2, <2>3, <2>4
<1>2. ASSUME UNCHANGED lockVars, LocksInv PROVE LocksInv'
    <2>1. UNCHANGED <<fresh, kind, next, since, st>>
        BY <1>2 DEF lockVars
    <2>2. LocksTypes'
        BY <1>2, <2>1 DEF LocksInv, LocksTypes
    <2>3. \A t : Locks3!Held(t)' = Locks3!Held(t)
        BY <2>1 DEF Locks3!Held
    <2>4. Locks3!NeverBoth'
        BY <1>2, <2>3 DEF LocksInv, Locks3!NeverBoth
    <2> QED BY <2>2, <2>4 DEF LocksInv
<1>3. ASSUME UNCHANGED bundleVars PROVE BundleInv => BundleInv'
    <2>1. UNCHANGED <<aws, importer, target, writer, stored, published, unrestored, crashes>>
        BY <1>3 DEF bundleVars
    <2> QED BY <2>1 DEF BundleInv, ImportsGood, WritersGood, SomebodyHasIt, Bundle!FirstKeysStay
<1>4. ASSUME UNCHANGED vars, SmsInv PROVE SmsInv'
    BY <1>4, SmsStep
<1> QED BY <1>1, <1>2, <1>3, <1>4

LEMMA SuiteStep == ASSUME SuiteInv, [SuiteNext]_suiteVars PROVE SuiteInv' /\ LimitsStep
<1>1. CASE UNCHANGED suiteVars
    <2>1. UNCHANGED vars /\ UNCHANGED limitVars /\ UNCHANGED lockVars /\ UNCHANGED bundleVars /\ UNCHANGED running
        BY <1>1 DEF suiteVars
    <2> QED BY <2>1, SuiteStutters DEF SuiteInv, LimitsStep
<1>2. CASE SuiteNext
    <2>1. running' = running /\ ([Next]_vars)
        BY <1>2 DEF SuiteNext
    <2>2. /\ running = "limits" => Limits!Next
          /\ running = "second" => Second!Next
          /\ running = "bodies" => Bodies!Next
          /\ running = "locks" => Locks3!Next
          /\ running = "bundle" => Bundle!Next
        BY <1>2 DEF SuiteNext
    <2>3. SmsInv'
        BY <2>1, SmsStep DEF SuiteInv
    <2>4. running = "limits" => WindowInv(Two, {"q1", "q2"}, 1, 5)' /\ Limits!RejectedOnlyWhenFullStep
        BY <2>2, LimitsKeeps DEF SuiteInv
    <2>5. running = "second" => WindowInv(First, Two, 2, 6)' /\ Second!RejectedOnlyWhenFullStep
        BY <2>2, SecondKeeps DEF SuiteInv
    <2>6. running = "bodies" => BodiesInv'
        BY <2>2, BodiesKeep DEF SuiteInv
    <2>7. running = "locks" => LocksInv'
        BY <2>2, LocksStep DEF SuiteInv
    <2>8. running = "bundle" => BundleInv'
        BY <2>2, BundleStep DEF SuiteInv
    <2> QED BY <2>1, <2>3, <2>4, <2>5, <2>6, <2>7, <2>8 DEF SuiteInv, LimitsStep
<1> QED BY <1>1, <1>2

\* The invariant holds in every state, and every step is as it should be.
LEMMA SuiteHolds == SuiteSpec => []SuiteInv /\ [][LimitsStep]_suiteVars
<1>1. SuiteInit => SuiteInv
    BY SuiteStarts
<1>2. SuiteInv /\ [SuiteNext]_suiteVars => SuiteInv'
    BY SuiteStep
<1>3. SuiteInv /\ [SuiteNext]_suiteVars => [LimitsStep]_suiteVars
    BY SuiteStep
<1> QED BY <1>1, <1>2, <1>3, PTL DEF SuiteSpec

\* However the stamps of two clients' requests, or of two requests of one, are delayed and reordered and whatever their
\* headers say: a client gets at most its requests through in a window and is turned away only when it has had them;
\* a JSON body is no larger than the limit; and fewer than Limit wrong codes are looked at between two locks of a phone
\* (rate_limit.py, payload_limit.py, sms_service.py).
THEOREM LimitsAreHeld == SuiteSpec => LimitsHold
<1> DEFINE Held == /\ TriesBounded
                   /\ running = "limits" => Limits!TypeOK /\ Limits!WindowHolds
                   /\ running = "second" => Second!WindowHolds
                   /\ running = "bodies" => Bodies!BodyBounded
<1>1. SuiteInv => Held
    <2>1. SmsInv => TriesBounded
        BY DEF SmsInv, TypeOK, TriesCounted, TriesBounded
    <2> QED BY <2>1, LimitsSafe, SecondSafe, BodiesSafe DEF SuiteInv
<1>2. SuiteSpec => []Held /\ [][LimitsStep]_suiteVars
    BY <1>1, SuiteHolds, PTL
<1> QED BY <1>2 DEF LimitsHold, LimitsStep

\* Three transactions of any kinds never hold conflicting locks, and whenever some wait for each other in a circle, two
\* of them are a known pair that takes rows the other way round: every other lock respects one order of the rows.
THEOREM LocksAreKept == SuiteSpec => []LocksKept
<1>1. SuiteInv => LocksKept
    BY OnlyKnownPairs DEF SuiteInv, LocksInv, LocksKept
<1> QED BY <1>1, SuiteHolds, PTL

\* However three imports and two writers of the bundle of secrets overlap, fail, crash, or cannot put back or remove a
\* directory: the directory has the files of one bundle that was in AWS, stays unless it could not be put back, copies
\* stay behind only where a run died or could not remove them, and every bundle has the keys of the first
\* (secret_bundle.py).
THEOREM BundleIsWhole == SuiteSpec => []BundleWhole
<1>1. SuiteInv => BundleWhole
    BY BundleSafe DEF SuiteInv, BundleWhole
<1> QED BY <1>1, SuiteHolds, PTL
-----------------------------------------------------------------------------
(* What CreditsProofs shows of every account holds of the suite's instance. *)

ChargesP == INSTANCE CreditsProofs
            WITH Users <- {"ann"}, Messages <- Two, Owner <- [m \in Two |-> "ann"],
                 Workers <- {"w1", "w2"}, NoMessage <- None, NoUsage <- None,
                 Grant <- 2, ValidDays <- 2, Ratio <- 2, Unit <- 4, MaxTokens <- 2,
                 Estimates <- {1, 2}, Bills <- {3, 6}, MaxDay <- 3, MaxFaults <- 1

LEMMA ChargesAssumed == ChargesP!CreditsAssumption
BY LimitsSuiteAssumption DEF Charges!CreditsAssumption, ChargesP!CreditsAssumption,
                             Charges!Usage, ChargesP!Usage, Charges!IsFiniteSet,
                             ChargesP!IsFiniteSet

LEMMA ChargesSameInit == Charges!Init <=> ChargesP!Init
BY DEF Charges!Init, ChargesP!Init

LEMMA ChargesSameExpiry ==
    (Charges!Expiry \/ Charges!CrashExpiry) <=> (ChargesP!Expiry \/ ChargesP!CrashExpiry)
<1>1. \A u, n : Charges!ToExpire(u, n) = ChargesP!ToExpire(u, n)
    BY DEF Charges!ToExpire, ChargesP!ToExpire, Charges!Spent, ChargesP!Spent, Charges!SumOver,
           ChargesP!SumOver, Charges!MapThenSumSet, ChargesP!MapThenSumSet,
           Charges!MapThenFoldSet, ChargesP!MapThenFoldSet, Charges!Min, ChargesP!Min,
           Charges!ExpiredGrants, ChargesP!ExpiredGrants, Charges!Cardinality,
           ChargesP!Cardinality, Charges!Protected, ChargesP!Protected
<1>2. \A u, n : Charges!ExpiredGrants(u, n) = ChargesP!ExpiredGrants(u, n)
    BY DEF Charges!ExpiredGrants, ChargesP!ExpiredGrants, Charges!Cardinality,
           ChargesP!Cardinality
<1>3. Charges!Ended = ChargesP!Ended
    BY DEF Charges!Ended, ChargesP!Ended
<1>4. Charges!StartExpiry <=> ChargesP!StartExpiry
    BY <1>2 DEF Charges!StartExpiry, ChargesP!StartExpiry
<1>5. \A u : Charges!ExpireAccount(u) <=> ChargesP!ExpireAccount(u)
    BY <1>1 DEF Charges!ExpireAccount, ChargesP!ExpireAccount
<1>6. Charges!CommitExpiry <=> ChargesP!CommitExpiry
    BY <1>3 DEF Charges!CommitExpiry, ChargesP!CommitExpiry
<1>7. Charges!CrashExpiry <=> ChargesP!CrashExpiry
    BY <1>3 DEF Charges!CrashExpiry, ChargesP!CrashExpiry
<1> QED BY <1>4, <1>5, <1>6, <1>7 DEF Charges!Expiry, ChargesP!Expiry

LEMMA ChargesSameNext == Charges!Next <=> ChargesP!Next
<1>1. Charges!NewDay <=> ChargesP!NewDay
    BY DEF Charges!NewDay, ChargesP!NewDay
<1>2. \A u : Charges!CheckIn(u) <=> ChargesP!CheckIn(u)
    BY DEF Charges!CheckIn, ChargesP!CheckIn, Charges!Locked, ChargesP!Locked
<1>3. \A u : Charges!SkipAccount(u) <=> ChargesP!SkipAccount(u)
    BY DEF Charges!SkipAccount, ChargesP!SkipAccount
<1>4. \A m, est : Charges!Admit(m, est) <=> ChargesP!Admit(m, est)
    BY DEF Charges!Admit, ChargesP!Admit, Charges!Locked, ChargesP!Locked, Charges!Sufficient,
           ChargesP!Sufficient, Charges!Remaining, ChargesP!Remaining
<1>5. \A w, m : Charges!ReadCharge(w, m) <=> ChargesP!ReadCharge(w, m)
    BY DEF Charges!ReadCharge, ChargesP!ReadCharge
<1>6. \A w, bill : Charges!Charge(w, bill) <=> ChargesP!Charge(w, bill)
    BY DEF Charges!Charge, ChargesP!Charge, Charges!Share, ChargesP!Share, Charges!Cost,
           ChargesP!Cost, Charges!TokenValue, ChargesP!TokenValue, Charges!CeilDiv,
           ChargesP!CeilDiv, Charges!Locked, ChargesP!Locked, Charges!Uncharged,
           ChargesP!Uncharged
<1> QED BY <1>1, <1>2, <1>3, <1>4, <1>5, <1>6, ChargesSameExpiry DEF Charges!Next, ChargesP!Next

LEMMA ChargesSafe ==
    ASSUME ChargesP!CreditsInv
    PROVE  Charges!TypeOK /\ Charges!ChargedItsValue /\ Charges!BalanceIsLedger
<1>1. ChargesP!TypeOK /\ ChargesP!ChargedItsValue /\ ChargesP!BalanceIsLedger
    BY ChargesAssumed, ChargesP!CreditsInvImplies
<1>2. Charges!TypeOK
    BY <1>1 DEF Charges!TypeOK, ChargesP!TypeOK, Charges!Usage, ChargesP!Usage,
                Charges!GenStatus, ChargesP!GenStatus
<1>3. Charges!ChargedItsValue
    BY <1>1 DEF Charges!ChargedItsValue, ChargesP!ChargedItsValue, Charges!TokenValue,
                ChargesP!TokenValue, Charges!CeilDiv, ChargesP!CeilDiv
<1>4. Charges!BalanceIsLedger
    BY <1>1 DEF Charges!BalanceIsLedger, ChargesP!BalanceIsLedger, Charges!Spent, ChargesP!Spent,
                Charges!SumOver, ChargesP!SumOver, Charges!MapThenSumSet, ChargesP!MapThenSumSet,
                Charges!MapThenFoldSet, ChargesP!MapThenFoldSet, Charges!Cardinality,
                ChargesP!Cardinality
<1> QED BY <1>2, <1>3, <1>4

LEMMA ChargesStepSafe ==
    ASSUME ChargesP!CreditsInv, ChargesP!Next \/ UNCHANGED creditVars
    PROVE  /\ ChargesP!CreditsInv'
           /\ Charges!ChargedOnceStep /\ Charges!AdmittedIsPaidStep
           /\ Charges!ExpiryProtectsStep /\ Charges!ExpiryIsExactStep
<1>1. [ChargesP!Next]_ChargesP!vars
    BY DEF creditVars, ChargesP!vars
<1>2. ChargesP!CreditsInv'
    BY <1>1, ChargesAssumed, ChargesP!CreditsNext
<1>3. Charges!ChargedOnceStep
    <2>1. ChargesP!ChargedOnceStep
        BY <1>1, ChargesAssumed, ChargesP!ChargedOnceHolds
    <2> QED BY <2>1 DEF Charges!ChargedOnceStep, ChargesP!ChargedOnceStep
<1>4. Charges!AdmittedIsPaidStep
    <2>1. ChargesP!AdmittedIsPaidStep
        BY <1>1, ChargesAssumed, ChargesP!AdmittedIsPaidHolds
    <2> QED BY <2>1 DEF Charges!AdmittedIsPaidStep, ChargesP!AdmittedIsPaidStep, Charges!Cost,
                        ChargesP!Cost, Charges!CeilDiv, ChargesP!CeilDiv
<1>5. ChargesP!ExpiryProtectsStep /\ ChargesP!ExpiryIsExactStep
    BY <1>1, ChargesAssumed, ChargesP!ExpiryHolds
<1>6. Charges!ExpiryProtectsStep
    <2>1. \A u, n : Charges!Valid(u, n) = ChargesP!Valid(u, n)
        BY DEF Charges!Valid, ChargesP!Valid, Charges!Cardinality, ChargesP!Cardinality
    <2>2. (\A u, n : Charges!Valid(u, n) = ChargesP!Valid(u, n))'
        BY DEF Charges!Valid, ChargesP!Valid, Charges!Cardinality, ChargesP!Cardinality
    <2> QED BY <1>5, <2>1, <2>2 DEF Charges!ExpiryProtectsStep, ChargesP!ExpiryProtectsStep
<1>7. Charges!ExpiryIsExactStep
    <2>1. \A u, n : Charges!ExpiredGrants(u, n) = ChargesP!ExpiredGrants(u, n)
        BY DEF Charges!ExpiredGrants, ChargesP!ExpiredGrants, Charges!Cardinality,
               ChargesP!Cardinality
    <2>2. \A u : Charges!Spent(u) = ChargesP!Spent(u)
        BY DEF Charges!Spent, ChargesP!Spent, Charges!SumOver, ChargesP!SumOver,
               Charges!MapThenSumSet, ChargesP!MapThenSumSet, Charges!MapThenFoldSet,
               ChargesP!MapThenFoldSet
    <2> QED BY <1>5, <2>1, <2>2 DEF Charges!ExpiryIsExactStep, ChargesP!ExpiryIsExactStep
<1> QED BY <1>2, <1>3, <1>4, <1>6, <1>7

\* The charges keep their invariant, whatever else runs.
CreditsKept == running = "charges" => ChargesP!CreditsInv
CreditsStep ==
    running = "charges" =>
        /\ Charges!ChargedOnceStep /\ Charges!AdmittedIsPaidStep
        /\ Charges!ExpiryProtectsStep /\ Charges!ExpiryIsExactStep

LEMMA CreditsStart == SuiteInit => CreditsKept
<1> SUFFICES ASSUME SuiteInit PROVE CreditsKept
    OBVIOUS
<1>1. running = "charges" => Charges!Init
    BY Zenon DEF SuiteInit
<1> QED BY <1>1, ChargesSameInit, ChargesAssumed, ChargesP!CreditsInit DEF CreditsKept

LEMMA CreditsMove ==
    ASSUME CreditsKept, [SuiteNext]_suiteVars
    PROVE  CreditsKept' /\ CreditsStep
<1>1. /\ running' = running
      /\ running = "charges" => Charges!Next \/ UNCHANGED creditVars
    BY DEF SuiteNext, suiteVars
<1>2. CASE running = "charges"
    <2>1. ChargesP!CreditsInv /\ (ChargesP!Next \/ UNCHANGED creditVars)
        BY <1>1, <1>2, ChargesSameNext DEF CreditsKept
    <2> QED BY <1>1, <1>2, <2>1, ChargesStepSafe DEF CreditsKept, CreditsStep
<1> QED BY <1>1, <1>2 DEF CreditsKept, CreditsStep

\* However check-ins, checks, charges of two workers, days and nightly expiries with errors and
\* crashes alternate: a message is charged once and its value, what was admitted is paid unless
\* the account was used, the balance is the sum of its transactions with every check-in counted
\* twice, and of the grants on record the expiry takes what has expired and was not spent, and
\* nothing a valid grant protects (credit_service.py).
THEOREM ChargesAreRight == SuiteSpec => ChargesRight
<1> DEFINE Right == running = "charges" =>
                        Charges!TypeOK /\ Charges!ChargedItsValue /\ Charges!BalanceIsLedger
<1>1. SuiteInit => CreditsKept
    BY CreditsStart
<1>2. CreditsKept /\ [SuiteNext]_suiteVars => CreditsKept' /\ [CreditsStep]_suiteVars
    BY CreditsMove
<1>3. CreditsKept => Right
    BY ChargesSafe DEF CreditsKept
<1>4. SuiteSpec => []Right /\ [][CreditsStep]_suiteVars
    BY <1>1, <1>2, <1>3, PTL DEF SuiteSpec
<1> QED BY <1>4 DEF ChargesRight, CreditsStep
=============================================================================

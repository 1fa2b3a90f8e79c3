---------------------- MODULE KnowledgeIngestionProofs ----------------------
(***************************************************************************)
(* Proofs about TaskOutbox: its types, that a published event was sent,    *)
(* and that a lease which has not run out is respected; and about          *)
(* KnowledgeIngestion, which works with that outbox: its types, that it    *)
(* uses the outbox as TaskOutbox allows, that chunks and READY go          *)
(* together, that retries are bounded, and that a worker which lost its    *)
(* attempt changes nothing; and what a task and its file say of each other *)
(* (the second half: every step of the pipeline moves at most one task,    *)
(* one file and one process, LEMMA StepIsMove, and the invariants are      *)
(* proved of the moves).                                                   *)
(***************************************************************************)
EXTENDS KnowledgeIngestion, TLAPS

(***************************************************************************)
(* TaskOutbox.                                                             *)
(***************************************************************************)
\* The part of a publisher's work that its lease vouches for: a row waiting to be
\* confirmed, and still leased for it, has been sent since it was last opened.
ConfirmedRowSent ==
    \A p \in Publishers : \A c \in publisher[p] :
        c.step = "confirm" /\ HoldsLease(p, c) => c.task \in sent

\* A publisher holds one claim on a row.
OneClaim ==
    \A p \in Publishers : \A c, d \in publisher[p] : c.task = d.task => c = d

OutboxInv == OutboxTypeOK /\ ConfirmedRowSent /\ OneClaim /\ PublishedMeansSent

-----------------------------------------------------------------------------
LEMMA OutboxInitInv == OutboxInit => OutboxInv
BY OutboxAssumption DEF OutboxInit, OutboxInv, OutboxTypeOK, ConfirmedRowSent, OneClaim,
   PublishedMeansSent, Row, Claim, NoRow, OutboxStatus

\* Types.
LEMMA OutboxTypeStep == OutboxTypeOK /\ [OutboxNext]_outboxVars => OutboxTypeOK'
<1> SUFFICES ASSUME OutboxTypeOK, [OutboxNext]_outboxVars PROVE OutboxTypeOK'
    OBVIOUS
<1> USE OutboxAssumption DEF OutboxTypeOK, Row, OutboxStatus
<1>1. ASSUME NEW p \in Publishers, NEW R \in SUBSET Tasks, ClaimDue(p, R)
      PROVE  OutboxTypeOK'
    <2>1. \A t \in R : outbox[t].attempts + 1 \in 1..MaxPublish
        BY <1>1 DEF ClaimDue, Claimable
    <2>2. outbox' \in [Tasks -> Row]
        BY <1>1, <2>1 DEF ClaimDue
    <2>3. {[task |-> t, attempt |-> outbox[t].attempts + 1, step |-> "enqueue"] : t \in R}
             \in SUBSET Claim
        BY <2>1 DEF Claim
    <2>4. publisher' \in [Publishers -> SUBSET Claim]
        BY <1>1, <2>3 DEF ClaimDue
    <2> QED BY <1>1, <2>2, <2>4 DEF ClaimDue
<1>2. ASSUME NEW p \in Publishers, NEW c \in publisher[p],
             Enqueue(p, c) \/ EnqueueFails(p, c)
      PROVE  OutboxTypeOK'
    <2>1. c \in Claim
        OBVIOUS
    <2>2. [c EXCEPT !.step = "confirm"] \in Claim /\ [c EXCEPT !.step = "release"] \in Claim
        BY <2>1 DEF Claim
    <2>3. publisher' \in [Publishers -> SUBSET Claim]
        BY <1>2, <2>2 DEF Enqueue, EnqueueFails, SetStep
    <2>4. c.task \in Tasks
        BY <2>1 DEF Claim
    <2>5. queue' \in [Tasks -> 0..MaxQueue] /\ sent' \subseteq Tasks
        BY <1>2, <2>4 DEF Enqueue, EnqueueFails, Push
    <2> QED BY <1>2, <2>3, <2>5 DEF Enqueue, EnqueueFails, RelayFault
<1>3. ASSUME NEW p \in Publishers, NEW c \in publisher[p], Confirm(p, c) \/ Release(p, c)
      PROVE  OutboxTypeOK'
    <2>1. c.task \in Tasks
        BY DEF Claim
    <2>2. outbox' \in [Tasks -> Row]
        <3>1. outbox[c.task] \in Row
            BY <2>1
        <3>2. /\ Published(outbox[c.task]) \in Row
              /\ [outbox[c.task] EXCEPT !.status = "PENDING", !.owner = NoOwner,
                                        !.due = FALSE] \in Row
            BY <3>1 DEF Published
        <3> QED BY <1>3, <3>2 DEF Confirm, Release
    <2>3. publisher' \in [Publishers -> SUBSET Claim]
        BY <1>3 DEF Confirm, Release, Forget
    <2> QED BY <1>3, <2>2, <2>3 DEF Confirm, Release
<1>4. ASSUME NEW p \in Publishers, PublisherStops(p) PROVE OutboxTypeOK'
    BY <1>4 DEF PublisherStops, RelayFault
<1>5. ASSUME NEW t \in Tasks, MarkExhausted(t) \/ RowDue(t) PROVE OutboxTypeOK'
    <2>1. [outbox[t] EXCEPT !.status = "DEAD", !.owner = NoOwner, !.due = FALSE] \in Row
        OBVIOUS
    <2>2. [outbox[t] EXCEPT !.due = TRUE] \in Row
        OBVIOUS
    <2>3. CASE MarkExhausted(t)
        BY <2>1, <2>3 DEF MarkExhausted
    <2>4. CASE RowDue(t)
        BY <2>2, <2>4 DEF RowDue
    <2> QED BY <1>5, <2>3, <2>4
<1>6. ASSUME NEW t \in Tasks, CreateRow(t) PROVE OutboxTypeOK'
    BY <1>6 DEF CreateRow, Opened
<1>7. ASSUME NEW t \in Tasks, NEW reset \in BOOLEAN, PrepareReplay(t, reset)
      PROVE  OutboxTypeOK'
    BY <1>7 DEF PrepareReplay, Opened
<1>8. ASSUME NEW t \in Tasks, PopMessage(t) PROVE OutboxTypeOK'
    BY <1>8 DEF PopMessage
<1>9. CASE UNCHANGED outboxVars
    BY <1>9 DEF outboxVars
<1> QED
    BY <1>1, <1>2, <1>3, <1>4, <1>5, <1>6, <1>7, <1>8, <1>9
    DEF OutboxNext, RelayNext, CallerNext, PublisherStep

-----------------------------------------------------------------------------
\* A step that leaves a publisher's work alone, or takes one claim out of it, and
\* gives nobody a lease he did not have, disturbs neither invariant on claims.
LEMMA ClaimsStay ==
    ASSUME OutboxInv, OutboxTypeOK',
           \A p \in Publishers : publisher'[p] \subseteq publisher[p],
           \A p \in Publishers : \A c \in publisher'[p] :
              c.step = "confirm" /\ HoldsLease(p, c)'
                 => HoldsLease(p, c) /\ (c.task \in sent => c.task \in sent')
    PROVE  ConfirmedRowSent' /\ OneClaim'
<1>1. ASSUME NEW p \in Publishers, NEW c \in publisher'[p],
             c.step = "confirm", HoldsLease(p, c)'
      PROVE  c.task \in sent'
    <2>1. c \in publisher[p] /\ HoldsLease(p, c)
        BY <1>1
    <2> QED BY <2>1, <1>1 DEF OutboxInv, ConfirmedRowSent
<1>2. ConfirmedRowSent'
    BY <1>1 DEF ConfirmedRowSent
<1>3. OneClaim'
    BY DEF OneClaim, OutboxInv
<1> QED BY <1>2, <1>3

\* The claim c of p has moved on to another step; everybody else's work is as it was.
LEMMA ClaimMoves ==
    ASSUME OutboxInv, OutboxTypeOK', UNCHANGED outbox,
           NEW p \in Publishers, NEW c \in publisher[p],
           NEW step \in {"confirm", "release"}, SetStep(p, c, step),
           sent \subseteq sent', step = "confirm" => c.task \in sent'
    PROVE  ConfirmedRowSent' /\ OneClaim'
<1> DEFINE moved == [c EXCEPT !.step = step]
<1>1. c \in Claim /\ moved \in Claim /\ moved.task = c.task /\ moved.step = step
    BY DEF OutboxInv, OutboxTypeOK, Claim
<1>2. publisher' = [publisher EXCEPT ![p] = (publisher[p] \ {c}) \cup {moved}]
    BY DEF SetStep
<1>3. \A q \in Publishers : \A d \in publisher'[q] :
         d \in publisher[q] \/ (q = p /\ d = moved)
    BY <1>2 DEF OutboxInv, OutboxTypeOK
<1>4. \A d \in publisher'[p] : d # moved => d \in publisher[p] /\ d # c
    BY <1>2 DEF OutboxInv, OutboxTypeOK
<1>5. ConfirmedRowSent'
    <2> SUFFICES ASSUME NEW q \in Publishers, NEW d \in publisher'[q],
                        d.step = "confirm", HoldsLease(q, d)'
                 PROVE  d.task \in sent'
        BY DEF ConfirmedRowSent
    <2>1. CASE d = moved /\ q = p
        BY <1>1, <2>1
    <2>2. CASE d \in publisher[q]
        <3>1. HoldsLease(q, d)
            BY DEF HoldsLease
        <3> QED BY <2>2, <3>1 DEF OutboxInv, ConfirmedRowSent
    <2> QED BY <1>3, <2>1, <2>2
<1>6. OneClaim'
    <2> SUFFICES ASSUME NEW q \in Publishers, NEW d \in publisher'[q], NEW e \in publisher'[q],
                        d.task = e.task
                 PROVE  d = e
        BY DEF OneClaim
    <2>1. CASE q = p
        <3>1. \A b \in publisher[p] : b # c => b.task # c.task
            BY DEF OutboxInv, OneClaim
        <3> QED BY <1>1, <1>3, <1>4, <2>1, <3>1 DEF OutboxInv, OneClaim
    <2>2. CASE q # p
        BY <1>3, <2>2 DEF OutboxInv, OneClaim
    <2> QED BY <2>1, <2>2
<1> QED BY <1>5, <1>6

LEMMA OutboxInvStep == OutboxInv /\ [OutboxNext]_outboxVars => OutboxInv'
<1> SUFFICES ASSUME OutboxInv, [OutboxNext]_outboxVars PROVE OutboxInv'
    OBVIOUS
<1>0. OutboxTypeOK /\ OutboxTypeOK'
    BY OutboxTypeStep DEF OutboxInv
<1>1. ASSUME NEW p \in Publishers, NEW R \in SUBSET Tasks, ClaimDue(p, R)
      PROVE  OutboxInv'
    <2>1. \A t \in Tasks \ R : outbox'[t] = outbox[t]
        BY <1>1 DEF ClaimDue
    <2>2. \A t \in R : outbox'[t].status = "PUBLISHING" /\ outbox'[t].owner = p
        BY <1>1 DEF ClaimDue
    <2>3. \A q \in Publishers : q # p => publisher'[q] = publisher[q]
        BY <1>0, <1>1 DEF ClaimDue, OutboxTypeOK
    <2>4. publisher'[p] = {[task |-> t, attempt |-> outbox[t].attempts + 1,
                            step |-> "enqueue"] : t \in R}
        BY <1>0, <1>1 DEF ClaimDue, OutboxTypeOK
    <2>5. ConfirmedRowSent'
        <3> SUFFICES ASSUME NEW q \in Publishers, NEW c \in publisher'[q],
                            c.step = "confirm", HoldsLease(q, c)'
                     PROVE  c.task \in sent'
            BY DEF ConfirmedRowSent
        <3>1. q # p
            BY <2>4
        <3>2. c \in publisher[q] /\ c.task \in Tasks
            BY <1>0, <2>3, <3>1 DEF OutboxTypeOK, Claim
        <3>3. c.task \notin R
            BY <2>2, <3>1 DEF HoldsLease
        <3>4. HoldsLease(q, c)
            BY <2>1, <3>2, <3>3 DEF HoldsLease
        <3> QED BY <1>1, <3>2, <3>4 DEF ClaimDue, OutboxInv, ConfirmedRowSent
    <2>6. OneClaim'
        <3> SUFFICES ASSUME NEW q \in Publishers,
                            NEW c \in publisher'[q], NEW d \in publisher'[q], c.task = d.task
                     PROVE  c = d
            BY DEF OneClaim
        <3>1. CASE q = p
            BY <2>4, <3>1
        <3>2. CASE q # p
            BY <2>3, <3>2 DEF OutboxInv, OneClaim
        <3> QED BY <3>1, <3>2
    <2>7. PublishedMeansSent'
        BY <1>1, <2>1, <2>2 DEF ClaimDue, OutboxInv, PublishedMeansSent
    <2> QED BY <1>0, <2>5, <2>6, <2>7 DEF OutboxInv
<1>2. ASSUME NEW p \in Publishers, NEW c \in publisher[p],
             Enqueue(p, c) \/ EnqueueFails(p, c)
      PROVE  OutboxInv'
    <2>1. UNCHANGED outbox /\ sent \subseteq sent'
        BY <1>2 DEF Enqueue, EnqueueFails, Push
    <2>2. \E step \in {"confirm", "release"} :
             SetStep(p, c, step) /\ (step = "confirm" => c.task \in sent')
        BY <1>2 DEF Enqueue, EnqueueFails, Push
    <2>3. ConfirmedRowSent' /\ OneClaim'
        BY <1>0, <2>1, <2>2, ClaimMoves
    <2>4. PublishedMeansSent'
        BY <2>1 DEF OutboxInv, PublishedMeansSent
    <2> QED BY <1>0, <2>3, <2>4 DEF OutboxInv
<1>3. ASSUME NEW p \in Publishers, NEW c \in publisher[p], Confirm(p, c)
      PROVE  OutboxInv'
    <2>1. \A t \in Tasks : outbox'[t] = outbox[t] \/ outbox'[t].status = "PUBLISHED"
        BY <1>0, <1>3 DEF Confirm, Published, OutboxTypeOK, Row
    <2>2. \A q \in Publishers : publisher'[q] \subseteq publisher[q]
        BY <1>0, <1>3 DEF Confirm, Forget, OutboxTypeOK
    <2>3. \A q \in Publishers : \A d \in publisher'[q] : HoldsLease(q, d)' => HoldsLease(q, d)
        BY <1>0, <2>1, <2>2 DEF HoldsLease, OutboxTypeOK, Claim
    <2>4. sent' = sent
        BY <1>3 DEF Confirm
    <2>5. ConfirmedRowSent' /\ OneClaim'
        BY <1>0, <2>2, <2>3, <2>4, ClaimsStay
    <2>6. PublishedMeansSent'
        <3> SUFFICES ASSUME NEW t \in Tasks, outbox'[t].status = "PUBLISHED"
                     PROVE  t \in sent
            BY <2>4 DEF PublishedMeansSent
        <3>1. CASE outbox'[t] = outbox[t]
            BY <3>1 DEF OutboxInv, PublishedMeansSent
        <3>2. CASE outbox'[t] # outbox[t]
            <4>1. t = c.task /\ HoldsLease(p, c)
                BY <1>0, <1>3, <3>2 DEF Confirm, OutboxTypeOK
            <4>2. c.step = "confirm"
                BY <1>3 DEF Confirm
            <4> QED BY <4>1, <4>2 DEF OutboxInv, ConfirmedRowSent
        <3> QED BY <3>1, <3>2
    <2> QED BY <1>0, <2>5, <2>6 DEF OutboxInv
<1>4. ASSUME NEW p \in Publishers, NEW c \in publisher[p], Release(p, c)
      PROVE  OutboxInv'
    <2>1. \A t \in Tasks : outbox'[t] = outbox[t] \/ outbox'[t].status = "PENDING"
        BY <1>0, <1>4 DEF Release, OutboxTypeOK, Row
    <2>2. \A q \in Publishers : publisher'[q] \subseteq publisher[q]
        BY <1>0, <1>4 DEF Release, Forget, OutboxTypeOK
    <2>3. \A q \in Publishers : \A d \in publisher'[q] : HoldsLease(q, d)' => HoldsLease(q, d)
        BY <1>0, <2>1, <2>2 DEF HoldsLease, OutboxTypeOK, Claim
    <2>4. sent' = sent
        BY <1>4 DEF Release
    <2>5. ConfirmedRowSent' /\ OneClaim'
        BY <1>0, <2>2, <2>3, <2>4, ClaimsStay
    <2> QED BY <1>0, <2>1, <2>4, <2>5 DEF OutboxInv, PublishedMeansSent
<1>5. ASSUME NEW p \in Publishers, PublisherStops(p) PROVE OutboxInv'
    <2>1. UNCHANGED <<outbox, sent>>
        BY <1>5 DEF PublisherStops
    <2>2. \A q \in Publishers : publisher'[q] \subseteq publisher[q]
        BY <1>0, <1>5 DEF PublisherStops, OutboxTypeOK
    <2>3. ConfirmedRowSent' /\ OneClaim'
        BY <1>0, <2>1, <2>2, ClaimsStay DEF HoldsLease
    <2> QED BY <1>0, <2>1, <2>3 DEF OutboxInv, PublishedMeansSent
<1>6. ASSUME NEW t \in Tasks,
             \/ MarkExhausted(t) \/ RowDue(t) \/ CreateRow(t) \/ PopMessage(t)
             \/ \E reset \in BOOLEAN : PrepareReplay(t, reset)
      PROVE  OutboxInv'
    <2>1. publisher' = publisher
        BY <1>6 DEF MarkExhausted, RowDue, CreateRow, PopMessage, PrepareReplay
    <2>2. \A u \in Tasks : u # t => outbox'[u] = outbox[u]
        BY <1>0, <1>6 DEF MarkExhausted, RowDue, CreateRow, PopMessage, PrepareReplay, OutboxTypeOK
    <2>3. \/ outbox'[t].status \in {"DEAD", "PENDING"}
          \/ /\ outbox'[t].status = outbox[t].status
             /\ outbox'[t].attempts = outbox[t].attempts
             /\ outbox'[t].owner = outbox[t].owner
             /\ sent' = sent
        <3>1. outbox[t] \in Row
            BY <1>0 DEF OutboxTypeOK
        <3>2. CASE MarkExhausted(t)
            BY <1>0, <3>1, <3>2 DEF MarkExhausted, OutboxTypeOK, Row
        <3>3. CASE RowDue(t)
            BY <1>0, <3>1, <3>3 DEF RowDue, OutboxTypeOK, Row
        <3>4. CASE CreateRow(t) \/ \E reset \in BOOLEAN : PrepareReplay(t, reset)
            BY <1>0, <3>4 DEF CreateRow, PrepareReplay, Opened, OutboxTypeOK
        <3>5. CASE PopMessage(t)
            BY <3>5 DEF PopMessage
        <3> QED BY <1>6, <3>2, <3>3, <3>4, <3>5
    <2>4. \A u \in Tasks : u # t /\ u \in sent => u \in sent'
        BY <1>6 DEF MarkExhausted, RowDue, CreateRow, PopMessage, PrepareReplay
    <2>5. \A q \in Publishers : \A d \in publisher'[q] :
             HoldsLease(q, d)' => HoldsLease(q, d) /\ (d.task \in sent => d.task \in sent')
        <3> SUFFICES ASSUME NEW q \in Publishers, NEW d \in publisher'[q], HoldsLease(q, d)'
                     PROVE  HoldsLease(q, d) /\ (d.task \in sent => d.task \in sent')
            OBVIOUS
        <3>1. d.task \in Tasks
            BY <1>0, <2>1 DEF OutboxTypeOK, Claim
        <3>2. CASE d.task # t
            BY <2>2, <2>4, <3>1, <3>2 DEF HoldsLease
        <3>3. CASE d.task = t
            BY <2>3, <3>3 DEF HoldsLease
        <3> QED BY <3>2, <3>3
    <2>6. ConfirmedRowSent' /\ OneClaim'
        BY <1>0, <2>1, <2>5, ClaimsStay
    <2>7. PublishedMeansSent'
        BY <2>2, <2>3, <2>4 DEF OutboxInv, PublishedMeansSent
    <2> QED BY <1>0, <2>6, <2>7 DEF OutboxInv
<1>7. CASE UNCHANGED outboxVars
    BY <1>0, <1>7 DEF outboxVars, OutboxInv, ConfirmedRowSent, OneClaim, PublishedMeansSent,
       HoldsLease
<1> QED
    BY <1>1, <1>2, <1>3, <1>4, <1>5, <1>6, <1>7
    DEF OutboxNext, RelayNext, CallerNext, PublisherStep

-----------------------------------------------------------------------------
\* The lease of c is safe in a step that leaves status, attempts and owner of its row.
LEMMA LeaseStays ==
    ASSUME NEW p \in Publishers, NEW c \in publisher[p], HoldsLease(p, c),
           outbox[c.task] \in Row,
           \/ outbox'[c.task] = outbox[c.task]
           \/ outbox'[c.task] = [outbox[c.task] EXCEPT !.due = TRUE]
    PROVE  HoldsLease(p, c)'
BY DEF HoldsLease, Row

LEMMA LeaseStep ==
    ASSUME OutboxInv, OutboxNext, NEW p \in Publishers, NEW c \in publisher[p],
           HoldsLease(p, c), ~outbox[c.task].due, c \in publisher'[p]
    PROVE  HoldsLease(p, c)'
<1>0. OutboxTypeOK /\ c.task \in Tasks /\ outbox[c.task] \in Row /\ outbox[c.task].status = "PUBLISHING"
    BY DEF OutboxInv, OutboxTypeOK, Claim, HoldsLease
<1>1. ASSUME NEW q \in Publishers, NEW R \in SUBSET Tasks, ClaimDue(q, R)
      PROVE  HoldsLease(p, c)'
    <2>1. c.task \notin R
        BY <1>1 DEF ClaimDue, Claimable
    <2> QED BY <1>0, <1>1, <2>1, LeaseStays DEF ClaimDue
<1>2. ASSUME NEW q \in Publishers, NEW d \in publisher[q],
             Enqueue(q, d) \/ EnqueueFails(q, d)
      PROVE  HoldsLease(p, c)'
    BY <1>0, <1>2, LeaseStays DEF Enqueue, EnqueueFails
<1>3. ASSUME NEW q \in Publishers, NEW d \in publisher[q], Confirm(q, d) \/ Release(q, d)
      PROVE  HoldsLease(p, c)'
    <2>1. CASE d.task = c.task /\ HoldsLease(q, d)
        <3>1. q = p
            BY <2>1 DEF HoldsLease
        <3>2. d = c
            BY <2>1, <3>1 DEF OutboxInv, OneClaim
        <3>3. c \notin publisher'[p]
            BY <1>0, <1>3, <3>1, <3>2 DEF Confirm, Release, Forget, OutboxTypeOK
        <3> QED BY <3>3
    <2>2. CASE ~(d.task = c.task /\ HoldsLease(q, d))
        <3>1. outbox'[c.task] = outbox[c.task]
            BY <1>0, <1>3, <2>2 DEF Confirm, Release, OutboxTypeOK
        <3> QED BY <1>0, <3>1, LeaseStays
    <2> QED BY <2>1, <2>2
<1>4. ASSUME NEW q \in Publishers, PublisherStops(q) PROVE HoldsLease(p, c)'
    BY <1>0, <1>4, LeaseStays DEF PublisherStops
<1>5. ASSUME NEW t \in Tasks, MarkExhausted(t) PROVE HoldsLease(p, c)'
    BY <1>0, <1>5, LeaseStays DEF MarkExhausted, OutboxTypeOK
<1>6. ASSUME NEW t \in Tasks, RowDue(t) PROVE HoldsLease(p, c)'
    <2>1. CASE t = c.task
        <3>1. outbox'[c.task] = [outbox[c.task] EXCEPT !.due = TRUE]
            BY <1>0, <1>6, <2>1 DEF RowDue, OutboxTypeOK
        <3> QED BY <1>0, <3>1, LeaseStays
    <2>2. CASE t # c.task
        BY <1>0, <1>6, <2>2, LeaseStays DEF RowDue, OutboxTypeOK
    <2> QED BY <2>1, <2>2
<1>7. ASSUME NEW t \in Tasks,
             CreateRow(t) \/ PopMessage(t) \/ \E reset \in BOOLEAN : PrepareReplay(t, reset)
      PROVE  HoldsLease(p, c)'
    <2>1. outbox'[c.task] = outbox[c.task]
        BY <1>0, <1>7 DEF CreateRow, PopMessage, PrepareReplay, OutboxTypeOK
    <2> QED BY <1>0, <2>1, LeaseStays
<1> QED
    BY <1>1, <1>2, <1>3, <1>4, <1>5, <1>6, <1>7
    DEF OutboxNext, RelayNext, CallerNext, PublisherStep

-----------------------------------------------------------------------------
\* The inductive invariant holds in every reachable state.
THEOREM OutboxInvariant == OutboxSafety => []OutboxInv
BY OutboxInitInv, OutboxInvStep, PTL DEF OutboxSafety

\* Every variable keeps its type: no row is claimed more often than MaxPublish, and an
\* owner is a publisher run.
THEOREM OutboxTypeCorrect == OutboxSafety => []OutboxTypeOK
<1>1. OutboxInv => OutboxTypeOK
    BY DEF OutboxInv
<1> QED BY <1>1, OutboxInvariant, PTL

\* An event is PUBLISHED only if a message was sent for it since it was last opened.
THEOREM PublishedOnlyIfSent == OutboxSafety => []PublishedMeansSent
<1>1. OutboxInv => PublishedMeansSent
    BY DEF OutboxInv
<1> QED BY <1>1, OutboxInvariant, PTL

\* A lease that has not run out is kept by whoever still works under it.
THEOREM LeaseIsRespected == OutboxSafety => LeaseRespected
<1> DEFINE A == \A p \in Publishers : \A c \in publisher[p] :
                   HoldsLease(p, c) /\ ~outbox[c.task].due /\ c \in publisher'[p]
                      => HoldsLease(p, c)'
<1>1. OutboxInv /\ [OutboxNext]_outboxVars => [A]_outboxVars
    BY LeaseStep
<1> QED BY <1>1, OutboxInvariant, PTL DEF OutboxSafety, LeaseRespected

(***************************************************************************)
(* KnowledgeIngestion.                                                     *)
(***************************************************************************)
\* What the components outside TaskOutbox hold.
CoreTypeOK ==
    /\ file \in [Files -> FileRow]
    /\ object \in [Files -> {"absent", "stored", "deleted"}]
    /\ indexed \subseteq Files
    /\ task \in [Tasks -> TaskRow]
    /\ worker \in [Workers -> Busy \cup {Idle}]
    /\ reconciler \in [Reconcilers -> ReconcilerState]
    /\ workerFaults \in [count : 0..MaxWorkerFaults, kinds : SUBSET FaultKinds]
    /\ replays \in 0..MaxReplays

-----------------------------------------------------------------------------
(* The updates the actions are built from keep the types.                   *)

LEMMA TaskUpdates ==
    ASSUME CoreTypeOK, NEW t,
           \/ \E status \in TaskStatus : SetTask(t, status)
           \/ Renew(t)
           \/ \E f \in Files, status \in TaskStatus : CreateTask(t, f, status)
           \/ UNCHANGED task
    PROVE  task' \in [Tasks -> TaskRow]
<1> USE DEF CoreTypeOK
<1>0. \A u \in Tasks : task[u] \in TaskRow
    OBVIOUS
<1>1. ASSUME NEW status \in TaskStatus, SetTask(t, status)
      PROVE  task' \in [Tasks -> TaskRow]
    <2>1. t \in Tasks => [task[t] EXCEPT !.status = status, !.due = FALSE] \in TaskRow
        BY <1>0 DEF TaskRow
    <2> QED BY <1>1, <2>1 DEF SetTask
<1>2. CASE Renew(t)
    <2>1. t \in Tasks => [task[t] EXCEPT !.due = FALSE] \in TaskRow
        BY <1>0 DEF TaskRow
    <2> QED BY <1>2, <2>1 DEF Renew
<1>3. ASSUME NEW f \in Files, NEW status \in TaskStatus, CreateTask(t, f, status)
      PROVE  task' \in [Tasks -> TaskRow]
    BY <1>3 DEF CreateTask, TaskRow
<1> QED BY <1>1, <1>2, <1>3

\* What the updates of a task leave as it was.
LEMMA TaskUpdateEffects ==
    ASSUME CoreTypeOK, NEW t
    PROVE  /\ \A status : SetTask(t, status) =>
                 \A u \in Tasks : /\ task'[u].attempt = task[u].attempt
                                  /\ task'[u].file = task[u].file
                                  /\ IF u = t THEN task'[u].status = status
                                              ELSE task'[u] = task[u]
           /\ Renew(t) =>
                 \A u \in Tasks : /\ task'[u].attempt = task[u].attempt
                                  /\ task'[u].file = task[u].file
                                  /\ task'[u].status = task[u].status
<1>0. \A u \in Tasks : task[u] \in TaskRow
    BY DEF CoreTypeOK
<1>1. ASSUME NEW status, SetTask(t, status), NEW u \in Tasks
      PROVE  /\ task'[u].attempt = task[u].attempt
             /\ task'[u].file = task[u].file
             /\ IF u = t THEN task'[u].status = status ELSE task'[u] = task[u]
    <2>1. task'[u] = IF u = t THEN [task[t] EXCEPT !.status = status, !.due = FALSE] ELSE task[u]
        BY <1>1 DEF SetTask, CoreTypeOK
    <2> QED BY <1>0, <2>1 DEF TaskRow
<1>2. ASSUME Renew(t), NEW u \in Tasks
      PROVE  /\ task'[u].attempt = task[u].attempt
             /\ task'[u].file = task[u].file
             /\ task'[u].status = task[u].status
    <2>1. task'[u] = IF u = t THEN [task[t] EXCEPT !.due = FALSE] ELSE task[u]
        BY <1>2 DEF Renew, CoreTypeOK
    <2> QED BY <1>0, <2>1 DEF TaskRow
<1> QED BY <1>1, <1>2

LEMMA FileUpdates ==
    ASSUME CoreTypeOK, NEW f,
           (\E status \in FileStatus : SetFile(f, status)) \/ UNCHANGED file
    PROVE  file' \in [Files -> FileRow]
<1>1. \A status \in FileStatus : [status |-> status, due |-> FALSE] \in FileRow
    BY DEF FileRow
<1> QED BY <1>1 DEF CoreTypeOK, SetFile

LEMMA WorkerUpdates ==
    ASSUME CoreTypeOK, NEW w \in Workers, ~At(w, "idle"),
           \/ \E pc \in {"load", "parse", "index", "cleanup", "complete", "failing"} : Goto(w, pc)
           \/ Finish(w)
    PROVE  worker' \in [Workers -> Busy \cup {Idle}]
<1>1. worker[w] \in Busy
    BY DEF CoreTypeOK, At, Idle
<1>2. \A pc \in {"load", "parse", "index", "cleanup", "complete", "failing"} :
         [worker[w] EXCEPT !.pc = pc] \in Busy
    BY <1>1 DEF Busy
<1> QED BY <1>2 DEF CoreTypeOK, Goto, Finish

LEMMA FaultUpdates ==
    ASSUME CoreTypeOK, NoFault \/ \E kind \in FaultKinds : WorkerFault(kind)
    PROVE  workerFaults' \in [count : 0..MaxWorkerFaults, kinds : SUBSET FaultKinds]
BY IngestionAssumption DEF CoreTypeOK, NoFault, WorkerFault

\* A worker at work has a task.
LEMMA BusyHasTask ==
    ASSUME CoreTypeOK, NEW w \in Workers, ~At(w, "idle")
    PROVE  worker[w].task \in Tasks /\ FileOf(w) \in Files \cup {NoFile}
BY DEF CoreTypeOK, At, Idle, Busy, FileOf, TaskRow

LEMMA ReconcilerUpdates ==
    ASSUME CoreTypeOK, NEW r \in Reconcilers, DoneWith(r)
    PROVE  reconciler' \in [Reconcilers -> ReconcilerState]
<1>1. [reconciler[r] EXCEPT !.item = NoItem] \in ReconcilerState
    BY DEF CoreTypeOK, ReconcilerState
<1> QED BY <1>1 DEF CoreTypeOK, DoneWith

\* What an item in hand is about.
LEMMA ItemInHand ==
    ASSUME CoreTypeOK, NEW r \in Reconcilers, NEW kinds, NEW statuses,
           InHand(r, kinds, statuses)
    PROVE  /\ reconciler[r].item \in Item
           /\ "orphan" \notin kinds =>
                 reconciler[r].item.task \in Tasks /\ reconciler[r].item.file \in Files \cup {NoFile}
           /\ kinds = {"orphan"} => reconciler[r].item.file \in Files
<1>1. reconciler[r].item \in Item
    BY DEF CoreTypeOK, ReconcilerState, InHand
<1> QED BY <1>1 DEF Item, InHand

-----------------------------------------------------------------------------
LEMMA CoreInitType == Init => CoreTypeOK
BY IngestionAssumption DEF Init, CoreTypeOK, FileRow, FileStatus, TaskRow, TaskStatus, Resting,
   ReconcilerState, FaultKinds

LEMMA WebType == CoreTypeOK /\ WebStep => CoreTypeOK'
<1> SUFFICES ASSUME CoreTypeOK, WebStep PROVE CoreTypeOK'
    OBVIOUS
<1> USE DEF CoreTypeOK
<1>1. ASSUME NEW f \in Files, Upload(f) PROVE CoreTypeOK'
    <2>1. task' \in [Tasks -> TaskRow]
        BY <1>1, TaskUpdates DEF Upload, TaskStatus
    <2>2. file' \in [Files -> FileRow]
        BY <1>1, FileUpdates DEF Upload, FileStatus
    <2> QED BY <1>1, <2>1, <2>2 DEF Upload
<1>2. ASSUME NEW f \in Files, UploadDuplicate(f) PROVE CoreTypeOK'
    <2>1. task' \in [Tasks -> TaskRow]
        BY <1>2, TaskUpdates DEF UploadDuplicate, TaskStatus
    <2> QED BY <1>2, <2>1 DEF UploadDuplicate
<1>3. ASSUME NEW f \in Files, DeleteObject(f) PROVE CoreTypeOK'
    BY <1>3 DEF DeleteObject
<1>4. ASSUME NEW f \in Files, DeleteRecords(f) PROVE CoreTypeOK'
    <2>1. file' \in [Files -> FileRow]
        BY <1>4, FileUpdates DEF DeleteRecords, FileStatus
    <2>2. \A t \in Tasks : [task[t] EXCEPT !.file = NoFile] \in TaskRow
        BY DEF TaskRow
    <2>3. task' \in [Tasks -> TaskRow]
        BY <1>4, <2>2 DEF DeleteRecords
    <2> QED BY <1>4, <2>1, <2>3 DEF DeleteRecords, DeleteChunks
<1>5. ASSUME NEW t \in Tasks, ReplayDead(t) PROVE CoreTypeOK'
    <2>1. task' \in [Tasks -> TaskRow]
        BY <1>5, TaskUpdates DEF ReplayDead, TaskStatus
    <2>2. file' \in [Files -> FileRow]
        BY <1>5, FileUpdates DEF ReplayDead, FileStatus
    <2>3. replays' \in 0..MaxReplays
        BY <1>5, IngestionAssumption DEF ReplayDead
    <2> QED BY <1>5, <2>1, <2>2, <2>3 DEF ReplayDead, DeleteChunks
<1> QED BY <1>1, <1>2, <1>3, <1>4, <1>5 DEF WebStep

LEMMA WorkerType ==
    ASSUME CoreTypeOK, NEW w \in Workers, WorkerStep(w) \/ Heartbeat(w) \/ WorkerCrash(w)
    PROVE  CoreTypeOK'
<1> USE DEF CoreTypeOK
<1>0. ~At(w, "idle")
    BY DEF WorkerStep, StartHeartbeat, LoadFile, Parse, IndexChunks, CleanUp, Complete, MarkFailed,
       Heartbeat, WorkerCrash, At
<1>1. workerFaults' \in [count : 0..MaxWorkerFaults, kinds : SUBSET FaultKinds]
    <2>1. NoFault \/ \E kind \in FaultKinds : WorkerFault(kind)
        BY
        DEF WorkerStep, StartHeartbeat, LoadFile, Parse, IndexChunks, CleanUp, Complete, MarkFailed,
        Heartbeat, WorkerCrash, NoFault, FaultKinds
    <2> QED BY <2>1, FaultUpdates
<1>2. UNCHANGED <<object, reconciler, replays>>
    BY DEF WorkerStep, StartHeartbeat, LoadFile, Parse, IndexChunks, CleanUp, Complete, MarkFailed,
       Heartbeat, WorkerCrash
<1>3. worker' \in [Workers -> Busy \cup {Idle}]
    BY <1>0, WorkerUpdates
    DEF WorkerStep, StartHeartbeat, LoadFile, Parse, IndexChunks, CleanUp, Complete, MarkFailed,
        Heartbeat, WorkerCrash
<1>4. task' \in [Tasks -> TaskRow]
    BY TaskUpdates
    DEF WorkerStep, StartHeartbeat, LoadFile, Parse, IndexChunks, CleanUp, Complete, MarkFailed,
        Heartbeat, WorkerCrash, TaskStatus
<1>5. file' \in [Files -> FileRow]
    BY FileUpdates
    DEF WorkerStep, StartHeartbeat, LoadFile, Parse, IndexChunks, CleanUp, Complete, MarkFailed,
        Heartbeat, WorkerCrash, FileStatus
<1>6. indexed' \subseteq Files
    BY DEF WorkerStep, StartHeartbeat, LoadFile, Parse, IndexChunks, CleanUp, Complete, MarkFailed,
       Heartbeat, WorkerCrash, DeleteChunks, FileIs
<1> QED BY <1>1, <1>2, <1>3, <1>4, <1>5, <1>6

LEMMA ReconcilerType ==
    ASSUME CoreTypeOK, NEW r \in Reconcilers, ReconcilerStep(r) \/ ReconcilerCrash(r)
    PROVE  CoreTypeOK'
<1> USE DEF CoreTypeOK
<1>1. CASE Scan(r)
    <2>1. StaleItems \subseteq Item
        BY DEF StaleItems, Item, TaskRow, FileStatus
    <2>2. GapItems \subseteq Item
        BY DEF GapItems, Item, TaskRow, FileStatus
    <2>3. OrphanItems \subseteq Item
        BY DEF OrphanItems, Item
    <2>4. [reconciler[r] EXCEPT !.todo = StaleItems \cup GapItems \cup OrphanItems]
             \in ReconcilerState
        BY <2>1, <2>2, <2>3 DEF ReconcilerState
    <2> QED BY <1>1, <2>4 DEF Scan
<1>2. CASE Pick(r)
    <2> PICK i \in reconciler[r].todo :
           LET seen == IF i.kind = "orphan" THEN i.seen
                       ELSE IF i.file = NoFile THEN "REMOVED" ELSE file[i.file].status
           IN reconciler' = [reconciler EXCEPT
                 ![r] = [todo |-> @.todo \ {i}, item |-> [i EXCEPT !.seen = seen]]]
        BY <1>2 DEF Pick
    <2> DEFINE seen == IF i.kind = "orphan" THEN i.seen
                       ELSE IF i.file = NoFile THEN "REMOVED" ELSE file[i.file].status
    <2>1. i \in Item
        BY DEF ReconcilerState
    <2>2. i.kind # "orphan" => seen \in FileStatus
        BY <2>1 DEF Item, FileRow, FileStatus
    <2>3. [i EXCEPT !.seen = seen] \in Item
        BY <2>1, <2>2 DEF Item
    <2>4. [todo |-> reconciler[r].todo \ {i}, item |-> [i EXCEPT !.seen = seen]]
             \in ReconcilerState
        BY <2>3 DEF ReconcilerState
    <2>5. reconciler' \in [Reconcilers -> ReconcilerState]
        BY <2>4
    <2> QED BY <1>2, <2>5 DEF Pick
<1>3. CASE ReconcilerCrash(r)
    <2>1. Resting \in ReconcilerState
        BY DEF Resting, ReconcilerState
    <2> QED BY <1>3, <2>1, FaultUpdates DEF ReconcilerCrash, FaultKinds
<1>4. CASE \/ FailTaskOnly(r) \/ ReconcileCompleted(r) \/ ResetExpired(r) \/ FailExpiredPair(r)
           \/ ReplayGap(r) \/ FailGap(r) \/ FailUnowned(r) \/ AdoptOrphan(r)
    <2>1. DoneWith(r)
        BY <1>4 DEF FailTaskOnly, ReconcileCompleted, ResetExpired, FailExpiredPair, ReplayGap,
           FailGap, FailUnowned, AdoptOrphan, Conflict, FailPair
    <2>2. reconciler' \in [Reconcilers -> ReconcilerState]
        BY <2>1, ReconcilerUpdates
    <2>3. task' \in [Tasks -> TaskRow]
        <3>1. CASE AdoptOrphan(r)
            <4>1. reconciler[r].item.file \in Files
                BY <3>1, ItemInHand DEF AdoptOrphan
            <4> QED BY <3>1, <4>1, TaskUpdates DEF AdoptOrphan, Conflict, TaskStatus
        <3>2. CASE ~AdoptOrphan(r)
            BY <1>4, <3>2, TaskUpdates DEF FailTaskOnly, ReconcileCompleted, ResetExpired,
               FailExpiredPair, ReplayGap, FailGap, FailUnowned, Conflict, FailPair, TaskStatus
        <3> QED BY <3>1, <3>2
    <2>4. file' \in [Files -> FileRow]
        BY <1>4, FileUpdates DEF FailTaskOnly, ReconcileCompleted, ResetExpired,
           FailExpiredPair, ReplayGap, FailGap, FailUnowned, AdoptOrphan, Conflict, FailPair,
           FileStatus
    <2>5. indexed' \subseteq Files
        BY <1>4 DEF FailTaskOnly, ReconcileCompleted, ResetExpired,
           FailExpiredPair, ReplayGap, FailGap, FailUnowned, AdoptOrphan, Conflict, FailPair,
           DeleteChunks
    <2> QED BY <2>1, <2>2, <2>3, <2>4, <2>5 DEF DoneWith
<1> QED BY <1>1, <1>2, <1>3, <1>4 DEF ReconcilerStep

LEMMA MessageAndTimeType ==
    ASSUME CoreTypeOK,
           \/ \E t \in Tasks : TakeMessage(t) \/ LoseMessage(t) \/ TaskDue(t)
           \/ \E f \in Files : FileDue(f)
    PROVE  CoreTypeOK'
<1> USE DEF CoreTypeOK
<1>1. ASSUME NEW w \in Workers, NEW t \in Tasks, Deliver(w, t) PROVE CoreTypeOK'
    <2>1. task[t] \in TaskRow /\ task[t].attempt + 1 \in Nat
        BY DEF TaskRow
    <2>2. [task[t] EXCEPT !.status = "PROCESSING", !.attempt = task[t].attempt + 1,
                          !.due = FALSE] \in TaskRow
        BY <2>1 DEF TaskRow, TaskStatus
    <2>3. [pc |-> "claimed", task |-> t, attempt |-> task[t].attempt + 1] \in Busy
        BY <2>1 DEF Busy
    <2>4. task' \in [Tasks -> TaskRow] /\ worker' \in [Workers -> Busy \cup {Idle}]
        <3> HIDE DEF CoreTypeOK
        <3>1. task \in [Tasks -> TaskRow] /\ worker \in [Workers -> Busy \cup {Idle}]
            BY DEF CoreTypeOK
        <3>2. task' \in [Tasks -> TaskRow]
            <4>1. task' = [task EXCEPT ![t] =
                     [task[t] EXCEPT !.status = "PROCESSING", !.attempt = task[t].attempt + 1,
                                     !.due = FALSE]]
                BY <1>1 DEF Deliver
            <4> QED BY <2>2, <3>1, <4>1
        <3>3. worker' \in [Workers -> Busy \cup {Idle}]
            <4>1. worker' = [worker EXCEPT ![w] =
                     [pc |-> "claimed", task |-> t, attempt |-> task[t].attempt + 1]]
                BY <1>1 DEF Deliver
            <4> QED BY <2>3, <3>1, <4>1
        <3> QED BY <3>2, <3>3
    <2> QED BY <1>1, <2>4 DEF Deliver
<1>2. ASSUME NEW w \in Workers, NEW t \in Tasks, DeliverRejected(w, t) PROVE CoreTypeOK'
    BY <1>2 DEF DeliverRejected, coreVars
<1>3. ASSUME NEW t \in Tasks, LoseMessage(t) PROVE CoreTypeOK'
    BY <1>3, FaultUpdates DEF LoseMessage, FaultKinds
<1>4. ASSUME NEW t \in Tasks, TaskDue(t) PROVE CoreTypeOK'
    <2>1. [task[t] EXCEPT !.due = TRUE] \in TaskRow
        BY DEF TaskRow
    <2> QED BY <1>4, <2>1 DEF TaskDue
<1>5. ASSUME NEW f \in Files, FileDue(f) PROVE CoreTypeOK'
    <2>1. [file[f] EXCEPT !.due = TRUE] \in FileRow
        BY DEF FileRow
    <2> QED BY <1>5, <2>1 DEF FileDue
<1> QED BY <1>1, <1>2, <1>3, <1>4, <1>5 DEF TakeMessage

LEMMA CoreTypeStep == CoreTypeOK /\ [Next]_vars => CoreTypeOK'
<1> SUFFICES ASSUME CoreTypeOK, [Next]_vars PROVE CoreTypeOK'
    OBVIOUS
<1>1. CASE CoreNext
    BY <1>1, WebType, WorkerType, ReconcilerType, MessageAndTimeType DEF CoreNext
<1>2. CASE RelayStep \/ UNCHANGED vars
    BY <1>2 DEF RelayStep, coreVars, vars, CoreTypeOK
<1> QED BY <1>1, <1>2 DEF Next

-----------------------------------------------------------------------------
(* The pipeline and its outbox.                                             *)

\* Whatever the pipeline does to the outbox and the broker is a step of TaskOutbox.
LEMMA NextIsOutboxStep == CoreTypeOK /\ [Next]_vars => [OutboxNext]_outboxVars
<1> SUFFICES ASSUME CoreTypeOK, [Next]_vars PROVE [OutboxNext]_outboxVars
    OBVIOUS
<1>1. CASE WebStep
    <2>1. ASSUME NEW f \in Files, Upload(f) PROVE CallerNext
        BY <2>1 DEF Upload, CallerNext
    <2>2. ASSUME NEW f \in Files,
                 UploadDuplicate(f) \/ DeleteObject(f) \/ DeleteRecords(f)
          PROVE  UNCHANGED outboxVars
        BY <2>2 DEF UploadDuplicate, DeleteObject, DeleteRecords
    <2>3. ASSUME NEW t \in Tasks, ReplayDead(t) PROVE CallerNext
        BY <2>3 DEF ReplayDead, CallerNext
    <2> QED BY <1>1, <2>1, <2>2, <2>3 DEF WebStep, OutboxNext
<1>2. CASE \E w \in Workers : WorkerStep(w) \/ Heartbeat(w) \/ WorkerCrash(w)
    BY <1>2 DEF WorkerStep, StartHeartbeat, LoadFile, Parse, IndexChunks, CleanUp, Complete,
       MarkFailed, Heartbeat, WorkerCrash
<1>3. CASE \E r \in Reconcilers : ReconcilerStep(r) \/ ReconcilerCrash(r)
    <2> PICK r \in Reconcilers : ReconcilerStep(r) \/ ReconcilerCrash(r)
        BY <1>3
    <2>1. CASE \/ Scan(r) \/ Pick(r) \/ FailTaskOnly(r) \/ ReconcileCompleted(r)
               \/ FailExpiredPair(r) \/ FailGap(r) \/ FailUnowned(r) \/ ReconcilerCrash(r)
        BY <2>1 DEF Scan, Pick, FailTaskOnly, ReconcileCompleted, FailExpiredPair, FailGap,
           FailUnowned, ReconcilerCrash, Conflict, FailPair
    <2>2. CASE ResetExpired(r) \/ ReplayGap(r)
        <3>1. reconciler[r].item.task \in Tasks
            <4>1. InHand(r, {"stale"}, {"UPLOADED", "PARSING"})
                     \/ InHand(r, {"gap"}, {"UPLOADED", "PARSING"})
                BY <2>2, Zenon DEF ResetExpired, ReplayGap
            <4>2. "orphan" \notin {"stale"} /\ "orphan" \notin {"gap"}
                OBVIOUS
            <4> QED BY <4>1, <4>2, ItemInHand, Zenon
        <3>2. \/ PrepareReplay(reconciler[r].item.task, TRUE)
              \/ PrepareReplay(reconciler[r].item.task, FALSE)
              \/ UNCHANGED outboxVars
            <4>1. CASE ResetExpired(r)
                BY <4>1, Zenon DEF ResetExpired, PrepareTaskOutbox, Conflict
            <4>2. CASE ReplayGap(r)
                BY <4>2, Zenon DEF ReplayGap
            <4> QED BY <2>2, <4>1, <4>2
        <3> QED BY <3>1, <3>2 DEF CallerNext, OutboxNext
    <2>3. CASE AdoptOrphan(r)
        BY <2>3 DEF AdoptOrphan, Conflict, CallerNext, OutboxNext
    <2> QED BY <2>1, <2>2, <2>3 DEF ReconcilerStep
<1>4. CASE \E t \in Tasks : TakeMessage(t) \/ LoseMessage(t) \/ TaskDue(t)
    BY <1>4 DEF TakeMessage, Deliver, DeliverRejected, LoseMessage, TaskDue, CallerNext, OutboxNext
<1>5. CASE \E f \in Files : FileDue(f)
    BY <1>5 DEF FileDue
<1>6. CASE RelayStep \/ UNCHANGED vars
    BY <1>6 DEF RelayStep, vars, OutboxNext
<1> QED BY <1>1, <1>2, <1>3, <1>4, <1>5, <1>6 DEF Next, CoreNext

LEMMA CoreTypeCorrect == Safety => []CoreTypeOK
BY CoreInitType, CoreTypeStep, PTL DEF Safety

\* The pipeline is a legal environment of the outbox, so what is proved of TaskOutbox
\* with arbitrary callers holds of its rows here.
THEOREM PipelineUsesOutbox == Safety => OutboxSafety
<1>1. Init => OutboxInit
    BY DEF Init
<1> QED BY <1>1, NextIsOutboxStep, CoreTypeCorrect, PTL DEF Safety, OutboxSafety

\* Types: among others, no publish attempt beyond MaxPublish and no task at work without
\* a worker's claim of the right form.
THEOREM TypeCorrect == Safety => []TypeOK
<1>1. CoreTypeOK /\ OutboxTypeOK => TypeOK
    BY DEF CoreTypeOK, TypeOK
<1> QED BY <1>1, CoreTypeCorrect, PipelineUsesOutbox, OutboxTypeCorrect, PTL

\* The two facts about published events carry over to the pipeline.
THEOREM PipelinePublishesWhatItSends == Safety => []PublishedMeansSent /\ LeaseRespected
BY PipelineUsesOutbox, PublishedOnlyIfSent, LeaseIsRespected, PTL

-----------------------------------------------------------------------------
(* READY and chunks.                                                        *)

\* A step that leaves a file its status and its chunks, or gives it a status other than
\* READY and takes its chunks, keeps the equivalence for it.
LEMMA ReadyIffIndexedStep ==
    ASSUME CoreTypeOK, ReadyIffIndexed, [Next]_vars
    PROVE  ReadyIffIndexed'
<1> USE DEF CoreTypeOK, ReadyIffIndexed, FileIs, SetFile, DeleteChunks
<1>1. CASE WebStep
    <2>1. ASSUME NEW f \in Files, Upload(f) \/ UploadDuplicate(f) \/ DeleteObject(f)
          PROVE  ReadyIffIndexed'
        BY <2>1 DEF Upload, UploadDuplicate, DeleteObject
    <2>2. ASSUME NEW f \in Files, DeleteRecords(f) PROVE ReadyIffIndexed'
        BY <2>2 DEF DeleteRecords
    <2>3. ASSUME NEW t \in Tasks, ReplayDead(t) PROVE ReadyIffIndexed'
        BY <2>3 DEF ReplayDead
    <2> QED BY <1>1, <2>1, <2>2, <2>3 DEF WebStep
<1>2. ASSUME NEW w \in Workers, WorkerStep(w) \/ Heartbeat(w) \/ WorkerCrash(w)
      PROVE  ReadyIffIndexed'
    <2>1. CASE LoadFile(w)
        BY <2>1 DEF LoadFile
    <2>2. CASE IndexChunks(w)
        BY <2>2 DEF IndexChunks
    <2>3. CASE CleanUp(w)
        BY <2>3, BusyHasTask, IngestionAssumption DEF CleanUp, At
    <2>4. CASE ~LoadFile(w) /\ ~IndexChunks(w) /\ ~CleanUp(w)
        BY <1>2, <2>4 DEF WorkerStep, StartHeartbeat, Parse, Complete, MarkFailed, Heartbeat,
           WorkerCrash
    <2> QED BY <2>1, <2>2, <2>3, <2>4
<1>3. ASSUME NEW r \in Reconcilers, ReconcilerStep(r) \/ ReconcilerCrash(r)
      PROVE  ReadyIffIndexed'
    <2>1. CASE ResetExpired(r)
        <3>1. \/ DeleteChunks(reconciler[r].item.file) /\ SetFile(reconciler[r].item.file, "UPLOADED")
              \/ UNCHANGED <<file, indexed>>
            BY <2>1, Zenon DEF ResetExpired, Conflict
        <3> QED BY <3>1
    <2>2. CASE FailExpiredPair(r) \/ FailGap(r)
        BY <2>2 DEF FailExpiredPair, FailGap, Conflict, FailPair
    <2>3. CASE FailUnowned(r)
        BY <2>3 DEF FailUnowned, Conflict
    <2>4. CASE ~ResetExpired(r) /\ ~FailExpiredPair(r) /\ ~FailGap(r) /\ ~FailUnowned(r)
        BY <1>3, <2>4 DEF ReconcilerStep, Scan, Pick, FailTaskOnly, ReconcileCompleted, ReplayGap,
           AdoptOrphan, ReconcilerCrash, Conflict
    <2> QED BY <2>1, <2>2, <2>3, <2>4
<1>4. CASE \E t \in Tasks : TakeMessage(t) \/ LoseMessage(t) \/ TaskDue(t)
    BY <1>4 DEF TakeMessage, Deliver, DeliverRejected, LoseMessage, TaskDue, coreVars
<1>5. ASSUME NEW f \in Files, FileDue(f) PROVE ReadyIffIndexed'
    BY <1>5 DEF FileDue, FileRow
<1>6. CASE RelayStep \/ UNCHANGED vars
    BY <1>6 DEF RelayStep, coreVars, vars
<1> QED BY <1>1, <1>2, <1>3, <1>4, <1>5, <1>6 DEF Next, CoreNext

\* Chunks are searchable exactly while their file is READY, whatever crashes, database
\* errors and commits of unknown outcome the workers meet.
THEOREM ChunksIffReady == Safety => []ReadyIffIndexed
<1>1. Init => ReadyIffIndexed
    BY DEF Init, ReadyIffIndexed
<1> QED BY <1>1, ReadyIffIndexedStep, CoreTypeCorrect, PTL DEF Safety

-----------------------------------------------------------------------------
(* Retries.                                                                 *)

LEMMA RetryBudgetStep ==
    ASSUME CoreTypeOK, CoreTypeOK', RetryBudget, [Next]_vars
    PROVE  RetryBudget'
<1> USE DEF RetryBudget
<1>0. \A t \in Tasks : task[t].attempt \in Nat /\ replays \in Nat /\ MaxIngest \in Nat \ {0}
    BY IngestionAssumption DEF CoreTypeOK, TaskRow
<1>1. ASSUME NEW t \in Tasks, ReplayDead(t) PROVE RetryBudget'
    <2>1. replays' = replays + 1
        BY <1>1 DEF ReplayDead
    <2>2. \A u \in Tasks : task'[u].attempt = task[u].attempt
        BY <1>1, TaskUpdateEffects DEF ReplayDead
    <2> QED BY <1>0, <2>1, <2>2
<1>2. ASSUME NEW w \in Workers, NEW t \in Tasks, Deliver(w, t) PROVE RetryBudget'
    <2>1. replays' = replays /\ task[t].status = "PENDING"
        BY <1>2 DEF Deliver
    <2>2. \A u \in Tasks : u # t => task'[u] = task[u]
        BY <1>2 DEF Deliver, CoreTypeOK
    <2>3. task'[t].attempt = task[t].attempt + 1 /\ task'[t].status = "PROCESSING"
        BY <1>2 DEF Deliver, CoreTypeOK, TaskRow
    <2> QED BY <1>0, <2>1, <2>2, <2>3
<1>3. ASSUME NEW r \in Reconcilers, ResetExpired(r) PROVE RetryBudget'
    <2> DEFINE i == reconciler[r].item
    <2>1. i.task \in Tasks
        BY <1>3, ItemInHand DEF ResetExpired
    <2>2. replays' = replays /\ i.attempt < MaxIngest
        BY <1>3 DEF ResetExpired, Conflict, DoneWith, MayRetry
    <2>3. task' = task \/ (SetTask(i.task, "PENDING") /\ task[i.task].attempt = i.attempt)
        BY <1>3 DEF ResetExpired, Conflict, Expired, Current
    <2>4. \A u \in Tasks : task'[u] = task[u] \/ (task'[u].attempt = task[u].attempt
                                                   /\ task[u].attempt < MaxIngest)
        BY <2>1, <2>2, <2>3, TaskUpdateEffects
    <2> QED BY <1>0, <2>2, <2>4
<1>4. ASSUME replays' = replays,
             \A u \in Tasks :
                \/ task'[u].attempt = 0
                \/ /\ task'[u].attempt = task[u].attempt
                   /\ task'[u].status = "PENDING" => task[u].status = "PENDING"
      PROVE  RetryBudget'
    BY <1>0, <1>4
<1>5. ASSUME replays' = replays, NEW t,
             \/ SetTask(t, "FAILED") \/ SetTask(t, "COMPLETED") \/ Renew(t) \/ UNCHANGED task
             \/ \E f \in Files, s \in TaskStatus : CreateTask(t, f, s)
      PROVE  RetryBudget'
    <2>1. CASE SetTask(t, "FAILED") \/ SetTask(t, "COMPLETED") \/ Renew(t) \/ UNCHANGED task
        BY ZenonT(60), <1>4, <1>5, <2>1, TaskUpdateEffects
    <2>2. ASSUME NEW f \in Files, NEW s \in TaskStatus, CreateTask(t, f, s) PROVE RetryBudget'
        BY <1>4, <1>5, <2>2 DEF CreateTask, CoreTypeOK
    <2> QED BY <1>5, <2>1, <2>2
<1>6. ASSUME NEW f \in Files,
             Upload(f) \/ UploadDuplicate(f) \/ DeleteObject(f) \/ DeleteRecords(f)
      PROVE  RetryBudget'
    <2>1. CASE DeleteRecords(f)
        BY <1>4, <2>1 DEF DeleteRecords, CoreTypeOK, TaskRow
    <2>2. CASE ~DeleteRecords(f)
        BY <1>5, <1>6, <2>2 DEF Upload, UploadDuplicate, DeleteObject, TaskStatus
    <2> QED BY <2>1, <2>2
<1>7. ASSUME NEW w \in Workers, WorkerStep(w) \/ Heartbeat(w) \/ WorkerCrash(w)
      PROVE  RetryBudget'
    BY <1>5, <1>7 DEF WorkerStep, StartHeartbeat, LoadFile, Parse, IndexChunks, CleanUp, Complete,
       MarkFailed, Heartbeat, WorkerCrash
<1>8. ASSUME NEW r \in Reconcilers, ReconcilerStep(r) \/ ReconcilerCrash(r), ~ResetExpired(r)
      PROVE  RetryBudget'
    <2>1. CASE AdoptOrphan(r)
        <3>1. reconciler[r].item.file \in Files
            BY <2>1, ItemInHand DEF AdoptOrphan
        <3> QED BY <1>5, <2>1, <3>1 DEF AdoptOrphan, Conflict, DoneWith, TaskStatus
    <2>2. CASE ~AdoptOrphan(r)
        BY <1>5, <1>8, <2>2 DEF ReconcilerStep, Scan, Pick, FailTaskOnly, ReconcileCompleted,
           FailExpiredPair, ReplayGap, FailGap, FailUnowned, ReconcilerCrash, Conflict, FailPair,
           DoneWith
    <2> QED BY <2>1, <2>2
<1>9. ASSUME NEW t \in Tasks, LoseMessage(t) \/ TaskDue(t) \/ \E w \in Workers : DeliverRejected(w, t)
      PROVE  RetryBudget'
    <2>1. CASE TaskDue(t)
        BY <1>4, <2>1 DEF TaskDue, CoreTypeOK, TaskRow
    <2>2. CASE ~TaskDue(t)
        BY <1>5, <1>9, <2>2 DEF LoseMessage, DeliverRejected, coreVars
    <2> QED BY <2>1, <2>2
<1>10. CASE RelayStep \/ UNCHANGED vars \/ \E f \in Files : FileDue(f)
    BY <1>5, <1>10 DEF RelayStep, coreVars, vars, FileDue
<1> QED
    BY <1>1, <1>2, <1>3, <1>6, <1>7, <1>8, <1>9, <1>10 DEF Next, CoreNext, WebStep, TakeMessage

\* The number of attempts is bounded by the setting, and a waiting task has one left.
THEOREM RetriesAreBounded == Safety => []RetryBudget
<1>1. Init => RetryBudget
    <2> SUFFICES ASSUME Init, NEW t \in Tasks
                 PROVE  /\ task[t].attempt <= MaxIngest + replays
                        /\ task[t].attempt < MaxIngest + replays
        BY DEF RetryBudget
    <2>1. task[t].attempt = 0 /\ replays = 0
        BY DEF Init
    <2> QED BY <2>1, IngestionAssumption
<1> QED BY <1>1, RetryBudgetStep, CoreTypeStep, CoreTypeCorrect, PTL DEF Safety

-----------------------------------------------------------------------------
(* Fencing.                                                                 *)

\* Only a worker's own actions change its program counter and claim.
LEMMA OthersKeepTheirWork ==
    ASSUME CoreTypeOK, [Next]_vars, NEW w \in Workers, worker'[w] # worker[w]
    PROVE  WorkerStep(w) \/ WorkerCrash(w) \/ \E t \in Tasks : Deliver(w, t)
<1>1. ASSUME NEW v \in Workers, v # w,
             WorkerStep(v) \/ WorkerCrash(v) \/ \E t \in Tasks : Deliver(v, t)
      PROVE  FALSE
    <2>1. \E new : worker' = [worker EXCEPT ![v] = new]
        BY <1>1, Zenon DEF WorkerStep, StartHeartbeat, LoadFile, Parse, IndexChunks, CleanUp, Complete,
           MarkFailed, WorkerCrash, Deliver, Goto, Finish
    <2> QED BY <1>1, <2>1 DEF CoreTypeOK
<1>2. ASSUME NEW v \in Workers, Heartbeat(v) PROVE FALSE
    BY <1>2 DEF Heartbeat
<1>3. CASE WebStep
    BY <1>3 DEF WebStep, Upload, UploadDuplicate, DeleteObject, DeleteRecords, ReplayDead
<1>4. ASSUME NEW r \in Reconcilers, ReconcilerStep(r) \/ ReconcilerCrash(r) PROVE FALSE
    BY <1>4 DEF ReconcilerStep, Scan, Pick, FailTaskOnly, ReconcileCompleted, ResetExpired,
       FailExpiredPair, ReplayGap, FailGap, FailUnowned, AdoptOrphan, ReconcilerCrash, Conflict,
       FailPair, DoneWith
<1>5. ASSUME NEW t \in Tasks,
             LoseMessage(t) \/ TaskDue(t) \/ \E v \in Workers : DeliverRejected(v, t)
      PROVE  FALSE
    BY <1>5 DEF LoseMessage, TaskDue, DeliverRejected, coreVars
<1>6. CASE RelayStep \/ UNCHANGED vars \/ \E f \in Files : FileDue(f)
    BY <1>6 DEF RelayStep, coreVars, vars, FileDue
<1> QED BY <1>1, <1>2, <1>3, <1>4, <1>5, <1>6 DEF Next, CoreNext, TakeMessage

LEMMA FencedStep ==
    ASSUME CoreTypeOK, [Next]_vars, NEW w \in Workers,
           worker'[w] # worker[w], worker[w].pc # "idle", ~Mine(w)
    PROVE  UNCHANGED <<file, indexed, task>>
<1>1. CASE WorkerStep(w)
    BY <1>1 DEF WorkerStep, StartHeartbeat, LoadFile, Parse, IndexChunks, CleanUp, Complete,
       MarkFailed, StillActive
<1>2. CASE WorkerCrash(w)
    BY <1>2 DEF WorkerCrash
<1>3. ASSUME NEW t \in Tasks, Deliver(w, t) PROVE FALSE
    BY <1>3 DEF Deliver, At
<1> QED BY <1>1, <1>2, <1>3, OthersKeepTheirWork

\* A worker whose attempt was taken from it changes no file, no chunks and no task.
THEOREM WorkersAreFenced == Safety => WorkerFenced
<1> DEFINE A == \A w \in Workers :
                   worker'[w] # worker[w] /\ worker[w].pc # "idle" /\ ~Mine(w)
                      => UNCHANGED <<file, indexed, task>>
<1>1. CoreTypeOK /\ [Next]_vars => [A]_vars
    BY FencedStep
<1> QED BY <1>1, CoreTypeCorrect, PTL DEF Safety, WorkerFenced
-----------------------------------------------------------------------------
(* The moves.                                                               *)

SameTask(t) ==
    /\ task'[t].status = task[t].status /\ task'[t].file = task[t].file
    /\ task'[t].attempt = task[t].attempt
OtherTasks(t) == \A u \in Tasks : u # t => SameTask(u)
SameTasks == \A u \in Tasks : SameTask(u)

Becomes(t, status) ==
    /\ task'[t].status = status /\ task'[t].file = task[t].file
    /\ task'[t].attempt = task[t].attempt
    /\ OtherTasks(t)

Status(f) == file[f].status
OtherFiles(f) == \A g \in Files : g # f => file'[g].status = Status(g)
SameFiles == \A g \in Files : file'[g].status = Status(g)
FileBecomes(f, status) == file'[f].status = status /\ OtherFiles(f)

OtherWorkers(w) == \A v \in Workers : v # w => worker'[v] = worker[v]
SameWorkers == \A v \in Workers : worker'[v] = worker[v]

\* w goes on with its attempt.
GoesTo(w, pc) ==
    /\ worker'[w].pc = pc
    /\ worker'[w].task = worker[w].task /\ worker'[w].attempt = worker[w].attempt
    /\ OtherWorkers(w)
Leaves(w) == worker'[w].pc = "idle" /\ OtherWorkers(w)

InHandOf(r) == reconciler[r].item

\* No reconciler reads anything new.
NothingRead ==
    \A r \in Reconcilers :
        /\ reconciler'[r].todo \subseteq reconciler[r].todo
        /\ InHandOf(r)' \in {InHandOf(r), NoItem}
\* r is done with its item.
Finishes(r) == NothingRead /\ InHandOf(r)' = NoItem

CommitsKnown == "commit" \notin workerFaults.kinds
Calm == workerFaults.kinds \subseteq {"crash"} /\ replays = 0

MoveNothing == SameTasks /\ SameFiles /\ SameWorkers /\ NothingRead

MoveCreate(t, f, status) ==
    /\ task[t].status = "NONE"
    /\ task'[t].status = status /\ task'[t].file = f /\ task'[t].attempt = 0
    /\ OtherTasks(t)
    /\ SameWorkers /\ NothingRead

MoveUpload(t, f) ==
    /\ Status(f) = "NONE" /\ FileBecomes(f, "UPLOADED")
    /\ MoveCreate(t, f, "PENDING")

MoveDuplicate(t, f) ==
    /\ Status(f) = "READY" /\ SameFiles
    /\ MoveCreate(t, f, "COMPLETED")

MoveAdopt(r, t, f) ==
    /\ InHandOf(r) # NoItem /\ InHandOf(r).kind = "orphan" /\ f = InHandOf(r).file
    /\ Status(f) # "REMOVED" /\ ~HasActiveTask(f)
    /\ SameFiles
    /\ MoveCreate(t, f, "PENDING") /\ Finishes(r)

MoveRemove(f) ==
    /\ Status(f) \notin {"NONE", "REMOVED"} /\ FileBecomes(f, "REMOVED")
    /\ \A t \in Tasks :
          /\ task'[t].status = task[t].status /\ task'[t].attempt = task[t].attempt
          /\ task'[t].file = IF task[t].file = f THEN NoFile ELSE task[t].file
    /\ SameWorkers /\ NothingRead

MoveReplay(t, f) ==
    /\ task[t].status = "FAILED" /\ task[t].file = f
    /\ Status(f) = "FAILED" /\ ~HasActiveTask(f)
    /\ Becomes(t, "PENDING") /\ FileBecomes(f, "UPLOADED")
    /\ SameWorkers /\ NothingRead /\ ~Calm'

MoveClaim(w, t) ==
    /\ worker[w].pc = "idle"
    /\ task[t].status = "PENDING" /\ task[t].file # NoFile
    /\ task'[t].status = "PROCESSING" /\ task'[t].file = task[t].file
    /\ task'[t].attempt = task[t].attempt + 1
    /\ OtherTasks(t) /\ SameFiles
    /\ worker'[w].pc = "claimed" /\ worker'[w].task = t
    /\ worker'[w].attempt = task[t].attempt + 1
    /\ OtherWorkers(w) /\ NothingRead

\* A worker goes on or gives up, and writes nothing.
MoveOn(w) ==
    /\ worker[w].pc # "idle"
    /\ \/ Leaves(w)
       \/ worker[w].pc = "claimed" /\ GoesTo(w, "load")
       \/ worker[w].pc = "parse" /\ GoesTo(w, "index")
       \/ worker[w].pc \in {"parse", "index"} /\ GoesTo(w, "cleanup")
       \/ /\ GoesTo(w, "failing")
          /\ \/ ~Mine(w) \/ ~Calm'
             \/ worker[w].pc = "load" /\ ~FileIs(FileOf(w), {"UPLOADED"})
    /\ SameTasks /\ SameFiles /\ NothingRead

\* A worker writes the file of its attempt; where the commit was lost it does not know.
MoveLoad(w) ==
    /\ worker[w].pc = "load" /\ Mine(w)
    /\ FileIs(FileOf(w), {"UPLOADED"}) /\ FileBecomes(FileOf(w), "PARSING")
    /\ \/ GoesTo(w, "parse")
       \/ GoesTo(w, "failing") /\ ~CommitsKnown'
    /\ SameTasks /\ NothingRead

MoveIndex(w) ==
    /\ worker[w].pc = "index" /\ Mine(w)
    /\ FileIs(FileOf(w), {"PARSING"}) /\ FileBecomes(FileOf(w), "READY")
    /\ \/ GoesTo(w, "complete")
       \/ GoesTo(w, "cleanup") /\ ~CommitsKnown'
    /\ SameTasks /\ NothingRead

MoveCleanUp(w) ==
    /\ worker[w].pc = "cleanup" /\ Mine(w) /\ GoesTo(w, "failing")
    /\ \/ FileIs(FileOf(w), {"UPLOADED", "PARSING", "READY"}) /\ FileBecomes(FileOf(w), "FAILED")
       \/ ~FileIs(FileOf(w), {"UPLOADED", "PARSING", "READY"}) /\ SameFiles
    /\ SameTasks /\ NothingRead

\* A worker writes the task of its attempt.
MoveSettle(w) ==
    /\ Mine(w) /\ SameFiles /\ NothingRead
    /\ \/ /\ worker[w].pc = "complete" /\ Becomes(worker[w].task, "COMPLETED")
          /\ Leaves(w) \/ (GoesTo(w, "failing") /\ ~CommitsKnown')
       \/ worker[w].pc = "failing" /\ Becomes(worker[w].task, "FAILED") /\ Leaves(w)

\* The reconciler has a task in hand, and it is active at the attempt that was read.
TaskInHand(r) ==
    LET i == InHandOf(r) IN
    /\ i # NoItem /\ i.kind # "orphan"
    /\ ActiveTask(i.task) /\ task[i.task].attempt = i.attempt

MoveRepair(r) ==
    LET i == InHandOf(r) IN
    /\ TaskInHand(r)
    /\ \/ i.seen = "READY" /\ Becomes(i.task, "COMPLETED")
       \/ i.seen \in {"REMOVED", "FAILED"} /\ Becomes(i.task, "FAILED")
    /\ SameFiles /\ SameWorkers /\ Finishes(r)

MoveReset(r) ==
    LET i == InHandOf(r) IN
    /\ TaskInHand(r) /\ task[i.task].status = "PROCESSING" /\ task[i.task].due
    /\ FileIs(i.file, {"UPLOADED", "PARSING"}) /\ FileBecomes(i.file, "UPLOADED")
    /\ Becomes(i.task, "PENDING")
    /\ SameWorkers /\ Finishes(r)

MoveFailPair(r) ==
    LET i == InHandOf(r) IN
    /\ TaskInHand(r)
    /\ FileIs(i.file, {"UPLOADED", "PARSING"}) /\ FileBecomes(i.file, "FAILED")
    /\ Becomes(i.task, "FAILED")
    /\ SameWorkers /\ Finishes(r)

MoveFailUnowned(r) ==
    LET i == InHandOf(r) IN
    /\ i # NoItem /\ i.kind = "orphan"
    /\ FileIs(i.file, {"UPLOADED"}) /\ FileBecomes(i.file, "FAILED")
    /\ SameTasks /\ SameWorkers /\ Finishes(r)

OtherReconcilers(r) == \A q \in Reconcilers : q # r => reconciler'[q] = reconciler[q]

MoveScan(r) ==
    /\ reconciler[r] = Resting /\ InHandOf(r)' = NoItem
    /\ reconciler'[r].todo = StaleItems \cup GapItems \cup OrphanItems
    /\ OtherReconcilers(r)
    /\ SameTasks /\ SameFiles /\ SameWorkers

MovePick(r) ==
    /\ \E i \in reconciler[r].todo :
          /\ reconciler'[r].todo = reconciler[r].todo \ {i}
          /\ InHandOf(r)' \in Item
          /\ InHandOf(r)'.kind = i.kind /\ InHandOf(r)'.task = i.task
          /\ InHandOf(r)'.file = i.file /\ InHandOf(r)'.attempt = i.attempt
          /\ i.kind # "orphan" =>
                InHandOf(r)'.seen = IF i.file = NoFile THEN "REMOVED" ELSE Status(i.file)
    /\ OtherReconcilers(r)
    /\ SameTasks /\ SameFiles /\ SameWorkers

Move ==
    \/ MoveNothing
    \/ \E t \in Tasks, f \in Files : MoveUpload(t, f) \/ MoveDuplicate(t, f) \/ MoveReplay(t, f)
    \/ \E f \in Files : MoveRemove(f)
    \/ \E w \in Workers :
          \/ \E t \in Tasks : MoveClaim(w, t)
          \/ MoveOn(w) \/ MoveLoad(w) \/ MoveIndex(w) \/ MoveCleanUp(w) \/ MoveSettle(w)
    \/ \E r \in Reconcilers :
          \/ \E t \in Tasks, f \in Files : MoveAdopt(r, t, f)
          \/ MoveRepair(r) \/ MoveReset(r) \/ MoveFailPair(r) \/ MoveFailUnowned(r)
          \/ MoveScan(r) \/ MovePick(r)

-----------------------------------------------------------------------------
(* The updates, pointwise.                                                  *)

LEMMA TaskUpdate ==
    ASSUME CoreTypeOK, NEW t \in Tasks
    PROVE  /\ \A status \in TaskStatus : SetTask(t, status) => Becomes(t, status)
           /\ Renew(t) => SameTasks
           /\ UNCHANGED task => SameTasks
           /\ \A f \in Files, status \in TaskStatus : CreateTask(t, f, status) =>
                 /\ task[t].status = "NONE"
                 /\ task'[t].status = status /\ task'[t].file = f /\ task'[t].attempt = 0
                 /\ OtherTasks(t)
<1>1. \A status \in TaskStatus : SetTask(t, status) => Becomes(t, status)
    BY TaskUpdateEffects DEF Becomes, OtherTasks, SameTask
<1>2. Renew(t) => SameTasks
    BY TaskUpdateEffects DEF SameTasks, SameTask
<1>3. UNCHANGED task => SameTasks
    BY DEF SameTasks, SameTask
<1>4. ASSUME NEW f \in Files, NEW status \in TaskStatus, CreateTask(t, f, status)
      PROVE  /\ task[t].status = "NONE"
             /\ task'[t].status = status /\ task'[t].file = f /\ task'[t].attempt = 0
             /\ OtherTasks(t)
    BY <1>4 DEF CreateTask, OtherTasks, SameTask, CoreTypeOK
<1> QED BY <1>1, <1>2, <1>3, <1>4

LEMMA FileUpdate ==
    ASSUME CoreTypeOK, NEW f \in Files, NEW status, SetFile(f, status)
    PROVE  FileBecomes(f, status)
BY DEF CoreTypeOK, SetFile, FileBecomes, OtherFiles, Status

LEMMA WorkerUpdate ==
    ASSUME CoreTypeOK, NEW w \in Workers, ~At(w, "idle")
    PROVE  /\ \A pc : Goto(w, pc) => GoesTo(w, pc)
           /\ Finish(w) => Leaves(w)
<1>1. worker[w] \in Busy /\ worker \in [Workers -> Busy \cup {Idle}]
    BY DEF CoreTypeOK, At, Idle
<1>2. ASSUME NEW pc, Goto(w, pc) PROVE GoesTo(w, pc)
    <2>1. /\ worker'[w] = [worker[w] EXCEPT !.pc = pc]
          /\ OtherWorkers(w)
        BY <1>1, <1>2 DEF Goto, OtherWorkers
    <2> QED BY <1>1, <2>1 DEF GoesTo, Busy
<1>3. Finish(w) => Leaves(w)
    BY <1>1 DEF Finish, Leaves, OtherWorkers, Idle
<1> QED BY <1>2, <1>3

LEMMA ReconcilerUpdate ==
    ASSUME CoreTypeOK, NEW r \in Reconcilers, DoneWith(r)
    PROVE  Finishes(r) /\ SameWorkers
<1>1. /\ reconciler'[r].todo = reconciler[r].todo /\ reconciler'[r].item = NoItem
      /\ \A q \in Reconcilers : q # r => reconciler'[q] = reconciler[q]
    BY DEF CoreTypeOK, ReconcilerState, DoneWith
<1>2. \A q \in Reconcilers : /\ reconciler'[q].todo \subseteq reconciler[q].todo
                             /\ reconciler'[q].item \in {reconciler[q].item, NoItem}
    BY <1>1
<1>3. worker' = worker
    BY DEF DoneWith
<1> QED BY <1>1, <1>2, <1>3 DEF Finishes, NothingRead, InHandOf, SameWorkers

LEMMA UnchangedRest ==
    /\ UNCHANGED reconciler => NothingRead
    /\ UNCHANGED worker => SameWorkers
    /\ UNCHANGED file => SameFiles
BY DEF NothingRead, InHandOf, SameWorkers, SameFiles, Status

-----------------------------------------------------------------------------
(* Every step is a move.                                                    *)

LEMMA FaultsShow ==
    /\ \A kind : WorkerFault(kind) => kind \in workerFaults'.kinds
    /\ WorkerFault("db") => ~Calm'
    /\ WorkerFault("commit") => ~Calm' /\ ~CommitsKnown'
BY DEF WorkerFault, Calm, CommitsKnown

LEMMA WebMoves == CoreTypeOK /\ WebStep => Move
<1> SUFFICES ASSUME CoreTypeOK, WebStep PROVE Move
    OBVIOUS
<1>1. ASSUME NEW f \in Files, Upload(f) PROVE Move
    <2>1. PICK t \in Tasks : CreateTask(t, f, "PENDING")
        BY <1>1 DEF Upload
    <2>2. /\ task[t].status = "NONE"
          /\ task'[t].status = "PENDING" /\ task'[t].file = f /\ task'[t].attempt = 0
          /\ OtherTasks(t)
        BY <2>1, TaskUpdate DEF TaskStatus
    <2>3. Status(f) = "NONE" /\ FileBecomes(f, "UPLOADED")
        BY <1>1, FileUpdate DEF Upload, Status
    <2>4. SameWorkers /\ NothingRead
        BY <1>1, UnchangedRest DEF Upload
    <2> QED BY <2>2, <2>3, <2>4 DEF MoveUpload, MoveCreate, Move
<1>2. ASSUME NEW f \in Files, UploadDuplicate(f) PROVE Move
    <2>1. PICK t \in Tasks : CreateTask(t, f, "COMPLETED")
        BY <1>2 DEF UploadDuplicate
    <2>2. /\ task[t].status = "NONE"
          /\ task'[t].status = "COMPLETED" /\ task'[t].file = f /\ task'[t].attempt = 0
          /\ OtherTasks(t)
        BY <2>1, TaskUpdate DEF TaskStatus
    <2>3. Status(f) = "READY" /\ SameFiles /\ SameWorkers /\ NothingRead
        BY <1>2, UnchangedRest DEF UploadDuplicate, Duplicate, Status
    <2> QED BY <2>2, <2>3 DEF MoveDuplicate, MoveCreate, Move
<1>3. ASSUME NEW f \in Files, DeleteObject(f) PROVE Move
    <2>1. SameTasks
        BY <1>3 DEF DeleteObject, SameTasks, SameTask
    <2> QED BY <1>3, <2>1, UnchangedRest DEF DeleteObject, MoveNothing, Move
<1>4. ASSUME NEW f \in Files, DeleteRecords(f) PROVE Move
    <2>1. Status(f) \notin {"NONE", "REMOVED"} /\ FileBecomes(f, "REMOVED")
        BY <1>4, FileUpdate DEF DeleteRecords, Status
    <2>2. SameWorkers /\ NothingRead
        BY <1>4, UnchangedRest DEF DeleteRecords
    <2>3. ASSUME NEW t \in Tasks
          PROVE  /\ task'[t].status = task[t].status /\ task'[t].attempt = task[t].attempt
                 /\ task'[t].file = IF task[t].file = f THEN NoFile ELSE task[t].file
        <3>1. task[t] \in TaskRow
            BY DEF CoreTypeOK
        <3>2. task'[t] = IF task[t].file = f THEN [task[t] EXCEPT !.file = NoFile] ELSE task[t]
            BY <1>4 DEF DeleteRecords
        <3> QED BY <3>1, <3>2 DEF TaskRow
    <2> QED BY <2>1, <2>2, <2>3 DEF MoveRemove, Move
<1>5. ASSUME NEW t \in Tasks, ReplayDead(t) PROVE Move
    <2> DEFINE f == task[t].file
    <2>1. SameWorkers /\ NothingRead
        BY <1>5, UnchangedRest DEF ReplayDead
    <2>2. ~Calm'
        <3>1. replays \in Nat /\ replays' = replays + 1
            BY <1>5, IngestionAssumption DEF ReplayDead, CoreTypeOK
        <3> QED BY <3>1 DEF Calm
    <2>3. CASE /\ task[t].status = "FAILED" /\ FileIs(f, {"FAILED"}) /\ ~HasActiveTask(f)
               /\ SetTask(t, "PENDING") /\ SetFile(f, "UPLOADED")
        <3>1. PICK g \in Files : g = f
            BY <2>3 DEF FileIs
        <3>2. Becomes(t, "PENDING")
            BY <2>3, TaskUpdate DEF TaskStatus
        <3>3. FileBecomes(g, "UPLOADED")
            BY <2>3, <3>1, FileUpdate
        <3>4. MoveReplay(t, g)
            BY <2>1, <2>2, <2>3, <3>1, <3>2, <3>3 DEF MoveReplay, FileIs, Status
        <3> QED BY <3>4 DEF Move
    <2>4. CASE UNCHANGED <<task, file>>
        <3>1. SameTasks /\ SameFiles
            BY <2>4, UnchangedRest, TaskUpdate
        <3> QED BY <2>1, <3>1 DEF MoveNothing, Move
    <2> QED BY <1>5, <2>3, <2>4 DEF ReplayDead
<1> QED BY <1>1, <1>2, <1>3, <1>4, <1>5 DEF WebStep

LEMMA WorkerMoves ==
    ASSUME CoreTypeOK, NEW w \in Workers, WorkerStep(w) \/ Heartbeat(w) \/ WorkerCrash(w)
    PROVE  Move
<1> DEFINE t == worker[w].task
           f == FileOf(w)
<1>1. worker[w].pc # "idle" /\ ~At(w, "idle")
    BY DEF WorkerStep, StartHeartbeat, LoadFile, Parse, IndexChunks, CleanUp, Complete, MarkFailed,
       Heartbeat, WorkerCrash, At
<1>2. t \in Tasks /\ f \in Files \cup {NoFile}
    BY <1>1, BusyHasTask
<1>3. /\ \A pc : Goto(w, pc) => GoesTo(w, pc)
      /\ Finish(w) => Leaves(w)
    BY <1>1, WorkerUpdate
<1>4. /\ Renew(t) => SameTasks
      /\ UNCHANGED task => SameTasks
      /\ \A status \in TaskStatus : SetTask(t, status) => Becomes(t, status)
    BY <1>2, TaskUpdate
<1>5. /\ \A status \in FileStatus : f \in Files /\ SetFile(f, status) => FileBecomes(f, status)
      /\ UNCHANGED file => SameFiles
      /\ UNCHANGED reconciler => NothingRead
      /\ UNCHANGED worker => SameWorkers
    BY FileUpdate, UnchangedRest
<1>6. UNCHANGED reconciler
    BY DEF WorkerStep, StartHeartbeat, LoadFile, Parse, IndexChunks, CleanUp, Complete, MarkFailed,
       Heartbeat, WorkerCrash
<1>7. MoveOn(w) => Move
    BY DEF Move
<1>8. CASE StartHeartbeat(w)
    <2>1. SameTasks /\ SameFiles /\ NothingRead
        BY <1>4, <1>5, <1>8 DEF StartHeartbeat
    <2>2. GoesTo(w, "load") \/ (GoesTo(w, "failing") /\ (~Mine(w) \/ ~Calm'))
        BY <1>3, <1>8, FaultsShow DEF StartHeartbeat
    <2>3. worker[w].pc = "claimed"
        BY <1>8 DEF StartHeartbeat, At
    <2> QED BY <1>1, <1>7, <2>1, <2>2, <2>3 DEF MoveOn
<1>9. CASE Heartbeat(w)
    BY <1>4, <1>5, <1>9 DEF Heartbeat, MoveNothing, Move
<1>10. CASE LoadFile(w)
    <2>1. worker[w].pc = "load"
        BY <1>10 DEF LoadFile, At
    <2>2. CASE /\ Mine(w) /\ FileIs(f, {"UPLOADED"}) /\ Renew(t) /\ SetFile(f, "PARSING")
               /\ Goto(w, "parse") \/ (Goto(w, "failing") /\ WorkerFault("commit"))
        <3>1. FileBecomes(f, "PARSING") /\ SameTasks
            BY <1>4, <1>5, <2>2 DEF FileIs, FileStatus
        <3>2. GoesTo(w, "parse") \/ (GoesTo(w, "failing") /\ ~CommitsKnown')
            BY <1>3, <2>2, FaultsShow
        <3>3. MoveLoad(w)
            BY <1>5, <1>6, <2>1, <2>2, <3>1, <3>2 DEF MoveLoad
        <3> QED BY <3>3 DEF Move
    <2>3. CASE /\ ~(Mine(w) /\ FileIs(f, {"UPLOADED"})) \/ WorkerFault("db")
               /\ Goto(w, "failing") /\ UNCHANGED <<task, file>>
        <3>1. SameTasks /\ SameFiles /\ GoesTo(w, "failing")
            BY <1>3, <1>4, <1>5, <2>3
        <3>2. ~Mine(w) \/ ~FileIs(f, {"UPLOADED"}) \/ ~Calm'
            BY <2>3, FaultsShow
        <3> QED BY <1>1, <1>5, <1>6, <1>7, <2>1, <3>1, <3>2 DEF MoveOn
    <2> QED BY <1>10, <2>2, <2>3 DEF LoadFile, StillActive
<1>11. CASE Parse(w)
    <2>1. GoesTo(w, "index") \/ GoesTo(w, "cleanup")
        BY <1>3, <1>11 DEF Parse
    <2> QED BY <1>1, <1>4, <1>5, <1>7, <1>11, <2>1 DEF Parse, MoveOn, At
<1>12. CASE IndexChunks(w)
    <2>1. worker[w].pc = "index"
        BY <1>12 DEF IndexChunks, At
    <2>2. CASE /\ Mine(w) /\ FileIs(f, {"PARSING"}) /\ Renew(t) /\ SetFile(f, "READY")
               /\ Goto(w, "complete") \/ (Goto(w, "cleanup") /\ WorkerFault("commit"))
        <3>1. FileBecomes(f, "READY") /\ SameTasks
            BY <1>4, <1>5, <2>2 DEF FileIs, FileStatus
        <3>2. GoesTo(w, "complete") \/ (GoesTo(w, "cleanup") /\ ~CommitsKnown')
            BY <1>3, <2>2, FaultsShow
        <3>3. MoveIndex(w)
            BY <1>5, <1>6, <2>1, <2>2, <3>1, <3>2 DEF MoveIndex
        <3> QED BY <3>3 DEF Move
    <2>3. CASE Goto(w, "cleanup") /\ UNCHANGED <<task, file>>
        BY <1>1, <1>3, <1>4, <1>5, <1>6, <1>7, <2>1, <2>3 DEF MoveOn
    <2> QED BY <1>12, <2>2, <2>3 DEF IndexChunks, StillActive
<1>13. CASE CleanUp(w)
    <2>1. worker[w].pc = "cleanup" /\ GoesTo(w, "failing")
        BY <1>3, <1>13 DEF CleanUp, At
    <2>2. CASE Mine(w) /\ Renew(t) /\ FileIs(f, {"UPLOADED", "PARSING", "READY"}) /\ SetFile(f, "FAILED")
        <3>1. FileBecomes(f, "FAILED") /\ SameTasks
            BY <1>4, <1>5, <2>2 DEF FileIs, FileStatus
        <3>2. MoveCleanUp(w)
            BY <1>5, <1>6, <2>1, <2>2, <3>1 DEF MoveCleanUp
        <3> QED BY <3>2 DEF Move
    <2>3. CASE Mine(w) /\ Renew(t) /\ ~FileIs(f, {"UPLOADED", "PARSING", "READY"}) /\ UNCHANGED file
        <3>1. MoveCleanUp(w)
            BY <1>4, <1>5, <1>6, <2>1, <2>3 DEF MoveCleanUp
        <3> QED BY <3>1 DEF Move
    <2>4. CASE (~Mine(w) \/ WorkerFault("db")) /\ UNCHANGED <<task, file>>
        BY <1>1, <1>4, <1>5, <1>6, <1>7, <2>1, <2>4, FaultsShow DEF MoveOn
    <2> QED BY <1>13, <2>2, <2>3, <2>4 DEF CleanUp, StillActive
<1>14. CASE Complete(w)
    <2>1. worker[w].pc = "complete" /\ UNCHANGED file
        BY <1>14 DEF Complete, At
    <2>2. CASE /\ Mine(w) /\ SetTask(t, "COMPLETED")
               /\ Finish(w) \/ (Goto(w, "failing") /\ WorkerFault("commit"))
        <3>1. Becomes(t, "COMPLETED")
            BY <1>4, <2>2 DEF TaskStatus
        <3>2. Leaves(w) \/ (GoesTo(w, "failing") /\ ~CommitsKnown')
            BY <1>3, <2>2, FaultsShow
        <3>3. MoveSettle(w)
            BY <1>5, <1>6, <2>1, <2>2, <3>1, <3>2 DEF MoveSettle
        <3> QED BY <3>3 DEF Move
    <2>3. CASE /\ UNCHANGED task
               /\ Finish(w) \/ (Goto(w, "failing") /\ (~Mine(w) \/ WorkerFault("db")))
        <3>1. Leaves(w) \/ (GoesTo(w, "failing") /\ (~Mine(w) \/ ~Calm'))
            BY <1>3, <2>3, FaultsShow
        <3> QED BY <1>1, <1>4, <1>5, <1>6, <1>7, <2>1, <2>3, <3>1 DEF MoveOn
    <2> QED BY <1>14, <2>2, <2>3 DEF Complete
<1>15. CASE MarkFailed(w)
    <2>1. worker[w].pc = "failing" /\ UNCHANGED file /\ Leaves(w)
        BY <1>3, <1>15 DEF MarkFailed, At
    <2>2. CASE Mine(w) /\ SetTask(t, "FAILED")
        <3>1. Becomes(t, "FAILED")
            BY <1>4, <2>2 DEF TaskStatus
        <3>2. MoveSettle(w)
            BY <1>5, <1>6, <2>1, <2>2, <3>1 DEF MoveSettle
        <3> QED BY <3>2 DEF Move
    <2>3. CASE UNCHANGED task
        BY <1>1, <1>4, <1>5, <1>6, <1>7, <2>1, <2>3 DEF MoveOn
    <2> QED BY <1>15, <2>2, <2>3 DEF MarkFailed
<1>16. CASE WorkerCrash(w)
    <2>1. Leaves(w) /\ UNCHANGED <<file, task>>
        BY <1>3, <1>16 DEF WorkerCrash
    <2> QED BY <1>1, <1>4, <1>5, <1>6, <1>7, <2>1 DEF MoveOn
<1> QED BY <1>8, <1>9, <1>10, <1>11, <1>12, <1>13, <1>14, <1>15, <1>16 DEF WorkerStep

LEMMA ReconcilerMoves ==
    ASSUME CoreTypeOK, NEW r \in Reconcilers, ReconcilerStep(r) \/ ReconcilerCrash(r)
    PROVE  Move
<1> DEFINE i == reconciler[r].item
<1>1. /\ UNCHANGED file => SameFiles
      /\ UNCHANGED task => SameTasks
      /\ UNCHANGED worker => SameWorkers
      /\ \A f \in Files, status \in FileStatus : SetFile(f, status) => FileBecomes(f, status)
      /\ \A t \in Tasks, status \in TaskStatus : SetTask(t, status) => Becomes(t, status)
    BY UnchangedRest, FileUpdate, TaskUpdate DEF SameTasks, SameTask
<1>2. DoneWith(r) => Finishes(r) /\ SameWorkers
    BY ReconcilerUpdate
<1>3. ASSUME Conflict(r) PROVE Move
    <2>1. MoveNothing
        BY <1>1, <1>2, <1>3 DEF Conflict, MoveNothing, Finishes
    <2> QED BY <2>1 DEF Move
<1>4. ASSUME NEW statuses, InHand(r, {"stale", "gap"}, statuses) \/ InHand(r, {"stale"}, statuses)
                           \/ InHand(r, {"gap"}, statuses)
      PROVE  /\ i # NoItem /\ i.kind # "orphan" /\ i.task \in Tasks
             /\ i.file \in Files \cup {NoFile} /\ i.seen \in statuses
    BY ZenonT(60), <1>4, ItemInHand DEF InHand
<1>5. CASE Scan(r)
    <2>1. /\ reconciler'[r].todo = StaleItems \cup GapItems \cup OrphanItems
          /\ reconciler'[r].item = reconciler[r].item /\ OtherReconcilers(r)
        BY <1>5 DEF Scan, CoreTypeOK, ReconcilerState, OtherReconcilers
    <2>2. MoveScan(r)
        BY <1>1, <1>5, <2>1 DEF Scan, MoveScan, InHandOf, Resting
    <2> QED BY <2>2 DEF Move
<1>6. CASE Pick(r)
    <2>1. PICK j \in reconciler[r].todo :
             LET seen == IF j.kind = "orphan" THEN j.seen
                         ELSE IF j.file = NoFile THEN "REMOVED" ELSE file[j.file].status
             IN reconciler' = [reconciler EXCEPT
                   ![r] = [todo |-> @.todo \ {j}, item |-> [j EXCEPT !.seen = seen]]]
        BY <1>6 DEF Pick
    <2> DEFINE seen == IF j.kind = "orphan" THEN j.seen
                       ELSE IF j.file = NoFile THEN "REMOVED" ELSE file[j.file].status
    <2>2. j \in Item /\ seen \in FileStatus /\ (j.kind = "orphan" => seen = "UPLOADED")
        BY DEF CoreTypeOK, ReconcilerState, Item, FileRow, FileStatus
    <2>3. [j EXCEPT !.seen = seen] \in Item
        BY <2>2 DEF Item
    <2>4. /\ reconciler'[r].todo = reconciler[r].todo \ {j}
          /\ reconciler'[r].item = [j EXCEPT !.seen = seen]
          /\ OtherReconcilers(r)
        BY <2>1 DEF CoreTypeOK, OtherReconcilers
    <2>5. /\ reconciler'[r].item.kind = j.kind /\ reconciler'[r].item.task = j.task
          /\ reconciler'[r].item.file = j.file /\ reconciler'[r].item.attempt = j.attempt
          /\ reconciler'[r].item.seen = seen
        BY <2>2, <2>4 DEF Item
    <2>6. SameTasks /\ SameFiles /\ SameWorkers
        BY <1>1, <1>6 DEF Pick
    <2> HIDE DEF seen
    <2>7. MovePick(r)
        BY <2>3, <2>4, <2>5, <2>6 DEF MovePick, InHandOf, Status, seen
    <2> QED BY <2>7 DEF Move
<1>7. CASE FailTaskOnly(r)
    <2>1. CASE ActiveTask(i.task) /\ Unchanged(i) /\ SetTask(i.task, "FAILED") /\ DoneWith(r)
               /\ UNCHANGED file
        <3>1. Becomes(i.task, "FAILED") /\ SameFiles /\ Finishes(r) /\ SameWorkers
            BY <1>1, <1>2, <1>4, <1>7, <2>1 DEF FailTaskOnly, TaskStatus
        <3>2. TaskInHand(r) /\ i.seen \in {"REMOVED", "FAILED"}
            BY <1>4, <1>7, <2>1 DEF FailTaskOnly, TaskInHand, InHandOf, Unchanged
        <3>3. MoveRepair(r)
            BY <3>1, <3>2 DEF MoveRepair, InHandOf
        <3> QED BY <3>3 DEF Move
    <2> QED BY <1>3, <1>7, <2>1 DEF FailTaskOnly
<1>8. CASE ReconcileCompleted(r)
    <2>1. CASE /\ task[i.task].status \in {"PENDING", "PROCESSING"}
               /\ Unchanged(i) /\ SetTask(i.task, "COMPLETED") /\ DoneWith(r)
               /\ UNCHANGED file
        <3>1. Becomes(i.task, "COMPLETED") /\ SameFiles /\ Finishes(r) /\ SameWorkers
            BY <1>1, <1>2, <1>4, <1>8, <2>1 DEF ReconcileCompleted, TaskStatus
        <3>2. TaskInHand(r) /\ i.seen = "READY"
            BY <1>4, <1>8, <2>1 DEF ReconcileCompleted, TaskInHand, InHandOf, Unchanged, ActiveTask
        <3>3. MoveRepair(r)
            BY <3>1, <3>2 DEF MoveRepair, InHandOf
        <3> QED BY <3>3 DEF Move
    <2> QED BY <1>3, <1>8, <2>1 DEF ReconcileCompleted
<1>9. CASE ResetExpired(r)
    <2>1. CASE /\ Expired(i) /\ FileAsRead(i) /\ SetTask(i.task, "PENDING")
               /\ SetFile(i.file, "UPLOADED") /\ DoneWith(r)
        <3>1. FileIs(i.file, {"UPLOADED", "PARSING"}) /\ i.task \in Tasks
            BY <1>4, <1>9, <2>1 DEF ResetExpired, FileAsRead, FileIs
        <3>2. Becomes(i.task, "PENDING") /\ FileBecomes(i.file, "UPLOADED")
              /\ Finishes(r) /\ SameWorkers
            BY <1>1, <1>2, <2>1, <3>1 DEF FileIs, TaskStatus, FileStatus
        <3>3. TaskInHand(r) /\ task[i.task].status = "PROCESSING" /\ task[i.task].due
            BY <1>4, <1>9, <2>1
            DEF ResetExpired, TaskInHand, InHandOf, Expired, Current, ActiveTask
        <3>4. MoveReset(r)
            BY <3>1, <3>2, <3>3 DEF MoveReset, InHandOf
        <3> QED BY <3>4 DEF Move
    <2> QED BY <1>3, <1>9, <2>1 DEF ResetExpired
<1>10. ASSUME FailPair(r, i), FileIs(i.file, {"UPLOADED", "PARSING"}),
              ActiveTask(i.task), Unchanged(i), i.task \in Tasks, i # NoItem, i.kind # "orphan"
       PROVE  Move
    <2>1. /\ Becomes(i.task, "FAILED") /\ FileBecomes(i.file, "FAILED")
          /\ Finishes(r) /\ SameWorkers
        BY <1>1, <1>2, <1>10 DEF FailPair, FileIs, TaskStatus, FileStatus
    <2>2. MoveFailPair(r)
        BY <1>10, <2>1 DEF MoveFailPair, TaskInHand, InHandOf, Unchanged
    <2> QED BY <2>2 DEF Move
<1>11. CASE FailExpiredPair(r)
    <2>1. i.task \in Tasks /\ i # NoItem /\ i.kind # "orphan"
        BY <1>4, <1>11 DEF FailExpiredPair
    <2>2. Expired(i) => ActiveTask(i.task) /\ Unchanged(i)
        BY DEF Expired, Current, ActiveTask, Unchanged
    <2> QED BY <1>3, <1>10, <1>11, <2>1, <2>2 DEF FailExpiredPair
<1>12. CASE FailGap(r)
    <2>1. i.task \in Tasks /\ i # NoItem /\ i.kind # "orphan"
        BY <1>4, <1>12 DEF FailGap
    <2> QED BY <1>3, <1>10, <1>12, <2>1 DEF FailGap, ActiveTask
<1>13. CASE ReplayGap(r)
    <2>1. MoveNothing
        BY <1>1, <1>2, <1>13 DEF ReplayGap, MoveNothing, Finishes
    <2> QED BY <2>1 DEF Move
<1>14. CASE FailUnowned(r)
    <2>1. i # NoItem /\ i.kind = "orphan" /\ i.file \in Files
        BY <1>14, ItemInHand DEF FailUnowned, InHand
    <2>2. CASE FileIs(i.file, {"UPLOADED"}) /\ SetFile(i.file, "FAILED") /\ DoneWith(r)
               /\ UNCHANGED task
        <3>1. FileBecomes(i.file, "FAILED") /\ Finishes(r) /\ SameWorkers /\ SameTasks
            BY <1>1, <1>2, <2>1, <2>2 DEF FileStatus
        <3>2. MoveFailUnowned(r)
            BY <2>1, <2>2, <3>1 DEF MoveFailUnowned, InHandOf
        <3> QED BY <3>2 DEF Move
    <2> QED BY <1>3, <1>14, <2>2 DEF FailUnowned
<1>15. CASE AdoptOrphan(r)
    <2>1. i # NoItem /\ i.kind = "orphan" /\ i.file \in Files
        BY <1>15, ItemInHand DEF AdoptOrphan, InHand
    <2>2. CASE /\ ~FileIs(i.file, {"REMOVED"}) /\ ~HasActiveTask(i.file)
               /\ \E t \in Tasks : CreateTask(t, i.file, "PENDING")
               /\ DoneWith(r) /\ UNCHANGED file
        <3>1. PICK t \in Tasks : CreateTask(t, i.file, "PENDING")
            BY <2>2
        <3>2. /\ task[t].status = "NONE"
              /\ task'[t].status = "PENDING" /\ task'[t].file = i.file /\ task'[t].attempt = 0
              /\ OtherTasks(t)
            BY <2>1, <3>1, TaskUpdate DEF TaskStatus
        <3>3. Finishes(r) /\ SameWorkers /\ SameFiles /\ NothingRead
            BY <1>1, <1>2, <2>2 DEF Finishes
        <3>4. Status(i.file) # "REMOVED"
            BY <2>1, <2>2 DEF FileIs, Status
        <3>5. MoveAdopt(r, t, i.file)
            BY <2>1, <2>2, <3>2, <3>3, <3>4 DEF MoveAdopt, MoveCreate, InHandOf
        <3> QED BY <2>1, <3>5 DEF Move
    <2> QED BY <1>3, <1>15, <2>2 DEF AdoptOrphan
<1>16. CASE ReconcilerCrash(r)
    <2>1. reconciler'[r] = Resting /\ \A q \in Reconcilers : q # r => reconciler'[q] = reconciler[q]
        BY <1>16 DEF ReconcilerCrash, CoreTypeOK
    <2>2. NothingRead
        BY <2>1 DEF NothingRead, InHandOf, Resting
    <2>3. MoveNothing
        BY <1>1, <1>16, <2>2 DEF ReconcilerCrash, MoveNothing
    <2> QED BY <2>3 DEF Move
<1> QED BY <1>5, <1>6, <1>7, <1>8, <1>9, <1>11, <1>12, <1>13, <1>14, <1>15, <1>16
        DEF ReconcilerStep

LEMMA MessageAndTimeMoves ==
    ASSUME CoreTypeOK,
           \/ \E t \in Tasks : TakeMessage(t) \/ LoseMessage(t) \/ TaskDue(t)
           \/ \E f \in Files : FileDue(f)
    PROVE  Move
<1>1. ASSUME UNCHANGED <<worker, reconciler>>, SameTasks, SameFiles PROVE Move
    BY <1>1, UnchangedRest DEF MoveNothing, Move
<1>2. UNCHANGED task => SameTasks
    BY DEF SameTasks, SameTask
<1>3. ASSUME NEW w \in Workers, NEW t \in Tasks, Deliver(w, t) PROVE Move
    <2>1. task[t] \in TaskRow /\ task \in [Tasks -> TaskRow] /\ worker \in [Workers -> Busy \cup {Idle}]
        BY DEF CoreTypeOK
    <2>2. /\ task'[t].status = "PROCESSING" /\ task'[t].file = task[t].file
          /\ task'[t].attempt = task[t].attempt + 1
          /\ OtherTasks(t)
        BY <1>3, <2>1 DEF Deliver, TaskRow, OtherTasks, SameTask
    <2>3. /\ worker'[w].pc = "claimed" /\ worker'[w].task = t
          /\ worker'[w].attempt = task[t].attempt + 1
          /\ OtherWorkers(w)
        BY <1>3, <2>1 DEF Deliver, OtherWorkers
    <2>4. MoveClaim(w, t)
        BY <1>3, <2>2, <2>3, UnchangedRest DEF Deliver, MoveClaim, At
    <2> QED BY <2>4 DEF Move
<1>4. ASSUME NEW w \in Workers, NEW t \in Tasks, DeliverRejected(w, t) PROVE Move
    BY <1>1, <1>2, <1>4, UnchangedRest DEF DeliverRejected, coreVars
<1>5. ASSUME NEW t \in Tasks, LoseMessage(t) PROVE Move
    BY <1>1, <1>2, <1>5, UnchangedRest DEF LoseMessage
<1>6. ASSUME NEW t \in Tasks, TaskDue(t) PROVE Move
    <2>1. task[t] \in TaskRow /\ task \in [Tasks -> TaskRow]
        BY DEF CoreTypeOK
    <2>2. SameTasks
        BY <1>6, <2>1 DEF TaskDue, TaskRow, SameTasks, SameTask
    <2> QED BY <1>1, <1>6, <2>2, UnchangedRest DEF TaskDue
<1>7. ASSUME NEW f \in Files, FileDue(f) PROVE Move
    <2>1. file[f] \in FileRow /\ file \in [Files -> FileRow]
        BY DEF CoreTypeOK
    <2>2. SameFiles
        BY <1>7, <2>1 DEF FileDue, FileRow, SameFiles, Status
    <2> QED BY <1>1, <1>2, <1>7, <2>2 DEF FileDue
<1> QED BY <1>3, <1>4, <1>5, <1>6, <1>7 DEF TakeMessage

LEMMA StepIsMove == CoreTypeOK /\ [Next]_vars => Move
<1> SUFFICES ASSUME CoreTypeOK, [Next]_vars PROVE Move
    OBVIOUS
<1>1. CASE CoreNext
    BY <1>1, WebMoves, WorkerMoves, ReconcilerMoves, MessageAndTimeMoves DEF CoreNext
<1>2. CASE RelayStep \/ UNCHANGED vars
    BY <1>2, UnchangedRest DEF RelayStep, coreVars, vars, MoveNothing, Move, SameTasks, SameTask
<1> QED BY <1>1, <1>2 DEF Next

-----------------------------------------------------------------------------
(* Who has moved, seen from what has changed.                               *)

\* As much of the types as the moves need.
Typed ==
    /\ \A t \in Tasks : /\ task[t].status \in TaskStatus /\ task[t].attempt \in Nat
                        /\ task[t].file \in Files \cup {NoFile}
    /\ \A f \in Files : Status(f) \in FileStatus
    /\ \A w \in Workers : worker[w].pc # "idle" =>
          worker[w].task \in Tasks /\ worker[w].attempt \in Nat
    /\ \A r \in Reconcilers : reconciler[r].todo \subseteq Item /\ InHandOf(r) \in Item \cup {NoItem}
    /\ NoFile \notin Files

LEMMA TypedRows == CoreTypeOK => Typed
<1> SUFFICES ASSUME CoreTypeOK PROVE Typed
    OBVIOUS
<1>1. \A t \in Tasks : /\ task[t].status \in TaskStatus /\ task[t].attempt \in Nat
                       /\ task[t].file \in Files \cup {NoFile}
    BY DEF CoreTypeOK, TaskRow
<1>2. \A f \in Files : Status(f) \in FileStatus
    BY DEF CoreTypeOK, FileRow, Status
<1>3. \A w \in Workers : worker[w].pc # "idle" => worker[w].task \in Tasks /\ worker[w].attempt \in Nat
    BY DEF CoreTypeOK, Busy, Idle
<1>4. \A r \in Reconcilers : reconciler[r].todo \subseteq Item /\ InHandOf(r) \in Item \cup {NoItem}
    BY DEF CoreTypeOK, ReconcilerState, InHandOf
<1> QED BY <1>1, <1>2, <1>3, <1>4, IngestionAssumption DEF Typed

\* An item is about a task, or it is an orphan.
LEMMA ItemTyped ==
    ASSUME NEW i \in Item
    PROVE  /\ i.kind # "none" /\ i # NoItem
           /\ i.file \in Files \cup {NoFile}
           /\ i.kind # "orphan" => i.task \in Tasks /\ i.attempt \in Nat
           /\ i.kind = "orphan" => i.file \in Files
BY DEF Item, NoItem

LEMMA FileMove ==
    ASSUME Move, NEW g \in Files
    PROVE  \/ file'[g].status = Status(g)
           \/ \E t \in Tasks : MoveUpload(t, g) \/ MoveReplay(t, g)
           \/ MoveRemove(g)
           \/ \E w \in Workers :
                 FileOf(w) = g /\ (MoveLoad(w) \/ MoveIndex(w) \/ MoveCleanUp(w))
           \/ \E r \in Reconcilers :
                 InHandOf(r).file = g /\ (MoveReset(r) \/ MoveFailPair(r) \/ MoveFailUnowned(r))
<1> USE DEF FileBecomes, OtherFiles, SameFiles
<1>1. CASE MoveNothing
    BY <1>1 DEF MoveNothing
<1>2. ASSUME NEW t \in Tasks, NEW f \in Files, MoveUpload(t, f) \/ MoveReplay(t, f)
      PROVE  file'[g].status = Status(g) \/ f = g
    BY <1>2 DEF MoveUpload, MoveReplay
<1>3. ASSUME NEW t \in Tasks, NEW f \in Files, MoveDuplicate(t, f) PROVE file'[g].status = Status(g)
    BY <1>3 DEF MoveDuplicate
<1>4. ASSUME NEW f \in Files, MoveRemove(f) PROVE file'[g].status = Status(g) \/ f = g
    BY <1>4 DEF MoveRemove
<1>5. ASSUME NEW w \in Workers, MoveOn(w) \/ MoveSettle(w) \/ \E t \in Tasks : MoveClaim(w, t)
      PROVE  file'[g].status = Status(g)
    BY <1>5 DEF MoveOn, MoveSettle, MoveClaim
<1>6. ASSUME NEW w \in Workers, MoveLoad(w) \/ MoveIndex(w) \/ MoveCleanUp(w)
      PROVE  file'[g].status = Status(g) \/ FileOf(w) = g
    BY <1>6 DEF MoveLoad, MoveIndex, MoveCleanUp
<1>7. ASSUME NEW r \in Reconcilers, MoveRepair(r) \/ MoveScan(r) \/ MovePick(r)
                                    \/ \E t \in Tasks, f \in Files : MoveAdopt(r, t, f)
      PROVE  file'[g].status = Status(g)
    BY <1>7 DEF MoveRepair, MoveScan, MovePick, MoveAdopt
<1>8. ASSUME NEW r \in Reconcilers, MoveReset(r) \/ MoveFailPair(r) \/ MoveFailUnowned(r)
      PROVE  file'[g].status = Status(g) \/ InHandOf(r).file = g
    BY <1>8 DEF MoveReset, MoveFailPair, MoveFailUnowned
<1> QED BY <1>1, <1>2, <1>3, <1>4, <1>5, <1>6, <1>7, <1>8 DEF Move

LEMMA TaskMove ==
    ASSUME Typed, Move, NEW t \in Tasks
    PROVE  \/ SameTask(t)
           \/ \E f \in Files : MoveUpload(t, f) \/ MoveDuplicate(t, f) \/ MoveReplay(t, f)
           \/ \E f \in Files : MoveRemove(f) /\ task[t].file = f
           \/ \E w \in Workers : MoveClaim(w, t) \/ (MoveSettle(w) /\ worker[w].task = t)
           \/ \E r \in Reconcilers :
                 \/ \E f \in Files : MoveAdopt(r, t, f)
                 \/ InHandOf(r).task = t /\ (MoveRepair(r) \/ MoveReset(r) \/ MoveFailPair(r))
<1> USE DEF Becomes, OtherTasks, SameTasks
<1>1. CASE MoveNothing
    BY <1>1 DEF MoveNothing
<1>2. ASSUME NEW u \in Tasks, NEW f \in Files,
             MoveUpload(u, f) \/ MoveDuplicate(u, f) \/ MoveReplay(u, f)
                \/ \E r \in Reconcilers : MoveAdopt(r, u, f)
      PROVE  SameTask(t) \/ u = t
    BY <1>2 DEF MoveUpload, MoveDuplicate, MoveReplay, MoveAdopt, MoveCreate
<1>3. ASSUME NEW f \in Files, MoveRemove(f) PROVE SameTask(t) \/ task[t].file = f
    BY <1>3 DEF MoveRemove, SameTask
<1>4. ASSUME NEW w \in Workers, MoveOn(w) \/ MoveLoad(w) \/ MoveIndex(w) \/ MoveCleanUp(w)
      PROVE  SameTask(t)
    BY <1>4 DEF MoveOn, MoveLoad, MoveIndex, MoveCleanUp
<1>5. ASSUME NEW w \in Workers, NEW u \in Tasks, MoveClaim(w, u) PROVE SameTask(t) \/ u = t
    BY <1>5 DEF MoveClaim
<1>6. ASSUME NEW w \in Workers, MoveSettle(w) PROVE SameTask(t) \/ worker[w].task = t
    BY <1>6 DEF MoveSettle
<1>7. ASSUME NEW r \in Reconcilers, MoveScan(r) \/ MovePick(r) \/ MoveFailUnowned(r)
      PROVE  SameTask(t)
    BY <1>7 DEF MoveScan, MovePick, MoveFailUnowned
<1>8. ASSUME NEW r \in Reconcilers, MoveRepair(r) \/ MoveReset(r) \/ MoveFailPair(r)
      PROVE  SameTask(t) \/ InHandOf(r).task = t
    BY <1>8 DEF MoveRepair, MoveReset, MoveFailPair
<1> QED BY <1>1, <1>2, <1>3, <1>4, <1>5, <1>6, <1>7, <1>8 DEF Move

LEMMA WorkerMove ==
    ASSUME Move, NEW w \in Workers
    PROVE  \/ worker'[w] = worker[w]
           \/ \E t \in Tasks : MoveClaim(w, t)
           \/ MoveOn(w) \/ MoveLoad(w) \/ MoveIndex(w) \/ MoveCleanUp(w) \/ MoveSettle(w)
<1> USE DEF SameWorkers, OtherWorkers, GoesTo, Leaves, MoveCreate
<1>1. CASE MoveNothing
    BY <1>1 DEF MoveNothing
<1>2. ASSUME NEW t \in Tasks, NEW f \in Files,
             MoveUpload(t, f) \/ MoveDuplicate(t, f) \/ MoveReplay(t, f) \/ MoveRemove(f)
      PROVE  worker'[w] = worker[w]
    BY <1>2 DEF MoveUpload, MoveDuplicate, MoveReplay, MoveRemove
<1>3. ASSUME NEW f \in Files, MoveRemove(f) PROVE worker'[w] = worker[w]
    BY <1>3 DEF MoveRemove
<1>4. ASSUME NEW v \in Workers, \E t \in Tasks : MoveClaim(v, t)
      PROVE  worker'[w] = worker[w] \/ v = w
    BY <1>4 DEF MoveClaim
<1>5. ASSUME NEW v \in Workers, MoveOn(v) \/ MoveLoad(v) \/ MoveIndex(v) \/ MoveCleanUp(v) \/ MoveSettle(v)
      PROVE  worker'[w] = worker[w] \/ v = w
    BY <1>5 DEF MoveOn, MoveLoad, MoveIndex, MoveCleanUp, MoveSettle
<1>6. ASSUME NEW r \in Reconcilers, MoveRepair(r) \/ MoveReset(r) \/ MoveFailPair(r)
                                    \/ MoveFailUnowned(r) \/ MoveScan(r) \/ MovePick(r)
                                    \/ \E t \in Tasks, f \in Files : MoveAdopt(r, t, f)
      PROVE  worker'[w] = worker[w]
    BY <1>6 DEF MoveRepair, MoveReset, MoveFailPair, MoveFailUnowned, MoveScan, MovePick, MoveAdopt
<1> QED BY <1>1, <1>2, <1>3, <1>4, <1>5, <1>6 DEF Move

LEMMA ItemMove ==
    ASSUME Move, NEW r \in Reconcilers
    PROVE  \/ reconciler'[r].todo \subseteq reconciler[r].todo /\ InHandOf(r)' \in {InHandOf(r), NoItem}
           \/ MoveScan(r) \/ MovePick(r)
<1> USE DEF NothingRead, Finishes, MoveCreate
<1>1. CASE MoveNothing
    BY <1>1 DEF MoveNothing
<1>2. ASSUME NEW t \in Tasks, NEW f \in Files,
             MoveUpload(t, f) \/ MoveDuplicate(t, f) \/ MoveReplay(t, f)
      PROVE  NothingRead
    BY <1>2 DEF MoveUpload, MoveDuplicate, MoveReplay
<1>3. ASSUME NEW f \in Files, MoveRemove(f) PROVE NothingRead
    BY <1>3 DEF MoveRemove
<1>4. ASSUME NEW v \in Workers, MoveOn(v) \/ MoveLoad(v) \/ MoveIndex(v) \/ MoveCleanUp(v)
                                \/ MoveSettle(v) \/ \E t \in Tasks : MoveClaim(v, t)
      PROVE  NothingRead
    BY <1>4 DEF MoveOn, MoveLoad, MoveIndex, MoveCleanUp, MoveSettle, MoveClaim
<1>5. ASSUME NEW q \in Reconcilers, MoveRepair(q) \/ MoveReset(q) \/ MoveFailPair(q)
                                    \/ MoveFailUnowned(q) \/ \E t \in Tasks, f \in Files : MoveAdopt(q, t, f)
      PROVE  NothingRead
    BY <1>5 DEF MoveRepair, MoveReset, MoveFailPair, MoveFailUnowned, MoveAdopt
<1>6. ASSUME NEW q \in Reconcilers, MoveScan(q) \/ MovePick(q)
      PROVE  q = r \/ reconciler'[r] = reconciler[r]
    BY <1>6 DEF MoveScan, MovePick, OtherReconcilers
<1> QED BY <1>1, <1>2, <1>3, <1>4, <1>5, <1>6 DEF Move, InHandOf

\* Nothing forgets that it was there, or that it was removed.
LEMMA RowsStay ==
    ASSUME Typed, Move
    PROVE  /\ \A f \in Files : /\ Status(f) # "NONE" => file'[f].status # "NONE"
                               /\ Status(f) = "REMOVED" => file'[f].status = "REMOVED"
           /\ \A t \in Tasks : task[t].status # "NONE" =>
                 /\ task'[t].status # "NONE" /\ task'[t].attempt >= task[t].attempt
                 /\ \/ task'[t].file = task[t].file
                    \/ /\ task'[t].file = NoFile
                       /\ task[t].file \in Files => file'[task[t].file].status = "REMOVED"
<1>1. ASSUME NEW f \in Files
      PROVE  /\ Status(f) # "NONE" => file'[f].status # "NONE"
             /\ Status(f) = "REMOVED" => file'[f].status = "REMOVED"
    <2>1. ASSUME NEW t \in Tasks, MoveUpload(t, f) \/ MoveReplay(t, f)
          PROVE  Status(f) \in {"NONE", "FAILED"} /\ file'[f].status = "UPLOADED"
        BY <2>1 DEF MoveUpload, MoveReplay, FileBecomes
    <2>2. MoveRemove(f) => file'[f].status = "REMOVED"
        BY DEF MoveRemove, FileBecomes
    <2>3. ASSUME NEW w \in Workers, FileOf(w) = f, MoveLoad(w) \/ MoveIndex(w) \/ MoveCleanUp(w)
          PROVE  \/ file'[f].status = Status(f)
                 \/ /\ file'[f].status \in {"PARSING", "READY", "FAILED"}
                    /\ Status(f) \in {"UPLOADED", "PARSING", "READY"}
        BY <2>3 DEF MoveLoad, MoveIndex, MoveCleanUp, FileIs, FileBecomes, SameFiles, Status
    <2>4. ASSUME NEW r \in Reconcilers, InHandOf(r).file = f,
                 MoveReset(r) \/ MoveFailPair(r) \/ MoveFailUnowned(r)
          PROVE  /\ file'[f].status \in {"UPLOADED", "FAILED"}
                 /\ Status(f) \in {"UPLOADED", "PARSING"}
        BY <2>4 DEF MoveReset, MoveFailPair, MoveFailUnowned, FileIs, FileBecomes, Status
    <2> QED BY FileMove, <2>1, <2>2, <2>3, <2>4
<1>2. ASSUME NEW t \in Tasks, task[t].status # "NONE"
      PROVE  /\ task'[t].status # "NONE" /\ task'[t].attempt >= task[t].attempt
             /\ \/ task'[t].file = task[t].file
                \/ /\ task'[t].file = NoFile
                   /\ task[t].file \in Files => file'[task[t].file].status = "REMOVED"
    <2>0. task[t].attempt \in Nat /\ task[t].attempt >= task[t].attempt /\ task[t].attempt + 1 >= task[t].attempt
        BY DEF Typed
    <2>1. CASE SameTask(t)
        BY <1>2, <2>0, <2>1 DEF SameTask
    <2>2. ASSUME NEW f \in Files, MoveUpload(t, f) \/ MoveDuplicate(t, f) PROVE FALSE
        BY <1>2, <2>2 DEF MoveUpload, MoveDuplicate, MoveCreate
    <2>3. ASSUME NEW f \in Files, MoveReplay(t, f)
          PROVE  task'[t].status = "PENDING" /\ task'[t].file = task[t].file /\ task'[t].attempt = task[t].attempt
        BY <2>3 DEF MoveReplay, Becomes
    <2>4. ASSUME NEW f \in Files, MoveRemove(f), task[t].file = f
          PROVE  /\ task'[t].status = task[t].status /\ task'[t].file = NoFile
                 /\ task'[t].attempt = task[t].attempt
                 /\ file'[task[t].file].status = "REMOVED"
        BY <2>4 DEF MoveRemove, FileBecomes
    <2>5. ASSUME NEW w \in Workers, MoveClaim(w, t)
          PROVE  task'[t].status = "PROCESSING" /\ task'[t].file = task[t].file /\ task'[t].attempt = task[t].attempt + 1
        BY <2>5 DEF MoveClaim
    <2>6. ASSUME NEW w \in Workers, MoveSettle(w), worker[w].task = t
          PROVE  /\ task'[t].status \in {"COMPLETED", "FAILED"} /\ task'[t].file = task[t].file
                 /\ task'[t].attempt = task[t].attempt
        BY <2>6 DEF MoveSettle, Becomes
    <2>7. ASSUME NEW r \in Reconcilers, NEW f \in Files, MoveAdopt(r, t, f) PROVE FALSE
        BY <1>2, <2>7 DEF MoveAdopt, MoveCreate
    <2>8. ASSUME NEW r \in Reconcilers, InHandOf(r).task = t,
                 MoveRepair(r) \/ MoveReset(r) \/ MoveFailPair(r)
          PROVE  /\ task'[t].status \in {"PENDING", "COMPLETED", "FAILED"} /\ task'[t].file = task[t].file
                 /\ task'[t].attempt = task[t].attempt
        BY <2>8 DEF MoveRepair, MoveReset, MoveFailPair, Becomes
    <2> QED BY TaskMove, <1>2, <2>0, <2>1, <2>2, <2>3, <2>4, <2>5, <2>6, <2>7, <2>8
<1> QED BY <1>1, <1>2

-----------------------------------------------------------------------------
(* Tasks and their files.                                                   *)

\* One ingestion of a file at a time, and no task of a file that is not there.
OneActiveTask ==
    \A t, u \in Tasks :
        ActiveTask(t) /\ ActiveTask(u) /\ task[t].file # NoFile /\ task[t].file = task[u].file
            => t = u
FilesThere ==
    \A t \in Tasks : task[t].file # NoFile => Status(task[t].file) \notin {"NONE", "REMOVED"}

\* What a scan has read of a task stays true of its file, unless that is removed.
ItemLinked(i) ==
    IF i.kind = "orphan"
    THEN file[i.file].status # "NONE"
    ELSE /\ task[i.task].status # "NONE"
         /\ task[i.task].file \in {i.file, NoFile}
         /\ i.file # NoFile => file[i.file].status # "NONE"
         /\ i.file # NoFile /\ task[i.task].file = NoFile => file[i.file].status = "REMOVED"

Items(r) == reconciler[r].todo \cup ({InHandOf(r)} \ {NoItem})
ItemsLinked == \A r \in Reconcilers : \A i \in Items(r) : ItemLinked(i)

\* An attempt belongs to one worker, and the row is never behind it.
ClaimsDiffer ==
    /\ \A w \in Workers : worker[w].pc # "idle" =>
          /\ task[worker[w].task].status # "NONE"
          /\ worker[w].attempt <= task[worker[w].task].attempt
    /\ \A v, w \in Workers :
          v # w /\ worker[v].pc # "idle" /\ worker[w].pc # "idle" /\ worker[v].task = worker[w].task
              => worker[v].attempt # worker[w].attempt

TasksLinked == OneActiveTask /\ FilesThere
Linked == Typed /\ TasksLinked /\ ItemsLinked /\ ClaimsDiffer

\* A task of a reconciler's item that was not removed is still linked to the item's file.
LEMMA ItemOfFile ==
    ASSUME Linked, NEW r \in Reconcilers, InHandOf(r) # NoItem, InHandOf(r).kind # "orphan"
    PROVE  /\ InHandOf(r) \in Item /\ InHandOf(r).task \in Tasks
           /\ InHandOf(r).file \in Files \cup {NoFile}
           /\ task[InHandOf(r).task].file \in {InHandOf(r).file, NoFile}
           /\ InHandOf(r).file # NoFile /\ Status(InHandOf(r).file) # "REMOVED" =>
                 task[InHandOf(r).task].file = InHandOf(r).file
<1>1. InHandOf(r) \in Item /\ InHandOf(r) \in Items(r)
    BY DEF Linked, Typed, Items
<1>2. ItemLinked(InHandOf(r))
    BY <1>1 DEF Linked, ItemsLinked
<1> QED BY <1>1, <1>2, ItemTyped DEF ItemLinked, Status

\* An orphan in hand is a file.
LEMMA OrphanIsFile ==
    ASSUME Linked, NEW r \in Reconcilers, InHandOf(r) # NoItem, InHandOf(r).kind = "orphan"
    PROVE  InHandOf(r).file \in Files /\ Status(InHandOf(r).file) # "NONE"
<1>1. InHandOf(r) \in Item /\ InHandOf(r) \in Items(r)
    BY DEF Linked, Typed, Items
<1>2. ItemLinked(InHandOf(r))
    BY <1>1 DEF Linked, ItemsLinked
<1> QED BY <1>1, <1>2, ItemTyped DEF ItemLinked, Status

LEMMA FilesThereStep ==
    ASSUME Linked, Typed', Move
    PROVE  FilesThere'
<1> SUFFICES ASSUME NEW t \in Tasks, task'[t].file # NoFile
             PROVE  file'[task'[t].file].status \notin {"NONE", "REMOVED"}
    BY DEF FilesThere, Status
<1> DEFINE g == task'[t].file
<1>1. g \in Files
    BY DEF Typed
<1>2. ASSUME Status(g) \notin {"NONE", "REMOVED"} PROVE MoveRemove(g) \/ file'[g].status \notin {"NONE", "REMOVED"}
    <2>1. file'[g].status # "NONE"
        BY <1>1, <1>2, RowsStay DEF Linked
    <2>2. ASSUME NEW u \in Tasks, MoveUpload(u, g) \/ MoveReplay(u, g) PROVE file'[g].status # "REMOVED"
        BY <2>2 DEF MoveUpload, MoveReplay, FileBecomes
    <2>3. ASSUME NEW w \in Workers, FileOf(w) = g, MoveLoad(w) \/ MoveIndex(w) \/ MoveCleanUp(w)
          PROVE  file'[g].status # "REMOVED"
        BY <1>1, <1>2, <2>3 DEF MoveLoad, MoveIndex, MoveCleanUp, FileBecomes, SameFiles
    <2>4. ASSUME NEW r \in Reconcilers, InHandOf(r).file = g,
                 MoveReset(r) \/ MoveFailPair(r) \/ MoveFailUnowned(r)
          PROVE  file'[g].status # "REMOVED"
        BY <2>4 DEF MoveReset, MoveFailPair, MoveFailUnowned, FileBecomes
    <2> QED BY <1>1, <1>2, <2>1, <2>2, <2>3, <2>4, FileMove
<1>3. CASE task'[t].file = task[t].file
    <2>1. Status(g) \notin {"NONE", "REMOVED"}
        BY <1>3 DEF Linked, TasksLinked, FilesThere
    <2>2. ~MoveRemove(g)
        BY <1>1, <1>3 DEF MoveRemove, Linked, Typed
    <2> QED BY <1>2, <2>1, <2>2
<1>4. ASSUME NEW f \in Files, MoveUpload(t, f)
      PROVE  file'[g].status \notin {"NONE", "REMOVED"}
    BY <1>4 DEF MoveUpload, MoveCreate, FileBecomes
<1>5. ASSUME NEW f \in Files, MoveDuplicate(t, f)
      PROVE  file'[g].status \notin {"NONE", "REMOVED"}
    BY <1>5 DEF MoveDuplicate, MoveCreate, SameFiles
<1>6. ASSUME NEW r \in Reconcilers, NEW f \in Files, MoveAdopt(r, t, f)
      PROVE  file'[g].status \notin {"NONE", "REMOVED"}
    <2>1. Status(f) \notin {"NONE", "REMOVED"} /\ g = f /\ SameFiles
        BY <1>6, OrphanIsFile DEF MoveAdopt, MoveCreate
    <2> QED BY <2>1 DEF SameFiles
<1>7. ASSUME NEW f \in Files, MoveRemove(f), task[t].file = f PROVE FALSE
    BY <1>7 DEF MoveRemove
<1>8. ASSUME SameTask(t) \/ (\E f \in Files : MoveReplay(t, f))
             \/ (\E w \in Workers : MoveClaim(w, t) \/ (MoveSettle(w) /\ worker[w].task = t))
             \/ (\E r \in Reconcilers : InHandOf(r).task = t /\ (MoveRepair(r) \/ MoveReset(r) \/ MoveFailPair(r)))
      PROVE  task'[t].file = task[t].file
    BY <1>8 DEF SameTask, MoveReplay, MoveClaim, MoveSettle, MoveRepair, MoveReset, MoveFailPair, Becomes
<1> QED BY <1>3, <1>4, <1>5, <1>6, <1>7, <1>8, TaskMove DEF Linked

\* A task becomes active only where no other task of its file is.
LEMMA ActiveMove ==
    ASSUME Linked, Move, NEW t \in Tasks, ActiveTask(t)'
    PROVE  \/ ActiveTask(t) /\ task'[t].file \in {task[t].file, NoFile}
           \/ /\ \A u \in Tasks : ActiveTask(u) => task[u].file # task'[t].file
              /\ \A u \in Tasks : u # t => SameTask(u)
<1>1. ASSUME NEW f \in Files, MoveUpload(t, f)
      PROVE  /\ \A u \in Tasks : ActiveTask(u) => task[u].file # task'[t].file
             /\ \A u \in Tasks : u # t => SameTask(u)
    <2>1. Status(f) = "NONE" /\ task'[t].file = f /\ OtherTasks(t)
        BY <1>1 DEF MoveUpload, MoveCreate
    <2> QED BY <2>1 DEF OtherTasks, Linked, TasksLinked, FilesThere, Typed
<1>2. ASSUME NEW f \in Files, MoveDuplicate(t, f) PROVE FALSE
    BY <1>2 DEF MoveDuplicate, MoveCreate, ActiveTask
<1>3. ASSUME NEW f \in Files, MoveReplay(t, f) \/ \E r \in Reconcilers : MoveAdopt(r, t, f)
      PROVE  /\ \A u \in Tasks : ActiveTask(u) => task[u].file # task'[t].file
             /\ \A u \in Tasks : u # t => SameTask(u)
    <2>1. ~HasActiveTask(f) /\ task'[t].file = f /\ OtherTasks(t)
        BY <1>3 DEF MoveReplay, MoveAdopt, MoveCreate, Becomes
    <2> QED BY <2>1 DEF OtherTasks, HasActiveTask
<1>4. SameTask(t) => ActiveTask(t) /\ task'[t].file = task[t].file
    BY DEF SameTask, ActiveTask
<1>5. ASSUME NEW f \in Files, MoveRemove(f), task[t].file = f
      PROVE  ActiveTask(t) /\ task'[t].file = NoFile
    BY <1>5 DEF MoveRemove, ActiveTask
<1>6. ASSUME NEW w \in Workers, MoveClaim(w, t) PROVE ActiveTask(t) /\ task'[t].file = task[t].file
    BY <1>6 DEF MoveClaim, ActiveTask
<1>7. ASSUME NEW w \in Workers, MoveSettle(w), worker[w].task = t PROVE FALSE
    BY <1>7 DEF MoveSettle, Becomes, ActiveTask
<1>8. ASSUME NEW r \in Reconcilers, InHandOf(r).task = t,
             MoveRepair(r) \/ MoveReset(r) \/ MoveFailPair(r)
      PROVE  ActiveTask(t) /\ task'[t].file = task[t].file
    BY <1>8 DEF MoveRepair, MoveReset, MoveFailPair, TaskInHand, Becomes, ActiveTask
<1> QED BY <1>1, <1>2, <1>3, <1>4, <1>5, <1>6, <1>7, <1>8, TaskMove DEF Linked

LEMMA OneActiveTaskStep ==
    ASSUME Linked, Typed', Move
    PROVE  OneActiveTask'
<1> SUFFICES ASSUME NEW t \in Tasks, NEW u \in Tasks, ActiveTask(t)', ActiveTask(u)',
                    task'[t].file # NoFile, task'[t].file = task'[u].file
             PROVE  t = u
    BY DEF OneActiveTask
<1>1. CASE /\ ActiveTask(t) /\ task'[t].file \in {task[t].file, NoFile}
           /\ ActiveTask(u) /\ task'[u].file \in {task[u].file, NoFile}
    BY <1>1 DEF Linked, TasksLinked, OneActiveTask
<1>2. ASSUME NEW x \in Tasks, NEW y \in Tasks, x # y, ActiveTask(y)', task'[x].file = task'[y].file,
             \A z \in Tasks : ActiveTask(z) => task[z].file # task'[x].file,
             \A z \in Tasks : z # x => SameTask(z)
      PROVE  FALSE
    BY <1>2 DEF SameTask, ActiveTask
<1> QED BY <1>1, <1>2, ActiveMove

LEMMA ItemsLinkedStep ==
    ASSUME Linked, Typed', Move
    PROVE  ItemsLinked'
<1> SUFFICES ASSUME NEW r \in Reconcilers, NEW i \in Items(r)' PROVE ItemLinked(i)'
    BY DEF ItemsLinked
<1>0. i \in Item
    BY DEF Items, Typed
<1>1. ASSUME ItemLinked(i) PROVE ItemLinked(i)'
    <2>1. CASE i.kind = "orphan"
        BY <1>0, <1>1, <2>1, ItemTyped, RowsStay DEF ItemLinked, Linked, Status
    <2>2. CASE i.kind # "orphan"
        <3>1. i.task \in Tasks /\ i.file \in Files \cup {NoFile}
            BY <1>0, <2>2, ItemTyped
        <3>2. /\ task[i.task].status # "NONE" /\ task[i.task].file \in {i.file, NoFile}
              /\ i.file # NoFile => Status(i.file) # "NONE"
              /\ i.file # NoFile /\ task[i.task].file = NoFile => Status(i.file) = "REMOVED"
            BY <1>1, <2>2 DEF ItemLinked, Status
        <3>3. /\ task'[i.task].status # "NONE"
              /\ \/ task'[i.task].file = task[i.task].file
                 \/ /\ task'[i.task].file = NoFile
                    /\ task[i.task].file \in Files => file'[task[i.task].file].status = "REMOVED"
            BY <3>1, <3>2, RowsStay DEF Linked
        <3>4. i.file # NoFile => /\ file'[i.file].status # "NONE"
                                 /\ Status(i.file) = "REMOVED" => file'[i.file].status = "REMOVED"
            BY <3>1, <3>2, RowsStay DEF Linked
        <3> QED BY <2>2, <3>1, <3>2, <3>3, <3>4 DEF ItemLinked
    <2> QED BY <2>1, <2>2
<1>2. CASE reconciler'[r].todo \subseteq reconciler[r].todo /\ InHandOf(r)' \in {InHandOf(r), NoItem}
    BY <1>1, <1>2 DEF Items, Linked, ItemsLinked
<1>3. CASE MoveScan(r)
    <2>1. i \in StaleItems \cup GapItems \cup OrphanItems /\ SameTasks /\ SameFiles
        BY <1>3 DEF MoveScan, Items
    <2>2. CASE i \in OrphanItems
        <3>1. PICK f \in Files : Status(f) = "UPLOADED" /\ i.file = f /\ i.kind = "orphan"
            BY <2>2 DEF OrphanItems, Status
        <3> QED BY <1>1, <3>1 DEF ItemLinked, Status
    <2>3. CASE i \in StaleItems \cup GapItems
        <3>1. PICK t \in Tasks : /\ ActiveTask(t)
                                 /\ i.kind # "orphan" /\ i.task = t /\ i.file = task[t].file
            BY <2>3 DEF StaleItems, GapItems, ActiveTask
        <3>2. i.file # NoFile => Status(i.file) # "NONE"
            BY <3>1 DEF Linked, TasksLinked, FilesThere
        <3> QED BY <1>1, <3>1, <3>2 DEF ItemLinked, Status, ActiveTask
    <2> QED BY <2>1, <2>2, <2>3
<1>4. CASE MovePick(r)
    <2>1. PICK j \in reconciler[r].todo :
             /\ reconciler'[r].todo = reconciler[r].todo \ {j}
             /\ InHandOf(r)'.kind = j.kind /\ InHandOf(r)'.task = j.task
             /\ InHandOf(r)'.file = j.file
        BY <1>4 DEF MovePick
    <2>2. CASE i \in reconciler[r].todo
        BY <1>1, <2>2 DEF Items, Linked, ItemsLinked
    <2>3. CASE i = InHandOf(r)'
        <3>1. ItemLinked(j)
            BY DEF Items, Linked, ItemsLinked
        <3>2. i.kind = j.kind /\ i.task = j.task /\ i.file = j.file
            BY <2>1, <2>3
        <3> QED BY <1>1, <3>1, <3>2 DEF ItemLinked
    <2> QED BY <2>1, <2>2, <2>3 DEF Items
<1> QED BY <1>2, <1>3, <1>4, ItemMove

LEMMA ClaimsDifferStep ==
    ASSUME Linked, Typed', Move
    PROVE  ClaimsDiffer'
<1>1. ASSUME NEW w \in Workers, worker'[w].pc # "idle", ~\E t \in Tasks : MoveClaim(w, t)
      PROVE  /\ worker[w].pc # "idle"
             /\ worker'[w].task = worker[w].task /\ worker'[w].attempt = worker[w].attempt
    <2>1. CASE worker'[w] = worker[w]
        BY <1>1, <2>1
    <2>2. CASE MoveOn(w) \/ MoveLoad(w) \/ MoveIndex(w) \/ MoveCleanUp(w) \/ MoveSettle(w)
        BY <1>1, <2>2 DEF MoveOn, MoveLoad, MoveIndex, MoveCleanUp, MoveSettle, GoesTo, Leaves
    <2> QED BY <1>1, <2>1, <2>2, WorkerMove
<1>2. ASSUME NEW w \in Workers, NEW t \in Tasks, MoveClaim(w, t)
      PROVE  /\ worker'[w].task = t /\ worker'[w].attempt = task[t].attempt + 1
             /\ task'[t].status = "PROCESSING" /\ task'[t].attempt = task[t].attempt + 1
             /\ \A v \in Workers : v # w => worker'[v] = worker[v]
             /\ task[t].attempt \in Nat
    BY <1>2 DEF MoveClaim, OtherWorkers, Linked, Typed
<1>3. ASSUME NEW w \in Workers, worker'[w].pc # "idle"
      PROVE  /\ task'[worker'[w].task].status # "NONE"
             /\ worker'[w].attempt <= task'[worker'[w].task].attempt
    <2>1. CASE \E t \in Tasks : MoveClaim(w, t)
        BY <1>2, <2>1
    <2>2. CASE ~\E t \in Tasks : MoveClaim(w, t)
        <3> DEFINE t == worker[w].task
        <3>1. /\ worker[w].pc # "idle" /\ worker'[w].task = t /\ worker'[w].attempt = worker[w].attempt
              /\ t \in Tasks /\ worker[w].attempt \in Nat /\ task[t].attempt \in Nat
            BY <1>1, <1>3, <2>2 DEF Linked, Typed
        <3>2. task[t].status # "NONE" /\ worker[w].attempt <= task[t].attempt
            BY <3>1 DEF Linked, ClaimsDiffer
        <3>3. task'[t].status # "NONE" /\ task'[t].attempt >= task[t].attempt /\ task'[t].attempt \in Nat
            BY <3>1, <3>2, RowsStay DEF Linked, Typed
        <3> QED BY <3>1, <3>2, <3>3
    <2> QED BY <2>1, <2>2
<1>4. ASSUME NEW v \in Workers, NEW w \in Workers, NEW t \in Tasks, v # w, MoveClaim(w, t),
             worker'[v].pc # "idle", worker'[v].task = worker'[w].task
      PROVE  worker'[v].attempt # worker'[w].attempt
    <2>1. worker'[v] = worker[v] /\ worker'[w].attempt = task[t].attempt + 1 /\ worker[v].task = t
        BY <1>2, <1>4
    <2>2. worker[v].attempt <= task[t].attempt /\ worker[v].attempt \in Nat /\ task[t].attempt \in Nat
        BY <1>4, <2>1 DEF Linked, Typed, ClaimsDiffer
    <2> QED BY <2>1, <2>2
<1>5. ASSUME NEW v \in Workers, NEW w \in Workers, v # w,
             worker'[v].pc # "idle", worker'[w].pc # "idle", worker'[v].task = worker'[w].task
      PROVE  worker'[v].attempt # worker'[w].attempt
    <2>1. CASE (\E t \in Tasks : MoveClaim(w, t)) \/ (\E t \in Tasks : MoveClaim(v, t))
        BY <1>4, <1>5, <2>1
    <2>2. CASE ~(\E t \in Tasks : MoveClaim(w, t)) /\ ~(\E t \in Tasks : MoveClaim(v, t))
        <3>1. /\ worker[v].pc # "idle" /\ worker[w].pc # "idle" /\ worker[v].task = worker[w].task
              /\ worker'[v].attempt = worker[v].attempt /\ worker'[w].attempt = worker[w].attempt
            BY <1>1, <1>5, <2>2
        <3> QED BY <1>5, <3>1 DEF Linked, ClaimsDiffer
    <2> QED BY <2>1, <2>2
<1> QED BY <1>3, <1>5 DEF ClaimsDiffer

LEMMA LinkedStep ==
    ASSUME Linked, Typed', Move
    PROVE  Linked'
BY FilesThereStep, OneActiveTaskStep, ItemsLinkedStep, ClaimsDifferStep DEF Linked, TasksLinked

-----------------------------------------------------------------------------
(* The holder of a file's current attempt.                                  *)

\* The worker holds the current attempt of a task whose file is there.
Holds(w) == worker[w].pc # "idle" /\ Mine(w) /\ FileOf(w) # NoFile
HoldsWith(pcs, status) ==
    \A w \in Workers : Holds(w) /\ worker[w].pc \in pcs => Status(FileOf(w)) = status

LEMMA HolderTyped ==
    ASSUME Linked, NEW w \in Workers, Holds(w)
    PROVE  /\ worker[w].task \in Tasks /\ FileOf(w) \in Files
           /\ task[worker[w].task].status = "PROCESSING"
           /\ task[worker[w].task].attempt = worker[w].attempt
           /\ ActiveTask(worker[w].task)
BY DEF Holds, Mine, Current, FileOf, ActiveTask, Linked, Typed

LEMMA OneHolder ==
    ASSUME Linked, NEW v \in Workers, NEW w \in Workers, Holds(v), Holds(w), FileOf(v) = FileOf(w)
    PROVE  v = w
<1>1. worker[v].task = worker[w].task
    BY HolderTyped DEF Linked, TasksLinked, OneActiveTask, FileOf, Holds
<1> QED BY <1>1, HolderTyped DEF Linked, ClaimsDiffer, Holds

\* What a worker writes, it writes as the holder.
LEMMA WriterHolds ==
    ASSUME Linked, NEW w \in Workers,
           \/ MoveLoad(w) \/ MoveIndex(w)
           \/ MoveCleanUp(w) /\ FileIs(FileOf(w), {"UPLOADED", "PARSING", "READY"})
    PROVE  Holds(w)
BY DEF MoveLoad, MoveIndex, MoveCleanUp, FileIs, Holds, Linked, Typed

\* A task at work stays with its attempt until it leaves PROCESSING.
LEMMA ProcessingStays ==
    ASSUME Linked, Move, NEW t \in Tasks, task[t].status # "NONE", task'[t].status = "PROCESSING",
           ~\E w \in Workers : MoveClaim(w, t)
    PROVE  task[t].status = "PROCESSING" /\ task'[t].attempt = task[t].attempt
<1>1. ASSUME NEW f \in Files, MoveUpload(t, f) \/ MoveDuplicate(t, f) \/ MoveReplay(t, f)
                              \/ \E r \in Reconcilers : MoveAdopt(r, t, f)
      PROVE  task'[t].status # "PROCESSING"
    BY <1>1 DEF MoveUpload, MoveDuplicate, MoveReplay, MoveAdopt, MoveCreate, Becomes
<1>2. ASSUME NEW f \in Files, MoveRemove(f)
      PROVE  task'[t].status = task[t].status /\ task'[t].attempt = task[t].attempt
    BY <1>2 DEF MoveRemove
<1>3. ASSUME NEW w \in Workers, MoveSettle(w), worker[w].task = t PROVE task'[t].status # "PROCESSING"
    BY <1>3 DEF MoveSettle, Becomes
<1>4. ASSUME NEW r \in Reconcilers, InHandOf(r).task = t,
             MoveRepair(r) \/ MoveReset(r) \/ MoveFailPair(r)
      PROVE  task'[t].status # "PROCESSING"
    BY <1>4 DEF MoveRepair, MoveReset, MoveFailPair, Becomes
<1> QED BY <1>1, <1>2, <1>3, <1>4, TaskMove DEF Linked, SameTask

\* A worker that holds a file after the step has claimed it now, or has held it before.
LEMMA HolderStays ==
    ASSUME Linked, Typed', Move, NEW w \in Workers, Holds(w)', ~\E t \in Tasks : MoveClaim(w, t)
    PROVE  /\ Holds(w) /\ worker'[w].task = worker[w].task
           /\ FileOf(w) \in Files /\ FileOf(w)' = FileOf(w)
           /\ task'[worker[w].task].status = "PROCESSING"
<1> DEFINE t == worker[w].task
<1>1. worker'[w].pc # "idle" /\ worker'[w].task \in Tasks
      /\ task'[worker'[w].task].status = "PROCESSING"
      /\ task'[worker'[w].task].attempt = worker'[w].attempt
      /\ task'[worker'[w].task].file # NoFile
    BY DEF Holds, Mine, Current, FileOf, Typed
<1>2. /\ worker[w].pc # "idle"
      /\ worker'[w].task = worker[w].task /\ worker'[w].attempt = worker[w].attempt
    <2>1. CASE worker'[w] = worker[w]
        BY <1>1, <2>1
    <2>2. CASE MoveOn(w) \/ MoveLoad(w) \/ MoveIndex(w) \/ MoveCleanUp(w) \/ MoveSettle(w)
        BY <1>1, <2>2 DEF MoveOn, MoveLoad, MoveIndex, MoveCleanUp, MoveSettle, GoesTo, Leaves
    <2> QED BY <2>1, <2>2, WorkerMove
<1>3. t \in Tasks /\ task[t].status # "NONE" /\ worker[w].attempt <= task[t].attempt
      /\ worker[w].attempt \in Nat /\ task[t].attempt \in Nat
    BY <1>2 DEF Linked, ClaimsDiffer, Typed
<1>4. ~\E v \in Workers : MoveClaim(v, t)
    BY <1>1, <1>2, <1>3 DEF MoveClaim
<1>5. task[t].status = "PROCESSING" /\ task'[t].attempt = task[t].attempt
    BY <1>1, <1>2, <1>3, <1>4, ProcessingStays
<1>6. task'[t].file = task[t].file /\ task[t].file \in Files
    BY <1>1, <1>2, <1>3, RowsStay DEF Linked, Typed
<1> QED BY <1>1, <1>2, <1>3, <1>5, <1>6 DEF Holds, Mine, Current, FileOf, Linked, Typed

\* Where the reconciler writes a file with its task, it writes the task of that file.
LEMMA PairOfFile ==
    ASSUME Linked, NEW r \in Reconcilers, MoveReset(r) \/ MoveFailPair(r)
    PROVE  /\ InHandOf(r).task \in Tasks /\ InHandOf(r).file \in Files
           /\ task[InHandOf(r).task].file = InHandOf(r).file
           /\ ActiveTask(InHandOf(r).task)
           /\ task'[InHandOf(r).task].status \in {"PENDING", "FAILED"}
           /\ task'[InHandOf(r).task].file = InHandOf(r).file
<1>1. /\ TaskInHand(r) /\ FileIs(InHandOf(r).file, {"UPLOADED", "PARSING"})
      /\ task'[InHandOf(r).task].status \in {"PENDING", "FAILED"}
      /\ task'[InHandOf(r).task].file = task[InHandOf(r).task].file
    BY DEF MoveReset, MoveFailPair, Becomes
<1>2. /\ InHandOf(r) # NoItem /\ InHandOf(r).kind # "orphan" /\ ActiveTask(InHandOf(r).task)
      /\ InHandOf(r).file \in Files /\ InHandOf(r).file # NoFile /\ Status(InHandOf(r).file) # "REMOVED"
    BY <1>1 DEF TaskInHand, FileIs, Status, Linked, Typed
<1> QED BY <1>1, <1>2, ItemOfFile

\* While a worker holds a file and does nothing itself, the file keeps its status; but an
\* uploaded one may be taken for an orphan.
LEMMA HeldFileStays ==
    ASSUME Linked, Typed', Move, NEW w \in Workers, Holds(w)', worker'[w] = worker[w]
    PROVE  /\ Holds(w) /\ FileOf(w)' = FileOf(w)
           /\ \/ file'[FileOf(w)].status = Status(FileOf(w))
              \/ /\ Status(FileOf(w)) \in {"NONE", "UPLOADED", "FAILED"}
                 /\ \/ \E r \in Reconcilers : MoveFailUnowned(r)
                    \/ ~Calm' /\ \E t \in Tasks : MoveReplay(t, FileOf(w))
<1> DEFINE g == FileOf(w)
           t == worker[w].task
<1>1. ~\E u \in Tasks : MoveClaim(w, u)
    BY DEF MoveClaim, Holds
<1>2. Holds(w) /\ g \in Files /\ FileOf(w)' = g /\ task'[t].status = "PROCESSING"
    BY <1>1, HolderStays
<1>3. t \in Tasks /\ ActiveTask(t) /\ task[t].file = g
    BY <1>2, HolderTyped DEF FileOf
<1>4. ASSUME NEW u \in Tasks, MoveUpload(u, g) PROVE FALSE
    BY <1>2, <1>3, <1>4 DEF MoveUpload, Linked, TasksLinked, FilesThere, Typed
<1>5. ~MoveRemove(g)
    BY <1>2, <1>3 DEF MoveRemove, FileOf, Holds, Typed
<1>6. ASSUME NEW v \in Workers, FileOf(v) = g, MoveLoad(v) \/ MoveIndex(v) \/ MoveCleanUp(v)
      PROVE  file'[g].status = Status(g)
    <2>1. CASE Holds(v)
        <3>1. v = w
            BY <1>2, <1>6, <2>1, OneHolder
        <3>2. worker'[v].pc # worker[v].pc
            BY <1>6 DEF MoveLoad, MoveIndex, MoveCleanUp, GoesTo
        <3> QED BY <3>1, <3>2
    <2>2. CASE ~Holds(v)
        BY <1>2, <1>6, <2>2, WriterHolds DEF MoveCleanUp, SameFiles
    <2> QED BY <2>1, <2>2
<1>7. ASSUME NEW r \in Reconcilers, InHandOf(r).file = g, MoveReset(r) \/ MoveFailPair(r)
      PROVE  FALSE
    <2>1. InHandOf(r).task = t
        BY <1>2, <1>3, <1>7, PairOfFile DEF Linked, TasksLinked, OneActiveTask, Typed
    <2> QED BY <1>2, <1>7, <2>1, PairOfFile
<1>8. ASSUME NEW r \in Reconcilers, InHandOf(r).file = g, MoveFailUnowned(r)
      PROVE  Status(g) = "UPLOADED"
    BY <1>8 DEF MoveFailUnowned, FileIs, Status
<1>9. ASSUME NEW u \in Tasks, MoveReplay(u, g) PROVE ~Calm' /\ Status(g) = "FAILED"
    BY <1>9 DEF MoveReplay
<1> QED BY <1>2, <1>4, <1>5, <1>6, <1>7, <1>8, <1>9, FileMove

\* The item in hand found its file in this status, and the file still is, or was removed.
SeenStays(status) ==
    \A r \in Reconcilers :
        LET i == InHandOf(r)
        IN  i # NoItem /\ i.kind # "orphan" /\ i.seen = status /\ i.file # NoFile
                => file[i.file].status \in {status, "REMOVED"}

\* It is enough that files do not leave that status.
LEMMA SeenStaysStep ==
    ASSUME Typed, Typed', Move, NEW status \in FileStatus, SeenStays(status),
           \A f \in Files : Status(f) \in {status, "REMOVED"} => file'[f].status \in {status, "REMOVED"}
    PROVE  SeenStays(status)'
<1> SUFFICES ASSUME NEW r \in Reconcilers, InHandOf(r)' # NoItem, InHandOf(r)'.kind # "orphan",
                    InHandOf(r)'.seen = status, InHandOf(r)'.file # NoFile
             PROVE  file'[InHandOf(r)'.file].status \in {status, "REMOVED"}
    BY DEF SeenStays
<1>1. InHandOf(r)' \in Item /\ InHandOf(r)'.file \in Files
    BY ItemTyped DEF Typed
<1>2. CASE InHandOf(r)' = InHandOf(r)
    <2>1. Status(InHandOf(r).file) \in {status, "REMOVED"}
        BY <1>2 DEF SeenStays, Status
    <2> QED BY <1>1, <1>2, <2>1
<1>3. CASE MoveScan(r)
    BY <1>3 DEF MoveScan
<1>4. CASE MovePick(r)
    <2>1. PICK i \in reconciler[r].todo :
             /\ InHandOf(r)'.kind = i.kind /\ InHandOf(r)'.file = i.file
             /\ i.kind # "orphan" =>
                   InHandOf(r)'.seen = IF i.file = NoFile THEN "REMOVED" ELSE Status(i.file)
        BY <1>4 DEF MovePick
    <2>2. SameFiles
        BY <1>4 DEF MovePick
    <2> QED BY <1>1, <2>1, <2>2 DEF SameFiles
<1> QED BY <1>2, <1>3, <1>4, ItemMove

-----------------------------------------------------------------------------
(* While every worker knows what it has committed, the file of a current    *)
(* attempt is where the attempt is.                                         *)

FilesFollow ==
    /\ HoldsWith({"parse", "index", "cleanup"}, "PARSING")
    /\ HoldsWith({"complete"}, "READY")
    /\ SeenStays("READY")
    /\ CompletedMeansReady

LEMMA ReadyStays ==
    ASSUME Linked, FilesFollow, Move, NEW f \in Files, Status(f) = "READY"
    PROVE  file'[f].status \in {"READY", "REMOVED"}
<1>1. ASSUME NEW t \in Tasks, MoveUpload(t, f) \/ MoveReplay(t, f) PROVE FALSE
    BY <1>1 DEF MoveUpload, MoveReplay
<1>2. MoveRemove(f) => file'[f].status = "REMOVED"
    BY DEF MoveRemove, FileBecomes
<1>3. ASSUME NEW w \in Workers, FileOf(w) = f, MoveLoad(w) \/ MoveIndex(w) PROVE FALSE
    BY <1>3 DEF MoveLoad, MoveIndex, FileIs, Status
<1>4. ASSUME NEW w \in Workers, FileOf(w) = f, MoveCleanUp(w) PROVE FALSE
    <2>1. Holds(w) /\ worker[w].pc = "cleanup"
        BY <1>4, WriterHolds DEF FileIs, Status, MoveCleanUp
    <2> QED BY <1>4, <2>1 DEF FilesFollow, HoldsWith
<1>5. ASSUME NEW r \in Reconcilers, InHandOf(r).file = f,
             MoveReset(r) \/ MoveFailPair(r) \/ MoveFailUnowned(r)
      PROVE  FALSE
    BY <1>5 DEF MoveReset, MoveFailPair, MoveFailUnowned, FileIs, Status
<1> QED BY <1>1, <1>2, <1>3, <1>4, <1>5, FileMove

LEMMA CompletedStep ==
    ASSUME Linked, Linked', FilesFollow, Move
    PROVE  CompletedMeansReady'
<1> SUFFICES ASSUME NEW t \in Tasks, task'[t].status = "COMPLETED", task'[t].file # NoFile
             PROVE  file'[task'[t].file].status = "READY"
    BY DEF CompletedMeansReady, FileIs, Linked, Typed, Status
<1> DEFINE g == task'[t].file
<1>1. g \in Files /\ file'[g].status # "REMOVED"
    BY DEF Linked, Typed, TasksLinked, FilesThere, Status
<1>2. ASSUME Status(g) = "READY" PROVE file'[g].status = "READY"
    BY <1>1, <1>2, ReadyStays
<1>3. CASE task[t].status = "COMPLETED"
    <2>1. task[t].file = g
        BY <1>1, <1>3, RowsStay DEF Linked, Typed
    <2> QED BY <1>1, <1>2, <1>3, <2>1 DEF FilesFollow, CompletedMeansReady, FileIs, Status, Linked, Typed
<1>4. ASSUME NEW f \in Files, MoveUpload(t, f) \/ MoveReplay(t, f)
                              \/ \E r \in Reconcilers : MoveAdopt(r, t, f)
      PROVE  FALSE
    BY <1>4 DEF MoveUpload, MoveReplay, MoveAdopt, MoveCreate, Becomes
<1>5. ASSUME NEW f \in Files, MoveDuplicate(t, f) PROVE Status(g) = "READY"
    BY <1>5 DEF MoveDuplicate, MoveCreate
<1>6. ASSUME NEW f \in Files, MoveRemove(f) PROVE task[t].status = "COMPLETED"
    BY <1>6 DEF MoveRemove
<1>7. ASSUME NEW w \in Workers, MoveClaim(w, t) PROVE FALSE
    BY <1>7 DEF MoveClaim
<1>8. ASSUME NEW w \in Workers, MoveSettle(w), worker[w].task = t PROVE Status(g) = "READY"
    <2>1. Mine(w) /\ worker[w].pc = "complete" /\ FileOf(w) = g
        BY <1>8 DEF MoveSettle, Becomes, FileOf
    <2>2. Holds(w)
        BY <2>1 DEF Holds
    <2> QED BY <2>1, <2>2 DEF FilesFollow, HoldsWith
<1>9. ASSUME NEW r \in Reconcilers, InHandOf(r).task = t,
             MoveRepair(r) \/ MoveReset(r) \/ MoveFailPair(r)
      PROVE  Status(g) = "READY"
    <2>1. /\ InHandOf(r).seen = "READY" /\ TaskInHand(r) /\ task[t].file = g
        BY <1>9 DEF MoveRepair, MoveReset, MoveFailPair, Becomes
    <2>2. InHandOf(r) # NoItem /\ InHandOf(r).kind # "orphan"
        BY <2>1 DEF TaskInHand
    <2>3. InHandOf(r).file = g
        BY <1>1, <1>9, <2>1, <2>2, ItemOfFile DEF Linked, Typed
    <2>4. Status(g) \in {"READY", "REMOVED"}
        BY <1>1, <2>1, <2>2, <2>3 DEF FilesFollow, SeenStays, Status, Linked, Typed
    <2>5. Status(g) # "REMOVED"
        BY <1>1, <2>1 DEF Linked, TasksLinked, FilesThere, Typed
    <2> QED BY <2>4, <2>5
<1> QED BY <1>2, <1>3, <1>4, <1>5, <1>6, <1>7, <1>8, <1>9, TaskMove DEF Linked, SameTask

LEMMA FilesFollowStep ==
    ASSUME Linked, Linked', FilesFollow, Move, CommitsKnown'
    PROVE  FilesFollow'
<1>0. Typed /\ Typed'
    BY DEF Linked
<1>1. ASSUME NEW w \in Workers, Holds(w)', worker'[w] = worker[w],
             Status(FileOf(w)) \in {"PARSING", "READY"}
      PROVE  Status(FileOf(w))' = Status(FileOf(w))
    BY <1>0, <1>1, HeldFileStays DEF Status
<1>2. ASSUME NEW w \in Workers, Holds(w)', worker'[w].pc # "claimed", worker'[w] # worker[w]
      PROVE  /\ Holds(w) /\ FileOf(w)' = FileOf(w) /\ FileOf(w) \in Files
             /\ MoveOn(w) \/ MoveLoad(w) \/ MoveIndex(w) \/ MoveCleanUp(w) \/ MoveSettle(w)
    BY <1>0, <1>2, HolderStays, WorkerMove DEF MoveClaim
<1>3. ASSUME NEW w \in Workers, Holds(w)', worker'[w].pc \in {"parse", "index", "cleanup"}
      PROVE  Status(FileOf(w))' = "PARSING"
    <2>1. CASE worker'[w] = worker[w]
        <3>1. Holds(w)
            BY <1>0, <1>3, <2>1, HeldFileStays
        <3> QED BY <1>1, <1>3, <2>1, <3>1 DEF FilesFollow, HoldsWith
    <2>2. CASE worker'[w] # worker[w]
        <3>1. /\ Holds(w) /\ FileOf(w)' = FileOf(w) /\ FileOf(w) \in Files
              /\ MoveOn(w) \/ MoveLoad(w) \/ MoveIndex(w) \/ MoveCleanUp(w) \/ MoveSettle(w)
            BY <1>2, <1>3, <2>2
        <3>2. CASE MoveOn(w)
            <4>1. worker[w].pc \in {"parse", "index"} /\ SameFiles
                BY <1>3, <3>2 DEF MoveOn, GoesTo, Leaves
            <4> QED BY <3>1, <4>1 DEF FilesFollow, HoldsWith, SameFiles, Status
        <3>3. CASE MoveLoad(w)
            BY <3>1, <3>3 DEF MoveLoad, FileBecomes, Status
        <3>4. CASE MoveIndex(w) \/ MoveCleanUp(w) \/ MoveSettle(w)
            BY <1>3, <3>4 DEF MoveIndex, MoveCleanUp, MoveSettle, GoesTo, Leaves
        <3> QED BY <3>1, <3>2, <3>3, <3>4
    <2> QED BY <2>1, <2>2
<1>4. ASSUME NEW w \in Workers, Holds(w)', worker'[w].pc = "complete"
      PROVE  Status(FileOf(w))' = "READY"
    <2>1. CASE worker'[w] = worker[w]
        <3>1. Holds(w)
            BY <1>0, <1>4, <2>1, HeldFileStays
        <3> QED BY <1>1, <1>4, <2>1, <3>1 DEF FilesFollow, HoldsWith
    <2>2. CASE worker'[w] # worker[w]
        <3>1. /\ Holds(w) /\ FileOf(w)' = FileOf(w) /\ FileOf(w) \in Files
              /\ MoveOn(w) \/ MoveLoad(w) \/ MoveIndex(w) \/ MoveCleanUp(w) \/ MoveSettle(w)
            BY <1>2, <1>4, <2>2
        <3>2. CASE MoveIndex(w)
            BY <3>1, <3>2 DEF MoveIndex, FileBecomes, Status
        <3>3. CASE MoveOn(w) \/ MoveLoad(w) \/ MoveCleanUp(w) \/ MoveSettle(w)
            BY <1>4, <3>3 DEF MoveOn, MoveLoad, MoveCleanUp, MoveSettle, GoesTo, Leaves
        <3> QED BY <3>1, <3>2, <3>3
    <2> QED BY <2>1, <2>2
<1>5. SeenStays("READY")'
    <2>1. \A f \in Files : Status(f) \in {"READY", "REMOVED"} => file'[f].status \in {"READY", "REMOVED"}
        BY <1>0, ReadyStays, RowsStay
    <2> QED BY <1>0, <2>1, SeenStaysStep DEF FilesFollow, FileStatus
<1> QED BY <1>3, <1>4, <1>5, CompletedStep DEF FilesFollow, HoldsWith

-----------------------------------------------------------------------------
(* Waiting tasks.                                                           *)

\* A file in a reconciler's hands for an orphan is one, or was removed.
OrphanInHand ==
    \A r \in Reconcilers : LET i == InHandOf(r) IN
        i.kind = "orphan" => \/ Status(i.file) = "REMOVED"
                             \/ Status(i.file) = "UPLOADED" /\ ~HasActiveTask(i.file)

LEMMA PendingStep ==
    ASSUME Linked, Linked', PendingMeansUploaded, OrphanInHand, Move
    PROVE  PendingMeansUploaded'
<1> SUFFICES ASSUME NEW t \in Tasks, task'[t].status = "PENDING", task'[t].file # NoFile
             PROVE  file'[task'[t].file].status = "UPLOADED"
    BY DEF PendingMeansUploaded
<1> DEFINE g == task'[t].file
<1>1. g \in Files /\ file'[g].status # "REMOVED"
    BY DEF Linked, Typed, TasksLinked, FilesThere, Status
<1>2. CASE task[t].status = "PENDING" /\ task[t].file = g
    <2>1. Status(g) = "UPLOADED" /\ ActiveTask(t)
        BY <1>2 DEF PendingMeansUploaded, ActiveTask, Status
    <2>2. ASSUME NEW u \in Tasks, MoveUpload(u, g) \/ MoveReplay(u, g) PROVE FALSE
        BY <2>1, <2>2 DEF MoveUpload, MoveReplay
    <2>3. ASSUME NEW w \in Workers, FileOf(w) = g, MoveLoad(w) \/ MoveIndex(w) \/ MoveCleanUp(w)
          PROVE  FALSE
        <3>1. Holds(w)
            BY <1>1, <2>1, <2>3, WriterHolds DEF FileIs, Status
        <3>2. worker[w].task = t
            BY <1>1, <1>2, <2>1, <2>3, <3>1, HolderTyped
            DEF Linked, TasksLinked, OneActiveTask, FileOf, Typed
        <3> QED BY <1>2, <3>1, <3>2, HolderTyped
    <2>4. ASSUME NEW r \in Reconcilers, InHandOf(r).file = g, MoveReset(r)
          PROVE  file'[g].status = "UPLOADED"
        BY <2>4 DEF MoveReset, FileBecomes
    <2>5. ASSUME NEW r \in Reconcilers, InHandOf(r).file = g, MoveFailPair(r)
          PROVE  FALSE
        <3>1. InHandOf(r).task = t
            BY <1>1, <1>2, <2>1, <2>5, PairOfFile DEF Linked, TasksLinked, OneActiveTask, Typed
        <3> QED BY <2>5, <3>1 DEF MoveFailPair, Becomes
    <2>6. ASSUME NEW r \in Reconcilers, InHandOf(r).file = g, MoveFailUnowned(r)
          PROVE  FALSE
        BY <1>2, <2>1, <2>6 DEF MoveFailUnowned, OrphanInHand, HasActiveTask
    <2>7. MoveRemove(g) => file'[g].status = "REMOVED"
        BY DEF MoveRemove, FileBecomes
    <2> QED BY <1>1, <2>1, <2>2, <2>3, <2>4, <2>5, <2>6, <2>7, FileMove
<1>3. ASSUME NEW f \in Files, MoveUpload(t, f) \/ MoveReplay(t, f)
      PROVE  file'[g].status = "UPLOADED"
    BY <1>3 DEF MoveUpload, MoveReplay, MoveCreate, Becomes, FileBecomes
<1>4. ASSUME NEW f \in Files, MoveDuplicate(t, f) PROVE FALSE
    BY <1>4 DEF MoveDuplicate, MoveCreate
<1>5. ASSUME NEW f \in Files, MoveRemove(f), task[t].file = f PROVE FALSE
    BY <1>5 DEF MoveRemove
<1>6. ASSUME NEW w \in Workers, MoveClaim(w, t) \/ (MoveSettle(w) /\ worker[w].task = t) PROVE FALSE
    BY <1>6 DEF MoveClaim, MoveSettle, Becomes
<1>7. ASSUME NEW r \in Reconcilers, NEW f \in Files, MoveAdopt(r, t, f)
      PROVE  file'[g].status = "UPLOADED"
    BY <1>1, <1>7 DEF MoveAdopt, MoveCreate, OrphanInHand, SameFiles
<1>8. ASSUME NEW r \in Reconcilers, InHandOf(r).task = t, MoveRepair(r) \/ MoveFailPair(r)
      PROVE  FALSE
    BY <1>8 DEF MoveRepair, MoveFailPair, Becomes
<1>9. ASSUME NEW r \in Reconcilers, InHandOf(r).task = t, MoveReset(r)
      PROVE  file'[g].status = "UPLOADED"
    <2>1. g = InHandOf(r).file
        BY <1>9, PairOfFile
    <2> QED BY <1>9, <2>1 DEF MoveReset, FileBecomes
<1>10. SameTask(t) => task[t].status = "PENDING" /\ task[t].file = g
    BY DEF SameTask
<1> QED BY <1>2, <1>3, <1>4, <1>5, <1>6, <1>7, <1>8, <1>9, <1>10, TaskMove DEF Linked

-----------------------------------------------------------------------------
(* While processes only crash and nobody replays by hand, an accepted file  *)
(* has its task, and a failed task has its failed file.                     *)

AcceptedHasTask == \A f \in Files : Status(f) \in {"UPLOADED", "PARSING"} => HasActiveTask(f)
FailedMeansFailed ==
    \A t \in Tasks : task[t].status = "FAILED" /\ task[t].file # NoFile
        => Status(task[t].file) = "FAILED"
NoOrphans == \A r \in Reconcilers : \A i \in Items(r) : i.kind # "orphan"
PairsFollow ==
    /\ AcceptedHasTask /\ FailedMeansFailed /\ NoOrphans /\ PendingMeansUploaded
    /\ HoldsWith({"claimed", "load"}, "UPLOADED")
    /\ HoldsWith({"failing"}, "FAILED")
    /\ SeenStays("FAILED")
    /\ SeenStays("REMOVED")

LEMMA NoOrphanInHand ==
    ASSUME Typed, NoOrphans
    PROVE  OrphanInHand /\ \A r \in Reconcilers : ~MoveFailUnowned(r)
<1>1. \A r \in Reconcilers : InHandOf(r).kind # "orphan"
    BY DEF NoOrphans, Items, NoItem
<1> QED BY <1>1 DEF OrphanInHand, MoveFailUnowned

\* What a task at rest in its file's status leaves alone: a task that ends or fails has a
\* file that has.
LEMMA ActiveLeft ==
    ASSUME Linked, FilesFollow, PairsFollow, Move, NEW t \in Tasks, NEW f \in Files,
           ActiveTask(t), task[t].file = f, Status(f) \in {"UPLOADED", "PARSING"},
           file'[f].status \in {"UPLOADED", "PARSING"}
    PROVE  ActiveTask(t)' /\ task'[t].file = f
<1>1. SameTask(t) => ActiveTask(t)' /\ task'[t].file = f
    BY DEF SameTask, ActiveTask
<1>2. ASSUME NEW g \in Files, MoveUpload(t, g) \/ MoveDuplicate(t, g) \/ MoveReplay(t, g)
                              \/ \E r \in Reconcilers : MoveAdopt(r, t, g)
      PROVE  FALSE
    BY <1>2 DEF MoveUpload, MoveDuplicate, MoveReplay, MoveAdopt, MoveCreate, ActiveTask
<1>3. ASSUME NEW g \in Files, MoveRemove(g), task[t].file = g PROVE FALSE
    BY <1>3 DEF MoveRemove, FileBecomes
<1>4. ASSUME NEW w \in Workers, MoveClaim(w, t) PROVE ActiveTask(t)' /\ task'[t].file = f
    BY <1>4 DEF MoveClaim, ActiveTask
<1>5. ASSUME NEW w \in Workers, MoveSettle(w), worker[w].task = t PROVE FALSE
    <2>1. FileOf(w) = f /\ Mine(w) /\ worker[w].pc \in {"complete", "failing"} /\ f # NoFile
        BY <1>5 DEF MoveSettle, FileOf, Linked, Typed
    <2>2. Holds(w)
        BY <2>1 DEF Holds
    <2> QED BY <2>1, <2>2 DEF FilesFollow, PairsFollow, HoldsWith
<1>6. ASSUME NEW r \in Reconcilers, InHandOf(r).task = t, MoveRepair(r) PROVE FALSE
    <2>1. /\ InHandOf(r) # NoItem /\ InHandOf(r).kind # "orphan"
          /\ InHandOf(r).seen \in {"READY", "REMOVED", "FAILED"}
        BY <1>6 DEF MoveRepair, TaskInHand
    <2>2. InHandOf(r).file = f /\ f # NoFile
        BY <1>6, <2>1, ItemOfFile DEF Linked, Typed
    <2>3. Status(f) \in {"READY", "REMOVED", "FAILED"}
        BY <2>1, <2>2 DEF FilesFollow, PairsFollow, SeenStays, Status
    <2> QED BY <2>3
<1>7. ASSUME NEW r \in Reconcilers, InHandOf(r).task = t, MoveReset(r)
      PROVE  ActiveTask(t)' /\ task'[t].file = f
    BY <1>7 DEF MoveReset, Becomes, ActiveTask
<1>8. ASSUME NEW r \in Reconcilers, InHandOf(r).task = t, MoveFailPair(r) PROVE FALSE
    <2>1. InHandOf(r).file = f
        BY <1>8, PairOfFile
    <2> QED BY <1>8, <2>1 DEF MoveFailPair, FileBecomes
<1> QED BY <1>1, <1>2, <1>3, <1>4, <1>5, <1>6, <1>7, <1>8, TaskMove DEF Linked

LEMMA AcceptedStep ==
    ASSUME Linked, FilesFollow, PairsFollow, Move, Calm'
    PROVE  AcceptedHasTask'
<1> SUFFICES ASSUME NEW f \in Files, file'[f].status \in {"UPLOADED", "PARSING"}
             PROVE  \E t \in Tasks : ActiveTask(t)' /\ task'[t].file = f
    BY DEF AcceptedHasTask, HasActiveTask, Status
<1>1. CASE Status(f) \in {"UPLOADED", "PARSING"}
    <2>1. PICK t \in Tasks : ActiveTask(t) /\ task[t].file = f
        BY <1>1 DEF PairsFollow, AcceptedHasTask, HasActiveTask
    <2> QED BY <1>1, <2>1, ActiveLeft
<1>2. ASSUME NEW t \in Tasks, MoveUpload(t, f) PROVE ActiveTask(t)' /\ task'[t].file = f
    BY <1>2 DEF MoveUpload, MoveCreate, ActiveTask
<1>3. ASSUME NEW t \in Tasks, MoveReplay(t, f) PROVE FALSE
    BY <1>3 DEF MoveReplay
<1>4. ~MoveRemove(f)
    BY DEF MoveRemove, FileBecomes
<1>5. ASSUME NEW w \in Workers, FileOf(w) = f, MoveLoad(w) \/ MoveIndex(w) \/ MoveCleanUp(w)
      PROVE  Status(f) \in {"UPLOADED", "PARSING"}
    BY <1>5 DEF MoveLoad, MoveIndex, MoveCleanUp, FileIs, FileBecomes, SameFiles, Status
<1>6. ASSUME NEW r \in Reconcilers, InHandOf(r).file = f,
             MoveReset(r) \/ MoveFailPair(r) \/ MoveFailUnowned(r)
      PROVE  Status(f) \in {"UPLOADED", "PARSING"}
    BY <1>6 DEF MoveReset, MoveFailPair, MoveFailUnowned, FileIs, Status
<1> QED BY <1>1, <1>2, <1>3, <1>4, <1>5, <1>6, FileMove

LEMMA FailedStays ==
    ASSUME Move, Calm', NEW f \in Files, Status(f) = "FAILED"
    PROVE  file'[f].status \in {"FAILED", "REMOVED"}
<1>1. ASSUME NEW t \in Tasks, MoveUpload(t, f) \/ MoveReplay(t, f) PROVE FALSE
    BY <1>1 DEF MoveUpload, MoveReplay
<1>2. MoveRemove(f) => file'[f].status = "REMOVED"
    BY DEF MoveRemove, FileBecomes
<1>3. ASSUME NEW w \in Workers, FileOf(w) = f, MoveLoad(w) \/ MoveIndex(w) \/ MoveCleanUp(w)
      PROVE  file'[f].status = "FAILED"
    BY <1>3 DEF MoveLoad, MoveIndex, MoveCleanUp, FileIs, FileBecomes, SameFiles, Status
<1>4. ASSUME NEW r \in Reconcilers, InHandOf(r).file = f,
             MoveReset(r) \/ MoveFailPair(r) \/ MoveFailUnowned(r)
      PROVE  FALSE
    BY <1>4 DEF MoveReset, MoveFailPair, MoveFailUnowned, FileIs, Status
<1> QED BY <1>1, <1>2, <1>3, <1>4, FileMove

LEMMA FailedStep ==
    ASSUME Linked, Linked', PairsFollow, Move, Calm'
    PROVE  FailedMeansFailed'
<1> SUFFICES ASSUME NEW t \in Tasks, task'[t].status = "FAILED", task'[t].file # NoFile
             PROVE  file'[task'[t].file].status = "FAILED"
    BY DEF FailedMeansFailed, Status
<1> DEFINE g == task'[t].file
<1>1. g \in Files /\ file'[g].status # "REMOVED"
    BY DEF Linked, Typed, TasksLinked, FilesThere, Status
<1>2. ASSUME Status(g) = "FAILED" PROVE file'[g].status = "FAILED"
    BY <1>1, <1>2, FailedStays
<1>3. CASE task[t].status = "FAILED"
    <2>1. task[t].file = g
        BY <1>1, <1>3, RowsStay DEF Linked, Typed
    <2> QED BY <1>1, <1>2, <1>3, <2>1 DEF PairsFollow, FailedMeansFailed, Linked, Typed
<1>4. ASSUME NEW f \in Files, MoveUpload(t, f) \/ MoveDuplicate(t, f) \/ MoveReplay(t, f)
                              \/ \E r \in Reconcilers : MoveAdopt(r, t, f)
      PROVE  FALSE
    BY <1>4 DEF MoveUpload, MoveDuplicate, MoveReplay, MoveAdopt, MoveCreate, Becomes
<1>5. ASSUME NEW f \in Files, MoveRemove(f) PROVE task[t].status = "FAILED"
    BY <1>5 DEF MoveRemove
<1>6. ASSUME NEW w \in Workers, MoveClaim(w, t) PROVE FALSE
    BY <1>6 DEF MoveClaim
<1>7. ASSUME NEW w \in Workers, MoveSettle(w), worker[w].task = t PROVE Status(g) = "FAILED"
    <2>1. Mine(w) /\ worker[w].pc = "failing" /\ FileOf(w) = g
        BY <1>7 DEF MoveSettle, Becomes, FileOf
    <2>2. Holds(w)
        BY <2>1 DEF Holds
    <2> QED BY <2>1, <2>2 DEF PairsFollow, HoldsWith
<1>8. ASSUME NEW r \in Reconcilers, InHandOf(r).task = t, MoveRepair(r)
      PROVE  Status(g) = "FAILED"
    <2>1. /\ InHandOf(r).seen \in {"FAILED", "REMOVED"} /\ TaskInHand(r) /\ task[t].file = g
        BY <1>8 DEF MoveRepair, Becomes
    <2>2. InHandOf(r) # NoItem /\ InHandOf(r).kind # "orphan"
        BY <2>1 DEF TaskInHand
    <2>3. InHandOf(r).file = g
        BY <1>1, <1>8, <2>1, <2>2, ItemOfFile DEF Linked, Typed
    <2>4. Status(g) \in {"FAILED", "REMOVED"}
        BY <1>1, <2>1, <2>2, <2>3 DEF PairsFollow, SeenStays, Status, Linked, Typed
    <2>5. Status(g) # "REMOVED"
        BY <1>1, <2>1 DEF Linked, TasksLinked, FilesThere, Typed
    <2> QED BY <2>4, <2>5
<1>9. ASSUME NEW r \in Reconcilers, InHandOf(r).task = t, MoveReset(r) PROVE FALSE
    BY <1>9 DEF MoveReset, Becomes
<1>10. ASSUME NEW r \in Reconcilers, InHandOf(r).task = t, MoveFailPair(r)
       PROVE  file'[g].status = "FAILED"
    <2>1. g = InHandOf(r).file
        BY <1>10, PairOfFile
    <2> QED BY <1>10, <2>1 DEF MoveFailPair, FileBecomes
<1> QED BY <1>2, <1>3, <1>4, <1>5, <1>6, <1>7, <1>8, <1>9, <1>10, TaskMove DEF Linked, SameTask

LEMMA NoOrphansStep ==
    ASSUME PairsFollow, Move
    PROVE  NoOrphans'
<1> SUFFICES ASSUME NEW r \in Reconcilers, NEW i \in Items(r)' PROVE i.kind # "orphan"
    BY DEF NoOrphans
<1>1. CASE reconciler'[r].todo \subseteq reconciler[r].todo /\ InHandOf(r)' \in {InHandOf(r), NoItem}
    BY <1>1 DEF Items, PairsFollow, NoOrphans
<1>2. CASE MoveScan(r)
    <2>1. i \in StaleItems \cup GapItems \cup OrphanItems
        BY <1>2 DEF MoveScan, Items
    <2>2. OrphanItems = {}
        BY DEF OrphanItems, PairsFollow, AcceptedHasTask, Status
    <2> QED BY <2>1, <2>2 DEF StaleItems, GapItems
<1>3. CASE MovePick(r)
    BY <1>3 DEF MovePick, Items, PairsFollow, NoOrphans
<1> QED BY <1>1, <1>2, <1>3, ItemMove

LEMMA PairsFollowStep ==
    ASSUME Linked, Linked', FilesFollow, PairsFollow, Move, Calm'
    PROVE  PairsFollow'
<1>0. Typed /\ Typed' /\ CommitsKnown'
    BY DEF Linked, Calm, CommitsKnown
<1>1. OrphanInHand /\ \A r \in Reconcilers : ~MoveFailUnowned(r)
    BY <1>0, NoOrphanInHand DEF PairsFollow
<1>2. ASSUME NEW w \in Workers, Holds(w)', worker'[w] = worker[w]
      PROVE  Holds(w) /\ Status(FileOf(w))' = Status(FileOf(w))
    BY <1>0, <1>1, <1>2, HeldFileStays DEF Status
<1>3. ASSUME NEW w \in Workers, Holds(w)', worker'[w].pc # "claimed", worker'[w] # worker[w]
      PROVE  /\ Holds(w) /\ FileOf(w)' = FileOf(w) /\ FileOf(w) \in Files
             /\ MoveOn(w) \/ MoveLoad(w) \/ MoveIndex(w) \/ MoveCleanUp(w) \/ MoveSettle(w)
    BY <1>0, <1>3, HolderStays, WorkerMove DEF MoveClaim
<1>4. ASSUME NEW w \in Workers, Holds(w)', worker'[w].pc \in {"claimed", "load"}
      PROVE  Status(FileOf(w))' = "UPLOADED"
    <2>1. CASE worker'[w] = worker[w]
        BY <1>2, <1>4, <2>1 DEF PairsFollow, HoldsWith
    <2>2. ASSUME NEW t \in Tasks, MoveClaim(w, t) PROVE Status(FileOf(w))' = "UPLOADED"
        <3>1. /\ task[t].status = "PENDING" /\ task[t].file # NoFile /\ SameFiles
              /\ worker'[w].task = t /\ task'[t].file = task[t].file
            BY <2>2 DEF MoveClaim
        <3>2. Status(task[t].file) = "UPLOADED" /\ task[t].file \in Files
            BY <1>0, <3>1 DEF PairsFollow, PendingMeansUploaded, Status, Typed
        <3> QED BY <3>1, <3>2 DEF FileOf, SameFiles, Status
    <2>3. CASE worker'[w] # worker[w] /\ ~\E t \in Tasks : MoveClaim(w, t)
        <3>1. /\ Holds(w) /\ FileOf(w)' = FileOf(w) /\ FileOf(w) \in Files
              /\ MoveOn(w) \/ MoveLoad(w) \/ MoveIndex(w) \/ MoveCleanUp(w) \/ MoveSettle(w)
            BY <1>0, <1>4, <2>3, HolderStays, WorkerMove
        <3>2. CASE MoveOn(w)
            <4>1. worker[w].pc = "claimed" /\ SameFiles
                BY <1>4, <3>2 DEF MoveOn, GoesTo, Leaves
            <4> QED BY <3>1, <4>1 DEF PairsFollow, HoldsWith, SameFiles, Status
        <3>3. CASE MoveLoad(w) \/ MoveIndex(w) \/ MoveCleanUp(w) \/ MoveSettle(w)
            BY <1>4, <3>3 DEF MoveLoad, MoveIndex, MoveCleanUp, MoveSettle, GoesTo, Leaves
        <3> QED BY <3>1, <3>2, <3>3
    <2> QED BY <2>1, <2>2, <2>3
<1>5. ASSUME NEW w \in Workers, Holds(w)', worker'[w].pc = "failing"
      PROVE  Status(FileOf(w))' = "FAILED"
    <2>1. CASE worker'[w] = worker[w]
        BY <1>2, <1>5, <2>1 DEF PairsFollow, HoldsWith
    <2>2. CASE worker'[w] # worker[w]
        <3>1. /\ Holds(w) /\ FileOf(w)' = FileOf(w) /\ FileOf(w) \in Files
              /\ MoveOn(w) \/ MoveLoad(w) \/ MoveIndex(w) \/ MoveCleanUp(w) \/ MoveSettle(w)
            BY <1>3, <1>5, <2>2
        <3>2. CASE MoveOn(w)
            <4>1. worker[w].pc = "load" /\ ~FileIs(FileOf(w), {"UPLOADED"})
                BY <1>0, <1>5, <3>1, <3>2 DEF MoveOn, GoesTo, Leaves, Holds, CommitsKnown
            <4> QED BY <3>1, <4>1 DEF PairsFollow, HoldsWith, FileIs, Status
        <3>3. CASE MoveLoad(w) \/ MoveIndex(w) \/ MoveSettle(w)
            BY <1>0, <1>5, <3>3 DEF MoveLoad, MoveIndex, MoveSettle, GoesTo, Leaves
        <3>4. CASE MoveCleanUp(w)
            <4>1. FileIs(FileOf(w), {"UPLOADED", "PARSING", "READY"})
                BY <3>1, <3>4 DEF FilesFollow, HoldsWith, MoveCleanUp, FileIs, Status
            <4> QED BY <3>1, <3>4, <4>1 DEF MoveCleanUp, FileBecomes, Status
        <3> QED BY <3>1, <3>2, <3>3, <3>4
    <2> QED BY <2>1, <2>2
<1>6. SeenStays("FAILED")'
    <2>1. \A f \in Files : Status(f) \in {"FAILED", "REMOVED"} => file'[f].status \in {"FAILED", "REMOVED"}
        BY <1>0, FailedStays, RowsStay
    <2> QED BY <1>0, <2>1, SeenStaysStep DEF PairsFollow, FileStatus
<1>7. SeenStays("REMOVED")'
    <2>1. \A f \in Files : Status(f) \in {"REMOVED", "REMOVED"} => file'[f].status \in {"REMOVED", "REMOVED"}
        BY <1>0, RowsStay
    <2> QED BY <1>0, <2>1, SeenStaysStep DEF PairsFollow, FileStatus
<1>8. PendingMeansUploaded'
    BY <1>1, PendingStep DEF PairsFollow
<1>9. HoldsWith({"claimed", "load"}, "UPLOADED")' /\ HoldsWith({"failing"}, "FAILED")'
    BY <1>4, <1>5 DEF HoldsWith
<1> QED BY <1>6, <1>7, <1>8, <1>9, AcceptedStep, FailedStep, NoOrphansStep DEF PairsFollow

-----------------------------------------------------------------------------
(* With one run of the reconciler at a time, a file it takes for an orphan  *)
(* is one until it has dealt with it.                                       *)

OneReconciler == \A q, r \in Reconcilers : q = r
Orphan(f) == Status(f) = "UPLOADED" /\ ~HasActiveTask(f)
OrphansKept ==
    \A r \in Reconcilers :
        /\ \A i \in Items(r) : i.kind = "orphan" => Status(i.file) = "REMOVED" \/ Orphan(i.file)
        /\ \A i \in reconciler[r].todo :
              InHandOf(r).kind = "orphan" /\ i.kind = "orphan" => i.file # InHandOf(r).file

LEMMA KeptOrphanInHand ==
    ASSUME Typed, OrphansKept
    PROVE  OrphanInHand
<1>1. \A r \in Reconcilers : InHandOf(r).kind = "orphan" => InHandOf(r) \in Items(r)
    BY DEF Items, NoItem
<1> QED BY <1>1 DEF OrphansKept, OrphanInHand, Orphan

\* An orphan ends with its removal or in the reconciler's hands.
LEMMA OrphanStays ==
    ASSUME Linked, Linked', Move, NEW f \in Files, Orphan(f)
    PROVE  \/ file'[f].status = "REMOVED" \/ Orphan(f)'
           \/ \E r \in Reconcilers : /\ InHandOf(r) # NoItem /\ InHandOf(r).kind = "orphan"
                                     /\ InHandOf(r).file = f /\ Finishes(r)
<1>1. \/ file'[f].status \in {"UPLOADED", "REMOVED"}
      \/ \E r \in Reconcilers : InHandOf(r).file = f /\ MoveFailUnowned(r)
    <2>1. ASSUME NEW t \in Tasks, MoveUpload(t, f) \/ MoveReplay(t, f) PROVE FALSE
        BY <2>1 DEF MoveUpload, MoveReplay, Orphan
    <2>2. MoveRemove(f) => file'[f].status = "REMOVED"
        BY DEF MoveRemove, FileBecomes
    <2>3. ASSUME NEW w \in Workers, FileOf(w) = f, MoveLoad(w) \/ MoveIndex(w) \/ MoveCleanUp(w)
          PROVE  FALSE
        <3>1. Holds(w)
            BY <2>3, WriterHolds DEF FileIs, Orphan, Status
        <3> QED BY <2>3, <3>1, HolderTyped DEF Orphan, HasActiveTask, FileOf
    <2>4. ASSUME NEW r \in Reconcilers, InHandOf(r).file = f, MoveReset(r) \/ MoveFailPair(r)
          PROVE  FALSE
        BY <2>4, PairOfFile DEF Orphan, HasActiveTask
    <2> QED BY <2>1, <2>2, <2>3, <2>4, FileMove DEF Orphan
<1>2. ASSUME NEW t \in Tasks, ActiveTask(t)', task'[t].file = f
      PROVE  \/ \E r \in Reconcilers : MoveAdopt(r, t, f)
             \/ file'[f].status = "REMOVED"
    <2>1. ~(ActiveTask(t) /\ task'[t].file = task[t].file)
        BY <1>2 DEF Orphan, HasActiveTask
    <2>2. ASSUME NEW g \in Files, MoveUpload(t, g) \/ MoveDuplicate(t, g) \/ MoveReplay(t, g)
          PROVE  FALSE
        BY <1>2, <2>2 DEF MoveUpload, MoveDuplicate, MoveReplay, MoveCreate, Becomes, Orphan
    <2>3. ASSUME NEW g \in Files, MoveRemove(g), task[t].file = g PROVE FALSE
        BY <1>2, <2>3 DEF MoveRemove, Linked, Typed
    <2>4. ASSUME NEW w \in Workers, MoveClaim(w, t) \/ (MoveSettle(w) /\ worker[w].task = t) PROVE FALSE
        BY <1>2, <2>1, <2>4 DEF MoveClaim, MoveSettle, Becomes, ActiveTask
    <2>5. ASSUME NEW r \in Reconcilers, InHandOf(r).task = t,
                 MoveRepair(r) \/ MoveReset(r) \/ MoveFailPair(r)
          PROVE  FALSE
        BY <1>2, <2>1, <2>5 DEF MoveRepair, MoveReset, MoveFailPair, TaskInHand, Becomes, ActiveTask
    <2>6. ASSUME NEW r \in Reconcilers, NEW g \in Files, MoveAdopt(r, t, g) PROVE MoveAdopt(r, t, f)
        BY <1>2, <2>6 DEF MoveAdopt, MoveCreate
    <2> QED BY <1>2, <2>1, <2>2, <2>3, <2>4, <2>5, <2>6, TaskMove
            DEF SameTask, ActiveTask, Linked
<1>3. ASSUME NEW r \in Reconcilers, InHandOf(r).file = f,
             MoveFailUnowned(r) \/ \E t \in Tasks : MoveAdopt(r, t, f)
      PROVE  InHandOf(r) # NoItem /\ InHandOf(r).kind = "orphan" /\ Finishes(r)
    BY <1>3 DEF MoveFailUnowned, MoveAdopt
<1>4. ASSUME NEW r \in Reconcilers, NEW t \in Tasks, MoveAdopt(r, t, f) PROVE InHandOf(r).file = f
    BY <1>4 DEF MoveAdopt
<1> QED BY <1>1, <1>2, <1>3, <1>4 DEF Orphan, HasActiveTask, Status

LEMMA OrphansKeptStep ==
    ASSUME OneReconciler, Linked, Linked', OrphansKept, Move
    PROVE  OrphansKept'
<1>0. Typed /\ Typed'
    BY DEF Linked
<1> SUFFICES ASSUME NEW r \in Reconcilers
             PROVE  /\ \A i \in Items(r)' : i.kind = "orphan" =>
                          Status(i.file)' = "REMOVED" \/ Orphan(i.file)'
                    /\ \A i \in reconciler'[r].todo :
                          InHandOf(r)'.kind = "orphan" /\ i.kind = "orphan" => i.file # InHandOf(r)'.file
    BY DEF OrphansKept
<1>1. ASSUME NEW i \in Items(r), i.kind = "orphan",
             ~(Finishes(r) /\ InHandOf(r) # NoItem /\ InHandOf(r).kind = "orphan" /\ InHandOf(r).file = i.file)
      PROVE  Status(i.file)' = "REMOVED" \/ Orphan(i.file)'
    <2>1. i.file \in Files
        BY <1>0, <1>1, ItemTyped DEF Items, Typed
    <2>2. Status(i.file) = "REMOVED" \/ Orphan(i.file)
        BY <1>1 DEF OrphansKept
    <2>3. CASE Status(i.file) = "REMOVED"
        BY <1>0, <2>1, <2>3, RowsStay DEF Status
    <2>4. CASE Orphan(i.file)
        BY <1>1, <2>1, <2>4, OrphanStays DEF OneReconciler, Status
    <2> QED BY <2>2, <2>3, <2>4
<1>2. CASE reconciler'[r].todo \subseteq reconciler[r].todo /\ InHandOf(r)' \in {InHandOf(r), NoItem}
    <2>1. ASSUME NEW i \in Items(r)', i.kind = "orphan"
          PROVE  Status(i.file)' = "REMOVED" \/ Orphan(i.file)'
        <3>1. i \in Items(r)
            BY <1>2, <2>1 DEF Items
        <3>2. CASE Finishes(r) /\ InHandOf(r) # NoItem /\ InHandOf(r).kind = "orphan" /\ InHandOf(r).file = i.file
            <4>1. i \in reconciler[r].todo
                BY <1>2, <2>1, <3>2 DEF Finishes, Items
            <4> QED BY <2>1, <3>2, <4>1 DEF OrphansKept
        <3> QED BY <1>1, <2>1, <3>1, <3>2
    <2>2. \A i \in reconciler'[r].todo :
             InHandOf(r)'.kind = "orphan" /\ i.kind = "orphan" => i.file # InHandOf(r)'.file
        BY <1>2 DEF OrphansKept, NoItem
    <2> QED BY <2>1, <2>2
<1>3. CASE MoveScan(r)
    <2>1. InHandOf(r)' = NoItem /\ SameTasks /\ SameFiles
          /\ reconciler'[r].todo = StaleItems \cup GapItems \cup OrphanItems
        BY <1>3 DEF MoveScan
    <2>2. ASSUME NEW i \in Items(r)', i.kind = "orphan" PROVE Orphan(i.file)'
        <3>1. i \in OrphanItems
            BY <2>1, <2>2 DEF Items, StaleItems, GapItems
        <3>2. PICK f \in Files : Status(f) = "UPLOADED" /\ ~HasActiveTask(f) /\ i.file = f
            BY <3>1 DEF OrphanItems, Status
        <3> QED BY <2>1, <3>2 DEF Orphan, HasActiveTask, ActiveTask, SameTasks, SameTask, SameFiles, Status
    <2> QED BY <2>1, <2>2 DEF NoItem
<1>4. CASE MovePick(r)
    <2>1. PICK j \in reconciler[r].todo :
             /\ reconciler'[r].todo = reconciler[r].todo \ {j}
             /\ InHandOf(r)'.kind = j.kind /\ InHandOf(r)'.file = j.file
        BY <1>4 DEF MovePick
    <2>2. ~Finishes(r)
        BY <1>0, <1>4 DEF MovePick, Finishes, Typed, Item, NoItem
    <2>3. ASSUME NEW i \in Items(r)', i.kind = "orphan"
          PROVE  Status(i.file)' = "REMOVED" \/ Orphan(i.file)'
        <3>1. CASE i \in reconciler[r].todo
            BY <1>1, <2>2, <2>3, <3>1 DEF Items
        <3>2. CASE i = InHandOf(r)'
            <4>1. j \in Items(r) /\ j.kind = "orphan" /\ i.file = j.file
                BY <2>1, <2>3, <3>2 DEF Items
            <4>2. Status(j.file)' = "REMOVED" \/ Orphan(j.file)'
                BY <1>1, <2>2, <4>1
            <4> QED BY <4>1, <4>2
        <3> QED BY <2>1, <2>3, <3>1, <3>2 DEF Items
    <2>4. ASSUME NEW i \in reconciler[r].todo, i # j, i.kind = "orphan", j.kind = "orphan"
          PROVE  i.file # j.file
        <3>1. i \in Item /\ j \in Item
            BY <1>0 DEF Typed
        <3> QED BY <2>4, <3>1 DEF Item
    <2> QED BY <2>1, <2>3, <2>4
<1> QED BY <1>2, <1>3, <1>4, ItemMove

-----------------------------------------------------------------------------
(* The invariant.                                                           *)

PairInv ==
    /\ TasksLinked /\ ItemsLinked /\ ClaimsDiffer
    /\ CommitsKnown => FilesFollow
    /\ Calm => PairsFollow
    /\ OneReconciler => OrphansKept /\ PendingMeansUploaded

\* The history of faults and replays only grows.
LEMMA HistoryGrows ==
    ASSUME CoreTypeOK, [Next]_vars
    PROVE  (CommitsKnown' => CommitsKnown) /\ (Calm' => Calm)
<1>1. workerFaults' = workerFaults \/ \E kind \in FaultKinds : WorkerFault(kind)
    <2>1. CASE WebStep
        BY <2>1 DEF WebStep, Upload, UploadDuplicate, DeleteObject, DeleteRecords, ReplayDead
    <2>2. ASSUME NEW w \in Workers, WorkerStep(w) \/ Heartbeat(w) \/ WorkerCrash(w)
          PROVE  workerFaults' = workerFaults \/ \E kind \in FaultKinds : WorkerFault(kind)
        BY <2>2 DEF WorkerStep, StartHeartbeat, LoadFile, Parse, IndexChunks, CleanUp, Complete,
           MarkFailed, Heartbeat, WorkerCrash, NoFault, FaultKinds
    <2>3. ASSUME NEW r \in Reconcilers, ReconcilerStep(r) \/ ReconcilerCrash(r)
          PROVE  workerFaults' = workerFaults \/ \E kind \in FaultKinds : WorkerFault(kind)
        BY <2>3 DEF ReconcilerStep, Scan, Pick, FailTaskOnly, ReconcileCompleted, ResetExpired,
           FailExpiredPair, FailPair, ReplayGap, FailGap, FailUnowned, AdoptOrphan, DoneWith, Conflict,
           ReconcilerCrash, FaultKinds
    <2>4. ASSUME NEW t \in Tasks, TakeMessage(t) \/ LoseMessage(t) \/ TaskDue(t)
          PROVE  workerFaults' = workerFaults \/ \E kind \in FaultKinds : WorkerFault(kind)
        BY <2>4 DEF TakeMessage, Deliver, DeliverRejected, coreVars, LoseMessage, TaskDue, FaultKinds
    <2>5. ASSUME NEW f \in Files, FileDue(f) PROVE workerFaults' = workerFaults
        BY <2>5 DEF FileDue
    <2> QED BY <2>1, <2>2, <2>3, <2>4, <2>5 DEF Next, CoreNext, RelayStep, coreVars, vars
<1>2. workerFaults.kinds \subseteq workerFaults'.kinds
    BY <1>1 DEF WorkerFault
<1>3. replays' = replays \/ replays' = replays + 1
    <2>1. CASE WebStep
        BY <2>1 DEF WebStep, Upload, UploadDuplicate, DeleteObject, DeleteRecords, ReplayDead
    <2>2. ASSUME NEW w \in Workers, WorkerStep(w) \/ Heartbeat(w) \/ WorkerCrash(w)
          PROVE  replays' = replays
        BY <2>2 DEF WorkerStep, StartHeartbeat, LoadFile, Parse, IndexChunks, CleanUp, Complete,
           MarkFailed, Heartbeat, WorkerCrash
    <2>3. ASSUME NEW r \in Reconcilers, ReconcilerStep(r) \/ ReconcilerCrash(r)
          PROVE  replays' = replays
        BY <2>3 DEF ReconcilerStep, Scan, Pick, FailTaskOnly, ReconcileCompleted, ResetExpired,
           FailExpiredPair, FailPair, ReplayGap, FailGap, FailUnowned, AdoptOrphan, DoneWith, Conflict,
           ReconcilerCrash
    <2>4. ASSUME NEW t \in Tasks, TakeMessage(t) \/ LoseMessage(t) \/ TaskDue(t)
          PROVE  replays' = replays
        BY <2>4 DEF TakeMessage, Deliver, DeliverRejected, coreVars, LoseMessage, TaskDue
    <2>5. ASSUME NEW f \in Files, FileDue(f) PROVE replays' = replays
        BY <2>5 DEF FileDue
    <2> QED BY <2>1, <2>2, <2>3, <2>4, <2>5 DEF Next, CoreNext, RelayStep, coreVars, vars
<1>4. replays' = 0 => replays = 0
    BY <1>3 DEF CoreTypeOK
<1> QED BY <1>2, <1>4 DEF CommitsKnown, Calm

LEMMA PairInit == Init => PairInv
<1> SUFFICES ASSUME Init PROVE PairInv
    OBVIOUS
<1>1. /\ \A t \in Tasks : task[t].status = "NONE" /\ task[t].file = NoFile
      /\ \A f \in Files : Status(f) = "NONE"
      /\ \A w \in Workers : worker[w].pc = "idle"
      /\ \A r \in Reconcilers : Items(r) = {} /\ InHandOf(r) = NoItem
    BY DEF Init, Status, Idle, Resting, Items, InHandOf
<1>2. TasksLinked /\ ItemsLinked /\ ClaimsDiffer
    BY <1>1 DEF TasksLinked, OneActiveTask, FilesThere, ActiveTask, ItemsLinked, ClaimsDiffer
<1>3. FilesFollow
    BY <1>1 DEF FilesFollow, HoldsWith, Holds, SeenStays, CompletedMeansReady
<1>4. PairsFollow
    BY <1>1 DEF PairsFollow, AcceptedHasTask, FailedMeansFailed, NoOrphans, PendingMeansUploaded,
       HoldsWith, Holds, SeenStays
<1>5. OrphansKept /\ PendingMeansUploaded
    BY <1>1 DEF OrphansKept, PendingMeansUploaded, NoItem
<1> QED BY <1>2, <1>3, <1>4, <1>5 DEF PairInv

LEMMA PairStep ==
    ASSUME CoreTypeOK, CoreTypeOK', PairInv, [Next]_vars
    PROVE  PairInv'
<1>1. Move
    BY StepIsMove
<1>2. Typed /\ Typed'
    <2>1. Typed
        BY TypedRows
    <2>2. CoreTypeOK' => Typed'
        BY TypedRows, PTL
    <2> QED BY <2>1, <2>2
<1>3. Linked /\ Linked'
    BY <1>1, <1>2, LinkedStep DEF Linked, PairInv
<1>4. CommitsKnown' => FilesFollow'
    BY <1>1, <1>3, HistoryGrows, FilesFollowStep DEF PairInv
<1>5. Calm' => PairsFollow'
    <2>1. Calm' => CommitsKnown
        BY HistoryGrows DEF Calm, CommitsKnown
    <2> QED BY <1>1, <1>3, <2>1, HistoryGrows, PairsFollowStep DEF PairInv
<1>6. OneReconciler => OrphansKept' /\ PendingMeansUploaded'
    BY <1>1, <1>2, <1>3, OrphansKeptStep, KeptOrphanInHand, PendingStep DEF PairInv
<1> QED BY <1>3, <1>4, <1>5, <1>6 DEF PairInv, Linked, OneReconciler

LEMMA PairCorrect == Safety => []PairInv
BY PairInit, PairStep, CoreTypeCorrect, CoreTypeStep, PTL DEF Safety

\* Whatever fails: a file has one ingestion at a time, and an attempt one worker.
THEOREM OneIngestionPerFile == Safety => [](OneActiveTask /\ ClaimsDiffer)
<1>1. PairInv => OneActiveTask /\ ClaimsDiffer
    BY DEF PairInv, TasksLinked
<1> QED BY <1>1, PairCorrect, PTL

\* For any number of reconciler runs: unless a commit was lost, no completed task whose
\* file cannot be searched; and where the database answers and nobody replays by hand, no
\* READY file with a failed task.
THEOREM FinishedPairsAgree ==
    Safety => []((CommitsKnown => CompletedMeansReady) /\ (Calm => ReadyTaskNotFailed))
<1>1. PairInv => (CommitsKnown => CompletedMeansReady)
    BY DEF PairInv, FilesFollow
<1>2. PairInv => (Calm => ReadyTaskNotFailed)
    <2> SUFFICES ASSUME PairsFollow PROVE ReadyTaskNotFailed
        BY DEF PairInv
    <2>1. ASSUME NEW t \in Tasks, task[t].status = "FAILED", FileIs(task[t].file, {"READY"})
          PROVE  FALSE
        BY <2>1, IngestionAssumption DEF PairsFollow, FailedMeansFailed, FileIs, Status
    <2> QED BY <2>1 DEF ReadyTaskNotFailed
<1> QED BY <1>1, <1>2, PairCorrect, PTL

\* With one run of the reconciler at a time, file and task never contradict each other.
THEOREM FilesAndTasksAgree == ASSUME OneReconciler PROVE Safety => []PairsAgree
<1>1. PairInv => PendingMeansUploaded
    BY DEF PairInv
<1>2. PendingMeansUploaded /\ (CommitsKnown => CompletedMeansReady) /\ (Calm => ReadyTaskNotFailed)
         => PairsAgree
    BY DEF PairsAgree, CommitsKnown, Calm
<1> QED BY <1>1, <1>2, PairCorrect, FinishedPairsAgree, PTL

-----------------------------------------------------------------------------
(* Leases.                                                                  *)

\* An attempt goes from one worker to another only after its lease has run out, and never
\* once its file is READY: the reconciler read the lease and the file again before it
\* opened the task, and it is the task of that file.
THEOREM LeasesAreKept == Safety => LiveAttemptKept
<1> DEFINE A == \A t \in Tasks :
                   task[t].status = "PROCESSING" /\ task'[t].status = "PENDING"
                      => task[t].due /\ ~FileIs(task[t].file, {"READY"})
<1>1. ASSUME CoreTypeOK, PairInv, [Next]_vars PROVE A
    <2> SUFFICES ASSUME NEW t \in Tasks, task[t].status = "PROCESSING", task'[t].status = "PENDING"
                 PROVE  task[t].due /\ ~FileIs(task[t].file, {"READY"})
        OBVIOUS
    <2>0. Move /\ Linked
        BY <1>1, StepIsMove, TypedRows DEF Linked, PairInv
    <2>1. ASSUME NEW f \in Files, MoveUpload(t, f) \/ MoveDuplicate(t, f) \/ MoveReplay(t, f)
                                  \/ \E r \in Reconcilers : MoveAdopt(r, t, f)
          PROVE  FALSE
        BY <2>1 DEF MoveUpload, MoveDuplicate, MoveReplay, MoveAdopt, MoveCreate
    <2>2. ASSUME NEW f \in Files, MoveRemove(f) PROVE FALSE
        BY <2>2 DEF MoveRemove
    <2>3. ASSUME NEW w \in Workers, MoveClaim(w, t) \/ (MoveSettle(w) /\ worker[w].task = t)
          PROVE  FALSE
        BY <2>3 DEF MoveClaim, MoveSettle, Becomes
    <2>4. ASSUME NEW r \in Reconcilers, InHandOf(r).task = t, MoveRepair(r) \/ MoveFailPair(r)
          PROVE  FALSE
        BY <2>4 DEF MoveRepair, MoveFailPair, Becomes
    <2>5. ASSUME NEW r \in Reconcilers, InHandOf(r).task = t, MoveReset(r)
          PROVE  task[t].due /\ ~FileIs(task[t].file, {"READY"})
        <3>1. task[t].file = InHandOf(r).file
            BY <2>0, <2>5, PairOfFile
        <3> QED BY <2>5, <3>1 DEF MoveReset, FileIs
    <2> QED BY <2>0, <2>1, <2>2, <2>3, <2>4, <2>5, TaskMove DEF Linked, SameTask
<1>2. CoreTypeOK /\ PairInv /\ [Next]_vars => [A]_vars
    BY <1>1
<1> QED BY <1>2, CoreTypeCorrect, PairCorrect, PTL DEF Safety, LiveAttemptKept

-----------------------------------------------------------------------------
(* What the user sees.                                                      *)

LEMMA Phases ==
    /\ Phase("NONE") = "none" /\ Phase("READY") = "ready" /\ Phase("FAILED") = "failed"
    /\ Phase("UPLOADED") = "accepted" /\ Phase("PARSING") = "accepted"
    /\ Phase("REMOVED") = "removed"
BY DEF Phase

\* The steps of FileLifecycle, and those it does not see.
PhaseStep(from, to) ==
    \/ to = from
    \/ from = "none" /\ to = "accepted"
    \/ from = "accepted" /\ to \in {"ready", "failed"}
    \/ from = "failed" /\ to = "accepted"
    \/ from \in {"accepted", "ready", "failed"} /\ to = "removed"

\* While every worker knows what it has committed, one file takes one such step.
LEMMA FilePhases ==
    ASSUME Linked, FilesFollow, Move
    PROVE  \/ SameFiles
           \/ \E f \in Files : OtherFiles(f) /\ PhaseStep(Phase(Status(f)), Phase(file'[f].status))
<1> DEFINE Steps(f) == OtherFiles(f) /\ PhaseStep(Phase(Status(f)), Phase(file'[f].status))
<1>1. ASSUME NEW t \in Tasks, NEW f \in Files, MoveUpload(t, f) \/ MoveReplay(t, f)
      PROVE  Steps(f)
    BY <1>1, Phases DEF MoveUpload, MoveReplay, FileBecomes, PhaseStep
<1>2. ASSUME NEW f \in Files, MoveRemove(f) PROVE Steps(f)
    <2>1. /\ Status(f) \in {"UPLOADED", "PARSING", "READY", "FAILED"}
          /\ file'[f].status = "REMOVED" /\ OtherFiles(f)
        BY <1>2 DEF MoveRemove, FileBecomes, Linked, Typed, FileStatus
    <2> QED BY <2>1, Phases DEF PhaseStep
<1>3. ASSUME NEW w \in Workers, MoveLoad(w) \/ MoveIndex(w)
      PROVE  FileOf(w) \in Files /\ Steps(FileOf(w))
    <2>1. /\ FileOf(w) \in Files /\ Status(FileOf(w)) \in {"UPLOADED", "PARSING"}
          /\ file'[FileOf(w)].status \in {"PARSING", "READY"} /\ OtherFiles(FileOf(w))
        BY <1>3 DEF MoveLoad, MoveIndex, FileIs, FileBecomes, Status
    <2> QED BY <2>1, Phases DEF PhaseStep
<1>4. ASSUME NEW w \in Workers, MoveCleanUp(w)
      PROVE  SameFiles \/ (FileOf(w) \in Files /\ Steps(FileOf(w)))
    <2>1. CASE FileIs(FileOf(w), {"UPLOADED", "PARSING", "READY"})
        <3>1. Holds(w) /\ worker[w].pc = "cleanup"
            BY <1>4, <2>1, WriterHolds DEF MoveCleanUp
        <3>2. Status(FileOf(w)) = "PARSING"
            BY <3>1 DEF FilesFollow, HoldsWith
        <3>3. /\ FileOf(w) \in Files
              /\ file'[FileOf(w)].status = "FAILED" /\ OtherFiles(FileOf(w))
            BY <1>4, <2>1 DEF MoveCleanUp, FileIs, FileBecomes
        <3> QED BY <3>2, <3>3, Phases DEF PhaseStep
    <2>2. CASE ~FileIs(FileOf(w), {"UPLOADED", "PARSING", "READY"})
        BY <1>4, <2>2 DEF MoveCleanUp
    <2> QED BY <2>1, <2>2
<1>5. ASSUME NEW r \in Reconcilers, MoveReset(r) \/ MoveFailPair(r) \/ MoveFailUnowned(r)
      PROVE  InHandOf(r).file \in Files /\ Steps(InHandOf(r).file)
    <2> DEFINE f == InHandOf(r).file
    <2>1. /\ f \in Files /\ Status(f) \in {"UPLOADED", "PARSING"}
          /\ file'[f].status \in {"UPLOADED", "FAILED"} /\ OtherFiles(f)
        BY <1>5 DEF MoveReset, MoveFailPair, MoveFailUnowned, FileIs, FileBecomes, Status
    <2> QED BY <2>1, Phases DEF PhaseStep
<1>6. ASSUME NEW w \in Workers, MoveOn(w) \/ MoveSettle(w) \/ \E t \in Tasks : MoveClaim(w, t)
      PROVE  SameFiles
    BY <1>6 DEF MoveOn, MoveSettle, MoveClaim
<1>7. ASSUME NEW r \in Reconcilers, MoveRepair(r) \/ MoveScan(r) \/ MovePick(r)
                                    \/ \E t \in Tasks, f \in Files : MoveAdopt(r, t, f)
      PROVE  SameFiles
    BY <1>7 DEF MoveRepair, MoveScan, MovePick, MoveAdopt
<1>8. ASSUME MoveNothing \/ \E t \in Tasks, f \in Files : MoveDuplicate(t, f) PROVE SameFiles
    BY <1>8 DEF MoveNothing, MoveDuplicate
<1> QED BY <1>1, <1>2, <1>3, <1>4, <1>5, <1>6, <1>7, <1>8 DEF Move

LEMMA PhasesAreLifecycleSteps ==
    ASSUME Linked, FilesFollow, Move, ReadyIffIndexed, ReadyIffIndexed', Typed',
           indexed \subseteq Files, indexed' \subseteq Files
    PROVE  [Lifecycle!Next]_(Lifecycle!vars)
<1> DEFINE phase == [f \in Files |-> Phase(file[f].status)]
<1>0. /\ \A f \in Files : Status(f) \in FileStatus /\ file'[f].status \in FileStatus
      /\ \A f \in Files : Status(f) = "READY" <=> f \in indexed
      /\ \A f \in Files : file'[f].status = "READY" <=> f \in indexed'
    BY DEF Linked, Typed, ReadyIffIndexed, Status
<1>1. \A f \in Files : (Phase(Status(f)) = "ready" <=> f \in indexed)
                       /\ (Phase(file'[f].status) = "ready" <=> f \in indexed')
    BY <1>0, Phases DEF FileStatus
<1>2. phase' = [f \in Files |-> Phase(file'[f].status)]
    OBVIOUS
<1>3. CASE SameFiles
    <2>1. phase' = phase /\ indexed' = indexed
        BY <1>1, <1>2, <1>3 DEF SameFiles, Status
    <2> QED BY <2>1 DEF Lifecycle!vars
<1>4. ASSUME NEW f \in Files, OtherFiles(f), PhaseStep(Phase(Status(f)), Phase(file'[f].status))
      PROVE  [Lifecycle!Next]_(Lifecycle!vars)
    <2> DEFINE from == Phase(Status(f))
               to == Phase(file'[f].status)
    <2>1. phase' = [phase EXCEPT ![f] = to] /\ phase[f] = from
        BY <1>2, <1>4 DEF OtherFiles, Status
    <2>2. indexed' \ {f} = indexed \ {f}
        BY <1>1, <1>4 DEF OtherFiles, Status
    <2>3. (from = "ready" <=> f \in indexed) /\ (to = "ready" <=> f \in indexed')
        BY <1>1
    <2> HIDE DEF phase, from, to
    <2>4. CASE to = from
        <3>1. \A g \in Files : Phase(file'[g].status) = Phase(file[g].status)
            BY <1>4, <2>4 DEF OtherFiles, Status, from, to
        <3>2. phase' = phase
            BY <1>2, <3>1 DEF phase
        <3>3. indexed' = indexed
            BY <2>2, <2>3, <2>4
        <3> QED BY <3>2, <3>3 DEF Lifecycle!vars, phase
    <2>5. CASE from = "none" /\ to = "accepted"
        <3>1. indexed' = indexed
            BY <2>2, <2>3, <2>5
        <3>2. Lifecycle!Accept(f)
            BY <2>1, <2>5, <3>1 DEF Lifecycle!Accept, Lifecycle!Move, phase
        <3> QED BY <3>2 DEF Lifecycle!Next
    <2>6. CASE from = "accepted" /\ to = "ready"
        <3>1. indexed' = indexed \cup {f}
            BY <2>2, <2>3, <2>6
        <3>2. Lifecycle!Succeed(f)
            BY <2>1, <2>6, <3>1 DEF Lifecycle!Succeed, Lifecycle!Move, phase
        <3> QED BY <3>2 DEF Lifecycle!Next, Lifecycle!Settle
    <2>7. CASE from = "accepted" /\ to = "failed"
        <3>1. indexed' = indexed
            BY <2>2, <2>3, <2>7
        <3>2. Lifecycle!Fail(f)
            BY <2>1, <2>7, <3>1 DEF Lifecycle!Fail, Lifecycle!Move, phase
        <3> QED BY <3>2 DEF Lifecycle!Next, Lifecycle!Settle
    <2>8. CASE from = "failed" /\ to = "accepted"
        <3>1. indexed' = indexed
            BY <2>2, <2>3, <2>8
        <3>2. Lifecycle!Reopen(f)
            BY <2>1, <2>8, <3>1 DEF Lifecycle!Reopen, Lifecycle!Move, phase
        <3> QED BY <3>2 DEF Lifecycle!Next
    <2>9. CASE from \in {"accepted", "ready", "failed"} /\ to = "removed"
        <3>1. indexed' = indexed \ {f}
            BY <2>2, <2>3, <2>9
        <3>2. Lifecycle!Remove(f)
            BY <2>1, <2>9, <3>1 DEF Lifecycle!Remove, Lifecycle!Move, phase
        <3> QED BY <3>2 DEF Lifecycle!Next
    <2>10. PhaseStep(from, to)
        BY <1>4 DEF from, to
    <2> QED BY <2>4, <2>5, <2>6, <2>7, <2>8, <2>9, <2>10 DEF PhaseStep
<1> QED BY <1>3, <1>4, FilePhases

\* As long as no commit is lost, the pipeline implements the lifecycle the user is
\* promised, whatever crashes, fails, is deleted or replayed: a ready file stays ready
\* until it is deleted, a failed one failed until an operator replays it.
THEOREM PipelineKeepsLifecycle == Safety /\ []CommitsKnown => KeepsLifecycle
<1>1. Init => Lifecycle!Init
    BY Phases DEF Init, Lifecycle!Init
<1>2. ASSUME CoreTypeOK, CoreTypeOK', PairInv, ReadyIffIndexed, ReadyIffIndexed', CommitsKnown,
             [Next]_vars
      PROVE  [Lifecycle!Next]_(Lifecycle!vars)
    <2>1. Move /\ Typed
        BY <1>2, StepIsMove, TypedRows
    <2>2. CoreTypeOK' => Typed'
        BY TypedRows, PTL
    <2>3. Linked /\ FilesFollow
        BY <1>2, <2>1 DEF Linked, PairInv
    <2>4. indexed \subseteq Files /\ indexed' \subseteq Files
        BY <1>2 DEF CoreTypeOK
    <2> QED BY <1>2, <2>1, <2>2, <2>3, <2>4, PhasesAreLifecycleSteps
<1>3. CoreTypeOK /\ CoreTypeOK' /\ PairInv /\ ReadyIffIndexed /\ ReadyIffIndexed' /\ CommitsKnown
         /\ [Next]_vars => [Lifecycle!Next]_(Lifecycle!vars)
    BY <1>2
<1> QED BY <1>1, <1>3, CoreTypeCorrect, PairCorrect, ChunksIffReady, PTL
        DEF Safety, KeepsLifecycle, Lifecycle!Safety
=============

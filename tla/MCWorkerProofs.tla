--------------------------- MODULE MCWorkerProofs ---------------------------
(***************************************************************************)
(* Proofs about what a process keeps for its tasks, for any number of      *)
(* calls, beats, tasks and runs and any value of the bounds: one section   *)
(* for each component of MCWorker, the calls to providers first, and the   *)
(* theorems of the suite at the end.                                       *)
(***************************************************************************)
EXTENDS MCWorker, Integers, FiniteSetTheorems, TLAPS

(***************************************************************************)
(* ProviderCalls: for any finite number of calls and any length of the     *)
(* route, threshold, number of probes and of slots.  A step changes one    *)
(* call; of the others it can only take the mark of a probe.               *)
(***************************************************************************)
Status == {"idle", "waiting", "trying", "calling", "answered", "failed"}
CallRow == [st : Status, at : Candidates, chunk : BOOLEAN, probe : BOOLEAN, sources : SUBSET Candidates]
BreakerRow == [state : States, failures : 0..Threshold, cooled : BOOLEAN, inflight : 0..HalfOpenMax]

Holds(c) == call[c].st \in {"trying", "calling"}
Holders == {c \in Calls : Holds(c)}

\* A breaker that is not half open has no probes out.
ProbesInv ==
    \A k \in Candidates :
        IF breaker[k].state = "half_open" THEN Cardinality(Probes(k)) <= breaker[k].inflight
        ELSE Probes(k) = {}

\* The consumer has what the candidate sent that the call is at, or nothing.
SourceInv == \A c \in Calls : call[c].sources = IF call[c].chunk THEN {call[c].at} ELSE {}

CallsInv == TypeOK /\ SlotsKept /\ ProbesInv /\ ClosedBelowThreshold /\ SourceInv

\* Of all calls but c nothing changes, except that a probe may be a probe no more.
Alone(c) ==
    /\ call' \in [Calls -> CallRow]
    /\ \A d \in Calls : d # c =>
          /\ call'[d].st = call[d].st /\ call'[d].at = call[d].at
          /\ call'[d].chunk = call[d].chunk /\ call'[d].sources = call[d].sources
          /\ call'[d].probe => call[d].probe

-----------------------------------------------------------------------------
LEMMA CallsConstants ==
    /\ Route \in Nat \ {0} /\ Threshold \in Nat \ {0} /\ HalfOpenMax \in Nat \ {0}
    /\ MaxConcurrency \in Nat \ {0} /\ MaxFailures \in Nat /\ MaxCancels \in Nat
    /\ IsFiniteSet(Calls)
BY CallsAssumption

LEMMA Finite ==
    /\ IsFiniteSet(Holders) /\ Cardinality(Holders) \in Nat
    /\ \A k : IsFiniteSet(Probes(k)) /\ Cardinality(Probes(k)) \in Nat
<1>1. Holders \in SUBSET Calls /\ \A k : Probes(k) \in SUBSET Calls
    BY DEF Holders, Probes
<1> QED BY <1>1, CallsConstants, FS_Subset, FS_CardinalityType

LEMMA CallsInit == Init => CallsInv
<1> SUFFICES ASSUME Init PROVE CallsInv
    OBVIOUS
<1>1. Idle \in CallRow
    BY CallsConstants DEF Idle, CallRow, Status, Candidates
<1>2. call \in [Calls -> CallRow] /\ \A c \in Calls : call[c] = Idle
    BY <1>1 DEF Init
<1>3. [state |-> "closed", failures |-> 0, cooled |-> FALSE, inflight |-> 0] \in BreakerRow
    BY CallsConstants DEF BreakerRow, States
<1>4. TypeOK
    BY <1>2, <1>3, CallsConstants DEF Init, TypeOK, CallRow, Status, BreakerRow
<1>5. SlotsKept
    <2>1. {c \in Calls : call[c].st \in {"trying", "calling"}} = {}
        BY <1>2 DEF Idle
    <2> QED BY <2>1, FS_EmptySet, CallsConstants DEF Init, SlotsKept
<1>6. ProbesInv
    <2>1. \A k \in Candidates : breaker[k].state = "closed" /\ Probes(k) = {}
        BY <1>2 DEF Init, Probes, Idle
    <2> QED BY <2>1 DEF ProbesInv
<1>7. ClosedBelowThreshold /\ SourceInv
    BY <1>2, CallsConstants DEF Init, ClosedBelowThreshold, SourceInv, Idle
<1> QED BY <1>4, <1>5, <1>6, <1>7 DEF CallsInv

-----------------------------------------------------------------------------
(* What one call's step does to the slots, the probes and the sources.      *)

LEMMA SlotStep ==
    ASSUME CallsInv, NEW c \in Calls, Alone(c),
           \/ Holds(c) /\ Holds(c)' /\ free' = free
           \/ ~Holds(c) /\ ~Holds(c)' /\ free' = free
           \/ Holds(c) /\ ~Holds(c)' /\ free' = free + 1
           \/ ~Holds(c) /\ Holds(c)' /\ free > 0 /\ free' = free - 1
    PROVE  SlotsKept' /\ free' \in 0..MaxConcurrency
<1>1. free + Cardinality(Holders) = MaxConcurrency /\ free \in 0..MaxConcurrency
    BY DEF CallsInv, TypeOK, SlotsKept, Holders, Holds
<1>2. \A d \in Calls : d # c => (Holds(d)' <=> Holds(d))
    BY DEF Alone, Holds
<1>3. Holders' = IF Holds(c)' THEN Holders \cup {c} ELSE Holders \ {c}
    BY <1>2 DEF Holders
<1>4. c \in Holders <=> Holds(c)
    BY DEF Holders
<1>5. /\ Cardinality(Holders \cup {c}) = IF Holds(c) THEN Cardinality(Holders) ELSE Cardinality(Holders) + 1
      /\ Cardinality(Holders \ {c}) = IF Holds(c) THEN Cardinality(Holders) - 1 ELSE Cardinality(Holders)
    BY <1>4, Finite, FS_AddElement, FS_RemoveElement
<1>6. Cardinality(Holders') \in Nat
    <2>1. Holders' \in SUBSET Calls
        BY DEF Holders
    <2> QED BY <2>1, CallsConstants, FS_Subset, FS_CardinalityType
<1>7. free' + Cardinality(Holders') = MaxConcurrency
    <2>1. CASE Holds(c)'
        BY <1>1, <1>3, <1>5, <2>1, Finite, CallsConstants
    <2>2. CASE ~Holds(c)'
        BY <1>1, <1>3, <1>5, <2>2, Finite, CallsConstants
    <2> QED BY <2>1, <2>2
<1>8. free' \in Nat
    BY <1>1, CallsConstants
<1> QED BY <1>6, <1>7, <1>8, CallsConstants DEF SlotsKept, Holders, Holds

\* No call becomes a probe, and half-open periods only end.
LEMMA BreakerProbeStep ==
    ASSUME CallsInv, NEW c \in Calls, Alone(c),
           call'[c].st = "calling" => UNCHANGED <<call[c].st, call[c].at, call[c].probe>>,
           \A k \in Candidates :
              \/ UNCHANGED <<breaker[k].state, breaker[k].inflight>>
              \/ /\ breaker'[k].state # "half_open"
                 /\ breaker[k].state = "half_open" =>
                       \A d \in Calls : call'[d].at = k /\ call'[d].st = "calling" => ~call'[d].probe
    PROVE  ProbesInv'
<1> SUFFICES ASSUME NEW k \in Candidates
             PROVE  IF breaker'[k].state = "half_open" THEN Cardinality(Probes(k)') <= breaker'[k].inflight
                    ELSE Probes(k)' = {}
    BY DEF ProbesInv
<1>1. Probes(k)' \subseteq Probes(k)
    BY DEF Alone, Probes
<1>2. CASE UNCHANGED <<breaker[k].state, breaker[k].inflight>>
    <2>1. CASE breaker[k].state = "half_open"
        <3>1. Cardinality(Probes(k)') <= Cardinality(Probes(k)) /\ Cardinality(Probes(k)') \in Nat
            BY <1>1, Finite, FS_Subset, FS_CardinalityType
        <3>2. Cardinality(Probes(k)) <= breaker[k].inflight /\ breaker[k].inflight \in Nat
            BY <2>1, CallsConstants DEF CallsInv, ProbesInv, TypeOK
        <3> QED BY <1>2, <2>1, <3>1, <3>2, Finite
    <2>2. CASE breaker[k].state # "half_open"
        BY <1>1, <1>2, <2>2 DEF CallsInv, ProbesInv
    <2> QED BY <2>1, <2>2
<1>3. CASE /\ breaker'[k].state # "half_open"
           /\ breaker[k].state = "half_open" =>
                \A d \in Calls : call'[d].at = k /\ call'[d].st = "calling" => ~call'[d].probe
    <2>1. CASE breaker[k].state = "half_open"
        BY <1>3, <2>1 DEF Probes
    <2>2. CASE breaker[k].state # "half_open"
        BY <1>1, <1>3, <2>2 DEF CallsInv, ProbesInv
    <2> QED BY <2>1, <2>2
<1> QED BY <1>2, <1>3

LEMMA SourceStep ==
    ASSUME CallsInv, NEW c \in Calls, Alone(c),
           call'[c].sources = IF call'[c].chunk THEN {call'[c].at} ELSE {}
    PROVE  SourceInv'
BY DEF CallsInv, SourceInv, Alone

\* The end of a half-open period takes the mark of its probes.
LEMMA LeaveType ==
    ASSUME NEW calls \in [Calls -> CallRow], NEW k \in Candidates
    PROVE  Leave(calls, k) \in [Calls -> CallRow]
<1>1. \A e \in Calls : [calls[e] EXCEPT !.probe = calls[e].probe /\ calls[e].at # k] \in CallRow
    <2> TAKE e \in Calls
    <2>1. calls[e] \in CallRow
        OBVIOUS
    <2>2. (calls[e].probe /\ calls[e].at # k) \in BOOLEAN
        OBVIOUS
    <2> QED BY <2>1, <2>2 DEF CallRow
<1>2. Leave(calls, k) = [e \in Calls |-> [calls[e] EXCEPT !.probe = calls[e].probe /\ calls[e].at # k]]
    BY DEF Leave
<1> QED BY <1>1, <1>2

LEMMA LeaveRows ==
    ASSUME NEW calls \in [Calls -> CallRow], NEW k \in Candidates, NEW d \in Calls
    PROVE  /\ Leave(calls, k)[d].st = calls[d].st /\ Leave(calls, k)[d].at = calls[d].at
           /\ Leave(calls, k)[d].chunk = calls[d].chunk /\ Leave(calls, k)[d].sources = calls[d].sources
           /\ Leave(calls, k)[d].probe => calls[d].probe /\ calls[d].at # k
<1>1. Leave(calls, k) = [e \in Calls |-> [calls[e] EXCEPT !.probe = calls[e].probe /\ calls[e].at # k]]
    BY DEF Leave
<1>2. calls[d] \in CallRow
    OBVIOUS
<1>3. Leave(calls, k)[d] = [calls[d] EXCEPT !.probe = calls[d].probe /\ calls[d].at # k]
    BY <1>1
<1>4. /\ Leave(calls, k)[d].st = calls[d].st /\ Leave(calls, k)[d].at = calls[d].at
      /\ Leave(calls, k)[d].chunk = calls[d].chunk /\ Leave(calls, k)[d].sources = calls[d].sources
    BY <1>2, <1>3 DEF CallRow
<1>5. Leave(calls, k)[d].probe = (calls[d].probe /\ calls[d].at # k)
    BY <1>2, <1>3, Zenon DEF CallRow
<1>6. Leave(calls, k)[d].probe => calls[d].probe /\ calls[d].at # k
    BY <1>5, Zenon
<1> QED BY <1>4, <1>6

-----------------------------------------------------------------------------
(* The steps.                                                               *)

Rows == call \in [Calls -> CallRow] /\ breaker \in [Candidates -> BreakerRow]

LEMMA TypesAreRows ==
    TypeOK <=> Rows /\ free \in 0..MaxConcurrency /\ failures \in 0..MaxFailures /\ cancels \in 0..MaxCancels
BY DEF TypeOK, Rows, CallRow, Status, BreakerRow

LEMMA OneCall ==
    ASSUME call \in [Calls -> CallRow], NEW c \in Calls, NEW new \in CallRow, call' = [call EXCEPT ![c] = new]
    PROVE  Alone(c) /\ call'[c] = new
BY DEF Alone

\* A call that goes on to the next candidate, or gives up: its new row.
Onward(c, row) ==
    IF MovesOn(call[c])
    THEN row = [call[c] EXCEPT !.st = "trying", !.at = @ + 1, !.probe = FALSE, !.chunk = FALSE]
    ELSE row = [call[c] EXCEPT !.st = "failed", !.probe = FALSE]

LEMMA OnwardRow ==
    ASSUME CallsInv, NEW c \in Calls, NEW row, Onward(c, row)
    PROVE  /\ row \in CallRow
           /\ row.st = IF MovesOn(call[c]) THEN "trying" ELSE "failed"
           /\ row.sources = IF row.chunk THEN {row.at} ELSE {}
<1>1. call[c] \in CallRow
    BY TypesAreRows DEF CallsInv, Rows
<1>2. call[c].sources = IF call[c].chunk THEN {call[c].at} ELSE {}
    BY DEF CallsInv, SourceInv
<1>3. CASE MovesOn(call[c])
    <2>1. ~call[c].chunk /\ call[c].at + 1 \in Candidates
        BY <1>3 DEF MovesOn
    <2>2. row = [call[c] EXCEPT !.st = "trying", !.at = call[c].at + 1, !.probe = FALSE, !.chunk = FALSE]
        BY <1>3 DEF Onward
    <2>3. row \in CallRow /\ row.st = "trying" /\ row.chunk = FALSE /\ row.sources = call[c].sources
        BY <1>1, <2>1, <2>2 DEF CallRow, Status
    <2> QED BY <1>2, <1>3, <2>1, <2>3
<1>4. CASE ~MovesOn(call[c])
    <2>1. row = [call[c] EXCEPT !.st = "failed", !.probe = FALSE]
        BY <1>4 DEF Onward
    <2>2. /\ row \in CallRow /\ row.st = "failed" /\ row.sources = call[c].sources
          /\ row.chunk = call[c].chunk /\ row.at = call[c].at
        BY <1>1, <2>1 DEF CallRow, Status
    <2> QED BY <1>2, <1>4, <2>2
<1> QED BY <1>3, <1>4

\* Steps that leave the breakers alone and make no probe.
LEMMA QuietStep ==
    ASSUME CallsInv, NEW c \in Calls, NEW new \in CallRow, call' = [call EXCEPT ![c] = new],
           UNCHANGED breaker, failures' \in 0..MaxFailures, cancels' \in 0..MaxCancels,
           new.st = "calling" => UNCHANGED call[c].st /\ new.at = call[c].at /\ new.probe = call[c].probe,
           new.sources = IF new.chunk THEN {new.at} ELSE {},
           LET had == call[c].st \in {"trying", "calling"} holds == new.st \in {"trying", "calling"}
           IN  \/ (had <=> holds) /\ free' = free
               \/ had /\ ~holds /\ free' = free + 1
               \/ ~had /\ holds /\ free > 0 /\ free' = free - 1
    PROVE  CallsInv'
<1>1. Rows
    BY TypesAreRows DEF CallsInv
<1>2. Alone(c) /\ call'[c] = new
    BY <1>1, OneCall DEF Rows
<1>3. SlotsKept' /\ free' \in 0..MaxConcurrency
    BY <1>2, SlotStep DEF Holds
<1>4. ProbesInv'
    BY <1>2, BreakerProbeStep
<1>5. SourceInv'
    BY <1>2, SourceStep
<1>6. ClosedBelowThreshold'
    BY DEF CallsInv, ClosedBelowThreshold
<1>7. TypeOK'
    <2>1. Rows'
        BY <1>1, <1>2 DEF Rows, Alone
    <2> QED BY <1>3, <2>1, TypesAreRows DEF TypeOK, Rows, CallRow, Status, BreakerRow
<1> QED BY <1>3, <1>4, <1>5, <1>6, <1>7 DEF CallsInv

LEMMA QuietSteps ==
    ASSUME CallsInv, NEW c \in Calls, Start(c) \/ TakeSlot(c) \/ Rejected(c) \/ Chunk(c) \/ Cancel(c)
    PROVE  CallsInv'
<1>1. call[c] \in CallRow /\ call \in [Calls -> CallRow]
    BY TypesAreRows DEF CallsInv, Rows
<1>2. call[c].sources = IF call[c].chunk THEN {call[c].at} ELSE {}
    BY DEF CallsInv, SourceInv
<1>3. failures \in 0..MaxFailures /\ cancels \in 0..MaxCancels /\ free \in 0..MaxConcurrency
    BY DEF CallsInv, TypeOK
<1>4. CASE Start(c)
    <2> DEFINE new == [Idle EXCEPT !.st = "waiting"]
    <2>1. new \in CallRow /\ new.st = "waiting" /\ new.chunk = FALSE /\ new.sources = {}
        <3>1. Idle \in CallRow /\ Idle.chunk = FALSE /\ Idle.sources = {}
            BY CallsConstants DEF Idle, CallRow, Status, Candidates
        <3> QED BY <3>1 DEF CallRow, Status
    <2>2. call' = [call EXCEPT ![c] = new] /\ call[c].st \in {"idle", "answered", "failed"}
          /\ UNCHANGED <<breaker, free, failures, cancels>>
        BY <1>4 DEF Start
    <2> QED BY <1>3, <2>1, <2>2, QuietStep
<1>5. CASE TakeSlot(c)
    <2> DEFINE new == [call[c] EXCEPT !.st = "trying"]
    <2>1. /\ new \in CallRow /\ new.st = "trying" /\ new.chunk = call[c].chunk
          /\ new.at = call[c].at /\ new.sources = call[c].sources
        BY <1>1 DEF CallRow, Status
    <2>2. call' = [call EXCEPT ![c] = new] /\ call[c].st = "waiting" /\ free > 0 /\ free' = free - 1
          /\ UNCHANGED <<breaker, failures, cancels>>
        BY <1>1, <1>5 DEF TakeSlot
    <2> QED BY <1>2, <1>3, <2>1, <2>2, QuietStep
<1>6. CASE Rejected(c)
    <2>1. PICK new : Onward(c, new) /\ call' = [call EXCEPT ![c] = new]
                     /\ free' = IF MovesOn(call[c]) THEN free ELSE free + 1
        <3>1. CASE MovesOn(call[c])
            BY <1>1, <1>6, <3>1 DEF Rejected, NextOrFail, Onward
        <3>2. CASE ~MovesOn(call[c])
            BY <1>1, <1>6, <3>2 DEF Rejected, NextOrFail, Onward
        <3> QED BY <3>1, <3>2
    <2>2. call[c].st = "trying" /\ UNCHANGED <<breaker, failures, cancels>>
        BY <1>6 DEF Rejected
    <2>3. /\ new \in CallRow /\ new.st = IF MovesOn(call[c]) THEN "trying" ELSE "failed"
          /\ new.sources = IF new.chunk THEN {new.at} ELSE {}
        BY <2>1, OnwardRow
    <2> QED BY <1>3, <2>1, <2>2, <2>3, QuietStep
<1>7. CASE Chunk(c)
    <2> DEFINE new == [call[c] EXCEPT !.chunk = TRUE, !.sources = call[c].sources \cup {call[c].at}]
    <2>1. call[c].st = "calling" /\ ~call[c].chunk /\ call[c].sources = {}
        BY <1>2, <1>7 DEF Chunk
    <2>2. /\ new \in CallRow /\ new.st = "calling" /\ new.chunk = TRUE
          /\ new.at = call[c].at /\ new.probe = call[c].probe /\ new.sources = {call[c].at}
        BY <1>1, <2>1 DEF CallRow
    <2>3. call' = [call EXCEPT ![c] = new] /\ UNCHANGED <<breaker, free, failures, cancels>>
        BY <1>1, <1>7 DEF Chunk
    <2>4. call'[c].st = call[c].st
        BY <1>1, <2>1, <2>2, <2>3
    <2> QED BY <1>3, <2>1, <2>2, <2>3, <2>4, QuietStep
<1>8. CASE Cancel(c)
    <2> DEFINE new == [call[c] EXCEPT !.st = "failed", !.probe = FALSE]
    <2>1. /\ new \in CallRow /\ new.st = "failed" /\ new.chunk = call[c].chunk
          /\ new.at = call[c].at /\ new.sources = call[c].sources
        BY <1>1 DEF CallRow, Status
    <2>2. call' = [call EXCEPT ![c] = new] /\ UNCHANGED <<breaker, failures>>
        BY <1>1, <1>8 DEF Cancel
    <2>3. cancels' \in 0..MaxCancels
        BY <1>3, <1>8, CallsConstants DEF Cancel
    <2>4. free' = IF call[c].st \in {"trying", "calling"} THEN free + 1 ELSE free
        BY <1>3, <1>8 DEF Cancel, Returned
    <2> QED BY <1>2, <1>3, <2>1, <2>2, <2>3, <2>4, QuietStep
<1> QED BY <1>4, <1>5, <1>6, <1>7, <1>8

LEMMA Counts == 0 \in 0..Threshold /\ 0 \in 0..HalfOpenMax /\ 1 \in 0..HalfOpenMax
BY CallsConstants

LEMMA BreakerRows ==
    ASSUME NEW b \in BreakerRow
    PROVE  /\ OnSuccess(b) \in BreakerRow /\ OnFailure(b) \in BreakerRow
           /\ b.state = "open" => OnSuccess(b) = b
           /\ b.state # "open" => OnSuccess(b).state = "closed" /\ OnSuccess(b).failures = 0
           /\ OnFailure(b).state # "half_open"
           /\ OnFailure(b).state = "closed" /\ b.failures < Threshold => OnFailure(b).failures < Threshold
           /\ OnFailure(b).state = "closed" => b.state = "closed"
<1> DEFINE n == IF b.failures >= Threshold THEN Threshold ELSE b.failures + 1
<1>1. n \in 0..Threshold
    BY CallsConstants DEF BreakerRow
<1>2. /\ OnSuccess(b) \in BreakerRow
      /\ b.state = "open" => OnSuccess(b) = b
      /\ b.state # "open" => OnSuccess(b).state = "closed" /\ OnSuccess(b).failures = 0
    <2>1. CASE b.state = "open"
        BY <2>1 DEF OnSuccess
    <2>2. CASE b.state # "open"
        <3>1. OnSuccess(b) = [b EXCEPT !.state = "closed", !.failures = 0, !.inflight = 0]
            BY <2>2 DEF OnSuccess
        <3> QED BY <2>2, <3>1, Counts DEF BreakerRow, States
    <2> QED BY <2>1, <2>2
<1>3. CASE b.state = "half_open"
    <2>1. OnFailure(b) = [b EXCEPT !.state = "open", !.failures = n, !.cooled = FALSE, !.inflight = 0]
        BY <1>3 DEF OnFailure
    <2>2. OnFailure(b) \in BreakerRow /\ OnFailure(b).state = "open"
        BY <1>1, <2>1, Counts DEF BreakerRow, States
    <2> QED BY <1>2, <2>2
<1>4. CASE b.state = "closed" /\ n >= Threshold
    <2>1. OnFailure(b) = [b EXCEPT !.state = "open", !.failures = n, !.cooled = FALSE]
        BY <1>4 DEF OnFailure
    <2>2. OnFailure(b) \in BreakerRow /\ OnFailure(b).state = "open"
        BY <1>1, <2>1 DEF BreakerRow, States
    <2> QED BY <1>2, <2>2
<1>5. CASE b.state # "half_open" /\ ~(b.state = "closed" /\ n >= Threshold)
    <2>1. OnFailure(b) = [b EXCEPT !.failures = n, !.cooled = FALSE]
        BY <1>5 DEF OnFailure
    <2>2. OnFailure(b) \in BreakerRow /\ OnFailure(b).state = b.state /\ OnFailure(b).failures = n
        BY <1>1, <2>1 DEF BreakerRow, States
    <2>3. b.state = "closed" => n < Threshold
        BY <1>1, <1>5, CallsConstants
    <2> QED BY <1>2, <1>5, <2>2, <2>3
<1> QED BY <1>3, <1>4, <1>5

LEMMA AcquireStep ==
    ASSUME CallsInv, NEW c \in Calls, Acquire(c)
    PROVE  CallsInv'
<1> DEFINE k == call[c].at
           b == breaker[k]
           new == [call[c] EXCEPT !.st = "calling", !.probe = b.state # "closed"]
<1>1. Rows /\ call[c] \in CallRow /\ k \in Candidates /\ b \in BreakerRow
    BY TypesAreRows DEF CallsInv, Rows, CallRow
<1>2. /\ call[c].st = "trying" /\ Admits(b) /\ breaker' = [breaker EXCEPT ![k] = Entered(b)]
      /\ call' = [call EXCEPT ![c] = new] /\ UNCHANGED <<free, failures, cancels>>
    BY <1>1 DEF Acquire, Rows
<1>3. /\ new \in CallRow /\ new.st = "calling" /\ new.at = k
      /\ new.chunk = call[c].chunk /\ new.sources = call[c].sources
    BY <1>1 DEF CallRow, Status
<1>4. new.probe <=> b.state # "closed"
    BY <1>1, Zenon DEF CallRow
<1>5. Alone(c) /\ call'[c] = new
    BY <1>1, <1>2, <1>3, OneCall DEF Rows
<1>6. SlotsKept' /\ free' \in 0..MaxConcurrency
    BY <1>2, <1>3, <1>5, SlotStep DEF Holds
<1>7. SourceInv'
    <2>1. call[c].sources = IF call[c].chunk THEN {call[c].at} ELSE {}
        BY DEF CallsInv, SourceInv
    <2> QED BY ZenonT(60), <1>3, <1>5, <2>1, SourceStep
<1>8. /\ Entered(b) \in BreakerRow
      /\ b.state = "closed" => Entered(b) = b
      /\ b.state = "open" => Entered(b).state = "half_open" /\ Entered(b).inflight = 1
      /\ b.state = "half_open" => Entered(b).state = "half_open" /\ Entered(b).inflight = b.inflight + 1
    <2>1. CASE b.state = "closed"
        BY <1>1, <2>1 DEF Entered
    <2>2. CASE b.state = "open"
        <3>1. Entered(b) = [b EXCEPT !.state = "half_open", !.inflight = 1]
            BY <2>2 DEF Entered
        <3> QED BY <1>1, <2>2, <3>1, Counts DEF BreakerRow, States
    <2>3. CASE b.state = "half_open"
        <3>1. Entered(b) = [b EXCEPT !.inflight = b.inflight + 1]
            BY <2>3 DEF Entered
        <3>2. b.inflight + 1 \in 0..HalfOpenMax
            BY <1>1, <1>2, <2>3, CallsConstants DEF Admits, BreakerRow
        <3> QED BY <1>1, <2>3, <3>1, <3>2 DEF BreakerRow
    <2> QED BY <1>1, <2>1, <2>2, <2>3 DEF BreakerRow, States
<1>9. TypeOK'
    <2>1. Rows'
        BY <1>1, <1>2, <1>5, <1>8 DEF Rows, Alone
    <2> QED BY <1>2, <1>6, <2>1 DEF CallsInv, TypeOK, Rows, CallRow, Status, BreakerRow
<1>10. breaker'[k] = Entered(b) /\ \A j \in Candidates : j # k => breaker'[j] = breaker[j]
    BY <1>1, <1>2 DEF Rows
<1>11. ClosedBelowThreshold'
    BY <1>1, <1>8, <1>10 DEF CallsInv, ClosedBelowThreshold, BreakerRow, States
<1>12. ProbesInv'
    <2> SUFFICES ASSUME NEW j \in Candidates
                 PROVE  IF breaker'[j].state = "half_open" THEN Cardinality(Probes(j)') <= breaker'[j].inflight
                        ELSE Probes(j)' = {}
        BY DEF ProbesInv
    <2>1. CASE j # k
        <3>1. Probes(j)' = Probes(j)
            <4>1. \A d \in Calls : d # c => call'[d] = call[d]
                BY <1>1, <1>2 DEF Rows
            <4> QED BY <1>2, <1>3, <1>5, <2>1, <4>1 DEF Probes
        <3> QED BY <1>10, <2>1, <3>1 DEF CallsInv, ProbesInv
    <2>2. CASE j = k
        <3>1. Probes(j)' \subseteq (IF b.state = "closed" THEN Probes(j) ELSE Probes(j) \cup {c})
            BY ZenonT(60), <1>3, <1>4, <1>5, <2>2 DEF Alone, Probes
        <3>2. CASE b.state = "closed"
            BY <1>8, <1>10, <2>2, <3>1, <3>2 DEF CallsInv, ProbesInv
        <3>3. CASE b.state # "closed"
            <4>1. /\ IsFiniteSet(Probes(j) \cup {c})
                  /\ Cardinality(Probes(j) \cup {c}) <= Cardinality(Probes(j)) + 1
                  /\ Cardinality(Probes(j) \cup {c}) \in Nat
                <5>1. IsFiniteSet(Probes(j)) /\ Cardinality(Probes(j)) \in Nat
                    BY Finite
                <5>2. IsFiniteSet(Probes(j) \cup {c})
                    BY <5>1, FS_AddElement
                <5>3. Cardinality(Probes(j) \cup {c}) =
                        IF c \in Probes(j) THEN Cardinality(Probes(j)) ELSE Cardinality(Probes(j)) + 1
                    BY <5>1, FS_AddElement
                <5> QED BY <5>1, <5>2, <5>3
            <4>2. Cardinality(Probes(j)') <= Cardinality(Probes(j)) + 1 /\ Cardinality(Probes(j)') \in Nat
                <5>1. Probes(j)' \in SUBSET (Probes(j) \cup {c})
                    BY <3>1, <3>3
                <5>2. Cardinality(Probes(j)') <= Cardinality(Probes(j) \cup {c}) /\ IsFiniteSet(Probes(j)')
                    BY <4>1, <5>1, FS_Subset
                <5> QED BY <4>1, <5>2, Finite, FS_CardinalityType
            <4>3. CASE b.state = "open"
                <5>1. Cardinality(Probes(j)) = 0
                    BY <2>2, <4>3, FS_EmptySet DEF CallsInv, ProbesInv
                <5> QED BY <1>8, <1>10, <2>2, <4>2, <4>3, <5>1
            <4>4. CASE b.state = "half_open"
                <5>1. Cardinality(Probes(j)) <= b.inflight /\ b.inflight \in Nat
                    BY <1>1, <2>2, <4>4, CallsConstants DEF CallsInv, ProbesInv, BreakerRow
                <5> QED BY <1>8, <1>10, <2>2, <4>2, <4>4, <5>1, Finite
            <4> QED BY <1>1, <3>3, <4>3, <4>4 DEF BreakerRow, States
        <3> QED BY <3>2, <3>3
    <2> QED BY <2>1, <2>2
<1> QED BY <1>6, <1>7, <1>9, <1>11, <1>12 DEF CallsInv

\* A call that ends its stay at a candidate, and with it perhaps a half-open period.
LEMMA EndedRow ==
    ASSUME Rows, NEW c \in Calls, NEW k \in Candidates, NEW row \in CallRow,
           LET ended == [call EXCEPT ![c] = row]
           IN  call' = IF breaker[k].state = "half_open" THEN Leave(ended, k) ELSE ended
    PROVE  /\ Alone(c)
           /\ call'[c].st = row.st /\ call'[c].at = row.at
           /\ call'[c].chunk = row.chunk /\ call'[c].sources = row.sources
           /\ breaker[k].state = "half_open" => \A d \in Calls : call'[d].at = k => ~call'[d].probe
<1> DEFINE ended == [call EXCEPT ![c] = row]
<1>1. /\ ended \in [Calls -> CallRow] /\ ended[c] = row
      /\ \A d \in Calls : d # c => ended[d] = call[d]
    BY DEF Rows
<1>2. CASE breaker[k].state = "half_open"
    <2>1. call' = Leave(ended, k)
        BY <1>2
    <2> HIDE DEF ended
    <2>2. call' \in [Calls -> CallRow]
        BY <1>1, <2>1, LeaveType
    <2>3. ASSUME NEW d \in Calls
          PROVE  /\ call'[d].st = ended[d].st /\ call'[d].at = ended[d].at
                 /\ call'[d].chunk = ended[d].chunk /\ call'[d].sources = ended[d].sources
                 /\ call'[d].probe => ended[d].probe /\ ended[d].at # k
        <3>1. ended \in [Calls -> CallRow]
            BY <1>1
        <3>2. /\ Leave(ended, k)[d].st = ended[d].st /\ Leave(ended, k)[d].at = ended[d].at
              /\ Leave(ended, k)[d].chunk = ended[d].chunk /\ Leave(ended, k)[d].sources = ended[d].sources
              /\ Leave(ended, k)[d].probe => ended[d].probe /\ ended[d].at # k
            BY <3>1, LeaveRows
        <3> QED BY <2>1, <3>2
    <2>4. Alone(c)
        BY ZenonT(60), <1>1, <2>2, <2>3 DEF Alone
    <2>5. \A d \in Calls : call'[d].at = k => ~call'[d].probe
        BY <2>3
    <2> QED BY ZenonT(60), <1>1, <2>3, <2>4, <2>5
<1>3. CASE breaker[k].state # "half_open"
    <2>1. call' = ended
        BY <1>3
    <2> HIDE DEF ended
    <2> QED BY <1>1, <1>3, <2>1 DEF Alone
<1> QED BY <1>2, <1>3

LEMMA SucceedStep ==
    ASSUME CallsInv, NEW c \in Calls, Succeed(c)
    PROVE  CallsInv'
<1> DEFINE k == call[c].at
           b == breaker[k]
           row == [call[c] EXCEPT !.st = "answered", !.probe = FALSE]
<1>1. Rows /\ call[c] \in CallRow /\ k \in Candidates /\ b \in BreakerRow
    BY TypesAreRows DEF CallsInv, Rows, CallRow
<1>2. /\ call[c].st = "calling" /\ breaker' = [breaker EXCEPT ![k] = OnSuccess(b)]
      /\ free' = free + 1 /\ UNCHANGED <<failures, cancels>>
    BY DEF Succeed
<1>3. LET ended == [call EXCEPT ![c] = row]
      IN  call' = IF breaker[k].state = "half_open" THEN Leave(ended, k) ELSE ended
    <2>1. [call EXCEPT ![c].st = "answered", ![c].probe = FALSE] = [call EXCEPT ![c] = row]
        BY <1>1 DEF Rows
    <2> QED BY <2>1 DEF Succeed
<1>4. /\ row \in CallRow /\ row.st = "answered" /\ row.at = k
      /\ row.chunk = call[c].chunk /\ row.sources = call[c].sources
    BY <1>1 DEF CallRow, Status
<1> HIDE DEF row
<1>5. /\ Alone(c) /\ call'[c].st = "answered" /\ call'[c].at = k
      /\ call'[c].chunk = call[c].chunk /\ call'[c].sources = call[c].sources
      /\ breaker[k].state = "half_open" => \A d \in Calls : call'[d].at = k => ~call'[d].probe
    BY <1>1, <1>3, <1>4, EndedRow
<1>6. SlotsKept' /\ free' \in 0..MaxConcurrency
    BY <1>2, <1>5, SlotStep DEF Holds
<1>7. SourceInv'
    <2>1. call[c].sources = IF call[c].chunk THEN {call[c].at} ELSE {}
        BY DEF CallsInv, SourceInv
    <2> QED BY <1>5, <2>1, SourceStep
<1>8. /\ breaker'[k] = OnSuccess(b) /\ OnSuccess(b) \in BreakerRow
      /\ \A j \in Candidates : j # k => breaker'[j] = breaker[j]
    BY <1>1, <1>2, BreakerRows DEF Rows
<1>9. TypeOK'
    <2>1. Rows'
        BY <1>1, <1>2, <1>5, <1>8 DEF Rows, Alone
    <2> QED BY <1>2, <1>6, <2>1 DEF CallsInv, TypeOK, Rows, CallRow, Status, BreakerRow
<1>10. ProbesInv'
    <2>1. \A j \in Candidates :
            \/ UNCHANGED <<breaker[j].state, breaker[j].inflight>>
            \/ /\ breaker'[j].state # "half_open"
               /\ breaker[j].state = "half_open" =>
                     \A d \in Calls : call'[d].at = j /\ call'[d].st = "calling" => ~call'[d].probe
        <3> TAKE j \in Candidates
        <3>1. CASE j # k
            BY <1>8, <3>1
        <3>2. CASE j = k /\ b.state = "open"
            BY <1>1, <1>8, <3>2, BreakerRows
        <3>3. CASE j = k /\ b.state # "open"
            BY <1>1, <1>5, <1>8, <3>3, BreakerRows
        <3> QED BY <3>1, <3>2, <3>3
    <2> QED BY <1>5, <2>1, BreakerProbeStep
<1>11. ClosedBelowThreshold'
    <2>1. breaker'[k].state = "closed" => breaker'[k].failures < Threshold
        BY <1>1, <1>8, BreakerRows, CallsConstants
    <2> QED BY <1>8, <2>1 DEF CallsInv, ClosedBelowThreshold
<1> QED BY <1>6, <1>7, <1>9, <1>10, <1>11 DEF CallsInv

LEMMA FailStep ==
    ASSUME CallsInv, NEW c \in Calls, Fail(c)
    PROVE  CallsInv'
<1> DEFINE k == call[c].at
           b == breaker[k]
<1>1. Rows /\ call[c] \in CallRow /\ k \in Candidates /\ b \in BreakerRow
    BY TypesAreRows DEF CallsInv, Rows, CallRow
<1>2. /\ call[c].st = "calling" /\ breaker' = [breaker EXCEPT ![k] = OnFailure(b)]
      /\ failures' = failures + 1 /\ failures < MaxFailures /\ UNCHANGED cancels
      /\ free' = IF MovesOn(call[c]) THEN free ELSE free + 1
    BY DEF Fail
<1>3. PICK row : /\ Onward(c, row)
                 /\ LET ended == [call EXCEPT ![c] = row]
                    IN  call' = IF breaker[k].state = "half_open" THEN Leave(ended, k) ELSE ended
    <2>1. CASE MovesOn(call[c])
        <3> DEFINE row == [call[c] EXCEPT !.st = "trying", !.at = call[c].at + 1, !.probe = FALSE, !.chunk = FALSE]
        <3>1. [call EXCEPT ![c].st = "trying", ![c].at = call[c].at + 1, ![c].probe = FALSE, ![c].chunk = FALSE]
                = [call EXCEPT ![c] = row]
            BY <1>1 DEF Rows
        <3>2. Onward(c, row)
            BY <2>1 DEF Onward
        <3> QED BY <2>1, <3>1, <3>2 DEF Fail
    <2>2. CASE ~MovesOn(call[c])
        <3> DEFINE row == [call[c] EXCEPT !.st = "failed", !.probe = FALSE]
        <3>1. [call EXCEPT ![c].st = "failed", ![c].probe = FALSE] = [call EXCEPT ![c] = row]
            BY <1>1 DEF Rows
        <3>2. Onward(c, row)
            BY <2>2 DEF Onward
        <3> QED BY <2>2, <3>1, <3>2 DEF Fail
    <2> QED BY <2>1, <2>2
<1>4. /\ row \in CallRow /\ row.st = IF MovesOn(call[c]) THEN "trying" ELSE "failed"
      /\ row.sources = IF row.chunk THEN {row.at} ELSE {}
    BY <1>3, OnwardRow
<1>5. /\ Alone(c) /\ call'[c].st = row.st /\ call'[c].at = row.at
      /\ call'[c].chunk = row.chunk /\ call'[c].sources = row.sources
      /\ breaker[k].state = "half_open" => \A d \in Calls : call'[d].at = k => ~call'[d].probe
    BY ZenonT(60), <1>1, <1>3, <1>4, EndedRow
<1>6. SlotsKept' /\ free' \in 0..MaxConcurrency
    BY <1>2, <1>4, <1>5, SlotStep DEF Holds
<1>7. SourceInv'
    BY <1>4, <1>5, SourceStep
<1>8. /\ breaker'[k] = OnFailure(b) /\ OnFailure(b) \in BreakerRow
      /\ \A j \in Candidates : j # k => breaker'[j] = breaker[j]
    BY <1>1, <1>2, BreakerRows DEF Rows
<1>9. TypeOK'
    <2>1. Rows'
        BY <1>1, <1>2, <1>5, <1>8 DEF Rows, Alone
    <2>2. failures' \in 0..MaxFailures
        BY <1>2, CallsConstants DEF CallsInv, TypeOK
    <2> QED BY <1>2, <1>6, <2>1, <2>2 DEF CallsInv, TypeOK, Rows, CallRow, Status, BreakerRow
<1>10. ProbesInv'
    <2>1. \A j \in Candidates :
            \/ UNCHANGED <<breaker[j].state, breaker[j].inflight>>
            \/ /\ breaker'[j].state # "half_open"
               /\ breaker[j].state = "half_open" =>
                     \A d \in Calls : call'[d].at = j /\ call'[d].st = "calling" => ~call'[d].probe
        BY <1>1, <1>5, <1>8, BreakerRows
    <2>2. call'[c].st # "calling"
        BY <1>4, <1>5
    <2> QED BY <1>5, <2>1, <2>2, BreakerProbeStep
<1>11. ClosedBelowThreshold'
    <2>1. b.state = "closed" => b.failures < Threshold
        BY <1>1 DEF CallsInv, ClosedBelowThreshold
    <2>2. breaker'[k].state = "closed" => breaker'[k].failures < Threshold
        BY <1>1, <1>8, <2>1, BreakerRows
    <2> QED BY <1>8, <2>2 DEF CallsInv, ClosedBelowThreshold
<1> QED BY <1>6, <1>7, <1>9, <1>10, <1>11 DEF CallsInv

LEMMA CoolDownStep ==
    ASSUME CallsInv, NEW k \in Candidates, CoolDown(k)
    PROVE  CallsInv'
<1>1. Rows /\ breaker[k] \in BreakerRow
    BY TypesAreRows DEF CallsInv, Rows
<1> DEFINE new == [breaker[k] EXCEPT !.cooled = TRUE]
<1>2. breaker' = [breaker EXCEPT ![k] = new] /\ UNCHANGED <<call, free, failures, cancels>>
    BY <1>1 DEF CoolDown, Rows
<1>3. /\ new \in BreakerRow /\ new.state = breaker[k].state
      /\ new.failures = breaker[k].failures /\ new.inflight = breaker[k].inflight
    BY <1>1 DEF BreakerRow
<1>4. \A j \in Candidates : /\ breaker'[j].state = breaker[j].state
                            /\ breaker'[j].failures = breaker[j].failures
                            /\ breaker'[j].inflight = breaker[j].inflight
    BY <1>1, <1>2, <1>3 DEF Rows
<1>5. TypeOK'
    <2>1. Rows'
        BY <1>1, <1>2, <1>3 DEF Rows
    <2> QED BY <1>2, <2>1 DEF CallsInv, TypeOK, Rows, CallRow, Status, BreakerRow
<1>6. ProbesInv' /\ ClosedBelowThreshold'
    BY <1>2, <1>4 DEF CallsInv, ProbesInv, ClosedBelowThreshold, Probes
<1> QED BY <1>2, <1>5, <1>6 DEF CallsInv, SlotsKept, SourceInv

LEMMA CallsStep == CallsInv /\ [Next]_vars => CallsInv'
<1> SUFFICES ASSUME CallsInv, [Next]_vars PROVE CallsInv'
    OBVIOUS
<1>1. CASE UNCHANGED vars
    BY <1>1 DEF vars, CallsInv, TypeOK, SlotsKept, ProbesInv, Probes, ClosedBelowThreshold, SourceInv
<1> QED BY <1>1, QuietSteps, AcquireStep, SucceedStep, FailStep, CoolDownStep DEF Next, CallStep

LEMMA CallsInvariant == Safety => []CallsInv
BY CallsInit, CallsStep, PTL DEF Safety

-----------------------------------------------------------------------------
\* Types: no breaker counts more probes than it may admit.
THEOREM CallsTypes == Safety => []TypeOK
<1>1. CallsInv => TypeOK
    BY DEF CallsInv
<1> QED BY <1>1, CallsInvariant, PTL

\* A half-open breaker has no more probes out than it has counted, and no more than it allows.
THEOREM CallsProbesLimited == Safety => []ProbesLimited
<1>1. CallsInv => ProbesLimited
    <2> SUFFICES ASSUME CallsInv, NEW k \in Candidates, breaker[k].state = "half_open"
                 PROVE  /\ Cardinality(Probes(k)) <= breaker[k].inflight
                        /\ Cardinality(Probes(k)) <= HalfOpenMax
        BY DEF ProbesLimited
    <2>1. Cardinality(Probes(k)) <= breaker[k].inflight
        BY DEF CallsInv, ProbesInv
    <2>2. breaker[k].inflight \in 0..HalfOpenMax /\ HalfOpenMax \in Nat
        BY CallsConstants DEF CallsInv, TypeOK
    <2>3. Cardinality(Probes(k)) \in Nat
        BY Finite
    <2> QED BY <2>1, <2>2, <2>3
<1> QED BY <1>1, CallsInvariant, PTL

\* Whatever is cancelled, rejected or passed on, no slot is lost and none created.
THEOREM CallsSlotsKept == Safety => []SlotsKept
<1>1. CallsInv => SlotsKept
    BY DEF CallsInv
<1> QED BY <1>1, CallsInvariant, PTL

\* Threshold failures in a row do open the breaker, in whatever order answers arrive.
THEOREM CallsClosedBelowThreshold == Safety => []ClosedBelowThreshold
<1>1. CallsInv => ClosedBelowThreshold
    BY DEF CallsInv
<1> QED BY <1>1, CallsInvariant, PTL

\* A consumer has the chunks of one candidate at most, however long the route.
THEOREM CallsOneSource == Safety => []OneSource
<1>1. CallsInv => OneSource
    <2> SUFFICES ASSUME CallsInv, NEW c \in Calls PROVE Cardinality(call[c].sources) <= 1
        BY DEF OneSource
    <2>1. call[c].sources = {} \/ call[c].sources = {call[c].at}
        BY DEF CallsInv, SourceInv
    <2>2. Cardinality({}) = 0 /\ Cardinality({call[c].at}) = 1
        BY FS_EmptySet, FS_Singleton
    <2> QED BY <2>1, <2>2
<1> QED BY <1>1, CallsInvariant, PTL

\* A provider is protected and a consumer served by one, for any calls, candidates, slots,
\* thresholds, failures and cancellations.
THEOREM CallsAreSafe == Safety => []CallsSafe
<1>1. ProbesLimited /\ SlotsKept /\ ClosedBelowThreshold /\ OneSource => CallsSafe
    BY DEF CallsSafe
<1> QED
    BY <1>1, CallsProbesLimited, CallsSlotsKept, CallsClosedBelowThreshold, CallsOneSource, PTL

(***************************************************************************)
(* HealthProbe: a sample is accounted for when what its counter went       *)
(* through, and its run, was told, was lost with a failing expire, or is   *)
(* what a heartbeat has yet to tell.  The stored sample is, and so is each *)
(* one a heartbeat has read to compare with.                               *)
(***************************************************************************)
Sample == [run : Nat, evicted : Nat]
Info == [run : Nat \cup {None}, evicted : Nat \cup {None}, young : BOOLEAN]
Complete(info) == info.run # None /\ info.evicted # None

ProbeTypes ==
    /\ redisRun \in Nat /\ evicted \in Nat /\ young \in BOOLEAN
    /\ stored \in Sample \cup {None}
    /\ at \in [Two -> {"idle", "backlog", "queue", "info", "previous", "store", "expire", "done"}]
    /\ seen \in [Two -> Info] /\ previous \in [Two -> Sample \cup {None}]
    /\ degraded \in [Two -> BOOLEAN] /\ missed \in [Two -> SUBSET {"backlog", "queue", "redis"}]
    /\ lost \in [counts : SUBSET Int, runs : SUBSET Nat]

CountsAccounted == counted \cup lost.counts \cup UNION {Probe!Counts(b) : b \in Probe!Telling}
RunsAccounted == noticed \cup lost.runs \cup UNION {Probe!RunsTold(b) : b \in Probe!Telling}
ToldSample(sample) == sample # None => 1..sample.evicted \subseteq CountsAccounted /\ sample.run \in RunsAccounted
SamplesTold == ToldSample(stored) /\ \A b \in Two : ToldSample(previous[b])

\* A heartbeat that has come past INFO without a failure has seen both of its answers.
Observed ==
    \A b \in Two :
        /\ at[b] \in {"previous", "store", "expire"} => Complete(seen[b])
        /\ ~degraded[b] => missed[b] = {} /\ (at[b] = "done" => Complete(seen[b]))

ProbeInv == ProbeTypes /\ SamplesTold /\ Observed

LEMMA ProbeInit == ASSUME Probe!ProbeAssumption, Probe!Init PROVE ProbeInv
<1>1. Probe!Unseen \in Info
    BY DEF Probe!Unseen, Info
<1>2. ProbeTypes
    BY <1>1 DEF Probe!Init, ProbeTypes
<1>3. SamplesTold
    BY DEF Probe!Init, SamplesTold, ToldSample
<1>4. Observed
    BY DEF Probe!Init, Observed
<1> QED BY <1>2, <1>3, <1>4 DEF ProbeInv

LEMMA InfoParts ==
    ASSUME ProbeTypes, NEW b \in Two
    PROVE  /\ [seen[b] EXCEPT !.run = redisRun, !.young = young] \in Info
           /\ [seen[b] EXCEPT !.evicted = evicted] \in Info
BY ZenonT(60) DEF ProbeTypes, Info

LEMMA ProbeTypesStep ==
    ASSUME Probe!ProbeAssumption, ProbeTypes, Observed, Probe!Next PROVE ProbeTypes'
<1> USE DEF ProbeTypes, Probe!redis, Probe!told, Probe!Move, Probe!Degrade
<1>1. CASE Probe!Evict \/ Probe!Restart \/ Probe!Age \/ Probe!Lose
    <2>1. UNCHANGED <<at, seen, previous, degraded, missed, lost>>
        BY <1>1 DEF Probe!Evict, Probe!Restart, Probe!Age, Probe!Lose
    <2>2. redisRun' \in Nat /\ evicted' \in Nat /\ stored' \in Sample \cup {None}
        BY <1>1 DEF Probe!Evict, Probe!Restart, Probe!Age, Probe!Lose
    <2>3. young' \in BOOLEAN
        BY <1>1 DEF Probe!Evict, Probe!Restart, Probe!Age, Probe!Lose
    <2> QED BY <2>1, <2>2, <2>3
<1>2. ASSUME NEW b \in Two, Probe!Beat(b) PROVE ProbeTypes'
    <2>1. CASE Probe!Start(b) \/ Probe!ReadBacklog(b) \/ Probe!ReadQueue(b) \/ Probe!ReadPrevious(b)
        BY <2>1 DEF Probe!Start, Probe!ReadBacklog, Probe!ReadQueue, Probe!ReadPrevious
    <2>2. ASSUME NEW part \in Info, Probe!Sees(b, part) PROVE ProbeTypes'
        BY <2>2 DEF Probe!Sees
    <2>3. CASE Probe!ReadServer(b) \/ Probe!ReadStats(b)
        BY <2>2, <2>3, InfoParts DEF Probe!ReadServer, Probe!ReadStats
    <2>4. CASE Probe!Store(b)
        <3>1. seen[b].run \in Nat /\ seen[b].evicted \in Nat
            BY <2>4 DEF Probe!Store, Observed, Complete, Info
        <3>2. stored' \in Sample
            BY <2>4, <3>1 DEF Probe!Store, Sample
        <3> QED BY <2>4, <3>2 DEF Probe!Store
    <2>7. CASE Probe!Log(b)
        BY <2>7 DEF Probe!Log
    <2>8. CASE Probe!ExpireFails(b)
        <3>1. seen[b].run \in Nat /\ seen[b].evicted \in Nat
            BY <2>8 DEF Probe!ExpireFails, Observed, Complete, Info
        <3>2. Probe!Counts(b) \subseteq Int /\ Probe!RunsTold(b) \subseteq Nat
            BY <3>1 DEF Probe!Counts, Probe!RunsTold
        <3>3. lost' \in [counts : SUBSET Int, runs : SUBSET Nat]
            BY <2>8, <3>2 DEF Probe!ExpireFails
        <3> QED BY <2>8, <3>3 DEF Probe!ExpireFails
    <2>5. CASE Probe!Again(b)
        <3>1. Probe!Unseen \in Info
            BY DEF Probe!Unseen, Info
        <3> QED BY <2>5, <3>1 DEF Probe!Again
    <2>6. ASSUME NEW probe \in {"backlog", "queue", "redis"}, NEW from, NEW to \in {"queue", "info", "done"},
                 Probe!Fails(b, probe, from, to)
          PROVE  ProbeTypes'
        BY <2>6 DEF Probe!Fails
    <2> QED BY <1>2, <2>1, <2>3, <2>4, <2>5, <2>6, <2>7, <2>8 DEF Probe!Beat
<1> QED BY <1>1, <1>2 DEF Probe!Next

\* What a heartbeat has to tell does not change until it starts again, and tells all that its sample
\* has beyond the one it was compared with.
LEMMA TellsItsSample ==
    ASSUME ProbeTypes, NEW b \in Two, seen[b].run \in Nat, seen[b].evicted \in Nat
    PROVE  /\ previous[b] = None => /\ Probe!Counts(b) = 1..seen[b].evicted
                                    /\ seen[b].run \in Probe!RunsTold(b)
           /\ previous[b] # None =>
                  /\ 1..seen[b].evicted \subseteq (1..previous[b].evicted) \cup Probe!Counts(b)
                  /\ seen[b].run \in {previous[b].run} \cup Probe!RunsTold(b)
<1>1. previous[b] \in Sample \cup {None}
    BY DEF ProbeTypes
<1>2. previous[b] = None => Probe!Counts(b) = 1..seen[b].evicted /\ seen[b].run \in Probe!RunsTold(b)
    BY DEF Probe!Counts, Probe!RunsTold
<1>3. ASSUME previous[b] # None
      PROVE  1..seen[b].evicted \subseteq (1..previous[b].evicted) \cup Probe!Counts(b)
    <2>1. previous[b].evicted \in Nat
        BY <1>1, <1>3 DEF Sample
    <2>2. Probe!Counts(b) = (seen[b].evicted - Probe!Larger(seen[b].evicted - previous[b].evicted, 0) + 1)..seen[b].evicted
        BY <1>3 DEF Probe!Counts, Probe!Delta
    <2> QED BY <2>1, <2>2 DEF Probe!Larger
<1>4. previous[b] # None => seen[b].run \in {previous[b].run} \cup Probe!RunsTold(b)
    BY DEF Probe!RunsTold, Probe!Restarted
<1> QED BY <1>2, <1>3, <1>4

\* What is accounted for stays so.
LEMMA AccountGrows ==
    ASSUME ProbeTypes, Probe!Next
    PROVE  CountsAccounted \subseteq CountsAccounted' /\ RunsAccounted \subseteq RunsAccounted'
<1> USE DEF Probe!redis, Probe!told, Probe!Move, ProbeTypes
<1>1. /\ counted \subseteq counted' /\ noticed \subseteq noticed'
      /\ lost.counts \subseteq lost'.counts /\ lost.runs \subseteq lost'.runs
    <2>1. ASSUME NEW b \in Two, Probe!Log(b) \/ Probe!ExpireFails(b) 
          PROVE  /\ counted \subseteq counted' /\ noticed \subseteq noticed'
                 /\ lost.counts \subseteq lost'.counts /\ lost.runs \subseteq lost'.runs
        BY <2>1 DEF Probe!Log, Probe!ExpireFails
    <2>2. CASE UNCHANGED <<counted, noticed, lost>>
        BY <2>2
    <2> QED
        BY <2>1, <2>2 DEF Probe!Next, Probe!Evict, Probe!Restart, Probe!Age, Probe!Lose, Probe!Beat, Probe!Start,
            Probe!ReadBacklog, Probe!ReadQueue, Probe!ReadServer, Probe!ReadStats, Probe!Sees, Probe!ReadPrevious,
            Probe!Store, Probe!Again, Probe!Fails
<1> DEFINE Kept(b) ==
        /\ seen'[b] = seen[b] /\ previous'[b] = previous[b]
        /\ \/ at'[b] = "expire"
           \/ /\ Probe!Counts(b) \subseteq counted' \cup lost'.counts
              /\ Probe!RunsTold(b) \subseteq noticed' \cup lost'.runs
<1>2. ASSUME NEW b \in Two, at[b] = "expire" PROVE Kept(b)
    <2>1. ASSUME NEW c \in Two, Probe!Log(c) \/ Probe!ExpireFails(c) PROVE Kept(b)
        BY <1>2, <2>1 DEF Probe!Log, Probe!ExpireFails
    <2>2. ASSUME NEW c \in Two,
                 \/ Probe!Start(c) \/ Probe!ReadBacklog(c) \/ Probe!ReadQueue(c) \/ Probe!ReadServer(c)
                 \/ Probe!ReadStats(c) \/ Probe!ReadPrevious(c) \/ Probe!Store(c) \/ Probe!Again(c)
          PROVE  Kept(b)
        BY <1>2, <2>2 DEF Probe!Start, Probe!ReadBacklog, Probe!ReadQueue, Probe!ReadServer, Probe!ReadStats,
            Probe!Sees, Probe!ReadPrevious, Probe!Store, Probe!Again
    <2>3. ASSUME NEW c \in Two, NEW probe, NEW from \in {"backlog", "queue", "info", "previous", "store"},
                 NEW to, Probe!Fails(c, probe, from, to)
          PROVE  Kept(b)
        BY <1>2, <2>3 DEF Probe!Fails
    <2>4. CASE Probe!Evict \/ Probe!Restart \/ Probe!Age \/ Probe!Lose
        BY <1>2, <2>4 DEF Probe!Evict, Probe!Restart, Probe!Age, Probe!Lose
    <2> HIDE DEF Kept
    <2>5. ASSUME NEW c \in Two, Probe!Beat(c) PROVE Kept(b)
        BY <2>1, <2>2, <2>3, <2>5 DEF Probe!Beat
    <2> QED BY <2>4, <2>5 DEF Probe!Next
<1>3. \A b \in Two : at[b] = "expire" =>
          Probe!Counts(b)' = Probe!Counts(b) /\ Probe!RunsTold(b)' = Probe!RunsTold(b)
    BY <1>2 DEF Probe!Counts, Probe!RunsTold, Probe!Delta, Probe!Restarted
<1>4. CountsAccounted \subseteq CountsAccounted'
    BY <1>1, <1>2, <1>3 DEF CountsAccounted, Probe!Telling
<1>5. RunsAccounted \subseteq RunsAccounted'
    BY <1>1, <1>2, <1>3 DEF RunsAccounted, Probe!Telling
<1> QED BY <1>4, <1>5

LEMMA SamplesToldStep ==
    ASSUME ProbeTypes, SamplesTold, Observed, Probe!Next PROVE SamplesTold'
<1> USE DEF Probe!redis, Probe!told, Probe!Move
<1>1. CountsAccounted \subseteq CountsAccounted' /\ RunsAccounted \subseteq RunsAccounted'
    BY AccountGrows
<1>2. \A sample : ToldSample(sample) => ToldSample(sample)'
    BY <1>1 DEF ToldSample
<1>3. CASE UNCHANGED <<stored, previous>>
    BY <1>2, <1>3 DEF SamplesTold
<1>4. CASE Probe!Lose
    BY <1>2, <1>4 DEF Probe!Lose, SamplesTold, ToldSample
<1>5. ASSUME NEW b \in Two, Probe!ReadPrevious(b) PROVE SamplesTold'
    BY <1>2, <1>5 DEF Probe!ReadPrevious, ProbeTypes, SamplesTold
<1>6. ASSUME NEW b \in Two, Probe!Again(b) PROVE SamplesTold'
    BY <1>2, <1>6 DEF Probe!Again, ProbeTypes, SamplesTold, ToldSample
<1>7. ASSUME NEW b \in Two, Probe!Store(b) PROVE SamplesTold'
    <2> DEFINE new == seen[b]
    <2>1. new.run \in Nat /\ new.evicted \in Nat
        BY <1>7 DEF Probe!Store, Observed, Complete, Info, ProbeTypes
    <2>2. stored' = [run |-> new.run, evicted |-> new.evicted] /\ previous' = previous /\ seen' = seen /\ at'[b] = "expire"
        BY <1>7 DEF Probe!Store, ProbeTypes
    <2>3. Probe!Counts(b) \subseteq CountsAccounted' /\ Probe!RunsTold(b) \subseteq RunsAccounted'
        <3>1. Probe!Counts(b)' = Probe!Counts(b) /\ Probe!RunsTold(b)' = Probe!RunsTold(b)
            BY <2>2 DEF Probe!Counts, Probe!RunsTold, Probe!Delta, Probe!Restarted
        <3> QED BY <2>2, <3>1 DEF CountsAccounted, RunsAccounted, Probe!Telling
    <2>4. previous[b] # None => 1..previous[b].evicted \subseteq CountsAccounted' /\ previous[b].run \in RunsAccounted'
        BY <1>1 DEF SamplesTold, ToldSample
    <2>5. 1..new.evicted \subseteq CountsAccounted' /\ new.run \in RunsAccounted'
        BY <2>1, <2>3, <2>4, TellsItsSample
    <2>6. ToldSample(stored)'
        BY <2>2, <2>5 DEF ToldSample
    <2> QED BY <1>2, <2>2, <2>6 DEF SamplesTold
<1>8. Probe!Evict \/ Probe!Restart \/ Probe!Age => UNCHANGED <<stored, previous>>
    BY DEF Probe!Evict, Probe!Restart, Probe!Age
<1>9. ASSUME NEW b \in Two, Probe!Beat(b), ~Probe!ReadPrevious(b), ~Probe!Store(b), ~Probe!Again(b)
      PROVE  UNCHANGED <<stored, previous>>
    BY <1>9 DEF Probe!Beat, Probe!Start, Probe!ReadBacklog, Probe!ReadQueue, Probe!ReadServer,
                Probe!ReadStats, Probe!Sees, Probe!Log, Probe!ExpireFails, Probe!Fails
<1> QED BY <1>3, <1>4, <1>5, <1>6, <1>7, <1>8, <1>9 DEF Probe!Next

LEMMA ObservedStep ==
    ASSUME Probe!ProbeAssumption, ProbeTypes, Observed, Probe!Next PROVE Observed'
<1> USE DEF Observed, ProbeTypes, Probe!redis, Probe!told, Probe!Move
<1>1. CASE Probe!Evict \/ Probe!Restart \/ Probe!Age \/ Probe!Lose
    BY <1>1 DEF Probe!Evict, Probe!Restart, Probe!Age, Probe!Lose
<1>2. ASSUME NEW b \in Two, Probe!Beat(b) PROVE Observed'
    <2>1. CASE Probe!Start(b) \/ Probe!ReadBacklog(b) \/ Probe!ReadQueue(b) \/ Probe!ReadPrevious(b)
        BY <2>1 DEF Probe!Start, Probe!ReadBacklog, Probe!ReadQueue, Probe!ReadPrevious
    <2>2. ASSUME NEW part \in Info, Probe!Sees(b, part) PROVE Observed'
        BY <2>2 DEF Probe!Sees, Complete
    <2>3. CASE Probe!ReadServer(b) \/ Probe!ReadStats(b)
        BY <2>2, <2>3, InfoParts DEF Probe!ReadServer, Probe!ReadStats
    <2>4. CASE Probe!Store(b) \/ Probe!Log(b) \/ Probe!Again(b)
        BY <2>4 DEF Probe!Store, Probe!Log, Probe!Again
    <2>6. CASE Probe!ExpireFails(b)
        BY <2>6 DEF Probe!ExpireFails, Probe!Degrade
    <2>5. ASSUME NEW probe \in {"backlog", "queue", "redis"}, NEW from, NEW to \in {"queue", "info", "done"},
                 Probe!Fails(b, probe, from, to)
          PROVE  Observed'
        BY <2>5 DEF Probe!Fails, Probe!Degrade
    <2> QED BY <1>2, <2>1, <2>3, <2>4, <2>5, <2>6 DEF Probe!Beat
<1> QED BY <1>1, <1>2 DEF Probe!Next

LEMMA ProbeStep == ASSUME Probe!ProbeAssumption, ProbeInv, Probe!Next PROVE ProbeInv'
BY ProbeTypesStep, SamplesToldStep, ObservedStep DEF ProbeInv

LEMMA ProbeSafe ==
    ASSUME ProbeInv PROVE Probe!EvictionsTold /\ Probe!RestartsTold /\ Probe!OkMeansObserved
<1>1. Probe!EvictionsTold /\ Probe!RestartsTold
    BY DEF ProbeInv, SamplesTold, ToldSample, CountsAccounted, RunsAccounted, Probe!EvictionsTold, Probe!RestartsTold
<1>2. Probe!OkMeansObserved
    BY DEF ProbeInv, Observed, Complete, Probe!OkMeansObserved
<1> QED BY <1>1, <1>2

-----------------------------------------------------------------------------
(***************************************************************************)
(* ObjectStorage: what was read is in the temporary file or still pending, *)
(* and every round but the last reads a whole chunk, so the bound on the   *)
(* rounds is only reached beyond the limit.  Whatever becomes an object is *)
(* a temporary file that holds the whole stream.                           *)
(***************************************************************************)
ObjectTypes ==
    /\ backend \in {"local", "s3"} /\ size \in Nat
    /\ reads \in Nat /\ got \in Nat /\ pending \in Nat /\ faults \in Nat
    /\ temp \in Nat \cup {Objects!Nothing}
    /\ object \in {Objects!Nothing, size}
    /\ undeleted \in BOOLEAN /\ removed \in BOOLEAN

\* While the stream is copied.
Copying ==
    pc = "stream" =>
        /\ temp \in Nat /\ temp + pending = got /\ got <= size /\ got <= MaxSize
        /\ got = size \/ got = reads * ChunkSize
        /\ reads = 0 \/ got > (reads - 1) * ChunkSize
        /\ object = Objects!Nothing

\* From the end of the stream on: the whole of it is moved, a thread moves it after the process
\* stopped, or the handlers of an exception tidy up.
Moving ==
    /\ pc = "publish" => temp = size /\ got = size /\ size <= MaxSize /\ object = Objects!Nothing
    /\ sending => pc = "stopped" /\ temp = size
    /\ pc = "tidy" => ending \in {"limit", "failed"} /\ (ending = "limit" => size > MaxSize)
    /\ pc = "saved" => got = size /\ size <= MaxSize /\ (removed \/ object = size)
    /\ pc = "limit" => size > MaxSize
    /\ pc \in {"limit", "failed"} =>
           temp = Objects!Nothing /\ (object = Objects!Nothing \/ undeleted)

Reading == (reader # "idle" => pc = "saved") /\ (backend = "s3" /\ reader = "reading" => copy = size)

ObjectInv == ObjectTypes /\ Copying /\ Moving /\ Reading

LEMMA OneRoundMore == ASSUME NEW c \in Nat \ {0}, NEW m \in Nat PROVE m \div c \in Nat /\ (m \div c + 1) * c > m
OBVIOUS

LEMMA RoundAdds == ASSUME NEW c \in Nat, NEW n \in Int PROVE (n + 1) * c = n * c + c /\ n * c \in Int
OBVIOUS

LEMMA RoundsGrow == ASSUME NEW c \in Nat, NEW n \in Int, NEW k \in Int, n >= k PROVE n * c >= k * c
OBVIOUS

\* Rounds that all read something have passed the limit before there are MaxChunks of them.
LEMMA RoundsPassTheLimit ==
    ASSUME NEW c \in Nat \ {0}, NEW m \in Nat, NEW n \in Nat, n >= m \div c + 2 PROVE (n - 1) * c > m
<1>1. (n - 1) * c >= (m \div c + 1) * c
    BY OneRoundMore, RoundsGrow
<1>2. (n - 1) * c \in Int /\ (m \div c + 1) * c \in Int
    BY OneRoundMore
<1> QED BY <1>1, <1>2, OneRoundMore

LEMMA ObjectInit == ASSUME Objects!StorageAssumption, Objects!Init PROVE ObjectInv
<1> USE DEF Objects!StorageAssumption, Objects!Init, Objects!Nothing
<1>1. ObjectTypes
    BY DEF ObjectTypes
<1>2. Copying
    <2>1. ChunkSize \in Nat /\ 0 * ChunkSize = 0
        OBVIOUS
    <2> QED BY <2>1 DEF Copying
<1>3. Moving /\ Reading
    BY DEF Moving, Reading
<1> QED BY <1>1, <1>2, <1>3 DEF ObjectInv

LEMMA ReadChunkStep ==
    ASSUME Objects!StorageAssumption, ObjectInv, Objects!ReadChunk PROVE ObjectInv'
<1> DEFINE chunk == Objects!Smaller(ChunkSize, size - got)
<1>1. ChunkSize \in Nat \ {0} /\ MaxSize \in Nat /\ FlushSize \in Nat
    BY DEF Objects!StorageAssumption
<1>2. /\ pc = "stream" /\ reads' = reads + 1
      /\ UNCHANGED <<backend, size, object, sending, reader, copy, removed, undeleted, faults>>
    BY DEF Objects!ReadChunk, Objects!input
<1>3. /\ size \in Nat /\ reads \in Nat /\ got \in Nat /\ pending \in Nat /\ temp \in Nat
      /\ temp + pending = got /\ got <= size /\ got <= MaxSize /\ object = Objects!Nothing
      /\ ~sending /\ reader = "idle"
    BY <1>2 DEF ObjectInv, ObjectTypes, Copying, Moving, Reading
<1>4. /\ got = size \/ got = reads * ChunkSize
      /\ reads = 0 \/ got > (reads - 1) * ChunkSize
    BY <1>2 DEF ObjectInv, Copying
<1>5. chunk \in Nat /\ got + chunk <= size /\ (chunk = 0 => got = size) /\ chunk <= ChunkSize
      /\ (got + chunk = size \/ chunk = ChunkSize)
    BY <1>1, <1>3 DEF Objects!Smaller
<1>6. ~(reads >= Objects!MaxChunks)
    <2>1. SUFFICES ASSUME reads >= MaxSize \div ChunkSize + 2 PROVE FALSE
        BY <1>1, <1>3, OneRoundMore DEF Objects!MaxChunks
    <2>2. reads # 0
        BY <1>1, <1>3, <2>1, OneRoundMore
    <2>3. PICK read \in Int : read = (reads - 1) * ChunkSize
        BY <1>1, <1>3, RoundAdds
    <2>4. read > MaxSize
        BY <1>1, <1>3, <2>1, <2>3, RoundsPassTheLimit
    <2>5. got > read
        BY <1>4, <2>2, <2>3
    <2>6. got \in Nat /\ got <= MaxSize
        BY <1>3
    <2> QED BY <1>1, <2>4, <2>5, <2>6
<1>7. CASE chunk = 0
    <2>1. temp' = temp + pending /\ pending' = 0 /\ pc' = "publish" /\ got' = got
        <3>1. ~(chunk > 0)
            BY <1>7
        <3> QED BY <1>6, <3>1 DEF Objects!ReadChunk, Objects!Flushed
    <2>2. temp' = size /\ got' = size
        BY <1>3, <1>5, <1>7, <2>1
    <2>3. ObjectTypes'
        BY <1>2, <1>3, <2>1, <2>2 DEF ObjectInv, ObjectTypes
    <2>4. got <= MaxSize /\ got = size
        BY <1>3, <1>5, <1>7
    <2>5. Copying' /\ Moving'
        BY <1>2, <1>3, <2>1, <2>2, <2>4 DEF Copying, Moving
    <2>6. Reading'
        BY <1>2, <1>3 DEF Reading
    <2> QED BY <2>3, <2>5, <2>6 DEF ObjectInv
<1>8. CASE chunk > 0 /\ got + chunk > MaxSize
    <2>1. pc' = "tidy" /\ ending' = "limit" /\ got' = got + chunk /\ temp' = temp /\ pending' = pending
        <3>1. chunk # 0
            BY <1>5, <1>8
        <3>2. got' = got + chunk
            BY <1>6, <3>1 DEF Objects!ReadChunk
        <3>3. got' > MaxSize
            BY <1>8, <3>2
        <3> QED BY <1>6, <3>1, <3>2, <3>3 DEF Objects!ReadChunk, Objects!Raise
    <2>2. size > MaxSize
        BY <1>1, <1>3, <1>5, <1>8
    <2>3. ObjectTypes'
        BY <1>2, <1>3, <1>5, <2>1 DEF ObjectInv, ObjectTypes
    <2>4. Copying' /\ Moving'
        BY <1>2, <1>3, <2>1, <2>2 DEF Copying, Moving
    <2>5. Reading'
        BY <1>2, <1>3 DEF Reading
    <2> QED BY <2>3, <2>4, <2>5 DEF ObjectInv
<1>9. CASE chunk > 0 /\ got + chunk <= MaxSize
    <2>1. /\ got' = got + chunk
          /\ IF got' > MaxSize THEN Objects!Raise("limit") /\ UNCHANGED <<pending, temp>>
             ELSE /\ UNCHANGED <<pc, ending>>
                  /\ IF pending + chunk >= FlushSize
                     THEN temp' = temp + pending + chunk /\ pending' = 0
                     ELSE pending' = pending + chunk /\ UNCHANGED temp
        <3>1. chunk # 0
            BY <1>5, <1>9
        <3> QED BY <1>6, <3>1 DEF Objects!ReadChunk
    <2>2. ~(got' > MaxSize)
        BY <1>1, <1>3, <1>5, <1>9, <2>1
    <2>3. /\ pc' = "stream"
          /\ \/ temp' = temp + pending + chunk /\ pending' = 0
             \/ temp' = temp /\ pending' = pending + chunk
        BY <1>2, <2>1, <2>2
    <2>4. temp' \in Nat /\ pending' \in Nat /\ temp' + pending' = got'
        BY <1>3, <1>5, <2>1, <2>3
    <2>5. got = reads * ChunkSize
        BY <1>3, <1>4, <1>5, <1>9
    <2>6. got' = size' \/ got' = reads' * ChunkSize
        BY <1>1, <1>2, <1>3, <1>5, <2>1, <2>5, RoundAdds
    <2>7. got' > (reads' - 1) * ChunkSize
        <3>1. reads' - 1 = reads
            BY <1>2, <1>3
        <3> QED BY <1>3, <1>5, <1>9, <2>1, <2>5, <3>1
    <2>8. ObjectTypes'
        BY <1>2, <1>3, <1>5, <2>1, <2>4 DEF ObjectInv, ObjectTypes
    <2>9. got' <= size' /\ got' <= MaxSize /\ object' = Objects!Nothing
        BY <1>2, <1>3, <1>5, <1>9, <2>1
    <2>10. Copying'
        BY <2>4, <2>6, <2>7, <2>9 DEF Copying
    <2>11. Moving' /\ Reading'
        BY <1>2, <1>3, <2>3 DEF Moving, Reading
    <2> QED BY <2>8, <2>10, <2>11 DEF ObjectInv
<1> QED BY <1>1, <1>3, <1>5, <1>7, <1>8, <1>9

LEMMA ObjectStep == ASSUME Objects!StorageAssumption, ObjectInv, Objects!Next PROVE ObjectInv'
<1>1. MaxSize \in Nat /\ UploadFaults \in Nat
    BY DEF Objects!StorageAssumption
<1> USE <1>1 DEF ObjectInv, ObjectTypes, Copying, Moving, Reading, Objects!input, Objects!Nothing, Objects!Raise
<1>2. CASE Objects!StreamFails
    BY <1>2 DEF Objects!StreamFails
<1>3. CASE Objects!Publish
    BY <1>3 DEF Objects!Publish
<1>4. CASE Objects!PublishFails
    BY <1>4 DEF Objects!PublishFails
<1>5. CASE Objects!Tidy
    <2>1. pc' # "stream" /\ pc' # "publish" /\ pc' # "saved" /\ ~sending' /\ reader' = "idle"
        BY <1>5 DEF Objects!Tidy
    <2>2. pc' = ending /\ temp' = -1 /\ (object' = -1 \/ undeleted')
        BY <1>5 DEF Objects!Tidy, Objects!RemoveObject
    <2>3. UNCHANGED <<backend, size, reads, got, pending, removed>> /\ object' \in {-1, object}
        BY <1>5 DEF Objects!Tidy, Objects!RemoveObject
    <2>4. undeleted' \in BOOLEAN
        BY <1>5 DEF Objects!Tidy
    <2>5. faults' \in Nat
        BY <1>5 DEF Objects!Tidy
    <2>6. ObjectTypes'
        BY <2>2, <2>3, <2>4, <2>5 DEF ObjectTypes
    <2> QED BY <1>5, <2>1, <2>2, <2>6 DEF Objects!Tidy
<1>6. CASE Objects!Stopped
    BY <1>6 DEF Objects!Stopped
<1>7. CASE Objects!ThreadEnds
    BY <1>7 DEF Objects!ThreadEnds
<1>8. CASE Objects!ReadLocal
    BY <1>8 DEF Objects!ReadLocal, Objects!upload
<1>9. CASE Objects!ReadS3
    BY <1>9 DEF Objects!ReadS3, Objects!OwnCopy, Objects!upload
<1>10. CASE Objects!CloseReader
    BY <1>10 DEF Objects!CloseReader, Objects!upload
<1>11. CASE Objects!Delete
    <2>1. /\ pc = "saved" /\ UNCHANGED <<backend, size, Objects!upload, reader, copy>>
          /\ \/ object' = -1 /\ removed' = TRUE /\ faults' = faults
             \/ faults' = faults + 1 /\ object' = object /\ removed' = removed
        BY <1>11 DEF Objects!Delete
    <2>2. ObjectTypes'
        <3>1. removed' \in BOOLEAN
            BY <2>1
        <3>2. UNCHANGED <<backend, size, reads, got, pending, temp, undeleted>>
            BY <2>1 DEF Objects!upload
        <3>3. object' \in {-1, size} /\ faults' \in Nat
            BY <2>1
        <3> QED BY <3>1, <3>2, <3>3 DEF ObjectTypes
    <2>3. UNCHANGED <<pc, got, size, ending, sending, temp, undeleted, reader, copy, backend>>
        BY <2>1 DEF Objects!upload
    <2>4. Copying' /\ Moving' /\ Reading'
        BY <2>1, <2>3
    <2> QED BY <2>2, <2>4
<1> QED BY <1>2, <1>3, <1>4, <1>5, <1>6, <1>7, <1>8, <1>9, <1>10, <1>11, ReadChunkStep DEF Objects!Next

LEMMA ObjectSafe ==
    ASSUME Objects!StorageAssumption, ObjectInv
    PROVE  Objects!SavedWhole /\ Objects!LimitIsExact /\ Objects!NothingLeft /\ Objects!ReaderKeepsCopy
BY DEF ObjectInv, ObjectTypes, Copying, Moving, Reading, Objects!SavedWhole, Objects!LimitIsExact,
       Objects!NothingLeft, Objects!ReaderKeepsCopy

-----------------------------------------------------------------------------
(***************************************************************************)
(* FeatureFlags: an answer is at least as new as the moment its request    *)
(* began, so every version it does not have was published since then; the  *)
(* time kept with the cache is that moment.                                *)
(***************************************************************************)
FlagTypes ==
    /\ now \in Nat /\ version \in 0..MaxVersions /\ since \in [0..MaxVersions -> Nat]
    /\ cache \in Nat \cup {None} /\ fetched \in Int /\ fetched <= now
    /\ at \in [Two -> {"idle", "fetch", "answered", "told"}]
    /\ began \in [Two -> Nat] /\ answer \in [Two -> Nat \cup {None}]
    /\ rules \in [Two -> Nat \cup {None}] /\ fresh \in [Two -> BOOLEAN]
    /\ misses \in Nat

\* Whatever version v does not have was published at `time` or later.
AsOf(v, time) == \A w \in 0..MaxVersions : w > v /\ w <= version => since[w] >= time

AnswersAreNew ==
    /\ cache # None => AsOf(cache, fetched)
    /\ \A c \in Two :
          /\ began[c] <= now
          /\ at[c] = "answered" => answer[c] \in Nat /\ AsOf(answer[c], began[c])

FlagInv == FlagTypes /\ AnswersAreNew

LEMMA FlagInit == ASSUME Flags!FlagsAssumption, Flags!Init PROVE FlagInv
<1> USE DEF Flags!FlagsAssumption, Flags!Init
<1>1. FlagTypes
    BY DEF FlagTypes
<1>2. AnswersAreNew
    BY DEF AnswersAreNew
<1> QED BY <1>1, <1>2 DEF FlagInv

LEMMA FlagTypesStep == ASSUME Flags!FlagsAssumption, FlagInv, Flags!Next PROVE FlagTypes'
<1> USE DEF Flags!FlagsAssumption, FlagInv, FlagTypes, Flags!cloud
<1>1. CASE Flags!Tick \/ Flags!CoolDown
    BY SMTT(30), <1>1 DEF Flags!Tick, Flags!CoolDown
<1>2. CASE Flags!Publish
    BY <1>2 DEF Flags!Publish
<1>3. ASSUME NEW c \in Two, Flags!Evaluate(c) PROVE FlagTypes'
    <2>1. Flags!InTime \in BOOLEAN
        BY DEF Flags!InTime
    <2> QED BY <1>3, <2>1 DEF Flags!Evaluate, Flags!Told
<1>4. ASSUME NEW c \in Two, Flags!CloudAnswers(c) PROVE FlagTypes'
    BY <1>4 DEF Flags!CloudAnswers
<1>5. ASSUME NEW c \in Two, Flags!Receive(c) PROVE FlagTypes'
    BY <1>5 DEF Flags!Receive, Flags!Told, Flags!StartTime, AnswersAreNew
<1>6. ASSUME NEW c \in Two, Flags!FetchFails(c) PROVE FlagTypes'
    BY <1>6 DEF Flags!FetchFails, Flags!Told, Flags!Kept
<1>7. ASSUME NEW c \in Two, Flags!Leave(c) PROVE FlagTypes'
    BY <1>7 DEF Flags!Leave
<1> QED BY <1>1, <1>2, <1>3, <1>4, <1>5, <1>6, <1>7 DEF Flags!Next

LEMMA AnswersAreNewStep == ASSUME Flags!FlagsAssumption, FlagInv, Flags!Next PROVE AnswersAreNew'
<1> USE DEF Flags!FlagsAssumption, FlagInv, FlagTypes, AnswersAreNew, Flags!cloud
<1>1. CASE Flags!Tick \/ Flags!CoolDown
    <2>1. now' >= now /\ UNCHANGED <<version, since, cache, fetched, at, began, answer>>
        BY <1>1 DEF Flags!Tick, Flags!CoolDown
    <2>2. now' \in Nat
        BY <1>1 DEF Flags!Tick, Flags!CoolDown
    <2>3. \A v, time : AsOf(v, time) => AsOf(v, time)'
        BY <2>1 DEF AsOf
    <2> QED BY <2>1, <2>2, <2>3
<1>2. CASE Flags!Publish
    <2>1. \A v, time : AsOf(v, time) /\ time <= now => AsOf(v, time)'
        BY <1>2 DEF Flags!Publish, AsOf
    <2> QED BY <1>2, <2>1 DEF Flags!Publish
<1>3. ASSUME NEW c \in Two, Flags!Evaluate(c) PROVE AnswersAreNew'
    BY <1>3 DEF Flags!Evaluate, AsOf
<1>4. ASSUME NEW c \in Two, Flags!CloudAnswers(c) PROVE AnswersAreNew'
    BY <1>4 DEF Flags!CloudAnswers, AsOf
<1>5. ASSUME NEW c \in Two, Flags!Receive(c) PROVE AnswersAreNew'
    BY <1>5 DEF Flags!Receive, Flags!StartTime, AsOf
<1>6. ASSUME NEW c \in Two, Flags!FetchFails(c) PROVE AnswersAreNew'
    BY <1>6 DEF Flags!FetchFails, Flags!Kept, AsOf
<1>7. ASSUME NEW c \in Two, Flags!Leave(c) PROVE AnswersAreNew'
    BY <1>7 DEF Flags!Leave, AsOf
<1> QED BY <1>1, <1>2, <1>3, <1>4, <1>5, <1>6, <1>7 DEF Flags!Next

LEMMA FlagStep == ASSUME Flags!FlagsAssumption, FlagInv, Flags!Next PROVE FlagInv'
BY FlagTypesStep, AnswersAreNewStep DEF FlagInv

LEMMA FlagsSafe ==
    ASSUME Flags!FlagsAssumption, FlagInv, Flags!Next PROVE Flags!HitIsFresh /\ Flags!FailureKeepsRules
<1> USE DEF Flags!FlagsAssumption, FlagInv, FlagTypes
<1>1. ASSUME NEW c \in Two, at[c] # "told", at'[c] = "told"
      PROVE  Flags!Evaluate(c) \/ Flags!Receive(c) \/ Flags!FetchFails(c)
    <2>1. ~Flags!Tick /\ ~Flags!Publish /\ ~Flags!CoolDown
        BY <1>1 DEF Flags!Tick, Flags!Publish, Flags!CoolDown
    <2>2. PICK d \in Two : Flags!Evaluate(d) \/ Flags!CloudAnswers(d) \/ Flags!Receive(d)
                               \/ Flags!FetchFails(d) \/ Flags!Leave(d)
        BY <2>1 DEF Flags!Next
    <2>3. d = c
        BY <1>1, <2>2 DEF Flags!Evaluate, Flags!CloudAnswers, Flags!Receive, Flags!FetchFails, Flags!Leave
    <2> QED BY <1>1, <2>2, <2>3 DEF Flags!CloudAnswers, Flags!Leave
<1>2. ASSUME NEW c \in Two, at[c] = "idle", at'[c] = "told", fresh'[c],
             NEW v \in (rules'[c] + 1)..version
      PROVE  now - since[v] <= Ttl
    <2>1. Flags!Evaluate(c)
        BY <1>1, <1>2 DEF Flags!Receive, Flags!FetchFails
    <2>2. Flags!InTime /\ rules'[c] = cache
        BY <1>2, <2>1 DEF Flags!Evaluate, Flags!Told
    <2>3. cache \in Nat /\ now - fetched <= Ttl /\ AsOf(cache, fetched)
        BY <2>2 DEF Flags!InTime, AnswersAreNew
    <2>4. v \in 0..MaxVersions /\ v > cache /\ v <= version
        BY <1>2, <2>2, <2>3
    <2> QED BY <2>3, <2>4 DEF AsOf
<1>3. ASSUME NEW c \in Two, cache \notin {None, 0}, at[c] # "told", at'[c] = "told", misses' > misses
      PROVE  rules'[c] \notin {None, 0}
    <2>1. ~Flags!Evaluate(c)
        BY <1>3 DEF Flags!Evaluate
    <2>2. ~Flags!Receive(c)
        <3>1. Flags!Receive(c) => misses' = 0
            BY DEF Flags!Receive
        <3>2. misses \in Nat /\ misses' > misses
            BY <1>3
        <3> QED BY <3>1, <3>2
    <2>3. Flags!FetchFails(c)
        BY <1>1, <1>3, <2>1, <2>2
    <2> QED BY <1>3, <2>3 DEF Flags!FetchFails, Flags!Told, Flags!Kept
<1> QED BY <1>2, <1>3 DEF Flags!HitIsFresh, Flags!FailureKeepsRules

-----------------------------------------------------------------------------
(***************************************************************************)
(* WorkerContainer: a getter fills only empty slots, so what is open is    *)
(* cached until the container is emptied, and while it is being emptied    *)
(* whatever is open and was there when the stop began is still ahead.      *)
(***************************************************************************)
TailSlots == {"embedder", "external", "rerank", "engine"}

\* close() has yet to end the closing of slot s.
Ahead(s) ==
    \/ closing = "llm"
    \/ closing \in Providers /\ s \in walk \cup {closing} \cup TailSlots
    \/ \E j, k \in 1..4 : Container!Tail[j] = closing /\ Container!Tail[k] = s /\ j <= k

StopVisitsAll ==
    pc = "closing" => \A s \in Container!Slots : held[s] \in open /\ held[s] \notin late => Ahead(s)

ErrorsAreEmpty == \A p \in errors : held[p] = None
WalkHasBegun == walk \subseteq started

ContainerInv ==
    /\ Container!TypeOK
    /\ Container!RagIsOfTheContainer /\ Container!NothingLost /\ Container!CleanStop
    /\ StopVisitsAll /\ ErrorsAreEmpty /\ WalkHasBegun

\* The two halves of TypeOK: the services, and the stop.
ServiceTypes ==
    /\ held \in [Container!Slots -> Container!Service \cup {None}]
    /\ made \in [Container!Slots -> 0..MaxMade]
    /\ open \subseteq Container!Service /\ late \subseteq Container!Service
    /\ \A s \in Container!Slots : held[s] # None => held[s][1] = s /\ held[s][2] < made[s]

StopTypes ==
    /\ pc \in {"running", "closing", "closed", "failed"} /\ closing \in Container!Slots \cup {None}
    /\ (pc = "closing") <=> (closing # None)
    /\ closing # None => held[closing] # None
    /\ walk \subseteq Providers /\ started \subseteq Providers

CacheTypes ==
    /\ errors \subseteq Providers /\ rerankFailed \in BOOLEAN
    /\ rag \in {None} \cup [embedder : Container!Service, reranker : Container!Service \cup {None}]

LEMMA ContainerTypes == Container!TypeOK <=> ServiceTypes /\ StopTypes /\ CacheTypes
BY DEF Container!TypeOK, ServiceTypes, StopTypes, CacheTypes

LEMMA ContainerConstants ==
    ASSUME Container!WorkerAssumption
    PROVE  /\ MaxMade \in Nat /\ None \notin Container!Slots /\ None \notin Container!Service
           /\ Container!Slots = Providers \cup TailSlots \cup {"llm"}
           /\ \A p \in Providers : p \notin TailSlots /\ p # "llm"
<1>1. Container!Slots = Providers \cup TailSlots \cup {"llm"}
    BY DEF Container!Slots, TailSlots
<1>2. MaxMade \in Nat /\ None \notin Container!Slots /\ None \notin Container!Slots \X Nat
    BY DEF Container!WorkerAssumption, Container!Slots
<1>3. \A p \in Providers : p \notin TailSlots /\ p # "llm"
    BY DEF Container!WorkerAssumption, TailSlots
<1>4. None \notin Container!Service
    BY <1>2 DEF Container!Service
<1> QED BY <1>1, <1>2, <1>3, <1>4

LEMMA TailAt ==
    /\ Container!Tail[1] = "embedder" /\ Container!Tail[2] = "external"
    /\ Container!Tail[3] = "rerank" /\ Container!Tail[4] = "engine"
BY DEF Container!Tail

LEMMA TailIs ==
    /\ \A j \in 1..4 : Container!Tail[j] \in TailSlots
    /\ \A s \in TailSlots : \E j \in 1..4 : Container!Tail[j] = s
    /\ \A j, k \in 1..4 : Container!Tail[j] = Container!Tail[k] => j = k
<1>1. \A j \in 1..4 : j = 1 \/ j = 2 \/ j = 3 \/ j = 4
    OBVIOUS
<1>2. 1 \in 1..4 /\ 2 \in 1..4 /\ 3 \in 1..4 /\ 4 \in 1..4
    OBVIOUS
<1> QED BY <1>1, <1>2, TailAt DEF TailSlots

LEMMA ContainerInit == ASSUME Container!WorkerAssumption, Container!Init PROVE ContainerInv
<1> USE DEF Container!Init, Container!Empty
<1>1. ServiceTypes
    BY ContainerConstants DEF ServiceTypes
<1>2. StopTypes /\ CacheTypes
    BY DEF StopTypes, CacheTypes
<1>3. /\ Container!RagIsOfTheContainer /\ Container!NothingLost /\ Container!CleanStop
      /\ StopVisitsAll /\ ErrorsAreEmpty /\ WalkHasBegun
    BY DEF Container!RagIsOfTheContainer, Container!NothingLost, Container!CleanStop, StopVisitsAll, ErrorsAreEmpty,
           WalkHasBegun
<1> QED BY <1>1, <1>2, <1>3, ContainerTypes DEF ContainerInv

\* A getter that fills empty slots keeps what is cached; during a stop what it makes is late.
LEMMA MakeStep ==
    ASSUME Container!WorkerAssumption, ContainerInv, NEW new \in SUBSET Container!Slots,
           \A s \in new : held[s] = None /\ s \notin errors', errors \subseteq errors', Container!Make(new),
           UNCHANGED <<pc, closing, walk, started>>
    PROVE  /\ ServiceTypes' /\ StopTypes' /\ Container!NothingLost' /\ Container!CleanStop' /\ StopVisitsAll'
           /\ \A s \in Container!Slots \ new : held'[s] = held[s]
           /\ \A s \in new : held'[s] \in Container!Service
<1>1. ServiceTypes /\ StopTypes
    BY ContainerTypes DEF ContainerInv
<1>2. /\ held' = [s \in Container!Slots |-> IF s \in new THEN <<s, made[s]>> ELSE held[s]]
      /\ open' = open \cup {<<s, made[s]>> : s \in new}
      /\ made' = [s \in Container!Slots |-> IF s \in new THEN made[s] + 1 ELSE made[s]]
      /\ late' = IF pc = "running" THEN late ELSE late \cup {<<s, made[s]>> : s \in new}
      /\ \A s \in new : made[s] < MaxMade
    BY DEF Container!Make
<1>3. \A s \in new : <<s, made[s]>> \in Container!Service /\ made[s] \in 0..MaxMade - 1 /\ s \in Container!Slots
    BY <1>1, <1>2, ContainerConstants DEF ServiceTypes, Container!Service
<1>4. \A s \in Container!Slots : IF s \in new THEN held'[s] = <<s, made[s]>> ELSE held'[s] = held[s]
    BY <1>2
<1>5. ServiceTypes'
    <2>1. held' \in [Container!Slots -> Container!Service \cup {None}]
        BY <1>1, <1>2, <1>3 DEF ServiceTypes
    <2>2. made' \in [Container!Slots -> 0..MaxMade]
        BY <1>1, <1>2, <1>3, ContainerConstants DEF ServiceTypes
    <2>3. open' \subseteq Container!Service /\ late' \subseteq Container!Service
        BY <1>1, <1>2, <1>3 DEF ServiceTypes
    <2>4. ASSUME NEW s \in Container!Slots, held'[s] # None PROVE held'[s][1] = s /\ held'[s][2] < made'[s]
        <3>1. CASE s \in new
            BY <3>1, <1>2, <1>3, <1>4
        <3>2. CASE s \notin new
            BY <3>2, <2>4, <1>1, <1>2, <1>4 DEF ServiceTypes
        <3> QED BY <3>1, <3>2
    <2> QED BY <2>1, <2>2, <2>3, <2>4, ContainerConstants DEF ServiceTypes, Container!Service
<1>6. StopTypes'
    BY <1>1, <1>3, <1>4, ContainerConstants DEF StopTypes
<1>7. Container!NothingLost'
    <2> SUFFICES ASSUME pc # "closed", NEW r \in open' PROVE \E s \in Container!Slots : held'[s] = r
        BY DEF Container!NothingLost
    <2>1. CASE r \in open
        <3>1. PICK s \in Container!Slots : held[s] = r
            BY <2>1 DEF ContainerInv, Container!NothingLost
        <3>2. r # None
            BY <2>1, <1>1, ContainerConstants DEF ServiceTypes
        <3> QED BY <3>1, <3>2, <1>4
    <2> QED BY <2>1, <1>2, <1>3, <1>4
<1>8. Container!CleanStop'
    BY <1>2 DEF ContainerInv, Container!CleanStop
<1>9. StopVisitsAll'
    <2> SUFFICES ASSUME pc = "closing", NEW s \in Container!Slots, held'[s] \in open', held'[s] \notin late'
                 PROVE  Ahead(s)'
        BY DEF StopVisitsAll
    <2>1. s \notin new
        BY <1>2, <1>4
    <2>2. held'[s] = held[s] /\ held[s] \notin late
        BY <2>1, <1>2, <1>4
    <2>3. held[s] \in open
        <3>1. SUFFICES ASSUME NEW t \in new, held[s] = <<t, made[t]>> PROVE FALSE
            BY <1>2, <2>2
        <3> QED BY <3>1, <2>2, <1>2
    <2>4. Ahead(s)
        BY <2>2, <2>3 DEF ContainerInv, StopVisitsAll
    <2> QED BY <2>4 DEF Ahead
<1> QED BY <1>3, <1>4, <1>5, <1>6, <1>7, <1>8, <1>9

LEMMA GetterStep ==
    ASSUME Container!WorkerAssumption, ContainerInv,
           \/ \E s \in Container!Slots : Container!Get(s)
           \/ \E p \in Providers : Container!GetProvider(p)
           \/ Container!GetRag
    PROVE  ContainerInv' /\ errors \subseteq errors'
<1>0. ServiceTypes /\ StopTypes /\ CacheTypes
    BY ContainerTypes DEF ContainerInv
<1>1. /\ Container!Slots = Providers \cup TailSlots \cup {"llm"} /\ errors \subseteq Providers
      /\ \A p \in Providers : p \notin TailSlots /\ p # "llm"
    BY <1>0, ContainerConstants DEF CacheTypes
\* What a getter other than that of the RAG service keeps.
<1>2. ASSUME NEW new \in SUBSET Container!Slots, \A s \in new : held[s] = None /\ s \notin errors',
             errors \subseteq errors', errors' \subseteq Providers, \A p \in errors' : held[p] = None,
             Container!Make(new), "rerank" \notin new, UNCHANGED <<pc, closing, walk, started, rerankFailed, rag>>
      PROVE  ContainerInv'
    <2>1. /\ ServiceTypes' /\ StopTypes' /\ Container!NothingLost' /\ Container!CleanStop' /\ StopVisitsAll'
          /\ \A s \in Container!Slots \ new : held'[s] = held[s]
        BY <1>2, MakeStep
    <2>2. CacheTypes'
        BY <1>0, <1>2, ContainerConstants DEF CacheTypes, Container!Service
    <2>3. Container!RagIsOfTheContainer'
        <3> SUFFICES ASSUME rag # None PROVE rag.embedder = held'["embedder"] /\ rag.reranker = held'["rerank"]
            BY <1>2 DEF Container!RagIsOfTheContainer
        <3>1. rag.embedder = held["embedder"] /\ rag.reranker = held["rerank"]
            BY DEF ContainerInv, Container!RagIsOfTheContainer
        <3>2. held["embedder"] # None
            BY <1>0, <3>1, ContainerConstants DEF CacheTypes
        <3>3. "embedder" \in Container!Slots \ new /\ "rerank" \in Container!Slots \ new
            BY <1>1, <1>2, <3>2 DEF TailSlots
        <3> QED BY <2>1, <3>1, <3>3
    <2>4. ErrorsAreEmpty'
        BY <1>1, <1>2, <2>1 DEF ErrorsAreEmpty
    <2>5. WalkHasBegun'
        BY <1>2 DEF WalkHasBegun, ContainerInv
    <2>6. Container!TypeOK'
        BY <2>1, <2>2, ContainerTypes, PTL
    <2> QED BY <2>1, <2>3, <2>4, <2>5, <2>6 DEF ContainerInv
<1>3. ASSUME NEW s \in Container!Slots, Container!Get(s) PROVE ContainerInv' /\ errors \subseteq errors'
    <2>1. /\ s \in {"llm", "embedder", "external", "engine"} /\ held[s] = None /\ Container!Make({s})
          /\ UNCHANGED <<errors, rerankFailed, rag, pc, closing, walk, started>>
        BY <1>3 DEF Container!Get, Container!Missing, Container!stop
    <2>2. s \notin errors /\ \A p \in errors : held[p] = None
        BY <1>1, <2>1 DEF TailSlots, ContainerInv, ErrorsAreEmpty
    <2> QED BY <1>1, <1>2, <2>1, <2>2
<1>4. ASSUME NEW p \in Providers, Container!GetProvider(p) PROVE ContainerInv' /\ errors \subseteq errors'
    <2>1. /\ p \notin errors /\ held[p] = None /\ p \in Container!Slots /\ p # "rerank"
          /\ UNCHANGED <<rerankFailed, rag, pc, closing, walk, started>>
        BY <1>1, <1>4 DEF Container!GetProvider, Container!Missing, Container!stop, TailSlots
    <2>2. \A q \in errors : held[q] = None
        BY DEF ContainerInv, ErrorsAreEmpty
    <2>3. CASE Container!Make({p}) /\ UNCHANGED errors
        BY <1>1, <1>2, <2>1, <2>2, <2>3
    <2>4. CASE errors' = errors \cup {p} /\ UNCHANGED <<held, open, made, late>>
        <3>1. ServiceTypes' /\ StopTypes'
            BY <1>0, <2>1, <2>4 DEF ServiceTypes, StopTypes, Container!Service
        <3>2. CacheTypes'
            BY <1>0, <2>1, <2>4 DEF CacheTypes, Container!Service
        <3>3. Container!RagIsOfTheContainer' /\ Container!NothingLost' /\ Container!CleanStop' /\ WalkHasBegun'
            BY <2>1, <2>4 DEF ContainerInv, Container!RagIsOfTheContainer, Container!NothingLost,
                              Container!CleanStop, WalkHasBegun
        <3>4. StopVisitsAll' /\ ErrorsAreEmpty'
            BY <2>1, <2>2, <2>4 DEF ContainerInv, StopVisitsAll, Ahead, ErrorsAreEmpty
        <3>5. Container!TypeOK'
            BY <3>1, <3>2, ContainerTypes, PTL
        <3> QED BY <2>4, <3>3, <3>4, <3>5 DEF ContainerInv
    <2> QED BY <1>4, <2>3, <2>4 DEF Container!GetProvider
<1>5. ASSUME Container!GetRag PROVE ContainerInv' /\ errors \subseteq errors'
    <2>1. PICK ok \in BOOLEAN, fails \in BOOLEAN :
            LET reranks == (ok /\ ~rerankFailed) \/ held["rerank"] # None
                new == Container!Missing({"engine"} \cup (IF reranks THEN {"rerank"} ELSE {})
                                            \cup (IF fails THEN {} ELSE {"embedder"}))
            IN  /\ fails => held["embedder"] = None
                /\ rerankFailed' = ~reranks
                /\ Container!Make(new)
                /\ rag' = IF fails THEN None ELSE [embedder |-> held'["embedder"], reranker |-> held'["rerank"]]
        BY <1>5 DEF Container!GetRag
    <2> DEFINE reranks == (ok /\ ~rerankFailed) \/ held["rerank"] # None
               wanted == {"engine"} \cup (IF reranks THEN {"rerank"} ELSE {}) \cup (IF fails THEN {} ELSE {"embedder"})
               new == Container!Missing(wanted)
    <2>2. new \in SUBSET TailSlots /\ \A s \in new : held[s] = None
        BY DEF Container!Missing, TailSlots
    <2>3. UNCHANGED <<errors, pc, closing, walk, started>>
        BY <1>5 DEF Container!GetRag, Container!stop
    <2>4. new \in SUBSET Container!Slots /\ \A s \in new : s \notin errors'
        BY <1>1, <2>2, <2>3
    <2>5. Container!Make(new)
        BY <2>1
    <2>6. /\ ServiceTypes' /\ StopTypes' /\ Container!NothingLost' /\ Container!CleanStop' /\ StopVisitsAll'
          /\ \A s \in Container!Slots \ new : held'[s] = held[s]
          /\ \A s \in new : held'[s] \in Container!Service
        BY <2>2, <2>3, <2>4, <2>5, MakeStep
    <2>7. held'["rerank"] \in Container!Service \cup {None} /\ (~fails => held'["embedder"] \in Container!Service)
        <3>1. "rerank" \in Container!Slots /\ "embedder" \in Container!Slots
            BY <1>1 DEF TailSlots
        <3>2. held["rerank"] \in Container!Service \cup {None} /\ held["embedder"] \in Container!Service \cup {None}
            BY <1>0, <3>1 DEF ServiceTypes
        <3>3. ~fails /\ held["embedder"] = None => "embedder" \in new
            BY DEF Container!Missing
        <3> QED BY <2>6, <3>1, <3>2, <3>3
    <2>8. rag' = IF fails THEN None ELSE [embedder |-> held'["embedder"], reranker |-> held'["rerank"]]
        BY <2>1
    <2>9. rag' \in {None} \cup [embedder : Container!Service, reranker : Container!Service \cup {None}]
        BY <2>7, <2>8
    <2>10. CacheTypes'
        <3>1. rerankFailed' \in BOOLEAN
            BY <2>1
        <3> QED BY <1>0, <2>3, <2>9, <3>1 DEF CacheTypes, Container!Service
    <2>11. Container!RagIsOfTheContainer'
        BY <2>8 DEF Container!RagIsOfTheContainer
    <2>12. ErrorsAreEmpty' /\ WalkHasBegun'
        BY <1>1, <2>2, <2>3, <2>6 DEF ContainerInv, ErrorsAreEmpty, WalkHasBegun
    <2>13. Container!TypeOK'
        BY <2>6, <2>10, ContainerTypes, PTL
    <2> QED BY <2>3, <2>6, <2>11, <2>12, <2>13 DEF ContainerInv
<1> QED BY <1>3, <1>4, <1>5

\* The first cached service of the tail comes with nothing cached before it.
LEMMA FirstHeldIs ==
    ASSUME NEW i \in 1..5
    PROVE  /\ \A s \in Container!FirstHeld(i) :
                \E j \in i..4 : /\ s = Container!Tail[j] /\ held[s] # None
                               /\ \A m \in i..(j - 1) : held[Container!Tail[m]] = None
           /\ Container!FirstHeld(i) = {} => \A k \in i..4 : held[Container!Tail[k]] = None
<1> DEFINE first(k) == k \in i..4 /\ held[Container!Tail[k]] # None
                          /\ \A m \in i..(k - 1) : held[Container!Tail[m]] = None
<1>1. \A s : s \in Container!FirstHeld(i) <=> \E j \in i..4 : s = Container!Tail[j] /\ first(j)
    BY DEF Container!FirstHeld
<1>2. ASSUME Container!FirstHeld(i) = {} PROVE \A k \in i..4 : held[Container!Tail[k]] = None
    <2>1. \A j \in i..4 : ~first(j)
        BY <1>1, <1>2
    <2>2. 1 \in i..4 => held[Container!Tail[1]] = None
        BY <2>1
    <2>3. 2 \in i..4 => held[Container!Tail[2]] = None
        BY <2>1, <2>2
    <2>4. 3 \in i..4 => held[Container!Tail[3]] = None
        BY <2>1, <2>2, <2>3
    <2>5. 4 \in i..4 => held[Container!Tail[4]] = None
        BY <2>1, <2>2, <2>3, <2>4
    <2> QED BY <2>2, <2>3, <2>4, <2>5
<1> QED BY <1>1, <1>2

\* The stop goes on with what is left, or with the tail from its place i, or is done: if that is all
\* that was there before and is open, nothing else is missed.
LEMMA ProceedStep ==
    ASSUME Container!WorkerAssumption, ContainerInv, pc \in {"running", "closing"},
           NEW left \in SUBSET Providers, NEW found \in SUBSET Providers, NEW i \in 1..5,
           left \subseteq found, left # {} => i = 1, \A p \in left : held[p] # None,
           Container!Proceed(left, found, i), open' \subseteq open, UNCHANGED <<made, late>>,
           \A s \in Container!Slots : held[s] \in open' /\ held[s] \notin late
               => s \in left \/ \E k \in i..4 : Container!Tail[k] = s
    PROVE  ContainerInv' /\ (pc' = "closed" \/ UNCHANGED <<held, errors>>)
<1>0. ServiceTypes /\ StopTypes /\ CacheTypes /\ Container!NothingLost
    BY ContainerTypes DEF ContainerInv
<1>1. /\ Container!Slots = Providers \cup TailSlots \cup {"llm"} /\ None \notin Container!Slots
      /\ None \notin Container!Service /\ MaxMade \in Nat
      /\ \A p \in Providers : p \notin TailSlots /\ p # "llm"
    BY ContainerConstants
<1>2. CASE Container!After(left, i) = {}
    <2>1. /\ held' = [s \in Container!Slots |-> None] /\ errors' = {} /\ rerankFailed' = FALSE /\ rag' = None
          /\ pc' = "closed" /\ closing' = None /\ walk' = {} /\ started' = {}
        BY <1>2 DEF Container!Proceed, Container!Reset, Container!Empty
    <2>2. left = {} /\ \A k \in i..4 : held[Container!Tail[k]] = None
        BY <1>2, FirstHeldIs DEF Container!After
    <2>3. ASSUME NEW r \in open' PROVE r \in late
        <3>1. PICK s \in Container!Slots : held[s] = r
            BY <1>0 DEF Container!NothingLost
        <3>2. r # None
            BY <1>0, <1>1 DEF ServiceTypes
        <3> QED BY <2>2, <3>1, <3>2
    <2>4. ServiceTypes' /\ StopTypes' /\ CacheTypes'
        <3>1. ServiceTypes'
            BY <1>0, <2>1 DEF ServiceTypes, Container!Service
        <3>2. StopTypes'
            BY <2>1 DEF StopTypes
        <3>3. CacheTypes'
            BY <2>1 DEF CacheTypes
        <3> QED BY <3>1, <3>2, <3>3
    <2>5. Container!TypeOK'
        BY <2>4, ContainerTypes, PTL
    <2>6. /\ Container!RagIsOfTheContainer' /\ Container!NothingLost' /\ Container!CleanStop'
          /\ StopVisitsAll' /\ ErrorsAreEmpty' /\ WalkHasBegun'
        BY <2>1, <2>3 DEF Container!RagIsOfTheContainer, Container!NothingLost, Container!CleanStop,
                          StopVisitsAll, ErrorsAreEmpty, WalkHasBegun
    <2> QED BY <2>1, <2>5, <2>6 DEF ContainerInv
<1>3. CASE Container!After(left, i) # {}
    <2>1. PICK c \in Container!After(left, i) :
            /\ closing' = c /\ walk' = left \ {c} /\ started' = found /\ pc' = "closing"
            /\ UNCHANGED <<held, errors, rerankFailed, rag>>
        BY <1>3 DEF Container!Proceed, Container!cache
    <2>2. IF left # {} THEN c \in left
          ELSE \E j \in i..4 : /\ c = Container!Tail[j] /\ held[c] # None
                              /\ \A m \in i..(j - 1) : held[Container!Tail[m]] = None
        BY FirstHeldIs DEF Container!After
    <2>3. c \in Container!Slots /\ held[c] # None /\ c # None
        <3>1. \A j \in i..4 : Container!Tail[j] \in Container!Slots
            BY <1>1, TailIs
        <3> QED BY <1>1, <2>2, <3>1
    <2>4. ServiceTypes' /\ CacheTypes'
        BY <1>0, <2>1 DEF ServiceTypes, CacheTypes, Container!Service
    <2>5. StopTypes'
        BY <2>1, <2>3 DEF StopTypes
    <2>6. Container!TypeOK'
        BY <2>4, <2>5, ContainerTypes, PTL
    <2>7. Container!RagIsOfTheContainer' /\ Container!NothingLost' /\ Container!CleanStop'
        BY <1>0, <2>1 DEF ContainerInv, Container!RagIsOfTheContainer, Container!NothingLost, Container!CleanStop
    <2>8. ErrorsAreEmpty' /\ WalkHasBegun'
        BY <2>1 DEF ContainerInv, ErrorsAreEmpty, WalkHasBegun
    <2>9. StopVisitsAll'
        <3> SUFFICES ASSUME NEW s \in Container!Slots, held[s] \in open', held[s] \notin late PROVE Ahead(s)'
            BY <2>1 DEF StopVisitsAll
        <3>1. held[s] # None
            BY <1>0, <1>1 DEF ServiceTypes
        <3>2. CASE left # {}
            <4>1. s \in left \/ s \in TailSlots
                BY <3>2, TailIs
            <4>2. c \in Providers /\ walk' = left \ {c} /\ closing' = c
                BY <2>1, <2>2, <3>2
            <4> QED BY <4>1, <4>2 DEF Ahead
        <3>3. CASE left = {}
            <4>1. PICK j \in i..4 : c = Container!Tail[j] /\ \A m \in i..(j - 1) : held[Container!Tail[m]] = None
                BY <2>2, <3>3
            <4>2. PICK k \in i..4 : Container!Tail[k] = s
                BY <3>3
            <4>3. ~(k \in i..(j - 1))
                BY <3>1, <4>1, <4>2
            <4>4. j \in 1..4 /\ k \in 1..4 /\ j <= k
                BY <4>3
            <4> QED BY <2>1, <4>1, <4>2, <4>4 DEF Ahead
        <3> QED BY <3>2, <3>3
    <2> QED BY <2>1, <2>6, <2>7, <2>8, <2>9 DEF ContainerInv
<1> QED BY <1>2, <1>3

LEMMA StopStep ==
    ASSUME Container!WorkerAssumption, ContainerInv, Container!Stop \/ Container!Closed \/ Container!CloseRaises
    PROVE  ContainerInv' /\ (pc' = "closed" \/ UNCHANGED <<held, errors>>)
<1>0. ServiceTypes /\ StopTypes /\ CacheTypes
    BY ContainerTypes DEF ContainerInv
<1>1. /\ Container!Slots = Providers \cup TailSlots \cup {"llm"} /\ None \notin Container!Slots
      /\ None \notin Container!Service
      /\ \A p \in Providers : p \notin TailSlots /\ p # "llm"
    BY ContainerConstants
<1>2. \A s \in Container!Slots : held[s] \in open => held[s] # None
    BY <1>0, <1>1 DEF ServiceTypes
<1>3. /\ Container!Kept(held) \in SUBSET Providers /\ \A p \in Container!Kept(held) : held[p] # None
      /\ \A s \in Container!Slots : held[s] # None /\ s # "llm" =>
             s \in Container!Kept(held) \/ \E k \in 1..4 : Container!Tail[k] = s
    BY <1>1, TailIs DEF Container!Kept
\* The loop over the providers begins.
<1>4. ASSUME pc \in {"running", "closing"}, held["llm"] \notin open', open' \subseteq open, UNCHANGED <<made, late>>,
             Container!Proceed(Container!Kept(held), Container!Kept(held), 1)
      PROVE  ContainerInv' /\ (pc' = "closed" \/ UNCHANGED <<held, errors>>)
    <2>1. \A s \in Container!Slots : held[s] \in open' /\ held[s] \notin late
             => s \in Container!Kept(held) \/ \E k \in 1..4 : Container!Tail[k] = s
        BY <1>2, <1>3, <1>4
    <2> QED BY <1>3, <1>4, <2>1, ProceedStep
\* The stop is given up.
<1>5. ASSUME pc = "closing", Container!Abandon, open' \subseteq open, UNCHANGED <<made, late>>
      PROVE  ContainerInv' /\ (pc' = "closed" \/ UNCHANGED <<held, errors>>)
    <2>1. pc' = "failed" /\ closing' = None /\ UNCHANGED <<held, errors, rerankFailed, rag, walk, started>>
        BY <1>5 DEF Container!Abandon, Container!cache
    <2>2. ServiceTypes' /\ CacheTypes' /\ StopTypes'
        BY <1>0, <1>5, <2>1 DEF ServiceTypes, CacheTypes, StopTypes, Container!Service
    <2>3. Container!TypeOK'
        BY <2>2, ContainerTypes, PTL
    <2>4. Container!NothingLost'
        BY <1>5, <2>1 DEF ContainerInv, Container!NothingLost
    <2>5. /\ Container!RagIsOfTheContainer' /\ Container!CleanStop'
          /\ StopVisitsAll' /\ ErrorsAreEmpty' /\ WalkHasBegun'
        BY <2>1 DEF ContainerInv, Container!RagIsOfTheContainer, Container!CleanStop, StopVisitsAll,
                    ErrorsAreEmpty, WalkHasBegun
    <2> QED BY <2>1, <2>3, <2>4, <2>5 DEF ContainerInv
<1>6. CASE Container!Stop
    <2>1. pc = "running" /\ UNCHANGED <<open, made, late>>
        BY <1>6 DEF Container!Stop
    <2>2. CASE held["llm"] = None
        <3>1. held["llm"] \notin open
            BY <1>1, <1>2, <2>2
        <3> QED BY <1>4, <1>6, <2>1, <2>2, <3>1 DEF Container!Stop
    <2>3. CASE held["llm"] # None
        <3>1. pc' = "closing" /\ closing' = "llm" /\ UNCHANGED <<walk, started, held, errors, rerankFailed, rag>>
            BY <1>6, <2>3 DEF Container!Stop, Container!cache
        <3>2. ServiceTypes' /\ CacheTypes' /\ StopTypes'
            BY <1>0, <1>1, <2>1, <2>3, <3>1 DEF ServiceTypes, CacheTypes, StopTypes, Container!Service
        <3>3. Container!TypeOK'
            BY <3>2, ContainerTypes, PTL
        <3>4. /\ Container!RagIsOfTheContainer' /\ Container!NothingLost' /\ Container!CleanStop'
              /\ ErrorsAreEmpty' /\ WalkHasBegun'
            BY <2>1, <3>1 DEF ContainerInv, Container!RagIsOfTheContainer, Container!NothingLost,
                              Container!CleanStop, ErrorsAreEmpty, WalkHasBegun
        <3>5. StopVisitsAll'
            BY <3>1 DEF StopVisitsAll, Ahead
        <3> QED BY <3>1, <3>3, <3>4, <3>5 DEF ContainerInv
    <2> QED BY <2>2, <2>3
<1>7. CASE Container!CloseRaises
    BY <1>5, <1>7 DEF Container!CloseRaises
<1>8. CASE Container!Closed
    <2>1. /\ pc = "closing" /\ open' = open \ {held[closing]} /\ UNCHANGED <<made, late>>
          /\ closing \in Container!Slots /\ open' \subseteq open
        BY <1>0, <1>8 DEF Container!Closed, StopTypes
    <2>2. \A s \in Container!Slots : held[s] \in open' /\ held[s] \notin late => Ahead(s) /\ s # closing
        BY <2>1 DEF ContainerInv, StopVisitsAll
    <2>3. CASE closing = "llm"
        <3>1. Container!Proceed(Container!Kept(held), Container!Kept(held), 1)
            BY <1>8, <2>3 DEF Container!Closed
        <3>2. \A s \in Container!Slots : held[s] \in open' /\ held[s] \notin late
                 => s \in Container!Kept(held) \/ \E k \in 1..4 : Container!Tail[k] = s
            BY <1>2, <1>3, <2>1, <2>2, <2>3
        <3> QED BY <1>3, <2>1, <3>1, <3>2, ProceedStep
    <2>4. CASE closing \in TailSlots
        <3>1. PICK j \in 1..4 : Container!Tail[j] = closing
            BY <2>4, TailIs
        <3>2. (CHOOSE k \in 1..4 : Container!Tail[k] = closing) = j
            BY <3>1, TailIs
        <3>3. Container!Proceed({}, started, 1 + j)
            BY <1>1, <1>8, <2>4, <3>2 DEF Container!Closed, TailSlots
        <3>4. ASSUME NEW s \in Container!Slots, held[s] \in open', held[s] \notin late
              PROVE  \E k \in (1 + j)..4 : Container!Tail[k] = s
            <4>1. Ahead(s) /\ s # closing
                BY <2>2, <3>4
            <4>2. PICK i, k \in 1..4 : Container!Tail[i] = closing /\ Container!Tail[k] = s /\ i <= k
                BY <1>1, <2>4, <4>1 DEF Ahead, TailSlots
            <4>3. i = j /\ k # j
                BY <3>1, <4>1, <4>2, TailIs
            <4> QED BY <4>2, <4>3
        <3>5. started \in SUBSET Providers /\ 1 + j \in 1..5
            BY <1>0 DEF StopTypes
        <3> QED BY <2>1, <3>3, <3>4, <3>5, ProceedStep
    <2>5. CASE closing \in Providers /\ Container!Kept(held) # started
        BY <1>1, <1>5, <1>8, <2>1, <2>5 DEF Container!Closed
    <2>6. CASE closing \in Providers /\ Container!Kept(held) = started
        <3>1. Container!Proceed(walk, started, 1)
            BY <1>1, <1>8, <2>6 DEF Container!Closed
        <3>2. ASSUME NEW s \in Container!Slots, held[s] \in open', held[s] \notin late
              PROVE  s \in walk \/ \E k \in 1..4 : Container!Tail[k] = s
            <4>1. Ahead(s) /\ s # closing /\ closing # "llm" /\ closing \notin TailSlots
                BY <1>1, <2>2, <2>6, <3>2
            <4>2. s \in walk \/ s \in TailSlots
                BY <4>1, TailIs DEF Ahead
            <4> QED BY <4>2, TailIs
        <3>3. walk \subseteq started /\ walk \in SUBSET Providers /\ started \in SUBSET Providers
            BY <1>0 DEF StopTypes, ContainerInv, WalkHasBegun
        <3>4. \A p \in walk : held[p] # None
            BY <1>3, <2>6, <3>3
        <3> QED BY <2>1, <3>1, <3>2, <3>3, <3>4, ProceedStep
    <2> QED BY <1>1, <2>1, <2>3, <2>4, <2>5, <2>6
<1> QED BY <1>6, <1>7, <1>8

LEMMA ContainerStep ==
    ASSUME Container!WorkerAssumption, ContainerInv, Container!Next
    PROVE  ContainerInv' /\ Container!FailsForGoodStep
<1>1. ASSUME ContainerInv', pc' = "closed" \/ errors \subseteq errors' PROVE Container!FailsForGoodStep
    BY <1>1 DEF ContainerInv, ErrorsAreEmpty, Container!FailsForGoodStep
<1>2. CASE Container!Stop \/ Container!Closed \/ Container!CloseRaises
    BY <1>1, <1>2, StopStep
<1>3. CASE \/ \E s \in Container!Slots : Container!Get(s)
           \/ \E p \in Providers : Container!GetProvider(p)
           \/ Container!GetRag
    BY <1>1, <1>3, GetterStep
<1> QED BY <1>2, <1>3 DEF Container!Next

-----------------------------------------------------------------------------
(***************************************************************************)
(* RepoAnalysis: a run has one message and then one worker, and only a     *)
(* save, which leaves a report, makes it succeed.  While nothing has       *)
(* raised, its web process has no part in it once the message is out, so   *)
(* what its worker read is what the row still says.                        *)
(***************************************************************************)
WebRow == [st : {"idle", "enqueue", "failing", "accepted", "rejected", "dead"}, read : Repo!Run \cup {None}]
WorkerRow == [st : {"idle", "start", "collect", "save", "fail"}, run : Runs \cup {None},
              read : Repo!Run \cup {None}, outcome : Repo!Reports \cup Repo!Errors \cup {None, "database"}]

RepoTypes ==
    /\ run \in [Runs -> Repo!Run \cup {None}] /\ task \in [Runs -> Repo!TaskStatus \cup {None}]
    /\ result \in [Runs -> Repo!Reports \cup {None}] /\ queue \subseteq Runs
    /\ web \in [Runs -> WebRow] /\ worker \in [Workers -> WorkerRow] /\ faults \in Nat

\* What a worker has at each point.
Sound(x) ==
    /\ x.st = "idle" <=> x.run = None
    /\ x.st = "start" => x.read # None
    /\ x.st = "save" => x.outcome \in Repo!Reports
    /\ x.st = "fail" => x.outcome \in Repo!Errors \cup {"database"}

\* A run has its rows from the submission on; its message is out at most once, and is with one worker.
OneWorker ==
    /\ \A r \in Runs :
          /\ web[r].st = "idle" <=> run[r] = None
          /\ run[r] = None <=> task[r] = None
          /\ web[r].st \in {"idle", "enqueue"} => r \notin queue /\ \A w \in Workers : worker[w].run # r
          /\ r \in queue => \A w \in Workers : worker[w].run # r
    /\ \A v, w \in Workers : v # w /\ worker[v].run # None => worker[v].run # worker[w].run
    /\ \A w \in Workers : Sound(worker[w])

\* What a run and its task say together.
Pending(row, state) == row # None /\ row.status = "pending" /\ row.error = None /\ state = "PENDING"
Working(row, state) == row # None /\ row.status = "running" /\ row.error = None /\ state = "PROCESSING"
Ended(row, state) ==
    row # None
    /\ \/ row.status = "succeeded" /\ row.error = None /\ state = "COMPLETED"
       \/ row.status = "failed" /\ row.error \in Repo!Errors /\ state = "FAILED"
Agreed(row, state) == row # None => Pending(row, state) \/ Working(row, state) \/ Ended(row, state)

\* A worker, and the rows of its run.
Attending(x, row, state) ==
    /\ x.st = "start" => Pending(row, state) /\ x.read = row
    /\ x.st \in {"collect", "save", "fail"} => Working(row, state)
    /\ x.st \in {"save", "fail"} => x.read \in {None, row}
    /\ x.st = "fail" => x.outcome \in Repo!Errors

\* As long as nothing has raised.
InStep ==
    /\ \A r \in Runs :
          /\ web[r].st # "failing"
          /\ Agreed(run[r], task[r])
          /\ web[r].st = "enqueue" \/ r \in queue => Pending(run[r], task[r])
    /\ \A w \in Workers : Attending(worker[w], run[worker[w].run], task[worker[w].run])

RepoInv == RepoTypes /\ OneWorker /\ Repo!SuccessHasReport /\ (faults = 0 => InStep)

LEMMA RepoConstants ==
    ASSUME Repo!RepoAssumption
    PROVE  /\ None \notin Repo!Run /\ None \notin Repo!TaskStatus /\ None \notin Repo!Reports
           /\ None \notin Repo!Errors /\ None \notin Runs /\ MaxFaults \in Nat
BY DEF Repo!RepoAssumption

LEMMA RepoInit == ASSUME Repo!RepoAssumption, Repo!Init PROVE RepoInv
<1> USE DEF Repo!Init
<1>1. /\ [st |-> "idle", read |-> None] \in WebRow
      /\ Repo!Nowhere \in WorkerRow /\ Repo!Nowhere.st = "idle" /\ Repo!Nowhere.run = None
    BY DEF WebRow, WorkerRow, Repo!Nowhere
<1>2. RepoTypes
    BY <1>1 DEF RepoTypes
<1>3. OneWorker
    BY <1>1, RepoConstants DEF OneWorker, Sound
<1>4. Repo!SuccessHasReport
    BY DEF Repo!SuccessHasReport
<1>5. InStep
    BY <1>1 DEF InStep, Agreed, Attending
<1> QED BY <1>2, <1>3, <1>4, <1>5 DEF RepoInv

\* What the session writes: what it changed of what it had read.
LEMMA FlushedIs ==
    ASSUME NEW old \in Repo!Run, NEW read \in Repo!Run, NEW status \in {"running", "succeeded", "failed"},
           NEW error \in Repo!Errors \cup {None, "dispatch", "database"}
    PROVE  /\ Repo!Flushed(old, read, status, error) \in Repo!Run
           /\ Repo!Flushed(old, read, status, error).status \in {old.status, status}
           /\ read = old => /\ Repo!Flushed(old, read, status, error).status = status
                            /\ Repo!Flushed(old, read, status, error).error = error
BY DEF Repo!Flushed, Repo!Run

LEMMA WebStep ==
    ASSUME Repo!RepoAssumption, RepoInv, NEW r \in Runs,
           Repo!Submit(r) \/ Repo!WebStep(r) \/ Repo!EnqueueRaises(r) \/ Repo!WebDies(r)
    PROVE  RepoInv' /\ Repo!EndsOnceStep
<1>0. RepoTypes /\ OneWorker /\ Repo!SuccessHasReport /\ (faults = 0 => InStep)
    BY DEF RepoInv
<1> USE RepoConstants
\* The web process goes on, and no row is written.
<1>1. ASSUME NEW row \in WebRow, web' = [web EXCEPT ![r] = row], row.st \notin {"idle", "enqueue"}, web[r].st # "idle",
             queue' \subseteq queue \cup {r}, UNCHANGED <<run, task, result, worker>>,
             queue' = queue \/ web[r].st = "enqueue", faults' \in Nat,
             faults' = 0 => faults = 0 /\ row.st # "failing"
      PROVE  RepoInv' /\ Repo!EndsOnceStep
    <2>1. web'[r] = row /\ \A q \in Runs : q # r => web'[q] = web[q]
        BY <1>0, <1>1 DEF RepoTypes
    <2>2. RepoTypes'
        BY <1>0, <1>1 DEF RepoTypes
    <2>3. OneWorker'
        BY <1>0, <1>1, <2>1 DEF OneWorker
    <2>4. Repo!SuccessHasReport' /\ Repo!EndsOnceStep
        BY <1>0, <1>1 DEF Repo!SuccessHasReport, Repo!EndsOnceStep
    <2>5. faults' = 0 => InStep'
        <3> SUFFICES ASSUME faults' = 0 PROVE InStep'
            OBVIOUS
        <3> QED BY <1>0, <1>1, <2>1 DEF InStep
    <2> QED BY <2>2, <2>3, <2>4, <2>5 DEF RepoInv
<1>2. web[r] \in WebRow
    BY <1>0 DEF RepoTypes
<1>3. CASE Repo!Submit(r)
    <2> DEFINE row == [web[r] EXCEPT !.st = "enqueue"]
               new == [status |-> "pending", error |-> None]
    <2>1. /\ web[r].st = "idle" /\ run' = [run EXCEPT ![r] = new] /\ task' = [task EXCEPT ![r] = "PENDING"]
          /\ web' = [web EXCEPT ![r] = row] /\ UNCHANGED <<result, queue, worker, faults>>
        BY <1>3 DEF Repo!Submit, Repo!Bounds
    <2>2. row \in WebRow /\ row.st = "enqueue" /\ new \in Repo!Run /\ new # None
        BY <1>2 DEF WebRow, Repo!Run
    <2>3. /\ web'[r].st = "enqueue" /\ run'[r] = new /\ task'[r] = "PENDING"
          /\ \A q \in Runs : q # r => web'[q] = web[q] /\ run'[q] = run[q] /\ task'[q] = task[q]
        BY <1>0, <2>1, <2>2 DEF RepoTypes
    <2>4. run[r] = None /\ task[r] = None /\ r \notin queue /\ \A w \in Workers : worker[w].run # r
        BY <1>0, <2>1 DEF OneWorker
    <2>5. RepoTypes'
        BY <1>0, <2>1, <2>2 DEF RepoTypes, Repo!TaskStatus
    <2>6. OneWorker'
        <3>1. "PENDING" # None
            BY DEF Repo!TaskStatus
        <3> QED BY <1>0, <2>1, <2>2, <2>3, <2>4, <3>1 DEF OneWorker
    <2>7. Repo!SuccessHasReport' /\ Repo!EndsOnceStep
        <3>1. task[r] \notin {"COMPLETED", "FAILED"}
            BY <2>4 DEF Repo!TaskStatus
        <3> QED BY <1>0, <2>1, <2>3, <3>1 DEF Repo!SuccessHasReport, Repo!EndsOnceStep
    <2>8. faults' = 0 => InStep'
        <3> SUFFICES ASSUME faults = 0 PROVE InStep'
            BY <2>1
        <3>1. InStep
            BY <1>0
        <3>2. Pending(run'[r], task'[r]) /\ Agreed(run'[r], task'[r])
            BY <2>2, <2>3 DEF Pending, Agreed
        <3>3. ASSUME NEW w \in Workers
              PROVE  Attending(worker[w], run'[worker[w].run], task'[worker[w].run])
            <4>1. CASE worker[w].st = "idle"
                BY <4>1 DEF Attending
            <4>2. CASE worker[w].st # "idle"
                <5>1. worker[w].run \in Runs /\ worker[w].run # r
                    BY <1>0, <2>4, <4>2 DEF OneWorker, Sound, RepoTypes, WorkerRow
                <5> QED BY <2>3, <3>1, <5>1 DEF InStep
            <4> QED BY <4>1, <4>2
        <3> QED BY <2>1, <2>3, <3>1, <3>2, <3>3 DEF InStep
    <2> QED BY <2>5, <2>6, <2>7, <2>8 DEF RepoInv
<1>4. CASE Repo!Enqueue(r)
    <2> DEFINE row == [web[r] EXCEPT !.st = "accepted"]
    <2>1. row \in WebRow /\ row.st = "accepted"
        BY <1>2 DEF WebRow
    <2>2. /\ web[r].st = "enqueue" /\ queue' = queue \cup {r} /\ web' = [web EXCEPT ![r] = row]
          /\ UNCHANGED <<run, task, result, worker, faults>>
        BY <1>4 DEF Repo!Enqueue, Repo!Rows, Repo!Bounds
    <2> QED BY <1>0, <1>1, <2>1, <2>2 DEF RepoTypes
<1>5. CASE Repo!EnqueueRaises(r)
    <2>1. [st |-> "failing", read |-> None] \in WebRow
        BY DEF WebRow
    <2>2. faults' \in Nat /\ faults' # 0
        BY <1>0, <1>5 DEF RepoTypes, Repo!EnqueueRaises
    <2>3. /\ web[r].st = "enqueue" /\ web' = [web EXCEPT ![r] = [st |-> "failing", read |-> None]]
          /\ queue' \subseteq queue \cup {r} /\ UNCHANGED <<run, task, result, worker>>
        BY <1>5 DEF Repo!EnqueueRaises, Repo!Rows
    <2> QED BY <1>1, <2>1, <2>2, <2>3
<1>6. CASE Repo!WebDies(r)
    <2> DEFINE row == [web[r] EXCEPT !.st = "dead"]
    <2>1. row \in WebRow /\ row.st = "dead"
        BY <1>2 DEF WebRow
    <2>2. /\ web[r].st # "idle" /\ web' = [web EXCEPT ![r] = row]
          /\ UNCHANGED <<run, task, result, queue, worker, faults>>
        BY <1>6 DEF Repo!WebDies, Repo!Rows
    <2> QED BY <1>0, <1>1, <2>1, <2>2 DEF RepoTypes
<1>7. CASE Repo!WebReads(r)
    <2> DEFINE row == [web[r] EXCEPT !.read = run[r]]
    <2>1. row \in WebRow /\ row.st = web[r].st
        BY <1>0, <1>2 DEF RepoTypes, WebRow
    <2>2. /\ web[r].st = "failing" /\ web' = [web EXCEPT ![r] = row]
          /\ UNCHANGED <<run, task, result, queue, worker, faults>>
        BY <1>7 DEF Repo!WebReads, Repo!Rows, Repo!Bounds
    <2>3. faults # 0
        BY <1>0, <2>2 DEF InStep
    <2> QED BY <1>0, <1>1, <2>1, <2>2, <2>3 DEF RepoTypes
<1>8. CASE Repo!WebFails(r)
    <2> DEFINE row == [web[r] EXCEPT !.st = "rejected"]
               new == Repo!Flushed(run[r], web[r].read, "failed", "dispatch")
    <2>1. /\ web[r].st = "failing" /\ web[r].read # None /\ run' = [run EXCEPT ![r] = new]
          /\ web' = [web EXCEPT ![r] = row] /\ UNCHANGED <<result, queue, worker, faults>>
          /\ task' = [task EXCEPT ![r] = IF task[r] \in {"PENDING", "PROCESSING"} THEN "FAILED" ELSE task[r]]
        BY <1>8 DEF Repo!WebFails, Repo!Failed, Repo!Fails, Repo!Transition, Repo!Bounds
    <2>2. row \in WebRow /\ row.st = "rejected"
        BY <1>2 DEF WebRow
    <2>3. run[r] # None /\ task[r] # None /\ faults # 0 /\ run[r] \in Repo!Run /\ task[r] \in Repo!TaskStatus
        BY <1>0, <2>1 DEF OneWorker, InStep, RepoTypes
    <2>4. new \in Repo!Run /\ new.status \in {run[r].status, "failed"}
        <3>1. web[r].read \in Repo!Run
            BY <1>2, <2>1 DEF WebRow
        <3> QED BY <2>3, <3>1, FlushedIs
    <2>5. /\ web'[r].st = "rejected" /\ run'[r] = new /\ task'[r] \in Repo!TaskStatus
          /\ task[r] \in {"COMPLETED", "FAILED"} => task'[r] = task[r]
          /\ \A q \in Runs : q # r => web'[q] = web[q] /\ run'[q] = run[q] /\ task'[q] = task[q]
        BY <1>0, <2>1, <2>2, <2>3 DEF RepoTypes, Repo!TaskStatus
    <2>6. RepoTypes'
        BY <1>0, <2>1, <2>2, <2>3, <2>4 DEF RepoTypes, Repo!TaskStatus
    <2>7. OneWorker'
        BY <1>0, <2>1, <2>3, <2>4, <2>5 DEF OneWorker
    <2>8. Repo!SuccessHasReport' /\ Repo!EndsOnceStep
        BY <1>0, <2>1, <2>3, <2>4, <2>5 DEF Repo!SuccessHasReport, Repo!EndsOnceStep
    <2> QED BY <2>1, <2>3, <2>6, <2>7, <2>8 DEF RepoInv
<1> QED BY <1>3, <1>4, <1>5, <1>6, <1>7, <1>8 DEF Repo!WebStep

\* A worker that has run r goes on: it may write the rows of r, and leaves every other run alone.
LEMMA WorkerMoves ==
    ASSUME Repo!RepoAssumption, RepoInv, NEW w \in Workers, NEW r \in Runs, worker[w].run = r,
           NEW new \in WorkerRow, worker' = [worker EXCEPT ![w] = new], new.run \in {None, r}, Sound(new),
           run' \in [Runs -> Repo!Run \cup {None}], task' \in [Runs -> Repo!TaskStatus \cup {None}],
           result' \in [Runs -> Repo!Reports \cup {None}],
           \A q \in Runs : q # r => run'[q] = run[q] /\ task'[q] = task[q] /\ result'[q] = result[q],
           run'[r] # None, task'[r] # None, run'[r].status = "succeeded" => result'[r] # None,
           task[r] \in {"COMPLETED", "FAILED"} => task'[r] = task[r],
           UNCHANGED <<queue, web>>, faults' \in Nat,
           faults' = 0 => /\ faults = 0 /\ Agreed(run'[r], task'[r])
                          /\ new.st # "idle" => Attending(new, run'[r], task'[r])
    PROVE  RepoInv' /\ Repo!EndsOnceStep
<1>0. RepoTypes /\ OneWorker /\ Repo!SuccessHasReport /\ (faults = 0 => InStep)
    BY DEF RepoInv
<1>1. worker'[w] = new /\ \A v \in Workers : v # w => worker'[v] = worker[v]
    BY <1>0 DEF RepoTypes
<1>2. r # None /\ run[r] # None /\ r \notin queue /\ web[r].st \notin {"idle", "enqueue"}
    BY <1>0, RepoConstants DEF OneWorker
<1>3. RepoTypes'
    BY <1>0 DEF RepoTypes
<1>4. OneWorker'
    <2>1. \A q \in Runs :
            /\ web'[q].st = "idle" <=> run'[q] = None
            /\ run'[q] = None <=> task'[q] = None
        BY <1>0, <1>2 DEF OneWorker
    <2>2. \A v \in Workers : worker'[v].run \in {None, worker[v].run}
        BY <1>1
    <2>3. \A q \in Runs :
            /\ web'[q].st \in {"idle", "enqueue"} => q \notin queue' /\ \A v \in Workers : worker'[v].run # q
            /\ q \in queue' => \A v \in Workers : worker'[v].run # q
        BY <1>0, <2>2, RepoConstants DEF OneWorker
    <2>4. \A v, u \in Workers : v # u /\ worker'[v].run # None => worker'[v].run # worker'[u].run
        BY <1>0, <2>2 DEF OneWorker
    <2>5. \A v \in Workers : Sound(worker'[v])
        BY <1>0, <1>1 DEF OneWorker
    <2> QED BY <2>1, <2>3, <2>4, <2>5 DEF OneWorker
<1>5. Repo!SuccessHasReport' /\ Repo!EndsOnceStep
    BY <1>0 DEF Repo!SuccessHasReport, Repo!EndsOnceStep
<1>6. faults' = 0 => InStep'
    <2> SUFFICES ASSUME faults' = 0 PROVE InStep'
        OBVIOUS
    <2>1. InStep
        BY <1>0
    <2>2. ASSUME NEW q \in Runs
          PROVE  /\ web'[q].st # "failing" /\ Agreed(run'[q], task'[q])
                 /\ web'[q].st = "enqueue" \/ q \in queue' => Pending(run'[q], task'[q])
        BY <1>2, <2>1 DEF InStep
    <2>3. ASSUME NEW v \in Workers
          PROVE  Attending(worker'[v], run'[worker'[v].run], task'[worker'[v].run])
        <3>1. CASE worker'[v].st = "idle"
            BY <3>1 DEF Attending
        <3>2. CASE v = w /\ new.st # "idle"
            <4>1. new.run = r
                BY <3>2 DEF Sound
            <4> QED BY <1>1, <3>2, <4>1
        <3>3. CASE v # w /\ worker'[v].st # "idle"
            <4>1. worker'[v] = worker[v] /\ worker[v].run \in Runs /\ worker[v].run # r
                BY <1>0, <1>1, <1>2, <3>3 DEF OneWorker, Sound, RepoTypes, WorkerRow
            <4> QED BY <2>1, <4>1 DEF InStep
        <3> QED BY <1>1, <3>1, <3>2, <3>3
    <2> QED BY <2>2, <2>3 DEF InStep
<1> QED BY <1>3, <1>4, <1>5, <1>6 DEF RepoInv

LEMMA WorkerStep ==
    ASSUME Repo!RepoAssumption, RepoInv, NEW w \in Workers,
           Repo!WorkerStep(w) \/ Repo!SaveRaises(w) \/ Repo!WorkerDies(w)
    PROVE  RepoInv' /\ Repo!EndsOnceStep
<1> DEFINE x == worker[w]
           r == worker[w].run
<1>0. RepoTypes /\ OneWorker /\ Repo!SuccessHasReport /\ (faults = 0 => InStep)
    BY DEF RepoInv
<1>1. x \in WorkerRow /\ Sound(x)
    BY <1>0 DEF RepoTypes, OneWorker
<1> USE RepoConstants
<1>2. ASSUME x.st # "idle"
      PROVE  /\ r \in Runs /\ run[r] \in Repo!Run /\ run[r] # None
             /\ task[r] \in Repo!TaskStatus /\ task[r] # None
             /\ run[r].status = "succeeded" => result[r] # None
             /\ faults = 0 => Agreed(run[r], task[r]) /\ Attending(x, run[r], task[r])
    <2>1. r \in Runs
        BY <1>1, <1>2 DEF Sound, WorkerRow
    <2>2. web[r].st # "idle"
        BY <1>0, <2>1 DEF OneWorker
    <2>3. run[r] # None /\ task[r] # None
        BY <1>0, <2>1, <2>2 DEF OneWorker
    <2>4. faults = 0 => Agreed(run[r], task[r]) /\ Attending(x, run[r], task[r])
        BY <1>0, <2>1 DEF InStep
    <2> QED BY <1>0, <2>1, <2>3, <2>4 DEF RepoTypes, Repo!SuccessHasReport
<1>3. /\ Repo!Nowhere \in WorkerRow /\ Repo!Nowhere.st = "idle" /\ Repo!Nowhere.run = None /\ Sound(Repo!Nowhere)
    BY DEF WorkerRow, Repo!Nowhere, Sound
\* The rows are left alone.
<1>4. ASSUME NEW new \in WorkerRow, worker' = [worker EXCEPT ![w] = new], x.st # "idle", new.run \in {None, r}, Sound(new),
             UNCHANGED <<run, task, result, queue, web>>, faults' \in Nat,
             faults' = 0 => faults = 0 /\ (new.st # "idle" => Attending(new, run[r], task[r]))
      PROVE  RepoInv' /\ Repo!EndsOnceStep
    BY <1>0, <1>2, <1>4, WorkerMoves DEF RepoTypes
\* The rows of its run are written.
<1>10. ASSUME NEW new \in WorkerRow, worker' = [worker EXCEPT ![w] = new], x.st # "idle", new.run \in {None, r}, Sound(new),
              NEW row \in Repo!Run, run' = [run EXCEPT ![r] = row],
              NEW state \in Repo!TaskStatus, task' = [task EXCEPT ![r] = state],
              task[r] \in {"COMPLETED", "FAILED"} => state = task[r],
              NEW report \in Repo!Reports \cup {None}, result' = [result EXCEPT ![r] = report],
              row.status = "succeeded" => report # None,
              UNCHANGED <<queue, web>>, faults' \in Nat,
              faults' = 0 => faults = 0 /\ Agreed(row, state) /\ (new.st # "idle" => Attending(new, row, state))
      PROVE  RepoInv' /\ Repo!EndsOnceStep
    <2>1. /\ run' \in [Runs -> Repo!Run \cup {None}] /\ task' \in [Runs -> Repo!TaskStatus \cup {None}]
          /\ result' \in [Runs -> Repo!Reports \cup {None}]
          /\ run'[r] = row /\ task'[r] = state /\ result'[r] = report
          /\ \A q \in Runs : q # r => run'[q] = run[q] /\ task'[q] = task[q] /\ result'[q] = result[q]
        BY <1>0, <1>2, <1>10 DEF RepoTypes
    <2>2. row # None /\ state # None
        OBVIOUS
    <2> QED BY <1>2, <1>10, <2>1, <2>2, WorkerMoves
<1>5. CASE Repo!Analyze(w)
    <2>1. x.st = "collect" /\ UNCHANGED <<run, task, result, queue, web, faults>>
        BY <1>5 DEF Repo!Analyze, Repo!Rows, Repo!Stays, Repo!Bounds
    <2>2. PICK st \in {"save", "fail"}, outcome \in Repo!Reports \cup Repo!Errors :
            /\ worker' = [worker EXCEPT ![w] = [x EXCEPT !.st = st, !.outcome = outcome, !.read = None]]
            /\ st = "save" => outcome \in Repo!Reports
            /\ st = "fail" => outcome \in Repo!Errors
        <3>1. \A st, outcome : [worker EXCEPT ![w].st = st, ![w].outcome = outcome, ![w].read = None]
                              = [worker EXCEPT ![w] = [x EXCEPT !.st = st, !.outcome = outcome, !.read = None]]
            BY <1>0 DEF RepoTypes, WorkerRow
        <3> QED BY <1>5, <3>1 DEF Repo!Analyze
    <2> DEFINE new == [x EXCEPT !.st = st, !.outcome = outcome, !.read = None]
    <2>3. new \in WorkerRow /\ new.run = r /\ new.st = st /\ new.outcome = outcome /\ new.read = None
        BY <1>1 DEF WorkerRow
    <2>4. Sound(new)
        BY <1>1, <2>1, <2>2, <2>3 DEF Sound
    <2>5. faults = 0 => Attending(new, run[r], task[r])
        BY <1>2, <2>1, <2>2, <2>3 DEF Attending
    <2> HIDE DEF new
    <2> QED BY <1>0, <1>4, <2>1, <2>2, <2>3, <2>4, <2>5 DEF new, RepoTypes
<1>6. CASE Repo!WorkerReads(w)
    <2> DEFINE new == [x EXCEPT !.read = run[r]]
    <2>1. /\ x.st \in {"save", "fail"} /\ worker' = [worker EXCEPT ![w] = new]
          /\ UNCHANGED <<run, task, result, queue, web, faults>>
        BY <1>6 DEF Repo!WorkerReads, Repo!Rows, Repo!Stays, Repo!Bounds
    <2>2. new \in WorkerRow /\ new.run = r /\ new.st = x.st /\ new.outcome = x.outcome /\ new.read = run[r]
        BY <1>1, <1>2, <2>1 DEF WorkerRow
    <2>3. Sound(new)
        BY <1>1, <2>1, <2>2 DEF Sound
    <2>4. faults = 0 => Attending(new, run[r], task[r])
        BY <1>2, <2>1, <2>2 DEF Attending
    <2> HIDE DEF new
    <2> QED BY <1>0, <1>4, <2>1, <2>2, <2>3, <2>4 DEF RepoTypes
<1>7. CASE Repo!WorkerDies(w)
    <2>1. /\ x.st # "idle" /\ worker' = [worker EXCEPT ![w] = Repo!Nowhere]
          /\ UNCHANGED <<run, task, result, queue, web, faults>>
        BY <1>7 DEF Repo!WorkerDies, Repo!Rows
    <2> QED BY <1>0, <1>3, <1>4, <2>1 DEF RepoTypes
<1>8. CASE Repo!Take(w)
    <2>1. PICK q \in queue :
            /\ x.st = "idle" /\ queue' = queue \ {q}
            /\ worker' = [worker EXCEPT ![w] = [Repo!Nowhere EXCEPT !.st = "start", !.run = q, !.read = run[q]]]
            /\ UNCHANGED <<run, task, result, web, faults>>
        BY <1>8 DEF Repo!Take, Repo!Popped, Repo!Rows, Repo!Bounds
    <2> DEFINE new == [Repo!Nowhere EXCEPT !.st = "start", !.run = q, !.read = run[q]]
    <2>2. /\ q \in Runs /\ run[q] # None /\ run[q] \in Repo!Run /\ web[q].st \notin {"idle", "enqueue"}
          /\ \A v \in Workers : worker[v].run # q
        BY <1>0, <2>1 DEF OneWorker, RepoTypes
    <2>3. new \in WorkerRow /\ new.st = "start" /\ new.run = q /\ new.read = run[q]
        BY <2>2 DEF WorkerRow, Repo!Nowhere
    <2>4. Sound(new)
        BY <2>2, <2>3 DEF Sound
    <2> HIDE DEF new
    <2>5. worker'[w] = new /\ \A v \in Workers : v # w => worker'[v] = worker[v]
        BY <1>0, <2>1 DEF RepoTypes, new
    <2>6. RepoTypes'
        BY <1>0, <2>1, <2>3 DEF RepoTypes, new
    <2>7. OneWorker'
        <3>1. \A v \in Workers : Sound(worker'[v])
            BY <1>0, <2>4, <2>5 DEF OneWorker
        <3>2. \A p \in Runs :
                /\ web'[p].st = "idle" <=> run'[p] = None
                /\ run'[p] = None <=> task'[p] = None
                /\ web'[p].st \in {"idle", "enqueue"} => p \notin queue' /\ \A v \in Workers : worker'[v].run # p
                /\ p \in queue' => \A v \in Workers : worker'[v].run # p
            BY <1>0, <2>1, <2>2, <2>3, <2>5 DEF OneWorker
        <3>3. \A v, u \in Workers : v # u /\ worker'[v].run # None => worker'[v].run # worker'[u].run
            BY <1>0, <2>2, <2>3, <2>5 DEF OneWorker
        <3> QED BY <3>1, <3>2, <3>3 DEF OneWorker
    <2>8. Repo!SuccessHasReport' /\ Repo!EndsOnceStep
        BY <1>0, <2>1 DEF Repo!SuccessHasReport, Repo!EndsOnceStep
    <2>9. faults' = 0 => InStep'
        <3> SUFFICES ASSUME faults = 0 PROVE InStep'
            BY <2>1
        <3>1. InStep
            BY <1>0
        <3>2. \A p \in Runs :
                 /\ web'[p].st # "failing" /\ Agreed(run'[p], task'[p])
                 /\ web'[p].st = "enqueue" \/ p \in queue' => Pending(run'[p], task'[p])
            BY <2>1, <3>1 DEF InStep
        <3>3. Attending(new, run[q], task[q])
            BY <2>1, <2>2, <2>3, <3>1 DEF InStep, Attending
        <3>4. \A v \in Workers : Attending(worker'[v], run'[worker'[v].run], task'[worker'[v].run])
            BY <2>1, <2>3, <2>5, <3>1, <3>3 DEF InStep
        <3> QED BY <3>2, <3>4 DEF InStep
    <2> QED BY <2>6, <2>7, <2>8, <2>9 DEF RepoInv
<1>9. CASE Repo!Start(w)
    <2> DEFINE new == [x EXCEPT !.st = "collect"]
               row == Repo!Flushed(run[r], x.read, "running", None)
               state == IF task[r] \in {"PENDING"} THEN "PROCESSING" ELSE task[r]
    <2>1. /\ x.st = "start" /\ run' = [run EXCEPT ![r] = row] /\ task' = [task EXCEPT ![r] = state]
          /\ worker' = [worker EXCEPT ![w] = new] /\ UNCHANGED <<result, queue, web, faults>>
        BY <1>9 DEF Repo!Start, Repo!Transition, Repo!Startable, Repo!Goes, Repo!Stays, Repo!Bounds
    <2>2. new \in WorkerRow /\ new.st = "collect" /\ new.run = r
        BY <1>1, <2>1 DEF WorkerRow
    <2>3. Sound(new)
        BY <1>1, <2>1, <2>2 DEF Sound
    <2>4. x.read \in Repo!Run
        BY <1>1, <2>1 DEF Sound, WorkerRow
    <2>5. /\ row \in Repo!Run /\ row.status \in {run[r].status, "running"}
          /\ x.read = run[r] => row.status = "running" /\ row.error = None
        <3>1. run[r] \in Repo!Run /\ "running" \in {"running", "succeeded", "failed"}
              /\ None \in Repo!Errors \cup {None, "dispatch", "database"}
            BY <1>2, <2>1
        <3>2. \A old, read \in Repo!Run :
                 /\ Repo!Flushed(old, read, "running", None) \in Repo!Run
                 /\ Repo!Flushed(old, read, "running", None).status \in {old.status, "running"}
                 /\ read = old => /\ Repo!Flushed(old, read, "running", None).status = "running"
                                  /\ Repo!Flushed(old, read, "running", None).error = None
            BY <3>1, FlushedIs
        <3> QED BY <2>4, <3>1, <3>2
    <2>6. state \in Repo!TaskStatus /\ (task[r] \in {"COMPLETED", "FAILED"} => state = task[r])
        BY <1>2, <2>1 DEF Repo!TaskStatus
    <2>7. faults = 0 => Working(row, state)
        BY <1>2, <2>1, <2>5 DEF Attending, Pending, Working
    <2>8. faults = 0 => Agreed(row, state) /\ Attending(new, row, state)
        BY <2>2, <2>7 DEF Attending, Agreed
    <2> HIDE DEF new, row, state
    <2>9. result' = [result EXCEPT ![r] = result[r]] /\ result[r] \in Repo!Reports \cup {None} /\ faults \in Nat
        BY <1>0, <1>2, <2>1 DEF RepoTypes
    <2>10. row.status = "succeeded" => result[r] # None
        BY <1>2, <2>1, <2>5
    <2> QED BY <1>10, <2>1, <2>2, <2>3, <2>5, <2>6, <2>8, <2>9, <2>10
<1>11. CASE Repo!Fail(w)
    <2> DEFINE row == Repo!Flushed(run[r], x.read, "failed", x.outcome)
               state == IF task[r] \in {"PENDING", "PROCESSING"} THEN "FAILED" ELSE task[r]
    <2>1. /\ x.st = "fail" /\ x.read # None /\ run' = [run EXCEPT ![r] = row] /\ task' = [task EXCEPT ![r] = state]
          /\ worker' = [worker EXCEPT ![w] = Repo!Nowhere] /\ UNCHANGED <<result, queue, web, faults>>
        BY <1>11 DEF Repo!Fail, Repo!Failed, Repo!Fails, Repo!Transition, Repo!Stays, Repo!Bounds
    <2>2. x.read \in Repo!Run /\ x.outcome \in Repo!Errors \cup {"database"}
        BY <1>1, <2>1 DEF Sound, WorkerRow
    <2>3. /\ row \in Repo!Run /\ row.status \in {run[r].status, "failed"}
          /\ x.read = run[r] => row.status = "failed" /\ row.error = x.outcome
        <3>1. run[r] \in Repo!Run /\ "failed" \in {"running", "succeeded", "failed"}
              /\ x.outcome \in Repo!Errors \cup {None, "dispatch", "database"}
            BY <1>2, <2>1, <2>2
        <3>3. PICK why \in Repo!Errors \cup {None, "dispatch", "database"} : why = x.outcome
            BY <3>1
        <3>2. \A old, read \in Repo!Run :
                 /\ Repo!Flushed(old, read, "failed", why) \in Repo!Run
                 /\ Repo!Flushed(old, read, "failed", why).status \in {old.status, "failed"}
                 /\ read = old => /\ Repo!Flushed(old, read, "failed", why).status = "failed"
                                  /\ Repo!Flushed(old, read, "failed", why).error = why
            BY <3>3 DEF Repo!Flushed, Repo!Run
        <3> QED BY <2>2, <3>1, <3>2, <3>3
    <2>4. state \in Repo!TaskStatus /\ (task[r] \in {"COMPLETED", "FAILED"} => state = task[r])
        BY <1>2, <2>1 DEF Repo!TaskStatus
    <2>5. faults = 0 => Agreed(row, state)
        BY <1>2, <2>1, <2>3 DEF Attending, Working, Ended, Agreed
    <2>6. row.status = "succeeded" => result[r] # None
        BY <1>2, <2>1, <2>3
    <2> HIDE DEF row, state
    <2>7. result' = [result EXCEPT ![r] = result[r]] /\ result[r] \in Repo!Reports \cup {None} /\ faults \in Nat
        BY <1>0, <1>2, <2>1 DEF RepoTypes
    <2> QED BY <1>3, <1>10, <2>1, <2>3, <2>4, <2>5, <2>6, <2>7
\* What a save writes.
<1>12. ASSUME Repo!CanSave(w), Repo!Saved(w), NEW new \in WorkerRow, worker' = [worker EXCEPT ![w] = new],
              new.run \in {None, r}, Sound(new), UNCHANGED <<queue, web>>, faults' \in Nat,
              faults' = 0 => faults = 0 /\ new.st = "idle"
       PROVE  RepoInv' /\ Repo!EndsOnceStep
    <2> DEFINE row == Repo!Flushed(run[r], x.read, "succeeded", None)
               state == IF task[r] \in {"PROCESSING"} THEN "COMPLETED" ELSE task[r]
    <2>1. /\ x.st = "save" /\ x.read # None /\ run' = [run EXCEPT ![r] = row] /\ task' = [task EXCEPT ![r] = state]
          /\ result' = [result EXCEPT ![r] = x.outcome]
        BY <1>12 DEF Repo!CanSave, Repo!Saved, Repo!Stores, Repo!Transition
    <2>2. x.read \in Repo!Run /\ x.outcome \in Repo!Reports
        BY <1>1, <2>1 DEF Sound, WorkerRow
    <2>3. /\ row \in Repo!Run
          /\ x.read = run[r] => row.status = "succeeded" /\ row.error = None
        <3>1. run[r] \in Repo!Run /\ "succeeded" \in {"running", "succeeded", "failed"}
              /\ None \in Repo!Errors \cup {None, "dispatch", "database"}
            BY <1>2, <2>1
        <3>2. \A old, read \in Repo!Run :
                 /\ Repo!Flushed(old, read, "succeeded", None) \in Repo!Run
                 /\ Repo!Flushed(old, read, "succeeded", None).status \in {old.status, "succeeded"}
                 /\ read = old => /\ Repo!Flushed(old, read, "succeeded", None).status = "succeeded"
                                  /\ Repo!Flushed(old, read, "succeeded", None).error = None
            BY <3>1, FlushedIs
        <3> QED BY <2>2, <3>1, <3>2
    <2>4. state \in Repo!TaskStatus /\ (task[r] \in {"COMPLETED", "FAILED"} => state = task[r])
        BY <1>2, <2>1 DEF Repo!TaskStatus
    <2>5. faults = 0 => Agreed(row, state)
        BY <1>2, <2>1, <2>3 DEF Attending, Working, Ended, Agreed
    <2> HIDE DEF row, state
    <2> QED BY <1>10, <1>12, <2>1, <2>2, <2>3, <2>4, <2>5
<1>13. CASE Repo!Save(w)
    <2>1. /\ Repo!CanSave(w) /\ Repo!Saved(w) /\ worker' = [worker EXCEPT ![w] = Repo!Nowhere]
          /\ UNCHANGED <<queue, web, faults>>
        BY <1>13 DEF Repo!Save, Repo!Stays, Repo!Bounds
    <2> QED BY <1>0, <1>3, <1>12, <2>1 DEF RepoTypes
<1>14. CASE Repo!SaveRaises(w)
    <2> DEFINE new == [x EXCEPT !.st = "fail", !.outcome = "database", !.read = None]
    <2>1. /\ Repo!CanSave(w) /\ x.st = "save" /\ UNCHANGED <<queue, web>> /\ worker' = [worker EXCEPT ![w] = new]
          /\ Repo!Saved(w) \/ UNCHANGED <<run, task, result>>
        <3>1. [worker EXCEPT ![w].st = "fail", ![w].outcome = "database", ![w].read = None] = [worker EXCEPT ![w] = new]
            BY <1>0 DEF RepoTypes, WorkerRow
        <3> QED BY <1>14, <3>1 DEF Repo!SaveRaises, Repo!CanSave, Repo!Rows
    <2>2. faults' \in Nat /\ faults' # 0
        BY <1>0, <1>14 DEF Repo!SaveRaises, RepoTypes
    <2>3. new \in WorkerRow /\ new.run = r /\ new.st = "fail" /\ new.outcome = "database"
        BY <1>1 DEF WorkerRow
    <2>4. Sound(new)
        BY <1>1, <2>1, <2>3 DEF Sound
    <2> HIDE DEF new
    <2>5. CASE Repo!Saved(w)
        BY <1>12, <2>1, <2>2, <2>3, <2>4, <2>5
    <2>6. CASE UNCHANGED <<run, task, result>>
        BY <1>4, <2>1, <2>2, <2>3, <2>4, <2>6
    <2> QED BY <2>1, <2>5, <2>6
<1> QED BY <1>5, <1>6, <1>7, <1>8, <1>9, <1>11, <1>13, <1>14 DEF Repo!WorkerStep

LEMMA RepoStep == ASSUME Repo!RepoAssumption, RepoInv, Repo!Next PROVE RepoInv' /\ Repo!EndsOnceStep
BY WebStep, WorkerStep DEF Repo!Next

\* A set of numbered items has no more members than numbers.
LEMMA Numbered ==
    ASSUME NEW name, NEW n \in Nat
    PROVE  LET items == {<<name, i>> : i \in 1..n} IN Cardinality(items) \in Nat /\ Cardinality(items) <= n
<1> DEFINE items == {<<name, i>> : i \in 1..n}
           number == [i \in 1..n |-> <<name, i>>]
<1>1. number \in Surjection(1..n, items)
    BY DEF Surjection
<1>2. ExistsSurjection(1..n, items)
    BY <1>1 DEF ExistsSurjection
<1> HIDE DEF items
<1>3. IsFiniteSet(items) /\ Cardinality(items) <= n
    BY <1>2, FS_NatSurjection, FS_SurjCardinalityBound
<1> QED BY <1>3, FS_CardinalityType DEF items

\* Only items of its page are in a report, whoever wrote it.
LEMMA ReportsCite ==
    ASSUME Repo!RepoAssumption, NEW report \in Repo!Reports
    PROVE  LET e == Repo!Evidence(report.readme) IN report.refs \subseteq e.claims \cup e.missing
<1>1. CASE report.refs = {}
    BY <1>1
<1>2. CASE \E page \in Pages : report = [by |-> "fallback", readme |-> page, refs |-> Repo!FallbackRefs(page)]
    <2>1. PICK page \in Pages : report.readme = page /\ report.refs = Repo!FallbackRefs(page)
        BY <1>2
    <2> DEFINE n == Repo!Least(Repo!Interesting(page), 8)
               m == page.missing
               claims == {<<"readme_claim", i>> : i \in 1..n}
               missing == {<<"missing_signal", i>> : i \in 1..m}
    <2>2. n \in Nat /\ m \in Nat
        BY DEF Repo!RepoAssumption, Repo!Least, Repo!Interesting
    <2>3. Repo!Evidence(page).claims = claims /\ Repo!Evidence(page).missing = missing
        BY DEF Repo!Evidence
    <2> HIDE DEF n, m
    <2>4. /\ Cardinality(claims) \in Nat /\ Cardinality(claims) <= n
          /\ Cardinality(missing) \in Nat /\ Cardinality(missing) <= m
        BY <2>2, Numbered
    <2> HIDE DEF claims, missing
    <2>5. ASSUME NEW ref \in report.refs
          PROVE  \/ \E i \in 1..Repo!Least(3, Cardinality(claims)) : ref = <<"readme_claim", i>>
                 \/ \E i \in 1..Repo!Least(4, Cardinality(missing)) : ref = <<"missing_signal", i>>
        <3>1. Repo!FallbackRefs(page) =
                 {<<"readme_claim", i>> : i \in 1..Repo!Least(3, Cardinality(claims))} \cup
                 {<<"missing_signal", i>> : i \in 1..Repo!Least(4, Cardinality(missing))}
            <4>1. \A S : Repo!Cardinality(S) = Cardinality(S)
                BY DEF Repo!Cardinality, Cardinality
            <4> QED BY <2>3, <4>1 DEF Repo!FallbackRefs
        <3> QED BY <2>1, <2>5, <3>1
    <2>6. Repo!Least(3, Cardinality(claims)) \in 0..n /\ Repo!Least(4, Cardinality(missing)) \in 0..m
        BY <2>2, <2>4 DEF Repo!Least
    <2>7. report.refs \subseteq claims \cup missing
        <3>1. ASSUME NEW ref \in report.refs PROVE ref \in claims \/ ref \in missing
            <4>1. (\E i \in 1..n : ref = <<"readme_claim", i>>) \/ \E i \in 1..m : ref = <<"missing_signal", i>>
                BY <2>2, <2>5, <2>6
            <4> QED BY <4>1 DEF claims, missing
        <3> QED BY <3>1
    <2> QED BY <2>1, <2>3, <2>7
<1> QED BY <1>1, <1>2 DEF Repo!Reports

LEMMA RepoSafe ==
    ASSUME Repo!RepoAssumption, RepoInv
    PROVE  /\ Repo!TypeOK /\ Repo!SuccessHasReport /\ Repo!CitesItsEvidence
           /\ faults = 0 => Repo!RunAndTaskAgree
<1> USE DEF RepoInv
<1>1. Repo!TypeOK
    BY DEF RepoTypes, WorkerRow, OneWorker, Repo!TypeOK
<1>2. Repo!CitesItsEvidence
    BY ReportsCite DEF RepoTypes, Repo!CitesItsEvidence
<1>3. ASSUME faults = 0 PROVE Repo!RunAndTaskAgree
    BY <1>3, RepoConstants DEF InStep, Agreed, Pending, Working, Ended, Repo!RunAndTaskAgree
<1> QED BY <1>1, <1>2, <1>3

-----------------------------------------------------------------------------
(***************************************************************************)
(* The suite: the component that runs keeps its invariant, and a step that *)
(* is not its own changes none of its variables.                           *)
(***************************************************************************)
SuiteInv ==
    /\ running = "flags" => FlagInv
    /\ running = "probe" => ProbeInv
    /\ running = "container" => ContainerInv
    /\ running = "objects" => ObjectInv
    /\ running = "repo" => RepoInv

\* What a step of the suite may not do.
SuiteStepOk ==
    /\ running = "flags" => Flags!HitIsFresh /\ Flags!FailureKeepsRules
    /\ running = "container" => Container!FailsForGoodStep
    /\ running = "repo" => Repo!EndsOnceStep

LEMMA SuiteStarts == ASSUME SuiteInit PROVE SuiteInv
BY WorkerSuiteAssumption, FlagInit, ProbeInit, ContainerInit, ObjectInit, RepoInit DEF SuiteInit, SuiteInv

\* Nothing at all happens.
LEMMA SuiteStutters == ASSUME SuiteInv, UNCHANGED suiteVars PROVE SuiteInv' /\ SuiteStepOk
<1> USE DEF suiteVars, otherVars
<1>1. running' = running
    OBVIOUS
<1>2. CASE running = "flags"
    <2>1. FlagInv /\ UNCHANGED <<flagVars, at>>
        BY <1>2 DEF SuiteInv
    <2>2. FlagInv'
        BY <2>1 DEF flagVars, FlagInv, FlagTypes, AnswersAreNew, AsOf
    <2>3. Flags!HitIsFresh /\ Flags!FailureKeepsRules
        BY <2>1 DEF flagVars, Flags!HitIsFresh, Flags!FailureKeepsRules
    <2> QED BY <1>1, <1>2, <2>2, <2>3 DEF SuiteInv, SuiteStepOk
<1>3. CASE running = "probe"
    <2>1. ProbeInv /\ UNCHANGED <<probeVars, at>>
        BY <1>3 DEF SuiteInv
    <2>2. ProbeInv'
        BY <2>1 DEF probeVars, ProbeInv, ProbeTypes, SamplesTold, ToldSample, Observed, CountsAccounted, RunsAccounted,
            Probe!Telling, Probe!Counts, Probe!RunsTold, Probe!Delta, Probe!Restarted
    <2> QED BY <1>1, <1>3, <2>2 DEF SuiteInv, SuiteStepOk
<1>4. CASE running = "container"
    <2>1. ContainerInv /\ UNCHANGED <<containerVars, pc>>
        BY <1>4 DEF SuiteInv
    <2>2. ContainerInv'
        BY <2>1 DEF containerVars, ContainerInv, ErrorsAreEmpty, WalkHasBegun, StopVisitsAll, Ahead, Container!TypeOK,
                    Container!RagIsOfTheContainer, Container!NothingLost, Container!CleanStop
    <2>3. Container!FailsForGoodStep
        BY <2>1 DEF containerVars, ContainerInv, ErrorsAreEmpty, Container!FailsForGoodStep
    <2> QED BY <1>1, <1>4, <2>2, <2>3 DEF SuiteInv, SuiteStepOk
<1>5. CASE running = "objects"
    <2>1. ObjectInv /\ UNCHANGED <<objectVars, pc, faults>>
        BY <1>5 DEF SuiteInv
    <2>2. ObjectInv'
        BY <2>1 DEF objectVars, ObjectInv, ObjectTypes, Copying, Moving, Reading
    <2> QED BY <1>1, <1>5, <2>2 DEF SuiteInv, SuiteStepOk
<1>6. CASE running = "repo"
    <2>1. RepoInv /\ UNCHANGED <<repoVars, faults>>
        BY <1>6 DEF SuiteInv
    <2>2. RepoInv'
        BY <2>1 DEF repoVars, RepoInv, RepoTypes, OneWorker, Repo!SuccessHasReport, InStep
    <2>3. Repo!EndsOnceStep
        BY <2>1 DEF repoVars, Repo!EndsOnceStep
    <2> QED BY <1>1, <1>6, <2>2, <2>3 DEF SuiteInv, SuiteStepOk
<1> QED BY <1>1, <1>2, <1>3, <1>4, <1>5, <1>6 DEF SuiteInv, SuiteStepOk

LEMMA SuiteStep == ASSUME SuiteInv, [SuiteNext]_suiteVars PROVE SuiteInv' /\ SuiteStepOk
<1> USE WorkerSuiteAssumption
<1>1. CASE UNCHANGED suiteVars
    BY <1>1, SuiteStutters
<1>2. CASE SuiteNext
    <2>1. running' = running
        BY <1>2 DEF SuiteNext
    <2>2. CASE running = "flags"
        <3>1. FlagInv /\ Flags!Next
            BY <1>2, <2>2 DEF SuiteInv, SuiteNext
        <3> QED BY <2>1, <2>2, <3>1, FlagStep, FlagsSafe DEF SuiteInv, SuiteStepOk
    <2>3. CASE running = "probe"
        <3>1. ProbeInv /\ Probe!Next
            BY <1>2, <2>3 DEF SuiteInv, SuiteNext
        <3> QED BY <2>1, <2>3, <3>1, ProbeStep DEF SuiteInv, SuiteStepOk
    <2>4. CASE running = "container"
        <3>1. ContainerInv /\ Container!Next
            BY <1>2, <2>4 DEF SuiteInv, SuiteNext
        <3> QED BY <2>1, <2>4, <3>1, ContainerStep DEF SuiteInv, SuiteStepOk
    <2>5. CASE running = "objects"
        <3>1. ObjectInv /\ Objects!Next
            BY <1>2, <2>5 DEF SuiteInv, SuiteNext
        <3> QED BY <2>1, <2>5, <3>1, ObjectStep DEF SuiteInv, SuiteStepOk
    <2>6. CASE running = "repo"
        <3>1. RepoInv /\ Repo!Next
            BY <1>2, <2>6 DEF SuiteInv, SuiteNext
        <3> QED BY <2>1, <2>6, <3>1, RepoStep DEF SuiteInv, SuiteStepOk
    <2> QED BY <2>1, <2>2, <2>3, <2>4, <2>5, <2>6 DEF SuiteInv, SuiteStepOk
<1> QED BY <1>1, <1>2

\* The invariant holds in every state of a process, and every step keeps what steps must keep.
LEMMA SuiteHolds == SuiteSpec => []SuiteInv /\ [][SuiteStepOk]_suiteVars
<1>1. SuiteInit => SuiteInv
    BY SuiteStarts
<1>2. SuiteInv /\ [SuiteNext]_suiteVars => SuiteInv'
    BY SuiteStep
<1>3. SuiteInv /\ [SuiteNext]_suiteVars => [SuiteStepOk]_suiteVars
    BY SuiteStep
<1> QED BY <1>1, <1>2, <1>3, PTL DEF SuiteSpec

\* However heartbeats overlap, Redis restarts and stored samples are lost, every eviction and every restart that
\* a sample has shown was told, is about to be, or was lost with an expire that failed after its hset, and a
\* heartbeat that says "ok" had an answer for what it reports (operability_probe.py).
THEOREM SuiteWatchesRedis == SuiteSpec => []RedisWatched
<1>1. SuiteInv => RedisWatched
    BY ProbeSafe DEF SuiteInv, RedisWatched
<1> QED BY <1>1, SuiteHolds, PTL

\* Whatever the chunk, flush and upload limits are and wherever a write, a move or a delete raises, an object that
\* can be seen is the whole upload, an upload is refused just when it is over the limit, an error leaves neither
\* object nor temporary file but those a delete failed on, and a reader of S3 keeps its copy.
THEOREM SuiteStoresWhole == SuiteSpec => []ObjectsWhole
<1>1. SuiteInv => ObjectsWhole
    BY WorkerSuiteAssumption, ObjectSafe DEF SuiteInv, ObjectsWhole
<1> QED BY <1>1, SuiteHolds, PTL

\* Flags answered from the cache in time lack no version that was there longer than the time to live, and a
\* failure of the cloud takes no rules away that were there, whoever else fetches or publishes meanwhile.
THEOREM SuiteFlagsFresh == SuiteSpec => FlagsFresh
<1>1. SuiteStepOk => (running = "flags" => Flags!HitIsFresh /\ Flags!FailureKeepsRules)
    BY DEF SuiteStepOk
<1> QED BY <1>1, SuiteHolds, PTL DEF FlagsFresh

\* For any set of providers and any getters that outlast the stop, what a worker has made is in its container
\* until close() has closed it, the RAG service works with services the container will close, and a provider that
\* failed stays failed until the container is emptied.
THEOREM SuiteKeepsServices == SuiteSpec => NoServiceLost
<1>1. SuiteInv => (running = "container" => /\ Container!TypeOK /\ Container!RagIsOfTheContainer
                                            /\ Container!NothingLost /\ Container!CleanStop)
    BY DEF SuiteInv, ContainerInv
<1>2. SuiteStepOk => (running = "container" => Container!FailsForGoodStep)
    BY DEF SuiteStepOk
<1> QED BY <1>1, <1>2, SuiteHolds, PTL DEF NoServiceLost

\* For any number of runs, workers, faults and crashes: a run has one worker at a time, one that succeeded has its
\* report, whose references are in the evidence of its page; its task ends once; and as long as nothing raises the
\* run and its task say the same.
THEOREM SuiteAnalysisAgrees == SuiteSpec => AnalysisAgrees
<1>1. SuiteInv => (running = "repo" => /\ Repo!TypeOK /\ Repo!SuccessHasReport /\ Repo!CitesItsEvidence
                                       /\ (faults = 0 => Repo!RunAndTaskAgree))
    BY WorkerSuiteAssumption, RepoSafe DEF SuiteInv
<1>2. SuiteStepOk => (running = "repo" => Repo!EndsOnceStep)
    BY DEF SuiteStepOk
<1> QED BY <1>1, <1>2, SuiteHolds, PTL DEF AnalysisAgrees
=============================================================================

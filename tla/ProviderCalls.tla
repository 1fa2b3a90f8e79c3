---------------------------- MODULE ProviderCalls ----------------------------
(***************************************************************************)
(* Calls to a model provider: a slot of the process, then the candidates   *)
(* of the route in order, each behind a circuit breaker of its own.  A     *)
(* call may be cancelled at every await (a deadline of the caller, a       *)
(* consumer that stops reading), and then tells the breaker nothing.       *)
(* With one candidate this is also a rerank or web search call.            *)
(***************************************************************************)
EXTENDS Naturals, FiniteSets

CONSTANTS
    Calls,
    Route,          \* number of candidates
    Threshold,      \* failure_threshold
    HalfOpenMax,    \* half_open_max_calls
    MaxConcurrency, \* LLM_MAX_CONCURRENCY
    MaxFailures,    \* bound of the model: failing answers of the providers
    MaxCancels      \* bound of the model

ASSUME CallsAssumption ==
    /\ {Route, Threshold, HalfOpenMax, MaxConcurrency} \subseteq Nat \ {0}
    /\ {MaxFailures, MaxCancels} \subseteq Nat
    /\ IsFiniteSet(Calls)

\* The candidates of the route, in order.
Candidates == 1..Route

VARIABLES
    breaker,    \* per candidate: [state, failures, cooled, inflight]
    call,       \* per call: [st, at, chunk, probe, sources]
    free,       \* free slots of the semaphore
    failures,   \* failing answers so far
    cancels     \* cancellations so far

vars == <<breaker, call, free, failures, cancels>>

States == {"closed", "open", "half_open"}
\* at: the candidate; chunk: it has sent one; probe: admitted by the half-open period that
\* still is; sources: history, the candidates whose chunks the consumer has.
Idle == [st |-> "idle", at |-> 1, chunk |-> FALSE, probe |-> FALSE, sources |-> {}]

Init ==
    /\ breaker = [k \in Candidates |->
                    [state |-> "closed", failures |-> 0, cooled |-> FALSE, inflight |-> 0]]
    /\ call = [c \in Calls |-> Idle]
    /\ free = MaxConcurrency
    /\ failures = 0
    /\ cancels = 0

Probes(k) == {c \in Calls : call[c].st = "calling" /\ call[c].at = k /\ call[c].probe}

\* When breaker k leaves its half-open period, its probes are probes of the past.
Leave(calls, k) == [c \in Calls |-> [calls[c] EXCEPT !.probe = @ /\ calls[c].at # k]]

Start(c) ==
    /\ call[c].st \in {"idle", "answered", "failed"}
    /\ call' = [call EXCEPT ![c] = [Idle EXCEPT !.st = "waiting"]]
    /\ UNCHANGED <<breaker, free, failures, cancels>>

\* llm_concurrency_slot.
TakeSlot(c) ==
    /\ call[c].st = "waiting"
    /\ free > 0
    /\ free' = free - 1
    /\ call' = [call EXCEPT ![c].st = "trying"]
    /\ UNCHANGED <<breaker, failures, cancels>>

\* Mutant: a half-open breaker admits every call.
AdmitsProbes(b) == b.state # "open" \/ b.cooled

\* acquire: what the breaker lets through.
Admits(b) ==
    \/ b.state = "closed"
    \/ b.state = "open" /\ b.cooled
    \/ b.state = "half_open" /\ b.inflight < HalfOpenMax

\* ... and what it becomes.
Entered(b) ==
    CASE b.state = "closed" -> b
      [] b.state = "open" -> [b EXCEPT !.state = "half_open", !.inflight = 1]
      [] OTHER -> [b EXCEPT !.inflight = @ + 1]

Acquire(c) ==
    LET k == call[c].at
    IN  /\ call[c].st = "trying"
        /\ Admits(breaker[k])
        /\ breaker' = [breaker EXCEPT ![k] = Entered(@)]
        /\ call' = [call EXCEPT ![c].st = "calling", ![c].probe = breaker[k].state # "closed"]
        /\ UNCHANGED <<free, failures, cancels>>

\* The route goes on to the next candidate only while nothing has been sent.
MovesOn(r) == ~r.chunk /\ r.at + 1 \in Candidates

\* Mutant: a call that gives up keeps its slot.
NextOrKeep(c) ==
    IF MovesOn(call[c])
    THEN /\ call' = [call EXCEPT ![c].st = "trying", ![c].at = @ + 1, ![c].probe = FALSE,
                                 ![c].chunk = FALSE]
         /\ UNCHANGED free
    ELSE call' = [call EXCEPT ![c].st = "failed", ![c].probe = FALSE] /\ UNCHANGED free

\* One candidate has not answered: the next one, or the end of the call.
NextOrFail(c) ==
    IF MovesOn(call[c])
    THEN /\ call' = [call EXCEPT ![c].st = "trying", ![c].at = @ + 1, ![c].probe = FALSE,
                                 ![c].chunk = FALSE]
         /\ UNCHANGED free
    ELSE /\ call' = [call EXCEPT ![c].st = "failed", ![c].probe = FALSE]
         /\ free' = free + 1

\* CIRCUIT_BREAKER_OPEN: the service raises it without telling the breaker of a failure.
Rejected(c) ==
    /\ call[c].st = "trying"
    /\ ~Admits(breaker[call[c].at])
    /\ NextOrFail(c)
    /\ UNCHANGED <<breaker, failures, cancels>>

Chunk(c) ==
    /\ call[c].st = "calling"
    /\ ~call[c].chunk
    /\ call' = [call EXCEPT ![c].chunk = TRUE, ![c].sources = @ \cup {call[c].at}]
    /\ UNCHANGED <<breaker, free, failures, cancels>>

\* on_success: ignored while open; otherwise the breaker closes.
OnSuccess(b) ==
    IF b.state = "open" THEN b
    ELSE [b EXCEPT !.state = "closed", !.failures = 0, !.inflight = 0]

Succeed(c) ==
    LET k == call[c].at
        ended == [call EXCEPT ![c].st = "answered", ![c].probe = FALSE]
    IN  /\ call[c].st = "calling"
        /\ breaker' = [breaker EXCEPT ![k] = OnSuccess(@)]
        /\ call' = IF breaker[k].state = "half_open" THEN Leave(ended, k) ELSE ended
        /\ free' = free + 1
        /\ UNCHANGED <<failures, cancels>>

\* on_failure: a probe's opens the breaker again, the Threshold-th in a row opens it; each
\* starts the cooldown anew.  The count is capped: above the threshold it changes nothing.
OnFailure(b) ==
    LET n == IF b.failures >= Threshold THEN Threshold ELSE b.failures + 1
    IN  CASE b.state = "half_open" ->
                [b EXCEPT !.state = "open", !.failures = n, !.cooled = FALSE, !.inflight = 0]
          [] b.state = "closed" /\ n >= Threshold ->
                [b EXCEPT !.state = "open", !.failures = n, !.cooled = FALSE]
          [] OTHER -> [b EXCEPT !.failures = n, !.cooled = FALSE]

\* The exception of a call: the breaker is told, then the route goes on or gives up.
Fail(c) ==
    LET k == call[c].at
    IN  /\ call[c].st = "calling"
        /\ failures < MaxFailures
        /\ failures' = failures + 1
        /\ breaker' = [breaker EXCEPT ![k] = OnFailure(@)]
        /\ LET on == MovesOn(call[c])
               ended == IF on
                        THEN [call EXCEPT ![c].st = "trying", ![c].at = @ + 1,
                                          ![c].probe = FALSE, ![c].chunk = FALSE]
                        ELSE [call EXCEPT ![c].st = "failed", ![c].probe = FALSE]
           IN  /\ call' = IF breaker[k].state = "half_open" THEN Leave(ended, k) ELSE ended
               /\ free' = IF on THEN free ELSE free + 1
        /\ UNCHANGED cancels

\* The finally of the slot: a call that holds one gives it back.
Returned(st) == IF st \in {"trying", "calling"} THEN 1 ELSE 0

\* CancelledError or GeneratorExit is no Exception: neither on_success nor on_failure runs.
Cancel(c) ==
    /\ call[c].st \in {"waiting", "trying", "calling"}
    /\ cancels < MaxCancels
    /\ cancels' = cancels + 1
    /\ call' = [call EXCEPT ![c].st = "failed", ![c].probe = FALSE]
    /\ free' = free + Returned(call[c].st)
    /\ UNCHANGED <<breaker, failures>>

\* cooldown_seconds have passed since the last failure.
CoolDown(k) ==
    /\ breaker[k].state = "open"
    /\ ~breaker[k].cooled
    /\ breaker' = [breaker EXCEPT ![k].cooled = TRUE]
    /\ UNCHANGED <<call, free, failures, cancels>>

CallStep(c) == Start(c) \/ TakeSlot(c) \/ Acquire(c) \/ Rejected(c) \/ Succeed(c)

Next ==
    \/ \E c \in Calls : CallStep(c) \/ Chunk(c) \/ Fail(c) \/ Cancel(c)
    \/ \E k \in Candidates : CoolDown(k)

Safety == Init /\ [][Next]_vars

\* Requests keep coming and are worked on, the semaphore is fair, time passes.
Spec ==
    /\ Safety
    /\ \A c \in Calls : SF_vars(TakeSlot(c)) /\ WF_vars(CallStep(c))
    /\ \A k \in Candidates : WF_vars(CoolDown(k))
-----------------------------------------------------------------------------
(* Properties.                                                              *)

TypeOK ==
    /\ breaker \in [Candidates -> [state : States, failures : 0..Threshold,
                                   cooled : BOOLEAN, inflight : 0..HalfOpenMax]]
    /\ call \in [Calls -> [st : {"idle", "waiting", "trying", "calling", "answered", "failed"},
                           at : Candidates, chunk : BOOLEAN, probe : BOOLEAN,
                           sources : SUBSET Candidates]]
    /\ free \in 0..MaxConcurrency
    /\ failures \in 0..MaxFailures
    /\ cancels \in 0..MaxCancels

\* A recovering provider gets at most HalfOpenMax probes at a time, whatever answers come late
\* or never: as many places are taken as probes of this half-open period are out or were lost,
\* never fewer, and no more than there are (circuit_breaker.py:66-75).
ProbesLimited ==
    \A k \in Candidates : breaker[k].state = "half_open" =>
        /\ Cardinality(Probes(k)) <= breaker[k].inflight
        /\ Cardinality(Probes(k)) <= HalfOpenMax

\* The slots are all there: cancellations, rejections and moves along the route neither lose
\* nor create one (concurrency.py:69).
SlotsKept ==
    free + Cardinality({c \in Calls : call[c].st \in {"trying", "calling"}}) = MaxConcurrency

\* A closed breaker has seen fewer than Threshold failures since the last success, in
\* whatever order late answers arrive (circuit_breaker.py:105).
ClosedBelowThreshold ==
    \A k \in Candidates : breaker[k].state = "closed" => breaker[k].failures < Threshold

\* A consumer never gets the chunks of two candidates (routing_service.py:4).
OneSource == \A c \in Calls : Cardinality(call[c].sources) <= 1

\* All of this, whatever is cancelled or answered late (circuit_breaker.py, concurrency.py).
CallsSafe == ProbesLimited /\ SlotsKept /\ ClosedBelowThreshold /\ OneSource

\* A breaker recovers by itself once the provider answers again: what opens or probes closes
\* (docs/legacy/backend-overview-legacy.md:398, "recovers automatically in 30 seconds").
\* Stated of the first candidate, which every call tries.
Recovers == breaker[1].state # "closed" ~> breaker[1].state = "closed"

\* Every call comes to an end, and every waiting one gets its slot.
CallsEnd == \A c \in Calls : call[c].st = "waiting" ~> call[c].st \in {"answered", "failed"}

\* Only a probe closes a half-open breaker; the late success of another call must not
\* (circuit_breaker.py:86).
ClosedByProbe ==
    [][\A k \in Candidates :
        (breaker[k].state = "half_open" /\ breaker'[k].state = "closed") =>
            \E c \in Probes(k) : call'[c].st = "answered"]_vars
=============================================================================

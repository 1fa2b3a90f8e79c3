------------------------------- MODULE MCChat -------------------------------
(***************************************************************************)
(* Chat generation: the rows and their recovery (ChatGeneration), what a   *)
(* stream tells its user (ChatStream) and what a query without a stream    *)
(* returns (ChatNonStream).  The three see the same request from different *)
(* sides and share no variable, so a behaviour runs one of them, chosen at *)
(* the start, and leaves the variables of the others alone.                *)
(***************************************************************************)
EXTENDS ChatGeneration, TLC

CONSTANTS
    Deliveries,     \* of ChatStream and ChatNonStream
    OneDelivery,
    Nobody,
    MaxEvents,
    Off             \* the value of a variable of a component that is not running

\* The request of ChatStream and ChatNonStream, its deliveries and its web handler.
VARIABLES status, queued, run, web, sideFaults
VARIABLES published, inbox          \* of ChatStream
VARIABLES task, answer, idempotency, result          \* of ChatNonStream
VARIABLE running

streamVars == <<published, inbox>>
nonStreamVars == <<task, answer, idempotency, result>>
sideVars == <<status, queued, run, web, sideFaults, streamVars, nonStreamVars>>
suiteVars == <<vars, sideVars, running>>

Symmetry == Permutations(Handlers) \cup Permutations(Workers) \cup Permutations(Reconcilers)

ASSUME DeliveryAssumption ==
    OneDelivery \subseteq Deliveries /\ (\A d, e \in OneDelivery : d = e) /\ Off \notin Deliveries

\* Recovery runs that overlap each other and everything else, over one attempt.
Recovery == INSTANCE ChatGeneration WITH MaxAttempts <- 1

\* Two deliveries of one attempt; and one delivery that meets every fault.
Stream == INSTANCE ChatStream
             WITH Faults <- {"generation", "database", "lease", "client"}, MaxFaults <- 2,
                  faults <- sideFaults
Told == INSTANCE ChatStream
             WITH Deliveries <- OneDelivery, MaxFaults <- 3, faults <- sideFaults,
                  Faults <- {"generation", "database", "redis", "cancel", "lease", "client"}

\* Two queries under one id, with two deliveries or with one.
NonStream == INSTANCE ChatNonStream
                WITH Faults <- {"broker", "database", "generation", "crash", "lease"},
                     MaxFaults <- 2, key <- idempotency, faults <- sideFaults
Once == INSTANCE ChatNonStream
                WITH Faults <- {"broker", "database", "generation", "crash", "lease"},
                     MaxFaults <- 2, key <- idempotency, faults <- sideFaults,
                     Deliveries <- OneDelivery

ASSUME SideAssumption ==
    Stream!StreamAssumption /\ Told!StreamAssumption
    /\ NonStream!NonStreamAssumption /\ Once!NonStreamAssumption

SideOff ==
    /\ status = Off /\ queued = Off /\ run = Off /\ web = Off /\ sideFaults = Off
StreamOff == published = Off /\ inbox = Off
NonStreamOff == task = Off /\ answer = Off /\ idempotency = Off /\ result = Off

SuiteInit ==
    /\ Init /\ running \in {"generation", "recovery", "stream", "told", "nonstream", "once"}
    /\ \/ running \in {"generation", "recovery"} /\ SideOff /\ StreamOff /\ NonStreamOff
       \/ running = "stream" /\ Stream!Init /\ NonStreamOff
       \/ running = "told" /\ Told!Init /\ NonStreamOff
       \/ running = "nonstream" /\ NonStream!Init /\ StreamOff
       \/ running = "once" /\ Once!Init /\ StreamOff

AtMostOne(states, idle) == \A p, q \in DOMAIN states : states[p] # idle /\ states[q] # idle => p = q

SuiteNext ==
    /\ UNCHANGED running
    /\ \/ /\ running = "generation" /\ Next /\ UNCHANGED sideVars
          /\ AtMostOne(reconciler', [items |-> {}, push |-> NoTask])
          /\ AtMostOne(handler', Idle) \/ AtMostOne(worker', Resting)
       \/ /\ running = "recovery" /\ Recovery!Next /\ UNCHANGED sideVars
       \/ running = "stream" /\ Stream!Next /\ UNCHANGED <<vars, nonStreamVars>>
       \/ running = "told" /\ Told!Next /\ UNCHANGED <<vars, nonStreamVars>>
       \/ running = "nonstream" /\ NonStream!Next /\ UNCHANGED <<vars, streamVars>>
       \/ running = "once" /\ Once!Next /\ UNCHANGED <<vars, streamVars>>

SuiteSpec == SuiteInit /\ [][SuiteNext]_suiteVars

\* How a stream ends tells the truth: an end without an error is of a settled answer, all of
\* it passed on, and stays so; an error is of an attempt that is not answered and that no run is
\* left to answer (web_stream_workflow.py, worker_generation_workflow.py).
StreamIsTrue ==
    /\ [](/\ running = "stream" => Stream!TypeOK /\ Stream!FinishedMeansAnswered
          /\ running = "told" => Told!TypeOK /\ Told!ErrorMeansUnanswered)
    /\ [][running = "stream" => Stream!SettledOnceStep]_suiteVars

\* What a query without a stream returns is what the database holds: one answer for all
\* who asked under one id, and no failure for an answer that is settled and charged, unless
\* a second delivery overwrites the task result.
ReplyIsDurable ==
    /\ running = "nonstream" => NonStream!TypeOK /\ NonStream!AnswerIsDurable
    /\ running = "once" => Once!AnswerIsDurable /\ Once!FailedMeansUnanswered
=============================================================================

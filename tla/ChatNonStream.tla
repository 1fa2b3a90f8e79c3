--------------------------- MODULE ChatNonStream ---------------------------
(***************************************************************************)
(* A question asked without streaming: the handler waits for the task's    *)
(* result, which the worker leaves in Redis under the task id.  Handlers   *)
(* that ask again under the same request id are answered from the          *)
(* database.  Every delivery of one task writes the same result key.       *)
(***************************************************************************)
EXTENDS Naturals

CONSTANTS
    Handlers,     \* HTTP queries with one client_request_id
    Deliveries,   \* deliveries of the task message
    Nobody,       \* no handler, no delivery
    Faults,       \* kinds that occur: "broker", "database", "generation", "crash", "lease"
    MaxFaults     \* bound of the model: how many of them

NonStreamAssumption ==
    MaxFaults \in Nat /\ Nobody \notin Handlers \cup Deliveries \cup {"answered"}

VARIABLES
    status,    \* of the generation request
    task,      \* who queued it, and so under which task id: "none", "web", "recovery"
    answer,    \* the delivery whose answer the assistant message holds
    key,       \* the Redis idempotency key: Nobody, a handler, or "answered"
    queued,    \* deliveries not yet taken
    run,       \* per delivery: where generate_nonstream is
    result,    \* the task result under the handler's task id
    web,       \* per handler: where _handle_query is, how it ended, whose answer it returned
    faults

vars == <<status, task, answer, key, queued, run, result, web, faults>>

Statuses == {"none", "prepared", "queued", "running", "succeeded", "failed"}
Results == [kind : {"none", "answer", "error"}, by : Deliveries \cup {Nobody}]
Pc == {"waiting", "claim", "run", "failing", "marker", "answered", "rejected", "ended"}
Endings == {"none", "answer", "LLM_SERVICE_FAILED", "CHAT_DISPATCH_RECOVERY_PENDING",
            "CHAT_REQUEST_PROCESSING", "conflict"}
Web == [pc : {"start", "key", "prepare", "queue", "enqueue", "wait", "ended"},
        ending : Endings, from : Deliveries \cup {Nobody}]

TypeOK ==
    /\ status \in Statuses
    /\ task \in {"none", "web", "recovery"}
    /\ answer \in Deliveries \cup {Nobody}
    /\ key \in Handlers \cup {Nobody, "answered"}
    /\ queued \subseteq Deliveries
    /\ run \in [Deliveries -> Pc]
    /\ result \in Results
    /\ web \in [Handlers -> Web]
    /\ faults \in 0..MaxFaults

Init ==
    /\ status = "none" /\ task = "none"
    /\ answer = Nobody /\ key = Nobody
    /\ queued = {}
    /\ run = [d \in Deliveries |-> "waiting"]
    /\ result = [kind |-> "none", by |-> Nobody]
    /\ web = [h \in Handlers |-> [pc |-> "start", ending |-> "none", from |-> Nobody]]
    /\ faults = 0

Fault(kind) == kind \in Faults /\ faults < MaxFaults /\ faults' = faults + 1

-----------------------------------------------------------------------------
(* The handler.                                                             *)

At(h, pc) == web[h].pc = pc
GoTo(h, pc) == web' = [web EXCEPT ![h].pc = pc]
End(h, ending, from) == web' = [web EXCEPT ![h] = [pc |-> "ended", ending |-> ending, from |-> from]]
Release(h) == key' = IF key = h THEN Nobody ELSE key

\* An accepted request is answered from the database if it succeeded, else refused.
CheckExisting(h) ==
    /\ At(h, "start")
    /\ CASE status = "none" -> GoTo(h, "key")
         [] status = "succeeded" -> End(h, "answer", answer)
         [] OTHER -> End(h, "CHAT_REQUEST_PROCESSING", Nobody)
    /\ UNCHANGED <<status, task, answer, key, queued, run, result, faults>>

\* SET NX; a key that exists refuses the query.
TakeKey(h) ==
    /\ At(h, "key")
    /\ IF key = Nobody
       THEN key' = h /\ GoTo(h, "prepare")
       ELSE End(h, "CHAT_REQUEST_PROCESSING", Nobody) /\ UNCHANGED key
    /\ UNCHANGED <<status, task, answer, queued, run, result, faults>>

\* The unique identity lets one handler through; the other's transaction is rolled back
\* and its key released.
Prepare(h) ==
    /\ At(h, "prepare")
    /\ IF status = "none"
       THEN status' = "prepared" /\ GoTo(h, "queue") /\ UNCHANGED key
       ELSE Release(h) /\ End(h, "conflict", Nobody) /\ UNCHANGED status
    /\ UNCHANGED <<task, answer, queued, run, result, faults>>

\* PREPARED becomes QUEUED under the handler's task id, unless recovery was faster.
Queue(h) ==
    /\ At(h, "queue")
    /\ IF status = "prepared"
       THEN status' = "queued" /\ task' = "web" /\ GoTo(h, "enqueue") /\ UNCHANGED key
       ELSE Release(h) /\ End(h, "conflict", Nobody) /\ UNCHANGED <<status, task>>
    /\ UNCHANGED <<answer, queued, run, result, faults>>

Enqueue(h) ==
    /\ At(h, "enqueue")
    /\ \E d \in Deliveries : run[d] = "waiting" /\ queued' = queued \cup {d}
    /\ GoTo(h, "wait")
    /\ UNCHANGED <<status, task, answer, key, run, result, faults>>

\* Queueing or sending raises: the key is released, the request left to the recovery.
DispatchFails(h) ==
    /\ \/ At(h, "queue") /\ Fault("database")
       \/ At(h, "enqueue") /\ Fault("broker")
    /\ Release(h)
    /\ End(h, "CHAT_DISPATCH_RECOVERY_PENDING", Nobody)
    /\ UNCHANGED <<status, task, answer, queued, run, result>>

\* The result of the task is polled for.
ReadResult(h) ==
    /\ At(h, "wait")
    /\ result.kind # "none"
    /\ IF result.kind = "answer"
       THEN End(h, "answer", result.by)
       ELSE End(h, "LLM_SERVICE_FAILED", Nobody)
    /\ UNCHANGED <<status, task, answer, key, queued, run, result, faults>>

\* No result within the deadline.
WaitTimeout(h) ==
    /\ At(h, "wait")
    /\ result.kind = "none"
    /\ Release(h)
    /\ End(h, "CHAT_DISPATCH_RECOVERY_PENDING", Nobody)
    /\ UNCHANGED <<status, task, answer, queued, run, result, faults>>

HandlerStep(h) ==
    \/ CheckExisting(h) \/ TakeKey(h) \/ Prepare(h) \/ Queue(h) \/ Enqueue(h)
    \/ ReadResult(h) \/ WaitTimeout(h)

-----------------------------------------------------------------------------
(* The worker: generate_nonstream and the task around it.                   *)

Step(d, from, to) == run[d] = from /\ run' = [run EXCEPT ![d] = to]

Take(d) ==
    /\ d \in queued
    /\ queued' = queued \ {d}
    /\ Step(d, "waiting", "claim")
    /\ UNCHANGED <<status, task, answer, key, result, web, faults>>

Claimable == status = "queued"

Claim(d) ==
    /\ IF Claimable
       THEN Step(d, "claim", "run") /\ status' = "running"
       ELSE Step(d, "claim", "rejected") /\ UNCHANGED status
    /\ UNCHANGED <<task, answer, key, queued, result, web, faults>>

Current == status = "running"

\* Answer, refusal or blocked output: persist_success, which may find that credits do not
\* suffice and settles a failure instead.
Settle(d) ==
    /\ Current
    /\ \/ Step(d, "run", "marker") /\ status' = "succeeded" /\ answer' = d
       \/ Step(d, "run", "rejected") /\ status' = "failed" /\ UNCHANGED answer
    /\ UNCHANGED <<task, key, queued, result, web, faults>>

\* The provider reports a failure, or the run raises.
GenerationFails(d) ==
    /\ Fault("generation")
    /\ Step(d, "run", "failing")
    /\ UNCHANGED <<status, task, answer, key, queued, result, web>>

\* persist_failure, which deletes the key whoever holds it.
PersistFailure(d) ==
    /\ Current
    /\ Step(d, "failing", "rejected")
    /\ status' = "failed"
    /\ key' = Nobody
    /\ UNCHANGED <<task, answer, queued, result, web, faults>>

\* The fence refuses, or the database does not take the terminal state.
NotPersisted(d) ==
    /\ \/ ~Current /\ UNCHANGED faults
       \/ Current /\ Fault("database")
    /\ Step(d, "run", "rejected") \/ Step(d, "failing", "rejected")
    /\ UNCHANGED <<status, task, answer, key, queued, result, web>>

WriteMarker(d) ==
    /\ Step(d, "marker", "answered")
    /\ key' = "answered"
    /\ UNCHANGED <<status, task, answer, queued, result, web, faults>>

\* Mutant: a task that was refused leaves the text it generated as its result.
ResultOfRun(d) == [kind |-> "answer", by |-> d]

ResultOf(d) == [kind |-> IF run[d] = "answered" THEN "answer" ELSE "error", by |-> d]

\* The task returns; its result is stored under the task id, over what was there.
Return(d) ==
    /\ run[d] \in {"answered", "rejected"}
    /\ run' = [run EXCEPT ![d] = "ended"]
    /\ result' = IF task = "web" THEN ResultOf(d) ELSE result
    /\ UNCHANGED <<status, task, answer, key, queued, web, faults>>

Crash(d) ==
    /\ run[d] \notin {"waiting", "ended"}
    /\ Fault("crash")
    /\ run' = [run EXCEPT ![d] = "ended"]
    /\ UNCHANGED <<status, task, answer, key, queued, result, web>>

\* The recovery: a lease runs out, a request not claimed in time is dispatched again (the
\* handler has long sent its message by then), one never queued is queued under another
\* task id.
LeaseExpires ==
    /\ status = "running" /\ Fault("lease")
    /\ status' = "failed"
    /\ UNCHANGED <<task, answer, key, queued, run, result, web>>

Redispatch(d) ==
    /\ status \in {"prepared", "queued"}
    /\ \A h \in Handlers : ~At(h, "enqueue")
    /\ run[d] = "waiting" /\ d \notin queued
    /\ queued' = queued \cup {d}
    /\ status' = "queued"
    /\ task' = IF status = "prepared" THEN "recovery" ELSE task
    /\ UNCHANGED <<answer, key, run, result, web, faults>>

RunStep(d) ==
    \/ Take(d) \/ Claim(d) \/ Settle(d) \/ PersistFailure(d) \/ NotPersisted(d)
    \/ WriteMarker(d) \/ Return(d)

-----------------------------------------------------------------------------
Next ==
    \/ \E h \in Handlers : HandlerStep(h) \/ DispatchFails(h)
    \/ \E d \in Deliveries : RunStep(d) \/ GenerationFails(d) \/ Crash(d) \/ Redispatch(d)
    \/ LeaseExpires

\* Handlers run, and so do workers; nothing makes faults or redispatches happen.
Fairness ==
    /\ \A h \in Handlers : WF_vars(HandlerStep(h))
    /\ \A d \in Deliveries : WF_vars(RunStep(d))

Safety == Init /\ [][Next]_vars
Spec == Safety /\ Fairness
-----------------------------------------------------------------------------
(* Properties.                                                              *)

\* Whoever is answered, from the task result or from the database, is told what the
\* database holds as the settled answer: one answer for all who asked under one id.
AnswerIsDurable ==
    \A h \in Handlers :
        web[h].ending = "answer" => status = "succeeded" /\ web[h].from = answer

\* A user told LLM_SERVICE_FAILED (web_nonstream_workflow.py:219) is not told so of an
\* answer that is settled and charged.
FailedMeansUnanswered ==
    \A h \in Handlers : web[h].ending = "LLM_SERVICE_FAILED" => status # "succeeded"

\* Every handler gets an end, however results are lost, and every delivery that is taken
\* comes to an end.
HandlersEnd ==
    /\ \A h \in Handlers : <>(web[h].pc = "ended")
    /\ \A d \in Deliveries : d \in queued ~> run[d] = "ended"
=============================================================================

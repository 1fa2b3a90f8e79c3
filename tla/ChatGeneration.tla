--------------------------- MODULE ChatGeneration ---------------------------
(***************************************************************************)
(* Chat generation: the durable generation request and its attempts, the   *)
(* web handlers that accept, queue and retry it, the workers that run and  *)
(* settle it, and the recovery job that redispatches or fails it.          *)
(*                                                                         *)
(* A request is identified by the client's request id.  An attempt has one *)
(* task id and one lease token, both new when PREPARED becomes QUEUED;     *)
(* since the first to queue wins, they are named by who that was ("web" or *)
(* "recovery").  Time is the question whether recovery_due_at has passed   *)
(* (due); RequestDue(r) is the passing of time.                            *)
(***************************************************************************)
EXTENDS Naturals

CONSTANTS
    Requests,      \* identities (user_id, client_request_id)
    Handlers,      \* HTTP requests being served: queries and explicit retries
    Workers,       \* TaskIQ workers
    Reconcilers,   \* runs of reconcile_due_requests; two may overlap
    NoRequest,     \* a process that serves no request
    NoTask,        \* a process that holds no task message
    Free,          \* no value under the Redis idempotency key
    MaxAttempts,   \* bound of the model: attempts of one request
    MaxDispatch,   \* CHAT_GENERATION_MAX_DISPATCH_ATTEMPTS
    Faults,        \* kinds that occur: "crash", "broker", "database", "redis", "expiry", "access"
    MaxFaults      \* bound of the model: how many of them

ASSUME ChatAssumption ==
    /\ MaxAttempts \in Nat \ {0}
    /\ MaxDispatch \in Nat \ {0}
    /\ MaxFaults \in Nat
    /\ NoRequest \notin Requests
    /\ NoTask \notin [req : Requests, attempt : Nat, lease : {"none", "web", "recovery"}, n : Nat]
    /\ Free \notin Handlers \cup {"answered"}

VARIABLES
    request,      \* chat_generation_requests
    message,      \* the assistant message of each request
    accepted,     \* history: pairs of messages created for each request
    charges,      \* usage records written for each request
    key,          \* the Redis idempotency key: Free, a handler's token, or "answered"
    queue,        \* task messages in the broker
    channel,      \* what subscribers of an attempt's channel were last told
    handler,      \* web handlers
    worker,       \* workers
    reconciler,   \* recovery runs
    barred,       \* requests whose session is deleted, or its workspace left by who asked
    faults        \* faults so far

rows == <<request, message, accepted, charges>>
processes == <<handler, worker, reconciler>>
vars == <<rows, key, queue, channel, processes, barred, faults>>

Attempts == 1..MaxAttempts
Leases == {"none", "web", "recovery"}
RequestStatus == {"NONE", "PREPARED", "QUEUED", "RUNNING", "SUCCEEDED", "FAILED"}
Nonterminal == {"PREPARED", "QUEUED", "RUNNING"}

RequestRow == [status : RequestStatus, attempt : 0..MaxAttempts, dispatch : 0..MaxDispatch,
               lease : Leases, retryable : BOOLEAN, due : BOOLEAN]

\* author: the attempt whose result the content is; meta: the attempt whose metrics and
\* outcome message_metadata holds (0: empty).
MessageRow == [status : {"NONE", "THINKING", "SUCCESS", "FAILED"},
               author : 0..MaxAttempts, meta : 0..MaxAttempts]

\* A task message names its attempt; n tells the dispatches of one attempt apart.
Task == [req : Requests, attempt : Attempts, lease : Leases, n : 1..MaxDispatch]

Idle == [pc |-> "idle", req |-> NoRequest, attempt |-> 0, copy |-> 0]
Handler == [pc : {"idle", "key", "prepare", "queue", "enqueue", "release", "stream", "write"},
            req : Requests \cup {NoRequest}, attempt : 0..MaxAttempts, copy : 0..MaxAttempts]

Resting == [pc |-> "idle", task |-> NoTask]
Worker == [pc : {"idle", "claim", "run", "marker", "unlock"}, task : Task \cup {NoTask}]

Item == [req : Requests, status : Nonterminal, attempt : Attempts, dispatch : 0..MaxDispatch,
         lease : Leases]

TypeOK ==
    /\ request \in [Requests -> RequestRow]
    /\ message \in [Requests -> MessageRow]
    /\ accepted \in [Requests -> Nat]
    /\ charges \in [Requests -> Nat]
    /\ key \in [Requests -> Handlers \cup {Free, "answered"}]
    /\ queue \subseteq Task
    /\ channel \in [Requests \X Attempts -> {"open", "error", "done"}]
    /\ handler \in [Handlers -> Handler]
    /\ worker \in [Workers -> Worker]
    /\ reconciler \in [Reconcilers -> [items : SUBSET Item, push : Task \cup {NoTask}]]
    /\ barred \subseteq Requests
    /\ faults \in 0..MaxFaults

Init ==
    /\ request = [r \in Requests |-> [status |-> "NONE", attempt |-> 0, dispatch |-> 0,
                                      lease |-> "none", retryable |-> FALSE, due |-> FALSE]]
    /\ message = [r \in Requests |-> [status |-> "NONE", author |-> 0, meta |-> 0]]
    /\ accepted = [r \in Requests |-> 0]
    /\ charges = [r \in Requests |-> 0]
    /\ key = [r \in Requests |-> Free]
    /\ queue = {}
    /\ channel = [x \in Requests \X Attempts |-> "open"]
    /\ handler = [h \in Handlers |-> Idle]
    /\ worker = [w \in Workers |-> Resting]
    /\ reconciler = [c \in Reconcilers |-> [items |-> {}, push |-> NoTask]]
    /\ barred = {}
    /\ faults = 0

Fault(kind) == kind \in Faults /\ faults < MaxFaults /\ faults' = faults + 1

-----------------------------------------------------------------------------
(* The table's compare-and-set updates.  Each is used inside a transaction  *)
(* of one of the processes below.                                           *)

Prepared(attempt) ==
    [status |-> "PREPARED", attempt |-> attempt, dispatch |-> 0, lease |-> "none",
     retryable |-> FALSE, due |-> FALSE]

\* try_queue_generation_request: PREPARED becomes QUEUED under a new task and lease, if who
\* asked still has a right to the session (_generation_request_actor_scope).
Queueable(r, a) == request[r].status = "PREPARED" /\ request[r].attempt = a /\ r \notin barred

Queued(row, who) ==
    [row EXCEPT !.status = "QUEUED", !.lease = who, !.dispatch = @ + 1, !.due = FALSE]

\* Mutant: a task that was claimed before can be claimed again.
ClaimableTwice(t) ==
    /\ request[t.req].status \in {"QUEUED", "RUNNING"}
    /\ request[t.req].attempt = t.attempt
    /\ request[t.req].lease = t.lease

\* try_claim_generation_request.
Claimable(t) ==
    /\ request[t.req].status = "QUEUED"
    /\ request[t.req].attempt = t.attempt
    /\ request[t.req].lease = t.lease

\* Mutant: the finalizing update forgets the attempt and its lease.
CurrentWhoever(t) == request[t.req].status = "RUNNING"

\* The fence of heartbeat and finalization: still RUNNING as this attempt.
Current(t) ==
    /\ request[t.req].status = "RUNNING"
    /\ request[t.req].attempt = t.attempt
    /\ request[t.req].lease = t.lease

Terminal(row, status, retryable) ==
    [row EXCEPT !.status = status, !.retryable = retryable, !.due = FALSE]

Failed(msg, a) == [msg EXCEPT !.status = "FAILED", !.author = a, !.meta = a]

\* Release of a lock by token: compare and delete.
ReleaseKey(h, r) == key' = IF key[r] = h THEN [key EXCEPT ![r] = Free] ELSE key

-----------------------------------------------------------------------------
(* Web handlers.                                                            *)

SetHandler(h, rec) == handler' = [handler EXCEPT ![h] = rec]
At(h, pc) == handler[h].pc = pc
GoTo(h, pc) == SetHandler(h, [handler[h] EXCEPT !.pc = pc])
Leave(h) == SetHandler(h, Idle)

\* A query arrives; a request already accepted under its id is only reported.
Ask(h, r) ==
    /\ At(h, "idle")
    /\ request[r].status = "NONE"
    /\ SetHandler(h, [pc |-> "key", req |-> r, attempt |-> 1, copy |-> 0])
    /\ UNCHANGED <<rows, key, queue, channel, worker, reconciler, faults, barred>>

\* check_idempotency: SET NX; a key that exists ends the query.
TakeKey(h) ==
    /\ At(h, "key")
    /\ IF key[handler[h].req] = Free
       THEN key' = [key EXCEPT ![handler[h].req] = h] /\ GoTo(h, "prepare")
       ELSE Leave(h) /\ UNCHANGED key
    /\ UNCHANGED <<rows, queue, channel, worker, reconciler, faults, barred>>

\* Mutant: no unique constraint on (user_id, client_request_id).
UnknownToRedis(r) == TRUE

\* The unique constraint lets one insert of an identity through.
Insertable(r) == request[r].status = "NONE"

\* One transaction: user and assistant message and the PREPARED request.
Prepare(h) ==
    LET r == handler[h].req
    IN  /\ At(h, "prepare")
        /\ Insertable(r)
        /\ request' = [request EXCEPT ![r] = Prepared(1)]
        /\ message' = [message EXCEPT ![r] = [status |-> "THINKING", author |-> 0, meta |-> 0]]
        /\ accepted' = [accepted EXCEPT ![r] = @ + 1]
        /\ GoTo(h, "queue")
        /\ UNCHANGED <<charges, key, queue, channel, worker, reconciler, faults, barred>>

\* The insert violates the constraint, or credits do not suffice, or the transaction
\* raises: it is rolled back and the lock released.
PrepareFails(h) ==
    /\ At(h, "prepare")
    /\ GoTo(h, "release")
    /\ UNCHANGED <<rows, key, queue, channel, worker, reconciler, faults, barred>>

\* prepare_retry_request, one transaction: the failed request becomes PREPARED as its
\* next attempt, and its assistant message thinks again.  No lock is taken; the right to the
\* session is part of the update.
Retry(h, r, expected) ==
    /\ At(h, "idle")
    /\ request[r].status = "FAILED" /\ request[r].retryable
    /\ request[r].attempt = expected
    /\ message[r].status = "FAILED"
    /\ r \notin barred
    /\ expected < MaxAttempts
    /\ request' = [request EXCEPT ![r] = Prepared(expected + 1)]
    /\ message' = [message EXCEPT ![r] = [status |-> "THINKING", author |-> 0, meta |-> 0]]
    /\ SetHandler(h, [pc |-> "queue", req |-> r, attempt |-> expected + 1, copy |-> 0])
    /\ UNCHANGED <<accepted, charges, key, queue, channel, worker, reconciler, faults, barred>>

\* The handler has subscribed to its channel, and queues the request unless recovery was
\* faster; then the conflict ends it.
Queue(h) ==
    LET r == handler[h].req
    IN  /\ At(h, "queue")
        /\ IF Queueable(r, handler[h].attempt)
           THEN /\ request' = [request EXCEPT ![r] = Queued(@, "web")]
                /\ GoTo(h, "enqueue")
           ELSE GoTo(h, "release") /\ UNCHANGED request
        /\ UNCHANGED <<message, accepted, charges, key, queue, channel, worker, reconciler,
                       faults, barred>>

WebTask(h) == [req |-> handler[h].req, attempt |-> handler[h].attempt, lease |-> "web", n |-> 1]

Enqueue(h) ==
    /\ At(h, "enqueue")
    /\ queue' = queue \cup {WebTask(h)}
    /\ GoTo(h, "stream")
    /\ UNCHANGED <<rows, key, channel, worker, reconciler, faults, barred>>

\* Subscription, transaction or broker call raise; a message may have arrived all the same.
DispatchFails(h) ==
    /\ \/ At(h, "queue") /\ Fault("database") /\ UNCHANGED queue
       \/ At(h, "enqueue") /\ Fault("broker") /\ queue' \in {queue, queue \cup {WebTask(h)}}
    /\ GoTo(h, "release")
    /\ UNCHANGED <<rows, key, channel, worker, reconciler, barred>>

\* _release_prepared_lock; a retry holds none (lock_key is None).
ReleaseLock(h) ==
    /\ At(h, "release")
    /\ ReleaseKey(h, handler[h].req)
    /\ Leave(h)
    /\ UNCHANGED <<rows, queue, channel, worker, reconciler, faults, barred>>

Heard(h) == channel[handler[h].req, handler[h].attempt]

\* The stream ends with the error of its channel, by a timeout, or because the client is
\* gone; the worker is not told.
StreamEnds(h) ==
    /\ At(h, "stream")
    /\ Leave(h)
    /\ UNCHANGED <<rows, key, queue, channel, worker, reconciler, faults, barred>>

\* done without an error: the metrics seen by the web are merged into the message.
ReadMetrics(h) ==
    /\ At(h, "stream")
    /\ Heard(h) = "done"
    /\ SetHandler(h, [handler[h] EXCEPT !.pc = "write", !.copy = message[handler[h].req].meta])
    /\ UNCHANGED <<rows, key, queue, channel, worker, reconciler, faults, barred>>

\* The write-back: status and content are not sent, for they are as the handler read them;
\* message_metadata is, whoever has changed it in between.
WriteMetrics(h) ==
    /\ At(h, "write")
    /\ message' = [message EXCEPT ![handler[h].req].meta = handler[h].copy]
    /\ Leave(h)
    /\ UNCHANGED <<request, accepted, charges, key, queue, channel, worker, reconciler, faults,
                   barred>>

HandlerStops(h) ==
    /\ Fault("crash")
    /\ ~At(h, "idle")
    /\ Leave(h)
    /\ UNCHANGED <<rows, key, queue, channel, worker, reconciler, barred>>

KeyExpires(r) ==
    /\ Fault("expiry")
    /\ key[r] # Free
    /\ key' = [key EXCEPT ![r] = Free]
    /\ UNCHANGED <<rows, queue, channel, processes, barred>>

HandlerStep(h) ==
    \/ TakeKey(h) \/ Prepare(h) \/ PrepareFails(h) \/ Queue(h) \/ Enqueue(h) \/ ReleaseLock(h)
    \/ StreamEnds(h) \/ ReadMetrics(h) \/ WriteMetrics(h)

HandlerNext ==
    \E h \in Handlers :
        \/ HandlerStep(h) \/ DispatchFails(h) \/ HandlerStops(h)
        \/ \E r \in Requests : Ask(h, r) \/ \E a \in Attempts : Retry(h, r, a)
-----------------------------------------------------------------------------
(* Workers.                                                                 *)

SetWorker(w, pc) == worker' = [worker EXCEPT ![w].pc = pc]
Rest(w) == worker' = [worker EXCEPT ![w] = Resting]
Busy(w, pc) == worker[w].pc = pc
Mine(w) == worker[w].task

\* The first event that ends a stream is the one its subscriber acts on.
Tell(t, event) ==
    channel' = IF channel[t.req, t.attempt] = "open" /\ t.lease = "web"
               THEN [channel EXCEPT ![<<t.req, t.attempt>>] = event]
               ELSE channel

\* BRPOP: the message is gone whatever becomes of the worker.
Take(w, t) ==
    /\ Busy(w, "idle")
    /\ t \in queue
    /\ queue' = queue \ {t}
    /\ worker' = [worker EXCEPT ![w] = [pc |-> "claim", task |-> t]]
    /\ UNCHANGED <<rows, key, channel, handler, reconciler, faults, barred>>

Claim(w) ==
    LET t == Mine(w)
    IN  /\ Busy(w, "claim")
        /\ Claimable(t)
        /\ request' = [request EXCEPT ![t.req].status = "RUNNING", ![t.req].due = FALSE]
        /\ SetWorker(w, "run")
        /\ UNCHANGED <<message, accepted, charges, key, queue, channel, handler, reconciler,
                       faults, barred>>

\* The claim is refused by the fence: the worker reports an error on the channel of the
\* task, which is also the channel of the delivery that won.
ClaimRejected(w) ==
    /\ Busy(w, "claim")
    /\ ~Claimable(Mine(w))
    /\ Tell(Mine(w), "error")
    /\ Rest(w)
    /\ UNCHANGED <<rows, key, queue, handler, reconciler, faults, barred>>

\* The heartbeat renews the lease while the fence lets it; when it does not, the beat
\* stops and generation goes on unaware.
Heartbeat(w) ==
    LET t == Mine(w)
    IN  /\ Busy(w, "run")
        /\ Current(t) /\ request[t.req].due
        /\ request' = [request EXCEPT ![t.req].due = FALSE]
        /\ UNCHANGED <<message, accepted, charges, key, queue, channel, processes, faults, barred>>

\* Mutant: what could not be charged counts as answered.
AnsweredAnyway(r, a, paid) ==
    /\ request' = [request EXCEPT ![r] = Terminal(@, "SUCCEEDED", FALSE)]
    /\ message' = [message EXCEPT ![r] = [status |-> "SUCCESS", author |-> a, meta |-> a]]
    /\ charges' = IF paid THEN [charges EXCEPT ![r] = @ + 1] ELSE charges

\* persist_success, one transaction: the charge in a savepoint, and with it the answer
\* and SUCCEEDED, or without it a retryable failure.
SettleAs(r, a, paid) ==
    IF paid
    THEN /\ request' = [request EXCEPT ![r] = Terminal(@, "SUCCEEDED", FALSE)]
         /\ message' = [message EXCEPT ![r] = [status |-> "SUCCESS", author |-> a, meta |-> a]]
         /\ charges' = [charges EXCEPT ![r] = @ + 1]
    ELSE /\ request' = [request EXCEPT ![r] = Terminal(@, "FAILED", TRUE)]
         /\ message' = [message EXCEPT ![r] = Failed(@, a)]
         /\ UNCHANGED charges

\* The run ends with an answer (or a refusal, which is settled the same way).
Settle(w) ==
    LET t == Mine(w)
    IN  /\ Busy(w, "run")
        /\ Current(t)
        /\ \E paid \in BOOLEAN :
              /\ SettleAs(t.req, t.attempt, paid)
              /\ IF paid
                 THEN SetWorker(w, "marker") /\ UNCHANGED channel
                 ELSE Rest(w) /\ Tell(t, "error")
        /\ UNCHANGED <<accepted, key, queue, handler, reconciler, faults, barred>>

\* The generation raises, or settling it did: persist_failure, one transaction.
PersistFailure(w) ==
    LET t == Mine(w)
    IN  /\ Busy(w, "run")
        /\ Current(t)
        /\ request' = [request EXCEPT ![t.req] = Terminal(@, "FAILED", TRUE)]
        /\ message' = [message EXCEPT ![t.req] = Failed(@, t.attempt)]
        /\ SetWorker(w, "unlock")
        /\ UNCHANGED <<accepted, charges, key, queue, channel, handler, reconciler, faults,
                       barred>>

\* The fence refuses to finalize: GenerationAttemptRejected rolls everything back.
SettleRejected(w) ==
    /\ Busy(w, "run")
    /\ ~Current(Mine(w))
    /\ Tell(Mine(w), "error")
    /\ Rest(w)
    /\ UNCHANGED <<rows, key, queue, handler, reconciler, faults, barred>>

\* Neither success nor failure can be written: the row stays RUNNING.
PersistenceFails(w) ==
    /\ Busy(w, "run") /\ Fault("database")
    /\ Tell(Mine(w), "error")
    /\ Rest(w)
    /\ UNCHANGED <<rows, key, queue, handler, reconciler, barred>>

\* Only a first attempt carries the idempotency key.
SetKey(t, value) == key' = IF t.attempt = 1 THEN [key EXCEPT ![t.req] = value] ELSE key

\* write_idempotency_message, its errors swallowed; then done.
WriteMarker(w) ==
    LET t == Mine(w)
    IN  /\ Busy(w, "marker")
        /\ \/ UNCHANGED faults /\ SetKey(t, "answered")
           \/ UNCHANGED key /\ Fault("redis")
        /\ Tell(t, "done")
        /\ Rest(w)
        /\ UNCHANGED <<rows, queue, handler, reconciler, barred>>

\* The end of a failed run: the key is deleted, whoever holds it by now, and the error
\* published; a lost error leaves the done that follows it.
DeleteKey(w) ==
    LET t == Mine(w)
    IN  /\ Busy(w, "unlock")
        /\ SetKey(t, Free)
        /\ \/ Tell(t, "error") /\ UNCHANGED faults
           \/ Tell(t, "done") /\ Fault("redis")
        /\ Rest(w)
        /\ UNCHANGED <<rows, queue, handler, reconciler, barred>>

\* The process dies, or the task is cancelled: then the finally block still says done.
WorkerStops(w) ==
    /\ Fault("crash")
    /\ ~Busy(w, "idle")
    /\ Tell(Mine(w), "done") \/ UNCHANGED channel
    /\ Rest(w)
    /\ UNCHANGED <<rows, key, queue, handler, reconciler, barred>>

WorkerEnds(w) ==
    \/ Claim(w) \/ ClaimRejected(w) \/ Settle(w) \/ PersistFailure(w) \/ SettleRejected(w)
    \/ WriteMarker(w) \/ DeleteKey(w)

WorkerNext ==
    \E w \in Workers :
        \/ \E t \in queue : Take(w, t)
        \/ WorkerEnds(w) \/ Heartbeat(w) \/ PersistenceFails(w) \/ WorkerStops(w)

-----------------------------------------------------------------------------
(* Recovery.                                                                *)

RequestDue(r) ==
    /\ request[r].status \in Nonterminal
    /\ ~request[r].due
    /\ request' = [request EXCEPT ![r].due = TRUE]
    /\ UNCHANGED <<message, accepted, charges, key, queue, channel, processes, faults, barred>>

\* One read of the due requests, worked through afterwards.
Scan(c) ==
    LET overdue == {r \in Requests : request[r].status \in Nonterminal /\ request[r].due}
    IN  /\ reconciler[c] = [items |-> {}, push |-> NoTask]
        /\ overdue # {}
        /\ reconciler' = [reconciler EXCEPT ![c].items =
              {[req |-> r, status |-> request[r].status, attempt |-> request[r].attempt,
                dispatch |-> request[r].dispatch, lease |-> request[r].lease] : r \in overdue}]
        /\ UNCHANGED <<rows, key, queue, channel, handler, worker, faults, barred>>

\* Mutant: neither the number of dispatches nor the deadline is compared.
AsScannedOnce(i) ==
    /\ request[i.req].status = i.status
    /\ request[i.req].attempt = i.attempt
    /\ request[i.req].lease = i.lease

\* The row is as the scan saw it, and due.
AsScanned(i) ==
    /\ request[i.req].status = i.status
    /\ request[i.req].attempt = i.attempt
    /\ request[i.req].dispatch = i.dispatch
    /\ request[i.req].lease = i.lease
    /\ request[i.req].due

\* Between two items.
Takes(c, i) == reconciler[c].push = NoTask /\ i \in reconciler[c].items

Drop(c, i, t) == reconciler' = [reconciler EXCEPT ![c] = [items |-> @.items \ {i}, push |-> t]]

Exhausted(i) == i.dispatch >= MaxDispatch

\* Mutant: a QUEUED request without a dispatch left is nobody's business.
MustFailRunning(i) == i.status = "RUNNING"

\* A RUNNING request lost its worker; a QUEUED one has no dispatch left.
MustFail(i) == i.status = "RUNNING" \/ (i.status = "QUEUED" /\ Exhausted(i))

\* Mutant: the request fails and its message keeps thinking.
FailRowOnly(i) ==
    /\ request' = [request EXCEPT ![i.req] = Terminal(@, "FAILED", TRUE)]
    /\ UNCHANGED message

\* try_fail_due_generation_request, and update_as_failed of the message with it.
FailRow(i) ==
    /\ request' = [request EXCEPT ![i.req] = Terminal(@, "FAILED", TRUE)]
    /\ message' = [message EXCEPT ![i.req] = Failed(@, i.attempt)]

FailDue(c, i) ==
    /\ Takes(c, i) /\ MustFail(i)
    /\ AsScanned(i)
    /\ FailRow(i)
    /\ Drop(c, i, NoTask)
    /\ UNCHANGED <<accepted, charges, key, queue, channel, handler, worker, faults, barred>>

RecoveryTask(i, lease) ==
    [req |-> i.req, attempt |-> i.attempt, lease |-> lease, n |-> i.dispatch + 1]

\* A PREPARED request is queued under a task and lease of the recovery's.
RecoverPrepared(c, i) ==
    /\ Takes(c, i) /\ i.status = "PREPARED"
    /\ Queueable(i.req, i.attempt)
    /\ request' = [request EXCEPT ![i.req] = Queued(@, "recovery")]
    /\ Drop(c, i, RecoveryTask(i, "recovery"))
    /\ UNCHANGED <<message, accepted, charges, key, queue, channel, handler, worker, faults,
                   barred>>

\* A QUEUED request reserves one more dispatch of the same task and lease.
RecoverQueued(c, i) ==
    /\ Takes(c, i) /\ i.status = "QUEUED" /\ ~Exhausted(i)
    /\ AsScanned(i)
    /\ request' = [request EXCEPT ![i.req].dispatch = @ + 1, ![i.req].due = FALSE]
    /\ Drop(c, i, RecoveryTask(i, i.lease))
    /\ UNCHANGED <<message, accepted, charges, key, queue, channel, handler, worker, faults,
                   barred>>

\* The row has changed since the scan, or a PREPARED request's user lost the right to its
\* session: a conflict, counted and passed over.
Conflict(c, i) ==
    /\ Takes(c, i)
    /\ IF i.status = "PREPARED" THEN ~Queueable(i.req, i.attempt) ELSE ~AsScanned(i)
    /\ Drop(c, i, NoTask)
    /\ UNCHANGED <<rows, key, queue, channel, handler, worker, faults, barred>>

\* enqueue_generation_recovery; if it raises, the next recovery sees the request again.
Redispatch(c) ==
    /\ reconciler[c].push # NoTask
    /\ \/ queue' = queue \cup {reconciler[c].push} /\ UNCHANGED faults
       \/ Fault("broker") /\ UNCHANGED queue
    /\ reconciler' = [reconciler EXCEPT ![c].push = NoTask]
    /\ UNCHANGED <<rows, key, channel, handler, worker, barred>>

ReconcilerStops(c) ==
    /\ Fault("crash")
    /\ reconciler[c] # [items |-> {}, push |-> NoTask]
    /\ reconciler' = [reconciler EXCEPT ![c] = [items |-> {}, push |-> NoTask]]
    /\ UNCHANGED <<rows, key, queue, channel, handler, worker, barred>>

\* The session is deleted, or the user leaves its workspace (before a question is accepted
\* this only refuses it); a workspace may take the user back.
LoseAccess(r) ==
    /\ request[r].status # "NONE"
    /\ r \notin barred /\ Fault("access")
    /\ barred' = barred \cup {r}
    /\ UNCHANGED <<rows, key, queue, channel, processes>>

RegainAccess(r) ==
    /\ r \in barred
    /\ barred' = barred \ {r}
    /\ UNCHANGED <<rows, key, queue, channel, processes, faults>>

Reconcile(c) ==
    \/ Scan(c) \/ Redispatch(c)
    \/ \E i \in reconciler[c].items :
          FailDue(c, i) \/ RecoverPrepared(c, i) \/ RecoverQueued(c, i) \/ Conflict(c, i)

RecoveryNext ==
    \/ \E c \in Reconcilers : Reconcile(c) \/ ReconcilerStops(c)
    \/ \E r \in Requests : RequestDue(r) \/ KeyExpires(r) \/ LoseAccess(r) \/ RegainAccess(r)

-----------------------------------------------------------------------------
Next == HandlerNext \/ WorkerNext \/ RecoveryNext

\* Nothing makes users ask or retry.  The recovery job is scheduled every minute, workers
\* finish what they run (the provider's client bounds every call), handlers make progress,
\* and time passes.
Fairness ==
    /\ \A h \in Handlers : WF_vars(HandlerStep(h))
    /\ \A w \in Workers : WF_vars(WorkerEnds(w))
    /\ \A c \in Reconcilers : WF_vars(Reconcile(c))
    /\ \A r \in Requests : WF_vars(RequestDue(r))

Safety == Init /\ [][Next]_vars
Spec == Safety /\ Fairness
-----------------------------------------------------------------------------
(* Properties.                                                              *)

\* Request, message and charge are settled together, whoever settles them: an answered
\* request shows its own attempt's answer and is charged; a failed one shows a failure
\* and is not; an open one is still thinking (docs/assessments/2026-07-15-chat-rag-
\* worker-reliability-plan.md:63-64, definitions of success and of failure).
SettledTogether ==
    \A r \in Requests :
        LET row == request[r] msg == message[r]
        IN  /\ row.status \in Nonterminal <=> msg.status = "THINKING"
            /\ row.status = "SUCCEEDED" <=> msg.status = "SUCCESS"
            /\ row.status = "FAILED" <=> msg.status = "FAILED"
            /\ row.status \in {"SUCCEEDED", "FAILED"} => msg.author = row.attempt
            /\ row.status = "SUCCEEDED" <=> charges[r] > 0

\* One identity, one pair of messages and one charge, although the Redis key expires, is
\* released or is deleted by a worker while its request lives (task-plan.md:31 of
\* work-items/active/chat-generation-consistency).
AcceptedOnce == \A r \in Requests : accepted[r] <= 1 /\ charges[r] <= 1

\* Redispatch delivers one attempt to several workers; at most one of them passes the
\* claim, so no attempt is generated twice.
OneRunPerAttempt ==
    \A v, w \in Workers :
        /\ v # w
        /\ worker[v].pc \in {"run", "marker", "unlock"}
        /\ worker[w].pc \in {"run", "marker", "unlock"}
        => <<Mine(v).req, Mine(v).attempt>> # <<Mine(w).req, Mine(w).attempt>>

\* A dispatch is reserved in the row before it is sent, within the budget, and by one
\* recovery run: runs that overlap neither send one reservation twice nor more than the
\* row has counted.
DispatchReservedOnce ==
    LET pushes == {reconciler[c].push : c \in Reconcilers} \ {NoTask}
    IN  /\ \A t \in queue \cup pushes :
              t.attempt = request[t.req].attempt => t.n <= request[t.req].dispatch
        /\ \A r \in Requests : request[r].dispatch <= MaxDispatch
        /\ \A c, d \in Reconcilers :
              c # d /\ reconciler[c].push # NoTask => reconciler[c].push # reconciler[d].push
        /\ pushes \cap queue = {}

\* Only the current attempt settles: a worker whose lease was taken, or whose attempt was
\* retried, changes neither request nor message nor charge, however late it is
\* (reliability-plan.md:61).
StaleWorkerFenced ==
    [][\A w \in Workers :
          LET t == Mine(w) row == request[t.req]
          IN  /\ worker[w].pc = "run" /\ worker'[w] # worker[w]
              /\ <<row.status, row.attempt, row.lease>> # <<"RUNNING", t.attempt, t.lease>>
              => UNCHANGED rows]_vars

\* A terminal request changes by an explicit retry of a failure only, and an answer stays.
TerminalKept ==
    [][\A r \in Requests :
          /\ request[r].status = "SUCCEEDED" => request'[r] = request[r]
          /\ request[r].status = "FAILED" /\ request'[r] # request[r]
                => request'[r].attempt = request[r].attempt + 1]_vars

\* Metrics of an answered question are those of its own attempt: no older attempt
\* overwrites them (reliability-plan.md:66).
MetadataOfAnswer ==
    \A r \in Requests : request[r].status = "SUCCEEDED" => message[r].meta = request[r].attempt

\* The message a rejected execution publishes says that its result is discarded
\* (worker_generation_workflow.py:371); so the attempt a stream was told this of while it
\* ran does not become the answer.
RejectedIsDiscarded ==
    [][\A r \in Requests :
          request[r].status = "RUNNING" /\ channel[r, request[r].attempt] = "error"
              => request'[r].status # "SUCCEEDED"]_vars
-----------------------------------------------------------------------------
(* The promise made to the user, and what stands for it here.               *)

Shown(status) ==
    CASE status = "NONE" -> "none"
      [] status = "THINKING" -> "thinking"
      [] status = "SUCCESS" -> "answered"
      [] status = "FAILED" -> "failed"

Lifecycle == INSTANCE GenerationLifecycle
                WITH state <- [r \in Requests |-> Shown(message[r].status)],
                     attempt <- [r \in Requests |-> request[r].attempt],
                     paid <- {r \in Requests : charges[r] > 0}

\* Every step of handlers, workers and recovery is a step of GenerationLifecycle or hidden
\* from the user.
KeepsLifecycle == Lifecycle!Safety

\* With fairness: an accepted question is answered or fails, while its user has a right to it.
ImplementsLifecycle == Lifecycle!Spec
=============================================================================

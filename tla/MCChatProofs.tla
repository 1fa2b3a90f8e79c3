---------------------------- MODULE MCChatProofs ----------------------------
(***************************************************************************)
(* Proofs about ChatGeneration, and about what a query without a stream    *)
(* returns (ChatNonStream) and what a stream tells its user (ChatStream),  *)
(* for any number of requests, handlers, deliveries and events.            *)
(*                                                                         *)
(* ChatGeneration: every step of a handler, a worker or the recovery       *)
(* leaves the rows of all requests alone or is one of six moves of the     *)
(* rows of one request (LEMMA StepMovesRows); what is said of the rows is  *)
(* then proved of the moves.  ChatNonStream, ChatStream: the suite has two *)
(* instances of each, which differ in their deliveries and faults; what    *)
(* both do is stated once, with the set of deliveries as a parameter.      *)
(***************************************************************************)
EXTENDS MCChat, SequenceTheorems, TLAPS

-----------------------------------------------------------------------------
(* The moves of a request's rows.                                           *)

NewMessage == [status |-> "THINKING", author |-> 0, meta |-> 0]

MovePrepare(r) ==
    /\ request[r].status = "NONE"
    /\ request' = [request EXCEPT ![r] = Prepared(1)]
    /\ message' = [message EXCEPT ![r] = NewMessage]
    /\ accepted' = [accepted EXCEPT ![r] = @ + 1]
    /\ UNCHANGED charges

MoveRetry(r) ==
    /\ request[r].status = "FAILED" /\ request[r].attempt < MaxAttempts /\ r \notin barred
    /\ request' = [request EXCEPT ![r] = Prepared(request[r].attempt + 1)]
    /\ message' = [message EXCEPT ![r] = NewMessage]
    /\ UNCHANGED <<accepted, charges>>

\* PREPARED, QUEUED, RUNNING, in this order, within one attempt, counting one dispatch or none.
MoveProgress(r, new) ==
    /\ new \in RequestRow /\ new.attempt = request[r].attempt
    /\ new.dispatch \in {request[r].dispatch, request[r].dispatch + 1}
    /\ \/ /\ request[r].status \in Nonterminal /\ new.status = request[r].status
          /\ new.status = "PREPARED" => new.dispatch = request[r].dispatch
       \/ request[r].status = "PREPARED" /\ new.status = "QUEUED"
       \/ request[r].status = "QUEUED" /\ new.status = "RUNNING"
    /\ request' = [request EXCEPT ![r] = new]
    /\ UNCHANGED <<message, accepted, charges>>

MoveAnswer(r) ==
    /\ request[r].status = "RUNNING"
    /\ request' = [request EXCEPT ![r] = Terminal(request[r], "SUCCEEDED", FALSE)]
    /\ message' = [message EXCEPT ![r] = [status |-> "SUCCESS", author |-> request[r].attempt,
                                          meta |-> request[r].attempt]]
    /\ charges' = [charges EXCEPT ![r] = @ + 1]
    /\ UNCHANGED accepted

MoveFail(r) ==
    /\ request[r].status \in Nonterminal
    /\ request' = [request EXCEPT ![r] = Terminal(request[r], "FAILED", TRUE)]
    /\ message' = [message EXCEPT ![r] = Failed(message[r], request[r].attempt)]
    /\ UNCHANGED <<accepted, charges>>

MoveMeta(r, a) ==
    /\ a \in 0..MaxAttempts
    /\ message' = [message EXCEPT ![r].meta = a]
    /\ UNCHANGED <<request, accepted, charges>>

RowsMove ==
    \/ UNCHANGED rows
    \/ \E r \in Requests :
          \/ MovePrepare(r) \/ MoveRetry(r) \/ MoveAnswer(r) \/ MoveFail(r)
          \/ \E new \in RequestRow : MoveProgress(r, new)
          \/ \E a \in 0..MaxAttempts : MoveMeta(r, a)

-----------------------------------------------------------------------------
(* The inductive invariant.                                                 *)

RowOk ==
    \A r \in Requests :
        /\ request[r].status = "NONE" => request[r].attempt = 0 /\ accepted[r] = 0
        /\ request[r].status # "NONE" => request[r].attempt # 0
        /\ request[r].status = "PREPARED" => request[r].dispatch = 0

\* A process that does something does it for a request, and an item of a scan is a row as
\* it may have been.
ProcessOk ==
    /\ \A h \in Handlers :
          handler[h].pc # "idle" => handler[h].req \in Requests /\ handler[h].attempt \in Attempts
    /\ \A w \in Workers : worker[w].pc # "idle" => worker[w].task \in Task
    /\ \A c \in Reconcilers : \A i \in reconciler[c].items : i.status = "PREPARED" => i.dispatch = 0

\* An attempt that was claimed is never waiting to be claimed again.
Running(w) == worker[w].pc \in {"run", "marker", "unlock"}
RunOk ==
    \A w \in Workers : Running(w) =>
        LET row == request[Mine(w).req]
        IN  \/ row.attempt > Mine(w).attempt
            \/ row.attempt = Mine(w).attempt /\ row.status \in {"RUNNING", "SUCCEEDED", "FAILED"}

ChatInv == TypeOK /\ RowOk /\ ProcessOk /\ SettledTogether /\ AcceptedOnce /\ RunOk /\ OneRunPerAttempt

-----------------------------------------------------------------------------
LEMMA ChatInit == Init => ChatInv
BY ChatAssumption
DEF Init, ChatInv, TypeOK, RowOk, ProcessOk, SettledTogether, AcceptedOnce, RunOk, OneRunPerAttempt,
    RequestRow, MessageRow, RequestStatus, Nonterminal, Leases, Handler, Worker, Idle, Resting,
    Attempts, Item, Running

-----------------------------------------------------------------------------
(* Steps move rows.                                                         *)

LEMMA QueuedIsProgress ==
    ASSUME TypeOK, RowOk, NEW r \in Requests, NEW who \in Leases, request[r].status = "PREPARED"
    PROVE  /\ Queued(request[r], who) \in RequestRow
           /\ Queued(request[r], who).attempt = request[r].attempt
           /\ Queued(request[r], who).dispatch = request[r].dispatch + 1
           /\ Queued(request[r], who).status = "QUEUED"
<1>1. request[r] \in RequestRow /\ request[r].dispatch = 0
    BY DEF TypeOK, RowOk
<1>2. request[r].dispatch + 1 \in 0..MaxDispatch
    BY <1>1, ChatAssumption
<1>3. Queued(request[r], who) =
        [request[r] EXCEPT !.status = "QUEUED", !.lease = who,
                           !.dispatch = request[r].dispatch + 1, !.due = FALSE]
    BY DEF Queued
<1>4. Queued(request[r], who).dispatch = request[r].dispatch + 1
    BY <1>1, <1>3 DEF RequestRow
<1> QED BY <1>1, <1>2, <1>4 DEF Queued, RequestRow, RequestStatus

LEMMA HandlerMovesRows ==
    TypeOK /\ RowOk /\ ProcessOk /\ HandlerNext => RowsMove
<1> SUFFICES ASSUME TypeOK, RowOk, ProcessOk, HandlerNext PROVE RowsMove
    OBVIOUS
<1>1. PICK h \in Handlers :
        HandlerStep(h) \/ DispatchFails(h) \/ HandlerStops(h)
        \/ \E r \in Requests : Ask(h, r) \/ \E a \in Attempts : Retry(h, r, a)
    BY DEF HandlerNext
<1>2. handler[h] \in Handler
    BY DEF TypeOK
<1>3. CASE Prepare(h)
    <2>1. handler[h].req \in Requests
        BY <1>3 DEF Prepare, At, ProcessOk
    <2>2. MovePrepare(handler[h].req)
        BY <1>3 DEF Prepare, MovePrepare, Insertable, NewMessage
    <2> QED BY <2>1, <2>2 DEF RowsMove
<1>4. CASE \E r \in Requests, a \in Attempts : Retry(h, r, a)
    <2>1. PICK r \in Requests, a \in Attempts : Retry(h, r, a)
        BY <1>4
    <2>2. MoveRetry(r)
        BY <2>1 DEF Retry, MoveRetry, NewMessage
    <2> QED BY <2>2 DEF RowsMove
<1>5. CASE Queue(h)
    <2>1. CASE Queueable(handler[h].req, handler[h].attempt)
        <3> DEFINE r == handler[h].req
        <3>1. r \in Requests
            BY <1>5 DEF Queue, At, ProcessOk
        <3>2. request[r].status = "PREPARED"
            BY <2>1 DEF Queueable
        <3>3. request' = [request EXCEPT ![r] = Queued(request[r], "web")]
            BY <1>5, <2>1 DEF Queue
        <3>4. MoveProgress(r, Queued(request[r], "web"))
            BY <1>5, <3>1, <3>2, <3>3, QueuedIsProgress DEF Queue, MoveProgress, Leases
        <3> QED BY <3>1, <3>4 DEF RowsMove, MoveProgress
    <2>2. CASE ~Queueable(handler[h].req, handler[h].attempt)
        BY <1>5, <2>2 DEF Queue, RowsMove, rows
    <2> QED BY <2>1, <2>2
<1>6. CASE WriteMetrics(h)
    <2>1. handler[h].req \in Requests /\ handler[h].copy \in 0..MaxAttempts
        BY <1>2, <1>6 DEF WriteMetrics, At, ProcessOk, Handler
    <2>2. MoveMeta(handler[h].req, handler[h].copy)
        BY <1>6, <2>1 DEF WriteMetrics, MoveMeta
    <2> QED BY <2>1, <2>2 DEF RowsMove
<1>7. CASE \E r \in Requests : Ask(h, r)
    BY <1>7 DEF Ask, RowsMove
<1>8. CASE TakeKey(h) \/ PrepareFails(h) \/ Enqueue(h) \/ ReleaseLock(h) \/ StreamEnds(h) \/ ReadMetrics(h)
           \/ DispatchFails(h) \/ HandlerStops(h)
    BY <1>8 DEF TakeKey, PrepareFails, Enqueue, ReleaseLock, StreamEnds, ReadMetrics, DispatchFails,
                HandlerStops, RowsMove
<1> QED BY <1>1, <1>3, <1>4, <1>5, <1>6, <1>7, <1>8 DEF HandlerStep

LEMMA WorkerMovesRows ==
    TypeOK /\ RowOk /\ ProcessOk /\ WorkerNext => RowsMove
<1> SUFFICES ASSUME TypeOK, RowOk, ProcessOk, WorkerNext PROVE RowsMove
    OBVIOUS
<1>1. PICK w \in Workers :
        \/ \E t \in queue : Take(w, t)
        \/ WorkerEnds(w) \/ Heartbeat(w) \/ PersistenceFails(w) \/ WorkerStops(w)
    BY DEF WorkerNext
<1> DEFINE r == Mine(w).req
<1>2. ASSUME worker[w].pc # "idle"
      PROVE  r \in Requests /\ Mine(w) \in Task /\ request[r] \in RequestRow
    BY <1>2 DEF ProcessOk, Mine, Task, TypeOK
<1>3. CASE Claim(w)
    <2>1. r \in Requests /\ request[r] \in RequestRow
        BY <1>2, <1>3 DEF Claim, Busy
    <2> DEFINE new == [request[r] EXCEPT !.status = "RUNNING", !.due = FALSE]
    <2>2. /\ new \in RequestRow /\ new.attempt = request[r].attempt /\ new.status = "RUNNING"
          /\ new.dispatch = request[r].dispatch
        BY <2>1 DEF RequestRow, RequestStatus
    <2>3. request[r].status = "QUEUED"
        BY <1>3 DEF Claim, Claimable
    <2>4. request' = [request EXCEPT ![r] = new]
        BY <1>3, <2>1 DEF Claim, TypeOK
    <2>5. MoveProgress(r, new)
        BY <1>3, <2>2, <2>3, <2>4 DEF Claim, MoveProgress
    <2> QED BY <2>1, <2>2, <2>5 DEF RowsMove
<1>4. CASE Heartbeat(w)
    <2>1. r \in Requests /\ request[r] \in RequestRow
        BY <1>2, <1>4 DEF Heartbeat, Busy
    <2> DEFINE new == [request[r] EXCEPT !.due = FALSE]
    <2>2. /\ new \in RequestRow /\ new.attempt = request[r].attempt /\ new.status = request[r].status
          /\ new.dispatch = request[r].dispatch
        BY <2>1 DEF RequestRow
    <2>3. request[r].status = "RUNNING"
        BY <1>4 DEF Heartbeat, Current
    <2>4. request' = [request EXCEPT ![r] = new]
        BY <1>4, <2>1 DEF Heartbeat, TypeOK
    <2>5. MoveProgress(r, new)
        BY <1>4, <2>2, <2>3, <2>4 DEF Heartbeat, MoveProgress, Nonterminal
    <2> QED BY <2>1, <2>2, <2>5 DEF RowsMove
<1>5. CASE Settle(w)
    <2>1. r \in Requests /\ request[r].status = "RUNNING" /\ request[r].attempt = Mine(w).attempt
        BY <1>2, <1>5 DEF Settle, Busy, Current
    <2>2. PICK paid \in BOOLEAN : SettleAs(r, Mine(w).attempt, paid)
        BY <1>5 DEF Settle
    <2>3. UNCHANGED accepted
        BY <1>5 DEF Settle
    <2>4. CASE paid
        BY <2>1, <2>2, <2>3, <2>4 DEF SettleAs, MoveAnswer, RowsMove
    <2>5. CASE ~paid
        <3>1. MoveFail(r)
            BY <2>1, <2>2, <2>3, <2>5 DEF SettleAs, MoveFail, Nonterminal
        <3> QED BY <2>1, <3>1 DEF RowsMove
    <2> QED BY <2>2, <2>4, <2>5
<1>6. CASE PersistFailure(w)
    <2>1. r \in Requests /\ request[r].status = "RUNNING" /\ request[r].attempt = Mine(w).attempt
        BY <1>2, <1>6 DEF PersistFailure, Busy, Current
    <2>2. MoveFail(r)
        BY <1>6, <2>1 DEF PersistFailure, MoveFail, Nonterminal
    <2> QED BY <2>1, <2>2 DEF RowsMove
<1>7. CASE \E t \in queue : Take(w, t)
    BY <1>7 DEF Take, RowsMove
<1>8. CASE ClaimRejected(w) \/ SettleRejected(w) \/ WriteMarker(w) \/ DeleteKey(w) \/ PersistenceFails(w)
           \/ WorkerStops(w)
    BY <1>8 DEF ClaimRejected, SettleRejected, WriteMarker, DeleteKey, PersistenceFails, WorkerStops, RowsMove
<1> QED BY <1>1, <1>3, <1>4, <1>5, <1>6, <1>7, <1>8 DEF WorkerEnds

LEMMA RecoveryMovesRows ==
    TypeOK /\ RowOk /\ ProcessOk /\ RecoveryNext => RowsMove
<1> SUFFICES ASSUME TypeOK, RowOk, ProcessOk, RecoveryNext PROVE RowsMove
    OBVIOUS
<1>1. CASE \E c \in Reconcilers, i \in Item : i \in reconciler[c].items /\ FailDue(c, i)
    <2>1. PICK c \in Reconcilers, i \in Item : i \in reconciler[c].items /\ FailDue(c, i)
        BY <1>1
    <2>2. i.req \in Requests /\ request[i.req].status \in Nonterminal /\ request[i.req].attempt = i.attempt
        BY <2>1 DEF Item, FailDue, AsScanned
    <2>3. MoveFail(i.req)
        BY <2>1, <2>2 DEF FailDue, FailRow, MoveFail
    <2> QED BY <2>2, <2>3 DEF RowsMove
<1>2. CASE \E c \in Reconcilers, i \in Item : i \in reconciler[c].items /\ RecoverPrepared(c, i)
    <2>1. PICK c \in Reconcilers, i \in Item : i \in reconciler[c].items /\ RecoverPrepared(c, i)
        BY <1>2
    <2>2. i.req \in Requests /\ request[i.req].status = "PREPARED"
        BY <2>1 DEF Item, RecoverPrepared, Queueable
    <2>3. request' = [request EXCEPT ![i.req] = Queued(request[i.req], "recovery")]
        BY <2>1 DEF RecoverPrepared
    <2>4. MoveProgress(i.req, Queued(request[i.req], "recovery"))
        BY <2>1, <2>2, <2>3, QueuedIsProgress DEF RecoverPrepared, MoveProgress, Leases
    <2> QED BY <2>2, <2>4 DEF RowsMove, MoveProgress
<1>3. CASE \E c \in Reconcilers, i \in Item : i \in reconciler[c].items /\ RecoverQueued(c, i)
    <2>1. PICK c \in Reconcilers, i \in Item : i \in reconciler[c].items /\ RecoverQueued(c, i)
        BY <1>3
    <2> DEFINE row == request[i.req]
    <2>2. i.req \in Requests /\ row \in RequestRow /\ row.status = "QUEUED" /\ row.dispatch = i.dispatch
        BY <2>1 DEF Item, RecoverQueued, AsScanned, TypeOK
    <2>3. ~(row.dispatch >= MaxDispatch)
        BY <2>1, <2>2 DEF RecoverQueued, Exhausted
    <2>4. row.dispatch + 1 \in 0..MaxDispatch
        BY <2>2, <2>3, ChatAssumption DEF RequestRow
    <2> DEFINE new == [row EXCEPT !.dispatch = row.dispatch + 1, !.due = FALSE]
    <2>5. new \in RequestRow /\ new.attempt = row.attempt /\ new.status = row.status
            /\ new.dispatch = row.dispatch + 1
        BY <2>2, <2>4 DEF RequestRow
    <2>6. request' = [request EXCEPT ![i.req] = new]
        BY <2>1, <2>2 DEF RecoverQueued, TypeOK
    <2>7. MoveProgress(i.req, new)
        BY <2>1, <2>2, <2>5, <2>6 DEF RecoverQueued, MoveProgress, Nonterminal
    <2> QED BY <2>2, <2>5, <2>7 DEF RowsMove
<1>4. CASE \E r \in Requests : RequestDue(r)
    <2>1. PICK r \in Requests : RequestDue(r)
        BY <1>4
    <2> DEFINE new == [request[r] EXCEPT !.due = TRUE]
    <2>2. new \in RequestRow /\ new.attempt = request[r].attempt /\ new.status = request[r].status
            /\ new.dispatch = request[r].dispatch
        <3>1. request[r] \in RequestRow
            BY DEF TypeOK
        <3> QED BY <3>1 DEF RequestRow
    <2>3. request' = [request EXCEPT ![r] = new]
        BY <2>1 DEF RequestDue, TypeOK
    <2>4. MoveProgress(r, new)
        BY <2>1, <2>2, <2>3 DEF RequestDue, MoveProgress
    <2> QED BY <2>2, <2>4 DEF RowsMove
<1>5. CASE \E c \in Reconcilers : \/ Scan(c) \/ Redispatch(c) \/ ReconcilerStops(c)
                                  \/ \E i \in reconciler[c].items : Conflict(c, i)
    BY <1>5 DEF Scan, Redispatch, ReconcilerStops, Conflict, RowsMove
<1>6. CASE \E r \in Requests : KeyExpires(r) \/ LoseAccess(r) \/ RegainAccess(r)
    BY <1>6 DEF KeyExpires, LoseAccess, RegainAccess, RowsMove
<1>7. \A c \in Reconcilers : reconciler[c].items \subseteq Item
    BY SMTT(30) DEF TypeOK
<1> QED BY <1>1, <1>2, <1>3, <1>4, <1>5, <1>6, <1>7 DEF RecoveryNext, Reconcile

LEMMA StepMovesRows ==
    TypeOK /\ RowOk /\ ProcessOk /\ [Next]_vars => RowsMove
BY HandlerMovesRows, WorkerMovesRows, RecoveryMovesRows DEF Next, vars, RowsMove

\* The right to a session changes by itself, for one accepted request.
AccessMoves ==
    \E r \in Requests :
        /\ UNCHANGED rows
        /\ \/ request[r].status # "NONE" /\ barred' = barred \cup {r}
           \/ barred' = barred \ {r}

LEMMA StepKeepsAccess == [Next]_vars => UNCHANGED barred \/ AccessMoves
<1>1. HandlerNext => UNCHANGED barred
    BY DEF HandlerNext, HandlerStep, TakeKey, Prepare, PrepareFails, Queue, Enqueue, ReleaseLock, StreamEnds,
           ReadMetrics, WriteMetrics, DispatchFails, HandlerStops, Ask, Retry
<1>2. WorkerNext => UNCHANGED barred
    BY DEF WorkerNext, WorkerEnds, Take, Claim, ClaimRejected, Settle, PersistFailure, SettleRejected, WriteMarker,
           DeleteKey, Heartbeat, PersistenceFails, WorkerStops
<1>3. ASSUME NEW c \in Reconcilers, Reconcile(c) \/ ReconcilerStops(c) PROVE UNCHANGED barred
    BY <1>3 DEF Reconcile, Scan, Redispatch, FailDue, RecoverPrepared, RecoverQueued, Conflict, ReconcilerStops
<1>4. ASSUME NEW r \in Requests, RequestDue(r) \/ KeyExpires(r) PROVE UNCHANGED barred
    BY <1>4 DEF RequestDue, KeyExpires
<1>5. ASSUME NEW r \in Requests, LoseAccess(r) \/ RegainAccess(r) PROVE AccessMoves
    BY <1>5 DEF LoseAccess, RegainAccess, AccessMoves
<1>6. RecoveryNext => UNCHANGED barred \/ AccessMoves
    BY <1>3, <1>4, <1>5 DEF RecoveryNext
<1> QED BY <1>1, <1>2, <1>6 DEF Next, vars

-----------------------------------------------------------------------------
(* What the moves keep.                                                     *)

RowTypes ==
    /\ request \in [Requests -> RequestRow] /\ message \in [Requests -> MessageRow]
    /\ accepted \in [Requests -> Nat] /\ charges \in [Requests -> Nat]

RowInv == RowTypes /\ RowOk /\ SettledTogether /\ AcceptedOnce

LEMMA PreparedRow == \A a \in 0..MaxAttempts : Prepared(a) \in RequestRow
BY ChatAssumption DEF Prepared, RequestRow, RequestStatus, Leases

LEMMA TerminalRow ==
    \A row \in RequestRow, end \in {"SUCCEEDED", "FAILED"}, b \in BOOLEAN :
        Terminal(row, end, b) \in RequestRow
BY DEF Terminal, RequestRow, RequestStatus

LEMMA FailedMessage ==
    \A msg \in MessageRow, a \in 0..MaxAttempts :
        /\ Failed(msg, a) \in MessageRow
        /\ Failed(msg, a).status = "FAILED" /\ Failed(msg, a).author = a
BY DEF Failed, MessageRow

LEMMA MovesKeepRows == RowInv /\ RowsMove => RowInv'
<1> SUFFICES ASSUME RowInv, RowsMove PROVE RowInv'
    OBVIOUS
<1>0. CASE UNCHANGED rows
    BY <1>0 DEF rows, RowInv, RowTypes, RowOk, SettledTogether, AcceptedOnce
<1> USE DEF RowInv, RowTypes
<1>1. ASSUME NEW r \in Requests, MovePrepare(r) PROVE RowInv'
    <2>1. Prepared(1) \in RequestRow /\ NewMessage \in MessageRow
        BY PreparedRow, ChatAssumption DEF NewMessage, MessageRow
    <2>2. RowTypes'
        BY <1>1, <2>1 DEF MovePrepare
    <2>3. RowOk'
        BY <1>1, <2>1 DEF MovePrepare, RowOk, Prepared
    <2>4. SettledTogether'
        BY <1>1, <2>1, ChatAssumption DEF MovePrepare, SettledTogether, Prepared, NewMessage, Nonterminal
    <2>5. AcceptedOnce'
        BY <1>1 DEF MovePrepare, AcceptedOnce, RowOk
    <2> QED BY <2>2, <2>3, <2>4, <2>5
<1>2. ASSUME NEW r \in Requests, MoveRetry(r) PROVE RowInv'
    <2>1. request[r].attempt + 1 \in 0..MaxAttempts /\ request[r].attempt + 1 # 0
        BY <1>2, ChatAssumption DEF MoveRetry, RequestRow
    <2>2. Prepared(request[r].attempt + 1) \in RequestRow /\ NewMessage \in MessageRow
        BY <2>1, PreparedRow, ChatAssumption DEF NewMessage, MessageRow
    <2>3. RowTypes'
        BY <1>2, <2>2 DEF MoveRetry
    <2>4. RowOk'
        BY <1>2, <2>1, <2>2 DEF MoveRetry, RowOk, Prepared
    <2>5. SettledTogether'
        BY <1>2, <2>2 DEF MoveRetry, SettledTogether, Prepared, NewMessage, Nonterminal
    <2>6. AcceptedOnce'
        BY <1>2 DEF MoveRetry, AcceptedOnce
    <2> QED BY <2>3, <2>4, <2>5, <2>6
<1>3. ASSUME NEW r \in Requests, NEW new \in RequestRow, MoveProgress(r, new) PROVE RowInv'
    <2>1. RowTypes'
        BY <1>3 DEF MoveProgress
    <2>2. new.status \in Nonterminal /\ request[r].status \in Nonterminal
        BY <1>3 DEF MoveProgress, Nonterminal
    <2>3. RowOk'
        BY <1>3, <2>2 DEF MoveProgress, RowOk, Nonterminal
    <2>4. SettledTogether'
        BY <1>3, <2>2 DEF MoveProgress, SettledTogether, Nonterminal
    <2>5. AcceptedOnce'
        BY <1>3 DEF MoveProgress, AcceptedOnce
    <2> QED BY <2>1, <2>3, <2>4, <2>5
<1>4. ASSUME NEW r \in Requests, MoveAnswer(r) PROVE RowInv'
    <2> DEFINE a == request[r].attempt
    <2>1. Terminal(request[r], "SUCCEEDED", FALSE) \in RequestRow /\ a \in 0..MaxAttempts /\ request[r] \in RequestRow
        BY TerminalRow DEF RequestRow
    <2>2. [status |-> "SUCCESS", author |-> a, meta |-> a] \in MessageRow
        BY <2>1 DEF MessageRow
    <2>3. /\ Terminal(request[r], "SUCCEEDED", FALSE).status = "SUCCEEDED"
          /\ Terminal(request[r], "SUCCEEDED", FALSE).attempt = a
        BY <2>1 DEF Terminal, RequestRow
    <2>4. charges[r] = 0
        BY <1>4 DEF MoveAnswer, SettledTogether
    <2>5. RowTypes'
        <3>1. request' \in [Requests -> RequestRow]
            BY <1>4, <2>1 DEF MoveAnswer
        <3>2. message' \in [Requests -> MessageRow]
            BY <1>4, <2>2 DEF MoveAnswer
        <3>3. charges' \in [Requests -> Nat] /\ accepted' \in [Requests -> Nat]
            BY <1>4 DEF MoveAnswer
        <3> QED BY <3>1, <3>2, <3>3
    <2>6. RowOk'
        BY <1>4, <2>1, <2>3 DEF MoveAnswer, RowOk
    <2>7. SettledTogether'
        <3>1. ASSUME NEW q \in Requests, q # r
              PROVE  request'[q] = request[q] /\ message'[q] = message[q] /\ charges'[q] = charges[q]
            BY <1>4, <3>1 DEF MoveAnswer
        <3>2. /\ request'[r].status = "SUCCEEDED" /\ request'[r].attempt = a
              /\ message'[r].status = "SUCCESS" /\ message'[r].author = a
              /\ charges'[r] = 1
            <4>1. request'[r] = Terminal(request[r], "SUCCEEDED", FALSE)
                BY <1>4 DEF MoveAnswer
            <4>2. message'[r] = [status |-> "SUCCESS", author |-> a, meta |-> a]
                BY <1>4 DEF MoveAnswer
            <4>3. charges'[r] = 1
                <5>1. charges' = [charges EXCEPT ![r] = charges[r] + 1]
                    BY <1>4 DEF MoveAnswer
                <5>2. charges'[r] = charges[r] + 1
                    BY <5>1
                <5> QED BY <2>4, <5>2
            <4>4. request'[r].status = "SUCCEEDED" /\ request'[r].attempt = a
                BY <2>3, <4>1
            <4>5. message'[r].status = "SUCCESS" /\ message'[r].author = a
                BY <4>2
            <4> QED BY <4>3, <4>4, <4>5
        <3>3. /\ request'[r].status \notin Nonterminal /\ message'[r].status # "THINKING"
              /\ request'[r].status # "FAILED" /\ message'[r].status # "FAILED"
              /\ charges'[r] > 0
            BY <3>2 DEF Nonterminal
        <3> QED BY <3>1, <3>2, <3>3 DEF SettledTogether
    <2>8. AcceptedOnce'
        BY <1>4, <2>4 DEF MoveAnswer, AcceptedOnce
    <2> QED BY <2>5, <2>6, <2>7, <2>8
<1>5. ASSUME NEW r \in Requests, MoveFail(r) PROVE RowInv'
    <2> DEFINE a == request[r].attempt
    <2>1. Terminal(request[r], "FAILED", TRUE) \in RequestRow /\ a \in 0..MaxAttempts /\ request[r] \in RequestRow
        BY TerminalRow DEF RequestRow
    <2>2. /\ Failed(message[r], a) \in MessageRow
          /\ Failed(message[r], a).status = "FAILED" /\ Failed(message[r], a).author = a
        BY <2>1, FailedMessage
    <2>3. /\ Terminal(request[r], "FAILED", TRUE).status = "FAILED"
          /\ Terminal(request[r], "FAILED", TRUE).attempt = a
        BY <2>1 DEF Terminal, RequestRow
    <2>4. RowTypes'
        BY <1>5, <2>1, <2>2 DEF MoveFail
    <2>5. RowOk'
        BY <1>5, <2>1, <2>3 DEF MoveFail, RowOk, Nonterminal
    <2>6. SettledTogether'
        <3>1. ASSUME NEW q \in Requests, q # r
              PROVE  request'[q] = request[q] /\ message'[q] = message[q]
            BY <1>5, <3>1 DEF MoveFail
        <3>2. /\ request'[r].status = "FAILED" /\ request'[r].attempt = a
              /\ message'[r].status = "FAILED" /\ message'[r].author = a
            BY <1>5, <2>2, <2>3 DEF MoveFail
        <3>3. charges' = charges /\ ~(charges[r] > 0)
            BY <1>5 DEF MoveFail, SettledTogether, Nonterminal
        <3> QED BY <3>1, <3>2, <3>3 DEF SettledTogether, Nonterminal
    <2>7. AcceptedOnce'
        BY <1>5 DEF MoveFail, AcceptedOnce
    <2> QED BY <2>4, <2>5, <2>6, <2>7
<1>6. ASSUME NEW r \in Requests, NEW a \in 0..MaxAttempts, MoveMeta(r, a) PROVE RowInv'
    <2> DEFINE new == [message[r] EXCEPT !.meta = a]
    <2>1. message[r] \in MessageRow
        OBVIOUS
    <2>2. new \in MessageRow /\ new.status = message[r].status /\ new.author = message[r].author
        BY <2>1 DEF MessageRow
    <2>3. message' = [message EXCEPT ![r] = new]
        BY <1>6 DEF MoveMeta
    <2>4. RowTypes'
        BY <1>6, <2>2, <2>3 DEF MoveMeta
    <2>5. RowOk' /\ AcceptedOnce'
        BY <1>6 DEF MoveMeta, RowOk, AcceptedOnce
    <2>6. SettledTogether'
        BY <1>6, <2>2, <2>3 DEF MoveMeta, SettledTogether
    <2> QED BY <2>4, <2>5, <2>6
<1> QED BY <1>0, <1>1, <1>2, <1>3, <1>4, <1>5, <1>6 DEF RowsMove

LEMMA MovesAreMonotone ==
    ASSUME RowInv, RowsMove, NEW r \in Requests
    PROVE  /\ request'[r].attempt >= request[r].attempt
           /\ request'[r].attempt = request[r].attempt
                 => request'[r].dispatch >= request[r].dispatch
           /\ /\ request[r].status \in {"RUNNING", "SUCCEEDED", "FAILED"}
              /\ request'[r].attempt = request[r].attempt
              => request'[r].status \in {"RUNNING", "SUCCEEDED", "FAILED"}
           /\ request[r].status = "SUCCEEDED" => request'[r] = request[r]
           /\ request[r].status = "FAILED" /\ request'[r] # request[r]
                 => request'[r].attempt = request[r].attempt + 1
<1> DEFINE Goal ==
        /\ request'[r].attempt >= request[r].attempt
        /\ request'[r].attempt = request[r].attempt
              => request'[r].dispatch >= request[r].dispatch
        /\ /\ request[r].status \in {"RUNNING", "SUCCEEDED", "FAILED"}
           /\ request'[r].attempt = request[r].attempt
           => request'[r].status \in {"RUNNING", "SUCCEEDED", "FAILED"}
        /\ request[r].status = "SUCCEEDED" => request'[r] = request[r]
        /\ request[r].status = "FAILED" /\ request'[r] # request[r]
              => request'[r].attempt = request[r].attempt + 1
<1>1. request \in [Requests -> RequestRow] /\ request[r] \in RequestRow
    BY DEF RowInv, RowTypes
<1>2. /\ request[r].attempt \in Nat /\ request[r].attempt >= request[r].attempt
      /\ request[r].dispatch \in Nat
    BY <1>1, ChatAssumption DEF RequestRow
<1>3. request'[r] = request[r] => Goal
    BY <1>2
<1>4. ASSUME NEW q \in Requests, MovePrepare(q) PROVE Goal
    <2>1. CASE q = r
        <3>1. request[r].status = "NONE" /\ request[r].attempt = 0 /\ request'[r] = Prepared(1)
            BY <1>1, <1>4, <2>1 DEF MovePrepare, RowInv, RowOk
        <3> QED BY <3>1 DEF Prepared
    <2>2. CASE q # r
        BY <1>1, <1>3, <1>4, <2>2 DEF MovePrepare
    <2> QED BY <2>1, <2>2
<1>5. ASSUME NEW q \in Requests, MoveRetry(q) PROVE Goal
    <2>1. CASE q = r
        <3>1. request[r].status = "FAILED" /\ request'[r] = Prepared(request[r].attempt + 1)
            BY <1>1, <1>5, <2>1 DEF MoveRetry
        <3> QED BY <1>2, <3>1 DEF Prepared
    <2>2. CASE q # r
        BY <1>1, <1>3, <1>5, <2>2 DEF MoveRetry
    <2> QED BY <2>1, <2>2
<1>6. ASSUME NEW q \in Requests, NEW new \in RequestRow, MoveProgress(q, new) PROVE Goal
    <2>1. CASE q = r
        <3>1. /\ request'[r] = new /\ new.attempt = request[r].attempt
              /\ new.dispatch \in {request[r].dispatch, request[r].dispatch + 1}
            BY <1>1, <1>6, <2>1 DEF MoveProgress
        <3>2. /\ request[r].status \in Nonterminal
              /\ request[r].status = "RUNNING" => new.status = "RUNNING"
            BY <1>6, <2>1 DEF MoveProgress, Nonterminal
        <3> QED BY <1>2, <3>1, <3>2 DEF Nonterminal
    <2>2. CASE q # r
        BY <1>1, <1>3, <1>6, <2>2 DEF MoveProgress
    <2> QED BY <2>1, <2>2
<1>7. ASSUME NEW q \in Requests, NEW end \in {"SUCCEEDED", "FAILED"}, NEW b \in BOOLEAN,
             request[q].status \in Nonterminal,
             request' = [request EXCEPT ![q] = Terminal(request[q], end, b)]
      PROVE  Goal
    <2>1. CASE q = r
        <3>1. request'[r] = Terminal(request[r], end, b)
            BY <1>1, <1>7, <2>1
        <3>2. /\ Terminal(request[r], end, b).status = end
              /\ Terminal(request[r], end, b).attempt = request[r].attempt
              /\ Terminal(request[r], end, b).dispatch = request[r].dispatch
            BY <1>1 DEF Terminal, RequestRow
        <3> QED BY <1>2, <1>7, <2>1, <3>1, <3>2 DEF Nonterminal
    <2>2. CASE q # r
        BY <1>1, <1>3, <1>7, <2>2
    <2> QED BY <2>1, <2>2
<1>8. ASSUME NEW q \in Requests, MoveAnswer(q) \/ MoveFail(q) PROVE Goal
    BY <1>7, <1>8 DEF MoveAnswer, MoveFail, Nonterminal
<1>9. ASSUME UNCHANGED request PROVE Goal
    BY <1>3, <1>9
<1> QED BY <1>4, <1>5, <1>6, <1>8, <1>9 DEF RowsMove, MoveMeta, rows

-----------------------------------------------------------------------------
(* Processes stay well formed.                                              *)

GoodHandler == {x \in Handler : x.pc # "idle" => x.req \in Requests /\ x.attempt \in Attempts}
GoodWorker == {x \in Worker : x.pc # "idle" => x.task \in Task}
GoodItem == {i \in Item : i.status = "PREPARED" => i.dispatch = 0}
GoodReconciler == [items : SUBSET GoodItem, push : Task \cup {NoTask}]

Processes ==
    /\ key \in [Requests -> Handlers \cup {Free, "answered"}]
    /\ queue \subseteq Task
    /\ channel \in [Requests \X Attempts -> {"open", "error", "done"}]
    /\ handler \in [Handlers -> GoodHandler]
    /\ worker \in [Workers -> GoodWorker]
    /\ reconciler \in [Reconcilers -> GoodReconciler]
    /\ faults \in 0..MaxFaults

LEMMA ProcessesMeansOk == TypeOK /\ ProcessOk <=> RowTypes /\ Processes /\ barred \subseteq Requests
<1>1. ASSUME TypeOK, ProcessOk PROVE RowTypes /\ Processes /\ barred \subseteq Requests
    <2>1. \A h \in Handlers : handler[h] \in GoodHandler
        BY <1>1 DEF TypeOK, ProcessOk, GoodHandler
    <2>2. \A w \in Workers : worker[w] \in GoodWorker
        BY <1>1 DEF TypeOK, ProcessOk, GoodWorker
    <2>3. \A c \in Reconcilers : reconciler[c] \in GoodReconciler
        BY <1>1 DEF TypeOK, ProcessOk, GoodReconciler, GoodItem
    <2> QED BY <1>1, <2>1, <2>2, <2>3 DEF TypeOK, Processes, RowTypes
<1>2. ASSUME RowTypes, Processes, barred \subseteq Requests PROVE TypeOK /\ ProcessOk
    <2>1. \A h \in Handlers :
            /\ handler[h] \in Handler
            /\ handler[h].pc # "idle" => handler[h].req \in Requests /\ handler[h].attempt \in Attempts
        BY <1>2 DEF Processes, GoodHandler
    <2>2. \A w \in Workers :
            worker[w] \in Worker /\ (worker[w].pc # "idle" => worker[w].task \in Task)
        BY <1>2 DEF Processes, GoodWorker
    <2>3. \A c \in Reconcilers :
            /\ reconciler[c] \in [items : SUBSET Item, push : Task \cup {NoTask}]
            /\ \A i \in reconciler[c].items : i.status = "PREPARED" => i.dispatch = 0
        <3> TAKE c \in Reconcilers
        <3>1. reconciler[c] \in GoodReconciler
            BY <1>2 DEF Processes
        <3>2. reconciler[c].items \subseteq GoodItem
            BY <3>1 DEF GoodReconciler
        <3>3. reconciler[c] \in [items : SUBSET Item, push : Task \cup {NoTask}]
            BY <3>1 DEF GoodReconciler, GoodItem
        <3> QED BY <3>2, <3>3 DEF GoodItem
    <2> QED BY <1>2, <2>1, <2>2, <2>3 DEF TypeOK, ProcessOk, Processes, RowTypes
<1> QED BY <1>1, <1>2

LEMMA TellTypes ==
    ASSUME channel \in [Requests \X Attempts -> {"open", "error", "done"}],
           NEW t \in Task, NEW event \in {"error", "done"}, Tell(t, event)
    PROVE  channel' \in [Requests \X Attempts -> {"open", "error", "done"}]
BY DEF Tell, Task

LEMMA HandlerPc ==
    ASSUME NEW x \in GoodHandler, x.pc # "idle",
           NEW pc \in {"idle", "key", "prepare", "queue", "enqueue", "release", "stream", "write"}
    PROVE  [x EXCEPT !.pc = pc] \in GoodHandler
BY DEF GoodHandler, Handler

LEMMA IdleIsGood == Idle \in GoodHandler /\ Resting \in GoodWorker
BY ChatAssumption DEF Idle, Resting, GoodHandler, GoodWorker, Handler, Worker

LEMMA WorkerPc ==
    ASSUME NEW x \in GoodWorker, x.pc # "idle", NEW pc \in {"idle", "claim", "run", "marker", "unlock"}
    PROVE  [x EXCEPT !.pc = pc] \in GoodWorker
BY DEF GoodWorker, Worker

LEMMA HandlerKeepsProcesses ==
    RowTypes /\ Processes /\ HandlerNext => Processes'
<1> SUFFICES ASSUME RowTypes, Processes, HandlerNext PROVE Processes'
    OBVIOUS
<1>1. PICK h \in Handlers :
        HandlerStep(h) \/ DispatchFails(h) \/ HandlerStops(h)
        \/ \E r \in Requests : Ask(h, r) \/ \E a \in Attempts : Retry(h, r, a)
    BY DEF HandlerNext
<1>2. handler[h] \in GoodHandler
    BY DEF Processes
<1>3. ASSUME UNCHANGED <<key, queue, channel, worker, reconciler, faults>>,
             NEW new \in GoodHandler, handler' = [handler EXCEPT ![h] = new]
      PROVE  Processes'
    BY <1>3 DEF Processes
<1>4. ASSUME ~At(h, "idle"), GoTo(h, "idle") \/ GoTo(h, "prepare") \/ GoTo(h, "queue")
                             \/ GoTo(h, "enqueue") \/ GoTo(h, "release") \/ GoTo(h, "stream")
      PROVE  \E new \in GoodHandler : handler' = [handler EXCEPT ![h] = new]
    BY <1>2, <1>4, HandlerPc DEF At, GoTo, SetHandler
<1>5. ASSUME Leave(h) PROVE \E new \in GoodHandler : handler' = [handler EXCEPT ![h] = new]
    BY <1>5, IdleIsGood DEF Leave, SetHandler
<1>6. CASE \E r \in Requests : Ask(h, r)
    <2>1. PICK r \in Requests : Ask(h, r)
        BY <1>6
    <2>2. [pc |-> "key", req |-> r, attempt |-> 1, copy |-> 0] \in GoodHandler
        BY ChatAssumption DEF GoodHandler, Handler, Attempts
    <2> QED BY <1>3, <2>1, <2>2 DEF Ask, SetHandler
<1>7. CASE \E r \in Requests, a \in Attempts : Retry(h, r, a)
    <2>1. PICK r \in Requests, a \in Attempts : Retry(h, r, a)
        BY <1>7
    <2>2. a + 1 \in Attempts
        BY <2>1, ChatAssumption DEF Retry, Attempts
    <2>3. [pc |-> "queue", req |-> r, attempt |-> a + 1, copy |-> 0] \in GoodHandler
        BY <2>2, ChatAssumption DEF GoodHandler, Handler, Attempts
    <2> QED BY <1>3, <2>1, <2>3 DEF Retry, SetHandler
<1>8. CASE TakeKey(h)
    <2>1. handler[h].req \in Requests
        BY <1>2, <1>8 DEF TakeKey, At, GoodHandler
    <2>2. key' \in [Requests -> Handlers \cup {Free, "answered"}]
        BY <1>8, <2>1 DEF TakeKey, Processes
    <2>3. \E new \in GoodHandler : handler' = [handler EXCEPT ![h] = new]
        BY <1>4, <1>5, <1>8 DEF TakeKey, At
    <2>4. UNCHANGED <<queue, channel, worker, reconciler, faults>>
        BY <1>8 DEF TakeKey
    <2> QED BY <2>2, <2>3, <2>4 DEF Processes
<1>9. CASE Prepare(h) \/ PrepareFails(h) \/ Queue(h)
    <2>1. \E new \in GoodHandler : handler' = [handler EXCEPT ![h] = new]
        BY <1>4, <1>9 DEF Prepare, PrepareFails, Queue, At
    <2>2. UNCHANGED <<key, queue, channel, worker, reconciler, faults>>
        BY <1>9 DEF Prepare, PrepareFails, Queue
    <2> QED BY <1>3, <2>1, <2>2
<1>10. ASSUME At(h, "enqueue") PROVE WebTask(h) \in Task
    BY <1>2, <1>10, ChatAssumption DEF At, WebTask, Task, Leases, GoodHandler
<1>11. CASE Enqueue(h)
    <2>1. \E new \in GoodHandler : handler' = [handler EXCEPT ![h] = new]
        BY <1>4, <1>11 DEF Enqueue, At
    <2>2. queue' \subseteq Task
        BY <1>10, <1>11 DEF Enqueue, Processes
    <2> QED BY <1>11, <2>1, <2>2 DEF Enqueue, Processes
<1>12. CASE DispatchFails(h)
    <2>1. \E new \in GoodHandler : handler' = [handler EXCEPT ![h] = new]
        BY <1>4, <1>12 DEF DispatchFails, At
    <2>2. queue' \subseteq Task
        BY <1>10, <1>12 DEF DispatchFails, Processes
    <2>3. faults' \in 0..MaxFaults
        BY <1>12, ChatAssumption DEF DispatchFails, Fault, Processes
    <2> QED BY <1>12, <2>1, <2>2, <2>3 DEF DispatchFails, Processes
<1>13. CASE ReleaseLock(h)
    <2>1. handler[h].req \in Requests
        BY <1>2, <1>13 DEF ReleaseLock, At, GoodHandler
    <2>2. key' \in [Requests -> Handlers \cup {Free, "answered"}]
        BY <1>13, <2>1 DEF ReleaseLock, ReleaseKey, Processes
    <2> QED BY <1>5, <1>13, <2>2 DEF ReleaseLock, Processes
<1>14. CASE StreamEnds(h) \/ WriteMetrics(h)
    BY <1>3, <1>5, <1>14 DEF StreamEnds, WriteMetrics
<1>15. CASE ReadMetrics(h)
    <2> DEFINE meta == message[handler[h].req].meta
               new == [handler[h] EXCEPT !.pc = "write", !.copy = meta]
    <2>1. handler[h].req \in Requests /\ handler[h].attempt \in Attempts
        BY <1>2, <1>15 DEF ReadMetrics, At, GoodHandler
    <2>2. message[handler[h].req] \in MessageRow
        BY <2>1 DEF RowTypes
    <2>3. meta \in 0..MaxAttempts
        BY <2>2 DEF MessageRow
    <2>4. new \in GoodHandler
        BY <1>2, <2>1, <2>3 DEF GoodHandler, Handler
    <2> QED BY <1>3, <1>15, <2>4 DEF ReadMetrics, SetHandler
<1>16. CASE HandlerStops(h)
    <2>1. faults' \in 0..MaxFaults
        BY <1>16, ChatAssumption DEF HandlerStops, Fault, Processes
    <2> QED BY <1>5, <1>16, <2>1 DEF HandlerStops, Processes
<1> QED BY <1>1, <1>6, <1>7, <1>8, <1>9, <1>11, <1>12, <1>13, <1>14, <1>15, <1>16 DEF HandlerStep

LEMMA WorkerKeepsProcesses ==
    RowTypes /\ Processes /\ WorkerNext => Processes'
<1> SUFFICES ASSUME RowTypes, Processes, WorkerNext PROVE Processes'
    OBVIOUS
<1>1. PICK w \in Workers :
        \/ \E t \in queue : Take(w, t)
        \/ WorkerEnds(w) \/ Heartbeat(w) \/ PersistenceFails(w) \/ WorkerStops(w)
    BY DEF WorkerNext
<1>2. worker[w] \in GoodWorker /\ worker \in [Workers -> GoodWorker]
    BY DEF Processes
<1>3. ASSUME worker[w].pc # "idle" PROVE Mine(w) \in Task /\ Mine(w).req \in Requests
    BY <1>2, <1>3 DEF Mine, GoodWorker, Task
<1>4. ASSUME worker[w].pc # "idle", SetWorker(w, "run") \/ SetWorker(w, "marker") \/ SetWorker(w, "unlock")
      PROVE  worker' \in [Workers -> GoodWorker]
    BY <1>2, <1>4, WorkerPc DEF SetWorker
<1>5. ASSUME Rest(w) PROVE worker' \in [Workers -> GoodWorker]
    BY <1>2, <1>5, IdleIsGood DEF Rest
<1>6. ASSUME worker[w].pc # "idle", UNCHANGED channel \/ Tell(Mine(w), "error") \/ Tell(Mine(w), "done")
      PROVE  channel' \in [Requests \X Attempts -> {"open", "error", "done"}]
    BY <1>3, <1>6, TellTypes DEF Processes
<1>7. ASSUME Fault("crash") \/ Fault("database") \/ Fault("redis") \/ UNCHANGED faults
      PROVE  faults' \in 0..MaxFaults
    BY <1>7, ChatAssumption DEF Fault, Processes
<1>8. CASE \E t \in queue : Take(w, t)
    <2>1. PICK t \in Task : Take(w, t)
        BY <1>8 DEF Processes
    <2>2. [pc |-> "claim", task |-> t] \in GoodWorker
        BY DEF GoodWorker, Worker
    <2>3. worker' \in [Workers -> GoodWorker]
        BY <1>2, <2>1, <2>2 DEF Take
    <2> QED BY <2>1, <2>3 DEF Take, Processes
<1>9. CASE Claim(w)
    <2>1. worker' \in [Workers -> GoodWorker]
        BY <1>4, <1>9 DEF Claim, Busy
    <2> QED BY <1>9, <2>1 DEF Claim, Processes
<1>10. CASE Heartbeat(w)
    BY <1>10 DEF Heartbeat, processes, Processes
<1>11. CASE ClaimRejected(w) \/ SettleRejected(w)
    <2>1. worker' \in [Workers -> GoodWorker]
        BY <1>5, <1>11 DEF ClaimRejected, SettleRejected
    <2>2. channel' \in [Requests \X Attempts -> {"open", "error", "done"}]
        BY <1>6, <1>11 DEF ClaimRejected, SettleRejected, Busy
    <2>3. UNCHANGED <<key, queue, handler, reconciler, faults>>
        BY <1>11 DEF ClaimRejected, SettleRejected
    <2> QED BY <2>1, <2>2, <2>3 DEF Processes
<1>12. CASE Settle(w)
    <2>1. PICK paid \in BOOLEAN : IF paid THEN SetWorker(w, "marker") /\ UNCHANGED channel
                                          ELSE Rest(w) /\ Tell(Mine(w), "error")
        BY <1>12 DEF Settle
    <2>2. worker' \in [Workers -> GoodWorker]
        BY <1>4, <1>5, <1>12, <2>1 DEF Settle, Busy
    <2>3. channel' \in [Requests \X Attempts -> {"open", "error", "done"}]
        BY <1>6, <1>12, <2>1 DEF Settle, Busy
    <2>4. UNCHANGED <<key, queue, handler, reconciler, faults>>
        BY <1>12 DEF Settle
    <2> QED BY <2>2, <2>3, <2>4 DEF Processes
<1>13. CASE PersistFailure(w)
    <2>1. worker' \in [Workers -> GoodWorker]
        BY <1>4, <1>13 DEF PersistFailure, Busy
    <2> QED BY <1>13, <2>1 DEF PersistFailure, Processes
<1>14. CASE PersistenceFails(w) \/ WorkerStops(w)
    <2>1. worker' \in [Workers -> GoodWorker]
        BY <1>5, <1>14 DEF PersistenceFails, WorkerStops
    <2>2. channel' \in [Requests \X Attempts -> {"open", "error", "done"}]
        BY <1>6, <1>14 DEF PersistenceFails, WorkerStops, Busy
    <2>3. faults' \in 0..MaxFaults
        BY <1>7, <1>14 DEF PersistenceFails, WorkerStops
    <2>4. UNCHANGED <<key, queue, handler, reconciler>>
        BY <1>14 DEF PersistenceFails, WorkerStops
    <2> QED BY <2>1, <2>2, <2>3, <2>4 DEF Processes
<1>15. CASE WriteMarker(w) \/ DeleteKey(w)
    <2>1. worker' \in [Workers -> GoodWorker]
        BY <1>5, <1>15 DEF WriteMarker, DeleteKey
    <2>2. channel' \in [Requests \X Attempts -> {"open", "error", "done"}]
        BY <1>6, <1>15 DEF WriteMarker, DeleteKey, Busy
    <2>3. faults' \in 0..MaxFaults
        BY <1>7, <1>15 DEF WriteMarker, DeleteKey
    <2>4. key' \in [Requests -> Handlers \cup {Free, "answered"}]
        BY <1>3, <1>15 DEF WriteMarker, DeleteKey, SetKey, Processes, Busy
    <2>5. UNCHANGED <<queue, handler, reconciler>>
        BY <1>15 DEF WriteMarker, DeleteKey
    <2> QED BY <2>1, <2>2, <2>3, <2>4, <2>5 DEF Processes
<1> QED BY <1>1, <1>8, <1>9, <1>10, <1>11, <1>12, <1>13, <1>14, <1>15 DEF WorkerEnds

LEMMA RecoveryKeepsProcesses ==
    RowTypes /\ RowOk /\ Processes /\ RecoveryNext => Processes'
<1> SUFFICES ASSUME RowTypes, RowOk, Processes, RecoveryNext PROVE Processes'
    OBVIOUS
<1>1. ASSUME NEW c \in Reconcilers, NEW new \in GoodReconciler,
             reconciler' = [reconciler EXCEPT ![c] = new],
             UNCHANGED <<key, queue, channel, handler, worker, faults>>
      PROVE  Processes'
    BY <1>1 DEF Processes
<1>2. \A c \in Reconcilers :
        /\ reconciler[c] \in GoodReconciler
        /\ reconciler[c].items \subseteq GoodItem
        /\ reconciler[c].push \in Task \cup {NoTask}
    BY DEF Processes, GoodReconciler
<1>3. ASSUME NEW c \in Reconcilers, NEW i \in GoodItem, NEW t \in Task \cup {NoTask}, Drop(c, i, t),
             UNCHANGED <<key, queue, channel, handler, worker, faults>>
      PROVE  Processes'
    <2>1. [items |-> reconciler[c].items \ {i}, push |-> t] \in GoodReconciler
        BY <1>2 DEF GoodReconciler
    <2>2. reconciler' = [reconciler EXCEPT ![c] = [items |-> reconciler[c].items \ {i}, push |-> t]]
        BY <1>3 DEF Drop
    <2> QED BY <1>1, <1>3, <2>1, <2>2
<1>4. [items |-> {}, push |-> NoTask] \in GoodReconciler
    BY DEF GoodReconciler
<1>5. ASSUME NEW c \in Reconcilers, Scan(c) PROVE Processes'
    <2> DEFINE item(r) == [req |-> r, status |-> request[r].status, attempt |-> request[r].attempt,
                           dispatch |-> request[r].dispatch, lease |-> request[r].lease]
               found == {r \in Requests : request[r].status \in Nonterminal /\ request[r].due}
               items == {item(r) : r \in found}
               new == [reconciler[c] EXCEPT !.items = items]
    <2>1. ASSUME NEW r \in found PROVE item(r) \in GoodItem
        <3>1. request[r] \in RequestRow /\ request[r].status \in Nonterminal
            BY DEF RowTypes
        <3>2. request[r].attempt # 0 /\ (request[r].status = "PREPARED" => request[r].dispatch = 0)
            BY <3>1 DEF RowOk, Nonterminal
        <3>3. request[r].attempt \in Attempts
            BY <3>1, <3>2, ChatAssumption DEF RequestRow, Attempts
        <3> QED BY <3>1, <3>2, <3>3 DEF RequestRow, GoodItem, Item
    <2>2. items \subseteq GoodItem
        BY <2>1
    <2>3. new \in GoodReconciler
        BY <1>2, <2>2 DEF GoodReconciler
    <2>4. reconciler' = [reconciler EXCEPT ![c].items = items]
        BY <1>5 DEF Scan
    <2>5. reconciler' = [reconciler EXCEPT ![c] = new]
        BY <2>4
    <2> QED BY <1>1, <1>5, <2>3, <2>5 DEF Scan
<1>6. ASSUME NEW c \in Reconcilers, Redispatch(c) PROVE Processes'
    <2> DEFINE new == [reconciler[c] EXCEPT !.push = NoTask]
    <2>1. new \in GoodReconciler /\ reconciler[c].push \in Task
        BY <1>2, <1>6 DEF Redispatch, GoodReconciler
    <2>2. reconciler' = [reconciler EXCEPT ![c] = new]
        BY <1>6 DEF Redispatch
    <2>3. queue' \subseteq Task /\ faults' \in 0..MaxFaults
        BY <1>6, <2>1, ChatAssumption DEF Redispatch, Fault, Processes
    <2> QED BY <1>6, <2>1, <2>2, <2>3 DEF Redispatch, Processes
<1>7. ASSUME NEW c \in Reconcilers, ReconcilerStops(c) PROVE Processes'
    <2>1. faults' \in 0..MaxFaults
        BY <1>7, ChatAssumption DEF ReconcilerStops, Fault, Processes
    <2> QED BY <1>4, <1>7, <2>1 DEF ReconcilerStops, Processes
<1>8. ASSUME NEW c \in Reconcilers, NEW i \in reconciler[c].items,
             FailDue(c, i) \/ RecoverPrepared(c, i) \/ RecoverQueued(c, i) \/ Conflict(c, i)
      PROVE  Processes'
    <2>1. i \in GoodItem /\ i \in Item
        BY <1>2 DEF GoodItem
    <2>2. CASE FailDue(c, i) \/ Conflict(c, i)
        BY <1>3, <2>1, <2>2 DEF FailDue, Conflict
    <2>3. ASSUME i.dispatch < MaxDispatch, NEW lease \in Leases PROVE RecoveryTask(i, lease) \in Task
        <3>1. i.dispatch + 1 \in 1..MaxDispatch
            BY <2>1, <2>3, ChatAssumption DEF Item
        <3> QED BY <2>1, <3>1 DEF RecoveryTask, Task, Item
    <2>4. CASE RecoverPrepared(c, i)
        <3>1. i.dispatch < MaxDispatch
            BY <2>1, <2>4, ChatAssumption DEF RecoverPrepared, GoodItem
        <3>2. RecoveryTask(i, "recovery") \in Task
            BY <2>3, <3>1 DEF Leases
        <3> QED BY <1>3, <2>1, <2>4, <3>2 DEF RecoverPrepared
    <2>5. CASE RecoverQueued(c, i)
        <3>1. i.dispatch < MaxDispatch
            BY <2>1, <2>5, ChatAssumption DEF RecoverQueued, Exhausted, Item
        <3>2. i.lease \in Leases
            BY <2>1 DEF Item
        <3>3. RecoveryTask(i, i.lease) \in Task
            BY <2>3, <3>1, <3>2
        <3> QED BY <1>3, <2>1, <2>5, <3>3 DEF RecoverQueued
    <2> QED BY <1>8, <2>2, <2>4, <2>5
<1>9. ASSUME NEW r \in Requests, RequestDue(r) PROVE Processes'
    BY <1>9 DEF RequestDue, processes, Processes
<1>10. ASSUME NEW r \in Requests, KeyExpires(r) PROVE Processes'
    <2>1. faults' \in 0..MaxFaults /\ key' \in [Requests -> Handlers \cup {Free, "answered"}]
        BY <1>10, ChatAssumption DEF KeyExpires, Fault, Processes
    <2> QED BY <1>10, <2>1 DEF KeyExpires, processes, Processes
<1>11. ASSUME NEW r \in Requests, LoseAccess(r) \/ RegainAccess(r) PROVE Processes'
    <2>1. faults' \in 0..MaxFaults
        BY <1>11, ChatAssumption DEF LoseAccess, RegainAccess, Fault, Processes
    <2> QED BY <1>11, <2>1 DEF LoseAccess, RegainAccess, processes, Processes
<1> QED BY <1>5, <1>6, <1>7, <1>8, <1>9, <1>10, <1>11 DEF RecoveryNext, Reconcile

-----------------------------------------------------------------------------
(* Who runs an attempt.                                                     *)

\* A worker that runs has run the same task before, or has just claimed it, alone.
LEMMA RunsComeFromClaims ==
    ASSUME RowTypes, Processes, [Next]_vars, NEW v \in Workers, Running(v)'
    PROVE  /\ worker'[v].task = worker[v].task /\ worker[v].pc # "idle"
           /\ \/ Running(v)
              \/ /\ Claimable(Mine(v))
                 /\ request'[Mine(v).req].status = "RUNNING"
                 /\ request'[Mine(v).req].attempt = Mine(v).attempt
                 /\ \A u \in Workers : u # v => worker'[u] = worker[u]
<1> DEFINE Same == worker'[v].task = worker[v].task /\ worker[v].pc # "idle" /\ Running(v)
           Claimed == /\ worker'[v].task = worker[v].task /\ worker[v].pc # "idle"
                      /\ Claimable(Mine(v))
                      /\ request'[Mine(v).req].status = "RUNNING"
                      /\ request'[Mine(v).req].attempt = Mine(v).attempt
                      /\ \A u \in Workers : u # v => worker'[u] = worker[u]
<1> SUFFICES Same \/ Claimed
    OBVIOUS
<1>1. worker \in [Workers -> GoodWorker] /\ worker[v] \in GoodWorker /\ worker[v] \in Worker
    BY DEF Processes, GoodWorker
<1>2. worker'[v].pc \in {"run", "marker", "unlock"}
    BY DEF Running
<1>3. ASSUME worker'[v] = worker[v] PROVE Same
    BY <1>2, <1>3 DEF Running
<1>4. ASSUME UNCHANGED worker PROVE Same
    BY <1>3, <1>4
<1>5. HandlerNext \/ RecoveryNext \/ UNCHANGED vars => UNCHANGED worker
    BY ZenonT(60) DEF HandlerNext, HandlerStep, RecoveryNext, Reconcile, TakeKey, Prepare, PrepareFails, Queue,
           Enqueue, ReleaseLock, StreamEnds, ReadMetrics, WriteMetrics, DispatchFails, HandlerStops, Ask,
           Retry, Scan, Redispatch, FailDue, RecoverPrepared, RecoverQueued, Conflict, ReconcilerStops,
           RequestDue, KeyExpires, LoseAccess, RegainAccess, processes, vars
<1>6. ASSUME NEW w \in Workers,
             \/ \E t \in queue : Take(w, t)
             \/ WorkerEnds(w) \/ Heartbeat(w) \/ PersistenceFails(w) \/ WorkerStops(w)
      PROVE  Same \/ Claimed
    <2>1. ASSUME worker' = [worker EXCEPT ![w] = Resting] PROVE Same
        <3>1. CASE w = v
            BY <1>1, <1>2, <2>1, <3>1 DEF Resting
        <3>2. CASE w # v
            BY <1>1, <1>3, <2>1, <3>2
        <3> QED BY <3>1, <3>2
    <2>2. CASE \E t \in queue : Take(w, t)
        <3>1. PICK t \in queue : worker' = [worker EXCEPT ![w] = [pc |-> "claim", task |-> t]]
            BY <2>2 DEF Take
        <3>2. CASE w = v
            BY <1>1, <1>2, <3>1, <3>2
        <3>3. CASE w # v
            BY <1>1, <1>3, <3>1, <3>3
        <3> QED BY <3>2, <3>3
    <2>3. CASE Claim(w)
        <3>1. worker' = [worker EXCEPT ![w].pc = "run"] /\ worker[w].pc = "claim"
            BY <2>3 DEF Claim, SetWorker, Busy
        <3>2. CASE w = v
            <4>1. worker'[v] = [worker[v] EXCEPT !.pc = "run"] /\ \A u \in Workers : u # v => worker'[u] = worker[u]
                BY <1>1, <3>1, <3>2
            <4>2. worker'[v].task = worker[v].task /\ worker[v].pc # "idle"
                BY <1>1, <3>1, <3>2, <4>1 DEF Worker
            <4> DEFINE r == Mine(v).req
            <4>3. r \in Requests /\ Claimable(Mine(v))
                BY <1>1, <2>3, <3>2, <4>2 DEF Claim, GoodWorker, Task, Mine
            <4>4. request[r] \in RequestRow /\ request \in [Requests -> RequestRow]
                BY <4>3 DEF RowTypes
            <4>5. request'[r] = [request[r] EXCEPT !.status = "RUNNING", !.due = FALSE]
                BY <2>3, <3>2, <4>3, <4>4 DEF Claim
            <4>6. request'[r].status = "RUNNING" /\ request'[r].attempt = request[r].attempt
                BY <4>4, <4>5 DEF RequestRow
            <4> QED BY <4>1, <4>2, <4>3, <4>6 DEF Claimable
        <3>3. CASE w # v
            BY <1>1, <1>3, <3>1, <3>3
        <3> QED BY <3>2, <3>3
    <2>4. CASE Settle(w) \/ PersistFailure(w)
        <3>1. worker[w].pc = "run"
            BY <2>4 DEF Settle, PersistFailure, Busy
        <3>2. \/ worker' = [worker EXCEPT ![w] = Resting]
              \/ worker' = [worker EXCEPT ![w].pc = "marker"]
              \/ worker' = [worker EXCEPT ![w].pc = "unlock"]
            BY <2>4 DEF Settle, PersistFailure, SetWorker, Rest
        <3>3. CASE w = v
            <4>1. \/ worker' = [worker EXCEPT ![w] = Resting]
                  \/ worker'[v] = [worker[v] EXCEPT !.pc = "marker"]
                  \/ worker'[v] = [worker[v] EXCEPT !.pc = "unlock"]
                BY <1>1, <3>2, <3>3
            <4>2. worker' = [worker EXCEPT ![w] = Resting] \/ worker'[v].task = worker[v].task
                BY <1>1, <4>1 DEF Worker
            <4> QED BY <2>1, <3>1, <3>3, <4>2 DEF Running
        <3>4. CASE w # v
            BY <1>1, <1>3, <3>2, <3>4
        <3> QED BY <3>3, <3>4
    <2>5. CASE Heartbeat(w)
        BY <1>4, <2>5 DEF Heartbeat, processes
    <2>6. CASE ClaimRejected(w) \/ SettleRejected(w) \/ PersistenceFails(w) \/ WorkerStops(w)
               \/ WriteMarker(w) \/ DeleteKey(w)
        BY <2>1, <2>6 DEF ClaimRejected, SettleRejected, PersistenceFails, WorkerStops, WriteMarker, DeleteKey, Rest
    <2> QED BY <1>6, <2>2, <2>3, <2>4, <2>5, <2>6 DEF WorkerEnds
<1> QED BY <1>4, <1>5, <1>6 DEF Next, WorkerNext

LEMMA ChatStep == ChatInv /\ [Next]_vars => ChatInv'
<1> SUFFICES ASSUME ChatInv, [Next]_vars PROVE ChatInv'
    OBVIOUS
<1>1. RowTypes /\ Processes /\ RowInv
    BY ProcessesMeansOk DEF ChatInv, RowInv
<1>2. RowsMove
    BY StepMovesRows DEF ChatInv
<1>3. RowInv'
    BY <1>1, <1>2, MovesKeepRows
<1>4. Processes'
    <2>1. CASE Next
        BY <1>1, <2>1, HandlerKeepsProcesses, WorkerKeepsProcesses, RecoveryKeepsProcesses DEF Next, RowInv
    <2>2. CASE UNCHANGED vars
        BY <1>1, <2>2 DEF vars, processes, Processes
    <2> QED BY <2>1, <2>2
<1>5. TypeOK' /\ ProcessOk'
    <2>1. (RowTypes /\ Processes /\ barred \subseteq Requests)' => (TypeOK /\ ProcessOk)'
        BY ProcessesMeansOk, PTL
    <2>2. barred' \subseteq Requests
        BY StepKeepsAccess DEF ChatInv, TypeOK, AccessMoves
    <2> QED BY <1>3, <1>4, <2>1, <2>2 DEF RowInv
<1>6. ASSUME NEW w \in Workers, worker[w].pc # "idle"
      PROVE  Mine(w).req \in Requests /\ Mine(w).attempt \in Nat
    BY <1>1, <1>6, ChatAssumption DEF Processes, GoodWorker, Mine, Task, Attempts
<1>7. \A r \in Requests : request[r].attempt \in Nat /\ request'[r].attempt \in Nat
    BY <1>1, <1>3, ChatAssumption DEF RowInv, RowTypes, RequestRow
<1>8. RunOk'
    <2> SUFFICES ASSUME NEW w \in Workers, Running(w)'
                 PROVE  LET row == request'[Mine(w)'.req]
                        IN  \/ row.attempt > Mine(w)'.attempt
                            \/ row.attempt = Mine(w)'.attempt /\ row.status \in {"RUNNING", "SUCCEEDED", "FAILED"}
        BY DEF RunOk, Mine
    <2>1. Mine(w)' = Mine(w) /\ worker[w].pc # "idle"
        BY <1>1, RunsComeFromClaims DEF Mine
    <2>2. Mine(w).req \in Requests /\ Mine(w).attempt \in Nat
        BY <1>6, <2>1
    <2>3. CASE Running(w)
        <3> DEFINE r == Mine(w).req
        <3>1. \/ request[r].attempt > Mine(w).attempt
              \/ request[r].attempt = Mine(w).attempt /\ request[r].status \in {"RUNNING", "SUCCEEDED", "FAILED"}
            BY <2>3 DEF ChatInv, RunOk
        <3>2. /\ request'[r].attempt >= request[r].attempt
              /\ /\ request[r].status \in {"RUNNING", "SUCCEEDED", "FAILED"}
                 /\ request'[r].attempt = request[r].attempt
                 => request'[r].status \in {"RUNNING", "SUCCEEDED", "FAILED"}
            BY <1>1, <1>2, <2>2, MovesAreMonotone
        <3>3. request'[r].attempt \in Nat /\ request[r].attempt \in Nat
            BY <1>7, <2>2
        <3>4. \/ request'[r].attempt > Mine(w).attempt
              \/ request'[r].attempt = Mine(w).attempt /\ request'[r].status \in {"RUNNING", "SUCCEEDED", "FAILED"}
            BY <2>2, <3>1, <3>2, <3>3
        <3> QED BY <2>1, <3>4
    <2>4. CASE ~Running(w)
        BY <1>1, <2>1, <2>4, RunsComeFromClaims
    <2> QED BY <2>3, <2>4
<1>9. OneRunPerAttempt'
    <2> SUFFICES ASSUME NEW v \in Workers, NEW w \in Workers, v # w, Running(v)', Running(w)'
                 PROVE  <<Mine(v).req, Mine(v).attempt>>' # <<Mine(w).req, Mine(w).attempt>>'
        BY DEF OneRunPerAttempt, Running
    <2>1. Mine(v)' = Mine(v) /\ Mine(w)' = Mine(w) /\ worker[v].pc # "idle" /\ worker[w].pc # "idle"
        BY <1>1, RunsComeFromClaims DEF Mine
    <2>2. ASSUME NEW x \in Workers, NEW y \in Workers, Running(x), Claimable(Mine(y)), worker[y].pc # "idle"
          PROVE  <<Mine(x).req, Mine(x).attempt>> # <<Mine(y).req, Mine(y).attempt>>
        <3>1. \/ request[Mine(x).req].attempt > Mine(x).attempt
              \/ /\ request[Mine(x).req].attempt = Mine(x).attempt
                 /\ request[Mine(x).req].status \in {"RUNNING", "SUCCEEDED", "FAILED"}
            BY <2>2 DEF ChatInv, RunOk
        <3>2. request[Mine(y).req].status = "QUEUED" /\ request[Mine(y).req].attempt = Mine(y).attempt
            BY <2>2 DEF Claimable
        <3>3. Mine(x).attempt \in Nat /\ Mine(y).attempt \in Nat /\ Mine(y).req \in Requests
            BY <1>6, <2>2 DEF Running
        <3> QED BY <1>7, <3>1, <3>2, <3>3
    <2>3. CASE Running(v) /\ Running(w)
        BY <2>1, <2>3 DEF ChatInv, OneRunPerAttempt, Running
    <2>4. CASE ~Running(v)
        <3>1. Claimable(Mine(v)) /\ worker'[w] = worker[w]
            BY <1>1, <2>4, RunsComeFromClaims
        <3>2. Running(w)
            BY <3>1 DEF Running
        <3> QED BY <2>1, <2>2, <3>1, <3>2
    <2>5. CASE ~Running(w)
        <3>1. Claimable(Mine(w)) /\ worker'[v] = worker[v]
            BY <1>1, <2>5, RunsComeFromClaims
        <3>2. Running(v)
            BY <3>1 DEF Running
        <3> QED BY <2>1, <2>2, <3>1, <3>2
    <2> QED BY <2>3, <2>4, <2>5
<1> QED BY <1>3, <1>5, <1>8, <1>9 DEF ChatInv, RowInv

-----------------------------------------------------------------------------
(* Theorems.                                                                *)

\* The inductive invariant holds for any numbers of handlers, workers, recovery runs,
\* requests, attempts, dispatches and faults.
THEOREM ChatInvariant == Safety => []ChatInv
<1>1. Init => ChatInv
    BY ChatInit
<1>2. ChatInv /\ [Next]_vars => ChatInv'
    BY ChatStep
<1> QED BY <1>1, <1>2, PTL DEF Safety

\* Types, for TLC's run on a small instance and for all others.
THEOREM ChatTypes == Safety => []TypeOK
<1>1. ChatInv => TypeOK
    BY DEF ChatInv
<1> QED BY <1>1, ChatInvariant, PTL

\* Request, message and charge are settled together, whoever settles them and however
\* handlers, workers and recovery interleave, crash or lose the broker.
THEOREM ChatSettledTogether == Safety => []SettledTogether
<1>1. ChatInv => SettledTogether
    BY DEF ChatInv
<1> QED BY <1>1, ChatInvariant, PTL

\* A client request id creates one pair of messages and is charged at most once.
THEOREM ChatAcceptedOnce == Safety => []AcceptedOnce
<1>1. ChatInv => AcceptedOnce
    BY DEF ChatInv
<1> QED BY <1>1, ChatInvariant, PTL

\* No two workers generate the same attempt, however often its task is delivered.
THEOREM ChatOneRunPerAttempt == Safety => []OneRunPerAttempt
<1>1. ChatInv => OneRunPerAttempt
    BY DEF ChatInv
<1> QED BY <1>1, ChatInvariant, PTL

\* An answer is final, and a failure ends by an explicit retry only.
THEOREM ChatTerminalKept == Safety => TerminalKept
<1> DEFINE Kept == \A r \in Requests :
          /\ request[r].status = "SUCCEEDED" => request'[r] = request[r]
          /\ request[r].status = "FAILED" /\ request'[r] # request[r]
                => request'[r].attempt = request[r].attempt + 1
<1>1. ChatInv /\ [Next]_vars => Kept
    <2>1. ChatInv /\ [Next]_vars => RowInv /\ RowsMove
        BY StepMovesRows DEF ChatInv, RowInv, TypeOK, RowTypes
    <2> QED BY <2>1, MovesAreMonotone
<1>2. ChatInv /\ [Next]_vars => [Kept]_vars
    BY <1>1
<1> QED BY <1>2, ChatInvariant, PTL DEF Safety, TerminalKept

\* A worker that lost its attempt leaves request, message and charge alone.
THEOREM ChatStaleWorkerFenced == Safety => StaleWorkerFenced
<1> DEFINE Fenced == \A w \in Workers :
          LET t == Mine(w) row == request[t.req]
          IN  /\ worker[w].pc = "run" /\ worker'[w] # worker[w]
              /\ <<row.status, row.attempt, row.lease>> # <<"RUNNING", t.attempt, t.lease>>
              => UNCHANGED rows
<1>1. ASSUME TypeOK, Next, NEW w \in Workers, worker[w].pc = "run", worker'[w] # worker[w], ~Current(Mine(w))
      PROVE  UNCHANGED rows
    <2>1. HandlerNext \/ RecoveryNext => UNCHANGED worker
        BY ZenonT(60) DEF HandlerNext, HandlerStep, RecoveryNext, Reconcile, TakeKey, Prepare, PrepareFails, Queue,
               Enqueue, ReleaseLock, StreamEnds, ReadMetrics, WriteMetrics, DispatchFails, HandlerStops, Ask,
               Retry, Scan, Redispatch, FailDue, RecoverPrepared, RecoverQueued, Conflict, ReconcilerStops,
               RequestDue, KeyExpires, LoseAccess, RegainAccess, processes
    <2>2. PICK v \in Workers :
            \/ \E t \in queue : Take(v, t)
            \/ WorkerEnds(v) \/ Heartbeat(v) \/ PersistenceFails(v) \/ WorkerStops(v)
        BY <1>1, <2>1 DEF Next, WorkerNext
    <2>3. ASSUME v # w PROVE FALSE
        <3>1. ASSUME SetWorker(v, "run") \/ SetWorker(v, "marker") \/ SetWorker(v, "unlock")
              PROVE  FALSE
            BY <1>1, <2>3, <3>1 DEF SetWorker, TypeOK
        <3>2. ASSUME Rest(v) \/ UNCHANGED worker PROVE FALSE
            BY <1>1, <2>3, <3>2 DEF Rest, TypeOK
        <3>3. ASSUME NEW t \in queue, Take(v, t) PROVE FALSE
            BY <1>1, <2>3, <3>3 DEF Take, TypeOK
        <3> QED BY <2>2, <3>1, <3>2, <3>3 DEF WorkerEnds, Claim, ClaimRejected, Settle, PersistFailure,
                    SettleRejected, WriteMarker, DeleteKey, Heartbeat, PersistenceFails, WorkerStops, processes
    <2>4. ~Claim(w) /\ ~Settle(w) /\ ~PersistFailure(w) /\ ~Heartbeat(w)
        BY <1>1 DEF Claim, Settle, PersistFailure, Heartbeat, Busy
    <2> QED BY <2>2, <2>3, <2>4 DEF WorkerEnds, Take, ClaimRejected, SettleRejected, WriteMarker, DeleteKey,
                                    PersistenceFails, WorkerStops
<1>2. ChatInv /\ [Next]_vars => [Fenced]_vars
    <2>1. ASSUME ChatInv, Next PROVE Fenced
        <3> SUFFICES ASSUME NEW w \in Workers, worker[w].pc = "run", worker'[w] # worker[w],
                            LET t == Mine(w) row == request[t.req]
                            IN  <<row.status, row.attempt, row.lease>> # <<"RUNNING", t.attempt, t.lease>>
                     PROVE  UNCHANGED rows
            OBVIOUS
        <3>1. ~Current(Mine(w))
            BY DEF Current
        <3> QED BY <1>1, <2>1, <3>1 DEF ChatInv
    <2> QED BY <2>1
<1> QED BY <1>2, ChatInvariant, PTL DEF Safety, StaleWorkerFenced

-----------------------------------------------------------------------------
(* Dispatches are reserved before they are sent.                            *)

Push(c) == reconciler[c].push
Pushing(c) == Push(c) # NoTask
Enqueueing(h) == handler[h].pc = "enqueue"

\* The row has counted this dispatch, or has gone on to a later attempt.
Reserved(t) ==
    /\ t.attempt <= request[t.req].attempt
    /\ t.attempt = request[t.req].attempt => t.n <= request[t.req].dispatch

\* A dispatch no row has counted: nobody holds it yet.
Fresh(t) ==
    /\ t.attempt = request[t.req].attempt
    /\ t.n > request[t.req].dispatch

\* Whatever is or may come to be in the queue is reserved, and by one process.
ReservedOk ==
    /\ \A t \in queue : Reserved(t)
    /\ \A c \in Reconcilers : Pushing(c) => Reserved(Push(c)) /\ Push(c) \notin queue
    /\ \A h \in Handlers : Enqueueing(h) => Reserved(WebTask(h))
    /\ \A c, d \in Reconcilers : c # d /\ Pushing(c) => Push(c) # Push(d)
    /\ \A c \in Reconcilers, h \in Handlers :
          Pushing(c) /\ Enqueueing(h) => Push(c) # WebTask(h)

KeepsTask(h) == Enqueueing(h)' => Enqueueing(h) /\ WebTask(h)' = WebTask(h)
KeepsPush(c) == Push(c)' = Push(c) \/ Push(c)' = NoTask
NoneReserved == (\A h \in Handlers : KeepsTask(h)) /\ (\A c \in Reconcilers : KeepsPush(c))

WebSends(h) ==
    /\ Enqueueing(h) /\ ~Enqueueing(h)'
    /\ queue' \subseteq queue \cup {WebTask(h)}
    /\ NoneReserved

RecoverySends(c) ==
    /\ Pushing(c) /\ ~Pushing(c)'
    /\ queue' \subseteq queue \cup {Push(c)}
    /\ NoneReserved

WebReserves(h, t) ==
    /\ Fresh(t) /\ Reserved(t)'
    /\ WebTask(h)' = t
    /\ queue' \subseteq queue
    /\ \A g \in Handlers : g # h => KeepsTask(g)
    /\ \A c \in Reconcilers : KeepsPush(c)

RecoveryReserves(c, t) ==
    /\ Fresh(t) /\ Reserved(t)'
    /\ Push(c)' = t
    /\ queue' \subseteq queue
    /\ \A h \in Handlers : KeepsTask(h)
    /\ \A d \in Reconcilers : d # c => KeepsPush(d)

DispatchMoves ==
    \/ queue' \subseteq queue /\ NoneReserved
    \/ \E h \in Handlers : WebSends(h) \/ \E t \in Task : WebReserves(h, t)
    \/ \E c \in Reconcilers : RecoverySends(c) \/ \E t \in Task : RecoveryReserves(c, t)

LEMMA HandlerDispatches ==
    TypeOK /\ RowOk /\ ProcessOk /\ HandlerNext => DispatchMoves
<1> SUFFICES ASSUME TypeOK, RowOk, ProcessOk, HandlerNext PROVE DispatchMoves
    OBVIOUS
<1>1. PICK h \in Handlers :
        HandlerStep(h) \/ DispatchFails(h) \/ HandlerStops(h)
        \/ \E r \in Requests : Ask(h, r) \/ \E a \in Attempts : Retry(h, r, a)
    BY DEF HandlerNext
<1>2. UNCHANGED reconciler
    BY <1>1 DEF HandlerStep, TakeKey, Prepare, PrepareFails, Queue, Enqueue, ReleaseLock, StreamEnds,
                ReadMetrics, WriteMetrics, DispatchFails, HandlerStops, Ask, Retry
<1>3. \A c \in Reconcilers : KeepsPush(c)
    BY <1>2 DEF KeepsPush, Push
<1>4. handler \in [Handlers -> Handler]
    BY DEF TypeOK
<1>5. ASSUME NEW rec \in Handler, handler' = [handler EXCEPT ![h] = rec]
      PROVE  handler'[h] = rec /\ \A g \in Handlers : g # h => KeepsTask(g)
    BY <1>4, <1>5 DEF KeepsTask, Enqueueing, WebTask
<1>6. ASSUME NEW rec \in Handler, handler' = [handler EXCEPT ![h] = rec], rec.pc # "enqueue"
      PROVE  ~Enqueueing(h)' /\ NoneReserved
    BY <1>3, <1>5, <1>6 DEF NoneReserved, KeepsTask, Enqueueing
<1>7. ASSUME NEW pc \in {"prepare", "queue", "release", "stream", "idle"}, GoTo(h, pc)
      PROVE  ~Enqueueing(h)' /\ NoneReserved
    <2> DEFINE rec == [handler[h] EXCEPT !.pc = pc]
    <2>1. rec \in Handler /\ rec.pc = pc
        BY <1>4 DEF Handler
    <2>2. handler' = [handler EXCEPT ![h] = rec]
        BY <1>7 DEF GoTo, SetHandler
    <2> HIDE DEF rec
    <2> QED BY <1>6, <2>1, <2>2
<1>8. ASSUME Leave(h) PROVE ~Enqueueing(h)' /\ NoneReserved
    <2>1. Idle \in Handler /\ Idle.pc = "idle"
        BY ChatAssumption DEF Idle, Handler
    <2> QED BY <1>6, <1>8, <2>1 DEF Leave, SetHandler
<1>9. CASE Queue(h)
    <2> DEFINE r == handler[h].req
    <2>1. CASE Queueable(r, handler[h].attempt)
        <3>1. r \in Requests /\ handler[h].attempt \in Attempts
            BY <1>9 DEF Queue, At, ProcessOk
        <3>2. request[r].status = "PREPARED" /\ request[r].attempt = handler[h].attempt
                /\ request[r].dispatch = 0 /\ request[r] \in RequestRow
            BY <2>1, <3>1 DEF Queueable, RowOk, TypeOK
        <3>3. WebTask(h) \in Task
            BY <3>1, ChatAssumption DEF WebTask, Task, Leases
        <3>4. PICK t \in Task : t = [req |-> r, attempt |-> handler[h].attempt, lease |-> "web", n |-> 1]
            BY <3>3 DEF WebTask
        <3> DEFINE rec == [handler[h] EXCEPT !.pc = "enqueue"]
        <3>5. /\ handler' = [handler EXCEPT ![h] = rec]
              /\ rec \in Handler /\ rec.req = r /\ rec.attempt = handler[h].attempt
            BY <1>4, <1>9, <2>1 DEF Queue, GoTo, SetHandler, Handler
        <3> HIDE DEF rec
        <3>6. handler'[h].req = r /\ handler'[h].attempt = handler[h].attempt
            BY <1>4, <3>5
        <3>7. WebTask(h)' = t
            BY <3>4, <3>6 DEF WebTask
        <3>8. request'[r] = Queued(request[r], "web")
            BY <1>9, <2>1, <3>1 DEF Queue, TypeOK
        <3>9. request'[r].attempt = request[r].attempt /\ request'[r].dispatch = 1
            BY <3>1, <3>2, <3>8, QueuedIsProgress DEF Leases
        <3>10. t.req = r /\ t.attempt = handler[h].attempt /\ t.n = 1
            BY <3>4
        <3>11. Fresh(t)
            BY <3>2, <3>10 DEF Fresh
        <3>12. Reserved(t)'
            BY <3>1, <3>2, <3>10, <3>9 DEF Reserved, Attempts
        <3>13. queue' = queue
            BY <1>9 DEF Queue
        <3>14. WebReserves(h, t)
            BY <1>3, <1>5, <3>5, <3>7, <3>11, <3>13, <3>12 DEF WebReserves
        <3> QED BY <3>4, <3>14 DEF DispatchMoves
    <2>2. CASE ~Queueable(r, handler[h].attempt)
        BY <1>7, <1>9, <2>2 DEF Queue, DispatchMoves
    <2> QED BY <2>1, <2>2
<1>10. CASE Enqueue(h) \/ (DispatchFails(h) /\ At(h, "enqueue"))
    <2>1. Enqueueing(h) /\ queue' \subseteq queue \cup {WebTask(h)}
        BY <1>10 DEF Enqueue, DispatchFails, At, Enqueueing
    <2>2. ~Enqueueing(h)' /\ NoneReserved
        BY <1>7, <1>10 DEF Enqueue, DispatchFails
    <2> QED BY <2>1, <2>2 DEF WebSends, DispatchMoves
<1>11. CASE \/ TakeKey(h) \/ Prepare(h) \/ PrepareFails(h) \/ ReleaseLock(h) \/ StreamEnds(h)
            \/ WriteMetrics(h) \/ HandlerStops(h) \/ (DispatchFails(h) /\ ~At(h, "enqueue"))
    <2>1. queue' = queue
        BY <1>11 DEF TakeKey, Prepare, PrepareFails, ReleaseLock, StreamEnds, WriteMetrics, HandlerStops,
                     DispatchFails
    <2>2. NoneReserved
        BY <1>7, <1>8, <1>11 DEF TakeKey, Prepare, PrepareFails, ReleaseLock, StreamEnds, WriteMetrics,
                                 HandlerStops, DispatchFails
    <2> QED BY <2>1, <2>2 DEF DispatchMoves
<1>12. CASE ReadMetrics(h)
    <2> DEFINE rec == [handler[h] EXCEPT !.pc = "write", !.copy = message[handler[h].req].meta]
    <2>1. handler[h].req \in Requests
        BY <1>12 DEF ReadMetrics, At, ProcessOk
    <2>2. message[handler[h].req].meta \in 0..MaxAttempts
        BY <2>1 DEF TypeOK, MessageRow
    <2>3. rec \in Handler /\ rec.pc = "write"
        BY <1>4, <2>2 DEF Handler
    <2>4. handler' = [handler EXCEPT ![h] = rec] /\ queue' = queue
        BY <1>12 DEF ReadMetrics, SetHandler
    <2> HIDE DEF rec
    <2> QED BY <1>6, <2>3, <2>4 DEF DispatchMoves
<1>13. ASSUME NEW r \in Requests, NEW a \in Attempts, (Ask(h, r) /\ a = 1) \/ Retry(h, r, a)
       PROVE  DispatchMoves
    <2> DEFINE new(pc, b) == [pc |-> pc, req |-> r, attempt |-> b, copy |-> 0]
    <2>1. PICK pc \in {"key", "queue"}, b \in 0..MaxAttempts : handler' = [handler EXCEPT ![h] = new(pc, b)]
        BY <1>13, ChatAssumption DEF Ask, Retry, SetHandler, Attempts
    <2>2. new(pc, b) \in Handler /\ new(pc, b).pc # "enqueue"
        BY ChatAssumption DEF Handler
    <2>3. queue' = queue
        BY <1>13 DEF Ask, Retry
    <2> HIDE DEF new
    <2> QED BY <1>6, <2>1, <2>2, <2>3 DEF DispatchMoves
<1>14. 1 \in Attempts
    BY ChatAssumption DEF Attempts
<1> QED BY <1>1, <1>9, <1>10, <1>11, <1>12, <1>13, <1>14 DEF HandlerStep

LEMMA WorkerDispatches == WorkerNext => DispatchMoves
<1> SUFFICES ASSUME WorkerNext PROVE DispatchMoves
    OBVIOUS
<1>1. UNCHANGED <<handler, reconciler>> /\ queue' \subseteq queue
    BY DEF WorkerNext, WorkerEnds, Take, Claim, ClaimRejected, Settle, PersistFailure, SettleRejected, WriteMarker,
           DeleteKey, Heartbeat, PersistenceFails, WorkerStops, processes
<1> QED BY <1>1 DEF DispatchMoves, NoneReserved, KeepsTask, KeepsPush, Push, Enqueueing, WebTask

LEMMA RecoveryDispatches ==
    TypeOK /\ RowOk /\ ProcessOk /\ RecoveryNext => DispatchMoves
<1> SUFFICES ASSUME TypeOK, RowOk, ProcessOk, RecoveryNext PROVE DispatchMoves
    OBVIOUS
<1>1. UNCHANGED handler
    BY DEF RecoveryNext, Reconcile, Scan, Redispatch, FailDue, RecoverPrepared, RecoverQueued, Conflict,
           ReconcilerStops, RequestDue, KeyExpires, LoseAccess, RegainAccess, processes
<1>2. \A h \in Handlers : KeepsTask(h)
    BY <1>1 DEF KeepsTask, Enqueueing, WebTask
<1> DEFINE Holding == [items : SUBSET Item, push : Task \cup {NoTask}]
<1>3. reconciler \in [Reconcilers -> Holding] /\ NoTask \notin Task
    BY ChatAssumption DEF TypeOK, Task, Attempts, Leases
<1>4. ASSUME NEW c \in Reconcilers, NEW rec \in Holding, reconciler' = [reconciler EXCEPT ![c] = rec]
      PROVE  Push(c)' = rec.push /\ \A d \in Reconcilers : d # c => KeepsPush(d)
    BY <1>3, <1>4 DEF Push, KeepsPush
<1>5. ASSUME NEW c \in Reconcilers, NEW rec \in Holding, reconciler' = [reconciler EXCEPT ![c] = rec],
             rec.push \in {Push(c), NoTask}
      PROVE  NoneReserved
    <2>1. KeepsPush(c)
        BY <1>4, <1>5 DEF KeepsPush
    <2> QED BY <1>2, <1>4, <1>5, <2>1 DEF NoneReserved
<1>6. ASSUME NEW c \in Reconcilers, NEW i \in Item, NEW t \in Task \cup {NoTask}, Drop(c, i, t)
      PROVE  /\ Push(c)' = t /\ (\A d \in Reconcilers : d # c => KeepsPush(d))
             /\ t = NoTask => NoneReserved
    <2> DEFINE rec == [items |-> reconciler[c].items \ {i}, push |-> t]
    <2>1. reconciler' = [reconciler EXCEPT ![c] = rec] /\ rec.push = t /\ rec \in Holding
        BY <1>3, <1>6 DEF Drop
    <2> HIDE DEF rec
    <2>2. Push(c)' = t /\ (\A d \in Reconcilers : d # c => KeepsPush(d))
        BY <1>4, <2>1
    <2>3. t = NoTask => NoneReserved
        BY <1>5, <2>1
    <2> QED BY <2>2, <2>3
<1>7. ASSUME NEW c \in Reconcilers, Scan(c) PROVE DispatchMoves
    <2>1. /\ \A d \in Reconcilers : d # c => reconciler'[d] = reconciler[d]
          /\ reconciler'[c].push = reconciler[c].push
        BY <1>3, <1>7 DEF Scan
    <2>3. NoneReserved
        BY <1>2, <2>1 DEF NoneReserved, KeepsPush, Push
    <2> QED BY <1>7, <2>3 DEF Scan, DispatchMoves
<1>8. ASSUME NEW c \in Reconcilers, Redispatch(c) PROVE DispatchMoves
    <2> DEFINE rec == [reconciler[c] EXCEPT !.push = NoTask]
    <2>1. reconciler' = [reconciler EXCEPT ![c] = rec] /\ rec.push = NoTask /\ rec \in Holding
        BY <1>3, <1>8 DEF Redispatch
    <2> HIDE DEF rec
    <2>2. NoneReserved /\ Push(c)' = NoTask
        BY <1>4, <1>5, <2>1
    <2>3. Pushing(c) /\ queue' \subseteq queue \cup {Push(c)}
        BY <1>8 DEF Redispatch, Pushing, Push
    <2> QED BY <2>2, <2>3 DEF RecoverySends, Pushing, DispatchMoves
<1>9. ASSUME NEW c \in Reconcilers, ReconcilerStops(c) PROVE DispatchMoves
    <2> DEFINE rec == [items |-> {}, push |-> NoTask]
    <2>1. reconciler' = [reconciler EXCEPT ![c] = rec] /\ rec \in Holding /\ rec.push = NoTask
        BY <1>9 DEF ReconcilerStops
    <2> HIDE DEF rec
    <2>2. NoneReserved
        BY <1>5, <2>1
    <2> QED BY <1>9, <2>2 DEF ReconcilerStops, DispatchMoves
<1>10. ASSUME NEW c \in Reconcilers, NEW i \in Item, i \in reconciler[c].items,
              FailDue(c, i) \/ Conflict(c, i)
       PROVE  DispatchMoves
    BY <1>6, <1>10 DEF FailDue, Conflict, DispatchMoves
<1>11. ASSUME NEW c \in Reconcilers, NEW i \in Item, i \in reconciler[c].items, NEW t \in Task,
              \/ RecoverPrepared(c, i) /\ t = RecoveryTask(i, "recovery")
              \/ RecoverQueued(c, i) /\ t = RecoveryTask(i, i.lease)
       PROVE  DispatchMoves
    <2> DEFINE row == request[i.req]
    <2>1. i.req \in Requests /\ row \in RequestRow /\ i.attempt \in Attempts /\ i.lease \in Leases
        BY DEF Item, TypeOK
    <2>2. row.attempt = i.attempt /\ row.dispatch = i.dispatch /\ i.dispatch < MaxDispatch
        <3>1. CASE RecoverPrepared(c, i)
            <4>1. row.status = "PREPARED" /\ row.attempt = i.attempt /\ i.status = "PREPARED"
                BY <3>1 DEF RecoverPrepared, Queueable
            <4> QED BY <1>11, <2>1, <4>1, ChatAssumption DEF RowOk, ProcessOk
        <3>2. CASE RecoverQueued(c, i)
            BY <2>1, <3>2, ChatAssumption DEF RecoverQueued, AsScanned, Exhausted, Item
        <3> QED BY <1>11, <3>1, <3>2
    <2>3. i.dispatch \in Nat /\ i.dispatch + 1 \in 1..MaxDispatch
        BY <2>2, ChatAssumption DEF Item
    <2>4. t.req = i.req /\ t.attempt = i.attempt /\ t.n = i.dispatch + 1
        BY <1>11 DEF RecoveryTask
    <2>5. request'[i.req].attempt = row.attempt /\ request'[i.req].dispatch = row.dispatch + 1
        <3>1. CASE RecoverPrepared(c, i)
            <4>1. request'[i.req] = Queued(row, "recovery")
                BY <2>1, <3>1 DEF RecoverPrepared, TypeOK
            <4> QED BY <2>1, <4>1 DEF Queued, RequestRow
        <3>2. CASE RecoverQueued(c, i)
            <4>1. request'[i.req] = [row EXCEPT !.dispatch = @ + 1, !.due = FALSE]
                BY <2>1, <3>2 DEF RecoverQueued, TypeOK
            <4> QED BY <2>1, <4>1 DEF RequestRow
        <3> QED BY <1>11, <3>1, <3>2
    <2>6. Fresh(t) /\ Reserved(t)'
        BY <2>1, <2>2, <2>3, <2>4, <2>5 DEF Fresh, Reserved, Attempts
    <2>7. Drop(c, i, t) /\ queue' = queue
        BY <1>11 DEF RecoverPrepared, RecoverQueued
    <2>8. RecoveryReserves(c, t)
        BY <1>2, <1>6, <2>6, <2>7 DEF RecoveryReserves
    <2> QED BY <2>8 DEF DispatchMoves
<1>12. ASSUME NEW r \in Requests, RequestDue(r) \/ KeyExpires(r) \/ LoseAccess(r) \/ RegainAccess(r)
       PROVE  DispatchMoves
    <2>1. UNCHANGED <<reconciler, queue>>
        BY <1>12 DEF RequestDue, KeyExpires, LoseAccess, RegainAccess, processes
    <2> QED BY <1>2, <2>1 DEF DispatchMoves, NoneReserved, KeepsPush, Push
<1>13. \A c \in Reconcilers : reconciler[c].items \subseteq Item
    BY <1>3
<1>14. ASSUME NEW c \in Reconcilers, NEW i \in Item, i \in reconciler[c].items,
              RecoverPrepared(c, i) \/ RecoverQueued(c, i)
       PROVE  DispatchMoves
    <2>1. i.req \in Requests /\ i.attempt \in Attempts /\ i.lease \in Leases /\ i.dispatch \in 0..MaxDispatch
        BY DEF Item
    <2>2. i.dispatch < MaxDispatch
        BY <1>14, <2>1, ChatAssumption DEF RecoverPrepared, RecoverQueued, Exhausted, ProcessOk
    <2>3. i.dispatch + 1 \in 1..MaxDispatch
        BY <2>1, <2>2, ChatAssumption
    <2>4. RecoveryTask(i, "recovery") \in Task /\ RecoveryTask(i, i.lease) \in Task
        BY <2>1, <2>3 DEF RecoveryTask, Task, Leases
    <2>5. CASE RecoverPrepared(c, i)
        BY <1>11, <1>14, <2>4, <2>5
    <2>6. CASE RecoverQueued(c, i)
        BY <1>11, <1>14, <2>4, <2>6
    <2> QED BY <1>14, <2>5, <2>6
<1> QED BY <1>7, <1>8, <1>9, <1>10, <1>12, <1>13, <1>14 DEF RecoveryNext, Reconcile

\* What is reserved stays reserved.
LEMMA ReservedStays ==
    ASSUME RowInv, RowInv', RowsMove, NEW t \in Task, Reserved(t)
    PROVE  Reserved(t)'
<1>1. t.req \in Requests /\ t.attempt \in Nat /\ t.n \in Nat
    BY DEF Task, Attempts
<1>2. /\ request[t.req].attempt \in Nat /\ request'[t.req].attempt \in Nat
      /\ request[t.req].dispatch \in Nat /\ request'[t.req].dispatch \in Nat
    BY <1>1, ChatAssumption DEF RowInv, RowTypes, RequestRow
<1>3. /\ request'[t.req].attempt >= request[t.req].attempt
      /\ request'[t.req].attempt = request[t.req].attempt
            => request'[t.req].dispatch >= request[t.req].dispatch
    BY <1>1, MovesAreMonotone
<1> QED BY <1>1, <1>2, <1>3 DEF Reserved

LEMMA FreshIsNotReserved ==
    ASSUME RowInv, NEW t \in Task, Fresh(t)
    PROVE  ~Reserved(t)
<1>1. t.req \in Requests /\ t.n \in Nat
    BY DEF Task
<1>2. request[t.req].dispatch \in Nat
    BY <1>1, ChatAssumption DEF RowInv, RowTypes, RequestRow
<1> QED BY <1>1, <1>2 DEF Fresh, Reserved

LEMMA DispatchStep == ChatInv /\ ChatInv' /\ ReservedOk /\ [Next]_vars => ReservedOk'
<1> SUFFICES ASSUME ChatInv, ChatInv', ReservedOk, [Next]_vars PROVE ReservedOk'
    OBVIOUS
<1>1. RowInv /\ RowInv' /\ RowsMove
    BY StepMovesRows DEF ChatInv, RowInv, TypeOK, RowTypes
<1>2. DispatchMoves
    <2>1. UNCHANGED vars => DispatchMoves
        BY DEF vars, processes, DispatchMoves, NoneReserved, KeepsTask, KeepsPush, Push, Enqueueing, WebTask
    <2> QED BY <2>1, HandlerDispatches, WorkerDispatches, RecoveryDispatches DEF Next, ChatInv
<1>3. /\ queue \subseteq Task
      /\ \A c \in Reconcilers : Pushing(c) => Push(c) \in Task
      /\ \A h \in Handlers : Enqueueing(h) => WebTask(h) \in Task
    <2>1. \A h \in Handlers : Enqueueing(h) => WebTask(h) \in Task
        BY ChatAssumption DEF ChatInv, ProcessOk, Enqueueing, WebTask, Task, Leases
    <2> QED BY <2>1 DEF ChatInv, TypeOK, Pushing, Push
<1>4. \A t \in Task : Reserved(t) => Reserved(t)'
    BY <1>1, ReservedStays
<1>5. \A t \in Task : Fresh(t) => ~Reserved(t)
    BY <1>1, FreshIsNotReserved
<1>6. CASE queue' \subseteq queue /\ NoneReserved
    BY <1>3, <1>4, <1>6 DEF ReservedOk, NoneReserved, KeepsTask, KeepsPush, Pushing
<1>7. ASSUME NEW h \in Handlers, WebSends(h) PROVE ReservedOk'
    <2>1. /\ Enqueueing(h) /\ ~Enqueueing(h)'
          /\ queue' \subseteq queue \cup {WebTask(h)}
          /\ \A g \in Handlers : KeepsTask(g)
          /\ \A c \in Reconcilers : KeepsPush(c)
        BY <1>7 DEF WebSends, NoneReserved
    <2>2. \A t \in queue' : Reserved(t)'
        BY <1>3, <1>4, <2>1 DEF ReservedOk
    <2> QED BY <1>3, <1>4, <2>1, <2>2 DEF ReservedOk, KeepsTask, KeepsPush, Pushing
<1>8. ASSUME NEW c \in Reconcilers, RecoverySends(c) PROVE ReservedOk'
    <2>1. /\ Pushing(c) /\ ~Pushing(c)'
          /\ queue' \subseteq queue \cup {Push(c)}
          /\ \A g \in Handlers : KeepsTask(g)
          /\ \A d \in Reconcilers : KeepsPush(d)
        BY <1>8 DEF RecoverySends, NoneReserved
    <2>2. \A t \in queue' : Reserved(t)'
        BY <1>3, <1>4, <2>1 DEF ReservedOk
    <2> QED BY <1>3, <1>4, <2>1, <2>2 DEF ReservedOk, KeepsTask, KeepsPush, Pushing
<1>9. ASSUME NEW h \in Handlers, NEW t \in Task, WebReserves(h, t) PROVE ReservedOk'
    <2>1. /\ ~Reserved(t) /\ Reserved(t)'
          /\ WebTask(h)' = t
          /\ queue' \subseteq queue
          /\ \A g \in Handlers : g # h => KeepsTask(g)
          /\ \A c \in Reconcilers : KeepsPush(c)
        BY <1>5, <1>9 DEF WebReserves
    <2>2. \A c \in Reconcilers : Pushing(c)' => Pushing(c) /\ Push(c)' = Push(c) /\ Push(c) # t
        BY <2>1 DEF ReservedOk, KeepsPush, Pushing
    <2>3. \A g \in Handlers : Enqueueing(g)' => Reserved(WebTask(g))'
        BY <1>3, <1>4, <2>1 DEF ReservedOk, KeepsTask
    <2>4. \A c \in Reconcilers, g \in Handlers :
              Pushing(c)' /\ Enqueueing(g)' => Push(c)' # WebTask(g)'
        BY <2>1, <2>2 DEF ReservedOk, KeepsTask
    <2> QED BY <1>3, <1>4, <2>1, <2>2, <2>3, <2>4 DEF ReservedOk, KeepsPush, Pushing
<1>10. ASSUME NEW c \in Reconcilers, NEW t \in Task, RecoveryReserves(c, t) PROVE ReservedOk'
    <2>1. /\ ~Reserved(t) /\ Reserved(t)'
          /\ Push(c)' = t
          /\ queue' \subseteq queue
          /\ \A g \in Handlers : KeepsTask(g)
          /\ \A d \in Reconcilers : d # c => KeepsPush(d)
        BY <1>5, <1>10 DEF RecoveryReserves
    <2>2. \A d \in Reconcilers : d # c /\ Pushing(d)' => Pushing(d) /\ Push(d)' = Push(d) /\ Push(d) # t
        BY <2>1 DEF ReservedOk, KeepsPush, Pushing
    <2>3. t \notin queue'
        BY <2>1 DEF ReservedOk
    <2>4. \A d \in Reconcilers : Pushing(d)' => Reserved(Push(d))' /\ Push(d)' \notin queue'
        BY <1>3, <1>4, <2>1, <2>2, <2>3 DEF ReservedOk
    <2>5. \A d, e \in Reconcilers : d # e /\ Pushing(d)' => Push(d)' # Push(e)'
        BY <2>1, <2>2 DEF ReservedOk, KeepsPush, Pushing
    <2>6. \A d \in Reconcilers, g \in Handlers :
              Pushing(d)' /\ Enqueueing(g)' => Push(d)' # WebTask(g)'
        BY <2>1, <2>2 DEF ReservedOk, KeepsTask
    <2>7. \A g \in Handlers : Enqueueing(g)' => Reserved(WebTask(g))'
        BY <1>3, <1>4, <2>1 DEF ReservedOk, KeepsTask
    <2>8. \A x \in queue' : Reserved(x)'
        BY <1>3, <1>4, <2>1 DEF ReservedOk
    <2> QED BY <2>4, <2>5, <2>6, <2>7, <2>8 DEF ReservedOk
<1> QED BY <1>2, <1>6, <1>7, <1>8, <1>9, <1>10 DEF DispatchMoves

\* Every message of the queue and every message a recovery run is about to send was counted
\* by its row first, no two runs hold the same one, and none is sent again, for any numbers
\* of recovery runs, handlers and dispatches.
THEOREM ChatDispatchReservedOnce == Safety => []DispatchReservedOnce
<1>1. Init => ReservedOk
    BY DEF Init, ReservedOk, Pushing, Push, Enqueueing, Idle
<1>2. ChatInv /\ ReservedOk => DispatchReservedOnce
    <2> SUFFICES ASSUME ChatInv, ReservedOk PROVE DispatchReservedOnce
        OBVIOUS
    <2>1. \A r \in Requests : request[r].dispatch <= MaxDispatch
        BY ChatAssumption DEF ChatInv, TypeOK, RequestRow
    <2> QED BY <2>1 DEF DispatchReservedOnce, ReservedOk, Reserved, Pushing, Push
<1> QED BY <1>1, <1>2, ChatInvariant, DispatchStep, PTL DEF Safety

-----------------------------------------------------------------------------
(* The promise is kept.                                                     *)

states == [r \in Requests |-> Shown(message[r].status)]
attempts == [r \in Requests |-> request[r].attempt]
payments == {r \in Requests : charges[r] > 0}

LEMMA ShownStatus ==
    /\ Shown("NONE") = "none" /\ Shown("THINKING") = "thinking"
    /\ Shown("SUCCESS") = "answered" /\ Shown("FAILED") = "failed"
BY DEF Shown

LEMMA LifecycleInit == Init => Lifecycle!Init
<1> SUFFICES ASSUME Init PROVE Lifecycle!Init
    OBVIOUS
<1>1. states = [r \in Requests |-> "none"]
    BY ShownStatus DEF Init, states
<1>2. attempts = [r \in Requests |-> 0]
    BY DEF Init, attempts
<1>3. payments = {}
    BY DEF Init, payments
<1> QED BY <1>1, <1>2, <1>3 DEF Init, Lifecycle!Init, states, attempts, payments

\* Each move of a request's rows is a step of the question's lifecycle, or hidden.
LEMMA MovesAreLifecycleSteps ==
    RowInv /\ RowInv' /\ RowsMove /\ UNCHANGED barred => [Lifecycle!Next]_(Lifecycle!vars)
<1> SUFFICES ASSUME RowInv, RowInv', RowsMove, UNCHANGED barred
             PROVE  Lifecycle!Next \/ (states' = states /\ attempts' = attempts /\ payments' = payments)
    BY DEF Lifecycle!vars, states, attempts, payments
<1>1. /\ request \in [Requests -> RequestRow] /\ message \in [Requests -> MessageRow]
      /\ charges \in [Requests -> Nat]
    BY DEF RowInv, RowTypes
<1>2. \A r \in Requests :
        /\ request[r].status \in Nonterminal <=> message[r].status = "THINKING"
        /\ request[r].status = "FAILED" <=> message[r].status = "FAILED"
        /\ request[r].status = "SUCCEEDED" <=> r \in payments
    BY DEF RowInv, SettledTogether, payments
<1>3. CASE UNCHANGED rows
    BY <1>3 DEF rows, states, attempts, payments
<1>4. ASSUME NEW r \in Requests, MovePrepare(r) PROVE Lifecycle!Next
    <2>1. request[r].attempt = 0 /\ message[r].status = "NONE"
        <3>1. request[r].status = "NONE" /\ message[r] \in MessageRow
            BY <1>1, <1>4 DEF MovePrepare
        <3> QED BY <1>4, <3>1 DEF RowInv, RowOk, SettledTogether, MessageRow, Nonterminal
    <2>2. states[r] = "none" /\ attempts[r] = 0
        BY <2>1, ShownStatus DEF states, attempts
    <2>3. states' = [states EXCEPT ![r] = "thinking"]
        BY <1>1, <1>4, ShownStatus DEF MovePrepare, states, NewMessage
    <2>4. attempts' = [attempts EXCEPT ![r] = attempts[r] + 1]
        <3>1. request'[r].attempt = 1 /\ \A q \in Requests : q # r => request'[q] = request[q]
            BY <1>1, <1>4 DEF MovePrepare, Prepared
        <3>2. attempts' = [attempts EXCEPT ![r] = 1]
            BY <3>1 DEF attempts
        <3> QED BY <2>2, <3>2
    <2>5. payments' = payments
        BY <1>4 DEF MovePrepare, payments
    <2> QED BY <2>2, <2>3, <2>4, <2>5
            DEF Lifecycle!Next, Lifecycle!Ask, Lifecycle!Move, Lifecycle!NextAttempt, states, attempts, payments
<1>5. ASSUME NEW r \in Requests, MoveRetry(r) PROVE Lifecycle!Next
    <2>1. states[r] = "failed" /\ attempts[r] = request[r].attempt
        BY <1>2, <1>5, ShownStatus DEF MoveRetry, states, attempts
    <2>2. states' = [states EXCEPT ![r] = "thinking"]
        BY <1>1, <1>5, ShownStatus DEF MoveRetry, states, NewMessage
    <2>3. attempts' = [attempts EXCEPT ![r] = attempts[r] + 1]
        BY <1>1, <1>5, <2>1 DEF MoveRetry, attempts, Prepared
    <2>4. payments' = payments
        BY <1>5 DEF MoveRetry, payments
    <2>5. r \notin barred
        BY <1>5 DEF MoveRetry
    <2> QED BY <2>1, <2>2, <2>3, <2>4, <2>5
            DEF Lifecycle!Next, Lifecycle!Retry, Lifecycle!Move, Lifecycle!NextAttempt, states, attempts, payments
<1>6. ASSUME NEW r \in Requests, NEW new \in RequestRow, MoveProgress(r, new)
      PROVE  states' = states /\ attempts' = attempts /\ payments' = payments
    BY <1>1, <1>6 DEF MoveProgress, states, attempts, payments
<1>7. ASSUME NEW r \in Requests, NEW end \in {"SUCCEEDED", "FAILED"}, NEW b \in BOOLEAN,
             request' = [request EXCEPT ![r] = Terminal(request[r], end, b)]
      PROVE  attempts' = attempts
    <2>1. Terminal(request[r], end, b).attempt = request[r].attempt
        BY <1>1 DEF Terminal, RequestRow
    <2>2. \A q \in Requests : request'[q].attempt = request[q].attempt
        BY <1>1, <1>7, <2>1
    <2> QED BY <2>2 DEF attempts
<1>8. ASSUME NEW r \in Requests, MoveAnswer(r) PROVE Lifecycle!Next
    <2>1. states[r] = "thinking"
        BY <1>2, <1>8, ShownStatus DEF MoveAnswer, Nonterminal, states
    <2>2. states' = [states EXCEPT ![r] = "answered"]
        BY <1>1, <1>8, ShownStatus DEF MoveAnswer, states
    <2>3. attempts' = attempts
        BY <1>7, <1>8 DEF MoveAnswer
    <2>4. payments' = payments \cup {r}
        <3>1. charges' = [charges EXCEPT ![r] = charges[r] + 1]
            BY <1>8 DEF MoveAnswer
        <3>2. charges'[r] > 0 /\ \A q \in Requests : q # r => charges'[q] = charges[q]
            BY <1>1, <3>1
        <3> QED BY <3>2 DEF payments
    <2> QED BY <2>1, <2>2, <2>3, <2>4
            DEF Lifecycle!Next, Lifecycle!Settle, Lifecycle!Answer, Lifecycle!Move, states, attempts, payments
<1>9. ASSUME NEW r \in Requests, MoveFail(r) PROVE Lifecycle!Next
    <2>1. states[r] = "thinking"
        BY <1>2, <1>9, ShownStatus DEF MoveFail, states
    <2>2. states' = [states EXCEPT ![r] = "failed"]
        <3>1. message[r] \in MessageRow /\ request[r].attempt \in 0..MaxAttempts
            BY <1>1 DEF RequestRow
        <3>2. Failed(message[r], request[r].attempt).status = "FAILED"
            BY <3>1, FailedMessage
        <3>3. message' = [message EXCEPT ![r] = Failed(message[r], request[r].attempt)]
            BY <1>9 DEF MoveFail
        <3> QED BY <1>1, <3>2, <3>3, ShownStatus DEF states
    <2>3. attempts' = attempts
        BY <1>7, <1>9 DEF MoveFail
    <2>4. payments' = payments
        BY <1>9 DEF MoveFail, payments
    <2> QED BY <2>1, <2>2, <2>3, <2>4
            DEF Lifecycle!Next, Lifecycle!Settle, Lifecycle!Fail, Lifecycle!Move, states, attempts, payments
<1>10. ASSUME NEW r \in Requests, NEW a \in 0..MaxAttempts, MoveMeta(r, a)
       PROVE  states' = states /\ attempts' = attempts /\ payments' = payments
    <2>1. message' = [message EXCEPT ![r].meta = a] /\ message[r] \in MessageRow
        BY <1>1, <1>10 DEF MoveMeta
    <2>2. \A q \in Requests : message'[q].status = message[q].status
        BY <1>1, <2>1 DEF MessageRow
    <2> QED BY <1>10, <2>2 DEF MoveMeta, states, attempts, payments
<1> QED BY <1>3, <1>4, <1>5, <1>6, <1>8, <1>9, <1>10 DEF RowsMove

\* So is a change of the right to a session.
LEMMA AccessIsLifecycleStep ==
    RowInv /\ AccessMoves => [Lifecycle!Next]_(Lifecycle!vars)
<1> SUFFICES ASSUME RowInv, AccessMoves PROVE Lifecycle!Next
    OBVIOUS
<1>1. PICK r \in Requests : /\ UNCHANGED rows
                            /\ \/ request[r].status # "NONE" /\ barred' = barred \cup {r}
                               \/ barred' = barred \ {r}
    BY DEF AccessMoves
<1>2. states' = states /\ attempts' = attempts /\ payments' = payments
    BY <1>1 DEF rows, states, attempts, payments
<1>3. request[r].status # "NONE" => states[r] # "none"
    <2>1. request[r] \in RequestRow
        BY DEF RowInv, RowTypes
    <2>2. request[r].status # "NONE" => message[r].status \in {"THINKING", "SUCCESS", "FAILED"}
        BY <2>1 DEF RowInv, SettledTogether, Nonterminal, RequestRow, RequestStatus
    <2>3. states[r] = Shown(message[r].status)
        BY DEF states
    <2> QED BY <2>2, <2>3, ShownStatus
<1>4. Lifecycle!Lose(r) \/ Lifecycle!Regain(r)
    BY <1>1, <1>2, <1>3 DEF Lifecycle!Lose, Lifecycle!Regain, states, attempts, payments
<1> QED BY <1>4 DEF Lifecycle!Next

\* Handlers, workers and recovery implement the lifecycle users are promised: an answer is
\* final and paid for, a failure is free, and only a retry makes a question think again.
THEOREM ChatKeepsLifecycle == Safety => KeepsLifecycle
<1>1. Init => Lifecycle!Init
    BY LifecycleInit
<1>2. ChatInv /\ ChatInv' /\ [Next]_vars => [Lifecycle!Next]_(Lifecycle!vars)
    <2>1. ChatInv => RowInv
        BY DEF ChatInv, RowInv, TypeOK, RowTypes
    <2>2. ChatInv' => RowInv'
        BY DEF ChatInv, RowInv, TypeOK, RowTypes
    <2>3. ChatInv /\ [Next]_vars => RowsMove
        BY StepMovesRows DEF ChatInv
    <2> QED BY <2>1, <2>2, <2>3, StepKeepsAccess, MovesAreLifecycleSteps, AccessIsLifecycleStep
<1> QED BY <1>1, <1>2, ChatInvariant, PTL DEF Safety, KeepsLifecycle, Lifecycle!Safety

-----------------------------------------------------------------------------
(***************************************************************************)
(* ChatNonStream: an answer under the task's id, or on its way there, is   *)
(* the settled one, and a settled answer stays.                            *)
(***************************************************************************)
EnqueueTo(h, D) ==
    /\ NonStream!At(h, "enqueue") /\ NonStream!GoTo(h, "wait")
    /\ \E d \in D : run[d] = "waiting" /\ queued' = queued \cup {d}
    /\ UNCHANGED <<status, task, answer, idempotency, run, result, sideFaults>>

ReplyHandler(h) ==
    \/ NonStream!CheckExisting(h) \/ NonStream!TakeKey(h) \/ NonStream!Prepare(h) \/ NonStream!Queue(h)
    \/ NonStream!ReadResult(h) \/ NonStream!WaitTimeout(h) \/ NonStream!DispatchFails(h)

ReplyRun(d) ==
    \/ NonStream!Take(d) \/ NonStream!Claim(d) \/ NonStream!Settle(d) \/ NonStream!PersistFailure(d)
    \/ NonStream!NotPersisted(d) \/ NonStream!WriteMarker(d) \/ NonStream!Return(d)
    \/ NonStream!GenerationFails(d) \/ NonStream!Crash(d) \/ NonStream!Redispatch(d)

ReplyNext(D) ==
    \/ \E h \in Handlers : ReplyHandler(h) \/ EnqueueTo(h, D)
    \/ \E d \in D : ReplyRun(d)
    \/ NonStream!LeaseExpires

LEMMA NonStreamSteps == ASSUME NonStream!Next PROVE ReplyNext(Deliveries)
<1>1. ASSUME NEW h \in Handlers, NonStream!HandlerStep(h) \/ NonStream!DispatchFails(h)
      PROVE  ReplyHandler(h) \/ EnqueueTo(h, Deliveries)
    BY <1>1 DEF ReplyHandler, EnqueueTo, NonStream!HandlerStep, NonStream!Enqueue
<1>2. ASSUME NEW d \in Deliveries, NonStream!RunStep(d) \/ NonStream!GenerationFails(d) \/ NonStream!Crash(d)
                                       \/ NonStream!Redispatch(d)
      PROVE  ReplyRun(d)
    BY <1>2 DEF ReplyRun, NonStream!RunStep
<1> QED BY <1>1, <1>2 DEF ReplyNext, NonStream!Next

LEMMA OnceSteps == ASSUME Once!Next PROVE ReplyNext(OneDelivery)
<1> USE DEF Once!Fault, NonStream!Fault, Once!At, NonStream!At, Once!GoTo, NonStream!GoTo, Once!End, NonStream!End,
            Once!Release, NonStream!Release
<1>1. ASSUME NEW h \in Handlers, Once!HandlerStep(h) \/ Once!DispatchFails(h)
      PROVE  ReplyHandler(h) \/ EnqueueTo(h, OneDelivery)
    <2>1. CASE Once!CheckExisting(h)
        BY <2>1 DEF ReplyHandler, Once!CheckExisting, NonStream!CheckExisting
    <2>2. CASE Once!TakeKey(h)
        BY <2>2 DEF ReplyHandler, Once!TakeKey, NonStream!TakeKey
    <2>3. CASE Once!Prepare(h)
        BY <2>3 DEF ReplyHandler, Once!Prepare, NonStream!Prepare
    <2>4. CASE Once!Queue(h)
        BY <2>4 DEF ReplyHandler, Once!Queue, NonStream!Queue
    <2>5. CASE Once!Enqueue(h)
        BY <2>5 DEF EnqueueTo, Once!Enqueue
    <2>6. CASE Once!ReadResult(h)
        BY <2>6 DEF ReplyHandler, Once!ReadResult, NonStream!ReadResult
    <2>7. CASE Once!WaitTimeout(h)
        BY <2>7 DEF ReplyHandler, Once!WaitTimeout, NonStream!WaitTimeout
    <2>8. CASE Once!DispatchFails(h)
        BY <2>8 DEF ReplyHandler, Once!DispatchFails, NonStream!DispatchFails
    <2> QED BY <1>1, <2>1, <2>2, <2>3, <2>4, <2>5, <2>6, <2>7, <2>8 DEF Once!HandlerStep
<1>2. ASSUME NEW d \in OneDelivery, Once!RunStep(d) \/ Once!GenerationFails(d) \/ Once!Crash(d) \/ Once!Redispatch(d)
      PROVE  ReplyRun(d)
    <2> USE DEF Once!Step, NonStream!Step, Once!Current, NonStream!Current
    <2>1. CASE Once!Take(d)
        BY <2>1 DEF ReplyRun, Once!Take, NonStream!Take
    <2>2. CASE Once!Claim(d)
        BY <2>2 DEF ReplyRun, Once!Claim, NonStream!Claim, Once!Claimable, NonStream!Claimable
    <2>3. CASE Once!Settle(d)
        BY <2>3 DEF ReplyRun, Once!Settle, NonStream!Settle
    <2>4. CASE Once!PersistFailure(d)
        BY <2>4 DEF ReplyRun, Once!PersistFailure, NonStream!PersistFailure
    <2>5. CASE Once!NotPersisted(d)
        BY <2>5 DEF ReplyRun, Once!NotPersisted, NonStream!NotPersisted
    <2>6. CASE Once!WriteMarker(d)
        BY <2>6 DEF ReplyRun, Once!WriteMarker, NonStream!WriteMarker
    <2>7. CASE Once!Return(d)
        BY <2>7 DEF ReplyRun, Once!Return, NonStream!Return, Once!ResultOf, NonStream!ResultOf
    <2>8. CASE Once!GenerationFails(d)
        BY <2>8 DEF ReplyRun, Once!GenerationFails, NonStream!GenerationFails
    <2>9. CASE Once!Crash(d)
        BY <2>9 DEF ReplyRun, Once!Crash, NonStream!Crash
    <2>10. CASE Once!Redispatch(d)
        BY <2>10 DEF ReplyRun, Once!Redispatch, NonStream!Redispatch
    <2> QED BY <1>2, <2>1, <2>2, <2>3, <2>4, <2>5, <2>6, <2>7, <2>8, <2>9, <2>10 DEF Once!RunStep
<1>3. Once!LeaseExpires => NonStream!LeaseExpires
    BY DEF Once!LeaseExpires, NonStream!LeaseExpires
<1> QED BY <1>1, <1>2, <1>3 DEF ReplyNext, Once!Next

ReplyTypes(D) ==
    /\ status \in NonStream!Statuses /\ task \in {"none", "web", "recovery"}
    /\ answer \in D \cup {Nobody} /\ idempotency \in Handlers \cup {Nobody, "answered"}
    /\ queued \subseteq D /\ run \in [D -> NonStream!Pc]
    /\ result \in [kind : {"none", "answer", "error"}, by : D \cup {Nobody}]
    /\ web \in [Handlers -> [pc : {"start", "key", "prepare", "queue", "enqueue", "wait", "ended"},
                             ending : NonStream!Endings, from : D \cup {Nobody}]]
    /\ sideFaults \in 0..2

AnswersSettled(D) ==
    /\ \A d \in D : run[d] \in {"marker", "answered"} => status = "succeeded" /\ answer = d
    /\ result.kind = "answer" => status = "succeeded" /\ result.by = answer
    /\ \A h \in Handlers : web[h].ending = "answer" => status = "succeeded" /\ web[h].from = answer

\* One delivery: once its run has ended without an answer, there is nobody left to settle one.
FailuresSettled(D) ==
    /\ \A d \in D : run[d] \notin {"marker", "answered", "ended"} => status # "succeeded"
    /\ (result.kind = "error" \/ \E h \in Handlers : web[h].ending = "LLM_SERVICE_FAILED")
           => status # "succeeded" /\ \A d \in D : run[d] = "ended"

ReplyInv(D) ==
    ReplyTypes(D) /\ AnswersSettled(D) /\ ((\A d, e \in D : d = e) => FailuresSettled(D))

LEMMA ReplyInit ==
    /\ NonStream!Init => ReplyInv(Deliveries)
    /\ Once!Init => ReplyInv(OneDelivery)
<1> USE DEF ReplyInv, ReplyTypes, AnswersSettled, FailuresSettled, NonStream!Statuses, NonStream!Pc, NonStream!Endings
<1>1. NonStream!Init => ReplyInv(Deliveries)
    BY DEF NonStream!Init
<1>2. Once!Init => ReplyInv(OneDelivery)
    BY DEF Once!Init
<1> QED BY <1>1, <1>2

\* A handler moves on, or ends with what it was told.
LEMMA HandlerKeepsReplies ==
    ASSUME NEW D, ReplyInv(D), NEW h \in Handlers, ReplyHandler(h) \/ EnqueueTo(h, D) PROVE ReplyInv(D)'
<1> USE DEF ReplyInv, NonStream!At, NonStream!GoTo, NonStream!End, NonStream!Release
<1>1. ReplyTypes(D)'
    <2> USE DEF ReplyTypes
    <2>1. \A pc \in {"key", "prepare", "queue", "enqueue", "wait"} : [web[h] EXCEPT !.pc = pc] \in
             [pc : {"start", "key", "prepare", "queue", "enqueue", "wait", "ended"},
              ending : NonStream!Endings, from : D \cup {Nobody}]
        OBVIOUS
    <2>2. \A ending \in NonStream!Endings, from \in D \cup {Nobody} :
             [pc |-> "ended", ending |-> ending, from |-> from] \in
             [pc : {"start", "key", "prepare", "queue", "enqueue", "wait", "ended"},
              ending : NonStream!Endings, from : D \cup {Nobody}]
        OBVIOUS
    <2>3. /\ "answer" \in NonStream!Endings /\ "LLM_SERVICE_FAILED" \in NonStream!Endings
          /\ "CHAT_DISPATCH_RECOVERY_PENDING" \in NonStream!Endings /\ "CHAT_REQUEST_PROCESSING" \in NonStream!Endings
          /\ "conflict" \in NonStream!Endings
        BY DEF NonStream!Endings
    <2>4. CASE NonStream!CheckExisting(h) \/ NonStream!TakeKey(h)
        BY <2>1, <2>2, <2>3, <2>4 DEF NonStream!CheckExisting, NonStream!TakeKey
    <2>5. CASE NonStream!Prepare(h) \/ NonStream!Queue(h)
        BY <2>1, <2>2, <2>3, <2>5 DEF NonStream!Prepare, NonStream!Queue, NonStream!Statuses
    <2>6. CASE NonStream!ReadResult(h) \/ NonStream!WaitTimeout(h)
        BY <2>2, <2>3, <2>6 DEF NonStream!ReadResult, NonStream!WaitTimeout
    <2>7. CASE NonStream!DispatchFails(h)
        BY <2>2, <2>3, <2>7 DEF NonStream!DispatchFails, NonStream!Fault
    <2>8. CASE EnqueueTo(h, D)
        BY <2>1, <2>8 DEF EnqueueTo
    <2> QED BY <2>4, <2>5, <2>6, <2>7, <2>8 DEF ReplyHandler
\* Only an unsettled request is written, and only the one handler's row.
<1>2. /\ UNCHANGED <<run, result, answer>> /\ (status' # status => status # "succeeded" /\ status' # "succeeded")
      /\ \A g \in Handlers : g # h => web'[g] = web[g]
    BY DEF ReplyTypes, ReplyHandler, EnqueueTo, NonStream!CheckExisting, NonStream!TakeKey, NonStream!Prepare,
           NonStream!Queue, NonStream!ReadResult, NonStream!WaitTimeout, NonStream!DispatchFails
<1>3. /\ web'[h].ending = "answer" => status = "succeeded" /\ web'[h].from = answer
      /\ web'[h].ending = "LLM_SERVICE_FAILED" => web[h].ending = "LLM_SERVICE_FAILED" \/ result.kind = "error"
    <2> USE DEF ReplyTypes, AnswersSettled
    <2>1. CASE NonStream!CheckExisting(h) \/ NonStream!TakeKey(h)
        BY <2>1 DEF NonStream!CheckExisting, NonStream!TakeKey
    <2>2. CASE NonStream!Prepare(h) \/ NonStream!Queue(h)
        BY <2>2 DEF NonStream!Prepare, NonStream!Queue
    <2>3. CASE NonStream!ReadResult(h) \/ NonStream!WaitTimeout(h)
        BY <2>3 DEF NonStream!ReadResult, NonStream!WaitTimeout
    <2>4. CASE NonStream!DispatchFails(h) \/ EnqueueTo(h, D)
        BY <2>4 DEF NonStream!DispatchFails, EnqueueTo
    <2> QED BY <2>1, <2>2, <2>3, <2>4 DEF ReplyHandler
<1>4. AnswersSettled(D)'
    BY <1>2, <1>3 DEF AnswersSettled
<1>5. FailuresSettled(D) => FailuresSettled(D)'
    BY <1>2, <1>3 DEF FailuresSettled
<1> QED BY <1>1, <1>4, <1>5

\* A delivery goes on, settles, or leaves its result.
LEMMA RunKeepsReplies ==
    ASSUME NEW D, ReplyInv(D), NEW d \in D, ReplyRun(d) PROVE ReplyInv(D)'
<1> USE DEF ReplyInv, ReplyTypes, NonStream!Step, NonStream!Current
<1>1. ReplyTypes(D)'
    <2> USE DEF NonStream!Pc, NonStream!Statuses
    <2>1. CASE NonStream!Take(d) \/ NonStream!Claim(d) \/ NonStream!Settle(d)
        BY <2>1 DEF NonStream!Take, NonStream!Claim, NonStream!Settle
    <2>2. CASE NonStream!PersistFailure(d) \/ NonStream!WriteMarker(d) \/ NonStream!Redispatch(d)
        BY <2>2 DEF NonStream!PersistFailure, NonStream!WriteMarker, NonStream!Redispatch
    <2>3. CASE NonStream!NotPersisted(d) \/ NonStream!GenerationFails(d) \/ NonStream!Crash(d)
        BY <2>3 DEF NonStream!NotPersisted, NonStream!GenerationFails, NonStream!Crash, NonStream!Fault
    <2>4. CASE NonStream!Return(d)
        BY <2>4 DEF NonStream!Return, NonStream!ResultOf
    <2> QED BY <2>1, <2>2, <2>3, <2>4 DEF ReplyRun
<1>2. /\ UNCHANGED web /\ \A e \in D : e # d => run'[e] = run[e]
      /\ run[d] = "ended" => run'[d] = "ended"
      /\ status = "succeeded" => UNCHANGED <<status, answer>>
    <2>1. CASE NonStream!Take(d) \/ NonStream!Claim(d) \/ NonStream!Settle(d)
        BY <2>1 DEF NonStream!Take, NonStream!Claim, NonStream!Settle, NonStream!Claimable
    <2>2. CASE NonStream!PersistFailure(d) \/ NonStream!WriteMarker(d) \/ NonStream!Redispatch(d)
        BY <2>2 DEF NonStream!PersistFailure, NonStream!WriteMarker, NonStream!Redispatch
    <2>3. CASE NonStream!NotPersisted(d) \/ NonStream!GenerationFails(d) \/ NonStream!Crash(d) \/ NonStream!Return(d)
        BY <2>3 DEF NonStream!NotPersisted, NonStream!GenerationFails, NonStream!Crash, NonStream!Return
    <2> QED BY <2>1, <2>2, <2>3 DEF ReplyRun
<1>3. CASE NonStream!Settle(d)
    <2>1. UNCHANGED result /\ status = "running" /\ run[d] = "run" /\ status' \in {"succeeded", "failed"}
          /\ (status' = "succeeded" => run'[d] = "marker" /\ answer' = d)
          /\ (run'[d] \in {"marker", "answered", "ended"} => status' = "succeeded" /\ answer' = d)
        BY <1>3 DEF NonStream!Settle
    <2>2. AnswersSettled(D)'
        BY <1>2, <2>1 DEF AnswersSettled
    <2>3. (\A c, e \in D : c = e) /\ FailuresSettled(D) => FailuresSettled(D)'
        BY <1>2, <2>1 DEF FailuresSettled
    <2> QED BY <1>1, <2>2, <2>3
<1>4. CASE NonStream!Return(d)
    <2>1. /\ run[d] \in {"answered", "rejected"} /\ run'[d] = "ended" /\ UNCHANGED <<status, answer>>
          /\ \/ UNCHANGED result
             \/ result'.by = d /\ run[d] = "answered" /\ result'.kind = "answer"
             \/ result'.by = d /\ run[d] = "rejected" /\ result'.kind = "error"
        BY <1>4 DEF NonStream!Return, NonStream!ResultOf
    <2>2. AnswersSettled(D)'
        BY <1>2, <2>1 DEF AnswersSettled
    <2>3. (\A c, e \in D : c = e) /\ FailuresSettled(D) => FailuresSettled(D)'
        BY <1>2, <2>1 DEF FailuresSettled
    <2> QED BY <1>1, <2>2, <2>3
<1>5. CASE ~NonStream!Settle(d) /\ ~NonStream!Return(d)
    <2>1. /\ UNCHANGED <<result, answer>> /\ (status' = "succeeded" => status = "succeeded")
          /\ run'[d] \in {"marker", "answered"} => run[d] \in {"marker", "answered"}
          /\ run'[d] \notin {"marker", "answered", "ended"} => run[d] \notin {"marker", "answered", "ended"}
        <3>1. CASE NonStream!Take(d) \/ NonStream!Claim(d)
            BY <3>1 DEF NonStream!Take, NonStream!Claim
        <3>2. CASE NonStream!PersistFailure(d) \/ NonStream!WriteMarker(d) \/ NonStream!Redispatch(d)
            BY <3>2 DEF NonStream!PersistFailure, NonStream!WriteMarker, NonStream!Redispatch
        <3>3. CASE NonStream!NotPersisted(d) \/ NonStream!GenerationFails(d) \/ NonStream!Crash(d)
            BY <3>3 DEF NonStream!NotPersisted, NonStream!GenerationFails, NonStream!Crash
        <3> QED BY <1>5, <3>1, <3>2, <3>3 DEF ReplyRun
    <2>2. AnswersSettled(D)'
        BY <1>2, <2>1 DEF AnswersSettled
    <2>3. FailuresSettled(D) => FailuresSettled(D)'
        BY <1>2, <2>1 DEF FailuresSettled
    <2> QED BY <1>1, <2>2, <2>3
<1> QED BY <1>3, <1>4, <1>5

LEMMA ReplyStep == ASSUME NEW D, ReplyInv(D), ReplyNext(D) PROVE ReplyInv(D)'
<1>1. CASE NonStream!LeaseExpires
    <2>1. /\ status = "running" /\ status' = "failed" /\ sideFaults' \in 0..2
          /\ UNCHANGED <<task, answer, idempotency, queued, run, result, web>>
        BY <1>1 DEF NonStream!LeaseExpires, NonStream!Fault, ReplyInv, ReplyTypes
    <2>2. ReplyTypes(D)'
        BY <2>1 DEF ReplyInv, ReplyTypes, NonStream!Statuses
    <2> QED BY <2>1, <2>2 DEF ReplyInv, AnswersSettled, FailuresSettled
<1> QED BY <1>1, HandlerKeepsReplies, RunKeepsReplies DEF ReplyNext
-----------------------------------------------------------------------------
(***************************************************************************)
(* ChatStream: the chunks the handler has passed on and those in its       *)
(* channel are all that was published, and a done it can read without an   *)
(* error before it is that of a run whose answer is settled.               *)
(***************************************************************************)
EnqueueOneOf(D) ==
    /\ web.pc = "enqueue" /\ web' = [web EXCEPT !.pc = "first"]
    /\ \E d \in D : queued' = {d}
    /\ UNCHANGED <<status, run, published, inbox, sideFaults>>

\* The steps that meet a fault, whatever faults there may still be.
Raising(d) ==
    /\ \/ run[d] \in {"start", "guard", "prepare", "llm", "settle"} /\ run' = [run EXCEPT ![d] = "failing"]
       \/ Stream!Step(d, "failing", "error")
    /\ UNCHANGED <<status, queued, published, inbox, web>>
Cancelling(d) ==
    /\ run[d] \in {"start", "guard", "prepare", "llm", "settle"}
    /\ run' = [run EXCEPT ![d] = "finally"]
    /\ UNCHANGED <<status, queued, published, inbox, web>>
Telling(d) ==
    /\ \/ Stream!Step(d, "error", "finally") /\ Stream!Publish("error")
       \/ Stream!Step(d, "finally", "ended") /\ Stream!Publish("done")
    /\ UNCHANGED <<status, queued, published, web>>
TellingLost(d) ==
    /\ Stream!Step(d, "error", "finally") \/ Stream!Step(d, "finally", "ended")
    /\ UNCHANGED <<status, queued, published, inbox, web>>
LeaseOut ==
    /\ status = "running" /\ status' = "failed"
    /\ UNCHANGED <<queued, run, published, inbox, web>>
Leaving ==
    /\ web.pc \in {"first", "next"} /\ Stream!Close("left")
    /\ UNCHANGED <<status, queued, run, published, inbox>>

\* A step of a run that the handler does not see.
Working(d) ==
    \/ Stream!Take(d) \/ Stream!Claim(d) \/ Stream!Rejected(d) \/ Stream!PassGuard(d) \/ Stream!StopGenerating(d)
    \/ Stream!Settle(d) \/ Stream!SettleRejected(d) \/ Stream!PersistFailure(d) \/ Raising(d) \/ Stream!Redispatch(d)
\* A step of a run that publishes.
Publishing(d) == Stream!PublishStarted(d) \/ Stream!Refuse(d) \/ Stream!Prepare(d) \/ Stream!Generate(d) \/ Telling(d)
Listening(D) ==
    Stream!Subscribe \/ EnqueueOneOf(D) \/ Stream!Read \/ Stream!FirstTimeout \/ Stream!MessageTimeout \/ Leaving

\* All steps of deliveries D; in calm no task is cancelled and no publication lost.
StreamNext(D, calm) ==
    /\ \/ \E d \in D : Working(d) \/ Publishing(d) \/ (~calm /\ (Cancelling(d) \/ TellingLost(d)))
       \/ LeaseOut \/ Listening(D)
    /\ sideFaults' = sideFaults \/ sideFaults' = sideFaults + 1

LEMMA StreamSteps ==
    ASSUME Stream!Next, sideFaults \in 0..2
    PROVE  StreamNext(Deliveries, TRUE) /\ sideFaults' \in 0..2
<1> USE DEF Stream!Fault
<1>1. ASSUME NEW d \in Deliveries, Stream!RunStep(d) \/ Stream!Generate(d) \/ Stream!Raise(d) \/ Stream!Redispatch(d)
                              \/ Stream!PersistenceFails(d)
      PROVE  /\ Working(d) \/ Publishing(d)
             /\ sideFaults' = sideFaults \/ (sideFaults < 2 /\ sideFaults' = sideFaults + 1)
    <2>1. CASE Stream!Take(d) \/ Stream!Claim(d) \/ Stream!Rejected(d) \/ Stream!PassGuard(d) \/ Stream!StopGenerating(d)
                  \/ Stream!Settle(d) \/ Stream!SettleRejected(d) \/ Stream!PersistFailure(d) \/ Stream!Redispatch(d)
        BY <2>1 DEF Working, Stream!Take, Stream!Claim, Stream!Rejected, Stream!PassGuard, Stream!StopGenerating,
                    Stream!Settle, Stream!SettleRejected, Stream!PersistFailure, Stream!Redispatch
    <2>2. CASE Stream!PublishStarted(d) \/ Stream!Refuse(d) \/ Stream!Prepare(d) \/ Stream!Generate(d)
        BY <2>2 DEF Publishing, Stream!PublishStarted, Stream!Refuse, Stream!Prepare, Stream!Generate
    <2>3. CASE Stream!PublishError(d) \/ Stream!PublishDone(d)
        BY <2>3 DEF Publishing, Telling, Stream!PublishError, Stream!PublishDone, Stream!Tell
    <2>4. CASE Stream!Raise(d) \/ Stream!PersistenceFails(d)
        BY <2>4 DEF Working, Raising, Stream!Raise, Stream!PersistenceFails
    <2> QED BY <1>1, <2>1, <2>2, <2>3, <2>4 DEF Stream!RunStep
<1>2. ASSUME Stream!LeaseExpires \/ Stream!WebStep \/ Stream!ClientLeaves
      PROVE  /\ LeaseOut \/ Listening(Deliveries)
             /\ sideFaults' = sideFaults \/ (sideFaults < 2 /\ sideFaults' = sideFaults + 1)
    BY <1>2 DEF LeaseOut, Listening, Leaving, EnqueueOneOf, Stream!LeaseExpires, Stream!WebStep, Stream!ClientLeaves,
                Stream!Subscribe, Stream!Enqueue, Stream!Read, Stream!FirstTimeout, Stream!MessageTimeout
<1>3. \A d \in Deliveries : ~Stream!Cancel(d)
    BY DEF Stream!Cancel
<1> QED BY <1>1, <1>2, <1>3 DEF StreamNext, Stream!Next

LEMMA ToldSteps ==
    ASSUME Told!Next, sideFaults \in 0..3
    PROVE  StreamNext(OneDelivery, FALSE) /\ sideFaults' \in 0..3
<1> USE DEF Told!Fault, Told!Step, Stream!Step, Told!Publish, Stream!Publish, Told!PublishChunk, Stream!PublishChunk,
            Told!Close, Stream!Close, Told!Open, Stream!Open, Told!StillRunning, Stream!StillRunning
<1>1. ASSUME NEW d \in OneDelivery,
             Told!RunStep(d) \/ Told!Generate(d) \/ Told!Raise(d) \/ Told!Cancel(d) \/ Told!Redispatch(d)
                \/ Told!PersistenceFails(d)
      PROVE  /\ Working(d) \/ Publishing(d) \/ Cancelling(d) \/ TellingLost(d)
             /\ sideFaults' = sideFaults \/ (sideFaults < 3 /\ sideFaults' = sideFaults + 1)
    <2>1. CASE Told!Take(d) \/ Told!Claim(d) \/ Told!Rejected(d)
        BY <2>1 DEF Working, Told!Take, Told!Claim, Told!Rejected, Stream!Take, Stream!Claim, Stream!Rejected
    <2>2. CASE Told!PassGuard(d) \/ Told!StopGenerating(d) \/ Told!Redispatch(d)
        BY <2>2 DEF Working, Told!PassGuard, Told!StopGenerating, Told!Redispatch, Stream!PassGuard,
                    Stream!StopGenerating, Stream!Redispatch
    <2>3. CASE Told!Settle(d) \/ Told!SettleRejected(d) \/ Told!PersistFailure(d)
        BY <2>3 DEF Working, Told!Settle, Told!SettleRejected, Told!PersistFailure, Stream!Settle,
                    Stream!SettleRejected, Stream!PersistFailure
    <2>4. CASE Told!PublishStarted(d) \/ Told!Refuse(d) \/ Told!Prepare(d) \/ Told!Generate(d)
        BY <2>4 DEF Publishing, Told!PublishStarted, Told!Refuse, Told!Prepare, Told!Generate,
                    Stream!PublishStarted, Stream!Refuse, Stream!Prepare, Stream!Generate
    <2>5. CASE Told!PublishError(d) \/ Told!PublishDone(d)
        BY <2>5 DEF Publishing, Telling, TellingLost, Told!PublishError, Told!PublishDone, Told!Tell
    <2>6. CASE Told!Raise(d) \/ Told!PersistenceFails(d) \/ Told!Cancel(d)
        BY <2>6 DEF Working, Raising, Cancelling, Told!Raise, Told!PersistenceFails, Told!Cancel
    <2> QED BY <1>1, <2>1, <2>2, <2>3, <2>4, <2>5, <2>6 DEF Told!RunStep
<1>2. ASSUME Told!LeaseExpires \/ Told!WebStep \/ Told!ClientLeaves
      PROVE  /\ LeaseOut \/ Listening(OneDelivery)
             /\ sideFaults' = sideFaults \/ (sideFaults < 3 /\ sideFaults' = sideFaults + 1)
    <2>1. CASE Told!LeaseExpires \/ Told!ClientLeaves
        BY <2>1 DEF LeaseOut, Listening, Leaving, Told!LeaseExpires, Told!ClientLeaves
    <2>2. CASE Told!Subscribe \/ Told!Enqueue
        BY <2>2 DEF Listening, EnqueueOneOf, Told!Subscribe, Told!Enqueue, Stream!Subscribe
    <2>3. CASE Told!Read
        BY <2>3 DEF Listening, Told!Read, Stream!Read, Told!React, Stream!React, Told!Pass, Stream!Pass,
                    Told!DoneFirst, Stream!DoneFirst
    <2>4. CASE Told!FirstTimeout \/ Told!MessageTimeout
        BY <2>4 DEF Listening, Told!FirstTimeout, Told!MessageTimeout, Stream!FirstTimeout, Stream!MessageTimeout
    <2> QED BY <1>2, <2>1, <2>2, <2>3, <2>4 DEF Told!WebStep
<1> QED BY <1>1, <1>2 DEF StreamNext, Told!Next

Generating == {"start", "guard", "prepare", "llm", "settle", "failing"}

StreamTypes(D) ==
    /\ status \in {"queued", "running", "succeeded", "failed"} /\ queued \subseteq D
    /\ run \in [D -> Stream!Pc] /\ published \in 0..MaxEvents /\ inbox \in Seq(Stream!Event) /\ web \in Stream!Web

\* The claim lets one delivery run, and none when the attempt is not claimed or its answer is settled.
OneGenerates(D) ==
    \A d \in D : run[d] \in Generating => /\ status \in {"running", "failed"}
                                          /\ \A e \in D : run[e] \in Generating => d = e

Reading == web.pc \in {"first", "next"}

\* How far the handler is.
HandlerIs(D) ==
    /\ web.pc \in {"subscribe", "enqueue"} =>
          /\ status = "queued" /\ \A d \in D : run[d] = "waiting"
          /\ queued = {} /\ inbox = <<>> /\ published = 0 /\ web.chunks = 0 /\ ~web.done
    /\ web.pc # "closed" => web.ending = "none"
    /\ web.pc \in {"enqueue", "first", "next"} => web.subscribed
    /\ Reading => (web.pc = "next" <=> web.chunks > 0)

\* After each event in the channel, the chunks up to there.
Counts(n) ==
    /\ n[0] = web.chunks /\ n[Len(inbox)] = published
    /\ \A i \in 1..Len(inbox) : n[i] = n[i - 1] + IF inbox[i] = "chunk" THEN 1 ELSE 0
ErrorBefore(i) == \E j \in 1..Len(inbox) : j < i /\ inbox[j] = "error"
DoneIsTrue(n) ==
    \A i \in 1..Len(inbox) : inbox[i] = "done" => ErrorBefore(i) \/ (status = "succeeded" /\ n[i] = published)
InboxTrue(calm) == Reading => \E n \in [0..Len(inbox) -> 0..published] : Counts(n) /\ (calm => DoneIsTrue(n))

\* A done that was read, that will be published next, or that has ended the stream.
DoneHeld(D) ==
    /\ Reading /\ web.done => status = "succeeded" /\ published = web.chunks
    /\ \A d \in D : Reading /\ run[d] = "finally" => status = "succeeded" \/ ErrorBefore(Len(inbox) + 1)
    /\ web.ending = "finished" => status = "succeeded" /\ web.chunks > 0 /\ web.chunks = published

\* No run is left to answer the attempt.
Unanswerable(D) == status \in {"running", "failed"} /\ \A d \in D : run[d] \in {"finally", "ended"}

\* One delivery: its errors are of an attempt that no run answers any more.
ErrorsHeld(D) ==
    /\ \A d \in D : /\ run[d] \in {"waiting", "claim"} => status = "queued"
                    /\ run[d] = "error" => status \in {"running", "failed"}
    /\ \A i \in 1..Len(inbox) : inbox[i] = "error" => Unanswerable(D)
    /\ web.ending = "error" => Unanswerable(D)

StreamInv(D, calm) ==
    /\ StreamTypes(D) /\ OneGenerates(D) /\ HandlerIs(D) /\ InboxTrue(calm)
    /\ calm => DoneHeld(D)
    /\ (\A d, e \in D : d = e) => ErrorsHeld(D)

LEMMA StreamInit ==
    /\ SideAssumption /\ Stream!Init => StreamInv(Deliveries, TRUE)
    /\ SideAssumption /\ Told!Init => StreamInv(OneDelivery, FALSE)
<1> USE DEF SideAssumption, StreamInv, StreamTypes, OneGenerates, Generating, HandlerIs, Reading, InboxTrue, DoneHeld, ErrorsHeld,
            Stream!StreamAssumption, Stream!Pc, Stream!Web, Stream!Ending
<1>1. SideAssumption /\ Stream!Init => StreamInv(Deliveries, TRUE)
    BY DEF Stream!Init
<1>2. SideAssumption /\ Told!Init => StreamInv(OneDelivery, FALSE)
    BY DEF Told!Init
<1> QED BY <1>1, <1>2

\* What one more event at the end of the channel, or one less at its head, leaves there.
LEMMA OneMore ==
    ASSUME NEW S, NEW s \in Seq(S), NEW e \in S
    PROVE  /\ Append(s, e) \in Seq(S) /\ Len(Append(s, e)) = Len(s) + 1 /\ Append(s, e)[Len(s) + 1] = e
           /\ Len(s) \in Nat /\ \A i \in 1..Len(s) : Append(s, e)[i] = s[i]
BY AppendProperties, LenProperties

LEMMA OneLess ==
    ASSUME NEW S, NEW s \in Seq(S), s # <<>>
    PROVE  /\ Tail(s) \in Seq(S) /\ Len(Tail(s)) = Len(s) - 1 /\ Len(s) \in Nat \ {0} /\ Head(s) = s[1] /\ Head(s) \in S
           /\ \A i \in 1..Len(Tail(s)) : Tail(s)[i] = s[i + 1]
BY HeadTailProperties, LenProperties, EmptySeq

\* An event that is published while the handler reads.
LEMMA PublishHeard ==
    ASSUME NEW D, NEW calm \in BOOLEAN, StreamTypes(D), InboxTrue(calm), Reading, UNCHANGED web, NEW e \in Stream!Event,
           inbox' = Append(inbox, e), published' = published + (IF e = "chunk" THEN 1 ELSE 0),
           status = "succeeded" => status' = "succeeded" /\ e # "chunk",
           calm /\ e = "done" => status' = "succeeded" \/ ErrorBefore(Len(inbox) + 1)
    PROVE  InboxTrue(calm)'
<1>0. published \in Nat /\ inbox \in Seq(Stream!Event)
    BY DEF StreamTypes
<1>1. PICK n \in [0..Len(inbox) -> 0..published] : Counts(n) /\ (calm => DoneIsTrue(n))
    BY DEF InboxTrue
<1> DEFINE new == [i \in 0..(Len(inbox) + 1) |-> IF i = Len(inbox) + 1 THEN published' ELSE n[i]]
<1>2. /\ inbox' \in Seq(Stream!Event) /\ Len(inbox') = Len(inbox) + 1 /\ inbox'[Len(inbox) + 1] = e
      /\ Len(inbox) \in Nat /\ \A i \in 1..Len(inbox) : inbox'[i] = inbox[i]
    BY <1>0, OneMore
<1>3. new \in [0..Len(inbox') -> 0..published']
    BY <1>0, <1>1, <1>2
<1>4. new[0] = n[0] /\ new[Len(inbox) + 1] = published' /\ \A i \in 0..Len(inbox) : new[i] = n[i]
    BY <1>2
<1> HIDE DEF new
<1>5. /\ new[0] = web'.chunks /\ new[Len(inbox')] = published'
      /\ \A i \in 1..Len(inbox') : new[i] = new[i - 1] + IF inbox'[i] = "chunk" THEN 1 ELSE 0
    <2>1. ASSUME NEW i \in 1..Len(inbox) PROVE new[i] = new[i - 1] + IF inbox'[i] = "chunk" THEN 1 ELSE 0
        <3>1. i - 1 \in 0..Len(inbox) /\ i \in 0..Len(inbox)
            BY <1>2
        <3> QED BY <1>1, <1>2, <1>4, <3>1 DEF Counts
    <2>2. new[Len(inbox) + 1] = new[Len(inbox)] + IF inbox'[Len(inbox) + 1] = "chunk" THEN 1 ELSE 0
        BY <1>0, <1>1, <1>2, <1>4 DEF Counts
    <2>3. new[0] = web'.chunks
        BY <1>1, <1>4 DEF Counts
    <2>4. ASSUME NEW i \in 1..Len(inbox') PROVE new[i] = new[i - 1] + IF inbox'[i] = "chunk" THEN 1 ELSE 0
        <3>1. CASE i = Len(inbox) + 1
            <4>1. i - 1 = Len(inbox)
                BY <1>2, <3>1
            <4> QED BY <2>2, <3>1, <4>1
        <3>2. CASE i \in 1..Len(inbox)
            BY <2>1, <3>2
        <3> QED BY <1>2, <3>1, <3>2
    <2> QED BY <1>2, <1>4, <2>3, <2>4
<1>6. ASSUME calm, NEW i \in 1..Len(inbox'), inbox'[i] = "done"
      PROVE  (\E j \in 1..Len(inbox') : j < i /\ inbox'[j] = "error") \/ (status' = "succeeded" /\ new[i] = published')
    <2>1. CASE i = Len(inbox) + 1
        BY <1>2, <1>4, <1>6, <2>1 DEF ErrorBefore
    <2>2. CASE i \in 1..Len(inbox)
        <3>1. ErrorBefore(i) \/ (status = "succeeded" /\ n[i] = published)
            BY <1>1, <1>2, <1>6, <2>2 DEF DoneIsTrue
        <3>2. CASE ErrorBefore(i)
            BY <1>2, <3>2 DEF ErrorBefore
        <3>3. CASE status = "succeeded" /\ n[i] = published
            BY <1>0, <1>2, <1>4, <2>2, <3>3
        <3> QED BY <3>1, <3>2, <3>3
    <2> QED BY <1>2, <2>1, <2>2
<1> QED BY <1>3, <1>5, <1>6 DEF InboxTrue, Counts, DoneIsTrue, ErrorBefore

\* An event that is read, and is no error.
LEMMA ReadHeard ==
    ASSUME NEW D, NEW calm \in BOOLEAN, StreamTypes(D), InboxTrue(calm), Reading, inbox # <<>>, Head(inbox) # "error",
           inbox' = Tail(inbox), UNCHANGED <<status, published>>,
           web'.chunks = web.chunks + IF Head(inbox) = "chunk" THEN 1 ELSE 0
    PROVE  /\ InboxTrue(calm)' /\ web'.chunks \in 0..published
           /\ calm /\ Head(inbox) = "done" => status = "succeeded" /\ published = web.chunks
<1>0. published \in Nat /\ inbox \in Seq(Stream!Event)
    BY DEF StreamTypes
<1>1. PICK n \in [0..Len(inbox) -> 0..published] : Counts(n) /\ (calm => DoneIsTrue(n))
    BY DEF InboxTrue
<1> DEFINE new == [i \in 0..(Len(inbox) - 1) |-> n[i + 1]]
<1>2. /\ Len(inbox') = Len(inbox) - 1 /\ Len(inbox) \in Nat \ {0} /\ Head(inbox) = inbox[1]
      /\ \A i \in 1..Len(inbox') : inbox'[i] = inbox[i + 1]
    BY <1>0, OneLess
<1>3. new \in [0..Len(inbox') -> 0..published']
    BY <1>0, <1>1, <1>2
<1>4. \A i \in 0..Len(inbox') : new[i] = n[i + 1]
    BY <1>2
<1> HIDE DEF new
<1>5. n[1] = web'.chunks /\ n[0] = web.chunks
    BY <1>1, <1>2 DEF Counts
<1>6. /\ new[0] = web'.chunks /\ new[Len(inbox')] = published'
      /\ \A i \in 1..Len(inbox') : new[i] = new[i - 1] + IF inbox'[i] = "chunk" THEN 1 ELSE 0
    <2>1. ASSUME NEW i \in 1..Len(inbox') PROVE new[i] = new[i - 1] + IF inbox'[i] = "chunk" THEN 1 ELSE 0
        <3>1. i - 1 \in 0..Len(inbox') /\ i \in 0..Len(inbox') /\ i + 1 \in 1..Len(inbox) /\ (i - 1) + 1 = i /\ (i + 1) - 1 = i
            BY <1>2
        <3>2. n[i + 1] = n[(i + 1) - 1] + IF inbox[i + 1] = "chunk" THEN 1 ELSE 0
            BY <1>1, <3>1 DEF Counts
        <3>3. new[i] = n[i + 1] /\ new[i - 1] = n[i]
            BY <1>4, <3>1
        <3> QED BY <1>2, <3>1, <3>2, <3>3
    <2>2. new[Len(inbox')] = published'
        BY <1>1, <1>2, <1>4 DEF Counts
    <2> QED BY <1>2, <1>4, <1>5, <2>1, <2>2
<1>7. ASSUME calm, NEW i \in 1..Len(inbox'), inbox'[i] = "done"
      PROVE  (\E j \in 1..Len(inbox') : j < i /\ inbox'[j] = "error") \/ (status' = "succeeded" /\ new[i] = published')
    <2>1. i + 1 \in 1..Len(inbox) /\ inbox[i + 1] = "done" /\ new[i] = n[i + 1]
        BY <1>2, <1>4, <1>7
    <2>2. ErrorBefore(i + 1) \/ (status = "succeeded" /\ n[i + 1] = published)
        BY <1>1, <1>7, <2>1 DEF DoneIsTrue
    <2>3. ASSUME NEW k \in 1..Len(inbox), k < i + 1, inbox[k] = "error"
          PROVE  \E j \in 1..Len(inbox') : j < i /\ inbox'[j] = "error"
        <3>1. k # 1
            BY <1>2, <2>3
        <3>2. k - 1 \in 1..Len(inbox') /\ k - 1 < i /\ (k - 1) + 1 = k
            BY <1>2, <2>1, <2>3, <3>1
        <3>3. inbox'[k - 1] = "error"
            BY <1>2, <2>3, <3>2
        <3> QED BY <3>2, <3>3
    <2> QED BY <2>1, <2>2, <2>3 DEF ErrorBefore
<1>8. InboxTrue(calm)'
    BY <1>3, <1>6, <1>7 DEF InboxTrue, Counts, DoneIsTrue, ErrorBefore
<1>9. web'.chunks \in 0..published
    BY <1>1, <1>2, <1>5
<1>10. ASSUME calm, Head(inbox) = "done" PROVE status = "succeeded" /\ published = web.chunks
    <2>1. ~ErrorBefore(1)
        BY <1>2 DEF ErrorBefore
    <2>2. status = "succeeded" /\ n[1] = published
        BY <1>1, <1>2, <1>10, <2>1 DEF DoneIsTrue
    <2> QED BY <1>0, <1>5, <1>10, <2>2 DEF StreamTypes, Stream!Web
<1> QED BY <1>8, <1>9, <1>10

\* What a step of a delivery does to its attempt and its own place.
LEMMA RunEffect ==
    ASSUME NEW D, StreamTypes(D), NEW d \in D, Working(d) \/ Publishing(d) \/ Cancelling(d) \/ TellingLost(d)
    PROVE  /\ UNCHANGED web /\ run' \in [D -> Stream!Pc] /\ queued' \subseteq D
           /\ \A e \in D : e # d => run'[e] = run[e]
           /\ \/ UNCHANGED status /\ (run'[d] \in Generating => run[d] \in Generating)
              \/ status = "queued" /\ status' = "running" /\ run[d] = "claim" /\ run'[d] = "start"
              \/ status = "running" /\ status' = "succeeded" /\ run[d] = "settle" /\ run'[d] = "finally"
              \/ status = "running" /\ status' = "failed" /\ run[d] \in {"settle", "failing"} /\ run'[d] = "error"
<1> USE DEF StreamTypes, Stream!Pc, Generating, Stream!Step
<1>1. CASE Stream!Take(d) \/ Stream!Claim(d) \/ Stream!Rejected(d) \/ Stream!PassGuard(d)
    BY <1>1 DEF Stream!Take, Stream!Claim, Stream!Rejected, Stream!PassGuard, Stream!Open
<1>2. CASE Stream!StopGenerating(d) \/ Stream!SettleRejected(d) \/ Raising(d) \/ Stream!Redispatch(d)
    BY <1>2 DEF Stream!StopGenerating, Stream!SettleRejected, Raising, Stream!Redispatch
<1>3. CASE Stream!Settle(d) \/ Stream!PersistFailure(d)
    BY <1>3 DEF Stream!Settle, Stream!PersistFailure, Stream!StillRunning
<1>4. CASE Stream!PublishStarted(d) \/ Stream!Refuse(d) \/ Stream!Prepare(d) \/ Stream!Generate(d)
    BY <1>4 DEF Stream!PublishStarted, Stream!Refuse, Stream!Prepare, Stream!Generate
<1>5. CASE Telling(d) \/ Cancelling(d) \/ TellingLost(d)
    BY <1>5 DEF Telling, Cancelling, TellingLost
<1> QED BY <1>1, <1>2, <1>3, <1>4, <1>5 DEF Working, Publishing

\* What it publishes.
LEMMA PublishEffect ==
    ASSUME NEW D, StreamTypes(D), NEW d \in D, Publishing(d)
    PROVE  \/ UNCHANGED <<inbox, published, status>> /\ run[d] = "prepare" /\ run'[d] = "llm"
           \/ /\ UNCHANGED status
              /\ \E e \in Stream!Event :
                    /\ Stream!Publish(e) /\ published' = published + (IF e = "chunk" THEN 1 ELSE 0)
                    /\ e = "chunk" => published < MaxEvents /\ run[d] \in Generating /\ run'[d] \in Generating
                    /\ e = "done" => run[d] = "finally" /\ run'[d] = "ended"
                    /\ e = "error" => run[d] = "error" /\ run'[d] = "finally"
                    /\ e \in {"started", "step"} => run'[d] \in Generating
<1> USE DEF StreamTypes, Stream!Pc, Generating, Stream!Step, Stream!Event
<1>1. CASE Stream!PublishStarted(d) \/ Stream!Prepare(d)
    BY <1>1 DEF Stream!PublishStarted, Stream!Prepare
<1>2. CASE Stream!Refuse(d) \/ Stream!Generate(d)
    BY <1>2 DEF Stream!Refuse, Stream!Generate, Stream!PublishChunk
<1>3. CASE Telling(d)
    BY <1>3 DEF Telling
<1> QED BY <1>1, <1>2, <1>3 DEF Publishing

SettledStays == status \in {"succeeded", "failed"} => UNCHANGED status

\* What holds of a delivery's step in any case: its part in the attempt, and that the handler waits for it.
LEMMA RunStays ==
    ASSUME NEW D, NEW calm \in BOOLEAN, StreamInv(D, calm), NEW d \in D,
           Working(d) \/ Publishing(d) \/ Cancelling(d) \/ TellingLost(d)
    PROVE  /\ OneGenerates(D)' /\ HandlerIs(D)' /\ SettledStays
           /\ web.pc \notin {"subscribe", "enqueue"}
           /\ \A e \in D : run'[e] \in {"waiting", "claim"} => run[e] \in {"waiting", "claim"}
           /\ run'[d] = "error" => run[d] = "error" \/ status' \in {"running", "failed"}
                                     \/ (run[d] = "claim" /\ status # "queued")
           /\ run[d] \in {"finally", "ended"} => run'[d] \in {"finally", "ended"}
<1> USE DEF StreamInv
<1>1. web.pc \notin {"subscribe", "enqueue"}
    <2>1. web.pc \in {"subscribe", "enqueue"} => run[d] = "waiting" /\ queued = {}
        BY DEF HandlerIs
    <2> USE DEF Stream!Step
    <2>2. CASE Stream!Take(d) \/ Stream!Claim(d) \/ Stream!Rejected(d) \/ Stream!PassGuard(d) \/ Stream!StopGenerating(d)
        BY <2>1, <2>2 DEF Stream!Take, Stream!Claim, Stream!Rejected, Stream!PassGuard, Stream!StopGenerating
    <2>3. CASE Stream!Settle(d) \/ Stream!SettleRejected(d) \/ Stream!PersistFailure(d) \/ Raising(d) \/ Stream!Redispatch(d)
        BY <2>1, <2>3 DEF Stream!Settle, Stream!SettleRejected, Stream!PersistFailure, Raising, Stream!Redispatch
    <2>4. CASE Stream!PublishStarted(d) \/ Stream!Refuse(d) \/ Stream!Prepare(d) \/ Stream!Generate(d)
        BY <2>1, <2>4 DEF Stream!PublishStarted, Stream!Refuse, Stream!Prepare, Stream!Generate
    <2>5. CASE Telling(d) \/ Cancelling(d) \/ TellingLost(d)
        BY <2>1, <2>5 DEF Telling, Cancelling, TellingLost
    <2> QED BY <2>2, <2>3, <2>4, <2>5 DEF Working, Publishing
<1>2. OneGenerates(D)'
    BY RunEffect DEF OneGenerates, Generating
<1>3. HandlerIs(D)'
    BY <1>1, RunEffect DEF HandlerIs, Reading
<1>4. SettledStays
    BY RunEffect DEF SettledStays
<1>5. \A e \in D : run'[e] \in {"waiting", "claim"} => run[e] \in {"waiting", "claim"}
    <2> USE DEF StreamTypes, Stream!Step
    <2>1. CASE Stream!Take(d) \/ Stream!Claim(d) \/ Stream!Rejected(d) \/ Stream!PassGuard(d) \/ Stream!StopGenerating(d)
        BY <2>1 DEF Stream!Take, Stream!Claim, Stream!Rejected, Stream!PassGuard, Stream!StopGenerating
    <2>2. CASE Stream!Settle(d) \/ Stream!SettleRejected(d) \/ Stream!PersistFailure(d) \/ Raising(d) \/ Stream!Redispatch(d)
        BY <2>2 DEF Stream!Settle, Stream!SettleRejected, Stream!PersistFailure, Raising, Stream!Redispatch
    <2>3. CASE Stream!PublishStarted(d) \/ Stream!Refuse(d) \/ Stream!Prepare(d) \/ Stream!Generate(d)
        BY <2>3 DEF Stream!PublishStarted, Stream!Refuse, Stream!Prepare, Stream!Generate
    <2>4. CASE Telling(d) \/ Cancelling(d) \/ TellingLost(d)
        BY <2>4 DEF Telling, Cancelling, TellingLost
    <2> QED BY <2>1, <2>2, <2>3, <2>4 DEF Working, Publishing
<1>6. run'[d] = "error" => run[d] = "error" \/ status' \in {"running", "failed"}
                              \/ (run[d] = "claim" /\ status # "queued")
    <2> USE DEF StreamTypes, Stream!Step
    <2>1. CASE Stream!Take(d) \/ Stream!Claim(d) \/ Stream!Rejected(d) \/ Stream!PassGuard(d) \/ Stream!StopGenerating(d)
        BY <2>1 DEF Stream!Take, Stream!Claim, Stream!Rejected, Stream!Open, Stream!PassGuard, Stream!StopGenerating
    <2>2. CASE Stream!Settle(d) \/ Stream!SettleRejected(d) \/ Stream!PersistFailure(d) \/ Raising(d) \/ Stream!Redispatch(d)
        BY <2>2 DEF Stream!Settle, Stream!SettleRejected, Stream!StillRunning, Stream!PersistFailure, Raising,
                    Stream!Redispatch, OneGenerates, Generating
    <2>3. CASE Stream!PublishStarted(d) \/ Stream!Refuse(d) \/ Stream!Prepare(d) \/ Stream!Generate(d)
        BY <2>3 DEF Stream!PublishStarted, Stream!Refuse, Stream!Prepare, Stream!Generate
    <2>4. CASE Telling(d) \/ Cancelling(d) \/ TellingLost(d)
        BY <2>4 DEF Telling, Cancelling, TellingLost
    <2> QED BY <2>1, <2>2, <2>3, <2>4 DEF Working, Publishing
<1>7. run[d] \in {"finally", "ended"} => run'[d] \in {"finally", "ended"}
    <2> USE DEF StreamTypes, Stream!Step
    <2>1. CASE Stream!Take(d) \/ Stream!Claim(d) \/ Stream!Rejected(d) \/ Stream!PassGuard(d) \/ Stream!StopGenerating(d)
        BY <2>1 DEF Stream!Take, Stream!Claim, Stream!Rejected, Stream!PassGuard, Stream!StopGenerating
    <2>2. CASE Stream!Settle(d) \/ Stream!SettleRejected(d) \/ Stream!PersistFailure(d) \/ Raising(d) \/ Stream!Redispatch(d)
        BY <2>2 DEF Stream!Settle, Stream!SettleRejected, Stream!PersistFailure, Raising, Stream!Redispatch
    <2>3. CASE Stream!PublishStarted(d) \/ Stream!Refuse(d) \/ Stream!Prepare(d) \/ Stream!Generate(d)
        BY <2>3 DEF Stream!PublishStarted, Stream!Refuse, Stream!Prepare, Stream!Generate
    <2>4. CASE Telling(d) \/ Cancelling(d) \/ TellingLost(d)
        BY <2>4 DEF Telling, Cancelling, TellingLost
    <2> QED BY <2>1, <2>2, <2>3, <2>4 DEF Working, Publishing
<1> QED BY <1>1, <1>2, <1>3, <1>4, <1>5, <1>6, <1>7

\* Steps the channel does not see.
LEMMA SilentStep ==
    ASSUME NEW D, NEW calm \in BOOLEAN, StreamInv(D, calm), NEW d \in D,
           Working(d) \/ (~calm /\ (Cancelling(d) \/ TellingLost(d)))
    PROVE  StreamInv(D, calm)' /\ SettledStays
<1> USE DEF StreamInv
<1>1. UNCHANGED <<inbox, published>> /\ (calm /\ run'[d] = "finally" => run[d] = "finally" \/ status' = "succeeded")
    <2> USE DEF StreamTypes, Stream!Step
    <2>1. CASE Stream!Take(d) \/ Stream!Claim(d) \/ Stream!Rejected(d) \/ Stream!PassGuard(d) \/ Stream!StopGenerating(d)
        BY <2>1 DEF Stream!Take, Stream!Claim, Stream!Rejected, Stream!PassGuard, Stream!StopGenerating
    <2>2. CASE Stream!Settle(d) \/ Stream!SettleRejected(d) \/ Stream!PersistFailure(d) \/ Raising(d) \/ Stream!Redispatch(d)
        BY <2>2 DEF Stream!Settle, Stream!SettleRejected, Stream!PersistFailure, Raising, Stream!Redispatch
    <2>3. CASE ~calm /\ (Cancelling(d) \/ TellingLost(d))
        BY <2>3 DEF Cancelling, TellingLost
    <2> QED BY <2>1, <2>2, <2>3 DEF Working
<1>2. UNCHANGED web /\ run' \in [D -> Stream!Pc] /\ queued' \subseteq D /\ (status = "succeeded" => status' = "succeeded")
      /\ status' \in {"queued", "running", "succeeded", "failed"}
      /\ \A e \in D : e # d => run'[e] = run[e]
    BY RunEffect DEF StreamTypes
<1>3. StreamTypes(D)'
    BY <1>1, <1>2 DEF StreamTypes
<1>4. OneGenerates(D)' /\ HandlerIs(D)' /\ SettledStays
    BY RunStays
<1>5. InboxTrue(calm)'
    BY <1>1, <1>2 DEF InboxTrue, Reading, Counts, DoneIsTrue, ErrorBefore
<1>6. calm => DoneHeld(D)'
    BY <1>1, <1>2 DEF DoneHeld, Reading, ErrorBefore
<1>7. ASSUME \A c, e \in D : c = e PROVE ErrorsHeld(D)'
    <2>1. ErrorsHeld(D) /\ \A e \in D : e = d
        BY <1>7
    <2>2. run'[d] \in {"waiting", "claim"} => status' = "queued"
        BY <2>1, RunEffect, RunStays DEF ErrorsHeld
    <2>3. run'[d] = "error" => status' \in {"running", "failed"}
        BY <2>1, <1>4, RunEffect, RunStays DEF ErrorsHeld, SettledStays, StreamTypes
    <2>4. Unanswerable(D) => Unanswerable(D)'
        BY <2>1, <1>4, RunEffect, RunStays DEF Unanswerable, SettledStays
    <2> QED BY <1>1, <1>2, <2>1, <2>2, <2>3, <2>4 DEF ErrorsHeld
<1> QED BY <1>3, <1>4, <1>5, <1>6, <1>7

\* Steps that publish.
LEMMA PublishStep ==
    ASSUME NEW D, NEW calm \in BOOLEAN, StreamInv(D, calm), MaxEvents \in Nat, NEW d \in D, Publishing(d)
    PROVE  StreamInv(D, calm)' /\ SettledStays
<1> USE DEF StreamInv
<1>1. UNCHANGED <<web, status>> /\ run' \in [D -> Stream!Pc] /\ queued' \subseteq D
      /\ \A e \in D : e # d => run'[e] = run[e]
    BY RunEffect, PublishEffect
<1>2. OneGenerates(D)' /\ HandlerIs(D)' /\ SettledStays /\ web.pc \notin {"subscribe", "enqueue"}
    BY RunStays
<1>3. CASE UNCHANGED <<inbox, published>> /\ run'[d] = "llm"
    <2>1. StreamTypes(D)' /\ InboxTrue(calm)' /\ (calm => DoneHeld(D)')
        BY <1>1, <1>3 DEF StreamTypes, InboxTrue, Reading, Counts, DoneIsTrue, ErrorBefore, DoneHeld
    <2>2. ASSUME \A c, e \in D : c = e PROVE ErrorsHeld(D)'
        <3>1. ErrorsHeld(D) /\ \A e \in D : e = d
            BY <2>2
        <3>2. Unanswerable(D) => Unanswerable(D)'
            BY <1>1, <3>1, RunStays DEF Unanswerable
        <3> QED BY <1>1, <1>3, <3>1, <3>2 DEF ErrorsHeld
    <2> QED BY <1>2, <2>1, <2>2
<1>4. ASSUME NEW e \in Stream!Event, Stream!Publish(e), published' = published + (IF e = "chunk" THEN 1 ELSE 0),
             e = "chunk" => published < MaxEvents /\ run[d] \in Generating /\ run'[d] \in Generating,
             e = "done" => run[d] = "finally" /\ run'[d] = "ended", e = "error" => run[d] = "error" /\ run'[d] = "finally",
             e \in {"started", "step"} => run'[d] \in Generating
      PROVE  StreamInv(D, calm)'
    <2>1. /\ inbox \in Seq(Stream!Event) /\ inbox' \in Seq(Stream!Event) /\ published' \in 0..MaxEvents /\ Len(inbox) \in Nat
          /\ inbox' = inbox \/ (Len(inbox') = Len(inbox) + 1 /\ inbox'[Len(inbox) + 1] = e
                                   /\ \A i \in 1..Len(inbox) : inbox'[i] = inbox[i])
          /\ Reading => inbox' = Append(inbox, e)
        BY <1>4, OneMore DEF StreamTypes, Stream!Publish, HandlerIs, Reading
    <2>2. StreamTypes(D)'
        BY <1>1, <2>1 DEF StreamTypes
    <2>3. status = "succeeded" => e # "chunk" /\ published' = published
        BY <1>4 DEF OneGenerates, StreamTypes
    <2>4. InboxTrue(calm)'
        <3>1. CASE Reading
            <4>1. calm /\ e = "done" => status' = "succeeded" \/ ErrorBefore(Len(inbox) + 1)
                BY <1>1, <1>4, <3>1 DEF DoneHeld
            <4> QED BY <1>1, <1>4, <2>1, <2>3, <3>1, <4>1, PublishHeard
        <3>2. CASE ~Reading
            BY <1>1, <3>2 DEF InboxTrue, Reading
        <3> QED BY <3>1, <3>2
    <2>5. ASSUME calm PROVE DoneHeld(D)'
        <3>0. DoneHeld(D)
            BY <2>5
        <3>1. Reading /\ web.done => status' = "succeeded" /\ published' = web'.chunks
            BY <1>1, <2>3, <3>0 DEF DoneHeld
        <3>2. web.ending = "finished" => status' = "succeeded" /\ web'.chunks > 0 /\ web'.chunks = published'
            BY <1>1, <2>3, <3>0 DEF DoneHeld
        <3>3. ASSUME NEW c \in D, Reading, run'[c] = "finally"
              PROVE  status' = "succeeded" \/ \E j \in 1..Len(inbox') : j < Len(inbox') + 1 /\ inbox'[j] = "error"
            <4>1. Len(inbox') = Len(inbox) + 1 /\ inbox'[Len(inbox) + 1] = e /\ \A i \in 1..Len(inbox) : inbox'[i] = inbox[i]
                BY <2>1, <3>3, OneMore
            <4>2. CASE run[c] = "finally"
                BY <1>1, <2>1, <3>0, <3>3, <4>1, <4>2 DEF DoneHeld, ErrorBefore
            <4>3. CASE run[c] # "finally"
                <5>1. e = "error"
                    BY <1>1, <1>4, <3>3, <4>3 DEF Generating, Stream!Event
                <5> QED BY <2>1, <4>1, <5>1
            <4> QED BY <4>2, <4>3
        <3> QED BY <1>1, <3>1, <3>2, <3>3 DEF DoneHeld, Reading, ErrorBefore
    <2>6. ASSUME \A c, b \in D : c = b PROVE ErrorsHeld(D)'
        <3>1. ErrorsHeld(D) /\ \A c \in D : c = d
            BY <2>6
        <3>2. run'[d] \notin {"waiting", "claim"} /\ run'[d] # "error"
            BY <1>4 DEF Generating, Stream!Event
        <3>3. Unanswerable(D) => Unanswerable(D)'
            BY <1>1, <3>1, RunStays DEF Unanswerable
        <3>4. \A i \in 1..Len(inbox') : inbox'[i] = "error" => Unanswerable(D)'
            <4>1. e = "error" => Unanswerable(D)'
                BY <1>1, <1>4, <3>1 DEF ErrorsHeld, Unanswerable
            <4> QED BY <2>1, <3>1, <3>3, <4>1 DEF ErrorsHeld
        <3> QED BY <1>1, <3>1, <3>2, <3>3, <3>4 DEF ErrorsHeld
    <2> QED BY <1>2, <2>2, <2>4, <2>5, <2>6
<1> QED BY <1>2, <1>3, <1>4, PublishEffect

\* The steps of the handler before it reads, and those that close its stream unread.
LEMMA TurnStep ==
    ASSUME NEW D, NEW calm \in BOOLEAN, StreamInv(D, calm), MaxEvents \in Nat,
           \/ Stream!Subscribe \/ EnqueueOneOf(D)
           \/ Stream!FirstTimeout \/ Stream!MessageTimeout \/ Leaving
    PROVE  StreamInv(D, calm)' /\ SettledStays
<1> USE DEF StreamInv, Reading
<1>1. UNCHANGED <<status, run, published, inbox>> /\ SettledStays
    BY DEF SettledStays, Stream!Subscribe, EnqueueOneOf, Stream!FirstTimeout, Stream!MessageTimeout, Leaving
<1>2. OneGenerates(D)'
    BY <1>1 DEF OneGenerates
<1>3. CASE Stream!Subscribe \/ EnqueueOneOf(D)
    <2>1. /\ web.pc \in {"subscribe", "enqueue"} /\ web'.pc \in {"enqueue", "first"} /\ web'.ending = "none"
          /\ UNCHANGED <<web.done, web.chunks>> /\ queued' \subseteq D
          /\ web'.pc = "enqueue" => queued' = queued
        BY <1>3 DEF StreamTypes, Stream!Web, HandlerIs, Stream!Subscribe, EnqueueOneOf
    <2>2. web' \in Stream!Web
        BY <1>3 DEF StreamTypes, Stream!Web, Stream!Subscribe, EnqueueOneOf
    <2>3. inbox = <<>> /\ published = 0 /\ web'.chunks = 0 /\ ~web'.done /\ status = "queued"
          /\ \A d \in D : run[d] = "waiting"
        BY <2>1 DEF HandlerIs
    <2>4. web'.subscribed
        BY <1>3 DEF StreamTypes, Stream!Web, Stream!Subscribe, EnqueueOneOf, HandlerIs
    <2>5. StreamTypes(D)' /\ HandlerIs(D)'
        BY <1>1, <2>1, <2>2, <2>3, <2>4 DEF StreamTypes, HandlerIs
    <2>6. InboxTrue(calm)'
        <3>1. Len(inbox') = 0
            BY <1>1, <2>3
        <3>2. [i \in 0..0 |-> 0] \in [0..Len(inbox') -> 0..published']
            BY <1>1, <2>3, <3>1
        <3>3. 1..0 = {}
            OBVIOUS
        <3> DEFINE n == [i \in 0..0 |-> 0]
        <3>4. n[0] = 0
            OBVIOUS
        <3> HIDE DEF n
        <3>5. /\ n[0] = web'.chunks /\ n[Len(inbox')] = published'
              /\ \A i \in 1..Len(inbox') : n[i] = n[i - 1] + IF inbox'[i] = "chunk" THEN 1 ELSE 0
            BY <1>1, <2>3, <3>1, <3>3, <3>4
        <3> QED BY <3>1, <3>2, <3>3, <3>5 DEF InboxTrue, Counts, DoneIsTrue, n
    <2>7. (calm => DoneHeld(D)') /\ ((\A d, e \in D : d = e) => ErrorsHeld(D)')
        BY <1>1, <2>1, <2>3 DEF DoneHeld, ErrorsHeld, Unanswerable
    <2> QED BY <1>1, <1>2, <2>5, <2>6, <2>7
<1>4. CASE Stream!FirstTimeout \/ Stream!MessageTimeout \/ Leaving
    <2>1. /\ web' \in Stream!Web /\ web'.pc = "closed" /\ queued' = queued
          /\ web'.ending \in {"LLM_TIMEOUT", "LLM_STREAM_MESSAGE_TIMEOUT", "left"}
        BY <1>4 DEF StreamTypes, Stream!Web, Stream!Ending, Stream!FirstTimeout, Stream!MessageTimeout, Leaving, Stream!Close
    <2>2. StreamTypes(D)' /\ HandlerIs(D)' /\ InboxTrue(calm)'
        BY <1>1, <2>1 DEF StreamTypes, HandlerIs, InboxTrue
    <2>3. (calm => DoneHeld(D)') /\ ((\A d, e \in D : d = e) => ErrorsHeld(D)')
        BY <1>1, <2>1 DEF DoneHeld, ErrorsHeld, Unanswerable
    <2> QED BY <1>1, <1>2, <2>2, <2>3
<1> QED BY <1>3, <1>4

\* The handler reads an event.
LEMMA ReadStep ==
    ASSUME NEW D, NEW calm \in BOOLEAN, StreamInv(D, calm), MaxEvents \in Nat, Stream!Read
    PROVE  StreamInv(D, calm)' /\ SettledStays
<1> USE DEF StreamInv, Reading
<1>1. /\ UNCHANGED <<status, queued, run, published>> /\ SettledStays
      /\ Reading /\ inbox # <<>> /\ inbox' = Tail(inbox) /\ Stream!React(Head(inbox))
    BY DEF SettledStays, Stream!Read
<1>2. OneGenerates(D)' /\ inbox' \in Seq(Stream!Event) /\ Head(inbox) \in Stream!Event /\ Head(inbox) = inbox[1]
      /\ Len(inbox') = Len(inbox) - 1 /\ Len(inbox) \in Nat \ {0} /\ \A i \in 1..Len(inbox') : inbox'[i] = inbox[i + 1]
    BY <1>1, OneLess DEF OneGenerates, StreamTypes
<1>3. web.pc \in {"first", "next"} /\ web.ending = "none" /\ web.subscribed /\ (web.pc = "next" <=> web.chunks > 0)
    BY <1>1 DEF HandlerIs
<1>4. \A i \in 1..Len(inbox') : inbox'[i] = "error" => i + 1 \in 1..Len(inbox) /\ inbox[i + 1] = "error"
    BY <1>2
<1>5. CASE Head(inbox) = "error"
    <2>1. web' \in Stream!Web /\ web'.pc = "closed" /\ web'.ending = "error"
        BY <1>1, <1>5 DEF StreamTypes, Stream!Web, Stream!Ending, Stream!React, Stream!Close
    <2>2. StreamTypes(D)' /\ HandlerIs(D)' /\ InboxTrue(calm)' /\ (calm => DoneHeld(D)')
        BY <1>1, <1>2, <2>1 DEF StreamTypes, HandlerIs, InboxTrue, DoneHeld
    <2>3. ErrorsHeld(D) => ErrorsHeld(D)'
        BY <1>1, <1>2, <1>4, <1>5, <2>1 DEF ErrorsHeld, Unanswerable
    <2> QED BY <1>1, <1>2, <2>2, <2>3
<1>6. CASE Head(inbox) # "error"
    <2> USE DEF Stream!React, Stream!Close
    <2>0. web \in Stream!Web /\ web.chunks \in Nat
        BY DEF StreamTypes, Stream!Web
    <2>a. \/ Head(inbox) \in {"started", "step"} /\ UNCHANGED web
          \/ Head(inbox) = "chunk" /\ Stream!Pass
          \/ Head(inbox) = "done" /\ (Stream!DoneFirst \/ (web.pc = "next" /\ Stream!Close("finished")))
        BY <1>1, <1>6
    <2>b. Stream!Pass => /\ web'.chunks = web.chunks + 1 /\ web'.done = web.done
                         /\ IF web.done THEN web'.pc = "closed" /\ web'.ending = "finished"
                                        ELSE web'.pc = "next" /\ web'.ending = "none" /\ web'.subscribed
        BY <1>3, <2>0 DEF Stream!Pass, Stream!Web
    <2>c. Stream!DoneFirst => /\ web.pc = "first" /\ web'.chunks = web.chunks /\ web'.pc = "first"
                              /\ web'.ending = "none" /\ web'.subscribed
        BY <1>3, <2>0 DEF Stream!DoneFirst, Stream!Web
    <2>d. Stream!Close("finished") => web'.chunks = web.chunks /\ web'.pc = "closed" /\ web'.ending = "finished"
        BY <2>0 DEF Stream!Web
    <2>1. web'.chunks = web.chunks + (IF Head(inbox) = "chunk" THEN 1 ELSE 0) /\ web'.ending \in {"none", "finished"}
        BY <1>3, <2>0, <2>a, <2>b, <2>c, <2>d
    <2>2. /\ InboxTrue(calm)' /\ web'.chunks \in 0..published
          /\ calm /\ Head(inbox) = "done" => status = "succeeded" /\ published = web.chunks
        BY <1>1, <1>6, <2>1, ReadHeard
    <2>3. web'.chunks \in 0..MaxEvents /\ web.chunks \in Nat /\ published \in Nat
        BY <2>2 DEF StreamTypes, Stream!Web
    <2>4. web' \in Stream!Web
        BY <1>1, <1>2, <1>6, <2>1, <2>3 DEF StreamTypes, Stream!Web, Stream!Event, Stream!Ending, Stream!Pass, Stream!DoneFirst
    <2>5. /\ web'.pc \notin {"subscribe", "enqueue"} /\ (web'.pc # "closed" => web'.ending = "none" /\ web'.subscribed)
          /\ web'.pc # "closed" => (web'.pc = "next" <=> web'.chunks > 0)
        BY <1>3, <2>0, <2>a, <2>b, <2>c, <2>d
    <2>6. StreamTypes(D)' /\ HandlerIs(D)'
        BY <1>1, <1>2, <2>4, <2>5 DEF StreamTypes, HandlerIs
    <2>7. ASSUME calm PROVE DoneHeld(D)'
        <3>0. DoneHeld(D)
            BY <2>7
        <3>1. web.done => Head(inbox) # "chunk"
            BY <1>1, <2>1, <2>2, <2>3, <2>7, <3>0 DEF DoneHeld
        <3>2. /\ web'.done => web.done \/ Head(inbox) = "done"
              /\ web'.ending = "finished" => Head(inbox) = "done" /\ web.chunks > 0
            BY <1>1, <1>2, <1>3, <1>6, <3>1 DEF StreamTypes, Stream!Web, Stream!Event, Stream!Pass, Stream!DoneFirst
        <3>3. web'.done /\ web'.pc # "closed" => status' = "succeeded" /\ published' = web'.chunks
            BY <1>1, <2>1, <2>2, <2>3, <2>7, <3>0, <3>1, <3>2 DEF DoneHeld
        <3>4. web'.ending = "finished" => status' = "succeeded" /\ web'.chunks > 0 /\ web'.chunks = published'
            BY <1>1, <2>1, <2>2, <2>3, <2>7, <3>2
        <3>5. ASSUME NEW d \in D, run[d] = "finally"
              PROVE  status = "succeeded" \/ \E j \in 1..Len(inbox') : j < Len(inbox') + 1 /\ inbox'[j] = "error"
            <4>1. status = "succeeded" \/ \E k \in 1..Len(inbox) : inbox[k] = "error"
                BY <1>1, <3>0, <3>5 DEF DoneHeld, ErrorBefore
            <4>2. ASSUME NEW k \in 1..Len(inbox), inbox[k] = "error"
                  PROVE  \E j \in 1..Len(inbox') : j < Len(inbox') + 1 /\ inbox'[j] = "error"
                <5>1. k # 1
                    BY <1>2, <1>6, <4>2
                <5>2. k - 1 \in 1..Len(inbox') /\ k - 1 < Len(inbox') + 1 /\ (k - 1) + 1 = k
                    BY <1>2, <5>1
                <5>3. inbox'[k - 1] = "error"
                    BY <1>2, <4>2, <5>2
                <5> QED BY <5>2, <5>3
            <4> QED BY <4>1, <4>2
        <3> QED BY <1>1, <3>3, <3>4, <3>5 DEF DoneHeld, ErrorBefore
    <2>8. ErrorsHeld(D) => ErrorsHeld(D)'
        BY <1>1, <1>4, <2>1 DEF ErrorsHeld, Unanswerable
    <2> QED BY <1>1, <1>2, <2>2, <2>6, <2>7, <2>8
<1> QED BY <1>5, <1>6

\* The lease runs out of an attempt whose answer is not settled.
LEMMA LeaseStep ==
    ASSUME NEW D, NEW calm \in BOOLEAN, StreamInv(D, calm), LeaseOut PROVE StreamInv(D, calm)' /\ SettledStays
<1> USE DEF StreamInv, LeaseOut
<1>1. StreamTypes(D)' /\ OneGenerates(D)' /\ SettledStays
    BY DEF StreamTypes, OneGenerates, SettledStays
<1>2. HandlerIs(D)' /\ InboxTrue(calm)'
    BY DEF HandlerIs, InboxTrue, Reading, Counts, DoneIsTrue, ErrorBefore
<1>3. (calm => DoneHeld(D)') /\ ((\A d, e \in D : d = e) => ErrorsHeld(D)')
    BY DEF DoneHeld, ErrorsHeld, Unanswerable, Reading, ErrorBefore
<1> QED BY <1>1, <1>2, <1>3

LEMMA StreamStep ==
    ASSUME NEW D, NEW calm \in BOOLEAN, StreamInv(D, calm), MaxEvents \in Nat, StreamNext(D, calm)
    PROVE  StreamInv(D, calm)' /\ SettledStays
<1>1. ASSUME NEW d \in D, Working(d) \/ Publishing(d) \/ (~calm /\ (Cancelling(d) \/ TellingLost(d)))
      PROVE  StreamInv(D, calm)' /\ SettledStays
    BY <1>1, SilentStep, PublishStep
<1>2. ASSUME Listening(D) PROVE StreamInv(D, calm)' /\ SettledStays
    BY <1>2, TurnStep, ReadStep DEF Listening
<1> QED BY <1>1, <1>2, LeaseStep DEF StreamNext

(***************************************************************************)
(* The suite.                                                              *)
(***************************************************************************)
SuiteInv ==
    /\ running = "nonstream" => ReplyInv(Deliveries)
    /\ running = "once" => ReplyInv(OneDelivery)
    /\ running = "stream" => StreamInv(Deliveries, TRUE) /\ sideFaults \in 0..2
    /\ running = "told" => StreamInv(OneDelivery, FALSE) /\ sideFaults \in 0..3

SuiteStepOk == running = "stream" => SettledStays

LEMMA SuiteStarts == SuiteInit => SuiteInv
<1>1. (Stream!Init => sideFaults \in 0..2) /\ (Told!Init => sideFaults \in 0..3)
    BY DEF Stream!Init, Told!Init
<1>2. (Stream!Init => StreamInv(Deliveries, TRUE)) /\ (Told!Init => StreamInv(OneDelivery, FALSE))
    BY SideAssumption, StreamInit
<1> QED BY <1>1, <1>2, ReplyInit DEF SuiteInit, SuiteInv

LEMMA SuiteStutters == ASSUME SuiteInv, UNCHANGED suiteVars PROVE SuiteInv' /\ SettledStays
<1>1. /\ UNCHANGED <<status, queued, run, web, sideFaults>> /\ UNCHANGED <<published, inbox>>
      /\ UNCHANGED <<task, answer, idempotency, result>> /\ UNCHANGED running
    BY DEF suiteVars, sideVars, streamVars, nonStreamVars
<1>2. ASSUME NEW D, ReplyInv(D) PROVE ReplyInv(D)'
    BY <1>1, <1>2 DEF ReplyInv, ReplyTypes, AnswersSettled, FailuresSettled
<1>3. ASSUME NEW D, NEW calm \in BOOLEAN, StreamInv(D, calm) PROVE StreamInv(D, calm)'
    <2>1. StreamTypes(D)' /\ OneGenerates(D)' /\ HandlerIs(D)'
        BY <1>1, <1>3 DEF StreamInv, StreamTypes, OneGenerates, HandlerIs, Reading
    <2>2. InboxTrue(calm)'
        BY <1>1, <1>3 DEF StreamInv, InboxTrue, Reading, Counts, DoneIsTrue, ErrorBefore
    <2>3. (calm => DoneHeld(D)') /\ ((\A d, e \in D : d = e) => ErrorsHeld(D)')
        BY <1>1, <1>3 DEF StreamInv, DoneHeld, Reading, ErrorBefore, ErrorsHeld, Unanswerable
    <2> QED BY <2>1, <2>2, <2>3 DEF StreamInv
<1>4. SettledStays
    BY <1>1 DEF SettledStays
<1> QED BY <1>1, <1>2, <1>3, <1>4 DEF SuiteInv

LEMMA SuiteStep == ASSUME SuiteInv, [SuiteNext]_suiteVars PROVE SuiteInv' /\ SuiteStepOk
<1>1. CASE UNCHANGED suiteVars
    BY <1>1, SuiteStutters DEF SuiteStepOk
<1>2. CASE SuiteNext
    <2>1. running' = running
        BY <1>2 DEF SuiteNext
    <2>2. MaxEvents \in Nat
        BY SideAssumption DEF Stream!StreamAssumption
    <2>3. CASE running = "nonstream"
        <3>1. ReplyInv(Deliveries) /\ NonStream!Next
            BY <1>2, <2>3 DEF SuiteInv, SuiteNext
        <3> QED BY <2>1, <2>3, <3>1, NonStreamSteps, ReplyStep DEF SuiteInv, SuiteStepOk
    <2>4. CASE running = "once"
        <3>1. ReplyInv(OneDelivery) /\ Once!Next
            BY <1>2, <2>4 DEF SuiteInv, SuiteNext
        <3> QED BY <2>1, <2>4, <3>1, OnceSteps, ReplyStep DEF SuiteInv, SuiteStepOk
    <2>5. CASE running = "stream"
        <3>1. StreamInv(Deliveries, TRUE) /\ sideFaults \in 0..2 /\ Stream!Next
            BY <1>2, <2>5 DEF SuiteInv, SuiteNext
        <3>2. StreamNext(Deliveries, TRUE) /\ sideFaults' \in 0..2
            BY <3>1, StreamSteps
        <3>3. StreamInv(Deliveries, TRUE)' /\ SettledStays
            BY <2>2, <3>1, <3>2, StreamStep
        <3> QED BY <2>1, <2>5, <3>2, <3>3 DEF SuiteInv, SuiteStepOk
    <2>6. CASE running = "told"
        <3>1. StreamInv(OneDelivery, FALSE) /\ sideFaults \in 0..3 /\ Told!Next
            BY <1>2, <2>6 DEF SuiteInv, SuiteNext
        <3>2. StreamNext(OneDelivery, FALSE) /\ sideFaults' \in 0..3
            BY <3>1, ToldSteps
        <3>3. StreamInv(OneDelivery, FALSE)'
            BY <2>2, <3>1, <3>2, StreamStep
        <3> QED BY <2>1, <2>6, <3>2, <3>3 DEF SuiteInv, SuiteStepOk
    <2> QED BY <2>1, <2>3, <2>4, <2>5, <2>6 DEF SuiteInv, SuiteStepOk
<1> QED BY <1>1, <1>2

\* The invariant holds in every state, and a settled attempt stays settled.
LEMMA SuiteHolds == SuiteSpec => []SuiteInv /\ [][SuiteStepOk]_suiteVars
<1>1. SuiteInit => SuiteInv
    BY SuiteStarts
<1>2. SuiteInv /\ [SuiteNext]_suiteVars => SuiteInv'
    BY SuiteStep
<1>3. SuiteInv /\ [SuiteNext]_suiteVars => [SuiteStepOk]_suiteVars
    BY SuiteStep
<1> QED BY <1>1, <1>2, <1>3, PTL DEF SuiteSpec

\* For any handlers and deliveries: every answer a query without a stream returns is the one the database holds,
\* and with one delivery no user is told LLM_SERVICE_FAILED of an answer that is settled and charged
\* (web_nonstream_workflow.py, worker_generation_workflow.py).
THEOREM RepliesAreDurable == SuiteSpec => []ReplyIsDurable
<1>1. SuiteInv => ReplyIsDurable
    <2>1. ASSUME ReplyInv(Deliveries) PROVE NonStream!TypeOK /\ NonStream!AnswerIsDurable
        BY <2>1 DEF ReplyInv, ReplyTypes, AnswersSettled, NonStream!TypeOK, NonStream!AnswerIsDurable,
                    NonStream!Results, NonStream!Web
    <2>2. ASSUME ReplyInv(OneDelivery) PROVE Once!AnswerIsDurable /\ Once!FailedMeansUnanswered
        BY <2>2, DeliveryAssumption DEF ReplyInv, AnswersSettled, FailuresSettled, Once!AnswerIsDurable,
                                        Once!FailedMeansUnanswered
    <2> QED BY <2>1, <2>2 DEF SuiteInv, ReplyIsDurable
<1> QED BY <1>1, SuiteHolds, PTL

\* For any deliveries and any number of events: a stream that ends without an error has passed on all that the run
\* published, of an answer that is settled; a settled attempt stays settled; and with one delivery a stream that
\* ends in the worker's error is of an attempt that is not answered and that no run is left to answer, also when
\* recording its failure failed (web_stream_workflow.py, worker_generation_workflow.py).
THEOREM StreamsAreTrue == SuiteSpec => StreamIsTrue
<1>1. SuiteInv => /\ running = "stream" => Stream!TypeOK /\ Stream!FinishedMeansAnswered
                  /\ running = "told" => Told!TypeOK /\ Told!ErrorMeansUnanswered
    <2>1. ASSUME StreamInv(Deliveries, TRUE), sideFaults \in 0..2 PROVE Stream!TypeOK /\ Stream!FinishedMeansAnswered
        BY <2>1 DEF StreamInv, StreamTypes, DoneHeld, Stream!TypeOK, Stream!FinishedMeansAnswered
    <2>2. ASSUME StreamInv(OneDelivery, FALSE), sideFaults \in 0..3 PROVE Told!TypeOK /\ Told!ErrorMeansUnanswered
        BY <2>2, DeliveryAssumption DEF StreamInv, StreamTypes, ErrorsHeld, Unanswerable, Told!TypeOK, Told!ErrorMeansUnanswered,
           Told!Pc, Stream!Pc, Told!Event, Stream!Event, Told!Web, Stream!Web, Told!Ending, Stream!Ending
    <2> QED BY <2>1, <2>2 DEF SuiteInv
<1>2. SuiteStepOk => (running = "stream" => Stream!SettledOnceStep)
    BY DEF SuiteStepOk, SettledStays, Stream!SettledOnceStep
<1> QED BY <1>1, <1>2, SuiteHolds, PTL DEF StreamIsTrue
=============================================================================

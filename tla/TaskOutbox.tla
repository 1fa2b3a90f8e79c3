----------------------------- MODULE TaskOutbox -----------------------------
(***************************************************************************)
(* The transactional outbox of the knowledge ingestion pipeline: the       *)
(* task_outbox rows, the publishers that lease them (the relay that runs   *)
(* every minute, and the upload request's fast publish), and the broker's  *)
(* list of messages.                                                       *)
(*                                                                         *)
(* Time is abstracted to the one question every query asks of a row: has   *)
(* the instant it stores (next_attempt_at, lease_expires_at) passed?  The  *)
(* answer is the Boolean "due", and RowDue(t) is the passing of time.  The *)
(* lengths of leases and delays are settings, so any order of expiry may   *)
(* happen.                                                                 *)
(***************************************************************************)
EXTENDS Naturals

CONSTANTS
    Tasks,            \* ids of task jobs; (task_id, event_type) is unique, so also of rows
    Publishers,       \* runs that publish: relay_due, or publish_one after an upload
    NoOwner,          \* lease_owner IS NULL
    MaxPublish,       \* KNOWLEDGE_OUTBOX_MAX_ATTEMPTS
    MaxQueue,         \* bound of the model: messages of one task in the broker
    RelayFaults,      \* kinds of fault a publisher may meet: "crash", "broker"
    MaxRelayFaults    \* bound of the model: how many of them

ASSUME OutboxAssumption ==
    /\ MaxPublish \in Nat \ {0}
    /\ MaxQueue \in Nat \ {0}
    /\ MaxRelayFaults \in Nat
    /\ NoOwner \notin Publishers

VARIABLES
    outbox,       \* the task_outbox table: one row per task
    publisher,    \* what each publisher has claimed and not finished with
    queue,        \* messages of each task in the broker
    sent,         \* history: rows with a message pushed since they were last opened
    relayFaults   \* faults met so far

outboxVars == <<outbox, publisher, queue, sent, relayFaults>>

OutboxStatus == {"NONE", "PENDING", "PUBLISHING", "PUBLISHED", "DEAD"}

Row == [status : OutboxStatus, attempts : 0..MaxPublish,
        owner : Publishers \cup {NoOwner}, due : BOOLEAN]

\* A claimed row in the hands of a publisher, and the call it makes next.
Claim == [task : Tasks, attempt : 1..MaxPublish,
          step : {"enqueue", "confirm", "release"}]

NoRow == [status |-> "NONE", attempts |-> 0, owner |-> NoOwner, due |-> FALSE]

OutboxTypeOK ==
    /\ outbox \in [Tasks -> Row]
    /\ publisher \in [Publishers -> SUBSET Claim]
    /\ queue \in [Tasks -> 0..MaxQueue]
    /\ sent \subseteq Tasks
    /\ relayFaults \in 0..MaxRelayFaults

OutboxInit ==
    /\ outbox = [t \in Tasks |-> NoRow]
    /\ publisher = [p \in Publishers |-> {}]
    /\ queue = [t \in Tasks |-> 0]
    /\ sent = {}
    /\ relayFaults = 0

-----------------------------------------------------------------------------
(* Operations of the table that other components call inside their own      *)
(* transactions.                                                            *)

Opened(attempts) ==
    [status |-> "PENDING", attempts |-> attempts, owner |-> NoOwner, due |-> TRUE]

ActiveRow(t) == outbox[t].status \in {"PENDING", "PUBLISHING"}

\* A new event, due at once.
CreateRow(t) ==
    /\ outbox[t].status = "NONE"
    /\ outbox' = [outbox EXCEPT ![t] = Opened(0)]
    /\ UNCHANGED <<publisher, queue, sent, relayFaults>>

\* try_prepare_replay: a published or dead event is opened again; the publish
\* budget starts anew only if the caller asks for it.
PrepareReplay(t, reset) ==
    /\ outbox[t].status \in {"PUBLISHED", "DEAD"}
    /\ outbox' = [outbox EXCEPT ![t] = Opened(IF reset THEN 0 ELSE @.attempts)]
    /\ sent' = sent \ {t}
    /\ UNCHANGED <<publisher, queue, relayFaults>>

\* BRPOP by a worker: the message is gone whatever happens to the worker.
PopMessage(t) ==
    /\ queue[t] > 0
    /\ queue' = [queue EXCEPT ![t] = @ - 1]
    /\ UNCHANGED <<outbox, publisher, sent, relayFaults>>

-----------------------------------------------------------------------------
(* Publishing.                                                              *)

\* Mutant: the lease of a PUBLISHING row is not looked at.
ClaimableUnexpired(t) == ActiveRow(t) /\ outbox[t].attempts < MaxPublish

\* A row is due, and its publish budget is not spent.
Claimable(t) == ActiveRow(t) /\ outbox[t].due /\ outbox[t].attempts < MaxPublish

\* The claim transaction.  The relay takes the due rows that no other relay has
\* locked (SKIP LOCKED), publish_one takes its own row: R is any set of due rows.
ClaimDue(p, R) ==
    /\ publisher[p] = {}
    /\ R # {}
    /\ \A t \in R : Claimable(t)
    /\ outbox' = [t \in Tasks |->
          IF t \in R
          THEN [status |-> "PUBLISHING", attempts |-> outbox[t].attempts + 1,
                owner |-> p, due |-> FALSE]
          ELSE outbox[t]]
    /\ publisher' = [publisher EXCEPT ![p] =
          {[task |-> t, attempt |-> outbox[t].attempts + 1, step |-> "enqueue"] : t \in R}]
    /\ UNCHANGED <<queue, sent, relayFaults>>

\* The publisher is between two rows, so it may turn to row c.
TurnTo(p, c) == c \in publisher[p] /\ \A d \in publisher[p] : d.step = "enqueue"

SetStep(p, c, step) ==
    publisher' = [publisher EXCEPT ![p] = (@ \ {c}) \cup {[c EXCEPT !.step = step]}]

Forget(p, c) == publisher' = [publisher EXCEPT ![p] = @ \ {c}]

Push(t) ==
    /\ queue[t] < MaxQueue
    /\ queue' = [queue EXCEPT ![t] = @ + 1]
    /\ sent' = sent \cup {t}

Enqueue(p, c) ==
    /\ TurnTo(p, c)
    /\ Push(c.task)
    /\ SetStep(p, c, "confirm")
    /\ UNCHANGED <<outbox, relayFaults>>

RelayFault(kind) ==
    /\ kind \in RelayFaults
    /\ relayFaults < MaxRelayFaults
    /\ relayFaults' = relayFaults + 1

\* The broker call raises; the message may have arrived all the same.
EnqueueFails(p, c) ==
    /\ RelayFault("broker")
    /\ TurnTo(p, c)
    /\ Push(c.task) \/ UNCHANGED <<queue, sent>>
    /\ SetStep(p, c, "release")
    /\ UNCHANGED outbox

\* Mutant: the attempt alone is the fence.
HoldsAttempt(p, c) ==
    outbox[c.task].status = "PUBLISHING" /\ outbox[c.task].attempts = c.attempt

\* The fence of both closing updates: still leased to this run, same attempt.
HoldsLease(p, c) ==
    /\ outbox[c.task].status = "PUBLISHING"
    /\ outbox[c.task].attempts = c.attempt
    /\ outbox[c.task].owner = p

Published(row) == [row EXCEPT !.status = "PUBLISHED", !.owner = NoOwner, !.due = FALSE]

Confirm(p, c) ==
    /\ c \in publisher[p] /\ c.step = "confirm"
    /\ outbox' = IF HoldsLease(p, c)
                 THEN [outbox EXCEPT ![c.task] = Published(@)]
                 ELSE outbox
    /\ Forget(p, c)
    /\ UNCHANGED <<queue, sent, relayFaults>>

Release(p, c) ==
    /\ c \in publisher[p] /\ c.step = "release"
    /\ outbox' = IF HoldsLease(p, c)
                 THEN [outbox EXCEPT ![c.task] =
                         [@ EXCEPT !.status = "PENDING", !.owner = NoOwner, !.due = FALSE]]
                 ELSE outbox
    /\ Forget(p, c)
    /\ UNCHANGED <<queue, sent, relayFaults>>

\* The process dies, or one of its transactions raises and ends the run.
PublisherStops(p) ==
    /\ RelayFault("crash")
    /\ publisher[p] # {}
    /\ publisher' = [publisher EXCEPT ![p] = {}]
    /\ UNCHANGED <<outbox, queue, sent>>

\* No publish attempt is left.
Spent(t) == outbox[t].attempts >= MaxPublish

\* The end of relay_due: a due row with no attempt left is given up.  try_mark_dead
\* repeats every condition of the read before it, so the two are one step.
MarkExhausted(t) ==
    /\ ActiveRow(t)
    /\ outbox[t].due
    /\ Spent(t)
    /\ outbox' = [outbox EXCEPT ![t] =
          [@ EXCEPT !.status = "DEAD", !.owner = NoOwner, !.due = FALSE]]
    /\ UNCHANGED <<publisher, queue, sent, relayFaults>>

\* Time reaches next_attempt_at, or the publish lease runs out.
RowDue(t) ==
    /\ ActiveRow(t)
    /\ ~outbox[t].due
    /\ outbox' = [outbox EXCEPT ![t].due = TRUE]
    /\ UNCHANGED <<publisher, queue, sent, relayFaults>>

-----------------------------------------------------------------------------
PublisherStep(p) == \E c \in publisher[p] : Enqueue(p, c) \/ Confirm(p, c) \/ Release(p, c)

RelayNext ==
    \/ \E p \in Publishers :
          \/ \E R \in SUBSET Tasks : ClaimDue(p, R)
          \/ PublisherStep(p)
          \/ \E c \in publisher[p] : EnqueueFails(p, c)
          \/ PublisherStops(p)
    \/ \E t \in Tasks : MarkExhausted(t) \/ RowDue(t)

\* What the rest of the pipeline may do to the table and the broker.
CallerNext ==
    \E t \in Tasks :
        \/ CreateRow(t)
        \/ \E reset \in BOOLEAN : PrepareReplay(t, reset)
        \/ PopMessage(t)

OutboxNext == RelayNext \/ CallerNext

\* The relay is a cron job: it keeps running, oldest row first, and time passes.
RelayFairness ==
    /\ \A t \in Tasks :
          /\ SF_outboxVars(\E p \in Publishers, R \in SUBSET Tasks :
                              t \in R /\ ClaimDue(p, R))
          /\ WF_outboxVars(MarkExhausted(t))
          /\ WF_outboxVars(RowDue(t))
    /\ \A p \in Publishers : WF_outboxVars(PublisherStep(p))

OutboxSafety == OutboxInit /\ [][OutboxNext]_outboxVars

\* On its own the component needs consumers, or the bounded broker fills up.
OutboxSpec ==
    /\ OutboxSafety
    /\ RelayFairness
    /\ \A t \in Tasks : WF_outboxVars(PopMessage(t))

-----------------------------------------------------------------------------
(* Properties.                                                              *)

\* A row is PUBLISHED only if a message was pushed for it since the row was last
\* opened: neither a publisher that lost its lease nor one left over from before
\* a replay, whose attempt number the reset makes current again, can confirm an
\* event nobody has sent (try_mark_published, task_outbox_repo.py:218-245).
PublishedMeansSent ==
    \A t \in Tasks : outbox[t].status = "PUBLISHED" => t \in sent

\* Two publishers never work on one row under the same lease: while a run still has
\* to send or confirm a row it holds, nobody takes the row before the lease has run
\* out, whatever mix of batch claims, fast publishes and replays (docs/assessments/
\* 2026-07-15-knowledge-ingestion-data-consistency-plan.md:156, "publisher claims
\* in batches ... commits the lease first").
LeaseRespected ==
    [][\A p \in Publishers : \A c \in publisher[p] :
          HoldsLease(p, c) /\ ~outbox[c.task].due /\ c \in publisher'[p]
              => HoldsLease(p, c)']_outboxVars

\* Every event handed to the outbox is published or declared dead: leases of dead
\* publishers run out and retries come due (task-plan.md:130 of durable-task-recovery).
EventSettles ==
    \A t \in Tasks :
        outbox[t].status \in {"PENDING", "PUBLISHING"}
            ~> outbox[t].status \in {"PUBLISHED", "DEAD"}
=============================================================================

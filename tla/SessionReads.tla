---------------------------- MODULE SessionReads ----------------------------
(***************************************************************************)
(* The messages of a session as they are read: by a transaction that asks  *)
(* a question, for the history it sends to the worker, and by a client     *)
(* who pages through the session.  A question and its answer carry the     *)
(* time their transaction began, which another one may outlive, and ids in *)
(* the order they are written.  Each statement sees what is committed.     *)
(***************************************************************************)
EXTENDS Integers, Sequences, FiniteSets

CONSTANTS
    Rounds,         \* questions asked in the session
    FetchLimit,     \* CHAT_MEMORY_FETCH_LIMIT
    PageLimit,      \* limit of a page
    MaxAttempts,    \* bound: attempts of a generation
    None

ReadsAssumption == {FetchLimit, PageLimit, MaxAttempts} \subseteq Nat \ {0} /\ IsFiniteSet(Rounds)

Kinds == {"question", "answer"}

VARIABLES
    clock, ids,     \* transactions begun, ids given
    created,        \* per round: created_at of its messages, or 0
    id,             \* per message: its id, or 0
    stage,          \* per round: "none", "begun", "asked", "answered", "read", "committed", "gone"
    status,         \* per round: of its answer
    attempt, retryable,     \* per round: of its generation request
    history,        \* per round: the messages last sent to the worker, or None
    reader          \* the client: [at, skip, page, shown, seen, due]

rounds == <<clock, ids, created, id, stage, status, attempt, retryable, history>>
vars == <<rounds, reader>>

Init ==
    /\ clock = 0 /\ ids = 0 /\ created = [r \in Rounds |-> 0] /\ id = [m \in Rounds \X Kinds |-> 0]
    /\ stage = [r \in Rounds |-> "none"] /\ status = [r \in Rounds |-> "THINKING"]
    /\ attempt = [r \in Rounds |-> 1] /\ retryable = [r \in Rounds |-> FALSE]
    /\ history = [r \in Rounds |-> None]
    /\ reader = [at |-> "idle", skip |-> 0, page |-> <<>>, shown |-> <<>>, seen |-> {}, due |-> {}]

Committed == {m \in Rounds \X Kinds : stage[m[1]] = "committed"}

\* Mutant: by id alone.
BeforeById(m, n) == id[m] < id[n]

\* ORDER BY created_at, id.
Before(m, n) == created[m[1]] < created[n[1]] \/ (created[m[1]] = created[n[1]] /\ id[m] < id[n])

\* The place of a message in that order, and messages in it.
Place(m, set) == Cardinality({n \in set : Before(n, m)}) + 1
InOrder(set) == [i \in 1 .. Cardinality(set) |-> CHOOSE m \in set : Place(m, set) = i]

\* get_session_messages: OFFSET and LIMIT in that order.
Messages(visible, skip, limit) ==
    {m \in visible : skip < Place(m, visible) /\ Place(m, visible) <= skip + limit}

\* An answer that is being made has no text yet; a failed one has that of its failure.
HasContent(m) == m[2] = "question" \/ status[m[1]] # "THINKING"

(***************************************************************************)
(* Questions.                                                              *)
(***************************************************************************)
Begin(r) ==
    /\ stage[r] = "none" /\ clock' = clock + 1
    /\ created' = [created EXCEPT ![r] = clock + 1] /\ stage' = [stage EXCEPT ![r] = "begun"]
    /\ UNCHANGED <<ids, id, status, attempt, retryable, history, reader>>

\* create_user_message, then create_assistant_message.
Write(r, kind, from, to) ==
    /\ stage[r] = from /\ ids' = ids + 1
    /\ id' = [id EXCEPT ![<<r, kind>>] = ids + 1] /\ stage' = [stage EXCEPT ![r] = to]
    /\ UNCHANGED <<clock, created, status, attempt, retryable, history, reader>>

\* The history is read with the two new messages.
ReadHistory(r) ==
    /\ stage[r] = "answered" /\ stage' = [stage EXCEPT ![r] = "read"]
    /\ history' = [history EXCEPT ![r] =
                     InOrder({m \in Messages(Committed \cup ({r} \X Kinds), 0, FetchLimit) : HasContent(m)})]
    /\ UNCHANGED <<clock, ids, created, id, status, attempt, retryable, reader>>

Commit(r) ==
    /\ stage[r] = "read" /\ stage' = [stage EXCEPT ![r] = "committed"]
    /\ UNCHANGED <<clock, ids, created, id, status, attempt, retryable, history, reader>>

Abort(r) ==
    /\ stage[r] \in {"begun", "asked", "answered", "read"} /\ stage' = [stage EXCEPT ![r] = "gone"]
    /\ UNCHANGED <<clock, ids, created, id, status, attempt, retryable, history, reader>>

\* The message and the request are settled in one transaction.
Settle(r) ==
    /\ stage[r] = "committed" /\ status[r] = "THINKING"
    /\ \/ status' = [status EXCEPT ![r] = "SUCCESS"] /\ UNCHANGED retryable
       \/ /\ status' = [status EXCEPT ![r] = "FAILED"]
          /\ \E b \in BOOLEAN : retryable' = [retryable EXCEPT ![r] = b]
    /\ UNCHANGED <<clock, ids, created, id, stage, attempt, history, reader>>

CanRetry(r) == stage[r] = "committed" /\ status[r] = "FAILED" /\ retryable[r] /\ attempt[r] < MaxAttempts

\* prepare_retry_request: the request is prepared again and its message emptied.
Retry(r) ==
    /\ CanRetry(r)
    /\ attempt' = [attempt EXCEPT ![r] = @ + 1] /\ retryable' = [retryable EXCEPT ![r] = FALSE]
    /\ status' = [status EXCEPT ![r] = "THINKING"]
    /\ history' = [history EXCEPT ![r] =
                     InOrder({m \in Messages(Committed, 0, FetchLimit) : HasContent(m) /\ m # <<r, "answer">>})]
    /\ UNCHANGED <<clock, ids, created, id, stage, reader>>

(***************************************************************************)
(* The client.                                                             *)
(***************************************************************************)
Row(m) == [msg |-> m, status |-> status[m[1]], attempt |-> attempt[m[1]], retryable |-> retryable[m[1]]]

\* get_user_session_detail: the messages of the page are read first.
ReadPage ==
    /\ reader.at \in {"idle", "next"}
    /\ LET page == InOrder(Messages(Committed, reader.skip, PageLimit))
       IN reader' = [reader EXCEPT !.at = "page", !.shown = <<>>, !.page = [i \in DOMAIN page |-> Row(page[i])],
                                   !.due = IF reader.at = "idle" THEN Committed ELSE reader.due]
    /\ UNCHANGED rounds

\* What is shown of a message: the row read first, with what its request says now.
Shown(row) == [message |-> row, request |-> Row(row.msg)]

NextSkip(skip) == skip + PageLimit

ReadRequests ==
    /\ reader.at = "page"
    /\ reader' = [reader EXCEPT !.shown = [i \in DOMAIN reader.page |-> Shown(reader.page[i])],
                                !.seen = reader.seen \cup {reader.page[i].msg : i \in DOMAIN reader.page},
                                !.at = IF Len(reader.page) < PageLimit THEN "done" ELSE "next",
                                !.skip = NextSkip(reader.skip), !.page = <<>>]
    /\ UNCHANGED rounds

Next ==
    \/ \E r \in Rounds :
        \/ Begin(r) \/ Write(r, "question", "begun", "asked") \/ Write(r, "answer", "asked", "answered")
        \/ ReadHistory(r) \/ Commit(r) \/ Abort(r) \/ Settle(r) \/ Retry(r)
    \/ ReadPage \/ ReadRequests

Safety == Init /\ [][Next]_vars
Spec == Safety

(***************************************************************************)
(* Properties.                                                             *)
(***************************************************************************)
\* The types of the state; only a failed generation may be retried.
TypeOK ==
    /\ clock \in 0 .. Cardinality(Rounds) /\ ids \in 0 .. 2 * Cardinality(Rounds)
    /\ created \in [Rounds -> 0 .. clock] /\ id \in [Rounds \X Kinds -> 0 .. ids]
    /\ status \in [Rounds -> {"THINKING", "SUCCESS", "FAILED"}] /\ attempt \in [Rounds -> 1 .. MaxAttempts]
    /\ retryable \in [Rounds -> BOOLEAN] /\ \A r \in Rounds : retryable[r] => status[r] = "FAILED"

\* In every history an answer directly follows its question, also when their transactions overlapped
\* (get_session_messages, create_user_message, create_assistant_message).
PairsStayTogether == \A r \in Rounds : history[r] # None =>
    \A i \in DOMAIN history[r] : history[r][i][2] = "answer" => i > 1 /\ history[r][i - 1] = <<history[r][i][1], "question">>

\* A client who pages to the end is shown every message that was there when he began, whatever is asked
\* meanwhile: it may be shown twice, never left out (get_session_messages with skip and limit).
NothingSkipped == reader.at = "done" => reader.due \subseteq reader.seen

\* A message is never shown with a request older than itself: a final status comes with the attempt it belongs
\* to or a later one, and an attempt that failed with what is known of its retry (get_user_session_detail).
RequestNotOlder == \A i \in DOMAIN reader.shown :
    LET m == reader.shown[i].message
        q == reader.shown[i].request
    IN /\ q.attempt >= m.attempt
       /\ q.attempt = m.attempt /\ m.status # "THINKING" => q.retryable = m.retryable

\* The answer that failed is not part of the question that is asked again (prepare_retry_request).
RetryForgetsFailure == \A r \in Rounds : attempt[r] > 1 => \A i \in DOMAIN history[r] : history[r][i] # <<r, "answer">>

\* "History | more than 2000 messages still keep the latest rounds": the history of a new question reaches up
\* to the question itself.
HistoryIsRecent == \A r \in Rounds : history[r] # None => \E i \in DOMAIN history[r] : history[r][i] = <<r, "question">>
==============================================================================

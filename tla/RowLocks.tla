------------------------------- MODULE RowLocks -------------------------------
(***************************************************************************)
(* The row locks the program's transactions take, and in which order, on   *)
(* the rows of one user, one generation and one file.  PostgreSQL holds a  *)
(* lock to the end of its transaction, or to the rollback of the savepoint *)
(* it was taken in, and ends a deadlock by aborting one of its             *)
(* transactions.                                                           *)
(***************************************************************************)
EXTENDS Naturals, Sequences

CONSTANTS
    Txs,      \* transactions that overlap
    Kinds     \* what they may be

VARIABLES
    fresh,    \* the user has no credit account yet
    kind,     \* per transaction: what it is
    next,     \* per transaction: its next lock
    since,    \* per transaction: its first lock since the savepoint was rolled back, if it was
    st        \* per transaction: "open", "committed", "aborted"

vars == <<fresh, kind, next, since, st>>

\* KEY SHARE (a foreign key), NO KEY UPDATE (an UPDATE) and UPDATE (DELETE, FOR UPDATE, the
\* insert of a unique key).
Share(row) == [row |-> row, mode |-> "share"]
Update(row) == [row |-> row, mode |-> "update"]
All(row) == [row |-> row, mode |-> "all"]
BackToSavepoint == [row |-> "none", mode |-> "release"]

\* get_with_lock of the user, and the account with a lock: inserted, if it is not there.
UserThenAccount == <<All("user"), All("account")>>

\* persist_failure: update_as_failed, then try_finalize_generation_request.
MessageThenRequest == <<Update("message"), Update("request")>>
\* _fail_request: try_fail_due_generation_request, then update_as_failed.
RequestThenMessage == <<Update("request"), Update("message")>>
\* prepare_retry_request.
Retry == UserThenAccount \o RequestThenMessage
\* A transaction of the ingestion: heartbeat or reset of the task, the file, its chunks.
TaskThenFile == <<Update("task"), Update("file"), All("chunks")>>
\* remove_file: the chunks, then the file; its tasks are set to NULL with it.
FileThenTask == <<All("chunks"), All("file"), Update("task")>>

\* The locks of a transaction of kind k in their order.
Program(k) ==
    CASE k = "ask"     -> UserThenAccount \o <<Share("session")>>
      [] k = "settle"  -> UserThenAccount \o MessageThenRequest
      [] k = "unpaid"  -> UserThenAccount \o <<BackToSavepoint>> \o MessageThenRequest
      [] k = "fail"    -> MessageThenRequest
      [] k = "retry"   -> Retry
      [] k = "recover" -> RequestThenMessage
      [] k = "merge"   -> <<Update("message")>>
      [] k = "checkin" -> <<All("account")>>
      [] k = "open"    -> <<All("account"), Share("user")>>
      [] k = "expire"  -> <<All("account"), All("other account")>>
      [] k = "expire2" -> <<All("other account"), All("account")>>
      [] k = "ingest"  -> TaskThenFile
      [] k = "remove"  -> FileThenTask

\* An account is opened once, by a balance that is looked at, a check-in or a first question.
Possible(k, new) == IF new THEN k \notin {"settle", "unpaid", "retry", "checkin", "expire", "expire2"}
                           ELSE k # "open"

Init ==
    /\ fresh \in BOOLEAN
    /\ kind \in [Txs -> {k \in Kinds : Possible(k, fresh)}]
    /\ next = [t \in Txs |-> 1]
    /\ since = [t \in Txs |-> 1]
    /\ st = [t \in Txs |-> "open"]

Held(t) == IF st[t] = "open" THEN {Program(kind[t])[n] : n \in since[t]..(next[t] - 1)} ELSE {}

Wants(t) == Program(kind[t])[next[t]]
Waiting(t) == st[t] = "open" /\ next[t] <= Len(Program(kind[t]))

\* Mutant: updates do not exclude each other.
ConflictsOfFull(a, b) == a.row = b.row /\ "all" \in {a.mode, b.mode}
Conflicts(a, b) ==
    a.row = b.row /\ ("all" \in {a.mode, b.mode} \/ {a.mode, b.mode} = {"update"})

Blocks(u, t) == u # t /\ Waiting(t) /\ \E lock \in Held(u) : Conflicts(lock, Wants(t))

\* Every one of them waits for another of them.
Deadlocked(S) == S # {} /\ \A t \in S : \E u \in S : Blocks(u, t)

\* A statement gets its lock.
Lock(t) ==
    /\ Waiting(t) /\ \A u \in Txs : ~Blocks(u, t)
    /\ next' = [next EXCEPT ![t] = @ + 1]
    /\ since' = [since EXCEPT ![t] = IF Wants(t) = BackToSavepoint THEN next[t] + 1 ELSE @]
    /\ UNCHANGED <<fresh, kind, st>>

\* __aexit__ of the unit of work.
Commit(t) ==
    /\ st[t] = "open" /\ ~Waiting(t)
    /\ st' = [st EXCEPT ![t] = "committed"]
    /\ UNCHANGED <<fresh, kind, next, since>>

\* PostgreSQL aborts one of a deadlock; the exception rolls the unit of work back. An expiry
\* has a savepoint for each account: it passes over the one it has not got, and commits.
Abort(t) ==
    /\ \E S \in SUBSET Txs : t \in S /\ Deadlocked(S)
    /\ st' = [st EXCEPT ![t] = IF kind[t] \in {"expire", "expire2"} THEN "committed" ELSE "aborted"]
    /\ UNCHANGED <<fresh, kind, next, since>>

Next == \E t \in Txs : Lock(t) \/ Commit(t) \/ Abort(t)

\* The database runs what it can.
Fairness == WF_vars(Next)

Safety == Init /\ [][Next]_vars
Spec == Safety /\ Fairness
-----------------------------------------------------------------------------
\* Two transactions never hold conflicting locks (credit_repo.py:31-51, user_repo.py:131-138).
NeverBoth ==
    \A t, u \in Txs : t # u =>
        \A a \in Held(t), b \in Held(u) :
            a.row = b.row => "all" \notin {a.mode, b.mode} /\ {a.mode, b.mode} # {"update"}

\* The pairs that take rows the other way round from each other.
Inversions ==
    {{"recover", "settle"}, {"recover", "unpaid"}, {"recover", "fail"}, {"retry", "fail"},
     {"retry", "unpaid"}, {"ask", "open"}, {"expire", "expire2"}, {"ingest", "remove"}}

\* Every deadlock has one of these pairs in it: recovery or a retry against a late worker that
\* settles without the user's lock, a first question against the opening of the account, two
\* overlapping expiries, and a removal against the ingestion of the file. Among the transactions
\* that charge or check credits, and keep the user's lock, there is none
\* (session_orchestrator.py:356-357).
OnlyInversions ==
    \A S \in SUBSET Txs : Deadlocked(S) =>
        \E t, u \in S : t # u /\ {kind[t], kind[u]} \in Inversions

\* However they overlap, every transaction ends, and one of any number commits
\* (unit_of_work.py:50-63).
EveryTransactionEnds ==
    <>(/\ \A t \in Txs : st[t] # "open"
       /\ \E t \in Txs : st[t] = "committed")

\* Locking the user and then the account keeps a question out of deadlocks
\* (credit_service.py:76).
QuestionsNeverDeadlock ==
    \A S \in SUBSET Txs : Deadlocked(S) => \A t \in S : kind[t] # "ask"
=============================================================================

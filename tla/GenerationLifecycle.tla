------------------------- MODULE GenerationLifecycle -------------------------
(***************************************************************************)
(* What chat generation promises a user who asks a question.  An accepted  *)
(* question is being thought about until it is answered or has failed; an  *)
(* answer is final and paid for; a failed question costs nothing, and only *)
(* the user's explicit retry makes it think again, as the next attempt.    *)
(* Who has lost the right to the session cannot retry, and is promised no  *)
(* end.  Queues, leases, workers and Redis are out of sight.               *)
(***************************************************************************)
EXTENDS Naturals

CONSTANT Requests

VARIABLES
    state,     \* what the assistant message shows
    attempt,   \* number of times the question was tried
    paid,      \* questions settled in credits
    barred     \* questions whose user has lost the right to their session

vars == <<state, attempt, paid, barred>>

Init ==
    /\ state = [r \in Requests |-> "none"]
    /\ attempt = [r \in Requests |-> 0]
    /\ paid = {}
    /\ barred = {}

Move(r, from, to) == state[r] = from /\ state' = [state EXCEPT ![r] = to]
NextAttempt(r) == attempt' = [attempt EXCEPT ![r] = @ + 1]

Ask(r) == Move(r, "none", "thinking") /\ NextAttempt(r) /\ UNCHANGED <<paid, barred>>
Answer(r) ==
    /\ Move(r, "thinking", "answered")
    /\ paid' = paid \cup {r}
    /\ UNCHANGED <<attempt, barred>>
Fail(r) == Move(r, "thinking", "failed") /\ UNCHANGED <<attempt, paid, barred>>
Retry(r) ==
    /\ r \notin barred
    /\ Move(r, "failed", "thinking") /\ NextAttempt(r) /\ UNCHANGED <<paid, barred>>

Lose(r) == state[r] # "none" /\ barred' = barred \cup {r} /\ UNCHANGED <<state, attempt, paid>>
Regain(r) == barred' = barred \ {r} /\ UNCHANGED <<state, attempt, paid>>

Settle(r) == Answer(r) \/ Fail(r)

Next == \E r \in Requests : Ask(r) \/ Settle(r) \/ Retry(r) \/ Lose(r) \/ Regain(r)

Safety == Init /\ [][Next]_vars

\* A question whose user keeps, or gets back, the right to it comes to an end.
Spec == Safety /\ \A r \in Requests : WF_vars(r \notin barred /\ Settle(r))
=============================================================================

---------------------------- MODULE FileLifecycle ----------------------------
(***************************************************************************)
(* What the ingestion pipeline promises the user who uploads a file.  The  *)
(* file is accepted; in the end it is ready or failed, unless it is        *)
(* deleted; it can be searched exactly while it is ready; a ready file     *)
(* stays ready until it is deleted; only an operator's replay reopens a    *)
(* failed one.  Workers, tasks, outbox and broker are out of sight.        *)
(***************************************************************************)
CONSTANT Files

VARIABLES
    phase,        \* what the file's status tells the user
    searchable    \* files whose chunks retrieval can find

vars == <<phase, searchable>>

Init ==
    /\ phase = [f \in Files |-> "none"]
    /\ searchable = {}

Move(f, from, to) == phase[f] \in from /\ phase' = [phase EXCEPT ![f] = to]

Accept(f) == Move(f, {"none"}, "accepted") /\ UNCHANGED searchable
Succeed(f) == Move(f, {"accepted"}, "ready") /\ searchable' = searchable \cup {f}
Fail(f) == Move(f, {"accepted"}, "failed") /\ UNCHANGED searchable
Reopen(f) == Move(f, {"failed"}, "accepted") /\ UNCHANGED searchable
Remove(f) ==
    /\ Move(f, {"accepted", "ready", "failed"}, "removed")
    /\ searchable' = searchable \ {f}

Settle(f) == Succeed(f) \/ Fail(f)

Next == \E f \in Files : Accept(f) \/ Settle(f) \/ Reopen(f) \/ Remove(f)

Safety == Init /\ [][Next]_vars
Spec == Safety /\ \A f \in Files : WF_vars(Settle(f))
=============================================================================

---------------------------- MODULE FeatureFlags ----------------------------
(***************************************************************************)
(* FeatureFlagService in one process: the rules of a cloud service, cached *)
(* for a time, fetched by whichever request finds them too old.  Requests  *)
(* interleave at the await of the fetch, answers come late or not at all,  *)
(* and a circuit breaker stops the asking.                                 *)
(***************************************************************************)
EXTENDS Integers, FiniteSets

CONSTANTS
    Callers,    \* requests that evaluate flags
    Ttl,        \* _ttl_seconds, in ticks
    Threshold,  \* failures that open the breaker
    None,
    MaxTime, MaxVersions, MaxFailures

FlagsAssumption == {Ttl, Threshold, MaxTime, MaxFailures} \subseteq Nat /\ MaxVersions \in Nat \ {0}

\* Version 0 of the rules is empty.
VARIABLES
    now,
    version,    \* the rules of the cloud
    since,      \* since[v]: when v was published
    cache,      \* _features_cache: a version, or None
    fetched,    \* _last_fetch_time
    at,         \* per caller: "idle", "fetch", "answered", "told"
    began,      \* per caller: current_time
    answer,     \* per caller: the version in the answer of the cloud
    rules,      \* per caller: what get_system_features evaluated
    fresh,      \* per caller: the rules were found in the cache in time
    failures, broken    \* of the breaker: failures in a row, and its refusal

cloud == <<version, since>>
vars == <<now, cloud, cache, fetched, at, began, answer, rules, fresh, failures, broken>>

Init ==
    /\ now = 0 /\ version \in {0, 1} /\ since = [v \in 0..MaxVersions |-> 0]
    /\ cache = None /\ fetched = -1 - Ttl
    /\ at = [c \in Callers |-> "idle"] /\ began = [c \in Callers |-> 0] /\ answer = [c \in Callers |-> None]
    /\ rules = [c \in Callers |-> None] /\ fresh = [c \in Callers |-> FALSE]
    /\ failures = 0 /\ broken = FALSE

Tick == now < MaxTime /\ now' = now + 1
        /\ UNCHANGED <<cloud, cache, fetched, at, began, answer, rules, fresh, failures, broken>>

\* Somebody changes the rules.
Publish ==
    /\ version < MaxVersions /\ version' = version + 1 /\ since' = [since EXCEPT ![version'] = now]
    /\ UNCHANGED <<now, cache, fetched, at, began, answer, rules, fresh, failures, broken>>

\* An empty cache is asked for again each time.
InTime == cache \notin {None, 0} /\ now - fetched <= Ttl

Told(c, known, quick) ==
    /\ rules' = [rules EXCEPT ![c] = known] /\ fresh' = [fresh EXCEPT ![c] = quick]

\* _ensure_features_loaded up to the await
Evaluate(c) ==
    /\ at[c] = "idle"
    /\ began' = [began EXCEPT ![c] = now]
    /\ IF InTime \/ broken
       THEN at' = [at EXCEPT ![c] = "told"] /\ Told(c, cache, InTime)
       ELSE at' = [at EXCEPT ![c] = "fetch"] /\ UNCHANGED <<rules, fresh>>
    /\ UNCHANGED <<now, cloud, cache, fetched, answer, failures, broken>>

\* The cloud sends the rules of this moment; the answer is on its way.
CloudAnswers(c) ==
    /\ at[c] = "fetch" /\ at' = [at EXCEPT ![c] = "answered"]
    /\ answer' = [answer EXCEPT ![c] = version]
    /\ UNCHANGED <<now, cloud, cache, fetched, began, rules, fresh, failures, broken>>

\* Mutant: the time of the end of the fetch.
EndTime(c) == fetched' = now
\* _last_fetch_time = current_time
StartTime(c) == fetched' = began[c]

Receive(c) ==
    /\ at[c] = "answered" /\ at' = [at EXCEPT ![c] = "told"]
    /\ cache' = answer[c] /\ StartTime(c)
    /\ failures' = 0 /\ broken' = FALSE
    /\ Told(c, answer[c], FALSE)
    /\ UNCHANGED <<now, cloud, began, answer>>

\* After a failure the cached rules are used, however old.
Kept == cache

\* A timeout, an error or another status: on_failure.
FetchFails(c) ==
    /\ at[c] \in {"fetch", "answered"} /\ failures < MaxFailures
    /\ at' = [at EXCEPT ![c] = "told"]
    /\ failures' = failures + 1 /\ broken' = (failures + 1 >= Threshold)
    /\ cache' = Kept /\ Told(c, cache', FALSE)
    /\ UNCHANGED <<now, cloud, fetched, began, answer>>

\* The breaker's cooldown is over.
CoolDown ==
    /\ broken /\ broken' = FALSE
    /\ UNCHANGED <<now, cloud, cache, fetched, at, began, answer, rules, fresh, failures>>

\* The request ends and another one comes.
Leave(c) ==
    /\ at[c] = "told" /\ at' = [at EXCEPT ![c] = "idle"]
    /\ began' = [began EXCEPT ![c] = 0] /\ answer' = [answer EXCEPT ![c] = None]
    /\ rules' = [rules EXCEPT ![c] = None] /\ fresh' = [fresh EXCEPT ![c] = FALSE]
    /\ UNCHANGED <<now, cloud, cache, fetched, failures, broken>>

Next ==
    \/ Tick \/ Publish \/ CoolDown
    \/ \E c \in Callers : Evaluate(c) \/ CloudAnswers(c) \/ Receive(c) \/ FetchFails(c) \/ Leave(c)
Spec == Init /\ [][Next]_vars
-----------------------------------------------------------------------------
\* Rules found in time in the cache are at most the time to live old: what a newer version replaced
\* longer ago is not used without asking, even when answers come late and overtake each other.
HitIsFresh ==
    \A c \in Callers : at[c] = "idle" /\ at'[c] = "told" /\ fresh'[c]
        => \A v \in (rules'[c] + 1)..version : now - since[v] <= Ttl
CacheIsFresh == [][HitIsFresh]_vars

\* Once there are rules, no failure takes them away: a request is answered by rules.
FailureKeepsRules ==
    \A c \in Callers : cache \notin {None, 0} /\ at[c] # "told" /\ at'[c] = "told" /\ failures' > failures
        => rules'[c] \notin {None, 0}
RulesOutliveFailures == [][FailureKeepsRules]_vars
=============================================================================

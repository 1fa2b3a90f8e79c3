----------------------------- MODULE HealthProbe -----------------------------
(***************************************************************************)
(* The heartbeat a worker emits every minute: the oldest work that waits   *)
(* in the database, the length of the queue, and for each Redis how many   *)
(* keys it evicted and whether it restarted since the last sample, which   *)
(* is kept in the other Redis.  A late heartbeat overlaps the next one.    *)
(***************************************************************************)
EXTENDS Integers, FiniteSets

CONSTANTS
    Beats,          \* heartbeats
    None,
    MaxEvictions, MaxRestarts, MaxLosses, MaxBeats

ProbeAssumption ==
    /\ {MaxEvictions, MaxRestarts, MaxLosses, MaxBeats} \subseteq Nat
    /\ None \notin Nat

VARIABLES
    run, evicted, young,    \* the observed Redis: run_id, its counter, started lately
    stored,                 \* the last sample [run, evicted], or None
    at,                     \* per heartbeat: where it is
    seen,                   \* per heartbeat: what INFO said
    previous,               \* per heartbeat: the sample it compares with
    degraded,               \* per heartbeat: a probe failed
    missed,                 \* per heartbeat: what it did not observe
    counted,                \* values of the counter that were told
    noticed,                \* runs told as restarted, or seen first
    lost,                   \* history: what a heartbeat would have told that stored its sample and failed
    losses, beats

redis == <<run, evicted, young>>
told == <<counted, noticed, lost>>
vars == <<redis, stored, at, seen, previous, degraded, missed, told, losses, beats>>

Unseen == [run |-> None, evicted |-> None, young |-> FALSE]

Init ==
    /\ run = 0 /\ evicted = 0 /\ young = FALSE /\ stored = None
    /\ at = [b \in Beats |-> "idle"] /\ seen = [b \in Beats |-> Unseen] /\ previous = [b \in Beats |-> None]
    /\ degraded = [b \in Beats |-> FALSE] /\ missed = [b \in Beats |-> {}]
    /\ counted = {} /\ noticed = {} /\ lost = [counts |-> {}, runs |-> {}]
    /\ losses = 0 /\ beats = 0

Larger(a, b) == IF a >= b THEN a ELSE b

(***************************************************************************)
(* The world.                                                              *)
(***************************************************************************)
Evict ==
    /\ evicted < MaxEvictions /\ evicted' = evicted + 1
    /\ UNCHANGED <<run, young, stored, at, seen, previous, degraded, missed, told, losses, beats>>

\* The counter starts again with a new run_id.
Restart ==
    /\ run < MaxRestarts /\ run' = run + 1 /\ evicted' = 0 /\ young' = TRUE
    /\ UNCHANGED <<stored, at, seen, previous, degraded, missed, told, losses, beats>>

\* More than the window of a recent restart has passed.
Age ==
    /\ young /\ young' = FALSE
    /\ UNCHANGED <<run, evicted, stored, at, seen, previous, degraded, missed, told, losses, beats>>

\* The sample expires, or the other Redis loses it.
Lose ==
    /\ losses < MaxLosses /\ losses' = losses + 1 /\ stored' = None
    /\ UNCHANGED <<redis, at, seen, previous, degraded, missed, told, beats>>

(***************************************************************************)
(* The heartbeat.                                                          *)
(***************************************************************************)
Move(b, from, to) == at[b] = from /\ at' = [at EXCEPT ![b] = to]

Start(b) ==
    /\ Move(b, "idle", "backlog") /\ beats < MaxBeats /\ beats' = beats + 1
    /\ UNCHANGED <<redis, stored, seen, previous, degraded, missed, told, losses>>

\* The except branch of a probe.
Degrade(b) == degraded' = [degraded EXCEPT ![b] = TRUE]

\* A probe fails: the others go on.
Fails(b, probe, from, to) ==
    /\ Move(b, from, to) /\ Degrade(b) /\ missed' = [missed EXCEPT ![b] = @ \cup {probe}]
    /\ UNCHANGED <<redis, stored, seen, previous, told, losses, beats>>

\* observe_durable_backlog
ReadBacklog(b) ==
    /\ Move(b, "backlog", "queue")
    /\ UNCHANGED <<redis, stored, seen, previous, degraded, missed, told, losses, beats>>

ReadQueue(b) ==
    /\ Move(b, "queue", "info")
    /\ UNCHANGED <<redis, stored, seen, previous, degraded, missed, told, losses, beats>>

\* INFO server and INFO stats are asked at the same time, and answered in any order.
Sees(b, part) ==
    /\ at[b] = "info" /\ seen' = [seen EXCEPT ![b] = part]
    /\ at' = IF part.run # None /\ part.evicted # None THEN [at EXCEPT ![b] = "previous"] ELSE at
    /\ UNCHANGED <<redis, stored, previous, degraded, missed, told, losses, beats>>
ReadServer(b) == seen[b].run = None /\ Sees(b, [seen[b] EXCEPT !.run = run, !.young = young])
ReadStats(b) == seen[b].evicted = None /\ Sees(b, [seen[b] EXCEPT !.evicted = evicted])

ReadPrevious(b) ==
    /\ Move(b, "previous", "store")
    /\ previous' = [previous EXCEPT ![b] = stored]
    /\ UNCHANGED <<redis, stored, seen, degraded, missed, told, losses, beats>>

\* Mutant: only the last change of the counter is told.
StepDelta(b) == IF previous[b] = None \/ seen[b].evicted <= previous[b].evicted THEN 0 ELSE 1
\* evicted_keys_delta
Delta(b) == IF previous[b] = None THEN 0 ELSE Larger(seen[b].evicted - previous[b].evicted, 0)
\* restart_detected
Restarted(b) == (previous[b] # None /\ previous[b].run # seen[b].run) \/ seen[b].young

\* hset: the sample is there from now on, nothing is told yet.
Store(b) ==
    /\ Move(b, "store", "expire")
    /\ stored' = [run |-> seen[b].run, evicted |-> seen[b].evicted]
    /\ UNCHANGED <<redis, seen, previous, degraded, missed, told, losses, beats>>

\* What a heartbeat tells of the counter: its delta, or where it starts when no older sample was there.
Counts(b) == (IF previous[b] = None THEN 1 ELSE seen[b].evicted - Delta(b) + 1)..seen[b].evicted
\* ... and of the runs.
RunsTold(b) == IF Restarted(b) \/ previous[b] = None THEN {seen[b].run} ELSE {}

\* expire, and _log_redis_observation.
Log(b) ==
    /\ Move(b, "expire", "done")
    /\ counted' = counted \cup Counts(b) /\ noticed' = noticed \cup RunsTold(b)
    /\ UNCHANGED <<redis, stored, seen, previous, degraded, missed, lost, losses, beats>>

\* expire fails, or hset does after it was done: the sample is there, and nothing is told of it.
ExpireFails(b) ==
    /\ Move(b, "expire", "done") /\ Degrade(b) /\ missed' = [missed EXCEPT ![b] = @ \cup {"redis"}]
    /\ lost' = [counts |-> lost.counts \cup Counts(b), runs |-> lost.runs \cup RunsTold(b)]
    /\ UNCHANGED <<redis, stored, seen, previous, counted, noticed, losses, beats>>

\* The heartbeat's log, and the next one of the schedule.
Again(b) ==
    /\ Move(b, "done", "idle")
    /\ degraded' = [degraded EXCEPT ![b] = FALSE] /\ missed' = [missed EXCEPT ![b] = {}]
    /\ seen' = [seen EXCEPT ![b] = Unseen] /\ previous' = [previous EXCEPT ![b] = None]
    /\ UNCHANGED <<redis, stored, told, losses, beats>>

Beat(b) ==
    \/ Start(b) \/ ReadBacklog(b) \/ ReadQueue(b) \/ ReadServer(b) \/ ReadStats(b) \/ ReadPrevious(b)
    \/ Store(b) \/ Log(b) \/ ExpireFails(b) \/ Again(b)
    \/ Fails(b, "backlog", "backlog", "queue") \/ Fails(b, "queue", "queue", "info")
    \/ \E from \in {"info", "previous", "store"} : Fails(b, "redis", from, "done")

Next == Evict \/ Restart \/ Age \/ Lose \/ \E b \in Beats : Beat(b)
Spec == Init /\ [][Next]_vars
-----------------------------------------------------------------------------
\* Heartbeats that have stored their sample and have yet to tell it.
Telling == {b \in Beats : at[b] = "expire"}

\* Evictions are told at least once, however samples overlap: whatever the counter of the last sample went
\* through was told by some heartbeat, or is about to be; only an expire that fails after its hset takes
\* what it would have told with it (operability_probe.py:113-117).
EvictionsTold == stored # None =>
    1..stored.evicted \subseteq counted \cup lost.counts \cup UNION {Counts(b) : b \in Telling}

\* A run that was sampled was told as a restart, by its sample or by one before, unless there was
\* nothing to compare it with; with the same exception.
RestartsTold == stored # None => stored.run \in noticed \cup lost.runs \cup UNION {RunsTold(b) : b \in Telling}

\* A heartbeat that says "ok" observed everything it reports: a zero is never a probe that failed.
OkMeansObserved == \A b \in Beats : at[b] = "done" /\ ~degraded[b] => missed[b] = {} /\ None \notin {seen[b].run, seen[b].evicted}
=============================================================================

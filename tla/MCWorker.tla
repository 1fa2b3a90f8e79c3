------------------------------ MODULE MCWorker ------------------------------
(***************************************************************************)
(* What a process keeps for its tasks and calls: the way to a provider     *)
(* (ProviderCalls), the cached feature flags (FeatureFlags), the watch of  *)
(* Redis (HealthProbe), the services a worker shares (WorkerContainer),    *)
(* stored uploads (ObjectStorage) and the analysis of repositories         *)
(* (RepoAnalysis).  They share no state: a behaviour runs one of them, and *)
(* the variables of the others are Off.                                    *)
(***************************************************************************)
EXTENDS ProviderCalls, TLC

CONSTANTS
    Two,      \* two of what a component has two of: callers, beats
    Runs, Workers,                                      \* of RepoAnalysis
    Ttl, MaxTime, MaxVersions, FlagFailures,            \* of FeatureFlags
    MaxEvictions, MaxRestarts, MaxLosses, MaxBeats,     \* of HealthProbe
    Providers, MaxMade,                                 \* of WorkerContainer
    Backends, Sizes, MaxSize, ChunkSize, FlushSize,     \* of ObjectStorage
    UploadFaults, MaxStops,
    MaxFaults, MaxCrashes,                              \* of RepoAnalysis
    None,
    Off       \* the value of a variable of a component that is not running

VARIABLES now, version, since, cache, fetched, began, answer, rules, fresh, misses, broken
VARIABLES redisRun, evicted, young, stored, seen, previous, degraded, missed, counted,
          noticed, lost, losses, beats
VARIABLE at          \* of FeatureFlags and HealthProbe
VARIABLES held, errors, rerankFailed, rag, closing, walk, started, open, made, late
VARIABLES backend, size, ending, reads, got, pending, temp, object, sending, reader, copy,
          removed, undeleted, stops
VARIABLE pc          \* of WorkerContainer and ObjectStorage
VARIABLES run, task, result, queue, web, worker, crashes
VARIABLE faults      \* of ObjectStorage and RepoAnalysis
VARIABLE running

flagVars == <<now, version, since, cache, fetched, began, answer, rules, fresh, misses, broken>>
probeVars == <<redisRun, evicted, young, stored, seen, previous, degraded, missed, counted,
               noticed, lost, losses, beats>>
containerVars == <<held, errors, rerankFailed, rag, closing, walk, started, open, made, late>>
objectVars == <<backend, size, ending, reads, got, pending, temp, object, sending, reader,
                copy, removed, undeleted, stops>>
repoVars == <<run, task, result, queue, web, worker, crashes>>
otherVars == <<flagVars, probeVars, containerVars, objectVars, repoVars, at, pc, faults>>
suiteVars == <<vars, otherVars, running>>

Symmetry == Permutations(Calls) \cup Permutations(Two) \cup Permutations(Runs)

Flags == INSTANCE FeatureFlags
            WITH Callers <- Two, MaxFailures <- FlagFailures, failures <- misses

Probe == INSTANCE HealthProbe
            WITH Beats <- Two, run <- redisRun

Container == INSTANCE WorkerContainer

\* A README with more claims than are kept, and one with a single long line and gaps.
Pages == {[claims |-> 9, long |-> 0, missing |-> 0], [claims |-> 0, long |-> 1, missing |-> 2]}

Repo == INSTANCE RepoAnalysis WITH Readmes <- Pages

Objects == INSTANCE ObjectStorage
              WITH MaxFaults <- UploadFaults, outcome <- ending

ASSUME WorkerSuiteAssumption ==
    /\ Flags!FlagsAssumption /\ Probe!ProbeAssumption /\ Container!WorkerAssumption
    /\ Objects!StorageAssumption /\ Repo!RepoAssumption

FlagsOff ==
    /\ now = Off /\ version = Off /\ since = Off /\ cache = Off /\ fetched = Off /\ began = Off
    /\ answer = Off /\ rules = Off /\ fresh = Off /\ misses = Off /\ broken = Off
ProbeOff ==
    /\ redisRun = Off /\ evicted = Off /\ young = Off /\ stored = Off /\ seen = Off
    /\ previous = Off /\ degraded = Off /\ missed = Off /\ counted = Off
    /\ noticed = Off /\ lost = Off /\ losses = Off /\ beats = Off
ContainerOff ==
    /\ held = Off /\ errors = Off /\ rerankFailed = Off /\ rag = Off /\ closing = Off
    /\ walk = Off /\ started = Off /\ open = Off /\ made = Off /\ late = Off
ObjectsOff ==
    /\ backend = Off /\ size = Off /\ ending = Off /\ reads = Off /\ got = Off /\ pending = Off
    /\ temp = Off /\ object = Off /\ sending = Off /\ reader = Off /\ copy = Off
    /\ removed = Off /\ undeleted = Off /\ stops = Off
RepoOff ==
    /\ run = Off /\ task = Off /\ result = Off /\ queue = Off /\ web = Off /\ worker = Off
    /\ crashes = Off

SuiteInit ==
    /\ running \in {"calls", "flags", "probe", "container", "objects", "repo"}
    /\ Init
    /\ IF running = "flags" THEN Flags!Init ELSE FlagsOff
    /\ IF running = "probe" THEN Probe!Init ELSE ProbeOff
    /\ IF running = "container" THEN Container!Init ELSE ContainerOff
    /\ IF running = "objects" THEN Objects!Init ELSE ObjectsOff
    /\ IF running = "repo" THEN Repo!Init ELSE RepoOff
    /\ running \notin {"flags", "probe"} => at = Off
    /\ running \notin {"container", "objects"} => pc = Off
    /\ running \notin {"objects", "repo"} => faults = Off

\* One heartbeat at a time fails to observe something; the other goes as it should.
OneMisses == Cardinality({b \in Two : missed[b] # {}}) <= 1

SuiteNext ==
    /\ UNCHANGED running
    /\ \/ running = "calls" /\ Next /\ UNCHANGED otherVars
       \/ /\ running = "flags" /\ Flags!Next
          /\ UNCHANGED <<vars, probeVars, containerVars, objectVars, repoVars, pc, faults>>
       \/ /\ running = "probe" /\ Probe!Next /\ OneMisses'
          /\ UNCHANGED <<vars, flagVars, containerVars, objectVars, repoVars, pc, faults>>
       \/ /\ running = "container" /\ Container!Next
          /\ UNCHANGED <<vars, flagVars, probeVars, objectVars, repoVars, at, faults>>
       \/ /\ running = "objects" /\ Objects!Next
          /\ UNCHANGED <<vars, flagVars, probeVars, containerVars, repoVars, at>>
       \/ /\ running = "repo" /\ Repo!Next
          /\ UNCHANGED <<vars, flagVars, probeVars, containerVars, objectVars, at, pc>>

SuiteSpec == SuiteInit /\ [][SuiteNext]_suiteVars
-----------------------------------------------------------------------------
\* Flags found in time in the cache are at most the time to live old, and no failure takes
\* rules away that were there (feature_flag_service.py).
FlagsFresh ==
    [][running = "flags" => Flags!HitIsFresh /\ Flags!FailureKeepsRules]_suiteVars

\* Every eviction and every restart of Redis that a sample has seen is told, however heartbeats
\* overlap, but for what a failing expire takes with it, and one that says "ok" observed what
\* it reports (operability_probe.py).
RedisWatched ==
    running = "probe" => Probe!EvictionsTold /\ Probe!RestartsTold /\ Probe!OkMeansObserved

\* The services of a worker stay in its container's reach until it has closed them, and the
\* RAG service works with those the container will close; a provider that could not be made
\* stays so until the container is emptied (worker/dependencies.py).
NoServiceLost ==
    /\ [](running = "container" =>
             /\ Container!TypeOK
             /\ Container!RagIsOfTheContainer /\ Container!NothingLost /\ Container!CleanStop)
    /\ [][running = "container" => Container!FailsForGoodStep]_suiteVars

\* What can be seen of an upload is all of it, the limit is exact, errors leave nothing, and
\* a reader keeps what he reads.
ObjectsWhole ==
    running = "objects" =>
        /\ Objects!SavedWhole /\ Objects!LimitIsExact
        /\ Objects!NothingLeft /\ Objects!ReaderKeepsCopy

\* A run that succeeded has its report, whose claims are in its evidence; the task of the task
\* list ends once, and when nothing raises it agrees with the run.
AnalysisAgrees ==
    /\ [](running = "repo" =>
             /\ Repo!TypeOK /\ Repo!SuccessHasReport /\ Repo!CitesItsEvidence
             /\ faults = 0 => Repo!RunAndTaskAgree)
    /\ [][running = "repo" => Repo!EndsOnceStep]_suiteVars
=============================================================================

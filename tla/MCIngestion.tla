----------------------------- MODULE MCIngestion -----------------------------
(***************************************************************************)
(* The ingestion pipeline, in the four parts of the question that are      *)
(* small enough to be explored to the end.  A behaviour is of one part:    *)
(* "running" is chosen at the start and says who moves and what fails.     *)
(* The other processes are there and rest.                                 *)
(***************************************************************************)
EXTENDS KnowledgeIngestion, TLC

CONSTANT OneRelay    \* the publisher that moves where only one does

VARIABLE running
suiteVars == <<vars, running>>

Symmetry == Permutations(Tasks) \cup Permutations(Workers)

\* Workers, relay and reconciler crash, the broker refuses messages.
Crashes == INSTANCE KnowledgeIngestion
              WITH Publishers <- {OneRelay}, Unowned <- {}, MaxReplays <- 0, MaxQueue <- 1,
                   RelayFaults <- {"crash"}, WorkerFaults <- {"crash"}

\* Database errors, commits of unknown outcome and files without an owner.
Faults == INSTANCE KnowledgeIngestion
             WITH Publishers <- {OneRelay}, MaxPublish <- 1, MaxReplays <- 0, RelayFaults <- {},
                  WorkerFaults <- {"crash", "db", "commit"}

\* A manual replay among the failures of workers that follow each other.
Replays == INSTANCE KnowledgeIngestion
              WITH Publishers <- {OneRelay}, Unowned <- {},
                   MaxPublish <- 1, MaxQueue <- 1, MaxIngest <- 1, RelayFaults <- {},
                   WorkerFaults <- {"db"}

\* Two publishers race over one row, whatever the callers of the outbox do.
Race ==
    /\ OutboxNext
    /\ \E t \in Tasks : \A u \in Tasks \ {t} : outbox'[u].status = "NONE"
    /\ UNCHANGED coreVars

SuiteInit == running \in {"crashes", "faults", "replays", "race"} /\ Init

SuiteNext ==
    /\ \/ running = "crashes" /\ Crashes!Next
       \/ running = "faults" /\ Faults!Next
       \/ running = "replays" /\ Replays!Next
             /\ \A w, v \in Workers : worker'[w] # Idle /\ worker'[v] # Idle => w = v
       \/ running = "race" /\ Race
    /\ UNCHANGED running

SuiteSpec == SuiteInit /\ [][SuiteNext]_suiteVars

\* The whole pipeline under its fairness.
LiveInit == running = "live" /\ Init
LiveNext == Next /\ UNCHANGED running
LiveSpec == LiveInit /\ [][LiveNext]_suiteVars /\ Fairness
=============================================================================

---------------------------- MODULE RepoAnalysis ----------------------------
(***************************************************************************)
(* The README check of a GitHub repository: the web process creates a run  *)
(* with its task and puts a message in the queue, a worker fetches, judges *)
(* and stores a report.  There is no outbox, lease or reconciler here: a   *)
(* run is written by whoever got to it, and its row carries no guard.      *)
(***************************************************************************)
EXTENDS Naturals, FiniteSets

CONSTANTS
    Runs, Workers,
    Readmes,            \* the READMEs there may be: [claims, long, missing]
    None,
    MaxFaults, MaxCrashes   \* bounds of the model

VARIABLES
    run,        \* per run: [status, error], or None: repo_analysis_runs
    task,       \* per run: the status of its task, or None: task_jobs
    result,     \* per run: its row of repo_analysis_results, or None
    queue,      \* the runs whose message waits in the Redis list
    web,        \* per run: where the submit workflow is, and the run as it read it
    worker,     \* per worker: [st, run, read, outcome]
    faults, crashes

vars == <<run, task, result, queue, web, worker, faults, crashes>>

Errors == {"GITHUB_REQUEST_FAILED", "GITHUB_REPO_NOT_FOUND", "GITHUB_RATE_LIMITED", "GITHUB_API_ERROR",
           "GITHUB_INVALID_RESPONSE", "GITHUB_README_NOT_FOUND"}
Least(a, b) == IF a < b THEN a ELSE b

\* _interesting_lines: lines with a keyword, or, without one, up to five long lines.
Interesting(readme) == IF readme.claims > 0 THEN readme.claims ELSE Least(readme.long, 5)

\* RepoEvidenceExtractor.extract: what each item stands for is left out, the ids are kept.
Evidence(readme) ==
    [claims  |-> {<<"readme_claim", i>> : i \in 1..Least(Interesting(readme), 8)},
     missing |-> {<<"missing_signal", i>> : i \in 1..readme.missing}]

\* _fallback_assessment: the items its findings refer to.
FallbackRefs(readme) ==
    {<<"readme_claim", i>> : i \in 1..Least(3, Cardinality(Evidence(readme).claims))}
        \cup {<<"missing_signal", i>> : i \in 1..Least(4, Cardinality(Evidence(readme).missing))}

\* analyze: the model's answer when it comes and has the schema, else the fallback.
Reports == [by : {"pydantic_ai"}, readme : Readmes, refs : {{}}]
             \cup {[by |-> "fallback", readme |-> r, refs |-> FallbackRefs(r)] : r \in Readmes}

Run == [status : {"pending", "running", "succeeded", "failed"},
        error : Errors \cup {None, "dispatch", "database"}]
TaskStatus == {"PENDING", "PROCESSING", "COMPLETED", "FAILED"}

RepoAssumption ==
    /\ {MaxFaults, MaxCrashes} \subseteq Nat
    /\ \A r \in Readmes : r.claims \in Nat /\ r.long \in Nat /\ r.missing \in 0..4
    /\ None \notin Run \cup TaskStatus \cup Reports \cup Errors \cup Runs

Nowhere == [st |-> "idle", run |-> None, read |-> None, outcome |-> None]

Init ==
    /\ run = [r \in Runs |-> None] /\ task = [r \in Runs |-> None] /\ result = [r \in Runs |-> None]
    /\ queue = {}
    /\ web = [r \in Runs |-> [st |-> "idle", read |-> None]]
    /\ worker = [w \in Workers |-> Nowhere]
    /\ faults = 0 /\ crashes = 0

Rows == <<run, task, result>>
Bounds == <<faults, crashes>>

\* submit: run, task and the link between them in one transaction.
Submit(r) ==
    /\ web[r].st = "idle"
    /\ run' = [run EXCEPT ![r] = [status |-> "pending", error |-> None]]
    /\ task' = [task EXCEPT ![r] = "PENDING"]
    /\ web' = [web EXCEPT ![r].st = "enqueue"]
    /\ UNCHANGED <<result, queue, worker, Bounds>>

Enqueue(r) ==
    /\ web[r].st = "enqueue"
    /\ queue' = queue \cup {r}
    /\ web' = [web EXCEPT ![r].st = "accepted"]
    /\ UNCHANGED <<Rows, worker, Bounds>>

\* The push raises: the message is not in the list, or it is and the answer was lost.
EnqueueRaises(r) ==
    /\ web[r].st = "enqueue" /\ faults < MaxFaults
    /\ faults' = faults + 1
    /\ queue' \in {queue, queue \cup {r}}
    /\ web' = [web EXCEPT ![r] = [st |-> "failing", read |-> None]]
    /\ UNCHANGED <<Rows, worker, crashes>>

\* Each transaction on a run reads the row first and updates it by its key when it flushes.
WebReads(r) ==
    /\ web[r].st = "failing" /\ web[r].read = None
    /\ web' = [web EXCEPT ![r].read = run[r]]
    /\ UNCHANGED <<Rows, queue, worker, Bounds>>

\* _update_status, as the session flushes it: the columns that differ from what was read.
Flushed(now, read, status, error) ==
    [status |-> IF status = read.status THEN now.status ELSE status,
     error |-> IF error = read.error THEN now.error ELSE error]

Failed(now, read, error) == Flushed(now, read, "failed", error)

\* _transition_status of the task.
Transition(r, from, to) == task' = [task EXCEPT ![r] = IF @ \in from THEN to ELSE @]
Fails(r) == Transition(r, {"PENDING", "PROCESSING"}, "FAILED")

WebFails(r) ==
    /\ web[r].st = "failing" /\ web[r].read # None
    /\ run' = [run EXCEPT ![r] = Failed(@, web[r].read, "dispatch")]
    /\ Fails(r)
    /\ web' = [web EXCEPT ![r].st = "rejected"]
    /\ UNCHANGED <<result, queue, worker, Bounds>>

\* The web process dies before the message is out, or before the failure is written
\* (or the transaction that writes it raises).
WebDies(r) ==
    /\ web[r].st \in {"enqueue", "failing"} /\ crashes < MaxCrashes
    /\ crashes' = crashes + 1
    /\ web' = [web EXCEPT ![r].st = "dead"]
    /\ UNCHANGED <<Rows, queue, worker, faults>>

Stays == UNCHANGED <<queue, web, Bounds>>
Goes(w, st) == [worker EXCEPT ![w].st = st]

\* The message leaves the list when a worker takes it.
Popped(r) == queue \ {r}

Take(w) == \E r \in queue :
    /\ worker[w].st = "idle"
    /\ queue' = Popped(r)
    /\ worker' = [worker EXCEPT ![w] = [Nowhere EXCEPT !.st = "start", !.run = r, !.read = run[r]]]
    /\ UNCHANGED <<Rows, web, Bounds>>

Startable == {"PENDING"}

\* mark_running and mark_processing, whatever the run's status is.
Start(w) == LET r == worker[w].run IN
    /\ worker[w].st = "start"
    /\ run' = [run EXCEPT ![r] = Flushed(@, worker[w].read, "running", None)]
    /\ Transition(r, Startable, "PROCESSING")
    /\ worker' = Goes(w, "collect")
    /\ UNCHANGED result /\ Stays

\* collect, extract, analyze and render: an error of GitHub, or a report.
Analyze(w) ==
    /\ worker[w].st = "collect"
    /\ \/ \E report \in Reports :
            worker' = [worker EXCEPT ![w].st = "save", ![w].outcome = report, ![w].read = None]
       \/ \E error \in Errors :
            worker' = [worker EXCEPT ![w].st = "fail", ![w].outcome = error, ![w].read = None]
    /\ UNCHANGED Rows /\ Stays

WorkerReads(w) ==
    /\ worker[w].st \in {"save", "fail"} /\ worker[w].read = None
    /\ worker' = [worker EXCEPT ![w].read = run[worker[w].run]]
    /\ UNCHANGED Rows /\ Stays

\* Mutant: the report is left to a transaction of its own.
NoReport(r, report) == result' = result
\* create_result.
Stores(r, report) == result' = [result EXCEPT ![r] = report]

\* save_success and mark_completed.
Saved(w) == LET r == worker[w].run IN
    /\ run' = [run EXCEPT ![r] = Flushed(@, worker[w].read, "succeeded", None)]
    /\ Stores(r, worker[w].outcome)
    /\ Transition(r, {"PROCESSING"}, "COMPLETED")

CanSave(w) == worker[w].st = "save" /\ worker[w].read # None

Save(w) ==
    /\ CanSave(w) /\ Saved(w)
    /\ worker' = [worker EXCEPT ![w] = Nowhere]
    /\ Stays

\* The save raises; its transaction may be committed all the same.
SaveRaises(w) ==
    /\ CanSave(w) /\ faults < MaxFaults
    /\ faults' = faults + 1
    /\ Saved(w) \/ UNCHANGED Rows
    /\ worker' = [worker EXCEPT ![w].st = "fail", ![w].outcome = "database", ![w].read = None]
    /\ UNCHANGED <<queue, web, crashes>>

\* _mark_failed.
Fail(w) == LET r == worker[w].run IN
    /\ worker[w].st = "fail" /\ worker[w].read # None
    /\ run' = [run EXCEPT ![r] = Failed(@, worker[w].read, worker[w].outcome)]
    /\ Fails(r)
    /\ worker' = [worker EXCEPT ![w] = Nowhere]
    /\ UNCHANGED result /\ Stays

\* A worker dies with its run and another process takes its place; a first or a failing
\* transaction that raises has the same effect, for nothing is caught around them.
WorkerDies(w) ==
    /\ worker[w].st # "idle" /\ crashes < MaxCrashes
    /\ crashes' = crashes + 1
    /\ worker' = [worker EXCEPT ![w] = Nowhere]
    /\ UNCHANGED <<Rows, queue, web, faults>>

WorkerStep(w) == Take(w) \/ Start(w) \/ Analyze(w) \/ WorkerReads(w) \/ Save(w) \/ Fail(w)
WebStep(r) == Enqueue(r) \/ WebReads(r) \/ WebFails(r)

Next ==
    \/ \E r \in Runs : Submit(r) \/ WebStep(r) \/ EnqueueRaises(r) \/ WebDies(r)
    \/ \E w \in Workers : WorkerStep(w) \/ SaveRaises(w) \/ WorkerDies(w)

Fairness == /\ \A r \in Runs : WF_vars(WebStep(r))
            /\ \A w \in Workers : WF_vars(WorkerStep(w))
Safety == Init /\ [][Next]_vars
Spec == Safety /\ Fairness

-----------------------------------------------------------------------------
\* Every variable has its type; a run has a task from the start, and at most one worker
\* (repo_analysis_repo.py, task_repo.py).
TypeOK ==
    /\ \A r \in Runs :
         /\ run[r] \in Run \cup {None} /\ task[r] \in TaskStatus \cup {None}
         /\ result[r] \in Reports \cup {None}
         /\ (run[r] = None) <=> (task[r] = None)
    /\ queue \subseteq Runs
    /\ \A w \in Workers : worker[w].st \in {"idle", "start", "collect", "save", "fail"}
    /\ \A v, w \in Workers : (worker[v].run # None /\ v # w) => worker[v].run # worker[w].run

\* What a report rests on is in its evidence: the fallback refers to no item that the page
\* it was made from does not have (analyzer.py:116-143, evidence.py:32-43).
CitesItsEvidence ==
    \A r \in Runs : result[r] # None =>
        LET e == Evidence(result[r].readme) IN result[r].refs \subseteq e.claims \cup e.missing

\* Whatever raises or dies, a run that reports success has its report, and nothing replaces a
\* task's end (worker_workflow.py:85-94).
SuccessHasReport == \A r \in Runs : (run[r] # None /\ run[r].status = "succeeded") => result[r] # None

EndsOnceStep ==
    \A r \in Runs : task[r] \in {"COMPLETED", "FAILED"} => task'[r] = task[r]
EndsOnce == [][EndsOnceStep]_vars

\* The user polls the run, the task list shows the task: when nothing raises they agree once
\* the worker is done, and an error is there just when the run failed
\* (submit_workflow.py:36-74, worker_workflow.py:46-115).
RunAndTaskAgree ==
    \A r \in Runs : run[r] # None =>
        /\ (run[r].status = "succeeded") <=> (task[r] = "COMPLETED")
        /\ (run[r].status = "failed") <=> (task[r] = "FAILED")
        /\ (run[r].error # None) <=> (run[r].status = "failed")

\* When no process dies, every run that was submitted ends, its push failed or not
\* (submit_workflow.py:58-75, worker_workflow.py:95-97).
EveryRunEnds ==
    \A r \in Runs : run[r] # None ~> (run[r] # None /\ run[r].status \in {"succeeded", "failed"})
=============================================================================

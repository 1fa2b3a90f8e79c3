----------------------------- MODULE MCLiveness -----------------------------
(***************************************************************************)
(* What must come to an end: an accepted question (ChatGeneration, as a    *)
(* refinement of GenerationLifecycle), the stream or the answer its user   *)
(* waits for (ChatStream, ChatNonStream), a call of a provider             *)
(* (ProviderCalls), an analysis (RepoAnalysis), a transaction (RowLocks),  *)
(* a worker's stop (WorkerContainer), the expiry of credits (Credits) and  *)
(* the cutting of a long block (FixedWindow).  They share no state: a      *)
(* behaviour runs one of them under the fairness its own module states,    *)
(* and the variables of the others are Off.                                *)
(***************************************************************************)
EXTENDS ChatGeneration, TLC

CONSTANTS
    Deliveries,      \* of ChatStream and ChatNonStream
    Nobody,
    None,
    Off        \* the value of a variable of a component that is not running

\* ChatStream and ChatNonStream; RepoAnalysis has run, web and faults too.
VARIABLES status, queued, run, web, sideFaults
VARIABLES published, inbox
VARIABLES task, answer, idempotency, result
VARIABLES breaker, call, free, failures, cancels          \* of ProviderCalls
VARIABLES waiting, analyst, crashes                       \* of RepoAnalysis
VARIABLES fresh, kind, next, since, st                    \* of RowLocks
VARIABLES held, errors, rerankFailed, rag, closing, walk, started, open, made, late
VARIABLES day, balance, used, grants, expired, usage, gen, work, expiry
VARIABLES length, seps, overlap, start, upto, pieces
VARIABLE pc        \* of WorkerContainer and FixedWindow
VARIABLE running

chatVars == <<status, queued, run, web, sideFaults, published, inbox, task, answer, idempotency,
              result, waiting, analyst, crashes>>
callVars == <<breaker, call, free, failures, cancels>>
lockVars == <<fresh, kind, next, since, st>>
containerVars == <<held, errors, rerankFailed, rag, closing, walk, started, open, made, late>>
creditVars == <<day, balance, used, grants, expired, usage, gen, work, expiry>>
windowVars == <<length, seps, overlap, start, upto, pieces>>
sideVars == <<chatVars, callVars, lockVars, containerVars, creditVars, windowVars, pc>>
suiteVars == <<vars, sideVars, running>>

Two == {"h1", "h2"}

Stream == INSTANCE ChatStream
            WITH MaxEvents <- 2, MaxFaults <- 2, faults <- sideFaults,
                 Faults <- {"generation", "database", "redis", "cancel", "lease", "client"}
NonStream == INSTANCE ChatNonStream
            WITH Handlers <- Two, MaxFaults <- 1, key <- idempotency, faults <- sideFaults,
                 Faults <- {"broker", "database", "generation", "crash", "lease"}
Provider == INSTANCE ProviderCalls
            WITH Calls <- Two, Route <- 2, Threshold <- 1, HalfOpenMax <- 1,
                 MaxConcurrency <- 1, MaxFailures <- 3, MaxCancels <- 0
Repo == INSTANCE RepoAnalysis
            WITH Runs <- Two, Workers <- {"w1"}, MaxFaults <- 2, MaxCrashes <- 0,
                 Readmes <- {[claims |-> 0, long |-> 1, missing |-> 2]},
                 queue <- waiting, worker <- analyst, faults <- sideFaults
Locks == INSTANCE RowLocks
            WITH Txs <- {"t1", "t2"},
                 Kinds <- {"ask", "settle", "unpaid", "fail", "retry", "recover", "merge",
                           "checkin", "open", "expire", "expire2", "ingest", "remove"}
Container == INSTANCE WorkerContainer WITH Providers <- {"named"}, MaxMade <- 1
Nightly == INSTANCE Credits
            WITH Users <- {"ann"}, Messages <- {"m1"}, Owner <- [m \in {"m1"} |-> "ann"],
                 Workers <- {"w1"}, NoMessage <- None, NoUsage <- None,
                 Grant <- 2, ValidDays <- 2, Ratio <- 2, Unit <- 4, MaxTokens <- 2,
                 Estimates <- {1}, Bills <- {3}, MaxDay <- 3, MaxFaults <- 1
Windows == INSTANCE FixedWindow WITH Lengths <- 0..9, Size <- 6, Overlaps <- {3, 5}

ASSUME LivenessSuiteAssumption ==
    /\ Stream!StreamAssumption /\ NonStream!NonStreamAssumption /\ Repo!RepoAssumption
    /\ Container!WorkerAssumption /\ Nightly!CreditsAssumption /\ Windows!WindowAssumption

SideOff ==
    /\ running \notin {"stream", "nonstream"} => status = Off /\ queued = Off
    /\ running \notin {"stream", "nonstream", "repo"} => run = Off /\ web = Off /\ sideFaults = Off
    /\ running # "stream" => published = Off /\ inbox = Off
    /\ running # "nonstream" => answer = Off /\ idempotency = Off
    /\ running \notin {"nonstream", "repo"} => task = Off /\ result = Off
    /\ running # "repo" => waiting = Off /\ analyst = Off /\ crashes = Off
CallsOff == breaker = Off /\ call = Off /\ free = Off /\ failures = Off /\ cancels = Off
LocksOff == fresh = Off /\ kind = Off /\ next = Off /\ since = Off /\ st = Off
ContainerOff ==
    /\ held = Off /\ errors = Off /\ rerankFailed = Off /\ rag = Off /\ closing = Off
    /\ walk = Off /\ started = Off /\ open = Off /\ made = Off /\ late = Off
CreditsOff ==
    /\ day = Off /\ balance = Off /\ used = Off /\ grants = Off /\ expired = Off
    /\ usage = Off /\ gen = Off /\ work = Off /\ expiry = Off
WindowsOff == length = Off /\ seps = Off /\ overlap = Off /\ start = Off /\ upto = Off /\ pieces = Off

SuiteInit ==
    /\ running \in {"generation", "stream", "nonstream", "calls", "repo", "locks", "container",
                    "expiry", "windows"}
    /\ Init
    /\ CASE running = "stream" -> Stream!Init
         [] running = "nonstream" -> NonStream!Init
         [] running = "repo" -> Repo!Init
         [] OTHER -> TRUE
    /\ SideOff
    /\ IF running = "calls" THEN Provider!Init ELSE CallsOff
    /\ IF running = "locks" THEN Locks!Init ELSE LocksOff
    /\ IF running = "container" THEN Container!Init ELSE ContainerOff
    /\ IF running = "expiry" THEN Nightly!Init ELSE CreditsOff
    /\ IF running = "windows" THEN Windows!Init ELSE WindowsOff
    /\ running \notin {"container", "windows"} => pc = Off

SuiteNext ==
    /\ UNCHANGED running
    /\ \/ running = "generation" /\ Next /\ UNCHANGED sideVars
       \/ /\ UNCHANGED <<vars, callVars, lockVars, containerVars, creditVars, windowVars, pc>>
          /\ \/ /\ running = "stream" /\ Stream!Next
                /\ UNCHANGED <<task, answer, idempotency, result, waiting, analyst, crashes>>
             \/ /\ running = "nonstream" /\ NonStream!Next
                /\ UNCHANGED <<published, inbox, waiting, analyst, crashes>>
             \/ /\ running = "repo" /\ Repo!Next
                /\ UNCHANGED <<status, queued, published, inbox, answer, idempotency>>
       \/ /\ running = "calls" /\ Provider!Next
          /\ UNCHANGED <<vars, chatVars, lockVars, containerVars, creditVars, windowVars, pc>>
       \/ /\ running = "locks" /\ Locks!Next
          /\ UNCHANGED <<vars, chatVars, callVars, containerVars, creditVars, windowVars, pc>>
       \/ /\ running = "container" /\ Container!Next
          /\ UNCHANGED <<vars, chatVars, callVars, lockVars, creditVars, windowVars>>
       \/ /\ running = "expiry" /\ Nightly!Next
          /\ UNCHANGED <<vars, chatVars, callVars, lockVars, containerVars, windowVars, pc>>
       \/ /\ running = "windows" /\ Windows!Step
          /\ UNCHANGED <<vars, chatVars, callVars, lockVars, containerVars, creditVars>>

\* The fairness each module states, of the component that runs.
streamVars == <<status, queued, run, web, sideFaults, published, inbox>>
nonStreamVars == <<status, queued, run, web, sideFaults, task, answer, idempotency, result>>
repoVars == <<run, web, sideFaults, task, result, waiting, analyst, crashes>>

ChatFairness ==
    /\ \A h \in Handlers : WF_vars(running = "generation" /\ HandlerStep(h))
    /\ \A w \in Workers : WF_vars(running = "generation" /\ WorkerEnds(w))
    /\ \A c \in Reconcilers : WF_vars(running = "generation" /\ Reconcile(c))
    /\ \A r \in Requests : WF_vars(running = "generation" /\ RequestDue(r))
    /\ WF_streamVars(running = "stream" /\ Stream!WebStep)
    /\ \A d \in Deliveries : WF_streamVars(running = "stream" /\ Stream!RunStep(d))
    /\ \A h \in Two : WF_nonStreamVars(running = "nonstream" /\ NonStream!HandlerStep(h))
    /\ \A d \in Deliveries : WF_nonStreamVars(running = "nonstream" /\ NonStream!RunStep(d))
WorkFairness ==
    /\ \A c \in Two : /\ SF_callVars(running = "calls" /\ Provider!TakeSlot(c))
                      /\ WF_callVars(running = "calls" /\ Provider!CallStep(c))
    /\ \A k \in 1..2 : WF_callVars(running = "calls" /\ Provider!CoolDown(k))
    /\ \A r \in Two : WF_repoVars(running = "repo" /\ Repo!WebStep(r))
    /\ WF_repoVars(running = "repo" /\ Repo!WorkerStep("w1"))
    /\ WF_lockVars(running = "locks" /\ Locks!Next)
    /\ WF_<<containerVars, pc>>(running = "container" /\ Container!Closed)
    /\ WF_creditVars(running = "expiry" /\ Nightly!Expiry)
    /\ WF_creditVars(running = "expiry" /\ Nightly!NewDay)
    /\ WF_<<windowVars, pc>>(running = "windows" /\ Windows!Step)

SuiteSpec == SuiteInit /\ [][SuiteNext]_suiteVars /\ ChatFairness /\ WorkFairness
-----------------------------------------------------------------------------
\* Whoever waits gets an end, and keeps it: the stream ends also when events are lost, a handler
\* without a stream also when its result is, and so does every delivery that was taken
\* (web_stream_workflow.py, web_nonstream_workflow.py).
AnswersEnd ==
    <>[](/\ running = "stream" => /\ web.pc = "closed"
                                  /\ \A d \in Deliveries : run[d] \in {"waiting", "ended"}
         /\ running = "nonstream" => /\ \A h \in Two : web[h].pc = "ended"
                                     /\ \A d \in Deliveries : /\ d \notin queued
                                                              /\ run[d] \in {"waiting", "ended"})

\* What is begun ends: an analysis, when no process dies; every transaction, deadlocked or not,
\* and one of them commits; a worker's stop; the credits on record, all that have expired having
\* been spent or taken; and the loop over a long block.  Calls of a provider get their slot and end
\* again and again, and the breaker of the first provider, which every call tries, closes again.
WorkEnds ==
    /\ <>[](/\ running = "repo" => \A r \in Two :
                  run[r] = None \/ run[r].status \in {"succeeded", "failed"}
            /\ running = "locks" => /\ \A t \in DOMAIN st : st[t] # "open"
                                    /\ \E t \in DOMAIN st : st[t] = "committed"
            /\ running = "container" => pc # "closing"
            /\ running = "expiry" =>
                  (day = 3 => Nightly!ExpiredGrants("ann", day)
                                 <= Nightly!Spent("ann") + expired["ann"])
            /\ running = "windows" => pc = "done")
    /\ \A c \in Two : []<>(running = "calls" => call[c].st \in {"idle", "answered", "failed"})
    /\ []<>(running = "calls" => breaker[1].state = "closed")
=============================================================================

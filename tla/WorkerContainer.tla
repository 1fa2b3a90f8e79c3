--------------------------- MODULE WorkerContainer ---------------------------
(***************************************************************************)
(* The services a worker process makes on first use and keeps for all its  *)
(* tasks, and their release when the process is told to stop.  The tasks   *)
(* share one event loop: a getter is atomic, and close() gives way at      *)
(* each service it closes.  Tasks that outlast the wait for them are still *)
(* running then.                                                           *)
(***************************************************************************)
EXTENDS Integers, FiniteSets

CONSTANTS
    Providers,      \* LLM providers a request may name
    None,
    MaxMade         \* bound: services made for a slot in the life of the process

WorkerAssumption ==
    /\ MaxMade \in Nat
    /\ Providers \cap {"llm", "embedder", "external", "rerank", "engine"} = {}
    /\ LET slots == Providers \cup {"llm", "embedder", "external", "rerank", "engine"}
       IN /\ None \notin slots /\ None \notin slots \X Nat
          /\ None \notin [embedder : slots \X Nat, reranker : (slots \X Nat) \cup {None}]

Tail == <<"embedder", "external", "rerank", "engine">>     \* closed after the LLM services, in this order
Slots == Providers \cup {"llm", "embedder", "external", "rerank", "engine"}

VARIABLES
    held,           \* per slot: the cached service, or None
    errors,         \* providers whose first error is remembered
    rerankFailed,
    rag,            \* the RAG service: the embedder and reranker it was given, or None
    pc,             \* "running", "closing", "closed", "failed"
    closing,        \* the slot whose close() is awaited, or None
    walk, started,  \* providers close() has yet to visit; those it found at the loop's start
    open, made,     \* services not closed, and how many were made per slot
    late            \* services made after the stop was told

cache == <<held, errors, rerankFailed, rag>>
stop == <<pc, closing, walk, started>>
vars == <<cache, stop, open, made, late>>

Kept(h) == {p \in Providers : h[p] # None}
Empty == [s \in Slots |-> None]

Init ==
    /\ held = Empty /\ errors = {} /\ rerankFailed = FALSE /\ rag = None
    /\ pc = "running" /\ closing = None /\ walk = {} /\ started = {}
    /\ open = {} /\ made = [s \in Slots |-> 0] /\ late = {}

(***************************************************************************)
(* Getters.                                                                *)
(***************************************************************************)
\* The slots `new` are filled by one call.
Make(new) ==
    /\ \A s \in new : made[s] < MaxMade
    /\ held' = [s \in Slots |-> IF s \in new THEN <<s, made[s]>> ELSE held[s]]
    /\ open' = open \cup {<<s, made[s]>> : s \in new}
    /\ made' = [s \in Slots |-> IF s \in new THEN made[s] + 1 ELSE made[s]]
    /\ late' = IF pc = "running" THEN late ELSE late \cup {<<s, made[s]>> : s \in new}

Missing(wanted) == {s \in wanted : held[s] = None}

\* A default LLM service, embedder, web search or engine; an error is raised and not kept.
Get(s) ==
    /\ s \in {"llm", "embedder", "external", "engine"} /\ Missing({s}) # {}
    /\ Make({s}) /\ UNCHANGED <<errors, rerankFailed, rag, stop>>

GetProvider(p) ==
    /\ p \notin errors /\ Missing({p}) # {}
    /\ \/ Make({p}) /\ UNCHANGED errors
       \/ errors' = errors \cup {p} /\ UNCHANGED <<held, open, made, late>>
    /\ UNCHANGED <<rerankFailed, rag, stop>>

\* The reranker is made, or fails for good; the embedder may then raise.
GetRag ==
    /\ rag = None
    /\ \E ok \in BOOLEAN, fails \in BOOLEAN :
        LET reranks == (ok /\ ~rerankFailed) \/ held["rerank"] # None
            new == Missing({"engine"} \cup (IF reranks THEN {"rerank"} ELSE {}) \cup (IF fails THEN {} ELSE {"embedder"}))
        IN  /\ fails => held["embedder"] = None
            /\ rerankFailed' = ~reranks
            /\ Make(new)
            /\ rag' = IF fails THEN None ELSE [embedder |-> held'["embedder"], reranker |-> held'["rerank"]]
    /\ UNCHANGED <<errors, stop>>

(***************************************************************************)
(* The stop.                                                               *)
(***************************************************************************)
FirstHeld(i) == {Tail[j] : j \in {k \in i .. 4 : held[Tail[k]] # None /\ \A m \in i .. k - 1 : held[Tail[m]] = None}}

\* Where close() awaits next, after the loop over the providers or within it.
After(left, i) == IF left # {} THEN left ELSE FirstHeld(i)

\* Mutant: the RAG service is kept.
ResetKeepsRag ==
    /\ held' = Empty /\ errors' = {} /\ rerankFailed' = FALSE /\ UNCHANGED rag
    /\ pc' = "closed" /\ closing' = None /\ walk' = {} /\ started' = {}

Reset ==
    /\ held' = Empty /\ errors' = {} /\ rerankFailed' = FALSE /\ rag' = None
    /\ pc' = "closed" /\ closing' = None /\ walk' = {} /\ started' = {}

\* Goes on with one of `left`, or with Tail from i on, or is done.
Proceed(left, found, i) ==
    IF After(left, i) = {}
    THEN Reset
    ELSE \E s \in After(left, i) :
        /\ closing' = s /\ walk' = left \ {s} /\ started' = found /\ pc' = "closing" /\ UNCHANGED cache

Stop ==
    /\ pc = "running"
    /\ IF held["llm"] # None
       THEN pc' = "closing" /\ closing' = "llm" /\ UNCHANGED <<walk, started, cache>>
       ELSE Proceed(Kept(held), Kept(held), 1)
    /\ UNCHANGED <<open, made, late>>

Abandon == pc' = "failed" /\ closing' = None /\ UNCHANGED <<cache, walk, started>>

\* A dictionary that grew under the loop raises.
Closed ==
    /\ pc = "closing" /\ open' = open \ {held[closing]}
    /\ IF closing = "llm" THEN Proceed(Kept(held), Kept(held), 1)
       ELSE IF closing \notin Providers
       THEN Proceed({}, started, 1 + CHOOSE j \in 1 .. 4 : Tail[j] = closing)
       ELSE IF Kept(held) # started THEN Abandon
       ELSE Proceed(walk, started, 1)
    /\ UNCHANGED <<made, late>>

\* close() of a service raises, or the stop is cancelled for its time.
CloseRaises ==
    /\ pc = "closing" /\ Abandon /\ UNCHANGED <<open, made, late>>

Next ==
    \/ \E s \in Slots : Get(s)
    \/ \E p \in Providers : GetProvider(p)
    \/ GetRag \/ Stop \/ Closed \/ CloseRaises

Fairness == WF_vars(Closed)
Safety == Init /\ [][Next]_vars
Spec == Safety /\ Fairness

(***************************************************************************)
(* Properties.                                                             *)
(***************************************************************************)
Service == Slots \X (0 .. MaxMade - 1)

\* The types of the state; every service that is cached was made, and close() awaits one that is cached.
TypeOK ==
    /\ held \in [Slots -> Service \cup {None}] /\ errors \subseteq Providers /\ rerankFailed \in BOOLEAN
    /\ rag \in {None} \cup [embedder : Service, reranker : Service \cup {None}]
    /\ pc \in {"running", "closing", "closed", "failed"} /\ closing \in Slots \cup {None}
    /\ (pc = "closing") <=> (closing # None)
    /\ (closing # None => held[closing] # None)
    /\ walk \subseteq Providers /\ started \subseteq Providers
    /\ made \in [Slots -> 0 .. MaxMade] /\ open \subseteq Service /\ late \subseteq Service
    /\ \A s \in Slots : held[s] # None => held[s][1] = s /\ held[s][2] < made[s]

\* The RAG service works with the embedder and the reranker the container holds and will close, however
\* often making one of them failed before, and whenever a late task asks for it (get_rag_service, close).
RagIsOfTheContainer == rag # None => rag.embedder = held["embedder"] /\ rag.reranker = held["rerank"]

\* Until the container is emptied, no open service is out of its reach: nothing is made twice for one use, and
\* nothing is dropped that close() has yet to visit (the caches of WorkerContainer).
NothingLost == pc # "closed" => \A r \in open : \E s \in Slots : held[s] = r

\* A stop that ends without an error leaves open at most what tasks made after it began (close).
CleanStop == pc = "closed" => open \subseteq late

\* A provider that could not be made is never made later in the life of the process, so its requests fail the
\* same way until the container is emptied (get_llm_service_for_provider).
FailsForGoodStep ==
    \A p \in errors : pc' # "closed" => p \in errors' /\ held'[p] = None
FailsForGood == [][FailsForGoodStep]_vars

\* The stop ends, however the tasks that outlast it interfere (close, under a loop that runs it).
StopEnds == (pc = "closing") ~> (pc \in {"closed", "failed"})

\* "Release cached resources owned by this worker process": after a stop nothing it could have released is
\* open, but for the one service whose close() raised.
ReleasesAll == pc \in {"closed", "failed"} => Cardinality(open \ late) <= 1
==============================================================================

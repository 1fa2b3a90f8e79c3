----------------------------- MODULE RagContext -----------------------------
(***************************************************************************)
(* How a worker prepares the context of a question: a plan (the settings'  *)
(* default, or a language model's proposal made consistent), the searches  *)
(* it selects, the rerank and the decision to refuse.  Every service on    *)
(* the way may fail, and the question must go on without it.               *)
(***************************************************************************)
EXTENDS RagEvidence

CONSTANTS
    Requests,       \* what a payload can ask for: see Request
    Proposals,      \* what the planner's model can return: see Proposal
    KbHits,         \* what the knowledge base returns: sequences of [score, both]
    WebHits,        \* what the web search returns: sequences of scores
    MaxRankings,    \* entries in the answer of a reranker
    TopK, RerankTopK, MinHits,
    None

Modes == {"auto", "kb_only", "web_only", "off"}
Flags == {"external", "rerank", "planner", "routing", "refusal"}
Request == [mode : Modes \cup {None}, legacy : BOOLEAN, kb : BOOLEAN, preloaded : BOOLEAN,
            query : {"empty", "plain", "realtime"}, flags : SUBSET Flags]
Proposal == [mode : Modes, sources : SUBSET {"kb", "web"}, rag : BOOLEAN, ext : BOOLEAN,
             refuse : BOOLEAN, sure : BOOLEAN, retrieval : {"vector", "fulltext", "hybrid"}, rerank : BOOLEAN]
Plan == [mode : Modes, sources : SUBSET {"kb", "web"}, refuse : BOOLEAN, sure : BOOLEAN,
         retrieval : {"vector", "fulltext", "hybrid"}, rerank : BOOLEAN]
Outcomes == {"prompt", "preflight", "evidence"}

RagAssumption ==
    /\ Requests \subseteq Request /\ Proposals \subseteq Proposal
    /\ {TopK, RerankTopK, MinHits} \subseteq Nat \ {0} /\ MaxRankings \in Nat
    /\ None \notin Modes \cup Plan \cup Proposal \cup Outcomes
    /\ \A h \in KbHits : h \in Seq([score : {0, 1}, both : BOOLEAN])
    /\ \A h \in WebHits : h \in Seq({0, 1})

VARIABLES
    pc,         \* what comes next
    req,        \* the payload
    plan,       \* the plan in force, None before there is one
    proposed,   \* what the planner's model returned, None when it did not
    kb, web,    \* candidates of the two searches
    chunks,     \* what is left of them after the rerank
    searched,   \* the searches that were really made
    fallback,   \* the rerank failed or was answered by its fallback
    steps,      \* the steps told to the user: sequence of <<step, status>>
    outcome     \* None, "prompt", "preflight" or "evidence" (a refusal)

vars == <<pc, req, plan, proposed, kb, web, chunks, searched, fallback, steps, outcome>>

Init ==
    /\ pc = "judge" /\ req \in Requests
    /\ plan = None /\ proposed = None
    /\ kb = <<>> /\ web = <<>> /\ chunks = <<>>
    /\ searched = {} /\ fallback = FALSE /\ steps = <<>> /\ outcome = None

Preloaded == <<[source |-> "kb", number |-> 1, score |-> 0, rerank |-> NoScore, retrieval |-> "vector", both |-> FALSE]>>

\* resolve_context_mode: a request without a mode has that of the old flag.
Mode(r) == IF r.mode # None THEN r.mode ELSE IF r.legacy THEN "auto" ELSE "kb_only"
\* is_external_context_allowed
Allowed(r) == Mode(r) \in {"auto", "web_only"} /\ (r.mode # None \/ r.legacy) /\ "external" \in r.flags

\* The sources a mode leaves.
InMode(mode, sources) ==
    {s \in sources : mode = "auto" \/ (mode = "kb_only" /\ s = "kb") \/ (mode = "web_only" /\ s = "web")}

\* sync_context_sources, then clamped: sources, flags and rerank of a proposal agree.
Synced(p) ==
    LET named == p.sources \cup {s \in {"kb"} : p.rag} \cup {s \in {"web"} : p.ext}
        sources == IF p.refuse THEN {} ELSE InMode(p.mode, named)
    IN [mode |-> p.mode, sources |-> sources, refuse |-> p.refuse, sure |-> p.sure,
        retrieval |-> p.retrieval, rerank |-> p.rerank /\ "kb" \in sources]

\* RAGExecutionPlan.from_settings
DefaultPlan(r) ==
    LET sources == IF r.query = "empty" THEN {}
                   ELSE {s \in {"kb"} : r.kb /\ Mode(r) \in {"auto", "kb_only"}} \cup {s \in {"web"} : Allowed(r)}
    IN [mode |-> Mode(r), sources |-> sources, refuse |-> FALSE, sure |-> TRUE,
        retrieval |-> IF "rerank" \in r.flags THEN "hybrid" ELSE "vector",
        rerank |-> "rerank" \in r.flags /\ "kb" \in sources]

\* _prefer_web_for_realtime_query
PreferWeb(r, p) ==
    IF Allowed(r) /\ p.mode = "auto" /\ ~p.refuse /\ r.query = "realtime"
      THEN [p EXCEPT !.sources = {"web"}, !.rerank = FALSE] ELSE p

\* The planner is asked: nothing was preloaded, there is a source to choose, and it is on.
AsksPlanner(r) ==
    /\ ~r.preloaded /\ r.query # "empty" /\ DefaultPlan(r).sources # {}
    /\ "planner" \in r.flags

\* A refusal of the planner counts where routing is on and the model is sure.
Usual(r, p) == p.refuse => "routing" \in r.flags /\ p.sure

\* build_rag_plan: the model's proposal, of whatever mode, or the default when it fails or must
\* not refuse.
Judge ==
    /\ pc = "judge"
    /\ steps' = steps \o << <<"router-judge", "running">>, <<"router-judge", "done">> >>
    /\ \/ /\ plan' = DefaultPlan(req)
          /\ UNCHANGED proposed
       \/ \E p \in Proposals :
            /\ AsksPlanner(req)
            /\ proposed' = p
            /\ LET made == PreferWeb(req, Synced(p))
               IN plan' = IF Usual(req, made) THEN made ELSE DefaultPlan(req)
    /\ pc' = "preflight"
    /\ UNCHANGED <<req, kb, web, chunks, searched, fallback, outcome>>

WantsKb == "kb" \in plan.sources
WantsWeb == "web" \in plan.sources
Tell(step, status) == << <<step, status>> >>

\* _build_planner_preflight_refusal
PreflightRefuses(r, p) == "routing" \in r.flags /\ ~r.preloaded /\ p.refuse /\ p.sure

Preflight ==
    /\ pc = "preflight"
    /\ IF PreflightRefuses(req, plan)
         THEN pc' = "done" /\ outcome' = "preflight" /\ UNCHANGED steps
         ELSE /\ pc' = "kb"
              /\ steps' = IF WantsKb THEN steps \o Tell("kb-search", "running") ELSE steps
              /\ UNCHANGED outcome
    /\ UNCHANGED <<req, plan, proposed, kb, web, chunks, searched, fallback>>

\* The mode _retrieve_from_rag_service searches in, and how many hits it asks for.
RetrievalMode == IF plan.retrieval = "vector" /\ plan.rerank THEN "hybrid" ELSE plan.retrieval

\* retrieve_rag_candidates: a failure leaves no candidate.
SearchKb ==
    /\ pc = "kb"
    /\ pc' = "web"
    /\ IF req.preloaded THEN kb' = Preloaded /\ UNCHANGED searched
       ELSE IF req.kb /\ WantsKb
         THEN /\ searched' = searched \cup {"kb"}
              /\ \E hits \in KbHits :
                   kb' = [i \in DOMAIN hits |->
                            [source |-> "kb", number |-> i, score |-> hits[i].score, rerank |-> NoScore,
                             retrieval |-> RetrievalMode, both |-> hits[i].both /\ RetrievalMode = "hybrid"]]
         ELSE UNCHANGED <<kb, searched>>
    /\ steps' = IF WantsWeb THEN steps \o Tell("web-search", "running") ELSE steps
    /\ UNCHANGED <<req, plan, proposed, web, chunks, fallback, outcome>>

\* Mutant: the web is searched for a caller that brought its evidence.
EvenPreloaded(r, p) == "external" \in r.flags /\ "web" \in p.sources
\* retrieve_external_context_candidates: what it asks of the request and of the plan.
SearchesWeb(r, p) == ~r.preloaded /\ "external" \in r.flags /\ "web" \in p.sources

SearchWeb ==
    /\ pc = "web"
    /\ pc' = "rerank"
    /\ IF SearchesWeb(req, plan)
         THEN /\ searched' = searched \cup {"web"}
              /\ \E hits \in WebHits :
                   web' = [i \in DOMAIN hits |->
                             [source |-> "web", number |-> i, score |-> hits[i], rerank |-> NoScore,
                              retrieval |-> "external", both |-> FALSE]]
         ELSE UNCHANGED <<web, searched>>
    /\ steps' = IF WantsWeb THEN steps \o Tell("web-search", "done") ELSE steps
    /\ UNCHANGED <<req, plan, proposed, kb, chunks, fallback, outcome>>

Rankings(n) == UNION {[1..k -> [index : 0..n, score : {0, 1}]] : k \in 0..MaxRankings}

\* Whether the user is told that the knowledge base's search is done.
KbDone == WantsKb

\* rerank_candidates_if_enabled, with RAGService.rerank.
Rerank ==
    /\ pc = "rerank"
    /\ pc' = "decide"
    /\ LET candidates == kb \o web IN
       \/ candidates = <<>> /\ UNCHANGED <<chunks, fallback>>
       \/ ~plan.rerank /\ chunks' = First(candidates, TopK) /\ UNCHANGED fallback
       \/ /\ plan.rerank /\ candidates # <<>>
          /\ \/ /\ \E rankings \in Rankings(Len(candidates)) :
                     chunks' = ApplyRankings(candidates, rankings, RerankTopK)
                /\ UNCHANGED fallback
             \/ /\ chunks' = FallbackCandidates(candidates, RerankTopK)
                /\ fallback' = TRUE
    /\ steps' = IF KbDone THEN steps \o Tell("kb-search", "done") ELSE steps
    /\ UNCHANGED <<req, plan, proposed, kb, web, searched, outcome>>

Decide ==
    /\ pc = "decide"
    /\ pc' = "done"
    /\ outcome' = IF /\ "refusal" \in req.flags
                     /\ MustRefuse(req.kb, WantsKb, WantsWeb, chunks, MinHits)
                    THEN "evidence" ELSE "prompt"
    /\ UNCHANGED <<req, plan, proposed, kb, web, chunks, searched, fallback, steps>>

Next == Judge \/ Preflight \/ SearchKb \/ SearchWeb \/ Rerank \/ Decide
Safety == Init /\ [][Next]_vars
Spec == Safety /\ WF_vars(Next)
-----------------------------------------------------------------------------
ChunkRow == [source : {"kb", "web"}, number : Nat, score : {0, 1}, rerank : {NoScore, 0, 1},
             retrieval : {"vector", "fulltext", "hybrid", "external"}, both : BOOLEAN]
\* Types: a plan is complete from the first step on, candidates carry the fields the policy reads.
TypeOK ==
    /\ pc \in {"judge", "preflight", "kb", "web", "rerank", "decide", "done"}
    /\ req \in Requests /\ plan \in Plan \cup {None} /\ proposed \in Proposal \cup {None}
    /\ \A s \in {kb, web, chunks} : \A i \in DOMAIN s : s[i] \in ChunkRow
    /\ searched \subseteq {"kb", "web"} /\ fallback \in BOOLEAN
    /\ steps \in Seq({"router-judge", "kb-search", "web-search"} \X {"running", "done"})
    /\ outcome \in Outcomes \cup {None}
    /\ (pc = "judge") = (plan = None)

\* The knowledge base is searched only for a question that names one, and the web only with the
\* feature's flag, whatever the planner's model returns; either only if the plan's mode has it,
\* and that mode is the request's unless the model said another (rag_planning_service.py:277).
SearchesAllowed ==
    /\ "kb" \in searched => req.kb /\ plan.mode \in {"auto", "kb_only"}
    /\ "web" \in searched => "external" \in req.flags /\ plan.mode \in {"auto", "web_only"}
    /\ plan # None /\ plan.mode # Mode(req) => proposed # None /\ proposed.mode = plan.mode

\* A caller's own candidates are what is answered from: no search, no refusal before them.
PreloadedKept ==
    req.preloaded =>
        /\ searched = {} /\ outcome # "preflight"
        /\ outcome # None => Len(chunks) = 1 /\ ~HasWeb(chunks)

\* A refusal of the planner is effective (routing on, model sure) and nothing is searched, or
\* it changes nothing: the default plan is then in force.
RefusalAllOrNothing ==
    proposed # None /\ proposed.refuse /\ outcome # None =>
        IF "routing" \in req.flags /\ proposed.sure THEN outcome = "preflight" /\ searched = {}
        ELSE plan = DefaultPlan(req)

\* Every step the user sees running is seen done by the time the context is ready, once.
StepsPaired ==
    outcome # None => \A k \in {"router-judge", "kb-search", "web-search"} :
        LET told == {i \in DOMAIN steps : steps[i][1] = k}
        IN told # {} => \E i, j \in told : /\ i < j /\ told = {i, j}
                                           /\ steps[i][2] = "running" /\ steps[j][2] = "done"

\* The rerank, whatever the service answers, loses no candidate there is room for and repeats none.
RerankKeeps ==
    outcome \in {"prompt", "evidence"} =>
        /\ Len(chunks) = Min({IF plan.rerank THEN RerankTopK ELSE TopK, Len(kb \o web)})
        /\ \A i, j \in DOMAIN chunks :
              chunks[i].source = chunks[j].source /\ chunks[i].number = chunks[j].number => i = j

\* When the rerank is unavailable, a web hit is still among the chunks if there was one.
WebHitKept == fallback /\ outcome # None /\ web # <<>> => \E i \in DOMAIN chunks : chunks[i].source = "web"

\* With refusals on, a question put to the knowledge base alone is answered only from evidence
\* that the last judge of it, the reranker if it ranked anything, found good enough.
GroundedAnswer ==
    outcome = "prompt" /\ "refusal" \in req.flags /\ req.kb /\ plan.sources = {"kb"} =>
        \E i \in DOMAIN chunks :
            IF \E j \in DOMAIN chunks : chunks[j].rerank # NoScore
              THEN chunks[i].rerank = 1 ELSE chunks[i].score = 1

\* A plan's sources agree with its mode, and it reranks only candidates of the knowledge base.
PlanConsistent ==
    plan # None =>
        /\ plan.mode = "off" => plan.sources = {}
        /\ plan.mode = "kb_only" => "web" \notin plan.sources
        /\ plan.mode = "web_only" => "kb" \notin plan.sources
        /\ plan.rerank => "kb" \in plan.sources

\* "Determine whether external context retrieval is allowed" (context_routing.py:31): no source is
\* searched that the request's own mode excludes.
RequestsModeKept ==
    /\ "kb" \in searched => Mode(req) \in {"auto", "kb_only"}
    /\ "web" \in searched => Allowed(req)

\* "preserving a web hit when rerank is unavailable" (rag_service.py:30): also when the plan has none.
WebHitReachesPrompt ==
    outcome = "prompt" /\ web # <<>> /\ ~plan.rerank => \E i \in DOMAIN chunks : chunks[i].source = "web"

\* The refusal "nothing relevant enough was found in the knowledge base" (ai_settings.py:144)
\* is given only when the knowledge base was searched.
RefusalIsTrue == outcome = "evidence" => "kb" \in searched \/ req.preloaded
=============================================================================

---------------------------- MODULE MCRetrieval ----------------------------
(***************************************************************************)
(* From a document to an answer: a document becomes chunks (Chunking,      *)
(* FixedWindow) and rows of the index (ChunkIndexing); a question is       *)
(* searched (HybridSearch), planned, reranked (RagContext), made to fit a  *)
(* prompt (LlmContext), and the stream of its answer filtered              *)
(* (StreamFilters).  Each stage has a state of its own: a behaviour runs   *)
(* one of them, and the variables of the others are Off.                   *)
(***************************************************************************)
EXTENDS RagContext, TLC

CONSTANTS
    Files,        \* of HybridSearch
    Histories, Found, Queries, SystemSizes, Total, RecentRounds, SummaryLines, Overhead, Wrap,
    Margin, ShortText, Growth,     \* of LlmContext
    Off           \* the value of a variable of a stage that is not running

VARIABLES index, version, changes, vectorHits, textHits, hits, seen
VARIABLES provider, count, begin, records, rows
VARIABLES length, seps, overlap, start, upto, pieces
VARIABLES lines, inFence, stack, section, path, parts, ended
VARIABLES history, query, system, found, refs, share, window, summary, room, kept
VARIABLES input, pos, reasoning, citing, visible, published, openCut, state
VARIABLE at        \* of HybridSearch, ChunkIndexing, FixedWindow and LlmContext
VARIABLE running

searchVars == <<index, version, changes, vectorHits, textHits, hits, seen>>
rowVars == <<provider, count, begin, records, rows>>
windowVars == <<length, seps, overlap, start, upto, pieces>>
documentVars == <<lines, inFence, stack, section, path, parts, ended>>
promptVars == <<history, query, system, found, refs, share, window, summary, room, kept>>
streamVars == <<input, pos, reasoning, citing, visible, published, openCut, state>>
suiteVars == <<vars, searchVars, rowVars, windowVars, documentVars, promptVars, streamVars, at,
               running>>

Symmetry == Permutations(Files)

(***************************************************************************)
(* What the stages are given.                                              *)
(***************************************************************************)
\* Requests of every mode and caller, with all flags or all but one or two.
MCRequests == {r \in Request :
    /\ r.mode = None \/ ~r.legacy
    /\ r.preloaded => r.query = "plain"
    /\ r.query = "empty" => r.flags = Flags
    /\ Flags \ r.flags \in {{}, {"external"}, {"rerank"}, {"routing"}, {"refusal"}, {"planner", "rerank"}}}
\* Proposals that differ after they were made consistent, and some that contradict themselves.
MCProposals == {p \in Proposal :
    /\ p.rag => p.sources = {}
    /\ p.ext => p.sources \subseteq {"kb"} /\ p.mode \in {"auto", "kb_only"}
    /\ p.refuse => p.retrieval = "vector" /\ p.rerank /\ ~p.rag /\ ~p.ext
    /\ ~p.refuse => p.sure
    /\ p.retrieval = "fulltext" => ~p.rag}
MCKbHits == {<<>>, <<[score |-> 0, both |-> TRUE]>>, <<[score |-> 1, both |-> FALSE]>>,
             <<[score |-> 1, both |-> TRUE], [score |-> 0, both |-> FALSE]>>}
MCWebHits == {<<>>, <<0>>, <<1>>}

User(n) == [role |-> "user", size |-> n, query |-> FALSE]
Said(n) == [role |-> "assistant", size |-> n, query |-> FALSE]
Asked(n) == [role |-> "user", size |-> n, query |-> TRUE]
\* Conversations of up to three rounds, and the question at their end or not.
MCHistories ==
    {r \o s \o q : r \in {<<>>} \cup {<<User(a), Said(b)>> : a \in {1, 9}, b \in {1, 4, 9}},
                   s \in {<<>>, <<User(2), Said(3)>>, <<User(5)>>}, q \in {<<>>, <<Asked(2)>>}}
\* Up to four chunks of two files and a page.
FoundOf(k, n) == [source |-> k[1], group |-> k[2], size |-> n]
MCFound ==
    LET K == {<<"kb", 1>>, <<"kb", 2>>, <<"web", 3>>} IN
    {<<>>} \cup {<<FoundOf(a, m), FoundOf(b, n), FoundOf(c, 2)>> : a, b, c \in K, m, n \in {2, 6}}
           \cup {<<FoundOf(<<"kb", 1>>, 12)>>,
                 <<FoundOf(<<"web", 3>>, 5), FoundOf(<<"kb", 1>>, 5), FoundOf(<<"kb", 1>>, 5),
                   FoundOf(<<"kb", 2>>, 5)>>}

\* Tags of reasoning and pieces of tags; citation markers and pieces of markers.
Think == {<<"<", "t", "h", "i", "n", "k", ">">>, <<"<", "/", "t", "h", "i", "n", "k", ">">>,
          <<"<", "/">>, <<"<", "t", "h">>, <<"p">>, <<"w">>}
Marks == {<<"[", "R", "1", "]">>, <<"[", "R", "9", "]">>, <<"[", "R", "1">>, <<"9", "]">>,
          <<".", "1", "]">>, <<"[">>, <<"p">>, <<"w">>}
Refs == {<<"R", "1">>, <<"R", "1", ".", "1">>}

(***************************************************************************)
(* The stages.                                                             *)
(***************************************************************************)
Search == INSTANCE HybridSearch
            WITH MaxScore <- 2, MinScore <- 1, Limit <- 2, Multiplier <- 2, MaxChanges <- 1,
                 pc <- at
Index == INSTANCE ChunkIndexing
            WITH Counts <- 0..10, BatchSize <- 3, start <- begin, index <- rows, pc <- at
Windows == INSTANCE FixedWindow WITH Lengths <- 0..11, Size <- 6, Overlaps <- {2, 3, 5}, pc <- at
Document == INSTANCE Chunking
            WITH MaxLines <- 7, Size <- 4, Levels <- 1..3, chunks <- parts
Prompt == INSTANCE LlmContext
            WITH pc <- at, chunks <- found
Thinking == INSTANCE StreamFilters
            WITH Pieces <- Think, MaxPieces <- 4, ValidRefs <- Refs, MaxTail <- 10
Citing == INSTANCE StreamFilters
            WITH Pieces <- Marks, MaxPieces <- 4, ValidRefs <- Refs, MaxTail <- 10

ASSUME RetrievalSuiteAssumption ==
    /\ RagAssumption /\ Search!SearchAssumption
    /\ Index!IndexingAssumption /\ Windows!WindowAssumption /\ Document!ChunkingAssumption
    /\ Prompt!ContextAssumption /\ Thinking!FiltersAssumption /\ Citing!FiltersAssumption

SearchOff ==
    /\ index = Off /\ version = Off /\ changes = Off /\ vectorHits = Off /\ textHits = Off
    /\ hits = Off /\ seen = Off
IndexOff == provider = Off /\ count = Off /\ begin = Off /\ records = Off /\ rows = Off
WindowsOff == length = Off /\ seps = Off /\ overlap = Off /\ start = Off /\ upto = Off /\ pieces = Off
DocumentOff ==
    /\ lines = Off /\ inFence = Off /\ stack = Off /\ section = Off /\ path = Off
    /\ parts = Off /\ ended = Off
PromptOff ==
    /\ history = Off /\ query = Off /\ system = Off /\ found = Off /\ refs = Off /\ share = Off
    /\ window = Off /\ summary = Off /\ room = Off /\ kept = Off
StreamOff ==
    /\ input = Off /\ pos = Off /\ reasoning = Off /\ citing = Off /\ visible = Off
    /\ published = Off /\ openCut = Off /\ state = Off

SuiteInit ==
    /\ running \in {"rag", "search", "index", "windows", "document", "prompt", "thinking",
                    "citing"}
    /\ Init /\ (running # "rag" => req = CHOOSE r \in Requests : TRUE)
    /\ IF running = "search" THEN Search!Init ELSE SearchOff
    /\ IF running = "index" THEN Index!Init ELSE IndexOff
    /\ IF running = "windows" THEN Windows!Init ELSE WindowsOff
    /\ IF running = "document" THEN Document!Init ELSE DocumentOff
    /\ IF running = "prompt" THEN Prompt!Init ELSE PromptOff
    /\ IF running = "thinking" THEN Thinking!Init
       ELSE IF running = "citing" THEN Citing!Init ELSE StreamOff
    /\ running \notin {"search", "index", "windows", "prompt"} => at = Off

SuiteNext ==
    /\ UNCHANGED running
    /\ \/ /\ running = "rag" /\ Next
          /\ UNCHANGED <<searchVars, rowVars, windowVars, documentVars, promptVars, streamVars, at>>
       \/ /\ running = "search" /\ Search!Next
          /\ UNCHANGED <<vars, rowVars, windowVars, documentVars, promptVars, streamVars>>
       \/ /\ running = "index" /\ Index!Next
          /\ UNCHANGED <<vars, searchVars, windowVars, documentVars, promptVars, streamVars>>
       \/ /\ running = "windows" /\ Windows!Step
          /\ UNCHANGED <<vars, searchVars, rowVars, documentVars, promptVars, streamVars>>
       \/ /\ running = "document" /\ Document!Next
          /\ UNCHANGED <<vars, searchVars, rowVars, windowVars, promptVars, streamVars, at>>
       \/ /\ running = "prompt" /\ Prompt!Next
          /\ UNCHANGED <<vars, searchVars, rowVars, windowVars, documentVars, streamVars>>
       \/ /\ \/ running = "thinking" /\ Thinking!Next
             \/ running = "citing" /\ Citing!Next
          /\ UNCHANGED <<vars, searchVars, rowVars, windowVars, documentVars, promptVars, at>>

SuiteSpec == SuiteInit /\ [][SuiteNext]_suiteVars
-----------------------------------------------------------------------------
\* No source is searched that the question, the flag or the plan's mode exclude, and the mode is
\* the request's unless the planner's model said another; a caller's own evidence is what is
\* answered from, a refusal is all or nothing, and neither fusion nor rerank loses, repeats or
\* reverses what the searches found (rag_planning_service.py, vector_index_service.py).
EvidenceKept ==
    /\ running = "rag" =>
          /\ TypeOK /\ SearchesAllowed /\ PreloadedKept /\ RefusalAllOrNothing /\ StepsPaired
          /\ RerankKeeps /\ WebHitKept /\ GroundedAnswer /\ PlanConsistent
    /\ running = "search" =>
          /\ Search!TypeOK
          /\ Search!HitsComplete /\ Search!EvidenceIsAScore /\ Search!DominanceKept

\* A document's lines are all in its chunks, in order, under their headings, its fences whole, a
\* long block's windows cover it, and the index holds all rows of a file or the ones it had.
DocumentKept ==
    /\ [](/\ running = "document" =>
                /\ Document!LinesKept /\ Document!ChunksFit
                /\ Document!FenceWhole /\ Document!PathIsHeadings
          /\ running = "windows" => Windows!Inv
          /\ running = "index" => Index!IndexIsWhole)
    /\ [][running = "windows" => Windows!AdvancesStep]_suiteVars

\* A prompt keeps the newest of the conversation and the best of the chunks, its citations name
\* one chunk each, and chunks make a question too long only when the cut of a long one passes the
\* margin in both tries (chat_context_builder.py).
PromptFits ==
    running = "prompt" =>
        /\ Prompt!CutsGiveWay /\ Prompt!BestKept /\ Prompt!CitationsResolve

\* However a stream is cut, no reasoning is shown and no other text is lost; what the guardrail
\* looks for is shown only where a removed marker joined it; and the text streamed is the text
\* persisted unless a chunk ended right after a bracket (provider_reasoning.py, consume_visible_chunk).
FilteredStream ==
    /\ running = "thinking" => Thinking!ReasoningHidden /\ Thinking!BlockedIsUnseen
    /\ running = "citing" => Citing!StreamedIsPersisted /\ Citing!BlockedIsUnseen
=============================================================================

---------------------------- MODULE HybridSearch ----------------------------
(***************************************************************************)
(* A hybrid search of a knowledge base: a vector query and a full-text     *)
(* query, each a statement of its own, whose answers are fused by rank.    *)
(* Files are indexed anew and removed meanwhile.                           *)
(***************************************************************************)
EXTENDS Orders, SequencesExt, FiniteSetsExt

CONSTANTS
    Files,          \* files of the knowledge base; one chunk of each is modelled
    MaxScore,       \* similarities are 0..MaxScore, 0 in full text being no match
    MinScore,       \* RAG_HYBRID_MIN_SOURCE_SCORE
    Limit, Multiplier,
    MaxChanges      \* bound: files indexed anew or removed during the search

SearchAssumption ==
    /\ {MaxScore, MinScore, Limit, Multiplier, MaxChanges} \subseteq Nat \ {0} /\ IsFiniteSet(Files)

VARIABLES
    index,      \* the chunks in the database: [file, version, vec, text]
    version,    \* per file: the version last written
    changes,    \* counts towards MaxChanges
    pc,         \* "vector", "text", "fuse", "done"
    vectorHits, textHits,   \* the answers, best first
    hits,       \* what the search returns: sequence of [chunk, evidence, matched]
    seen        \* history: the chunks each of the two statements could see

vars == <<index, version, changes, pc, vectorHits, textHits, hits, seen>>

Chunk == [file : Files, version : 1..(MaxChanges + 1), vec : 0..MaxScore, text : 0..MaxScore]

Init ==
    /\ version = [f \in Files |-> 1]
    /\ \E s \in [Files -> (0..MaxScore) \X (0..MaxScore)] :
         index = {[file |-> f, version |-> 1, vec |-> s[f][1], text |-> s[f][2]] : f \in Files}
    /\ changes = 0
    /\ pc = "vector" /\ vectorHits = <<>> /\ textHits = <<>> /\ hits = <<>> /\ seen = {}

\* A change of the index matters between the two statements: one before them is another initial
\* index, one after them is not seen.
Changes == pc = "text" /\ changes < MaxChanges /\ changes' = changes + 1

\* delete_chunks_for_file, then add_chunks.
Replaced(f, chunk) == {c \in index : c.file # f} \cup {chunk}

\* replace_file_chunks: the old chunks go and the new ones come in one transaction.
Reindex(f) == \E v, t \in 0..MaxScore :
    /\ Changes
    /\ version' = [version EXCEPT ![f] = @ + 1]
    /\ index' = Replaced(f, [file |-> f, version |-> version[f] + 1, vec |-> v, text |-> t])
    /\ UNCHANGED <<pc, vectorHits, textHits, hits, seen>>

RemoveFile(f) ==
    /\ Changes /\ \E c \in index : c.file = f
    /\ index' = {c \in index : c.file # f}
    /\ UNCHANGED <<version, pc, vectorHits, textHits, hits, seen>>

\* Answers of ORDER BY score DESC LIMIT n: equals come in any order.
Answers(rows, score, n) ==
    {First(s, n) :
        s \in {q \in SetToSeqs(rows) : \A i, j \in DOMAIN q : i < j => q[i][score] >= q[j][score]}}

VectorQuery ==
    /\ pc = "vector" /\ pc' = "text"
    /\ vectorHits' \in Answers(index, "vec", Limit * Multiplier)
    /\ seen' = index
    /\ UNCHANGED <<index, version, changes, textHits, hits>>

\* A query without a searchable word has no full-text part.
TextQuery ==
    /\ pc = "text" /\ pc' = "fuse"
    /\ \/ textHits' \in Answers({c \in index : c.text > 0}, "text", Limit * Multiplier)
       \/ textHits' = <<>>
    /\ seen' = seen \cup index
    /\ UNCHANGED <<index, version, changes, vectorHits, hits>>

\* What reaches the minimum.
GoodVector == {c \in ToSet(vectorHits) : c.vec >= MinScore}
GoodText == {c \in ToSet(textHits) : c.text >= MinScore}

\* 1 / (60 + rank), as a share of a common multiple of the denominators in use.
Share(rank) == (61 * 62 * 63 * 64) \div (60 + rank)
At(s, c) == CHOOSE i \in DOMAIN s : s[i] = c
Rank(s, good, c) == Cardinality({i \in 1..At(s, c) : s[i] \in good})
\* Reciprocal rank fusion, vector_weight 0.7 and fulltext_weight 0.3.
Fused(c) ==
    (IF c \in GoodVector THEN 7 * Share(Rank(vectorHits, GoodVector, c)) ELSE 0)
    + (IF c \in GoodText THEN 3 * Share(Rank(textHits, GoodText, c)) ELSE 0)

Matched(c) == {m \in {"vector", "fulltext"} : c \in IF m = "vector" THEN GoodVector ELSE GoodText}

\* The better of the scores of the channels that found the chunk.
Evidence(c) ==
    Max({0} \cup {c.vec : x \in Matched(c) \cap {"vector"}} \cup {c.text : x \in Matched(c) \cap {"fulltext"}})

\* The chunks of both channels, each once.
Pool == GoodVector \cup GoodText

\* What orders the pool: the fused rank, or the one channel's evidence when the other is empty.
Key(c) == IF GoodVector # {} /\ GoodText # {} THEN Fused(c) ELSE Evidence(c)
\* When the pool was given the chunk: the vector hits came first.
Entered(c) == IF c \in GoodVector THEN At(vectorHits, c) ELSE Len(vectorHits) + At(textHits, c)
\* A stable sort: equals keep the order in which the pool was filled.
Better ==
    LET key == [c \in Pool |-> Key(c)]
        entered == [c \in Pool |-> Entered(c)]
    IN {p \in Pool \X Pool :
          key[p[1]] > key[p[2]] \/ (key[p[1]] = key[p[2]] /\ entered[p[1]] < entered[p[2]])}

\* _fuse_hybrid_hits
Fuse ==
    /\ pc = "fuse" /\ pc' = "done"
    /\ \E best \in {First(InOrder(Better, Pool), Limit)} :
         hits' = [k \in DOMAIN best |->
                    [chunk |-> best[k], evidence |-> Evidence(best[k]), matched |-> Matched(best[k])]]
    /\ UNCHANGED <<index, version, changes, vectorHits, textHits, seen>>

Next == VectorQuery \/ TextQuery \/ Fuse \/ \E f \in Files : Reindex(f) \/ RemoveFile(f)
Spec == Init /\ [][Next]_vars
-----------------------------------------------------------------------------
\* Types; and a file has at most one version in the index, the last one written.
TypeOK ==
    /\ index \subseteq Chunk /\ version \in [Files -> 1..(MaxChanges + 1)]
    /\ \A c \in index : c.version = version[c.file]
    /\ pc \in {"vector", "text", "fuse", "done"}
    /\ vectorHits \in Seq(Chunk) /\ textHits \in Seq(Chunk) /\ seen \subseteq Chunk
    /\ \A i \in DOMAIN hits : hits[i].chunk \in Chunk /\ hits[i].evidence \in 0..MaxScore

\* The chunk itself carries both scores; the good ones decide what may be returned.
GoodOf(c) == {s \in {c.vec : x \in ToSet(vectorHits) \cap {c}} \cup {c.text : x \in ToSet(textHits) \cap {c}} :
                 s >= MinScore}

\* The fused result has every chunk once, as many as there is room for, and only chunks that
\* one of the statements saw, although the index changes between the two.
HitsComplete ==
    pc = "done" =>
        /\ \A i, j \in DOMAIN hits : hits[i].chunk = hits[j].chunk => i = j
        /\ \A i \in DOMAIN hits : hits[i].chunk \in seen
        /\ Len(hits) = Min({Limit, Cardinality({c \in ToSet(vectorHits) \cup ToSet(textHits) : GoodOf(c) # {}})})

\* "evidence_score never exceeds the two channels' own evidence" (vector_index_service.py:475):
\* it is one of the scores that reached the minimum, and no better one is passed over.
EvidenceIsAScore ==
    \A i \in DOMAIN hits :
        hits[i].evidence \in GoodOf(hits[i].chunk) /\ hits[i].evidence = Max(GoodOf(hits[i].chunk))

\* A chunk that both channels put before another, where they have the other, is before it in the result.
Before(s, score, a, b) ==
    (b \in ToSet(s) /\ b[score] >= MinScore) =>
        a[score] >= MinScore /\ \E i, j \in DOMAIN s : i < j /\ s[i] = a /\ s[j] = b
DominanceKept ==
    pc = "done" => \A a, b \in seen :
        /\ a # b /\ Before(vectorHits, "vec", a, b) /\ Before(textHits, "text", a, b)
        /\ \E k \in DOMAIN hits : hits[k].chunk = b
        => \E i, j \in DOMAIN hits : i < j /\ hits[i].chunk = a /\ hits[j].chunk = b

\* Replacing a file's chunks inside one transaction (vector_index_service.py:5) shows a search
\* the old version or the new one.
OneVersion ==
    \A i, j \in DOMAIN hits : hits[i].chunk.file = hits[j].chunk.file => i = j
=============================================================================

----------------------------- MODULE RagEvidence -----------------------------
(***************************************************************************)
(* What happens to the candidates of a question between their retrieval    *)
(* and the prompt: the ranking a reranker answers with is applied to them  *)
(* (or replaced when there is none), and the policy decides whether what   *)
(* is left is evidence enough.  A score is 1 when it reaches the threshold *)
(* of its kind and 0 when it does not; NoScore is an absent one.           *)
(***************************************************************************)
EXTENDS Orders, FiniteSetsExt

NoScore == -1

IsWeb(chunk) == chunk.source = "web"
HasWeb(chunks) == \E i \in DOMAIN chunks : IsWeb(chunks[i])
Best(scores) == Max({NoScore} \cup scores)
Scores(chunks) == {chunks[i].score : i \in DOMAIN chunks}
Reranked(chunks) == {chunks[i].rerank : i \in DOMAIN chunks}

\* select_rerank_fallback_candidates: the last place goes to a web hit that would be cut off.
FallbackCandidates(candidates, limit) ==
    LET selected == First(candidates, limit)
    IN IF HasWeb(selected) \/ ~HasWeb(candidates) \/ selected = <<>> THEN selected
       ELSE [selected EXCEPT ![Len(selected)] =
                candidates[Min({i \in DOMAIN candidates : IsWeb(candidates[i])})]]

\* The order in which rankings are read: by score, the first of equals first.
ReadBefore(rankings, a, b) ==
    \/ rankings[a].score > rankings[b].score
    \/ rankings[a].score = rankings[b].score /\ a < b
\* The rankings that name a candidate (counted from 0 by the provider), and the one of them that counts.
Naming(rankings, i) == {r \in DOMAIN rankings : rankings[r].index + 1 = i}
Deciding(rankings, i) ==
    CHOOSE r \in Naming(rankings, i) : \A q \in Naming(rankings, i) \ {r} : ReadBefore(rankings, r, q)

\* Ranked candidates come first, then the others in their order.
RankedBefore(candidates, rankings) ==
    {p \in (DOMAIN candidates) \X (DOMAIN candidates) :
        IF Naming(rankings, p[1]) # {}
          THEN Naming(rankings, p[2]) # {} =>
                 ReadBefore(rankings, Deciding(rankings, p[1]), Deciding(rankings, p[2]))
          ELSE Naming(rankings, p[2]) = {} /\ p[1] < p[2]}

\* RAGService.apply_rankings
ApplyRankings(candidates, rankings, limit) ==
    LET order == First(InOrder(RankedBefore(candidates, rankings), DOMAIN candidates), limit)
    IN [k \in DOMAIN order |->
           [candidates[order[k]] EXCEPT !.rerank =
               IF Naming(rankings, order[k]) = {} THEN NoScore
               ELSE rankings[Deciding(rankings, order[k])].score]]

\* _evaluate_external_context: enough web chunks, the best of them above the threshold.
WebEvidence(chunks, minHits) ==
    LET web == {i \in DOMAIN chunks : IsWeb(chunks[i])}
    IN Cardinality(web) >= minHits /\ Best({chunks[i].score : i \in web}) = 1

\* _evaluate_hybrid: the first chunk matched by both channels, or two chunks at least.
HybridEvidence(chunks) ==
    /\ Best(Scores(chunks)) = 1
    /\ chunks[1].both \/ Len(chunks) >= 2

\* The reranker's score where there is one: retrieval scores are then not looked at.
EvidenceScore(chunks) ==
    IF Best(Reranked(chunks)) # NoScore THEN Best(Reranked(chunks))
    ELSE Best(Scores(chunks))

\* Is the knowledge base's evidence enough?  The first chunk's retrieval mode decides how.
KbEvidence(chunks, minHits) ==
    /\ Len(chunks) >= minHits
    /\ IF Best(Reranked(chunks)) # NoScore THEN EvidenceScore(chunks) = 1
       ELSE \/ chunks[1].retrieval = "hybrid" /\ HybridEvidence(chunks)
            \/ chunks[1].retrieval \in {"vector", "fulltext"} /\ EvidenceScore(chunks) = 1

\* RAGEvidencePolicy.evaluate: must the question be refused?
MustRefuse(hasKb, wantsKb, wantsWeb, chunks, minHits) ==
    /\ (hasKb /\ wantsKb) \/ wantsWeb
    /\ ~(wantsWeb /\ (WebEvidence(chunks, minHits) \/ ~hasKb))
    /\ ~KbEvidence(chunks, minHits)
=============================================================================

----------------------------- MODULE LlmContext -----------------------------
(***************************************************************************)
(* ChatContextBuilder: how a question, the conversation before it and the  *)
(* chunks found for it are made to fit into the context of a language      *)
(* model: reference numbers, the budget's shares, the window of recent     *)
(* messages, the chunks that fit what is left, one second try, and an      *)
(* error when it is still too much.  A text is its number of tokens.       *)
(***************************************************************************)
EXTENDS Integers, Sequences, FiniteSets, SequencesExt

CONSTANTS
    Histories,      \* conversations: sequences of [role, size, query]
    Found,          \* chunks found: sequences of [source, group, size]
    Queries,        \* sizes of questions
    SystemSizes,    \* sizes of the system prompt without chunks and summary
    Total,          \* total_budget
    RecentRounds,   \* CHAT_MEMORY_RECENT_ROUNDS
    SummaryLines,   \* rounds whose excerpts fit CHAT_MEMORY_SUMMARY_MAX_CHARS
    Overhead,       \* MESSAGE_OVERHEAD_TOKENS with the role
    Wrap,           \* what the template adds to a chunk
    Margin,         \* message_overhead_tokens
    ShortText,      \* tokens that the shortest truncation of a message, ten characters, can cost
    Growth          \* tokens that three characters can cost: four for Chinese (token_estimation.py:42)

Message == [role : {"user", "assistant"}, size : Nat, query : BOOLEAN]
Hit == [source : {"kb", "web"}, group : Nat, size : Nat]
ContextAssumption ==
    /\ {Total, RecentRounds, SummaryLines, Overhead, Wrap, Margin, ShortText} \subseteq Nat
    /\ Growth \in Nat \ {0}
    /\ Queries \subseteq Nat /\ SystemSizes \subseteq Nat
    /\ \A s \in Histories : s \in Seq(Message)
    /\ \A s \in Found : /\ s \in Seq(Hit)
                        /\ \A i, j \in 1..Len(s) : s[i].group = s[j].group => s[i].source = s[j].source

VARIABLES
    pc,
    history, query, system, chunks,     \* what the question comes with
    refs,       \* search_context: the reference number of each chunk
    share,      \* tokens given to the history and to the chunks
    window,     \* the messages kept word for word
    summary,    \* tokens of the summary of older rounds
    room,       \* effective_rag_budget
    kept        \* the chunks in the prompt: sequence of <<number of chunk, tokens>>

input == <<history, query, system, chunks>>
vars == <<pc, history, query, system, chunks, refs, share, window, summary, room, kept>>

Smaller(a, b) == IF a <= b THEN a ELSE b
Larger(a, b) == IF a >= b THEN a ELSE b
\* How many tokens texts of these sizes have together: <<i, k>> is the k-th of the i-th.
SumOf(sizes) == Cardinality(UNION {{i} \X (1..sizes[i]) : i \in 1..Len(sizes)})
\* count_messages_tokens
Messages(s) == SumOf([i \in 1..Len(s) |-> s[i].size + Overhead])
Tokens(s) == SumOf([i \in 1..Len(s) |-> s[i][2]])

Init ==
    /\ pc = "refer"
    /\ history \in Histories /\ query \in Queries /\ system \in SystemSizes /\ chunks \in Found
    /\ refs = <<>> /\ share = [history |-> 0, chunks |-> 0]
    /\ window = <<>> /\ summary = 0 /\ room = 0 /\ kept = <<>>

\* Numbers of the groups of one kind, in the order they come first: R1, R2, W1...
GroupNumber(i) ==
    Cardinality({chunks[j].group : j \in {k \in 1..i : chunks[k].source = chunks[i].source
        /\ \A l \in 1..i : chunks[l].group = chunks[i].group => k <= l}})
\* The number of a chunk in its group.
InGroup(i) == Cardinality({j \in 1..i : chunks[j].group = chunks[i].group})

\* _build_rag_references
Refer ==
    /\ pc = "refer" /\ pc' = "allocate"
    /\ refs' = [i \in 1..Len(chunks) |-> <<chunks[i].source, GroupNumber(i), InGroup(i)>>]
    /\ UNCHANGED <<history, query, system, chunks, share, window, summary, room, kept>>

\* _build_blocks: what each block asks for. The system prompt, which is required too, asks for nothing.
Wanted == [query |-> query, chunks |-> SumOf([i \in 1..Len(chunks) |-> chunks[i].size]), history |-> Messages(history)]
\* allocate: the question first, then chunks, then history.
Allocate ==
    LET rest == Total - Smaller(Wanted.query, Total)
        forChunks == Smaller(Wanted.chunks, rest)
    IN /\ pc = "allocate" /\ pc' = "window"
       /\ share' = [chunks |-> forChunks, history |-> Smaller(Wanted.history, rest - forChunks)]
       /\ UNCHANGED <<history, query, system, chunks, refs, window, summary, room, kept>>

\* _exclude_latest_query
Past == IF history # <<>> /\ Last(history).role = "user" /\ Last(history).query THEN Front(history) ELSE history

\* _group_history_rounds: where the rounds of a conversation begin.
Begins(s) == {i \in 1..Len(s) : i = 1 \/ s[i].role = "user"}
\* The first message of the recent rounds, and the number of older ones.
RecentFrom(s) ==
    LET Later(i) == Cardinality({j \in Begins(s) : j >= i})
    IN IF RecentRounds = 0 \/ s = <<>> THEN Len(s) + 1
       ELSE CHOOSE i \in Begins(s) : Later(i) = Smaller(RecentRounds, Cardinality(Begins(s)))
OlderRounds(s) == Cardinality({i \in Begins(s) : i < RecentFrom(s)})

Newest(s, n) == SubSeq(s, Len(s) - n + 1, Len(s))
\* _fit_messages: the newest messages that fit.
FittingTails(s, budget) == {w \in {Newest(s, n) : n \in 0..Len(s)} : Messages(w) <= budget}
Longest(seqs) == CHOOSE w \in seqs : \A v \in seqs : Len(v) <= Len(w)
\* What a message cut to twice as many characters as there are tokens can cost.
Cut(m, budget) == {[m EXCEPT !.size = n] :
    n \in 1..Smaller(m.size, Larger(ShortText, (2 * Growth * budget) \div 3))}

\* LiveWindowBuilder.build
Window ==
    LET recent == SubSeq(Past, RecentFrom(Past), Len(Past))
        fits == Longest(FittingTails(recent, share.history))
    IN /\ pc = "window" /\ pc' = "fit"
       /\ summary' = Smaller(OlderRounds(Past), SummaryLines)
       /\ IF share.history = 0 \/ recent = <<>> THEN window' = <<>>
          ELSE IF Len(fits) > 0 THEN window' = fits
          ELSE \E m \in Cut(Last(recent), share.history) : window' = <<m>>
       /\ UNCHANGED <<history, query, system, chunks, refs, share, room, kept>>

\* The prompt without its chunks, and with them.
Fixed == system + summary + Overhead + Messages(window) + query + Overhead
Assembled == Fixed + Tokens(kept) + Wrap * Len(kept)

\* What truncate leaves of a chunk for so many tokens, at three characters each: the chunk, when it
\* is that short, or its beginning up to a boundary in the second half, or hard.  A character costs
\* from 0.4 tokens (Latin words) up, so half of them cost 0.6 of the tokens at least.
Shortened(size, remaining) == {n \in 1..size : 5 * n >= 3 * remaining /\ n <= Growth * remaining}

PrefixFits(s, n, budget) == Tokens(SubSeq(s, 1, n)) <= budget
\* _fit_context_chunks: all, or the first ones that fit less the margin and a part of the next one.
FitChunks(s, budget) ==
    LET less == budget - Margin
        n == CHOOSE k \in 0..Len(s) : PrefixFits(s, k, less) /\ \A j \in (k + 1)..Len(s) : ~PrefixFits(s, j, less)
        remaining == less - Tokens(SubSeq(s, 1, n))
    IN IF s = <<>> \/ budget <= 0 THEN {<<>>}
       ELSE IF Tokens(s) <= budget THEN {s}
       ELSE IF less <= 0 THEN {<<>>}
       ELSE IF remaining = 0 THEN {SubSeq(s, 1, n)}
       ELSE {Append(SubSeq(s, 1, n), <<s[n + 1][1], size>>) : size \in Shortened(s[n + 1][2], remaining)}

Numbered == [i \in 1..Len(chunks) |-> <<i, chunks[i].size>>]
Fit ==
    /\ pc = "fit" /\ pc' = "refit"
    /\ room' = Smaller(share.chunks, Larger(0, Total - Fixed))
    /\ kept' \in FitChunks(Numbered, room')
    /\ UNCHANGED <<history, query, system, chunks, refs, share, window, summary>>

\* Mutant: once more with the same room.
RefittedInVain == kept' \in FitChunks(kept, room)

\* Once more with less room when the assembled prompt is too long.
Refitted == kept' \in FitChunks(kept, Larger(0, room - (Assembled - Total)))

Refit ==
    /\ pc = "refit" /\ pc' = "validate"
    /\ IF kept # <<>> /\ Assembled > Total THEN Refitted ELSE UNCHANGED kept
    /\ UNCHANGED <<history, query, system, chunks, refs, share, window, summary, room>>

\* validate: TOKEN_LIMIT_EXCEEDED, or the prompt.
Validate ==
    /\ pc = "validate" /\ pc' = IF Assembled <= Total THEN "prompt" ELSE "raised"
    /\ UNCHANGED <<history, query, system, chunks, refs, share, window, summary, room, kept>>

Next == Refer \/ Allocate \/ Window \/ Fit \/ Refit \/ Validate
Spec == Init /\ [][Next]_vars /\ WF_vars(Next)
-----------------------------------------------------------------------------
\* A part of n tokens was given n \div Growth of them or more: what it took beyond, and what the
\* template adds to the chunks kept, is more than the margin.
PassesMargin(n) == Growth * (Margin - Wrap * Len(kept)) < (Growth - 1) * n

\* A question that fits with its conversation is refused because of the chunks found for it only
\* when the last one kept is so long that its cut passes the margin, after the second try too.
CutsGiveWay == pc = "raised" /\ Fixed <= Total => kept # <<>> /\ PassesMargin(Last(kept)[2])

\* The second try once the prompt is too long (chat_context_builder.py:207-216): a question
\* that fits with its conversation is never refused because of the chunks found for it.
ChunksGiveWay == pc = "raised" => Fixed > Total

\* A question that fits with the system prompt is never refused because of the conversation before it.
HistoryGivesWay == pc = "raised" => system + query + 2 * Overhead > Total

\* What is kept is the newest of the conversation without the question, and the best of the chunks,
\* in order: only the last chunk and a message that is alone can be shortened.
BestKept ==
    LET n == Len(window)
    IN /\ n <= Len(Past)
       /\ \A i \in 1..n : /\ window[i].role = Past[Len(Past) - n + i].role
                          /\ window[i].size # Past[Len(Past) - n + i].size => n = 1
       /\ \A i \in 1..Len(kept) : /\ kept[i][1] = i
                                  /\ kept[i][2] # chunks[i].size => i = Len(kept)

\* No two chunks have the same reference number, and the numbers of a kind and of a group have no gap:
\* a citation names one chunk, and every number below a valid one is valid.
CitationsResolve ==
    pc # "refer" =>
        /\ \A i, j \in 1..Len(chunks) : i # j => refs[i] # refs[j]
        /\ \A i, j \in 1..Len(chunks) : chunks[i].group = chunks[j].group => refs[i][2] = refs[j][2]
        /\ \A i \in 1..Len(chunks) : \A g \in 1..refs[i][2] :
            \E j \in 1..i : refs[j][1] = refs[i][1] /\ refs[j][2] = g
        /\ \A i \in 1..Len(chunks) : \A n \in 1..refs[i][3] :
            \E j \in 1..i : refs[j] = <<refs[i][1], refs[i][2], n>>
=============================================================================

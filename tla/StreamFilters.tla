--------------------------- MODULE StreamFilters ---------------------------
(***************************************************************************)
(* What the worker lets through of a provider's stream: the reasoning      *)
(* filter removes <think> sections, the output guardrail stops the answer, *)
(* the citation filter removes citation markers that name no reference.    *)
(* The stream arrives in chunks cut anywhere; the text that is persisted   *)
(* is cleaned once, as a whole.  Letters stand for both cases, the letters *)
(* p and w next to each other for the words that the guardrail looks for.  *)
(***************************************************************************)
EXTENDS Naturals, Sequences, SequencesExt, FiniteSetsExt

CONSTANTS
    Pieces,      \* texts that provider output is put together from
    MaxPieces,   \* bound of the model: how many of them
    ValidRefs,   \* reference ids of the search context, as sequences of characters
    MaxTail      \* StreamingCitationFilter._MAX_BRACKET_LEN

FiltersAssumption ==
    /\ MaxPieces \in Nat /\ MaxTail \in Nat
    /\ ValidRefs # {}

VARIABLES
    input,       \* what the provider will have sent
    pos,         \* how much of it has arrived
    reasoning,   \* StreamingReasoningFilter: buffer, and whether it is inside <think>
    citing,      \* StreamingCitationFilter: its buffer
    visible,     \* accumulated_content: what has passed the reasoning filter
    published,   \* chunks sent to the user
    openCut,     \* history: a visible chunk ended right after "["
    state        \* "streaming", "blocked" or "done"

vars == <<input, pos, reasoning, citing, visible, published, openCut, state>>

OpenTag == <<"<", "t", "h", "i", "n", "k", ">">>
CloseTag == <<"<", "/", "t", "h", "i", "n", "k", ">">>

\* First occurrence of tag in text, 0 if there is none.
Find(text, tag) ==
    LET at == {i \in 1..(Len(text) - Len(tag) + 1) : SubSeq(text, i, i + Len(tag) - 1) = tag}
    IN  IF at = {} THEN 0 ELSE Min(at)

Keep(text, n) == SubSeq(text, Len(text) - n + 1, Len(text))
Drop(text, n) == SubSeq(text, 1, Len(text) - n)

\* Mutant: nothing is kept back.
NoTrailingPrefix(text, tag) == 0

\* The longest proper prefix of tag that text ends with.
TrailingPrefix(text, tag) ==
    LET sizes == {n \in 1..(Len(tag) - 1) : n <= Len(text) /\ Keep(text, n) = SubSeq(tag, 1, n)}
    IN  IF sizes = {} THEN 0 ELSE Max(sizes)

\* push: what may be shown of buffer and chunk, and what must wait.
Reason(text, inside) ==
    LET from[i \in 1..(Len(text) + 1), in \in BOOLEAN] ==
            LET buf == SubSeq(text, i, Len(text))
                open == Find(buf, OpenTag)
                close == Find(buf, CloseTag)
                held == IF in THEN TrailingPrefix(buf, CloseTag)
                        ELSE Max({TrailingPrefix(buf, OpenTag), TrailingPrefix(buf, CloseTag)})
                Past(at, tag) == i - 1 + at + Len(tag)
                Shown(at, rest) == [rest EXCEPT !.out = SubSeq(buf, 1, at - 1) \o rest.out]
            IN  CASE in /\ close = 0 -> [buf |-> Keep(buf, held), in |-> TRUE, out |-> <<>>]
                  [] in /\ close > 0 -> from[Past(close, CloseTag), FALSE]
                  [] ~in /\ close > 0 /\ (open = 0 \/ close < open) ->
                        Shown(close, from[Past(close, CloseTag), FALSE])
                  [] ~in /\ open > 0 /\ (close = 0 \/ open < close) ->
                        Shown(open, from[Past(open, OpenTag), TRUE])
                  [] OTHER -> [buf |-> Keep(buf, held), in |-> FALSE, out |-> Drop(buf, held)]
    IN  from[1, inside]

Digit(c) == c \in {"1", "9"}

\* _PARTIAL_PREFIX_RE: "[R" or "[W", digits, and at most one dot.
Partial(t) ==
    /\ Len(t) >= 2 /\ t[1] = "[" /\ t[2] \in {"R", "W"}
    /\ \A i \in 3..Len(t) : Digit(t[i]) \/ t[i] = "."
    /\ Cardinality({i \in 3..Len(t) : t[i] = "."}) <= 1

\* _CITATION_RE.
IsMarker(t) ==
    /\ Len(t) >= 4 /\ t[Len(t)] = "]"
    /\ Partial(Front(t))
    /\ Digit(t[3]) /\ Digit(t[Len(t) - 1])

\* Markers neither overlap nor nest: each has its brackets at its ends only.
Markers(text) == {m \in (1..Len(text)) \X (1..Len(text)) :
                    m[1] < m[2] /\ IsMarker(SubSeq(text, m[1], m[2]))}
RefOf(text, m) == SubSeq(text, m[1] + 1, m[2] - 1)

\* _clean_markers, validate_citations: the text without its markers that name no reference.
Clean(text) ==
    LET invalid == {m \in Markers(text) : RefOf(text, m) \notin ValidRefs}
        gone == UNION {m[1]..m[2] : m \in invalid}
        left == SelectSeq([i \in 1..Len(text) |-> i], LAMBDA i : i \notin gone)
    IN  [i \in 1..Len(left) |-> text[left[i]]]

\* _find_potential_split: where an unfinished marker begins, 0 if the tail is complete.
SplitAt(text) ==
    LET brackets == {i \in 1..Len(text) : text[i] = "["}
        at == IF brackets = {} THEN 0 ELSE Max(brackets)
    IN  IF /\ at > 0
           /\ Len(text) - at + 1 <= MaxTail
           /\ Partial(SubSeq(text, at, Len(text)))
        THEN at ELSE 0

\* StreamingCitationFilter.push: what is ready, cleaned, and what waits.
Cite(buf, chunk) ==
    LET text == buf \o chunk
        at == SplitAt(text)
    IN  IF at = 0
        THEN [out |-> Clean(text), buf |-> <<>>]
        ELSE [out |-> Clean(SubSeq(text, 1, at - 1)), buf |-> SubSeq(text, at, Len(text))]

-----------------------------------------------------------------------------
Inputs == {FlattenSeq(s) : s \in BoundedSeq(Pieces, MaxPieces)}

Init ==
    /\ input \in Inputs
    /\ pos = 0
    /\ reasoning = [buf |-> <<>>, in |-> FALSE]
    /\ citing = <<>>
    /\ visible = <<>>
    /\ published = <<>>
    /\ openCut = FALSE
    /\ state = "streaming"

\* evaluate_output_guardrail: words that follow each other, like "password is".
Word == <<"p", "w">>
Triggered(text) == Find(text, Word) > 0

\* consume_visible_chunk: the guardrail sees all that has become visible before the chunk
\* is published, with the markers that the citation filter will remove; once triggered, only
\* the refusal is published (it is not part of published here).
Consume(chunk) ==
    LET r == Cite(citing, chunk)
    IN  /\ visible' = visible \o chunk
        /\ openCut' = (openCut \/ (chunk # <<>> /\ chunk[Len(chunk)] = "["))
        /\ IF Triggered(visible \o chunk)
           THEN state' = "blocked" /\ UNCHANGED <<published, citing>>
           ELSE published' = published \o r.out /\ citing' = r.buf /\ UNCHANGED state

\* A chunk of n characters arrives.
Push(n) ==
    /\ state = "streaming"
    /\ pos + n <= Len(input)
    /\ LET r == Reason(reasoning.buf \o SubSeq(input, pos + 1, pos + n), reasoning.in)
       IN  reasoning' = [buf |-> r.buf, in |-> r.in] /\ Consume(r.out)
    /\ pos' = pos + n
    /\ UNCHANGED input

\* The provider is done: what the reasoning filter held back is shown, unless reasoning was
\* never closed.
FinishReasoning ==
    /\ state = "streaming"
    /\ pos = Len(input)
    /\ pos' = pos + 1
    /\ reasoning' = [buf |-> <<>>, in |-> reasoning.in]
    /\ Consume(IF reasoning.in THEN <<>> ELSE reasoning.buf)
    /\ UNCHANGED input

\* ... and then what the citation filter held back.
FlushCitations ==
    /\ state = "streaming"
    /\ pos = Len(input) + 1
    /\ state' = "done"
    /\ published' = published \o Clean(citing)
    /\ citing' = <<>>
    /\ UNCHANGED <<input, pos, reasoning, visible, openCut>>

Next == (\E n \in 1..Len(input) : Push(n)) \/ FinishReasoning \/ FlushCitations

Safety == Init /\ [][Next]_vars
-----------------------------------------------------------------------------
(* Properties.                                                              *)

\* A reference: the text without its <think> sections and stray closing tags.
Strip(whole) ==
    LET strip[i \in 1..(Len(whole) + 1)] ==
            LET text == SubSeq(whole, i, Len(whole))
                open == Find(text, OpenTag)
                close == Find(text, CloseTag)
                closing == Find(SubSeq(text, open + Len(OpenTag), Len(text)), CloseTag)
            IN  IF open = 0 /\ close = 0 THEN text
                ELSE IF open = 0 \/ (close > 0 /\ close < open)
                THEN SubSeq(text, 1, close - 1) \o strip[i - 1 + close + Len(CloseTag)]
                ELSE SubSeq(text, 1, open - 1) \o
                     IF closing = 0 THEN <<>>
                     ELSE strip[i - 2 + open + Len(OpenTag) + closing + Len(CloseTag)]
    IN  strip[1]

\* However the stream is cut, the user sees and the database keeps the provider's text
\* without its reasoning: no part of a <think> section slips through at a chunk boundary,
\* and no other text is lost (provider_reasoning.py:24, "safely across arbitrary chunk
\* boundaries").
ReasoningHidden == state = "done" => visible = Strip(input)

\* The text streamed is the text persisted: a marker cut by a chunk boundary is judged as
\* a whole, unless a chunk ended right after the bracket (openCut): the filter waits for "[R" only.
StreamedIsPersisted == state = "done" /\ ~openCut => published = Clean(visible)

\* The guardrail's words are shown only where the provider wrote a marker between them that was
\* removed after the guardrail had looked: neither reasoning, nor where chunks are cut, nor what a
\* filter held back lets them through.
BlockedIsUnseen ==
    Triggered(published) =>
        \E i, j \in 1..Len(visible) : j - i >= Len(Word) /\ Clean(SubSeq(visible, i, j)) = Word

\* The guardrail stops what it looks for: none of it is shown (chat_safety_metadata.py:212,
\* consume_visible_chunk).
WordsAreUnseen == ~Triggered(published)

\* As the filter's docstring has it, wherever the chunks are cut (citation_validator.py:151:
\* a tail "starting with '[' that could become" a marker is buffered).
EveryCutMarkerJudged == state = "done" => published = Clean(visible)
=============================================================================

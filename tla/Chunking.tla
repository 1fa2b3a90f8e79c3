------------------------------ MODULE Chunking ------------------------------
(***************************************************************************)
(* ChunkingService._split_markdown and _split_paragraphs: a document is    *)
(* read line by line into sections under their headings; a section's       *)
(* paragraphs are put together up to the chunk size, and a fenced block is *)
(* one paragraph.  Lengths are counted in lines; a paragraph that is too   *)
(* long, which FixedWindow cuts, is one chunk marked as cut.               *)
(***************************************************************************)
EXTENDS Integers, Sequences, SequencesExt, FiniteSetsExt

CONSTANTS
    MaxLines,       \* bound: lines of a document
    Size,           \* chunk_size, in lines (a blank line between paragraphs counts)
    Levels          \* levels of headings; a document may skip some

ChunkingAssumption ==
    /\ {MaxLines, Size} \subseteq Nat \ {0} /\ Levels \subseteq 1..6

Kinds == {"text", "blank", "fence", "heading"}
Line == {[kind |-> k, level |-> l] : k \in {"heading"}, l \in Levels}
        \cup {[kind |-> k, level |-> 0] : k \in Kinds \ {"heading"}}

VARIABLES
    lines,      \* the document read so far
    inFence,    \* in_fence
    stack,      \* heading_stack: numbers of the lines of the headings
    section,    \* section_lines: numbers of its lines
    path,       \* section_path
    chunks,     \* sequence of [lines, path, cut]
    ended

vars == <<lines, inFence, stack, section, path, chunks, ended>>

Init ==
    /\ lines = <<>> /\ inFence = FALSE /\ stack = <<>> /\ section = <<>> /\ path = <<>>
    /\ chunks = <<>> /\ ended = FALSE

\* A blank line ends a paragraph, not inside a fence.
EndsBlock(fenced, kind) == ~fenced /\ kind = "blank"

\* _paragraph_blocks of the lines numbered by s, of the document d; strip() drops blank lines at
\* the ends of a block (only an unclosed fence has them).
Blocks(d, s) ==
    LET read(acc, n) ==
            LET fenced == IF d[n].kind = "fence" THEN ~acc.fenced ELSE acc.fenced
            IN IF EndsBlock(fenced, d[n].kind)
                 THEN [fenced |-> fenced, now |-> <<>>,
                       done |-> IF acc.now # <<>> THEN Append(acc.done, acc.now) ELSE acc.done]
                 ELSE [acc EXCEPT !.fenced = fenced, !.now = Append(acc.now, n)]
        all == FoldLeft(read, [fenced |-> FALSE, now |-> <<>>, done |-> <<>>], s)
    IN IF all.now # <<>> THEN Append(all.done, all.now) ELSE all.done

Flushed(acc, p) ==
    IF acc.now = <<>> THEN acc.done ELSE Append(acc.done, [lines |-> acc.now, path |-> p, cut |-> FALSE])

\* One block of _split_paragraphs.
PutBlock(acc, block, p) ==
    IF Len(block) > Size
      THEN [now |-> <<>>, length |-> 0,
            done |-> Append(Flushed(acc, p), [lines |-> block, path |-> p, cut |-> TRUE])]
      ELSE IF acc.now # <<>> /\ acc.length + 1 + Len(block) > Size
        THEN [now |-> block, length |-> Len(block), done |-> Flushed(acc, p)]
        ELSE [acc EXCEPT !.now = acc.now \o block,
                         !.length = Len(block) + IF acc.now = <<>> THEN 0 ELSE acc.length + 1]

\* _split_paragraphs
Paragraphs(d, s, p) ==
    Flushed(FoldLeft(LAMBDA acc, b : PutBlock(acc, b, p), [now |-> <<>>, length |-> 0, done |-> <<>>],
                     Blocks(d, s)), p)

\* A heading, not inside a fence.
IsHeading(fenced, line) == ~fenced /\ line.kind = "heading"

\* heading_stack[: level - 1]
Parents(level) == SubSeq(stack, 1, Min({level - 1, Len(stack)}))

ReadLine == \E line \in Line :
    /\ ~ended /\ Len(lines) < MaxLines
    /\ lines' = Append(lines, line)
    /\ LET n == Len(lines) + 1
           fenced == IF line.kind = "fence" THEN ~inFence ELSE inFence
       IN /\ inFence' = fenced
          /\ IF IsHeading(fenced, line)
               THEN /\ chunks' = chunks \o Paragraphs(lines, section, path)
                    /\ stack' = Append(Parents(line.level), n)
                    /\ path' = stack'
                    /\ section' = <<n>>
               ELSE section' = Append(section, n) /\ UNCHANGED <<chunks, stack, path>>
    /\ UNCHANGED ended

\* The last section is flushed.
End ==
    /\ ~ended /\ ended' = TRUE
    /\ chunks' = chunks \o Paragraphs(lines, section, path)
    /\ UNCHANGED <<lines, inFence, stack, section, path>>

Next == ReadLine \/ End
Spec == Init /\ [][Next]_vars
-----------------------------------------------------------------------------
\* The fence a line is in, if any: an odd number of fence lines is before it or is it.
Fenced(n) == Cardinality({k \in 1..n : lines[k].kind = "fence"}) % 2 = 1
Heading(n) == lines[n].kind = "heading" /\ ~Fenced(n)
\* The headings a line is under: each is the last of its level or above.
Under(n) ==
    {h \in 1..n : Heading(h) /\ \A k \in (h + 1)..n : Heading(k) => lines[k].level > lines[h].level}

\* Every line that is not blank is in exactly one chunk, and the chunks keep the lines' order.
LinesKept ==
    ended => LET all == FlattenSeq([i \in DOMAIN chunks |-> chunks[i].lines])
             IN /\ \A i \in 1..(Len(all) - 1) : all[i] < all[i + 1]
                /\ \A n \in DOMAIN lines : lines[n].kind # "blank" => n \in ToSet(all)

\* A chunk of whole paragraphs fits the size: its lines, and a blank line between two paragraphs.
ChunksFit ==
    \A i \in DOMAIN chunks : ~chunks[i].cut => Len(chunks[i].lines) <= Size

\* A fenced block that is closed is in one chunk (or in the one paragraph that is cut).
FenceWhole ==
    ended => \A a, b \in DOMAIN lines :
        /\ a < b /\ lines[a].kind = "fence" /\ lines[b].kind = "fence" /\ Fenced(a)
        /\ \A k \in (a + 1)..(b - 1) : lines[k].kind # "fence"
        => \E i \in DOMAIN chunks : \A k \in a..b : k \in ToSet(chunks[i].lines)

\* No heading up to line n is more than one level below the headings it is under.
NoLevelSkipped(n) ==
    \A h \in 1..n : Heading(h) => lines[h].level <= Cardinality(Under(h) \ {h}) + 1

\* A chunk belongs to one section, and its path has every heading that section is under; it has
\* no other if the document skipped no level before it (chunking_service.py:64-78).
PathIsHeadings ==
    \A i \in DOMAIN chunks : \A n \in ToSet(chunks[i].lines) :
        /\ Under(n) \subseteq ToSet(chunks[i].path)
        /\ NoLevelSkipped(n) => ToSet(chunks[i].path) = Under(n)

\* The same of every document: a section is never put below a heading it is not under
\* (chunking_service.py:74).
PathIsExact ==
    \A i \in DOMAIN chunks : \A n \in ToSet(chunks[i].lines) : ToSet(chunks[i].path) = Under(n)
=============================================================================

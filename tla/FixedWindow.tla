----------------------------- MODULE FixedWindow -----------------------------
(***************************************************************************)
(* ChunkingService._split_fixed_window: a block that is too long is cut    *)
(* into overlapping windows, preferably after a separator.  One action is  *)
(* one round of its loop.  A text is its length and the positions of its   *)
(* separators.                                                             *)
(***************************************************************************)
EXTENDS Integers, FiniteSets

CONSTANTS
    Lengths,    \* lengths of the texts
    Size,       \* chunk_size
    Overlaps    \* chunk_overlap: the constructor takes at most half of Size, the loop bears any

WindowAssumption ==
    /\ Lengths \subseteq Nat
    /\ Size \in Nat /\ Size >= 2 /\ Overlaps \subseteq 0..Size

VARIABLES
    length, seps,   \* the text
    overlap,        \* of this service
    start,          \* where the next window starts
    upto,           \* where the last window ended
    pieces,         \* the windows <<first, past the last>>
    pc              \* "loop", "done"

vars == <<length, seps, overlap, start, upto, pieces, pc>>

Init ==
    /\ length \in Lengths /\ seps \in SUBSET (0..(length - 1))
    /\ overlap \in Overlaps
    /\ start = 0 /\ upto = 0 /\ pieces = {}
    /\ pc = IF length = 0 THEN "done" ELSE "loop"

\* A separator in the second half of the window: the last one there is decides.
IsBoundary(b) ==
    /\ b \in seps /\ start <= b /\ b < start + Size
    /\ \A c \in seps : c < start + Size => c <= b
    /\ b > start + Size \div 2

\* Where the window ends: after the boundary, or hard at its size.
EndsAt(e) == IF start + Size >= length THEN e = length
             ELSE \/ IsBoundary(e - 1)
                  \/ e = start + Size /\ \A b \in seps : ~IsBoundary(b)

\* Mutant: no guard against a window that ended so early that its overlap reaches its start.
StandsStill(e) == e - overlap
\* The next window repeats the end of this one, unless that is no step forward.
NextStart(e) == IF e - overlap <= start THEN e ELSE e - overlap

Step == \E e \in 1..length :
    /\ pc = "loop" /\ EndsAt(e)
    /\ pieces' = pieces \cup {<<start, e>>} /\ upto' = e
    /\ IF e >= length THEN pc' = "done" /\ UNCHANGED start
       ELSE start' = NextStart(e) /\ UNCHANGED pc
    /\ UNCHANGED <<length, seps, overlap>>

Safety == Init /\ [][Step]_vars
Spec == Safety /\ WF_vars(Step)
-----------------------------------------------------------------------------
\* Every character before the last window's end is in a window, no window is longer than the
\* chunk size or empty, and at the end that is the whole text.
Inv ==
    /\ \A p \in 0..(upto - 1) : \E w \in pieces : w[1] <= p /\ p < w[2]
    /\ \A w \in pieces : w[1] < w[2] /\ w[2] <= w[1] + Size
    /\ pc = "done" => upto = length

\* A round always moves on, also after a window that a separator ended early and with an overlap
\* that is wider than what the round gained (chunking_service.py:155-168).
AdvancesStep == start' > start \/ pc' = "done"
Advances == [][AdvancesStep]_vars

\* The loop ends.
Ends == <>(pc = "done")
=============================================================================

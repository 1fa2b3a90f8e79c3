------------------------------- MODULE Orders -------------------------------
(***************************************************************************)
(* The members of a finite set in an order: what sorted(...) makes of a    *)
(* list without repeats.  An order is the set of its pairs                 *)
(* <<earlier, later>>.                                                     *)
(***************************************************************************)
EXTENDS Integers, Sequences, FiniteSets

\* The place of a member, and the members by their places.
Place(before, m, set) == Cardinality({n \in set : <<n, m>> \in before}) + 1
InOrder(before, set) ==
    [i \in 1..Cardinality(set) |-> CHOOSE m \in set : Place(before, m, set) = i]

\* s[:n]
First(s, n) == SubSeq(s, 1, IF n < Len(s) THEN n ELSE Len(s))
=============================================================================

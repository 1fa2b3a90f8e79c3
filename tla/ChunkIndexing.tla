---------------------------- MODULE ChunkIndexing ----------------------------
(***************************************************************************)
(* The chunks of a file become rows of the index: batch by batch they are  *)
(* sent to an embedding service, whose answer may be short, reordered, of  *)
(* the wrong dimension or an error, and only a complete set of rows        *)
(* replaces the rows the file had.                                         *)
(***************************************************************************)
EXTENDS Integers, Sequences, SequencesExt, FiniteSetsExt

CONSTANTS
    Counts,         \* numbers of chunks a file may have
    BatchSize       \* embed_batch_size

IndexingAssumption ==
    /\ Counts \subseteq Nat /\ BatchSize \in Nat \ {0}

VARIABLES
    provider,   \* "openai", whose items carry their index, or "google", whose items do not
    count,      \* chunks of the file
    start,      \* chunks whose batch is done
    records,    \* rows prepared: sequence of [chunk, position, embedding]
    index,      \* rows in the database
    pc          \* "prepare", "write", "indexed", "failed"

vars == <<provider, count, start, records, index, pc>>

Old == <<[chunk |-> 0, position |-> 0, embedding |-> 0]>>

Init ==
    /\ provider \in {"openai", "google"}
    /\ count \in Counts /\ start = 0 /\ records = <<>> /\ index = Old /\ pc = "prepare"

\* The batch at start: the numbers of its chunks, from 1.
Batch == [i \in 1..Min({BatchSize, count - start}) |-> start + i]

\* The items the service may return for n texts: the text an item is of, whether its dimension is
\* right. An item carries its index when the provider says so; otherwise they come in order.
Responses(n) ==
    LET orders == {p \in [1..n -> 1..n] : \A i, j \in 1..n : p[i] = p[j] => i = j}
        whole == IF provider = "openai" THEN orders ELSE {[i \in 1..n |-> i]}
    IN {[i \in 1..m |-> [of |-> p[i], fits |-> i # bad]] : p \in whole, bad \in 0..1, m \in {n - 1, n}}

\* response.data, sorted by its index.
InOrder(items) ==
    IF provider = "google" THEN items
    ELSE SetToSortSeq(ToSet(items), LAMBDA a, b : a.of < b.of)

\* One vector of the right dimension for every text.
Accepted(n, items) == Len(items) = n /\ \A i \in DOMAIN items : items[i].fits

\* chunk_index counts through the file.
Position(i) == start + i - 1

\* _prepare_chunk_record_batch and the embedder's encode_documents.
PrepareBatch ==
    /\ pc = "prepare" /\ start < count
    /\ \E items \in Responses(Len(Batch)) :
         LET vectors == InOrder(items) IN
         IF Accepted(Len(Batch), items)
           THEN /\ records' = records \o
                     [i \in 1..Len(vectors) |-> [chunk |-> Batch[i], position |-> Position(i),
                                                 embedding |-> start + vectors[i].of]]
                /\ start' = start + Len(Batch)
                /\ UNCHANGED pc
           ELSE pc' = "failed" /\ UNCHANGED <<records, start>>
    /\ UNCHANGED <<provider, count, index>>

\* The service raises, the caller is cancelled, or a text of the batch is blank.
PrepareRaises ==
    /\ pc = "prepare" /\ start < count
    /\ pc' = "failed"
    /\ UNCHANGED <<provider, count, start, records, index>>

Prepared ==
    /\ pc = "prepare" /\ start >= count
    /\ pc' = "write"
    /\ UNCHANGED <<provider, count, start, records, index>>

\* delete_chunks_for_file and add_chunks.
Replaced(new) == new

\* The rows are replaced in one transaction, or it is rolled back.
Write ==
    /\ pc = "write"
    /\ \/ index' = Replaced(records) /\ pc' = "indexed"
       \/ UNCHANGED index /\ pc' = "failed"
    /\ UNCHANGED <<provider, count, start, records>>

Next == PrepareBatch \/ PrepareRaises \/ Prepared \/ Write
Spec == Init /\ [][Next]_vars
-----------------------------------------------------------------------------
\* The index holds the rows the file had, or one row for each of its chunks, in order, each with
\* the vector of its own text; never a part, never both.
IndexIsWhole ==
    \/ index = Old /\ pc # "indexed"
    \/ /\ pc = "indexed" /\ Len(index) = count
       /\ \A i \in DOMAIN index : index[i] = [chunk |-> i, position |-> i - 1, embedding |-> i]
=============================================================================

---------------------------- MODULE ObjectStorage ----------------------------
(***************************************************************************)
(* How an uploaded file becomes an object, on the local disk or in S3, and *)
(* how a worker reads it.  The stream is copied to a temporary file with a *)
(* limit on its size and then moved or uploaded; every failure must leave  *)
(* nothing behind.  One upload, one reader, and a deletion of the object.  *)
(***************************************************************************)
EXTENDS Integers

CONSTANTS
    Backends,   \* subset of {"local", "s3"}
    Sizes,      \* bytes of the stream
    MaxSize,    \* max_size_bytes
    ChunkSize,  \* bytes of a read
    FlushSize,  \* bytes collected before they are written
    MaxFaults,  \* errors of the stream, the disk and S3
    MaxStops    \* stops of the process

StorageAssumption ==
    /\ Backends \subseteq {"local", "s3"} /\ Sizes \subseteq Nat
    /\ {MaxSize, MaxFaults, MaxStops} \subseteq Nat
    /\ {ChunkSize, FlushSize} \subseteq Nat \ {0}

VARIABLES
    backend, size,  \* the storage and the stream
    pc,             \* "stream", "publish", "tidy", then "saved", "limit", "failed", "stopped"
    outcome,        \* what pc will be after "tidy"
    reads,          \* rounds of the loop
    got,            \* bytes read and hashed
    pending,        \* bytes not written yet
    temp,           \* bytes in the temporary file, -1 without one
    object,         \* bytes in the object, -1 without one
    sending,        \* the upload's thread outlives the request
    reader,         \* "idle", "loading", "reading", "closed", "missing"
    copy,           \* bytes of the reader's temporary file, -1 without one
    removed,        \* the object was deleted for its file
    undeleted,      \* S3 refused to delete the remains
    faults, stops

input == <<backend, size>>
vars == <<backend, size, pc, outcome, reads, got, pending, temp, object, sending,
          reader, copy, removed, undeleted, faults, stops>>
upload == <<pc, outcome, reads, got, pending, temp, sending, undeleted>>

Nothing == -1
Init ==
    /\ backend \in Backends /\ size \in Sizes
    /\ pc = "stream" /\ outcome = "saved" /\ reads = 0 /\ got = 0 /\ pending = 0
    /\ temp = 0 /\ object = Nothing /\ sending = FALSE
    /\ reader = "idle" /\ copy = Nothing /\ removed = FALSE /\ undeleted = FALSE
    /\ faults = 0 /\ stops = 0

Smaller(a, b) == IF a <= b THEN a ELSE b
MaxChunks == MaxSize \div ChunkSize + 2

\* Mutant: the bytes that are still collected at the end are dropped.
LeftOut == temp
\* What the file holds after the last flush.
Flushed == temp + pending

\* The local storage cleans up in its own handler, S3 in the one of the copy.
Raise(why) == pc' = "tidy" /\ outcome' = why

\* One round of _stream_upload_to_path.
ReadChunk ==
    LET chunk == Smaller(ChunkSize, size - got)
    IN /\ pc = "stream" /\ UNCHANGED <<input, object, sending, reader, copy, removed, undeleted, faults, stops>>
       /\ reads' = reads + 1
       /\ \/ /\ reads >= MaxChunks /\ Raise("limit") /\ UNCHANGED <<got, pending, temp>>
          \/ /\ reads < MaxChunks /\ chunk = 0
             /\ temp' = Flushed /\ pending' = 0 /\ pc' = "publish" /\ UNCHANGED <<got, outcome>>
          \/ /\ reads < MaxChunks /\ chunk > 0 /\ got' = got + chunk
             /\ IF got' > MaxSize THEN Raise("limit") /\ UNCHANGED <<pending, temp>>
                ELSE /\ UNCHANGED <<pc, outcome>>
                     /\ IF pending + chunk >= FlushSize
                        THEN temp' = temp + pending + chunk /\ pending' = 0
                        ELSE pending' = pending + chunk /\ UNCHANGED temp

\* The stream or the disk fails.
StreamFails ==
    /\ pc = "stream" /\ faults < MaxFaults /\ faults' = faults + 1
    /\ Raise("failed")
    /\ UNCHANGED <<input, reads, got, pending, temp, object, sending, reader, copy, removed, undeleted, stops>>

\* temp_path.replace, or upload_fileobj and the removal of the temporary file.
Publish ==
    /\ pc = "publish"
    /\ object' = temp /\ temp' = Nothing /\ pc' = "saved"
    /\ UNCHANGED <<input, outcome, reads, got, pending, sending, reader, copy, removed, undeleted, faults, stops>>

\* The move or the upload fails; an upload may have stored the object all the same.
PublishFails ==
    /\ pc = "publish" /\ faults < MaxFaults /\ faults' = faults + 1
    /\ Raise("failed")
    /\ \/ UNCHANGED object
       \/ backend = "s3" /\ object' = temp
    /\ UNCHANGED <<input, reads, got, pending, temp, sending, reader, copy, removed, undeleted, stops>>

\* target_path.unlink, _delete_after_failed_upload
RemoveObject == object' = Nothing

\* The handlers of an exception.
Tidy ==
    /\ pc = "tidy" /\ pc' = outcome /\ temp' = Nothing
    /\ \/ RemoveObject /\ UNCHANGED <<undeleted, faults>>
       \/ /\ backend = "s3" /\ faults < MaxFaults /\ faults' = faults + 1
          /\ undeleted' = TRUE /\ UNCHANGED object
    /\ UNCHANGED <<input, outcome, reads, got, pending, sending, reader, copy, removed, stops>>

\* The process stops: no handler runs; the thread of an upload may be seen to its end or not.
Stopped ==
    /\ pc \in {"stream", "publish"} /\ stops < MaxStops /\ stops' = stops + 1
    /\ pc' = "stopped" /\ outcome' = "stopped"
    /\ sending' \in {FALSE, pc = "publish"}
    /\ UNCHANGED <<input, reads, got, pending, temp, object, reader, copy, removed, undeleted, faults>>

\* The thread ends its work.
ThreadEnds ==
    /\ sending /\ sending' = FALSE /\ object' = temp
    /\ temp' = IF backend = "local" THEN Nothing ELSE temp
    /\ UNCHANGED <<input, pc, outcome, reads, got, pending, reader, copy, removed, undeleted, faults, stops>>

\* download_to_temp of the local storage: the path of the object itself.
ReadLocal ==
    /\ reader = "idle" /\ pc = "saved" /\ backend = "local"
    /\ reader' = IF object = Nothing THEN "missing" ELSE "reading"
    /\ UNCHANGED <<input, upload, object, copy, removed, faults, stops>>

\* S3 is read from a copy of its own.
OwnCopy == copy' = object

\* download_to_temp of S3: a temporary file and the download into it.
ReadS3 ==
    /\ reader = "idle" /\ pc = "saved" /\ backend = "s3"
    /\ IF object = Nothing THEN reader' = "missing" /\ UNCHANGED copy
       ELSE reader' = "reading" /\ OwnCopy
    /\ UNCHANGED <<input, upload, object, removed, faults, stops>>

\* The block ends, with or without an exception, and so does the copy.
CloseReader ==
    /\ reader = "reading" /\ reader' = "closed" /\ copy' = Nothing
    /\ UNCHANGED <<input, upload, object, removed, faults, stops>>

\* delete: the file is removed or the rejected upload is taken back.
Delete ==
    /\ pc = "saved" /\ ~removed
    /\ \/ object' = Nothing /\ removed' = TRUE /\ UNCHANGED faults
       \/ faults < MaxFaults /\ faults' = faults + 1 /\ UNCHANGED <<object, removed>>
    /\ UNCHANGED <<input, upload, reader, copy, stops>>

Next ==
    \/ ReadChunk \/ StreamFails \/ Publish \/ PublishFails \/ Tidy \/ Stopped \/ ThreadEnds
    \/ ReadLocal \/ ReadS3 \/ CloseReader \/ Delete
Spec == Init /\ [][Next]_vars
-----------------------------------------------------------------------------
\* An object that can be seen is the whole stream, even when the process stopped: nothing that is
\* still collected when the stream ends is lost, whatever the size of the last chunks.
SavedWhole ==
    /\ object # Nothing => object = size
    /\ pc = "saved" => got = size /\ (removed \/ object = size)

\* Without faults a stream is accepted exactly when it is not too long, at every size around a multiple
\* of the chunk: the bound on the rounds never rejects a stream that fits.
LimitIsExact ==
    /\ pc = "saved" => size <= MaxSize
    /\ pc = "limit" => size > MaxSize

\* An error leaves neither a temporary file nor an object, unless S3 refused the cleanup too.
NothingLeft ==
    pc \in {"limit", "failed"} => temp = Nothing /\ (object = Nothing \/ undeleted)

\* Nobody reads an object that was deleted while he reads it, when it comes from S3.
ReaderKeepsCopy == backend = "s3" /\ reader = "reading" => copy = size
=============================================================================

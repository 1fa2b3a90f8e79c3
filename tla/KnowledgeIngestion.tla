------------------------- MODULE KnowledgeIngestion -------------------------
(***************************************************************************)
(* Knowledge ingestion: File and TaskJob rows, the outbox and the broker   *)
(* (TaskOutbox), the workers that turn an uploaded file into searchable    *)
(* chunks, the reconciler that repairs what crashed runs left behind,      *)
(* deletion of files and manual replay of dead events.                     *)
(*                                                                         *)
(* Every action is one database transaction (or the part of a process      *)
(* between two of them): the code commits each "async with uow" block and  *)
(* holds nothing across blocks but the values it read.  The status         *)
(* CHUNKING exists only inside the index transaction and is never          *)
(* committed, so no state of the model has it.                             *)
(***************************************************************************)
EXTENDS TaskOutbox

CONSTANTS
    Files,            \* ids of files
    Unowned,          \* files whose owner_id has become NULL
    Workers,          \* executions of ingest_knowledge_file
    Reconcilers,      \* executions of recover_stale_knowledge_ingestions
    NoFile, NoTask,   \* NULL, and "nothing in hand"
    MaxIngest,        \* KNOWLEDGE_INGEST_MAX_ATTEMPTS
    WorkerFaults,     \* kinds of fault outside the relay, of FaultKinds
    MaxWorkerFaults,  \* bound of the model: how many of them
    MaxReplays        \* bound of the model: manual replays

\* A process dies; a transaction raises; it raises although it was committed.
FaultKinds == {"crash", "db", "commit"}

ASSUME IngestionAssumption ==
    /\ MaxIngest \in Nat \ {0}
    /\ MaxWorkerFaults \in Nat
    /\ MaxReplays \in Nat
    /\ NoFile \notin Files
    /\ NoTask \notin Tasks
    /\ Unowned \subseteq Files
    /\ WorkerFaults \subseteq FaultKinds

VARIABLES
    file,        \* knowledge_files: status, and whether the row has grown stale
    object,      \* the stored upload of each file
    indexed,     \* files that have document chunks
    task,        \* task_jobs
    worker,      \* program counter and claim of each worker
    reconciler,  \* the scan each reconciler run works through
    workerFaults,   \* history: how many faults outside the relay, and of which kinds
    replays

coreVars == <<file, object, indexed, task, worker, reconciler, workerFaults, replays>>
vars == <<file, object, indexed, task, worker, reconciler, workerFaults, replays, outboxVars>>

FileStatus == {"NONE", "UPLOADED", "PARSING", "READY", "FAILED", "REMOVED"}
TaskStatus == {"NONE", "PENDING", "PROCESSING", "COMPLETED", "FAILED"}

\* due: a PENDING task or an UPLOADED file is older than the stale timeout, the
\* lease of a PROCESSING task has run out.
FileRow == [status : FileStatus, due : BOOLEAN]
TaskRow == [status : TaskStatus, file : Files \cup {NoFile}, attempt : Nat,
            due : BOOLEAN]

Idle == [pc |-> "idle", task |-> NoTask, attempt |-> 0]
Busy == [pc : {"claimed", "load", "parse", "index", "cleanup", "complete", "failing"},
         task : Tasks, attempt : Nat]

\* A row a scan has read: a task with its attempt, or an orphan file.  seen is the
\* status of its file, read in a transaction of its own before the row is repaired.
Item == [kind : {"stale", "gap"}, task : Tasks, file : Files \cup {NoFile},
         attempt : Nat, seen : FileStatus]
    \cup [kind : {"orphan"}, task : {NoTask}, file : Files, attempt : {0},
         seen : {"UPLOADED"}]
NoItem == [kind |-> "none", task |-> NoTask, file |-> NoFile, attempt |-> 0, seen |-> "NONE"]
Resting == [todo |-> {}, item |-> NoItem]
ReconcilerState == [todo : SUBSET Item, item : Item \cup {NoItem}]

TypeOK ==
    /\ OutboxTypeOK
    /\ file \in [Files -> FileRow]
    /\ object \in [Files -> {"absent", "stored", "deleted"}]
    /\ indexed \subseteq Files
    /\ task \in [Tasks -> TaskRow]
    /\ worker \in [Workers -> Busy \cup {Idle}]
    /\ reconciler \in [Reconcilers -> ReconcilerState]
    /\ workerFaults \in [count : 0..MaxWorkerFaults, kinds : SUBSET FaultKinds]
    /\ replays \in 0..MaxReplays

Init ==
    /\ OutboxInit
    /\ file = [f \in Files |-> [status |-> "NONE", due |-> FALSE]]
    /\ object = [f \in Files |-> "absent"]
    /\ indexed = {}
    /\ task = [t \in Tasks |-> [status |-> "NONE", file |-> NoFile, attempt |-> 0,
                                due |-> FALSE]]
    /\ worker = [w \in Workers |-> Idle]
    /\ reconciler = [r \in Reconcilers |-> Resting]
    /\ workerFaults = [count |-> 0, kinds |-> {}]
    /\ replays = 0

-----------------------------------------------------------------------------
(* The repositories' compare-and-set updates.                               *)

ActiveTask(t) == task[t].status \in {"PENDING", "PROCESSING"}

\* The partial unique index: one PENDING or PROCESSING ingestion per file.
HasActiveTask(f) == \E t \in Tasks : ActiveTask(t) /\ task[t].file = f

\* Mutant: the fence forgets the attempt.
CurrentStatus(t, n) == task[t].status = "PROCESSING"

\* PROCESSING at this attempt: the fence of every write a worker makes.
Current(t, n) == task[t].status = "PROCESSING" /\ task[t].attempt = n

SetTask(t, status) == task' = [task EXCEPT ![t] = [@ EXCEPT !.status = status, !.due = FALSE]]

\* try_heartbeat_kb_ingestion_task and the check built on it, _attempt_is_active:
\* the lease is renewed without asking whether it has run out.
Renew(t) == task' = [task EXCEPT ![t].due = FALSE]

SetFile(f, status) == file' = [file EXCEPT ![f] = [status |-> status, due |-> FALSE]]

FileIs(f, statuses) == f \in Files /\ file[f].status \in statuses

\* Mutant: the chunks of an earlier run are left behind.
KeepChunks(f) == UNCHANGED indexed

DeleteChunks(f) == indexed' = indexed \ {f}

CreateTask(t, f, status) ==
    /\ task[t].status = "NONE"
    /\ task' = [task EXCEPT ![t] = [status |-> status, file |-> f, attempt |-> 0, due |-> FALSE]]

WorkerFault(kind) ==
    /\ kind \in WorkerFaults
    /\ workerFaults.count < MaxWorkerFaults
    /\ workerFaults' = [count |-> workerFaults.count + 1, kinds |-> workerFaults.kinds \cup {kind}]

NoFault == UNCHANGED workerFaults

-----------------------------------------------------------------------------
(* The web tier.                                                            *)

\* KnowledgeUploadWorkflow.submit: object, File, TaskJob and TaskOutbox, in one
\* transaction.  The fast publish after it is a ClaimDue of the relay.
Upload(f) ==
    /\ file[f].status = "NONE"
    /\ SetFile(f, "UPLOADED")
    /\ object' = [object EXCEPT ![f] = "stored"]
    /\ \E t \in Tasks : CreateTask(t, f, "PENDING") /\ CreateRow(t)
    /\ UNCHANGED <<indexed, worker, reconciler, workerFaults, replays>>

\* An earlier upload of the same content to be reused.
Duplicate(f) == file[f].status = "READY"

\* The content is there already: the upload is answered by a finished task.
UploadDuplicate(f) ==
    /\ Duplicate(f)
    /\ \E t \in Tasks : CreateTask(t, f, "COMPLETED")
    /\ UNCHANGED <<file, object, indexed, worker, reconciler, workerFaults, replays, outboxVars>>

\* remove_file deletes the stored object before its transaction commits; the commit
\* may never come.
DeleteObject(f) ==
    /\ object[f] = "stored"
    /\ file[f].status # "REMOVED"
    /\ object' = [object EXCEPT ![f] = "deleted"]
    /\ UNCHANGED <<file, indexed, task, worker, reconciler, workerFaults, replays, outboxVars>>

\* Chunks and record go; ON DELETE SET NULL clears the link of the tasks.  A storage
\* error was swallowed, so the object may still be there.
DeleteRecords(f) ==
    /\ file[f].status \notin {"NONE", "REMOVED"}
    /\ SetFile(f, "REMOVED")
    /\ DeleteChunks(f)
    /\ task' = [t \in Tasks |->
          IF task[t].file = f THEN [task[t] EXCEPT !.file = NoFile] ELSE task[t]]
    /\ UNCHANGED <<object, worker, reconciler, workerFaults, replays, outboxVars>>

\* replay_dead: a dead event is opened again by hand, with its failed task and file.
ReplayDead(t) ==
    LET f == task[t].file IN
    /\ replays < MaxReplays
    /\ replays' = replays + 1
    /\ outbox[t].status = "DEAD"
    /\ PrepareReplay(t, TRUE)
    /\ \/ /\ task[t].status = "FAILED" /\ FileIs(f, {"FAILED"}) /\ ~HasActiveTask(f)
          /\ SetTask(t, "PENDING")
          /\ DeleteChunks(f)
          /\ SetFile(f, "UPLOADED")
       \/ /\ task[t].status = "PENDING" /\ FileIs(f, {"UPLOADED"})
          /\ UNCHANGED <<task, indexed, file>>
    /\ UNCHANGED <<object, worker, reconciler, workerFaults>>

-----------------------------------------------------------------------------
(* The worker.  A message is popped and claimed in one step: nothing the     *)
(* worker does in between can be seen.                                      *)

At(w, pc) == worker[w].pc = pc
Goto(w, pc) == worker' = [worker EXCEPT ![w].pc = pc]
Finish(w) == worker' = [worker EXCEPT ![w] = Idle]
Mine(w) == Current(worker[w].task, worker[w].attempt)

\* Mutant: the check is forgotten.
AssumeActive(w) == TRUE

\* _attempt_is_active, asked in the transaction that goes on to write the file.
StillActive(w) == Mine(w)

\* The file of the claim; NoFile once the record is deleted.
FileOf(w) == task[worker[w].task].file

Deliver(w, t) ==
    /\ At(w, "idle")
    /\ PopMessage(t)
    /\ task[t].status = "PENDING" /\ task[t].file # NoFile
    /\ task' = [task EXCEPT ![t] =
          [@ EXCEPT !.status = "PROCESSING", !.attempt = task[t].attempt + 1,
                     !.due = FALSE]]
    /\ worker' = [worker EXCEPT ![w] =
          [pc |-> "claimed", task |-> t, attempt |-> task[t].attempt + 1]]
    /\ UNCHANGED <<file, object, indexed, reconciler, workerFaults, replays>>

\* Nothing to claim: a duplicate is acknowledged, anything else is rejected by an
\* exception that finds no attempt to mark as failed.
DeliverRejected(w, t) ==
    /\ At(w, "idle")
    /\ PopMessage(t)
    /\ ~(task[t].status = "PENDING" /\ task[t].file # NoFile)
    /\ UNCHANGED coreVars

\* The worker dies with the message popped and nothing claimed.
LoseMessage(t) ==
    /\ WorkerFault("crash")
    /\ PopMessage(t)
    /\ UNCHANGED <<file, object, indexed, task, worker, reconciler, replays>>

StartHeartbeat(w) ==
    /\ At(w, "claimed")
    /\ \/ Mine(w) /\ Renew(worker[w].task) /\ Goto(w, "load") /\ NoFault
       \/ ~Mine(w) /\ Goto(w, "failing") /\ UNCHANGED task /\ NoFault
       \/ WorkerFault("db") /\ Goto(w, "failing") /\ UNCHANGED task
    /\ UNCHANGED <<file, object, indexed, reconciler, replays, outboxVars>>

\* The background renewal, from start() to stop(): it does not reach "complete".
Heartbeat(w) ==
    /\ worker[w].pc \in {"load", "parse", "index", "cleanup"}
    /\ Mine(w)
    /\ task[worker[w].task].due
    /\ Renew(worker[w].task)
    /\ UNCHANGED <<file, object, indexed, worker, reconciler, workerFaults, replays, outboxVars>>

\* The first transaction of ingest_file.  What it raises is not cleaned up after.
LoadFile(w) ==
    LET f == FileOf(w)
        ok == StillActive(w) /\ FileIs(f, {"UPLOADED"})
        commit == Renew(worker[w].task) /\ SetFile(f, "PARSING")
    IN
    /\ At(w, "load")
    /\ \/ ok /\ commit /\ Goto(w, "parse") /\ NoFault
       \/ ~ok /\ Goto(w, "failing") /\ NoFault /\ UNCHANGED <<task, file>>
       \/ WorkerFault("db") /\ Goto(w, "failing") /\ UNCHANGED <<task, file>>
       \/ ok /\ commit /\ WorkerFault("commit") /\ Goto(w, "failing")
    /\ UNCHANGED <<object, indexed, reconciler, replays, outboxVars>>

\* Download and text extraction; a file may be missing, broken or empty of text.
Parse(w) ==
    /\ At(w, "parse")
    /\ \/ ~(FileOf(w) \in Files /\ object[FileOf(w)] = "deleted") /\ Goto(w, "index")
       \/ Goto(w, "cleanup")
    /\ UNCHANGED <<file, object, indexed, task, reconciler, workerFaults, replays, outboxVars>>

\* The index transaction: the renewal locks the task row until the commit, so the
\* whole of it happens at one instant.  Embedding may fail at any time.
IndexChunks(w) ==
    LET f == FileOf(w)
        commit == /\ StillActive(w) /\ FileIs(f, {"PARSING"})
                  /\ Renew(worker[w].task)
                  /\ SetFile(f, "READY")
                  /\ indexed' = indexed \cup {f}
    IN
    /\ At(w, "index")
    /\ \/ commit /\ Goto(w, "complete") /\ NoFault
       \/ Goto(w, "cleanup") /\ NoFault /\ UNCHANGED <<task, file, indexed>>
       \/ commit /\ WorkerFault("commit") /\ Goto(w, "cleanup")
    /\ UNCHANGED <<object, reconciler, replays, outboxVars>>

\* _cleanup_failed_ingestion: an attempt that is no longer active leaves all alone.
CleanUp(w) ==
    LET f == FileOf(w) IN
    /\ At(w, "cleanup")
    /\ Goto(w, "failing")
    /\ \/ /\ StillActive(w) /\ NoFault
          /\ Renew(worker[w].task)
          /\ DeleteChunks(f)
          /\ IF FileIs(f, {"UPLOADED", "PARSING", "READY"})
             THEN SetFile(f, "FAILED")
             ELSE UNCHANGED file
       \/ ~StillActive(w) /\ NoFault /\ UNCHANGED <<task, indexed, file>>
       \/ WorkerFault("db") /\ UNCHANGED <<task, indexed, file>>
    /\ UNCHANGED <<object, reconciler, replays, outboxVars>>

\* The terminal write.  A task the reconciler completed in the meantime is accepted.
Complete(w) ==
    LET commit == Mine(w) /\ SetTask(worker[w].task, "COMPLETED")
        done == task[worker[w].task].status = "COMPLETED"
    IN
    /\ At(w, "complete")
    /\ \/ commit /\ Finish(w) /\ NoFault
       \/ ~Mine(w) /\ done /\ Finish(w) /\ NoFault /\ UNCHANGED task
       \/ ~Mine(w) /\ ~done /\ Goto(w, "failing") /\ NoFault /\ UNCHANGED task
       \/ WorkerFault("db") /\ Goto(w, "failing") /\ UNCHANGED task
       \/ commit /\ WorkerFault("commit") /\ Goto(w, "failing")
    /\ UNCHANGED <<file, object, indexed, reconciler, replays, outboxVars>>

\* safe_mark_failed; an error of its own transaction is swallowed.
MarkFailed(w) ==
    /\ At(w, "failing")
    /\ Finish(w)
    /\ \/ Mine(w) /\ SetTask(worker[w].task, "FAILED") /\ NoFault
       \/ ~Mine(w) /\ UNCHANGED task /\ NoFault
       \/ WorkerFault("db") /\ UNCHANGED task
    /\ UNCHANGED <<file, object, indexed, reconciler, replays, outboxVars>>

WorkerCrash(w) ==
    /\ WorkerFault("crash")
    /\ ~At(w, "idle")
    /\ Finish(w)
    /\ UNCHANGED <<file, object, indexed, task, reconciler, replays, outboxVars>>

-----------------------------------------------------------------------------
(* The reconciler: one scan, then row by row a read of the file and a       *)
(* compare-and-set transaction that undoes itself if anything has changed.  *)

StaleItems == {[kind |-> "stale", task |-> t, file |-> task[t].file,
                attempt |-> task[t].attempt, seen |-> "NONE"] :
                t \in {u \in Tasks : task[u].status = "PROCESSING" /\ task[u].due}}

\* Mutant: a published event counts as on its way for ever.
UnpublishedGapItems ==
    {[kind |-> "gap", task |-> t, file |-> task[t].file,
      attempt |-> task[t].attempt, seen |-> "NONE"] :
      t \in {u \in Tasks : /\ task[u].status = "PENDING" /\ task[u].due
                           /\ task[u].file # NoFile
                           /\ outbox[u].status = "DEAD"}}

GapItems == {[kind |-> "gap", task |-> t, file |-> task[t].file,
              attempt |-> task[t].attempt, seen |-> "NONE"] :
              t \in {u \in Tasks : /\ task[u].status = "PENDING" /\ task[u].due
                                   /\ task[u].file # NoFile
                                   /\ ~ActiveRow(u)}}

OrphanItems == {[kind |-> "orphan", task |-> NoTask, file |-> f,
                 attempt |-> 0, seen |-> "UPLOADED"] :
                 f \in {g \in Files : /\ file[g].status = "UPLOADED" /\ file[g].due
                                      /\ ~HasActiveTask(g)}}

Scan(r) ==
    LET found == StaleItems \cup GapItems \cup OrphanItems IN
    /\ reconciler[r] = Resting
    /\ found # {}
    /\ reconciler' = [reconciler EXCEPT ![r].todo = found]
    /\ UNCHANGED <<file, object, indexed, task, worker, workerFaults, replays, outboxVars>>

\* Stale tasks come first, then gaps, then orphans.
Precedes(k, l) == <<k, l>> \in {<<"stale", "gap">>, <<"stale", "orphan">>, <<"gap", "orphan">>}

\* _get_file for the next task of the scan; an orphan is not read again.
Pick(r) ==
    /\ reconciler[r].item = NoItem
    /\ \E i \in reconciler[r].todo :
          /\ \A j \in reconciler[r].todo : ~Precedes(j.kind, i.kind)
          /\ LET seen == IF i.kind = "orphan" THEN i.seen
                         ELSE IF i.file = NoFile THEN "REMOVED" ELSE file[i.file].status
             IN reconciler' = [reconciler EXCEPT
                   ![r] = [todo |-> @.todo \ {i}, item |-> [i EXCEPT !.seen = seen]]]
    /\ UNCHANGED <<file, object, indexed, task, worker, workerFaults, replays, outboxVars>>

\* The item in hand is of this kind, and its file was in one of these statuses.
InHand(r, kinds, statuses) ==
    /\ reconciler[r].item # NoItem
    /\ reconciler[r].item.kind \in kinds
    /\ reconciler[r].item.seen \in statuses

DoneWith(r) ==
    /\ reconciler' = [reconciler EXCEPT ![r].item = NoItem]
    /\ UNCHANGED <<object, worker, workerFaults, replays>>

\* A compare-and-set found something else: the transaction is rolled back.
Conflict(r) ==
    /\ DoneWith(r)
    /\ UNCHANGED <<file, indexed, task, outboxVars>>

Unchanged(i) == task[i.task].attempt = i.attempt

\* The file is gone or has failed, so the task fails: no look at the lease.
FailTaskOnly(r) ==
    LET i == reconciler[r].item IN
    /\ InHand(r, {"stale", "gap"}, {"REMOVED", "FAILED"})
    /\ IF ActiveTask(i.task) /\ Unchanged(i)
       THEN /\ SetTask(i.task, "FAILED")
            /\ DoneWith(r)
            /\ UNCHANGED <<file, indexed, outboxVars>>
       ELSE Conflict(r)

\* The file is READY, so the task is completed: no look at the lease either.
ReconcileCompleted(r) ==
    LET i == reconciler[r].item
        expected == IF i.kind = "stale" THEN "PROCESSING" ELSE "PENDING"
    IN
    /\ InHand(r, {"stale", "gap"}, {"READY"})
    /\ IF task[i.task].status = expected /\ Unchanged(i)
       THEN /\ SetTask(i.task, "COMPLETED")
            /\ DoneWith(r)
            /\ UNCHANGED <<file, indexed, outboxVars>>
       ELSE Conflict(r)

\* Mutants: the lease is not looked at again after the scan; the file is not looked at
\* again; the last attempt is retried as well.
ExpiredAtScan(i) == Current(i.task, i.attempt)
FileAnyhow(i) == i.file \in Files
MayRetryOnceMore(i) == i.attempt <= MaxIngest

Expired(i) == Current(i.task, i.attempt) /\ task[i.task].due
FileAsRead(i) == FileIs(i.file, {i.seen})
MayRetry(i) == i.attempt < MaxIngest

\* _prepare_task_outbox: an event that is still active is left alone.
PrepareTaskOutbox(t) ==
    \/ PrepareReplay(t, TRUE)
    \/ ActiveRow(t) /\ UNCHANGED outboxVars

\* Attempts are left: task, file and event go back to where the upload left them.
ResetExpired(r) ==
    LET i == reconciler[r].item IN
    /\ InHand(r, {"stale"}, {"UPLOADED", "PARSING"})
    /\ MayRetry(i)
    /\ IF Expired(i) /\ FileAsRead(i)
       THEN /\ SetTask(i.task, "PENDING")
            /\ DeleteChunks(i.file)
            /\ SetFile(i.file, "UPLOADED")
            /\ PrepareTaskOutbox(i.task)
            /\ DoneWith(r)
       ELSE Conflict(r)

FailPair(r, i) ==
    /\ SetTask(i.task, "FAILED")
    /\ DeleteChunks(i.file)
    /\ SetFile(i.file, "FAILED")
    /\ DoneWith(r)
    /\ UNCHANGED outboxVars

FailExpiredPair(r) ==
    LET i == reconciler[r].item IN
    /\ InHand(r, {"stale"}, {"UPLOADED", "PARSING"})
    /\ ~MayRetry(i)
    /\ IF Expired(i) /\ FileIs(i.file, {"UPLOADED", "PARSING"})
       THEN FailPair(r, i)
       ELSE Conflict(r)

\* A task that stays PENDING although its event was published: the message is sent
\* again while the publish budget lasts.  The task itself is not looked at again.
MayReplay(t) == outbox[t].status = "PUBLISHED" /\ outbox[t].attempts < MaxPublish

ReplayGap(r) ==
    LET i == reconciler[r].item IN
    /\ InHand(r, {"gap"}, {"UPLOADED", "PARSING"})
    /\ MayReplay(i.task)
    /\ PrepareReplay(i.task, FALSE)
    /\ DoneWith(r)
    /\ UNCHANGED <<file, indexed, task>>

FailGap(r) ==
    LET i == reconciler[r].item IN
    /\ InHand(r, {"gap"}, {"UPLOADED", "PARSING"})
    /\ ~MayReplay(i.task)
    /\ IF /\ task[i.task].status = "PENDING" /\ Unchanged(i)
          /\ FileIs(i.file, {"UPLOADED", "PARSING"})
       THEN FailPair(r, i)
       ELSE Conflict(r)

\* A file without a task: the owner is asked for, the file's status is not looked at
\* again.  The foreign key and the partial index refuse the rest.
FailUnowned(r) ==
    LET f == reconciler[r].item.file IN
    /\ InHand(r, {"orphan"}, FileStatus)
    /\ f \in Unowned
    /\ IF FileIs(f, {"UPLOADED"})
       THEN /\ SetFile(f, "FAILED")
            /\ DoneWith(r)
            /\ UNCHANGED <<indexed, task, outboxVars>>
       ELSE Conflict(r)

AdoptOrphan(r) ==
    LET f == reconciler[r].item.file IN
    /\ InHand(r, {"orphan"}, FileStatus)
    /\ f \notin Unowned
    /\ IF ~FileIs(f, {"REMOVED"}) /\ ~HasActiveTask(f)
       THEN /\ \E t \in Tasks : CreateTask(t, f, "PENDING") /\ CreateRow(t)
            /\ DoneWith(r)
            /\ UNCHANGED <<file, indexed>>
       ELSE Conflict(r)

\* The run dies, or a transaction raises and ends it.
ReconcilerCrash(r) ==
    /\ WorkerFault("crash")
    /\ reconciler[r] # Resting
    /\ reconciler' = [reconciler EXCEPT ![r] = Resting]
    /\ UNCHANGED <<file, object, indexed, task, worker, replays, outboxVars>>

-----------------------------------------------------------------------------
(* Time: a lease runs out, a row grows older than the stale timeout.  The   *)
(* age of a row matters, and is let pass, only while a scan would ask for it. *)

TaskDue(t) ==
    /\ task[t].status = "PROCESSING" \/ (task[t].status = "PENDING" /\ ~ActiveRow(t))
    /\ ~task[t].due
    /\ task' = [task EXCEPT ![t].due = TRUE]
    /\ UNCHANGED <<file, object, indexed, worker, reconciler, workerFaults, replays, outboxVars>>

FileDue(f) ==
    /\ file[f].status = "UPLOADED" /\ ~HasActiveTask(f) /\ ~file[f].due
    /\ file' = [file EXCEPT ![f].due = TRUE]
    /\ UNCHANGED <<object, indexed, task, worker, reconciler, workerFaults, replays, outboxVars>>

-----------------------------------------------------------------------------
WebStep ==
    \/ \E f \in Files : Upload(f) \/ UploadDuplicate(f) \/ DeleteObject(f) \/ DeleteRecords(f)
    \/ \E t \in Tasks : ReplayDead(t)

WorkerStep(w) ==
    \/ StartHeartbeat(w)
    \/ LoadFile(w)
    \/ Parse(w)
    \/ IndexChunks(w)
    \/ CleanUp(w)
    \/ Complete(w)
    \/ MarkFailed(w)

TakeMessage(t) == \E w \in Workers : Deliver(w, t) \/ DeliverRejected(w, t)

ReconcilerStep(r) ==
    \/ Scan(r)
    \/ Pick(r)
    \/ FailTaskOnly(r)
    \/ ReconcileCompleted(r)
    \/ ResetExpired(r)
    \/ FailExpiredPair(r)
    \/ ReplayGap(r)
    \/ FailGap(r)
    \/ FailUnowned(r)
    \/ AdoptOrphan(r)

CoreNext ==
    \/ WebStep
    \/ \E w \in Workers : WorkerStep(w) \/ Heartbeat(w) \/ WorkerCrash(w)
    \/ \E r \in Reconcilers : ReconcilerStep(r) \/ ReconcilerCrash(r)
    \/ \E t \in Tasks : TakeMessage(t) \/ LoseMessage(t) \/ TaskDue(t)
    \/ \E f \in Files : FileDue(f)

RelayStep == RelayNext /\ UNCHANGED coreVars

Next == CoreNext \/ RelayStep

\* Nothing makes users upload, delete or replay, and nothing makes processes fail.
\* The relay, the reconciler and the workers keep running, and time passes.
Fairness ==
    /\ RelayFairness
    /\ \A w \in Workers : WF_vars(WorkerStep(w))
    /\ \A r \in Reconcilers : WF_vars(ReconcilerStep(r))
    /\ \A t \in Tasks : WF_vars(TakeMessage(t)) /\ WF_vars(TaskDue(t))
    /\ \A f \in Files : WF_vars(FileDue(f))

Safety == Init /\ [][Next]_vars
Spec == Safety /\ Fairness
-----------------------------------------------------------------------------
(* Properties.                                                              *)

\* Chunks are searchable exactly while their file is READY: a retry, a cleanup, a
\* reconciliation or a deletion that interleaves with an index transaction never leaves
\* chunks of a file that is being processed, nor a READY file without chunks.
ReadyIffIndexed ==
    \A f \in Files : file[f].status = "READY" <=> f \in indexed

\* Retries are bounded: whatever workers, relay and reconciler do, an ingestion is
\* attempted no more often than the budget plus the manual replays, and a task that
\* waits for a worker has an attempt left (KNOWLEDGE_INGEST_MAX_ATTEMPTS).
RetryBudget ==
    \A t \in Tasks :
        /\ task[t].attempt <= MaxIngest + replays
        /\ task[t].status = "PENDING" => task[t].attempt < MaxIngest + replays

\* A task waits for a worker only while its file is as the upload left it, so that the
\* next attempt can start: resets, replays and repairs move the pair together.
PendingMeansUploaded ==
    \A t \in Tasks : task[t].status = "PENDING" /\ task[t].file # NoFile
        => file[task[t].file].status = "UPLOADED"

\* The pair never splits into a finished file with a failed task (docs/assessments/
\* 2026-07-15-knowledge-ingestion-data-consistency-plan.md:65 and :350).
ReadyTaskNotFailed ==
    \A t \in Tasks : task[t].status = "FAILED" => ~FileIs(task[t].file, {"READY"})

\* Nor into a finished task whose file cannot be searched.
CompletedMeansReady ==
    \A t \in Tasks : task[t].status = "COMPLETED" /\ task[t].file # NoFile
        => FileIs(task[t].file, {"READY"})

\* What file and task say of each other never contradicts: no waiting task whose file is
\* not as the upload left it; unless a commit was lost, no completed task whose file cannot
\* be searched; and where the database answers and nobody replays by hand, no READY file
\* with a failed task.
PairsAgree ==
    /\ PendingMeansUploaded
    /\ "commit" \notin workerFaults.kinds => CompletedMeansReady
    /\ workerFaults.kinds \subseteq {"crash"} /\ replays = 0 => ReadyTaskNotFailed

\* Fencing: a worker whose attempt has been taken away changes no file and no chunks,
\* however late its transactions arrive (task-plan.md:131 of durable-task-recovery).
WorkerFenced ==
    [][\A w \in Workers :
          worker'[w] # worker[w] /\ worker[w].pc # "idle" /\ ~Mine(w)
              => UNCHANGED <<file, indexed, task>>]_vars

\* An attempt is taken from a worker, to be given to another, only after its lease
\* has run out, and never once its file is READY.
LiveAttemptKept ==
    [][\A t \in Tasks :
          task[t].status = "PROCESSING" /\ task'[t].status = "PENDING"
              => task[t].due /\ ~FileIs(task[t].file, {"READY"})]_vars

\* A terminal state is reached once: only a manual replay opens a failed task again
\* (task-plan.md:11, "at least one execution, at most one terminal state").
TerminalOnce ==
    [][\A t \in Tasks :
          /\ task[t].status = "COMPLETED" => task'[t].status = "COMPLETED"
          /\ task[t].status = "FAILED" /\ replays' = replays => task'[t].status = "FAILED"]_vars

\* Every accepted file is searchable, failed or deleted in the end.
AcceptedFileSettles ==
    \A f \in Files :
        file[f].status \in {"UPLOADED", "PARSING"}
            ~> file[f].status \in {"READY", "FAILED", "REMOVED"}

\* A task whose file is kept reaches a terminal state: however publishers, workers and
\* the reconciler crash, one of relay, redelivery and repair still moves it.
LinkedTaskSettles ==
    \A t \in Tasks : ActiveTask(t) ~> ~ActiveTask(t) \/ task[t].file = NoFile

\* Every ingestion task reaches a terminal state, its file deleted or not (work-items/
\* archive/durable-task-recovery/task-plan.md:76).
TaskSettles ==
    \A t \in Tasks : ActiveTask(t) ~> ~ActiveTask(t)
-----------------------------------------------------------------------------
(* The promise made to the user, and what stands for it here.               *)

Phase(status) ==
    CASE status = "NONE" -> "none"
      [] status \in {"UPLOADED", "PARSING"} -> "accepted"
      [] status = "READY" -> "ready"
      [] status = "FAILED" -> "failed"
      [] status = "REMOVED" -> "removed"

Lifecycle == INSTANCE FileLifecycle
                WITH phase <- [f \in Files |-> Phase(file[f].status)],
                     searchable <- indexed

\* Every step of the pipeline is a step of FileLifecycle or hidden from the user: chunks
\* appear and disappear in the same step as READY does, READY is left by deletion only,
\* a failed file is reopened by a manual replay only.
KeepsLifecycle == Lifecycle!Safety

\* The pipeline implements FileLifecycle, fairness included: accepted files settle.
ImplementsLifecycle == Lifecycle!Spec
=============================================================================

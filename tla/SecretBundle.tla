---------------------------- MODULE SecretBundle ----------------------------
(***************************************************************************)
(* The deployment's secrets: one JSON bundle in AWS, merged by imports,    *)
(* and the directory of files the containers read, replaced as a whole by  *)
(* a materialisation that stages it next to the old one and renames.       *)
(* Runs may overlap, every file operation may fail, and a run may die.     *)
(***************************************************************************)
EXTENDS Naturals, FiniteSets

CONSTANTS
    Keys,           \* the keys of the manifest
    Required,       \* those marked required
    Importers,      \* runs of import-directory --apply --update-existing
    Writers,        \* processes that run materialize
    Empty,          \* no value: a key that is not in the bundle, a file of no bytes
    NoDir,          \* a directory that does not exist
    MaxFailures, MaxCrashes, MaxRuns  \* bounds of the model

\* The values of a bundle are named after the import they came with; a file may be made by hand.
Values == Importers
Bundles == [Keys -> Values \cup {Empty}]
Missing == "missing"
Directories == [managed : BOOLEAN, files : [Keys -> Values \cup {Empty, Missing, "hand"}]]

SecretAssumption ==
    /\ Required \subseteq Keys /\ IsFiniteSet(Keys)
    /\ {MaxFailures, MaxCrashes, MaxRuns} \subseteq Nat
    /\ Empty \notin Values /\ NoDir \notin Bundles \cup Directories

VARIABLES
    aws,        \* the bundle in Secrets Manager, or NoDir before it is created
    importer,   \* per import: [st, bundle, read]
    target,     \* the runtime directory: NoDir, or [managed, files]; a file may be missing
    writer,     \* per materialisation: [st, bundle, stage, backup, stuck]; stuck: its run
                \* died or could not remove a directory
    stored,     \* history: the bundles that were in AWS
    published,  \* history: a run has published its directory
    unrestored, \* history: a directory could not be put back
    runs, failures, crashes

vars == <<aws, importer, target, writer, stored, published, unrestored, runs, failures, crashes>>

Fresh == [managed |-> TRUE, files |-> [k \in Keys |-> Missing]]

Init ==
    /\ aws = NoDir
    /\ importer = [i \in Importers |-> [st |-> "idle", bundle |-> [k \in Keys |-> Empty],
                                        read |-> [k \in Keys |-> Empty]]]
    /\ target \in {NoDir, [managed |-> FALSE, files |-> [k \in Keys |-> Missing]],
                   [managed |-> FALSE, files |-> [k \in Keys |-> "hand"]]}
    /\ writer = [w \in Writers |-> [st |-> "idle", bundle |-> [k \in Keys |-> Empty],
                                    stage |-> NoDir, backup |-> NoDir, stuck |-> FALSE]]
    /\ stored = {} /\ published = FALSE /\ unrestored = FALSE
    /\ runs = 0 /\ failures = 0 /\ crashes = 0

\* validate_bundle.
Valid(bundle) == \A k \in Required : bundle[k] # Empty

Store(bundle) == aws' = bundle /\ stored' = stored \cup {bundle}
Rest == UNCHANGED <<target, writer, published, unrestored, runs, failures, crashes>>

\* read_directory_bundle, then create_secret, which fails when there is a secret already.
Import(i) == \E ks \in SUBSET Keys :
    LET bundle == [k \in Keys |-> IF k \in ks THEN i ELSE Empty]
    IN /\ importer[i].st = "idle" /\ Required \subseteq ks
       /\ importer' = [importer EXCEPT ![i].bundle = bundle,
                                       ![i].st = IF aws = NoDir THEN "done" ELSE "fetch"]
       /\ IF aws = NoDir THEN Store(bundle) ELSE UNCHANGED <<aws, stored>>
       /\ Rest

\* The bundle that is there is fetched; an invalid one ends the import.
FetchExisting(i) ==
    /\ importer[i].st = "fetch"
    /\ importer' = [importer EXCEPT ![i].read = aws,
                                    ![i].st = IF Valid(aws) THEN "put" ELSE "done"]
    /\ UNCHANGED <<aws, stored>> /\ Rest

\* existing | bundle.
Merged(old, new) == [k \in Keys |-> IF new[k] # Empty THEN new[k] ELSE old[k]]

\* put_secret_value.
Put(i) ==
    /\ importer[i].st = "put"
    /\ Store(Merged(importer[i].read, importer[i].bundle))
    /\ importer' = [importer EXCEPT ![i].st = "done"]
    /\ Rest

Still == UNCHANGED <<aws, importer, stored, published, unrestored, failures, crashes>>
Quiet == Still /\ UNCHANGED runs
Become(w, st) == [writer EXCEPT ![w].st = st]

Fetch(w) ==
    /\ writer[w].st = "idle" /\ runs < MaxRuns /\ aws # NoDir
    /\ runs' = runs + 1
    /\ writer' = [writer EXCEPT ![w].stage = NoDir, ![w].backup = NoDir, ![w].stuck = FALSE,
                      ![w].bundle = IF Valid(aws) THEN aws ELSE @,
                      ![w].st = IF Valid(aws) THEN "check" ELSE "idle"]
    /\ UNCHANGED target /\ Still

HasFiles(dir) == \E k \in Keys : dir.files[k] # Missing

\* A directory with files that is not this tool's is refused; else a stage is made.
Check(w) ==
    /\ writer[w].st = "check"
    /\ IF target # NoDir /\ ~target.managed /\ HasFiles(target)
         THEN writer' = Become(w, "idle")
         ELSE writer' = [writer EXCEPT ![w].st = "stage", ![w].stage = Fresh]
    /\ UNCHANGED target /\ Quiet

\* _prepare_materialized_directory: one file after the other, empty for a key without a value.
WriteFile(w) == \E k \in Keys :
    /\ writer[w].st = "stage"
    /\ writer[w].stage.files[k] = Missing
    /\ writer' = [writer EXCEPT ![w].stage.files[k] = writer[w].bundle[k]]
    /\ UNCHANGED target /\ Quiet

\* Mutant: the stage is published as soon as it has its first file.
SomeStaged(w) == HasFiles(writer[w].stage)
\* Every file is staged.
Staged(w) == \A k \in Keys : writer[w].stage.files[k] # Missing

\* The old directory moves away.
Backup(w) ==
    /\ writer[w].st = "stage" /\ Staged(w)
    /\ writer' = [writer EXCEPT ![w].st = "publish", ![w].backup = target]
    /\ target' = NoDir
    /\ Quiet

\* Renaming onto a directory that is not there, or is empty (the marker is a file too).
Publish(w) ==
    /\ writer[w].st = "publish"
    /\ target = NoDir
    /\ target' = writer[w].stage
    /\ writer' = [writer EXCEPT ![w].st = "clean", ![w].stage = NoDir]
    /\ published' = TRUE
    /\ UNCHANGED <<aws, importer, stored, unrestored, runs, failures, crashes>>

\* An operation on files fails.
Fault == failures < MaxFailures /\ failures' = failures + 1

\* ... by itself, or because another run has put its directory there.
GiveUp(w) ==
    /\ writer[w].st \in {"stage", "publish"}
    /\ Fault \/ (writer[w].st = "publish" /\ target # NoDir /\ UNCHANGED failures)
    /\ writer' = Become(w, "restore")
    /\ UNCHANGED <<aws, importer, target, stored, published, unrestored, runs, crashes>>

Misses(w) == writer[w].backup # NoDir /\ target = NoDir

\* The except block: the old directory comes back if nothing has its place.
Restore(w) ==
    /\ writer[w].st = "restore"
    /\ IF Misses(w)
         THEN target' = writer[w].backup /\ writer' = [writer EXCEPT ![w].st = "clean", ![w].backup = NoDir]
         ELSE UNCHANGED target /\ writer' = Become(w, "clean")
    /\ Quiet

\* ... or cannot be renamed: the finally block runs all the same.
RestoreFails(w) ==
    /\ writer[w].st = "restore" /\ Misses(w) /\ Fault
    /\ writer' = Become(w, "clean") /\ unrestored' = TRUE
    /\ UNCHANGED <<aws, importer, target, stored, published, runs, crashes>>

\* The directories the finally block removes.
Cleaned(row) == [row EXCEPT !.stage = NoDir, !.backup = NoDir]

\* The finally block: stage and backup are removed.
Clean(w) ==
    /\ writer[w].st = "clean"
    /\ writer' = [writer EXCEPT ![w] = [Cleaned(@) EXCEPT !.st = "idle"]]
    /\ UNCHANGED target /\ Quiet

\* A removal fails: with the stage's the backup stays as well, it is removed after it.
CleanFails(w) ==
    /\ writer[w].st = "clean" /\ Fault
    /\ \/ writer[w].stage # NoDir /\ writer' = [writer EXCEPT ![w].st = "idle", ![w].stuck = TRUE]
       \/ /\ writer[w].backup # NoDir
          /\ writer' = [writer EXCEPT ![w].st = "idle", ![w].stuck = TRUE, ![w].stage = NoDir]
    /\ UNCHANGED <<aws, importer, target, stored, published, unrestored, runs, crashes>>

\* The run dies; what it had made stays, and a later run makes directories of its own.
Crash(w) ==
    /\ crashes < MaxCrashes /\ writer[w].st \in {"stage", "publish", "restore", "clean"}
    /\ crashes' = crashes + 1
    /\ writer' = [writer EXCEPT ![w].st = "idle", ![w].stuck = TRUE]
    /\ UNCHANGED <<aws, importer, target, stored, published, unrestored, runs, failures>>

Next ==
    \/ \E i \in Importers : Import(i) \/ FetchExisting(i) \/ Put(i)
    \/ \E w \in Writers : Fetch(w) \/ Check(w) \/ WriteFile(w) \/ Backup(w) \/ Publish(w)
                            \/ GiveUp(w) \/ Restore(w) \/ RestoreFails(w)
                            \/ Clean(w) \/ CleanFails(w) \/ Crash(w)

Safety == Init /\ [][Next]_vars

-----------------------------------------------------------------------------
\* Every variable has its type, and a run that fills or publishes its stage has one
\* (secret_bundle.py:272-291).
TypeOK ==
    /\ aws = NoDir \/ aws \in Bundles
    /\ \A i \in Importers : /\ importer[i].st \in {"idle", "fetch", "put", "done"}
                            /\ importer[i].bundle \in Bundles
    /\ target \in Directories \cup {NoDir}
    /\ \A w \in Writers : /\ writer[w].st \in {"idle", "check", "stage", "publish", "restore", "clean"}
                          /\ writer[w].bundle \in Bundles
                          /\ {writer[w].stage, writer[w].backup} \subseteq Directories \cup {NoDir}
                          /\ writer[w].st \in {"stage", "publish"} => writer[w].stage # NoDir
    /\ stored \subseteq Bundles

\* At every moment, whatever fails or dies and however runs overlap, a directory of this tool
\* has the files of one bundle that was in AWS, all of them, with a value for every required
\* key (secret_bundle.py:237-282).
TargetIsOneBundle ==
    (target # NoDir /\ target.managed) =>
        /\ target.files \in stored
        /\ \A k \in Required : target.files[k] # Empty

\* When no run has died and none is under way, the directory is there once one was published,
\* unless it could not be put back: then the finally block removes it with the backup
\* (secret_bundle.py:283-291).
TargetStays ==
    (published /\ crashes = 0 /\ ~unrestored /\ \A w \in Writers : writer[w].st = "idle") => target # NoDir

\* A run leaves a copy of the secrets behind only if it died or could not remove it, whatever
\* else has failed before (secret_bundle.py:287-291).
NothingLeft ==
    \A w \in Writers :
        writer[w].st = "idle" /\ ~writer[w].stuck => writer[w].stage = NoDir /\ writer[w].backup = NoDir

Present(bundle) == {k \in Keys : bundle[k] # Empty}

\* However imports overlap, there is a bundle, the first, whose keys every later one has: what is
\* lost in an overlap is at most what a concurrent import added (secret_bundle.py:358-361).
FirstKeysStay ==
    stored # {} => \E first \in stored : \A later \in stored : Present(first) \subseteq Present(later)

\* docs: an update merges keys and removes none that are there (deploy-ec2.md:256).
MergeKeepsKeys ==
    [][\A i \in Importers : (importer[i].st = "put" /\ importer'[i].st = "done") =>
          Present(aws) \subseteq Present(aws')]_vars
=============================================================================

----------------------------- MODULE Migration -----------------------------
(***************************************************************************)
(* What migrations do to the TEST copy of an installation and of those     *)
(* nested in it, and to the production database they copy from: the steps  *)
(* of RuntimeOperations (infrastructure/runtime_operations.py) from        *)
(* backup_existing_test to pending_search_replace, run and resumed by the  *)
(* runner that module Pipeline describes in full.                          *)
(*                                                                         *)
(* dest, schema, backups and disk survive the process.  run, proc and      *)
(* cached are its memory.  source and production are the production side:  *)
(* where its database is, and whether anything wrote to it.  contact and   *)
(* mishaps only record what happened, for the properties to speak about.   *)
(***************************************************************************)
EXTENDS Integers, Sequences, FiniteSets

CONSTANTS
    Nodes,         \* the installations of the plan
    Root,          \* the one the run is for
    Contains,      \* node -> nodes whose destination is inside its own, itself included
    Plan,          \* the ordered steps, [name, node]
    Sources,       \* places the production database may be at
    MaxRuns,       \* bound: how many runs are ever created
    Crashes,       \* bound: may the process die abruptly?
    Prunes         \* bound: may the operator remove backups between runs?

StepName ==
    {"backup_existing_test", "copy_files", "snapshot_source_database",
     "copy_database", "write_test_db_config", "pending_search_replace"}

Length == Len(Plan)
Runs == 1..MaxRuns

ASSUME TreeAssumption ==
    /\ Root \in Nodes
    /\ Contains \in [Nodes -> SUBSET Nodes]
    /\ Contains[Root] = Nodes
    /\ \A n \in Nodes : n \in Contains[n]
    /\ \A n \in Nodes : \A m \in Contains[n] : Contains[m] \subseteq Contains[n]
ASSUME PlanAssumption == Plan \in Seq([name : StepName, node : Nodes])

\* The order of the planner: files and database are copied before they are rewritten, and
\* the files of an installation before those of the ones nested in it.
Precedes(a, b) ==
    \/ /\ a.node = b.node
       /\ <<a.name, b.name>> \in {<<"snapshot_source_database", "copy_database">>,
                                 <<"copy_database", "pending_search_replace">>,
                                 <<"write_test_db_config", "pending_search_replace">>}
    \/ /\ a.name = "copy_files" /\ b.node \in Contains[a.node]
       /\ b.name \in {"copy_files", "write_test_db_config"}
ASSUME PlanOrderAssumption ==
    /\ \A name \in StepName, n \in Nodes : \E k \in 1..Length : Plan[k] = [name |-> name, node |-> n]
    /\ \A i, j \in 1..Length : i # j => Plan[i] # Plan[j]
    /\ \A i, j \in 1..Length : i # j /\ Precedes(Plan[i], Plan[j]) => i < j
ASSUME BoundAssumption ==
    /\ MaxRuns \in Nat \ {0}
    /\ Sources # {}
    /\ {Crashes, Prunes} \subseteq BOOLEAN

VARIABLES
    dest,         \* the files of each destination
    schema,       \* the TEST database of each installation
    backups,      \* the published backups
    source,       \* where the production database is
    production,   \* has anything written to it?
    disk,         \* the manifest of every created run, in order of creation
    run,          \* the manifest in the memory of the process
    proc,         \* where the process is
    cached,       \* node -> source connections kept by the process
    contact,      \* what the last action bootstrapped to diagnose it, and after which step
    mishaps       \* has a run crashed, has another than the newest been resumed?

testing == <<dest, schema, backups>>
outside == <<source, production>>
memory == <<run, proc, cached>>
vars == <<testing, outside, disk, memory, contact, mishaps>>

\* The files of one destination.  names is the database its wp-config.php names;
\* stamp is the run that last wrote files of it other than by copying: a copy
\* keeps the modification times of the source, so two copies look the same.
Destination ==
    [tree: {"absent", "old", "partial", "copied"},
     names: {"nothing", "TEST", "PRODUCTION"}, stamp: 0..MaxRuns]

Absent == [tree |-> "absent", names |-> "nothing", stamp |-> 0]
Old == [tree |-> "old", names |-> "TEST", stamp |-> 0]
Copied == [tree |-> "copied", names |-> "PRODUCTION", stamp |-> 0]
Exists(n) == dest[n].tree # "absent"

\* from: the source the schema was imported from, if any.
Schema ==
    [holds: {"old data", "partial import", "source urls", "test urls"},
     from: SUBSET Sources]

\* old: the earlier TEST trees a backup holds, nested ones included.
Backup == [by: Runs, of: Nodes, old: SUBSET Nodes]

\* done: how many steps count as completed.  backup and resolved: what
\* recovery_data holds for each installation.  print: the fingerprint, if any.
Manifest ==
    [status: {"RUNNING", "EXECUTED", "UPDATE_FAILED_PRESERVED"},
     done: 0..Length, replace: BOOLEAN,
     backup: [Nodes -> 0..MaxRuns], resolved: [Nodes -> SUBSET Sources],
     print: SUBSET [Nodes -> Destination]]

Process == [pc: {"idle", "begin", "step", "judge"}, ok: BOOLEAN, absent: BOOLEAN]

Current == Len(disk)

NoContact == [names |-> "nothing", after |-> "none"]
NoneCached == [n \in Nodes |-> {}]
Fresh(replace) ==
    [status |-> "RUNNING", done |-> 0, replace |-> replace,
     backup |-> [n \in Nodes |-> 0], resolved |-> NoneCached, print |-> {}]
Idle == [pc |-> "idle", ok |-> TRUE, absent |-> FALSE]

Ended == run' = Fresh(FALSE) /\ proc' = Idle /\ cached' = NoneCached

-----------------------------------------------------------------------------
(***************************************************************************)
(* Decisions of the code.  A slip is a wrong version of the next operator, *)
(* there only to show that a property notices.                             *)
(***************************************************************************)

\* Slip: only a finished run is compared.
ComparesFinishedOnly(r) == disk[r].status = "EXECUTED" => disk[r].print \subseteq {dest}
\* assert_resume_consistent: the tree of the root, nested ones included, looks as
\* it did when the run ended; a manifest without a fingerprint is not compared.
ResumeConsistent(r) == disk[r].print \subseteq {dest}

\* Slip: copied trees probed like any other.
SuppressedAfterCopy == {"snapshot_source_database", "copy_database", "write_test_db_config"}
\* Steps after which the probe is asked for nothing, and bootstraps nothing.
Suppressed == SuppressedAfterCopy \cup {"copy_files"}

\* Slip: the record of a backup taken for the backup.
RecordedBackup(n) == run.backup[n] # 0
\* verify_backup of the backup that recovery_data names.
VerifiedBackup(n) ==
    \E b \in backups : b.of = n /\ b.by = run.backup[n]

\* Slip: a rediscovered connection not compared.
AnyConnection(n) == IF cached[n] # {} THEN cached[n] ELSE {source}
\* The connection to dump from: the one kept since the snapshot, or else the one
\* rediscovered, provided it is the one recorded.
Connection(n) ==
    IF cached[n] # {} THEN cached[n] ELSE {source} \cap run.resolved[n]

\* What a copy brings of the nested trees.  The exclusions are absolute paths of the
\* destination: rsync anchors them at the root of the transfer, where they match
\* nothing; the password transport applies them only if they are below the source.
Nested == {Absent, Copied}

\* rmtree, then the copy: nested trees go with their parent's, but for the kept.
ReplacedBy(n, files, kept, nested) ==
    [m \in Nodes |->
        CASE m = n -> files
          [] m \in Contains[n] \ ({n} \cup kept) -> nested
          [] OTHER -> dest[m]]

\* The nested trees an interrupted rmtree may leave: a directory goes after its content.
Survivors(n) ==
    {kept \in SUBSET (Contains[n] \ {n}) :
        \A m \in Contains[n] \ ({n} \cup kept) : Contains[m] \cap kept = {}}

\* What a replacement that stops half-way may leave.
Wrecks(n) ==
    LET partial == [tree: {"partial"}, stamp: {Current},
                    names: {"nothing", "PRODUCTION", dest[n].names}]
    IN {ReplacedBy(n, Absent, {}, Absent)} \cup
         {ReplacedBy(n, files, kept, nested) :
             files \in partial, kept \in Survivors(n), nested \in Nested}

\* set_config: nothing is written when the values are already there.
Configured(n) ==
    [dest EXCEPT ![n] =
        [tree |-> @.tree, names |-> "TEST",
         stamp |-> IF @.names = "TEST" THEN @.stamp ELSE Current]]

\* What search-replace in the schema of n changes.
Replaced(n) ==
    [schema EXCEPT ![n].holds = IF @ = "source urls" THEN "test urls" ELSE @]

\* What the probe bootstraps: WordPress connects to the database its files name.
Bootstrap(n, after) == [names |-> dest[n].names, after |-> after]

\* Slip: an alias written as a value.
ClosedAsSucceeded(status) ==
    [run EXCEPT !.status = IF status = "EXECUTED" THEN "SUCCEEDED" ELSE status, !.print = {dest'}]
Closed(status) == [run EXCEPT !.status = status, !.print = {dest'}]
Saved(m) == [disk EXCEPT ![Current] = m]

-----------------------------------------------------------------------------
(***************************************************************************)
(* Starting a run.                                                         *)
(***************************************************************************)

Init ==
    /\ dest \in {d \in [Nodes -> {Absent, Old}] :
                    \A n \in Nodes : d[n] = Absent => \A m \in Contains[n] : d[m] = Absent}
    /\ schema = [n \in Nodes |-> [holds |-> "old data", from |-> {}]]
    /\ backups = {}
    /\ source \in Sources /\ production = "intact"
    /\ disk = <<>>
    /\ run = Fresh(FALSE) /\ proc = Idle /\ cached = NoneCached
    /\ contact = NoContact /\ mishaps = {}

Begin(m) ==
    /\ run' = m
    /\ proc' = [Idle EXCEPT !.pc = "begin"]
    /\ contact' = NoContact
    /\ UNCHANGED <<testing, outside, disk, cached>>

Execute(replace) ==
    /\ proc.pc = "idle" /\ Current < MaxRuns
    /\ Begin(Fresh(replace))
    /\ UNCHANGED mishaps

Resume(r) ==
    /\ proc.pc = "idle" /\ Current < MaxRuns
    /\ ResumeConsistent(r)
    /\ Begin([disk[r] EXCEPT !.status = "RUNNING", !.print = {}])
    /\ mishaps' = IF r = Current THEN mishaps ELSE mishaps \cup {"stale resume"}

\* The first probe of a run with steps left bootstraps the root, whatever its
\* wp-config.php names.
FirstContact == IF run.done < Length THEN Bootstrap(Root, "start") ELSE NoContact

RefuseCapabilities ==
    /\ proc.pc = "begin"
    /\ contact' = FirstContact
    /\ Ended
    /\ UNCHANGED <<testing, outside, disk, mishaps>>

CreateRun ==
    /\ proc.pc = "begin"
    /\ contact' = FirstContact
    /\ disk' = Append(disk, run)
    /\ proc' = [proc EXCEPT !.pc = "step"]
    /\ UNCHANGED <<testing, outside, run, cached, mishaps>>

-----------------------------------------------------------------------------
(***************************************************************************)
(* The steps.  An adapter that returns, with success or failure, hands its *)
(* result to the runner's judgement; one that raises ends the run.         *)
(***************************************************************************)

Facing(name, n) ==
    /\ proc.pc = "step" /\ run.done < Length
    /\ Plan[run.done + 1] = [name |-> name, node |-> n]

AtStep(name, n) ==
    /\ Facing(name, n)
    /\ contact' = NoContact
    /\ UNCHANGED <<source, mishaps>>

Returns(ok) ==
    /\ proc' = [proc EXCEPT !.pc = "judge", !.ok = ok, !.absent = FALSE]
    /\ UNCHANGED disk

Raises ==
    /\ disk' = Saved(Closed("UPDATE_FAILED_PRESERVED"))
    /\ Ended

\* There is nothing to save yet: a success, and no reason to bootstrap.
BackupAbsent(n) ==
    /\ AtStep("backup_existing_test", n) /\ ~ Exists(n)
    /\ proc' = [proc EXCEPT !.pc = "judge", !.ok = TRUE, !.absent = TRUE]
    /\ UNCHANGED <<testing, production, disk, run, cached>>

\* Each run has a path of its own for its backups.
BackupExisting(n) ==
    /\ AtStep("backup_existing_test", n) /\ Exists(n) /\ run.replace
    /\ backups' = backups \cup
          {[by |-> Current, of |-> n, old |-> {m \in Contains[n] : dest[m].tree = "old"}]}
    /\ run' = [run EXCEPT !.backup[n] = Current]
    /\ Returns(TRUE)
    /\ UNCHANGED <<dest, schema, production, cached>>

\* Without --replace-existing, or because the copy or its verification failed.
BackupFails(n) ==
    /\ AtStep("backup_existing_test", n) /\ Exists(n)
    /\ Returns(FALSE)
    /\ UNCHANGED <<testing, production, run, cached>>

MayReplace(n) == Exists(n) => VerifiedBackup(n)

CopyFiles(n) ==
    /\ AtStep("copy_files", n) /\ MayReplace(n)
    /\ dest' \in {ReplacedBy(n, Copied, {}, nested) : nested \in Nested}
    /\ Returns(TRUE)
    /\ UNCHANGED <<schema, backups, production, run, cached>>

CopyFilesRefused(n) ==
    /\ AtStep("copy_files", n) /\ ~ MayReplace(n)
    /\ Returns(FALSE)
    /\ UNCHANGED <<testing, production, run, cached>>

CopyFilesFails(n) ==
    /\ AtStep("copy_files", n) /\ MayReplace(n)
    /\ dest' \in {dest} \cup Wrecks(n)
    /\ Returns(FALSE)
    /\ UNCHANGED <<schema, backups, production, run, cached>>

SnapshotSource(n) ==
    /\ AtStep("snapshot_source_database", n)
    /\ run' = [run EXCEPT !.resolved[n] = {source}]
    /\ cached' = [cached EXCEPT ![n] = {source}]
    /\ Returns(TRUE)
    /\ UNCHANGED <<testing, production>>

\* The inspection, the connection or the target cannot be resolved.
SnapshotSourceFails(n) ==
    /\ AtStep("snapshot_source_database", n)
    /\ Returns(FALSE)
    /\ UNCHANGED <<testing, production, run, cached>>

CopyDatabase(n) ==
    /\ AtStep("copy_database", n) /\ Connection(n) # {}
    /\ schema' = [schema EXCEPT ![n] = [holds |-> "source urls", from |-> Connection(n)]]
    /\ cached' = [cached EXCEPT ![n] = Connection(n)]
    /\ Returns(TRUE)
    /\ UNCHANGED <<dest, backups, production, run>>

\* The source cannot be reached or is no longer the recorded one.
CopyDatabaseRefused(n) ==
    /\ AtStep("copy_database", n) /\ cached[n] = {}
    /\ Returns(FALSE)
    /\ UNCHANGED <<testing, production, run, cached>>

Import(n) == [schema EXCEPT ![n] = [holds |-> "partial import", from |-> Connection(n)]]

\* The import fails after some statements.
CopyDatabaseBreaks(n) ==
    /\ AtStep("copy_database", n) /\ Connection(n) # {}
    /\ schema' = Import(n)
    /\ UNCHANGED <<dest, backups, production>>
    /\ Raises

\* wp-config.php is edited in place of itself, atomically, if it is there at all.
WriteTestDbConfig(n) ==
    /\ AtStep("write_test_db_config", n) /\ dest[n].names # "nothing"
    /\ run.resolved[n] # {}
    /\ dest' = Configured(n)
    /\ cached' = [cached EXCEPT ![n] = {}]
    /\ Returns(TRUE)
    /\ UNCHANGED <<schema, backups, production, run>>

\* WP-CLI rewrites the URLs of whatever database wp-config.php names.
SearchReplace(n) ==
    /\ AtStep("pending_search_replace", n) /\ dest[n].names # "nothing"
    /\ IF dest[n].names = "TEST"
       THEN schema' = Replaced(n) /\ UNCHANGED production
       ELSE production' = "written" /\ UNCHANGED schema
    /\ Returns(TRUE)
    /\ UNCHANGED <<dest, backups, run, cached>>

\* It stops before, or after some tables; the next attempt rewrites the others.
SearchReplaceFails(n) ==
    /\ AtStep("pending_search_replace", n)
    /\ production' \in {production} \cup (IF dest[n].names = "PRODUCTION" THEN {"written"} ELSE {})
    /\ Returns(FALSE)
    /\ UNCHANGED <<testing, run, cached>>

\* Any adapter may raise before it has done anything.
StepRaises(n) ==
    /\ \E name \in StepName : AtStep(name, n)
    /\ UNCHANGED <<testing, production>>
    /\ Raises

-----------------------------------------------------------------------------
(***************************************************************************)
(* After a step: the probe, then the verdict.                              *)
(***************************************************************************)

Judged ==
    LET step == Plan[run.done + 1]
    IN contact' = IF proc.absent \/ step.name \in Suppressed
                  THEN NoContact ELSE Bootstrap(step.node, step.name)

JudgeContinues ==
    /\ proc.pc = "judge" /\ proc.ok
    /\ Judged
    /\ run' = [run EXCEPT !.done = @ + 1]
    /\ disk' = Saved(run')
    /\ proc' = [proc EXCEPT !.pc = "step"]
    /\ UNCHANGED <<testing, outside, cached, mishaps>>

\* The result is a failure, the health regressed or the probe raised.
JudgeStops ==
    /\ proc.pc = "judge"
    /\ Judged
    /\ UNCHANGED <<testing, outside, mishaps>>
    /\ disk' = Saved(Closed("UPDATE_FAILED_PRESERVED"))
    /\ Ended

Finish ==
    /\ proc.pc = "step" /\ run.done = Length
    /\ contact' = NoContact
    /\ UNCHANGED <<testing, outside, mishaps>>
    /\ disk' = Saved(Closed("EXECUTED"))
    /\ Ended

-----------------------------------------------------------------------------
(***************************************************************************)
(* What the machine, the operator and production may do.                   *)
(***************************************************************************)

\* The process dies, possibly in the middle of a copy, an import or a replacement.
Crash ==
    /\ Crashes /\ proc.pc # "idle"
    /\ Ended
    /\ contact' = NoContact /\ mishaps' = mishaps \cup {"crash"}
    /\ UNCHANGED <<backups, source, disk>>
    /\ \/ UNCHANGED <<dest, schema, production>>
       \/ \E n \in Nodes :
             \/ /\ Facing("copy_files", n) /\ MayReplace(n)
                /\ dest' \in Wrecks(n)
                /\ UNCHANGED <<schema, production>>
             \/ /\ Facing("copy_database", n) /\ Connection(n) # {}
                /\ schema' = Import(n)
                /\ UNCHANGED <<dest, production>>
             \/ /\ Facing("pending_search_replace", n) /\ dest[n].names = "PRODUCTION"
                /\ production' = "written"
                /\ UNCHANGED <<dest, schema>>

\* Backups are under an external retention policy.
Prune ==
    /\ Prunes /\ proc.pc = "idle"
    /\ \E b \in backups : backups' = backups \ {b}
    /\ contact' = NoContact
    /\ UNCHANGED <<dest, schema, outside, disk, memory, mishaps>>

\* The production database moves to another host, port or name.
MoveSource ==
    /\ source' \in Sources \ {source}
    /\ contact' = NoContact
    /\ UNCHANGED <<testing, production, disk, memory, mishaps>>

Steps(n) ==
    \/ BackupAbsent(n) \/ BackupExisting(n) \/ BackupFails(n)
    \/ CopyFiles(n) \/ CopyFilesRefused(n) \/ CopyFilesFails(n)
    \/ SnapshotSource(n) \/ SnapshotSourceFails(n)
    \/ CopyDatabase(n) \/ CopyDatabaseRefused(n) \/ CopyDatabaseBreaks(n)
    \/ WriteTestDbConfig(n)
    \/ SearchReplace(n) \/ SearchReplaceFails(n)
    \/ StepRaises(n)

Next ==
    \/ \E replace \in BOOLEAN : Execute(replace)
    \/ \E r \in 1..Current : Resume(r)
    \/ RefuseCapabilities
    \/ CreateRun
    \/ \E n \in Nodes : Steps(n)
    \/ JudgeContinues
    \/ JudgeStops
    \/ Finish
    \/ Crash
    \/ Prune
    \/ MoveSource

Spec == Init /\ [][Next]_vars

-----------------------------------------------------------------------------
(***************************************************************************)
(* Properties.                                                             *)
(***************************************************************************)

\* The destination, the databases, the backups and the manifests are what the
\* adapters and RunManifest can hold.
TypeOK ==
    /\ dest \in [Nodes -> Destination]
    /\ schema \in [Nodes -> Schema]
    /\ backups \subseteq Backup
    /\ source \in Sources /\ production \in {"intact", "written"}
    /\ disk \in Seq(Manifest) /\ Current <= MaxRuns
    /\ run \in Manifest /\ proc \in Process
    /\ cached \in [Nodes -> SUBSET Sources]
    /\ contact \in [names: {"nothing", "TEST", "PRODUCTION"},
                   after: StepName \cup {"none", "start"}]
    /\ mishaps \subseteq {"crash", "stale resume"}

\* The one combination nothing in the code recognises: a run that died without a
\* fingerprint, resumed although a newer run has worked on the destination.
InOrder == mishaps # {"crash", "stale resume"}

\* An earlier TEST tree disappears only while a verified backup holds it, be it
\* its own or that of the installation it is nested in (operations.md 108-114,
\* runtime_operations.py 226-241).
OldTreeRemovedOnlySaved ==
    [][\A n \in Nodes :
          dest[n].tree = "old" /\ dest'[n].tree # "old" =>
              \E b \in backups : n \in b.old]_vars

\* When the newest run is reported EXECUTED, every installation is a whole copy
\* that uses its TEST database, and that database is a whole import, with TEST
\* URLs, of the very source the manifest records.
FinishedMigrationIsWhole ==
    "stale resume" \notin mishaps /\ Current > 0 /\ disk[Current].status = "EXECUTED" =>
        \A n \in Nodes :
            /\ dest[n].tree = "copied" /\ dest[n].names = "TEST"
            /\ schema[n] = [holds |-> "test urls", from |-> disk[Current].resolved[n]]

\* Nothing writes to the production database (README 276-281): copied trees that
\* still name it are never rewritten through WP-CLI, whatever fails and is retried.
ProductionSafeInOrder == InOrder => production = "intact"

\* Once copied, a tree is not bootstrapped before it names its TEST database
\* (runner.py 112-113).  Two probes do bootstrap whatever they find: the first of a
\* run, and the one after the backup of an existing tree.
ProbesAvoidProduction ==
    InOrder /\ contact.names = "PRODUCTION" =>
        contact.after \in {"start", "backup_existing_test"}

\* What the comment of runner.py 112-113 says: a just-copied wp-config.php may still
\* name PRODUCTION and is never bootstrapped.
NeverBootstrapsProduction == contact.names # "PRODUCTION"

\* What the README says (276-281): production is a source only.
ProductionUntouched == production = "intact"

\* What the plan says of copy_files (planning.py 46-48): after a partial copy, resume
\* repeats it.  The backup, if one was needed, is there.
FailedCopyRetryable ==
    \A r \in 1..Current :
        LET k == disk[r].done + 1 IN
        /\ disk[r].status = "UPDATE_FAILED_PRESERVED" /\ disk[r].print = {dest}
        /\ k <= Length /\ Plan[k].name = "copy_files"
        /\ dest[Plan[k].node].tree = "partial"
        => \E b \in backups : b.of = Plan[k].node /\ b.by = disk[r].backup[Plan[k].node]

=============================================================================

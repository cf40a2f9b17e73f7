# TLA+ models of wordpress-modernizer

wordpress-modernizer copies a production WordPress installation (and those nested in it) to a TEST
host, points it to a TEST database, rewrites its URLs, and modernizes the copy: core, plugins, themes,
languages, widgets. It runs an ordered plan of steps, judges the health of the installation after each,
stops at the first failure or regression, preserves what it finds, and lets an operator resume.

Everything hard about it is in that last sentence: which steps count as done, what a later run may
rely on, and what may never happen to TEST trees and to PRODUCTION however runs fail, crash, and are
resumed in an unforeseen order. These models are about that. Paths below are relative to
`src/src/wp_modernizer/` unless they start with `docs/` or `README`.

## Inventory

| Component | State it keeps | Operations | What is hard | What makes it correct |
|---|---|---|---|---|
| Pipeline runner (`pipeline/runner.py`, `pipeline/steps.py`) | the `RunManifest` in memory, the health report it compares with | `run`, `_execute_step`, `assert_resume_consistent` | crash between an effect, its record and its verdict; dry-runs; probes that must not bootstrap | every record is true, ordered and resumable; nothing follows a regression |
| Service (`application/service.py`) | none of its own | `execute`, `resume`, `plan`, `diagnose`, `inventory` | any old manifest may be resumed; configuration and files may have changed | a resume continues its own plan, from its own effects, under its own configuration |
| State store (`infrastructure/state.py`) | `manifest.json` and checkpoint files per run | `create_run`, `save_manifest`, `save_checkpoint`, `load_manifest`, `preflight` | crash between writes | atomic replacement; what a resume needs is durable before the next change |
| Capability probe (`diagnostics/capability.py`) | none | `probe`, `with_runtime` | it bootstraps WordPress, so it contacts a database | it never bootstraps a copy that still names PRODUCTION |
| Step runtime (`infrastructure/runtime_operations.py`) | source connections and database resolutions of the running process | one handler per step | partial effects; data recorded by one step and used by another, maybe in another run | earlier TEST trees survive in a backup; the imported database is the recorded one; production is only read |
| Local filesystem (`infrastructure/filesystem.py`) | trees, backups | `fingerprint`, `remove_tree`, `create_immutable_backup`, `verify_backup` | interrupted removal; retention of backups | a backup is published whole or not at all |
| SSH/rsync and password transports (`infrastructure/ssh/`) | none | `copy_from`, `inspect_config` | partial copies; exclusions of nested roots | a failed copy is reported |
| MySQL adapter (`infrastructure/mysql/adapter.py`) | none | dump, import, network and widget snapshots and updates | partial imports and updates | a replay accepts only recorded values |
| wp-config writer, Multisite configuration | none | `set_config`, `inspect_multisite` | atomic edit | all values or none |
| WP-CLI adapter | none | `search_replace`, `update`, ... | writes to whatever database the files name | only called on TEST copies |
| Planner, required capabilities (`domain/planning.py`, `application/dependencies.py`) | none | `build` | nesting, pending operations | parents before children; URLs after all databases |
| Managed plugins (`infrastructure/managed_plugins.py`) | checkouts, staging directories, stashes | `refresh`, `validate` | two renames, a stash and a reset that may each fail | a plugin directory is always the old one or the new one |
| Multisite, HTTPS, indexing (`domain/multisite.py`, `application/test_https.py`, `application/test_indexing.py`) | plans persisted in `recovery_data` | plan, apply | interrupted conditional updates, replay | each value is the recorded former or the recorded new one |
| Modernization route (`domain/modernization.py`, `application/modernization.py`, `infrastructure/modernization.py`) | a route persisted in the plan | `route`, `select_runtime`, `check_remaining` | versions and PHP families | ascending checkpoints, no downgrade, compatible PHP |
| Widgets (`domain/widgets.py`) | a snapshot in the manifest | snapshot, compare, restore | restoration authorised once only | restored values are the ones of the snapshot |
| Database locator, test URL policy, path parser, configuration, command line, logging, secrets, command runner | none | pure functions, input and output | - | covered by unit tests |

`cli` calls `ModernizerService`, which builds a plan and a manifest and calls `PipelineRunner.run`; the
runner calls `RuntimeOperations.execute` (or `validate`, in a dry-run) for each step and the capability
probe after it, and the store after both. Steps talk to each other only through `recovery_data` in the
manifest and through the memory of `RuntimeOperations`; runs talk to each other only through manifests
on disk and the destination itself. There is no lock and no background activity: one process at a time
is the operator's duty.

`PROJECT.json` lists each component with its status and each hazard at the line where it bites.

## Modules

| Module | What it is |
|---|---|
| `Pipeline` | the runner, driven by `execute` and `resume`, and the store |
| `OrderedSteps` | what fail-and-preserve with resume promises of a plan, in three actions |
| `MCPipeline` | small plans for `Pipeline` |
| `PipelineProofs`, `PipelineSafety`, `OrderedStepsProofs`, `PipelineRefinement` | histories of `Pipeline`; its dry-runs, configurations, positions and regressions; consequence of `OrderedSteps`; `Pipeline` implements `OrderedSteps` |
| `Migration` | what the migration steps do to trees, databases and backups, and to production |
| `MCMigration` | one installation, and a parent with a nested one |
| `MigrationProofs` | no earlier TEST tree is lost; a finished migration is whole; what may touch production |
| `PluginRefresh`, `MCPluginRefresh`, `PluginProofs` | the refresh of managed plugins: directories, staging, stashes, and the list a resume reconciles; two plugins and two lists; its types, the reported differences, and that no visible work, stash, directory or whole copy is lost |
| `NetworkReplay`, `MCNetworkReplay`, `NetworkProofs` | how a copy gets its own URLs: planned and applied Multisite, HTTPS and indexing changes; five kinds of installation; what may be written, and where, and what a finished run leaves |
| `Modernization`, `MCModernization`, `ModernizationProofs` | the route of an update, its checkpoints under PHP runtimes, widgets; the default policy; no downgrade, no checkpoint skipped, fitting PHP, authorised restorations |
| `Planning` | `MigrationPlanner.build` and `planned_update_step`: the plans of `MCMigration` and `MCNetworkReplay`, and the steps of those of `MCPipeline`, are taken from it |

### Pipeline

| Variable | In the program |
|---|---|
| `disk` | `manifest.json` of each created run, in order of creation. `save_manifest` replaces atomically; checkpoint files are never read back and are left out |
| `manifest` | the `RunManifest` being filled by `run` |
| `proc` | where `run` is: before `create_run` (`begin`), before a step (`step`), between the step and its checkpoint (`probe`), between the checkpoint and the judgement (`verdict`); and the two reports `before`, `after` |
| `matching` | the runs whose `filesystem_fingerprint` equals that of the present tree |
| `config` | what `_configuration_snapshot` compares |
| `applied`, `performed`, `ranUnder`, `regressed` | history, for the properties only |

A result is its status, and its position in the plan is its identity. A lineage is an original run with
all the runs whose `original_run_id` names it. Actions are the pieces of `run` between two moments at
which a crash leaves something different behind: `CreateRun`, one of `StepPlanned` / `StepSucceeds` /
`StepReportsFailure` / `StepRaises`, `Checkpoint` (probe, checkpoint file, `save_manifest`),
`VerdictContinues` / `VerdictStops`, `Finish`. `Execute`, `Resume`, `EditFiles`, `EditConfig` are the
operator's; `Crash` may fall anywhere, in the middle of a step too. What a step does and what the probe
reports are free choices. A store or a probe that raises before `create_run` leaves what
`RefuseCapabilities` leaves; one that raises later leaves what `Crash` leaves.

`Changes` are the steps that write the destination; `FileChanges` those among them that may write its files.
The difference matters because the fingerprint (filesystem.py 18-33) is made of paths, sizes and
modification times and leaves the database out (`docs/recovery.md` 43): a search-replace is not seen, and a
step on files that finds nothing to do (`Touches`) is not either. So a superseded run may be resumed on a
database that another run has changed since, and even past a regression that the other run found there;
no crash is needed. `OnOwnPrefix` and `NeverPastARegression` therefore speak of files for a run resumed in
any order, and of the database too only under the discipline `NewestOnly`, that the newest run alone is ever
resumed. `applied` and `regressed` are kept accordingly (`Answers`). Two idealisations remain: a tree never
gets back a fingerprint it had, and no change of files keeps every size and modification time.

### Migration

| Variable | In the program |
|---|---|
| `dest` | per installation: which kind of tree is there (an `old` TEST tree, a `partial` or a whole copy), which database its `wp-config.php` names, and a stamp standing for modification times that a copy does not carry over |
| `schema` | the TEST database: old data, half an import, an import with production or with TEST URLs, and where it was imported from |
| `backups` | verified backups under `.wp-modernizer-backups`: taken by which run, of which installation, holding which old trees |
| `source`, `production` | where the production database is; whether anything wrote to it |
| `disk`, `run`, `proc`, `cached` | manifests, the manifest in memory, the position, `_source_connections` |
| `contact`, `mishaps` | history: the last bootstrap by a probe; whether a crash or a stale resume happened |

Every handler from `backup_existing_test` to `pending_search_replace` is one action per outcome: it
succeeds, refuses, stops half-way (`Wrecks`, `Import`), or raises. The runner is reduced to what these
steps need of it, and a manifest to the number of completed steps, `recovery_data` and the fingerprint:
`Pipeline` proves that histories are prefixes of the plan (`HistoryResumable`), which is what justifies
the counter. Dry-runs and the comparison of configurations are in `Pipeline` only.

Choices worth knowing:
- a nested tree goes with its parent's (README 916-918), and comes back with the copy or not (`Nested`):
  exclusions are absolute destination paths, which rsync anchors at the root of the transfer and the
  password transport applies only below the source path;
- two copies of the same source have equal fingerprints, since rsync preserves modification times: the
  worst case for `assert_resume_consistent`;
- the branch of `backup_existing_test` that reuses a recorded backup (runtime_operations.py 185-188) is
  absent: the path contains the identifier of the run, and a resume is a new run;
- search-replace either rewrites the URLs of a whole import or leaves the remaining ones to the next
  attempt; that a repetition might rewrite some twice is not modelled.

### PluginRefresh

| Variable | In the program |
|---|---|
| `target` | per plugin, the directory below `wp-content/plugins`, or none: its version, whether its tree is whole, whether it is a checkout, and the local work in its files, its commits and its stash |
| `aside` | what each run moved to its `.previous` place and has not removed or restored |
| `config`, `upstream`, `enclosed` | `plugins.yaml`; the version of the remote branch; whether a larger Git work tree that ignores the plugins lies around them |
| `disk`, `matching`, `run`, `proc` | as in `Pipeline`, with the list, the results and the reported changes of managed plugins |
| `made`, `unseen`, `late`, `mishaps` | history: local work, the work git status does not show, the work done under a run's feet, the failures |

The actions are the code between two moments at which a crash leaves something else behind or somebody
may edit a file: for `replace_from_git` the clone, the two renames and the removal of `_replace_tree`,
each of which may fail and be rolled back, and the rollback itself may fail; for `update_from_git` the
stash, the fast-forward and the re-application. Git is not modelled but for the work it shows, keeps or
discards. `StopsEarlier` stands for a failure of any step before this one, which decides whether a
resume reconciles the list (service.py 379-398).

What the code does that one may not expect, and that the properties leave out on purpose:
- the dirtiness of a checkout is what `git status` shows. Commits never pushed, an older stash, files a
  larger repository ignores and files written between the inspection and the rename go with the former
  directory (`unseen` and `late` in `VisibleWorkIsKept`);
- if the removal of the former directory fails half-way (managed_plugins.py 337-343), what is left of it
  is put back in the place of the new, whole tree. `WholeCopyStays` is therefore about runs in which
  no move or removal failed.

### NetworkReplay

| Variable | In the program |
|---|---|
| `site` | what does not change: a single site or a network, of subdirectories or subdomains; whether the test URL contains the source URL; the scheme |
| `source`, `data` | the production and the TEST database: the domain of the network, of each blog its domain, `home`, `siteurl`, a URL of its content, `blog_public` |
| `files` | what `wp-config.php` names: a database, `DOMAIN_CURRENT_SITE` |
| `disk`, `run` | manifests with the plans of `recovery_data`, their validation marks and the fingerprint |
| `proc` | the place in the step: what is left to write, which blogs are left to inspect |
| `wrote`, `author` | history: which steps wrote to production; whether files and data are the work of one run |

A step that writes several values is several actions, and breaks off after any prefix of its statements
(`ApplyNetworkBreaks`, `SearchReplaceBreaks`, `ReplaceHostBreaks`), table by table. Meanwhile somebody
changes a URL, `blog_public`, or removes a blog (`Edit`). WP-CLI acts on the database that
`wp-config.php` names (`Seen`, `ByWp`), which a stale resume may find to be production; SQL goes to the
TEST database. A single site is a network of one blog on the test domain, as in `test_https.py`. Paths,
ports and identifiers are left out: in the code they add reasons to refuse. The copies are atomic here, with
their failures in `Migration`.

Two limits the properties name:
- the blogs of a network of subdomains do not contain the source URL, so that the search-replace leaves
  their content as it was: `FinishedIsTest` claims nothing of it;
- where the test URL contains the source URL, a network is refused (multisite.py 80-83), a single site is
  not: a repeated search-replace rewrites its first tables twice. `NoThirdUrl` is about networks, and
  `FinishedIsTest` leaves the content of such a site out.

### Modernization

| Variable | In the program |
|---|---|
| `latest`, `explicit`, `php` | `latest_wordpress`; whether `test_url` is given; the version each configured binary reports, 0 where it is missing |
| `core`, `files`, `schema`, `url`, `widgets` | the copy: versions of its files and of its database, other files, its URL, the widget options of the schema |
| `plans` | the planned steps of each lineage: names, stages, PHP runtimes, targets |
| `disk`, `run`, `proc` | as above, with the reference snapshot and the authorisation to restore |
| `clean`, `moves` | history: lineages since whose beginning nobody else changed the copy |

The route (`Later`, `InitialStage`, `Stages`, `SelectRuntime`, `FinalPhp`) is the code's, on versions whose
last digit is the patch. A checkpoint is `CheckVersion`, `CoreUpdate`, `CoreUpdateDb`, `VerifyVersion`:
each command may fail before or after its change, and the process may die between any two. The PHP binary
is inspected when a step starts; `EditPhp` replaces or removes it at any time, `EditWidgets` changes
widgets, `Migrate` makes a new copy between runs. A step keeps only the path of the binary, and each of its
commands runs whatever is there by then (`Launched`).

What the properties leave out on purpose:
- a run that crashed has no fingerprint: resumed after a new migration, its checkpoints are skipped,
  since a checkpoint asks only for a version that is not newer (`NoCheckpointSkipped` is about lineages in
  `clean`);
- a new update after a failed one takes the widgets as the failed one left them for its reference;
- the restoration is one transaction over the tables of options; with an engine without transactions it
  could stop in the middle;
- nobody inspects the binary again within a step: one that is replaced between the inspection and
  `core update` installs the release whatever it is, so `InstalledByFittingPhp` excepts it
  (runtime_operations.py 104-121, 134-141);
- an explicit `test_url` makes the pending search-replace of an update fail, for the copy has that URL.

### Planning

Pure operators: the order of the installations (a parent before those nested in it), the steps of each,
those on URLs after all databases, with what a dry-run may do of each. `OfThese` keeps the steps a module
models.

## Runs

| Run | Shows | Bounds and why they suffice |
|---|---|---|
| `pipeline_crash` | `HistoryResumable`, `PositionLocatesRun`, `RecordsAreTrue`, `SuccessIsComplete`, `AtMostOneUnrecorded`, `DryRunIsInert`, and the refinement `KeepsOrder`, with crashes anywhere, dry-runs and resumes of any manifest | a plan of four steps with one of each dispatch (a backup that may find nothing, a suppressed copy that tolerates regressions, a read-only snapshot, a native dry-run); three runs give an original, a resume, and a stale resume or a resume of a resume; three healths give better, worse and tolerated |
| `pipeline_edits` | `OnOwnPrefix`, `OneConfiguration`, `NeverPastARegression`, `Settles`, with edits of files and configuration, any manifest resumed, without crashes | an update that begins with a change of the database alone; two configurations, so that one may change and change back; three runs: two lineages and the resume of the one that the other has overtaken. 0.6 million states. What a fourth run adds (the second lineage resumed past a regression that the resume of the first one found), and what `NewestOnly` adds, is shown by the theorems for any number of runs |
| `pipeline_lost_verdict` | violates `NeverPastARegression` once the process may crash | two runs |
| `migration_nested` | `FinishedMigrationIsWhole`, `OldTreeRemovedOnlySaved`, with crashes, pruned backups and a source that moves | a parent and a child, both present at first, or only the parent, or none; two runs; two places for the source, interchangeable (symmetry) |
| `migration_order` | `ProductionSafeInOrder`, `ProbesAvoidProduction` | one installation and three runs: a stale resume needs a run, a newer one, and the resume |
| `migration_probe`, `migration_retry`, `migration_production` | violate `NeverBootstrapsProduction`, `FailedCopyRetryable`, `ProductionUntouched` | as `migration_order` |
| `plugins_steps` | `VisibleWorkIsKept`, `StashIsReported`, `DirectoryIsBack`, `ChangesAreTrue`, `WholeCopyStays` | two plugins and two lists that share one of them under other strategies, so that a reconciliation adds, removes and changes; one piece of work, which each place of a plugin either has or not; two runs and two failures, the least that leaves a directory missing; two versions of the branch. 1.9 million states |
| `network_replay` | `ReplayAccepted`, `OnlySearchReplaceStrays`, `FinishedIsTest`, `OnlyRecordedValues`, `NoThirdUrl` | two blogs, so that a step is interrupted between them and one may disappear; five kinds of installation; three runs or edits together: an original, an edit and a resume, or a run, a newer one and a stale resume. 0.9 million states |
| `modernization_steps` | `FinishedIsModern`, `NeverDowngrades`, `NoCheckpointSkipped`, `InstalledByFittingPhp`, `RestoresOnlyWhenAsked` | the default policy and compatibility table and three runtimes; a release at a checkpoint, whose route has the next one and the final release (longer routes repeat it, and take longer than five minutes), and one older than the automation accepts, to which the copy may be migrated back; no approved release, which is refused, and 7.0; a binary missing or of another family; two interchangeable contents of widgets (symmetry); three runs or other changes together. 2.5 million states |
| `modernization_url` | violates `UrlFollowsConvention` | one run, without crashes |

All configurations say `CHECK_DEADLOCK FALSE`: the operator may leave the program idle for ever, and
`MaxRuns` or `MaxMoves` ends what can be explored.

The five violations are disagreements between the code and its own documentation:

1. **Lost verdict.** `runner.py:159` saves a step as executed before its health is judged. A crash in
   between makes resume count the step and take the degraded health as its baseline, although ADR-002
   says that the executor stops at the first regression.
2. **Production bootstrapped.** `runner.py:112-113` says a just-copied `wp-config.php` is never
   bootstrapped before it names TEST. The post-step probes respect it (`ProbesAvoidProduction`), except
   the one after a backup; and the first probe of a run does not: after a stop between `copy_files` and
   `write_test_db_config`, the next run begins by loading WordPress with the production configuration.
3. **Partial first copy.** `planning.py:46-48` says a failed copy is repeated. When there was nothing to
   back up, the partial copy itself now needs a verified backup, and every retry is refused. The
   destination must be removed by hand, which changes the fingerprint: a new run is needed.
4. **Production rewritten.** README 274-281 says that no database write is executed on production. A run
   that crashed has no fingerprint; if a newer run copied the tree again and stopped early, resuming the
   crashed one runs `wp search-replace` on a tree that names the production database. `docs/recovery.md`
   51-53 warns that a missing fingerprint proves nothing; no guard follows from the warning.
   `ProductionSafeInOrder` shows that this combination, a crash and a stale resume, is the only one.
5. **TEST URL renamed.** A standalone update plans the pending search-replace too (service.py 194-203
   never marks it completed). Its recovery data name no URL, so it starts from the URL of the copy
   (runtime_operations.py 937) and the URL policy adds one more label to it, with every update.
   `docs/configuration.md` 148-149 gives the URL a copy is to have, and steps.py 121 calls the step
   idempotent.

## Fairness

`Settles` is checked under `WF_vars(Work)`: a started process goes on to its next step. The code
justifies it by time-outs on every command it starts (`infrastructure/command.py` 60 s by default,
rsync 1800 s, WP-CLI 60 to 900 s), after which the adapter raises or returns a failure. Nothing obliges
the operator to start, resume or edit anything, so `Starts`, `EditFiles` and `EditConfig` are not fair,
nor is `Crash`; `pipeline_edits` has no crashes, and with them `Settles` would be false, as
`docs/recovery.md` 51-53 says.

## Proofs

All theorems hold for every number of runs, every bound, and every configuration, installation and release
the named assumptions allow. TLC evaluates the assumptions on the instances of the runs, which satisfy them.

| Assumption | Says | Why the code justifies it |
|---|---|---|
| `Pipeline!PlanAssumption`, `EffectAssumption` | any plan of known capabilities; a READ_ONLY step changes nothing | `pipeline/steps.py`; a dry-run executes nothing else |
| `Migration!TreeAssumption` | roots contain one another as a tree does | `domain/planning.py` |
| `Migration!PlanOrderAssumption` | each step once, copies before what rewrites them, parents before children | `MigrationPlanner.build`; `Planning` computes the plans of `MCMigration` |
| `PluginRefresh!ListsAssumption` | any lists of plugins, at least one | what `plugins.yaml` may hold (`config/models.py`) |
| `NetworkReplay!PlanAssumption` | the ten steps, in their order | `MigrationPlanner.build`, whose search-replace is always pending; `Planning` computes the plan of `MCNetworkReplay` |
| `Modernization!PolicyAssumption`, `UpdateStepsAssumption` | ascending checkpoints; widgets are validated last | `ModernizationPolicy.__post_init__`; `UPDATE_STEP_NAMES` in `pipeline/steps.py` |
| `Modernization!AuditAssumption` | the policy gives the final release a minimum only, the audit no exact version; families do not overlap | `DEFAULT_POLICY` and `FINAL_COMPATIBILITY`. Only `FittingPhp` uses it: `route` drops an exact version of the policy's final requirement, and lets the audited maximum stand for its own |

`BoundAssumption` in each module only gives the bounds their types.

**Pipeline**
- `PipelineProofs!AlwaysTyped`, `TypeCorrect`: the types, with `Located`, which says how the length of the
  history in memory follows from where the process is. `TypeOK` is not inductive without it: the verdict
  indexes the history by the position.
- `PipelineProofs!AlwaysBacked` (`Histories`): the executed steps of every history, on disk and in memory,
  are the first *d* of the plan, each performed by the lineage and with its recovery data in the same
  manifest; a real process has no gap (*d* is its position, or one less); a run reported EXECUTED is complete.
  `HistoryResumable`, `RecordsAreTrue` and `SuccessIsComplete` say parts of it and are not inductive alone:
  a resume starts from the shape of the manifest it takes, and what a finished run may claim rests on where
  its process was. They follow as `ResumeAcceptsOwnHistory`, `RecordsStayTrue`, `SuccessStaysComplete`.
- `PipelineSafety!PositionIsTrue`: `PositionLocatesRun`, with `InPlace`: the position in memory is the one
  before the step at hand, since every step, performed or only planned, moves it.
- `PipelineSafety!DryRunsStayInert`: in a dry-run only READ_ONLY steps reach `execute`, and those are not
  among `Changes` by `EffectAssumption`; a crash in the middle of one changes nothing either.
- `PipelineSafety!LineageKeepsConfiguration`: a resume compares the present configuration with a copy of a
  copy of the original's. It stands for every earlier run of the lineage because all its manifests agree
  (`DiskAgrees`), and it stays valid because the configuration is not edited under a process
  (`MemoryAgrees`); `OneConfiguration` alone says nothing of what is compared.
- `PipelineSafety!StepsKeepOwnPrefix`, `RegressionsStop`: `OnOwnPrefix` and `NeverPastARegression`, under one
  hypothesis stated in the theorems: no process dies (`~ Crashes`). It cannot go: `pipeline_lost_verdict`
  refutes `NeverPastARegression` with crashes. Nothing is assumed of what the fingerprint sees: the
  properties are of files, and of the database where `NewestOnly` holds. The invariant `Standing` says that a
  manifest that could be resumed still stands on the destination and counts nothing from a regression on;
  every run that is over has a fingerprint; a change of files that has just been made leaves none that
  matches, and under `NewestOnly` no other run can be resumed after a change of the database.
- `OrderedStepsProofs!OneUnrecorded`: what `OrderedSteps` promises entails that the durable histories of
  a lineage miss at most one performed step.
- `PipelineRefinement!PipelineKeepsOrder`: `Pipeline` implements `OrderedSteps` under the mapping
  `done <- performed`, `recorded <-` the union of the executed steps over the manifests of the lineage. A
  step that succeeds maps to `Perform`; a checkpoint to `RecordStep`, or to a stutter when the lineage has
  recorded the step before; a verdict that stops to `Retract`, or to a stutter when another manifest reports
  the step; everything else to a stutter. The proof adds two invariants to the histories: `Follows` (disk and
  memory agree but for the step under way) and `Anchored` (a performed step rests on a report of the step
  before it that no pending verdict can take back), which is what makes `Retract` legal.
  `AtMostOneStaysUnrecorded` is inherited.

**Migration**
- `TypeCorrect`: the types, with `Located`, the place of the process.
- `OldTreesSaved`: `OldTreeRemovedOnlySaved`. The step that removes a tree looks at one backup only; that
  this backup holds what is removed rests on `DestInv`: each backup holds every old tree still standing
  below its installation (none ever reappears), and none stands below a destination that is absent (which
  is why an absent destination needs no backup).
- `FinishedIsWhole`, `ProductionSafe`, `ProbesSafe`: `FinishedMigrationIsWhole`, `ProductionSafeInOrder`,
  `ProbesAvoidProduction`, all from `Stands`. What the newest manifest counts as done still stands on the
  destination and in the databases (`NewestStands`, with `MemoryStands` for the run under way); a tree whose
  fingerprint a manifest holds names the database that the manifest says it does (`PrintsNamed`), so a
  resume that compares may trust the counter; only a crash leaves a manifest that is compared with nothing
  (`Compared`). A step on one installation disturbs what stands of another only if it lies below, whose own
  steps come later: that is where `PlanOrderAssumption` is used. Without stale resumes of crashed runs this
  gives the two promises about production; the other two violations of the section above are outside it.

**PluginRefresh**
- `TypedAlways`, `Types`: at most one directory per place is part of the types, and what a directory may
  hold after an interrupted removal.
- `Changed`: `ChangesAreTrue`. `Lineage` adds that an original is its own original and no younger than
  its resumes, and that the list in memory is the one on disk.
- `WorkKept`: `VisibleWorkIsKept`. Not inductive alone: a removal is safe because of an inspection several
  actions earlier. `Sound` says that what git status does not show in a directory is work known to be
  unseen; `Phase` carries the verdict from the inspection to the last rename: between the two, what is aside,
  in place or in staging holds no visible work, and nothing else is aside.
- `FormerComesBack`: `DirectoryIsBack`. `Lodged`: only the plugin at hand may be out of its place, between two
  moves, and then what goes there next is at hand; a way back is only taken after a failure, the one the
  property forgives.
- `StashNamed`: `StashIsReported`. `Accounted`: work that only a stash holds is named by a manifest no step
  overwrites any more (`Told`), or by the process that is about to write one (`InHand`). The manifest of the
  run under way does not count as `Told`: its next save replaces it.
- `WholeCopyRemains`: `WholeCopyStays`. `Unharmed`: as long as no move or removal failed, every copy is whole,
  what takes the place of a plugin is in staging before the directory makes room, and in place before the
  former one is removed.

**NetworkReplay**
- `TypeCorrect`: the types. A plan in a manifest is `Sound` (its values after are the transformation of those
  before), and what is left to write are cells of that plan (`Typed`): otherwise a statement that follows
  somebody's edit could write no row at all.
- `ProductionIsSpared`: `OnlySearchReplaceStrays`. `Guarded` says that the test of the connection, made once
  when a step starts, still stands at its later calls: nothing changes the files under a step.
- `WritesAreRecorded`: `OnlyRecordedValues`. A manifest has at most one plan for the network (`Shapes`), no
  other step writes while it is applied, and each statement is conditional on the former value
  (`UpdatedCell`), so that no inspection is needed for it.
- `NetworkKeepsToTwoUrls`: `NoThirdUrl`. An overlapping network never gets past `plan_multisite_domain`
  (`Refusals`), however often it is resumed, so its search-replace is never reached; elsewhere the content is
  on one of the two hosts (`Contents`).
- `FinishedCopyIsTest`: `FinishedIsTest`. `Standing`: what the completed steps of a run have made of files and
  content stays as long as these are its own work, whatever other runs and edits do to theirs (`Works`); at
  the last verdict the URLs are those of the HTTPS plan and no blog is public (`Final`).
- `RunIsResumable`: `ReplayAccepted`, with `Replaying`. It says, for the number of steps done, which plans and
  validations a manifest has (`Ready`) and what files and data are with respect to them as long as they are
  its own work (`Fits`): before the plan, the source; while the plan is applied, a mixture of the values before
  and after that `Replays` accepts; afterwards, those after. It is needed of three manifests at once: the one
  in memory (`AtHand`, which before a verdict fits both numbers), the one on disk, which may lack a plan that
  is already in memory (`Extends`) and is all a crash leaves, and those of earlier runs, one of which a resume
  takes up with its authorship (`Lasting`). Within a step, `InStep` says what is still to be written: every
  value not yet the one after, and every blog not yet on HTTPS. That a repeated statement or search-replace
  leads from such a mixture to another is `UpdatedReplays`, `ReplacedSite` and `UpgradedReplays`.

**Modernization**
- `TypeCorrect`: the types, with the shape of every route the code computes.
- `FinishedModern`, `NoDowngrade`, `NoSkippedCheckpoint`, `FittingPhp`: `FinishedIsModern`, `NeverDowngrades`,
  `NoCheckpointSkipped`, `InstalledByFittingPhp`, all from `Kept`. `PlanSound`: every plan ever made has
  ascending checkpoints and ends with the widgets. `Good`: an undisturbed copy is where its manifest says:
  past the checkpoints done, its database migrated after the last. `Remembered`: the reference of the widgets
  was taken before the update began, and a resume keeps it. `AtPlace`: between the parts of a checkpoint, the
  copy is older than its target until the files change, and the PHP that was inspected when the step
  began fits the target. That is the PHP of the command as long as the binary was not replaced since, which is
  the hypothesis of `InstalledByFittingPhp`; `EditPhp` may replace it in between.
- `RestorationIsAuthorised`: `RestoresOnlyWhenAsked`. `Authorised`: the manifest in memory has the word of this
  invocation, and the restoration is only reached with it.

Only model-checked: `Settles`, since the prover does not reason about fairness. In the runs that expect a
violation the property is false of the code; `pipeline_lost_verdict` refutes without its hypothesis what
`RegressionsStop` proves with it. Conversely the theorems go beyond the runs in the length of chains:
`plugins_steps` has room for one resume of a run, `Changed` is about any number of them.

## Not modelled

- Presentation, argument parsing, logging, redaction, secrets, the command runner and wording; the parsing
  of paths, URLs, versions and `wp-config.php`, and the search for a database: pure functions, unit-tested,
  whose verdicts only make a step fail or raise, which every step of every module may do.
- Two processes at once: nothing in the code prevents it and the documentation leaves it to the operator.
- The previous contents of TEST databases: `docs/recovery.md` says they are not backed up.
- The update plan without a route (`planned_update_steps`), kept for configurations without
  `php_runtimes`; its two core steps are commands without a check of versions.
- A resume with no step left, which only adds a manifest, in `PluginRefresh` and `NetworkReplay`; `Pipeline`,
  `Migration` and `Modernization` (`ResumeWhole`) have it.
- Dry-runs of the steps of `NetworkReplay` and `Modernization`: `Pipeline` has what a dry-run may do.
- The classification of single widget differences, the advice on provisioning, the tar stream of the
  password transport, and how a backup is built.

`PROJECT.json` says for each component what of it is left out, and for the hazards no property covers, why.

## Plan

Done: `Pipeline`, `OrderedSteps`, `Migration`, `PluginRefresh`, `NetworkReplay`, `Modernization`, `Planning`,
and the proofs above. Left, in this order:

1. Composition of `Pipeline` with the health of each of several nested installations, and a second process.
2. `required_capabilities` over `Planning`, against the commands each step starts.

----------------------------- MODULE MCPipeline -----------------------------
(***************************************************************************)
(* Small plans for Pipeline: the shapes of MigrationPlanner.build and of   *)
(* planned_update_steps, one step of every capability.                     *)
(***************************************************************************)
EXTENDS Pipeline, Planning

Backup == MigrationStep("backup_existing_test")
CopyFiles == MigrationStep("copy_files")
SearchReplace == MigrationStep("pending_search_replace")
CoreUpdate == UpdateStep("core_update")
ThemeUpdate == UpdateStep("theme_update")
SourceSnapshot == MigrationStep("snapshot_source_database")

\* A migration: the backup and the snapshot change nothing of the destination.
MigrationPlan == <<Backup, CopyFiles, SourceSnapshot, SearchReplace>>
MigrationChanges == {2, 4}
MigrationFiles == {2}

\* An update: the search-replace changes only the database, which the
\* fingerprint leaves out.
UpdatePlan == <<UpdateStep("pending_search_replace"), CoreUpdate, ThemeUpdate>>
UpdateChanges == {1, 2, 3}
UpdateFiles == {2, 3}

SeenHealth == {"HEALTHY", "WPCLI_PARTIAL", "DATABASE_UNAVAILABLE"}
GoodOrBad == {"HEALTHY", "DATABASE_UNAVAILABLE"}

=============================================================================

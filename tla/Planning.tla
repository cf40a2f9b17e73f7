------------------------------ MODULE Planning ------------------------------
(***************************************************************************)
(* The steps MigrationPlanner.build (domain/planning.py) plans for an      *)
(* installation and those nested in it, and planned_update_step            *)
(* (pipeline/steps.py).  The MC modules take from these plans the steps    *)
(* their modules are about.                                                *)
(***************************************************************************)
EXTENDS Naturals, Sequences, FiniteSets

\* What a dry-run may do of a step, and what it takes.
UpdateCapability(name) ==
    CASE name \in {"preflight", "snapshot"} -> "READ_ONLY"
      [] name = "pending_search_replace" -> "MUTABLE_WITH_NATIVE_DRY_RUN"
      [] OTHER -> "MUTABLE_WITHOUT_SAFE_DRY_RUN"
UpdateNeeds(name) ==
    CASE name = "snapshot" -> {"WPCLI_AVAILABLE", "DATABASE_AVAILABLE"}
      [] name = "pending_search_replace" -> {"WPCLI_REDUCED_BOOTSTRAP", "DATABASE_AVAILABLE"}
      [] OTHER -> {}
UpdateStep(name) ==
    [name |-> name, capability |-> UpdateCapability(name), needs |-> UpdateNeeds(name),
     tolerates |-> {}]

MigrationCapability(name) ==
    CASE name = "snapshot_source_database" -> "READ_ONLY"
      [] name = "pending_search_replace" -> "MUTABLE_WITH_NATIVE_DRY_RUN"
      [] OTHER -> "MUTABLE_WITHOUT_SAFE_DRY_RUN"
MigrationNeeds(name) ==
    CASE name = "snapshot_source_database" -> {"DATABASE_AVAILABLE"}
      [] name = "pending_search_replace" -> {"WPCLI_REDUCED_BOOTSTRAP", "DATABASE_AVAILABLE"}
      [] OTHER -> {}
\* allowed_health_regressions
Tolerates(name) ==
    IF name = "copy_files" THEN {"DATABASE_UNAVAILABLE", "WPCLI_PARTIAL"} ELSE {}
MigrationStep(name) ==
    [name |-> name, capability |-> MigrationCapability(name), needs |-> MigrationNeeds(name),
     tolerates |-> Tolerates(name)]

Copying ==
    <<"backup_existing_test", "copy_files", "snapshot_source_database", "copy_database",
      "write_test_db_config", "plan_multisite_domain", "correct_multisite_domain">>
\* The pending operation is always there, and never completed (service.py 194-203).
Rewriting ==
    <<"pending_search_replace", "plan_test_https", "enforce_test_https",
      "plan_test_indexing", "disable_test_indexing">>

\* Fewer parts of a path first: a parent before what is nested in it.  contains: node ->
\* nodes whose destination is inside its own, itself included.
Around(contains, n) == Cardinality({m \in DOMAIN contains : n \in contains[m]})
ParentsFirst(contains) ==
    LET nodes == DOMAIN contains
    IN CHOOSE order \in [1..Cardinality(nodes) -> nodes] :
          \A i, j \in DOMAIN order :
              i < j => /\ order[i] # order[j]
                       /\ Around(contains, order[i]) <= Around(contains, order[j])

\* Every installation is copied and corrected before the URLs of any are replaced.
ForEach(names, nodes) ==
    [k \in 1..(Len(names) * Len(nodes)) |->
        [name |-> names[1 + ((k - 1) % Len(names))], node |-> nodes[1 + ((k - 1) \div Len(names))]]]
Build(contains) ==
    ForEach(Copying, ParentsFirst(contains)) \o ForEach(Rewriting, ParentsFirst(contains))

\* The steps of a plan with some of the names.
OfThese(plan, names) == SelectSeq(plan, LAMBDA step : step.name \in names)

=============================================================================

---------------------------- MODULE MCMigration ----------------------------
(***************************************************************************)
(* One installation, and a parent with one nested in it, for Migration:    *)
(* the steps it models of the plan MigrationPlanner.build makes for them.  *)
(***************************************************************************)
EXTENDS Migration, Planning, TLC

OneSite == {"site"}
OneTree == [n \in OneSite |-> OneSite]
OneSitePlan == OfThese(Build(OneTree), StepName)

TwoSites == {"parent", "child"}
TwoTrees == [n \in TwoSites |-> IF n = "parent" THEN TwoSites ELSE {n}]
TwoSitePlan == OfThese(Build(TwoTrees), StepName)

\* TLC evaluates once a definition that others use, again and again one that a constant
\* stands for: those of the configuration only name another.
OnePlan == OneSitePlan
TwoPlan == TwoSitePlan

\* The places of the source database are interchangeable.
SourceSymmetry == Permutations(Sources)

=============================================================================

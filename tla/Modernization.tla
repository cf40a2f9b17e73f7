--------------------------- MODULE Modernization ---------------------------
(***************************************************************************)
(* The update of a TEST copy to the approved release of WordPress: the     *)
(* route of checkpoints and PHP runtimes planned from the installed        *)
(* version, and its steps, by runs and resumes of one installation that    *)
(* may break off between any two commands.  Meanwhile widgets are edited,  *)
(* PHP binaries are replaced or removed, and the installation is migrated  *)
(* anew.                                                                   *)
(*                                                                         *)
(* PluginRefresh has the managed plugins in detail and Pipeline the runner;*)
(* dry-runs are left to Pipeline.  A version is a number whose last digit  *)
(* is the patch: 681 is 6.8.1.                                             *)
(***************************************************************************)
EXTENDS Integers, Sequences

CONSTANTS
    Policy,        \* the modernization policy
    Compatibility, \* the audited families of releases, with the PHP they require
    Runtimes,      \* names of the configured PHP runtimes
    configured,    \* the version each is configured as
    UpdateStepNames, \* the steps after the checkpoints, in order
    Widgets,       \* contents of the widget options of the whole schema
    Releases,      \* bound: versions of WordPress production may run
    Approved,      \* bound: values of latest_wordpress, 0 where there is none
    Reported,      \* bound: versions a binary may report, 0 where it is missing
    MaxMoves,      \* bound: how many runs are created and other changes made, together
    Crashes        \* bound: may the process die abruptly?

Version == Nat
Family(v) == v \div 10

\* exact, maximum: at most one.  minimum: 0 for none.
Requirement ==
    [exact: SUBSET Version, minimum: Version, maximum: SUBSET Version, current: BOOLEAN]

ASSUME PolicyAssumption ==
    /\ Policy.automatic \in Version /\ Policy.legacy \in Version \X Version
    /\ Policy.final \in Requirement
    /\ Policy.checkpoints \in Seq([wordpress: Version, php: Requirement])
    /\ Policy.checkpoints # <<>>
    /\ \A i, j \in DOMAIN Policy.checkpoints :
          i < j => Policy.checkpoints[i].wordpress < Policy.checkpoints[j].wordpress
ASSUME CompatibilityAssumption ==
    Compatibility \in Seq([first: Version, last: Version, php: Requirement])
\* What DEFAULT_POLICY and FINAL_COMPATIBILITY add: the policy gives the final release a
\* minimum, the audit no exact version; families are apart, and no checkpoint is in one.
ASSUME AuditAssumption ==
    /\ Policy.final.exact = {} /\ Policy.final.maximum = {}
    /\ \A i \in DOMAIN Compatibility :
          LET audited == Compatibility[i]
          IN /\ audited.php.exact = {}
             /\ \A j \in DOMAIN Compatibility :
                   i < j => Family(audited.last) < Family(Compatibility[j].first)
             /\ \A k \in DOMAIN Policy.checkpoints :
                   LET passed == Family(Policy.checkpoints[k].wordpress)
                   IN passed < Family(audited.first) \/ Family(audited.last) < passed
ASSUME RuntimesAssumption ==
    configured \in [Runtimes -> Version \ {0}] /\ Reported \subseteq Version

UpdateStep ==
    {"managed_plugin_refresh", "third_party_plugin_update", "theme_update",
     "core_languages", "plugin_languages", "theme_languages", "widget_validation"}
ASSUME UpdateStepsAssumption ==
    /\ UpdateStepNames \in Seq(UpdateStep)
    /\ UpdateStepNames # <<>> /\ UpdateStepNames[Len(UpdateStepNames)] = "widget_validation"
ASSUME BoundAssumption ==
    /\ Releases \subseteq Version /\ Approved \subseteq Version
    /\ MaxMoves \in Nat \ {0} /\ Crashes \in BOOLEAN

VARIABLES
    latest,        \* latest_wordpress
    explicit,      \* is test_url given explicitly?
    php,           \* what each runtime reports
    core,          \* the version of the files
    files,         \* the run that last changed other files; 0: they came with a copy
    schema,        \* the version the database was last updated to
    url,           \* the URL the copy was given, or one beyond it
    widgets,       \* the widget options
    plans,         \* the planned steps of every lineage, in order of creation
    disk,          \* the manifest of every created run, in order of creation
    run,           \* the manifest in the memory of the process
    proc,          \* where the process is in its step
    clean,         \* runs since whose lineage began nobody else changed the copy
    moves          \* how many other changes were made

copy == <<core, files, schema, url, widgets>>
surroundings == <<latest, explicit, php>>
vars == <<surroundings, copy, plans, disk, run, proc, clean, moves>>

Current == Len(disk)

-----------------------------------------------------------------------------
(***************************************************************************)
(* The route (domain/modernization.py).  A slip is a wrong version of the  *)
(* next operator, there only to show that a property notices.              *)
(***************************************************************************)

\* A requirement is about the version reported, not the one configured.
Accepts(requirement, v) ==
    /\ \A e \in requirement.exact : Family(v) = Family(e)
    /\ v >= requirement.minimum
    /\ \A m \in requirement.maximum : Family(v) <= Family(m)

Verified(name) == php[name] # 0 /\ Family(php[name]) = Family(configured[name])
Candidates(requirement) ==
    {name \in Runtimes :
        (requirement.current => name = "current") /\ Accepts(requirement, configured[name])}
Preferred(a, b) ==
    IF Verified(a) = Verified(b) THEN configured[a] >= configured[b] ELSE Verified(a)
SelectRuntime(requirement) ==
    {best \in Candidates(requirement) :
        best = CHOOSE b \in Candidates(requirement) :
                   \A other \in Candidates(requirement) : Preferred(b, other)}

Legacy(v) ==
    Family(Policy.legacy[1]) <= Family(v) /\ Family(v) <= Family(Policy.legacy[2])
FamiliesOf(v) ==
    {i \in DOMAIN Compatibility :
        Family(Compatibility[i].first) <= Family(v) /\ Family(v) <= Family(Compatibility[i].last)}

FinalPhp ==
    LET audited == Compatibility[CHOOSE i \in FamiliesOf(latest) : TRUE].php
    IN [exact |-> {},
        minimum |-> IF audited.minimum > Policy.final.minimum THEN audited.minimum
                    ELSE Policy.final.minimum,
        maximum |-> IF audited.maximum # {} THEN audited.maximum ELSE Policy.final.maximum,
        current |-> TRUE]

\* Stage 0 is the final release, the others are the checkpoints.
Php(stage) == IF stage = 0 THEN FinalPhp ELSE Policy.checkpoints[stage].php
Wordpress(stage) == IF stage = 0 THEN latest ELSE Policy.checkpoints[stage].wordpress

\* The checkpoints from one on.
From(first) == [i \in 1..(Len(Policy.checkpoints) + 1 - first) |-> first - 1 + i]
Places == 1..(Len(Policy.checkpoints) + 1)
\* Slip: only the major versions are compared.
LaterMajor(v) ==
    From(CHOOSE first \in Places : \A i \in DOMAIN Policy.checkpoints :
             i >= first <=> Policy.checkpoints[i].wordpress \div 100 > v \div 100)
\* The checkpoints above the installed version, which are the last ones: the policy has
\* them in ascending order.
Later(v) ==
    From(CHOOSE first \in Places : \A i \in DOMAIN Policy.checkpoints :
             i >= first <=> Policy.checkpoints[i].wordpress > v)

\* The stage whose requirement holds for the steps before the first checkpoint.
InitialStage ==
    CASE Later(core) # <<>> -> Later(core)[1]
      [] Later(core) = <<>> /\ Legacy(core) -> Len(Policy.checkpoints)
      [] OTHER -> 0
Stages == Append(Later(core), 0)

\* modernization_steps.  target: 0 but for checkpoints.
Step(name, stage, target) ==
    [name |-> name, stage |-> stage, runtime |-> SelectRuntime(Php(stage)), target |-> target]
Steps ==
    <<Step("preflight", InitialStage, 0), Step("pending_search_replace", InitialStage, 0),
      Step("snapshot", InitialStage, 0)>>
    \o [i \in DOMAIN Stages |-> Step("wordpress_checkpoint", Stages[i], Wordpress(Stages[i]))]
    \o [i \in DOMAIN UpdateStepNames |-> Step(UpdateStepNames[i], 0, 0)]

\* Slip: the version the runtime was configured as is taken for the one it reports.
FitsAsConfigured(step) == \E name \in step.runtime : Accepts(Php(step.stage), configured[name])
\* The runtime selected for a step is as configured and meets the requirement.
Fits(step) == \E name \in step.runtime : Verified(name) /\ Accepts(Php(step.stage), php[name])

\* The automation begins at a minimum, and goes neither back nor past a checkpoint.
Ready ==
    /\ core >= Policy.automatic
    /\ FamiliesOf(latest) # {}
    /\ latest >= core
    /\ \A i \in DOMAIN Policy.checkpoints : latest >= Policy.checkpoints[i].wordpress
    /\ \A i \in DOMAIN Steps : Fits(Steps[i])

-----------------------------------------------------------------------------
(***************************************************************************)
(* Runs, and what happens beside them.                                     *)
(***************************************************************************)

\* What assert_resume_consistent compares sees the files, not the database.
Fingerprint == [core |-> core, files |-> files]

PlanOf(m) == plans[m.plan]
StepHere == PlanOf(run)[run.done + 1]
\* asked: was this invocation told to restore widgets?  inspected: what the runtime of the
\* step reported when the step began, kept only for InstalledByFittingPhp.
Idle == [pc |-> "idle", asked |-> FALSE, inspected |-> 0]
\* snapshot: the reference of the widgets; late: was it taken after the lineage began to
\* update?  print: the files its fingerprint is of, once it is closed.
NoRun ==
    [status |-> "RUNNING", plan |-> 0, done |-> 0, restore |-> FALSE, snapshot |-> {},
     begun |-> FALSE, print |-> {}]

\* Slip: a failed run is saved without the fingerprint of its files.
ClosedUnprinted(m) == [m EXCEPT !.status = "UPDATE_FAILED_PRESERVED"]
Closed(m) == [m EXCEPT !.status = "UPDATE_FAILED_PRESERVED", !.print = {Fingerprint}]
Executed(m) == [m EXCEPT !.status = "EXECUTED", !.print = {Fingerprint}]
Saved(m) == [disk EXCEPT ![Current] = m]
ResumeConsistent(r) == disk[r].print \subseteq {Fingerprint}

\* A copy just migrated.
Init ==
    /\ latest \in Approved /\ explicit \in BOOLEAN
    /\ php = configured
    /\ core \in Releases /\ schema = core /\ files = 0
    /\ url = "test" /\ widgets \in Widgets
    /\ plans = <<>> /\ disk = <<>> /\ run = NoRun /\ proc = Idle
    /\ clean = {} /\ moves = 0

Begin(m, restore) ==
    /\ proc.pc = "idle" /\ Current + moves < MaxMoves
    /\ run' = m
    /\ disk' = Append(disk, m)
    /\ proc' = [pc |-> "facing", asked |-> restore, inspected |-> 0]
    /\ UNCHANGED <<surroundings, copy, moves>>

Execute(restore) ==
    /\ Begin([NoRun EXCEPT !.plan = Len(plans) + 1, !.restore = restore], restore)
    /\ Ready /\ plans' = Append(plans, Steps)
    /\ clean' = clean \cup {Current + 1}

\* Slip: an authorisation once given is inherited.
RestoreInherited(old, restore) == old.restore \/ restore
\* Restoring is authorised by invocation.
Restore(old, restore) == restore

Resumed(r, restore) ==
    [disk[r] EXCEPT !.status = "RUNNING", !.print = {}, !.restore = Restore(disk[r], restore)]
Inherits(r) == clean' = clean \cup (IF r \in clean THEN {Current + 1} ELSE {})

Resume(r, restore) ==
    LET old == disk[r]
    IN /\ Begin(Resumed(r, restore), restore)
       /\ old.done < Len(PlanOf(old)) /\ ResumeConsistent(r)
       /\ \A i \in (old.done + 1)..Len(PlanOf(old)) : Fits(PlanOf(old)[i])
       /\ UNCHANGED plans /\ Inherits(r)

\* With no step left, a resume is closed as executed, unless the process dies before that.
ResumeWhole(r, restore) ==
    /\ proc.pc = "idle" /\ Current + moves < MaxMoves
    /\ disk[r].done = Len(PlanOf(disk[r])) /\ ResumeConsistent(r)
    /\ \E m \in {Executed(Resumed(r, restore))} \cup
                 (IF Crashes THEN {Resumed(r, restore)} ELSE {}) :
          disk' = Append(disk, m)
    /\ Inherits(r) /\ UNCHANGED <<surroundings, copy, plans, run, proc, moves>>

\* Others change a runtime or the widgets, or migrate the installation anew.
Outside ==
    /\ Current + moves < MaxMoves /\ moves' = moves + 1
    /\ UNCHANGED <<latest, explicit, plans, disk, run, proc>>
EditPhp ==
    /\ Outside
    /\ \E name \in Runtimes, v \in Reported : php' = [php EXCEPT ![name] = v]
    /\ php' # php /\ UNCHANGED <<copy, clean>>
EditWidgets ==
    /\ Outside
    /\ widgets' \in Widgets \ {widgets}
    /\ clean' = {} /\ UNCHANGED <<php, core, files, schema, url>>
Migrate ==
    /\ Outside /\ proc.pc = "idle"
    /\ core' \in Releases /\ schema' = core' /\ files' = 0 /\ url' = "test"
    /\ widgets' \in Widgets
    /\ clean' = {} /\ UNCHANGED php

-----------------------------------------------------------------------------
(***************************************************************************)
(* The steps.  A checkpoint and the restoration of widgets are several     *)
(* commands, each of which may fail or be the last the process runs.       *)
(***************************************************************************)

\* The binary of the runtime as it is now: every command of a step launches it anew, from
\* the path that is all the step keeps of it.
Launched == php[CHOOSE name \in StepHere.runtime : TRUE]

\* The runtime is inspected once, when the step starts.
Facing(name) ==
    /\ proc.pc = "facing" /\ StepHere.name = name
    /\ Fits(StepHere)
    /\ UNCHANGED <<surroundings, plans, disk, moves>>
Go(pc) ==
    proc' = [proc EXCEPT !.pc = pc,
                !.inspected = IF proc.pc = "facing" THEN Launched ELSE @]
Within(pc) == proc.pc = pc /\ UNCHANGED <<surroundings, plans, disk, run, moves>>
\* A command of WP-CLI needs a binary, not the one that was inspected.
Commands(pc) == Within(pc) /\ Launched # 0
\* A command of this run changes the copy for every other one.
Mine == clean' = IF UNCHANGED copy THEN clean ELSE clean \cap {Current}
\* A command that may also fail after its change.
Through(pc) == \E next \in {pc, "broken"} : Go(next)
Begun == [run EXCEPT !.begun = TRUE]

Preflight ==
    /\ Facing("preflight")
    /\ Go("judge") /\ UNCHANGED <<copy, run, clean>>

\* The recovery data of an update names no URL: the pending search-replace, which a new
\* plan always holds, starts from the URL of the copy.  OrganizationalTestUrlPolicy puts a
\* further label into it; an explicit test_url is the URL already, or has its host.
SearchReplace ==
    /\ Facing("pending_search_replace") /\ ~ explicit
    /\ url' = "beyond" /\ widgets' \in Widgets
    /\ UNCHANGED <<core, files, schema, run>>
    /\ Through("judge") /\ Mine

SnapshotWidgets ==
    /\ Facing("snapshot")
    /\ run' = [run EXCEPT !.snapshot = {[options |-> widgets, late |-> run.begun]}]
    /\ Go("judge") /\ UNCHANGED <<copy, clean>>

\* Slip: any installed version but the target is updated to it.
UpgradesAny(target) == core # target
\* core version is compared with the target: a newer one is refused.
Upgrades(target) == core < target

\* Slip: with the target already in place nothing is left to do.
AfterVersionDone(target) == IF Upgrades(target) THEN "upgrading" ELSE "judge"
\* The database is updated even if the files need not be.
AfterVersion(target) == IF Upgrades(target) THEN "upgrading" ELSE "migrating"

CheckVersion ==
    /\ Facing("wordpress_checkpoint")
    /\ LET target == StepHere.target
       IN (Upgrades(target) \/ core = target) /\ Go(AfterVersion(target))
    /\ run' = Begun /\ UNCHANGED <<copy, clean>>

CoreUpdate ==
    /\ Commands("upgrading")
    /\ core' = StepHere.target /\ files' = Current /\ UNCHANGED <<schema, url, widgets>>
    /\ Through("migrating") /\ Mine

CoreUpdateDb ==
    /\ Commands("migrating")
    /\ schema' = core /\ widgets' \in Widgets /\ UNCHANGED <<core, files, url>>
    /\ Through("verifying") /\ Mine

VerifyVersion ==
    /\ Commands("verifying") /\ core = StepHere.target
    /\ Go("judge") /\ UNCHANGED <<copy, clean>>

\* Managed and other plugins, themes and translations.
UpdatePart ==
    /\ \E i \in DOMAIN UpdateStepNames :
          UpdateStepNames[i] # "widget_validation" /\ Facing(UpdateStepNames[i])
    /\ run' = Begun
    /\ files' \in {files, Current} /\ UNCHANGED <<core, schema, url>>
    /\ widgets' \in IF StepHere.name \in {"third_party_plugin_update", "theme_update"} THEN Widgets
                    ELSE {widgets}
    /\ Through("judge") /\ Mine

\* compare_widgets finds nothing.
Same == \E reference \in run.snapshot : reference.options = widgets

\* What differs is restored.
AfterComparison == IF Same THEN "judge" ELSE "restoring"

ValidateWidgets ==
    /\ Facing("widget_validation") /\ run.snapshot # {}
    /\ Same \/ run.restore
    /\ Go(AfterComparison) /\ UNCHANGED <<copy, run, clean>>

\* One transaction over all tables of options of the schema.
RestoreWidgets ==
    /\ Within("restoring")
    /\ \E reference \in run.snapshot : widgets' = reference.options
    /\ UNCHANGED <<core, files, schema, url>>
    /\ Through("checking") /\ Mine

CheckRestored ==
    /\ Within("checking") /\ Same
    /\ Go("judge") /\ UNCHANGED <<copy, clean>>

\* A step refuses, a requirement is not met or a command fails before it changes anything.
Fails ==
    /\ proc.pc \notin {"idle", "judge"}
    /\ disk' = Saved(Closed(run))
    /\ run' = NoRun /\ proc' = Idle
    /\ UNCHANGED <<surroundings, copy, plans, clean, moves>>

-----------------------------------------------------------------------------
(***************************************************************************)
(* The end of a step.                                                      *)
(***************************************************************************)

Counted == [run EXCEPT !.done = @ + 1]
Finished == Executed(Counted)

JudgeContinues ==
    /\ proc.pc = "judge" /\ Counted.done < Len(PlanOf(run))
    /\ run' = Counted /\ disk' = Saved(Counted)
    /\ proc' = [proc EXCEPT !.pc = "facing", !.inspected = 0]
    /\ UNCHANGED <<surroundings, copy, plans, clean, moves>>

\* The plan is at its end, or the probe fails or the health is worse than before.
JudgeEnds ==
    /\ proc.pc = "judge"
    /\ disk' \in {Saved(Closed(run))} \cup
                 (IF Counted.done = Len(PlanOf(run)) THEN {Saved(Finished)} ELSE {})
    /\ run' = NoRun /\ proc' = Idle
    /\ UNCHANGED <<surroundings, copy, plans, clean, moves>>

Crash ==
    /\ Crashes /\ proc.pc # "idle"
    /\ disk' \in {disk} \cup (IF proc.pc = "judge" THEN {Saved(Counted)} ELSE {})
    /\ run' = NoRun /\ proc' = Idle
    /\ UNCHANGED <<surroundings, copy, plans, clean, moves>>

Checkpoint == CheckVersion \/ CoreUpdate \/ CoreUpdateDb \/ VerifyVersion
WidgetValidation == ValidateWidgets \/ RestoreWidgets \/ CheckRestored

Process ==
    \/ Preflight \/ SearchReplace \/ SnapshotWidgets \/ Checkpoint \/ UpdatePart
    \/ WidgetValidation \/ Fails \/ JudgeContinues \/ JudgeEnds \/ Crash

Next ==
    \/ \E restore \in BOOLEAN :
          \/ Execute(restore)
          \/ \E r \in 1..Current : Resume(r, restore) \/ ResumeWhole(r, restore)
    \/ EditPhp \/ EditWidgets \/ Migrate
    \/ Process

Spec == Init /\ [][Next]_vars

-----------------------------------------------------------------------------
(***************************************************************************)
(* Properties.                                                             *)
(***************************************************************************)

PlannedStep ==
    [name: {"preflight", "pending_search_replace", "snapshot", "wordpress_checkpoint"} \cup UpdateStep,
     stage: 0..Len(Policy.checkpoints), runtime: SUBSET Runtimes, target: Version]
Snapshot == [options: Widgets, late: BOOLEAN]
Manifest ==
    [status: {"RUNNING", "EXECUTED", "UPDATE_FAILED_PRESERVED"}, plan: 0..Len(plans),
     done: Nat, restore: BOOLEAN, snapshot: SUBSET Snapshot, begun: BOOLEAN,
     print: SUBSET [core: Version, files: Nat]]

\* Types; a manifest has a fingerprint once it is closed, and a place in its plan.
TypeOK ==
    /\ latest \in Version /\ explicit \in BOOLEAN /\ php \in [Runtimes -> Version]
    /\ core \in Version /\ files \in 0..Current /\ schema \in Version
    /\ url \in {"test", "beyond"} /\ widgets \in Widgets
    /\ plans \in Seq(Seq(PlannedStep)) /\ disk \in Seq(Manifest) /\ run \in Manifest
    /\ \A r \in 1..Current :
          disk[r].done <= Len(PlanOf(disk[r])) /\ (disk[r].status = "RUNNING" <=> disk[r].print = {})
    /\ proc \in [pc: {"idle", "facing", "upgrading", "migrating", "verifying", "restoring",
                      "checking", "broken", "judge"},
                 asked: BOOLEAN, inspected: Version]
    /\ clean \subseteq 1..Current /\ moves \in 0..MaxMoves

\* An update reported as successful, which nobody else interfered with, has brought files
\* and database to the target of its plan, however often it broke off and was resumed,
\* and left the widgets as they were before it began to update (runtime_operations.py
\* 130-151, 556-603).
FinishedIsModern ==
    \A r \in clean :
        disk[r].status = "EXECUTED" =>
            /\ schema = core
            /\ \E i \in DOMAIN PlanOf(disk[r]) : PlanOf(disk[r])[i].target = core
            /\ \A i \in DOMAIN PlanOf(disk[r]) : PlanOf(disk[r])[i].target <= core
            /\ disk[r].snapshot = {[options |-> widgets, late |-> FALSE]}

\* No run ever puts an older WordPress in place of a newer one, not even one resumed after
\* another has gone further (runtime_operations.py 135-136).
NeverDowngrades == [][proc.pc # "idle" => core' >= core]_vars

\* A run does not go past a checkpoint of the policy, unless somebody else changed the copy
\* since it was planned: a checkpoint asks only for a version that is not newer.
NoCheckpointSkipped ==
    [][proc.pc # "idle" /\ Current \in clean =>
          \A i \in DOMAIN Policy.checkpoints :
              LET c == Policy.checkpoints[i].wordpress
              IN ~ (core < c /\ c < core')]_vars

\* The PHP that runs core update is compatible with the release it installs, whatever
\* became of the binaries since the run was planned and in the runs before, as long as the
\* binary of this step was not replaced between its inspection and the command: within a
\* step nobody looks again (runtime_operations.py 104-121, 134-141).
Required(v) ==
    IF \E i \in DOMAIN Policy.checkpoints : Policy.checkpoints[i].wordpress = v
    THEN {Policy.checkpoints[i].php : i \in {j \in DOMAIN Policy.checkpoints :
                                                 Policy.checkpoints[j].wordpress = v}}
    ELSE {Policy.final} \cup {Compatibility[i].php : i \in FamiliesOf(v)}
InstalledByFittingPhp ==
    [][proc.pc # "idle" /\ core' # core /\ Launched = proc.inspected =>
          \A requirement \in Required(core') : Accepts(requirement, Launched)]_vars

\* The validation changes widgets only in an invocation that was told to: a former
\* authorisation is not inherited (docs/recovery.md 121-122, service.py 374-377).
RestoresOnlyWhenAsked ==
    [][proc.pc = "restoring" /\ widgets' # widgets => proc.asked]_vars

\* A copy that has its TEST URL keeps it.
UrlFollowsConvention == url = "test"

=============================================================================

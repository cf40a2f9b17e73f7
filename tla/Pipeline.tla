------------------------------ MODULE Pipeline ------------------------------
(***************************************************************************)
(* One operator runs, interrupts and resumes the plan of one installation. *)
(*                                                                         *)
(* The process is PipelineRunner.run (pipeline/runner.py) as it is driven  *)
(* by ModernizerService.execute and ModernizerService.resume               *)
(* (application/service.py); what survives it is the JsonStateStore        *)
(* (infrastructure/state.py).  A step's adapter is abstracted to what the  *)
(* runner can observe of it: it succeeds, returns FAILED or raises, and it *)
(* may have changed the destination in any of the three cases.             *)
(*                                                                         *)
(* disk is durable; manifest and proc are the memory of the running        *)
(* process and vanish with it.  matching and config describe the           *)
(* destination and the configuration file.  The other variables only       *)
(* record what happened, for the properties to speak about.                *)
(***************************************************************************)
EXTENDS Integers, Sequences, FiniteSets

CONSTANTS
    Plan,          \* the ordered PlannedSteps of the operation
    Changes,       \* positions whose adapter writes the destination (files or database)
    FileChanges,   \* those that may write its files, which the fingerprint covers
    HealthSeen,    \* health statuses the capability probe may report
    Configs,       \* critical configurations the operator may put in place
    MaxRuns,       \* bound: how many runs are ever created
    Crashes,       \* bound: may the process die abruptly?
    Edits,         \* bound: may the operator edit files or configuration between runs?
    NewestOnly     \* discipline: is only the newest run ever resumed?

HealthStatus ==
    {"HEALTHY", "PLUGIN_OR_THEME_CONFLICT", "WPCLI_PARTIAL",
     "PRE_BOOTSTRAP_RECOVERY_REQUIRED", "CORE_INCOMPLETE",
     "DATABASE_UNAVAILABLE", "PHP_CONFIG_ERROR", "UNKNOWN"}

StepCapability ==
    {"READ_ONLY", "MUTABLE_WITHOUT_SAFE_DRY_RUN", "MUTABLE_WITH_NATIVE_DRY_RUN"}

Capability == {"WPCLI_AVAILABLE", "DATABASE_AVAILABLE", "WPCLI_REDUCED_BOOTSTRAP"}

PlannedStep ==
    [name: STRING, capability: StepCapability, needs: SUBSET Capability,
     tolerates: SUBSET HealthStatus]

Length == Len(Plan)
Steps == 1..Length
Runs == 1..MaxRuns

ASSUME PlanAssumption ==
    /\ Plan \in Seq(PlannedStep)
    /\ Plan # <<>>
ASSUME EffectAssumption ==
    /\ Changes \subseteq {k \in Steps : Plan[k].capability # "READ_ONLY"}
    /\ FileChanges \subseteq Changes
ASSUME BoundAssumption ==
    /\ MaxRuns \in Nat \ {0}
    /\ HealthSeen \subseteq HealthStatus
    /\ Configs # {}
    /\ Crashes \in BOOLEAN
    /\ Edits \in BOOLEAN
    /\ NewestOnly \in BOOLEAN

StepStatus == {"EXECUTED", "FAILED", "PLANNED", "VALIDATED"}
RunStatus == {"RUNNING", "EXECUTED", "VALIDATED", "PLANNED", "UPDATE_FAILED_PRESERVED"}

\* The fields of RunManifest that resume reads or an operator relies on.  A
\* StepResult is its status: its identity is its position in the plan, and so
\* are those of last_successful_step and failed_step (0 when absent).
\* fingerprint says whether the manifest records a filesystem fingerprint.
Manifest ==
    [dry_run: BOOLEAN, status: RunStatus, steps: Seq(StepStatus),
     last: 0..Length, failed: 0..Length, recovery: SUBSET Steps,
     fingerprint: BOOLEAN, config: Configs, origin: Runs]

Process ==
    [pc: {"idle", "begin", "step", "probe", "verdict"},
     at: 1..Length + 1,
     before: HealthStatus, after: HealthStatus, quiet: BOOLEAN, touched: BOOLEAN]

VARIABLES
    disk,         \* the manifest.json of every created run, in order of creation
    manifest,     \* the RunManifest in the memory of the process
    proc,         \* where the process is, and the health reports it compares; touched
                  \* only records whether the step being probed has changed files
    matching,     \* the runs whose recorded fingerprint is that of the present tree
    config,       \* the critical configuration in place
    applied,      \* lineage -> changing steps whose effect the destination still shows:
                  \* on its files, and if NewestOnly on its database as well
    performed,    \* lineage -> steps that some run of it has really performed
    ranUnder,     \* lineage -> configurations under which it performed them
    regressed     \* lineage -> step whose change (of files, and if NewestOnly of any kind)
                  \* worsened the installation and was not performed again, or 0

memory == <<manifest, proc>>
history == <<performed, ranUnder, regressed>>
vars == <<disk, memory, matching, config, applied, history>>

Current == Len(disk)      \* the run the process is working on, once created
Fresh(origin) ==
    [dry_run |-> FALSE, status |-> "RUNNING", steps |-> <<>>,
     last |-> 0, failed |-> 0, recovery |-> {},
     fingerprint |-> FALSE, config |-> config, origin |-> origin]

\* The memory of a process that does not exist.
Blank == [Fresh(1) EXCEPT !.config = CHOOSE c \in Configs : TRUE]
Idle == [pc |-> "idle", at |-> 1, before |-> "UNKNOWN", after |-> "UNKNOWN", quiet |-> FALSE,
         touched |-> FALSE]

Ended == manifest' = Blank /\ proc' = Idle

-----------------------------------------------------------------------------
(***************************************************************************)
(* Decisions of the code, as operators.  An operator introduced as a slip  *)
(* is a wrong version of the next one: nothing uses it, it is there to     *)
(* show that a property notices.                                           *)
(***************************************************************************)

rank ==
    [HEALTHY |-> 6, PLUGIN_OR_THEME_CONFLICT |-> 5, WPCLI_PARTIAL |-> 4,
     PRE_BOOTSTRAP_RECOVERY_REQUIRED |-> 3, CORE_INCOMPLETE |-> 2,
     DATABASE_UNAVAILABLE |-> 1, PHP_CONFIG_ERROR |-> 1, UNKNOWN |-> 0]

Regressed(before, after) == rank[after] < rank[before]

NotTolerated(k, before, after) ==
    Regressed(before, after) /\ after \notin Plan[k].tolerates

\* What CapabilityProbe._classify's verdict says of the capabilities that
\* dry-run validations depend on.
Provides(health) ==
    CASE rank[health] >= 5 -> Capability
      [] rank[health] \in 2..4 -> {"WPCLI_AVAILABLE", "DATABASE_AVAILABLE"}
      [] OTHER -> {}

\* Steps after which the runner asks the probe for nothing and keeps the
\* previous report: WordPress must not be bootstrapped there.
Suppressed ==
    {"copy_files", "snapshot_source_database", "copy_database",
     "write_test_db_config", "plan_multisite_domain"}

ExpectedStatus(dry) == IF dry THEN "VALIDATED" ELSE "EXECUTED"

\* Slip: what a dry-run validated is taken as done.
CountsValidated(status) == status \in {"EXECUTED", "VALIDATED"}
Counts(status) == status = "EXECUTED"

\* _completed_prefix: results beyond the plan or completed out of order are
\* refused; otherwise the completed steps are the first d.
CompletedPrefix(m, d) ==
    /\ Len(m.steps) <= Length
    /\ d <= Len(m.steps)
    /\ \A i \in 1..Len(m.steps) : Counts(m.steps[i]) <=> i <= d

\* Slip: only a finished run is compared.
ComparesFinishedOnly(r) == disk[r].status = "EXECUTED" => r \in matching
\* assert_resume_consistent: a manifest without a fingerprint is not compared.
ResumeConsistent(r) == disk[r].fingerprint => r \in matching

\* Slip: the snapshot compared is that of the latest run.
LatestConfiguration(r) == disk[Current].config = config
\* _assert_resume_configuration_consistent.
SameConfiguration(r) == disk[r].config = config

\* Slip: a native dry-run executed for real.
CallsExecuteNatively(k) ==
    manifest.dry_run => Plan[k].capability # "MUTABLE_WITHOUT_SAFE_DRY_RUN"
\* _execute_step: which of the adapter's two entry points is called, if any.
CallsExecute(k) == manifest.dry_run => Plan[k].capability = "READ_ONLY"
CallsValidate(k) ==
    /\ manifest.dry_run
    /\ Plan[k].capability = "MUTABLE_WITH_NATIVE_DRY_RUN"
Skipped(k) ==
    /\ manifest.dry_run
    /\ \/ Plan[k].capability = "MUTABLE_WITHOUT_SAFE_DRY_RUN"
       \/ ~ (Plan[k].needs \subseteq Provides(proc.before))

Record(status) == [manifest EXCEPT !.steps = Append(@, status)]
\* Slip: the amended result added after the one it replaces.
AmendByAppending(m, status) == [m EXCEPT !.steps = Append(@, status)]
Amend(m, status) == [m EXCEPT !.steps[Len(m.steps)] = status]

\* Slip: the failed step is not noted.
CloseUnnoted(m, status, failed) == [m EXCEPT !.status = status, !.fingerprint = TRUE]
\* How a run ends: with a fingerprint of the tree it leaves behind.
Close(m, status, failed) ==
    [m EXCEPT !.status = status, !.failed = failed, !.fingerprint = TRUE]

\* Slips: the alias SUCCEEDED written as a value; a partial dry-run left open.
FinalStatusAlias(m) == IF m.dry_run THEN "VALIDATED" ELSE "SUCCEEDED"
FinalStatusOpen(m) ==
    CASE ~ m.dry_run -> "EXECUTED"
      [] m.dry_run /\ (\A i \in 1..Len(m.steps) : m.steps[i] = "VALIDATED") -> "VALIDATED"
      [] OTHER -> m.status
FinalStatus(m) ==
    CASE ~ m.dry_run -> "EXECUTED"
      [] m.dry_run /\ (\A i \in 1..Len(m.steps) : m.steps[i] = "VALIDATED") -> "VALIDATED"
      [] OTHER -> "PLANNED"

\* Slip: the manifest saved only when the run ends.
SavedAtTheEnd(m) == IF m.status = "RUNNING" THEN disk ELSE [disk EXCEPT ![Current] = m]
Saved(m) == [disk EXCEPT ![Current] = m]

\* What the records of the destination are about.  The fingerprint leaves the
\* database out: a run that others have overtaken in the database alone may be
\* resumed, unless it is a discipline to resume only the newest run.
Answers(touched) == touched \/ NewestOnly
Answered == IF NewestOnly THEN Changes ELSE FileChanges

\* Whether step k may have changed files: a repeated one may find nothing to do.
Disturbs(k) == CallsExecute(k) /\ k \in Changes
Touches(k) == IF Disturbs(k) /\ k \in FileChanges THEN BOOLEAN ELSE {FALSE}

\* The destination after step k ran, completely or partly: the effects of later
\* steps and of other lineages can no longer be relied on, those on files that
\* were left alone excepted.
AppliedAfter(k, complete, touched) ==
    LET left == IF Answers(touched) THEN {} ELSE FileChanges
    IN  IF Disturbs(k)
        THEN [l \in Runs |->
                IF l = manifest.origin
                THEN {j \in applied[l] : j < k \/ j \in left} \cup (IF complete THEN {k} ELSE {})
                ELSE applied[l] \cap left]
        ELSE applied
\* Files that were changed have a fingerprint that no manifest recorded.
MatchingAfter(touched) == IF touched THEN {} ELSE matching

-----------------------------------------------------------------------------
(***************************************************************************)
(* Starting a run.                                                         *)
(***************************************************************************)

Init ==
    /\ disk = <<>>
    /\ config \in Configs
    /\ manifest = Blank /\ proc = Idle
    /\ matching = {}
    /\ applied = [l \in Runs |-> {}]
    /\ performed = [l \in Runs |-> {}]
    /\ ranUnder = [l \in Runs |-> {}]
    /\ regressed = [l \in Runs |-> 0]

Begin(m) ==
    /\ manifest' = m
    /\ proc' = [Idle EXCEPT !.pc = "begin", !.at = Len(m.steps) + 1]
    /\ UNCHANGED <<disk, matching, config, applied, history>>

\* execute: a new lineage, with the configuration now in place.
Execute(dry) ==
    /\ proc.pc = "idle" /\ Current < MaxRuns
    /\ Begin([Fresh(Current + 1) EXCEPT !.dry_run = dry])

\* Slip: the recovery data of the resumed run left behind.
TakenWithoutRecovery(m, d, dry) ==
    [m EXCEPT !.dry_run = dry, !.status = "RUNNING", !.fingerprint = FALSE,
              !.steps = SubSeq(@, 1, d), !.last = d, !.failed = 0, !.recovery = {}]
\* The manifest of a resume: the first d results of m, its recovery data, its
\* configuration and its lineage.
Taken(m, d, dry) ==
    [m EXCEPT !.dry_run = dry, !.status = "RUNNING", !.fingerprint = FALSE,
              !.steps = SubSeq(@, 1, d), !.last = d, !.failed = 0]

\* resume: run r goes on as a new run.
Resume(r, dry) ==
    /\ proc.pc = "idle" /\ Current < MaxRuns
    /\ NewestOnly => r = Current
    /\ SameConfiguration(r)
    /\ ResumeConsistent(r)
    /\ \E d \in 0..Length :
        /\ CompletedPrefix(disk[r], d)
        /\ Begin(Taken(disk[r], d, dry))

\* A required capability is missing: the error is raised before anything of the
\* run is persisted.
RefuseCapabilities ==
    /\ proc.pc = "begin"
    /\ Ended
    /\ UNCHANGED <<disk, matching, config, applied, history>>

\* The first probe, then create_run.
CreateRun ==
    /\ proc.pc = "begin"
    /\ disk' = Append(disk, manifest)
    /\ \E health \in HealthSeen :
         proc' = [proc EXCEPT !.pc = "step", !.before = health]
    /\ UNCHANGED <<manifest, matching, config, applied, history>>

-----------------------------------------------------------------------------
(***************************************************************************)
(* Step proc.at of the plan.                                               *)
(***************************************************************************)

AtStep(k) == proc.pc = "step" /\ proc.at = k /\ k \in Steps

Advance(m) ==
    /\ manifest' = m
    /\ proc' = [proc EXCEPT !.pc = "step", !.at = @ + 1]

\* The adapter ran, completely or partly, and its effects on files and database.
Effect(k, complete, touched) ==
    /\ applied' = AppliedAfter(k, complete, touched)
    /\ matching' = MatchingAfter(touched)

NoEffect == UNCHANGED <<applied, matching>>

\* A step that a dry-run may not or cannot try: neither probe nor save follows.
StepPlanned(k) ==
    /\ AtStep(k) /\ Skipped(k)
    /\ Advance(Record("PLANNED"))
    /\ UNCHANGED <<disk, matching, config, applied, history>>

\* absent: a backup that found no destination to save.
StepSucceeds(k) ==
    /\ AtStep(k) /\ ~ Skipped(k)
    /\ manifest' = [Record(ExpectedStatus(manifest.dry_run)) EXCEPT
                        !.recovery = IF CallsValidate(k) THEN @ ELSE @ \cup {k}]
    /\ \E absent \in BOOLEAN, touched \in Touches(k) :
         /\ absent => Plan[k].name = "backup_existing_test" /\ ~ manifest.dry_run
         /\ proc' = [proc EXCEPT !.pc = "probe", !.touched = touched,
                                 !.quiet = absent \/ Plan[k].name \in Suppressed]
         /\ Effect(k, TRUE, touched)
    /\ IF manifest.dry_run
       THEN UNCHANGED history
       ELSE /\ performed' = [performed EXCEPT ![manifest.origin] = @ \cup {k}]
            /\ ranUnder' = IF k \in Changes
                           THEN [ranUnder EXCEPT ![manifest.origin] = @ \cup {config}]
                           ELSE ranUnder
            /\ regressed' = [regressed EXCEPT ![manifest.origin] = IF @ = k THEN 0 ELSE @]
    /\ UNCHANGED <<disk, config>>

\* The adapter returns FAILED: the step is still probed and judged.
StepReportsFailure(k) ==
    /\ AtStep(k) /\ ~ Skipped(k)
    /\ manifest' = Record("FAILED")
    /\ proc' = [proc EXCEPT !.pc = "probe", !.quiet = Plan[k].name \in Suppressed]
    /\ NoEffect \/ \E touched \in Touches(k) : Effect(k, FALSE, touched)
    /\ UNCHANGED <<disk, config, history>>

\* The manifest closed and saved, with the fingerprint of the tree left behind.
Settle(m, status, failed) ==
    /\ disk' = Saved(Close(m, status, failed))
    /\ Ended
    /\ UNCHANGED <<config, history>>

\* The adapter raises: the run is closed at once and nothing is probed.
StepRaises(k) ==
    /\ AtStep(k) /\ ~ Skipped(k)
    /\ Settle(Record("FAILED"), "UPDATE_FAILED_PRESERVED", k)
    /\ \/ applied' = applied /\ matching' = matching \cup {Current}
       \/ \E touched \in Touches(k) :
             /\ applied' = AppliedAfter(k, FALSE, touched)
             /\ matching' = MatchingAfter(touched) \cup {Current}

\* The probe after the step, its checkpoint file, and the manifest saved while
\* the report has not been judged yet.  A probe that raises fails the step.
Checkpoint ==
    /\ proc.pc = "probe"
    /\ LET k == Len(manifest.steps)
           To(m, health) ==
              /\ manifest' = m
              /\ disk' = Saved(m)
              /\ proc' = [proc EXCEPT !.pc = "verdict", !.after = health, !.touched = FALSE]
              /\ regressed' =
                   IF /\ ~ m.dry_run /\ m.steps[k] = "EXECUTED"
                      /\ k \in Changes /\ Answers(proc.touched)
                      /\ NotTolerated(k, proc.before, health)
                   THEN [regressed EXCEPT ![m.origin] = k]
                   ELSE regressed
       IN \/ \E health \in IF proc.quiet THEN {proc.before} ELSE HealthSeen : To(manifest, health)
          \/ To(Amend(manifest, "FAILED"), proc.before)
    /\ UNCHANGED <<matching, config, applied, performed, ranUnder>>

\* Slips: only the health is judged; only the result is.
AcceptedByHealth(k) == ~ NotTolerated(k, proc.before, proc.after)
AcceptedByResult(k) == manifest.steps[k] = ExpectedStatus(manifest.dry_run)
Accepted(k) ==
    /\ manifest.steps[k] = ExpectedStatus(manifest.dry_run)
    /\ ~ NotTolerated(k, proc.before, proc.after)

VerdictContinues ==
    /\ proc.pc = "verdict" /\ Accepted(proc.at)
    /\ manifest' = [manifest EXCEPT !.last = proc.at]
    /\ proc' = [proc EXCEPT !.pc = "step", !.at = @ + 1, !.before = proc.after]
    /\ UNCHANGED <<disk, matching, config, applied, history>>

VerdictStops ==
    /\ proc.pc = "verdict" /\ ~ Accepted(proc.at)
    /\ Settle(Amend(manifest, "FAILED"), "UPDATE_FAILED_PRESERVED", proc.at)
    /\ matching' = matching \cup {Current}
    /\ UNCHANGED applied

\* No step is left.
Finish ==
    /\ proc.pc = "step" /\ proc.at = Length + 1
    /\ Settle(manifest, FinalStatus(manifest), 0)
    /\ matching' = matching \cup {Current}
    /\ UNCHANGED applied

-----------------------------------------------------------------------------
(***************************************************************************)
(* What the operator and the machine may do.                               *)
(***************************************************************************)

\* The process dies, or the state store or the fingerprint raises.  In the
\* middle of a step its adapter may have changed the destination already.
Crash ==
    /\ Crashes /\ proc.pc # "idle"
    /\ Ended
    /\ \/ NoEffect
       \/ /\ proc.pc = "step" /\ proc.at \in Steps /\ ~ Skipped(proc.at)
          /\ \E touched \in Touches(proc.at) : Effect(proc.at, FALSE, touched)
    /\ UNCHANGED <<disk, config, history>>

\* Manual intervention on the destination between two runs.
EditFiles ==
    /\ Edits /\ proc.pc = "idle" /\ Current > 0
    /\ matching' = {}
    /\ applied' = [l \in Runs |-> {}]
    /\ UNCHANGED <<disk, memory, config, history>>

EditConfig ==
    /\ Edits /\ proc.pc = "idle"
    /\ config' \in Configs \ {config}
    /\ UNCHANGED <<disk, memory, matching, applied, history>>

Starts ==
    \/ \E dry \in BOOLEAN : Execute(dry)
    \/ \E r \in 1..Current, dry \in BOOLEAN : Resume(r, dry)

RunsStep ==
    \E k \in Steps :
        StepPlanned(k) \/ StepSucceeds(k) \/ StepReportsFailure(k) \/ StepRaises(k)

\* The process's own steps, once the operator started it.
Work ==
    \/ RefuseCapabilities
    \/ CreateRun
    \/ RunsStep
    \/ Checkpoint
    \/ VerdictContinues
    \/ VerdictStops
    \/ Finish

Next ==
    \/ Starts
    \/ Work
    \/ Crash
    \/ EditFiles
    \/ EditConfig

Spec == Init /\ [][Next]_vars

\* Every adapter call returns or raises (its commands have timeouts), so a
\* started process goes on; nobody is obliged to start one.
FairSpec == Spec /\ WF_vars(Work)

-----------------------------------------------------------------------------
(***************************************************************************)
(* Properties.                                                             *)
(***************************************************************************)

\* The state of the store, of the process and of the destination is what
\* RunManifest, PipelineRunner and the configuration can hold.
TypeOK ==
    /\ disk \in Seq(Manifest) /\ Current <= MaxRuns
    /\ manifest \in Manifest
    /\ proc \in Process
    /\ matching \subseteq 1..Current
    /\ config \in Configs
    /\ applied \in [Runs -> SUBSET Changes]
    /\ performed \in [Runs -> SUBSET Steps]
    /\ ranUnder \in [Runs -> SUBSET Configs]
    /\ regressed \in [Runs -> 0..Length]

Executed(m) == {k \in 1..Len(m.steps) : Counts(m.steps[k])}

\* Whatever was interrupted and wherever, the history of a run is one that a
\* later _completed_prefix accepts: resume never refuses, as completed out of
\* order, a manifest this program wrote (service.py 534-558, runner.py 84-187).
HistoryResumable ==
    \A r \in 1..Current : \E d \in 0..Length : CompletedPrefix(disk[r], d)

\* last_successful_step and failed_step locate the run in its plan: a failure is
\* the step after the last success of a real run, a finished run's last success
\* is the plan's last step, and the manifest of a run that was cut short is
\* behind its own results by one step at most.
PositionLocatesRun ==
    \A r \in 1..Current :
        LET m == disk[r] IN
        /\ m.status = "UPDATE_FAILED_PRESERVED" =>
              /\ m.failed = Len(m.steps) /\ m.steps[m.failed] = "FAILED"
              /\ m.last < m.failed
              /\ ~ m.dry_run => m.last = m.failed - 1
        /\ m.status = "EXECUTED" => m.failed = 0 /\ m.last = Length
        /\ m.status = "RUNNING" /\ ~ m.dry_run =>
              m.failed = 0 /\ m.last \in {Len(m.steps) - 1, Len(m.steps)}

\* A step any durable history reports as executed was really performed, and what
\* it left for later steps to work from (recovery_data) is in that same manifest.
RecordsAreTrue ==
    \A r \in 1..Current :
        Executed(disk[r]) \subseteq performed[disk[r].origin] \cap disk[r].recovery

\* A run reported EXECUTED has performed the whole plan, over all its resumes.
SuccessIsComplete ==
    \A r \in 1..Current :
        disk[r].status = "EXECUTED" =>
            /\ ~ disk[r].dry_run
            /\ performed[disk[r].origin] = Steps

RealStep(k) == AtStep(k) /\ ~ manifest.dry_run

\* While no process dies, a real step starts from the files that the earlier steps
\* of its plan left: none was undone or overtaken since, by another run or by hand.
\* If only the newest run is ever resumed, the same is true of the database, which
\* the fingerprint compared on resume leaves out (filesystem.py 18-33).
OnOwnPrefix ==
    \A k \in Steps :
        RealStep(k) => {j \in Answered : j < k} \subseteq applied[manifest.origin]

\* While no process dies, no real step starts after a change of files that worsened
\* the health of the installation beyond what its step tolerates, unless that step
\* was repeated or the installation is healthy again.  If only the newest run is
\* ever resumed, the same is true of every change.
NeverPastARegression ==
    \A k \in Steps :
        RealStep(k) /\ regressed[manifest.origin] # 0 /\ proc.before # "HEALTHY" =>
            k <= regressed[manifest.origin]

\* All the changes of a lineage were made under one critical configuration.
OneConfiguration ==
    \A l \in Runs, c, d \in Configs : {c, d} \subseteq ranUnder[l] => c = d

\* A dry-run touches nothing of the destination and earns no step.
DryRunIsInert ==
    [][manifest.dry_run /\ proc.pc # "idle"
         => /\ UNCHANGED <<applied, performed>>
            /\ matching \subseteq matching']_vars

\* Whenever a run is open, all of them are eventually closed with a final status.
Settles ==
    (\E r \in 1..Current : disk[r].status = "RUNNING")
        ~> (\A r \in 1..Current : disk[r].status # "RUNNING")

\* The steps reported by some manifest of a lineage.
RecordedOf(l) ==
    UNION {Executed(disk[r]) : r \in {s \in 1..Current : disk[s].origin = l}}

Ordered ==
    INSTANCE OrderedSteps WITH
        Lineage <- Runs, StepCount <- Length,
        done <- performed, recorded <- [l \in Runs |-> RecordedOf(l)]

\* The runs and resumes of the code keep the promise of OrderedSteps.
KeepsOrder == Ordered!OrderedSpec

\* However runs are cut short, the durable histories of a lineage miss at most
\* one performed step.
AtMostOneUnrecorded == Ordered!AtMostOneUnrecorded

=============================================================================

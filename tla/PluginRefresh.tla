--------------------------- MODULE PluginRefresh ---------------------------
(***************************************************************************)
(* The refresh of managed plugins (infrastructure/managed_plugins.py) by   *)
(* runs and resumes of one installation: what becomes of each plugin's     *)
(* directory, of the local work found in it, and of the list a resume      *)
(* reconciles with plugins.yaml.  A run is reduced to this one step, done  *)
(* or not; module Pipeline has the runner in full.                         *)
(*                                                                         *)
(* target, aside and disk survive the process; config, upstream and        *)
(* enclosed are its surroundings; run and proc its memory.  made, unseen,  *)
(* late and mishaps only record what happened, for the properties.         *)
(***************************************************************************)
EXTENDS Integers, Sequences, FiniteSets

CONSTANTS
    Slugs,         \* directories below wp-content/plugins
    Lists,         \* the lists plugins.yaml may hold
    Work,          \* pieces of local work
    MaxVersion,    \* bound: how far the remote branch is ahead of the oldest checkout
    MaxRuns,       \* bound: how many runs are ever created
    MaxFaults,     \* bound: how many moves and removals ever fail
    Crashes        \* bound: may the process die abruptly?

Strategy == {"replace_from_git", "update_from_git"}
Policy == {"abort", "skip", "stash"}
Plugin == [slug: Slugs, strategy: Strategy, policy: Policy]

Runs == 1..MaxRuns

ASSUME ListsAssumption == Lists \subseteq Seq(Plugin) /\ Lists # {}
ASSUME BoundAssumption ==
    /\ MaxVersion \in Nat \ {0} /\ MaxRuns \in Nat \ {0} /\ MaxFaults \in Nat
    /\ Crashes \in BOOLEAN

VARIABLES
    target,     \* slug -> the directory of the plugin, if there is one
    aside,      \* slug -> run -> the directory that run moved aside, if any
    config,     \* the list in plugins.yaml
    upstream,   \* the version on the configured branch of the remotes
    enclosed,   \* is the plugins directory ignored inside a larger Git work tree?
    disk,       \* the manifest of every created run, in order of creation
    matching,   \* the runs whose fingerprint is that of the present files
    run,        \* the manifest in the memory of the process
    proc,       \* where the process is
    made,       \* slug -> the local work ever done there
    unseen,     \* slug -> work out of sight of git status: committed, only stashed, unversioned
    late,       \* work done while a run was under way
    mishaps     \* what has gone wrong so far: [crashed, faults]

places == <<target, aside>>
surroundings == <<config, upstream, enclosed>>
history == <<made, unseen, late>>
vars == <<places, surroundings, disk, matching, run, proc, history, mishaps>>

\* A plugin's directory.  git: is it a checkout of its own?  files, commits, stash:
\* the local work in its files, in its own commits, in its stash.
Checkout ==
    [version: 0..MaxVersion, whole: BOOLEAN, git: BOOLEAN,
     files: SUBSET Work, commits: SUBSET Work, stash: SUBSET Work]

Cloned ==
    [version |-> upstream, whole |-> TRUE, git |-> TRUE,
     files |-> {}, commits |-> {}, stash |-> {}]

\* stashed: the work in the stash that the message names.
Result ==
    [slug: Slugs, status: {"PLANNED", "REFRESHED", "SKIPPED", "FAILED_PRESERVED"},
     stashed: SUBSET Work]

ManagedPluginChanges ==
    [added: SUBSET Plugin, removed: SUBSET Plugin, changed: SUBSET (Plugin \X Plugin)]

\* failed: failed_step is managed_plugin_refresh.  done: that step counts as completed.
\* printed: it has a fingerprint.
Manifest ==
    [status: {"RUNNING", "EXECUTED", "VALIDATED", "UPDATE_FAILED_PRESERVED"},
     original: Runs, list: Seq(Plugin), results: Seq(Result),
     changes: SUBSET ManagedPluginChanges, failed: BOOLEAN, done: BOOLEAN, printed: BOOLEAN]

Current == Len(disk)
Item == run.list[proc.at]
Slug == Item.slug
Found == target[Slug]
Put(s, places_) == [target EXCEPT ![s] = places_]
MovedAside == aside[Slug][Current]

Idle == [pc |-> "idle", at |-> 1, results |-> <<>>, staging |-> {}, stashed |-> {},
         broken |-> FALSE, outcome |-> "PLANNED", before |-> {}]

NoRun ==
    [status |-> "RUNNING", original |-> 1, list |-> <<>>, results |-> <<>>, changes |-> {},
     failed |-> FALSE, done |-> FALSE, printed |-> FALSE]

-----------------------------------------------------------------------------
(***************************************************************************)
(* Decisions of the code.  A slip is a wrong version of the next operator, *)
(* there only to show that a property notices.                             *)
(***************************************************************************)

\* Slip: untracked files not asked for.
TrackedOnly(c) == IF c.git THEN ~ c.whole ELSE ~ enclosed
\* _dirty_reason of a directory: what git status says in it.  Git answers for the
\* work tree around it where the directory has none of its own.
Dirty(c) == IF c.git THEN c.files # {} \/ ~ c.whole ELSE ~ enclosed

\* Slip: the name of the policy for the one of the status.
PreservedAsSkip(policy) == IF policy = "skip" THEN "skip" ELSE "FAILED_PRESERVED"
\* What a dirty or unverifiable directory is answered with, without touching it.
Preserved(policy) == IF policy = "skip" THEN "SKIPPED" ELSE "FAILED_PRESERVED"

Named(list) == {list[i] : i \in DOMAIN list}

\* _managed_plugin_changes
Changes(original, current) ==
    [added |-> {p \in Named(current) : \A o \in Named(original) : o.slug # p.slug},
     removed |-> {o \in Named(original) : \A p \in Named(current) : o.slug # p.slug},
     changed |-> {pair \in Named(original) \X Named(current) :
                     pair[1].slug = pair[2].slug /\ pair[1] # pair[2]}]

\* Slip: the comparison read backwards.
ReconciledBackwards(r) == Changes(config, disk[disk[r].original].list)
Reconciled(r) == Changes(disk[disk[r].original].list, config)

\* The list is reconciled when the failure was in this very step.
Reconciles(r) == disk[r].failed

Planned(list) ==
    [i \in DOMAIN list |-> [slug |-> list[i].slug, status |-> "PLANNED", stashed |-> {}]]

\* git stash push --include-untracked
Stashed(c) == [c EXCEPT !.files = {}, !.whole = TRUE, !.stash = @ \cup c.files]

\* Slip: the message names no stash.
Unnamed(status, stashed) == [slug |-> Slug, status |-> status, stashed |-> {}]
Answer(status, stashed) == [slug |-> Slug, status |-> status, stashed |-> stashed]

\* What an interrupted rmtree may leave of a directory, with .git or without it.
Remains(c) ==
    {c} \cup {[c EXCEPT !.whole = FALSE, !.files = files] : files \in SUBSET c.files}
        \cup {[c EXCEPT !.whole = FALSE, !.git = FALSE, !.files = files,
                 !.commits = {}, !.stash = {}] : files \in SUBSET c.files}

\* fingerprint: what git keeps in .git is not part of it.
Visible(c) == [version |-> c.version, whole |-> c.whole, files |-> c.files \cup c.commits]
Fingerprint ==
    [s \in Slugs |->
        <<{Visible(c) : c \in target[s]}, {Visible(c) : c \in UNION {aside[s][r] : r \in Runs}}>>]
ResumeConsistent(r) == disk[r].printed => r \in matching

Closed(m) == [m EXCEPT !.status = "UPDATE_FAILED_PRESERVED", !.failed = TRUE, !.printed = TRUE]
Saved(m) == [disk EXCEPT ![Current] = m]

\* before: the files as the process found them.
Matched == matching' = (IF Fingerprint = proc.before THEN matching ELSE {}) \cup {Current}
Ended == run' = NoRun /\ proc' = Idle /\ Matched

-----------------------------------------------------------------------------
(***************************************************************************)
(* Runs, and what happens between them and beside them.                    *)
(***************************************************************************)

Init ==
    /\ enclosed \in BOOLEAN
    /\ \E kind \in {"missing", "clean", "unversioned"} :
          target = [s \in Slugs |->
              IF kind = "missing" THEN {}
              ELSE {[version |-> 1, whole |-> TRUE, git |-> kind = "clean",
                     files |-> {}, commits |-> {}, stash |-> {}]}]
    /\ aside = [s \in Slugs |-> [r \in Runs |-> {}]]
    /\ config \in Lists /\ upstream \in 1..MaxVersion
    /\ disk = <<>> /\ matching = {} /\ run = NoRun /\ proc = Idle
    /\ made = [s \in Slugs |-> {}] /\ unseen = made /\ late = {}
    /\ mishaps = [crashed |-> FALSE, faults |-> 0]

\* With no managed plugin the step succeeds at once.
First(m) == IF m.list = <<>> THEN "judge" ELSE "inspect"

\* A dry-run changes nothing and ends at once.
Begin(m, dry) ==
    /\ proc.pc = "idle" /\ Current < MaxRuns
    /\ IF dry
       THEN /\ disk' = Append(disk, [m EXCEPT !.status = "VALIDATED", !.printed = TRUE,
                                              !.results = Planned(m.list)])
            /\ matching' = matching \cup {Current + 1}
            /\ UNCHANGED <<run, proc>>
       ELSE /\ disk' = Append(disk, m)
            /\ run' = m
            /\ proc' = [Idle EXCEPT !.pc = First(m), !.before = Fingerprint]
            /\ UNCHANGED matching
    /\ UNCHANGED <<places, surroundings, history, mishaps>>

Execute(dry) ==
    Begin([NoRun EXCEPT !.original = Current + 1, !.list = config], dry)

Resume(r, dry) ==
    /\ ~ disk[r].done /\ ResumeConsistent(r)
    /\ Begin([disk[r] EXCEPT
                !.status = "RUNNING", !.printed = FALSE, !.failed = FALSE,
                !.list = IF Reconciles(r) THEN config ELSE @,
                !.changes = IF Reconciles(r) THEN {Reconciled(r)} ELSE @,
                !.results = IF Reconciles(r) THEN <<>> ELSE @], dry)

EditConfig(list) ==
    /\ proc.pc = "idle" /\ list # config
    /\ config' = list
    /\ UNCHANGED <<places, upstream, enclosed, disk, matching, run, proc, history, mishaps>>

\* Someone works on a plugin, even while a run is under way, and perhaps commits the
\* work without pushing it.
Edit(s, w, committed) ==
    /\ \A o \in Slugs : w \notin made[o]
    /\ \E c \in target[s] :
          /\ committed => c.git
          /\ target' = Put(s, {IF committed THEN [c EXCEPT !.commits = @ \cup {w}]
                                            ELSE [c EXCEPT !.files = @ \cup {w}]})
          /\ unseen' = [unseen EXCEPT ![s] =
                            IF committed \/ (~ c.git /\ enclosed) THEN @ \cup {w} ELSE @]
    /\ made' = [made EXCEPT ![s] = @ \cup {w}]
    /\ late' = IF proc.pc = "idle" THEN late ELSE late \cup {w}
    /\ matching' = {}
    /\ UNCHANGED <<aside, surroundings, disk, run, proc, mishaps>>

-----------------------------------------------------------------------------
(***************************************************************************)
(* The step.  Each action is the code between two moments at which a crash *)
(* leaves something different, or at which someone may edit the files.     *)
(***************************************************************************)

At(pc) == proc.pc = pc /\ UNCHANGED <<surroundings, disk, matching>>
Go(pc) == proc' = [proc EXCEPT !.pc = pc]
Quiet == UNCHANGED <<run, history, mishaps>>
Fault ==
    /\ mishaps.faults < MaxFaults
    /\ mishaps' = [mishaps EXCEPT !.faults = @ + 1]
    /\ UNCHANGED <<run, history>>

\* The answer for a plugin ends the refresh if it is a failure or the last one.
ReplyNaming(status, stashed) ==
    LET results == Append(proc.results, Answer(status, stashed))
        last == status = "FAILED_PRESERVED" \/ proc.at = Len(run.list)
    IN /\ proc' = [Idle EXCEPT !.before = proc.before,
                               !.pc = IF last THEN "judge" ELSE "inspect",
                               !.at = IF last THEN proc.at ELSE proc.at + 1,
                               !.results = results]
       /\ run' = IF last THEN [run EXCEPT !.results = results] ELSE run
       /\ UNCHANGED mishaps

Reply(status) == ReplyNaming(status, {}) /\ UNCHANGED history

\* Staging is removed whatever happened.
Discarding(status) == proc' = [proc EXCEPT !.pc = "discard", !.outcome = status]

\* The handler fails, or an exception leaves it: what was answered so far is lost.
Raises ==
    /\ disk' = Saved(Closed(run))
    /\ Ended
    /\ UNCHANGED <<places, surroundings, history, mishaps>>

\* The root is refused, or staging cannot be created.
Refused == proc.pc = "inspect" /\ Raises

AtPlugin == At("inspect")
Replaces == Item.strategy = "replace_from_git" \/ Found = {}

InspectionFails == AtPlugin /\ Reply("FAILED_PRESERVED") /\ UNCHANGED places

ReplaceRefused ==
    /\ AtPlugin /\ Replaces
    /\ \E c \in Found : Dirty(c)
    /\ Reply(Preserved(Item.policy))
    /\ UNCHANGED places

Clone ==
    /\ AtPlugin /\ Replaces
    /\ \A c \in Found : ~ Dirty(c)
    /\ proc' = [proc EXCEPT !.pc = "set aside", !.staging = {Cloned}]
    /\ UNCHANGED places /\ Quiet

CloneFails ==
    /\ AtPlugin /\ Replaces
    /\ \A c \in Found : ~ Dirty(c)
    /\ Discarding("FAILED_PRESERVED")
    /\ UNCHANGED places /\ Quiet

\* Slip: the former directory makes room by being removed.
SetAsideByRemoval ==
    /\ At("set aside")
    /\ target' = Put(Slug, {})
    /\ UNCHANGED aside
    /\ Go("install") /\ Quiet
SetAside ==
    /\ At("set aside")
    /\ aside' = [aside EXCEPT ![Slug][Current] = Found]
    /\ target' = Put(Slug, {})
    /\ Go("install") /\ Quiet

SetAsideFails ==
    /\ At("set aside") /\ Found # {}
    /\ Discarding("FAILED_PRESERVED")
    /\ UNCHANGED places /\ Fault

Install ==
    /\ At("install")
    /\ target' = Put(Slug, proc.staging)
    /\ UNCHANGED aside
    /\ IF MovedAside = {} THEN Reply("REFRESHED")
       ELSE proc' = [proc EXCEPT !.pc = "drop", !.staging = {}] /\ Quiet

InstallFails ==
    /\ At("install")
    /\ IF MovedAside = {} THEN Discarding("FAILED_PRESERVED") ELSE Go("restore")
    /\ UNCHANGED places /\ Fault

\* Slip: the former directory is left where it was set aside.
LeftAside == UNCHANGED places
\* The directory set aside takes its place again.
PutBack ==
    /\ target' = Put(Slug, MovedAside)
    /\ aside' = [aside EXCEPT ![Slug][Current] = {}]

Restore ==
    /\ At("restore") \/ At("put back")
    /\ PutBack
    /\ Discarding("FAILED_PRESERVED") /\ Quiet

RestoreFails ==
    /\ At("restore") \/ At("put back")
    /\ Discarding("FAILED_PRESERVED")
    /\ UNCHANGED places /\ Fault

Drop ==
    /\ At("drop")
    /\ aside' = [aside EXCEPT ![Slug][Current] = {}]
    /\ UNCHANGED target
    /\ Reply("REFRESHED")

DropFails ==
    /\ At("drop")
    /\ \E c \in MovedAside : \E left \in Remains(c) :
          aside' = [aside EXCEPT ![Slug][Current] = {left}]
    /\ UNCHANGED target
    /\ Go("take out") /\ Fault

\* The new tree goes back to staging, to make room for the former one.
TakeOut ==
    /\ At("take out")
    /\ proc' = [proc EXCEPT !.pc = "put back", !.staging = Found]
    /\ target' = Put(Slug, {})
    /\ UNCHANGED aside /\ Quiet

TakeOutFails ==
    /\ At("take out")
    /\ Discarding("FAILED_PRESERVED")
    /\ UNCHANGED places /\ Fault

Discard ==
    /\ At("discard")
    /\ Reply(proc.outcome)
    /\ UNCHANGED places

DiscardFails ==
    /\ proc.pc = "discard" /\ mishaps.faults < MaxFaults
    /\ disk' = Saved(Closed(run))
    /\ Ended
    /\ mishaps' = [mishaps EXCEPT !.faults = @ + 1]
    /\ UNCHANGED <<places, surroundings, history>>

\* update_from_git of an existing directory.
Updates == AtPlugin /\ ~ Replaces
Unclean(c) == c.files # {} \/ ~ c.whole

UpdateRefused ==
    /\ Updates
    /\ \E c \in Found : c.git => Unclean(c) /\ Item.policy # "stash"
    /\ Reply(Preserved(Item.policy))
    /\ UNCHANGED places

StashNothing ==
    /\ Updates
    /\ \E c \in Found : c.git /\ ~ Unclean(c)
    /\ Go("fetch")
    /\ UNCHANGED places /\ Quiet

NowUnseen(work) ==
    /\ unseen' = [unseen EXCEPT ![Slug] = @ \cup work]
    /\ UNCHANGED <<made, late>>

Stash ==
    /\ Updates /\ Item.policy = "stash"
    /\ \E c \in Found :
          /\ c.git /\ Unclean(c)
          /\ target' = Put(Slug, {Stashed(c)})
          /\ proc' = [proc EXCEPT !.pc = "fetch", !.stashed = c.files, !.broken = ~ c.whole]
          /\ NowUnseen(c.files)
    /\ UNCHANGED <<aside, run, mishaps>>

\* The push fails, or what it left cannot be verified: the message sends to refs/stash.
StashFails ==
    /\ Updates /\ Item.policy = "stash"
    /\ \E c \in Found : c.git /\ Unclean(c) /\
          \/ /\ target' = Put(Slug, {Stashed(c)})
             /\ ReplyNaming("FAILED_PRESERVED", c.files) /\ NowUnseen(c.files)
          \/ Reply("FAILED_PRESERVED") /\ UNCHANGED target
    /\ UNCHANGED aside

Merged(c) == [c EXCEPT !.version = upstream]
CanFastForward(c) == c.commits = {} \/ c.version = upstream
HasStash == proc.stashed # {} \/ proc.broken

Fetch ==
    /\ At("fetch")
    /\ \E c \in Found : CanFastForward(c) /\ target' = Put(Slug, {Merged(c)})
    /\ UNCHANGED aside
    /\ IF HasStash THEN Go("apply") /\ Quiet ELSE Reply("REFRESHED")

\* The fetch or the merge fails, or the revision cannot be read after them.
FetchFails ==
    /\ At("fetch")
    /\ target' \in {target} \cup {Put(Slug, {Merged(c)}) : c \in {c \in Found : CanFastForward(c)}}
    /\ UNCHANGED <<aside, history>>
    /\ ReplyNaming("FAILED_PRESERVED", proc.stashed)

\* The stash in the files again, but kept.
Reapplied ==
    /\ \E c \in Found :
          target' = Put(Slug, {[c EXCEPT !.files = @ \cup proc.stashed, !.whole = @ /\ ~ proc.broken]})
    /\ unseen' = [unseen EXCEPT ![Slug] = @ \ proc.stashed]
    /\ UNCHANGED <<made, late>>

Apply ==
    /\ At("apply") /\ Reapplied
    /\ ReplyNaming("REFRESHED", proc.stashed)
    /\ UNCHANGED aside

\* A conflict leaves nothing or everything of the stash in the files.
ApplyFails ==
    /\ At("apply")
    /\ Reapplied \/ UNCHANGED <<target, history>>
    /\ ReplyNaming("FAILED_PRESERVED", proc.stashed)
    /\ UNCHANGED aside

-----------------------------------------------------------------------------
(***************************************************************************)
(* The end of a run.                                                       *)
(***************************************************************************)

Succeeded == \A i \in DOMAIN run.results : run.results[i].status # "FAILED_PRESERVED"

JudgeContinues ==
    /\ proc.pc = "judge" /\ Succeeded
    /\ disk' = Saved([run EXCEPT !.status = "EXECUTED", !.done = TRUE, !.printed = TRUE])
    /\ Ended
    /\ UNCHANGED <<places, surroundings, history, mishaps>>

\* The step failed, or the health of the installation is worse than before it.
JudgeStops == proc.pc = "judge" /\ Raises

\* A step of the run before this one fails.
StopsEarlier ==
    /\ proc.pc = "inspect" /\ proc.at = 1
    /\ disk' = Saved([Closed(run) EXCEPT !.failed = FALSE])
    /\ Ended
    /\ UNCHANGED <<places, surroundings, history, mishaps>>

\* Between the step and its verdict, its result may have been saved.
Crash ==
    /\ Crashes /\ proc.pc # "idle"
    /\ disk' \in {disk} \cup
          (IF proc.pc = "judge" THEN {Saved([run EXCEPT !.done = Succeeded])} ELSE {})
    /\ Ended
    /\ mishaps' = [mishaps EXCEPT !.crashed = TRUE]
    /\ UNCHANGED <<places, surroundings, history>>

Replacing ==
    \/ ReplaceRefused \/ Clone \/ CloneFails \/ SetAside \/ SetAsideFails
    \/ Install \/ InstallFails \/ Restore \/ RestoreFails
    \/ Drop \/ DropFails \/ TakeOut \/ TakeOutFails \/ Discard \/ DiscardFails
Updating ==
    \/ UpdateRefused \/ StashNothing \/ Stash \/ StashFails
    \/ Fetch \/ FetchFails \/ Apply \/ ApplyFails
Operator ==
    \/ \E dry \in BOOLEAN : Execute(dry) \/ \E r \in 1..Current : Resume(r, dry)
    \/ \E list \in Lists : EditConfig(list)
    \/ \E s \in Slugs, w \in Work, committed \in BOOLEAN : Edit(s, w, committed)

Next ==
    \/ Operator
    \/ Refused \/ InspectionFails \/ Replacing \/ Updating
    \/ JudgeContinues \/ JudgeStops \/ StopsEarlier \/ Crash

Spec == Init /\ [][Next]_vars

-----------------------------------------------------------------------------
(***************************************************************************)
(* Properties.                                                             *)
(***************************************************************************)

\* Types.
TypeOK ==
    /\ target \in [Slugs -> SUBSET Checkout]
    /\ \A s \in Slugs : Cardinality(target[s]) <= 1
    /\ aside \in [Slugs -> [Runs -> SUBSET Checkout]]
    /\ disk \in Seq(Manifest) /\ run \in Manifest
    /\ proc.results \in Seq(Result)
    /\ made \in [Slugs -> SUBSET Work] /\ unseen \in [Slugs -> SUBSET Work] /\ late \subseteq Work

\* Everything there is on disk of the local work done on a plugin.
Kept(s) ==
    UNION {c.files \cup c.commits \cup c.stash : c \in target[s] \cup UNION {aside[s][r] : r \in Runs}}

\* Local work disappears only if git status did not show it (it had been committed
\* or stashed, or has no repository of its own), or if it was done under a run's
\* feet: whatever list, policy, failure, crash or retry (managed_plugins.py 62-82,
\* 223-246, 317-343).
VisibleWorkIsKept == \A s \in Slugs : made[s] \subseteq Kept(s) \cup unseen[s] \cup late

\* Once no run is under way, work that is only in a stash was put there by a run
\* that said so in its manifest, unless a process died (managed_plugins.py 287-292).
StashIsReported ==
    proc.pc = "idle" /\ ~ mishaps.crashed =>
        \A s \in Slugs : \A c \in target[s] : \A w \in c.stash \ c.files :
            \E r \in 1..Current : \E i \in DOMAIN disk[r].results :
                disk[r].results[i].slug = s /\ w \in disk[r].results[i].stashed

\* While no move or removal has failed there is always a whole copy of a plugin that
\* had one, in its place or set aside, wherever the process dies (managed_plugins.py
\* 324-337).
Copies(s) == target[s] \cup UNION {aside[s][r] : r \in Runs}
WholeCopyStays ==
    [][\A s \in Slugs :
          (\E c \in Copies(s) : c.whole) /\ mishaps'.faults = 0
              => (\E c \in Copies(s) : c.whole)']_vars

\* One failed move or removal never leaves a former directory set aside and none in its
\* place: that takes a second failure, or a crash (managed_plugins.py 328-343).
DirectoryIsBack ==
    proc.pc = "idle" /\ mishaps.faults <= 1 /\ ~ mishaps.crashed =>
        \A s \in Slugs : Copies(s) # {} => target[s] # {}

\* What a manifest says of its plugins is what separates its list from the one of the
\* original run, through any chain of resumes, dry or real (service.py 379-398).
ChangesAreTrue ==
    \A r \in 1..Current :
        IF disk[r].changes = {} THEN disk[r].list = disk[disk[r].original].list
        ELSE disk[r].changes = {Changes(disk[disk[r].original].list, disk[r].list)}

=============================================================================

---------------------------- MODULE PluginProofs ----------------------------
(***************************************************************************)
(* Proofs about PluginRefresh, for every set of plugins, every list, every *)
(* number of runs, failures and pieces of work.                            *)
(***************************************************************************)
EXTENDS PluginRefresh, SequenceTheorems, FiniteSetTheorems, TLAPS

-----------------------------------------------------------------------------
(***************************************************************************)
(* Types.                                                                  *)
(***************************************************************************)

\* At most one element.
Single(S) == \A a, b \in S : a = b

Status == {"PLANNED", "REFRESHED", "SKIPPED", "FAILED_PRESERVED"}

\* TypeOK in parts, with what it needs to be inductive: the process is at an item of its
\* list, and what it keeps in staging is one checkout.
Directories ==
    /\ target \in [Slugs -> SUBSET Checkout]
    /\ \A s \in Slugs : Single(target[s])
    /\ aside \in [Slugs -> [Runs -> SUBSET Checkout]]
    /\ \A s \in Slugs, r \in Runs : Single(aside[s][r])
Surroundings == config \in Lists /\ upstream \in 1..MaxVersion /\ enclosed \in BOOLEAN
Books == disk \in Seq(Manifest) /\ Current <= MaxRuns /\ run \in Manifest
Memory ==
    /\ DOMAIN proc = {"pc", "at", "results", "staging", "stashed", "broken", "outcome", "before"}
    /\ proc.at \in Nat
    /\ proc.results \in Seq(Result)
    /\ proc.staging \in SUBSET Checkout /\ Single(proc.staging)
    /\ proc.stashed \in SUBSET Work /\ proc.broken \in BOOLEAN
    /\ proc.outcome \in Status
    /\ proc.pc # "idle" => Current \in Runs
    /\ proc.pc \notin {"idle", "judge"} => proc.at \in DOMAIN run.list
Local ==
    /\ made \in [Slugs -> SUBSET Work] /\ unseen \in [Slugs -> SUBSET Work]
    /\ late \in SUBSET Work

Typed == Directories /\ Surroundings /\ Books /\ Memory /\ Local

\* What the assumptions on the constants amount to.
LEMMA ConstantTypes ==
    /\ MaxRuns \in Nat \ {0} /\ MaxVersion \in Nat \ {0}
    /\ \A list \in Lists : list \in Seq(Plugin)
  BY ListsAssumption, BoundAssumption

\* A manifest and its fields.
LEMMA ManifestFields ==
  ASSUME NEW m \in Manifest
  PROVE  /\ m.list \in Seq(Plugin) /\ m.results \in Seq(Result)
         /\ m.original \in Runs /\ m.changes \in SUBSET ManagedPluginChanges
         /\ m.failed \in BOOLEAN /\ m.done \in BOOLEAN /\ m.printed \in BOOLEAN
  BY DEF Manifest

\* The manifest of no run.
LEMMA NoRunTyped == NoRun \in Manifest
  <1>1. <<>> \in Seq(Plugin) /\ <<>> \in Seq(Result) /\ 1 \in Runs
    BY ConstantTypes, EmptySeq DEF Runs
  <1> QED BY <1>1 DEF NoRun, Manifest

\* No process.
LEMMA IdleTyped ==
  ASSUME NEW before, NEW results \in Seq(Result), NEW pc, NEW at \in Nat
  PROVE  LET p == [Idle EXCEPT !.before = before, !.pc = pc, !.at = at, !.results = results]
         IN /\ DOMAIN p = {"pc", "at", "results", "staging", "stashed", "broken", "outcome", "before"}
            /\ p.pc = pc /\ p.at = at /\ p.results = results
            /\ p.staging \in SUBSET Checkout /\ Single(p.staging)
            /\ p.stashed \in SUBSET Work /\ p.broken \in BOOLEAN /\ p.outcome \in Status
            /\ p.before = before
  BY DEF Idle, Single, Status

\* A manifest saved in the place of the current one.
LEMMA SavedTyped ==
  ASSUME Books, Current \in Runs, NEW m \in Manifest
  PROVE  /\ Saved(m) \in Seq(Manifest) /\ Len(Saved(m)) = Current
         /\ \A r \in 1..Current : Saved(m)[r] = IF r = Current THEN m ELSE disk[r]
  BY ConstantTypes, ExceptSeq, LenProperties DEF Saved, Books, Current, Runs

\* A process that goes on, at the same item.
LEMMA GoesOn ==
  ASSUME Memory, Books, proc.pc \notin {"idle", "judge"},
         DOMAIN proc' = DOMAIN proc,
         proc'.at = proc.at, proc'.results = proc.results, proc'.pc \notin {"idle", "judge"},
         proc'.staging \in SUBSET Checkout, Single(proc'.staging),
         proc'.stashed \in SUBSET Work, proc'.broken \in BOOLEAN, proc'.outcome \in Status,
         run' = run, disk' = disk
  PROVE  Memory' /\ Books'
  BY DEF Memory, Books, Current, Runs

LEMMA GoTyped ==
  ASSUME Memory, Books, proc.pc \notin {"idle", "judge"},
         NEW pc \in {"set aside", "install", "restore", "drop", "take out", "put back", "fetch", "apply"},
         Go(pc), run' = run, disk' = disk
  PROVE  Memory' /\ Books'
  <1>1. /\ DOMAIN proc' = DOMAIN proc /\ proc'.pc = pc /\ proc'.at = proc.at
        /\ proc'.results = proc.results /\ proc'.staging = proc.staging
        /\ proc'.stashed = proc.stashed /\ proc'.broken = proc.broken
        /\ proc'.outcome = proc.outcome
    BY DEF Go, Memory
  <1>2. proc'.pc \notin {"idle", "judge"}
    BY <1>1
  <1>3. proc'.staging \in SUBSET Checkout /\ Single(proc'.staging)
    BY <1>1 DEF Memory
  <1>4. proc'.stashed \in SUBSET Work /\ proc'.broken \in BOOLEAN /\ proc'.outcome \in Status
    BY <1>1 DEF Memory
  <1> QED BY <1>1, <1>2, <1>3, <1>4, GoesOn

LEMMA DiscardingTyped ==
  ASSUME Memory, Books, proc.pc \notin {"idle", "judge"},
         NEW status \in Status, Discarding(status), run' = run, disk' = disk
  PROVE  Memory' /\ Books'
  <1>1. /\ DOMAIN proc' = DOMAIN proc /\ proc'.pc = "discard" /\ proc'.at = proc.at
        /\ proc'.results = proc.results /\ proc'.staging = proc.staging
        /\ proc'.stashed = proc.stashed /\ proc'.broken = proc.broken
        /\ proc'.outcome = status
    BY DEF Discarding, Memory
  <1>2. proc'.pc \notin {"idle", "judge"}
    BY <1>1
  <1>3. proc'.staging \in SUBSET Checkout /\ Single(proc'.staging)
    BY <1>1 DEF Memory
  <1>4. proc'.stashed \in SUBSET Work /\ proc'.broken \in BOOLEAN /\ proc'.outcome \in Status
    BY <1>1 DEF Memory
  <1> QED BY <1>1, <1>2, <1>3, <1>4, GoesOn

\* The item the process is at.
LEMMA ItemTyped ==
  ASSUME Memory, Books, proc.pc \notin {"idle", "judge"}
  PROVE  /\ Item \in Plugin /\ Slug \in Slugs /\ Current \in Runs
         /\ proc.at \in 1..Len(run.list)
  <1>1. run.list \in Seq(Plugin)
    BY ManifestFields DEF Books
  <1>2. proc.at \in 1..Len(run.list)
    BY <1>1, LenProperties DEF Memory
  <1>3. Item \in Plugin
    BY <1>1, <1>2, ElementOfSeq DEF Item
  <1> QED BY <1>2, <1>3 DEF Plugin, Slug, Memory

\* An answer for a plugin.
LEMMA ReplyTyped ==
  ASSUME Memory, Books, proc.pc \notin {"idle", "judge"},
         NEW status \in Status, NEW stashed \in SUBSET Work,
         ReplyNaming(status, stashed), disk' = disk
  PROVE  Memory' /\ Books'
  <1> DEFINE results == Append(proc.results, Answer(status, stashed))
             last == status = "FAILED_PRESERVED" \/ proc.at = Len(run.list)
             at == IF last THEN proc.at ELSE proc.at + 1
             pc == IF last THEN "judge" ELSE "inspect"
  <1>1. Answer(status, stashed) \in Result
    BY ItemTyped DEF Answer, Result, Status
  <1>2. results \in Seq(Result)
    BY <1>1, AppendProperties DEF Memory
  <1>3. at \in Nat
    BY DEF Memory
  <1>4. run.list \in Seq(Plugin) /\ Len(run.list) \in Nat
    BY ManifestFields, LenProperties DEF Books
  <1>5. ~ last => at \in DOMAIN run.list
    BY <1>4, ItemTyped, LenProperties
  <1>6. /\ proc' = [Idle EXCEPT !.before = proc.before, !.pc = pc, !.at = at, !.results = results]
        /\ run' = IF last THEN [run EXCEPT !.results = results] ELSE run
    BY DEF ReplyNaming
  <1> HIDE DEF results, at
  <1>7. run' \in Manifest /\ run'.list = run.list
    BY <1>2, <1>6 DEF Books, Manifest
  <1>8. Books'
    BY <1>7 DEF Books, Current
  <1> HIDE DEF last
  <1>9. /\ DOMAIN proc' = {"pc", "at", "results", "staging", "stashed", "broken", "outcome", "before"}
        /\ proc'.pc = pc /\ proc'.at = at /\ proc'.results = results
        /\ proc'.staging \in SUBSET Checkout /\ Single(proc'.staging)
        /\ proc'.stashed \in SUBSET Work /\ proc'.broken \in BOOLEAN /\ proc'.outcome \in Status
    BY <1>2, <1>3, <1>6, IdleTyped
  <1>10. Current' \in Runs
    BY ItemTyped DEF Current
  <1>11. proc'.pc \notin {"idle", "judge"} => proc'.at \in DOMAIN run'.list
    BY <1>5, <1>7, <1>9
  <1>12. Memory'
    BY <1>2, <1>3, <1>9, <1>10, <1>11 DEF Memory
  <1> QED BY <1>8, <1>12

\* The end of the process.
LEMMA EndedTyped ==
  ASSUME Memory, Books, proc.pc # "idle", Ended,
         NEW m \in Manifest, disk' = disk \/ disk' = Saved(m)
  PROVE  Memory' /\ Books'
  <1>1. Current \in Runs
    BY DEF Memory
  <1>2. disk' \in Seq(Manifest) /\ Len(disk') = Len(disk)
    BY <1>1, SavedTyped DEF Books, Current
  <1>3. run' = NoRun /\ proc' = Idle
    BY DEF Ended
  <1>4. Books'
    BY <1>2, <1>3, NoRunTyped DEF Books, Current
  <1>5. Memory'
    BY <1>3, EmptySeq DEF Memory, Idle, Single, Status
  <1> QED BY <1>4, <1>5

\* A manifest with which a run begins.
LEMMA BeginTyped ==
  ASSUME Typed, NEW m \in Manifest, NEW dry \in BOOLEAN, Begin(m, dry)
  PROVE  Memory' /\ Books'
  <1> DEFINE planned == Planned(m.list)
             closed == [m EXCEPT !.status = "VALIDATED", !.printed = TRUE, !.results = planned]
  <1>1. m.list \in Seq(Plugin)
    BY ManifestFields
  <1>2. planned \in Seq(Result)
    <2>1. Len(m.list) \in Nat /\ DOMAIN m.list = 1..Len(m.list)
      BY <1>1, LenProperties
    <2>2. \A i \in 1..Len(m.list) : m.list[i] \in Plugin
      BY <1>1, ElementOfSeq
    <2>3. \A i \in 1..Len(m.list) :
             [slug |-> m.list[i].slug, status |-> "PLANNED", stashed |-> {}] \in Result
      BY <2>2 DEF Result, Plugin
    <2>4. planned = [i \in 1..Len(m.list) |->
                        [slug |-> m.list[i].slug, status |-> "PLANNED", stashed |-> {}]]
      BY <2>1 DEF Planned
    <2> QED BY <2>1, <2>3, <2>4, IsASeq
  <1> HIDE DEF planned
  <1>3. closed \in Manifest
    BY <1>2 DEF Manifest
  <1>4. Current \in Nat /\ Current < MaxRuns
    BY LenProperties DEF Typed, Books, Begin, Current
  <1>5. \A x \in Manifest : Append(disk, x) \in Seq(Manifest) /\ Len(Append(disk, x)) = Current + 1
    BY AppendProperties DEF Typed, Books, Current
  <1>6. Current + 1 \in Runs
    BY <1>4, ConstantTypes DEF Runs
  <1>7. CASE dry
    <2>1. disk' = Append(disk, closed) /\ run' = run /\ proc' = proc /\ proc.pc = "idle"
      BY <1>7 DEF Begin, closed, planned
    <2>2. Books'
      BY <2>1, <1>3, <1>4, <1>5, ConstantTypes DEF Typed, Books, Current
    <2> QED BY <2>1, <2>2, <1>3, <1>5, <1>6 DEF Typed, Memory, Current
  <1>8. CASE ~ dry
    <2>1. /\ disk' = Append(disk, m) /\ run' = m
          /\ proc' = [Idle EXCEPT !.pc = First(m), !.before = Fingerprint]
      BY <1>8 DEF Begin
    <2>2. Books' /\ Current' \in Runs
      BY <2>1, <1>4, <1>5, <1>6, ConstantTypes DEF Books, Current
    <2>3. First(m) # "judge" => 1 \in DOMAIN m.list
      BY <1>1, EmptySeq, LenProperties DEF First
    <2>4. /\ DOMAIN proc' = {"pc", "at", "results", "staging", "stashed", "broken", "outcome", "before"}
          /\ proc'.pc = First(m) /\ proc'.at = 1 /\ proc'.results = <<>>
          /\ proc'.staging = {} /\ proc'.stashed = {} /\ proc'.broken \in BOOLEAN
          /\ proc'.outcome = "PLANNED"
      BY <2>1 DEF Idle
    <2>5. proc'.results \in Seq(Result)
      BY <2>4, EmptySeq
    <2>6. /\ proc'.staging \in SUBSET Checkout /\ Single(proc'.staging)
          /\ proc'.stashed \in SUBSET Work /\ proc'.broken \in BOOLEAN
          /\ proc'.outcome \in Status /\ proc'.at \in Nat
      BY <2>4 DEF Single, Status
    <2>7. proc'.pc \notin {"idle", "judge"} => proc'.at \in DOMAIN run'.list
      BY <2>1, <2>3, <2>4
    <2>8. Memory'
      BY <2>2, <2>4, <2>5, <2>6, <2>7 DEF Memory
    <2> QED BY <2>2, <2>8
  <1> QED BY <1>7, <1>8

\* The manifests of a run and of a resume.
LEMMA ExecuteTyped ==
  ASSUME Typed, NEW dry \in BOOLEAN, Execute(dry)
  PROVE  Memory' /\ Books'
  <1> DEFINE m == [NoRun EXCEPT !.original = Current + 1, !.list = config]
  <1>1. Current + 1 \in Runs
    BY LenProperties, ConstantTypes DEF Execute, Begin, Typed, Books, Current, Runs
  <1>2. config \in Seq(Plugin)
    BY ConstantTypes DEF Typed, Surroundings
  <1>3. m \in Manifest
    BY <1>1, <1>2, NoRunTyped DEF Manifest
  <1> QED BY <1>3, BeginTyped DEF Execute

\* The differences between two lists.
LEMMA ChangesTyped ==
  ASSUME NEW original \in Seq(Plugin), NEW current \in Seq(Plugin)
  PROVE  Changes(original, current) \in ManagedPluginChanges
  <1>1. Named(original) \subseteq Plugin /\ Named(current) \subseteq Plugin
    BY ElementOfSeq, LenProperties DEF Named
  <1> QED BY <1>1 DEF Changes, ManagedPluginChanges

\* The manifest a resume starts from.
ResumedFrom(r) ==
    [disk[r] EXCEPT
        !.status = "RUNNING", !.printed = FALSE, !.failed = FALSE,
        !.list = IF Reconciles(r) THEN config ELSE @,
        !.changes = IF Reconciles(r) THEN {Reconciled(r)} ELSE @,
        !.results = IF Reconciles(r) THEN <<>> ELSE @]

LEMMA ResumedFields ==
  ASSUME Books, Surroundings, NEW r \in 1..Current,
         disk[r].original \in 1..Current
  PROVE  /\ ResumedFrom(r) \in Manifest
         /\ ResumedFrom(r).original = disk[r].original
         /\ ResumedFrom(r).list = IF disk[r].failed THEN config ELSE disk[r].list
         /\ ResumedFrom(r).changes =
                IF disk[r].failed THEN {Changes(disk[disk[r].original].list, config)}
                ELSE disk[r].changes
  <1>1. disk[r] \in Manifest /\ disk[disk[r].original] \in Manifest
    BY ElementOfSeq DEF Books, Current
  <1>2. config \in Seq(Plugin)
    BY ConstantTypes DEF Surroundings
  <1>3. Reconciled(r) = Changes(disk[disk[r].original].list, config)
    BY DEF Reconciled
  <1>4. Reconciled(r) \in ManagedPluginChanges
    BY <1>1, <1>2, <1>3, ManifestFields, ChangesTyped
  <1>5. <<>> \in Seq(Result)
    BY EmptySeq
  <1> HIDE DEF Reconciled
  <1>6. ResumedFrom(r) \in Manifest
    BY <1>1, <1>2, <1>4, <1>5 DEF ResumedFrom, Reconciles, Manifest
  <1>7. /\ ResumedFrom(r).original = disk[r].original
        /\ ResumedFrom(r).list = IF disk[r].failed THEN config ELSE disk[r].list
        /\ ResumedFrom(r).changes = IF disk[r].failed THEN {Reconciled(r)} ELSE disk[r].changes
    BY <1>1 DEF ResumedFrom, Reconciles, Manifest
  <1> QED BY <1>3, <1>6, <1>7

\* A directory of the plugin or of the run replaced by at most one checkout.
LEMMA DirectoriesMove ==
  ASSUME Directories, NEW s \in Slugs, NEW r \in Runs,
         NEW T \in SUBSET Checkout, Single(T), NEW A \in SUBSET Checkout, Single(A),
         target' = target \/ target' = Put(s, T),
         aside' = aside \/ aside' = [aside EXCEPT ![s][r] = A]
  PROVE  Directories'
  <1>1. target' \in [Slugs -> SUBSET Checkout] /\ \A o \in Slugs : Single(target'[o])
    BY DEF Directories, Put
  <1>2. CASE aside' = aside
    BY <1>1, <1>2 DEF Directories
  <1>3. CASE aside' = [aside EXCEPT ![s][r] = A]
    <2>1. aside \in [Slugs -> [Runs -> SUBSET Checkout]]
      BY DEF Directories
    <2>2. DOMAIN aside' = Slugs /\ aside' = [o \in Slugs |-> aside'[o]]
      BY <1>3, <2>1
    <2>3. \A o \in Slugs : aside'[o] = IF o = s THEN [aside[s] EXCEPT ![r] = A] ELSE aside[o]
      BY <1>3, <2>1
    <2>4. [aside[s] EXCEPT ![r] = A] \in [Runs -> SUBSET Checkout]
      BY <2>1
    <2>5. \A o \in Slugs : aside'[o] \in [Runs -> SUBSET Checkout]
      BY <2>1, <2>3, <2>4
    <2>6. aside' \in [Slugs -> [Runs -> SUBSET Checkout]]
      BY <2>2, <2>5
    <2>7. \A q \in Runs : [aside[s] EXCEPT ![r] = A][q] = IF q = r THEN A ELSE aside[s][q]
      BY <2>1
    <2>8. \A o \in Slugs, q \in Runs : Single(aside'[o][q])
      BY <2>3, <2>7 DEF Directories
    <2> QED BY <1>1, <2>6, <2>8 DEF Directories
  <1> QED BY <1>2, <1>3

LEMMA Nothing == {} \in SUBSET Checkout /\ Single({})
  BY DEF Single

\* A checkout and its fields.
LEMMA CheckoutFields ==
  ASSUME NEW c \in Checkout
  PROVE  /\ c.whole \in BOOLEAN /\ c.git \in BOOLEAN
         /\ c.files \in SUBSET Work /\ c.commits \in SUBSET Work /\ c.stash \in SUBSET Work
  BY DEF Checkout

\* What becomes of a checkout.
LEMMA CheckoutUpdates ==
  ASSUME Surroundings, NEW c \in Checkout, NEW work \in SUBSET Work, NEW whole \in BOOLEAN
  PROVE  /\ [c EXCEPT !.files = work] \in Checkout
         /\ [c EXCEPT !.commits = work] \in Checkout
         /\ [c EXCEPT !.files = work, !.whole = whole] \in Checkout
         /\ Stashed(c) \in Checkout /\ Merged(c) \in Checkout /\ Cloned \in Checkout
         /\ \A left \in Remains(c) :
               /\ left \in Checkout /\ left.files \subseteq c.files
               /\ left.commits \subseteq c.commits /\ left.stash \subseteq c.stash
  <1> DEFINE versions == 0..MaxVersion
  <1>1. Checkout = [version: versions, whole: BOOLEAN, git: BOOLEAN,
                    files: SUBSET Work, commits: SUBSET Work, stash: SUBSET Work]
    BY DEF Checkout
  <1>2. upstream \in versions
    BY ConstantTypes DEF Surroundings
  <1> HIDE DEF versions
  <1>3. Stashed(c) \in Checkout
    BY <1>1 DEF Stashed
  <1>4. Merged(c) \in Checkout /\ Cloned \in Checkout
    BY <1>1, <1>2 DEF Merged, Cloned
  <1>5. ASSUME NEW left \in Remains(c)
        PROVE  /\ left \in Checkout /\ left.files \subseteq c.files
               /\ left.commits \subseteq c.commits /\ left.stash \subseteq c.stash
    <2>1. CASE left = c
      BY <2>1, CheckoutFields
    <2>2. CASE \E files \in SUBSET c.files : left = [c EXCEPT !.whole = FALSE, !.files = files]
      BY <1>1, <2>2
    <2>3. CASE \E files \in SUBSET c.files :
             left = [c EXCEPT !.whole = FALSE, !.git = FALSE, !.files = files,
                       !.commits = {}, !.stash = {}]
      BY <1>1, <2>3
    <2> QED BY <2>1, <2>2, <2>3 DEF Remains
  <1>6. /\ [c EXCEPT !.files = work] \in Checkout
        /\ [c EXCEPT !.commits = work] \in Checkout
        /\ [c EXCEPT !.files = work, !.whole = whole] \in Checkout
    BY <1>1
  <1> QED BY <1>3, <1>4, <1>5, <1>6

\* What a step leaves of the books: results aside, the manifest is the same.
SameBook ==
    /\ proc.pc # "idle" /\ disk' = disk
    /\ run'.list = run.list /\ run'.original = run.original /\ run'.changes = run.changes

LEMMA ReplyBook ==
  ASSUME Books, proc.pc # "idle", disk' = disk, NEW status, NEW stashed,
         ReplyNaming(status, stashed)
  PROVE  SameBook
  <1>1. \/ run' = run
        \/ \E x : run' = [run EXCEPT !.results = x]
    BY DEF ReplyNaming
  <1> QED BY <1>1 DEF SameBook, Books, Manifest

\* What an action of the step does to places, memory and books, whichever it is.
StepTyped == Directories' /\ Memory' /\ Books' /\ Local' /\ SameBook

LEMMA QuietTyped ==
  ASSUME Typed, proc.pc # "idle", Directories', Memory', Books', disk' = disk,
         run' = run, UNCHANGED history
  PROVE  StepTyped
  BY DEF StepTyped, SameBook, history, Local, Typed

LEMMA AnswerTyped ==
  ASSUME Typed, proc.pc \notin {"idle", "judge"}, Directories', disk' = disk,
         NEW status \in Status, NEW stashed \in SUBSET Work,
         ReplyNaming(status, stashed), Local'
  PROVE  StepTyped
  BY ReplyTyped, ReplyBook DEF StepTyped, Typed

LEMMA PlacesKept ==
  ASSUME Typed, UNCHANGED places
  PROVE  Directories'
  BY DEF Typed, Directories, places

LEMMA HistoryKept ==
  ASSUME Typed, UNCHANGED history
  PROVE  Local'
  BY DEF Typed, Local, history

LEMMA ReplyQuiet ==
  ASSUME Typed, proc.pc \notin {"idle", "judge"}, UNCHANGED places, disk' = disk,
         NEW status \in Status, Reply(status)
  PROVE  StepTyped
  <1>1. Directories' /\ Local'
    BY PlacesKept, HistoryKept DEF Reply
  <1> QED BY <1>1, AnswerTyped DEF Reply

LEMMA PreservedStatus ==
  ASSUME NEW policy
  PROVE  Preserved(policy) \in Status
  BY DEF Preserved, Status

\* Each action that replaces a directory.
LEMMA ReplacingTyped ==
  ASSUME Typed, Replacing
  PROVE  StepTyped \/ DiscardFails
  <1> USE DEF At
  <1>1. CASE ReplaceRefused
    BY <1>1, ReplyQuiet, PreservedStatus DEF ReplaceRefused, AtPlugin
  <1>2. CASE Clone
    <2>1. /\ proc.pc = "inspect" /\ UNCHANGED places /\ disk' = disk
          /\ run' = run /\ UNCHANGED history
          /\ proc' = [proc EXCEPT !.pc = "set aside", !.staging = {Cloned}]
      BY <1>2 DEF Clone, AtPlugin, Quiet
    <2>2. \E s \in Slugs : TRUE
      BY <2>1, ItemTyped DEF Typed
    <2>3. Cloned \in Checkout
      <3>1. upstream \in 0..MaxVersion
        BY ConstantTypes DEF Typed, Surroundings
      <3> QED BY <3>1 DEF Cloned, Checkout
    <2>4. /\ DOMAIN proc' = DOMAIN proc /\ proc'.pc = "set aside" /\ proc'.at = proc.at
          /\ proc'.results = proc.results /\ proc'.staging = {Cloned}
          /\ proc'.stashed = proc.stashed /\ proc'.broken = proc.broken
          /\ proc'.outcome = proc.outcome
      BY <2>1 DEF Typed, Memory
    <2>5. proc'.staging \in SUBSET Checkout /\ Single(proc'.staging)
      BY <2>3, <2>4 DEF Single
    <2>6. proc'.stashed \in SUBSET Work /\ proc'.broken \in BOOLEAN /\ proc'.outcome \in Status
      BY <2>4 DEF Typed, Memory
    <2>7. proc'.pc \notin {"idle", "judge"} /\ proc.pc \notin {"idle", "judge"}
      BY <2>1, <2>4
    <2>8. Memory' /\ Books'
      BY <2>1, <2>4, <2>5, <2>6, <2>7, GoesOn DEF Typed
    <2> QED BY <2>1, <2>7, <2>8, PlacesKept, QuietTyped
  <1>3. ASSUME proc.pc \notin {"idle", "judge"}, UNCHANGED places, disk' = disk,
               run' = run, UNCHANGED history, Discarding("FAILED_PRESERVED")
        PROVE  StepTyped
    <2>1. Memory' /\ Books'
      BY <1>3, DiscardingTyped DEF Typed, Status
    <2> QED BY <1>3, <2>1, PlacesKept, QuietTyped
  <1>12. CASE CloneFails
    BY <1>3, <1>12 DEF CloneFails, AtPlugin, Quiet
  <1>13. CASE SetAsideFails
    BY <1>3, <1>13 DEF SetAsideFails, Fault
  <1>14. CASE TakeOutFails
    BY <1>3, <1>14 DEF TakeOutFails, Fault
  <1>15. CASE RestoreFails
    BY <1>3, <1>15 DEF RestoreFails, Fault
  <1>4. CASE SetAside
    <2>1. /\ proc.pc = "set aside" /\ disk' = disk /\ run' = run /\ UNCHANGED history
          /\ aside' = [aside EXCEPT ![Slug][Current] = Found] /\ target' = Put(Slug, {})
          /\ Go("install")
      BY <1>4 DEF SetAside, Quiet
    <2>2. Slug \in Slugs /\ Current \in Runs
      BY <2>1, ItemTyped DEF Typed
    <2>3. Found \in SUBSET Checkout /\ Single(Found)
      BY <2>2 DEF Found, Typed, Directories
    <2>4. Directories'
      BY <2>1, <2>2, <2>3, DirectoriesMove DEF Typed, Single
    <2>5. Memory' /\ Books'
      BY <2>1, GoTyped DEF Typed
    <2> QED BY <2>1, <2>4, <2>5, QuietTyped
  <1>5. CASE Install
    <2>1. /\ proc.pc = "install" /\ disk' = disk /\ UNCHANGED history
          /\ aside' = aside /\ target' = Put(Slug, proc.staging)
          /\ \/ Reply("REFRESHED")
             \/ proc' = [proc EXCEPT !.pc = "drop", !.staging = {}] /\ run' = run
      BY <1>5 DEF Install, Quiet, Reply
    <2>2. Slug \in Slugs /\ Current \in Runs
      BY <2>1, ItemTyped DEF Typed
    <2>3. Directories'
      BY <2>1, <2>2, DirectoriesMove DEF Typed, Memory
    <2>4. CASE Reply("REFRESHED")
      <3>1. Local' /\ ReplyNaming("REFRESHED", {})
        BY <2>1, <2>4, HistoryKept DEF Reply
      <3> QED BY <2>1, <2>3, <3>1, AnswerTyped DEF Status
    <2>5. CASE proc' = [proc EXCEPT !.pc = "drop", !.staging = {}] /\ run' = run
      <3>1. /\ DOMAIN proc' = DOMAIN proc /\ proc'.pc = "drop" /\ proc'.at = proc.at
            /\ proc'.results = proc.results /\ proc'.staging = {}
            /\ proc'.stashed = proc.stashed /\ proc'.broken = proc.broken
            /\ proc'.outcome = proc.outcome
        BY <2>5 DEF Typed, Memory
      <3>2. proc'.staging \in SUBSET Checkout /\ Single(proc'.staging)
        BY <3>1 DEF Single
      <3>3. proc'.stashed \in SUBSET Work /\ proc'.broken \in BOOLEAN /\ proc'.outcome \in Status
        BY <3>1 DEF Typed, Memory
      <3>4. proc'.pc \notin {"idle", "judge"} /\ proc.pc \notin {"idle", "judge"}
        BY <2>1, <3>1
      <3>5. Memory' /\ Books'
        BY <2>1, <2>5, <3>1, <3>2, <3>3, <3>4, GoesOn DEF Typed
      <3> QED BY <2>1, <2>3, <2>5, <3>4, <3>5, QuietTyped
    <2> QED BY <2>1, <2>4, <2>5
  <1>6. CASE InstallFails
    <2>1. /\ proc.pc = "install" /\ UNCHANGED places /\ disk' = disk
          /\ run' = run /\ UNCHANGED history
          /\ Discarding("FAILED_PRESERVED") \/ Go("restore")
      BY <1>6 DEF InstallFails, Fault
    <2>2. CASE Discarding("FAILED_PRESERVED")
      BY <1>3, <2>1, <2>2
    <2>3. CASE Go("restore")
      <3>1. Memory' /\ Books'
        BY <2>1, <2>3, GoTyped DEF Typed
      <3> QED BY <2>1, <3>1, PlacesKept, QuietTyped
    <2> QED BY <2>1, <2>2, <2>3
  <1>7. CASE Restore
    <2>1. /\ proc.pc \in {"restore", "put back"} /\ disk' = disk /\ run' = run /\ UNCHANGED history
          /\ target' = Put(Slug, MovedAside) /\ aside' = [aside EXCEPT ![Slug][Current] = {}]
          /\ Discarding("FAILED_PRESERVED")
      BY <1>7 DEF Restore, PutBack, Quiet
    <2>2. Slug \in Slugs /\ Current \in Runs
      BY <2>1, ItemTyped DEF Typed
    <2>3. MovedAside \in SUBSET Checkout /\ Single(MovedAside)
      BY <2>2 DEF MovedAside, Typed, Directories
    <2>4. Directories'
      BY <2>1, <2>2, <2>3, DirectoriesMove DEF Typed, Single
    <2>5. Memory' /\ Books'
      BY <2>1, DiscardingTyped DEF Typed, Status
    <2> QED BY <2>1, <2>4, <2>5, QuietTyped
  <1>8. CASE Drop
    <2>1. /\ proc.pc = "drop" /\ disk' = disk /\ UNCHANGED history
          /\ aside' = [aside EXCEPT ![Slug][Current] = {}] /\ target' = target
          /\ ReplyNaming("REFRESHED", {})
      BY <1>8 DEF Drop, Reply
    <2>2. Slug \in Slugs /\ Current \in Runs
      BY <2>1, ItemTyped DEF Typed
    <2>3. Directories'
      BY <2>1, <2>2, Nothing, DirectoriesMove DEF Typed
    <2> QED BY <2>1, <2>3, HistoryKept, AnswerTyped DEF Status
  <1>9. CASE DropFails
    <2>1. /\ proc.pc = "drop" /\ disk' = disk /\ run' = run /\ UNCHANGED history
          /\ target' = target /\ Go("take out")
      BY <1>9 DEF DropFails, Fault
    <2>2. PICK c \in MovedAside : \E left \in Remains(c) :
             aside' = [aside EXCEPT ![Slug][Current] = {left}]
      BY <1>9 DEF DropFails
    <2>3. PICK left \in Remains(c) : aside' = [aside EXCEPT ![Slug][Current] = {left}]
      BY <2>2
    <2>4. Slug \in Slugs /\ Current \in Runs
      BY <2>1, ItemTyped DEF Typed
    <2>5. c \in Checkout
      BY <2>4 DEF MovedAside, Typed, Directories
    <2>6. left \in Checkout
      BY <2>5, CheckoutUpdates DEF Typed
    <2>7. {left} \in SUBSET Checkout /\ Single({left})
      BY <2>6 DEF Single
    <2>8. Directories'
      BY <2>1, <2>3, <2>4, <2>7, Nothing, DirectoriesMove DEF Typed
    <2>9. Memory' /\ Books'
      BY <2>1, GoTyped DEF Typed
    <2> QED BY <2>1, <2>8, <2>9, QuietTyped
  <1>10. CASE TakeOut
    <2>1. /\ proc.pc = "take out" /\ disk' = disk /\ run' = run /\ UNCHANGED history
          /\ target' = Put(Slug, {}) /\ aside' = aside
          /\ proc' = [proc EXCEPT !.pc = "put back", !.staging = Found]
      BY <1>10 DEF TakeOut, Quiet
    <2>2. Slug \in Slugs /\ Current \in Runs
      BY <2>1, ItemTyped DEF Typed
    <2>3. Found \in SUBSET Checkout /\ Single(Found)
      BY <2>2 DEF Found, Typed, Directories
    <2>4. Directories'
      BY <2>1, <2>2, Nothing, DirectoriesMove DEF Typed
    <2>5. /\ DOMAIN proc' = DOMAIN proc /\ proc'.pc = "put back" /\ proc'.at = proc.at
          /\ proc'.results = proc.results /\ proc'.staging = Found
          /\ proc'.stashed = proc.stashed /\ proc'.broken = proc.broken
          /\ proc'.outcome = proc.outcome
      BY <2>1 DEF Typed, Memory
    <2>6. proc'.stashed \in SUBSET Work /\ proc'.broken \in BOOLEAN /\ proc'.outcome \in Status
      BY <2>5 DEF Typed, Memory
    <2>7. proc'.pc \notin {"idle", "judge"} /\ proc.pc \notin {"idle", "judge"}
      BY <2>1, <2>5
    <2>8. Memory' /\ Books'
      BY <2>1, <2>3, <2>5, <2>6, <2>7, GoesOn DEF Typed
    <2> QED BY <2>1, <2>4, <2>7, <2>8, QuietTyped
  <1>11. CASE Discard
    <2>1. proc.pc = "discard" /\ disk' = disk /\ Reply(proc.outcome) /\ UNCHANGED places
      BY <1>11 DEF Discard
    <2>2. proc.outcome \in Status
      BY DEF Typed, Memory
    <2> QED BY <2>1, <2>2, ReplyQuiet
  <1> HIDE DEF At
  <1> QED
    BY <1>1, <1>2, <1>3, <1>4, <1>5, <1>6, <1>7, <1>8, <1>9, <1>10, <1>11,
       <1>12, <1>13, <1>14, <1>15 DEF Replacing

\* The checkout the process is at, put in its place again in another state.
LEMMA FoundReplaced ==
  ASSUME Typed, proc.pc \notin {"idle", "judge"}, NEW c \in Checkout,
         target' = Put(Slug, {c}), aside' = aside
  PROVE  Directories'
  <1>1. Slug \in Slugs /\ Current \in Runs
    BY ItemTyped DEF Typed
  <1>2. {c} \in SUBSET Checkout /\ Single({c})
    BY DEF Single
  <1> QED BY <1>1, <1>2, Nothing, DirectoriesMove DEF Typed

LEMMA FoundTyped ==
  ASSUME Typed, proc.pc \notin {"idle", "judge"}
  PROVE  /\ Slug \in Slugs /\ Current \in Runs /\ Found \in SUBSET Checkout /\ Single(Found)
         /\ MovedAside \in SUBSET Checkout /\ Single(MovedAside)
  <1>1. Slug \in Slugs /\ Current \in Runs
    BY ItemTyped DEF Typed
  <1> QED BY <1>1 DEF Found, MovedAside, Typed, Directories

\* The work that has gone out of sight, or came back.
LEMMA UnseenTyped ==
  ASSUME Local, NEW s \in Slugs, NEW work \in SUBSET Work,
         unseen' = [unseen EXCEPT ![s] = work], UNCHANGED <<made, late>>
  PROVE  Local'
  BY DEF Local

\* The stash of the process in the files again.
LEMMA ReappliedTyped ==
  ASSUME Typed, proc.pc = "apply", Reapplied, aside' = aside
  PROVE  Directories' /\ Local'
  <1>1. PICK c \in Found :
           target' = Put(Slug, {[c EXCEPT !.files = @ \cup proc.stashed,
                                          !.whole = @ /\ ~ proc.broken]})
    BY DEF Reapplied
  <1>2. c \in Checkout /\ Slug \in Slugs
    BY FoundTyped
  <1>3. c.files \cup proc.stashed \in SUBSET Work /\ (c.whole /\ ~ proc.broken) \in BOOLEAN
    BY <1>2, CheckoutFields DEF Typed, Memory
  <1> DEFINE files == c.files \cup proc.stashed
             whole == c.whole /\ ~ proc.broken
             left == unseen[Slug] \ proc.stashed
  <1>4. target' = Put(Slug, {[c EXCEPT !.files = files, !.whole = whole]})
    BY <1>1
  <1>5. left \in SUBSET Work
    BY <1>2 DEF Typed, Local
  <1>6. unseen' = [unseen EXCEPT ![Slug] = left] /\ UNCHANGED <<made, late>>
    BY DEF Reapplied
  <1> HIDE DEF files, whole, left
  <1>7. [c EXCEPT !.files = files, !.whole = whole] \in Checkout
    BY <1>2, <1>3, CheckoutUpdates DEF Typed, files, whole
  <1> QED BY <1>2, <1>4, <1>5, <1>6, <1>7, FoundReplaced, UnseenTyped DEF Typed

\* Each action that updates a checkout.
LEMMA UpdatingTyped ==
  ASSUME Typed, Updating
  PROVE  StepTyped
  <1> USE DEF At
  <1>1. CASE UpdateRefused
    BY <1>1, ReplyQuiet, PreservedStatus DEF UpdateRefused, Updates, AtPlugin
  <1>2. CASE StashNothing
    <2>1. /\ proc.pc = "inspect" /\ UNCHANGED places /\ disk' = disk
          /\ run' = run /\ UNCHANGED history /\ Go("fetch")
      BY <1>2 DEF StashNothing, Updates, AtPlugin, Quiet
    <2>2. Memory' /\ Books'
      BY <2>1, GoTyped DEF Typed
    <2> QED BY <2>1, <2>2, PlacesKept, QuietTyped
  <1>3. CASE Stash
    <2>1. PICK c \in Found :
             /\ target' = Put(Slug, {Stashed(c)})
             /\ proc' = [proc EXCEPT !.pc = "fetch", !.stashed = c.files, !.broken = ~ c.whole]
             /\ NowUnseen(c.files)
      BY <1>3 DEF Stash
    <2>2. proc.pc = "inspect" /\ disk' = disk /\ run' = run /\ aside' = aside
      BY <1>3 DEF Stash, Updates, AtPlugin
    <2>3. c \in Checkout /\ Slug \in Slugs
      BY <2>2, FoundTyped
    <2>4. Stashed(c) \in Checkout /\ c.files \in SUBSET Work /\ (~ c.whole) \in BOOLEAN
      BY <2>3, CheckoutFields, CheckoutUpdates DEF Typed
    <2>5. Directories'
      BY <2>1, <2>2, <2>4, FoundReplaced
    <2> DEFINE broken == ~ c.whole
    <2>6. proc' = [proc EXCEPT !.pc = "fetch", !.stashed = c.files, !.broken = broken]
      BY <2>1
    <2>7. broken \in BOOLEAN
      OBVIOUS
    <2> HIDE DEF broken
    <2>8. /\ DOMAIN proc' = DOMAIN proc /\ proc'.pc = "fetch" /\ proc'.at = proc.at
          /\ proc'.results = proc.results /\ proc'.staging = proc.staging
          /\ proc'.stashed = c.files /\ proc'.broken = broken
          /\ proc'.outcome = proc.outcome
      BY <2>6 DEF Typed, Memory
    <2>9. proc'.staging \in SUBSET Checkout /\ Single(proc'.staging) /\ proc'.outcome \in Status
      BY <2>8 DEF Typed, Memory
    <2>10. proc'.pc \notin {"idle", "judge"} /\ proc.pc \notin {"idle", "judge"}
      BY <2>2, <2>8
    <2>11. Memory' /\ Books'
      BY <2>2, <2>4, <2>7, <2>8, <2>9, <2>10, GoesOn DEF Typed
    <2>12. unseen[Slug] \cup c.files \in SUBSET Work
      BY <2>3, <2>4 DEF Typed, Local
    <2>13. Local'
      BY <2>1, <2>3, <2>12, UnseenTyped DEF NowUnseen, Typed
    <2> QED BY <2>2, <2>5, <2>11, <2>13 DEF StepTyped, SameBook
  <1>4. CASE StashFails
    <2>1. proc.pc = "inspect" /\ disk' = disk /\ aside' = aside
      BY <1>4 DEF StashFails, Updates, AtPlugin
    <2>2. CASE Reply("FAILED_PRESERVED") /\ UNCHANGED target
      BY <2>1, <2>2, ReplyQuiet DEF Status, places
    <2>3. CASE \E c \in Found :
             /\ target' = Put(Slug, {Stashed(c)})
             /\ ReplyNaming("FAILED_PRESERVED", c.files) /\ NowUnseen(c.files)
      <3>1. PICK c \in Found :
             /\ target' = Put(Slug, {Stashed(c)})
             /\ ReplyNaming("FAILED_PRESERVED", c.files) /\ NowUnseen(c.files)
        BY <2>3
      <3>2. c \in Checkout /\ Slug \in Slugs
        BY <2>1, FoundTyped
      <3>3. Stashed(c) \in Checkout /\ c.files \in SUBSET Work
        BY <3>2, CheckoutFields, CheckoutUpdates DEF Typed
      <3>4. Directories'
        BY <2>1, <3>1, <3>3, FoundReplaced
      <3>5. unseen[Slug] \cup c.files \in SUBSET Work
        BY <3>2, <3>3 DEF Typed, Local
      <3>6. Local'
        BY <3>1, <3>2, <3>5, UnseenTyped DEF NowUnseen, Typed
      <3> QED BY <2>1, <3>1, <3>3, <3>4, <3>6, AnswerTyped DEF Status
    <2> QED BY <1>4, <2>2, <2>3 DEF StashFails
  <1>5. CASE Fetch
    <2>1. proc.pc = "fetch" /\ disk' = disk /\ aside' = aside /\ UNCHANGED history
      BY <1>5 DEF Fetch, Quiet, Reply
    <2>2. PICK c \in Found : target' = Put(Slug, {Merged(c)})
      BY <1>5 DEF Fetch
    <2>3. Merged(c) \in Checkout
      BY <2>1, FoundTyped, CheckoutUpdates DEF Typed
    <2>4. Directories' /\ Local'
      BY <2>1, <2>2, <2>3, FoundReplaced, HistoryKept
    <2>5. CASE HasStash
      <3>1. Go("apply") /\ run' = run
        BY <1>5, <2>5 DEF Fetch, Quiet
      <3>2. Memory' /\ Books'
        BY <2>1, <3>1, GoTyped DEF Typed
      <3> QED BY <2>1, <2>4, <3>1, <3>2, QuietTyped
    <2>6. CASE ~ HasStash
      <3>1. ReplyNaming("REFRESHED", {})
        BY <1>5, <2>6 DEF Fetch, Reply
      <3> QED BY <2>1, <2>4, <3>1, AnswerTyped DEF Status
    <2> QED BY <2>5, <2>6
  <1>6. CASE FetchFails
    <2>1. /\ proc.pc = "fetch" /\ disk' = disk /\ aside' = aside /\ UNCHANGED history
          /\ ReplyNaming("FAILED_PRESERVED", proc.stashed)
      BY <1>6 DEF FetchFails
    <2>2. Directories'
      <3>1. CASE target' = target
        BY <2>1, <3>1, PlacesKept DEF places
      <3>2. CASE \E c \in Found : target' = Put(Slug, {Merged(c)})
        <4>1. PICK c \in Found : target' = Put(Slug, {Merged(c)})
          BY <3>2
        <4>2. Merged(c) \in Checkout
          BY <2>1, FoundTyped, CheckoutUpdates DEF Typed
        <4> QED BY <2>1, <4>1, <4>2, FoundReplaced
      <3> QED BY <1>6, <3>1, <3>2 DEF FetchFails
    <2>3. proc.stashed \in SUBSET Work
      BY DEF Typed, Memory
    <2> QED BY <2>1, <2>2, <2>3, HistoryKept, AnswerTyped DEF Status
  <1>7. CASE Apply
    <2>1. /\ proc.pc = "apply" /\ disk' = disk /\ aside' = aside /\ Reapplied
          /\ ReplyNaming("REFRESHED", proc.stashed)
      BY <1>7 DEF Apply
    <2>2. proc.stashed \in SUBSET Work
      BY DEF Typed, Memory
    <2> QED BY <2>1, <2>2, ReappliedTyped, AnswerTyped DEF Status
  <1>8. CASE ApplyFails
    <2>1. /\ proc.pc = "apply" /\ disk' = disk /\ aside' = aside
          /\ ReplyNaming("FAILED_PRESERVED", proc.stashed)
          /\ Reapplied \/ UNCHANGED <<target, history>>
      BY <1>8 DEF ApplyFails
    <2>2. proc.stashed \in SUBSET Work
      BY DEF Typed, Memory
    <2>3. Directories' /\ Local'
      BY <2>1, ReappliedTyped, PlacesKept, HistoryKept DEF places
    <2> QED BY <2>1, <2>2, <2>3, AnswerTyped DEF Status
  <1> HIDE DEF At
  <1> QED BY <1>1, <1>2, <1>3, <1>4, <1>5, <1>6, <1>7, <1>8 DEF Updating

LEMMA InspectionFailsTyped ==
  ASSUME Typed, InspectionFails
  PROVE  StepTyped
  BY ReplyQuiet DEF InspectionFails, AtPlugin, At, Status

\* The process ends, and what it leaves in its manifest is of the same list.
Ending ==
    /\ proc.pc # "idle" /\ Ended /\ UNCHANGED <<places, surroundings, history>>
    /\ \E m \in Manifest :
          /\ disk' = disk \/ disk' = Saved(m)
          /\ m.original = run.original /\ m.list = run.list /\ m.changes = run.changes

\* The manifest of a run closed in each of the ways the code has.
LEMMA ClosedTyped ==
  ASSUME NEW m \in Manifest, NEW done \in BOOLEAN
  PROVE  \A c \in {Closed(m), [Closed(m) EXCEPT !.failed = FALSE], [m EXCEPT !.done = done],
                   [m EXCEPT !.status = "EXECUTED", !.done = TRUE, !.printed = TRUE]} :
            /\ c \in Manifest
            /\ c.original = m.original /\ c.list = m.list /\ c.changes = m.changes
  <1>1. /\ [m EXCEPT !.done = done] \in Manifest
        /\ [m EXCEPT !.done = done].original = m.original
        /\ [m EXCEPT !.done = done].list = m.list
        /\ [m EXCEPT !.done = done].changes = m.changes
    BY DEF Manifest
  <1> DEFINE x == [m EXCEPT !.status = "EXECUTED", !.done = TRUE, !.printed = TRUE]
  <1>2. /\ x \in Manifest
        /\ x.original = m.original /\ x.list = m.list /\ x.changes = m.changes
    BY DEF Manifest
  <1>3. /\ Closed(m) \in Manifest /\ Closed(m).original = m.original
        /\ Closed(m).list = m.list /\ Closed(m).changes = m.changes
    BY DEF Manifest, Closed
  <1> DEFINE y == [Closed(m) EXCEPT !.failed = FALSE]
  <1>4. /\ y \in Manifest
        /\ y.original = m.original /\ y.list = m.list /\ y.changes = m.changes
    BY DEF Manifest, Closed
  <1> QED BY <1>1, <1>2, <1>3, <1>4

LEMMA RaisesEnds ==
  ASSUME Typed, proc.pc # "idle", Raises
  PROVE  Ending
  BY ClosedTyped DEF Typed, Books, Raises, Ending

LEMMA Ends ==
  ASSUME Typed, Refused \/ DiscardFails \/ JudgeContinues \/ JudgeStops \/ StopsEarlier \/ Crash
  PROVE  Ending
  <1> DEFINE done == Succeeded
  <1>1. run \in Manifest /\ done \in BOOLEAN
    BY DEF Typed, Books, Succeeded
  <1> HIDE DEF done
  <1>2. CASE Refused \/ JudgeStops
    BY <1>2, RaisesEnds DEF Refused, JudgeStops
  <1>3. CASE DiscardFails
    BY <1>1, <1>3, ClosedTyped DEF DiscardFails, Ending
  <1>4. CASE JudgeContinues
    BY <1>1, <1>4, ClosedTyped DEF JudgeContinues, Ending
  <1>5. CASE StopsEarlier
    BY <1>1, <1>5, ClosedTyped DEF StopsEarlier, Ending
  <1>6. CASE Crash
    <2>1. disk' = disk \/ disk' = Saved([run EXCEPT !.done = done])
      BY <1>6 DEF Crash, done
    <2>2. proc.pc # "idle" /\ Ended /\ UNCHANGED <<places, surroundings, history>>
      BY <1>6 DEF Crash
    <2> QED BY <1>1, <2>1, <2>2, ClosedTyped DEF Ending
  <1> QED BY <1>2, <1>3, <1>4, <1>5, <1>6

LEMMA EndingTyped ==
  ASSUME Typed, Ending
  PROVE  Typed'
  <1>1. Memory' /\ Books'
    BY EndedTyped DEF Ending, Typed
  <1>2. Surroundings'
    BY DEF Ending, Typed, Surroundings, surroundings
  <1> QED BY <1>1, <1>2, PlacesKept, HistoryKept DEF Typed, Ending

-----------------------------------------------------------------------------
(***************************************************************************)
(* What a manifest says of its plugins.                                    *)
(***************************************************************************)

\* ChangesAreTrue with what makes it inductive: the run a resume descends from was there
\* before it, and the list in memory is the one on disk.
Tells(list, original, changes) ==
    IF changes = {} THEN list = original ELSE changes = {Changes(original, list)}
Lineage ==
    /\ \A r \in 1..Current :
          /\ disk[r].original \in 1..r
          /\ Tells(disk[r].list, disk[disk[r].original].list, disk[r].changes)
          /\ disk[disk[r].original].original = disk[r].original
    /\ proc.pc # "idle" =>
          /\ run.original = disk[Current].original
          /\ run.list = disk[Current].list /\ run.changes = disk[Current].changes

LEMMA LineageTells ==
  ASSUME Lineage
  PROVE  ChangesAreTrue
  BY DEF Lineage, Tells, ChangesAreTrue

LEMMA SameBookLineage ==
  ASSUME Lineage, SameBook
  PROVE  Lineage'
  BY DEF Lineage, SameBook, Current, Tells

LEMMA EndingLineage ==
  ASSUME Typed, Lineage, Ending
  PROVE  Lineage'
  <1>1. PICK m \in Manifest :
          /\ disk' = disk \/ disk' = Saved(m)
          /\ m.original = run.original /\ m.list = run.list /\ m.changes = run.changes
    BY DEF Ending
  <1>2. Current \in Runs /\ proc.pc # "idle"
    BY DEF Ending, Typed, Memory
  <1>3. Len(disk') = Current /\ \A r \in 1..Current :
           /\ disk'[r].original = disk[r].original /\ disk'[r].list = disk[r].list
           /\ disk'[r].changes = disk[r].changes
    BY <1>1, <1>2, SavedTyped DEF Typed, Lineage, Current
  <1>4. proc'.pc = "idle"
    BY DEF Ending, Ended, Idle
  <1>5. Current \in Nat
    BY <1>2 DEF Runs
  <1>6. \A r \in 1..Current : disk[r].original \in 1..Current
    BY <1>5 DEF Lineage
  <1> QED BY <1>3, <1>4, <1>6 DEF Lineage, Current, Tells

\* The manifests of a run and of a resume descend from one there was.
LEMMA BeginLineage ==
  ASSUME Typed, Lineage, NEW m \in Manifest, NEW dry \in BOOLEAN, Begin(m, dry),
         \/ m.original = Current + 1 /\ m.changes = {}
         \/ /\ m.original \in 1..Current /\ disk[m.original].original = m.original
            /\ Tells(m.list, disk[m.original].list, m.changes)
  PROVE  Lineage'
  <1> DEFINE planned == Planned(m.list)
             x == IF dry THEN [m EXCEPT !.status = "VALIDATED", !.printed = TRUE,
                                        !.results = planned]
                  ELSE m
  <1>1. disk' = Append(disk, x)
    BY DEF Begin
  <1> HIDE DEF planned
  <1>2. x.original = m.original /\ x.list = m.list /\ x.changes = m.changes
    BY DEF Manifest
  <1> HIDE DEF x
  <1>3. Current \in Nat /\ disk \in Seq(Manifest)
    BY LenProperties DEF Typed, Books, Current
  <1>4. /\ Len(disk') = Current + 1 /\ disk'[Current + 1] = x
        /\ \A r \in 1..Current : disk'[r] = disk[r]
    BY <1>1, <1>3 DEF Current
  <1>5. \A r \in 1..Current : disk[r].original \in 1..Current
    BY <1>3 DEF Lineage
  <1>6. ASSUME NEW r \in 1..(Current + 1)
        PROVE  /\ disk'[r].original \in 1..r
               /\ Tells(disk'[r].list, disk'[disk'[r].original].list, disk'[r].changes)
               /\ disk'[disk'[r].original].original = disk'[r].original
    <2>1. CASE r \in 1..Current
      BY <1>4, <1>5, <2>1 DEF Lineage
    <2>2. CASE r = Current + 1
      BY <1>2, <1>3, <1>4, <2>2 DEF Tells
    <2> QED BY <1>3, <2>1, <2>2
  <1>7. proc'.pc # "idle" => run' = m /\ ~ dry
    BY DEF Begin
  <1>8. x.original = m.original /\ x.list = m.list /\ x.changes = m.changes
    BY <1>2
  <1> QED BY <1>4, <1>6, <1>7, <1>8 DEF Lineage, Current

\* What the operator does.
LEMMA ExecuteLineage ==
  ASSUME Typed, Lineage, NEW dry \in BOOLEAN, Execute(dry)
  PROVE  Lineage'
  <1> DEFINE m == [NoRun EXCEPT !.original = Current + 1, !.list = config]
  <1>1. Current + 1 \in Runs
    BY LenProperties, ConstantTypes DEF Execute, Begin, Typed, Books, Current, Runs
  <1>2. config \in Seq(Plugin)
    BY ConstantTypes DEF Typed, Surroundings
  <1>3. m \in Manifest
    BY <1>1, <1>2, NoRunTyped DEF Manifest
  <1>4. m.original = Current + 1 /\ m.changes = {}
    BY DEF NoRun
  <1> QED BY <1>3, <1>4, BeginLineage DEF Execute

LEMMA ResumeTypedLineage ==
  ASSUME Typed, Lineage, NEW r \in 1..Current, NEW dry \in BOOLEAN, Resume(r, dry)
  PROVE  Memory' /\ Books' /\ Lineage'
  <1>1. Current \in Nat
    BY LenProperties DEF Typed, Books, Current
  <1>2. disk[r].original \in 1..Current
    BY <1>1 DEF Lineage
  <1>3. Begin(ResumedFrom(r), dry)
    BY DEF Resume, ResumedFrom
  <1>4. /\ ResumedFrom(r) \in Manifest
        /\ ResumedFrom(r).original = disk[r].original
        /\ ResumedFrom(r).list = IF disk[r].failed THEN config ELSE disk[r].list
        /\ ResumedFrom(r).changes =
               IF disk[r].failed THEN {Changes(disk[disk[r].original].list, config)}
               ELSE disk[r].changes
    BY <1>2, ResumedFields DEF Typed
  <1>5. /\ disk[disk[r].original].original = disk[r].original
        /\ Tells(disk[r].list, disk[disk[r].original].list, disk[r].changes)
    BY DEF Lineage
  <1>6. Tells(ResumedFrom(r).list, disk[disk[r].original].list, ResumedFrom(r).changes)
    BY <1>4, <1>5 DEF Tells
  <1> QED BY <1>2, <1>3, <1>4, <1>5, <1>6, BeginTyped, BeginLineage

LEMMA BeginsTyped ==
  ASSUME Typed, NEW m, NEW dry, Begin(m, dry), Memory', Books'
  PROVE  Typed'
  <1>1. UNCHANGED <<places, surroundings, history>>
    BY DEF Begin
  <1>2. Surroundings'
    BY <1>1 DEF Typed, Surroundings, surroundings
  <1> QED BY <1>1, <1>2, PlacesKept, HistoryKept DEF Typed

\* What someone's work leaves of a checkout.
Worked(c, w, committed) ==
    IF committed THEN [c EXCEPT !.commits = @ \cup {w}] ELSE [c EXCEPT !.files = @ \cup {w}]

LEMMA WorkedFields ==
  ASSUME NEW c \in Checkout, NEW w \in Work, NEW committed \in BOOLEAN
  PROVE  /\ Worked(c, w, committed) \in Checkout
         /\ Worked(c, w, committed).git = c.git
         /\ Worked(c, w, committed).stash = c.stash
         /\ \/ /\ committed /\ Worked(c, w, committed).files = c.files
               /\ Worked(c, w, committed).commits = c.commits \cup {w}
            \/ /\ ~ committed /\ Worked(c, w, committed).files = c.files \cup {w}
               /\ Worked(c, w, committed).commits = c.commits
  <1> DEFINE versions == 0..MaxVersion
  <1>1. Checkout = [version: versions, whole: BOOLEAN, git: BOOLEAN,
                    files: SUBSET Work, commits: SUBSET Work, stash: SUBSET Work]
    BY DEF Checkout
  <1> HIDE DEF versions
  <1>2. CASE committed
    BY <1>1, <1>2 DEF Worked
  <1>3. CASE ~ committed
    BY <1>1, <1>3 DEF Worked
  <1> QED BY <1>2, <1>3

LEMMA EditTyped ==
  ASSUME Typed, NEW s \in Slugs, NEW w \in Work, NEW committed \in BOOLEAN,
         Edit(s, w, committed)
  PROVE  Typed'
  <1>1. PICK c \in target[s] :
          /\ target' = Put(s, {Worked(c, w, committed)})
          /\ unseen' = [unseen EXCEPT ![s] =
                            IF committed \/ (~ c.git /\ enclosed) THEN @ \cup {w} ELSE @]
    BY DEF Edit, Worked
  <1>2. c \in Checkout
    BY DEF Typed, Directories
  <1>3. Worked(c, w, committed) \in Checkout
    BY <1>2, WorkedFields
  <1> DEFINE d == Worked(c, w, committed)
  <1> HIDE DEF d
  <1>4. {d} \in SUBSET Checkout /\ Single({d})
    BY <1>3 DEF Single, d
  <1>5. target' \in [Slugs -> SUBSET Checkout] /\ \A o \in Slugs : Single(target'[o])
    BY <1>1, <1>4 DEF Typed, Directories, Put, d
  <1>6. Directories'
    BY <1>5 DEF Edit, Typed, Directories
  <1>7. unseen' \in [Slugs -> SUBSET Work]
    BY <1>1 DEF Typed, Local
  <1>8. made' \in [Slugs -> SUBSET Work] /\ late' \in SUBSET Work
    BY DEF Typed, Local, Edit
  <1>9. Memory' /\ Books' /\ Surroundings'
    BY DEF Edit, Typed, Memory, Books, Surroundings, surroundings, Current
  <1> QED BY <1>6, <1>7, <1>8, <1>9 DEF Typed, Local

LEMMA EditConfigTyped ==
  ASSUME Typed, NEW list \in Lists, EditConfig(list)
  PROVE  Typed'
  <1>1. UNCHANGED <<places, history>> /\ Surroundings'
    BY DEF EditConfig, Typed, Surroundings
  <1>2. Memory' /\ Books'
    BY DEF EditConfig, Typed, Memory, Books, Current
  <1> QED BY <1>1, <1>2, PlacesKept, HistoryKept DEF Typed

LEMMA StepKeepsTypes ==
  ASSUME Typed, StepTyped, UNCHANGED surroundings
  PROVE  Typed'
  BY DEF Typed, StepTyped, Surroundings, surroundings

\* What every step of Next is.
LEMMA NextSplits ==
  ASSUME Typed, Next
  PROVE  \/ StepTyped /\ UNCHANGED surroundings
         \/ Ending
         \/ Operator
  <1>1. ASSUME Replacing, ~ DiscardFails PROVE UNCHANGED surroundings
    BY <1>1 DEF Replacing, ReplaceRefused, Clone, CloneFails, SetAside, SetAsideFails,
                Install, InstallFails, Restore, RestoreFails, Drop, DropFails,
                TakeOut, TakeOutFails, Discard, AtPlugin, At
  <1>2. ASSUME Updating PROVE UNCHANGED surroundings
    BY <1>2 DEF Updating, UpdateRefused, StashNothing, Stash, StashFails, Fetch, FetchFails,
                Apply, ApplyFails, Updates, AtPlugin, At
  <1>3. InspectionFails => UNCHANGED surroundings
    BY DEF InspectionFails, AtPlugin, At
  <1> QED BY <1>1, <1>2, <1>3, ReplacingTyped, UpdatingTyped, InspectionFailsTyped, Ends DEF Next

LEMMA OperatorTyped ==
  ASSUME Typed, Lineage, Operator
  PROVE  Typed' /\ Lineage'
  <1>1. ASSUME NEW dry \in BOOLEAN, Execute(dry) PROVE Typed' /\ Lineage'
    BY <1>1, ExecuteTyped, ExecuteLineage, BeginsTyped DEF Execute
  <1>2. ASSUME NEW dry \in BOOLEAN, NEW r \in 1..Current, Resume(r, dry)
        PROVE  Typed' /\ Lineage'
    BY <1>2, ResumeTypedLineage, BeginsTyped DEF Resume
  <1>3. ASSUME NEW list \in Lists, EditConfig(list) PROVE Typed' /\ Lineage'
    BY <1>3, EditConfigTyped DEF EditConfig, Lineage, Current, Tells
  <1>4. ASSUME NEW s \in Slugs, NEW w \in Work, NEW committed \in BOOLEAN,
               Edit(s, w, committed)
        PROVE  Typed' /\ Lineage'
    BY <1>4, EditTyped DEF Edit, Lineage, Current, Tells
  <1> QED BY <1>1, <1>2, <1>3, <1>4 DEF Operator

LEMMA NextTyped ==
  ASSUME Typed, Lineage, [Next]_vars
  PROVE  Typed' /\ Lineage'
  <1>1. CASE StepTyped /\ UNCHANGED surroundings
    BY <1>1, StepKeepsTypes, SameBookLineage DEF StepTyped
  <1>2. CASE Ending
    BY <1>2, EndingTyped, EndingLineage
  <1>3. CASE Operator
    BY <1>3, OperatorTyped
  <1>4. CASE UNCHANGED vars
    BY <1>4 DEF vars, places, surroundings, history, Typed, Directories, Surroundings, Books,
                Memory, Local, Lineage, Current, Tells
  <1> QED BY <1>1, <1>2, <1>3, <1>4, NextSplits

LEMMA InitTyped ==
  ASSUME Init
  PROVE  Typed /\ Lineage
  <1>1. Directories
    <2>1. PICK kind \in {"missing", "clean", "unversioned"} :
             target = [s \in Slugs |->
                 IF kind = "missing" THEN {}
                 ELSE {[version |-> 1, whole |-> TRUE, git |-> kind = "clean",
                        files |-> {}, commits |-> {}, stash |-> {}]}]
      BY DEF Init
    <2> DEFINE git == kind = "clean"
               c == [version |-> 1, whole |-> TRUE, git |-> git,
                     files |-> {}, commits |-> {}, stash |-> {}]
    <2>2. 1 \in 0..MaxVersion /\ git \in BOOLEAN
      BY ConstantTypes
    <2>3. c \in Checkout
      <3> HIDE DEF git
      <3> QED BY <2>2 DEF Checkout
    <2>4. target = [s \in Slugs |-> IF kind = "missing" THEN {} ELSE {c}]
      BY <2>1
    <2> HIDE DEF c
    <2>5. target \in [Slugs -> SUBSET Checkout] /\ \A s \in Slugs : Single(target[s])
      BY <2>3, <2>4 DEF Single
    <2> QED BY <2>5 DEF Init, Directories, Single
  <1>2. Surroundings
    BY ConstantTypes DEF Init, Surroundings
  <1>3. disk = <<>> /\ run = NoRun /\ proc = Idle
    BY DEF Init
  <1>4. Current = 0 /\ disk \in Seq(Manifest)
    BY <1>3, EmptySeq DEF Current
  <1>5. Books
    BY <1>3, <1>4, NoRunTyped, ConstantTypes DEF Books
  <1>6. Memory
    BY <1>3, EmptySeq DEF Memory, Idle, Single, Status
  <1>7. Local
    BY DEF Init, Local
  <1>8. Lineage
    BY <1>3, <1>4 DEF Lineage, Idle
  <1> QED BY <1>1, <1>2, <1>5, <1>6, <1>7, <1>8 DEF Typed

LEMMA SingleIsSmall ==
  ASSUME NEW S, Single(S)
  PROVE  Cardinality(S) <= 1
  <1>1. CASE S = {}
    BY <1>1, FS_EmptySet
  <1>2. CASE S # {}
    <2>1. PICK c \in S : TRUE
      BY <1>2
    <2>2. S = {c}
      BY <2>1 DEF Single
    <2> QED BY <2>2, FS_Singleton
  <1> QED BY <1>1, <1>2

LEMMA TypedIsTypeOK ==
  ASSUME Typed
  PROVE  TypeOK
  BY SingleIsSmall DEF Typed, Directories, Books, Memory, Local, TypeOK

\* The invariant the two theorems below are read from.
THEOREM TypedAlways == Spec => [](Typed /\ Lineage)
  <1>1. Init => Typed /\ Lineage
    BY InitTyped
  <1>2. Typed /\ Lineage /\ [Next]_vars => (Typed /\ Lineage)'
    BY NextTyped
  <1> QED BY <1>1, <1>2, PTL DEF Spec

\* Types, and never two directories for one plugin, whatever managed_plugins.py is asked
\* to do and wherever it stops.
THEOREM Types == Spec => []TypeOK
  BY TypedAlways, TypedIsTypeOK, PTL

\* Through any chain of executions and resumes, dry or real, a manifest tells what
\* separates its plugins from those of the original run (service.py 379-398).
THEOREM Changed == Spec => []ChangesAreTrue
  BY TypedAlways, LineageTells, PTL

-----------------------------------------------------------------------------
(***************************************************************************)
(* No visible work is lost.                                                *)
(***************************************************************************)

\* What may be lost without breaking the promise.
Safe(s) == unseen[s] \cup late
Holds(D, w) == \E c \in D : w \in c.files \cup c.commits \cup c.stash
Harmless(D, safe) == \A c \in D : c.files \cup c.commits \cup c.stash \subseteq safe

\* What git status does not show in a directory is known not to be visible.
Sound(c, safe) ==
    /\ c.commits \cup c.stash \subseteq safe \cup c.files
    /\ enclosed /\ ~ c.git => c.files \subseteq safe

Covered ==
    /\ VisibleWorkIsKept
    /\ \A s \in Slugs : \A c \in target[s] : Sound(c, Safe(s))

\* Where the step is, and what that says of the two places of a plugin: a directory is
\* moved or removed only after it was seen to hold nothing visible.
Moving == {"install", "restore", "drop", "take out", "put back"}
NoneAhead == \A s \in Slugs, r \in Runs : r > Current => aside[s][r] = {}
NoneAside == \A s \in Slugs : aside[s][Current] = {}
Phase ==
    /\ NoneAhead
    /\ proc.pc \in {"inspect", "set aside", "fetch", "apply"} => NoneAside
    /\ proc.pc \in Moving =>
           /\ \A s \in Slugs : s # Slug => aside[s][Current] = {}
           /\ Harmless(MovedAside, Safe(Slug))
    /\ proc.pc \in {"set aside", "drop", "take out"} => Harmless(Found, Safe(Slug))
    /\ proc.pc \in {"set aside", "install"} => Harmless(proc.staging, {})
    /\ proc.pc \in {"install", "restore", "put back"} => Found = {}
    /\ proc.pc \in {"fetch", "apply"} => \A c \in Found : c.git
    /\ proc.pc = "discard" => proc.outcome = "FAILED_PRESERVED"

LEMMA CoveredStays ==
  ASSUME Covered, UNCHANGED <<places, history, enclosed>>
  PROVE  Covered'
  BY DEF Covered, VisibleWorkIsKept, Kept, Sound, Safe, places, history

\* A move of the plugin the process is at: T is in its place after it, A is set aside.
Placed(T, A) ==
    /\ \A s \in Slugs : target'[s] = IF s = Slug THEN T ELSE target[s]
    /\ \A s \in Slugs, r \in Runs :
          aside'[s][r] = IF s = Slug /\ r = Current THEN A ELSE aside[s][r]
Puts(T) == target' = Put(Slug, T) \/ (target' = target /\ T = Found)
PutsAside(A) ==
    \/ aside' = [aside EXCEPT ![Slug][Current] = A]
    \/ aside' = aside /\ A = MovedAside
Carries(T, A) ==
    /\ \A w : Holds(Found, w) \/ Holds(MovedAside, w) \/ w \in Safe(Slug) =>
              Holds(T, w) \/ Holds(A, w) \/ w \in unseen'[Slug] \cup late
    /\ \A c \in T : Sound(c, unseen'[Slug] \cup late)

\* A move of the plugin the process is at loses nothing visible if its work is still in
\* one of the two places, or safe to lose.
LEMMA Keeping ==
  ASSUME Typed, Covered, proc.pc \notin {"idle", "judge"}, NEW T, NEW A,
         Placed(T, A), Carries(T, A), UNCHANGED <<made, late, enclosed>>,
         \A s \in Slugs : s # Slug => unseen'[s] = unseen[s]
  PROVE  Covered'
  <1>1. Slug \in Slugs /\ Current \in Runs
    BY FoundTyped
  <1>2. ASSUME NEW s \in Slugs, NEW w \in made[s]
        PROVE  w \in Kept(s)' \cup unseen'[s] \cup late
    <2>1. CASE s = Slug
      <3>1. CASE Holds(T, w)
        <4>1. \E c \in target'[s] : w \in c.files \cup c.commits \cup c.stash
          BY <1>1, <2>1, <3>1 DEF Holds, Placed
        <4> QED BY <4>1 DEF Kept
      <3>2. CASE Holds(A, w)
        <4>1. \E c \in aside'[s][Current] : w \in c.files \cup c.commits \cup c.stash
          BY <1>1, <2>1, <3>2 DEF Holds, Placed
        <4> QED BY <1>1, <4>1 DEF Kept
      <3>3. CASE Holds(Found, w) \/ Holds(MovedAside, w) \/ w \in Safe(Slug)
        BY <2>1, <3>1, <3>2, <3>3 DEF Carries
      <3>4. CASE ~ (Holds(Found, w) \/ Holds(MovedAside, w) \/ w \in Safe(Slug))
        <4>1. w \in Kept(s)
          BY <2>1, <3>4 DEF Covered, VisibleWorkIsKept, Safe
        <4>2. PICK c \in target[s] \cup UNION {aside[s][r] : r \in Runs} :
                 w \in c.files \cup c.commits \cup c.stash
          BY <4>1 DEF Kept
        <4>3. c \notin target[s] /\ c \notin aside[s][Current]
          BY <2>1, <3>4, <4>2 DEF Holds, Found, MovedAside
        <4>4. PICK r \in Runs : c \in aside[s][r] /\ r # Current
          BY <4>2, <4>3
        <4>5. c \in aside'[s][r]
          BY <4>4 DEF Placed
        <4> QED BY <4>2, <4>5 DEF Kept
      <3> QED BY <3>3, <3>4
    <2>2. CASE s # Slug
      <3>1. target'[s] = target[s] /\ \A r \in Runs : aside'[s][r] = aside[s][r]
        BY <2>2 DEF Placed
      <3>2. Kept(s)' = Kept(s)
        BY <3>1 DEF Kept
      <3> QED BY <2>2, <3>2 DEF Covered, VisibleWorkIsKept
    <2> QED BY <2>1, <2>2
  <1>3. VisibleWorkIsKept'
    BY <1>2 DEF VisibleWorkIsKept
  <1>4. ASSUME NEW s \in Slugs, NEW c \in target'[s]
        PROVE  Sound(c, Safe(s))'
    BY <1>1, <1>4 DEF Covered, Sound, Safe, Placed, Carries
  <1> QED BY <1>3, <1>4 DEF Covered, Sound

\* The two places after a move, plugin by plugin and run by run.
LEMMA Moved ==
  ASSUME Typed, proc.pc \notin {"idle", "judge"}, NEW T, NEW A, Puts(T), PutsAside(A)
  PROVE  Placed(T, A)
  <1>1. Slug \in Slugs /\ Current \in Runs
    BY FoundTyped
  <1>2. target \in [Slugs -> SUBSET Checkout] /\ aside \in [Slugs -> [Runs -> SUBSET Checkout]]
    BY DEF Typed, Directories
  <1>3. \A s \in Slugs : target'[s] = IF s = Slug THEN T ELSE target[s]
    BY <1>1, <1>2 DEF Puts, Put, Found
  <1>4. CASE aside' = [aside EXCEPT ![Slug][Current] = A]
    <2>1. \A s \in Slugs : aside'[s] = IF s = Slug THEN [aside[Slug] EXCEPT ![Current] = A] ELSE aside[s]
      BY <1>2, <1>4
    <2>2. \A r \in Runs : [aside[Slug] EXCEPT ![Current] = A][r] = IF r = Current THEN A ELSE aside[Slug][r]
      BY <1>1, <1>2
    <2> QED BY <1>3, <2>1, <2>2 DEF Placed
  <1>5. CASE aside' = aside /\ A = MovedAside
    BY <1>3, <1>5 DEF MovedAside, Placed
  <1> QED BY <1>4, <1>5 DEF PutsAside

LEMMA NoneAheadMoves ==
  ASSUME Phase, Typed, proc.pc \notin {"idle", "judge"}, disk' = disk, NEW T, NEW A, Placed(T, A)
  PROVE  NoneAhead'
  <1>1. Current \in Runs
    BY FoundTyped
  <1>2. ASSUME NEW s \in Slugs, NEW r \in Runs, r > Current
        PROVE  aside'[s][r] = {}
    <2>1. r # Current
      BY <1>1, <1>2 DEF Runs
    <2> QED BY <1>2, <2>1 DEF Phase, NoneAhead, Placed
  <1>3. Current' = Current
    BY DEF Current
  <1> QED BY <1>2, <1>3 DEF NoneAhead

\* After an answer the process inspects the next plugin, or is judged.
LEMMA RepliedPhase ==
  ASSUME NoneAhead', disk' = disk, NEW status, NEW stashed, ReplyNaming(status, stashed),
         status # "FAILED_PRESERVED" => NoneAside'
  PROVE  Phase'
  <1>1. proc'.pc = IF status = "FAILED_PRESERVED" \/ proc.at = Len(run.list) THEN "judge" ELSE "inspect"
    BY DEF ReplyNaming, Idle
  <1> QED BY <1>1 DEF Phase, Moving

LEMMA DiscardedPhase ==
  ASSUME Typed, NoneAhead', Discarding("FAILED_PRESERVED")
  PROVE  Phase'
  <1>1. proc'.pc = "discard" /\ proc'.outcome = "FAILED_PRESERVED"
    BY DEF Discarding, Typed, Memory
  <1> QED BY <1>1 DEF Phase, Moving

LEMMA NoneAheadStays ==
  ASSUME Phase, UNCHANGED places, disk' = disk
  PROVE  NoneAhead' /\ (NoneAside => NoneAside')
  BY DEF Phase, NoneAhead, NoneAside, places, Current

\* The process goes on with the same plugin.
LEMMA SameItem ==
  ASSUME run' = run, proc'.at = proc.at, disk' = disk
  PROVE  /\ Slug' = Slug /\ Current' = Current
         /\ Found' = target'[Slug] /\ MovedAside' = aside'[Slug][Current]
  BY DEF Slug, Item, Current, Found, MovedAside

LEMMA GoFields ==
  ASSUME Typed, NEW pc, Go(pc)
  PROVE  proc'.pc = pc /\ proc'.at = proc.at /\ proc'.staging = proc.staging
  BY DEF Go, Typed, Memory

Brings(T, A) ==
    /\ \A w : Holds(Found, w) \/ Holds(MovedAside, w)
                 => Holds(T, w) \/ Holds(A, w) \/ w \in Safe(Slug)
    /\ \A c \in T : Sound(c, Safe(Slug))

\* Such a move, with no work going out of sight or coming back.
LEMMA MovingKeeps ==
  ASSUME Typed, Covered, proc.pc \notin {"idle", "judge"}, NEW T, NEW A, Placed(T, A),
         UNCHANGED <<history, enclosed>>,
         Brings(T, A)
  PROVE  Covered'
  <1>1. unseen'[Slug] \cup late = Safe(Slug) /\ UNCHANGED <<made, late, enclosed>>
        /\ \A s \in Slugs : s # Slug => unseen'[s] = unseen[s]
    BY DEF Safe, history
  <1>2. Carries(T, A)
    BY <1>1 DEF Carries, Brings
  <1> QED BY <1>1, <1>2, Keeping

\* What is harmless may be lost.
LEMMA HarmlessHolds ==
  ASSUME NEW D, NEW safe, Harmless(D, safe)
  PROVE  /\ \A w : Holds(D, w) => w \in safe
         /\ \A c \in D : Sound(c, safe)
  BY DEF Harmless, Holds, Sound

LEMMA NothingHarmless ==
  /\ \A w : ~ Holds({}, w)
  /\ \A safe : Harmless({}, safe)
  /\ \A D, safe : Harmless(D, {}) => Harmless(D, safe)
  BY DEF Harmless, Holds

\* Where nothing is moved.
LEMMA StaysWith ==
  ASSUME Typed, Covered, Phase, UNCHANGED <<places, history, enclosed>>, disk' = disk,
         \/ Discarding("FAILED_PRESERVED")
         \/ \E status, stashed :
               /\ ReplyNaming(status, stashed)
               /\ status = "FAILED_PRESERVED" \/ NoneAside
  PROVE  Covered' /\ Phase'
  BY CoveredStays, NoneAheadStays, RepliedPhase, DiscardedPhase

LEMMA StashedWork ==
  ASSUME NEW c \in Checkout
  PROVE  /\ Stashed(c).git = c.git /\ Stashed(c).files = {} /\ Stashed(c).commits = c.commits
         /\ Stashed(c).stash = c.stash \cup c.files
         /\ Merged(c).git = c.git /\ Merged(c).files = c.files
         /\ Merged(c).commits = c.commits /\ Merged(c).stash = c.stash
  BY DEF Checkout, Stashed, Merged

\* A directory that is not dirty holds nothing visible.
LEMMA CleanIsSafe ==
  ASSUME Typed, NEW c \in Checkout, NEW safe, Sound(c, safe), ~ Dirty(c)
  PROVE  c.files \cup c.commits \cup c.stash \subseteq safe
  <1>1. CASE c.git
    BY <1>1 DEF Dirty, Sound
  <1>2. CASE ~ c.git
    BY <1>2 DEF Dirty, Sound
  <1> QED BY <1>1, <1>2

LEMMA CloneKeeps ==
  ASSUME Typed, Covered, Phase, Clone
  PROVE  Covered' /\ Phase'
  <1>1. /\ proc.pc = "inspect" /\ UNCHANGED <<places, history, enclosed>> /\ disk' = disk
        /\ run' = run
        /\ proc' = [proc EXCEPT !.pc = "set aside", !.staging = {Cloned}]
        /\ \A c \in Found : ~ Dirty(c)
    BY DEF Clone, AtPlugin, At, Quiet, surroundings
  <1>2. proc'.pc = "set aside" /\ proc'.at = proc.at /\ proc'.staging = {Cloned}
    BY <1>1 DEF Typed, Memory
  <1>3. Slug \in Slugs /\ Found \in SUBSET Checkout
    BY <1>1, FoundTyped
  <1>4. Harmless(Found, Safe(Slug))
    BY <1>1, <1>3, CleanIsSafe DEF Covered, Found, Harmless
  <1>5. Harmless({Cloned}, {})
    BY DEF Harmless, Cloned
  <1>6. Slug' = Slug /\ Found' = Found /\ Safe(Slug)' = Safe(Slug)
    BY <1>1, <1>2, SameItem DEF places, history, Found, Safe
  <1>7. Harmless(Found, Safe(Slug))' /\ Harmless(proc'.staging, {})
    BY <1>2, <1>4, <1>5, <1>6 DEF Harmless
  <1>8. NoneAhead' /\ NoneAside'
    BY <1>1, NoneAheadStays DEF Phase
  <1>9. Phase'
    BY <1>2, <1>7, <1>8 DEF Phase, Moving, Harmless
  <1> QED BY <1>1, <1>9, CoveredStays

LEMMA SetAsideKeeps ==
  ASSUME Typed, Covered, Phase, SetAside
  PROVE  Covered' /\ Phase'
  <1>1. /\ proc.pc = "set aside" /\ UNCHANGED <<history, enclosed>> /\ disk' = disk
        /\ run' = run /\ Go("install")
        /\ aside' = [aside EXCEPT ![Slug][Current] = Found] /\ target' = Put(Slug, {})
    BY DEF SetAside, At, Quiet, surroundings
  <1>2. proc'.pc = "install" /\ proc'.at = proc.at /\ proc'.staging = proc.staging
    BY <1>1, GoFields
  <1>3. Slug \in Slugs /\ Current \in Runs
    BY <1>1, FoundTyped
  <1>4. Placed({}, Found)
    <2>1. Puts({}) /\ PutsAside(Found)
      BY <1>1 DEF Puts, PutsAside
    <2>2. proc.pc \notin {"idle", "judge"}
      BY <1>1
    <2> QED BY <2>1, <2>2, Moved
  <1>5. MovedAside = {}
    BY <1>1, <1>3 DEF Phase, NoneAside, MovedAside
  <1>6. Covered'
    <2>1. Brings({}, Found)
      BY <1>5, NothingHarmless, HarmlessHolds DEF Brings
    <2>2. proc.pc \notin {"idle", "judge"} /\ UNCHANGED <<history, enclosed>>
      BY <1>1
    <2> QED BY <1>4, <2>1, <2>2, MovingKeeps
  <1>7. Slug' = Slug /\ Current' = Current /\ Found' = {} /\ MovedAside' = Found
    BY <1>1, <1>2, <1>3, <1>4, SameItem DEF Placed
  <1>8. Harmless(MovedAside, Safe(Slug))'
    BY <1>1, <1>7 DEF Phase, Safe, Harmless, history
  <1>9. \A s \in Slugs : s # Slug => aside'[s][Current] = {}
    <2>1. NoneAside
      BY <1>1 DEF Phase
    <2> QED BY <1>3, <1>4, <2>1 DEF NoneAside, Placed
  <1>10. NoneAhead'
    BY <1>1, <1>4, NoneAheadMoves
  <1>11. Harmless(proc.staging, {})
    BY <1>1 DEF Phase
  <1>12. Phase'
    BY <1>2, <1>7, <1>8, <1>9, <1>10, <1>11 DEF Phase, Harmless
  <1> QED BY <1>6, <1>12

LEMMA InstallKeeps ==
  ASSUME Typed, Covered, Phase, Install
  PROVE  Covered' /\ Phase'
  <1>1. /\ proc.pc = "install" /\ UNCHANGED <<history, enclosed>> /\ disk' = disk
        /\ aside' = aside /\ target' = Put(Slug, proc.staging)
    BY DEF Install, At, Quiet, Reply, surroundings
  <1>2. Slug \in Slugs /\ Current \in Runs
    BY <1>1, FoundTyped
  <1>3. Placed(proc.staging, MovedAside)
    <2>1. Puts(proc.staging) /\ PutsAside(MovedAside)
      BY <1>1 DEF Puts, PutsAside
    <2>2. proc.pc \notin {"idle", "judge"}
      BY <1>1
    <2> QED BY <2>1, <2>2, Moved
  <1>4. Found = {} /\ Harmless(proc.staging, Safe(Slug))
    BY <1>1, NothingHarmless DEF Phase
  <1>5. \A c \in proc.staging : Sound(c, Safe(Slug))
    BY <1>4, HarmlessHolds
  <1>6. Covered'
    <2>1. Brings(proc.staging, MovedAside)
      BY <1>4, <1>5, NothingHarmless, HarmlessHolds DEF Brings
    <2>2. proc.pc \notin {"idle", "judge"} /\ UNCHANGED <<history, enclosed>>
      BY <1>1
    <2> QED BY <1>3, <2>1, <2>2, MovingKeeps
  <1>7. NoneAhead'
    BY <1>1, <1>3, NoneAheadMoves
  <1>8. CASE MovedAside = {}
    <2>1. ReplyNaming("REFRESHED", {})
      BY <1>8 DEF Install, Reply
    <2>2. NoneAside'
      BY <1>1, <1>2, <1>8 DEF Phase, Moving, NoneAside, MovedAside, Current
    <2> QED BY <1>1, <1>6, <1>7, <2>1, <2>2, RepliedPhase
  <1>9. CASE MovedAside # {}
    <2>1. proc' = [proc EXCEPT !.pc = "drop", !.staging = {}] /\ run' = run
      BY <1>9 DEF Install, Quiet
    <2>2. proc'.pc = "drop" /\ proc'.at = proc.at
      BY <2>1 DEF Typed, Memory
    <2>3. /\ Slug' = Slug /\ Current' = Current /\ Found' = proc.staging
          /\ MovedAside' = MovedAside /\ Safe(Slug)' = Safe(Slug)
      BY <1>1, <1>2, <1>3, <2>1, <2>2, SameItem DEF Safe, history, Placed
    <2>4. Harmless(Found, Safe(Slug))' /\ Harmless(MovedAside, Safe(Slug))'
      BY <1>1, <1>4, <2>3 DEF Phase, Moving, Harmless
    <2>5. \A s \in Slugs : s # Slug => aside'[s][Current] = {}
      BY <1>1 DEF Phase, Moving
    <2>6. Phase'
      BY <1>7, <2>2, <2>3, <2>4, <2>5 DEF Phase, Harmless
    <2> QED BY <1>6, <2>6
  <1> QED BY <1>8, <1>9

LEMMA InstallFailsKeeps ==
  ASSUME Typed, Covered, Phase, InstallFails
  PROVE  Covered' /\ Phase'
  <1>1. /\ proc.pc = "install" /\ UNCHANGED <<places, history, enclosed>> /\ disk' = disk
        /\ run' = run
        /\ Discarding("FAILED_PRESERVED") \/ Go("restore")
    BY DEF InstallFails, At, Fault, surroundings
  <1>2. CASE Discarding("FAILED_PRESERVED")
    BY <1>1, <1>2, StaysWith
  <1>3. CASE Go("restore")
    <2>1. proc'.pc = "restore" /\ proc'.at = proc.at
      BY <1>3, GoFields
    <2>2. /\ Slug' = Slug /\ Current' = Current /\ Found' = Found
          /\ MovedAside' = MovedAside /\ Safe(Slug)' = Safe(Slug)
      BY <1>1, <2>1, SameItem DEF Safe, history, places, Found, MovedAside
    <2>3. Found' = {} /\ Harmless(MovedAside, Safe(Slug))'
      BY <1>1, <2>2 DEF Phase, Moving, Harmless
    <2>4. \A s \in Slugs : s # Slug => aside'[s][Current] = {}
      BY <1>1 DEF Phase, Moving, places
    <2>5. Phase'
      BY <1>1, <2>1, <2>2, <2>3, <2>4, NoneAheadStays DEF Phase, Harmless
    <2> QED BY <1>1, <2>5, CoveredStays
  <1> QED BY <1>1, <1>2, <1>3

LEMMA RestoreKeeps ==
  ASSUME Typed, Covered, Phase, Restore
  PROVE  Covered' /\ Phase'
  <1>1. /\ proc.pc \in {"restore", "put back"} /\ UNCHANGED <<history, enclosed>> /\ disk' = disk
        /\ target' = Put(Slug, MovedAside) /\ aside' = [aside EXCEPT ![Slug][Current] = {}]
        /\ Discarding("FAILED_PRESERVED")
    BY DEF Restore, PutBack, At, Quiet, surroundings
  <1>2. Placed(MovedAside, {})
    <2>1. Puts(MovedAside) /\ PutsAside({})
      BY <1>1 DEF Puts, PutsAside
    <2>2. proc.pc \notin {"idle", "judge"}
      BY <1>1
    <2> QED BY <2>1, <2>2, Moved
  <1>3. Found = {} /\ Harmless(MovedAside, Safe(Slug))
    BY <1>1 DEF Phase, Moving
  <1>4. \A c \in MovedAside : Sound(c, Safe(Slug))
    BY <1>3, HarmlessHolds
  <1>5. Covered'
    <2>1. Brings(MovedAside, {})
      BY <1>3, <1>4, NothingHarmless, HarmlessHolds DEF Brings
    <2>2. proc.pc \notin {"idle", "judge"} /\ UNCHANGED <<history, enclosed>>
      BY <1>1
    <2> QED BY <1>2, <2>1, <2>2, MovingKeeps
  <1> QED BY <1>1, <1>2, <1>5, NoneAheadMoves, DiscardedPhase

LEMMA DropKeeps ==
  ASSUME Typed, Covered, Phase, Drop
  PROVE  Covered' /\ Phase'
  <1>1. /\ proc.pc = "drop" /\ UNCHANGED <<history, enclosed>> /\ disk' = disk
        /\ target' = target /\ aside' = [aside EXCEPT ![Slug][Current] = {}]
        /\ ReplyNaming("REFRESHED", {})
    BY DEF Drop, Reply, At, surroundings
  <1>2. Slug \in Slugs /\ Current \in Runs
    BY <1>1, FoundTyped
  <1>3. Placed(Found, {})
    <2>1. Puts(Found) /\ PutsAside({})
      BY <1>1 DEF Puts, PutsAside
    <2>2. proc.pc \notin {"idle", "judge"}
      BY <1>1
    <2> QED BY <2>1, <2>2, Moved
  <1>4. Harmless(MovedAside, Safe(Slug))
    BY <1>1 DEF Phase, Moving
  <1>5. \A c \in Found : Sound(c, Safe(Slug))
    BY <1>2 DEF Covered, Found
  <1>6. Covered'
    <2>1. Brings(Found, {})
      BY <1>4, <1>5, NothingHarmless, HarmlessHolds DEF Brings
    <2>2. proc.pc \notin {"idle", "judge"} /\ UNCHANGED <<history, enclosed>>
      BY <1>1
    <2> QED BY <1>3, <2>1, <2>2, MovingKeeps
  <1>7. NoneAside'
    BY <1>1, <1>2, <1>3 DEF Phase, Moving, NoneAside, Current, Placed
  <1> QED BY <1>1, <1>3, <1>6, <1>7, NoneAheadMoves, RepliedPhase

LEMMA DropFailsKeeps ==
  ASSUME Typed, Covered, Phase, DropFails
  PROVE  Covered' /\ Phase'
  <1>1. /\ proc.pc = "drop" /\ UNCHANGED <<history, enclosed>> /\ disk' = disk
        /\ run' = run /\ target' = target /\ Go("take out")
    BY DEF DropFails, At, Fault, surroundings
  <1>2. PICK c \in MovedAside : \E left \in Remains(c) :
           aside' = [aside EXCEPT ![Slug][Current] = {left}]
    BY DEF DropFails
  <1>3. PICK left \in Remains(c) : aside' = [aside EXCEPT ![Slug][Current] = {left}]
    BY <1>2
  <1>4. Slug \in Slugs /\ Current \in Runs /\ c \in Checkout
    BY <1>1, FoundTyped
  <1>5. left.files \subseteq c.files /\ left.commits \subseteq c.commits /\ left.stash \subseteq c.stash
    BY <1>4, CheckoutUpdates, CheckoutFields DEF Typed
  <1>6. Placed(Found, {left})
    <2>1. Puts(Found) /\ PutsAside({left})
      BY <1>1, <1>3 DEF Puts, PutsAside
    <2>2. proc.pc \notin {"idle", "judge"}
      BY <1>1
    <2> QED BY <2>1, <2>2, Moved
  <1>7. Harmless(MovedAside, Safe(Slug))
    BY <1>1 DEF Phase, Moving
  <1>8. Harmless({left}, Safe(Slug))
    BY <1>5, <1>7 DEF Harmless
  <1>9. \A d \in Found : Sound(d, Safe(Slug))
    BY <1>4 DEF Covered, Found
  <1>10. Covered'
    <2>1. Brings(Found, {left})
      BY <1>7, <1>9, NothingHarmless, HarmlessHolds DEF Brings
    <2>2. proc.pc \notin {"idle", "judge"} /\ UNCHANGED <<history, enclosed>>
      BY <1>1
    <2> QED BY <1>6, <2>1, <2>2, MovingKeeps
  <1>11. proc'.pc = "take out" /\ proc'.at = proc.at
    BY <1>1, GoFields
  <1>12. /\ Slug' = Slug /\ Current' = Current /\ Found' = Found
         /\ MovedAside' = {left} /\ Safe(Slug)' = Safe(Slug)
    BY <1>1, <1>4, <1>6, <1>11, SameItem DEF Safe, history, Placed
  <1>13. Harmless(Found, Safe(Slug))' /\ Harmless(MovedAside, Safe(Slug))'
    BY <1>1, <1>8, <1>12 DEF Phase, Harmless
  <1>14. \A s \in Slugs : s # Slug => aside'[s][Current] = {}
    BY <1>1, <1>4, <1>6 DEF Phase, Moving, Placed
  <1>15. Phase'
    BY <1>1, <1>6, <1>11, <1>12, <1>13, <1>14, NoneAheadMoves DEF Phase, Harmless
  <1> QED BY <1>10, <1>15

LEMMA TakeOutKeeps ==
  ASSUME Typed, Covered, Phase, TakeOut
  PROVE  Covered' /\ Phase'
  <1>1. /\ proc.pc = "take out" /\ UNCHANGED <<history, enclosed>> /\ disk' = disk
        /\ run' = run /\ aside' = aside /\ target' = Put(Slug, {})
        /\ proc' = [proc EXCEPT !.pc = "put back", !.staging = Found]
    BY DEF TakeOut, At, Quiet, surroundings
  <1>2. Slug \in Slugs /\ Current \in Runs
    BY <1>1, FoundTyped
  <1>3. Placed({}, MovedAside)
    <2>1. Puts({}) /\ PutsAside(MovedAside)
      BY <1>1 DEF Puts, PutsAside
    <2>2. proc.pc \notin {"idle", "judge"}
      BY <1>1
    <2> QED BY <2>1, <2>2, Moved
  <1>4. Harmless(Found, Safe(Slug)) /\ Harmless(MovedAside, Safe(Slug))
    BY <1>1 DEF Phase, Moving
  <1>5. Covered'
    <2>1. Brings({}, MovedAside)
      BY <1>4, NothingHarmless, HarmlessHolds DEF Brings
    <2>2. proc.pc \notin {"idle", "judge"} /\ UNCHANGED <<history, enclosed>>
      BY <1>1
    <2> QED BY <1>3, <2>1, <2>2, MovingKeeps
  <1>6. proc'.pc = "put back" /\ proc'.at = proc.at
    BY <1>1 DEF Typed, Memory
  <1>7. /\ Slug' = Slug /\ Current' = Current /\ Found' = {}
        /\ MovedAside' = MovedAside /\ Safe(Slug)' = Safe(Slug)
    BY <1>1, <1>2, <1>3, <1>6, SameItem DEF Safe, history, Placed
  <1>8. Harmless(MovedAside, Safe(Slug))'
    BY <1>4, <1>7 DEF Harmless
  <1>9. \A s \in Slugs : s # Slug => aside'[s][Current] = {}
    BY <1>1 DEF Phase, Moving
  <1>10. Phase'
    BY <1>1, <1>3, <1>6, <1>7, <1>8, <1>9, NoneAheadMoves DEF Phase, Harmless
  <1> QED BY <1>5, <1>10

\* A checkout changed where it is, with nothing of its work lost.
LEMMA ChangedInPlace ==
  ASSUME Typed, Covered, Phase, proc.pc \notin {"idle", "judge"}, NEW c \in Found, NEW d,
         target' = Put(Slug, {d}), aside' = aside, disk' = disk,
         UNCHANGED <<made, late, enclosed>>,
         \A s \in Slugs : s # Slug => unseen'[s] = unseen[s],
         c.files \cup c.commits \cup c.stash \cup Safe(Slug)
             \subseteq d.files \cup d.commits \cup d.stash \cup unseen'[Slug] \cup late,
         Sound(d, unseen'[Slug] \cup late)
  PROVE  Covered' /\ NoneAhead' /\ (NoneAside => NoneAside') /\ target'[Slug] = {d}
  <1>1. Placed({d}, MovedAside)
    <2>1. Puts({d}) /\ PutsAside(MovedAside)
      BY DEF Puts, PutsAside
    <2> QED BY <2>1, Moved
  <1>2. Found = {c}
    BY FoundTyped DEF Single
  <1>3. Carries({d}, MovedAside)
    BY <1>2 DEF Carries, Holds
  <1>4. target'[Slug] = {d}
    BY <1>1, FoundTyped DEF Placed
  <1>5. NoneAside => NoneAside'
    BY DEF NoneAside, Current
  <1> QED BY <1>1, <1>3, <1>4, <1>5, Keeping, NoneAheadMoves

LEMMA FetchingPhase ==
  ASSUME NoneAhead', NoneAside', disk' = disk, run' = run, proc'.at = proc.at,
         proc'.pc \in {"fetch", "apply"}, \A c \in target'[Slug] : c.git
  PROVE  Phase'
  <1>1. Found' = target'[Slug]
    BY SameItem
  <1> QED BY <1>1 DEF Phase, Moving

\* The work of a checkout once it is stashed.
LEMMA StashedKeeps ==
  ASSUME Typed, Covered, Phase, proc.pc = "inspect", NEW c \in Found, c.git,
         target' = Put(Slug, {Stashed(c)}), aside' = aside, disk' = disk,
         NowUnseen(c.files), UNCHANGED surroundings
  PROVE  Covered' /\ NoneAhead' /\ NoneAside' /\ \A d \in target'[Slug] : d.git
  <1>1. c \in Checkout /\ Slug \in Slugs
    BY FoundTyped
  <1>2. Sound(c, Safe(Slug))
    BY <1>1 DEF Covered, Found
  <1>3. /\ unseen'[Slug] = unseen[Slug] \cup c.files
        /\ \A s \in Slugs : s # Slug => unseen'[s] = unseen[s]
        /\ UNCHANGED <<made, late, enclosed>>
    BY <1>1 DEF NowUnseen, Typed, Local, surroundings
  <1> DEFINE d == Stashed(c)
  <1>4. /\ d.git = c.git /\ d.files = {} /\ d.commits = c.commits
        /\ d.stash = c.stash \cup c.files
    BY <1>1, StashedWork
  <1> HIDE DEF d
  <1>5. Sound(d, unseen'[Slug] \cup late)
    BY <1>2, <1>3, <1>4 DEF Sound, Safe
  <1>6. c.files \cup c.commits \cup c.stash \cup Safe(Slug)
            \subseteq d.files \cup d.commits \cup d.stash \cup unseen'[Slug] \cup late
    BY <1>3, <1>4 DEF Safe
  <1>7. NoneAside /\ proc.pc \notin {"idle", "judge"} /\ target' = Put(Slug, {d})
    BY DEF Phase, d
  <1>8. Covered' /\ NoneAhead' /\ NoneAside' /\ target'[Slug] = {d}
    BY <1>3, <1>5, <1>6, <1>7, ChangedInPlace
  <1> QED BY <1>4, <1>8

\* A checkout merged with the configured branch.
LEMMA MergedKeeps ==
  ASSUME Typed, Covered, Phase, proc.pc = "fetch", NEW c \in Found,
         target' = Put(Slug, {Merged(c)}), aside' = aside, disk' = disk,
         UNCHANGED history, UNCHANGED surroundings
  PROVE  Covered' /\ NoneAhead' /\ NoneAside' /\ \A d \in target'[Slug] : d.git
  <1>1. c \in Checkout /\ Slug \in Slugs /\ c.git
    BY FoundTyped DEF Phase
  <1>2. Sound(c, Safe(Slug))
    BY <1>1 DEF Covered, Found
  <1>3. /\ unseen'[Slug] \cup late = Safe(Slug)
        /\ \A s \in Slugs : s # Slug => unseen'[s] = unseen[s]
        /\ UNCHANGED <<made, late, enclosed>>
    BY DEF history, Safe, surroundings
  <1> DEFINE d == Merged(c)
  <1>4. d.git = c.git /\ d.files = c.files /\ d.commits = c.commits /\ d.stash = c.stash
    BY <1>1, StashedWork
  <1> HIDE DEF d
  <1>5. Sound(d, unseen'[Slug] \cup late)
    BY <1>2, <1>3, <1>4 DEF Sound
  <1>6. c.files \cup c.commits \cup c.stash \cup Safe(Slug)
            \subseteq d.files \cup d.commits \cup d.stash \cup unseen'[Slug] \cup late
    BY <1>3, <1>4
  <1>7. NoneAside /\ proc.pc \notin {"idle", "judge"} /\ target' = Put(Slug, {d})
    BY DEF Phase, d
  <1>8. Covered' /\ NoneAhead' /\ NoneAside' /\ target'[Slug] = {d}
    BY <1>3, <1>5, <1>6, <1>7, ChangedInPlace
  <1> QED BY <1>1, <1>4, <1>8

\* The stash in the files again: its work may no longer count as unseen.
LEMMA ReappliedKeeps ==
  ASSUME Typed, Covered, Phase, proc.pc = "apply", Reapplied, aside' = aside, disk' = disk,
         UNCHANGED surroundings
  PROVE  Covered' /\ NoneAhead' /\ NoneAside'
  <1>1. PICK c \in Found :
           target' = Put(Slug, {[c EXCEPT !.files = @ \cup proc.stashed,
                                          !.whole = @ /\ ~ proc.broken]})
    BY DEF Reapplied
  <1>2. c \in Checkout /\ Slug \in Slugs /\ c.git
    BY FoundTyped DEF Phase
  <1>3. Sound(c, Safe(Slug))
    BY <1>2 DEF Covered, Found
  <1>4. /\ unseen'[Slug] = unseen[Slug] \ proc.stashed
        /\ \A s \in Slugs : s # Slug => unseen'[s] = unseen[s]
        /\ UNCHANGED <<made, late, enclosed>>
    BY <1>2 DEF Reapplied, Typed, Local, surroundings
  <1> DEFINE files == c.files \cup proc.stashed
             whole == c.whole /\ ~ proc.broken
             d == [c EXCEPT !.files = files, !.whole = whole]
  <1>5. target' = Put(Slug, {d})
    BY <1>1
  <1> HIDE DEF whole
  <1>6. d.git = c.git /\ d.files = files /\ d.commits = c.commits /\ d.stash = c.stash
    BY <1>2 DEF Checkout
  <1> HIDE DEF d
  <1>7. Sound(d, unseen'[Slug] \cup late)
    BY <1>2, <1>3, <1>4, <1>6 DEF Sound, Safe
  <1>8. c.files \cup c.commits \cup c.stash \cup Safe(Slug)
            \subseteq d.files \cup d.commits \cup d.stash \cup unseen'[Slug] \cup late
    BY <1>4, <1>6 DEF Safe
  <1>9. NoneAside /\ proc.pc \notin {"idle", "judge"}
    BY DEF Phase
  <1> QED BY <1>4, <1>5, <1>7, <1>8, <1>9, ChangedInPlace

LEMMA UpdatingKeeps ==
  ASSUME Typed, Covered, Phase, Updating
  PROVE  Covered' /\ Phase'
  <1> USE DEF At
  <1>1. CASE UpdateRefused
    <2>1. /\ proc.pc = "inspect" /\ UNCHANGED <<places, history, enclosed>> /\ disk' = disk
          /\ ReplyNaming(Preserved(Item.policy), {})
      BY <1>1 DEF UpdateRefused, Updates, AtPlugin, Reply, surroundings
    <2> QED BY <2>1, StaysWith DEF Phase
  <1>2. CASE StashNothing
    <2>1. /\ proc.pc = "inspect" /\ UNCHANGED <<places, history, enclosed>> /\ disk' = disk
          /\ run' = run /\ Go("fetch") /\ \E c \in Found : c.git
      BY <1>2 DEF StashNothing, Updates, AtPlugin, Quiet, surroundings
    <2>2. proc'.pc = "fetch" /\ proc'.at = proc.at
      BY <2>1, GoFields
    <2>3. \A c \in target'[Slug] : c.git
      BY <2>1, FoundTyped DEF Single, Found, places
    <2>4. NoneAhead' /\ NoneAside'
      BY <2>1, NoneAheadStays DEF Phase
    <2> QED BY <2>1, <2>2, <2>3, <2>4, CoveredStays, FetchingPhase
  <1>3. CASE Stash
    <2>1. PICK c \in Found :
             /\ c.git /\ target' = Put(Slug, {Stashed(c)}) /\ NowUnseen(c.files)
             /\ proc' = [proc EXCEPT !.pc = "fetch", !.stashed = c.files, !.broken = ~ c.whole]
      BY <1>3 DEF Stash
    <2>2. /\ proc.pc = "inspect" /\ disk' = disk /\ run' = run /\ aside' = aside
          /\ UNCHANGED surroundings
      BY <1>3 DEF Stash, Updates, AtPlugin
    <2>3. Covered' /\ NoneAhead' /\ NoneAside' /\ \A d \in target'[Slug] : d.git
      BY <2>1, <2>2, StashedKeeps
    <2> DEFINE broken == ~ c.whole
    <2>4. proc' = [proc EXCEPT !.pc = "fetch", !.stashed = c.files, !.broken = broken]
      BY <2>1
    <2> HIDE DEF broken
    <2>5. proc'.pc = "fetch" /\ proc'.at = proc.at
      BY <2>4 DEF Typed, Memory
    <2> QED BY <2>2, <2>3, <2>5, FetchingPhase
  <1>4. CASE StashFails
    <2>1. proc.pc = "inspect" /\ disk' = disk /\ aside' = aside /\ UNCHANGED surroundings
      BY <1>4 DEF StashFails, Updates, AtPlugin
    <2>2. CASE Reply("FAILED_PRESERVED") /\ UNCHANGED target
      <3>1. /\ UNCHANGED <<places, history, enclosed>>
            /\ ReplyNaming("FAILED_PRESERVED", {})
        BY <2>1, <2>2 DEF Reply, places, surroundings
      <3> QED BY <2>1, <3>1, StaysWith
    <2>3. CASE \E c \in Found :
             /\ c.git /\ target' = Put(Slug, {Stashed(c)})
             /\ ReplyNaming("FAILED_PRESERVED", c.files) /\ NowUnseen(c.files)
      BY <2>1, <2>3, StashedKeeps, RepliedPhase
    <2> QED BY <1>4, <2>2, <2>3 DEF StashFails
  <1>5. CASE Fetch
    <2>1. /\ proc.pc = "fetch" /\ disk' = disk /\ aside' = aside /\ UNCHANGED history
          /\ UNCHANGED surroundings
      BY <1>5 DEF Fetch, Quiet, Reply
    <2>2. PICK c \in Found : target' = Put(Slug, {Merged(c)})
      BY <1>5 DEF Fetch
    <2>3. Covered' /\ NoneAhead' /\ NoneAside' /\ \A d \in target'[Slug] : d.git
      BY <2>1, <2>2, MergedKeeps
    <2>4. CASE HasStash
      <3>1. Go("apply") /\ run' = run
        BY <1>5, <2>4 DEF Fetch, Quiet
      <3>2. proc'.pc = "apply" /\ proc'.at = proc.at
        BY <3>1, GoFields
      <3> QED BY <2>1, <2>3, <3>1, <3>2, FetchingPhase
    <2>5. CASE ~ HasStash
      <3>1. ReplyNaming("REFRESHED", {})
        BY <1>5, <2>5 DEF Fetch, Reply
      <3> QED BY <2>1, <2>3, <3>1, RepliedPhase
    <2> QED BY <2>4, <2>5
  <1>6. CASE FetchFails
    <2>1. /\ proc.pc = "fetch" /\ disk' = disk /\ aside' = aside /\ UNCHANGED history
          /\ UNCHANGED surroundings
          /\ ReplyNaming("FAILED_PRESERVED", proc.stashed)
      BY <1>6 DEF FetchFails
    <2>2. CASE target' = target
      <3>1. UNCHANGED <<places, history, enclosed>>
        BY <2>1, <2>2 DEF places, surroundings
      <3> QED BY <2>1, <3>1, StaysWith
    <2>3. CASE \E c \in Found : target' = Put(Slug, {Merged(c)})
      BY <2>1, <2>3, MergedKeeps, RepliedPhase
    <2> QED BY <1>6, <2>2, <2>3 DEF FetchFails
  <1>7. CASE Apply
    <2>1. /\ proc.pc = "apply" /\ disk' = disk /\ aside' = aside /\ Reapplied
          /\ ReplyNaming("REFRESHED", proc.stashed) /\ UNCHANGED surroundings
      BY <1>7 DEF Apply
    <2> QED BY <2>1, ReappliedKeeps, RepliedPhase
  <1>8. CASE ApplyFails
    <2>1. /\ proc.pc = "apply" /\ disk' = disk /\ aside' = aside
          /\ ReplyNaming("FAILED_PRESERVED", proc.stashed) /\ UNCHANGED surroundings
          /\ Reapplied \/ UNCHANGED <<target, history>>
      BY <1>8 DEF ApplyFails
    <2>2. CASE Reapplied
      BY <2>1, <2>2, ReappliedKeeps, RepliedPhase
    <2>3. CASE UNCHANGED <<target, history>>
      <3>1. UNCHANGED <<places, history, enclosed>>
        BY <2>1, <2>3 DEF places, surroundings
      <3> QED BY <2>1, <3>1, StaysWith
    <2> QED BY <2>1, <2>2, <2>3
  <1> HIDE DEF At
  <1> QED BY <1>1, <1>2, <1>3, <1>4, <1>5, <1>6, <1>7, <1>8 DEF Updating

LEMMA ReplacingKeeps ==
  ASSUME Typed, Covered, Phase, Replacing, ~ DiscardFails
  PROVE  Covered' /\ Phase'
  <1> USE DEF At
  <1>1. CASE ReplaceRefused
    <2>1. /\ proc.pc = "inspect" /\ UNCHANGED <<places, history, enclosed>> /\ disk' = disk
          /\ ReplyNaming(Preserved(Item.policy), {})
      BY <1>1 DEF ReplaceRefused, AtPlugin, Reply, surroundings
    <2> QED BY <2>1, StaysWith DEF Phase
  <1>2. ASSUME UNCHANGED <<places, history, enclosed>>, disk' = disk,
               Discarding("FAILED_PRESERVED")
        PROVE  Covered' /\ Phase'
    BY <1>2, StaysWith
  <1>3. CASE CloneFails
    BY <1>2, <1>3 DEF CloneFails, AtPlugin, Quiet, surroundings
  <1>4. CASE SetAsideFails
    BY <1>2, <1>4 DEF SetAsideFails, Fault, surroundings
  <1>5. CASE TakeOutFails
    BY <1>2, <1>5 DEF TakeOutFails, Fault, surroundings
  <1>6. CASE RestoreFails
    BY <1>2, <1>6 DEF RestoreFails, Fault, surroundings
  <1>7. CASE Discard
    <2>1. /\ UNCHANGED <<places, history, enclosed>> /\ disk' = disk
          /\ ReplyNaming("FAILED_PRESERVED", {})
      BY <1>7 DEF Discard, Reply, surroundings, Phase
    <2> QED BY <2>1, StaysWith
  <1> HIDE DEF At
  <1> QED BY <1>1, <1>3, <1>4, <1>5, <1>6, <1>7, CloneKeeps, SetAsideKeeps, InstallKeeps,
             InstallFailsKeeps, RestoreKeeps, DropKeeps, DropFailsKeeps, TakeOutKeeps
          DEF Replacing

LEMMA InspectionFailsKeeps ==
  ASSUME Typed, Covered, Phase, InspectionFails
  PROVE  Covered' /\ Phase'
  <1>1. /\ UNCHANGED <<places, history, enclosed>> /\ disk' = disk
        /\ ReplyNaming("FAILED_PRESERVED", {})
    BY DEF InspectionFails, AtPlugin, At, Reply, surroundings
  <1> QED BY <1>1, StaysWith

LEMMA EndingKeeps ==
  ASSUME Typed, Covered, Phase, Ending
  PROVE  Covered' /\ Phase'
  <1>1. UNCHANGED <<places, history, enclosed>> /\ proc'.pc = "idle"
    BY DEF Ending, surroundings, Ended, Idle
  <1>2. Current' = Current
    BY SavedTyped DEF Ending, Typed, Memory, Current
  <1>3. NoneAhead'
    BY <1>1, <1>2 DEF Phase, NoneAhead, places
  <1> QED BY <1>1, <1>3, CoveredStays DEF Phase, Moving

LEMMA BeginKeeps ==
  ASSUME Typed, Covered, Phase, NEW m, NEW dry \in BOOLEAN, Begin(m, dry)
  PROVE  Covered' /\ Phase'
  <1>1. /\ UNCHANGED <<places, history, enclosed>> /\ proc.pc = "idle"
        /\ \E x : disk' = Append(disk, x)
        /\ Current < MaxRuns
    BY DEF Begin, surroundings
  <1>2. Current \in Nat /\ Current' = Current + 1
    BY <1>1, LenProperties, AppendProperties DEF Typed, Books, Current
  <1>3. Current' \in Runs /\ Current' > Current /\ \A r \in Runs : r > Current' => r > Current
    BY <1>1, <1>2, ConstantTypes DEF Runs
  <1>4. NoneAhead' /\ NoneAside'
    BY <1>1, <1>3 DEF Phase, NoneAhead, NoneAside, places
  <1>5. proc'.pc \in {"idle", "inspect", "judge"}
    BY <1>1 DEF Begin, First, Idle
  <1> QED BY <1>1, <1>4, <1>5, CoveredStays DEF Phase, Moving

LEMMA EditConfigKeeps ==
  ASSUME Typed, Covered, Phase, NEW list \in Lists, EditConfig(list)
  PROVE  Covered' /\ Phase'
  BY CoveredStays DEF EditConfig, Phase, NoneAhead, NoneAside, Harmless, Found, MovedAside,
                      Slug, Item, Current, Safe, places, history

LEMMA EditKeeps ==
  ASSUME Typed, Covered, Phase, NEW s \in Slugs, NEW w \in Work, NEW committed \in BOOLEAN,
         Edit(s, w, committed)
  PROVE  Covered' /\ Phase'
  <1>1. PICK c \in target[s] :
          /\ committed => c.git
          /\ target' = Put(s, {Worked(c, w, committed)})
          /\ unseen' = [unseen EXCEPT ![s] =
                            IF committed \/ (~ c.git /\ enclosed) THEN @ \cup {w} ELSE @]
    BY DEF Edit, Worked
  <1>2. c \in Checkout /\ target[s] = {c}
    BY DEF Typed, Directories, Single
  <1> DEFINE d == Worked(c, w, committed)
  <1>3. /\ d.git = c.git /\ d.stash = c.stash
        /\ \/ committed /\ d.files = c.files /\ d.commits = c.commits \cup {w}
           \/ ~ committed /\ d.files = c.files \cup {w} /\ d.commits = c.commits
    BY <1>2, WorkedFields
  <1>4. \A o \in Slugs : target'[o] = IF o = s THEN {d} ELSE target[o]
    BY <1>1 DEF Typed, Directories, Put
  <1> HIDE DEF d
  <1>5. /\ made' = [made EXCEPT ![s] = @ \cup {w}] /\ late \subseteq late'
        /\ proc.pc # "idle" => late' = late \cup {w}
        /\ aside' = aside /\ enclosed' = enclosed
        /\ disk' = disk /\ run' = run /\ proc' = proc
    BY DEF Edit, surroundings
  <1>6. /\ \A o \in Slugs : unseen[o] \subseteq unseen'[o]
        /\ committed \/ (~ c.git /\ enclosed) => w \in unseen'[s]
        /\ \A o \in Slugs : made'[o] = IF o = s THEN made[s] \cup {w} ELSE made[o]
    BY <1>1, <1>5 DEF Typed, Local
  <1>7. ASSUME NEW o \in Slugs, NEW v \in made'[o]
        PROVE  v \in Kept(o)' \cup unseen'[o] \cup late'
    <2>1. CASE o = s /\ v = w
      <3>1. v \in d.files \cup d.commits \cup d.stash /\ d \in target'[o]
        BY <1>3, <1>4, <2>1
      <3> QED BY <3>1 DEF Kept
    <2>2. CASE v \in made[o]
      <3>1. CASE v \in Kept(o)
        <4>1. PICK e \in target[o] \cup UNION {aside[o][r] : r \in Runs} :
                 v \in e.files \cup e.commits \cup e.stash
          BY <3>1 DEF Kept
        <4>2. CASE e \in target[o] /\ o = s
          <5>1. v \in d.files \cup d.commits \cup d.stash /\ d \in target'[o]
            BY <1>2, <1>3, <1>4, <4>1, <4>2
          <5> QED BY <5>1 DEF Kept
        <4>3. CASE e \in target[o] /\ o # s
          <5>1. e \in target'[o]
            BY <1>4, <4>3
          <5> QED BY <4>1, <5>1 DEF Kept
        <4>4. CASE e \in UNION {aside[o][r] : r \in Runs}
          <5>1. e \in UNION {aside'[o][r] : r \in Runs}
            BY <1>5, <4>4
          <5> QED BY <4>1, <5>1 DEF Kept
        <4> QED BY <4>1, <4>2, <4>3, <4>4
      <3>2. CASE v \in unseen[o] \cup late
        BY <1>5, <1>6, <3>2
      <3> QED BY <2>2, <3>1, <3>2 DEF Covered, VisibleWorkIsKept
    <2> QED BY <1>6, <1>7, <2>1, <2>2
  <1>8. VisibleWorkIsKept'
    BY <1>7 DEF VisibleWorkIsKept
  <1>9. ASSUME NEW o \in Slugs, NEW e \in target'[o]
        PROVE  Sound(e, Safe(o))'
    <2>1. Safe(o) \subseteq Safe(o)'
      BY <1>5, <1>6 DEF Safe
    <2>2. CASE o # s
      <3>1. Sound(e, Safe(o))
        BY <1>4, <1>9, <2>2 DEF Covered
      <3> QED BY <1>5, <2>1, <3>1 DEF Sound
    <2>3. CASE o = s
      <3>1. e = d /\ Sound(c, Safe(o))
        BY <1>4, <1>9, <2>3 DEF Covered
      <3>2. committed => w \in Safe(o)' /\ c.git
        BY <1>1, <1>6, <2>3 DEF Safe
      <3>3. enclosed /\ ~ c.git => w \in Safe(o)'
        BY <1>6, <2>3 DEF Safe
      <3> QED BY <1>3, <1>5, <2>1, <3>1, <3>2, <3>3 DEF Sound
    <2> QED BY <2>2, <2>3
  <1>10. Covered'
    BY <1>8, <1>9 DEF Covered
  <1>11. /\ NoneAhead => NoneAhead'
         /\ NoneAside => NoneAside'
         /\ Slug' = Slug /\ Current' = Current /\ MovedAside' = MovedAside
         /\ Found' = target'[Slug]
    BY <1>5 DEF NoneAhead, NoneAside, Slug, Item, Current, MovedAside, Found
  <1>12. CASE proc.pc \in {"idle", "judge", "inspect", "discard"}
    <2>1. proc'.pc = proc.pc /\ proc'.outcome = proc.outcome
      BY <1>5
    <2> QED BY <1>10, <1>11, <1>12, <2>1 DEF Phase, Moving
  <1>13. CASE proc.pc \notin {"idle", "judge", "inspect", "discard"}
    <2>1. Slug \in Slugs
      BY <1>13, FoundTyped
    <2>2. Safe(Slug)' = unseen'[Slug] \cup late'
      BY <1>11 DEF Safe
    <2>3. Safe(Slug) \cup {w} \subseteq Safe(Slug)'
      BY <1>5, <1>6, <1>13, <2>1, <2>2 DEF Safe
    <2>4. Harmless(MovedAside, Safe(Slug)) => Harmless(MovedAside, Safe(Slug))'
      BY <1>11, <2>3 DEF Harmless
    <2>5. Found' = IF Slug = s THEN {d} ELSE Found
      BY <1>4, <1>11, <2>1 DEF Found
    <2>6. Slug = s => Found = {c}
      BY <1>2 DEF Found
    <2>7. Harmless(Found, Safe(Slug)) => Harmless(Found, Safe(Slug))'
      BY <1>3, <2>3, <2>5, <2>6 DEF Harmless
    <2>8. Found = {} => Found' = {}
      BY <2>5, <2>6
    <2>9. (\A e \in Found : e.git) => (\A e \in Found' : e.git)
      BY <1>3, <2>5, <2>6
    <2>10. proc.pc \in Moving =>
             \A o \in Slugs : o # Slug' => aside'[o][Current'] = {}
      BY <1>5, <1>11 DEF Phase
    <2>11. proc'.pc = proc.pc /\ (Harmless(proc.staging, {}) => Harmless(proc.staging, {})')
      BY <1>5 DEF Harmless
    <2> QED BY <1>10, <1>11, <1>13, <2>4, <2>7, <2>8, <2>9, <2>10, <2>11 DEF Phase
  <1> QED BY <1>10, <1>12, <1>13

LEMMA NextKeeps ==
  ASSUME Typed, Lineage, Covered, Phase, [Next]_vars
  PROVE  Covered' /\ Phase'
  <1>1. CASE Operator
    BY <1>1, BeginKeeps, EditConfigKeeps, EditKeeps DEF Operator, Execute, Resume
  <1>2. CASE Refused \/ DiscardFails \/ JudgeContinues \/ JudgeStops \/ StopsEarlier \/ Crash
    BY <1>2, Ends, EndingKeeps
  <1>3. CASE UNCHANGED vars
    BY <1>3, CoveredStays DEF vars, Phase, NoneAhead, NoneAside, Harmless, Found, MovedAside,
            Slug, Item, Current, Safe, places, surroundings, history
  <1> QED BY <1>1, <1>2, <1>3, ReplacingKeeps, UpdatingKeeps, InspectionFailsKeeps DEF Next

LEMMA InitKeeps ==
  ASSUME Init
  PROVE  Covered /\ Phase
  <1>1. \A s \in Slugs : made[s] = {} /\ \A c \in target[s] : c.files = {} /\ c.commits = {} /\ c.stash = {}
    BY DEF Init
  <1>2. Covered
    BY <1>1 DEF Covered, VisibleWorkIsKept, Sound
  <1>3. proc.pc = "idle" /\ NoneAhead
    BY DEF Init, Idle, NoneAhead
  <1> QED BY <1>2, <1>3 DEF Phase, Moving

\* Whatever the refresh is asked and wherever it fails or dies, no local work that git
\* status shows is lost (managed_plugins.py 62-82, 223-246, 317-343).
THEOREM WorkKept == Spec => []VisibleWorkIsKept
  <1>1. Init => Covered /\ Phase
    BY InitKeeps
  <1>2. Typed /\ Lineage /\ Covered /\ Phase /\ [Next]_vars => (Covered /\ Phase)'
    BY NextKeeps
  <1>3. Covered => VisibleWorkIsKept
    BY DEF Covered
  <1> QED BY <1>1, <1>2, <1>3, TypedAlways, PTL DEF Spec

-----------------------------------------------------------------------------
(***************************************************************************)
(* One failed move leaves every plugin a directory in its place.           *)
(***************************************************************************)

\* What has gone wrong so far, counted; and no more than the promise allows for.
Tally == mishaps \in [crashed: BOOLEAN, faults: Nat]
Forgiven == mishaps.faults <= 1 /\ ~ mishaps.crashed

\* Between two moves the plugin at hand alone may be out of its place.  What goes in there
\* next is at hand too, the new tree or the former one, and a failure that makes the
\* former one go back is the one the promise allows: the way back does not fail as well.
InPlace(s) == Copies(s) # {} => target[s] # {}
Displaced(s) == proc.pc \in {"install", "restore", "put back"} /\ s = Slug
Lodged ==
    /\ \A s \in Slugs : InPlace(s) \/ Displaced(s)
    /\ proc.pc \in {"set aside", "install"} => proc.staging # {}
    /\ proc.pc = "install" /\ MovedAside = {} => Copies(Slug) = {}
    /\ proc.pc \in {"restore", "take out", "put back"} => mishaps.faults >= 1 /\ MovedAside # {}

LEMMA FaultCounts ==
  ASSUME Tally, mishaps' = [mishaps EXCEPT !.faults = @ + 1]
  PROVE  /\ Tally' /\ mishaps'.crashed = mishaps.crashed
         /\ mishaps'.faults = mishaps.faults + 1 /\ mishaps'.faults >= 1
         /\ mishaps.faults >= 1 => ~ Forgiven'
         /\ Forgiven' => Forgiven
  <1>1. mishaps.faults \in Nat /\ mishaps.crashed \in BOOLEAN
    BY DEF Tally
  <1>2. mishaps' \in [crashed: BOOLEAN, faults: Nat]
    BY DEF Tally
  <1>3. mishaps'.faults = mishaps.faults + 1 /\ mishaps'.crashed = mishaps.crashed
    BY DEF Tally
  <1> QED BY <1>1, <1>2, <1>3 DEF Tally, Forgiven

LEMMA FaultFrees ==
  ASSUME Tally, Fault
  PROVE  /\ Tally' /\ mishaps'.faults >= 1 /\ run' = run
         /\ mishaps.faults >= 1 => ~ Forgiven'
         /\ Forgiven' => Forgiven
  BY FaultCounts DEF Fault

\* With every plugin in its place, and no move under way.
LEMMA RestsLodged ==
  ASSUME \A s \in Slugs : InPlace(s)',
         proc'.pc \notin {"set aside", "install", "restore", "take out", "put back"}
  PROVE  Lodged'
  BY DEF Lodged

LEMMA AllInPlace ==
  ASSUME Lodged, proc.pc \notin {"install", "restore", "put back"}
  PROVE  \A s \in Slugs : InPlace(s)
  BY DEF Lodged, Displaced

LEMMA StaysInPlace ==
  ASSUME UNCHANGED places
  PROVE  \A s \in Slugs : Copies(s)' = Copies(s) /\ (InPlace(s) => InPlace(s)')
  BY DEF InPlace, Copies, places

\* A move leaves the other plugins alone.
LEMMA OthersInPlace ==
  ASSUME Lodged, NEW T, NEW A, Placed(T, A)
  PROVE  \A s \in Slugs : s # Slug => InPlace(s)'
  <1> SUFFICES ASSUME NEW s \in Slugs, s # Slug
               PROVE  InPlace(s)'
    OBVIOUS
  <1>1. target'[s] = target[s] /\ \A r \in Runs : aside'[s][r] = aside[s][r]
    BY DEF Placed
  <1>2. Copies(s)' = Copies(s)
    BY <1>1 DEF Copies
  <1>3. InPlace(s)
    BY DEF Lodged, Displaced
  <1> QED BY <1>1, <1>2, <1>3 DEF InPlace

\* A move that leaves something in the place of the plugin at hand.
LEMMA TakesPlace ==
  ASSUME Typed, Lodged, proc.pc \notin {"idle", "judge"}, NEW T, NEW A,
         Puts(T), PutsAside(A), T # {}
  PROVE  \A s \in Slugs : InPlace(s)'
  <1>1. Placed(T, A) /\ Slug \in Slugs
    BY Moved, FoundTyped
  <1>2. target'[Slug] # {}
    BY <1>1 DEF Placed
  <1> QED BY <1>1, <1>2, OthersInPlace DEF InPlace

\* Where the process is after an answer, and after a failure.
LEMMA RepliedRests ==
  ASSUME NEW status, NEW stashed, ReplyNaming(status, stashed)
  PROVE  proc'.pc \in {"inspect", "judge"} /\ mishaps' = mishaps
  BY DEF ReplyNaming, Idle

LEMMA DiscardedRests ==
  ASSUME Typed, NEW status, Discarding(status)
  PROVE  proc'.pc = "discard"
  BY DEF Discarding, Typed, Memory

LEMMA UpdatingLodged ==
  ASSUME Typed, Lodged, Updating
  PROVE  Lodged' /\ mishaps' = mishaps
  <1>1. ASSUME UpdateRefused
        PROVE  /\ proc.pc = "inspect" /\ UNCHANGED places
               /\ \E status, stashed : ReplyNaming(status, stashed)
    BY <1>1 DEF UpdateRefused, Updates, AtPlugin, At, Reply
  <1>2. ASSUME StashNothing
        PROVE  /\ proc.pc = "inspect" /\ UNCHANGED places /\ proc'.pc = "fetch" /\ mishaps' = mishaps
    BY <1>2, GoFields DEF StashNothing, Updates, AtPlugin, At, Quiet
  <1>3. ASSUME Stash
        PROVE  /\ proc.pc = "inspect" /\ aside' = aside
               /\ \E d : target' = Put(Slug, {d})
               /\ proc'.pc = "fetch" /\ mishaps' = mishaps
    <2>1. PICK c \in Found :
             /\ target' = Put(Slug, {Stashed(c)})
             /\ proc' = [proc EXCEPT !.pc = "fetch", !.stashed = c.files, !.broken = ~ c.whole]
      BY <1>3 DEF Stash
    <2>2. proc'.pc = "fetch"
      BY <2>1 DEF Typed, Memory
    <2> QED BY <1>3, <2>1, <2>2 DEF Stash, Updates, AtPlugin, At
  <1>4. ASSUME StashFails
        PROVE  /\ proc.pc = "inspect" /\ aside' = aside
               /\ target' = target \/ \E d : target' = Put(Slug, {d})
               /\ \E status, stashed : ReplyNaming(status, stashed)
    BY <1>4 DEF StashFails, Updates, AtPlugin, At, Reply
  <1>5. ASSUME Fetch
        PROVE  /\ proc.pc = "fetch" /\ aside' = aside
               /\ \E d : target' = Put(Slug, {d})
               /\ \/ proc'.pc = "apply" /\ mishaps' = mishaps
                  \/ \E status, stashed : ReplyNaming(status, stashed)
    BY <1>5, GoFields DEF Fetch, At, Quiet, Reply
  <1>6. ASSUME FetchFails
        PROVE  /\ proc.pc = "fetch" /\ aside' = aside
               /\ target' = target \/ \E d : target' = Put(Slug, {d})
               /\ \E status, stashed : ReplyNaming(status, stashed)
    BY <1>6 DEF FetchFails, At
  <1>7. ASSUME Apply
        PROVE  /\ proc.pc = "apply" /\ aside' = aside
               /\ \E d : target' = Put(Slug, {d})
               /\ \E status, stashed : ReplyNaming(status, stashed)
    BY <1>7 DEF Apply, At, Reapplied
  <1>8. ASSUME ApplyFails
        PROVE  /\ proc.pc = "apply" /\ aside' = aside
               /\ target' = target \/ \E d : target' = Put(Slug, {d})
               /\ \E status, stashed : ReplyNaming(status, stashed)
    BY <1>8 DEF ApplyFails, At, Reapplied
  <1>9. /\ proc.pc \in {"inspect", "fetch", "apply"} /\ aside' = aside
        /\ target' = target \/ \E d : target' = Put(Slug, {d})
        /\ \/ proc'.pc \in {"fetch", "apply"} /\ mishaps' = mishaps
           \/ \E status, stashed : ReplyNaming(status, stashed)
    BY <1>1, <1>2, <1>3, <1>4, <1>5, <1>6, <1>7, <1>8 DEF Updating, places
  <1>10. proc'.pc \in {"inspect", "judge", "fetch", "apply"} /\ mishaps' = mishaps
    BY <1>9, RepliedRests
  <1>11. ASSUME NEW d, target' = Put(Slug, {d}) PROVE \A s \in Slugs : InPlace(s)'
    <2>1. Puts({d}) /\ PutsAside(MovedAside) /\ {d} # {}
      BY <1>9, <1>11 DEF Puts, PutsAside
    <2>2. proc.pc \notin {"idle", "judge"}
      BY <1>9
    <2> QED BY <2>1, <2>2, TakesPlace
  <1>12. \A s \in Slugs : InPlace(s)'
    BY <1>9, <1>11, AllInPlace, StaysInPlace DEF places
  <1> QED BY <1>10, <1>12, RestsLodged

\* Nothing was moved yet, and the process answers or gives up.
LEMMA RefusedLodged ==
  ASSUME Typed, Lodged, UNCHANGED places, proc.pc \notin {"install", "restore", "put back"},
         proc'.pc \in {"inspect", "judge", "discard", "idle"}
  PROVE  Lodged'
  BY AllInPlace, StaysInPlace, RestsLodged

LEMMA CloneLodged ==
  ASSUME Typed, Lodged, Clone
  PROVE  Lodged'
  <1>1. /\ proc.pc = "inspect" /\ UNCHANGED places
        /\ proc' = [proc EXCEPT !.pc = "set aside", !.staging = {Cloned}]
    BY DEF Clone, AtPlugin, At
  <1>2. proc'.pc = "set aside" /\ proc'.staging # {}
    BY <1>1 DEF Typed, Memory
  <1>3. \A s \in Slugs : InPlace(s)'
    BY <1>1, AllInPlace, StaysInPlace
  <1> QED BY <1>2, <1>3 DEF Lodged

\* Nothing set aside means there was nothing of the plugin anywhere.
LEMMA SetAsideLodged ==
  ASSUME Typed, Lodged, SetAside
  PROVE  Lodged'
  <1>1. /\ proc.pc = "set aside" /\ target' = Put(Slug, {})
        /\ aside' = [aside EXCEPT ![Slug][Current] = Found]
        /\ Go("install") /\ run' = run /\ disk' = disk
    BY DEF SetAside, At, Quiet
  <1>2. Slug \in Slugs /\ Current \in Runs
    BY <1>1, FoundTyped
  <1>3. Placed({}, Found)
    <2>1. Puts({}) /\ PutsAside(Found)
      BY <1>1 DEF Puts, PutsAside
    <2>2. proc.pc \notin {"idle", "judge"}
      BY <1>1
    <2> QED BY <2>1, <2>2, Moved
  <1>4. proc'.pc = "install" /\ proc'.at = proc.at /\ proc'.staging = proc.staging
    BY <1>1, GoFields
  <1>5. Slug' = Slug /\ MovedAside' = Found /\ target'[Slug] = {}
    BY <1>1, <1>2, <1>3, <1>4, SameItem DEF Placed
  <1>6. \A s \in Slugs : InPlace(s)' \/ Displaced(s)'
    BY <1>3, <1>4, <1>5, OthersInPlace DEF Displaced
  <1>7. ASSUME MovedAside' = {} PROVE Copies(Slug)' = {}
    <2>1. InPlace(Slug) /\ target[Slug] = {}
      BY <1>1, <1>2, <1>5, <1>7, AllInPlace DEF Found
    <2>2. \A r \in Runs : aside[Slug][r] = {}
      BY <2>1 DEF InPlace, Copies
    <2>3. \A r \in Runs : aside'[Slug][r] = {}
      BY <1>2, <1>3, <1>5, <1>7, <2>2 DEF Placed
    <2>4. target'[Slug'] = {} /\ \A r \in Runs : aside'[Slug'][r] = {}
      BY <1>5, <2>3
    <2> QED BY <2>4 DEF Copies
  <1>8. proc'.staging # {}
    BY <1>1, <1>4 DEF Lodged
  <1> QED BY <1>4, <1>6, <1>7, <1>8 DEF Lodged

LEMMA InstallLodged ==
  ASSUME Typed, Lodged, Install
  PROVE  Lodged'
  <1>1. /\ proc.pc = "install" /\ aside' = aside /\ target' = Put(Slug, proc.staging)
        /\ proc.staging # {}
    BY DEF Install, At, Lodged
  <1>2. \/ ReplyNaming("REFRESHED", {})
        \/ proc' = [proc EXCEPT !.pc = "drop", !.staging = {}]
    BY DEF Install, Reply
  <1>3. proc'.pc \in {"inspect", "judge", "drop"}
    <2>1. CASE ReplyNaming("REFRESHED", {})
      BY <2>1, RepliedRests
    <2>2. CASE proc' = [proc EXCEPT !.pc = "drop", !.staging = {}]
      BY <2>2 DEF Typed, Memory
    <2> QED BY <1>2, <2>1, <2>2
  <1>4. Puts(proc.staging) /\ PutsAside(MovedAside) /\ proc.pc \notin {"idle", "judge"}
    BY <1>1 DEF Puts, PutsAside
  <1>5. \A s \in Slugs : InPlace(s)'
    BY <1>1, <1>4, TakesPlace
  <1> QED BY <1>3, <1>5, RestsLodged

\* The failure of the installation is the first one, or it is not forgiven.
LEMMA InstallFailsLodged ==
  ASSUME Typed, Lodged, Tally, InstallFails
  PROVE  Lodged'
  <1>1. /\ proc.pc = "install" /\ UNCHANGED places /\ run' = run /\ disk' = disk
        /\ mishaps'.faults >= 1
    BY FaultFrees DEF InstallFails, At
  <1>2. CASE MovedAside = {}
    <2>1. proc'.pc = "discard"
      BY <1>2, DiscardedRests DEF InstallFails
    <2>2. Copies(Slug) = {}
      BY <1>1, <1>2 DEF Lodged
    <2>3. \A s \in Slugs : InPlace(s)
      BY <2>2 DEF Lodged, Displaced, InPlace
    <2> QED BY <1>1, <2>1, <2>3, StaysInPlace, RestsLodged
  <1>3. CASE MovedAside # {}
    <2>1. proc'.pc = "restore" /\ proc'.at = proc.at
      BY <1>3, GoFields DEF InstallFails
    <2>2. Slug' = Slug /\ MovedAside' = MovedAside
      BY <1>1, <2>1, SameItem DEF places, MovedAside
    <2>3. \A s \in Slugs : InPlace(s)' \/ Displaced(s)'
      BY <1>1, <2>1, <2>2, StaysInPlace DEF Lodged, Displaced
    <2> QED BY <1>1, <1>3, <2>1, <2>2, <2>3 DEF Lodged
  <1> QED BY <1>2, <1>3

LEMMA RestoreLodged ==
  ASSUME Typed, Lodged, Restore
  PROVE  Lodged'
  <1>1. /\ proc.pc \in {"restore", "put back"} /\ MovedAside # {}
        /\ target' = Put(Slug, MovedAside) /\ aside' = [aside EXCEPT ![Slug][Current] = {}]
        /\ proc'.pc = "discard"
    BY DiscardedRests DEF Restore, At, PutBack, Lodged
  <1>2. Puts(MovedAside) /\ PutsAside({}) /\ proc.pc \notin {"idle", "judge"}
    BY <1>1 DEF Puts, PutsAside
  <1>3. \A s \in Slugs : InPlace(s)'
    BY <1>1, <1>2, TakesPlace
  <1> QED BY <1>1, <1>3, RestsLodged

\* Only the former directory goes: what was in the place of the plugin stays there.
LEMMA DropInPlace ==
  ASSUME Typed, Lodged, proc.pc = "drop", target' = target, NEW A, A = {} \/ MovedAside # {},
         aside' = [aside EXCEPT ![Slug][Current] = A]
  PROVE  \A s \in Slugs : InPlace(s)'
  <1>1. proc.pc \notin {"idle", "judge"} /\ Slug \in Slugs /\ Current \in Runs
    BY FoundTyped
  <1>2. InPlace(Slug)
    BY <1>1, AllInPlace
  <1>3. Puts(Found) /\ PutsAside(A)
    BY DEF Puts, PutsAside
  <1>4. CASE Found = {}
    <2>1. MovedAside = {} /\ \A r \in Runs : aside[Slug][r] = {}
      BY <1>1, <1>2, <1>4 DEF InPlace, Copies, Found, MovedAside
    <2>2. Placed(Found, {})
      BY <1>1, <1>3, <2>1, Moved
    <2>3. target'[Slug] = {} /\ \A r \in Runs : aside'[Slug][r] = {}
      BY <1>1, <1>4, <2>1, <2>2 DEF Placed
    <2>4. \A s \in Slugs : s = Slug => InPlace(s)'
      BY <2>3 DEF InPlace, Copies
    <2> QED BY <2>2, <2>4, OthersInPlace
  <1> QED BY <1>1, <1>3, <1>4, TakesPlace

LEMMA DropLodged ==
  ASSUME Typed, Lodged, Drop
  PROVE  Lodged'
  <1>1. /\ proc.pc = "drop" /\ target' = target
        /\ aside' = [aside EXCEPT ![Slug][Current] = {}]
        /\ proc'.pc \in {"inspect", "judge"}
    BY RepliedRests DEF Drop, At, Reply
  <1> QED BY <1>1, DropInPlace, RestsLodged

LEMMA DropFailsLodged ==
  ASSUME Typed, Lodged, Tally, DropFails
  PROVE  Lodged'
  <1>1. /\ proc.pc = "drop" /\ target' = target /\ Go("take out") /\ run' = run /\ disk' = disk
        /\ mishaps'.faults >= 1
    BY FaultFrees DEF DropFails, At
  <1>2. PICK c \in MovedAside : \E left \in Remains(c) :
           aside' = [aside EXCEPT ![Slug][Current] = {left}]
    BY DEF DropFails
  <1>3. PICK left \in Remains(c) : aside' = [aside EXCEPT ![Slug][Current] = {left}]
    BY <1>2
  <1>4. proc'.pc = "take out" /\ proc'.at = proc.at
    BY <1>1, GoFields
  <1>5. Slug \in Slugs /\ Current \in Runs /\ proc.pc \notin {"idle", "judge"}
    BY <1>1, FoundTyped
  <1>6. Puts(Found) /\ PutsAside({left})
    BY <1>1, <1>3 DEF Puts, PutsAside
  <1>7. MovedAside' = {left}
    BY <1>1, <1>4, <1>5, <1>6, Moved, SameItem DEF Placed
  <1>8. \A s \in Slugs : InPlace(s)'
    <2>1. MovedAside # {}
      BY <1>2
    <2> QED BY <1>1, <1>3, <2>1, DropInPlace
  <1> QED BY <1>1, <1>4, <1>7, <1>8 DEF Lodged

LEMMA TakeOutLodged ==
  ASSUME Typed, Lodged, TakeOut
  PROVE  Lodged'
  <1>1. /\ proc.pc = "take out" /\ aside' = aside /\ target' = Put(Slug, {})
        /\ proc' = [proc EXCEPT !.pc = "put back", !.staging = Found]
        /\ run' = run /\ disk' = disk /\ mishaps' = mishaps
    BY DEF TakeOut, At, Quiet
  <1>2. Slug \in Slugs /\ Current \in Runs
    BY <1>1, FoundTyped
  <1>3. Placed({}, MovedAside)
    <2>1. Puts({}) /\ PutsAside(MovedAside)
      BY <1>1 DEF Puts, PutsAside
    <2>2. proc.pc \notin {"idle", "judge"}
      BY <1>1
    <2> QED BY <2>1, <2>2, Moved
  <1>4. proc'.pc = "put back" /\ proc'.at = proc.at
    BY <1>1 DEF Typed, Memory
  <1>5. Slug' = Slug /\ MovedAside' = MovedAside
    BY <1>1, <1>4, SameItem DEF MovedAside
  <1>6. \A s \in Slugs : InPlace(s)' \/ Displaced(s)'
    BY <1>3, <1>4, <1>5, OthersInPlace DEF Displaced
  <1>7. mishaps'.faults >= 1 /\ MovedAside' # {}
    BY <1>1, <1>5 DEF Lodged
  <1> QED BY <1>4, <1>6, <1>7 DEF Lodged

\* A way back that fails as well is the second failure.
LEMMA SecondFault ==
  ASSUME Typed, Lodged, Tally, RestoreFails \/ TakeOutFails
  PROVE  ~ Forgiven'
  <1>1. proc.pc \in {"restore", "put back", "take out"} /\ Fault
    BY DEF RestoreFails, TakeOutFails, At
  <1> QED BY <1>1, FaultFrees DEF Lodged

LEMMA ReplacingLodged ==
  ASSUME Typed, Lodged, Tally, Replacing
  PROVE  Forgiven' => Lodged'
  <1>1. CASE ReplaceRefused
    <2>1. /\ UNCHANGED places /\ proc.pc = "inspect"
          /\ proc'.pc \in {"inspect", "judge"}
      BY <1>1, RepliedRests DEF ReplaceRefused, AtPlugin, At, Reply
    <2> QED BY <2>1, RefusedLodged
  <1>2. CASE CloneFails
    <2>1. /\ UNCHANGED places /\ proc.pc = "inspect"
          /\ proc'.pc = "discard"
      BY <1>2, DiscardedRests DEF CloneFails, AtPlugin, At, Quiet
    <2> QED BY <2>1, RefusedLodged
  <1>3. CASE SetAsideFails
    <2>1. /\ UNCHANGED places /\ proc.pc = "set aside" /\ proc'.pc = "discard"
      BY <1>3, DiscardedRests DEF SetAsideFails, At
    <2> QED BY <2>1, RefusedLodged
  <1>4. CASE Discard
    <2>1. /\ UNCHANGED places /\ proc.pc = "discard"
          /\ proc'.pc \in {"inspect", "judge"}
      BY <1>4, RepliedRests DEF Discard, At, Reply
    <2> QED BY <2>1, RefusedLodged
  <1>5. CASE DiscardFails
    <2>1. /\ UNCHANGED places /\ proc.pc = "discard" /\ proc'.pc = "idle"
      BY <1>5 DEF DiscardFails, Ended, Idle
    <2> QED BY <2>1, RefusedLodged
  <1>6. CASE RestoreFails \/ TakeOutFails
    BY <1>6, SecondFault
  <1>7. CASE InstallFails
    BY <1>7, InstallFailsLodged
  <1>8. CASE DropFails
    BY <1>8, DropFailsLodged
  <1>9. CASE Clone \/ SetAside \/ Install \/ Restore \/ Drop \/ TakeOut
    BY <1>9, CloneLodged, SetAsideLodged, InstallLodged, RestoreLodged, DropLodged, TakeOutLodged
  <1> QED BY <1>1, <1>2, <1>3, <1>4, <1>5, <1>6, <1>7, <1>8, <1>9 DEF Replacing

\* The end of a run finds every plugin in its place, unless the process dies.
LEMMA EndingLodged ==
  ASSUME Typed, Lodged, Tally, Refused \/ JudgeContinues \/ JudgeStops \/ StopsEarlier \/ Crash
  PROVE  Forgiven' => Lodged'
  <1>1. CASE Crash
    <2>1. mishaps' = [mishaps EXCEPT !.crashed = TRUE]
      BY <1>1 DEF Crash
    <2>2. Tally' /\ mishaps'.crashed
      BY <2>1 DEF Tally
    <2> QED BY <2>2 DEF Forgiven
  <1>2. CASE ~ Crash
    <2>1. /\ UNCHANGED places /\ proc.pc \in {"inspect", "judge"}
          /\ proc'.pc = "idle"
      BY <1>2 DEF Refused, JudgeContinues, JudgeStops, StopsEarlier, Raises, Ended, Idle
    <2> QED BY <2>1, RefusedLodged
  <1> QED BY <1>1, <1>2

LEMMA OperatorLodged ==
  ASSUME Typed, Lodged, Operator
  PROVE  Lodged' /\ mishaps' = mishaps
  <1>1. ASSUME NEW m, NEW dry \in BOOLEAN, Begin(m, dry) PROVE Lodged' /\ mishaps' = mishaps
    <2>1. UNCHANGED places /\ proc.pc = "idle" /\ mishaps' = mishaps
      BY <1>1 DEF Begin
    <2>2. proc'.pc \in {"idle", "inspect", "judge"}
      BY <1>1 DEF Begin, First, Idle
    <2> QED BY <2>1, <2>2, RefusedLodged
  <1>2. ASSUME NEW list \in Lists, EditConfig(list) PROVE Lodged' /\ mishaps' = mishaps
    <2>1. UNCHANGED places /\ proc.pc = "idle" /\ proc' = proc /\ mishaps' = mishaps
      BY <1>2 DEF EditConfig
    <2> QED BY <2>1, RefusedLodged
  <1>3. ASSUME NEW s \in Slugs, NEW w \in Work, NEW committed \in BOOLEAN, Edit(s, w, committed)
        PROVE  Lodged' /\ mishaps' = mishaps
    <2>1. /\ target[s] # {} /\ \E d : target' = Put(s, {d})
          /\ UNCHANGED <<aside, disk, run, proc, mishaps>>
      BY <1>3 DEF Edit
    <2>2. \A o \in Slugs : /\ o # s => target'[o] = target[o]
                           /\ o = s => target'[o] # {}
      BY <2>1 DEF Put, Typed, Directories
    <2>3. Slug' = Slug /\ MovedAside' = MovedAside
      BY <2>1 DEF Slug, Item, MovedAside, Current
    <2>4. ASSUME NEW o \in Slugs PROVE InPlace(o)' \/ Displaced(o)'
      <3>1. CASE o = s
        BY <2>2, <3>1 DEF InPlace
      <3>2. CASE o # s
        <4>1. Copies(o)' = Copies(o) /\ target'[o] = target[o]
          BY <2>1, <2>2, <3>2 DEF Copies
        <4> QED BY <2>1, <2>3, <4>1 DEF Lodged, InPlace, Displaced
      <3> QED BY <3>1, <3>2
    <2>5. ASSUME proc.pc = "install", MovedAside = {} PROVE Copies(Slug)' = {}
      <3>1. Copies(Slug) = {} /\ Slug \in Slugs
        BY <2>5, FoundTyped DEF Lodged
      <3>2. target[Slug] = {} /\ Slug # s
        BY <2>1, <3>1 DEF Copies
      <3>3. target'[Slug'] = target[Slug]
        BY <2>2, <2>3, <3>1, <3>2
      <3>4. aside'[Slug'] = aside[Slug]
        BY <2>1, <2>3
      <3> QED BY <3>1, <3>3, <3>4 DEF Copies
    <2> QED BY <2>1, <2>3, <2>4, <2>5 DEF Lodged
  <1> QED BY <1>1, <1>2, <1>3 DEF Operator, Execute, Resume

LEMMA InspectionFailsLodged ==
  ASSUME Typed, Lodged, InspectionFails
  PROVE  Lodged' /\ mishaps' = mishaps
  <1>1. /\ UNCHANGED places /\ proc.pc = "inspect" /\ mishaps' = mishaps
        /\ proc'.pc \in {"inspect", "judge"}
    BY RepliedRests DEF InspectionFails, AtPlugin, At, Reply
  <1> QED BY <1>1, RefusedLodged

\* What has gone wrong is never forgotten.
LEMMA NextTally ==
  ASSUME Tally, [Next]_vars
  PROVE  /\ Tally' /\ (Forgiven' => Forgiven) /\ (mishaps.crashed => mishaps'.crashed)
         /\ mishaps'.faults >= mishaps.faults
  <1>1. \/ mishaps' = mishaps
        \/ mishaps' = [mishaps EXCEPT !.faults = @ + 1]
        \/ mishaps' = [mishaps EXCEPT !.crashed = TRUE]
    <2>1. CASE Operator
      BY <2>1 DEF Operator, Execute, Resume, Begin, EditConfig, Edit
    <2>2. CASE Refused \/ InspectionFails \/ JudgeContinues \/ JudgeStops \/ StopsEarlier \/ Crash
      BY <2>2, RepliedRests DEF Refused, InspectionFails, JudgeContinues, JudgeStops, StopsEarlier,
            Crash, Raises, Reply
    <2>3. CASE Replacing
      BY <2>3, RepliedRests
         DEF Replacing, ReplaceRefused, Clone, CloneFails, SetAside, SetAsideFails,
             Install, InstallFails, Restore, RestoreFails, Drop, DropFails, TakeOut, TakeOutFails,
             Discard, DiscardFails, Quiet, Fault, Reply
    <2>4. CASE Updating
      BY <2>4, RepliedRests
         DEF Updating, UpdateRefused, StashNothing, Stash, StashFails, Fetch, FetchFails,
             Apply, ApplyFails, Quiet, Reply
    <2>5. CASE UNCHANGED vars
      BY <2>5 DEF vars
    <2> QED BY <2>1, <2>2, <2>3, <2>4, <2>5 DEF Next
  <1>2. ASSUME mishaps' = [mishaps EXCEPT !.crashed = TRUE]
        PROVE  Tally' /\ mishaps'.crashed /\ ~ Forgiven'
    <2>1. Tally' /\ mishaps'.crashed
      BY <1>2 DEF Tally
    <2> QED BY <2>1 DEF Forgiven
  <1>3. mishaps'.faults >= mishaps.faults
    <2>1. mishaps.faults \in Nat
      BY DEF Tally
    <2>2. CASE mishaps' = mishaps
      BY <2>1, <2>2
    <2>3. CASE mishaps' = [mishaps EXCEPT !.faults = @ + 1]
      <3>1. mishaps'.faults = mishaps.faults + 1
        BY <2>3, FaultCounts
      <3> QED BY <2>1, <3>1
    <2>4. CASE mishaps' = [mishaps EXCEPT !.crashed = TRUE]
      <3>1. mishaps'.faults = mishaps.faults
        BY <2>4 DEF Tally
      <3> QED BY <2>1, <3>1
    <2> QED BY <1>1, <2>2, <2>3, <2>4
  <1>4. CASE mishaps' = mishaps
    BY <1>3, <1>4 DEF Tally, Forgiven
  <1>5. CASE mishaps' = [mishaps EXCEPT !.faults = @ + 1]
    BY <1>3, <1>5, FaultCounts
  <1>6. CASE mishaps' = [mishaps EXCEPT !.crashed = TRUE]
    BY <1>2, <1>3, <1>6
  <1> QED BY <1>1, <1>4, <1>5, <1>6

LEMMA NextLodged ==
  ASSUME Typed, Tally, Forgiven => Lodged, [Next]_vars
  PROVE  Tally' /\ (Forgiven' => Lodged')
  <1>1. Tally' /\ (Forgiven' => Forgiven)
    BY NextTally
  <1> SUFFICES ASSUME Forgiven' PROVE Lodged'
    BY <1>1
  <1>2. Lodged
    BY <1>1
  <1>3. CASE UNCHANGED vars
    BY <1>2, <1>3 DEF vars, places, surroundings, Lodged, InPlace, Displaced, Copies, Slug, Item,
            MovedAside, Current
  <1> QED BY <1>2, <1>3, OperatorLodged, InspectionFailsLodged, EndingLodged, ReplacingLodged,
             UpdatingLodged DEF Next

\* One failed move or removal never leaves a former directory set aside and none in its
\* place, once the run is over: that takes a second failure, or a crash
\* (managed_plugins.py 328-343).
THEOREM FormerComesBack == Spec => []DirectoryIsBack
  <1>1. Init => Tally /\ Lodged
    <2>1. ASSUME Init PROVE Tally
      BY <2>1 DEF Init, Tally
    <2>2. ASSUME Init PROVE Lodged
      <3>1. proc.pc = "idle" /\ \A s \in Slugs, r \in Runs : aside[s][r] = {}
        BY <2>2 DEF Init, Idle
      <3> QED BY <3>1 DEF Lodged, InPlace, Copies
    <2> QED BY <2>1, <2>2
  <1>2. Typed /\ Tally /\ (Forgiven => Lodged) /\ [Next]_vars => (Tally /\ (Forgiven => Lodged))'
    BY NextLodged
  <1>3. (Forgiven => Lodged) => DirectoryIsBack
    BY DEF DirectoryIsBack, Forgiven, Lodged, InPlace, Displaced
  <1> QED BY <1>1, <1>2, <1>3, TypedAlways, PTL DEF Spec

-----------------------------------------------------------------------------
(***************************************************************************)
(* Work that is only in a stash is named in a manifest.                    *)
(***************************************************************************)

Names(results, s, w) == \E i \in DOMAIN results : results[i].slug = s /\ w \in results[i].stashed

\* What the manifests say that nothing overwrites any more: while a run is under way, its
\* own is not one of them.
Told(s, w) == \E r \in 1..Current : (proc.pc # "idle" => r < Current) /\ Names(disk[r].results, s, w)

\* What the process is about to say.
InHand(s, w) ==
    \/ proc.pc \in {"fetch", "apply"} /\ s = Slug /\ w \in proc.stashed
    \/ proc.pc = "judge" /\ Names(run.results, s, w)

\* In its place a checkout has in its files what its stash has and nothing tells of; out of
\* its place, where its files may be removed, all its stash is told of.
Versioned(c) == ~ c.git => c.stash = {}
Shown(c, s) == Versioned(c) /\ \A w \in c.stash \ c.files : Told(s, w) \/ InHand(s, w)
Revealed(c, s) == Versioned(c) /\ \A w \in c.stash : Told(s, w)
Accounted ==
    /\ \A s \in Slugs : \A c \in target[s] : Shown(c, s)
    /\ \A s \in Slugs, r \in Runs : \A c \in aside[s][r] : Revealed(c, s)
    /\ proc.pc = "set aside" => \A c \in Found : Revealed(c, Slug)

LEMMA ToldStays ==
  ASSUME disk' = disk, proc.pc # "idle", proc'.pc # "idle", NEW s, NEW w
  PROVE  Told(s, w)' <=> Told(s, w)
  BY DEF Told, Current

\* Between the answers, all that is hidden in a stash is told of.
LEMMA AllTold ==
  ASSUME Accounted, proc.pc \notin {"fetch", "apply", "judge"}, NEW s \in Slugs, NEW c \in target[s]
  PROVE  Versioned(c) /\ \A w \in c.stash \ c.files : Told(s, w)
  BY DEF Accounted, Shown, InHand

LEMMA StillShown ==
  ASSUME Accounted, UNCHANGED places, disk' = disk,
         proc.pc \notin {"idle", "judge", "fetch", "apply"}, proc'.pc \notin {"idle", "set aside"}
  PROVE  Accounted'
  <1>1. \A s, w : Told(s, w)' <=> Told(s, w)
    BY ToldStays
  <1>2. \A s \in Slugs : \A c \in target'[s] : Shown(c, s)'
    BY <1>1, AllTold DEF Shown, places
  <1>3. \A s \in Slugs, r \in Runs : \A c \in aside'[s][r] : Revealed(c, s)'
    BY <1>1 DEF Accounted, Revealed, places
  <1> QED BY <1>2, <1>3 DEF Accounted

\* A move of the plugin at hand.
LEMMA MoveShows ==
  ASSUME Accounted, proc.pc \notin {"idle", "judge"}, disk' = disk,
         proc'.pc \notin {"idle", "set aside"}, NEW T, NEW A, Placed(T, A),
         \A s : s = Slug => \A c \in T : Shown(c, s)',
         \A c \in A : Revealed(c, Slug)
  PROVE  Accounted'
  <1>1. \A s, w : Told(s, w)' <=> Told(s, w)
    BY ToldStays
  <1>2. ASSUME NEW s \in Slugs, NEW c \in target'[s] PROVE Shown(c, s)'
    <2>1. CASE s = Slug
      BY <1>2, <2>1 DEF Placed
    <2>2. CASE s # Slug
      <3>1. c \in target[s]
        BY <1>2, <2>2 DEF Placed
      <3>2. Versioned(c) /\ \A w \in c.stash \ c.files : Told(s, w)
        BY <2>2, <3>1 DEF Accounted, Shown, InHand
      <3> QED BY <1>1, <3>2 DEF Shown
    <2> QED BY <2>1, <2>2
  <1>3. ASSUME NEW s \in Slugs, NEW r \in Runs, NEW c \in aside'[s][r] PROVE Revealed(c, s)'
    <2>1. Revealed(c, s)
      BY <1>3 DEF Placed, Accounted
    <2> QED BY <1>1, <2>1 DEF Revealed
  <1> QED BY <1>2, <1>3 DEF Accounted

\* What is revealed is shown, wherever it goes.
LEMMA RevealedShown ==
  ASSUME disk' = disk, proc.pc # "idle", proc'.pc # "idle", NEW s, NEW c, Revealed(c, s)
  PROVE  Shown(c, s)'
  BY ToldStays DEF Revealed, Shown

\* The directory at hand of the run that is under way.
LEMMA AtHand ==
  ASSUME Typed, Accounted, proc.pc \notin {"idle", "judge"}
  PROVE  /\ Slug \in Slugs /\ Current \in Runs
         /\ \A c \in Found : c \in target[Slug] /\ c \in Checkout /\ Shown(c, Slug)
         /\ \A c \in MovedAside : c \in Checkout /\ Revealed(c, Slug)
  BY FoundTyped DEF Accounted, Found, MovedAside, Typed, Directories

\* A clean directory has nothing of its stash in its files: all of it is told of.
LEMMA CloneShows ==
  ASSUME Typed, Accounted, Clone
  PROVE  Accounted'
  <1>1. /\ proc.pc = "inspect" /\ UNCHANGED places /\ disk' = disk /\ run' = run
        /\ proc' = [proc EXCEPT !.pc = "set aside", !.staging = {Cloned}]
        /\ \A c \in Found : ~ Dirty(c)
    BY DEF Clone, AtPlugin, At, Quiet
  <1>2. proc'.pc = "set aside" /\ proc'.at = proc.at
    BY <1>1 DEF Typed, Memory
  <1>3. Slug' = Slug /\ Found' = Found /\ Slug \in Slugs
    BY <1>1, <1>2, SameItem, AtHand DEF places, Found
  <1>4. \A s, w : Told(s, w)' <=> Told(s, w)
    BY <1>1, <1>2, ToldStays
  <1>5. ASSUME NEW c \in Found PROVE Revealed(c, Slug)
    <2>1. Versioned(c) /\ \A w \in c.stash \ c.files : Told(Slug, w)
      BY <1>1, <1>3, AllTold DEF Found
    <2>2. c.git => c.files = {}
      BY <1>1 DEF Dirty
    <2> QED BY <2>1, <2>2 DEF Revealed, Versioned
  <1>6. \A c \in Found' : Revealed(c, Slug)'
    BY <1>3, <1>4, <1>5 DEF Revealed
  <1>7. \A s \in Slugs : \A c \in target'[s] : Shown(c, s)'
    BY <1>1, <1>4, AllTold DEF Shown, places
  <1>8. \A s \in Slugs, r \in Runs : \A c \in aside'[s][r] : Revealed(c, s)'
    BY <1>1, <1>4 DEF Accounted, Revealed, places
  <1> QED BY <1>6, <1>7, <1>8 DEF Accounted

LEMMA SetAsideShows ==
  ASSUME Typed, Accounted, SetAside
  PROVE  Accounted'
  <1>1. /\ proc.pc = "set aside" /\ target' = Put(Slug, {}) /\ disk' = disk
        /\ aside' = [aside EXCEPT ![Slug][Current] = Found]
        /\ proc'.pc = "install"
    BY GoFields DEF SetAside, At
  <1>2. Puts({}) /\ PutsAside(Found) /\ proc.pc \notin {"idle", "judge"}
    BY <1>1 DEF Puts, PutsAside
  <1>3. Placed({}, Found)
    BY <1>2, Moved
  <1>4. \A c \in Found : Revealed(c, Slug)
    BY <1>1 DEF Accounted
  <1> QED BY <1>1, <1>2, <1>3, <1>4, MoveShows

LEMMA InstallShows ==
  ASSUME Typed, Accounted, Phase, Install
  PROVE  Accounted'
  <1>1. /\ proc.pc = "install" /\ aside' = aside /\ target' = Put(Slug, proc.staging)
        /\ disk' = disk
    BY DEF Install, At
  <1>2. proc'.pc \in {"inspect", "judge", "drop"}
    <2>1. CASE proc' = [proc EXCEPT !.pc = "drop", !.staging = {}]
      BY <2>1 DEF Typed, Memory
    <2> QED BY <2>1, RepliedRests DEF Install, Reply
  <1>3. Puts(proc.staging) /\ PutsAside(MovedAside) /\ proc.pc \notin {"idle", "judge"}
    BY <1>1 DEF Puts, PutsAside
  <1>4. Placed(proc.staging, MovedAside)
    BY <1>3, Moved
  <1>5. \A c \in proc.staging : c.stash = {}
    BY <1>1 DEF Phase, Harmless
  <1>6. \A s : \A c \in proc.staging : Shown(c, s)'
    BY <1>5 DEF Shown, Versioned
  <1>7. \A c \in MovedAside : Revealed(c, Slug)
    BY <1>3, AtHand
  <1> QED BY <1>1, <1>2, <1>3, <1>4, <1>6, <1>7, MoveShows

LEMMA RestoreShows ==
  ASSUME Typed, Accounted, Restore
  PROVE  Accounted'
  <1> DEFINE A == {}
  <1>1. /\ proc.pc \in {"restore", "put back"} /\ disk' = disk
        /\ target' = Put(Slug, MovedAside) /\ aside' = [aside EXCEPT ![Slug][Current] = A]
        /\ proc'.pc = "discard"
    BY DiscardedRests DEF Restore, At, PutBack
  <1>2. \A c \in A : Revealed(c, Slug)
    OBVIOUS
  <1> HIDE DEF A
  <1>3. Puts(MovedAside) /\ PutsAside(A) /\ proc.pc \notin {"idle", "judge"}
    BY <1>1 DEF Puts, PutsAside
  <1>4. Placed(MovedAside, A)
    BY <1>3, Moved
  <1>5. \A s : s = Slug => \A c \in MovedAside : Shown(c, s)'
    <2> SUFFICES ASSUME NEW s, s = Slug, NEW c \in MovedAside PROVE Shown(c, s)'
      OBVIOUS
    <2>1. Revealed(c, s)
      BY <1>3, AtHand
    <2>2. proc.pc # "idle" /\ proc'.pc # "idle"
      BY <1>1
    <2> QED BY <1>1, <2>1, <2>2, RevealedShown
  <1> QED BY <1>1, <1>2, <1>3, <1>4, <1>5, MoveShows

\* What stays in its place, with the former directory gone or what is left of it aside.
LEMMA DroppedShows ==
  ASSUME Typed, Accounted, proc.pc = "drop", target' = target, disk' = disk,
         proc'.pc \in {"inspect", "judge", "take out"}, NEW A,
         aside' = [aside EXCEPT ![Slug][Current] = A], \A c \in A : Revealed(c, Slug)
  PROVE  Accounted'
  <1>1. Puts(Found) /\ PutsAside(A) /\ proc.pc \notin {"idle", "judge"}
    BY DEF Puts, PutsAside
  <1>2. Placed(Found, A)
    BY <1>1, Moved
  <1>3. \A s : s = Slug => \A c \in Found : Shown(c, s)'
    <2> SUFFICES ASSUME NEW s, s = Slug, NEW c \in Found PROVE Shown(c, s)'
      OBVIOUS
    <2>1. s \in Slugs /\ c \in target[s]
      BY <1>1, AtHand
    <2>2. Versioned(c) /\ \A w \in c.stash \ c.files : Told(s, w)
      BY <2>1, AllTold
    <2> QED BY <2>2, ToldStays DEF Shown
  <1> QED BY <1>1, <1>2, <1>3, MoveShows

LEMMA DropShows ==
  ASSUME Typed, Accounted, Drop
  PROVE  Accounted'
  <1> DEFINE A == {}
  <1>1. /\ proc.pc = "drop" /\ target' = target /\ disk' = disk
        /\ proc'.pc \in {"inspect", "judge"}
        /\ aside' = [aside EXCEPT ![Slug][Current] = A]
    BY RepliedRests DEF Drop, At, Reply
  <1>2. \A c \in A : Revealed(c, Slug)
    OBVIOUS
  <1> HIDE DEF A
  <1> QED BY <1>1, <1>2, DroppedShows

\* What is left of a directory, as to its stash.
LEMMA RemainsReveal ==
  ASSUME NEW s, NEW c \in Checkout, Revealed(c, s), NEW left \in Remains(c)
  PROVE  Revealed(left, s)
  <1>1. left.stash \subseteq c.stash /\ (~ left.git => left.stash = {})
    <2>1. c.stash \in SUBSET Work /\ (~ c.git => c.stash = {})
      BY CheckoutFields DEF Revealed, Versioned
    <2>2. CASE left = c
      BY <2>1, <2>2
    <2>3. CASE \E files \in SUBSET c.files : left = [c EXCEPT !.whole = FALSE, !.files = files]
      BY <2>1, <2>3 DEF Checkout
    <2>4. CASE \E files \in SUBSET c.files :
             left = [c EXCEPT !.whole = FALSE, !.git = FALSE, !.files = files,
                       !.commits = {}, !.stash = {}]
      BY <2>4 DEF Checkout
    <2> QED BY <2>2, <2>3, <2>4 DEF Remains
  <1> QED BY <1>1 DEF Revealed, Versioned

LEMMA DropFailsShows ==
  ASSUME Typed, Accounted, DropFails
  PROVE  Accounted'
  <1>1. /\ proc.pc = "drop" /\ target' = target /\ disk' = disk /\ proc'.pc = "take out"
    BY GoFields DEF DropFails, At
  <1>2. PICK c \in MovedAside : \E left \in Remains(c) :
           aside' = [aside EXCEPT ![Slug][Current] = {left}]
    BY DEF DropFails
  <1>3. PICK left \in Remains(c) : aside' = [aside EXCEPT ![Slug][Current] = {left}]
    BY <1>2
  <1>4. c \in Checkout /\ Revealed(c, Slug)
    BY <1>1, AtHand
  <1>5. Revealed(left, Slug)
    BY <1>4, RemainsReveal
  <1> DEFINE A == {left}
  <1>6. aside' = [aside EXCEPT ![Slug][Current] = A] /\ \A d \in A : Revealed(d, Slug)
    BY <1>3, <1>5
  <1> HIDE DEF A
  <1> QED BY <1>1, <1>6, DroppedShows

LEMMA TakeOutShows ==
  ASSUME Typed, Accounted, TakeOut
  PROVE  Accounted'
  <1>1. /\ proc.pc = "take out" /\ aside' = aside /\ target' = Put(Slug, {}) /\ disk' = disk
        /\ proc' = [proc EXCEPT !.pc = "put back", !.staging = Found]
    BY DEF TakeOut, At
  <1>2. proc'.pc = "put back"
    BY <1>1 DEF Typed, Memory
  <1>3. Puts({}) /\ PutsAside(MovedAside) /\ proc.pc \notin {"idle", "judge"}
    BY <1>1 DEF Puts, PutsAside
  <1>4. Placed({}, MovedAside) /\ \A c \in MovedAside : Revealed(c, Slug)
    BY <1>3, Moved, AtHand
  <1> QED BY <1>1, <1>2, <1>3, <1>4, MoveShows

LEMMA RefusalShows ==
  ASSUME Typed, Accounted,
         \/ InspectionFails \/ ReplaceRefused \/ CloneFails \/ SetAsideFails
         \/ InstallFails \/ RestoreFails \/ TakeOutFails \/ Discard
         \/ UpdateRefused \/ StashNothing
  PROVE  Accounted'
  <1>1. CASE InspectionFails \/ ReplaceRefused \/ UpdateRefused \/ Discard
    <2>1. /\ UNCHANGED places /\ disk' = disk /\ proc.pc \in {"inspect", "discard"}
          /\ proc'.pc \in {"inspect", "judge"}
      BY <1>1, RepliedRests DEF InspectionFails, ReplaceRefused, UpdateRefused, Discard, Updates,
            AtPlugin, At, Reply
    <2> QED BY <2>1, StillShown
  <1>2. CASE CloneFails \/ SetAsideFails \/ RestoreFails \/ TakeOutFails
    <2>1. /\ UNCHANGED places /\ disk' = disk
          /\ proc.pc \in {"inspect", "set aside", "restore", "put back", "take out"}
          /\ proc'.pc = "discard"
      BY <1>2, DiscardedRests DEF CloneFails, SetAsideFails, RestoreFails, TakeOutFails, AtPlugin, At
    <2> QED BY <2>1, StillShown
  <1>3. CASE InstallFails
    <2>1. /\ UNCHANGED places /\ disk' = disk /\ proc.pc = "install"
          /\ proc'.pc \in {"discard", "restore"}
      BY <1>3, DiscardedRests, GoFields DEF InstallFails, At
    <2> QED BY <2>1, StillShown
  <1>4. CASE StashNothing
    <2>1. /\ UNCHANGED places /\ disk' = disk /\ proc.pc = "inspect" /\ proc'.pc = "fetch"
      BY <1>4, GoFields DEF StashNothing, Updates, AtPlugin, At
    <2> QED BY <2>1, StillShown
  <1> QED BY <1>1, <1>2, <1>3, <1>4

\* An answer that fails is what the process says of the plugin in the end.
LEMMA FailureNames ==
  ASSUME Typed, proc.pc \notin {"idle", "judge"}, NEW stashed \in SUBSET Work,
         ReplyNaming("FAILED_PRESERVED", stashed), disk' = disk
  PROVE  /\ proc'.pc = "judge"
         /\ \A w \in stashed : Names(run'.results, Slug, w)
  <1> DEFINE answer == Answer("FAILED_PRESERVED", stashed)
             results == Append(proc.results, answer)
  <1>1. proc'.pc = "judge" /\ run' = [run EXCEPT !.results = results]
    BY DEF ReplyNaming, Idle
  <1>2. answer.slug = Slug /\ answer.stashed = stashed
    BY DEF Answer
  <1>3. Len(results) \in DOMAIN results /\ results[Len(results)] = answer
    <2>1. answer \in Result
      BY ItemTyped DEF Typed, Answer, Result
    <2> QED BY <2>1, AppendProperties, LenProperties DEF Typed, Memory
  <1> HIDE DEF results
  <1>4. run'.results = results
    BY <1>1 DEF Typed, Books, Manifest
  <1> QED BY <1>1, <1>2, <1>3, <1>4 DEF Names

\* A checkout changed where it is.
LEMMA ChangedShows ==
  ASSUME Typed, Accounted, proc.pc \in {"inspect", "fetch", "apply"}, aside' = aside, disk' = disk,
         proc'.pc \notin {"idle", "set aside"}, NEW d, target' = Put(Slug, {d}),
         \A s : s = Slug => Shown(d, s)'
  PROVE  Accounted'
  <1>1. Puts({d}) /\ PutsAside(MovedAside) /\ proc.pc \notin {"idle", "judge"}
    BY DEF Puts, PutsAside
  <1>2. Placed({d}, MovedAside) /\ \A c \in MovedAside : Revealed(c, Slug)
    BY <1>1, Moved, AtHand
  <1>3. \A s : s = Slug => \A c \in {d} : Shown(c, s)'
    OBVIOUS
  <1> QED BY <1>1, <1>2, <1>3, MoveShows

\* The checkout at hand, with its fields.
LEMMA FoundFields ==
  ASSUME Typed, Accounted, proc.pc \notin {"idle", "judge"}, NEW c \in Found
  PROVE  /\ c \in Checkout /\ Slug \in Slugs /\ Shown(c, Slug)
         /\ c.files \in SUBSET Work /\ c.stash \in SUBSET Work
         /\ c.git \in BOOLEAN
  BY AtHand, CheckoutFields

\* Pushed on the stash: what was in the files is at hand, or named at once.
LEMMA StashShows ==
  ASSUME Typed, Accounted, Stash \/ StashFails
  PROVE  Accounted'
  <1>1. proc.pc = "inspect" /\ disk' = disk /\ aside' = aside
    BY DEF Stash, StashFails, Updates, AtPlugin, At
  <1>2. CASE StashFails /\ target' = target /\ \E status, stashed : ReplyNaming(status, stashed)
    <2>1. UNCHANGED places /\ proc'.pc \in {"inspect", "judge"}
      BY <1>1, <1>2, RepliedRests DEF places
    <2> QED BY <1>1, <2>1, StillShown
  <1>3. ASSUME NEW c \in Found, c.git, target' = Put(Slug, {Stashed(c)}),
               proc'.pc \in {"fetch", "judge"},
               \A s : s = Slug => \A w \in c.files : InHand(s, w)'
        PROVE  Accounted'
    <2>1. c \in Checkout /\ c \in target[Slug] /\ Slug \in Slugs
      BY <1>1, AtHand
    <2>2. \A w \in c.stash \ c.files : Told(Slug, w)
      BY <1>1, <2>1, AllTold
    <2>3. Stashed(c).git /\ Stashed(c).stash = c.stash \cup c.files
      BY <1>3, <2>1, StashedWork
    <2>4. \A s, w : Told(s, w)' <=> Told(s, w)
      BY <1>1, <1>3, ToldStays
    <2>5. ASSUME NEW s, s = Slug PROVE Shown(Stashed(c), s)'
      BY <1>3, <2>2, <2>3, <2>4, <2>5 DEF Shown, Versioned
    <2> QED BY <1>1, <1>3, <2>5, ChangedShows
  <1>4. CASE Stash
    <2>1. PICK c \in Found :
             /\ c.git /\ target' = Put(Slug, {Stashed(c)})
             /\ proc' = [proc EXCEPT !.pc = "fetch", !.stashed = c.files, !.broken = ~ c.whole]
      BY <1>4 DEF Stash
    <2>2. proc'.pc = "fetch" /\ proc'.stashed = c.files /\ proc'.at = proc.at /\ run' = run
      BY <1>4, <2>1 DEF Typed, Memory, Stash
    <2>3. Slug' = Slug
      BY <1>1, <2>2, SameItem
    <2>4. \A s : s = Slug => \A w \in c.files : InHand(s, w)'
      BY <2>2, <2>3 DEF InHand
    <2> QED BY <1>3, <2>1, <2>2, <2>4
  <1>5. ASSUME NEW c \in Found, c.git, target' = Put(Slug, {Stashed(c)}),
               ReplyNaming("FAILED_PRESERVED", c.files)
        PROVE  Accounted'
    <2>1. c.files \in SUBSET Work /\ proc.pc \notin {"idle", "judge"}
      BY <1>1, FoundFields
    <2>2. proc'.pc = "judge" /\ \A w \in c.files : Names(run'.results, Slug, w)
      BY <1>1, <1>5, <2>1, FailureNames
    <2>3. \A s : s = Slug => \A w \in c.files : InHand(s, w)'
      BY <2>2 DEF InHand
    <2> QED BY <1>3, <1>5, <2>2, <2>3
  <1>6. CASE StashFails
    BY <1>2, <1>5, <1>6 DEF StashFails, Reply
  <1> QED BY <1>4, <1>6

\* What is at hand after the stash was pushed, in the words of the next state.
LEMMA KeptInHand ==
  ASSUME Typed, Accounted, proc.pc \in {"fetch", "apply"}, disk' = disk,
         proc'.pc # "idle", NEW c \in Found, NEW d,
         d.git = c.git, d.stash = c.stash, c.files \subseteq d.files,
         \A s : s = Slug => \A w \in proc.stashed : w \in d.files \/ InHand(s, w)'
  PROVE  \A s : s = Slug => Shown(d, s)'
  <1> SUFFICES ASSUME NEW s, s = Slug PROVE Shown(d, s)'
    OBVIOUS
  <1>1. Shown(c, Slug)
    BY AtHand
  <1>2. \A w \in c.stash \ c.files : Told(Slug, w) \/ w \in proc.stashed
    BY <1>1 DEF Shown, InHand
  <1>3. \A v, w : Told(v, w)' <=> Told(v, w)
    BY ToldStays
  <1>4. Versioned(d)
    BY <1>1 DEF Shown, Versioned
  <1>5. ASSUME NEW w \in d.stash \ d.files PROVE Told(s, w)' \/ InHand(s, w)'
    BY <1>2, <1>3, <1>5
  <1> QED BY <1>4, <1>5 DEF Shown

\* The answer of a fetch or of an application that fails names the stash.
LEMMA AnsweredInHand ==
  ASSUME Typed, proc.pc \in {"fetch", "apply"}, disk' = disk,
         ReplyNaming("FAILED_PRESERVED", proc.stashed)
  PROVE  /\ proc'.pc = "judge"
         /\ \A s : s = Slug => \A w \in proc.stashed : InHand(s, w)'
  <1>1. proc.stashed \in SUBSET Work
    BY DEF Typed, Memory
  <1>2. proc'.pc = "judge" /\ \A w \in proc.stashed : Names(run'.results, Slug, w)
    BY <1>1, FailureNames
  <1> QED BY <1>2 DEF InHand

\* Nothing moved, with the stash at hand still.
LEMMA UnmovedShows ==
  ASSUME Typed, Accounted, proc.pc \in {"fetch", "apply"}, UNCHANGED places, disk' = disk,
         proc'.pc = "judge", \A s : s = Slug => \A w \in proc.stashed : InHand(s, w)'
  PROVE  Accounted'
  <1>1. Puts(Found) /\ PutsAside(MovedAside) /\ proc.pc \notin {"idle", "judge"}
    BY DEF Puts, PutsAside, places
  <1>2. Placed(Found, MovedAside) /\ \A c \in MovedAside : Revealed(c, Slug)
    BY <1>1, Moved, AtHand
  <1>3. \A s : s = Slug => \A c \in Found : Shown(c, s)'
    BY KeptInHand
  <1> QED BY <1>1, <1>2, <1>3, MoveShows

LEMMA MergedShows ==
  ASSUME Typed, Accounted, proc.pc = "fetch", aside' = aside, disk' = disk,
         NEW c \in Found, target' = Put(Slug, {Merged(c)}), proc'.pc \notin {"idle", "set aside"},
         \A s : s = Slug => \A w \in proc.stashed : InHand(s, w)'
  PROVE  Accounted'
  <1>1. c \in Checkout
    BY AtHand
  <1>2. Merged(c).git = c.git /\ Merged(c).stash = c.stash /\ Merged(c).files = c.files
    BY <1>1, StashedWork
  <1>3. PICK d : d = Merged(c)
    OBVIOUS
  <1>4. d.git = c.git /\ d.stash = c.stash /\ c.files \subseteq d.files
    BY <1>2, <1>3
  <1>5. \A s : s = Slug => Shown(d, s)'
    BY <1>4, KeptInHand
  <1>6. target' = Put(Slug, {d})
    BY <1>3
  <1> QED BY <1>5, <1>6, ChangedShows

LEMMA FetchShows ==
  ASSUME Typed, Accounted, Fetch \/ FetchFails
  PROVE  Accounted'
  <1>1. proc.pc = "fetch" /\ disk' = disk /\ aside' = aside
    BY DEF Fetch, FetchFails, At
  <1>2. CASE Fetch
    <2>1. PICK c \in Found : target' = Put(Slug, {Merged(c)})
      BY <1>2 DEF Fetch
    <2>2. proc'.pc \in {"apply", "inspect", "judge"}
      BY <1>2, GoFields, RepliedRests DEF Fetch, Reply
    <2>3. \A s : s = Slug => \A w \in proc.stashed : InHand(s, w)'
      <3>1. CASE HasStash
        <4>1. Go("apply") /\ run' = run
          BY <1>2, <3>1 DEF Fetch, Quiet
        <4>2. proc'.pc = "apply" /\ proc'.at = proc.at /\ proc'.stashed = proc.stashed
          BY <4>1 DEF Go, Typed, Memory
        <4>3. Slug' = Slug
          BY <1>1, <4>1, <4>2, SameItem
        <4> QED BY <4>2, <4>3 DEF InHand
      <3>2. CASE ~ HasStash
        BY <3>2 DEF HasStash
      <3> QED BY <3>1, <3>2
    <2> QED BY <1>1, <2>1, <2>2, <2>3, MergedShows
  <1>3. CASE FetchFails
    <2>1. ReplyNaming("FAILED_PRESERVED", proc.stashed)
      BY <1>3 DEF FetchFails
    <2>2. /\ proc'.pc = "judge"
          /\ \A s : s = Slug => \A w \in proc.stashed : InHand(s, w)'
      BY <1>1, <2>1, AnsweredInHand
    <2>3. target' = target \/ \E c \in Found : target' = Put(Slug, {Merged(c)})
      BY <1>3 DEF FetchFails
    <2> QED BY <1>1, <2>2, <2>3, MergedShows, UnmovedShows DEF places
  <1> QED BY <1>2, <1>3

\* Applied, the stash is in the files again, and needs no telling.
LEMMA ReappliedShows ==
  ASSUME Typed, Accounted, proc.pc = "apply", aside' = aside, disk' = disk, Reapplied,
         proc'.pc \in {"inspect", "judge"}
  PROVE  Accounted'
  <1> DEFINE Files(c) == c.files \cup proc.stashed
             Entire(c) == c.whole /\ ~ proc.broken
             After(c) == [c EXCEPT !.files = Files(c), !.whole = Entire(c)]
  <1>1. PICK c \in Found : target' = Put(Slug, {After(c)})
    BY DEF Reapplied
  <1>2. c \in Checkout
    BY AtHand
  <1> HIDE DEF Files, Entire
  <1>3. After(c).git = c.git /\ After(c).stash = c.stash /\ After(c).files = Files(c)
    BY <1>2 DEF Checkout
  <1> HIDE DEF After
  <1>4. PICK d : d = After(c)
    OBVIOUS
  <1>5. \A s : s = Slug => Shown(d, s)'
    <2>1. c.files \subseteq d.files /\ proc.stashed \subseteq d.files
      BY <1>3, <1>4 DEF Files
    <2>2. d.git = c.git /\ d.stash = c.stash
      BY <1>3, <1>4
    <2>3. \A s : s = Slug => \A w \in proc.stashed : w \in d.files \/ InHand(s, w)'
      BY <2>1
    <2> QED BY <2>1, <2>2, <2>3, KeptInHand
  <1>6. target' = Put(Slug, {d})
    BY <1>1, <1>4
  <1> QED BY <1>5, <1>6, ChangedShows

LEMMA ApplyShows ==
  ASSUME Typed, Accounted, Apply \/ ApplyFails
  PROVE  Accounted'
  <1>1. proc.pc = "apply" /\ disk' = disk /\ aside' = aside
    BY DEF Apply, ApplyFails, At
  <1>2. proc'.pc \in {"inspect", "judge"}
    BY RepliedRests DEF Apply, ApplyFails
  <1>3. CASE Reapplied
    BY <1>1, <1>2, <1>3, ReappliedShows
  <1>4. CASE ApplyFails /\ target' = target
    <2>1. ReplyNaming("FAILED_PRESERVED", proc.stashed)
      BY <1>4 DEF ApplyFails
    <2>2. /\ proc'.pc = "judge"
          /\ \A s : s = Slug => \A w \in proc.stashed : InHand(s, w)'
      BY <1>1, <2>1, AnsweredInHand
    <2> QED BY <1>1, <1>4, <2>2, UnmovedShows DEF places
  <1> QED BY <1>3, <1>4 DEF Apply, ApplyFails

\* The manifest a run leaves behind says what the process was about to say.
LEMMA EndsNaming ==
  ASSUME Typed, Refused \/ DiscardFails \/ JudgeContinues \/ JudgeStops \/ StopsEarlier
  PROVE  /\ proc.pc \in {"inspect", "discard", "judge"} /\ UNCHANGED places /\ proc'.pc = "idle"
         /\ \E m \in Manifest : disk' = Saved(m) /\ m.results = run.results
  <1>1. run \in Manifest
    BY DEF Typed, Books
  <1>2. Closed(run) \in Manifest /\ Closed(run).results = run.results
    BY <1>1 DEF Closed, Manifest
  <1> DEFINE x == [Closed(run) EXCEPT !.failed = FALSE]
             y == [run EXCEPT !.status = "EXECUTED", !.done = TRUE, !.printed = TRUE]
  <1>3. x \in Manifest /\ x.results = run.results
    BY <1>1 DEF Closed, Manifest
  <1>4. y \in Manifest /\ y.results = run.results
    BY <1>1 DEF Manifest
  <1>5. /\ proc.pc \in {"inspect", "discard", "judge"} /\ UNCHANGED places /\ proc'.pc = "idle"
        /\ disk' = Saved(Closed(run)) \/ disk' = Saved(x) \/ disk' = Saved(y)
    BY DEF Refused, DiscardFails, JudgeContinues, JudgeStops, StopsEarlier, Raises, Ended, Idle
  <1> QED BY <1>2, <1>3, <1>4, <1>5

LEMMA EndingShows ==
  ASSUME Typed, Accounted, Refused \/ DiscardFails \/ JudgeContinues \/ JudgeStops \/ StopsEarlier
  PROVE  Accounted'
  <1>1. /\ proc.pc \in {"inspect", "discard", "judge"} /\ UNCHANGED places /\ proc'.pc = "idle"
        /\ Books /\ Current \in Runs
    BY EndsNaming DEF Typed, Memory
  <1>2. PICK m \in Manifest : disk' = Saved(m) /\ m.results = run.results
    BY EndsNaming
  <1>3. /\ Current' = Current
        /\ \A r \in 1..Current : disk'[r] = IF r = Current THEN m ELSE disk[r]
    BY <1>1, <1>2, SavedTyped DEF Current
  <1>4. ASSUME NEW s, NEW w, Told(s, w) PROVE Told(s, w)'
    <2>1. PICK r \in 1..Current : r < Current /\ Names(disk[r].results, s, w)
      BY <1>1, <1>4 DEF Told
    <2>2. r # Current
      BY <1>1, <2>1 DEF Runs
    <2>3. disk'[r] = disk[r]
      BY <1>3, <2>1, <2>2
    <2> QED BY <1>1, <1>3, <2>1, <2>3 DEF Told, Names
  <1>5. ASSUME NEW s, NEW w, InHand(s, w) PROVE Told(s, w)'
    <2>1. Names(run.results, s, w)
      BY <1>1, <1>5 DEF InHand
    <2>2. Current \in 1..Current
      BY <1>1 DEF Runs
    <2>3. Names(disk'[Current].results, s, w)
      BY <1>2, <1>3, <2>1, <2>2 DEF Names
    <2> QED BY <1>1, <1>3, <2>2, <2>3 DEF Told, Names
  <1>6. \A s \in Slugs : \A c \in target'[s] : Shown(c, s)'
    BY <1>1, <1>4, <1>5 DEF Accounted, Shown, places
  <1>7. \A s \in Slugs, r \in Runs : \A c \in aside'[s][r] : Revealed(c, s)'
    BY <1>1, <1>4 DEF Accounted, Revealed, places
  <1> QED BY <1>1, <1>6, <1>7 DEF Accounted

LEMMA BeginShows ==
  ASSUME Typed, Accounted, NEW m, NEW dry \in BOOLEAN, Begin(m, dry)
  PROVE  Accounted'
  <1>1. /\ UNCHANGED places /\ proc.pc = "idle" /\ disk \in Seq(Manifest)
        /\ \E x : disk' = Append(disk, x)
    BY DEF Begin, Typed, Books
  <1>2. PICK x : disk' = Append(disk, x)
    BY <1>1
  <1>3. /\ Current \in Nat /\ Current' = Current + 1
        /\ \A r \in 1..Current : disk'[r] = disk[r]
    BY <1>1, <1>2, AppendProperties, LenProperties DEF Current
  <1>4. proc'.pc \in {"idle", "inspect", "judge"}
    BY <1>1 DEF Begin, First, Idle
  <1>5. ASSUME NEW s, NEW w, Told(s, w) PROVE Told(s, w)'
    <2>1. PICK r \in 1..Current : Names(disk[r].results, s, w)
      BY <1>5 DEF Told
    <2>2. r \in 1..Current' /\ r < Current'
      BY <1>3
    <2> QED BY <1>3, <2>1, <2>2 DEF Told, Names
  <1>6. \A s \in Slugs : \A c \in target'[s] : Shown(c, s)'
    BY <1>1, <1>5, AllTold DEF Shown, places
  <1>7. \A s \in Slugs, r \in Runs : \A c \in aside'[s][r] : Revealed(c, s)'
    BY <1>1, <1>5 DEF Accounted, Revealed, places
  <1> QED BY <1>4, <1>6, <1>7 DEF Accounted

\* Work done on a plugin is in its files or commits, whatever its stash.
LEMMA EditShows ==
  ASSUME Typed, Accounted, NEW s \in Slugs, NEW w \in Work, NEW committed \in BOOLEAN,
         Edit(s, w, committed)
  PROVE  Accounted'
  <1>1. PICK c \in target[s] : target' = Put(s, {Worked(c, w, committed)})
    BY DEF Edit, Worked
  <1>2. c \in Checkout
    BY DEF Typed, Directories
  <1> DEFINE d == Worked(c, w, committed)
  <1>3. d.git = c.git /\ d.stash = c.stash /\ c.files \subseteq d.files
    BY <1>2, WorkedFields
  <1>4. \A o \in Slugs : target'[o] = IF o = s THEN {d} ELSE target[o]
    BY <1>1 DEF Typed, Directories, Put
  <1> HIDE DEF d
  <1>5. UNCHANGED <<aside, disk, run, proc>>
    BY DEF Edit
  <1>6. \A o, v : (Told(o, v)' <=> Told(o, v)) /\ (InHand(o, v)' <=> InHand(o, v))
    BY <1>5 DEF Told, InHand, Current, Names, Slug, Item
  <1>7. ASSUME NEW o \in Slugs, NEW e \in target'[o] PROVE Shown(e, o)'
    <2>1. CASE o = s
      <3>1. e = d /\ Shown(c, o)
        BY <1>4, <1>7, <2>1 DEF Accounted
      <3> QED BY <1>3, <1>6, <3>1 DEF Shown, Versioned
    <2>2. CASE o # s
      <3>1. Shown(e, o)
        BY <1>4, <1>7, <2>2 DEF Accounted
      <3> QED BY <1>6, <3>1 DEF Shown
    <2> QED BY <2>1, <2>2
  <1>8. \A o \in Slugs, r \in Runs : \A e \in aside'[o][r] : Revealed(e, o)'
    BY <1>5, <1>6 DEF Accounted, Revealed
  <1>9. ASSUME proc.pc = "set aside" PROVE \A e \in Found' : Revealed(e, Slug)'
    <2>1. Slug' = Slug /\ Slug \in Slugs /\ \A e \in Found : Revealed(e, Slug)
      BY <1>5, <1>9, FoundTyped DEF Accounted, Slug, Item
    <2>2. Found' = IF Slug = s THEN {d} ELSE Found
      BY <1>4, <2>1 DEF Found
    <2>3. Slug = s => Revealed(d, Slug)
      BY <1>3, <2>1 DEF Found, Revealed, Versioned
    <2>4. \A e \in Found' : Revealed(e, Slug)
      BY <2>1, <2>2, <2>3
    <2> QED BY <1>6, <2>1, <2>4 DEF Revealed
  <1> QED BY <1>5, <1>7, <1>8, <1>9 DEF Accounted

LEMMA UnchangedShows ==
  ASSUME Accounted, UNCHANGED <<places, disk, run, proc>>
  PROVE  Accounted'
  <1>1. \A s, w : (Told(s, w)' <=> Told(s, w)) /\ (InHand(s, w)' <=> InHand(s, w))
    BY DEF Told, InHand, Current, Names, Slug, Item
  <1>2. Slug' = Slug /\ Found' = Found
    BY DEF Slug, Item, Found, places
  <1>3. \A s \in Slugs : \A c \in target'[s] : Shown(c, s)'
    BY <1>1 DEF Accounted, Shown, places
  <1>4. \A s \in Slugs, r \in Runs : \A c \in aside'[s][r] : Revealed(c, s)'
    BY <1>1 DEF Accounted, Revealed, places
  <1>5. proc.pc = "set aside" => \A c \in Found' : Revealed(c, Slug)'
    BY <1>1, <1>2 DEF Accounted, Revealed
  <1>6. proc'.pc = proc.pc
    OBVIOUS
  <1> QED BY <1>3, <1>4, <1>5, <1>6 DEF Accounted

LEMMA NextShows ==
  ASSUME Typed, Tally, Phase, ~ mishaps.crashed => Accounted, [Next]_vars
  PROVE  ~ mishaps'.crashed => Accounted'
  <1> SUFFICES ASSUME ~ mishaps'.crashed PROVE Accounted'
    OBVIOUS
  <1>1. Accounted
    BY NextTally
  <1>2. CASE UNCHANGED vars
    BY <1>1, <1>2, UnchangedShows DEF vars
  <1>3. CASE Operator
    <2>1. ASSUME NEW list \in Lists, EditConfig(list) PROVE Accounted'
      BY <1>1, <2>1, UnchangedShows DEF EditConfig
    <2> QED BY <1>1, <1>3, <2>1, BeginShows, EditShows DEF Operator, Execute, Resume
  <1>4. ~ Crash
    BY DEF Crash, Tally
  <1> QED BY <1>1, <1>2, <1>3, <1>4, EndingShows, RefusalShows, CloneShows, SetAsideShows,
             InstallShows, RestoreShows, DropShows, DropFailsShows, TakeOutShows, StashShows,
             FetchShows, ApplyShows DEF Next, Replacing, Updating

\* Once no run is under way, work that is only in a stash was put there by a run that said so
\* in its manifest, unless a process died (managed_plugins.py 287-292).
THEOREM StashNamed == Spec => []StashIsReported
  <1>1. Init => Tally /\ Covered /\ Phase /\ Accounted
    <2>1. ASSUME Init PROVE Tally
      BY <2>1 DEF Init, Tally
    <2>2. ASSUME Init PROVE Accounted
      <3>1. /\ \A s \in Slugs : \A c \in target[s] : c.stash = {}
            /\ \A s \in Slugs, r \in Runs : aside[s][r] = {}
            /\ proc.pc = "idle"
        BY <2>2 DEF Init, Idle
      <3> QED BY <3>1 DEF Accounted, Shown, Versioned
    <2> QED BY <2>1, <2>2, InitKeeps
  <1>2. /\ Typed /\ Lineage /\ Tally /\ Covered /\ Phase
        /\ ~ mishaps.crashed => Accounted
        /\ [Next]_vars
        => (Tally /\ Covered /\ Phase /\ (~ mishaps.crashed => Accounted))'
    BY NextKeeps, NextTally, NextShows
  <1>3. (~ mishaps.crashed => Accounted) => StashIsReported
    BY DEF StashIsReported, Accounted, Shown, Told, InHand, Names
  <1> QED BY <1>1, <1>2, <1>3, TypedAlways, PTL DEF Spec

-----------------------------------------------------------------------------
(***************************************************************************)
(* A whole copy of every plugin that had one.                              *)
(***************************************************************************)

\* As long as no move or removal has failed, no copy is damaged, and what takes the place
\* of a plugin is at hand before its directory makes room and there before it is removed.
Intact == \A s \in Slugs : \A c \in Copies(s) : c.whole
Provided ==
    /\ \A c \in proc.staging : c.whole
    /\ ~ proc.broken
    /\ proc.pc \in {"set aside", "install"} => proc.staging # {}
    /\ proc.pc = "drop" => Found # {}
    /\ proc.pc \notin {"restore", "take out", "put back"}
Unharmed == mishaps.faults = 0 => Intact /\ Provided

\* What a step may do to the copies.
CopiesStay == Intact' /\ \A s \in Slugs : Copies(s) # {} => Copies(s)' # {}

LEMMA UnmovedStay ==
  ASSUME Intact, UNCHANGED places
  PROVE  CopiesStay
  BY DEF Intact, CopiesStay, Copies, places

LEMMA MovedStay ==
  ASSUME Typed, Intact, proc.pc \notin {"idle", "judge"}, NEW T, NEW A, Puts(T), PutsAside(A),
         \A c \in T \cup A : c.whole, Found \cup MovedAside # {} => T \cup A # {}
  PROVE  CopiesStay
  <1>1. Placed(T, A) /\ Slug \in Slugs /\ Current \in Runs
    BY Moved, FoundTyped
  <1>2. ASSUME NEW s \in Slugs, s # Slug PROVE Copies(s)' = Copies(s)
    <2>1. target'[s] = target[s] /\ \A r \in Runs : aside'[s][r] = aside[s][r]
      BY <1>1, <1>2 DEF Placed
    <2> QED BY <2>1 DEF Copies
  <1>3. ASSUME NEW c \in target'[Slug] \cup UNION {aside'[Slug][r] : r \in Runs} PROVE c.whole
    <2>1. CASE c \in T \cup A
      BY <2>1
    <2>2. CASE c \notin T \cup A
      <3>1. PICK r \in Runs : c \in aside[Slug][r]
        BY <1>1, <2>2 DEF Placed
      <3> QED BY <1>1, <3>1 DEF Intact, Copies
    <2> QED BY <2>1, <2>2
  <1>4. Intact'
    <2> SUFFICES ASSUME NEW s \in Slugs, NEW c \in target'[s] \cup UNION {aside'[s][r] : r \in Runs}
                 PROVE  c.whole
      BY DEF Intact, Copies
    <2>1. CASE s = Slug
      BY <1>3, <2>1
    <2>2. CASE s # Slug
      <3>1. c \in Copies(s)
        BY <1>2, <2>2 DEF Copies
      <3> QED BY <3>1 DEF Intact
    <2> QED BY <2>1, <2>2
  <1>5. ASSUME Copies(Slug) # {}
        PROVE  target'[Slug] \cup UNION {aside'[Slug][r] : r \in Runs} # {}
    <2>1. CASE T \cup A # {}
      BY <1>1, <2>1 DEF Placed
    <2>2. CASE T \cup A = {}
      <3>1. target[Slug] = {} /\ aside[Slug][Current] = {}
        BY <2>2 DEF Found, MovedAside
      <3>2. PICK r \in Runs : aside[Slug][r] # {}
        BY <1>5, <3>1 DEF Copies
      <3>3. aside'[Slug][r] = aside[Slug][r]
        BY <1>1, <3>1, <3>2 DEF Placed
      <3> QED BY <3>2, <3>3
    <2> QED BY <2>1, <2>2
  <1>6. ASSUME NEW s \in Slugs, Copies(s) # {}
        PROVE  target'[s] \cup UNION {aside'[s][r] : r \in Runs} # {}
    <2>1. CASE s # Slug
      BY <1>2, <1>6, <2>1 DEF Copies
    <2> QED BY <1>5, <1>6, <2>1
  <1>7. \A s \in Slugs : Copies(s) # {} => Copies(s)' # {}
    BY <1>6 DEF Copies
  <1> QED BY <1>4, <1>7 DEF CopiesStay

\* An answer, and the end of a run, leave nothing in staging.
LEMMA RepliedProvided ==
  ASSUME NEW status, NEW stashed, ReplyNaming(status, stashed)
  PROVE  Provided'
  <1>1. /\ proc'.pc \in {"inspect", "judge"} /\ proc'.staging = {} /\ proc'.broken = FALSE
    BY DEF ReplyNaming, Idle
  <1> QED BY <1>1 DEF Provided

LEMMA EndedProvided ==
  ASSUME proc' = Idle
  PROVE  Provided'
  BY DEF Idle, Provided

\* So does a step that gives up, or goes on to the repository of a checkout.
LEMMA GoneProvided ==
  ASSUME Typed, Provided, NEW pc \in {"discard", "fetch", "apply"},
         Go(pc) \/ \E status : Discarding(status)
  PROVE  Provided'
  <1>1. /\ proc'.pc \in {"discard", "fetch", "apply"} /\ proc'.staging = proc.staging
        /\ proc'.broken = proc.broken
    BY DEF Go, Discarding, Typed, Memory
  <1> QED BY <1>1 DEF Provided

LEMMA UpdatingStays ==
  ASSUME Typed, Intact, Provided, Updating
  PROVE  CopiesStay /\ Provided'
  <1>0. proc.pc \in {"inspect", "fetch", "apply"} /\ aside' = aside
    BY DEF Updating, UpdateRefused, StashNothing, Stash, StashFails, Fetch, FetchFails, Apply,
           ApplyFails, Updates, AtPlugin, At, places
  <1>1. /\ Slug \in Slugs /\ Found \in SUBSET Checkout /\ Single(Found)
        /\ \A c \in Found : c \in Checkout /\ c.whole
    <2>1. proc.pc \notin {"idle", "judge"}
      BY <1>0
    <2> QED BY <2>1, FoundTyped DEF Intact, Copies, Found
  <1>2. ASSUME NEW c \in Found
        PROVE  /\ Stashed(c).whole /\ Merged(c).whole
               /\ [c EXCEPT !.files = @ \cup proc.stashed, !.whole = @ /\ ~ proc.broken].whole
    <2>1. c \in Checkout /\ c.whole /\ ~ proc.broken
      BY <1>1 DEF Provided
    <2>2. Stashed(c).whole
      BY <2>1 DEF Stashed, Checkout
    <2>3. Merged(c).whole
      BY <2>1 DEF Merged, Checkout
    <2>4. [c EXCEPT !.files = @ \cup proc.stashed, !.whole = @ /\ ~ proc.broken].whole
      BY <2>1 DEF Checkout
    <2> QED BY <2>2, <2>3, <2>4
  <1>3. ASSUME UpdateRefused PROVE target' = target /\ Provided'
    BY <1>3, RepliedProvided DEF UpdateRefused, Reply, places
  <1>4. ASSUME StashNothing PROVE target' = target /\ Provided'
    BY <1>4, GoneProvided DEF StashNothing, places
  <1>5. ASSUME Stash PROVE (\E d : d.whole /\ target' = Put(Slug, {d})) /\ Provided'
    <2>1. PICK c \in Found :
             /\ target' = Put(Slug, {Stashed(c)})
             /\ proc' = [proc EXCEPT !.pc = "fetch", !.stashed = c.files, !.broken = ~ c.whole]
      BY <1>5 DEF Stash
    <2>2. proc'.pc = "fetch" /\ proc'.staging = proc.staging /\ proc'.broken = ~ c.whole
      BY <2>1 DEF Typed, Memory
    <2>3. Provided'
      BY <1>1, <2>2 DEF Provided
    <2> QED BY <1>2, <2>1, <2>3
  <1>6. ASSUME StashFails
        PROVE  (target' = target \/ \E d : d.whole /\ target' = Put(Slug, {d})) /\ Provided'
    BY <1>2, <1>6, RepliedProvided DEF StashFails, Reply
  <1>7. ASSUME Fetch PROVE (\E d : d.whole /\ target' = Put(Slug, {d})) /\ Provided'
    <2>1. Provided'
      BY <1>7, RepliedProvided, GoneProvided DEF Fetch, Reply
    <2> QED BY <1>2, <1>7, <2>1 DEF Fetch
  <1>8. ASSUME FetchFails
        PROVE  (target' = target \/ \E d : d.whole /\ target' = Put(Slug, {d})) /\ Provided'
    BY <1>2, <1>8, RepliedProvided DEF FetchFails
  <1>9. ASSUME Reapplied PROVE \E d : d.whole /\ target' = Put(Slug, {d})
    BY <1>2, <1>9 DEF Reapplied
  <1>10. ASSUME Apply \/ ApplyFails
         PROVE  (target' = target \/ \E d : d.whole /\ target' = Put(Slug, {d})) /\ Provided'
    BY <1>9, <1>10, RepliedProvided DEF Apply, ApplyFails
  <1>11. (target' = target \/ \E d : d.whole /\ target' = Put(Slug, {d})) /\ Provided'
    BY <1>3, <1>4, <1>5, <1>6, <1>7, <1>8, <1>10 DEF Updating
  <1>12. CASE target' = target
    BY <1>0, <1>11, <1>12, UnmovedStay DEF places
  <1>13. CASE \E d : d.whole /\ target' = Put(Slug, {d})
    <2>1. PICK d : d.whole /\ target' = Put(Slug, {d})
      BY <1>13
    <2>2. /\ Puts({d}) /\ PutsAside(MovedAside) /\ proc.pc \notin {"idle", "judge"}
      BY <1>0, <2>1 DEF Puts, PutsAside
    <2>3. \A c \in {d} \cup MovedAside : c.whole
      <3>1. MovedAside \subseteq Copies(Slug)
        BY <2>2, FoundTyped DEF MovedAside, Copies
      <3> QED BY <1>1, <2>1, <3>1 DEF Intact
    <2> QED BY <1>11, <2>2, <2>3, MovedStay
  <1> QED BY <1>11, <1>12, <1>13

LEMMA ReplacingStays ==
  ASSUME Typed, Phase, Tally, Intact, Provided, Replacing, mishaps'.faults = 0
  PROVE  CopiesStay /\ Provided'
  <1>1. ~ Fault /\ ~ DiscardFails
    <2>1. ASSUME DiscardFails PROVE FALSE
      <3>1. mishaps' = [mishaps EXCEPT !.faults = @ + 1]
        BY <2>1 DEF DiscardFails
      <3> QED BY <3>1, FaultCounts
    <2> QED BY <2>1, FaultFrees
  <1>2. ReplaceRefused \/ Clone \/ CloneFails \/ SetAside \/ Install \/ Drop \/ Discard
    BY <1>1 DEF Replacing, SetAsideFails, InstallFails, Restore, RestoreFails, DropFails, TakeOut,
                TakeOutFails, At, Provided
  <1>3. /\ proc.pc \in {"inspect", "set aside", "install", "drop", "discard"}
        /\ disk' = disk
    BY <1>2 DEF ReplaceRefused, Clone, CloneFails, SetAside, Install, Drop, Discard, AtPlugin, At
  <1>4. /\ Slug \in Slugs /\ Current \in Runs
        /\ \A c \in Found \cup MovedAside : c.whole
    <2>1. proc.pc \notin {"idle", "judge"}
      BY <1>3
    <2>2. Slug \in Slugs /\ Current \in Runs
      BY <2>1, FoundTyped
    <2>3. Found \cup MovedAside \subseteq Copies(Slug)
      BY <2>2 DEF Found, MovedAside, Copies
    <2> QED BY <2>2, <2>3 DEF Intact
  <1>5. CASE ReplaceRefused \/ Discard
    BY <1>5, UnmovedStay, RepliedProvided DEF ReplaceRefused, Discard, Reply
  <1>6. CASE CloneFails
    BY <1>6, UnmovedStay, GoneProvided DEF CloneFails
  <1>7. CASE Clone
    <2>1. /\ UNCHANGED places
          /\ proc' = [proc EXCEPT !.pc = "set aside", !.staging = {Cloned}]
      BY <1>7 DEF Clone
    <2>2. proc'.pc = "set aside" /\ proc'.staging = {Cloned} /\ proc'.broken = proc.broken
      BY <2>1 DEF Typed, Memory
    <2>3. Cloned.whole
      BY DEF Cloned
    <2>4. Provided'
      BY <2>2, <2>3 DEF Provided
    <2> QED BY <2>1, <2>4, UnmovedStay
  <1>8. CASE SetAside
    <2>1. /\ proc.pc = "set aside" /\ target' = Put(Slug, {}) /\ Go("install")
          /\ aside' = [aside EXCEPT ![Slug][Current] = Found]
      BY <1>8 DEF SetAside, At
    <2>2. MovedAside = {}
      BY <1>4, <2>1 DEF Phase, NoneAside, MovedAside
    <2>3. Puts({}) /\ PutsAside(Found) /\ proc.pc \notin {"idle", "judge"}
      BY <2>1 DEF Puts, PutsAside
    <2>4. CopiesStay
      BY <1>4, <2>2, <2>3, MovedStay
    <2>5. proc'.pc = "install" /\ proc'.staging = proc.staging /\ proc'.broken = proc.broken
      BY <2>1 DEF Go, Typed, Memory
    <2>6. Provided'
      BY <2>1, <2>5 DEF Provided
    <2> QED BY <2>4, <2>6
  <1>9. CASE Install
    <2>1. /\ proc.pc = "install" /\ target' = Put(Slug, proc.staging) /\ aside' = aside
          /\ run' = run \/ MovedAside = {}
      BY <1>9 DEF Install, At, Quiet
    <2>2. proc.staging # {} /\ \A c \in proc.staging : c.whole
      BY <2>1 DEF Provided
    <2>3. Puts(proc.staging) /\ PutsAside(MovedAside) /\ proc.pc \notin {"idle", "judge"}
      BY <2>1 DEF Puts, PutsAside
    <2>4. CopiesStay
      BY <1>4, <2>2, <2>3, MovedStay
    <2>5. CASE MovedAside = {}
      BY <1>9, <2>4, <2>5, RepliedProvided DEF Install, Reply
    <2>6. CASE MovedAside # {}
      <3>1. proc' = [proc EXCEPT !.pc = "drop", !.staging = {}] /\ run' = run
        BY <1>9, <2>6 DEF Install, Quiet
      <3>2. /\ proc'.pc = "drop" /\ proc'.staging = {} /\ proc'.broken = proc.broken
            /\ proc'.at = proc.at
        BY <3>1 DEF Typed, Memory
      <3>3. target'[Slug] = proc.staging
        BY <1>4, <2>3, Moved DEF Placed
      <3>4. Found' # {}
        BY <1>3, <2>2, <3>1, <3>2, <3>3, SameItem
      <3> QED BY <2>4, <3>2, <3>4 DEF Provided
    <2> QED BY <2>5, <2>6
  <1>10. CASE Drop
    <2>1. /\ proc.pc = "drop" /\ target' = target /\ aside' = [aside EXCEPT ![Slug][Current] = {}]
      BY <1>10 DEF Drop, At
    <2>2. Puts(Found) /\ PutsAside({}) /\ proc.pc \notin {"idle", "judge"} /\ Found # {}
      BY <2>1 DEF Puts, PutsAside, Provided
    <2>3. CopiesStay
      BY <1>4, <2>2, MovedStay
    <2> QED BY <1>10, <2>3, RepliedProvided DEF Drop, Reply
  <1> QED BY <1>2, <1>5, <1>6, <1>7, <1>8, <1>9, <1>10

LEMMA OperatorStays ==
  ASSUME Typed, Intact, Provided, Operator
  PROVE  CopiesStay /\ Provided'
  <1>1. ASSUME NEW m, NEW dry \in BOOLEAN, Begin(m, dry) PROVE CopiesStay /\ Provided'
    <2>1. UNCHANGED places /\ proc.pc = "idle"
      BY <1>1 DEF Begin
    <2>2. CASE proc' = proc
      BY <2>1, <2>2, UnmovedStay DEF Provided
    <2>3. CASE proc' = [Idle EXCEPT !.pc = First(m), !.before = Fingerprint]
      <3>1. proc'.pc \in {"inspect", "judge"} /\ proc'.staging = {} /\ proc'.broken = FALSE
        BY <2>3 DEF Idle, First
      <3> QED BY <2>1, <3>1, UnmovedStay DEF Provided
    <2> QED BY <1>1, <2>2, <2>3 DEF Begin
  <1>2. ASSUME NEW list \in Lists, EditConfig(list) PROVE CopiesStay /\ Provided'
    <2>1. UNCHANGED <<places, proc, run>> /\ proc.pc = "idle"
      BY <1>2 DEF EditConfig
    <2> QED BY <2>1, UnmovedStay DEF Provided
  <1>3. ASSUME NEW s \in Slugs, NEW w \in Work, NEW committed \in BOOLEAN, Edit(s, w, committed)
        PROVE  CopiesStay /\ Provided'
    <2>1. PICK c \in target[s] : target' = Put(s, {Worked(c, w, committed)})
      BY <1>3 DEF Edit, Worked
    <2>2. UNCHANGED <<aside, disk, run, proc>>
      BY <1>3 DEF Edit
    <2>3. c \in Checkout /\ c.whole
      BY <2>1 DEF Typed, Directories, Intact, Copies
    <2>4. Worked(c, w, committed).whole
      BY <2>3 DEF Worked, Checkout
    <2> DEFINE d == Worked(c, w, committed)
    <2> HIDE DEF d
    <2>5. \A o \in Slugs : target'[o] = IF o = s THEN {d} ELSE target[o]
      BY <2>1 DEF d, Put, Typed, Directories
    <2>6. \A o \in Slugs : Copies(o)' \subseteq Copies(o) \cup {d}
      BY <2>2, <2>5 DEF Copies
    <2>7. Intact'
      BY <2>4, <2>6 DEF Intact, d
    <2>8. \A o \in Slugs : Copies(o) # {} => Copies(o)' # {}
      BY <2>2, <2>5 DEF Copies
    <2>9. proc.pc = "drop" => Found' # {}
      <3>1. Found' = target'[Slug]
        BY <2>2 DEF Found, Slug, Item
      <3>2. proc.pc = "drop" => Slug \in Slugs /\ Found # {}
        BY FoundTyped DEF Provided
      <3> QED BY <2>5, <3>1, <3>2 DEF Found
    <2> QED BY <2>2, <2>7, <2>8, <2>9 DEF CopiesStay, Provided
  <1> QED BY <1>1, <1>2, <1>3 DEF Operator, Execute, Resume

LEMMA NextStays ==
  ASSUME Typed, Phase, Tally, Unharmed, [Next]_vars
  PROVE  /\ Unharmed'
         /\ mishaps'.faults = 0 => Intact /\ CopiesStay
  <1>1. Tally' /\ mishaps'.faults >= mishaps.faults /\ mishaps.faults \in Nat /\ mishaps'.faults \in Nat
    BY NextTally DEF Tally
  <1>2. SUFFICES ASSUME mishaps'.faults = 0
                 PROVE  Intact /\ CopiesStay /\ Provided'
    BY DEF Unharmed, CopiesStay
  <1>3. Intact /\ Provided
    BY <1>1, <1>2 DEF Unharmed
  <1>4. CASE UNCHANGED vars
    BY <1>3, <1>4, UnmovedStay DEF vars, places, Provided, Found, Slug, Item
  <1>5. CASE Refused \/ JudgeContinues \/ JudgeStops \/ StopsEarlier \/ Crash
    <2>1. UNCHANGED places /\ proc' = Idle
      BY <1>5 DEF Refused, JudgeContinues, JudgeStops, StopsEarlier, Crash, Raises, Ended
    <2> QED BY <1>3, <2>1, UnmovedStay, EndedProvided
  <1>6. CASE InspectionFails
    BY <1>3, <1>6, UnmovedStay, RepliedProvided DEF InspectionFails, Reply
  <1> QED BY <1>2, <1>3, <1>4, <1>5, <1>6, OperatorStays, UpdatingStays, ReplacingStays DEF Next

\* While no move or removal has failed there is always a whole copy of a plugin that had
\* one, in its place or set aside, wherever the process dies (managed_plugins.py 324-337).
THEOREM WholeCopyRemains == Spec => WholeCopyStays
  <1>1. Init => Covered /\ Phase /\ Tally /\ Unharmed
    <2>1. ASSUME Init PROVE Tally
      BY <2>1 DEF Init, Tally
    <2>2. ASSUME Init PROVE Intact
      <3>1. \A s \in Slugs : \A c \in target[s] : c.whole
        BY <2>2 DEF Init
      <3>2. \A s \in Slugs, r \in Runs : aside[s][r] = {}
        BY <2>2 DEF Init
      <3> QED BY <3>1, <3>2 DEF Intact, Copies
    <2>3. ASSUME Init PROVE Provided
      BY <2>3 DEF Init, Idle, Provided
    <2> QED BY <2>1, <2>2, <2>3, InitKeeps DEF Unharmed
  <1>2. Typed /\ Lineage /\ Covered /\ Phase /\ Tally /\ Unharmed /\ [Next]_vars
            => (Covered /\ Phase /\ Tally /\ Unharmed)'
    BY NextKeeps, NextTally, NextStays
  <1>3. Typed /\ Phase /\ Tally /\ Unharmed /\ [Next]_vars =>
           [\A s \in Slugs :
              (\E c \in Copies(s) : c.whole) /\ mishaps'.faults = 0
                  => (\E c \in Copies(s) : c.whole)']_vars
    <2> SUFFICES ASSUME Typed, Phase, Tally, Unharmed, [Next]_vars, NEW s \in Slugs,
                        \E c \in Copies(s) : c.whole, mishaps'.faults = 0
                 PROVE  (\E c \in Copies(s) : c.whole)'
      OBVIOUS
    <2>1. CopiesStay
      BY NextStays
    <2>2. PICK c : c \in Copies(s)'
      BY <2>1 DEF CopiesStay
    <2> QED BY <2>1, <2>2 DEF CopiesStay, Intact
  <1> QED BY <1>1, <1>2, <1>3, TypedAlways, PTL DEF Spec, WholeCopyStays

=============================================================================

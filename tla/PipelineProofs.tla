--------------------------- MODULE PipelineProofs ---------------------------
(***************************************************************************)
(* Proofs about Pipeline, for every plan, every set of changes, every      *)
(* number of runs, with and without crashes and manual edits.              *)
(***************************************************************************)
EXTENDS Pipeline, SequenceTheorems, TLAPS

\* Where the process is agrees with how many results its manifest holds: what
\* TypeOK needs to be inductive.
Located ==
    /\ proc.pc = "begin" => Current < MaxRuns
    /\ proc.pc \in {"step", "probe", "verdict"} => Current \in Runs
    /\ proc.pc \in {"begin", "step"} => Len(manifest.steps) = proc.at - 1
    /\ proc.pc \in {"probe", "verdict"} =>
          proc.at \in Steps /\ Len(manifest.steps) = proc.at

Typed == TypeOK /\ Located

\* What the assumptions on the constants amount to.
LEMMA ConstantTypes ==
    /\ Length \in Nat \ {0}
    /\ MaxRuns \in Nat \ {0}
    /\ \A k \in Steps : Plan[k] \in PlannedStep
    /\ Changes \subseteq Steps
  BY PlanAssumption, EffectAssumption, BoundAssumption, LenProperties, ElementOfSeq, EmptySeq
     DEF Length, Steps

\* The process that does not exist is well typed.
LEMMA BlankType == Blank \in Manifest /\ Blank.steps = <<>> /\ Idle \in Process
  <1>1. (CHOOSE c \in Configs : TRUE) \in Configs
    BY BoundAssumption
  <1>2. <<>> \in Seq(StepStatus) /\ 0 \in 0..Length /\ 1 \in Runs /\ 1 \in 1..Length + 1
    BY ConstantTypes, EmptySeq DEF Runs
  <1> QED
    BY <1>1, <1>2
       DEF Blank, Fresh, Idle, Manifest, Process, RunStatus, HealthStatus, Steps, Runs

\* Updates of a process and of a manifest, field by field.
LEMMA ProcessAt ==
  ASSUME NEW p \in Process, NEW at \in 1..Length + 1,
         NEW pc \in {"begin", "step"}
  PROVE  [p EXCEPT !.pc = pc, !.at = at] \in Process
  <1> DEFINE places == 1..Length + 1
  <1>1. Process = [pc: {"idle", "begin", "step", "probe", "verdict"}, at: places,
                   before: HealthStatus, after: HealthStatus, quiet: BOOLEAN,
                   touched: BOOLEAN]
    BY DEF Process
  <1>2. at \in places
    OBVIOUS
  <1> HIDE DEF places
  <1> QED BY <1>1, <1>2

\* The report of the first probe.
LEMMA ProcessBefore ==
  ASSUME NEW p \in Process, NEW before \in HealthStatus
  PROVE  [p EXCEPT !.before = before] \in Process
  BY DEF Process

\* A step over, whether or not it is probed.
LEMMA ProcessQuiet ==
  ASSUME NEW p \in Process, NEW quiet \in BOOLEAN
  PROVE  [p EXCEPT !.pc = "probe", !.quiet = quiet] \in Process
  BY DEF Process

\* The manifest of a resume holds the completed results of the one it takes.
LEMMA TakenType ==
  ASSUME NEW m \in Manifest, NEW dry \in BOOLEAN, NEW d \in 0..Length,
         SubSeq(m.steps, 1, d) \in Seq(StepStatus)
  PROVE  /\ Taken(m, d, dry) \in Manifest
         /\ Taken(m, d, dry).steps = SubSeq(m.steps, 1, d)
  <1> DEFINE places == 0..Length
             s == SubSeq(m.steps, 1, d)
  <1>1. Manifest = [dry_run: BOOLEAN, status: RunStatus, steps: Seq(StepStatus),
                    last: places, failed: places, recovery: SUBSET Steps,
                    fingerprint: BOOLEAN, config: Configs, origin: Runs]
    BY DEF Manifest
  <1>2. d \in places /\ 0 \in places /\ "RUNNING" \in RunStatus /\ s \in Seq(StepStatus)
    BY ConstantTypes DEF RunStatus
  <1>3. Taken(m, d, dry) =
          [m EXCEPT !.dry_run = dry, !.status = "RUNNING", !.fingerprint = FALSE,
                    !.steps = s, !.last = d, !.failed = 0]
    BY DEF Taken
  <1> HIDE DEF places, s
  <1>4. Taken(m, d, dry) \in Manifest /\ Taken(m, d, dry).steps = s
    BY <1>1, <1>2, <1>3
  <1> QED BY <1>4 DEF s

\* Advancing last_successful_step leaves the results alone.
LEMMA LastUpdate ==
  ASSUME NEW m \in Manifest, NEW last \in 0..Length
  PROVE  /\ [m EXCEPT !.last = last] \in Manifest
         /\ [m EXCEPT !.last = last].steps = m.steps
  <1> DEFINE places == 0..Length
  <1>1. Manifest = [dry_run: BOOLEAN, status: RunStatus, steps: Seq(StepStatus),
                    last: places, failed: places, recovery: SUBSET Steps,
                    fingerprint: BOOLEAN, config: Configs, origin: Runs]
    BY DEF Manifest
  <1>2. last \in places
    OBVIOUS
  <1> HIDE DEF places
  <1> QED BY <1>1, <1>2

\* The manifest of a new lineage is empty.
LEMMA FreshType ==
  ASSUME NEW o \in Runs, config \in Configs, NEW dry \in BOOLEAN
  PROVE  LET m == [Fresh(o) EXCEPT !.dry_run = dry]
         IN m \in Manifest /\ m.steps = <<>>
  <1> DEFINE places == 0..Length
  <1>1. <<>> \in Seq(StepStatus) /\ 0 \in places
    BY ConstantTypes, EmptySeq
  <1> HIDE DEF places
  <1>2. Fresh(o) \in [dry_run: BOOLEAN, status: RunStatus, steps: Seq(StepStatus),
                      last: places, failed: places, recovery: SUBSET Steps,
                      fingerprint: BOOLEAN, config: Configs, origin: Runs]
    BY <1>1 DEF Fresh, RunStatus
  <1>3. Fresh(o) \in Manifest
    BY <1>2 DEF Manifest, places
  <1>4. [Fresh(o) EXCEPT !.dry_run = dry] \in Manifest
    BY <1>3 DEF Manifest
  <1> QED
    BY <1>4 DEF Fresh

\* The disk after the current manifest was saved.
LEMMA SavedType ==
  ASSUME TypeOK, Current \in Runs, NEW m \in Manifest
  PROVE  /\ Saved(m) \in Seq(Manifest) /\ Len(Saved(m)) = Current
         /\ \A r \in 1..Current : Saved(m)[r] = IF r = Current THEN m ELSE disk[r]
  BY ConstantTypes, ExceptSeq, LenProperties DEF Saved, TypeOK, Current, Runs

\* A result recorded, amended, or the run closed: still a manifest.
LEMMA RecordType ==
  ASSUME manifest \in Manifest, NEW status \in StepStatus
  PROVE  /\ Record(status) \in Manifest
         /\ Record(status).steps = Append(manifest.steps, status)
         /\ Len(Record(status).steps) = Len(manifest.steps) + 1
  <1>1. manifest.steps \in Seq(StepStatus)
    BY DEF Manifest
  <1>2. /\ Append(manifest.steps, status) \in Seq(StepStatus)
        /\ Len(Append(manifest.steps, status)) = Len(manifest.steps) + 1
    BY <1>1, AppendProperties
  <1> QED
    BY <1>2 DEF Record, Manifest

\* Amending the last result keeps the length of the history.
LEMMA AmendType ==
  ASSUME NEW m \in Manifest, NEW status \in StepStatus
  PROVE  /\ Amend(m, status) \in Manifest
         /\ Len(Amend(m, status).steps) = Len(m.steps)
  <1> DEFINE s == [m.steps EXCEPT ![Len(m.steps)] = status]
  <1>1. m.steps \in Seq(StepStatus)
    BY DEF Manifest
  <1>2. s \in Seq(StepStatus) /\ Len(s) = Len(m.steps)
    <2>1. CASE Len(m.steps) = 0
      <3>1. s = m.steps
        BY <1>1, <2>1, LenProperties
      <3> QED BY <1>1, <3>1
    <2>2. CASE Len(m.steps) # 0
      BY <1>1, <2>2, LenProperties, ExceptSeq
    <2> QED BY <2>1, <2>2
  <1>3. Amend(m, status) = [m EXCEPT !.steps = s]
    BY DEF Amend, Manifest
  <1> HIDE DEF s
  <1> QED
    BY <1>2, <1>3 DEF Manifest

\* A closed manifest is a manifest.
LEMMA CloseType ==
  ASSUME NEW m \in Manifest, NEW status \in RunStatus, NEW failed \in 0..Length
  PROVE  Close(m, status, failed) \in Manifest
  BY DEF Close, Manifest

\* The final status of a run is a status.
LEMMA FinalStatusType ==
  ASSUME NEW m \in Manifest
  PROVE  FinalStatus(m) \in RunStatus
  BY DEF FinalStatus, RunStatus, Manifest

\* A step has touched files or not.
LEMMA TouchedType == ASSUME NEW k \in Steps PROVE Touches(k) \subseteq BOOLEAN
  BY DEF Touches

\* The effect of a step is on steps and on runs that exist.
LEMMA EffectType ==
  ASSUME TypeOK, NEW k \in Steps, NEW complete \in BOOLEAN, NEW touched \in BOOLEAN
  PROVE  /\ AppliedAfter(k, complete, touched) \in [Runs -> SUBSET Changes]
         /\ MatchingAfter(touched) \subseteq 1..Current
  BY DEF AppliedAfter, MatchingAfter, Disturbs, TypeOK

\* The initial state is well typed.
LEMMA InitTyped == Init => Typed
  <1> SUFFICES ASSUME Init PROVE Typed
    OBVIOUS
  <1>1. disk \in Seq(Manifest) /\ Current = 0
    BY EmptySeq DEF Init, Current
  <1>2. manifest \in Manifest /\ proc \in Process
    BY BlankType DEF Init
  <1>3. config \in Configs /\ matching \subseteq 1..Current
    BY DEF Init
  <1>4. /\ applied \in [Runs -> SUBSET Changes]
        /\ performed \in [Runs -> SUBSET Steps]
        /\ ranUnder \in [Runs -> SUBSET Configs]
        /\ regressed \in [Runs -> 0..Length]
    BY ConstantTypes DEF Init
  <1>5. Located
    BY DEF Located, Init, Idle
  <1> QED
    BY <1>1, <1>2, <1>3, <1>4, <1>5, ConstantTypes DEF Typed, TypeOK

\* Ending the process forgets everything it had in memory.
LEMMA EndedTyped ==
  ASSUME Ended
  PROVE  manifest' \in Manifest /\ proc' \in Process /\ Located'
  BY BlankType DEF Ended, Located, Idle

\* Starting or resuming a run keeps the types.
LEMMA BeginTyped ==
  ASSUME Typed, NEW m \in Manifest, Len(m.steps) \in 0..Length, Current < MaxRuns, Begin(m)
  PROVE  Typed'
  <1>1. proc' \in Process
    <2>1. Len(m.steps) + 1 \in 1..Length + 1
      BY ConstantTypes
    <2> QED
      BY <2>1, BlankType, ProcessAt DEF Begin
  <1>2. Located'
    BY ConstantTypes DEF Begin, Located, Idle, Current
  <1> QED
    BY <1>1, <1>2 DEF Begin, Typed, TypeOK, history, Current

\* Closing a run keeps the types.
LEMMA SettleTyped ==
  ASSUME Typed, Current \in Runs, NEW m \in Manifest,
         NEW status \in RunStatus, NEW failed \in 0..Length, Settle(m, status, failed),
         applied' \in [Runs -> SUBSET Changes], matching' \subseteq 1..Current
  PROVE  Typed'
  <1>1. Close(m, status, failed) \in Manifest
    BY CloseType
  <1>2. disk' \in Seq(Manifest) /\ Current' = Current
    BY <1>1, SavedType DEF Settle, Typed, Current
  <1>3. manifest' \in Manifest /\ proc' \in Process /\ Located'
    BY EndedTyped DEF Settle
  <1> QED
    BY <1>2, <1>3 DEF Settle, Typed, TypeOK, history

\* Every step keeps the types and the place of the process in its history.
LEMMA NextTyped == Typed /\ [Next]_vars => Typed'
  <1> SUFFICES ASSUME Typed, [Next]_vars PROVE Typed'
    OBVIOUS
  <1> USE DEF Typed
  <1>1. CASE UNCHANGED vars
    BY <1>1 DEF vars, memory, history, TypeOK, Located, Current
  <1>2. ASSUME NEW dry \in BOOLEAN, Execute(dry) PROVE Typed'
    <2> DEFINE m == [Fresh(Current + 1) EXCEPT !.dry_run = dry]
    <2>1. Current + 1 \in Runs
      BY <1>2, ConstantTypes, LenProperties DEF Execute, Runs, TypeOK, Current
    <2>2. m \in Manifest /\ m.steps = <<>>
      BY <2>1, FreshType DEF TypeOK
    <2>3. Len(m.steps) \in 0..Length
      BY <2>2, EmptySeq, ConstantTypes
    <2> QED
      BY <1>2, <2>2, <2>3, BeginTyped DEF Execute
  <1>3. ASSUME NEW r \in 1..Current, NEW dry \in BOOLEAN, Resume(r, dry) PROVE Typed'
    <2>1. PICK d \in 0..Length : CompletedPrefix(disk[r], d) /\ Begin(Taken(disk[r], d, dry))
      BY <1>3 DEF Resume
    <2>2. disk[r] \in Manifest
      BY ElementOfSeq DEF TypeOK, Current
    <2> DEFINE s == SubSeq(disk[r].steps, 1, d)
    <2>3. s \in Seq(StepStatus) /\ Len(s) = d
      <3>1. disk[r].steps \in Seq(StepStatus) /\ d <= Len(disk[r].steps)
        BY <2>1, <2>2 DEF Manifest, CompletedPrefix
      <3>2. \A i \in 1..d : disk[r].steps[i] \in StepStatus
        BY <3>1, LenProperties, ElementOfSeq
      <3> QED
        BY <3>2, SubSeqProperties
    <2>4. Taken(disk[r], d, dry) \in Manifest /\ Taken(disk[r], d, dry).steps = s
      BY <2>2, <2>3, TakenType
    <2> QED
      BY <1>3, <2>1, <2>3, <2>4, BeginTyped DEF Resume
  <1>4. CASE RefuseCapabilities
    BY <1>4, EndedTyped DEF RefuseCapabilities, TypeOK, history, Current
  <1>5. CASE CreateRun
    <2>1. disk' \in Seq(Manifest) /\ Current' = Current + 1 /\ Current' \in Runs
      BY <1>5, AppendProperties, ConstantTypes, LenProperties
         DEF CreateRun, TypeOK, Located, Current, Runs
    <2>2. proc' \in Process /\ proc'.pc = "step" /\ proc'.at = proc.at
      BY <1>5, BoundAssumption DEF CreateRun, TypeOK, Process
    <2>3. Located'
      BY <1>5, <2>1, <2>2 DEF CreateRun, Located
    <2>4. matching' \subseteq 1..Current'
      BY <1>5, <2>1, LenProperties DEF CreateRun, TypeOK, Current
    <2>5. Current' <= MaxRuns
      BY <2>1, ConstantTypes DEF Runs
    <2> QED
      BY <1>5, <2>1, <2>2, <2>3, <2>4, <2>5 DEF CreateRun, TypeOK, history
  <1>6. ASSUME NEW k \in Steps, StepPlanned(k) PROVE Typed'
    <2>1. /\ manifest' \in Manifest /\ Len(manifest'.steps) = Len(manifest.steps) + 1
          /\ manifest' = Record("PLANNED")
      BY <1>6, RecordType DEF StepPlanned, Advance, TypeOK, StepStatus
    <2>2. proc' \in Process /\ proc'.pc = "step" /\ proc'.at = proc.at + 1
      <3>1. proc.at + 1 \in 1..Length + 1
        BY <1>6, ConstantTypes DEF StepPlanned, AtStep, Steps
      <3>2. [proc EXCEPT !.pc = "step", !.at = proc.at + 1] \in Process
        BY <3>1, ProcessAt DEF TypeOK
      <3> QED
        BY <1>6, <3>2 DEF StepPlanned, Advance, TypeOK, Process
    <2>3. Located'
      BY <1>6, <2>1, <2>2 DEF StepPlanned, AtStep, Located, Current, Process, TypeOK, Steps
    <2> QED
      BY <1>6, <2>1, <2>2, <2>3 DEF StepPlanned, TypeOK, history, Current
  <1>7. ASSUME NEW k \in Steps, StepSucceeds(k) PROVE Typed'
    <2> DEFINE status == ExpectedStatus(manifest.dry_run)
    <2>1. Record(status) \in Manifest /\ Len(Record(status).steps) = Len(manifest.steps) + 1
      BY RecordType DEF ExpectedStatus, StepStatus, TypeOK
    <2>2. manifest' \in Manifest /\ manifest'.steps = Record(status).steps
      BY <1>7, <2>1 DEF StepSucceeds, Manifest
    <2>a. PICK absent \in BOOLEAN, touched \in Touches(k) :
            /\ proc' = [proc EXCEPT !.pc = "probe", !.touched = touched,
                                    !.quiet = absent \/ Plan[k].name \in Suppressed]
            /\ Effect(k, TRUE, touched)
      BY <1>7 DEF StepSucceeds
    <2>b. touched \in BOOLEAN
      BY TouchedType
    <2>3. proc' \in Process /\ proc'.pc = "probe" /\ proc'.at = proc.at
      <3> DEFINE quiet == absent \/ Plan[k].name \in Suppressed
      <3>1. /\ proc' = [proc EXCEPT !.pc = "probe", !.touched = touched, !.quiet = quiet]
            /\ quiet \in BOOLEAN
        BY <2>a
      <3> HIDE DEF quiet
      <3> QED
        BY <2>b, <3>1 DEF TypeOK, Process
    <2>4. Located'
      BY <1>7, <2>1, <2>2, <2>3 DEF StepSucceeds, AtStep, Located, Current, Process, TypeOK, Steps
    <2>5. applied' \in [Runs -> SUBSET Changes] /\ matching' \subseteq 1..Current
      BY <2>a, <2>b, EffectType DEF Effect
    <2>6. /\ performed' \in [Runs -> SUBSET Steps]
          /\ ranUnder' \in [Runs -> SUBSET Configs]
          /\ regressed' \in [Runs -> 0..Length]
      <3>1. manifest.origin \in Runs /\ manifest.config \in Configs
        BY DEF TypeOK, Manifest
      <3>2. CASE manifest.dry_run
        BY <1>7, <3>2 DEF StepSucceeds, TypeOK, history
      <3>3. CASE ~ manifest.dry_run
        <4>1. performed' = [performed EXCEPT ![manifest.origin] = @ \cup {k}]
          BY <1>7, <3>3 DEF StepSucceeds
        <4>2. ranUnder' \in {ranUnder, [ranUnder EXCEPT ![manifest.origin] = @ \cup {config}]}
          BY <1>7, <3>3 DEF StepSucceeds
        <4>3. regressed' = [regressed EXCEPT ![manifest.origin] = IF @ = k THEN 0 ELSE @]
          BY <1>7, <3>3 DEF StepSucceeds
        <4>4. performed' \in [Runs -> SUBSET Steps]
          BY <3>1, <4>1 DEF TypeOK
        <4>5. ranUnder' \in [Runs -> SUBSET Configs]
          BY <3>1, <4>2 DEF TypeOK
        <4>6. regressed' \in [Runs -> 0..Length]
          BY <3>1, <4>3, ConstantTypes DEF TypeOK
        <4> QED BY <4>4, <4>5, <4>6
      <3> QED BY <3>2, <3>3
    <2> QED
      BY <1>7, <2>2, <2>3, <2>4, <2>5, <2>6 DEF StepSucceeds, TypeOK, Current
  <1>8. ASSUME NEW k \in Steps, StepReportsFailure(k) PROVE Typed'
    <2>1. manifest' \in Manifest /\ Len(manifest'.steps) = Len(manifest.steps) + 1
      BY <1>8, RecordType DEF StepReportsFailure, TypeOK, StepStatus
    <2>2. proc' \in Process /\ proc'.pc = "probe" /\ proc'.at = proc.at
      <3> DEFINE quiet == Plan[k].name \in Suppressed
      <3>1. proc' = [proc EXCEPT !.pc = "probe", !.quiet = quiet] /\ quiet \in BOOLEAN
        BY <1>8 DEF StepReportsFailure
      <3> HIDE DEF quiet
      <3>2. proc' \in Process
        BY <3>1, ProcessQuiet DEF TypeOK
      <3> QED
        BY <3>1, <3>2 DEF TypeOK, Process
    <2>3. Located'
      BY <1>8, <2>1, <2>2 DEF StepReportsFailure, AtStep, Located, Current, Process, TypeOK, Steps
    <2>4. applied' \in [Runs -> SUBSET Changes] /\ matching' \subseteq 1..Current
      BY <1>8, EffectType, TouchedType DEF StepReportsFailure, Effect, NoEffect, TypeOK
    <2> QED
      BY <1>8, <2>1, <2>2, <2>3, <2>4 DEF StepReportsFailure, TypeOK, history, Current
  <1>9. ASSUME NEW k \in Steps, StepRaises(k) PROVE Typed'
    <2>1. Record("FAILED") \in Manifest /\ k \in 0..Length /\ "UPDATE_FAILED_PRESERVED" \in RunStatus
      BY RecordType, ConstantTypes DEF TypeOK, StepStatus, RunStatus, Steps
    <2>2. Current \in Runs
      BY <1>9 DEF StepRaises, AtStep, Located
    <2>3. applied' \in [Runs -> SUBSET Changes] /\ matching' \subseteq 1..Current
      <3>1. Current \in 1..Current
        BY <2>2, LenProperties DEF Runs, TypeOK, Current
      <3>2. \A touched \in Touches(k) :
               /\ AppliedAfter(k, FALSE, touched) \in [Runs -> SUBSET Changes]
               /\ MatchingAfter(touched) \subseteq 1..Current
        BY EffectType, TouchedType
      <3> QED
        BY <1>9, <3>1, <3>2 DEF StepRaises, TypeOK
    <2> QED
      BY <1>9, <2>1, <2>2, <2>3, SettleTyped DEF StepRaises
  <1>10. CASE Checkpoint
    <2> DEFINE k == Len(manifest.steps)
    <2>1. PICK m \in {manifest, Amend(manifest, "FAILED")}, health \in HealthStatus :
            /\ manifest' = m
            /\ disk' = Saved(m)
            /\ proc' = [proc EXCEPT !.pc = "verdict", !.after = health, !.touched = FALSE]
            /\ regressed' \in {regressed, [regressed EXCEPT ![m.origin] = k]}
      BY <1>10, BoundAssumption DEF Checkpoint, TypeOK, Process
    <2>2. m \in Manifest /\ Len(m.steps) = k
      BY <2>1, AmendType DEF TypeOK, StepStatus
    <2>3. Current \in Runs /\ k \in Steps
      BY <1>10 DEF Checkpoint, Located
    <2>4. disk' \in Seq(Manifest) /\ Current' = Current
      BY <2>1, <2>2, <2>3, SavedType DEF Current
    <2>5. proc' \in Process /\ proc'.pc = "verdict" /\ proc'.at = proc.at
      BY <2>1 DEF TypeOK, Process
    <2>6. regressed' \in [Runs -> 0..Length]
      <3>1. m.origin \in Runs /\ k \in 0..Length
        BY <2>2, <2>3, ConstantTypes DEF Manifest, Steps
      <3> QED
        BY <2>1, <3>1 DEF TypeOK
    <2>7. Located'
      BY <1>10, <2>1, <2>2, <2>3, <2>4, <2>5 DEF Checkpoint, Located
    <2> QED
      BY <1>10, <2>1, <2>2, <2>4, <2>5, <2>6, <2>7 DEF Checkpoint, TypeOK
  <1>11. CASE VerdictContinues
    <2>1. proc.at \in Steps /\ Len(manifest.steps) = proc.at /\ Current \in Runs
      BY <1>11 DEF VerdictContinues, Located
    <2>2. manifest' \in Manifest /\ manifest'.steps = manifest.steps
      <3>1. proc.at \in 0..Length
        BY <2>1, ConstantTypes DEF Steps
      <3> QED
        BY <1>11, <3>1, LastUpdate DEF VerdictContinues, TypeOK
    <2>3. proc' \in Process /\ proc'.pc = "step" /\ proc'.at = proc.at + 1
      <3>1. proc.at + 1 \in 1..Length + 1 /\ proc.after \in HealthStatus
        BY <2>1, ConstantTypes DEF Steps, TypeOK, Process
      <3>2. [proc EXCEPT !.pc = "step", !.at = proc.at + 1] \in Process
        BY <3>1, ProcessAt DEF TypeOK
      <3>3. proc' = [[proc EXCEPT !.pc = "step", !.at = proc.at + 1] EXCEPT !.before = proc.after]
        BY <1>11 DEF VerdictContinues, TypeOK, Process
      <3> QED
        BY <3>1, <3>2, <3>3, ProcessBefore DEF TypeOK, Process
    <2>4. Located'
      BY <1>11, <2>1, <2>2, <2>3, ConstantTypes DEF VerdictContinues, Located, Current, Steps
    <2> QED
      BY <1>11, <2>2, <2>3, <2>4 DEF VerdictContinues, TypeOK, history, Current
  <1>12. CASE VerdictStops
    <2>1. proc.at \in 0..Length /\ Current \in Runs
      BY <1>12, ConstantTypes DEF VerdictStops, Located, Steps
    <2>2. Amend(manifest, "FAILED") \in Manifest /\ "UPDATE_FAILED_PRESERVED" \in RunStatus
      BY AmendType DEF TypeOK, StepStatus, RunStatus
    <2>3. applied' \in [Runs -> SUBSET Changes] /\ matching' \subseteq 1..Current
      BY <1>12, <2>1 DEF VerdictStops, TypeOK, Runs
    <2> QED
      BY <1>12, <2>1, <2>2, <2>3, SettleTyped DEF VerdictStops
  <1>13. CASE Finish
    <2>1. Current \in Runs /\ 0 \in 0..Length
      BY <1>13, ConstantTypes DEF Finish, Located
    <2>2. manifest \in Manifest /\ FinalStatus(manifest) \in RunStatus
      BY FinalStatusType DEF TypeOK
    <2>3. applied' \in [Runs -> SUBSET Changes] /\ matching' \subseteq 1..Current
      BY <1>13, <2>1 DEF Finish, TypeOK, Runs
    <2> QED
      BY <1>13, <2>1, <2>2, <2>3, SettleTyped DEF Finish
  <1>14. CASE Crash
    <2>1. applied' \in [Runs -> SUBSET Changes] /\ matching' \subseteq 1..Current
      BY <1>14, EffectType, TouchedType DEF Crash, Effect, NoEffect, TypeOK
    <2>2. Ended
      BY <1>14 DEF Crash
    <2> QED
      BY <1>14, <2>1, <2>2, EndedTyped DEF Crash, TypeOK, history, Current
  <1>15. CASE EditFiles
    BY <1>15 DEF EditFiles, TypeOK, Located, memory, history, Current
  <1>16. CASE EditConfig
    BY <1>16 DEF EditConfig, TypeOK, Located, memory, history, Current
  <1> QED
    BY <1>1, <1>2, <1>3, <1>4, <1>5, <1>6, <1>7, <1>8, <1>9, <1>10, <1>11, <1>12, <1>13,
       <1>14, <1>15, <1>16 DEF Next, Starts, Work, RunsStep

\* Every reachable state is well typed, and the process is where the length of
\* its history says.
THEOREM AlwaysTyped == Spec => []Typed
  BY InitTyped, NextTyped, PTL DEF Spec

\* Whatever the plan, the bounds and the operator do, manifests and process keep
\* the fields of RunManifest and PipelineRunner.run (models.py 200-231).
THEOREM TypeCorrect == Spec => []TypeOK
  BY AlwaysTyped, PTL DEF Typed

-----------------------------------------------------------------------------
(***************************************************************************)
(* Histories.  RecordsAreTrue is not inductive: that a result may be added *)
(* after d executed ones rests on their being the first d, and that a real *)
(* run has no gap rests on where its process is.                           *)
(***************************************************************************)

\* The executed steps of m are the first d; each was performed by the lineage and
\* left its recovery data in m.
Backed(m, d) ==
    /\ CompletedPrefix(m, d)
    /\ 1..d \subseteq performed[m.origin] \cap m.recovery

Complete(m) == ~ m.dry_run /\ Steps \subseteq performed[m.origin]

DiskHistories ==
    \A r \in 1..Current :
        /\ \E d \in 0..Length : Backed(disk[r], d)
        /\ disk[r].status = "EXECUTED" => Complete(disk[r])

MemoryHistory ==
    /\ \E d \in 0..Length : Backed(manifest, d)
    /\ manifest.status = "RUNNING"
    /\ ~ manifest.dry_run =>
          /\ proc.pc \in {"begin", "step"} => Backed(manifest, proc.at - 1)
          /\ proc.pc \in {"probe", "verdict"} =>
                Backed(manifest, proc.at - 1) \/ Backed(manifest, proc.at)

Histories == DiskHistories /\ MemoryHistory

\* A result that does not count leaves the completed prefix as it is.
LEMMA RecordUncounted ==
  ASSUME manifest \in Manifest, NEW d \in 0..Length, CompletedPrefix(manifest, d),
         Len(manifest.steps) < Length, NEW status \in StepStatus, status # "EXECUTED"
  PROVE  CompletedPrefix(Record(status), d)
  <1>1. manifest.steps \in Seq(StepStatus)
    BY DEF Manifest
  <1>2. /\ Len(Append(manifest.steps, status)) = Len(manifest.steps) + 1
        /\ \A i \in 1..Len(manifest.steps) :
              Append(manifest.steps, status)[i] = manifest.steps[i]
        /\ Append(manifest.steps, status)[Len(manifest.steps) + 1] = status
    BY <1>1, AppendProperties
  <1>3. Len(manifest.steps) \in Nat
    BY <1>1, LenProperties
  <1>4. Record(status).steps = Append(manifest.steps, status)
    BY RecordType
  <1>5. d <= Len(manifest.steps)
    BY DEF CompletedPrefix
  <1>6. ASSUME NEW i \in 1..(Len(manifest.steps) + 1)
        PROVE  Counts(Append(manifest.steps, status)[i]) <=> i <= d
    <2>1. CASE i = Len(manifest.steps) + 1
      BY <1>2, <1>3, <1>5, <2>1 DEF Counts
    <2>2. CASE i # Len(manifest.steps) + 1
      BY <1>2, <1>3, <2>2 DEF CompletedPrefix
    <2> QED BY <2>1, <2>2
  <1> QED
    BY <1>2, <1>3, <1>4, <1>5, <1>6, ConstantTypes DEF CompletedPrefix

\* An executed result extends a prefix that is the whole history.
LEMMA RecordCounted ==
  ASSUME manifest \in Manifest, NEW k \in Steps, Len(manifest.steps) = k - 1,
         CompletedPrefix(manifest, k - 1)
  PROVE  CompletedPrefix(Record("EXECUTED"), k)
  <1>1. manifest.steps \in Seq(StepStatus) /\ "EXECUTED" \in StepStatus
    BY DEF Manifest, StepStatus
  <1>2. /\ Len(Append(manifest.steps, "EXECUTED")) = k
        /\ \A i \in 1..(k - 1) : Append(manifest.steps, "EXECUTED")[i] = manifest.steps[i]
        /\ Append(manifest.steps, "EXECUTED")[k] = "EXECUTED"
    BY <1>1, AppendProperties, ConstantTypes DEF Steps
  <1> QED
    BY <1>1, <1>2, RecordType, ConstantTypes DEF CompletedPrefix, Counts, Steps

\* Failing the last result takes at most that one off the completed prefix.
LEMMA AmendPrefix ==
  ASSUME NEW m \in Manifest, NEW n \in Steps, Len(m.steps) = n,
         NEW d \in 0..Length, CompletedPrefix(m, d)
  PROVE  \E e \in 0..d : CompletedPrefix(Amend(m, "FAILED"), e)
  <1>1. m.steps \in Seq(StepStatus) /\ "FAILED" \in StepStatus
    BY DEF Manifest, StepStatus
  <1> DEFINE e == IF d = n THEN n - 1 ELSE d
             s == [m.steps EXCEPT ![n] = "FAILED"]
  <1>2. Len(s) = n /\ \A i \in 1..n : s[i] = IF i = n THEN "FAILED" ELSE m.steps[i]
    BY <1>1, ExceptSeq, ConstantTypes DEF Steps
  <1>3. Amend(m, "FAILED").steps = s
    BY DEF Amend, Manifest
  <1>4. d <= n /\ e \in 0..d
    BY ConstantTypes DEF CompletedPrefix, Steps
  <1> HIDE DEF s
  <1>5. CompletedPrefix(Amend(m, "FAILED"), e)
    BY <1>2, <1>3, <1>4, ConstantTypes DEF CompletedPrefix, Counts, Steps
  <1> QED BY <1>4, <1>5

\* A history stays true when its last result is taken back.
LEMMA BackedAmend ==
  ASSUME NEW m \in Manifest, NEW n \in Steps, Len(m.steps) = n,
         NEW d \in 0..Length, Backed(m, d)
  PROVE  \E e \in 0..d : e \in 0..Length /\ Backed(Amend(m, "FAILED"), e)
  <1>1. PICK e \in 0..d : CompletedPrefix(Amend(m, "FAILED"), e)
    BY AmendPrefix DEF Backed
  <1>2. e \in 0..Length /\ 1..e \subseteq 1..d
    BY ConstantTypes
  <1>3. /\ Amend(m, "FAILED").origin = m.origin
        /\ Amend(m, "FAILED").recovery = m.recovery
    BY DEF Amend, Manifest
  <1> QED
    BY <1>1, <1>2, <1>3 DEF Backed

\* In particular a whole history whose last result fails is whole without it.
LEMMA BackedFailLast ==
  ASSUME NEW m \in Manifest, NEW n \in Steps, Len(m.steps) = n,
         Backed(m, n - 1) \/ Backed(m, n)
  PROVE  Backed(Amend(m, "FAILED"), n - 1)
  <1>1. m.steps \in Seq(StepStatus) /\ "FAILED" \in StepStatus
    BY DEF Manifest, StepStatus
  <1> DEFINE s == [m.steps EXCEPT ![n] = "FAILED"]
  <1>2. Len(s) = n /\ \A i \in 1..n : s[i] = IF i = n THEN "FAILED" ELSE m.steps[i]
    BY <1>1, ExceptSeq, ConstantTypes DEF Steps
  <1>3. /\ Amend(m, "FAILED").steps = s
        /\ Amend(m, "FAILED").origin = m.origin
        /\ Amend(m, "FAILED").recovery = m.recovery
    BY DEF Amend, Manifest
  <1> HIDE DEF s
  <1>4. \A i \in 1..n : Counts(s[i]) <=> i <= n - 1
    BY <1>2, ConstantTypes DEF Backed, CompletedPrefix, Counts, Steps
  <1>5. CompletedPrefix(Amend(m, "FAILED"), n - 1)
    BY <1>2, <1>3, <1>4, ConstantTypes DEF CompletedPrefix, Steps
  <1>6. 1..(n - 1) \subseteq performed[m.origin] \cap m.recovery
    BY ConstantTypes DEF Backed, Steps
  <1> QED
    BY <1>3, <1>5, <1>6 DEF Backed

\* A history stays true when its run is closed.
LEMMA BackedClose ==
  ASSUME NEW m \in Manifest, NEW d \in 0..Length, Backed(m, d),
         NEW status, NEW failed
  PROVE  /\ Backed(Close(m, status, failed), d)
         /\ Close(m, status, failed).status = status
         /\ Close(m, status, failed).dry_run = m.dry_run
         /\ Close(m, status, failed).origin = m.origin
  <1>1. /\ Close(m, status, failed).steps = m.steps
        /\ Close(m, status, failed).origin = m.origin
        /\ Close(m, status, failed).recovery = m.recovery
        /\ Close(m, status, failed).status = status
        /\ Close(m, status, failed).dry_run = m.dry_run
    BY DEF Close, Manifest
  <1> QED
    BY <1>1 DEF Backed, CompletedPrefix

\* What was performed stays performed: nothing on disk loses its backing.
LEMMA DiskKept ==
  ASSUME Typed, DiskHistories, disk' = disk,
         \A l \in Runs : performed[l] \subseteq performed'[l]
  PROVE  DiskHistories'
  <1> SUFFICES ASSUME NEW r \in 1..Current
               PROVE  /\ \E d \in 0..Length : Backed(disk[r], d)'
                      /\ disk[r].status = "EXECUTED" => Complete(disk[r])'
    BY DEF DiskHistories, Current
  <1>1. disk[r] \in Manifest
    BY ElementOfSeq DEF Typed, TypeOK, Current
  <1>2. performed[disk[r].origin] \subseteq performed'[disk[r].origin]
    BY <1>1 DEF Manifest
  <1>3. PICK d \in 0..Length : Backed(disk[r], d)
    BY DEF DiskHistories
  <1>4. Backed(disk[r], d)'
    BY <1>2, <1>3 DEF Backed, CompletedPrefix
  <1>5. disk[r].status = "EXECUTED" => Complete(disk[r])'
    BY <1>2 DEF DiskHistories, Complete
  <1> QED BY <1>4, <1>5

\* Saving a true history keeps those on disk true.
LEMMA DiskSaved ==
  ASSUME Typed, DiskHistories, Current \in Runs, NEW m \in Manifest, disk' = Saved(m),
         UNCHANGED performed,
         \E d \in 0..Length : Backed(m, d),
         m.status = "EXECUTED" => Complete(m)
  PROVE  DiskHistories'
  <1>1. Current' = Current
    BY SavedType DEF Typed, Current
  <1>2. \A r \in 1..Current : disk'[r] = IF r = Current THEN m ELSE disk[r]
    BY SavedType DEF Typed
  <1> SUFFICES ASSUME NEW r \in 1..Current
               PROVE  /\ \E d \in 0..Length : Backed(disk[r], d)'
                      /\ disk'[r].status = "EXECUTED" => Complete(disk[r])'
    BY <1>1 DEF DiskHistories
  <1>3. CASE r = Current
    BY <1>2, <1>3 DEF Backed, CompletedPrefix, Complete
  <1>4. CASE r # Current
    BY <1>2, <1>4 DEF DiskHistories, Backed, CompletedPrefix, Complete
  <1> QED BY <1>3, <1>4

\* A process that ends leaves no history to justify.
LEMMA EndedHistory ==
  ASSUME Ended
  PROVE  MemoryHistory'
  <1>1. Blank \in Manifest /\ Blank.steps = <<>> /\ Blank.status = "RUNNING"
    BY BlankType DEF Blank, Fresh
  <1>2. CompletedPrefix(Blank, 0) /\ 0 \in 0..Length /\ 1..0 = {}
    BY <1>1, EmptySeq, ConstantTypes DEF CompletedPrefix
  <1>3. manifest' = Blank /\ proc' = Idle
    BY DEF Ended
  <1>4. Backed(manifest, 0)'
    BY <1>2, <1>3 DEF Backed, CompletedPrefix
  <1>5. proc'.pc = "idle"
    BY <1>3 DEF Idle
  <1> QED
    BY <1>1, <1>2, <1>3, <1>4, <1>5 DEF MemoryHistory

\* Closing a run keeps the histories true.
LEMMA SettleHistory ==
  ASSUME Typed, DiskHistories, Current \in Runs, NEW m \in Manifest,
         NEW status \in RunStatus, NEW failed \in 0..Length, Settle(m, status, failed),
         \E d \in 0..Length : Backed(m, d),
         status = "EXECUTED" => Complete(m)
  PROVE  Histories'
  <1> DEFINE c == Close(m, status, failed)
  <1>1. PICK d \in 0..Length : Backed(m, d)
    OBVIOUS
  <1>2. /\ c \in Manifest /\ Backed(c, d)
        /\ c.status = status /\ c.dry_run = m.dry_run /\ c.origin = m.origin
    BY <1>1, CloseType, BackedClose
  <1>3. c.status = "EXECUTED" => Complete(c)
    BY <1>2 DEF Complete
  <1>4. disk' = Saved(c) /\ Ended /\ UNCHANGED performed
    BY DEF Settle, history
  <1> HIDE DEF c
  <1> QED
    BY <1>2, <1>3, <1>4, DiskSaved, EndedHistory DEF Histories

\* At first there is no history.
LEMMA InitHistories == Init => Histories
  <1> SUFFICES ASSUME Init PROVE Histories
    OBVIOUS
  <1>1. Blank.steps = <<>> /\ Blank.status = "RUNNING"
    BY DEF Blank, Fresh
  <1>2. manifest = Blank /\ proc.pc = "idle" /\ Current = 0
    BY EmptySeq DEF Init, Idle, Current
  <1>3. Backed(manifest, 0) /\ 0 \in 0..Length
    BY <1>1, <1>2, EmptySeq, ConstantTypes DEF Backed, CompletedPrefix
  <1>4. DiskHistories
    BY <1>2 DEF DiskHistories
  <1> QED
    BY <1>1, <1>2, <1>3, <1>4 DEF Histories, MemoryHistory

\* A step that only moves the process: its history has the same backing.
LEMMA BackedKept ==
  ASSUME NEW m \in Manifest, NEW d, Backed(m, d), UNCHANGED performed
  PROVE  Backed(m, d)'
  BY DEF Backed, CompletedPrefix

\* The whole history of a real run about to start step k, or just before the last
\* of its results, counts.
LEMMA NextHistories == Typed /\ Histories /\ [Next]_vars => Histories'
  <1> SUFFICES ASSUME Typed, Histories, [Next]_vars PROVE Histories'
    OBVIOUS
  <1> USE DEF Histories
  <1>a. manifest \in Manifest /\ proc \in Process
    BY DEF Typed, TypeOK
  <1>b. ASSUME UNCHANGED <<disk, performed>> PROVE DiskHistories'
    BY <1>b, DiskKept
  <1>c. ASSUME UNCHANGED <<disk, manifest, proc, performed>> PROVE Histories'
    <2>1. MemoryHistory'
      BY <1>c DEF MemoryHistory, Backed, CompletedPrefix
    <2> QED BY <1>b, <1>c, <2>1
  <1>1. CASE UNCHANGED vars
    BY <1>1, <1>c DEF vars, memory, history
  <1>2. ASSUME NEW dry \in BOOLEAN, Execute(dry) PROVE Histories'
    <2> DEFINE m == [Fresh(Current + 1) EXCEPT !.dry_run = dry]
    <2>1. m.steps = <<>> /\ m.status = "RUNNING"
      BY DEF Fresh
    <2>2. manifest' = m /\ proc'.pc = "begin" /\ proc'.at = 1 /\ UNCHANGED <<disk, performed>>
      BY <1>2, <2>1, EmptySeq DEF Execute, Begin, history, Idle
    <2>3. Backed(manifest, 0)' /\ 0 \in 0..Length
      BY <2>1, <2>2, EmptySeq, ConstantTypes DEF Backed, CompletedPrefix
    <2>4. MemoryHistory'
      BY <2>1, <2>2, <2>3 DEF MemoryHistory
    <2> QED
      BY <1>b, <2>2, <2>4
  <1>3. ASSUME NEW r \in 1..Current, NEW dry \in BOOLEAN, Resume(r, dry) PROVE Histories'
    <2>1. PICK d \in 0..Length : CompletedPrefix(disk[r], d) /\ Begin(Taken(disk[r], d, dry))
      BY <1>3 DEF Resume
    <2> DEFINE m == disk[r]
               t == Taken(m, d, dry)
    <2>2. m \in Manifest /\ m.steps \in Seq(StepStatus) /\ d <= Len(m.steps)
      <3>1. m \in Manifest
        BY ElementOfSeq DEF Typed, TypeOK, Current
      <3> QED
        BY <2>1, <3>1 DEF Manifest, CompletedPrefix
    <2>3. /\ t.steps = SubSeq(m.steps, 1, d) /\ t.status = "RUNNING" /\ t.dry_run = dry
          /\ t.origin = m.origin /\ t.recovery = m.recovery
      BY <2>2 DEF Taken, Manifest
    <2>4. Len(t.steps) = d /\ \A i \in 1..d : t.steps[i] = m.steps[i]
      <3>1. \A i \in 1..d : m.steps[i] \in StepStatus
        BY <2>2, LenProperties, ElementOfSeq
      <3> QED
        BY <2>3, <3>1, SubSeqProperties
    <2>5. \A i \in 1..d : Counts(m.steps[i])
      BY <2>1, <2>2, LenProperties DEF CompletedPrefix
    <2>6. 1..d \subseteq performed[m.origin] \cap m.recovery
      <3>1. PICK e \in 0..Length : Backed(m, e)
        BY DEF DiskHistories
      <3>2. \A i \in 1..d : i <= e
        BY <2>2, <2>5, <3>1, LenProperties DEF Backed, CompletedPrefix
      <3>3. 1..d \subseteq 1..e
        BY <3>2
      <3> QED
        BY <3>1, <3>3 DEF Backed
    <2>7. CompletedPrefix(t, d)
      BY <2>4, <2>5, ConstantTypes DEF CompletedPrefix
    <2>8. /\ manifest' = t /\ proc'.pc = "begin" /\ proc'.at = d + 1
          /\ UNCHANGED <<disk, performed>>
      BY <2>1, <2>4 DEF Begin, history, Idle
    <2> HIDE DEF t, m
    <2>9. Backed(manifest, d)'
      BY <2>3, <2>6, <2>7, <2>8 DEF Backed, CompletedPrefix
    <2>10. proc'.at - 1 = d
      BY <2>8
    <2>11. MemoryHistory'
      BY <2>3, <2>8, <2>9, <2>10 DEF MemoryHistory
    <2> QED
      BY <1>b, <2>8, <2>11
  <1>4. CASE RefuseCapabilities
    BY <1>4, <1>b, EndedHistory DEF RefuseCapabilities, history
  <1>5. CASE CreateRun
    <2>1. /\ manifest' = manifest /\ disk' = Append(disk, manifest) /\ performed' = performed
          /\ proc.pc = "begin" /\ proc'.pc = "step" /\ proc'.at = proc.at
      BY <1>5, <1>a DEF CreateRun, history, Process
    <2>2. MemoryHistory'
      BY <1>a, <2>1, BackedKept DEF MemoryHistory
    <2>3. DiskHistories'
      <3>1. /\ Current' = Current + 1 /\ Current \in Nat
            /\ \A r \in 1..Current : disk'[r] = disk[r]
            /\ disk'[Current + 1] = manifest
        BY <1>a, <2>1, AppendProperties, LenProperties DEF Typed, TypeOK, Current
      <3> SUFFICES ASSUME NEW r \in 1..(Current + 1)
                   PROVE  /\ \E d \in 0..Length : Backed(disk[r], d)'
                          /\ disk'[r].status = "EXECUTED" => Complete(disk[r])'
        BY <3>1 DEF DiskHistories
      <3>2. CASE r \in 1..Current
        BY <2>1, <3>1, <3>2 DEF DiskHistories, Backed, CompletedPrefix, Complete
      <3>3. CASE r = Current + 1
        BY <2>1, <3>1, <3>3 DEF MemoryHistory, Backed, CompletedPrefix
      <3> QED BY <3>1, <3>2, <3>3
    <2> QED BY <2>2, <2>3
  <1>6. ASSUME NEW k \in Steps, StepPlanned(k) PROVE Histories'
    <2>1. /\ manifest' = Record("PLANNED") /\ manifest.dry_run /\ Len(manifest.steps) < Length
          /\ UNCHANGED <<disk, performed>>
      BY <1>6, ConstantTypes
         DEF StepPlanned, Advance, Skipped, AtStep, history, Typed, Located, Steps
    <2>2. PICK d \in 0..Length : Backed(manifest, d)
      BY DEF MemoryHistory
    <2>3. CompletedPrefix(Record("PLANNED"), d)
      BY <1>a, <2>1, <2>2, RecordUncounted DEF Backed, StepStatus
    <2>4. /\ Record("PLANNED").origin = manifest.origin
          /\ Record("PLANNED").recovery = manifest.recovery
          /\ Record("PLANNED").status = manifest.status
          /\ Record("PLANNED").dry_run = manifest.dry_run
      BY <1>a DEF Record, Manifest
    <2>5. Backed(manifest, d)'
      BY <2>1, <2>2, <2>3, <2>4 DEF Backed, CompletedPrefix
    <2>6. MemoryHistory'
      BY <2>1, <2>4, <2>5 DEF MemoryHistory
    <2> QED BY <1>b, <2>1, <2>6
  <1>7. ASSUME NEW k \in Steps, StepSucceeds(k) PROVE Histories'
    <2> DEFINE status == ExpectedStatus(manifest.dry_run)
    <2>1. /\ proc.pc = "step" /\ proc.at = k /\ Len(manifest.steps) = k - 1
          /\ proc'.pc = "probe" /\ proc'.at = k /\ disk' = disk
      BY <1>7, <1>a DEF StepSucceeds, AtStep, Typed, Located, Process
    <2>2. /\ manifest'.steps = Record(status).steps
          /\ manifest'.origin = manifest.origin /\ manifest'.status = manifest.status
          /\ manifest'.dry_run = manifest.dry_run
          /\ manifest.recovery \subseteq manifest'.recovery
      BY <1>7, <1>a DEF StepSucceeds, Record, Manifest
    <2>3. \A l \in Runs : performed[l] \subseteq performed'[l]
      BY <1>7 DEF StepSucceeds, history, Typed, TypeOK
    <2>4. manifest.origin \in Runs
      BY <1>a DEF Manifest
    <2>5. CASE manifest.dry_run
      <3>1. PICK d \in 0..Length : Backed(manifest, d)
        BY DEF MemoryHistory
      <3>2. status = "VALIDATED" /\ Len(manifest.steps) < Length
        BY <2>1, <2>5, ConstantTypes DEF ExpectedStatus, Steps
      <3>3. CompletedPrefix(Record(status), d)
        BY <1>a, <3>1, <3>2, RecordUncounted DEF Backed, StepStatus
      <3>4. Backed(manifest, d)'
        BY <2>2, <2>3, <2>4, <3>1, <3>3 DEF Backed, CompletedPrefix
      <3> QED
        BY <2>1, <2>2, <2>3, <2>5, <3>4, DiskKept DEF MemoryHistory
    <2>6. CASE ~ manifest.dry_run
      <3>1. Backed(manifest, k - 1)
        BY <2>1, <2>6 DEF MemoryHistory
      <3>2. status = "EXECUTED"
        BY <2>6 DEF ExpectedStatus
      <3>3. CompletedPrefix(Record(status), k)
        BY <1>a, <2>1, <3>1, <3>2, RecordCounted DEF Backed
      <3>4. k \in performed'[manifest.origin] /\ k \in manifest'.recovery
        BY <1>7, <1>a, <2>4, <2>6 DEF StepSucceeds, CallsValidate, Record, Manifest, Typed, TypeOK
      <3>5. 1..k = (1..(k - 1)) \cup {k} /\ k \in 0..Length
        BY ConstantTypes DEF Steps
      <3>6. Backed(manifest, k)'
        BY <2>2, <2>3, <2>4, <3>1, <3>3, <3>4, <3>5 DEF Backed, CompletedPrefix
      <3> QED
        BY <2>1, <2>2, <2>3, <2>6, <3>5, <3>6, DiskKept DEF MemoryHistory
    <2> QED BY <2>5, <2>6
  <1>8. ASSUME NEW k \in Steps, StepReportsFailure(k) PROVE Histories'
    <2>1. /\ proc.pc = "step" /\ proc.at = k /\ Len(manifest.steps) = k - 1
          /\ proc'.pc = "probe" /\ proc'.at = k /\ UNCHANGED <<disk, performed>>
          /\ manifest' = Record("FAILED")
      BY <1>8, <1>a DEF StepReportsFailure, AtStep, Typed, Located, Process, history
    <2>2. /\ Record("FAILED").origin = manifest.origin
          /\ Record("FAILED").recovery = manifest.recovery
          /\ Record("FAILED").status = manifest.status
          /\ Record("FAILED").dry_run = manifest.dry_run
      BY <1>a DEF Record, Manifest
    <2>3. ASSUME NEW d \in 0..Length, Backed(manifest, d) PROVE Backed(manifest, d)'
      <3>1. CompletedPrefix(Record("FAILED"), d)
        BY <1>a, <2>1, <2>3, RecordUncounted, ConstantTypes DEF Backed, StepStatus, Steps
      <3> QED
        BY <2>1, <2>2, <2>3, <3>1 DEF Backed, CompletedPrefix
    <2>4. k - 1 \in 0..Length
      BY ConstantTypes DEF Steps
    <2>5. MemoryHistory'
      BY <2>1, <2>2, <2>3, <2>4 DEF MemoryHistory
    <2> QED BY <1>b, <2>1, <2>5
  <1>9. ASSUME NEW k \in Steps, StepRaises(k) PROVE Histories'
    <2>1. Record("FAILED") \in Manifest /\ k \in 0..Length /\ "UPDATE_FAILED_PRESERVED" \in RunStatus
      BY <1>a, RecordType, ConstantTypes DEF StepStatus, RunStatus, Steps
    <2>2. /\ Settle(Record("FAILED"), "UPDATE_FAILED_PRESERVED", k)
          /\ Current \in Runs /\ Len(manifest.steps) = k - 1
      BY <1>9 DEF StepRaises, AtStep, Typed, Located
    <2>3. PICK d \in 0..Length : Backed(manifest, d)
      BY DEF MemoryHistory
    <2>4. Backed(Record("FAILED"), d)
      <3>1. CompletedPrefix(Record("FAILED"), d)
        BY <1>a, <2>2, <2>3, RecordUncounted, ConstantTypes DEF Backed, StepStatus, Steps
      <3>2. /\ Record("FAILED").origin = manifest.origin
            /\ Record("FAILED").recovery = manifest.recovery
        BY <1>a DEF Record, Manifest
      <3> QED
        BY <2>3, <3>1, <3>2 DEF Backed
    <2> QED
      BY <2>1, <2>2, <2>4, SettleHistory
  <1>10. CASE Checkpoint
    <2>1. PICK m \in {manifest, Amend(manifest, "FAILED")} :
            manifest' = m /\ disk' = Saved(m)
      BY <1>10 DEF Checkpoint
    <2>2. /\ proc.pc = "probe" /\ proc'.pc = "verdict" /\ proc'.at = proc.at
          /\ proc.at \in Steps /\ Len(manifest.steps) = proc.at /\ Current \in Runs
          /\ UNCHANGED performed
      BY <1>10, <1>a DEF Checkpoint, Typed, Located, Process
    <2>3. m \in Manifest /\ m.status = "RUNNING" /\ m.dry_run = manifest.dry_run
      <3>1. /\ Amend(manifest, "FAILED").status = manifest.status
            /\ Amend(manifest, "FAILED").dry_run = manifest.dry_run
        BY <1>a DEF Amend, Manifest
      <3>2. Amend(manifest, "FAILED") \in Manifest
        BY <1>a, AmendType DEF StepStatus
      <3> QED
        BY <1>a, <2>1, <3>1, <3>2 DEF MemoryHistory
    <2>4. \E d \in 0..Length : Backed(m, d)
      BY <1>a, <2>1, <2>2, BackedAmend DEF MemoryHistory
    <2>5. ~ m.dry_run => Backed(m, proc.at - 1) \/ Backed(m, proc.at)
      <3> SUFFICES ASSUME ~ m.dry_run, m # manifest
                   PROVE  Backed(m, proc.at - 1) \/ Backed(m, proc.at)
        BY <2>2, <2>3 DEF MemoryHistory
      <3>2. m = Amend(manifest, "FAILED")
        BY <2>1
      <3>3. Backed(manifest, proc.at - 1) \/ Backed(manifest, proc.at)
        BY <2>2, <2>3 DEF MemoryHistory
      <3> QED
        BY <1>a, <2>2, <3>2, <3>3, BackedFailLast
    <2>6. DiskHistories'
      BY <2>1, <2>2, <2>3, <2>4, DiskSaved
    <2>7. MemoryHistory'
      <3>1. PICK d \in 0..Length : Backed(m, d)
        BY <2>4
      <3>2. Backed(manifest, d)'
        BY <2>1, <2>2, <3>1 DEF Backed, CompletedPrefix
      <3>3. ~ manifest'.dry_run => (Backed(manifest, proc.at - 1) \/ Backed(manifest, proc.at))'
        BY <2>1, <2>2, <2>5 DEF Backed, CompletedPrefix
      <3> QED
        BY <2>1, <2>2, <2>3, <3>2, <3>3 DEF MemoryHistory
    <2> QED BY <2>6, <2>7
  <1>11. CASE VerdictContinues
    <2>1. /\ proc.pc = "verdict" /\ proc.at \in Steps /\ Len(manifest.steps) = proc.at
          /\ UNCHANGED <<disk, performed>>
          /\ proc'.pc = "step" /\ proc'.at = proc.at + 1
          /\ manifest.steps[proc.at] = ExpectedStatus(manifest.dry_run)
      BY <1>11, <1>a DEF VerdictContinues, Accepted, Typed, Located, Process, history
    <2>2. /\ manifest'.steps = manifest.steps /\ manifest'.origin = manifest.origin
          /\ manifest'.recovery = manifest.recovery /\ manifest'.status = manifest.status
          /\ manifest'.dry_run = manifest.dry_run
      BY <1>11, <1>a DEF VerdictContinues, Manifest
    <2>3. \A d : Backed(manifest, d) => Backed(manifest, d)'
      BY <2>1, <2>2 DEF Backed, CompletedPrefix
    <2>4. ~ manifest.dry_run => Backed(manifest, proc.at)
      <3> SUFFICES ASSUME ~ manifest.dry_run PROVE Backed(manifest, proc.at)
        OBVIOUS
      <3>1. manifest.steps[proc.at] = "EXECUTED"
        BY <2>1 DEF ExpectedStatus
      <3>2. ~ Backed(manifest, proc.at - 1)
        BY <2>1, <3>1, ConstantTypes DEF Backed, CompletedPrefix, Counts, Steps
      <3> QED
        BY <2>1, <3>2 DEF MemoryHistory
    <2>5. proc'.at - 1 = proc.at
      BY <2>1, ConstantTypes DEF Steps
    <2>6. MemoryHistory'
      BY <2>1, <2>2, <2>3, <2>4, <2>5 DEF MemoryHistory
    <2> QED BY <1>b, <2>1, <2>6
  <1>12. CASE VerdictStops
    <2>1. /\ Settle(Amend(manifest, "FAILED"), "UPDATE_FAILED_PRESERVED", proc.at)
          /\ proc.at \in Steps /\ Len(manifest.steps) = proc.at /\ Current \in Runs
      BY <1>12 DEF VerdictStops, Typed, Located
    <2>2. /\ Amend(manifest, "FAILED") \in Manifest /\ proc.at \in 0..Length
          /\ "UPDATE_FAILED_PRESERVED" \in RunStatus
      BY <1>a, <2>1, AmendType, ConstantTypes DEF StepStatus, RunStatus, Steps
    <2>3. \E d \in 0..Length : Backed(Amend(manifest, "FAILED"), d)
      BY <1>a, <2>1, BackedAmend DEF MemoryHistory
    <2> QED
      BY <2>1, <2>2, <2>3, SettleHistory
  <1>13. CASE Finish
    <2>1. /\ Settle(manifest, FinalStatus(manifest), 0) /\ Current \in Runs
          /\ proc.pc = "step" /\ proc.at = Length + 1
      BY <1>13 DEF Finish, Typed, Located
    <2>2. FinalStatus(manifest) \in RunStatus /\ 0 \in 0..Length
      BY <1>a, FinalStatusType, ConstantTypes
    <2>3. FinalStatus(manifest) = "EXECUTED" => Complete(manifest)
      <3>1. FinalStatus(manifest) = "EXECUTED" => ~ manifest.dry_run
        BY <1>a DEF FinalStatus, Manifest
      <3>2. proc.at - 1 = Length
        BY <2>1, ConstantTypes
      <3> QED
        BY <2>1, <3>1, <3>2 DEF MemoryHistory, Backed, Complete, Steps
    <2>4. \E d \in 0..Length : Backed(manifest, d)
      BY DEF MemoryHistory
    <2> QED
      BY <1>a, <2>1, <2>2, <2>3, <2>4, SettleHistory
  <1>14. CASE Crash
    BY <1>14, <1>b, EndedHistory DEF Crash, history
  <1>15. CASE EditFiles
    BY <1>15, <1>c DEF EditFiles, memory, history
  <1>16. CASE EditConfig
    BY <1>16, <1>c DEF EditConfig, memory, history
  <1> QED
    BY <1>1, <1>2, <1>3, <1>4, <1>5, <1>6, <1>7, <1>8, <1>9, <1>10, <1>11, <1>12, <1>13,
       <1>14, <1>15, <1>16 DEF Next, Starts, Work, RunsStep

\* Every history, on disk or in memory, is a completed prefix followed by at most
\* one step that does not count, and all of the prefix was performed.
THEOREM AlwaysBacked == Spec => []Histories
  BY InitTyped, InitHistories, NextTyped, NextHistories, PTL DEF Spec

\* No manifest the program writes is one its own resume refuses as out of order
\* (service.py 534-558).
THEOREM ResumeAcceptsOwnHistory == Spec => []HistoryResumable
  <1>1. Histories => HistoryResumable
    BY DEF Histories, DiskHistories, Backed, HistoryResumable
  <1> QED BY <1>1, AlwaysBacked, PTL

\* Every step reported executed on disk was performed and left its recovery data
\* in the same manifest (runner.py 102-159, service.py 380-411).
THEOREM RecordsStayTrue == Spec => []RecordsAreTrue
  <1>1. Typed /\ Histories => RecordsAreTrue
    <2> SUFFICES ASSUME Typed, Histories, NEW r \in 1..Current
                 PROVE  Executed(disk[r]) \subseteq performed[disk[r].origin] \cap disk[r].recovery
      BY DEF RecordsAreTrue
    <2>1. PICK d \in 0..Length : Backed(disk[r], d)
      BY DEF Histories, DiskHistories
    <2>2. Executed(disk[r]) \subseteq 1..d
      BY <2>1 DEF Executed, Backed, CompletedPrefix
    <2> QED
      BY <2>1, <2>2 DEF Backed
  <1> QED BY <1>1, AlwaysTyped, AlwaysBacked, PTL

\* A run reported EXECUTED is real and its lineage performed the whole plan
\* (runner.py 177-186).
THEOREM SuccessStaysComplete == Spec => []SuccessIsComplete
  <1>1. Typed /\ Histories => SuccessIsComplete
    <2> SUFFICES ASSUME Typed, Histories, NEW r \in 1..Current, disk[r].status = "EXECUTED"
                 PROVE  ~ disk[r].dry_run /\ performed[disk[r].origin] = Steps
      BY DEF SuccessIsComplete
    <2>1. Complete(disk[r])
      BY DEF Histories, DiskHistories
    <2>2. disk[r] \in Manifest
      BY ElementOfSeq DEF Typed, TypeOK, Current
    <2>3. performed[disk[r].origin] \subseteq Steps
      BY <2>2 DEF Typed, TypeOK, Manifest
    <2> QED
      BY <2>1, <2>3 DEF Complete
  <1> QED BY <1>1, AlwaysTyped, AlwaysBacked, PTL

=============================================================================

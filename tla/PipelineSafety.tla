--------------------------- MODULE PipelineSafety ---------------------------
(***************************************************************************)
(* More promises of Pipeline, for every plan and every operator: dry-runs  *)
(* are inert, a lineage keeps to one critical configuration, a manifest    *)
(* says where its run stands, and, while no process dies, a real step      *)
(* starts from the effects of its own plan and never past a regression.    *)
(***************************************************************************)
EXTENDS PipelineProofs

\* In a dry-run only READ_ONLY steps are executed, and they change nothing.
LEMMA DryEffect ==
  ASSUME manifest.dry_run, NEW k \in Steps, NEW complete \in BOOLEAN, NEW touched \in Touches(k)
  PROVE  AppliedAfter(k, complete, touched) = applied /\ MatchingAfter(touched) = matching
  <1>1. ~ Disturbs(k) /\ touched = FALSE
    BY EffectAssumption DEF Disturbs, CallsExecute, Touches
  <1> QED
    BY <1>1 DEF AppliedAfter, MatchingAfter

\* A dry-run touches nothing of the destination and earns no step
\* (runner.py 196-247), for every plan whose READ_ONLY steps read only.
THEOREM DryRunsStayInert == Spec => DryRunIsInert
  <1> DEFINE Inert == manifest.dry_run /\ proc.pc # "idle"
                        => /\ UNCHANGED <<applied, performed>>
                           /\ matching \subseteq matching'
  <1>1. ASSUME [Next]_vars PROVE [Inert]_vars
    <2> SUFFICES ASSUME Next, manifest.dry_run, proc.pc # "idle"
                 PROVE  /\ UNCHANGED <<applied, performed>>
                        /\ matching \subseteq matching'
      BY <1>1
    <2>1. CASE RefuseCapabilities \/ CreateRun \/ Checkpoint \/ VerdictContinues
      BY <2>1 DEF RefuseCapabilities, CreateRun, Checkpoint, VerdictContinues, history
    <2>2. CASE VerdictStops \/ Finish
      BY <2>2 DEF VerdictStops, Finish, Settle, history
    <2>3. ASSUME NEW k \in Steps, StepPlanned(k) \/ StepSucceeds(k) \/ StepReportsFailure(k)
          PROVE  UNCHANGED <<applied, performed, matching>>
      BY <2>3, DryEffect
         DEF StepPlanned, StepSucceeds, StepReportsFailure, Effect, NoEffect, history
    <2>4. ASSUME NEW k \in Steps, StepRaises(k)
          PROVE  UNCHANGED <<applied, performed>> /\ matching \subseteq matching'
      BY <2>4, DryEffect DEF StepRaises, Settle, history
    <2>5. CASE Crash
      BY <2>5, DryEffect DEF Crash, Effect, NoEffect, history
    <2>6. CASE EditFiles \/ EditConfig \/ Starts
      BY <2>6 DEF EditFiles, EditConfig, Starts, Execute, Resume, Begin, history
    <2> QED
      BY <2>1, <2>2, <2>3, <2>4, <2>5, <2>6 DEF Next, Work, RunsStep
  <1> QED
    BY <1>1, PTL DEF Spec, DryRunIsInert

-----------------------------------------------------------------------------
(***************************************************************************)
(* One configuration per lineage.  What is compared on resume is a copy of *)
(* a copy; it stands for the configuration of every earlier run because    *)
(* all the manifests of a lineage agree on it, and because nothing edits   *)
(* the configuration under a running process.                              *)
(***************************************************************************)

Agreed(r, m) == disk[r].origin = m.origin => disk[r].config = m.config

DiskAgrees ==
    /\ \A r \in 1..Current :
          disk[r].origin \in 1..Current /\ ranUnder[disk[r].origin] \subseteq {disk[r].config}
    /\ \A r, s \in 1..Current : Agreed(r, disk[s])
    /\ \A l \in Runs : l \notin 1..Current => ranUnder[l] = {}
    /\ OneConfiguration

MemoryAgrees ==
    proc.pc # "idle" =>
        /\ manifest.config = config
        /\ ranUnder[manifest.origin] \subseteq {manifest.config}
        /\ \A r \in 1..Current : Agreed(r, manifest)
        /\ \/ manifest.origin \in 1..Current
           \/ proc.pc = "begin" /\ manifest.origin = Current + 1

Agreement == DiskAgrees /\ MemoryAgrees

\* What the process writes keeps the lineage and the configuration it was given.
Kept(m) == m \in Manifest /\ m.origin = manifest.origin /\ m.config = manifest.config

\* Recording and amending keep the lineage and the configuration.
LEMMA KeptByUpdates ==
  ASSUME manifest \in Manifest, NEW status \in StepStatus
  PROVE  /\ Kept(manifest) /\ Kept(Record(status)) /\ Kept(Amend(manifest, status))
         /\ \A rec : [Record(status) EXCEPT !.recovery = rec].origin = manifest.origin
                     /\ [Record(status) EXCEPT !.recovery = rec].config = manifest.config
  <1>1. Record(status) \in Manifest /\ Amend(manifest, status) \in Manifest
    BY RecordType, AmendType
  <1> QED
    BY <1>1 DEF Kept, Record, Amend, Manifest

\* Saving what the process holds disturbs no agreement.
LEMMA SavedAgrees ==
  ASSUME Typed, Agreement, Current \in Runs, NEW m \in Manifest,
         m.origin = manifest.origin, m.config = manifest.config,
         proc.pc \in {"step", "probe", "verdict"}, disk' = Saved(m), UNCHANGED ranUnder
  PROVE  /\ DiskAgrees' /\ Current' = Current
         /\ \A r \in 1..Current : disk'[r].origin = m.origin => disk'[r].config = m.config
  <1>1. Current' = Current /\ Current \in 1..Current
    BY SavedType DEF Typed, Current, Runs
  <1>2. \A r \in 1..Current : disk'[r] = IF r = Current THEN m ELSE disk[r]
    BY SavedType DEF Typed
  <1>3. /\ m.origin \in 1..Current /\ ranUnder[m.origin] \subseteq {m.config}
        /\ \A r \in 1..Current : disk[r].origin = m.origin => disk[r].config = m.config
    BY DEF Agreement, MemoryAgrees, Agreed
  <1>4. \A r \in 1..Current : disk'[r].origin = m.origin => disk'[r].config = m.config
    BY <1>2, <1>3
  <1>5. \A r \in 1..Current :
          /\ disk'[r].origin \in 1..Current
          /\ ranUnder[disk'[r].origin] \subseteq {disk'[r].config}
    BY <1>2, <1>3 DEF Agreement, DiskAgrees
  <1>6. \A r, s \in 1..Current :
          disk'[r].origin = disk'[s].origin => disk'[r].config = disk'[s].config
    BY <1>2, <1>3 DEF Agreement, DiskAgrees, Agreed
  <1>7. OneConfiguration'
    BY DEF Agreement, DiskAgrees, OneConfiguration
  <1>8. \A l \in Runs : l \notin 1..Current => ranUnder[l] = {}
    BY DEF Agreement, DiskAgrees
  <1> QED
    BY <1>1, <1>4, <1>5, <1>6, <1>7, <1>8 DEF DiskAgrees, Agreed

\* Nothing changes what the manifests agree on but a save or a performed step.
LEMMA DiskStaysAgreed ==
  DiskAgrees /\ disk' = disk /\ ranUnder' = ranUnder => DiskAgrees' /\ Current' = Current
  <1> SUFFICES ASSUME DiskAgrees, disk' = disk, ranUnder' = ranUnder
               PROVE  DiskAgrees' /\ Current' = Current
    OBVIOUS
  <1>1. Current' = Current
    BY DEF Current
  <1>2. OneConfiguration'
    BY DEF DiskAgrees, OneConfiguration
  <1>3. /\ \A r \in 1..Current :
              disk'[r].origin \in 1..Current /\ ranUnder'[disk'[r].origin] \subseteq {disk'[r].config}
        /\ \A r, s \in 1..Current :
              disk'[r].origin = disk'[s].origin => disk'[r].config = disk'[s].config
        /\ \A l \in Runs : l \notin 1..Current => ranUnder'[l] = {}
    BY DEF DiskAgrees, Agreed
  <1> QED
    BY <1>1, <1>2, <1>3 DEF DiskAgrees, Agreed

\* A run begins with the configuration of its lineage, which is the present one.
LEMMA BeginAgrees ==
  ASSUME Typed, DiskAgrees, NEW m, Begin(m), m.config = config,
         ranUnder[m.origin] \subseteq {m.config}, \A r \in 1..Current : Agreed(r, m),
         m.origin \in 1..Current \/ m.origin = Current + 1
  PROVE  Agreement'
  <1>1. UNCHANGED <<disk, ranUnder, config>> /\ manifest' = m /\ Current' = Current
    BY DEF Begin, history, Current
  <1>2. proc'.pc = "begin"
    BY DEF Begin, Idle
  <1>3. DiskAgrees'
    BY <1>1, DiskStaysAgreed
  <1>4. MemoryAgrees'
    BY <1>1, <1>2 DEF MemoryAgrees, Agreed
  <1> QED
    BY <1>3, <1>4 DEF Agreement

\* A process that ended has nothing to agree with.
LEMMA EndedAgrees ==
  ASSUME DiskAgrees', Ended
  PROVE  Agreement'
  BY DEF Agreement, MemoryAgrees, Ended, Idle

\* At first there is nothing to agree on.
LEMMA InitAgrees == Init => Agreement
  <1> SUFFICES ASSUME Init PROVE Agreement
    OBVIOUS
  <1>1. Current = 0
    BY EmptySeq DEF Init, Current
  <1>2. \A l \in Runs : ranUnder[l] = {}
    BY DEF Init
  <1>3. proc.pc = "idle"
    BY DEF Init, Idle
  <1>4. \A r \in 1..Current : FALSE
    BY <1>1
  <1>5. OneConfiguration
    BY <1>2 DEF OneConfiguration
  <1>6. DiskAgrees
    BY <1>2, <1>4, <1>5 DEF DiskAgrees
  <1> QED
    BY <1>3, <1>6 DEF Agreement, MemoryAgrees

\* Every step keeps the agreement of a lineage on its configuration.
LEMMA NextAgrees == Typed /\ Agreement /\ [Next]_vars => Agreement'
  <1> SUFFICES ASSUME Typed, Agreement, [Next]_vars PROVE Agreement'
    OBVIOUS
  <1>a. manifest \in Manifest /\ proc \in Process /\ proc.pc \in {"idle", "begin", "step", "probe", "verdict"}
    BY DEF Typed, TypeOK, Process
  <1>b. ASSUME UNCHANGED <<disk, ranUnder, config>>, Ended
        PROVE  Agreement'
    BY <1>b, DiskStaysAgreed, EndedAgrees DEF Agreement
  <1>e. ASSUME UNCHANGED <<disk, ranUnder, memory>>, proc.pc = "idle"
        PROVE  Agreement'
    <2>1. DiskAgrees'
      BY <1>e, DiskStaysAgreed DEF Agreement
    <2>2. MemoryAgrees'
      BY <1>e DEF MemoryAgrees, memory
    <2> QED
      BY <2>1, <2>2 DEF Agreement
  \* A step of the process that leaves disk alone and stays in the middle of the run.
  <1>c. ASSUME UNCHANGED <<disk, ranUnder, config>>, proc.pc \notin {"idle", "begin"},
               manifest'.origin = manifest.origin, manifest'.config = manifest.config
        PROVE  Agreement'
    <2>1. DiskAgrees'
      BY <1>c, DiskStaysAgreed DEF Agreement
    <2>2. MemoryAgrees'
      BY <1>c DEF Agreement, MemoryAgrees, Agreed, Current
    <2> QED
      BY <2>1, <2>2 DEF Agreement
  <1>1. CASE UNCHANGED vars
    BY <1>1 DEF vars, memory, history, Agreement, DiskAgrees, MemoryAgrees, Agreed,
         OneConfiguration, Current
  <1>2. ASSUME NEW dry \in BOOLEAN, Execute(dry) PROVE Agreement'
    <2> DEFINE m == [Fresh(Current + 1) EXCEPT !.dry_run = dry]
    <2>1. m.config = config /\ m.origin = Current + 1
      BY DEF Fresh
    <2>2. Current \in Nat /\ Current + 1 \in Runs
      BY <1>2, ConstantTypes, LenProperties DEF Execute, Runs, Typed, TypeOK, Current
    <2>3. ranUnder[Current + 1] = {} /\ \A r \in 1..Current : disk[r].origin # Current + 1
      BY <2>2 DEF Agreement, DiskAgrees
    <2>4. Begin(m)
      BY <1>2 DEF Execute
    <2> HIDE DEF m
    <2> QED
      BY <2>1, <2>3, <2>4, BeginAgrees DEF Agreement, Agreed
  <1>3. ASSUME NEW r \in 1..Current, NEW dry \in BOOLEAN, Resume(r, dry) PROVE Agreement'
    <2>1. PICK d \in 0..Length : Begin(Taken(disk[r], d, dry)) /\ disk[r].config = config
      BY <1>3 DEF Resume, SameConfiguration
    <2>2. disk[r] \in Manifest
      BY ElementOfSeq DEF Typed, TypeOK, Current
    <2> DEFINE m == Taken(disk[r], d, dry)
    <2>3. m.config = config /\ m.origin = disk[r].origin
      BY <2>1, <2>2 DEF Taken, Manifest
    <2>4. /\ ranUnder[disk[r].origin] \subseteq {config} /\ disk[r].origin \in 1..Current
          /\ \A s \in 1..Current : disk[s].origin = disk[r].origin => disk[s].config = config
      BY <2>1 DEF Agreement, DiskAgrees, Agreed
    <2>5. Begin(m)
      BY <2>1
    <2> HIDE DEF m
    <2> QED
      BY <2>3, <2>4, <2>5, BeginAgrees DEF Agreement, Agreed
  <1>4. CASE RefuseCapabilities
    BY <1>4, <1>b DEF RefuseCapabilities, history
  <1>5. CASE CreateRun
    <2>1. /\ disk' = Append(disk, manifest) /\ UNCHANGED <<manifest, ranUnder, config>>
          /\ proc.pc = "begin"
      BY <1>5 DEF CreateRun, history
    <2>2. /\ Current \in Nat /\ Current' = Current + 1
          /\ \A r \in 1..Current : disk'[r] = disk[r]
          /\ disk'[Current + 1] = manifest
      BY <2>1, <1>a, AppendProperties, LenProperties DEF Typed, TypeOK, Current
    <2>3. /\ manifest.origin \in 1..Current + 1 /\ manifest.config = config
          /\ ranUnder[manifest.origin] \subseteq {manifest.config}
          /\ \A r \in 1..Current : disk[r].origin = manifest.origin => disk[r].config = manifest.config
      BY <2>1, <2>2 DEF Agreement, MemoryAgrees, Agreed
    <2>4. \A r \in 1..Current + 1 : r \in 1..Current \/ r = Current + 1
      BY <2>2
    <2>5. \A r \in 1..Current + 1 :
             /\ disk'[r].origin \in 1..Current + 1
             /\ ranUnder[disk'[r].origin] \subseteq {disk'[r].config}
             /\ disk'[r].origin = manifest.origin => disk'[r].config = manifest.config
      <3> SUFFICES ASSUME NEW r \in 1..Current + 1
                   PROVE  /\ disk'[r].origin \in 1..Current + 1
                          /\ ranUnder[disk'[r].origin] \subseteq {disk'[r].config}
                          /\ disk'[r].origin = manifest.origin => disk'[r].config = manifest.config
        OBVIOUS
      <3>1. CASE r \in 1..Current
        <4>1. /\ disk[r].origin \in 1..Current
              /\ ranUnder[disk[r].origin] \subseteq {disk[r].config}
          BY <3>1 DEF Agreement, DiskAgrees
        <4>2. disk[r].origin \in 1..Current + 1
          BY <2>2, <4>1
        <4> QED
          BY <2>2, <2>3, <3>1, <4>1, <4>2
      <3>2. CASE r = Current + 1
        BY <2>2, <2>3, <3>2
      <3> QED
        BY <2>4, <3>1, <3>2
    <2>6. \A r, s \in 1..Current + 1 :
             disk'[r].origin = disk'[s].origin => disk'[r].config = disk'[s].config
      BY <2>2, <2>3, <2>4 DEF Agreement, DiskAgrees, Agreed
    <2>7. /\ \A l \in Runs : l \notin 1..Current + 1 => ranUnder[l] = {}
          /\ OneConfiguration'
      BY <2>1, <2>2 DEF Agreement, DiskAgrees, OneConfiguration
    <2>8. DiskAgrees'
      BY <2>1, <2>2, <2>5, <2>6, <2>7 DEF DiskAgrees, Agreed
    <2>9. MemoryAgrees'
      BY <2>1, <2>2, <2>3, <2>5 DEF MemoryAgrees, Agreed
    <2> QED
      BY <2>8, <2>9 DEF Agreement
  <1>6. ASSUME NEW k \in Steps, StepPlanned(k) PROVE Agreement'
    <2>1. manifest'.origin = manifest.origin /\ manifest'.config = manifest.config
      BY <1>6, <1>a, KeptByUpdates DEF StepPlanned, Advance, Kept, StepStatus
    <2> QED
      BY <1>6, <1>c, <2>1 DEF StepPlanned, AtStep, history
  <1>7. ASSUME NEW k \in Steps, StepSucceeds(k) PROVE Agreement'
    <2>1. /\ UNCHANGED <<disk, config>> /\ proc.pc = "step" /\ Current' = Current
          /\ manifest'.origin = manifest.origin /\ manifest'.config = manifest.config
      BY <1>7, <1>a, KeptByUpdates DEF StepSucceeds, AtStep, ExpectedStatus, StepStatus, Current
    <2>2. CASE manifest.dry_run
      BY <1>7, <1>c, <2>1, <2>2 DEF StepSucceeds, history
    <2>3. CASE ~ manifest.dry_run
      <3> DEFINE o == manifest.origin
      <3>1. /\ manifest.config = config /\ o \in 1..Current /\ o \in Runs
            /\ ranUnder[o] \subseteq {config}
            /\ \A r \in 1..Current : disk[r].origin = o => disk[r].config = config
        BY <1>a, <2>1 DEF Agreement, MemoryAgrees, Agreed, Manifest
      <3>2. ranUnder' \in {ranUnder, [ranUnder EXCEPT ![o] = @ \cup {config}]}
        BY <1>7, <2>3 DEF StepSucceeds
      <3>3. /\ \A l \in Runs : l # o => ranUnder'[l] = ranUnder[l]
            /\ ranUnder'[o] \subseteq {config}
        BY <3>1, <3>2 DEF Typed, TypeOK
      <3>4. \A r \in 1..Current :
               disk[r].origin \in 1..Current /\ ranUnder'[disk[r].origin] \subseteq {disk[r].config}
        <4> SUFFICES ASSUME NEW r \in 1..Current
                     PROVE  /\ disk[r].origin \in 1..Current
                            /\ ranUnder'[disk[r].origin] \subseteq {disk[r].config}
          OBVIOUS
        <4>1. disk[r].origin \in 1..Current /\ ranUnder[disk[r].origin] \subseteq {disk[r].config}
          BY DEF Agreement, DiskAgrees
        <4>2. disk[r].origin \in Runs
          <5>1. disk[r] \in Manifest
            BY ElementOfSeq DEF Typed, TypeOK, Current
          <5> QED
            BY <5>1 DEF Manifest
        <4> QED
          BY <3>1, <3>3, <4>1, <4>2
      <3>5. \A l \in Runs : l \notin 1..Current => ranUnder'[l] = {}
        BY <3>1, <3>3 DEF Agreement, DiskAgrees
      <3>6. OneConfiguration'
        BY <3>1, <3>3 DEF Agreement, DiskAgrees, OneConfiguration
      <3>7. DiskAgrees'
        BY <2>1, <3>4, <3>5, <3>6 DEF Agreement, DiskAgrees, Agreed
      <3>8. MemoryAgrees'
        BY <2>1, <3>1, <3>3 DEF MemoryAgrees, Agreed
      <3> QED
        BY <3>7, <3>8 DEF Agreement
    <2> QED
      BY <2>2, <2>3
  <1>8. ASSUME NEW k \in Steps, StepReportsFailure(k) PROVE Agreement'
    <2>1. manifest'.origin = manifest.origin /\ manifest'.config = manifest.config
      BY <1>8, <1>a, KeptByUpdates DEF StepReportsFailure, Kept, StepStatus
    <2> QED
      BY <1>8, <1>c, <2>1 DEF StepReportsFailure, AtStep, history
  \* The end of a run: the manifest closed and saved.
  <1>d. ASSUME NEW m, Kept(m), NEW status \in RunStatus, NEW failed \in 0..Length,
               Settle(m, status, failed), proc.pc \in {"step", "probe", "verdict"}
        PROVE  Agreement'
    <2> DEFINE closed == Close(m, status, failed)
    <2>1. closed \in Manifest
      BY <1>d, CloseType DEF Kept
    <2>2. closed.origin = manifest.origin /\ closed.config = manifest.config
      BY <1>d DEF Kept, Close, Manifest
    <2>3. Current \in Runs
      BY <1>d DEF Typed, Located
    <2>4. disk' = Saved(closed) /\ UNCHANGED ranUnder /\ Ended
      BY <1>d DEF Settle, history
    <2> HIDE DEF closed
    <2> QED
      BY <1>d, <2>1, <2>2, <2>3, <2>4, SavedAgrees, EndedAgrees
  <1>9. ASSUME NEW k \in Steps, StepRaises(k) PROVE Agreement'
    <2>1. Kept(Record("FAILED")) /\ k \in 0..Length /\ "UPDATE_FAILED_PRESERVED" \in RunStatus
      BY <1>a, KeptByUpdates, ConstantTypes DEF StepStatus, RunStatus, Steps
    <2> QED
      BY <1>9, <1>d, <2>1 DEF StepRaises, AtStep
  <1>10. CASE Checkpoint
    <2>1. PICK m \in {manifest, Amend(manifest, "FAILED")} :
             /\ manifest' = m /\ disk' = Saved(m) /\ proc.pc = "probe"
             /\ UNCHANGED <<config, ranUnder>>
      BY <1>10 DEF Checkpoint
    <2>2. Kept(m)
      BY <1>a, <2>1, KeptByUpdates DEF StepStatus
    <2>3. Current \in Runs
      BY <2>1 DEF Typed, Located
    <2>4. /\ DiskAgrees' /\ Current' = Current
          /\ \A r \in 1..Current : disk'[r].origin = m.origin => disk'[r].config = m.config
      BY <2>1, <2>2, <2>3, SavedAgrees DEF Kept
    <2>5. MemoryAgrees'
      BY <2>1, <2>2, <2>4 DEF Agreement, MemoryAgrees, Agreed, Kept
    <2> QED
      BY <2>4, <2>5 DEF Agreement
  <1>11. CASE VerdictContinues
    <2>1. manifest'.origin = manifest.origin /\ manifest'.config = manifest.config
      BY <1>11, <1>a DEF VerdictContinues, Manifest
    <2> QED
      BY <1>11, <1>c, <2>1 DEF VerdictContinues, history
  <1>12. CASE VerdictStops
    <2>1. Kept(Amend(manifest, "FAILED")) /\ "UPDATE_FAILED_PRESERVED" \in RunStatus
      BY <1>a, KeptByUpdates DEF StepStatus, RunStatus
    <2>2. proc.at \in 0..Length
      BY <1>12, ConstantTypes DEF VerdictStops, Typed, Located, Steps
    <2> QED
      BY <1>12, <1>d, <2>1, <2>2 DEF VerdictStops
  <1>13. CASE Finish
    <2>1. Kept(manifest) /\ FinalStatus(manifest) \in RunStatus /\ 0 \in 0..Length
      BY <1>a, FinalStatusType, ConstantTypes DEF Kept
    <2> QED
      BY <1>13, <1>d, <2>1 DEF Finish
  <1>14. CASE Crash
    BY <1>14, <1>b DEF Crash, history
  <1>15. CASE EditFiles
    BY <1>15, <1>e DEF EditFiles, history
  <1>16. CASE EditConfig
    BY <1>16, <1>e DEF EditConfig, history
  <1> QED
    BY <1>1, <1>2, <1>3, <1>4, <1>5, <1>6, <1>7, <1>8, <1>9, <1>10, <1>11, <1>12, <1>13,
       <1>14, <1>15, <1>16 DEF Next, Starts, Work, RunsStep

\* All the changes of a lineage are made under one critical configuration, however
\* often the operator changes it and back between runs (service.py 491-509).
THEOREM LineageKeepsConfiguration == Spec => []OneConfiguration
  <1>1. Init => Typed /\ Agreement
    BY InitTyped, InitAgrees
  <1>2. Typed /\ Agreement /\ [Next]_vars => (Typed /\ Agreement)'
    BY NextTyped, NextAgrees
  <1>3. Agreement => OneConfiguration
    BY DEF Agreement, DiskAgrees
  <1> QED
    BY <1>1, <1>2, <1>3, PTL DEF Spec

-----------------------------------------------------------------------------
(***************************************************************************)
(* Where a manifest says its run stands.  last_successful_step is written  *)
(* only after the verdict, so on disk it may lag one result behind; in     *)
(* memory a real run's is exactly the step before the present one.         *)
(***************************************************************************)

\* What PositionLocatesRun says of one manifest.
Locates(m) ==
    /\ m.status = "UPDATE_FAILED_PRESERVED" =>
          /\ m.failed = Len(m.steps) /\ m.steps[m.failed] = "FAILED"
          /\ m.last < m.failed
          /\ ~ m.dry_run => m.last = m.failed - 1
    /\ m.status = "EXECUTED" => m.failed = 0 /\ m.last = Length
    /\ m.status = "RUNNING" /\ ~ m.dry_run =>
          m.failed = 0 /\ m.last \in {Len(m.steps) - 1, Len(m.steps)}

\* What makes it so: the position of the run in the memory of its process.
InPlace ==
    proc.pc # "idle" =>
        /\ manifest.failed = 0
        /\ manifest.last <= proc.at - 1
        /\ ~ manifest.dry_run => manifest.last = proc.at - 1

Positions == PositionLocatesRun /\ InPlace

\* A manifest saved or appended keeps every position on disk.
LEMMA SavedPosition ==
  ASSUME Typed, PositionLocatesRun, Current \in Runs, NEW m \in Manifest,
         disk' = Saved(m), Locates(m)
  PROVE  PositionLocatesRun'
  <1>1. Current' = Current
    BY SavedType DEF Typed, Current
  <1>2. \A r \in 1..Current : disk'[r] = IF r = Current THEN m ELSE disk[r]
    BY SavedType DEF Typed
  <1>3. \A r \in 1..Current : Locates(disk[r])
    BY DEF PositionLocatesRun, Locates
  <1>4. \A r \in 1..Current : Locates(disk'[r])
    BY <1>2, <1>3
  <1> QED
    BY <1>1, <1>4 DEF PositionLocatesRun, Locates

\* A run that ended in a failure points at the step after its last success.
LEMMA FailedPosition ==
  ASSUME NEW m \in Manifest, NEW k \in Steps, Len(m.steps) = k, m.steps[k] = "FAILED",
         m.last <= k - 1, ~ m.dry_run => m.last = k - 1
  PROVE  Locates(Close(m, "UPDATE_FAILED_PRESERVED", k))
  <1> DEFINE c == Close(m, "UPDATE_FAILED_PRESERVED", k)
  <1>1. /\ c.status = "UPDATE_FAILED_PRESERVED" /\ c.failed = k /\ c.steps = m.steps
        /\ c.last = m.last /\ c.dry_run = m.dry_run
    BY DEF Close, Manifest
  <1>2. m.last \in Int /\ k \in Int /\ m.last < k
    BY ConstantTypes DEF Manifest, Steps
  <1> HIDE DEF c
  <1>3. Locates(c)
    BY <1>1, <1>2 DEF Locates
  <1> QED
    BY <1>3 DEF c

\* What amending and recording leave of a manifest.
LEMMA UpdatedFields ==
  ASSUME NEW m \in Manifest, NEW status
  PROVE  /\ Amend(m, status).last = m.last /\ Amend(m, status).failed = m.failed
         /\ Amend(m, status).dry_run = m.dry_run /\ Amend(m, status).status = m.status
         /\ Amend(m, status).origin = m.origin
         /\ Amend(m, status).steps = [m.steps EXCEPT ![Len(m.steps)] = status]
         /\ manifest = m =>
              /\ Record(status).last = m.last /\ Record(status).failed = m.failed
              /\ Record(status).dry_run = m.dry_run /\ Record(status).status = m.status
              /\ Record(status).origin = m.origin
  BY DEF Amend, Record, Manifest

\* Every step keeps the positions.
LEMMA NextPositions == Typed /\ Histories /\ Positions /\ [Next]_vars => Positions'
  <1> SUFFICES ASSUME Typed, Histories, Positions, [Next]_vars PROVE Positions'
    OBVIOUS
  <1>a. /\ manifest \in Manifest /\ proc \in Process /\ manifest.status = "RUNNING"
        /\ PositionLocatesRun /\ manifest.last \in 0..Length /\ proc.at \in 1..Length + 1
    BY DEF Typed, TypeOK, Histories, MemoryHistory, Positions, Manifest, Process
  <1>b. disk' = disk => PositionLocatesRun'
    BY <1>a DEF PositionLocatesRun, Current
  <1>c. ASSUME Ended PROVE InPlace'
    BY <1>c DEF Ended, InPlace, Idle
  <1>d. ASSUME UNCHANGED <<disk, manifest, proc>> PROVE Positions'
    BY <1>d, <1>b DEF Positions, InPlace
  <1>1. CASE UNCHANGED vars
    BY <1>1, <1>d DEF vars, memory
  <1>2. ASSUME NEW dry \in BOOLEAN, Execute(dry) PROVE Positions'
    <2> DEFINE m == [Fresh(Current + 1) EXCEPT !.dry_run = dry]
    <2>1. m.steps = <<>> /\ m.last = 0 /\ m.failed = 0
      BY DEF Fresh
    <2>2. manifest' = m /\ proc'.at = 1 /\ disk' = disk
      BY <1>2, <2>1, EmptySeq DEF Execute, Begin, Idle
    <2> HIDE DEF m
    <2> QED
      BY <1>b, <2>1, <2>2 DEF Positions, InPlace
  <1>3. ASSUME NEW r \in 1..Current, NEW dry \in BOOLEAN, Resume(r, dry) PROVE Positions'
    <2>1. PICK d \in 0..Length : CompletedPrefix(disk[r], d) /\ Begin(Taken(disk[r], d, dry))
      BY <1>3 DEF Resume
    <2>2. disk[r] \in Manifest
      BY ElementOfSeq DEF Typed, TypeOK, Current
    <2> DEFINE t == Taken(disk[r], d, dry)
    <2>3. t.steps = SubSeq(disk[r].steps, 1, d) /\ t.last = d /\ t.failed = 0
      BY <2>2 DEF Taken, Manifest
    <2>4. Len(t.steps) = d
      <3>1. disk[r].steps \in Seq(StepStatus) /\ d <= Len(disk[r].steps)
        BY <2>1, <2>2 DEF Manifest, CompletedPrefix
      <3>2. \A i \in 1..d : disk[r].steps[i] \in StepStatus
        BY <3>1, LenProperties, ElementOfSeq
      <3> QED
        BY <2>3, <3>2, SubSeqProperties
    <2>5. manifest' = t /\ proc'.at = d + 1 /\ disk' = disk
      BY <2>1, <2>4 DEF Begin, Idle
    <2> HIDE DEF t
    <2> QED
      BY <1>b, <2>3, <2>5 DEF Positions, InPlace
  <1>4. CASE RefuseCapabilities
    BY <1>4, <1>b, <1>c DEF RefuseCapabilities, Positions
  <1>5. CASE CreateRun
    <2>1. /\ disk' = Append(disk, manifest) /\ manifest' = manifest
          /\ proc.pc = "begin" /\ proc'.at = proc.at
      BY <1>5, <1>a DEF CreateRun, Process
    <2>2. InPlace'
      BY <2>1 DEF Positions, InPlace
    <2>3. Locates(manifest)
      <3>1. Len(manifest.steps) = proc.at - 1
        BY <2>1 DEF Typed, Located
      <3> QED
        BY <1>a, <2>1, <3>1 DEF Positions, InPlace, Locates
    <2>4. PositionLocatesRun'
      <3>1. /\ Current' = Current + 1 /\ Current \in Nat
            /\ \A r \in 1..Current : disk'[r] = disk[r]
            /\ disk'[Current + 1] = manifest
        BY <1>a, <2>1, AppendProperties, LenProperties DEF Typed, TypeOK, Current
      <3>2. \A r \in 1..Current : Locates(disk[r])
        BY <1>a DEF PositionLocatesRun, Locates
      <3>3. \A r \in 1..(Current + 1) : r \in 1..Current \/ r = Current + 1
        BY <3>1
      <3>4. \A r \in 1..(Current + 1) : Locates(disk'[r])
        BY <2>3, <3>1, <3>2, <3>3
      <3> QED
        BY <3>1, <3>4 DEF PositionLocatesRun, Locates
    <2> QED BY <2>2, <2>4 DEF Positions
  <1>6. ASSUME NEW k \in Steps, StepPlanned(k) PROVE Positions'
    <2>1. /\ manifest' = Record("PLANNED") /\ manifest.dry_run /\ disk' = disk
          /\ proc.pc = "step" /\ proc'.at = proc.at + 1
      BY <1>6, <1>a DEF StepPlanned, Advance, AtStep, Skipped, Process
    <2>2. manifest'.last = manifest.last /\ manifest'.failed = manifest.failed
          /\ manifest'.dry_run = manifest.dry_run
      BY <1>a, <2>1, UpdatedFields
    <2>3. proc.at \in Int /\ manifest.last \in Int /\ manifest.failed = 0
          /\ manifest.last <= proc.at - 1
      BY <1>a, <2>1 DEF Positions, InPlace
    <2>4. manifest.last <= proc.at + 1 - 1
      BY <2>3
    <2>5. manifest'.failed = 0 /\ manifest'.last <= proc'.at - 1
      BY <2>1, <2>2, <2>3, <2>4
    <2>6. manifest'.dry_run
      BY <2>1, <2>2, Zenon
    <2>7. InPlace'
      BY <2>5, <2>6 DEF InPlace
    <2> QED
      BY <1>b, <2>1, <2>7 DEF Positions
  <1>7. ASSUME NEW k \in Steps, StepSucceeds(k) \/ StepReportsFailure(k) PROVE Positions'
    <2>1. /\ manifest'.last = manifest.last /\ manifest'.failed = manifest.failed
          /\ manifest'.dry_run = manifest.dry_run
      BY <1>7, <1>a DEF StepSucceeds, StepReportsFailure, Record, Manifest
    <2>2. proc.pc = "step" /\ proc'.at = proc.at /\ disk' = disk
      BY <1>7, <1>a DEF StepSucceeds, StepReportsFailure, AtStep, Process
    <2> QED
      BY <1>b, <2>1, <2>2 DEF Positions, InPlace
  <1>9. ASSUME NEW k \in Steps, StepRaises(k) PROVE Positions'
    <2> DEFINE m == Record("FAILED")
    <2>1. /\ Settle(m, "UPDATE_FAILED_PRESERVED", k) /\ proc.pc = "step" /\ proc.at = k
          /\ Current \in Runs /\ Len(manifest.steps) = k - 1
      BY <1>9 DEF StepRaises, AtStep, Typed, Located
    <2>2. /\ m \in Manifest /\ m.steps = Append(manifest.steps, "FAILED")
          /\ m.last = manifest.last /\ m.dry_run = manifest.dry_run
      BY <1>a, RecordType, UpdatedFields DEF StepStatus
    <2>3. Len(m.steps) = k /\ m.steps[k] = "FAILED"
      <3>1. manifest.steps \in Seq(StepStatus) /\ "FAILED" \in StepStatus /\ k \in Int
        BY <1>a, ConstantTypes DEF Manifest, StepStatus, Steps
      <3> QED
        BY <2>1, <2>2, <3>1, AppendProperties
    <2>4. m.last <= k - 1 /\ (~ m.dry_run => m.last = k - 1)
      BY <2>1, <2>2 DEF Positions, InPlace
    <2> HIDE DEF m
    <2>5. Locates(Close(m, "UPDATE_FAILED_PRESERVED", k))
      BY <2>2, <2>3, <2>4, FailedPosition
    <2>6. Close(m, "UPDATE_FAILED_PRESERVED", k) \in Manifest
      BY <2>2, CloseType, ConstantTypes DEF RunStatus, Steps
    <2> QED
      BY <1>a, <1>c, <2>1, <2>5, <2>6, SavedPosition DEF Settle, Positions
  <1>10. CASE Checkpoint
    <2>1. PICK m \in {manifest, Amend(manifest, "FAILED")} :
            manifest' = m /\ disk' = Saved(m)
      BY <1>10 DEF Checkpoint
    <2>2. /\ proc.pc = "probe" /\ proc'.at = proc.at
          /\ proc.at \in Steps /\ Len(manifest.steps) = proc.at /\ Current \in Runs
      BY <1>10, <1>a DEF Checkpoint, Typed, Located, Process
    <2>3. /\ m \in Manifest /\ Len(m.steps) = Len(manifest.steps) /\ m.status = "RUNNING"
          /\ m.last = manifest.last /\ m.failed = manifest.failed
          /\ m.dry_run = manifest.dry_run
      <3>1. CASE m = manifest
        BY <1>a, <3>1
      <3>2. CASE m = Amend(manifest, "FAILED")
        <4>1. "FAILED" \in StepStatus
          BY DEF StepStatus
        <4> QED
          BY <1>a, <3>2, <4>1, AmendType, UpdatedFields
      <3> QED
        BY <2>1, <3>1, <3>2
    <2>4. InPlace'
      BY <2>1, <2>2, <2>3 DEF Positions, InPlace
    <2>5. Locates(m)
      BY <1>a, <2>2, <2>3 DEF Positions, InPlace, Locates
    <2> QED
      BY <1>a, <2>1, <2>2, <2>3, <2>4, <2>5, SavedPosition DEF Positions
  <1>11. CASE VerdictContinues
    <2>1. /\ disk' = disk /\ proc.pc = "verdict" /\ proc'.at = proc.at + 1
          /\ proc.at \in Steps
      BY <1>11, <1>a DEF VerdictContinues, Process, Typed, Located
    <2>2. /\ manifest'.last = proc.at /\ manifest'.failed = manifest.failed
          /\ manifest'.dry_run = manifest.dry_run
      BY <1>11, <1>a DEF VerdictContinues, Manifest
    <2>3. proc.at \in Int
      BY <1>a
    <2> QED
      BY <1>b, <2>1, <2>2, <2>3 DEF Positions, InPlace
  <1>12. CASE VerdictStops
    <2> DEFINE m == Amend(manifest, "FAILED")
               k == proc.at
    <2>1. /\ Settle(m, "UPDATE_FAILED_PRESERVED", k) /\ proc.pc = "verdict"
          /\ k \in Steps /\ Current \in Runs /\ Len(manifest.steps) = k
      BY <1>12 DEF VerdictStops, Typed, Located
    <2>2. /\ m \in Manifest /\ Len(m.steps) = k
          /\ m.steps = [manifest.steps EXCEPT ![k] = "FAILED"]
          /\ m.last = manifest.last /\ m.dry_run = manifest.dry_run
      BY <1>a, <2>1, AmendType, UpdatedFields DEF StepStatus
    <2>3. m.steps[k] = "FAILED"
      <3>1. manifest.steps \in Seq(StepStatus) /\ k \in 1..Len(manifest.steps)
        BY <1>a, <2>1, ConstantTypes DEF Manifest, Steps
      <3>2. manifest.steps = [i \in 1..Len(manifest.steps) |-> manifest.steps[i]]
        BY <3>1, LenProperties
      <3> QED
        BY <2>2, <3>1, <3>2
    <2>4. m.last <= k - 1 /\ (~ m.dry_run => m.last = k - 1)
      BY <2>1, <2>2 DEF Positions, InPlace
    <2>5. k \in 0..Length /\ "UPDATE_FAILED_PRESERVED" \in RunStatus
      BY <2>1, ConstantTypes DEF RunStatus, Steps
    <2> HIDE DEF m, k
    <2>6. Locates(Close(m, "UPDATE_FAILED_PRESERVED", k))
      BY <2>1, <2>2, <2>3, <2>4, FailedPosition
    <2>7. Close(m, "UPDATE_FAILED_PRESERVED", k) \in Manifest
      BY <2>2, <2>5, CloseType
    <2> QED
      BY <1>a, <1>c, <2>1, <2>6, <2>7, SavedPosition DEF Settle, Positions
  <1>13. CASE Finish
    <2> DEFINE c == Close(manifest, FinalStatus(manifest), 0)
    <2>1. /\ disk' = Saved(c) /\ Ended /\ Current \in Runs
          /\ proc.pc = "step" /\ proc.at = Length + 1
      BY <1>13 DEF Finish, Settle, Typed, Located
    <2>2. c \in Manifest
      BY <1>a, FinalStatusType, CloseType, ConstantTypes
    <2>3. /\ c.status = FinalStatus(manifest) /\ c.failed = 0 /\ c.last = manifest.last
          /\ c.dry_run = manifest.dry_run
      BY <1>a DEF Close, Manifest
    <2>4. /\ FinalStatus(manifest) \in {"EXECUTED", "VALIDATED", "PLANNED"}
          /\ FinalStatus(manifest) = "EXECUTED" => ~ manifest.dry_run
      BY <1>a DEF FinalStatus, Manifest
    <2>5. ~ manifest.dry_run => manifest.last = Length
      BY <2>1, ConstantTypes DEF Positions, InPlace
    <2> HIDE DEF c
    <2>6. Locates(c)
      BY <2>3, <2>4, <2>5 DEF Locates
    <2> QED
      BY <1>a, <1>c, <2>1, <2>2, <2>6, SavedPosition DEF Positions
  <1>14. CASE Crash
    BY <1>14, <1>b, <1>c DEF Crash, Positions
  <1>15. CASE EditFiles \/ EditConfig
    BY <1>15, <1>d DEF EditFiles, EditConfig, memory
  <1> QED
    BY <1>1, <1>2, <1>3, <1>4, <1>5, <1>6, <1>7, <1>9, <1>10, <1>11, <1>12, <1>13,
       <1>14, <1>15 DEF Next, Starts, Work, RunsStep

\* failed_step and last_successful_step locate a run in its plan, whatever was
\* interrupted: a real failure is the step after the last success
\* (runner.py 102-187, service.py 534-558).
THEOREM PositionIsTrue == Spec => []PositionLocatesRun
  <1>1. Init => Positions
    <2> SUFFICES ASSUME Init PROVE Positions
      OBVIOUS
    <2>1. Current = 0 /\ proc.pc = "idle"
      BY EmptySeq DEF Init, Current, Idle
    <2>2. \A r \in 1..Current : FALSE
      BY <2>1
    <2> QED
      BY <2>1, <2>2 DEF Positions, PositionLocatesRun, InPlace
  <1>2. Positions => PositionLocatesRun
    BY DEF Positions
  <1> QED
    BY <1>1, <1>2, AlwaysTyped, AlwaysBacked, NextPositions, PTL DEF Spec

-----------------------------------------------------------------------------
(***************************************************************************)
(* Where a real step starts.  The fingerprint compared on resume stands    *)
(* for the files: as long as it is that of the present tree, the changes   *)
(* of files a manifest counts as done are still there, and none that       *)
(* worsened the installation is among them.  The database has no           *)
(* fingerprint; there only the discipline to resume nothing but the newest *)
(* run stands for it.  What makes both true is that every closed manifest  *)
(* has a fingerprint: a process that dies leaves one that is compared with *)
(* nothing, without the verdict on its last step, and pipeline_lost_verdict *)
(* shows what happens then.                                                *)
(***************************************************************************)

\* The changes m counts as done are still to be seen on the destination.
Stands(m) == Executed(m) \cap Answered \subseteq applied[m.origin]

\* No step that m counts as done, but for k, is at or after a regression.
BehindBut(k, m) ==
    regressed[m.origin] # 0 => \A j \in Executed(m) \ {k} : j < regressed[m.origin]
Behind(m) ==
    regressed[m.origin] # 0 => \A j \in Executed(m) : j < regressed[m.origin]

InRun == proc.pc \in {"step", "probe", "verdict"}

\* Every run that is over was closed, with the fingerprint of what it left.
AllClosed == \A r \in 1..Current : disk[r].fingerprint \/ (r = Current /\ InRun)

\* A manifest that a resume would be allowed to take describes the destination.
DiskStands ==
    \A r \in matching :
        (NewestOnly => r = Current) => Stands(disk[r]) /\ Behind(disk[r])

\* The run in progress is not compared yet.
Unmatched == InRun => Current \notin matching

MemoryStands ==
    proc.pc # "idle" =>
        /\ Stands(manifest)
        /\ proc.pc # "verdict" => Behind(manifest)
        /\ proc.pc = "verdict" =>
              /\ BehindBut(proc.at, manifest)
              /\ Accepted(proc.at) => Behind(manifest)
        /\ proc.pc = "probe" /\ proc.at \in Executed(manifest) /\ proc.touched => matching = {}

Standing == AllClosed /\ Unmatched /\ DiskStands /\ MemoryStands

\* What the records of the destination are about stays as it is, for every lineage.
Undisturbed == \A l \in Runs : applied[l] \cap Answered \subseteq applied'[l]

\* The executed steps of a manifest are among its results.
LEMMA ExecutedOf ==
  ASSUME NEW m, NEW n \in Nat, Len(m.steps) = n
  PROVE  Executed(m) \subseteq 1..n
  BY DEF Executed

\* Recording adds at most the step recorded, and none that did not succeed.
LEMMA ExecutedRecord ==
  ASSUME manifest \in Manifest, NEW k \in Steps, Len(manifest.steps) = k - 1,
         NEW status \in StepStatus, NEW m, m.steps = Record(status).steps
  PROVE  /\ Executed(m) = Executed(manifest) \cup (IF status = "EXECUTED" THEN {k} ELSE {})
         /\ Executed(manifest) \subseteq 1..(k - 1) /\ k \notin Executed(manifest)
  <1>1. manifest.steps \in Seq(StepStatus) /\ k \in Nat \ {0}
    BY ConstantTypes DEF Manifest, Steps
  <1>2. m.steps = Append(manifest.steps, status)
    BY RecordType
  <1>3. /\ Len(m.steps) = k /\ m.steps[k] = status
        /\ \A i \in 1..(k - 1) : m.steps[i] = manifest.steps[i]
    BY <1>1, <1>2, AppendProperties
  <1>4. 1..k = 1..(k - 1) \cup {k} /\ k \notin 1..(k - 1)
    BY <1>1
  <1> QED
    BY <1>3, <1>4 DEF Executed, Counts

\* Failing the last result takes its step out of the executed ones.
LEMMA ExecutedAmend ==
  ASSUME NEW m \in Manifest, NEW k \in Steps, Len(m.steps) = k
  PROVE  /\ Executed(Amend(m, "FAILED")) = Executed(m) \ {k}
         /\ Amend(m, "FAILED").origin = m.origin
  <1>1. m.steps \in Seq(StepStatus) /\ "FAILED" \in StepStatus
    BY DEF Manifest, StepStatus
  <1> DEFINE s == [m.steps EXCEPT ![k] = "FAILED"]
  <1>2. Len(s) = k /\ \A i \in 1..k : s[i] = IF i = k THEN "FAILED" ELSE m.steps[i]
    BY <1>1, ExceptSeq, ConstantTypes DEF Steps
  <1>3. Amend(m, "FAILED").steps = s /\ Amend(m, "FAILED").origin = m.origin
    BY DEF Amend, Manifest
  <1> HIDE DEF s
  <1> QED
    BY <1>2, <1>3 DEF Executed, Counts

\* What a step leaves: the changes before it in its own lineage; and either it left
\* the files alone, or no manifest is compared equal any more.
LEMMA EffectStands ==
  ASSUME TypeOK, NEW k \in Steps, NEW complete \in BOOLEAN, NEW touched \in Touches(k)
  PROVE  /\ \A j \in applied[manifest.origin] :
               j < k => j \in AppliedAfter(k, complete, touched)[manifest.origin]
         /\ complete /\ Disturbs(k) => k \in AppliedAfter(k, complete, touched)[manifest.origin]
         /\ MatchingAfter(touched) \subseteq matching
         /\ touched => MatchingAfter(touched) = {}
         /\ MatchingAfter(touched) # {} /\ ~ NewestOnly =>
               \A l \in Runs : applied[l] \cap Answered \subseteq AppliedAfter(k, complete, touched)[l]
  <1> DEFINE after == AppliedAfter(k, complete, touched)
             left == IF Answers(touched) THEN {} ELSE FileChanges
  <1>1. manifest.origin \in Runs /\ touched \in BOOLEAN
    BY TouchedType DEF TypeOK, Manifest
  <1>2. CASE Disturbs(k)
    <2>1. /\ after[manifest.origin] =
               {j \in applied[manifest.origin] : j < k \/ j \in left}
                 \cup (IF complete THEN {k} ELSE {})
          /\ \A l \in Runs : l # manifest.origin => after[l] = applied[l] \cap left
      BY <1>1, <1>2 DEF AppliedAfter
    <2>2. MatchingAfter(touched) # {} /\ ~ NewestOnly => left = Answered
      BY <1>1 DEF MatchingAfter, Answers, Answered
    <2>3. MatchingAfter(touched) \subseteq matching /\ (touched => MatchingAfter(touched) = {})
      BY DEF MatchingAfter
    <2> HIDE DEF after, left
    <2>4. \A l \in Runs : applied[l] \cap left \subseteq after[l]
      BY <2>1
    <2>5. /\ \A j \in applied[manifest.origin] : j < k => j \in after[manifest.origin]
          /\ complete => k \in after[manifest.origin]
      BY <2>1
    <2> QED
      BY <2>2, <2>3, <2>4, <2>5 DEF after
  <1>3. CASE ~ Disturbs(k)
    BY <1>1, <1>3 DEF MatchingAfter, AppliedAfter, Touches
  <1> QED
    BY <1>2, <1>3

\* A manifest that counts no more than m, in the same lineage, is as sound as m.
LEMMA Narrower ==
  ASSUME NEW m, NEW n, n.origin = m.origin, Executed(n) \subseteq Executed(m)
  PROVE  /\ Stands(m) => Stands(n)
         /\ Behind(m) => Behind(n)
  BY DEF Stands, Behind

\* Closing a run counts what it counted.
LEMMA ClosedSame ==
  ASSUME NEW m \in Manifest, NEW status, NEW failed
  PROVE  /\ Executed(Close(m, status, failed)) = Executed(m)
         /\ Close(m, status, failed).origin = m.origin
         /\ Close(m, status, failed).fingerprint
  <1>1. /\ Close(m, status, failed).steps = m.steps
        /\ Close(m, status, failed).origin = m.origin
        /\ Close(m, status, failed).fingerprint = TRUE
    BY DEF Close, Manifest
  <1> QED
    BY <1>1 DEF Executed

\* The end of a run: what it leaves on disk stands, and so do the manifests that
\* still describe the tree.
LEMMA SettleStands ==
  ASSUME Typed, Standing, InRun, NEW m \in Manifest, NEW status \in RunStatus,
         NEW failed \in 0..Length, Settle(m, status, failed),
         NEW still \in SUBSET matching, matching' = still \cup {Current},
         still # {} /\ ~ NewestOnly => Undisturbed,
         Executed(m) \cap Answered \subseteq applied'[m.origin], Behind(m)
  PROVE  Standing'
  <1>1. PICK c : c = Close(m, status, failed)
    OBVIOUS
  <1>2. /\ c \in Manifest /\ Executed(c) = Executed(m) /\ c.origin = m.origin
        /\ c.fingerprint
    BY <1>1, CloseType, ClosedSame
  <1>3. disk' = Saved(c) /\ Ended /\ regressed' = regressed
    BY <1>1 DEF Settle, history
  <1>4. Current \in Runs /\ matching \subseteq 1..Current
    BY DEF Typed, TypeOK, Located, InRun
  <1>5. Current' = Current /\ \A r \in 1..Current : disk'[r] = IF r = Current THEN c ELSE disk[r]
    BY <1>2, <1>3, <1>4, SavedType DEF Typed, Current
  <1>6. AllClosed'
    BY <1>2, <1>5 DEF Standing, AllClosed
  <1>7. Executed(c)' = Executed(c)
    BY DEF Executed
  <1>8. Stands(c)' /\ Behind(c)'
    BY <1>2, <1>3, <1>7 DEF Stands, Behind
  <1>9. ASSUME NEW r \in matching', NewestOnly => r = Current
        PROVE  Stands(disk[r])' /\ Behind(disk[r])'
    <2>1. CASE r = Current
      BY <1>4, <1>5, <1>8, <2>1 DEF Stands, Behind, Executed, Runs
    <2>2. CASE r # Current
      <3>1. /\ r \in matching /\ Undisturbed /\ regressed' = regressed
            /\ disk'[r] = disk[r] /\ ~ NewestOnly
        BY <1>3, <1>4, <1>5, <1>9, <2>2
      <3>2. Stands(disk[r]) /\ Behind(disk[r])
        BY <3>1 DEF Standing, DiskStands
      <3>3. disk[r] \in Manifest
        BY <1>4, <3>1, ElementOfSeq DEF Typed, TypeOK, Current
      <3>4. disk[r].origin \in Runs
        BY <3>3 DEF Manifest
      <3>5. Executed(disk[r])' = Executed(disk[r])
        BY <3>1 DEF Executed
      <3> QED
        BY <3>1, <3>2, <3>4, <3>5 DEF Stands, Behind, Undisturbed
    <2> QED BY <2>1, <2>2
  <1>10. MemoryStands'
    BY <1>3 DEF Ended, Idle, MemoryStands
  <1>11. Unmatched'
    BY <1>3 DEF Ended, Idle, Unmatched, InRun
  <1>12. DiskStands'
    BY <1>5, <1>9 DEF DiskStands
  <1> QED
    BY <1>6, <1>10, <1>11, <1>12 DEF Standing

\* A step of the process that saves nothing keeps what is on disk, unless it
\* disturbs the tree or the record of a regression.
LEMMA DiskStillStands ==
  ASSUME Typed, DiskStands, disk' = disk, matching' \subseteq matching,
         \/ Undisturbed
         \/ matching' = {}
         \/ NewestOnly /\ Current \notin matching,
         \A l \in Runs : regressed'[l] \in {regressed[l], 0}
  PROVE  DiskStands'
  <1> SUFFICES ASSUME NEW r \in matching', NewestOnly => r = Current
               PROVE  Stands(disk[r])' /\ Behind(disk[r])'
    BY DEF DiskStands, Current
  <1>1. r \in 1..Current /\ Stands(disk[r]) /\ Behind(disk[r]) /\ Undisturbed
    BY DEF DiskStands, Typed, TypeOK
  <1>2. disk[r] \in Manifest
    BY <1>1, ElementOfSeq DEF Typed, TypeOK, Current
  <1>3. disk[r].origin \in Runs
    BY <1>2 DEF Manifest
  <1>5. Executed(disk[r])' = Executed(disk[r])
    BY DEF Executed
  <1> QED
    BY <1>1, <1>3, <1>5 DEF Stands, Behind, Undisturbed

\* At first nothing is compared with anything.
LEMMA InitStands == Init => Standing
  <1> SUFFICES ASSUME Init PROVE Standing
    OBVIOUS
  <1>1. Current = 0 /\ proc.pc = "idle" /\ matching = {}
    BY EmptySeq DEF Init, Current, Idle
  <1>2. \A r \in 1..Current : FALSE
    BY <1>1
  <1> QED
    BY <1>1, <1>2 DEF Standing, AllClosed, Unmatched, InRun, DiskStands, MemoryStands

\* No step of a process that is not killed leaves a manifest that vouches for
\* more than the destination shows.
LEMMA NextStands ==
  ASSUME ~ Crashes
  PROVE  Typed /\ Histories /\ Standing /\ [Next]_vars => Standing'
  <1> SUFFICES ASSUME Typed, Histories, Standing, [Next]_vars PROVE Standing'
    OBVIOUS
  <1>a. /\ manifest \in Manifest /\ proc \in Process /\ TypeOK
        /\ matching \subseteq 1..Current /\ Answered \subseteq Changes
    BY EffectAssumption DEF Typed, TypeOK, Answered
  <1>u. ASSUME applied' = applied PROVE Undisturbed
    BY <1>u DEF Undisturbed
  <1>b. ASSUME disk' = disk, UNCHANGED <<matching, applied, regressed>>
        PROVE  DiskStands'
    BY <1>b, <1>u, DiskStillStands DEF Standing
  <1>c. ASSUME disk' = disk, AllClosed, proc.pc \notin {"step", "probe", "verdict"}
        PROVE  AllClosed'
    BY <1>c DEF AllClosed, InRun, Current
  <1>x. ASSUME proc'.pc \notin {"step", "probe", "verdict"} PROVE Unmatched'
    BY <1>x DEF Unmatched, InRun
  <1>d. ASSUME disk' = disk, proc'.pc \in {"step", "probe", "verdict"}
        PROVE  AllClosed'
    BY <1>d DEF Standing, AllClosed, InRun, Current
  <1>y. ASSUME disk' = disk, InRun, matching' \subseteq matching PROVE Unmatched'
    BY <1>y DEF Standing, Unmatched, Current
  <1>1. CASE UNCHANGED vars
    BY <1>1 DEF vars, memory, history, Standing, AllClosed, Unmatched, DiskStands, MemoryStands,
         Stands, Behind, BehindBut, InRun, Executed, Accepted, NotTolerated, Current
  <1>2. ASSUME NEW dry \in BOOLEAN, Execute(dry) PROVE Standing'
    <2> DEFINE m == [Fresh(Current + 1) EXCEPT !.dry_run = dry]
    <2>1. m.steps = <<>>
      BY DEF Fresh
    <2>2. /\ manifest' = m /\ proc.pc = "idle" /\ proc'.pc = "begin"
          /\ disk' = disk /\ UNCHANGED <<matching, applied, regressed>>
      BY <1>2 DEF Execute, Begin, Idle, history
    <2> HIDE DEF m
    <2>3. Executed(manifest)' = {}
      BY <2>1, <2>2, EmptySeq DEF Executed
    <2>4. MemoryStands'
      BY <2>2, <2>3 DEF MemoryStands, Stands, Behind, BehindBut
    <2> QED
      BY <1>b, <1>c, <1>x, <2>2, <2>4 DEF Standing
  <1>3. ASSUME NEW r \in 1..Current, NEW dry \in BOOLEAN, Resume(r, dry) PROVE Standing'
    <2>1. PICK d \in 0..Length : CompletedPrefix(disk[r], d) /\ Begin(Taken(disk[r], d, dry))
      BY <1>3 DEF Resume
    <2>2. proc.pc = "idle" /\ r \in matching /\ (NewestOnly => r = Current)
      BY <1>3 DEF Resume, ResumeConsistent, Standing, AllClosed, InRun
    <2>3. PICK m : m = disk[r]
      OBVIOUS
    <2>4. PICK t : t = Taken(m, d, dry)
      OBVIOUS
    <2>5. m \in Manifest /\ m.steps \in Seq(StepStatus) /\ d <= Len(m.steps) /\ Stands(m) /\ Behind(m)
      <3>1. m \in Manifest
        BY <2>3, ElementOfSeq DEF Typed, TypeOK, Current
      <3>2. Stands(m) /\ Behind(m)
        BY <2>2, <2>3 DEF Standing, DiskStands
      <3> QED
        BY <2>1, <2>3, <3>1, <3>2 DEF Manifest, CompletedPrefix
    <2>6. t.steps = SubSeq(m.steps, 1, d) /\ t.origin = m.origin
      BY <2>4, <2>5 DEF Taken, Manifest
    <2>7. Len(t.steps) = d /\ \A i \in 1..d : t.steps[i] = m.steps[i]
      <3>1. \A i \in 1..d : m.steps[i] \in StepStatus
        BY <2>5, LenProperties, ElementOfSeq
      <3> QED
        BY <2>6, <3>1, SubSeqProperties
    <2>8. Executed(t) \subseteq Executed(m)
      BY <2>5, <2>7, LenProperties DEF Executed
    <2>9. Stands(t) /\ Behind(t)
      BY <2>5, <2>6, <2>8, Narrower DEF Behind
    <2>10. /\ manifest' = t /\ proc'.pc = "begin" /\ disk' = disk
           /\ UNCHANGED <<matching, applied, regressed>>
      BY <2>1, <2>3, <2>4 DEF Begin, Idle, history
    <2>11. MemoryStands'
      BY <2>9, <2>10 DEF MemoryStands, Stands, Behind, BehindBut, Executed
    <2> QED
      BY <1>b, <1>c, <1>x, <2>2, <2>10, <2>11 DEF Standing
  <1>4. CASE RefuseCapabilities
    <2>1. /\ proc.pc = "begin" /\ proc'.pc = "idle" /\ disk' = disk
          /\ UNCHANGED <<matching, applied, regressed>>
      BY <1>4 DEF RefuseCapabilities, Ended, Idle, history
    <2> QED
      BY <1>b, <1>c, <1>x, <2>1 DEF Standing, MemoryStands
  <1>5. CASE CreateRun
    <2>1. /\ disk' = Append(disk, manifest) /\ manifest' = manifest
          /\ proc.pc = "begin" /\ proc'.pc = "step"
          /\ UNCHANGED <<matching, applied, regressed>>
      BY <1>5, <1>a DEF CreateRun, Process, history
    <2>2. /\ Current' = Current + 1 /\ Current \in Nat
          /\ \A r \in 1..Current : disk'[r] = disk[r]
      BY <1>a, <2>1, AppendProperties, LenProperties DEF TypeOK, Current
    <2>3. AllClosed'
      <3>1. \A r \in 1..Current : disk[r].fingerprint
        BY <2>1 DEF Standing, AllClosed, InRun
      <3>2. \A r \in 1..(Current + 1) : r \in 1..Current \/ r = Current + 1
        BY <2>2
      <3> QED
        BY <2>1, <2>2, <3>1, <3>2 DEF AllClosed, InRun
    <2>6. Unmatched'
      BY <1>a, <2>1, <2>2 DEF Unmatched
    <2>4. DiskStands'
      <3> SUFFICES ASSUME NEW r \in matching, NewestOnly => r = Current + 1
                   PROVE  Stands(disk[r])' /\ Behind(disk[r])'
        BY <2>1, <2>2 DEF DiskStands
      <3>1. r \in 1..Current /\ ~ NewestOnly /\ disk'[r] = disk[r]
        BY <1>a, <2>2
      <3>2. Stands(disk[r]) /\ Behind(disk[r])
        BY <3>1 DEF Standing, DiskStands
      <3> QED
        BY <2>1, <3>1, <3>2 DEF Stands, Behind, Executed
    <2>5. MemoryStands'
      BY <2>1 DEF Standing, MemoryStands, Stands, Behind, BehindBut, Executed
    <2> QED
      BY <2>3, <2>4, <2>5, <2>6 DEF Standing
  <1>6. ASSUME NEW k \in Steps, StepPlanned(k) PROVE Standing'
    <2>1. /\ proc.pc = "step" /\ proc'.pc = "step" /\ Len(manifest.steps) = k - 1
          /\ manifest' = Record("PLANNED") /\ disk' = disk
          /\ UNCHANGED <<matching, applied, regressed>>
      BY <1>6, <1>a DEF StepPlanned, Advance, AtStep, Process, Typed, Located, history
    <2>2. PICK m : m = Record("PLANNED")
      OBVIOUS
    <2>3. Executed(m) = Executed(manifest) /\ m.origin = manifest.origin
      BY <1>a, <2>1, <2>2, ExecutedRecord DEF StepStatus, Record, Manifest
    <2>4. Stands(m) /\ Behind(m)
      BY <2>1, <2>3, Narrower DEF Standing, MemoryStands, Behind
    <2>5. MemoryStands'
      BY <2>1, <2>2, <2>4 DEF MemoryStands, Stands, Behind, BehindBut, Executed
    <2> QED
      BY <1>b, <1>d, <1>y, <2>1, <2>5 DEF Standing, InRun
  <1>7. ASSUME NEW k \in Steps, StepSucceeds(k) PROVE Standing'
    <2> DEFINE o == manifest.origin
               status == ExpectedStatus(manifest.dry_run)
    <2>1. /\ proc.pc = "step" /\ proc'.pc = "probe" /\ proc.at = k /\ proc'.at = k
          /\ Len(manifest.steps) = k - 1 /\ disk' = disk
      BY <1>7, <1>a DEF StepSucceeds, AtStep, Process, Typed, Located
    <2>a. PICK touched \in Touches(k) :
            /\ proc'.touched = touched
            /\ applied' = AppliedAfter(k, TRUE, touched) /\ matching' = MatchingAfter(touched)
      BY <1>7, <1>a DEF StepSucceeds, Effect, Process
    <2>2. /\ manifest'.steps = Record(status).steps /\ manifest'.origin = o
          /\ manifest'.dry_run = manifest.dry_run
      BY <1>7, <1>a DEF StepSucceeds, Record, Manifest
    <2>3. PICK m : m = manifest'
      OBVIOUS
    <2>4. o \in Runs /\ status \in StepStatus
      BY <1>a DEF Manifest, ExpectedStatus, StepStatus
    <2>5. /\ Executed(m) = Executed(manifest) \cup (IF status = "EXECUTED" THEN {k} ELSE {})
          /\ Executed(manifest) \subseteq 1..(k - 1)
      BY <1>a, <2>1, <2>2, <2>3, <2>4, ExecutedRecord
    <2>6. status = "EXECUTED" => ~ manifest.dry_run /\ CallsExecute(k)
      BY DEF ExpectedStatus, CallsExecute
    <2>7. Stands(manifest) /\ Behind(manifest)
      BY <2>1 DEF Standing, MemoryStands
    <2>8. /\ \A j \in applied[o] : j < k => j \in applied'[o]
          /\ Disturbs(k) => k \in applied'[o]
          /\ proc'.touched => matching' = {}
          /\ matching' \subseteq matching /\ (matching' # {} /\ ~ NewestOnly => Undisturbed)
      BY <1>a, <2>a, EffectStands DEF Undisturbed
    <2>9. /\ \A l \in Runs : regressed'[l] \in {regressed[l], 0}
          /\ ~ manifest.dry_run /\ regressed[o] = k => regressed'[o] = 0
      BY <1>7, <1>a, <2>4 DEF StepSucceeds, history, TypeOK
    <2>10. Executed(m) \cap Answered \subseteq applied'[o]
      <3> SUFFICES ASSUME NEW j \in Executed(m) \cap Answered PROVE j \in applied'[o]
        OBVIOUS
      <3>1. CASE j \in Executed(manifest)
        <4>1. j \in applied[o]
          BY <2>7, <3>1 DEF Stands
        <4>2. j < k
          BY <2>5, <3>1, ConstantTypes DEF Steps
        <4> QED
          BY <2>8, <4>1, <4>2
      <3>2. CASE j \notin Executed(manifest)
        <4>1. j = k /\ CallsExecute(k)
          BY <2>5, <2>6, <3>2
        <4> QED
          BY <1>a, <2>8, <4>1 DEF Disturbs
      <3> QED BY <3>1, <3>2
    <2>11. regressed'[o] # 0 => \A j \in Executed(m) : j < regressed'[o]
      <3> SUFFICES ASSUME regressed'[o] # 0, NEW j \in Executed(m)
                   PROVE  j < regressed'[o]
        OBVIOUS
      <3>a. regressed'[o] = regressed[o]
        BY <1>a, <2>4, <2>9
      <3>1. /\ regressed'[o] = regressed[o] /\ regressed[o] \in Steps
            /\ \A i \in Executed(manifest) : i < regressed[o]
        BY <1>a, <3>a, <2>4, <2>7, ConstantTypes DEF Behind, TypeOK, Steps
      <3>2. CASE j \in Executed(manifest)
        BY <3>1, <3>2
      <3>3. CASE j \notin Executed(manifest)
        <4>1. j = k /\ ~ manifest.dry_run
          BY <2>5, <2>6, <3>3
        <4>2. regressed[o] # k
          BY <1>a, <2>9, <3>1, <4>1
        <4>3. Executed(manifest) = 1..(k - 1)
          <5>1. Backed(manifest, k - 1)
            BY <2>1, <4>1 DEF Histories, MemoryHistory
          <5> QED
            BY <2>1, <5>1, ConstantTypes DEF Backed, CompletedPrefix, Executed, Counts, Steps
        <4>4. regressed[o] \notin 1..(k - 1)
          BY <3>1, <4>3, ConstantTypes DEF Steps
        <4> QED
          BY <3>1, <4>1, <4>2, <4>4, ConstantTypes DEF Steps
      <3> QED BY <3>2, <3>3
    <2>12. proc'.touched => matching' = {}
      BY <2>8
    <2>13. MemoryStands'
      <3>1. Executed(manifest)' = Executed(m)
        BY <2>3 DEF Executed
      <3> QED
        BY <1>a, <2>1, <2>2, <2>10, <2>11, <2>12, <3>1 DEF MemoryStands, Stands, Behind, BehindBut
    <2>14. DiskStands'
      BY <2>1, <2>8, <2>9, DiskStillStands DEF Standing, Unmatched, InRun
    <2> QED
      BY <1>d, <1>y, <2>1, <2>8, <2>13, <2>14 DEF Standing, InRun
  \* The destination after an adapter that failed, whatever it left behind.
  <1>e. ASSUME NEW k \in Steps, AtStep(k), NEW still,
               \/ applied' = applied /\ still = matching
               \/ \E touched \in Touches(k) :
                     applied' = AppliedAfter(k, FALSE, touched) /\ still = MatchingAfter(touched)
        PROVE  /\ still \subseteq matching /\ (still # {} /\ ~ NewestOnly => Undisturbed)
               /\ Executed(manifest) \cap Answered \subseteq applied'[manifest.origin]
               /\ Behind(manifest)
    <2>1. /\ still \subseteq matching /\ (still # {} /\ ~ NewestOnly => Undisturbed)
          /\ \A j \in applied[manifest.origin] : j < k => j \in applied'[manifest.origin]
      <3>1. CASE applied' = applied /\ still = matching
        BY <1>u, <3>1
      <3>2. CASE \E touched \in Touches(k) :
                   applied' = AppliedAfter(k, FALSE, touched) /\ still = MatchingAfter(touched)
        <4>1. PICK touched \in Touches(k) :
                applied' = AppliedAfter(k, FALSE, touched) /\ still = MatchingAfter(touched)
          BY <3>2
        <4> QED
          BY <1>a, <4>1, EffectStands DEF Undisturbed
      <3> QED BY <1>e, <3>1, <3>2
    <2>2. Stands(manifest) /\ Behind(manifest) /\ Len(manifest.steps) = k - 1
      BY <1>e DEF AtStep, Standing, MemoryStands, Typed, Located
    <2>3. \A j \in Executed(manifest) : j < k
      BY <2>2, ConstantTypes DEF Executed, Steps
    <2> QED
      BY <2>1, <2>2, <2>3 DEF Stands
  <1>8. ASSUME NEW k \in Steps, StepReportsFailure(k) PROVE Standing'
    <2>1. /\ AtStep(k) /\ proc'.pc = "probe" /\ proc'.at = k /\ Len(manifest.steps) = k - 1
          /\ manifest' = Record("FAILED") /\ disk' = disk /\ regressed' = regressed
      BY <1>8, <1>a DEF StepReportsFailure, AtStep, Process, Typed, Located, history
    <2>2. PICK m : m = Record("FAILED")
      OBVIOUS
    <2>3. /\ Executed(m) = Executed(manifest) /\ m.origin = manifest.origin
          /\ k \notin Executed(m)
      BY <1>a, <2>1, <2>2, ExecutedRecord DEF StepStatus, Record, Manifest
    <2>4. /\ matching' \subseteq matching /\ (matching' # {} /\ ~ NewestOnly => Undisturbed)
          /\ Executed(manifest) \cap Answered \subseteq applied'[manifest.origin]
          /\ Behind(manifest)
      BY <1>8, <1>e, <2>1 DEF StepReportsFailure, NoEffect, Effect
    <2>5. MemoryStands'
      <3>1. Executed(manifest)' = Executed(m) /\ manifest'.origin = manifest.origin
        BY <2>1, <2>2, <2>3 DEF Executed
      <3> QED
        BY <2>1, <2>3, <2>4, <3>1 DEF MemoryStands, Stands, Behind, BehindBut
    <2>6. DiskStands'
      BY <1>a, <2>1, <2>4, DiskStillStands DEF Standing, Unmatched, InRun, AtStep, TypeOK
    <2> QED
      BY <1>d, <1>y, <2>1, <2>4, <2>5, <2>6 DEF Standing, InRun, AtStep
  <1>9. ASSUME NEW k \in Steps, StepRaises(k) PROVE Standing'
    <2>1. PICK m : m = Record("FAILED")
      OBVIOUS
    <2>2. /\ AtStep(k) /\ Settle(m, "UPDATE_FAILED_PRESERVED", k) /\ InRun
          /\ Len(manifest.steps) = k - 1
      BY <1>9, <2>1 DEF StepRaises, AtStep, InRun, Typed, Located
    <2>3. m \in Manifest /\ Executed(m) = Executed(manifest) /\ m.origin = manifest.origin
      BY <1>a, <2>1, <2>2, RecordType, ExecutedRecord DEF StepStatus, Record, Manifest
    <2>4. PICK still :
            /\ matching' = still \cup {Current}
            /\ \/ applied' = applied /\ still = matching
               \/ \E touched \in Touches(k) :
                     applied' = AppliedAfter(k, FALSE, touched) /\ still = MatchingAfter(touched)
      BY <1>9 DEF StepRaises
    <2>5. /\ still \subseteq matching /\ (still # {} /\ ~ NewestOnly => Undisturbed)
          /\ Executed(manifest) \cap Answered \subseteq applied'[manifest.origin]
          /\ Behind(manifest)
      BY <1>e, <2>2, <2>4
    <2>6. Behind(m)
      BY <2>3, <2>5, Narrower DEF Behind
    <2>7. k \in 0..Length /\ "UPDATE_FAILED_PRESERVED" \in RunStatus
      BY ConstantTypes DEF RunStatus, Steps
    <2> QED
      BY <2>2, <2>3, <2>4, <2>5, <2>6, <2>7, SettleStands
  <1>10. CASE Checkpoint
    <2> DEFINE k == proc.at
               o == manifest.origin
    <2>1. /\ proc.pc = "probe" /\ proc'.pc = "verdict" /\ proc'.at = k /\ proc'.before = proc.before
          /\ k \in Steps /\ Len(manifest.steps) = k /\ Current \in Runs
          /\ UNCHANGED <<matching, applied>>
      BY <1>10, <1>a DEF Checkpoint, Typed, Located, Process
    <2>2. PICK m \in {manifest, Amend(manifest, "FAILED")} :
            /\ manifest' = m /\ disk' = Saved(m)
            /\ regressed' = IF ~ m.dry_run /\ m.steps[k] = "EXECUTED"
                               /\ k \in Changes /\ Answers(proc.touched)
                               /\ NotTolerated(k, proc.before, proc'.after)
                            THEN [regressed EXCEPT ![m.origin] = k]
                            ELSE regressed
      BY <1>10, <1>a, <2>1 DEF Checkpoint, Process
    <2>3. /\ m \in Manifest /\ m.origin = o /\ Executed(m) \subseteq Executed(manifest)
          /\ Len(m.steps) = k
      <3>1. "FAILED" \in StepStatus
        BY DEF StepStatus
      <3> QED
        BY <1>a, <2>1, <2>2, <3>1, AmendType, ExecutedAmend
    <2>4. /\ Current' = Current
          /\ \A r \in 1..Current : disk'[r] = IF r = Current THEN m ELSE disk[r]
      BY <1>a, <2>1, <2>2, <2>3, SavedType DEF Current
    <2>5. Stands(m) /\ Behind(m)
      BY <2>1, <2>3, Narrower DEF Standing, MemoryStands, Behind
    <2>6. o \in Runs /\ k \in Nat /\ \A j \in Executed(m) \ {k} : j < k
      BY <1>a, <2>1, <2>3, ConstantTypes DEF Manifest, Executed, Steps
    <2>7. /\ regressed'[o] \in {regressed[o], k}
          /\ \A l \in Runs : l # o => regressed'[l] = regressed[l]
          /\ regressed'[o] # regressed[o] =>
                /\ ~ m.dry_run /\ m.steps[k] = "EXECUTED" /\ Answers(proc.touched)
                /\ NotTolerated(k, proc.before, proc'.after)
      BY <1>a, <2>2, <2>3, <2>6 DEF TypeOK
    <2>8. BehindBut(k, m)'
      <3>1. \A j \in Executed(m) \ {k} : regressed'[o] # 0 => j < regressed'[o]
        <4> SUFFICES ASSUME NEW j \in Executed(m) \ {k}, regressed'[o] # 0
                     PROVE  j < regressed'[o]
          OBVIOUS
        <4>1. CASE regressed'[o] = regressed[o]
          BY <2>3, <2>5, <4>1 DEF Behind
        <4>2. CASE regressed'[o] = k
          BY <2>6, <4>2
        <4> QED
          BY <2>7, <4>1, <4>2
      <3>2. Executed(m)' = Executed(m) /\ m.origin = o
        BY <2>3 DEF Executed
      <3> QED
        BY <2>1, <3>1, <3>2 DEF BehindBut
    <2>9. Accepted(k)' => Behind(m)'
      <3> SUFFICES ASSUME Accepted(k)' PROVE Behind(m)'
        OBVIOUS
      <3>1. ~ NotTolerated(k, proc.before, proc'.after)
        BY <2>1 DEF Accepted, NotTolerated
      <3>2. regressed'[o] = regressed[o]
        BY <2>7, <3>1
      <3> QED
        BY <2>3, <2>5, <3>2 DEF Behind, BehindBut, Executed
    <2>10. Stands(m)'
      BY <2>1, <2>3, <2>5 DEF Stands, Executed
    <2>11. MemoryStands'
      BY <2>1, <2>2, <2>8, <2>9, <2>10 DEF MemoryStands, BehindBut, Behind, Stands, Executed
    <2>12. DiskStands'
      <3> SUFFICES ASSUME NEW r \in matching, NewestOnly => r = Current
                   PROVE  Stands(disk[r])' /\ Behind(disk[r])'
        BY <2>1, <2>4 DEF DiskStands
      <3>1. r \in 1..Current /\ r # Current /\ ~ NewestOnly
        BY <1>a, <2>1 DEF Standing, Unmatched, InRun
      <3>2. disk'[r] = disk[r] /\ Stands(disk[r]) /\ Behind(disk[r])
        BY <2>4, <3>1 DEF Standing, DiskStands
      <3>3. disk[r] \in Manifest
        BY <3>1, ElementOfSeq DEF Typed, TypeOK, Current
      <3>4. regressed'[o] = regressed[o]
        <4> SUFFICES ASSUME regressed'[o] # regressed[o] PROVE FALSE
          OBVIOUS
        <4>1. proc.touched
          BY <2>7, <3>1 DEF Answers
        <4>2. k \in Executed(m)
          BY <2>1, <2>3, <2>6, <2>7 DEF Executed, Counts, Steps
        <4>3. matching = {}
          BY <2>1, <2>3, <4>1, <4>2 DEF Standing, MemoryStands
        <4> QED BY <4>3
      <3>5. disk[r].origin \in Runs /\ regressed'[disk[r].origin] = regressed[disk[r].origin]
        BY <2>7, <3>3, <3>4 DEF Manifest
      <3> QED
        BY <2>1, <3>2, <3>5 DEF Stands, Behind, Executed
    <2>13. AllClosed'
      <3> SUFFICES ASSUME NEW r \in 1..Current, r # Current PROVE disk'[r].fingerprint
        BY <2>1, <2>4 DEF AllClosed, InRun
      <3> QED
        BY <2>4 DEF Standing, AllClosed
    <2> QED
      BY <1>a, <2>1, <2>4, <2>11, <2>12, <2>13 DEF Standing, Unmatched, InRun
  <1>11. CASE VerdictContinues
    <2>1. /\ proc.pc = "verdict" /\ proc'.pc = "step" /\ Accepted(proc.at)
          /\ disk' = disk /\ UNCHANGED <<matching, applied, regressed>>
      BY <1>11, <1>a DEF VerdictContinues, Process, history
    <2>2. manifest'.steps = manifest.steps /\ manifest'.origin = manifest.origin
      BY <1>11, <1>a DEF VerdictContinues, Manifest
    <2>3. Stands(manifest) /\ Behind(manifest)
      BY <2>1 DEF Standing, MemoryStands
    <2>4. MemoryStands'
      BY <2>1, <2>2, <2>3 DEF MemoryStands, Stands, Behind, BehindBut, Executed
    <2> QED
      BY <1>b, <1>d, <1>y, <2>1, <2>4 DEF Standing, InRun
  <1>12. CASE VerdictStops
    <2>1. PICK m : m = Amend(manifest, "FAILED")
      OBVIOUS
    <2>2. PICK k : k = proc.at
      OBVIOUS
    <2>3. /\ Settle(m, "UPDATE_FAILED_PRESERVED", k) /\ InRun /\ proc.pc = "verdict"
          /\ k \in Steps /\ Len(manifest.steps) = k
          /\ matching' = matching \cup {Current} /\ applied' = applied
      BY <1>12, <2>1, <2>2 DEF VerdictStops, InRun, Typed, Located
    <2>4. /\ m \in Manifest /\ Executed(m) = Executed(manifest) \ {k}
          /\ m.origin = manifest.origin
      BY <1>a, <2>1, <2>3, AmendType, ExecutedAmend DEF StepStatus
    <2>5. Stands(manifest) /\ BehindBut(k, manifest)
      BY <2>2, <2>3 DEF Standing, MemoryStands
    <2>6. Behind(m)
      BY <2>4, <2>5 DEF Behind, BehindBut
    <2>7. Executed(m) \cap Answered \subseteq applied'[m.origin]
      BY <2>3, <2>4, <2>5 DEF Stands
    <2>8. k \in 0..Length /\ "UPDATE_FAILED_PRESERVED" \in RunStatus
      BY <2>3, ConstantTypes DEF RunStatus, Steps
    <2> QED
      BY <1>u, <2>3, <2>4, <2>6, <2>7, <2>8, SettleStands
  <1>13. CASE Finish
    <2>1. PICK m : m = manifest
      OBVIOUS
    <2>2. PICK status : status = FinalStatus(manifest)
      OBVIOUS
    <2>3. /\ Settle(m, status, 0) /\ InRun /\ proc.pc = "step"
          /\ matching' = matching \cup {Current} /\ applied' = applied
      BY <1>13, <2>1, <2>2 DEF Finish, InRun
    <2>4. m \in Manifest /\ status \in RunStatus /\ 0 \in 0..Length
      BY <1>a, <2>1, <2>2, FinalStatusType, ConstantTypes
    <2>5. Stands(m) /\ Behind(m)
      BY <2>1, <2>3 DEF Standing, MemoryStands
    <2>6. Executed(m) \cap Answered \subseteq applied'[m.origin]
      BY <2>3, <2>5 DEF Stands
    <2> QED
      BY <1>u, <2>3, <2>4, <2>5, <2>6, SettleStands
  <1>14. CASE EditFiles
    <2>1. /\ proc.pc = "idle" /\ disk' = disk /\ UNCHANGED <<memory, regressed>>
          /\ matching' = {}
      BY <1>14 DEF EditFiles, history
    <2>2. MemoryStands' /\ DiskStands'
      BY <2>1 DEF MemoryStands, DiskStands, memory
    <2> QED
      BY <1>c, <1>x, <2>1, <2>2 DEF Standing, memory
  <1>15. CASE EditConfig
    <2>1. /\ proc.pc = "idle" /\ disk' = disk /\ UNCHANGED <<memory, matching, applied, regressed>>
      BY <1>15 DEF EditConfig, history
    <2>2. MemoryStands'
      BY <2>1 DEF MemoryStands, memory
    <2> QED
      BY <1>b, <1>c, <1>x, <2>1, <2>2 DEF Standing, memory
  <1> QED
    BY <1>1, <1>2, <1>3, <1>4, <1>5, <1>6, <1>7, <1>8, <1>9, <1>10, <1>11, <1>12, <1>13,
       <1>14, <1>15 DEF Next, Starts, Work, RunsStep, Crash

\* Without crashes, the manifests that may be resumed tell what the destination shows.
LEMMA AlwaysStanding ==
  ASSUME ~ Crashes
  PROVE  Spec => [](Typed /\ Histories /\ Standing)
  <1>1. Init => Typed /\ Histories /\ Standing
    BY InitTyped, InitHistories, InitStands
  <1>2. Typed /\ Histories /\ Standing /\ [Next]_vars => (Typed /\ Histories /\ Standing)'
    BY NextTyped, NextHistories, NextStands
  <1> QED
    BY <1>1, <1>2, PTL DEF Spec

\* A real step counts all the earlier ones as executed.
LEMMA RealPrefix ==
  ASSUME Typed, Histories, NEW k \in Steps, RealStep(k)
  PROVE  Executed(manifest) = 1..(k - 1)
  <1>1. Backed(manifest, k - 1) /\ Len(manifest.steps) = k - 1
    BY DEF RealStep, AtStep, Histories, MemoryHistory, Typed, Located
  <1> QED
    BY <1>1, ConstantTypes DEF Backed, CompletedPrefix, Executed, Counts, Steps

\* While no process dies, a real step starts from the files that the earlier steps of
\* its plan left, whatever was run, resumed or edited in between; and from all their
\* effects if only the newest run is ever resumed (service.py 380-452, runner.py 84-187).
THEOREM StepsKeepOwnPrefix ==
  ASSUME ~ Crashes
  PROVE  Spec => []OnOwnPrefix
  <1>1. Typed /\ Histories /\ Standing => OnOwnPrefix
    <2> SUFFICES ASSUME Typed, Histories, Standing, NEW k \in Steps, RealStep(k),
                        NEW j \in Answered, j < k
                 PROVE  j \in applied[manifest.origin]
      BY DEF OnOwnPrefix
    <2>1. Stands(manifest)
      BY DEF Standing, MemoryStands, RealStep, AtStep
    <2>2. j \in Executed(manifest)
      <3>1. j \in Steps
        BY EffectAssumption DEF Answered
      <3>2. Executed(manifest) = 1..(k - 1)
        BY RealPrefix
      <3> QED
        BY <3>1, <3>2, ConstantTypes DEF Steps
    <2> QED
      BY <2>1, <2>2 DEF Stands
  <1> QED
    BY <1>1, AlwaysStanding, PTL

\* While no process dies, no real step starts after a change of files that worsened the
\* installation and was not repeated, whichever run is resumed; nor after any such change
\* if only the newest run is ever resumed (runner.py 137-176, service.py 380-411).
THEOREM RegressionsStop ==
  ASSUME ~ Crashes
  PROVE  Spec => []NeverPastARegression
  <1>1. Typed /\ Histories /\ Standing => NeverPastARegression
    <2> SUFFICES ASSUME Typed, Histories, Standing, NEW k \in Steps, RealStep(k),
                        regressed[manifest.origin] # 0
                 PROVE  k <= regressed[manifest.origin]
      BY DEF NeverPastARegression
    <2>1. Behind(manifest)
      BY DEF Standing, MemoryStands, RealStep, AtStep
    <2>2. \A j \in 1..(k - 1) : j < regressed[manifest.origin]
      BY <2>1, RealPrefix, ConstantTypes DEF Behind, BehindBut, Steps
    <2>3. regressed[manifest.origin] \in 1..Length /\ k \in 1..Length /\ Length \in Nat
      BY ConstantTypes DEF Steps, Typed, TypeOK, Manifest
    <2>4. regressed[manifest.origin] \notin 1..(k - 1)
      BY <2>2, <2>3
    <2> QED
      BY <2>3, <2>4
  <1> QED
    BY <1>1, AlwaysStanding, PTL

=============================================================================

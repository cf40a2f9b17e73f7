-------------------------- MODULE MigrationProofs --------------------------
(***************************************************************************)
(* What every sequence of runs, resumes, failures and crashes does to the  *)
(* TEST copy and to production, for every plan in the planner's order and  *)
(* every tree of installations.                                            *)
(*                                                                         *)
(* First, no earlier TEST tree is ever lost, stale resumes included.  The  *)
(* property speaks of the step that removes a tree, which looks at one     *)
(* backup only.  That this backup holds what is removed rests on two facts *)
(* about the past: the earlier trees still standing were there when any    *)
(* backup was taken, because none ever reappears; and none stands where    *)
(* the installation it is nested in is gone, so that a destination found   *)
(* absent needs no backup.                                                 *)
(*                                                                         *)
(* Then the types, and that what a manifest counts as done still stands:   *)
(* no step disturbs what the earlier ones did, for the planner's order     *)
(* puts it behind them, and a resume is let through only where the tree is *)
(* the one its manifest knew.  That a finished migration is whole and that *)
(* production is neither rewritten nor bootstrapped after a copy follow.   *)
(***************************************************************************)
EXTENDS Migration, SequenceTheorems, TLAPS

IsOld(d, n) == d[n].tree = "old"

OldTreesBackedUp ==
    \A b \in backups :
        b.of \in Nodes /\ \A m \in Contains[b.of] : IsOld(dest, m) => m \in b.old

NoneUnderAbsent ==
    \A n \in Nodes : dest[n].tree = "absent" => \A m \in Contains[n] : ~ IsOld(dest, m)

DestInv ==
    /\ DOMAIN dest = Nodes
    /\ OldTreesBackedUp
    /\ NoneUnderAbsent

\* What every operation that replaces files keeps: no earlier tree appears, and
\* none is left under a directory that is gone.
LEMMA ReplacedKeeps ==
    ASSUME NEW n \in Nodes, NEW files, NEW kept \in Survivors(n), NEW nested \in Nested,
           DestInv,
           files.tree # "old", files.tree = "absent" => kept = {}
    PROVE  LET d == ReplacedBy(n, files, kept, nested)
           IN /\ DOMAIN d = Nodes
              /\ \A m \in Nodes : IsOld(d, m) => IsOld(dest, m)
              /\ \A m \in Nodes : IsOld(dest, m) /\ ~ IsOld(d, m) => m \in Contains[n]
              /\ \A p \in Nodes : d[p].tree = "absent" =>
                     \A m \in Contains[p] : ~ IsOld(d, m)
<1> DEFINE d == ReplacedBy(n, files, kept, nested)
<1> USE TreeAssumption
<1>1. DOMAIN d = Nodes
  BY DEF ReplacedBy
<1>2. /\ d[n] = files
      /\ \A m \in Contains[n] \ ({n} \cup kept) : d[m] \in {Absent, Copied}
      /\ \A m \in Nodes : m \notin Contains[n] \/ m \in kept => d[m] = dest[m]
  BY DEF ReplacedBy, Survivors, Nested
<1>3. Absent.tree = "absent" /\ Copied.tree = "copied"
  BY DEF Absent, Copied
<1> HIDE DEF d
<1>4. \A m \in Nodes : IsOld(d, m) => IsOld(dest, m)
  BY <1>2, <1>3 DEF IsOld
<1>5. \A m \in Nodes : IsOld(dest, m) /\ ~ IsOld(d, m) => m \in Contains[n]
  BY <1>2 DEF IsOld
<1>6. ASSUME NEW p \in Nodes, d[p].tree = "absent", NEW m \in Contains[p]
      PROVE  ~ IsOld(d, m)
  <2>1. m \in Nodes
    OBVIOUS
  <2>2. CASE p \notin Contains[n] \/ p \in kept
    <3>1. dest[p].tree = "absent"
      BY <1>2, <1>6, <2>2
    <3> QED
      BY <3>1, <2>1, <1>4, <1>6 DEF DestInv, NoneUnderAbsent
  <2>3. CASE p \in Contains[n] /\ p \notin kept
    <3>1. m \in Contains[n]
      BY <2>3, <1>6
    <3>2. CASE m \notin kept
      BY <3>1, <3>2, <1>2, <1>3 DEF IsOld
    <3>3. CASE m \in kept
      <4>1. p = n
        BY <3>3, <2>3, <1>6 DEF Survivors
      <4> QED
        BY <4>1, <3>3, <1>2, <1>6
    <3> QED
      BY <3>2, <3>3
  <2> QED
    BY <2>2, <2>3
<1> QED
  BY <1>1, <1>4, <1>5, <1>6 DEF d

\* What a copy or a failed replacement leaves has the properties of the lemma, and
\* removes an earlier tree only under a backup that holds it.
Kept(n) ==
    /\ DOMAIN dest' = Nodes
    /\ \A m \in Nodes : IsOld(dest', m) => IsOld(dest, m)
    /\ \A m \in Nodes : IsOld(dest, m) /\ ~ IsOld(dest', m) =>
           m \in Contains[n] /\ VerifiedBackup(n)
    /\ NoneUnderAbsent'

\* Old trees survive whatever replaces the tree of n, completely or half-way.
LEMMA ReplacementKept ==
    ASSUME NEW n \in Nodes, DestInv, MayReplace(n),
           \/ dest' = dest
           \/ \E nested \in Nested : dest' = ReplacedBy(n, Copied, {}, nested)
           \/ dest' \in Wrecks(n)
    PROVE  Kept(n)
<1>1. CASE dest' = dest
  BY <1>1 DEF Kept, DestInv, NoneUnderAbsent, IsOld
<1>2. ASSUME NEW files, NEW kept \in Survivors(n), NEW nested \in Nested, dest' = ReplacedBy(n, files, kept, nested),
             files.tree # "old", files.tree = "absent" => kept = {}
      PROVE  Kept(n)
  <2>1. /\ DOMAIN dest' = Nodes
        /\ \A m \in Nodes : IsOld(dest', m) => IsOld(dest, m)
        /\ \A m \in Nodes : IsOld(dest, m) /\ ~ IsOld(dest', m) => m \in Contains[n]
        /\ NoneUnderAbsent'
    BY <1>2, ReplacedKeeps DEF NoneUnderAbsent, IsOld
  <2>2. ASSUME NEW m \in Contains[n], IsOld(dest, m)
        PROVE  VerifiedBackup(n)
    BY <2>2 DEF DestInv, NoneUnderAbsent, MayReplace, Exists
  <2> QED
    BY <2>1, <2>2 DEF Kept
<1>3. {} \in Survivors(n)
  BY DEF Survivors
<1>4. CASE \E nested \in Nested : dest' = ReplacedBy(n, Copied, {}, nested)
  BY <1>2, <1>3, <1>4 DEF Copied
<1>5. CASE dest' \in Wrecks(n)
  <2>1. CASE dest' = ReplacedBy(n, Absent, {}, Absent)
    BY <1>2, <1>3, <2>1 DEF Absent, Nested
  <2>2. ASSUME NEW files \in [tree: {"partial"}, stamp: {Current},
                              names: {"nothing", "PRODUCTION", dest[n].names}],
               NEW kept \in Survivors(n), NEW nested \in Nested, dest' = ReplacedBy(n, files, kept, nested)
        PROVE  Kept(n)
    BY <1>2, <2>2
  <2> QED
    BY <1>5, <2>1, <2>2 DEF Wrecks
<1> QED
  BY <1>1, <1>4, <1>5

\* A replacement keeps the invariant if the backups stay, and loses no earlier tree.
LEMMA KeptIsSafe ==
    ASSUME NEW n \in Nodes, DestInv, Kept(n), UNCHANGED backups
    PROVE  /\ DestInv'
           /\ \A m \in Nodes : IsOld(dest, m) /\ ~ IsOld(dest', m) =>
                  \E b \in backups : m \in b.old
<1> USE TreeAssumption
<1>1. OldTreesBackedUp'
  BY DEF DestInv, OldTreesBackedUp, Kept, IsOld
<1>2. ASSUME NEW m \in Nodes, IsOld(dest, m), ~ IsOld(dest', m)
      PROVE  \E b \in backups : m \in b.old
  BY <1>2 DEF Kept, VerifiedBackup, DestInv, OldTreesBackedUp
<1> QED
  BY <1>1, <1>2 DEF DestInv, Kept

-----------------------------------------------------------------------------

\* Actions that leave every tree in its place keep the invariant.
TreesStay == DOMAIN dest' = Nodes /\ \A n \in Nodes : dest'[n].tree = dest[n].tree

\* A step that leaves the trees alone loses no old tree, even if it prunes backups.
LEMMA TreesStaySafe ==
    ASSUME DestInv, TreesStay, backups' \subseteq backups
    PROVE  /\ DestInv'
           /\ \A m \in Nodes : ~ (IsOld(dest, m) /\ ~ IsOld(dest', m))
<1> USE TreeAssumption
<1>1. OldTreesBackedUp'
  BY DEF DestInv, OldTreesBackedUp, TreesStay, IsOld
<1>2. NoneUnderAbsent'
  BY DEF DestInv, NoneUnderAbsent, TreesStay, IsOld
<1> QED
  BY <1>1, <1>2 DEF DestInv, TreesStay, IsOld

\* A new backup holds every earlier tree it could later be asked for.
LEMMA BackupSafe ==
    ASSUME NEW n \in Nodes, DestInv, BackupExisting(n)
    PROVE  DestInv' /\ dest' = dest
<1> USE TreeAssumption
<1> DEFINE new == [by |-> Current, of |-> n, old |-> {m \in Contains[n] : dest[m].tree = "old"}]
<1>1. backups' = backups \cup {new} /\ dest' = dest
  BY DEF BackupExisting
<1>2. new.of = n /\ new.old = {m \in Contains[n] : dest[m].tree = "old"}
  OBVIOUS
<1> HIDE DEF new
<1>3. OldTreesBackedUp'
  BY <1>1, <1>2 DEF DestInv, OldTreesBackedUp, IsOld
<1> QED
  BY <1>1, <1>3 DEF DestInv, NoneUnderAbsent, IsOld

\* What one step does to the trees.
OldTreesSafe ==
    /\ DestInv'
    /\ \A m \in Nodes : IsOld(dest, m) /\ ~ IsOld(dest', m) => \E b \in backups : m \in b.old

\* At first every old tree stands.
LEMMA InitTrees == Init => DestInv
<1> SUFFICES ASSUME Init PROVE DestInv
  OBVIOUS
<1> USE TreeAssumption
<1>1. dest \in [Nodes -> {Absent, Old}] /\ backups = {}
  BY DEF Init
<1>2. \A n \in Nodes : dest[n] = Absent => \A m \in Contains[n] : dest[m] = Absent
  BY DEF Init
<1>3. Absent.tree = "absent" /\ Old.tree = "old"
  BY DEF Absent, Old
<1>4. NoneUnderAbsent
  BY <1>1, <1>2, <1>3 DEF NoneUnderAbsent, IsOld
<1> QED
  BY <1>1, <1>4 DEF DestInv, OldTreesBackedUp

\* No step of the plan loses an old tree, however it ends.
LEMMA StepTrees ==
    ASSUME DestInv, NEW n \in Nodes, Steps(n)
    PROVE  OldTreesSafe
<1>1. CASE BackupExisting(n)
  BY <1>1, BackupSafe DEF OldTreesSafe
<1>2. CASE CopyFiles(n) \/ CopyFilesFails(n)
  <2>1. MayReplace(n) /\ UNCHANGED backups
    BY <1>2 DEF CopyFiles, CopyFilesFails
  <2>2. \/ dest' = dest
        \/ \E nested \in Nested : dest' = ReplacedBy(n, Copied, {}, nested)
        \/ dest' \in Wrecks(n)
    BY <1>2 DEF CopyFiles, CopyFilesFails
  <2> QED
    BY <2>1, <2>2, ReplacementKept, KeptIsSafe DEF OldTreesSafe
<1>3. CASE WriteTestDbConfig(n)
  <2>1. dest' = Configured(n) /\ UNCHANGED backups
    BY <1>3 DEF WriteTestDbConfig
  <2>2. TreesStay
    BY <2>1 DEF TreesStay, Configured, DestInv
  <2> QED
    BY <2>1, <2>2, TreesStaySafe DEF OldTreesSafe
<1>4. CASE \/ BackupAbsent(n) \/ BackupFails(n) \/ CopyFilesRefused(n)
           \/ SnapshotSource(n) \/ SnapshotSourceFails(n)
           \/ CopyDatabase(n) \/ CopyDatabaseRefused(n) \/ CopyDatabaseBreaks(n)
           \/ SearchReplace(n) \/ SearchReplaceFails(n) \/ StepRaises(n)
  <2>1. UNCHANGED <<dest, backups>>
    BY <1>4 DEF BackupAbsent, BackupFails, CopyFilesRefused, SnapshotSource,
         SnapshotSourceFails, CopyDatabase, CopyDatabaseRefused, CopyDatabaseBreaks,
         SearchReplace, SearchReplaceFails, StepRaises, testing
  <2>2. TreesStay
    BY <2>1 DEF TreesStay, DestInv
  <2> QED
    BY <2>1, <2>2, TreesStaySafe DEF OldTreesSafe
<1> QED
  BY <1>1, <1>2, <1>3, <1>4 DEF Steps

\* Nor does a crash in the middle of one.
LEMMA CrashTrees ==
    ASSUME DestInv, Crash
    PROVE  OldTreesSafe
<1>1. UNCHANGED backups
  BY DEF Crash
<1>2. CASE UNCHANGED dest
  <2>1. TreesStay
    BY <1>2 DEF TreesStay, DestInv
  <2> QED
    BY <1>1, <2>1, TreesStaySafe DEF OldTreesSafe
<1>3. CASE ~ UNCHANGED dest
  <2>1. PICK n \in Nodes : MayReplace(n) /\ dest' \in Wrecks(n)
    BY <1>3 DEF Crash
  <2> QED
    BY <1>1, <2>1, ReplacementKept, KeptIsSafe DEF OldTreesSafe
<1> QED
  BY <1>2, <1>3

\* An earlier TEST tree disappears only while a verified backup holds it: the
\* promise operations.md 108-114 makes, for every plan, every tree of installations
\* and every sequence of failures, crashes and resumes.
THEOREM OldTreesSaved == Spec => OldTreeRemovedOnlySaved
<1> DEFINE Safe == \A n \in Nodes : dest[n].tree = "old" /\ dest'[n].tree # "old" =>
                                        \E b \in backups : n \in b.old
<1>1. ASSUME DestInv, [Next]_vars
      PROVE  DestInv' /\ [Safe]_vars
  <2>1. CASE \E n \in Nodes : Steps(n)
    BY <1>1, <2>1, StepTrees DEF OldTreesSafe, IsOld
  <2>2. CASE Crash
    BY <1>1, <2>2, CrashTrees DEF OldTreesSafe, IsOld
  <2>3. CASE \/ \E replace \in BOOLEAN : Execute(replace)
             \/ \E r \in 1..Current : Resume(r)
             \/ RefuseCapabilities \/ CreateRun \/ JudgeContinues \/ JudgeStops
             \/ Finish \/ Prune \/ MoveSource \/ UNCHANGED vars
    <3>1. dest' = dest /\ backups' \subseteq backups
      BY <2>3 DEF Execute, Resume, Begin, RefuseCapabilities, CreateRun, JudgeContinues,
           JudgeStops, Finish, Prune, MoveSource, vars, testing
    <3>2. TreesStay
      BY <1>1, <3>1 DEF TreesStay, DestInv
    <3> QED
      BY <1>1, <3>1, <3>2, TreesStaySafe DEF IsOld
  <2> QED
    BY <1>1, <2>1, <2>2, <2>3 DEF Next
<1> QED
  BY <1>1, InitTrees, PTL DEF Spec, OldTreeRemovedOnlySaved


-----------------------------------------------------------------------------
(***************************************************************************)
(* Types.                                                                  *)
(***************************************************************************)

\* Where the process can be: a run it works on exists, and has a step to be judged.
Located ==
    /\ proc.pc = "begin" => Current < MaxRuns
    /\ proc.pc \in {"step", "judge"} => Current >= 1
    /\ proc.pc = "judge" => run.done < Length
Typed == TypeOK /\ Located

LEMMA PlanTypes ==
    /\ Length \in Nat /\ MaxRuns \in Nat /\ 0 \in 0..MaxRuns
    /\ \A k \in 1..Length : Plan[k].name \in StepName /\ Plan[k].node \in Nodes
<1>1. Plan \in Seq([name : StepName, node : Nodes])
  BY PlanAssumption
<1>2. \A k \in 1..Length : Plan[k] \in [name : StepName, node : Nodes]
  BY <1>1, ElementOfSeq DEF Length
<1> QED
  BY <1>1, <1>2, LenProperties, BoundAssumption DEF Length

LEMMA FreshType ==
    ASSUME NEW replace \in BOOLEAN
    PROVE  Fresh(replace) \in Manifest /\ NoneCached \in [Nodes -> SUBSET Sources]
  BY PlanTypes DEF Fresh, Manifest, NoneCached

\* The manifests after a save, and after a new one.
LEMMA SavedDisk ==
    ASSUME NEW d \in Seq(Manifest), NEW m \in Manifest, Len(d) >= 1
    PROVE  LET e == [d EXCEPT ![Len(d)] = m]
           IN /\ e \in Seq(Manifest) /\ Len(e) = Len(d)
              /\ \A r \in 1..Len(d) : e[r] = IF r = Len(d) THEN m ELSE d[r]
<1>1. Len(d) \in 1..Len(d)
  BY LenProperties
<1> QED
  BY <1>1, ExceptSeq

LEMMA AppendedDisk ==
    ASSUME NEW d \in Seq(Manifest), NEW m \in Manifest
    PROVE  /\ Append(d, m) \in Seq(Manifest) /\ Len(Append(d, m)) = Len(d) + 1
           /\ Len(d) \in Nat
           /\ \A r \in 1..(Len(d) + 1) : Append(d, m)[r] = IF r = Len(d) + 1 THEN m ELSE d[r]
  BY AppendProperties, LenProperties

LEMMA ReplacedType ==
    ASSUME NEW n \in Nodes, NEW files \in Destination, NEW kept, NEW nested \in Nested,
           dest \in [Nodes -> Destination]
    PROVE  ReplacedBy(n, files, kept, nested) \in [Nodes -> Destination]
<1>1. Nested \subseteq Destination
  BY PlanTypes DEF Nested, Absent, Copied, Destination
<1> QED
  BY <1>1 DEF ReplacedBy

LEMMA WrecksType ==
    ASSUME NEW n \in Nodes, dest \in [Nodes -> Destination], Current \in 0..MaxRuns
    PROVE  Wrecks(n) \subseteq [Nodes -> Destination]
<1>1. Absent \in Destination /\ Absent \in Nested
  BY PlanTypes DEF Absent, Destination, Nested
<1>2. [tree: {"partial"}, stamp: {Current}, names: {"nothing", "PRODUCTION", dest[n].names}]
        \subseteq Destination
  <2>1. dest[n].names \in {"nothing", "TEST", "PRODUCTION"}
    BY DEF Destination
  <2> QED
    BY <2>1 DEF Destination
<1> QED
  BY <1>1, <1>2, ReplacedType DEF Wrecks

LEMMA InitTyped == Init => Typed
<1> SUFFICES ASSUME Init PROVE Typed
  OBVIOUS
<1>1. dest \in [Nodes -> Destination]
  <2>1. Absent \in Destination /\ Old \in Destination
    BY PlanTypes DEF Absent, Old, Destination
  <2>2. dest \in [Nodes -> {Absent, Old}]
    BY DEF Init
  <2> QED
    BY <2>1, <2>2
<1>2. schema \in [Nodes -> Schema]
  <2>1. [holds |-> "old data", from |-> {}] \in Schema
    BY DEF Schema
  <2> QED
    BY <2>1 DEF Init
<1>3. disk \in Seq(Manifest) /\ Current = 0
  <2>1. disk = <<>>
    BY DEF Init
  <2> QED
    BY <2>1, EmptySeq DEF Current
<1>4. run \in Manifest /\ cached \in [Nodes -> SUBSET Sources]
  BY FreshType DEF Init
<1>5. proc \in Process /\ proc.pc = "idle"
  BY DEF Init, Idle, Process
<1>6. contact \in [names: {"nothing", "TEST", "PRODUCTION"}, after: StepName \cup {"none", "start"}]
  BY DEF Init, NoContact
<1>7. /\ backups \subseteq Backup /\ source \in Sources /\ production \in {"intact", "written"}
      /\ mishaps \subseteq {"crash", "stale resume"}
  BY DEF Init
<1>8. Current <= MaxRuns
  BY <1>3, PlanTypes
<1>9. TypeOK
  BY <1>1, <1>2, <1>3, <1>4, <1>5, <1>6, <1>7, <1>8 DEF TypeOK
<1> QED
  BY <1>5, <1>9 DEF Typed, Located

\* The manifest a step leaves, if it leaves the disk alone.
LEMMA StepTyped ==
    ASSUME Typed, NEW n \in Nodes, Steps(n)
    PROVE  /\ proc.pc = "step" /\ run.done < Length /\ Plan[run.done + 1].node = n
           /\ Current \in 1..MaxRuns /\ run.done \in 0..Length
           /\ contact' = NoContact /\ UNCHANGED <<source, mishaps>>
<1>1. \E name \in StepName : AtStep(name, n)
  BY DEF Steps, BackupAbsent, BackupExisting, BackupFails, CopyFiles, CopyFilesRefused,
     CopyFilesFails, SnapshotSource, SnapshotSourceFails, CopyDatabase, CopyDatabaseRefused,
     CopyDatabaseBreaks, WriteTestDbConfig, SearchReplace, SearchReplaceFails, StepRaises, StepName
<1>2. proc.pc = "step" /\ run.done < Length /\ Plan[run.done + 1].node = n
      /\ contact' = NoContact /\ UNCHANGED <<source, mishaps>>
  BY <1>1 DEF AtStep, Facing
<1>3. Current \in 0..MaxRuns
  <2>1. disk \in Seq(Manifest) /\ Current <= MaxRuns
    BY DEF Typed, TypeOK
  <2>2. Current \in Nat
    BY <2>1, LenProperties DEF Current
  <2>3. MaxRuns \in Nat
    BY PlanTypes
  <2> QED
    BY <2>1, <2>2, <2>3
<1>4. Current >= 1
  BY <1>2 DEF Typed, Located
<1>5. run.done \in 0..Length
  BY DEF Typed, TypeOK, Manifest
<1>6. Current \in 1..MaxRuns
  BY <1>3, <1>4, PlanTypes
<1> QED
  BY <1>2, <1>5, <1>6

\* What a step does to the copy, the databases and the memory.
LEMMA StepWritesTyped ==
    ASSUME Typed, NEW n \in Nodes, Steps(n)
    PROVE  /\ dest' \in [Nodes -> Destination] /\ schema' \in [Nodes -> Schema]
           /\ backups' \subseteq Backup /\ production' \in {"intact", "written"}
           /\ run' \in Manifest /\ cached' \in [Nodes -> SUBSET Sources]
<1> USE StepTyped
<1>1. /\ dest \in [Nodes -> Destination] /\ schema \in [Nodes -> Schema] /\ backups \subseteq Backup
      /\ production \in {"intact", "written"} /\ run \in Manifest
      /\ cached \in [Nodes -> SUBSET Sources] /\ source \in Sources
  BY DEF Typed, TypeOK
<1>2. Fresh(FALSE) \in Manifest /\ NoneCached \in [Nodes -> SUBSET Sources]
  BY FreshType
<1>3. Connection(n) \subseteq Sources
  BY <1>1 DEF Connection
<1>4. CASE BackupAbsent(n) \/ BackupFails(n) \/ CopyFilesRefused(n) \/ SnapshotSourceFails(n)
           \/ CopyDatabaseRefused(n)
  BY <1>1, <1>4 DEF BackupAbsent, BackupFails, CopyFilesRefused, SnapshotSourceFails,
     CopyDatabaseRefused, testing
<1>5. CASE BackupExisting(n)
  <2>1. [by |-> Current, of |-> n, old |-> {m \in Contains[n] : dest[m].tree = "old"}] \in Backup
    BY TreeAssumption DEF Backup, Runs
  <2>2. [run EXCEPT !.backup[n] = Current] \in Manifest
    BY <1>1 DEF Manifest
  <2> QED
    BY <1>1, <1>5, <2>1, <2>2 DEF BackupExisting
<1>6. CASE CopyFiles(n) \/ CopyFilesFails(n)
  <2>1. Copied \in Destination
    BY PlanTypes DEF Copied, Destination
  <2>2. Wrecks(n) \subseteq [Nodes -> Destination]
    BY <1>1, WrecksType, PlanTypes
  <2>3. \A nested \in Nested : ReplacedBy(n, Copied, {}, nested) \in [Nodes -> Destination]
    BY <1>1, <2>1, ReplacedType
  <2>4. dest' \in [Nodes -> Destination]
    BY <1>1, <1>6, <2>2, <2>3 DEF CopyFiles, CopyFilesFails
  <2> QED
    BY <1>1, <1>6, <2>4 DEF CopyFiles, CopyFilesFails
<1>7. CASE SnapshotSource(n)
  <2>1. [run EXCEPT !.resolved[n] = {source}] \in Manifest
    BY <1>1 DEF Manifest
  <2> QED
    BY <1>1, <1>7, <2>1 DEF SnapshotSource, testing
<1>8. CASE CopyDatabase(n)
  <2>1. [schema EXCEPT ![n] = [holds |-> "source urls", from |-> Connection(n)]] \in [Nodes -> Schema]
    BY <1>1, <1>3 DEF Schema
  <2> QED
    BY <1>1, <1>3, <1>8, <2>1 DEF CopyDatabase
<1>9. CASE CopyDatabaseBreaks(n)
  <2>1. Import(n) \in [Nodes -> Schema]
    BY <1>1, <1>3 DEF Import, Schema
  <2> QED
    BY <1>1, <1>2, <1>9, <2>1 DEF CopyDatabaseBreaks, Raises, Ended
<1>10. CASE WriteTestDbConfig(n)
  <2>1. Configured(n) \in [Nodes -> Destination]
    BY <1>1, PlanTypes DEF Configured, Destination
  <2> QED
    BY <1>1, <1>10, <2>1 DEF WriteTestDbConfig
<1>11. CASE SearchReplace(n) \/ SearchReplaceFails(n)
  <2>1. Replaced(n) \in [Nodes -> Schema]
    BY <1>1 DEF Replaced, Schema
  <2> QED
    BY <1>1, <1>11, <2>1 DEF SearchReplace, SearchReplaceFails, testing
<1>12. CASE StepRaises(n)
  BY <1>1, <1>2, <1>12 DEF StepRaises, Raises, Ended, testing
<1> QED
  BY <1>4, <1>5, <1>6, <1>7, <1>8, <1>9, <1>10, <1>11, <1>12 DEF Steps

\* All that the process does not hold in memory or on disk.
Around ==
    /\ dest \in [Nodes -> Destination] /\ schema \in [Nodes -> Schema] /\ backups \subseteq Backup
    /\ source \in Sources /\ production \in {"intact", "written"}
    /\ contact \in [names: {"nothing", "TEST", "PRODUCTION"}, after: StepName \cup {"none", "start"}]
    /\ mishaps \subseteq {"crash", "stale resume"}
Held ==
    /\ disk \in Seq(Manifest) /\ Current <= MaxRuns
    /\ run \in Manifest /\ proc \in Process /\ cached \in [Nodes -> SUBSET Sources]

LEMMA TypeParts == Typed <=> Around /\ Held /\ Located
  BY DEF Typed, TypeOK, Around, Held
LEMMA TypedParts == Around' /\ Held' /\ Located' => Typed'
  BY DEF Typed, TypeOK, Around, Held

\* A run that ended left the process idle, and perhaps a last manifest.
LEMMA EndTyped ==
    ASSUME Typed, Around', Ended,
           \/ disk' = disk
           \/ /\ proc.pc \in {"step", "judge"}
              /\ \E status \in {"EXECUTED", "UPDATE_FAILED_PRESERVED"} : disk' = Saved(Closed(status))
    PROVE  Typed'
<1>1. disk \in Seq(Manifest) /\ Current <= MaxRuns /\ run \in Manifest
  BY DEF Typed, TypeOK
<1>2. disk' \in Seq(Manifest) /\ Current' = Current
  <2>1. CASE disk' = disk
    BY <1>1, <2>1 DEF Current
  <2>2. ASSUME NEW status \in {"EXECUTED", "UPDATE_FAILED_PRESERVED"},
               proc.pc \in {"step", "judge"}, disk' = Saved(Closed(status))
        PROVE  disk' \in Seq(Manifest) /\ Current' = Current
    <3>1. Closed(status) \in Manifest
      BY <1>1 DEF Closed, Manifest, Around
    <3>2. Len(disk) >= 1
      BY <2>2 DEF Typed, Located, Current
    <3> QED
      BY <1>1, <2>2, <3>1, <3>2, SavedDisk DEF Saved, Current
  <2> QED
    BY <2>1, <2>2
<1>3. run' \in Manifest /\ cached' \in [Nodes -> SUBSET Sources]
  BY FreshType DEF Ended
<1>4. proc' \in Process /\ proc'.pc = "idle"
  BY DEF Ended, Idle, Process
<1> QED
  BY <1>1, <1>2, <1>3, <1>4, TypedParts DEF Held, Located

\* How a step ends: its result is to be judged, or the run is over.
LEMMA StepEnds ==
    ASSUME Typed, NEW n \in Nodes, Steps(n)
    PROVE  \/ /\ disk' = disk /\ proc'.pc = "judge" /\ proc' \in Process
              /\ run'.done = run.done
           \/ disk' = Saved(Closed("UPDATE_FAILED_PRESERVED")) /\ Ended
<1>1. run \in Manifest /\ proc \in Process
  BY DEF Typed, TypeOK
<1>2. ASSUME NEW ok \in BOOLEAN, Returns(ok)
      PROVE  disk' = disk /\ proc'.pc = "judge" /\ proc' \in Process
  BY <1>1, <1>2 DEF Returns, Process
<1>3. CASE BackupAbsent(n)
  BY <1>1, <1>3 DEF BackupAbsent, Process
<1>4. CASE BackupExisting(n)
  <2>1. run'.done = run.done
    BY <1>1, <1>4 DEF BackupExisting, Manifest
  <2> QED
    BY <1>2, <1>4, <2>1 DEF BackupExisting
<1>5. CASE SnapshotSource(n)
  <2>1. run'.done = run.done
    BY <1>1, <1>5 DEF SnapshotSource, Manifest
  <2> QED
    BY <1>2, <1>5, <2>1 DEF SnapshotSource
<1>6. CASE BackupFails(n) \/ CopyFiles(n) \/ CopyFilesRefused(n) \/ CopyFilesFails(n)
           \/ SnapshotSourceFails(n) \/ CopyDatabase(n) \/ CopyDatabaseRefused(n)
           \/ WriteTestDbConfig(n) \/ SearchReplace(n) \/ SearchReplaceFails(n)
  <2>1. run' = run /\ \E ok \in BOOLEAN : Returns(ok)
    BY <1>6 DEF BackupFails, CopyFiles, CopyFilesRefused, CopyFilesFails, SnapshotSourceFails,
       CopyDatabase, CopyDatabaseRefused, WriteTestDbConfig, SearchReplace, SearchReplaceFails
  <2> QED
    BY <1>2, <2>1
<1>7. CASE CopyDatabaseBreaks(n) \/ StepRaises(n)
  BY <1>7 DEF CopyDatabaseBreaks, StepRaises, Raises
<1> QED
  BY <1>3, <1>4, <1>5, <1>6, <1>7 DEF Steps

LEMMA NextTyped == Typed /\ [Next]_vars => Typed'
<1> SUFFICES ASSUME Typed, [Next]_vars PROVE Typed'
  OBVIOUS
<1>1. Around /\ Held /\ Located
  BY TypeParts
<1>2. NoContact \in [names: {"nothing", "TEST", "PRODUCTION"}, after: StepName \cup {"none", "start"}]
  BY DEF NoContact
<1>3. ASSUME NEW m \in Manifest, Begin(m), Current < MaxRuns, mishaps' \subseteq {"crash", "stale resume"}
      PROVE  Typed'
  <2>1. Around'
    BY <1>1, <1>2, <1>3 DEF Begin, Around, testing, outside
  <2>2. proc' \in Process /\ proc'.pc = "begin"
    BY <1>3 DEF Begin, Idle, Process
  <2>3. Held' /\ Located'
    BY <1>1, <1>3, <2>2 DEF Begin, Held, Located, Current
  <2> QED
    BY <2>1, <2>3, TypedParts
<1>4. ASSUME NEW replace \in BOOLEAN, Execute(replace) PROVE Typed'
  BY <1>1, <1>3, <1>4, FreshType DEF Execute, Around
<1>5. ASSUME NEW r \in 1..Current, Resume(r) PROVE Typed'
  <2>1. disk[r] \in Manifest
    BY <1>1, ElementOfSeq DEF Held, Current
  <2>2. [disk[r] EXCEPT !.status = "RUNNING", !.print = {}] \in Manifest
    BY <2>1 DEF Manifest
  <2>3. mishaps' \subseteq {"crash", "stale resume"}
    BY <1>1, <1>5 DEF Resume, Around
  <2> QED
    BY <1>3, <1>5, <2>2, <2>3 DEF Resume
<1>6. FirstContact \in [names: {"nothing", "TEST", "PRODUCTION"}, after: StepName \cup {"none", "start"}]
  BY <1>1, <1>2, TreeAssumption DEF FirstContact, Bootstrap, Around, Destination
<1>7. CASE RefuseCapabilities
  <2>1. Around'
    BY <1>1, <1>6, <1>7 DEF RefuseCapabilities, Around, testing, outside
  <2> QED
    BY <1>7, <2>1, EndTyped DEF RefuseCapabilities
<1>8. CASE CreateRun
  <2>1. Around'
    BY <1>1, <1>6, <1>8 DEF CreateRun, Around, testing, outside
  <2>2. disk' \in Seq(Manifest) /\ Current' = Current + 1 /\ Current \in Nat
    BY <1>1, <1>8, AppendedDisk DEF CreateRun, Held, Current
  <2>3. proc' \in Process /\ proc'.pc = "step"
    BY <1>1, <1>8 DEF CreateRun, Held, Process
  <2>4. Current < MaxRuns
    BY <1>1, <1>8 DEF CreateRun, Located
  <2>5. Held' /\ Located'
    BY <1>1, <1>8, <2>2, <2>3, <2>4, PlanTypes DEF CreateRun, Held, Located
  <2> QED
    BY <2>1, <2>5, TypedParts
<1>9. ASSUME NEW n \in Nodes, Steps(n) PROVE Typed'
  <2>1. Around'
    BY <1>1, <1>2, <1>9, StepTyped, StepWritesTyped DEF Around
  <2>2. CASE disk' = disk /\ proc'.pc = "judge" /\ proc' \in Process /\ run'.done = run.done
    <3>1. Held' /\ Located'
      BY <1>1, <1>9, <2>2, StepTyped, StepWritesTyped, PlanTypes DEF Held, Located, Current
    <3> QED
      BY <2>1, <3>1, TypedParts
  <2>3. CASE disk' = Saved(Closed("UPDATE_FAILED_PRESERVED")) /\ Ended
    BY <1>9, <2>1, <2>3, StepTyped, EndTyped
  <2> QED
    BY <1>9, <2>2, <2>3, StepEnds
<1>10. ASSUME Judged, proc.pc = "judge"
       PROVE  contact' \in [names: {"nothing", "TEST", "PRODUCTION"},
                            after: StepName \cup {"none", "start"}]
  <2>1. run.done + 1 \in 1..Length
    BY <1>1, <1>10, PlanTypes DEF Located, Held, Manifest
  <2> QED
    BY <1>1, <1>2, <1>10, <2>1, PlanTypes DEF Judged, Bootstrap, Around, Destination
<1>11. CASE JudgeContinues
  <2>1. Around'
    BY <1>1, <1>10, <1>11 DEF JudgeContinues, Around, testing, outside
  <2>2. run' \in Manifest
    <3>1. run.done \in 0..Length /\ run.done < Length
      BY <1>1, <1>11 DEF JudgeContinues, Located, Held, Manifest
    <3>2. run.done + 1 \in 0..Length
      BY <3>1, PlanTypes
    <3> QED
      BY <1>1, <1>11, <3>2 DEF JudgeContinues, Held, Manifest
  <2>3. Len(disk) >= 1
    BY <1>1, <1>11 DEF JudgeContinues, Located, Current
  <2>4. disk' \in Seq(Manifest) /\ Current' = Current
    BY <1>1, <1>11, <2>2, <2>3, SavedDisk DEF JudgeContinues, Saved, Held, Current
  <2>5. proc' \in Process /\ proc'.pc = "step"
    BY <1>1, <1>11 DEF JudgeContinues, Held, Process
  <2>6. Held' /\ Located'
    BY <1>1, <1>11, <2>2, <2>3, <2>4, <2>5 DEF JudgeContinues, Held, Located, Current
  <2> QED
    BY <2>1, <2>6, TypedParts
<1>12. CASE JudgeStops
  <2>1. Around'
    BY <1>1, <1>10, <1>12 DEF JudgeStops, Around, testing, outside
  <2> QED
    BY <1>12, <2>1, EndTyped DEF JudgeStops
<1>13. CASE Finish
  <2>1. Around'
    BY <1>1, <1>2, <1>13 DEF Finish, Around, testing, outside
  <2> QED
    BY <1>13, <2>1, EndTyped DEF Finish
<1>14. CASE Crash
  <2>1. dest' \in [Nodes -> Destination] /\ schema' \in [Nodes -> Schema]
        /\ production' \in {"intact", "written"}
    <3>1. Current \in 0..MaxRuns
      BY <1>1, LenProperties, PlanTypes DEF Held, Current
    <3>2. \A n \in Nodes : Wrecks(n) \subseteq [Nodes -> Destination]
      BY <1>1, <3>1, WrecksType DEF Around
    <3>3. \A n \in Nodes : Import(n) \in [Nodes -> Schema]
      BY <1>1 DEF Import, Connection, Around, Held, Schema
    <3> QED
      BY <1>1, <1>14, <3>2, <3>3 DEF Crash, Around
  <2>2. Around'
    BY <1>1, <1>2, <1>14, <2>1 DEF Crash, Around
  <2> QED
    BY <1>14, <2>2, EndTyped DEF Crash
<1>15. CASE Prune \/ MoveSource \/ UNCHANGED vars
  <2>1. Around'
    BY <1>1, <1>2, <1>15 DEF Prune, MoveSource, Around, testing, outside, vars
  <2>2. Held' /\ Located'
    BY <1>1, <1>15 DEF Prune, MoveSource, Held, Located, Current, memory, vars
  <2> QED
    BY <2>1, <2>2, TypedParts
<1> QED
  BY <1>4, <1>5, <1>7, <1>8, <1>9, <1>11, <1>12, <1>13, <1>14, <1>15 DEF Next

\* The destination, the databases, the backups and the manifests are what the adapters
\* and RunManifest can hold, for every plan and every tree of installations.
THEOREM TypeCorrect == Spec => []TypeOK
<1>1. Typed => TypeOK
  BY DEF Typed
<1> QED
  BY <1>1, InitTyped, NextTyped, PTL DEF Spec


-----------------------------------------------------------------------------
(***************************************************************************)
(* What the completed steps of a run guarantee, and keep guaranteeing.     *)
(***************************************************************************)

\* The step is among the first d.
Done(name, n, d) == \E k \in 1..d : Plan[k] = [name |-> name, node |-> n]

\* Every installation whose configuration was written uses its TEST database.
Named(files, d) ==
    \A n \in Nodes : Done("write_test_db_config", n, d) => files[n].names = "TEST"

\* Every copy is whole, of the source that the manifest records.
Whole(files, data, m, d) ==
    \A n \in Nodes :
        /\ Done("copy_files", n, d) => files[n].tree = "copied"
        /\ Done("copy_database", n, d) =>
              data[n].holds \in {"source urls", "test urls"} /\ data[n].from = m.resolved[n]
        /\ Done("pending_search_replace", n, d) => data[n].holds = "test urls"

LEMMA NothingDone ==
    ASSUME NEW files, NEW data, NEW m
    PROVE  Named(files, 0) /\ Whole(files, data, m, 0)
  BY DEF Named, Whole, Done

LEMMA DoneNext ==
    ASSUME NEW name, NEW n, NEW d \in Nat
    PROVE  Done(name, n, d + 1) <=> Done(name, n, d) \/ Plan[d + 1] = [name |-> name, node |-> n]
<1>1. 1..(d + 1) = 1..d \cup {d + 1}
  OBVIOUS
<1> QED
  BY <1>1 DEF Done

LEMMA AllDone ==
    ASSUME NEW name \in StepName, NEW n \in Nodes
    PROVE  Done(name, n, Length)
  BY PlanOrderAssumption DEF Done

\* What must precede a step is done when it is faced.
LEMMA Ahead ==
    ASSUME NEW name \in StepName, NEW n \in Nodes, NEW d \in 0..Length, d < Length,
           Precedes([name |-> name, node |-> n], Plan[d + 1]),
           Plan[d + 1] # [name |-> name, node |-> n]
    PROVE  Done(name, n, d)
<1>1. PICK k \in 1..Length : Plan[k] = [name |-> name, node |-> n]
  BY PlanOrderAssumption
<1>2. d + 1 \in 1..Length
  BY PlanTypes
<1>3. k < d + 1
  BY <1>1, <1>2, PlanOrderAssumption
<1> QED
  BY <1>1, <1>3 DEF Done

\* What a step must precede, and the step itself, are not done when it is faced.
LEMMA Behind ==
    ASSUME NEW name, NEW n, NEW d \in 0..Length, d < Length, Done(name, n, d)
    PROVE  /\ Plan[d + 1] # [name |-> name, node |-> n]
           /\ ~ Precedes(Plan[d + 1], [name |-> name, node |-> n])
<1>1. PICK k \in 1..d : Plan[k] = [name |-> name, node |-> n]
  BY DEF Done
<1>2. d + 1 \in 1..Length /\ k \in 1..Length /\ k < d + 1
  BY PlanTypes
<1> QED
  BY <1>1, <1>2, PlanOrderAssumption

\* What the step at k, or what is left of it, may do to the copy and to its databases.
Writes(k) ==
    \/ UNCHANGED <<dest, schema>>
    \/ \E n \in Nodes :
          \/ /\ Plan[k] = [name |-> "copy_files", node |-> n] /\ schema' = schema
             /\ \A m \in Nodes \ Contains[n] : dest'[m] = dest[m]
          \/ /\ Plan[k] = [name |-> "copy_database", node |-> n] /\ dest' = dest
             /\ \A m \in Nodes \ {n} : schema'[m] = schema[m]
          \/ /\ Plan[k] = [name |-> "write_test_db_config", node |-> n] /\ schema' = schema
             /\ dest' = Configured(n)
          \/ /\ Plan[k] = [name |-> "pending_search_replace", node |-> n] /\ dest' = dest
             /\ schema' = Replaced(n)

\* No step disturbs what the earlier ones did.
LEMMA WritesKeep ==
    ASSUME dest \in [Nodes -> Destination], schema \in [Nodes -> Schema],
           NEW d \in 0..Length, d < Length, Writes(d + 1), NEW m
    PROVE  /\ Named(dest, d) => Named(dest', d)
           /\ Whole(dest, schema, m, d) => Whole(dest', schema', m, d)
<1>1. CASE UNCHANGED <<dest, schema>>
  BY <1>1
<1>2. ASSUME NEW n \in Nodes, Plan[d + 1] = [name |-> "copy_files", node |-> n], schema' = schema,
             \A o \in Nodes \ Contains[n] : dest'[o] = dest[o]
      PROVE  /\ Named(dest, d) => Named(dest', d)
             /\ Whole(dest, schema, m, d) => Whole(dest', schema', m, d)
  <2>1. \A o \in Nodes, name \in {"copy_files", "write_test_db_config"} :
            Done(name, o, d) => dest'[o] = dest[o]
    <3> SUFFICES ASSUME NEW o \in Nodes, NEW name \in {"copy_files", "write_test_db_config"},
                        Done(name, o, d), o \in Contains[n]
                 PROVE  FALSE
      BY <1>2
    <3>1. Precedes(Plan[d + 1], [name |-> name, node |-> o])
      BY <1>2 DEF Precedes
    <3> QED
      BY <3>1, Behind
  <2> QED
    BY <1>2, <2>1 DEF Named, Whole
<1>3. ASSUME NEW n \in Nodes, Plan[d + 1] = [name |-> "copy_database", node |-> n], dest' = dest,
             \A o \in Nodes \ {n} : schema'[o] = schema[o]
      PROVE  /\ Named(dest, d) => Named(dest', d)
             /\ Whole(dest, schema, m, d) => Whole(dest', schema', m, d)
  <2>1. ~ Done("copy_database", n, d)
    BY <1>3, Behind
  <2>2. ~ Done("pending_search_replace", n, d)
    <3>1. Precedes(Plan[d + 1], [name |-> "pending_search_replace", node |-> n])
      BY <1>3 DEF Precedes
    <3> QED
      BY <3>1, Behind
  <2> QED
    BY <1>3, <2>1, <2>2 DEF Whole
<1>4. ASSUME NEW n \in Nodes, schema' = schema, dest' = Configured(n)
      PROVE  /\ Named(dest, d) => Named(dest', d)
             /\ Whole(dest, schema, m, d) => Whole(dest', schema', m, d)
  <2>1. \A o \in Nodes : dest'[o].tree = dest[o].tree
                         /\ (dest'[o].names = dest[o].names \/ dest'[o].names = "TEST")
    BY <1>4 DEF Configured
  <2> QED
    BY <1>4, <2>1 DEF Named, Whole
<1>5. ASSUME NEW n \in Nodes, dest' = dest, schema' = Replaced(n)
      PROVE  /\ Named(dest, d) => Named(dest', d)
             /\ Whole(dest, schema, m, d) => Whole(dest', schema', m, d)
  <2>1. \A o \in Nodes : /\ schema'[o].from = schema[o].from
                         /\ \/ schema'[o].holds = schema[o].holds
                            \/ schema[o].holds = "source urls" /\ schema'[o].holds = "test urls"
    BY <1>5 DEF Replaced, Schema
  <2> QED
    BY <1>5, <2>1 DEF Whole
<1> QED
  BY <1>1, <1>2, <1>3, <1>4, <1>5 DEF Writes

\* A replacement of the tree of n, whole or not, leaves the trees outside it alone.
LEMMA ReplacementsWrite ==
    ASSUME NEW n \in Nodes, dest \in [Nodes -> Destination],
           dest' \in Wrecks(n) \/ \E nested \in Nested : dest' = ReplacedBy(n, Copied, {}, nested)
    PROVE  \A m \in Nodes \ Contains[n] : dest'[m] = dest[m]
<1>1. \A files, kept, nested : \A m \in Nodes \ Contains[n] :
         ReplacedBy(n, files, kept, nested)[m] = dest[m]
  BY TreeAssumption DEF ReplacedBy
<1>2. \E files, kept, nested : dest' = ReplacedBy(n, files, kept, nested)
  BY DEF Wrecks
<1> QED
  BY <1>1, <1>2

LEMMA StepWrites ==
    ASSUME Typed, NEW n \in Nodes, Steps(n)
    PROVE  Writes(run.done + 1)
<1> USE DEF Writes
<1>0. dest \in [Nodes -> Destination] /\ schema \in [Nodes -> Schema]
  BY DEF Typed, TypeOK
<1>1. CASE CopyFiles(n) \/ CopyFilesFails(n)
  <2>1. Plan[run.done + 1] = [name |-> "copy_files", node |-> n] /\ schema' = schema
    BY <1>1 DEF CopyFiles, CopyFilesFails, AtStep, Facing
  <2>2. \/ dest' = dest
        \/ dest' \in Wrecks(n) \/ \E nested \in Nested : dest' = ReplacedBy(n, Copied, {}, nested)
    BY <1>1 DEF CopyFiles, CopyFilesFails
  <2> QED
    BY <1>0, <2>1, <2>2, ReplacementsWrite
<1>2. CASE CopyDatabase(n) \/ CopyDatabaseBreaks(n)
  <2>1. Plan[run.done + 1] = [name |-> "copy_database", node |-> n] /\ dest' = dest
    BY <1>2 DEF CopyDatabase, CopyDatabaseBreaks, AtStep, Facing
  <2>2. \A m \in Nodes \ {n} : schema'[m] = schema[m]
    BY <1>0, <1>2 DEF CopyDatabase, CopyDatabaseBreaks, Import
  <2> QED
    BY <2>1, <2>2
<1>3. CASE WriteTestDbConfig(n)
  BY <1>3 DEF WriteTestDbConfig, AtStep, Facing
<1>4. CASE SearchReplace(n)
  BY <1>4 DEF SearchReplace, AtStep, Facing
<1>5. CASE \/ BackupAbsent(n) \/ BackupExisting(n) \/ BackupFails(n) \/ CopyFilesRefused(n)
           \/ SnapshotSource(n) \/ SnapshotSourceFails(n) \/ CopyDatabaseRefused(n)
           \/ SearchReplaceFails(n) \/ StepRaises(n)
  BY <1>5 DEF BackupAbsent, BackupExisting, BackupFails, CopyFilesRefused, SnapshotSource,
     SnapshotSourceFails, CopyDatabaseRefused, SearchReplaceFails, StepRaises, testing
<1> QED
  BY <1>1, <1>2, <1>3, <1>4, <1>5 DEF Steps

\* A crash leaves the same behind as a step, or nothing.
LEMMA CrashWrites ==
    ASSUME Typed, Crash
    PROVE  UNCHANGED <<dest, schema>> \/ (proc.pc = "step" /\ run.done < Length /\ Writes(run.done + 1))
<1>0. dest \in [Nodes -> Destination] /\ schema \in [Nodes -> Schema]
  BY DEF Typed, TypeOK
<1>1. ASSUME NEW n \in Nodes, Facing("copy_files", n), dest' \in Wrecks(n), schema' = schema
      PROVE  proc.pc = "step" /\ run.done < Length /\ Writes(run.done + 1)
  BY <1>0, <1>1, ReplacementsWrite DEF Facing, Writes
<1>2. ASSUME NEW n \in Nodes, Facing("copy_database", n), schema' = Import(n), dest' = dest
      PROVE  proc.pc = "step" /\ run.done < Length /\ Writes(run.done + 1)
  <2>1. \A m \in Nodes \ {n} : schema'[m] = schema[m]
    BY <1>0, <1>2 DEF Import
  <2> QED
    BY <1>2, <2>1 DEF Facing, Writes
<1> QED
  BY <1>1, <1>2 DEF Crash


-----------------------------------------------------------------------------
(***************************************************************************)
(* The inductive invariant.                                                *)
(***************************************************************************)

\* Only the newest run has ever been resumed.
Newest == "stale resume" \notin mishaps

\* At most one source is recorded for an installation.
Single(m) == \A n \in Nodes : \A a, b \in m.resolved[n] : a = b

\* A tree that a resume may accept by its fingerprint names what the run had written.
PrintsNamed ==
    InOrder => \A r \in 1..Current : \A files \in disk[r].print : Named(files, disk[r].done)
\* Only a crash leaves a manifest that no resume compares.
Compared ==
    "crash" \notin mishaps =>
        \A r \in 1..Current : disk[r].print # {} \/ (r = Current /\ proc.pc \in {"step", "judge"})
\* The newest manifest does not say more than what stands.
NewestStands ==
    Newest /\ Current > 0 =>
        /\ Named(dest, disk[Current].done)
        /\ Whole(dest, schema, disk[Current], disk[Current].done)
DiskStands ==
    /\ PrintsNamed /\ Compared /\ NewestStands
    /\ \A r \in 1..Current :
          Single(disk[r]) /\ (disk[r].status = "EXECUTED" => disk[r].done = Length)

\* Nor does the manifest in memory, nor the result that waits for its verdict.
RunStands(d) == (InOrder => Named(dest, d)) /\ (Newest => Whole(dest, schema, run, d))
MemoryStands ==
    /\ Single(run)
    /\ proc.pc # "idle" => RunStands(run.done) /\ run.print = {} /\ run.status = "RUNNING"
    /\ proc.pc = "judge" /\ proc.ok => RunStands(run.done + 1)
    /\ proc.pc \in {"step", "judge"} =>
          disk[Current].done = run.done /\ disk[Current].status = "RUNNING"
    /\ proc.pc \in {"idle", "begin"} => cached = NoneCached
    /\ \A n \in Nodes : cached[n] # {} => cached[n] = run.resolved[n]

Stands == DiskStands /\ MemoryStands

\* What the sources recorded for installations not yet copied are does not matter.
LEMMA WholeOf ==
    ASSUME NEW files, NEW data, NEW m, NEW o, NEW d, Whole(files, data, m, d),
           \A n \in Nodes : Done("copy_database", n, d) => o.resolved[n] = m.resolved[n]
    PROVE  Whole(files, data, o, d)
  BY DEF Whole

LEMMA CurrentType ==
    ASSUME Typed
    PROVE  /\ Current \in 0..MaxRuns /\ disk \in Seq(Manifest) /\ run \in Manifest
           /\ proc.pc \in {"step", "judge"} => Current >= 1
           /\ \A r \in 1..Current : disk[r] \in Manifest
<1>1. disk \in Seq(Manifest) /\ Current <= MaxRuns /\ run \in Manifest
  BY DEF Typed, TypeOK
<1>2. Current \in Nat
  BY <1>1, LenProperties DEF Current
<1>3. Current \in 0..MaxRuns
  BY <1>1, <1>2, PlanTypes
<1>4. proc.pc \in {"step", "judge"} => Current >= 1
  BY DEF Typed, Located
<1>5. \A r \in 1..Current : disk[r] \in Manifest
  BY <1>1, ElementOfSeq DEF Current
<1> QED
  BY <1>1, <1>3, <1>4, <1>5

\* The disk stays: what the newest manifest says still stands.
LEMMA DiskKept ==
    ASSUME Typed, DiskStands, disk' = disk, mishaps \subseteq mishaps',
           mishaps' \subseteq {"crash", "stale resume"},
           Newest' /\ Current > 0 =>
               /\ Named(dest', disk[Current].done)
               /\ Whole(dest', schema', disk[Current], disk[Current].done),
           "crash" \notin mishaps' /\ proc.pc \in {"step", "judge"} => proc'.pc \in {"step", "judge"}
    PROVE  DiskStands'
<1>1. Current' = Current
  BY DEF Current
<1>2. InOrder' => InOrder
  BY DEF InOrder
<1>3. PrintsNamed'
  BY <1>1, <1>2 DEF DiskStands, PrintsNamed
<1>4. Compared'
  BY <1>1 DEF DiskStands, Compared
<1>5. NewestStands'
  BY <1>1 DEF NewestStands
<1> QED
  BY <1>1, <1>3, <1>4, <1>5 DEF DiskStands

\* The newest manifest is replaced by one that says no more than what stands.
LEMMA DiskSaved ==
    ASSUME Typed, DiskStands, NEW m \in Manifest, proc.pc \in {"step", "judge"},
           disk' = Saved(m), mishaps' = mishaps, Single(m),
           m.status = "EXECUTED" => m.done = Length,
           InOrder => \A files \in m.print : Named(files, m.done),
           m.print # {} \/ proc'.pc \in {"step", "judge"},
           Newest => Named(dest', m.done) /\ Whole(dest', schema', m, m.done)
    PROVE  DiskStands' /\ Current' = Current /\ disk'[Current] = m
<1>1. Current \in 1..Current /\ disk \in Seq(Manifest)
  BY CurrentType
<1>2. /\ Current' = Current
      /\ \A r \in 1..Current : disk'[r] = IF r = Current THEN m ELSE disk[r]
  BY <1>1, SavedDisk DEF Saved, Current
<1>3. PrintsNamed'
  BY <1>2 DEF DiskStands, PrintsNamed, InOrder
<1>4. Compared'
  BY <1>2 DEF DiskStands, Compared
<1>5. NewestStands'
  BY <1>1, <1>2 DEF NewestStands, Newest
<1>6. \A r \in 1..Current :
          Single(disk'[r]) /\ (disk'[r].status = "EXECUTED" => disk'[r].done = Length)
  BY <1>2 DEF DiskStands
<1> QED
  BY <1>1, <1>2, <1>3, <1>4, <1>5, <1>6 DEF DiskStands

\* Without a run the memory says nothing.
LEMMA EndedStands == Ended => MemoryStands'
  BY DEF Ended, MemoryStands, Fresh, Idle, NoneCached, Single

LEMMA InitStands == Init => Stands
<1> SUFFICES ASSUME Init PROVE Stands
  OBVIOUS
<1>1. Current = 0
  BY EmptySeq DEF Init, Current
<1>2. DiskStands
  BY <1>1 DEF DiskStands, PrintsNamed, Compared, NewestStands
<1>3. MemoryStands
  BY DEF Init, MemoryStands, Fresh, Idle, NoneCached, Single
<1> QED
  BY <1>2, <1>3 DEF Stands

\* A run that starts.
LEMMA BeginStands ==
    ASSUME Typed, Stands, NEW m, Begin(m), proc.pc = "idle",
           mishaps \subseteq mishaps', mishaps' \subseteq {"crash", "stale resume"},
           Single(m), m.print = {}, m.status = "RUNNING",
           InOrder' => Named(dest, m.done), Newest' => Whole(dest, schema, m, m.done)
    PROVE  Stands'
<1>1. /\ run' = m /\ proc'.pc = "begin" /\ UNCHANGED <<dest, schema, disk, cached>>
  BY DEF Begin, Idle, testing
<1>2. Newest' => Newest
  BY DEF Newest
<1>3. DiskStands'
  BY <1>1, <1>2, DiskKept DEF Stands, DiskStands, NewestStands
<1>4. cached' = NoneCached
  BY <1>1 DEF Stands, MemoryStands
<1>5. MemoryStands'
  BY <1>1, <1>4 DEF MemoryStands, RunStands, NoneCached
<1> QED
  BY <1>3, <1>5 DEF Stands

LEMMA ExecuteStands ==
    ASSUME Typed, Stands, NEW replace \in BOOLEAN, Execute(replace)
    PROVE  Stands'
<1>1. mishaps' = mishaps /\ mishaps \subseteq {"crash", "stale resume"}
  BY DEF Execute, Typed, TypeOK
<1>2. Single(Fresh(replace)) /\ Fresh(replace).print = {} /\ Fresh(replace).status = "RUNNING"
      /\ Fresh(replace).done = 0
  BY DEF Fresh, Single, NoneCached
<1> QED
  BY <1>1, <1>2, BeginStands, NothingDone DEF Execute

\* A resume that the fingerprint lets through, or that nothing compares.
LEMMA ResumeStands ==
    ASSUME Typed, Stands, NEW r \in 1..Current, Resume(r)
    PROVE  Stands'
<1> DEFINE m == [disk[r] EXCEPT !.status = "RUNNING", !.print = {}]
<1>1. disk[r] \in Manifest /\ Current \in Nat
  BY CurrentType, PlanTypes
<1>2. m.done = disk[r].done /\ m.resolved = disk[r].resolved /\ m.print = {} /\ m.status = "RUNNING"
  BY <1>1 DEF Manifest
<1>3. mishaps \subseteq mishaps' /\ mishaps' \subseteq {"crash", "stale resume"}
      /\ (Newest' => r = Current /\ mishaps' = mishaps)
  BY DEF Resume, Newest, Typed, TypeOK
<1>4. proc.pc = "idle" /\ Begin(m) /\ disk[r].print \subseteq {dest}
  BY DEF Resume, ResumeConsistent
<1> HIDE DEF m
<1>5. ASSUME Newest' PROVE Named(dest, disk[r].done) /\ Whole(dest, schema, disk[r], disk[r].done)
  <2>1. r = Current /\ Newest
    BY <1>3, <1>5 DEF Newest
  <2>2. Current > 0
    BY <1>1
  <2>3. NewestStands
    BY DEF Stands, DiskStands
  <2> QED
    BY <2>1, <2>2, <2>3 DEF NewestStands
<1>6. ASSUME InOrder', ~ Newest' PROVE Named(dest, disk[r].done)
  <2>1. "crash" \notin mishaps /\ InOrder
    BY <1>3, <1>6 DEF InOrder, Newest
  <2>2. dest \in disk[r].print
    BY <1>4, <2>1 DEF Stands, DiskStands, Compared
  <2> QED
    BY <2>1, <2>2 DEF Stands, DiskStands, PrintsNamed
<1>7. Single(m)
  BY <1>2 DEF Stands, DiskStands, Single
<1>8. Newest' => Whole(dest, schema, m, m.done)
  BY <1>2, <1>5, WholeOf
<1> QED
  BY <1>2, <1>3, <1>4, <1>5, <1>6, <1>7, <1>8, BeginStands

LEMMA CreateStands ==
    ASSUME Typed, Stands, CreateRun
    PROVE  Stands'
<1>1. Current \in Nat /\ disk \in Seq(Manifest) /\ run \in Manifest
  BY CurrentType, PlanTypes
<1>2. /\ disk' = Append(disk, run) /\ proc'.pc = "step" /\ proc.pc = "begin"
      /\ UNCHANGED <<dest, schema, run, cached, mishaps>>
  BY DEF CreateRun, testing, Typed, TypeOK, Process
<1>3. /\ Current' = Current + 1
      /\ \A r \in 1..Current + 1 : disk'[r] = IF r = Current + 1 THEN run ELSE disk[r]
  BY <1>1, <1>2, AppendedDisk DEF Current
<1>4. RunStands(run.done) /\ run.print = {} /\ run.status = "RUNNING" /\ Single(run)
  BY <1>2 DEF Stands, MemoryStands
<1>5. \A r \in 1..Current' : r = Current + 1 \/ r \in 1..Current
  BY <1>1, <1>3
<1>6. PrintsNamed'
  BY <1>2, <1>3, <1>4, <1>5 DEF Stands, DiskStands, PrintsNamed, InOrder
<1>7. Compared'
  BY <1>2, <1>3, <1>5 DEF Stands, DiskStands, Compared
<1>8. Newest => InOrder
  BY DEF Newest, InOrder
<1>9. disk'[Current'] = run
  BY <1>1, <1>3
<1>10. NewestStands'
  BY <1>2, <1>4, <1>8, <1>9 DEF NewestStands, RunStands, Newest
<1>11. DiskStands'
  BY <1>3, <1>4, <1>5, <1>6, <1>7, <1>10 DEF Stands, DiskStands
<1>12. MemoryStands'
  BY <1>2, <1>4, <1>9 DEF Stands, MemoryStands, RunStands, InOrder, Newest
<1> QED
  BY <1>11, <1>12 DEF Stands


\* What a step reads as the connection to dump from is the source recorded.
LEMMA ConnectionRecorded ==
    ASSUME Stands, NEW n \in Nodes, Connection(n) # {}
    PROVE  Connection(n) = run.resolved[n]
<1>1. Single(run) /\ (cached[n] # {} => cached[n] = run.resolved[n])
  BY DEF Stands, MemoryStands
<1>2. CASE cached[n] # {}
  BY <1>1, <1>2 DEF Connection
<1>3. CASE cached[n] = {}
  <2>1. Connection(n) = {source} \cap run.resolved[n]
    BY <1>3 DEF Connection
  <2>2. source \in run.resolved[n]
    BY <2>1
  <2>3. \A a \in run.resolved[n] : a = source
    BY <1>1, <2>2 DEF Single
  <2> QED
    BY <2>1, <2>2, <2>3
<1> QED
  BY <1>2, <1>3

\* A step whose result is to be judged keeps the sources recorded for the databases
\* already copied, and caches only what it records.
StepRecords(n) ==
    /\ \A m \in Nodes : Done("copy_database", m, run.done) => run'.resolved[m] = run.resolved[m]
    /\ \A m \in Nodes : cached'[m] # {} => cached'[m] = run'.resolved[m]
    /\ Single(run') /\ run'.done = run.done /\ run'.print = {} /\ run'.status = "RUNNING"

LEMMA StepRecorded ==
    ASSUME Typed, Stands, NEW n \in Nodes, Steps(n), proc'.pc = "judge"
    PROVE  StepRecords(n)
<1> USE DEF StepRecords
<1>1. /\ proc.pc = "step" /\ run.done < Length /\ run.done \in 0..Length
  BY StepTyped
<1>2. /\ Single(run) /\ run.print = {} /\ run.status = "RUNNING"
      /\ \A m \in Nodes : cached[m] # {} => cached[m] = run.resolved[m]
  BY <1>1 DEF Stands, MemoryStands
<1>3. run \in Manifest /\ cached \in [Nodes -> SUBSET Sources]
  BY DEF Typed, TypeOK
<1>4. CASE SnapshotSource(n)
  <2>1. /\ run' = [run EXCEPT !.resolved[n] = {source}] /\ cached' = [cached EXCEPT ![n] = {source}]
        /\ Plan[run.done + 1] = [name |-> "snapshot_source_database", node |-> n]
    BY <1>4 DEF SnapshotSource, AtStep, Facing
  <2>2. /\ run'.done = run.done /\ run'.print = {} /\ run'.status = "RUNNING"
        /\ run'.resolved = [run.resolved EXCEPT ![n] = {source}]
    BY <1>2, <1>3, <2>1 DEF Manifest
  <2>3. \A m \in Nodes : run'.resolved[m] = IF m = n THEN {source} ELSE run.resolved[m]
    BY <1>3, <2>2 DEF Manifest
  <2>4. \A m \in Nodes : cached'[m] = IF m = n THEN {source} ELSE cached[m]
    BY <1>3, <2>1
  <2>5. ~ Done("copy_database", n, run.done)
    <3>1. Precedes(Plan[run.done + 1], [name |-> "copy_database", node |-> n])
      BY <2>1 DEF Precedes
    <3> QED
      BY <1>1, <3>1, Behind
  <2>6. Single(run')
    BY <1>2, <2>3 DEF Single
  <2> QED
    BY <1>2, <2>2, <2>3, <2>4, <2>5, <2>6
<1>5. CASE BackupExisting(n)
  <2>1. run' = [run EXCEPT !.backup[n] = Current] /\ cached' = cached
    BY <1>5 DEF BackupExisting
  <2>2. /\ run'.done = run.done /\ run'.print = {} /\ run'.status = "RUNNING"
        /\ run'.resolved = run.resolved
    BY <1>2, <1>3, <2>1 DEF Manifest
  <2> QED
    BY <1>2, <2>1, <2>2 DEF Single
<1>6. CASE CopyDatabase(n)
  <2>1. run' = run /\ cached' = [cached EXCEPT ![n] = Connection(n)] /\ Connection(n) # {}
    BY <1>6 DEF CopyDatabase
  <2>2. Connection(n) = run.resolved[n]
    BY <2>1, ConnectionRecorded
  <2> QED
    BY <1>2, <1>3, <2>1, <2>2 DEF Single
<1>7. CASE WriteTestDbConfig(n)
  <2>1. run' = run /\ cached' = [cached EXCEPT ![n] = {}]
    BY <1>7 DEF WriteTestDbConfig
  <2> QED
    BY <1>2, <1>3, <2>1 DEF Single
<1>8. CASE \/ BackupAbsent(n) \/ BackupFails(n) \/ CopyFiles(n) \/ CopyFilesRefused(n)
           \/ CopyFilesFails(n) \/ SnapshotSourceFails(n) \/ CopyDatabaseRefused(n)
           \/ SearchReplace(n) \/ SearchReplaceFails(n)
  <2>1. run' = run /\ cached' = cached
    BY <1>8 DEF BackupAbsent, BackupFails, CopyFiles, CopyFilesRefused, CopyFilesFails,
       SnapshotSourceFails, CopyDatabaseRefused, SearchReplace, SearchReplaceFails
  <2> QED
    BY <1>2, <2>1 DEF Single
<1>9. CASE CopyDatabaseBreaks(n) \/ StepRaises(n)
  <2>1. proc' = Idle
    BY <1>9 DEF CopyDatabaseBreaks, StepRaises, Raises, Ended
  <2> QED
    BY <2>1 DEF Idle
<1> QED
  BY <1>4, <1>5, <1>6, <1>7, <1>8, <1>9 DEF Steps

\* What is faced by a rewrite through WP-CLI: a tree that names its TEST database.
LEMMA SearchFaced ==
    ASSUME Typed, NEW n \in Nodes, run.done < Length, RunStands(run.done),
           Plan[run.done + 1] = [name |-> "pending_search_replace", node |-> n]
    PROVE  /\ InOrder => dest[n].names = "TEST"
           /\ Newest => schema[n].holds \in {"source urls", "test urls"}
<1>1. run.done \in 0..Length
  BY CurrentType DEF Manifest
<1>2. Done("write_test_db_config", n, run.done) /\ Done("copy_database", n, run.done)
  <2>1. \A name \in {"write_test_db_config", "copy_database"} :
            Precedes([name |-> name, node |-> n], Plan[run.done + 1])
    BY DEF Precedes
  <2> QED
    BY <1>1, <2>1, Ahead DEF StepName
<1> QED
  BY <1>2 DEF RunStands, Named, Whole

\* What a success means, step by step.
Succeeds(n) ==
    /\ Plan[run.done + 1].name = "copy_files" => dest'[n].tree = "copied"
    /\ Plan[run.done + 1].name = "copy_database" =>
           schema'[n].holds = "source urls" /\ schema'[n].from = run'.resolved[n]
    /\ Plan[run.done + 1].name = "write_test_db_config" => dest'[n].names = "TEST"
    /\ Plan[run.done + 1].name = "pending_search_replace" /\ Newest => schema'[n].holds = "test urls"

LEMMA StepSucceeds ==
    ASSUME Typed, Stands, NEW n \in Nodes, Steps(n), proc'.pc = "judge", proc'.ok
    PROVE  Succeeds(n)
<1> USE DEF Succeeds
<1>1. /\ run.done < Length /\ proc.pc = "step"
  BY StepTyped
<1>2. dest \in [Nodes -> Destination] /\ schema \in [Nodes -> Schema] /\ proc \in Process
  BY DEF Typed, TypeOK
<1>0. ASSUME NEW name, AtStep(name, n) PROVE Plan[run.done + 1].name = name
  BY <1>0 DEF AtStep, Facing
<1>3. CASE BackupAbsent(n) \/ BackupExisting(n) \/ SnapshotSource(n)
  <2>1. AtStep("backup_existing_test", n) \/ AtStep("snapshot_source_database", n)
    BY <1>3 DEF BackupAbsent, BackupExisting, SnapshotSource
  <2> QED
    BY <1>0, <2>1
<1>4. CASE CopyFiles(n)
  <2>1. Plan[run.done + 1].name = "copy_files"
    BY <1>0, <1>4 DEF CopyFiles
  <2>2. dest'[n] = Copied
    BY <1>4 DEF CopyFiles, ReplacedBy
  <2> QED
    BY <2>1, <2>2 DEF Copied
<1>5. CASE CopyDatabase(n)
  <2>1. Plan[run.done + 1].name = "copy_database" /\ Connection(n) # {} /\ run' = run
        /\ schema' = [schema EXCEPT ![n] = [holds |-> "source urls", from |-> Connection(n)]]
    BY <1>0, <1>5 DEF CopyDatabase
  <2>2. Connection(n) = run.resolved[n]
    BY <2>1, ConnectionRecorded
  <2> QED
    BY <1>2, <2>1, <2>2
<1>6. CASE WriteTestDbConfig(n)
  <2>1. Plan[run.done + 1].name = "write_test_db_config" /\ dest' = Configured(n)
    BY <1>0, <1>6 DEF WriteTestDbConfig
  <2>2. dest'[n].names = "TEST"
    BY <1>2, <2>1 DEF Configured
  <2> QED
    BY <2>1, <2>2
<1>7. CASE SearchReplace(n)
  <2>1. Plan[run.done + 1] = [name |-> "pending_search_replace", node |-> n]
    BY <1>7 DEF SearchReplace, AtStep, Facing
  <2>2. RunStands(run.done)
    BY <1>1 DEF Stands, MemoryStands
  <2>3. ASSUME Newest PROVE schema'[n].holds = "test urls"
    <3>1. dest[n].names = "TEST" /\ schema[n].holds \in {"source urls", "test urls"}
      BY <1>1, <2>1, <2>2, <2>3, SearchFaced DEF Newest, InOrder
    <3>2. schema' = Replaced(n)
      BY <1>7, <3>1 DEF SearchReplace
    <3> QED
      BY <1>2, <3>1, <3>2 DEF Replaced, Schema
  <2>4. Plan[run.done + 1].name = "pending_search_replace"
    BY <2>1
  <2> QED
    BY <2>3, <2>4
<1>8. CASE \/ BackupFails(n) \/ CopyFilesRefused(n) \/ CopyFilesFails(n) \/ SnapshotSourceFails(n)
           \/ CopyDatabaseRefused(n) \/ SearchReplaceFails(n)
  <2>1. Returns(FALSE)
    BY <1>8 DEF BackupFails, CopyFilesRefused, CopyFilesFails, SnapshotSourceFails,
       CopyDatabaseRefused, SearchReplaceFails
  <2> QED
    BY <1>2, <2>1 DEF Returns, Process
<1>9. CASE CopyDatabaseBreaks(n) \/ StepRaises(n)
  <2>1. proc' = Idle
    BY <1>9 DEF CopyDatabaseBreaks, StepRaises, Raises, Ended
  <2> QED
    BY <2>1 DEF Idle
<1> QED
  BY <1>3, <1>4, <1>5, <1>6, <1>7, <1>8, <1>9 DEF Steps

\* What had been done still stands after a step, and so does a success.
LEMMA StepKeeps ==
    ASSUME Typed, Stands, NEW n \in Nodes, Steps(n)
    PROVE  /\ InOrder => Named(dest', run.done)
           /\ Newest => Whole(dest', schema', run, run.done)
           /\ Newest => Whole(dest', schema', disk[Current], run.done)
           /\ disk[Current].done = run.done /\ disk[Current].status = "RUNNING"
<1>1. proc.pc = "step" /\ run.done < Length /\ run.done \in 0..Length /\ Current \in 1..MaxRuns
  BY StepTyped
<1>2. /\ disk[Current].done = run.done /\ disk[Current].status = "RUNNING"
      /\ RunStands(run.done)
  BY <1>1 DEF Stands, MemoryStands
<1>3. Newest => Whole(dest, schema, disk[Current], run.done)
  BY <1>1, <1>2, PlanTypes DEF Stands, DiskStands, NewestStands
<1>4. dest \in [Nodes -> Destination] /\ schema \in [Nodes -> Schema]
  BY DEF Typed, TypeOK
<1> QED
  BY <1>1, <1>2, <1>3, <1>4, StepWrites, WritesKeep DEF RunStands

LEMMA StepJudged ==
    ASSUME Typed, Stands, NEW n \in Nodes, Steps(n), proc'.pc = "judge"
    PROVE  RunStands(run.done)' /\ (proc'.ok => RunStands(run.done + 1)')
<1>1. run.done < Length /\ run.done \in Nat /\ Plan[run.done + 1].node = n
      /\ mishaps' = mishaps /\ run'.done = run.done
  BY StepTyped, StepRecorded, PlanTypes DEF StepRecords
<1>2. InOrder => Named(dest', run.done)
  BY StepKeeps
<1>3. Newest => Whole(dest', schema', run', run.done)
  BY StepKeeps, StepRecorded, WholeOf DEF StepRecords
<1>4. RunStands(run.done)'
  BY <1>1, <1>2, <1>3 DEF RunStands, InOrder, Newest
<1>5. ASSUME proc'.ok PROVE RunStands(run.done + 1)'
  <2>1. Succeeds(n)
    BY <1>5, StepSucceeds
  <2>2. ASSUME NEW name, NEW m, Done(name, m, run.done + 1)
        PROVE  Done(name, m, run.done) \/ (m = n /\ Plan[run.done + 1].name = name)
    <3>1. Done(name, m, run.done) \/ Plan[run.done + 1] = [name |-> name, node |-> m]
      BY <1>1, <2>2, DoneNext
    <3> QED
      BY <1>1, <3>1
  <2>4. InOrder => Named(dest', run.done + 1)
    BY <1>2, <2>1, <2>2 DEF Named, Succeeds
  <2>5. ASSUME Newest PROVE Whole(dest', schema', run', run.done + 1)
    <3> SUFFICES ASSUME NEW m \in Nodes
                 PROVE  /\ Done("copy_files", m, run.done + 1) => dest'[m].tree = "copied"
                        /\ Done("copy_database", m, run.done + 1) =>
                              /\ schema'[m].holds \in {"source urls", "test urls"}
                              /\ schema'[m].from = run'.resolved[m]
                        /\ Done("pending_search_replace", m, run.done + 1) =>
                              schema'[m].holds = "test urls"
      BY DEF Whole
    <3>0. Whole(dest', schema', run', run.done)
      BY <1>3, <2>5
    <3>1. Done("copy_files", m, run.done + 1) => dest'[m].tree = "copied"
      BY <2>1, <2>2, <3>0 DEF Whole, Succeeds
    <3>2. Done("copy_database", m, run.done + 1) =>
              schema'[m].holds \in {"source urls", "test urls"} /\ schema'[m].from = run'.resolved[m]
      <4> SUFFICES ASSUME Done("copy_database", m, run.done + 1)
                   PROVE  schema'[m].holds \in {"source urls", "test urls"}
                          /\ schema'[m].from = run'.resolved[m]
        OBVIOUS
      <4>1. CASE Done("copy_database", m, run.done)
        BY <3>0, <4>1 DEF Whole
      <4>2. CASE m = n /\ Plan[run.done + 1].name = "copy_database"
        BY <2>1, <4>2 DEF Succeeds
      <4>3. Done("copy_database", m, run.done) \/ (m = n /\ Plan[run.done + 1].name = "copy_database")
        BY <2>2
      <4> QED
        BY <4>1, <4>2, <4>3
    <3>3. Done("pending_search_replace", m, run.done + 1) => schema'[m].holds = "test urls"
      BY <2>1, <2>2, <2>5, <3>0 DEF Whole, Succeeds
    <3> QED
      BY <3>1, <3>2, <3>3
  <2> QED
    BY <1>1, <2>4, <2>5 DEF RunStands, InOrder, Newest
<1> QED
  BY <1>4, <1>5

LEMMA StepStands ==
    ASSUME Typed, Stands, NEW n \in Nodes, Steps(n)
    PROVE  Stands'
<1>1. /\ proc.pc = "step" /\ run.done \in 0..Length /\ Current \in 1..MaxRuns /\ mishaps' = mishaps
      /\ mishaps \subseteq {"crash", "stale resume"} /\ run \in Manifest
  BY StepTyped DEF Typed, TypeOK
<1>2. CASE disk' = disk /\ proc'.pc = "judge"
  <2>1. DiskStands'
    <3>1. Newest => InOrder
      BY DEF Newest, InOrder
    <3> QED
      BY <1>1, <1>2, <3>1, StepKeeps, DiskKept DEF Stands, Newest
  <2>2. Current' = Current
    BY <1>2 DEF Current
  <2>3. StepRecords(n) /\ RunStands(run.done)' /\ (proc'.ok => RunStands(run.done + 1)')
    BY <1>2, StepRecorded, StepJudged
  <2>4. disk'[Current'].done = run'.done /\ disk'[Current'].status = "RUNNING"
    BY <1>2, <2>2, <2>3, StepKeeps DEF StepRecords
  <2>5. MemoryStands'
    BY <1>2, <2>3, <2>4 DEF MemoryStands, StepRecords
  <2> QED
    BY <2>1, <2>5 DEF Stands
<1>3. CASE disk' = Saved(Closed("UPDATE_FAILED_PRESERVED")) /\ Ended
  <2> DEFINE m == Closed("UPDATE_FAILED_PRESERVED")
  <2>1. m.print = {dest'} /\ m.status = "UPDATE_FAILED_PRESERVED" /\ m.done = run.done
        /\ m.resolved = run.resolved
    BY <1>1 DEF Closed, Manifest
  <2>2. m \in Manifest
    BY <1>1, StepWritesTyped DEF Closed, Manifest
  <2> HIDE DEF m
  <2>3. Single(m)
    BY <2>1 DEF Stands, MemoryStands, Single
  <2>4. Newest => Named(dest', m.done) /\ Whole(dest', schema', m, m.done)
    <3>1. Newest => InOrder
      BY DEF Newest, InOrder
    <3> QED
      BY <2>1, <3>1, StepKeeps, WholeOf
  <2>5. InOrder => \A files \in m.print : Named(files, m.done)
    BY <2>1, StepKeeps
  <2>6. DiskStands'
    BY <1>1, <1>3, <2>1, <2>2, <2>3, <2>4, <2>5, DiskSaved DEF Stands, m
  <2> QED
    BY <1>3, <2>6, EndedStands DEF Stands
<1> QED
  BY <1>2, <1>3, StepEnds


\* A run that closes on what stands: the last manifest, with its fingerprint.
LEMMA CloseStands ==
    ASSUME Typed, Stands, NEW status \in {"EXECUTED", "UPDATE_FAILED_PRESERVED"},
           proc.pc \in {"step", "judge"}, disk' = Saved(Closed(status)), Ended,
           UNCHANGED <<dest, schema, mishaps>>, status = "EXECUTED" => run.done = Length
    PROVE  Stands'
<1> DEFINE m == Closed(status)
<1>1. run \in Manifest /\ dest \in [Nodes -> Destination]
  BY DEF Typed, TypeOK
<1>2. /\ m.print = {dest} /\ m.status = status /\ m.done = run.done /\ m.resolved = run.resolved
      /\ m \in Manifest
  BY <1>1 DEF Closed, Manifest
<1> HIDE DEF m
<1>3. RunStands(run.done) /\ Single(m)
  BY <1>2 DEF Stands, MemoryStands, Single
<1>4. Newest => Named(dest', m.done) /\ Whole(dest', schema', m, m.done)
  <2>1. Newest => InOrder
    BY DEF Newest, InOrder
  <2> QED
    BY <1>2, <1>3, <2>1, WholeOf DEF RunStands
<1>5. InOrder => \A files \in m.print : Named(files, m.done)
  BY <1>2, <1>3 DEF RunStands
<1>6. DiskStands'
  BY <1>2, <1>3, <1>4, <1>5, DiskSaved DEF Stands, m
<1> QED
  BY <1>6, EndedStands DEF Stands

\* A step that completes.
LEMMA ContinueStands ==
    ASSUME Typed, Stands, JudgeContinues
    PROVE  Stands'
<1>1. /\ proc.pc = "judge" /\ proc.ok /\ run' = [run EXCEPT !.done = @ + 1] /\ disk' = Saved(run')
      /\ UNCHANGED <<dest, schema, cached, mishaps>>
  BY DEF JudgeContinues, testing
<1>2. run \in Manifest /\ run.done \in 0..Length /\ run.done < Length /\ proc \in Process
  BY <1>1 DEF Typed, TypeOK, Located, Manifest
<1>3. /\ run' \in Manifest /\ run'.done = run.done + 1 /\ run'.resolved = run.resolved
      /\ run'.print = run.print /\ run'.status = run.status
  <2>1. run.done + 1 \in 0..Length
    BY <1>2, PlanTypes
  <2> QED
    BY <1>1, <1>2, <2>1 DEF Manifest
<1>4. proc'.pc = "step"
  BY <1>2 DEF JudgeContinues, Process
<1>5. RunStands(run.done + 1) /\ run.print = {} /\ run.status = "RUNNING" /\ Single(run)
  BY <1>1 DEF Stands, MemoryStands
<1>6. Single(run')
  BY <1>3, <1>5 DEF Single
<1>7. InOrder => Named(dest', run'.done)
  BY <1>1, <1>3, <1>5 DEF RunStands
<1>8. Newest => Named(dest', run'.done) /\ Whole(dest', schema', run', run'.done)
  <2>1. Newest => InOrder
    BY DEF Newest, InOrder
  <2> QED
    BY <1>1, <1>3, <1>5, <2>1, WholeOf DEF RunStands
<1>9. DiskStands' /\ Current' = Current /\ disk'[Current] = run'
  <2>1. run'.print = {} /\ run'.status = "RUNNING"
    BY <1>3, <1>5
  <2>2. DiskStands
    BY DEF Stands
  <2> QED
    BY <1>1, <1>3, <1>4, <1>6, <1>8, <2>1, <2>2, DiskSaved
<1>10. \A n \in Nodes : cached'[n] # {} => cached'[n] = run'.resolved[n]
  BY <1>1, <1>3 DEF Stands, MemoryStands
<1>11. RunStands(run.done)'
  BY <1>1, <1>7, <1>8 DEF RunStands, InOrder, Newest
<1>12. MemoryStands'
  BY <1>3, <1>4, <1>5, <1>6, <1>9, <1>10, <1>11 DEF MemoryStands
<1> QED
  BY <1>9, <1>12 DEF Stands

\* A process that dies, in the middle of a step or between two.
LEMMA CrashStands ==
    ASSUME Typed, Stands, Crash
    PROVE  Stands'
<1>1. /\ proc.pc # "idle" /\ Ended /\ disk' = disk /\ mishaps' = mishaps \cup {"crash"}
      /\ mishaps \subseteq {"crash", "stale resume"}
  BY DEF Crash, Typed, TypeOK
<1>2. dest \in [Nodes -> Destination] /\ schema \in [Nodes -> Schema] /\ run.done \in 0..Length
  BY DEF Typed, TypeOK, Manifest
<1>3. ASSUME Newest', Current > 0
      PROVE  /\ Named(dest', disk[Current].done)
             /\ Whole(dest', schema', disk[Current], disk[Current].done)
  <2>1. Newest
    BY <1>1, <1>3 DEF Newest
  <2>2. Named(dest, disk[Current].done) /\ Whole(dest, schema, disk[Current], disk[Current].done)
    BY <1>3, <2>1 DEF Stands, DiskStands, NewestStands
  <2>3. CASE UNCHANGED <<dest, schema>>
    BY <2>2, <2>3
  <2>4. CASE proc.pc = "step" /\ run.done < Length /\ Writes(run.done + 1)
    <3>1. disk[Current].done = run.done
      BY <2>4 DEF Stands, MemoryStands
    <3> QED
      BY <1>2, <2>2, <2>4, <3>1, WritesKeep
  <2> QED
    BY <2>3, <2>4, CrashWrites
<1>4. DiskStands'
  BY <1>1, <1>3, DiskKept DEF Stands
<1> QED
  BY <1>1, <1>4, EndedStands DEF Stands

LEMMA NextStands == Typed /\ Stands /\ [Next]_vars => Stands'
<1> SUFFICES ASSUME Typed, Stands, [Next]_vars PROVE Stands'
  OBVIOUS
<1>0. mishaps \subseteq {"crash", "stale resume"} /\ proc \in Process
  BY DEF Typed, TypeOK
<1>1. CASE RefuseCapabilities
  <2>1. Ended /\ UNCHANGED <<dest, schema, disk, mishaps>> /\ proc.pc = "begin"
    BY <1>1 DEF RefuseCapabilities, testing
  <2>2. DiskStands'
    BY <1>0, <2>1, DiskKept DEF Stands, DiskStands, NewestStands, Newest
  <2> QED
    BY <2>1, <2>2, EndedStands DEF Stands
<1>2. CASE JudgeStops
  BY <1>2, CloseStands DEF JudgeStops, testing
<1>3. CASE Finish
  BY <1>3, CloseStands DEF Finish, testing
<1>4. CASE Prune \/ MoveSource \/ UNCHANGED vars
  <2>1. UNCHANGED <<dest, schema, disk, run, proc, cached, mishaps>>
    BY <1>4 DEF Prune, MoveSource, vars, testing, memory
  <2>2. DiskStands'
    BY <1>0, <2>1, DiskKept DEF Stands, DiskStands, NewestStands, Newest
  <2>3. MemoryStands'
    BY <2>1 DEF Stands, MemoryStands, RunStands, InOrder, Newest, Current
  <2> QED
    BY <2>2, <2>3 DEF Stands
<1> QED
  BY <1>1, <1>2, <1>3, <1>4, ExecuteStands, ResumeStands, CreateStands, StepStands,
     ContinueStands, CrashStands DEF Next

\* When the newest run is reported EXECUTED, every installation is a whole copy that uses
\* its TEST database, a whole import with TEST URLs of the very source the manifest
\* records: for every plan in the planner's order, whatever failed, crashed or moved.
THEOREM FinishedIsWhole == Spec => []FinishedMigrationIsWhole
<1>1. ASSUME Typed, Stands PROVE FinishedMigrationIsWhole
  <2> SUFFICES ASSUME Newest, Current > 0, disk[Current].status = "EXECUTED", NEW n \in Nodes
               PROVE  /\ dest[n].tree = "copied" /\ dest[n].names = "TEST"
                      /\ schema[n] = [holds |-> "test urls", from |-> disk[Current].resolved[n]]
    BY DEF FinishedMigrationIsWhole, Newest
  <2>1. Current \in 1..Current
    BY <1>1, CurrentType, PlanTypes
  <2>2. disk[Current].done = Length
    BY <1>1, <2>1 DEF Stands, DiskStands
  <2>3. Named(dest, Length) /\ Whole(dest, schema, disk[Current], Length)
    BY <1>1, <2>2 DEF Stands, DiskStands, NewestStands
  <2>4. \A name \in StepName : Done(name, n, Length)
    BY AllDone
  <2>5. /\ dest[n].tree = "copied" /\ dest[n].names = "TEST"
        /\ schema[n].holds = "test urls" /\ schema[n].from = disk[Current].resolved[n]
    BY <2>3, <2>4 DEF Named, Whole, StepName
  <2>6. schema[n] \in Schema
    BY <1>1 DEF Typed, TypeOK
  <2> QED
    BY <2>5, <2>6 DEF Schema
<1> QED
  BY <1>1, InitTyped, NextTyped, InitStands, NextStands, PTL DEF Spec

-----------------------------------------------------------------------------
(***************************************************************************)
(* Production.                                                             *)
(***************************************************************************)

Spared == ProductionSafeInOrder /\ ProbesAvoidProduction

\* A rewrite meets no tree that names PRODUCTION.
LEMMA SearchSpares ==
    ASSUME Typed, Stands, InOrder, NEW n \in Nodes, Facing("pending_search_replace", n)
    PROVE  dest[n].names = "TEST"
<1>1. proc.pc = "step" /\ run.done < Length
      /\ Plan[run.done + 1] = [name |-> "pending_search_replace", node |-> n]
  BY DEF Facing
<1>2. RunStands(run.done)
  BY <1>1 DEF Stands, MemoryStands
<1> QED
  BY <1>1, <1>2, SearchFaced

\* Nor does the probe after one.
LEMMA ProbeSpares ==
    ASSUME Typed, Stands, proc.pc = "judge", Judged, InOrder, contact'.names = "PRODUCTION"
    PROVE  contact'.after = "backup_existing_test"
<1> DEFINE step == Plan[run.done + 1]
<1>1. run.done < Length /\ run.done \in 0..Length /\ RunStands(run.done)
  BY DEF Stands, MemoryStands, Typed, TypeOK, Located, Manifest
<1>2. run.done + 1 \in 1..Length
  BY <1>1, PlanTypes
<1>3. step \in [name : StepName, node : Nodes]
  BY <1>2, PlanAssumption, ElementOfSeq DEF Length
<1>4. step.name \notin Suppressed /\ contact' = Bootstrap(step.node, step.name)
  BY DEF Judged, NoContact
<1>5. step.name \in {"backup_existing_test", "pending_search_replace"}
  BY <1>3, <1>4 DEF StepName, Suppressed, SuppressedAfterCopy
<1>6. contact'.names = dest[step.node].names /\ contact'.after = step.name
  BY <1>4 DEF Bootstrap
<1>7. step.name # "pending_search_replace"
  <2> SUFFICES ASSUME step.name = "pending_search_replace" PROVE FALSE
    OBVIOUS
  <2>1. step = [name |-> "pending_search_replace", node |-> step.node] /\ step.node \in Nodes
    BY <1>3
  <2>2. dest[step.node].names = "TEST"
    BY <1>1, <2>1, SearchFaced
  <2> QED
    BY <1>6, <2>2
<1> QED
  BY <1>5, <1>6, <1>7

LEMMA NextSpared ==
    ASSUME Typed, Stands, Spared, [Next]_vars
    PROVE  Spared'
<1>0. InOrder' => InOrder
  <2>1. mishaps \subseteq mishaps' /\ mishaps' \subseteq {"crash", "stale resume"}
    <3>1. Typed'
      BY NextTyped
    <3>2. mishaps' \subseteq {"crash", "stale resume"}
      BY <3>1 DEF Typed, TypeOK
    <3>3. ASSUME NEW n \in Nodes, Steps(n) PROVE mishaps \subseteq mishaps'
      BY <3>3, StepTyped
    <3>4. ASSUME NEW r \in 1..Current, Resume(r) PROVE mishaps \subseteq mishaps'
      BY <3>4 DEF Resume
    <3>5. ASSUME NEW replace \in BOOLEAN, Execute(replace) PROVE mishaps \subseteq mishaps'
      BY <3>5 DEF Execute
    <3>6. CASE \/ RefuseCapabilities \/ CreateRun \/ JudgeContinues \/ JudgeStops \/ Finish
               \/ Prune \/ MoveSource \/ UNCHANGED vars
      <4>1. mishaps' = mishaps
        BY <3>6 DEF vars, RefuseCapabilities, CreateRun, JudgeContinues, JudgeStops, Finish,
           Prune, MoveSource
      <4> QED
        BY <3>2, <4>1
    <3>7. CASE Crash
      BY <3>2, <3>7 DEF Crash
    <3> QED
      BY <3>2, <3>3, <3>4, <3>5, <3>7, <3>6 DEF Next
  <2> QED
    BY <2>1 DEF InOrder
<1>1. InOrder' => production' = "intact"
  <2> SUFFICES ASSUME InOrder' PROVE production' = "intact"
    OBVIOUS
  <2>1. InOrder /\ production = "intact"
    BY <1>0 DEF Spared, ProductionSafeInOrder
  <2>2. ASSUME NEW n \in Nodes, SearchReplace(n) \/ SearchReplaceFails(n)
        PROVE  production' = "intact"
    <3>1. dest[n].names = "TEST"
      BY <2>1, <2>2, SearchSpares DEF SearchReplace, SearchReplaceFails, AtStep
    <3> QED
      BY <2>1, <2>2, <3>1 DEF SearchReplace, SearchReplaceFails
  <2>3. ASSUME NEW n \in Nodes, Steps(n), ~ SearchReplace(n), ~ SearchReplaceFails(n)
        PROVE  production' = production
    BY <2>3 DEF Steps, BackupAbsent, BackupExisting, BackupFails, CopyFiles, CopyFilesRefused,
       CopyFilesFails, SnapshotSource, SnapshotSourceFails, CopyDatabase, CopyDatabaseRefused,
       CopyDatabaseBreaks, WriteTestDbConfig, StepRaises
  <2>4. CASE Crash
    <3>1. \A n \in Nodes : Facing("pending_search_replace", n) => dest[n].names = "TEST"
      BY <2>1, SearchSpares
    <3> QED
      BY <2>1, <2>4, <3>1 DEF Crash
  <2>5. CASE ~ Crash /\ ~ \E n \in Nodes : Steps(n)
    BY <2>1, <2>5 DEF Next, vars, outside, Execute, Resume, Begin, RefuseCapabilities, CreateRun,
       JudgeContinues, JudgeStops, Finish, Prune, MoveSource
  <2> QED
    BY <2>1, <2>2, <2>3, <2>4, <2>5
<1>2. ASSUME InOrder', contact'.names = "PRODUCTION"
      PROVE  contact'.after \in {"start", "backup_existing_test"}
  <2>1. contact' # NoContact
    BY <1>2 DEF NoContact
  <2>2. CASE RefuseCapabilities \/ CreateRun
    <3>1. contact' = Bootstrap(Root, "start")
      BY <2>1, <2>2 DEF RefuseCapabilities, CreateRun, FirstContact
    <3> QED
      BY <3>1 DEF Bootstrap
  <2>3. CASE JudgeContinues \/ JudgeStops
    BY <1>0, <1>2, <2>3, ProbeSpares DEF JudgeContinues, JudgeStops
  <2>4. CASE UNCHANGED vars
    BY <1>0, <1>2, <2>4 DEF vars, Spared, ProbesAvoidProduction
  <2>5. ASSUME NEW n \in Nodes, Steps(n)
        PROVE  FALSE
    BY <2>1, <2>5, StepTyped
  <2> QED
    BY <2>1, <2>2, <2>3, <2>4, <2>5 DEF Next, Execute, Resume, Begin, Finish, Crash, Prune, MoveSource
<1>3. ProductionSafeInOrder'
  BY <1>1 DEF ProductionSafeInOrder
<1>4. ProbesAvoidProduction'
  BY <1>2 DEF ProbesAvoidProduction
<1> QED
  BY <1>3, <1>4 DEF Spared

LEMMA InitSpared == Init => Spared
<1> SUFFICES ASSUME Init PROVE Spared
  OBVIOUS
<1>1. production = "intact" /\ contact.names = "nothing"
  BY DEF Init, NoContact
<1> QED
  BY <1>1 DEF Spared, ProductionSafeInOrder, ProbesAvoidProduction

\* Nothing writes to the production database (README 276-281), as long as no run that
\* crashed is resumed after a newer one: copied trees that still name it are never
\* rewritten through WP-CLI, whatever fails and is retried.
THEOREM ProductionSafe == Spec => []ProductionSafeInOrder
<1>1. Spared => ProductionSafeInOrder
  BY DEF Spared
<1> QED
  BY <1>1, InitTyped, NextTyped, InitStands, NextStands, InitSpared, NextSpared, PTL DEF Spec

\* Once copied, a tree is not bootstrapped before it names its TEST database
\* (runner.py 112-113), under the same condition.
THEOREM ProbesSafe == Spec => []ProbesAvoidProduction
<1>1. Spared => ProbesAvoidProduction
  BY DEF Spared
<1> QED
  BY <1>1, InitTyped, NextTyped, InitStands, NextStands, InitSpared, NextSpared, PTL DEF Spec


=============================================================================

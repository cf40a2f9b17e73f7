------------------------- MODULE PipelineRefinement -------------------------
(***************************************************************************)
(* Pipeline implements OrderedSteps: whatever is interrupted, resumed,     *)
(* resumed again from an older manifest or tried as a dry-run.             *)
(***************************************************************************)
EXTENDS PipelineProofs

Reports(l, k) == \E r \in 1..Current : disk[r].origin = l /\ k \in Executed(disk[r])

\* The durable history of the current run follows its memory, the step under way
\* excepted; before the run exists, its prefix is that of an older one.
Follows ==
    /\ proc.pc = "begin" =>
          \A k \in Executed(manifest) : Reports(manifest.origin, k)
    /\ proc.pc \in {"step", "probe", "verdict"} => disk[Current].origin = manifest.origin
    /\ proc.pc \in {"step", "verdict"} => Executed(disk[Current]) = Executed(manifest)
    /\ proc.pc = "probe" => Executed(disk[Current]) = Executed(manifest) \ {proc.at}
    /\ proc.pc \in {"probe", "verdict"} /\ manifest.dry_run => proc.at \notin Executed(manifest)

\* Run r reports step j and no verdict on it is pending.
Stands(r, j) ==
    /\ j \in Executed(disk[r])
    /\ ~ (r = Current /\ proc.pc = "verdict" /\ proc.at = j)

\* Whatever was performed after the first step rests on a report of the step
\* before it that is not taken back.
Anchored ==
    \A l \in Runs, j \in Steps :
        j + 1 \in performed[l] =>
            \E r \in 1..Current : disk[r].origin = l /\ Stands(r, j)

Linked == Typed /\ Histories /\ Follows /\ Anchored

Rec == [l \in Runs |-> RecordedOf(l)]

\* What a lineage records is what some manifest of it reports.
LEMMA RecordedIsReported ==
  ASSUME NEW l, NEW k
  PROVE  k \in RecordedOf(l) <=> Reports(l, k)
  BY DEF RecordedOf, Reports

\* Recording a result adds its step when it is EXECUTED.
LEMMA ExecutedRecord ==
  ASSUME manifest \in Manifest, NEW status \in StepStatus
  PROVE  Executed(Record(status)) =
            Executed(manifest) \cup (IF status = "EXECUTED" THEN {Len(manifest.steps) + 1} ELSE {})
  <1> DEFINE s == Append(manifest.steps, status)
             n == Len(manifest.steps)
  <1>1. manifest.steps \in Seq(StepStatus) /\ n \in Nat
    BY LenProperties DEF Manifest
  <1>2. Len(s) = n + 1 /\ (\A i \in 1..n : s[i] = manifest.steps[i]) /\ s[n + 1] = status
    BY <1>1, AppendProperties
  <1>3. Record(status).steps = s
    BY RecordType
  <1> HIDE DEF s, n
  <1>4. Executed(Record(status)) = {k \in 1..(n + 1) : s[k] = "EXECUTED"}
    BY <1>2, <1>3 DEF Executed, Counts
  <1>5. Executed(manifest) = {k \in 1..n : manifest.steps[k] = "EXECUTED"}
    BY DEF Executed, Counts, n
  <1>6. 1..(n + 1) = (1..n) \cup {n + 1}
    BY <1>1
  <1> QED
    BY <1>1, <1>2, <1>4, <1>5, <1>6 DEF n

\* Failing the last result removes its step.
LEMMA ExecutedAmend ==
  ASSUME NEW m \in Manifest
  PROVE  Executed(Amend(m, "FAILED")) = Executed(m) \ {Len(m.steps)}
  <1> DEFINE n == Len(m.steps)
             s == [m.steps EXCEPT ![n] = "FAILED"]
  <1>1. m.steps \in Seq(StepStatus) /\ n \in Nat /\ "FAILED" \in StepStatus
    BY LenProperties DEF Manifest, StepStatus
  <1>2. Len(s) = n
    BY <1>1, AmendType DEF Amend, Manifest
  <1>3. \A i \in 1..n : s[i] = IF i = n THEN "FAILED" ELSE m.steps[i]
    BY <1>1, ExceptSeq
  <1>4. Amend(m, "FAILED").steps = s
    BY DEF Amend, Manifest
  <1> HIDE DEF s
  <1> QED
    BY <1>1, <1>2, <1>3, <1>4 DEF Executed, Counts

\* Closing a manifest reports the same steps.
LEMMA ExecutedClose ==
  ASSUME NEW m \in Manifest, NEW status, NEW failed
  PROVE  /\ Executed(Close(m, status, failed)) = Executed(m)
         /\ Close(m, status, failed).origin = m.origin
  BY DEF Close, Manifest, Executed

\* A true history reports a performed prefix of the plan.
LEMMA ExecutedBacked ==
  ASSUME NEW m \in Manifest, NEW d \in 0..Length, Backed(m, d)
  PROVE  Executed(m) = 1..d /\ 1..d \subseteq performed[m.origin]
  <1>1. Len(m.steps) \in Nat
    BY LenProperties DEF Manifest
  <1> QED
    BY <1>1, ConstantTypes DEF Executed, Backed, CompletedPrefix

-----------------------------------------------------------------------------
\* Two ways a step can leave the disk: as it is, or with the current manifest
\* replaced.
LEMMA SameDisk ==
  ASSUME UNCHANGED disk
  PROVE  /\ \A l, k : Reports(l, k)' <=> Reports(l, k)
         /\ Rec' = Rec
  BY DEF Reports, Rec, RecordedOf, Executed, Current

\* Saving changes only what the current manifest reports.
LEMMA SavedDisk ==
  ASSUME Typed, Current \in Runs, NEW m \in Manifest, disk' = Saved(m),
         m.origin = disk[Current].origin
  PROVE  /\ Current' = Current
         /\ \A r \in 1..Current : disk'[r].origin = disk[r].origin
         /\ Executed(disk[Current])' = Executed(m)
         /\ \A r \in 1..Current : r # Current => Executed(disk[r])' = Executed(disk[r])
  <1>1. /\ Current' = Current
        /\ \A r \in 1..Current : disk'[r] = IF r = Current THEN m ELSE disk[r]
    BY SavedType DEF Typed, Current
  <1>2. Current \in 1..Current
    BY ConstantTypes DEF Runs
  <1> QED
    BY <1>1, <1>2 DEF Executed

\* Saving a manifest that reports the same steps leaves the records alone.
LEMMA SameRecords ==
  ASSUME Typed, Current \in Runs, NEW m \in Manifest, disk' = Saved(m),
         m.origin = disk[Current].origin, Executed(m) = Executed(disk[Current])
  PROVE  Rec' = Rec
  <1>1. \A r \in 1..Current : disk'[r].origin = disk[r].origin /\ Executed(disk[r])' = Executed(disk[r])
    BY SavedDisk
  <1>2. Current' = Current
    BY SavedDisk
  <1>3. \A l, k : Reports(l, k)' <=> Reports(l, k)
    BY <1>1, <1>2 DEF Reports
  <1>4. \A l \in Runs : RecordedOf(l)' = RecordedOf(l)
    BY <1>3 DEF RecordedOf, Reports
  <1> QED BY <1>4 DEF Rec

\* The relation between the two states that the abstract step is about.
AStep == Ordered!ONext \/ (UNCHANGED performed /\ Rec' = Rec)

\* A report no verdict can take back stays so while disk does not change.
LEMMA StandsKept ==
  ASSUME UNCHANGED disk, proc'.pc # "verdict" \/ proc' = proc,
         NEW r, NEW j, Stands(r, j)
  PROVE  Stands(r, j)'
  BY DEF Stands, Executed, Current

\* So do the reports performed steps rest on.
LEMMA AnchoredKept ==
  ASSUME Anchored, UNCHANGED <<disk, performed>>, proc'.pc # "verdict" \/ proc' = proc
  PROVE  Anchored'
  <1> SUFFICES ASSUME NEW l \in Runs, NEW j \in Steps, j + 1 \in performed[l]
               PROVE  \E r \in 1..Current : disk[r].origin = l /\ Stands(r, j)'
    BY DEF Anchored, Current
  <1> QED
    BY StandsKept DEF Anchored

\* A run settled: nothing it reported on disk is lost, its last step excepted when
\* the verdict takes that back.
LEMMA SettleLinked ==
  ASSUME Linked, Current \in Runs, NEW m \in Manifest, NEW status \in RunStatus,
         NEW failed \in 0..Length, Settle(m, status, failed),
         m.origin = disk[Current].origin,
         \/ Executed(m) = Executed(disk[Current])
         \/ /\ proc.pc = "verdict" /\ proc.at \in Steps
            /\ Executed(m) = Executed(disk[Current]) \ {proc.at}
  PROVE  Follows' /\ Anchored' /\ AStep
  <1> USE DEF Linked
  <1> DEFINE c == Close(m, status, failed)
  <1>1. /\ disk' = Saved(c) /\ c \in Manifest /\ Executed(c) = Executed(m)
        /\ c.origin = disk[Current].origin /\ UNCHANGED performed
    BY CloseType, ExecutedClose DEF Settle, history
  <1> HIDE DEF c
  <1>2. /\ Current' = Current
        /\ \A r \in 1..Current : disk'[r].origin = disk[r].origin
        /\ Executed(disk[Current])' = Executed(m)
        /\ \A r \in 1..Current : r # Current => Executed(disk[r])' = Executed(disk[r])
    BY <1>1, SavedDisk
  <1>3. proc'.pc = "idle"
    BY DEF Settle, Ended, Idle
  <1>4. Follows'
    BY <1>3 DEF Follows
  <1>5. ASSUME NEW r \in 1..Current, NEW j, Stands(r, j) PROVE Stands(r, j)'
    <2>1. j \in Executed(disk[r])'
      BY <1>2, <1>5 DEF Stands
    <2> QED BY <1>3, <2>1 DEF Stands
  <1>6. Anchored'
    <2> SUFFICES ASSUME NEW l \in Runs, NEW j \in Steps, j + 1 \in performed[l]
                 PROVE  \E r \in 1..Current : disk'[r].origin = l /\ Stands(r, j)'
      BY <1>1, <1>2 DEF Anchored
    <2> QED BY <1>2, <1>5 DEF Anchored
  <1>7. AStep
    <2>1. CASE Executed(m) = Executed(disk[Current])
      BY <1>1, <2>1, SameRecords DEF AStep
    <2>2. CASE /\ proc.pc = "verdict" /\ proc.at \in Steps
               /\ Executed(m) = Executed(disk[Current]) \ {proc.at}
               /\ proc.at \in Executed(disk[Current])
      <3> DEFINE k == proc.at
                 o == disk[Current].origin
      <3>0. o \in Runs /\ Current \in 1..Current
        <4>1. Current \in 1..Current
          BY ConstantTypes DEF Runs
        <4>2. disk[Current] \in Manifest
          BY <4>1, ElementOfSeq DEF Typed, TypeOK, Current
        <4> QED BY <4>1, <4>2 DEF Manifest
      <3>1. \A l, i : Reports(l, i)' <=>
               \/ Reports(l, i) /\ ~ (l = o /\ i = k)
               \/ \E r \in 1..Current : r # Current /\ disk[r].origin = l /\ i \in Executed(disk[r])
        BY <1>2, <2>2, <3>0 DEF Reports
      <3>2. CASE \E r \in 1..Current : r # Current /\ disk[r].origin = o /\ k \in Executed(disk[r])
        <4>1. \A l, i : Reports(l, i)' <=> Reports(l, i)
          BY <3>1, <3>2 DEF Reports
        <4>2. \A l \in Runs : RecordedOf(l)' = RecordedOf(l)
          BY <4>1 DEF RecordedOf, Reports
        <4> QED BY <1>1, <4>2 DEF AStep, Rec
      <3>3. CASE ~ \E r \in 1..Current : r # Current /\ disk[r].origin = o /\ k \in Executed(disk[r])
        <4>1. \A l, i : Reports(l, i)' <=> Reports(l, i) /\ ~ (l = o /\ i = k)
          <5> TAKE l, i
          <5>1. CASE l = o /\ i = k
            BY <3>1, <3>3, <5>1
          <5>2. CASE ~ (l = o /\ i = k)
            BY <3>1, <5>2 DEF Reports
          <5> QED BY <5>1, <5>2
        <4>2. \A l \in Runs : RecordedOf(l)' = IF l = o THEN RecordedOf(l) \ {k} ELSE RecordedOf(l)
          <5> TAKE l \in Runs
          <5>1. \A i : i \in RecordedOf(l)' <=> Reports(l, i)'
            BY DEF RecordedOf, Reports
          <5> QED BY <4>1, <5>1, RecordedIsReported
        <4>3. Rec' = [Rec EXCEPT ![o] = @ \ {k}]
          BY <4>2, <3>0 DEF Rec
        <4>4. k \in Rec[o]
          BY <2>2, <3>0, RecordedIsReported DEF Reports, Rec
        <4>5. k + 1 \notin performed[o]
          <5> SUFFICES ASSUME k + 1 \in performed[o] PROVE FALSE
            OBVIOUS
          <5>1. PICK r \in 1..Current : disk[r].origin = o /\ Stands(r, k)
            BY <2>2, <3>0 DEF Anchored
          <5> QED BY <2>2, <3>3, <5>1 DEF Stands
        <4>6. Ordered!Retract(o, k)
          BY <1>1, <4>3, <4>4, <4>5 DEF Ordered!Retract, Rec
        <4> QED
          BY <2>2, <3>0, <4>6 DEF AStep, Ordered!ONext, Steps
      <3> QED BY <3>2, <3>3
    <2>3. CASE proc.at \notin Executed(disk[Current]) /\ Executed(m) = Executed(disk[Current]) \ {proc.at}
      <3>1. Executed(m) = Executed(disk[Current])
        BY <2>3
      <3> QED BY <1>1, <3>1, SameRecords DEF AStep
    <2> QED BY <2>1, <2>2, <2>3
  <1> QED BY <1>4, <1>6, <1>7

\* The initial states map to the one of OrderedSteps.
LEMMA InitLinked == Init => Linked /\ Ordered!OInit
  <1> SUFFICES ASSUME Init PROVE Linked /\ Ordered!OInit
    OBVIOUS
  <1>1. Current = 0 /\ proc.pc = "idle"
    BY EmptySeq DEF Init, Current, Idle
  <1>2. Follows /\ Anchored
    BY <1>1 DEF Follows, Anchored, Init
  <1>3. \A l \in Runs : RecordedOf(l) = {}
    BY <1>1 DEF RecordedOf
  <1> QED
    BY <1>2, <1>3, InitTyped, InitHistories DEF Linked, Init, Ordered!OInit

\* Every step of the code is a step of the promise or leaves it alone.
LEMMA NextLinked == Linked /\ [Next]_vars => Follows' /\ Anchored' /\ AStep
  <1> SUFFICES ASSUME Linked, [Next]_vars PROVE Follows' /\ Anchored' /\ AStep
    OBVIOUS
  <1> USE DEF Linked
  <1>a. /\ manifest \in Manifest /\ proc \in Process
        /\ \A r \in 1..Current : disk[r] \in Manifest
    BY ElementOfSeq DEF Typed, TypeOK, Current
  <1>b. ASSUME UNCHANGED <<disk, performed>>, proc'.pc # "verdict" \/ proc' = proc
        PROVE  Anchored' /\ AStep
    BY <1>b, AnchoredKept, SameDisk DEF AStep
  <1>c. ASSUME UNCHANGED <<disk, manifest, proc, performed>>
        PROVE  Follows' /\ Anchored' /\ AStep
    <2>1. Follows'
      BY <1>c, SameDisk DEF Follows, Executed, Current, Reports
    <2> QED BY <1>b, <1>c, <2>1
  <1>d. ASSUME UNCHANGED <<disk, performed>>, Ended PROVE Follows' /\ Anchored' /\ AStep
    <2>1. proc'.pc = "idle"
      BY <1>d DEF Ended, Idle
    <2>2. Follows'
      BY <2>1 DEF Follows
    <2> QED BY <1>b, <1>d, <2>1, <2>2
  <1>1. CASE UNCHANGED vars
    BY <1>1, <1>c DEF vars, memory, history
  <1>2. ASSUME NEW dry \in BOOLEAN, Execute(dry) PROVE Follows' /\ Anchored' /\ AStep
    <2> DEFINE m == [Fresh(Current + 1) EXCEPT !.dry_run = dry]
    <2>1. m.steps = <<>>
      BY DEF Fresh
    <2>2. manifest' = m /\ proc'.pc = "begin" /\ UNCHANGED <<disk, performed>>
      BY <1>2 DEF Execute, Begin, history, Idle
    <2> HIDE DEF m
    <2>3. Executed(manifest)' = {}
      BY <2>1, <2>2, EmptySeq DEF Executed
    <2>4. Follows'
      BY <2>2, <2>3 DEF Follows
    <2> QED BY <1>b, <2>2, <2>4
  <1>3. ASSUME NEW r \in 1..Current, NEW dry \in BOOLEAN, Resume(r, dry)
        PROVE  Follows' /\ Anchored' /\ AStep
    <2>1. PICK d \in 0..Length : CompletedPrefix(disk[r], d) /\ Begin(Taken(disk[r], d, dry))
      BY <1>3 DEF Resume
    <2> DEFINE m == disk[r]
               t == Taken(m, d, dry)
    <2>2. /\ m \in Manifest /\ m.steps \in Seq(StepStatus) /\ d <= Len(m.steps)
          /\ Len(m.steps) \in Nat
      BY <1>a, <2>1, LenProperties DEF Manifest, CompletedPrefix
    <2>3. t.steps = SubSeq(m.steps, 1, d) /\ t.origin = m.origin
      BY <2>2 DEF Taken, Manifest
    <2>4. Len(t.steps) = d
      <3>1. \A i \in 1..d : m.steps[i] \in StepStatus
        BY <2>2, ElementOfSeq
      <3> QED
        BY <2>3, <3>1, SubSeqProperties
    <2>5. 1..d \subseteq Executed(m)
      BY <2>1, <2>2 DEF CompletedPrefix, Executed
    <2>6. manifest' = t /\ proc'.pc = "begin" /\ UNCHANGED <<disk, performed>>
      BY <2>1 DEF Begin, history, Idle
    <2> HIDE DEF t, m
    <2>7. \A k \in Executed(manifest)' : Reports(manifest'.origin, k)
      BY <2>3, <2>4, <2>5, <2>6 DEF Executed, Reports, m
    <2>8. \A l, k : Reports(l, k)' <=> Reports(l, k)
      BY <2>6, SameDisk
    <2>9. Follows'
      BY <2>6, <2>7, <2>8 DEF Follows
    <2> QED BY <1>b, <2>6, <2>9
  <1>4. CASE RefuseCapabilities
    BY <1>4, <1>d DEF RefuseCapabilities, history
  <1>5. CASE CreateRun
    <2>1. /\ manifest' = manifest /\ disk' = Append(disk, manifest) /\ performed' = performed
          /\ proc.pc = "begin" /\ proc'.pc = "step" /\ proc'.at = proc.at
      BY <1>5, <1>a DEF CreateRun, history, Process
    <2>2. /\ Current' = Current + 1 /\ Current \in Nat
          /\ \A r \in 1..Current : disk'[r] = disk[r]
          /\ disk'[Current + 1] = manifest
      BY <1>a, <2>1, AppendProperties, LenProperties DEF Typed, TypeOK, Current
    <2>3. Follows'
      BY <2>1, <2>2 DEF Follows, Executed
    <2>4. \A l, k : Reports(l, k)' <=> Reports(l, k)
      <3> TAKE l, k
      <3>1. ASSUME Reports(l, k) PROVE Reports(l, k)'
        BY <2>2, <3>1 DEF Reports, Executed
      <3>2. ASSUME Reports(l, k)' PROVE Reports(l, k)
        <4>1. PICK r \in 1..(Current + 1) : disk'[r].origin = l /\ k \in Executed(disk[r])'
          BY <2>2, <3>2 DEF Reports
        <4>2. CASE r = Current + 1
          <5>1. manifest.origin = l /\ k \in Executed(manifest)
            BY <2>2, <4>1, <4>2 DEF Executed
          <5> QED BY <2>1, <5>1 DEF Follows
        <4>3. CASE r \in 1..Current
          BY <2>2, <4>1, <4>3 DEF Reports, Executed
        <4> QED BY <2>2, <4>2, <4>3
      <3> QED BY <3>1, <3>2
    <2>5. Rec' = Rec
      BY <2>4 DEF Rec, RecordedOf, Reports
    <2>6. Anchored'
      <3>1. ASSUME NEW r \in 1..Current, NEW j, Stands(r, j) PROVE Stands(r, j)'
        BY <2>1, <2>2, <3>1 DEF Stands, Executed
      <3> SUFFICES ASSUME NEW l \in Runs, NEW j \in Steps, j + 1 \in performed[l]
                   PROVE  \E r \in 1..(Current + 1) : disk'[r].origin = l /\ Stands(r, j)'
        BY <2>1, <2>2 DEF Anchored
      <3> QED BY <2>2, <3>1 DEF Anchored
    <2> QED BY <2>1, <2>3, <2>5, <2>6 DEF AStep
  <1>6. ASSUME NEW k \in Steps, StepPlanned(k) PROVE Follows' /\ Anchored' /\ AStep
    <2>1. /\ manifest' = Record("PLANNED") /\ UNCHANGED <<disk, performed>>
          /\ proc.pc = "step" /\ proc'.pc = "step"
      BY <1>6, <1>a DEF StepPlanned, Advance, AtStep, history, Process
    <2>2. Executed(Record("PLANNED")) = Executed(manifest)
      BY <1>a, ExecutedRecord DEF StepStatus
    <2>3. Record("PLANNED").origin = manifest.origin
      BY <1>a DEF Record, Manifest
    <2>4. Executed(manifest)' = Executed(manifest)
      BY <2>1, <2>2 DEF Executed
    <2>5. Follows'
      BY <2>1, <2>3, <2>4 DEF Follows, Executed, Current
    <2> QED BY <1>b, <2>1, <2>5
  <1>7. ASSUME NEW k \in Steps, StepSucceeds(k) PROVE Follows' /\ Anchored' /\ AStep
    <2> DEFINE status == ExpectedStatus(manifest.dry_run)
               o == manifest.origin
    <2>1. /\ proc.pc = "step" /\ proc.at = k /\ Len(manifest.steps) = k - 1
          /\ proc'.pc = "probe" /\ proc'.at = k /\ disk' = disk
          /\ Current \in Runs /\ o \in Runs
      BY <1>7, <1>a DEF StepSucceeds, AtStep, Typed, Located, Process, Manifest
    <2>2. /\ manifest'.steps = Record(status).steps /\ manifest'.origin = o
          /\ manifest'.dry_run = manifest.dry_run
      BY <1>7, <1>a DEF StepSucceeds, Record, Manifest
    <2>3. Executed(manifest)' = Executed(manifest) \cup (IF manifest.dry_run THEN {} ELSE {k})
      <3>1. Executed(manifest)' = Executed(Record(status))
        BY <2>2 DEF Executed
      <3>2. status \in StepStatus /\ (status = "EXECUTED" <=> ~ manifest.dry_run)
        BY DEF ExpectedStatus, StepStatus
      <3>3. (k - 1) + 1 = k
        BY ConstantTypes DEF Steps
      <3> HIDE DEF status
      <3> QED BY <1>a, <2>1, <3>1, <3>2, <3>3, ExecutedRecord
    <2>4. k \notin Executed(manifest)
      BY <2>1, ConstantTypes DEF Executed, Steps
    <2>5. Follows'
      <3>1. Executed(disk[Current])' = Executed(disk[Current]) /\ disk'[Current'] = disk[Current]
        BY <2>1 DEF Executed, Current
      <3>2. Executed(disk[Current])' = Executed(manifest)' \ {k}
        BY <2>1, <2>3, <2>4, <3>1 DEF Follows
      <3> QED BY <2>1, <2>2, <2>3, <2>4, <3>1, <3>2 DEF Follows
    <2>6. CASE manifest.dry_run
      <3>1. UNCHANGED performed
        BY <1>7, <2>6 DEF StepSucceeds, history
      <3> QED BY <1>b, <2>1, <2>5, <3>1
    <2>7. CASE ~ manifest.dry_run
      <3>1. performed' = [performed EXCEPT ![o] = @ \cup {k}]
        BY <1>7, <2>7 DEF StepSucceeds
      <3>2. /\ disk[Current].origin = o /\ Executed(disk[Current]) = 1..(k - 1)
            /\ Current \in 1..Current
        <4>1. Backed(manifest, k - 1) /\ k - 1 \in 0..Length
          BY <2>1, <2>7, ConstantTypes DEF Histories, MemoryHistory, Steps
        <4>2. Executed(manifest) = 1..(k - 1)
          BY <1>a, <4>1, ExecutedBacked
        <4> QED BY <2>1, <4>2, ConstantTypes DEF Follows, Runs
      <3>3. Rec' = Rec
        BY <2>1, SameDisk
      <3>4. 1..(k - 1) \subseteq Rec[o]
        BY <2>1, <3>2, RecordedIsReported DEF Rec, Reports
      <3>5. Ordered!Perform(o, k)
        BY <3>1, <3>3, <3>4 DEF Ordered!Perform, Ordered!Before, Rec
      <3>6. AStep
        BY <2>1, <3>5 DEF AStep, Ordered!ONext, Steps
      <3>7. Anchored'
        <4> SUFFICES ASSUME NEW l \in Runs, NEW j \in Steps, j + 1 \in performed'[l]
                     PROVE  \E r \in 1..Current : disk[r].origin = l /\ Stands(r, j)'
          BY <2>1 DEF Anchored, Current
        <4>1. CASE j + 1 \in performed[l]
          BY <2>1, <4>1, StandsKept DEF Anchored
        <4>2. CASE j + 1 \notin performed[l]
          <5>1. l = o /\ j + 1 = k
            BY <2>1, <3>1, <4>2 DEF Typed, TypeOK
          <5>2. j \in Executed(disk[Current])
            BY <3>2, <5>1, ConstantTypes DEF Steps
          <5>3. Stands(Current, j)'
            BY <2>1, <5>2 DEF Stands, Executed, Current
          <5>4. disk[Current].origin = l /\ Current \in 1..Current
            BY <3>2, <5>1
          <5>5. Stands(Current, j)' => \E r \in 1..Current : disk[r].origin = l /\ Stands(r, j)'
            BY <2>1, <5>4 DEF Stands, Current, Executed
          <5> QED BY <5>3, <5>5
        <4> QED BY <4>1, <4>2
      <3> QED BY <2>5, <3>6, <3>7
    <2> QED BY <2>6, <2>7
  <1>8. ASSUME NEW k \in Steps, StepReportsFailure(k) PROVE Follows' /\ Anchored' /\ AStep
    <2>1. /\ proc.pc = "step" /\ proc.at = k /\ Len(manifest.steps) = k - 1
          /\ proc'.pc = "probe" /\ proc'.at = k /\ UNCHANGED <<disk, performed>>
          /\ manifest' = Record("FAILED")
      BY <1>8, <1>a DEF StepReportsFailure, AtStep, Typed, Located, Process, history
    <2>2. /\ Executed(Record("FAILED")) = Executed(manifest)
          /\ Record("FAILED").origin = manifest.origin
      BY <1>a, ExecutedRecord DEF StepStatus, Record, Manifest
    <2>3. Executed(manifest)' = Executed(manifest)
      BY <2>1, <2>2 DEF Executed
    <2>4. k \notin Executed(manifest)
      BY <2>1, ConstantTypes DEF Executed, Steps
    <2>5. Follows'
      BY <2>1, <2>2, <2>3, <2>4 DEF Follows, Executed, Current
    <2> QED BY <1>b, <2>1, <2>5
  <1>9. ASSUME NEW k \in Steps, StepRaises(k) PROVE Follows' /\ Anchored' /\ AStep
    <2>1. Record("FAILED") \in Manifest /\ k \in 0..Length /\ "UPDATE_FAILED_PRESERVED" \in RunStatus
      BY <1>a, RecordType, ConstantTypes DEF StepStatus, RunStatus, Steps
    <2>2. /\ Settle(Record("FAILED"), "UPDATE_FAILED_PRESERVED", k)
          /\ Current \in Runs /\ proc.pc = "step"
      BY <1>9 DEF StepRaises, AtStep, Typed, Located
    <2>3. /\ Executed(Record("FAILED")) = Executed(disk[Current])
          /\ Record("FAILED").origin = disk[Current].origin
      <3>1. Executed(Record("FAILED")) = Executed(manifest)
        BY <1>a, ExecutedRecord DEF StepStatus
      <3>2. Record("FAILED").origin = manifest.origin
        BY <1>a DEF Record, Manifest
      <3> QED BY <2>2, <3>1, <3>2 DEF Follows
    <2> QED BY <2>1, <2>2, <2>3, SettleLinked
  <1>10. CASE Checkpoint
    <2> DEFINE o == manifest.origin
    <2>1. PICK m \in {manifest, Amend(manifest, "FAILED")} :
            manifest' = m /\ disk' = Saved(m)
      BY <1>10 DEF Checkpoint
    <2>2. /\ proc.pc = "probe" /\ proc'.pc = "verdict" /\ proc'.at = proc.at
          /\ proc.at \in Steps /\ Len(manifest.steps) = proc.at
          /\ Current \in Runs /\ Current \in 1..Current /\ o \in Runs
          /\ UNCHANGED performed
      <3>1. /\ proc.pc = "probe" /\ proc'.pc = "verdict" /\ proc'.at = proc.at
            /\ UNCHANGED performed
        BY <1>10, <1>a DEF Checkpoint, Process
      <3>2. proc.at \in Steps /\ Len(manifest.steps) = proc.at /\ Current \in Runs
        BY <3>1 DEF Typed, Located
      <3>3. Current \in 1..Current
        BY <3>2, ConstantTypes DEF Runs
      <3>4. o \in Runs
        BY <1>a DEF Manifest
      <3> QED BY <3>1, <3>2, <3>3, <3>4
    <2>3. /\ m \in Manifest /\ m.origin = o /\ m.dry_run = manifest.dry_run
          /\ m.origin = disk[Current].origin
      <3>1. /\ Amend(manifest, "FAILED").origin = manifest.origin
            /\ Amend(manifest, "FAILED").dry_run = manifest.dry_run
        BY <1>a DEF Amend, Manifest
      <3>2. Amend(manifest, "FAILED") \in Manifest
        BY <1>a, AmendType DEF StepStatus
      <3> QED BY <1>a, <2>1, <2>2, <3>1, <3>2 DEF Follows
    <2>4. Executed(m) \in {Executed(manifest), Executed(manifest) \ {proc.at}}
      BY <1>a, <2>1, <2>2, ExecutedAmend
    <2>5. /\ Current' = Current
          /\ \A r \in 1..Current : disk'[r].origin = disk[r].origin
          /\ Executed(disk[Current])' = Executed(m)
          /\ \A r \in 1..Current : r # Current => Executed(disk[r])' = Executed(disk[r])
      BY <2>1, <2>2, <2>3, SavedDisk
    <2>6. Executed(manifest)' = Executed(m)
      BY <2>1 DEF Executed
    <2>7. Executed(disk[Current]) = Executed(manifest) \ {proc.at}
      BY <2>2 DEF Follows
    <2>8. Follows'
      BY <2>1, <2>2, <2>3, <2>4, <2>5, <2>6 DEF Follows
    <2>9. Anchored'
      <3>1. ASSUME NEW r \in 1..Current, NEW j, Stands(r, j) PROVE Stands(r, j)'
        <4>1. CASE r = Current
          <5>1. j \in Executed(manifest) /\ j # proc.at
            BY <2>7, <3>1, <4>1 DEF Stands
          <5> QED BY <2>2, <2>4, <2>5, <4>1, <5>1 DEF Stands
        <4>2. CASE r # Current
          BY <2>5, <3>1, <4>2 DEF Stands
        <4> QED BY <4>1, <4>2
      <3> SUFFICES ASSUME NEW l \in Runs, NEW j \in Steps, j + 1 \in performed[l]
                   PROVE  \E r \in 1..Current : disk'[r].origin = l /\ Stands(r, j)'
        BY <2>2, <2>5 DEF Anchored
      <3> QED BY <2>5, <3>1 DEF Anchored
    <2>10. CASE proc.at \notin Executed(m)
      <3>1. Executed(m) = Executed(disk[Current])
        BY <2>4, <2>7, <2>10
      <3>2. Rec' = Rec
        BY <2>1, <2>2, <2>3, <3>1, SameRecords
      <3> QED BY <2>2, <2>8, <2>9, <3>2 DEF AStep
    <2>11. CASE proc.at \in Executed(m)
      <3> DEFINE k == proc.at
      <3>1. Executed(m) = Executed(manifest) /\ k \in Executed(manifest) /\ ~ manifest.dry_run
        BY <2>2, <2>4, <2>11 DEF Follows
      <3>2. Backed(manifest, k)
        <4>1. k \in 0..Length /\ k - 1 \in 0..Length /\ k \notin 1..(k - 1)
          BY <2>2, ConstantTypes DEF Steps
        <4>2. ~ Backed(manifest, k - 1)
          BY <1>a, <3>1, <4>1, ExecutedBacked
        <4> QED BY <2>2, <3>1, <4>2 DEF Histories, MemoryHistory
      <3>3. Executed(manifest) = 1..k /\ 1..k \subseteq performed[o]
        <4>1. k \in 0..Length
          BY <2>2, ConstantTypes DEF Steps
        <4> QED BY <1>a, <3>2, <4>1, ExecutedBacked
      <3>4. k \in performed[o] /\ (1..k) \ {k} = 1..(k - 1)
        BY <2>2, <3>3, ConstantTypes DEF Steps
      <3>5. 1..(k - 1) \subseteq Rec[o]
        BY <2>2, <2>3, <2>7, <3>3, <3>4, RecordedIsReported DEF Rec, Reports
      <3>6. \A l, i : Reports(l, i)' <=> Reports(l, i) \/ (l = o /\ i = k)
        <4> TAKE l, i
        <4>1. Executed(disk[Current])' = Executed(disk[Current]) \cup {k}
          BY <2>5, <2>7, <3>1
        <4> QED BY <2>2, <2>3, <2>5, <4>1 DEF Reports
      <3>7. \A l \in Runs :
              RecordedOf(l)' = IF l = o THEN RecordedOf(l) \cup {k} ELSE RecordedOf(l)
        <4> TAKE l \in Runs
        <4>1. \A i : i \in RecordedOf(l)' <=> Reports(l, i)'
          BY DEF RecordedOf, Reports
        <4> QED BY <3>6, <4>1, RecordedIsReported
      <3>8. Rec' = [Rec EXCEPT ![o] = @ \cup {k}]
        BY <2>2, <3>7 DEF Rec
      <3>9. Ordered!RecordStep(o, k)
        BY <2>2, <3>4, <3>5, <3>8 DEF Ordered!RecordStep, Ordered!Before, Rec
      <3> QED
        BY <2>2, <2>8, <2>9, <3>9 DEF AStep, Ordered!ONext, Steps
    <2> QED BY <2>10, <2>11
  <1>11. CASE VerdictContinues
    <2>1. /\ proc.pc = "verdict" /\ UNCHANGED <<disk, performed>> /\ proc'.pc = "step"
      BY <1>11, <1>a DEF VerdictContinues, Process, history
    <2>2. manifest'.steps = manifest.steps /\ manifest'.origin = manifest.origin
      BY <1>11, <1>a DEF VerdictContinues, Manifest
    <2>3. Follows'
      BY <2>1, <2>2 DEF Follows, Executed, Current
    <2> QED BY <1>b, <2>1, <2>3
  <1>12. CASE VerdictStops
    <2>1. /\ Settle(Amend(manifest, "FAILED"), "UPDATE_FAILED_PRESERVED", proc.at)
          /\ proc.pc = "verdict" /\ proc.at \in Steps
          /\ Len(manifest.steps) = proc.at /\ Current \in Runs
      BY <1>12 DEF VerdictStops, Typed, Located
    <2>2. /\ Amend(manifest, "FAILED") \in Manifest /\ proc.at \in 0..Length
          /\ "UPDATE_FAILED_PRESERVED" \in RunStatus
      BY <1>a, <2>1, AmendType, ConstantTypes DEF StepStatus, RunStatus, Steps
    <2>3. /\ Executed(Amend(manifest, "FAILED")) = Executed(disk[Current]) \ {proc.at}
          /\ Amend(manifest, "FAILED").origin = disk[Current].origin
      <3>1. Executed(Amend(manifest, "FAILED")) = Executed(manifest) \ {proc.at}
        BY <1>a, <2>1, ExecutedAmend
      <3>2. Amend(manifest, "FAILED").origin = manifest.origin
        BY <1>a DEF Amend, Manifest
      <3> QED BY <2>1, <3>1, <3>2 DEF Follows
    <2> QED BY <2>1, <2>2, <2>3, SettleLinked
  <1>13. CASE Finish
    <2>1. /\ Settle(manifest, FinalStatus(manifest), 0) /\ Current \in Runs
          /\ proc.pc = "step" /\ FinalStatus(manifest) \in RunStatus /\ 0 \in 0..Length
      BY <1>13, <1>a, FinalStatusType, ConstantTypes DEF Finish, Typed, Located
    <2> QED BY <1>a, <2>1, SettleLinked DEF Follows
  <1>14. CASE Crash
    BY <1>14, <1>d DEF Crash, history
  <1>15. CASE EditFiles
    BY <1>15, <1>c DEF EditFiles, memory, history
  <1>16. CASE EditConfig
    BY <1>16, <1>c DEF EditConfig, memory, history
  <1> QED
    BY <1>1, <1>2, <1>3, <1>4, <1>5, <1>6, <1>7, <1>8, <1>9, <1>10, <1>11, <1>12, <1>13,
       <1>14, <1>15, <1>16 DEF Next, Starts, Work, RunsStep

\* The invariants of the mapping hold in every reachable state.
LEMMA AlwaysLinked == Spec => []Linked
  <1>1. Init => Linked
    BY InitLinked
  <1>2. Linked /\ [Next]_vars => Linked'
    BY NextTyped, NextHistories, NextLinked DEF Linked
  <1> QED BY <1>1, <1>2, PTL DEF Spec

\* Runs, resumes, stale resumes, dry-runs, failures and crashes together perform
\* and report the steps of a plan as OrderedSteps promises.
THEOREM PipelineKeepsOrder == Spec => KeepsOrder
  <1>1. Init => Ordered!OInit
    BY InitLinked
  <1>2. Linked /\ [Next]_vars => [Ordered!ONext]_(Ordered!ovars)
    BY NextLinked DEF AStep, Rec, Ordered!ovars
  <1> QED
    BY <1>1, <1>2, AlwaysLinked, PTL DEF Spec, KeepsOrder, Ordered!OrderedSpec

Promise ==
    INSTANCE OrderedStepsProofs WITH
        Lineage <- Runs, StepCount <- Length,
        done <- performed, recorded <- [l \in Runs |-> RecordedOf(l)]

\* Hence the durable histories of a lineage never miss more than the one step
\* that was under way.
THEOREM AtMostOneStaysUnrecorded == Spec => []AtMostOneUnrecorded
  <1>1. Length \in Nat \ {0}
    BY ConstantTypes
  <1>2. Promise!OrderedSpec => []Promise!AtMostOneUnrecorded
    BY <1>1, Promise!OneUnrecorded
  <1>3. Ordered!OInit => Promise!OInit
    BY DEF Ordered!OInit, Promise!OInit
  <1>4. [Ordered!ONext]_(Ordered!ovars) => [Promise!ONext]_(Promise!ovars)
    BY DEF Ordered!ONext, Promise!ONext, Ordered!ovars, Promise!ovars,
           Ordered!Perform, Promise!Perform, Ordered!RecordStep, Promise!RecordStep,
           Ordered!Retract, Promise!Retract, Ordered!Before, Promise!Before
  <1>5. Promise!AtMostOneUnrecorded => AtMostOneUnrecorded
    BY DEF Promise!AtMostOneUnrecorded, AtMostOneUnrecorded, Ordered!AtMostOneUnrecorded
  <1> QED
    BY <1>2, <1>3, <1>4, <1>5, PipelineKeepsOrder, PTL
       DEF KeepsOrder, Ordered!OrderedSpec, Promise!OrderedSpec

=============================================================================

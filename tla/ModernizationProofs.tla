------------------------- MODULE ModernizationProofs -------------------------
(***************************************************************************)
(* Proofs about Modernization, for every policy, every set of runtimes and *)
(* of widgets, and every number of runs and of changes beside them.        *)
(***************************************************************************)
EXTENDS Modernization, SequenceTheorems, WellFoundedInduction, TLAPS

\* A sequence of something.
IsSeq(d) == \E S : d \in Seq(S)

LEMMA SeqGrows ==
  ASSUME NEW d, IsSeq(d), NEW m
  PROVE  /\ IsSeq(Append(d, m)) /\ Len(Append(d, m)) = Len(d) + 1
         /\ Append(d, m)[Len(d) + 1] = m
         /\ \A i \in 1..Len(d) : Append(d, m)[i] = d[i]
         /\ Len(d) \in Nat
  <1>1. PICK S : d \in Seq(S)
    BY DEF IsSeq
  <1>2. d \in Seq(S \cup {m})
    BY <1>1, SeqMonotonic
  <1> QED BY <1>2, AppendProperties, LenProperties DEF IsSeq

LEMMA SeqChanges ==
  ASSUME NEW d, IsSeq(d), NEW m, Len(d) >= 1
  PROVE  /\ IsSeq([d EXCEPT ![Len(d)] = m]) /\ Len([d EXCEPT ![Len(d)] = m]) = Len(d)
         /\ \A i \in 1..Len(d) : [d EXCEPT ![Len(d)] = m][i] = IF i = Len(d) THEN m ELSE d[i]
  <1>1. PICK S : d \in Seq(S)
    BY DEF IsSeq
  <1>2. d \in Seq(S \cup {m}) /\ Len(d) \in 1..Len(d)
    BY <1>1, SeqMonotonic, LenProperties
  <1> QED BY <1>2, ExceptSeq, LenProperties DEF IsSeq

\* The fields of a manifest.
Shaped(m) == DOMAIN m = {"status", "plan", "done", "restore", "snapshot", "begun", "print"}

\* What may be restored is what this invocation was asked: the manifest in memory has its
\* word, and no other comes to the restoration.
Authorised ==
    /\ IsSeq(disk) /\ \A r \in 1..Current : Shaped(disk[r])
    /\ Shaped(run) /\ DOMAIN proc = {"pc", "asked", "inspected"}
    /\ proc.pc # "idle" =>
          /\ Current >= 1
          /\ run.restore = proc.asked
    /\ proc.pc = "restoring" => proc.asked

LEMMA InitAuthorised ==
  ASSUME Init
  PROVE  Authorised
  <1>1. IsSeq(<<>>)
    BY EmptySeq DEF IsSeq
  <1> QED BY <1>1 DEF Init, Authorised, NoRun, Idle, Shaped, Current

\* A run or a resume begins.
LEMMA BeginAuthorised ==
  ASSUME Authorised, NEW m, NEW restore \in BOOLEAN, Begin(m, restore),
         Shaped(m), m.restore = restore
  PROVE  Authorised'
  <1>1. /\ IsSeq(disk') /\ Len(disk') = Current + 1 /\ disk'[Current + 1] = m
        /\ \A r \in 1..Current : disk'[r] = disk[r]
        /\ Current \in Nat
    BY SeqGrows DEF Begin, Authorised, Current
  <1>2. \A r \in 1..(Current + 1) : Shaped(disk'[r])
    BY <1>1 DEF Authorised
  <1>3. /\ run' = m /\ DOMAIN proc' = {"pc", "asked", "inspected"}
        /\ proc'.pc = "facing" /\ proc'.asked = restore
    BY DEF Begin
  <1> QED BY <1>1, <1>2, <1>3 DEF Authorised, Current

LEMMA OperatorAuthorised ==
  ASSUME Authorised, NEW restore \in BOOLEAN,
         Execute(restore) \/ \E r \in 1..Current : Resume(r, restore) \/ ResumeWhole(r, restore)
  PROVE  Authorised'
  <1>1. CASE Execute(restore)
    <2> DEFINE m == [NoRun EXCEPT !.plan = Len(plans) + 1, !.restore = restore]
    <2>1. Shaped(m) /\ m.restore = restore
      BY DEF NoRun, Shaped
    <2> QED BY <1>1, <2>1, BeginAuthorised DEF Execute
  <1>2. CASE \E r \in 1..Current : Resume(r, restore)
    <2>1. PICK r \in 1..Current : Resume(r, restore)
      BY <1>2
    <2> DEFINE m == Resumed(r, restore)
    <2>2. Begin(m, restore)
      BY <2>1 DEF Resume
    <2>3. Shaped(m) /\ m.restore = restore
      BY DEF Shaped, Authorised, Resumed, Restore
    <2> QED BY <2>2, <2>3, BeginAuthorised
  <1>3. CASE \E r \in 1..Current : ResumeWhole(r, restore)
    <2>1. PICK r \in 1..Current : ResumeWhole(r, restore)
      BY <1>3
    <2>2. PICK m : Shaped(m) /\ disk' = Append(disk, m)
      BY <2>1 DEF ResumeWhole, Resumed, Executed, Shaped, Authorised
    <2>3. /\ IsSeq(disk') /\ Len(disk') = Current + 1 /\ disk'[Current + 1] = m
          /\ \A i \in 1..Current : disk'[i] = disk[i]
          /\ Current \in Nat
      BY <2>2, SeqGrows DEF Authorised, Current
    <2>4. \A i \in 1..(Current + 1) : Shaped(disk'[i])
      BY <2>2, <2>3 DEF Authorised
    <2>5. run' = run /\ proc' = proc /\ proc.pc = "idle"
      BY <2>1 DEF ResumeWhole
    <2> QED BY <2>3, <2>4, <2>5 DEF Authorised, Current
  <1> QED BY <1>1, <1>2, <1>3

\* The process goes on in its step with its manifest, or with one that authorises the same.
LEMMA GoAuthorised ==
  ASSUME Authorised, proc.pc # "idle", disk' = disk, NEW pc, Go(pc),
         Shaped(run'), run'.restore = run.restore,
         pc = "restoring" => proc.asked
  PROVE  Authorised'
  <1>1. DOMAIN proc' = DOMAIN proc /\ proc'.pc = pc /\ proc'.asked = proc.asked
    BY DEF Go, Authorised
  <1> QED BY <1>1 DEF Authorised, Current

LEMMA SavedShaped ==
  ASSUME Authorised, proc.pc # "idle", NEW m, Shaped(m), disk' = disk \/ disk' = Saved(m)
  PROVE  /\ IsSeq(disk') /\ Len(disk') = Len(disk)
         /\ \A r \in 1..Len(disk) : Shaped(disk'[r])
  BY SeqChanges DEF Authorised, Saved, Current

LEMMA EndAuthorised ==
  ASSUME Authorised, proc.pc # "idle", NEW m, Shaped(m), disk' = disk \/ disk' = Saved(m),
         run' = NoRun, proc' = Idle
  PROVE  Authorised'
  BY SavedShaped DEF Authorised, NoRun, Idle, Shaped, Current

LEMMA ManifestsShaped ==
  ASSUME Authorised
  PROVE  /\ Shaped(Closed(run)) /\ Shaped(Counted) /\ Shaped(Finished)
         /\ Counted.restore = run.restore
         /\ Shaped(Begun) /\ Begun.restore = run.restore
  BY DEF Authorised, Shaped, Closed, Counted, Finished, Executed, Begun

\* Each step of the process.
LEMMA ProcessAuthorised ==
  ASSUME Authorised, Process
  PROVE  Authorised'
  <1>1. ASSUME NEW pc, proc.pc # "idle", disk' = disk, Go(pc), pc # "restoring",
               run' = run \/ run' = Begun
        PROVE  Authorised'
    BY <1>1, GoAuthorised, ManifestsShaped DEF Authorised
  <1>2. ASSUME NEW pc, proc.pc # "idle", disk' = disk, Through(pc), pc # "restoring",
               run' = run \/ run' = Begun
        PROVE  Authorised'
    <2>1. PICK next \in {pc, "broken"} : Go(next)
      BY <1>2 DEF Through
    <2> QED BY <1>1, <1>2, <2>1
  <1>3. CASE Preflight
    BY <1>1, <1>3 DEF Preflight, Facing
  <1>4. CASE SearchReplace
    BY <1>2, <1>4 DEF SearchReplace, Facing
  <1>5. CASE SnapshotWidgets
    <2>1. Shaped(run') /\ run'.restore = run.restore
      BY <1>5 DEF SnapshotWidgets, Authorised, Shaped
    <2> QED BY <1>5, <2>1, GoAuthorised DEF SnapshotWidgets, Facing
  <1>6. CASE CheckVersion
    BY <1>1, <1>6 DEF CheckVersion, Facing, AfterVersion
  <1>7. CASE CoreUpdate
    BY <1>2, <1>7 DEF CoreUpdate, Commands, Within
  <1>8. CASE CoreUpdateDb
    BY <1>2, <1>8 DEF CoreUpdateDb, Commands, Within
  <1>9. CASE VerifyVersion
    BY <1>1, <1>9 DEF VerifyVersion, Commands, Within
  <1>10. CASE UpdatePart
    BY <1>2, <1>10 DEF UpdatePart, Facing
  <1>11. CASE ValidateWidgets
    <2>1. /\ proc.pc = "facing" /\ disk' = disk /\ run' = run /\ Go(AfterComparison)
          /\ Same \/ run.restore
      BY <1>11 DEF ValidateWidgets, Facing
    <2>2. CASE Same
      BY <1>1, <2>1, <2>2 DEF AfterComparison
    <2>3. CASE ~ Same
      <3>1. proc.asked /\ AfterComparison = "restoring"
        BY <2>1, <2>3 DEF Authorised, AfterComparison
      <3> QED BY <2>1, <3>1, GoAuthorised DEF Authorised
    <2> QED BY <2>2, <2>3
  <1>12. CASE RestoreWidgets
    BY <1>2, <1>12 DEF RestoreWidgets, Within
  <1>13. CASE CheckRestored
    BY <1>1, <1>13 DEF CheckRestored, Within
  <1>14. CASE Fails
    BY <1>14, EndAuthorised, ManifestsShaped DEF Fails
  <1>15. CASE JudgeContinues
    <2>1. /\ proc.pc = "judge" /\ run' = Counted /\ disk' = Saved(Counted)
          /\ proc' = [proc EXCEPT !.pc = "facing", !.inspected = 0]
      BY <1>15 DEF JudgeContinues
    <2>2. DOMAIN proc' = DOMAIN proc /\ proc'.pc = "facing" /\ proc'.asked = proc.asked
      BY <2>1 DEF Authorised
    <2> QED BY <2>1, <2>2, SavedShaped, ManifestsShaped DEF Authorised, Current
  <1>16. CASE JudgeEnds
    BY <1>16, EndAuthorised, ManifestsShaped DEF JudgeEnds
  <1>17. CASE Crash
    BY <1>17, EndAuthorised, ManifestsShaped DEF Crash
  <1> QED BY <1>3, <1>4, <1>5, <1>6, <1>7, <1>8, <1>9, <1>10, <1>11, <1>12, <1>13, <1>14,
             <1>15, <1>16, <1>17 DEF Process, Checkpoint, WidgetValidation

LEMMA NextAuthorised ==
  ASSUME Authorised, [Next]_vars
  PROVE  Authorised'
  <1>1. CASE \E restore \in BOOLEAN :
                \/ Execute(restore)
                \/ \E r \in 1..Current : Resume(r, restore) \/ ResumeWhole(r, restore)
    BY <1>1, OperatorAuthorised
  <1>2. CASE EditPhp \/ EditWidgets \/ Migrate \/ UNCHANGED vars
    <2>1. UNCHANGED <<disk, run, proc>>
      BY <1>2 DEF EditPhp, EditWidgets, Migrate, Outside, vars
    <2> QED BY <2>1 DEF Authorised, Current
  <1> QED BY <1>1, <1>2, ProcessAuthorised DEF Next

\* Widgets are restored only in an invocation that was told to, through any chain of
\* resumes (service.py 374-377).
THEOREM RestorationIsAuthorised == Spec => RestoresOnlyWhenAsked
  <1>1. Init => Authorised
    BY InitAuthorised
  <1>2. Authorised /\ [Next]_vars => Authorised'
    BY NextAuthorised
  <1>3. Authorised => (proc.pc = "restoring" /\ widgets' # widgets => proc.asked)
    BY DEF Authorised
  <1> QED BY <1>1, <1>2, <1>3, PTL DEF Spec, RestoresOnlyWhenAsked

-----------------------------------------------------------------------------
(***************************************************************************)
(* The route.                                                              *)
(***************************************************************************)

LEMMA Least ==
    ASSUME NEW T, T \subseteq Nat, T # {}
    PROVE  \E n \in T : \A m \in T : n <= m
<1>1. PICK n \in T : \A m \in T : ~ (<<m, n>> \in OpToRel(<, Nat))
  BY NatLessThanWellFounded, WFMin
<1>2. OpToRel(<, Nat) = {ss \in Nat \X Nat : ss[1] < ss[2]}
  BY DEF OpToRel
<1>3. ASSUME NEW m \in T PROVE n <= m
  <2>1. <<m, n>> \in Nat \X Nat /\ ~ (m < n)
    BY <1>1, <1>2
  <2> QED
    BY <2>1
<1> QED
  BY <1>3

Checkpoints == 1..Len(Policy.checkpoints)
Passes(c) == Policy.checkpoints[c].wordpress

LEMMA PolicyTypes ==
    /\ Len(Policy.checkpoints) \in Nat \ {0} /\ DOMAIN Policy.checkpoints = Checkpoints
    /\ \A c \in Checkpoints : Passes(c) \in Nat /\ Policy.checkpoints[c].php \in Requirement
    /\ \A c, d \in Checkpoints : c < d => Passes(c) < Passes(d)
    /\ \A c, d \in Checkpoints : c <= d => Passes(c) <= Passes(d)
<1>1. /\ Policy.checkpoints \in Seq([wordpress: Version, php: Requirement])
      /\ Policy.checkpoints # <<>>
  BY PolicyAssumption
<1>2. Len(Policy.checkpoints) \in Nat \ {0} /\ DOMAIN Policy.checkpoints = Checkpoints
  BY <1>1, LenProperties, EmptySeq DEF Checkpoints
<1>3. \A c \in Checkpoints : Policy.checkpoints[c] \in [wordpress: Version, php: Requirement]
  BY <1>1, ElementOfSeq DEF Checkpoints
<1>4. \A c \in Checkpoints : Passes(c) \in Nat /\ Policy.checkpoints[c].php \in Requirement
  BY <1>3 DEF Passes, Version
<1>5. \A c, d \in Checkpoints : c < d => Passes(c) < Passes(d)
  BY <1>2, PolicyAssumption DEF Passes
<1>6. \A c, d \in Checkpoints : c <= d => Passes(c) <= Passes(d)
  <2> SUFFICES ASSUME NEW c \in Checkpoints, NEW d \in Checkpoints, c <= d
               PROVE  Passes(c) <= Passes(d)
    OBVIOUS
  <2>1. c = d \/ c < d
    BY DEF Checkpoints
  <2> QED
    BY <1>4, <1>5, <2>1
<1> QED
  BY <1>2, <1>4, <1>5, <1>6

\* The checkpoints above a version are the last ones, from some place on.
LEMMA LaterFrom ==
    ASSUME NEW v \in Version
    PROVE  \E first \in Places :
              Later(v) = From(first) /\ \A c \in Checkpoints : c >= first <=> Passes(c) > v
<1> DEFINE n == Len(Policy.checkpoints)
           T == {k \in Nat : k \in 1..(n + 1) /\ (k = n + 1 \/ Passes(k) > v)}
<1>1. n \in Nat \ {0} /\ v \in Nat
  BY PolicyTypes DEF Version
<1>2. n + 1 \in T
  BY <1>1
<1>3. PICK first \in T : \A k \in T : first <= k
  BY <1>2, Least
<1>4. ASSUME NEW c \in Checkpoints PROVE c >= first <=> Passes(c) > v
  <2>1. c \in 1..n /\ first \in 1..(n + 1) /\ Passes(c) \in Nat
    BY PolicyTypes DEF Checkpoints
  <2>2. ASSUME Passes(c) > v PROVE c >= first
    BY <1>1, <1>3, <2>1, <2>2
  <2>3. ASSUME c >= first PROVE Passes(c) > v
    <3>1. first \in Checkpoints /\ Passes(first) > v
      BY <1>1, <2>1, <2>3 DEF Checkpoints
    <3>2. Passes(first) <= Passes(c) /\ Passes(first) \in Nat
      BY <2>3, <3>1, PolicyTypes
    <3> QED
      BY <1>1, <2>1, <3>1, <3>2
  <2> QED
    BY <2>2, <2>3
<1>5. first \in Places
  BY <1>1 DEF Places
<1>6. DOMAIN Policy.checkpoints = Checkpoints
  BY PolicyTypes
<1> DEFINE Marks(k) == \A c \in Checkpoints : c >= k <=> Passes(c) > v
<1>7. Later(v) = From(CHOOSE k \in Places : Marks(k))
  BY <1>6 DEF Later, Passes
<1>8. Marks(first)
  BY <1>4
<1>9. \E k \in Places : Marks(k)
  BY <1>5, <1>8
<1> QED
  BY <1>7, <1>9

\* The stages: those checkpoints, and the final release.
LEMMA StagesFrom ==
    ASSUME core \in Version
    PROVE  \E first \in Places :
              /\ \A c \in Checkpoints : c >= first <=> Passes(c) > core
              /\ Stages \in Seq(0..Len(Policy.checkpoints))
              /\ Len(Stages) = Len(Policy.checkpoints) + 2 - first
              /\ \A i \in 1..Len(Stages) :
                    Stages[i] = IF i = Len(Stages) THEN 0 ELSE first - 1 + i
              /\ InitialStage \in 0..Len(Policy.checkpoints)
<1> DEFINE n == Len(Policy.checkpoints)
<1>1. PICK first \in Places :
         Later(core) = From(first) /\ \A c \in Checkpoints : c >= first <=> Passes(c) > core
  BY LaterFrom
<1>2. n \in Nat \ {0} /\ first \in 1..(n + 1)
  BY PolicyTypes DEF Places
<1>3. n + 1 - first \in Nat
  BY <1>2
<1>4. From(first) \in Seq(0..n) /\ Len(From(first)) = n + 1 - first
      /\ \A i \in 1..(n + 1 - first) : From(first)[i] = first - 1 + i
  <2>1. \A i \in 1..(n + 1 - first) : first - 1 + i \in 0..n
    BY <1>2
  <2>2. From(first) \in [1..(n + 1 - first) -> 0..n]
    BY <2>1 DEF From
  <2>3. From(first) \in Seq(0..n)
    BY <1>3, <2>2
  <2>4. DOMAIN From(first) = 1..(n + 1 - first)
    BY <2>2
  <2>5. Len(From(first)) = n + 1 - first
    BY <1>3, <2>3, <2>4, LenProperties
  <2> QED
    BY <2>3, <2>5 DEF From
<1>5. 0 \in 0..n
  BY <1>2
<1>6. /\ Stages \in Seq(0..n) /\ Len(Stages) = n + 2 - first
      /\ \A i \in 1..Len(Stages) : Stages[i] = IF i = Len(Stages) THEN 0 ELSE first - 1 + i
  <2>1. Stages = Append(From(first), 0)
    BY <1>1 DEF Stages
  <2>2. Stages \in Seq(0..n) /\ Len(Stages) = n + 1 - first + 1
        /\ \A i \in 1..(n + 1 - first + 1) :
              Stages[i] = IF i = n + 1 - first + 1 THEN 0 ELSE From(first)[i]
    BY <1>4, <1>5, <2>1, AppendProperties
  <2>3. n + 1 - first + 1 = n + 2 - first /\ n + 1 - first \in Nat
    BY <1>2, <1>3
  <2>4. \A i \in 1..(n + 2 - first) : i # n + 2 - first => i \in 1..(n + 1 - first)
    BY <1>2
  <2>5. Len(Stages) = n + 2 - first
    BY <2>2, <2>3
  <2>6. \A i \in 1..Len(Stages) : Stages[i] = IF i = Len(Stages) THEN 0 ELSE first - 1 + i
    BY <1>4, <2>2, <2>3, <2>4, <2>5
  <2> QED
    BY <2>2, <2>5, <2>6
<1>7. InitialStage \in 0..n
  <2>1. CASE Later(core) # <<>>
    <3>1. From(first) \in Seq(0..n) /\ From(first) # <<>>
      BY <1>1, <1>4, <2>1
    <3>2. 1 \in 1..Len(From(first))
      BY <3>1, EmptySeq, LenProperties
    <3>3. From(first)[1] \in 0..n
      BY <3>1, <3>2, ElementOfSeq
    <3> QED
      BY <1>1, <2>1, <3>3 DEF InitialStage
  <2>2. CASE Later(core) = <<>>
    BY <1>2, <2>2 DEF InitialStage
  <2> QED
    BY <2>1, <2>2
<1> QED
  BY <1>1, <1>6, <1>7

\* At most one runtime is selected, of those that are configured.
LEMMA SelectedOne ==
    ASSUME NEW requirement
    PROVE  /\ SelectRuntime(requirement) \subseteq Runtimes
           /\ \A a, b \in SelectRuntime(requirement) : a = b
  BY DEF SelectRuntime, Candidates

IsCheckpoint(step) == step.name = "wordpress_checkpoint"

\* What every plan is, whenever it was made: the steps before the checkpoints, those in
\* ascending order and the final release the last of them, and the widgets at the end;
\* one runtime for each.
PlanSound(p) ==
    /\ FamiliesOf(latest) # {}
    /\ Len(p) >= 4
    /\ p[1].name = "preflight" /\ p[2].name = "pending_search_replace" /\ p[3].name = "snapshot"
    /\ \A i \in 4..Len(p) : p[i].name \notin {"preflight", "pending_search_replace", "snapshot"}
    /\ \E i \in 1..Len(p) : IsCheckpoint(p[i]) /\ p[i].target = latest
    /\ p[Len(p)].name = "widget_validation"
    /\ \A i \in 1..Len(p) :
          /\ p[i].target <= latest
          /\ \A a, b \in p[i].runtime : a = b
          /\ IsCheckpoint(p[i]) =>
                /\ p[i].target = Wordpress(p[i].stage)
                /\ \A j \in i..Len(p) : IsCheckpoint(p[j]) => p[i].target <= p[j].target
                /\ (\A j \in (i + 1)..Len(p) : ~ IsCheckpoint(p[j])) => p[i].target = latest

\* All checkpoints above a version are steps of the plan.
Covers(p, v) ==
    \A c \in Checkpoints :
        Passes(c) > v => \E j \in 1..Len(p) : IsCheckpoint(p[j]) /\ p[j].target = Passes(c)

Before == <<Step("preflight", InitialStage, 0), Step("pending_search_replace", InitialStage, 0),
            Step("snapshot", InitialStage, 0)>>
ByStage == [i \in DOMAIN Stages |-> Step("wordpress_checkpoint", Stages[i], Wordpress(Stages[i]))]
After == [i \in DOMAIN UpdateStepNames |-> Step(UpdateStepNames[i], 0, 0)]

LEMMA StepIsPlanned ==
    ASSUME NEW name \in {"preflight", "pending_search_replace", "snapshot", "wordpress_checkpoint"}
                          \cup UpdateStep,
           NEW stage \in 0..Len(Policy.checkpoints), NEW target \in Version
    PROVE  /\ Step(name, stage, target) \in PlannedStep
           /\ Step(name, stage, target).name = name /\ Step(name, stage, target).stage = stage
           /\ Step(name, stage, target).target = target
           /\ \A a, b \in Step(name, stage, target).runtime : a = b
BY SelectedOne DEF Step, PlannedStep

LEMMA WordpressType ==
    ASSUME latest \in Version, NEW stage \in 0..Len(Policy.checkpoints)
    PROVE  /\ Wordpress(stage) \in Version
           /\ Wordpress(stage) = IF stage = 0 THEN latest ELSE Passes(stage)
<1>1. stage = 0 \/ stage \in Checkpoints
  BY PolicyTypes DEF Checkpoints
<1> QED
  BY <1>1, PolicyTypes DEF Wordpress, Passes, Version

\* Where the elements of two sequences are in their concatenation.
LEMMA Joined ==
    ASSUME NEW S, NEW a \in Seq(S), NEW b \in Seq(S)
    PROVE  /\ a \o b \in Seq(S) /\ Len(a \o b) = Len(a) + Len(b)
           /\ Len(a) \in Nat /\ Len(b) \in Nat
           /\ \A i \in 1..Len(a) : (a \o b)[i] = a[i]
           /\ \A i \in 1..Len(b) : (a \o b)[Len(a) + i] = b[i]
<1>1. a \o b \in Seq(S) /\ Len(a \o b) = Len(a) + Len(b) /\ Len(a) \in Nat /\ Len(b) \in Nat
  BY ConcatProperties, LenProperties
<1> QED
  BY <1>1

\* The parts of a plan, and where its steps are.
LEMMA StepsParts ==
    ASSUME core \in Version, latest \in Version
    PROVE  LET n == Len(Stages)
               u == Len(UpdateStepNames)
           IN /\ n \in Nat \ {0} /\ u \in Nat \ {0}
              /\ Steps \in Seq(PlannedStep) /\ Len(Steps) = 3 + n + u
              /\ \A i \in 1..3 : Steps[i] = Before[i]
              /\ \A i \in 1..n :
                    Steps[3 + i] = Step("wordpress_checkpoint", Stages[i], Wordpress(Stages[i]))
              /\ \A i \in 1..u : Steps[3 + n + i] = Step(UpdateStepNames[i], 0, 0)
              /\ \A i \in 1..n : Stages[i] \in 0..Len(Policy.checkpoints)
              /\ \A i \in 1..u : UpdateStepNames[i] \in UpdateStep
              /\ InitialStage \in 0..Len(Policy.checkpoints)
              /\ 0 \in 0..Len(Policy.checkpoints) /\ 0 \in Version
<1> DEFINE n == Len(Stages)
           u == Len(UpdateStepNames)
           k == Len(Policy.checkpoints)
<1>1. PICK first \in Places :
         /\ Stages \in Seq(0..k) /\ Len(Stages) = k + 2 - first
         /\ InitialStage \in 0..k
  BY StagesFrom
<1>2. k \in Nat \ {0} /\ first \in 1..(k + 1) /\ 0 \in 0..k /\ 0 \in Version
  BY PolicyTypes DEF Places, Version
<1>3. n \in Nat \ {0} /\ DOMAIN Stages = 1..n /\ \A i \in 1..n : Stages[i] \in 0..k
  BY <1>1, <1>2, ElementOfSeq, LenProperties
<1>4. u \in Nat \ {0} /\ DOMAIN UpdateStepNames = 1..u
      /\ \A i \in 1..u : UpdateStepNames[i] \in UpdateStep
  <2>1. UpdateStepNames \in Seq(UpdateStep) /\ UpdateStepNames # <<>>
    BY UpdateStepsAssumption
  <2>2. u \in Nat \ {0} /\ DOMAIN UpdateStepNames = 1..u
    BY <2>1, EmptySeq, LenProperties
  <2>3. \A i \in 1..u : UpdateStepNames[i] \in UpdateStep
    BY <2>1, ElementOfSeq
  <2> QED
    BY <2>2, <2>3
<1>5. /\ Step("preflight", InitialStage, 0) \in PlannedStep
      /\ Step("pending_search_replace", InitialStage, 0) \in PlannedStep
      /\ Step("snapshot", InitialStage, 0) \in PlannedStep
  BY <1>1, <1>2, StepIsPlanned
<1>6. Before \in Seq(PlannedStep) /\ Len(Before) = 3
  BY <1>5 DEF Before
<1>7. ByStage \in [1..n -> PlannedStep]
  <2>1. ASSUME NEW i \in 1..n
        PROVE  Step("wordpress_checkpoint", Stages[i], Wordpress(Stages[i])) \in PlannedStep
    <3>1. Stages[i] \in 0..k
      BY <1>3
    <3>2. Wordpress(Stages[i]) \in Version
      BY <3>1, WordpressType
    <3> QED
      BY <3>1, <3>2, StepIsPlanned
  <2> QED
    BY <1>3, <2>1 DEF ByStage
<1>8. After \in [1..u -> PlannedStep]
  BY <1>2, <1>4, StepIsPlanned DEF After
<1>9. ByStage \in Seq(PlannedStep) /\ Len(ByStage) = n
  <2>1. ByStage \in Seq(PlannedStep)
    BY <1>3, <1>7
  <2> QED
    BY <1>3, <1>7, <2>1, LenProperties
<1>10. After \in Seq(PlannedStep) /\ Len(After) = u
  <2>1. After \in Seq(PlannedStep)
    BY <1>4, <1>8
  <2> QED
    BY <1>4, <1>8, <2>1, LenProperties
<1>11. Steps = (Before \o ByStage) \o After
  BY DEF Steps, Before, ByStage, After
<1>12. ASSUME NEW a \in Seq(PlannedStep), NEW b \in Seq(PlannedStep), NEW c \in Seq(PlannedStep)
       PROVE  /\ (a \o b) \o c \in Seq(PlannedStep) /\ Len((a \o b) \o c) = Len(a) + Len(b) + Len(c)
              /\ \A i \in 1..Len(a) : ((a \o b) \o c)[i] = a[i]
              /\ \A i \in 1..Len(b) : ((a \o b) \o c)[Len(a) + i] = b[i]
              /\ \A i \in 1..Len(c) : ((a \o b) \o c)[Len(a) + Len(b) + i] = c[i]
  <2>1. /\ a \o b \in Seq(PlannedStep) /\ Len(a \o b) = Len(a) + Len(b)
        /\ Len(a) \in Nat /\ Len(b) \in Nat
        /\ \A i \in 1..Len(a) : (a \o b)[i] = a[i]
        /\ \A i \in 1..Len(b) : (a \o b)[Len(a) + i] = b[i]
    BY Joined
  <2>2. PICK d \in Seq(PlannedStep) : d = a \o b
    BY <2>1
  <2>3. /\ d \o c \in Seq(PlannedStep) /\ Len(d \o c) = Len(d) + Len(c)
        /\ \A i \in 1..Len(d) : (d \o c)[i] = d[i]
        /\ \A i \in 1..Len(c) : (d \o c)[Len(d) + i] = c[i]
    BY Joined
  <2>4. Len(d) = Len(a) + Len(b)
    BY <2>1, <2>2
  <2>5. \A i \in 1..Len(a) : i \in 1..Len(d)
    BY <2>1, <2>4
  <2>6. \A i \in 1..Len(b) : Len(a) + i \in 1..Len(d)
    BY <2>1, <2>4
  <2>7. \A i \in 1..Len(a) : (d \o c)[i] = a[i]
    BY <2>1, <2>2, <2>3, <2>5
  <2>8. \A i \in 1..Len(b) : (d \o c)[Len(a) + i] = b[i]
    BY <2>1, <2>2, <2>3, <2>6
  <2> QED
    BY <2>2, <2>3, <2>4, <2>7, <2>8
<1>13. /\ Steps \in Seq(PlannedStep) /\ Len(Steps) = 3 + n + u
       /\ \A i \in 1..3 : Steps[i] = Before[i]
       /\ \A i \in 1..n : Steps[3 + i] = ByStage[i]
       /\ \A i \in 1..u : Steps[3 + n + i] = After[i]
  <2> DEFINE s == (Before \o ByStage) \o After
  <2>1. Before \in Seq(PlannedStep) /\ ByStage \in Seq(PlannedStep) /\ After \in Seq(PlannedStep)
    BY <1>6, <1>9, <1>10
  <2>2. /\ s \in Seq(PlannedStep) /\ Len(s) = Len(Before) + Len(ByStage) + Len(After)
        /\ \A i \in 1..Len(Before) : s[i] = Before[i]
        /\ \A i \in 1..Len(ByStage) : s[Len(Before) + i] = ByStage[i]
        /\ \A i \in 1..Len(After) : s[Len(Before) + Len(ByStage) + i] = After[i]
    BY <1>12, <2>1
  <2> QED
    BY <1>6, <1>9, <1>10, <1>11, <2>2
<1>14. \A i \in 1..n : ByStage[i] = Step("wordpress_checkpoint", Stages[i], Wordpress(Stages[i]))
  BY <1>3 DEF ByStage
<1>15. \A i \in 1..u : After[i] = Step(UpdateStepNames[i], 0, 0)
  BY <1>4 DEF After
<1> QED
  BY <1>1, <1>2, <1>3, <1>4, <1>13, <1>14, <1>15

\* A plan is sound when it is made, and covers what is above the installed version.
LEMMA StepsSound ==
    ASSUME core \in Version, latest \in Version, Ready
    PROVE  /\ Steps \in Seq(PlannedStep)
           /\ PlanSound(Steps) /\ Covers(Steps, core)
<1> DEFINE n == Len(Stages)
           u == Len(UpdateStepNames)
<1>1. /\ FamiliesOf(latest) # {} /\ latest >= core /\ core \in Nat /\ latest \in Nat
      /\ \A c \in Checkpoints : latest >= Passes(c)
  BY PolicyTypes DEF Ready, Passes, Version
<1>2. PICK first \in Places :
         /\ \A c \in Checkpoints : c >= first <=> Passes(c) > core
         /\ Len(Stages) = Len(Policy.checkpoints) + 2 - first
         /\ \A i \in 1..n : Stages[i] = IF i = n THEN 0 ELSE first - 1 + i
  BY StagesFrom
<1>3. /\ n \in Nat \ {0} /\ u \in Nat \ {0}
      /\ Steps \in Seq(PlannedStep) /\ Len(Steps) = 3 + n + u
      /\ \A i \in 1..3 : Steps[i] = Before[i]
      /\ \A i \in 1..n :
            Steps[3 + i] = Step("wordpress_checkpoint", Stages[i], Wordpress(Stages[i]))
      /\ \A i \in 1..u : Steps[3 + n + i] = Step(UpdateStepNames[i], 0, 0)
      /\ \A i \in 1..n : Stages[i] \in 0..Len(Policy.checkpoints)
      /\ \A i \in 1..u : UpdateStepNames[i] \in UpdateStep
      /\ InitialStage \in 0..Len(Policy.checkpoints)
      /\ 0 \in 0..Len(Policy.checkpoints) /\ 0 \in Version
  BY StepsParts
<1> HIDE DEF n, u
<1>4. /\ Len(Policy.checkpoints) \in Nat \ {0} /\ first \in 1..(Len(Policy.checkpoints) + 1)
      /\ n = Len(Policy.checkpoints) + 2 - first /\ n \in Nat \ {0}
  BY <1>2, <1>3, PolicyTypes DEF Places, n
\* The first three steps.
<1>5. /\ Steps[1] = Step("preflight", InitialStage, 0)
      /\ Steps[2] = Step("pending_search_replace", InitialStage, 0)
      /\ Steps[3] = Step("snapshot", InitialStage, 0)
  BY <1>3 DEF Before
<1>6. /\ Steps[1].name = "preflight" /\ Steps[2].name = "pending_search_replace"
      /\ Steps[3].name = "snapshot"
      /\ \A i \in 1..3 : /\ Steps[i].target = 0 /\ ~ IsCheckpoint(Steps[i])
                         /\ \A a, b \in Steps[i].runtime : a = b
  <2>1. ASSUME NEW name \in {"preflight", "pending_search_replace", "snapshot"}
        PROVE  /\ Step(name, InitialStage, 0).name = name /\ Step(name, InitialStage, 0).target = 0
               /\ \A a, b \in Step(name, InitialStage, 0).runtime : a = b
    BY <1>3, StepIsPlanned
  <2>2. \A i \in 1..3 : i = 1 \/ i = 2 \/ i = 3
    OBVIOUS
  <2> QED
    BY <1>5, <2>1, <2>2 DEF IsCheckpoint
\* The checkpoints and the final release.
<1>7. ASSUME NEW i \in 1..n
      PROVE  /\ IsCheckpoint(Steps[3 + i]) /\ Steps[3 + i].stage = Stages[i]
             /\ Steps[3 + i].target = Wordpress(Stages[i])
             /\ Steps[3 + i].target = IF i = n THEN latest ELSE Passes(first - 1 + i)
             /\ Steps[3 + i].target <= latest
             /\ i # n => first - 1 + i \in Checkpoints
             /\ \A a, b \in Steps[3 + i].runtime : a = b
  <2>1. Wordpress(Stages[i]) \in Version
        /\ Wordpress(Stages[i]) = IF Stages[i] = 0 THEN latest ELSE Passes(Stages[i])
    BY <1>3, WordpressType
  <2>2. Stages[i] = IF i = n THEN 0 ELSE first - 1 + i
    BY <1>2 DEF n
  <2>3. i # n => first - 1 + i \in Checkpoints /\ first - 1 + i # 0
    BY <1>4 DEF Checkpoints
  <2>4. Steps[3 + i] = Step("wordpress_checkpoint", Stages[i], Wordpress(Stages[i]))
    BY <1>3
  <2>5. /\ Steps[3 + i].name = "wordpress_checkpoint" /\ Steps[3 + i].stage = Stages[i]
        /\ Steps[3 + i].target = Wordpress(Stages[i])
        /\ \A a, b \in Steps[3 + i].runtime : a = b
    BY <1>3, <2>1, <2>4, StepIsPlanned
  <2>6. Steps[3 + i].target = IF i = n THEN latest ELSE Passes(first - 1 + i)
    BY <2>1, <2>2, <2>3, <2>5
  <2>7. Steps[3 + i].target <= latest
    BY <1>1, <2>3, <2>6, PolicyTypes
  <2> QED
    BY <2>3, <2>5, <2>6, <2>7 DEF IsCheckpoint
\* The updates.
<1>8. ASSUME NEW i \in 1..u
      PROVE  /\ Steps[3 + n + i].name = UpdateStepNames[i] /\ Steps[3 + n + i].target = 0
             /\ Steps[3 + n + i].name \in UpdateStep
             /\ \A a, b \in Steps[3 + n + i].runtime : a = b
  <2>1. UpdateStepNames[i] \in UpdateStep
    BY <1>3
  <2>2. Steps[3 + n + i] = Step(UpdateStepNames[i], 0, 0)
    BY <1>3
  <2>3. PICK name \in UpdateStep : name = UpdateStepNames[i]
    BY <2>1
  <2>4. /\ Step(name, 0, 0).name = name /\ Step(name, 0, 0).target = 0
        /\ \A a, b \in Step(name, 0, 0).runtime : a = b
    <3>1. name \in {"preflight", "pending_search_replace", "snapshot", "wordpress_checkpoint"}
                     \cup UpdateStep
      OBVIOUS
    <3>2. 0 \in 0..Len(Policy.checkpoints) /\ 0 \in Version
      BY <1>3
    <3> QED
      BY <3>1, <3>2, StepIsPlanned
  <2> QED
    BY <2>2, <2>3, <2>4
<1>9. /\ "preflight" \notin UpdateStep /\ "pending_search_replace" \notin UpdateStep
      /\ "snapshot" \notin UpdateStep /\ "wordpress_checkpoint" \notin UpdateStep
  BY DEF UpdateStep
<1>10. \A i \in 1..Len(Steps) :
          \/ i \in 1..3
          \/ i - 3 \in 1..n /\ 3 + (i - 3) = i
          \/ i - 3 - n \in 1..u /\ 3 + n + (i - 3 - n) = i
  BY <1>3
<1>11. \A i \in 1..Len(Steps) : IsCheckpoint(Steps[i]) => i - 3 \in 1..n /\ 3 + (i - 3) = i
  BY <1>6, <1>8, <1>9, <1>10 DEF IsCheckpoint
<1>12. ASSUME NEW i \in 1..Len(Steps)
       PROVE  Steps[i].target <= latest /\ \A a, b \in Steps[i].runtime : a = b
  BY <1>1, <1>6, <1>7, <1>8, <1>10
<1>13. ASSUME NEW i \in 1..Len(Steps), IsCheckpoint(Steps[i])
       PROVE  /\ Steps[i].target = Wordpress(Steps[i].stage)
              /\ \A j \in i..Len(Steps) :
                    IsCheckpoint(Steps[j]) => Steps[i].target <= Steps[j].target
              /\ (\A j \in (i + 1)..Len(Steps) : ~ IsCheckpoint(Steps[j])) =>
                    Steps[i].target = latest
  <2>1. PICK k \in 1..n : i = 3 + k
    BY <1>11, <1>13
  <2>2. Steps[i].target = Wordpress(Steps[i].stage)
    BY <1>7, <2>1
  <2>3. ASSUME NEW j \in i..Len(Steps), IsCheckpoint(Steps[j])
        PROVE  Steps[i].target <= Steps[j].target
    <3>1. j \in 1..Len(Steps)
      BY <1>3
    <3>2. PICK l \in 1..n : j = 3 + l
      BY <1>11, <2>3, <3>1
    <3>3. k <= l /\ k \in Nat /\ l \in Nat
      BY <1>3, <2>1, <3>2
    <3>4. CASE l = n
      BY <1>7, <2>1, <3>2, <3>4
    <3>5. CASE l # n
      <4>1. k # n /\ first - 1 + k <= first - 1 + l
        BY <1>4, <3>2, <3>3, <3>5
      <4>2. first - 1 + k \in Checkpoints /\ first - 1 + l \in Checkpoints
        BY <1>7, <3>5, <4>1
      <4>3. Passes(first - 1 + k) <= Passes(first - 1 + l)
        BY <4>1, <4>2, PolicyTypes
      <4> QED
        BY <1>7, <2>1, <3>2, <3>5, <4>1, <4>3
    <3> QED
      BY <3>4, <3>5
  <2>4. ASSUME \A j \in (i + 1)..Len(Steps) : ~ IsCheckpoint(Steps[j])
        PROVE  Steps[i].target = latest
    <3>1. ASSUME k # n PROVE FALSE
      <4>1. k + 1 \in 1..n /\ 3 + (k + 1) \in (i + 1)..Len(Steps)
        BY <1>3, <2>1, <3>1
      <4> QED
        BY <1>7, <2>4, <4>1
    <3> QED
      BY <1>7, <2>1, <3>1
  <2> QED
    BY <2>2, <2>3, <2>4
<1>14. \A i \in 4..Len(Steps) :
          Steps[i].name \notin {"preflight", "pending_search_replace", "snapshot"}
  <2> SUFFICES ASSUME NEW i \in 4..Len(Steps)
               PROVE  Steps[i].name \notin {"preflight", "pending_search_replace", "snapshot"}
    OBVIOUS
  <2>1. i \in 1..Len(Steps) /\ i \notin 1..3
    BY <1>3
  <2>2. IsCheckpoint(Steps[i]) \/ Steps[i].name \in UpdateStep
    BY <1>7, <1>8, <1>10, <2>1
  <2> QED
    BY <1>9, <2>2 DEF IsCheckpoint
<1>15. \E i \in 1..Len(Steps) : IsCheckpoint(Steps[i]) /\ Steps[i].target = latest
  <2>1. n \in 1..n /\ 3 + n \in 1..Len(Steps)
    BY <1>3
  <2> QED
    BY <1>7, <2>1
<1>16. Steps[Len(Steps)].name = "widget_validation"
  <2>1. u \in 1..u /\ 3 + n + u = Len(Steps) /\ UpdateStepNames[u] = "widget_validation"
    BY <1>3, UpdateStepsAssumption DEF u
  <2> QED
    BY <1>8, <2>1
<1>17. Len(Steps) >= 4 /\ Len(Steps) = 3 + n + u /\ n \in Nat \ {0} /\ u \in Nat \ {0}
  BY <1>3
<1>18. PlanSound(Steps)
  BY <1>1, <1>6, <1>12, <1>13, <1>14, <1>15, <1>16, <1>17 DEF PlanSound
<1>19. Covers(Steps, core)
  <2> SUFFICES ASSUME NEW c \in Checkpoints, Passes(c) > core
               PROVE  \E j \in 1..Len(Steps) : IsCheckpoint(Steps[j]) /\ Steps[j].target = Passes(c)
    BY DEF Covers
  <2>1. c \in 1..Len(Policy.checkpoints) /\ c >= first
    BY <1>2 DEF Checkpoints
  <2> DEFINE i == c - first + 1
  <2>2. i \in 1..n /\ i # n /\ first - 1 + i = c /\ 3 + i \in 1..Len(Steps)
    BY <1>17, <1>4, <2>1
  <2> HIDE DEF i
  <2>3. IsCheckpoint(Steps[3 + i]) /\ Steps[3 + i].target = Passes(c)
    BY <1>7, <2>2
  <2> QED
    BY <2>2, <2>3
<1> QED
  BY <1>3, <1>18, <1>19

-----------------------------------------------------------------------------
(***************************************************************************)
(* Types.                                                                  *)
(***************************************************************************)

ProcPlaces == {"idle", "facing", "upgrading", "migrating", "verifying", "restoring", "checking",
            "broken", "judge"}
ProcType == [pc: ProcPlaces, asked: BOOLEAN, inspected: Version]

DiskTyped ==
    /\ plans \in Seq(Seq(PlannedStep)) /\ disk \in Seq(Manifest)
    /\ \A r \in 1..Current :
          /\ disk[r].plan \in 1..Len(plans) /\ disk[r].done <= Len(PlanOf(disk[r]))
          /\ disk[r].status = "RUNNING" <=> disk[r].print = {}
MemoryTyped ==
    /\ run \in Manifest /\ run.status = "RUNNING" /\ run.print = {}
    /\ proc \in ProcType
    /\ proc.pc # "idle" =>
          Current >= 1 /\ run.plan \in 1..Len(plans) /\ run.done < Len(PlanOf(run))
CopyTyped ==
    core \in Version /\ schema \in Version /\ url \in {"test", "beyond"} /\ widgets \in Widgets
RestTyped ==
    /\ latest \in Version /\ explicit \in BOOLEAN /\ php \in [Runtimes -> Version]
    /\ files \in 0..Current /\ clean \subseteq 1..Current /\ moves \in 0..MaxMoves
Typed == DiskTyped /\ MemoryTyped /\ CopyTyped /\ RestTyped

LEMMA TypedTypeOK ==
    ASSUME Typed
    PROVE  TypeOK
<1>1. DiskTyped /\ MemoryTyped /\ CopyTyped /\ RestTyped
  BY DEF Typed
<1>2. proc \in [pc: {"idle", "facing", "upgrading", "migrating", "verifying", "restoring",
                     "checking", "broken", "judge"}, asked: BOOLEAN, inspected: Version]
  BY <1>1 DEF MemoryTyped, ProcType, ProcPlaces
<1> QED
  BY <1>1, <1>2 DEF TypeOK, DiskTyped, MemoryTyped, CopyTyped, RestTyped

LEMMA CurrentNat ==
    ASSUME DiskTyped
    PROVE  /\ Current \in Nat /\ Len(plans) \in Nat
           /\ \A r \in 1..Current : disk[r] \in Manifest
           /\ \A k \in 1..Len(plans) : plans[k] \in Seq(PlannedStep) /\ Len(plans[k]) \in Nat
<1>1. disk \in Seq(Manifest) /\ plans \in Seq(Seq(PlannedStep))
  BY DEF DiskTyped
<1>2. Current \in Nat /\ Len(plans) \in Nat
  BY <1>1, LenProperties DEF Current
<1>3. \A r \in 1..Current : disk[r] \in Manifest
  BY <1>1, ElementOfSeq DEF Current
<1>4. \A k \in 1..Len(plans) : plans[k] \in Seq(PlannedStep)
  BY <1>1, ElementOfSeq
<1> QED
  BY <1>2, <1>3, <1>4, LenProperties

LEMMA StepHereTyped ==
    ASSUME Typed, proc.pc # "idle"
    PROVE  /\ PlanOf(run) \in Seq(PlannedStep) /\ run.done \in Nat
           /\ Len(PlanOf(run)) \in Nat
           /\ run.done + 1 \in 1..Len(PlanOf(run)) /\ StepHere \in PlannedStep
<1>1. run.done \in Nat
  BY DEF Typed, MemoryTyped, Manifest
<1>2. run.plan \in 1..Len(plans) /\ run.done < Len(PlanOf(run))
  BY DEF Typed, MemoryTyped
<1>3. PlanOf(run) \in Seq(PlannedStep) /\ Len(PlanOf(run)) \in Nat
  BY <1>2, CurrentNat DEF PlanOf, Typed
<1>4. run.done + 1 \in 1..Len(PlanOf(run))
  BY <1>1, <1>2, <1>3
<1> QED
  BY <1>1, <1>3, <1>4, ElementOfSeq DEF StepHere

\* A runtime that fits is there, and reports a version.
LEMMA FitsTyped ==
    ASSUME Typed, NEW step \in PlannedStep, Fits(step)
    PROVE  php[CHOOSE n \in step.runtime : TRUE] \in Version
<1>1. PICK name \in step.runtime : TRUE
  BY DEF Fits
<1>2. (CHOOSE n \in step.runtime : TRUE) \in step.runtime
  BY <1>1
<1>3. step.runtime \subseteq Runtimes
  BY DEF PlannedStep
<1> QED
  BY <1>2, <1>3 DEF Typed, RestTyped

\* Where the process goes next in its step.
LEMMA GoTyped ==
    ASSUME Typed, proc.pc # "idle", NEW pc \in ProcPlaces, Go(pc),
           proc.pc = "facing" => Fits(StepHere)
    PROVE  proc' \in ProcType /\ proc'.pc = pc /\ proc'.asked = proc.asked
           /\ proc'.inspected = IF proc.pc = "facing" THEN Launched
                              ELSE proc.inspected
<1> DEFINE v == IF proc.pc = "facing" THEN Launched
                ELSE proc.inspected
<1>1. proc \in ProcType
  BY DEF Typed, MemoryTyped
<1>2. v \in Version
  <2>1. CASE proc.pc = "facing"
    BY <2>1, StepHereTyped, FitsTyped DEF Launched
  <2>2. CASE proc.pc # "facing"
    BY <1>1, <2>2 DEF ProcType
  <2> QED
    BY <2>1, <2>2
<1>3. proc' = [proc EXCEPT !.pc = pc, !.inspected = v]
  BY <1>1 DEF Go, ProcType
<1> HIDE DEF v
<1>4. proc' \in ProcType /\ proc'.pc = pc /\ proc'.asked = proc.asked /\ proc'.inspected = v
  BY <1>1, <1>2, <1>3 DEF ProcType
<1> QED
  BY <1>4 DEF v

LEMMA InitTyped ==
    ASSUME Init
    PROVE  Typed
<1>1. plans = <<>> /\ disk = <<>> /\ run = NoRun /\ proc = Idle /\ clean = {} /\ moves = 0
  BY DEF Init
<1>2. Len(plans) = 0 /\ Current = 0
  BY <1>1 DEF Current
<1>3. DiskTyped
  BY <1>1, <1>2 DEF DiskTyped
<1>4. MemoryTyped
  BY <1>1, <1>2 DEF MemoryTyped, NoRun, Idle, Manifest, ProcType, ProcPlaces, Version
<1>5. CopyTyped
  BY BoundAssumption DEF Init, CopyTyped
<1>6. RestTyped
  <2>1. php \in [Runtimes -> Version]
    BY RuntimesAssumption DEF Init
  <2>2. latest \in Version /\ explicit \in BOOLEAN /\ files = 0
    BY BoundAssumption DEF Init
  <2> QED
    BY <1>1, <1>2, <2>1, <2>2, BoundAssumption DEF RestTyped
<1> QED
  BY <1>3, <1>4, <1>5, <1>6 DEF Typed

\* Within a step, the manifest of the process keeps its place.
LEMMA StayTyped ==
    ASSUME Typed, proc.pc # "idle", UNCHANGED <<surroundings, plans, disk, moves>>,
           run' \in Manifest, run'.status = "RUNNING", run'.print = {},
           run'.plan = run.plan, run'.done = run.done,
           CopyTyped', files' \in {files, Current}, proc' \in ProcType, clean' \subseteq clean
    PROVE  Typed'
<1>1. DiskTyped'
  BY DEF Typed, DiskTyped, Current, PlanOf, Manifest
<1>2. MemoryTyped'
  <2>1. Manifest' = Manifest /\ Current' = Current
    BY DEF Manifest, Current
  <2>2. PlanOf(run)' = PlanOf(run)
    BY DEF PlanOf
  <2> QED
    BY <2>1, <2>2 DEF Typed, MemoryTyped
<1>3. RestTyped'
  <2>1. Current' = Current /\ Current \in Nat
    BY CurrentNat DEF Current, Typed
  <2> QED
    BY <2>1 DEF Typed, RestTyped, surroundings
<1> QED
  BY <1>1, <1>2, <1>3 DEF Typed

\* The manifest is closed, finished or counted on; the process stops.
LEMMA SavedTyped ==
    ASSUME Typed, proc.pc # "idle", plans' = plans,
           NEW m \in Manifest, disk' = disk \/ disk' = Saved(m),
           m.plan = run.plan, m.done <= Len(PlanOf(run)), m.status = "RUNNING" <=> m.print = {}
    PROVE  /\ DiskTyped' /\ Current' = Current
           /\ \A r \in 1..Current : disk'[r] \in {disk[r], m} /\ (r # Current => disk'[r] = disk[r])
<1>1. CASE disk' = disk
  <2>1. DiskTyped'
    BY <1>1 DEF Typed, DiskTyped, Current, PlanOf, Manifest
  <2>2. Current' = Current /\ \A r \in 1..Current : disk'[r] = disk[r]
    BY <1>1 DEF Current
  <2> QED
    BY <2>1, <2>2
<1>2. CASE disk' = Saved(m)
  <2>1. Current \in 1..Current
    BY CurrentNat DEF Typed, MemoryTyped
  <2>2. /\ disk' \in Seq(Manifest) /\ Len(disk') = Len(disk)
        /\ \A r \in 1..Current : disk'[r] = IF r = Current THEN m ELSE disk[r]
    BY <1>2, <2>1, ExceptSeq DEF Saved, Current, Typed, DiskTyped
  <2>3. ASSUME NEW r \in 1..Current
        PROVE  /\ disk'[r].plan \in 1..Len(plans)
               /\ disk'[r].done <= Len(plans[disk'[r].plan])
               /\ disk'[r].status = "RUNNING" <=> disk'[r].print = {}
    <3>1. CASE r = Current
      BY <2>2, <3>1 DEF Typed, MemoryTyped, PlanOf
    <3>2. CASE r # Current
      BY <2>2, <3>2 DEF Typed, DiskTyped, PlanOf
    <3> QED
      BY <3>1, <3>2
  <2>4. Current' = Current /\ Manifest' = Manifest
    BY <2>2 DEF Current, Manifest
  <2>5. plans' \in Seq(Seq(PlannedStep))
    BY DEF DiskTyped, Typed
  <2>6. DiskTyped'
    BY <2>2, <2>3, <2>4, <2>5 DEF DiskTyped, PlanOf
  <2> QED
    BY <2>2, <2>4, <2>6
<1> QED
  BY <1>1, <1>2

LEMMA EndTyped ==
    ASSUME Typed, proc.pc # "idle", UNCHANGED <<surroundings, copy, plans, clean, moves>>,
           NEW m \in Manifest, disk' = disk \/ disk' = Saved(m),
           m.plan = run.plan, m.done <= Len(PlanOf(run)), m.status = "RUNNING" <=> m.print = {},
           run' = NoRun, proc' = Idle
    PROVE  Typed'
<1>1. DiskTyped' /\ Current' = Current
  BY SavedTyped
<1>2. MemoryTyped'
  <2>1. Len(plans') \in Nat
    BY CurrentNat DEF Typed
  <2> QED
    BY <2>1 DEF MemoryTyped, NoRun, Idle, Manifest, ProcType, ProcPlaces, Version
<1>3. CopyTyped'
  BY DEF Typed, CopyTyped, copy
<1>4. RestTyped'
  BY <1>1 DEF Typed, RestTyped, copy, surroundings
<1> QED
  BY <1>1, <1>2, <1>3, <1>4 DEF Typed

\* What the process writes.
LEMMA ManifestsTyped ==
    ASSUME Typed, proc.pc # "idle"
    PROVE  /\ Closed(run) \in Manifest /\ Counted \in Manifest /\ Finished \in Manifest
           /\ Begun \in Manifest
           /\ Closed(run).plan = run.plan /\ Closed(run).done = run.done
           /\ Closed(run).status = "UPDATE_FAILED_PRESERVED" /\ Closed(run).print # {}
           /\ Closed(run).snapshot = run.snapshot /\ Closed(run).begun = run.begun
           /\ Counted.plan = run.plan /\ Counted.done = run.done + 1
           /\ Counted.status = "RUNNING" /\ Counted.print = {}
           /\ Counted.snapshot = run.snapshot /\ Counted.begun = run.begun
           /\ Finished.plan = run.plan /\ Finished.done = run.done + 1
           /\ Finished.status = "EXECUTED" /\ Finished.print # {}
           /\ Finished.snapshot = run.snapshot /\ Finished.begun = run.begun
           /\ Begun.plan = run.plan /\ Begun.done = run.done
           /\ Begun.status = "RUNNING" /\ Begun.print = {}
           /\ Begun.snapshot = run.snapshot /\ Begun.begun = TRUE
<1>1. run \in Manifest /\ run.status = "RUNNING" /\ run.print = {}
  BY DEF Typed, MemoryTyped
<1>2. {Fingerprint} \subseteq [core: Version, files: Nat] /\ {Fingerprint} # {}
  <2>1. core \in Version /\ files \in Nat
    BY CurrentNat DEF Typed, CopyTyped, RestTyped
  <2> QED
    BY <2>1 DEF Fingerprint
<1> DEFINE print == {Fingerprint}
<1>3. print \subseteq [core: Version, files: Nat] /\ print # {}
  BY <1>2
<1>4. Closed(run) = [run EXCEPT !.status = "UPDATE_FAILED_PRESERVED", !.print = print]
      /\ Finished = [Counted EXCEPT !.status = "EXECUTED", !.print = print]
  BY DEF Closed, Finished, Executed
<1> HIDE DEF print
<1>5. /\ Closed(run) \in Manifest
      /\ Closed(run).plan = run.plan /\ Closed(run).done = run.done
      /\ Closed(run).status = "UPDATE_FAILED_PRESERVED" /\ Closed(run).print # {}
      /\ Closed(run).snapshot = run.snapshot /\ Closed(run).begun = run.begun
  BY <1>1, <1>3, <1>4 DEF Manifest
<1>6. /\ Counted \in Manifest
      /\ Counted.plan = run.plan /\ Counted.done = run.done + 1
      /\ Counted.status = "RUNNING" /\ Counted.print = {}
      /\ Counted.snapshot = run.snapshot /\ Counted.begun = run.begun
  BY <1>1 DEF Manifest, Counted
<1>7. /\ Finished \in Manifest
      /\ Finished.plan = run.plan /\ Finished.done = run.done + 1
      /\ Finished.status = "EXECUTED" /\ Finished.print # {}
      /\ Finished.snapshot = run.snapshot /\ Finished.begun = run.begun
  BY <1>3, <1>4, <1>6 DEF Manifest
<1>8. /\ Begun \in Manifest
      /\ Begun.plan = run.plan /\ Begun.done = run.done
      /\ Begun.status = "RUNNING" /\ Begun.print = {}
      /\ Begun.snapshot = run.snapshot /\ Begun.begun = TRUE
  BY <1>1 DEF Manifest, Begun
<1> QED
  BY <1>5, <1>6, <1>7, <1>8

\* Plans are only added.
Longer ==
    /\ plans' \in Seq(Seq(PlannedStep)) /\ Len(plans') \in Nat /\ Len(plans) <= Len(plans')
    /\ \A k \in 1..Len(plans) : plans'[k] = plans[k]

LEMMA BeginTyped ==
    ASSUME Typed, NEW m, NEW restore \in BOOLEAN, Begin(m, restore), Longer,
           m \in Manifest', m.plan \in 1..Len(plans'), m.done < Len(plans'[m.plan]),
           m.status = "RUNNING", m.print = {},
           UNCHANGED surroundings, clean' \subseteq 1..(Current + 1)
    PROVE  /\ Typed' /\ Current' = Current + 1 /\ disk'[Current + 1] = m
           /\ \A r \in 1..Current : disk'[r] = disk[r]
<1>1. /\ Current \in Nat /\ Len(plans) \in Nat /\ disk \in Seq(Manifest)
      /\ \A r \in 1..Current : disk[r] \in Manifest
  BY CurrentNat DEF Typed, DiskTyped
<1>2. Manifest \subseteq Manifest'
  BY <1>1 DEF Manifest, Longer
<1>3. /\ disk' \in Seq(Manifest') /\ Len(disk') = Current + 1
      /\ \A r \in 1..Current : disk'[r] = disk[r]
      /\ disk'[Current + 1] = m
  <2>1. disk \in Seq(Manifest')
    BY <1>1, <1>2, SeqMonotonic
  <2> QED
    BY <2>1, AppendProperties DEF Begin, Current
<1>4. Current' = Current + 1
  BY <1>3 DEF Current
<1>5. m.done \in Nat /\ m.done <= Len(plans'[m.plan])
  <2>1. m.done \in Nat
    BY DEF Manifest
  <2>2. plans'[m.plan] \in Seq(PlannedStep)
    BY ElementOfSeq DEF Longer
  <2>3. Len(plans'[m.plan]) \in Nat
    BY <2>2, LenProperties
  <2> QED
    BY <2>1, <2>3
<1>6. ASSUME NEW r \in 1..(Current + 1)
      PROVE  /\ disk'[r].plan \in 1..Len(plans')
             /\ disk'[r].done <= Len(plans'[disk'[r].plan])
             /\ disk'[r].status = "RUNNING" <=> disk'[r].print = {}
  <2>1. CASE r = Current + 1
    BY <1>3, <1>5, <2>1
  <2>2. CASE r # Current + 1
    <3>1. r \in 1..Current /\ disk'[r] = disk[r]
      BY <1>1, <1>3, <2>2
    <3>2. /\ disk[r].plan \in 1..Len(plans) /\ disk[r].done <= Len(plans[disk[r].plan])
          /\ disk[r].status = "RUNNING" <=> disk[r].print = {}
      BY <3>1 DEF Typed, DiskTyped, PlanOf
    <3>3. disk[r].plan \in 1..Len(plans') /\ plans'[disk[r].plan] = plans[disk[r].plan]
      BY <1>1, <3>2 DEF Longer
    <3> QED
      BY <3>1, <3>2, <3>3
  <2> QED
    BY <2>1, <2>2
<1>7. DiskTyped'
  BY <1>3, <1>4, <1>6 DEF DiskTyped, PlanOf, Longer
<1>8. MemoryTyped'
  <2>1. run' = m /\ proc' = [pc |-> "facing", asked |-> restore, inspected |-> 0]
    BY DEF Begin
  <2>2. proc' \in ProcType
    BY <2>1 DEF ProcType, ProcPlaces, Version
  <2>3. Current + 1 >= 1
    BY <1>1
  <2> QED
    BY <1>4, <2>1, <2>2, <2>3 DEF MemoryTyped, PlanOf
<1>9. CopyTyped' /\ RestTyped'
  <2>1. CopyTyped'
    BY DEF Begin, copy, Typed, CopyTyped
  <2>2. files \in 0..(Current + 1)
    BY <1>1 DEF Typed, RestTyped
  <2>3. RestTyped'
    BY <1>4, <2>2 DEF Begin, copy, surroundings, Typed, RestTyped
  <2> QED
    BY <2>1, <2>3
<1> QED
  BY <1>3, <1>4, <1>7, <1>8, <1>9 DEF Typed

\* What a fresh manifest is.
Fresh(restore) == [NoRun EXCEPT !.plan = Len(plans) + 1, !.restore = restore]

LEMMA ExecuteTyped ==
    ASSUME Typed, NEW restore \in BOOLEAN, Execute(restore)
    PROVE  /\ Typed' /\ Longer /\ Current' = Current + 1
           /\ Steps \in Seq(PlannedStep) /\ PlanSound(Steps) /\ Covers(Steps, core)
           /\ Len(plans') = Len(plans) + 1 /\ plans'[Len(plans) + 1] = Steps
           /\ run' = Fresh(restore) /\ disk'[Current + 1] = Fresh(restore)
           /\ \A r \in 1..Current : disk'[r] = disk[r]
           /\ clean' = clean \cup {Current + 1}
           /\ Fresh(restore).plan = Len(plans) + 1 /\ Fresh(restore).done = 0
           /\ Fresh(restore).snapshot = {} /\ ~ Fresh(restore).begun
           /\ Fresh(restore).status = "RUNNING"
<1> DEFINE m == Fresh(restore)
<1>1. /\ Steps \in Seq(PlannedStep) /\ PlanSound(Steps) /\ Covers(Steps, core)
  BY StepsSound DEF Execute, Typed, CopyTyped, RestTyped
<1>2. /\ Current \in Nat /\ Len(plans) \in Nat /\ plans \in Seq(Seq(PlannedStep))
  BY CurrentNat DEF Typed, DiskTyped
<1>3. /\ plans' \in Seq(Seq(PlannedStep)) /\ Len(plans') = Len(plans) + 1
      /\ plans'[Len(plans) + 1] = Steps
      /\ \A k \in 1..Len(plans) : plans'[k] = plans[k]
  <2>1. plans' = Append(plans, Steps)
    BY DEF Execute
  <2>2. PICK p \in Seq(PlannedStep) : p = Steps
    BY <1>1
  <2>3. /\ Append(plans, p) \in Seq(Seq(PlannedStep)) /\ Len(Append(plans, p)) = Len(plans) + 1
        /\ Append(plans, p)[Len(plans) + 1] = p
        /\ \A k \in 1..Len(plans) : Append(plans, p)[k] = plans[k]
    BY <1>2, AppendProperties
  <2> QED
    BY <2>1, <2>2, <2>3
<1>4. Longer
  <2>1. Len(plans') \in Nat /\ Len(plans) <= Len(plans')
    <3>1. Len(plans') = Len(plans) + 1 /\ Len(plans) \in Nat
      BY <1>2, <1>3
    <3> QED
      BY <3>1
  <2> QED
    BY <1>3, <2>1 DEF Longer
<1>5. Len(plans) + 1 \in 0..Len(plans')
  BY <1>2, <1>3
<1>6. /\ m \in Manifest' /\ m.plan = Len(plans) + 1 /\ m.done = 0 /\ m.snapshot = {} /\ ~ m.begun
      /\ m.status = "RUNNING" /\ m.print = {}
  <2>1. NoRun \in Manifest'
    BY <1>5 DEF NoRun, Manifest
  <2>2. NoRun.done = 0 /\ NoRun.snapshot = {} /\ ~ NoRun.begun /\ NoRun.status = "RUNNING"
        /\ NoRun.print = {}
    BY DEF NoRun
  <2> QED
    BY <1>5, <2>1, <2>2 DEF Fresh, Manifest
<1>7. Len(Steps) >= 4 /\ Len(Steps) \in Nat
  BY <1>1, LenProperties DEF PlanSound
<1>8. m.plan \in 1..Len(plans') /\ m.done < Len(plans'[m.plan])
  BY <1>2, <1>3, <1>6, <1>7
<1>9. Begin(m, restore) /\ clean' = clean \cup {Current + 1}
  BY DEF Execute, Fresh
<1>10. UNCHANGED surroundings
  BY DEF Execute, Begin
<1>11. clean' \subseteq 1..(Current + 1)
  BY <1>2, <1>9 DEF Typed, RestTyped
<1> HIDE DEF m
<1>12. /\ Typed' /\ Current' = Current + 1 /\ disk'[Current + 1] = m
       /\ \A r \in 1..Current : disk'[r] = disk[r]
  BY <1>4, <1>6, <1>8, <1>9, <1>10, <1>11, BeginTyped
<1>13. run' = m
  BY <1>9 DEF Begin
<1> QED
  BY <1>1, <1>3, <1>4, <1>6, <1>9, <1>12, <1>13 DEF m

LEMMA ResumeTyped ==
    ASSUME Typed, NEW restore \in BOOLEAN, NEW r \in 1..Current, Resume(r, restore)
    PROVE  /\ Typed' /\ Current' = Current + 1 /\ plans' = plans
           /\ run' = Resumed(r, restore) /\ disk'[Current + 1] = Resumed(r, restore)
           /\ \A i \in 1..Current : disk'[i] = disk[i]
           /\ clean' = clean \cup (IF r \in clean THEN {Current + 1} ELSE {})
           /\ Resumed(r, restore).plan = disk[r].plan /\ Resumed(r, restore).done = disk[r].done
           /\ Resumed(r, restore).snapshot = disk[r].snapshot
           /\ Resumed(r, restore).begun = disk[r].begun
           /\ Resumed(r, restore).status = "RUNNING"
           /\ disk[r].done < Len(PlanOf(disk[r]))
<1> DEFINE m == Resumed(r, restore)
<1>1. /\ Current \in Nat /\ Len(plans) \in Nat /\ plans \in Seq(Seq(PlannedStep))
      /\ disk[r] \in Manifest /\ disk[r].plan \in 1..Len(plans)
  BY CurrentNat DEF Typed, DiskTyped
<1>2. plans' = plans /\ disk[r].done < Len(PlanOf(disk[r])) /\ UNCHANGED surroundings
  BY DEF Resume, Begin
<1>3. Longer
  BY <1>1, <1>2 DEF Longer
<1>4. /\ m \in Manifest /\ m.plan = disk[r].plan /\ m.done = disk[r].done
      /\ m.snapshot = disk[r].snapshot /\ m.begun = disk[r].begun
      /\ m.status = "RUNNING" /\ m.print = {}
  BY <1>1 DEF Resumed, Restore, Manifest
<1>5. m \in Manifest'
  BY <1>2, <1>4 DEF Manifest
<1>6. Begin(m, restore)
  BY DEF Resume
<1>7. clean' = clean \cup (IF r \in clean THEN {Current + 1} ELSE {})
  BY DEF Resume, Inherits
<1>8. clean' \subseteq 1..(Current + 1)
  BY <1>1, <1>7 DEF Typed, RestTyped
<1> HIDE DEF m
<1>9. m.plan \in 1..Len(plans') /\ m.done < Len(plans'[m.plan])
  BY <1>1, <1>2, <1>4 DEF PlanOf
<1>10. /\ Typed' /\ Current' = Current + 1 /\ disk'[Current + 1] = m
       /\ \A i \in 1..Current : disk'[i] = disk[i]
  BY <1>2, <1>3, <1>4, <1>5, <1>6, <1>8, <1>9, BeginTyped
<1>11. run' = m
  BY <1>6 DEF Begin
<1> QED
  BY <1>2, <1>4, <1>7, <1>10, <1>11 DEF m

\* The manifest of a resume with no step left: the one it resumes, closed or not.
LEMMA ResumeWholeTyped ==
    ASSUME Typed, NEW restore \in BOOLEAN, NEW r \in 1..Current, ResumeWhole(r, restore)
    PROVE  /\ Typed' /\ Current' = Current + 1 /\ plans' = plans
           /\ \A i \in 1..Current : disk'[i] = disk[i]
           /\ clean' = clean \cup (IF r \in clean THEN {Current + 1} ELSE {})
           /\ disk[r].done = Len(PlanOf(disk[r]))
           /\ \E m \in Manifest :
                 /\ disk'[Current + 1] = m
                 /\ m.plan = disk[r].plan /\ m.done = disk[r].done
                 /\ m.snapshot = disk[r].snapshot /\ m.begun = disk[r].begun
<1>1. /\ Current \in Nat /\ disk \in Seq(Manifest) /\ plans \in Seq(Seq(PlannedStep))
      /\ disk[r] \in Manifest /\ disk[r].plan \in 1..Len(plans)
      /\ disk[r].done <= Len(PlanOf(disk[r]))
  BY CurrentNat DEF Typed, DiskTyped
<1>2. /\ proc.pc = "idle" /\ UNCHANGED <<surroundings, copy, plans, run, proc, moves>>
      /\ disk[r].done = Len(PlanOf(disk[r]))
      /\ clean' = clean \cup (IF r \in clean THEN {Current + 1} ELSE {})
  BY DEF ResumeWhole, Inherits
<1>3. /\ Fingerprint \in [core: Version, files: Nat]
  BY <1>1 DEF Fingerprint, Typed, CopyTyped, RestTyped
<1>4. PICK m \in {Executed(Resumed(r, restore)), Resumed(r, restore)} : disk' = Append(disk, m)
  BY DEF ResumeWhole
<1> DEFINE print == {Fingerprint}
<1>5. print \subseteq [core: Version, files: Nat] /\ print # {}
  BY <1>3
<1>6. Executed(Resumed(r, restore)) = [Resumed(r, restore) EXCEPT !.status = "EXECUTED", !.print = print]
  BY DEF Executed
<1> HIDE DEF print
<1>7. /\ m \in Manifest /\ m.plan = disk[r].plan /\ m.done = disk[r].done
      /\ m.snapshot = disk[r].snapshot /\ m.begun = disk[r].begun
      /\ m.status = "RUNNING" <=> m.print = {}
  <2>1. PICK old \in Manifest : old = disk[r]
    BY <1>1
  <2>2. PICK again : again = [old EXCEPT !.status = "RUNNING", !.print = {}, !.restore = restore]
    OBVIOUS
  <2>3. Resumed(r, restore) = again
    BY <2>1, <2>2 DEF Resumed, Restore
  <2>4. /\ again \in Manifest /\ again.plan = old.plan /\ again.done = old.done
        /\ again.snapshot = old.snapshot /\ again.begun = old.begun
        /\ again.status = "RUNNING" /\ again.print = {}
    BY <2>1, <2>2 DEF Manifest
  <2>5. PICK whole : whole = [again EXCEPT !.status = "EXECUTED", !.print = print]
    OBVIOUS
  <2>6. /\ whole \in Manifest /\ whole.plan = old.plan /\ whole.done = old.done
        /\ whole.snapshot = old.snapshot /\ whole.begun = old.begun
        /\ whole.status = "EXECUTED" /\ whole.print = print
    BY <1>5, <2>4, <2>5 DEF Manifest
  <2>7. m = again \/ m = whole
    BY <1>4, <1>6, <2>3, <2>5
  <2> QED
    BY <1>5, <2>1, <2>4, <2>6, <2>7
<1>8. /\ disk' \in Seq(Manifest) /\ Len(disk') = Current + 1
      /\ disk'[Current + 1] = m /\ \A i \in 1..Current : disk'[i] = disk[i]
  BY <1>1, <1>4, <1>7, AppendProperties DEF Current
<1>9. Current' = Current + 1 /\ Manifest' = Manifest
  BY <1>2, <1>8 DEF Current, Manifest
<1>10. DiskTyped'
  <2> SUFFICES ASSUME NEW i \in 1..(Current + 1)
               PROVE  /\ disk'[i].plan \in 1..Len(plans)
                      /\ disk'[i].done <= Len(plans[disk'[i].plan])
                      /\ disk'[i].status = "RUNNING" <=> disk'[i].print = {}
    BY <1>1, <1>2, <1>8, <1>9 DEF DiskTyped, PlanOf
  <2>1. CASE i = Current + 1
    BY <1>1, <1>7, <1>8, <2>1 DEF PlanOf
  <2>2. CASE i # Current + 1
    <3>1. i \in 1..Current
      BY <1>1, <2>2
    <3> QED
      BY <1>8, <3>1 DEF Typed, DiskTyped, PlanOf
  <2> QED
    BY <2>1, <2>2
<1>11. MemoryTyped'
  BY <1>2, <1>9 DEF Typed, MemoryTyped
<1>12. CopyTyped' /\ RestTyped'
  BY <1>1, <1>2, <1>9 DEF Typed, CopyTyped, RestTyped, copy, surroundings
<1> QED
  BY <1>2, <1>7, <1>8, <1>9, <1>10, <1>11, <1>12 DEF Typed

Taken == [run EXCEPT !.snapshot = {[options |-> widgets, late |-> run.begun]}]

LEMMA TakenTyped ==
    ASSUME Typed
    PROVE  /\ Taken \in Manifest /\ Taken.plan = run.plan /\ Taken.done = run.done
           /\ Taken.status = "RUNNING" /\ Taken.print = {} /\ Taken.begun = run.begun
           /\ Taken.snapshot = {[options |-> widgets, late |-> run.begun]}
<1>1. run \in Manifest /\ run.status = "RUNNING" /\ run.print = {} /\ widgets \in Widgets
  BY DEF Typed, MemoryTyped, CopyTyped
<1>2. run.begun \in BOOLEAN
  BY <1>1 DEF Manifest
<1> DEFINE reference == {[options |-> widgets, late |-> run.begun]}
<1>3. reference \subseteq Snapshot
  BY <1>1, <1>2 DEF Snapshot
<1>4. Taken = [run EXCEPT !.snapshot = reference]
  BY DEF Taken
<1> HIDE DEF reference
<1>5. /\ Taken \in Manifest /\ Taken.plan = run.plan /\ Taken.done = run.done
      /\ Taken.status = "RUNNING" /\ Taken.print = {} /\ Taken.begun = run.begun
      /\ Taken.snapshot = reference
  BY <1>1, <1>3, <1>4 DEF Manifest
<1> QED
  BY <1>5 DEF reference

LEMMA StepTyped ==
    ASSUME Typed, proc.pc # "idle", UNCHANGED <<surroundings, plans, disk, moves>>,
           NEW pc \in ProcPlaces, Go(pc), proc.pc = "facing" => Fits(StepHere),
           run' = run \/ run' = Begun \/ run' = Taken,
           CopyTyped', files' \in {files, Current}, clean' \subseteq clean
    PROVE  Typed'
<1>1. proc' \in ProcType
  BY GoTyped
<1>2. /\ run' \in Manifest /\ run'.status = "RUNNING" /\ run'.print = {}
      /\ run'.plan = run.plan /\ run'.done = run.done
  <2>1. CASE run' = run
    BY <2>1 DEF Typed, MemoryTyped
  <2>2. CASE run' = Begun
    BY <2>2, ManifestsTyped
  <2>3. CASE run' = Taken
    BY <2>3, TakenTyped
  <2> QED
    BY <2>1, <2>2, <2>3
<1> QED
  BY <1>1, <1>2, StayTyped

LEMMA ThroughTyped ==
    ASSUME Typed, proc.pc # "idle", UNCHANGED <<surroundings, plans, disk, moves>>,
           NEW pc \in ProcPlaces, Through(pc), proc.pc = "facing" => Fits(StepHere),
           run' = run \/ run' = Begun, Mine,
           CopyTyped', files' \in {files, Current}
    PROVE  Typed'
<1>1. PICK next \in {pc, "broken"} : Go(next)
  BY DEF Through
<1>2. next \in ProcPlaces
  BY DEF ProcPlaces
<1>3. clean' \subseteq clean
  BY DEF Mine
<1> QED
  BY <1>1, <1>2, <1>3, StepTyped

\* What a run does in its step, with the manifest in its memory.
LEMMA InStepTyped ==
    ASSUME Typed,
           \/ Preflight \/ SearchReplace \/ SnapshotWidgets \/ Checkpoint \/ UpdatePart
           \/ WidgetValidation
    PROVE  Typed'
<1>12. CopyTyped /\ UNCHANGED copy => CopyTyped' /\ files' \in {files, Current}
  BY DEF CopyTyped, copy
<1>13. CopyTyped /\ MemoryTyped
  BY DEF Typed
<1>1. CASE Preflight
  <2>1. proc.pc = "facing" /\ Fits(StepHere) /\ Go("judge") /\ run' = run /\ clean' = clean
        /\ UNCHANGED copy /\ UNCHANGED <<surroundings, plans, disk, moves>>
    BY <1>1 DEF Preflight, Facing
  <2>2. "judge" \in ProcPlaces
    BY DEF ProcPlaces
  <2> QED
    BY <1>12, <1>13, <2>1, <2>2, StepTyped
<1>2. CASE SearchReplace
  <2>1. /\ proc.pc = "facing" /\ Fits(StepHere) /\ Through("judge") /\ run' = run /\ Mine
        /\ UNCHANGED <<surroundings, plans, disk, moves>>
    BY <1>2 DEF SearchReplace, Facing
  <2>2. CopyTyped' /\ files' \in {files, Current}
    BY <1>2, <1>13 DEF SearchReplace, CopyTyped
  <2>3. "judge" \in ProcPlaces
    BY DEF ProcPlaces
  <2> QED
    BY <2>1, <2>2, <2>3, ThroughTyped
<1>3. CASE SnapshotWidgets
  <2>1. proc.pc = "facing" /\ Fits(StepHere) /\ Go("judge") /\ run' = Taken /\ clean' = clean
        /\ UNCHANGED copy /\ UNCHANGED <<surroundings, plans, disk, moves>>
    BY <1>3 DEF SnapshotWidgets, Facing, Taken
  <2>2. "judge" \in ProcPlaces
    BY DEF ProcPlaces
  <2> QED
    BY <1>12, <1>13, <2>1, <2>2, StepTyped
<1>4. CASE CheckVersion
  <2>1. proc.pc = "facing" /\ Fits(StepHere) /\ Go(AfterVersion(StepHere.target))
        /\ run' = Begun /\ clean' = clean
        /\ UNCHANGED copy /\ UNCHANGED <<surroundings, plans, disk, moves>>
    BY <1>4 DEF CheckVersion, Facing
  <2>2. AfterVersion(StepHere.target) \in ProcPlaces
    BY DEF ProcPlaces, AfterVersion
  <2> QED
    BY <1>12, <1>13, <2>1, <2>2, StepTyped
<1>5. CASE CoreUpdate
  <2>1. /\ proc.pc = "upgrading" /\ Through("migrating") /\ run' = run /\ Mine
        /\ UNCHANGED <<surroundings, plans, disk, moves>>
    BY <1>5 DEF CoreUpdate, Commands, Within
  <2>2. StepHere.target \in Version
    BY <2>1, StepHereTyped DEF PlannedStep
  <2>3. CopyTyped' /\ files' \in {files, Current}
    BY <1>5, <1>13, <2>2 DEF CoreUpdate, CopyTyped
  <2>4. "migrating" \in ProcPlaces
    BY DEF ProcPlaces
  <2> QED
    BY <2>1, <2>3, <2>4, ThroughTyped
<1>6. CASE CoreUpdateDb
  <2>1. /\ proc.pc = "migrating" /\ Through("verifying") /\ run' = run /\ Mine
        /\ UNCHANGED <<surroundings, plans, disk, moves>>
    BY <1>6 DEF CoreUpdateDb, Commands, Within
  <2>2. CopyTyped' /\ files' \in {files, Current}
    BY <1>6, <1>13 DEF CoreUpdateDb, CopyTyped
  <2>3. "verifying" \in ProcPlaces
    BY DEF ProcPlaces
  <2> QED
    BY <2>1, <2>2, <2>3, ThroughTyped
<1>7. CASE VerifyVersion
  <2>1. /\ proc.pc = "verifying" /\ Go("judge") /\ run' = run /\ clean' = clean
        /\ UNCHANGED copy /\ UNCHANGED <<surroundings, plans, disk, moves>>
    BY <1>7 DEF VerifyVersion, Commands, Within
  <2>2. "judge" \in ProcPlaces
    BY DEF ProcPlaces
  <2> QED
    BY <1>12, <1>13, <2>1, <2>2, StepTyped
<1>8. CASE UpdatePart
  <2>1. /\ proc.pc = "facing" /\ Fits(StepHere) /\ Through("judge") /\ run' = Begun /\ Mine
        /\ UNCHANGED <<surroundings, plans, disk, moves>>
    BY <1>8 DEF UpdatePart, Facing
  <2>2. CopyTyped' /\ files' \in {files, Current}
    BY <1>8, <1>13 DEF UpdatePart, CopyTyped
  <2>3. "judge" \in ProcPlaces
    BY DEF ProcPlaces
  <2> QED
    BY <2>1, <2>2, <2>3, ThroughTyped
<1>9. CASE ValidateWidgets
  <2>1. /\ proc.pc = "facing" /\ Fits(StepHere) /\ Go(AfterComparison) /\ run' = run
        /\ clean' = clean /\ UNCHANGED copy /\ UNCHANGED <<surroundings, plans, disk, moves>>
    BY <1>9 DEF ValidateWidgets, Facing
  <2>2. AfterComparison \in ProcPlaces
    BY DEF ProcPlaces, AfterComparison
  <2> QED
    BY <1>12, <1>13, <2>1, <2>2, StepTyped
<1>10. CASE RestoreWidgets
  <2>1. /\ proc.pc = "restoring" /\ Through("checking") /\ run' = run /\ Mine
        /\ UNCHANGED <<surroundings, plans, disk, moves, core, files, schema, url>>
    BY <1>10 DEF RestoreWidgets, Within
  <2>2. PICK reference \in run.snapshot : widgets' = reference.options
    BY <1>10 DEF RestoreWidgets
  <2>3. reference \in Snapshot
    BY <1>13 DEF MemoryTyped, Manifest
  <2>4. CopyTyped' /\ files' \in {files, Current}
    BY <1>13, <2>1, <2>2, <2>3 DEF CopyTyped, Snapshot
  <2>5. "checking" \in ProcPlaces
    BY DEF ProcPlaces
  <2> QED
    BY <2>1, <2>4, <2>5, ThroughTyped
<1>11. CASE CheckRestored
  <2>1. /\ proc.pc = "checking" /\ Go("judge") /\ run' = run /\ clean' = clean
        /\ UNCHANGED copy /\ UNCHANGED <<surroundings, plans, disk, moves>>
    BY <1>11 DEF CheckRestored, Within
  <2>2. "judge" \in ProcPlaces
    BY DEF ProcPlaces
  <2> QED
    BY <1>12, <1>13, <2>1, <2>2, StepTyped
<1> QED
  BY <1>1, <1>2, <1>3, <1>4, <1>5, <1>6, <1>7, <1>8, <1>9, <1>10, <1>11
     DEF Checkpoint, WidgetValidation

\* How a step, and the process with it, may end: the manifest that is left behind.
Left(m) ==
    \/ m = Closed(run)
    \/ m = Counted /\ proc.pc = "judge"
    \/ m = Finished /\ proc.pc = "judge" /\ Counted.done = Len(PlanOf(run))

LEMMA Ends ==
    ASSUME Typed, Fails \/ JudgeEnds \/ Crash
    PROVE  /\ proc.pc # "idle" /\ UNCHANGED <<surroundings, copy, plans, clean, moves>>
           /\ run' = NoRun /\ proc' = Idle
           /\ \E m : Left(m) /\ (disk' = disk \/ disk' = Saved(m))
<1>1. CASE Fails
  BY <1>1 DEF Fails, Left
<1>2. CASE JudgeEnds
  BY <1>2 DEF JudgeEnds, Left
<1>3. CASE Crash
  BY <1>3 DEF Crash, Left
<1> QED
  BY <1>1, <1>2, <1>3

LEMMA LeftTyped ==
    ASSUME Typed, proc.pc # "idle", NEW m, Left(m)
    PROVE  /\ m \in Manifest /\ m.plan = run.plan /\ m.done <= Len(PlanOf(run))
           /\ m.status = "RUNNING" <=> m.print = {}
           /\ m.snapshot = run.snapshot /\ m.begun = run.begun
           /\ \/ m.done = run.done
              \/ m.done = run.done + 1 /\ proc.pc = "judge"
           /\ m.status = "EXECUTED" => m.done = Len(PlanOf(run))
<1>1. run.done + 1 \in 1..Len(PlanOf(run)) /\ run.done \in Nat /\ Len(PlanOf(run)) \in Nat
  BY StepHereTyped
<1>2. run.done <= Len(PlanOf(run)) /\ run.done + 1 <= Len(PlanOf(run))
  BY <1>1
<1>3. CASE m = Closed(run)
  BY <1>2, <1>3, ManifestsTyped
<1>4. CASE m = Counted /\ proc.pc = "judge"
  BY <1>2, <1>4, ManifestsTyped
<1>5. CASE m = Finished /\ proc.pc = "judge" /\ Counted.done = Len(PlanOf(run))
  BY <1>2, <1>5, ManifestsTyped
<1> QED
  BY <1>3, <1>4, <1>5 DEF Left

LEMMA EndsTyped ==
    ASSUME Typed, Fails \/ JudgeEnds \/ Crash
    PROVE  Typed'
<1>1. /\ proc.pc # "idle" /\ UNCHANGED <<surroundings, copy, plans, clean, moves>>
      /\ run' = NoRun /\ proc' = Idle
      /\ \E m : Left(m) /\ (disk' = disk \/ disk' = Saved(m))
  BY Ends
<1>2. PICK m : Left(m) /\ (disk' = disk \/ disk' = Saved(m))
  BY <1>1
<1>3. /\ m \in Manifest /\ m.plan = run.plan /\ m.done <= Len(PlanOf(run))
      /\ m.status = "RUNNING" <=> m.print = {}
  BY <1>1, <1>2, LeftTyped
<1> QED
  BY <1>1, <1>2, <1>3, EndTyped

LEMMA ContinuesTyped ==
    ASSUME Typed, JudgeContinues
    PROVE  Typed' /\ run' = Counted /\ disk' = Saved(Counted) /\ Counted.done < Len(PlanOf(run))
<1>1. /\ proc.pc = "judge" /\ run' = Counted /\ disk' = Saved(Counted)
      /\ Counted.done < Len(PlanOf(run))
      /\ proc' = [proc EXCEPT !.pc = "facing", !.inspected = 0]
      /\ UNCHANGED <<surroundings, copy, plans, clean, moves>>
  BY DEF JudgeContinues
<1>2. /\ Counted \in Manifest /\ Counted.plan = run.plan /\ Counted.done = run.done + 1
      /\ Counted.status = "RUNNING" /\ Counted.print = {}
  BY <1>1, ManifestsTyped
<1>3. Counted.done <= Len(PlanOf(run))
  BY <1>1, <1>2, StepHereTyped
<1>4. DiskTyped' /\ Current' = Current
  BY <1>1, <1>2, <1>3, SavedTyped
<1>5. MemoryTyped'
  <2>1. proc' \in ProcType
    BY <1>1 DEF Typed, MemoryTyped, ProcType, ProcPlaces, Version
  <2>2. Manifest' = Manifest
    BY <1>1 DEF Manifest
  <2>3. run.plan \in 1..Len(plans) /\ Current >= 1
    BY <1>1 DEF Typed, MemoryTyped
  <2> QED
    BY <1>1, <1>2, <1>4, <2>1, <2>2, <2>3 DEF MemoryTyped, PlanOf
<1>6. CopyTyped' /\ RestTyped'
  BY <1>1, <1>4 DEF Typed, CopyTyped, RestTyped, copy, surroundings
<1> QED
  BY <1>1, <1>4, <1>5, <1>6 DEF Typed

LEMMA OutsideTyped ==
    ASSUME Typed, EditPhp \/ EditWidgets \/ Migrate
    PROVE  /\ Typed' /\ UNCHANGED <<latest, plans, disk, run, proc>>
           /\ (core' = core /\ schema' = schema) \/ proc.pc = "idle"
           /\ clean' = {} \/ UNCHANGED <<copy, clean>>
<1>1. UNCHANGED <<latest, explicit, plans, disk, run, proc>> /\ moves' = moves + 1
      /\ Current + moves < MaxMoves
  BY DEF EditPhp, EditWidgets, Migrate, Outside
<1>2. DiskTyped' /\ MemoryTyped' /\ Current' = Current
  BY <1>1 DEF Typed, DiskTyped, MemoryTyped, Manifest, PlanOf, Current
<1>3. Current \in Nat /\ moves \in Nat /\ MaxMoves \in Nat
  BY CurrentNat, BoundAssumption DEF Typed, RestTyped
<1>4. moves' \in 0..MaxMoves
  BY <1>1, <1>3
<1>5. php' \in [Runtimes -> Version]
  BY RuntimesAssumption DEF EditPhp, EditWidgets, Migrate, Typed, RestTyped
<1>6. /\ CopyTyped' /\ files' \in 0..Current
      /\ clean' = {} \/ UNCHANGED <<copy, clean>>
      /\ (core' = core /\ schema' = schema) \/ proc.pc = "idle"
  <2>1. CASE EditPhp
    BY <2>1 DEF EditPhp, Typed, CopyTyped, RestTyped, copy
  <2>2. CASE EditWidgets
    BY <2>2 DEF EditWidgets, Typed, CopyTyped, RestTyped
  <2>3. CASE Migrate
    BY <1>3, <2>3, BoundAssumption DEF Migrate, CopyTyped
  <2> QED
    BY <2>1, <2>2, <2>3
<1>7. RestTyped'
  BY <1>1, <1>2, <1>4, <1>5, <1>6 DEF Typed, RestTyped
<1> QED
  BY <1>1, <1>2, <1>6, <1>7 DEF Typed

LEMMA NextTyped ==
    ASSUME Typed, [Next]_vars
    PROVE  Typed'
<1>1. CASE \E restore \in BOOLEAN :
                \/ Execute(restore)
                \/ \E r \in 1..Current : Resume(r, restore) \/ ResumeWhole(r, restore)
  BY <1>1, ExecuteTyped, ResumeTyped, ResumeWholeTyped
<1>2. CASE EditPhp \/ EditWidgets \/ Migrate
  BY <1>2, OutsideTyped
<1>3. CASE Process
  BY <1>3, InStepTyped, ContinuesTyped, EndsTyped DEF Process
<1>4. CASE UNCHANGED vars
  BY <1>4 DEF vars, surroundings, copy, Typed, DiskTyped, MemoryTyped, CopyTyped, RestTyped,
               Current, PlanOf, Manifest
<1> QED
  BY <1>1, <1>2, <1>3, <1>4 DEF Next

\* Every manifest keeps its place in a plan that was made for it, and has a fingerprint once
\* it is closed; every version, step and reference is one (service.py 331-395).
THEOREM TypeCorrect == Spec => []TypeOK
<1>1. Init => Typed
  BY InitTyped
<1>2. Typed /\ [Next]_vars => Typed'
  BY NextTyped
<1>3. Typed => TypeOK
  BY TypedTypeOK
<1> QED
  BY <1>1, <1>2, <1>3, PTL DEF Spec

-----------------------------------------------------------------------------
(***************************************************************************)
(* What the properties rest on.                                            *)
(***************************************************************************)

\* A copy on which d steps of a plan are done, with s the reference of its widgets, and
\* which nobody else changed since it was planned.
Good(p, d, s) ==
    /\ \A i \in 1..d : IsCheckpoint(p[i]) => core >= p[i].target
    /\ Covers(p, core)
    /\ (\A i \in (d + 1)..Len(p) : ~ IsCheckpoint(p[i])) => core = latest /\ schema = core
    /\ d = Len(p) => s = {[options |-> widgets, late |-> FALSE]}
GoodRun(r) == Good(PlanOf(disk[r]), disk[r].done, disk[r].snapshot)

\* The reference of the widgets was taken before the update began.
Reference(s) == \E o \in Widgets : s = {[options |-> o, late |-> FALSE]}
Remembered(s, begun, d) == (begun => d >= 3) /\ (d >= 3 => Reference(s))

PlansSound == \A k \in 1..Len(plans) : PlanSound(plans[k])
DiskKept ==
    \A r \in 1..Current :
        /\ Remembered(disk[r].snapshot, disk[r].begun, disk[r].done)
        /\ disk[r].status = "EXECUTED" => disk[r].done = Len(PlanOf(disk[r]))
CleanGood == \A r \in clean : GoodRun(r)
MemoryKept ==
    proc.pc # "idle" =>
        /\ run.plan = disk[Current].plan /\ run.done = disk[Current].done
        /\ Remembered(run.snapshot, run.begun, run.done)

\* Where the process is in its step.
AtCheckpoint ==
    /\ proc.pc \in {"upgrading", "migrating", "verifying"} =>
          IsCheckpoint(StepHere) /\ Accepts(Php(StepHere.stage), proc.inspected)
    /\ proc.pc = "upgrading" => core < StepHere.target
    /\ proc.pc = "verifying" => schema = core
AtWidgets == proc.pc \in {"restoring", "checking"} => StepHere.name = "widget_validation"
AtJudge ==
    proc.pc = "judge" =>
        /\ IsCheckpoint(StepHere) => core = StepHere.target /\ schema = core
        /\ StepHere.name = "widget_validation" /\ Current \in clean => Same
        /\ StepHere.name = "snapshot" => Reference(run.snapshot)
AtPlace == AtCheckpoint /\ AtWidgets /\ AtJudge

Kept == PlansSound /\ DiskKept /\ CleanGood /\ MemoryKept /\ AtPlace

LEMMA InitKept ==
    ASSUME Init
    PROVE  Kept
<1>1. plans = <<>> /\ disk = <<>> /\ proc.pc = "idle" /\ clean = {}
  BY DEF Init, Idle
<1>2. Len(plans) = 0 /\ Current = 0
  BY <1>1 DEF Current
<1> QED
  BY <1>1, <1>2 DEF Kept, PlansSound, DiskKept, CleanGood, MemoryKept, AtPlace, AtCheckpoint,
                    AtWidgets, AtJudge

\* The step of the process is one of a sound plan.
LEMMA SoundHere ==
    ASSUME Typed, Kept, proc.pc # "idle"
    PROVE  /\ PlanSound(PlanOf(run)) /\ StepHere = PlanOf(run)[run.done + 1]
           /\ run.done + 1 \in 1..Len(PlanOf(run))
           /\ StepHere.name = "snapshot" <=> run.done = 2
           /\ run.done + 1 = Len(PlanOf(run)) => StepHere.name = "widget_validation"
           /\ IsCheckpoint(StepHere) \/ StepHere.name \in UpdateStep => run.done >= 3
           /\ \A a, b \in StepHere.runtime : a = b
           /\ IsCheckpoint(StepHere) => StepHere.name \notin {"snapshot", "widget_validation"}
<1> DEFINE p == PlanOf(run)
           i == run.done + 1
<1>1. PlanSound(p)
  BY DEF Typed, MemoryTyped, Kept, PlansSound, PlanOf
<1>2. i \in 1..Len(p) /\ StepHere = p[i] /\ run.done \in Nat /\ Len(p) \in Nat
  BY StepHereTyped DEF StepHere
<1>3. i \in 4..Len(p) \/ i = 1 \/ i = 2 \/ i = 3
  BY <1>2
<1>4. /\ p[1].name = "preflight" /\ p[2].name = "pending_search_replace" /\ p[3].name = "snapshot"
      /\ \A j \in 4..Len(p) : p[j].name \notin {"preflight", "pending_search_replace", "snapshot"}
      /\ p[Len(p)].name = "widget_validation"
      /\ \A j \in 1..Len(p) : \A a, b \in p[j].runtime : a = b
  BY <1>1 DEF PlanSound
<1>5. p[i].name = "snapshot" <=> i = 3
  BY <1>3, <1>4
<1>6. IsCheckpoint(p[i]) \/ p[i].name \in UpdateStep => i >= 4
  BY <1>3, <1>4 DEF IsCheckpoint, UpdateStep
<1> HIDE DEF p
<1>7. run.done = 2 <=> i = 3
  BY <1>2
<1>8. i >= 4 => run.done >= 3
  BY <1>2
<1>9. IsCheckpoint(StepHere) => StepHere.name \notin {"snapshot", "widget_validation"}
  BY DEF IsCheckpoint
<1>10. \A a, b \in p[i].runtime : a = b
  BY <1>2, <1>4
<1> QED
  BY <1>1, <1>2, <1>4, <1>5, <1>6, <1>7, <1>8, <1>9, <1>10 DEF p

\* What fits a step is what its runtime reports, as there is one.
LEMMA FitsHere ==
    ASSUME Typed, Kept, proc.pc # "idle", Fits(StepHere)
    PROVE  Accepts(Php(StepHere.stage), Launched)
<1>1. PICK name \in StepHere.runtime : Accepts(Php(StepHere.stage), php[name])
  BY DEF Fits
<1>2. (CHOOSE n \in StepHere.runtime : TRUE) = name
  BY SoundHere
<1> QED
  BY <1>1, <1>2 DEF Launched

LEMMA SoundStays ==
    ASSUME latest' = latest
    PROVE  /\ \A p : PlanSound(p)' <=> PlanSound(p)
           /\ \A stage : Php(stage)' = Php(stage)
BY DEF PlanSound, FamiliesOf, Wordpress, Php, FinalPhp

LEMMA PlanTypes ==
    ASSUME NEW p \in Seq(PlannedStep)
    PROVE  /\ DOMAIN p = 1..Len(p) /\ Len(p) \in Nat
           /\ \A i \in 1..Len(p) : p[i] \in PlannedStep /\ p[i].target \in Nat
<1>1. DOMAIN p = 1..Len(p) /\ Len(p) \in Nat /\ \A i \in 1..Len(p) : p[i] \in PlannedStep
  BY LenProperties, ElementOfSeq
<1>2. \A step \in PlannedStep : step.target \in Nat
  BY DEF PlannedStep, Version
<1> QED
  BY <1>1, <1>2

\* A copy of which other parts are changed.
LEMMA GoodStays ==
    ASSUME NEW p \in Seq(PlannedStep), NEW d \in Nat, d < Len(p), NEW s, Good(p, d, s),
           latest' = latest, core \in Nat, core' \in Nat, core' >= core,
           IsCheckpoint(p[d + 1]) \/ (core' = core /\ schema' = schema)
    PROVE  Good(p, d, s)'
<1>1. ASSUME NEW i \in 1..d, IsCheckpoint(p[i]) PROVE core' >= p[i].target
  <2>1. core >= p[i].target
    BY <1>1 DEF Good
  <2>2. i \in 1..Len(p)
    BY PlanTypes
  <2>3. p[i].target \in Nat
    BY <2>2, PlanTypes
  <2> QED
    BY <2>1, <2>3
<1>2. Covers(p, core')
  <2>1. \A c \in Checkpoints : Passes(c) > core' => Passes(c) > core
    BY PolicyTypes
  <2> QED
    BY <2>1 DEF Good, Covers
<1>3. d # Len(p) /\ d + 1 \in (d + 1)..Len(p)
  BY PlanTypes
<1>4. (\A i \in (d + 1)..Len(p) : ~ IsCheckpoint(p[i])) => core' = latest' /\ schema' = core'
  BY <1>3 DEF Good
<1> QED
  BY <1>1, <1>2, <1>3, <1>4 DEF Good

\* The manifest on disk is at the place of the one in memory.
LEMMA CurrentPlan ==
    ASSUME Typed, Kept, proc.pc # "idle"
    PROVE  /\ Current \in 1..Current /\ PlanOf(disk[Current]) = PlanOf(run)
           /\ disk[Current].done = run.done
           /\ PlanOf(run) \in Seq(PlannedStep) /\ run.done \in Nat /\ run.done < Len(PlanOf(run))
<1>1. Current \in 1..Current
  BY CurrentNat DEF Typed, MemoryTyped
<1>2. PlanOf(disk[Current]) = PlanOf(run) /\ disk[Current].done = run.done
  BY DEF Kept, MemoryKept, PlanOf
<1>3. PlanOf(run) \in Seq(PlannedStep) /\ run.done \in Nat
  BY StepHereTyped
<1>4. run.done < Len(PlanOf(run))
  BY DEF Typed, MemoryTyped
<1> QED
  BY <1>1, <1>2, <1>3, <1>4

\* Within a step: nothing is written to a manifest on disk, and this run alone may go on
\* taking the copy for its own.
LEMMA StayKept ==
    ASSUME Typed, Kept, proc.pc # "idle", UNCHANGED <<surroundings, plans, disk, moves>>,
           run'.plan = run.plan, run'.done = run.done,
           Remembered(run'.snapshot, run'.begun, run'.done),
           Mine, core' \in Nat, core' >= core,
           IsCheckpoint(StepHere) \/ (core' = core /\ schema' = schema), AtPlace'
    PROVE  Kept'
<1>1. PlansSound'
  BY SoundStays DEF Kept, PlansSound, surroundings
<1>2. DiskKept'
  BY DEF Kept, DiskKept, Remembered, Reference, PlanOf, Current
<1>3. ASSUME NEW r \in clean'
      PROVE  GoodRun(r)'
  <2>1. latest' = latest /\ r \in clean /\ GoodRun(r)
    BY <1>3 DEF Mine, Kept, CleanGood, surroundings
  <2>2. CASE UNCHANGED copy
    BY <2>1, <2>2 DEF GoodRun, Good, Covers, copy, PlanOf
  <2>3. CASE ~ UNCHANGED copy
    <3>1. r = Current
      BY <1>3, <2>3 DEF Mine
    <3>2. PICK p \in Seq(PlannedStep), d \in Nat :
             p = PlanOf(disk[r]) /\ d = disk[r].done /\ p = PlanOf(run) /\ d = run.done
      BY <3>1, CurrentPlan
    <3> PICK s : s = disk[r].snapshot
      OBVIOUS
    <3>3. d < Len(p) /\ p[d + 1] = StepHere /\ Good(p, d, s)
      BY <2>1, <3>2, CurrentPlan DEF StepHere, GoodRun
    <3>4. core \in Nat
      BY DEF Typed, CopyTyped, Version
    <3>5. Good(p, d, s)'
      BY <2>1, <3>3, <3>4, GoodStays
    <3> QED
      BY <3>2, <3>5 DEF GoodRun, Good, PlanOf
  <2> QED
    BY <2>2, <2>3
<1>4. MemoryKept'
  <2>1. Current' = Current
    BY DEF Current
  <2> QED
    BY <2>1 DEF Kept, MemoryKept, Remembered, Reference
<1> QED
  BY <1>1, <1>2, <1>3, <1>4 DEF Kept, CleanGood

\* The places in which a step is not under way.
LEMMA ApartFromPlaces ==
    ASSUME proc.pc \in {"idle", "facing", "broken"}
    PROVE  AtPlace
BY DEF AtPlace, AtCheckpoint, AtWidgets, AtJudge

LEMMA HereStays ==
    ASSUME plans' = plans, run'.plan = run.plan, run'.done = run.done
    PROVE  StepHere' = StepHere
BY DEF StepHere, PlanOf

\* The manifest of a step that goes on.
LEMMA RunStays ==
    ASSUME Typed, Kept, proc.pc # "idle",
           \/ run' = run
           \/ run' = Begun /\ (IsCheckpoint(StepHere) \/ StepHere.name \in UpdateStep)
           \/ run' = Taken /\ StepHere.name = "snapshot"
    PROVE  /\ run'.plan = run.plan /\ run'.done = run.done
           /\ Remembered(run'.snapshot, run'.begun, run'.done)
           /\ StepHere.name = "snapshot" /\ run' = Taken => Reference(run'.snapshot)
           /\ run' = run \/ run' = Begun => run'.snapshot = run.snapshot
<1>1. Remembered(run.snapshot, run.begun, run.done) /\ run.done \in Nat
  BY CurrentPlan DEF Kept, MemoryKept
<1>2. Begun.plan = run.plan /\ Begun.done = run.done /\ Begun.snapshot = run.snapshot
  BY ManifestsTyped
<1>3. CASE run' = Begun /\ (IsCheckpoint(StepHere) \/ StepHere.name \in UpdateStep)
  <2>1. run.done >= 3 /\ Reference(run.snapshot)
    BY <1>1, <1>3, SoundHere DEF Remembered
  <2>2. /\ run'.plan = run.plan /\ run'.done = run.done
        /\ Remembered(run'.snapshot, run'.begun, run'.done)
    BY <1>2, <1>3, <2>1 DEF Remembered
  <2>3. StepHere.name # "snapshot"
    BY <1>3, SoundHere DEF UpdateStep
  <2> QED
    BY <1>2, <2>2, <2>3
<1>4. CASE run' = Taken /\ StepHere.name = "snapshot"
  <2>1. run.done = 2 /\ run.begun = FALSE
    <3>1. run.done = 2
      BY <1>4, SoundHere
    <3>2. run.begun \in BOOLEAN
      BY DEF Typed, MemoryTyped, Manifest
    <3> QED
      BY <1>1, <3>1, <3>2 DEF Remembered
  <2>2. /\ Taken.plan = run.plan /\ Taken.done = run.done /\ Taken.begun = run.begun
        /\ Taken.snapshot = {[options |-> widgets, late |-> run.begun]}
    BY TakenTyped
  <2>3. Reference(Taken.snapshot)
    BY <2>1, <2>2 DEF Reference, Typed, CopyTyped
  <2>4. /\ run'.plan = run.plan /\ run'.done = run.done /\ Reference(run'.snapshot)
        /\ Remembered(run'.snapshot, run'.begun, run'.done)
    BY <1>4, <2>1, <2>2, <2>3 DEF Remembered
  <2>5. run' = run \/ run' = Begun => run'.snapshot = run.snapshot
    BY <1>2
  <2> QED
    BY <2>4, <2>5
<1>5. CASE run' = run /\ ~ (run' = Taken /\ StepHere.name = "snapshot")
  BY <1>1, <1>5
<1> QED
  BY <1>3, <1>4, <1>5

\* A step that leaves the versions of the copy alone and has no place of its own.
LEMMA PlainKept ==
    ASSUME Typed, Kept, proc.pc # "idle", UNCHANGED <<surroundings, plans, disk, moves>>,
           run'.plan = run.plan, run'.done = run.done,
           Remembered(run'.snapshot, run'.begun, run'.done),
           Mine, core' = core, schema' = schema, AtPlace'
    PROVE  Kept'
<1>1. core \in Nat
  BY DEF Typed, CopyTyped, Version
<1>2. core' \in Nat /\ core' >= core
  BY <1>1
<1> QED
  BY <1>2, StayKept

\* What "judge" finds of a step other than a checkpoint and the validation.
LEMMA JudgeOther ==
    ASSUME Typed, Kept, proc.pc # "idle", plans' = plans,
           run'.plan = run.plan, run'.done = run.done,
           proc'.pc \in {"judge", "broken"},
           ~ IsCheckpoint(StepHere), StepHere.name # "widget_validation",
           StepHere.name = "snapshot" => Reference(run'.snapshot)
    PROVE  AtPlace'
<1>1. StepHere' = StepHere
  BY HereStays
<1> QED
  BY <1>1 DEF AtPlace, AtCheckpoint, AtWidgets, AtJudge, IsCheckpoint, Reference

LEMMA UnchangedMine ==
    ASSUME UNCHANGED copy, clean' = clean
    PROVE  Mine /\ core' = core /\ schema' = schema /\ widgets' = widgets
BY DEF Mine, copy

LEMMA ThroughPlaces ==
    ASSUME Typed, proc.pc # "idle", NEW pc \in ProcPlaces, Through(pc),
           proc.pc = "facing" => Fits(StepHere)
    PROVE  /\ proc'.pc \in {pc, "broken"}
           /\ proc.pc # "facing" => proc'.inspected = proc.inspected
<1>1. PICK next \in {pc, "broken"} : Go(next)
  BY DEF Through
<1>2. next \in ProcPlaces
  BY DEF ProcPlaces
<1> QED
  BY <1>1, <1>2, GoTyped

LEMMA PreparationKept ==
    ASSUME Typed, Kept, Preflight \/ SearchReplace \/ SnapshotWidgets
    PROVE  Kept'
<1>0. "judge" \in ProcPlaces
  BY DEF ProcPlaces
<1>1. CASE Preflight
  <2>1. /\ proc.pc = "facing" /\ Fits(StepHere) /\ Go("judge") /\ run' = run /\ clean' = clean
        /\ UNCHANGED copy /\ UNCHANGED <<surroundings, plans, disk, moves>>
        /\ StepHere.name = "preflight"
    BY <1>1 DEF Preflight, Facing
  <2>2. proc'.pc = "judge"
    BY <1>0, <2>1, GoTyped
  <2>3. /\ run'.plan = run.plan /\ run'.done = run.done
        /\ Remembered(run'.snapshot, run'.begun, run'.done)
    BY <2>1, RunStays
  <2>4. AtPlace'
    BY <2>1, <2>2, <2>3, JudgeOther DEF IsCheckpoint
  <2> QED
    BY <2>1, <2>3, <2>4, UnchangedMine, PlainKept
<1>2. CASE SearchReplace
  <2>1. /\ proc.pc = "facing" /\ Fits(StepHere) /\ Through("judge") /\ run' = run /\ Mine
        /\ UNCHANGED <<surroundings, plans, disk, moves>> /\ core' = core /\ schema' = schema
        /\ StepHere.name = "pending_search_replace"
    BY <1>2 DEF SearchReplace, Facing
  <2>2. proc'.pc \in {"judge", "broken"}
    BY <1>0, <2>1, ThroughPlaces
  <2>3. /\ run'.plan = run.plan /\ run'.done = run.done
        /\ Remembered(run'.snapshot, run'.begun, run'.done)
    BY <2>1, RunStays
  <2>4. AtPlace'
    BY <2>1, <2>2, <2>3, JudgeOther DEF IsCheckpoint
  <2> QED
    BY <2>1, <2>3, <2>4, PlainKept
<1>3. CASE SnapshotWidgets
  <2>1. /\ proc.pc = "facing" /\ Fits(StepHere) /\ Go("judge") /\ run' = Taken /\ clean' = clean
        /\ UNCHANGED copy /\ UNCHANGED <<surroundings, plans, disk, moves>>
        /\ StepHere.name = "snapshot"
    BY <1>3 DEF SnapshotWidgets, Facing, Taken
  <2>2. proc'.pc = "judge"
    BY <1>0, <2>1, GoTyped
  <2>3. /\ run'.plan = run.plan /\ run'.done = run.done
        /\ Remembered(run'.snapshot, run'.begun, run'.done) /\ Reference(run'.snapshot)
    BY <2>1, RunStays
  <2>4. AtPlace'
    BY <2>1, <2>2, <2>3, JudgeOther DEF IsCheckpoint
  <2> QED
    BY <2>1, <2>3, <2>4, UnchangedMine, PlainKept
<1> QED
  BY <1>1, <1>2, <1>3

\* Within a checkpoint the place stays, and what was inspected.
LEMMA WithinCheckpoint ==
    ASSUME Typed, Kept, proc.pc \in {"upgrading", "migrating", "verifying"},
           latest' = latest, plans' = plans, run' = run,
           proc'.pc \in {"migrating", "verifying", "judge", "broken"},
           proc'.inspected = proc.inspected,
           proc'.pc = "verifying" => schema' = core',
           proc'.pc = "judge" => core' = StepHere.target /\ schema' = core'
    PROVE  AtPlace'
<1>1. StepHere' = StepHere
  BY HereStays
<1>2. IsCheckpoint(StepHere) /\ Accepts(Php(StepHere.stage), proc.inspected)
  BY DEF Kept, AtPlace, AtCheckpoint
<1>3. StepHere.name \notin {"snapshot", "widget_validation"}
  BY <1>2 DEF IsCheckpoint
<1>4. Php(StepHere.stage)' = Php(StepHere.stage)
  BY <1>1, SoundStays
<1>5. AtCheckpoint'
  BY <1>1, <1>2, <1>4 DEF AtCheckpoint, IsCheckpoint, Accepts
<1>6. AtWidgets' /\ AtJudge'
  BY <1>1, <1>3 DEF AtWidgets, AtJudge, IsCheckpoint
<1> QED
  BY <1>5, <1>6 DEF AtPlace

LEMMA CheckpointKept ==
    ASSUME Typed, Kept, Checkpoint
    PROVE  Kept'
<1>1. CASE CheckVersion
  <2>1. /\ proc.pc = "facing" /\ Fits(StepHere) /\ Go(AfterVersion(StepHere.target))
        /\ Upgrades(StepHere.target) \/ core = StepHere.target
        /\ run' = Begun /\ clean' = clean /\ UNCHANGED copy
        /\ UNCHANGED <<surroundings, plans, disk, moves>> /\ IsCheckpoint(StepHere)
    BY <1>1 DEF CheckVersion, Facing, IsCheckpoint
  <2>2. AfterVersion(StepHere.target) \in ProcPlaces
    BY DEF AfterVersion, ProcPlaces
  <2>3. /\ proc'.pc = AfterVersion(StepHere.target)
        /\ proc'.inspected = Launched
    BY <2>1, <2>2, GoTyped
  <2>4. /\ run'.plan = run.plan /\ run'.done = run.done
        /\ Remembered(run'.snapshot, run'.begun, run'.done)
    BY <2>1, RunStays
  <2>5. StepHere' = StepHere /\ Php(StepHere.stage)' = Php(StepHere.stage)
    BY <2>1, <2>4, HereStays, SoundStays DEF surroundings
  <2>6. Accepts(Php(StepHere.stage), proc'.inspected)
    BY <2>1, <2>3, FitsHere
  <2>7. /\ proc'.pc \in {"upgrading", "migrating"}
        /\ proc'.pc = "upgrading" => core < StepHere.target
    BY <2>3 DEF AfterVersion, Upgrades
  <2>8. AtCheckpoint'
    BY <2>1, <2>5, <2>6, <2>7 DEF AtCheckpoint, IsCheckpoint, Accepts, copy
  <2>9. AtWidgets' /\ AtJudge'
    BY <2>7 DEF AtWidgets, AtJudge
  <2>10. AtPlace'
    BY <2>8, <2>9 DEF AtPlace
  <2> QED
    BY <2>1, <2>4, <2>10, UnchangedMine, PlainKept
<1>2. CASE CoreUpdate
  <2>1. /\ proc.pc = "upgrading" /\ Through("migrating") /\ run' = run /\ Mine
        /\ UNCHANGED <<surroundings, plans, disk, moves>> /\ core' = StepHere.target
    BY <1>2 DEF CoreUpdate, Commands, Within
  <2>2. "migrating" \in ProcPlaces
    BY DEF ProcPlaces
  <2>3. proc'.pc \in {"migrating", "broken"} /\ proc'.inspected = proc.inspected
    BY <2>1, <2>2, ThroughPlaces
  <2>4. AtPlace'
    BY <2>1, <2>3, WithinCheckpoint DEF surroundings
  <2>5. core < StepHere.target /\ IsCheckpoint(StepHere)
    BY <2>1 DEF Kept, AtPlace, AtCheckpoint
  <2>6. core \in Nat /\ StepHere.target \in Nat
    BY <2>1, StepHereTyped DEF Typed, CopyTyped, PlannedStep, Version
  <2>7. core' \in Nat /\ core' >= core
    BY <2>1, <2>5, <2>6
  <2>8. /\ run'.plan = run.plan /\ run'.done = run.done
        /\ Remembered(run'.snapshot, run'.begun, run'.done)
    BY <2>1, RunStays
  <2> QED
    BY <2>1, <2>4, <2>5, <2>7, <2>8, StayKept
<1>3. CASE CoreUpdateDb
  <2>1. /\ proc.pc = "migrating" /\ Through("verifying") /\ run' = run /\ Mine
        /\ UNCHANGED <<surroundings, plans, disk, moves>> /\ core' = core /\ schema' = core
    BY <1>3 DEF CoreUpdateDb, Commands, Within
  <2>2. "verifying" \in ProcPlaces
    BY DEF ProcPlaces
  <2>3. proc'.pc \in {"verifying", "broken"} /\ proc'.inspected = proc.inspected
    BY <2>1, <2>2, ThroughPlaces
  <2>4. AtPlace'
    BY <2>1, <2>3, WithinCheckpoint DEF surroundings
  <2>5. IsCheckpoint(StepHere)
    BY <2>1 DEF Kept, AtPlace, AtCheckpoint
  <2>6. core \in Nat
    BY DEF Typed, CopyTyped, Version
  <2>7. core' \in Nat /\ core' >= core
    BY <2>1, <2>6
  <2>8. /\ run'.plan = run.plan /\ run'.done = run.done
        /\ Remembered(run'.snapshot, run'.begun, run'.done)
    BY <2>1, RunStays
  <2> QED
    BY <2>1, <2>4, <2>5, <2>7, <2>8, StayKept
<1>4. CASE VerifyVersion
  <2>1. /\ proc.pc = "verifying" /\ Go("judge") /\ run' = run /\ clean' = clean
        /\ UNCHANGED copy /\ UNCHANGED <<surroundings, plans, disk, moves>>
        /\ core = StepHere.target
    BY <1>4 DEF VerifyVersion, Commands, Within
  <2>2. "judge" \in ProcPlaces
    BY DEF ProcPlaces
  <2>3. proc'.pc = "judge" /\ proc'.inspected = proc.inspected
    BY <2>1, <2>2, GoTyped
  <2>4. core' = core /\ schema' = core
    BY <2>1 DEF Kept, AtPlace, AtCheckpoint, copy
  <2>5. AtPlace'
    BY <2>1, <2>3, <2>4, WithinCheckpoint DEF surroundings
  <2>6. /\ run'.plan = run.plan /\ run'.done = run.done
        /\ Remembered(run'.snapshot, run'.begun, run'.done)
    BY <2>1, RunStays
  <2> QED
    BY <2>1, <2>5, <2>6, UnchangedMine, PlainKept
<1> QED
  BY <1>1, <1>2, <1>3, <1>4 DEF Checkpoint

LEMMA UpdateKept ==
    ASSUME Typed, Kept, UpdatePart
    PROVE  Kept'
<1>1. PICK i \in DOMAIN UpdateStepNames :
         UpdateStepNames[i] # "widget_validation" /\ Facing(UpdateStepNames[i])
  BY DEF UpdatePart
<1>2. UpdateStepNames[i] \in UpdateStep
  BY UpdateStepsAssumption, ElementOfSeq, LenProperties
<1>3. /\ proc.pc = "facing" /\ Fits(StepHere) /\ Through("judge") /\ run' = Begun /\ Mine
      /\ UNCHANGED <<surroundings, plans, disk, moves>> /\ core' = core /\ schema' = schema
      /\ StepHere.name \in UpdateStep /\ StepHere.name # "widget_validation"
  BY <1>1, <1>2 DEF UpdatePart, Facing
<1>4. "judge" \in ProcPlaces
  BY DEF ProcPlaces
<1>5. proc'.pc \in {"judge", "broken"}
  BY <1>3, <1>4, ThroughPlaces
<1>6. /\ run'.plan = run.plan /\ run'.done = run.done
      /\ Remembered(run'.snapshot, run'.begun, run'.done)
  BY <1>3, RunStays
<1>7. ~ IsCheckpoint(StepHere) /\ StepHere.name # "snapshot"
  BY <1>3 DEF IsCheckpoint, UpdateStep
<1>8. AtPlace'
  BY <1>3, <1>5, <1>6, <1>7, JudgeOther
<1> QED
  BY <1>3, <1>6, <1>8, PlainKept

\* The place of a validation.
LEMMA AtValidation ==
    ASSUME plans' = plans, run' = run, StepHere.name = "widget_validation",
           proc'.pc \in {"restoring", "checking", "judge", "broken"},
           proc'.pc = "judge" => Same'
    PROVE  AtPlace'
<1>1. StepHere' = StepHere
  BY HereStays
<1>2. ~ IsCheckpoint(StepHere) /\ StepHere.name # "snapshot"
  BY DEF IsCheckpoint
<1> QED
  BY <1>1, <1>2 DEF AtPlace, AtCheckpoint, AtWidgets, AtJudge, IsCheckpoint

LEMMA ValidationKept ==
    ASSUME Typed, Kept, WidgetValidation
    PROVE  Kept'
<1>1. CASE ValidateWidgets
  <2>1. /\ proc.pc = "facing" /\ Fits(StepHere) /\ Go(AfterComparison) /\ run' = run
        /\ clean' = clean /\ UNCHANGED copy /\ UNCHANGED <<surroundings, plans, disk, moves>>
        /\ StepHere.name = "widget_validation"
    BY <1>1 DEF ValidateWidgets, Facing
  <2>2. PICK pc \in {"judge", "restoring"} : pc = AfterComparison /\ (pc = "judge" => Same)
    BY DEF AfterComparison
  <2>3. proc'.pc = pc
    <3>1. pc \in ProcPlaces /\ Go(pc)
      BY <2>1, <2>2 DEF ProcPlaces
    <3> QED
      BY <2>1, <3>1, GoTyped
  <2>4. proc'.pc = "judge" => Same'
    BY <2>1, <2>2, <2>3 DEF Same, copy
  <2>5. AtPlace'
    BY <2>1, <2>2, <2>3, <2>4, AtValidation
  <2>6. /\ run'.plan = run.plan /\ run'.done = run.done
        /\ Remembered(run'.snapshot, run'.begun, run'.done)
    BY <2>1, RunStays
  <2> QED
    BY <2>1, <2>5, <2>6, UnchangedMine, PlainKept
<1>2. CASE RestoreWidgets
  <2>1. /\ proc.pc = "restoring" /\ Through("checking") /\ run' = run /\ Mine
        /\ UNCHANGED <<surroundings, plans, disk, moves>> /\ core' = core /\ schema' = schema
    BY <1>2 DEF RestoreWidgets, Within
  <2>2. "checking" \in ProcPlaces
    BY DEF ProcPlaces
  <2>3. proc'.pc \in {"checking", "broken"}
    BY <2>1, <2>2, ThroughPlaces
  <2>4. StepHere.name = "widget_validation"
    BY <2>1 DEF Kept, AtPlace, AtWidgets
  <2>5. AtPlace'
    BY <2>1, <2>3, <2>4, AtValidation
  <2>6. /\ run'.plan = run.plan /\ run'.done = run.done
        /\ Remembered(run'.snapshot, run'.begun, run'.done)
    BY <2>1, RunStays
  <2> QED
    BY <2>1, <2>5, <2>6, PlainKept
<1>3. CASE CheckRestored
  <2>1. /\ proc.pc = "checking" /\ Go("judge") /\ run' = run /\ clean' = clean
        /\ UNCHANGED copy /\ UNCHANGED <<surroundings, plans, disk, moves>> /\ Same
    BY <1>3 DEF CheckRestored, Within
  <2>2. "judge" \in ProcPlaces
    BY DEF ProcPlaces
  <2>3. proc'.pc = "judge"
    BY <2>1, <2>2, GoTyped
  <2>4. StepHere.name = "widget_validation"
    BY <2>1 DEF Kept, AtPlace, AtWidgets
  <2>5. Same'
    BY <2>1 DEF Same, copy
  <2>6. AtPlace'
    BY <2>1, <2>3, <2>4, <2>5, AtValidation
  <2>7. /\ run'.plan = run.plan /\ run'.done = run.done
        /\ Remembered(run'.snapshot, run'.begun, run'.done)
    BY <2>1, RunStays
  <2> QED
    BY <2>1, <2>6, <2>7, UnchangedMine, PlainKept
<1> QED
  BY <1>1, <1>2, <1>3 DEF WidgetValidation

\* A step that is through counts.
LEMMA CountedGood ==
    ASSUME Typed, Kept, proc.pc = "judge"
    PROVE  /\ Remembered(run.snapshot, run.begun, run.done + 1)
           /\ Current \in clean => Good(PlanOf(run), run.done + 1, run.snapshot)
<1>1. /\ Current \in 1..Current
      /\ PlanOf(disk[Current]) = PlanOf(run) /\ disk[Current].done = run.done
      /\ PlanOf(run) \in Seq(PlannedStep) /\ run.done \in Nat /\ run.done < Len(PlanOf(run))
  BY CurrentPlan
<1>2. PICK p \in Seq(PlannedStep), d \in Nat : p = PlanOf(run) /\ d = run.done
  BY <1>1
<1>3. /\ PlanSound(p) /\ StepHere = p[d + 1] /\ d + 1 \in 1..Len(p)
      /\ StepHere.name = "snapshot" <=> d = 2
      /\ d + 1 = Len(p) => StepHere.name = "widget_validation"
  BY <1>2, SoundHere
<1>4. Remembered(run.snapshot, run.begun, d)
  BY <1>2 DEF Kept, MemoryKept
<1>5. /\ IsCheckpoint(StepHere) => core = StepHere.target /\ schema = core
      /\ StepHere.name = "widget_validation" /\ Current \in clean => Same
      /\ StepHere.name = "snapshot" => Reference(run.snapshot)
  BY DEF Kept, AtPlace, AtJudge
<1>6. Remembered(run.snapshot, run.begun, d + 1)
  <2>1. run.begun => d + 1 >= 3
    BY <1>4 DEF Remembered
  <2>2. d + 1 >= 3 => Reference(run.snapshot)
    BY <1>3, <1>4, <1>5 DEF Remembered
  <2> QED
    BY <2>1, <2>2 DEF Remembered
<1>7. ASSUME Current \in clean PROVE Good(p, d + 1, run.snapshot)
  <2>1. Good(p, d, disk[Current].snapshot)
    BY <1>1, <1>2, <1>7 DEF Kept, CleanGood, GoodRun
  <2>2. core \in Nat /\ Len(p) \in Nat /\ \A i \in 1..Len(p) : p[i].target \in Nat
    BY PlanTypes DEF Typed, CopyTyped, Version
  <2>3. ASSUME NEW i \in 1..(d + 1), IsCheckpoint(p[i]) PROVE core >= p[i].target
    <3>1. i \in 1..d \/ i = d + 1
      OBVIOUS
    <3>2. CASE i \in 1..d
      BY <2>1, <2>3, <3>2 DEF Good
    <3>3. CASE i = d + 1
      <4>1. core = p[d + 1].target
        BY <1>3, <1>5, <2>3, <3>3
      <4> QED
        BY <2>2, <3>3, <4>1
    <3> QED
      BY <3>1, <3>2, <3>3
  <2>4. ASSUME \A i \in (d + 2)..Len(p) : ~ IsCheckpoint(p[i])
        PROVE  core = latest /\ schema = core
    <3>1. CASE IsCheckpoint(p[d + 1])
      <4>1. p[d + 1].target = latest
        <5>1. (\A j \in ((d + 1) + 1)..Len(p) : ~ IsCheckpoint(p[j])) => p[d + 1].target = latest
          BY <1>3, <3>1 DEF PlanSound
        <5>2. (d + 1) + 1 = d + 2
          OBVIOUS
        <5> QED
          BY <2>4, <5>1, <5>2
      <4> QED
        BY <1>3, <1>5, <3>1, <4>1
    <3>2. CASE ~ IsCheckpoint(p[d + 1])
      <4>1. \A i \in (d + 1)..Len(p) : i = d + 1 \/ i \in (d + 2)..Len(p)
        BY <2>2
      <4>2. \A i \in (d + 1)..Len(p) : ~ IsCheckpoint(p[i])
        BY <2>4, <3>2, <4>1
      <4> QED
        BY <2>1, <4>2 DEF Good
    <3> QED
      BY <3>1, <3>2
  <2>5. ASSUME d + 1 = Len(p) PROVE run.snapshot = {[options |-> widgets, late |-> FALSE]}
    <3>1. Same
      BY <1>3, <1>5, <1>7, <2>5
    <3>2. d + 1 >= 4
      BY <1>3, <2>5 DEF PlanSound
    <3>3. PICK o \in Widgets : run.snapshot = {[options |-> o, late |-> FALSE]}
      BY <1>6, <3>2 DEF Remembered, Reference
    <3>4. [options |-> o, late |-> FALSE].options = widgets
      BY <3>1, <3>3 DEF Same
    <3>5. o = widgets
      BY <3>4
    <3> QED
      BY <3>3, <3>5
  <2>6. (d + 1) + 1 = d + 2
    OBVIOUS
  <2>7. Covers(p, core)
    BY <2>1 DEF Good
  <2> QED
    BY <2>3, <2>4, <2>5, <2>6, <2>7 DEF Good
<1> QED
  BY <1>2, <1>6, <1>7

\* Before the end of a plan it does not matter what the reference is.
LEMMA GoodWhile ==
    ASSUME NEW p, NEW d, NEW s, NEW t, Good(p, d, s), d # Len(p)
    PROVE  Good(p, d, t)
BY DEF Good

LEMMA LeftGood ==
    ASSUME Typed, Kept, proc.pc # "idle", NEW m, Left(m)
    PROVE  /\ Remembered(m.snapshot, m.begun, m.done)
           /\ Current \in clean => Good(PlanOf(run), m.done, m.snapshot)
<1>1. /\ m.snapshot = run.snapshot /\ m.begun = run.begun
      /\ \/ m.done = run.done
         \/ m.done = run.done + 1 /\ proc.pc = "judge"
  BY LeftTyped
<1>2. CASE m.done = run.done
  <2>1. Remembered(run.snapshot, run.begun, run.done)
    BY DEF Kept, MemoryKept
  <2>2. ASSUME Current \in clean PROVE Good(PlanOf(run), run.done, m.snapshot)
    <3>1. PlanOf(disk[Current]) = PlanOf(run) /\ disk[Current].done = run.done
          /\ run.done # Len(PlanOf(run))
      BY CurrentPlan, PlanTypes
    <3>2. Good(PlanOf(run), run.done, disk[Current].snapshot)
      BY <2>2, <3>1 DEF Kept, CleanGood, GoodRun
    <3> QED
      BY <3>1, <3>2, GoodWhile
  <2> QED
    BY <1>1, <1>2, <2>1, <2>2
<1>3. CASE m.done = run.done + 1 /\ proc.pc = "judge"
  BY <1>1, <1>3, CountedGood
<1> QED
  BY <1>1, <1>2, <1>3

LEMMA SavedKept ==
    ASSUME Typed, Kept, proc.pc # "idle", UNCHANGED <<surroundings, copy, plans, clean>>,
           NEW m \in Manifest, disk' = disk \/ disk' = Saved(m), m.plan = run.plan,
           m.done <= Len(PlanOf(run)), m.status = "RUNNING" <=> m.print = {},
           Remembered(m.snapshot, m.begun, m.done),
           m.status = "EXECUTED" => m.done = Len(PlanOf(run)),
           Current \in clean => Good(PlanOf(run), m.done, m.snapshot)
    PROVE  PlansSound' /\ DiskKept' /\ CleanGood'
<1>1. /\ Current' = Current
      /\ \A r \in 1..Current : disk'[r] \in {disk[r], m} /\ (r # Current => disk'[r] = disk[r])
  BY SavedTyped
<1>2. PlansSound'
  BY SoundStays DEF Kept, PlansSound, surroundings
<1>3. ASSUME NEW r \in 1..Current
      PROVE  /\ Remembered(disk'[r].snapshot, disk'[r].begun, disk'[r].done)
             /\ disk'[r].status = "EXECUTED" => disk'[r].done = Len(plans[disk'[r].plan])
             /\ r \in clean => Good(plans[disk'[r].plan], disk'[r].done, disk'[r].snapshot)
  <2>1. CASE disk'[r] = disk[r]
    BY <2>1 DEF Kept, DiskKept, CleanGood, GoodRun, PlanOf
  <2>2. CASE disk'[r] = m /\ r = Current
    BY <2>2 DEF PlanOf
  <2> QED
    BY <1>1, <2>1, <2>2
<1>4. DiskKept'
  BY <1>1, <1>3 DEF DiskKept, PlanOf, Remembered, Reference
<1>5. CleanGood'
  <2> SUFFICES ASSUME NEW r \in clean PROVE GoodRun(r)'
    BY DEF CleanGood
  <2>1. r \in 1..Current
    BY DEF Typed, RestTyped
  <2>2. PICK n : n = disk'[r]
    OBVIOUS
  <2>3. Good(plans[n.plan], n.done, n.snapshot)
    BY <1>3, <2>1, <2>2
  <2>4. plans' = plans /\ core' = core /\ schema' = schema /\ widgets' = widgets /\ latest' = latest
    BY DEF copy, surroundings
  <2> QED
    BY <2>2, <2>3, <2>4 DEF GoodRun, Good, Covers, PlanOf
<1> QED
  BY <1>2, <1>4, <1>5

LEMMA EndsKept ==
    ASSUME Typed, Kept, Fails \/ JudgeEnds \/ Crash
    PROVE  Kept'
<1>1. /\ proc.pc # "idle" /\ UNCHANGED <<surroundings, copy, plans, clean, moves>>
      /\ run' = NoRun /\ proc' = Idle
      /\ \E m : Left(m) /\ (disk' = disk \/ disk' = Saved(m))
  BY Ends
<1>2. PICK m : Left(m) /\ (disk' = disk \/ disk' = Saved(m))
  BY <1>1
<1>3. /\ m \in Manifest /\ m.plan = run.plan /\ m.done <= Len(PlanOf(run))
      /\ m.status = "RUNNING" <=> m.print = {}
      /\ m.status = "EXECUTED" => m.done = Len(PlanOf(run))
  BY <1>1, <1>2, LeftTyped
<1>4. /\ Remembered(m.snapshot, m.begun, m.done)
      /\ Current \in clean => Good(PlanOf(run), m.done, m.snapshot)
  BY <1>1, <1>2, LeftGood
<1>5. PlansSound' /\ DiskKept' /\ CleanGood'
  BY <1>1, <1>2, <1>3, <1>4, SavedKept
<1>6. proc'.pc = "idle"
  BY <1>1 DEF Idle
<1> QED
  BY <1>5, <1>6 DEF Kept, MemoryKept, AtPlace, AtCheckpoint, AtWidgets, AtJudge

LEMMA ContinuesKept ==
    ASSUME Typed, Kept, JudgeContinues
    PROVE  Kept'
<1>1. /\ proc.pc = "judge" /\ run' = Counted /\ disk' = Saved(Counted)
      /\ proc' = [proc EXCEPT !.pc = "facing", !.inspected = 0]
      /\ UNCHANGED <<surroundings, copy, plans, clean, moves>>
      /\ Counted.done < Len(PlanOf(run))
  BY DEF JudgeContinues
<1>2. /\ Counted \in Manifest /\ Counted.plan = run.plan /\ Counted.done = run.done + 1
      /\ Counted.status = "RUNNING" /\ Counted.print = {}
      /\ Counted.snapshot = run.snapshot /\ Counted.begun = run.begun
  BY <1>1, ManifestsTyped
<1>3. Counted.done <= Len(PlanOf(run))
  BY <1>1, <1>2, StepHereTyped
<1>4. /\ Remembered(Counted.snapshot, Counted.begun, Counted.done)
      /\ Current \in clean => Good(PlanOf(run), Counted.done, Counted.snapshot)
  BY <1>1, <1>2, CountedGood
<1>5. PlansSound' /\ DiskKept' /\ CleanGood'
  BY <1>1, <1>2, <1>3, <1>4, SavedKept
<1>6. proc'.pc = "facing"
  BY <1>1 DEF Typed, MemoryTyped, ProcType
<1>7. Current' = Current /\ disk'[Current] = Counted
  <2>1. Current \in 1..Current /\ disk \in Seq(Manifest)
    BY <1>1, CurrentPlan DEF Typed, DiskTyped
  <2> QED
    BY <1>1, <1>2, <2>1, ExceptSeq DEF Saved, Current
<1>8. MemoryKept'
  BY <1>1, <1>4, <1>7 DEF MemoryKept, Remembered, Reference
<1> QED
  BY <1>5, <1>6, <1>8 DEF Kept, AtPlace, AtCheckpoint, AtWidgets, AtJudge

LEMMA BeginKept ==
    ASSUME Typed, Kept, UNCHANGED <<surroundings, copy>>, Longer,
           \A k \in 1..Len(plans') : k \in 1..Len(plans) \/ PlanSound(plans'[k]),
           NEW m, Current' = Current + 1, disk'[Current + 1] = m,
           \A r \in 1..Current : disk'[r] = disk[r],
           run' = m, proc'.pc = "facing",
           Remembered(m.snapshot, m.begun, m.done), m.status = "RUNNING",
           clean' \subseteq clean \cup {Current + 1},
           Current + 1 \in clean' => Good(plans'[m.plan], m.done, m.snapshot)
    PROVE  Kept'
<1>1. Current \in Nat /\ latest' = latest
  BY CurrentNat DEF Typed, surroundings
<1>2. PlansSound'
  <2>1. \A k \in 1..Len(plans') : PlanSound(plans'[k])
    BY DEF Kept, PlansSound, Longer
  <2> QED
    BY <1>1, <2>1, SoundStays DEF PlansSound
<1>3. ASSUME NEW r \in 1..Current
      PROVE  /\ disk'[r] = disk[r] /\ plans'[disk[r].plan] = plans[disk[r].plan]
  BY DEF Typed, DiskTyped, Longer
<1>4. DiskKept'
  <2> SUFFICES ASSUME NEW r \in 1..(Current + 1)
               PROVE  /\ Remembered(disk'[r].snapshot, disk'[r].begun, disk'[r].done)
                      /\ disk'[r].status = "EXECUTED" =>
                            disk'[r].done = Len(plans'[disk'[r].plan])
    BY DEF DiskKept, Remembered, Reference, PlanOf
  <2>1. CASE r = Current + 1
    BY <2>1
  <2>2. CASE r # Current + 1
    <3>1. r \in 1..Current
      BY <1>1, <2>2
    <3> QED
      BY <1>3, <3>1 DEF Kept, DiskKept, PlanOf
  <2> QED
    BY <2>1, <2>2
<1>5. CleanGood'
  <2> SUFFICES ASSUME NEW r \in clean' PROVE GoodRun(r)'
    BY DEF CleanGood
  <2>1. PICK n : n = disk'[r]
    OBVIOUS
  <2>2. PICK p : p = plans'[n.plan]
    OBVIOUS
  <2>3. Good(p, n.done, n.snapshot)
    <3>1. CASE r = Current + 1
      BY <2>1, <2>2, <3>1
    <3>2. CASE r # Current + 1
      <4>1. r \in clean /\ r \in 1..Current
        BY <3>2 DEF Typed, RestTyped
      <4>2. n = disk[r] /\ p = PlanOf(disk[r])
        BY <1>3, <2>1, <2>2, <4>1 DEF PlanOf
      <4> QED
        BY <4>1, <4>2 DEF Kept, CleanGood, GoodRun
    <3> QED
      BY <3>1, <3>2
  <2>4. core' = core /\ schema' = schema /\ widgets' = widgets
    BY DEF copy
  <2> QED
    BY <1>1, <2>1, <2>2, <2>3, <2>4 DEF GoodRun, Good, Covers, PlanOf
<1>6. MemoryKept'
  BY DEF MemoryKept, Remembered, Reference
<1> QED
  BY <1>2, <1>4, <1>5, <1>6 DEF Kept, AtPlace, AtCheckpoint, AtWidgets, AtJudge

LEMMA ExecuteKept ==
    ASSUME Typed, Kept, NEW restore \in BOOLEAN, Execute(restore)
    PROVE  Kept'
<1>1. PICK m : m = Fresh(restore)
  OBVIOUS
<1>2. /\ Longer /\ Current' = Current + 1
      /\ Steps \in Seq(PlannedStep) /\ PlanSound(Steps) /\ Covers(Steps, core)
      /\ Len(plans') = Len(plans) + 1 /\ plans'[Len(plans) + 1] = Steps
      /\ run' = m /\ disk'[Current + 1] = m
      /\ \A r \in 1..Current : disk'[r] = disk[r]
      /\ clean' = clean \cup {Current + 1}
      /\ m.plan = Len(plans) + 1 /\ m.done = 0 /\ m.snapshot = {} /\ ~ m.begun
      /\ m.status = "RUNNING"
  BY <1>1, ExecuteTyped
<1>3. UNCHANGED <<surroundings, copy>> /\ proc'.pc = "facing"
  BY DEF Execute, Begin
<1>4. \A k \in 1..Len(plans') : k \in 1..Len(plans) \/ PlanSound(plans'[k])
  <2>1. Len(plans) \in Nat
    BY CurrentNat DEF Typed
  <2>2. \A k \in 1..(Len(plans) + 1) : k \in 1..Len(plans) \/ k = Len(plans) + 1
    BY <2>1
  <2> QED
    BY <1>2, <2>2
<1>5. Remembered(m.snapshot, m.begun, m.done)
  BY <1>2 DEF Remembered
<1>6. Good(Steps, 0, {})
  <2>1. Len(Steps) \in Nat /\ Len(Steps) >= 4 /\ Covers(Steps, core)
    BY <1>2, LenProperties DEF PlanSound
  <2>2. PICK i \in 1..Len(Steps) : IsCheckpoint(Steps[i])
    BY <1>2 DEF PlanSound
  <2>3. i \in (0 + 1)..Len(Steps)
    OBVIOUS
  <2>4. 0 # Len(Steps)
    BY <2>1
  <2>5. \A j \in 1..0 : FALSE
    OBVIOUS
  <2> QED
    BY <2>1, <2>2, <2>3, <2>4, <2>5 DEF Good
<1>7. Good(plans'[m.plan], m.done, m.snapshot)
  BY <1>2, <1>6
<1> QED
  BY <1>2, <1>3, <1>4, <1>5, <1>7, BeginKept

LEMMA ResumeKept ==
    ASSUME Typed, Kept, NEW restore \in BOOLEAN, NEW r \in 1..Current, Resume(r, restore)
    PROVE  Kept'
<1>1. PICK m : m = Resumed(r, restore)
  OBVIOUS
<1>2. /\ Current' = Current + 1 /\ plans' = plans
      /\ run' = m /\ disk'[Current + 1] = m
      /\ \A i \in 1..Current : disk'[i] = disk[i]
      /\ clean' = clean \cup (IF r \in clean THEN {Current + 1} ELSE {})
      /\ m.plan = disk[r].plan /\ m.done = disk[r].done
      /\ m.snapshot = disk[r].snapshot /\ m.begun = disk[r].begun
      /\ m.status = "RUNNING"
  BY <1>1, ResumeTyped
<1>3. UNCHANGED <<surroundings, copy>> /\ proc'.pc = "facing"
  BY DEF Resume, Begin
<1>4. Longer
  BY <1>2, CurrentNat DEF Longer, Typed, DiskTyped
<1>5. \A k \in 1..Len(plans') : k \in 1..Len(plans)
  BY <1>2
<1>6. Remembered(m.snapshot, m.begun, m.done)
  BY <1>2 DEF Kept, DiskKept
<1>7. ASSUME Current + 1 \in clean' PROVE Good(plans'[m.plan], m.done, m.snapshot)
  <2>1. Current + 1 \notin clean
    BY CurrentNat DEF Typed, RestTyped
  <2>2. r \in clean
    BY <1>2, <1>7, <2>1
  <2> QED
    BY <1>2, <2>2 DEF Kept, CleanGood, GoodRun, PlanOf
<1>8. clean' \subseteq clean \cup {Current + 1}
  BY <1>2
<1> QED
  BY <1>2, <1>3, <1>4, <1>5, <1>6, <1>7, <1>8, BeginKept

LEMMA ResumeWholeKept ==
    ASSUME Typed, Kept, NEW restore \in BOOLEAN, NEW r \in 1..Current, ResumeWhole(r, restore)
    PROVE  Kept'
<1>1. /\ Current \in Nat /\ Current' = Current + 1 /\ plans' = plans
      /\ \A i \in 1..Current : disk'[i] = disk[i]
      /\ clean' = clean \cup (IF r \in clean THEN {Current + 1} ELSE {})
      /\ disk[r].done = Len(PlanOf(disk[r]))
  BY CurrentNat, ResumeWholeTyped DEF Typed
<1>2. PICK m : /\ disk'[Current + 1] = m
              /\ m.plan = disk[r].plan /\ m.done = disk[r].done
              /\ m.snapshot = disk[r].snapshot /\ m.begun = disk[r].begun
  BY ResumeWholeTyped
<1>3. proc' = proc /\ proc.pc = "idle" /\ UNCHANGED <<surroundings, copy>>
  BY DEF ResumeWhole
<1>4. PlansSound'
  BY <1>1, <1>3, SoundStays DEF Kept, PlansSound, surroundings
<1>5. DiskKept'
  <2> SUFFICES ASSUME NEW i \in 1..(Current + 1)
               PROVE  /\ Remembered(disk'[i].snapshot, disk'[i].begun, disk'[i].done)
                      /\ disk'[i].status = "EXECUTED" => disk'[i].done = Len(plans[disk'[i].plan])
    BY <1>1 DEF DiskKept, Remembered, Reference, PlanOf
  <2>1. CASE i = Current + 1
    BY <1>1, <1>2, <2>1 DEF Kept, DiskKept, PlanOf
  <2>2. CASE i # Current + 1
    <3>1. i \in 1..Current
      BY <1>1, <2>2
    <3> QED
      BY <1>1, <3>1 DEF Kept, DiskKept, PlanOf
  <2> QED
    BY <2>1, <2>2
<1>6. CleanGood'
  <2> SUFFICES ASSUME NEW i \in clean' PROVE GoodRun(i)'
    BY DEF CleanGood
  <2>1. PICK q \in clean : /\ disk'[i].plan = disk[q].plan /\ disk'[i].done = disk[q].done
                          /\ disk'[i].snapshot = disk[q].snapshot
    <3>1. CASE i \in clean
      BY <1>1, <3>1 DEF Typed, RestTyped
    <3>2. CASE i \notin clean
      BY <1>1, <1>2, <3>2
    <3> QED
      BY <3>1, <3>2
  <2>2. PICK p, d, s : p = PlanOf(disk[q]) /\ d = disk[q].done /\ s = disk[q].snapshot
    OBVIOUS
  <2>3. Good(p, d, s)
    BY <2>2 DEF Kept, CleanGood, GoodRun
  <2>4. p = PlanOf(disk[i])' /\ d = disk'[i].done /\ s = disk'[i].snapshot
    BY <1>1, <2>1, <2>2 DEF PlanOf
  <2>5. Good(p, d, s)'
    BY <1>3, <2>3 DEF Good, Covers, copy, surroundings
  <2> QED
    BY <2>4, <2>5 DEF GoodRun
<1>7. MemoryKept' /\ AtPlace'
  BY <1>3 DEF MemoryKept, AtPlace, AtCheckpoint, AtWidgets, AtJudge
<1> QED
  BY <1>4, <1>5, <1>6, <1>7 DEF Kept

LEMMA OutsideKept ==
    ASSUME Typed, Kept, EditPhp \/ EditWidgets \/ Migrate
    PROVE  Kept'
<1>1. /\ UNCHANGED <<latest, plans, disk, run, proc>>
      /\ (core' = core /\ schema' = schema) \/ proc.pc = "idle"
      /\ clean' = {} \/ UNCHANGED <<copy, clean>>
  BY OutsideTyped
<1>2. PlansSound' /\ DiskKept' /\ MemoryKept'
  <2>1. PlansSound'
    BY <1>1, SoundStays DEF Kept, PlansSound
  <2>2. DiskKept' /\ MemoryKept'
    BY <1>1 DEF Kept, DiskKept, MemoryKept, Remembered, Reference, PlanOf, Current
  <2> QED
    BY <2>1, <2>2
<1>3. CleanGood'
  <2>1. CASE clean' = {}
    BY <2>1 DEF CleanGood
  <2>2. CASE UNCHANGED <<copy, clean>>
    BY <1>1, <2>2 DEF Kept, CleanGood, GoodRun, Good, Covers, PlanOf, copy
  <2> QED
    BY <1>1, <2>1, <2>2
<1>4. AtPlace'
  <2>1. CASE proc.pc = "idle"
    BY <1>1, <2>1 DEF AtPlace, AtCheckpoint, AtWidgets, AtJudge
  <2>2. CASE core' = core /\ schema' = schema
    <3>1. /\ StepHere' = StepHere /\ Current' = Current
          /\ Php(StepHere.stage)' = Php(StepHere.stage)
      BY <1>1, SoundStays DEF StepHere, PlanOf, Current
    <3>2. AtCheckpoint' /\ AtWidgets'
      BY <1>1, <2>2, <3>1 DEF Kept, AtPlace, AtCheckpoint, AtWidgets, IsCheckpoint, Accepts
    <3>3. Current' \in clean' => Current \in clean /\ (Same => Same')
      BY <1>1, <3>1 DEF Same, copy
    <3>4. AtJudge'
      BY <1>1, <2>2, <3>1, <3>3 DEF Kept, AtPlace, AtJudge, IsCheckpoint, Reference
    <3> QED
      BY <3>2, <3>4 DEF AtPlace
  <2> QED
    BY <1>1, <2>1, <2>2
<1> QED
  BY <1>2, <1>3, <1>4 DEF Kept

LEMMA NextKept ==
    ASSUME Typed, Kept, [Next]_vars
    PROVE  Kept'
<1>1. CASE \E restore \in BOOLEAN :
                \/ Execute(restore)
                \/ \E r \in 1..Current : Resume(r, restore) \/ ResumeWhole(r, restore)
  BY <1>1, ExecuteKept, ResumeKept, ResumeWholeKept
<1>2. CASE EditPhp \/ EditWidgets \/ Migrate
  BY <1>2, OutsideKept
<1>3. CASE Process
  BY <1>3, PreparationKept, CheckpointKept, UpdateKept, ValidationKept, ContinuesKept, EndsKept
     DEF Process
<1>4. CASE UNCHANGED vars
  <2>1. UNCHANGED <<surroundings, copy, plans, disk, run, proc, clean>>
    BY <1>4 DEF vars
  <2>2. PlansSound'
    BY <2>1, SoundStays DEF Kept, PlansSound, surroundings
  <2>3. DiskKept' /\ MemoryKept'
    BY <2>1 DEF Kept, DiskKept, MemoryKept, Remembered, Reference, PlanOf, Current
  <2>4. CleanGood'
    BY <2>1 DEF Kept, CleanGood, GoodRun, Good, Covers, PlanOf, copy, surroundings
  <2>5. /\ StepHere' = StepHere /\ Current' = Current /\ Same' = Same
        /\ Php(StepHere.stage)' = Php(StepHere.stage)
    BY <2>1, SoundStays DEF StepHere, PlanOf, Current, Same, copy, surroundings
  <2>6. AtPlace'
    BY <2>1, <2>5 DEF Kept, AtPlace, AtCheckpoint, AtWidgets, AtJudge, IsCheckpoint, Accepts,
                      Reference, copy
  <2> QED
    BY <2>2, <2>3, <2>4, <2>6 DEF Kept
<1> QED
  BY <1>1, <1>2, <1>3, <1>4 DEF Next

LEMMA KeptFinished ==
    ASSUME Typed, Kept
    PROVE  FinishedIsModern
<1> SUFFICES ASSUME NEW r \in clean, disk[r].status = "EXECUTED"
             PROVE  /\ schema = core
                    /\ \E i \in DOMAIN PlanOf(disk[r]) : PlanOf(disk[r])[i].target = core
                    /\ \A i \in DOMAIN PlanOf(disk[r]) : PlanOf(disk[r])[i].target <= core
                    /\ disk[r].snapshot = {[options |-> widgets, late |-> FALSE]}
  BY DEF FinishedIsModern
<1>1. r \in 1..Current
  BY DEF Typed, RestTyped
<1>2. PICK p \in Seq(PlannedStep) : p = PlanOf(disk[r])
  BY <1>1, CurrentNat DEF Typed, DiskTyped, PlanOf
<1>3. PlanSound(p) /\ disk[r].done = Len(p)
  BY <1>1, <1>2 DEF Kept, PlansSound, DiskKept, Typed, DiskTyped, PlanOf
<1>4. Good(p, Len(p), disk[r].snapshot)
  BY <1>2, <1>3 DEF Kept, CleanGood, GoodRun
<1>5. DOMAIN p = 1..Len(p) /\ Len(p) \in Nat
  BY PlanTypes
<1>6. core = latest /\ schema = core
  <2>1. \A i \in (Len(p) + 1)..Len(p) : ~ IsCheckpoint(p[i])
    BY <1>5
  <2> QED
    BY <1>4, <2>1 DEF Good
<1>7. disk[r].snapshot = {[options |-> widgets, late |-> FALSE]}
  BY <1>4 DEF Good
<1>8. \E i \in 1..Len(p) : p[i].target = latest
  BY <1>3 DEF PlanSound
<1>9. \A i \in 1..Len(p) : p[i].target <= latest
  BY <1>3 DEF PlanSound
<1> QED
  BY <1>2, <1>5, <1>6, <1>7, <1>8, <1>9

\* Only the core update of a checkpoint changes the version, to a newer one.
LEMMA CoreStep ==
    ASSUME Typed, Kept, [Next]_vars, proc.pc # "idle"
    PROVE  \/ core' = core
           \/ proc.pc = "upgrading" /\ core' = StepHere.target
<1>1. CASE \E restore \in BOOLEAN :
                \/ Execute(restore)
                \/ \E r \in 1..Current : Resume(r, restore) \/ ResumeWhole(r, restore)
  BY <1>1 DEF Execute, Resume, ResumeWhole, Begin
<1>2. CASE EditPhp \/ EditWidgets \/ Migrate \/ UNCHANGED vars
  BY <1>2 DEF EditPhp, EditWidgets, Migrate, vars, copy
<1>3. CASE Preflight \/ SearchReplace \/ SnapshotWidgets
  BY <1>3 DEF Preflight, SearchReplace, SnapshotWidgets, copy
<1>4. CASE Checkpoint
  BY <1>4 DEF Checkpoint, CheckVersion, CoreUpdate, CoreUpdateDb, VerifyVersion, Commands, Within, copy
<1>5. CASE UpdatePart \/ WidgetValidation
  BY <1>5 DEF UpdatePart, WidgetValidation, ValidateWidgets, RestoreWidgets, CheckRestored, copy
<1>6. CASE Fails \/ JudgeContinues \/ JudgeEnds \/ Crash
  BY <1>6 DEF Fails, JudgeContinues, JudgeEnds, Crash, copy
<1> QED
  BY <1>1, <1>2, <1>3, <1>4, <1>5, <1>6 DEF Next, Process

LEMMA Upgrading ==
    ASSUME Typed, Kept, proc.pc = "upgrading"
    PROVE  /\ core < StepHere.target /\ IsCheckpoint(StepHere)
           /\ Accepts(Php(StepHere.stage), proc.inspected)
           /\ core \in Nat /\ StepHere.target \in Nat /\ StepHere \in PlannedStep
           /\ StepHere.target = Wordpress(StepHere.stage) /\ FamiliesOf(latest) # {}
<1>1. StepHere \in PlannedStep /\ core \in Nat
  BY StepHereTyped DEF Typed, CopyTyped, Version
<1>2. StepHere.target \in Nat
  BY <1>1 DEF PlannedStep, Version
<1>3. core < StepHere.target /\ IsCheckpoint(StepHere) /\ Accepts(Php(StepHere.stage), proc.inspected)
  BY DEF Kept, AtPlace, AtCheckpoint
<1>4. StepHere.target = Wordpress(StepHere.stage) /\ FamiliesOf(latest) # {}
  BY <1>3, SoundHere DEF PlanSound
<1> QED
  BY <1>1, <1>2, <1>3, <1>4

LEMMA KeptNoDowngrade ==
    ASSUME Typed, Kept, [Next]_vars, proc.pc # "idle"
    PROVE  core' >= core
<1>1. core \in Nat
  BY DEF Typed, CopyTyped, Version
<1>2. CASE core' = core
  BY <1>1, <1>2
<1>3. CASE proc.pc = "upgrading" /\ core' = StepHere.target
  BY <1>3, Upgrading
<1> QED
  BY <1>2, <1>3, CoreStep

\* A checkpoint between two versions is a step of the plan, and one that is done.
LEMMA KeptNoSkip ==
    ASSUME Typed, Kept, [Next]_vars, proc.pc # "idle", Current \in clean,
           NEW k \in Checkpoints
    PROVE  ~ (core < Passes(k) /\ Passes(k) < core')
<1> SUFFICES ASSUME core < Passes(k), Passes(k) < core'
             PROVE  FALSE
  OBVIOUS
<1>1. core \in Nat /\ Passes(k) \in Nat
  BY PolicyTypes DEF Typed, CopyTyped, Version
<1>2. proc.pc = "upgrading" /\ core' = StepHere.target
  BY <1>1, CoreStep
<1>3. PICK p \in Seq(PlannedStep), d \in Nat :
         p = PlanOf(disk[Current]) /\ d = disk[Current].done /\ p = PlanOf(run) /\ d = run.done
  BY CurrentPlan
<1>4. /\ PlanSound(p) /\ StepHere = p[d + 1] /\ d + 1 \in 1..Len(p)
      /\ IsCheckpoint(p[d + 1]) /\ p[d + 1].target \in Nat
  BY <1>2, <1>3, SoundHere, Upgrading
<1>5. Good(p, d, disk[Current].snapshot)
  BY <1>3 DEF Kept, CleanGood, GoodRun
<1>6. PICK j \in 1..Len(p) : IsCheckpoint(p[j]) /\ p[j].target = Passes(k)
  BY <1>1, <1>5 DEF Good, Covers
<1>7. Len(p) \in Nat
  BY PlanTypes
<1>8. CASE j \in 1..d
  <2>1. core >= p[j].target
    BY <1>5, <1>6, <1>8 DEF Good
  <2> QED
    BY <1>1, <1>6, <2>1
<1>9. CASE j \in (d + 1)..Len(p)
  <2>1. p[d + 1].target <= p[j].target
    BY <1>4, <1>6, <1>9 DEF PlanSound
  <2> QED
    BY <1>1, <1>2, <1>4, <1>6, <2>1
<1> QED
  BY <1>7, <1>8, <1>9

LEMMA CompatibilityTypes ==
    /\ \A i \in DOMAIN Compatibility :
          /\ Compatibility[i].php \in Requirement /\ Compatibility[i].php.minimum \in Nat
          /\ Family(Compatibility[i].first) \in Nat /\ Family(Compatibility[i].last) \in Nat
    /\ DOMAIN Compatibility \subseteq Nat
    /\ Policy.final.minimum \in Nat
<1>1. Compatibility \in Seq([first: Version, last: Version, php: Requirement])
  BY CompatibilityAssumption
<1>2. DOMAIN Compatibility = 1..Len(Compatibility) /\ Len(Compatibility) \in Nat
  BY <1>1, LenProperties
<1>3. \A i \in DOMAIN Compatibility :
         Compatibility[i] \in [first: Version, last: Version, php: Requirement]
  BY <1>1, <1>2, ElementOfSeq
<1>4. \A v \in Nat : Family(v) \in Nat
  BY DEF Family
<1>5. \A i \in DOMAIN Compatibility :
         /\ Compatibility[i].php \in Requirement /\ Compatibility[i].php.minimum \in Nat
         /\ Family(Compatibility[i].first) \in Nat /\ Family(Compatibility[i].last) \in Nat
  BY <1>3, <1>4 DEF Requirement, Version
<1>6. Policy.final.minimum \in Nat
  BY PolicyAssumption DEF Requirement, Version
<1> QED
  BY <1>2, <1>5, <1>6

\* The audit has one family for a version.
LEMMA OneFamily ==
    ASSUME NEW v \in Nat, NEW i \in FamiliesOf(v), NEW j \in FamiliesOf(v)
    PROVE  i = j
<1>1. i \in DOMAIN Compatibility /\ j \in DOMAIN Compatibility /\ i \in Nat /\ j \in Nat
  BY CompatibilityTypes DEF FamiliesOf
<1>2. Family(v) \in Nat
  BY DEF Family
<1>3. ASSUME NEW a \in FamiliesOf(v), NEW b \in FamiliesOf(v), a < b PROVE FALSE
  <2>1. a \in DOMAIN Compatibility /\ b \in DOMAIN Compatibility
        /\ Family(v) <= Family(Compatibility[a].last) /\ Family(Compatibility[b].first) <= Family(v)
    BY DEF FamiliesOf
  <2>2. Family(Compatibility[a].last) < Family(Compatibility[b].first)
    BY <1>3, <2>1, AuditAssumption
  <2>3. Family(Compatibility[a].last) \in Nat /\ Family(Compatibility[b].first) \in Nat
    BY <2>1, CompatibilityTypes
  <2> QED
    BY <1>2, <2>1, <2>2, <2>3
<1> QED
  BY <1>1, <1>3

LEMMA NoCheckpointAudited ==
    ASSUME NEW v \in Nat, FamiliesOf(v) # {}, NEW k \in Checkpoints
    PROVE  Passes(k) # v
<1>1. PICK i \in DOMAIN Compatibility :
         Family(Compatibility[i].first) <= Family(v) /\ Family(v) <= Family(Compatibility[i].last)
  BY DEF FamiliesOf
<1>2. Family(Passes(k)) < Family(Compatibility[i].first)
      \/ Family(Compatibility[i].last) < Family(Passes(k))
  BY AuditAssumption, PolicyTypes DEF Passes
<1>3. Family(Compatibility[i].first) \in Nat /\ Family(Compatibility[i].last) \in Nat
      /\ Family(v) \in Nat
  BY CompatibilityTypes DEF Family
<1> QED
  BY <1>1, <1>2, <1>3

\* What the final release requires is what both the audit and the policy do.
LEMMA FinalAccepts ==
    ASSUME latest \in Nat, FamiliesOf(latest) # {}, NEW v \in Nat, Accepts(FinalPhp, v)
    PROVE  /\ Accepts(Policy.final, v)
           /\ \A i \in FamiliesOf(latest) : Accepts(Compatibility[i].php, v)
<1> DEFINE chosen == CHOOSE i \in FamiliesOf(latest) : TRUE
           audited == Compatibility[chosen].php
<1>1. chosen \in FamiliesOf(latest) /\ chosen \in DOMAIN Compatibility
  BY DEF FamiliesOf
<1>2. /\ audited.minimum \in Nat /\ Policy.final.minimum \in Nat
      /\ audited.exact = {} /\ Policy.final.exact = {} /\ Policy.final.maximum = {}
  BY <1>1, CompatibilityTypes, AuditAssumption
<1>3. FinalPhp = [exact |-> {},
                  minimum |-> IF audited.minimum > Policy.final.minimum THEN audited.minimum
                              ELSE Policy.final.minimum,
                  maximum |-> IF audited.maximum # {} THEN audited.maximum ELSE Policy.final.maximum,
                  current |-> TRUE]
  BY DEF FinalPhp
<1> HIDE DEF audited, chosen
<1>4. /\ FinalPhp.minimum = IF audited.minimum > Policy.final.minimum THEN audited.minimum
                            ELSE Policy.final.minimum
      /\ FinalPhp.maximum = IF audited.maximum # {} THEN audited.maximum ELSE Policy.final.maximum
  BY <1>3
<1>5. v >= FinalPhp.minimum /\ \A m \in FinalPhp.maximum : Family(v) <= Family(m)
  BY DEF Accepts
<1>6. v >= audited.minimum /\ v >= Policy.final.minimum
  BY <1>2, <1>4, <1>5
<1>7. \A m \in audited.maximum : Family(v) <= Family(m)
  BY <1>4, <1>5
<1>8. Accepts(Policy.final, v)
  BY <1>2, <1>6 DEF Accepts
<1>9. Accepts(audited, v)
  BY <1>2, <1>6, <1>7 DEF Accepts
<1>10. \A i \in FamiliesOf(latest) : Compatibility[i].php = audited
  BY <1>1, OneFamily DEF audited
<1> QED
  BY <1>8, <1>9, <1>10

LEMMA KeptFittingPhp ==
    ASSUME Typed, Kept, [Next]_vars, proc.pc # "idle", core' # core,
           Launched = proc.inspected, NEW requirement \in Required(core')
    PROVE  Accepts(requirement, Launched)
<1>1. proc.pc = "upgrading" /\ core' = StepHere.target
  BY CoreStep
<1>2. /\ Accepts(Php(StepHere.stage), Launched) /\ StepHere.target = Wordpress(StepHere.stage)
      /\ StepHere.stage \in 0..Len(Policy.checkpoints) /\ FamiliesOf(latest) # {}
  BY <1>1, Upgrading DEF PlannedStep
<1>3. latest \in Nat /\ Launched \in Nat
  BY DEF Typed, RestTyped, MemoryTyped, ProcType, Version
<1>4. Len(Policy.checkpoints) \in Nat /\ DOMAIN Policy.checkpoints = Checkpoints
  BY PolicyTypes
<1>5. CASE StepHere.stage = 0
  <2>1. core' = latest /\ Php(StepHere.stage) = FinalPhp
    BY <1>1, <1>2, <1>5 DEF Wordpress, Php
  <2>2. ~ \E i \in DOMAIN Policy.checkpoints : Policy.checkpoints[i].wordpress = latest
    BY <1>2, <1>3, <1>4, NoCheckpointAudited DEF Passes
  <2>3. requirement \in {Policy.final} \cup {Compatibility[i].php : i \in FamiliesOf(latest)}
    BY <2>1, <2>2 DEF Required
  <2> QED
    BY <1>2, <1>3, <2>1, <2>3, FinalAccepts
<1>6. CASE StepHere.stage # 0
  <2> DEFINE k == StepHere.stage
  <2>1. k \in Checkpoints
    BY <1>2, <1>4, <1>6 DEF Checkpoints
  <2>2. core' = Passes(k) /\ Php(k) = Policy.checkpoints[k].php
    BY <1>1, <1>2, <1>6 DEF Wordpress, Php, Passes
  <2>3. \A i \in Checkpoints : Passes(i) = Passes(k) => i = k
    BY <2>1, PolicyTypes DEF Checkpoints
  <2>4. requirement \in {Policy.checkpoints[i].php :
                           i \in {j \in DOMAIN Policy.checkpoints :
                                     Policy.checkpoints[j].wordpress = core'}}
    BY <1>4, <2>1, <2>2 DEF Required, Passes
  <2>5. requirement = Policy.checkpoints[k].php
    BY <1>4, <2>2, <2>3, <2>4 DEF Passes
  <2> QED
    BY <1>2, <2>2, <2>5
<1> QED
  BY <1>5, <1>6

LEMMA KeptAlways == Spec => [](Typed /\ Kept)
<1>1. Init => Typed /\ Kept
  BY InitTyped, InitKept
<1>2. (Typed /\ Kept) /\ [Next]_vars => (Typed /\ Kept)'
  BY NextTyped, NextKept
<1> QED
  BY <1>1, <1>2, PTL DEF Spec

\* An update that is reported as successful has brought files and database to the release
\* it was planned for and left the widgets as they were, unless somebody else changed the
\* copy (runtime_operations.py 130-151, 556-603).
THEOREM FinishedModern == Spec => []FinishedIsModern
<1>1. Typed /\ Kept => FinishedIsModern
  BY KeptFinished
<1> QED
  BY <1>1, KeptAlways, PTL

\* No run ever puts an older release in place of a newer one (runtime_operations.py
\* 135-136).
THEOREM NoDowngrade == Spec => NeverDowngrades
<1>1. (Typed /\ Kept) /\ [Next]_vars => (proc.pc # "idle" => core' >= core)
  BY KeptNoDowngrade
<1> QED
  BY <1>1, KeptAlways, PTL DEF Spec, NeverDowngrades

\* A run of an undisturbed lineage stops at every checkpoint on its way
\* (domain/modernization.py 166-182, runtime_operations.py 130-151).
THEOREM NoSkippedCheckpoint == Spec => NoCheckpointSkipped
<1> DEFINE Stops ==
        proc.pc # "idle" /\ Current \in clean =>
            \A i \in DOMAIN Policy.checkpoints :
                LET c == Policy.checkpoints[i].wordpress
                IN ~ (core < c /\ c < core')
<1>1. (Typed /\ Kept) /\ [Next]_vars => Stops
  BY KeptNoSkip, PolicyTypes DEF Passes
<1> QED
  BY <1>1, KeptAlways, PTL DEF Spec, NoCheckpointSkipped

\* A PHP that runs core update is one that all that is said of the release allows, whatever
\* became of the binaries since the run was planned, if the binary of this step is still
\* the one it inspected (runtime_operations.py 104-121, 134-141).
THEOREM FittingPhp == Spec => InstalledByFittingPhp
<1> DEFINE Fit ==
        proc.pc # "idle" /\ core' # core /\ Launched = proc.inspected =>
            \A requirement \in Required(core') : Accepts(requirement, Launched)
<1>1. (Typed /\ Kept) /\ [Next]_vars => Fit
  BY KeptFittingPhp
<1> QED
  BY <1>1, KeptAlways, PTL DEF Spec, InstalledByFittingPhp

==============================================================================

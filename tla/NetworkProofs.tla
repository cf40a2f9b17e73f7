---------------------------- MODULE NetworkProofs ----------------------------
(***************************************************************************)
(* Proofs about NetworkReplay, for every set of blogs, every production    *)
(* database and every number of runs and edits.  OnlySearchReplaceStrays   *)
(* and OnlyRecordedValues hold whatever the plan; the rest is about the    *)
(* plan of ten steps that the planner builds.                              *)
(***************************************************************************)
EXTENDS NetworkReplay, SequenceTheorems, TLAPS

\* A sequence of something, and a set of at most one element.
IsSeq(d) == \E S : d \in Seq(S)
Single(S) == \A a, b \in S : a = b

LEMMA SeqGrows ==
  ASSUME NEW d, IsSeq(d), NEW m
  PROVE  /\ IsSeq(Append(d, m)) /\ Len(Append(d, m)) = Len(d) + 1
         /\ Append(d, m)[Len(d) + 1] = m
         /\ \A i \in 1..Len(d) : Append(d, m)[i] = d[i]
         /\ Len(d) \in Nat
  <1>1. PICK S : d \in Seq(S)
    BY DEF IsSeq
  <1>2. d \in Seq(S \cup {m})
    BY <1>1, SeqMonotonic
  <1> QED BY <1>2, AppendProperties, LenProperties DEF IsSeq

LEMMA SeqChanges ==
  ASSUME NEW d, IsSeq(d), NEW m, Len(d) >= 1
  PROVE  /\ IsSeq([d EXCEPT ![Len(d)] = m]) /\ Len([d EXCEPT ![Len(d)] = m]) = Len(d)
         /\ \A i \in 1..Len(d) : [d EXCEPT ![Len(d)] = m][i] = IF i = Len(d) THEN m ELSE d[i]
  <1>1. PICK S : d \in Seq(S)
    BY DEF IsSeq
  <1>2. d \in Seq(S \cup {m}) /\ Len(d) \in 1..Len(d)
    BY <1>1, SeqMonotonic, LenProperties
  <1> QED BY <1>2, ExceptSeq, LenProperties DEF IsSeq

\* The fields of a manifest, which has at most one plan for the network.
Recovered(r) ==
    /\ DOMAIN r = {"multisite", "https", "indexing", "validated"}
    /\ Single(r.multisite)
Shaped(m) == DOMAIN m = {"status", "done", "print", "recovery"} /\ Recovered(m.recovery)
Shapes ==
    /\ IsSeq(disk) /\ (\A r \in 1..Current : Shaped(disk[r])) /\ Shaped(run)
    /\ DOMAIN proc = {"pc", "todo", "blogs", "at"}
    /\ proc.pc # "idle" => Current >= 1
    /\ DOMAIN source = {"net", "content", "public"} /\ DOMAIN data = {"net", "content", "public"}
    /\ edits \in Nat

\* Between the inspection of a step that calls WP-CLI repeatedly and its last call,
\* wp-config.php names the TEST database.
Guarded ==
    /\ OnlySearchReplaceStrays
    /\ /\ proc.pc \in {"writing", "replacing"}
       /\ StepHere \in {"enforce_test_https", "disable_test_indexing"}
       => files.db = "test"

LEMMA InitShapes ==
  ASSUME Init
  PROVE  Shapes /\ Guarded
  <1>1. IsSeq(<<>>)
    BY EmptySeq DEF IsSeq
  <1>2. Shaped(run) /\ DOMAIN proc = {"pc", "todo", "blogs", "at"} /\ proc.pc = "idle"
    BY DEF Init, Fresh, Idle, Shaped, Recovered, Single
  <1>3. DOMAIN source = {"net", "content", "public"} /\ data = source
    BY DEF Init
  <1> QED BY <1>1, <1>2, <1>3 DEF Init, Shapes, Guarded, OnlySearchReplaceStrays, Current

LEMMA BeginShapes ==
  ASSUME Shapes, Guarded, NEW m, Shaped(m), Begin(m)
  PROVE  Shapes' /\ Guarded'
  <1>1. /\ IsSeq(disk') /\ Len(disk') = Current + 1 /\ disk'[Current + 1] = m
        /\ \A r \in 1..Current : disk'[r] = disk[r]
        /\ Current \in Nat
    BY SeqGrows DEF Begin, Shapes, Current
  <1>2. \A r \in 1..(Current + 1) : Shaped(disk'[r])
    BY <1>1 DEF Shapes
  <1>3. run' = m /\ DOMAIN proc' = {"pc", "todo", "blogs", "at"} /\ proc'.pc = "facing"
    BY DEF Begin, Idle
  <1>4. UNCHANGED <<source, data, wrote, edits>>
    BY DEF Begin
  <1>5. Shapes'
    BY <1>1, <1>2, <1>3, <1>4 DEF Shapes, Current
  <1> QED BY <1>3, <1>4, <1>5 DEF Guarded, OnlySearchReplaceStrays

LEMMA OperatorShapes ==
  ASSUME Shapes, Guarded, Execute \/ (\E r \in 1..Current : Resume(r)) \/ Edit
  PROVE  Shapes' /\ Guarded'
  <1>1. CASE Execute
    <2>1. Shaped(Fresh)
      BY DEF Fresh, Shaped, Recovered, Single
    <2> QED BY <1>1, <2>1, BeginShapes DEF Execute
  <1>2. CASE \E r \in 1..Current : Resume(r)
    <2>1. PICK r \in 1..Current : Begin([disk[r] EXCEPT !.status = "RUNNING", !.print = {}])
      BY <1>2 DEF Resume
    <2>2. Shaped([disk[r] EXCEPT !.status = "RUNNING", !.print = {}])
      BY DEF Shapes, Shaped
    <2> QED BY <2>1, <2>2, BeginShapes
  <1>3. CASE Edit
    <2>1. UNCHANGED <<source, files, disk, run, proc, wrote>> /\ edits' = edits + 1
      BY <1>3 DEF Edit
    <2>2. DOMAIN data' = DOMAIN data
      BY <1>3 DEF Edit
    <2> QED BY <2>1, <2>2 DEF Shapes, Guarded, OnlySearchReplaceStrays, Current, StepHere
  <1> QED BY <1>1, <1>2, <1>3

-----------------------------------------------------------------------------
(***************************************************************************)
(* The steps.                                                              *)
(***************************************************************************)

\* A step leaves everything but its writes as it was.
Stepping ==
    /\ proc.pc # "idle" /\ disk' = disk /\ source' = source /\ edits' = edits
    /\ DOMAIN proc' = DOMAIN proc /\ proc'.pc # "idle"
    /\ DOMAIN data' = DOMAIN data
    /\ DOMAIN run' = DOMAIN run /\ Recovered(run'.recovery) /\ run'.done = run.done

LEMMA SteppingShapes ==
  ASSUME Shapes, Stepping
  PROVE  Shapes' /\ StepHere' = StepHere
  BY DEF Shapes, Stepping, Shaped, Current, StepHere

LEMMA GoFields ==
  ASSUME Shapes, NEW pc, Go(pc)
  PROVE  DOMAIN proc' = DOMAIN proc /\ proc'.pc = pc
  BY DEF Shapes, Go

\* What a step that plans or validates remembers.
LEMMA RecoverShapes ==
  ASSUME Shapes, Guarded, proc.pc # "idle", disk' = disk, UNCHANGED <<source, edits>>, NoWrite,
         NEW recovery, Recovered(recovery), Recover(recovery)
  PROVE  Shapes' /\ Guarded'
  <1>1. proc'.pc = "judge" /\ DOMAIN proc' = DOMAIN proc
    BY GoFields DEF Recover
  <1>2. run' = [run EXCEPT !.recovery = recovery]
    BY DEF Recover
  <1>3. DOMAIN run' = DOMAIN run /\ run'.recovery = recovery /\ run'.done = run.done
    BY <1>2 DEF Shapes, Shaped
  <1>4. Stepping
    BY <1>1, <1>3 DEF Stepping, NoWrite, target
  <1>5. Guarded'
    BY <1>1 DEF Guarded, OnlySearchReplaceStrays, NoWrite, target
  <1> QED BY <1>4, <1>5, SteppingShapes

\* What a validation marks, and the beginning of a step unmarks.
LEMMA Marks ==
  ASSUME Shapes
  PROVE  Recovered(run.recovery) /\ Recovered(Unmarked) /\ \A mark : Recovered(Validated(mark))
  BY DEF Shapes, Shaped, Recovered, Unmarked, Validated

\* The other steps leave the manifest.
LEMMA KeepsRun ==
  ASSUME Shapes, Guarded, proc.pc # "idle", disk' = disk, UNCHANGED <<source, edits>>,
         run' = run, DOMAIN proc' = DOMAIN proc, proc'.pc # "idle", DOMAIN data' = DOMAIN data
  PROVE  Shapes' /\ StepHere' = StepHere
  BY SteppingShapes, Marks DEF Stepping

\* A call of WP-CLI.
LEMMA ByWpShapes ==
  ASSUME Shapes, Guarded, NEW d, DOMAIN d = DOMAIN data, ByWp(d),
         files.db = "test" \/ StepHere = "pending_search_replace"
  PROVE  /\ DOMAIN data' = DOMAIN data /\ files' = files
         /\ OnlySearchReplaceStrays'
  BY DEF ByWp, Guarded, OnlySearchReplaceStrays

LEMMA RewrittenShape ==
  ASSUME Shapes, NEW replacement, NEW rows
  PROVE  DOMAIN Rewritten(Seen, replacement, rows) = DOMAIN data
  BY DEF Rewritten, Seen, Shapes

LEMMA CopiesShapes ==
  ASSUME Shapes, Guarded, CopyFiles \/ CopyDatabase \/ WriteTestDbConfig
  PROVE  Shapes' /\ Guarded'
  <1>1. /\ proc.pc = "facing" /\ disk' = disk /\ run' = run /\ UNCHANGED <<source, edits, wrote>>
        /\ Go("judge") /\ DOMAIN data' = DOMAIN data
    BY DEF CopyFiles, CopyDatabase, WriteTestDbConfig, Facing, Shapes
  <1>2. DOMAIN proc' = DOMAIN proc /\ proc'.pc = "judge"
    BY <1>1, GoFields
  <1> QED BY <1>1, <1>2, KeepsRun DEF Guarded, OnlySearchReplaceStrays

LEMMA CorrectMultisiteShapes ==
  ASSUME Shapes, Guarded, CorrectMultisite
  PROVE  Shapes' /\ Guarded'
  <1>1. CASE PlanMultisiteDomain
    <2> DEFINE p == [before |-> data.net, after |-> Transform(data.net), config |-> files.domain]
               recovery == IF site.network THEN [run.recovery EXCEPT !.multisite = {p}]
                           ELSE run.recovery
    <2>1. /\ proc.pc # "idle" /\ disk' = disk /\ UNCHANGED <<source, edits>> /\ NoWrite
          /\ Recover(recovery)
      BY <1>1 DEF PlanMultisiteDomain, Facing
    <2> HIDE DEF p
    <2>2. Recovered(recovery)
      BY Marks DEF Recovered, Single
    <2> QED BY <2>1, <2>2, RecoverShapes
  <1>2. CASE ValidateNetwork
    BY <1>2, Marks, RecoverShapes DEF ValidateNetwork, Within
  <1>3. CASE SkipMultisite
    <2>1. /\ proc.pc = "facing" /\ disk' = disk /\ run' = run /\ UNCHANGED <<source, edits>>
          /\ Go("judge") /\ NoWrite
      BY <1>3 DEF SkipMultisite, Facing
    <2> QED BY <2>1, GoFields, KeepsRun DEF Guarded, OnlySearchReplaceStrays, NoWrite, target
  <1>4. CASE InspectNetwork
    <2>1. /\ proc.pc = "facing" /\ StepHere = "correct_multisite_domain" /\ disk' = disk
          /\ run' = run /\ UNCHANGED <<source, edits>> /\ NoWrite
      BY <1>4 DEF InspectNetwork, Facing
    <2>2. DOMAIN proc' = DOMAIN proc /\ proc'.pc = "writing"
      BY <1>4 DEF InspectNetwork, Shapes
    <2> QED BY <2>1, <2>2, KeepsRun DEF Guarded, OnlySearchReplaceStrays, NoWrite, target
  <1>5. CASE ApplyNetwork \/ ApplyNetworkBreaks
    <2>1. /\ proc.pc = "writing" /\ disk' = disk
          /\ run' = run /\ UNCHANGED <<source, edits, wrote>>
      BY <1>5 DEF ApplyNetwork, ApplyNetworkBreaks, Within, BySql
    <2>2. DOMAIN proc' = DOMAIN proc /\ proc'.pc \in {"checking", "broken"}
      BY <1>5 DEF ApplyNetwork, ApplyNetworkBreaks, Shapes
    <2>3. \E net : data' = [data EXCEPT !.net = net]
      BY <1>5 DEF ApplyNetwork, ApplyNetworkBreaks, BySql
    <2> QED BY <2>1, <2>2, <2>3, KeepsRun DEF Guarded, OnlySearchReplaceStrays
  <1>6. CASE SetMultisiteDomain
    <2>1. /\ proc.pc = "checking" /\ disk' = disk /\ run' = run /\ UNCHANGED <<source, edits>>
          /\ Go("validating") /\ UNCHANGED <<data, wrote>>
      BY <1>6 DEF SetMultisiteDomain, Within
    <2> QED BY <2>1, GoFields, KeepsRun DEF Guarded, OnlySearchReplaceStrays
  <1> QED BY <1>1, <1>2, <1>3, <1>4, <1>5, <1>6 DEF CorrectMultisite

LEMMA SearchReplaceShapes ==
  ASSUME Shapes, Guarded, SearchReplace \/ SearchReplaceBreaks
  PROVE  Shapes' /\ Guarded'
  <1>1. /\ proc.pc = "facing" /\ StepHere = "pending_search_replace" /\ disk' = disk
        /\ run' = run /\ UNCHANGED <<source, edits>>
        /\ Go("judge") \/ Go("broken")
        /\ \E rows : ByWp(Rewritten(Seen, Replaced, rows))
    BY DEF SearchReplace, SearchReplaceBreaks, Facing
  <1>2. DOMAIN proc' = DOMAIN proc /\ proc'.pc \in {"judge", "broken"}
    BY <1>1, GoFields
  <1>3. DOMAIN data' = DOMAIN data /\ OnlySearchReplaceStrays'
    BY <1>1, RewrittenShape, ByWpShapes
  <1> QED BY <1>1, <1>2, <1>3, KeepsRun DEF Guarded

LEMMA TestHttpsShapes ==
  ASSUME Shapes, Guarded, TestHttps
  PROVE  Shapes' /\ Guarded'
  <1>1. CASE PlanTestHttps
    <2> DEFINE p == [config |-> NetworkConfig(files), before |-> data.net,
                     after |-> HttpsSnapshot(data.net)]
               recovery == [run.recovery EXCEPT !.https = IF @ # {} THEN @ ELSE {p}]
    <2>1. /\ proc.pc # "idle" /\ disk' = disk /\ UNCHANGED <<source, edits>> /\ NoWrite
          /\ Recover(recovery)
      BY <1>1 DEF PlanTestHttps, Facing
    <2> HIDE DEF p
    <2>2. Recovered(recovery)
      BY Marks DEF Recovered
    <2> QED BY <2>1, <2>2, RecoverShapes
  <1>2. CASE ValidateHttps
    BY <1>2, Marks, RecoverShapes DEF ValidateHttps, Within
  <1>3. CASE StartHttps
    <2>1. /\ proc.pc = "facing" /\ disk' = disk /\ run' = run /\ UNCHANGED <<source, edits>>
          /\ NoWrite /\ files.db = "test"
      BY <1>3 DEF StartHttps, Facing, Accepted, EnforcesHttps, TestConnection
    <2>2. DOMAIN proc' = DOMAIN proc /\ proc'.pc = "writing"
      BY <1>3 DEF StartHttps, Shapes
    <2> QED BY <2>1, <2>2, KeepsRun DEF Guarded, OnlySearchReplaceStrays, NoWrite, target
  <1>4. CASE CountHost
    <2>1. /\ proc.pc = "writing" /\ StepHere = "enforce_test_https" /\ disk' = disk /\ run' = run
          /\ UNCHANGED <<source, edits>> /\ NoWrite
      BY <1>4 DEF CountHost, Within
    <2>2. DOMAIN proc' = DOMAIN proc /\ proc'.pc \in {"writing", "replacing"}
      BY <1>4, <2>1 DEF CountHost, Shapes
    <2> QED BY <2>1, <2>2, KeepsRun DEF Guarded, OnlySearchReplaceStrays, NoWrite, target
  <1>5. CASE ReplaceHost \/ ReplaceHostBreaks
    <2>1. /\ proc.pc = "replacing" /\ StepHere = "enforce_test_https" /\ disk' = disk /\ run' = run
          /\ UNCHANGED <<source, edits>>
          /\ Go("writing") \/ Go("broken")
          /\ \E rows : ByWp(Rewritten(Seen, Upgraded, rows))
      BY <1>5 DEF ReplaceHost, ReplaceHostBreaks, Within
    <2>2. DOMAIN proc' = DOMAIN proc /\ proc'.pc \in {"writing", "broken"}
      BY <2>1, GoFields
    <2>3. files.db = "test"
      BY <2>1 DEF Guarded
    <2>4. DOMAIN data' = DOMAIN data /\ OnlySearchReplaceStrays' /\ files' = files
      BY <2>1, <2>3, RewrittenShape, ByWpShapes
    <2> QED BY <2>1, <2>2, <2>3, <2>4, KeepsRun DEF Guarded
  <1> QED BY <1>1, <1>2, <1>3, <1>4, <1>5 DEF TestHttps

LEMMA TestIndexingShapes ==
  ASSUME Shapes, Guarded, TestIndexing
  PROVE  Shapes' /\ Guarded'
  <1>1. CASE PlanTestIndexing
    <2>1. /\ proc.pc # "idle" /\ disk' = disk /\ UNCHANGED <<source, edits>> /\ NoWrite
      BY <1>1 DEF PlanTestIndexing, Facing
    <2>2. PICK p \in run.recovery.https :
            Recover([Unmarked EXCEPT !.indexing =
                IF @ # {} THEN @
                ELSE {[https |-> p, before |-> [b \in Present(data) |-> Seen.public[b]]]}])
      BY <1>1 DEF PlanTestIndexing
    <2> DEFINE q == [https |-> p, before |-> [b \in Present(data) |-> Seen.public[b]]]
               recovery == [Unmarked EXCEPT !.indexing = IF @ # {} THEN @ ELSE {q}]
    <2>3. Recover(recovery)
      BY <2>2
    <2> HIDE DEF q
    <2>4. Recovered(recovery)
      BY Marks DEF Recovered
    <2> QED BY <2>1, <2>3, <2>4, RecoverShapes
  <1>2. CASE ValidateIndexing
    BY <1>2, Marks, RecoverShapes DEF ValidateIndexing, Within
  <1>3. CASE StartIndexing
    <2>1. /\ proc.pc = "facing" /\ disk' = disk /\ UNCHANGED <<source, edits>>
          /\ run' = [run EXCEPT !.recovery = Unmarked]
          /\ NoWrite /\ files.db = "test"
      BY <1>3 DEF StartIndexing, Facing, Accepted, DisablesIndexing, TestConnection
    <2>2. DOMAIN proc' = DOMAIN proc /\ proc'.pc = "writing"
      BY <1>3 DEF StartIndexing, Shapes
    <2>3. DOMAIN run' = DOMAIN run /\ run'.recovery = Unmarked /\ run'.done = run.done
      BY <2>1 DEF Shapes, Shaped
    <2>4. Stepping
      BY <2>1, <2>2, <2>3, Marks DEF Stepping, NoWrite, target
    <2> QED BY <2>1, <2>2, <2>4, SteppingShapes DEF Guarded, OnlySearchReplaceStrays, NoWrite, target
  <1>4. CASE ReadBlog
    <2>1. /\ proc.pc = "writing" /\ StepHere = "disable_test_indexing" /\ disk' = disk /\ run' = run
          /\ UNCHANGED <<source, edits>> /\ NoWrite
      BY <1>4 DEF ReadBlog, Within
    <2>2. DOMAIN proc' = DOMAIN proc /\ proc'.pc \in {"writing", "replacing"}
      BY <1>4, <2>1 DEF ReadBlog, Shapes
    <2> QED BY <2>1, <2>2, KeepsRun DEF Guarded, OnlySearchReplaceStrays, NoWrite, target
  <1>5. CASE UpdateBlog
    <2>1. /\ proc.pc = "replacing" /\ StepHere = "disable_test_indexing" /\ disk' = disk
          /\ run' = run /\ UNCHANGED <<source, edits>> /\ Go("writing")
      BY <1>5 DEF UpdateBlog, Within
    <2>2. PICK b \in proc.at : ByWp([Seen EXCEPT !.public[b] = "0"])
      BY <1>5 DEF UpdateBlog
    <2>3. DOMAIN [Seen EXCEPT !.public[b] = "0"] = DOMAIN data
      BY DEF Seen, Shapes
    <2>4. files.db = "test"
      BY <2>1 DEF Guarded
    <2>5. DOMAIN data' = DOMAIN data /\ OnlySearchReplaceStrays' /\ files' = files
      BY <2>2, <2>3, <2>4, ByWpShapes
    <2> QED BY <2>1, <2>4, <2>5, GoFields, KeepsRun DEF Guarded
  <1> QED BY <1>1, <1>2, <1>3, <1>4, <1>5 DEF TestIndexing

\* The end of a step.
LEMMA SavedShapes ==
  ASSUME Shapes, proc.pc # "idle", NEW m, Shaped(m), disk' = disk \/ disk' = Saved(m)
  PROVE  IsSeq(disk') /\ Len(disk') = Len(disk) /\ \A r \in 1..Len(disk) : Shaped(disk'[r])
  BY SeqChanges DEF Shapes, Saved, Current

LEMMA EndShapes ==
  ASSUME Shapes, Guarded, proc.pc # "idle", NEW m, Shaped(m), disk' = disk \/ disk' = Saved(m),
         run' = Fresh, proc' = Idle, UNCHANGED <<source, target, edits>>
  PROVE  Shapes' /\ Guarded'
  <1>1. Shaped(run') /\ DOMAIN proc' = {"pc", "todo", "blogs", "at"} /\ proc'.pc = "idle"
    BY DEF Fresh, Idle, Shaped, Recovered, Single
  <1> QED BY <1>1, SavedShapes DEF Shapes, Guarded, OnlySearchReplaceStrays, Current, target

LEMMA ClosedShapes ==
  ASSUME NEW m, Shaped(m)
  PROVE  /\ Shaped(Closed(m))
         /\ \A r : Recovered(r) => Shaped([m EXCEPT !.recovery = r])
  BY DEF Shaped, Closed

LEMMA CountedShapes ==
  ASSUME Shapes
  PROVE  Shaped(Counted) /\ Shaped([Counted EXCEPT !.status = "EXECUTED", !.print = {files}])
  BY DEF Shapes, Shaped, Counted

LEMMA EndsShapes ==
  ASSUME Shapes, Guarded, Fails \/ JudgeContinues \/ JudgeFinishes \/ JudgeStops \/ Crash
  PROVE  Shapes' /\ Guarded'
  <1>1. Shaped(run) /\ Shaped([run EXCEPT !.recovery = Unmarked])
    BY Marks, ClosedShapes DEF Shapes
  <1>2. CASE Fails
    <2> DEFINE m == IF StepHere \in {"plan_test_indexing", "disable_test_indexing"}
                    THEN [run EXCEPT !.recovery = Unmarked] ELSE run
    <2>1. Shaped(Closed(m))
      BY <1>1, ClosedShapes
    <2>2. /\ disk' = Saved(Closed(m)) /\ proc.pc # "idle" /\ run' = Fresh /\ proc' = Idle
          /\ UNCHANGED <<source, target, edits>>
      BY <1>2 DEF Fails
    <2> HIDE DEF m
    <2> QED BY <2>1, <2>2, EndShapes
  <1>3. CASE JudgeContinues
    <2>1. /\ proc.pc = "judge" /\ run' = Counted /\ disk' = Saved(Counted) /\ Go("facing")
          /\ UNCHANGED <<source, target, edits>>
      BY <1>3 DEF JudgeContinues
    <2>2. DOMAIN proc' = DOMAIN proc /\ proc'.pc = "facing"
      BY <2>1, GoFields
    <2> QED BY <2>1, <2>2, SavedShapes, CountedShapes
            DEF Shapes, Guarded, OnlySearchReplaceStrays, Current, target
  <1>4. CASE JudgeFinishes
    BY <1>4, EndShapes, CountedShapes DEF JudgeFinishes
  <1>5. CASE JudgeStops
    BY <1>1, <1>5, EndShapes, ClosedShapes DEF JudgeStops
  <1>6. CASE Crash
    BY <1>6, EndShapes, CountedShapes DEF Crash
  <1> QED BY <1>2, <1>3, <1>4, <1>5, <1>6

LEMMA NextShapes ==
  ASSUME Shapes, Guarded, [Next]_vars
  PROVE  Shapes' /\ Guarded'
  <1>1. CASE UNCHANGED vars
    BY <1>1 DEF vars, target, Shapes, Guarded, OnlySearchReplaceStrays, Current, StepHere
  <1> QED BY <1>1, OperatorShapes, CopiesShapes, CorrectMultisiteShapes, SearchReplaceShapes,
             TestHttpsShapes, TestIndexingShapes, EndsShapes DEF Next

\* No step but the search-replace ever writes through WP-CLI to the production database,
\* whatever plan, stale resume or edit led there (test_https.py 74-78, test_indexing.py
\* 53-57).
THEOREM ProductionIsSpared == Spec => []OnlySearchReplaceStrays
  <1>1. Init => Shapes /\ Guarded
    BY InitShapes
  <1>2. Shapes /\ Guarded /\ [Next]_vars => (Shapes /\ Guarded)'
    BY NextShapes
  <1>3. Guarded => OnlySearchReplaceStrays
    BY DEF Guarded
  <1> QED BY <1>1, <1>2, <1>3, PTL DEF Spec

-----------------------------------------------------------------------------
(***************************************************************************)
(* What the statements for a plan write.                                   *)
(***************************************************************************)

\* A cell is left alone, or written over the value the plan recorded before.
LEMMA UpdatedCell ==
  ASSUME NEW net, NEW p, NEW cells, NEW c \in Cells(net),
         Cell(Updated(net, p, cells), c) # Cell(net, c)
  PROVE  /\ Cell(net, c) = Cell(p.before, c)
         /\ Cell(Updated(net, p, cells), c) = Cell(p.after, c)
  <1> DEFINE update(a) ==
               IF a \in cells THEN Conditional(Cell(net, a), Cell(p.before, a), Cell(p.after, a))
               ELSE Cell(net, a)
             written == [domain |-> update(<<0, "domain">>),
                         blogs |-> [b \in DOMAIN net.blogs |->
                            [domain |-> update(<<b, "domain">>), home |-> update(<<b, "home">>),
                             siteurl |-> update(<<b, "siteurl">>)]]]
  <1>1. Updated(net, p, cells) = written
    BY DEF Updated
  <1>2. CASE c[1] = 0
    <2>1. Cell(written, c) = update(<<0, "domain">>)
      BY <1>2 DEF Cell
    <2>2. \A n : Cell(n, <<0, "domain">>) = n.domain /\ Cell(n, c) = n.domain
      BY <1>2 DEF Cell
    <2> QED BY <1>1, <2>1, <2>2 DEF Conditional
  <1>3. CASE c[1] # 0
    <2>1. PICK b \in DOMAIN net.blogs, field \in {"domain", "home", "siteurl"} : c = <<b, field>>
      BY <1>3 DEF Cells
    <2>2. Cell(written, c) = written.blogs[b][field]
      BY <1>3, <2>1 DEF Cell
    <2>3. written.blogs[b][field] = update(c)
      BY <2>1
    <2> QED BY <1>1, <2>2, <2>3 DEF Conditional
  <1> QED BY <1>2, <1>3

\* While a run applies the plan of the network, only its statements write.
LEMMA ApplyingWrites ==
  ASSUME Shapes, Next, edits' = edits, proc.pc \in {"writing", "replacing"},
         StepHere = "correct_multisite_domain"
  PROVE  \/ data' = data
         \/ \E p \in run.recovery.multisite : \E cells :
               data' = [data EXCEPT !.net = Updated(data.net, p, cells)]
  <1>1. CASE Execute \/ \E r \in 1..Current : Resume(r)
    BY <1>1 DEF Execute, Resume, Begin
  <1>2. CASE Edit
    BY <1>2 DEF Edit, Shapes
  <1>3. CASE CopyFiles \/ CopyDatabase \/ WriteTestDbConfig \/ SearchReplace \/ SearchReplaceBreaks
    BY <1>3 DEF CopyFiles, CopyDatabase, WriteTestDbConfig, SearchReplace, SearchReplaceBreaks, Facing
  <1>4. CASE CorrectMultisite
    <2>1. CASE ApplyNetwork \/ ApplyNetworkBreaks
      BY <2>1 DEF ApplyNetwork, ApplyNetworkBreaks, BySql
    <2> QED BY <1>4, <2>1 DEF CorrectMultisite, PlanMultisiteDomain, SkipMultisite, InspectNetwork,
               SetMultisiteDomain, ValidateNetwork, Facing, Within, NoWrite, target
  <1>5. CASE TestHttps
    BY <1>5 DEF TestHttps, PlanTestHttps, StartHttps, CountHost, ReplaceHost, ReplaceHostBreaks,
                ValidateHttps, Facing, Within
  <1>6. CASE TestIndexing
    BY <1>6 DEF TestIndexing, PlanTestIndexing, StartIndexing, ReadBlog, UpdateBlog,
                ValidateIndexing, Facing, Within
  <1>7. CASE Fails \/ JudgeContinues \/ JudgeFinishes \/ JudgeStops \/ Crash
    BY <1>7 DEF Fails, JudgeContinues, JudgeFinishes, JudgeStops, Crash, target
  <1> QED BY <1>1, <1>2, <1>3, <1>4, <1>5, <1>6, <1>7 DEF Next

\* The step that corrects a network writes only the values its plan recorded, each over
\* the value recorded before it, whoever edits between its inspection and its statements
\* (adapter.py 297-300).
THEOREM WritesAreRecorded == Spec => OnlyRecordedValues
  <1> DEFINE Recording ==
        edits' = edits /\ proc.pc \in {"writing", "replacing"} =>
         \A p \in run.recovery.multisite : StepHere = "correct_multisite_domain" =>
             \A c \in Cells(data.net) : Cell(data'.net, c) # Cell(data.net, c) =>
                 Cell(data.net, c) = Cell(p.before, c) /\ Cell(data'.net, c) = Cell(p.after, c)
  <1>1. Init => Shapes /\ Guarded
    BY InitShapes
  <1>2. Shapes /\ Guarded /\ [Next]_vars => (Shapes /\ Guarded)'
    BY NextShapes
  <1>3. Shapes /\ [Next]_vars => [Recording]_vars
    <2> SUFFICES ASSUME Shapes, Next, edits' = edits, proc.pc \in {"writing", "replacing"},
                        NEW p \in run.recovery.multisite, StepHere = "correct_multisite_domain",
                        NEW c \in Cells(data.net), Cell(data'.net, c) # Cell(data.net, c)
                 PROVE  Cell(data.net, c) = Cell(p.before, c) /\ Cell(data'.net, c) = Cell(p.after, c)
      OBVIOUS
    <2>1. PICK q \in run.recovery.multisite :
            \E cells : data' = [data EXCEPT !.net = Updated(data.net, q, cells)]
      BY ApplyingWrites
    <2>2. q = p
      BY DEF Shapes, Shaped, Recovered, Single
    <2>3. PICK cells : data' = [data EXCEPT !.net = Updated(data.net, p, cells)]
      BY <2>1, <2>2
    <2>4. data'.net = Updated(data.net, p, cells)
      BY <2>3 DEF Shapes
    <2> QED BY <2>4, UpdatedCell
  <1> QED BY <1>1, <1>2, <1>3, PTL DEF Spec, OnlyRecordedValues

-----------------------------------------------------------------------------
(***************************************************************************)
(* Types.                                                                  *)
(***************************************************************************)

\* A snapshot, and the data of a database, field by field.
LEMMA SnapshotFields ==
  ASSUME NEW net \in NetworkSnapshot
  PROVE  /\ net.domain \in Host /\ DOMAIN net.blogs \in SUBSET Blogs
         /\ net.blogs \in [DOMAIN net.blogs -> BlogRow]
         /\ \A b \in DOMAIN net.blogs :
               /\ net.blogs[b].domain \in Host /\ net.blogs[b].home \in Url
               /\ net.blogs[b].siteurl \in Url
  <1>1. net.domain \in Host /\ net.blogs \in UNION {[present -> BlogRow] : present \in SUBSET Blogs}
    BY DEF NetworkSnapshot
  <1>2. PICK present \in SUBSET Blogs : net.blogs \in [present -> BlogRow]
    BY <1>1
  <1>3. DOMAIN net.blogs = present
    BY <1>2
  <1>4. \A b \in present : net.blogs[b] \in BlogRow
    BY <1>2
  <1> QED BY <1>1, <1>2, <1>3, <1>4 DEF BlogRow

LEMMA SnapshotTyped ==
  ASSUME NEW domain \in Host, NEW present \in SUBSET Blogs, NEW blogs \in [present -> BlogRow]
  PROVE  [domain |-> domain, blogs |-> blogs] \in NetworkSnapshot
  BY DEF NetworkSnapshot

\* The function of nothing is the empty sequence.
LEMMA EmptyFunction ==
  ASSUME NEW S, NEW f \in [{} -> S]
  PROVE  f = <<>>
  <1>1. f \in Seq(S)
    <2>1. 0 \in Nat /\ 1..0 = {}
      OBVIOUS
    <2>2. [1..0 -> S] \subseteq Seq(S)
      BY <2>1, SeqDef
    <2> QED BY <2>1, <2>2
  <1>2. Len(f) = 0
    BY <1>1, LenProperties
  <1> QED BY <1>1, <1>2, EmptySeq

LEMMA DataFields ==
  ASSUME NEW d \in Data
  PROVE  /\ DOMAIN d = {"net", "content", "public"}
         /\ d.net \in NetworkSnapshot /\ d.content \in [Blogs -> Url] /\ d.public \in [Blogs -> Public]
         /\ Present(d) \in SUBSET Blogs /\ Present(d) # {}
  <1>1. /\ d \in [net: NetworkSnapshot, content: [Blogs -> Url], public: [Blogs -> Public]]
        /\ d.net.blogs # <<>>
    BY DEF Data
  <1>2. d.net \in NetworkSnapshot
    BY <1>1
  <1>3. d.net.blogs \in [DOMAIN d.net.blogs -> BlogRow]
    BY <1>2, SnapshotFields
  <1>4. DOMAIN d.net.blogs # {}
    BY <1>1, <1>3, EmptyFunction
  <1> QED BY <1>1, <1>2, <1>4, SnapshotFields DEF Present

LEMMA DataTyped ==
  ASSUME NEW d, DOMAIN d = {"net", "content", "public"}, d = [f \in DOMAIN d |-> d[f]],
         d.net \in NetworkSnapshot, d.content \in [Blogs -> Url], d.public \in [Blogs -> Public],
         DOMAIN d.net.blogs # {}
  PROVE  d \in Data
  <1>1. d \in [net: NetworkSnapshot, content: [Blogs -> Url], public: [Blogs -> Public]]
    OBVIOUS
  <1>2. d.net.blogs # <<>>
    <2>1. DOMAIN <<>> = {}
      BY EmptySeq
    <2> QED BY <2>1
  <1> QED BY <1>1, <1>2 DEF Data

\* One of its fields replaced.
LEMMA NetChanges ==
  ASSUME NEW d \in Data, NEW net \in NetworkSnapshot, DOMAIN net.blogs # {}
  PROVE  /\ [d EXCEPT !.net = net] \in Data /\ [d EXCEPT !.net = net].net = net
         /\ [d EXCEPT !.net = net].content = d.content
         /\ [d EXCEPT !.net = net].public = d.public
  <1> DEFINE a == [d EXCEPT !.net = net]
  <1>1. /\ DOMAIN d = {"net", "content", "public"}
        /\ d.content \in [Blogs -> Url] /\ d.public \in [Blogs -> Public]
    BY DataFields
  <1>2. /\ a.net = net /\ a.content = d.content /\ a.public = d.public
        /\ DOMAIN a = {"net", "content", "public"} /\ a = [f \in DOMAIN a |-> a[f]]
    BY <1>1
  <1> HIDE DEF a
  <1>3. a \in Data
    BY <1>1, <1>2, DataTyped
  <1> QED BY <1>2, <1>3 DEF a

LEMMA PublicChanges ==
  ASSUME NEW d \in Data, NEW public \in [Blogs -> Public]
  PROVE  /\ [d EXCEPT !.public = public] \in Data /\ [d EXCEPT !.public = public].net = d.net
         /\ [d EXCEPT !.public = public].content = d.content
         /\ [d EXCEPT !.public = public].public = public
  <1> DEFINE a == [d EXCEPT !.public = public]
  <1>1. /\ DOMAIN d = {"net", "content", "public"} /\ DOMAIN d.net.blogs # {}
        /\ d.content \in [Blogs -> Url] /\ d.net \in NetworkSnapshot
    BY DataFields DEF Present
  <1>2. /\ a.net = d.net /\ a.content = d.content /\ a.public = public
        /\ DOMAIN a = {"net", "content", "public"} /\ a = [f \in DOMAIN a |-> a[f]]
    BY <1>1
  <1> HIDE DEF a
  <1>3. a \in Data
    BY <1>1, <1>2, DataTyped
  <1> QED BY <1>2, <1>3 DEF a

\* The URLs the steps write.
LEMMA UrlsTyped ==
  ASSUME site \in Site
  PROVE  /\ \A host \in Host : On(host) \in Url
         /\ \A url \in Url : Secured(url) \in Url /\ Secured(url).host = url.host /\ Secured(url).https
         /\ Replaced \in [Url -> Url] /\ Upgraded \in [Url -> Url]
  <1>1. \A host \in Host : On(host) \in Url
    BY DEF On, Url, Site
  <1>2. \A url \in Url : Secured(url) \in Url /\ Secured(url).host = url.host /\ Secured(url).https
    BY DEF Secured, Url
  <1>3. On("old") \in Url /\ On("new") \in Url /\ On("other") \in Url
    BY <1>1 DEF Host
  <1>4. Replaced \in [Url -> Url]
    BY <1>3 DEF Replaced
  <1>5. Upgraded \in [Url -> Url]
    BY <1>2 DEF Upgraded
  <1> QED BY <1>1, <1>2, <1>4, <1>5

\* What a search-replace makes of the data, wherever it stops.
LEMMA RewrittenTyped ==
  ASSUME site \in Site, NEW d \in Data, NEW replacement \in [Url -> Url], NEW rows
  PROVE  LET e == Rewritten(d, replacement, rows)
         IN /\ e \in Data /\ Present(e) = Present(d) /\ e.public = d.public
            /\ \A b \in Blogs :
                  e.content[b] = IF <<b, "content">> \in rows THEN replacement[d.content[b]]
                                 ELSE d.content[b]
            /\ e.net.domain = d.net.domain
            /\ \A b \in Present(d) :
                  /\ e.net.blogs[b].domain = d.net.blogs[b].domain
                  /\ e.net.blogs[b].home = IF <<b, "home">> \in rows
                        THEN replacement[d.net.blogs[b].home] ELSE d.net.blogs[b].home
                  /\ e.net.blogs[b].siteurl = IF <<b, "siteurl">> \in rows
                        THEN replacement[d.net.blogs[b].siteurl] ELSE d.net.blogs[b].siteurl
  <1> DEFINE at(b, field, url) == IF <<b, field>> \in rows THEN replacement[url] ELSE url
             home(b) == at(b, "home", d.net.blogs[b].home)
             siteurl(b) == at(b, "siteurl", d.net.blogs[b].siteurl)
             row(b) == [domain |-> d.net.blogs[b].domain, home |-> home(b), siteurl |-> siteurl(b)]
             blogs == [b \in Present(d) |-> row(b)]
             content == [b \in Blogs |-> at(b, "content", d.content[b])]
             net == [domain |-> d.net.domain, blogs |-> blogs]
             e == [net |-> net, content |-> content, public |-> d.public]
  <1>1. Rewritten(d, replacement, rows) = e
    BY DEF Rewritten
  <1>2. /\ d.net \in NetworkSnapshot /\ d.content \in [Blogs -> Url] /\ d.public \in [Blogs -> Public]
        /\ Present(d) \in SUBSET Blogs /\ Present(d) # {} /\ Present(d) = DOMAIN d.net.blogs
    BY DataFields DEF Present
  <1>3. /\ d.net.domain \in Host
        /\ \A b \in Present(d) : /\ d.net.blogs[b].domain \in Host /\ d.net.blogs[b].home \in Url
                                  /\ d.net.blogs[b].siteurl \in Url
    BY <1>2, SnapshotFields
  <1>4. \A b \in Present(d) : home(b) \in Url /\ siteurl(b) \in Url
    BY <1>3
  <1>5. content \in [Blogs -> Url]
    BY <1>2
  <1>6. \A b \in Blogs : content[b] = at(b, "content", d.content[b])
    OBVIOUS
  <1> HIDE DEF home, siteurl, content
  <1>7. \A b \in Present(d) : row(b) \in BlogRow
    BY <1>3, <1>4 DEF BlogRow
  <1>8. blogs \in [Present(d) -> BlogRow] /\ DOMAIN blogs = Present(d)
    BY <1>7
  <1>9. \A b \in Present(d) : /\ blogs[b].domain = d.net.blogs[b].domain
                               /\ blogs[b].home = home(b) /\ blogs[b].siteurl = siteurl(b)
    OBVIOUS
  <1> HIDE DEF blogs
  <1>10. net \in NetworkSnapshot /\ net.blogs = blogs /\ net.domain = d.net.domain
    BY <1>2, <1>3, <1>8, SnapshotTyped
  <1> HIDE DEF net
  <1>11. /\ DOMAIN e = {"net", "content", "public"} /\ e = [f \in DOMAIN e |-> e[f]]
         /\ e.net = net /\ e.content = content /\ e.public = d.public
    OBVIOUS
  <1> HIDE DEF e
  <1>12. e \in Data
    BY <1>2, <1>5, <1>8, <1>10, <1>11, DataTyped
  <1>13. Present(e) = Present(d)
    BY <1>8, <1>10, <1>11 DEF Present
  <1> QED BY <1>1, <1>6, <1>9, <1>10, <1>11, <1>12, <1>13 DEF home, siteurl

\* The plans.
LEMMA TransformTyped ==
  ASSUME site \in Site, NEW net \in NetworkSnapshot
  PROVE  /\ Transform(net) \in NetworkSnapshot /\ Transform(net).domain = "new"
         /\ DOMAIN Transform(net).blogs = DOMAIN net.blogs
         /\ \A b \in DOMAIN net.blogs :
               Transform(net).blogs[b] = [domain |-> "new", home |-> On("new"), siteurl |-> On("new")]
  <1> DEFINE row == [domain |-> "new", home |-> On("new"), siteurl |-> On("new")]
             blogs == [b \in DOMAIN net.blogs |-> row]
  <1>1. row \in BlogRow
    BY UrlsTyped DEF BlogRow, Host
  <1> HIDE DEF row
  <1>2. blogs \in [DOMAIN net.blogs -> BlogRow] /\ DOMAIN net.blogs \in SUBSET Blogs
    BY <1>1, SnapshotFields
  <1>3. DOMAIN blogs = DOMAIN net.blogs /\ \A b \in DOMAIN net.blogs : blogs[b] = row
    OBVIOUS
  <1> HIDE DEF blogs
  <1>4. [domain |-> "new", blogs |-> blogs] \in NetworkSnapshot
    BY <1>2, SnapshotTyped DEF Host
  <1>5. Transform(net) = [domain |-> "new", blogs |-> blogs]
    BY DEF Transform, blogs, row
  <1> QED BY <1>3, <1>4, <1>5 DEF row

LEMMA SecuringTyped ==
  ASSUME site \in Site, NEW net \in NetworkSnapshot
  PROVE  /\ HttpsSnapshot(net) \in NetworkSnapshot /\ HttpsSnapshot(net).domain = net.domain
         /\ DOMAIN HttpsSnapshot(net).blogs = DOMAIN net.blogs
         /\ \A b \in DOMAIN net.blogs :
               HttpsSnapshot(net).blogs[b] =
                   [domain |-> net.blogs[b].domain, home |-> Secured(net.blogs[b].home),
                    siteurl |-> Secured(net.blogs[b].siteurl)]
  <1> DEFINE row(b) == [domain |-> net.blogs[b].domain, home |-> Secured(net.blogs[b].home),
                        siteurl |-> Secured(net.blogs[b].siteurl)]
             blogs == [b \in DOMAIN net.blogs |-> row(b)]
  <1>1. \A b \in DOMAIN net.blogs : row(b) \in BlogRow
    BY SnapshotFields, UrlsTyped DEF BlogRow
  <1> HIDE DEF row
  <1>2. /\ blogs \in [DOMAIN net.blogs -> BlogRow] /\ DOMAIN net.blogs \in SUBSET Blogs
        /\ net.domain \in Host
    BY <1>1, SnapshotFields
  <1>3. DOMAIN blogs = DOMAIN net.blogs /\ \A b \in DOMAIN net.blogs : blogs[b] = row(b)
    OBVIOUS
  <1> HIDE DEF blogs
  <1>4. [domain |-> net.domain, blogs |-> blogs] \in NetworkSnapshot
    BY <1>2, SnapshotTyped
  <1>5. HttpsSnapshot(net) = [domain |-> net.domain, blogs |-> blogs]
    BY DEF HttpsSnapshot, blogs, row
  <1> QED BY <1>3, <1>4, <1>5 DEF row

LEMMA CellsTyped ==
  ASSUME NEW net \in NetworkSnapshot
  PROVE  /\ <<0, "domain">> \in Cells(net) /\ Cell(net, <<0, "domain">>) \in Host
         /\ \A b \in DOMAIN net.blogs :
               /\ Cell(net, <<b, "domain">>) \in Host
               /\ Cell(net, <<b, "home">>) \in Url /\ Cell(net, <<b, "siteurl">>) \in Url
         /\ Cells(net) \subseteq ({0} \cup Blogs) \X {"domain", "home", "siteurl"}
  <1>1. /\ DOMAIN net.blogs \subseteq Blogs /\ net.domain \in Host
        /\ \A b \in DOMAIN net.blogs :
              /\ net.blogs[b].domain \in Host /\ net.blogs[b].home \in Url
              /\ net.blogs[b].siteurl \in Url
    BY SnapshotFields
  <1>2. \A b \in DOMAIN net.blogs : b # 0
    BY <1>1, BlogsAssumption
  <1>3. /\ Cell(net, <<0, "domain">>) = net.domain
        /\ \A b \in DOMAIN net.blogs, field \in {"domain", "home", "siteurl"} :
              Cell(net, <<b, field>>) = net.blogs[b][field]
    BY <1>2 DEF Cell
  <1> QED BY <1>1, <1>3 DEF Cells

\* A cell of a snapshot is one of every snapshot of the same blogs.
LEMMA UpdatedTyped ==
  ASSUME NEW net \in NetworkSnapshot, NEW p \in MultisitePlan, NEW cells,
         cells \subseteq Cells(p.before), DOMAIN p.after.blogs = DOMAIN p.before.blogs
  PROVE  /\ Updated(net, p, cells) \in NetworkSnapshot
         /\ DOMAIN Updated(net, p, cells).blogs = DOMAIN net.blogs
  <1> DEFINE update(c) ==
                IF c \in cells THEN Conditional(Cell(net, c), Cell(p.before, c), Cell(p.after, c))
                ELSE Cell(net, c)
             row(b) == [domain |-> update(<<b, "domain">>), home |-> update(<<b, "home">>),
                        siteurl |-> update(<<b, "siteurl">>)]
             blogs == [b \in DOMAIN net.blogs |-> row(b)]
  <1>1. p.before \in NetworkSnapshot /\ p.after \in NetworkSnapshot
    BY DEF MultisitePlan
  <1>2. \A b : \A field : <<b, field>> \in cells /\ b # 0 => b \in DOMAIN p.after.blogs
    BY DEF Cells
  <1>3. \A c : update(c) \in {Cell(net, c), Cell(p.after, c)}
    BY DEF Conditional
  <1>4. \A c : c \notin cells => update(c) = Cell(net, c)
    OBVIOUS
  <1> HIDE DEF update
  <1>5. update(<<0, "domain">>) \in Host
    BY <1>1, <1>3, CellsTyped
  <1>6. \A b \in DOMAIN net.blogs : b # 0
    BY SnapshotFields, BlogsAssumption
  <1>7. \A b \in DOMAIN net.blogs :
           /\ update(<<b, "domain">>) \in Host
           /\ update(<<b, "home">>) \in Url /\ update(<<b, "siteurl">>) \in Url
    <2> TAKE b \in DOMAIN net.blogs
    <2>1. /\ Cell(net, <<b, "domain">>) \in Host
          /\ Cell(net, <<b, "home">>) \in Url /\ Cell(net, <<b, "siteurl">>) \in Url
      BY CellsTyped
    <2>2. CASE b \in DOMAIN p.after.blogs
      <3>1. /\ Cell(p.after, <<b, "domain">>) \in Host
            /\ Cell(p.after, <<b, "home">>) \in Url /\ Cell(p.after, <<b, "siteurl">>) \in Url
        BY <1>1, <2>2, CellsTyped
      <3> QED BY <1>3, <2>1, <3>1
    <2>3. CASE b \notin DOMAIN p.after.blogs
      <3>1. \A field : <<b, field>> \notin cells
        BY <1>2, <1>6, <2>3
      <3> QED BY <1>4, <2>1, <3>1
    <2> QED BY <2>2, <2>3
  <1>8. \A b \in DOMAIN net.blogs : row(b) \in BlogRow
    BY <1>7 DEF BlogRow
  <1> HIDE DEF row
  <1>9. /\ blogs \in [DOMAIN net.blogs -> BlogRow] /\ DOMAIN net.blogs \in SUBSET Blogs
        /\ DOMAIN blogs = DOMAIN net.blogs
    BY <1>8, SnapshotFields
  <1> HIDE DEF blogs
  <1>10. [domain |-> update(<<0, "domain">>), blogs |-> blogs] \in NetworkSnapshot
    BY <1>5, <1>9, SnapshotTyped
  <1>11. Updated(net, p, cells) = [domain |-> update(<<0, "domain">>), blogs |-> blogs]
    BY DEF Updated, update, row, blogs
  <1> QED BY <1>9, <1>10, <1>11

\* A plan that is replayed has the cells of the present network.
LEMMA ReplayedCells ==
  ASSUME NEW net \in NetworkSnapshot, NEW p, Replays(net, p)
  PROVE  Pending(net, p) \subseteq Cells(p.before)
  BY DEF Replays, Pending, Cells

LEMMA PlanSteps ==
  /\ Len(Plan) = 10 /\ \A k \in 1..10 : Plan[k] \in StepName
  /\ Plan[1] = "copy_files" /\ Plan[2] = "copy_database" /\ Plan[3] = "write_test_db_config"
  /\ Plan[4] = "plan_multisite_domain" /\ Plan[5] = "correct_multisite_domain"
  /\ Plan[6] = "pending_search_replace" /\ Plan[7] = "plan_test_https"
  /\ Plan[8] = "enforce_test_https" /\ Plan[9] = "plan_test_indexing"
  /\ Plan[10] = "disable_test_indexing"
  BY PlanAssumption DEF StepName

\* What a manifest knows of its plans.
OnTest(net) == Structural(net) /\ \A b \in DOMAIN net.blogs : net.blogs[b].domain = "new"
Sound(recovery) ==
    /\ Single(recovery.multisite) /\ Single(recovery.https) /\ Single(recovery.indexing)
    /\ \A p \in recovery.multisite : p.after = Transform(p.before)
    /\ \A p \in recovery.https : OnTest(p.before) /\ p.after = HttpsSnapshot(p.before)

\* The process has the manifest it saved last, but for its recovery data; what it is about
\* to write is in the plan.
Located ==
    /\ run.status = "RUNNING"
    /\ proc.pc # "idle" =>
          /\ Current >= 1 /\ run.done < Len(Plan)
          /\ disk[Current].done = run.done /\ disk[Current].status = "RUNNING"
    /\ proc.pc = "writing" /\ StepHere = "correct_multisite_domain" =>
          \A p \in run.recovery.multisite : proc.todo \subseteq Cells(p.before)

Targets ==
    /\ files \in Config /\ data \in Data /\ Main \in Present(data) /\ wrote \subseteq StepName
    /\ author \in [files: 0..Current, data: 0..Current]

Typed ==
    /\ TypeOK /\ Located
    /\ Main \in Present(source) /\ Main \in Present(data)
    /\ Sound(run.recovery) /\ \A r \in 1..Current : Sound(disk[r].recovery)

LEMMA SoundStays ==
  ASSUME site' = site, NEW recovery, Sound(recovery)
  PROVE  Sound(recovery)'
  BY DEF Sound, OnTest, Structural, Transform, HttpsSnapshot, Secured, On

LEMMA HereTyped ==
  ASSUME Typed, proc.pc # "idle"
  PROVE  /\ Current \in Nat /\ Current >= 1 /\ run.done \in 0..9 /\ StepHere \in StepName
         /\ run.done + 1 \in 1..10
  <1>1. run.done \in 0..Len(Plan) /\ Current \in Nat
    BY LenProperties, PlanSteps DEF Typed, TypeOK, Manifest, Current
  <1>2. Current >= 1 /\ run.done < Len(Plan)
    BY DEF Typed, Located
  <1>3. run.done \in 0..9 /\ run.done + 1 \in 1..10
    BY <1>1, <1>2, PlanSteps
  <1> QED BY <1>1, <1>2, <1>3, PlanSteps DEF StepHere

LEMMA ManifestFields ==
  ASSUME NEW m \in Manifest
  PROVE  /\ m.status \in {"RUNNING", "EXECUTED", "UPDATE_FAILED_PRESERVED"}
         /\ m.done \in 0..10 /\ m.print \in SUBSET Config /\ m.recovery \in Recovery
         /\ m.status = "RUNNING" <=> m.print = {}
         /\ DOMAIN m = {"status", "done", "print", "recovery"}
  BY PlanSteps DEF Manifest

LEMMA ManifestTyped ==
  ASSUME NEW m, DOMAIN m = {"status", "done", "print", "recovery"}, m = [f \in DOMAIN m |-> m[f]],
         m.status \in {"RUNNING", "EXECUTED", "UPDATE_FAILED_PRESERVED"},
         m.done \in 0..10, m.print \in SUBSET Config, m.recovery \in Recovery,
         m.status = "RUNNING" <=> m.print = {}
  PROVE  m \in Manifest
  <1>1. m \in [status: {"RUNNING", "EXECUTED", "UPDATE_FAILED_PRESERVED"},
               done: 0..10, print: SUBSET Config, recovery: Recovery]
    OBVIOUS
  <1> QED BY <1>1, PlanSteps DEF Manifest

LEMMA RecoveryFields ==
  ASSUME NEW r \in Recovery
  PROVE  /\ r.multisite \in SUBSET MultisitePlan /\ r.https \in SUBSET HttpsPlan
         /\ r.indexing \in SUBSET IndexingPlan
         /\ r.validated \in SUBSET {"multisite", "test_https", "test_indexing"}
         /\ DOMAIN r = {"multisite", "https", "indexing", "validated"}
  BY DEF Recovery

\* A step other than the first and the last move of a run.
LEMMA StepTyped ==
  ASSUME Typed, proc.pc # "idle", UNCHANGED <<site, source, disk, edits>>, Targets',
         NEW recovery \in Recovery, Sound(recovery), run' = [run EXCEPT !.recovery = recovery],
         proc' \in Process, proc'.pc # "idle",
         proc'.pc = "writing" /\ StepHere = "correct_multisite_domain" =>
             \A p \in recovery.multisite : proc'.todo \subseteq Cells(p.before)
  PROVE  Typed' /\ StepHere' = StepHere
  <1>1. /\ run \in Manifest /\ disk \in Seq(Manifest) /\ site \in Site /\ source \in Data
        /\ edits \in 0..MaxMoves
    BY DEF Typed, TypeOK
  <1>2. /\ run'.status = run.status /\ run'.done = run.done /\ run'.print = run.print
        /\ run'.recovery = recovery /\ DOMAIN run' = DOMAIN run /\ run' = [f \in DOMAIN run' |-> run'[f]]
    BY <1>1, ManifestFields
  <1>3. run' \in Manifest
    <2> DEFINE m == run'
    <2>1. /\ DOMAIN m = {"status", "done", "print", "recovery"} /\ m = [f \in DOMAIN m |-> m[f]]
          /\ m.status \in {"RUNNING", "EXECUTED", "UPDATE_FAILED_PRESERVED"}
          /\ m.done \in 0..10 /\ m.print \in SUBSET Config /\ m.recovery \in Recovery
          /\ m.status = "RUNNING" <=> m.print = {}
      BY <1>1, <1>2, ManifestFields
    <2> HIDE DEF m
    <2>2. m \in Manifest
      BY <2>1, ManifestTyped
    <2> QED BY <2>2 DEF m
  <1>4. StepHere' = StepHere /\ Current' = Current
    BY <1>2 DEF StepHere, Current
  <1>5. TypeOK'
    BY <1>1, <1>3 DEF TypeOK, Targets
  <1>6. Located'
    <2>1. run'.status = "RUNNING" /\ Current >= 1 /\ run'.done < Len(Plan)
          /\ disk'[Current].done = run'.done /\ disk'[Current].status = "RUNNING"
      BY <1>2 DEF Typed, Located
    <2>2. proc'.pc = "writing" /\ StepHere = "correct_multisite_domain" =>
             \A p \in run'.recovery.multisite : proc'.todo \subseteq Cells(p.before)
      BY <1>2
    <2>3. \A n : Cells(n)' = Cells(n)
      BY DEF Cells
    <2> QED BY <1>4, <2>1, <2>2, <2>3 DEF Located, Cells
  <1>7. /\ \A r : r = recovery => Sound(r)'
        /\ \A m : \A i \in 1..Current : m = disk[i] => Sound(m.recovery)'
    BY SoundStays DEF Typed
  <1>8. Sound(run.recovery)' /\ (\A r \in 1..Current : Sound(disk[r].recovery))'
    BY <1>2, <1>4, <1>7
  <1>9. Main \in Present(source)' /\ Main \in Present(data)'
    BY DEF Typed, Targets, Present
  <1> QED BY <1>4, <1>5, <1>6, <1>8, <1>9 DEF Typed

LEMMA FreshTyped ==
  /\ Fresh \in Manifest /\ Fresh.status = "RUNNING" /\ Fresh.done < Len(Plan)
  /\ Sound(Fresh.recovery)
  <1>1. Fresh.recovery \in Recovery /\ Sound(Fresh.recovery)
    BY DEF Fresh, Recovery, Sound, Single
  <1>2. /\ DOMAIN Fresh = {"status", "done", "print", "recovery"}
        /\ Fresh = [f \in DOMAIN Fresh |-> Fresh[f]]
        /\ Fresh.status = "RUNNING" /\ Fresh.done = 0 /\ Fresh.print = {}
    BY DEF Fresh
  <1>3. 0 \in 0..10 /\ {} \in SUBSET Config /\ 0 < Len(Plan)
    BY PlanSteps
  <1>4. Fresh \in Manifest
    BY <1>1, <1>2, <1>3, ManifestTyped
  <1> QED BY <1>1, <1>2, <1>3, <1>4

LEMMA InitTyped ==
  ASSUME Init
  PROVE  Typed
  <1>1. site \in Site
    BY SitesAssumption DEF Init, Site
  <1>2. PICK found \in Sources :
          LET domain == IF site.network THEN "old" ELSE "new"
          IN source = [net |-> [domain |-> domain,
                                blogs |-> [b \in found.present |->
                                  [domain |-> domain, home |-> On("old"), siteurl |-> On("old")]]],
                       content |-> [b \in Blogs |-> On("old")], public |-> found.public]
    BY DEF Init
  <1>3. found.present \in SUBSET Blogs /\ Main \in found.present /\ found.public \in [Blogs -> Public]
    BY SourcesAssumption DEF Public
  <1> DEFINE domain == IF site.network THEN "old" ELSE "new"
             row == [domain |-> domain, home |-> On("old"), siteurl |-> On("old")]
             blogs == [b \in found.present |-> row]
             net == [domain |-> domain, blogs |-> blogs]
             content == [b \in Blogs |-> On("old")]
  <1>4. source = [net |-> net, content |-> content, public |-> found.public]
    BY <1>2
  <1>5. domain \in Host
    BY DEF Host
  <1> HIDE DEF domain
  <1>6. row \in BlogRow /\ content \in [Blogs -> Url]
    BY <1>1, <1>5, UrlsTyped DEF BlogRow, Host
  <1> HIDE DEF row, content
  <1>7. blogs \in [found.present -> BlogRow] /\ DOMAIN blogs = found.present
    BY <1>6
  <1> HIDE DEF blogs
  <1>8. net \in NetworkSnapshot /\ DOMAIN net.blogs = found.present
    BY <1>3, <1>5, <1>7, SnapshotTyped
  <1> HIDE DEF net
  <1>9. /\ DOMAIN source = {"net", "content", "public"}
        /\ source = [f \in DOMAIN source |-> source[f]]
        /\ source.net = net /\ source.content = content /\ source.public = found.public
    BY <1>4
  <1>10. DOMAIN source.net.blogs # {} /\ Main \in Present(source)
    BY <1>3, <1>8, <1>9 DEF Present
  <1>11. source \in Data
    BY <1>3, <1>6, <1>8, <1>9, <1>10, DataTyped
  <1>12. /\ files = [db |-> "production", domain |-> "old"] /\ data = source /\ disk = <<>>
         /\ run = Fresh /\ proc = Idle /\ wrote = {} /\ author = [files |-> 0, data |-> 0]
         /\ edits = 0
    BY DEF Init
  <1>13. files \in Config /\ disk \in Seq(Manifest) /\ Current = 0 /\ wrote \subseteq StepName
    BY <1>12, EmptySeq DEF Config, Current
  <1>14. author \in [files: 0..Current, data: 0..Current] /\ edits \in 0..MaxMoves
    BY <1>12, <1>13, BoundAssumption
  <1>15. proc \in Process /\ proc.pc = "idle"
    BY <1>12 DEF Process, Idle
  <1>16. run \in Manifest /\ run.status = "RUNNING" /\ Sound(run.recovery)
    BY <1>12, FreshTyped
  <1>17. TypeOK
    BY <1>1, <1>11, <1>12, <1>13, <1>14, <1>15, <1>16 DEF TypeOK
  <1> QED BY <1>10, <1>12, <1>13, <1>15, <1>16, <1>17 DEF Typed, Located

\* A run begins.
LEMMA BeginTyped ==
  ASSUME Typed, NEW m \in Manifest, m.status = "RUNNING", m.done < Len(Plan), Sound(m.recovery),
         Begin(m), author' \in [files: 0..(Current + 1), data: 0..(Current + 1)]
  PROVE  Typed'
  <1>1. /\ run' = m /\ disk' = Append(disk, m) /\ proc' = [Idle EXCEPT !.pc = "facing"]
        /\ UNCHANGED <<site, source, files, data, wrote, edits>>
    BY DEF Begin
  <1>2. /\ disk \in Seq(Manifest) /\ Current \in Nat /\ site \in Site /\ source \in Data
        /\ files \in Config /\ data \in Data /\ wrote \subseteq StepName /\ edits \in 0..MaxMoves
    BY LenProperties DEF Typed, TypeOK, Current
  <1>3. /\ disk' \in Seq(Manifest) /\ Current' = Current + 1 /\ disk'[Current + 1] = m
        /\ \A r \in 1..Current : disk'[r] = disk[r]
    BY <1>1, <1>2, AppendProperties DEF Current
  <1>4. proc' \in Process /\ proc'.pc = "facing"
    BY <1>1 DEF Idle, Process
  <1>5. TypeOK'
    BY <1>1, <1>2, <1>3, <1>4 DEF TypeOK
  <1>6. Located'
    BY <1>1, <1>2, <1>3, <1>4 DEF Located
  <1>7. /\ \A k : k = m.recovery => Sound(k)'
        /\ \A i \in 1..Current : \A k : k = disk[i].recovery => Sound(k)'
    BY <1>1, SoundStays DEF Typed
  <1>8. \A i \in 1..(Current + 1) : i \in 1..Current \/ i = Current + 1
    BY <1>2
  <1>9. Sound(run.recovery)' /\ (\A r \in 1..Current : Sound(disk[r].recovery))'
    BY <1>1, <1>2, <1>3, <1>7, <1>8
  <1>10. (Main \in Present(source))' /\ (Main \in Present(data))'
    BY <1>1 DEF Typed, Present
  <1> QED BY <1>5, <1>6, <1>9, <1>10 DEF Typed

LEMMA ExecuteTyped ==
  ASSUME Typed, Execute
  PROVE  Typed'
  <1>1. author \in [files: 0..Current, data: 0..Current] /\ Current \in Nat
    BY LenProperties DEF Typed, TypeOK, Current
  <1>2. author' \in [files: 0..(Current + 1), data: 0..(Current + 1)]
    BY <1>1 DEF Execute
  <1>3. /\ Fresh \in Manifest /\ Fresh.status = "RUNNING" /\ Fresh.done < Len(Plan)
        /\ Sound(Fresh.recovery)
    BY FreshTyped
  <1> QED BY <1>2, <1>3, BeginTyped DEF Execute

LEMMA ResumeTyped ==
  ASSUME Typed, NEW r \in 1..Current, Resume(r)
  PROVE  Typed'
  <1> DEFINE m == [disk[r] EXCEPT !.status = "RUNNING", !.print = {}]
  <1>1. /\ author \in [files: 0..Current, data: 0..Current] /\ Current \in Nat
        /\ disk[r] \in Manifest
    BY LenProperties DEF Typed, TypeOK, Current
  <1>2. /\ author' = [part \in DOMAIN author |->
                        IF author[part] = r THEN Current + 1 ELSE author[part]]
        /\ Begin(m) /\ disk[r].done < Len(Plan)
    BY DEF Resume
  <1>3. author' \in [files: 0..(Current + 1), data: 0..(Current + 1)]
    <2>1. DOMAIN author = {"files", "data"} /\ author.files \in 0..Current /\ author.data \in 0..Current
      BY <1>1
    <2>2. author' = [part \in {"files", "data"} |->
                        IF author[part] = r THEN Current + 1 ELSE author[part]]
      BY <1>2, <2>1
    <2>3. \A part \in {"files", "data"} :
            (IF author[part] = r THEN Current + 1 ELSE author[part]) \in 0..(Current + 1)
      BY <1>1, <2>1
    <2> QED BY <2>2, <2>3
  <1>4. /\ m.status = "RUNNING" /\ m.print = {} /\ m.done = disk[r].done
        /\ m.recovery = disk[r].recovery /\ DOMAIN m = {"status", "done", "print", "recovery"}
        /\ m = [f \in DOMAIN m |-> m[f]]
    BY <1>1, ManifestFields
  <1> HIDE DEF m
  <1>5. m \in Manifest
    BY <1>1, <1>4, ManifestFields, ManifestTyped
  <1>6. Sound(m.recovery)
    BY <1>4 DEF Typed
  <1> QED BY <1>2, <1>3, <1>4, <1>5, <1>6, BeginTyped

LEMMA EditTyped ==
  ASSUME Typed, Edit
  PROVE  Typed'
  <1>1. /\ Current + edits < MaxMoves /\ edits' = edits + 1 /\ author' = [author EXCEPT !.data = 0]
        /\ UNCHANGED <<site, source, files, disk, run, proc, wrote>>
    BY DEF Edit
  <1>2. /\ data \in Data /\ Main \in Present(data) /\ site \in Site
        /\ author \in [files: 0..Current, data: 0..Current]
        /\ Current \in Nat /\ edits \in 0..MaxMoves
    BY LenProperties DEF Typed, TypeOK, Current
  <1>3. /\ data.net \in NetworkSnapshot /\ data.content \in [Blogs -> Url]
        /\ data.public \in [Blogs -> Public] /\ Present(data) \in SUBSET Blogs
        /\ data.net.blogs \in [Present(data) -> BlogRow] /\ data.net.domain \in Host
        /\ data.net = [domain |-> data.net.domain, blogs |-> data.net.blogs]
    <2>1. data.net \in [domain: Host, blogs: UNION {[present -> BlogRow] : present \in SUBSET Blogs}]
      BY <1>2, DataFields DEF NetworkSnapshot
    <2> QED BY <1>2, <2>1, DataFields, SnapshotFields DEF Present
  <1>4. data' \in Data /\ Main \in Present(data')
    <2>1. PICK b \in Present(data) :
          \/ \E url \in {On("old"), On("other")}, field \in {"home", "siteurl"} :
                data' = [data EXCEPT !.net.blogs[b][field] = url]
          \/ \E value \in Public : data' = [data EXCEPT !.public[b] = value]
          \/ /\ site.network /\ b # Main
             /\ data' = [data EXCEPT !.net.blogs = [o \in Present(data) \ {b} |-> @[o]]]
      BY DEF Edit
    <2>2. CASE \E url \in {On("old"), On("other")}, field \in {"home", "siteurl"} :
                data' = [data EXCEPT !.net.blogs[b][field] = url]
      <3>1. PICK url \in {On("old"), On("other")}, field \in {"home", "siteurl"} :
                data' = [data EXCEPT !.net.blogs[b][field] = url]
        BY <2>2
      <3> DEFINE row == [data.net.blogs[b] EXCEPT ![field] = url]
                 blogs == [data.net.blogs EXCEPT ![b] = row]
                 net == [data.net EXCEPT !.blogs = blogs]
      <3>2. data' = [data EXCEPT !.net = net]
        BY <3>1
      <3>3. url \in Url
        BY <1>2, UrlsTyped DEF Host
      <3>4. row \in BlogRow
        BY <1>3, <3>3 DEF BlogRow
      <3> HIDE DEF row
      <3>5. blogs \in [Present(data) -> BlogRow] /\ DOMAIN blogs = Present(data)
        BY <1>3, <3>4
      <3> HIDE DEF blogs
      <3>6. net = [domain |-> data.net.domain, blogs |-> blogs]
        BY <1>3
      <3>7. net \in NetworkSnapshot /\ DOMAIN net.blogs = Present(data)
        BY <1>3, <3>5, <3>6, SnapshotTyped
      <3> HIDE DEF net
      <3>8. [data EXCEPT !.net = net] \in Data /\ [data EXCEPT !.net = net].net = net
        BY <1>2, <1>3, <3>7, NetChanges
      <3> QED BY <1>2, <3>2, <3>7, <3>8 DEF Present
    <2>3. CASE \E value \in Public : data' = [data EXCEPT !.public[b] = value]
      <3>1. PICK value \in Public : data' = [data EXCEPT !.public[b] = value]
        BY <2>3
      <3> DEFINE public == [data.public EXCEPT ![b] = value]
      <3>2. data' = [data EXCEPT !.public = public]
        BY <3>1
      <3>3. public \in [Blogs -> Public]
        BY <1>3
      <3> HIDE DEF public
      <3>4. [data EXCEPT !.public = public] \in Data /\ [data EXCEPT !.public = public].net = data.net
        BY <1>2, <3>3, PublicChanges
      <3> QED BY <1>2, <3>2, <3>4 DEF Present
    <2>4. CASE /\ site.network /\ b # Main
               /\ data' = [data EXCEPT !.net.blogs = [o \in Present(data) \ {b} |-> @[o]]]
      <3> DEFINE blogs == [o \in Present(data) \ {b} |-> data.net.blogs[o]]
                 net == [data.net EXCEPT !.blogs = blogs]
      <3>1. data' = [data EXCEPT !.net = net]
        BY <2>4
      <3>2. blogs \in [Present(data) \ {b} -> BlogRow] /\ DOMAIN blogs = Present(data) \ {b}
        BY <1>3
      <3> HIDE DEF blogs
      <3>3. net = [domain |-> data.net.domain, blogs |-> blogs]
        BY <1>3
      <3>4. net \in NetworkSnapshot /\ DOMAIN net.blogs = Present(data) \ {b}
        BY <1>3, <3>2, <3>3, SnapshotTyped
      <3> HIDE DEF net
      <3>5. Main \in DOMAIN net.blogs
        BY <1>2, <2>4, <3>4
      <3>6. [data EXCEPT !.net = net] \in Data /\ [data EXCEPT !.net = net].net = net
        BY <1>2, <3>4, <3>5, NetChanges, <1>3
      <3> QED BY <3>1, <3>5, <3>6 DEF Present
    <2> QED BY <2>1, <2>2, <2>3, <2>4
  <1>5. Current' = Current /\ StepHere' = StepHere
    BY <1>1 DEF Current, StepHere
  <1>6. author' \in [files: 0..Current, data: 0..Current] /\ edits' \in 0..MaxMoves
    BY <1>1, <1>2, BoundAssumption
  <1>7. TypeOK'
    BY <1>1, <1>4, <1>5, <1>6 DEF Typed, TypeOK
  <1>8. Located'
    BY <1>1, <1>5 DEF Typed, Located, Cells
  <1>9. /\ \A k : k = run.recovery => Sound(k)'
        /\ \A i \in 1..Current : \A k : k = disk[i].recovery => Sound(k)'
    BY <1>1, SoundStays DEF Typed
  <1>10. Sound(run.recovery)' /\ (\A r \in 1..Current : Sound(disk[r].recovery))'
    BY <1>1, <1>5, <1>9
  <1>11. (Main \in Present(source))' /\ (Main \in Present(data))'
    BY <1>1, <1>4 DEF Typed, Present
  <1> QED BY <1>7, <1>8, <1>10, <1>11 DEF Typed

\* The writes of a step.
LEMMA AuthorTyped ==
  ASSUME Typed, Mine \/ author' = author
  PROVE  author' \in [files: 0..Current, data: 0..Current]
  BY LenProperties DEF Typed, TypeOK, Mine, Current

LEMMA NoWriteTyped ==
  ASSUME Typed, NoWrite, disk' = disk
  PROVE  Targets'
  BY DEF Typed, TypeOK, NoWrite, target, Targets, Present, Current

LEMMA FilesTyped ==
  ASSUME Typed, disk' = disk, files' \in Config, data' = data, wrote' = wrote, Mine
  PROVE  Targets'
  BY AuthorTyped DEF Typed, TypeOK, Targets, Present, Current

LEMMA SqlTyped ==
  ASSUME Typed, disk' = disk, NEW net \in NetworkSnapshot, DOMAIN net.blogs = Present(data),
         BySql(net)
  PROVE  Targets' /\ data'.net = net
  <1>1. data' = [data EXCEPT !.net = net] /\ UNCHANGED <<files, wrote>> /\ Mine
    BY DEF BySql
  <1>2. data \in Data /\ Main \in Present(data)
    BY DEF Typed, TypeOK
  <1>4. data' \in Data /\ data'.net = net
    BY <1>1, <1>2, NetChanges
  <1> QED BY <1>1, <1>2, <1>4, AuthorTyped DEF Typed, TypeOK, Targets, Present, Current

LEMMA SeenTyped ==
  ASSUME Typed
  PROVE  Seen \in Data /\ Main \in Present(Seen) /\ (files.db = "test" => Seen = data)
  BY DEF Typed, TypeOK, Seen

LEMMA WpTyped ==
  ASSUME Typed, proc.pc # "idle", disk' = disk, NEW d \in Data, Present(d) = Present(Seen), ByWp(d)
  PROVE  Targets' /\ files' = files /\ (IF files.db = "test" THEN data' = d ELSE data' = data)
  <1>1. /\ IF files.db = "test" THEN data' = d /\ UNCHANGED wrote
           ELSE wrote' = wrote \cup {StepHere} /\ UNCHANGED data
        /\ UNCHANGED files /\ Mine
    BY DEF ByWp
  <1>2. data' \in Data /\ Main \in Present(data')
    BY <1>1, SeenTyped DEF Typed, TypeOK
  <1>3. wrote' \subseteq StepName
    BY <1>1, HereTyped DEF Typed, TypeOK
  <1> QED BY <1>1, <1>2, <1>3, AuthorTyped DEF Typed, TypeOK, Targets, Present, Current

LEMMA GoTyped ==
  ASSUME Typed, NEW pc, Go(pc),
         pc \in {"facing", "writing", "replacing", "checking", "validating", "broken", "judge"}
  PROVE  proc' \in Process /\ proc'.pc = pc /\ proc'.pc # "idle" /\ UNCHANGED <<proc.todo, proc.blogs, proc.at>>
  BY DEF Typed, TypeOK, Go, Process

\* A step that leaves the manifest alone, and one that changes its recovery data.
LEMMA KeepingTyped ==
  ASSUME Typed, proc.pc # "idle", UNCHANGED <<site, source, disk, edits, run>>, Targets',
         proc' \in Process, proc'.pc # "idle",
         proc'.pc = "writing" /\ StepHere = "correct_multisite_domain" =>
             \A p \in run.recovery.multisite : proc'.todo \subseteq Cells(p.before)
  PROVE  Typed' /\ StepHere' = StepHere
  <1>1. run \in Manifest
    BY DEF Typed, TypeOK
  <1>2. run.recovery \in Recovery /\ DOMAIN run = {"status", "done", "print", "recovery"}
    BY <1>1, ManifestFields
  <1>4. run = [run EXCEPT !.recovery = run.recovery]
    <2>1. run = [f \in DOMAIN run |-> run[f]]
      BY <1>1 DEF Manifest
    <2> QED BY <1>2, <2>1
  <1>3. Sound(run.recovery)
    BY DEF Typed
  <1> DEFINE recovery == run.recovery
  <1>5. /\ recovery \in Recovery /\ Sound(recovery) /\ run' = [run EXCEPT !.recovery = recovery]
        /\ proc'.pc = "writing" /\ StepHere = "correct_multisite_domain" =>
             \A p \in recovery.multisite : proc'.todo \subseteq Cells(p.before)
    BY <1>2, <1>3, <1>4
  <1> QED BY <1>5, StepTyped

LEMMA RecoverTyped ==
  ASSUME Typed, proc.pc # "idle", UNCHANGED <<site, source, disk, edits>>, NoWrite,
         NEW recovery \in Recovery, Sound(recovery), Recover(recovery)
  PROVE  Typed' /\ StepHere' = StepHere
  <1>1. proc' \in Process /\ proc'.pc = "judge"
    BY GoTyped DEF Recover
  <1> QED BY <1>1, NoWriteTyped, StepTyped DEF Recover

LEMMA MarksTyped ==
  ASSUME Typed, NEW mark \in {"multisite", "test_https", "test_indexing"}
  PROVE  /\ Validated(mark) \in Recovery /\ Sound(Validated(mark))
         /\ Unmarked \in Recovery /\ Sound(Unmarked)
         /\ Validated(mark).multisite = run.recovery.multisite
         /\ Validated(mark).https = run.recovery.https
         /\ Validated(mark).indexing = run.recovery.indexing
         /\ Unmarked.multisite = run.recovery.multisite /\ Unmarked.https = run.recovery.https
         /\ Unmarked.indexing = run.recovery.indexing
  <1>1. run.recovery \in Recovery /\ Sound(run.recovery)
    BY ManifestFields DEF Typed, TypeOK
  <1>2. /\ Validated(mark) \in Recovery /\ Unmarked \in Recovery
        /\ Validated(mark).multisite = run.recovery.multisite
        /\ Validated(mark).https = run.recovery.https
        /\ Validated(mark).indexing = run.recovery.indexing
        /\ Unmarked.multisite = run.recovery.multisite /\ Unmarked.https = run.recovery.https
        /\ Unmarked.indexing = run.recovery.indexing
    BY <1>1 DEF Recovery, Validated, Unmarked
  <1> QED BY <1>1, <1>2 DEF Sound

LEMMA CopiesTyped ==
  ASSUME Typed, CopyFiles \/ CopyDatabase \/ WriteTestDbConfig
  PROVE  Typed' /\ StepHere' = StepHere
  <1>1. /\ proc.pc = "facing" /\ UNCHANGED <<site, source, disk, edits, run, wrote>> /\ Go("judge")
        /\ Facing(StepHere)
    BY DEF CopyFiles, CopyDatabase, WriteTestDbConfig, Facing
  <1>2. proc' \in Process /\ proc'.pc = "judge"
    BY <1>1, GoTyped
  <1>3. /\ author \in [files: 0..Current, data: 0..Current] /\ Current \in Nat
        /\ files \in Config /\ data \in Data /\ source \in Data
        /\ Main \in Present(data) /\ Main \in Present(source) /\ wrote \subseteq StepName
    BY HereTyped, <1>1 DEF Typed, TypeOK
  <1>4. files' \in Config
    BY <1>3 DEF CopyFiles, CopyDatabase, WriteTestDbConfig, Config
  <1>5. data' \in Data /\ Main \in Present(data')
    BY <1>3 DEF CopyFiles, CopyDatabase, WriteTestDbConfig
  <1>6. author' \in [files: 0..Current, data: 0..Current]
    BY <1>3, AuthorTyped DEF CopyFiles, CopyDatabase, WriteTestDbConfig
  <1>7. Targets'
    BY <1>1, <1>3, <1>4, <1>5, <1>6 DEF Targets, Present, Current
  <1> QED BY <1>1, <1>2, <1>7, KeepingTyped

LEMMA CorrectMultisiteTyped ==
  ASSUME Typed, CorrectMultisite
  PROVE  Typed'
  <1>1. /\ site \in Site /\ data \in Data /\ files \in Config /\ run.recovery \in Recovery
        /\ Sound(run.recovery) /\ proc \in Process
    BY ManifestFields DEF Typed, TypeOK
  <1>2. /\ data.net \in NetworkSnapshot /\ run.recovery.multisite \subseteq MultisitePlan
        /\ DOMAIN data.net.blogs = Present(data)
    BY <1>1, DataFields, RecoveryFields DEF Present
  <1>3. CASE PlanMultisiteDomain
    <2> DEFINE p == [before |-> data.net, after |-> Transform(data.net), config |-> files.domain]
               planned == [run.recovery EXCEPT !.multisite = {p}]
    <2>1. /\ proc.pc = "facing" /\ UNCHANGED <<site, source, disk, edits>> /\ NoWrite
          /\ Recover(IF site.network THEN planned ELSE run.recovery)
      BY <1>3 DEF PlanMultisiteDomain, Facing
    <2>2. p \in MultisitePlan /\ p.before = data.net /\ p.after = Transform(data.net)
      BY <1>1, <1>2, TransformTyped DEF MultisitePlan, Config
    <2>3. p.after = Transform(p.before)
      BY <2>2
    <2> HIDE DEF p
    <2>4. planned \in Recovery /\ Sound(planned)
      BY <1>1, <2>2, <2>3 DEF Recovery, Sound, Single
    <2> HIDE DEF planned
    <2>5. CASE site.network
      BY <2>1, <2>4, <2>5, RecoverTyped
    <2>6. CASE ~ site.network
      <3> DEFINE recovery == run.recovery
      <3>1. recovery \in Recovery /\ Sound(recovery) /\ Recover(recovery)
        BY <1>1, <2>1, <2>6
      <3> QED BY <2>1, <3>1, RecoverTyped
    <2> QED BY <2>5, <2>6
  <1>4. CASE ValidateNetwork
    <2> DEFINE recovery == Validated("multisite")
    <2>1. /\ proc.pc = "validating" /\ UNCHANGED <<site, source, disk, edits>> /\ NoWrite
          /\ Recover(recovery)
      BY <1>4 DEF ValidateNetwork, Within
    <2>2. recovery \in Recovery /\ Sound(recovery)
      BY MarksTyped
    <2> QED BY <2>1, <2>2, RecoverTyped
  <1>5. CASE SkipMultisite
    <2>1. /\ proc.pc = "facing" /\ UNCHANGED <<site, source, disk, edits, run>> /\ NoWrite /\ Go("judge")
      BY <1>5 DEF SkipMultisite, Facing
    <2> QED BY <2>1, GoTyped, NoWriteTyped, KeepingTyped
  <1>6. CASE InspectNetwork
    <2>1. /\ proc.pc = "facing" /\ UNCHANGED <<site, source, disk, edits, run>> /\ NoWrite
          /\ Accepted("correct_multisite_domain") /\ site.network
      BY <1>6 DEF InspectNetwork, Facing
    <2>2. PICK p \in run.recovery.multisite :
            proc' = [proc EXCEPT !.pc = "writing", !.todo = Pending(data.net, p)]
      BY <1>6 DEF InspectNetwork
    <2>3. PICK q \in run.recovery.multisite : Replays(data.net, q)
      BY <2>1 DEF Accepted, CorrectsMultisite
    <2>4. p = q /\ \A r \in run.recovery.multisite : r = p
      BY <1>1 DEF Sound, Single
    <2>5. Pending(data.net, p) \subseteq Cells(p.before)
      BY <1>2, <2>3, <2>4, ReplayedCells
    <2>6. Pending(data.net, p) \subseteq ({0} \cup Blogs) \X {"domain", "home", "siteurl"}
      BY <1>2, CellsTyped DEF Pending
    <2>7. proc' \in Process /\ proc'.pc = "writing" /\ proc'.todo = Pending(data.net, p)
      BY <1>1, <2>2, <2>6 DEF Process
    <2>8. \A r \in run.recovery.multisite : proc'.todo \subseteq Cells(r.before)
      BY <2>4, <2>5, <2>7
    <2> QED BY <2>1, <2>7, <2>8, NoWriteTyped, KeepingTyped
  <1>7. CASE ApplyNetwork \/ ApplyNetworkBreaks
    <2>1. /\ proc.pc = "writing" /\ StepHere = "correct_multisite_domain"
          /\ UNCHANGED <<site, source, disk, edits, run>>
      BY <1>7 DEF ApplyNetwork, ApplyNetworkBreaks, Within
    <2>2. PICK p \in run.recovery.multisite, cells \in SUBSET proc.todo :
            BySql(Updated(data.net, p, cells))
      BY <1>7 DEF ApplyNetwork, ApplyNetworkBreaks, FirstOf
    <2>3. p \in MultisitePlan /\ cells \subseteq Cells(p.before)
      BY <1>2, <2>1, <2>2 DEF Typed, Located
    <2>4. DOMAIN p.after.blogs = DOMAIN p.before.blogs
      <3>1. p.before \in NetworkSnapshot /\ p.after = Transform(p.before)
        BY <1>1, <2>3 DEF Sound, MultisitePlan
      <3> QED BY <1>1, <3>1, TransformTyped
    <2>5. /\ Updated(data.net, p, cells) \in NetworkSnapshot
          /\ DOMAIN Updated(data.net, p, cells).blogs = Present(data)
      BY <1>2, <2>3, <2>4, UpdatedTyped
    <2>6. Targets'
      BY <2>1, <2>2, <2>5, SqlTyped
    <2>7. proc' \in Process /\ proc'.pc \in {"checking", "broken"}
      BY <1>1, <1>7 DEF ApplyNetwork, ApplyNetworkBreaks, Process
    <2> QED BY <2>1, <2>6, <2>7, KeepingTyped
  <1>8. CASE SetMultisiteDomain
    <2>1. /\ proc.pc = "checking" /\ UNCHANGED <<site, source, disk, edits, run>>
          /\ files' = [files EXCEPT !.domain = "new"] /\ UNCHANGED <<data, wrote>> /\ Mine
          /\ Go("validating")
      BY <1>8 DEF SetMultisiteDomain, Within
    <2>2. files' \in Config
      BY <1>1, <2>1 DEF Config
    <2> QED BY <2>1, <2>2, FilesTyped, GoTyped, KeepingTyped
  <1> QED BY <1>3, <1>4, <1>5, <1>6, <1>7, <1>8 DEF CorrectMultisite

\* What a search-replace writes.
LEMMA RewritingTyped ==
  ASSUME Typed, proc.pc # "idle", disk' = disk, NEW replacement \in {Replaced, Upgraded}, NEW rows,
         ByWp(Rewritten(Seen, replacement, rows))
  PROVE  Targets'
  <1>1. site \in Site
    BY DEF Typed, TypeOK
  <1>2. replacement \in [Url -> Url]
    BY <1>1, UrlsTyped
  <1> DEFINE d == Seen
             e == Rewritten(d, replacement, rows)
  <1>3. d \in Data
    BY SeenTyped
  <1> HIDE DEF d
  <1>4. e \in Data /\ Present(e) = Present(d)
    BY <1>1, <1>2, <1>3, RewrittenTyped
  <1> HIDE DEF e
  <1>5. ByWp(e) /\ Present(e) = Present(Seen)
    BY <1>4 DEF d, e
  <1> QED BY <1>4, <1>5, WpTyped

LEMMA SearchReplaceTyped ==
  ASSUME Typed, SearchReplace \/ SearchReplaceBreaks
  PROVE  Typed'
  <1>1. /\ proc.pc = "facing" /\ UNCHANGED <<site, source, disk, edits, run>>
        /\ Go("judge") \/ Go("broken")
        /\ StepHere = "pending_search_replace"
        /\ \E rows : ByWp(Rewritten(Seen, Replaced, rows))
    BY DEF SearchReplace, SearchReplaceBreaks, Facing
  <1>2. proc' \in Process /\ proc'.pc \in {"judge", "broken"}
    BY <1>1, GoTyped
  <1>3. Targets'
    BY <1>1, RewritingTyped
  <1> QED BY <1>1, <1>2, <1>3, KeepingTyped

LEMMA TestHttpsTyped ==
  ASSUME Typed, TestHttps
  PROVE  Typed'
  <1>1. /\ site \in Site /\ data \in Data /\ files \in Config /\ run.recovery \in Recovery
        /\ Sound(run.recovery) /\ proc \in Process
    BY ManifestFields DEF Typed, TypeOK
  <1>2. /\ data.net \in NetworkSnapshot /\ Present(data) \in SUBSET Blogs
        /\ DOMAIN data.net.blogs = Present(data)
    BY <1>1, DataFields DEF Present
  <1>3. CASE PlanTestHttps
    <2> DEFINE p == [config |-> NetworkConfig(files), before |-> data.net,
                     after |-> HttpsSnapshot(data.net)]
               planned == [run.recovery EXCEPT !.https = {p}]
    <2>1. /\ proc.pc = "facing" /\ UNCHANGED <<site, source, disk, edits>> /\ NoWrite
          /\ Accepted("plan_test_https")
          /\ Recover([run.recovery EXCEPT !.https = IF @ # {} THEN @ ELSE {p}])
      BY <1>3 DEF PlanTestHttps, Facing
    <2>2. p \in HttpsPlan
      BY <1>1, <1>2, SecuringTyped DEF HttpsPlan, NetworkConfig, Config
    <2>3. p.before = data.net /\ p.after = HttpsSnapshot(data.net)
      OBVIOUS
    <2> HIDE DEF p
    <2>4. CASE run.recovery.https # {}
      <3> DEFINE recovery == run.recovery
      <3>1. [run.recovery EXCEPT !.https = IF @ # {} THEN @ ELSE {p}] = recovery
        BY <1>1, <2>4 DEF Recovery
      <3>2. recovery \in Recovery /\ Sound(recovery) /\ Recover(recovery)
        BY <1>1, <2>1, <3>1
      <3> QED BY <2>1, <3>2, RecoverTyped
    <2>5. CASE run.recovery.https = {}
      <3>1. OnTest(data.net)
        BY <1>2, <2>1, <2>5 DEF Accepted, PlansHttps, OnTest
      <3>2. /\ planned.https = {p} /\ planned.multisite = run.recovery.multisite
            /\ planned.indexing = run.recovery.indexing /\ planned \in Recovery
        BY <1>1, <2>2 DEF Recovery
      <3>3. [run.recovery EXCEPT !.https = IF @ # {} THEN @ ELSE {p}] = planned
        BY <2>5
      <3> HIDE DEF planned
      <3>4. Sound(planned)
        BY <1>1, <2>3, <3>1, <3>2 DEF Sound, Single
      <3> QED BY <2>1, <3>2, <3>3, <3>4, RecoverTyped
    <2> QED BY <2>4, <2>5
  <1>4. CASE ValidateHttps
    <2> DEFINE recovery == Validated("test_https")
    <2>1. /\ proc.pc = "writing" /\ UNCHANGED <<site, source, disk, edits>> /\ NoWrite
          /\ Recover(recovery)
      BY <1>4 DEF ValidateHttps, Within
    <2>2. recovery \in Recovery /\ Sound(recovery)
      BY MarksTyped
    <2> QED BY <2>1, <2>2, RecoverTyped
  <1>5. CASE StartHttps
    <2>1. /\ proc.pc = "facing" /\ UNCHANGED <<site, source, disk, edits, run>> /\ NoWrite
          /\ StepHere = "enforce_test_https"
      BY <1>5 DEF StartHttps, Facing
    <2>2. proc' \in Process /\ proc'.pc = "writing"
      BY <1>1, <1>2, <1>5 DEF StartHttps, Process
    <2> QED BY <2>1, <2>2, NoWriteTyped, KeepingTyped
  <1>6. CASE CountHost
    <2>1. /\ proc.pc = "writing" /\ UNCHANGED <<site, source, disk, edits, run>> /\ NoWrite
          /\ StepHere = "enforce_test_https"
      BY <1>6 DEF CountHost, Within
    <2>2. PICK host \in HostsOf(proc.blogs) :
            proc' = [proc EXCEPT !.blogs = @ \ host, !.at = host,
                         !.pc = IF Insecure(Seen, host) # {} THEN "replacing" ELSE @]
      BY <1>6 DEF CountHost
    <2>3. host \subseteq Blogs /\ proc.blogs \subseteq Blogs
      BY <1>1 DEF HostsOf, Process
    <2> DEFINE pc == IF Insecure(Seen, host) # {} THEN "replacing" ELSE proc.pc
    <2>4. proc' = [proc EXCEPT !.blogs = @ \ host, !.at = host, !.pc = pc]
      BY <2>2
    <2>5. pc \in {"writing", "replacing"}
      BY <2>1
    <2> HIDE DEF pc
    <2>6. proc' \in Process /\ proc'.pc # "idle"
      BY <1>1, <2>3, <2>4, <2>5 DEF Process
    <2> QED BY <2>1, <2>6, NoWriteTyped, KeepingTyped
  <1>7. CASE ReplaceHost \/ ReplaceHostBreaks
    <2>1. /\ proc.pc = "replacing" /\ UNCHANGED <<site, source, disk, edits, run>>
          /\ Go("writing") \/ Go("broken")
          /\ \E rows : ByWp(Rewritten(Seen, Upgraded, rows))
      BY <1>7 DEF ReplaceHost, ReplaceHostBreaks, Within
    <2>2. proc' \in Process /\ proc'.pc \in {"writing", "broken"}
      BY <2>1, GoTyped
    <2>3. StepHere = "enforce_test_https"
      BY <1>7 DEF ReplaceHost, ReplaceHostBreaks, Within
    <2>4. Targets'
      BY <2>1, RewritingTyped
    <2> QED BY <2>1, <2>2, <2>3, <2>4, KeepingTyped
  <1> QED BY <1>3, <1>4, <1>5, <1>6, <1>7 DEF TestHttps

LEMMA TestIndexingTyped ==
  ASSUME Typed, TestIndexing
  PROVE  Typed'
  <1>1. /\ site \in Site /\ data \in Data /\ files \in Config /\ run.recovery \in Recovery
        /\ Sound(run.recovery) /\ proc \in Process /\ Seen \in Data
    BY ManifestFields, SeenTyped DEF Typed, TypeOK
  <1>2. /\ Present(data) \in SUBSET Blogs /\ Seen.public \in [Blogs -> Public]
        /\ run.recovery.https \subseteq HttpsPlan
    BY <1>1, DataFields, RecoveryFields
  <1>3. CASE PlanTestIndexing
    <2>1. /\ proc.pc = "facing" /\ UNCHANGED <<site, source, disk, edits>> /\ NoWrite
      BY <1>3 DEF PlanTestIndexing, Facing
    <2>2. PICK p \in run.recovery.https :
            Recover([Unmarked EXCEPT !.indexing =
                IF @ # {} THEN @
                ELSE {[https |-> p, before |-> [b \in Present(data) |-> Seen.public[b]]]}])
      BY <1>3 DEF PlanTestIndexing
    <2> DEFINE before == [b \in Present(data) |-> Seen.public[b]]
               q == [https |-> p, before |-> before]
               plans == IF Unmarked.indexing # {} THEN Unmarked.indexing ELSE {q}
               recovery == [Unmarked EXCEPT !.indexing = plans]
    <2>3. Recover(recovery)
      BY <2>2
    <2>4. before \in [Present(data) -> Public]
      BY <1>2
    <2> HIDE DEF before
    <2>5. q \in IndexingPlan
      BY <1>2, <2>4 DEF IndexingPlan
    <2> HIDE DEF q
    <2>6. /\ Unmarked \in Recovery /\ Sound(Unmarked)
      BY MarksTyped
    <2>7. plans \subseteq IndexingPlan /\ Single(plans)
      BY <2>5, <2>6 DEF Recovery, Sound, Single
    <2> HIDE DEF plans
    <2>8. /\ recovery \in Recovery /\ recovery.indexing = plans
          /\ recovery.multisite = Unmarked.multisite /\ recovery.https = Unmarked.https
      BY <2>6, <2>7 DEF Recovery
    <2> HIDE DEF recovery
    <2>9. Sound(recovery)
      BY <2>6, <2>7, <2>8 DEF Sound
    <2> QED BY <2>1, <2>3, <2>8, <2>9, RecoverTyped
  <1>4. CASE ValidateIndexing
    <2> DEFINE recovery == Validated("test_indexing")
    <2>1. /\ proc.pc = "writing" /\ UNCHANGED <<site, source, disk, edits>> /\ NoWrite
          /\ Recover(recovery)
      BY <1>4 DEF ValidateIndexing, Within
    <2>2. recovery \in Recovery /\ Sound(recovery)
      BY MarksTyped
    <2> QED BY <2>1, <2>2, RecoverTyped
  <1>5. CASE StartIndexing
    <2> DEFINE recovery == Unmarked
    <2>1. /\ proc.pc = "facing" /\ UNCHANGED <<site, source, disk, edits>> /\ NoWrite
          /\ StepHere = "disable_test_indexing" /\ run' = [run EXCEPT !.recovery = recovery]
      BY <1>5 DEF StartIndexing, Facing
    <2>2. proc' \in Process /\ proc'.pc = "writing"
      BY <1>1, <1>2, <1>5 DEF StartIndexing, Process
    <2>3. recovery \in Recovery /\ Sound(recovery)
      BY MarksTyped
    <2> QED BY <2>1, <2>2, <2>3, NoWriteTyped, StepTyped
  <1>6. CASE ReadBlog
    <2>1. /\ proc.pc = "writing" /\ UNCHANGED <<site, source, disk, edits, run>> /\ NoWrite
          /\ StepHere = "disable_test_indexing"
      BY <1>6 DEF ReadBlog, Within
    <2>2. PICK b \in proc.blogs :
            proc' = [proc EXCEPT !.blogs = @ \ {b}, !.at = {b},
                         !.pc = IF Seen.public[b] # "0" THEN "replacing" ELSE @]
      BY <1>6 DEF ReadBlog
    <2> DEFINE pc == IF Seen.public[b] # "0" THEN "replacing" ELSE proc.pc
    <2>3. proc' = [proc EXCEPT !.blogs = @ \ {b}, !.at = {b}, !.pc = pc]
      BY <2>2
    <2>4. pc \in {"writing", "replacing"} /\ b \in Blogs /\ proc.blogs \subseteq Blogs
      BY <1>1, <2>1 DEF Process
    <2> HIDE DEF pc
    <2>5. proc' \in Process /\ proc'.pc # "idle"
      BY <1>1, <2>3, <2>4 DEF Process
    <2> QED BY <2>1, <2>5, NoWriteTyped, KeepingTyped
  <1>7. CASE UpdateBlog
    <2>1. /\ proc.pc = "replacing" /\ UNCHANGED <<site, source, disk, edits, run>> /\ Go("writing")
          /\ StepHere = "disable_test_indexing"
      BY <1>7 DEF UpdateBlog, Within
    <2>2. PICK b \in proc.at : ByWp([Seen EXCEPT !.public[b] = "0"])
      BY <1>7 DEF UpdateBlog
    <2> DEFINE public == [Seen.public EXCEPT ![b] = "0"]
               d == Seen
               e == [d EXCEPT !.public = public]
    <2>3. ByWp(e)
      BY <2>2
    <2>4. public \in [Blogs -> Public]
      BY <1>2 DEF Public
    <2>5. d \in Data
      BY <1>1
    <2> HIDE DEF public, d
    <2>6. e \in Data /\ e.net = d.net
      BY <2>4, <2>5, PublicChanges
    <2> HIDE DEF e
    <2>7. Present(e) = Present(Seen)
      BY <2>6 DEF Present, d
    <2>8. Targets'
      BY <2>1, <2>3, <2>6, <2>7, WpTyped
    <2> QED BY <2>1, <2>8, GoTyped, KeepingTyped
  <1> QED BY <1>3, <1>4, <1>5, <1>6, <1>7 DEF TestIndexing

\* The end of a step.
LEMMA SavedTyped ==
  ASSUME Typed, proc.pc # "idle", NEW m \in Manifest, Sound(m.recovery), site' = site,
         disk' = disk \/ disk' = Saved(m)
  PROVE  /\ disk' \in Seq(Manifest) /\ Current' = Current
         /\ \A r \in 1..Current : /\ disk'[r] = IF disk' # disk /\ r = Current THEN m ELSE disk[r]
                                  /\ Sound(disk'[r].recovery)
         /\ (\A r \in 1..Current : Sound(disk[r].recovery))'
  <1>1. disk \in Seq(Manifest) /\ Current \in Nat /\ Current >= 1 /\ Current \in 1..Len(disk)
    BY HereTyped DEF Typed, TypeOK, Current
  <1>2. CASE disk' = disk
    <2>1. \A r \in 1..Current : \A k : k = disk[r].recovery => Sound(k)'
      BY SoundStays DEF Typed
    <2> QED BY <1>1, <1>2, <2>1 DEF Current, Typed
  <1>3. CASE disk' = Saved(m) /\ disk' # disk
    <2>1. /\ disk' \in Seq(Manifest) /\ Current' = Current
          /\ \A r \in 1..Current : disk'[r] = IF r = Current THEN m ELSE disk[r]
      BY <1>1, <1>3, ExceptSeq DEF Saved, Current
    <2>2. \A r \in 1..Current : Sound(disk[r].recovery)
      BY DEF Typed
    <2>3. \A r \in 1..Current : \A k : Sound(k) /\ k = disk'[r].recovery => Sound(k)'
      BY SoundStays
    <2> QED BY <1>3, <2>1, <2>2, <2>3
  <1> QED BY <1>2, <1>3

\* A run ends, in order or abruptly.
LEMMA EndTyped ==
  ASSUME Typed, proc.pc # "idle", NEW m \in Manifest, Sound(m.recovery),
         disk' = disk \/ disk' = Saved(m),
         run' = Fresh, proc' = Idle, UNCHANGED <<site, source, target, edits>>
  PROVE  Typed'
  <1>1. /\ disk' \in Seq(Manifest) /\ Current' = Current
        /\ (\A r \in 1..Current : Sound(disk[r].recovery))'
    BY SavedTyped
  <1>2. /\ run' \in Manifest /\ run'.status = "RUNNING"
        /\ \A k : k = run'.recovery => Sound(k)
        /\ \A k : k = run'.recovery /\ Sound(k) => Sound(k)'
    BY FreshTyped, SoundStays
  <1>3. Sound(run.recovery)'
    BY <1>2
  <1>4. proc' \in Process /\ proc'.pc = "idle"
    BY DEF Idle, Process
  <1>5. TypeOK'
    BY <1>1, <1>2, <1>4 DEF Typed, TypeOK, target
  <1>6. Located'
    BY <1>2, <1>4 DEF Located
  <1>7. (Main \in Present(source))' /\ (Main \in Present(data))'
    BY DEF Typed, Present, target
  <1> QED BY <1>1, <1>3, <1>5, <1>6, <1>7 DEF Typed

LEMMA ClosedTyped ==
  ASSUME Typed, NEW m \in Manifest
  PROVE  Closed(m) \in Manifest /\ Closed(m).recovery = m.recovery /\ Closed(m).done = m.done
         /\ Closed(m).status = "UPDATE_FAILED_PRESERVED"
  <1> DEFINE n == Closed(m)
  <1>1. DOMAIN m = {"status", "done", "print", "recovery"} /\ files \in Config
    BY ManifestFields DEF Typed, TypeOK
  <1>2. /\ n.status = "UPDATE_FAILED_PRESERVED" /\ n.print = {files} /\ n.done = m.done
        /\ n.recovery = m.recovery /\ DOMAIN n = {"status", "done", "print", "recovery"}
        /\ n = [f \in DOMAIN n |-> n[f]]
    BY <1>1 DEF Closed
  <1> HIDE DEF n
  <1>3. n \in Manifest
    BY <1>1, <1>2, ManifestFields, ManifestTyped
  <1> QED BY <1>2, <1>3 DEF n

LEMMA CountedTyped ==
  ASSUME Typed, proc.pc # "idle"
  PROVE  /\ Counted \in Manifest /\ Counted.recovery = run.recovery /\ Counted.status = "RUNNING"
         /\ Counted.done = run.done + 1
         /\ [Counted EXCEPT !.status = "EXECUTED", !.print = {files}] \in Manifest
         /\ [Counted EXCEPT !.status = "EXECUTED", !.print = {files}].recovery = run.recovery
         /\ [Counted EXCEPT !.status = "EXECUTED", !.print = {files}].done = run.done + 1
         /\ [Counted EXCEPT !.status = "EXECUTED", !.print = {files}].status = "EXECUTED"
  <1> DEFINE m == Counted
             n == [m EXCEPT !.status = "EXECUTED", !.print = {files}]
  <1>1. /\ run \in Manifest /\ files \in Config /\ run.done + 1 \in 0..10 /\ run.status = "RUNNING"
        /\ DOMAIN run = {"status", "done", "print", "recovery"}
    BY HereTyped, ManifestFields DEF Typed, TypeOK, Located
  <1>2. /\ m.status = "RUNNING" /\ m.print = run.print /\ m.done = run.done + 1
        /\ m.recovery = run.recovery /\ DOMAIN m = {"status", "done", "print", "recovery"}
        /\ m = [f \in DOMAIN m |-> m[f]]
    BY <1>1 DEF Counted
  <1> HIDE DEF m
  <1>3. m \in Manifest
    BY <1>1, <1>2, ManifestFields, ManifestTyped
  <1>4. /\ n.status = "EXECUTED" /\ n.print = {files} /\ n.done = m.done
        /\ n.recovery = m.recovery /\ DOMAIN n = {"status", "done", "print", "recovery"}
        /\ n = [f \in DOMAIN n |-> n[f]]
    BY <1>2
  <1>5. n \in Manifest
    <2> HIDE DEF n
    <2> QED BY <1>1, <1>2, <1>4, ManifestFields, ManifestTyped
  <1> QED BY <1>2, <1>3, <1>4, <1>5 DEF m

\* The manifest a failure leaves.
Failed == IF StepHere \in {"plan_test_indexing", "disable_test_indexing"}
          THEN [run EXCEPT !.recovery = Unmarked] ELSE run

LEMMA FailedTyped ==
  ASSUME Typed
  PROVE  Failed \in Manifest /\ Sound(Failed.recovery) /\ Failed.done = run.done
  <1>1. /\ run \in Manifest /\ Sound(run.recovery) /\ Unmarked \in Recovery /\ Sound(Unmarked)
        /\ DOMAIN run = {"status", "done", "print", "recovery"}
    BY MarksTyped, ManifestFields DEF Typed, TypeOK
  <1> DEFINE n == [run EXCEPT !.recovery = Unmarked]
  <1>2. /\ n.status = run.status /\ n.print = run.print /\ n.done = run.done
        /\ n.recovery = Unmarked /\ DOMAIN n = {"status", "done", "print", "recovery"}
        /\ n = [f \in DOMAIN n |-> n[f]]
    BY <1>1
  <1> HIDE DEF n
  <1>3. n \in Manifest
    BY <1>1, <1>2, ManifestFields, ManifestTyped
  <1> QED BY <1>1, <1>2, <1>3 DEF n, Failed

LEMMA EndsTyped ==
  ASSUME Typed, Fails \/ JudgeContinues \/ JudgeFinishes \/ JudgeStops \/ Crash
  PROVE  Typed'
  <1>1. run \in Manifest /\ Sound(run.recovery)
    BY DEF Typed, TypeOK
  <1>2. CASE Fails
    <2> DEFINE m == Closed(Failed)
    <2>1. m \in Manifest /\ Sound(m.recovery)
      BY FailedTyped, ClosedTyped
    <2>2. /\ disk' = Saved(m) /\ proc.pc # "idle" /\ run' = Fresh /\ proc' = Idle
          /\ UNCHANGED <<site, source, target, edits>>
      BY <1>2 DEF Fails, Failed
    <2> HIDE DEF m
    <2> QED BY <2>1, <2>2, EndTyped
  <1>3. CASE JudgeContinues
    <2> DEFINE m == Counted
    <2>1. /\ proc.pc = "judge" /\ m.done < Len(Plan) /\ run' = m /\ disk' = Saved(m) /\ Go("facing")
          /\ UNCHANGED <<site, source, target, edits>>
      BY <1>3 DEF JudgeContinues
    <2>2. /\ m \in Manifest /\ m.recovery = run.recovery /\ m.status = "RUNNING"
      BY <2>1, CountedTyped
    <2>3. Sound(m.recovery)
      BY <1>1, <2>2
    <2> HIDE DEF m
    <2>4. /\ disk' \in Seq(Manifest) /\ Current' = Current
          /\ (\A r \in 1..Current : Sound(disk[r].recovery))'
          /\ \A r \in 1..Current : disk'[r] = IF disk' # disk /\ r = Current THEN m ELSE disk[r]
      BY <2>1, <2>2, <2>3, SavedTyped
    <2>5. Current \in 1..Current /\ disk'[Current] = m
      <3>1. Current \in Nat /\ Current >= 1 /\ disk \in Seq(Manifest)
        BY <2>1, HereTyped DEF Typed, TypeOK
      <3>2. disk'[Current] = m
        BY <2>1, <2>2, <3>1, ExceptSeq DEF Saved, Current
      <3> QED BY <3>1, <3>2
    <2>6. proc' \in Process /\ proc'.pc = "facing"
      BY <2>1, GoTyped
    <2>7. \A k : k = m.recovery => Sound(k)'
      BY <2>1, <2>3, SoundStays
    <2>8. Sound(run.recovery)'
      BY <2>1, <2>7
    <2>9. TypeOK'
      BY <2>1, <2>2, <2>4, <2>6 DEF Typed, TypeOK, target
    <2>10. Located'
      BY <2>1, <2>2, <2>4, <2>5, <2>6 DEF Located
    <2>11. (Main \in Present(source))' /\ (Main \in Present(data))'
      BY <2>1 DEF Typed, Present, target
    <2> QED BY <2>4, <2>8, <2>9, <2>10, <2>11 DEF Typed
  <1>4. CASE JudgeFinishes
    <2> DEFINE m == [Counted EXCEPT !.status = "EXECUTED", !.print = {files}]
    <2>1. /\ disk' = Saved(m) /\ proc.pc # "idle" /\ run' = Fresh /\ proc' = Idle
          /\ UNCHANGED <<site, source, target, edits>>
      BY <1>4 DEF JudgeFinishes
    <2>2. m \in Manifest /\ Sound(m.recovery)
      BY <1>1, <2>1, CountedTyped
    <2> HIDE DEF m
    <2> QED BY <2>1, <2>2, EndTyped
  <1>5. CASE JudgeStops
    <2> DEFINE m == Closed(run)
    <2>1. /\ disk' = Saved(m) /\ proc.pc # "idle" /\ run' = Fresh /\ proc' = Idle
          /\ UNCHANGED <<site, source, target, edits>>
      BY <1>5 DEF JudgeStops
    <2>2. m \in Manifest /\ Sound(m.recovery)
      BY <1>1, ClosedTyped
    <2> HIDE DEF m
    <2> QED BY <2>1, <2>2, EndTyped
  <1>6. CASE Crash
    <2> DEFINE m == Counted
    <2>1. /\ disk' = disk \/ disk' = Saved(m)
          /\ proc.pc # "idle" /\ run' = Fresh /\ proc' = Idle
          /\ UNCHANGED <<site, source, target, edits>>
      BY <1>6 DEF Crash
    <2>2. m \in Manifest /\ Sound(m.recovery)
      BY <1>1, <2>1, CountedTyped
    <2> HIDE DEF m
    <2> QED BY <2>1, <2>2, EndTyped
  <1> QED BY <1>2, <1>3, <1>4, <1>5, <1>6

LEMMA NextTyped ==
  ASSUME Typed, [Next]_vars
  PROVE  Typed'
  <1>1. CASE UNCHANGED vars
    <2>1. /\ \A k : k = run.recovery => Sound(k)'
          /\ \A r \in 1..Current : \A k : k = disk[r].recovery => Sound(k)'
      BY <1>1, SoundStays DEF vars, Typed
    <2>2. Sound(run.recovery)' /\ (\A r \in 1..Current : Sound(disk[r].recovery))'
      BY <1>1, <2>1 DEF vars, Current
    <2>3. TypeOK' /\ Located' /\ (Main \in Present(source))' /\ (Main \in Present(data))'
      BY <1>1 DEF vars, target, Typed, TypeOK, Located, Current, StepHere, Present, Cells
    <2> QED BY <2>2, <2>3 DEF Typed
  <1>2. CASE Execute \/ (\E r \in 1..Current : Resume(r)) \/ Edit
    BY <1>2, ExecuteTyped, ResumeTyped, EditTyped
  <1> QED BY <1>1, <1>2, CopiesTyped, CorrectMultisiteTyped, SearchReplaceTyped, TestHttpsTyped,
             TestIndexingTyped, EndsTyped DEF Next

\* The data, the manifests with their plans and the process keep their types, whoever edits
\* and wherever a step breaks off.
THEOREM TypeCorrect == Spec => []TypeOK
  <1>1. Init => Typed
    BY InitTyped
  <1>2. Typed /\ [Next]_vars => Typed'
    BY NextTyped
  <1>3. Typed => TypeOK
    BY DEF Typed
  <1> QED BY <1>1, <1>2, <1>3, PTL DEF Spec

-----------------------------------------------------------------------------
(***************************************************************************)
(* What the steps do to the work of a run.                                 *)
(***************************************************************************)

LEMMA Here ==
  ASSUME Typed, proc.pc # "idle"
  PROVE  /\ StepHere = "copy_files" <=> run.done = 0
         /\ StepHere = "copy_database" <=> run.done = 1
         /\ StepHere = "write_test_db_config" <=> run.done = 2
         /\ StepHere = "plan_multisite_domain" <=> run.done = 3
         /\ StepHere = "correct_multisite_domain" <=> run.done = 4
         /\ StepHere = "pending_search_replace" <=> run.done = 5
         /\ StepHere = "plan_test_https" <=> run.done = 6
         /\ StepHere = "enforce_test_https" <=> run.done = 7
         /\ StepHere = "plan_test_indexing" <=> run.done = 8
         /\ StepHere = "disable_test_indexing" <=> run.done = 9
  <1>1. run.done \in 0..9 /\ StepHere = Plan[run.done + 1]
    BY HereTyped DEF StepHere
  <1>2. \/ run.done = 0 \/ run.done = 1 \/ run.done = 2 \/ run.done = 3 \/ run.done = 4
        \/ run.done = 5 \/ run.done = 6 \/ run.done = 7 \/ run.done = 8 \/ run.done = 9
    BY <1>1
  <1> QED BY <1>1, <1>2, PlanSteps

Reached(m, step) == \E k \in 1..m.done : Plan[k] = step

LEMMA ReachedSteps ==
  ASSUME NEW m, m.done \in 0..10
  PROVE  /\ Reached(m, "plan_multisite_domain") <=> m.done >= 4
         /\ Reached(m, "write_test_db_config") <=> m.done >= 3
         /\ Reached(m, "pending_search_replace") <=> m.done >= 6
         /\ Reached(m, "enforce_test_https") <=> m.done >= 8
  <1>1. \A k \in 1..m.done : \/ k = 1 \/ k = 2 \/ k = 3 \/ k = 4 \/ k = 5 \/ k = 6 \/ k = 7
                             \/ k = 8 \/ k = 9 \/ k = 10
    OBVIOUS
  <1>2. /\ m.done >= 4 => 4 \in 1..m.done
        /\ m.done >= 3 => 3 \in 1..m.done
        /\ m.done >= 6 => 6 \in 1..m.done
        /\ m.done >= 8 => 8 \in 1..m.done
    OBVIOUS
  <1>3. Reached(m, "plan_multisite_domain") <=> m.done >= 4
    BY <1>1, <1>2, PlanSteps DEF Reached
  <1>4. Reached(m, "write_test_db_config") <=> m.done >= 3
    BY <1>1, <1>2, PlanSteps DEF Reached
  <1>5. Reached(m, "pending_search_replace") <=> m.done >= 6
    BY <1>1, <1>2, PlanSteps DEF Reached
  <1>6. Reached(m, "enforce_test_https") <=> m.done >= 8
    BY <1>1, <1>2, PlanSteps DEF Reached
  <1> QED BY <1>3, <1>4, <1>5, <1>6

\* A step that writes nothing of anybody's.
LEMMA QuietIsMine ==
  ASSUME Typed, NoWrite
  PROVE  Mine /\ files' = files /\ data' = data
  <1>1. author \in [files: 0..Current, data: 0..Current]
    BY DEF Typed, TypeOK
  <1>2. author = [files |-> author.files, data |-> author.data]
    BY <1>1
  <1> QED BY <1>2 DEF NoWrite, target, Mine

\* A step that goes on from the work of the run does not change who did it.
LEMMA MineOnly ==
  ASSUME Typed, Mine, NEW r \in Nat \ {0}
  PROVE  /\ author'.files = r => author.files = r /\ (files' = files \/ r = Current)
         /\ author'.data = r => author.data = r /\ (data' = data \/ r = Current)
         /\ author' = [files |-> r, data |-> r] => author = [files |-> r, data |-> r]
  <1>1. author \in [files: 0..Current, data: 0..Current]
    BY DEF Typed, TypeOK
  <1>2. author = [files |-> author.files, data |-> author.data]
    BY <1>1
  <1>3. /\ author'.files = IF files' = files \/ author.files = Current THEN author.files ELSE 0
        /\ author'.data = IF data' = data \/ author.data = Current THEN author.data ELSE 0
    BY DEF Mine
  <1> QED BY <1>2, <1>3

LEMMA RewritingWrites ==
  ASSUME Typed, proc.pc # "idle", disk' = disk, NEW replacement \in {Replaced, Upgraded}, NEW rows,
         ByWp(Rewritten(Seen, replacement, rows))
  PROVE  /\ Mine /\ files' = files /\ Present(data') = Present(data)
         /\ \/ data' = data /\ files.db # "test"
            \/ /\ files.db = "test"
               /\ \A b \in Blogs :
                    data'.content[b] = IF <<b, "content">> \in rows THEN replacement[data.content[b]]
                                       ELSE data.content[b]
  <1>1. site \in Site /\ data \in Data
    BY DEF Typed, TypeOK
  <1>2. replacement \in [Url -> Url]
    BY <1>1, UrlsTyped
  <1>3. Mine /\ files' = files
    BY DEF ByWp
  <1>4. CASE files.db # "test"
    BY <1>3, <1>4 DEF ByWp
  <1>5. CASE files.db = "test"
    <2> DEFINE d == data
               e == Rewritten(d, replacement, rows)
    <2>1. data' = e
      BY <1>5 DEF ByWp, Seen
    <2>2. d \in Data
      BY <1>1
    <2> HIDE DEF d
    <2>3. /\ Present(e) = Present(d)
          /\ \A b \in Blogs :
                e.content[b] = IF <<b, "content">> \in rows THEN replacement[d.content[b]]
                               ELSE d.content[b]
      BY <1>1, <1>2, <2>2, RewrittenTyped
    <2> HIDE DEF e
    <2> QED BY <1>3, <1>5, <2>1, <2>3 DEF d
  <1> QED BY <1>4, <1>5

LEMMA MultisiteEffects ==
  ASSUME Typed, CorrectMultisite
  PROVE  /\ proc.pc # "idle" /\ run.done \in {3, 4} /\ UNCHANGED <<site, source, disk, edits>> /\ Mine
         /\ files'.db = files.db /\ data'.content = data.content /\ Present(data') = Present(data)
         /\ run'.done = run.done
         /\ proc'.pc = "judge" /\ run.done = 3 => Accepted("plan_multisite_domain")
  <1>0. /\ site \in Site /\ data \in Data /\ files \in Config /\ run.recovery \in Recovery
        /\ Sound(run.recovery) /\ proc \in Process /\ run \in Manifest
    BY ManifestFields DEF Typed, TypeOK
  <1>1. CASE PlanMultisiteDomain
    <2>1. /\ proc.pc = "facing" /\ UNCHANGED <<site, source, disk, edits>> /\ NoWrite
          /\ StepHere = "plan_multisite_domain" /\ Accepted("plan_multisite_domain")
      BY <1>1 DEF PlanMultisiteDomain, Facing
    <2>2. run'.done = run.done
      BY <1>0, <1>1 DEF PlanMultisiteDomain, Recover, Manifest
    <2> QED BY <2>1, <2>2, Here, QuietIsMine
  <1>2. CASE ValidateNetwork
    <2>1. /\ proc.pc = "validating" /\ UNCHANGED <<site, source, disk, edits>> /\ NoWrite
          /\ StepHere = "correct_multisite_domain"
      BY <1>2 DEF ValidateNetwork, Within
    <2>2. run'.done = run.done
      BY <1>0, <1>2 DEF ValidateNetwork, Recover, Manifest
    <2> QED BY <2>1, <2>2, Here, QuietIsMine
  <1>3. CASE SkipMultisite \/ InspectNetwork
    <2>1. /\ proc.pc = "facing" /\ UNCHANGED <<site, source, disk, edits, run>> /\ NoWrite
          /\ StepHere = "correct_multisite_domain"
      BY <1>3 DEF SkipMultisite, InspectNetwork, Facing
    <2> QED BY <2>1, Here, QuietIsMine
  <1>4. CASE ApplyNetwork \/ ApplyNetworkBreaks
    <2>1. /\ proc.pc = "writing" /\ UNCHANGED <<site, source, disk, edits, run>>
          /\ StepHere = "correct_multisite_domain"
      BY <1>4 DEF ApplyNetwork, ApplyNetworkBreaks, Within
    <2>2. PICK p \in run.recovery.multisite, cells \in SUBSET proc.todo :
            BySql(Updated(data.net, p, cells))
      BY <1>4 DEF ApplyNetwork, ApplyNetworkBreaks, FirstOf
    <2>3. p \in MultisitePlan /\ cells \subseteq Cells(p.before)
      BY <1>0, <2>1, <2>2, RecoveryFields DEF Typed, Located
    <2>4. DOMAIN p.after.blogs = DOMAIN p.before.blogs
      <3>1. p.before \in NetworkSnapshot /\ p.after = Transform(p.before)
        BY <1>0, <2>3 DEF Sound, MultisitePlan
      <3> QED BY <1>0, <3>1, TransformTyped
    <2>5. data.net \in NetworkSnapshot /\ DOMAIN data.net.blogs = Present(data) /\ Present(data) # {}
      BY <1>0, DataFields DEF Present
    <2> DEFINE net == Updated(data.net, p, cells)
    <2>6. net \in NetworkSnapshot /\ DOMAIN net.blogs = Present(data)
      BY <2>3, <2>4, <2>5, UpdatedTyped
    <2>7. data' = [data EXCEPT !.net = net] /\ files' = files /\ Mine
      BY <2>2 DEF BySql
    <2> DEFINE d == data
    <2>8. d \in Data /\ data' = [d EXCEPT !.net = net] /\ DOMAIN net.blogs # {}
      BY <1>0, <2>5, <2>6, <2>7
    <2> HIDE DEF net, d
    <2>9. data'.net = net /\ data'.content = d.content
      BY <2>6, <2>8, NetChanges
    <2>10. Present(data') = Present(data) /\ data'.content = data.content
      BY <2>6, <2>9 DEF Present, d
    <2> QED BY <2>1, <2>7, <2>10, Here
  <1>5. CASE SetMultisiteDomain
    <2>1. /\ proc.pc = "checking" /\ UNCHANGED <<site, source, disk, edits, run>>
          /\ StepHere = "correct_multisite_domain"
          /\ files' = [files EXCEPT !.domain = "new"] /\ UNCHANGED <<data, wrote>> /\ Mine
      BY <1>5 DEF SetMultisiteDomain, Within
    <2>2. files'.db = files.db
      BY <1>0, <2>1 DEF Config
    <2> QED BY <2>1, <2>2, Here
  <1> QED BY <1>1, <1>2, <1>3, <1>4, <1>5 DEF CorrectMultisite

LEMMA SearchEffects ==
  ASSUME Typed, SearchReplace \/ SearchReplaceBreaks
  PROVE  /\ proc.pc # "idle" /\ run.done = 5 /\ UNCHANGED <<site, source, disk, edits, run>> /\ Mine
         /\ files' = files /\ Present(data') = Present(data)
         /\ \E rows :
              /\ proc'.pc = "judge" => rows = Rows(Covered(Seen))
              /\ \/ data' = data /\ files.db # "test"
                 \/ /\ files.db = "test"
                    /\ \A b \in Blogs :
                         data'.content[b] = IF <<b, "content">> \in rows
                                            THEN Replaced[data.content[b]] ELSE data.content[b]
  <1>1. /\ proc.pc = "facing" /\ UNCHANGED <<site, source, disk, edits, run>>
        /\ StepHere = "pending_search_replace"
    BY DEF SearchReplace, SearchReplaceBreaks, Facing
  <1>2. PICK rows : /\ ByWp(Rewritten(Seen, Replaced, rows))
                    /\ rows = Rows(Covered(Seen)) \/ Go("broken")
    BY DEF SearchReplace, SearchReplaceBreaks
  <1>3. proc'.pc = "judge" => rows = Rows(Covered(Seen))
    BY <1>2, GoTyped
  <1> DEFINE replacement == Replaced
  <1>4. replacement \in {Replaced, Upgraded} /\ ByWp(Rewritten(Seen, replacement, rows))
    BY <1>2
  <1> HIDE DEF replacement
  <1>5. /\ Mine /\ files' = files /\ Present(data') = Present(data)
        /\ \/ data' = data /\ files.db # "test"
           \/ /\ files.db = "test"
              /\ \A b \in Blogs :
                   data'.content[b] = IF <<b, "content">> \in rows THEN replacement[data.content[b]]
                                      ELSE data.content[b]
    BY <1>1, <1>4, RewritingWrites
  <1> QED BY <1>1, <1>3, <1>5, Here DEF replacement

LEMMA HttpsEffects ==
  ASSUME Typed, TestHttps
  PROVE  /\ proc.pc # "idle" /\ run.done \in {6, 7} /\ UNCHANGED <<site, source, disk, edits>> /\ Mine
         /\ files' = files /\ Present(data') = Present(data) /\ run'.done = run.done
         /\ data' = data \/ \A b \in Blogs :
                              data'.content[b] \in {data.content[b], Upgraded[data.content[b]]}
         /\ proc'.pc = "judge" /\ run.done = 7 =>
              /\ data' = data /\ proc.pc = "writing"
              /\ Insecure(Seen, Present(data)) = {}
  <1>0. run \in Manifest
    BY DEF Typed, TypeOK
  <1>1. CASE PlanTestHttps
    <2>1. /\ proc.pc = "facing" /\ UNCHANGED <<site, source, disk, edits>> /\ NoWrite
          /\ StepHere = "plan_test_https"
      BY <1>1 DEF PlanTestHttps, Facing
    <2>2. run'.done = run.done
      BY <1>0, <1>1 DEF PlanTestHttps, Recover, Manifest
    <2> QED BY <2>1, <2>2, Here, QuietIsMine
  <1>2. CASE ValidateHttps
    <2>1. /\ proc.pc = "writing" /\ UNCHANGED <<site, source, disk, edits>> /\ NoWrite
          /\ StepHere = "enforce_test_https" /\ Enforced
      BY <1>2 DEF ValidateHttps, Within
    <2>2. run'.done = run.done
      BY <1>0, <1>2 DEF ValidateHttps, Recover, Manifest
    <2> QED BY <2>1, <2>2, Here, QuietIsMine DEF Enforced
  <1>3. CASE StartHttps \/ CountHost
    <2>1. /\ proc.pc # "idle" /\ UNCHANGED <<site, source, disk, edits, run>> /\ NoWrite
          /\ StepHere = "enforce_test_https"
      BY <1>3 DEF StartHttps, CountHost, Facing, Within
    <2>2. proc \in Process
      BY DEF Typed, TypeOK
    <2>3. proc'.pc # "judge"
      <3>1. CASE StartHttps
        BY <2>2, <3>1 DEF StartHttps, Process
      <3>2. CASE CountHost
        <4>1. PICK host \in HostsOf(proc.blogs) :
                proc' = [proc EXCEPT !.blogs = @ \ host, !.at = host,
                             !.pc = IF Insecure(Seen, host) # {} THEN "replacing" ELSE @]
          BY <3>2 DEF CountHost
        <4>2. proc.pc = "writing"
          BY <3>2 DEF CountHost, Within
        <4> QED BY <2>2, <4>1, <4>2 DEF Process
      <3> QED BY <1>3, <3>1, <3>2
    <2> QED BY <2>1, <2>3, Here, QuietIsMine
  <1>4. CASE ReplaceHost \/ ReplaceHostBreaks
    <2>1. /\ proc.pc = "replacing" /\ UNCHANGED <<site, source, disk, edits, run>>
          /\ StepHere = "enforce_test_https"
          /\ Go("writing") \/ Go("broken")
      BY <1>4 DEF ReplaceHost, ReplaceHostBreaks, Within
    <2>2. PICK rows : ByWp(Rewritten(Seen, Upgraded, rows))
      BY <1>4 DEF ReplaceHost, ReplaceHostBreaks
    <2> DEFINE replacement == Upgraded
    <2>3. replacement \in {Replaced, Upgraded} /\ ByWp(Rewritten(Seen, replacement, rows))
      BY <2>2
    <2> HIDE DEF replacement
    <2>4. /\ Mine /\ files' = files /\ Present(data') = Present(data)
          /\ data' = data \/ \A b \in Blogs :
                   data'.content[b] = IF <<b, "content">> \in rows THEN replacement[data.content[b]]
                                      ELSE data.content[b]
      BY <2>1, <2>3, RewritingWrites
    <2>5. proc'.pc # "judge"
      BY <2>1, GoTyped
    <2> QED BY <2>1, <2>4, <2>5, Here DEF replacement
  <1> QED BY <1>1, <1>2, <1>3, <1>4 DEF TestHttps

LEMMA IndexingEffects ==
  ASSUME Typed, TestIndexing
  PROVE  /\ proc.pc # "idle" /\ run.done \in {8, 9} /\ UNCHANGED <<site, source, disk, edits>> /\ Mine
         /\ files' = files /\ Present(data') = Present(data) /\ run'.done = run.done
         /\ data'.content = data.content
         /\ proc'.pc = "judge" /\ run.done = 9 =>
              /\ data' = data /\ proc.pc = "writing" /\ run'.recovery.https = run.recovery.https
              /\ StillSecured /\ \A b \in Present(data) : Seen.public[b] = "0"
  <1>0. run \in Manifest /\ proc \in Process /\ data \in Data
    BY DEF Typed, TypeOK
  <1>1. CASE PlanTestIndexing
    <2>1. /\ proc.pc = "facing" /\ UNCHANGED <<site, source, disk, edits>> /\ NoWrite
          /\ StepHere = "plan_test_indexing"
      BY <1>1 DEF PlanTestIndexing, Facing
    <2>2. run'.done = run.done
      BY <1>0, <1>1 DEF PlanTestIndexing, Recover, Manifest
    <2> QED BY <2>1, <2>2, Here, QuietIsMine
  <1>2. CASE ValidateIndexing
    <2>1. /\ proc.pc = "writing" /\ UNCHANGED <<site, source, disk, edits>> /\ NoWrite
          /\ StepHere = "disable_test_indexing" /\ StillSecured
          /\ \A b \in Present(data) : Seen.public[b] = "0"
          /\ run' = [run EXCEPT !.recovery = Validated("test_indexing")]
      BY <1>2 DEF ValidateIndexing, Within, Recover
    <2>2. run'.done = run.done /\ run'.recovery = Validated("test_indexing")
      BY <1>0, <2>1 DEF Manifest
    <2>3. run'.recovery.https = run.recovery.https
      BY <2>2, MarksTyped
    <2> QED BY <2>1, <2>2, <2>3, Here, QuietIsMine
  <1>3. CASE StartIndexing \/ ReadBlog
    <2>1. /\ proc.pc # "idle" /\ UNCHANGED <<site, source, disk, edits>> /\ NoWrite
          /\ StepHere = "disable_test_indexing"
      BY <1>3 DEF StartIndexing, ReadBlog, Facing, Within
    <2>2. run'.done = run.done
      BY <1>0, <1>3 DEF StartIndexing, ReadBlog, Manifest
    <2>3. proc'.pc # "judge"
      <3>1. CASE StartIndexing
        BY <1>0, <3>1 DEF StartIndexing, Process
      <3>2. CASE ReadBlog
        <4>1. PICK b \in proc.blogs :
                proc' = [proc EXCEPT !.blogs = @ \ {b}, !.at = {b},
                             !.pc = IF Seen.public[b] # "0" THEN "replacing" ELSE @]
          BY <3>2 DEF ReadBlog
        <4>2. proc.pc = "writing"
          BY <3>2 DEF ReadBlog, Within
        <4> QED BY <1>0, <4>1, <4>2 DEF Process
      <3> QED BY <1>3, <3>1, <3>2
    <2> QED BY <2>1, <2>2, <2>3, Here, QuietIsMine
  <1>4. CASE UpdateBlog
    <2>1. /\ proc.pc = "replacing" /\ UNCHANGED <<site, source, disk, edits, run>> /\ Go("writing")
          /\ StepHere = "disable_test_indexing"
      BY <1>4 DEF UpdateBlog, Within
    <2>2. PICK b \in proc.at : ByWp([Seen EXCEPT !.public[b] = "0"])
      BY <1>4 DEF UpdateBlog
    <2>3. Mine /\ files' = files /\ (data' = data \/ data' = [data EXCEPT !.public[b] = "0"])
      BY <2>2 DEF ByWp, Seen
    <2>4. data'.content = data.content /\ data'.net = data.net
      BY <1>0, <2>3 DEF Data
    <2>5. proc'.pc # "judge"
      BY <2>1, GoTyped
    <2> QED BY <2>1, <2>3, <2>4, <2>5, Here DEF Present
  <1> QED BY <1>1, <1>2, <1>3, <1>4 DEF TestIndexing

LEMMA SiteStays ==
  ASSUME Typed, [Next]_vars
  PROVE  site' = site /\ source' = source
  <1>1. CASE CorrectMultisite
    BY <1>1, MultisiteEffects
  <1>2. CASE TestHttps
    BY <1>2, HttpsEffects
  <1>3. CASE TestIndexing
    BY <1>3, IndexingEffects
  <1> QED BY <1>1, <1>2, <1>3 DEF Next, vars, Execute, Resume, Begin, Edit, CopyFiles, CopyDatabase,
         WriteTestDbConfig, SearchReplace, SearchReplaceBreaks, Facing, Fails, JudgeContinues,
         JudgeFinishes, JudgeStops, Crash

\* What may become of the content of a blog.
LEMMA WritesOfContent ==
  ASSUME Typed, [Next]_vars, NEW b \in Blogs
  PROVE  \/ data'.content[b] = data.content[b] \/ data' = source
         \/ data'.content[b] = Replaced[data.content[b]] /\ run.done = 5 /\ proc.pc # "idle"
         \/ data'.content[b] = Upgraded[data.content[b]]
  <1>0. data \in Data
    BY DEF Typed, TypeOK
  <1>1. CASE data' = data
    BY <1>1
  <1>2. CASE Edit
    BY <1>0, <1>2 DEF Edit, Data
  <1>3. CASE CopyFiles \/ CopyDatabase \/ WriteTestDbConfig
    BY <1>3 DEF CopyFiles, CopyDatabase, WriteTestDbConfig
  <1>4. CASE CorrectMultisite
    BY <1>4, MultisiteEffects
  <1>5. CASE SearchReplace \/ SearchReplaceBreaks
    BY <1>5, SearchEffects
  <1>6. CASE TestHttps
    BY <1>6, HttpsEffects
  <1>7. CASE TestIndexing
    BY <1>7, IndexingEffects
  <1>8. CASE \/ Execute \/ (\E r \in 1..Current : Resume(r))
             \/ Fails \/ JudgeContinues \/ JudgeFinishes \/ JudgeStops \/ Crash \/ UNCHANGED vars
    <2>1. data' = data
      BY <1>8 DEF Execute, Resume, Begin, Fails, JudgeContinues, JudgeFinishes, JudgeStops, Crash, vars,
                  target
    <2> QED BY <2>1
  <1> QED BY <1>2, <1>3, <1>4, <1>5, <1>6, <1>7, <1>8 DEF Next

\* What the end of a step saves.
LEMMA EndSaves ==
  ASSUME Typed, Fails \/ JudgeContinues \/ JudgeFinishes \/ JudgeStops \/ Crash
  PROVE  \E m \in Manifest :
            /\ disk' = disk \/ disk' = Saved(m)
            /\ m.done = run.done \/ (proc.pc = "judge" /\ m.done = run.done + 1)
            /\ m.status = "EXECUTED" => JudgeFinishes
  <1>1. run \in Manifest
    BY DEF Typed, TypeOK
  <1>2. CASE Fails
    <2>1. disk' = Saved(Closed(Failed))
      BY <1>2 DEF Fails, Failed
    <2>2. /\ Closed(Failed) \in Manifest /\ Closed(Failed).done = run.done
          /\ Closed(Failed).status = "UPDATE_FAILED_PRESERVED"
      BY FailedTyped, ClosedTyped
    <2> QED BY <2>1, <2>2
  <1>3. CASE JudgeContinues \/ Crash
    <2>1. /\ proc.pc # "idle"
          /\ disk' = disk \/ (proc.pc = "judge" /\ disk' = Saved(Counted))
      BY <1>3 DEF JudgeContinues, Crash
    <2>2. Counted \in Manifest /\ Counted.done = run.done + 1 /\ Counted.status = "RUNNING"
      BY <2>1, CountedTyped
    <2>3. run.status = "RUNNING"
      BY DEF Typed, Located
    <2> QED BY <1>1, <2>1, <2>2, <2>3
  <1>4. CASE JudgeFinishes
    <2> DEFINE m == [Counted EXCEPT !.status = "EXECUTED", !.print = {files}]
    <2>1. disk' = Saved(m) /\ proc.pc = "judge"
      BY <1>4 DEF JudgeFinishes
    <2>2. m \in Manifest /\ m.done = run.done + 1
      BY <2>1, CountedTyped
    <2> HIDE DEF m
    <2> QED BY <1>4, <2>1, <2>2
  <1>5. CASE JudgeStops
    <2>1. disk' = Saved(Closed(run))
      BY <1>5 DEF JudgeStops
    <2>2. /\ Closed(run) \in Manifest /\ Closed(run).done = run.done
          /\ Closed(run).status = "UPDATE_FAILED_PRESERVED"
      BY <1>1, ClosedTyped
    <2> QED BY <2>1, <2>2
  <1> QED BY <1>2, <1>3, <1>4, <1>5

-----------------------------------------------------------------------------
(***************************************************************************)
(* URLs of the content.                                                    *)
(***************************************************************************)

\* Without overlap the content is on the source URL or on the host of the test URL.
Contents ==
    /\ \A b \in Blogs : source.content[b] = On("old")
    /\ ~ site.overlaps =>
          \A b \in Blogs : data.content[b] = On("old") \/ data.content[b].host = "new"

\* No run on an overlapping network gets beyond the step that plans its domains.
Refused(m) == ~ Reached(m, "plan_multisite_domain")
Refusals ==
    site.network /\ site.overlaps =>
        /\ \A r \in 1..Current : Refused(disk[r])
        /\ Refused(run)
        /\ ~ (proc.pc = "judge" /\ StepHere = "plan_multisite_domain")

LEMMA ContentsStep ==
  ASSUME Typed, Contents, [Next]_vars
  PROVE  Contents'
  <1>1. site' = site /\ source' = source /\ \A host : On(host)' = On(host)
    BY SiteStays DEF On
  <1>2. site \in Site /\ data \in Data /\ data.content \in [Blogs -> Url]
    BY DataFields DEF Typed, TypeOK
  <1>3. SUFFICES ASSUME ~ site.overlaps, NEW b \in Blogs
                 PROVE  data'.content[b] = On("old") \/ data'.content[b].host = "new"
    BY <1>1 DEF Contents
  <1>4. data.content[b] = On("old") \/ data.content[b].host = "new"
    BY <1>3 DEF Contents
  <1>5. data.content[b] \in Url /\ On("old").host = "old" /\ On("new").host = "new"
    BY <1>2 DEF On
  <1>6. CASE data'.content[b] = data.content[b]
    BY <1>4, <1>6
  <1>7. CASE data' = source
    BY <1>7 DEF Contents
  <1>8. CASE data'.content[b] = Replaced[data.content[b]]
    BY <1>3, <1>4, <1>5, <1>8 DEF Replaced
  <1>9. CASE data'.content[b] = Upgraded[data.content[b]]
    <2>1. data.content[b].host = "new" => Secured(data.content[b]).host = "new"
      BY <1>2, <1>5, UrlsTyped
    <2> QED BY <1>4, <1>5, <1>9, <2>1 DEF Upgraded
  <1>10. \/ data'.content[b] = data.content[b] \/ data' = source
         \/ data'.content[b] = Replaced[data.content[b]]
         \/ data'.content[b] = Upgraded[data.content[b]]
    BY WritesOfContent
  <1> QED BY <1>6, <1>7, <1>8, <1>9, <1>10

LEMMA RefusalsStep ==
  ASSUME Typed, Refusals, [Next]_vars
  PROVE  Refusals'
  <1>1. site' = site
    BY SiteStays
  <1>2. SUFFICES ASSUME site.network, site.overlaps
                 PROVE  /\ (\A r \in 1..Current : Refused(disk[r]))'
                        /\ Refused(run)' /\ ~ (proc.pc = "judge" /\ StepHere = "plan_multisite_domain")'
    BY <1>1 DEF Refusals
  <1>3. /\ \A r \in 1..Current : Refused(disk[r])
        /\ Refused(run) /\ ~ (proc.pc = "judge" /\ StepHere = "plan_multisite_domain")
    BY <1>2 DEF Refusals
  <1>4. /\ disk \in Seq(Manifest) /\ run \in Manifest /\ Current \in Nat
        /\ \A r \in 1..Current : disk[r].done \in 0..10
        /\ run.done \in 0..10
    BY LenProperties, ManifestFields DEF Typed, TypeOK, Current
  <1>5. run.done <= 3
    BY <1>3, <1>4, ReachedSteps DEF Refused
  <1>6. Refused(Fresh)
    BY DEF Fresh, Refused, Reached
  <1>7. CASE Execute
    <2>1. run' = Fresh /\ disk' = Append(disk, Fresh) /\ proc'.pc = "facing"
      BY <1>7 DEF Execute, Begin, Idle
    <2>2. /\ Len(disk') = Current + 1 /\ disk'[Current + 1] = Fresh
          /\ \A r \in 1..Current : disk'[r] = disk[r]
      BY <1>4, <2>1, FreshTyped, AppendProperties DEF Current
    <2>3. \A r \in 1..(Current + 1) : Refused(disk'[r])
      BY <1>3, <1>4, <1>6, <2>2
    <2> QED BY <1>6, <2>1, <2>2, <2>3 DEF Current, Refused, Reached
  <1>8. CASE \E r \in 1..Current : Resume(r)
    <2>1. PICK r \in 1..Current : Resume(r)
      BY <1>8
    <2> DEFINE m == [disk[r] EXCEPT !.status = "RUNNING", !.print = {}]
    <2>2. run' = m /\ disk' = Append(disk, m) /\ proc'.pc = "facing"
      BY <2>1 DEF Resume, Begin, Idle
    <2>3. m.done = disk[r].done
      BY <1>4 DEF Manifest
    <2>4. Refused(m)
      BY <1>3, <2>3 DEF Refused, Reached
    <2> HIDE DEF m
    <2>5. /\ Len(disk') = Current + 1 /\ disk'[Current + 1] = m
          /\ \A i \in 1..Current : disk'[i] = disk[i]
      BY <1>4, <2>2, SeqGrows DEF Current, IsSeq
    <2>6. \A i \in 1..(Current + 1) : Refused(disk'[i])
      BY <1>3, <1>4, <2>4, <2>5
    <2> QED BY <2>2, <2>4, <2>5, <2>6 DEF Current, Refused, Reached
  <1>9. CASE /\ disk' = disk /\ run'.done = run.done /\ StepHere' = StepHere
             /\ ~ (proc'.pc = "judge" /\ StepHere = "plan_multisite_domain")
    BY <1>3, <1>9 DEF Current, Refused, Reached
  <1>10. CASE Edit \/ UNCHANGED vars
    <2>1. UNCHANGED <<disk, run, proc>>
      BY <1>10 DEF Edit, vars
    <2> QED BY <1>3, <1>9, <2>1 DEF StepHere
  <1>11. CASE CopyFiles \/ CopyDatabase \/ WriteTestDbConfig
    <2>1. proc.pc # "idle" /\ UNCHANGED <<disk, run>> /\ StepHere # "plan_multisite_domain"
      BY <1>11 DEF CopyFiles, CopyDatabase, WriteTestDbConfig, Facing
    <2> QED BY <1>9, <2>1 DEF StepHere
  <1>12. CASE CorrectMultisite
    <2>1. ~ Accepted("plan_multisite_domain")
      BY <1>2 DEF Accepted, PlansMultisite, Transformable
    <2>2. /\ proc.pc # "idle" /\ disk' = disk /\ run'.done = run.done
          /\ ~ (proc'.pc = "judge" /\ run.done = 3)
      BY <1>12, <2>1, MultisiteEffects
    <2> QED BY <1>9, <2>2, Here DEF StepHere
  <1>13. CASE SearchReplace \/ SearchReplaceBreaks \/ TestHttps \/ TestIndexing
    <2>1. run.done >= 5
      BY <1>13, SearchEffects, HttpsEffects, IndexingEffects
    <2> QED BY <1>4, <1>5, <2>1
  <1>14. CASE Fails \/ JudgeContinues \/ JudgeFinishes \/ JudgeStops \/ Crash
    <2>1. proc.pc # "idle"
      BY <1>14 DEF Fails, JudgeContinues, JudgeFinishes, JudgeStops, Crash
    <2>2. proc.pc = "judge" => run.done + 1 <= 3
      BY <1>3, <1>4, <1>5, <2>1, Here
    <2>3. \A m : m.done \in 0..10 /\ m.done <= 3 => Refused(m)
      BY ReachedSteps DEF Refused
    <2>4. PICK m \in Manifest : (disk' = disk \/ disk' = Saved(m)) /\ m.done <= 3
      BY <1>5, <1>14, <2>1, <2>2, EndSaves
    <2>5. Refused(m)
      BY <2>3, <2>4, ManifestFields
    <2>6. Len(disk') = Len(disk) /\ \A r \in 1..Current : disk'[r] \in {m, disk[r]}
      BY <1>4, <2>1, <2>4, HereTyped, ExceptSeq DEF Saved, Current
    <2>7. Refused(run)'
      <3>1. \A k : k = Fresh => Refused(k)
        BY <1>6
      <3>2. run' = Fresh \/ (proc.pc = "judge" /\ run' = Counted)
        BY <1>14 DEF Fails, JudgeContinues, JudgeFinishes, JudgeStops, Crash
      <3>3. proc.pc = "judge" => Counted.done <= 3 /\ Counted.done \in 0..10
        BY <2>1, <2>2, CountedTyped, ManifestFields
      <3>4. \A k : k = run' => Refused(k)
        BY <2>3, <3>1, <3>2, <3>3
      <3> QED BY <3>4 DEF Refused, Reached
    <2>8. proc'.pc # "judge"
      BY <1>14, GoTyped DEF Fails, JudgeContinues, JudgeFinishes, JudgeStops, Crash, Idle
    <2>9. \A r \in 1..Current : Refused(disk'[r])
      BY <1>3, <2>5, <2>6
    <2> QED BY <2>6, <2>7, <2>8, <2>9 DEF Current, Refused, Reached
  <1> QED BY <1>7, <1>8, <1>10, <1>11, <1>12, <1>13, <1>14 DEF Next

\* In a network no step ever writes a third URL into the content: where the test URL contains
\* the source URL no run gets as far as its search-replace, and elsewhere that replacement
\* only writes the test URL (multisite.py 80-83).
THEOREM NetworkKeepsToTwoUrls == Spec => NoThirdUrl
  <1> DEFINE Third ==
        site.network /\ edits' = edits =>
            \A b \in Present(data) :
               data'.content[b].host = "other" => data.content[b].host = "other"
  <1>1. Init => Typed /\ Contents /\ Refusals
    <2> SUFFICES ASSUME Init
                 PROVE  Typed /\ Contents /\ Refusals
      OBVIOUS
    <2>1. \A b \in Blogs : source.content[b] = On("old")
      BY DEF Init
    <2>2. data = source /\ disk = <<>> /\ run = Fresh /\ proc.pc = "idle"
      BY DEF Init, Idle
    <2>3. Refused(Fresh) /\ Len(<<>>) = 0
      BY EmptySeq DEF Refused, Reached, Fresh
    <2> QED BY <2>1, <2>2, <2>3, InitTyped DEF Contents, Refusals, Current
  <1>2. Typed /\ Contents /\ Refusals /\ [Next]_vars => (Typed /\ Contents /\ Refusals)'
    BY NextTyped, ContentsStep, RefusalsStep
  <1>3. Typed /\ Contents /\ Refusals /\ [Next]_vars => [Third]_vars
    <2> SUFFICES ASSUME Typed, Contents, Refusals, Next, site.network, edits' = edits,
                        NEW b \in Present(data), data'.content[b].host = "other"
                 PROVE  data.content[b].host = "other"
      OBVIOUS
    <2>1. b \in Blogs /\ data.content[b] \in Url /\ site \in Site
      BY DataFields DEF Typed, TypeOK
    <2>2. On("old").host = "old" /\ On("new").host = "new"
      BY DEF On
    <2>3. CASE data'.content[b] = data.content[b]
      BY <2>3
    <2>4. CASE data' = source
      BY <2>1, <2>2, <2>4 DEF Contents
    <2>5. CASE data'.content[b] = Replaced[data.content[b]] /\ run.done = 5 /\ proc.pc # "idle"
      <3>1. ~ site.overlaps
        <4> SUFFICES ASSUME site.overlaps
                     PROVE  FALSE
          OBVIOUS
        <4>1. Refused(run) /\ run.done \in 0..10
          BY <2>5, HereTyped DEF Refusals
        <4> QED BY <2>5, <4>1, ReachedSteps DEF Refused
      <3> QED BY <2>1, <2>2, <2>5, <3>1 DEF Replaced
    <2>6. CASE data'.content[b] = Upgraded[data.content[b]]
      <3>1. data.content[b].host = "new" => Secured(data.content[b]).host = "new"
        BY <2>1, UrlsTyped
      <3> QED BY <2>1, <2>6, <3>1 DEF Upgraded
    <2> QED BY <2>1, <2>3, <2>4, <2>5, <2>6, WritesOfContent
  <1> QED BY <1>1, <1>2, <1>3, PTL DEF Spec, NoThirdUrl

-----------------------------------------------------------------------------
(***************************************************************************)
(* What a finished run leaves.                                             *)
(***************************************************************************)

\* What a run has made of the present files and data by some of its steps, as long as they
\* are its own work.
ContentReplaced ==
    ~ site.overlaps => \A b \in Covered(data) : data.content[b].host = "new"
ContentSecured ==
    \A b \in Present(data) : data.content[b].host = "new" => data.content[b].https
Works(r, done) ==
    /\ done >= 3 /\ author.files = r => files.db = "test"
    /\ done >= 6 /\ author = [files |-> r, data |-> r] => ContentReplaced
    /\ done >= 8 /\ author.data = r => ContentSecured
Final ==
    /\ \E p \in run.recovery.https : data.net = p.after
    /\ \A b \in Present(data) : data.public[b] = "0"
Standing ==
    /\ \A r \in 1..Current : Works(r, disk[r].done)
    /\ proc.pc = "judge" => Works(Current, run.done + 1)
    /\ proc.pc = "judge" /\ run.done = 9 /\ author.data = Current => Final

\* A step, or an edit, leaves alone what is the work of another run.
LEMMA OthersStand ==
  ASSUME Typed, NEW r \in Nat \ {0}, NEW done \in 0..10, Works(r, done), site' = site,
         author'.files = r => author.files = r /\ files' = files,
         author'.data = r => author.data = r /\ data' = data,
         author' \in [files: Nat, data: Nat]
  PROVE  Works(r, done)'
  <1>1. author \in [files: 0..Current, data: 0..Current]
    BY DEF Typed, TypeOK
  <1>2. author' = [files |-> r, data |-> r] => author = [files |-> r, data |-> r]
    BY <1>1
  <1> QED BY <1>2 DEF Works, ContentReplaced, ContentSecured, Covered, Present

LEMMA InitStands ==
  ASSUME Init
  PROVE  Contents /\ Standing /\ FinishedIsTest
  <1>1. /\ \A b \in Blogs : source.content[b] = On("old")
        /\ data = source /\ disk = <<>> /\ proc.pc = "idle"
    BY DEF Init, Idle
  <1>2. 1..Current = {}
    BY <1>1, EmptySeq DEF Current
  <1> QED BY <1>1, <1>2 DEF Contents, Standing, FinishedIsTest

\* The step itself, on the work of its own run.
LEMMA OwnStands ==
  ASSUME Typed, Guarded, Contents, Standing, proc.pc # "idle",
         CorrectMultisite \/ SearchReplace \/ SearchReplaceBreaks \/ TestHttps \/ TestIndexing
  PROVE  Works(Current, run.done)'
         /\ (proc'.pc = "judge" => Works(Current, run.done + 1)')
         /\ (proc'.pc = "judge" /\ run.done = 9 /\ author'.data = Current => Final')
  <1>0. /\ Current \in Nat \ {0} /\ run.done \in 0..9 /\ disk[Current].done = run.done
        /\ site \in Site /\ data \in Data /\ files \in Config
    BY HereTyped DEF Typed, TypeOK, Located
  <1>1. /\ UNCHANGED <<site, source, disk, edits>> /\ Mine /\ run.done \in 3..9
        /\ files'.db = files.db /\ Present(data') = Present(data)
        /\ Current' = Current /\ run'.done = run.done
    BY MultisiteEffects, SearchEffects, HttpsEffects, IndexingEffects DEF Current
  <1>2. Works(Current, run.done)
    BY <1>0 DEF Standing
  <1>3. /\ author'.files = Current => author.files = Current
        /\ author'.data = Current => author.data = Current
        /\ author' = [files |-> Current, data |-> Current] =>
              author = [files |-> Current, data |-> Current]
    BY <1>0, <1>1, MineOnly
  <1>4. Covered(data') = Covered(data) /\ (Covered(data))' = Covered(data) /\ Present(data)' = Present(data)
        /\ Covered(data) \subseteq Present(data) /\ Present(data) \subseteq Blogs
    BY <1>0, <1>1, DataFields DEF Covered, Present
  <1>5. author'.files = Current => files'.db = "test"
    BY <1>1, <1>2, <1>3 DEF Works
  <1>6. run.done >= 6 /\ author' = [files |-> Current, data |-> Current] => ContentReplaced'
    <2> SUFFICES ASSUME run.done >= 6, author = [files |-> Current, data |-> Current],
                        ~ site.overlaps, NEW b \in Covered(data)
                 PROVE  data'.content[b].host = "new"
      BY <1>1, <1>3, <1>4 DEF ContentReplaced
    <2>1. data.content[b].host = "new" /\ b \in Blogs /\ data.content[b] \in Url
      BY <1>0, <1>2, <1>4, DataFields DEF Works, ContentReplaced
    <2>2. data'.content[b] \in {data.content[b], Upgraded[data.content[b]]}
      <3>1. CASE TestHttps
        BY <2>1, <3>1, HttpsEffects
      <3>2. CASE TestIndexing
        BY <3>2, IndexingEffects
      <3>3. CASE CorrectMultisite \/ SearchReplace \/ SearchReplaceBreaks
        <4>1. run.done \in {3, 4, 5}
          BY <3>3, MultisiteEffects, SearchEffects
        <4> QED BY <4>1
      <3> QED BY <3>1, <3>2, <3>3
    <2>3. Upgraded[data.content[b]].host = "new"
      BY <1>0, <2>1, UrlsTyped DEF Upgraded
    <2> QED BY <2>1, <2>2, <2>3
  <1>7. run.done >= 8 /\ author'.data = Current => ContentSecured'
    <2>1. CASE run.done >= 8
      <3>1. TestIndexing
        <4>1. CASE CorrectMultisite \/ SearchReplace \/ SearchReplaceBreaks \/ TestHttps
          <5>1. run.done \in {3, 4, 5, 6, 7}
            BY <4>1, MultisiteEffects, SearchEffects, HttpsEffects
          <5> QED BY <2>1, <5>1
        <4> QED BY <4>1
      <3>2. data'.content = data.content
        BY <3>1, IndexingEffects
      <3> QED BY <1>2, <1>3, <1>4, <2>1, <3>2 DEF Works, ContentSecured
    <2> QED BY <2>1
  <1>8. Works(Current, run.done)'
    BY <1>1, <1>5, <1>6, <1>7 DEF Works
  <1>9. ASSUME proc'.pc = "judge", run.done = 5,
               author' = [files |-> Current, data |-> Current]
        PROVE  ContentReplaced'
    <2>1. SearchReplace \/ SearchReplaceBreaks
      <3>1. CASE CorrectMultisite \/ TestHttps \/ TestIndexing
        <4>1. run.done \in {3, 4, 6, 7, 8, 9}
          BY <3>1, MultisiteEffects, HttpsEffects, IndexingEffects
        <4> QED BY <1>9, <4>1
      <3> QED BY <3>1
    <2>2. files.db = "test"
      BY <1>2, <1>3, <1>9 DEF Works
    <2>3. \A b \in Blogs :
            data'.content[b] = IF <<b, "content">> \in Rows(Covered(Seen))
                               THEN Replaced[data.content[b]] ELSE data.content[b]
      BY <1>9, <2>1, <2>2, SearchEffects
    <2>4. Seen = data
      BY <2>2 DEF Seen
    <2>5. SUFFICES ASSUME ~ site.overlaps, NEW b \in Covered(data)
                   PROVE  data'.content[b].host = "new"
      BY <1>1, <1>4 DEF ContentReplaced
    <2>6. data'.content[b] = Replaced[data.content[b]]
      BY <1>4, <2>3, <2>4 DEF Rows
    <2>7. /\ data.content[b] = On("old") \/ data.content[b].host = "new"
          /\ data.content[b] \in Url
      BY <1>0, <1>4, <2>5, DataFields DEF Contents
    <2>8. On("old").host = "old" /\ On("new").host = "new"
      BY DEF On
    <2> QED BY <2>5, <2>6, <2>7, <2>8 DEF Replaced
  <1>10. ASSUME proc'.pc = "judge", run.done = 7, author'.data = Current
         PROVE  ContentSecured'
    <2>1. TestHttps
      <3>1. CASE CorrectMultisite \/ SearchReplace \/ SearchReplaceBreaks \/ TestIndexing
        <4>1. run.done \in {3, 4, 5, 8, 9}
          BY <3>1, MultisiteEffects, SearchEffects, IndexingEffects
        <4> QED BY <1>10, <4>1
      <3> QED BY <3>1
    <2>2. data' = data /\ proc.pc = "writing" /\ Insecure(Seen, Present(data)) = {}
      BY <1>10, <2>1, HttpsEffects
    <2>3. Seen = data
      <3>1. StepHere = "enforce_test_https"
        BY <1>10, Here
      <3> QED BY <2>2, <3>1 DEF Guarded, Seen
    <2>4. \A b \in Present(data) : data.content[b] = Upgraded[data.content[b]]
      BY <2>2, <2>3 DEF Insecure
    <2>5. \A b \in Present(data) : data.content[b] \in Url
      BY <1>0, <1>4, DataFields
    <2>6. \A b \in Present(data) :
             data.content[b].host = "new" => Upgraded[data.content[b]] = Secured(data.content[b])
      BY <2>5 DEF Upgraded
    <2>7. \A b \in Present(data) : Secured(data.content[b]).https
      BY <1>0, <2>5, UrlsTyped
    <2> QED BY <1>4, <2>2, <2>4, <2>6, <2>7 DEF ContentSecured
  <1>11. ASSUME proc'.pc = "judge"
         PROVE  Works(Current, run.done + 1)'
    <2>1. run.done + 1 >= 6 /\ author' = [files |-> Current, data |-> Current] => ContentReplaced'
      BY <1>0, <1>6, <1>9, <1>11
    <2>2. run.done + 1 >= 8 /\ author'.data = Current => ContentSecured'
      BY <1>0, <1>7, <1>10, <1>11
    <2> QED BY <1>1, <1>5, <2>1, <2>2 DEF Works
  <1>12. ASSUME proc'.pc = "judge", run.done = 9
         PROVE  Final'
    <2>1. TestIndexing
      <3>1. CASE CorrectMultisite \/ SearchReplace \/ SearchReplaceBreaks \/ TestHttps
        <4>1. run.done \in {3, 4, 5, 6, 7}
          BY <3>1, MultisiteEffects, SearchEffects, HttpsEffects
        <4> QED BY <1>12, <4>1
      <3> QED BY <3>1
    <2>2. /\ data' = data /\ proc.pc = "writing" /\ run'.recovery.https = run.recovery.https
          /\ StillSecured /\ \A b \in Present(data) : Seen.public[b] = "0"
      BY <1>12, <2>1, IndexingEffects
    <2>3. Seen = data
      <3>1. StepHere = "disable_test_indexing"
        BY <1>12, Here
      <3> QED BY <2>2, <3>1 DEF Guarded, Seen
    <2> QED BY <1>4, <2>2, <2>3 DEF Final, StillSecured
  <1> QED BY <1>8, <1>11, <1>12

\* A run begins: its work is that of the run it resumes.
LEMMA BeginStands ==
  ASSUME Typed, Standing, FinishedIsTest, Execute \/ (\E r \in 1..Current : Resume(r))
  PROVE  Standing' /\ FinishedIsTest'
  <1>1. /\ UNCHANGED <<site, files, data>> /\ proc'.pc = "facing"
    BY DEF Execute, Resume, Begin, Idle
  <1>2. /\ author \in [files: 0..Current, data: 0..Current] /\ Current \in Nat
        /\ disk \in Seq(Manifest) /\ IsSeq(disk)
        /\ author = [files |-> author.files, data |-> author.data]
    BY LenProperties DEF Typed, TypeOK, Current, IsSeq
  <1>3. \A r, done, q : Works(r, done) /\ (author'.files = q => author.files = r)
                         /\ (author'.data = q => author.data = r)
                         /\ (author' = [files |-> q, data |-> q] => author = [files |-> r, data |-> r])
                         => Works(q, done)'
    BY <1>1 DEF Works, ContentReplaced, ContentSecured, Covered, Present
  <1>4. CASE Execute
    <2>1. disk' = Append(disk, Fresh) /\ author' = author
      BY <1>4 DEF Execute, Begin
    <2>2. /\ Current' = Current + 1 /\ disk'[Current + 1] = Fresh
          /\ \A i \in 1..Current : disk'[i] = disk[i]
      BY <1>2, <2>1, SeqGrows DEF Current
    <2>3. \A q, done : done = 0 => Works(q, done)'
      BY DEF Works
    <2>4. Fresh.done = 0 /\ Fresh.status = "RUNNING"
      BY DEF Fresh
    <2>5. \A i \in 1..Current : \A done : done = disk[i].done => Works(i, done)'
      BY <1>3, <2>1 DEF Standing
    <2>6. \A i \in 1..(Current + 1) : \A done : done = disk'[i].done => Works(i, done)'
      <3> TAKE i \in 1..(Current + 1)
      <3>1. CASE i \in 1..Current
        BY <2>2, <2>5, <3>1
      <3>2. CASE i = Current + 1
        BY <2>2, <2>3, <2>4, <3>2
      <3> QED BY <1>2, <3>1, <3>2
    <2>7. Standing'
      BY <1>1, <2>2, <2>6 DEF Standing
    <2>8. FinishedIsTest'
      <3> SUFFICES ASSUME NEW i \in 1..(Current + 1), disk'[i].status = "EXECUTED",
                          author' = [files |-> i, data |-> i]
                   PROVE  i \in 1..Current /\ disk[i].status = "EXECUTED" /\ author = [files |-> i, data |-> i]
        BY <1>1, <2>2 DEF FinishedIsTest, On, Covered, Present
      <3>1. author = [files |-> i, data |-> i] /\ author.files = i
        BY <2>1
      <3>2. i \in 1..Current
        BY <1>2, <3>1
      <3> QED BY <2>2, <3>1, <3>2
    <2> QED BY <2>7, <2>8
  <1>5. CASE \E r \in 1..Current : Resume(r)
    <2>1. PICK r \in 1..Current : Resume(r)
      BY <1>5
    <2> DEFINE m == [disk[r] EXCEPT !.status = "RUNNING", !.print = {}]
    <2>2. /\ disk' = Append(disk, m)
          /\ author' = [part \in DOMAIN author |->
                           IF author[part] = r THEN Current + 1 ELSE author[part]]
      BY <2>1 DEF Resume, Begin
    <2>3. m.done = disk[r].done /\ m.status = "RUNNING"
      BY <1>2 DEF Manifest
    <2> HIDE DEF m
    <2>4. /\ Current' = Current + 1 /\ disk'[Current + 1] = m
          /\ \A i \in 1..Current : disk'[i] = disk[i]
      BY <1>2, <2>2, SeqGrows DEF Current
    <2>5. /\ author'.files = IF author.files = r THEN Current + 1 ELSE author.files
          /\ author'.data = IF author.data = r THEN Current + 1 ELSE author.data
          /\ author' = [files |-> author'.files, data |-> author'.data]
      BY <1>2, <2>2
    <2>6. Works(r, disk[r].done)
      BY DEF Standing
    <2>7. /\ author'.files = Current + 1 => author.files = r
          /\ author'.data = Current + 1 => author.data = r
      BY <1>2, <2>5
    <2>8. author' = [files |-> Current + 1, data |-> Current + 1] => author = [files |-> r, data |-> r]
      BY <1>2, <2>7
    <2>9. \A q, done : q = Current + 1 /\ done = disk[r].done => Works(q, done)'
      BY <1>3, <2>6, <2>7, <2>8
    <2>10. \A i \in 1..Current : /\ author'.files = i => author.files = i
                                 /\ author'.data = i => author.data = i
      BY <1>2, <2>5
    <2>11. \A i \in 1..Current :
              author' = [files |-> i, data |-> i] => author = [files |-> i, data |-> i]
      BY <1>2, <2>10
    <2>12. \A i \in 1..Current : \A done : done = disk[i].done => Works(i, done)'
      BY <1>3, <2>10, <2>11 DEF Standing
    <2>13. \A i \in 1..(Current + 1) : \A done : done = disk'[i].done => Works(i, done)'
      <3> TAKE i \in 1..(Current + 1)
      <3>1. CASE i \in 1..Current
        BY <2>4, <2>12, <3>1
      <3>2. CASE i = Current + 1
        BY <2>3, <2>4, <2>9, <3>2
      <3> QED BY <1>2, <3>1, <3>2
    <2>14. Standing'
      BY <1>1, <2>4, <2>13 DEF Standing
    <2>15. FinishedIsTest'
      <3> SUFFICES ASSUME NEW i \in 1..(Current + 1), disk'[i].status = "EXECUTED",
                          author' = [files |-> i, data |-> i]
                   PROVE  i \in 1..Current /\ disk[i].status = "EXECUTED" /\ author = [files |-> i, data |-> i]
        BY <1>1, <2>4 DEF FinishedIsTest, On, Covered, Present
      <3>1. CASE i \in 1..Current
        BY <2>4, <2>11, <3>1
      <3>2. CASE i = Current + 1
        BY <2>3, <2>4, <3>2
      <3> QED BY <1>2, <3>1, <3>2
    <2> QED BY <2>14, <2>15
  <1> QED BY <1>4, <1>5

\* What other runs did, while a step or an edit goes on beside it.
LEMMA RestStands ==
  ASSUME Typed, Standing, FinishedIsTest, UNCHANGED <<site, disk>>,
         author' \in [files: Nat, data: Nat],
         \A r \in Nat \ {0} : r # Current \/ proc.pc = "idle" =>
            /\ author'.files = r => author.files = r /\ files' = files
            /\ author'.data = r => author.data = r /\ data' = data
  PROVE  /\ \A r \in 1..Current : r # Current \/ proc.pc = "idle" => Works(r, disk[r].done)'
         /\ FinishedIsTest'
  <1>1. /\ author \in [files: 0..Current, data: 0..Current] /\ Current \in Nat /\ Current' = Current
        /\ \A r \in 1..Current : disk[r].done \in 0..10 /\ Works(r, disk[r].done)
    BY LenProperties, ManifestFields DEF Typed, TypeOK, Current, Standing
  <1>2. \A r \in 1..Current : r # Current \/ proc.pc = "idle" =>
           /\ author'.files = r => author.files = r /\ files' = files
           /\ author'.data = r => author.data = r /\ data' = data
    BY <1>1
  <1>3. \A r \in 1..Current : r # Current \/ proc.pc = "idle" => Works(r, disk[r].done)'
    <2> TAKE r \in 1..Current
    <2> HAVE r # Current \/ proc.pc = "idle"
    <2> DEFINE done == disk[r].done
    <2>1. done \in 0..10 /\ Works(r, done) /\ r \in Nat \ {0}
      BY <1>1
    <2>2. PICK k : k = done
      OBVIOUS
    <2>3. Works(r, k)'
      BY <1>2, <2>1, <2>2, OthersStand
    <2>4. done' = k
      BY <2>2
    <2> QED BY <2>3, <2>4
  <1>4. FinishedIsTest'
    <2> SUFFICES ASSUME NEW r \in 1..Current, disk[r].status = "EXECUTED",
                        author' = [files |-> r, data |-> r]
                 PROVE  author = [files |-> r, data |-> r] /\ data' = data
      BY <1>1 DEF FinishedIsTest, On, Covered, Present
    <2>1. r # Current \/ proc.pc = "idle"
      BY DEF Typed, Located
    <2>2. author.files = r /\ author.data = r /\ data' = data
      BY <1>2, <2>1
    <2> QED BY <1>1, <2>2
  <1> QED BY <1>3, <1>4

LEMMA EditStands ==
  ASSUME Typed, Standing, FinishedIsTest, Edit
  PROVE  Standing' /\ FinishedIsTest'
  <1>1. author' = [author EXCEPT !.data = 0] /\ UNCHANGED <<site, files, disk, run, proc>>
    BY DEF Edit
  <1>2. /\ author \in [files: 0..Current, data: 0..Current] /\ Current \in Nat /\ Current' = Current
        /\ author'.files = author.files /\ author'.data = 0 /\ author' \in [files: Nat, data: Nat]
    BY <1>1, LenProperties DEF Typed, TypeOK, Current
  <1>3. FinishedIsTest'
    <2>1. \A r \in Nat \ {0} : /\ author'.files = r => author.files = r /\ files' = files
                              /\ author'.data = r => author.data = r /\ data' = data
      BY <1>1, <1>2
    <2> QED BY <1>1, <1>2, <2>1, RestStands
  <1>4. \A r, done : r # 0 /\ Works(r, done) => Works(r, done)'
    BY <1>1, <1>2 DEF Works
  <1>5. (\A r \in 1..Current : Works(r, disk[r].done))'
    BY <1>1, <1>2, <1>4 DEF Standing
  <1>6. proc.pc = "judge" => Works(Current, run.done + 1)'
    <2> SUFFICES ASSUME proc.pc = "judge"
                 PROVE  Works(Current, run.done + 1)'
      OBVIOUS
    <2>1. Current # 0 /\ Works(Current, run.done + 1)
      BY HereTyped DEF Standing
    <2>2. \A r, done : r = Current /\ done = run.done + 1 => Works(r, done)'
      BY <1>4, <2>1
    <2> QED BY <1>1, <1>2, <2>2
  <1>7. Standing'
    <2>1. author'.data # Current'  \/ proc.pc # "judge"
      BY <1>2, HereTyped
    <2> QED BY <1>1, <1>5, <1>6, <2>1 DEF Standing
  <1> QED BY <1>3, <1>7

\* A copy is the work of its run, whatever was there.
LEMMA CopiesStand ==
  ASSUME Typed, Standing, FinishedIsTest, CopyFiles \/ CopyDatabase \/ WriteTestDbConfig
  PROVE  Standing' /\ FinishedIsTest'
  <1>1. /\ proc.pc = "facing" /\ UNCHANGED <<site, source, disk, run>> /\ Go("judge")
        /\ StepHere \in {"copy_files", "copy_database", "write_test_db_config"}
    BY DEF CopyFiles, CopyDatabase, WriteTestDbConfig, Facing
  <1>2. /\ author \in [files: 0..Current, data: 0..Current] /\ Current \in Nat \ {0}
        /\ run.done \in {0, 1, 2} /\ disk[Current].done = run.done /\ Current' = Current
        /\ files \in Config
    BY <1>1, Here, HereTyped DEF Typed, TypeOK, Located, Current
  <1>3. \A r \in Nat \ {0} : r # Current =>
           /\ author'.files = r => author.files = r /\ files' = files
           /\ author'.data = r => author.data = r /\ data' = data
    <2>1. CASE CopyFiles
      BY <1>2, <2>1 DEF CopyFiles
    <2>2. CASE CopyDatabase
      BY <1>2, <2>2 DEF CopyDatabase
    <2>3. CASE WriteTestDbConfig
      BY <1>2, <2>3, MineOnly DEF WriteTestDbConfig
    <2> QED BY <2>1, <2>2, <2>3
  <1>4. author' \in [files: Nat, data: Nat]
    BY <1>2 DEF CopyFiles, CopyDatabase, WriteTestDbConfig, Mine
  <1>5. /\ \A r \in 1..Current : r # Current => Works(r, disk[r].done)'
        /\ FinishedIsTest'
    BY <1>1, <1>3, <1>4, RestStands
  <1>6. \A r, done : done \in {0, 1, 2} => Works(r, done)'
    BY DEF Works
  <1>7. Works(Current, disk[Current].done)'
    BY <1>1, <1>2, <1>6
  <1>8. (\A r \in 1..Current : Works(r, disk[r].done))'
    <2>1. \A r \in 1..Current : Works(r, disk[r].done)'
      <3> TAKE r \in 1..Current
      <3>1. CASE r # Current
        BY <1>5, <3>1
      <3>2. CASE r = Current
        <4>1. \A done : done = disk[r].done => Works(r, done)'
          BY <1>2, <1>6, <3>2
        <4> QED BY <1>1, <4>1
      <3> QED BY <3>1, <3>2
    <2> QED BY <1>1, <1>2, <2>1
  <1>9. Works(Current, run.done + 1)'
    <2>1. CASE WriteTestDbConfig
      <3>1. files'.db = "test"
        BY <1>2, <2>1 DEF WriteTestDbConfig, Config
      <3>2. \A r, done : done \in {0, 1, 2, 3} => Works(r, done)'
        BY <3>1 DEF Works
      <3> QED BY <1>1, <1>2, <3>2
    <2>2. CASE CopyFiles \/ CopyDatabase
      <3>1. run.done \in {0, 1}
        BY <1>1, <2>2, Here DEF CopyFiles, CopyDatabase, Facing
      <3> QED BY <1>1, <1>2, <1>6, <3>1
    <2> QED BY <2>1, <2>2
  <1> QED BY <1>1, <1>2, <1>5, <1>8, <1>9 DEF Standing

LEMMA StepsStand ==
  ASSUME Typed, Guarded, Contents, Standing, FinishedIsTest,
         CorrectMultisite \/ SearchReplace \/ SearchReplaceBreaks \/ TestHttps \/ TestIndexing
  PROVE  Standing' /\ FinishedIsTest'
  <1>1. /\ proc.pc # "idle" /\ UNCHANGED <<site, source, disk>> /\ Mine
        /\ run'.done = run.done /\ Current' = Current
    BY MultisiteEffects, SearchEffects, HttpsEffects, IndexingEffects DEF Current
  <1>2. /\ author \in [files: 0..Current, data: 0..Current] /\ Current \in Nat \ {0}
        /\ disk[Current].done = run.done
    BY <1>1, HereTyped DEF Typed, TypeOK, Located
  <1>3. author' \in [files: Nat, data: Nat]
    BY <1>1, <1>2 DEF Mine
  <1>4. \A r \in Nat \ {0} : r # Current =>
           /\ author'.files = r => author.files = r /\ files' = files
           /\ author'.data = r => author.data = r /\ data' = data
    BY <1>1, MineOnly
  <1>5. /\ \A r \in 1..Current : r # Current => Works(r, disk[r].done)'
        /\ FinishedIsTest'
    BY <1>1, <1>3, <1>4, RestStands
  <1>6. /\ Works(Current, run.done)'
        /\ proc'.pc = "judge" => Works(Current, run.done + 1)'
        /\ proc'.pc = "judge" /\ run.done = 9 /\ author'.data = Current => Final'
    BY <1>1, OwnStands
  <1>7. (\A r \in 1..Current : Works(r, disk[r].done))'
    <2>1. \A r \in 1..Current : Works(r, disk[r].done)'
      <3> TAKE r \in 1..Current
      <3>1. CASE r # Current
        BY <1>5, <3>1
      <3>2. CASE r = Current
        <4>1. /\ \A q, done : q = Current /\ done = run.done => Works(q, done)'
          BY <1>1, <1>6
        <4>2. \A done : done = disk[r].done => Works(r, done)'
          BY <1>2, <3>2, <4>1
        <4> QED BY <1>1, <4>2
      <3> QED BY <3>1, <3>2
    <2> QED BY <1>1, <2>1
  <1> QED BY <1>1, <1>5, <1>6, <1>7 DEF Standing

LEMMA EndsStand ==
  ASSUME Typed, Standing, FinishedIsTest,
         Fails \/ JudgeContinues \/ JudgeFinishes \/ JudgeStops \/ Crash
  PROVE  Standing' /\ FinishedIsTest'
  <1>1. /\ proc.pc # "idle" /\ UNCHANGED <<site, source, files, data, author>> /\ proc'.pc # "judge"
    BY GoTyped DEF Fails, JudgeContinues, JudgeFinishes, JudgeStops, Crash, target, Idle
  <1>2. PICK m \in Manifest :
            /\ disk' = disk \/ disk' = Saved(m)
            /\ m.done = run.done \/ (proc.pc = "judge" /\ m.done = run.done + 1)
            /\ m.status = "EXECUTED" => JudgeFinishes
    BY EndSaves
  <1>3. /\ Current \in 1..Current /\ disk \in Seq(Manifest) /\ run.done \in 0..9
        /\ disk[Current].done = run.done
    BY <1>1, HereTyped DEF Typed, TypeOK, Located
  <1>4. /\ Current' = Current
        /\ \A r \in 1..Current : disk'[r] = disk[r] \/ (r = Current /\ disk'[r] = m)
    BY <1>2, <1>3, ExceptSeq DEF Saved, Current
  <1>5. \A r, done : Works(r, done) => Works(r, done)'
    BY <1>1 DEF Works, ContentReplaced, ContentSecured, Covered, Present
  <1>6. Works(Current, m.done)
    BY <1>2, <1>3 DEF Standing
  <1>7. \A r \in 1..Current : Works(r, disk'[r].done)
    BY <1>4, <1>6 DEF Standing
  <1>8. (\A r \in 1..Current : Works(r, disk[r].done))'
    <2>1. \A r \in 1..Current : \A done : done = disk'[r].done => Works(r, done)'
      BY <1>5, <1>7
    <2> QED BY <1>4, <2>1
  <1>9. Standing'
    BY <1>1, <1>8 DEF Standing
  <1>10. FinishedIsTest'
    <2> SUFFICES ASSUME NEW r \in 1..Current, disk'[r].status = "EXECUTED",
                        author = [files |-> r, data |-> r], NEW b \in Present(data)
                 PROVE  /\ data.net.blogs[b] = [domain |-> "new", home |-> Secured(On("new")),
                                                siteurl |-> Secured(On("new"))]
                        /\ data.public[b] = "0"
                        /\ b \in Covered(data) /\ ~ site.overlaps => data.content[b] = Secured(On("new"))
      BY <1>1, <1>4 DEF FinishedIsTest, On, Secured, Covered, Present
    <2>1. CASE disk'[r] = disk[r]
      BY <2>1 DEF FinishedIsTest
    <2>2. CASE r = Current /\ disk'[r] = m
      <3>1. JudgeFinishes
        BY <1>2, <2>2
      <3>2. proc.pc = "judge" /\ run.done + 1 = 10
        BY <1>1, <3>1, CountedTyped, PlanSteps DEF JudgeFinishes
      <3>3. run.done = 9 /\ author.data = Current /\ author = [files |-> Current, data |-> Current]
        BY <1>3, <2>2, <3>2
      <3>4. Final /\ ContentReplaced /\ ContentSecured
        BY <3>2, <3>3 DEF Standing, Works
      <3>5. PICK p \in run.recovery.https : data.net = p.after
        BY <3>4 DEF Final
      <3>6. /\ site \in Site /\ data \in Data /\ p \in HttpsPlan
            /\ OnTest(p.before) /\ p.after = HttpsSnapshot(p.before)
        BY ManifestFields, RecoveryFields DEF Typed, TypeOK, Sound
      <3>7. p.before \in NetworkSnapshot
        BY <3>6 DEF HttpsPlan
      <3>8. /\ b \in DOMAIN p.before.blogs
            /\ data.net.blogs[b] =
                 [domain |-> p.before.blogs[b].domain, home |-> Secured(p.before.blogs[b].home),
                  siteurl |-> Secured(p.before.blogs[b].siteurl)]
        BY <3>5, <3>6, <3>7, SecuringTyped DEF Present
      <3>9. /\ p.before.blogs[b].domain = "new" /\ p.before.blogs[b].home.host = "new"
            /\ p.before.blogs[b].siteurl.host = "new"
            /\ p.before.blogs[b].home \in Url /\ p.before.blogs[b].siteurl \in Url
        BY <3>6, <3>7, <3>8, SnapshotFields DEF OnTest, Structural
      <3>10. \A url \in Url : url.host = "new" /\ url.https => url = [host |-> "new", https |-> TRUE]
        BY DEF Url
      <3>11. \A url \in Url : url.host = "new" =>
               Secured(url) \in Url /\ Secured(url).host = "new" /\ Secured(url).https
        BY <3>6, UrlsTyped
      <3>12. On("new") \in Url /\ On("new").host = "new"
        BY <3>6 DEF On, Url, Host, Site
      <3>13. \A url \in Url : url.host = "new" => Secured(url) = [host |-> "new", https |-> TRUE]
        BY <3>10, <3>11
      <3>14. Secured(On("new")) = [host |-> "new", https |-> TRUE]
        BY <3>13, <3>12
      <3>15. b \in Covered(data) /\ ~ site.overlaps => data.content[b] = Secured(On("new"))
        <4>1. b \in Blogs /\ data.content[b] \in Url
          BY <3>6, DataFields
        <4>2. \A url \in Url : url.host = "new" /\ url.https => url = [host |-> "new", https |-> TRUE]
          BY DEF Url
        <4> QED BY <3>4, <3>14, <4>1, <4>2 DEF ContentReplaced, ContentSecured
      <3> QED BY <3>4, <3>8, <3>9, <3>13, <3>14, <3>15 DEF Final
    <2> QED BY <1>4, <2>1, <2>2
  <1> QED BY <1>9, <1>10

\* The database of a finished run is a TEST copy as long as its files and its data are the
\* work of that run: the last step finds the URLs of a plan made for test URLs, and no step
\* after the search-replace and after the enforcement undoes what these established.
THEOREM FinishedCopyIsTest == Spec => []FinishedIsTest
  <1> DEFINE Inv == Shapes /\ Guarded /\ Typed /\ Contents /\ Standing /\ FinishedIsTest
  <1>1. Init => Inv
    BY InitShapes, InitTyped, InitStands
  <1>2. Inv /\ [Next]_vars => Inv'
    <2> SUFFICES ASSUME Inv, [Next]_vars
                 PROVE  Inv'
      OBVIOUS
    <2>1. Shapes' /\ Guarded' /\ Typed' /\ Contents'
      BY NextShapes, NextTyped, ContentsStep
    <2>2. CASE UNCHANGED vars
      <3>1. \A r, done : Works(r, done)' = Works(r, done)
        BY <2>2 DEF vars, target, Works, ContentReplaced, ContentSecured, Covered, Present
      <3>2. Standing'
        BY <2>2, <3>1 DEF vars, target, Standing, Final, Current, Present
      <3>3. FinishedIsTest'
        BY <2>2 DEF vars, target, FinishedIsTest, Current, Covered, Present, On
      <3> QED BY <2>1, <3>2, <3>3
    <2>3. CASE Next
      <3>1. Standing' /\ FinishedIsTest'
        BY <2>3, BeginStands, EditStands, CopiesStand, StepsStand, EndsStand DEF Next
      <3> QED BY <2>1, <3>1
    <2> QED BY <2>2, <2>3
  <1>3. Inv => FinishedIsTest
    OBVIOUS
  <1> QED BY <1>1, <1>2, <1>3, PTL DEF Spec

-----------------------------------------------------------------------------
(***************************************************************************)
(* A resume is accepted.                                                   *)
(***************************************************************************)

\* What production has at first.
From == IF site.network THEN "old" ELSE "new"
SourceIs ==
    /\ site.subdomains => site.network
    /\ source.net.domain = From
    /\ \A b \in Present(source) :
          source.net.blogs[b] = [domain |-> From, home |-> On("old"), siteurl |-> On("old")]

\* The plans and marks that d completed steps need, and those they cannot have.
Ready(rec, d) ==
    /\ rec.multisite # {} => site.network /\ d >= 3
    /\ rec.https # {} => d >= 6
    /\ rec.indexing # {} => d >= 8
    /\ site.network /\ d >= 4 => rec.multisite # {}
    /\ site.network /\ d >= 5 => "multisite" \in rec.validated
    /\ d >= 7 => rec.https # {}
    /\ d >= 8 => "test_https" \in rec.validated
    /\ d >= 9 => rec.indexing # {}
    /\ \A i \in rec.indexing : i.https \in rec.https

\* What d steps, the last of which may be repeated, have made of files and data.
OnEither(net) ==
    \A b \in DOMAIN net.blogs :
        /\ net.blogs[b].domain = "new"
        /\ {net.blogs[b].home, net.blogs[b].siteurl} \subseteq {On("old"), On("new")}
FilesKept(f, d) ==
    /\ d <= 3 => f.domain = "old"
    /\ d >= 5 /\ site.network => f.domain = "new"
DataKept(x, rec, d) ==
    /\ d <= 3 => x = source
    /\ d \in {4, 5} /\ ~ site.network => OnEither(x.net)
    /\ \A p \in rec.multisite :
          /\ p.before = source.net /\ p.config = "old"
          /\ d = 4 => Replays(x.net, p)
          /\ d \in {5, 6} => x.net = p.after
OwnKept(f, x, rec, d) ==
    /\ d = 6 => OnTest(x.net)
    /\ \A p \in rec.https :
          /\ p.config = NetworkConfig(f) /\ Replays(x.net, p)
          /\ d >= 8 => x.net = p.after
    /\ \A i \in rec.indexing :
          /\ DOMAIN i.before = Present(x)
          /\ \A b \in Present(x) : x.public[b] \in {i.before[b], "0"}
Fits(a, f, x, r, rec, d) ==
    /\ a.files = r => FilesKept(f, d)
    /\ a.data = r => DataKept(x, rec, d)
    /\ a.files = r /\ a.data = r => OwnKept(f, x, rec, d)

\* Whatever becomes of the manifest in memory, the one on disk fits as well.
Extends(m, rec) ==
    /\ m.multisite \subseteq rec.multisite /\ m.https \subseteq rec.https
    /\ m.indexing \subseteq rec.indexing

Lasting ==
    \A r \in 1..Current :
        /\ Ready(disk[r].recovery, disk[r].done)
        /\ r # Current \/ proc.pc = "idle" =>
              Fits(author, files, data, r, disk[r].recovery, disk[r].done)

\* The run under way, where its step is, what its step has done.
Holds(a, f, x, rec, d) == Ready(rec, d) /\ Fits(a, f, x, Current, rec, d)
AtHand ==
    /\ Extends(disk[Current].recovery, run.recovery)
    /\ Holds(author, files, data, run.recovery, run.done)
    /\ proc.pc = "judge" => Holds(author, files, data, run.recovery, run.done + 1)
InHttps(x, b) ==
    /\ x.net.blogs[b].home = Upgraded[x.net.blogs[b].home]
    /\ x.net.blogs[b].siteurl = Upgraded[x.net.blogs[b].siteurl]
    /\ x.content[b] = Upgraded[x.content[b]]
Correcting(a, f, x, q, rec) ==
    /\ q.pc = "writing" /\ a.data = Current =>
          \A p \in rec.multisite : Pending(x.net, p) \subseteq q.todo
    /\ q.pc \in {"checking", "validating"} /\ a.data = Current =>
          \A p \in rec.multisite : x.net = p.after
    /\ q.pc = "validating" /\ a.files = Current => f.domain = "new"
Enforcing(a, x, q) ==
    a.files = Current /\ a.data = Current =>
        /\ q.pc = "writing" => \A b \in Present(x) \ q.blogs : InHttps(x, b)
        /\ q.pc = "replacing" => \A b \in Present(x) \ (q.blogs \cup q.at) : InHttps(x, b)
Disabling(a, x, q) ==
    a.files = Current /\ a.data = Current /\ q.pc \in {"writing", "replacing"} =>
        q.blogs \subseteq Present(x)
InStep(a, f, x, q, rec, d) ==
    /\ q.pc \in {"checking", "validating"} => d = 4 /\ site.network
    /\ d = 4 => Correcting(a, f, x, q, rec)
    /\ d = 7 => Enforcing(a, x, q)
    /\ d = 9 => Disabling(a, x, q)
Replaying ==
    /\ SourceIs
    /\ ~ site.overlaps =>
          /\ Lasting
          /\ proc.pc # "idle" =>
                AtHand /\ InStep(author, files, data, proc, run.recovery, run.done)

\* The same files and data, and no more plans, serve another run that has their authorship.
LEMMA FitsOn ==
  ASSUME NEW a, NEW b, NEW f, NEW g, NEW x, NEW y, NEW r, NEW s, NEW rec, NEW few, NEW d,
         Fits(a, f, x, r, rec, d), Extends(few, rec),
         b.files = s => a.files = r /\ g = f, b.data = s => a.data = r /\ y = x
  PROVE  Fits(b, g, y, s, few, d)
  BY DEF Fits, FilesKept, DataKept, OwnKept, Extends

\* What is kept is a matter of values.
LEMMA KeptStays ==
  ASSUME UNCHANGED <<site, source>>
  PROVE  /\ \A rec, d : Ready(rec, d)' <=> Ready(rec, d)
         /\ \A a, f, x, r, rec, d : Fits(a, f, x, r, rec, d)' <=> Fits(a, f, x, r, rec, d)
         /\ \A m, rec : Extends(m, rec)' <=> Extends(m, rec)
         /\ \A x, b : InHttps(x, b)' <=> InHttps(x, b)
  <1>1. /\ \A h : On(h)' = On(h)
        /\ \A f : NetworkConfig(f)' = NetworkConfig(f)
        /\ Upgraded' = Upgraded
    BY DEF On, NetworkConfig, Upgraded, Secured
  <1>9. /\ \A n : OnEither(n)' <=> OnEither(n)
        /\ \A n : OnTest(n)' <=> OnTest(n)
        /\ \A n, p : Replays(n, p)' <=> Replays(n, p)
        /\ \A x : Present(x)' = Present(x)
    BY <1>1 DEF OnEither, OnTest, Structural, Replays, Present
  <1>2. \A rec, d : Ready(rec, d)' <=> Ready(rec, d)
    BY DEF Ready
  <1>3. \A f, d : FilesKept(f, d)' <=> FilesKept(f, d)
    BY DEF FilesKept
  <1>4. \A x, rec, d : DataKept(x, rec, d)' <=> DataKept(x, rec, d)
    BY <1>9 DEF DataKept
  <1>5. \A f, x, rec, d : OwnKept(f, x, rec, d)' <=> OwnKept(f, x, rec, d)
    BY <1>1, <1>9 DEF OwnKept
  <1>6. \A a, f, x, r, rec, d : Fits(a, f, x, r, rec, d)' <=> Fits(a, f, x, r, rec, d)
    BY <1>3, <1>4, <1>5 DEF Fits
  <1>7. \A m, rec : Extends(m, rec)' <=> Extends(m, rec)
    BY DEF Extends
  <1>8. \A x, b : InHttps(x, b)' <=> InHttps(x, b)
    BY <1>1 DEF InHttps
  <1> QED BY <1>2, <1>6, <1>7, <1>8

LEMMA StepKeptStays ==
  ASSUME UNCHANGED <<site, source>>, Current' = Current
  PROVE  /\ \A a, f, x, rec, d : Holds(a, f, x, rec, d)' <=> Holds(a, f, x, rec, d)
         /\ \A a, f, x, q, rec, d : InStep(a, f, x, q, rec, d)' <=> InStep(a, f, x, q, rec, d)
  <1>1. \A a, f, x, rec, d : Holds(a, f, x, rec, d)' <=> Holds(a, f, x, rec, d)
    BY KeptStays DEF Holds
  <1>2. \A a, f, x, q, rec : Correcting(a, f, x, q, rec)' <=> Correcting(a, f, x, q, rec)
    BY DEF Correcting, Pending, Cells, Cell
  <1>3. \A a, x, q : Enforcing(a, x, q)' <=> Enforcing(a, x, q)
    BY KeptStays DEF Enforcing, Present
  <1>4. \A a, x, q : Disabling(a, x, q)' <=> Disabling(a, x, q)
    BY DEF Disabling, Present
  <1>5. \A a, f, x, q, rec, d : InStep(a, f, x, q, rec, d)' <=> InStep(a, f, x, q, rec, d)
    BY <1>2, <1>3, <1>4 DEF InStep
  <1> QED BY <1>1, <1>5

\* Snapshots.
LEMMA SameSnapshot ==
  ASSUME NEW m \in NetworkSnapshot, NEW n \in NetworkSnapshot, m.domain = n.domain,
         DOMAIN m.blogs = DOMAIN n.blogs, \A b \in DOMAIN m.blogs : m.blogs[b] = n.blogs[b]
  PROVE  m = n
  <1>1. /\ m = [domain |-> m.domain, blogs |-> m.blogs] /\ n = [domain |-> n.domain, blogs |-> n.blogs]
    BY DEF NetworkSnapshot
  <1>2. m.blogs = [b \in DOMAIN m.blogs |-> m.blogs[b]] /\ n.blogs = [b \in DOMAIN n.blogs |-> n.blogs[b]]
    BY SnapshotFields
  <1>3. m.blogs = n.blogs
    BY <1>2
  <1> QED BY <1>1, <1>3

LEMMA SnapshotRows ==
  ASSUME NEW n \in NetworkSnapshot, NEW b \in DOMAIN n.blogs
  PROVE  n.blogs[b] = [domain |-> n.blogs[b].domain, home |-> n.blogs[b].home,
                       siteurl |-> n.blogs[b].siteurl]
  <1>1. n.blogs \in [DOMAIN n.blogs -> BlogRow]
    BY SnapshotFields
  <1>2. n.blogs[b] \in BlogRow
    BY <1>1
  <1> QED BY <1>2 DEF BlogRow

LEMMA ReplaysFields ==
  ASSUME NEW net, NEW p
  PROVE  Replays(net, p) <=>
            /\ DOMAIN net.blogs = DOMAIN p.before.blogs
            /\ net.domain = p.before.domain \/ net.domain = p.after.domain
            /\ \A b \in DOMAIN net.blogs :
                  /\ \/ net.blogs[b].domain = p.before.blogs[b].domain
                     \/ net.blogs[b].domain = p.after.blogs[b].domain
                  /\ \/ net.blogs[b].home = p.before.blogs[b].home
                     \/ net.blogs[b].home = p.after.blogs[b].home
                  /\ \/ net.blogs[b].siteurl = p.before.blogs[b].siteurl
                     \/ net.blogs[b].siteurl = p.after.blogs[b].siteurl
  BY DEF Replays

\* A statement leaves the value before or after, and all of them leave those after.
LEMMA UpdatedReplays ==
  ASSUME NEW net \in NetworkSnapshot, NEW p \in MultisitePlan, NEW cells, Replays(net, p),
         cells \subseteq Cells(p.before), DOMAIN p.after.blogs = DOMAIN p.before.blogs
  PROVE  /\ Replays(Updated(net, p, cells), p)
         /\ Pending(net, p) \subseteq cells => Updated(net, p, cells) = p.after
  <1> DEFINE update(c) ==
                IF c \in cells THEN Conditional(Cell(net, c), Cell(p.before, c), Cell(p.after, c))
                ELSE Cell(net, c)
             u == Updated(net, p, cells)
  <1>1. p.before \in NetworkSnapshot /\ p.after \in NetworkSnapshot /\ u \in NetworkSnapshot
    BY UpdatedTyped DEF MultisitePlan
  <1>2. /\ u.domain = update(<<0, "domain">>)
        /\ DOMAIN u.blogs = DOMAIN net.blogs
        /\ \A b \in DOMAIN net.blogs :
              /\ u.blogs[b].domain = update(<<b, "domain">>)
              /\ u.blogs[b].home = update(<<b, "home">>)
              /\ u.blogs[b].siteurl = update(<<b, "siteurl">>)
    BY DEF Updated
  <1> HIDE DEF u
  <1>3. /\ DOMAIN net.blogs = DOMAIN p.before.blogs /\ DOMAIN p.after.blogs = DOMAIN net.blogs
        /\ \A b \in DOMAIN net.blogs : b # 0
    BY ReplaysFields, SnapshotFields, BlogsAssumption
  <1>4. \A n : /\ Cell(n, <<0, "domain">>) = n.domain
               /\ \A b : b # 0 => /\ Cell(n, <<b, "domain">>) = n.blogs[b].domain
                                  /\ Cell(n, <<b, "home">>) = n.blogs[b].home
                                  /\ Cell(n, <<b, "siteurl">>) = n.blogs[b].siteurl
    BY DEF Cell
  <1>5. \A c : Cell(net, c) = Cell(p.before, c) \/ Cell(net, c) = Cell(p.after, c) =>
               update(c) = Cell(p.after, c) \/ (update(c) = Cell(net, c) /\ c \notin cells)
    BY DEF Conditional
  <1> HIDE DEF update
  <1>6. /\ Cell(net, <<0, "domain">>) = Cell(p.before, <<0, "domain">>)
           \/ Cell(net, <<0, "domain">>) = Cell(p.after, <<0, "domain">>)
        /\ \A b \in DOMAIN net.blogs :
             /\ Cell(net, <<b, "domain">>) = Cell(p.before, <<b, "domain">>)
                \/ Cell(net, <<b, "domain">>) = Cell(p.after, <<b, "domain">>)
             /\ Cell(net, <<b, "home">>) = Cell(p.before, <<b, "home">>)
                \/ Cell(net, <<b, "home">>) = Cell(p.after, <<b, "home">>)
             /\ Cell(net, <<b, "siteurl">>) = Cell(p.before, <<b, "siteurl">>)
                \/ Cell(net, <<b, "siteurl">>) = Cell(p.after, <<b, "siteurl">>)
    <2>1. /\ net.domain = p.before.domain \/ net.domain = p.after.domain
          /\ \A b \in DOMAIN net.blogs :
                /\ \/ net.blogs[b].domain = p.before.blogs[b].domain
                   \/ net.blogs[b].domain = p.after.blogs[b].domain
                /\ \/ net.blogs[b].home = p.before.blogs[b].home
                   \/ net.blogs[b].home = p.after.blogs[b].home
                /\ \/ net.blogs[b].siteurl = p.before.blogs[b].siteurl
                   \/ net.blogs[b].siteurl = p.after.blogs[b].siteurl
      BY ReplaysFields
    <2>2. \A b \in DOMAIN net.blogs : \A n \in {net, p.before, p.after} :
             /\ Cell(n, <<b, "domain">>) = n.blogs[b].domain
             /\ Cell(n, <<b, "home">>) = n.blogs[b].home
             /\ Cell(n, <<b, "siteurl">>) = n.blogs[b].siteurl
      BY <1>3, <1>4
    <2> QED BY <1>4, <2>1, <2>2
  <1>7. /\ u.domain = p.after.domain \/ (u.domain = net.domain /\ <<0, "domain">> \notin cells)
        /\ \A b \in DOMAIN net.blogs :
             /\ \/ u.blogs[b].domain = p.after.blogs[b].domain
                \/ u.blogs[b].domain = net.blogs[b].domain /\ <<b, "domain">> \notin cells
             /\ \/ u.blogs[b].home = p.after.blogs[b].home
                \/ u.blogs[b].home = net.blogs[b].home /\ <<b, "home">> \notin cells
             /\ \/ u.blogs[b].siteurl = p.after.blogs[b].siteurl
                \/ u.blogs[b].siteurl = net.blogs[b].siteurl /\ <<b, "siteurl">> \notin cells
    BY <1>2, <1>3, <1>4, <1>5, <1>6
  <1>8. Replays(u, p)
    BY <1>2, <1>3, <1>7, ReplaysFields
  <1>9. ASSUME Pending(net, p) \subseteq cells
        PROVE  u = p.after
    <2>1. \A c \in Cells(net) : c \notin cells => Cell(net, c) = Cell(p.after, c)
      BY <1>9 DEF Pending
    <2>2. /\ <<0, "domain">> \in Cells(net)
          /\ \A b \in DOMAIN net.blogs : /\ <<b, "domain">> \in Cells(net)
                                          /\ <<b, "home">> \in Cells(net)
                                          /\ <<b, "siteurl">> \in Cells(net)
      BY DEF Cells
    <2>3. /\ u.domain = p.after.domain
          /\ \A b \in DOMAIN net.blogs : /\ u.blogs[b].domain = p.after.blogs[b].domain
                                          /\ u.blogs[b].home = p.after.blogs[b].home
                                          /\ u.blogs[b].siteurl = p.after.blogs[b].siteurl
      <3>1. <<0, "domain">> \notin cells => net.domain = p.after.domain
        BY <1>4, <2>1, <2>2
      <3>2. \A b \in DOMAIN net.blogs :
               /\ <<b, "domain">> \notin cells => net.blogs[b].domain = p.after.blogs[b].domain
               /\ <<b, "home">> \notin cells => net.blogs[b].home = p.after.blogs[b].home
               /\ <<b, "siteurl">> \notin cells => net.blogs[b].siteurl = p.after.blogs[b].siteurl
        <4> TAKE b \in DOMAIN net.blogs
        <4>1. /\ <<b, "domain">> \notin cells => Cell(net, <<b, "domain">>) = Cell(p.after, <<b, "domain">>)
              /\ <<b, "home">> \notin cells => Cell(net, <<b, "home">>) = Cell(p.after, <<b, "home">>)
              /\ <<b, "siteurl">> \notin cells => Cell(net, <<b, "siteurl">>) = Cell(p.after, <<b, "siteurl">>)
          BY <2>1, <2>2
        <4>2. b # 0
          BY <1>3
        <4>3. \A n \in {net, p.after} : /\ Cell(n, <<b, "domain">>) = n.blogs[b].domain
                                        /\ Cell(n, <<b, "home">>) = n.blogs[b].home
                                        /\ Cell(n, <<b, "siteurl">>) = n.blogs[b].siteurl
          BY <1>4, <4>2
        <4> QED BY <4>1, <4>3
      <3> QED BY <1>7, <3>1, <3>2
    <2>4. \A b \in DOMAIN u.blogs : u.blogs[b] = p.after.blogs[b]
      BY <1>1, <1>2, <1>3, <2>3, SnapshotRows
    <2> QED BY <1>1, <1>2, <1>3, <2>3, <2>4, SameSnapshot
  <1> QED BY <1>8, <1>9 DEF u

\* The first plan is made of what was copied.
LEMMA SourceTransforms ==
  ASSUME Typed, SourceIs, site.network, ~ site.overlaps
  PROVE  Transformable("old", source.net)
  BY DEF Typed, SourceIs, From, Transformable, Present

\* A network on its URLs is left alone by a search-replace.
LEMMA ReplacedNetwork ==
  ASSUME Typed, ~ site.overlaps, NEW x \in Data, NEW n \in NetworkSnapshot, NEW rows,
         x.net = Transform(n)
  PROVE  Rewritten(x, Replaced, rows).net = x.net
  <1>1. site \in Site /\ Replaced \in [Url -> Url] /\ On("new") \in Url
    BY UrlsTyped DEF Typed, TypeOK, Host
  <1>2. Replaced[On("new")] = On("new")
    BY <1>1 DEF Replaced, On
  <1> DEFINE e == Rewritten(x, Replaced, rows)
  <1>3. /\ e \in Data /\ Present(e) = Present(x) /\ e.net.domain = x.net.domain
        /\ \A b \in Present(x) :
              /\ e.net.blogs[b].domain = x.net.blogs[b].domain
              /\ e.net.blogs[b].home = IF <<b, "home">> \in rows
                    THEN Replaced[x.net.blogs[b].home] ELSE x.net.blogs[b].home
              /\ e.net.blogs[b].siteurl = IF <<b, "siteurl">> \in rows
                    THEN Replaced[x.net.blogs[b].siteurl] ELSE x.net.blogs[b].siteurl
    BY <1>1, RewrittenTyped
  <1> HIDE DEF e
  <1>4. \A b \in Present(x) :
           x.net.blogs[b].home = On("new") /\ x.net.blogs[b].siteurl = On("new")
    BY <1>1, TransformTyped DEF Present
  <1>5. x.net \in NetworkSnapshot /\ e.net \in NetworkSnapshot
    BY <1>3, DataFields
  <1>6. \A b \in Present(x) : e.net.blogs[b] = x.net.blogs[b]
    <2> TAKE b \in Present(x)
    <2>1. /\ e.net.blogs[b].domain = x.net.blogs[b].domain /\ e.net.blogs[b].home = x.net.blogs[b].home
          /\ e.net.blogs[b].siteurl = x.net.blogs[b].siteurl
      BY <1>2, <1>3, <1>4
    <2>2. b \in DOMAIN e.net.blogs /\ b \in DOMAIN x.net.blogs
      BY <1>3 DEF Present
    <2>3. PICK m : m = e.net
      OBVIOUS
    <2>4. e.net.blogs[b] = [domain |-> e.net.blogs[b].domain, home |-> e.net.blogs[b].home,
                            siteurl |-> e.net.blogs[b].siteurl]
      BY <1>5, <2>2, <2>3, SnapshotRows
    <2>5. x.net.blogs[b] = [domain |-> x.net.blogs[b].domain, home |-> x.net.blogs[b].home,
                            siteurl |-> x.net.blogs[b].siteurl]
      BY <1>5, <2>2, SnapshotRows
    <2> QED BY <2>1, <2>4, <2>5
  <1> QED BY <1>3, <1>5, <1>6, SameSnapshot DEF e, Present

\* On a single site it leaves URLs of the two hosts, and when complete those of the new one.
LEMMA ReplacedSite ==
  ASSUME Typed, ~ site.overlaps, NEW x \in Data, OnEither(x.net), NEW rows
  PROVE  /\ OnEither(Rewritten(x, Replaced, rows).net)
         /\ Rows(Present(x)) \subseteq rows => OnTest(Rewritten(x, Replaced, rows).net)
  <1>1. site \in Site /\ Replaced \in [Url -> Url] /\ On("new") \in Url /\ On("old") \in Url
    BY UrlsTyped DEF Typed, TypeOK, Host
  <1>2. /\ Replaced[On("new")] = On("new") /\ Replaced[On("old")] = On("new")
        /\ On("new").host = "new"
    BY <1>1 DEF Replaced, On
  <1> DEFINE e == Rewritten(x, Replaced, rows)
  <1>3. /\ e \in Data /\ Present(e) = Present(x)
        /\ \A b \in Present(x) :
              /\ e.net.blogs[b].domain = x.net.blogs[b].domain
              /\ e.net.blogs[b].home = IF <<b, "home">> \in rows
                    THEN Replaced[x.net.blogs[b].home] ELSE x.net.blogs[b].home
              /\ e.net.blogs[b].siteurl = IF <<b, "siteurl">> \in rows
                    THEN Replaced[x.net.blogs[b].siteurl] ELSE x.net.blogs[b].siteurl
    BY <1>1, RewrittenTyped
  <1> HIDE DEF e
  <1>4. \A b \in Present(x) :
           /\ x.net.blogs[b].domain = "new"
           /\ x.net.blogs[b].home = On("old") \/ x.net.blogs[b].home = On("new")
           /\ x.net.blogs[b].siteurl = On("old") \/ x.net.blogs[b].siteurl = On("new")
    BY DEF OnEither, Present
  <1>5. OnEither(e.net)
    BY <1>2, <1>3, <1>4 DEF OnEither, Present
  <1>6. ASSUME Rows(Present(x)) \subseteq rows
        PROVE  OnTest(e.net)
    <2>1. \A b \in Present(x) : <<b, "home">> \in rows /\ <<b, "siteurl">> \in rows
      BY <1>6 DEF Rows
    <2>2. \A b \in Present(e) : /\ e.net.blogs[b].domain = "new"
                                /\ e.net.blogs[b].home = On("new") /\ e.net.blogs[b].siteurl = On("new")
      BY <1>2, <1>3, <1>4, <2>1
    <2> QED BY <1>2, <2>2 DEF OnTest, Structural, Present
  <1> QED BY <1>5, <1>6 DEF e

LEMMA Upgrades ==
  ASSUME site \in Site, NEW url \in Url, url.host = "new"
  PROVE  /\ Upgraded[url] = Secured(url) /\ Secured(url) \in Url /\ Secured(url).host = "new"
         /\ Upgraded[Secured(url)] = Secured(url) /\ Secured(Secured(url)) = Secured(url)
         /\ url = Upgraded[url] => Secured(url) = url
  <1>1. Secured(url) \in Url /\ Secured(url).host = "new" /\ Secured(url).https
    BY UrlsTyped
  <1>2. Upgraded[url] = Secured(url) /\ Upgraded[Secured(url)] = Secured(Secured(url))
    BY <1>1 DEF Upgraded
  <1>3. Secured(Secured(url)) = Secured(url)
    BY <1>1 DEF Secured, Url
  <1> QED BY <1>1, <1>2, <1>3

LEMMA UpgradesOnce ==
  ASSUME site \in Site, NEW url \in Url
  PROVE  Upgraded[url] \in Url /\ Upgraded[Upgraded[url]] = Upgraded[url]
  <1>1. CASE url.host = "new"
    BY <1>1, Upgrades
  <1>2. CASE url.host # "new"
    BY <1>2 DEF Upgraded
  <1> QED BY <1>1, <1>2

\* What a plan for HTTPS says of the URLs it replaces.
Planned(n, p) ==
    /\ p.after \in NetworkSnapshot /\ DOMAIN n.blogs = DOMAIN p.after.blogs
    /\ n.domain = p.before.domain /\ n.domain = p.after.domain
    /\ \A b \in DOMAIN n.blogs :
          /\ n.blogs[b].domain = p.before.blogs[b].domain
          /\ n.blogs[b].domain = p.after.blogs[b].domain
          /\ p.before.blogs[b].home \in Url /\ p.before.blogs[b].home.host = "new"
          /\ p.before.blogs[b].siteurl \in Url /\ p.before.blogs[b].siteurl.host = "new"
          /\ p.after.blogs[b].home = Secured(p.before.blogs[b].home)
          /\ p.after.blogs[b].siteurl = Secured(p.before.blogs[b].siteurl)
          /\ n.blogs[b].home \in {p.before.blogs[b].home, p.after.blogs[b].home}
          /\ n.blogs[b].siteurl \in {p.before.blogs[b].siteurl, p.after.blogs[b].siteurl}

LEMMA HttpsPlanned ==
  ASSUME site \in Site, NEW n \in NetworkSnapshot, NEW p, p.before \in NetworkSnapshot,
         OnTest(p.before), p.after = HttpsSnapshot(p.before), Replays(n, p)
  PROVE  Planned(n, p)
  <1>1. /\ p.after \in NetworkSnapshot /\ p.after.domain = p.before.domain
        /\ DOMAIN p.after.blogs = DOMAIN p.before.blogs
        /\ \A b \in DOMAIN p.before.blogs :
              p.after.blogs[b] = [domain |-> p.before.blogs[b].domain,
                                  home |-> Secured(p.before.blogs[b].home),
                                  siteurl |-> Secured(p.before.blogs[b].siteurl)]
    BY SecuringTyped
  <1>2. \A b \in DOMAIN p.before.blogs :
           /\ p.before.blogs[b].home \in Url /\ p.before.blogs[b].home.host = "new"
           /\ p.before.blogs[b].siteurl \in Url /\ p.before.blogs[b].siteurl.host = "new"
    BY SnapshotFields DEF OnTest, Structural
  <1>3. /\ DOMAIN n.blogs = DOMAIN p.before.blogs
        /\ n.domain = p.before.domain \/ n.domain = p.after.domain
        /\ \A b \in DOMAIN n.blogs :
              /\ \/ n.blogs[b].domain = p.before.blogs[b].domain
                 \/ n.blogs[b].domain = p.after.blogs[b].domain
              /\ \/ n.blogs[b].home = p.before.blogs[b].home
                 \/ n.blogs[b].home = p.after.blogs[b].home
              /\ \/ n.blogs[b].siteurl = p.before.blogs[b].siteurl
                 \/ n.blogs[b].siteurl = p.after.blogs[b].siteurl
    BY ReplaysFields
  <1>4. \A b \in DOMAIN n.blogs :
           /\ n.blogs[b].domain = p.before.blogs[b].domain
           /\ n.blogs[b].domain = p.after.blogs[b].domain
           /\ p.after.blogs[b].home = Secured(p.before.blogs[b].home)
           /\ p.after.blogs[b].siteurl = Secured(p.before.blogs[b].siteurl)
    <2> TAKE b \in DOMAIN n.blogs
    <2>1. p.after.blogs[b] = [domain |-> p.before.blogs[b].domain,
                              home |-> Secured(p.before.blogs[b].home),
                              siteurl |-> Secured(p.before.blogs[b].siteurl)]
      BY <1>1, <1>3
    <2> QED BY <1>3, <2>1
  <1> QED BY <1>1, <1>2, <1>3, <1>4 DEF Planned

\* The references of a host that are replaced stay those of the plan, and become HTTPS.
LEMMA UpgradedReplays ==
  ASSUME site \in Site, NEW x \in Data, NEW p, p.before \in NetworkSnapshot,
         OnTest(p.before), p.after = HttpsSnapshot(p.before), Replays(x.net, p), NEW rows
  PROVE  Replays(Rewritten(x, Upgraded, rows).net, p)
  <1> DEFINE e == Rewritten(x, Upgraded, rows)
  <1>1. /\ e \in Data /\ Present(e) = Present(x) /\ e.net.domain = x.net.domain
        /\ \A b \in Present(x) :
              /\ e.net.blogs[b].domain = x.net.blogs[b].domain
              /\ e.net.blogs[b].home = IF <<b, "home">> \in rows
                    THEN Upgraded[x.net.blogs[b].home] ELSE x.net.blogs[b].home
              /\ e.net.blogs[b].siteurl = IF <<b, "siteurl">> \in rows
                    THEN Upgraded[x.net.blogs[b].siteurl] ELSE x.net.blogs[b].siteurl
    BY UrlsTyped, RewrittenTyped
  <1> HIDE DEF e
  <1>2. /\ x.net \in NetworkSnapshot /\ Present(x) = DOMAIN x.net.blogs /\ Present(e) = DOMAIN e.net.blogs
    BY DataFields DEF Present
  <1>9. Planned(x.net, p)
    BY <1>2, HttpsPlanned
  <1>3. DOMAIN x.net.blogs = DOMAIN p.before.blogs
    BY ReplaysFields
  <1>4. \A b \in Present(x) :
           /\ \/ e.net.blogs[b].home = p.before.blogs[b].home
              \/ e.net.blogs[b].home = p.after.blogs[b].home
           /\ \/ e.net.blogs[b].siteurl = p.before.blogs[b].siteurl
              \/ e.net.blogs[b].siteurl = p.after.blogs[b].siteurl
    <2> TAKE b \in Present(x)
    <2> DEFINE home == p.before.blogs[b].home
               siteurl == p.before.blogs[b].siteurl
    <2>1. /\ home \in Url /\ home.host = "new" /\ siteurl \in Url /\ siteurl.host = "new"
          /\ p.after.blogs[b].home = Secured(home) /\ p.after.blogs[b].siteurl = Secured(siteurl)
          /\ x.net.blogs[b].home \in {home, Secured(home)}
          /\ x.net.blogs[b].siteurl \in {siteurl, Secured(siteurl)}
      BY <1>2, <1>9 DEF Planned
    <2> HIDE DEF home, siteurl
    <2>2. /\ Upgraded[home] = Secured(home) /\ Upgraded[Secured(home)] = Secured(home)
          /\ Upgraded[siteurl] = Secured(siteurl) /\ Upgraded[Secured(siteurl)] = Secured(siteurl)
      BY <2>1, Upgrades
    <2>3. /\ e.net.blogs[b].home \in {home, Secured(home)}
          /\ e.net.blogs[b].siteurl \in {siteurl, Secured(siteurl)}
      BY <1>1, <2>1, <2>2
    <2> QED BY <2>1, <2>3 DEF home, siteurl
  <1>5. \A b \in Present(x) : e.net.blogs[b].domain = p.before.blogs[b].domain
    BY <1>1, <1>2, <1>9 DEF Planned
  <1>6. e.net.domain = p.before.domain
    BY <1>1, <1>2, <1>9 DEF Planned
  <1>7. Replays(e.net, p)
    BY <1>1, <1>2, <1>3, <1>4, <1>5, <1>6, ReplaysFields
  <1> QED BY <1>7 DEF e

LEMMA UpgradedSecures ==
  ASSUME site \in Site, NEW x \in Data, NEW rows, NEW b \in Present(x),
         InHttps(x, b) \/ Rows({b}) \subseteq rows
  PROVE  InHttps(Rewritten(x, Upgraded, rows), b)
  <1> DEFINE e == Rewritten(x, Upgraded, rows)
             home == x.net.blogs[b].home
             siteurl == x.net.blogs[b].siteurl
             content == x.content[b]
  <1>1. b \in Blogs /\ home \in Url /\ siteurl \in Url /\ content \in Url
    BY DataFields, SnapshotFields DEF Present
  <1>2. /\ e.net.blogs[b].home = IF <<b, "home">> \in rows THEN Upgraded[home] ELSE home
        /\ e.net.blogs[b].siteurl = IF <<b, "siteurl">> \in rows THEN Upgraded[siteurl] ELSE siteurl
        /\ e.content[b] = IF <<b, "content">> \in rows THEN Upgraded[content] ELSE content
    BY <1>1, UrlsTyped, RewrittenTyped
  <1>3. InHttps(x, b) => home = Upgraded[home] /\ siteurl = Upgraded[siteurl] /\ content = Upgraded[content]
    BY DEF InHttps
  <1>4. Rows({b}) \subseteq rows =>
           <<b, "home">> \in rows /\ <<b, "siteurl">> \in rows /\ <<b, "content">> \in rows
    BY DEF Rows
  <1> HIDE DEF e, home, siteurl, content
  <1>5. /\ Upgraded[Upgraded[home]] = Upgraded[home]
        /\ Upgraded[Upgraded[siteurl]] = Upgraded[siteurl]
        /\ Upgraded[Upgraded[content]] = Upgraded[content]
    BY <1>1, UpgradesOnce
  <1>6. /\ e.net.blogs[b].home = Upgraded[e.net.blogs[b].home]
        /\ e.net.blogs[b].siteurl = Upgraded[e.net.blogs[b].siteurl]
        /\ e.content[b] = Upgraded[e.content[b]]
    BY <1>2, <1>3, <1>4, <1>5
  <1> QED BY <1>6 DEF e, InHttps

LEMMA SecuredIsAfter ==
  ASSUME site \in Site, NEW x \in Data, NEW p, p.before \in NetworkSnapshot,
         OnTest(p.before), p.after = HttpsSnapshot(p.before), Replays(x.net, p),
         \A b \in Present(x) : InHttps(x, b)
  PROVE  x.net = p.after
  <1>1. x.net \in NetworkSnapshot /\ Present(x) = DOMAIN x.net.blogs
    BY DataFields DEF Present
  <1>9. Planned(x.net, p)
    BY <1>1, HttpsPlanned
  <1>2. /\ p.after \in NetworkSnapshot /\ DOMAIN x.net.blogs = DOMAIN p.after.blogs
        /\ x.net.domain = p.after.domain
    BY <1>9 DEF Planned
  <1>3. \A b \in Present(x) :
           /\ x.net.blogs[b].domain = p.after.blogs[b].domain
           /\ x.net.blogs[b].home = p.after.blogs[b].home
           /\ x.net.blogs[b].siteurl = p.after.blogs[b].siteurl
    <2> TAKE b \in Present(x)
    <2> DEFINE home == p.before.blogs[b].home
               siteurl == p.before.blogs[b].siteurl
    <2>1. /\ home \in Url /\ home.host = "new" /\ siteurl \in Url /\ siteurl.host = "new"
          /\ p.after.blogs[b].home = Secured(home) /\ p.after.blogs[b].siteurl = Secured(siteurl)
          /\ x.net.blogs[b].home \in {home, Secured(home)}
          /\ x.net.blogs[b].siteurl \in {siteurl, Secured(siteurl)}
          /\ x.net.blogs[b].domain = p.after.blogs[b].domain
      BY <1>1, <1>9 DEF Planned
    <2> HIDE DEF home, siteurl
    <2>2. /\ Upgraded[home] = Secured(home) /\ Upgraded[siteurl] = Secured(siteurl)
      BY <2>1, Upgrades
    <2>3. /\ x.net.blogs[b].home = Upgraded[x.net.blogs[b].home]
          /\ x.net.blogs[b].siteurl = Upgraded[x.net.blogs[b].siteurl]
      BY DEF InHttps
    <2> QED BY <2>1, <2>2, <2>3
  <1>4. \A b \in DOMAIN x.net.blogs : x.net.blogs[b] = p.after.blogs[b]
    <2> TAKE b \in DOMAIN x.net.blogs
    <2>1. PICK m : m = x.net
      OBVIOUS
    <2>2. x.net.blogs[b] = [domain |-> x.net.blogs[b].domain, home |-> x.net.blogs[b].home,
                            siteurl |-> x.net.blogs[b].siteurl]
      BY <1>1, <2>1, SnapshotRows
    <2>3. PICK o : o = p.after
      OBVIOUS
    <2>4. p.after.blogs[b] = [domain |-> p.after.blogs[b].domain, home |-> p.after.blogs[b].home,
                              siteurl |-> p.after.blogs[b].siteurl]
      BY <1>2, <2>3, SnapshotRows
    <2> QED BY <1>1, <1>3, <2>2, <2>4
  <1> QED BY <1>1, <1>2, <1>4, SameSnapshot

-----------------------------------------------------------------------------
(***************************************************************************)
(* What a step of a run makes of it.                                       *)
(***************************************************************************)

Ours ==
    /\ Typed /\ Standing /\ SourceIs /\ ~ site.overlaps /\ proc.pc # "idle"
    /\ AtHand /\ InStep(author, files, data, proc, run.recovery, run.done)
Advances ==
    /\ Holds(author', files', data', run'.recovery, run.done)
    /\ proc'.pc = "judge" => Holds(author', files', data', run'.recovery, run.done + 1)
    /\ InStep(author', files', data', proc', run'.recovery, run.done)
    /\ Extends(run.recovery, run'.recovery) /\ proc'.pc # "idle"

LEMMA OursTyped ==
  ASSUME Ours
  PROVE  /\ Current \in Nat \ {0} /\ run.done \in 0..9 /\ site \in Site
         /\ run \in Manifest /\ run.recovery \in Recovery /\ Sound(run.recovery)
         /\ data \in Data /\ files \in Config /\ source \in Data /\ proc \in Process
         /\ author \in [files: 0..Current, data: 0..Current]
         /\ Ready(run.recovery, run.done)
         /\ Fits(author, files, data, Current, run.recovery, run.done)
         /\ run.done >= 3 /\ author.files = Current => files.db = "test" /\ Seen = data
  <1>1. /\ Typed /\ proc.pc # "idle" /\ Standing
    BY DEF Ours
  <1>2. /\ Current \in Nat \ {0} /\ run.done \in 0..9 /\ site \in Site
        /\ run \in Manifest /\ run.recovery \in Recovery /\ Sound(run.recovery)
        /\ data \in Data /\ files \in Config /\ source \in Data /\ proc \in Process
        /\ author \in [files: 0..Current, data: 0..Current]
    BY <1>1, HereTyped, ManifestFields DEF Typed, TypeOK
  <1>3. Ready(run.recovery, run.done) /\ Fits(author, files, data, Current, run.recovery, run.done)
    BY DEF Ours, AtHand, Holds
  <1>4. run.done >= 3 /\ author.files = Current => files.db = "test"
    <2>1. Current \in 1..Current /\ disk[Current].done = run.done
      BY <1>1, <1>2 DEF Typed, Located
    <2>2. Works(Current, run.done)
      BY <1>1, <2>1 DEF Standing
    <2> QED BY <2>2 DEF Works
  <1> QED BY <1>2, <1>3, <1>4 DEF Seen

LEMMA ReadyOn ==
  ASSUME NEW rec, NEW more, NEW d, Ready(rec, d),
         more.multisite = rec.multisite, more.https = rec.https, more.indexing = rec.indexing,
         rec.validated \ {"test_indexing"} \subseteq more.validated
  PROVE  Ready(more, d)
  BY DEF Ready

LEMMA EarlyPlans ==
  ASSUME NEW rec, NEW d \in {0, 1, 2}, Ready(rec, d)
  PROVE  /\ rec.multisite = {} /\ rec.https = {} /\ rec.indexing = {}
         /\ Ready(rec, d + 1)
  BY DEF Ready

\* Writes by a step whose run may have the authorship only if it had it before.
LEMMA OursOnly ==
  ASSUME Ours, Mine
  PROVE  /\ author'.files = Current => author.files = Current
         /\ author'.data = Current => author.data = Current
  BY OursTyped, MineOnly DEF Ours

LEMMA CopiesAdvance ==
  ASSUME Ours, CopyFiles \/ CopyDatabase \/ WriteTestDbConfig
  PROVE  Advances
  <1> DEFINE rec == run.recovery
  <1>1. /\ Current \in Nat \ {0} /\ run.done \in 0..9 /\ files \in Config /\ Typed /\ proc.pc # "idle"
        /\ author \in [files: 0..Current, data: 0..Current]
        /\ Ready(rec, run.done) /\ Fits(author, files, data, Current, rec, run.done)
    BY OursTyped DEF Ours
  <1>2. run' = run /\ Go("judge") /\ run.done \in {0, 1, 2}
    BY <1>1, Here DEF CopyFiles, CopyDatabase, WriteTestDbConfig, Facing
  <1>3. proc'.pc = "judge"
    BY <1>1, <1>2, GoTyped
  <1>4. /\ rec.multisite = {} /\ rec.https = {} /\ rec.indexing = {} /\ Ready(rec, run.done + 1)
    BY <1>1, <1>2, EarlyPlans
  <1>5. /\ author.files = Current => files.domain = "old"
        /\ author.data = Current => data = source
    BY <1>1, <1>2 DEF Fits, FilesKept, DataKept
  <1>6. /\ author'.files = Current => files'.domain = "old"
        /\ author'.data = Current => data' = source
    <2>1. CASE CopyFiles
      BY <1>1, <1>5, <2>1 DEF CopyFiles
    <2>2. CASE CopyDatabase
      BY <1>1, <1>5, <2>2 DEF CopyDatabase
    <2>3. CASE WriteTestDbConfig
      <3>1. files'.domain = files.domain /\ data' = data
        BY <1>1, <2>3 DEF WriteTestDbConfig, Config
      <3>2. /\ author'.files = Current => author.files = Current
            /\ author'.data = Current => author.data = Current
        BY <2>3, OursOnly DEF WriteTestDbConfig
      <3> QED BY <1>5, <3>1, <3>2
    <2> QED BY <2>1, <2>2, <2>3
  <1>7. \A d \in {0, 1, 2, 3} : Fits(author', files', data', Current, rec, d)
    BY <1>4, <1>6 DEF Fits, FilesKept, DataKept, OwnKept
  <1>8. run.done + 1 \in {0, 1, 2, 3} /\ run.done \in {0, 1, 2, 3}
    BY <1>2
  <1>9. /\ Holds(author', files', data', rec, run.done)
        /\ Holds(author', files', data', rec, run.done + 1)
    BY <1>1, <1>4, <1>7, <1>8 DEF Holds
  <1>10. InStep(author', files', data', proc', rec, run.done)
    BY <1>2, <1>3 DEF InStep
  <1> QED BY <1>2, <1>3, <1>9, <1>10 DEF Advances, Extends

\* A quiet move leaves what the run has made of its files and data.
LEMMA QuietAdvances ==
  ASSUME Ours, NoWrite, NEW rec, run'.recovery = rec,
         rec.multisite = run.recovery.multisite, rec.https = run.recovery.https,
         rec.indexing = run.recovery.indexing,
         run.recovery.validated \ {"test_indexing"} \subseteq rec.validated,
         proc'.pc = "judge" => Holds(author, files, data, rec, run.done + 1),
         InStep(author, files, data, proc', rec, run.done), proc'.pc # "idle"
  PROVE  Advances
  <1>1. author' = author /\ files' = files /\ data' = data
    BY DEF NoWrite, target
  <1>2. Ready(rec, run.done)
    BY OursTyped, ReadyOn
  <1>3. Extends(rec, run.recovery) /\ Extends(run.recovery, rec)
    BY DEF Extends
  <1>4. Fits(author, files, data, Current, rec, run.done)
    BY <1>3, OursTyped, FitsOn
  <1> QED BY <1>1, <1>2, <1>3, <1>4 DEF Advances, Holds

\* The domains are planned.
LEMMA PlanAdvances ==
  ASSUME Ours, PlanMultisiteDomain
  PROVE  Advances
  <1> DEFINE rec == run'.recovery
             payload == [before |-> data.net, after |-> Transform(data.net), config |-> files.domain]
  <1>1. /\ run.done = 3 /\ PlansMultisite /\ Typed /\ NoWrite
        /\ author' = author /\ files' = files /\ data' = data
        /\ Recover(IF site.network THEN [run.recovery EXCEPT !.multisite = {payload}] ELSE run.recovery)
    BY Here DEF Ours, PlanMultisiteDomain, Facing, Accepted, NoWrite, target
  <1>2. /\ run \in Manifest /\ run.recovery \in Recovery
        /\ data \in Data /\ source \in Data
        /\ Ready(run.recovery, 3) /\ Fits(author, files, data, Current, run.recovery, 3)
        /\ SourceIs
    BY <1>1, OursTyped DEF Ours
  <1>3. proc'.pc = "judge"
    BY <1>1, GoTyped DEF Recover
  <1>4. rec = IF site.network THEN [run.recovery EXCEPT !.multisite = {payload}] ELSE run.recovery
    BY <1>1, <1>2, ManifestFields DEF Recover
  <1>5. run.recovery.https = {} /\ run.recovery.indexing = {}
    BY <1>2 DEF Ready
  <1>6. /\ author.files = Current => files.domain = "old"
        /\ author.data = Current => data = source
    BY <1>2 DEF Fits, FilesKept, DataKept
  <1>7. InStep(author', files', data', proc', rec, 3)
    BY <1>3 DEF InStep
  <1>8. CASE ~ site.network
    <2>1. rec = run.recovery /\ rec.multisite = {}
      BY <1>1, <1>4, <1>8 DEF PlansMultisite
    <2>2. author.data = Current => OnEither(data.net)
      BY <1>6, <1>8, <1>2 DEF SourceIs, From, OnEither, Present
    <2>3. Fits(author, files, data, Current, rec, 4)
      BY <1>5, <1>8, <2>1, <2>2 DEF Fits, FilesKept, DataKept, OwnKept
    <2>4. Ready(rec, 4)
      BY <1>2, <1>8, <2>1 DEF Ready
    <2> QED BY <1>1, <1>2, <1>3, <1>7, <2>1, <2>3, <2>4 DEF Advances, Holds, Extends
  <1>9. CASE site.network
    <2>1. rec = [run.recovery EXCEPT !.multisite = {payload}]
      BY <1>4, <1>9
    <2>2. /\ payload.before = data.net /\ payload.config = files.domain
          /\ run.recovery.multisite \subseteq {payload}
      BY <1>1, <1>9 DEF PlansMultisite
    <2>3. author.data = Current => payload.before = source.net /\ payload.config = "old"
      BY <1>1, <1>2, <1>6, <1>9, <2>2 DEF PlansMultisite, Transformable, SourceIs, From
    <2> HIDE DEF payload
    <2>4. rec.multisite = {payload} /\ rec.https = {} /\ rec.indexing = {} /\ rec.validated = run.recovery.validated
      BY <1>2, <1>5, <2>1, RecoveryFields
    <2>5. Ready(rec, 3) /\ Ready(rec, 4)
      BY <1>2, <1>9, <2>4 DEF Ready
    <2>6. Replays(data.net, payload)
      BY <2>2, ReplaysFields
    <2>7. \A d \in {3, 4} : Fits(author, files, data, Current, rec, d)
      BY <1>6, <1>9, <2>3, <2>4, <2>6 DEF Fits, FilesKept, DataKept, OwnKept
    <2>8. Extends(run.recovery, rec)
      BY <1>5, <2>2, <2>4 DEF Extends
    <2> QED BY <1>1, <1>3, <1>7, <2>5, <2>7, <2>8 DEF Advances, Holds
  <1> QED BY <1>8, <1>9

LEMMA SkipAdvances ==
  ASSUME Ours, SkipMultisite
  PROVE  Advances
  <1>1. /\ run.done = 4 /\ ~ site.network /\ run' = run /\ NoWrite /\ Go("judge") /\ Typed
        /\ run.recovery.multisite = {}
    BY Here DEF Ours, SkipMultisite, Facing, Accepted, CorrectsMultisite
  <1>2. /\ Ready(run.recovery, 4) /\ Fits(author, files, data, Current, run.recovery, 4)
    BY <1>1, OursTyped
  <1>3. proc'.pc = "judge"
    BY <1>1, GoTyped
  <1>4. run.recovery.https = {} /\ run.recovery.indexing = {}
    BY <1>2 DEF Ready
  <1>5. Ready(run.recovery, 5) /\ Fits(author, files, data, Current, run.recovery, 5)
    BY <1>1, <1>2, <1>4 DEF Ready, Fits, FilesKept, DataKept, OwnKept
  <1>6. InStep(author, files, data, proc', run.recovery, run.done)
    BY <1>1, <1>3 DEF InStep, Correcting
  <1> QED BY <1>1, <1>3, <1>5, <1>6, QuietAdvances DEF Holds

LEMMA InspectAdvances ==
  ASSUME Ours, InspectNetwork
  PROVE  Advances
  <1>1. /\ run.done = 4 /\ run' = run /\ NoWrite /\ Typed
        /\ \E p \in run.recovery.multisite :
              proc' = [proc EXCEPT !.pc = "writing", !.todo = Pending(data.net, p)]
    BY Here DEF Ours, InspectNetwork, Facing
  <1>2. PICK p \in run.recovery.multisite :
           proc' = [proc EXCEPT !.pc = "writing", !.todo = Pending(data.net, p)]
    BY <1>1
  <1>3. Single(run.recovery.multisite) /\ proc \in Process
    BY OursTyped DEF Sound
  <1> DEFINE todo == Pending(data.net, p)
  <1> HIDE DEF todo
  <1>4. proc'.pc = "writing" /\ proc'.todo = todo
    BY <1>2, <1>3 DEF Process, todo
  <1>5. \A q \in run.recovery.multisite : Pending(data.net, q) \subseteq todo
    BY <1>2, <1>3 DEF Single, todo
  <1>6. InStep(author, files, data, proc', run.recovery, run.done)
    BY <1>1, <1>4, <1>5 DEF InStep, Correcting
  <1> QED BY <1>1, <1>4, <1>6, QuietAdvances

LEMMA ApplyAdvances ==
  ASSUME Ours, ApplyNetwork \/ ApplyNetworkBreaks
  PROVE  Advances
  <1> DEFINE rec == run.recovery
  <1>1. /\ run.done = 4 /\ run' = run /\ Typed /\ proc.pc = "writing"
        /\ StepHere = "correct_multisite_domain"
    BY Here DEF Ours, ApplyNetwork, ApplyNetworkBreaks, Within
  <1>2. PICK p \in rec.multisite, cells \in SUBSET proc.todo :
           /\ BySql(Updated(data.net, p, cells))
           /\ \/ proc' = [proc EXCEPT !.pc = "checking", !.todo = {}] /\ cells = proc.todo
              \/ proc' = [proc EXCEPT !.pc = "broken", !.todo = {}]
    <2>1. CASE ApplyNetwork
      BY <2>1 DEF ApplyNetwork
    <2>2. CASE ApplyNetworkBreaks
      <3>1. PICK p \in rec.multisite, first \in FirstOf(proc.todo) : BySql(Updated(data.net, p, first))
        BY <2>2 DEF ApplyNetworkBreaks
      <3>2. first \in SUBSET proc.todo
        BY DEF FirstOf
      <3> QED BY <2>2, <3>1, <3>2 DEF ApplyNetworkBreaks
    <2> QED BY <2>1, <2>2
  <1>3. /\ Ready(rec, 4) /\ Fits(author, files, data, Current, rec, 4) /\ Single(rec.multisite)
        /\ rec \in Recovery /\ proc \in Process /\ data \in Data /\ p.after = Transform(p.before)
        /\ site \in Site
    BY <1>1, OursTyped DEF Sound
  <1>4. /\ p \in MultisitePlan /\ p.before \in NetworkSnapshot /\ site.network
        /\ rec.https = {} /\ rec.indexing = {} /\ rec.multisite = {p}
    BY <1>3, RecoveryFields DEF MultisitePlan, Ready, Single
  <1>5. cells \subseteq Cells(p.before) /\ DOMAIN p.after.blogs = DOMAIN p.before.blogs
    BY <1>1, <1>2, <1>3, <1>4, TransformTyped DEF Typed, Located
  <1> DEFINE u == Updated(data.net, p, cells)
  <1>6. data.net \in NetworkSnapshot /\ DOMAIN data.net.blogs # {}
    BY <1>3, DataFields DEF Present
  <1>7. u \in NetworkSnapshot /\ DOMAIN u.blogs = DOMAIN data.net.blogs
    BY <1>4, <1>5, <1>6, UpdatedTyped
  <1>8. Replays(data.net, p) => Replays(u, p) /\ (Pending(data.net, p) \subseteq cells => u = p.after)
    BY <1>4, <1>5, <1>6, UpdatedReplays
  <1>9. data' = [data EXCEPT !.net = u] /\ files' = files /\ Mine
    BY <1>2 DEF BySql
  <1> HIDE DEF u
  <1>10. data'.net = u
    BY <1>3, <1>6, <1>7, <1>9, NetChanges
  <1>11. /\ author'.files = Current => author.files = Current
         /\ author'.data = Current => author.data = Current
    BY <1>9, OursOnly
  <1>12. author.data = Current => /\ p.before = source.net /\ p.config = "old" /\ Replays(data.net, p)
                                  /\ Pending(data.net, p) \subseteq proc.todo
    BY <1>1, <1>3, <1>4 DEF Fits, DataKept, Ours, InStep, Correcting
  <1>13. Fits(author', files', data', Current, rec, 4)
    BY <1>3, <1>4, <1>8, <1>10, <1>11, <1>12 DEF Fits, FilesKept, DataKept, OwnKept
  <1>14. (proc'.pc = "checking" /\ cells = proc.todo) \/ proc'.pc = "broken"
    BY <1>2, <1>3 DEF Process
  <1>15. proc'.pc = "checking" /\ author'.data = Current => u = p.after
    BY <1>8, <1>11, <1>12, <1>14
  <1>16. InStep(author', files', data', proc', rec, 4)
    BY <1>4, <1>10, <1>14, <1>15 DEF InStep, Correcting
  <1> QED BY <1>1, <1>3, <1>13, <1>14, <1>16 DEF Advances, Holds, Extends

LEMMA SetDomainAdvances ==
  ASSUME Ours, SetMultisiteDomain
  PROVE  Advances
  <1> DEFINE rec == run.recovery
  <1>1. /\ run.done = 4 /\ run' = run /\ Typed /\ proc.pc = "checking" /\ Go("validating") /\ Mine
        /\ data' = data /\ files' = [files EXCEPT !.domain = "new"]
        /\ \E p \in rec.multisite : data.net = p.after
    BY Here DEF Ours, SetMultisiteDomain, Within
  <1>2. /\ Ready(rec, 4) /\ Fits(author, files, data, Current, rec, 4) /\ Single(rec.multisite)
        /\ files \in Config
    BY <1>1, OursTyped DEF Sound
  <1>3. files'.domain = "new" /\ proc'.pc = "validating"
    BY <1>1, <1>2, GoTyped DEF Config
  <1>4. /\ author'.files = Current => author.files = Current
        /\ author'.data = Current => author.data = Current
    BY <1>1, OursOnly
  <1>5. rec.https = {} /\ rec.indexing = {} /\ site.network /\ \A p \in rec.multisite : data.net = p.after
    BY <1>1, <1>2 DEF Ready, Single
  <1>6. Fits(author', files', data', Current, rec, 4)
    BY <1>1, <1>2, <1>4, <1>5 DEF Fits, FilesKept, DataKept, OwnKept
  <1>7. InStep(author', files', data', proc', rec, 4)
    BY <1>1, <1>3, <1>5 DEF InStep, Correcting
  <1> QED BY <1>1, <1>2, <1>3, <1>6, <1>7 DEF Advances, Holds, Extends

LEMMA ValidateNetworkAdvances ==
  ASSUME Ours, ValidateNetwork
  PROVE  Advances
  <1> DEFINE rec == Validated("multisite")
  <1>1. /\ run.done = 4 /\ Typed /\ proc.pc = "validating" /\ NoWrite /\ Recover(rec)
    BY Here DEF Ours, ValidateNetwork, Within
  <1>2. /\ Ready(run.recovery, 4) /\ Fits(author, files, data, Current, run.recovery, 4)
        /\ run \in Manifest /\ run.recovery \in Recovery
    BY <1>1, OursTyped
  <1>3. /\ rec.multisite = run.recovery.multisite /\ rec.https = run.recovery.https
        /\ rec.indexing = run.recovery.indexing
    BY <1>1, MarksTyped
  <1>4. rec.validated = run.recovery.validated \cup {"multisite"}
    BY <1>2, RecoveryFields DEF Validated
  <1> HIDE DEF rec
  <1>5. proc'.pc = "judge" /\ run'.recovery = rec
    BY <1>1, <1>2, GoTyped, ManifestFields DEF Recover
  <1>6. Ready(rec, 5) /\ rec.https = {} /\ rec.indexing = {}
    BY <1>2, <1>3, <1>4 DEF Ready
  <1>7. /\ author.data = Current => \A p \in rec.multisite : data.net = p.after
        /\ author.files = Current => files.domain = "new"
        /\ site.network
    BY <1>1, <1>3 DEF Ours, InStep, Correcting
  <1>8. Fits(author, files, data, Current, rec, 5)
    BY <1>2, <1>3, <1>6, <1>7 DEF Fits, FilesKept, DataKept, OwnKept
  <1>9. InStep(author, files, data, proc', rec, run.done)
    BY <1>1, <1>5 DEF InStep, Correcting
  <1> QED BY <1>1, <1>3, <1>4, <1>5, <1>6, <1>8, <1>9, QuietAdvances DEF Holds

\* The URLs are replaced.
LEMMA SearchAdvances ==
  ASSUME Ours, SearchReplace \/ SearchReplaceBreaks
  PROVE  Advances
  <1> DEFINE rec == run.recovery
  <1>1. /\ run.done = 5 /\ run' = run /\ Typed
        /\ proc.pc # "idle" /\ SourceIs /\ ~ site.overlaps
    BY Here DEF Ours, SearchReplace, SearchReplaceBreaks, Facing
  <1>2. PICK rows : /\ ByWp(Rewritten(Seen, Replaced, rows))
                    /\ (Go("judge") /\ rows = Rows(Covered(Seen))) \/ Go("broken")
    BY DEF SearchReplace, SearchReplaceBreaks
  <1>3. /\ Ready(rec, 5) /\ Fits(author, files, data, Current, rec, 5) /\ Single(rec.multisite)
        /\ rec \in Recovery /\ data \in Data /\ site \in Site /\ Current \in Nat \ {0}
        /\ \A p \in rec.multisite : p.after = Transform(p.before)
        /\ author.files = Current => files.db = "test"
    BY <1>1, OursTyped DEF Sound
  <1>4. (proc'.pc = "judge" /\ rows = Rows(Covered(Seen))) \/ proc'.pc = "broken"
    BY <1>1, <1>2, GoTyped
  <1>5. Mine /\ files' = files
    BY <1>2 DEF ByWp
  <1>6. /\ author'.files = Current => author.files = Current
        /\ author'.data = Current => author.data = Current
    BY <1>5, OursOnly
  <1>7. files.db = "test" => Seen = data /\ data' = Rewritten(data, Replaced, rows)
    BY <1>2 DEF Seen, ByWp
  <1>8. files.db # "test" => data' = data
    BY <1>2 DEF ByWp
  <1>9. rec.https = {} /\ rec.indexing = {} /\ Ready(rec, 6)
    BY <1>3 DEF Ready
  <1>10. CASE site.network
    <2>1. PICK p : p \in rec.multisite
      BY <1>3, <1>10 DEF Ready
    <2>2. rec.multisite = {p} /\ p \in MultisitePlan /\ p.before \in NetworkSnapshot
          /\ p.after = Transform(p.before)
      BY <1>3, <2>1, RecoveryFields DEF Single, MultisitePlan
    <2>3. author.data = Current => p.before = source.net /\ p.config = "old" /\ data.net = p.after
      BY <1>3, <2>2 DEF Fits, DataKept
    <2>4. author.data = Current => data'.net = p.after
      <3>1. CASE files.db = "test"
        <4>1. data.net = p.after => Rewritten(data, Replaced, rows).net = data.net
          BY <1>1, <1>3, <2>2, ReplacedNetwork
        <4> QED BY <1>7, <2>3, <3>1, <4>1
      <3>2. CASE files.db # "test"
        BY <1>8, <2>3, <3>2
      <3> QED BY <3>1, <3>2
    <2>5. OnTest(p.after)
      <3>1. On("new").host = "new"
        BY DEF On
      <3>2. \A b \in DOMAIN p.after.blogs :
               p.after.blogs[b] = [domain |-> "new", home |-> On("new"), siteurl |-> On("new")]
        BY <1>3, <2>2, TransformTyped
      <3>3. \A b \in DOMAIN p.after.blogs :
               /\ p.after.blogs[b].domain = "new" /\ p.after.blogs[b].home = On("new")
               /\ p.after.blogs[b].siteurl = On("new")
        BY <3>2
      <3> QED BY <3>1, <3>3 DEF OnTest, Structural
    <2>6. author.files = Current => files.domain = "new"
      BY <1>3, <1>10 DEF Fits, FilesKept
    <2>7. \A d \in {5, 6} : Fits(author', files', data', Current, rec, d)
      BY <1>5, <1>6, <1>9, <1>10, <2>2, <2>3, <2>4, <2>5, <2>6 DEF Fits, FilesKept, DataKept, OwnKept
    <2>8. InStep(author', files', data', proc', rec, 5)
      BY <1>4 DEF InStep
    <2> QED BY <1>1, <1>3, <1>4, <1>9, <2>7, <2>8 DEF Advances, Holds, Extends
  <1>11. CASE ~ site.network
    <2>1. rec.multisite = {} /\ ~ site.subdomains
      BY <1>1, <1>3, <1>11 DEF Ready, SourceIs
    <2>2. author.data = Current => OnEither(data.net)
      BY <1>3, <1>11 DEF Fits, DataKept
    <2>3. author'.data = Current => OnEither(data'.net)
      <3>1. CASE files.db = "test"
        <4>1. OnEither(data.net) => OnEither(Rewritten(data, Replaced, rows).net)
          BY <1>1, <1>3, ReplacedSite
        <4> QED BY <1>6, <1>7, <2>2, <3>1, <4>1
      <3>2. CASE files.db # "test"
        BY <1>6, <1>8, <2>2, <3>2
      <3> QED BY <3>1, <3>2
    <2>4. proc'.pc = "judge" /\ author'.files = Current /\ author'.data = Current => OnTest(data'.net)
      <3> SUFFICES ASSUME proc'.pc = "judge", author'.files = Current, author'.data = Current
                   PROVE  OnTest(data'.net)
        OBVIOUS
      <3>1. files.db = "test" /\ OnEither(data.net)
        BY <1>3, <1>6, <2>2
      <3>2. rows = Rows(Present(data))
        BY <1>4, <1>7, <2>1, <3>1 DEF Covered
      <3>3. OnTest(Rewritten(data, Replaced, rows).net)
        BY <1>1, <1>3, <3>1, <3>2, ReplacedSite
      <3> QED BY <1>7, <3>1, <3>3
    <2>5. Fits(author', files', data', Current, rec, 5)
      BY <1>9, <1>11, <2>1, <2>3 DEF Fits, FilesKept, DataKept, OwnKept
    <2>6. proc'.pc = "judge" => Fits(author', files', data', Current, rec, 6)
      BY <1>9, <1>11, <2>1, <2>4 DEF Fits, FilesKept, DataKept, OwnKept
    <2>7. InStep(author', files', data', proc', rec, 5)
      BY <1>4 DEF InStep
    <2> QED BY <1>1, <1>3, <1>4, <1>9, <2>5, <2>6, <2>7 DEF Advances, Holds, Extends
  <1> QED BY <1>10, <1>11

\* HTTPS is planned and enforced.
LEMMA PlanHttpsAdvances ==
  ASSUME Ours, PlanTestHttps
  PROVE  Advances
  <1> DEFINE plan == [config |-> NetworkConfig(files), before |-> data.net,
                      after |-> HttpsSnapshot(data.net)]
             rec == [run.recovery EXCEPT !.https = IF @ # {} THEN @ ELSE {plan}]
  <1>1. /\ run.done = 6 /\ Typed /\ NoWrite /\ Recover(rec)
        /\ author' = author /\ files' = files /\ data' = data
    BY Here DEF Ours, PlanTestHttps, Facing, NoWrite, target
  <1>2. /\ run \in Manifest /\ run.recovery \in Recovery
        /\ Ready(run.recovery, 6) /\ Fits(author, files, data, Current, run.recovery, 6)
    BY <1>1, OursTyped
  <1>3. plan.config = NetworkConfig(files) /\ plan.before = data.net
    OBVIOUS
  <1>4. Replays(data.net, plan)
    BY <1>3, ReplaysFields
  <1> HIDE DEF plan
  <1>5. /\ rec.multisite = run.recovery.multisite /\ rec.indexing = run.recovery.indexing
        /\ rec.validated = run.recovery.validated
        /\ rec.https = IF run.recovery.https # {} THEN run.recovery.https ELSE {plan}
    BY <1>2, RecoveryFields
  <1> HIDE DEF rec
  <1>6. proc'.pc = "judge" /\ run'.recovery = rec
    BY <1>1, <1>2, GoTyped, ManifestFields DEF Recover
  <1>7. rec.indexing = {} /\ rec.https # {} /\ Ready(rec, 6) /\ Ready(rec, 7)
    BY <1>2, <1>5 DEF Ready
  <1>8. author.files = Current /\ author.data = Current =>
           /\ OnTest(data.net)
           /\ \A p \in rec.https : p.config = NetworkConfig(files) /\ Replays(data.net, p)
    BY <1>2, <1>3, <1>4, <1>5 DEF Fits, OwnKept
  <1>9. \A d \in {6, 7} : Fits(author, files, data, Current, rec, d)
    BY <1>2, <1>5, <1>7, <1>8 DEF Fits, FilesKept, DataKept, OwnKept
  <1>10. InStep(author, files, data, proc', rec, 6)
    BY <1>6 DEF InStep
  <1>11. Extends(run.recovery, rec)
    BY <1>5 DEF Extends
  <1> QED BY <1>1, <1>6, <1>7, <1>9, <1>10, <1>11 DEF Advances, Holds

LEMMA StartHttpsAdvances ==
  ASSUME Ours, StartHttps
  PROVE  Advances
  <1>1. /\ run.done = 7 /\ Typed /\ NoWrite /\ run' = run
        /\ proc' = [proc EXCEPT !.pc = "writing", !.blogs = Present(data)]
    BY Here DEF Ours, StartHttps, Facing
  <1>2. proc'.pc = "writing" /\ proc'.blogs = Present(data)
    <2> DEFINE present == Present(data)
    <2>1. proc \in Process /\ proc' = [proc EXCEPT !.pc = "writing", !.blogs = present]
      BY <1>1, OursTyped
    <2> HIDE DEF present
    <2>2. proc'.pc = "writing" /\ proc'.blogs = present
      BY <2>1 DEF Process
    <2> QED BY <2>2 DEF present
  <1>3. InStep(author, files, data, proc', run.recovery, 7)
    BY <1>2 DEF InStep, Enforcing
  <1> QED BY <1>1, <1>2, <1>3, QuietAdvances

LEMMA CountAdvances ==
  ASSUME Ours, CountHost
  PROVE  Advances
  <1>1. PICK host \in HostsOf(proc.blogs) :
           proc' = [proc EXCEPT !.blogs = @ \ host, !.at = host,
                       !.pc = IF Insecure(Seen, host) # {} THEN "replacing" ELSE @]
    BY DEF CountHost
  <1>2. /\ run.done = 7 /\ Typed /\ NoWrite /\ run' = run /\ proc.pc = "writing"
    BY Here DEF Ours, CountHost, Within
  <1>3. /\ proc \in Process /\ data \in Data
        /\ author.files = Current => Seen = data
    BY <1>2, OursTyped
  <1> DEFINE found == Insecure(Seen, host)
  <1> HIDE DEF found
  <1>4. /\ proc'.blogs = proc.blogs \ host /\ proc'.at = host
        /\ proc'.pc = IF found # {} THEN "replacing" ELSE "writing"
    BY <1>1, <1>2, <1>3 DEF Process, found
  <1>5. author.files = Current /\ found = {} => \A b \in host : InHttps(data, b)
    BY <1>3 DEF found, Insecure, InHttps
  <1>6. author.files = Current /\ author.data = Current =>
           \A b \in Present(data) \ proc.blogs : InHttps(data, b)
    BY <1>2 DEF Ours, InStep, Enforcing
  <1>7. Enforcing(author, data, proc')
    BY <1>4, <1>5, <1>6 DEF Enforcing
  <1>8. InStep(author, files, data, proc', run.recovery, 7)
    BY <1>4, <1>7 DEF InStep
  <1> QED BY <1>2, <1>4, <1>8, QuietAdvances

LEMMA ReplaceAdvances ==
  ASSUME Ours, ReplaceHost \/ ReplaceHostBreaks
  PROVE  Advances
  <1> DEFINE rec == run.recovery
             all == Rows(proc.at \cap Present(Seen))
  <1>1. /\ run.done = 7 /\ run' = run /\ Typed /\ proc.pc = "replacing" /\ site \in Site
    BY Here, OursTyped DEF Ours, ReplaceHost, ReplaceHostBreaks, Within
  <1>2. PICK rows : /\ ByWp(Rewritten(Seen, Upgraded, rows))
                    /\ (Go("writing") /\ rows = all) \/ Go("broken")
    BY DEF ReplaceHost, ReplaceHostBreaks
  <1>3. /\ Ready(rec, 7) /\ Fits(author, files, data, Current, rec, 7)
        /\ rec \in Recovery /\ data \in Data
        /\ \A p \in rec.https : OnTest(p.before) /\ p.after = HttpsSnapshot(p.before)
        /\ author.files = Current => files.db = "test" /\ Seen = data
    BY <1>1, OursTyped DEF Sound
  <1>4. \/ proc'.pc = "writing" /\ proc'.blogs = proc.blogs /\ rows = all
        \/ proc'.pc = "broken"
    BY <1>1, <1>2, GoTyped
  <1>5. Mine /\ files' = files
    BY <1>2 DEF ByWp
  <1>6. /\ author'.files = Current => author.files = Current
        /\ author'.data = Current => author.data = Current
    BY <1>5, OursOnly
  <1> DEFINE e == Rewritten(data, Upgraded, rows)
  <1>7. author.files = Current => data' = e
    BY <1>2, <1>3 DEF ByWp
  <1>8. rec.indexing = {}
    BY <1>3 DEF Ready
  <1>9. author.files = Current /\ author.data = Current => OwnKept(files, e, rec, 7)
    <2> SUFFICES ASSUME author.files = Current, author.data = Current, NEW p \in rec.https
                 PROVE  p.config = NetworkConfig(files) /\ Replays(e.net, p)
      BY <1>8 DEF OwnKept
    <2>1. p \in HttpsPlan /\ OnTest(p.before) /\ p.after = HttpsSnapshot(p.before)
      BY <1>3, RecoveryFields
    <2>2. p.before \in NetworkSnapshot
      BY <2>1 DEF HttpsPlan
    <2>3. p.config = NetworkConfig(files) /\ Replays(data.net, p)
      BY <1>3 DEF Fits, OwnKept
    <2> QED BY <1>1, <1>3, <2>1, <2>2, <2>3, UpgradedReplays
  <1>10. ASSUME author.files = Current, author.data = Current, proc'.pc = "writing"
         PROVE  \A b \in Present(e) \ proc'.blogs : InHttps(e, b)
    <2>1. Present(e) = Present(data) /\ rows = Rows(proc.at \cap Present(data)) /\ proc'.blogs = proc.blogs
      BY <1>1, <1>3, <1>4, <1>10, UrlsTyped, RewrittenTyped
    <2>2. \A b \in Present(data) \ (proc.blogs \cup proc.at) : InHttps(data, b)
      BY <1>1, <1>10 DEF Ours, InStep, Enforcing
    <2>3. \A b \in Present(data) : b \in proc.at => Rows({b}) \subseteq rows
      BY <2>1 DEF Rows
    <2> HIDE DEF e
    <2>4. \A b \in Present(data) \ proc.blogs : InHttps(e, b)
      BY <1>1, <1>3, <2>2, <2>3, UpgradedSecures DEF e
    <2> QED BY <2>1, <2>4
  <1> HIDE DEF e
  <1>11. author'.files = Current /\ author'.data = Current => OwnKept(files, data', rec, 7)
    BY <1>6, <1>7, <1>9
  <1>12. Fits(author', files', data', Current, rec, 7)
    BY <1>3, <1>5, <1>6, <1>11 DEF Fits, FilesKept, DataKept
  <1>13. InStep(author', files', data', proc', rec, 7)
    BY <1>4, <1>6, <1>7, <1>10 DEF InStep, Enforcing
  <1> QED BY <1>1, <1>3, <1>4, <1>12, <1>13 DEF Advances, Holds, Extends

LEMMA ValidateHttpsAdvances ==
  ASSUME Ours, ValidateHttps
  PROVE  Advances
  <1> DEFINE rec == Validated("test_https")
  <1>1. /\ run.done = 7 /\ Typed /\ NoWrite /\ Recover(rec)
        /\ \E p \in run.recovery.https : data.net = p.after
    BY Here DEF Ours, ValidateHttps, Within, Enforced
  <1>2. /\ Ready(run.recovery, 7) /\ Fits(author, files, data, Current, run.recovery, 7)
        /\ run \in Manifest /\ run.recovery \in Recovery /\ Single(run.recovery.https)
    BY <1>1, OursTyped DEF Sound
  <1>3. /\ rec.multisite = run.recovery.multisite /\ rec.https = run.recovery.https
        /\ rec.indexing = run.recovery.indexing
    BY <1>1, MarksTyped
  <1>4. rec.validated = run.recovery.validated \cup {"test_https"}
    BY <1>2, RecoveryFields DEF Validated
  <1> HIDE DEF rec
  <1>5. proc'.pc = "judge" /\ run'.recovery = rec
    BY <1>1, <1>2, GoTyped, ManifestFields DEF Recover
  <1>6. Ready(rec, 8) /\ rec.indexing = {}
    BY <1>2, <1>3, <1>4 DEF Ready
  <1>7. \A p \in rec.https : data.net = p.after
    BY <1>1, <1>2, <1>3 DEF Single
  <1>8. Fits(author, files, data, Current, rec, 8)
    BY <1>2, <1>3, <1>6, <1>7 DEF Fits, FilesKept, DataKept, OwnKept
  <1>9. InStep(author, files, data, proc', rec, run.done)
    BY <1>1, <1>5 DEF InStep, Enforcing
  <1> QED BY <1>1, <1>3, <1>4, <1>5, <1>6, <1>8, <1>9, QuietAdvances DEF Holds

\* Indexing is planned and disabled.
LEMMA PlanIndexingAdvances ==
  ASSUME Ours, PlanTestIndexing
  PROVE  Advances
  <1>1. /\ run.done = 8 /\ Typed /\ NoWrite
        /\ author' = author /\ files' = files /\ data' = data
    BY Here DEF Ours, PlanTestIndexing, Facing, NoWrite, target
  <1>2. PICK p \in run.recovery.https :
           Recover([Unmarked EXCEPT !.indexing =
               IF @ # {} THEN @
               ELSE {[https |-> p, before |-> [b \in Present(data) |-> Seen.public[b]]]}])
    BY DEF PlanTestIndexing
  <1> DEFINE plan == [https |-> p, before |-> [b \in Present(data) |-> Seen.public[b]]]
             rec == [Unmarked EXCEPT !.indexing = IF @ # {} THEN @ ELSE {plan}]
  <1>3. Recover(rec)
    BY <1>2
  <1>4. /\ run \in Manifest /\ run.recovery \in Recovery /\ Unmarked \in Recovery
        /\ Ready(run.recovery, 8) /\ Fits(author, files, data, Current, run.recovery, 8)
        /\ author.files = Current => Seen = data
    BY <1>1, OursTyped, MarksTyped
  <1>5. /\ plan.https = p /\ DOMAIN plan.before = Present(data)
        /\ \A b \in Present(data) : plan.before[b] = Seen.public[b]
    OBVIOUS
  <1> HIDE DEF plan
  <1>6. /\ rec.multisite = run.recovery.multisite /\ rec.https = run.recovery.https
        /\ rec.indexing = IF run.recovery.indexing # {} THEN run.recovery.indexing ELSE {plan}
    BY <1>1, <1>4, MarksTyped, RecoveryFields
  <1>7. rec.validated = run.recovery.validated \ {"test_indexing"}
    BY <1>4, RecoveryFields DEF Unmarked
  <1> HIDE DEF rec
  <1>8. proc'.pc = "judge" /\ run'.recovery = rec
    BY <1>1, <1>3, <1>4, GoTyped, ManifestFields DEF Recover
  <1>9. rec.indexing # {} /\ Ready(rec, 8) /\ Ready(rec, 9)
    BY <1>4, <1>5, <1>6, <1>7 DEF Ready
  <1>10. author.files = Current /\ author.data = Current =>
           /\ \A q \in rec.https : /\ q.config = NetworkConfig(files) /\ Replays(data.net, q)
                                   /\ data.net = q.after
           /\ \A i \in rec.indexing :
                 /\ DOMAIN i.before = Present(data)
                 /\ \A b \in Present(data) : data.public[b] \in {i.before[b], "0"}
    BY <1>4, <1>5, <1>6 DEF Fits, OwnKept
  <1>11. \A d \in {8, 9} : Fits(author, files, data, Current, rec, d)
    BY <1>4, <1>6, <1>10 DEF Fits, FilesKept, DataKept, OwnKept
  <1>12. InStep(author, files, data, proc', rec, 8)
    BY <1>8 DEF InStep
  <1>13. Extends(run.recovery, rec)
    BY <1>6 DEF Extends
  <1> QED BY <1>1, <1>8, <1>9, <1>11, <1>12, <1>13 DEF Advances, Holds

LEMMA StartIndexingAdvances ==
  ASSUME Ours, StartIndexing
  PROVE  Advances
  <1>1. /\ run.done = 9 /\ Typed /\ NoWrite /\ run' = [run EXCEPT !.recovery = Unmarked]
        /\ proc' = [proc EXCEPT !.pc = "writing", !.blogs = Present(data)]
    BY Here DEF Ours, StartIndexing, Facing
  <1>2. proc'.pc = "writing" /\ proc'.blogs = Present(data)
    <2> DEFINE present == Present(data)
    <2>1. proc \in Process /\ proc' = [proc EXCEPT !.pc = "writing", !.blogs = present]
      BY <1>1, OursTyped
    <2> HIDE DEF present
    <2>2. proc'.pc = "writing" /\ proc'.blogs = present
      BY <2>1 DEF Process
    <2> QED BY <2>2 DEF present
  <1>3. /\ run.recovery \in Recovery /\ run \in Manifest
        /\ Unmarked.multisite = run.recovery.multisite /\ Unmarked.https = run.recovery.https
        /\ Unmarked.indexing = run.recovery.indexing
    BY <1>1, OursTyped, MarksTyped
  <1>4. Unmarked.validated = run.recovery.validated \ {"test_indexing"}
    BY <1>3, RecoveryFields DEF Unmarked
  <1>5. run'.recovery = Unmarked
    BY <1>1, <1>3, ManifestFields
  <1>6. InStep(author, files, data, proc', Unmarked, 9)
    BY <1>2 DEF InStep, Disabling
  <1> QED BY <1>1, <1>2, <1>3, <1>4, <1>5, <1>6, QuietAdvances

LEMMA ReadAdvances ==
  ASSUME Ours, ReadBlog
  PROVE  Advances
  <1>1. PICK b \in proc.blogs :
           proc' = [proc EXCEPT !.blogs = @ \ {b}, !.at = {b},
                       !.pc = IF Seen.public[b] # "0" THEN "replacing" ELSE @]
    BY DEF ReadBlog
  <1>2. /\ run.done = 9 /\ Typed /\ NoWrite /\ run' = run /\ proc.pc = "writing"
        /\ proc \in Process
    BY Here, OursTyped DEF Ours, ReadBlog, Within
  <1> DEFINE pc == IF Seen.public[b] # "0" THEN "replacing" ELSE proc.pc
  <1>3. proc' = [proc EXCEPT !.blogs = @ \ {b}, !.at = {b}, !.pc = pc]
    BY <1>1
  <1>4. pc \in {"writing", "replacing"}
    BY <1>2
  <1> HIDE DEF pc
  <1>5. proc'.blogs \subseteq proc.blogs /\ proc'.pc \in {"writing", "replacing"}
    BY <1>2, <1>3, <1>4 DEF Process
  <1>6. Disabling(author, data, proc')
    BY <1>2, <1>5 DEF Ours, InStep, Disabling
  <1>7. InStep(author, files, data, proc', run.recovery, 9)
    BY <1>5, <1>6 DEF InStep
  <1> QED BY <1>2, <1>5, <1>7, QuietAdvances

LEMMA UpdateAdvances ==
  ASSUME Ours, UpdateBlog
  PROVE  Advances
  <1> DEFINE rec == run.recovery
  <1>1. /\ run.done = 9 /\ run' = run /\ Typed /\ proc.pc = "replacing" /\ Go("writing")
    BY Here DEF Ours, UpdateBlog, Within
  <1>2. PICK b \in proc.at : ByWp([Seen EXCEPT !.public[b] = "0"])
    BY DEF UpdateBlog
  <1>3. /\ Ready(rec, 9) /\ Fits(author, files, data, Current, rec, 9)
        /\ data \in Data
        /\ author.files = Current => files.db = "test" /\ Seen = data
    BY <1>1, OursTyped
  <1>4. proc'.pc = "writing" /\ proc'.blogs = proc.blogs
    BY <1>1, GoTyped
  <1>5. Mine /\ files' = files /\ (author.files = Current => data' = [data EXCEPT !.public[b] = "0"])
    BY <1>2, <1>3 DEF ByWp
  <1>6. /\ author'.files = Current => author.files = Current
        /\ author'.data = Current => author.data = Current
    BY <1>5, OursOnly
  <1> DEFINE public == [data.public EXCEPT ![b] = "0"]
             e == [data EXCEPT !.public = public]
  <1>7. public \in [Blogs -> Public] /\ \A o \in Blogs : public[o] \in {data.public[o], "0"}
    BY <1>3, DataFields DEF Public
  <1>8. author.files = Current => data' = e
    BY <1>5
  <1> HIDE DEF public
  <1>9. e \in Data /\ e.net = data.net /\ e.public = public /\ Present(data) \subseteq Blogs
    BY <1>3, <1>7, PublicChanges, DataFields
  <1> HIDE DEF e
  <1>10. Present(e) = Present(data)
    BY <1>9 DEF Present
  <1>11. author.files = Current /\ author.data = Current => OwnKept(files, e, rec, 9)
    <2> SUFFICES ASSUME author.files = Current, author.data = Current
                 PROVE  OwnKept(files, e, rec, 9)
      OBVIOUS
    <2>1. OwnKept(files, data, rec, 9)
      BY <1>3 DEF Fits
    <2>2. \A i \in rec.indexing : \A o \in Present(data) :
             public[o] \in {data.public[o], "0"} /\ data.public[o] \in {i.before[o], "0"}
      BY <1>7, <1>9, <2>1 DEF OwnKept
    <2> QED BY <1>9, <1>10, <2>1, <2>2 DEF OwnKept
  <1>12. Fits(author', files', data', Current, rec, 9)
    BY <1>3, <1>5, <1>6, <1>8, <1>11 DEF Fits, FilesKept, DataKept
  <1>13. InStep(author', files', data', proc', rec, 9)
    BY <1>1, <1>4, <1>6, <1>8, <1>10 DEF Ours, InStep, Disabling
  <1> QED BY <1>1, <1>3, <1>4, <1>12, <1>13 DEF Advances, Holds, Extends

LEMMA ValidateIndexingAdvances ==
  ASSUME Ours, ValidateIndexing
  PROVE  Advances
  <1> DEFINE rec == Validated("test_indexing")
  <1>1. /\ run.done = 9 /\ Typed /\ NoWrite /\ Recover(rec)
    BY Here DEF Ours, ValidateIndexing, Within
  <1>2. /\ Ready(run.recovery, 9) /\ Fits(author, files, data, Current, run.recovery, 9)
        /\ run \in Manifest /\ run.recovery \in Recovery
    BY <1>1, OursTyped
  <1>3. /\ rec.multisite = run.recovery.multisite /\ rec.https = run.recovery.https
        /\ rec.indexing = run.recovery.indexing
    BY <1>1, MarksTyped
  <1>4. rec.validated = run.recovery.validated \cup {"test_indexing"}
    BY <1>2, RecoveryFields DEF Validated
  <1> HIDE DEF rec
  <1>5. proc'.pc = "judge" /\ run'.recovery = rec
    BY <1>1, <1>2, GoTyped, ManifestFields DEF Recover
  <1>6. Ready(rec, 10)
    BY <1>2, <1>3, <1>4 DEF Ready
  <1>7. Fits(author, files, data, Current, rec, 10)
    BY <1>2, <1>3 DEF Fits, FilesKept, DataKept, OwnKept
  <1>8. InStep(author, files, data, proc', rec, run.done)
    BY <1>1, <1>5 DEF InStep, Disabling
  <1> QED BY <1>1, <1>3, <1>4, <1>5, <1>6, <1>7, <1>8, QuietAdvances DEF Holds

-----------------------------------------------------------------------------
(***************************************************************************)
(* What becomes of every run.                                              *)
(***************************************************************************)

LEMMA LastingAfter ==
  ASSUME UNCHANGED <<site, source>>,
         \A r \in 1..Current' :
            /\ Ready(disk'[r].recovery, disk'[r].done)
            /\ r # Current' \/ proc'.pc = "idle" =>
                  Fits(author', files', data', r, disk'[r].recovery, disk'[r].done)
  PROVE  Lasting'
  <1>1. \A r \in 1..Current' : \A rec, d : rec = disk'[r].recovery /\ d = disk'[r].done =>
           Ready(rec, d)'
    BY KeptStays
  <1>2. \A r \in 1..Current' : \A a, f, x, rec, d :
           /\ rec = disk'[r].recovery /\ d = disk'[r].done /\ a = author' /\ f = files' /\ x = data'
           /\ r # Current' \/ proc'.pc = "idle"
           => Fits(a, f, x, r, rec, d)'
    BY KeptStays
  <1> QED BY <1>1, <1>2 DEF Lasting

LEMMA NowAfter ==
  ASSUME UNCHANGED <<site, source>>, Current' = Current,
         Extends(disk'[Current].recovery, run'.recovery),
         Holds(author', files', data', run'.recovery, run'.done),
         proc'.pc = "judge" => Holds(author', files', data', run'.recovery, run'.done + 1),
         InStep(author', files', data', proc', run'.recovery, run'.done)
  PROVE  AtHand' /\ InStep(author, files, data, proc, run.recovery, run.done)'
  <1>1. \A few, rec : few = disk'[Current].recovery /\ rec = run'.recovery => Extends(few, rec)'
    BY KeptStays
  <1>2. \A a, f, x, rec, d :
           a = author' /\ f = files' /\ x = data' /\ rec = run'.recovery =>
              /\ d = run'.done => Holds(a, f, x, rec, d)'
              /\ proc'.pc = "judge" /\ d = run'.done + 1 => Holds(a, f, x, rec, d)'
    BY StepKeptStays
  <1>3. AtHand'
    BY <1>1, <1>2 DEF AtHand
  <1>4. \A a, f, x, q, rec, d :
           a = author' /\ f = files' /\ x = data' /\ q = proc' /\ rec = run'.recovery /\ d = run'.done =>
              InStep(a, f, x, q, rec, d)'
    BY StepKeptStays
  <1>5. InStep(author, files, data, proc, run.recovery, run.done)'
    BY <1>4
  <1> QED BY <1>3, <1>5

LEMMA ReplayingAfter ==
  ASSUME SourceIs, UNCHANGED <<site, source>>, ~ site.overlaps => Lasting',
         ~ site.overlaps /\ proc'.pc # "idle" =>
            AtHand' /\ InStep(author, files, data, proc, run.recovery, run.done)'
  PROVE  Replaying'
  <1>1. SourceIs'
    BY DEF SourceIs, From, Present, On
  <1> QED BY <1>1 DEF Replaying

\* What the step of a run, or an edit, leaves of the others.
LEMMA RestReplays ==
  ASSUME Typed, Lasting, UNCHANGED <<site, source, disk>>, proc'.pc = "idle" <=> proc.pc = "idle",
         \A r \in Nat \ {0} : r # Current \/ proc.pc = "idle" =>
            /\ author'.files = r => author.files = r /\ files' = files
            /\ author'.data = r => author.data = r /\ data' = data
  PROVE  Lasting'
  <1>1. Current' = Current /\ Current \in Nat
    BY LenProperties DEF Typed, TypeOK, Current
  <1>2. \A r \in 1..Current :
           /\ Ready(disk[r].recovery, disk[r].done)
           /\ r # Current \/ proc.pc = "idle" =>
                 Fits(author', files', data', r, disk[r].recovery, disk[r].done)
    <2> TAKE r \in 1..Current
    <2>1. Ready(disk[r].recovery, disk[r].done)
      BY DEF Lasting
    <2>2. ASSUME r # Current \/ proc.pc = "idle"
          PROVE  Fits(author', files', data', r, disk[r].recovery, disk[r].done)
      <3>1. Fits(author, files, data, r, disk[r].recovery, disk[r].done)
        BY <2>2 DEF Lasting
      <3>2. /\ author'.files = r => author.files = r /\ files' = files
            /\ author'.data = r => author.data = r /\ data' = data
        BY <1>1, <2>2
      <3>3. Extends(disk[r].recovery, disk[r].recovery)
        BY DEF Extends
      <3> QED BY <3>1, <3>2, <3>3, FitsOn
    <2> QED BY <2>1, <2>2
  <1> QED BY <1>1, <1>2, LastingAfter

LEMMA InitReplays ==
  ASSUME Init
  PROVE  Replaying
  <1>1. site \in Site /\ (site.subdomains => site.network)
    BY SitesAssumption DEF Init, Site
  <1>2. PICK found \in Sources :
            source =
                [net |-> [domain |-> From,
                          blogs |-> [b \in found.present |->
                            [domain |-> From, home |-> On("old"), siteurl |-> On("old")]]],
                 content |-> [b \in Blogs |-> On("old")], public |-> found.public]
    BY DEF Init, From
  <1>3. SourceIs
    BY <1>1, <1>2 DEF SourceIs, Present
  <1>4. proc.pc = "idle" /\ disk = <<>>
    BY DEF Init, Idle
  <1>5. Lasting
    <2>1. Current = 0
      BY <1>4, EmptySeq DEF Current
    <2> QED BY <2>1 DEF Lasting
  <1> QED BY <1>3, <1>4, <1>5 DEF Replaying

LEMMA StepsReplay ==
  ASSUME Typed, Standing, Replaying,
         CopyFiles \/ CopyDatabase \/ WriteTestDbConfig
         \/ CorrectMultisite \/ SearchReplace \/ SearchReplaceBreaks \/ TestHttps \/ TestIndexing
  PROVE  Replaying'
  <1>1. /\ proc.pc # "idle" /\ UNCHANGED <<site, source, disk>>
        /\ run'.done = run.done /\ Current' = Current
    <2>1. CASE CopyFiles \/ CopyDatabase \/ WriteTestDbConfig
      BY <2>1 DEF CopyFiles, CopyDatabase, WriteTestDbConfig, Facing, Current
    <2>2. CASE CorrectMultisite \/ SearchReplace \/ SearchReplaceBreaks \/ TestHttps \/ TestIndexing
      BY <2>2, MultisiteEffects, SearchEffects, HttpsEffects, IndexingEffects DEF Current
    <2> QED BY <2>1, <2>2
  <1>2. /\ author \in [files: 0..Current, data: 0..Current] /\ Current \in Nat \ {0}
    BY <1>1, HereTyped DEF Typed, TypeOK
  <1>3. \A r \in Nat \ {0} : r # Current =>
           /\ author'.files = r => author.files = r /\ files' = files
           /\ author'.data = r => author.data = r /\ data' = data
    <2>1. CASE CopyFiles
      BY <1>2, <2>1 DEF CopyFiles
    <2>2. CASE CopyDatabase
      BY <1>2, <2>2 DEF CopyDatabase
    <2>3. CASE Mine
      BY <2>3, MineOnly
    <2>4. Mine \/ CopyFiles \/ CopyDatabase
      BY MultisiteEffects, SearchEffects, HttpsEffects, IndexingEffects DEF WriteTestDbConfig
    <2> QED BY <2>1, <2>2, <2>3, <2>4
  <1>4. CASE site.overlaps
    BY <1>1, <1>4, ReplayingAfter DEF Replaying
  <1>5. CASE ~ site.overlaps
    <2>1. Ours
      BY <1>1, <1>5 DEF Ours, Replaying
    <2>2. Advances
      BY <2>1, CopiesAdvance, PlanAdvances, SkipAdvances, InspectAdvances, ApplyAdvances,
         SetDomainAdvances, ValidateNetworkAdvances, SearchAdvances, PlanHttpsAdvances,
         StartHttpsAdvances, CountAdvances, ReplaceAdvances, ValidateHttpsAdvances,
         PlanIndexingAdvances, StartIndexingAdvances, ReadAdvances, UpdateAdvances,
         ValidateIndexingAdvances
      DEF CorrectMultisite, TestHttps, TestIndexing
    <2>3. Lasting /\ proc'.pc # "idle"
      BY <1>5, <2>2 DEF Replaying, Advances
    <2>4. Lasting'
      BY <1>1, <1>3, <2>3, RestReplays
    <2>5. Extends(disk[Current].recovery, run'.recovery)
      BY <2>1, <2>2 DEF Ours, AtHand, Advances, Extends
    <2>6. AtHand' /\ InStep(author, files, data, proc, run.recovery, run.done)'
      BY <1>1, <2>2, <2>5, NowAfter DEF Advances
    <2>7. SourceIs
      BY DEF Replaying
    <2> QED BY <1>1, <2>4, <2>6, <2>7, ReplayingAfter
  <1> QED BY <1>4, <1>5

LEMMA BeginningReplays ==
  ASSUME Typed, Replaying, NEW m, Begin(m),
         ~ site.overlaps => /\ Ready(m.recovery, m.done)
                            /\ Fits(author', files, data, Current + 1, m.recovery, m.done),
         \A r \in 1..Current : /\ author'.files = r => author.files = r
                               /\ author'.data = r => author.data = r
  PROVE  Replaying'
  <1>1. /\ proc.pc = "idle" /\ UNCHANGED <<site, source, files, data>> /\ run' = m
        /\ disk' = Append(disk, m) /\ proc'.pc = "facing"
    BY DEF Begin, Idle
  <1>2. Current \in Nat /\ IsSeq(disk)
    BY LenProperties DEF Typed, TypeOK, Current, IsSeq
  <1>3. /\ Current' = Current + 1 /\ disk'[Current + 1] = m
        /\ \A r \in 1..Current : disk'[r] = disk[r]
    BY <1>1, <1>2, SeqGrows DEF Current
  <1>4. ASSUME ~ site.overlaps
        PROVE  Lasting'
    <2>1. \A r \in 1..Current :
             /\ Ready(disk'[r].recovery, disk'[r].done)
             /\ Fits(author', files', data', r, disk'[r].recovery, disk'[r].done)
      <3> TAKE r \in 1..Current
      <3>1. /\ Ready(disk[r].recovery, disk[r].done)
            /\ Fits(author, files, data, r, disk[r].recovery, disk[r].done)
        BY <1>1, <1>4 DEF Replaying, Lasting
      <3>2. Extends(disk[r].recovery, disk[r].recovery)
        BY DEF Extends
      <3>3. Fits(author', files', data', r, disk[r].recovery, disk[r].done)
        BY <1>1, <3>1, <3>2, FitsOn
      <3> QED BY <1>3, <3>1, <3>3
    <2>2. \A r \in 1..(Current + 1) : r \in 1..Current \/ r = Current + 1
      BY <1>2
    <2>3. \A r \in 1..Current' :
             /\ Ready(disk'[r].recovery, disk'[r].done)
             /\ r # Current' \/ proc'.pc = "idle" =>
                   Fits(author', files', data', r, disk'[r].recovery, disk'[r].done)
      BY <1>1, <1>3, <1>4, <2>1, <2>2
    <2> QED BY <1>1, <2>3, LastingAfter
  <1>5. ASSUME ~ site.overlaps
        PROVE  AtHand' /\ InStep(author, files, data, proc, run.recovery, run.done)'
    <2>1. Ready(m.recovery, m.done) /\ Fits(author', files', data', Current', m.recovery, m.done)
      BY <1>1, <1>3, <1>5
    <2>2. \A few, rec : few = disk'[Current'].recovery /\ rec = run'.recovery => Extends(few, rec)'
      BY <1>1, <1>3, KeptStays DEF Extends
    <2>3. \A a, f, x, rec, d :
             a = author' /\ f = files' /\ x = data' /\ rec = run'.recovery /\ d = run'.done =>
                Holds(a, f, x, rec, d)'
      <3>1. \A rec, d : rec = run'.recovery /\ d = run'.done => Ready(rec, d)'
        BY <1>1, <2>1, KeptStays
      <3>2. \A a, f, x, r, rec, d :
             a = author' /\ f = files' /\ x = data' /\ r = Current' /\ rec = run'.recovery
             /\ d = run'.done => Fits(a, f, x, r, rec, d)'
        BY <1>1, <2>1, KeptStays
      <3> QED BY <3>1, <3>2 DEF Holds
    <2>4. AtHand'
      BY <1>1, <2>2, <2>3 DEF AtHand
    <2>5. InStep(author, files, data, proc, run.recovery, run.done)'
      BY <1>1 DEF InStep, Correcting, Enforcing, Disabling
    <2> QED BY <2>4, <2>5
  <1> QED BY <1>1, <1>4, <1>5, ReplayingAfter DEF Replaying

LEMMA BeginReplays ==
  ASSUME Typed, Replaying, Execute \/ (\E r \in 1..Current : Resume(r))
  PROVE  Replaying'
  <1>1. author \in [files: 0..Current, data: 0..Current] /\ Current \in Nat /\ disk \in Seq(Manifest)
    BY LenProperties DEF Typed, TypeOK, Current
  <1>2. CASE Execute
    <2>1. Begin(Fresh) /\ author' = author
      BY <1>2 DEF Execute
    <2>2. /\ Fresh.recovery = [multisite |-> {}, https |-> {}, indexing |-> {}, validated |-> {}]
          /\ Fresh.done = 0
      BY DEF Fresh
    <2>3. Ready(Fresh.recovery, Fresh.done)
      BY <2>2 DEF Ready
    <2>4. author'.files # Current + 1 /\ author'.data # Current + 1
      BY <1>1, <2>1
    <2>5. Fits(author', files, data, Current + 1, Fresh.recovery, Fresh.done)
      BY <2>4 DEF Fits
    <2> QED BY <2>1, <2>3, <2>5, BeginningReplays
  <1>3. CASE \E r \in 1..Current : Resume(r)
    <2>1. PICK r \in 1..Current : Resume(r)
      BY <1>3
    <2> DEFINE m == [disk[r] EXCEPT !.status = "RUNNING", !.print = {}]
    <2>2. /\ Begin(m) /\ proc.pc = "idle"
          /\ author' = [part \in DOMAIN author |->
                           IF author[part] = r THEN Current + 1 ELSE author[part]]
      BY <2>1 DEF Resume, Begin
    <2>3. m.done = disk[r].done /\ m.recovery = disk[r].recovery
      BY <1>1 DEF Manifest
    <2> HIDE DEF m
    <2>4. /\ author'.files = IF author.files = r THEN Current + 1 ELSE author.files
          /\ author'.data = IF author.data = r THEN Current + 1 ELSE author.data
      BY <1>1, <2>2
    <2>5. /\ author'.files = Current + 1 => author.files = r
          /\ author'.data = Current + 1 => author.data = r
      BY <1>1, <2>4
    <2>6. \A i \in 1..Current : /\ author'.files = i => author.files = i
                                /\ author'.data = i => author.data = i
      BY <1>1, <2>4
    <2>7. ASSUME ~ site.overlaps
          PROVE  /\ Ready(m.recovery, m.done)
                 /\ Fits(author', files, data, Current + 1, m.recovery, m.done)
      <3>1. /\ Ready(disk[r].recovery, disk[r].done)
            /\ Fits(author, files, data, r, disk[r].recovery, disk[r].done)
        BY <2>2, <2>7 DEF Replaying, Lasting
      <3>2. Extends(disk[r].recovery, disk[r].recovery)
        BY DEF Extends
      <3> QED BY <2>3, <2>5, <3>1, <3>2, FitsOn
    <2> QED BY <2>2, <2>6, <2>7, BeginningReplays
  <1> QED BY <1>2, <1>3

LEMMA EditReplays ==
  ASSUME Typed, Replaying, Edit
  PROVE  Replaying'
  <1>1. author' = [author EXCEPT !.data = 0] /\ UNCHANGED <<site, source, files, disk, run, proc>>
    BY DEF Edit
  <1>2. /\ author \in [files: 0..Current, data: 0..Current] /\ Current \in Nat /\ Current' = Current
        /\ author'.files = author.files /\ author'.data = 0
    BY <1>1, LenProperties DEF Typed, TypeOK, Current
  <1>3. \A r \in Nat \ {0} : /\ author'.files = r => author.files = r /\ files' = files
                            /\ author'.data = r => author.data = r /\ data' = data
    BY <1>1, <1>2
  <1>4. ~ site.overlaps => Lasting'
    BY <1>1, <1>3, RestReplays DEF Replaying
  <1>5. ASSUME ~ site.overlaps, proc'.pc # "idle"
        PROVE  AtHand' /\ InStep(author, files, data, proc, run.recovery, run.done)'
    <2>1. /\ AtHand /\ InStep(author, files, data, proc, run.recovery, run.done)
          /\ Current \in Nat \ {0}
      BY <1>1, <1>5, HereTyped DEF Replaying
    <2>2. /\ author'.files = Current => author.files = Current /\ files' = files
          /\ author'.data = Current => author.data = Current /\ data' = data
          /\ author'.data # Current
      BY <1>1, <1>2, <2>1
    <2>3. \A rec, d : Holds(author, files, data, rec, d) => Holds(author', files', data', rec, d)
      <3> SUFFICES ASSUME NEW rec, NEW d, Holds(author, files, data, rec, d)
                   PROVE  Holds(author', files', data', rec, d)
        OBVIOUS
      <3>1. Extends(rec, rec)
        BY DEF Extends
      <3>2. Ready(rec, d) /\ Fits(author, files, data, Current, rec, d)
        BY DEF Holds
      <3>3. Fits(author', files', data', Current, rec, d)
        BY <2>2, <3>1, <3>2, FitsOn
      <3> QED BY <3>2, <3>3 DEF Holds
    <2>4. InStep(author', files', data', proc', run'.recovery, run'.done)
      BY <1>1, <1>2, <2>1, <2>2 DEF InStep, Correcting, Enforcing, Disabling
    <2> QED BY <1>1, <1>2, <2>1, <2>3, <2>4, NowAfter DEF AtHand
  <1> QED BY <1>1, <1>4, <1>5, ReplayingAfter DEF Replaying

\* What the end of a step saves has the plans of the run.
LEMMA EndKeeps ==
  ASSUME Typed, Fails \/ JudgeContinues \/ JudgeFinishes \/ JudgeStops \/ Crash
  PROVE  \E m \in Manifest :
            /\ disk' = disk \/ disk' = Saved(m)
            /\ m.done = run.done \/ (proc.pc = "judge" /\ m.done = run.done + 1)
            /\ m.recovery.multisite = run.recovery.multisite /\ m.recovery.https = run.recovery.https
            /\ m.recovery.indexing = run.recovery.indexing
            /\ run.recovery.validated \ {"test_indexing"} \subseteq m.recovery.validated
  <1>1. run \in Manifest /\ run.recovery \in Recovery
    BY ManifestFields DEF Typed, TypeOK
  <1>2. CASE Fails
    <2>1. disk' = Saved(Closed(Failed))
      BY <1>2 DEF Fails, Failed
    <2>2. /\ Closed(Failed) \in Manifest /\ Closed(Failed).done = run.done
          /\ Closed(Failed).recovery = Failed.recovery
      BY FailedTyped, ClosedTyped
    <2>3. Failed.recovery \in {run.recovery, Unmarked}
      BY <1>1, ManifestFields DEF Failed
    <2>4. /\ Unmarked.multisite = run.recovery.multisite /\ Unmarked.https = run.recovery.https
          /\ Unmarked.indexing = run.recovery.indexing
      BY MarksTyped
    <2>5. Unmarked.validated = run.recovery.validated \ {"test_indexing"}
      BY <1>1, RecoveryFields DEF Unmarked
    <2> QED BY <2>1, <2>2, <2>3, <2>4, <2>5
  <1>3. CASE JudgeContinues \/ Crash
    <2>1. /\ proc.pc # "idle"
          /\ disk' = disk \/ (proc.pc = "judge" /\ disk' = Saved(Counted))
      BY <1>3 DEF JudgeContinues, Crash
    <2>2. Counted \in Manifest /\ Counted.done = run.done + 1 /\ Counted.recovery = run.recovery
      BY <2>1, CountedTyped
    <2> QED BY <1>1, <2>1, <2>2
  <1>4. CASE JudgeFinishes
    <2> DEFINE m == [Counted EXCEPT !.status = "EXECUTED", !.print = {files}]
    <2>1. disk' = Saved(m) /\ proc.pc = "judge"
      BY <1>4 DEF JudgeFinishes
    <2>2. m \in Manifest /\ m.done = run.done + 1 /\ m.recovery = run.recovery
      BY <2>1, CountedTyped
    <2> HIDE DEF m
    <2> QED BY <2>1, <2>2
  <1>5. CASE JudgeStops
    <2>1. disk' = Saved(Closed(run))
      BY <1>5 DEF JudgeStops
    <2>2. /\ Closed(run) \in Manifest /\ Closed(run).done = run.done
          /\ Closed(run).recovery = run.recovery
      BY <1>1, ClosedTyped
    <2> QED BY <2>1, <2>2
  <1> QED BY <1>2, <1>3, <1>4, <1>5

LEMMA EndsReplay ==
  ASSUME Typed, Replaying, Fails \/ JudgeContinues \/ JudgeFinishes \/ JudgeStops \/ Crash
  PROVE  Replaying'
  <1>1. /\ proc.pc # "idle" /\ UNCHANGED <<site, source, files, data, author>>
        /\ proc'.pc = "idle" \/ JudgeContinues
    BY DEF Fails, JudgeContinues, JudgeFinishes, JudgeStops, Crash, target, Idle
  <1>2. PICK m \in Manifest :
            /\ disk' = disk \/ disk' = Saved(m)
            /\ m.done = run.done \/ (proc.pc = "judge" /\ m.done = run.done + 1)
            /\ m.recovery.multisite = run.recovery.multisite /\ m.recovery.https = run.recovery.https
            /\ m.recovery.indexing = run.recovery.indexing
            /\ run.recovery.validated \ {"test_indexing"} \subseteq m.recovery.validated
    BY EndKeeps
  <1>3. /\ Current \in 1..Current /\ disk \in Seq(Manifest) /\ run.done \in 0..9
        /\ disk[Current].done = run.done
    BY <1>1, HereTyped DEF Typed, TypeOK, Located
  <1>4. /\ Current' = Current
        /\ \A r \in 1..Current : disk'[r] = disk[r] \/ (r = Current /\ disk'[r] = m)
    BY <1>2, <1>3, ExceptSeq DEF Saved, Current
  <1>5. ASSUME ~ site.overlaps
        PROVE  Lasting'
    <2>1. /\ Lasting /\ Extends(disk[Current].recovery, run.recovery)
          /\ Holds(author, files, data, run.recovery, run.done)
          /\ proc.pc = "judge" => Holds(author, files, data, run.recovery, run.done + 1)
      BY <1>1, <1>5 DEF Replaying, AtHand
    <2>2. Extends(m.recovery, run.recovery)
      BY <1>2 DEF Extends
    <2>3. Ready(m.recovery, m.done) /\ Fits(author, files, data, Current, m.recovery, m.done)
      <3>1. Ready(run.recovery, m.done) /\ Fits(author, files, data, Current, run.recovery, m.done)
        BY <1>2, <2>1 DEF Holds
      <3> QED BY <1>2, <2>2, <3>1, ReadyOn, FitsOn
    <2>4. /\ Ready(disk[Current].recovery, disk[Current].done)
          /\ Fits(author, files, data, Current, disk[Current].recovery, disk[Current].done)
      <3>1. Ready(disk[Current].recovery, disk[Current].done)
        BY <1>3, <2>1 DEF Lasting
      <3>2. Fits(author, files, data, Current, run.recovery, disk[Current].done)
        BY <1>3, <2>1 DEF Holds
      <3> QED BY <2>1, <3>1, <3>2, FitsOn
    <2>5. \A r \in 1..Current :
             /\ Ready(disk'[r].recovery, disk'[r].done)
             /\ Fits(author', files', data', r, disk'[r].recovery, disk'[r].done)
      <3> TAKE r \in 1..Current
      <3>1. CASE r = Current
        BY <1>1, <1>4, <2>3, <2>4, <3>1
      <3>2. CASE r # Current
        BY <1>1, <1>4, <2>1, <3>2 DEF Lasting
      <3> QED BY <3>1, <3>2
    <2> QED BY <1>1, <1>4, <2>5, LastingAfter
  <1>6. ASSUME ~ site.overlaps, proc'.pc # "idle"
        PROVE  AtHand' /\ InStep(author, files, data, proc, run.recovery, run.done)'
    <2>1. /\ proc.pc = "judge" /\ run' = Counted /\ disk' = Saved(Counted) /\ Go("facing")
      BY <1>1, <1>6 DEF JudgeContinues
    <2>2. Counted.recovery = run.recovery /\ Counted.done = run.done + 1 /\ proc'.pc = "facing"
          /\ Counted \in Manifest
      BY <1>1, <2>1, CountedTyped, GoTyped
    <2>3. disk'[Current].recovery = run'.recovery
      <3>1. IsSeq(disk)
        BY <1>3 DEF IsSeq
      <3> QED BY <1>3, <2>1, <2>2, <3>1, SeqChanges DEF Saved, Current
    <2>4. Holds(author', files', data', run'.recovery, run'.done)
      BY <1>1, <1>6, <2>1, <2>2 DEF Replaying, AtHand
    <2>5. Extends(disk'[Current].recovery, run'.recovery)
      BY <2>3 DEF Extends
    <2>6. InStep(author', files', data', proc', run'.recovery, run'.done)
      BY <2>2 DEF InStep, Correcting, Enforcing, Disabling
    <2> QED BY <1>1, <1>4, <2>2, <2>4, <2>5, <2>6, NowAfter
  <1> QED BY <1>1, <1>5, <1>6, ReplayingAfter DEF Replaying

-----------------------------------------------------------------------------
(***************************************************************************)
(* What the requirements of the steps find.                                *)
(***************************************************************************)

Own ==
    /\ Typed /\ Standing /\ Replaying /\ ~ site.overlaps /\ OwnWork /\ proc.pc # "idle"

LEMMA OwnFacts ==
  ASSUME Own
  PROVE  /\ run.done \in 0..9 /\ site \in Site /\ run.recovery \in Recovery /\ Sound(run.recovery)
         /\ data \in Data /\ files \in Config /\ SourceIs
         /\ Ready(run.recovery, run.done) /\ FilesKept(files, run.done)
         /\ DataKept(data, run.recovery, run.done) /\ OwnKept(files, data, run.recovery, run.done)
         /\ InStep(author, files, data, proc, run.recovery, run.done)
         /\ author.files = Current /\ author.data = Current
         /\ run.done >= 3 => TestConnection /\ Seen = data
  <1>1. Ours
    BY DEF Own, Ours, Replaying
  <1>2. author.files = Current /\ author.data = Current
    BY DEF Own, OwnWork
  <1> QED BY <1>1, <1>2, OursTyped DEF Ours, Fits, TestConnection

LEMMA OwnHttps ==
  ASSUME Own, run.done >= 7
  PROVE  /\ ReplaysHttps
         /\ run.done >= 8 => StillSecured
         /\ run.done >= 8 => "test_https" \in run.recovery.validated
  <1>1. PICK p : p \in run.recovery.https
    BY OwnFacts DEF Ready
  <1>2. /\ p.config = NetworkConfig(files) /\ Replays(data.net, p)
        /\ run.done >= 8 => data.net = p.after
    BY <1>1, OwnFacts DEF OwnKept
  <1>3. /\ site.network => "multisite" \in run.recovery.validated
        /\ run.done >= 8 => "test_https" \in run.recovery.validated
    BY OwnFacts DEF Ready
  <1> QED BY <1>1, <1>2, <1>3 DEF ReplaysHttps, StillSecured

LEMMA OwnIndexing ==
  ASSUME Own, run.done >= 8, run.recovery.indexing # {}
  PROVE  ReplaysIndexing
  <1>1. PICK i : i \in run.recovery.indexing
    OBVIOUS
  <1>2. i.https \in run.recovery.https
    BY <1>1, OwnFacts DEF Ready
  <1>3. /\ DOMAIN i.before = Present(data)
        /\ \A b \in Present(data) : data.public[b] \in {i.before[b], "0"}
    BY <1>1, OwnFacts DEF OwnKept
  <1>4. Seen = data
    BY OwnFacts
  <1> QED BY <1>1, <1>2, <1>3, <1>4 DEF ReplaysIndexing, ReplaysPublic

LEMMA OwnMultisite ==
  ASSUME Own
  PROVE  /\ run.done = 3 => PlansMultisite
         /\ run.done = 4 => CorrectsMultisite
  <1> DEFINE rec == run.recovery
  <1>1. CASE ~ site.network
    <2>1. rec.multisite = {}
      BY <1>1, OwnFacts DEF Ready
    <2> QED BY <1>1, <2>1 DEF PlansMultisite, CorrectsMultisite
  <1>2. CASE site.network
    <2>1. Transformable("old", source.net)
      BY <1>2, SourceTransforms DEF Own, Replaying
    <2>2. ASSUME run.done = 3
          PROVE  PlansMultisite
      <3> DEFINE payload == [before |-> data.net, after |-> Transform(data.net), config |-> files.domain]
      <3>1. files.domain = "old" /\ data = source /\ TestConnection
        BY <2>2, OwnFacts DEF FilesKept, DataKept
      <3>2. \A p \in rec.multisite : p = payload
        <4> TAKE p \in rec.multisite
        <4>1. /\ p.before = source.net /\ p.config = "old" /\ p.after = Transform(p.before)
              /\ p \in MultisitePlan
          BY OwnFacts, RecoveryFields DEF DataKept, Sound
        <4>2. p = [before |-> p.before, after |-> p.after, config |-> p.config]
          BY <4>1 DEF MultisitePlan
        <4> QED BY <3>1, <4>1, <4>2
      <3> QED BY <1>2, <2>1, <3>1, <3>2 DEF PlansMultisite
    <2>3. ASSUME run.done = 4
          PROVE  CorrectsMultisite
      <3>1. PICK p : p \in rec.multisite
        BY <1>2, <2>3, OwnFacts DEF Ready
      <3>2. p.before = source.net /\ p.config = "old" /\ Replays(data.net, p)
        BY <2>3, <3>1, OwnFacts DEF DataKept
      <3>3. files.domain \in {p.config, "new"} /\ TestConnection
        BY <2>3, <3>2, OwnFacts DEF Config
      <3> QED BY <1>2, <2>1, <3>1, <3>2, <3>3 DEF CorrectsMultisite
    <2> QED BY <2>2, <2>3
  <1> QED BY <1>1, <1>2

LEMMA OwnHttpsPlan ==
  ASSUME Own, run.done = 6
  PROVE  PlansHttps
  <1> DEFINE rec == run.recovery
  <1>1. TestConnection /\ OnTest(data.net)
    BY OwnFacts DEF OwnKept
  <1>2. rec.https # {} => ReplaysHttps
    BY OwnFacts DEF OwnKept, ReplaysHttps
  <1>3. ASSUME site.network
        PROVE  FollowsMultisite
    <2>1. PICK p : p \in rec.multisite
      BY <1>3, OwnFacts DEF Ready
    <2>2. data.net = p.after
      BY <2>1, OwnFacts DEF DataKept
    <2>3. files.domain = "new" /\ "multisite" \in rec.validated
      BY <1>3, OwnFacts DEF FilesKept, Ready
    <2> QED BY <2>1, <2>2, <2>3 DEF FollowsMultisite
  <1> QED BY <1>1, <1>2, <1>3 DEF PlansHttps, OnTest, Present

LEMMA OwnEnforced ==
  ASSUME Own, run.done = 7, proc.pc = "writing", proc.blogs = {}
  PROVE  Enforced
  <1>1. \A b \in Present(data) : InHttps(data, b)
    BY OwnFacts DEF InStep, Enforcing
  <1>2. PICK p \in run.recovery.https : p.config = NetworkConfig(files) /\ Replays(data.net, p)
    BY OwnHttps DEF ReplaysHttps
  <1>3. p \in HttpsPlan /\ OnTest(p.before) /\ p.after = HttpsSnapshot(p.before)
    BY OwnFacts, RecoveryFields DEF Sound
  <1>4. p.before \in NetworkSnapshot
    BY <1>3 DEF HttpsPlan
  <1>5. data.net = p.after
    BY <1>1, <1>2, <1>3, <1>4, OwnFacts, SecuredIsAfter
  <1>6. Insecure(Seen, Present(data)) = {}
    BY <1>1, OwnFacts DEF Insecure, InHttps
  <1> QED BY <1>2, <1>5, <1>6 DEF Enforced

LEMMA OwnAccepted ==
  ASSUME Own
  PROVE  Accepted(StepHere)
  <1>1. Typed /\ proc.pc # "idle" /\ run.done \in 0..9
    BY OwnFacts DEF Own
  <1>2. CASE StepHere \in {"plan_multisite_domain", "correct_multisite_domain"}
    BY <1>1, <1>2, Here, OwnMultisite DEF Accepted
  <1>3. CASE StepHere = "plan_test_https"
    BY <1>1, <1>3, Here, OwnHttpsPlan DEF Accepted
  <1>4. CASE StepHere = "enforce_test_https"
    <2>1. run.done = 7
      BY <1>1, <1>4, Here
    <2>2. EnforcesHttps
      BY <2>1, OwnHttps, OwnFacts DEF EnforcesHttps
    <2> QED BY <1>4, <2>2 DEF Accepted
  <1>5. CASE StepHere = "plan_test_indexing"
    <2>1. run.done = 8
      BY <1>1, <1>5, Here
    <2>2. PlansIndexing
      BY <2>1, OwnHttps, OwnIndexing, OwnFacts DEF PlansIndexing
    <2> QED BY <1>5, <2>2 DEF Accepted
  <1>6. CASE StepHere = "disable_test_indexing"
    <2>1. run.done = 9
      BY <1>1, <1>6, Here
    <2>2. run.recovery.indexing # {}
      BY <2>1, OwnFacts DEF Ready
    <2>3. DisablesIndexing
      BY <2>1, <2>2, OwnHttps, OwnIndexing, OwnFacts DEF DisablesIndexing
    <2> QED BY <1>6, <2>3 DEF Accepted
  <1>7. CASE StepHere \notin {"plan_multisite_domain", "correct_multisite_domain", "plan_test_https",
                              "enforce_test_https", "plan_test_indexing", "disable_test_indexing"}
    BY <1>7 DEF Accepted
  <1> QED BY <1>2, <1>3, <1>4, <1>5, <1>6, <1>7

LEMMA ReplayingAccepts ==
  ASSUME Typed, Standing, Replaying
  PROVE  ReplayAccepted
  <1>1. SUFFICES ASSUME OwnWork, ~ site.overlaps, proc.pc # "idle"
                 PROVE  /\ proc.pc = "facing" => Accepted(StepHere)
                        /\ proc.pc \in {"checking", "validating"} =>
                              \E p \in run.recovery.multisite : data.net = p.after
                        /\ proc.pc = "writing" /\ StepHere = "enforce_test_https" =>
                              ReplaysHttps /\ (proc.blogs = {} => Enforced)
                        /\ proc.pc = "writing" /\ StepHere = "disable_test_indexing" =>
                              StillSecured /\ \A b \in proc.blogs : ReplaysPublic(b)
    BY DEF ReplayAccepted
  <1>2. Own
    BY <1>1 DEF Own
  <1>3. proc.pc \in {"checking", "validating"} => \E p \in run.recovery.multisite : data.net = p.after
    <2> SUFFICES ASSUME proc.pc \in {"checking", "validating"}
                 PROVE  \E p \in run.recovery.multisite : data.net = p.after
      OBVIOUS
    <2>1. run.done = 4 /\ site.network /\ \A p \in run.recovery.multisite : data.net = p.after
      BY <1>2, OwnFacts DEF InStep, Correcting
    <2>2. run.recovery.multisite # {}
      BY <1>2, <2>1, OwnFacts DEF Ready
    <2> QED BY <2>1, <2>2
  <1>4. proc.pc = "writing" /\ StepHere = "enforce_test_https" =>
           ReplaysHttps /\ (proc.blogs = {} => Enforced)
    <2>1. StepHere = "enforce_test_https" => run.done = 7
      BY <1>1, Here
    <2> QED BY <1>2, <2>1, OwnHttps, OwnEnforced
  <1>5. proc.pc = "writing" /\ StepHere = "disable_test_indexing" =>
           StillSecured /\ \A b \in proc.blogs : ReplaysPublic(b)
    <2> SUFFICES ASSUME proc.pc = "writing", StepHere = "disable_test_indexing"
                 PROVE  StillSecured /\ \A b \in proc.blogs : ReplaysPublic(b)
      OBVIOUS
    <2>1. run.done = 9
      BY <1>1, Here
    <2>2. proc.blogs \subseteq Present(data)
      BY <1>2, <2>1, OwnFacts DEF InStep, Disabling
    <2>3. run.recovery.indexing # {}
      BY <1>2, <2>1, OwnFacts DEF Ready
    <2>4. ReplaysIndexing /\ StillSecured
      BY <1>2, <2>1, <2>3, OwnIndexing, OwnHttps
    <2> QED BY <2>2, <2>4 DEF ReplaysIndexing
  <1> QED BY <1>2, <1>3, <1>4, <1>5, OwnAccepted

\* A run can always be resumed: whatever it broke off in, and however often it is repeated,
\* the requirements of its steps accept the values its own plans recorded.  What it needs is
\* that each plan says what the steps so far have made of files and data, in memory and in
\* the manifest that a crash leaves on disk.
THEOREM RunIsResumable == Spec => []ReplayAccepted
  <1> DEFINE Inv == /\ Shapes /\ Guarded /\ Typed /\ Contents /\ Standing /\ FinishedIsTest
                    /\ Replaying
  <1>1. Init => Inv
    BY InitShapes, InitTyped, InitStands, InitReplays
  <1>2. Inv /\ [Next]_vars => Inv'
    <2> SUFFICES ASSUME Inv, [Next]_vars
                 PROVE  Inv'
      OBVIOUS
    <2>1. Shapes' /\ Guarded' /\ Typed' /\ Contents'
      BY NextShapes, NextTyped, ContentsStep
    <2>2. CASE UNCHANGED vars
      <3>1. UNCHANGED <<site, source, files, data, disk, run, proc, author>> /\ Current' = Current
        BY <2>2 DEF vars, target, Current
      <3>2. \A r, done : Works(r, done)' = Works(r, done)
        BY <3>1 DEF Works, ContentReplaced, ContentSecured, Covered, Present
      <3>3. Standing' /\ FinishedIsTest'
        BY <3>1, <3>2 DEF Standing, Final, FinishedIsTest, Covered, Present, On
      <3>4. Lasting => Lasting'
        BY <3>1, RestReplays
      <3>5. ~ site.overlaps /\ proc.pc # "idle" =>
               AtHand' /\ InStep(author, files, data, proc, run.recovery, run.done)'
        BY <3>1, NowAfter DEF Replaying, AtHand
      <3>6. Replaying'
        BY <3>1, <3>4, <3>5, ReplayingAfter DEF Replaying
      <3> QED BY <2>1, <3>3, <3>6
    <2>3. CASE Next
      <3>1. Standing' /\ FinishedIsTest'
        BY <2>3, BeginStands, EditStands, CopiesStand, StepsStand, EndsStand DEF Next
      <3>2. Replaying'
        BY <2>3, BeginReplays, EditReplays, StepsReplay, EndsReplay DEF Next
      <3> QED BY <2>1, <3>1, <3>2
    <2> QED BY <2>2, <2>3
  <1>3. Inv => ReplayAccepted
    BY ReplayingAccepts
  <1> QED BY <1>1, <1>2, <1>3, PTL DEF Spec

=============================================================================

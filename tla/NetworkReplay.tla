--------------------------- MODULE NetworkReplay ---------------------------
(***************************************************************************)
(* How a TEST copy is given its own URLs: the steps that plan and correct  *)
(* the domains of a network, replace the URLs, enforce HTTPS and disable   *)
(* indexing, by runs and resumes of one installation, each of which may    *)
(* break off anywhere while somebody else edits the database.  A step that *)
(* plans records the values before and after; the step that applies the    *)
(* plan, however often it is repeated, may meet no other value.            *)
(*                                                                         *)
(* The copies that begin a run are atomic here; Migration has their        *)
(* failures.  A single site is, as in test_https.py, a network of one      *)
(* blog whose domain is the test domain.  Paths, ports and identifiers are *)
(* left out: they only give the same checks more reasons to refuse.        *)
(***************************************************************************)
EXTENDS Integers, Sequences, FiniteSets

CONSTANTS
    Blogs,         \* identifiers of blogs
    Main,          \* BLOG_ID_CURRENT_SITE
    Plan,          \* the names of the planned steps, in order
    Sites,         \* bound: the kinds of installation considered
    Sources,       \* bound: what production may hold, as [present, public]
    MaxMoves,      \* bound: how many runs are created and edits made, together
    Crashes        \* bound: may the process die abruptly?

StepName ==
    {"copy_files", "copy_database", "write_test_db_config", "plan_multisite_domain",
     "correct_multisite_domain", "pending_search_replace", "plan_test_https",
     "enforce_test_https", "plan_test_indexing", "disable_test_indexing"}

ASSUME BlogsAssumption == Blogs \subseteq Nat \ {0} /\ IsFiniteSet(Blogs) /\ Main \in Blogs
ASSUME SitesAssumption ==
    Sites \subseteq {s \in [network: BOOLEAN, subdomains: BOOLEAN, overlaps: BOOLEAN, https: BOOLEAN] :
                         s.subdomains => s.network}
ASSUME SourcesAssumption ==
    Sources \subseteq {s \in [present: SUBSET Blogs, public: [Blogs -> {"-1", "0", "1"}]] :
                           Main \in s.present}
\* What the planner builds: its search-replace is pending in every plan.
ASSUME PlanAssumption ==
    Plan = <<"copy_files", "copy_database", "write_test_db_config", "plan_multisite_domain",
             "correct_multisite_domain", "pending_search_replace", "plan_test_https",
             "enforce_test_https", "plan_test_indexing", "disable_test_indexing">>
ASSUME BoundAssumption == MaxMoves \in Nat \ {0} /\ Crashes \in BOOLEAN

VARIABLES
    site,       \* what kind of installation it is
    source,     \* the data of the production database
    files,      \* what wp-config.php names: a database, the domain of the network
    data,       \* the data of the TEST database
    disk,       \* the manifest of every created run, in order of creation
    run,        \* the manifest in the memory of the process
    proc,       \* where the process is in its step
    wrote,      \* steps that ever wrote to the production database
    author,     \* the run whose steps led to the present files and data; 0: no single one
    edits       \* how many edits were made so far

target == <<files, data, wrote, author>>
vars == <<site, source, target, disk, run, proc, edits>>

\* overlaps: the test URL contains the source URL.  https: the scheme of both.
Site == [network: BOOLEAN, subdomains: BOOLEAN, overlaps: BOOLEAN, https: BOOLEAN]

\* The host of the source URL, that of the test URL (for a blog of a subdomain network,
\* its subdomain of them), or another one.
Host == {"old", "new", "other"}
Url == [host: Host, https: BOOLEAN]
On(host) == [host |-> host, https |-> site.https]

BlogRow == [domain: Host, home: Url, siteurl: Url]
NetworkSnapshot == [domain: Host, blogs: UNION {[present -> BlogRow] : present \in SUBSET Blogs}]
Public == {"-1", "0", "1"}

\* Of each blog: its row and its options, a URL of its own in its content, blog_public.
Data ==
    {d \in [net: NetworkSnapshot, content: [Blogs -> Url], public: [Blogs -> Public]] :
        d.net.blogs # <<>>}
Present(d) == DOMAIN d.net.blogs

Config == [db: {"production", "test"}, domain: {"old", "new"}]
\* What inspect_multisite reads: nothing in a single site.
NetworkConfig(f) == IF site.network THEN {f.domain} ELSE {}

MultisitePlan == [before: NetworkSnapshot, after: NetworkSnapshot, config: {"old", "new"}]
HttpsPlan == [config: SUBSET {"old", "new"}, before: NetworkSnapshot, after: NetworkSnapshot]
IndexingPlan == [https: HttpsPlan, before: UNION {[present -> Public] : present \in SUBSET Blogs}]

\* What recovery_data keeps: the plans, and which of them are validated.
Recovery ==
    [multisite: SUBSET MultisitePlan, https: SUBSET HttpsPlan, indexing: SUBSET IndexingPlan,
     validated: SUBSET {"multisite", "test_https", "test_indexing"}]

\* done: completed steps.  print: the files its fingerprint is of, once it is closed.
Manifest ==
    {m \in [status: {"RUNNING", "EXECUTED", "UPDATE_FAILED_PRESERVED"},
            done: 0..Len(Plan), print: SUBSET Config, recovery: Recovery] :
        m.status = "RUNNING" <=> m.print = {}}

Process ==
    [pc: {"idle", "facing", "writing", "replacing", "checking", "validating", "broken", "judge"},
     todo: SUBSET (({0} \cup Blogs) \X {"domain", "home", "siteurl"}), blogs: SUBSET Blogs,
     at: SUBSET Blogs]

Current == Len(disk)
StepHere == Plan[run.done + 1]
Idle == [pc |-> "idle", todo |-> {}, blogs |-> {}, at |-> {}]
Fresh == [status |-> "RUNNING", done |-> 0, print |-> {},
          recovery |-> [multisite |-> {}, https |-> {}, indexing |-> {}, validated |-> {}]]

-----------------------------------------------------------------------------
(***************************************************************************)
(* What the steps compute.  A slip is a wrong version of the next          *)
(* operator, there only to show that a property notices.                   *)
(***************************************************************************)

\* Slip: URLs that contain one another are not refused.
TransformableUnchecked(config, net) ==
    /\ net.domain = config /\ Main \in DOMAIN net.blogs
    /\ \A b \in DOMAIN net.blogs :
          /\ net.blogs[b].domain = config
          /\ {net.blogs[b].home, net.blogs[b].siteurl} \subseteq {On("old"), On("new")}
\* transform_network of a snapshot under a configuration, if it does not refuse it.
Transformable(config, net) ==
    /\ ~ site.overlaps
    /\ net.domain = config /\ Main \in DOMAIN net.blogs
    /\ \A b \in DOMAIN net.blogs :
          /\ net.blogs[b].domain = config
          /\ {net.blogs[b].home, net.blogs[b].siteurl} \subseteq {On("old"), On("new")}
Transform(net) ==
    [domain |-> "new",
     blogs |-> [b \in DOMAIN net.blogs |->
                  [domain |-> "new", home |-> On("new"), siteurl |-> On("new")]]]

\* https_snapshot, which refuses URLs that are not on the domain of their blog.
Structural(net) ==
    \A b \in DOMAIN net.blogs :
        {net.blogs[b].home.host, net.blogs[b].siteurl.host} = {net.blogs[b].domain}
Secured(url) == [url EXCEPT !.https = TRUE]
HttpsSnapshot(net) ==
    [domain |-> net.domain,
     blogs |-> [b \in DOMAIN net.blogs |->
                  [domain |-> net.blogs[b].domain, home |-> Secured(net.blogs[b].home),
                   siteurl |-> Secured(net.blogs[b].siteurl)]]]

\* Slip: only the values before are expected.
ReplaysUntouched(current, plan) == current = plan.before
\* apply_network and assert_https_replay accept each value before or after, no other,
\* in the same topology.
Replays(current, plan) ==
    /\ DOMAIN current.blogs = DOMAIN plan.before.blogs
    /\ current.domain \in {plan.before.domain, plan.after.domain}
    /\ \A b \in DOMAIN current.blogs : \A field \in {"domain", "home", "siteurl"} :
          current.blogs[b][field] \in {plan.before.blogs[b][field], plan.after.blogs[b][field]}

\* The cells of a snapshot; blog 0 is the network itself.
Cells(net) == {<<0, "domain">>} \cup (DOMAIN net.blogs) \X {"domain", "home", "siteurl"}
Cell(net, c) == IF c[1] = 0 THEN net.domain ELSE net.blogs[c[1]][c[2]]
Pending(net, plan) == {c \in Cells(net) : Cell(net, c) # Cell(plan.after, c)}

\* Slip: the former value not in the condition of the statement.
Overwritten(actual, old, new) == new
\* UPDATE ... SET column = new WHERE key AND BINARY column = old
Conditional(actual, old, new) == IF actual = old THEN new ELSE actual
\* The statements for some cells.
Updated(net, plan, cells) ==
    LET update(c) ==
            IF c \in cells THEN Conditional(Cell(net, c), Cell(plan.before, c), Cell(plan.after, c))
            ELSE Cell(net, c)
    IN [domain |-> update(<<0, "domain">>),
        blogs |-> [b \in DOMAIN net.blogs |->
            [domain |-> update(<<b, "domain">>), home |-> update(<<b, "home">>),
             siteurl |-> update(<<b, "siteurl">>)]]]

\* What a script, or a search-replace, that breaks off has got to: it goes table by table.
Rank(c) ==
    4 * c[1] + (CASE c[2] = "domain" -> 0 [] c[2] = "home" -> 1 [] c[2] = "siteurl" -> 2
                  [] c[2] = "content" -> 3)
FirstOf(cells) == {{c \in cells : Rank(c) < Rank(last)} : last \in cells}

\* wp search-replace of the source URL: where the test URL contains it, that URL changes
\* again.
Replaced ==
    [url \in Url |-> CASE url = On("old") -> On("new")
                       [] url = On("new") /\ site.overlaps -> On("other")
                       [] OTHER -> url]
\* Blogs on a subdomain do not contain the source URL.
Covered(d) == IF site.subdomains THEN {Main} \cap Present(d) ELSE Present(d)

\* wp search-replace of http://host by https://host.
Upgraded == [url \in Url |-> IF url.host = "new" THEN Secured(url) ELSE url]

\* A search-replace that got to some of the rows.
Rows(blogs) == blogs \X {"home", "siteurl", "content"}
Rewritten(d, replacement, rows) ==
    LET at(b, field, url) == IF <<b, field>> \in rows THEN replacement[url] ELSE url
        row(b) == [domain |-> d.net.blogs[b].domain, home |-> at(b, "home", d.net.blogs[b].home),
                   siteurl |-> at(b, "siteurl", d.net.blogs[b].siteurl)]
    IN [net |-> [domain |-> d.net.domain, blogs |-> [b \in Present(d) |-> row(b)]],
        content |-> [b \in Blogs |-> at(b, "content", d.content[b])], public |-> d.public]

\* The hosts of a plan: a network of subdomains has one for each blog.
HostsOf(blogs) == IF site.subdomains THEN {{b} : b \in blogs} ELSE {blogs}
\* Slip: only the options are counted.
InsecureOptions(d, blogs) ==
    {b \in blogs : \E url \in {d.net.blogs[b].home, d.net.blogs[b].siteurl} : url # Upgraded[url]}
\* What the dry-run counts of a host.
Insecure(d, blogs) ==
    {b \in blogs : \E url \in {d.net.blogs[b].home, d.net.blogs[b].siteurl, d.content[b]} :
        url # Upgraded[url]}

\* Slip: the connection in wp-config.php taken for granted.
AnyConnection == TRUE
\* wp-config.php names the TEST database.
TestConnection == files.db = "test"

\* WP-CLI reads and writes the database that wp-config.php names.
Seen == IF files.db = "test" THEN data ELSE source

\* The requirements without which a step refuses.
PlansMultisite ==
    LET payload == [before |-> data.net, after |-> Transform(data.net), config |-> files.domain]
    IN IF site.network
       THEN /\ TestConnection
            /\ Transformable(files.domain, data.net)
            /\ run.recovery.multisite \subseteq {payload}
       ELSE run.recovery.multisite = {}

CorrectsMultisite ==
    IF site.network
    THEN /\ TestConnection
         /\ \E p \in run.recovery.multisite :
               /\ files.domain \in {p.config, "new"}
               /\ Transformable(p.config, p.before)
               /\ Replays(data.net, p)
    ELSE run.recovery.multisite = {}

\* The URLs are those of the validated network, but for their scheme.
FollowsMultisite ==
    /\ "multisite" \in run.recovery.validated
    /\ \E p \in run.recovery.multisite : HttpsSnapshot(data.net) = HttpsSnapshot(p.after)
    /\ files.domain = "new"

ReplaysHttps ==
    \E p \in run.recovery.https :
        p.config = NetworkConfig(files) /\ Replays(data.net, p)

PlansHttps ==
    /\ TestConnection
    /\ IF run.recovery.https # {} THEN ReplaysHttps
       ELSE /\ site.network => FollowsMultisite
            /\ Structural(data.net)
            /\ \A b \in Present(data) : data.net.blogs[b].domain = "new"

EnforcesHttps == TestConnection /\ ReplaysHttps

\* inspect of test_indexing.py
StillSecured ==
    /\ site.network => "multisite" \in run.recovery.validated
    /\ \E p \in run.recovery.https : p.config = NetworkConfig(files) /\ data.net = p.after

\* A blog is as the plan found it, or as it leaves it.
ReplaysPublic(b) ==
    \E p \in run.recovery.indexing : Seen.public[b] \in {p.before[b], "0"}
ReplaysIndexing ==
    /\ \E p \in run.recovery.indexing :
          p.https \in run.recovery.https /\ DOMAIN p.before = Present(data)
    /\ \A b \in Present(data) : ReplaysPublic(b)

DisablesIndexing ==
    /\ TestConnection
    /\ "test_https" \in run.recovery.validated /\ StillSecured
    /\ ReplaysIndexing
PlansIndexing ==
    /\ TestConnection
    /\ "test_https" \in run.recovery.validated /\ StillSecured
    /\ run.recovery.indexing # {} => ReplaysIndexing

\* What the code requires before a step changes anything.
Accepted(step) ==
    CASE step = "plan_multisite_domain" -> PlansMultisite
      [] step = "correct_multisite_domain" -> CorrectsMultisite
      [] step = "plan_test_https" -> PlansHttps
      [] step = "enforce_test_https" -> EnforcesHttps
      [] step = "plan_test_indexing" -> PlansIndexing
      [] step = "disable_test_indexing" -> DisablesIndexing
      [] OTHER -> TRUE

\* Slip: a failed run is saved without the fingerprint of its files.
ClosedUnprinted(m) == [m EXCEPT !.status = "UPDATE_FAILED_PRESERVED"]
Closed(m) ==
    [m EXCEPT !.status = "UPDATE_FAILED_PRESERVED", !.print = {files}]
Saved(m) == [disk EXCEPT ![Current] = m]
ResumeConsistent(r) == disk[r].print \subseteq {files}

-----------------------------------------------------------------------------
(***************************************************************************)
(* Runs, and what happens beside them.                                     *)
(***************************************************************************)

\* A single site, a network of subdirectories or of subdomains, migrated for the first
\* time: only the copies of a run are ever read.
Init ==
    /\ site \in Sites
    /\ \E found \in Sources :
          /\ site.network \/ found.present = {Main}
          /\ LET domain == IF site.network THEN "old" ELSE "new"
             IN source =
                [net |-> [domain |-> domain,
                          blogs |-> [b \in found.present |->
                            [domain |-> domain, home |-> On("old"), siteurl |-> On("old")]]],
                 content |-> [b \in Blogs |-> On("old")], public |-> found.public]
    /\ files = [db |-> "production", domain |-> "old"] /\ data = source
    /\ disk = <<>> /\ run = Fresh /\ proc = Idle
    /\ wrote = {} /\ author = [files |-> 0, data |-> 0] /\ edits = 0

Begin(m) ==
    /\ proc.pc = "idle" /\ Current + edits < MaxMoves
    /\ run' = m
    /\ disk' = Append(disk, m)
    /\ proc' = [Idle EXCEPT !.pc = "facing"]
    /\ UNCHANGED <<site, source, files, data, wrote, edits>>

Execute == Begin(Fresh) /\ UNCHANGED author

Resume(r) ==
    /\ disk[r].done < Len(Plan) /\ ResumeConsistent(r)
    /\ Begin([disk[r] EXCEPT !.status = "RUNNING", !.print = {}])
    /\ author' = [part \in DOMAIN author |->
                     IF author[part] = r THEN Current + 1 ELSE author[part]]

\* Somebody changes a URL or blog_public, or removes a blog.
Edit ==
    /\ Current + edits < MaxMoves
    /\ edits' = edits + 1
    /\ \E b \in Present(data) :
          \/ \E url \in {On("old"), On("other")}, field \in {"home", "siteurl"} :
                data' = [data EXCEPT !.net.blogs[b][field] = url]
          \/ \E value \in Public : data' = [data EXCEPT !.public[b] = value]
          \/ /\ site.network /\ b # Main
             /\ data' = [data EXCEPT !.net.blogs = [o \in Present(data) \ {b} |-> @[o]]]
    /\ data' # data /\ author' = [author EXCEPT !.data = 0]
    /\ UNCHANGED <<site, source, files, disk, run, proc, wrote>>

-----------------------------------------------------------------------------
(***************************************************************************)
(* The steps.  One that changes several values is several actions: others  *)
(* may change them meanwhile, and it may break off.                        *)
(***************************************************************************)

Facing(step) ==
    /\ proc.pc = "facing" /\ StepHere = step
    /\ Accepted(step)
    /\ UNCHANGED <<site, source, disk, edits>>
Within(pc, step) ==
    /\ proc.pc = pc /\ StepHere = step
    /\ UNCHANGED <<site, source, disk, edits>>
Go(pc) == proc' = [proc EXCEPT !.pc = pc]
NoWrite == UNCHANGED target
\* A write leaves the present state the work of this run only if it was so before.
Mine ==
    author' = [files |-> IF files' = files \/ author.files = Current THEN author.files ELSE 0,
               data |-> IF data' = data \/ author.data = Current THEN author.data ELSE 0]
BySql(net) ==
    /\ data' = [data EXCEPT !.net = net]
    /\ UNCHANGED <<files, wrote>> /\ Mine
ByWp(d) ==
    /\ IF files.db = "test" THEN data' = d /\ UNCHANGED wrote
       ELSE wrote' = wrote \cup {StepHere} /\ UNCHANGED data
    /\ UNCHANGED files /\ Mine
Recover(recovery) ==
    /\ run' = [run EXCEPT !.recovery = recovery]
    /\ Go("judge")
Validated(mark) == [run.recovery EXCEPT !.validated = @ \cup {mark}]

CopyFiles ==
    /\ Facing("copy_files")
    /\ files' = [db |-> "production", domain |-> "old"]
    /\ author' = [author EXCEPT !.files = Current]
    /\ Go("judge") /\ UNCHANGED <<data, wrote, run>>

CopyDatabase ==
    /\ Facing("copy_database")
    /\ data' = source
    /\ author' = [author EXCEPT !.data = Current]
    /\ Go("judge") /\ UNCHANGED <<files, wrote, run>>

WriteTestDbConfig ==
    /\ Facing("write_test_db_config")
    /\ files' = [files EXCEPT !.db = "test"]
    /\ UNCHANGED <<data, wrote>> /\ Mine
    /\ Go("judge") /\ UNCHANGED run

PlanMultisiteDomain ==
    /\ Facing("plan_multisite_domain") /\ NoWrite
    /\ Recover(IF site.network
               THEN [run.recovery EXCEPT !.multisite =
                        {[before |-> data.net, after |-> Transform(data.net),
                          config |-> files.domain]}]
               ELSE run.recovery)

SkipMultisite ==
    /\ Facing("correct_multisite_domain") /\ ~ site.network
    /\ Go("judge") /\ NoWrite /\ UNCHANGED run

InspectNetwork ==
    /\ Facing("correct_multisite_domain") /\ site.network
    /\ \E p \in run.recovery.multisite :
          proc' = [proc EXCEPT !.pc = "writing", !.todo = Pending(data.net, p)]
    /\ NoWrite /\ UNCHANGED run

ApplyNetwork ==
    /\ Within("writing", "correct_multisite_domain")
    /\ \E p \in run.recovery.multisite : BySql(Updated(data.net, p, proc.todo))
    /\ proc' = [proc EXCEPT !.pc = "checking", !.todo = {}]
    /\ UNCHANGED run

ApplyNetworkBreaks ==
    /\ Within("writing", "correct_multisite_domain")
    /\ \E p \in run.recovery.multisite, first \in FirstOf(proc.todo) :
          BySql(Updated(data.net, p, first))
    /\ proc' = [proc EXCEPT !.pc = "broken", !.todo = {}]
    /\ UNCHANGED run

SetMultisiteDomain ==
    /\ Within("checking", "correct_multisite_domain")
    /\ \E p \in run.recovery.multisite : data.net = p.after
    /\ files' = [files EXCEPT !.domain = "new"]
    /\ UNCHANGED <<data, wrote>> /\ Mine
    /\ Go("validating") /\ UNCHANGED run

ValidateNetwork ==
    /\ Within("validating", "correct_multisite_domain")
    /\ \E p \in run.recovery.multisite : data.net = p.after
    /\ Recover(Validated("multisite")) /\ NoWrite

SearchReplace ==
    /\ Facing("pending_search_replace")
    /\ ByWp(Rewritten(Seen, Replaced, Rows(Covered(Seen))))
    /\ Go("judge") /\ UNCHANGED run

SearchReplaceBreaks ==
    /\ Facing("pending_search_replace")
    /\ \E rows \in FirstOf(Rows(Covered(Seen))) : ByWp(Rewritten(Seen, Replaced, rows))
    /\ Go("broken") /\ UNCHANGED run

PlanTestHttps ==
    /\ Facing("plan_test_https") /\ NoWrite
    /\ Recover([run.recovery EXCEPT !.https =
                   IF @ # {} THEN @
                   ELSE {[config |-> NetworkConfig(files), before |-> data.net,
                          after |-> HttpsSnapshot(data.net)]}])

StartHttps ==
    /\ Facing("enforce_test_https")
    /\ proc' = [proc EXCEPT !.pc = "writing", !.blogs = Present(data)]
    /\ NoWrite /\ UNCHANGED run

\* A host is inspected, and its references counted.
CountHost ==
    /\ Within("writing", "enforce_test_https")
    /\ ReplaysHttps
    /\ \E host \in HostsOf(proc.blogs) :
          /\ host # {}
          /\ proc' = [proc EXCEPT !.blogs = @ \ host, !.at = host,
                         !.pc = IF Insecure(Seen, host) # {} THEN "replacing" ELSE @]
    /\ NoWrite /\ UNCHANGED run

ReplaceHost ==
    /\ Within("replacing", "enforce_test_https")
    /\ ByWp(Rewritten(Seen, Upgraded, Rows(proc.at \cap Present(Seen))))
    /\ Go("writing") /\ UNCHANGED run

ReplaceHostBreaks ==
    /\ Within("replacing", "enforce_test_https")
    /\ \E rows \in FirstOf(Rows(proc.at \cap Present(Seen))) :
          ByWp(Rewritten(Seen, Upgraded, rows))
    /\ Go("broken") /\ UNCHANGED run

\* The final inspections.
Enforced ==
    /\ \E p \in run.recovery.https : data.net = p.after /\ p.config = NetworkConfig(files)
    /\ Insecure(Seen, Present(data)) = {}
ValidateHttps ==
    /\ Within("writing", "enforce_test_https") /\ proc.blogs = {}
    /\ Enforced
    /\ Recover(Validated("test_https")) /\ NoWrite

\* The marks of an earlier attempt do not survive the beginning of a step.
Unmarked == [run.recovery EXCEPT !.validated = @ \ {"test_indexing"}]

PlanTestIndexing ==
    /\ Facing("plan_test_indexing") /\ NoWrite
    /\ \E p \in run.recovery.https :
          Recover([Unmarked EXCEPT !.indexing =
                      IF @ # {} THEN @
                      ELSE {[https |-> p, before |-> [b \in Present(data) |-> Seen.public[b]]]}])

StartIndexing ==
    /\ Facing("disable_test_indexing")
    /\ proc' = [proc EXCEPT !.pc = "writing", !.blogs = Present(data)]
    /\ run' = [run EXCEPT !.recovery = Unmarked]
    /\ NoWrite

ReadBlog ==
    /\ Within("writing", "disable_test_indexing")
    /\ StillSecured
    /\ \E b \in proc.blogs :
          /\ \A o \in proc.blogs : b <= o
          /\ ReplaysPublic(b)
          /\ proc' = [proc EXCEPT !.blogs = @ \ {b}, !.at = {b},
                         !.pc = IF Seen.public[b] # "0" THEN "replacing" ELSE @]
    /\ NoWrite /\ UNCHANGED run

UpdateBlog ==
    /\ Within("replacing", "disable_test_indexing")
    /\ \E b \in proc.at : ByWp([Seen EXCEPT !.public[b] = "0"])
    /\ Go("writing") /\ UNCHANGED run

ValidateIndexing ==
    /\ Within("writing", "disable_test_indexing") /\ proc.blogs = {}
    /\ StillSecured /\ \A b \in Present(data) : Seen.public[b] = "0"
    /\ Recover(Validated("test_indexing")) /\ NoWrite

\* A requirement is not met, or what the step calls fails.
Fails ==
    /\ proc.pc \notin {"idle", "judge"}
    /\ disk' = Saved(Closed(IF StepHere \in {"plan_test_indexing", "disable_test_indexing"}
                            THEN [run EXCEPT !.recovery = Unmarked] ELSE run))
    /\ run' = Fresh /\ proc' = Idle
    /\ UNCHANGED <<site, source, target, edits>>

-----------------------------------------------------------------------------
(***************************************************************************)
(* The end of a step.                                                      *)
(***************************************************************************)

Counted == [run EXCEPT !.done = @ + 1]

JudgeContinues ==
    /\ proc.pc = "judge" /\ Counted.done < Len(Plan)
    /\ run' = Counted /\ disk' = Saved(Counted)
    /\ Go("facing")
    /\ UNCHANGED <<site, source, target, edits>>

JudgeFinishes ==
    /\ proc.pc = "judge" /\ Counted.done = Len(Plan)
    /\ disk' = Saved([Counted EXCEPT !.status = "EXECUTED", !.print = {files}])
    /\ run' = Fresh /\ proc' = Idle
    /\ UNCHANGED <<site, source, target, edits>>

\* The probe fails, or the health is worse than before the step.
JudgeStops ==
    /\ proc.pc = "judge"
    /\ disk' = Saved(Closed(run))
    /\ run' = Fresh /\ proc' = Idle
    /\ UNCHANGED <<site, source, target, edits>>

Crash ==
    /\ Crashes /\ proc.pc # "idle"
    /\ disk' \in {disk} \cup (IF proc.pc = "judge" THEN {Saved(Counted)} ELSE {})
    /\ run' = Fresh /\ proc' = Idle
    /\ UNCHANGED <<site, source, target, edits>>

CorrectMultisite ==
    \/ PlanMultisiteDomain \/ SkipMultisite \/ InspectNetwork \/ ApplyNetwork
    \/ ApplyNetworkBreaks \/ SetMultisiteDomain \/ ValidateNetwork
TestHttps ==
    \/ PlanTestHttps \/ StartHttps \/ CountHost \/ ReplaceHost \/ ReplaceHostBreaks
    \/ ValidateHttps
TestIndexing ==
    \/ PlanTestIndexing \/ StartIndexing \/ ReadBlog \/ UpdateBlog \/ ValidateIndexing

Next ==
    \/ Execute \/ (\E r \in 1..Current : Resume(r)) \/ Edit
    \/ CopyFiles \/ CopyDatabase \/ WriteTestDbConfig
    \/ CorrectMultisite \/ SearchReplace \/ SearchReplaceBreaks \/ TestHttps \/ TestIndexing
    \/ Fails \/ JudgeContinues \/ JudgeFinishes \/ JudgeStops \/ Crash

Spec == Init /\ [][Next]_vars

-----------------------------------------------------------------------------
(***************************************************************************)
(* Properties.                                                             *)
(***************************************************************************)

\* Types.
TypeOK ==
    /\ site \in Site /\ source \in Data /\ files \in Config /\ data \in Data
    /\ disk \in Seq(Manifest) /\ run \in Manifest /\ proc \in Process
    /\ wrote \subseteq StepName
    /\ author \in [files: 0..Current, data: 0..Current] /\ edits \in 0..MaxMoves

\* The present files and data are the work of the current run and of those it resumes,
\* since they copied the source.
OwnWork == author.files = Current /\ author.data = Current

\* Whatever a run broke off in, it can be resumed: its own work, complete or not, is
\* never refused by the requirements of the step it faces or is within.  Where the test
\* URL contains the source URL a network is refused and a single site may be (mysql/
\* adapter.py 302-336, test_https.py 143-180, test_indexing.py 158-169).
ReplayAccepted ==
    OwnWork /\ ~ site.overlaps =>
        /\ proc.pc = "facing" => Accepted(StepHere)
        /\ proc.pc \in {"checking", "validating"} =>
              \E p \in run.recovery.multisite : data.net = p.after
        /\ proc.pc = "writing" /\ StepHere = "enforce_test_https" =>
              ReplaysHttps /\ (proc.blogs = {} => Enforced)
        /\ proc.pc = "writing" /\ StepHere = "disable_test_indexing" =>
              StillSecured /\ \A b \in proc.blogs : ReplaysPublic(b)

\* Of the network and its URLs, a step that applies a plan writes no value that is not
\* the recorded one, and over no value but the one it was planned to replace, even if
\* somebody edits between its inspection and its statements (adapter.py 297-300).
OnlyRecordedValues ==
    [][edits' = edits /\ proc.pc \in {"writing", "replacing"} =>
         \A p \in run.recovery.multisite : StepHere = "correct_multisite_domain" =>
             \A c \in Cells(data.net) : Cell(data'.net, c) # Cell(data.net, c) =>
                 Cell(data.net, c) = Cell(p.before, c) /\ Cell(data'.net, c) = Cell(p.after, c)
      ]_vars

\* No step but the search-replace writes to the production database, though a stale
\* resume may find a wp-config.php that names it (test_https.py 74-78,
\* test_indexing.py 53-57).
OnlySearchReplaceStrays == wrote \subseteq {"pending_search_replace"}

\* What a finished run leaves, if nobody else has changed it since its copies: a TEST copy
\* with no URL of production, all HTTPS and none to be indexed.  The content of a
\* subdomain keeps its URLs; so may that of a single site whose test URL contains the
\* source URL (runtime_operations.py 936-947).
FinishedIsTest ==
    \A r \in 1..Current :
        disk[r].status = "EXECUTED" /\ author = [files |-> r, data |-> r] =>
            \A b \in Present(data) :
                /\ data.net.blogs[b] =
                      [domain |-> "new", home |-> Secured(On("new")), siteurl |-> Secured(On("new"))]
                /\ data.public[b] = "0"
                /\ b \in Covered(data) /\ ~ site.overlaps => data.content[b] = Secured(On("new"))

\* In a network no step ever writes a URL that is neither that of production nor that of
\* TEST, even where the one contains the other (multisite.py 80-83).
NoThirdUrl ==
    [][site.network /\ edits' = edits =>
         \A b \in Present(data) :
            data'.content[b].host = "other" => data.content[b].host = "other"]_vars

=============================================================================

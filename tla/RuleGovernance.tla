--------------------------- MODULE RuleGovernance ---------------------------
(***************************************************************************)
(* How a candidate rule becomes runtime authority (rule_engine): the       *)
(* approved copy (promotion.py), the golden run and its report (golden.py),*)
(* a reviewer's activation approval, the active manifest built from all    *)
(* approvals (activation.py, governance_verify.py) and the loading of the  *)
(* rules that apply to a context (manifest.py, selection.py).              *)
(*                                                                         *)
(* Every document names the others by path and SHA-256, so a hash is the   *)
(* content here.  Files are published create-only, by linking a private    *)
(* file; a command that fails half way unlinks what it linked, if it still *)
(* is the same inode.  People edit and remove files at any time.           *)
(***************************************************************************)
EXTENDS Naturals, FiniteSets

CONSTANTS
    Rules,      \* rule_id@version: one path per rule for each kind of document
    RuleId,     \* the rule_id of each rule
    Bodies,     \* contents of a rule file
    Fixtures,   \* contents of a fixture manifest with its case inputs
    Results,    \* contents of the expected, or the actual, case outputs
    Evaluate,   \* evaluate_rule, on all cases of a fixture
    Scopes,     \* the scopes approvals name
    Contexts,   \* the contexts rules are selected for
    Dims,       \* document_family, document_kind, jurisdiction, program
    NoValue,    \* a dimension a scope or a context leaves open
    Runners,    \* processes of rules run-golden
    Activators, \* processes of rules build-active-manifest
    Loaders,    \* processes of rules select, and of release validation
    None,       \* no file, nobody
    MaxEdits    \* bound on the files people edit or remove

Procs == Runners \cup Activators \cup Loaders

Report == [candidate : Bodies, approved : Bodies, fixture : Fixtures,
           expected : Results, actual : Results]
Approval == [candidate : Bodies, approved : Bodies, report : Report, scope : Scopes]

\* ActiveRuleEntry: the fields of the approval that was verified, and the
\* approval_sha256 taken afterwards.
Entry == [rule : Rules, approval : Approval, hash : Approval]

ASSUME RuleAssumption ==
    /\ Evaluate \in [Bodies -> [Fixtures -> Results]]
    /\ MaxEdits \in Nat
    /\ \A S \in {Bodies, Results, Procs, Report, Approval} : None \notin S

VARIABLES
    candidate, approved,  \* rules/candidates, rules/approved
    fixture, expected,    \* the golden cases
    actual,               \* the published outputs: content, and who linked them
    report,               \* rules/golden/reports
    approval,             \* rules/activation/approvals
    manifest,             \* rules/manifests/active.json: entries, who linked it
    announced,            \* the activation report: status, who linked it
    op,                   \* the command each process runs, up to its answer
    raced,                \* a file was edited under a command that checks and uses it
    edits

authored == <<candidate, approved, fixture, expected, approval>>
published == <<actual, report, manifest, announced>>
people == <<raced, edits>>
vars == <<authored, published, op, people>>

NoOutput == [value |-> None, by |-> None]
NoManifest == [entries |-> {}, by |-> None]
NotAnnounced == [status |-> "none", by |-> None]
Idle == [pc |-> "idle", rule |-> None, draft |-> None, todo |-> {}, entries |-> {},
         blocked |-> FALSE, loaded |-> {}, entry |-> None, context |-> None,
         answer |-> None]

Init ==
    /\ candidate \in [Rules -> Bodies]
    /\ fixture \in [Rules -> Fixtures]
    /\ expected \in [Rules -> Results]
    /\ approved = [r \in Rules |-> None]
    /\ actual = [r \in Rules |-> NoOutput]
    /\ report = [r \in Rules |-> None]
    /\ approval = [r \in Rules |-> None]
    /\ manifest = NoManifest
    /\ announced = NotAnnounced
    /\ op = [p \in Procs |-> Idle]
    /\ raced = FALSE
    /\ edits = 0

Done(p) == op' = [op EXCEPT ![p] = Idle]

-----------------------------------------------------------------------------
(* Authoring.                                                              *)

\* approve_candidate: a byte-identical copy, linked create-only.
ApproveCandidate(r) ==
    /\ candidate[r] # None
    /\ approved[r] = None
    /\ approved' = [approved EXCEPT ![r] = candidate[r]]
    /\ UNCHANGED <<candidate, fixture, expected, approval, published, op, people>>

\* A reviewer writes down the hashes of what is there, passing or not.
WriteApproval(r, s) ==
    /\ approval[r] = None
    /\ candidate[r] # None /\ approved[r] # None /\ report[r] # None
    /\ approval' = [approval EXCEPT ![r] =
           [candidate |-> candidate[r], approved |-> approved[r],
            report |-> report[r], scope |-> s]]
    /\ UNCHANGED <<candidate, approved, fixture, expected, published, op, people>>

-----------------------------------------------------------------------------
(* run_rule_golden.                                                        *)

\* Targets must not exist; the approved rule is read and run on every case.
GoldenEvaluate(p, r) ==
    /\ op[p].pc = "idle"
    /\ actual[r] = NoOutput /\ report[r] = None
    /\ candidate[r] # None /\ approved[r] # None
    /\ op' = [op EXCEPT ![p] = [Idle EXCEPT !.pc = "evaluated", !.rule = r,
           !.draft = [candidate |-> candidate[r], approved |-> approved[r],
                      fixture |-> fixture[r], expected |-> expected[r],
                      actual |-> Evaluate[approved[r]][fixture[r]]]]]
    /\ UNCHANGED <<authored, published, people>>

Hashable(r) == candidate[r] # None /\ approved[r] # None

\* The report takes the hashes of the rule files in a second reading.
GoldenHash(p) ==
    /\ op[p].pc = "evaluated"
    /\ LET r == op[p].rule IN
         IF Hashable(r)
           THEN op' = [op EXCEPT ![p] = [Idle EXCEPT !.pc = "actual", !.rule = r,
                    !.draft = [candidate |-> candidate[r], approved |-> approved[r],
                               fixture |-> op[p].draft.fixture,
                               expected |-> op[p].draft.expected,
                               actual |-> op[p].draft.actual]]]
           ELSE Done(p)
    /\ UNCHANGED <<authored, published, people>>

\* os.link of the outputs, then of the report.
LinkActual(p) ==
    /\ op[p].pc = "actual"
    /\ LET r == op[p].rule IN
         IF actual[r] = NoOutput
           THEN /\ actual' = [actual EXCEPT ![r] =
                       [value |-> op[p].draft.actual, by |-> p]]
                /\ op' = [op EXCEPT ![p].pc = "report"]
           ELSE Done(p) /\ UNCHANGED actual
    /\ UNCHANGED <<authored, report, manifest, announced, people>>

LinkReport(p) ==
    /\ op[p].pc = "report"
    /\ LET r == op[p].rule IN
         IF report[r] = None
           THEN report' = [report EXCEPT ![r] = op[p].draft] /\ Done(p)
           ELSE op' = [op EXCEPT ![p].pc = "unlink_actual"] /\ UNCHANGED report
    /\ UNCHANGED <<authored, actual, manifest, announced, people>>

RollbackActual(p) ==
    /\ op[p].pc = "unlink_actual"
    /\ LET r == op[p].rule IN
         actual' = IF actual[r].by = p THEN [actual EXCEPT ![r] = NoOutput] ELSE actual
    /\ Done(p)
    /\ UNCHANGED <<authored, report, manifest, announced, people>>

-----------------------------------------------------------------------------
(* verify_approval.                                                        *)

Passing(rep) == rep.expected = rep.actual

\* The report, the fixtures and the rule files are the ones the approval and the
\* report name; the golden outputs are looked at only when a rule is activated.
\* Mutation: the candidate and the approved rule are not compared.
MutVerified(r, a, mode) ==
    /\ report[r] = a.report
    /\ Passing(a.report)
    /\ fixture[r] = a.report.fixture
    /\ expected[r] = a.report.expected
    /\ mode = "ACTIVATION" => actual[r].value = a.report.actual
Verified(r, a, mode) ==
    /\ candidate[r] = a.candidate
    /\ approved[r] = a.approved
    /\ report[r] = a.report
    /\ Passing(a.report)
    /\ a.report.candidate = a.candidate /\ a.report.approved = a.approved
    /\ fixture[r] = a.report.fixture
    /\ expected[r] = a.report.expected
    /\ mode = "ACTIVATION" => actual[r].value = a.report.actual

-----------------------------------------------------------------------------
(* build_active_manifest_from_directory.                                   *)

ActivateBegin(p) ==
    /\ op[p].pc = "idle"
    /\ manifest = NoManifest /\ announced = NotAnnounced
    /\ op' = [op EXCEPT ![p] = [Idle EXCEPT !.pc = "verify",
                                !.todo = {r \in Rules : approval[r] # None}]]
    /\ UNCHANGED <<authored, published, people>>

ActivateVerify(p, r) ==
    /\ op[p].pc = "verify"
    /\ r \in op[p].todo
    /\ LET good == approval[r] # None /\ Verified(r, approval[r], "ACTIVATION") IN
         op' = [op EXCEPT ![p] = [Idle EXCEPT !.pc = "verify",
             !.todo = op[p].todo \ {r},
             !.entries = op[p].entries \cup
                 (IF good THEN {[rule |-> r, approval |-> approval[r],
                                 hash |-> approval[r]]} ELSE {}),
             !.blocked = op[p].blocked \/ ~good]]
    /\ UNCHANGED <<authored, published, people>>

\* DUPLICATE_ACTIVE_RULE_ID.
Duplicates(entries) ==
    \E e, f \in entries : e.rule # f.rule /\ RuleId[e.rule] = RuleId[f.rule]

\* _entry: the approval files are hashed in a second reading.
BuildEntries(p) ==
    /\ op[p].pc = "verify"
    /\ op[p].todo = {}
    /\ \/ /\ op[p].blocked \/ Duplicates(op[p].entries)
          /\ op' = [op EXCEPT ![p] = [Idle EXCEPT !.pc = "blocked"]]
       \/ /\ ~op[p].blocked /\ ~Duplicates(op[p].entries)
          /\ IF \A e \in op[p].entries : approval[e.rule] # None
               THEN op' = [op EXCEPT ![p] = [Idle EXCEPT !.pc = "manifest",
                        !.entries = {[rule |-> e.rule, approval |-> e.approval,
                                      hash |-> approval[e.rule]] : e \in op[p].entries}]]
               ELSE Done(p)
    /\ UNCHANGED <<authored, published, people>>

LinkBlocked(p) ==
    /\ op[p].pc = "blocked"
    /\ announced' = IF announced = NotAnnounced
                      THEN [status |-> "BLOCKED", by |-> p] ELSE announced
    /\ Done(p)
    /\ UNCHANGED <<authored, actual, report, manifest, people>>

LinkManifest(p) ==
    /\ op[p].pc = "manifest"
    /\ IF manifest = NoManifest
         THEN /\ manifest' = [entries |-> op[p].entries, by |-> p]
              /\ op' = [op EXCEPT ![p].pc = "announce"]
         ELSE Done(p) /\ UNCHANGED manifest
    /\ UNCHANGED <<authored, actual, report, announced, people>>

LinkAnnounce(p) ==
    /\ op[p].pc = "announce"
    /\ IF announced = NotAnnounced
         THEN announced' = [status |-> "ACTIVATED", by |-> p] /\ Done(p)
         ELSE op' = [op EXCEPT ![p].pc = "unlink_manifest"] /\ UNCHANGED announced
    /\ UNCHANGED <<authored, actual, report, manifest, people>>

\* _same_inode, then unlink: in between only people could replace the file.
\* Mutation: the name is unlinked, whatever it is a link to by now.
MutRollbackManifest(p) ==
    /\ op[p].pc = "unlink_manifest"
    /\ manifest' = NoManifest
    /\ Done(p)
    /\ UNCHANGED <<authored, actual, report, announced, people>>
RollbackManifest(p) ==
    /\ op[p].pc = "unlink_manifest"
    /\ manifest' = IF manifest.by = p THEN NoManifest ELSE manifest
    /\ Done(p)
    /\ UNCHANGED <<authored, actual, report, announced, people>>

-----------------------------------------------------------------------------
(* load_governed_active_rules.                                             *)

Answer(p, status, rules, c) ==
    op' = [op EXCEPT ![p] = [Idle EXCEPT !.pc = "answered", !.answer = status,
                             !.loaded = rules, !.context = c]]

\* Active manifest missing: BLOCKED.
LoadManifest(p, c) ==
    /\ op[p].pc = "idle"
    /\ IF manifest = NoManifest
         THEN Answer(p, "BLOCKED", {}, c)
         ELSE op' = [op EXCEPT ![p] = [Idle EXCEPT !.pc = "load", !.context = c,
                     !.entries = manifest.entries, !.todo = manifest.entries]]
    /\ UNCHANGED <<authored, published, people>>

\* verify_manifest_entry: the approval is the one the entry was made from.
VerifyEntry(p, e) ==
    /\ op[p].pc = "load"
    /\ e \in op[p].todo
    /\ LET good == /\ approval[e.rule] = e.hash
                   /\ e.approval = e.hash
                   /\ Verified(e.rule, e.hash, "RUNTIME") IN
         op' = [op EXCEPT ![p] = [pc |-> IF good THEN "read" ELSE "load",
             rule |-> None, draft |-> None, answer |-> None, entry |-> e, context |-> op[p].context,
             entries |-> op[p].entries, loaded |-> op[p].loaded,
             todo |-> op[p].todo \ {e}, blocked |-> op[p].blocked \/ ~good]]
    /\ UNCHANGED <<authored, published, people>>

\* _load_rule reads the approved rule again, after its hash was compared.
ReadRule(p) ==
    /\ op[p].pc = "read"
    /\ LET e == op[p].entry IN
         IF approved[e.rule] # None
           THEN op' = [op EXCEPT ![p] = [pc |-> "load", rule |-> None, draft |-> None,
                    answer |-> None, entry |-> None, context |-> op[p].context,
                    entries |-> op[p].entries, todo |-> op[p].todo,
                    blocked |-> op[p].blocked,
                    loaded |-> op[p].loaded \cup {[entry |-> e, body |-> approved[e.rule]]}]]
           ELSE Done(p)
    /\ UNCHANGED <<authored, published, people>>

\* _exclusion_code: a scope applies where every dimension it names is in the context.
Applies(s, c) == \A d \in Dims : s[d] = NoValue \/ c[d] = s[d]

Selected(p) == {x \in op[p].loaded : Applies(x.entry.approval.scope, op[p].context)}

\* One entry that does not verify blocks all of them.
LoadSelect(p) ==
    /\ op[p].pc = "load"
    /\ op[p].todo = {}
    /\ \/ op[p].blocked /\ Answer(p, "BLOCKED", {}, op[p].context)
       \/ ~op[p].blocked /\ Selected(p) = {} /\ Answer(p, "ABSTAIN", {}, op[p].context)
       \/ ~op[p].blocked /\ Selected(p) # {} /\ Answer(p, "SELECTED", Selected(p), op[p].context)
    /\ UNCHANGED <<authored, published, people>>

Return(p) ==
    /\ op[p].pc = "answered"
    /\ Done(p)
    /\ UNCHANGED <<authored, published, people>>

-----------------------------------------------------------------------------
(* People and crashes.                                                     *)

\* run_rule_golden and load_governed_active_rules read files more than once.
CheckThenUse == {"evaluated", "load", "read"}

\* Reports other golden runs, on another branch or in a backup, have made.
Genuine == {rep \in Report : rep.actual = Evaluate[rep.approved][rep.fixture]}

\* What an approval says after one of its fields was written over.
Revised(a) ==
    {[a EXCEPT !.candidate = b] : b \in Bodies} \cup {[a EXCEPT !.approved = b] : b \in Bodies}
    \cup {[a EXCEPT !.report = rep] : rep \in Genuine} \cup {[a EXCEPT !.scope = s] : s \in Scopes}

\* What a manifest says after one of its entries was taken out or written over.
RevisedSet(entries) ==
    UNION {{entries \ {e}}
           \cup {(entries \ {e}) \cup {[e EXCEPT !.approval = a]} : a \in Revised(e.approval)}
           \cup {(entries \ {e}) \cup {[e EXCEPT !.hash = a]} : a \in Revised(e.hash)} :
              e \in entries}

\* One file is replaced or removed.
Edit(r) ==
    /\ edits < MaxEdits
    /\ edits' = edits + 1
    /\ raced' = (raced \/ \E p \in Procs : op[p].pc \in CheckThenUse)
    /\ \/ \E b \in Bodies \cup {None} :
              /\ \/ candidate' = [candidate EXCEPT ![r] = b] /\ UNCHANGED approved
                 \/ approved' = [approved EXCEPT ![r] = b] /\ UNCHANGED candidate
              /\ UNCHANGED <<fixture, expected, approval, published>>
       \/ \E x \in Fixtures :
              /\ fixture' = [fixture EXCEPT ![r] = x]
              /\ UNCHANGED <<candidate, approved, expected, approval, published>>
       \/ \E y \in Results :
              /\ \/ expected' = [expected EXCEPT ![r] = y] /\ UNCHANGED actual
                 \/ actual' = [actual EXCEPT ![r] = [value |-> y, by |-> None]] /\ UNCHANGED expected
              /\ UNCHANGED <<candidate, approved, fixture, approval, report, manifest, announced>>
       \/ /\ \/ actual' = [actual EXCEPT ![r] = NoOutput] /\ UNCHANGED <<report, manifest, announced>>
             \/ \E rep \in Genuine \cup {None} :
                   report' = [report EXCEPT ![r] = rep] /\ UNCHANGED <<actual, manifest, announced>>
             \/ /\ \/ manifest' = NoManifest
                   \/ \E entries \in RevisedSet(manifest.entries) :
                         manifest' = [manifest EXCEPT !.entries = entries]
                /\ UNCHANGED <<actual, report, announced>>
             \/ announced' = NotAnnounced /\ UNCHANGED <<actual, report, manifest>>
          /\ UNCHANGED authored
       \/ /\ \/ approval' = [approval EXCEPT ![r] = None]
             \/ /\ approval[r] # None
                /\ \E a \in Revised(approval[r]) : approval' = [approval EXCEPT ![r] = a]
          /\ UNCHANGED <<candidate, approved, fixture, expected, published>>
    /\ UNCHANGED op

\* The process ends; what it has linked stays.  (A load that dies leaves nothing.)
Crash(p) ==
    /\ op[p].pc # "idle"
    /\ Done(p)
    /\ UNCHANGED <<authored, published, people>>

Golden(p) ==
    \/ \E r \in Rules : GoldenEvaluate(p, r)
    \/ GoldenHash(p) \/ LinkActual(p) \/ LinkReport(p) \/ RollbackActual(p)

Activate(p) ==
    \/ ActivateBegin(p) \/ \E r \in Rules : ActivateVerify(p, r)
    \/ BuildEntries(p) \/ LinkBlocked(p)
    \/ LinkManifest(p) \/ LinkAnnounce(p) \/ RollbackManifest(p)

Load(p) ==
    \/ \E c \in Contexts : LoadManifest(p, c)
    \/ \E e \in op[p].todo : VerifyEntry(p, e)
    \/ ReadRule(p) \/ LoadSelect(p) \/ Return(p)

Next ==
    \/ \E r \in Rules : ApproveCandidate(r) \/ Edit(r) \/ \E s \in Scopes : WriteApproval(r, s)
    \/ \E p \in Runners : Golden(p)
    \/ \E p \in Activators : Activate(p)
    \/ \E p \in Loaders : Load(p)
    \/ \E p \in Runners \cup Activators : Crash(p)

Spec == Init /\ [][Next]_vars

-----------------------------------------------------------------------------
(* Properties.                                                             *)

Loaded == [entry : Entry, body : Bodies]
Steps == {"idle", "evaluated", "actual", "report", "unlink_actual", "verify", "blocked",
          "manifest", "announce", "unlink_manifest", "load", "read", "answered"}

Command ==
    [pc : Steps, rule : Rules \cup {None}, draft : Report \cup {None},
     todo : SUBSET (Rules \cup Entry), entries : SUBSET Entry, blocked : BOOLEAN,
     loaded : SUBSET Loaded, entry : Entry \cup {None}, context : Contexts \cup {None},
     answer : {"BLOCKED", "ABSTAIN", "SELECTED", None}]

\* Files, commands and answers are of their types.
TypeOK ==
    /\ candidate \in [Rules -> Bodies \cup {None}]
    /\ approved \in [Rules -> Bodies \cup {None}]
    /\ fixture \in [Rules -> Fixtures]
    /\ expected \in [Rules -> Results]
    /\ actual \in [Rules -> [value : Results \cup {None}, by : Procs \cup {None}]]
    /\ report \in [Rules -> Report \cup {None}]
    /\ approval \in [Rules -> Approval \cup {None}]
    /\ manifest \in [entries : SUBSET Entry, by : Activators \cup {None}]
    /\ announced \in [status : {"none", "BLOCKED", "ACTIVATED"}, by : Activators \cup {None}]
    /\ op \in [Procs -> Command]
    /\ raced \in BOOLEAN
    /\ edits \in 0 .. MaxEdits

\* docs/RULE_ACTIVATION_GOVERNANCE.md: a rule that load_governed_active_rules
\* returns is the body its reviewer approved, that body gives the expected result
\* on every golden case the approval rests on, and the context names every
\* dimension of its scope; whatever was edited, removed or published between the
\* golden run and the answer, as long as no file was edited under a golden run or a
\* load, which read files twice.
LoadedRuleProved ==
    ~raced => \A p \in Loaders : op[p].pc = "answered" => \A x \in op[p].loaded :
        LET a == x.entry.approval IN
        /\ x.body = a.approved
        /\ Evaluate[x.body][a.report.fixture] = a.report.expected
        /\ \A d \in Dims : a.scope[d] # NoValue => op[p].context[d] = a.scope[d]

\* Everything a manifest entry stands on is in place.
Intact(e) ==
    LET r == e.rule
        a == e.approval
    IN /\ approval[r] = a
       /\ candidate[r] = a.candidate /\ approved[r] = a.approved
       /\ report[r] = a.report
       /\ fixture[r] = a.report.fixture /\ expected[r] = a.report.expected

\* docs/RULE_ACTIVATION_GOVERNANCE.md: one damaged entry blocks the whole active
\* set.  A load that answers anything but BLOCKED found every entry of the
\* manifest intact, also those that do not apply to its context.
DamagedSetBlocked ==
    [][ \A p \in Loaders :
          (/\ op[p].pc = "load" /\ op'[p].pc = "answered"
           /\ op'[p].answer # "BLOCKED" /\ ~raced)
          => \A e \in op[p].entries : Intact(e) ]_vars

\* _publish_create_only: once an activation is reported, no other command, failing
\* and rolling back, removes or replaces its manifest; only people do.
AnnouncedManifestStays ==
    [][ (/\ announced.status = "ACTIVATED" /\ manifest.by = announced.by
         /\ edits' = edits)
        => manifest' = manifest ]_vars

\* The active set that a reported activation stands for is used whole or not at
\* all: a load that finds a part of it damaged answers BLOCKED, and no other
\* activation takes it away when it fails.
ActiveSetIsWhole == DamagedSetBlocked /\ AnnouncedManifestStays
=============================================================================

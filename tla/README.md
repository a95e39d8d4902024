# A verification project for the evidence review system

`evidence_review` is an offline, file-based runtime. People collect evidence
for a question in a mutable work store (a *ReviewMatter*), freeze it, and turn
it into an immutable *formal review run*: a directory to which two external
language-model passes (Track A, Track B) are submitted and from which a final
packet and an HTML page are produced for a human decision. There is no server
of record: every command is a process of its own, the command line and the
loopback Workbench may run at the same time, and all coordination goes through
one SQLite file, create-only files and a locked event journal. What is hard to
get right, and hard to test, is what happens when two of those processes
interleave, and when one of them dies between two writes.

## 1. The system

| Component | State it keeps | Operations | Interacts with |
|---|---|---|---|
| ReviewMatter store (`review_matter/store.py`, `events.py`, `projection.py`) | `matter.sqlite`: one row per Matter, its baseline, its event journal, a projection, an evidence binding, source dependencies | open (create or migrate the schema), create a Matter, append an event, rename, rebuild | every Matter command, through `BEGIN IMMEDIATE` transactions |
| Invalidation (`invalidation.py`, `impact.py`) | none of its own | register a source, invalidate the dependents of a changed one | reads rows, then appends one event |
| Evidence binding and selection (`source_binding.py`, `navigation/promotion.py`, `service.py`) | none of its own | bind the finalized database, search, select a hit | the file `evidence/evidence.sqlite`, which others replace |
| Formalization (`snapshot.py`, `formalization.py`, `formal_run_binding.py`) | snapshots and run bindings in the store | freeze a Matter revision, prepare its run, bind the finished run | store, evidence database, run directory |
| Formal run (`review_question.py`, `review_run.py`) | `runs/<RUN-ID>/*.json` and `review.html`, all create-only | prepare, submit Track A, submit Track B, resume, recover, finalize | journal, telemetry, evidence database |
| Workflow journal (`workflow/events.py`, `state_machine.py`) | `runs/<RUN-ID>/events/*.json` | load, append (both under a file lock) | formal run, orchestrator |
| Telemetry (`observability/run_metrics.py`) | one JSON file per finished stage | append a stage, record an external wait | formal run |
| Source batches and evidence database (`parsing/source_batch_importer.py`, `page_image_cache.py`, `evidence/`) | a page-image cache with one lock file per revision, `evidence.sqlite` with its finalization record, clauses, links and full-text index | import a batch, finalize, publish; migrate schema 1 to 4; migrate document lineage | everything that reads evidence |
| Retrieval and coverage (`retrieval/`, `planned_review_question.py`) | the bundle of a question: candidates, evidence, references, what a budget dropped | search, select, resolve, expand, decide coverage | full-text index, formal run |
| Tracks, confidence and abstention (`llm_layer/`, `confidence/`, `abstention/`) | the request, the draft, the audit and the packet of a question | build the request, validate both tracks, apply the gates | formal run |
| Math and rule engines (`math_engine/`, `rule_engine/evaluator.py`) | none | calculate; evaluate a rule | golden runs, reviews |
| Rule governance (`rule_engine/activation.py`, `manifest.py`, `golden.py`) | create-only rule, golden-case and activation documents | propose, prove, activate, select | rule engine |
| Orchestrator and reference ingestion (`workflow/`) | run layout, receipts, lane documents, journal | prepare, pause, ingest references, confirm drawings, run the engines, hand over to the tracks | journal, source batches, drawing confirmations |
| Drawing evidence (`parsing/drawing_*`, `drawing_review/`) | create-only candidates, confirmations, calibrations and inputs; the indexes of a threaded server, in memory | confirm, calibrate, show a packet, build and bind inputs | orchestrator, engines |
| Human decisions (`review_packet/decision_record.py`) | append-only decision files | record a decision | review server |
| Review server and launcher (`review_packet/local_server.py`, `browser_launcher.py`) | a process, a state file, a token | launch, reuse, stop | decisions |
| Workbench server (`workbench/`) | a process, a state file, a token | serve, query, stop; post a mutation | Matter store |
| Selection of the current workspace and review (`workspace_binding.py`, `current_review_binding.py`) | one binding file each | publish, read | launcher, skills |
| Release (`release/`) | a private stage, a publish lock, the published output, an attestation | build, attest, publish | run, evidence database, rules |
| Parser reproducibility, documentation integrity, case visuals, parsing, rendering | reports and generated files | batch jobs | source tree, evidence |

`PROJECT.json` lists each of them with its status, and under `hazards` the forty
things most likely to go wrong that a test would hardly reach, with the
properties that would show them; section 7 has the others that were met.

Properties that make the parts correct:

* **Store.** Whoever opens it finds the whole schema; a revision names one
  content; the journal is enough to rebuild the rest; a decision taken from rows
  read before a transaction is still right when the transaction commits, or the
  commit is refused.
* **Run.** The journal is legal under every interleaving and advances only when
  what it announces is complete on disk; the packet is made from the Track B
  that was accepted; accepted inputs are never replaced; an interrupted
  finalization can be finished.
* **Orchestration.** No engine runs before its lanes are passed and each runs on
  what the one before it left; a run that a lost call damaged stays refused; any
  other comes, with retries, to a handoff or to a person.
* **Evidence.** What was selected or bound is what is in the bound database. A
  database is at its output path whole or not at all, and is never replaced; its
  pages are of the PDFs it names; a migration loses no row and a report speaks
  of the output beside it.
* **Answers.** What the caps cut off is reported; an answered issue rests on
  evidence found for that very issue, and no stage raises what an earlier one
  lowered.
* **Drawings.** The engines are given nothing a reviewer rejected; the calibration,
  the confirmation and the candidate of a packet belong together.
* **Decisions.** A decision that was acknowledged is never lost, replaced or
  uncounted.
* **Servers.** With one operator, and until a stop or an interrupted command
  intervenes, a server whose address is out can be found and stopped; a mutation
  that is posted again is not applied again.
* **Rules.** A rule that takes part in a review is the one a reviewer approved
  and its golden cases prove, or the whole active set is refused; a verdict
  depends on no calculation it does not name and not on the order of its
  conditions.
* **Release.** What a ready release ships is what was reviewed and validated.

## 2. Modules

| Module | Models | Extends |
|---|---|---|
| `MatterStore` | one Matter, the processes that use it, its evidence file | – |
| `MatterRebuild` | `rebuild_projection` on top of it | `MatterStore` |
| `StoreOpening` | creation and migration of the database by the processes that open it | – |
| `Formalization` | snapshot, formal request, run preparation and binding beside the store's other users | `MatterRebuild` |
| `WorkflowJournal` | transition rules and the validity of a journal (no state) | – |
| `ReviewRun` | one run directory, its journal and telemetry, the commands | `WorkflowJournal` |
| `Orchestration` | a run under the `workflow` package: lanes, engines, handoffs | `WorkflowJournal` |
| `EvidenceAuthority` | what the output path of an evidence build promises (abstract) | – |
| `EvidenceBuild` | the import of a source batch; implements `EvidenceAuthority` | – |
| `EvidenceMigration` | the three copy-on-write migrations of the schema | – |
| `LineageMigration` | the migration of legacy document lineage | – |
| `Retrieval` | a planned question from its plan to the coverage of its issues | – |
| `Assessment` | its request, draft, audit, gates and packet | `Retrieval` |
| `DrawingCase` | confirmations, calibrations and inputs of a drawing | – |
| `Release` | builds, attestation and publication of a release | – |
| `ServerLifecycle` | the detached review server of a run and its commands | – |
| `HumanDecision` | recording, importing and counting the decisions on a run | – |
| `Workbench` | the Workbench server, its commands and its clients | – |
| `RuleGovernance` | from candidate rule to runtime authority | – |
| `MathEngine` | the Math Engine and what a golden case gives to a rule | – |
| `RuleEvaluation` | the evaluation of a rule over it | `MathEngine` |
| `MatterStoreProofs` | theorems about the store, its rebuild and its opening | `MatterRebuild`, `StoreOpening`, `WellFoundedInduction`, `TLAPS` |
| `FormalizationProofs` | about formalization | `Formalization`, `MatterStoreProofs` |
| `ReviewRunProofs` | about a formal run | `ReviewRun`, `TLAPS` |
| `OrchestrationProofs` | about an orchestrated run | `Orchestration`, `TLAPS` |
| `EvidenceProofs` | about import, schema migrations and lineage migration | `EvidenceBuild`, `EvidenceMigration`, `LineageMigration`, `TLAPS` |
| `PipelineProofs` | about retrieval, final packets, releases and drawing cases | `Assessment`, `DrawingCase`, `Release`, `TLAPS` |
| `HumanDecisionProofs` | about decisions, the Workbench and the review server | `HumanDecision`, `Workbench`, `ServerLifecycle`, `TLAPS` |
| `RuleGovernanceProofs` | about the governance of rules, the Math Engine and rule evaluation | `RuleGovernance`, `RuleEvaluation`, `WellFoundedInduction`, `TLAPS` |
| `MCMatterStore`, `MCFormalization`, `MCReviewRun`, `MCOrchestration`, `MCEvidence`, `MCPipeline`, `MCDrawingCase`, `MCServerLifecycle`, `MCHumanWork`, `MCRuleGovernance` | the instances TLC checks | |

An MC module that holds several components, or one component under bounds that
cannot all be large at once, has a variable `focus`, chosen in the initial state:
in a behaviour only the component (or the kind of change) in focus moves, and the
rest stands still. The components put together this way share no state in the
program either, so nothing is lost by it; where they do share state (the store
with the formalization, retrieval with the assessment) they run together.

### MatterStore

The variables are the tables: `matter` (`matters` and its identical copy in
`matter_projections`), `baseline`, `journal`, `evbind`, `deps`; `evidence` is the
database file. `seen[c]` is the Matter the last successful call of process `c`
returned, so `seen[c].revision` is the `expected_revision` of its next command.
`op[c]` is the operation in progress with what it has read.

SQLite makes a transaction one step. Everything an operation reads outside its
transaction is a step of its own:

* `invalidate_source_dependents` is `InvalidateLoad` (load, compare the
  revision), `InvalidateImpact` (rows, impact, closure) and `AppendMatterEvent`;
* `bind_finalized_evidence` is `BindProvenance`, `BindLoad`, `BindExisting` and
  `AppendMatterEvent`;
* `select_evidence` is `SelectSearch`, `SelectLoad`, `SelectPromote` and
  `AppendMatterEvent`;
* the other commands decide from a single load and then append.

`AppendMatterEvent` is the whole of `append_matter_event`: the comparison, the
journal's last revision, the projection of every event kind with the errors it
raises, and the side effects on binding and rows. A caller that raises or dies
is `Abandon`. The document is abstracted to title, issues (state, `depends_on`,
facets) and selections; text, locators and hashes are model values. The issue
states that no code distinguishes are one state.

Two assumptions on the caller: it passes the revision its last call returned,
and the Matter it works with is one (Matters share only the write lock).

### StoreOpening

`MatterStore.__init__`. A file is an inode: `path` is the one that has the name
`matter.sqlite`, `store[i]` what database *i* holds (the version SQLite keeps, the one in
`matter_meta`, the tables, the column `source_revision_id`). A process asks whether the
name is there (`LookForStore`) and connects in a later step (`Connect`), so two processes
can both believe they create it. `executescript` runs `schema.sql` outside any
transaction: one step per statement (`ExecuteSchema`), the version first, the tables
after it. A migration reads the version (`ReadVersion`) and then migrates in a
transaction that compares the version again (`MigrateFrom1`, `MigrateFrom2`,
`MigrateFrom3`); `RequireSchema` ends both ways. `Interrupt` is an exception anywhere in
the constructor, which unlinks a database this process took for new (`Unlink`, by name);
`Kill` unlinks nothing. A process stays connected to a file that has lost its name, but
SQLite refuses to write to it.

`_require_schema` looks at three of the nine tables. `StoreIsWhole` says that this is
enough, and that what an earlier version made is whole for some version at every moment.
It is enough because the last table of `schema.sql` is among the three: with the tables of the
migration first, as the mutant has it, a creation cut short would be opened. A database
whose creation was cut short by a kill is not repaired: every later process finds a file,
runs no script, and raises.

### Formalization

Adds to the store's variables the tables `formalization_snapshots` and
`formal_run_bindings` (`snapshots`, `bound`), the run directories (`runs`), the
selector `.ers/current-review.json` (`current`) and the write lock of the store,
which `formalize_snapshot` holds over the preparation of the run and which is
therefore a variable here. A snapshot is the Matter as it was loaded, the
database its provenance names (`db`) and the database its evidence text was
really read from (`text`): the code reads the file again for each check, so the
two can differ. A run is named by its snapshot, because its identifier is the
hash of a request that is a function of the snapshot.

`create_formalization_snapshot` is `FormalizeLoad`, `ReadProvenance`,
`CheckBinding`, `ReadText`, `PersistSnapshot`; `formalize_snapshot` is
`ValidateSnapshot`, `RereadText`, `RecheckProvenance`, `BeginPrepare`, then
`CreateRun` and `WriteRun` or, for a run that exists, `CheckExistingRun`; both
end in `ResumeRun` and `FinishFormalize`. Any check that fails is
`FormalizeRaises`, with the discarding of a directory this call created. Between
any two steps the other processes act (`MatterStep`), and the file may be
replaced (`EvidenceStep`). `bind_formal_run` is called by the tests and by no
command yet; the model has it because the selection of the current review
depends on it.

Three things the model shows that no property demands otherwise. A snapshot may
hold the text of another database when the file is swapped out and back around
`ReadText`; what prevents such a run is the second reading, and it takes a second
swap to get past that (`RunTextIsBound`). A crash while the directory is filled
leaves a run that every later formalization of the snapshot refuses. And
`verify_formal_run_authority` compares with the present evidence file, so a bound
run cannot be shown once the file has been replaced.

### WorkflowJournal and ReviewRun

`files` maps an artifact to its content: `Absent`, `Torn` (created, bytes
missing), `Fixed` (a function of the request alone), or the Track output it was
derived from. So "the packet is made from Track B `b1`" is
`files["final-review-packet"] = b1`, and "is identical to what I would write" is
an equality. An exclusive create and the write after it are two steps
(`CreateFile`, `FillFile`); a crash in between, or another process looking in
between, meets `Torn`. Unlinking follows POSIX.

Each command is a sequence of steps of its process (`op[p].pc`). Loading the
journal and appending to it are separate lock regions in the code and separate
steps here; `_append_event`'s early return, the identical-bytes rule for a
sequence number taken meanwhile, and the illegal-transition error are branches
of `EventLoad` and `EventAppend`. Validation of a Track output is a fact about
the output: `TrackAs` and `TrackBs` are the ones that pass. What is submitted
is a file outside the run or the run's own `track-a-output.json` or
`track-b-output.json` (`SubmittedA`, `Submitted`), which is then not written again.

The environment adds `Crash` (with a torn file, event or telemetry record where
the process could leave one), `FinalizeFails` and `PrepareFails` (a stage raises
and the handler cleans up) and the replacement and restoration of
`evidence.sqlite`. `MaxFaults` bounds these together.

### Orchestration

`store` holds the bytes of each attachment, `file` the other files of the run
directory, `events` the journal. A call is the list of its remaining steps
(`op[o].todo`): `CreateFile` and `FillFile`, `LoadEvents` and `AppendEvent`, and
the readings in between (`ImportReferences`, `MakeReceipt`, `ResumeReviewRun`,
`HashConfirmedInputs`); a step that fails drops the rest of the list. A file is
written in one of the code's styles: accepted if it is there with the same bytes
(`identical`), the stage variant of that (`stage`), exclusively, or once. The
calls are `Prepare`, `IngestPendingReferences`, `StartDrawingConfirmation`,
`ResumeAfterConfirmation`, `RunDeterministicStages`, `AdvanceToTrackB`,
`RequireTrackBAcceptance` and `FinalizeOrchestrationRun`; a call whose first
checks fail changes nothing and is no step. The environment is `Crash`,
`WriteFails` (a created file stays empty), `ReplaceFile` and the reviewer.

Create-only files and a journal that only grows mean that a lost call often
cannot be repeated. The model names each such damage (`HalfWritten`,
`InterruptedClassification`, `DatabaseWithoutReceipt`, `PlanWithoutPause`,
`PacketWithoutEvent`, an empty event file), `FailClosed` says that it stays and is
not papered over, and `RunSettles` that there is no other one before the handoff.
A finalizer status besides READY_FOR_HUMAN_REVIEW and ABSTAIN raises after the
packet is written, so a PARTIALLY_RESOLVED run stays in FINALIZING: this is
`PacketWithoutEvent` without any crash. A file replaced between two readings
(`swaps`) is exempted where the code reads twice and compares nothing: the
database after its import, the confirmed inputs between validation and hash.

### EvidenceAuthority and EvidenceBuild

A PDF is its content, which is also its hash and its revision; an artifact of the
parser is the PDF it was made from and an edition. `import_source_batch` reads
both several times, so each reading is a step: `Prepare` (hashes, readiness,
duplicates, declared identities), per source `ParsePayload`, `ParseElements`,
`ParseTables`, `ParseGeometry`, `HashArtifact`, `CheckArtifact`, `CheckSource`,
then `CacheGeometry`, `CacheLock`, `CacheVerify`, `RenderPage` and `RenameCache`
under the lock of the revision, then the database in a private directory
(`IngestSnapshot`, `MaterializeClauses`, `ProvisionalIndex`, `MaterializeLinks`,
`CommitFinalized`, `FinalIndex`, `ValidateBuild`), `LinkOutput` (create-only) and
`Report`. `Swap` replaces a file at any time, `BuildCrash` ends a process; its
locks go with it, as a `flock` does. Clauses and reference
links appear only as what derives from the rows and from which rows.

`EvidenceAuthority` is what the readers of a database rely on: nothing, then one
complete database, put there by the builder that reports success, never replaced.
`AuthorityRefined` is the refinement `INSTANCE EvidenceAuthority WITH`
`authority` as the content of the output if it validates (an invalid marker if it
does not, which no abstract step allows), `owner` as the importer that linked it,
`answer` as what each importer reported.

### EvidenceMigration and LineageMigration

The temporary database and report of a migration have fixed names beside the
output, so two migrations of one output share them: `mtmp`, `mrtmp`, `mout` and
`mreport` are the four paths with who made them. The three migrations differ in
what they read before and after the copy and in what their handler removes, and
`version` chooses one. `overlap` records that two ran at once, which can destroy an
output and leave its report; the code has no defence, and `ReportMatchesOutput` does
not claim one.

A lineage graph is a set of rows with identity, parent and payload. `Plan` is the planner (a
counterpart of equal payload and image parent for every legacy row, no two for one,
`VerifyMapping`), `CopyWithoutLegacy` the transformation, `RecheckSource` and `PublishNext` the
publication of output, aliases and report one after the other. In a chain of documents (A to B,
B to C) what hangs on the middle one would be lost: the verification of the mapping against the
remaining rows is what `NothingLost` rests on. The code writes the logical digest of the result
where a finalized database keeps its snapshot hash (`lineage_migration.py:243`), so a migrated
FINALIZED database no longer validates; no property of the model spans the two modules.

### Retrieval and Assessment

Words stand for texts: what a question or request asks for (`Asks`) and what a
clause or element says (`Says`) are sets of the words the relevance rules look
for. What the full-text index answers is external: any set of at most the allowed
number of clauses, in any order. A search scoped by headings may answer with
many more than the limit: they are filtered for relevance and only then cut down
(`HeadingLimit`, `Truncated`). Identifiers are numbers, because the code breaks
ties by sorting them. One step is one query (`pos`), one turn of the round robin,
one clause resolved, one element of the reference walk, one issue's coverage; the
walk keeps the code's order, in which a target is visited by the first link that
leads to it. That has an effect a reader may not expect: a missing target shared
by two elements of an issue is reported for the first alone (`graph.py:162`), and
where that one supports no facet, `coverage.py:232` drops it, although the docstring
at :168 has a reference missing from facet-supporting evidence taint the issue.

`Assessment` continues with the request and its confidence factors, a draft and
an audit (`AcceptTrackA`, `AcceptTrackB`: any that the validation accepts; a refused
one changes nothing), and `FinalizeRun`: the result of each issue, the gates, the
score in ten-thousandths and the status of the packet. A claim has the numbers of its
text and the comparisons its text makes between them (`RelationHolds`); the factor
`sourced` counts all four gap codes of `confidence/coverage.py:11-16`. `Grounded(i, role)` in the
properties is deliberately not what the search recorded but what the corpus says:
the selected elements that are relevant to a request of the issue and role, or belong to
such a clause, and what current links reach from them. The links may lead over an
element without a page rectangle, as the walk of the code does; what is cited may not
be one. The lists of `Retrieval` (`AtPositions`, `Joined`, `Orders`) are defined there
by recursive functions and sets of functions, because the theorems need their
definitions.

### DrawingCase

An artifact is a file written once under a name derived from its content; `disk`
says what is in it. `entries`, `confirmations` and `calibrations` are the indexes
the server keeps in memory, `lock` its `action_lock`, `task[h]` the remaining steps
of a request thread. Calibrations are persisted and indexed outside that lock, and a
packet verifies its candidate and then reads it again (`PacketVerify`,
`PacketLoad`). `FillFails`, `RestartServer` and `ReplaceArtifact` are the mishaps.
`DrawingIsTraced` has two parts: `PacketIsCoherent`, that calibration, confirmation and
candidate of a packet are of each other, and `BoundInputsTrace`, that what the engines
get has the value of its confirmation and no rejecting one. The first says nothing of
the action: a calibration takes any confirmation of its candidate, a REJECTED one too,
and the packet then says ACCEPTED. That is `RejectedIsNotShown`, which the run
`drawing_rejected` shows violated.

### Release

`source` is the workspace, which nobody locks; `build[b]` is the private stage of a
builder. The database is read to be hashed, copied and validated; the rules are
copied three times and validated once more, at different times (`BuildCodex`,
`ZipRules`, `BuildWeb`, `ValidateRules`, `ProbeWeb`). A candidate is the record of
what its artifacts contain, which stands for its hash, and becomes ready in a second
build that finds the attestation of the first (`Attest`). `LockOutput`, `Publish`
and `UnlockOutput` are the publication; a crash leaves the lock for good. A build
during which the rules were edited is `disturbed`.

### ServerLifecycle

`record` is the state file `review-server.json` (whose it is, and whether its
bytes are there), `servers[s]` a server process with its step, a SIGTERM that its
handler has not served yet and whether it printed its port, `launcher[l]` a
command-line process with what it read. Nobody holds a lock: the commands read
the file, check the process, and unlink the name, each in a step of its own
(`ReadStatus`, `VerifyAlive`, `RemoveState`; `StopReadState`, `Kill`,
`StopReread`, `StopUnlink`), and so does a closing server (`ReadOwnState`,
`UnlinkOwnState`). The server's start is `Bind`, `CreateState`, `WriteState`,
`PrintPort`, `InstallHandlers`; a SIGTERM before the last of these ends the
process without its `finally`. `Crash` kills a server, `Interrupt` a command.

A server stands for its pid and token together, since the command line of a
process is compared with both; the reuse of a pid in the instant between that
comparison and the signal is outside the model, and so are the state files of an
earlier layout. With two launchers at once `ServingIsFindable` fails and two servers
can be in service: each command finds the other's unfinished file torn and unlinks it
(`browser_launcher.py:438`). Nothing in the code keeps two commands apart, and no
document of the repository promises what happens then; so the run and the theorem are
about one launcher and say so. What they show is that a single operator's timeouts, a crash
and servers closing by themselves do not separate a server from its file, as long as no stop
and no interrupted command intervened.

### HumanDecision

`packet` and `verified` are what a verification of the run directory would find
now; a server remembers the packet its pages were built from. A POST is
`PostArrives`, `PostRecheck` (after the body, which may take long), `PostStamp`
(the server's time), `CreateRecord` (exclusive) and `WriteRecord`; an import
shares the last two and brings its own time. Request threads are daemons, so
`ServerExit` ends its writers wherever they are. File names are made of a time
and a reduced reviewer name, which several reviewers can share (`SafeName`). The
clock runs and may be set back by at most the skew the code allows. The reader
`BindingStatus` is an operator on the files.

The report as of an instant (`release/report_as_of.py`) is not modelled: it reads the
records up to a cutoff, and a property of it repeats that comparison. An import dated in
the past, or a write that is slow, does change a report as of that date. The docstring
(`report_as_of.py:37-39`) speaks of decisions stamped later than the cutoff, which it
keeps out by itself.

### Workbench

`stateFile` is the state file, as in `ServerLifecycle`, but the commands differ:
the status that finds a stale file unlinks the name (`StatusReads`, `VerifyServer`,
`RemoveStale`), `stop` reads the file after the status, signals a pid nobody verifies
again and removes the file (`StopReads`, `StopKills`, `StopCompares`,
`StopRemoves`). `overtaken` has the servers whose file somebody removed who had read
another one or found it half written: the window the code leaves open, and the only
one, says `WorkbenchFindable`. `client[c]` posts a mutation with the revision it has
seen; the server's thread commits it (`Mutate`) and answers (`Reply`) unless its
process ends in between, and the client posts the same again (`PostAgain`).

### RuleGovernance

A hash is the content it is taken of, so "the approval names the report's hash"
is an equality of records. `candidate`, `approved`, `fixture`, `expected` and
`approval` are the authored files, `actual`, `report`, `manifest` and `announced`
the published ones; the last four keep who linked them, which is the inode that
`_same_inode` compares. All cases of a fixture, with the manifest that lists
them, are one value.

`run_rule_golden` is `GoldenEvaluate`, `GoldenHash` (the rule files are hashed in
a second reading), `LinkActual`, `LinkReport`, `RollbackActual`.
`build_active_manifest` is `ActivateBegin`, one `ActivateVerify` per approval,
`BuildEntries` (the approvals are hashed in a second reading), then `LinkBlocked`
or `LinkManifest`, `LinkAnnounce` and `RollbackManifest`.
`load_governed_active_rules` is `LoadManifest`, `VerifyEntry` and `ReadRule` per
entry, `LoadSelect`. `WriteApproval` and `Edit` are people: a reviewer notes the
hashes of what is there, and any one file may be replaced or removed: a report
also by one that a golden run made elsewhere, an approval by one that names another
body, report or scope (`Revised`), the manifest by one in which an entry is gone,
names another approval or hashes another one (`RevisedSet`). So the two readings of an
approval by an activation (`activation.py:207`) and the comparison of an entry with its
approval (`ACTIVE_ENTRY_MISMATCH`) are exercised. `raced` records that an edit
happened under a golden run or a load, which read a file twice; against that the
code has no defence, and `LoadedRuleProved` and `DamagedSetBlocked` do not claim
one. A manifest that is linked and not yet reported can be loaded; the properties
hold of it all the same.

### MathEngine and RuleEvaluation

Numbers are multiples of `1/Unit`; a quotient is rounded half up to `1/Digits`
before it is compared, and one from `MaxRatio` on fails (`quantize` of a ratio of 10^23
raises `InvalidOperation`, which the engine turns into ENGINE_ERROR). A request goes to
one of two registries: each knows its own formulas and has its own manifest, and a case
expects one of the two manifests or none (`expectedManifest`).

The expressions are a set of nodes of any number (`Nodes`), whose children are nested
less deep (`Depth`), as those of a finite document are; `EvaluateNode` is a recursive
function on them. A comparison has one of the eight operators of `operators.py` over JSON
values (null, integers, decimals, booleans, texts, arrays), with Python's equality, order
and containment: `TextBefore` and `TextWithin` say which texts come before or lie within
others. A calculation node reads any of the four fields of a result. A node gives a set of
truth values: one, none where the code answers INVALID_RULE_INPUT, both for the TypeError
of `in` and `contains`, which escapes from `evaluate_rule` (verdict RAISED), and with it the calculations
it looked at; `all` and `any` stop at the first child that decides (`Deciding`), in the
order `Written` or, for comparison, `Backward`.

The state is what has been given: inputs of any JSON type, calculations, and evidence that
may no longer resolve. Somebody may write another success into a result (`Alter`) and leave
its hash or take it anew, since the hash has no key; `falsified` marks such a result for
the properties, and no reader sees it. A rule that compares a scalar input with an array
literal by `in` is in the instance: the literal is decoded with the input's type, so it is
never satisfiable (`evaluator.py:127`).

## 3. Runs

| Run | Question | Result |
|---|---|---|
| `matter` | Does an invalidation decided from earlier reads cover every dependent at its commit? Do binding and selection survive a database that is replaced and a second process that binds? Does replaying the journal give back Matter, rows and binding? Is the database whole for whoever has opened it, through interrupts and kills? | holds |
| `formalization` | Two formalizations beside the Matter's other commands, swaps of the evidence file and a crash: is a snapshot one revision under its database, is the text in a run that database's, is a run prepared only for the current revision, are bound runs never removed? | holds |
| `run_recovery` | One process, up to three faults: does every recorded stage rest on whole artifacts of the accepted inputs, are accepted inputs never replaced, does a run leave FINALIZING? | holds |
| `run_validation_torn` | Does a retry regenerate whatever a crash in finalization left? | violated |
| `run_double_submit` | Does READY_FOR_REVIEW imply the final artifacts? | violated with two submitters |
| `orchestration` | Two processes on one run under the orchestrator, with a fault: do engines run only on what the lanes and the engines before them left, does a damaged run stay refused, does every other one come to a handoff or a person? | holds |
| `evidence` | Two importers and replaced files: does the output path implement the write-once authority, is everything published whole, does every import end? Does a migration report speak of the output beside it, and does a lineage migration lose nothing? | holds |
| `pipeline` | From the plan of a question to its packet: are caps honest and answers grounded? Two processes on one formal run: is the journal legal? Do the parts of a drawing packet belong together and engine inputs trace to a confirmation, and do ready releases rest on what was reviewed? | holds |
| `server_stop_then_serve` | Is one server in service at most when a serve follows a stop? | violated |
| `drawing_rejected` | Does what a packet shows as accepted rest on no rejection? | violated |
| `human_work` | Do acknowledged decisions stay intact and counted under colliding names, ending servers, a replaced packet and a clock set back? With one operator, start timeouts, a crash and an interrupted command: can a review server in service be found? Is a serving Workbench found, and a mutation applied at most once? | holds |
| `rule_governance` | Is a loaded rule approved, proved and in scope whatever was edited or written over, and the active set used whole or not at all, while a reported manifest survives other activations? Does a verdict depend only on what it names, and a rounded ratio fall on the right side? | holds |

**Bounds.** *Store.* Two processes (the interesting conflicts are between one that
decides and one that commits), two issues (a dependency and its dependent), one
source with two identities, two databases, and four revisions: create, an issue or
two, and one change of anything, which is enough for a stale decision followed by
the commit it would have missed. A behaviour is about the evidence of one issue,
which is added OPEN, or about the sources of two, where titles and facets do not
change. A rebuild is one transaction and may happen at any point. Two processes open the
database, absent or of any version, with two interrupts or kills: one for the creation
or migration that is cut short and one for the process that meets what is left; two files,
because the name can be given to a second one while a process still has the first.

*Formalization.* A Matter that can be formalized exists from revision 4 on. With the
focus on replaced files the Matter stays there and there are up to four faults, as
many as it takes to carry a foreign text through; with the focus on revisions it goes
to 5 (one more change after the snapshot), with one fault and an evidence file that
stays. Two formalizing processes in both; the issue is added ready and with its facets,
because it would take revisions from the bound to make it so.

*Formal run.* One process with three faults (a crash, one during its recovery, and one more) and
two valid outputs per Track; the two processes of the `pipeline` run have no faults, one Track A
output and two for Track B, one of which only one process hands in. *Orchestration.* Two
processes, two attachments and one fault; with the focus on lanes, four requests that need
preparation and one engine output, with the focus on engines, nothing to prepare, two outputs
and the Track handoffs.

*Evidence.* Two importers, two items, two PDFs of one and two pages where the longer
cites the shorter, and one replacement; two migrators of each schema step and two
replacements of their source, which is one more than their checks catch; lineage
graphs of three documents with every combination of seven further rows.

*Pipeline.* Four clauses, seven elements and two plans (one issue with facets, two
issues of which one depends on the other), with every budget at 2 to 4, so that each
of them is exceeded. Two request threads, an extracted and a drawn candidate, two
reviewers and one mishap. Two builders, two directories, two databases and two rule
sets, and one edit or one crash.

*Servers and people.* One operator and three review servers (one that is left behind,
one that starts and one that would be too many), a crash and an interruption. Two decision servers, two writers whose
reviewers share a file name, two packets, and a clock of four values with a skew of one,
so that a decision can lie behind, at and ahead of the clock. Two Workbench processes
with one kill and either two operators or two clients, each posting once and
repeating.

*Rules.* Two rules (one to damage, one to be answered without it), a good and a bad
body, two activators, a golden runner, a loader, of which two activations or an
activation and a load overlap, and one edit at any point; scopes name
two dimensions and a context may leave one open; the golden cases of both rules expect
the same outcome. The two rules have identifiers of
their own; that two versions of one rule are refused (`Duplicates`) is outside this
instance and inside the proofs. Evaluation has nine calculation requests (a
threshold met, missed, met by rounding, finer than the precision; a zero perimeter with a
negative frontage, an infinite number, a ratio that is too large, a formula asked of the
wrong registry, a drawing formula), nine expressions that use all operators and three of
the four fields, two inputs with null and ill-typed values, and two calculations at once. The
drawing that is rejected has one candidate, an acceptance, a rejection and no faults.

Sets of processes and values are symmetric where no property names a member.
`CHECK_DEADLOCK FALSE` is said where processes, revisions or files run out or every
command has ended: `Formalization`, `Orchestration`, `Evidence`, `Pipeline`,
`HumanWork`, `DrawingRejected` and `ServerStopThenServe`.

**Fairness.** *Formal runs* (`FinalizingCompletes`, `FinalizingRecovers`). A command in
progress goes on (weak fairness of `Step`): nothing in the code waits for
another process except the journal lock, which is held for a load or an append.
Whoever runs the commands repeats them (strong fairness of each submission,
since another submission may be in progress in between): this is the retry the
skill prescribes, and the property is about the run, not about its operator. The
bound database comes back (weak fairness of `RestoreEvidence`). *Orchestrated runs*
(`RunSettles`): weak fairness, per process, of its step and of beginning some call; not
of persons, whose turn counts as settled, nor of faults. *Imports* (`ImportEnds`): weak
fairness of an importer's step; waiting for a revision lock is a disabled step, and the
locks of an importer that ended or died are free.

### What the violated properties show

* *A torn `track-b-validation.json` is a dead end.* It is published with the
  identical-or-fail rule but belongs to no ownership group, so recovery leaves
  it and each retry raises.
* *The same Track B twice.* The second submitter enters recovery and unlinks the
  outputs that the first has finished; the first then records
  READY_FOR_REVIEW, and the run can neither be shown nor finished.

* *Serve after stop.* `serve-stop` removes the state file while the server still
  closes. That server has read its own file before and unlinks the name
  afterwards, by when it can be that of its successor, which stays in service
  unseen; a third server then starts beside it.
* *A rejected candidate.* `_post_calibration` asks for a confirmation of the candidate and
  not for its action (`local_server.py:841`); the packet of the calibrated drawing says
  CONFIRMED and ACCEPTED (611-612) for a candidate the reviewer has rejected. The binding of
  inputs to the engines does look at the action (`drawing_binding.py:88`), so what is wrong
  is what the packet shows.

With a single process at a time, which is how the skill uses the commands, the
second does not happen: that is `run_recovery`. Two first submissions of
*different* Track B outputs have a similar problem: `_append_event` returns
silently when the journal already is in the requested state, so the second
submitter does not learn that FINALIZING holds another identity and may publish
its output first; and two first submissions of Track A can leave WAITING_TRACK_B over
sidecars that the recovery of the other removed. `StagesAreGrounded`, which one process
keeps, does not hold of two.

## 4. Proofs

`tlapm` checks every theorem for all values of the constants: any number of processes,
documents, rules, faults, and journals and files of any length. 34 of the 37 properties of
the passing runs are proved, all but the three about liveness; `PROJECT.json` lists the
theorems.

**Assumptions.** Most constants are assumed only to have their null value outside the proper
ones and their bounds to be numbers. What goes beyond that: the clock is set back by no more
than `MAX_FUTURE_DECISION_SKEW` (`HumanDecision`); a submitted confirmation has the form
`decode_annotation_action` accepts (`DrawingCase`); a lineage database satisfies its keys and a
manifest maps one to one, as its decoder demands (`LineageMigration`); a plan is one that
`decode_question_plan` accepts and a corpus finite (`Retrieval`); items are ordered
(`EvidenceBuild`, the sources of a batch are a list); an input of a calculation is a number or
one of the texts that is none (`MathEngine`); the expressions of a rule are of the six kinds
`load_rule` accepts, every `all` and `any` has a condition, and nesting ends
(`ExpressionAssumption`). Two hypotheses are stated in the theorems that need them: `OneProcess`
(the commands of a formal run are issued one after the other) and `OneCommand` (so are those of
a review server). Nothing in the code enforces either, and both are needed: without the first,
`ReadyIsComplete` is false (`run_double_submit`), and with two launchers `ServingIsFindable` is,
because they unlink each other's unfinished state files.

**Store** (`MatterStoreProofs`). The inductive invariant is `StoreInv`:
`TypeOK`, an absent Matter is empty, `JournalContiguous`, no process is ahead of
the store, `RevisionNamesContent`, rows name known issues, and `PendingCurrent`:
an event waiting to be appended is what the store asks for *as long as its
expected revision is current*. The last two carry the argument. Each commit
moves the revision past what every other process has seen, so their pending
events need no justification any more; the committing process is idle
afterwards; and a process that decides does so from a Matter that, if its
revision is current, is the store's. The action properties follow at the commit,
where the comparison makes `PendingCurrent` apply.

**Rebuild** (same module). `ReplayReproducesStore` says that replaying the whole journal on the
baseline gives document, binding and rows. `RebuildInv` adds to `StoreInv` that an unwritten
Matter has neither binding nor rows, which is what the replay of a new one starts from. The
replay is a recursive function. That it exists and is unique at every length, and that the
replay of an extended journal agrees with that of the shorter one (`ReplayOfAppended`), is
proved by induction; the induction itself is the lemma `Induction`, from the well-foundedness
of the order on the natural numbers and a smallest counterexample (`WFMin`). Then every commit
is one more step of the replay. `RebuildChangesNothing` is the refinement that follows: with
`rebuild_projection` the store still behaves as specified without it.

**Opening** (same module). `OpeningInv` tells two kinds of database apart. One that was
created here holds, for each of its tables, all tables before it in `schema.sql` (`InOrder`),
whatever was cut short and however many processes run the script over the same file, because
each has found or created every table before the statement it is at (`Before`); so whoever
finds the last table finds all (`LastTableIsLast`). One of an earlier version is whole for
some version (`MigratedIsWhole`) and no process takes it for new, so none unlinks it. What an
open process has found stays as the database grows (`Keeps`).

**Formalization** (`FormalizationProofs`). `FormalizationKeepsStore`: every step of
formalization is a step of the store or leaves its variables alone, so what is proved of the
store holds here. `FormalInv` adds two things to the properties. `LockInv`: the lock is held by
exactly the process that is preparing, the Matter still has the revision it
checked, and a directory that is to be discarded on failure is not bound. This
gives `RunOfCurrentRevision`, and `BoundRunsStay`, where the point is that a run
may be finished by others while its creator can still discard it, but not be
bound, since binding needs the creator's lock. `TextInv` counts, for each
point of the sequence, how often the file must have been replaced for the text
to be foreign: one more at each check that names the other database. `SnapshotInv` joins
`FormalInv` and `RebuildInv`: a snapshot is persisted only at the revision it was loaded at, and
by `RevisionNamesContent` and the replay that is the Matter the journal gives; later events do
not change the earlier part of the replay. That is `SnapshotIsRevision`.

**Formal run** (`ReviewRunProofs`). For any number of processes: `RunTypeCorrect` goes through
the building blocks (write, discard, append a stage, append an event) and then the commands;
`JournalLegalHolds` strengthens legality with the facts that the events in
progress are stages, and uses that only `EventAppend` extends the journal, under
`MayFollow`; `FinalizingIdentityFixedHolds` adds that in a legal journal nothing
after FINALIZING returns to it, so the last FINALIZING event is the only one. For one process
that may crash and fail anywhere and be called again: `RunInv`. Its shared part is that the
journal only advances (`JournalAdvances`) and what the directory holds at each of its states
(`Stored`, `NoDirectory`). Its part for the command in progress says, for each step, what is
published by then and that it is derived from the output in hand; a file that is open is torn
and is the one of the present step. A crash at any step leaves `Stored`, so the next command
starts from it. `StagesAreGrounded`, `ReadyIsComplete` and `CanonicalImmutable` follow.

**Orchestrated run** (`OrchestrationProofs`). A call is a list of remaining steps, and `RunInv`
says of every list that it *fits*: each step is right when the steps before it have been
done (`StepFits`: the file it writes is absent or as written, the event it appends carries what the
files will say by then). With it stand the form of the journal (`JournalFits`: the ranks of its
states increase from READY_TO_EVALUATE on, every event fits the files), the files (`FilesFit`:
a receipt is of the frozen request and covers its references) and that two processes never
fill one file (`FillsAlone`). Every step of one process keeps the lists of all others, because a
complete file stays as it is and the journal only grows (`Keeps`). `EnginesAreGrounded` is read
off the events. `FailClosed` goes the other way: whatever creates or fills a file or appends
an event was pending before (`PendingBegins`), a step becomes pending only where the checks of
a call let it, and each of the damages makes those checks fail, one lemma per damage.

**Evidence** (`EvidenceProofs`). `AuthorityRefinedHolds` is the refinement of
`EvidenceAuthority`: a step of an importer is an abstract publication or report, or a stutter;
behind it, that what is about to be published has been validated, and that the linker of the
output is one (`OutputHasOwner`, from the create-only link). `PublishedIsWhole` needs
`BuildInv`: the cache holds every page of a revision before a row names it and never loses one,
and what an importer has read of a source is of the bytes it prepared *or the source is still
another one*, in which case the next comparison refuses it (`ReadsAreOwn`). The second replacement
is what can defeat that, hence the bound of two in the property. `MigrationInv` says of a
migration that runs alone what it has made by each step and that it was read from one source,
in the same form. For `NothingLost` the plan is analysed as an algorithm: the pairs of each
table are a function between rows of equal payload under parents that are a pair themselves
(`Twins`, `Matched`), tables share no id, so the union is one function (`Mapped`); the copy of a
*verified* plan keeps every row in its image (`CopyKeepsRows`): that is where chains of
documents, foreign keys and blocked links are excluded. `LineageInv` ties the copy to the
plan's source.

**Pipeline** (`PipelineProofs`). `ReleaseInv`: what a stage contains at each step, that copies
made while nobody changed the workspace are copies of it, and that an attestation is about
artifacts that are published somewhere; so a build can be decided ready only over artifacts
shown before (`ReadyIsEarned`). `WorkInv` and `CaseInv`: a file that is being filled is torn and
filled by one thread, and what a thread is about to show was verified unless a file was replaced
since (`PacketIsCoherent` and `BoundInputsTrace`, together `DrawingIsTraced`). `AnswerInv`
of the final packet: roles and factors can be counted, an answered issue has a claim, and a
packet without reasons passed every gate (`ReadyMeansAllAnswered`).

**Retrieval and answers** (same module). First the lists: `Recursion` gives a recursive
function from its step, by induction over the numbers (`Induction`, from well-foundedness),
and from it follow what `AtPositions`, `Joined`, `First` and `ReachedFrom` are. Then one
invariant per stage. `SearchInv`: a match names an issue, one of its roles and a request of
both that the text is relevant to, however the index answered and whatever stage found it.
`SelectionInv` and `AllTraced`: a candidate cites selected elements of its own clause and
revision, and nothing is selected that no candidate cites and no reference reached; before
its resolution a candidate cites nothing or itself. `ExpansionInv`: what the walk has queued,
read or hit at depth *d* is within *d* current links of a seed of the issue it walks for.
Together they ground every covered role and facet (`CandidateGrounded`,
`ReferenceGrounded`, `CoverageBacked`), which is `ResolvedIsSupported` when the verdict is
made. `SupportInv`, `RequestInv` and `TracksInv` carry it through request, draft and audit: the
lineage a claim may cite for an issue is that issue's own, and only what the audit accepted is
left where the gates let an answer pass (`FinalAnswer`, `AnswersAreGrounded`).

`CapInv` keeps the accounts of the round robin. A place is a rank of a bucket and has one turn
(`TurnOf`, `RoundUnique`); a place whose turn is over has its matches carried or named by a
drop, and its candidate is there *or the cap was reached with nothing but candidates of that
rank or better* (`FullAt`). That alternative is what makes a drop fair when the
same candidate is offered again later, at a worse rank, and its other matches are dropped too.
A turn that drops has every selected candidate behind it, and an earlier turn is not of a
later rank (`RoundOrder`); that all places had their turn when the loop ends is `RoundBound`
(`CapsAreHonest`).

**Decisions** (`HumanDecisionProofs`). `DecisionInv` adds to `TypeOK` and
`AnsweredIntact` that a writer about to fill a file is the one that created it
(`FillsOwnFile`, which exclusive creation gives and which makes a second writer
under the same name fail instead of overwrite), that a server's stamp is not
later than the highest clock seen (`StampedByClock`), and that the clock never
falls behind that by more than the skew (`ClockNearPeak`). The last two make an
acknowledged decision eligible for ever: `AnsweredIsCounted`.

**Workbench and review server** (same module). `MutationInv`: an edit that is in the Matter has
a revision above the base its retry carries, so a second attempt is stale (`AppliedOnce`).
`LifecycleInv`: whoever unlinks by name has read a file whose process is dead or signalled, or its
own, unless `overtaken` records it (`WorkbenchFindable`, which is about the servers to whom
that did not happen and whom nobody signalled). `CommandInv` and `FindInv`: what a
command knows of the server it has read or started, and where the state file is as long as
nobody was signalled or interrupted (`ServingIsFindable`, under `OneCommand`).

**Rules** (`RuleGovernanceProofs`). `GovInv` has three parts besides the types.
`Shape`: what a command holds at each of its steps. `AnnouncerDone`: the command
whose activation is reported has ended, and none begins while a report is there;
so the one process whose rollback would pass the inode comparison is not there to
roll back, which is `AnnouncedManifestStays`. With `DamagedSetBlocked` it makes
`ActiveSetIsWhole`. `AllSafe`, as long as no edit raced:
every report, wherever it is kept (file, approval, manifest, a command's memory),
records what its approved body gives on its fixture, and a load that is not
blocked has found each entry behind it intact. It needs that nothing but an edit
changes a file that is there (`Keeps`), which every create-only command satisfies;
then what a load checked first still holds when it checks the last entry. Roles may
overlap.

**Math Engine** (same module). `MathInv`: a result that nobody falsified is what a registry
makes of a request; of a falsified one that was hashed again no reader can tell, and
`ComparisonIsRight` does not speak of it. `ComparisonIsRight` is then arithmetic (`RoundedSide`): rounding half up
moves a quotient by at most half a step of the precision, and a threshold that is a whole
number of steps is not crossed by it.

**Rule evaluation** (same module). An expression is nested less deep than the one it is in, so
induction over the numbers gives induction over expressions (`Nesting`), and the recursive
function that `EvaluateNode` is defined by exists (`NestedRecursion`: its step looks at the
children only, `LocalStep`). Three lemmas then go through the six kinds of expression.
`OrderDoesNotMatter`: in whatever order the conditions are looked at, two evaluations that both
give a truth value give the same, because a child that decides in one order gives the same value
in the other or fails there; a TypeError counts as a failure. `LookedIsNamed`: what is looked at is named in the expression, so a
reader has accepted it. `LookedDecides`: an evaluation over comparisons that agree on what was
looked at goes the same way, since the child that stops it and those before it do.
The operators enter only as a relation that gives one truth value, none or both
(`AppliedType`). `VerdictIsTraced` is the three of them; of the state it needs only that the expression is one.

**Only model-checked.** Liveness (`FinalizingCompletes`, `RunSettles`, `ImportEnds`), which
the prover does not handle. Theorems without a run of their own
(`RevisionNamesContent`, `FinalizingIdentityFixed`, type correctness, the inductive invariants,
`RebuildChangesNothing`, `FormalizationKeepsStore`) strengthen the ones that have one.

## 5. Plan

In this order; each step brings its runs, mutants and proofs.

1. The crash window of the planned preparation (`planned_review_question.py`).
2. Direct runs, which have no Matter behind them, and the publication of the current
   binding.
3. Repairs of what the violated runs show, as variants of `ReviewRun` to be checked
   against the same properties: `track-b-validation.json` in an ownership group, and a
   lock over the submissions of one run.

## 6. Not modelled

Parsing of PDF output, rendering and case
visuals, parser reproducibility, documentation checks and command-line handling: they
are conversions or comparisons without state of their own. Text search is SQLite's, the
planner and the two tracks are language models, and what these answer is chosen freely.
Windows file locks and reparse points are outside the file model, which is POSIX.
Routing, tokens and the read-only pages of the servers carry no state. Path containment
and JSON decoding of governed documents are left out: a document that fails them is one
that does not verify. The retrieval of a question without a plan and the staged
compatibility commands of a run are left out beside their planned and direct
counterparts. `PROJECT.json` gives the reason for each part that is left out.

## 7. Further hazards

Beside the forty in `PROJECT.json`, met while modelling. The ones with a property are
checked by it; the others are named with what stands in their way.

* `review_matter/events.py:88`: Every command reads the Matter, its rows or its
  binding in statements of their own and appends in a later transaction; only the
  comparison of expected_revision protects what was read, so a revision must never
  name two contents (`InvalidationCoversDependents`, `RebindStalesAllIssues`).
* `review_matter/store.py:139`: An interrupted or failing creator unlinks the name, whoever
  has created or opened the database in the meantime; a process that was using it can
  write no more and raises. `StoreIsWhole` speaks of what is opened, not of how long it
  keeps its name; a command that raises is all the code promises.
* `review_matter/store.py:131`: A creation that is killed leaves a database that no later
  process completes (`StoreIsWhole`). It is refused, never opened; the code has no repair.
* `review_matter/store.py:224`: The rows of a migrated store have no source_revision_id. The
  error that `invalidation.py:165` raises about them is caught at 179, and all issues are
  invalidated instead of the dependents alone. The model of the store begins with rows of the
  present schema.
* `review_run.py:158`: A file is created exclusively and then filled; a crash in
  between leaves a file without its bytes that every later exclusive create refuses
  (`StagesAreGrounded`, `FinalizingCompletes`, `FinalizingRecovers`).
* `review_question.py:363`: _append_event treats a journal that already is in the
  requested state as its own success, so two first submissions of different Track B
  outputs both go on (`StagesAreGrounded`).
* `review_run.py:760`: Recovery of a malformed Track A submission unlinks sidecars
  that a second submission is still writing, after which the journal can reach
  WAITING_TRACK_B without them (`StagesAreGrounded`). Checked for one process. With
  two Track A submissions at once the recovery of the second removes what the first
  has published, and StagesAreGrounded fails without any crash.
* `observability/run_metrics.py:165`: A telemetry event left without its bytes makes
  every later append_stage and record_external_wait raise, so telemetry that carries
  no authority stops the run. Modelled (telemetry = "torn") and excluded by name in
  FinalizingCompletes: no code repairs it.
* `review_question.py:270`: evidence.sqlite is compared with the run before a command
  continues and read again when the page is rendered; it can be replaced in between
  (`ReadyIsComplete`).
* `review_question.py:385`: A crash between the directory and the last initial event
  leaves a run whose journal stops before WAITING_TRACK_A, which _resume_state cannot
  continue. Reached in the recovery run; the commands raise, which is all the code
  promises, so no property demands more.
* `review_matter/formalization.py:341`: A crash while the run directory is filled
  leaves one without all its artifacts, which every later formalization of the same
  snapshot refuses. Reached in the formalization run (status partial): the code only
  promises to refuse it, so no property demands more.
* `review_packet/local_server.py:431`: Request threads are daemons: a server that
  reaches its idle timeout or gets SIGTERM ends them between the creation of a
  decision file and its bytes, or after the bytes and before the answer
  (`AnsweredIntact`, `AnsweredIsCounted`).
* `review_packet/local_server.py:799`: The packet and the evidence are compared with what
  the page showed, then the time is taken and the file created; a replacement of the run
  after the comparison lets a decision about the older packet be recorded. Modelled
  (`PostRecheck`, `PostStamp`, `ChangeAuthority`). The decision names the packet it is about
  and counts as STALE for the new one, so no promise is broken; that the comparison itself
  could be left out is noticed by no property.
* `review_packet/decision_record.py:164`: reviewed_at is taken before the file exists, and
  for an import long before: records become visible in another order than their times, and a
  report as of a past instant can change with a backdated import or a slow write. The writing
  is modelled, the report is not; its docstring promises nothing about decisions that carry
  an earlier time.
* `review_packet/browser_launcher.py:523`: serve-stop verifies the process behind the
  pid and signals the pid in a later step; the process can end and the pid be reused
  in between. A server and its pid are one in the model, so the reuse of a pid between
  the two steps is outside it.
* `rule_engine/activation.py:353`: Between the two links, and for ever after a crash
  there, a manifest without a report is live; whoever loads it must still find
  approved and passing rules (`LoadedRuleProved`).
* `rule_engine/golden.py:625`: The hash of the approved rule is taken from a second
  reading after the cases were evaluated; a rule replaced in between is reported as
  proved by cases another body ran (`LoadedRuleProved`). The property exempts exactly
  this interval (raced): the code has no defence against an edit under a golden run.
* `rule_engine/manifest.py:156`: One of several active entries no longer verifies
  while the others do; answering with the rest would silently drop a rule
  (`ActiveSetIsWhole`).
* `rule_engine/evaluator.py:127`: A literal is decoded with the type of the input it
  is compared with, so "in" with an array literal against a scalar input is
  INVALID_RULE_INPUT for every input: a rule that loads and can never be satisfied.
  Modelled (an expression of the instance has this form); the verdict is ENGINE_ERROR,
  about which VerdictIsTraced says nothing.
* `rule_engine/operators.py:69`: "in" of a value that is no string in a string raises
  TypeError, which evaluate_rule does not catch; the golden run or the review that
  evaluates the rule ends with it. Modelled (`Escaped`, verdict RAISED); the exception
  leaves no state behind, and VerdictIsTraced is about verdicts that are definite.
* `parsing/page_image_cache.py:276`: The source is compared with its hash before and
  after the pages are rendered; a page of another PDF must not stay in the cache of
  this revision (`PublishedIsWhole`).
* `parsing/odl_adapter.py:462`: The adapter reads the artifact once for its payload,
  elements and tables and once more to hash it; the hash it reports can be that of an
  artifact it did not read (`PublishedIsWhole`). One replacement is caught by the
  comparison in the importer; out and back again is not (the exemption swaps < 2).
* `parsing/page_image_cache.py:251`: A page-image directory that is there and
  incomplete, from an earlier crash or another geometry, must be refused and never be
  published as complete (`PublishedIsWhole`).
* `evidence/migrations/v3_to_v4.py:255`: A crash leaves the temporary database behind,
  and every later migration to this output is refused because of it. Modelled; the
  refusal is all the code promises, and ReportMatchesOutput speaks of what is
  published.
* `evidence/lineage_migration.py:243`: The logical lineage digest is written where
  finalized databases keep their snapshot hash, so a migrated database of schema 4
  that is FINALIZED no longer validates as such. A database that is migrated and then
  validated belongs to two modules; the validation of a lineage output is not
  modelled.
* `workflow/orchestrator.py:93`: A journal with any event makes prepare_review_run
  return: a crash between the first events leaves a run in RECEIVED or
  CLASSIFYING_INPUTS that no call continues (`FailClosed`, `RunSettles`).
* `workflow/orchestrator.py:204`: The same on resume, after CLASSIFYING_INPUTS was
  appended and before the lane it leads to (`FailClosed`, `RunSettles`).
* `workflow/orchestrator.py:160`: A crash after evidence.sqlite is imported and before
  its receipt: every later ingestion meets the existing database (`FailClosed`,
  `RunSettles`).
* `workflow/reference_ingestion.py:552`: A crash between the receipt and its digest leaves
  a receipt that cannot be loaded and a database that cannot be imported again
  (`FailClosed`, `RunSettles`).
* `workflow/run_layout.py:81`: A write that fails leaves the file it created, without
  its bytes, under a name that every later write compares or refuses (`FailClosed`).
* `workflow/drawing_confirmation.py:303`: The confirmed inputs are read to be
  validated and read again to be hashed; the event can name inputs nobody validated
  (`EnginesAreGrounded`). The property exempts exactly a file replaced between the two
  readings (swaps).
* `workflow/reference_ingestion.py:641`: evidence.sqlite is hashed after the import
  returned and never compared with the snapshot hash of its report: a file replaced in
  between is the authority of the run (`EnginesAreGrounded`). Exempted by swaps, as
  above.
* `workflow/engine_orchestration.py:306`: The event WAITING_TRACK_A or WAITING_TRACK_B
  is appended before the file that tells what to do next (`RunSettles`).
* `workflow/engine_orchestration.py:390`: A crash between the packet and the event
  after it: finalization is not repeated over an existing packet (`FailClosed`).
* `workflow/engine_orchestration.py:357`: Two processes run the engine stages or hand
  in Track results at the same time, each with its own output (`EnginesAreGrounded`).
* `drawing_review/service.py:153`: A candidate a reviewer draws is persisted before
  its confirmation; when the second write fails a candidate without a decision stays
  (`DrawingIsTraced`).
* `drawing_review/local_server.py:579`: The candidate file is compared with its hash
  and then read again for the packet (`DrawingIsTraced`). The property exempts a
  file replaced between the two (replaced).
* `drawing_review/local_server.py:322`: The indexes of confirmations and calibrations
  are in memory only; after a restart a calibration needs its confirmation sent again
  (`DrawingIsTraced`).
* `parsing/drawing_calibration.py:287`: The calibration id does not hash the candidate
  and the confirmation, so two calibrations of different candidates can share a name
  (`DrawingIsTraced`).
* `parsing/drawing_binding.py:60`: The value of a confirmed input is compared with its
  artifacts when the inputs are bound; between building and binding the files can be
  replaced or the record altered (`DrawingIsTraced`). An input whose geometry alone
  was edited is bound with a value nobody compares; the property names that exemption.
* `retrieval/issue_bundle.py:548`: The limit per issue and role cuts a bucket without
  any record of it. CapsAreHonest speaks of the buckets after this cut; the code
  records nothing that could be compared.
* `retrieval/graph.py:151`: Links of an element beyond the fanout, and elements beyond
  the node limit, are not followed: a missing or stale reference among them is never
  reported. Modelled with the bounds as constants; the code promises nothing about
  references it did not follow.
* `retrieval/graph.py:162`: A target is marked visited by the first link that leads to
  it: a stale link hides a later valid one, and a shared missing target is attributed
  to its first source only, so that the coverage filter can call the other issue
  RESOLVED with a reference missing. What a missing reference does to the other issue
  is a matter of the filter the code chose; ResolvedIsSupported does not count missing
  references.
* `question_planning.py:243`: An element reached by a reference that has no page
  rectangle cannot be cited, and the whole question is refused for it. Modelled: the
  question ends refused, and no property demands more.
* `rule_engine/fact_rule_comparison.py:68`: A selected clause without a usable
  threshold aborts the whole question instead of leaving the comparison of one issue
  open. Modelled: the question ends refused, and no property demands more.
* `retrieval/facets.py:255`: A generated facet search asks for the role "rule" even if
  the issue does not require it; such a request is neither searched nor reported as
  dropped. CapsAreHonest requires a report only for roles the issue requires, as the
  code does.
* `planned_review_question.py:230`: A crash after the run directory is prepared: the
  resumed call skips the initial events and the next action. The commands part of the
  pipeline run has no faults, and run_recovery prepares by prepare-question only.
* `abstention/finalizer.py:474`: LOW_CONFIDENCE is dropped from the reasons when some
  issues are answered (`ReadyMeansAllAnswered`).
* `release/builder.py:239`: The rules are copied three times and validated once more, at
  different times, from a workspace nobody locks, and the copies are never compared. Modelled,
  but `ReadyIsEarned` exempts rules changed during the build (`disturbed`): the code has no
  defence against them, and no policy of the output verifier covers the archive of the
  approved rules.
* `release/builder.py:280`: An attestation must be of the very candidate that is
  published, not of an earlier build in the same place (`ReadyIsEarned`).
* `release/builder.py:172`: A crash while the publish lock is held leaves the lock
  file, and no release can be published under that name any more. Modelled (locked);
  the code has no recovery to check, and the builder answers FileExistsError.
* `workbench/local_server.py:609`: A status that found a stale or half-written state file
  unlinks the name later, by when it can be that of a server just started. Modelled
  (`StatusReads`, `RemoveStale`); `WorkbenchFindable` exempts the servers this happens to
  (`overtaken`), since the code does nothing against it.
* `workbench/local_server.py:632`: stop signals a pid that was verified in an earlier
  step. A server and its pid are one in the model.

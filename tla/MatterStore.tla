---------------------------- MODULE MatterStore ----------------------------
(***************************************************************************)
(* The ReviewMatter work store, src/evidence_review/review_matter.         *)
(*                                                                         *)
(* One Matter of matter.sqlite and the processes (CLI commands, Workbench  *)
(* requests) that read and change it.  Every change is an event appended   *)
(* by append_matter_event in one BEGIN IMMEDIATE transaction, guarded by   *)
(* the revision the caller saw; what an operation reads before that        *)
(* transaction it reads in separate steps, between which other processes   *)
(* run.  Matters share nothing but the write lock, so one is enough.       *)
(***************************************************************************)
EXTENDS Naturals, Sequences, FiniteSets

CONSTANTS
  Clients,      \* processes that hold the store open
  IssueIds,     \* issue_id
  Facets,       \* required_facet_ids
  Titles,       \* title
  SourceKeys,   \* source_key
  Idents,       \* (source_hash, source_revision_id) of one source
  EvidenceIds,  \* evidence_id, which is also the binding_id
  Databases,    \* (snapshot hash, file SHA-256, schema version) of evidence.sqlite
  NoKey,        \* source_key = None: the caller cannot name the source
  NoIdent,      \* no row in matter_source_dependencies
  NoDatabase,   \* no row in matter_evidence_bindings, no finalized database
  NoTitle,
  MaxRevision   \* bound on the length of a history

ASSUME ConstantsAssumption ==
  /\ NoKey \notin SourceKeys
  /\ NoIdent \notin Idents
  /\ NoDatabase \notin Databases
  /\ NoTitle \notin Titles
  /\ MaxRevision \in Nat

VARIABLES
  matter,    \* the row of matters (and its copy in matter_projections)
  baseline,  \* matter_baselines: the document as created
  journal,   \* matter_events in sequence order
  evbind,    \* the row of matter_evidence_bindings
  deps,      \* matter_source_dependencies
  evidence,  \* the database now at evidence/evidence.sqlite
  seen,      \* per client: the Matter its last successful call returned
  op         \* per client: the operation in progress and what it has read

vars == <<matter, baseline, journal, evbind, deps, evidence, seen, op>>

-----------------------------------------------------------------------------
(* The Matter document.  A Matter that does not exist has revision 0.      *)

\* "OPEN" stands for DRAFT, OPEN, IN_PROGRESS, NEEDS_EVIDENCE and BLOCKED,
\* which no code tells apart.
WorkStates == {"OPEN", "READY_TO_FORMALIZE", "STALE"}

Issue == [state: WorkStates \cup {"ABSENT"}, depends_on: SUBSET IssueIds,
          facets: SUBSET Facets]

Selection == [evidence: EvidenceIds, db: Databases]

ReviewMatter == [title: Titles \cup {NoTitle}, revision: Nat,
                 issues: [IssueIds -> Issue], selected: SUBSET Selection]

EvidenceBinding == [db: Databases \cup {NoDatabase}, bound_revision: Nat]

NoIssue == [state |-> "ABSENT", depends_on |-> {}, facets |-> {}]

NoMatter == [title |-> NoTitle, revision |-> 0,
             issues |-> [i \in IssueIds |-> NoIssue], selected |-> {}]

NoBinding == [db |-> NoDatabase, bound_revision |-> 0]

NoDependencies == [i \in IssueIds |-> [k \in SourceKeys |-> NoIdent]]

Known(m) == {i \in IssueIds : m.issues[i].state # "ABSENT"}

-----------------------------------------------------------------------------
(* Events and their projection.                                            *)

Event ==
       [kind: {"ISSUE_ADDED"}, issue: IssueIds, state: WorkStates,
        depends_on: SUBSET IssueIds, facets: SUBSET Facets]
  \cup [kind: {"ISSUE_REQUIRED_FACETS_SET"}, issue: IssueIds,
        facets: SUBSET Facets]
  \cup [kind: {"TITLE_CHANGED"}, title: Titles]
  \cup [kind: {"ISSUE_STATE_CHANGED"}, issue: IssueIds, state: WorkStates]
  \cup [kind: {"SOURCE_DEPENDENCY_REGISTERED"}, issue: IssueIds,
        key: SourceKeys, ident: Idents]
  \cup [kind: {"EVIDENCE_BOUND", "EVIDENCE_REBOUND"}, db: Databases,
        bound_revision: Nat]
  \cup [kind: {"EVIDENCE_SELECTED"}, evidence: EvidenceIds, db: Databases]
  \cup [kind: {"ISSUES_INVALIDATED"}, issues: SUBSET IssueIds,
        key: SourceKeys \cup {NoKey}, ident: Idents]

\* project_event accepts the event: the ValueErrors it and decode_review_matter
\* raise, and for a repeated selection the unchanged revision that
\* append_matter_event refuses.
Projectable(m, e) ==
  CASE e.kind = "ISSUE_ADDED" ->
         e.issue \notin Known(m) /\ e.depends_on \subseteq Known(m) \cup {e.issue}
    [] e.kind = "ISSUE_REQUIRED_FACETS_SET" ->
         /\ e.issue \in Known(m)
         /\ e.facets # {}
         /\ m.issues[e.issue].facets = {}
    [] e.kind \in {"ISSUE_STATE_CHANGED", "SOURCE_DEPENDENCY_REGISTERED"} ->
         e.issue \in Known(m)
    [] e.kind \in {"EVIDENCE_BOUND", "EVIDENCE_REBOUND"} ->
         e.bound_revision = m.revision + 1
    [] e.kind = "EVIDENCE_SELECTED" ->
         \A s \in m.selected : s.evidence # e.evidence
    [] e.kind = "ISSUES_INVALIDATED" ->
         e.issues # {} /\ e.issues \subseteq Known(m)
    [] OTHER -> TRUE

\* The issues of m with those in I marked STALE.
Staled(m, I) ==
  [i \in IssueIds |-> IF i \in I THEN [m.issues[i] EXCEPT !.state = "STALE"]
                                 ELSE m.issues[i]]

ProjectedIssues(m, e) ==
  CASE e.kind = "ISSUE_ADDED" ->
         [m.issues EXCEPT ![e.issue] = [state |-> e.state,
                                        depends_on |-> e.depends_on,
                                        facets |-> e.facets]]
    [] e.kind = "ISSUE_REQUIRED_FACETS_SET" ->
         [m.issues EXCEPT ![e.issue] = [@ EXCEPT !.facets = e.facets]]
    [] e.kind = "ISSUE_STATE_CHANGED" ->
         [m.issues EXCEPT ![e.issue] = [@ EXCEPT !.state = e.state]]
    [] e.kind = "EVIDENCE_REBOUND" -> Staled(m, Known(m))
    [] e.kind = "ISSUES_INVALIDATED" -> Staled(m, e.issues)
    [] OTHER -> m.issues

ProjectEvent(m, e) ==
  [title    |-> IF e.kind = "TITLE_CHANGED" THEN e.title ELSE m.title,
   revision |-> m.revision + 1,
   issues   |-> ProjectedIssues(m, e),
   selected |-> IF e.kind = "EVIDENCE_SELECTED"
                  THEN m.selected \cup {[evidence |-> e.evidence, db |-> e.db]}
                  ELSE m.selected]

\* apply_event_side_effects on matter_evidence_bindings ...
BindingAfter(b, e) ==
  IF e.kind \in {"EVIDENCE_BOUND", "EVIDENCE_REBOUND"}
    THEN [db |-> e.db, bound_revision |-> e.bound_revision]
    ELSE b

\* ... and on matter_source_dependencies: an upsert, and the UPDATE of the rows
\* that invalidated issues hold for the changed source.
DepsAfter(D, e) ==
  CASE e.kind = "SOURCE_DEPENDENCY_REGISTERED" ->
         [D EXCEPT ![e.issue] = [@ EXCEPT ![e.key] = e.ident]]
    [] e.kind = "ISSUES_INVALIDATED" ->
         [i \in IssueIds |-> [k \in SourceKeys |->
            IF i \in e.issues /\ k = e.key /\ D[i][k] # NoIdent
              THEN e.ident ELSE D[i][k]]]
    [] OTHER -> D

-----------------------------------------------------------------------------
(* What a changed source makes stale: _validated_source_dependencies,      *)
(* evaluate_source_change_impact and the closure in                        *)
(* invalidate_source_dependents.                                           *)

\* The rows name known issues and give each source one identity.
Consistent(m, D) ==
  /\ \A i \in IssueIds, k \in SourceKeys : D[i][k] # NoIdent => i \in Known(m)
  /\ \A i, j \in IssueIds, k \in SourceKeys :
        D[i][k] # NoIdent /\ D[j][k] # NoIdent => D[i][k] = D[j][k]

Dependents(D, k) == {i \in IssueIds : D[i][k] # NoIdent}

\* Issues with no registered source at all: their impact is unknown.
Unregistered(m, D) ==
  {i \in Known(m) : \A k \in SourceKeys : D[i][k] = NoIdent}

ClosedDownstream(m, S) ==
  \A i \in Known(m) : m.issues[i].depends_on \cap S # {} => i \in S

\* The least closed set of issues that holds I.
Downstream(m, I) ==
  {i \in Known(m) : \A S \in SUBSET IssueIds :
      I \subseteq S /\ ClosedDownstream(m, S) => i \in S}

\* The source is known exactly; otherwise every issue is affected.
ImpactKnown(m, D, k) ==
  k # NoKey /\ Consistent(m, D) /\ Dependents(D, k) # {}

SourceUnchanged(m, D, k, x) ==
  ImpactKnown(m, D, k) /\ \A i \in Dependents(D, k) : D[i][k] = x

InvalidatedIssues(m, D, k) ==
  IF ImpactKnown(m, D, k)
    THEN Downstream(m, (Dependents(D, k) \cup Unregistered(m, D)) \cap Known(m))
    ELSE Known(m)

-----------------------------------------------------------------------------
(* Operations in progress.                                                 *)

Op ==
       [pc: {"idle"}]
  \cup [pc: {"append"}, event: Event]
  \cup [pc: {"invalidate_loaded"}, loaded: ReviewMatter,
        key: SourceKeys \cup {NoKey}, ident: Idents]
  \cup [pc: {"bind_provenance", "bind_loaded"}, db: Databases]
  \cup [pc: {"select_hit"}, evidence: EvidenceIds, db: Databases]
  \cup [pc: {"select_loaded"}, evidence: EvidenceIds, db: Databases,
        loaded: ReviewMatter]

Idle == [pc |-> "idle"]

TypeOK ==
  /\ matter \in ReviewMatter
  /\ baseline \in ReviewMatter
  /\ journal \in Seq([event: Event, revision: Nat])
  /\ evbind \in EvidenceBinding
  /\ deps \in [IssueIds -> [SourceKeys -> Idents \cup {NoIdent}]]
  /\ evidence \in Databases \cup {NoDatabase}
  /\ seen \in [Clients -> ReviewMatter]
  /\ op \in [Clients -> Op]

Init ==
  /\ matter = NoMatter
  /\ baseline = NoMatter
  /\ journal = <<>>
  /\ evbind = NoBinding
  /\ deps = NoDependencies
  /\ evidence \in Databases \cup {NoDatabase}
  /\ seen = [c \in Clients |-> NoMatter]
  /\ op = [c \in Clients |-> Idle]

\* INSERT INTO matters fails when the row exists.
MatterAbsent == matter.revision = 0

\* MatterStore.create: the three INSERTs, refused when the row exists.  The
\* journal of a new Matter is empty and its baseline is this document.
Create(c, t) ==
  /\ op[c] = Idle
  /\ MatterAbsent
  /\ MaxRevision > 0
  /\ matter' = [NoMatter EXCEPT !.title = t, !.revision = 1]
  /\ baseline' = matter'
  /\ seen' = [seen EXCEPT ![c] = matter']
  /\ UNCHANGED <<journal, evbind, deps, evidence, op>>

\* ReviewMatterService.status
Status(c) ==
  /\ op[c] = Idle
  /\ matter.revision > 0
  /\ seen' = [seen EXCEPT ![c] = matter]
  /\ UNCHANGED <<matter, baseline, journal, evbind, deps, evidence, op>>

\* Client c holds an event for append_matter_event.
Requests(c, e) ==
  /\ op' = [op EXCEPT ![c] = [pc |-> "append", event |-> e]]
  /\ UNCHANGED <<matter, baseline, journal, evbind, deps, evidence, seen>>

\* The operation of client c returns the Matter m without an event.
Returns(c, m) ==
  /\ op' = [op EXCEPT ![c] = Idle]
  /\ seen' = [seen EXCEPT ![c] = m]
  /\ UNCHANGED <<matter, baseline, journal, evbind, deps, evidence>>

Ready(c) == op[c] = Idle /\ matter.revision > 0

\* The expected_revision of the command is still the Matter's revision.
MutNoRevisionCheck(c) == TRUE
ExpectedRevision(c) == matter.revision = seen[c].revision

\* _issue: an issue does not wait for itself.
NotSelfDependent(i, D) == i \notin D

\* ReviewMatterService.add_issue, with the checks it makes on the Matter it
\* loads before the transaction.
AddIssue(c, i, s, D, F) ==
  /\ Ready(c)
  /\ i \notin Known(matter)
  /\ NotSelfDependent(i, D)
  /\ D \subseteq Known(matter) \cup {i}
  /\ Requests(c, [kind |-> "ISSUE_ADDED", issue |-> i, state |-> s,
                  depends_on |-> D, facets |-> F])

SetRequiredFacets(c, i, F) ==
  /\ Ready(c)
  /\ F # {}
  /\ Requests(c, [kind |-> "ISSUE_REQUIRED_FACETS_SET", issue |-> i, facets |-> F])

\* MatterStore.rename
Rename(c, t) == Ready(c) /\ Requests(c, [kind |-> "TITLE_CHANGED", title |-> t])

\* No command appends this event; a caller of append_matter_event may.
ChangeIssueState(c, i, s) ==
  /\ Ready(c)
  /\ Requests(c, [kind |-> "ISSUE_STATE_CHANGED", issue |-> i, state |-> s])

\* register_issue_source_dependency
RegisterDependency(c, i, k, x) ==
  /\ Ready(c)
  /\ i \in Known(matter)
  /\ Requests(c, [kind |-> "SOURCE_DEPENDENCY_REGISTERED", issue |-> i,
                  key |-> k, ident |-> x])

\* invalidate_source_dependents: load and compare the revision ...
InvalidateLoad(c, k, x) ==
  /\ Ready(c)
  /\ ExpectedRevision(c)
  /\ op' = [op EXCEPT ![c] = [pc |-> "invalidate_loaded", loaded |-> matter,
                              key |-> k, ident |-> x]]
  /\ UNCHANGED <<matter, baseline, journal, evbind, deps, evidence, seen>>

\* ... then read the dependency rows and decide.
InvalidateImpact(c) ==
  /\ op[c].pc = "invalidate_loaded"
  /\ LET m == op[c].loaded
         k == op[c].key
         x == op[c].ident
         I == InvalidatedIssues(m, deps, k)
     IN IF SourceUnchanged(m, deps, k, x) \/ I = {}
          THEN Returns(c, m)
          ELSE Requests(c, [kind |-> "ISSUES_INVALIDATED", issues |-> I,
                            key |-> k, ident |-> x])

\* finalized_evidence_provenance: the file exists and is a finalized database.
EvidenceFinalized == evidence # NoDatabase

\* bind_finalized_evidence: the provenance of the file, the revision check,
\* the current binding.
BindProvenance(c) ==
  /\ Ready(c)
  /\ EvidenceFinalized
  /\ op' = [op EXCEPT ![c] = [pc |-> "bind_provenance", db |-> evidence]]
  /\ UNCHANGED <<matter, baseline, journal, evbind, deps, evidence, seen>>

BindLoad(c) ==
  /\ op[c].pc = "bind_provenance"
  /\ ExpectedRevision(c)
  /\ op' = [op EXCEPT ![c] = [pc |-> "bind_loaded", db |-> op[c].db]]
  /\ UNCHANGED <<matter, baseline, journal, evbind, deps, evidence, seen>>

MutAlwaysBound == "EVIDENCE_BOUND"
BindKind == IF evbind.db = NoDatabase THEN "EVIDENCE_BOUND" ELSE "EVIDENCE_REBOUND"

BindExisting(c) ==
  /\ op[c].pc = "bind_loaded"
  /\ IF evbind.db = op[c].db
       THEN Returns(c, matter)
       ELSE Requests(c, [kind |-> BindKind, db |-> op[c].db,
                         bound_revision |-> seen[c].revision + 1])

\* select_evidence: search the file, load the Matter, then promote the hit if
\* the file and the binding still are the ones searched.  The provenance is
\* compared before and after the binding is read, so the two reads are one step.
SelectSearch(c, e) ==
  /\ Ready(c)
  /\ EvidenceFinalized
  /\ op' = [op EXCEPT ![c] = [pc |-> "select_hit", evidence |-> e, db |-> evidence]]
  /\ UNCHANGED <<matter, baseline, journal, evbind, deps, evidence, seen>>

SelectLoad(c) ==
  /\ op[c].pc = "select_hit"
  /\ ExpectedRevision(c)
  /\ op' = [op EXCEPT ![c] = [pc |-> "select_loaded", evidence |-> op[c].evidence,
                              db |-> op[c].db, loaded |-> matter]]
  /\ UNCHANGED <<matter, baseline, journal, evbind, deps, evidence, seen>>

\* Mutation: the hit is compared with the file, not with the binding.
MutHitCurrent(c) == evidence = op[c].db
HitCurrent(c) == evidence = op[c].db /\ evbind.db = op[c].db

SelectPromote(c) ==
  /\ op[c].pc = "select_loaded"
  /\ HitCurrent(c)
  /\ LET hit == [evidence |-> op[c].evidence, db |-> op[c].db]
         m == op[c].loaded
     IN \/ /\ hit \in m.selected
           /\ Returns(c, m)
        \/ /\ \A s \in m.selected : s.evidence # hit.evidence
           /\ Requests(c, [kind |-> "EVIDENCE_SELECTED", evidence |-> hit.evidence,
                           db |-> hit.db])

\* The row of matter_events that records e.
Entry(e) == [event |-> e, revision |-> matter.revision + 1]

LastRevision == IF journal = <<>> THEN 1 ELSE journal[Len(journal)].revision

\* append_matter_event: compare-and-swap on the revision the caller saw, the
\* journal's last revision, the projection, and the three tables in one
\* transaction.
AppendMatterEvent(c) ==
  /\ op[c].pc = "append"
  /\ ExpectedRevision(c)
  /\ LastRevision = matter.revision
  /\ Projectable(matter, op[c].event)
  /\ matter.revision < MaxRevision
  /\ LET e == op[c].event
     IN /\ matter' = ProjectEvent(matter, e)
        /\ journal' = Append(journal, Entry(e))
        /\ evbind' = BindingAfter(evbind, e)
        /\ deps' = DepsAfter(deps, e)
  /\ seen' = [seen EXCEPT ![c] = matter']
  /\ op' = [op EXCEPT ![c] = Idle]
  /\ UNCHANGED <<baseline, evidence>>

\* The operation raises (a revision conflict, a stale hit, a refused event) or
\* its process dies; nothing was written outside the transaction.
Abandon(c) ==
  /\ op[c] # Idle
  /\ op' = [op EXCEPT ![c] = Idle]
  /\ UNCHANGED <<matter, baseline, journal, evbind, deps, evidence, seen>>

\* Another evidence database is published at the workspace's canonical path.
ReplaceEvidence(d) ==
  /\ d # evidence
  /\ evidence' = d
  /\ UNCHANGED <<matter, baseline, journal, evbind, deps, seen, op>>

ClientStep(c) ==
  \/ \E t \in Titles : Create(c, t) \/ Rename(c, t)
  \/ Status(c)
  \/ \E i \in IssueIds, s \in WorkStates :
       \/ ChangeIssueState(c, i, s)
       \/ \E D \in SUBSET IssueIds, F \in SUBSET Facets : AddIssue(c, i, s, D, F)
  \/ \E i \in IssueIds, F \in SUBSET Facets : SetRequiredFacets(c, i, F)
  \/ \E i \in IssueIds, k \in SourceKeys, x \in Idents : RegisterDependency(c, i, k, x)
  \/ \E k \in SourceKeys \cup {NoKey}, x \in Idents : InvalidateLoad(c, k, x)
  \/ InvalidateImpact(c)
  \/ BindProvenance(c) \/ BindLoad(c) \/ BindExisting(c)
  \/ \E e \in EvidenceIds : SelectSearch(c, e)
  \/ SelectLoad(c) \/ SelectPromote(c)
  \/ AppendMatterEvent(c)
  \/ Abandon(c)

Next == (\E c \in Clients : ClientStep(c)) \/ (\E d \in Databases : ReplaceEvidence(d))

Spec == Init /\ [][Next]_vars

-----------------------------------------------------------------------------
(* Properties.                                                             *)

\* A revision names one content: a caller whose revision is still current holds
\* the current document, so the comparison in append_matter_event is enough to
\* protect everything the caller read (expected_revision of every command).
RevisionNamesContent ==
  \A c \in Clients :
    /\ seen[c].revision = matter.revision => seen[c] = matter
    /\ op[c].pc \in {"invalidate_loaded", "select_loaded"}
         => op[c].loaded = seen[c]

\* The journal numbers every revision after the baseline exactly once, as
\* rebuild_projection and append_matter_event require of it.
JournalContiguous ==
  /\ Len(journal) = IF matter.revision = 0 THEN 0 ELSE matter.revision - 1
  /\ \A n \in 1..Len(journal) : journal[n].revision = n + 1

\* The event e, just committed, is what the state before the step asks for.
CommittedInvalidation(e) ==
  /\ e.issues = InvalidatedIssues(matter, deps, e.key)
  /\ \A i \in e.issues : matter'.issues[i].state = "STALE"
  /\ e.key # NoKey =>
       \A i \in IssueIds : deps'[i][e.key] \in {NoIdent, e.ident}

\* An invalidation is decided from rows read outside the transaction, yet what
\* it commits is what the rows and issues current at the commit ask for: every
\* dependent, unregistered and downstream issue turns STALE, and no issue keeps
\* a row for the source under its old identity.
InvalidationCoversDependents ==
  [][LET e == journal'[Len(journal')].event
     IN Len(journal') > Len(journal) /\ e.kind = "ISSUES_INVALIDATED"
          => CommittedInvalidation(e)]_vars

\* Work based on one evidence database never survives a change of the bound
\* database: the step that rebinds leaves every issue STALE, also when another
\* process bound the Matter after this one read that it was unbound.
RebindStalesAllIssues ==
  [][evbind.db # NoDatabase /\ evbind'.db # evbind.db
       => \A i \in Known(matter') : matter'.issues[i].state = "STALE"]_vars

\* Evidence is selected only from the database bound at the commit, although
\* promote_navigation_hit compares the two before its transaction.
SelectionUnderBinding ==
  [][\A s \in matter'.selected \ matter.selected : s.db = evbind.db]_vars

-----------------------------------------------------------------------------
(* The inductive invariant behind these properties.                        *)

\* A process never holds a revision ahead of the store.
SeenNotAhead == \A c \in Clients : seen[c].revision <= matter.revision

AbsentIsEmpty == matter.revision = 0 => matter = NoMatter

RowsNameKnownIssues ==
  \A i \in IssueIds, k \in SourceKeys : deps[i][k] # NoIdent => i \in Known(matter)

\* The event is what the Matter m, its rows D and its binding b ask for.
Justified(m, D, b, e) ==
  /\ e.kind = "ISSUES_INVALIDATED" => e.issues = InvalidatedIssues(m, D, e.key)
  /\ e.kind = "EVIDENCE_BOUND" => b.db = NoDatabase
  /\ e.kind = "EVIDENCE_SELECTED" => e.db = b.db

\* What an operation decided outside the transaction is still right as long as
\* its expected_revision is: the issues to invalidate, that the Matter is
\* unbound, that the hit comes from the bound database.
PendingCurrent ==
  \A c \in Clients :
    op[c].pc = "append" /\ seen[c].revision = matter.revision
      => Justified(matter, deps, evbind, op[c].event)

StoreInv ==
  /\ TypeOK
  /\ AbsentIsEmpty
  /\ JournalContiguous
  /\ SeenNotAhead
  /\ RevisionNamesContent
  /\ RowsNameKnownIssues
  /\ PendingCurrent

=============================================================================

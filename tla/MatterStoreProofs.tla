------------------------- MODULE MatterStoreProofs -------------------------
(***************************************************************************)
(* Proofs about MatterStore, MatterRebuild and StoreOpening, for any       *)
(* number of processes, issues, sources, databases and any length of       *)
(* history.                                                                *)
(***************************************************************************)
EXTENDS MatterRebuild, StoreOpening, WellFoundedInduction, TLAPS

USE ConstantsAssumption

-----------------------------------------------------------------------------
(* Types of the operators.                                                 *)

\* Marking issues STALE gives a map of issues.
LEMMA StaledType ==
  ASSUME NEW m \in ReviewMatter, NEW I \in SUBSET IssueIds
  PROVE  Staled(m, I) \in [IssueIds -> Issue]
BY DEF Staled, ReviewMatter, Issue, WorkStates

\* Projecting any event gives a map of issues ...
LEMMA ProjectedIssuesType ==
  ASSUME NEW m \in ReviewMatter, NEW e \in Event
  PROVE  ProjectedIssues(m, e) \in [IssueIds -> Issue]
<1> Known(m) \in SUBSET IssueIds
  BY DEF Known
<1>1. CASE e.kind = "ISSUE_ADDED"
  BY <1>1 DEF ProjectedIssues, Event, ReviewMatter, Issue
<1>2. CASE e.kind = "ISSUE_REQUIRED_FACETS_SET"
  BY <1>2 DEF ProjectedIssues, Event, ReviewMatter, Issue
<1>3. CASE e.kind = "ISSUE_STATE_CHANGED"
  BY <1>3 DEF ProjectedIssues, Event, ReviewMatter, Issue
<1>4. CASE e.kind = "EVIDENCE_REBOUND"
  BY <1>4, StaledType DEF ProjectedIssues
<1>5. CASE e.kind = "ISSUES_INVALIDATED"
  <2>1. e.issues \in SUBSET IssueIds
    BY <1>5 DEF Event
  <2> QED
    BY <1>5, <2>1, StaledType DEF ProjectedIssues
<1>6. CASE e.kind \notin {"ISSUE_ADDED", "ISSUE_REQUIRED_FACETS_SET",
                          "ISSUE_STATE_CHANGED", "EVIDENCE_REBOUND",
                          "ISSUES_INVALIDATED"}
  BY <1>6 DEF ProjectedIssues, ReviewMatter
<1> QED
  BY <1>1, <1>2, <1>3, <1>4, <1>5, <1>6

\* ... and a Matter.
LEMMA ProjectEventType ==
  ASSUME NEW m \in ReviewMatter, NEW e \in Event
  PROVE  ProjectEvent(m, e) \in ReviewMatter
<1>1. ProjectedIssues(m, e) \in [IssueIds -> Issue]
  BY ProjectedIssuesType
<1>2. (IF e.kind = "TITLE_CHANGED" THEN e.title ELSE m.title) \in Titles \cup {NoTitle}
  BY DEF Event, ReviewMatter
<1>3. (IF e.kind = "EVIDENCE_SELECTED"
         THEN m.selected \cup {[evidence |-> e.evidence, db |-> e.db]}
         ELSE m.selected) \in SUBSET Selection
  BY DEF Event, ReviewMatter, Selection
<1>4. m.revision + 1 \in Nat
  BY DEF ReviewMatter
<1> QED
  BY <1>1, <1>2, <1>3, <1>4 DEF ProjectEvent, ReviewMatter

\* The evidence binding after an event has its type ...
LEMMA BindingAfterType ==
  ASSUME NEW b \in EvidenceBinding, NEW e \in Event
  PROVE  BindingAfter(b, e) \in EvidenceBinding
BY DEF BindingAfter, EvidenceBinding, Event

\* ... and so have the dependency rows (apply_event_side_effects).
LEMMA DepsAfterType ==
  ASSUME NEW D \in [IssueIds -> [SourceKeys -> Idents \cup {NoIdent}]],
         NEW e \in Event
  PROVE  DepsAfter(D, e) \in [IssueIds -> [SourceKeys -> Idents \cup {NoIdent}]]
<1>1. CASE e.kind = "SOURCE_DEPENDENCY_REGISTERED"
  BY <1>1 DEF DepsAfter, Event
<1>2. CASE e.kind = "ISSUES_INVALIDATED"
  BY <1>2 DEF DepsAfter, Event
<1>3. CASE e.kind \notin {"SOURCE_DEPENDENCY_REGISTERED", "ISSUES_INVALIDATED"}
  BY <1>3 DEF DepsAfter
<1> QED
  BY <1>1, <1>2, <1>3

\* What an invalidation names are issues of the Matter.
LEMMA InvalidatedType ==
  ASSUME NEW m, NEW D, NEW k
  PROVE  InvalidatedIssues(m, D, k) \in SUBSET IssueIds
BY DEF InvalidatedIssues, Downstream, Known

-----------------------------------------------------------------------------
(* Type correctness.                                                       *)

\* Handing an event to append_matter_event, returning without one and ending
\* the operation keep the types.
LEMMA RequestsType ==
  ASSUME TypeOK, NEW c \in Clients, NEW e \in Event, Requests(c, e)
  PROVE  TypeOK'
<1>1. [pc |-> "append", event |-> e] \in Op
  BY DEF Op
<1> QED
  BY <1>1 DEF TypeOK, Requests

\* An operation that returns without an event keeps the types.
LEMMA ReturnsType ==
  ASSUME TypeOK, NEW c \in Clients, NEW m \in ReviewMatter, Returns(c, m)
  PROVE  TypeOK'
<1>1. Idle \in Op
  BY DEF Op, Idle
<1> QED
  BY <1>1 DEF TypeOK, Returns

\* Every step of every process keeps the types.
LEMMA TypeStep ==
  ASSUME TypeOK, [Next]_vars
  PROVE  TypeOK'
<1>1. ASSUME NEW c \in Clients, NEW t \in Titles, Create(c, t)
      PROVE  TypeOK'
  <2>1. matter' \in ReviewMatter
    BY <1>1 DEF Create, NoMatter, NoIssue, ReviewMatter, Issue
  <2> QED
    BY <1>1, <2>1 DEF Create, TypeOK
<1>2. ASSUME NEW c \in Clients, NEW t \in Titles, Rename(c, t)
      PROVE  TypeOK'
  <2>1. [kind |-> "TITLE_CHANGED", title |-> t] \in Event
    BY DEF Event
  <2> QED
    BY <1>2, <2>1, RequestsType DEF Rename
<1>3. ASSUME NEW c \in Clients, Status(c)
      PROVE  TypeOK'
  BY <1>3 DEF Status, TypeOK
<1>4. ASSUME NEW c \in Clients, NEW i \in IssueIds, NEW s \in WorkStates,
             ChangeIssueState(c, i, s)
      PROVE  TypeOK'
  <2>1. [kind |-> "ISSUE_STATE_CHANGED", issue |-> i, state |-> s] \in Event
    BY DEF Event
  <2> QED
    BY <1>4, <2>1, RequestsType DEF ChangeIssueState
<1>5. ASSUME NEW c \in Clients, NEW i \in IssueIds, NEW s \in WorkStates,
             NEW D \in SUBSET IssueIds, NEW F \in SUBSET Facets,
             AddIssue(c, i, s, D, F)
      PROVE  TypeOK'
  <2>1. [kind |-> "ISSUE_ADDED", issue |-> i, state |-> s,
         depends_on |-> D, facets |-> F] \in Event
    BY DEF Event
  <2> QED
    BY <1>5, <2>1, RequestsType DEF AddIssue
<1>6. ASSUME NEW c \in Clients, NEW i \in IssueIds, NEW F \in SUBSET Facets,
             SetRequiredFacets(c, i, F)
      PROVE  TypeOK'
  <2>1. [kind |-> "ISSUE_REQUIRED_FACETS_SET", issue |-> i, facets |-> F] \in Event
    BY DEF Event
  <2> QED
    BY <1>6, <2>1, RequestsType DEF SetRequiredFacets
<1>7. ASSUME NEW c \in Clients, NEW i \in IssueIds, NEW k \in SourceKeys,
             NEW x \in Idents, RegisterDependency(c, i, k, x)
      PROVE  TypeOK'
  <2>1. [kind |-> "SOURCE_DEPENDENCY_REGISTERED", issue |-> i,
         key |-> k, ident |-> x] \in Event
    BY DEF Event
  <2> QED
    BY <1>7, <2>1, RequestsType DEF RegisterDependency
<1>8. ASSUME NEW c \in Clients, NEW k \in SourceKeys \cup {NoKey},
             NEW x \in Idents, InvalidateLoad(c, k, x)
      PROVE  TypeOK'
  <2>1. [pc |-> "invalidate_loaded", loaded |-> matter, key |-> k, ident |-> x] \in Op
    BY DEF Op, TypeOK
  <2> QED
    BY <1>8, <2>1 DEF InvalidateLoad, TypeOK
<1>9. ASSUME NEW c \in Clients, InvalidateImpact(c)
      PROVE  TypeOK'
  <2> DEFINE I == InvalidatedIssues(op[c].loaded, deps, op[c].key)
  <2>1. /\ op[c].loaded \in ReviewMatter
        /\ op[c].key \in SourceKeys \cup {NoKey}
        /\ op[c].ident \in Idents
    BY <1>9 DEF InvalidateImpact, TypeOK, Op
  <2>2. CASE Returns(c, op[c].loaded)
    BY <2>1, <2>2, ReturnsType
  <2>3. CASE Requests(c, [kind |-> "ISSUES_INVALIDATED", issues |-> I,
                          key |-> op[c].key, ident |-> op[c].ident])
    <3>1. I \in SUBSET IssueIds
      BY InvalidatedType
    <3> HIDE DEF I
    <3>2. [kind |-> "ISSUES_INVALIDATED", issues |-> I,
           key |-> op[c].key, ident |-> op[c].ident] \in Event
      BY <2>1, <3>1 DEF Event
    <3> QED
      BY <2>3, <3>2, RequestsType
  <2> QED
    BY <1>9, <2>2, <2>3 DEF InvalidateImpact
<1>10. ASSUME NEW c \in Clients, BindProvenance(c)
       PROVE  TypeOK'
  <2>1. [pc |-> "bind_provenance", db |-> evidence] \in Op
    BY <1>10 DEF BindProvenance, EvidenceFinalized, Op, TypeOK
  <2> QED
    BY <1>10, <2>1 DEF BindProvenance, TypeOK
<1>11. ASSUME NEW c \in Clients, BindLoad(c)
       PROVE  TypeOK'
  <2>1. op[c].db \in Databases
    BY <1>11 DEF BindLoad, Op, TypeOK
  <2>2. [pc |-> "bind_loaded", db |-> op[c].db] \in Op
    BY <2>1 DEF Op
  <2> QED
    BY <1>11, <2>2 DEF BindLoad, TypeOK
<1>12. ASSUME NEW c \in Clients, BindExisting(c)
       PROVE  TypeOK'
  <2>1. op[c].db \in Databases
    BY <1>12 DEF BindExisting, Op, TypeOK
  <2>2. seen[c].revision + 1 \in Nat /\ matter \in ReviewMatter
    BY DEF TypeOK, ReviewMatter
  <2>3. [kind |-> BindKind, db |-> op[c].db,
         bound_revision |-> seen[c].revision + 1] \in Event
    BY <2>1, <2>2 DEF Event, BindKind
  <2> QED
    BY <1>12, <2>2, <2>3, RequestsType, ReturnsType DEF BindExisting
<1>13. ASSUME NEW c \in Clients, NEW e \in EvidenceIds, SelectSearch(c, e)
       PROVE  TypeOK'
  <2>1. [pc |-> "select_hit", evidence |-> e, db |-> evidence] \in Op
    BY <1>13 DEF SelectSearch, EvidenceFinalized, Op, TypeOK
  <2> QED
    BY <1>13, <2>1 DEF SelectSearch, TypeOK
<1>14. ASSUME NEW c \in Clients, SelectLoad(c)
       PROVE  TypeOK'
  <2>1. op[c].db \in Databases /\ op[c].evidence \in EvidenceIds
    BY <1>14 DEF SelectLoad, Op, TypeOK
  <2>2. [pc |-> "select_loaded", evidence |-> op[c].evidence,
         db |-> op[c].db, loaded |-> matter] \in Op
    BY <2>1 DEF Op, TypeOK
  <2> QED
    BY <1>14, <2>2 DEF SelectLoad, TypeOK
<1>15. ASSUME NEW c \in Clients, SelectPromote(c)
       PROVE  TypeOK'
  <2>1. /\ op[c].db \in Databases
        /\ op[c].evidence \in EvidenceIds
        /\ op[c].loaded \in ReviewMatter
    BY <1>15 DEF SelectPromote, Op, TypeOK
  <2>2. [kind |-> "EVIDENCE_SELECTED", evidence |-> op[c].evidence,
         db |-> op[c].db] \in Event
    BY <2>1 DEF Event
  <2> QED
    BY <1>15, <2>1, <2>2, RequestsType, ReturnsType DEF SelectPromote
<1>16. ASSUME NEW c \in Clients, AppendMatterEvent(c)
       PROVE  TypeOK'
  <2> DEFINE e == op[c].event
  <2>1. e \in Event
    BY <1>16 DEF AppendMatterEvent, Op, TypeOK
  <2> HIDE DEF e
  <2>2. matter' \in ReviewMatter
    BY <1>16, <2>1, ProjectEventType DEF AppendMatterEvent, TypeOK, e
  <2>3. evbind' \in EvidenceBinding
    BY <1>16, <2>1, BindingAfterType DEF AppendMatterEvent, TypeOK, e
  <2>4. deps' \in [IssueIds -> [SourceKeys -> Idents \cup {NoIdent}]]
    BY <1>16, <2>1, DepsAfterType DEF AppendMatterEvent, TypeOK, e
  <2>5. Entry(e) \in [event: Event, revision: Nat]
    BY <2>1 DEF Entry, TypeOK, ReviewMatter
  <2>6. journal' \in Seq([event: Event, revision: Nat])
    BY <1>16, <2>5 DEF AppendMatterEvent, TypeOK, e
  <2>7. Idle \in Op
    BY DEF Idle, Op
  <2> QED
    BY <1>16, <2>2, <2>3, <2>4, <2>6, <2>7 DEF AppendMatterEvent, TypeOK
<1>17. ASSUME NEW c \in Clients, Abandon(c)
       PROVE  TypeOK'
  <2>1. Idle \in Op
    BY DEF Idle, Op
  <2> QED
    BY <1>17, <2>1 DEF Abandon, TypeOK
<1>18. ASSUME NEW d \in Databases, ReplaceEvidence(d)
       PROVE  TypeOK'
  BY <1>18 DEF ReplaceEvidence, TypeOK
<1>19. CASE UNCHANGED vars
  BY <1>19 DEF vars, TypeOK
<1> QED
  BY <1>1, <1>2, <1>3, <1>4, <1>5, <1>6, <1>7, <1>8, <1>9, <1>10, <1>11, <1>12,
     <1>13, <1>14, <1>15, <1>16, <1>17, <1>18, <1>19 DEF Next, ClientStep

\* The empty store is well-typed.
LEMMA InitType == Init => TypeOK
BY DEF Init, TypeOK, NoMatter, NoIssue, NoBinding, NoDependencies, Idle,
       ReviewMatter, Issue, EvidenceBinding, Op

\* Type correctness of the store, its journal and every operation in progress.
THEOREM TypeCorrect == Spec => []TypeOK
BY InitType, TypeStep, PTL DEF Spec

-----------------------------------------------------------------------------
(* The inductive invariant.                                                *)

\* No event removes an issue.
LEMMA KnownGrows ==
  ASSUME NEW m \in ReviewMatter, NEW e \in Event
  PROVE  Known(m) \subseteq Known(ProjectEvent(m, e))
<1> SUFFICES ASSUME NEW i \in Known(m)
             PROVE  ProjectedIssues(m, e)[i].state # "ABSENT"
  BY DEF Known, ProjectEvent
<1>0. i \in IssueIds /\ m.issues[i].state # "ABSENT" /\ m.issues \in [IssueIds -> Issue]
  BY DEF Known, ReviewMatter
<1>1. CASE e.kind = "ISSUE_ADDED"
  BY <1>0, <1>1 DEF ProjectedIssues, Event, Issue, WorkStates
<1>2. CASE e.kind = "ISSUE_REQUIRED_FACETS_SET"
  BY <1>0, <1>2 DEF ProjectedIssues, Event, Issue
<1>3. CASE e.kind = "ISSUE_STATE_CHANGED"
  BY <1>0, <1>3 DEF ProjectedIssues, Event, Issue, WorkStates
<1>4. CASE e.kind \in {"EVIDENCE_REBOUND", "ISSUES_INVALIDATED"}
  BY <1>0, <1>4 DEF ProjectedIssues, Staled, Issue
<1>5. CASE e.kind \notin {"ISSUE_ADDED", "ISSUE_REQUIRED_FACETS_SET",
                          "ISSUE_STATE_CHANGED", "EVIDENCE_REBOUND",
                          "ISSUES_INVALIDATED"}
  BY <1>0, <1>5 DEF ProjectedIssues
<1> QED
  BY <1>1, <1>2, <1>3, <1>4, <1>5

\* Handing over an event that is right for the current revision keeps the
\* invariant.
LEMMA RequestsInv ==
  ASSUME StoreInv, TypeOK', NEW c \in Clients, NEW e, Requests(c, e),
         seen[c].revision = matter.revision => Justified(matter, deps, evbind, e)
  PROVE  StoreInv'
<1> USE DEF Requests
<1>1. AbsentIsEmpty' /\ JournalContiguous' /\ SeenNotAhead' /\ RowsNameKnownIssues'
  BY DEF StoreInv, AbsentIsEmpty, JournalContiguous, SeenNotAhead, RowsNameKnownIssues, Known
<1>2. op'[c] = [pc |-> "append", event |-> e] /\ \A o \in Clients \ {c} : op'[o] = op[o]
  BY DEF StoreInv, TypeOK
<1>3. RevisionNamesContent'
  BY <1>2 DEF StoreInv, RevisionNamesContent
<1>4. PendingCurrent'
  BY <1>2 DEF StoreInv, PendingCurrent
<1> QED
  BY <1>1, <1>3, <1>4 DEF StoreInv

\* So do returning a Matter that is not ahead and has the content of its
\* revision, and any step that only changes what an operation has read.
LEMMA ReturnsInv ==
  ASSUME StoreInv, TypeOK', NEW c \in Clients, NEW m, Returns(c, m),
         m.revision <= matter.revision, m.revision = matter.revision => m = matter
  PROVE  StoreInv'
<1> USE DEF Returns
<1>1. AbsentIsEmpty' /\ JournalContiguous' /\ RowsNameKnownIssues'
  BY DEF StoreInv, AbsentIsEmpty, JournalContiguous, RowsNameKnownIssues, Known
<1>2. /\ op'[c] = Idle /\ seen'[c] = m
      /\ \A o \in Clients \ {c} : op'[o] = op[o] /\ seen'[o] = seen[o]
  BY DEF StoreInv, TypeOK
<1>3. SeenNotAhead' /\ RevisionNamesContent'
  BY <1>2 DEF StoreInv, SeenNotAhead, RevisionNamesContent, Idle
<1>4. PendingCurrent'
  BY <1>2 DEF StoreInv, PendingCurrent, Idle
<1> QED
  BY <1>1, <1>3, <1>4 DEF StoreInv

\* A step that only records what an operation has read keeps the invariant.
LEMMA ReadsInv ==
  ASSUME StoreInv, TypeOK', NEW c \in Clients, NEW r,
         op' = [op EXCEPT ![c] = r], r.pc # "append",
         r.pc \in {"invalidate_loaded", "select_loaded"} => r.loaded = seen[c],
         UNCHANGED <<matter, baseline, journal, evbind, deps, evidence, seen>>
  PROVE  StoreInv'
<1>1. AbsentIsEmpty' /\ JournalContiguous' /\ SeenNotAhead' /\ RowsNameKnownIssues'
  BY DEF StoreInv, AbsentIsEmpty, JournalContiguous, SeenNotAhead, RowsNameKnownIssues, Known
<1>2. op'[c] = r /\ \A o \in Clients \ {c} : op'[o] = op[o]
  BY DEF StoreInv, TypeOK
<1>3. RevisionNamesContent' /\ PendingCurrent'
  BY <1>2 DEF StoreInv, RevisionNamesContent, PendingCurrent
<1> QED
  BY <1>1, <1>3 DEF StoreInv

\* The transaction of append_matter_event keeps the invariant: it moves the
\* revision past what every other process has seen.
LEMMA AppendInv ==
  ASSUME StoreInv, TypeOK', NEW c \in Clients, AppendMatterEvent(c)
  PROVE  StoreInv'
<1> DEFINE e == op[c].event
<1>1. e \in Event /\ Projectable(matter, e)
  BY DEF AppendMatterEvent, Op, StoreInv, TypeOK
<1>2. /\ matter \in ReviewMatter /\ matter.revision \in Nat
      /\ matter' = ProjectEvent(matter, e) /\ matter'.revision = matter.revision + 1
  BY DEF AppendMatterEvent, ProjectEvent, StoreInv, TypeOK, ReviewMatter
<1>3. /\ op'[c] = Idle /\ seen'[c] = matter'
      /\ \A o \in Clients \ {c} : op'[o] = op[o] /\ seen'[o] = seen[o]
  BY DEF AppendMatterEvent, StoreInv, TypeOK
<1>4. \A o \in Clients \ {c} : seen'[o].revision \in Nat /\ seen'[o].revision < matter'.revision
  BY <1>2, <1>3 DEF StoreInv, SeenNotAhead, TypeOK, ReviewMatter
<1>5. JournalContiguous'
  <2>1. matter.revision > 0
    BY <1>2 DEF AppendMatterEvent, LastRevision, StoreInv, JournalContiguous, TypeOK
  <2>2. journal' = Append(journal, Entry(e)) /\ Entry(e).revision = matter.revision + 1
    BY DEF AppendMatterEvent, Entry
  <2> QED
    BY <1>2, <2>1, <2>2 DEF StoreInv, JournalContiguous, TypeOK
<1>6. AbsentIsEmpty' /\ SeenNotAhead' /\ RevisionNamesContent' /\ PendingCurrent'
  BY <1>2, <1>3, <1>4 DEF AbsentIsEmpty, SeenNotAhead, RevisionNamesContent, PendingCurrent, Idle,
     StoreInv
<1>7. RowsNameKnownIssues'
  <2> SUFFICES ASSUME NEW i \in IssueIds, NEW k \in SourceKeys, deps'[i][k] # NoIdent
               PROVE  i \in Known(matter')
    BY DEF RowsNameKnownIssues
  <2>1. deps' = DepsAfter(deps, e)
    BY DEF AppendMatterEvent
  <2>2. deps \in [IssueIds -> [SourceKeys -> Idents \cup {NoIdent}]]
    BY DEF StoreInv, TypeOK
  <2> HIDE DEF e
  <2>3. i \in Known(matter)
    <3>1. CASE e.kind = "SOURCE_DEPENDENCY_REGISTERED"
      <4>1. e.issue \in Known(matter) /\ e.issue \in IssueIds /\ e.key \in SourceKeys
        BY <1>1, <3>1 DEF Projectable, Event
      <4> QED
        BY <2>1, <2>2, <3>1, <4>1 DEF DepsAfter, StoreInv, RowsNameKnownIssues
    <3>2. CASE e.kind = "ISSUES_INVALIDATED"
      BY <2>1, <2>2, <3>2 DEF DepsAfter, StoreInv, RowsNameKnownIssues
    <3>3. CASE e.kind \notin {"SOURCE_DEPENDENCY_REGISTERED", "ISSUES_INVALIDATED"}
      BY <2>1, <2>2, <3>3 DEF DepsAfter, StoreInv, RowsNameKnownIssues
    <3> QED
      BY <3>1, <3>2, <3>3
  <2> QED
    BY <1>1, <1>2, <2>3, KnownGrows
<1> QED
  BY <1>5, <1>6, <1>7 DEF StoreInv

\* Every step of every process keeps the inductive invariant.
LEMMA StoreStep ==
  ASSUME StoreInv, [Next]_vars
  PROVE  StoreInv'
<1>0. TypeOK'
  BY TypeStep DEF StoreInv
<1>1. ASSUME NEW c \in Clients, NEW t \in Titles, Create(c, t)
      PROVE  StoreInv'
  <2>1. /\ matter'.revision = 1 /\ matter.revision = 0 /\ Known(matter') = {}
        /\ \A o \in Clients : seen[o].revision = 0
    BY <1>1 DEF Create, MatterAbsent, NoMatter, NoIssue, Known, StoreInv, SeenNotAhead,
                TypeOK, ReviewMatter
  <2>2. /\ op'[c] = Idle /\ op' = op /\ seen'[c] = matter'
        /\ \A o \in Clients \ {c} : seen'[o] = seen[o]
    BY <1>1 DEF Create, StoreInv, TypeOK
  <2>3. JournalContiguous'
    BY <1>1, <2>1 DEF Create, StoreInv, JournalContiguous
  <2>4. RowsNameKnownIssues'
    <3>1. Known(matter) = {}
      BY <2>1 DEF StoreInv, AbsentIsEmpty, NoMatter, NoIssue, Known
    <3> QED
      BY <1>1, <3>1 DEF Create, StoreInv, RowsNameKnownIssues
  <2>5. AbsentIsEmpty' /\ SeenNotAhead' /\ PendingCurrent'
    BY <2>1, <2>2 DEF AbsentIsEmpty, SeenNotAhead, PendingCurrent, Idle
  <2>6. RevisionNamesContent'
    BY <1>1, <2>1, <2>2 DEF RevisionNamesContent, StoreInv, Idle
  <2> QED
    BY <1>0, <2>3, <2>4, <2>5, <2>6 DEF StoreInv
<1>2. ASSUME NEW c \in Clients, Status(c)
      PROVE  StoreInv'
  <2>1. Returns(c, matter)
    BY <1>2 DEF Status, Returns, StoreInv, TypeOK
  <2> QED
    BY <1>0, <2>1, ReturnsInv DEF StoreInv, TypeOK, ReviewMatter
<1>3. ASSUME NEW c \in Clients, NEW e, Requests(c, e),
             e.kind \notin {"ISSUES_INVALIDATED", "EVIDENCE_BOUND", "EVIDENCE_SELECTED"}
      PROVE  StoreInv'
  BY <1>0, <1>3, RequestsInv DEF Justified
<1>4. ASSUME NEW c \in Clients, NEW t \in Titles, Rename(c, t)
      PROVE  StoreInv'
  BY <1>3, <1>4 DEF Rename
<1>5. ASSUME NEW c \in Clients, NEW i \in IssueIds, NEW s \in WorkStates,
             ChangeIssueState(c, i, s)
      PROVE  StoreInv'
  BY <1>3, <1>5 DEF ChangeIssueState
<1>6. ASSUME NEW c \in Clients, NEW i \in IssueIds, NEW s \in WorkStates,
             NEW D \in SUBSET IssueIds, NEW F \in SUBSET Facets,
             AddIssue(c, i, s, D, F)
      PROVE  StoreInv'
  BY <1>3, <1>6 DEF AddIssue
<1>7. ASSUME NEW c \in Clients, NEW i \in IssueIds, NEW F \in SUBSET Facets,
             SetRequiredFacets(c, i, F)
      PROVE  StoreInv'
  BY <1>3, <1>7 DEF SetRequiredFacets
<1>8. ASSUME NEW c \in Clients, NEW i \in IssueIds, NEW k \in SourceKeys,
             NEW x \in Idents, RegisterDependency(c, i, k, x)
      PROVE  StoreInv'
  BY <1>3, <1>8 DEF RegisterDependency
<1>9. ASSUME NEW c \in Clients, NEW k \in SourceKeys \cup {NoKey},
             NEW x \in Idents, InvalidateLoad(c, k, x)
      PROVE  StoreInv'
  <2>1. matter = seen[c]
    BY <1>9 DEF InvalidateLoad, ExpectedRevision, StoreInv, RevisionNamesContent
  <2> DEFINE r == [pc |-> "invalidate_loaded", loaded |-> matter, key |-> k, ident |-> x]
  <2>2. /\ op' = [op EXCEPT ![c] = r] /\ r.pc # "append"
        /\ r.pc \in {"invalidate_loaded", "select_loaded"} => r.loaded = seen[c]
        /\ UNCHANGED <<matter, baseline, journal, evbind, deps, evidence, seen>>
    BY <1>9, <2>1 DEF InvalidateLoad
  <2> HIDE DEF r
  <2> QED
    BY <1>0, <2>2, ReadsInv
<1>10. ASSUME NEW c \in Clients, InvalidateImpact(c)
       PROVE  StoreInv'
  <2> DEFINE m == op[c].loaded
             e == [kind |-> "ISSUES_INVALIDATED",
                   issues |-> InvalidatedIssues(m, deps, op[c].key),
                   key |-> op[c].key, ident |-> op[c].ident]
  <2>1. m = seen[c]
    BY <1>10 DEF InvalidateImpact, StoreInv, RevisionNamesContent
  <2>2. m.revision <= matter.revision /\ (m.revision = matter.revision => m = matter)
    BY <2>1 DEF StoreInv, SeenNotAhead, RevisionNamesContent
  <2>3. CASE Returns(c, m)
    BY <1>0, <2>2, <2>3, ReturnsInv
  <2>4. CASE Requests(c, e)
    <3>1. seen[c].revision = matter.revision => Justified(matter, deps, evbind, e)
      BY <2>1, <2>2 DEF Justified
    <3> QED
      BY <1>0, <2>4, <3>1, RequestsInv
  <2> QED
    BY <1>10, <2>3, <2>4 DEF InvalidateImpact
<1>11. ASSUME NEW c \in Clients, BindProvenance(c)
       PROVE  StoreInv'
  <2> DEFINE r == [pc |-> "bind_provenance", db |-> evidence]
  <2>2. /\ op' = [op EXCEPT ![c] = r] /\ r.pc # "append"
        /\ r.pc \in {"invalidate_loaded", "select_loaded"} => r.loaded = seen[c]
        /\ UNCHANGED <<matter, baseline, journal, evbind, deps, evidence, seen>>
    BY <1>11 DEF BindProvenance
  <2> HIDE DEF r
  <2> QED
    BY <1>0, <2>2, ReadsInv
<1>12. ASSUME NEW c \in Clients, BindLoad(c)
       PROVE  StoreInv'
  <2> DEFINE r == [pc |-> "bind_loaded", db |-> op[c].db]
  <2>2. /\ op' = [op EXCEPT ![c] = r] /\ r.pc # "append"
        /\ r.pc \in {"invalidate_loaded", "select_loaded"} => r.loaded = seen[c]
        /\ UNCHANGED <<matter, baseline, journal, evbind, deps, evidence, seen>>
    BY <1>12 DEF BindLoad
  <2> HIDE DEF r
  <2> QED
    BY <1>0, <2>2, ReadsInv
<1>13. ASSUME NEW c \in Clients, BindExisting(c)
       PROVE  StoreInv'
  <2> DEFINE e == [kind |-> BindKind, db |-> op[c].db,
                   bound_revision |-> seen[c].revision + 1]
  <2>1. CASE Returns(c, matter)
    BY <1>0, <2>1, ReturnsInv DEF StoreInv, TypeOK, ReviewMatter
  <2>2. CASE Requests(c, e)
    <3>1. Justified(matter, deps, evbind, e)
      BY DEF Justified, BindKind
    <3> QED
      BY <1>0, <2>2, <3>1, RequestsInv
  <2> QED
    BY <1>13, <2>1, <2>2 DEF BindExisting
<1>14. ASSUME NEW c \in Clients, NEW h \in EvidenceIds, SelectSearch(c, h)
       PROVE  StoreInv'
  <2> DEFINE r == [pc |-> "select_hit", evidence |-> h, db |-> evidence]
  <2>2. /\ op' = [op EXCEPT ![c] = r] /\ r.pc # "append"
        /\ r.pc \in {"invalidate_loaded", "select_loaded"} => r.loaded = seen[c]
        /\ UNCHANGED <<matter, baseline, journal, evbind, deps, evidence, seen>>
    BY <1>14 DEF SelectSearch
  <2> HIDE DEF r
  <2> QED
    BY <1>0, <2>2, ReadsInv
<1>15. ASSUME NEW c \in Clients, SelectLoad(c)
       PROVE  StoreInv'
  <2>1. matter = seen[c]
    BY <1>15 DEF SelectLoad, ExpectedRevision, StoreInv, RevisionNamesContent
  <2> DEFINE r == [pc |-> "select_loaded", evidence |-> op[c].evidence,
                   db |-> op[c].db, loaded |-> matter]
  <2>2. /\ op' = [op EXCEPT ![c] = r] /\ r.pc # "append"
        /\ r.pc \in {"invalidate_loaded", "select_loaded"} => r.loaded = seen[c]
        /\ UNCHANGED <<matter, baseline, journal, evbind, deps, evidence, seen>>
    BY <1>15, <2>1 DEF SelectLoad
  <2> HIDE DEF r
  <2> QED
    BY <1>0, <2>2, ReadsInv
<1>16. ASSUME NEW c \in Clients, SelectPromote(c)
       PROVE  StoreInv'
  <2> DEFINE m == op[c].loaded
             e == [kind |-> "EVIDENCE_SELECTED", evidence |-> op[c].evidence,
                   db |-> op[c].db]
  <2>1. m = seen[c]
    BY <1>16 DEF SelectPromote, StoreInv, RevisionNamesContent
  <2>2. CASE Returns(c, m)
    <3>1. m.revision <= matter.revision /\ (m.revision = matter.revision => m = matter)
      BY <2>1 DEF StoreInv, SeenNotAhead, RevisionNamesContent
    <3> QED
      BY <1>0, <2>2, <3>1, ReturnsInv
  <2>3. CASE Requests(c, e)
    <3>1. Justified(matter, deps, evbind, e)
      BY <1>16 DEF SelectPromote, HitCurrent, Justified
    <3> QED
      BY <1>0, <2>3, <3>1, RequestsInv
  <2> QED
    BY <1>16, <2>2, <2>3 DEF SelectPromote
<1>17. ASSUME NEW c \in Clients, AppendMatterEvent(c)
       PROVE  StoreInv'
  BY <1>0, <1>17, AppendInv
<1>18. ASSUME NEW c \in Clients, Abandon(c)
       PROVE  StoreInv'
  <2> DEFINE r == Idle
  <2>2. /\ op' = [op EXCEPT ![c] = r] /\ r.pc # "append"
        /\ r.pc \in {"invalidate_loaded", "select_loaded"} => r.loaded = seen[c]
        /\ UNCHANGED <<matter, baseline, journal, evbind, deps, evidence, seen>>
    BY <1>18 DEF Abandon, Idle
  <2> HIDE DEF r
  <2> QED
    BY <1>0, <2>2, ReadsInv
<1>19. CASE UNCHANGED vars \/ \E d \in Databases : ReplaceEvidence(d)
  <2>1. UNCHANGED <<matter, baseline, journal, evbind, deps, seen, op>>
    BY <1>19 DEF vars, ReplaceEvidence
  <2> QED
    BY <1>0, <2>1 DEF StoreInv, AbsentIsEmpty, JournalContiguous, SeenNotAhead,
       RevisionNamesContent, RowsNameKnownIssues, PendingCurrent, Known
<1> QED
  BY <1>1, <1>2, <1>4, <1>5, <1>6, <1>7, <1>8, <1>9, <1>10, <1>11, <1>12, <1>13,
     <1>14, <1>15, <1>16, <1>17, <1>18, <1>19 DEF Next, ClientStep

\* The empty store satisfies the inductive invariant.
LEMMA StoreInit ==
  ASSUME Init
  PROVE  StoreInv
<1>1. TypeOK
  BY InitType
<1>2. matter.revision = 0 /\ \A c \in Clients : seen[c] = matter /\ op[c] = Idle
  BY DEF Init, NoMatter
<1>3. AbsentIsEmpty /\ JournalContiguous /\ SeenNotAhead
  BY <1>1, <1>2 DEF Init, AbsentIsEmpty, JournalContiguous, SeenNotAhead
<1>4. RevisionNamesContent /\ PendingCurrent
  BY <1>2 DEF RevisionNamesContent, PendingCurrent, Idle
<1>5. RowsNameKnownIssues
  BY DEF Init, RowsNameKnownIssues, NoDependencies
<1> QED
  BY <1>1, <1>3, <1>4, <1>5 DEF StoreInv

\* The inductive invariant holds for every store and every set of processes.
THEOREM StoreInvariant == Spec => []StoreInv
BY StoreInit, StoreStep, PTL DEF Spec

\* The invariants the runs check, for every value of the constants.
COROLLARY RevisionNamesContentHolds == Spec => []RevisionNamesContent
BY StoreInvariant, PTL DEF StoreInv

\* The journal numbers every revision once (append_matter_event).
COROLLARY JournalContiguousHolds == Spec => []JournalContiguous
BY StoreInvariant, PTL DEF StoreInv

-----------------------------------------------------------------------------
(* Action properties.                                                      *)

\* Only create and append_matter_event write the store.
LEMMA QuietStep ==
  ASSUME [Next]_vars,
         ~ \E c \in Clients, t \in Titles : Create(c, t),
         ~ \E c \in Clients : AppendMatterEvent(c)
  PROVE  UNCHANGED <<matter, journal, evbind, deps>>
<1> USE DEF Requests, Returns
<1>1. CASE UNCHANGED vars
  BY <1>1 DEF vars
<1>2. CASE \E d \in Databases : ReplaceEvidence(d)
  BY <1>2 DEF ReplaceEvidence
<1>3. ASSUME NEW c \in Clients, ClientStep(c)
      PROVE  UNCHANGED <<matter, journal, evbind, deps>>
  BY <1>3 DEF ClientStep, Rename, Status, ChangeIssueState, AddIssue, SetRequiredFacets,
     RegisterDependency, InvalidateLoad, InvalidateImpact, BindProvenance, BindLoad,
     BindExisting, SelectSearch, SelectLoad, SelectPromote, Abandon
<1> QED
  BY <1>1, <1>2, <1>3 DEF Next

\* At its commit an event is what the store asks for.
LEMMA AppendJustified ==
  ASSUME StoreInv, NEW c \in Clients, AppendMatterEvent(c)
  PROVE  /\ op[c].event \in Event
         /\ Justified(matter, deps, evbind, op[c].event)
         /\ matter' = ProjectEvent(matter, op[c].event)
         /\ evbind' = BindingAfter(evbind, op[c].event)
         /\ deps' = DepsAfter(deps, op[c].event)
         /\ journal' = Append(journal, Entry(op[c].event))
<1>1. op[c].event \in Event
  BY DEF AppendMatterEvent, StoreInv, TypeOK, Op
<1>2. Justified(matter, deps, evbind, op[c].event)
  BY DEF AppendMatterEvent, ExpectedRevision, StoreInv, PendingCurrent
<1> QED
  BY <1>1, <1>2 DEF AppendMatterEvent

\* Evidence is selected only from the database bound at the commit
\* (promote_navigation_hit), whatever other processes do in between.
THEOREM SelectionUnderBindingHolds == Spec => SelectionUnderBinding
<1>1. ASSUME StoreInv, [Next]_vars
      PROVE  [\A s \in matter'.selected \ matter.selected : s.db = evbind.db]_vars
  <2>1. CASE \E c \in Clients, t \in Titles : Create(c, t)
    BY <2>1 DEF Create, NoMatter
  <2>2. ASSUME NEW c \in Clients, AppendMatterEvent(c)
        PROVE  \A s \in matter'.selected \ matter.selected : s.db = evbind.db
    <3> DEFINE e == op[c].event
    <3>1. matter' = ProjectEvent(matter, e) /\ Justified(matter, deps, evbind, e)
      BY <1>1, <2>2, AppendJustified
    <3> HIDE DEF e
    <3>2. matter'.selected = IF e.kind = "EVIDENCE_SELECTED"
                              THEN matter.selected \cup {[evidence |-> e.evidence, db |-> e.db]}
                              ELSE matter.selected
      BY <3>1 DEF ProjectEvent
    <3>3. e.kind = "EVIDENCE_SELECTED" => e.db = evbind.db
      BY <3>1 DEF Justified
    <3> QED
      BY <3>2, <3>3
  <2> QED
    BY <1>1, <2>1, <2>2, QuietStep
<1> QED
  BY <1>1, StoreInvariant, PTL DEF Spec, SelectionUnderBinding

\* A change of the bound database leaves every issue STALE
\* (bind_finalized_evidence and the projection of EVIDENCE_REBOUND).
THEOREM RebindStalesAllIssuesHolds == Spec => RebindStalesAllIssues
<1> DEFINE P == evbind.db # NoDatabase /\ evbind'.db # evbind.db
                  => \A i \in Known(matter') : matter'.issues[i].state = "STALE"
<1>1. ASSUME StoreInv, [Next]_vars
      PROVE  [P]_vars
  <2>1. CASE \E c \in Clients, t \in Titles : Create(c, t)
    BY <2>1 DEF Create
  <2>2. ASSUME NEW c \in Clients, AppendMatterEvent(c)
        PROVE  P
    <3> DEFINE e == op[c].event
    <3>1. /\ e \in Event /\ matter \in ReviewMatter
          /\ matter'.issues = ProjectedIssues(matter, e)
          /\ evbind' = BindingAfter(evbind, e)
          /\ e.kind = "EVIDENCE_BOUND" => evbind.db = NoDatabase
      BY <1>1, <2>2, AppendJustified DEF ProjectEvent, Justified, StoreInv, TypeOK
    <3> HIDE DEF e
    <3> SUFFICES ASSUME evbind.db # NoDatabase, evbind'.db # evbind.db,
                        NEW i \in Known(matter')
                 PROVE  matter'.issues[i].state = "STALE"
      OBVIOUS
    <3>2. e.kind = "EVIDENCE_REBOUND"
      BY <3>1 DEF BindingAfter
    <3>3. matter'.issues = Staled(matter, Known(matter))
      BY <3>1, <3>2 DEF ProjectedIssues
    <3>4. i \in IssueIds /\ matter'.issues[i].state # "ABSENT"
      BY DEF Known
    <3>5. i \in Known(matter)
      BY <3>1, <3>3, <3>4 DEF Staled, Known
    <3> QED
      BY <3>1, <3>3, <3>4, <3>5 DEF Staled, ReviewMatter, Issue
  <2> QED
    BY <1>1, <2>1, <2>2, QuietStep
<1> QED
  BY <1>1, StoreInvariant, PTL DEF Spec, RebindStalesAllIssues

\* An invalidation commits exactly what the store asks for at the commit
\* (invalidate_source_dependents): every dependent, unregistered and downstream
\* issue turns STALE and every row of the source gets its new identity.
THEOREM InvalidationCoversDependentsHolds == Spec => InvalidationCoversDependents
<1> DEFINE last == journal'[Len(journal')].event
           P == Len(journal') > Len(journal) /\ last.kind = "ISSUES_INVALIDATED"
                  => CommittedInvalidation(last)
<1>1. ASSUME StoreInv, [Next]_vars
      PROVE  [P]_vars
  <2>0. Len(journal) \in Nat
    BY <1>1 DEF StoreInv, TypeOK
  <2>1. CASE \E c \in Clients, t \in Titles : Create(c, t)
    BY <2>0, <2>1 DEF Create
  <2>2. ASSUME NEW c \in Clients, AppendMatterEvent(c)
        PROVE  P
    <3> DEFINE e == op[c].event
    <3>1. /\ e \in Event /\ Justified(matter, deps, evbind, e)
          /\ matter \in ReviewMatter
          /\ matter'.issues = ProjectedIssues(matter, e)
          /\ deps \in [IssueIds -> [SourceKeys -> Idents \cup {NoIdent}]]
          /\ deps' = DepsAfter(deps, e)
      BY <1>1, <2>2, AppendJustified DEF ProjectEvent, StoreInv, TypeOK
    <3>2. last = e
      <4>1. journal' = Append(journal, Entry(e)) /\ Entry(e).event = e
        BY <1>1, <2>2, AppendJustified DEF Entry
      <4>2. journal \in Seq([event: Event, revision: Nat])
        BY <1>1 DEF StoreInv, TypeOK
      <4>3. Len(journal') = Len(journal) + 1 /\ journal'[Len(journal) + 1] = Entry(e)
        BY <2>0, <4>1, <4>2
      <4> QED
        BY <4>1, <4>3
    <3> HIDE DEF e
    <3> SUFFICES ASSUME e.kind = "ISSUES_INVALIDATED"
                 PROVE  CommittedInvalidation(e)
      BY <3>2
    <3>3. e.issues = InvalidatedIssues(matter, deps, e.key) /\ e.issues \in SUBSET IssueIds
      BY <3>1 DEF Justified, Event
    <3>4. \A i \in e.issues : matter'.issues[i].state = "STALE"
      BY <3>1, <3>3 DEF ProjectedIssues, Staled, ReviewMatter, Issue
    <3>5. ASSUME e.key # NoKey, NEW i \in IssueIds
          PROVE  deps'[i][e.key] \in {NoIdent, e.ident}
      <4>1. e.key \in SourceKeys
        BY <3>1, <3>5 DEF Event
      <4>2. deps[i][e.key] # NoIdent => i \in e.issues
        <5> SUFFICES ASSUME deps[i][e.key] # NoIdent PROVE i \in e.issues
          OBVIOUS
        <5>1. i \in Known(matter)
          BY <1>1, <4>1 DEF StoreInv, RowsNameKnownIssues
        <5>2. i \in Dependents(deps, e.key)
          BY DEF Dependents
        <5>3. CASE ImpactKnown(matter, deps, e.key)
          BY <3>3, <5>1, <5>2, <5>3 DEF InvalidatedIssues, Downstream
        <5>4. CASE ~ ImpactKnown(matter, deps, e.key)
          BY <3>3, <5>1, <5>4 DEF InvalidatedIssues
        <5> QED
          BY <5>3, <5>4
      <4>3. deps'[i][e.key] = IF i \in e.issues /\ deps[i][e.key] # NoIdent
                               THEN e.ident ELSE deps[i][e.key]
        BY <3>1, <4>1 DEF DepsAfter
      <4> QED
        BY <4>2, <4>3
    <3> QED
      BY <3>3, <3>4, <3>5 DEF CommittedInvalidation
  <2> QED
    BY <1>1, <2>0, <2>1, <2>2, QuietStep
<1> QED
  BY <1>1, StoreInvariant, PTL DEF Spec, InvalidationCoversDependents

-----------------------------------------------------------------------------
(* Induction on the length of a journal.                                   *)

\* A set of numbers that holds 0 and the successor of each of its members holds
\* every number.
LEMMA Induction ==
  ASSUME NEW T \in SUBSET Nat, 0 \in T, \A n \in T : n + 1 \in T
  PROVE  Nat \subseteq T
<1> SUFFICES ASSUME Nat \ T # {} PROVE FALSE
  OBVIOUS
<1> DEFINE U == Nat \ T
<1>1. U \in SUBSET Nat /\ U # {}
  OBVIOUS
<1>2. PICK n \in U : \A x \in U : ~ (<<x, n>> \in OpToRel(<, Nat))
  <2> HIDE DEF U
  <2> QED
    BY <1>1, NatLessThanWellFounded, WFMin
<1>3. \A x \in U : ~ (x < n)
  BY <1>2 DEF OpToRel
<1>4. n \in Nat /\ n # 0 /\ n - 1 \in Nat /\ n - 1 < n /\ (n - 1) + 1 = n
  OBVIOUS
<1>5. n - 1 \in T
  BY <1>3, <1>4
<1> QED
  BY <1>4, <1>5

\* The first state of a replay and the equation its states satisfy.
ReplayStart(b) == [matter |-> b, evbind |-> NoBinding, deps |-> NoDependencies,
                   accepted |-> b # NoMatter]

IsReplay(f, b, j, k) ==
  f = [n \in 0..k |-> IF n = 0 THEN ReplayStart(b) ELSE ReplayStep(f[n - 1], j[n])]

\* The replay of every prefix exists.
LEMMA ReplayExists ==
  ASSUME NEW b, NEW j, NEW k \in Nat
  PROVE  \E f : IsReplay(f, b, j, k)
<1> DEFINE T == {m \in Nat : \E f : IsReplay(f, b, j, m)}
<1>1. 0 \in T
  <2> DEFINE f == [n \in 0..0 |-> ReplayStart(b)]
  <2>1. \A n \in 0..0 : n = 0
    OBVIOUS
  <2>2. f = [n \in 0..0 |-> IF n = 0 THEN ReplayStart(b) ELSE ReplayStep(f[n - 1], j[n])]
    <3> HIDE DEF f
    <3>1. f = [n \in 0..0 |-> ReplayStart(b)]
      BY DEF f
    <3> QED
      BY <2>1, <3>1
  <2> HIDE DEF f
  <2>3. IsReplay(f, b, j, 0)
    BY <2>2 DEF IsReplay
  <2> QED
    BY <2>3
<1>2. ASSUME NEW m \in T
      PROVE  m + 1 \in T
  <2>0. m \in Nat /\ m + 1 \in Nat /\ (m + 1) - 1 = m /\ m + 1 # 0
    OBVIOUS
  <2>1. PICK f : IsReplay(f, b, j, m)
    OBVIOUS
  <2> DEFINE g == [n \in 0..(m + 1) |->
                     IF n = m + 1 THEN ReplayStep(f[m], j[m + 1]) ELSE f[n]]
  <2>2. \A n \in 0..m : n \in 0..(m + 1) /\ n # m + 1 /\ g[n] = f[n]
    BY <2>0
  <2>3. g[m + 1] = ReplayStep(f[m], j[m + 1]) /\ g[m] = f[m]
    BY <2>0
  <2>4. \A n \in 0..(m + 1) : n = m + 1 \/ n \in 0..m
    BY <2>0
  <2>5. g = [n \in 0..(m + 1) |-> g[n]]
    OBVIOUS
  <2> HIDE DEF g
  <2>6. ASSUME NEW n \in 0..(m + 1)
        PROVE  g[n] = IF n = 0 THEN ReplayStart(b) ELSE ReplayStep(g[n - 1], j[n])
    <3>1. CASE n = m + 1
      BY <2>0, <2>3, <3>1
    <3>2. CASE n \in 0..m
      <4>1. f[n] = IF n = 0 THEN ReplayStart(b) ELSE ReplayStep(f[n - 1], j[n])
        BY <2>1, <3>2 DEF IsReplay
      <4>2. n # 0 => n - 1 \in 0..m
        BY <2>0, <3>2
      <4> QED
        BY <2>2, <3>2, <4>1, <4>2
    <3> QED
      BY <2>4, <3>1, <3>2
  <2>7. IsReplay(g, b, j, m + 1)
    BY <2>5, <2>6 DEF IsReplay
  <2> QED
    BY <2>0, <2>7
<1> HIDE DEF T
<1>3. T \in SUBSET Nat
  BY DEF T
<1>4. k \in T
  BY <1>1, <1>2, <1>3, Induction
<1> QED
  BY <1>4 DEF T

\* What rebuild_projection computes is that replay.
LEMMA ReplayIsReplay ==
  ASSUME NEW b, NEW j, Len(j) \in Nat
  PROVE  IsReplay(ReplayedFrom(b, j), b, j, Len(j))
<1>1. ReplayedFrom(b, j) = CHOOSE f : IsReplay(f, b, j, Len(j))
  BY DEF ReplayedFrom, IsReplay, ReplayStart
<1>2. \E f : IsReplay(f, b, j, Len(j))
  BY ReplayExists
<1> QED
  BY <1>1, <1>2

\* An appended event changes nothing of what the events before it give, and is
\* replayed last.
LEMMA ReplayAppended ==
  ASSUME NEW b, NEW S, NEW j \in Seq(S), NEW e \in S
  PROVE  /\ \A n \in 0..Len(j) :
              ReplayedFrom(b, Append(j, e))[n] = ReplayedFrom(b, j)[n]
         /\ Len(Append(j, e)) = Len(j) + 1
         /\ ReplayedFrom(b, Append(j, e))[Len(j) + 1] =
              ReplayStep(ReplayedFrom(b, j)[Len(j)], e)
<1> DEFINE i == Append(j, e)
           f == ReplayedFrom(b, j)
           g == ReplayedFrom(b, i)
           l == Len(j)
<1>1. l \in Nat /\ Len(i) = l + 1 /\ i[l + 1] = e /\ \A n \in 1..l : i[n] = j[n]
  OBVIOUS
<1>2. IsReplay(f, b, j, l) /\ IsReplay(g, b, i, Len(i))
  <2> HIDE DEF i
  <2> QED
    BY <1>1, ReplayIsReplay
<1> HIDE DEF i, f, g, l
<1>3. \A n \in 0..l : f[n] = IF n = 0 THEN ReplayStart(b) ELSE ReplayStep(f[n - 1], j[n])
  BY <1>2 DEF IsReplay
<1>4. \A n \in 0..(l + 1) : g[n] = IF n = 0 THEN ReplayStart(b) ELSE ReplayStep(g[n - 1], i[n])
  BY <1>1, <1>2 DEF IsReplay
<1> DEFINE T == {n \in Nat : n <= l => g[n] = f[n]}
<1>5. 0 \in T
  BY <1>1, <1>3, <1>4
<1>6. ASSUME NEW n \in T
      PROVE  n + 1 \in T
  <2> SUFFICES ASSUME n + 1 <= l PROVE g[n + 1] = f[n + 1]
    OBVIOUS
  <2>1. n \in Nat /\ n <= l /\ n + 1 \in 0..l /\ n + 1 \in 1..l /\ n + 1 \in 0..(l + 1)
        /\ (n + 1) - 1 = n /\ n + 1 # 0
    BY <1>1
  <2>2. g[n] = f[n] /\ i[n + 1] = j[n + 1]
    BY <1>1, <2>1
  <2>3. f[n + 1] = ReplayStep(f[n], j[n + 1])
    BY <1>3, <2>1
  <2>4. g[n + 1] = ReplayStep(g[n], i[n + 1])
    BY <1>4, <2>1
  <2> QED
    BY <2>2, <2>3, <2>4
<1> HIDE DEF T
<1>7. T \in SUBSET Nat
  BY DEF T
<1>8. \A n \in Nat : n \in T
  BY <1>5, <1>6, <1>7, Induction
<1>9. \A n \in 0..l : g[n] = f[n]
  BY <1>1, <1>8 DEF T
<1>10. g[l + 1] = ReplayStep(f[l], e)
  <2>1. l + 1 \in 0..(l + 1) /\ l \in 0..l /\ (l + 1) - 1 = l /\ l + 1 # 0
    BY <1>1
  <2> QED
    BY <1>1, <1>4, <1>9, <2>1
<1> QED
  BY <1>1, <1>9, <1>10 DEF f, g, i, l

-----------------------------------------------------------------------------
(* The journal reproduces the store.                                       *)

\* What rebuild_projection computes from a journal with one more event.
LEMMA ReplayOfAppended ==
  ASSUME TypeOK, NEW e \in Event, journal' = Append(journal, Entry(e)),
         baseline' = baseline
  PROVE  /\ \A n \in 0..Len(journal) : Replayed'[n] = Replayed[n]
         /\ Replay' = ReplayStep(Replay, Entry(e))
<1> DEFINE Entries == [event: Event, revision: Nat]
<1>1. Entry(e) \in Entries
  BY DEF Entry, TypeOK, ReviewMatter
<1>2. journal \in Seq(Entries)
  BY DEF TypeOK
<1> HIDE DEF Entries
<1>3. Replayed' = ReplayedFrom(baseline, Append(journal, Entry(e)))
  BY DEF Replayed
<1>4. Replay' = Replayed'[Len(journal) + 1]
  BY <1>1, <1>2, ReplayAppended DEF Replay
<1> QED
  BY <1>1, <1>2, <1>3, <1>4, ReplayAppended DEF Replayed, Replay

\* The replay of a new Matter is its baseline.
LEMMA ReplayOfCreated ==
  ASSUME NEW b
  PROVE  ReplayedFrom(b, <<>>)[0] = ReplayStart(b)
<1>1. Len(<<>>) = 0
  OBVIOUS
<1>2. IsReplay(ReplayedFrom(b, <<>>), b, <<>>, 0)
  BY <1>1, ReplayIsReplay
<1> QED
  BY <1>2 DEF IsReplay

\* Only create writes the baseline.
LEMMA QuietBaseline ==
  ASSUME [Next]_vars, ~ \E c \in Clients, t \in Titles : Create(c, t)
  PROVE  UNCHANGED baseline
<1> USE DEF Requests, Returns
<1>1. CASE UNCHANGED vars
  BY <1>1 DEF vars
<1>2. CASE \E d \in Databases : ReplaceEvidence(d)
  BY <1>2 DEF ReplaceEvidence
<1>3. ASSUME NEW c \in Clients, ClientStep(c)
      PROVE  UNCHANGED baseline
  BY <1>3 DEF ClientStep, Rename, Status, ChangeIssueState, AddIssue, SetRequiredFacets,
     RegisterDependency, InvalidateLoad, InvalidateImpact, BindProvenance, BindLoad,
     BindExisting, SelectSearch, SelectLoad, SelectPromote, AppendMatterEvent, Abandon
<1> QED
  BY <1>1, <1>2, <1>3 DEF Next

\* Every step of the store keeps what a replay of the journal needs.
LEMMA RebuildStep ==
  ASSUME RebuildInv, [Next]_vars
  PROVE  RebuildInv'
<1>1. StoreInv'
  BY StoreStep DEF RebuildInv
<1>2. TypeOK /\ matter \in ReviewMatter /\ matter.revision \in Nat
  BY DEF RebuildInv, StoreInv, TypeOK, ReviewMatter
<1>3. ASSUME NEW c \in Clients, NEW t \in Titles, Create(c, t)
      PROVE  UnwrittenIsBare' /\ ReplayReproducesStore'
  <2>1. /\ matter.revision = 0 /\ journal = <<>> /\ journal' = journal
        /\ matter'.revision = 1 /\ baseline' = matter' /\ matter' # NoMatter
        /\ evbind' = evbind /\ deps' = deps
    <3>1. matter.revision = 0 /\ Len(journal) = 0
      BY <1>3, <1>2 DEF Create, MatterAbsent, RebuildInv, StoreInv, JournalContiguous
    <3>2. journal = <<>>
      BY <1>2, <3>1 DEF TypeOK
    <3>3. matter' = [NoMatter EXCEPT !.title = t, !.revision = 1]
      BY <1>3 DEF Create
    <3>4. NoMatter.revision = 0 /\ matter'.revision = 1
      BY <3>3 DEF NoMatter
    <3>5. matter' # NoMatter
      BY <3>4
    <3>6. baseline' = matter' /\ UNCHANGED <<journal, evbind, deps>>
      BY <1>3 DEF Create
    <3> QED
      BY <3>1, <3>2, <3>4, <3>5, <3>6
  <2>2. evbind = NoBinding /\ deps = NoDependencies
    BY <2>1 DEF RebuildInv, UnwrittenIsBare
  <2>3. Replay' = ReplayStart(matter')
    <3>1. Replay' = ReplayedFrom(matter', <<>>)[Len(<<>>)]
      BY <2>1 DEF Replay, Replayed
    <3>2. Len(<<>>) = 0
      OBVIOUS
    <3> QED
      BY <3>1, <3>2, ReplayOfCreated
  <2> QED
    BY <2>1, <2>2, <2>3 DEF UnwrittenIsBare, ReplayReproducesStore, ReplayStart,
       NoBinding, NoDependencies
<1>4. ASSUME NEW c \in Clients, AppendMatterEvent(c)
      PROVE  UnwrittenIsBare' /\ ReplayReproducesStore'
  <2> DEFINE e == op[c].event
  <2>1. /\ e \in Event /\ Projectable(matter, e) /\ baseline' = baseline
        /\ matter' = ProjectEvent(matter, e) /\ evbind' = BindingAfter(evbind, e)
        /\ deps' = DepsAfter(deps, e) /\ journal' = Append(journal, Entry(e))
    BY <1>4, AppendJustified DEF AppendMatterEvent, RebuildInv
  <2>2. matter.revision > 0
    BY <1>2, <1>4 DEF AppendMatterEvent, LastRevision, RebuildInv, StoreInv,
       JournalContiguous, TypeOK
  <2> HIDE DEF e
  <2>3. /\ Replay.accepted /\ Replay.matter = matter
        /\ Replay.evbind = evbind /\ Replay.deps = deps
    BY <2>2 DEF RebuildInv, ReplayReproducesStore
  <2>4. Replay' = ReplayStep(Replay, Entry(e))
    BY <1>2, <2>1, ReplayOfAppended
  <2>5. Entry(e).event = e /\ Entry(e).revision = matter.revision + 1
    BY DEF Entry
  <2>6. matter'.revision = matter.revision + 1
    BY <2>1 DEF ProjectEvent
  <2> QED
    BY <1>2, <2>1, <2>3, <2>4, <2>5, <2>6 DEF ReplayStep, UnwrittenIsBare, ReplayReproducesStore
<1>5. ASSUME UNCHANGED <<matter, baseline, journal, evbind, deps>>
      PROVE  UnwrittenIsBare' /\ ReplayReproducesStore'
  BY <1>5 DEF UnwrittenIsBare, ReplayReproducesStore, Replay, Replayed, RebuildInv
<1> QED
  BY <1>1, <1>3, <1>4, <1>5, QuietStep, QuietBaseline DEF RebuildInv

\* A store that was never written replays to nothing.
LEMMA RebuildInit == ASSUME Init, StoreInv PROVE RebuildInv
BY DEF Init, RebuildInv, UnwrittenIsBare, ReplayReproducesStore, NoMatter

\* Under the invariant a rebuild is no more than a status command.
LEMMA RebuildIsStatus ==
  ASSUME RebuildInv, NEW c \in Clients, Rebuild(c)
  PROVE  Status(c)
BY DEF Rebuild, Ready, Status, RebuildInv, ReplayReproducesStore

\* The journal is enough to recover the store (rebuild_projection), whatever
\* rebuilds are made between the commits.
THEOREM RebuildInvariant == SpecWithRebuild => []RebuildInv
<1>1. ASSUME Init PROVE RebuildInv
  BY <1>1, StoreInit, RebuildInit
<1>2. ASSUME RebuildInv, [NextWithRebuild]_vars PROVE RebuildInv'
  <2>1. [Next]_vars
    BY <1>2, RebuildIsStatus DEF NextWithRebuild, Next, ClientStep
  <2> QED
    BY <1>2, <2>1, RebuildStep
<1> QED
  BY <1>1, <1>2, PTL DEF SpecWithRebuild

COROLLARY ReplayReproducesStoreHolds == SpecWithRebuild => []ReplayReproducesStore
BY RebuildInvariant, PTL DEF RebuildInv

\* A rebuild changes nothing: the store with rebuild_projection behaves as the
\* store without it, so that what holds of one holds of the other.
THEOREM RebuildChangesNothing == SpecWithRebuild => Spec
<1>1. ASSUME RebuildInv, [NextWithRebuild]_vars PROVE [Next]_vars
  BY <1>1, RebuildIsStatus DEF NextWithRebuild, Next, ClientStep
<1> QED
  BY <1>1, RebuildInvariant, PTL DEF Spec, SpecWithRebuild

\* In particular ...
COROLLARY PropertiesWithRebuild ==
  SpecWithRebuild =>
    /\ []RevisionNamesContent /\ []JournalContiguous
    /\ InvalidationCoversDependents /\ RebindStalesAllIssues /\ SelectionUnderBinding
BY RebuildChangesNothing, RevisionNamesContentHolds, JournalContiguousHolds,
   InvalidationCoversDependentsHolds, RebindStalesAllIssuesHolds, SelectionUnderBindingHolds

-----------------------------------------------------------------------------
(* Opening the store.                                                      *)

\* The tables that schema.sql creates before its i-th statement.
Before(i) == {Schema[k] : k \in 1 .. i - 1} \cap Tables

\* A database that was created holds the first tables of the schema.
InOrder(d) ==
    /\ \A i \in 1 .. Len(Schema) : Schema[i] \in d.tables => Before(i) \subseteq d.tables
    /\ "matter_source_dependencies" \in d.tables => d.revisions
    /\ d.version \in {0, SCHEMA_VERSION}

\* The processes that have a connection.
Connected == PCs \ {"closed", "connect"}

\* What a database keeps as it grows.
Keeps(d, e) ==
    /\ e.earlier = d.earlier /\ d.tables \subseteq e.tables
    /\ WholeFor(d, SCHEMA_VERSION) => WholeFor(e, SCHEMA_VERSION)

\* One that an earlier version made is whole for a version; any other is in order.
DatabaseOK(d) ==
    IF d.earlier THEN \E v \in 1 .. SCHEMA_VERSION : WholeFor(d, v) ELSE InOrder(d)

\* A process that created its file has no earlier store to lose.
OpenerOK(o, s) ==
    /\ o.pc \in {"closed", "connect"} => o.at = 1
    /\ o.pc \in Connected => o.inode \in Inodes
    /\ o.pc \in {"script", "failed"} => o.isNew
    /\ o.isNew /\ o.inode \in Inodes => ~s[o.inode].earlier
    /\ o.pc = "script" => o.at \in 1 .. Len(Schema) /\ Before(o.at) \subseteq s[o.inode].tables
    /\ o.pc \in {"migrate1", "migrate2", "migrate3"} => s[o.inode].earlier
    /\ o.pc = "open" => WholeFor(s[o.inode], SCHEMA_VERSION)

\* The invariant that the steps preserve.
OpeningInv ==
    /\ OpeningTypeOK
    /\ \A i \in Inodes : DatabaseOK(store[i])
    /\ \A p \in Openers : OpenerOK(opener[p], store)
    /\ path \in Inodes /\ store[path].earlier => \A p \in Openers : ~opener[p].isNew

\* What a process is, as the type invariant has it.
Opener == [pc : PCs, inode : Inodes \cup {NoInode}, isNew : BOOLEAN, at : 1 .. Len(Schema) + 1]

\* schema.sql has eleven statements.
LEMMA SchemaLength == Len(Schema) = 11
  BY DEF Schema

\* No two of them create the same table.
LEMMA SchemaDistinct ==
    \A i, k \in 1 .. 11 : Schema[i] = Schema[k] => i = k
  BY DEF Schema

\* The tables that they create.
LEMMA TablesAre ==
    Tables = {"matter_meta", "matters", "matter_baselines", "matter_events",
              "matter_projections", "matter_source_dependencies", "matter_evidence_bindings",
              "formalization_snapshots", "formal_run_bindings"}
  <1>1. DOMAIN Schema = 1 .. 11
    BY DEF Schema
  <1>2. {Schema[i] : i \in 1 .. 11} =
          {"user_version", "matter_meta", "schema_version", "matters", "matter_baselines",
           "matter_events", "matter_projections", "matter_source_dependencies",
           "matter_evidence_bindings", "formalization_snapshots", "formal_run_bindings"}
    BY DEF Schema
  <1> QED BY <1>1, <1>2 DEF Tables

\* Whoever finds the last table finds all of them.
LEMMA LastTableIsLast ==
    ASSUME NEW d \in Database, InOrder(d), "formal_run_bindings" \in d.tables
    PROVE  Tables \subseteq d.tables
  <1>1. Schema[11] = "formal_run_bindings"
    BY DEF Schema
  <1>2. Before(11) \subseteq d.tables
    BY <1>1, SchemaLength DEF InOrder
  <1>3. Tables \subseteq Before(11) \cup {Schema[11]}
    <2> SUFFICES ASSUME NEW t \in Tables PROVE t \in Before(11) \cup {Schema[11]}
      OBVIOUS
    <2>1. PICK i \in 1 .. 11 : Schema[i] = t
      BY DEF Tables, Schema
    <2>2. CASE i = 11
      BY <2>1, <2>2
    <2>3. CASE i # 11
      BY <2>1, <2>3 DEF Before
    <2> QED BY <2>2, <2>3
  <1> QED BY <1>1, <1>2, <1>3

\* A statement of the schema leaves the tables in order.
LEMMA ExecutedInOrder ==
    ASSUME NEW d \in Database, InOrder(d), ~d.earlier, NEW a \in 1 .. Len(Schema),
           Before(a) \subseteq d.tables
    PROVE  LET e == Executed(d, Schema[a])
           IN  /\ e \in Database /\ InOrder(e) /\ ~e.earlier /\ Keeps(d, e)
               /\ a + 1 \in 1 .. Len(Schema) => Before(a + 1) \subseteq e.tables
  <1> DEFINE e == Executed(d, Schema[a])
  <1>0. a \in 1 .. 11
    BY SchemaLength
  <1>1. /\ e \in Database /\ e.earlier = d.earlier /\ d.tables \subseteq e.tables
        /\ e.tables \subseteq d.tables \cup {Schema[a]}
        /\ e.version \in {d.version, SCHEMA_VERSION} /\ e.meta \in {d.meta, SCHEMA_VERSION}
        /\ d.revisions => e.revisions
        /\ "matter_source_dependencies" \in e.tables => e.revisions
        /\ Schema[a] \in Tables => Schema[a] \in e.tables
    <2>1. CASE Schema[a] = "user_version"
      BY <2>1, TablesAre DEF Executed, Database, SCHEMA_VERSION, InOrder
    <2>2. CASE Schema[a] = "schema_version"
      BY <2>2, TablesAre DEF Executed, Database, SCHEMA_VERSION, InOrder
    <2>3. CASE Schema[a] = "matter_source_dependencies"
      BY <2>3, TablesAre DEF Executed, Database, SCHEMA_VERSION, InOrder
    <2>4. CASE Schema[a] \notin {"user_version", "schema_version", "matter_source_dependencies"}
      <3>1. Schema[a] \in Tables
        BY <1>0, <2>4 DEF Tables, Schema
      <3>2. e = [d EXCEPT !.tables = @ \cup {Schema[a]}]
        BY <2>4 DEF Executed
      <3> QED BY <2>4, <3>1, <3>2 DEF Database, SCHEMA_VERSION, InOrder
    <2> QED BY <2>1, <2>2, <2>3, <2>4
  <1> HIDE DEF e
  <1>2. ASSUME NEW i \in 1 .. Len(Schema), Schema[i] \in e.tables
        PROVE  Before(i) \subseteq e.tables
    <2>1. CASE Schema[i] \in d.tables
      BY <1>1, <2>1 DEF InOrder
    <2>2. CASE Schema[i] \notin d.tables
      <3>1. i = a
        BY <1>0, <1>1, <1>2, <2>2, SchemaDistinct, SchemaLength
      <3> QED BY <1>1, <3>1
    <2> QED BY <2>1, <2>2
  <1>3. InOrder(e)
    BY <1>1, <1>2 DEF InOrder
  <1>4. Keeps(d, e)
    BY <1>1 DEF Keeps, WholeFor
  <1>5. a + 1 \in 1 .. Len(Schema) => Before(a + 1) \subseteq e.tables
    <2>1. Before(a + 1) \subseteq Before(a) \cup ({Schema[a]} \cap Tables)
      <3>1. \A k \in 1 .. (a + 1) - 1 : k = a \/ k \in 1 .. a - 1
        BY <1>0
      <3> QED BY <3>1 DEF Before
    <2> QED BY <1>1, <2>1
  <1> QED BY <1>1, <1>3, <1>4, <1>5 DEF e

\* A migration takes a database of one version to a later one.
LEMMA MigratedIsWhole ==
    ASSUME NEW d \in Database, d.earlier, NEW v \in 1 .. SCHEMA_VERSION, WholeFor(d, v),
           NEW to, v < to, to = 3 \/ (v = 3 /\ to = 4)
    PROVE  /\ Migrated(d, to) \in Database /\ Migrated(d, to).earlier
           /\ WholeFor(Migrated(d, to), to) /\ Keeps(d, Migrated(d, to))
  <1> DEFINE e == Migrated(d, to)
  <1>1. CASE to = 3
    <2>1. /\ e.version = 3 /\ e.meta = 3 /\ e.revisions = d.revisions /\ e.earlier = d.earlier
          /\ e.tables = d.tables \cup {"formalization_snapshots", "formal_run_bindings"}
      BY <1>1 DEF Migrated, Database
    <2>2. e \in Database
      <3>1. e = [d EXCEPT !.version = 3, !.meta = 3,
                          !.tables = d.tables \cup {"formalization_snapshots", "formal_run_bindings"}]
        BY <1>1 DEF Migrated
      <3>2. {"formalization_snapshots", "formal_run_bindings"} \subseteq Tables
        BY TablesAre
      <3>3. 3 \in 0 .. SCHEMA_VERSION /\ d.tables \in SUBSET Tables
        BY DEF SCHEMA_VERSION, Database
      <3> QED BY <3>1, <3>2, <3>3 DEF Database
    <2>3. v # 4 /\ d.version # 4 /\ 3 # 4
      BY <1>1 DEF WholeFor, SCHEMA_VERSION
    <2>4. TablesOf(3) \subseteq e.tables
      <3>1. Tables \ {"formalization_snapshots", "formal_run_bindings"} \subseteq TablesOf(v)
        BY DEF TablesOf
      <3> QED BY <2>1, <3>1 DEF WholeFor, TablesOf
    <2> HIDE DEF e
    <2> QED BY <1>1, <2>1, <2>2, <2>3, <2>4 DEF WholeFor, Keeps, SCHEMA_VERSION, e
  <1>2. CASE v = 3 /\ to = 4
    <2>0. e = [d EXCEPT !.version = 4, !.meta = 4, !.revisions = TRUE]
      BY <1>2 DEF Migrated
    <2>1. /\ e.version = 4 /\ e.meta = 4 /\ e.revisions = TRUE /\ e.earlier = d.earlier
          /\ e.tables = d.tables
      BY <2>0 DEF Database
    <2>2. e \in Database
      <3>1. 4 \in 0 .. SCHEMA_VERSION /\ TRUE \in BOOLEAN
        BY DEF SCHEMA_VERSION
      <3> QED BY <2>0, <3>1 DEF Database
    <2>3. TablesOf(4) \subseteq e.tables
      BY <1>2, <2>1 DEF WholeFor, TablesOf
    <2> HIDE DEF e
    <2> QED BY <1>2, <2>1, <2>2, <2>3 DEF WholeFor, Keeps, SCHEMA_VERSION, e
  <1> QED BY <1>1, <1>2

\* What others rely on stays while a database grows.
LEMMA OpenerStays ==
    ASSUME NEW o \in Opener, NEW s, NEW t, OpenerOK(o, s),
           o.inode \in Inodes => Keeps(s[o.inode], t[o.inode])
    PROVE  OpenerOK(o, t)
  <1>1. CASE o.inode \in Inodes
    BY <1>1 DEF OpenerOK, Keeps
  <1>2. CASE o.inode \notin Inodes
    BY <1>2 DEF OpenerOK, Connected, PCs
  <1> QED BY <1>1, <1>2

\* A step of one process.
LEMMA OpenerStep ==
    ASSUME OpeningInv, NEW p \in Openers, NEW o \in Opener, opener' = [opener EXCEPT ![p] = o],
           OpenerOK(o, store'), store' \in [Inodes -> Database],
           \A i \in Inodes : DatabaseOK(store'[i]),
           \A q \in Openers \ {p} : opener[q].inode \in Inodes =>
               Keeps(store[opener[q].inode], store'[opener[q].inode]),
           path' \in Inodes \cup {NoInode}, stops' \in 0 .. MaxStops,
           path' \in Inodes /\ store'[path'].earlier =>
               ~o.isNew /\ \A q \in Openers : ~opener[q].isNew
    PROVE  OpeningInv'
  <1>1. opener \in [Openers -> Opener]
    BY DEF OpeningInv, OpeningTypeOK, Opener
  <1>2. opener' \in [Openers -> Opener] /\ \A q \in Openers \ {p} : opener'[q] = opener[q]
    BY <1>1
  <1>3. opener'[p] = o
    BY <1>1
  <1>4. OpeningTypeOK'
    BY <1>2 DEF OpeningTypeOK, Opener
  <1>5. ASSUME NEW q \in Openers PROVE OpenerOK(opener'[q], store')
    <2>1. CASE q = p
      BY <1>3, <2>1
    <2>2. CASE q # p
      BY <1>1, <1>2, <2>2, OpenerStays DEF OpeningInv
    <2> QED BY <2>1, <2>2
  <1>6. path' \in Inodes /\ store'[path'].earlier => \A q \in Openers : ~opener'[q].isNew
    BY <1>2, <1>3
  <1> QED BY <1>4, <1>5, <1>6 DEF OpeningInv

\* A process that raises holds nothing and has still to unlink what it created.
LEMMA RaiseStep ==
    ASSUME OpeningInv, NEW p \in Openers, opener[p].pc \in Connected, Raise(p),
           stops' \in 0 .. MaxStops
    PROVE  OpeningInv'
  <1> DEFINE o == IF opener[p].isNew THEN [opener[p] EXCEPT !.pc = "failed"] ELSE Closed
  <1>1. opener[p] \in Opener /\ OpenerOK(opener[p], store)
    BY DEF OpeningInv, OpeningTypeOK, Opener
  <1>2. o \in Opener /\ opener' = [opener EXCEPT ![p] = o] /\ o.isNew = opener[p].isNew
    <2>1. CASE opener[p].isNew
      <3>1. o = [opener[p] EXCEPT !.pc = "failed"]
        BY <2>1
      <3>2. opener' = [opener EXCEPT ![p] = o]
        BY <2>1, <3>1 DEF Raise, Goto, OpeningInv, OpeningTypeOK
      <3> QED BY <1>1, <3>1, <3>2 DEF Opener, PCs
    <2>2. CASE ~opener[p].isNew
      <3>1. o = Closed /\ Closed \in Opener /\ Closed.isNew = FALSE
        BY <2>2, SchemaLength DEF Closed, Opener, PCs
      <3> QED BY <1>1, <2>2, <3>1 DEF Raise, Opener
    <2> QED BY <2>1, <2>2
  <1>3. OpenerOK(o, store)
    <2>1. CASE opener[p].isNew
      BY <1>1, <2>1 DEF OpenerOK, Connected, PCs, Opener
    <2>2. CASE ~opener[p].isNew
      BY <1>1, <2>2 DEF OpenerOK, Connected, PCs, Closed
    <2> QED BY <2>1, <2>2
  <1>4. UNCHANGED <<path, store>>
    BY DEF Raise
  <1> HIDE DEF o
  <1> QED BY <1>2, <1>3, <1>4, OpenerStep DEF OpeningInv, OpeningTypeOK, Keeps

\* Every step of the processes preserves the invariant.
LEMMA OpeningInvStep ==
    ASSUME OpeningInv, [OpeningNext]_openingVars PROVE OpeningInv'
  <1>1. CASE UNCHANGED openingVars
    BY <1>1 DEF openingVars, OpeningInv, OpeningTypeOK
  <1>2. ASSUME NEW p \in Openers, OpeningStep(p) PROVE OpeningInv'
    <2> DEFINE o == opener[p]
               i == opener[p].inode
               d == store[i]
    <2>1. /\ o \in Opener /\ OpenerOK(o, store) /\ path \in Inodes \cup {NoInode}
          /\ store \in [Inodes -> Database] /\ stops \in 0 .. MaxStops
          /\ \A k \in Inodes : DatabaseOK(store[k])
          /\ path \in Inodes /\ store[path].earlier => \A q \in Openers : ~opener[q].isNew
      BY DEF OpeningInv, OpeningTypeOK, Opener
    <2>2. \A q \in Openers : opener[q] \in Opener
      BY DEF OpeningInv, OpeningTypeOK, Opener
    <2>3. \A k \in Inodes : Keeps(store[k], store[k])
      BY DEF Keeps
    <2> HIDE DEF o, i, d
    <2>4. CASE LookForStore(p)
      <3> DEFINE v == [Closed EXCEPT !.pc = "connect", !.isNew = path = NoInode]
      <3>1. /\ v.pc = "connect" /\ v.inode = NoInode /\ v.isNew = (path = NoInode) /\ v.at = 1
            /\ v \in Opener
        <4>1. Closed \in Opener
          BY SchemaLength DEF Closed, Opener, PCs
        <4>4. \A b \in BOOLEAN : [Closed EXCEPT !.pc = "connect", !.isNew = b] \in Opener
          BY <4>1 DEF Opener, PCs
        <4>2. v.pc = "connect" /\ v.inode = NoInode /\ v.isNew = (path = NoInode) /\ v.at = 1
          BY DEF Closed
        <4>3. (path = NoInode) \in BOOLEAN
          OBVIOUS
        <4> QED BY <4>2, <4>3, <4>4
      <3>2. opener' = [opener EXCEPT ![p] = v] /\ UNCHANGED <<path, store, stops>>
        BY <2>4 DEF LookForStore
      <3> HIDE DEF v
      <3>3. OpenerOK(v, store)
        BY <3>1, OpeningAssumption DEF OpenerOK, Connected
      <3>4. path \in Inodes => ~v.isNew
        BY <3>1, OpeningAssumption
      <3> QED BY <2>1, <2>3, <3>1, <3>2, <3>3, <3>4, OpenerStep
    <2>5. CASE Connect(p)
      <3>1. PICK k \in IF path = NoInode THEN Inodes \ Used ELSE {path} :
               /\ path' = k
               /\ store' = IF path = NoInode THEN [store EXCEPT ![k] = Empty] ELSE store
               /\ opener' = [opener EXCEPT ![p].inode = k,
                                ![p].pc = IF opener[p].isNew THEN "script" ELSE "version"]
        BY <2>5 DEF Connect
      <3> DEFINE v == [o EXCEPT !.inode = k, !.pc = IF o.isNew THEN "script" ELSE "version"]
      <3>2. k \in Inodes
        BY <2>1, <3>1
      <3>3. /\ v \in Opener /\ v.inode = k /\ v.pc = (IF o.isNew THEN "script" ELSE "version")
            /\ v.isNew = o.isNew /\ v.at = o.at /\ opener' = [opener EXCEPT ![p] = v]
        BY <2>1, <3>1, <3>2 DEF Opener, PCs, o, OpeningInv, OpeningTypeOK
      <3>4. Empty \in Database /\ InOrder(Empty) /\ ~Empty.earlier
        BY SchemaLength, TablesAre DEF Empty, Database, InOrder, SCHEMA_VERSION
      <3>5. store' \in [Inodes -> Database] /\ \A n \in Inodes : DatabaseOK(store'[n])
        BY <2>1, <3>1, <3>2, <3>4 DEF DatabaseOK
      <3>6. ASSUME NEW q \in Openers, opener[q].inode \in Inodes
            PROVE  Keeps(store[opener[q].inode], store'[opener[q].inode])
        <4>1. path = NoInode => k # opener[q].inode
          BY <3>1 DEF Used
        <4>2. store'[opener[q].inode] = store[opener[q].inode]
          BY <2>1, <3>1, <3>6, <4>1
        <4> QED BY <2>3, <3>6, <4>2
      <3>7. store'[k].earlier => path \in Inodes /\ store[path].earlier
        BY <2>1, <3>1, <3>2, <3>4
      <3>8. OpenerOK(v, store')
        <4>1. o.pc = "connect" /\ o.at = 1
          BY <2>1, <2>5 DEF Connect, o, OpenerOK
        <4>2. o.isNew => ~store'[k].earlier
          BY <2>1, <3>7 DEF o
        <4>3. Before(1) = {}
          BY DEF Before
        <4> QED BY <3>2, <3>3, <4>1, <4>2, <4>3, SchemaLength DEF OpenerOK, Connected, PCs
      <3> QED BY <2>1, <2>5, <3>1, <3>2, <3>3, <3>5, <3>6, <3>7, <3>8, OpenerStep DEF Connect, o
    <2>6. CASE ExecuteSchema(p)
      <3>1. CASE Raise(p)
        BY <2>1, <2>6, <3>1, RaiseStep DEF ExecuteSchema, Connected, PCs, o
      <3>2. CASE ~Raise(p)
        <4> DEFINE e == Executed(d, Schema[o.at])
                   v == [o EXCEPT !.at = o.at + 1,
                                  !.pc = IF o.at = Len(Schema) THEN "require" ELSE o.pc]
        <4>1. /\ o.pc = "script" /\ i \in Inodes /\ o.at \in 1 .. Len(Schema) /\ o.isNew
              /\ Before(o.at) \subseteq d.tables /\ ~d.earlier /\ d \in Database /\ InOrder(d)
          <5>1. o.pc = "script"
            BY <2>6 DEF ExecuteSchema, o
          <5>2. /\ o.inode \in Inodes /\ o.at \in 1 .. Len(Schema) /\ o.isNew
                /\ Before(o.at) \subseteq store[o.inode].tables /\ ~store[o.inode].earlier
            BY <2>1, <5>1 DEF OpenerOK, Connected, PCs
          <5> QED BY <2>1, <5>1, <5>2 DEF i, d, o, DatabaseOK
        <4>2. store' = [store EXCEPT ![i] = e] /\ opener' = [opener EXCEPT ![p] = v]
              /\ UNCHANGED <<path, stops>>
          BY <2>6, <3>2, <2>1 DEF ExecuteSchema, i, o, d, OpeningInv, OpeningTypeOK
        <4>3. /\ e \in Database /\ InOrder(e) /\ ~e.earlier /\ Keeps(d, e)
              /\ o.at + 1 \in 1 .. Len(Schema) => Before(o.at + 1) \subseteq e.tables
          BY <4>1, ExecutedInOrder
        <4>4. /\ v \in Opener /\ v.inode = i /\ v.isNew /\ v.at = o.at + 1
              /\ v.pc = IF o.at = Len(Schema) THEN "require" ELSE "script"
          <5>1. o.at + 1 \in 1 .. Len(Schema) + 1
            BY <4>1, SchemaLength
          <5> QED BY <2>1, <4>1, <5>1 DEF Opener, PCs, i, o
        <4> HIDE DEF e, v
        <4>5. store' \in [Inodes -> Database] /\ store'[i] = e
              /\ \A k \in Inodes \ {i} : store'[k] = store[k]
          BY <2>1, <4>1, <4>2, <4>3
        <4>6. \A k \in Inodes : DatabaseOK(store'[k]) /\ Keeps(store[k], store'[k])
          BY <2>1, <2>3, <4>3, <4>5 DEF DatabaseOK, d
        <4>7. OpenerOK(v, store')
          BY <4>1, <4>3, <4>4, <4>5, SchemaLength DEF OpenerOK, Connected, PCs
        <4>8. path \in Inodes /\ store'[path].earlier => store[path].earlier /\ ~v.isNew
          BY <2>1, <4>1, <4>3, <4>5 DEF Keeps, o
        <4> QED BY <2>1, <4>2, <4>4, <4>5, <4>6, <4>7, <4>8, OpenerStep
      <3> QED BY <3>1, <3>2
    <2>7. CASE ReadVersion(p)
      <3>1. CASE Raise(p)
        BY <2>1, <2>7, <3>1, RaiseStep DEF ReadVersion, Connected, PCs, o
      <3>2. CASE ~Raise(p)
        <4> DEFINE step == CASE d.version = 1 -> "migrate1" [] d.version = 2 -> "migrate2"
                             [] d.version = 3 -> "migrate3" [] OTHER -> "require"
                   v == [o EXCEPT !.pc = step]
        <4>1. o.pc = "version" /\ i \in Inodes
          BY <2>1, <2>7 DEF ReadVersion, OpenerOK, Connected, PCs, o, i
        <4>2. opener' = [opener EXCEPT ![p] = v] /\ UNCHANGED <<path, store, stops>>
          BY <2>7, <3>2 DEF ReadVersion, Goto, o, i, d, OpeningInv, OpeningTypeOK
        <4>3. /\ step \in {"migrate1", "migrate2", "migrate3", "require"}
              /\ step # "require" => d.version \in {1, 2, 3}
          OBVIOUS
        <4>4. v \in Opener /\ v.pc = step /\ v.inode = i /\ v.isNew = o.isNew
          BY <2>1, <4>3 DEF Opener, PCs, i, o
        <4> HIDE DEF step, v
        <4>5. step # "require" => d.earlier
          BY <2>1, <4>1, <4>3 DEF DatabaseOK, InOrder, SCHEMA_VERSION, d
        <4>6. OpenerOK(v, store)
          BY <2>1, <4>1, <4>3, <4>4, <4>5 DEF OpenerOK, Connected, PCs, d, i, o
        <4> QED BY <2>1, <2>3, <4>2, <4>4, <4>6, OpenerStep DEF o
      <3> QED BY <3>1, <3>2
    <2>8. ASSUME NEW from \in {1, 2, 3}, NEW needs, NEW to, NEW next,
                 <<from, to, next>> \in {<<1, 3, "migrate3">>, <<2, 3, "migrate3">>,
                                         <<3, 4, "require">>},
                 o.pc \in {"migrate1", "migrate2", "migrate3"}, Migrate(p, from, needs, to, next)
          PROVE  OpeningInv'
      <3>1. CASE Raise(p)
        BY <2>1, <2>8, <3>1, RaiseStep DEF Migrate, Connected, PCs, o
      <3>2. CASE ~Raise(p)
        <4> DEFINE e == Migrated(d, to)
                   v == [o EXCEPT !.pc = next]
        <4>1. /\ i \in Inodes /\ d.earlier /\ d \in Database
              /\ \E n \in 1 .. SCHEMA_VERSION : WholeFor(d, n)
          <5>1. o.inode \in Inodes /\ store[o.inode].earlier
            BY <2>1, <2>8 DEF OpenerOK, Connected, PCs
          <5> QED BY <2>1, <5>1 DEF DatabaseOK, i, d, o
        <4>2. /\ store' = [store EXCEPT ![i] = e] /\ opener' = [opener EXCEPT ![p] = v]
              /\ d.meta = from /\ UNCHANGED <<path, stops>>
          BY <2>8, <3>2 DEF Migrate, Goto, i, o, d, OpeningInv, OpeningTypeOK
        <4>3. e \in Database /\ e.earlier /\ WholeFor(e, to) /\ Keeps(d, e)
              /\ to \in 1 .. SCHEMA_VERSION
          <5>1. WholeFor(d, from)
            BY <4>1, <4>2 DEF WholeFor
          <5>2. from \in 1 .. SCHEMA_VERSION /\ from < to /\ (to = 3 \/ (from = 3 /\ to = 4))
                /\ to \in 1 .. SCHEMA_VERSION
            BY <2>8 DEF SCHEMA_VERSION
          <5> QED BY <4>1, <5>1, <5>2, MigratedIsWhole
        <4>4. v \in Opener /\ v.inode = i /\ v.isNew = o.isNew /\ v.pc = next
              /\ next \in {"migrate3", "require"}
          BY <2>1, <2>8 DEF Opener, PCs, i, o
        <4> HIDE DEF e, v
        <4>5. store' \in [Inodes -> Database] /\ store'[i] = e
              /\ \A k \in Inodes \ {i} : store'[k] = store[k]
          BY <2>1, <4>1, <4>2, <4>3
        <4>6. \A k \in Inodes : DatabaseOK(store'[k]) /\ Keeps(store[k], store'[k])
          BY <2>1, <2>3, <4>3, <4>5 DEF DatabaseOK, d
        <4>7. ~o.isNew
          BY <2>1, <4>1 DEF OpenerOK, o, i, d
        <4>8. OpenerOK(v, store')
          BY <4>1, <4>3, <4>4, <4>5, <4>7 DEF OpenerOK, Connected, PCs
        <4>9. path \in Inodes /\ store'[path].earlier => store[path].earlier
          BY <2>1, <4>6 DEF Keeps
        <4> QED BY <2>1, <4>2, <4>4, <4>5, <4>6, <4>7, <4>8, <4>9, OpenerStep
      <3> QED BY <3>1, <3>2
    <2>9. CASE MigrateFrom1(p) \/ MigrateFrom2(p) \/ MigrateFrom3(p)
      BY <2>8, <2>9 DEF MigrateFrom1, MigrateFrom2, MigrateFrom3, o
    <2>10. CASE RequireSchema(p)
      <3>1. CASE Raise(p)
        BY <2>1, <2>10, <3>1, RaiseStep DEF RequireSchema, Connected, PCs, o
      <3>2. CASE ~Raise(p)
        <4> DEFINE v == [o EXCEPT !.pc = "open"]
        <4>1. o.pc = "require" /\ i \in Inodes /\ d \in Database /\ DatabaseOK(d)
          <5>1. o.pc = "require" /\ o.inode \in Inodes
            BY <2>1, <2>10 DEF RequireSchema, OpenerOK, Connected, PCs, o
          <5> QED BY <2>1, <5>1 DEF i, d, o
        <4>2. /\ opener' = [opener EXCEPT ![p] = v] /\ UNCHANGED <<path, store, stops>>
              /\ d.version = SCHEMA_VERSION /\ d.meta = SCHEMA_VERSION
              /\ Required \subseteq d.tables /\ d.revisions
          BY <2>10, <3>2 DEF RequireSchema, Goto, o, i, d, OpeningInv, OpeningTypeOK
        <4>3. WholeFor(d, SCHEMA_VERSION)
          <5>1. CASE d.earlier
            BY <4>1, <4>2, <5>1 DEF DatabaseOK, WholeFor
          <5>2. CASE ~d.earlier
            <6>1. Tables \subseteq d.tables
              BY <4>1, <4>2, <5>2, LastTableIsLast DEF DatabaseOK, Required
            <6> QED BY <4>2, <6>1 DEF WholeFor, TablesOf
          <5> QED BY <5>1, <5>2
        <4>4. v \in Opener /\ v.pc = "open" /\ v.inode = i /\ v.isNew = o.isNew
          BY <2>1 DEF Opener, PCs, i, o
        <4> HIDE DEF v
        <4>5. OpenerOK(v, store)
          BY <2>1, <4>1, <4>3, <4>4 DEF OpenerOK, Connected, PCs, d, i, o
        <4> QED BY <2>1, <2>3, <4>2, <4>4, <4>5, OpenerStep DEF o
      <3> QED BY <3>1, <3>2
    <2>11. CASE Unlink(p) \/ Close(p) \/ Kill(p)
      <3>1. /\ opener' = [opener EXCEPT ![p] = Closed] /\ UNCHANGED store
            /\ path' \in {path, NoInode} /\ stops' \in 0 .. MaxStops
        BY <2>1, <2>11, OpeningAssumption DEF Unlink, Close, Kill
      <3>2. Closed \in Opener /\ OpenerOK(Closed, store) /\ ~Closed.isNew
        BY SchemaLength, OpeningAssumption DEF Closed, Opener, PCs, OpenerOK, Connected
      <3> QED BY <2>1, <2>3, <3>1, <3>2, OpeningAssumption, OpenerStep
    <2>12. CASE Interrupt(p)
      <3>1. opener[p].pc \in Connected /\ stops' \in 0 .. MaxStops
        BY <2>1, <2>12, OpeningAssumption DEF Interrupt, Constructing, Connected, PCs, o, Opener
      <3> QED BY <2>12, <3>1, RaiseStep DEF Interrupt
    <2> QED BY <1>2, <2>4, <2>5, <2>6, <2>7, <2>9, <2>10, <2>11, <2>12 DEF OpeningStep
  <1> QED BY <1>1, <1>2 DEF OpeningNext

\* Whatever is interrupted or killed, and however many processes open the store.
THEOREM StoreIsWholeHolds == OpeningSpec => []StoreIsWhole
  <1>1. OpeningInit => OpeningInv
    <2> SUFFICES ASSUME OpeningInit PROVE OpeningInv
      OBVIOUS
    <2>1. /\ path \in Inodes \cup {NoInode} /\ stops = 0
          /\ opener = [p \in Openers |-> Closed]
      BY DEF OpeningInit
    <2>2. PICK v \in 1 .. SCHEMA_VERSION :
             store = [i \in Inodes |-> IF i = path THEN Earlier(v) ELSE Empty]
      BY DEF OpeningInit
    <2>3. Closed \in Opener /\ OpenerOK(Closed, store) /\ ~Closed.isNew
      BY SchemaLength, OpeningAssumption DEF Closed, Opener, PCs, OpenerOK, Connected
    <2>4. /\ Empty \in Database /\ DatabaseOK(Empty)
          /\ Earlier(v) \in Database /\ DatabaseOK(Earlier(v))
      <3>1. Empty \in Database /\ InOrder(Empty) /\ ~Empty.earlier
        BY SchemaLength, TablesAre DEF Empty, Database, InOrder, SCHEMA_VERSION
      <3>2. Earlier(v) \in Database /\ WholeFor(Earlier(v), v) /\ Earlier(v).earlier
        <4>1. v \in 0 .. SCHEMA_VERSION /\ TablesOf(v) \in SUBSET Tables
          BY DEF SCHEMA_VERSION, TablesOf
        <4>2. \A b \in BOOLEAN :
                 [version |-> v, meta |-> v, tables |-> TablesOf(v), revisions |-> b,
                  earlier |-> TRUE] \in Database
          BY <4>1 DEF Database
        <4>3. (v = SCHEMA_VERSION) \in BOOLEAN
          OBVIOUS
        <4>4. Earlier(v) \in Database
          BY <4>2, <4>3 DEF Earlier
        <4> QED BY <4>4 DEF Earlier, WholeFor
      <3> QED BY <3>1, <3>2 DEF DatabaseOK
    <2> QED BY <2>1, <2>2, <2>3, <2>4, OpeningAssumption DEF OpeningInv, OpeningTypeOK, Opener
  <1>2. OpeningInv => StoreIsWhole
    BY DEF OpeningInv, DatabaseOK, OpenerOK, StoreIsWhole
  <1> QED BY <1>1, <1>2, OpeningInvStep, PTL DEF OpeningSpec
=============================================================================

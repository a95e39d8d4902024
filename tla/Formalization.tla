--------------------------- MODULE Formalization ---------------------------
(***************************************************************************)
(* From a Matter to a formal run: create_formalization_snapshot            *)
(* (review_matter/snapshot.py), formalize_snapshot (formalization.py),     *)
(* bind_formal_run (formal_run_binding.py) and the selection of the        *)
(* current review (current_review_binding.py), beside the processes that   *)
(* go on changing the Matter and replacing the evidence database.          *)
(*                                                                         *)
(* A run's identity is the hash of its request, which is a function of the *)
(* snapshot, so a run is named by its snapshot.                            *)
(***************************************************************************)
EXTENDS MatterRebuild

CONSTANTS
  Formalizers,  \* processes that run matter formalize
  NoProc,
  MaxFaults     \* bound on crashes and replacements of the evidence file

ASSUME FormalizationAssumption == NoProc \notin Formalizers /\ MaxFaults \in Nat

VARIABLES
  snapshots,  \* formalization_snapshots
  runs,       \* the run directories under runs/
  bound,      \* formal_run_bindings, by snapshot
  current,    \* .ers/current-review.json, by snapshot
  lock,       \* the process that holds BEGIN IMMEDIATE across several steps
  fop,        \* per formalizer: the operation in progress
  faults

fvars == <<snapshots, runs, bound, current, lock, fop, faults>>

allvars == <<vars, fvars>>

\* matter: the Matter as loaded; db: the provenance; text: the database that the
\* text of the selected evidence was read from.
Snapshot == [matter: ReviewMatter, db: Databases \cup {NoDatabase},
             text: Databases \cup {NoDatabase}]

NoSnapshot == [matter |-> NoMatter, db |-> NoDatabase, text |-> NoDatabase]

\* partial: some artifact is missing; artifacts: all there, no event yet; started:
\* some of the initial events; prepared: waiting for Track A; final: READY_FOR_REVIEW.
RunStatus == {"partial", "artifacts", "started", "prepared", "final"}

\* created: this call created the run directory (prepared.resumed is false).
FormalizeOp ==
  [pc: {"idle", "provenance", "binding", "text", "persist", "validate", "reread",
        "recheck", "begin", "new", "existing", "artifacts", "events", "started",
        "resume", "final_check"},
   snap: Snapshot, created: BOOLEAN]

NotFormalizing == [pc |-> "idle", snap |-> NoSnapshot, created |-> FALSE]

FormalTypeOK ==
  /\ TypeOK
  /\ snapshots \subseteq Snapshot
  /\ runs \subseteq [snap: Snapshot, status: RunStatus]
  /\ bound \subseteq Snapshot
  /\ current \in Snapshot
  /\ lock \in Formalizers \cup {NoProc}
  /\ fop \in [Formalizers -> FormalizeOp]
  /\ faults \in 0..MaxFaults

FormalInit ==
  /\ Init
  /\ snapshots = {}
  /\ runs = {}
  /\ bound = {}
  /\ current = NoSnapshot
  /\ lock = NoProc
  /\ fop = [f \in Formalizers |-> NotFormalizing]
  /\ faults = 0

-----------------------------------------------------------------------------

At(f, l) == fop[f].pc = l

GoTo(f, l) == fop' = [fop EXCEPT ![f].pc = l]

\* The call goes on at l with the snapshot s.
GoWith(f, l, s) == fop' = [fop EXCEPT ![f] = [pc |-> l, snap |-> s, created |-> FALSE]]

HasRun(s, status) == [snap |-> s, status |-> status] \in runs

RunExists(s) == \E status \in RunStatus : HasRun(s, status)

SetRun(s, status) ==
  runs' = {r \in runs : r.snap # s} \cup {[snap |-> s, status |-> status]}

\* The store is read, never written, by what f does up to its next step.
StoreUntouched == UNCHANGED vars

\* Another process may write the store: nobody holds its write lock.
WriteLockFree == lock = NoProc

\* _ready_matter and the facets that _scope_for_matter asks for
ReadyToFormalize(m) ==
  /\ Known(m) # {}
  /\ \A i \in Known(m) : m.issues[i].state = "READY_TO_FORMALIZE" /\ m.issues[i].facets # {}
  /\ m.selected # {}

\* _validate_binding_provenance
MutUnbound(s) == s.db # NoDatabase
BoundTo(s) == evbind.db = s.db /\ \A x \in s.matter.selected : x.db = s.db

-----------------------------------------------------------------------------
(* create_formalization_snapshot                                           *)

\* The caller's expected_revision is the current one; otherwise it raises.
FormalizeLoad(f) ==
  /\ At(f, "idle")
  /\ ReadyToFormalize(matter)
  /\ GoWith(f, "provenance", [NoSnapshot EXCEPT !.matter = matter])
  /\ StoreUntouched
  /\ UNCHANGED <<snapshots, runs, bound, current, lock, faults>>

ReadProvenance(f) ==
  /\ At(f, "provenance")
  /\ EvidenceFinalized
  /\ GoWith(f, "binding", [fop[f].snap EXCEPT !.db = evidence])
  /\ StoreUntouched
  /\ UNCHANGED <<snapshots, runs, bound, current, lock, faults>>

CheckBinding(f) ==
  /\ At(f, "binding")
  /\ BoundTo(fop[f].snap)
  /\ GoTo(f, "text")
  /\ StoreUntouched
  /\ UNCHANGED <<snapshots, runs, bound, current, lock, faults>>

\* _selected_evidence opens the file again.  Another database may hold records
\* of the same identity with another text.
ReadText(f) ==
  /\ At(f, "text")
  /\ EvidenceFinalized
  /\ GoWith(f, "persist", [fop[f].snap EXCEPT !.text = evidence])
  /\ StoreUntouched
  /\ UNCHANGED <<snapshots, runs, bound, current, lock, faults>>

\* The Matter, the evidence and the binding are still those that were read.
StillCurrent(s) == matter = s.matter /\ evidence = s.db /\ BoundTo(s)

\* The transaction, and the record read back.
PersistSnapshot(f) ==
  /\ At(f, "persist")
  /\ WriteLockFree
  /\ StillCurrent(fop[f].snap)
  /\ snapshots' = snapshots \cup {fop[f].snap}
  /\ GoTo(f, "validate")
  /\ StoreUntouched
  /\ UNCHANGED <<runs, bound, current, lock, faults>>

-----------------------------------------------------------------------------
(* formalize_snapshot                                                      *)

\* The database file is the one the snapshot names (_validated_evidence_provenance).
EvidenceOf(s) == evidence = s.db

\* The Matter still has the snapshot's revision.
MutAnyRevision(s) == TRUE
OfRevision(s) == matter.revision = s.matter.revision

\* _validate_persisted_snapshot: revision and provenance ...
ValidateSnapshot(f) ==
  /\ At(f, "validate")
  /\ OfRevision(fop[f].snap)
  /\ EvidenceOf(fop[f].snap)
  /\ GoTo(f, "reread")
  /\ StoreUntouched
  /\ UNCHANGED <<snapshots, runs, bound, current, lock, faults>>

\* ... the selected evidence compared with the snapshot's ...
MutTrustText(s) == TRUE
SameText(s) == evidence = s.text

RereadText(f) ==
  /\ At(f, "reread")
  /\ SameText(fop[f].snap)
  /\ GoTo(f, "recheck")
  /\ StoreUntouched
  /\ UNCHANGED <<snapshots, runs, bound, current, lock, faults>>

\* ... and the provenance again.
RecheckProvenance(f) ==
  /\ At(f, "recheck")
  /\ EvidenceOf(fop[f].snap)
  /\ GoTo(f, "begin")
  /\ StoreUntouched
  /\ UNCHANGED <<snapshots, runs, bound, current, lock, faults>>

\* store.transaction() around _prepare_or_resume: no store write until it ends.
BeginPrepare(f) ==
  /\ At(f, "begin")
  /\ WriteLockFree
  /\ OfRevision(fop[f].snap)
  /\ lock' = f
  /\ GoTo(f, IF RunExists(fop[f].snap) THEN "existing" ELSE "new")
  /\ StoreUntouched
  /\ UNCHANGED <<snapshots, runs, bound, current, faults>>

\* prepare_review_question_from_request creates the directory ...
CreateRun(f) ==
  /\ At(f, "new")
  /\ EvidenceOf(fop[f].snap)
  /\ ~RunExists(fop[f].snap)
  /\ SetRun(fop[f].snap, "partial")
  /\ fop' = [fop EXCEPT ![f] = [pc |-> "artifacts", snap |-> fop[f].snap, created |-> TRUE]]
  /\ StoreUntouched
  /\ UNCHANGED <<snapshots, bound, current, lock, faults>>

\* ... writes its artifacts and its initial events, the first and then the others.
WriteRun(f) ==
  /\ \E x \in {<<"artifacts", "events">>, <<"events", "started">>, <<"started", "resume">>} :
       /\ At(f, x[1])
       /\ SetRun(fop[f].snap,
                 CASE x[1] = "artifacts" -> "artifacts"
                   [] x[1] = "events" -> "started"
                   [] OTHER -> "prepared")
       /\ GoTo(f, x[2])
  /\ StoreUntouched
  /\ UNCHANGED <<snapshots, bound, current, lock, faults>>

\* _validate_prepared_artifacts needs every artifact of the existing run.
CheckExistingRun(f) ==
  /\ At(f, "existing")
  /\ EvidenceOf(fop[f].snap)
  /\ ~HasRun(fop[f].snap, "partial")
  /\ GoTo(f, "resume")
  /\ StoreUntouched
  /\ UNCHANGED <<snapshots, runs, bound, current, lock, faults>>

\* _resume_state: an empty journal is initialized, a started one refused.
ResumeRun(f) ==
  /\ At(f, "resume")
  /\ EvidenceOf(fop[f].snap)
  /\ ~HasRun(fop[f].snap, "started")
  /\ GoTo(f, IF HasRun(fop[f].snap, "artifacts") THEN "events" ELSE "final_check")
  /\ StoreUntouched
  /\ UNCHANGED <<snapshots, runs, bound, current, lock, faults>>

\* The provenance once more, and the end of the transaction.
FinishFormalize(f) ==
  /\ At(f, "final_check")
  /\ EvidenceOf(fop[f].snap)
  /\ lock' = NoProc
  /\ fop' = [fop EXCEPT ![f] = NotFormalizing]
  /\ StoreUntouched
  /\ UNCHANGED <<snapshots, runs, bound, current, faults>>

\* A directory this call created is removed (the handler of
\* prepare_review_question_from_request, _discard_new_run).
MutDiscardAny(f) == {r \in runs : r.snap # fop[f].snap}
DiscardedBy(f) == IF fop[f].created THEN {r \in runs : r.snap # fop[f].snap} ELSE runs

ReleasedBy(f) == IF lock = f THEN NoProc ELSE lock

\* A check fails or a write raises, and the transaction is rolled back.
FormalizeRaises(f) ==
  /\ ~At(f, "idle")
  /\ runs' = DiscardedBy(f)
  /\ lock' = ReleasedBy(f)
  /\ fop' = [fop EXCEPT ![f] = NotFormalizing]
  /\ StoreUntouched
  /\ UNCHANGED <<snapshots, bound, current, faults>>

InjectFault == faults < MaxFaults /\ faults' = faults + 1

\* The process dies: SQLite drops its lock, the directory stays.
FormalizeCrash(f) ==
  /\ ~At(f, "idle")
  /\ InjectFault
  /\ lock' = ReleasedBy(f)
  /\ fop' = [fop EXCEPT ![f] = NotFormalizing]
  /\ StoreUntouched
  /\ UNCHANGED <<snapshots, runs, bound, current>>

-----------------------------------------------------------------------------
(* The finished run.                                                       *)

\* Track A, Track B and the finalizer (module ReviewRun), under the run's database.
RunFinalizes(s) ==
  /\ HasRun(s, "prepared")
  /\ EvidenceOf(s)
  /\ SetRun(s, "final")
  /\ StoreUntouched
  /\ UNCHANGED <<snapshots, bound, current, lock, fop, faults>>

\* verify_formal_run_authority: the final artifacts agree with each other, and the
\* request is the one the persisted snapshot gives under the present database.
Verified(s) == HasRun(s, "final") /\ EvidenceOf(s)

\* bind_formal_run: everything is verified again inside the transaction; one
\* binding per snapshot and per run.
BindFormalRun(s) ==
  /\ WriteLockFree
  /\ Verified(s)
  /\ s \notin bound
  /\ bound' = bound \cup {s}
  /\ StoreUntouched
  /\ UNCHANGED <<snapshots, runs, current, lock, fop, faults>>

\* bind_current_review: a run with Matter lineage needs its persisted binding.
PersistedBinding(s) == s \in bound

BindCurrentReview(s) ==
  /\ Verified(s)
  /\ PersistedBinding(s)
  /\ current' = s
  /\ StoreUntouched
  /\ UNCHANGED <<snapshots, runs, bound, lock, fop, faults>>

-----------------------------------------------------------------------------

FormalizeStep(f) ==
  \/ FormalizeLoad(f) \/ ReadProvenance(f) \/ CheckBinding(f) \/ ReadText(f)
  \/ PersistSnapshot(f) \/ ValidateSnapshot(f) \/ RereadText(f)
  \/ RecheckProvenance(f) \/ BeginPrepare(f) \/ CreateRun(f) \/ WriteRun(f)
  \/ CheckExistingRun(f) \/ ResumeRun(f) \/ FinishFormalize(f)
  \/ FormalizeRaises(f) \/ FormalizeCrash(f)

\* The other processes: a commit waits for the write lock.
MatterStep ==
  /\ \E c \in Clients : ClientStep(c)
  /\ WriteLockFree \/ matter' = matter
  /\ UNCHANGED fvars

EvidenceStep ==
  /\ InjectFault
  /\ \E d \in Databases : ReplaceEvidence(d)
  /\ UNCHANGED <<snapshots, runs, bound, current, lock, fop>>

FormalNext ==
  \/ \E f \in Formalizers : FormalizeStep(f)
  \/ \E s \in snapshots : RunFinalizes(s) \/ BindFormalRun(s) \/ BindCurrentReview(s)
  \/ MatterStep
  \/ EvidenceStep

FormalSpec == FormalInit /\ [][FormalNext]_allvars

-----------------------------------------------------------------------------
(* Properties.                                                             *)

\* A snapshot is the Matter of one revision: what the journal gives at that
\* revision, ready, bound to the snapshot's database, and with evidence selected
\* from no other ("Freeze one ready Matter revision with exact finalized evidence
\* provenance"), although it was put together from reads of the store and of a
\* file that both may have changed in between.
SnapshotIsRevision ==
  \A s \in snapshots :
    /\ s.matter.revision \in 1..matter.revision
    /\ LET r == Replayed[s.matter.revision - 1]
       IN r.matter = s.matter /\ r.evbind.db = s.db
    /\ ReadyToFormalize(s.matter)
    /\ \A x \in s.matter.selected : x.db = s.db

\* A run is prepared only for the revision the Matter has at that moment: the
\* write lock that formalize_snapshot holds keeps every other commit out from the
\* check to the last initial event.
RunOfCurrentRevision ==
  [][\A r \in runs' \ runs :
       r.status # "final" => r.snap.matter.revision = matter'.revision]_allvars

\* The evidence text in a run's request is that of the database the request
\* names, unless the file was swapped and put back around both reads of the text
\* (ReadText and RereadText): a provenance check that passes before and after one
\* read says nothing of the file during it, but a foreign text takes four
\* replacements to get into a run.
RunTextIsBound == \A r \in runs : r.snap.text # r.snap.db => faults >= 4

\* The lineage the store records is never left without its run: no failing
\* formalization removes a run that was bound or selected as the current review.
BoundRunsStay ==
  /\ \A s \in bound : s \in snapshots /\ HasRun(s, "final")
  /\ current # NoSnapshot => current \in bound

-----------------------------------------------------------------------------
(* The invariant the proofs use.                                           *)

\* Where formalize_snapshot holds the write lock.
Preparing == {"new", "existing", "artifacts", "events", "started", "resume", "final_check"}

\* The lock protects one preparation, of the current revision, and a directory
\* is to be discarded only by the process that created it under the lock.
LockInv(f) ==
  /\ lock = f <=> fop[f].pc \in Preparing
  /\ lock = f => matter.revision = fop[f].snap.matter.revision
  /\ fop[f].created => lock = f /\ fop[f].snap \notin bound
  /\ At(f, "artifacts") => HasRun(fop[f].snap, "partial")
  /\ At(f, "events") => HasRun(fop[f].snap, "artifacts")
  /\ At(f, "started") => HasRun(fop[f].snap, "started")

\* At least n replacements so far, and one more when the file is not d now.
Swaps(n, d) == faults >= n /\ (evidence # d => faults >= n + 1)

\* How often the file was replaced when the text being formalized is foreign.
TextInv(f, s) ==
  /\ fop[f].pc \in {"binding", "text"} => Swaps(0, s.db)
  /\ s.text # s.db =>
       /\ At(f, "persist") => Swaps(1, s.text)
       /\ fop[f].pc \in {"validate", "reread"} => Swaps(2, s.db)
       /\ At(f, "recheck") => Swaps(3, s.text)
       /\ fop[f].pc \in {"begin"} \cup Preparing => faults >= 4

\* Up to the snapshot's transaction the Matter in hand is the ready one that was
\* loaded.
Gathering == {"provenance", "binding", "text", "persist"}

LoadedReady ==
  \A f \in Formalizers :
    fop[f].pc \in Gathering => ReadyToFormalize(fop[f].snap.matter)

FormalInv ==
  /\ FormalTypeOK
  /\ \A r, q \in runs : r.snap = q.snap => r = q
  /\ \A f \in Formalizers : LockInv(f) /\ TextInv(f, fop[f].snap)
  /\ RunTextIsBound
  /\ BoundRunsStay

\* Snapshots and the store's history together.
SnapshotInv == FormalInv /\ RebuildInv /\ LoadedReady /\ SnapshotIsRevision
=============================================================================

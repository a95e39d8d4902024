------------------------ MODULE FormalizationProofs ------------------------
(***************************************************************************)
(* Proofs about Formalization, for any number of formalizing processes, of *)
(* clients of the store, of databases and of faults.                       *)
(***************************************************************************)
EXTENDS Formalization, MatterStoreProofs

USE FormalizationAssumption

-----------------------------------------------------------------------------
(* What the steps outside a formalization leave alone.                     *)

\* No command of the store touches the evidence file.
LEMMA ClientKeepsEvidence ==
  ASSUME NEW c \in Clients, ClientStep(c)
  PROVE  evidence' = evidence
BY DEF ClientStep, Create, Rename, Status, ChangeIssueState, AddIssue,
       SetRequiredFacets, RegisterDependency, InvalidateLoad, InvalidateImpact,
       BindProvenance, BindLoad, BindExisting, SelectSearch, SelectLoad,
       SelectPromote, AppendMatterEvent, Abandon, Requests, Returns

\* What a formalization does to the store is nothing; every other step is one of
\* the store's own.
LEMMA FormalStoreStep ==
  ASSUME [FormalNext]_allvars
  PROVE  [Next]_vars
<1>1. CASE MatterStep
  BY <1>1 DEF MatterStep, Next
<1>2. CASE EvidenceStep
  BY <1>2 DEF EvidenceStep, Next
<1>3. ASSUME NEW f \in Formalizers, FormalizeStep(f)
      PROVE  UNCHANGED vars
  BY <1>3 DEF FormalizeStep, StoreUntouched, FormalizeLoad, ReadProvenance,
     CheckBinding, ReadText, PersistSnapshot, ValidateSnapshot, RereadText,
     RecheckProvenance, BeginPrepare, CreateRun, WriteRun, CheckExistingRun,
     ResumeRun, FinishFormalize, FormalizeRaises, FormalizeCrash
<1>4. ASSUME NEW s \in snapshots, RunFinalizes(s) \/ BindFormalRun(s) \/ BindCurrentReview(s)
      PROVE  UNCHANGED vars
  BY <1>4 DEF StoreUntouched, RunFinalizes, BindFormalRun, BindCurrentReview
<1>5. CASE UNCHANGED allvars
  BY <1>5 DEF allvars
<1> QED
  BY <1>1, <1>2, <1>3, <1>4, <1>5 DEF FormalNext

\* The Matter, the store's journal and the clients keep their types.
LEMMA StoreTypes ==
  ASSUME TypeOK, FormalNext
  PROVE  TypeOK'
BY FormalStoreStep, TypeStep

\* What a formalization and the runs do keeps the other types.
LEMMA FormalTypeStep ==
  ASSUME FormalTypeOK, [FormalNext]_allvars
  PROVE  FormalTypeOK'
<1> DEFINE Rest == /\ snapshots \subseteq Snapshot
                   /\ runs \subseteq [snap: Snapshot, status: RunStatus]
                   /\ bound \subseteq Snapshot
                   /\ current \in Snapshot
                   /\ lock \in Formalizers \cup {NoProc}
                   /\ fop \in [Formalizers -> FormalizeOp]
                   /\ faults \in 0..MaxFaults
<1>0. TypeOK /\ Rest
  BY DEF FormalTypeOK
<1>1. CASE UNCHANGED allvars
  BY <1>0, <1>1, TypeStep DEF FormalTypeOK, allvars, fvars
<1>2. CASE FormalNext
  <2>1. TypeOK'
    BY <1>0, <1>2, StoreTypes
  <2>2. matter \in ReviewMatter /\ evidence \in Databases \cup {NoDatabase}
    BY <1>0 DEF TypeOK
  <2>n. NoMatter \in ReviewMatter
    BY DEF NoMatter, NoIssue, ReviewMatter, Issue, WorkStates
  <2>3. NotFormalizing \in FormalizeOp
    BY <2>n DEF NotFormalizing, FormalizeOp, NoSnapshot, Snapshot
  <2>4. ASSUME NEW f \in Formalizers, FormalizeStep(f)
        PROVE  Rest'
    <3>0. fop[f] \in FormalizeOp /\ fop[f].snap \in Snapshot
      BY <1>0 DEF FormalizeOp
    <3>1. CASE FormalizeLoad(f)
      <4>1. [NoSnapshot EXCEPT !.matter = matter] \in Snapshot
        BY <2>2 DEF NoSnapshot, Snapshot
      <4> QED
        BY <1>0, <3>1, <4>1 DEF FormalizeLoad, GoWith, FormalizeOp
    <3>2. CASE ReadProvenance(f)
      <4>1. [fop[f].snap EXCEPT !.db = evidence] \in Snapshot
        BY <2>2, <3>0 DEF Snapshot
      <4> QED
        BY <1>0, <3>2, <4>1 DEF ReadProvenance, GoWith, FormalizeOp
    <3>3. CASE ReadText(f)
      <4>1. [fop[f].snap EXCEPT !.text = evidence] \in Snapshot
        BY <2>2, <3>0 DEF Snapshot
      <4> QED
        BY <1>0, <3>3, <4>1 DEF ReadText, GoWith, FormalizeOp
    <3>4. CASE CheckBinding(f) \/ ValidateSnapshot(f) \/ RereadText(f) \/ RecheckProvenance(f)
               \/ CheckExistingRun(f) \/ ResumeRun(f)
      BY <1>0, <3>4 DEF CheckBinding, ValidateSnapshot, RereadText, RecheckProvenance,
         CheckExistingRun, ResumeRun, GoTo, FormalizeOp
    <3>5. CASE PersistSnapshot(f)
      BY <1>0, <3>0, <3>5 DEF PersistSnapshot, GoTo, FormalizeOp
    <3>6. CASE BeginPrepare(f)
      BY <1>0, <3>6 DEF BeginPrepare, GoTo, FormalizeOp
    <3>7. CASE CreateRun(f)
      BY <1>0, <3>0, <3>7 DEF CreateRun, SetRun, FormalizeOp, RunStatus
    <3>8. CASE WriteRun(f)
      BY <1>0, <3>0, <3>8 DEF WriteRun, SetRun, GoTo, FormalizeOp, RunStatus
    <3>9. CASE FinishFormalize(f)
      BY <1>0, <2>3, <3>9 DEF FinishFormalize
    <3>10. CASE FormalizeRaises(f)
      BY <1>0, <2>3, <3>10 DEF FormalizeRaises, DiscardedBy, ReleasedBy
    <3>11. CASE FormalizeCrash(f)
      BY <1>0, <2>3, <3>11 DEF FormalizeCrash, InjectFault, ReleasedBy
    <3> QED
      BY <2>4, <3>1, <3>2, <3>3, <3>4, <3>5, <3>6, <3>7, <3>8, <3>9, <3>10, <3>11
         DEF FormalizeStep
  <2>5. ASSUME NEW s \in snapshots, RunFinalizes(s) \/ BindFormalRun(s) \/ BindCurrentReview(s)
        PROVE  Rest'
    BY <1>0, <2>5 DEF RunFinalizes, BindFormalRun, BindCurrentReview, SetRun, RunStatus
  <2>6. ASSUME MatterStep PROVE Rest'
    BY <1>0, <2>6 DEF MatterStep, fvars
  <2>7. ASSUME EvidenceStep PROVE Rest'
    BY <1>0, <2>7 DEF EvidenceStep, InjectFault
  <2> HIDE DEF Rest
  <2>8. Rest'
    BY <1>2, <2>4, <2>5, <2>6, <2>7 DEF FormalNext
  <2> QED
    BY <2>1, <2>8 DEF FormalTypeOK, Rest
<1> QED
  BY <1>1, <1>2

\* The initial state is well-typed.
LEMMA FormalInitType == ASSUME FormalInit PROVE FormalTypeOK
<1>1. TypeOK
  BY InitType DEF FormalInit
<1>2. NoMatter \in ReviewMatter
  BY DEF NoMatter, NoIssue, ReviewMatter, Issue, WorkStates
<1>3. NoSnapshot \in Snapshot /\ NotFormalizing \in FormalizeOp
  BY <1>2 DEF NotFormalizing, FormalizeOp, NoSnapshot, Snapshot
<1> QED
  BY <1>1, <1>3 DEF FormalInit, FormalTypeOK

\* The store, the snapshots, the runs, the bindings and every formalization in
\* progress keep their types.
THEOREM FormalTypeCorrect == FormalSpec => []FormalTypeOK
BY FormalInitType, FormalTypeStep, PTL DEF FormalSpec

-----------------------------------------------------------------------------
(* The inductive invariant.                                                *)

\* A formalization keeps what the invariant says of every process.
LEMMA ProcessStep ==
  ASSUME FormalInv, NEW f \in Formalizers, FormalizeStep(f), NEW g \in Formalizers
  PROVE  LockInv(g)' /\ TextInv(g, fop[g].snap)'
<1>0. /\ fop \in [Formalizers -> FormalizeOp]
      /\ LockInv(f) /\ TextInv(f, fop[f].snap) /\ LockInv(g) /\ TextInv(g, fop[g].snap)
      /\ faults \in Nat
      /\ \A s \in bound : HasRun(s, "final")
      /\ lock \in Formalizers \cup {NoProc}
      /\ \A r, q \in runs : r.snap = q.snap => r = q
  BY DEF FormalInv, FormalTypeOK, BoundRunsStay
<1>1. CASE FormalizeLoad(f)
  BY <1>0, <1>1 DEF FormalizeLoad, GoWith, StoreUntouched, vars, LockInv, TextInv, Swaps,
     At, HasRun, Preparing, FormalizeOp
<1>2. CASE ReadProvenance(f)
  BY <1>0, <1>2 DEF ReadProvenance, GoWith, StoreUntouched, vars, LockInv, TextInv, Swaps,
     At, HasRun, Preparing, FormalizeOp, Snapshot
<1>3. CASE ReadText(f)
  BY <1>0, <1>3 DEF ReadText, GoWith, StoreUntouched, vars, LockInv, TextInv, Swaps,
     At, HasRun, Preparing, FormalizeOp, Snapshot
<1>4. CASE CheckBinding(f)
  BY <1>0, <1>4 DEF CheckBinding, GoTo, StoreUntouched, vars, LockInv, TextInv, Swaps,
     At, HasRun, Preparing, FormalizeOp
<1>5. CASE PersistSnapshot(f)
  BY <1>0, <1>5 DEF PersistSnapshot, StillCurrent, GoTo, StoreUntouched, vars, LockInv,
     TextInv, Swaps, At, HasRun, Preparing, FormalizeOp
<1>6. CASE ValidateSnapshot(f) \/ RereadText(f) \/ RecheckProvenance(f)
  BY <1>0, <1>6 DEF ValidateSnapshot, RereadText, RecheckProvenance, SameText, EvidenceOf,
     GoTo, StoreUntouched, vars, LockInv, TextInv, Swaps, At, HasRun, Preparing, FormalizeOp
<1>7. CASE BeginPrepare(f)
  BY <1>0, <1>7 DEF BeginPrepare, OfRevision, WriteLockFree, GoTo, StoreUntouched, vars, LockInv,
     TextInv, Swaps, At, HasRun, Preparing, FormalizeOp
<1>8. CASE CreateRun(f)
  <2>1. fop[f].snap \notin bound
    BY <1>0, <1>8 DEF CreateRun, RunExists, HasRun, RunStatus
  <2> QED
    BY <1>0, <1>8, <2>1 DEF CreateRun, SetRun, StoreUntouched, vars, LockInv, TextInv, Swaps,
       At, HasRun, Preparing, FormalizeOp
<1>9. CASE WriteRun(f)
  BY <1>0, <1>9 DEF WriteRun, SetRun, GoTo, StoreUntouched, vars, LockInv, TextInv, Swaps,
     At, HasRun, Preparing, FormalizeOp
<1>10. CASE CheckExistingRun(f) \/ ResumeRun(f)
  BY <1>0, <1>10 DEF CheckExistingRun, ResumeRun, GoTo, StoreUntouched, vars, LockInv,
     TextInv, Swaps, At, HasRun, Preparing, FormalizeOp
<1>11. CASE FinishFormalize(f)
  BY <1>0, <1>11 DEF FinishFormalize, NotFormalizing, StoreUntouched, vars, LockInv,
     TextInv, Swaps, At, HasRun, Preparing, FormalizeOp
<1>12. CASE FormalizeRaises(f) \/ FormalizeCrash(f)
  BY <1>0, <1>12 DEF FormalizeRaises, FormalizeCrash, InjectFault, DiscardedBy, ReleasedBy,
     NotFormalizing, StoreUntouched, vars, LockInv, TextInv, Swaps, At, HasRun, Preparing,
     FormalizeOp
<1> QED
  BY <1>1, <1>2, <1>3, <1>4, <1>5, <1>6, <1>7, <1>8, <1>9, <1>10, <1>11, <1>12
     DEF FormalizeStep

\* A formalization keeps one status per run and every bound run.
LEMMA RunsStep ==
  ASSUME FormalInv, NEW f \in Formalizers, FormalizeStep(f)
  PROVE  /\ (\A r, q \in runs : r.snap = q.snap => r = q)'
         /\ RunTextIsBound'
         /\ BoundRunsStay'
<1>0. /\ fop \in [Formalizers -> FormalizeOp]
      /\ LockInv(f) /\ TextInv(f, fop[f].snap)
      /\ faults \in Nat
      /\ \A r, q \in runs : r.snap = q.snap => r = q
      /\ RunTextIsBound /\ BoundRunsStay
  BY DEF FormalInv, FormalTypeOK
<1>1. CASE UNCHANGED <<snapshots, runs, bound, current, faults>>
  BY <1>0, <1>1 DEF RunTextIsBound, BoundRunsStay, HasRun
<1>2. CASE PersistSnapshot(f)
  BY <1>0, <1>2 DEF PersistSnapshot, RunTextIsBound, BoundRunsStay, HasRun
<1>3. CASE CreateRun(f)
  <2>1. fop[f].snap \notin bound
    BY <1>0, <1>3 DEF CreateRun, RunExists, BoundRunsStay, HasRun, RunStatus
  <2> QED
    BY <1>0, <1>3, <2>1 DEF CreateRun, SetRun, TextInv, At, Preparing, RunTextIsBound,
       BoundRunsStay, HasRun
<1>4. CASE WriteRun(f)
  <2>1. fop[f].snap \notin bound
    <3>1. PICK x \in {"partial", "artifacts", "started"} : HasRun(fop[f].snap, x)
      BY <1>0, <1>4 DEF WriteRun, LockInv, At
    <3>2. [snap |-> fop[f].snap, status |-> x] # [snap |-> fop[f].snap, status |-> "final"]
      BY <3>1
    <3> QED
      BY <1>0, <3>1, <3>2 DEF BoundRunsStay, HasRun
  <2>2. PICK status : SetRun(fop[f].snap, status)
    BY <1>4 DEF WriteRun
  <2>3. fop[f].pc \in Preparing /\ UNCHANGED <<snapshots, bound, current, faults>>
    BY <1>4 DEF WriteRun, At, Preparing
  <2>4. fop[f].snap.text # fop[f].snap.db => faults >= 4
    BY <1>0, <2>3 DEF TextInv
  <2> QED
    BY <1>0, <2>1, <2>2, <2>3, <2>4 DEF SetRun, RunTextIsBound, BoundRunsStay, HasRun
<1>5. CASE FormalizeRaises(f)
  BY <1>0, <1>5 DEF FormalizeRaises, DiscardedBy, LockInv, RunTextIsBound, BoundRunsStay,
     HasRun
<1>6. CASE FormalizeCrash(f)
  BY <1>0, <1>6 DEF FormalizeCrash, InjectFault, RunTextIsBound, BoundRunsStay, HasRun
<1>7. \/ UNCHANGED <<snapshots, runs, bound, current, faults>>
      \/ PersistSnapshot(f) \/ CreateRun(f) \/ WriteRun(f) \/ FormalizeRaises(f)
      \/ FormalizeCrash(f)
  BY DEF FormalizeStep, FormalizeLoad, ReadProvenance, CheckBinding, ReadText,
     ValidateSnapshot, RereadText, RecheckProvenance, BeginPrepare, CheckExistingRun,
     ResumeRun, FinishFormalize
<1> QED
  BY <1>1, <1>2, <1>3, <1>4, <1>5, <1>6, <1>7

\* The invariant is inductive.
LEMMA FormalStep ==
  ASSUME FormalInv, [FormalNext]_allvars
  PROVE  FormalInv'
<1>0. FormalTypeOK'
  BY FormalTypeStep DEF FormalInv
<1>t. /\ fop \in [Formalizers -> FormalizeOp]
      /\ faults \in Nat
      /\ \A r, q \in runs : r.snap = q.snap => r = q
      /\ \A g \in Formalizers : LockInv(g) /\ TextInv(g, fop[g].snap)
      /\ RunTextIsBound /\ BoundRunsStay
      /\ lock \in Formalizers \cup {NoProc}
  BY DEF FormalInv, FormalTypeOK
<1>1. ASSUME NEW f \in Formalizers, FormalizeStep(f)
      PROVE  FormalInv'
  BY <1>0, <1>1, ProcessStep, RunsStep DEF FormalInv
<1>2. ASSUME NEW s \in snapshots, RunFinalizes(s)
      PROVE  FormalInv'
  BY <1>0, <1>t, <1>2 DEF RunFinalizes, SetRun, StoreUntouched, vars, FormalInv, LockInv,
     TextInv, Swaps, At, HasRun, RunTextIsBound, BoundRunsStay
<1>3. ASSUME NEW s \in snapshots, BindFormalRun(s)
      PROVE  FormalInv'
  BY <1>0, <1>t, <1>3 DEF BindFormalRun, Verified, WriteLockFree, StoreUntouched, vars, FormalInv,
     LockInv, TextInv, Swaps, At, HasRun, RunTextIsBound, BoundRunsStay
<1>4. ASSUME NEW s \in snapshots, BindCurrentReview(s)
      PROVE  FormalInv'
  BY <1>0, <1>t, <1>4 DEF BindCurrentReview, PersistedBinding, StoreUntouched, vars, FormalInv, LockInv,
     TextInv, Swaps, At, HasRun, RunTextIsBound, BoundRunsStay
<1>5. CASE MatterStep
  <2>1. evidence' = evidence /\ (lock = NoProc \/ matter' = matter) /\ UNCHANGED fvars
    BY <1>5, ClientKeepsEvidence DEF MatterStep, WriteLockFree
  <2> QED
    BY <1>0, <1>t, <2>1 DEF fvars, FormalInv, LockInv, TextInv, Swaps, At, HasRun,
       RunTextIsBound, BoundRunsStay
<1>6. CASE EvidenceStep
  <2>1. matter' = matter /\ faults' = faults + 1
        /\ UNCHANGED <<snapshots, runs, bound, current, lock, fop>>
    BY <1>6 DEF EvidenceStep, InjectFault, ReplaceEvidence
  <2> QED
    BY <1>0, <1>t, <2>1 DEF FormalInv, LockInv, TextInv, Swaps, At, HasRun,
       RunTextIsBound, BoundRunsStay
<1>7. CASE UNCHANGED allvars
  BY <1>0, <1>t, <1>7 DEF allvars, vars, fvars, FormalInv, LockInv, TextInv, Swaps, At,
     HasRun, RunTextIsBound, BoundRunsStay
<1> QED
  BY <1>1, <1>2, <1>3, <1>4, <1>5, <1>6, <1>7 DEF FormalNext

\* Before the first formalization there is nothing to protect.
LEMMA FormalInvInit ==
  ASSUME FormalInit
  PROVE  FormalInv
<1>1. FormalTypeOK
  BY FormalInitType
<1> QED
  BY <1>1 DEF FormalInit, FormalInv, LockInv, TextInv, NotFormalizing, Preparing, At,
     RunTextIsBound, BoundRunsStay

\* The invariant of the formalization: the lock belongs to the one process that
\* prepares a run, for the current revision, and a foreign text has cost as many
\* replacements of the file as there were checks to get past.
THEOREM FormalInvariant == FormalSpec => []FormalInv
BY FormalInvInit, FormalStep, PTL DEF FormalSpec

\* The text in a run is that of the database the run names, unless the file was
\* replaced four times (RereadText and RecheckProvenance after ReadText).
THEOREM RunTextIsBoundHolds == FormalSpec => []RunTextIsBound
<1>1. FormalInv => RunTextIsBound
  BY DEF FormalInv
<1> QED
  BY <1>1, FormalInvariant, PTL

\* No failing formalization removes a run that is bound or is the current review,
\* however many formalizations, bindings and crashes there are: only the holder
\* of the write lock discards, and binding needs the same lock.
THEOREM BoundRunsStayHolds == FormalSpec => []BoundRunsStay
<1>1. FormalInv => BoundRunsStay
  BY DEF FormalInv
<1> QED
  BY <1>1, FormalInvariant, PTL

\* A run is prepared for the revision the Matter has at that moment: no commit
\* gets between the check in formalize_snapshot and the last initial event.
THEOREM RunOfCurrentRevisionHolds == FormalSpec => RunOfCurrentRevision
<1> DEFINE OfCurrent == \A r \in runs' \ runs :
                          r.status # "final" => r.snap.matter.revision = matter'.revision
<1>1. ASSUME FormalInv, FormalNext
      PROVE  OfCurrent
  <2>1. ASSUME NEW f \in Formalizers, CreateRun(f) \/ WriteRun(f)
        PROVE  OfCurrent
    <3>1. fop[f].pc \in Preparing
      BY <2>1 DEF CreateRun, WriteRun, At, Preparing
    <3>2. matter.revision = fop[f].snap.matter.revision
      BY <3>1, <1>1 DEF FormalInv, LockInv
    <3>3. PICK status : SetRun(fop[f].snap, status)
      BY <2>1 DEF CreateRun, WriteRun
    <3>4. matter' = matter
      BY <2>1 DEF CreateRun, WriteRun, StoreUntouched, vars
    <3> QED
      BY <3>2, <3>3, <3>4 DEF SetRun
  <2>2. ASSUME NEW s \in snapshots, RunFinalizes(s)
        PROVE  OfCurrent
    BY <2>2 DEF RunFinalizes, SetRun
  <2>3. CASE runs' \subseteq runs
    BY <2>3
  <2>4. ASSUME NEW f \in Formalizers, FormalizeStep(f)
        PROVE  CreateRun(f) \/ WriteRun(f) \/ runs' \subseteq runs
    BY <2>4 DEF FormalizeStep, FormalizeLoad, ReadProvenance, CheckBinding, ReadText,
       PersistSnapshot, ValidateSnapshot, RereadText, RecheckProvenance, BeginPrepare,
       CheckExistingRun, ResumeRun, FinishFormalize, FormalizeRaises, FormalizeCrash,
       DiscardedBy
  <2>5. ASSUME NEW s \in snapshots, BindFormalRun(s) \/ BindCurrentReview(s)
        PROVE  runs' \subseteq runs
    BY <2>5 DEF BindFormalRun, BindCurrentReview
  <2>6. ASSUME MatterStep \/ EvidenceStep
        PROVE  runs' \subseteq runs
    BY <2>6 DEF MatterStep, EvidenceStep, fvars
  <2> HIDE DEF OfCurrent
  <2> QED
    BY <1>1, <2>1, <2>2, <2>3, <2>4, <2>5, <2>6 DEF FormalNext
<1>2. FormalInv /\ [FormalNext]_allvars => [OfCurrent]_allvars
  BY <1>1
<1> QED
  BY <1>2, FormalInvariant, PTL DEF FormalSpec, RunOfCurrentRevision

-----------------------------------------------------------------------------
(* Snapshots against the history of the Matter.                            *)

\* Formalizing implements the store: seen from matter.sqlite, formalizations,
\* runs and their bindings do nothing.
THEOREM FormalizationKeepsStore == FormalSpec => Spec
<1>1. FormalInit => Init
  BY DEF FormalInit
<1> QED
  BY <1>1, FormalStoreStep, PTL DEF FormalSpec, Spec

\* What the journal gives at a revision it keeps giving.
LEMMA HistoryStays ==
  ASSUME RebuildInv, [Next]_vars, matter.revision > 0
  PROVE  /\ matter'.revision \in Nat /\ matter'.revision >= matter.revision
         /\ \A n \in 0..(matter.revision - 1) : Replayed'[n] = Replayed[n]
<1>1. TypeOK /\ matter.revision \in Nat /\ Len(journal) = matter.revision - 1
  BY DEF RebuildInv, StoreInv, TypeOK, ReviewMatter, JournalContiguous
<1>2. ~ \E c \in Clients, t \in Titles : Create(c, t)
  <2> SUFFICES ASSUME NEW c \in Clients, NEW t \in Titles, Create(c, t)
               PROVE  FALSE
    OBVIOUS
  <2>1. matter.revision = 0
    BY DEF Create, MatterAbsent
  <2> QED
    BY <1>1, <2>1
<1>3. UNCHANGED baseline
  BY <1>2, QuietBaseline
<1>4. ASSUME NEW c \in Clients, AppendMatterEvent(c)
      PROVE  /\ matter'.revision = matter.revision + 1
             /\ \A n \in 0..Len(journal) : Replayed'[n] = Replayed[n]
  <2>1. /\ op[c].event \in Event /\ matter' = ProjectEvent(matter, op[c].event)
        /\ journal' = Append(journal, Entry(op[c].event))
    BY <1>4, AppendJustified DEF RebuildInv
  <2>2. matter'.revision = matter.revision + 1
    BY <2>1 DEF ProjectEvent
  <2> QED
    BY <1>1, <1>3, <2>1, <2>2, ReplayOfAppended
<1>5. CASE ~ \E c \in Clients : AppendMatterEvent(c)
  <2>1. UNCHANGED <<matter, journal>>
    BY <1>2, <1>5, QuietStep
  <2> QED
    BY <1>1, <1>3, <2>1 DEF Replayed
<1> QED
  BY <1>1, <1>4, <1>5

\* The snapshots there are stay snapshots of their revisions.
LEMMA SnapshotsStay ==
  ASSUME RebuildInv, SnapshotIsRevision, [Next]_vars, NEW s \in snapshots
  PROVE  /\ s.matter.revision \in 1..matter'.revision
         /\ Replayed'[s.matter.revision - 1].matter = s.matter
         /\ Replayed'[s.matter.revision - 1].evbind.db = s.db
<1>1. /\ matter.revision \in Nat /\ s.matter.revision \in 1..matter.revision
      /\ Replayed[s.matter.revision - 1].matter = s.matter
      /\ Replayed[s.matter.revision - 1].evbind.db = s.db
  BY DEF SnapshotIsRevision, RebuildInv, StoreInv, TypeOK, ReviewMatter
<1>2. matter.revision > 0 /\ s.matter.revision - 1 \in 0..(matter.revision - 1)
  BY <1>1
<1> QED
  BY <1>1, <1>2, HistoryStays

\* A snapshot that its transaction lets through is the current revision.
LEMMA PersistedIsRevision ==
  ASSUME RebuildInv, NEW s, StillCurrent(s), ReadyToFormalize(s.matter)
  PROVE  /\ s.matter.revision \in 1..matter.revision
         /\ Replayed[s.matter.revision - 1].matter = s.matter
         /\ Replayed[s.matter.revision - 1].evbind.db = s.db
         /\ \A x \in s.matter.selected : x.db = s.db
<1>1. matter = s.matter /\ evbind.db = s.db /\ \A x \in s.matter.selected : x.db = s.db
  BY DEF StillCurrent, BoundTo
<1>2. matter.revision \in Nat /\ Len(journal) = IF matter.revision = 0 THEN 0 ELSE matter.revision - 1
  BY DEF RebuildInv, StoreInv, TypeOK, ReviewMatter, JournalContiguous
<1>3. matter.revision # 0
  <2> SUFFICES ASSUME matter.revision = 0 PROVE FALSE
    OBVIOUS
  <2>1. matter = NoMatter
    BY DEF RebuildInv, StoreInv, AbsentIsEmpty
  <2> QED
    BY <1>1, <2>1 DEF ReadyToFormalize, NoMatter
<1>4. Replay.matter = matter /\ Replay.evbind = evbind
  BY <1>2, <1>3 DEF RebuildInv, ReplayReproducesStore
<1> QED
  BY <1>1, <1>2, <1>3, <1>4 DEF Replay

\* A formalization moves its own process only.
LEMMA ProcessKeepsOthers ==
  ASSUME fop \in [Formalizers -> FormalizeOp], NEW f \in Formalizers, FormalizeStep(f),
         NEW g \in Formalizers, g # f
  PROVE  fop'[g] = fop[g]
<1> USE DEF GoTo, GoWith
<1>1. CASE FormalizeLoad(f) \/ ReadProvenance(f) \/ CheckBinding(f) \/ ReadText(f)
            \/ PersistSnapshot(f) \/ ValidateSnapshot(f)
  BY <1>1 DEF FormalizeLoad, ReadProvenance, CheckBinding, ReadText, PersistSnapshot,
     ValidateSnapshot
<1>2. CASE RereadText(f) \/ RecheckProvenance(f) \/ BeginPrepare(f) \/ CreateRun(f)
            \/ WriteRun(f)
  BY <1>2 DEF RereadText, RecheckProvenance, BeginPrepare, CreateRun, WriteRun
<1>3. CASE CheckExistingRun(f) \/ ResumeRun(f) \/ FinishFormalize(f)
            \/ FormalizeRaises(f) \/ FormalizeCrash(f)
  BY <1>3 DEF CheckExistingRun, ResumeRun, FinishFormalize, FormalizeRaises, FormalizeCrash
<1> QED
  BY <1>1, <1>2, <1>3 DEF FormalizeStep

\* Every step keeps the snapshots true to the history of the Matter.
LEMMA SnapshotStep ==
  ASSUME SnapshotInv, [FormalNext]_allvars
  PROVE  SnapshotInv'
<1>0. /\ FormalInv /\ RebuildInv /\ LoadedReady /\ SnapshotIsRevision
      /\ fop \in [Formalizers -> FormalizeOp]
  BY DEF SnapshotInv, FormalInv, FormalTypeOK
<1>1. FormalInv' /\ RebuildInv' /\ [Next]_vars
  BY <1>0, FormalStep, FormalStoreStep, RebuildStep
<1>2. SnapshotIsRevision'
  <2>1. ASSUME NEW s \in snapshots
        PROVE  /\ s.matter.revision \in 1..matter'.revision
               /\ Replayed'[s.matter.revision - 1].matter = s.matter
               /\ Replayed'[s.matter.revision - 1].evbind.db = s.db
               /\ ReadyToFormalize(s.matter)
               /\ \A x \in s.matter.selected : x.db = s.db
    BY <1>0, <1>1, SnapshotsStay DEF SnapshotIsRevision
  <2>2. ASSUME NEW f \in Formalizers, PersistSnapshot(f)
        PROVE  SnapshotIsRevision'
    <3> DEFINE s == fop[f].snap
    <3>1. /\ StillCurrent(s) /\ ReadyToFormalize(s.matter)
          /\ UNCHANGED <<matter, baseline, journal>> /\ snapshots' = snapshots \cup {s}
      BY <1>0, <2>2 DEF PersistSnapshot, StoreUntouched, vars, LoadedReady, Gathering, At
    <3> HIDE DEF s
    <3>2. /\ s.matter.revision \in 1..matter'.revision
          /\ Replayed'[s.matter.revision - 1].matter = s.matter
          /\ Replayed'[s.matter.revision - 1].evbind.db = s.db
          /\ \A x \in s.matter.selected : x.db = s.db
      BY <1>0, <3>1, PersistedIsRevision DEF Replayed
    <3> QED
      BY <2>1, <3>1, <3>2 DEF SnapshotIsRevision, ReadyToFormalize, Known
  <2>3. CASE ~ \E f \in Formalizers : PersistSnapshot(f)
    <3>1. snapshots' = snapshots
      BY <2>3 DEF FormalNext, FormalizeStep, FormalizeLoad, ReadProvenance, CheckBinding,
         ReadText, ValidateSnapshot, RereadText, RecheckProvenance, BeginPrepare, CreateRun,
         WriteRun, CheckExistingRun, ResumeRun, FinishFormalize, FormalizeRaises,
         FormalizeCrash, RunFinalizes, BindFormalRun, BindCurrentReview, MatterStep,
         EvidenceStep, allvars, fvars
    <3> QED
      BY <2>1, <3>1 DEF SnapshotIsRevision, ReadyToFormalize, Known
  <2> QED
    BY <2>2, <2>3
<1>3. LoadedReady'
  <2>1. ASSUME NEW f \in Formalizers, FormalizeStep(f), NEW g \in Formalizers,
               fop'[g].pc \in Gathering
        PROVE  ReadyToFormalize(fop'[g].snap.matter)
    <3>1. CASE g = f
      <4>1. CASE FormalizeLoad(f)
        BY <1>0, <2>1, <3>1, <4>1 DEF FormalizeLoad, GoWith, NoSnapshot
      <4>2. CASE ReadProvenance(f) \/ CheckBinding(f) \/ ReadText(f)
        <5>1. fop[f].pc \in Gathering
          BY <4>2 DEF ReadProvenance, CheckBinding, ReadText, At, Gathering
        <5>2. fop'[f].snap.matter = fop[f].snap.matter
          BY <1>0, <4>2 DEF ReadProvenance, CheckBinding, ReadText, GoWith, GoTo,
             FormalizeOp, Snapshot
        <5> QED
          BY <1>0, <3>1, <5>1, <5>2 DEF LoadedReady
      <4>3. CASE ~ (FormalizeLoad(f) \/ ReadProvenance(f) \/ CheckBinding(f) \/ ReadText(f))
        <5>1. fop'[f].pc \notin Gathering
          BY <1>0, <2>1, <4>3 DEF FormalizeStep, PersistSnapshot, ValidateSnapshot, RereadText,
             RecheckProvenance, BeginPrepare, CreateRun, WriteRun, CheckExistingRun,
             ResumeRun, FinishFormalize, FormalizeRaises, FormalizeCrash, GoTo,
             NotFormalizing, Gathering, FormalizeOp
        <5> QED
          BY <2>1, <3>1, <5>1
      <4> QED
        BY <4>1, <4>2, <4>3
    <3>2. CASE g # f
      <4>1. fop'[g] = fop[g]
        BY <1>0, <2>1, <3>2, ProcessKeepsOthers
      <4> QED
        BY <1>0, <2>1, <4>1 DEF LoadedReady
    <3> QED
      BY <3>1, <3>2
  <2>2. CASE ~ \E f \in Formalizers : FormalizeStep(f)
    <3>1. fop' = fop
      BY <2>2 DEF FormalNext, RunFinalizes, BindFormalRun, BindCurrentReview, MatterStep,
         EvidenceStep, allvars, fvars
    <3> QED
      BY <1>0, <3>1 DEF LoadedReady, ReadyToFormalize, Known
  <2> QED
    BY <2>1, <2>2 DEF LoadedReady, ReadyToFormalize, Known
<1> QED
  BY <1>1, <1>2, <1>3 DEF SnapshotInv

\* The inductive invariant of snapshots and history holds for any number of
\* processes, revisions and faults.
THEOREM SnapshotInvariant == FormalSpec => []SnapshotInv
<1>1. ASSUME FormalInit PROVE SnapshotInv
  <2>1. FormalInv /\ RebuildInv
    BY <1>1, FormalInvInit, StoreInit, RebuildInit DEF FormalInit
  <2>2. LoadedReady /\ SnapshotIsRevision
    BY <1>1 DEF FormalInit, LoadedReady, SnapshotIsRevision, NotFormalizing, Gathering
  <2> QED
    BY <2>1, <2>2 DEF SnapshotInv
<1> QED
  BY <1>1, SnapshotStep, PTL DEF FormalSpec

\* A snapshot is the Matter of one revision (create_formalization_snapshot),
\* whatever was committed and replaced between the reads it was put together from.
THEOREM SnapshotIsRevisionHolds == FormalSpec => []SnapshotIsRevision
BY SnapshotInvariant, PTL DEF SnapshotInv
=============================================================================

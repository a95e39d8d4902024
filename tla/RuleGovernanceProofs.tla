------------------------ MODULE RuleGovernanceProofs ------------------------
(***************************************************************************)
(* What a loaded rule rests on, for any number of rules, processes and     *)
(* edits, and what a verdict rests on, for any rule, inputs and            *)
(* calculations.                                                           *)
(***************************************************************************)
EXTENDS RuleGovernance, RuleEvaluation, WellFoundedInduction, TLAPS

\* What a command holds at each of its steps.
Shape(o) ==
    /\ o.pc \in {"evaluated", "actual", "report", "unlink_actual"} =>
           o.rule \in Rules /\ o.draft \in Report
    /\ o.pc = "verify" => o.todo \subseteq Rules
    /\ o.pc \in {"load", "read"} => o.todo \subseteq Entry /\ o.context \in Contexts
    /\ o.pc = "read" => o.entry \in Entry
    /\ o.pc = "answered" => o.context \in Contexts

ShapeInv == \A p \in Procs : Shape(op[p])

LEMMA IdleIsCommand == Idle \in Command /\ Shape(Idle)
  BY DEF Idle, Command, Shape, Steps, Loaded

\* A document that was written over is still one, and names a report that it named
\* or that a golden run has made.
LEMMA RevisedIs ==
    ASSUME NEW a \in Approval, NEW b \in Revised(a)
    PROVE  b \in Approval /\ (b.report = a.report \/ b.report \in Genuine)
  <1>1. CASE b \in {[a EXCEPT !.candidate = x] : x \in Bodies} \cup {[a EXCEPT !.approved = x] : x \in Bodies}
    BY <1>1 DEF Approval
  <1>2. CASE b \in {[a EXCEPT !.scope = x] : x \in Scopes}
    BY <1>2 DEF Approval
  <1>3. CASE b \in {[a EXCEPT !.report = x] : x \in Genuine}
    BY <1>3 DEF Approval, Genuine
  <1> QED BY <1>1, <1>2, <1>3 DEF Revised

LEMMA RevisedSetIs ==
    ASSUME NEW S \in SUBSET Entry, NEW T \in RevisedSet(S)
    PROVE  /\ T \in SUBSET Entry
           /\ \A f \in T : \E e \in S : \/ f.approval.report = e.approval.report
                                        \/ f.approval.report \in Genuine
  <1>1. PICK e \in S :
          T \in {S \ {e}} \cup {(S \ {e}) \cup {[e EXCEPT !.approval = a]} : a \in Revised(e.approval)}
              \cup {(S \ {e}) \cup {[e EXCEPT !.hash = a]} : a \in Revised(e.hash)}
    BY DEF RevisedSet
  <1>2. e \in Entry /\ e.approval \in Approval /\ e.hash \in Approval
    BY DEF Entry
  <1>3. CASE T = S \ {e}
    BY <1>3
  <1>4. ASSUME NEW a \in Revised(e.approval), T = (S \ {e}) \cup {[e EXCEPT !.approval = a]}
        PROVE  /\ T \in SUBSET Entry
               /\ \A f \in T : \E x \in S : \/ f.approval.report = x.approval.report
                                            \/ f.approval.report \in Genuine
    <2>1. a \in Approval /\ (a.report = e.approval.report \/ a.report \in Genuine)
      BY <1>2, RevisedIs
    <2>2. [e EXCEPT !.approval = a] \in Entry /\ [e EXCEPT !.approval = a].approval = a
      BY <1>2, <2>1 DEF Entry
    <2> QED BY <1>4, <2>1, <2>2
  <1>5. ASSUME NEW a \in Revised(e.hash), T = (S \ {e}) \cup {[e EXCEPT !.hash = a]}
        PROVE  /\ T \in SUBSET Entry
               /\ \A f \in T : \E x \in S : \/ f.approval.report = x.approval.report
                                            \/ f.approval.report \in Genuine
    <2>1. a \in Approval
      BY <1>2, RevisedIs
    <2>2. [e EXCEPT !.hash = a] \in Entry /\ [e EXCEPT !.hash = a].approval = e.approval
      BY <1>2, <2>1 DEF Entry
    <2> QED BY <1>5, <2>1, <2>2
  <1> QED BY <1>1, <1>3, <1>4, <1>5

\* What an edit leaves of the approvals and of the manifest.
LEMMA EditedApproval ==
    ASSUME TypeOK, NEW r \in Rules, Edit(r), NEW t \in Rules
    PROVE  approval'[t] \in {approval[t], None} \/ (approval[t] # None /\ approval'[t] \in Revised(approval[t]))
  BY DEF Edit, TypeOK, authored

LEMMA EditedManifest ==
    ASSUME TypeOK, NEW r \in Rules, Edit(r)
    PROVE  \/ manifest' \in {manifest, NoManifest}
           \/ \E entries \in RevisedSet(manifest.entries) : manifest' = [manifest EXCEPT !.entries = entries]
  BY DEF Edit, published

\* The step of one process.
LEMMA OpSet ==
    ASSUME TypeOK, ShapeInv, NEW p \in Procs, NEW v \in Command, Shape(v),
           op' = [op EXCEPT ![p] = v]
    PROVE  op' \in [Procs -> Command] /\ ShapeInv'
  BY DEF TypeOK, ShapeInv

LEMMA OpDone ==
    ASSUME TypeOK, ShapeInv, NEW p \in Procs, Done(p)
    PROVE  op' \in [Procs -> Command] /\ ShapeInv'
  BY OpSet, IdleIsCommand DEF Done

LEMMA OpGoto ==
    ASSUME TypeOK, ShapeInv, NEW p \in Procs, NEW s \in Steps,
           s \in {"report", "unlink_actual", "announce", "unlink_manifest"},
           s \in {"report", "unlink_actual"} =>
               op[p].pc \in {"evaluated", "actual", "report", "unlink_actual"},
           op' = [op EXCEPT ![p].pc = s]
    PROVE  op' \in [Procs -> Command] /\ ShapeInv'
  <1> DEFINE v == [op[p] EXCEPT !.pc = s]
  <1>1. op[p] \in Command /\ Shape(op[p])
    BY DEF TypeOK, ShapeInv
  <1>2. v \in Command
    BY <1>1 DEF Command
  <1>3. Shape(v)
    BY <1>1 DEF Shape, Command
  <1>4. op' = [op EXCEPT ![p] = v]
    BY DEF TypeOK
  <1> QED BY <1>2, <1>3, <1>4, OpSet

LEMMA InitType == Init => TypeOK /\ ShapeInv
  <1> SUFFICES ASSUME Init PROVE TypeOK /\ ShapeInv
    OBVIOUS
  <1>1. op \in [Procs -> Command] /\ ShapeInv
    BY IdleIsCommand DEF Init, ShapeInv
  <1>2. /\ actual \in [Rules -> [value : Results \cup {None}, by : Procs \cup {None}]]
        /\ manifest \in [entries : SUBSET Entry, by : Activators \cup {None}]
        /\ announced \in [status : {"none", "BLOCKED", "ACTIVATED"}, by : Activators \cup {None}]
    BY DEF Init, NoOutput, NoManifest, NotAnnounced
  <1>3. /\ candidate \in [Rules -> Bodies \cup {None}]
        /\ approved \in [Rules -> Bodies \cup {None}]
        /\ report \in [Rules -> Report \cup {None}]
        /\ approval \in [Rules -> Approval \cup {None}]
    BY DEF Init
  <1>4. edits \in 0 .. MaxEdits
    BY RuleAssumption DEF Init
  <1>5. raced \in BOOLEAN
    BY Zenon DEF Init
  <1> QED BY <1>1, <1>2, <1>3, <1>4, <1>5 DEF Init, TypeOK

\* The processes of each role are processes.
LEMMA Roles == Runners \subseteq Procs /\ Activators \subseteq Procs /\ Loaders \subseteq Procs
  BY DEF Procs

LEMMA TypeStep == TypeOK /\ ShapeInv /\ [Next]_vars => TypeOK' /\ ShapeInv'
  <1> SUFFICES ASSUME TypeOK, ShapeInv, [Next]_vars PROVE TypeOK' /\ ShapeInv'
    OBVIOUS
  <1>1. ASSUME NEW r \in Rules, ApproveCandidate(r) PROVE TypeOK' /\ ShapeInv'
    BY <1>1 DEF ApproveCandidate, TypeOK, ShapeInv, published, people
  <1>2. ASSUME NEW r \in Rules, NEW s \in Scopes, WriteApproval(r, s) PROVE TypeOK' /\ ShapeInv'
    <2>1. [candidate |-> candidate[r], approved |-> approved[r],
           report |-> report[r], scope |-> s] \in Approval
      BY <1>2 DEF WriteApproval, TypeOK, Approval
    <2> QED BY <1>2, <2>1 DEF WriteApproval, TypeOK, ShapeInv, published, people
  <1>3. ASSUME NEW r \in Rules, Edit(r) PROVE TypeOK' /\ ShapeInv'
    <2>1. ShapeInv' /\ op' \in [Procs -> Command]
      BY <1>3 DEF Edit, ShapeInv, TypeOK
    <2>2. edits' \in 0 .. MaxEdits /\ raced' \in BOOLEAN
      BY <1>3, RuleAssumption DEF Edit, TypeOK
    <2>3. /\ candidate' \in [Rules -> Bodies \cup {None}]
          /\ approved' \in [Rules -> Bodies \cup {None}]
      BY <1>3 DEF Edit, TypeOK, authored, published
    <2>6. fixture' \in [Rules -> Fixtures]
      BY <1>3 DEF Edit, TypeOK, authored, published
    <2>8. expected' \in [Rules -> Results]
      BY <1>3 DEF Edit, TypeOK, authored, published
    <2>7. approval' \in [Rules -> Approval \cup {None}]
      <3>1. approval' = approval \/ \E a \in Revised(approval[r]) \cup {None} :
                                       /\ approval' = [approval EXCEPT ![r] = a]
                                       /\ a # None => approval[r] # None
        BY <1>3 DEF Edit, authored, published
      <3>2. approval \in [Rules -> Approval \cup {None}]
        BY DEF TypeOK
      <3> QED BY <3>1, <3>2, RevisedIs
    <2>9. manifest' \in [entries : SUBSET Entry, by : Activators \cup {None}]
      <3>1. manifest \in [entries : SUBSET Entry, by : Activators \cup {None}]
        BY DEF TypeOK
      <3>2. CASE manifest' \in {manifest, NoManifest}
        BY <3>1, <3>2 DEF NoManifest
      <3>3. ASSUME NEW entries \in RevisedSet(manifest.entries),
                   manifest' = [manifest EXCEPT !.entries = entries]
            PROVE  manifest' \in [entries : SUBSET Entry, by : Activators \cup {None}]
        <4>1. entries \in SUBSET Entry
          BY <3>1, RevisedSetIs
        <4> QED BY <3>1, <3>3, <4>1
      <3> QED BY <1>3, <3>2, <3>3, EditedManifest
    <2>4. /\ actual' \in [Rules -> [value : Results \cup {None}, by : Procs \cup {None}]]
          /\ announced' \in [status : {"none", "BLOCKED", "ACTIVATED"}, by : Activators \cup {None}]
      BY <1>3 DEF Edit, TypeOK, published, NoOutput, NotAnnounced
    <2>5. report' \in [Rules -> Report \cup {None}]
      BY <1>3 DEF Edit, TypeOK, published, Genuine
    <2> QED BY <2>1, <2>2, <2>3, <2>4, <2>5, <2>6, <2>7, <2>8, <2>9 DEF TypeOK
  <1>4. ASSUME NEW p \in Runners, Golden(p) PROVE TypeOK' /\ ShapeInv'
    <2> p \in Procs
      BY Roles
    <2> op[p] \in Command /\ Shape(op[p])
      BY DEF TypeOK, ShapeInv
    <2>1. ASSUME NEW r \in Rules, GoldenEvaluate(p, r) PROVE TypeOK' /\ ShapeInv'
      <3> DEFINE d == [candidate |-> candidate[r], approved |-> approved[r],
                       fixture |-> fixture[r], expected |-> expected[r],
                       actual |-> Evaluate[approved[r]][fixture[r]]]
                 v == [Idle EXCEPT !.pc = "evaluated", !.rule = r, !.draft = d]
      <3>1. d \in Report
        BY <2>1, RuleAssumption DEF GoldenEvaluate, TypeOK, Report
      <3> HIDE DEF d
      <3>2. v \in Command /\ Shape(v)
        BY ZenonT(60), <3>1, IdleIsCommand DEF Command, Shape, Steps
      <3>3. op' = [op EXCEPT ![p] = v]
        BY <2>1 DEF GoldenEvaluate, d
      <3>4. op' \in [Procs -> Command] /\ ShapeInv'
        BY <3>2, <3>3, OpSet
      <3> QED BY <2>1, <3>4 DEF GoldenEvaluate, TypeOK, authored, published, people
    <2>2. CASE GoldenHash(p)
      <3>1. op' \in [Procs -> Command] /\ ShapeInv'
        <4>1. CASE Done(p)
          BY <4>1, OpDone
        <4>2. CASE ~Done(p)
          <5> DEFINE r == op[p].rule
                     d == [candidate |-> candidate[r], approved |-> approved[r],
                           fixture |-> op[p].draft.fixture,
                           expected |-> op[p].draft.expected,
                           actual |-> op[p].draft.actual]
                     v == [Idle EXCEPT !.pc = "actual", !.rule = r, !.draft = d]
          <5>1. r \in Rules /\ op[p].draft \in Report /\ Hashable(r)
            BY <2>2, <4>2 DEF GoldenHash, Shape
          <5>2. d \in Report
            BY <5>1 DEF Hashable, TypeOK, Report
          <5>3. op' = [op EXCEPT ![p] = v]
            BY <2>2, <4>2 DEF GoldenHash
          <5> HIDE DEF d, r
          <5>4. v \in Command /\ Shape(v)
            BY ZenonT(60), <5>1, <5>2, IdleIsCommand DEF Command, Shape, Steps
          <5> QED BY <5>3, <5>4, OpSet
        <4> QED BY <4>1, <4>2
      <3> QED BY <2>2, <3>1 DEF GoldenHash, TypeOK, authored, published, people
    <2>3. CASE LinkActual(p)
      <3>1. op[p].rule \in Rules /\ op[p].draft \in Report
        BY <2>3 DEF LinkActual, Shape
      <3>2. op' \in [Procs -> Command] /\ ShapeInv'
        BY <2>3, OpDone, OpGoto DEF LinkActual, Steps
      <3>3. actual' \in [Rules -> [value : Results \cup {None}, by : Procs \cup {None}]]
        BY <2>3, <3>1 DEF LinkActual, TypeOK, Report
      <3> QED BY <2>3, <3>2, <3>3 DEF LinkActual, TypeOK, authored, people
    <2>4. CASE LinkReport(p)
      <3>1. op[p].rule \in Rules /\ op[p].draft \in Report
        BY <2>4 DEF LinkReport, Shape
      <3>2. op' \in [Procs -> Command] /\ ShapeInv'
        BY <2>4, OpDone, OpGoto DEF LinkReport, Steps
      <3>3. report' \in [Rules -> Report \cup {None}]
        BY <2>4, <3>1 DEF LinkReport, TypeOK
      <3> QED BY <2>4, <3>2, <3>3 DEF LinkReport, TypeOK, authored, people
    <2>5. CASE RollbackActual(p)
      <3>1. op' \in [Procs -> Command] /\ ShapeInv'
        BY <2>5, OpDone DEF RollbackActual
      <3>2. actual' \in [Rules -> [value : Results \cup {None}, by : Procs \cup {None}]]
        BY <2>5 DEF RollbackActual, TypeOK, NoOutput
      <3> QED BY <2>5, <3>1, <3>2 DEF RollbackActual, TypeOK, authored, people
    <2> QED BY <1>4, <2>1, <2>2, <2>3, <2>4, <2>5 DEF Golden
  <1>5. ASSUME NEW p \in Activators, Activate(p) PROVE TypeOK' /\ ShapeInv'
    <2> p \in Procs
      BY Roles
    <2> op[p] \in Command /\ Shape(op[p])
      BY DEF TypeOK, ShapeInv
    <2>1. CASE ActivateBegin(p)
      <3> DEFINE S == {r \in Rules : approval[r] # None}
                 v == [Idle EXCEPT !.pc = "verify", !.todo = S]
      <3>1. op' = [op EXCEPT ![p] = v]
        BY <2>1 DEF ActivateBegin
      <3>2. S \subseteq Rules /\ S \in SUBSET (Rules \cup Entry)
        OBVIOUS
      <3> HIDE DEF S
      <3>3. v \in Command
        BY <3>2, IdleIsCommand DEF Command, Steps
      <3>4. Shape(v)
        BY <3>2, IdleIsCommand DEF Command, Shape
      <3> QED BY <2>1, <3>1, <3>3, <3>4, OpSet DEF ActivateBegin, TypeOK, authored, published, people
    <2>2. ASSUME NEW r \in Rules, ActivateVerify(p, r) PROVE TypeOK' /\ ShapeInv'
      <3> DEFINE good == approval[r] # None /\ Verified(r, approval[r], "ACTIVATION")
                 T == op[p].todo \ {r}
                 N == IF good THEN {[rule |-> r, approval |-> approval[r],
                                     hash |-> approval[r]]} ELSE {}
                 E == op[p].entries \cup N
                 b == op[p].blocked \/ ~good
                 v == [Idle EXCEPT !.pc = "verify", !.todo = T, !.entries = E, !.blocked = b]
      <3>1. op' = [op EXCEPT ![p] = v]
        BY <2>2 DEF ActivateVerify
      <3>2. T \subseteq Rules /\ T \in SUBSET (Rules \cup Entry)
        BY <2>2 DEF ActivateVerify, Shape
      <3>3. good => approval[r] \in Approval
        BY DEF TypeOK
      <3> HIDE DEF good
      <3>4. N \subseteq Entry
        BY <3>3 DEF Entry
      <3>5. E \in SUBSET Entry
        BY <3>4 DEF Command
      <3>6. b \in BOOLEAN
        OBVIOUS
      <3> HIDE DEF T, E, b
      <3>7. v \in Command
        BY <3>2, <3>5, <3>6, IdleIsCommand DEF Command, Steps
      <3>8. Shape(v)
        BY <3>2, <3>5, <3>6, IdleIsCommand DEF Command, Shape
      <3> QED BY <2>2, <3>1, <3>7, <3>8, OpSet DEF ActivateVerify, TypeOK, authored, published, people
    <2>3. CASE BuildEntries(p)
      <3>1. op' \in [Procs -> Command] /\ ShapeInv'
        <4> DEFINE E == {[rule |-> e.rule, approval |-> e.approval,
                          hash |-> approval[e.rule]] : e \in op[p].entries}
                   v == [Idle EXCEPT !.pc = "manifest", !.entries = E]
                   w == [Idle EXCEPT !.pc = "blocked"]
        <4>1. CASE Done(p)
          BY <4>1, OpDone
        <4>2. CASE op' = [op EXCEPT ![p] = w]
          <5>1. w \in Command /\ Shape(w)
            BY IdleIsCommand DEF Command, Shape, Steps
          <5> QED BY <4>2, <5>1, OpSet
        <4>3. CASE /\ \A e \in op[p].entries : approval[e.rule] # None
                   /\ op' = [op EXCEPT ![p] = v]
          <5>1. \A e \in op[p].entries : e \in Entry /\ approval[e.rule] \in Approval
            BY <4>3 DEF TypeOK, Command, Entry
          <5>2. E \in SUBSET Entry
            BY <5>1 DEF Entry
          <5> HIDE DEF E
          <5>3. v \in Command
            BY <5>2, IdleIsCommand DEF Command, Steps
          <5>4. Shape(v)
            BY <5>2, IdleIsCommand DEF Command, Shape
          <5> QED BY <4>3, <5>3, <5>4, OpSet
        <4> HIDE DEF E
        <4> QED BY <2>3, <4>1, <4>2, <4>3 DEF BuildEntries, E
      <3> QED BY <2>3, <3>1 DEF BuildEntries, TypeOK, authored, published, people
    <2>4. CASE LinkBlocked(p)
      <3>1. op' \in [Procs -> Command] /\ ShapeInv'
        BY <2>4, OpDone DEF LinkBlocked
      <3>2. announced' \in [status : {"none", "BLOCKED", "ACTIVATED"}, by : Activators \cup {None}]
        BY <2>4 DEF LinkBlocked, TypeOK
      <3> QED BY <2>4, <3>1, <3>2 DEF LinkBlocked, TypeOK, authored, people
    <2>5. CASE LinkManifest(p)
      <3>1. op' \in [Procs -> Command] /\ ShapeInv'
        BY <2>5, OpDone, OpGoto DEF LinkManifest, Steps
      <3>2. manifest' \in [entries : SUBSET Entry, by : Activators \cup {None}]
        BY <2>5 DEF LinkManifest, TypeOK, Command
      <3> QED BY <2>5, <3>1, <3>2 DEF LinkManifest, TypeOK, authored, people
    <2>6. CASE LinkAnnounce(p)
      <3>1. op' \in [Procs -> Command] /\ ShapeInv'
        BY <2>6, OpDone, OpGoto DEF LinkAnnounce, Steps
      <3>2. announced' \in [status : {"none", "BLOCKED", "ACTIVATED"}, by : Activators \cup {None}]
        BY <2>6 DEF LinkAnnounce, TypeOK
      <3> QED BY <2>6, <3>1, <3>2 DEF LinkAnnounce, TypeOK, authored, people
    <2>7. CASE RollbackManifest(p)
      <3>1. op' \in [Procs -> Command] /\ ShapeInv'
        BY <2>7, OpDone DEF RollbackManifest
      <3>2. manifest' \in [entries : SUBSET Entry, by : Activators \cup {None}]
        BY <2>7 DEF RollbackManifest, TypeOK, NoManifest
      <3> QED BY <2>7, <3>1, <3>2 DEF RollbackManifest, TypeOK, authored, people
    <2> QED BY <1>5, <2>1, <2>2, <2>3, <2>4, <2>5, <2>6, <2>7 DEF Activate
  <1>6. ASSUME NEW p \in Loaders, Load(p) PROVE TypeOK' /\ ShapeInv'
    <2> p \in Procs
      BY Roles
    <2> op[p] \in Command /\ Shape(op[p])
      BY DEF TypeOK, ShapeInv
    <2>0. ASSUME NEW s \in {"BLOCKED", "ABSTAIN", "SELECTED"}, NEW X \in SUBSET Loaded,
                 NEW c \in Contexts, Answer(p, s, X, c)
          PROVE  op' \in [Procs -> Command] /\ ShapeInv'
      <3> DEFINE v == [Idle EXCEPT !.pc = "answered", !.answer = s, !.loaded = X, !.context = c]
      <3>1. v \in Command /\ Shape(v)
        BY ZenonT(60), IdleIsCommand DEF Command, Shape, Steps
      <3> QED BY <2>0, <3>1, OpSet DEF Answer
    <2>1. ASSUME NEW c \in Contexts, LoadManifest(p, c) PROVE TypeOK' /\ ShapeInv'
      <3>1. op' \in [Procs -> Command] /\ ShapeInv'
        <4>1. CASE manifest = NoManifest
          BY <2>1, <2>0, <4>1 DEF LoadManifest
        <4>2. CASE manifest # NoManifest
          <5> DEFINE E == manifest.entries
                     v == [Idle EXCEPT !.pc = "load", !.context = c, !.entries = E, !.todo = E]
          <5>1. op' = [op EXCEPT ![p] = v]
            BY <2>1, <4>2 DEF LoadManifest
          <5>2. E \subseteq Entry
            BY DEF TypeOK
          <5> HIDE DEF E
          <5>3. v \in Command /\ Shape(v)
            BY ZenonT(60), <5>2, IdleIsCommand DEF Command, Shape, Steps
          <5> QED BY <5>1, <5>3, OpSet
        <4> QED BY <4>1, <4>2
      <3> QED BY <2>1, <3>1 DEF LoadManifest, TypeOK, authored, published, people
    <2>2. ASSUME NEW e \in op[p].todo, VerifyEntry(p, e) PROVE TypeOK' /\ ShapeInv'
      <3> DEFINE good == /\ approval[e.rule] = e.hash
                         /\ e.approval = e.hash
                         /\ Verified(e.rule, e.hash, "RUNTIME")
                 T == op[p].todo \ {e}
                 b == op[p].blocked \/ ~good
                 s == IF good THEN "read" ELSE "load"
                 v == [pc |-> s, rule |-> None, draft |-> None, answer |-> None,
                       entry |-> e, context |-> op[p].context,
                       entries |-> op[p].entries, loaded |-> op[p].loaded,
                       todo |-> T, blocked |-> b]
      <3>1. op' = [op EXCEPT ![p] = v]
        BY <2>2 DEF VerifyEntry
      <3>2. op[p].todo \subseteq Entry /\ op[p].context \in Contexts
        BY <2>2 DEF VerifyEntry, Shape
      <3>3. e \in Entry /\ T \subseteq Entry
        BY <3>2
      <3>4. b \in BOOLEAN /\ s \in {"read", "load"}
        OBVIOUS
      <3> HIDE DEF good, T, b, s
      <3>5. v \in Command /\ Shape(v)
        BY <3>2, <3>3, <3>4 DEF Command, Shape, Steps
      <3> QED BY <2>2, <3>1, <3>5, OpSet DEF VerifyEntry, TypeOK, authored, published, people
    <2>3. CASE ReadRule(p)
      <3>1. op' \in [Procs -> Command] /\ ShapeInv'
        <4>1. CASE Done(p)
          BY <4>1, OpDone
        <4>2. CASE ~Done(p)
          <5> DEFINE e == op[p].entry
                     L == op[p].loaded \cup {[entry |-> e, body |-> approved[e.rule]]}
                     v == [pc |-> "load", rule |-> None, draft |-> None,
                           answer |-> None, entry |-> None, context |-> op[p].context,
                           entries |-> op[p].entries, todo |-> op[p].todo,
                           blocked |-> op[p].blocked, loaded |-> L]
          <5>1. op' = [op EXCEPT ![p] = v] /\ approved[e.rule] # None
            BY <2>3, <4>2 DEF ReadRule
          <5>2. op[p].todo \subseteq Entry /\ op[p].context \in Contexts /\ e \in Entry
            BY <2>3 DEF ReadRule, Shape
          <5>3. approved[e.rule] \in Bodies
            BY <5>1, <5>2 DEF TypeOK, Entry
          <5>4. L \subseteq Loaded
            BY <5>2, <5>3 DEF Loaded, Command
          <5> HIDE DEF e, L
          <5>5. v \in Command /\ Shape(v)
            BY <5>2, <5>4 DEF Command, Shape, Steps
          <5> QED BY <5>1, <5>5, OpSet
        <4> QED BY <4>1, <4>2
      <3> QED BY <2>3, <3>1 DEF ReadRule, TypeOK, authored, published, people
    <2>4. CASE LoadSelect(p)
      <3>1. op[p].context \in Contexts
        BY <2>4 DEF LoadSelect, Shape
      <3>2. Selected(p) \in SUBSET Loaded /\ {} \in SUBSET Loaded
        BY DEF Selected, Command
      <3>3. op' \in [Procs -> Command] /\ ShapeInv'
        BY <2>4, <2>0, <3>1, <3>2 DEF LoadSelect
      <3> QED BY <2>4, <3>3 DEF LoadSelect, TypeOK, authored, published, people
    <2>5. CASE Return(p)
      BY <2>5, OpDone DEF Return, TypeOK, authored, published, people
    <2> QED BY <1>6, <2>1, <2>2, <2>3, <2>4, <2>5 DEF Load
  <1>7. ASSUME NEW p \in Runners \cup Activators, Crash(p) PROVE TypeOK' /\ ShapeInv'
    BY <1>7, OpDone, Roles DEF Crash, TypeOK, authored, published, people
  <1>8. CASE UNCHANGED vars
    BY <1>8 DEF TypeOK, ShapeInv, vars, authored, published, people
  <1> QED BY <1>1, <1>2, <1>3, <1>4, <1>5, <1>6, <1>7, <1>8 DEF Next

\* Files, commands and answers keep their types.
THEOREM GovernanceTypeCorrect == Spec => []TypeOK
  BY InitType, TypeStep, PTL DEF Spec

-----------------------------------------------------------------------------
(* The reported activation.                                                *)

Activating == {"verify", "blocked", "manifest", "announce", "unlink_manifest"}

\* The command whose activation is reported has ended, and cannot begin again.
AnnouncerDone ==
    announced.status = "ACTIVATED" =>
        /\ announced.by \in Activators
        /\ op[announced.by].pc \notin Activating

LEMMA AnnouncerStep ==
    TypeOK /\ ShapeInv /\ AnnouncerDone /\ [Next]_vars => AnnouncerDone'
  <1> SUFFICES ASSUME TypeOK, ShapeInv, AnnouncerDone, [Next]_vars PROVE AnnouncerDone'
    OBVIOUS
  <1>0. ASSUME NEW p \in Procs, UNCHANGED announced,
               \A q \in Procs \ {p} : op'[q] = op[q],
               op'[p].pc \in Activating => op[p].pc \in Activating \/ announced = NotAnnounced
        PROVE  AnnouncerDone'
    BY <1>0, Roles DEF AnnouncerDone, TypeOK, NotAnnounced
  <1>1. ASSUME NEW r \in Rules, ApproveCandidate(r) \/ Edit(r) \/ \E s \in Scopes : WriteApproval(r, s)
        PROVE  AnnouncerDone'
    <2>1. op' = op /\ (announced' = announced \/ announced' = NotAnnounced)
      BY <1>1 DEF ApproveCandidate, WriteApproval, Edit, published, authored
    <2> QED BY <2>1 DEF AnnouncerDone, NotAnnounced
  <1>2. ASSUME NEW p \in Runners, Golden(p) PROVE AnnouncerDone'
    <2>1. UNCHANGED announced
      BY <1>2 DEF Golden, GoldenEvaluate, GoldenHash, LinkActual, LinkReport, RollbackActual,
                  published, Done
    <2>2. p \in Procs /\ op[p] \in Command
      BY Roles DEF TypeOK
    <2>3. /\ \A q \in Procs \ {p} : op'[q] = op[q]
          /\ op'[p].pc \notin Activating
      <3>1. ASSUME NEW r \in Rules, GoldenEvaluate(p, r)
            PROVE  op'[p].pc \notin Activating /\ \A q \in Procs \ {p} : op'[q] = op[q]
        BY <2>2, <3>1 DEF GoldenEvaluate, TypeOK, Idle, Activating
      <3>2. CASE GoldenHash(p)
        <4>1. op'[p].pc \in {"actual", "idle"}
          <5> DEFINE v == [Idle EXCEPT !.pc = "actual", !.rule = op[p].rule,
                    !.draft = [candidate |-> candidate[op[p].rule],
                               approved |-> approved[op[p].rule],
                               fixture |-> op[p].draft.fixture,
                               expected |-> op[p].draft.expected,
                               actual |-> op[p].draft.actual]]
          <5>1. Idle.pc = "idle" /\ v.pc = "actual"
            BY DEF Idle
          <5>2. op' = [op EXCEPT ![p] = v] \/ op' = [op EXCEPT ![p] = Idle]
            BY <3>2 DEF GoldenHash, Done
          <5> HIDE DEF v
          <5> QED BY <2>2, <5>1, <5>2 DEF TypeOK
        <4>2. \A q \in Procs \ {p} : op'[q] = op[q]
          BY <2>2, <3>2 DEF GoldenHash, Done, TypeOK
        <4> QED BY <4>1, <4>2 DEF Activating
      <3>3. CASE LinkActual(p)
        BY <2>2, <3>3 DEF LinkActual, Done, TypeOK, Command, Idle, Activating
      <3>4. CASE LinkReport(p)
        <4>1. CASE Done(p)
          BY <2>2, <4>1 DEF Done, TypeOK, Idle, Activating
        <4>2. CASE op' = [op EXCEPT ![p].pc = "unlink_actual"]
          BY <2>2, <4>2 DEF TypeOK, Command, Activating
        <4> QED BY <3>4, <4>1, <4>2 DEF LinkReport
      <3>5. CASE RollbackActual(p)
        BY <2>2, <3>5 DEF RollbackActual, Done, TypeOK, Idle, Activating
      <3> QED BY <1>2, <3>1, <3>2, <3>3, <3>4, <3>5 DEF Golden
    <2> QED BY <1>0, <2>1, <2>2, <2>3 DEF TypeOK
  <1>3. ASSUME NEW p \in Activators, Activate(p) PROVE AnnouncerDone'
    <2>1. p \in Procs /\ op[p] \in Command
      BY Roles DEF TypeOK
    <2>2. CASE ActivateBegin(p)
      BY <2>1, <2>2, <1>0 DEF ActivateBegin, TypeOK, published
    <2>3. CASE \E r \in Rules : ActivateVerify(p, r)
      BY <2>1, <2>3, <1>0 DEF ActivateVerify, TypeOK, published, Activating
    <2>4. CASE BuildEntries(p)
      BY <2>1, <2>4, <1>0 DEF BuildEntries, TypeOK, published, Activating, Done
    <2>5. CASE LinkManifest(p)
      BY <2>1, <2>5, <1>0 DEF LinkManifest, TypeOK, Activating, Done
    <2>6. CASE RollbackManifest(p)
      BY <2>1, <2>6, <1>0 DEF RollbackManifest, TypeOK, Activating, Done
    <2>7. CASE LinkBlocked(p)
      <3>1. op'[p].pc \notin Activating /\ \A q \in Procs \ {p} : op'[q] = op[q]
        BY <2>1, <2>7 DEF LinkBlocked, TypeOK, Done, Idle, Activating
      <3>2. announced' = announced \/ announced'.status = "BLOCKED"
        BY <2>7 DEF LinkBlocked
      <3> QED BY <2>1, <3>1, <3>2, <1>0 DEF AnnouncerDone
    <2>8. CASE LinkAnnounce(p)
      <3>1. CASE announced = NotAnnounced
        <4>1. announced'.by = p /\ op'[p] = Idle
          BY <2>1, <2>8, <3>1 DEF LinkAnnounce, Done, TypeOK
        <4> QED BY <4>1 DEF AnnouncerDone, Idle, Activating
      <3>2. CASE announced # NotAnnounced
        BY <2>1, <2>8, <3>2, <1>0 DEF LinkAnnounce, TypeOK, Activating
      <3> QED BY <3>1, <3>2
    <2> QED BY <1>3, <2>2, <2>3, <2>4, <2>5, <2>6, <2>7, <2>8 DEF Activate
  <1>4. ASSUME NEW p \in Loaders, Load(p) PROVE AnnouncerDone'
    <2>1. p \in Procs /\ op[p] \in Command
      BY Roles DEF TypeOK
    <2>2. UNCHANGED announced
      BY <1>4 DEF Load, LoadManifest, VerifyEntry, ReadRule, LoadSelect, Return, published
    <2>3. /\ \A q \in Procs \ {p} : op'[q] = op[q]
          /\ op'[p].pc \notin Activating
      <3>1. ASSUME NEW s, NEW X, NEW c, Answer(p, s, X, c)
            PROVE  op'[p].pc \notin Activating /\ \A q \in Procs \ {p} : op'[q] = op[q]
        BY <2>1, <3>1 DEF Answer, TypeOK, Idle, Activating
      <3>2. ASSUME NEW c \in Contexts, LoadManifest(p, c)
            PROVE  op'[p].pc \notin Activating /\ \A q \in Procs \ {p} : op'[q] = op[q]
        <4>1. CASE manifest = NoManifest
          BY <3>1, <3>2, <4>1 DEF LoadManifest
        <4>2. CASE manifest # NoManifest
          <5>1. op'[p].pc = "load"
            <6> DEFINE v == [Idle EXCEPT !.pc = "load", !.context = c,
                             !.entries = manifest.entries, !.todo = manifest.entries]
            <6>1. op' = [op EXCEPT ![p] = v]
              BY <3>2, <4>2 DEF LoadManifest
            <6>2. v.pc = "load"
              BY DEF Idle
            <6> HIDE DEF v
            <6> QED BY <2>1, <6>1, <6>2 DEF TypeOK
          <5>2. \A q \in Procs \ {p} : op'[q] = op[q]
            BY <2>1, <3>2, <4>2 DEF LoadManifest, TypeOK
          <5> QED BY <5>1, <5>2 DEF Activating
        <4> QED BY <4>1, <4>2
      <3>3. ASSUME NEW e, VerifyEntry(p, e)
            PROVE  op'[p].pc \notin Activating /\ \A q \in Procs \ {p} : op'[q] = op[q]
        <4>1. op'[p].pc \in {"read", "load"}
          BY <2>1, <3>3 DEF VerifyEntry, TypeOK
        <4>2. \A q \in Procs \ {p} : op'[q] = op[q]
          BY <2>1, <3>3 DEF VerifyEntry, TypeOK
        <4> QED BY <4>1, <4>2 DEF Activating
      <3>4. CASE ReadRule(p)
        BY <2>1, <3>4 DEF ReadRule, TypeOK, Idle, Done, Activating
      <3>5. CASE LoadSelect(p)
        BY <3>1, <3>5 DEF LoadSelect
      <3>6. CASE Return(p)
        BY <2>1, <3>6 DEF Return, TypeOK, Idle, Done, Activating
      <3> QED BY <1>4, <3>2, <3>3, <3>4, <3>5, <3>6 DEF Load
    <2> QED BY <1>0, <2>1, <2>2, <2>3
  <1>5. ASSUME NEW p \in Runners \cup Activators, Crash(p) PROVE AnnouncerDone'
    <2>1. p \in Procs
      BY Roles
    <2> QED BY <1>5, <2>1, <1>0 DEF Crash, Done, TypeOK, Idle, Activating, published
  <1>6. CASE UNCHANGED vars
    BY <1>6 DEF vars, published, AnnouncerDone
  <1> QED BY <1>1, <1>2, <1>3, <1>4, <1>5, <1>6 DEF Next

-----------------------------------------------------------------------------
(* What documents and commands rest on while no file is edited under a      *)
(* command that reads it twice.                                            *)

Honest(rep) == rep.actual = Evaluate[rep.approved][rep.fixture]

\* What verify_approval has established of an approval by itself.
Sound(a) == Passing(a.report) /\ a.report.approved = a.approved

Proved(x) ==
    /\ x.body = x.entry.approval.approved
    /\ Sound(x.entry.approval) /\ Honest(x.entry.approval.report)

FilesHonest ==
    /\ \A r \in Rules : report[r] # None => Honest(report[r])
    /\ \A r \in Rules : approval[r] # None => Honest(approval[r].report)
    /\ \A e \in manifest.entries : Honest(e.approval.report)

\* A golden run's draft is what the approved rule gives; a load has found every
\* entry it is through with intact, unless it is blocked.
OpSafe(p) ==
    LET o == op[p] IN
    /\ o.pc \in {"evaluated", "actual", "report"} => Honest(o.draft)
    /\ o.pc = "evaluated" => approved[o.rule] = o.draft.approved
    /\ \A e \in o.entries : Honest(e.approval.report)
    /\ \A x \in o.loaded : Proved(x)
    /\ o.pc \in {"load", "read"} => o.todo \subseteq o.entries
    /\ (o.pc \in {"load", "read"} /\ ~o.blocked) => \A e \in o.entries \ o.todo : Intact(e)
    /\ o.pc = "read" => /\ Intact(o.entry) /\ Sound(o.entry.approval)
                        /\ Honest(o.entry.approval.report)
    /\ o.pc = "answered" => \A x \in o.loaded : Applies(x.entry.approval.scope, o.context)

AllSafe == FilesHonest /\ \A p \in Procs : OpSafe(p)

\* No file that is there is changed.
Keeps ==
    /\ \A r \in Rules : /\ approved[r] # None => approved'[r] = approved[r]
                        /\ approval[r] # None => approval'[r] = approval[r]
                        /\ report[r] # None => report'[r] = report[r]
    /\ UNCHANGED <<candidate, fixture, expected>>

LEMMA IntactStays ==
    ASSUME TypeOK, Keeps, NEW e \in Entry, Intact(e)
    PROVE  Intact(e)'
  <1>1. /\ e.rule \in Rules /\ e.approval # None /\ e.approval.approved # None
        /\ e.approval.report # None
    BY RuleAssumption DEF Entry, Approval
  <1> QED BY <1>1 DEF Intact, Keeps

\* A command that does not move stays safe.
LEMMA OthersSafe ==
    ASSUME TypeOK, ShapeInv, Keeps, NEW p \in Procs, op'[p] = op[p], OpSafe(p)
    PROVE  OpSafe(p)'
  <1>1. op[p] \in Command /\ Shape(op[p])
    BY DEF TypeOK, ShapeInv
  <1>2. op[p].pc = "evaluated" => approved'[op[p].rule] = op[p].draft.approved
    <2> SUFFICES ASSUME op[p].pc = "evaluated" PROVE approved'[op[p].rule] = op[p].draft.approved
      OBVIOUS
    <2>1. op[p].rule \in Rules /\ op[p].draft.approved # None
      BY <1>1, RuleAssumption DEF Shape, Report
    <2> QED BY <2>1 DEF OpSafe, Keeps
  <1>3. \A e \in op[p].entries : Intact(e) => Intact(e)'
    BY <1>1, IntactStays DEF Command
  <1>4. op[p].pc = "read" => Intact(op[p].entry)'
    <2> SUFFICES ASSUME op[p].pc = "read" PROVE Intact(op[p].entry)'
      OBVIOUS
    <2>1. op[p].entry \in Entry /\ Intact(op[p].entry)
      BY <1>1 DEF Shape, OpSafe
    <2>2. PICK e \in Entry : e = op[p].entry
      BY <2>1
    <2>3. Intact(e)'
      BY <2>1, <2>2, IntactStays
    <2>4. e = op'[p].entry
      BY <2>2
    <2> QED BY <2>3, <2>4 DEF Intact
  <1> DEFINE o == op[p]
  <1>5. /\ o.pc \in {"evaluated", "actual", "report"} => Honest(o.draft)
        /\ \A e \in o.entries : Honest(e.approval.report)
        /\ \A x \in o.loaded : Proved(x)
        /\ o.pc \in {"load", "read"} => o.todo \subseteq o.entries
        /\ o.pc = "read" => Sound(o.entry.approval) /\ Honest(o.entry.approval.report)
    BY DEF OpSafe
  <1>6. (o.pc \in {"load", "read"} /\ ~o.blocked) => \A e \in o.entries \ o.todo : Intact(e)'
    <2> SUFFICES ASSUME o.pc \in {"load", "read"}, ~o.blocked, NEW e \in o.entries \ o.todo
                 PROVE  Intact(e)'
      OBVIOUS
    <2>1. Intact(e)
      BY DEF OpSafe
    <2> QED BY <1>3, <2>1
  <1>7. o' = o
    OBVIOUS
  <1> QED BY <1>2, <1>4, <1>5, <1>6, <1>7 DEF OpSafe, Intact, Honest, Proved, Sound, Passing

\* The step of one command, the others keeping still.
LEMMA ActorSafe ==
    ASSUME TypeOK, ShapeInv, Keeps, AllSafe, NEW p \in Procs,
           \A q \in Procs \ {p} : op'[q] = op[q], OpSafe(p)', FilesHonest'
    PROVE  AllSafe'
  BY OthersSafe DEF AllSafe

LEMMA IdleSafe ==
    ASSUME NEW p \in Procs, op'[p] = Idle
    PROVE  OpSafe(p)'
  BY DEF OpSafe, Idle

\* The documents a step leaves alone.
LEMMA FilesKept ==
    ASSUME FilesHonest, UNCHANGED <<report, approval, manifest>>
    PROVE  FilesHonest'
  BY DEF FilesHonest, Honest

LEMMA GoldenSafe ==
    ASSUME TypeOK, ShapeInv, AllSafe, NEW p \in Runners, Golden(p)
    PROVE  AllSafe'
  <1>0. p \in Procs /\ op[p] \in Command /\ Shape(op[p]) /\ OpSafe(p)
    BY Roles DEF TypeOK, ShapeInv, AllSafe
  <1>1. ASSUME NEW r \in Rules, GoldenEvaluate(p, r) PROVE AllSafe'
    <2> DEFINE d == [candidate |-> candidate[r], approved |-> approved[r],
                     fixture |-> fixture[r], expected |-> expected[r],
                     actual |-> Evaluate[approved[r]][fixture[r]]]
               v == [Idle EXCEPT !.pc = "evaluated", !.rule = r, !.draft = d]
    <2>1. op' = [op EXCEPT ![p] = v]
      BY <1>1 DEF GoldenEvaluate
    <2>2. /\ v.pc = "evaluated" /\ v.rule = r /\ v.draft = d /\ v.entries = {} /\ v.loaded = {}
      BY DEF Idle
    <2>3. Honest(d) /\ d.approved = approved'[r]
      BY <1>1 DEF Honest, GoldenEvaluate, authored
    <2> HIDE DEF d, v
    <2>4. op'[p] = v /\ \A q \in Procs \ {p} : op'[q] = op[q]
      BY <1>0, <2>1 DEF TypeOK
    <2>5. OpSafe(p)'
      BY <2>2, <2>3, <2>4 DEF OpSafe, Honest
    <2>6. Keeps /\ FilesHonest'
      BY <1>1, FilesKept DEF GoldenEvaluate, Keeps, AllSafe, authored, published
    <2> QED BY <1>0, <2>4, <2>5, <2>6, ActorSafe
  <1>2. CASE Done(p) /\ ~LinkReport(p)
    <2>1. op'[p] = Idle /\ \A q \in Procs \ {p} : op'[q] = op[q]
      BY <1>0, <1>2 DEF Done, TypeOK
    <2>2. UNCHANGED authored /\ UNCHANGED <<report, manifest>>
      BY <1>2 DEF Golden, GoldenEvaluate, GoldenHash, LinkActual, RollbackActual, published
    <2>3. Keeps /\ FilesHonest'
      BY <2>2, FilesKept DEF Keeps, AllSafe, authored
    <2> QED BY <1>0, <2>1, <2>3, IdleSafe, ActorSafe
  <1>3. CASE GoldenHash(p) /\ ~Done(p)
    <2> DEFINE r == op[p].rule
               d == [candidate |-> candidate[r], approved |-> approved[r],
                     fixture |-> op[p].draft.fixture,
                     expected |-> op[p].draft.expected,
                     actual |-> op[p].draft.actual]
               v == [Idle EXCEPT !.pc = "actual", !.rule = r, !.draft = d]
    <2>1. op' = [op EXCEPT ![p] = v] /\ op[p].pc = "evaluated"
      BY <1>3 DEF GoldenHash
    <2>2. v.pc = "actual" /\ v.draft = d /\ v.entries = {} /\ v.loaded = {}
      BY DEF Idle
    <2>3. Honest(d)
      BY <1>0, <2>1 DEF OpSafe, Honest
    <2> HIDE DEF d, v
    <2>4. op'[p] = v /\ \A q \in Procs \ {p} : op'[q] = op[q]
      BY <1>0, <2>1 DEF TypeOK
    <2>5. OpSafe(p)'
      BY <2>2, <2>3, <2>4 DEF OpSafe, Honest
    <2>6. Keeps /\ FilesHonest'
      BY <1>3, FilesKept DEF GoldenHash, Keeps, AllSafe, authored, published
    <2> QED BY <1>0, <2>4, <2>5, <2>6, ActorSafe
  <1>4. CASE LinkActual(p) /\ ~Done(p)
    <2>1. op' = [op EXCEPT ![p].pc = "report"] /\ op[p].pc = "actual"
      BY <1>4 DEF LinkActual
    <2>2. /\ op'[p].pc = "report" /\ op'[p].draft = op[p].draft
          /\ op'[p].entries = op[p].entries /\ op'[p].loaded = op[p].loaded
          /\ \A q \in Procs \ {p} : op'[q] = op[q]
      BY <1>0, <2>1 DEF TypeOK, Command
    <2>3. OpSafe(p)'
      BY <1>0, <2>1, <2>2 DEF OpSafe, Honest, Proved, Sound, Passing
    <2>4. Keeps /\ FilesHonest'
      BY <1>4, FilesKept DEF LinkActual, Keeps, AllSafe, authored
    <2> QED BY <1>0, <2>2, <2>3, <2>4, ActorSafe
  <1>5. CASE LinkReport(p)
    <2> DEFINE r == op[p].rule
    <2>1. r \in Rules /\ op[p].draft \in Report /\ Honest(op[p].draft) /\ op[p].pc = "report"
      BY <1>0, <1>5 DEF LinkReport, Shape, OpSafe
    <2>2. CASE report[r] = None
      <3>1. report' = [report EXCEPT ![r] = op[p].draft] /\ UNCHANGED <<authored, manifest>>
        BY <1>5, <2>2 DEF LinkReport
      <3>2. op'[p] = Idle /\ \A q \in Procs \ {p} : op'[q] = op[q]
        BY <1>0, <1>5, <2>2 DEF LinkReport, Done, TypeOK
      <3>3. Keeps
        BY <2>1, <2>2, <3>1 DEF Keeps, authored, TypeOK
      <3>4. FilesHonest'
        <4>1. \A s \in Rules : report'[s] = IF s = r THEN op[p].draft ELSE report[s]
          BY <3>1 DEF TypeOK
        <4>2. UNCHANGED <<approval, manifest>>
          BY <3>1 DEF authored
        <4>3. ASSUME NEW s \in Rules, report'[s] # None PROVE Honest(report'[s])
          <5>1. CASE s = r
            BY <2>1, <4>1, <5>1
          <5>2. CASE s # r
            <6>1. report'[s] = report[s]
              BY <4>1, <5>2
            <6> QED BY <4>3, <6>1 DEF FilesHonest, AllSafe
          <5> QED BY <5>1, <5>2
        <4> QED BY <4>2, <4>3 DEF FilesHonest, AllSafe, Honest
      <3> QED BY <1>0, <3>2, <3>3, <3>4, IdleSafe, ActorSafe
    <2>3. CASE report[r] # None
      <3>1. op' = [op EXCEPT ![p].pc = "unlink_actual"] /\ UNCHANGED <<authored, report, manifest>>
        BY <1>5, <2>3 DEF LinkReport
      <3>2. /\ op'[p].pc = "unlink_actual"
            /\ op'[p].entries = op[p].entries /\ op'[p].loaded = op[p].loaded
            /\ \A q \in Procs \ {p} : op'[q] = op[q]
        BY <1>0, <3>1 DEF TypeOK, Command
      <3>3. OpSafe(p)'
        BY <1>0, <3>2 DEF OpSafe, Honest, Proved, Sound, Passing
      <3>4. Keeps /\ FilesHonest'
        BY <3>1, FilesKept DEF Keeps, AllSafe, authored
      <3> QED BY <1>0, <3>2, <3>3, <3>4, ActorSafe
    <2> QED BY <2>2, <2>3
  <1>6. RollbackActual(p) => Done(p)
    BY DEF RollbackActual
  <1> QED BY <1>1, <1>2, <1>3, <1>4, <1>5, <1>6 DEF Golden

LEMMA ActivateSafe ==
    ASSUME TypeOK, ShapeInv, AllSafe, NEW p \in Activators, Activate(p)
    PROVE  AllSafe'
  <1>0. p \in Procs /\ op[p] \in Command /\ Shape(op[p]) /\ OpSafe(p)
    BY Roles DEF TypeOK, ShapeInv, AllSafe
  <1>k. Keeps /\ UNCHANGED <<report, approval>>
    BY DEF Keeps, Activate, ActivateBegin, ActivateVerify, BuildEntries, LinkBlocked,
           LinkManifest, LinkAnnounce, RollbackManifest, authored, published
  <1>m. ASSUME NEW v, op' = [op EXCEPT ![p] = v], UNCHANGED manifest,
               v.pc \in Activating \cup {"idle"}, v.loaded = {},
               \A e \in v.entries : Honest(e.approval.report)
        PROVE  AllSafe'
    <2>1. op'[p] = v /\ \A q \in Procs \ {p} : op'[q] = op[q]
      BY <1>0, <1>m DEF TypeOK
    <2>2. OpSafe(p)'
      BY <1>m, <2>1 DEF OpSafe, Honest, Activating
    <2>3. FilesHonest'
      BY <1>k, <1>m, FilesKept DEF AllSafe
    <2> QED BY <1>0, <1>k, <2>1, <2>2, <2>3, ActorSafe
  <1>d. ASSUME Done(p), UNCHANGED manifest PROVE AllSafe'
    <2>1. Idle.pc = "idle" /\ Idle.loaded = {} /\ Idle.entries = {}
      BY DEF Idle
    <2> QED BY <1>d, <1>m, <2>1 DEF Done
  <1>g. ASSUME NEW s \in {"announce", "unlink_manifest"}, op' = [op EXCEPT ![p].pc = s], FilesHonest'
        PROVE  AllSafe'
    <2>1. /\ op'[p].pc = s
          /\ op'[p].entries = op[p].entries /\ op'[p].loaded = op[p].loaded
          /\ \A q \in Procs \ {p} : op'[q] = op[q]
      BY <1>0, <1>g DEF TypeOK, Command
    <2>2. OpSafe(p)'
      BY <1>0, <2>1 DEF OpSafe, Honest, Proved, Sound, Passing
    <2> QED BY <1>0, <1>k, <1>g, <2>1, <2>2, ActorSafe
  <1>1. CASE ActivateBegin(p)
    <2> DEFINE v == [Idle EXCEPT !.pc = "verify", !.todo = {r \in Rules : approval[r] # None}]
    <2>1. op' = [op EXCEPT ![p] = v] /\ UNCHANGED manifest
      BY <1>1 DEF ActivateBegin, published
    <2>2. v.pc = "verify" /\ v.loaded = {} /\ v.entries = {}
      BY DEF Idle
    <2> HIDE DEF v
    <2> QED BY <1>m, <2>1, <2>2 DEF Activating
  <1>2. ASSUME NEW r \in Rules, ActivateVerify(p, r) PROVE AllSafe'
    <2> DEFINE good == approval[r] # None /\ Verified(r, approval[r], "ACTIVATION")
               N == IF good THEN {[rule |-> r, approval |-> approval[r],
                                   hash |-> approval[r]]} ELSE {}
               v == [Idle EXCEPT !.pc = "verify", !.todo = op[p].todo \ {r},
                     !.entries = op[p].entries \cup N, !.blocked = op[p].blocked \/ ~good]
    <2>1. op' = [op EXCEPT ![p] = v] /\ UNCHANGED manifest
      BY <1>2 DEF ActivateVerify, published
    <2>2. v.pc = "verify" /\ v.loaded = {} /\ v.entries = op[p].entries \cup N
      BY DEF Idle
    <2>3. \A e \in N : Honest(e.approval.report)
      BY DEF AllSafe, FilesHonest
    <2>4. \A e \in op[p].entries : Honest(e.approval.report)
      BY <1>0 DEF OpSafe
    <2> HIDE DEF v, N
    <2> QED BY <1>m, <2>1, <2>2, <2>3, <2>4 DEF Activating
  <1>3. CASE BuildEntries(p)
    <2>0. UNCHANGED manifest
      BY <1>3 DEF BuildEntries, published
    <2> DEFINE E == {[rule |-> e.rule, approval |-> e.approval,
                      hash |-> approval[e.rule]] : e \in op[p].entries}
               v == [Idle EXCEPT !.pc = "manifest", !.entries = E]
               w == [Idle EXCEPT !.pc = "blocked"]
    <2>1. op' = [op EXCEPT ![p] = v] \/ op' = [op EXCEPT ![p] = w] \/ Done(p)
      BY <1>3 DEF BuildEntries
    <2>2. /\ v.pc = "manifest" /\ v.loaded = {} /\ v.entries = E
          /\ w.pc = "blocked" /\ w.loaded = {} /\ w.entries = {}
      BY DEF Idle
    <2>3. \A e \in E : Honest(e.approval.report)
      BY <1>0 DEF OpSafe
    <2> HIDE DEF v, w, E
    <2>4. CASE op' = [op EXCEPT ![p] = v]
      BY <1>m, <2>0, <2>2, <2>3, <2>4 DEF Activating
    <2>5. CASE op' = [op EXCEPT ![p] = w]
      BY <1>m, <2>0, <2>2, <2>5 DEF Activating
    <2> QED BY <1>d, <2>0, <2>1, <2>4, <2>5
  <1>4. CASE LinkBlocked(p)
    BY <1>4, <1>d DEF LinkBlocked
  <1>5. CASE LinkManifest(p)
    <2>1. CASE manifest = NoManifest
      <3>1. manifest'.entries = op[p].entries /\ op' = [op EXCEPT ![p].pc = "announce"]
        BY <1>5, <2>1 DEF LinkManifest
      <3>2. FilesHonest'
        BY <1>0, <1>k, <3>1 DEF FilesHonest, AllSafe, OpSafe, Honest
      <3> QED BY <1>g, <3>1, <3>2
    <2>2. CASE manifest # NoManifest
      BY <1>5, <1>d, <2>2 DEF LinkManifest
    <2> QED BY <2>1, <2>2
  <1>6. CASE LinkAnnounce(p)
    <2>1. UNCHANGED manifest /\ FilesHonest'
      BY <1>6, <1>k, FilesKept DEF LinkAnnounce, AllSafe
    <2> QED BY <1>6, <1>d, <1>g, <2>1 DEF LinkAnnounce
  <1>7. CASE RollbackManifest(p)
    <2>1. op'[p] = Idle /\ \A q \in Procs \ {p} : op'[q] = op[q]
      BY <1>0, <1>7 DEF RollbackManifest, Done, TypeOK
    <2>2. FilesHonest'
      BY <1>7, <1>k DEF RollbackManifest, NoManifest, FilesHonest, AllSafe, Honest
    <2> QED BY <1>0, <1>k, <2>1, <2>2, IdleSafe, ActorSafe
  <1> QED BY <1>1, <1>2, <1>3, <1>4, <1>5, <1>6, <1>7 DEF Activate

LEMMA LoadSafe ==
    ASSUME TypeOK, ShapeInv, AllSafe, NEW p \in Loaders, Load(p)
    PROVE  AllSafe'
  <1>0. p \in Procs /\ op[p] \in Command /\ Shape(op[p]) /\ OpSafe(p)
    BY Roles DEF TypeOK, ShapeInv, AllSafe
  <1>k. UNCHANGED <<authored, published>>
    BY DEF Load, LoadManifest, VerifyEntry, ReadRule, LoadSelect, Return
  <1>f. Keeps /\ FilesHonest'
    BY <1>k, FilesKept DEF Keeps, AllSafe, authored, published
  <1>m. ASSUME NEW v, op' = [op EXCEPT ![p] = v], op'[p] = v => OpSafe(p)' PROVE AllSafe'
    <2>1. op'[p] = v /\ \A q \in Procs \ {p} : op'[q] = op[q]
      BY <1>0, <1>m DEF TypeOK
    <2> QED BY <1>0, <1>f, <1>m, <2>1, ActorSafe
  <1>d. ASSUME Done(p) PROVE AllSafe'
    BY <1>0, <1>d, <1>m, IdleSafe DEF Done
  <1>a. ASSUME NEW s, NEW X, NEW c, Answer(p, s, X, c), \A x \in X : Proved(x),
               \A x \in X : Applies(x.entry.approval.scope, c)
        PROVE  AllSafe'
    <2> DEFINE v == [Idle EXCEPT !.pc = "answered", !.answer = s, !.loaded = X, !.context = c]
    <2>1. op' = [op EXCEPT ![p] = v]
      BY <1>a DEF Answer
    <2>2. v.pc = "answered" /\ v.loaded = X /\ v.entries = {} /\ v.context = c
      BY DEF Idle
    <2> HIDE DEF v
    <2>3. op'[p] = v => OpSafe(p)'
      BY <1>a, <2>2 DEF OpSafe, Proved, Sound, Passing, Honest, Applies
    <2> QED BY <1>m, <2>1, <2>3
  <1>1. ASSUME NEW c \in Contexts, LoadManifest(p, c) PROVE AllSafe'
    <2>1. CASE manifest = NoManifest
      <3>1. Answer(p, "BLOCKED", {}, c)
        BY <1>1, <2>1 DEF LoadManifest
      <3> QED BY <1>a, <3>1
    <2>2. CASE manifest # NoManifest
      <3> DEFINE v == [Idle EXCEPT !.pc = "load", !.context = c,
                       !.entries = manifest.entries, !.todo = manifest.entries]
      <3>1. op' = [op EXCEPT ![p] = v]
        BY <1>1, <2>2 DEF LoadManifest
      <3>2. /\ v.pc = "load" /\ v.loaded = {}
            /\ v.entries = manifest.entries /\ v.todo = manifest.entries
        BY DEF Idle
      <3> HIDE DEF v
      <3>3. op'[p] = v => OpSafe(p)'
        BY <3>2 DEF OpSafe, Honest, AllSafe, FilesHonest
      <3> QED BY <1>m, <3>1, <3>3
    <2> QED BY <2>1, <2>2
  <1>2. ASSUME NEW e \in op[p].todo, VerifyEntry(p, e) PROVE AllSafe'
    <2> DEFINE good == /\ approval[e.rule] = e.hash
                       /\ e.approval = e.hash
                       /\ Verified(e.rule, e.hash, "RUNTIME")
               v == [pc |-> IF good THEN "read" ELSE "load", rule |-> None, draft |-> None,
                     answer |-> None, entry |-> e, context |-> op[p].context,
                     entries |-> op[p].entries, loaded |-> op[p].loaded,
                     todo |-> op[p].todo \ {e}, blocked |-> op[p].blocked \/ ~good]
    <2>1. op' = [op EXCEPT ![p] = v]
      BY <1>2 DEF VerifyEntry
    <2>2. op[p].todo \subseteq op[p].entries /\ op[p].pc = "load"
      BY <1>0, <1>2 DEF VerifyEntry, OpSafe
    <2>3. good => Intact(e) /\ Sound(e.approval)
      BY DEF Verified, Intact, Sound
    <2>4. Honest(e.approval.report)
      BY <1>0, <1>2, <2>2 DEF OpSafe
    <2>5. Intact(e) => Intact(e)'
      BY <1>k DEF Intact, authored, published
    <2>6. ~(op[p].blocked \/ ~good) => \A f \in op[p].entries \ (op[p].todo \ {e}) : Intact(f)
      BY <1>0, <2>2, <2>3 DEF OpSafe
    <2> HIDE DEF good
    <2>7. /\ v.pc \in {"read", "load"} /\ (v.pc = "read" => good) /\ v.entry = e
          /\ v.entries = op[p].entries /\ v.loaded = op[p].loaded
          /\ v.todo = op[p].todo \ {e} /\ (~v.blocked => ~(op[p].blocked \/ ~good))
      OBVIOUS
    <2> HIDE DEF v
    <2>8. ASSUME op'[p] = v PROVE OpSafe(p)'
      <3>1. /\ \A f \in op'[p].entries : Honest(f.approval.report)
            /\ \A x \in op'[p].loaded : Proved(x)
            /\ op'[p].todo \subseteq op'[p].entries
        BY <1>0, <2>2, <2>7, <2>8 DEF OpSafe
      <3>2. ~op'[p].blocked => \A f \in op'[p].entries \ op'[p].todo : Intact(f)
        BY <2>6, <2>7, <2>8
      <3>3. \A f : Intact(f) => Intact(f)'
        BY <1>k DEF Intact, authored, published
      <3>4. op'[p].pc = "read" =>
                /\ Intact(op[p].entry)' /\ Sound(op'[p].entry.approval)
                /\ Honest(op'[p].entry.approval.report)
        <4>1. op'[p].entry = e
          BY <2>7, <2>8
        <4>2. op'[p].pc = "read" => Intact(e)' /\ Sound(e.approval)
          BY <2>3, <2>5, <2>7, <2>8
        <4>3. Intact(e)' => Intact(op[p].entry)'
          BY <4>1 DEF Intact
        <4> QED BY <2>4, <4>1, <4>2, <4>3
      <3>5. op'[p].pc \in {"read", "load"}
        BY <2>7, <2>8
      <3> QED BY <3>1, <3>2, <3>3, <3>4, <3>5 DEF OpSafe, Honest, Proved, Sound, Passing
    <2> QED BY <1>m, <2>1, <2>8
  <1>3. CASE ReadRule(p) /\ ~Done(p)
    <2> DEFINE e == op[p].entry
               x == [entry |-> e, body |-> approved[e.rule]]
               v == [pc |-> "load", rule |-> None, draft |-> None,
                     answer |-> None, entry |-> None, context |-> op[p].context,
                     entries |-> op[p].entries, todo |-> op[p].todo,
                     blocked |-> op[p].blocked, loaded |-> op[p].loaded \cup {x}]
    <2>1. op' = [op EXCEPT ![p] = v] /\ op[p].pc = "read"
      BY <1>3 DEF ReadRule
    <2>2. Proved(x)
      BY <1>0, <2>1 DEF OpSafe, Intact, Proved
    <2> HIDE DEF x
    <2>3. /\ v.pc = "load" /\ v.entries = op[p].entries /\ v.todo = op[p].todo
          /\ v.blocked = op[p].blocked /\ v.loaded = op[p].loaded \cup {x}
      OBVIOUS
    <2> HIDE DEF v
    <2>4. ASSUME op'[p] = v PROVE OpSafe(p)'
      <3>1. /\ \A f \in op'[p].entries : Honest(f.approval.report)
            /\ \A y \in op'[p].loaded : Proved(y)
            /\ op'[p].todo \subseteq op'[p].entries
            /\ ~op'[p].blocked => \A f \in op'[p].entries \ op'[p].todo : Intact(f)
        BY <1>0, <2>1, <2>2, <2>3, <2>4 DEF OpSafe
      <3>2. \A f : Intact(f) => Intact(f)'
        BY <1>k DEF Intact, authored, published
      <3> QED BY <2>3, <2>4, <3>1, <3>2 DEF OpSafe, Honest, Proved, Sound, Passing
    <2> QED BY <1>m, <2>1, <2>4
  <1>4. CASE LoadSelect(p)
    <2>1. /\ \A x \in Selected(p) : Proved(x)
          /\ \A x \in Selected(p) : Applies(x.entry.approval.scope, op[p].context)
      BY <1>0 DEF OpSafe, Selected
    <2> QED BY <1>4, <1>a, <2>1 DEF LoadSelect
  <1> QED BY <1>1, <1>2, <1>3, <1>4, <1>d DEF Load, Return

\* Authoring publishes only what was not there.
LEMMA AuthorSafe ==
    ASSUME TypeOK, ShapeInv, AllSafe, NEW r \in Rules,
           ApproveCandidate(r) \/ \E s \in Scopes : WriteApproval(r, s)
    PROVE  AllSafe'
  <1>1. CASE ApproveCandidate(r)
    <2>1. op' = op /\ UNCHANGED <<report, approval, manifest>>
      BY <1>1 DEF ApproveCandidate, published
    <2>2. Keeps
      BY <1>1 DEF ApproveCandidate, Keeps, TypeOK, published
    <2> QED BY <2>1, <2>2, FilesKept, OthersSafe DEF AllSafe
  <1>2. ASSUME NEW s \in Scopes, WriteApproval(r, s) PROVE AllSafe'
    <2>1. op' = op /\ UNCHANGED <<report, manifest>>
      BY <1>2 DEF WriteApproval, published
    <2>2. Keeps
      BY <1>2 DEF WriteApproval, Keeps, TypeOK, published
    <2>3. Honest(report[r])
      BY <1>2 DEF WriteApproval, AllSafe, FilesHonest
    <2>4. \A t \in Rules : approval'[t] = approval[t] \/ approval'[t].report = report[r]
      BY <1>2 DEF WriteApproval, TypeOK
    <2>5. FilesHonest'
      BY <2>1, <2>3, <2>4 DEF FilesHonest, AllSafe, Honest
    <2> QED BY <2>1, <2>2, <2>5, OthersSafe DEF AllSafe
  <1> QED BY <1>1, <1>2

\* An edit that is not under a command that reads the file twice.
LEMMA EditSafe ==
    ASSUME TypeOK, ShapeInv, AllSafe, NEW r \in Rules, Edit(r), ~raced'
    PROVE  AllSafe'
  <1>1. op' = op /\ \A p \in Procs : op[p].pc \notin CheckThenUse
    BY DEF Edit
  <1>2. ASSUME NEW p \in Procs PROVE OpSafe(p)'
    <2>1. OpSafe(p) /\ op[p].pc \notin CheckThenUse
      BY <1>1 DEF AllSafe
    <2> QED BY <1>1, <2>1 DEF OpSafe, CheckThenUse, Honest, Proved, Sound, Passing, Applies
  <1>g. \A rep \in Genuine : Honest(rep)
    BY DEF Genuine, Honest
  <1>3. \A t \in Rules : report'[t] # None => Honest(report'[t])
    <2>1. \A t \in Rules : report'[t] = report[t] \/ report'[t] \in Genuine \cup {None}
      BY DEF Edit, TypeOK, published
    <2> QED BY <2>1, <1>g DEF AllSafe, FilesHonest
  <1>4. \A t \in Rules : approval'[t] # None => Honest(approval'[t].report)
    <2> SUFFICES ASSUME NEW t \in Rules, approval'[t] # None PROVE Honest(approval'[t].report)
      OBVIOUS
    <2>1. CASE approval'[t] = approval[t]
      BY <2>1 DEF AllSafe, FilesHonest
    <2>2. CASE approval[t] # None /\ approval'[t] \in Revised(approval[t])
      <3>1. approval[t] \in Approval
        BY <2>2 DEF TypeOK
      <3>2. approval'[t].report = approval[t].report \/ approval'[t].report \in Genuine
        BY <2>2, <3>1, RevisedIs
      <3> QED BY <2>2, <3>2, <1>g DEF AllSafe, FilesHonest
    <2> QED BY <2>1, <2>2, EditedApproval
  <1>5. \A e \in manifest'.entries : Honest(e.approval.report)
    <2>1. CASE manifest' \in {manifest, NoManifest}
      BY <2>1 DEF AllSafe, FilesHonest, NoManifest
    <2>2. ASSUME NEW entries \in RevisedSet(manifest.entries),
                 manifest' = [manifest EXCEPT !.entries = entries], NEW f \in manifest'.entries
          PROVE  Honest(f.approval.report)
      <3>1. manifest \in [entries : SUBSET Entry, by : Activators \cup {None}]
        BY DEF TypeOK
      <3>2. manifest.entries \in SUBSET Entry /\ f \in entries
        BY <2>2, <3>1
      <3>3. PICK e \in manifest.entries : \/ f.approval.report = e.approval.report
                                          \/ f.approval.report \in Genuine
        BY <2>2, <3>2, RevisedSetIs
      <3> QED BY <3>3, <1>g DEF AllSafe, FilesHonest
    <2> QED BY <2>1, <2>2, EditedManifest
  <1>6. FilesHonest'
    BY <1>3, <1>4, <1>5 DEF FilesHonest, Honest
  <1> QED BY <1>2, <1>6 DEF AllSafe

-----------------------------------------------------------------------------
(* The invariant.                                                          *)

GovInv == TypeOK /\ ShapeInv /\ AnnouncerDone /\ (~raced => AllSafe)

LEMMA InitGov == Init => GovInv
  <1> SUFFICES ASSUME Init PROVE GovInv
    OBVIOUS
  <1>1. TypeOK /\ ShapeInv
    BY InitType
  <1>2. AnnouncerDone
    BY DEF Init, AnnouncerDone, NotAnnounced
  <1>3. FilesHonest
    BY DEF Init, FilesHonest, NoManifest
  <1>4. \A p \in Procs : OpSafe(p)
    BY DEF Init, OpSafe, Idle
  <1> QED BY <1>1, <1>2, <1>3, <1>4 DEF GovInv, AllSafe

LEMMA GovStep == GovInv /\ [Next]_vars => GovInv'
  <1> SUFFICES ASSUME GovInv, [Next]_vars PROVE GovInv'
    OBVIOUS
  <1>1. TypeOK' /\ ShapeInv' /\ AnnouncerDone'
    BY TypeStep, AnnouncerStep DEF GovInv
  <1>2. ASSUME ~raced' PROVE AllSafe'
    <2>1. ASSUME NEW r \in Rules, Edit(r) PROVE AllSafe'
      <3>1. ~raced
        BY <1>2, <2>1 DEF Edit
      <3> QED BY <1>2, <2>1, <3>1, EditSafe DEF GovInv
    <2>2. CASE ~\E r \in Rules : Edit(r)
      <3>1. ~raced
        BY <1>2, <2>2 DEF Next, vars, people, ApproveCandidate, WriteApproval, Golden, GoldenEvaluate,
           GoldenHash, LinkActual, LinkReport, RollbackActual, Activate, ActivateBegin,
           ActivateVerify, BuildEntries, LinkBlocked, LinkManifest, LinkAnnounce, RollbackManifest,
           Load, LoadManifest, VerifyEntry, ReadRule, LoadSelect, Return, Crash
      <3>2. TypeOK /\ ShapeInv /\ AllSafe
        BY <3>1 DEF GovInv
      <3>3. ASSUME NEW p \in Runners \cup Activators, Crash(p) PROVE AllSafe'
        <4>1. p \in Procs
          BY Roles
        <4>2. op'[p] = Idle /\ \A q \in Procs \ {p} : op'[q] = op[q]
          BY <3>2, <3>3, <4>1 DEF Crash, Done, TypeOK
        <4>3. Keeps /\ FilesHonest'
          BY <3>2, <3>3, FilesKept DEF Crash, Keeps, AllSafe, authored, published
        <4> QED BY <3>2, <4>1, <4>2, <4>3, IdleSafe, ActorSafe
      <3>4. CASE UNCHANGED vars
        <4>1. Keeps /\ FilesHonest' /\ op' = op
          BY <3>2, <3>4, FilesKept DEF vars, Keeps, AllSafe, authored, published
        <4> QED BY <3>2, <4>1, OthersSafe DEF AllSafe
      <3> QED BY <2>2, <3>2, <3>3, <3>4, GoldenSafe, ActivateSafe, LoadSafe, AuthorSafe DEF Next
    <2> QED BY <2>1, <2>2
  <1> QED BY <1>1, <1>2 DEF GovInv

\* Documents and commands rest on what they name, in every state.
THEOREM GovernanceInvariant == Spec => []GovInv
  BY InitGov, GovStep, PTL DEF Spec

\* A rule that load_governed_active_rules answers is proved: approved, passing its
\* golden cases and in scope.
THEOREM LoadedRuleProvedHolds == Spec => []LoadedRuleProved
  <1>1. GovInv => LoadedRuleProved
    <2> SUFFICES ASSUME GovInv, ~raced, NEW p \in Loaders, op[p].pc = "answered",
                        NEW x \in op[p].loaded
                 PROVE  LET a == x.entry.approval IN
                        /\ x.body = a.approved
                        /\ Evaluate[x.body][a.report.fixture] = a.report.expected
                        /\ \A d \in Dims : a.scope[d] # NoValue => op[p].context[d] = a.scope[d]
      BY DEF LoadedRuleProved
    <2>1. Proved(x) /\ Applies(x.entry.approval.scope, op[p].context)
      BY Roles DEF GovInv, AllSafe, OpSafe
    <2> QED BY <2>1 DEF Proved, Sound, Passing, Honest, Applies
  <1> QED BY <1>1, GovernanceInvariant, PTL

\* One damaged entry blocks the whole active set.
THEOREM DamagedSetBlockedHolds == Spec => DamagedSetBlocked
  <1> DEFINE A == \A p \in Loaders :
          (/\ op[p].pc = "load" /\ op'[p].pc = "answered"
           /\ op'[p].answer # "BLOCKED" /\ ~raced)
          => \A e \in op[p].entries : Intact(e)
  <1>1. GovInv /\ [Next]_vars => [A]_vars
    <2> SUFFICES ASSUME GovInv, Next, NEW p \in Loaders, op[p].pc = "load",
                        op'[p].pc = "answered", op'[p].answer # "BLOCKED", ~raced
                 PROVE  \A e \in op[p].entries : Intact(e)
      OBVIOUS
    <2>0. p \in Procs /\ op[p] \in Command /\ OpSafe(p) /\ TypeOK
      BY Roles DEF GovInv, TypeOK, AllSafe
    <2>1. op[p].blocked = FALSE /\ op[p].todo = {}
      <3>0. ~op[p].blocked /\ op[p].todo = {} => op[p].blocked = FALSE /\ op[p].todo = {}
        BY <2>0 DEF Command
      <3>1. op'[p] # op[p] /\ op'[p] # Idle
        BY DEF Idle
      <3>2. ASSUME NEW r \in Rules, ApproveCandidate(r) \/ Edit(r) \/ \E s \in Scopes : WriteApproval(r, s)
            PROVE  FALSE
        BY <3>1, <3>2 DEF ApproveCandidate, Edit, WriteApproval
      <3>3. ASSUME NEW q \in Runners, Golden(q) PROVE FALSE
        <4>1. op[q].pc # "load" /\ (\A t \in Procs \ {q} : op'[t] = op[t])
          BY <2>0, <3>3, Roles DEF Golden, GoldenEvaluate, GoldenHash, LinkActual, LinkReport,
             RollbackActual, Done, TypeOK
        <4> QED BY <2>0, <3>1, <4>1
      <3>4. ASSUME NEW q \in Activators, Activate(q) PROVE FALSE
        <4>1. op[q].pc # "load" /\ (\A t \in Procs \ {q} : op'[t] = op[t])
          BY <2>0, <3>4, Roles DEF Activate, ActivateBegin, ActivateVerify, BuildEntries,
             LinkBlocked, LinkManifest, LinkAnnounce, RollbackManifest, Done, TypeOK
        <4> QED BY <2>0, <3>1, <4>1
      <3>5. ASSUME NEW q \in Runners \cup Activators, Crash(q) PROVE FALSE
        BY <2>0, <3>1, <3>5, Roles DEF Crash, Done, TypeOK
      <3>6. ASSUME NEW q \in Loaders, Load(q), q # p PROVE FALSE
        <4>1. op'[p] = op[p]
          BY <2>0, <3>6, Roles DEF Load, LoadManifest, Answer, VerifyEntry, ReadRule, LoadSelect,
             Return, Done, TypeOK
        <4> QED BY <3>1, <4>1
      <3>7. ASSUME Load(p) PROVE ~op[p].blocked /\ op[p].todo = {}
        <4>1. ASSUME NEW e \in op[p].todo, VerifyEntry(p, e) PROVE FALSE
          <5>1. op'[p].pc \in {"read", "load"}
            BY <2>0, <4>1 DEF VerifyEntry, TypeOK
          <5> QED BY <5>1
        <4>2. LoadSelect(p)
          BY <3>7, <4>1 DEF Load, LoadManifest, ReadRule, Return
        <4>3. ASSUME op[p].blocked PROVE FALSE
          <5>1. Answer(p, "BLOCKED", {}, op[p].context)
            BY <4>2, <4>3 DEF LoadSelect
          <5>2. op'[p].answer = "BLOCKED"
            BY <2>0, <5>1 DEF Answer, Idle, TypeOK
          <5> QED BY <5>2
        <4> QED BY <4>2, <4>3 DEF LoadSelect
      <3> QED BY <3>0, <3>2, <3>3, <3>4, <3>5, <3>6, <3>7 DEF Next
    <2> QED BY <2>0, <2>1 DEF OpSafe
  <1> QED BY <1>1, GovernanceInvariant, PTL DEF Spec, DamagedSetBlocked

\* No command but a person's edit takes the manifest of a reported activation away.
THEOREM AnnouncedManifestStaysHolds == Spec => AnnouncedManifestStays
  <1> DEFINE A == (/\ announced.status = "ACTIVATED" /\ manifest.by = announced.by
                   /\ edits' = edits)
                  => manifest' = manifest
  <1>1. GovInv /\ [Next]_vars => [A]_vars
    <2> SUFFICES ASSUME GovInv, Next, announced.status = "ACTIVATED",
                        manifest.by = announced.by, edits' = edits
                 PROVE  manifest' = manifest
      OBVIOUS
    <2>0. /\ TypeOK /\ manifest.by \in Activators
          /\ op[manifest.by].pc \notin Activating /\ manifest # NoManifest
      BY Roles, RuleAssumption DEF GovInv, AnnouncerDone, NoManifest
    <2>1. ASSUME NEW r \in Rules, Edit(r) PROVE FALSE
      <3>1. edits \in Nat
        BY <2>0, RuleAssumption DEF TypeOK
      <3> QED BY <2>1, <3>1 DEF Edit
    <2>2. ASSUME NEW p \in Activators, Activate(p) PROVE manifest' = manifest
      BY <2>0, <2>2 DEF Activate, ActivateBegin, ActivateVerify, BuildEntries, LinkBlocked,
         LinkManifest, LinkAnnounce, RollbackManifest, published, Activating
    <2> QED BY <2>1, <2>2 DEF Next, ApproveCandidate, WriteApproval, Golden, GoldenEvaluate,
           GoldenHash, LinkActual, LinkReport, RollbackActual, Load, LoadManifest, VerifyEntry,
           ReadRule, LoadSelect, Return, Crash, published
  <1> QED BY <1>1, GovernanceInvariant, PTL DEF Spec, AnnouncedManifestStays

\* A load answers from the whole active set or not at all, and no failing
\* activation takes the set of a reported one away.
THEOREM ActiveSetIsWholeHolds == Spec => ActiveSetIsWhole
  BY DamagedSetBlockedHolds, AnnouncedManifestStaysHolds, PTL DEF ActiveSetIsWhole
----------------------------------------------------------------------------
(* The Math Engine, for any requests, any unit and any precision.          *)

\* Division with a positive divisor.
LEMMA DivisionBounds ==
    ASSUME NEW x \in Int, NEW d \in Int, d > 0
    PROVE  /\ x \div d \in Int
           /\ (x \div d) * d <= x /\ x < (x \div d) * d + d
  <1>1. x \div d \in Int /\ x % d \in 0 .. d - 1 /\ x = d * (x \div d) + (x % d)
    OBVIOUS
  <1> DEFINE q == x \div d
             m == x % d
  <1>2. q \in Int /\ m \in 0 .. d - 1 /\ x = d * q + m
    BY <1>1
  <1> HIDE DEF q, m
  <1>3. d * q = q * d /\ q * d \in Int
    BY <1>2
  <1>4. q * d <= x /\ x < q * d + d
    BY <1>2, <1>3
  <1> QED BY <1>2, <1>4 DEF q

\* Multiplying by a positive number keeps an order.
LEMMA ProductOrder ==
    ASSUME NEW x \in Int, NEW y \in Int, NEW z \in Int, z > 0
    PROVE  x < y <=> x * z < y * z
  OBVIOUS

\* A quotient rounded half up is below (above) a whole number k only if the exact
\* one is.
LEMMA RoundedSide ==
    ASSUME NEW n \in Int, NEW b \in Int, b > 0, NEW k \in Int,
           NEW q \in Int, q = (2 * n + b) \div (2 * b)
    PROVE  /\ q < k => n < k * b
           /\ q > k => n > k * b
  <1> DEFINE d == 2 * b
             kb == k * b
             qd == q * d
  <1>1. d \in Int /\ d > 0 /\ 2 * n + b \in Int /\ kb \in Int /\ qd \in Int
    OBVIOUS
  <1>2. qd <= 2 * n + b /\ 2 * n + b < qd + d
    BY <1>1, DivisionBounds
  <1>3. (k - 1) * d = 2 * kb - 2 * b /\ (k + 1) * d = 2 * kb + 2 * b
    OBVIOUS
  <1>4. ASSUME q < k PROVE n < kb
    <2>1. qd <= (k - 1) * d
      <3>1. q = k - 1 \/ q < k - 1
        BY <1>4
      <3>2. q < k - 1 => q * d < (k - 1) * d
        BY <1>1, ProductOrder
      <3>3. (k - 1) * d \in Int
        BY <1>1
      <3> QED BY <1>1, <3>1, <3>2, <3>3
    <2> HIDE DEF kb, qd
    <2> QED BY <1>1, <1>2, <1>3, <2>1
  <1>5. ASSUME q > k PROVE n > kb
    <2>1. (k + 1) * d <= qd
      <3>1. q = k + 1 \/ k + 1 < q
        BY <1>5
      <3>2. k + 1 < q => (k + 1) * d < q * d
        BY <1>1, ProductOrder
      <3>3. (k + 1) * d \in Int
        BY <1>1
      <3> QED BY <1>1, <3>1, <3>2, <3>3
    <2> HIDE DEF kb, qd
    <2> QED BY <1>1, <1>2, <1>3, <2>1
  <1> QED BY <1>4, <1>5

\* The step of the precision, in units.
LEMMA PrecisionStep ==
    /\ Unit \div Digits \in Nat \ {0} /\ Digits \in Nat \ {0}
    /\ Unit = (Unit \div Digits) * Digits
  <1>1. Unit \in Int /\ Digits \in Int /\ Unit > 0 /\ Digits > 0 /\ Unit % Digits = 0
    BY EvaluationAssumption
  <1>2. Unit = Digits * (Unit \div Digits) + (Unit % Digits) /\ Unit \div Digits \in Int
    BY <1>1
  <1> DEFINE u == Unit \div Digits
  <1> HIDE DEF u
  <1>3. Unit = Digits * u /\ u \in Int
    BY <1>1, <1>2 DEF u
  <1>4. u > 0
    <2>1. u <= 0 => Digits * u <= 0
      BY <1>1, <1>3
    <2> QED BY <1>1, <1>3, <2>1
  <1>5. Digits * u = u * Digits
    BY <1>1, <1>3
  <1> QED BY <1>1, <1>3, <1>4, <1>5 DEF u

\* The comparison of a frontage with a threshold the precision can express.
LEMMA ComparedRight ==
    ASSUME NEW request, request.formula = "FRONTAGE_RATIO",
           NEW a \in Int, NEW b \in Int, NEW t \in Int, b > 0,
           request.inputs["frontage"] = a, request.inputs["perimeter"] = b,
           request.inputs["threshold"] = t,
           t % (Unit \div Digits) = 0
    PROVE  /\ Comparison(request) = "BELOW_THRESHOLD" => a * Unit < t * b
           /\ Comparison(request) = "ABOVE_THRESHOLD" => a * Unit > t * b
           /\ a * Unit = t * b => Comparison(request) = "AT_THRESHOLD"
  <1> DEFINE u == Unit \div Digits
             p == Digits
             q == (2 * a * p + b) \div (2 * b)
             k == t \div u
             n == a * p
  <1>1. u \in Int /\ u > 0 /\ p \in Int /\ p > 0 /\ Unit = u * p /\ t % u = 0
    BY PrecisionStep
  <1>2. Ratio(request) = q * u
    BY DEF Ratio, Quotient
  <1> HIDE DEF u, p
  <1>3. k \in Int /\ t = k * u
    BY <1>1
  <1>4. n \in Int /\ 2 * a * p = 2 * n
    BY <1>1
  <1>5. q \in Int
    <2>1. 2 * a * p + b \in Int /\ 2 * b \in Int /\ 2 * b > 0
      BY <1>1
    <2> QED BY <2>1, DivisionBounds
  <1>6. q = (2 * n + b) \div (2 * b)
    BY <1>4
  <1> HIDE DEF q, k, n
  <1>7. (q < k => n < k * b) /\ (q > k => n > k * b)
    BY <1>3, <1>4, <1>5, <1>6, RoundedSide
  <1>8. (q * u < t <=> q < k) /\ (q * u > t <=> q > k)
    BY <1>1, <1>3, <1>5, ProductOrder
  <1>9. a * Unit = n * u /\ t * b = (k * b) * u
    BY <1>1, <1>3 DEF n
  <1>10. k * b \in Int
    BY <1>3
  <1>11. /\ n < k * b <=> a * Unit < t * b
         /\ n > k * b <=> a * Unit > t * b
    BY <1>1, <1>4, <1>9, <1>10, ProductOrder
  <1>12. a * Unit \in Int /\ t * b \in Int /\ q * u \in Int
    BY <1>1, <1>3, <1>4, <1>5, <1>9, <1>10
  <1>13. Comparison(request) = IF q * u < t THEN "BELOW_THRESHOLD"
                               ELSE IF q * u > t THEN "ABOVE_THRESHOLD"
                               ELSE "AT_THRESHOLD"
    BY <1>2 DEF Comparison
  <1> QED BY <1>7, <1>8, <1>11, <1>12, <1>13

\* A result that nobody falsified is what a registry makes of a request.
MathInv ==
    \A c \in calculations : ~c.falsified => \E request \in Requests : c = RunCalculation(request)

LEMMA MathStep == MathInv /\ [EvaluationNext]_evaluationVars => MathInv'
  <1> SUFFICES ASSUME MathInv, [EvaluationNext]_evaluationVars,
                      NEW c \in calculations', ~c.falsified
               PROVE  \E request \in Requests : c = RunCalculation(request)
    BY DEF MathInv
  <1>1. CASE c \in calculations
    BY <1>1 DEF MathInv
  <1>2. ASSUME NEW request \in Requests, Calculate(request), c \notin calculations
        PROVE  c = RunCalculation(request)
    BY <1>2 DEF Calculate
  <1>3. ASSUME NEW e \in calculations, Alter(e), c \notin calculations
        PROVE  FALSE
    <2>1. PICK rehashed \in BOOLEAN :
             calculations' \subseteq calculations \cup
                {[e EXCEPT !.status = "SUCCESS", !.comparison = "ABOVE_THRESHOLD",
                           !.hashed = rehashed, !.falsified = TRUE]}
      BY <1>3 DEF Alter
    <2>2. PICK request \in Requests : e = RunCalculation(request)
      BY <1>3 DEF MathInv, Alter
    <2>3. c = [e EXCEPT !.status = "SUCCESS", !.comparison = "ABOVE_THRESHOLD",
                        !.hashed = rehashed, !.falsified = TRUE]
      BY <1>3, <2>1
    <2>4. c.falsified = TRUE
      BY <2>2, <2>3 DEF RunCalculation
    <2> QED BY <2>4
  <1> QED BY <1>1, <1>2, <1>3 DEF EvaluationNext, Give, Unresolve, NextCase, evaluationVars

\* A successful frontage has finite numbers and a positive perimeter.
LEMMA FrontageInputs ==
    ASSUME NEW request \in Requests, request.formula = "FRONTAGE_RATIO",
           CalculationStatus(request) = "SUCCESS"
    PROVE  /\ request.inputs["frontage"] \in Int /\ request.inputs["threshold"] \in Int
           /\ request.inputs["perimeter"] \in Int /\ request.inputs["perimeter"] > 0
  <1> DEFINE x == request.inputs
             numbers == {x[n] : n \in Needs[request.formula]}
  <1>1. Needs[request.formula] = {"frontage", "perimeter", "threshold"}
    BY DEF Needs
  <1>2. /\ Needs[request.formula] \subseteq DOMAIN x
        /\ numbers \cap {NotDecimal, Infinite} = {}
        /\ x["perimeter"] # 0
        /\ ~OutOfRange(request)
    BY <1>1 DEF CalculationStatus
  <1>3. \A n \in Needs[request.formula] : x[n] \in Int
    BY <1>2, EvaluationAssumption
  <1>4. \A n \in Needs[request.formula] : ~(x[n] < 0)
    BY <1>1, <1>2 DEF OutOfRange, Needs
  <1>6. x["perimeter"] \in Int /\ ~(x["perimeter"] < 0)
    BY <1>1, <1>3, <1>4
  <1> QED BY <1>1, <1>2, <1>3, <1>6

\* An accepted frontage ratio that nobody falsified, rounded to any precision, is
\* never reported on the wrong side of a threshold that the precision can express.
THEOREM ComparisonIsRightHolds == EvaluationSpec => []ComparisonIsRight
  <1>1. MathInv => ComparisonIsRight
    <2> SUFFICES ASSUME MathInv, NEW c \in calculations, Valid(c), ~c.falsified,
                        c.id.formula = "FRONTAGE_RATIO",
                        c.id.inputs["threshold"] % (Unit \div Digits) = 0
                 PROVE  LET exact == c.id.inputs["frontage"] * Unit
                            limit == c.id.inputs["threshold"] * c.id.inputs["perimeter"]
                        IN  /\ c.comparison = "BELOW_THRESHOLD" => exact < limit
                            /\ c.comparison = "ABOVE_THRESHOLD" => exact > limit
                            /\ exact = limit => c.comparison = "AT_THRESHOLD"
      BY DEF ComparisonIsRight
    <2>1. PICK request \in Requests : c = RunCalculation(request)
      BY DEF MathInv
    <2>2. CalculationStatus(request) = "SUCCESS" /\ c.comparison = Comparison(request)
      BY <2>1 DEF Valid, RunCalculation
    <2>3. request.formula = "FRONTAGE_RATIO" /\ c.id.inputs = request.inputs
      BY <2>1 DEF RunCalculation
    <2>4. /\ request.inputs["frontage"] \in Int /\ request.inputs["threshold"] \in Int
          /\ request.inputs["perimeter"] \in Int /\ request.inputs["perimeter"] > 0
      BY <2>2, <2>3, FrontageInputs
    <2> QED BY <2>2, <2>3, <2>4, ComparedRight
  <1>2. EvaluationInit => MathInv
    BY DEF EvaluationInit, MathInv
  <1> QED BY <1>1, <1>2, MathStep, PTL DEF EvaluationSpec

----------------------------------------------------------------------------
(* The expressions of a rule: induction and recursion over their nesting.  *)

\* A set of numbers that holds 0 and the successor of each of its members holds
\* every number.
LEMMA Counting ==
    ASSUME NEW T \in SUBSET Nat, 0 \in T, \A d \in T : d + 1 \in T
    PROVE  Nat \subseteq T
  <1> SUFFICES ASSUME Nat \ T # {} PROVE FALSE
    OBVIOUS
  <1> DEFINE U == Nat \ T
  <1>1. PICK d \in U : \A x \in U : ~ (<<x, d>> \in OpToRel(<, Nat))
    <2>1. U \in SUBSET Nat /\ U # {}
      OBVIOUS
    <2> HIDE DEF U
    <2> QED BY <2>1, NatLessThanWellFounded, WFMin
  <1>2. \A x \in U : ~ (x < d)
    BY <1>1 DEF OpToRel
  <1>3. d \in Nat /\ d # 0 /\ d - 1 \in Nat /\ d - 1 < d /\ (d - 1) + 1 = d
    OBVIOUS
  <1> QED BY <1>2, <1>3

LEMMA NodeFacts ==
    ASSUME NEW n \in Nodes
    PROVE  /\ Children(n) \subseteq Nodes /\ Depth[n] \in Nat
           /\ \A c \in Children(n) : Depth[c] \in Nat /\ Depth[c] < Depth[n]
           /\ n.is \in {"all", "any", "not", "exists", "calculation", "compare"}
           /\ n.is \in {"calculation", "compare"} => n.operator \in Operators
  BY ExpressionAssumption

\* What passes from the parts of an expression to the expression holds of every one.
LEMMA Nesting ==
    ASSUME NEW T \in SUBSET Nodes, \A n \in Nodes : Children(n) \subseteq T => n \in T
    PROVE  Nodes = T
  <1> SUFFICES ASSUME Nodes \ T # {} PROVE FALSE
    OBVIOUS
  <1> DEFINE U == {Depth[n] : n \in Nodes \ T}
  <1>1. PICK d \in U : \A x \in U : ~ (<<x, d>> \in OpToRel(<, Nat))
    <2>1. U \in SUBSET Nat /\ U # {}
      BY NodeFacts
    <2> HIDE DEF U
    <2> QED BY <2>1, NatLessThanWellFounded, WFMin
  <1>2. PICK n \in Nodes \ T : Depth[n] = d
    OBVIOUS
  <1>3. ASSUME NEW c \in Children(n), c \notin T PROVE FALSE
    <2>1. c \in Nodes /\ Depth[c] < d /\ Depth[c] \in Nat /\ d \in Nat
      BY <1>2, NodeFacts
    <2>2. Depth[c] \in U
      BY <1>3, <2>1
    <2> QED BY <1>1, <2>1, <2>2 DEF OpToRel
  <1> QED BY <1>2, <1>3

\* A function of the expressions may be defined from its values at their parts.
LocalStep(step, V) ==
    /\ step \in [Nodes -> [[Nodes -> V] -> V]]
    /\ \A n \in Nodes : \A f, g \in [Nodes -> V] :
          (\A c \in Children(n) : f[c] = g[c]) => step[n][f] = step[n][g]
Recursive(step, V) == \E f \in [Nodes -> V] : \A n \in Nodes : f[n] = step[n][f]

LEMMA NestedRecursion == ASSUME NEW V, NEW a \in V, NEW step, LocalStep(step, V)
                         PROVE  Recursive(step, V)
  <1>0. /\ step \in [Nodes -> [[Nodes -> V] -> V]]
        /\ \A n \in Nodes : \A f, g \in [Nodes -> V] :
              (\A c \in Children(n) : f[c] = g[c]) => step[n][f] = step[n][g]
    BY DEF LocalStep
  <1> DEFINE Good(f, d) ==
               /\ f \in [Nodes -> V]
               /\ \A n \in Nodes : Depth[n] < d => f[n] = step[n][f]
             Reached == {d \in Nat : \E f : Good(f, d)}
  <1>1. 0 \in Reached
    <2> DEFINE f == [n \in Nodes |-> a]
    <2>1. Good(f, 0)
      BY NodeFacts
    <2> QED BY <2>1
  <1>2. ASSUME NEW d \in Reached PROVE d + 1 \in Reached
    <2>1. d \in Nat /\ d + 1 \in Nat
      OBVIOUS
    <2>2. PICK f : Good(f, d)
      OBVIOUS
    <2> DEFINE g == [n \in Nodes |-> IF Depth[n] < d THEN f[n] ELSE step[n][f]]
    <2>3. g \in [Nodes -> V]
      BY <1>0, <2>2
    <2>4. ASSUME NEW n \in Nodes, Depth[n] < d + 1 PROVE g[n] = step[n][g]
      <3>1. \A c \in Children(n) : c \in Nodes /\ Depth[c] < d
        BY <2>1, <2>4, NodeFacts
      <3>2. \A c \in Children(n) : f[c] = g[c]
        BY <3>1
      <3>3. step[n][f] = step[n][g]
        <4> HIDE DEF g
        <4> QED BY <1>0, <2>2, <2>3, <3>2
      <3> QED BY <2>2, <3>3
    <2>5. Good(g, d + 1)
      BY <2>3, <2>4
    <2> QED BY <2>1, <2>5
  <1>3. \A d \in Nat : \E f : Good(f, d)
    <2> HIDE DEF Reached
    <2>1. Reached \in SUBSET Nat
      BY DEF Reached
    <2>2. Nat \subseteq Reached
      BY <1>1, <1>2, <2>1, Counting
    <2> QED BY <2>2 DEF Reached
  <1> DEFINE Alike == {n \in Nodes :
                 \A f, g \in [Nodes -> V] : \A d, e \in Nat :
                    Good(f, d) /\ Good(g, e) /\ Depth[n] < d /\ Depth[n] < e => f[n] = g[n]}
  <1>4. Nodes = Alike
    <2>1. ASSUME NEW n \in Nodes, Children(n) \subseteq Alike PROVE n \in Alike
      <3> HIDE DEF Good
      <3> SUFFICES ASSUME NEW f \in [Nodes -> V], NEW g \in [Nodes -> V], NEW d \in Nat, NEW e \in Nat,
                          Good(f, d), Good(g, e), Depth[n] < d, Depth[n] < e
                   PROVE  f[n] = g[n]
        OBVIOUS
      <3> USE DEF Good
      <3>1. \A c \in Children(n) : Depth[c] < d /\ Depth[c] < e
        BY NodeFacts
      <3>2. \A c \in Children(n) : f[c] = g[c]
        BY <2>1, <3>1
      <3> QED BY <1>0, <3>2
    <2>2. Alike \in SUBSET Nodes
      OBVIOUS
    <2> HIDE DEF Alike
    <2> QED BY <2>1, <2>2, Nesting
  <1> DEFINE A(n) == CHOOSE f : Good(f, Depth[n] + 1)
             F == [n \in Nodes |-> A(n)[n]]
  <1>5. ASSUME NEW n \in Nodes PROVE Good(A(n), Depth[n] + 1)
    <2> HIDE DEF Good
    <2>1. \E f : Good(f, Depth[n] + 1)
      <3>1. Depth[n] + 1 \in Nat
        BY NodeFacts
      <3> QED BY <1>3, <3>1
    <2> QED BY <2>1 DEF A
  <1> HIDE DEF A
  <1>6. F \in [Nodes -> V]
    BY <1>5
  <1>7. ASSUME NEW n \in Nodes PROVE F[n] = step[n][F]
    <2>1. /\ A(n) \in [Nodes -> V] /\ Depth[n] \in Nat /\ Depth[n] < Depth[n] + 1
          /\ A(n)[n] = step[n][A(n)]
      <3>1. Depth[n] \in Nat /\ Depth[n] < Depth[n] + 1
        BY NodeFacts
      <3> QED BY <1>5, <3>1
    <2>2. ASSUME NEW c \in Children(n) PROVE A(n)[c] = F[c]
      <3>1. /\ c \in Alike /\ c \in Nodes /\ Depth[c] \in Nat
            /\ Depth[c] < Depth[c] + 1 /\ Depth[c] < Depth[n] + 1
            /\ Depth[c] + 1 \in Nat /\ Depth[n] + 1 \in Nat
        <4> HIDE DEF Alike
        <4> QED BY <1>4, <2>1, NodeFacts
      <3>2. Good(A(c), Depth[c] + 1) /\ Good(A(n), Depth[n] + 1)
        BY <1>5, <3>1
      <3>3. A(n)[c] = A(c)[c]
        <4> HIDE DEF Good
        <4>1. A(c) \in [Nodes -> V] /\ A(n) \in [Nodes -> V]
          BY <1>5, <3>1 DEF Good
        <4> QED BY <3>1, <3>2, <4>1
      <3> QED BY <3>1, <3>3
    <2> HIDE DEF F
    <2>3. step[n][A(n)] = step[n][F]
      BY <1>0, <1>6, <2>1, <2>2
    <2> QED BY <2>1, <2>3 DEF F
  <1> QED BY <1>6, <1>7 DEF Recursive

\* An expression with all that it is made of.
LEMMA PartsIs ==
    /\ Parts \in [Nodes -> SUBSET Nodes]
    /\ \A n \in Nodes : Parts[n] = {n} \cup UNION {Parts[c] : c \in Children(n)}
  <1> DEFINE V == SUBSET Nodes
             step == [n \in Nodes |-> [f \in [Nodes -> V] |->
                        {n} \cup UNION {f[c] : c \in Children(n)}]]
  <1>1. step \in [Nodes -> [[Nodes -> V] -> V]] /\ {} \in V
    BY NodeFacts
  <1>2. \A n \in Nodes : \A f \in [Nodes -> V] :
           step[n][f] = {n} \cup UNION {f[c] : c \in Children(n)}
    OBVIOUS
  <1>3. \A n \in Nodes : \A f, g \in [Nodes -> V] :
           (\A c \in Children(n) : f[c] = g[c]) => step[n][f] = step[n][g]
    <2> SUFFICES ASSUME NEW n \in Nodes, NEW f \in [Nodes -> V], NEW g \in [Nodes -> V],
                        \A c \in Children(n) : f[c] = g[c]
                 PROVE  step[n][f] = step[n][g]
      OBVIOUS
    <2>1. {f[c] : c \in Children(n)} = {g[c] : c \in Children(n)}
      OBVIOUS
    <2>2. /\ step[n][f] = {n} \cup UNION {f[c] : c \in Children(n)}
          /\ step[n][g] = {n} \cup UNION {g[c] : c \in Children(n)}
      BY <1>2
    <2> HIDE DEF step
    <2> QED BY <2>1, <2>2
  <1>4. PICK f \in [Nodes -> V] : \A n \in Nodes : f[n] = step[n][f]
    <2> HIDE DEF step, V
    <2>1. LocalStep(step, V)
      BY <1>1, <1>3 DEF LocalStep
    <2> QED BY <1>1, <2>1, NestedRecursion DEF Recursive
  <1> DEFINE IsParts(g) == g = [n \in Nodes |-> {n} \cup UNION {g[c] : c \in Children(n)}]
  <1>5. IsParts(f)
    <2>1. \A n \in Nodes : f[n] = {n} \cup UNION {f[c] : c \in Children(n)}
      <3> HIDE DEF step
      <3> QED BY <1>2, <1>4
    <2>2. f = [n \in Nodes |-> f[n]]
      BY <1>4
    <2> QED BY <2>1, <2>2
  <1>6. Parts = CHOOSE g : IsParts(g)
    BY DEF Parts
  <1>7. IsParts(Parts)
    <2> HIDE DEF IsParts
    <2> QED BY <1>5, <1>6
  <1>8. \A n \in Nodes : Parts[n] = {n} \cup UNION {Parts[c] : c \in Children(n)}
    BY <1>7
  <1> DEFINE T == {n \in Nodes : Parts[n] \subseteq Nodes}
  <1>9. \A n \in Nodes : Children(n) \subseteq T => n \in T
    BY <1>8
  <1>10. Nodes = T
    <2> HIDE DEF T
    <2>1. T \in SUBSET Nodes
      BY DEF T
    <2> QED BY <1>9, <2>1, Nesting
  <1>11. \A n \in Nodes : Parts[n] \in SUBSET Nodes
    BY <1>10
  <1>12. Parts = [n \in Nodes |-> Parts[n]]
    <2>1. \E F : Parts = [n \in Nodes |-> F[n]]
      <3> DEFINE F == [n \in Nodes |-> {n} \cup UNION {Parts[c] : c \in Children(n)}]
      <3>1. Parts = F
        BY <1>7
      <3>2. F = [n \in Nodes |-> F[n]]
        OBVIOUS
      <3> HIDE DEF F
      <3> QED BY <3>1, <3>2
    <2> QED BY <2>1
  <1> QED BY <1>8, <1>11, <1>12

----------------------------------------------------------------------------
(* What a node of an expression gives.                                     *)

\* The truth of an expression is one value; none, or both, after an error.
Truths == {Invalid, {TRUE}, {FALSE}, Escaped}
Names == {n.calculation : n \in {m \in Nodes : m.is = "calculation"}}
Outcomes == [truth : Truths, looked : SUBSET Names]

LEMMA TruthIs == ASSUME NEW b \in BOOLEAN PROVE {b} \in Truths
  BY DEF Truths

LEMMA NoTruth == Invalid \in Truths /\ Escaped \in Truths
  BY DEF Truths

Errors == {Invalid, Escaped}

LEMMA ErrorsAre == ASSUME NEW b \in BOOLEAN PROVE {b} \notin Errors
  <1>1. {b} # Invalid
    BY DEF Invalid
  <1>2. {b} # Escaped
    BY Zenon DEF Escaped
  <1> QED BY <1>1, <1>2 DEF Errors

\* The truth of not.
LEMMA NegatedIs ==
    /\ \A s \in Truths : {~t : t \in s} \in Truths
    /\ \A s \in Errors : {~t : t \in s} \in Errors
  <1>1. {~t : t \in Invalid} = Invalid
    BY DEF Invalid
  <1>2. {~t : t \in {TRUE}} = {FALSE} /\ {~t : t \in {FALSE}} = {TRUE}
    BY Zenon
  <1>3. {~t : t \in Escaped} = Escaped
    <2>1. Escaped = {TRUE, FALSE}
      BY Zenon DEF Escaped
    <2>2. {~t : t \in {TRUE, FALSE}} = {TRUE, FALSE}
      BY Zenon
    <2> QED BY Zenon, <2>1, <2>2
  <1>4. \A s \in Truths : s = Invalid \/ s = {TRUE} \/ s = {FALSE} \/ s = Escaped
    BY DEF Truths
  <1>5. \A s \in Errors : s = Invalid \/ s = Escaped
    BY DEF Errors
  <1>6. \A b \in BOOLEAN : {b} \in Truths
    BY TruthIs
  <1> QED BY Zenon, <1>1, <1>2, <1>3, <1>4, <1>5, <1>6, NoTruth DEF Errors

LEMMA OutcomeType == ASSUME NEW t \in Truths, NEW l \in SUBSET Names
                     PROVE  Outcome(t, l) \in Outcomes
  BY DEF Outcome, Outcomes

\* The first condition that decides or fails, or the last one.
LEMMA DecidingIs ==
    ASSUME NEW values, Len(values) \in Nat \ {0}, NEW decides \in BOOLEAN
    PROVE  /\ Deciding(values, decides) \in 1 .. Len(values)
           /\ \A i \in 1 .. Len(values) :
                 i < Deciding(values, decides) => values[i].truth = {~decides}
           /\ Deciding(values, decides) < Len(values) =>
                 values[Deciding(values, decides)].truth # {~decides}
  <1> DEFINE S == Stops(values, decides)
             k == Len(values)
  <1>1. S \in SUBSET Nat /\ \A i \in 1 .. k : i \in S <=> values[i].truth # {~decides}
    BY DEF Stops
  <1>2. S \subseteq 1 .. k
    BY DEF Stops
  <1> HIDE DEF S, k
  <1>3. CASE S = {}
    <2>1. Deciding(values, decides) = k
      BY <1>3 DEF Deciding, S, k
    <2> QED BY <1>1, <1>3, <2>1 DEF k
  <1>4. CASE S # {}
    <2>1. PICK d \in S : \A j \in S : ~ (<<j, d>> \in OpToRel(<, Nat))
      BY <1>1, <1>4, NatLessThanWellFounded, WFMin
    <2>2. \A j \in S : d <= j
      <3>1. \A j \in S : ~ (j < d)
        BY <1>1, <2>1 DEF OpToRel
      <3>2. \A j \in S : j \in Nat /\ d \in Nat
        BY <1>1
      <3> QED BY <3>1, <3>2
    <2>3. Deciding(values, decides) = CHOOSE i \in S : \A j \in S : i <= j
      BY <1>4 DEF Deciding, S
    <2>4. Deciding(values, decides) \in S /\ \A j \in S : Deciding(values, decides) <= j
      BY <2>2, <2>3
    <2> HIDE DEF Deciding
    <2>5. \A i \in 1 .. k : i < Deciding(values, decides) => i \notin S
      <3>1. Deciding(values, decides) \in Nat
        BY <1>1, <2>4
      <3>2. ASSUME NEW i \in S, i \in Nat PROVE ~(i < Deciding(values, decides))
        BY <2>4, <3>1, <3>2
      <3> QED BY <1>1, <3>2
    <2> QED BY <1>1, <1>2, <2>4, <2>5 DEF k
  <1> QED BY <1>3, <1>4

LEMMA ListLength ==
    ASSUME NEW V, NEW k \in Nat, NEW values \in [1 .. k -> V]
    PROVE  Len(values) = k
  OBVIOUS

LEMMA JunctionType ==
    ASSUME NEW k \in Nat \ {0}, NEW values \in [1 .. k -> Outcomes], NEW decides \in BOOLEAN
    PROVE  Junction(values, decides) \in Outcomes
  <1>1. Len(values) = k
    BY ListLength
  <1>2. Deciding(values, decides) \in 1 .. k
    BY <1>1, DecidingIs
  <1>3. \A i \in 1 .. k : values[i].truth \in Truths /\ values[i].looked \subseteq Names
    BY DEF Outcomes
  <1>4. \A i \in 1 .. Deciding(values, decides) : i \in 1 .. k
    BY <1>2
  <1>5. UNION {values[i].looked : i \in 1 .. Deciding(values, decides)} \in SUBSET Names
    BY <1>3, <1>4
  <1> QED BY <1>2, <1>3, <1>5 DEF Junction, Outcome, Outcomes

\* all (any) is true (false) only if every condition is, false (true) only if some
\* condition is.
LEMMA JunctionTruth ==
    ASSUME NEW k \in Nat \ {0}, NEW values \in [1 .. k -> Outcomes], NEW decides \in BOOLEAN
    PROVE  /\ Junction(values, decides).truth = {~decides} =>
                 \A i \in 1 .. k : values[i].truth = {~decides}
           /\ Junction(values, decides).truth = {decides} =>
                 \E i \in 1 .. k : values[i].truth = {decides}
  <1> DEFINE d == Deciding(values, decides)
  <1>1. Len(values) = k
    BY ListLength
  <1>2. /\ d \in 1 .. k /\ \A i \in 1 .. k : i < d => values[i].truth = {~decides}
        /\ d < k => values[d].truth # {~decides}
    BY <1>1, DecidingIs
  <1>3. Junction(values, decides).truth = values[d].truth
    BY DEF Junction, Outcome
  <1> HIDE DEF d
  <1>4. ASSUME values[d].truth = {~decides}, NEW i \in 1 .. k PROVE values[i].truth = {~decides}
    <2>1. d = k
      BY <1>2, <1>4
    <2>2. i = d \/ i < d
      BY <2>1
    <2> QED BY <1>2, <1>4, <2>2
  <1> QED BY <1>2, <1>3, <1>4

\* all and any depend only on the conditions they look at.
LEMMA JunctionSame ==
    ASSUME NEW k \in Nat \ {0}, NEW v \in [1 .. k -> Outcomes], NEW w \in [1 .. k -> Outcomes],
           NEW decides \in BOOLEAN, \A i \in 1 .. Deciding(v, decides) : v[i] = w[i]
    PROVE  Junction(v, decides) = Junction(w, decides)
  <1> DEFINE d == Deciding(v, decides)
             e == Deciding(w, decides)
  <1>1. Len(v) = k /\ Len(w) = k
    BY ListLength
  <1>2. /\ d \in 1 .. k /\ \A i \in 1 .. k : i < d => v[i].truth = {~decides}
        /\ d < k => v[d].truth # {~decides}
    BY <1>1, DecidingIs
  <1>3. /\ e \in 1 .. k /\ \A i \in 1 .. k : i < e => w[i].truth = {~decides}
        /\ e < k => w[e].truth # {~decides}
    BY <1>1, DecidingIs
  <1>4. \A i \in 1 .. d : v[i] = w[i]
    OBVIOUS
  <1>5. Junction(v, decides) = Outcome(v[d].truth, UNION {v[i].looked : i \in 1 .. d})
    BY DEF Junction
  <1>6. Junction(w, decides) = Outcome(w[e].truth, UNION {w[i].looked : i \in 1 .. e})
    BY DEF Junction
  <1> HIDE DEF d, e
  <1>7. ~(e < d)
    BY <1>2, <1>3, <1>4
  <1>8. ~(d < e)
    BY <1>2, <1>3, <1>4
  <1>9. d = e
    BY <1>2, <1>3, <1>7, <1>8
  <1>10. {v[i].looked : i \in 1 .. d} = {w[i].looked : i \in 1 .. e}
    BY <1>4, <1>9
  <1>11. v[d].truth = w[e].truth
    BY <1>2, <1>4, <1>9
  <1> QED BY <1>5, <1>6, <1>10, <1>11

----------------------------------------------------------------------------
(* EvaluateNode is a function of the nodes, each from those it is made of. *)

\* What an expression gives, from what its parts give.
Evaluated(n, at, order, given, compared) ==
    CASE n.is \in {"all", "any"} ->
            Junction([i \in 1 .. Len(order[n]) |-> at[order[n][i]]], n.is = "any")
      [] n.is = "not" -> Outcome({~t : t \in at[n.child].truth}, at[n.child].looked)
      [] n.is = "exists" -> Outcome({given[n.input].type # "null"}, {})
      [] n.is = "calculation" ->
            Outcome(Applied(n.operator, Field(compared[n.calculation], n.field), n.literal),
                    {n.calculation})
      [] n.is = "compare" ->
            LET left == Operand(n.left, n.right, given)
                right == Operand(n.right, n.left, given)
            IN  Outcome(IF "unusable" \in {left.type, right.type} THEN Invalid
                        ELSE Applied(n.operator, left, right), {})

\* The orders in which the conditions may be written.
Orders ==
    {order \in [Junctions -> Seq(Nodes)] :
        \A n \in Junctions : {order[n][i] : i \in 1 .. Len(order[n])} = Children(n)}

LEMMA OrderFacts ==
    ASSUME NEW order \in Orders, NEW n \in Junctions
    PROVE  /\ Len(order[n]) \in Nat \ {0}
           /\ \A i \in 1 .. Len(order[n]) : order[n][i] \in Children(n) /\ order[n][i] \in Nodes
           /\ \A c \in Children(n) : \E i \in 1 .. Len(order[n]) : order[n][i] = c
  <1>1. order[n] \in Seq(Nodes) /\ {order[n][i] : i \in 1 .. Len(order[n])} = Children(n)
    BY DEF Orders
  <1>2. Len(order[n]) \in Nat /\ n \in Nodes /\ n.is \in {"all", "any"}
    BY <1>1 DEF Junctions
  <1>3. Children(n) = {n.of[i] : i \in 1 .. Len(n.of)}
    BY <1>2 DEF Children
  <1>4. n.of # <<>> /\ n.of \in Seq(Nodes)
    BY ExpressionAssumption
  <1>5. Len(n.of) \in Nat /\ Len(n.of) # 0
    BY <1>4
  <1>6. 1 \in 1 .. Len(n.of)
    BY <1>5
  <1>7. n.of[1] \in Children(n)
    BY <1>3, <1>6
  <1>8. Len(order[n]) # 0
    <2> SUFFICES ASSUME Len(order[n]) = 0 PROVE FALSE
      OBVIOUS
    <2>1. PICK i \in 1 .. Len(order[n]) : order[n][i] = n.of[1]
      BY <1>1, <1>7
    <2> QED BY <2>1
  <1> QED BY <1>1, <1>2, <1>8, NodeFacts

\* What the conditions of an expression give, in an order.
LEMMA Conditions ==
    ASSUME NEW order \in Orders, NEW n \in Junctions, NEW at \in [Nodes -> Outcomes]
    PROVE  /\ [i \in 1 .. Len(order[n]) |-> at[order[n][i]]] \in [1 .. Len(order[n]) -> Outcomes]
           /\ Len(order[n]) \in Nat \ {0}
  BY OrderFacts

LEMMA ChildOfNot ==
    ASSUME NEW n \in Nodes, n.is = "not"
    PROVE  n.child \in Nodes /\ n.child \in Children(n)
  <1>1. Children(n) = {n.child}
    BY DEF Children
  <1> QED BY <1>1, NodeFacts

LEMMA WithinType == ASSUME NEW a, NEW b PROVE Within(a, b) \in Truths
  <1>1. CASE b.type = "array"
    <2> DEFINE x == \E i \in 1 .. Len(b.elements) : SameScalar(a, b.elements[i])
    <2>1. x \in BOOLEAN
      OBVIOUS
    <2>2. Within(a, b) = {x}
      BY <1>1 DEF Within
    <2> HIDE DEF x
    <2> QED BY <2>1, <2>2, TruthIs
  <1>2. CASE b.type = "string"
    <2>1. PartOf(a, b) \in BOOLEAN
      BY DEF PartOf
    <2>2. Within(a, b) \in {{PartOf(a, b)}, Escaped}
      BY <1>2 DEF Within
    <2> QED BY <2>1, <2>2, TruthIs, NoTruth
  <1>3. CASE b.type \notin {"array", "string"}
    <2>1. Within(a, b) = Invalid
      BY <1>3 DEF Within
    <2> QED BY <2>1, NoTruth
  <1> QED BY <1>1, <1>2, <1>3

LEMMA BeforeType == ASSUME NEW a, NEW b PROVE Before(a, b) \in BOOLEAN
  <1>1. CASE Numeric(a)
    <2>1. Before(a, b) <=> a.value < b.value
      BY <1>1 DEF Before
    <2>2. (a.value < b.value) \in BOOLEAN
      OBVIOUS
    <2> QED BY <1>1, <2>2 DEF Before
  <1>2. CASE ~Numeric(a)
    <2>1. (<<a.text, b.text>> \in TextBefore) \in BOOLEAN
      OBVIOUS
    <2> QED BY <1>2, <2>1 DEF Before
  <1> QED BY <1>1, <1>2

LEMMA AppliedType ==
    ASSUME NEW operator \in Operators, NEW a, NEW b
    PROVE  Applied(operator, a, b) \in Truths
  <1>1. CASE operator \in {"eq", "ne"}
    <2>1. Equals(a, b) \in BOOLEAN /\ (~Equals(a, b)) \in BOOLEAN
      BY DEF Equals
    <2>2. Applied(operator, a, b) \in {{Equals(a, b)}, {~Equals(a, b)}}
      BY <1>1 DEF Applied
    <2> QED BY <2>1, <2>2, TruthIs
  <1>2. CASE operator \in {"in", "contains"}
    <2>1. Applied(operator, a, b) \in {Within(a, b), Within(b, a)}
      BY <1>2 DEF Applied
    <2> QED BY <2>1, WithinType
  <1>3. CASE operator \in {"gt", "gte", "lt", "lte"}
    <2> DEFINE x == Before(a, b)
               y == Before(b, a)
    <2>1. x \in BOOLEAN /\ y \in BOOLEAN
      BY BeforeType
    <2>2. Applied(operator, a, b) \in {Invalid, {x}, {~x}, {y}, {~y}}
      BY <1>3 DEF Applied
    <2> HIDE DEF x, y
    <2>3. (~x) \in BOOLEAN /\ (~y) \in BOOLEAN
      OBVIOUS
    <2> QED BY <2>1, <2>2, <2>3, TruthIs, NoTruth
  <1> QED BY <1>1, <1>2, <1>3 DEF Operators

LEMMA EvaluatedType ==
    ASSUME NEW order \in Orders, NEW given, NEW compared, NEW n \in Nodes,
           NEW at \in [Nodes -> Outcomes]
    PROVE  Evaluated(n, at, order, given, compared) \in Outcomes
  <1>1. CASE n.is \in {"all", "any"}
    <2>1. n \in Junctions /\ (n.is = "any") \in BOOLEAN
      BY <1>1 DEF Junctions
    <2>2. Evaluated(n, at, order, given, compared)
            = Junction([i \in 1 .. Len(order[n]) |-> at[order[n][i]]], n.is = "any")
      BY <1>1 DEF Evaluated
    <2> DEFINE values == [i \in 1 .. Len(order[n]) |-> at[order[n][i]]]
    <2>3. values \in [1 .. Len(order[n]) -> Outcomes] /\ Len(order[n]) \in Nat \ {0}
      BY <2>1, Conditions
    <2> HIDE DEF values
    <2>4. \A b \in BOOLEAN : Junction(values, b) \in Outcomes
      BY <2>3, JunctionType
    <2>5. Junction(values, n.is = "any") \in Outcomes
      BY <2>1, <2>4
    <2> QED BY <2>2, <2>5 DEF values
  <1>2. CASE n.is = "not"
    <2>1. at[n.child].truth \in Truths /\ at[n.child].looked \in SUBSET Names
      BY <1>2, ChildOfNot DEF Outcomes
    <2>2. {~t : t \in at[n.child].truth} \in Truths
      BY <2>1, NegatedIs
    <2>3. Evaluated(n, at, order, given, compared)
            = Outcome({~t : t \in at[n.child].truth}, at[n.child].looked)
      BY <1>2 DEF Evaluated
    <2> QED BY <2>1, <2>2, <2>3, OutcomeType
  <1>3. CASE n.is = "exists"
    <2>1. Evaluated(n, at, order, given, compared) = Outcome({given[n.input].type # "null"}, {})
      BY <1>3 DEF Evaluated
    <2>2. {given[n.input].type # "null"} \in Truths
      <3>1. (given[n.input].type # "null") \in BOOLEAN
        OBVIOUS
      <3> QED BY <3>1, TruthIs
    <2> QED BY <2>1, <2>2, OutcomeType
  <1>4. CASE n.is = "calculation"
    <2> DEFINE t == Applied(n.operator, Field(compared[n.calculation], n.field), n.literal)
    <2>1. Evaluated(n, at, order, given, compared) = Outcome(t, {n.calculation})
      BY <1>4 DEF Evaluated
    <2>2. n.calculation \in Names
      BY <1>4 DEF Names
    <2>3. t \in Truths
      BY <1>4, NodeFacts, AppliedType
    <2> HIDE DEF t
    <2> QED BY <2>1, <2>2, <2>3, OutcomeType
  <1>5. CASE n.is = "compare"
    <2> DEFINE left == Operand(n.left, n.right, given)
               right == Operand(n.right, n.left, given)
               t == IF "unusable" \in {left.type, right.type} THEN Invalid
                    ELSE Applied(n.operator, left, right)
    <2>1. Evaluated(n, at, order, given, compared) = Outcome(t, {})
      BY <1>5 DEF Evaluated
    <2> HIDE DEF left, right
    <2>2. n.operator \in Operators
      BY <1>5, NodeFacts
    <2>3. Applied(n.operator, left, right) \in Truths
      BY <2>2, AppliedType
    <2>4. t \in Truths
      BY <2>3, NoTruth
    <2> HIDE DEF t
    <2> QED BY <2>1, <2>4, OutcomeType
  <1> QED BY <1>1, <1>2, <1>3, <1>4, <1>5, NodeFacts

LEMMA EvaluatedLocal ==
    ASSUME NEW order \in Orders, NEW given, NEW compared, NEW n \in Nodes,
           NEW f, NEW g, \A c \in Children(n) : f[c] = g[c]
    PROVE  Evaluated(n, f, order, given, compared) = Evaluated(n, g, order, given, compared)
  <1>1. CASE n.is \in {"all", "any"}
    <2>1. n \in Junctions
      BY <1>1 DEF Junctions
    <2>2. \A i \in 1 .. Len(order[n]) : f[order[n][i]] = g[order[n][i]]
      BY <2>1, OrderFacts
    <2>3. [i \in 1 .. Len(order[n]) |-> f[order[n][i]]]
            = [i \in 1 .. Len(order[n]) |-> g[order[n][i]]]
      BY <2>2
    <2> QED BY <1>1, <2>3 DEF Evaluated
  <1>2. CASE n.is = "not"
    <2>1. f[n.child] = g[n.child]
      BY <1>2, ChildOfNot
    <2> QED BY <1>2, <2>1 DEF Evaluated
  <1>3. CASE n.is \in {"exists", "calculation", "compare"}
    BY <1>3 DEF Evaluated
  <1> QED BY <1>1, <1>2, <1>3, NodeFacts

\* _evaluate_node gives every expression what its parts determine.
LEMMA EvaluateNodeIs ==
    ASSUME NEW order \in Orders, NEW given, NEW compared
    PROVE  /\ EvaluateNode(order, given, compared) \in [Nodes -> Outcomes]
           /\ \A n \in Nodes :
                 EvaluateNode(order, given, compared)[n]
                   = Evaluated(n, EvaluateNode(order, given, compared), order, given, compared)
  <1> DEFINE step == [n \in Nodes |-> [f \in [Nodes -> Outcomes] |->
                        Evaluated(n, f, order, given, compared)]]
             a == [truth |-> Invalid, looked |-> {}]
             Is(f) == f = [n \in Nodes |-> Evaluated(n, f, order, given, compared)]
             at == EvaluateNode(order, given, compared)
  <1>1. step \in [Nodes -> [[Nodes -> Outcomes] -> Outcomes]]
    BY EvaluatedType
  <1>2. \A n \in Nodes : \A f \in [Nodes -> Outcomes] :
           step[n][f] = Evaluated(n, f, order, given, compared)
    OBVIOUS
  <1>3. a \in Outcomes
    BY NoTruth DEF Outcomes
  <1> HIDE DEF step
  <1>4. LocalStep(step, Outcomes)
    <2>1. ASSUME NEW n \in Nodes, NEW f \in [Nodes -> Outcomes], NEW g \in [Nodes -> Outcomes],
                 \A c \in Children(n) : f[c] = g[c]
          PROVE  step[n][f] = step[n][g]
      BY <1>2, <2>1, EvaluatedLocal
    <2> QED BY <1>1, <2>1 DEF LocalStep
  <1>5. PICK f \in [Nodes -> Outcomes] : \A n \in Nodes : f[n] = step[n][f]
    BY <1>3, <1>4, NestedRecursion DEF Recursive
  <1>6. Is(f)
    BY <1>2, <1>5
  <1>7. at = CHOOSE g : Is(g)
    BY DEF EvaluateNode, Evaluated
  <1>8. Is(at)
    <2> HIDE DEF Is, at
    <2> QED BY <1>6, <1>7
  <1>9. \A n \in Nodes : at[n] = Evaluated(n, at, order, given, compared)
    <2> HIDE DEF at
    <2> QED BY <1>8
  <1> HIDE DEF at
  <1> DEFINE T == {n \in Nodes : at[n] = f[n]}
  <1>10. ASSUME NEW n \in Nodes, Children(n) \subseteq T PROVE n \in T
    <2>1. \A c \in Children(n) : at[c] = f[c]
      BY <1>10
    <2>2. Evaluated(n, at, order, given, compared) = Evaluated(n, f, order, given, compared)
      BY <2>1, EvaluatedLocal
    <2> QED BY <1>2, <1>5, <1>9, <2>2
  <1>11. Nodes = T
    <2> HIDE DEF T
    <2>1. T \in SUBSET Nodes
      BY DEF T
    <2> QED BY <1>10, <2>1, Nesting
  <1>12. \A n \in Nodes : at[n] \in Outcomes
    BY <1>5, <1>11
  <1>13. at \in [Nodes -> Outcomes]
    <2> DEFINE F == [n \in Nodes |-> Evaluated(n, at, order, given, compared)]
    <2>1. at = F
      BY <1>8
    <2>2. \A n \in Nodes : F[n] \in Outcomes
      BY <1>9, <1>12
    <2>3. F \in [Nodes -> Outcomes]
      BY <2>2
    <2> HIDE DEF F
    <2> QED BY <2>1, <2>3
  <1> QED BY <1>9, <1>13 DEF at

----------------------------------------------------------------------------
(* The verdict: the order of conditions, and what it depends on.           *)

LEMMA WrittenIsOrder == Written \in Orders
  <1>1. ASSUME NEW n \in Junctions
        PROVE  n.of \in Seq(Nodes) /\ {n.of[i] : i \in 1 .. Len(n.of)} = Children(n)
    BY ExpressionAssumption DEF Junctions, Children
  <1> QED BY <1>1 DEF Written, Orders

LEMMA BackwardIsOrder == Backward \in Orders
  <1>1. ASSUME NEW n \in Junctions
        PROVE  /\ Reverse(n.of) \in Seq(Nodes)
               /\ {Reverse(n.of)[i] : i \in 1 .. Len(Reverse(n.of))} = Children(n)
    <2> DEFINE s == n.of
               r == [i \in 1 .. Len(s) |-> s[(Len(s) - i) + 1]]
    <2>1. s \in Seq(Nodes) /\ Len(s) \in Nat /\ {s[i] : i \in 1 .. Len(s)} = Children(n)
      BY ExpressionAssumption DEF Junctions, Children
    <2>2. Reverse(s) = r
      BY DEF Reverse
    <2> HIDE DEF s
    <2>3. \A i \in 1 .. Len(s) : (Len(s) - i) + 1 \in 1 .. Len(s) /\ s[i] \in Nodes
      BY <2>1
    <2>4. r \in [1 .. Len(s) -> Nodes]
      BY <2>3
    <2>5. r \in Seq(Nodes) /\ Len(r) = Len(s)
      BY <2>1, <2>4
    <2>6. \A i \in 1 .. Len(s) : r[(Len(s) - i) + 1] = s[i]
      <3> TAKE i \in 1 .. Len(s)
      <3>1. (Len(s) - ((Len(s) - i) + 1)) + 1 = i
        BY <2>1
      <3> QED BY <2>3, <3>1
    <2>7. \A i \in 1 .. Len(s) : r[i] = s[(Len(s) - i) + 1]
      OBVIOUS
    <2> HIDE DEF r
    <2>8. {r[i] : i \in 1 .. Len(r)} = {s[i] : i \in 1 .. Len(s)}
      BY <2>3, <2>5, <2>6, <2>7
    <2> QED BY <2>1, <2>2, <2>5, <2>8 DEF s
  <1> QED BY <1>1 DEF Backward, Orders

\* Two truths that are there are the same.
Agree(x, y) == x \in Errors \/ y \in Errors \/ x = y

\* The order of its conditions does not change what an expression gives, unless
\* one of the orders ends in an error.
LEMMA OrderDoesNotMatter ==
    ASSUME NEW p \in Orders, NEW q \in Orders, NEW given, NEW compared, NEW e \in Nodes
    PROVE  Agree(EvaluateNode(p, given, compared)[e].truth,
                 EvaluateNode(q, given, compared)[e].truth)
  <1> DEFINE f == EvaluateNode(p, given, compared)
             g == EvaluateNode(q, given, compared)
             T == {n \in Nodes : Agree(f[n].truth, g[n].truth)}
  <1>1. f \in [Nodes -> Outcomes] /\ g \in [Nodes -> Outcomes]
    BY EvaluateNodeIs
  <1>2. \A n \in Nodes : /\ f[n] = Evaluated(n, f, p, given, compared)
                         /\ g[n] = Evaluated(n, g, q, given, compared)
    BY EvaluateNodeIs
  <1> HIDE DEF f, g
  <1>3. \A n \in Nodes : f[n].truth \in Truths /\ g[n].truth \in Truths
    BY <1>1 DEF Outcomes
  <1>4. ASSUME NEW n \in Nodes, Children(n) \subseteq T PROVE n \in T
    <2>1. CASE n.is \in {"all", "any"}
      <3> DEFINE d == n.is = "any"
                 v == [i \in 1 .. Len(p[n]) |-> f[p[n][i]]]
                 w == [i \in 1 .. Len(q[n]) |-> g[q[n][i]]]
      <3>1. n \in Junctions /\ d \in BOOLEAN
        BY <2>1 DEF Junctions
      <3>2. f[n] = Junction(v, d) /\ g[n] = Junction(w, d)
        BY <1>2, <2>1 DEF Evaluated
      <3>3. /\ v \in [1 .. Len(p[n]) -> Outcomes] /\ Len(p[n]) \in Nat \ {0}
            /\ w \in [1 .. Len(q[n]) -> Outcomes] /\ Len(q[n]) \in Nat \ {0}
        BY <1>1, <3>1, Conditions
      <3>4. /\ \A i \in 1 .. Len(p[n]) : v[i] = f[p[n][i]] /\ p[n][i] \in Children(n)
            /\ \A i \in 1 .. Len(q[n]) : w[i] = g[q[n][i]] /\ q[n][i] \in Children(n)
        BY <3>1, OrderFacts
      <3> HIDE DEF d, v, w
      <3>5. /\ f[n].truth = {~d} => \A i \in 1 .. Len(p[n]) : v[i].truth = {~d}
            /\ f[n].truth = {d} => \E i \in 1 .. Len(p[n]) : v[i].truth = {d}
        <4>1. \A x \in BOOLEAN :
                 /\ Junction(v, x).truth = {~x} => \A i \in 1 .. Len(p[n]) : v[i].truth = {~x}
                 /\ Junction(v, x).truth = {x} => \E i \in 1 .. Len(p[n]) : v[i].truth = {x}
          BY <3>3, JunctionTruth
        <4> QED BY <3>1, <3>2, <4>1
      <3>6. /\ g[n].truth = {~d} => \A i \in 1 .. Len(q[n]) : w[i].truth = {~d}
            /\ g[n].truth = {d} => \E i \in 1 .. Len(q[n]) : w[i].truth = {d}
        <4>1. \A x \in BOOLEAN :
                 /\ Junction(w, x).truth = {~x} => \A i \in 1 .. Len(q[n]) : w[i].truth = {~x}
                 /\ Junction(w, x).truth = {x} => \E i \in 1 .. Len(q[n]) : w[i].truth = {x}
          BY <3>3, JunctionTruth
        <4> QED BY <3>1, <3>2, <4>1
      <3>7. /\ f[n].truth = {~d} => \A c \in Children(n) : f[c].truth = {~d}
            /\ f[n].truth = {d} => \E c \in Children(n) : f[c].truth = {d}
            /\ g[n].truth = {~d} => \A c \in Children(n) : g[c].truth = {~d}
            /\ g[n].truth = {d} => \E c \in Children(n) : g[c].truth = {d}
        <4>1. /\ \A c \in Children(n) : \E i \in 1 .. Len(p[n]) : p[n][i] = c
              /\ \A c \in Children(n) : \E i \in 1 .. Len(q[n]) : q[n][i] = c
          BY <3>1, OrderFacts
        <4>2. /\ f[n].truth = {~d} => \A c \in Children(n) : f[c].truth = {~d}
              /\ f[n].truth = {d} => \E c \in Children(n) : f[c].truth = {d}
          <5>1. ASSUME f[n].truth = {~d}, NEW c \in Children(n) PROVE f[c].truth = {~d}
            <6>1. PICK i \in 1 .. Len(p[n]) : p[n][i] = c
              BY <4>1
            <6>2. v[i] = f[c] /\ v[i].truth = {~d}
              BY <3>4, <3>5, <5>1, <6>1
            <6> QED BY <6>2
          <5>2. ASSUME f[n].truth = {d} PROVE \E c \in Children(n) : f[c].truth = {d}
            <6>1. PICK i \in 1 .. Len(p[n]) : v[i].truth = {d}
              BY <3>5, <5>2
            <6>2. v[i] = f[p[n][i]] /\ p[n][i] \in Children(n)
              BY <3>4
            <6> QED BY <6>1, <6>2
          <5> QED BY <5>1, <5>2
        <4>3. /\ g[n].truth = {~d} => \A c \in Children(n) : g[c].truth = {~d}
              /\ g[n].truth = {d} => \E c \in Children(n) : g[c].truth = {d}
          <5>1. ASSUME g[n].truth = {~d}, NEW c \in Children(n) PROVE g[c].truth = {~d}
            <6>1. PICK i \in 1 .. Len(q[n]) : q[n][i] = c
              BY <4>1
            <6>2. w[i] = g[c] /\ w[i].truth = {~d}
              BY <3>4, <3>6, <5>1, <6>1
            <6> QED BY <6>2
          <5>2. ASSUME g[n].truth = {d} PROVE \E c \in Children(n) : g[c].truth = {d}
            <6>1. PICK i \in 1 .. Len(q[n]) : w[i].truth = {d}
              BY <3>6, <5>2
            <6>2. w[i] = g[q[n][i]] /\ q[n][i] \in Children(n)
              BY <3>4
            <6> QED BY <6>1, <6>2
          <5> QED BY <5>1, <5>2
        <4> QED BY <4>2, <4>3
      <3>8. \A c \in Children(n) : Agree(f[c].truth, g[c].truth)
        BY <1>4
      <3>9. {d} # {~d} /\ {d} \notin Errors /\ {~d} \notin Errors
        <4>1. \A b \in BOOLEAN : {b} # {~b} /\ {b} \notin Errors /\ {~b} \notin Errors
          BY ErrorsAre
        <4> QED BY <3>1, <4>1
      <3>10. ~(f[n].truth = {d} /\ g[n].truth = {~d}) /\ ~(f[n].truth = {~d} /\ g[n].truth = {d})
        BY <3>7, <3>8, <3>9 DEF Agree
      <3>11. /\ f[n].truth \in Errors \cup {{d}, {~d}}
             /\ g[n].truth \in Errors \cup {{d}, {~d}}
        <4>1. \A b \in BOOLEAN : Truths \subseteq Errors \cup {{b}, {~b}}
          BY Zenon DEF Truths, Errors
        <4>2. f[n].truth \in Truths /\ g[n].truth \in Truths
          BY <1>3
        <4> QED BY <3>1, <4>1, <4>2
      <3> QED BY <3>10, <3>11 DEF Agree
    <2>2. CASE n.is = "not"
      <3>1. Agree(f[n.child].truth, g[n.child].truth)
        BY <1>4, <2>2, ChildOfNot
      <3>2. /\ f[n].truth = {~t : t \in f[n.child].truth}
            /\ g[n].truth = {~t : t \in g[n.child].truth}
        <4>1. /\ f[n] = Outcome({~t : t \in f[n.child].truth}, f[n.child].looked)
              /\ g[n] = Outcome({~t : t \in g[n.child].truth}, g[n.child].looked)
          BY <1>2, <2>2 DEF Evaluated
        <4> QED BY <4>1 DEF Outcome
      <3>3. \A s \in Errors : {~t : t \in s} \in Errors
        BY NegatedIs
      <3> QED BY <3>1, <3>2, <3>3 DEF Agree
    <2>3. CASE n.is \in {"exists", "calculation", "compare"}
      <3>1. f[n] = g[n]
        BY <1>2, <2>3 DEF Evaluated
      <3> QED BY <3>1 DEF Agree
    <2> QED BY <2>1, <2>2, <2>3, NodeFacts
  <1>5. Nodes = T
    <2> HIDE DEF T
    <2>1. T \in SUBSET Nodes
      BY DEF T
    <2> QED BY <1>4, <2>1, Nesting
  <1> QED BY <1>5 DEF f, g

\* An expression looks only at calculations it names.
LEMMA LookedIsNamed ==
    ASSUME NEW order \in Orders, NEW given, NEW compared, NEW e \in Nodes
    PROVE  EvaluateNode(order, given, compared)[e].looked \subseteq CalculationNames(e)
  <1> DEFINE f == EvaluateNode(order, given, compared)
             T == {n \in Nodes : f[n].looked \subseteq CalculationNames(n)}
  <1>1. f \in [Nodes -> Outcomes]
    BY EvaluateNodeIs
  <1>2. \A n \in Nodes : f[n] = Evaluated(n, f, order, given, compared)
    BY EvaluateNodeIs
  <1> HIDE DEF f
  <1>3. ASSUME NEW n \in Nodes, NEW c \in Children(n)
        PROVE  CalculationNames(c) \subseteq CalculationNames(n)
    <2>1. Parts[c] \subseteq Parts[n]
      BY PartsIs
    <2> QED BY <2>1 DEF CalculationNames
  <1>4. ASSUME NEW n \in Nodes, Children(n) \subseteq T PROVE n \in T
    <2>0. \A c \in Children(n) : f[c].looked \subseteq CalculationNames(n)
      BY <1>3, <1>4
    <2>1. CASE n.is \in {"all", "any"}
      <3> DEFINE d == n.is = "any"
                 v == [i \in 1 .. Len(order[n]) |-> f[order[n][i]]]
      <3>1. n \in Junctions /\ d \in BOOLEAN
        BY <2>1 DEF Junctions
      <3>2. f[n] = Junction(v, d)
        BY <1>2, <2>1 DEF Evaluated
      <3>3. v \in [1 .. Len(order[n]) -> Outcomes] /\ Len(order[n]) \in Nat \ {0}
        BY <1>1, <3>1, Conditions
      <3>4. \A i \in 1 .. Len(order[n]) : v[i].looked \subseteq CalculationNames(n)
        BY <2>0, <3>1, OrderFacts
      <3> HIDE DEF d, v
      <3>5. Deciding(v, d) \in 1 .. Len(order[n])
        <4>1. Len(v) = Len(order[n])
          BY <3>3, ListLength
        <4> QED BY <3>1, <3>3, <4>1, DecidingIs
      <3>6. \A i \in 1 .. Deciding(v, d) : v[i].looked \subseteq CalculationNames(n)
        BY <3>3, <3>4, <3>5
      <3>7. f[n].looked = UNION {v[i].looked : i \in 1 .. Deciding(v, d)}
        BY <3>2 DEF Junction, Outcome
      <3>8. f[n].looked \subseteq CalculationNames(n)
        BY <3>6, <3>7
      <3> QED BY <3>8
    <2>2. CASE n.is = "not"
      <3>1. f[n].looked = f[n.child].looked
        <4>1. f[n] = Outcome({~t : t \in f[n.child].truth}, f[n.child].looked)
          BY <1>2, <2>2 DEF Evaluated
        <4> QED BY <4>1 DEF Outcome
      <3> QED BY <2>0, <2>2, <3>1, ChildOfNot
    <2>3. CASE n.is = "calculation"
      <3>1. f[n].looked = {n.calculation}
        <4>1. f[n] = Outcome(Applied(n.operator, Field(compared[n.calculation], n.field), n.literal),
                           {n.calculation})
          BY <1>2, <2>3 DEF Evaluated
        <4> QED BY <4>1 DEF Outcome
      <3>2. n \in Parts[n]
        BY PartsIs
      <3> QED BY <2>3, <3>1, <3>2 DEF CalculationNames
    <2>4. CASE n.is \in {"exists", "compare"}
      <3>1. f[n].looked = {}
        <4>1. \E t : f[n] = Outcome(t, {})
          BY <1>2, <2>4 DEF Evaluated
        <4> QED BY <4>1 DEF Outcome
      <3> QED BY <3>1
    <2> QED BY <2>1, <2>2, <2>3, <2>4, NodeFacts
  <1>5. Nodes = T
    <2> HIDE DEF T
    <2>1. T \in SUBSET Nodes
      BY DEF T
    <2> QED BY <1>4, <2>1, Nesting
  <1> QED BY <1>5 DEF f

\* Two calculations tables say the same of some names.
SameOn(names, b, c) == \A x \in names : b[x] = c[x]

\* What an expression gives depends only on the calculations it has looked at.
LEMMA LookedDecides ==
    ASSUME NEW order \in Orders, NEW given, NEW b, NEW c, NEW e \in Nodes,
           SameOn(EvaluateNode(order, given, b)[e].looked, b, c)
    PROVE  EvaluateNode(order, given, c)[e] = EvaluateNode(order, given, b)[e]
  <1> DEFINE f == EvaluateNode(order, given, b)
             g == EvaluateNode(order, given, c)
             T == {n \in Nodes : (\A x \in f[n].looked : b[x] = c[x]) => g[n] = f[n]}
  <1>1. f \in [Nodes -> Outcomes] /\ g \in [Nodes -> Outcomes]
    BY EvaluateNodeIs
  <1>2. \A n \in Nodes : /\ f[n] = Evaluated(n, f, order, given, b)
                         /\ g[n] = Evaluated(n, g, order, given, c)
    BY EvaluateNodeIs
  <1>3. \A x \in f[e].looked : b[x] = c[x]
    BY DEF SameOn
  <1> HIDE DEF f, g
  <1>4. ASSUME NEW n \in Nodes, Children(n) \subseteq T PROVE n \in T
    <2> SUFFICES ASSUME \A x \in f[n].looked : b[x] = c[x] PROVE g[n] = f[n]
      OBVIOUS
    <2>0. \A m \in Children(n) : (\A x \in f[m].looked : b[x] = c[x]) => g[m] = f[m]
      BY <1>4
    <2>1. CASE n.is \in {"all", "any"}
      <3> DEFINE d == n.is = "any"
                 k == Len(order[n])
                 v == [i \in 1 .. k |-> f[order[n][i]]]
                 w == [i \in 1 .. k |-> g[order[n][i]]]
      <3>1. n \in Junctions /\ d \in BOOLEAN
        BY <2>1 DEF Junctions
      <3>2. f[n] = Junction(v, d) /\ g[n] = Junction(w, d)
        BY <1>2, <2>1 DEF Evaluated
      <3>3. v \in [1 .. k -> Outcomes] /\ w \in [1 .. k -> Outcomes] /\ k \in Nat \ {0}
        BY <1>1, <3>1, Conditions
      <3>4. \A i \in 1 .. k : v[i] = f[order[n][i]] /\ w[i] = g[order[n][i]]
                              /\ order[n][i] \in Children(n)
        BY <3>1, OrderFacts
      <3> HIDE DEF d, k, v, w
      <3>5. Deciding(v, d) \in 1 .. k
        <4>1. Len(v) = k
          BY <3>3, ListLength
        <4> QED BY <3>1, <3>3, <4>1, DecidingIs
      <3>6. f[n].looked = UNION {v[i].looked : i \in 1 .. Deciding(v, d)}
        BY <3>2 DEF Junction, Outcome
      <3>7. \A i \in 1 .. Deciding(v, d) : v[i] = w[i]
        <4> TAKE i \in 1 .. Deciding(v, d)
        <4>1. i \in 1 .. k
          BY <3>3, <3>5
        <4>2. \A x \in v[i].looked : b[x] = c[x]
          BY <3>6
        <4> QED BY <2>0, <3>4, <4>1, <4>2
      <3> QED BY <3>1, <3>2, <3>3, <3>7, JunctionSame
    <2>2. CASE n.is = "not"
      <3>1. f[n].looked = f[n.child].looked
        <4>1. f[n] = Outcome({~t : t \in f[n.child].truth}, f[n.child].looked)
          BY <1>2, <2>2 DEF Evaluated
        <4> QED BY <4>1 DEF Outcome
      <3>2. g[n.child] = f[n.child]
        BY <2>0, <2>2, <3>1, ChildOfNot
      <3> QED BY <1>2, <2>2, <3>2 DEF Evaluated
    <2>3. CASE n.is = "calculation"
      <3>1. f[n].looked = {n.calculation}
        <4>1. f[n] = Outcome(Applied(n.operator, Field(b[n.calculation], n.field), n.literal), {n.calculation})
          BY <1>2, <2>3 DEF Evaluated
        <4> QED BY <4>1 DEF Outcome
      <3>2. b[n.calculation] = c[n.calculation]
        BY <3>1
      <3> QED BY <1>2, <2>3, <3>2 DEF Evaluated
    <2>4. CASE n.is \in {"exists", "compare"}
      BY <1>2, <2>4 DEF Evaluated
    <2> QED BY <2>1, <2>2, <2>3, <2>4, NodeFacts
  <1>5. Nodes = T
    <2> HIDE DEF T
    <2>1. T \in SUBSET Nodes
      BY DEF T
    <2> QED BY <1>4, <2>1, Nesting
  <1>6. g[e] = f[e]
    BY <1>3, <1>5
  <1> QED BY <1>6 DEF f, g

\* What a definite verdict says of the evaluation behind it.
LEMMA DefiniteIs ==
    ASSUME NEW order, Definite(EvaluateRule(expression, order))
    PROVE  LET outcome == EvaluateNode(order, inputs, Compared)[expression]
               verdict == EvaluateRule(expression, order)
           IN  /\ outcome.truth \notin Errors /\ verdict.looked = outcome.looked
               /\ verdict.status = IF outcome.truth = {TRUE} THEN "SATISFIED" ELSE "NOT_SATISFIED"
               /\ \A name \in CalculationNames(expression) : Usable(name)
  BY DEF EvaluateRule, Definite, Verdict, Errors

LEMMA VerdictTraced == ASSUME expression \in Nodes PROVE VerdictIsTraced
  <1> DEFINE verdict == EvaluateRule(expression, Written)
             other == EvaluateRule(expression, Backward)
             outcome == EvaluateNode(Written, inputs, Compared)[expression]
             turned == EvaluateNode(Backward, inputs, Compared)[expression]
  <1> SUFFICES ASSUME Definite(verdict)
               PROVE  /\ Definite(other) => other.status = verdict.status
                      /\ \A name \in verdict.looked : Usable(name)
                      /\ \A rest \in [DOMAIN Compared \ verdict.looked -> Said] :
                            EvaluateNode(Written, inputs, Altered(rest))[expression].truth
                              = {verdict.status = "SATISFIED"}
    BY DEF VerdictIsTraced
  <1>1. /\ outcome.truth \notin Errors /\ verdict.looked = outcome.looked
        /\ verdict.status = IF outcome.truth = {TRUE} THEN "SATISFIED" ELSE "NOT_SATISFIED"
        /\ \A name \in CalculationNames(expression) : Usable(name)
    BY DefiniteIs
  <1>2. Definite(other) => /\ turned.truth \notin Errors
                           /\ other.status = IF turned.truth = {TRUE} THEN "SATISFIED"
                                             ELSE "NOT_SATISFIED"
    BY DefiniteIs
  <1>3. Agree(outcome.truth, turned.truth)
    BY WrittenIsOrder, BackwardIsOrder, OrderDoesNotMatter
  <1>4. outcome.truth \in Truths /\ outcome.looked \subseteq CalculationNames(expression)
    BY WrittenIsOrder, EvaluateNodeIs, LookedIsNamed DEF Outcomes
  <1> HIDE DEF verdict, other, outcome, turned
  <1>5. Definite(other) => other.status = verdict.status
    BY <1>1, <1>2, <1>3 DEF Agree
  <1>6. \A name \in verdict.looked : Usable(name)
    BY <1>1, <1>4
  <1>7. ASSUME NEW rest \in [DOMAIN Compared \ verdict.looked -> Said]
        PROVE  EvaluateNode(Written, inputs, Altered(rest))[expression].truth
                 = {verdict.status = "SATISFIED"}
    <2>1. ASSUME NEW x \in outcome.looked PROVE Compared[x] = Altered(rest)[x]
      <3>1. x \in DOMAIN Compared
        BY <1>1, <1>6 DEF Usable, Compared
      <3>2. x \notin DOMAIN rest
        BY <1>1
      <3> QED BY <3>1, <3>2 DEF Altered
    <2>2. EvaluateNode(Written, inputs, Altered(rest))[expression] = outcome
      <3>1. SameOn(EvaluateNode(Written, inputs, Compared)[expression].looked,
                   Compared, Altered(rest))
        BY <2>1 DEF outcome, SameOn
      <3>2. EvaluateNode(Written, inputs, Altered(rest))[expression]
              = EvaluateNode(Written, inputs, Compared)[expression]
        BY <3>1, WrittenIsOrder, LookedDecides
      <3> QED BY <3>2 DEF outcome
    <2>3. outcome.truth = {verdict.status = "SATISFIED"}
      <3>1. CASE outcome.truth = {TRUE}
        BY <1>1, <3>1
      <3>2. CASE outcome.truth = {FALSE}
        BY <1>1, <3>2
      <3> QED BY <1>1, <1>4, <3>1, <3>2 DEF Truths, Errors
    <2> QED BY <2>2, <2>3
  <1> QED BY <1>5, <1>6, <1>7

\* A definite verdict of a rule, over whatever inputs and calculations, however
\* altered, does not depend on the order of its conditions, and depends on no
\* calculation but the accepted ones it names (evaluate_rule).
THEOREM VerdictIsTracedHolds == EvaluationSpec => []VerdictIsTraced
  <1>1. EvaluationInit => expression \in Nodes
    BY ExpressionAssumption DEF EvaluationInit
  <1>2. expression \in Nodes /\ [EvaluationNext]_evaluationVars => (expression \in Nodes)'
    BY DEF EvaluationNext, Give, Calculate, Alter, Unresolve, NextCase, evaluationVars
  <1>3. expression \in Nodes => VerdictIsTraced
    BY VerdictTraced
  <1> QED BY <1>1, <1>2, <1>3, PTL DEF EvaluationSpec

=============================================================================

-------------------------- MODULE ReviewRunProofs --------------------------
(***************************************************************************)
(* Theorems about ReviewRun for any number of processes, Track outputs and *)
(* faults: the journal stays legal, and the Track B identity that entered  *)
(* FINALIZING never changes.                                               *)
(***************************************************************************)
EXTENDS ReviewRun, TLAPS

\* The command and file records that the steps start from have their types.
LEMMA InitialRecords ==
  Idle \in Command /\ NoFile \in OpenFile /\ Len(InitialStages) = 7
BY DEF Idle, NoFile, Command, OpenFile, NoEvent, WorkflowEvent, WorkflowStates,
       Content, PCs, InitialStages

\* A jump of one command keeps the commands' types.
LEMMA GotoType ==
  ASSUME TypeOK, NEW p \in Procs, NEW l \in PCs, Goto(p, l)
  PROVE  op' \in [Procs -> Command]
<1>1. op[p] \in Command
  BY DEF TypeOK
<1>2. [op[p] EXCEPT !.pc = l] \in Command
  BY <1>1 DEF Command
<1>3. QED
  BY <1>2, InitialRecords DEF TypeOK, Goto

\* The call of _append_event keeps the commands' types.
LEMMA AppendEventType ==
  ASSUME TypeOK, NEW p \in Procs, NEW s \in WorkflowStates, NEW c \in Content,
         NEW l \in PCs, AppendEvent(p, s, c, l)
  PROVE  op' \in [Procs -> Command]
<1>1. op[p] \in Command
  BY DEF TypeOK
<1>2. [op[p] EXCEPT !.pc = "event_load", !.after = l,
                    !.event = [next |-> s, payload |-> c]] \in Command
  <2>1. [next |-> s, payload |-> c] \in WorkflowEvent /\ "event_load" \in PCs
    BY DEF WorkflowEvent, PCs
  <2>2. QED
    BY <1>1, <2>1 DEF Command
<1>3. QED
  BY <1>2 DEF TypeOK, AppendEvent

\* A step that changes only the command preserves the types of the rest.
LEMMA QuietType ==
  ASSUME TypeOK, Quiet, op' \in [Procs -> Command]
  PROVE  TypeOK'
BY DEF TypeOK, Quiet

\* Ending a command, or going on with it, preserves the types.
LEMMA ContinueType ==
  ASSUME TypeOK, NEW p \in Procs, NEW l \in PCs, Continue(p, l) \/ Raise(p)
  PROVE  TypeOK'
<1>1. Quiet /\ (Goto(p, l) \/ Goto(p, "idle"))
  BY DEF Continue, Raise
<1>2. "idle" \in PCs
  BY DEF PCs
<1>3. QED
  BY <1>1, <1>2, GotoType, QuietType

\* Unlinking files keeps the types of files and descriptors.
LEMMA UnlinkType ==
  ASSUME TypeOK, NEW p \in Procs, NEW S, Unlink(p, S)
  PROVE  files' \in [Artifacts -> Content] /\ open' \in [Procs -> OpenFile]
<1>1. files' \in [Artifacts -> Content]
  BY DEF TypeOK, Unlink, Content
<1>2. \A q \in Procs : [open[q] EXCEPT !.file = "unlinked"] \in OpenFile
  BY DEF TypeOK, OpenFile
<1>3. open' \in [Procs -> OpenFile]
  BY <1>2, InitialRecords DEF TypeOK, Unlink
<1>4. QED
  BY <1>1, <1>3

\* Discarding files and going on preserves the types.
LEMMA DiscardType ==
  ASSUME TypeOK, NEW p \in Procs, NEW S, NEW l \in PCs, Discard(p, S, l)
  PROVE  TypeOK'
<1>1. op' \in [Procs -> Command]
  BY GotoType DEF Discard
<1>2. files' \in [Artifacts -> Content] /\ open' \in [Procs -> OpenFile]
  BY UnlinkType DEF Discard
<1>3. QED
  BY <1>1, <1>2 DEF TypeOK, Discard

\* Creating a file and filling it preserves the types.
LEMMA WriteType ==
  ASSUME TypeOK, NEW p \in Procs, NEW f \in Artifacts, NEW c \in Content,
         NEW l \in PCs, Write(p, f, c, l)
  PROVE  TypeOK'
<1>1. CASE CreateFile(p, f, c)
  <2>1. [file |-> f, content |-> c] \in OpenFile
    BY DEF OpenFile
  <2>2. QED
    BY <1>1, <2>1 DEF TypeOK, CreateFile, Content
<1>2. CASE FillFile(p, l)
  <2>1. op' \in [Procs -> Command]
    BY <1>2, GotoType DEF FillFile
  <2>2. open[p].content \in Content
    BY DEF TypeOK, OpenFile
  <2>3. QED
    BY <1>2, <2>1, <2>2, InitialRecords DEF TypeOK, FillFile
<1>3. QED
  BY <1>1, <1>2 DEF Write

\* The handler of finalize_review_run preserves the types.
LEMMA CleanUpType ==
  ASSUME TypeOK, NEW p \in Procs, CleanUp(p)
  PROVE  TypeOK'
<1>1. "idle" \in PCs
  BY DEF PCs
<1>2. QED
  BY <1>1, DiscardType DEF CleanUp

\* The two guarded ways to write a file preserve the types.
LEMMA GuardedWriteType ==
  ASSUME TypeOK, NEW p \in Procs, NEW f \in Artifacts, NEW c \in Content,
         NEW l \in PCs, WriteOrIdentical(p, f, c, l) \/ WriteOrCleanUp(p, f, c, l)
  PROVE  TypeOK'
BY WriteType, ContinueType, CleanUpType DEF WriteOrIdentical, WriteOrCleanUp

\* Recording a telemetry stage preserves the types.
LEMMA AppendStageType ==
  ASSUME TypeOK, NEW p \in Procs, NEW l \in PCs, AppendStage(p, l)
  PROVE  TypeOK'
<1>1. op' \in [Procs -> Command]
  BY GotoType DEF AppendStage
<1>2. QED
  BY <1>1 DEF TypeOK, AppendStage

\* Loading and appending an event preserve the types.
LEMMA EventType ==
  ASSUME TypeOK, NEW p \in Procs, EventLoad(p) \/ EventAppend(p)
  PROVE  TypeOK'
<1>1. op[p] \in Command /\ op[p].after \in PCs /\ op[p].event \in WorkflowEvent
  BY DEF TypeOK, Command
<1>2. CASE EventLoad(p)
  <2>1. CASE Continue(p, op[p].after) \/ Raise(p)
    BY <1>1, <2>1, ContinueType
  <2>2. CASE /\ op' = [op EXCEPT ![p] = [@ EXCEPT !.pc = "event_append",
                                                !.seen = Len(journal)]]
             /\ Quiet
    <3>1. Len(journal) \in Nat
      BY DEF TypeOK
    <3>2. [op[p] EXCEPT !.pc = "event_append", !.seen = Len(journal)] \in Command
      BY <1>1, <3>1 DEF Command, PCs
    <3>3. op' \in [Procs -> Command]
      BY <2>2, <3>2 DEF TypeOK
    <3>4. QED
      BY <2>2, <3>3, QuietType
  <2>3. QED
    BY <1>2, <2>1, <2>2 DEF EventLoad
<1>3. CASE EventAppend(p)
  <2>1. CASE Continue(p, op[p].after) \/ Raise(p)
    BY <1>1, <2>1, ContinueType
  <2>2. CASE /\ journal' = Append(journal, op[p].event)
             /\ Goto(p, op[p].after)
             /\ UNCHANGED <<files, open, torn_event, telemetry, bound_evidence, faults>>
    <3>1. op' \in [Procs -> Command]
      BY <1>1, <2>2, GotoType
    <3>2. journal' \in Seq(WorkflowEvent)
      BY <1>1, <2>2 DEF TypeOK
    <3>3. QED
      BY <2>2, <3>1, <3>2 DEF TypeOK
  <2>3. QED
    BY <1>3, <2>1, <2>2 DEF EventAppend
<1>4. QED
  BY <1>2, <1>3

\* The contents that commands write are contents.
LEMMA ContentType ==
  ASSUME TypeOK, NEW p \in Procs
  PROVE  /\ Fixed \in Content
         /\ op[p].doc \in Content
         /\ \A f \in Artifacts : files[f] \in Content
         /\ Submitted(p) \in Content
<1>1. op[p] \in Command /\ "track-b-output" \in Artifacts
  BY DEF TypeOK, Artifacts
<1>2. QED
  BY <1>1 DEF TypeOK, Content, Submitted, Command

\* A command starts with its type.
LEMMA StartType ==
  ASSUME TypeOK, NEW p \in Procs, NEW c \in {"prepare", "submit_a", "submit_b"},
         NEW h \in {"external", "canonical"}, NEW d \in Content, NEW l \in PCs,
         Start(p, c, h, d, l)
  PROVE  op' \in [Procs -> Command]
<1>1. [Idle EXCEPT !.pc = l, !.call = c, !.path = h, !.doc = d] \in Command
  BY InitialRecords DEF Command
<1>2. QED
  BY <1>1 DEF TypeOK, Start

\* The calls preserve the types.
LEMMA CallType ==
  ASSUME TypeOK, NEW p \in Procs, Call(p)
  PROVE  TypeOK'
<1>1. /\ Fixed \in Content /\ Absent \in Content
      /\ {"write_request", "write_query", "resume"} \subseteq PCs
      /\ "run-directory" \in Artifacts
  BY DEF Content, PCs, Artifacts
<1>2. ASSUME Prepare(p) PROVE TypeOK'
  <2>1. CASE Start(p, "prepare", "external", Absent, "write_request")
             /\ files' = [files EXCEPT !["run-directory"] = Fixed]
             /\ UNCHANGED <<open, journal, torn_event, telemetry, bound_evidence, faults>>
    <3>1. op' \in [Procs -> Command]
      BY <1>1, <2>1, StartType
    <3>2. QED
      BY <1>1, <2>1, <3>1 DEF TypeOK
  <2>2. CASE Start(p, "prepare", "canonical", Absent, "write_query") /\ Quiet
    <3>1. op' \in [Procs -> Command]
      BY <1>1, <2>2, StartType
    <3>2. QED
      BY <2>2, <3>1, QuietType
  <2>3. QED
    BY <1>2, <2>1, <2>2 DEF Prepare
<1>3. ASSUME NEW h \in {"external", "canonical"}, NEW a \in Content,
             SubmitTrackA(p, h, a)
      PROVE  TypeOK'
  <2>1. op' \in [Procs -> Command]
    BY <1>1, <1>3, StartType DEF SubmitTrackA
  <2>2. QED
    BY <1>3, <2>1, QuietType DEF SubmitTrackA
<1>4. ASSUME NEW h \in {"external", "canonical"}, NEW b \in Content,
             SubmitTrackB(p, h, b)
      PROVE  TypeOK'
  <2>1. op' \in [Procs -> Command]
    BY <1>1, <1>4, StartType DEF SubmitTrackB
  <2>2. QED
    BY <1>4, <2>1, QuietType DEF SubmitTrackB
<1>5. TrackAs \subseteq Content /\ TrackBs \subseteq Content
  BY DEF Content
<1>6. QED
  BY <1>1, <1>2, <1>3, <1>4, <1>5 DEF Call

\* Preparing a run preserves the types.
LEMMA PrepareType ==
  ASSUME TypeOK, NEW p \in Procs, PrepareFiles(p) \/ InitializeEvents(p)
  PROVE  TypeOK'
<1>1. /\ {"write_bundle", "write_query", "prepare_metric", "write_action_a",
          "resume", "init", "idle", "event_load"} \subseteq PCs
      /\ {"review-request", "track-a-bundle", "evidence-query",
          "next-action-track-a"} \subseteq Artifacts
  BY DEF PCs, Artifacts
<1>2. Fixed \in Content
  BY DEF Content
<1>3. CASE PrepareFiles(p)
  BY <1>1, <1>2, <1>3, WriteType, GuardedWriteType, AppendStageType, ContinueType
     DEF PrepareFiles
<1>4. CASE InitializeEvents(p)
  <2> DEFINE n == op[p].stage
             hash == IF n = 0 THEN files["track-a-bundle"] ELSE op[p].bundle
  <2>1. /\ Quiet
        /\ IF hash = Absent THEN Goto(p, "idle")
           ELSE IF n = Len(InitialStages) THEN Goto(p, "resume")
           ELSE op' = [op EXCEPT ![p] =
                         [op[p] EXCEPT !.pc = "event_load", !.after = "init",
                            !.stage = n + 1, !.bundle = hash,
                            !.event = [next |-> InitialStages[n + 1],
                                       payload |-> IF n < 3 THEN Fixed ELSE hash]]]
    BY <1>4 DEF InitializeEvents
  <2> HIDE DEF n, hash
  <2>2. CASE Goto(p, "resume") \/ Goto(p, "idle")
    BY <1>1, <2>1, <2>2, GotoType, QuietType
  <2>3. CASE /\ n # Len(InitialStages)
             /\ op' = [op EXCEPT ![p] =
                         [op[p] EXCEPT !.pc = "event_load", !.after = "init",
                            !.stage = n + 1, !.bundle = hash,
                            !.event = [next |-> InitialStages[n + 1],
                                       payload |-> IF n < 3 THEN Fixed ELSE hash]]]
    <3>1. op[p] \in Command /\ n \in 0..6
      BY <2>3, InitialRecords DEF TypeOK, Command, n
    <3>2. InitialStages[n + 1] \in WorkflowStates /\ n + 1 \in 0..7
      BY <3>1 DEF InitialStages, WorkflowStates
    <3>3. hash \in Content
      BY <1>1, <3>1 DEF TypeOK, Command, hash
    <3>4. (IF n < 3 THEN Fixed ELSE hash) \in Content
      BY <1>2, <3>3
    <3> DEFINE ev == [next |-> InitialStages[n + 1],
                      payload |-> IF n < 3 THEN Fixed ELSE hash]
               next == [op[p] EXCEPT !.pc = "event_load", !.after = "init",
                          !.stage = n + 1, !.bundle = hash, !.event = ev]
    <3>5. ev \in WorkflowEvent
      BY <3>2, <3>4 DEF WorkflowEvent
    <3>6. next \in Command
      <4> HIDE DEF ev
      <4>1. n + 1 \in 0..Len(InitialStages)
        BY <3>2, InitialRecords
      <4>2. QED
        BY <1>1, <3>1, <3>3, <3>5, <4>1 DEF Command
    <3>7. op' \in [Procs -> Command]
      BY <2>3, <3>6 DEF TypeOK
    <3>8. QED
      BY <2>1, <3>7, QuietType
  <2>4. QED
    BY <2>1, <2>2, <2>3
<1>5. QED
  BY <1>3, <1>4

\* _resume_state preserves the types.
LEMMA ResumeType ==
  ASSUME TypeOK, NEW p \in Procs, Resume(p)
  PROVE  TypeOK'
<1>1. {"init", "idle", "a_wait", "b_validate", "b_identity"} \subseteq PCs
  BY DEF PCs
<1>2. LastState(journal) \in WorkflowStates \cup {"NONE"}
  <2>1. CASE journal = <<>>
    BY <2>1 DEF LastState
  <2>2. CASE journal # <<>>
    <3>1. journal[Len(journal)] \in WorkflowEvent
      BY <2>2 DEF TypeOK
    <3>2. QED
      BY <2>2, <3>1 DEF LastState, WorkflowEvent
  <2>3. QED
    BY <2>1, <2>2
<1>3. ASSUME NEW l \in PCs,
             op' = [op EXCEPT ![p] = [@ EXCEPT !.pc = l, !.state = LastState(journal)]],
             Quiet
      PROVE  TypeOK'
  <2>1. op[p] \in Command
    BY DEF TypeOK
  <2>2. [op[p] EXCEPT !.pc = l, !.state = LastState(journal)] \in Command
    BY <1>2, <2>1 DEF Command
  <2>3. op' \in [Procs -> Command]
    BY <1>3, <2>2 DEF TypeOK
  <2>4. QED
    BY <1>3, <2>3, QuietType
<1>4. ASSUME AppendEvent(p, "READY_FOR_REVIEW", files["final-review-packet"], "idle"),
             Quiet
      PROVE  TypeOK'
  <2>1. files["final-review-packet"] \in Content
    BY ContentType DEF Artifacts, FINALIZATION_DERIVED
  <2>2. "READY_FOR_REVIEW" \in WorkflowStates
    BY DEF WorkflowStates
  <2>3. op' \in [Procs -> Command]
    BY <1>1, <1>4, <2>1, <2>2, AppendEventType
  <2>4. QED
    BY <1>4, <2>3, QuietType
<1>5. QED
  BY <1>1, <1>3, <1>4, ContinueType DEF Resume

\* Submitting Track A preserves the types.
LEMMA TrackAType ==
  ASSUME TypeOK, NEW p \in Procs,
         TrackAWait(p) \/ TrackARecover(p) \/ TrackAFiles(p) \/ TrackADone(p)
  PROVE  TypeOK'
<1>1. /\ {"idle", "a_recover", "a_unlink", "a_output", "a_bundle", "a_action",
          "a_validation", "a_metric"} \subseteq PCs
      /\ {"track-a-output", "track-b-bundle", "next-action-track-b",
          "track-a-validation"} \subseteq Artifacts
      /\ "WAITING_TRACK_B" \in WorkflowStates
  BY DEF PCs, Artifacts, TRACK_A_DERIVED, WorkflowStates
<1>2. /\ Fixed \in Content /\ op[p].doc \in Content
      /\ files["track-a-output"] \in Content
  BY <1>1, ContentType
<1>3. CASE TrackAWait(p)
  <2>1. SubmittedA(p) \in Content /\ op[p] \in Command
    BY <1>2 DEF SubmittedA, TypeOK
  <2>2. [op[p] EXCEPT !.pc = "a_recover", !.doc = SubmittedA(p)] \in Command
    BY <1>1, <2>1 DEF Command
  <2>3. op' \in [Procs -> Command] \/ Raise(p)
    BY <1>3, <2>2 DEF TrackAWait, Raise, TypeOK
  <2>4. CASE op' \in [Procs -> Command]
    BY <1>3, <2>4, QuietType DEF TrackAWait
  <2>5. CASE Raise(p)
    BY <1>1, <2>5, ContinueType
  <2> QED BY <2>3, <2>4, <2>5
<1>4. CASE TrackARecover(p)
  <2>1. CASE Discard(p, TRACK_A_DERIVED, "a_output")
    BY <1>1, <2>1, DiscardType
  <2>2. QED
    BY <1>1, <1>4, <2>1, ContinueType DEF TrackARecover
<1>5. CASE TrackAFiles(p)
  BY <1>1, <1>2, <1>5, GuardedWriteType, ContinueType DEF TrackAFiles
<1>6. CASE TrackADone(p)
  BY <1>1, <1>2, <1>6, AppendEventType, QuietType, ContinueType DEF TrackADone
<1>7. QED
  BY <1>3, <1>4, <1>5, <1>6

\* Submitting Track B preserves the types.
LEMMA TrackBType ==
  ASSUME TypeOK, NEW p \in Procs,
         TrackBIdentity(p) \/ TrackBValidate(p) \/ TrackBRecover(p) \/ TrackBFiles(p)
  PROVE  TypeOK'
<1>1. /\ {"idle", "b_validate", "b_recover", "b_unlink", "b_unlink_torn", "b_output",
          "b_validation", "f_start"} \subseteq PCs
      /\ {"track-b-output", "track-b-validation", "final-review-packet"}
           \subseteq Artifacts
      /\ {"FINALIZING", "READY_FOR_REVIEW"} \subseteq WorkflowStates
  BY DEF PCs, Artifacts, FINALIZATION_DERIVED, WorkflowStates
<1>2. /\ Submitted(p) \in Content /\ op[p].doc \in Content
      /\ files["track-b-output"] \in Content
      /\ files["final-review-packet"] \in Content
  BY <1>1, ContentType
<1>3. CASE TrackBIdentity(p)
  BY <1>1, <1>3, ContinueType DEF TrackBIdentity
<1>4. CASE TrackBValidate(p)
  BY <1>1, <1>2, <1>4, AppendEventType, GotoType, QuietType DEF TrackBValidate
<1>5. CASE TrackBRecover(p)
  <2>1. ASSUME NEW S, Discard(p, S, "b_output") PROVE TypeOK'
    BY <1>1, <2>1, DiscardType
  <2>2. CASE AtPc(p, "b_recover") /\ Quiet /\ Finalized
             /\ AppendEvent(p, "READY_FOR_REVIEW", files["final-review-packet"], "idle")
    BY <1>1, <1>2, <2>2, AppendEventType, QuietType
  <2>3. ASSUME NEW l \in PCs, Quiet, Goto(p, l) PROVE TypeOK'
    BY <2>3, GotoType, QuietType
  <2>4. QED
    BY <1>1, <1>5, <2>1, <2>2, <2>3 DEF TrackBRecover
<1>6. CASE TrackBFiles(p)
  BY <1>1, <1>2, <1>6, GuardedWriteType, ContinueType DEF TrackBFiles
<1>7. QED
  BY <1>3, <1>4, <1>5, <1>6

\* Finalizing preserves the types.
LEMMA FinalizeType ==
  ASSUME TypeOK, NEW p \in Procs,
         FinalizeStart(p) \/ FinalizeFiles(p) \/ FinalizeMetrics(p) \/ FinalizeReady(p)
  PROVE  TypeOK'
<1>1. /\ {"idle", "f_manifest", "f_packet", "f_packet_metric", "f_html",
          "f_html_metric", "f_ready"} \subseteq PCs
      /\ {"track-b-output"} \cup FINALIZATION_DERIVED \subseteq Artifacts
      /\ {"run-manifest", "final-review-packet", "review.html"} = FINALIZATION_DERIVED
      /\ "READY_FOR_REVIEW" \in WorkflowStates
  BY DEF PCs, Artifacts, FINALIZATION_DERIVED, WorkflowStates
<1>2. \A f \in Artifacts : files[f] \in Content
  BY ContentType
<1>3. CASE FinalizeStart(p)
  BY <1>1, <1>3, ContinueType DEF FinalizeStart
<1>4. CASE FinalizeFiles(p)
  <2>1. CASE CleanUp(p)
    BY <2>1, CleanUpType
  <2>2. CASE WriteOrCleanUp(p, "run-manifest", files["track-b-output"], "f_packet")
    BY <1>1, <1>2, <2>2, GuardedWriteType
  <2>3. CASE WriteOrCleanUp(p, "final-review-packet", files["run-manifest"],
                            "f_packet_metric")
    BY <1>1, <1>2, <2>3, GuardedWriteType
  <2>4. CASE WriteOrCleanUp(p, "review.html", files["final-review-packet"],
                            "f_html_metric")
    BY <1>1, <1>2, <2>4, GuardedWriteType
  <2>5. QED
    BY <1>4, <2>1, <2>2, <2>3, <2>4 DEF FinalizeFiles
<1>5. CASE FinalizeMetrics(p)
  <2>1. CASE AppendStage(p, "f_html") \/ AppendStage(p, "f_ready")
    BY <1>1, <2>1, AppendStageType
  <2>2. CASE CleanUp(p)
    BY <2>2, CleanUpType
  <2>3. QED
    BY <1>5, <2>1, <2>2 DEF FinalizeMetrics
<1>6. CASE FinalizeReady(p)
  <2>1. CASE Goto(p, "idle")
    BY <1>1, <1>6, <2>1, GotoType, QuietType DEF FinalizeReady
  <2>2. CASE AppendEvent(p, "READY_FOR_REVIEW", files["final-review-packet"], "idle")
    BY <1>1, <1>2, <1>6, <2>2, AppendEventType, QuietType DEF FinalizeReady
  <2>3. QED
    BY <1>6, <2>1, <2>2 DEF FinalizeReady
<1>7. QED
  BY <1>3, <1>4, <1>5, <1>6

\* What the environment does preserves the types.
LEMMA FaultType ==
  ASSUME TypeOK,
         \/ \E p \in Procs : Crash(p) \/ FinalizeFails(p) \/ PrepareFails(p)
         \/ ReplaceEvidence
         \/ RestoreEvidence
  PROVE  TypeOK'
<1>1. ASSUME Fault PROVE faults' \in 0..MaxFaults
  BY <1>1, ReviewRunAssumption DEF TypeOK, Fault
<1>2. ASSUME NEW p \in Procs, Crash(p) PROVE TypeOK'
  BY <1>1, <1>2, InitialRecords DEF TypeOK, Crash
<1>3. ASSUME NEW p \in Procs, FinalizeFails(p) \/ PrepareFails(p) PROVE TypeOK'
  <2>1. files' \in [Artifacts -> Content] /\ open' \in [Procs -> OpenFile]
    BY <1>3, UnlinkType DEF FinalizeFails, PrepareFails
  <2>2. "idle" \in PCs /\ <<>> \in Seq(WorkflowEvent)
    BY DEF PCs
  <2>3. op' \in [Procs -> Command]
    BY <1>3, <2>2, GotoType DEF FinalizeFails, PrepareFails
  <2>4. QED
    BY <1>1, <1>3, <2>1, <2>2, <2>3 DEF TypeOK, FinalizeFails, PrepareFails
<1>4. CASE ReplaceEvidence
  BY <1>1, <1>4 DEF TypeOK, ReplaceEvidence
<1>5. CASE RestoreEvidence
  BY <1>5 DEF TypeOK, RestoreEvidence
<1>6. QED
  BY <1>2, <1>3, <1>4, <1>5

\* Every step preserves the types.
LEMMA TypeStep == TypeOK /\ [Next]_vars => TypeOK'
<1>1. SUFFICES ASSUME TypeOK, [Next]_vars PROVE TypeOK'
  OBVIOUS
<1>2. ASSUME NEW p \in Procs, Step(p) PROVE TypeOK'
  BY <1>1, <1>2, EventType, PrepareType, ResumeType, TrackAType, TrackBType,
     FinalizeType DEF Step
<1>3. CASE UNCHANGED vars
  BY <1>1, <1>3 DEF vars, TypeOK
<1>4. QED
  BY <1>1, <1>2, <1>3, CallType, FaultType DEF Next

\* Every variable of a run keeps its type, for any sets of processes and
\* outputs and any number of faults.
THEOREM RunTypeCorrect == Spec => []TypeOK
<1>1. Init => TypeOK
  <2>1. Absent \in Content /\ <<>> \in Seq(WorkflowEvent)
    BY DEF Content
  <2>2. ASSUME Init
        PROVE  /\ files \in [Artifacts -> Content] /\ open \in [Procs -> OpenFile]
               /\ journal \in Seq(WorkflowEvent) /\ op \in [Procs -> Command]
    BY <2>1, <2>2, InitialRecords DEF Init
  <2>3. ASSUME Init PROVE faults \in 0..MaxFaults
    BY <2>3, ReviewRunAssumption DEF Init
  <2>4. QED
    BY <2>2, <2>3 DEF Init, TypeOK
<1>2. QED
  BY <1>1, TypeStep, PTL DEF Spec

-----------------------------------------------------------------------------

\* The states from which the question flow cannot return.
Closing == {"READY_FOR_REVIEW", "BLOCKED", "FAILED"}

\* What follows FINALIZING in a journal.
FinalizingOnce ==
  \A n \in 1..Len(journal) : journal[n].next = "FINALIZING" =>
    \A m \in 1..Len(journal) : m > n => journal[m].next \in Closing

JournalInv == TypeOK /\ JournalLegal /\ FinalizingOnce

\* No transition leaves a closing state, and only closing states follow
\* FINALIZING.
LEMMA ClosingStays ==
  ASSUME NEW s \in WorkflowStates, NEW t, s \in Closing \cup {"FINALIZING"},
         ValidTransition(s, t)
  PROVE  s = "FINALIZING" /\ t \in Closing
BY DEF ValidTransition, ForwardTransitions, WorkflowStates, Closing, Terminal

\* Only append_workflow_event changes the journal, by one event that may follow,
\* unless the whole run is removed.
LEMMA JournalStep ==
  ASSUME TypeOK, [Next]_vars
  PROVE  \/ UNCHANGED journal
         \/ \E e \in WorkflowEvent : /\ MayFollow(journal, e.next)
                                     /\ journal' = Append(journal, e)
         \/ journal' = <<>> /\ files'["run-directory"] = Absent
<1>1. ASSUME NEW p \in Procs, EventAppend(p), journal' # journal
      PROVE  \E e \in WorkflowEvent : /\ MayFollow(journal, e.next)
                                      /\ journal' = Append(journal, e)
  <2>1. op[p].event \in WorkflowEvent
    BY DEF TypeOK, Command
  <2>2. QED
    BY <1>1, <2>1 DEF EventAppend, Continue, Raise, Quiet
<1>2. ASSUME NEW p \in Procs, Call(p) PROVE UNCHANGED journal
  BY <1>2 DEF Call, Prepare, SubmitTrackA, SubmitTrackB, Quiet
<1>3. ASSUME NEW p \in Procs, Crash(p) \/ FinalizeFails(p) PROVE UNCHANGED journal
  BY <1>3 DEF Crash, FinalizeFails
<1>7. ASSUME NEW p \in Procs, PrepareFails(p)
      PROVE  journal' = <<>> /\ files'["run-directory"] = Absent
  BY <1>7 DEF PrepareFails, Unlink, Artifacts
<1>4. ASSUME NEW p \in Procs, Step(p), ~EventAppend(p) PROVE UNCHANGED journal
  <2>1. ASSUME Quiet PROVE UNCHANGED journal
    BY <2>1 DEF Quiet
  <2>2. ASSUME NEW l, Continue(p, l) \/ Raise(p) PROVE UNCHANGED journal
    BY <2>1, <2>2 DEF Continue, Raise
  <2>3. ASSUME NEW S, NEW l, Discard(p, S, l) PROVE UNCHANGED journal
    BY <2>3 DEF Discard
  <2>4. ASSUME NEW f, NEW c, NEW l,
               Write(p, f, c, l) \/ WriteOrIdentical(p, f, c, l) \/ WriteOrCleanUp(p, f, c, l)
        PROVE  UNCHANGED journal
    BY <2>2, <2>3, <2>4 DEF Write, CreateFile, FillFile, WriteOrIdentical,
       WriteOrCleanUp, CleanUp
  <2>5. ASSUME NEW l, AppendStage(p, l) PROVE UNCHANGED journal
    BY <2>5 DEF AppendStage
  <2>6. CASE EventLoad(p)
    BY <2>1, <2>2, <2>6 DEF EventLoad
  <2>7. CASE PrepareFiles(p) \/ InitializeEvents(p) \/ Resume(p)
    BY <2>1, <2>2, <2>4, <2>5, <2>7 DEF PrepareFiles, InitializeEvents, Resume
  <2>8. CASE TrackAWait(p) \/ TrackARecover(p) \/ TrackAFiles(p) \/ TrackADone(p)
    BY <2>1, <2>2, <2>3, <2>4, <2>8 DEF TrackAWait, TrackARecover, TrackAFiles, TrackADone
  <2>9. CASE TrackBIdentity(p) \/ TrackBValidate(p) \/ TrackBRecover(p) \/ TrackBFiles(p)
    BY <2>1, <2>2, <2>3, <2>4, <2>9
       DEF TrackBIdentity, TrackBValidate, TrackBRecover, TrackBFiles
  <2>10. CASE FinalizeStart(p) \/ FinalizeFiles(p) \/ FinalizeMetrics(p) \/ FinalizeReady(p)
    BY <2>1, <2>2, <2>3, <2>4, <2>5, <2>10
       DEF FinalizeStart, FinalizeFiles, FinalizeMetrics, FinalizeReady, CleanUp
  <2>11. QED
    BY <1>4, <2>6, <2>7, <2>8, <2>9, <2>10 DEF Step
<1>5. CASE ReplaceEvidence \/ RestoreEvidence \/ UNCHANGED vars
  BY <1>5 DEF ReplaceEvidence, RestoreEvidence, vars
<1>6. QED
  BY <1>1, <1>2, <1>3, <1>4, <1>5, <1>7 DEF Next

\* Appending an event that may follow keeps the journal legal and closed after
\* FINALIZING; after FINALIZING the event is not another FINALIZING.
LEMMA AppendLegal ==
  ASSUME JournalInv, NEW e \in WorkflowEvent, MayFollow(journal, e.next),
         journal' = Append(journal, e)
  PROVE  /\ JournalLegal' /\ FinalizingOnce'
         /\ Reached("FINALIZING") => e.next # "FINALIZING"
<1> DEFINE L == Len(journal)
<1>1. /\ L \in Nat /\ Len(journal') = L + 1 /\ journal'[L + 1] = e
      /\ \A n \in 1..L : journal'[n] = journal[n] /\ journal[n] \in WorkflowEvent
  BY DEF JournalInv, TypeOK
<1>2. CASE journal = <<>>
  <2>1. L = 0 /\ e.next = "RECEIVED"
    BY <1>2 DEF MayFollow
  <2>2. QED
    BY <1>1, <2>1 DEF JournalLegal, ValidJournal, FinalizingOnce, Reached
<1>3. CASE journal # <<>>
  <2>1. L \in 1..L /\ ValidTransition(journal[L].next, e.next)
    BY <1>1, <1>3 DEF MayFollow, LastState, JournalInv, TypeOK
  <2>2. JournalLegal'
    <3>1. journal'[1].next = "RECEIVED"
      BY <1>1, <1>3, <2>1 DEF JournalInv, JournalLegal, ValidJournal
    <3>2. ASSUME NEW n \in 1..(L + 1), n + 1 \in 1..(L + 1)
          PROVE  ValidTransition(journal'[n].next, journal'[n + 1].next)
      <4>1. CASE n = L
        BY <1>1, <2>1, <4>1
      <4>2. CASE n # L
        BY <1>1, <3>2, <4>2 DEF JournalInv, JournalLegal, ValidJournal
      <4>3. QED
        BY <4>1, <4>2
    <3>3. QED
      BY <1>1, <3>1, <3>2 DEF JournalLegal, ValidJournal
  <2>3. ASSUME NEW n \in 1..L, journal[n].next = "FINALIZING"
        PROVE  e.next \in Closing
    <3>1. journal[L].next \in Closing \cup {"FINALIZING"}
      BY <1>1, <2>1, <2>3 DEF JournalInv, FinalizingOnce
    <3>2. journal[L].next \in WorkflowStates
      BY <1>1, <2>1 DEF WorkflowEvent
    <3>3. QED
      BY <2>1, <3>1, <3>2, ClosingStays
  <2>4. FinalizingOnce'
    <3>1. SUFFICES ASSUME NEW n \in 1..(L + 1), journal'[n].next = "FINALIZING",
                          NEW m \in 1..(L + 1), m > n
                   PROVE  journal'[m].next \in Closing
      BY <1>1 DEF FinalizingOnce
    <3>2. n \in 1..L /\ journal[n].next = "FINALIZING"
      BY <1>1, <3>1
    <3>3. CASE m = L + 1
      BY <1>1, <2>3, <3>2, <3>3
    <3>4. CASE m # L + 1
      BY <1>1, <3>1, <3>2, <3>4 DEF JournalInv, FinalizingOnce
    <3>5. QED
      BY <3>3, <3>4
  <2>5. Reached("FINALIZING") => e.next # "FINALIZING"
    BY <2>3 DEF Reached, Closing
  <2>6. QED
    BY <2>2, <2>4, <2>5
<1>4. QED
  BY <1>2, <1>3

\* The journal's invariant is inductive.
LEMMA JournalInvStep == JournalInv /\ [Next]_vars => JournalInv'
<1>1. SUFFICES ASSUME JournalInv, [Next]_vars PROVE JournalInv'
  OBVIOUS
<1>2. TypeOK'
  BY <1>1, TypeStep DEF JournalInv
<1>3. CASE UNCHANGED journal
  BY <1>1, <1>2, <1>3 DEF JournalInv, JournalLegal, ValidJournal, FinalizingOnce
<1>4. CASE \E e \in WorkflowEvent : MayFollow(journal, e.next) /\ journal' = Append(journal, e)
  BY <1>1, <1>2, <1>4, AppendLegal DEF JournalInv
<1>5. CASE journal' = <<>>
  BY <1>2, <1>5 DEF JournalInv, JournalLegal, ValidJournal, FinalizingOnce
<1>6. QED
  BY <1>1, <1>3, <1>4, <1>5, JournalStep DEF JournalInv

\* The invariant holds throughout.
LEMMA JournalInvariant == Spec => []JournalInv
<1>1. Init => JournalLegal /\ FinalizingOnce
  BY DEF Init, JournalLegal, ValidJournal, FinalizingOnce
<1>2. Init /\ TypeOK => JournalInv
  BY <1>1 DEF JournalInv
<1>3. QED
  BY <1>2, RunTypeCorrect, JournalInvStep, PTL DEF Spec

\* Whatever the commands of any number of processes append, in whatever order
\* and however often they die, load_workflow_events accepts the journal.
THEOREM JournalLegalHolds == Spec => []JournalLegal
<1>1. JournalInv => JournalLegal
  BY DEF JournalInv
<1>2. QED
  BY <1>1, JournalInvariant, PTL

\* While the run is there no step changes the identity that entered FINALIZING.
LEMMA IdentityStays ==
  ASSUME JournalInv, [Next]_vars, Reached("FINALIZING"), files'["run-directory"] # Absent
  PROVE  FinalizingPayload' = FinalizingPayload
<1> DEFINE F == FinalizingIndices(journal)
<1>1. PICK n \in 1..Len(journal) : journal[n].next = "FINALIZING"
  BY DEF Reached
<1>2. F = {n}
  <2>1. n \in F /\ \A m \in F : m \in 1..Len(journal) /\ journal[m].next = "FINALIZING"
    BY <1>1 DEF FinalizingIndices
  <2>2. \A m \in F : ~(m > n) /\ ~(n > m)
    BY <1>1, <2>1 DEF JournalInv, FinalizingOnce, Closing
  <2>3. Len(journal) \in Nat
    BY DEF JournalInv, TypeOK
  <2>4. ASSUME NEW m \in F PROVE m = n
    <3>1. m \in 1..Len(journal) /\ n \in 1..Len(journal)
      BY <1>1, <2>1
    <3>2. m \in Nat /\ n \in Nat
      BY <3>1, <2>3
    <3>3. QED
      BY <2>2, <3>2
  <2>5. QED
    BY <2>1, <2>4
<1>3. FinalizingIndices(journal)' = {n} /\ journal'[n] = journal[n]
  <2>1. CASE UNCHANGED journal
    BY <1>2, <2>1 DEF FinalizingIndices
  <2>2. CASE \E e \in WorkflowEvent : MayFollow(journal, e.next) /\ journal' = Append(journal, e)
    <3>1. PICK e \in WorkflowEvent : MayFollow(journal, e.next) /\ journal' = Append(journal, e)
      BY <2>2
    <3>2. e.next # "FINALIZING"
      BY <3>1, AppendLegal
    <3>3. /\ Len(journal) \in Nat /\ Len(journal') = Len(journal) + 1
          /\ journal'[Len(journal) + 1] = e
          /\ \A m \in 1..Len(journal) : journal'[m] = journal[m]
      BY <3>1 DEF JournalInv, TypeOK
    <3>4. FinalizingIndices(journal)' = F
      BY <3>2, <3>3 DEF FinalizingIndices
    <3>5. QED
      BY <1>1, <1>2, <3>3, <3>4
  <2>3. QED
    BY <2>1, <2>2, JournalStep DEF JournalInv
<1>4. (CHOOSE k \in {n} : \A m \in {n} : m <= k) = n
  BY <1>1
<1>5. FinalizingPayload = journal[n].payload
  BY <1>2, <1>4 DEF FinalizingPayload
<1>6. FinalizingPayload' = journal'[n].payload
  BY <1>3, <1>4 DEF FinalizingPayload
<1>7. QED
  BY <1>3, <1>5, <1>6

\* The identity of the Track B that entered FINALIZING never changes again.
THEOREM FinalizingIdentityFixedHolds == Spec => FinalizingIdentityFixed
<1>1. ASSUME JournalInv, [Next]_vars
      PROVE  [Reached("FINALIZING") /\ files'["run-directory"] # Absent
                => FinalizingPayload' = FinalizingPayload]_vars
  BY <1>1, IdentityStays
<1>2. QED
  BY <1>1, JournalInvariant, PTL DEF Spec, FinalizingIdentityFixed
-----------------------------------------------------------------------------
(***************************************************************************)
(* One command at a time.  Two commands at once can undo each other's work *)
(* (run_double_submit), so what follows is about a run whose commands one  *)
(* process issues, one after the other; any of them may die or fail at any *)
(* step and be called again, and the evidence database may be replaced.    *)
(***************************************************************************)

\* The commands of the run are issued by one process.
OneProcess == \A p, q \in Procs : p = q

\* How far a state is from the hand-off to Track A.
Place(s) ==
  IF s = "WAITING_TRACK_A" THEN 1
  ELSE IF s = "WAITING_TRACK_B" THEN 2
  ELSE IF s = "FINALIZING" THEN 3
  ELSE IF s = "READY_FOR_REVIEW" THEN 4
  ELSE IF s \in {"BLOCKED", "FAILED"} THEN 5
  ELSE 0

\* The journal never goes back over one of these states.
JournalAdvances ==
  \A m, n \in 1..Len(journal) :
    m <= n => Place(journal[m].next) <= Place(journal[n].next)

HandoffFiles ==
  /\ files["track-a-output"] \in TrackAs
  /\ files["track-b-bundle"] = files["track-a-output"]
  /\ files["track-a-validation"] = files["track-a-output"]
  /\ files["next-action-track-b"] = Fixed

DerivedFrom(S) ==
  \A f \in S : files[f] = files["track-b-output"] /\ files[f] \in TrackBs

\* What the directory holds between commands.
Stored ==
  /\ files["track-a-output"] \in TrackAs \cup {Absent, Torn}
  /\ files["track-b-output"] \in TrackBs \cup {Absent, Torn}
  /\ Reached("WAITING_TRACK_B") => HandoffFiles
  /\ ~Reached("FINALIZING") => \A f \in FINALIZATION_DERIVED : files[f] = Absent
  /\ Reached("READY_FOR_REVIEW") => DerivedFrom(FINALIZATION_DERIVED)
  /\ Readable("final-review-packet") => files["final-review-packet"] = FinalizingPayload

\* Without its directory a run has no file and no event, and no command in progress
\* but one about to find that out.
NoDirectory ==
  files["run-directory"] = Absent =>
    /\ \A f \in Artifacts : files[f] = Absent
    /\ journal = <<>>
    /\ \A p \in Procs : op[p].pc \in {"idle", "resume"}

\* The file that a command creates and fills at its present step.
Target(p) ==
  LET of(f, c) == [file |-> f, content |-> c]
      pc == op[p].pc
  IN IF pc = "write_request" THEN of("review-request", Fixed)
     ELSE IF pc = "write_bundle" THEN of("track-a-bundle", Fixed)
     ELSE IF pc = "write_query" THEN of("evidence-query", Fixed)
     ELSE IF pc = "write_action_a" THEN of("next-action-track-a", Fixed)
     ELSE IF pc = "a_output" /\ op[p].path = "external" THEN of("track-a-output", op[p].doc)
     ELSE IF pc = "a_bundle" THEN of("track-b-bundle", op[p].doc)
     ELSE IF pc = "a_action" THEN of("next-action-track-b", Fixed)
     ELSE IF pc = "a_validation" THEN of("track-a-validation", files["track-a-output"])
     ELSE IF pc = "b_output" /\ op[p].path = "external" THEN of("track-b-output", op[p].doc)
     ELSE IF pc = "b_validation" THEN of("track-b-validation", files["track-b-output"])
     ELSE IF pc = "f_manifest" THEN of("run-manifest", files["track-b-output"])
     ELSE IF pc = "f_packet" THEN of("final-review-packet", files["run-manifest"])
     ELSE IF pc = "f_html" THEN of("review.html", files["final-review-packet"])
     ELSE NoFile

Writing(p) ==
  open[p] # NoFile => open[p] = Target(p) /\ files[open[p].file] = Torn

ASteps == {"a_wait", "a_recover", "a_unlink", "a_output", "a_bundle", "a_action",
           "a_validation", "a_metric"}
BSteps == {"b_identity", "b_validate", "b_recover", "b_unlink", "b_unlink_torn", "b_output"}
FSteps == {"b_validation", "f_start", "f_manifest", "f_packet", "f_packet_metric",
           "f_html", "f_html_metric", "f_ready"}

\* The output in hand.
Called(p) ==
  /\ op[p].call = "submit_a" /\ op[p].path = "external" => op[p].doc \in TrackAs
  /\ op[p].call = "submit_b" /\ op[p].path = "external" => op[p].doc \in TrackBs
  /\ op[p].pc \in ASteps => op[p].call = "submit_a"
  /\ op[p].pc \in BSteps => op[p].call = "submit_b"

Preparing(p) ==
  op[p].pc \in {"write_request", "write_bundle"} =>
    files["track-a-output"] = Absent /\ files["track-b-output"] = Absent

\* Track A: what is published so far is derived from the output in hand.
HandingOff(p) ==
  op[p].pc \in ASteps =>
    /\ LastState(journal) = "WAITING_TRACK_A"
    /\ op[p].pc # "a_wait" => op[p].doc \in TrackAs
    /\ op[p].pc # "a_wait" /\ op[p].path = "canonical" =>
         files["track-a-output"] = op[p].doc
    /\ op[p].pc \in {"a_bundle", "a_action", "a_validation", "a_metric"} =>
         files["track-a-output"] = op[p].doc
    /\ op[p].pc \in {"a_action", "a_validation", "a_metric"} =>
         files["track-b-bundle"] = op[p].doc
    /\ op[p].pc \in {"a_validation", "a_metric"} => files["next-action-track-b"] = Fixed
    /\ op[p].pc = "a_metric" => files["track-a-validation"] = op[p].doc

InHand(p) == Submitted(p) \notin {Absent, Torn}

\* Track B before it is in place: it is the one that entered FINALIZING.
Identified(p) ==
  op[p].pc \in BSteps =>
    /\ LastState(journal) =
         IF op[p].pc \in {"b_identity", "b_validate"} THEN op[p].state ELSE "FINALIZING"
    /\ op[p].pc = "b_identity" => op[p].state = "FINALIZING"
    /\ op[p].pc = "b_validate" => op[p].state \in {"WAITING_TRACK_B", "FINALIZING"}
    /\ op[p].pc # "b_identity" /\ LastState(journal) = "FINALIZING" =>
         Submitted(p) = FinalizingPayload
    /\ op[p].pc \notin {"b_identity", "b_validate"} => InHand(p)
    /\ op[p].pc = "b_unlink_torn" => op[p].path = "external" /\ files["track-b-output"] = Torn

\* ... and afterwards, with what is derived from it so far.
Finishing(p) ==
  op[p].pc \in FSteps =>
    /\ LastState(journal) = "FINALIZING"
    /\ Readable("track-b-output")
    /\ files["track-b-output"] = FinalizingPayload
    /\ op[p].pc \in {"f_packet", "f_packet_metric", "f_html", "f_html_metric", "f_ready"} =>
         DerivedFrom({"run-manifest"})
    /\ op[p].pc \in {"f_packet_metric", "f_html", "f_html_metric", "f_ready"} =>
         DerivedFrom({"final-review-packet"})
    /\ op[p].pc \in {"f_html_metric", "f_ready"} => DerivedFrom({"review.html"})

\* An event about to be recorded.
Announces(p) ==
  op[p].pc \in {"event_load", "event_append"} =>
    /\ op[p].pc = "event_append" => op[p].seen = Len(journal)
    /\ \/ /\ op[p].event.next = "WAITING_TRACK_B" /\ op[p].after = "idle"
          /\ LastState(journal) = "WAITING_TRACK_A"
          /\ HandoffFiles
       \/ /\ op[p].event.next = "FINALIZING" /\ op[p].after = "b_output"
          /\ LastState(journal) = "WAITING_TRACK_B"
          /\ op[p].call = "submit_b"
          /\ Submitted(p) = op[p].event.payload /\ InHand(p)
       \/ /\ op[p].event.next = "READY_FOR_REVIEW" /\ op[p].after = "idle"
          /\ LastState(journal) = "FINALIZING"
          /\ DerivedFrom(FINALIZATION_DERIVED)
       \/ /\ Place(op[p].event.next) <= 1 /\ op[p].after = "init"

\* What holds of the command of process p.
CommandInv(p) ==
  /\ Writing(p) /\ Called(p) /\ Preparing(p) /\ HandingOff(p)
  /\ Identified(p) /\ Finishing(p) /\ Announces(p)

Shared == JournalAdvances /\ Stored /\ NoDirectory

RunInv == Shared /\ \A p \in Procs : CommandInv(p)
-----------------------------------------------------------------------------

LEMMA Steps ==
  /\ "run-directory" \in Artifacts /\ TRACK_A_DERIVED \subseteq Artifacts
  /\ FINALIZATION_DERIVED \subseteq Artifacts
  /\ {"track-a-output", "track-b-output", "track-b-validation", "review-request",
      "track-a-bundle", "evidence-query", "next-action-track-a"} \subseteq Artifacts
  /\ "run-directory" \notin TRACK_A_DERIVED \cup FINALIZATION_DERIVED
BY DEF Artifacts, TRACK_A_DERIVED, FINALIZATION_DERIVED

\* In a journal that advances nothing further than its last state was reached.
LEMMA NotBeyondLast ==
  ASSUME TypeOK, JournalAdvances
  PROVE  /\ LastState(journal) = "WAITING_TRACK_A" =>
              ~Reached("WAITING_TRACK_B") /\ ~Reached("FINALIZING") /\ ~Reached("READY_FOR_REVIEW")
         /\ LastState(journal) = "WAITING_TRACK_B" =>
              ~Reached("FINALIZING") /\ ~Reached("READY_FOR_REVIEW")
         /\ LastState(journal) = "FINALIZING" =>
              Reached("FINALIZING") /\ ~Reached("READY_FOR_REVIEW")
<1>1. Len(journal) \in Nat
  BY DEF TypeOK
<1>2. ASSUME NEW s, LastState(journal) = s, s # "NONE"
      PROVE  /\ Reached(s)
             /\ \A t : Reached(t) => Place(t) <= Place(s)
  <2>1. journal # <<>> /\ journal[Len(journal)].next = s
    BY <1>2 DEF LastState
  <2>2. Len(journal) # 0
    BY <2>1 DEF TypeOK
  <2>3. Len(journal) \in 1..Len(journal)
    BY <1>1, <2>2
  <2>4. \A n \in 1..Len(journal) : Place(journal[n].next) <= Place(s)
    BY <1>1, <2>1, <2>3 DEF JournalAdvances
  <2>5. QED
    BY <2>1, <2>3, <2>4 DEF Reached
<1>3. /\ Place("WAITING_TRACK_A") = 1 /\ Place("WAITING_TRACK_B") = 2
      /\ Place("FINALIZING") = 3 /\ Place("READY_FOR_REVIEW") = 4
  BY DEF Place
<1>4. QED
  <2>1. ASSUME LastState(journal) = "WAITING_TRACK_A"
        PROVE  ~Reached("WAITING_TRACK_B") /\ ~Reached("FINALIZING") /\ ~Reached("READY_FOR_REVIEW")
    BY <1>2, <1>3, <2>1
  <2>2. ASSUME LastState(journal) = "WAITING_TRACK_B"
        PROVE  ~Reached("FINALIZING") /\ ~Reached("READY_FOR_REVIEW")
    BY <1>2, <1>3, <2>2
  <2>3. ASSUME LastState(journal) = "FINALIZING"
        PROVE  Reached("FINALIZING") /\ ~Reached("READY_FOR_REVIEW")
    BY <1>2, <1>3, <2>3
  <2>4. QED
    BY <2>1, <2>2, <2>3

\* A step that leaves files and journal alone keeps what is shared.
LEMMA SharedKept ==
  ASSUME TypeOK, Shared, UNCHANGED <<files, journal>>,
         files["run-directory"] = Absent =>
           \A q \in Procs : op'[q].pc \in {"idle", "resume"}
  PROVE  Shared'
BY DEF Shared, JournalAdvances, Stored, NoDirectory, Reached, HandoffFiles, DerivedFrom,
       Readable, FinalizingPayload, FinalizingIndices

\* So does a step that creates a file, without its bytes ...
LEMMA SharedCreate ==
  ASSUME TypeOK, Shared, UNCHANGED journal, NEW f \in Artifacts, files[f] = Absent,
         files' = [files EXCEPT ![f] = Torn],
         files["run-directory"] # Absent, f \in FINALIZATION_DERIVED => Reached("FINALIZING")
  PROVE  Shared'
<1>1. /\ JournalAdvances' /\ \A s : Reached(s)' = Reached(s)
      /\ FinalizingPayload' = FinalizingPayload
  BY DEF Shared, JournalAdvances, Reached, FinalizingPayload, FinalizingIndices
<1>2. \A g \in Artifacts : files'[g] = IF g = f THEN Torn ELSE files[g]
  BY DEF TypeOK
<1>3. Torn # Absent /\ Fixed # Absent /\ Absent \notin TrackAs \cup TrackBs
  BY ReviewRunAssumption
<1>4. NoDirectory'
  BY <1>2, <1>3, Steps DEF NoDirectory
<1>5. Stored'
  <2>1. /\ files'["track-a-output"] \in TrackAs \cup {Absent, Torn}
        /\ files'["track-b-output"] \in TrackBs \cup {Absent, Torn}
    BY <1>2, Steps DEF Shared, Stored
  <2>2. HandoffFiles => HandoffFiles'
    BY <1>2, <1>3, Steps DEF HandoffFiles, TRACK_A_DERIVED
  <2>3. Reached("FINALIZING") \/ \A g \in FINALIZATION_DERIVED : files'[g] = Absent
    BY <1>2, Steps DEF Shared, Stored
  <2>4. DerivedFrom(FINALIZATION_DERIVED) => DerivedFrom(FINALIZATION_DERIVED)'
    <3>1. ASSUME DerivedFrom(FINALIZATION_DERIVED)
          PROVE  /\ files["track-b-output"] # Absent
                 /\ \A g \in FINALIZATION_DERIVED : files[g] # Absent
      BY <1>3, <3>1 DEF DerivedFrom, FINALIZATION_DERIVED
    <3>2. QED
      BY <1>2, <3>1, Steps DEF DerivedFrom
  <2>5. Readable("final-review-packet")' =>
          files'["final-review-packet"] = FinalizingPayload
    <3>1. "final-review-packet" \in Artifacts
      BY DEF Artifacts, FINALIZATION_DERIVED
    <3>2. QED
      BY <1>2, <3>1 DEF Shared, Stored, Readable
  <2>6. QED
    BY <1>1, <2>1, <2>2, <2>3, <2>4, <2>5 DEF Shared, Stored
<1>6. QED
  BY <1>1, <1>4, <1>5 DEF Shared

\* ... one that gives it its bytes ...
LEMMA SharedFill ==
  ASSUME TypeOK, Shared, UNCHANGED journal, NEW f \in Artifacts, NEW c, files[f] = Torn,
         files' = [g \in Artifacts |-> IF g = f THEN c ELSE files[g]],
         files["run-directory"] # Absent, f # "run-directory",
         f = "track-a-output" => c \in TrackAs,
         f = "track-b-output" => c \in TrackBs,
         f \in FINALIZATION_DERIVED => Reached("FINALIZING"),
         f = "final-review-packet" => c = FinalizingPayload
  PROVE  Shared'
<1>1. /\ JournalAdvances' /\ \A s : Reached(s)' = Reached(s)
      /\ FinalizingPayload' = FinalizingPayload
  BY DEF Shared, JournalAdvances, Reached, FinalizingPayload, FinalizingIndices
<1>2. \A g \in Artifacts : files'[g] = IF g = f THEN c ELSE files[g]
  OBVIOUS
<1>3. Torn # Absent /\ Fixed # Torn /\ Torn \notin TrackAs \cup TrackBs
  BY ReviewRunAssumption
<1>4. NoDirectory'
  BY <1>2, <1>3, Steps DEF NoDirectory
<1>5. Stored'
  <2>1. /\ files'["track-a-output"] \in TrackAs \cup {Absent, Torn}
        /\ files'["track-b-output"] \in TrackBs \cup {Absent, Torn}
    BY <1>2, Steps DEF Shared, Stored
  <2>2. HandoffFiles => HandoffFiles'
    BY <1>2, <1>3, Steps DEF HandoffFiles, TRACK_A_DERIVED
  <2>3. Reached("FINALIZING") \/ \A g \in FINALIZATION_DERIVED : files'[g] = Absent
    BY <1>2, Steps DEF Shared, Stored
  <2>4. DerivedFrom(FINALIZATION_DERIVED) => DerivedFrom(FINALIZATION_DERIVED)'
    <3>1. ASSUME DerivedFrom(FINALIZATION_DERIVED)
          PROVE  /\ files["track-b-output"] # Torn
                 /\ \A g \in FINALIZATION_DERIVED : files[g] # Torn
      BY <1>3, <3>1 DEF DerivedFrom, FINALIZATION_DERIVED
    <3>2. QED
      BY <1>2, <3>1, Steps DEF DerivedFrom
  <2>5. Readable("final-review-packet")' =>
          files'["final-review-packet"] = FinalizingPayload
    <3>1. "final-review-packet" \in Artifacts
      BY DEF Artifacts, FINALIZATION_DERIVED
    <3>2. QED
      BY <1>2, <3>1 DEF Shared, Stored, Readable
  <2>6. QED
    BY <1>1, <2>1, <2>2, <2>3, <2>4, <2>5 DEF Shared, Stored
<1>6. QED
  BY <1>1, <1>4, <1>5 DEF Shared

\* ... and one that removes files on which nothing rests yet.
LEMMA SharedDiscard ==
  ASSUME TypeOK, Shared, UNCHANGED journal, NEW S,
         files' = [g \in Artifacts |-> IF g \in S THEN Absent ELSE files[g]],
         files["run-directory"] # Absent, "run-directory" \notin S,
         "track-a-output" \notin S,
         S \cap TRACK_A_DERIVED # {} => ~Reached("WAITING_TRACK_B"),
         S # {} => ~Reached("READY_FOR_REVIEW")
  PROVE  Shared'
<1>1. /\ JournalAdvances' /\ \A s : Reached(s)' = Reached(s)
      /\ FinalizingPayload' = FinalizingPayload
  BY DEF Shared, JournalAdvances, Reached, FinalizingPayload, FinalizingIndices
<1>2. \A g \in Artifacts : files'[g] = IF g \in S THEN Absent ELSE files[g]
  OBVIOUS
<1>3. NoDirectory'
  BY <1>2, Steps DEF NoDirectory
<1>4. Stored'
  <2>1. /\ files'["track-a-output"] \in TrackAs \cup {Absent, Torn}
        /\ files'["track-b-output"] \in TrackBs \cup {Absent, Torn}
    BY <1>2, Steps DEF Shared, Stored
  <2>2. Reached("WAITING_TRACK_B") => HandoffFiles'
    <3>1. CASE S \cap TRACK_A_DERIVED = {}
      BY <1>2, <3>1, Steps DEF Shared, Stored, HandoffFiles, TRACK_A_DERIVED
    <3>2. QED
      BY <3>1
  <2>3. Reached("FINALIZING") \/ \A g \in FINALIZATION_DERIVED : files'[g] = Absent
    BY <1>2, Steps DEF Shared, Stored
  <2>4. Reached("READY_FOR_REVIEW") => DerivedFrom(FINALIZATION_DERIVED)'
    <3>1. CASE S = {}
      BY <1>2, <3>1, Steps DEF Shared, Stored, DerivedFrom
    <3>2. QED
      BY <3>1
  <2>5. Readable("final-review-packet")' =>
          files'["final-review-packet"] = FinalizingPayload
    <3>1. "final-review-packet" \in Artifacts
      BY DEF Artifacts, FINALIZATION_DERIVED
    <3>2. QED
      BY <1>2, <3>1 DEF Shared, Stored, Readable
  <2>6. QED
    BY <1>1, <2>1, <2>2, <2>3, <2>4, <2>5 DEF Shared, Stored
<1>5. QED
  BY <1>1, <1>3, <1>4 DEF Shared
\* What the predicates below say of process p is said of every process.
LEMMA OneMoves ==
  ASSUME OneProcess, TypeOK, RunInv, NEW p \in Procs, UNCHANGED <<files, journal>>,
         files["run-directory"] # Absent \/ op'[p].pc \in {"idle", "resume"},
         CommandInv(p)'
  PROVE  RunInv'
<1>1. \A q \in Procs : q = p
  BY DEF OneProcess
<1>2. Shared'
  BY <1>1, SharedKept DEF RunInv
<1>3. QED
  BY <1>1, <1>2 DEF RunInv

\* A command in progress has a directory to work in, and a file open only at the
\* steps that write one.
LEMMA AtWork ==
  ASSUME RunInv, NEW p \in Procs
  PROVE  /\ op[p].pc \notin {"idle", "resume"} => files["run-directory"] # Absent
         /\ Target(p) = NoFile => open[p] = NoFile
BY DEF RunInv, Shared, NoDirectory, CommandInv, Writing

\* A command that has ended owes nothing.
LEMMA Rests ==
  ASSUME NEW p \in Procs, op'[p] = Idle, open'[p] = NoFile
  PROVE  CommandInv(p)' /\ op'[p].pc = "idle"
BY DEF Idle, CommandInv, Writing, Called, Preparing, HandingOff, Identified, Finishing,
       Announces, ASteps, BSteps, FSteps

\* Where a jump leads to.
LEMMA Jumps ==
  ASSUME TypeOK, NEW p \in Procs, NEW l, Goto(p, l)
  PROVE  /\ l = "idle" => op'[p] = Idle
         /\ l # "idle" => /\ op'[p].pc = l
                          /\ op'[p].call = op[p].call /\ op'[p].path = op[p].path
                          /\ op'[p].doc = op[p].doc /\ op'[p].state = op[p].state
                          /\ op'[p].event = op[p].event /\ op'[p].after = op[p].after
                          /\ op'[p].seen = op[p].seen
<1>1. op[p] \in Command
  BY DEF TypeOK
<1>2. op'[p] = IF l = "idle" THEN Idle ELSE [op[p] EXCEPT !.pc = l]
  BY DEF TypeOK, Goto
<1>3. QED
  BY <1>1, <1>2 DEF Command

\* An exception ends the command.
LEMMA RaiseKeeps ==
  ASSUME OneProcess, TypeOK, RunInv, NEW p \in Procs, open[p] = NoFile, Raise(p)
  PROVE  RunInv'
<1>1. op'[p] = Idle /\ open'[p] = NoFile /\ UNCHANGED <<files, journal>>
  BY Jumps DEF Raise, Quiet
<1>2. QED
  BY <1>1, Rests, OneMoves

\* The call of _append_event.
LEMMA Announcing ==
  ASSUME TypeOK, NEW p \in Procs, NEW s, NEW c, NEW l, AppendEvent(p, s, c, l)
  PROVE  /\ op'[p].pc = "event_load" /\ op'[p].after = l
         /\ op'[p].event.next = s /\ op'[p].event.payload = c
         /\ op'[p].call = op[p].call /\ op'[p].path = op[p].path /\ op'[p].doc = op[p].doc
<1>1. op[p] \in Command
  BY DEF TypeOK
<1>2. op'[p] = [op[p] EXCEPT !.pc = "event_load", !.after = l,
                             !.event = [next |-> s, payload |-> c]]
  BY DEF TypeOK, AppendEvent
<1>3. QED
  BY <1>1, <1>2 DEF Command

-----------------------------------------------------------------------------
(* Recording an event.                                                     *)

\* _append_event loads the journal.
LEMMA EventLoadKeeps ==
  ASSUME OneProcess, TypeOK, RunInv, NEW p \in Procs, EventLoad(p)
  PROVE  RunInv'
<1>1. op[p].pc = "event_load" /\ files["run-directory"] # Absent /\ open[p] = NoFile
  BY AtWork DEF EventLoad, AtPc, Target
<1>2. CASE Raise(p)
  BY <1>1, <1>2, RaiseKeeps
<1>3. CASE Continue(p, op[p].after) /\ LastState(journal) = op[p].event.next
  <2>1. UNCHANGED <<files, journal>> /\ open'[p] = NoFile
    BY <1>1, <1>3 DEF Continue, Quiet
  <2>2. op[p].after = "init"
    BY <1>1, <1>3 DEF RunInv, CommandInv, Announces
  <2>3. op'[p].pc = "init" /\ op'[p].call = op[p].call /\ op'[p].path = op[p].path
        /\ op'[p].doc = op[p].doc
    BY <1>3, <2>2, Jumps DEF Continue
  <2>4. CommandInv(p)'
    BY <2>1, <2>3 DEF RunInv, CommandInv, Writing, Called, Preparing, HandingOff, Identified,
       Finishing, Announces, ASteps, BSteps, FSteps
  <2>5. QED
    BY <1>1, <2>1, <2>4, OneMoves
<1>4. CASE /\ op' = [op EXCEPT ![p] = [@ EXCEPT !.pc = "event_append", !.seen = Len(journal)]]
           /\ Quiet
  <2>1. UNCHANGED <<files, journal>> /\ open'[p] = NoFile
    BY <1>1, <1>4 DEF Quiet
  <2>2. op[p] \in Command
    BY DEF TypeOK
  <2>3. op'[p] = [op[p] EXCEPT !.pc = "event_append", !.seen = Len(journal)]
    BY <1>4 DEF TypeOK
  <2>4. /\ op'[p].pc = "event_append" /\ op'[p].seen = Len(journal)
        /\ op'[p].call = op[p].call /\ op'[p].path = op[p].path /\ op'[p].doc = op[p].doc
        /\ op'[p].event = op[p].event /\ op'[p].after = op[p].after
    BY <2>2, <2>3 DEF Command
  <2>5. CommandInv(p)'
    BY <1>1, <2>1, <2>4 DEF RunInv, CommandInv, Writing, Called, Preparing, HandingOff,
       Identified, Finishing, Announces, ASteps, BSteps, FSteps, HandoffFiles, DerivedFrom,
       Submitted, InHand
  <2>6. QED
    BY <1>1, <2>1, <2>5, OneMoves
<1>5. QED
  BY <1>2, <1>3, <1>4 DEF EventLoad

\* A transition does not lead back.
LEMMA TransitionAdvances ==
  ASSUME NEW s \in WorkflowStates, NEW t, ValidTransition(s, t)
  PROVE  Place(s) <= Place(t)
BY DEF ValidTransition, ForwardTransitions, WorkflowStates, Terminal, Place

\* Appending an event that may follow.
LEMMA AppendAdvances ==
  ASSUME TypeOK, JournalAdvances, NEW e \in WorkflowEvent, MayFollow(journal, e.next),
         journal' = Append(journal, e)
  PROVE  /\ JournalAdvances'
         /\ \A s : Reached(s)' <=> Reached(s) \/ e.next = s
         /\ LastState(journal)' = e.next
<1> DEFINE L == Len(journal)
<1>1. /\ L \in Nat /\ Len(journal') = L + 1 /\ journal'[L + 1] = e
      /\ \A n \in 1..L : journal'[n] = journal[n] /\ journal[n] \in WorkflowEvent
  BY DEF TypeOK
<1>2. LastState(journal)' = e.next
  <2>1. journal' # <<>>
    BY <1>1
  <2>2. QED
    BY <1>1, <2>1 DEF LastState
<1>3. \A s : Reached(s)' <=> Reached(s) \/ e.next = s
  <2>1. 1..(L + 1) = 1..L \cup {L + 1} /\ L + 1 \notin 1..L
    BY <1>1
  <2>2. QED
    BY <1>1, <2>1 DEF Reached
<1>4. \A s : Place(s) \in 0..5
  BY DEF Place
<1>5. ASSUME NEW n \in 1..L PROVE Place(journal[n].next) <= Place(e.next)
  <2>1. L \in 1..L /\ journal # <<>>
    BY <1>1, <1>5
  <2>2. Place(journal[n].next) <= Place(journal[L].next)
    BY <1>1, <2>1 DEF JournalAdvances
  <2>3. journal[L].next \in WorkflowStates
    BY <1>1, <2>1 DEF WorkflowEvent
  <2>4. ValidTransition(journal[L].next, e.next)
    BY <2>1 DEF MayFollow, LastState
  <2>5. Place(journal[L].next) <= Place(e.next)
    BY <2>3, <2>4, TransitionAdvances
  <2>6. QED
    BY <1>4, <2>2, <2>5
<1>6. JournalAdvances'
  <2>1. SUFFICES ASSUME NEW m \in 1..(L + 1), NEW n \in 1..(L + 1), m <= n
                 PROVE  Place(journal'[m].next) <= Place(journal'[n].next)
    BY <1>1 DEF JournalAdvances
  <2>2. CASE n = L + 1 /\ m = L + 1
    BY <1>1, <1>4, <2>2
  <2>3. CASE n = L + 1 /\ m # L + 1
    BY <1>1, <1>5, <2>3
  <2>4. CASE n # L + 1
    <3>1. n \in 1..L /\ m \in 1..L
      BY <1>1, <2>1, <2>4
    <3>2. QED
      BY <1>1, <2>1, <3>1 DEF JournalAdvances
  <2>5. QED
    BY <2>2, <2>3, <2>4
<1>7. QED
  BY <1>2, <1>3, <1>6
\* The first FINALIZING event gives the run its identity.
LEMMA IdentityOfFirst ==
  ASSUME TypeOK, NEW e \in WorkflowEvent, ~Reached("FINALIZING"), e.next = "FINALIZING",
         journal' = Append(journal, e)
  PROVE  FinalizingPayload' = e.payload
<1> DEFINE L == Len(journal)
<1>1. /\ L \in Nat /\ Len(journal') = L + 1 /\ journal'[L + 1] = e
      /\ \A n \in 1..L : journal'[n] = journal[n]
  BY DEF TypeOK
<1>2. FinalizingIndices(journal)' = {L + 1}
  <2>1. 1..(L + 1) = 1..L \cup {L + 1} /\ L + 1 \notin 1..L
    BY <1>1
  <2>2. QED
    BY <1>1, <2>1 DEF FinalizingIndices, Reached
<1>3. (CHOOSE n \in {L + 1} : \A m \in {L + 1} : m <= n) = L + 1
  BY <1>1
<1>4. QED
  BY <1>1, <1>2, <1>3 DEF FinalizingPayload

\* append_workflow_event.
LEMMA EventAppendKeeps ==
  ASSUME OneProcess, JournalInv, RunInv, [Next]_vars, NEW p \in Procs, EventAppend(p)
  PROVE  RunInv'
<1> DEFINE e == op[p].event
<1>1. /\ op[p].pc = "event_append" /\ files["run-directory"] # Absent /\ open[p] = NoFile
      /\ TypeOK
  BY AtWork DEF EventAppend, AtPc, Target, JournalInv
<1>2. op[p] \in Command /\ e \in WorkflowEvent /\ op[p].seen = Len(journal) /\ Len(journal) \in Nat
  BY <1>1 DEF TypeOK, Command, RunInv, CommandInv, Announces
<1>3. CASE Raise(p)
  BY <1>1, <1>3, RaiseKeeps
<1>4. CASE /\ MayFollow(journal, e.next) /\ journal' = Append(journal, e)
           /\ Goto(p, op[p].after)
           /\ UNCHANGED <<files, open, torn_event, telemetry, bound_evidence, faults>>
  <2>1. \A q \in Procs : q = p
    BY DEF OneProcess
  <2>2. /\ JournalAdvances'
        /\ \A s : Reached(s)' <=> Reached(s) \/ e.next = s
        /\ LastState(journal)' = e.next
    BY <1>1, <1>2, <1>4, AppendAdvances DEF RunInv, Shared
  <2>3. NoDirectory'
    BY <1>1, <1>4 DEF NoDirectory
  <2>4. Reached("FINALIZING") => FinalizingPayload' = FinalizingPayload
    BY <1>1, <1>4, IdentityStays
  <2>5. Readable("final-review-packet")' =>
          /\ Reached("FINALIZING")
          /\ files'["final-review-packet"] = FinalizingPayload'
    BY <1>4, <2>4 DEF RunInv, Shared, Stored, Readable, FINALIZATION_DERIVED
  <2>6. /\ files'["track-a-output"] \in TrackAs \cup {Absent, Torn}
        /\ files'["track-b-output"] \in TrackBs \cup {Absent, Torn}
        /\ ~Reached("FINALIZING")' => \A f \in FINALIZATION_DERIVED : files'[f] = Absent
    BY <1>4, <2>2 DEF RunInv, Shared, Stored
  <2>7. ASSUME Reached("WAITING_TRACK_B")' => HandoffFiles,
               Reached("READY_FOR_REVIEW")' => DerivedFrom(FINALIZATION_DERIVED)
        PROVE  Shared'
    <3>1. HandoffFiles' = HandoffFiles
          /\ DerivedFrom(FINALIZATION_DERIVED)' = DerivedFrom(FINALIZATION_DERIVED)
      BY <1>4 DEF HandoffFiles, DerivedFrom
    <3>2. QED
      BY <2>2, <2>3, <2>5, <2>6, <2>7, <3>1 DEF Shared, Stored
  <2>8. /\ Reached("WAITING_TRACK_B") => HandoffFiles
        /\ Reached("READY_FOR_REVIEW") => DerivedFrom(FINALIZATION_DERIVED)
    BY DEF RunInv, Shared, Stored
  <2>9. CASE e.next = "WAITING_TRACK_B" /\ op[p].after = "idle" /\ HandoffFiles
    <3>1. Shared'
      BY <2>2, <2>7, <2>8, <2>9
    <3>2. op'[p] = Idle /\ open'[p] = NoFile
      BY <1>1, <1>4, <2>9, Jumps
    <3>3. QED
      BY <2>1, <3>1, <3>2, Rests DEF RunInv
  <2>10. CASE e.next = "READY_FOR_REVIEW" /\ op[p].after = "idle"
              /\ DerivedFrom(FINALIZATION_DERIVED)
    <3>1. Shared'
      BY <2>2, <2>7, <2>8, <2>10
    <3>2. op'[p] = Idle /\ open'[p] = NoFile
      BY <1>1, <1>4, <2>10, Jumps
    <3>3. QED
      BY <2>1, <3>1, <3>2, Rests DEF RunInv
  <2>11. CASE Place(e.next) <= 1 /\ op[p].after = "init"
    <3>1. e.next \notin {"WAITING_TRACK_B", "READY_FOR_REVIEW"}
      BY <2>11 DEF Place
    <3>2. Shared'
      BY <2>2, <2>7, <2>8, <3>1
    <3>3. op'[p].pc = "init" /\ op'[p].call = op[p].call /\ op'[p].path = op[p].path
          /\ op'[p].doc = op[p].doc
      BY <1>1, <1>4, <2>11, Jumps
    <3>4. CommandInv(p)'
      BY <1>1, <1>4, <3>3 DEF RunInv, CommandInv, Writing, Called, Preparing, HandingOff,
         Identified, Finishing, Announces, ASteps, BSteps, FSteps
    <3>5. QED
      BY <2>1, <3>2, <3>4 DEF RunInv
  <2>12. CASE /\ e.next = "FINALIZING" /\ op[p].after = "b_output"
              /\ LastState(journal) = "WAITING_TRACK_B"
              /\ op[p].call = "submit_b"
              /\ Submitted(p) = e.payload /\ InHand(p)
    <3>1. Shared'
      BY <2>2, <2>7, <2>8, <2>12
    <3>2. ~Reached("FINALIZING")
      BY <1>1, <2>12, NotBeyondLast DEF RunInv, Shared
    <3>3. FinalizingPayload' = e.payload
      BY <1>1, <1>2, <1>4, <2>12, <3>2, IdentityOfFirst
    <3>4. op'[p].pc = "b_output" /\ op'[p].call = op[p].call /\ op'[p].path = op[p].path
          /\ op'[p].doc = op[p].doc
      BY <1>1, <1>4, <2>12, Jumps
    <3>5. Submitted(p)' = Submitted(p)
      BY <1>4, <3>4 DEF Submitted
    <3>6. Identified(p)'
      BY <2>2, <2>12, <3>3, <3>4, <3>5 DEF Identified, InHand
    <3>7. CommandInv(p)'
      BY <1>1, <1>4, <2>12, <3>4, <3>6 DEF RunInv, CommandInv, Writing, Called, Preparing,
         HandingOff, Finishing, Announces, ASteps, BSteps, FSteps
    <3>8. QED
      BY <2>1, <3>1, <3>7 DEF RunInv
  <2>13. QED
    BY <1>1, <2>9, <2>10, <2>11, <2>12 DEF RunInv, CommandInv, Announces
<1>5. QED
  BY <1>1, <1>2, <1>3, <1>4 DEF EventAppend

-----------------------------------------------------------------------------
(* Writing files.                                                          *)

\* A file that the command creates.
LEMMA CreateKeeps ==
  ASSUME OneProcess, TypeOK, RunInv, NEW p \in Procs, NEW f \in Artifacts, NEW c,
         Target(p) = [file |-> f, content |-> c], CreateFile(p, f, c)
  PROVE  RunInv'
<1>1. \A q \in Procs : q = p
  BY DEF OneProcess
<1>2. /\ files[f] = Absent /\ UNCHANGED <<journal, op>>
      /\ files' = [files EXCEPT ![f] = Torn] /\ open'[p] = Target(p)
  BY DEF CreateFile, TypeOK
<1>3. \A g \in Artifacts : files'[g] = IF g = f THEN Torn ELSE files[g]
  BY <1>2 DEF TypeOK
<1>4. Target(p) # NoFile
  BY DEF NoFile, Artifacts, TRACK_A_DERIVED, FINALIZATION_DERIVED
<1>5. /\ files["run-directory"] # Absent
      /\ f \in FINALIZATION_DERIVED => LastState(journal) = "FINALIZING"
  <2>1. op[p].pc \notin {"idle", "resume"}
    BY <1>4 DEF Target
  <2>2. f \in FINALIZATION_DERIVED => op[p].pc \in FSteps
    BY DEF Target, FINALIZATION_DERIVED, NoFile, FSteps
  <2>3. QED
    BY <2>1, <2>2, AtWork DEF RunInv, CommandInv, Finishing
<1>6. Shared'
  BY <1>2, <1>5, SharedCreate, NotBeyondLast DEF RunInv, Shared
<1>7. Torn # Absent /\ Fixed # Absent /\ Absent \notin TrackAs \cup TrackBs
  BY ReviewRunAssumption
<1>8. /\ LastState(journal)' = LastState(journal)
      /\ FinalizingPayload' = FinalizingPayload
  BY <1>2 DEF LastState, FinalizingPayload, FinalizingIndices
<1>9. Called(p)'
  BY <1>2 DEF RunInv, CommandInv, Called
<1>10. Preparing(p)'
  BY <1>2, <1>3 DEF RunInv, CommandInv, Preparing, Target, Artifacts
<1>11. HandingOff(p)'
  BY <1>2, <1>3, <1>7, <1>8, Steps DEF RunInv, CommandInv, HandingOff, Called, TRACK_A_DERIVED
<1>12. CASE op[p].pc \in BSteps
  <2>1. op[p].pc = "b_output" /\ op[p].path = "external"
    BY <1>4, <1>12 DEF Target, BSteps
  <2>2. Submitted(p)' = Submitted(p)
    BY <1>2, <2>1 DEF Submitted
  <2>3. Identified(p)'
    BY <1>2, <1>8, <2>1, <2>2 DEF RunInv, CommandInv, Identified, InHand
  <2>4. Writing(p)'
    BY <1>2, <1>3, <2>1 DEF Writing, Target
  <2>5. QED
    BY <1>1, <1>2, <1>6, <1>9, <1>10, <1>11, <2>1, <2>3, <2>4
       DEF RunInv, CommandInv, Finishing, Announces, FSteps
<1>13. CASE op[p].pc \notin BSteps
  <2>1. Identified(p)'
    BY <1>2, <1>13 DEF Identified
  <2>2. Finishing(p)'
    BY <1>2, <1>3, <1>7, <1>8, Steps
       DEF RunInv, CommandInv, Finishing, DerivedFrom, Readable, FINALIZATION_DERIVED
  <2>3. Writing(p)'
    BY <1>2, <1>3, <1>13, Steps DEF Writing, Target, BSteps, Artifacts, FINALIZATION_DERIVED,
       TRACK_A_DERIVED
  <2>4. Announces(p)'
    BY <1>2, <1>4 DEF Announces, Target
  <2>5. QED
    BY <1>1, <1>6, <1>9, <1>10, <1>11, <2>1, <2>2, <2>3, <2>4 DEF RunInv, CommandInv
<1>14. QED
  BY <1>12, <1>13
\* The handler of finalize_review_run, before the run is ready.
LEMMA CleanUpKeeps ==
  ASSUME OneProcess, TypeOK, RunInv, NEW p \in Procs, op[p].pc \in FSteps,
         Unlink(p, FINALIZATION_DERIVED), Goto(p, "idle"), UNCHANGED journal
  PROVE  RunInv'
<1>1. \A q \in Procs : q = p
  BY DEF OneProcess
<1>2. op'[p] = Idle /\ open'[p] = NoFile
  BY Jumps DEF Unlink
<1>3. files["run-directory"] # Absent
  BY AtWork DEF FSteps
<1>4. ~Reached("READY_FOR_REVIEW")
  BY NotBeyondLast DEF RunInv, Shared, CommandInv, Finishing
<1>5. FINALIZATION_DERIVED \cap TRACK_A_DERIVED = {} /\ "track-a-output" \notin FINALIZATION_DERIVED
  BY DEF FINALIZATION_DERIVED, TRACK_A_DERIVED
<1>6. Shared'
  BY <1>3, <1>4, <1>5, SharedDiscard, Steps DEF RunInv, Unlink
<1>7. QED
  BY <1>1, <1>2, <1>6, Rests DEF RunInv

\* What is known when a file has been written, or was there with the same bytes.
Written(p, f, c, l) ==
  /\ Goto(p, l) /\ open'[p] = NoFile /\ UNCHANGED journal /\ Shared'
  /\ files'[f] = c
  /\ \A g \in Artifacts : g # f => files'[g] = files[g]

\* A file that the command fills.
LEMMA Fills ==
  ASSUME OneProcess, TypeOK, RunInv, NEW p \in Procs, NEW f \in Artifacts, NEW c, NEW l,
         Target(p) = [file |-> f, content |-> c], FillFile(p, l)
  PROVE  Written(p, f, c, l)
<1>1. /\ open[p] = Target(p) /\ files[f] = Torn
  BY DEF RunInv, CommandInv, Writing, FillFile
<1>2. /\ files' = [g \in Artifacts |-> IF g = f THEN c ELSE files[g]]
      /\ open'[p] = NoFile /\ Goto(p, l) /\ UNCHANGED journal
  BY <1>1 DEF FillFile, TypeOK
<1>3. Target(p) # NoFile
  BY DEF NoFile, Artifacts, TRACK_A_DERIVED, FINALIZATION_DERIVED
<1>4. files["run-directory"] # Absent
  <2>1. op[p].pc \notin {"idle", "resume"}
    BY <1>3 DEF Target
  <2>2. QED
    BY <2>1, AtWork
<1>5. f # "run-directory"
  BY <1>3 DEF Target
<1>6. f = "track-a-output" => c \in TrackAs
  BY <1>3 DEF Target, RunInv, CommandInv, Called, ASteps
<1>7. f = "track-b-output" => c \in TrackBs
  BY <1>3 DEF Target, RunInv, CommandInv, Called, BSteps
<1>8. f \in FINALIZATION_DERIVED => op[p].pc \in {"f_manifest", "f_packet", "f_html"}
  BY DEF Target, FINALIZATION_DERIVED, NoFile
<1>9. f \in FINALIZATION_DERIVED => Reached("FINALIZING")
  BY <1>8, NotBeyondLast DEF RunInv, Shared, CommandInv, Finishing, FSteps
<1>10. f = "final-review-packet" => c = FinalizingPayload
  <2>1. ASSUME f = "final-review-packet" PROVE op[p].pc = "f_packet" /\ c = files["run-manifest"]
    BY <1>3, <2>1 DEF Target
  <2>2. QED
    BY <2>1 DEF RunInv, CommandInv, Finishing, FSteps, DerivedFrom
<1>11. Shared'
  BY <1>1, <1>2, <1>4, <1>5, <1>6, <1>7, <1>9, <1>10, SharedFill DEF RunInv
<1>12. QED
  BY <1>2, <1>11 DEF Written

\* The three ways in which a command writes a file leave it with that file written,
\* or keep the invariant.
LEMMA Writes ==
  ASSUME OneProcess, TypeOK, RunInv, NEW p \in Procs, NEW f \in Artifacts, NEW c, NEW l,
         Target(p) = [file |-> f, content |-> c],
         \/ Write(p, f, c, l)
         \/ WriteOrIdentical(p, f, c, l)
         \/ WriteOrCleanUp(p, f, c, l) /\ op[p].pc \in FSteps
  PROVE  RunInv' \/ Written(p, f, c, l)
<1>1. CASE Write(p, f, c, l)
  BY <1>1, CreateKeeps, Fills DEF Write
<1>2. CASE AlreadyThere(p, f) /\ Raise(p)
  BY <1>2, RaiseKeeps DEF AlreadyThere
<1>3. CASE AlreadyThere(p, f) /\ files[f] = c /\ Continue(p, l)
  <2>1. op[p].pc \notin {"idle", "resume"}
    BY DEF Target, NoFile, Artifacts, TRACK_A_DERIVED, FINALIZATION_DERIVED
  <2>2. Shared'
    BY <1>3, <2>1, AtWork, SharedKept DEF RunInv, Continue, Quiet
  <2>3. QED
    BY <1>3, <2>2 DEF AlreadyThere, Continue, Quiet, Written
<1>4. CASE op[p].pc \in FSteps /\ CleanUp(p)
  BY <1>4, CleanUpKeeps DEF CleanUp, Discard
<1>5. QED
  BY <1>1, <1>2, <1>3, <1>4 DEF WriteOrIdentical, WriteOrCleanUp

\* After writing, the command goes on.
LEMMA GoesOn ==
  ASSUME OneProcess, NEW p \in Procs, Shared', CommandInv(p)'
  PROVE  RunInv'
BY DEF OneProcess, RunInv

\* prepare_review_question writes its files.
LEMMA PrepareKeeps ==
  ASSUME OneProcess, TypeOK, RunInv, NEW p \in Procs, PrepareFiles(p)
  PROVE  RunInv'
<1>1. /\ {"review-request", "track-a-bundle", "evidence-query", "next-action-track-a",
          "track-a-output", "track-b-output"} \subseteq Artifacts
  BY DEF Artifacts
<1>2. ASSUME NEW f \in {"review-request", "track-a-bundle", "evidence-query", "next-action-track-a"},
             NEW l \in {"write_bundle", "write_query", "prepare_metric", "init"},
             l = "write_bundle" => op[p].pc = "write_request",
             Written(p, f, Fixed, l)
      PROVE  RunInv'
  <2>1. /\ op'[p].pc = l /\ op'[p].call = op[p].call /\ op'[p].path = op[p].path
        /\ op'[p].doc = op[p].doc
    BY <1>2, Jumps DEF Written
  <2>2. Preparing(p)'
    BY <1>1, <1>2, <2>1 DEF Written, RunInv, CommandInv, Preparing
  <2>3. CommandInv(p)'
    BY <1>2, <2>1, <2>2 DEF Written, RunInv, CommandInv, Writing, Called, HandingOff, Identified,
       Finishing, Announces, ASteps, BSteps, FSteps
  <2>4. QED
    BY <1>2, <2>3, GoesOn DEF Written
<1>3. CASE AtPc(p, "write_request") /\ Write(p, "review-request", Fixed, "write_bundle")
  BY <1>1, <1>2, <1>3, Writes DEF AtPc, Target
<1>4. CASE AtPc(p, "write_bundle") /\ Write(p, "track-a-bundle", Fixed, "write_query")
  BY <1>1, <1>2, <1>4, Writes DEF AtPc, Target
<1>5. CASE AtPc(p, "write_query") /\ WriteOrIdentical(p, "evidence-query", Fixed, "prepare_metric")
  BY <1>1, <1>2, <1>5, Writes DEF AtPc, Target
<1>6. CASE AtPc(p, "write_action_a") /\ WriteOrIdentical(p, "next-action-track-a", Fixed, "init")
  BY <1>1, <1>2, <1>6, Writes DEF AtPc, Target
<1>7. CASE AtPc(p, "prepare_metric") /\ Raise(p)
  BY <1>7, AtWork, RaiseKeeps DEF AtPc, Target
<1>8. ASSUME NEW l \in {"write_action_a", "resume"}, AtPc(p, "prepare_metric"), AppendStage(p, l)
      PROVE  RunInv'
  <2>1. open[p] = NoFile /\ files["run-directory"] # Absent
    BY <1>8, AtWork DEF AtPc, Target
  <2>2. UNCHANGED <<files, journal>> /\ open'[p] = NoFile
    BY <1>8, <2>1 DEF AppendStage
  <2>3. /\ op'[p].pc = l /\ op'[p].call = op[p].call /\ op'[p].path = op[p].path
        /\ op'[p].doc = op[p].doc
    BY <1>8, Jumps DEF AppendStage
  <2>4. CommandInv(p)'
    BY <2>2, <2>3 DEF RunInv, CommandInv, Writing, Called, Preparing, HandingOff, Identified,
       Finishing, Announces, ASteps, BSteps, FSteps
  <2>5. QED
    BY <2>1, <2>2, <2>4, OneMoves
<1>9. QED
  BY <1>3, <1>4, <1>5, <1>6, <1>7, <1>8 DEF PrepareFiles
\* _initialize_events.
LEMMA InitializeKeeps ==
  ASSUME OneProcess, TypeOK, RunInv, NEW p \in Procs, InitializeEvents(p)
  PROVE  RunInv'
<1> DEFINE n == op[p].stage
           hash == IF n = 0 THEN files["track-a-bundle"] ELSE op[p].bundle
<1>1. /\ op[p].pc = "init" /\ open[p] = NoFile /\ files["run-directory"] # Absent
      /\ Quiet /\ UNCHANGED <<files, journal, open>>
  BY AtWork DEF InitializeEvents, AtPc, Target, Quiet
<1>2. CASE Goto(p, "idle")
  BY <1>1, <1>2, RaiseKeeps DEF Raise
<1>3. CASE Goto(p, "resume")
  <2>1. /\ op'[p].pc = "resume" /\ op'[p].call = op[p].call /\ op'[p].path = op[p].path
        /\ op'[p].doc = op[p].doc
    BY <1>3, Jumps
  <2>2. CommandInv(p)'
    BY <1>1, <2>1 DEF RunInv, CommandInv, Writing, Called, Preparing, HandingOff, Identified,
       Finishing, Announces, ASteps, BSteps, FSteps
  <2>3. QED
    BY <1>1, <2>2, OneMoves
<1>4. CASE /\ n # Len(InitialStages)
           /\ op' = [op EXCEPT ![p] =
                      [op[p] EXCEPT !.pc = "event_load", !.after = "init",
                         !.stage = n + 1, !.bundle = hash,
                         !.event = [next |-> InitialStages[n + 1],
                                    payload |-> IF n < 3 THEN Fixed ELSE hash]]]
  <2>1. op[p] \in Command /\ n \in 0..6
    BY <1>4, InitialRecords DEF TypeOK, Command
  <2>2. op'[p] = [op[p] EXCEPT !.pc = "event_load", !.after = "init",
                         !.stage = n + 1, !.bundle = hash,
                         !.event = [next |-> InitialStages[n + 1],
                                    payload |-> IF n < 3 THEN Fixed ELSE hash]]
    BY <1>4 DEF TypeOK
  <2>3. /\ op'[p].pc = "event_load" /\ op'[p].after = "init"
        /\ op'[p].event.next = InitialStages[n + 1]
        /\ op'[p].call = op[p].call /\ op'[p].path = op[p].path /\ op'[p].doc = op[p].doc
    BY <2>1, <2>2 DEF Command
  <2>4. Place(InitialStages[n + 1]) <= 1
    BY <2>1 DEF InitialStages, Place
  <2>5. CommandInv(p)'
    BY <1>1, <2>3, <2>4 DEF RunInv, CommandInv, Writing, Called, Preparing, HandingOff,
       Identified, Finishing, Announces, ASteps, BSteps, FSteps
  <2>6. QED
    BY <1>1, <2>5, OneMoves
<1>5. QED
  BY <1>2, <1>3, <1>4 DEF InitializeEvents

\* READY_FOR_REVIEW is announced only for a complete review.
LEMMA ReadyAnnounced ==
  ASSUME OneProcess, TypeOK, RunInv, NEW p \in Procs,
         UNCHANGED <<files, journal, open>>, open[p] = NoFile,
         op[p].pc \notin {"idle"} , files["run-directory"] # Absent,
         LastState(journal) = "FINALIZING", DerivedFrom(FINALIZATION_DERIVED),
         AppendEvent(p, "READY_FOR_REVIEW", files["final-review-packet"], "idle")
  PROVE  RunInv'
<1>1. /\ op'[p].pc = "event_load" /\ op'[p].after = "idle"
      /\ op'[p].event.next = "READY_FOR_REVIEW"
      /\ op'[p].call = op[p].call /\ op'[p].path = op[p].path /\ op'[p].doc = op[p].doc
  BY Announcing
<1>2. CommandInv(p)'
  BY <1>1 DEF RunInv, CommandInv, Writing, Called, Preparing, HandingOff,
     Identified, Finishing, Announces, ASteps, BSteps, FSteps, DerivedFrom
<1>3. QED
  BY <1>2, OneMoves

\* _existing_finalized_run.
LEMMA FinalizedDerives ==
  ASSUME TypeOK, RunInv, Finalized
  PROVE  DerivedFrom(FINALIZATION_DERIVED)
BY DEF Finalized, Readable, RunInv, Shared, Stored, DerivedFrom, FINALIZATION_DERIVED

\* _resume_state.
LEMMA ResumeKeeps ==
  ASSUME OneProcess, TypeOK, RunInv, NEW p \in Procs, Resume(p)
  PROVE  RunInv'
<1>1. op[p].pc = "resume" /\ open[p] = NoFile
  BY AtWork DEF Resume, AtPc, Target
<1>2. CASE Raise(p)
  BY <1>1, <1>2, RaiseKeeps
<1>3. ASSUME files["review-request"] = Fixed PROVE files["run-directory"] # Absent
  BY <1>3, ReviewRunAssumption DEF RunInv, Shared, NoDirectory, Artifacts
<1>4. CASE files["review-request"] = Fixed /\ Continue(p, "init")
  <2>1. UNCHANGED <<files, journal, open>>
    BY <1>4 DEF Continue, Quiet
  <2>2. /\ op'[p].pc = "init" /\ op'[p].call = op[p].call /\ op'[p].path = op[p].path
        /\ op'[p].doc = op[p].doc
    BY <1>4, Jumps DEF Continue
  <2>3. CommandInv(p)'
    BY <1>1, <2>1, <2>2 DEF RunInv, CommandInv, Writing, Called, Preparing, HandingOff, Identified,
       Finishing, Announces, ASteps, BSteps, FSteps
  <2>4. QED
    BY <1>3, <1>4, <2>1, <2>3, OneMoves
<1>5. ASSUME NEW l \in {"a_wait", "b_validate", "b_identity"}, files["review-request"] = Fixed,
             LastState(journal) = IF l = "a_wait" THEN "WAITING_TRACK_A"
                                  ELSE IF l = "b_validate" THEN "WAITING_TRACK_B" ELSE "FINALIZING",
             op[p].call = IF l = "a_wait" THEN "submit_a" ELSE "submit_b",
             op' = [op EXCEPT ![p] = [@ EXCEPT !.pc = l, !.state = LastState(journal)]],
             Quiet
      PROVE  RunInv'
  <2>1. UNCHANGED <<files, journal, open>>
    BY <1>5 DEF Quiet
  <2>2. op[p] \in Command
    BY DEF TypeOK
  <2>3. op'[p] = [op[p] EXCEPT !.pc = l, !.state = LastState(journal)]
    BY <1>5 DEF TypeOK
  <2>4. /\ op'[p].pc = l /\ op'[p].state = LastState(journal) /\ op'[p].call = op[p].call
        /\ op'[p].path = op[p].path /\ op'[p].doc = op[p].doc
    BY <2>2, <2>3 DEF Command
  <2>5. CommandInv(p)'
    BY <1>1, <1>5, <2>1, <2>4 DEF RunInv, CommandInv, Writing, Called, Preparing, HandingOff,
       Identified, Finishing, Announces, ASteps, BSteps, FSteps
  <2>6. QED
    BY <1>3, <1>5, <2>1, <2>5, OneMoves
<1>6. CASE /\ files["review-request"] = Fixed /\ LastState(journal) = "FINALIZING" /\ Finalized
           /\ AppendEvent(p, "READY_FOR_REVIEW", files["final-review-packet"], "idle")
           /\ Quiet
  BY <1>1, <1>3, <1>6, FinalizedDerives, ReadyAnnounced DEF Quiet
<1>7. QED
  BY <1>1, <1>2, <1>4, <1>5, <1>6 DEF Resume

-----------------------------------------------------------------------------
(* Track A.                                                                *)

\* submit_question_track_a up to its first file, and its last event.
LEMMA TrackAWaits ==
  ASSUME OneProcess, TypeOK, RunInv, NEW p \in Procs,
         TrackAWait(p) \/ TrackARecover(p) \/ TrackADone(p)
  PROVE  RunInv'
<1>1. /\ op[p].pc \in {"a_wait", "a_recover", "a_unlink", "a_metric"}
      /\ open[p] = NoFile /\ files["run-directory"] # Absent
  BY AtWork DEF TrackAWait, TrackARecover, TrackADone, AtPc, Target
<1>2. LastState(journal) = "WAITING_TRACK_A"
  BY <1>1 DEF RunInv, CommandInv, HandingOff, ASteps
<1>3. CASE Raise(p)
  BY <1>1, <1>3, RaiseKeeps
<1>4. ASSUME NEW l \in {"a_recover", "a_unlink", "a_output"}, Goto(p, l), UNCHANGED journal,
             op[p].pc # "a_wait", files'["track-a-output"] = files["track-a-output"],
             open'[p] = NoFile, Shared', Preparing(p)'
      PROVE  RunInv'
  <2>1. /\ op'[p].pc = l /\ op'[p].call = op[p].call /\ op'[p].path = op[p].path
        /\ op'[p].doc = op[p].doc
    BY <1>4, Jumps
  <2>2. LastState(journal)' = LastState(journal)
    BY <1>4 DEF LastState
  <2>3. CommandInv(p)'
    BY <1>1, <1>2, <1>4, <2>1, <2>2 DEF RunInv, CommandInv, Writing, Called, HandingOff,
       Identified, Finishing, Announces, ASteps, BSteps, FSteps
  <2>4. QED
    BY <1>4, <2>3, GoesOn
<1>5. ASSUME NEW l \in {"a_recover", "a_unlink", "a_output"}, Continue(p, l),
             op[p].pc # "a_wait"
      PROVE  RunInv'
  <2>1. op'[p].pc = l
    BY <1>5, Jumps DEF Continue
  <2>2. Shared'
    BY <1>1, <1>5, SharedKept DEF RunInv, Continue, Quiet
  <2>3. QED
    BY <1>1, <1>4, <1>5, <2>1, <2>2 DEF Continue, Quiet, Preparing
<1>6. CASE op[p].pc = "a_unlink" /\ Discard(p, TRACK_A_DERIVED, "a_output")
  <2>1. op'[p].pc = "a_output" /\ open'[p] = NoFile
    BY <1>6, Jumps DEF Discard, Unlink
  <2>2. "track-a-output" \notin TRACK_A_DERIVED
    BY DEF TRACK_A_DERIVED
  <2>3. Shared'
    BY <1>1, <1>2, <1>6, <2>2, SharedDiscard, NotBeyondLast, Steps
       DEF RunInv, Shared, Discard, Unlink
  <2>4. files'["track-a-output"] = files["track-a-output"]
    BY <1>6, <2>2, Steps DEF Discard, Unlink
  <2>5. QED
    BY <1>4, <1>6, <2>1, <2>3, <2>4 DEF Discard, Preparing
<1>7. CASE /\ op[p].pc = "a_metric" /\ Quiet
           /\ AppendEvent(p, "WAITING_TRACK_B", op[p].doc, "idle")
  <2>1. /\ op'[p].pc = "event_load" /\ op'[p].after = "idle"
        /\ op'[p].event.next = "WAITING_TRACK_B"
        /\ op'[p].call = op[p].call /\ op'[p].path = op[p].path /\ op'[p].doc = op[p].doc
    BY <1>7, Announcing
  <2>2. HandoffFiles
    BY <1>7 DEF RunInv, CommandInv, HandingOff, Called, HandoffFiles, ASteps
  <2>3. CommandInv(p)'
    BY <1>1, <1>2, <1>7, <2>1, <2>2 DEF RunInv, CommandInv, Writing, Called, Preparing,
       HandingOff, Identified, Finishing, Announces, ASteps, BSteps, FSteps, HandoffFiles, Quiet
  <2>4. QED
    BY <1>1, <1>7, <2>3, OneMoves DEF Quiet
<1>8. CASE /\ op[p].pc = "a_wait" /\ Quiet /\ SubmittedA(p) \notin {Absent, Torn}
           /\ op' = [op EXCEPT ![p] = [@ EXCEPT !.pc = "a_recover", !.doc = SubmittedA(p)]]
  <2>1. /\ op'[p].pc = "a_recover" /\ op'[p].call = op[p].call /\ op'[p].path = op[p].path
        /\ op'[p].doc = SubmittedA(p)
    BY <1>8 DEF TypeOK, Command
  <2>2. SubmittedA(p) \in TrackAs /\ op[p].call = "submit_a"
    BY <1>8 DEF RunInv, Shared, Stored, CommandInv, Called, SubmittedA, TypeOK, Command, ASteps
  <2>3. op[p].path = "canonical" => files["track-a-output"] = SubmittedA(p)
    BY DEF SubmittedA
  <2>4. CommandInv(p)'
    BY <1>1, <1>2, <1>8, <2>1, <2>2, <2>3 DEF RunInv, CommandInv, Writing, Called, Preparing,
       HandingOff, Identified, Finishing, Announces, ASteps, BSteps, FSteps, Quiet, LastState
  <2>5. QED
    BY <1>1, <1>8, <2>4, OneMoves DEF Quiet
<1>9. QED
  BY <1>3, <1>5, <1>6, <1>7, <1>8 DEF TrackAWait, TrackARecover, TrackADone, AtPc, Raise

\* submit_track_a publishes its files.
LEMMA TrackAFilesKeep ==
  ASSUME OneProcess, TypeOK, RunInv, NEW p \in Procs, TrackAFiles(p)
  PROVE  RunInv'
<1>1. op[p].pc \in {"a_output", "a_bundle", "a_action", "a_validation"}
  BY DEF TrackAFiles, AtPc
<1>2. LastState(journal) = "WAITING_TRACK_A" /\ op[p].call = "submit_a"
  BY <1>1 DEF RunInv, CommandInv, HandingOff, Called, ASteps
<1>3. ASSUME NEW f \in {"track-a-output", "track-b-bundle", "next-action-track-b",
                        "track-a-validation"},
             NEW l, NEW c, Written(p, f, c, l),
             \/ op[p].pc = "a_output" /\ f = "track-a-output" /\ c = op[p].doc /\ l = "a_bundle"
             \/ op[p].pc = "a_bundle" /\ f = "track-b-bundle" /\ c = op[p].doc /\ l = "a_action"
             \/ op[p].pc = "a_action" /\ f = "next-action-track-b" /\ c = Fixed /\ l = "a_validation"
             \/ /\ op[p].pc = "a_validation" /\ f = "track-a-validation"
                /\ c = files["track-a-output"] /\ l = "a_metric"
      PROVE  RunInv'
  <2>1. /\ op'[p].pc = l /\ op'[p].call = op[p].call /\ op'[p].path = op[p].path
        /\ op'[p].doc = op[p].doc
    BY <1>3, Jumps DEF Written
  <2>2. LastState(journal)' = LastState(journal)
    BY <1>3 DEF Written, LastState
  <2>3. HandingOff(p)'
    BY <1>1, <1>2, <1>3, <2>1, <2>2, Steps
       DEF RunInv, CommandInv, HandingOff, Written, ASteps, TRACK_A_DERIVED
  <2>4. CommandInv(p)'
    BY <1>2, <1>3, <2>1, <2>3 DEF RunInv, CommandInv, Writing, Called, Preparing, Written,
       Identified, Finishing, Announces, ASteps, BSteps, FSteps
  <2>5. QED
    BY <1>3, <2>4, GoesOn DEF Written
<1>4. TRACK_A_DERIVED = {"track-b-bundle", "next-action-track-b", "track-a-validation"}
  BY DEF TRACK_A_DERIVED
<1>5. CASE /\ AtPc(p, "a_output") /\ op[p].path # "canonical"
           /\ WriteOrIdentical(p, "track-a-output", op[p].doc, "a_bundle")
  <2>0. op[p].path = "external"
    BY <1>5 DEF TypeOK, Command
  <2>1. op[p].pc = "a_output" /\ Target(p) = [file |-> "track-a-output", content |-> op[p].doc]
    BY <1>5, <2>0 DEF AtPc, Target
  <2>2. "track-a-output" \in Artifacts
    BY <1>4, Steps
  <2>3. RunInv' \/ Written(p, "track-a-output", op[p].doc, "a_bundle")
    BY <1>5, <2>1, <2>2, Writes
  <2>4. QED
    BY <1>3, <2>1, <2>3
<1>6. CASE AtPc(p, "a_bundle") /\ WriteOrIdentical(p, "track-b-bundle", op[p].doc, "a_action")
  <2>1. op[p].pc = "a_bundle" /\ Target(p) = [file |-> "track-b-bundle", content |-> op[p].doc]
    BY <1>6 DEF AtPc, Target
  <2>2. "track-b-bundle" \in Artifacts
    BY <1>4, Steps
  <2>3. RunInv' \/ Written(p, "track-b-bundle", op[p].doc, "a_action")
    BY <1>6, <2>1, <2>2, Writes
  <2>4. QED
    BY <1>3, <2>1, <2>3
<1>7. CASE AtPc(p, "a_action") /\ WriteOrIdentical(p, "next-action-track-b", Fixed, "a_validation")
  <2>1. op[p].pc = "a_action" /\ Target(p) = [file |-> "next-action-track-b", content |-> Fixed]
    BY <1>7 DEF AtPc, Target
  <2>2. "next-action-track-b" \in Artifacts
    BY <1>4, Steps
  <2>3. RunInv' \/ Written(p, "next-action-track-b", Fixed, "a_validation")
    BY <1>7, <2>1, <2>2, Writes
  <2>4. QED
    BY <1>3, <2>1, <2>3
<1>8. CASE AtPc(p, "a_validation") /\ WriteOrIdentical(p, "track-a-validation", files["track-a-output"], "a_metric")
  <2>1. op[p].pc = "a_validation" /\ Target(p) = [file |-> "track-a-validation", content |-> files["track-a-output"]]
    BY <1>8 DEF AtPc, Target
  <2>2. "track-a-validation" \in Artifacts
    BY <1>4, Steps
  <2>3. RunInv' \/ Written(p, "track-a-validation", files["track-a-output"], "a_metric")
    BY <1>8, <2>1, <2>2, Writes
  <2>4. QED
    BY <1>3, <2>1, <2>3
<1>9. CASE AtPc(p, "a_output") /\ op[p].path = "canonical"
  <2>1. open[p] = NoFile /\ files["run-directory"] # Absent
    BY <1>1, <1>9, AtWork DEF AtPc, Target
  <2>2. CASE Raise(p)
    BY <2>1, <2>2, RaiseKeeps
  <2>3. CASE Continue(p, "a_bundle")
    <3>1. /\ op'[p].pc = "a_bundle" /\ op'[p].call = op[p].call /\ op'[p].path = op[p].path
          /\ op'[p].doc = op[p].doc /\ UNCHANGED <<files, journal, open>>
      BY <2>3, Jumps DEF Continue, Quiet
    <3>2. LastState(journal)' = LastState(journal)
      BY <3>1 DEF LastState
    <3>3. CommandInv(p)'
      BY <1>2, <1>9, <2>1, <3>1, <3>2 DEF RunInv, CommandInv, Writing, Called, Preparing, AtPc,
         HandingOff, Identified, Finishing, Announces, ASteps, BSteps, FSteps
    <3>4. QED
      BY <2>1, <2>3, <3>3, OneMoves DEF Continue, Quiet, Goto
  <2>4. QED
    BY <1>9, <2>2, <2>3 DEF TrackAFiles, AtPc
<1>10. QED
  BY <1>5, <1>6, <1>7, <1>8, <1>9 DEF TrackAFiles, AtPc

-----------------------------------------------------------------------------
(* Track B.                                                                *)

\* submit_question_track_b up to its first file.
LEMMA TrackBKeeps ==
  ASSUME OneProcess, TypeOK, RunInv, NEW p \in Procs,
         TrackBIdentity(p) \/ TrackBValidate(p) \/ TrackBRecover(p)
  PROVE  RunInv'
<1>1. /\ op[p].pc \in BSteps \ {"b_output"}
      /\ open[p] = NoFile /\ files["run-directory"] # Absent
  BY AtWork DEF TrackBIdentity, TrackBValidate, TrackBRecover, AtPc, Target, BSteps
<1>2. op[p].call = "submit_b" /\ Identified(p)
  BY <1>1 DEF RunInv, CommandInv, Called
<1>3. CASE Raise(p)
  BY <1>1, <1>3, RaiseKeeps
<1>4. ASSUME NEW l \in BSteps \ {"b_identity"}, Goto(p, l), UNCHANGED journal, open'[p] = NoFile,
             Shared', LastState(journal) = "FINALIZING",
             l = "b_validate" => op[p].state = "FINALIZING",
             l = "b_unlink_torn" => op[p].path = "external" /\ files'["track-b-output"] = Torn,
             Submitted(p)' = FinalizingPayload, l # "b_validate" => InHand(p)'
      PROVE  RunInv'
  <2>1. /\ op'[p].pc = l /\ op'[p].call = op[p].call /\ op'[p].path = op[p].path
        /\ op'[p].doc = op[p].doc /\ op'[p].state = op[p].state
    BY <1>4, Jumps DEF BSteps
  <2>2. LastState(journal)' = LastState(journal) /\ FinalizingPayload' = FinalizingPayload
    BY <1>4 DEF LastState, FinalizingPayload, FinalizingIndices
  <2>3. Identified(p)'
    BY <1>4, <2>1, <2>2 DEF Identified
  <2>4. CommandInv(p)'
    BY <1>2, <1>4, <2>1, <2>3 DEF RunInv, CommandInv, Writing, Called, Preparing, HandingOff,
       Finishing, Announces, ASteps, BSteps, FSteps
  <2>5. QED
    BY <1>4, <2>4, GoesOn
<1>5. ASSUME NEW l \in BSteps \ {"b_identity"}, Goto(p, l), Quiet, LastState(journal) = "FINALIZING",
             l = "b_validate" => op[p].state = "FINALIZING",
             l = "b_unlink_torn" => op[p].path = "external" /\ files["track-b-output"] = Torn,
             Submitted(p) = FinalizingPayload, l # "b_validate" => InHand(p)
      PROVE  RunInv'
  <2>1. /\ UNCHANGED <<files, journal, open>>
        /\ op'[p].pc = l /\ op'[p].path = op[p].path /\ op'[p].doc = op[p].doc
    BY <1>5, Jumps DEF Quiet, BSteps
  <2>2. Submitted(p)' = Submitted(p)
    BY <2>1 DEF Submitted
  <2>3. Shared'
    BY <1>1, <2>1, SharedKept, GoesOn DEF RunInv
  <2>4. QED
    BY <1>1, <1>4, <1>5, <2>1, <2>2, <2>3 DEF InHand
<1>6. CASE TrackBIdentity(p)
  <2>1. /\ op[p].pc = "b_identity" /\ LastState(journal) = "FINALIZING"
        /\ op[p].state = "FINALIZING"
    BY <1>2, <1>6 DEF TrackBIdentity, AtPc, Identified, BSteps
  <2>2. ASSUME RetryAllowed(p), Continue(p, "b_validate") PROVE RunInv'
    <3>1. Submitted(p) = FinalizingPayload
      BY <2>2 DEF RetryAllowed, Submitted
    <3>2. QED
      BY <1>5, <2>1, <2>2, <3>1 DEF Continue, BSteps
  <2>3. QED
    BY <1>3, <1>6, <2>2 DEF TrackBIdentity
<1>7. CASE TrackBValidate(p)
  <2>1. op[p].pc = "b_validate" /\ LastState(journal) = op[p].state /\ Quiet
    BY <1>2, <1>7 DEF TrackBValidate, AtPc, Identified, BSteps
  <2>2. CASE Goto(p, "idle")
    BY <1>3, <2>1, <2>2 DEF Raise
  <2>3. CASE InHand(p) /\ op[p].state # "WAITING_TRACK_B" /\ Goto(p, "b_recover")
    <3>1. op[p].state = "FINALIZING" /\ Submitted(p) = FinalizingPayload
      BY <1>2, <2>1, <2>3 DEF Identified, BSteps
    <3>2. QED
      BY <1>5, <2>1, <2>3, <3>1 DEF BSteps
  <2>4. CASE /\ InHand(p) /\ op[p].state = "WAITING_TRACK_B"
             /\ AppendEvent(p, "FINALIZING", Submitted(p), "b_output")
    <3>1. /\ op'[p].pc = "event_load" /\ op'[p].after = "b_output"
          /\ op'[p].event.next = "FINALIZING" /\ op'[p].event.payload = Submitted(p)
          /\ op'[p].call = op[p].call /\ op'[p].path = op[p].path /\ op'[p].doc = op[p].doc
      BY <2>4, Announcing
    <3>2. UNCHANGED <<files, journal, open>>
      BY <2>1 DEF Quiet
    <3>3. Submitted(p)' = Submitted(p)
      BY <3>1, <3>2 DEF Submitted
    <3>4. Announces(p)'
      BY <1>2, <2>1, <2>4, <3>1, <3>2, <3>3 DEF Announces, InHand
    <3>5. CommandInv(p)'
      BY <1>1, <1>2, <3>1, <3>2, <3>4 DEF RunInv, CommandInv, Writing, Called, Preparing,
         HandingOff, Identified, Finishing, ASteps, BSteps, FSteps
    <3>6. QED
      BY <1>1, <3>2, <3>5, OneMoves
  <2>5. QED
    BY <1>7, <2>2, <2>3, <2>4 DEF TrackBValidate, InHand
<1>8. CASE TrackBRecover(p)
  <2>1. /\ op[p].pc \in {"b_recover", "b_unlink", "b_unlink_torn"}
        /\ LastState(journal) = "FINALIZING" /\ Submitted(p) = FinalizingPayload /\ InHand(p)
    BY <1>2, <1>8 DEF TrackBRecover, AtPc, Identified, BSteps
  <2>2. CASE /\ Quiet /\ Finalized
             /\ AppendEvent(p, "READY_FOR_REVIEW", files["final-review-packet"], "idle")
    BY <1>1, <2>1, <2>2, FinalizedDerives, ReadyAnnounced DEF Quiet
  <2>3. CASE Quiet /\ Goto(p, "idle")
    BY <1>3, <2>3 DEF Raise
  <2>4. CASE Quiet /\ Goto(p, "b_unlink")
    BY <1>5, <2>1, <2>4 DEF BSteps
  <2>5. CASE /\ Quiet /\ Goto(p, "b_unlink_torn")
             /\ files["track-b-output"] = Torn /\ op[p].path # "canonical"
    <3>1. op[p].path = "external"
      BY <2>5 DEF TypeOK, Command
    <3>2. QED
      BY <1>5, <2>1, <2>5, <3>1 DEF BSteps
  <2>6. ASSUME NEW S, Discard(p, S, "b_output"), S \subseteq FINALIZATION_DERIVED \cup {"track-b-output"},
               "track-b-output" \in S => op[p].path = "external"
        PROVE  RunInv'
    <3>1. /\ op'[p].pc = "b_output" /\ op'[p].path = op[p].path /\ op'[p].doc = op[p].doc
          /\ open'[p] = NoFile /\ UNCHANGED journal
          /\ files' = [g \in Artifacts |-> IF g \in S THEN Absent ELSE files[g]]
      BY <2>6, Jumps DEF Discard, Unlink
    <3>2. S \cap TRACK_A_DERIVED = {} /\ "track-a-output" \notin S /\ "run-directory" \notin S
      BY <2>6 DEF FINALIZATION_DERIVED, TRACK_A_DERIVED
    <3>3. Shared'
      BY <1>1, <2>1, <3>1, <3>2, SharedDiscard, NotBeyondLast DEF RunInv, Shared
    <3>4. Submitted(p)' = Submitted(p)
      BY <2>6, <3>1, Steps DEF Submitted
    <3>5. QED
      BY <1>4, <2>1, <2>6, <3>1, <3>3, <3>4 DEF Discard, BSteps, InHand
  <2>7. CASE AtPc(p, "b_unlink_torn") /\ Discard(p, {"track-b-output"} \cup Restartable, "b_output")
    <3>1. op[p].path = "external"
      BY <1>2, <2>7 DEF AtPc, Identified, BSteps
    <3>2. QED
      BY <2>6, <2>7, <3>1 DEF Restartable
  <2>8. CASE Discard(p, Restartable, "b_output")
    BY <2>6, <2>8 DEF Restartable, FINALIZATION_DERIVED
  <2>9. QED
    BY <1>8, <2>2, <2>3, <2>4, <2>5, <2>7, <2>8 DEF TrackBRecover, DiscardsCanonical
<1>9. QED
  BY <1>6, <1>7, <1>8

-----------------------------------------------------------------------------
(* Finalization.                                                           *)

\* From one of its steps to the next.
LEMMA Finishes ==
  ASSUME OneProcess, TypeOK, RunInv, NEW p \in Procs, op[p].pc \in FSteps \cup {"b_output"},
         NEW l \in FSteps, Goto(p, l), open'[p] = NoFile, UNCHANGED journal, Shared',
         files'["track-b-output"] = FinalizingPayload,
         files'["track-b-output"] \notin {Absent, Torn},
         l \in {"f_packet", "f_packet_metric", "f_html", "f_html_metric", "f_ready"} =>
           files'["run-manifest"] = files'["track-b-output"],
         l \in {"f_packet_metric", "f_html", "f_html_metric", "f_ready"} =>
           files'["final-review-packet"] = files'["track-b-output"],
         l \in {"f_html_metric", "f_ready"} => files'["review.html"] = files'["track-b-output"]
  PROVE  RunInv'
<1>1. /\ op'[p].pc = l /\ op'[p].call = op[p].call /\ op'[p].path = op[p].path
      /\ op'[p].doc = op[p].doc
  BY Jumps DEF FSteps
<1>2. LastState(journal)' = "FINALIZING"
  BY DEF RunInv, CommandInv, Finishing, Identified, LastState, FSteps, BSteps
<1>3. FinalizingPayload' = FinalizingPayload
  BY DEF FinalizingPayload, FinalizingIndices
<1>4. files'["track-b-output"] \in TrackBs
  BY DEF Shared, Stored
<1>5. Finishing(p)'
  BY <1>1, <1>2, <1>3, <1>4 DEF Finishing, Readable, DerivedFrom
<1>6. CommandInv(p)'
  BY <1>1, <1>5 DEF RunInv, CommandInv, Writing, Called, Preparing, HandingOff, Identified,
     Announces, ASteps, BSteps, FSteps
<1>7. QED
  BY <1>6, GoesOn

\* The canonical Track B and the record of its validation.
LEMMA TrackBFilesKeep ==
  ASSUME OneProcess, TypeOK, RunInv, NEW p \in Procs, TrackBFiles(p)
  PROVE  RunInv'
<1>1. /\ op[p].pc \in {"b_output", "b_validation"} /\ files["run-directory"] # Absent
      /\ op[p].pc \in FSteps \cup {"b_output"}
  BY AtWork DEF TrackBFiles, AtPc, FSteps
<1>2. CASE op[p].pc = "b_output"
  <2>1. Submitted(p) = FinalizingPayload /\ InHand(p)
    BY <1>2 DEF RunInv, CommandInv, Identified, BSteps
  <2>2. CASE op[p].path = "canonical" /\ Raise(p)
    <3>1. open[p] = NoFile
      BY <1>2, <2>2, AtWork DEF Target
    <3>2. QED
      BY <2>2, <3>1, RaiseKeeps
  <2>3. CASE op[p].path = "canonical" /\ Continue(p, "b_validation")
    <3>1. open[p] = NoFile
      BY <1>2, <2>3, AtWork DEF Target
    <3>2. op'[p].pc = "b_validation" /\ UNCHANGED <<files, journal, open>>
      BY <2>3, Jumps DEF Continue, Quiet
    <3>3. Shared'
      BY <1>1, <3>2, SharedKept DEF RunInv, OneProcess
    <3>4. QED
      BY <1>1, <2>1, <2>3, <3>1, <3>2, <3>3, Finishes DEF Continue, Submitted, InHand, FSteps
  <2>4. CASE /\ op[p].path # "canonical"
             /\ WriteOrIdentical(p, "track-b-output", op[p].doc, "b_validation")
    <3>1. op[p].path = "external" /\ op[p].doc = Submitted(p)
      BY <2>4 DEF TypeOK, Command, Submitted
    <3>2. Target(p) = [file |-> "track-b-output", content |-> op[p].doc]
      BY <1>2, <3>1 DEF Target
    <3>3. RunInv' \/ Written(p, "track-b-output", op[p].doc, "b_validation")
      BY <2>4, <3>2, Writes, Steps
    <3>4. QED
      BY <1>1, <2>1, <3>1, <3>3, Finishes DEF Written, InHand, FSteps
  <2>5. QED
    BY <1>2, <2>2, <2>3, <2>4 DEF TrackBFiles, AtPc
<1>3. CASE op[p].pc = "b_validation"
  <2>1. /\ files["track-b-output"] = FinalizingPayload
        /\ files["track-b-output"] \notin {Absent, Torn}
    BY <1>3 DEF RunInv, CommandInv, Finishing, FSteps, Readable
  <2>2. CASE open[p] = NoFile /\ Raise(p)
    BY <2>2, RaiseKeeps
  <2>3. CASE WriteOrIdentical(p, "track-b-validation", files["track-b-output"], "f_start")
    <3>1. Target(p) = [file |-> "track-b-validation", content |-> files["track-b-output"]]
      BY <1>3 DEF Target
    <3>2. RunInv' \/ Written(p, "track-b-validation", files["track-b-output"], "f_start")
      BY <2>3, <3>1, Writes, Steps
    <3>3. QED
      BY <1>1, <2>1, <3>2, Finishes, Steps DEF Written, FSteps
  <2>4. QED
    BY <1>3, <2>2, <2>3 DEF TrackBFiles, AtPc
<1>4. QED
  BY <1>1, <1>2, <1>3

\* finalize_review_run: a derived file is made from one that is there.
LEMMA FinalizeFilesKeep ==
  ASSUME OneProcess, TypeOK, RunInv, NEW p \in Procs, FinalizeFiles(p)
  PROVE  RunInv'
<1>1. op[p].pc \in {"f_manifest", "f_packet", "f_html"} /\ op[p].pc \in FSteps
  BY DEF FinalizeFiles, AtPc, FSteps
<1>2. /\ files["track-b-output"] = FinalizingPayload
      /\ files["track-b-output"] \notin {Absent, Torn}
      /\ op[p].pc \in {"f_packet", "f_html"} => files["run-manifest"] = files["track-b-output"]
      /\ op[p].pc = "f_html" => files["final-review-packet"] = files["track-b-output"]
  BY <1>1 DEF RunInv, CommandInv, Finishing, Readable, DerivedFrom
<1>3. CASE CleanUp(p)
  BY <1>1, <1>3, CleanUpKeeps DEF CleanUp, Discard
<1>4. CASE /\ AtPc(p, "f_manifest")
           /\ WriteOrCleanUp(p, "run-manifest", files["track-b-output"], "f_packet")
  <2>1. op[p].pc = "f_manifest"
        /\ Target(p) = [file |-> "run-manifest", content |-> files["track-b-output"]]
    BY <1>4 DEF AtPc, Target
  <2>2. "run-manifest" \in Artifacts
    BY DEF Artifacts, FINALIZATION_DERIVED
  <2>3. RunInv' \/ Written(p, "run-manifest", files["track-b-output"], "f_packet")
    BY <1>1, <1>4, <2>1, <2>2, Writes
  <2>4. QED
    BY <1>1, <1>2, <2>3, Finishes, Steps DEF Written, FSteps
<1>5. CASE /\ AtPc(p, "f_packet")
           /\ WriteOrCleanUp(p, "final-review-packet", files["run-manifest"], "f_packet_metric")
  <2>1. op[p].pc = "f_packet"
        /\ Target(p) = [file |-> "final-review-packet", content |-> files["run-manifest"]]
    BY <1>5 DEF AtPc, Target
  <2>2. {"final-review-packet", "run-manifest"} \subseteq Artifacts
    BY DEF Artifacts, FINALIZATION_DERIVED
  <2>3. RunInv' \/ Written(p, "final-review-packet", files["run-manifest"], "f_packet_metric")
    BY <1>1, <1>5, <2>1, <2>2, Writes
  <2>4. QED
    BY <1>1, <1>2, <2>1, <2>2, <2>3, Finishes, Steps DEF Written, FSteps
<1>6. CASE /\ AtPc(p, "f_html")
           /\ WriteOrCleanUp(p, "review.html", files["final-review-packet"], "f_html_metric")
  <2>1. op[p].pc = "f_html"
        /\ Target(p) = [file |-> "review.html", content |-> files["final-review-packet"]]
    BY <1>6 DEF AtPc, Target
  <2>2. {"review.html", "final-review-packet", "run-manifest"} \subseteq Artifacts
    BY DEF Artifacts, FINALIZATION_DERIVED
  <2>3. RunInv' \/ Written(p, "review.html", files["final-review-packet"], "f_html_metric")
    BY <1>1, <1>6, <2>1, <2>2, Writes
  <2>4. QED
    BY <1>1, <1>2, <2>1, <2>2, <2>3, Finishes, Steps DEF Written, FSteps
<1>7. QED
  BY <1>3, <1>4, <1>5, <1>6 DEF FinalizeFiles

\* ... and its other steps.
LEMMA FinalizeKeeps ==
  ASSUME OneProcess, TypeOK, RunInv, NEW p \in Procs,
         FinalizeStart(p) \/ FinalizeMetrics(p) \/ FinalizeReady(p)
  PROVE  RunInv'
<1>1. /\ op[p].pc \in {"f_start", "f_packet_metric", "f_html_metric", "f_ready"}
      /\ op[p].pc \in FSteps /\ open[p] = NoFile /\ files["run-directory"] # Absent
  BY AtWork DEF FinalizeStart, FinalizeMetrics, FinalizeReady, AtPc, Target, FSteps
<1>2. /\ files["track-b-output"] = FinalizingPayload
      /\ files["track-b-output"] \notin {Absent, Torn} /\ LastState(journal) = "FINALIZING"
      /\ op[p].pc # "f_start" => /\ files["run-manifest"] = files["track-b-output"]
                                 /\ files["final-review-packet"] = files["track-b-output"]
      /\ op[p].pc \in {"f_html_metric", "f_ready"} =>
           files["review.html"] = files["track-b-output"]
  BY <1>1 DEF RunInv, CommandInv, Finishing, Readable, DerivedFrom
<1>3. CASE Raise(p)
  BY <1>1, <1>3, RaiseKeeps
<1>4. CASE CleanUp(p)
  BY <1>1, <1>4, CleanUpKeeps DEF CleanUp, Discard
<1>5. ASSUME NEW l, Goto(p, l), UNCHANGED <<files, journal, open>>,
             \/ op[p].pc = "f_start" /\ l = "f_manifest"
             \/ op[p].pc = "f_packet_metric" /\ l = "f_html"
             \/ op[p].pc = "f_html_metric" /\ l = "f_ready"
      PROVE  RunInv'
  <2>1. op'[p].pc = l /\ l \in FSteps
    BY <1>5, Jumps DEF FSteps
  <2>2. Shared'
    BY <1>1, <1>5, <2>1, SharedKept DEF RunInv
  <2>3. QED
    BY <1>1, <1>2, <1>5, <2>1, <2>2, Finishes
<1>6. CASE FinalizeStart(p)
  BY <1>3, <1>5, <1>6 DEF FinalizeStart, AtPc, Continue, Quiet
<1>7. CASE FinalizeMetrics(p)
  BY <1>4, <1>5, <1>7 DEF FinalizeMetrics, AtPc, AppendStage
<1>8. CASE FinalizeReady(p)
  <2>1. op[p].pc = "f_ready" /\ Quiet
    BY <1>8 DEF FinalizeReady, AtPc
  <2>2. DerivedFrom(FINALIZATION_DERIVED)
    BY <1>2, <2>1 DEF RunInv, Shared, Stored, DerivedFrom, FINALIZATION_DERIVED
  <2>3. CASE Goto(p, "idle")
    BY <1>3, <2>1, <2>3 DEF Raise
  <2>4. CASE AppendEvent(p, "READY_FOR_REVIEW", files["final-review-packet"], "idle")
    BY <1>1, <1>2, <2>1, <2>2, <2>4, ReadyAnnounced DEF Quiet
  <2>5. QED
    BY <1>8, <2>3, <2>4 DEF FinalizeReady
<1>9. QED
  BY <1>6, <1>7, <1>8

-----------------------------------------------------------------------------
(* Calls, faults and the environment.                                      *)

\* The process calls a command.
LEMMA CallKeeps ==
  ASSUME OneProcess, TypeOK, RunInv, NEW p \in Procs, Call(p)
  PROVE  RunInv'
<1>1. /\ op[p] = Idle /\ op[p].pc = "idle"
  <2>1. op[p] = Idle
    BY DEF Call, Prepare, SubmitTrackA, SubmitTrackB, Start
  <2>2. QED
    BY <2>1 DEF Idle
<1>2. open[p] = NoFile
  BY <1>1, AtWork DEF Target
<1>3. ASSUME NEW call, NEW path, NEW doc, NEW l, Start(p, call, path, doc, l)
      PROVE  /\ op'[p].pc = l /\ op'[p].call = call /\ op'[p].path = path /\ op'[p].doc = doc
  BY <1>3 DEF Start, Idle, TypeOK
<1>4. ASSUME NEW call, NEW path, NEW doc, Start(p, call, path, doc, "resume"), Quiet,
             \/ call = "submit_a" /\ (path = "external" => doc \in TrackAs)
             \/ call = "submit_b" /\ (path = "external" => doc \in TrackBs)
      PROVE  RunInv'
  <2>1. UNCHANGED <<files, journal, open>>
    BY <1>4 DEF Quiet
  <2>2. CommandInv(p)'
    BY <1>2, <1>3, <1>4, <2>1 DEF CommandInv, Writing, Called, Preparing, HandingOff, Identified,
       Finishing, Announces, ASteps, BSteps, FSteps
  <2>3. QED
    BY <1>3, <1>4, <2>1, <2>2, OneMoves
<1>5. CASE /\ files["run-directory"] = Absent
           /\ files' = [files EXCEPT !["run-directory"] = Fixed]
           /\ Start(p, "prepare", "external", Absent, "write_request")
           /\ UNCHANGED <<open, journal, torn_event, telemetry, bound_evidence, faults>>
  <2>1. journal = <<>> /\ \A f \in Artifacts : files[f] = Absent
    BY <1>5 DEF RunInv, Shared, NoDirectory
  <2>2. \A f \in Artifacts : files'[f] = IF f = "run-directory" THEN Fixed ELSE Absent
    BY <1>5, <2>1 DEF TypeOK
  <2>3. /\ files'["run-directory"] = Fixed
        /\ \A f \in Artifacts \ {"run-directory"} : files'[f] = Absent
        /\ {"track-a-output", "track-b-output", "final-review-packet"}
             \subseteq Artifacts \ {"run-directory"}
    BY <2>2, Steps DEF Artifacts, FINALIZATION_DERIVED
  <2>4. \A s : ~Reached(s)'
    BY <1>5, <2>1 DEF Reached
  <2>5. Shared'
    BY <1>5, <2>1, <2>3, <2>4, ReviewRunAssumption, Steps
       DEF Shared, JournalAdvances, Stored, NoDirectory, Readable
  <2>6. CommandInv(p)'
    BY <1>2, <1>3, <1>5, <2>3 DEF CommandInv, Writing, Called, Preparing, HandingOff, Identified,
       Finishing, Announces, ASteps, BSteps, FSteps
  <2>7. QED
    BY <2>5, <2>6, GoesOn
<1>6. CASE /\ files["review-request"] = Fixed
           /\ Start(p, "prepare", "canonical", Absent, "write_query") /\ Quiet
  <2>1. UNCHANGED <<files, journal, open>>
    BY <1>6 DEF Quiet
  <2>2. files["run-directory"] # Absent
    BY <1>6, ReviewRunAssumption DEF RunInv, Shared, NoDirectory, Artifacts
  <2>3. CommandInv(p)'
    BY <1>2, <1>3, <1>6, <2>1 DEF CommandInv, Writing, Called, Preparing, HandingOff, Identified,
       Finishing, Announces, ASteps, BSteps, FSteps
  <2>4. QED
    BY <2>1, <2>2, <2>3, OneMoves
<1>7. QED
  BY <1>4, <1>5, <1>6 DEF Call, Prepare, SubmitTrackA, SubmitTrackB

\* prepare_review_run removes a directory it could not fill.
LEMMA PrepareFailsKeeps ==
  ASSUME OneProcess, TypeOK, RunInv, NEW p \in Procs, PrepareFails(p)
  PROVE  RunInv'
<1>1. op'[p] = Idle /\ open'[p] = NoFile /\ journal' = <<>>
  BY Jumps DEF PrepareFails, Unlink
<1>2. \A f \in Artifacts : files'[f] = Absent
  BY DEF PrepareFails, Unlink
<1>3. CommandInv(p)' /\ op'[p].pc = "idle"
  BY <1>1, Rests
<1>4. \A s : ~Reached(s)'
  BY <1>1 DEF Reached
<1>5. {"track-a-output", "track-b-output", "final-review-packet"} \subseteq Artifacts
  BY DEF Artifacts, FINALIZATION_DERIVED
<1>6. Shared'
  BY <1>1, <1>2, <1>3, <1>4, <1>5, Steps
     DEF Shared, JournalAdvances, Stored, NoDirectory, Readable, OneProcess
<1>7. QED
  BY <1>3, <1>6, GoesOn

\* A step that is not the command's.
LEMMA ApartKeeps ==
  ASSUME OneProcess, TypeOK, RunInv, UNCHANGED <<files, open, journal, op>>
  PROVE  RunInv'
<1>1. Shared'
  BY SharedKept DEF RunInv, Shared, NoDirectory
<1>2. ASSUME NEW p \in Procs PROVE CommandInv(p)'
  <2>1. CommandInv(p) /\ LastState(journal)' = LastState(journal)
        /\ FinalizingPayload' = FinalizingPayload /\ Submitted(p)' = Submitted(p)
    BY DEF RunInv, LastState, FinalizingPayload, FinalizingIndices, Submitted
  <2>2. Writing(p)' /\ Called(p)' /\ Preparing(p)'
    BY <2>1 DEF CommandInv, Writing, Target, Called, Preparing
  <2>3. HandingOff(p)' /\ Identified(p)'
    BY <2>1 DEF CommandInv, HandingOff, Identified, InHand
  <2>4. Finishing(p)' /\ Announces(p)'
    BY <2>1 DEF CommandInv, Finishing, Announces, HandoffFiles, DerivedFrom, Readable, InHand
  <2>5. QED
    BY <2>2, <2>3, <2>4 DEF CommandInv
<1>3. QED
  BY <1>1, <1>2 DEF RunInv

\* Every step of a run whose commands one process issues keeps the invariant.
LEMMA RunInvStep ==
  ASSUME OneProcess
  PROVE  JournalInv /\ RunInv /\ [Next]_vars => RunInv'
<1>1. SUFFICES ASSUME JournalInv, RunInv, [Next]_vars PROVE RunInv'
  OBVIOUS
<1>2. TypeOK
  BY <1>1 DEF JournalInv
<1>3. ASSUME NEW p \in Procs, Step(p) PROVE RunInv'
  <2>1. CASE EventLoad(p) \/ EventAppend(p)
    BY <1>1, <1>2, <2>1, EventLoadKeeps, EventAppendKeeps
  <2>2. CASE PrepareFiles(p) \/ InitializeEvents(p) \/ Resume(p)
    BY <1>1, <1>2, <2>2, PrepareKeeps, InitializeKeeps, ResumeKeeps
  <2>3. CASE TrackAWait(p) \/ TrackARecover(p) \/ TrackAFiles(p) \/ TrackADone(p)
    BY <1>1, <1>2, <2>3, TrackAWaits, TrackAFilesKeep
  <2>4. CASE TrackBIdentity(p) \/ TrackBValidate(p) \/ TrackBRecover(p) \/ TrackBFiles(p)
    BY <1>1, <1>2, <2>4, TrackBKeeps, TrackBFilesKeep
  <2>5. CASE FinalizeStart(p) \/ FinalizeFiles(p) \/ FinalizeMetrics(p) \/ FinalizeReady(p)
    BY <1>1, <1>2, <2>5, FinalizeKeeps, FinalizeFilesKeep
  <2>6. QED
    BY <1>3, <2>1, <2>2, <2>3, <2>4, <2>5 DEF Step
<1>4. ASSUME NEW p \in Procs, Crash(p) PROVE RunInv'
  <2>1. op'[p] = Idle /\ open'[p] = NoFile /\ UNCHANGED <<files, journal>>
    BY <1>2, <1>4 DEF Crash, TypeOK
  <2>2. QED
    BY <1>1, <1>2, <2>1, Rests, OneMoves
<1>5. ASSUME NEW p \in Procs, FinalizeFails(p) PROVE RunInv'
  BY <1>1, <1>2, <1>5, CleanUpKeeps DEF FinalizeFails, FSteps
<1>6. CASE ReplaceEvidence \/ RestoreEvidence \/ UNCHANGED vars
  BY <1>1, <1>2, <1>6, ApartKeeps DEF ReplaceEvidence, RestoreEvidence, vars
<1>7. QED
  BY <1>1, <1>2, <1>3, <1>4, <1>5, <1>6, CallKeeps, PrepareFailsKeeps DEF Next

\* The invariant holds throughout.
THEOREM RunInvariant ==
  ASSUME OneProcess PROVE Spec => [](JournalInv /\ RunInv)
<1>1. Init => RunInv
  <2>1. SUFFICES ASSUME Init PROVE RunInv
    OBVIOUS
  <2>2. \A p \in Procs : op[p] = Idle /\ open[p] = NoFile
    BY <2>1 DEF Init
  <2>3. \A s : ~Reached(s)
    BY <2>1 DEF Init, Reached
  <2>4. \A f \in Artifacts : files[f] = Absent
    BY <2>1 DEF Init
  <2>5. {"track-a-output", "track-b-output", "final-review-packet"} \subseteq Artifacts
    BY DEF Artifacts, FINALIZATION_DERIVED
  <2>6. Shared
    BY <2>1, <2>2, <2>3, <2>4, <2>5, Steps
       DEF Init, Shared, JournalAdvances, Stored, NoDirectory, Readable, Idle
  <2>7. \A p \in Procs : CommandInv(p)
    BY <2>2 DEF Idle, CommandInv, Writing, Called, Preparing, HandingOff, Identified, Finishing,
       Announces, ASteps, BSteps, FSteps
  <2>8. QED
    BY <2>6, <2>7 DEF RunInv
<1>2. JournalInv /\ RunInv /\ [Next]_vars => (JournalInv /\ RunInv)'
  BY RunInvStep, JournalInvStep
<1>3. QED
  BY <1>1, <1>2, JournalInvariant, PTL DEF Spec

\* The journal of a run never gets ahead of its artifacts: what each stage rests on is
\* on disk, whole and of one submission, whatever died half way before it.
THEOREM StagesAreGroundedHolds ==
  ASSUME OneProcess PROVE Spec => []StagesAreGrounded
<1>1. RunInv => StagesAreGrounded
  BY DEF RunInv, Shared, Stored, HandoffFiles, StagesAreGrounded, HandoffComplete,
     PacketFromFinalizing
<1>2. QED
  BY <1>1, RunInvariant, PTL

\* READY_FOR_REVIEW is only ever recorded for a complete review.
THEOREM ReadyIsCompleteHolds ==
  ASSUME OneProcess PROVE Spec => []ReadyIsComplete
<1>1. RunInv => ReadyIsComplete
  BY DEF RunInv, Shared, Stored, DerivedFrom, ReadyIsComplete
<1>2. QED
  BY <1>1, RunInvariant, PTL

\* No step of a command writes over a file that has its bytes.
LEMMA StepSpares ==
  ASSUME TypeOK, RunInv, NEW p \in Procs, Step(p),
         NEW f \in {"track-a-output", "track-b-output"}, Readable(f)
  PROVE  files'[f] = files[f]
<1>1. f \in Artifacts /\ files[f] # Absent /\ files[f] # Torn
  BY Steps DEF Readable
<1>2. f \notin TRACK_A_DERIVED \cup FINALIZATION_DERIVED
  BY DEF TRACK_A_DERIVED, FINALIZATION_DERIVED
<1>3. ASSUME NEW S, Unlink(p, S), f \notin S PROVE files'[f] = files[f]
  BY <1>1, <1>3 DEF Unlink
<1>4. ASSUME NEW g, NEW c, NEW l, Write(p, g, c, l) PROVE files'[f] = files[f]
  <2>1. CASE CreateFile(p, g, c)
    BY <1>1, <2>1 DEF CreateFile, TypeOK
  <2>2. CASE FillFile(p, l)
    <3>1. files[open[p].file] = Torn
      BY <2>2 DEF FillFile, RunInv, CommandInv, Writing
    <3>2. QED
      BY <1>1, <2>2, <3>1 DEF FillFile
  <2>3. QED
    BY <1>4, <2>1, <2>2 DEF Write
<1>5. ASSUME NEW g, NEW c, NEW l, WriteOrIdentical(p, g, c, l) PROVE files'[f] = files[f]
  BY <1>4, <1>5 DEF WriteOrIdentical, Continue, Raise, Quiet
<1>6. CleanUp(p) => files'[f] = files[f]
  BY <1>2, <1>3 DEF CleanUp, Discard
<1>7. ASSUME NEW g, NEW c, NEW l, WriteOrCleanUp(p, g, c, l) PROVE files'[f] = files[f]
  BY <1>4, <1>6, <1>7 DEF WriteOrCleanUp
<1>8. CASE EventLoad(p) \/ EventAppend(p) \/ InitializeEvents(p) \/ Resume(p)
  BY <1>8 DEF EventLoad, EventAppend, InitializeEvents, Resume, Raise, Continue, Quiet
<1>9. CASE TrackAWait(p) \/ TrackADone(p) \/ TrackBIdentity(p) \/ TrackBValidate(p)
           \/ FinalizeStart(p) \/ FinalizeReady(p)
  BY <1>9 DEF TrackAWait, TrackADone, TrackBIdentity, TrackBValidate, FinalizeStart,
     FinalizeReady, Raise, Continue, Quiet
<1>10. CASE PrepareFiles(p)
  BY <1>4, <1>5, <1>10 DEF PrepareFiles, AppendStage, Raise, Quiet
<1>11. CASE TrackAFiles(p)
  BY <1>5, <1>11 DEF TrackAFiles, Continue, Raise, Quiet
<1>12. CASE TrackARecover(p)
  BY <1>2, <1>3, <1>12 DEF TrackARecover, Discard, Raise, Continue, Quiet
<1>13. CASE TrackBRecover(p)
  <2>1. CASE AtPc(p, "b_recover")
    BY <1>13, <2>1 DEF TrackBRecover, AtPc, Quiet
  <2>2. CASE AtPc(p, "b_unlink_torn") /\ Discard(p, {"track-b-output"} \cup Restartable, "b_output")
    <3>1. files["track-b-output"] = Torn
      BY <2>2 DEF AtPc, RunInv, CommandInv, Identified, BSteps
    <3>2. QED
      BY <1>1, <1>2, <1>3, <2>2, <3>1 DEF Discard, Restartable
  <2>3. CASE Discard(p, Restartable, "b_output")
    BY <1>2, <1>3, <2>3 DEF Discard, Restartable
  <2>4. QED
    BY <1>13, <2>1, <2>2, <2>3 DEF TrackBRecover
<1>14. CASE TrackBFiles(p)
  BY <1>5, <1>14 DEF TrackBFiles, Continue, Raise, Quiet
<1>15. CASE FinalizeFiles(p)
  BY <1>6, <1>7, <1>15 DEF FinalizeFiles
<1>16. CASE FinalizeMetrics(p)
  BY <1>6, <1>16 DEF FinalizeMetrics, AppendStage
<1>17. QED
  BY <1>8, <1>9, <1>10, <1>11, <1>12, <1>13, <1>14, <1>15, <1>16 DEF Step

\* Track outputs that the run has accepted stay as they are, through every failure,
\* retry and cleanup.
THEOREM CanonicalImmutableHolds ==
  ASSUME OneProcess PROVE Spec => CanonicalImmutable
<1>1. ASSUME JournalInv, RunInv, [Next]_vars,
             NEW f \in {"track-a-output", "track-b-output"}, Readable(f)
      PROVE  files'[f] = files[f]
  <2>1. TypeOK /\ f \in Artifacts
    BY <1>1, Steps DEF JournalInv
  <2>2. f \notin FINALIZATION_DERIVED \cup {"run-directory"}
    BY DEF FINALIZATION_DERIVED
  <2>3. ASSUME NEW p \in Procs, Call(p) PROVE files'[f] = files[f]
    BY <2>1, <2>2, <2>3 DEF Call, Prepare, SubmitTrackA, SubmitTrackB, Quiet, TypeOK
  <2>4. ASSUME NEW p \in Procs, FinalizeFails(p) PROVE files'[f] = files[f]
    BY <2>1, <2>2, <2>4 DEF FinalizeFails, Unlink
  <2>5. ASSUME NEW p \in Procs, PrepareFails(p) PROVE FALSE
    <3>1. files["track-a-output"] = Absent /\ files["track-b-output"] = Absent
      BY <1>1, <2>5 DEF PrepareFails, RunInv, CommandInv, Preparing
    <3>2. QED
      BY <1>1, <3>1 DEF Readable
  <2>6. QED
    BY <1>1, <2>1, <2>3, <2>4, <2>5, StepSpares
       DEF Next, Crash, ReplaceEvidence, RestoreEvidence, vars
<1>2. JournalInv /\ RunInv /\ [Next]_vars =>
        [\A f \in {"track-a-output", "track-b-output"} : Readable(f) => files'[f] = files[f]]_vars
  BY <1>1
<1>3. QED
  BY <1>2, RunInvariant, PTL DEF Spec, CanonicalImmutable
=============================================================================

----------------------------- MODULE ReviewRun -----------------------------
(***************************************************************************)
(* One formal review run: the directory runs/<RUN-ID>, its event journal,  *)
(* and the commands that prepare it, submit Track A and Track B to it and  *)
(* finalize it (review_question.py, review_run.py, workflow/events.py).    *)
(*                                                                         *)
(* No lock spans a command.  Files are created exclusively ("xb") and then *)
(* filled, so another process, or a restart after a crash, can meet a file *)
(* that is torn.  Only the journal is locked, once to load it and once to  *)
(* append.  A file's content is abstracted to the Track output it was      *)
(* derived from; a file that depends on the request alone holds Fixed.     *)
(* Unlinking follows POSIX: a process that still writes to an unlinked     *)
(* file goes on without an error.                                          *)
(***************************************************************************)
EXTENDS WorkflowJournal, FiniteSets

CONSTANTS
  Preparers,          \* processes that run review-question prepare
  TrackASubmitters,   \* ... submit-track-a
  TrackBSubmitters,   \* ... submit-track-b
  TrackAs,            \* Track A outputs that pass validation
  TrackBs,            \* Track B outputs that pass validation
  Absent, Torn, Fixed, \* contents of a file
  MaxFaults           \* bound on crashes, failing stages and evidence changes

Procs == Preparers \cup TrackASubmitters \cup TrackBSubmitters

ASSUME ReviewRunAssumption ==
  /\ {Absent, Torn, Fixed} \cap (TrackAs \cup TrackBs) = {}
  /\ Absent # Torn /\ Fixed \notin {Absent, Torn}
  /\ MaxFaults \in Nat

VARIABLES
  files,      \* artifact -> content; "run-directory" stands for the directory
  open,       \* per process: the file it has created and not yet filled
  journal,    \* the complete events under runs/<RUN-ID>/events
  torn_event, \* the journal also holds an event file without its bytes
  telemetry,  \* run-metrics-events: no prepare stage yet, readable, or torn
  bound_evidence,   \* evidence.sqlite is the database the run was prepared from
  op,         \* per process: the command in progress
  faults

vars == <<files, open, journal, torn_event, telemetry, bound_evidence, op, faults>>

TRACK_A_DERIVED == {"track-b-bundle", "next-action-track-b", "track-a-validation"}
FINALIZATION_DERIVED == {"run-manifest", "final-review-packet", "review.html"}

Artifacts ==
  {"run-directory", "review-request", "track-a-bundle", "evidence-query",
   "next-action-track-a", "track-a-output", "track-b-output",
   "track-b-validation"} \cup TRACK_A_DERIVED \cup FINALIZATION_DERIVED

Content == TrackAs \cup TrackBs \cup {Absent, Torn, Fixed}

WorkflowEvent == [next: WorkflowStates, payload: Content]

\* The stages that _initialize_events records, in order.
InitialStages ==
  <<"RECEIVED", "CLASSIFYING_INPUTS", "READY_TO_EVALUATE", "RETRIEVING_EVIDENCE",
    "RUNNING_MATH", "RUNNING_RULES", "WAITING_TRACK_A">>

NoFile == [file |-> "none", content |-> Absent]
NoEvent == [next |-> "RECEIVED", payload |-> Absent]

\* pc: the next step; after: where _append_event returns to; seen: the length of
\* the journal it loaded; stage, bundle: progress of _initialize_events and the
\* bundle it hashed; state: what _resume_state returned; doc, path: the submitted
\* Track output.
Idle == [pc |-> "idle", call |-> "none", path |-> "external", doc |-> Absent,
         state |-> "NONE", event |-> NoEvent, after |-> "idle", seen |-> 0,
         stage |-> 0, bundle |-> Absent]

PCs == {"idle", "write_request", "write_bundle", "write_query", "prepare_metric",
        "write_action_a", "init", "resume", "event_load", "event_append",
        "a_wait", "a_recover", "a_unlink", "a_output", "a_bundle", "a_action",
        "a_validation", "a_metric",
        "b_identity", "b_validate", "b_recover", "b_unlink", "b_unlink_torn", "b_output",
        "b_validation", "f_start", "f_manifest", "f_packet", "f_packet_metric",
        "f_html", "f_html_metric", "f_ready"}

Command == [pc: PCs, call: {"none", "prepare", "submit_a", "submit_b"},
            path: {"external", "canonical"}, doc: Content,
            state: WorkflowStates \cup {"NONE"}, event: WorkflowEvent,
            after: PCs, seen: Nat, stage: 0..Len(InitialStages), bundle: Content]

OpenFile == [file: Artifacts \cup {"none", "unlinked"}, content: Content]

TypeOK ==
  /\ files \in [Artifacts -> Content]
  /\ open \in [Procs -> OpenFile]
  /\ journal \in Seq(WorkflowEvent)
  /\ torn_event \in BOOLEAN
  /\ telemetry \in {"none", "readable", "torn"}
  /\ bound_evidence \in BOOLEAN
  /\ op \in [Procs -> Command]
  /\ faults \in 0..MaxFaults

Init ==
  /\ files = [f \in Artifacts |-> Absent]
  /\ open = [p \in Procs |-> NoFile]
  /\ journal = <<>>
  /\ torn_event = FALSE
  /\ telemetry = "none"
  /\ bound_evidence = TRUE
  /\ op = [p \in Procs |-> Idle]
  /\ faults = 0

-----------------------------------------------------------------------------
(* Steps every command is made of.                                         *)

Readable(f) == files[f] \notin {Absent, Torn}

AtPc(p, l) == op[p].pc = l

Goto(p, l) ==
  op' = [op EXCEPT ![p] = IF l = "idle" THEN Idle ELSE [@ EXCEPT !.pc = l]]

\* The step leaves everything but the command itself alone.
Quiet == UNCHANGED <<files, open, journal, torn_event, telemetry, bound_evidence, faults>>

\* The command ends here, with an exception or with what it has to return.
Raise(p) == Goto(p, "idle") /\ Quiet

Continue(p, l) == Goto(p, l) /\ Quiet

\* Process p, which has no file open any more, removes S from the directory under
\* whoever is writing there.
Unlink(p, S) ==
  /\ files' = [f \in Artifacts |-> IF f \in S THEN Absent ELSE files[f]]
  /\ open' = [q \in Procs |->
                IF q = p THEN NoFile
                ELSE IF open[q].file \in S THEN [open[q] EXCEPT !.file = "unlinked"]
                ELSE open[q]]

\* ... and goes on at l.
Discard(p, S, l) ==
  /\ Unlink(p, S)
  /\ Goto(p, l)
  /\ UNCHANGED <<journal, torn_event, telemetry, bound_evidence, faults>>

\* path.open("xb") ...
CreateFile(p, f, c) ==
  /\ open[p] = NoFile
  /\ files[f] = Absent
  /\ files' = [files EXCEPT ![f] = Torn]
  /\ open' = [open EXCEPT ![p] = [file |-> f, content |-> c]]
  /\ UNCHANGED <<journal, torn_event, telemetry, bound_evidence, op, faults>>

\* ... stream.write and close.
FillFile(p, next) ==
  /\ open[p] # NoFile
  /\ files' = [f \in Artifacts |->
                 IF f = open[p].file THEN open[p].content ELSE files[f]]
  /\ open' = [open EXCEPT ![p] = NoFile]
  /\ Goto(p, next)
  /\ UNCHANGED <<journal, torn_event, telemetry, bound_evidence, faults>>

Write(p, f, c, next) == CreateFile(p, f, c) \/ FillFile(p, next)

\* A file that exists was already there when this process came to create it.
AlreadyThere(p, f) == open[p] = NoFile /\ files[f] # Absent

\* _write_json_or_identical
MutAcceptExisting(p, f, c, next) ==
  Write(p, f, c, next) \/ (AlreadyThere(p, f) /\ Continue(p, next))
WriteOrIdentical(p, f, c, next) ==
  \/ Write(p, f, c, next)
  \/ /\ AlreadyThere(p, f)
     /\ IF files[f] = c THEN Continue(p, next) ELSE Raise(p)

\* The exception handler of finalize_review_run.
CleanUp(p) == Discard(p, FINALIZATION_DERIVED, "idle")

\* _write_json, finalize_run and write_protected_review_entry under that handler
WriteOrCleanUp(p, f, c, next) ==
  \/ Write(p, f, c, next)
  \/ AlreadyThere(p, f) /\ CleanUp(p)

\* The steps at which a process may be in the middle of writing a telemetry
\* event: the record of a stage that completed, or of one that raised.
MetricSteps == {"prepare_metric", "a_wait", "a_recover", "a_output", "a_bundle",
                "a_action", "a_validation", "a_metric", "b_validate",
                "f_packet", "f_packet_metric", "f_html", "f_html_metric"}

\* _event_documents raises on an event file without its bytes, left by a crash
\* or still being written by another process.
TelemetryRaises(p) ==
  telemetry = "torn" \/ \E q \in Procs \ {p} : op[q].pc \in MetricSteps

\* append_stage: it reads every event file before it adds one.
AppendStage(p, next) ==
  /\ telemetry # "torn"
  /\ telemetry' = "readable"
  /\ Goto(p, next)
  /\ UNCHANGED <<files, open, journal, torn_event, bound_evidence, faults>>

-----------------------------------------------------------------------------
(* _append_event: load the journal, then append under the sequence number  *)
(* that was free when it was loaded.                                       *)

\* Call _append_event(next, payload) and go on at l.
AppendEvent(p, next, payload, l) ==
  op' = [op EXCEPT ![p] = [@ EXCEPT !.pc = "event_load", !.after = l,
                           !.event = [next |-> next, payload |-> payload]]]

EventLoad(p) ==
  /\ AtPc(p, "event_load")
  /\ IF torn_event THEN Raise(p)
     ELSE IF LastState(journal) = op[p].event.next THEN Continue(p, op[p].after)
     ELSE /\ op' = [op EXCEPT ![p] = [@ EXCEPT !.pc = "event_append",
                                               !.seen = Len(journal)]]
          /\ Quiet

\* The event's sequence number is the next one of the journal.
NextSequence(p) == op[p].seen = Len(journal)

\* append_workflow_event.  A sequence number taken in the meantime is accepted
\* only for identical bytes, and then only when the two events also carry the
\* same recorded_at, which has a resolution of seconds.
EventAppend(p) ==
  /\ AtPc(p, "event_append")
  /\ \/ /\ ~torn_event
        /\ NextSequence(p)
        /\ MayFollow(journal, op[p].event.next)
        /\ journal' = Append(journal, op[p].event)
        /\ Goto(p, op[p].after)
        /\ UNCHANGED <<files, open, torn_event, telemetry, bound_evidence, faults>>
     \/ /\ ~torn_event
        /\ op[p].seen < Len(journal)
        /\ journal[op[p].seen + 1] = op[p].event
        /\ Continue(p, op[p].after)
     \/ /\ torn_event \/ op[p].seen # Len(journal) \/ ~MayFollow(journal, op[p].event.next)
        /\ Raise(p)

-----------------------------------------------------------------------------
(* prepare_review_question                                                 *)

Start(p, call, path, doc, l) ==
  /\ op[p] = Idle
  /\ op' = [op EXCEPT ![p] = [Idle EXCEPT !.pc = l, !.call = call, !.path = path,
                                          !.doc = doc]]

\* A new run directory is created exclusively; an existing one must hold the
\* same request.
Prepare(p) ==
  /\ p \in Preparers
  /\ bound_evidence
  /\ \/ /\ files["run-directory"] = Absent
        /\ files' = [files EXCEPT !["run-directory"] = Fixed]
        /\ Start(p, "prepare", "external", Absent, "write_request")
        /\ UNCHANGED <<open, journal, torn_event, telemetry, bound_evidence, faults>>
     \/ /\ files["review-request"] = Fixed
        /\ Start(p, "prepare", "canonical", Absent, "write_query")
        /\ Quiet

\* path records, for a prepare, whether the directory was there ("canonical").
PrepareFiles(p) ==
  \/ AtPc(p, "write_request") /\ Write(p, "review-request", Fixed, "write_bundle")
  \/ AtPc(p, "write_bundle") /\ Write(p, "track-a-bundle", Fixed, "write_query")
  \/ AtPc(p, "write_query") /\ WriteOrIdentical(p, "evidence-query", Fixed, "prepare_metric")
  \/ /\ AtPc(p, "prepare_metric")
     /\ \/ AppendStage(p, IF op[p].path = "external" THEN "write_action_a" ELSE "resume")
        \/ TelemetryRaises(p) /\ Raise(p)
  \/ AtPc(p, "write_action_a") /\ WriteOrIdentical(p, "next-action-track-a", Fixed, "init")

\* _initialize_events: the hashes of the request and of the bundle, then one
\* event per stage.
InitializeEvents(p) ==
  /\ AtPc(p, "init")
  /\ Quiet
  /\ LET n == op[p].stage
         hash == IF n = 0 THEN files["track-a-bundle"] ELSE op[p].bundle
     IN IF hash = Absent THEN Goto(p, "idle")
        ELSE IF n = Len(InitialStages) THEN Goto(p, "resume")
        ELSE op' = [op EXCEPT ![p] =
                      [op[p] EXCEPT !.pc = "event_load", !.after = "init",
                         !.stage = n + 1, !.bundle = hash,
                         !.event = [next |-> InitialStages[n + 1],
                                    payload |-> IF n < 3 THEN Fixed ELSE hash]]]

-----------------------------------------------------------------------------
(* _resume_state                                                           *)

\* _required_finalizing_track_b_hash: the identity that entered FINALIZING.
FinalizingIndices(j) == {n \in 1..Len(j) : j[n].next = "FINALIZING"}
FinalizingPayload ==
  LET F == FinalizingIndices(journal)
  IN IF F = {} THEN Absent
     ELSE journal[CHOOSE n \in F : \A m \in F : m <= n].payload

\* _existing_finalized_run returns: packet and page exist, the manifest still
\* matches the Track outputs, the packet is the one they give, and the page is
\* its rendering.
MutFinalizedExists == \A f \in FINALIZATION_DERIVED : files[f] # Absent
Finalized ==
  /\ \A f \in FINALIZATION_DERIVED : Readable(f) /\ files[f] = files["track-b-output"]
  /\ Readable("track-a-output")
  /\ bound_evidence

\* What the command does in the state the journal is in: go on, finish an
\* interrupted finalization, or give up.
Resume(p) ==
  /\ AtPc(p, "resume")
  /\ LET state == LastState(journal)
         Proceed(l) == /\ op' = [op EXCEPT ![p] = [@ EXCEPT !.pc = l, !.state = state]]
                       /\ Quiet
     IN IF ~bound_evidence \/ torn_event \/ files["review-request"] # Fixed THEN Raise(p)
        ELSE IF journal = <<>> THEN Continue(p, "init")
        ELSE IF state = "WAITING_TRACK_A" THEN
          IF files["next-action-track-a"] # Absent /\ op[p].call = "submit_a"
            THEN Proceed("a_wait") ELSE Raise(p)
        ELSE IF state = "WAITING_TRACK_B" THEN
          IF files["next-action-track-b"] # Absent /\ op[p].call = "submit_b"
            THEN Proceed("b_validate") ELSE Raise(p)
        ELSE IF state = "FINALIZING" THEN
          IF Finalized
            THEN /\ AppendEvent(p, "READY_FOR_REVIEW", files["final-review-packet"], "idle")
                 /\ Quiet
            ELSE IF op[p].call = "submit_b" THEN Proceed("b_identity") ELSE Raise(p)
        ELSE Raise(p)

-----------------------------------------------------------------------------
(* submit_question_track_a                                                 *)

\* The path names an external file or the run's own track-a-output.json.
SubmitTrackA(p, path, a) ==
  /\ p \in TrackASubmitters
  /\ Start(p, "submit_a", path, a, "resume")
  /\ Quiet

\* What validate_track_a_submission reads at the submitted path.
SubmittedA(p) == IF op[p].path = "canonical" THEN files["track-a-output"] ELSE op[p].doc

\* record_external_wait needs the prepare stage of the telemetry; then the output
\* is read and validated.
TrackAWait(p) ==
  /\ AtPc(p, "a_wait")
  /\ Quiet
  /\ \/ /\ telemetry = "readable"
        /\ SubmittedA(p) \notin {Absent, Torn}
        /\ op' = [op EXCEPT ![p] = [@ EXCEPT !.pc = "a_recover", !.doc = SubmittedA(p)]]
     \/ /\ \/ telemetry = "none" \/ TelemetryRaises(p)
           \/ SubmittedA(p) \in {Absent, Torn}
        /\ Goto(p, "idle")

\* _recover_malformed_track_a_submission: a torn sidecar discards all of them,
\* a torn canonical Track A stops the run.
TrackARecover(p) ==
  \/ /\ AtPc(p, "a_recover")
     /\ IF files["track-a-output"] = Torn THEN Raise(p)
        ELSE Continue(p, IF \E f \in TRACK_A_DERIVED : files[f] = Torn
                           THEN "a_unlink" ELSE "a_output")
  \/ AtPc(p, "a_unlink") /\ Discard(p, TRACK_A_DERIVED, "a_output")

\* submit_track_a publishes the canonical output, unless that is what was submitted
\* (_publish_validated_track_a), and then what follows from it.
TrackAFiles(p) ==
  \/ /\ AtPc(p, "a_output")
     /\ IF op[p].path = "canonical"
          THEN IF files["track-a-output"] # Absent THEN Continue(p, "a_bundle") ELSE Raise(p)
          ELSE WriteOrIdentical(p, "track-a-output", op[p].doc, "a_bundle")
  \/ AtPc(p, "a_bundle") /\ WriteOrIdentical(p, "track-b-bundle", op[p].doc, "a_action")
  \/ AtPc(p, "a_action") /\ WriteOrIdentical(p, "next-action-track-b", Fixed, "a_validation")
  \/ /\ AtPc(p, "a_validation")
     /\ WriteOrIdentical(p, "track-a-validation", files["track-a-output"], "a_metric")

\* The journal advances only after everything is in place.
TrackADone(p) ==
  /\ AtPc(p, "a_metric")
  /\ \/ /\ telemetry # "torn"
        /\ AppendEvent(p, "WAITING_TRACK_B", op[p].doc, "idle")
        /\ Quiet
     \/ TelemetryRaises(p) /\ Raise(p)

-----------------------------------------------------------------------------
(* submit_question_track_b                                                 *)

\* The path names an external attempt or the run's own track-b-output.json.
SubmitTrackB(p, path, b) ==
  /\ p \in TrackBSubmitters
  /\ Start(p, "submit_b", path, b, "resume")
  /\ Quiet

\* What _json reads at the submitted path.
Submitted(p) == IF op[p].path = "canonical" THEN files["track-b-output"] ELSE op[p].doc

\* A retry in FINALIZING reuses the canonical Track B when it is the one that
\* entered FINALIZING, and otherwise must bring that one again.
RetryAllowed(p) ==
  IF files["track-b-output"] = FinalizingPayload
    THEN op[p].path = "canonical"
    ELSE Submitted(p) = FinalizingPayload

TrackBIdentity(p) ==
  /\ AtPc(p, "b_identity")
  /\ IF ~torn_event /\ RetryAllowed(p) THEN Continue(p, "b_validate") ELSE Raise(p)

\* record_external_wait, validate_track_b_submission, append_stage; then the
\* first attempt records the identity of its Track B.
TrackBValidate(p) ==
  /\ AtPc(p, "b_validate")
  /\ Quiet
  /\ \/ /\ telemetry = "readable"
        /\ Readable("track-a-output")
        /\ Submitted(p) \notin {Absent, Torn}
        /\ IF op[p].state = "WAITING_TRACK_B"
             THEN AppendEvent(p, "FINALIZING", Submitted(p), "b_output")
             ELSE Goto(p, "b_recover")
     \/ /\ \/ telemetry = "none" \/ TelemetryRaises(p)
           \/ ~Readable("track-a-output")
           \/ Submitted(p) \in {Absent, Torn}
        /\ Goto(p, "idle")

\* The outputs that a retry removes before it finalizes again.
MutKeepPage == {"run-manifest", "final-review-packet"}
MutDiscardInput == FINALIZATION_DERIVED \cup {"track-b-output"}
Restartable == FINALIZATION_DERIVED

\* Whether the retry also discards the run's own track-b-output.json.
DiscardsCanonical(p) == files["track-b-output"] = Torn

\* A retry finishes a complete finalization; otherwise it discards the derived
\* outputs, and a canonical Track B that is torn (_recover_incomplete_finalization).
TrackBRecover(p) ==
  \/ /\ AtPc(p, "b_recover")
     /\ Quiet
     /\ IF Finalized
          THEN AppendEvent(p, "READY_FOR_REVIEW", files["final-review-packet"], "idle")
        ELSE IF DiscardsCanonical(p)
          THEN Goto(p, IF op[p].path = "canonical" THEN "idle" ELSE "b_unlink_torn")
        ELSE Goto(p, IF files["track-b-output"] \in {Absent, Submitted(p)}
                       THEN "b_unlink" ELSE "idle")
  \/ /\ AtPc(p, "b_unlink_torn")
     /\ Discard(p, {"track-b-output"} \cup Restartable, "b_output")
  \/ AtPc(p, "b_unlink") /\ Discard(p, Restartable, "b_output")

\* submit_track_b: the canonical Track B, then the record of its validation.
TrackBFiles(p) ==
  \/ /\ AtPc(p, "b_output")
     /\ IF op[p].path = "canonical"
          THEN IF files["track-b-output"] # Absent THEN Continue(p, "b_validation")
                                                   ELSE Raise(p)
          ELSE WriteOrIdentical(p, "track-b-output", op[p].doc, "b_validation")
  \/ /\ AtPc(p, "b_validation")
     /\ IF open[p] = NoFile /\ (files["track-b-output"] = Absent \/ ~Readable("track-b-bundle"))
          THEN Raise(p)
          ELSE WriteOrIdentical(p, "track-b-validation", files["track-b-output"], "f_start")

-----------------------------------------------------------------------------
(* finalize_review_run                                                     *)

\* No derived output may exist; this check is before the exception handler.
FinalizeStart(p) ==
  /\ AtPc(p, "f_start")
  /\ IF /\ Readable("track-a-output") /\ Readable("track-b-output")
        /\ \A f \in FINALIZATION_DERIVED : files[f] = Absent
       THEN Continue(p, "f_manifest")
       ELSE Raise(p)

\* The manifest hashes the Track outputs, the packet is derived from what the
\* manifest names, the page is rendered from the packet and the evidence.
FinalizeFiles(p) ==
  \/ /\ AtPc(p, "f_manifest")
     /\ IF open[p] = NoFile /\ files["track-b-output"] = Absent
          THEN CleanUp(p)
          ELSE WriteOrCleanUp(p, "run-manifest", files["track-b-output"], "f_packet")
  \/ /\ AtPc(p, "f_packet")
     /\ IF /\ open[p] = NoFile
           /\ ~Readable("run-manifest") \/ files["run-manifest"] # files["track-b-output"]
          THEN CleanUp(p)
          ELSE WriteOrCleanUp(p, "final-review-packet", files["run-manifest"], "f_packet_metric")
  \/ /\ AtPc(p, "f_html")
     /\ IF open[p] = NoFile /\ (~Readable("final-review-packet") \/ ~bound_evidence)
          THEN CleanUp(p)
          ELSE WriteOrCleanUp(p, "review.html", files["final-review-packet"], "f_html_metric")

FinalizeMetrics(p) ==
  \E l \in {<<"f_packet_metric", "f_html">>, <<"f_html_metric", "f_ready">>} :
    /\ AtPc(p, l[1])
    /\ AppendStage(p, l[2]) \/ (TelemetryRaises(p) /\ CleanUp(p))

FinalizeReady(p) ==
  /\ AtPc(p, "f_ready")
  /\ Quiet
  /\ IF files["final-review-packet"] = Absent THEN Goto(p, "idle")
     ELSE AppendEvent(p, "READY_FOR_REVIEW", files["final-review-packet"], "idle")

-----------------------------------------------------------------------------
(* The environment.                                                        *)

Fault == faults < MaxFaults /\ faults' = faults + 1

\* The process dies.  What it was writing stays torn: a file, the event file
\* that append_workflow_event has created, an event file of the telemetry.
Crash(p) ==
  /\ op[p] # Idle
  /\ Fault
  /\ op' = [op EXCEPT ![p] = Idle]
  /\ open' = [open EXCEPT ![p] = NoFile]
  /\ \/ torn_event' = torn_event
     \/ AtPc(p, "event_append") /\ NextSequence(p) /\ torn_event' = TRUE
  /\ \/ telemetry' = telemetry
     \/ op[p].pc \in MetricSteps /\ telemetry' = "torn"
  /\ UNCHANGED <<files, journal, bound_evidence>>

\* A stage of finalize_review_run raises (a page image is missing, the disk is
\* full): its handler runs.
FinalizeFails(p) ==
  /\ op[p].pc \in {"f_manifest", "f_packet", "f_packet_metric", "f_html", "f_html_metric"}
  /\ Fault
  /\ Unlink(p, FINALIZATION_DERIVED)
  /\ Goto(p, "idle")
  /\ UNCHANGED <<journal, torn_event, telemetry, bound_evidence>>

\* prepare_review_run cannot write one of its files and removes the directory,
\* with whatever another process has put there.
PrepareFails(p) ==
  /\ op[p].pc \in {"write_request", "write_bundle"}
  /\ Fault
  /\ Unlink(p, Artifacts)
  /\ journal' = <<>>
  /\ torn_event' = FALSE
  /\ telemetry' = "none"
  /\ Goto(p, "idle")
  /\ UNCHANGED bound_evidence

\* Another database is put in place of the bound one, and the bound one back.
ReplaceEvidence ==
  /\ bound_evidence
  /\ Fault
  /\ bound_evidence' = FALSE
  /\ UNCHANGED <<files, open, journal, torn_event, telemetry, op>>

RestoreEvidence ==
  /\ ~bound_evidence
  /\ bound_evidence' = TRUE
  /\ UNCHANGED <<files, open, journal, torn_event, telemetry, op, faults>>

-----------------------------------------------------------------------------

Call(p) ==
  \/ Prepare(p)
  \/ \E a \in TrackAs : SubmitTrackA(p, "external", a)
  \/ SubmitTrackA(p, "canonical", Absent)
  \/ \E b \in TrackBs : SubmitTrackB(p, "external", b)
  \/ SubmitTrackB(p, "canonical", Absent)

\* The command in progress takes its next step.
Step(p) ==
  \/ EventLoad(p) \/ EventAppend(p)
  \/ PrepareFiles(p) \/ InitializeEvents(p) \/ Resume(p)
  \/ TrackAWait(p) \/ TrackARecover(p) \/ TrackAFiles(p) \/ TrackADone(p)
  \/ TrackBIdentity(p) \/ TrackBValidate(p) \/ TrackBRecover(p) \/ TrackBFiles(p)
  \/ FinalizeStart(p) \/ FinalizeFiles(p) \/ FinalizeMetrics(p) \/ FinalizeReady(p)

Next ==
  \/ \E p \in Procs : Call(p) \/ Step(p) \/ Crash(p) \/ FinalizeFails(p) \/ PrepareFails(p)
  \/ ReplaceEvidence
  \/ RestoreEvidence

Spec == Init /\ [][Next]_vars

\* Whoever runs the commands repeats them: a command in progress goes on, every
\* submission is tried again and again, the bound database is put back.
Retries ==
  /\ \A p \in Procs : WF_vars(Step(p))
  /\ \A p \in TrackBSubmitters :
       /\ SF_vars(SubmitTrackB(p, "canonical", Absent))
       /\ \A b \in TrackBs : SF_vars(SubmitTrackB(p, "external", b))
  /\ WF_vars(RestoreEvidence)

FairSpec == Spec /\ Retries

-----------------------------------------------------------------------------
(* Properties.                                                             *)

\* What load_workflow_events demands of the journal holds whatever processes
\* append to it, so no interleaving of commands leaves a run unreadable or
\* takes it back to an earlier stage.
JournalLegal == ValidJournal(journal)

Reached(state) == \E n \in 1..Len(journal) : journal[n].next = state

\* As long as the run is there, the Track B identity that entered FINALIZING is
\* fixed, so the retries of two processes are compared with the same one.
FinalizingIdentityFixed ==
  [][Reached("FINALIZING") /\ files'["run-directory"] # Absent
       => FinalizingPayload' = FinalizingPayload]_vars

\* The journal leaves Track A only after the hand-off to Track B is complete on
\* disk and derived from one Track A, also when an earlier attempt died half
\* way and left torn files.
HandoffComplete ==
  Reached("WAITING_TRACK_B") =>
    /\ files["track-a-output"] \in TrackAs
    /\ files["track-b-bundle"] = files["track-a-output"]
    /\ files["track-a-validation"] = files["track-a-output"]
    /\ files["next-action-track-b"] = Fixed

\* READY_FOR_REVIEW is recorded only for a complete final review: the manifest,
\* the packet and the page are there and agree (the state _resume_state
\* demands, "READY_FOR_REVIEW requires complete final review artifacts").
ReadyIsComplete ==
  Reached("READY_FOR_REVIEW") =>
    \A f \in FINALIZATION_DERIVED :
      files[f] \in TrackBs /\ files[f] = files["track-b-output"]

\* A packet is only ever made from the Track B whose identity the FINALIZING
\* event recorded, whatever was submitted before or after a crash.
PacketFromFinalizing ==
  Readable("final-review-packet") => files["final-review-packet"] = FinalizingPayload

\* Every stage of the journal rests on the artifacts of the stage before it, which
\* no crash, failure or retry leaves torn or of another submission.
StagesAreGrounded == HandoffComplete /\ PacketFromFinalizing

\* Track outputs that were accepted into the run are never replaced or removed
\* (IMMUTABLE_INPUTS), however often finalization is retried.
CanonicalImmutable ==
  [][\A f \in {"track-a-output", "track-b-output"} :
       Readable(f) => files'[f] = files[f]]_vars

\* Damage no command repairs: an event file or a telemetry file without its
\* bytes ...
JournalOrTelemetryTorn == torn_event \/ telemetry = "torn"

\* ... and the validation record, which is neither an immutable input nor among
\* the outputs that a retry regenerates.
ValidationTorn == files["track-b-validation"] = Torn /\ \A p \in Procs : open[p] = NoFile

\* A run that entered FINALIZING gets out of it when the submission is
\* repeated, except from the named kinds of damage.
FinalizingCompletes ==
  (LastState(journal) = "FINALIZING")
    ~> (LastState(journal) = "READY_FOR_REVIEW" \/ JournalOrTelemetryTorn \/ ValidationTorn)

\* The recovery that _recover_incomplete_finalization promises ("Recover
\* restartable outputs"): every output that was left torn is regenerated.
FinalizingRecovers ==
  (LastState(journal) = "FINALIZING")
    ~> (LastState(journal) = "READY_FOR_REVIEW" \/ JournalOrTelemetryTorn)
=============================================================================

----------------------------- MODULE Orchestration -----------------------------
(***************************************************************************)
(* A review run under the workflow package: prepare_review_run freezes the *)
(* request and pauses at a preparation lane, ingest_pending_references and *)
(* resume_review_run pass the reference lane, start_drawing_confirmation   *)
(* and resume_after_confirmation the drawing lane, run_deterministic_stages*)
(* records the engine stages, and the Track A and Track B handoffs follow  *)
(* (orchestrator.py, run_layout.py, reference_ingestion.py,                *)
(* drawing_confirmation.py and engine_orchestration.py).                   *)
(*                                                                         *)
(* Processes call these functions on one run directory at any time.  A     *)
(* call is the list of its remaining steps (todo): creating a file,        *)
(* filling it, loading the journal, appending an event.  A call that       *)
(* raises drops the rest of its list.  A hash is the value it is of.  A    *)
(* call whose checks fail before it has written anything changes nothing   *)
(* and is not a step.                                                      *)
(***************************************************************************)
EXTENDS Naturals, Sequences, FiniteSets, WorkflowJournal

CONSTANTS
  Operators,      \* the processes
  AttachmentIds,  \* attachment_id values of the requests
  Hashes,         \* contents of an attachment's bytes
  Names,          \* original_name values
  Requests,       \* the requests prepare_review_run may be called with
  Payloads,       \* the engine outputs run_deterministic_stages may be called with
  Times,          \* values of recorded_at
  TrackOutputs,   \* the outputs of the two tracks
  CandidateSets,  \* the drawing candidates start_drawing_confirmation may be called with
  MaxFaults       \* bound: crashes, failed writes and files replaced from outside

VARIABLES
  store,      \* the bytes of each attachment in the run directory
  file,       \* the other files of the run directory
  events,     \* the workflow journal
  tornEvent,  \* an event file was created and never filled
  op,         \* each process's current call
  faults, swaps

vars == <<store, file, events, tornEvent, op, faults, swaps>>

Roles == {"REFERENCE_DOCUMENT", "CASE_TABLE", "CASE_DRAWING", "SUPPORTING_IMAGE", "none"}
\* A frozen ReviewRequest; role "none" is an attachment without a confirmed role.
Request == [role : [AttachmentIds -> Roles], hash : [AttachmentIds -> Hashes],
            name : [AttachmentIds -> Names]]
ASSUME RequestAssumption ==
  /\ Requests \subseteq Request
  /\ MaxFaults \in Nat

Stages == <<"RETRIEVING_EVIDENCE", "RUNNING_MATH", "RUNNING_RULES">>
FileNames ==
  {"request", "request.sha256", "evidence.sqlite", "reference-ingestion",
   "reference-ingestion.sha256", "drawing-confirmation", "confirmed-inputs",
   "next-action", "track-a-validation", "next-action-track-b", "final-review-packet"}
  \cup {Stages[i] : i \in 1..3}

\* Files: nothing at the path, a file created and not (completely) written, and
\* the documents.
NoFile == [kind |-> "none"]
Torn == [kind |-> "torn"]
Doc(kind, of) == [kind |-> kind, of |-> of]
ConfirmedInputs(hash, valid) == [kind |-> "inputs", hash |-> hash, valid |-> valid]
ForeignDb == Doc("db", {})

RequiresRoleConfirmation(r) == \E i \in AttachmentIds : r.role[i] = "none"
References(r) == {i \in AttachmentIds : r.role[i] \in {"REFERENCE_DOCUMENT", "CASE_TABLE"}}
Drawings(r) == {i \in AttachmentIds : r.role[i] = "CASE_DRAWING"}

Init ==
  /\ \E r \in Requests : store = r.hash
  /\ file = [n \in FileNames |-> NoFile]
  /\ events = <<>>
  /\ tornEvent = FALSE
  /\ op = [o \in Operators |-> [at |-> CHOOSE t \in Times : TRUE, todo |-> <<>>]]
  /\ faults = 0 /\ swaps = 0

(* The steps of a call *)
Write(name, content, style) ==
  [do |-> "write", name |-> name, content |-> content, style |-> style]
Append1(rule, next, payload) ==
  [do |-> "append", rule |-> rule, next |-> next, payload |-> payload]
Then(step) == [do |-> step]

Idle(o) == op[o].todo = <<>>
At(o, step) == ~Idle(o) /\ Head(op[o].todo).do = step
Todo(o, steps) == op' = [op EXCEPT ![o].todo = steps]
Rest(o) == Tail(op[o].todo)
Advance(o) == Todo(o, Rest(o))
Refuse(o) == Todo(o, <<>>)
Call(o, steps) == /\ Idle(o)
                  /\ \E t \in Times : op' = [op EXCEPT ![o] = [at |-> t, todo |-> steps]]
                  /\ UNCHANGED <<store, file, events, tornEvent, faults, swaps>>

\* _write_create_only_or_identical, _persist_create_only_bytes ("identical") open
\* the path exclusively and compare when it exists; the engine's writers ("stage")
\* look first and then open exclusively; the drawing plan ("exclusive") and the
\* packet ("once") are only opened exclusively.
\* (Mutation: a file without its bytes is written again.)
MutRewriteTorn(o) ==
  /\ At(o, "write")
  /\ LET w == Head(op[o].todo) IN
     \/ /\ file[w.name] \in {NoFile, Torn}
        /\ file' = [file EXCEPT ![w.name] = Torn]
        /\ Todo(o, <<[w EXCEPT !.do = "fill"]>> \o Rest(o))
     \/ /\ file[w.name] \notin {NoFile, Torn}
        /\ IF w.style # "exclusive" /\ file[w.name] = w.content THEN Advance(o) ELSE Refuse(o)
        /\ UNCHANGED file
  /\ UNCHANGED <<store, events, tornEvent, faults, swaps>>
CreateFile(o) ==
  /\ At(o, "write")
  /\ LET w == Head(op[o].todo) IN
     \/ /\ file[w.name] = NoFile
        /\ w.style = "stage"
        /\ Todo(o, <<[w EXCEPT !.style = "exclusive"]>> \o Rest(o))
        /\ UNCHANGED file
     \/ /\ file[w.name] = NoFile
        /\ w.style # "stage"
        /\ file' = [file EXCEPT ![w.name] = Torn]
        /\ Todo(o, <<[w EXCEPT !.do = "fill"]>> \o Rest(o))
     \/ /\ file[w.name] # NoFile
        /\ IF w.style \in {"identical", "stage"} /\ file[w.name] = w.content
           THEN Advance(o) ELSE Refuse(o)
        /\ UNCHANGED file
  /\ UNCHANGED <<store, events, tornEvent, faults, swaps>>

FillFile(o) ==
  /\ At(o, "fill")
  /\ file' = [file EXCEPT ![Head(op[o].todo).name] = Head(op[o].todo).content]
  /\ Advance(o)
  /\ UNCHANGED <<store, events, tornEvent, faults, swaps>>

\* The write raises: the engine's writers and the plan's unlink the file, the
\* request's, the receipt's and the packet's leave it.
WriteFails(o) ==
  /\ At(o, "fill")
  /\ faults + swaps < MaxFaults
  /\ LET w == Head(op[o].todo) IN
     file' = [file EXCEPT ![w.name] = IF w.style \in {"identical", "once"} THEN Torn ELSE NoFile]
  /\ Refuse(o)
  /\ faults' = faults + 1
  /\ UNCHANGED <<store, events, tornEvent, swaps>>

\* Loading the journal before an append.  _append_transition ("skip") returns when
\* the journal is already there; start_drawing_confirmation ("plan") appends only
\* to a run that waits for its drawing, and returns when the run is paused.
LoadEvents(o) ==
  /\ At(o, "append")
  /\ LET w == Head(op[o].todo)
         last == LastState(events)
         event == [do |-> "event", sequence |-> Len(events) + 1, previous |-> last,
                   next |-> w.next, payload |-> w.payload]
         \* the call has nothing to append / the call raises
         there == \/ w.rule = "skip" /\ last = w.next
                  \/ w.rule = "plan" /\ last = "INPUT_CONFIRMATION_REQUIRED"
         raises == \/ tornEvent
                   \/ w.rule = "skip" /\ last = "NONE"
                   \/ w.rule = "plan" /\ last # "PENDING_DRAWING_INGESTION" /\ ~there
     IN IF raises THEN Refuse(o)
        ELSE Todo(o, IF there THEN Rest(o) ELSE <<event>> \o Rest(o))
  /\ UNCHANGED <<store, file, events, tornEvent, faults, swaps>>

\* append_workflow_event, under the journal's lock.
EventOf(o) == [next |-> Head(op[o].todo).next, payload |-> Head(op[o].todo).payload,
               at |-> op[o].at]
Appendable(o) ==
  LET e == Head(op[o].todo) IN
  /\ ~tornEvent
  /\ e.sequence = Len(events) + 1
  /\ e.previous = LastState(events)
  /\ MayFollow(events, e.next)
AlreadyAppended(o) ==
  LET e == Head(op[o].todo) IN
  /\ ~tornEvent
  /\ e.sequence \in DOMAIN events
  /\ events[e.sequence] = EventOf(o)
AppendEvent(o) ==
  /\ At(o, "event")
  /\ \/ Appendable(o) /\ events' = Append(events, EventOf(o)) /\ Advance(o)
     \/ AlreadyAppended(o) /\ UNCHANGED events /\ Advance(o)
     \/ ~Appendable(o) /\ ~AlreadyAppended(o) /\ UNCHANGED events /\ Refuse(o)
  /\ UNCHANGED <<store, file, tornEvent, faults, swaps>>

\* A process dies; in the middle of an append it may leave the event's file empty.
Crash(o) ==
  /\ ~Idle(o)
  /\ faults + swaps < MaxFaults
  /\ faults' = faults + 1
  /\ Refuse(o)
  /\ tornEvent' \in {tornEvent} \cup {TRUE : x \in {y \in {o} : At(y, "event") /\ Appendable(y)}}
  /\ UNCHANGED <<store, file, events, swaps>>

(* The frozen request *)
LoadsRequest == file["request"] \notin {NoFile, Torn}
                /\ file["request.sha256"] = Doc("sha", file["request"])
Frozen == file["request"].of
VerifyAttachments(r) == r.hash = store
LoadsState == ~tornEvent /\ events # <<>>

\* Once the run has its request and events a call returns or raises, unchanged, and
\* so does one with another request than the one on disk.
Prepare(o, r) ==
  /\ ~(LoadsRequest /\ events # <<>>)
  /\ file["request"] \in {NoFile, Doc("request", r)}
  /\ VerifyAttachments(r)
  /\ Call(o, <<Write("request", Doc("request", r), "identical"),
               Write("request.sha256", Doc("sha", Doc("request", r)), "identical"),
               Then("prepare")>>)

LaneOf(r) ==
  IF RequiresRoleConfirmation(r) THEN "ROLE_CONFIRMATION_REQUIRED"
  ELSE IF References(r) # {} THEN "PENDING_REFERENCE_INGESTION"
  ELSE IF Drawings(r) # {} THEN "PENDING_DRAWING_INGESTION"
  ELSE "READY_TO_EVALUATE"
PrepareEvents(o) ==
  /\ At(o, "prepare")
  /\ IF LoadsRequest /\ ~tornEvent /\ events = <<>>
     THEN Todo(o, <<Append1("always", "RECEIVED", file["request"]),
                    Append1("always", "CLASSIFYING_INPUTS", file["request"]),
                    Append1("always", LaneOf(Frozen), file["request"])>>)
     ELSE Refuse(o)
  /\ UNCHANGED <<store, file, events, tornEvent, faults, swaps>>

(* The reference lane *)
\* A receipt names the request, the database and, per source hash, its attachments.
ChangedNames(r) ==
  {n \in Names : Cardinality({r.hash[i] : i \in {j \in References(r) : r.name[j] = n}}) > 1}
SourcesOf(r, hashes) ==
  {[hash |-> h, ids |-> {i \in References(r) : r.hash[i] = h},
    names |-> {r.name[i] : i \in {j \in References(r) : r.hash[j] = h}}] : h \in hashes}
Receipt(r, db, sources) ==
  [kind |-> "receipt", request |-> r, db |-> db, sources |-> sources,
   changed |-> ChangedNames(r)]

\* _validate_result_coverage
Covers(r, sources) ==
  /\ UNION {s.ids : s \in sources} = References(r)
  /\ \A s \in sources : /\ \A i \in s.ids : r.hash[i] = s.hash
                        /\ s.names = {r.name[i] : i \in s.ids}

\* load_reference_ingestion_receipt
MutLoadsReceipt == file["reference-ingestion"] # NoFile
LoadsReceipt ==
  LET receipt == file["reference-ingestion"] IN
  /\ receipt \notin {NoFile, Torn}
  /\ file["reference-ingestion.sha256"] = Doc("sha", receipt)
  /\ LoadsRequest
  /\ receipt.request = Frozen
  /\ Covers(Frozen, receipt.sources)
  /\ receipt.changed = ChangedNames(Frozen)
  /\ file["evidence.sqlite"] = receipt.db

\* The batch must declare the request's references; a batch that does not is
\* refused before it changes anything.
IngestPendingReferences(o) ==
  /\ LoadsRequest /\ VerifyAttachments(Frozen)
  /\ LoadsState
  /\ LastState(events) = "PENDING_REFERENCE_INGESTION"
  /\ file["reference-ingestion"] = NoFile
  /\ References(Frozen) # {}
  /\ Call(o, <<Then("import")>>)

\* SourceBatchReferenceBackend.ingest: the importer reads the sources, and
\* publishes only where nothing is; the report is compared with the request
\* once the database is published.
ImportReferences(o) ==
  /\ At(o, "import")
  /\ IF file["evidence.sqlite"] # NoFile
     THEN Refuse(o) /\ UNCHANGED file
     ELSE /\ file' = [file EXCEPT !["evidence.sqlite"] =
                        Doc("db", {store[i] : i \in References(Frozen)})]
          /\ Todo(o, <<[do |-> "result", hashes |-> {store[i] : i \in References(Frozen)}]>>)
  /\ UNCHANGED <<store, events, tornEvent, faults, swaps>>

\* The report's sources are matched with the attachments by hash and the database
\* is hashed; make_reference_ingestion_receipt checks the coverage.
MakeReceipt(o) ==
  /\ At(o, "result")
  /\ LET hashes == Head(op[o].todo).hashes
         sources == SourcesOf(Frozen, hashes)
         receipt == Receipt(Frozen, file["evidence.sqlite"], sources)
     IN IF /\ \A s \in sources : s.ids # {}
           /\ Covers(Frozen, sources)
        THEN Todo(o, <<[do |-> "rehash", receipt |-> receipt]>>)
        ELSE Refuse(o)
  /\ UNCHANGED <<store, file, events, tornEvent, faults, swaps>>

PersistReceipt(o) ==
  /\ At(o, "rehash")
  /\ LET receipt == Head(op[o].todo).receipt IN
     IF file["evidence.sqlite"] = receipt.db
     THEN Todo(o, <<Write("reference-ingestion", receipt, "identical"),
                    Write("reference-ingestion.sha256", Doc("sha", receipt), "identical")>>)
     ELSE Refuse(o)
  /\ UNCHANGED <<store, file, events, tornEvent, faults, swaps>>

\* In the drawing lane or later a call only checks the receipt.
ResumeReviewRun(o) ==
  /\ LoadsRequest /\ VerifyAttachments(Frozen)
  /\ LoadsState
  /\ LastState(events) = "PENDING_REFERENCE_INGESTION"
  /\ LoadsReceipt
  /\ LET receipt == file["reference-ingestion"]
         lane == IF Drawings(Frozen) # {} THEN "PENDING_DRAWING_INGESTION"
                 ELSE "READY_TO_EVALUATE"
     IN Call(o, <<Append1("always", "CLASSIFYING_INPUTS", receipt),
                  Append1("always", lane, receipt)>>)

(* The drawing lane *)
Plan(candidates) == Doc("plan", candidates)
\* The plan is compared with an existing one, which ends the call either way.
StartDrawingConfirmation(o, candidates) ==
  /\ LoadsRequest /\ VerifyAttachments(Frozen)
  /\ Cardinality(Drawings(Frozen)) = 1
  /\ file["drawing-confirmation"] = NoFile
  /\ Call(o, <<Write("drawing-confirmation", Plan(candidates), "exclusive"),
               Append1("plan", "INPUT_CONFIRMATION_REQUIRED", Plan(candidates))>>)

\* _load_confirmed_inputs and the source comparison
ValidInputs(inputs, r) ==
  /\ inputs \notin {NoFile, Torn}
  /\ inputs.valid
  /\ \A i \in Drawings(r) : inputs.hash = r.hash[i]

ResumeAfterConfirmation(o) ==
  /\ LoadsState
  /\ LastState(events) = "INPUT_CONFIRMATION_REQUIRED"
  /\ LoadsRequest /\ VerifyAttachments(Frozen)
  /\ Cardinality(Drawings(Frozen)) = 1
  /\ ValidInputs(file["confirmed-inputs"], Frozen)
  /\ Call(o, <<Then("confirmed")>>)

\* The file is read a second time for its hash.
HashConfirmedInputs(o) ==
  /\ At(o, "confirmed")
  /\ Todo(o, <<Append1("always", "READY_TO_EVALUATE", file["confirmed-inputs"])>>)
  /\ UNCHANGED <<store, file, events, tornEvent, faults, swaps>>

(* The engine stages and the handoffs *)
\* _stage_document: what a stage writes, over the hash of the stage before it.
StageDocument(i, input, payload) ==
  [kind |-> "stage", stage |-> Stages[i], input |-> input, payload |-> payload]
Document(r, payload) ==
  LET first == StageDocument(1, r, payload)
      second == StageDocument(2, first, payload)
  IN <<first, second, StageDocument(3, second, payload)>>

MutCompletedCount(state) ==
  CASE state = "READY_TO_EVALUATE" -> 0 [] state = "RETRIEVING_EVIDENCE" -> 1
    [] state = "RUNNING_MATH" -> 2 [] state = "RUNNING_RULES" -> 3 [] OTHER -> 4
CompletedCount(state) ==
  CASE state = "READY_TO_EVALUATE" -> 0 [] state = "RETRIEVING_EVIDENCE" -> 1
    [] state = "RUNNING_MATH" -> 2 [] state \in {"RUNNING_RULES", "WAITING_TRACK_A"} -> 3
    [] OTHER -> 4

\* _write_stage and the event of each stage, then the Track A handoff
StageSteps(document) ==
  <<Write(Stages[1], document[1], "stage"), Append1("skip", Stages[1], document[1]),
    Write(Stages[2], document[2], "stage"), Append1("skip", Stages[2], document[2]),
    Write(Stages[3], document[3], "stage"), Append1("skip", Stages[3], document[3]),
    Append1("skip", "WAITING_TRACK_A", document[3]),
    Write("next-action", Doc("action", "PRODUCE_TRACK_A"), "stage")>>
\* A completed stage must be on disk exactly as this call would write it, and the next
\* one not otherwise.  A run that already has its Track A handoff is only checked.
RunDeterministicStages(o, payload) ==
  /\ LoadsState
  /\ CompletedCount(LastState(events)) < 4
  /\ file["request.sha256"] \notin {NoFile, Torn}
  /\ LET done == CompletedCount(LastState(events))
         document == Document(file["request.sha256"].of, payload)
     IN /\ \A i \in 1..done : file[Stages[i]] = document[i]
        /\ done < 3 => file[Stages[done + 1]] \in {NoFile, document[done + 1]}
        /\ LastState(events) = "WAITING_TRACK_A" => file["next-action"] = NoFile
        /\ Call(o, SubSeq(StageSteps(document), 2 * done + 1, 8))

AdvanceToTrackB(o, trackA) ==
  /\ LoadsState
  /\ LastState(events) = "WAITING_TRACK_A"
  /\ file["track-a-validation"] \in {NoFile, Doc("validation", trackA)}
  /\ Call(o, <<Write("track-a-validation", Doc("validation", trackA), "stage"),
               Append1("skip", "WAITING_TRACK_B", Doc("validation", trackA)),
               Write("next-action-track-b", Doc("action", "PRODUCE_TRACK_B"), "stage")>>)

RequireTrackBAcceptance(o, trackB, accept) ==
  /\ LoadsState
  /\ LastState(events) = "WAITING_TRACK_B"
  /\ Call(o, <<Append1("skip", IF accept THEN "FINALIZING" ELSE "BLOCKED",
                       Doc("track-b", trackB))>>)

\* finalize_run writes the packet once (its own module); an existing packet raises,
\* and so does, after the write, a status this function does not know.
FinalizeOrchestrationRun(o, status) ==
  /\ LoadsState
  /\ LastState(events) = "FINALIZING"
  /\ file["final-review-packet"] = NoFile
  /\ LET write == Write("final-review-packet", Doc("packet", status), "once")
     IN Call(o, IF status = "PARTIALLY_RESOLVED" THEN <<write>>
                ELSE <<write, Append1("skip", "READY_FOR_REVIEW", Doc("packet", status))>>)

(* What happens around the run *)
\* The reviewer persists a set of confirmed inputs, once; before the run pauses for
\* it nothing reads it.  A set with a conflict is not valid, whatever its source.
InputSets == {ConfirmedInputs(h, TRUE) : h \in Hashes}
             \cup {ConfirmedInputs(CHOOSE h \in Hashes : TRUE, FALSE)}
ReviewerConfirms ==
  /\ LastState(events) = "INPUT_CONFIRMATION_REQUIRED"
  /\ file["confirmed-inputs"] = NoFile
  /\ \E inputs \in InputSets : file' = [file EXCEPT !["confirmed-inputs"] = inputs]
  /\ UNCHANGED <<store, events, tornEvent, op, faults, swaps>>

\* An attachment, the evidence database or the confirmed inputs are replaced.
ReplaceFile ==
  /\ faults + swaps < MaxFaults
  /\ swaps' = swaps + 1
  /\ \/ \E i \in AttachmentIds, h \in Hashes :
          /\ h # store[i]
          /\ store' = [store EXCEPT ![i] = h]
          /\ UNCHANGED file
     \/ /\ file["evidence.sqlite"] # NoFile
        /\ file' = [file EXCEPT !["evidence.sqlite"] = ForeignDb]
        /\ UNCHANGED store
     \/ /\ file["confirmed-inputs"] # NoFile
        /\ \E inputs \in InputSets : file' = [file EXCEPT !["confirmed-inputs"] = inputs]
        /\ UNCHANGED store
  /\ UNCHANGED <<events, tornEvent, op, faults>>

Lane(o) ==
  \/ IngestPendingReferences(o)
  \/ ResumeReviewRun(o)
  \/ \E c \in CandidateSets : StartDrawingConfirmation(o, c)
  \/ ResumeAfterConfirmation(o)
Handoff(o) ==
  \/ \E t \in TrackOutputs : AdvanceToTrackB(o, t)
  \/ \E t \in TrackOutputs, accept \in BOOLEAN : RequireTrackBAcceptance(o, t, accept)
  \/ \E s \in {"READY_FOR_HUMAN_REVIEW", "PARTIALLY_RESOLVED", "ABSTAIN"} :
       FinalizeOrchestrationRun(o, s)
Step(o) ==
  CreateFile(o) \/ FillFile(o) \/ LoadEvents(o) \/ AppendEvent(o) \/ PrepareEvents(o)
  \/ ImportReferences(o) \/ MakeReceipt(o) \/ PersistReceipt(o) \/ HashConfirmedInputs(o)

Begin(o, requests, payloads) ==
  \/ \E r \in requests : Prepare(o, r)
  \/ Lane(o)
  \/ \E p \in payloads : RunDeterministicStages(o, p)

Next ==
  \/ \E o \in Operators :
       Begin(o, Requests, Payloads) \/ Handoff(o) \/ Step(o) \/ WriteFails(o) \/ Crash(o)
  \/ ReviewerConfirms
  \/ ReplaceFile

\* A process that has begun a call goes on, and some process retries a run that a
\* call would change; nobody is bound to confirm inputs or to produce a track.
Spec ==
  /\ Init /\ [][Next]_vars
  /\ \A o \in Operators : WF_vars(Step(o)) /\ WF_vars(Begin(o, Requests, Payloads))
-----------------------------------------------------------------------------
\* Before any engine stage the lanes are passed: the journal begins with the request
\* on disk, a READY_TO_EVALUATE follows the receipt on disk, whose database holds
\* exactly the request's references, and the drawing plan and valid confirmed inputs
\* (resume_review_run, load_reference_ingestion_receipt, resume_after_confirmation);
\* only a file replaced under the run escapes the checks: the database before it is
\* hashed, the confirmed inputs between their two reads.
PassedReferences(n) ==
  LET receipt == file["reference-ingestion"] IN
  /\ receipt \notin {NoFile, Torn}
  /\ \E m \in 1..n : events[m].payload = receipt
  /\ receipt.request = Frozen
  /\ \/ receipt.db = Doc("db", {Frozen.hash[i] : i \in References(Frozen)})
     \/ receipt.db = ForeignDb /\ swaps > 0
PassedDrawing(n) ==
  /\ \E m \in 1..n : events[m].next = "INPUT_CONFIRMATION_REQUIRED"
                     /\ events[m].payload = file["drawing-confirmation"]
  /\ \/ ValidInputs(events[n].payload, Frozen)
     \/ swaps > 0
LanesBeforeEngines ==
  /\ events # <<>> => LoadsRequest /\ events[1].payload = file["request"]
  /\ \A n \in DOMAIN events :
       events[n].next = "READY_TO_EVALUATE" =>
         /\ ~RequiresRoleConfirmation(Frozen)
         /\ References(Frozen) # {} => PassedReferences(n)
         /\ Drawings(Frozen) # {} => PassedDrawing(n)

\* Two processes running the engine stages, with other outputs or at other times, and
\* crashes in between, leave one chain: every recorded stage names the artifact on
\* disk, computed over the artifact before it (run_deterministic_stages, _write_stage).
StageChain ==
  \A n \in DOMAIN events : \A i \in 1..3 :
    events[n].next = Stages[i] =>
      /\ events[n].payload = file[Stages[i]]
      /\ events[n].payload.input = IF i = 1 THEN file["request"] ELSE file[Stages[i - 1]]
      /\ \A m \in DOMAIN events : events[m].next = Stages[i] => m = n

\* Whatever the processes do, the engines run on what the lanes have confirmed, and
\* each on what the one before it left.
EnginesAreGrounded == LanesBeforeEngines /\ StageChain

\* Where a crash, a failed write or an early call leaves a run that no call can bring
\* forward again.
Pending == UNION {{op[o].todo[k] : k \in DOMAIN op[o].todo} : o \in Operators}
HalfWritten(n) ==
  file[n] = Torn /\ ~\E w \in Pending : w.do = "fill" /\ w.name = n
InterruptedClassification ==
  /\ LastState(events) \in {"RECEIVED", "CLASSIFYING_INPUTS"}
  /\ ~\E w \in Pending : w.do = "event" \/ (w.do = "append" /\ w.rule = "always")
DatabaseWithoutReceipt ==
  /\ file["evidence.sqlite"] # NoFile
  /\ \E n \in {"reference-ingestion", "reference-ingestion.sha256"} : file[n] = NoFile
  /\ ~\E w \in Pending : w.do \in {"result", "rehash"}
                         \/ (w.do \in {"write", "fill"} /\ w.style = "identical")
PlanWithoutPause ==
  /\ LastState(events) = "PENDING_DRAWING_INGESTION"
  /\ file["drawing-confirmation"] # NoFile
  /\ ~\E w \in Pending : w.do \in {"append", "event"} /\ w.next = "INPUT_CONFIRMATION_REQUIRED"
PacketWithoutEvent ==
  /\ LastState(events) = "FINALIZING"
  /\ file["final-review-packet"] # NoFile
  /\ ~\E w \in Pending : w.do \in {"append", "event"} /\ w.next \in {"READY_FOR_REVIEW", "BLOCKED"}
DamagedForGood ==
  \/ tornEvent
  \/ \E n \in FileNames : HalfWritten(n)
  \/ InterruptedClassification
  \/ DatabaseWithoutReceipt
  \/ PlanWithoutPause
  \/ PacketWithoutEvent

\* A damaged run stays refused: no retry repairs it, overwrites what the lost call
\* wrote or continues past it, whatever the processes still running do (the
\* create-only writers, append_workflow_event, the lanes' state checks).
FailClosed == [][DamagedForGood => DamagedForGood']_vars

AwaitsPerson ==
  \/ LastState(events) = "ROLE_CONFIRMATION_REQUIRED"
  \/ LastState(events) = "PENDING_DRAWING_INGESTION" /\ Cardinality(Drawings(Frozen)) > 1
  \/ /\ LastState(events) = "INPUT_CONFIRMATION_REQUIRED"
     /\ ~ValidInputs(file["confirmed-inputs"], Frozen)
HandoffReady ==
  /\ \E n \in DOMAIN events : events[n].next = "WAITING_TRACK_A"
  /\ LastState(events) = "WAITING_TRACK_A" =>
       file["next-action"] = Doc("action", "PRODUCE_TRACK_A")

\* Retries bring every other run to its Track A handoff: after any crash, failed write
\* or collision of two processes that does not leave one of the damages above, a run
\* ends with a person's turn or with the handoff published.
RunSettles ==
  []<>(HandoffReady \/ AwaitsPerson \/ DamagedForGood \/ swaps > 0)
================================================================================

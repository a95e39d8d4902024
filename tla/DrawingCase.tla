------------------------------ MODULE DrawingCase ------------------------------
(***************************************************************************)
(* Drawing evidence of one case: candidates, the reviewer's confirmations  *)
(* and calibrations in the annotation server (drawing_review/service.py,   *)
(* local_server.py), the confirmed inputs built from them and their        *)
(* binding for the engines (parsing/drawing_*.py).                         *)
(*                                                                         *)
(* Every artifact is a file written once under a name derived from its     *)
(* content; here a file is the artifact it was created for, and disk says  *)
(* what is in it: the artifact, Torn, or (for a candidate that was         *)
(* replaced) another value.  The server keeps an index of candidates,      *)
(* confirmations and calibrations in memory; its handler threads share it. *)
(***************************************************************************)
EXTENDS Naturals, Sequences, FiniteSets

CONSTANTS
  Handlers,        \* the server's request threads
  ExtractedIds,    \* candidates an extractor found
  ManualIds,       \* candidates a reviewer may create, by annotation_id
  Values,          \* normalized values of a candidate or a confirmation
  Reviewers,
  MaxTime,         \* bound: confirmation times are 1..MaxTime
  Fields,          \* the engine's input fields
  NoValue,         \* no value, or no geometry, is given
  TornArtifact,    \* a file created and not written
  NoHandler,       \* nobody holds action_lock
  MaxArtifacts,    \* bound: files of the case
  Sent,            \* the confirmations the reviewers may send
  MaxDrawingFaults \* bound: failed writes, restarts and replaced files

CandidateIds == ExtractedIds \cup ManualIds

VARIABLES
  disk,          \* file -> content, for the files that exist
  entries,       \* candidate_entries: id -> the candidate as hashed
  confirmations, \* confirmation_records
  calibrations,  \* calibration_records: calibration_id -> record
  lock,          \* the holder of action_lock
  task,          \* each handler's remaining steps
  packets,       \* the last review packet shown, with what it was made of
  inputs,        \* confirmed inputs built and not yet persisted
  bound,         \* the engine values bind_confirmed_inputs returned
  replaced,      \* candidate files replaced so far
  mishaps

drawingVars == <<disk, entries, confirmations, calibrations, lock, task, packets,
                 inputs, bound, replaced, mishaps>>
memory == <<entries, confirmations, calibrations>>

(* Artifacts *)
DrawingCandidate(id, origin, status, value) ==
  [kind |-> "candidate", id |-> id, origin |-> origin, status |-> status, value |-> value]
\* candidate_from_raw_element, create_manual_candidate
Extracted(id) == DrawingCandidate(id, "EXTRACTOR", "UNCONFIRMED", CHOOSE v \in Values : TRUE)
Manual(id) == DrawingCandidate(id, "REVIEWER_MANUAL", "CREATED", NoValue)
\* The confirmation_id hashes every field.
Confirmation(id, action, reviewer, at, value, geometry) ==
  [kind |-> "confirmation", candidate |-> id, action |-> action, reviewer |-> reviewer,
   at |-> at, value |-> value, geometry |-> geometry]
\* The calibration_id hashes neither the candidate nor the confirmation.
CalibrationId(reviewer, at, length) ==
  [kind |-> "calibration", reviewer |-> reviewer, at |-> at, length |-> length]
CalibrationRecord(id, confirmation) ==
  [key |-> id, candidate |-> confirmation.candidate, confirmation |-> confirmation]

FileOf(doc) == IF doc.kind = "candidate" THEN [kind |-> "candidate", id |-> doc.id] ELSE doc

Confirmations ==
  [kind : {"confirmation"}, candidate : CandidateIds,
   action : {"ACCEPTED", "REJECTED", "EDITED", "CREATED"}, reviewer : Reviewers,
   at : 1..MaxTime, value : Values \cup {NoValue}, geometry : {NoValue, "g"}]
\* _stable_id hashes different fields for an extracted and a manual candidate.
ASSUME DrawingAssumption ==
  /\ Sent \subseteq Confirmations
  /\ ExtractedIds \cap ManualIds = {}
  /\ \A id \in CandidateIds : TornArtifact \notin {Extracted(id), Manual(id)}
  /\ MaxTime \in Nat /\ MaxDrawingFaults \in Nat
\* decode_annotation_action and validate_confirmation_for_candidate
ValidConfirmation(candidate, c) ==
  /\ c.candidate = candidate.id
  /\ c.action \in {"ACCEPTED", "REJECTED"} => c.value = NoValue /\ c.geometry = NoValue
  /\ c.action # "REJECTED" => candidate.status \notin {"REJECTED", "CONFLICT"}
  /\ c.action \in {"EDITED", "CREATED"} => c.value # NoValue \/ c.geometry # NoValue
  /\ c.action = "CREATED" => candidate.origin = "REVIEWER_MANUAL" /\ candidate.status = "CREATED"

\* The function f with v at x.
With(f, x, v) == [y \in DOMAIN f \cup {x} |-> IF y = x THEN v ELSE f[y]]

DrawingInit ==
  /\ entries = [id \in ExtractedIds |-> Extracted(id)]
  /\ disk = [f \in {FileOf(Extracted(id)) : id \in ExtractedIds} |-> Extracted(f.id)]
  /\ confirmations = {}
  /\ calibrations = [k \in {} |-> k]
  /\ lock = NoHandler
  /\ task = [h \in Handlers |-> <<>>]
  /\ packets = {} /\ inputs = {} /\ bound = {}
  /\ replaced = 0 /\ mishaps = 0

(* Handler steps *)
Creates(doc, content) == [step |-> "create", doc |-> doc, content |-> content]
Resting(h) == task[h] = <<>>
Doing(h, step) == ~Resting(h) /\ Head(task[h]).step = step
NextTask(h) == task' = [task EXCEPT ![h] = Tail(@)]
Answer(h) == /\ task' = [task EXCEPT ![h] = <<>>]
             /\ lock' = IF lock = h THEN NoHandler ELSE lock

KnownCandidate(id) == id \in DOMAIN entries
Intact(id) == FileOf(entries[id]) \in DOMAIN disk /\ disk[FileOf(entries[id])] = entries[id]
OnDisk(doc) == FileOf(doc) \in DOMAIN disk /\ disk[FileOf(doc)] = doc

\* do_POST of an action on an indexed candidate, under action_lock
RecordExisting(h, c) ==
  /\ Resting(h) /\ lock = NoHandler /\ Cardinality(DOMAIN disk) < MaxArtifacts
  /\ c.action # "CREATED"
  /\ KnownCandidate(c.candidate) /\ Intact(c.candidate)
  /\ ValidConfirmation(entries[c.candidate], c)
  /\ lock' = h
  /\ task' = [task EXCEPT ![h] = <<Creates(c, c), [step |-> "index", doc |-> c]>>]
  /\ UNCHANGED <<disk, memory, packets, inputs, bound, replaced, mishaps>>

\* A CREATED action persists its candidate, then the confirmation, and indexes both.
RecordManual(h, c) ==
  /\ Resting(h) /\ lock = NoHandler /\ Cardinality(DOMAIN disk) < MaxArtifacts
  /\ c.action = "CREATED" /\ c.candidate \in ManualIds /\ c.geometry # NoValue
  /\ ValidConfirmation(Manual(c.candidate), c)
  /\ lock' = h
  /\ task' = [task EXCEPT ![h] = <<Creates(Manual(c.candidate), Manual(c.candidate)),
                                   Creates(c, c), [step |-> "index", doc |-> c]>>]
  /\ UNCHANGED <<disk, memory, packets, inputs, bound, replaced, mishaps>>

\* write_canonical_create_only: an existing file ends the request.
CreateArtifact(h) ==
  /\ Doing(h, "create")
  /\ LET w == Head(task[h]) IN
     IF FileOf(w.doc) \in DOMAIN disk
     THEN Answer(h) /\ UNCHANGED disk
     ELSE /\ disk' = With(disk, FileOf(w.doc), TornArtifact)
          /\ task' = [task EXCEPT ![h] = <<[w EXCEPT !.step = "fill"]>> \o Tail(@)]
          /\ UNCHANGED lock
  /\ UNCHANGED <<memory, packets, inputs, bound, replaced, mishaps>>

FillArtifact(h) ==
  /\ Doing(h, "fill")
  /\ LET w == Head(task[h]) IN disk' = With(disk, FileOf(w.doc), w.content)
  /\ NextTask(h)
  /\ UNCHANGED <<memory, lock, packets, inputs, bound, replaced, mishaps>>

\* The write raises, the file is unlinked and the request answered.
FillFails(h) ==
  /\ Doing(h, "fill")
  /\ mishaps < MaxDrawingFaults
  /\ disk' = [f \in DOMAIN disk \ {FileOf(Head(task[h]).doc)} |-> disk[f]]
  /\ Answer(h)
  /\ mishaps' = mishaps + 1
  /\ UNCHANGED <<memory, packets, inputs, bound, replaced>>

\* do_POST indexes a new candidate, verifies the confirmation and indexes it.
IndexAction(h) ==
  /\ Doing(h, "index")
  /\ LET c == Head(task[h]).doc IN
     /\ entries' = IF c.action = "CREATED"
                   THEN With(entries, c.candidate, Manual(c.candidate)) ELSE entries
     /\ confirmations' = IF OnDisk(c) THEN confirmations \cup {c} ELSE confirmations
  /\ Answer(h)
  /\ UNCHANGED <<disk, calibrations, packets, inputs, bound, replaced, mishaps>>

\* _post_calibration holds no lock.
MutCalibrates(c, reviewer, at) == c \in confirmations
Calibrates(c, reviewer, at) ==
  /\ c \in confirmations
  /\ c.reviewer = reviewer
  /\ OnDisk(c)
  /\ KnownCandidate(c.candidate) /\ Intact(c.candidate)
  /\ ValidConfirmation(entries[c.candidate], c)
  /\ at >= c.at
PostCalibration(h, c, reviewer, at, length) ==
  /\ Resting(h) /\ Cardinality(DOMAIN disk) < MaxArtifacts
  /\ Calibrates(c, reviewer, at)
  /\ LET id == CalibrationId(reviewer, at, length)
         record == CalibrationRecord(id, c)
     IN task' = [task EXCEPT ![h] = <<Creates(id, record), [step |-> "calibrated", doc |-> record]>>]
  /\ UNCHANGED <<disk, memory, lock, packets, inputs, bound, replaced, mishaps>>

IndexCalibration(h) ==
  /\ Doing(h, "calibrated")
  /\ LET record == Head(task[h]).doc IN
     calibrations' = With(calibrations, record.key, record)
  /\ NextTask(h)
  /\ UNCHANGED <<disk, entries, confirmations, lock, packets, inputs, bound, replaced, mishaps>>

\* do_GET of a review packet: of the calibration asked for, or of the latest; the
\* hashes of its three artifacts are verified, then the candidate is loaded again.
Latest(k) == \A other \in DOMAIN calibrations : other.at <= k.at
Verifies(record) ==
  /\ KnownCandidate(record.candidate) /\ record.confirmation \in confirmations
  /\ disk[record.key] = record
  /\ Intact(record.candidate)
  /\ OnDisk(record.confirmation)
PacketVerify(h, k, asked) ==
  /\ Resting(h)
  /\ k \in DOMAIN calibrations
  /\ asked \/ Latest(k)
  /\ Verifies(calibrations[k])
  /\ task' = [task EXCEPT ![h] = <<[step |-> "packet", doc |-> calibrations[k],
                                    since |-> replaced]>>]
  /\ UNCHANGED <<disk, memory, lock, packets, inputs, bound, replaced, mishaps>>
\* status: candidate_status of the input it shows, whatever the action was.
PacketLoad(h) ==
  /\ Doing(h, "packet")
  /\ LET record == Head(task[h]).doc
         file == [kind |-> "candidate", id |-> record.candidate]
     IN packets' =
          {[record |-> record, candidate |-> disk[file], status |-> "ACCEPTED",
            raced |-> replaced # Head(task[h]).since]}
  /\ NextTask(h)
  /\ UNCHANGED <<disk, memory, lock, inputs, bound, replaced, mishaps>>

(* Confirmed inputs *)
\* build_confirmed_input: the value is the confirmation's, else the candidate's.
EffectiveValue(candidate, c) == IF c.value # NoValue THEN c.value ELSE candidate.value
ConfirmedInput(field, candidate, c, value) ==
  [field |-> field, candidate |-> candidate.id, status |-> c.action,
   confirmation |-> c, value |-> value]
BuildConfirmedInput(field, c) ==
  /\ KnownCandidate(c.candidate) /\ Intact(c.candidate) /\ OnDisk(c)
  /\ c.action \in {"ACCEPTED", "EDITED", "CREATED"}
  /\ ValidConfirmation(entries[c.candidate], c)
  /\ EffectiveValue(entries[c.candidate], c) # NoValue
  /\ inputs' = inputs \cup
       {ConfirmedInput(field, entries[c.candidate], c, EffectiveValue(entries[c.candidate], c))}
  /\ UNCHANGED <<disk, memory, lock, task, packets, bound, replaced, mishaps>>

InputsFile == [kind |-> "confirmed-inputs"]
ConflictFree(set) == \A i, j \in set : i.field = j.field => i = j
PersistConfirmedInputs ==
  /\ inputs # {}
  /\ ConflictFree(inputs)
  /\ InputsFile \notin DOMAIN disk
  /\ disk' = With(disk, InputsFile, inputs)
  /\ UNCHANGED <<memory, lock, task, packets, inputs, bound, replaced, mishaps>>

\* _verify_candidate and _verify_confirmation of one input
VerifiedInput(i) ==
  /\ KnownCandidate(i.candidate) /\ Intact(i.candidate)
  /\ i.status = "ACCEPTED" => entries[i.candidate].value = i.value
  /\ OnDisk(i.confirmation)
  /\ i.confirmation.candidate = i.candidate
  /\ i.confirmation.action = i.status
  /\ i.confirmation.value # NoValue => i.confirmation.value = i.value
BindConfirmedInputs ==
  /\ InputsFile \in DOMAIN disk
  /\ \A i \in disk[InputsFile] : VerifiedInput(i)
  /\ ConflictFree(disk[InputsFile])
  /\ bound' = disk[InputsFile]
  /\ UNCHANGED <<disk, memory, lock, task, packets, inputs, replaced, mishaps>>

(* Around the case *)
\* The server restarts: its threads end, its index is the extracted candidates'.
RestartServer ==
  /\ mishaps < MaxDrawingFaults
  /\ mishaps' = mishaps + 1
  /\ entries' = [id \in ExtractedIds |-> Extracted(id)]
  /\ confirmations' = {} /\ calibrations' = [k \in {} |-> k]
  /\ lock' = NoHandler
  /\ task' = [h \in Handlers |-> <<>>]
  /\ UNCHANGED <<disk, packets, inputs, bound, replaced>>

\* A candidate's file, or the persisted inputs, are replaced: the candidate by one of
\* another value, the inputs by ones that name another value.
ReplaceArtifact ==
  /\ mishaps < MaxDrawingFaults
  /\ mishaps' = mishaps + 1
  /\ \/ \E f \in DOMAIN disk, v \in Values :
          /\ f.kind = "candidate" /\ disk[f] # TornArtifact /\ disk[f].value # v
          /\ disk' = [disk EXCEPT ![f] = [disk[f] EXCEPT !.value = v]]
          /\ replaced' = replaced + 1
     \/ /\ InputsFile \in DOMAIN disk
        /\ \E v \in Values :
             disk' = [disk EXCEPT ![InputsFile] = {[i EXCEPT !.value = v] : i \in disk[InputsFile]}]
        /\ UNCHANGED replaced
  /\ UNCHANGED <<memory, lock, task, packets, inputs, bound>>

HandlerStep(h) ==
  CreateArtifact(h) \/ FillArtifact(h) \/ IndexAction(h) \/ IndexCalibration(h) \/ PacketLoad(h)
DrawingNext ==
  \/ \E h \in Handlers :
       \/ \E c \in Sent : RecordExisting(h, c) \/ RecordManual(h, c)
       \/ \E c \in confirmations, r \in Reviewers, t \in 1..MaxTime :
            PostCalibration(h, c, r, t, "length")
       \/ \E k \in DOMAIN calibrations, asked \in BOOLEAN : PacketVerify(h, k, asked)
       \/ HandlerStep(h)
       \/ FillFails(h)
  \/ \E f \in Fields, c \in confirmations : BuildConfirmedInput(f, c)
  \/ PersistConfirmedInputs
  \/ BindConfirmedInputs
  \/ RestartServer
  \/ ReplaceArtifact
DrawingSpec == DrawingInit /\ [][DrawingNext]_drawingVars
-----------------------------------------------------------------------------
\* What a review packet shows belongs together, whichever of two reviewers' requests
\* met in the server: its calibration, confirmation and candidate are of each other,
\* the calibrating reviewer confirmed the candidate before, and the candidate shown is
\* the one confirmed, unless its file was replaced between the check of its hash and
\* its second read (do_GET, _post_calibration, calibration_id).  It says nothing of
\* the action of that confirmation: see RejectedIsNotShown.
PacketIsCoherent ==
  \A p \in packets :
    LET r == p.record IN
    /\ r.confirmation.candidate = r.candidate
    /\ r.key.reviewer = r.confirmation.reviewer
    /\ r.key.at >= r.confirmation.at
    /\ p.candidate \in {Extracted(r.candidate), Manual(r.candidate)} \/ p.raced

\* What the engines are given was confirmed: each field has one value, the one of the
\* confirmation or of the candidate it accepts, never of a rejected candidate; only a
\* confirmation that replaced a geometry and no value leaves the value to the file
\* (bind_confirmed_inputs, _verify_candidate, _verify_confirmation).
BoundInputsTrace ==
  /\ ConflictFree(bound)
  /\ \A i \in bound :
       /\ i.confirmation.action # "REJECTED"
       /\ LET candidate == IF i.candidate \in ManualIds THEN Manual(i.candidate)
                           ELSE Extracted(i.candidate)
          IN \/ i.value = EffectiveValue(candidate, i.confirmation)
             \/ i.confirmation.value = NoValue /\ i.confirmation.action # "ACCEPTED"

\* Packets and engines alike are traced to one confirmation.
DrawingIsTraced == PacketIsCoherent /\ BoundInputsTrace

\* contracts/drawing.py: a ConfirmedInput is "Reviewer-confirmed decimal input eligible
\* for deterministic engines", and drawing_binding.py demands that the action of its
\* confirmation is its candidate_status.  A packet that shows such an input does not
\* rest on the confirmation by which the reviewer rejected the candidate.
RejectedIsNotShown ==
  \A p \in packets :
    p.status \in {"ACCEPTED", "EDITED", "CREATED"} => p.record.confirmation.action # "REJECTED"
================================================================================

-------------------------- MODULE WorkflowJournal --------------------------
(***************************************************************************)
(* The transition rules of a formal run's event journal                    *)
(* (workflow/state_machine.py) and what load_workflow_events accepts       *)
(* (workflow/events.py).  A journal is a sequence of records with the      *)
(* fields next (next_state) and payload (payload_sha256); an event's       *)
(* previous_state is the next_state of the one before it.                  *)
(***************************************************************************)
EXTENDS Naturals, Sequences

WorkflowStates ==
  {"RECEIVED", "CLASSIFYING_INPUTS", "ROLE_CONFIRMATION_REQUIRED",
   "PENDING_REFERENCE_INGESTION", "PENDING_DRAWING_INGESTION",
   "INPUT_CONFIRMATION_REQUIRED", "READY_TO_EVALUATE", "RETRIEVING_EVIDENCE",
   "RUNNING_MATH", "RUNNING_RULES", "WAITING_TRACK_A", "WAITING_TRACK_B",
   "FINALIZING", "READY_FOR_REVIEW", "BLOCKED", "FAILED"}

Terminal == {"READY_FOR_REVIEW", "FAILED"}

\* _ALLOWED_TRANSITIONS, without BLOCKED and FAILED
ForwardTransitions ==
  [s \in WorkflowStates |->
     CASE s = "RECEIVED" -> {"CLASSIFYING_INPUTS"}
       [] s = "CLASSIFYING_INPUTS" ->
            {"ROLE_CONFIRMATION_REQUIRED", "PENDING_REFERENCE_INGESTION",
             "PENDING_DRAWING_INGESTION", "INPUT_CONFIRMATION_REQUIRED",
             "READY_TO_EVALUATE"}
       [] s = "ROLE_CONFIRMATION_REQUIRED" -> {"CLASSIFYING_INPUTS"}
       [] s = "PENDING_REFERENCE_INGESTION" ->
            {"CLASSIFYING_INPUTS", "PENDING_DRAWING_INGESTION",
             "INPUT_CONFIRMATION_REQUIRED", "READY_TO_EVALUATE"}
       [] s = "PENDING_DRAWING_INGESTION" ->
            {"INPUT_CONFIRMATION_REQUIRED", "READY_TO_EVALUATE"}
       [] s = "INPUT_CONFIRMATION_REQUIRED" -> {"READY_TO_EVALUATE"}
       [] s = "READY_TO_EVALUATE" -> {"RETRIEVING_EVIDENCE"}
       [] s = "RETRIEVING_EVIDENCE" -> {"RUNNING_MATH"}
       [] s = "RUNNING_MATH" -> {"RUNNING_RULES"}
       [] s = "RUNNING_RULES" -> {"WAITING_TRACK_A"}
       [] s = "WAITING_TRACK_A" -> {"WAITING_TRACK_B"}
       [] s = "WAITING_TRACK_B" -> {"FINALIZING"}
       [] s = "FINALIZING" -> {"READY_FOR_REVIEW"}
       [] OTHER -> {}]

\* validate_transition of a TRANSITION event.  RECEIVED cannot be blocked, and a
\* BLOCKED run is left only by a RESUME event, which the question flow never
\* writes.
ValidTransition(previous, next) ==
  \/ next \in ForwardTransitions[previous]
  \/ next = "FAILED" /\ previous \notin Terminal \cup {"BLOCKED"}
  \/ next = "BLOCKED" /\ previous \notin Terminal \cup {"BLOCKED", "RECEIVED"}

\* The state a journal projects to, "NONE" when it is empty.
LastState(j) == IF j = <<>> THEN "NONE" ELSE j[Len(j)].next

\* validate_transition with the previous_state of the journal's last event.
MutAnyTransition(j, next) == TRUE
MayFollow(j, next) ==
  IF j = <<>> THEN next = "RECEIVED" ELSE ValidTransition(LastState(j), next)

\* load_workflow_events accepts the journal.
ValidJournal(j) ==
  /\ j # <<>> => j[1].next = "RECEIVED"
  /\ \A n \in 1..Len(j) : n + 1 \in 1..Len(j) => ValidTransition(j[n].next, j[n + 1].next)
=============================================================================

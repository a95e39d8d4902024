--------------------------- MODULE MCOrchestration ---------------------------
(* Small instances of a review run under the workflow package.             *)
EXTENDS Orchestration, TLC
CONSTANTS h1, h2, n1

R(first, second, hash) ==
  [role |-> (1 :> first) @@ (2 :> second), hash |-> (1 :> h1) @@ (2 :> hash),
   name |-> (1 :> n1) @@ (2 :> n1)]
\* Two references of one name and other bytes; a reference with a drawing; two
\* drawings; a role not confirmed.
LaneRequests ==
  {R("REFERENCE_DOCUMENT", "CASE_TABLE", h2), R("REFERENCE_DOCUMENT", "CASE_DRAWING", h2),
   R("CASE_DRAWING", "CASE_DRAWING", h2), R("REFERENCE_DOCUMENT", "none", h2)}
\* Nothing to prepare.
EngineRequests == {R("SUPPORTING_IMAGE", "SUPPORTING_IMAGE", h2)}
MCRequests == LaneRequests \cup EngineRequests

\* A behaviour has either lanes to pass, and engines with one output and no tracks,
\* or nothing to prepare.
VARIABLE focus
RequestsOf(f) == IF f = "lanes" THEN LaneRequests ELSE EngineRequests
PayloadsOf(f) == IF f = "lanes" THEN {CHOOSE p \in Payloads : TRUE} ELSE Payloads
MCBegin(o) == UNCHANGED focus /\ Begin(o, RequestsOf(focus), PayloadsOf(focus))
MCStep(o) == UNCHANGED focus /\ Step(o)
MCInit == focus \in {"lanes", "engines"} /\ Init
MCNext ==
  \/ \E o \in Operators : MCBegin(o) \/ MCStep(o)
  \/ /\ UNCHANGED focus
     /\ \/ \E o \in Operators : (focus = "engines" /\ Handoff(o)) \/ WriteFails(o) \/ Crash(o)
        \/ ReviewerConfirms
        \/ ReplaceFile
MCSpec ==
  /\ MCInit /\ [][MCNext]_<<vars, focus>>
  /\ \A o \in Operators : WF_vars(MCStep(o)) /\ WF_vars(MCBegin(o))
===============================================================================

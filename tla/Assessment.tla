------------------------------ MODULE Assessment ------------------------------
(***************************************************************************)
(* From the coverage verdict to the machine packet: the review request     *)
(* with its lineage and its confidence factors (review_question.py,        *)
(* question_planning.py, confidence/), the validation of a Track A draft   *)
(* and of the independent Track B audit (llm_layer/), and the packet the   *)
(* finalizer derives (abstention/).  What the two tracks submit is         *)
(* external: any draft and any audit; one that is refused changes nothing. *)
(*                                                                         *)
(* A claim is a record of what its validation reads.  Numbers stand for    *)
(* numeric tokens; a factor is worth 0 .. 10000 ten-thousandths, as the    *)
(* code rounds it.                                                         *)
(***************************************************************************)
EXTENDS Retrieval

CONSTANTS
    Attachments,   \* what the caller passes: [rules, approved, calculations]
    Drafts,        \* drafts Track A may submit
    Worded,        \* elements whose text is not blank
    GivenNumbers,  \* numbers of the question, its facts and its assumptions
    Numbers,       \* Numbers[e]: the numbers of an element's text
    NoHash,        \* the result hash of a rule result without one
    NotYet         \* no request, draft, audit or packet

VARIABLES
    request,  \* the review request Track A works from
    draft,    \* the validated Track A output
    audit,    \* the validated Track B output
    packet    \* the final review packet

assessmentVars == <<request, draft, audit, packet>>
pipelineVars == <<retrievalVars, assessmentVars>>

AssessmentInit ==
    request = NotYet /\ draft = NotYet /\ audit = NotYet /\ packet = NotYet

Issues == DOMAIN plan.issues
Complete == {"RESOLVED", "CONDITIONAL"}

----------------------------------------------------------------------------
(* The request.                                                            *)

\* The issues an element was retrieved for, by a candidate or by a reference.
Lineage(e) ==
    {i \in Issues : SeedMatches(i, e) # {}}
    \cup {r.match.issue : r \in {x \in references : x.evidence = e}}

\* The plan's own obligations: only a plan of version 3 declares facets.
Obligations == [i \in DOMAIN plan.issues |-> ElementsOf(plan.issues[i].declared)]
Declares == plan.version = 3

Comparisons ==
    UNION {{[issue |-> i, evidence |-> FacetEvidence(i, f),
             numbers |-> {plan.issues[i].facts[ComparisonConfig(f).unit],
                          Threshold(i, f)}] : f \in Compared(i)} : i \in Issues}

\* _ratio: rounded half up to four decimals.
Ratio(n, d) == (2 * 10000 * n + d) \div (2 * d)

\* _SOURCE_GAPS: the gaps that make the sources of an issue incomplete.
SourceGapCodes == {"SOURCE_NOT_INGESTED", "REFERENCE_TARGET_MISSING", "RETRIEVAL_MISS",
                   "RELEVANCE_INSUFFICIENT"}

\* The roles the issues must cover, and those they do.
RolesToCover == UNION {{i} \X RequiredRoles(i) : i \in Issues}
RolesCovered == UNION {{i} \X support[i].covered : i \in Issues}

\* apply_issue_coverage_factors: the factors of the request, in the weights of
\* the confidence policy (percent).  The human review is pending and the
\* freshness of the sources is never verified, so both count nothing.
CoverageFactors ==
    LET n == Len(plan.issues)
        sourced == {i \in Issues : support[i].gaps \cap SourceGapCodes = {}}
        parsed == {i \in Issues : "PARSE_GAP" \notin support[i].gaps}
        answered == {i \in Issues : /\ support[i].status \in Complete
                                   /\ support[i].covered = RequiredRoles(i)}
        traceable == {i \in answered : support[i].covered # {}}
    IN  20 * Ratio(Cardinality(sourced), n) + 15 * Ratio(Cardinality(traceable), n)
          + 10 * Ratio(Cardinality(parsed), n) + 15 * Ratio(Cardinality(answered), n)
          + 15 * Ratio(Cardinality(RolesCovered), Cardinality(RolesToCover))
          + 2 * 10000

\* A hit with blank text is left out; approvals must name rules of the request.
BuildRequest ==
    /\ phase = "request"
    /\ \E a \in Attachments :
          /\ a.approved \subseteq {r.id : r \in a.rules}
          /\ request' = [evidence |-> ElementsOf(evidence) \cap Worded,
                         lineage |-> [e \in ElementsOf(evidence) \cap Worded |-> Lineage(e)],
                         rules |-> a.rules, approved |-> a.approved,
                         calculations |-> a.calculations,
                         comparisons |-> Comparisons, factors |-> CoverageFactors]
    /\ phase' = "track_a"
    /\ UNCHANGED <<plan, keys, searchVars, selectionVars, expansionVars, support, draft,
                   audit, packet>>

----------------------------------------------------------------------------
(* Track A: the draft.                                                     *)

\* _validate_claim_issue_relevance and validate_claim_id_issue_binding: the
\* claim names planned issues, the one its identifier encodes among them, and
\* every citation was retrieved for one of them.
IssuesRelevant(c) ==
    /\ c.issues # {} /\ c.issues \subseteq Issues
    /\ c.encodes # 0 => c.encodes \in c.issues
    /\ \A e \in c.citations :
          request.lineage[e] # {} => request.lineage[e] \cap c.issues # {}

\* _validate_claim_facets.
FacetsUnambiguous(c) ==
    IF Declares
    THEN \A f \in c.facets : Cardinality({i \in c.issues : f \in Obligations[i]}) = 1
    ELSE c.facets = {}

\* validate_track_a_output; the declared citations are those of the claims.
StructureValid(d) ==
    /\ \A c, b \in d.claims : c.id = b.id => c = b
    /\ \A c \in d.claims :
          /\ c.citations # {} /\ c.citations \subseteq request.evidence
          /\ IssuesRelevant(c)
          /\ FacetsUnambiguous(c)
    /\ d.citations = UNION {c.citations : c \in d.claims}

\* _require_claim_issue_coverage.
ClaimSupported(c) ==
    \/ \A e \in request.evidence : request.lineage[e] = {}
    \/ c.issues \subseteq UNION {request.lineage[e] : e \in c.citations}

CalculationsSucceeded(c) ==
    \A k \in c.calculations :
        \E r \in request.calculations : r.id = k /\ r.status = "SUCCESS"

\* The numbers a claim may use: given, cited, calculated, or of a comparison
\* all of whose evidence it cites.
AllowedNumbers(c) ==
    GivenNumbers
    \cup (UNION {Numbers[e] : e \in c.citations})
    \cup (UNION {r.numbers : r \in {x \in request.calculations : x.id \in c.calculations}})
    \cup UNION {r.numbers : r \in {x \in request.comparisons :
                                      x.issue \in c.issues /\ x.evidence \subseteq c.citations}}

RulesMatch(c) ==
    \A q \in c.rules : \E r \in request.rules :
        r.id = q.id /\ r.status = q.status /\ r.hash = q.hash /\ r.hash # NoHash

\* _validate_deterministic_comparisons: what the text of the claim says of two
\* of its numbers, or of a percentage and the majority of 50, is true.
RelationHolds(r) ==
    CASE r.says = "<" -> r.left < r.right
      [] r.says = "<=" -> r.left <= r.right
      [] r.says = "=" -> r.left = r.right
      [] r.says = "!=" -> r.left # r.right
      [] r.says = ">=" -> r.left >= r.right
      [] r.says = ">" -> r.left > r.right

\* validate_track_a_integrity; c.scanned are the tokens of the claim's text in
\* their order, c.numbers those the draft declares for it.
IntegrityValid(d) ==
    \A c \in d.claims :
        /\ ClaimSupported(c)
        /\ c.scanned = c.numbers
        /\ \A r \in c.relations : RelationHolds(r)
        /\ CalculationsSucceeded(c)
        /\ ElementsOf(c.numbers) \subseteq AllowedNumbers(c)
        /\ RulesMatch(c)

AcceptTrackA ==
    /\ phase = "track_a"
    /\ \E d \in Drafts :
          /\ StructureValid(d) /\ IntegrityValid(d)
          /\ draft' = d
    /\ phase' = "track_b"
    /\ UNCHANGED <<plan, keys, searchVars, selectionVars, expansionVars, support, request,
                   audit, packet>>

----------------------------------------------------------------------------
(* Track B: the audit.                                                     *)

Dispositions == {"ACCEPT", "REJECT", "INCOMPLETE"}
Findings == {"CITATION_MISMATCH", "SOURCE_CONFLICT"}

\* The disposition of every claim, with at most one finding; an accepted claim
\* has none.
ClaimAudits(claims) ==
    [claims -> {[disposition |-> "ACCEPT", finding |-> "NONE"]} \cup
               [disposition : Dispositions \ {"ACCEPT"}, finding : Findings \cup {"NONE"}]]

AcceptedClaims(claims, audits) == {c \in claims : audits[c].disposition = "ACCEPT"}

\* _derive_overall; an empty draft is incomplete.
Overall(claims, audits) ==
    CASE claims = {} -> "INCOMPLETE"
      [] \E c \in claims : audits[c].disposition = "REJECT" -> "REJECT"
      [] claims # {} /\ AcceptedClaims(claims, audits) = claims -> "ACCEPT"
      [] OTHER -> "INCOMPLETE"

\* required_facet_completeness_for_audit, or the retrieval's own facet coverage
\* when the plan declares none.
Completeness(claims, audits) ==
    IF Declares
    THEN IF \A i \in Issues : Obligations[i] \subseteq
                UNION {c.facets : c \in {x \in AcceptedClaims(claims, audits) : i \in x.issues}}
         THEN "COMPLETE" ELSE "INCOMPLETE"
    ELSE IF \A i \in Issues : support[i].missingFacets = {} THEN "COMPLETE" ELSE "INCOMPLETE"

\* The auditor states the overall disposition and the completeness itself; the
\* code accepts only the derived ones.
AcceptTrackB ==
    /\ phase = "track_b"
    /\ \E audits \in ClaimAudits(draft.claims), responsive \in {"PASS", "FAIL", "NOT_VERIFIED"} :
          audit' = [claims |-> audits, responsive |-> responsive,
                    overall |-> Overall(draft.claims, audits),
                    completeness |-> Completeness(draft.claims, audits)]
    /\ phase' = "finalize"
    /\ UNCHANGED <<plan, keys, searchVars, selectionVars, expansionVars, support, request,
                   draft, packet>>

\* track_b_semantic_gate_status = "PASS".  A plausible bug: the auditor's view
\* of the claims alone decides.
MutSemanticGate == audit.overall = "ACCEPT" /\ audit.responsive = "PASS"

SemanticGate ==
    /\ audit.overall = "ACCEPT" /\ audit.responsive = "PASS"
    /\ audit.completeness = "COMPLETE"

----------------------------------------------------------------------------
(* The packet.                                                             *)

Audited(c) == audit.claims[c].disposition
FindingCodes == {audit.claims[c].finding : c \in draft.claims} \ {"NONE"}

\* Without a claim an issue is not answered, whatever retrieval said; a missing
\* input named for it or a claim of it that was not accepted weakens it.
IssueResult(i) ==
    LET claims == {c \in draft.claims : i \in c.issues}
        blocked == i \in draft.missing
        answered == CASE claims = {} -> IF blocked THEN "SOURCE_MISSING" ELSE "UNRESOLVED"
                      [] claims # {} /\ blocked /\ support[i].status = "RESOLVED" -> "CONDITIONAL"
                      [] OTHER -> support[i].status
    IN  IF support[i].status \notin Complete THEN support[i].status
        ELSE IF answered \in Complete /\ \E c \in claims : Audited(c) # "ACCEPT"
             THEN "UNRESOLVED" ELSE answered

Results == [i \in DOMAIN plan.issues |-> IssueResult(i)]
SomeAnswered == \E i \in Issues : Results[i] \in Complete

\* A plausible bug: the verdict of retrieval decides what is partial.
MutPartial == SomeAnswered /\ \E i \in Issues : support[i].status \notin Complete
Partial == SomeAnswered /\ \E i \in Issues : Results[i] \notin Complete

\* The score with the factors known at the end: calculations and Track B.
Calculated ==
    IF request.calculations # {} /\ \A r \in request.calculations : r.status = "SUCCESS"
    THEN 5 * 10000 ELSE 0

Score == (2 * (request.factors + Calculated + (IF SemanticGate THEN 5 * 10000 ELSE 0)) + 100)
           \div 200

Gate(code, holds) == IF holds THEN {code} ELSE {}

Reasons ==
    Gate("MISSING_REQUIRED_INPUT",
         (\E r \in request.rules : r.missing) \/ ~SomeAnswered)
    \cup Gate("UNCITED_OR_UNRESOLVED_CLAIM",
              /\ audit.overall = "INCOMPLETE" \/ "CITATION_MISMATCH" \in FindingCodes
              /\ ~Partial)
    \cup Gate("UNAPPROVED_RULE", \E r \in request.rules : r.id \notin request.approved)
    \cup Gate("MATH_ENGINE_ERROR", \/ \E r \in request.calculations : r.status # "SUCCESS"
                                   \/ \E r \in request.rules : r.status = "ENGINE_ERROR")
    \cup Gate("UNRESOLVED_CONFLICT", draft.conflict \/ "SOURCE_CONFLICT" \in FindingCodes)
    \cup Gate("TRACK_B_REJECTION", ~SemanticGate)
    \cup Gate("LOW_CONFIDENCE", Score < 7000 /\ ~Partial)

PacketStatus ==
    CASE Reasons # {} -> "ABSTAIN"
      [] Reasons = {} /\ Partial -> "PARTIALLY_RESOLVED"
      [] OTHER -> "READY_FOR_HUMAN_REVIEW"

FinalizeRun ==
    /\ phase = "finalize"
    /\ packet' = [status |-> PacketStatus, results |-> Results, reasons |-> Reasons,
                  score |-> Score]
    /\ phase' = "done"
    /\ UNCHANGED <<plan, keys, searchVars, selectionVars, expansionVars, support, request,
                   draft, audit>>

AssessmentNext == BuildRequest \/ AcceptTrackA \/ AcceptTrackB \/ FinalizeRun

PipelineNext ==
    \/ RetrievalNext /\ UNCHANGED assessmentVars
    \/ AssessmentNext

PipelineSpec == RetrievalInit /\ AssessmentInit /\ [][PipelineNext]_pipelineVars

----------------------------------------------------------------------------
(* Properties.                                                             *)

Presented == packet # NotYet /\ packet.status # "ABSTAIN"

\* What a reviewer is shown as answered is answered, across all four stages:
\* in a packet that does not abstain, every issue marked RESOLVED or
\* CONDITIONAL was so in retrieval, has selected evidence grounded in a request
\* of that very issue that an accepted claim about it cites, has no claim that
\* the audit did not accept, and has every facet its plan requires: stated by
\* accepted claims when the plan declares facets, by grounded evidence otherwise.
AnswersAreGrounded ==
    Presented => \A i \in Issues : packet.results[i] \in Complete =>
        LET claims == {c \in draft.claims : i \in c.issues}
            grounded == UNION {Grounded(i, role) : role \in RequiredRoles(i)}
        IN  /\ support[i].status \in Complete
            /\ \E c \in claims : c.citations \cap grounded # {}
            /\ \A c \in claims : Audited(c) = "ACCEPT" /\ c.citations \subseteq Boxed
            /\ IF Declares
               THEN Obligations[i] \subseteq UNION {c.facets : c \in claims}
               ELSE \A f \in Facets(i) : \E e \in grounded : f \in Says[e]

\* A packet is READY only when every issue of the plan is answered, every rule
\* of the request is approved and complete and every calculation succeeded;
\* one with an unanswered issue says PARTIALLY_RESOLVED and still has at least
\* one answered issue.  The verdict of an issue can be lowered in retrieval, by
\* the draft or by the audit, and none of the three may raise it again.
ReadyMeansAllAnswered ==
    /\ packet # NotYet /\ packet.status = "READY_FOR_HUMAN_REVIEW" =>
          /\ \A i \in Issues : packet.results[i] \in Complete
                               /\ \E c \in draft.claims : i \in c.issues
          /\ \A r \in request.rules : r.id \in request.approved /\ ~r.missing
          /\ \A r \in request.calculations : r.status = "SUCCESS"
          /\ packet.score >= 7000
    /\ packet # NotYet /\ packet.status = "PARTIALLY_RESOLVED" =>
          /\ \E i \in Issues : packet.results[i] \in Complete
          /\ \E i \in Issues : packet.results[i] \notin Complete
================================================================================

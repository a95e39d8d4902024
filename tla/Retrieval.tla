------------------------------- MODULE Retrieval -------------------------------
(***************************************************************************)
(* Issue-aware retrieval of one planned question: the effective plan       *)
(* (user expansions, generated facet searches), the search of every issue  *)
(* and role with its fallback stages, the global round robin under the     *)
(* candidate budget, the resolution of clauses to citable elements, the    *)
(* bounded traversal of reference links and the coverage verdict of every  *)
(* issue (evidence_review/planned_review_question.py and                   *)
(* evidence_review/retrieval/).                                            *)
(*                                                                         *)
(* Text is a set of words: what a text asks for and what a clause or an    *)
(* element says are sets of the words the rules of relevance.py and        *)
(* facets.py look for.  What the full-text index answers is external: any  *)
(* set of at most the allowed number of clauses, in any order of score.    *)
(* Identifiers are numbers, so that the code's sorting by identifier is    *)
(* the order of the numbers.                                               *)
(***************************************************************************)
EXTENDS Naturals, FiniteSets, Sequences, SequencesExt

CONSTANTS
    Plans,            \* the validated question plans
    ExpansionChoices, \* the sequences of manual expansion texts
    Clauses,          \* clause identifiers (numbers)
    Elements,         \* identifiers of elements a link or a clause can name
    Indexed,          \* the elements that have a retrieval record
    Boxed,            \* the indexed elements with a page rectangle
    Document,         \* document of a clause or an element
    Revision,         \* revision of a clause or an element
    Sources,          \* Sources[c]: the elements clause c is linked to
    Links,            \* Links[e]: the outgoing links, [target, type]
    Asks,             \* Asks[t]: the words of a question or a request
    Says,             \* Says[x]: the words of a clause or an element
    Subjects,         \* mutually exclusive subject words
    Anchors,          \* words a clause must repeat when the request has them
    Intents,          \* intent words a clause must repeat
    Derived,          \* Derived[t]: the derived fallback stages text t has
    Protected,        \* texts with a number no fact accounts for
    Measures,         \* Measures[c]: thresholds a clause states
    SearchText,       \* SearchText[f]: the generated search of a facet
    MaxSearchRequests, MaxIssues, MaxQueries, RoleLimit, CandidateCap,
    MaxEvidence, MaxElements, RefDepth, RefNodes, RefFanout

ASSUME PolicyAssumption ==
    /\ {MaxSearchRequests, MaxIssues, MaxQueries, RoleLimit, CandidateCap,
        MaxEvidence, MaxElements, RefNodes, RefFanout} \subseteq Nat \ {0}
    /\ RefDepth \in 0 .. 3
    /\ Boxed \subseteq Indexed /\ Indexed \subseteq Elements
    /\ Clauses \cap Elements = {}
    /\ IsFiniteSet(Clauses) /\ IsFiniteSet(Elements)
    /\ \A e \in Elements : IsFiniteSet(Links[e])

VARIABLES
    phase,        \* the step of prepare_planned_review_question reached
    plan,         \* the effective plan
    keys,         \* the buckets: issue, role and the requests searched for it
    pos,          \* [b, r, q, s]: bucket, request, query and stage searched
    found,        \* found[x]: matches of x in the bucket being filled
    succeeded,    \* whether a query of the current request had a hit
    refused,      \* <<issue, role>> with a hit of insufficient relevance
    pending,      \* such a pair seen by the query still running
    buckets,      \* the closed buckets, in plan order
    turn,         \* the next turn of the round robin
    candidates,   \* the selected candidates, in order
    evidence,     \* the selected evidence, in order
    drops,        \* what a budget dropped
    walk,         \* the traversal of the current issue
    references,   \* evidence reached by a reference, with its match
    missing,      \* references whose target is missing or stale
    support       \* the coverage verdict of every issue

searchVars == <<pos, found, succeeded, refused, pending, buckets>>
selectionVars == <<turn, candidates, evidence, drops>>
expansionVars == <<walk, references, missing>>
retrievalVars == <<phase, plan, keys, searchVars, selectionVars, expansionVars, support>>

----------------------------------------------------------------------------
(* Lists.                                                                  *)

ElementsOf(s) == {s[i] : i \in DOMAIN s}
IsList(s) == s \in Seq(ElementsOf(s))
AtMost(n, limit) == IF n < limit THEN n ELSE limit
First(s, n) == SubSeq(s, 1, AtMost(Len(s), n))

\* The elements of s at the positions I, in the order of s.
AtPositions(s, I) ==
    LET upTo[k \in 0 .. Len(s)] ==
          IF k = 0 THEN <<>>
          ELSE IF k \in I THEN Append(upTo[k - 1], s[k]) ELSE upTo[k - 1]
    IN  upTo[Len(s)]

\* The lists of the list ss, one after the other.
Joined(ss) ==
    LET upTo[k \in 0 .. Len(ss)] == IF k = 0 THEN <<>> ELSE upTo[k - 1] \o ss[k]
    IN  upTo[Len(ss)]

\* The lists of n different members of S.
Orders(S, n) == {s \in [1 .. n -> S] : \A j, k \in 1 .. n : j # k => s[j] # s[k]}

----------------------------------------------------------------------------
(* The plan: what its validation guarantees, and the effective plan.       *)

\* decode_question_plan.
RequestsBelong(p) ==
    \A x \in {p.requests[k] : k \in DOMAIN p.requests} :
        /\ x.issues # {} /\ x.issues \subseteq DOMAIN p.issues
        /\ \A i \in x.issues : \E k \in DOMAIN p.issues[i].roles : p.issues[i].roles[k] = x.role

DependsAcyclic(p) ==
    \E order \in [DOMAIN p.issues -> DOMAIN p.issues] :
        \A i \in DOMAIN p.issues : \A j \in p.issues[i].dependsOn : order[j] < order[i]

ValidPlan(p) ==
    /\ DOMAIN p = {"original", "version", "issues", "requests"}
    /\ Len(p.issues) \in 1 .. MaxIssues /\ DOMAIN p.issues = 1 .. Len(p.issues)
    /\ IsList(p.requests) /\ Len(p.requests) \in 1 .. MaxSearchRequests
    /\ \A k, n \in DOMAIN p.requests : k # n =>
          /\ p.requests[k].id # p.requests[n].id
          /\ <<p.requests[k].text, p.requests[k].kind>> # <<p.requests[n].text, p.requests[n].kind>>
    /\ RequestsBelong(p)
    /\ DependsAcyclic(p)
    /\ \A i \in DOMAIN p.issues :
          /\ DOMAIN p.issues[i].roles = 1 .. Len(p.issues[i].roles)
          /\ Len(p.issues[i].roles) \in Nat \ {0}
          /\ IsList(p.issues[i].facets)
          /\ p.version = 3 <=> p.issues[i].declared # <<>>

ASSUME PlansAssumption == \A p \in Plans : ValidPlan(p)
ASSUME ExpansionAssumption == \A texts \in ExpansionChoices : IsList(texts)

RequiredRoles(i) == ElementsOf(plan.issues[i].roles)

\* The request user expansions are bound to: the first one with role rule,
\* or the first one.
PrimaryRequest(p) ==
    LET rules == {k \in DOMAIN p.requests : p.requests[k].role = "rule"}
    IN  IF rules = {} THEN p.requests[1]
        ELSE p.requests[CHOOSE k \in rules : \A n \in rules : k <= n]

\* One manual expansion becomes a request of the primary request's issues and
\* role, unless a request with the same text and kind is there.
Expansion(p, n, text) ==
    [id |-> <<"USER", n>>, issues |-> PrimaryRequest(p).issues, text |-> text,
     kind |-> PrimaryRequest(p).kind, role |-> PrimaryRequest(p).role]

UserRequests(p, texts) ==
    LET New(n) == /\ \A m \in 1 .. n - 1 : texts[m] # texts[n]
                  /\ \A x \in ElementsOf(p.requests) :
                        <<x.text, x.kind>> # <<texts[n], PrimaryRequest(p).kind>>
        added == AtPositions([n \in DOMAIN texts |-> n], {n \in DOMAIN texts : New(n)})
    IN  [k \in DOMAIN added |-> Expansion(p, added[k], texts[added[k]])]

PlanWithUserExpansions(p, texts) == [p EXCEPT !.requests = UserRequests(p, texts) \o @]

\* A facet is a word; a rule request covers it when its text has the word.
CoversFacet(x, f) == x.role = "rule" /\ f \in Asks[x.text]

\* One rule search for every facet of issue i that no rule request of the
\* issue covers, the searches generated before it included.
FacetRequests(p, i) ==
    LET facets == p.issues[i].facets
        Covered(f) == \E x \in ElementsOf(p.requests) : i \in x.issues /\ CoversFacet(x, f)
        generated[k \in 0 .. Len(facets)] ==
            IF k = 0 THEN {}
            ELSE IF \/ Covered(facets[k])
                    \/ \E m \in generated[k - 1] : facets[k] \in Asks[SearchText[facets[m]]]
                 THEN generated[k - 1] ELSE generated[k - 1] \cup {k}
        needed == AtPositions([k \in DOMAIN facets |-> k], generated[Len(facets)])
    IN  [n \in DOMAIN needed |->
            [id |-> <<"FACET", i, facets[needed[n]]>>, issues |-> {i},
             text |-> SearchText[facets[needed[n]]], kind |-> "concept_relation",
             role |-> "rule"]]

AllFacetRequests(p) == Joined([i \in DOMAIN p.issues |-> FacetRequests(p, i)])

AugmentPlan(p) == [p EXCEPT !.requests = @ \o AllFacetRequests(p)]

----------------------------------------------------------------------------
(* Which requests are searched: round robin over the issue's roles by      *)
(* depth, up to the query budget.                                          *)

RequestsOf(p, i, role) ==
    AtPositions(p.requests, {k \in DOMAIN p.requests :
                                i \in p.requests[k].issues /\ p.requests[k].role = role})

RequestOrder(p, i) ==
    LET roles == p.issues[i].roles
        AtDepth(d) == [k \in DOMAIN roles |->
                          IF d <= Len(RequestsOf(p, i, roles[k]))
                          THEN <<RequestsOf(p, i, roles[k])[d]>> ELSE <<>>]
    IN  Joined([d \in 1 .. Len(p.requests) |-> Joined(AtDepth(d))])

RequestsForIssue(p, i) == First(RequestOrder(p, i), MaxQueries)

Drop(i, request, reason, id) ==
    [issue |-> i, request |-> request, reason |-> reason, id |-> id]

QueryDrops(p) ==
    UNION {{Drop(i, x.id, "QUERY_BUDGET", 0) :
               x \in ElementsOf(RequestOrder(p, i)) \ ElementsOf(RequestsForIssue(p, i))} :
           i \in DOMAIN p.issues}

\* The buckets of the question, one per issue and required role, with the
\* requests searched for it.
SearchedFor(p, i, role) ==
    LET all == RequestsForIssue(p, i)
    IN  AtPositions(all, {k \in DOMAIN all : all[k].role = role})

BucketKeys(p) ==
    Joined([i \in DOMAIN p.issues |->
        [k \in DOMAIN p.issues[i].roles |->
            [issue |-> i, role |-> p.issues[i].roles[k],
             requests |-> SearchedFor(p, i, p.issues[i].roles[k])]]])

----------------------------------------------------------------------------
(* Relevance of a clause or an element to a request.                       *)

SubjectConflict(asked, x) ==
    LET wanted == Subjects \cap asked
        present == Subjects \cap Says[x]
    IN  wanted # {} /\ present # {} /\ wanted \cap present = {}

AnchorMissing(asked, x) == ~((Anchors \cap asked) \subseteq Says[x])

IntentMissing(asked, x) == ~((Intents \cap asked) \subseteq Says[x])

\* evaluate_issue_clause_relevance: the subject is taken from the question and
\* the request, the anchors and the intent from the request alone.
Relevance(question, text, x) ==
    IF SubjectConflict(Asks[question] \cup Asks[text], x) THEN "CONFLICT"
    ELSE IF AnchorMissing(Asks[text], x) THEN "ANCHOR_MISSING"
    ELSE IF IntentMissing(Asks[text], x) THEN "INSUFFICIENT"
    ELSE "ACCEPT"

----------------------------------------------------------------------------
(* Searching a bucket.                                                     *)

Bucket == keys[pos.b]
Request == Bucket.requests[pos.r]
IssueQuestion == plan.issues[Bucket.issue].question

Queries ==
    IF Request.text = plan.original THEN <<Request.text>>
    ELSE <<Request.text, plan.original>>

DirectStages == <<"EXACT_CLAUSE", "PHRASE", "TOKEN_AND", "TOKEN_PREFIX">>

\* The stages tried for a query: the original question is not rewritten, and
\* the heading stage always ends the search.
DerivedStages(text) == IF text = plan.original THEN <<>> ELSE Derived[text]

Attempts(text) ==
    DirectStages
      \o DerivedStages(text)
      \o <<"HEADING_SCOPED">>

HeadingAllowed(text) == text = Request.text /\ text \notin Protected

\* When every query failed, the elements themselves are searched with the
\* request, the original question and the derived queries.
LegacyQueries ==
    Queries \o (IF Request.text = plan.original
                THEN SelectSeq(Derived[Request.text],
                               LAMBDA d : d = "LEGAL_COMPOUND_DECOMPOSITION")
                ELSE Derived[Request.text])

Match == [issue |-> Bucket.issue, request |-> Request.id, role |-> Bucket.role]

\* What the index answers a query with: clauses, or the elements themselves.
Answers(S) == {A \in SUBSET S : Cardinality(A) <= RoleLimit}
ClauseAnswers == Answers(Clauses)
ElementAnswers == Answers(Indexed)

\* The heading stage looks at more clauses than it may return, and is cut to the
\* limit only after the relevance filter; which ones are kept is a matter of
\* score.  The other stages never have more than the limit.
HeadingLimit == IF 16 * RoleLimit > 100 THEN 16 * RoleLimit ELSE 100
HeadingAnswers(text) ==
    IF HeadingAllowed(text) THEN {A \in SUBSET Clauses : Cardinality(A) <= HeadingLimit}
    ELSE {{}}
Truncated(hits) ==
    IF Cardinality(hits) <= RoleLimit THEN {hits}
    ELSE {kept \in SUBSET hits : Cardinality(kept) = RoleLimit}

Insufficient(A) ==
    IF \E x \in A : Relevance(IssueQuestion, Request.text, x) = "INSUFFICIENT"
    THEN {<<Bucket.issue, Bucket.role>>} ELSE {}

Accepted(A) ==
    {x \in A : Relevance(IssueQuestion, Request.text, x) = "ACCEPT"}

Add(A) ==
    [x \in DOMAIN found \cup A |->
        (IF x \in DOMAIN found THEN found[x] ELSE {})
          \cup (IF x \in A THEN {Match} ELSE {})]

NoFound == [x \in {} |-> {}]

RetrievalInit ==
    /\ phase = "plan"
    /\ plan \in Plans
    /\ keys = <<>>
    /\ pos = [b |-> 1, r |-> 1, q |-> 1, s |-> 1]
    /\ found = NoFound
    /\ succeeded = FALSE
    /\ refused = {} /\ pending = {}
    /\ buckets = <<>>
    /\ turn = 1
    /\ candidates = <<>> /\ evidence = <<>>
    /\ drops = {}
    /\ walk = [issue |-> 0, queue |-> <<>>, rows |-> <<>>, visited |-> {}, hits |-> {}]
    /\ references = {} /\ missing = {}
    /\ support = <<>>

\* Expansions, facet searches and the plan limits: a plan over a limit is
\* refused before anything is searched.
EffectivePlan(texts) == AugmentPlan(PlanWithUserExpansions(plan, texts))

PlanQuestion ==
    /\ phase = "plan"
    /\ \E texts \in ExpansionChoices :
          /\ plan' = EffectivePlan(texts)
          /\ keys' = BucketKeys(plan')
          /\ IF \/ Len(EffectivePlan(texts).requests) > MaxSearchRequests
                \/ Len(plan.issues) > MaxIssues
             THEN phase' = "refused"
             ELSE phase' = "search"
    /\ UNCHANGED <<searchVars, selectionVars, expansionVars, support>>

\* One stage of one query.  The first stage with an accepted hit ends the
\* query; a hit is accepted when it is relevant both to the query itself and to
\* the issue.  What the traces record is the issue's verdict, and the traces of
\* the original question are kept only when it succeeded.
Searching == phase = "search" /\ pos.b <= Len(keys) /\ pos.r <= Len(Bucket.requests)

SearchStage ==
    /\ Searching
    /\ pos.q <= Len(Queries)
    /\ LET text == Queries[pos.q]
           stage == Attempts(text)[pos.s]
           last == pos.s = Len(Attempts(text))
       IN  \E A \in IF stage = "HEADING_SCOPED" THEN HeadingAnswers(text)
                    ELSE ClauseAnswers :
           \E hits \in Truncated({x \in Accepted(A) : Relevance(text, text, x) = "ACCEPT"}) :
             LET seen == pending \cup Insufficient(A)
             IN  /\ found' = IF hits # {} THEN Add(hits) ELSE found
                 /\ succeeded' = (succeeded \/ hits # {})
                 /\ IF hits = {} /\ ~last
                    THEN /\ pos' = [pos EXCEPT !.s = @ + 1]
                         /\ pending' = seen
                         /\ UNCHANGED refused
                    ELSE /\ pos' = [pos EXCEPT !.q = @ + 1, !.s = 1]
                         /\ pending' = {}
                         /\ refused' = IF text # plan.original \/ hits # {}
                                       THEN refused \cup seen ELSE refused
    /\ UNCHANGED <<phase, plan, keys, buckets, selectionVars, expansionVars, support>>

NextRequest == [pos EXCEPT !.r = @ + 1, !.q = 1, !.s = 1]

\* The queries of a request are done and one of them had a hit.
EndRequest ==
    /\ Searching
    /\ pos.q > Len(Queries) /\ succeeded
    /\ pos' = NextRequest
    /\ succeeded' = FALSE
    /\ UNCHANGED <<phase, plan, keys, found, refused, pending, buckets, selectionVars,
                   expansionVars, support>>

\* No query had a hit: the elements are searched, the first query with an
\* accepted element ends the search.
SearchElements ==
    /\ Searching
    /\ pos.q > Len(Queries) /\ ~succeeded
    /\ \E A \in ElementAnswers :
          /\ refused' = refused \cup Insufficient(A)
          /\ found' = Add(Accepted(A))
          /\ pos' = IF Accepted(A) # {} \/ pos.s = Len(LegacyQueries)
                    THEN NextRequest ELSE [pos EXCEPT !.s = @ + 1]
    /\ UNCHANGED <<phase, plan, keys, succeeded, pending, buckets, selectionVars,
                   expansionVars, support>>

\* The bucket's candidates, best score first, and no more than the role limit;
\* what the limit cuts off is not recorded anywhere.
Ranked(S) == Orders(S, AtMost(Cardinality(S), RoleLimit))

Candidate(x, matches) ==
    [id |-> x, matches |-> matches,
     evidence |-> IF x \in Elements THEN <<x>> ELSE <<>>, limited |-> FALSE]

CloseBucket ==
    /\ phase = "search"
    /\ pos.b <= Len(keys) /\ pos.r > Len(Bucket.requests)
    /\ \E order \in Ranked(DOMAIN found) :
          buckets' = Append(buckets, [k \in DOMAIN order |->
                                         Candidate(order[k], found[order[k]])])
    /\ found' = NoFound
    /\ pos' = [b |-> pos.b + 1, r |-> 1, q |-> 1, s |-> 1]
    /\ UNCHANGED <<phase, plan, keys, succeeded, refused, pending, selectionVars,
                   expansionVars, support>>

EndSearch ==
    /\ phase = "search"
    /\ pos.b > Len(keys)
    /\ phase' = "select"
    /\ drops' = QueryDrops(plan)
    /\ UNCHANGED <<plan, keys, searchVars, turn, candidates, evidence, expansionVars,
                   support>>

----------------------------------------------------------------------------
(* The global round robin: every bucket's first candidate, then every      *)
(* bucket's second one, and so on, under the candidate cap.                *)

MaxDepth == IF buckets = <<>> THEN 0
            ELSE CHOOSE n \in {Len(buckets[k]) : k \in DOMAIN buckets} :
                    \A k \in DOMAIN buckets : Len(buckets[k]) <= n

Turn == [rank |-> ((turn - 1) \div Len(buckets)) + 1,
         bucket |-> buckets[((turn - 1) % Len(buckets)) + 1]]

AtPlace(s, x) == CHOOSE k \in DOMAIN s : s[k].id = x
Has(s, x) == \E k \in DOMAIN s : s[k].id = x

\* A plausible bug: a candidate found again keeps its first matches only.
MutMergeInto(s, candidate) == s

\* _merge_candidate: one candidate, the matches of both.
MergeInto(s, candidate) ==
    LET k == AtPlace(s, candidate.id)
    IN  [s EXCEPT ![k].matches = @ \cup candidate.matches]

SelectCandidate ==
    /\ phase = "select"
    /\ turn <= MaxDepth * Len(buckets)
    /\ turn' = turn + 1
    /\ IF Turn.rank > Len(Turn.bucket)
       THEN UNCHANGED <<candidates, drops>>
       ELSE LET candidate == Turn.bucket[Turn.rank]
            IN  \/ /\ Has(candidates, candidate.id)
                   /\ candidates' = MergeInto(candidates, candidate)
                   /\ UNCHANGED drops
                \/ /\ ~Has(candidates, candidate.id)
                   /\ Len(candidates) < CandidateCap
                   /\ candidates' = Append(candidates, candidate)
                   /\ UNCHANGED drops
                \/ /\ ~Has(candidates, candidate.id)
                   /\ Len(candidates) >= CandidateCap
                   /\ drops' = drops \cup
                        {Drop(m.issue, m.request, "CANDIDATE_BUDGET", candidate.id) :
                            m \in candidate.matches}
                   /\ UNCHANGED candidates
    /\ UNCHANGED <<phase, plan, keys, searchVars, evidence, expansionVars, support>>

EndSelection ==
    /\ phase = "select"
    /\ turn > MaxDepth * Len(buckets)
    /\ phase' = "cite"
    /\ turn' = 1
    /\ UNCHANGED <<plan, keys, searchVars, candidates, evidence, drops, expansionVars,
                   support>>

----------------------------------------------------------------------------
(* Citable evidence of the candidates, in selection order, under the       *)
(* evidence budget.                                                        *)

\* The indexed elements with a rectangle, of the clause's own revision.
CitableSources(c) ==
    {e \in Sources[c] \cap Boxed : Revision[e] = Revision[c]}

\* resolve_clause_to_evidence: the nearest elements first, in an order that
\* depends on the words of the query.
Resolutions(candidate) ==
    IF candidate.evidence # <<>> THEN {candidate.evidence}
    ELSE Orders(CitableSources(candidate.id),
                AtMost(Cardinality(CitableSources(candidate.id)), MaxElements))

\* What the budget leaves: the new elements up to the limit, in order.
Fresh(s) == AtPositions(s, {k \in DOMAIN s : s[k] \notin ElementsOf(evidence)})
Admitted(s) == First(Fresh(s), MaxEvidence - Len(evidence))

\* The candidate with its part of resolved that is selected.
Resolved(candidate, resolved) ==
    LET selected == ElementsOf(evidence) \cup ElementsOf(Admitted(resolved))
    IN  [candidate EXCEPT
            !.evidence = AtPositions(resolved, {k \in DOMAIN resolved : resolved[k] \in selected}),
            !.limited = Admitted(resolved) # Fresh(resolved)]

MaterializeEvidence ==
    /\ phase = "cite"
    /\ turn <= Len(candidates)
    /\ \E resolved \in Resolutions(candidates[turn]) :
          /\ evidence' = evidence \o Admitted(resolved)
          /\ candidates' = [candidates EXCEPT ![turn] = Resolved(@, resolved)]
    /\ turn' = turn + 1
    /\ UNCHANGED <<phase, plan, keys, searchVars, drops, expansionVars, support>>

EndMaterialization ==
    /\ phase = "cite"
    /\ turn > Len(candidates)
    /\ phase' = IF RefDepth = 0 THEN "cover" ELSE "expand"
    /\ turn' = 1
    /\ UNCHANGED <<plan, keys, searchVars, candidates, evidence, drops, expansionVars,
                   support>>

----------------------------------------------------------------------------
(* Reference expansion: for every issue a bounded breadth-first traversal  *)
(* of the links from the evidence of its candidates.                       *)

Priority(type) ==
    CASE type = "exception" -> 0
      [] type = "parent" -> 1
      [] type \in {"next_sibling", "previous_sibling"} -> 2
      [] type = "cited_clause" -> 3
      [] type = "rule_source" -> 4
      [] type = "source_not_ingested" -> 5
      [] type = "reference_target_missing" -> 6
      [] type = "table" -> 7
      [] type = "visual" -> 8

MissingReason(type) ==
    IF type = "source_not_ingested" THEN "SOURCE_NOT_INGESTED"
    ELSE "REFERENCE_TARGET_MISSING"

\* The seeds of issue i: the evidence of its candidates, with the matches the
\* evidence was found by.
SeedMatches(i, e) ==
    UNION {{m \in candidates[k].matches : m.issue = i} :
              k \in {n \in DOMAIN candidates : e \in ElementsOf(candidates[n].evidence)}}

Seeds(i) == {e \in ElementsOf(evidence) : SeedMatches(i, e) # {}}

\* Their order, by identifier.
SeedOrders(i) ==
    {s \in Orders(Seeds(i), Cardinality(Seeds(i))) :
        \A j, k \in DOMAIN s : s[j] < s[k] => j < k}

LinkBefore(a, b) ==
    \/ Priority(a.type) < Priority(b.type)
    \/ Priority(a.type) = Priority(b.type) /\ a.target < b.target

\* The links of an element the query returns: the first ones of the priority
\* order, as many as the fan-out allows.
LinkOrders(e) ==
    {s \in Orders(Links[e], Cardinality(Links[e])) :
        \A j, k \in DOMAIN s : LinkBefore(s[j], s[k]) => j < k}
Rows(e) == {First(s, RefFanout) : s \in LinkOrders(e)}

StaleRevision(source, target) ==
    Document[source] = Document[target] /\ Revision[source] # Revision[target]

StartTraversal ==
    /\ phase = "expand"
    /\ walk.issue < Len(plan.issues)
    /\ walk.queue = <<>> /\ walk.rows = <<>> /\ walk.hits = {}
    /\ \E seeds \in SeedOrders(walk.issue + 1) :
          walk' = [issue |-> walk.issue + 1,
                   queue |-> [k \in DOMAIN seeds |->
                                [at |-> seeds[k], depth |-> 0, root |-> seeds[k]]],
                   rows |-> <<>>, visited |-> Seeds(walk.issue + 1), hits |-> {}]
    /\ UNCHANGED <<phase, plan, keys, searchVars, selectionVars, references, missing,
                   support>>

Room == Cardinality(walk.hits) < RefNodes

\* The next element of the queue: its links are read unless it is at the depth
\* limit.
TakeSource ==
    /\ phase = "expand"
    /\ walk.queue # <<>> /\ walk.rows = <<>> /\ Room
    /\ LET source == Head(walk.queue)
       IN  \E rows \in IF source.depth >= RefDepth THEN {<<>>} ELSE Rows(source.at) :
           walk' = [walk EXCEPT !.queue = Tail(@),
                      !.rows = [k \in DOMAIN rows |->
                                  [source |-> source.at, target |-> rows[k].target,
                                   type |-> rows[k].type, depth |-> source.depth + 1,
                                   root |-> source.root]]]
    /\ UNCHANGED <<phase, plan, keys, searchVars, selectionVars, references, missing,
                   support>>

\* One link.  A target is looked at once, whatever becomes of it: one that has
\* no record or is of another revision of the same document is reported
\* missing, any other is a hit and is queued.
FollowLink ==
    /\ phase = "expand"
    /\ walk.rows # <<>> /\ Room
    /\ LET link == Head(walk.rows)
           seen == [walk EXCEPT !.rows = Tail(@), !.visited = @ \cup {link.target}]
           Report(reason) == missing' = missing \cup
              {[issue |-> walk.issue, source |-> link.source, target |-> link.target,
                reason |-> reason]}
       IN  \/ /\ link.target \in walk.visited
              /\ walk' = seen
              /\ UNCHANGED missing
           \/ /\ link.target \notin walk.visited
              /\ link.target \notin Indexed
              /\ walk' = seen
              /\ Report(MissingReason(link.type))
           \/ /\ link.target \in Indexed \ walk.visited
              /\ StaleRevision(link.source, link.target)
              /\ walk' = seen
              /\ Report("STALE_SAME_DOCUMENT_REVISION")
           \/ /\ link.target \in Indexed \ walk.visited
              /\ ~StaleRevision(link.source, link.target)
              /\ walk' = [seen EXCEPT !.hits = @ \cup {link},
                            !.queue = Append(@, [at |-> link.target, depth |-> link.depth,
                                                 root |-> link.root])]
              /\ UNCHANGED missing
    /\ UNCHANGED <<phase, plan, keys, searchVars, selectionVars, references, support>>

HitBefore(a, b) ==
    \/ a.depth < b.depth
    \/ a.depth = b.depth /\ Priority(a.type) < Priority(b.type)
    \/ a.depth = b.depth /\ Priority(a.type) = Priority(b.type) /\ a.target < b.target

HitOrders ==
    {s \in Orders(walk.hits, Cardinality(walk.hits)) :
        \A j, k \in DOMAIN s : HitBefore(s[j], s[k]) => j < k}

\* The traversal of an issue is over: its hits join the evidence while the
\* budget lasts, bound to the issue by the matches of the seed they come from.
EndTraversal ==
    /\ phase = "expand" /\ walk.issue > 0
    /\ walk.queue # <<>> \/ walk.rows # <<>> \/ walk.hits # {}
    /\ (walk.queue = <<>> /\ walk.rows = <<>>) \/ ~Room
    /\ \E order \in HitOrders :
       LET targets == [k \in DOMAIN order |-> order[k].target]
           kept == ElementsOf(evidence) \cup ElementsOf(Admitted(targets))
       IN  /\ evidence' = evidence \o Admitted(targets)
           /\ references' = references \cup UNION
                {{[evidence |-> h.target, source |-> h.root, match |-> m] :
                     m \in SeedMatches(walk.issue, h.root)} :
                 h \in {x \in walk.hits : x.target \in kept}}
           /\ drops' = drops \cup UNION
                {{Drop(m.issue, m.request, "REFERENCE_EVIDENCE_BUDGET", h.target) :
                     m \in SeedMatches(walk.issue, h.root)} :
                 h \in {x \in walk.hits : x.target \notin kept}}
    /\ walk' = [walk EXCEPT !.queue = <<>>, !.rows = <<>>, !.hits = {}]
    /\ UNCHANGED <<phase, plan, keys, searchVars, turn, candidates, missing, support>>

EndExpansion ==
    /\ phase = "expand"
    /\ walk.issue = Len(plan.issues)
    /\ walk.queue = <<>> /\ walk.rows = <<>> /\ walk.hits = {}
    /\ phase' = "cover"
    /\ UNCHANGED <<plan, keys, searchVars, selectionVars, expansionVars, support>>

----------------------------------------------------------------------------
(* Facets, comparisons of facts with thresholds, and the coverage verdict. *)

CandidatesOf(i) ==
    {candidates[k] : k \in {n \in DOMAIN candidates :
                               \E m \in candidates[n].matches : m.issue = i}}

ReferencesOf(i) == {r \in references : r.match.issue = i}

\* evaluate_facet_coverage: a facet needs a clause that states it and one of
\* its cited elements that does, or a referenced element that does.
FacetEvidence(i, f) ==
    (UNION {{e \in ElementsOf(c.evidence) : f \in Says[e]} :
               c \in {x \in CandidatesOf(i) : f \in Says[x.id]}})
    \cup {r.evidence : r \in {x \in ReferencesOf(i) : f \in Says[x.evidence]}}

Facets(i) == ElementsOf(plan.issues[i].facets)
MissingFacets(i) == {f \in Facets(i) : FacetEvidence(i, f) = {}}
AllFacetEvidence(i) == UNION {FacetEvidence(i, f) : f \in Facets(i)}

ComparisonConfig(f) ==
    CASE f = "minimum-area-threshold" -> [unit |-> "area_m2", flags |-> BOOLEAN]
      [] f = "distance-normal-threshold" -> [unit |-> "length_m", flags |-> {FALSE}]
      [] f = "distance-conditional-threshold" -> [unit |-> "length_m", flags |-> {TRUE}]
      [] f = "semi-industrial-far-threshold" -> [unit |-> "percent", flags |-> BOOLEAN]

DistanceFacets == {"distance-normal-threshold", "distance-conditional-threshold"}
NumericFacets == DistanceFacets \cup {"minimum-area-threshold", "semi-industrial-far-threshold"}

\* The clauses whose text a comparison reads: they share evidence with the facet.
RuleClauses(i, f) ==
    {c \in CandidatesOf(i) : ElementsOf(c.evidence) \cap FacetEvidence(i, f) # {}}

Thresholds(i, f) ==
    {m.value : m \in {x \in UNION {Measures[c.id] : c \in RuleClauses(i, f)} :
                        /\ x.unit = ComparisonConfig(f).unit
                        /\ x.conditional \in ComparisonConfig(f).flags}}

\* The facets of an issue that a fact of the plan is compared with.
Compared(i) ==
    {f \in (Facets(i) \ MissingFacets(i)) \cap NumericFacets :
        /\ ComparisonConfig(f).unit \in DOMAIN plan.issues[i].facts
        /\ RuleClauses(i, f) # {}}

\* An area must reach the smallest threshold, the others must not exceed the
\* largest one.
Threshold(i, f) ==
    CHOOSE v \in Thresholds(i, f) : \A w \in Thresholds(i, f) :
        IF f = "minimum-area-threshold" THEN v <= w ELSE v >= w

Satisfied(i, f) ==
    LET fact == plan.issues[i].facts[ComparisonConfig(f).unit]
    IN  IF f = "minimum-area-threshold"
        THEN fact >= Threshold(i, f) ELSE fact <= Threshold(i, f)

Conditional(i) ==
    LET numeric == Facets(i) \cap NumericFacets
        Holds(f) == f \in Compared(i) /\ Satisfied(i, f)
    IN  /\ DistanceFacets \subseteq numeric
        /\ "distance-normal-threshold" \in Compared(i)
        /\ ~Satisfied(i, "distance-normal-threshold")
        /\ \A f \in numeric \ {"distance-normal-threshold"} : Holds(f)

\* _candidate_role_state.
SemanticRoles(i) ==
    (UNION {{m.role : m \in {x \in c.matches : x.issue = i}} : c \in CandidatesOf(i)})
    \cup {r.match.role : r \in ReferencesOf(i)}

\* A plausible bug: a clause without citable evidence covers its role.
MutCitationRoles(i) == SemanticRoles(i)

CitationRoles(i) ==
    (UNION {{m.role : m \in {x \in c.matches : x.issue = i}} :
               c \in {y \in CandidatesOf(i) : y.evidence # <<>>}})
    \cup {r.match.role : r \in ReferencesOf(i)}

SupportEvidence(i) ==
    (UNION {ElementsOf(c.evidence) : c \in CandidatesOf(i)})
    \cup {r.evidence : r \in ReferencesOf(i)}

\* The missing references that count against the issue: once every facet has
\* evidence, only those that start at that evidence.
MissingThatCount(i) ==
    {x \in missing : /\ x.issue = i
                     /\ \/ MissingFacets(i) # {} \/ AllFacetEvidence(i) = {}
                        \/ x.source \in AllFacetEvidence(i)}

SourceGaps(i) ==
    (IF \E x \in MissingThatCount(i) : x.reason = "SOURCE_NOT_INGESTED"
     THEN {"SOURCE_NOT_INGESTED"} ELSE {})
    \cup (IF \E x \in MissingThatCount(i) : x.reason # "SOURCE_NOT_INGESTED"
          THEN {"REFERENCE_TARGET_MISSING"} ELSE {})

RelevanceGap(i) ==
    \E role \in RequiredRoles(i) \ CitationRoles(i) : <<i, role>> \in refused

Status(i) ==
    LET lacking == RequiredRoles(i) \ CitationRoles(i)
    IN  CASE SourceGaps(i) # {} -> [status |-> "SOURCE_MISSING", gaps |-> SourceGaps(i) \cup
                (IF RelevanceGap(i) THEN {"RELEVANCE_INSUFFICIENT"} ELSE {})]
          [] SourceGaps(i) = {} /\ RelevanceGap(i) ->
                [status |-> "UNRESOLVED", gaps |-> {"RELEVANCE_INSUFFICIENT"}]
          [] SourceGaps(i) = {} /\ ~RelevanceGap(i) /\ lacking # {} ->
                [status |-> "UNRESOLVED",
                 gaps |-> IF lacking \cap SemanticRoles(i) # {}
                          THEN {"PARSE_GAP"} ELSE {"RETRIEVAL_MISS"}]
          [] SourceGaps(i) = {} /\ lacking = {} /\ MissingFacets(i) # {} ->
                [status |-> "UNRESOLVED", gaps |-> {"MISSING_REQUIRED_FACET"}]
          [] SourceGaps(i) = {} /\ lacking = {} /\ MissingFacets(i) = {} ->
                [status |-> IF Conditional(i) THEN "CONDITIONAL" ELSE "RESOLVED",
                 gaps |-> {}]

IssueSupport(i) ==
    [status |-> Status(i).status, gaps |-> Status(i).gaps, evidence |-> SupportEvidence(i),
     covered |-> RequiredRoles(i) \cap CitationRoles(i), facets |-> Facets(i) \ MissingFacets(i),
     missingFacets |-> MissingFacets(i), compared |-> Compared(i)]

\* The comparisons, the coverage report and the bundle document.  A comparison
\* without a usable threshold and a selected element without a rectangle end
\* the command with an error.
Documented ==
    /\ \A i \in DOMAIN plan.issues : \A f \in Compared(i) : Thresholds(i, f) # {}
    /\ ElementsOf(evidence) \subseteq Boxed

EvaluateCoverage ==
    /\ phase = "cover"
    /\ IF Documented
       THEN /\ phase' = "request"
            /\ support' = [i \in DOMAIN plan.issues |-> IssueSupport(i)]
       ELSE /\ phase' = "refused"
            /\ UNCHANGED support
    /\ UNCHANGED <<plan, keys, searchVars, selectionVars, expansionVars>>

RetrievalNext ==
    \/ PlanQuestion
    \/ SearchStage \/ EndRequest \/ SearchElements \/ CloseBucket \/ EndSearch
    \/ SelectCandidate \/ EndSelection
    \/ MaterializeEvidence \/ EndMaterialization
    \/ StartTraversal \/ TakeSource \/ FollowLink \/ EndTraversal \/ EndExpansion
    \/ EvaluateCoverage

----------------------------------------------------------------------------
(* Properties.                                                             *)

Selected(m, x) ==
    \E k \in DOMAIN candidates : candidates[k].id = x /\ m \in candidates[k].matches

\* Budgets are accounted for: once selection is over, every match of every
\* candidate a bucket offered is carried by a selected candidate or named by a
\* CANDIDATE_BUDGET drop, and a request of an issue that was not searched for
\* one of its roles is named by a QUERY_BUDGET drop.  (What the role limit of a
\* bucket or the evidence budget cuts off is not recorded by the code.)
BudgetsReported ==
    phase \in {"cite", "expand", "cover", "request"} =>
        /\ \A k \in DOMAIN buckets : \A n \in DOMAIN buckets[k] :
              \A m \in buckets[k][n].matches :
                  \/ Selected(m, buckets[k][n].id)
                  \/ Drop(m.issue, m.request, "CANDIDATE_BUDGET", buckets[k][n].id) \in drops
        /\ \A i \in DOMAIN plan.issues : \A x \in ElementsOf(plan.requests) :
              (i \in x.issues /\ x.role \in RequiredRoles(i)) =>
                  \/ \E b \in ElementsOf(keys) :
                        b.issue = i /\ x \in ElementsOf(b.requests)
                  \/ Drop(i, x.id, "QUERY_BUDGET", 0) \in drops

\* No issue is starved by another one: when the candidate cap drops a bucket's
\* candidate of some rank, every candidate that was selected has that rank or a
\* better one in some bucket.
CapIsFair ==
    \A k \in DOMAIN buckets : \A n \in DOMAIN buckets[k] :
        (\E m \in buckets[k][n].matches :
            Drop(m.issue, m.request, "CANDIDATE_BUDGET", buckets[k][n].id) \in drops)
        => \A c \in DOMAIN candidates :
              \E j \in DOMAIN buckets : \E r \in 1 .. n :
                  r <= Len(buckets[j]) /\ buckets[j][r].id = candidates[c].id

\* What the caps cut off is reported, and is cut off fairly.
CapsAreHonest == BudgetsReported /\ CapIsFair

\* The elements that may stand for a role of issue i, by what the corpus says
\* and not by what the search recorded: a selected citable element that is
\* relevant to a request of the issue and role or belongs to such a clause, in
\* the clause's own revision, or an element reached from there by current links.
RelevantFor(i, role, x) ==
    \E r \in ElementsOf(plan.requests) :
        /\ i \in r.issues /\ r.role = role
        /\ Relevance(plan.issues[i].question, r.text, x) = "ACCEPT"

Direct(i, role) ==
    {e \in ElementsOf(evidence) \cap Boxed :
        \/ RelevantFor(i, role, e)
        \/ \E c \in Clauses : /\ e \in Sources[c] /\ Revision[e] = Revision[c]
                              /\ RelevantFor(i, role, c)}

LinkedFrom(S) ==
    {e \in Indexed : \E s \in S : /\ ~StaleRevision(s, e)
                                  /\ \E l \in Links[s] : l.target = e}

\* What current links reach from S, by the number of links followed.
ReachedFrom(S) ==
    LET within[d \in 0 .. RefDepth] ==
            IF d = 0 THEN S ELSE within[d - 1] \cup LinkedFrom(within[d - 1])
    IN  within

Grounded(i, role) == ReachedFrom(Direct(i, role))[RefDepth] \cap Boxed

\* An answered issue is grounded: when an issue is RESOLVED or CONDITIONAL,
\* each of its required roles has selected evidence that is grounded in a
\* request of that issue and role, and each of its facets is stated by selected
\* evidence grounded in one of its roles.  It takes the search, the merge of
\* candidates found for several issues, the two budgets and the traversal to
\* attribute evidence to the right issue.
ResolvedIsSupported ==
    phase = "request" =>
        \A i \in DOMAIN support :
            support[i].status \in {"RESOLVED", "CONDITIONAL"} =>
                /\ \A role \in RequiredRoles(i) :
                      support[i].evidence \cap ElementsOf(evidence) \cap Grounded(i, role) # {}
                /\ \A f \in Facets(i) : \E role \in RequiredRoles(i) :
                      \E e \in support[i].evidence \cap Grounded(i, role) : f \in Says[e]
================================================================================

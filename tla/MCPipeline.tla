------------------------------ MODULE MCPipeline ------------------------------
(***************************************************************************)
(* Four stretches of the pipeline on small instances, one per behaviour    *)
(* ("focus"), because they do not share state: a question over a corpus of *)
(* four clauses and seven elements, from its plan to the gate of its       *)
(* answer; the review-question commands of two processes on one run        *)
(* (ReviewRun, without faults), where only one of the two hands in both    *)
(* outputs of Track B; the drawing case of a workspace; the builds of a    *)
(* release, with one edit or one crash.                                    *)
(***************************************************************************)
EXTENDS Assessment, DrawingCase, Release, ReviewRun

CONSTANTS
    e1, m1, r1, r2, v1, v2,  \* model values of the drawing case
    d1, d2, g, h,            \* databases and rule sets of a release
    q1, x2                   \* a process and an output of the commands

(* The corpus: clauses 1 to 4, elements 11 to 17.                          *)

MCClauses == {1, 2, 3, 4}
MCElements == {11, 12, 13, 14, 15, 16, 17}
MCDocument == [x \in MCClauses \cup MCElements |-> IF x \in {3, 13, 16} THEN 2 ELSE 1]
MCRevision == [x \in MCClauses \cup MCElements |-> IF x = 14 THEN 2 ELSE 1]
MCSources == (1 :> {11, 12}) @@ (2 :> {14, 15}) @@ (3 :> {13, 16}) @@ (4 :> {17})
MCLinks ==
    [x \in MCElements |->
        CASE x = 11 -> {[target |-> 15, type |-> "cited_clause"],
                        [target |-> 16, type |-> "table"]}
          [] x = 12 -> {[target |-> 15, type |-> "source_not_ingested"],
                        [target |-> 14, type |-> "cited_clause"]}
          [] x = 13 -> {[target |-> 14, type |-> "exception"]}
          [] x = 16 -> {[target |-> 12, type |-> "next_sibling"]}
          [] x = 17 -> {[target |-> 13, type |-> "parent"]}
          [] OTHER -> {}]

Normal == "distance-normal-threshold"
Relaxed == "distance-conditional-threshold"

MCAsks ==
    ("q" :> {"station"}) @@ ("i1" :> {"station"}) @@ ("i2" :> {})
    @@ ("t1" :> {"station", Normal}) @@ ("t2" :> {"site"}) @@ ("t3" :> {"ratio"})
    @@ ("tr" :> {Relaxed})

MCSays ==
    (1 :> {"station", Normal, Relaxed}) @@ (2 :> {"road", "site"}) @@ (3 :> {"ratio"})
    @@ (4 :> {"station", "site", Normal})
    @@ (11 :> {"station", "site"}) @@ (12 :> {Normal, Relaxed}) @@ (13 :> {"ratio"})
    @@ (14 :> {Relaxed}) @@ (15 :> {}) @@ (16 :> {"site"}) @@ (17 :> {Normal})

MCDerived ==
    [x \in {"q", "t1", "t2", "t3", "tr"} |->
        IF x = "t2" THEN <<"FACT_DECONTAMINATED">> ELSE <<>>]

MCMeasures ==
    [x \in MCClauses \cup MCElements |->
        CASE x = 1 -> {[unit |-> "length_m", value |-> 250, conditional |-> FALSE],
                       [unit |-> "length_m", value |-> 350, conditional |-> TRUE]}
          [] x = 4 -> {[unit |-> "length_m", value |-> 250, conditional |-> FALSE]}
          [] OTHER -> {}]

MCSearchText == (Normal :> "t1") @@ (Relaxed :> "tr")

OneIssue ==
    [original |-> "q", version |-> 3,
     issues |-> <<[question |-> "i1", roles |-> <<"rule">>, facets |-> <<Normal, Relaxed>>,
                   declared |-> <<"duty">>, dependsOn |-> {}, facts |-> [u \in {"length_m"} |-> 300]]>>,
     requests |-> <<[id |-> <<"S", 1>>, issues |-> {1}, text |-> "t1", kind |-> "phrase",
                     role |-> "rule"]>>]

TwoIssues ==
    [original |-> "q", version |-> 2,
     issues |-> <<[question |-> "i1", roles |-> <<"rule">>, facets |-> <<>>, dependsOn |-> {},
                   declared |-> <<>>, facts |-> <<>>],
                  [question |-> "i2", roles |-> <<"supporting_fact", "rule">>,
                   facets |-> <<>>, dependsOn |-> {1}, declared |-> <<>>, facts |-> <<>>]>>,
     requests |-> <<[id |-> <<"S", 1>>, issues |-> {1, 2}, text |-> "t2", kind |-> "phrase",
                     role |-> "rule"],
                    [id |-> <<"S", 2>>, issues |-> {2}, text |-> "t3", kind |-> "phrase",
                     role |-> "supporting_fact"]>>]

MCPlans == {OneIssue, TwoIssues}
MCExpansions == {<<>>, <<"t3">>, <<"tr", "q", "t2", "t3", "t1">>}  \* the last one is too many

Rule(status, lacks) ==
    [id |-> "r1", status |-> status, missing |-> lacks,
     hash |-> IF lacks THEN NoHash ELSE "result"]
Calculation(status) == [id |-> "c1", status |-> status, numbers |-> {7}]
MCAttachments ==
    {[rules |-> {}, approved |-> {}, calculations |-> {}],
     [rules |-> {Rule("PASS", FALSE)}, approved |-> {"r1"},
      calculations |-> {Calculation("SUCCESS")}],
     [rules |-> {Rule("PASS", FALSE)}, approved |-> {}, calculations |-> {}],
     [rules |-> {Rule("INCOMPLETE", TRUE)}, approved |-> {"r1"},
      calculations |-> {Calculation("ERROR")}]}

Claim(id, encodes, issues, citations, numbers, facets) ==
    [id |-> id, encodes |-> encodes, issues |-> issues, citations |-> citations,
     numbers |-> numbers, scanned |-> numbers, relations |-> {}, facets |-> facets,
     calculations |-> {}, rules |-> {}]
Draft(claims, citations, scoped, conflict) ==
    [claims |-> claims, citations |-> citations, missing |-> scoped, conflict |-> conflict]

About1 == Claim("a", 1, {1}, {17}, <<250>>, {"duty"})
Plain1 == Claim("a", 0, {1}, {17}, <<250>>, {})
About2 == Claim("b", 2, {2}, {13}, <<>>, {})
Both == Claim("d", 1, {1, 2}, {17}, <<>>, {})
RuleStated(hash) == [id |-> "r1", status |-> "PASS", hash |-> hash]
Computed == [Claim("e", 0, {1}, {17}, <<7, 300>>, {}) EXCEPT
                !.calculations = {"c1"}, !.rules = {RuleStated("result")},
                !.relations = {[left |-> 7, says |-> "<=", right |-> 300]}]
Untrue == [Computed EXCEPT !.relations = {[left |-> 7, says |-> ">", right |-> 300]}]
Misnumbered == [Computed EXCEPT !.numbers = <<7>>]
OtherResult == [Computed EXCEPT !.rules = {RuleStated("other")}]
MCDrafts ==
    {Draft({}, {}, {}, FALSE), Draft({About1}, {17}, {}, FALSE),
     Draft({About1}, {17}, {1}, FALSE), Draft({Plain1}, {17}, {0}, TRUE),
     Draft({Plain1, About2}, {13, 17}, {}, FALSE), Draft({About2}, {13}, {1}, FALSE),
     Draft({Both}, {17}, {}, FALSE), Draft({Computed}, {17}, {}, FALSE),
     Draft({Computed, About2}, {13, 17}, {}, FALSE)}
    \cup {Draft({c}, {17}, {}, FALSE) : c \in {Untrue, Misnumbered, OtherResult}}
MCNumbers == [e \in MCElements |-> IF e \in {12, 17} THEN {250} ELSE {}]

MCSent ==
    {Confirmation(e1, "ACCEPTED", r1, 1, NoValue, NoValue),
     Confirmation(e1, "REJECTED", r2, 1, NoValue, NoValue),
     Confirmation(e1, "EDITED", r1, 2, v2, NoValue),
     Confirmation(e1, "EDITED", r2, 2, NoValue, "g"),
     Confirmation(m1, "CREATED", r1, 1, v2, "g")}

MCSymmetry == Permutations(Builders) \cup Permutations(Directories)

VARIABLE focus
MCInit ==
    /\ focus \in {"question", "commands", "drawing", "release"}
    /\ RetrievalInit /\ AssessmentInit /\ DrawingInit /\ ReleaseInit /\ Init
    /\ focus # "question" => plan = OneIssue
    /\ focus # "release" => source.evidence = d1 /\ source.rules = g
Ends == phase \in {"refused", "done"} /\ UNCHANGED pipelineVars
MCNext ==
    /\ UNCHANGED focus
    /\ \/ /\ focus = "question" /\ (PipelineNext \/ Ends)
          /\ UNCHANGED <<vars, drawingVars, releaseVars>>
       \/ /\ focus = "commands" /\ Next
          /\ op'[q1].path = "external" => op'[q1].doc # x2
          /\ UNCHANGED <<pipelineVars, drawingVars, releaseVars>>
       \/ focus = "drawing" /\ DrawingNext /\ UNCHANGED <<pipelineVars, vars, releaseVars>>
       \/ /\ focus = "release" /\ ReleaseNext /\ edits' + crashes' <= 1
          /\ UNCHANGED <<pipelineVars, vars, drawingVars>>
MCSpec == MCInit /\ [][MCNext]_<<focus, pipelineVars, vars, drawingVars, releaseVars>>
===============================================================================

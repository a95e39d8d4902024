-------------------------- MODULE MCRuleGovernance --------------------------
\* The governance of two rules, and the evaluation of a rule over inputs and
\* calculations, on small instances.  A behaviour is about one of the two.
EXTENDS RuleGovernance, RuleEvaluation

CONSTANTS sound, flawed, x1, ok, ko, everywhere

VARIABLE focus

\* The outcome of each body; two rules with identifiers of their own.
OwnId == [r \in Rules |-> r]
BodyOutcome == [b \in Bodies |-> [x \in Fixtures |-> IF b = sound THEN ok ELSE ko]]

\* A scope of two dimensions; a context that leaves one of them open, and one that
\* does not.
Dimensions == {"document_family", "document_kind"}
Wide == [d \in Dimensions |-> IF d = "document_family" THEN everywhere ELSE NoValue]
Narrow == [d \in Dimensions |-> everywhere]
ScopeSet == {Narrow}
ContextSet == {Wide, Narrow}

\* The sound body with its outcome and the flawed one with its own can be exchanged.
Exchange == sound :> flawed @@ flawed :> sound @@ ok :> ko @@ ko :> ok
Symmetry == Permutations(Rules) \cup Permutations(Activators) \cup {Exchange}

----------------------------------------------------------------------------
\* Numbers are multiples of 1/1000, quotients of 1/100, displayed ones of 1/10.
Request(registry, formula, given) == [registry |-> registry, formula |-> formula, inputs |-> given]
Frontage(a, b, t) ==
    Request("default", "FRONTAGE_RATIO", [frontage |-> a, perimeter |-> b, threshold |-> t])

\* A ratio that meets the threshold, one below it, and one that meets it when
\* rounded; a threshold finer than the precision; a zero together with a negative
\* number, an infinite one, a ratio that is too large, the wrong registry, and a
\* drawing formula.
Hit == Frontage(1000, 4000, 250)
Short == Frontage(1000, 4100, 250)
RequestSet ==
    {Hit, Short, Frontage(1000, 3999, 250), Frontage(1000, 3999, 251), Frontage(-1, 0, 250),
     Frontage(Infinite, 4000, 250), Frontage(90000, 1000, 250), [Hit EXCEPT !.registry = "drawing"],
     Request("drawing", "DRAWING_SCALE", [real |-> 1000, pixels |-> 10])}
Id(request) == [formula |-> request.formula, inputs |-> request.inputs]

\* The texts "250" and "300" are decimals; "25" is a part of the first.
TextSet == {"300"}
DecimalSet == "250" :> 250 @@ "300" :> 300
TextOrder == {<<"250", "300">>, <<"25", "250">>, <<"25", "300">>}
TextParts == {<<"25", "250">>, <<"%", "300%">>} \cup {<<t, t>> : t \in {"25", "250", "300"}}

One == Number("integer", 1)
Two == Number("integer", 2)
Yes == Number("boolean", 1)
Ones == Array(<<One>>)
GivenSet == {One, Two, Null, Text("300")}
InputSchema ==
    [floors |-> [type |-> "integer", required |-> TRUE],
     area |-> [type |-> "decimal", required |-> FALSE]]

AllOf(of) == [is |-> "all", of |-> of]
AnyOf(of) == [is |-> "any", of |-> of]
Not(child) == [is |-> "not", child |-> child]
Exists(name) == [is |-> "exists", input |-> name]
Compare(operator, a, b) == [is |-> "compare", operator |-> operator, left |-> a, right |-> b]
Input(name) == [is |-> "input", input |-> name]
Literal(value) == [is |-> "literal", literal |-> value]
Calculated(request, field, operator, value) ==
    [is |-> "calculation", calculation |-> Id(request), field |-> field,
     operator |-> operator, literal |-> value]

AtLeastTwo == Compare("gte", Input("floors"), Literal(Two))
Large == Compare("lt", Literal(Text("250")), Input("area"))
Reached == Calculated(Hit, "comparison", "in",
                      Array(<<Text("AT_THRESHOLD"), Text("ABOVE_THRESHOLD")>>))
Below == Calculated(Short, "comparison", "eq", Text("BELOW_THRESHOLD"))
Ratios == Calculated(Hit, "raw_result", "gt", Text("25"))
Mistyped == Calculated(Hit, "raw_result", "gte", One)
Escaping == Calculated(Hit, "display_result", "contains", One)
ExpressionSet ==
    {AllOf(<<AtLeastTwo, Reached>>), AnyOf(<<Reached, Below>>), Not(AnyOf(<<Exists("area"), Below>>)),
     AnyOf(<<Not(Exists("area")), Large>>), AllOf(<<AnyOf(<<Below, Reached>>), Large>>),
     AnyOf(<<AtLeastTwo, Compare("in", Input("floors"), Literal(Ones)), Mistyped>>),
     AnyOf(<<Not(Ratios), Compare("ne", Input("floors"), Literal(One)), Below>>),
     AnyOf(<<Large, Calculated(Hit, "display_result", "contains", Text("%")), Escaping>>),
     AllOf(<<Compare("in", Literal(Yes), Literal(Ones)), Compare("lte", Literal(Yes), Literal(Yes))>>)}

\* An expression with all that it is made of, and how deep it is nested.
RECURSIVE PartsOf(_), DepthOf(_)
PartsOf(e) == {e} \cup UNION {PartsOf(c) : c \in Children(e)}
DepthOf(e) == IF Children(e) = {} THEN 0 ELSE 1 + Max({DepthOf(c) : c \in Children(e)})
NodeSet == UNION {PartsOf(e) : e \in ExpressionSet}
NodeDepth == [n \in NodeSet |-> DepthOf(n)]

----------------------------------------------------------------------------
\* Two activations run at once, or one beside a load.
Running == {p \in Activators \cup Loaders : op[p].pc # "idle"}

MCInit ==
    /\ focus \in {"governance", "evaluation"}
    /\ Init /\ EvaluationInit
    /\ \A r, s \in Rules : expected[r] = expected[s]
    /\ IF focus = "evaluation"
       THEN \A r \in Rules : candidate[r] = sound /\ expected[r] = ok
       ELSE expression = (CHOOSE e \in Expressions : TRUE) /\ expectedManifest = "none"

MCNext ==
    /\ UNCHANGED focus
    /\ IF focus = "evaluation" THEN EvaluationNext /\ UNCHANGED vars
       ELSE Next /\ UNCHANGED evaluationVars
    /\ Cardinality(Running') <= 2

MCSpec == MCInit /\ [][MCNext]_<<vars, evaluationVars, focus>>
=============================================================================

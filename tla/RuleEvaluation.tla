---------------------------- MODULE RuleEvaluation ----------------------------
(***************************************************************************)
(* The evaluation of a rule over inputs and calculations                   *)
(* (rule_engine/evaluator.py, operators.py), as the golden runs of a rule  *)
(* call it.  The verdict is a function of what the case holds so far       *)
(* (MathEngine).                                                           *)
(***************************************************************************)
EXTENDS MathEngine, SequencesExt

CONSTANTS
    Nodes,       \* the rule expressions and the expressions in them
    Depth,       \* how deep an expression is nested
    Decimals,    \* the number each text that is a finite decimal stands for
    TextBefore,  \* <<s, t>>: s comes before t in the order of texts
    TextWithin,  \* <<s, t>>: s is a part of t
    Texts        \* texts that a result may hold

----------------------------------------------------------------------------
(* The expression of a rule: all, any and not of expressions, comparisons  *)
(* of inputs and literals, existence of an input, and a field of a         *)
(* calculation compared with a literal.                                    *)

Operators == {"eq", "ne", "gt", "gte", "lt", "lte", "in", "contains"}
Fields == {"status", "raw_result", "display_result", "comparison"}

Junctions == {n \in Nodes : n.is \in {"all", "any"}}

Children(n) ==
    CASE n.is \in {"all", "any"} -> {n.of[i] : i \in 1 .. Len(n.of)}
      [] n.is = "not" -> {n.child}
      [] OTHER -> {}

\* What load_rule accepts; a document is finite, so its nesting ends.
ASSUME ExpressionAssumption ==
    /\ Expressions \subseteq Nodes /\ Depth \in [Nodes -> Nat]
    /\ \A n \in Nodes :
          /\ n.is \in {"all", "any", "not", "exists", "calculation", "compare"}
          /\ n.is \in {"calculation", "compare"} => n.operator \in Operators
          /\ n.is = "calculation" => n.field \in Fields
          /\ Children(n) \subseteq Nodes /\ \A c \in Children(n) : Depth[c] < Depth[n]
    /\ \A n \in Junctions : n.of # <<>> /\ n.of \in Seq(Nodes)

\* An expression and all that it is made of.
Parts[n \in Nodes] == {n} \cup UNION {Parts[c] : c \in Children(n)}

InputNames(e) ==
    {n.input : n \in {p \in Parts[e] : p.is = "exists"}}
    \cup UNION {{side.input : side \in {s \in {n.left, n.right} : s.is = "input"}} :
                    n \in {p \in Parts[e] : p.is = "compare"}}

CalculationNames(e) == {n.calculation : n \in {p \in Parts[e] : p.is = "calculation"}}

\* JSON values: null, numbers (a boolean is the number 0 or 1 to Python), texts and
\* arrays of scalars.  A decimal is only made from a text.
Null == [type |-> "null"]
Number(type, value) == [type |-> type, value |-> value]
Text(text) == [type |-> "string", text |-> text]
Array(elements) == [type |-> "array", elements |-> elements]

\* decode_input and decode_literal: the value has the declared type, without
\* coercion, or it is unusable (RuleInputError).
Unusable == [type |-> "unusable"]
Decoded(value, type) ==
    CASE type = "any" -> value
      [] type = "decimal" ->
            IF value.type = "string" /\ value.text \in DOMAIN Decimals
            THEN Number("decimal", Decimals[value.text]) ELSE Unusable
      [] OTHER -> IF value.type = type THEN value ELSE Unusable
TypeOf(side) == IF side.is = "input" THEN Schema[side.input].type ELSE "any"

\* A literal takes the type of the input it is compared with.
Operand(side, other, given) ==
    IF side.is = "input"
    THEN Decoded(given[side.input], TypeOf(side))
    ELSE Decoded(side.literal, TypeOf(other))

Numeric(v) == v.type \in {"integer", "decimal", "boolean"}

\* Python's == of two values: 1, Decimal(1) and True are equal.
SameScalar(a, b) == IF Numeric(a) /\ Numeric(b) THEN a.value = b.value ELSE a = b
Same(a, b) ==
    IF a.type = "array" /\ b.type = "array"
    THEN /\ Len(a.elements) = Len(b.elements)
         /\ \A i \in 1 .. Len(a.elements) : SameScalar(a.elements[i], b.elements[i])
    ELSE SameScalar(a, b)

\* Python's < of two numbers or two texts.
Before(a, b) == IF Numeric(a) THEN a.value < b.value ELSE <<a.text, b.text>> \in TextBefore

\* Python's in of two texts.
PartOf(a, b) == <<a.text, b.text>> \in TextWithin

\* What an operator gives is a set of truths: one, none for a RuleInputError, both
\* for the TypeError of Python, which evaluate_rule does not catch.
Invalid == {}
Escaped == BOOLEAN

Equals(a, b) == a.type = b.type /\ Same(a, b)
Ordered(a, b) == a.type = b.type /\ (Numeric(a) \/ a.type = "string")

Within(part, whole) ==
    CASE whole.type = "array" ->
            {\E i \in 1 .. Len(whole.elements) : SameScalar(part, whole.elements[i])}
      [] whole.type = "string" ->
            IF part.type = "string" THEN {PartOf(part, whole)} ELSE Escaped
      [] OTHER -> Invalid

\* apply_operator.
Applied(operator, a, b) ==
    CASE operator = "eq" -> {Equals(a, b)}
      [] operator = "ne" -> {~Equals(a, b)}
      [] operator = "in" -> Within(a, b)
      [] operator = "contains" -> Within(b, a)
      [] OTHER ->
            IF ~Ordered(a, b) THEN Invalid
            ELSE CASE operator = "gt" -> {Before(b, a)}
                   [] operator = "gte" -> {~Before(a, b)}
                   [] operator = "lt" -> {Before(a, b)}
                   [] operator = "lte" -> {~Before(b, a)}

\* What a node gives: its truth and the calculations it has looked at.
Outcome(truth, looked) == [truth |-> truth, looked |-> looked]

\* all and any look at their children in order and stop at the first one that
\* decides (or fails).
Stops(values, decides) == {i \in 1 .. Len(values) : values[i].truth # {~decides}}
Deciding(values, decides) ==
    IF Stops(values, decides) = {} THEN Len(values)
    ELSE CHOOSE i \in Stops(values, decides) : \A j \in Stops(values, decides) : i <= j

\* A plausible bug: only the calculations of the last child are reported.
MutJunction(values, decides) ==
    Outcome(values[Deciding(values, decides)].truth, values[Deciding(values, decides)].looked)
Junction(values, decides) ==
    Outcome(values[Deciding(values, decides)].truth,
            UNION {values[i].looked : i \in 1 .. Deciding(values, decides)})

\* The conditions of every all and any as they are written, or from the last to
\* the first.
Written == [n \in Junctions |-> n.of]
Backward == [n \in Junctions |-> Reverse(n.of)]

\* A field of a result.
Field(c, name) == IF c[name] = NoText THEN Null ELSE Text(c[name])

\* _evaluate_node, of every expression, with the conditions in a given order.
EvaluateNode(order, given, compared) ==
    LET at[n \in Nodes] ==
          CASE n.is \in {"all", "any"} ->
                  Junction([i \in 1 .. Len(order[n]) |-> at[order[n][i]]], n.is = "any")
            [] n.is = "not" -> Outcome({~t : t \in at[n.child].truth}, at[n.child].looked)
            [] n.is = "exists" -> Outcome({given[n.input].type # "null"}, {})
            [] n.is = "calculation" ->
                  Outcome(Applied(n.operator, Field(compared[n.calculation], n.field), n.literal),
                          {n.calculation})
            [] n.is = "compare" ->
                  LET left == Operand(n.left, n.right, given)
                      right == Operand(n.right, n.left, given)
                  IN  Outcome(IF "unusable" \in {left.type, right.type} THEN Invalid
                              ELSE Applied(n.operator, left, right), {})
    IN  at

----------------------------------------------------------------------------
(* evaluate_rule.                                                          *)

Missing(e) ==
    {n \in DOMAIN Schema : n \in InputNames(e) \/ Schema[n].required} \ DOMAIN inputs

Ambiguous == \E c, d \in calculations : c # d /\ c.id = d.id
Usable(name) == \E c \in calculations : c.id = name /\ Valid(c)

\* Every calculation, by its name.
Compared == [n \in {c.id : c \in calculations} |-> CHOOSE c \in calculations : c.id = n]

Verdict(status, looked) == [status |-> status, looked |-> looked]

EvaluateRule(e, order) ==
    LET outcome == EvaluateNode(order, inputs, Compared)[e]
    IN  IF ~resolved THEN Verdict("ENGINE_ERROR", {})
        ELSE IF Missing(e) # {} THEN Verdict("INDETERMINATE", {})
        ELSE IF Ambiguous \/ \E n \in CalculationNames(e) : ~Usable(n)
             THEN Verdict("ENGINE_ERROR", {})
        ELSE IF outcome.truth = Invalid THEN Verdict("ENGINE_ERROR", {})
        ELSE IF outcome.truth = Escaped THEN Verdict("RAISED", {})
        ELSE Verdict(IF outcome.truth = {TRUE} THEN "SATISFIED" ELSE "NOT_SATISFIED",
                     outcome.looked)

----------------------------------------------------------------------------
(* Properties.                                                             *)

Definite(v) == v.status \in {"SATISFIED", "NOT_SATISFIED"}

\* What a result may say.
Said == [status : {"SUCCESS"}, raw_result : Texts, display_result : Texts,
         comparison : {"BELOW_THRESHOLD", "AT_THRESHOLD", "ABOVE_THRESHOLD"}]

\* The calculations, if some said something else.
Altered(rest) ==
    [n \in DOMAIN Compared |-> IF n \in DOMAIN rest THEN rest[n] ELSE Compared[n]]

\* Although evaluation stops early, a definite verdict does not depend on the
\* order in which its conditions are written (the other order gives the same
\* verdict, or fails on a value this one never looked at), and the calculations
\* it names are all it depends on: a reader accepts each of them, and whatever any
\* other one had said, the verdict would be the same.
VerdictIsTraced ==
    LET verdict == EvaluateRule(expression, Written)
        other == EvaluateRule(expression, Backward)
    IN  Definite(verdict) =>
          /\ Definite(other) => other.status = verdict.status
          /\ \A name \in verdict.looked : Usable(name)
          /\ \A rest \in [DOMAIN Compared \ verdict.looked -> Said] :
               EvaluateNode(Written, inputs, Altered(rest))[expression].truth
                 = {verdict.status = "SATISFIED"}
================================================================================

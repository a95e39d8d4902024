------------------------------- MODULE MathEngine -------------------------------
(***************************************************************************)
(* The Math Engine (math_engine) and a golden case of a rule               *)
(* (rule_engine/golden.py): the formula manifest the case expects, the     *)
(* inputs of the rule, which may have any JSON type, and the calculations, *)
(* which may come from another registry of formulas or may have been       *)
(* altered since they were made.                                           *)
(***************************************************************************)
EXTENDS Integers, FiniteSets, Sequences, TLC

CONSTANTS
    Expressions,   \* the expressions of the rules
    Schema,        \* the declared type of every input, and whether it is required
    GivenValues,   \* the JSON values an input may be given
    Requests,      \* the calculations that may be asked for
    Unit,          \* Decimal numbers are multiples of 1/Unit
    Digits,        \* 1/Digits is the precision of a quotient, coarser than 1/Unit
    Percent,       \* 1/Percent is that of its display
    MaxRatio,      \* a ratio from which quantize fails (1e23 in the code)
    MaxDecimal,    \* a number from which Decimal overflows
    NotDecimal, Infinite,   \* texts that are no finite number
    MaxCalculations \* bound on the calculations given

ASSUME EvaluationAssumption ==
    /\ Unit \in Nat \ {0} /\ Digits \in 1 .. Unit /\ Unit % Digits = 0
    /\ Percent \in 1 .. Digits /\ MaxCalculations \in Nat
    /\ \A r \in Requests : \A n \in DOMAIN r.inputs :
          r.inputs[n] \in {NotDecimal, Infinite} \/ r.inputs[n] \in Int

VARIABLES
    expression,    \* of the rule
    expectedManifest, \* the registry whose formula_manifest_hash the case expects
    resolved,      \* the evidence of the rule's citations is there unchanged
    inputs,        \* the inputs given so far
    calculations   \* the calculations given so far

evaluationVars == <<expression, expectedManifest, resolved, inputs, calculations>>

----------------------------------------------------------------------------
(* The Math Engine.  A request is a registry, a formula and its inputs;    *)
(* the registry is not part of the name of the result.  A number is an     *)
(* integer, in units.                                                      *)

\* DEFAULT_REGISTRY and DRAWING_REGISTRY.
Formulas == [default |-> {"FRONTAGE_RATIO"}, drawing |-> {"DRAWING_SCALE", "DRAWING_LENGTH"}]

Needs ==
    [FRONTAGE_RATIO |-> {"frontage", "perimeter", "threshold"},
     DRAWING_SCALE |-> {"real", "pixels"},
     DRAWING_LENGTH |-> {"pixels", "scale"}]

OutOfRange(request) ==
    LET x == request.inputs
    IN  \/ request.formula = "FRONTAGE_RATIO" /\ \E n \in Needs.FRONTAGE_RATIO : x[n] < 0
        \/ request.formula = "DRAWING_SCALE" /\ \E n \in Needs.DRAWING_SCALE : x[n] <= 0
        \/ request.formula = "DRAWING_LENGTH" /\ (x["pixels"] < 0 \/ x["scale"] <= 0)

\* A quotient rounded half up to a precision of 1/p, in units.  (The code keeps 28
\* significant digits, so 1/p is the precision of quotients of one size.)
Quotient(a, b, p) == ((2 * a * p + b) \div (2 * b)) * (Unit \div p)

\* A plausible bug: the number that is displayed is compared.
MutRatio(request) == Quotient(request.inputs["frontage"], request.inputs["perimeter"], Percent)
Ratio(request) == Quotient(request.inputs["frontage"], request.inputs["perimeter"], Digits)

RawResult(request) ==
    LET x == request.inputs
    IN  CASE request.formula = "FRONTAGE_RATIO" -> Ratio(request)
          [] request.formula = "DRAWING_SCALE" -> Quotient(x["real"], x["pixels"], Digits)
          [] OTHER -> Quotient(x["pixels"] * x["scale"], Unit, Unit)

\* Decimal raises an error, which run_calculation_request turns into a result.
TooLarge(request) ==
    RawResult(request) >= IF request.formula = "FRONTAGE_RATIO" THEN MaxRatio ELSE MaxDecimal

\* The checks of a formula, in their order; a zero divisor comes before a
\* negative value.
CalculationStatus(request) ==
    LET x == request.inputs
        numbers == {x[n] : n \in Needs[request.formula]}
    IN  IF request.formula \notin Formulas[request.registry] THEN "FORMULA_NOT_FOUND"
        ELSE IF ~(Needs[request.formula] \subseteq DOMAIN x) THEN "INVALID_INPUT"
        ELSE IF numbers \cap {NotDecimal, Infinite} # {} THEN "INVALID_INPUT"
        ELSE IF request.formula = "FRONTAGE_RATIO" /\ x["perimeter"] = 0
             THEN "DIVISION_BY_ZERO"
        ELSE IF OutOfRange(request) THEN "INVALID_INPUT"
        ELSE IF TooLarge(request) THEN "ENGINE_ERROR"
        ELSE "SUCCESS"

\* The drawing formulas compare nothing.
Comparison(request) ==
    IF request.formula # "FRONTAGE_RATIO" THEN "NOT_APPLICABLE"
    ELSE IF Ratio(request) < request.inputs["threshold"] THEN "BELOW_THRESHOLD"
    ELSE IF Ratio(request) > request.inputs["threshold"] THEN "ABOVE_THRESHOLD"
    ELSE "AT_THRESHOLD"

\* The texts of the results; an error has none, and compares nothing.
NoText == "none"
RawText(request) == ToString(RawResult(request))

\* The percentage of a ratio is shown with fewer digits than the ratio has.
DisplayText(request) ==
    IF request.formula # "FRONTAGE_RATIO" THEN RawText(request)
    ELSE ToString(Quotient(Ratio(request), Unit, Percent)) \o "%"

\* run_calculation_request: the result, with the manifest of its registry, and with
\* its hash.  A file does not say that it is falsified.
RunCalculation(request) ==
    LET status == CalculationStatus(request)
        success == status = "SUCCESS"
    IN  [id |-> [formula |-> request.formula, inputs |-> request.inputs],
         status |-> status, manifest |-> request.registry,
         raw_result |-> IF success THEN RawText(request) ELSE NoText,
         display_result |-> IF success THEN DisplayText(request) ELSE NoText,
         comparison |-> IF success THEN Comparison(request) ELSE NoText,
         hashed |-> TRUE, falsified |-> FALSE]

\* _valid_calculation: what a reader of a result verifies.
Valid(c) == c.status = "SUCCESS" /\ c.manifest = expectedManifest /\ c.hashed

----------------------------------------------------------------------------

\* A case that expects no manifest accepts no calculation.
Manifests == DOMAIN Formulas \cup {"none"}

EvaluationInit ==
    /\ expression \in Expressions
    /\ expectedManifest \in Manifests
    /\ resolved = TRUE
    /\ inputs = <<>>
    /\ calculations = {}

\* An input of the case is given a value.
Give(name, value) ==
    /\ name \notin DOMAIN inputs
    /\ inputs' = [n \in DOMAIN inputs \cup {name} |-> IF n = name THEN value ELSE inputs[n]]
    /\ UNCHANGED <<expression, expectedManifest, resolved, calculations>>

Calculate(request) ==
    /\ Cardinality(calculations) < MaxCalculations
    /\ calculations' = calculations \cup {RunCalculation(request)}
    /\ UNCHANGED <<expression, expectedManifest, resolved, inputs>>

\* Somebody writes another success into a result, with the hash it had or with that
\* of the new content (the hash has no key); it may stand beside the original.
Alter(c) ==
    /\ ~c.falsified
    /\ \E rehashed \in BOOLEAN :
          LET d == [c EXCEPT !.status = "SUCCESS", !.comparison = "ABOVE_THRESHOLD",
                             !.hashed = rehashed, !.falsified = TRUE]
          IN  \/ calculations' = (calculations \ {c}) \cup {d}
              \/ /\ Cardinality(calculations) < MaxCalculations
                 /\ calculations' = calculations \cup {d}
    /\ UNCHANGED <<expression, expectedManifest, resolved, inputs>>

\* The evidence a citation of the rule names is no longer what it was.
Unresolve ==
    /\ resolved /\ resolved' = FALSE
    /\ UNCHANGED <<expression, expectedManifest, inputs, calculations>>

\* Every golden case brings its own manifest, inputs, calculations and evidence.
NextCase ==
    /\ expectedManifest' \in Manifests
    /\ inputs' = <<>> /\ calculations' = {} /\ resolved' = TRUE
    /\ UNCHANGED expression

EvaluationNext ==
    \/ \E name \in DOMAIN Schema, value \in GivenValues : Give(name, value)
    \/ \E request \in Requests : Calculate(request)
    \/ \E c \in calculations : Alter(c)
    \/ Unresolve
    \/ NextCase

EvaluationSpec == EvaluationInit /\ [][EvaluationNext]_evaluationVars

----------------------------------------------------------------------------
(* Properties.                                                             *)

\* A rounded quotient never ends up on the wrong side of a threshold that the
\* precision can express: it is reported below (above) only if the exact ratio
\* is, and an exact hit is reported as one.  (A finer threshold can be reported
\* on the wrong side, and a result that somebody falsified and hashed again says
\* what they wrote.)
ComparisonIsRight ==
    \A c \in calculations :
        (/\ Valid(c) /\ ~c.falsified /\ c.id.formula = "FRONTAGE_RATIO"
         /\ c.id.inputs["threshold"] % (Unit \div Digits) = 0) =>
            LET exact == c.id.inputs["frontage"] * Unit
                limit == c.id.inputs["threshold"] * c.id.inputs["perimeter"]
            IN  /\ c.comparison = "BELOW_THRESHOLD" => exact < limit
                /\ c.comparison = "ABOVE_THRESHOLD" => exact > limit
                /\ exact = limit => c.comparison = "AT_THRESHOLD"
================================================================================

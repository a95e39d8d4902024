SPECIFICATION MCSpec
CONSTANTS
    sound = sound
    flawed = flawed
    x1 = x1
    ok = ok
    ko = ko
    everywhere = everywhere
    Rules = {r1, r2}
    RuleId <- OwnId
    Bodies = {sound, flawed}
    Fixtures = {x1}
    Results = {ok, ko}
    Evaluate <- BodyOutcome
    Scopes <- ScopeSet
    Contexts <- ContextSet
    Dims <- Dimensions
    NoValue = NoValue
    Runners = {g1}
    Activators = {a1, a2}
    Loaders = {l1}
    None = None
    MaxEdits = 1
    Expressions <- ExpressionSet
    Nodes <- NodeSet
    Depth <- NodeDepth
    Schema <- InputSchema
    GivenValues <- GivenSet
    Requests <- RequestSet
    Unit = 1000
    Digits = 100
    Percent = 10
    MaxRatio = 90000
    MaxDecimal = 100000000
    Decimals <- DecimalSet
    TextBefore <- TextOrder
    TextWithin <- TextParts
    Texts <- TextSet
    NotDecimal = NotDecimal
    Infinite = Infinite
    MaxCalculations = 2
SYMMETRY Symmetry
INVARIANT LoadedRuleProved
INVARIANT VerdictIsTraced
INVARIANT ComparisonIsRight
PROPERTY ActiveSetIsWhole

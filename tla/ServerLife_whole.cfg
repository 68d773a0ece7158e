SPECIFICATION Spec
CONSTANTS
    Names <- MCNames
    All = "all"
    Terms <- MCTerms
    Texts <- MCTexts
    Empty = ""
    Keys = {"k1", "k2"}
    Malformed = Malformed
    Trim <- MCTrim
    Fold <- MCFold
    Within <- MCWithin
    Unreadable = Unreadable
    NoTable = NoTable
    None = None
    Fragments <- MCFragments
    Spaces = {" "}
    Blank = " "
    Star = "*"
    Unsafe = {"*"}
    Lower <- MCLower
    Shutdown = "shutdown"
    Clear = "clear"
    Unusable = Unusable
    Worlds <- MCWorlds
    Options <- MCOptions
    Queries <- MCQueries
    Limits <- MCLimits
    Callers <- MCCallers
INVARIANTS
    TypeOK
    ReadyMeansStarts
    ReadyMeansUsable
    RunsOnlyAsConfigured
    GateIsTight
    ShownNamesRun
    EachTargetOnce
    SearchAgreesWithTargets
    AmbiguityIsNeverHidden

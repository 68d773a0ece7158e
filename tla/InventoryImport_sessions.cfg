SPECIFICATION Spec
CONSTANTS
    a = a
    b = b
    Operators = {op1, op2}
    Names = {a, b}
    Groupings <- AnyGroups
    Initial <- MCInitial
    Missing = Missing
    Broken = Broken
    Malformed = Malformed
    Partial = Partial
    None = None
SYMMETRY Symmetry
INVARIANTS
    TypeOK
    SavedFileLoads
    LastMessageIsTrue
PROPERTIES
    FileIsReplacedWhole
    ReplacedContentIsKept
    VerifiedMeansStored

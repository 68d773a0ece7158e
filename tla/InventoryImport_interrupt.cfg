SPECIFICATION Spec
CONSTANTS
    a = a
    b = b
    Operators = {op1}
    Names = {a, b}
    Groupings <- AnyGroups
    Initial <- MCInitial
    Missing = Missing
    Broken = Broken
    Malformed = Malformed
    Partial = Partial
    None = None
INVARIANTS
    InterruptedMeansUnchanged

SPECIFICATION FairSpec
CONSTANTS
    r1 = r1
    r2 = r2
    Fragments <- MCFragments
    Spaces <- MCSpaces
    Blank = " "
    Star = "*"
    Unsafe <- MCUnsafe
    Lower <- MCLower
    Shutdown = "shutdown"
    Clear = "clear"
    Devices = {r1, r2}
    Commands <- MCCommands
    Policies <- MCPolicies
    Batches <- MCBatches
    Inventories <- MCInventories
    Unreadable = Unreadable
    None = None
INVARIANTS
    TypeOK
    WholeBatchJudgedFirst
    SuccessMeansApplied
    OnlyWholeBatchIsKept
    FailureStateIsTrue
    VerdictsMeanWhatIsWritten
    BaselineNeverReachesDevice
PROPERTIES
    KeepsThePromise
    EveryCallEnds

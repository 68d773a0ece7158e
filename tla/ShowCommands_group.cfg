SPECIFICATION Spec
CONSTANTS
    r1 = r1
    r2 = r2
    error = error
    core = core
    h1 = h1
    h2 = h2
    show = show
    reload = reload
    Devices = {r1, r2, error}
    Groups = {core}
    Hosts = {h1, h2}
    All = All
    ErrorName = error
    Commands = {show, reload}
    Permitted = {show}
    Calls <- MCCalls
    Inventories <- MCInventories
    Unreadable = Unreadable
    MaxWorkers = 2
    None = None
INVARIANTS
    TypeOK
    AuditedBeforeContact
    AtMostOnce
    OneInventoryVersion
    AnswerMatchesLog
    TrueExecutionState
    PartialFailureKeepsOutput
PROPERTIES
    QuietAfterAnswer
    KeepsThePromise

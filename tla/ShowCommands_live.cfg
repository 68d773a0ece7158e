SPECIFICATION FairSpec
CONSTANTS
    r1 = r1
    r2 = r2
    error = error
    core = core
    h1 = h1
    h2 = h2
    show = show
    reload = reload
    Devices = {r1, error}
    Groups = {core}
    Hosts = {h1, h2}
    All = All
    ErrorName = error
    Commands = {show, reload}
    Permitted = {show}
    Calls <- MCCalls
    Inventories <- MCInventories
    Unreadable = Unreadable
    MaxWorkers = 1
    None = None
PROPERTIES
    EveryCallEnds

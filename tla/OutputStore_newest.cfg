SPECIFICATION Spec
CONSTANTS
    Savers = {s1}
    Clients = {c1}
    Commands = {1, 2}
    MaxTime = 1
    Randoms = {1}
    MaxLines = 1
    MaxFiles = 2
    Limits = {1}
    None = None

INVARIANTS
    NewestFirst

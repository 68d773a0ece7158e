SPECIFICATION Spec
CONSTANTS
    Savers = {s1, s2}
    Clients = {c1}
    Commands = {1}
    MaxTime = 1
    Randoms = {1, 2}
    MaxLines = 3
    MaxFiles = 2
    Limits = {1, 2}
    None = None
SYMMETRY Symmetry
INVARIANTS
    TypeOK
    OneWriterPerFile
    SavedStaysWhole
    PagesGiveEveryLineOnce

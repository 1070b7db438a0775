SPECIFICATION Spec
CONSTANTS
    s1 = s1  s2 = s2
    Socket = {s1, s2}
    BatchMax = 2
    MaxLog = 2
    MaxFaults = 3
SYMMETRY MCSymmetry
INVARIANTS TypeOK CommitCoversPublished RegisteredMissNothing
CHECK_DEADLOCK FALSE

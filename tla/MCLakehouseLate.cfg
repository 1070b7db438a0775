SPECIFICATION Spec
CONSTANTS
    e1 = e1  e2 = e2  r1 = r1  r2 = r2
    Event = {e1, e2}
    Sound = {e1}
    Run = {r1}
    Overlap = 3
    MaxLag = 4
    MaxExport = 0
    MaxTime = 5
INVARIANT NothingBehindWatermark

SPECIFICATION Spec
CONSTANTS
    e1 = e1  e2 = e2  r1 = r1  r2 = r2
    Event = {e1, e2}
    Sound = {e1}
    Run = {r1, r2}
    Overlap = 3
    MaxLag = 1
    MaxExport = 1
    MaxTime = 4
SYMMETRY MCSymmetry
INVARIANTS TypeOK CopiesBounded NothingBehindWatermark ReportComplete
PROPERTIES ImplementsLedger

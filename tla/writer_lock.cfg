\* docs/ops/queueing-and-slo.md line 78: the writer lock prevents concurrent writes.
SPECIFICATION Spec
CONSTANTS
    r1 = r1  r2 = r2  r3 = r3
    Runs = {r1, r2}
    NoRun = NoRun
    v1 = v1  v2 = v2  Versions = {v1}
    Mixes <- AllTracked
    NumPages = 1
    NumSubch = 1
    NumSummary = 1
    Budget <- OneLapse
CHECK_DEADLOCK FALSE
INVARIANT WriterExclusive

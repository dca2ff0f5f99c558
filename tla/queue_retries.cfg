\* Two submitters race, two workers retry; no command fails, nobody cancels.
SPECIFICATION Spec
CONSTANTS
    c1 = c1  c2 = c2  w1 = w1  w2 = w2
    j1 = j1  j2 = j2  j3 = j3  j4 = j4  f1 = f1  f2 = f2
    Clients = {c1, c2}
    Workers = {w1, w2}
    Jobs = {j1, j2, j3, j4}
    Fingerprints = {f1}
    NoJob = NoJob
    RejectAt = 2
    MaxLen = 3
    MaxRetries = 1
    BatchSize = 2
    Budget <- Quiet
SYMMETRY Symmetry
INVARIANTS TypeOK SingleExecution AttemptsBounded AcceptedIsBacked
           AdmissionBound NoUndeliveredTrimmed
PROPERTIES LifecycleSpec OverloadIsForever

\* Two runs for one document version and a third call of any kind, or two versions
\* beside a rebuild; two faults in one behaviour, of any two kinds or two errors.
\* Every call ends, so the system stops.
SPECIFICATION Spec
CONSTANTS
    r1 = r1  r2 = r2  r3 = r3
    Runs = {r1, r2, r3}
    NoRun = NoRun
    v1 = v1  v2 = v2  Versions = {v1, v2}
    Mixes <- Mixed
    NumPages = 1
    NumSubch = 1
    NumSummary = 2
    Budget <- TwoErrors
SYMMETRY Symmetry
CONSTRAINT TwoFaults
CHECK_DEADLOCK FALSE
INVARIANTS TypeOK OneWriterUnlessOverrun SucceededIsComplete LastWriterWins
           LockLeaksOnlyByFault OutcomeMatchesStatus
PROPERTY ReleaseKeepsOthersLock
PROPERTY LifecycleSpec

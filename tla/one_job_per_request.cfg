\* README.md line 73: equal submissions reuse the existing job.
SPECIFICATION Spec
CONSTANTS
    c1 = c1  c2 = c2  w1 = w1  w2 = w2
    j1 = j1  j2 = j2  j3 = j3  j4 = j4  f1 = f1  f2 = f2
    NoJob = NoJob
    Clients = {c1, c2}
    Workers = {w1}
    Jobs = {j1, j2, j3}
    Fingerprints = {f1}
    RejectAt = 2
    MaxLen = 4
    MaxRetries = 1
    BatchSize = 1
    Budget <- Quiet
INVARIANT OneLiveJobPerRequest

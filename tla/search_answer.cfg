\* One search over a three-node tree while an ingestion writes one page row.
\* An attempt ends with a result or an exception.
SPECIFICATION Spec
CONSTANTS
    ch1 = ch1  sec = sec  ch2 = ch2  p1 = p1  p2 = p2  p3 = p3
    Nodes = {ch1, sec, ch2}
    NodePath <- TreePath
    Pages = {p1, p2, p3}
    PagePaths <- TreePagePaths
    NoPath = NoPath
    Scores <- SomeScores
    TopScore = 1
    Requests <- SomeRequests
    Upserts = 1
SYMMETRY Symmetry
CHECK_DEADLOCK FALSE
INVARIANTS TypeOK CandidatesSound ScoreIsBest EarlyStopCostsNothing ResultIsBestApproved

SPECIFICATION Spec
CONSTANTS
    MaxFiles = 2
    MaxItems = 4
    Lengths <- ShortLengths
    Docs <- SmallDocs
    Pdfs <- SmallPdfs
    Stems = {"a", "b"}
    SafeMaxChars = 256
    ChapterPlans <- Plans
INVARIANTS
    TypeOK
    ChunksPartition
    ChunksFit
    PagesHoldBlocks
    SizeHeadingsStandOut
    AssetsOverwrittenByNamesakes
    SectionsMatchCoverage
    HeadingsOpenSections
\* A build ends.
CHECK_DEADLOCK FALSE

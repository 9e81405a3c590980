SPECIFICATION FairSpec
CONSTANTS
    Sender = s
    Receiver = r
    Deleters = {d}
    MaxRuns = 2
INVARIANTS
    ProcessingHasWorker
    CompletedIsSourced
PROPERTIES
    SourcesOutliveChunks
    MaterialSettles
CHECK_DEADLOCK FALSE

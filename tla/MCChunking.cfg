SPECIFICATION PayloadSpec
CONSTANTS
    Services <- MCServices
    TextLengths = {0, 1, 2, 3, 4, 5, 6, 7, 8, 9, 10, 11, 12, 13, 14, 15, 16}
    Documents <- MCDocuments
    BatchSize = 3
INVARIANTS
    ChunksAsDefined
    EmbeddingsAreTheirOwn
    EveryBlockSaved
    SavedIsWellCut

SPECIFICATION EditSpec
CONSTANTS
    Jobs = {j1, j2}
    NoJob = NoJob
    Prompts = {p}
    Stale = 1
    Deadline = 1
    Modes = {"job"}
SYMMETRY Symmetry
INVARIANTS
    ReviewedHasOutput

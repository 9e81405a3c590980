CHECK_DEADLOCK FALSE
SPECIFICATION Spec
CONSTANTS
    Corpora <- SmallCorpora
    NonExpanding = {"image_caption"}
    Window = 2
    TopK = 2
INVARIANTS
    PassageIsExact

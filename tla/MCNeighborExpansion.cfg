CHECK_DEADLOCK FALSE
SPECIFICATION Spec
CONSTANTS
    Corpora <- MCCorpora
    NonExpanding = {"image_caption"}
    Window = 1
    TopK = 3
INVARIANTS
    ClaimedOnce
    RankWins
    PassageIsExact
    QualifierFollowsClaim

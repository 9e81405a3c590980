SPECIFICATION FairSpec
CONSTANTS
    Files = {a, b}
    MaxMutations = 1
    EventsBeforeRender = FALSE
INVARIANTS
    TrayInvariant
    DoneIsHandedOver
    ListNeverRests
PROPERTIES
    OnlyDoneItemsExpire
    SuccessCloses
    ListCatchesUp
CHECK_DEADLOCK FALSE

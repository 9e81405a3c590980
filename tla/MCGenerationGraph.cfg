CHECK_DEADLOCK FALSE
SPECIFICATION EvalFairSpec
CONSTANTS
    Fields = {"headline", "cta"}
    NoField = "none"
    Limit <- MCLimit
    Texts <- MCTexts
    SenderIds = {"SENDER_SOURCE_1"}
    ReceiverIds = {"RECEIVER_SOURCE_1"}
    UnknownId = "SENDER_SOURCE_2"
    MaxRepairs = 2
    CtaLink = TRUE
    MaxGenerateAttempts = 2
    MaxJudgeAttempts = 3
    ExpectedFacts = TRUE
INVARIANTS
    BoundedWork
    VerdictIsCurrent
    TrimSettles
    ValidIsGrounded
    ScoresAreOfThisRun
    EvaluatorsAgree
PROPERTIES
    ExampleIsScored
    EveryStepCounts

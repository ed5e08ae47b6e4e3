\* Three events, pages of two, two incarnations of the process.
SPECIFICATION Spec
CONSTANTS
    Limit = 2
    HintWaitCounts = {2}
    Torn = Torn
    MaxEvents = 3
    MaxBoots = 2
INVARIANTS
    TypeOK
    NothingSkipped
    GracefulStop
    PaidAgainOnlyAfterCrash
    PaidGuessAnsweredRight
    SecretUnderKey
PROPERTIES
    ImplementsStream
    AnswersStable
    SecretRegistered
    SelectWithinPage

\* Two events, each a page, one incarnation.
SPECIFICATION Spec
CONSTANTS
    Limit = 1
    HintWaitCounts = {2}
    Torn = Torn
    MaxEvents = 2
    MaxBoots = 1
PROPERTIES
    WithdrawalErrorReturned

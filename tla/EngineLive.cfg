\* Two events, each a page, two incarnations; hints never or every second guess.
SPECIFICATION Spec
CONSTANTS
    Limit = 1
    HintWaitCounts = {0, 2}
    Torn = Torn
    MaxEvents = 2
    MaxBoots = 2
PROPERTIES
    EventsHandled
    ShutdownCompletes

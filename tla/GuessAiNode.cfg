\* One event; a hint after a first wrong guess, none, or a remainder by zero; two
\* processes, and one request to each for the first guess, which polls every
\* second and gives up after one.
SPECIFICATION NodeSpec
CONSTANTS
    Limit = 1
    HintWaitCounts = {0, 1, 2}
    Torn = Torn
    MaxEvents = 1
    MaxBoots = 2
    Requests = {r1}
    Games = {1}
    Counts = {1}
    PollTicks = 1
    TicksPerSecond = 1
    TimeoutSeconds = 0
    MaxLate = 0
INVARIANTS
    NodeTypeOK
    ToldAsPaid
    CleanExitLosesNothing
PROPERTIES
    ImplementsService

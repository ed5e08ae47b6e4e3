\* Two requests for a guess; two ticks to a second, a timeout of one second, a
\* poll each tick, and handlers that run at most a tick late.
SPECIFICATION ServerSpec
CONSTANTS
    Requests = {r1, r2}
    Guesses = {g1}
    PollTicks = 1
    TicksPerSecond = 2
    TimeoutSeconds = 1
    MaxLate = 1
PROPERTIES
    AvailableIsReturned

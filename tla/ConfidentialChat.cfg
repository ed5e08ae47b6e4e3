\* Three requests, between two key pairs of the engine and two of nodes.
SPECIFICATION Spec
CONSTANTS
    ClientKeys = {c1, c2}
    NodeKeys = {n1, n2}
    MaxRequests = 3
INVARIANTS
    TypeOK
    AnswersItsRequest
PROPERTIES
    ImplementsModelRequest

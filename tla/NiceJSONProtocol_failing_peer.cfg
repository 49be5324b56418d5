SPECIFICATION Spec
CHECK_DEADLOCK FALSE
CONSTANTS
    foo = foo
    hoo = hoo
    other = other
    v = v
    Operations = {foo, hoo}
    OnewayOperations = {hoo}
    OtherNames = {other}
    Values = {v}
    RawString = RawString
    NonFinite = NonFinite
    Unconvertible = Unconvertible
    Stop = Stop
    Malformed = Malformed
    NoName = NoName
    NoBuffer = NoBuffer
    HalfRange = 4
    CallerHeaders <- AllHeaders
    CallerPieces <- AllPieces
    Documents <- BrokenDocuments
    MaxArrived = 3
    MaxBegun = 2
    MaxBody = 1
INVARIANTS
    ReceivedAsSent
    TruncatedIsLast
PROPERTIES
    BrokenIsFinal
    ImplementsEndpoint

SPECIFICATION Spec
CONSTANTS
    ServerOperations <- OlderOperations
    Calls <- MCCalls
    Values <- MCValues
    MaxCalls = 3
    MaxPieces = 3
    RawString = RawString
    NonFinite = NonFinite
    Unconvertible = Unconvertible
    Stop = Stop
    Malformed = Malformed
    NoName = NoName
    NoBuffer = NoBuffer
    NoAnswer = NoAnswer
    Error = Error
INVARIANTS
    TypeOK
    InStep
    HealthyCallsSucceed
PROPERTIES
    ImplementsCallAndAnswer
    EndsAreProtocolObjects
    EveryCallReturns
    SoundCallsRun
CHECK_DEADLOCK FALSE

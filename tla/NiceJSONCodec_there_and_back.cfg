SPECIFICATION Spec
CONSTANTS
    Int8 <- MCInt8
    Int16 <- MCInt16
    Int32 <- MCInt32
    Int64 <- MCInt64
    Decimal <- MCDecimal
    Stoll <- MCStoll
    Labels <- MCLabels
    Pairings <- AllPairings
    Types <- MCTypes
    Depth <- MCDepth
    BinaryOf <- SmallBinary
    Skipped <- Skip2json
    Inputs <- WrittenByHand
INVARIANTS
    ReaderGetsShared
    RefusedIsUnsupported
    NumbersFit
CHECK_DEADLOCK FALSE

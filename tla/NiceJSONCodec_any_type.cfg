SPECIFICATION Spec
CONSTANTS
    Int8 <- MCInt8
    Int16 <- MCInt16
    Int32 <- MCInt32
    Int64 <- MCInt64
    Decimal <- MCDecimal
    Stoll <- MCStoll
    Labels <- MCLabels
    Pairings <- ContainerPairings
    Types <- MCTypes
    Depth <- MCDepth
    BinaryOf <- SmallBinary
    Skipped <- Skip2json
    Inputs <- NothingByHand
INVARIANTS
    AnyDataTypeWorks
CHECK_DEADLOCK FALSE

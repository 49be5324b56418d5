SPECIFICATION Spec
CONSTANTS
    Alphabets <- MCAlphabets
    Texts <- MCTexts
    MaxText = 6
    UnsignedMax = 12
    IntegerMax = 7
    MaxExponent = 6
    NaN = NaN
    Written <- MCWritten
    Endings <- MCEndings
INVARIANTS
    TypeOK
    StopsAtTheLastBracket
    DocumentsAreRead
    NeverWaitsBehindADocument
    RefusesOnlyTheHopeless
    WrittenIsReadBack
CHECK_DEADLOCK FALSE

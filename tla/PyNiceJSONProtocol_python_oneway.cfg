SPECIFICATION Spec
CONSTANTS
    s1 = s1
    s2 = s2
    Odd = Odd
    Structs = {s1, s2}
    Operations = {"add", "zip"}
    Oneways = {"zip"}
    OtherNames = {"sub"}
    CallerHeaders <- MCCallerHeaders
    Documents <- MCDocuments
    MaxArrived = 3
    MaxBegun = 2
CHECK_DEADLOCK FALSE
INVARIANT SoundMessagesAreRead

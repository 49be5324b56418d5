SPECIFICATION Spec
CONSTANTS
    Values <- MCValues
    Foreign <- MCForeign
    Shorter <- MCShorter
    Compared <- MCCompared
    Patches <- MCPatches
    Cuts = {0, 1, 2, 3, 4, 5, 6, 7, 8, 9, 10, 11, 12}
INVARIANTS
    EncodedIsReadBack
    FlattenedIsRestored
    PatchesLeadToTarget
CHECK_DEADLOCK FALSE

SPECIFICATION FairSpec
CONSTANTS
    here = here
    there = there
    Keys = {calc}
    Directories = {here, there}
    EnvPath <- OneOnPath
    Sound = {v1, v2}
    Flawed = {argle}
    Missing = Missing
    Absent = Absent
    Unbound = Unbound
    NotFound = NotFound
    Refused = Refused
INVARIANTS
    TypeOK
    HeldIsBound
PROPERTIES
    RequireIsOneLook
    ReadyIsInstalled
    RequireReturns

CONSTANTS
    None = None
    NoService = None
    Typelibs <- MCTypelibs
SPECIFICATION Spec
INVARIANT NamesFindDeclarations
INVARIANT RefusedForAReason
CHECK_DEADLOCK FALSE

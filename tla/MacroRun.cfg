SPECIFICATION MacroSpec
CONSTANTS
    Size = 12
    Kind <- ProgramKind
    Bodies <- ProgramBodies
    Reads = {2, 6, 12}
    MaxExecuted = 12
    MaxPasses = 2
    StatementWait = 2
    CallWait = 3
    StillLimit = 3
    Sources <- MCSources
    TypedTexts <- MCTypedTexts
    MaxCallDepth = 3
    MaxStatements = 5
INVARIANT WalkIsAccountedFor
INVARIANT StopsInTime
INVARIANT DefinitionsAreReadRight
INVARIANT JudgedAfterOwnInput
PROPERTY CallEnds
CHECK_DEADLOCK FALSE

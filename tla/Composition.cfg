\* Every mode, by both ways, with every option at and beyond the ends of its range.
SPECIFICATION AppSpec
CONSTANTS
    Undefined = Undefined
    NaN = NaN
    Paths <- SomePaths
    SseBlocks <- SomeBlocks
INVARIANTS
    ProvidersResolve
    WiredAlike
    OptionsInForce
\* An application starts once, or fails to.
CHECK_DEADLOCK FALSE

\* Two terminals with nested handlers, the lines that have a handler, the cascade, and line
\* 3, which a device may raise but no init unmasks.
CONSTANTS
    Terminals = {0, 1}
    Lines = {0, 1, 2, 3, 8}
    MaxSwitched = 2
    MaxChildren = 1
SPECIFICATION ServicesSpec
INVARIANTS
    GatesReady
    NothingInService
    UserInterruptible
PROPERTIES
    ProgramsDeliver
    RequestServed
    ClockExact
    ReadReturns

\* Two terminals, four slots (two for children), every existing file an
\* executable, no switch key inside a critical window.  511 does not fit halt's uint8_t.
CONSTANTS
    MAX_TERMINAL = 2
    MAX_PROCESSES = 4
    Programs = {"missing", "exe"}
    Statuses = {0, 511}
    ShellMayFault = FALSE
    OpenWindows = {}
SPECIFICATION DisciplinedSpec
INVARIANTS
    TypeOK
    SlotsAccounted
    ClaimsExclusive
    FirstSlotsAreTerminals
    ChainsWellFormed
    UserSeesItself
    ParkedThreadsKept
    ControlKept
    StatusFaithful
PROPERTIES
    OthersUntouched

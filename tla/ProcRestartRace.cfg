\* A switch key arrives while a base shell is replaced.
CONSTANTS
    MAX_TERMINAL = 2
    MAX_PROCESSES = 4
    Programs = {"exe"}
    Statuses = {0}
    ShellMayFault = FALSE
    OpenWindows = {"restart"}
SPECIFICATION Spec
INVARIANTS
    FirstSlotsAreTerminals

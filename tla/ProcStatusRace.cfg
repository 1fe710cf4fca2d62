\* A switch key arrives while halt's status is in its global variable.
CONSTANTS
    MAX_TERMINAL = 2
    MAX_PROCESSES = 4
    Programs = {"exe"}
    Statuses = {0, 1}
    ShellMayFault = FALSE
    OpenWindows = {"status"}
SPECIFICATION Spec
INVARIANTS
    StatusFaithful

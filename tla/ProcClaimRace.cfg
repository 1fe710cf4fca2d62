\* A switch key arrives between the test of in_use[i] and its update.
CONSTANTS
    MAX_TERMINAL = 2
    MAX_PROCESSES = 4
    Programs = {"exe"}
    Statuses = {0}
    ShellMayFault = FALSE
    OpenWindows = {"claim"}
SPECIFICATION Spec
INVARIANTS
    ClaimsExclusive

\* A base shell raises an exception.
CONSTANTS
    MAX_TERMINAL = 2
    MAX_PROCESSES = 4
    Programs = {"exe"}
    Statuses = {0}
    ShellMayFault = TRUE
    OpenWindows = {}
SPECIFICATION Spec
INVARIANTS
    StatusFaithful

\* A file that is not an executable is executed.
CONSTANTS
    MAX_TERMINAL = 2
    MAX_PROCESSES = 4
    Programs = {"exe", "text"}
    Statuses = {0}
    ShellMayFault = FALSE
    OpenWindows = {}
SPECIFICATION Spec
INVARIANTS
    UserSeesItself

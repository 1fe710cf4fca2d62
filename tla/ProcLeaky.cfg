\* Text files are executed too, switch keys arrive during the start of a first
\* shell and while a status is in its global: slots leak, the books balance.
CONSTANTS
    MAX_TERMINAL = 2
    MAX_PROCESSES = 4
    Programs = {"exe", "text"}
    Statuses = {0}
    ShellMayFault = FALSE
    OpenWindows = {"first", "status"}
SPECIFICATION Spec
PROPERTIES
    ImplementsProcesses

\* The machine as it is: switch keys arrive anywhere interrupts are enabled.
CONSTANTS
    MAX_TERMINAL = 2
    MAX_PROCESSES = 3
    Programs = {"exe"}
    Statuses = {0}
    ShellMayFault = FALSE
    OpenWindows = {"first", "restart", "claim", "free", "status"}
    MaxSwitches = 4
SPECIFICATION RaceSpec
INVARIANTS
    PageFollowsCurrent
PROPERTIES
    KernelCallsReturn

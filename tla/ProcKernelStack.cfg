\* No switch key inside a critical window.
CONSTANTS
    MAX_TERMINAL = 2
    MAX_PROCESSES = 4
    Programs = {"exe"}
    Statuses = {0}
    ShellMayFault = FALSE
    OpenWindows = {}
SPECIFICATION KSpec
INVARIANTS
    FramesIntact

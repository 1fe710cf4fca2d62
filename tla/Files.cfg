\* Descriptor calls: two free slots per process, a directory and a file of two blocks.
CONSTANTS
    MAX_NAME_CHARACTERS = 2
    MAX_ENTRIES = 2
    MAX_INODE_DATA_BLOCKS = 2
    MAX_CHARS_IN_DATA = 3
    WORD = 16
    AnyFd <- Descriptors
    MAX_OPEN_FILES = 4
    img <- GoodImage
    Names <- FileNames
    Lengths = {3}
    Frequencies = {2}
    ArgBytes = 0
    MaxDepth = 2
    KeyWindow = {"user", "fd_jump", "inode_ptr", "file_position", "flags"}
SPECIFICATION FilesSpec
INVARIANTS
    ReadsInOrder
    ReadDataExact
    NamesExact
    PrintsMatches
    LibraryExact
PROPERTIES
    FramesDrawn
    ParentsUntouched
    OpenFillsSlot
    KeysLeaveTable
    HandlerEnds

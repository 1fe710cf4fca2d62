\* Three terminals with screens of one cell; a screen of three rows of two columns with one
\* spare cell on the page, a line of at most three characters, six characters of text.
CONSTANTS
    MAX_TERMINAL = 3
    Cells = {0}
    Values = {"blank", "mark"}
    Positions = {0, 1}
    NUM_COLS = 2
    NUM_ROWS = 3
    PAGE_CELLS = 7
    Chars = {" ", "a"}
    BUFFER_SIZE = 4
    DeadKeys = {}
    MaxText = 6
    KeyOps = {"echo", "bksp", "enter", "clear"}
SPECIFICATION ConsoleSpec
INVARIANTS
    CursorShown
    CursorInBounds
    LineShown
    TextLaidOut
    RestsInBounds
    FlagsFollowKeys
PROPERTIES
    ImplementsScreens
    ReadsFreshLine
    LineReachesReader
    LineObeyed

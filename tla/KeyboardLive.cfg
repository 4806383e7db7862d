CONSTANTS
    VGA_WIDTH = 2
    VGA_HEIGHT = 2
    ROW_SIZE = 3
    NUL = NUL
    NEWLINE = NEWLINE
    KEYBOARD_BUFFER_SIZE = 2
    BUFFER_INDEX_SIZE = 2
    Letters = {q}
    Backspace = Backspace
    Enter = Enter
    Shift = Shift
    Unshift = Unshift
    Capslock = Capslock
    Other = Other
    Scancodes = {q, Backspace, Enter, Capslock, Other}
    PromptMark = PromptMark
    Outputs = {}
    Empty = Empty
    MaxQueue = 2
    MaxLine = 1
    dollar = dollar
SPECIFICATION FairSpec
PROPERTIES
    GetlineCompletes
CHECK_DEADLOCK FALSE

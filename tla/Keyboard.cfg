CONSTANTS
    VGA_WIDTH = 3
    VGA_HEIGHT = 2
    ROW_SIZE = 3
    NUL = NUL
    NEWLINE = NEWLINE
    KEYBOARD_BUFFER_SIZE = 3
    BUFFER_INDEX_SIZE = 3
    Letters = {q}
    Backspace = Backspace
    Enter = Enter
    Shift = Shift
    Unshift = Unshift
    Capslock = Capslock
    Other = Other
    Scancodes = {q, Backspace, Enter, Shift, Unshift}
    PromptMark = PromptMark
    Outputs <- Prompt
    Empty = Empty
    MaxQueue = 1
    MaxLine = 4
    dollar = dollar
SPECIFICATION Spec
INVARIANTS
    TypeOK LineTerminated EchoMatches CursorOnScreen
PROPERTIES
    LineIntact
CHECK_DEADLOCK FALSE

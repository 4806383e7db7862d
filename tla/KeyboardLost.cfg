CONSTANTS
    VGA_WIDTH = 2
    VGA_HEIGHT = 2
    ROW_SIZE = 3
    NUL = NUL
    NEWLINE = NEWLINE
    KEYBOARD_BUFFER_SIZE = 2
    BUFFER_INDEX_SIZE = 2
    Letters = {q}
    Backspace = Backspace
    Enter = Enter
    Shift = Shift
    Unshift = Unshift
    Capslock = Capslock
    Other = Other
    Scancodes = {q, Enter}
    PromptMark = PromptMark
    Outputs = {}
    Empty = Empty
    MaxQueue = 1
    MaxLine = 1
    dollar = dollar
SPECIFICATION Spec
PROPERTIES
    LineSurvives
CHECK_DEADLOCK FALSE

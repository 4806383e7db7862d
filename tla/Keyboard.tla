------------------------------ MODULE Keyboard ------------------------------
(***************************************************************************)
(* Line input: the keyboard's interrupt service routine (src/keyboard.c)   *)
(* against system call 4, which waits for a line with interrupts enabled,  *)
(* and system call 5, which prints (src/interrupt.c).                      *)
(*                                                                         *)
(* The keyboard controller and the interrupt controller are external: the  *)
(* output port holds one scancode, further ones queue behind it, and a     *)
(* scancode that gets to an empty port makes an edge, which the interrupt  *)
(* controller (programmed edge-triggered by pic_remap) latches.            *)
(*                                                                         *)
(* The operators named Mutant... are mistakes a programmer could make in   *)
(* the definition they precede.  Nothing uses them; the properties are     *)
(* tried against them.                                                     *)
(***************************************************************************)
EXTENDS Framebuffer, FiniteSets, FiniteSetsExt

CONSTANTS
    KEYBOARD_BUFFER_SIZE,  \* characters of keyboard_buffer (256)
    BUFFER_INDEX_SIZE,     \* values of buffer_index, a uint8_t (256)
    Letters,               \* keys 'a' .. 'z'
    Backspace, Enter, Shift, Unshift, Capslock,
    Other,                 \* scancodes without a character, all other releases
    Scancodes,             \* those the user's keys send
    PromptMark,            \* the '\b' that pwd prints behind the prompt
    Outputs,               \* what the shell prints
    Empty,                 \* the port has been read
    MaxQueue,              \* bound: scancodes queued behind the port
    MaxLine                \* bound: letters the user types into one line

ASSUME KeyboardAssumption ==
    /\ KEYBOARD_BUFFER_SIZE \in Nat /\ BUFFER_INDEX_SIZE \in Nat \ {0}
    /\ BUFFER_INDEX_SIZE <= KEYBOARD_BUFFER_SIZE
    /\ Scancodes \subseteq Letters \cup {Backspace, Enter, Shift, Unshift, Capslock, Other}
    /\ Empty \notin Scancodes
    /\ MaxQueue \in Nat /\ MaxLine \in Nat

ASSUME CharAssumption == {NUL, PromptMark} \cap (Letters \X BOOLEAN) = {}

VARIABLES
    fb,              \* the screen
    keyboard_state,  \* the driver's state
    port, queue,     \* the keyboard's output port and what waits behind it
    irr,             \* the latched interrupt request
    pc,              \* where the processor is, outside the service routine
    copy,            \* get_keyboard_buffer: bytes to copy, bytes copied, buffer
    line,            \* the last line delivered to the shell
    typed,           \* history: the line as the user has typed it
    disturbed        \* history: an interrupt came after Enter, or the index wrapped

vars == <<fb, keyboard_state, port, queue, irr, pc, copy, line, typed, disturbed>>

Indices == 0 .. KEYBOARD_BUFFER_SIZE - 1

\* A letter is stored with its case.
Chars == Letters \X BOOLEAN

NoLine == [i \in Indices |-> NUL]

-----------------------------------------------------------------------------
(***************************************************************************)
(* The keyboard and the interrupt controller                               *)
(***************************************************************************)
Ahead == IF port = Empty THEN queue ELSE <<port>> \o queue

LettersAhead == {i \in DOMAIN Ahead : Ahead[i] \in Letters}

Press(k) ==
    /\ k \in Letters => Len(typed) + Cardinality(LettersAhead) < MaxLine
    /\ IF port = Empty
       THEN port' = k /\ irr' = TRUE /\ UNCHANGED queue
       ELSE Len(queue) < MaxQueue /\ queue' = Append(queue, k) /\ UNCHANGED <<port, irr>>
    /\ UNCHANGED <<fb, keyboard_state, pc, copy, line, typed, disturbed>>

\* in(KEYBOARD_DATA_PORT) frees the port; the next scancode gets there with an
\* edge of its own.
ReadPort ==
    IF queue = <<>>
    THEN port' = Empty /\ irr' = FALSE /\ UNCHANGED queue
    ELSE port' = Head(queue) /\ queue' = Tail(queue) /\ irr' = TRUE

-----------------------------------------------------------------------------
(***************************************************************************)
(* The driver                                                              *)
(***************************************************************************)
\* The index stays where the last line ended.
MutantKeepIndex(k) == [k EXCEPT !.keyboard_buffer = NoLine]

reset_buffer(k) == [k EXCEPT !.keyboard_buffer = NoLine, !.buffer_index = 0]

keyboard_state_activate(k) == [k EXCEPT !.keyboard_input_on = TRUE]

\* Input stays on.
MutantStayOn(k) == k

keyboard_state_deactivate(k) == [k EXCEPT !.keyboard_input_on = FALSE]

is_keyboard_blocking == keyboard_state.keyboard_input_on

\* Where backspace puts the cursor: back over the line's end to the first
\* character of the row above, but never over a prompt's mark.
BackspacePosition(f) ==
    IF Col(f) = 0
    THEN IF Row(f) = 0 THEN <<0, 0>>
         ELSE <<Row(f) - 1,
                Min({c \in 0 .. VGA_WIDTH - 1 : \A d \in c .. VGA_WIDTH - 2 :
                        framebuffer_getchar(f, Row(f) - 1, d) = NUL})>>
    ELSE IF framebuffer_getchar(f, Row(f), Col(f) - 1) = PromptMark
    THEN <<Row(f), Col(f)>>
    ELSE <<Row(f), Col(f) - 1>>

EchoBackspace(f) ==
    LET pos == BackspacePosition(f)
    IN  framebuffer_write(framebuffer_set_cursor(f, pos[1], pos[2]), pos[1], pos[2], NUL)

\* The screen is not scrolled.
MutantNoScroll(f, char) ==
    LET written == framebuffer_write(f, Row(f), Col(f), char)
    IN  IF AtLastCell(f) THEN framebuffer_set_cursor(written, Row(f), 0)
        ELSE framebuffer_set_cursor(written, Row(f), Col(f) + 1)

\* The cursor always moves on by one.
MutantMoveOn(f, char) ==
    LET written == framebuffer_write(f, Row(f), Col(f), char)
    IN  framebuffer_set_cursor(IF AtLastCell(f) THEN framebuffer_scroll_down(written) ELSE written,
                               Row(f), Col(f) + 1)

\* Unlike puts_buff, the service routine keeps the cursor on the screen.
EchoChar(f, char) ==
    LET written == framebuffer_write(f, Row(f), Col(f), char)
    IN  IF AtLastCell(f)
        THEN framebuffer_set_cursor(framebuffer_scroll_down(written), Row(f), 0)
        ELSE framebuffer_set_cursor(written, Row(f), Col(f) + 1)

\* The index does not wrap.
MutantNoWrap(i) == i + 1

NextIndex(i) == (i + 1) % BUFFER_INDEX_SIZE

CharOf(k, scancode) ==
    <<scancode, k.shift_pressed # k.capslock_activated>>

StoreChar(k, char) ==
    [k EXCEPT !.keyboard_buffer[k.buffer_index] = char, !.buffer_index = NextIndex(@)]

\* keyboard_isr with input off: the buffer is cleared and the port not read.
IgnoreKey ==
    /\ keyboard_state' = reset_buffer(keyboard_state)
    /\ irr' = FALSE
    /\ disturbed' = TRUE
    /\ UNCHANGED <<fb, port, queue, typed>>

ModifierKey(scancode) ==
    /\ keyboard_state' =
         CASE scancode = Shift -> [keyboard_state EXCEPT !.shift_pressed = TRUE]
           [] scancode = Unshift -> [keyboard_state EXCEPT !.shift_pressed = FALSE]
           [] scancode = Capslock -> [keyboard_state EXCEPT !.capslock_activated = ~@]
           [] scancode = Other -> keyboard_state
    /\ UNCHANGED <<fb, typed, disturbed>>

BackspaceKey ==
    /\ fb' = EchoBackspace(fb)
    /\ keyboard_state' = [keyboard_state EXCEPT !.buffer_index = IF @ > 0 THEN @ - 1 ELSE @]
    /\ typed' = IF typed = <<>> THEN typed ELSE Front(typed)
    /\ UNCHANGED disturbed

EnterKey ==
    /\ fb' = LineFeed(fb)
    /\ keyboard_state' = keyboard_state_deactivate(keyboard_state)
    /\ UNCHANGED <<typed, disturbed>>

CharKey(scancode) ==
    LET char == CharOf(keyboard_state, scancode)
    IN  /\ fb' = EchoChar(fb, char)
        /\ keyboard_state' = StoreChar(keyboard_state, char)
        /\ typed' = Append(typed, char)
        /\ disturbed' = (disturbed \/ keyboard_state.buffer_index + 1 = BUFFER_INDEX_SIZE)

ProcessKey(scancode) ==
    /\ ReadPort
    /\ \/ scancode \in {Shift, Unshift, Capslock, Other} /\ ModifierKey(scancode)
       \/ scancode = Backspace /\ BackspaceKey
       \/ scancode = Enter /\ EnterKey
       \/ scancode \in Letters /\ CharKey(scancode)

\* The routine runs to its end with interrupts off and acknowledges the
\* interrupt.  Interrupts are on in the shell and in system call 4.
keyboard_isr ==
    /\ irr
    /\ IF keyboard_state.keyboard_input_on THEN ProcessKey(port) ELSE IgnoreKey
    /\ UNCHANGED <<pc, copy, line>>

-----------------------------------------------------------------------------
(***************************************************************************)
(* System calls                                                            *)
(***************************************************************************)
\* System call 5.
Puts(s) ==
    /\ pc = "user"
    /\ fb' = puts_buff(fb, s)
    /\ UNCHANGED <<keyboard_state, port, queue, irr, pc, copy, line, typed, disturbed>>

\* System call 4: the buffer is cleared, input turned on, interrupts enabled.
StartLine ==
    /\ pc = "user"
    /\ keyboard_state' = keyboard_state_activate(reset_buffer(keyboard_state))
    /\ pc' = "waiting"
    /\ typed' = <<>>
    /\ disturbed' = FALSE
    /\ UNCHANGED <<fb, port, queue, irr, copy, line>>

\* The busy loop sees the end of the line and get_keyboard_buffer is called:
\* the number of bytes is fixed before the first one is copied.
SeeEnter ==
    /\ pc = "waiting"
    /\ ~is_keyboard_blocking
    /\ pc' = "copying"
    /\ copy' = [length |-> keyboard_state.buffer_index, done |-> 0, buf |-> NoLine]
    /\ UNCHANGED <<fb, keyboard_state, port, queue, irr, line, typed, disturbed>>

CopyByte ==
    /\ pc = "copying"
    /\ copy.done < copy.length
    /\ copy' = [copy EXCEPT !.done = @ + 1,
                            !.buf[copy.done] = keyboard_state.keyboard_buffer[copy.done]]
    /\ UNCHANGED <<fb, keyboard_state, port, queue, irr, pc, line, typed, disturbed>>

\* The caller asks for 512 bytes: the buffer and what is behind it.
ReturnLine ==
    /\ pc = "copying"
    /\ copy.done = copy.length
    /\ line' = copy.buf
    /\ pc' = "user"
    /\ UNCHANGED <<fb, keyboard_state, port, queue, irr, copy, typed, disturbed>>

-----------------------------------------------------------------------------
Init ==
    /\ fb = framebuffer_clear
    /\ keyboard_state = [keyboard_input_on |-> TRUE, buffer_index |-> 0,
                         keyboard_buffer |-> NoLine,
                         shift_pressed |-> FALSE, capslock_activated |-> FALSE]
    /\ port = Empty /\ queue = <<>> /\ irr = FALSE
    /\ pc = "user"
    /\ copy = [length |-> 0, done |-> 0, buf |-> NoLine]
    /\ line = NoLine
    /\ typed = <<>>
    /\ disturbed = FALSE

Syscall4 == SeeEnter \/ CopyByte \/ ReturnLine

Next ==
    \/ \E k \in Scancodes : Press(k)
    \/ keyboard_isr
    \/ \E s \in Outputs : Puts(s)
    \/ StartLine
    \/ Syscall4

\* A latched interrupt is taken while interrupts are on, and the processor runs
\* the busy loop and the copying.
Fairness == WF_vars(keyboard_isr) /\ WF_vars(Syscall4)

Spec == Init /\ [][Next]_vars

FairSpec == Spec /\ Fairness


-----------------------------------------------------------------------------
\* Types; the index is one of the buffer.
TypeOK ==
    /\ keyboard_state \in [keyboard_input_on : BOOLEAN, buffer_index : 0 .. BUFFER_INDEX_SIZE - 1,
                           keyboard_buffer : [Indices -> Chars \cup {NUL}],
                           shift_pressed : BOOLEAN, capslock_activated : BOOLEAN]
    /\ port \in Scancodes \cup {Empty}
    /\ queue \in Seq(Scancodes)
    /\ irr \in BOOLEAN
    /\ pc \in {"user", "waiting", "copying"}
    /\ copy \in [length : 0 .. BUFFER_INDEX_SIZE - 1, done : 0 .. BUFFER_INDEX_SIZE - 1,
                 buf : [Indices -> Chars \cup {NUL}]]
    /\ line \in [Indices -> Chars \cup {NUL}]

\* The shell treats what it gets as a string: there is always a NUL in it,
\* however long the line was and whatever came in while it was copied.
LineTerminated == \E i \in Indices : line[i] = NUL

LineOf(s) == [i \in Indices |-> IF i < Len(s) THEN s[i + 1] ELSE NUL]

\* System call 4 delivers the line as the user has typed and corrected it, and
\* nothing of what came before, unless the index wrapped or an interrupt came
\* between Enter and the end of the copying.
LineIntact == [][ReturnLine /\ ~disturbed => line' = LineOf(typed)]_vars

\* While a line is typed, what is on the screen before the cursor is the line,
\* as far as it has not been scrolled away: echo and buffer do not part.
EchoMatches ==
    pc = "waiting" /\ keyboard_state.keyboard_input_on =>
        \A j \in 1 .. Len(typed) :
            j <= fb.cursor => fb.cell[fb.cursor - j] = typed[Len(typed) - j + 1]

\* The cursor is on the screen.
CursorOnScreen == fb.cursor < VGA_WIDTH * VGA_HEIGHT

EnterAhead == \E i \in DOMAIN Ahead : Ahead[i] = Enter

\* Once the keyboard has an Enter to send and its interrupt request is pending,
\* the call that waits for a line returns.
GetlineCompletes == (pc = "waiting" /\ irr /\ EnterAhead) ~> pc = "user"

\* keyboard.h: "This can be made into blocking input with while
\* (is_keyboard_blocking());": a call waiting for a line gets it when the user
\* types Enter.
GetlineGetsEnter == (pc = "waiting" /\ EnterAhead) ~> pc = "user"

\* keyboard.h: "Stop processing when enter key (line feed) is pressed": what
\* comes after Enter does not change the line.
LineSurvives ==
    [][ReturnLine /\ Len(typed) < BUFFER_INDEX_SIZE => line' = LineOf(typed)]_vars
=============================================================================

---------------------------- MODULE Framebuffer ----------------------------
(***************************************************************************)
(* The text screen (src/framebuffer.c) as functions on its state f:        *)
(* f.cell are the characters of the video memory, row after row, and       *)
(* f.cursor is the VGA cursor register.  Rows are uint8_t in the code, so  *)
(* positions below the screen exist up to row ROW_SIZE - 1.  Colours are   *)
(* left out.                                                               *)
(***************************************************************************)
EXTENDS Integers, Sequences, SequencesExt

CONSTANTS
    VGA_WIDTH, VGA_HEIGHT,   \* the screen (80 by 25)
    ROW_SIZE,                \* values of a uint8_t row (256)
    NUL, NEWLINE             \* the characters '\0' and '\n'

ASSUME ScreenAssumption ==
    /\ VGA_WIDTH \in Nat \ {0} /\ VGA_HEIGHT \in Nat \ {0}
    /\ ROW_SIZE \in Nat /\ ROW_SIZE >= VGA_HEIGHT

Cells == 0 .. ROW_SIZE * VGA_WIDTH - 1

Row(f) == (f.cursor \div VGA_WIDTH) % ROW_SIZE

Col(f) == f.cursor % VGA_WIDTH

framebuffer_set_cursor(f, r, c) ==
    [f EXCEPT !.cursor = (r % ROW_SIZE) * VGA_WIDTH + c]

framebuffer_write(f, r, c, char) == [f EXCEPT !.cell[r * VGA_WIDTH + c] = char]

framebuffer_getchar(f, r, c) == f.cell[r * VGA_WIDTH + c]

\* framebuffer_clear and the cursor at the top left, as the kernel starts.
framebuffer_clear == [cell |-> [k \in Cells |-> NUL], cursor |-> 0]

framebuffer_scroll_down(f) ==
    [f EXCEPT !.cell = [k \in Cells |->
        IF k >= VGA_HEIGHT * VGA_WIDTH THEN @[k]
        ELSE IF k >= (VGA_HEIGHT - 1) * VGA_WIDTH THEN NUL
        ELSE @[k + VGA_WIDTH]]]

AtLastCell(f) == Row(f) = VGA_HEIGHT - 1 /\ Col(f) = VGA_WIDTH - 1

\* The cursor goes to the start of the next line; in the last row the screen
\* scrolls instead.
LineFeed(f) ==
    IF Row(f) = VGA_HEIGHT - 1
    THEN framebuffer_set_cursor(framebuffer_scroll_down(f), Row(f), 0)
    ELSE framebuffer_set_cursor(f, Row(f) + 1, 0)

\* One character of puts_buff.  When the last cell of the screen is written the
\* screen scrolls, and the cursor moves on all the same: below the screen.
PutChar(f, char) ==
    IF char = NEWLINE THEN LineFeed(f)
    ELSE LET written == framebuffer_write(f, Row(f), Col(f), char)
             g == IF AtLastCell(f) THEN framebuffer_scroll_down(written) ELSE written
         IN  framebuffer_set_cursor(g, Row(f), Col(f) + 1)

puts_buff(f, s) == FoldLeft(PutChar, f, s)
=============================================================================

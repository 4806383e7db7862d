----------------------------- MODULE MCKeyboard -----------------------------
(* Instances of Keyboard for TLC. *)
EXTENDS Keyboard

CONSTANTS dollar

\* A prompt on a line of its own, and a character at the cursor.
Prompt == {<<NEWLINE, dollar, PromptMark>>}
AnyText == {<<dollar>>, <<NEWLINE>>}
=============================================================================

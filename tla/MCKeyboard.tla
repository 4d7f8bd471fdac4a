------------------------------ MODULE MCKeyboard ------------------------------
(* Keyboard with two keys, a letter and the space bar, and Escape.         *)
EXTENDS Keyboard

CONSTANTS a, A, esc, prompt

SmallKeys == {[plain |-> a, shift |-> A, letter |-> TRUE],
              [plain |-> Space, shift |-> Space, letter |-> FALSE],
              [plain |-> esc, shift |-> esc, letter |-> FALSE]}
PromptText == <<prompt>>
UnknownText == <<>>
Echo == <<a, a>>
Clear == <<A>>
CommandTable == <<Clear, Echo>>
==============================================================================

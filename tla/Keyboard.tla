------------------------------- MODULE Keyboard -------------------------------
(***************************************************************************)
(* drivers/keyboard.c: the key table with its modifiers, the line typed,   *)
(* completion and recall, and the line's way through execute_command of    *)
(* shell.c and strtok of string.c.                                         *)
(*                                                                         *)
(* A key is handled in one step, with interrupts off.  main prints its     *)
(* prompt one character after the other at the same time.  Two commands    *)
(* stand for the shell's table: echo, which takes the line apart, and      *)
(* clear, which moves the cursor; all other words are unknown.             *)
(***************************************************************************)
EXTENDS Screen, FiniteSets

CONSTANTS
  BufLimit,          \* 255: key_buffer has one place more
  Keys,              \* records of plain, shifted character, and whether it is a letter
  Nul, Space,        \* the characters '\0' and ' '
  Prompt,            \* "OS> "
  Unknown,           \* "unknow command: "
  EchoWord, ClearWord,
  Commands           \* os_commands, in the order of the table

VARIABLES
  con,               \* the screen
  key_buffer, buffer_index, last_command, last_command_len,
  shift_pressed, caps_locks,
  rest,              \* what main has still to print of its prompt
  early              \* whether a key was handled before that was nothing

vars == <<con, key_buffer, buffer_index, last_command, last_command_len,
          shift_pressed, caps_locks, rest, early>>
lineVars == <<key_buffer, buffer_index, last_command, last_command_len>>

Char == UNION {{key.plain, key.shift} : key \in Keys}

ASSUME KeyboardAssumption ==
  /\ BufLimit \in Nat \ {0}
  /\ Nul \notin Graphic \cup Char /\ {NL, BS} \cap Char = {} /\ Space \in Graphic
  /\ Prompt \in Seq(Graphic) /\ Unknown \in Seq(Graphic)
  \* A command can be typed, and is not longer than a line.
  /\ Commands \in Seq(Seq(Char))
  /\ \A i \in 1 .. Len(Commands) : Len(Commands[i]) <= BufLimit
  \* The longest line, with a prompt before it, is on the screen when it has scrolled.
  /\ BufLimit + Len(Prompt) <= Cols * (Rows - 1)

Places == 0 .. BufLimit
Text(buffer, n) == [i \in 1 .. n |-> buffer[i - 1]]
Line == Text(key_buffer, buffer_index)

(* The buffer with text at place n on, the rest as it was.                 *)
Stored(buffer, n, text) ==
  [i \in Places |-> IF i - n \in 0 .. Len(text) - 1 THEN text[i - n + 1] ELSE buffer[i]]

Times(c, n) == [i \in 1 .. n |-> c]

-----------------------------------------------------------------------------
(* strtok ends a token at each space, also one that follows another space; *)
(* the end of the line begins none.                                        *)
FirstSpace(line) ==
  LET ends == {i \in 1 .. Len(line) : line[i] = Space} \cup {Len(line) + 1}
  IN  CHOOSE i \in ends : \A j \in ends : i <= j
FirstToken(line) == SubSeq(line, 1, FirstSpace(line) - 1)

(* cmd_echo: every further token and a space, then a new line.  The spaces *)
(* between the tokens are those of the line.                               *)
EchoText(line) ==
  LET further == SubSeq(line, FirstSpace(line) + 1, Len(line))
      printed == IF further = <<>> \/ further[Len(further)] = Space THEN further
                 ELSE Append(further, Space)
  IN  Append(printed, NL)

ExecuteCommand(k, line) ==
  IF line = <<>> THEN k
  ELSE CASE FirstToken(line) = EchoWord -> PrintText(k, EchoText(line))
         [] FirstToken(line) = ClearWord -> ClearScreen(k)
         [] OTHER -> PrintText(k, Unknown \o FirstToken(line) \o <<NL>>)

-----------------------------------------------------------------------------
Handled == early' = (early \/ rest # <<>>) /\ UNCHANGED rest

(* The first command the line is the beginning of is filled in.            *)
Completes(i) ==
  /\ Len(Commands[i]) >= buffer_index
  /\ SubSeq(Commands[i], 1, buffer_index) = Line

TabKey ==
  /\ Handled
  /\ \/ \E i \in 1 .. Len(Commands) :
          /\ buffer_index > 0
          /\ Completes(i) /\ \A j \in 1 .. i - 1 : ~Completes(j)
          /\ LET missing == SubSeq(Commands[i], buffer_index + 1, Len(Commands[i]))
             IN  /\ con' = PrintText(con, missing)
                 /\ key_buffer' = Stored([key_buffer EXCEPT ![buffer_index] = Nul],
                                         buffer_index, missing)
                 /\ buffer_index' = Len(Commands[i])
     \/ /\ buffer_index > 0
        /\ \A i \in 1 .. Len(Commands) : ~Completes(i)
        /\ key_buffer' = [key_buffer EXCEPT ![buffer_index] = Nul]
        /\ UNCHANGED <<con, buffer_index>>
     \/ /\ buffer_index = 0
        /\ UNCHANGED <<con, key_buffer, buffer_index>>
  /\ UNCHANGED <<last_command, last_command_len, shift_pressed, caps_locks>>

(* The new line is printed over the old one.                               *)
UpKey_NoErase ==
  LET last == Text(last_command, last_command_len)
  IN  /\ last_command_len > 0
      /\ Handled
      /\ con' = PrintText(con, last)
      /\ key_buffer' = Stored(key_buffer, 0, Append(last, Nul))
      /\ buffer_index' = last_command_len
      /\ UNCHANGED <<last_command, last_command_len, shift_pressed, caps_locks>>

(* Without a last command the key has no character and does nothing.       *)
UpKey ==
  LET last == Text(last_command, last_command_len)
  IN  /\ last_command_len > 0
      /\ Handled
      /\ con' = PrintText(con, Times(BS, buffer_index) \o last)
      /\ key_buffer' = Stored(key_buffer, 0, Append(last, Nul))
      /\ buffer_index' = last_command_len
      /\ UNCHANGED <<last_command, last_command_len, shift_pressed, caps_locks>>

ShiftKey(pressed) ==
  /\ Handled
  /\ shift_pressed' = pressed
  /\ UNCHANGED <<con, lineVars, caps_locks>>

CapsKey ==
  /\ Handled
  /\ caps_locks' = ~caps_locks
  /\ UNCHANGED <<con, lineVars, shift_pressed>>

(* Caps lock exchanges the two rows of the table for letters.              *)
FinalChar(key) == IF shift_pressed # (caps_locks /\ key.letter) THEN key.shift ELSE key.plain

CharKey(key) ==
  /\ Handled
  /\ buffer_index < BufLimit
  /\ key_buffer' = [key_buffer EXCEPT ![buffer_index] = FinalChar(key)]
  /\ buffer_index' = buffer_index + 1
  /\ con' = PrintChar(con, FinalChar(key))
  /\ UNCHANGED <<last_command, last_command_len, shift_pressed, caps_locks>>

BackspaceKey ==
  /\ Handled
  /\ buffer_index > 0
  /\ buffer_index' = buffer_index - 1
  /\ key_buffer' = [key_buffer EXCEPT ![buffer_index - 1] = Nul]
  /\ con' = PrintChar(con, BS)
  /\ UNCHANGED <<last_command, last_command_len, shift_pressed, caps_locks>>

(* The line is saved without regard to its being empty.                    *)
EnterKey_SavesEmpty ==
  /\ Handled
  /\ con' = PrintText(ExecuteCommand(PrintChar(con, NL), Line), Prompt)
  /\ key_buffer' = [key_buffer EXCEPT ![0] = Nul]
  /\ buffer_index' = 0
  /\ last_command' = Stored(last_command, 0, Append(Line, Nul))
  /\ last_command_len' = buffer_index
  /\ UNCHANGED <<shift_pressed, caps_locks>>

(* What strtok does to key_buffer: the space after each token is a '\0'    *)
(* afterwards, as far as the command asked for tokens.                     *)
Cut(buffer) ==
  LET terminated == [buffer EXCEPT ![buffer_index] = Nul]
      spaces == {i \in 0 .. buffer_index - 1 : buffer[i] = Space}
      seen == IF buffer_index > 0 /\ FirstToken(Line) = EchoWord THEN spaces
              ELSE {i \in spaces : \A j \in spaces : i <= j}
  IN  [i \in Places |-> IF i \in seen THEN Nul ELSE terminated[i]]

(* Enter: the line is saved if it is not empty, and executed.              *)
EnterKey ==
  /\ Handled
  /\ con' = PrintText(ExecuteCommand(PrintChar(con, NL), Line), Prompt)
  /\ key_buffer' = [Cut(key_buffer) EXCEPT ![0] = Nul]
  /\ buffer_index' = 0
  /\ IF buffer_index > 0
     THEN /\ last_command' = Stored(last_command, 0, Append(Line, Nul))
          /\ last_command_len' = buffer_index
     ELSE UNCHANGED <<last_command, last_command_len>>
  /\ UNCHANGED <<shift_pressed, caps_locks>>

(* main's print("OS> "), in user mode.                                     *)
MainPrompt ==
  /\ rest # <<>>
  /\ con' = PrintChar(con, Head(rest))
  /\ rest' = Tail(rest)
  /\ UNCHANGED <<lineVars, shift_pressed, caps_locks, early>>

Init ==
  /\ con = Reset
  /\ key_buffer = [i \in Places |-> Nul] /\ buffer_index = 0
  /\ last_command = [i \in Places |-> Nul] /\ last_command_len = 0
  /\ shift_pressed = FALSE /\ caps_locks = FALSE
  /\ rest = Prompt /\ early = FALSE

Next ==
  \/ \E key \in Keys : CharKey(key)
  \/ TabKey \/ UpKey \/ BackspaceKey \/ EnterKey \/ CapsKey
  \/ \E pressed \in BOOLEAN : ShiftKey(pressed)
  \/ MainPrompt

Spec == Init /\ [][Next]_vars

-----------------------------------------------------------------------------
Printed == Graphic \cup Char \cup {NL, BS, Blank}
TypeOK ==
  /\ key_buffer \in [Places -> Char \cup {Nul}] /\ buffer_index \in Places
  /\ last_command \in [Places -> Char \cup {Nul}] /\ last_command_len \in Places
  /\ shift_pressed \in BOOLEAN /\ caps_locks \in BOOLEAN /\ early \in BOOLEAN
  /\ con \in [klog : [0 .. KlogSize - 1 -> Printed], index : 0 .. KlogSize - 1,
              wrapped : BOOLEAN, dmesg : BOOLEAN, col : 0 .. Cols - 1, row : 0 .. Rows - 1,
              cells : [0 .. Rows - 1 -> [0 .. Cols - 1 -> Graphic \cup {Blank}]]]

(* The cells one after the other, and the place of the cursor among them.  *)
CellAt(k, n) == k.cells[n \div Cols][n % Cols]
Cursor(k) == k.row * Cols + k.col

(* The cells before the cursor show the text.  A character without a glyph *)
(* leaves its cell empty.                                                  *)
Shows(k, text) ==
  /\ Len(text) <= Cursor(k)
  /\ \A i \in 1 .. Len(text) :
       CellAt(k, Cursor(k) - Len(text) + i - 1) = IF text[i] \in Graphic THEN text[i] ELSE Blank

(* The line on the screen is the line Enter executes: the cells before the *)
(* cursor show the prompt, as far as it is out, and the line, over the     *)
(* ends of lines, scrolling, erasing, completion and recall.  A key struck *)
(* before main's prompt is out is the exception: the prompt then comes in  *)
(* the middle of the line.                                                 *)
Displayed == SubSeq(Prompt, 1, Len(Prompt) - Len(rest)) \o Line
LineOnScreen == ~early => Shows(con, Displayed)

(* Nothing is on the screen at the cursor or after it. *)
BlankAfter(k) == \A n \in Cursor(k) .. Cols * Rows - 1 : CellAt(k, n) = Blank

(* The screen shows the line, and only the line, at its end.               *)
ScreenShowsLine == TypeOK /\ LineOnScreen /\ BlankAfter(con)

(* What makes it inductive: lines are what was typed, and none is typed    *)
(* before the prompt is out if no key is early.                            *)
KeyInv ==
  /\ ScreenShowsLine
  /\ Line \in Seq(Char) /\ Text(last_command, last_command_len) \in Seq(Char)
  /\ \E n \in 0 .. Len(Prompt) : rest = SubSeq(Prompt, n + 1, Len(Prompt))
  /\ rest # <<>> /\ ~early => buffer_index = 0

(* The buffers and their lengths are a line editor.                        *)
Editor == INSTANCE LineEditor
  WITH Limit <- BufLimit, Words <- {Commands[i] : i \in 1 .. Len(Commands)},
       line <- Line, last <- Text(last_command, last_command_len)
ImplementsEditor == Editor!Spec
=============================================================================

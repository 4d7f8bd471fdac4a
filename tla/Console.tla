------------------------------- MODULE Console -------------------------------
(***************************************************************************)
(* The screen and the kernel log with the two that print: main, and the    *)
(* interrupt handlers.                                                     *)
(*                                                                         *)
(* A handler prints whole texts, as interrupts are off in it: main waits   *)
(* until the last character is out.  main prints its prompt with           *)
(* interrupts on: each of its loads and stores of log and cursor is a step *)
(* of its own, and a handler may print, clear or dump between any two.     *)
(* Pixels are coarser: a glyph is drawn, and a line of the screen moved up *)
(* when it scrolls, in one step.                                           *)
(***************************************************************************)
EXTENDS Screen

CONSTANTS
  Prompt,          \* what main prints after the switch to user mode
  Texts,           \* what interrupt handlers print
  MaxDuring,       \* characters handlers print while main prints its prompt
  MaxText          \* characters handlers print in all

Chars == Graphic \cup {NL, BS}

(* During the prompt, the first thing printed, the log does not fill up.    *)
ASSUME ConsoleAssumption ==
  /\ Prompt \in Seq(Graphic) /\ \A text \in Texts : text \in Seq(Chars)
  /\ MaxDuring \in Nat /\ MaxText \in Nat /\ MaxDuring <= MaxText
  /\ KlogSize > MaxDuring + Len(Prompt)

VARIABLES
  con,       \* the variables of screen.c, and the cells of the screen
  main,      \* main's progress: program counter, rest of the prompt, registers
  out,       \* what a handler has still to print
  logged,    \* every character passed to log_char, the last KlogSize of them
  torn,      \* whether a handler printed while main was inside print_char
  printed    \* how much handlers have printed

vars == <<con, main, out, logged, torn, printed>>

LastOf(s) == IF Len(s) <= KlogSize THEN s ELSE SubSeq(s, Len(s) - KlogSize + 1, Len(s))

(* No handler is at work.                                                  *)
Idle == out = <<>> /\ ~con.dmesg

-----------------------------------------------------------------------------
(* print_char as main runs it.  Each step is one access to a variable that *)
(* a handler changes too, with the work on registers around it.            *)
MainStep(from, to) == Idle /\ main.pc = from /\ main' = [main EXCEPT !.pc = to]
MainLoads(from, to, value) ==
  Idle /\ main.pc = from /\ main' = [main EXCEPT !.pc = to, !.reg = value]

(* print_char returns: the next character. *)
Returned == [pc |-> "log", rest |-> Tail(main.rest), reg |-> 0, x |-> 0, y |-> 0]

LoadIndex ==
  /\ Idle /\ main.pc = "log" /\ main.rest # <<>>
  /\ main' = [main EXCEPT !.pc = "log2", !.reg = con.index]
  /\ logged' = LastOf(Append(logged, Head(main.rest)))
  /\ UNCHANGED <<con, out, torn, printed>>

StoreIndex ==
  /\ MainStep("log2", "log3")
  /\ con' = [con EXCEPT !.index = main.reg + 1]
  /\ UNCHANGED <<out, logged, torn, printed>>

StoreChar ==
  /\ MainStep("log3", "log4")
  /\ con' = [con EXCEPT !.klog[main.reg] = Head(main.rest)]
  /\ UNCHANGED <<out, logged, torn, printed>>

(* One load only, as the index is never at the end here: the log does not  *)
(* fill up during the prompt.                                              *)
CheckIndex ==
  /\ MainStep("log4", "x")
  /\ con' = WrapLog(con)
  /\ UNCHANGED <<out, logged, torn, printed>>

LoadX ==
  /\ Idle /\ main.pc = "x"
  /\ main' = [main EXCEPT !.pc = "y", !.x = con.col]
  /\ UNCHANGED <<con, out, logged, torn, printed>>

LoadY ==
  /\ Idle /\ main.pc = "y"
  /\ main' = [main EXCEPT !.pc = "draw", !.y = con.row]
  /\ UNCHANGED <<con, out, logged, torn, printed>>

DrawAt ==
  /\ MainStep("draw", "col")
  /\ con' = DrawChar(con, Head(main.rest), main.y, main.x)
  /\ UNCHANGED <<out, logged, torn, printed>>

LoadCol ==
  /\ MainLoads("col", "col2", con.col)
  /\ UNCHANGED <<con, out, logged, torn, printed>>

StoreCol ==
  /\ MainStep("col2", "wrap")
  /\ con' = [con EXCEPT !.col = main.reg + 1]
  /\ UNCHANGED <<out, logged, torn, printed>>

(* current_col >= MAX_COLS: the line is full. *)
CheckCol ==
  /\ MainStep("wrap", IF con.col >= Cols THEN "home" ELSE "end")
  /\ UNCHANGED <<con, out, logged, torn, printed>>

ResetCol ==
  /\ MainStep("home", "row")
  /\ con' = [con EXCEPT !.col = 0]
  /\ UNCHANGED <<out, logged, torn, printed>>

LoadRow ==
  /\ MainLoads("row", "row2", con.row)
  /\ UNCHANGED <<con, out, logged, torn, printed>>

StoreRow ==
  /\ MainStep("row2", "end")
  /\ con' = [con EXCEPT !.row = main.reg + 1]
  /\ UNCHANGED <<out, logged, torn, printed>>

(* current_row >= MAX_ROWS: the row has left the screen. *)
CheckRow ==
  /\ Idle /\ main.pc = "end"
  /\ main' = IF con.row >= Rows THEN [main EXCEPT !.pc = "copy", !.reg = 0] ELSE Returned
  /\ UNCHANGED <<con, out, logged, torn, printed>>

(* scroll_screen, cut between two lines and before each of its stores.  As *)
(* a cell is moved when its line is, what a handler draws meanwhile is     *)
(* moved or not.                                                           *)
ScrollLine ==
  /\ Idle /\ main.pc = "copy"
  /\ LET last == main.reg = Rows - 1
     IN  /\ con' = [con EXCEPT !.cells[main.reg] =
                      IF last THEN BlankCells[main.reg] ELSE con.cells[main.reg + 1]]
         /\ main' = [main EXCEPT !.pc = IF last THEN "last" ELSE "copy", !.reg = @ + 1]
  /\ UNCHANGED <<out, logged, torn, printed>>

(* One row up from where the cursor is, which a handler may have changed.  *)
SetLastRow_Decrement ==
  /\ MainStep("last", "first")
  /\ con' = [con EXCEPT !.row = @ - 1]
  /\ UNCHANGED <<out, logged, torn, printed>>

SetLastRow ==
  /\ MainStep("last", "first")
  /\ con' = [con EXCEPT !.row = Rows - 1]
  /\ UNCHANGED <<out, logged, torn, printed>>

SetFirstCol ==
  /\ Idle /\ main.pc = "first"
  /\ main' = Returned
  /\ con' = [con EXCEPT !.col = 0]
  /\ UNCHANGED <<out, logged, torn, printed>>

MainNext ==
  \/ LoadIndex \/ StoreIndex \/ StoreChar \/ CheckIndex \/ LoadX \/ LoadY \/ DrawAt
  \/ LoadCol \/ StoreCol \/ CheckCol \/ ResetCol \/ LoadRow \/ StoreRow
  \/ CheckRow \/ ScrollLine \/ SetLastRow \/ SetFirstCol

(* An interrupt handler prints.                                            *)
HandlerPrints(text) ==
  /\ Idle
  /\ printed + Len(text) <= IF main.rest = <<>> THEN MaxText ELSE MaxDuring
  /\ out' = text
  /\ UNCHANGED <<con, main, logged, torn, printed>>

HandlerChar ==
  /\ out # <<>>
  /\ con' = PrintChar(con, Head(out))
  /\ out' = Tail(out)
  /\ \/ /\ con.dmesg
        /\ UNCHANGED <<logged, torn, printed>>
     \/ /\ ~con.dmesg
        /\ logged' = LastOf(Append(logged, Head(out)))
        /\ torn' = (torn \/ main.pc # "log")
        /\ printed' = printed + 1
  /\ UNCHANGED main

(* The command clear.                                                      *)
HandlerClears ==
  /\ Idle
  /\ con' = ClearScreen(con)
  /\ UNCHANGED <<main, out, logged, torn, printed>>

(* The command kmsg: what is dumped is not logged again.  The lines around  *)
(* it are left out; the log does not change while it is printed.           *)
HandlerDumps ==
  /\ Idle
  /\ con' = [con EXCEPT !.dmesg = TRUE]
  /\ out' = DumpText(con)
  /\ UNCHANGED <<main, logged, torn, printed>>

DumpEnds ==
  /\ out = <<>> /\ con.dmesg
  /\ con' = [con EXCEPT !.dmesg = FALSE]
  /\ UNCHANGED <<main, out, logged, torn, printed>>

Init ==
  /\ con = Reset
  /\ main = [pc |-> "log", rest |-> Prompt, reg |-> 0, x |-> 0, y |-> 0]
  /\ out = <<>> /\ logged = <<>> /\ torn = FALSE /\ printed = 0

Next ==
  \/ MainNext
  \/ \E text \in Texts : HandlerPrints(text)
  \/ HandlerChar \/ HandlerClears \/ HandlerDumps \/ DumpEnds

Spec == Init /\ [][Next]_vars

-----------------------------------------------------------------------------
TypeOK ==
  /\ con \in [klog : [0 .. KlogSize - 1 -> Graphic \cup {NL, BS, Blank}],
              index : 0 .. KlogSize, wrapped : BOOLEAN, dmesg : BOOLEAN,
              col : 0 .. Cols, row : 0 .. Rows,
              cells : [0 .. Rows - 1 -> [0 .. Cols - 1 -> Graphic \cup {Blank}]]]
  /\ torn \in BOOLEAN /\ printed \in 0 .. MaxText

(* The cursor is on the screen and the log's index in the log whenever     *)
(* main is not inside print_char, wherever inside it a handler printed.    *)
RestInBounds ==
  main.pc = "log" => con.index < KlogSize /\ con.col < Cols /\ con.row < Rows

(* No interleaving stores outside the log, draws outside the screen, or    *)
(* leaves index or cursor where the next character of main would.  (While  *)
(* main is between its increment and its check the row may be one too far, *)
(* and put_pixel then drops what a handler draws there.)                   *)
InBounds == TypeOK /\ RestInBounds

(* The log, read from its oldest place on. *)
LogText ==
  (IF con.wrapped THEN [i \in 1 .. KlogSize - con.index |-> con.klog[con.index + i - 1]]
   ELSE <<>>)
    \o [i \in 1 .. con.index |-> con.klog[i - 1]]

(* Unless a handler printed while main was inside print_char, the log has  *)
(* exactly the last characters printed: none is lost and none is older.    *)
LogHoldsLast == ~torn /\ main.pc = "log" => LogText = logged

(* A handler in the middle of main's print costs at most what was printed  *)
(* during the prompt: what is printed afterwards is in the log again.      *)
LogRecovers ==
  main.rest = <<>> =>
    LET n == Len(LogText)
        after == IF printed > MaxDuring THEN printed - MaxDuring ELSE 0
    IN  \A i \in 0 .. n - 1 : i < after => LogText[n - i] = logged[Len(logged) - i]

=============================================================================

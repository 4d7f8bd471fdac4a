-------------------------------- MODULE Screen --------------------------------
(***************************************************************************)
(* The functions of drivers/screen.c, as operators on a record k of its    *)
(* variables: the kernel log, through which every character printed goes,  *)
(* the cursor, and the cells of the screen.  A cell holds the character    *)
(* drawn there last; the colour and the pixels of its glyph are left out.  *)
(***************************************************************************)
EXTENDS Naturals, Sequences

CONSTANTS
  Cols, Rows,      \* MAX_COLS = 50, MAX_ROWS = 37
  KlogSize,        \* KLOG_SIZE = 4096
  Graphic,         \* the characters that have a glyph
  NL, BS,          \* the characters '\n' and '\b'
  Blank            \* a cell with nothing drawn

ASSUME ScreenAssumption ==
  /\ Cols \in Nat \ {0} /\ Rows \in Nat \ {0} /\ KlogSize \in Nat \ {0}
  /\ {NL, BS, Blank} \cap Graphic = {} /\ NL # BS

BlankCells == [r \in 0 .. Rows - 1 |-> [c \in 0 .. Cols - 1 |-> Blank]]

(* The log as it is in memory at start: zeros. *)
Reset == [klog |-> [i \in 0 .. KlogSize - 1 |-> Blank], index |-> 0, wrapped |-> FALSE,
          dmesg |-> FALSE, col |-> 0, row |-> 0, cells |-> BlankCells]

-----------------------------------------------------------------------------
(* The last place of the log is never used.                                *)
WrapLog_Early(k) ==
  IF k.index >= KlogSize - 1 THEN [k EXCEPT !.index = 0, !.wrapped = TRUE] ELSE k

(* klog_index >= KLOG_SIZE: the log begins again.                          *)
WrapLog(k) ==
  IF k.index >= KlogSize THEN [k EXCEPT !.index = 0, !.wrapped = TRUE] ELSE k

(* The index is incremented before it is used.                             *)
LogChar_PreIncrement(k, c) ==
  IF k.dmesg THEN k ELSE WrapLog([k EXCEPT !.klog[k.index + 1] = c, !.index = @ + 1])

LogChar(k, c) ==
  IF k.dmesg THEN k ELSE WrapLog([k EXCEPT !.klog[k.index] = c, !.index = @ + 1])

(* put_pixel drops what is outside the screen, and a character without a   *)
(* glyph draws nothing.                                                    *)
DrawChar(k, c, row, col) ==
  IF c \in Graphic /\ row < Rows /\ col < Cols THEN [k EXCEPT !.cells[row][col] = c] ELSE k

WrapLine(k) == IF k.col >= Cols THEN [k EXCEPT !.col = 0, !.row = @ + 1] ELSE k

ClearScreen(k) == [k EXCEPT !.cells = BlankCells, !.col = 0, !.row = 0]

Scroll(k) ==
  IF k.row < Rows THEN k
  ELSE [k EXCEPT !.cells = [r \in 0 .. Rows - 1 |->
                              IF r = Rows - 1 THEN BlankCells[r] ELSE k.cells[r + 1]],
                 !.row = Rows - 1, !.col = 0]

(* backspace_on_screen: back over the end of the line above, too.           *)
Backspace(k) ==
  LET back == IF k.col > 0 THEN [k EXCEPT !.col = @ - 1]
              ELSE IF k.row > 0 THEN [k EXCEPT !.row = @ - 1, !.col = Cols - 1]
              ELSE k
  IN  IF back.row < Rows THEN [back EXCEPT !.cells[back.row][back.col] = Blank] ELSE back

(* print_char.  A control character other than \n and \b moves the cursor    *)
(* like any other, over whatever its cell shows.                           *)
PrintChar(k, c) ==
  LET l == LogChar(k, c)
  IN  Scroll(CASE c = NL -> [l EXCEPT !.row = @ + 1, !.col = 0]
               [] c = BS -> Backspace(l)
               [] OTHER -> WrapLine([DrawChar(l, c, l.row, l.col) EXCEPT !.col = @ + 1]))

PrintText(k, text) ==
  LET after[n \in 0 .. Len(text)] == IF n = 0 THEN k ELSE PrintChar(after[n - 1], text[n])
  IN  after[Len(text)]

(* What dump_kernel_log prints of the log.                                 *)
DumpText(k) ==
  (IF k.wrapped THEN [i \in 1 .. KlogSize |-> k.klog[i - 1]] ELSE <<>>)
    \o [i \in 1 .. k.index |-> k.klog[i - 1]]
=============================================================================

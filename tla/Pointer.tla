-------------------------------- MODULE Pointer --------------------------------
(***************************************************************************)
(* The mouse pointer over the text: drivers/mouse.c from a complete packet *)
(* on, put_pixel and get_pixel of drivers/vga.c, and what the other code   *)
(* does to the screen meanwhile.                                           *)
(*                                                                         *)
(* There is one frame buffer.  The handler puts back the square it saved,  *)
(* saves the square the pointer moves to, and draws.  It is not            *)
(* interrupted, but comes between any two pixels main draws; handlers of   *)
(* keys, which clear and scroll, are whole steps.                          *)
(*                                                                         *)
(* text is the screen as it would be without a mouse.  stale are the       *)
(* pixels whose text the pointer got in the way of: they were under its    *)
(* square when they were drawn, or scrolled with it.  Nothing in the       *)
(* kernel keeps either.                                                    *)
(***************************************************************************)
EXTENDS Integers

CONSTANTS
  Width, Height,  \* SCREEN_WIDTH, SCREEN_HEIGHT: 800, 600
  Size,           \* 16: the side of the pointer's square
  Line,           \* 8 * FONT_SCALE = 16: the pixels a scroll moves
  Outline, Inside,\* the 1s and the 2s of mouse_pointer: sets of <<x, y>>
  Byte,           \* 256
  StartAt,        \* <<400, 300>>
  Movements,      \* what the mouse reports: <<x, y>>
  Inks,           \* colours the other code draws in
  MaxDraws        \* bound on what it draws

Black == 0  White == 1  Green == 2

VARIABLES
  vga_mem,
  mouse_back_buffer,
  mouse, prev_mouse,   \* <<mouse_x, mouse_y>>, <<prev_mouse_x, prev_mouse_y>>
  text, stale, draws

pointerVars == <<vga_mem, mouse_back_buffer, mouse, prev_mouse, text, stale, draws>>

Pixels == (0 .. Width - 1) \X (0 .. Height - 1)
Offsets == (0 .. Size - 1) \X (0 .. Size - 1)
Spot(p, o) == <<p[1] + o[1], p[2] + o[2]>>
Square(p) == {Spot(p, o) : o \in Offsets}

ASSUME PointerAssumption ==
  /\ {Width, Height, Size, Line, Byte} \subseteq Nat \ {0} /\ MaxDraws \in Nat
  /\ Outline \cup Inside \subseteq Offsets
  /\ StartAt \in Pixels /\ Square(StartAt) \subseteq Pixels
  /\ Byte % 2 = 0 /\ \A m \in Movements : m[1] \in -Byte .. Byte - 1 /\ m[2] \in -Byte .. Byte - 1

(* put_pixel drops what is outside the screen, get_pixel reads it as 0.    *)
PutPixels(screen, new) ==
  [p \in Pixels |-> IF p \in DOMAIN new THEN new[p] ELSE screen[p]]
get_pixel(screen, p) == IF p \in Pixels THEN screen[p] ELSE Black

-----------------------------------------------------------------------------
(* What the handler makes of the low byte and the sign of a movement:      *)
(* mouse_bytes are chars, so the byte has a sign of its own already.       *)
Delta(m) ==
  LET byte == m % Byte
      char == IF byte >= Byte \div 2 THEN byte - Byte ELSE byte
  IN  IF m < 0 /\ char >= 0 THEN char - Byte ELSE char

Clamp(v, max) == IF v < 0 THEN 0 ELSE IF v > max THEN max ELSE v

save_background(screen, p) == [o \in Offsets |-> get_pixel(screen, Spot(p, o))]

(* Rows and columns are exchanged. *)
restore_background_Turned(screen, back, p) ==
  PutPixels(screen, [q \in Square(p) |-> back[<<q[2] - p[2], q[1] - p[1]>>]])
restore_background(screen, back, p) ==
  PutPixels(screen, [q \in Square(p) |-> back[<<q[1] - p[1], q[2] - p[2]>>]])

draw_mouse_pointer(screen, p, fill_color) ==
  PutPixels(screen, [q \in {Spot(p, o) : o \in Outline \cup Inside} |->
                       IF <<q[1] - p[1], q[2] - p[2]>> \in Outline THEN Black ELSE fill_color])

Target(m) ==
  <<Clamp(mouse[1] + Delta(m[1]), Width - Size), Clamp(mouse[2] - Delta(m[2]), Height - Size)>>

(* The square is saved with the old pointer in it. *)
MousePacket_SavesFirst(m, button) ==
  LET to == Target(m)
      restored == restore_background(vga_mem, mouse_back_buffer, prev_mouse)
  IN  /\ mouse' = to /\ prev_mouse' = to
      /\ mouse_back_buffer' = save_background(vga_mem, to)
      /\ vga_mem' = draw_mouse_pointer(restored, to, IF button THEN Green ELSE White)
      /\ UNCHANGED <<text, stale, draws>>
(* The packet of movement m, with or without the left button.              *)
MousePacket(m, button) ==
  LET to == Target(m)
      restored == restore_background(vga_mem, mouse_back_buffer, prev_mouse)
  IN  /\ mouse' = to /\ prev_mouse' = to
      /\ mouse_back_buffer' = save_background(restored, to)
      /\ vga_mem' = draw_mouse_pointer(restored, to, IF button THEN Green ELSE White)
      /\ UNCHANGED <<text, stale, draws>>

-----------------------------------------------------------------------------
(* The other code.  draw_rectangle, and with it draw_char_graphic, is a    *)
(* sequence of these.                                                      *)
PutPixel(p, ink) ==
  /\ draws < MaxDraws /\ draws' = draws + 1
  /\ vga_mem' = [vga_mem EXCEPT ![p] = ink] /\ text' = [text EXCEPT ![p] = ink]
  /\ stale' = IF p \in Square(prev_mouse) THEN stale \cup {p} ELSE stale \ {p}
  /\ UNCHANGED <<mouse_back_buffer, mouse, prev_mouse>>

Blank == [p \in Pixels |-> Black]
clear_screen ==
  /\ draws < MaxDraws /\ draws' = draws + 1
  /\ vga_mem' = Blank /\ text' = Blank
  /\ stale' = Square(prev_mouse)
  /\ UNCHANGED <<mouse_back_buffer, mouse, prev_mouse>>

(* scroll_screen copies what it finds, the pointer with it.                *)
Scrolled(screen) ==
  [p \in Pixels |-> IF p[2] < Height - Line THEN screen[<<p[1], p[2] + Line>>] ELSE Black]
scroll_screen ==
  /\ draws < MaxDraws /\ draws' = draws + 1
  /\ vga_mem' = Scrolled(vga_mem) /\ text' = Scrolled(text)
  /\ stale' = Square(prev_mouse)
              \cup {p \in Pixels : <<p[1], p[2] + Line>> \in stale \cup Square(prev_mouse)}
  /\ UNCHANGED <<mouse_back_buffer, mouse, prev_mouse>>

(* The buffer starts as zeros and the pointer is not drawn before its      *)
(* first movement, which blackens the middle of the screen.                *)
PointerInit ==
  /\ vga_mem = Blank /\ text = Blank
  /\ mouse_back_buffer = [o \in Offsets |-> Black]
  /\ mouse = StartAt /\ prev_mouse = StartAt
  /\ stale = {} /\ draws = 0

PointerNext ==
  \/ \E m \in Movements, button \in BOOLEAN : MousePacket(m, button)
  \/ \E p \in Pixels, ink \in Inks : PutPixel(p, ink)
  \/ clear_screen \/ scroll_screen

PointerSpec == PointerInit /\ [][PointerNext]_pointerVars
-----------------------------------------------------------------------------
PointerTypeOK ==
  /\ vga_mem \in [Pixels -> {Black, White, Green} \cup Inks]
  /\ mouse_back_buffer \in [Offsets -> {Black, White, Green} \cup Inks]
  /\ prev_mouse = mouse /\ Square(mouse) \subseteq Pixels
  /\ stale \subseteq Pixels

(* However the pointer moves over it, text stays on the screen, but for    *)
(* the pixels it hides and those it got in the way of.                     *)
TextKept == \A p \in Pixels \ (stale \cup Square(mouse)) : vga_mem[p] = text[p]

(* A movement leaves nothing behind and takes nothing away: under the      *)
(* pointer, and where it was, is what was there before.                    *)
Peeled == restore_background(vga_mem, mouse_back_buffer, prev_mouse)
MovesLeaveNoTrace == [][draws' = draws => Peeled' = Peeled]_pointerVars

(* The pointer goes where the mouse goes, up to the edge of the screen, as *)
(* long as no movement to the right or up is half a byte or more.          *)
GoesTo(x, v, max) == x \in 0 .. max /\ (x = v \/ (x = 0 /\ v < 0) \/ (x = max /\ v > max))
PointerFollows ==
  \A m \in Movements :
    /\ GoesTo(Target(m)[1], mouse[1] + m[1], Width - Size)
    /\ GoesTo(Target(m)[2], mouse[2] - m[2], Height - Size)

(* Both: the text is kept, and the pointer is where the mouse has gone.    *)
PointerSound == TextKept /\ PointerFollows

(* What makes them inductive: with the pointer taken away the screen shows *)
(* the text but where it got in the way.                                   *)
PointerInv ==
  /\ PointerTypeOK /\ text \in [Pixels -> {Black, White, Green} \cup Inks]
  /\ mouse \in Pixels /\ draws \in Nat
  /\ \A p \in Pixels \ stale : Peeled[p] = text[p]
=============================================================================

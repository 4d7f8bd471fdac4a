---------------------------- MODULE ConsoleProofs ----------------------------
(***************************************************************************)
(* The screen and the kernel log, printed to by main and by the interrupt  *)
(* handlers: nothing is drawn or stored outside, whatever the handlers'    *)
(* characters come between, the log holds the last characters printed, and *)
(* it holds them again after main's prompt.                                *)
(***************************************************************************)
EXTENDS Console, SequenceTheorems, TLAPS

-----------------------------------------------------------------------------
(* The functions of screen.c.  In the middle of print_char a coordinate is *)
(* out of range, so nothing is said of them here.                          *)
Shown == Chars \cup {Blank}
Cells == [0 .. Rows - 1 -> [0 .. Cols - 1 -> Graphic \cup {Blank}]]
Logs == [0 .. KlogSize - 1 -> Shown]
Consoles ==
  [klog : Logs, index : Nat, wrapped : BOOLEAN, dmesg : BOOLEAN, col : Nat, row : Nat,
   cells : Cells]

SameLog(k, l) ==
  l.klog = k.klog /\ l.index = k.index /\ l.wrapped = k.wrapped /\ l.dmesg = k.dmesg
SameCursor(k, l) == l.col = k.col /\ l.row = k.row /\ l.cells = k.cells

LEMMA Sizes ==
  /\ Cols \in Nat /\ 1 <= Cols /\ Rows \in Nat /\ 1 <= Rows /\ KlogSize \in Nat /\ 1 <= KlogSize
  /\ NL # BS /\ NL \notin Graphic /\ BS \notin Graphic /\ Blank \notin Graphic
BY ScreenAssumption

LEMMA BlankIsCells == BlankCells \in Cells
BY DEF BlankCells, Cells

LEMMA DrawIs ==
  ASSUME NEW k \in Consoles, NEW c, NEW row \in Nat, NEW col \in Nat
  PROVE  LET d == DrawChar(k, c, row, col)
         IN  d \in Consoles /\ SameLog(k, d) /\ d.col = k.col /\ d.row = k.row
<1>1. CASE c \in Graphic /\ row < Rows /\ col < Cols
  <2>1. PICK d : d = [k EXCEPT !.cells[row][col] = c]
    OBVIOUS
  <2>2. d.cells = [k.cells EXCEPT ![row] = [k.cells[row] EXCEPT ![col] = c]]
    BY <2>1 DEF Consoles
  <2>3. d.cells \in Cells
    BY <1>1, <2>2, Sizes DEF Consoles, Cells
  <2>4. SameLog(k, d) /\ d.col = k.col /\ d.row = k.row
    BY <2>1 DEF SameLog, Consoles
  <2>5. d \in Consoles
    BY <2>1, <2>3 DEF Consoles
  <2> QED BY <1>1, <2>1, <2>4, <2>5 DEF DrawChar
<1>2. CASE ~(c \in Graphic /\ row < Rows /\ col < Cols)
  BY <1>2 DEF DrawChar, SameLog
<1> QED BY <1>1, <1>2

LEMMA WrapLineIs ==
  ASSUME NEW k \in Consoles
  PROVE  LET d == WrapLine(k)
         IN  /\ d \in Consoles /\ SameLog(k, d)
             /\ d.col < Cols
             /\ d.row = k.row \/ (k.col >= Cols /\ d.row = k.row + 1)
<1>1. CASE k.col >= Cols
  <2>a. PICK c \in Nat, r \in Nat : c = 0 /\ r = k.row + 1
    BY DEF Consoles
  <2>1. PICK d : d = [k EXCEPT !.col = c, !.row = r]
    OBVIOUS
  <2>b. d = WrapLine(k)
    BY <1>1, <2>a, <2>1 DEF WrapLine
  <2>2. d \in Consoles
    BY <2>1 DEF Consoles
  <2>c. d.col = c /\ d.row = r
    BY <2>1 DEF Consoles
  <2>3. SameLog(k, d)
    BY <2>1 DEF Consoles, SameLog
  <2> QED BY <1>1, <2>a, <2>b, <2>2, <2>c, <2>3, Sizes
<1>2. CASE ~(k.col >= Cols)
  BY <1>2, Sizes DEF WrapLine, SameLog, Consoles
<1> QED BY <1>1, <1>2

LEMMA ScrollIs ==
  ASSUME NEW k \in Consoles
  PROVE  LET d == Scroll(k)
         IN  /\ d \in Consoles /\ SameLog(k, d)
             /\ d.row < Rows /\ (k.col < Cols => d.col < Cols)
<1>1. CASE k.row < Rows
  BY <1>1 DEF Scroll, SameLog
<1>2. CASE ~(k.row < Rows)
  <2>1. PICK s : s = [r \in 0 .. Rows - 1 |-> IF r = Rows - 1 THEN BlankCells[r] ELSE k.cells[r + 1]]
    OBVIOUS
  <2>2. s \in Cells
    <3>1. \A r \in 0 .. Rows - 1 : r # Rows - 1 => r + 1 \in 0 .. Rows - 1
      BY Sizes
    <3> QED BY <2>1, <3>1, BlankIsCells DEF Cells, Consoles
  <2>a. PICK c \in Nat, r \in Nat : c = 0 /\ r = Rows - 1
    BY Sizes
  <2>3. PICK d : d = [k EXCEPT !.cells = s, !.row = r, !.col = c]
    OBVIOUS
  <2>b. d \in Consoles
    BY <2>2, <2>3 DEF Consoles
  <2>4. d \in Consoles /\ d.row = Rows - 1 /\ d.col = 0
    BY <2>a, <2>b, <2>3 DEF Consoles
  <2>5. SameLog(k, d)
    BY <2>3 DEF Consoles, SameLog
  <2>6. Scroll(k) = d
    BY <1>2, <2>1, <2>a, <2>3 DEF Scroll
  <2> QED BY <2>4, <2>5, <2>6, Sizes
<1> QED BY <1>1, <1>2

LEMMA BackspaceIs ==
  ASSUME NEW k \in Consoles, k.row <= Rows, k.col <= Cols
  PROVE  LET d == Backspace(k)
         IN  d \in Consoles /\ SameLog(k, d) /\ d.row <= Rows /\ d.col < Cols
<1>1. PICK b : b = IF k.col > 0 THEN [k EXCEPT !.col = @ - 1]
              ELSE IF k.row > 0 THEN [k EXCEPT !.row = @ - 1, !.col = Cols - 1]
              ELSE k
  OBVIOUS
<1>2. b \in Consoles /\ SameLog(k, b) /\ b.row <= Rows /\ b.col < Cols
  <2>1. CASE k.col > 0
    <3>1. b = [k EXCEPT !.col = @ - 1]
      BY <1>1, <2>1
    <3>2. b \in Consoles /\ b.row = k.row /\ b.col = k.col - 1
      BY <2>1, <3>1 DEF Consoles
    <3>3. SameLog(k, b)
      BY <3>1 DEF Consoles, SameLog
    <3> QED BY <2>1, <3>2, <3>3, Sizes DEF Consoles
  <2>2. CASE ~(k.col > 0) /\ k.row > 0
    <3>a. PICK c \in Nat : c = Cols - 1
      BY Sizes
    <3>c. PICK r \in Nat : r = k.row - 1
      BY <2>2 DEF Consoles
    <3>1. b = [k EXCEPT !.row = r, !.col = c]
      BY <1>1, <2>2, <3>a, <3>c
    <3>b. b \in Consoles
      BY <3>1 DEF Consoles
    <3>2. b \in Consoles /\ b.row = k.row - 1 /\ b.col = Cols - 1
      BY <3>a, <3>b, <3>c, <3>1 DEF Consoles
    <3>3. SameLog(k, b)
      BY <3>1 DEF Consoles, SameLog
    <3> QED BY <2>2, <3>2, <3>3, Sizes DEF Consoles
  <2>3. CASE ~(k.col > 0) /\ ~(k.row > 0)
    BY <1>1, <2>3, Sizes DEF SameLog, Consoles
  <2> QED BY <2>1, <2>2, <2>3
<1>3. Backspace(k) = IF b.row < Rows THEN [b EXCEPT !.cells[b.row][b.col] = Blank] ELSE b
  BY <1>1 DEF Backspace
<1>4. CASE b.row < Rows
  <2>1. PICK d : d = [b EXCEPT !.cells[b.row][b.col] = Blank]
    OBVIOUS
  <2>2. d.cells = [b.cells EXCEPT ![b.row] = [b.cells[b.row] EXCEPT ![b.col] = Blank]]
    BY <1>2, <2>1 DEF Consoles
  <2>3. d.cells \in Cells
    BY <1>2, <1>4, <2>2, Sizes DEF Consoles, Cells
  <2>4. SameLog(b, d) /\ d.col = b.col /\ d.row = b.row
    BY <1>2, <2>1 DEF SameLog, Consoles
  <2>5. d \in Consoles
    BY <1>2, <2>1, <2>3 DEF Consoles
  <2> QED BY <1>2, <1>3, <1>4, <2>1, <2>4, <2>5 DEF SameLog
<1>5. CASE ~(b.row < Rows)
  BY <1>2, <1>3, <1>5
<1> QED BY <1>4, <1>5

LEMMA ClearIs ==
  ASSUME NEW k \in Consoles
  PROVE  LET d == ClearScreen(k)
         IN  d \in Consoles /\ SameLog(k, d) /\ d.col = 0 /\ d.row = 0
<1>1. PICK d : d = [k EXCEPT !.cells = BlankCells, !.col = 0, !.row = 0]
  OBVIOUS
<1>2. d \in Consoles /\ d.col = 0 /\ d.row = 0
  BY <1>1, BlankIsCells DEF Consoles
<1>3. SameLog(k, d)
  BY <1>1 DEF Consoles, SameLog
<1> QED BY <1>1, <1>2, <1>3 DEF ClearScreen

-----------------------------------------------------------------------------
(* log_char, while the log is not dumped, stores the character at the      *)
(* index and moves it on, back to 0 after the last place.                  *)
LEMMA WrapLogIs ==
  ASSUME NEW k \in Consoles
  PROVE  LET d == WrapLog(k)
         IN  /\ d \in Consoles /\ SameCursor(k, d)
             /\ d.klog = k.klog /\ d.dmesg = k.dmesg
             /\ k.index < KlogSize => d.index = k.index /\ d.wrapped = k.wrapped
             /\ k.index >= KlogSize => d.index = 0 /\ d.wrapped
<1>1. CASE k.index >= KlogSize
  <2>1. PICK z \in Nat : z = 0
    OBVIOUS
  <2>2. PICK d : d = [k EXCEPT !.index = z, !.wrapped = TRUE]
    OBVIOUS
  <2>3. d = WrapLog(k)
    BY <1>1, <2>1, <2>2 DEF WrapLog
  <2>4. d \in Consoles
    BY <2>2 DEF Consoles
  <2>5. SameCursor(k, d) /\ d.klog = k.klog /\ d.dmesg = k.dmesg /\ d.index = z /\ d.wrapped
    BY <2>2 DEF Consoles, SameCursor
  <2>6. ~(k.index < KlogSize)
    BY <1>1, Sizes DEF Consoles
  <2> QED BY <1>1, <2>1, <2>3, <2>4, <2>5, <2>6
<1>2. CASE ~(k.index >= KlogSize)
  BY <1>2, Sizes DEF WrapLog, SameCursor, Consoles
<1> QED BY <1>1, <1>2

LEMMA LogCharIs ==
  ASSUME NEW k \in Consoles, k.index < KlogSize, NEW c \in Shown
  PROVE  LET l == LogChar(k, c)
         IN  /\ l \in Consoles /\ SameCursor(k, l) /\ l.dmesg = k.dmesg
             /\ k.dmesg => SameLog(k, l)
             /\ ~k.dmesg =>
                  /\ l.klog = [k.klog EXCEPT ![k.index] = c]
                  /\ k.index + 1 < KlogSize => l.index = k.index + 1 /\ l.wrapped = k.wrapped
                  /\ k.index + 1 = KlogSize => l.index = 0 /\ l.wrapped
<1>1. CASE k.dmesg
  BY <1>1 DEF LogChar, SameLog, SameCursor
<1>2. CASE ~k.dmesg
  <2>1. PICK n \in Nat : n = k.index + 1
    BY DEF Consoles
  <2>2. PICK d : d = [k EXCEPT !.klog[k.index] = c, !.index = n]
    OBVIOUS
  <2>3. LogChar(k, c) = WrapLog(d)
    <3>1. [k EXCEPT !.klog[k.index] = c, !.index = @ + 1] = d
      BY <2>1, <2>2 DEF Consoles
    <3> QED BY <1>2, <3>1 DEF LogChar
  <2>4. d.klog = [k.klog EXCEPT ![k.index] = c] /\ d.index = n
    BY <2>2 DEF Consoles
  <2>5. d.klog \in Logs
    BY <2>4, Sizes DEF Consoles, Logs
  <2>6. SameCursor(k, d) /\ d.dmesg = k.dmesg /\ d.wrapped = k.wrapped
    BY <2>2 DEF Consoles, SameCursor
  <2>7. d \in Consoles
    BY <2>2, <2>5 DEF Consoles
  <2>8. n <= KlogSize
    BY <2>1, Sizes DEF Consoles
  <2> QED BY <1>2, <2>1, <2>3, <2>4, <2>6, <2>7, <2>8, WrapLogIs, Sizes DEF SameCursor
<1> QED BY <1>1, <1>2

(* print_char: the log as log_char leaves it, and the cursor back on the   *)
(* screen, wherever main's print_char had got to.                          *)
LEMMA PrintCharIs ==
  ASSUME NEW k \in Consoles, NEW c \in Shown, k.index < KlogSize, k.row <= Rows, k.col <= Cols
  PROVE  LET d == PrintChar(k, c)
         IN  d \in Consoles /\ d.row < Rows /\ d.col < Cols /\ SameLog(LogChar(k, c), d)
<1>1. PICK l \in Consoles : l = LogChar(k, c) /\ l.col = k.col /\ l.row = k.row
  BY LogCharIs DEF SameCursor
<1>2. ASSUME NEW e \in Consoles, SameLog(l, e), e.col < Cols,
             PrintChar(k, c) = Scroll(e)
      PROVE  LET d == PrintChar(k, c)
             IN  d \in Consoles /\ d.row < Rows /\ d.col < Cols /\ SameLog(l, d)
  BY <1>2, ScrollIs DEF SameLog
<1>3. CASE c = NL
  <2>1. PICK z \in Nat, r \in Nat : z = 0 /\ r = l.row + 1
    BY DEF Consoles
  <2>2. PICK e : e = [l EXCEPT !.row = r, !.col = z]
    OBVIOUS
  <2>3. e \in Consoles
    BY <2>2 DEF Consoles
  <2>4. SameLog(l, e) /\ e.row = r /\ e.col = z
    BY <2>2 DEF Consoles, SameLog
  <2>5. PrintChar(k, c) = Scroll(e)
    <3>1. [l EXCEPT !.row = @ + 1, !.col = 0] = e
      BY <2>1, <2>2
    <3> QED BY <1>1, <1>3, <3>1, Sizes DEF PrintChar
  <2>6. e.col < Cols
    BY <2>1, <2>4, Sizes
  <2> QED BY <1>1, <1>2, <2>3, <2>4, <2>5, <2>6
<1>4. CASE c = BS
  <2>1. PrintChar(k, c) = Scroll(Backspace(l))
    BY <1>1, <1>4, Sizes DEF PrintChar
  <2> QED BY <1>1, <1>2, <2>1, BackspaceIs
<1>5. CASE c # NL /\ c # BS
  <2>1. PICK d \in Consoles :
          d = DrawChar(l, c, l.row, l.col) /\ SameLog(l, d) /\ d.col = l.col /\ d.row = l.row
    BY DrawIs DEF Consoles
  <2>2. PICK n \in Nat : n = d.col + 1
    BY DEF Consoles
  <2>3. PICK e : e = [d EXCEPT !.col = n]
    OBVIOUS
  <2>4. e \in Consoles
    BY <2>3 DEF Consoles
  <2>5. SameLog(d, e) /\ e.row = d.row /\ e.col = n
    BY <2>3 DEF Consoles, SameLog
  <2>6. PrintChar(k, c) = Scroll(WrapLine(e))
    <3>1. [DrawChar(l, c, l.row, l.col) EXCEPT !.col = @ + 1] = e
      BY <2>1, <2>2, <2>3
    <3> QED BY <1>1, <1>5, <3>1 DEF PrintChar
  <2>7. PICK w \in Consoles : w = WrapLine(e) /\ SameLog(e, w) /\ w.col < Cols
    BY <2>4, WrapLineIs
  <2>8. SameLog(l, w)
    BY <2>1, <2>5, <2>7 DEF SameLog
  <2> QED BY <1>1, <1>2, <2>6, <2>7, <2>8
<1> QED BY <1>1, <1>3, <1>4, <1>5

-----------------------------------------------------------------------------
(* The log as a text: the last KlogSize characters, the oldest first.      *)
TextOf(k) ==
  (IF k.wrapped THEN [i \in 1 .. KlogSize - k.index |-> k.klog[k.index + i - 1]] ELSE <<>>)
    \o [i \in 1 .. k.index |-> k.klog[i - 1]]
TextLen(k) == IF k.wrapped THEN KlogSize ELSE k.index
Older(k) == IF k.wrapped THEN KlogSize - k.index ELSE 0
TextAt(k, i) == IF i <= Older(k) THEN k.klog[k.index + i - 1] ELSE k.klog[i - Older(k) - 1]

(* A character more, and the oldest of KlogSize gone.                      *)
Pushed(s, c, t) ==
  /\ Len(s) < KlogSize => Len(t) = Len(s) + 1 /\ \A i \in 1 .. Len(s) : t[i] = s[i]
  /\ Len(s) = KlogSize => Len(t) = KlogSize /\ \A i \in 1 .. KlogSize - 1 : t[i] = s[i + 1]
  /\ t[Len(t)] = c

LEMMA FunctionIsText ==
  ASSUME NEW S, NEW n \in Nat, NEW f \in [1 .. n -> S]
  PROVE  f \in Seq(S) /\ Len(f) = n
<1>1. f \in Seq(S)
  BY SeqDef
<1>2. Len(f) \in Nat /\ DOMAIN f = 1 .. Len(f) /\ DOMAIN f = 1 .. n
  BY <1>1, LenProperties
<1> QED BY <1>1, <1>2

LEMMA TextIs ==
  ASSUME NEW k \in Consoles, k.index <= KlogSize
  PROVE  LET s == TextOf(k)
         IN  /\ s \in Seq(Shown) /\ Len(s) = TextLen(k) /\ TextLen(k) \in 0 .. KlogSize
             /\ \A i \in 1 .. TextLen(k) : s[i] = TextAt(k, i)
<1>1. PICK n \in Nat : n = k.index /\ n <= KlogSize
  BY DEF Consoles
<1>2. PICK m \in Nat : m = Older(k) /\ m + n <= KlogSize /\ m + n = TextLen(k)
  BY <1>1, Sizes DEF Older, TextLen
<1>3. PICK a : a = IF k.wrapped THEN [i \in 1 .. KlogSize - k.index |-> k.klog[k.index + i - 1]]
              ELSE <<>>
  OBVIOUS
<1>4. PICK b : b = [i \in 1 .. n |-> k.klog[i - 1]]
  OBVIOUS
<1>5. k.klog \in [0 .. KlogSize - 1 -> Shown]
  BY DEF Consoles, Logs
<1>6. a \in Seq(Shown) /\ Len(a) = m /\ \A i \in 1 .. m : a[i] = k.klog[n + i - 1]
  <2>1. CASE k.wrapped
    <3>1. m = KlogSize - n /\ a = [i \in 1 .. m |-> k.klog[n + i - 1]]
      BY <1>1, <1>2, <1>3, <2>1 DEF Older
    <3>2. \A i \in 1 .. m : n + i - 1 \in 0 .. KlogSize - 1
      BY <3>1, Sizes
    <3>3. a \in [1 .. m -> Shown] /\ \A i \in 1 .. m : a[i] = k.klog[n + i - 1]
      BY <1>5, <3>1, <3>2
    <3> QED BY <3>3, FunctionIsText
  <2>2. CASE ~k.wrapped
    <3>1. a = <<>> /\ m = 0
      BY <1>2, <1>3, <2>2 DEF Older
    <3> QED BY <3>1
  <2> QED BY <2>1, <2>2
<1>7. b \in Seq(Shown) /\ Len(b) = n /\ \A i \in 1 .. n : b[i] = k.klog[i - 1]
  <2>1. \A i \in 1 .. n : i - 1 \in 0 .. KlogSize - 1
    BY <1>1, Sizes
  <2>2. b \in [1 .. n -> Shown] /\ \A i \in 1 .. n : b[i] = k.klog[i - 1]
    BY <1>4, <1>5, <2>1
  <2>3. b \in Seq(Shown) /\ Len(b) = n
    BY <2>2, FunctionIsText
  <2> QED BY <2>2, <2>3
<1>8. TextOf(k) = a \o b
  BY <1>1, <1>3, <1>4 DEF TextOf
<1>9. /\ a \o b \in Seq(Shown) /\ Len(a \o b) = m + n
      /\ \A i \in 1 .. m + n : (a \o b)[i] = IF i <= m THEN a[i] ELSE b[i - m]
  BY <1>6, <1>7, ConcatProperties
<1>10. \A i \in 1 .. m + n : (a \o b)[i] = TextAt(k, i)
  <2> SUFFICES ASSUME NEW i \in 1 .. m + n PROVE (a \o b)[i] = TextAt(k, i)
    OBVIOUS
  <2>1. CASE i <= m
    BY <1>1, <1>2, <1>6, <1>9, <2>1 DEF TextAt
  <2>2. CASE ~(i <= m)
    <3>1. i - m \in 1 .. n
      BY <2>2
    <3> QED BY <1>2, <1>7, <1>9, <2>2, <3>1 DEF TextAt
  <2> QED BY <2>1, <2>2
<1> QED BY <1>2, <1>8, <1>9, <1>10

LEMMA LogPushes ==
  ASSUME NEW k \in Consoles, NEW d \in Consoles, k.index < KlogSize, NEW c \in Shown,
         d.klog = [k.klog EXCEPT ![k.index] = c],
         k.index + 1 < KlogSize => d.index = k.index + 1 /\ d.wrapped = k.wrapped,
         k.index + 1 = KlogSize => d.index = 0 /\ d.wrapped
  PROVE  Pushed(TextOf(k), c, TextOf(d))
<1>1. PICK n \in Nat, m \in Nat : n = k.index /\ m = d.index /\ n < KlogSize /\ m < KlogSize
  BY Sizes DEF Consoles
<1>2. /\ Len(TextOf(k)) = TextLen(k) /\ Len(TextOf(d)) = TextLen(d)
      /\ \A i \in 1 .. TextLen(k) : TextOf(k)[i] = TextAt(k, i)
      /\ \A i \in 1 .. TextLen(d) : TextOf(d)[i] = TextAt(d, i)
  BY <1>1, TextIs, Sizes
<1>3. /\ d.klog[n] = c /\ \A i \in 0 .. KlogSize - 1 : i # n => d.klog[i] = k.klog[i]
  <2>1. PICK f \in [0 .. KlogSize - 1 -> Shown] : f = k.klog
    BY DEF Consoles, Logs
  <2>2. d.klog = [f EXCEPT ![n] = c] /\ n \in 0 .. KlogSize - 1
    BY <1>1, <2>1, Sizes
  <2> QED BY <2>1, <2>2
<1>4. CASE ~k.wrapped /\ n + 1 < KlogSize
  <2>1. TextLen(k) = n /\ TextLen(d) = n + 1 /\ Older(k) = 0 /\ Older(d) = 0
    BY <1>1, <1>4 DEF TextLen, Older
  <2>2. \A i \in 1 .. n : TextAt(d, i) = TextAt(k, i)
    BY <1>1, <1>3, <2>1, Sizes DEF TextAt
  <2>3. TextAt(d, n + 1) = c
    BY <1>3, <2>1 DEF TextAt
  <2> QED BY <1>1, <1>2, <1>4, <2>1, <2>2, <2>3, Sizes DEF Pushed
<1>5. CASE ~k.wrapped /\ n + 1 = KlogSize
  <2>1. TextLen(k) = n /\ TextLen(d) = n + 1 /\ Older(k) = 0 /\ Older(d) = n + 1 /\ m = 0
    BY <1>1, <1>5 DEF TextLen, Older
  <2>2. \A i \in 1 .. n : TextAt(d, i) = TextAt(k, i)
    BY <1>1, <1>3, <2>1, Sizes DEF TextAt
  <2>3. TextAt(d, n + 1) = c
    BY <1>1, <1>3, <2>1 DEF TextAt
  <2> QED BY <1>1, <1>2, <1>5, <2>1, <2>2, <2>3, Sizes DEF Pushed
<1>6. CASE k.wrapped /\ n + 1 < KlogSize
  <2>1. /\ TextLen(k) = KlogSize /\ TextLen(d) = KlogSize /\ m = n + 1
        /\ Older(k) = KlogSize - n /\ Older(d) = KlogSize - n - 1
    <3>1. d.wrapped /\ m = n + 1
      BY <1>1, <1>6
    <3> QED BY <1>1, <1>6, <3>1, Sizes DEF TextLen, Older
  <2>2. ASSUME NEW i \in 1 .. KlogSize - 1 PROVE TextAt(d, i) = TextAt(k, i + 1)
    <3>1. CASE i <= KlogSize - n - 1
      BY <1>1, <1>3, <2>1, <3>1, Sizes DEF TextAt
    <3>2. CASE ~(i <= KlogSize - n - 1)
      BY <1>1, <1>3, <2>1, <3>2, Sizes DEF TextAt
    <3> QED BY <3>1, <3>2
  <2>3. TextAt(d, KlogSize) = c
    BY <1>1, <1>3, <2>1, Sizes DEF TextAt
  <2> QED BY <1>2, <2>1, <2>2, <2>3, Sizes DEF Pushed
<1>7. CASE k.wrapped /\ n + 1 = KlogSize
  <2>1. /\ TextLen(k) = KlogSize /\ TextLen(d) = KlogSize /\ m = 0
        /\ Older(k) = 1 /\ Older(d) = KlogSize
    BY <1>1, <1>7, Sizes DEF TextLen, Older
  <2>2. ASSUME NEW i \in 1 .. KlogSize - 1 PROVE TextAt(d, i) = TextAt(k, i + 1)
    BY <1>1, <1>3, <1>7, <2>1, Sizes DEF TextAt
  <2>3. TextAt(d, KlogSize) = c
    BY <1>1, <1>3, <1>7, <2>1, Sizes DEF TextAt
  <2> QED BY <1>2, <2>1, <2>2, <2>3, Sizes DEF Pushed
<1> QED BY <1>1, <1>4, <1>5, <1>6, <1>7, Sizes

LEMMA LastPushes ==
  ASSUME NEW s \in Seq(Chars), Len(s) <= KlogSize, NEW c \in Chars
  PROVE  LET t == LastOf(Append(s, c))
         IN  t \in Seq(Chars) /\ Len(t) <= KlogSize /\ Pushed(s, c, t)
<1>1. PICK n \in Nat : n = Len(s) /\ n <= KlogSize
  OBVIOUS
<1>2. PICK a : a = Append(s, c)
  OBVIOUS
<1>3. a \in Seq(Chars) /\ Len(a) = n + 1 /\ a[n + 1] = c /\ \A i \in 1 .. n : a[i] = s[i]
  BY <1>1, <1>2
<1>4. CASE n < KlogSize
  <2>1. LastOf(Append(s, c)) = a
    BY <1>2, <1>3, <1>4, Sizes DEF LastOf
  <2> QED BY <1>1, <1>3, <1>4, <2>1, Sizes DEF Pushed
<1>5. CASE n = KlogSize
  <2>1. LastOf(Append(s, c)) = SubSeq(a, 2, n + 1)
    BY <1>2, <1>3, <1>5, Sizes DEF LastOf
  <2>2. PICK t : t = SubSeq(a, 2, n + 1)
    OBVIOUS
  <2>3. t \in Seq(Chars) /\ Len(t) = n /\ \A i \in 1 .. n : t[i] = a[i + 1]
    BY <1>3, <1>5, <2>2, Sizes
  <2>4. t[n] = c /\ \A i \in 1 .. n - 1 : t[i] = s[i + 1]
    BY <1>3, <1>5, <2>3, Sizes
  <2> QED BY <1>1, <1>5, <2>1, <2>2, <2>3, <2>4, Sizes DEF Pushed
<1> QED BY <1>1, <1>4, <1>5, Sizes

LEMMA SamePushed ==
  ASSUME NEW s \in Seq(Shown), NEW c, NEW t \in Seq(Shown), NEW u \in Seq(Shown),
         Len(s) <= KlogSize, Pushed(s, c, t), Pushed(s, c, u)
  PROVE  t = u
<1>1. PICK n \in Nat : n = Len(s)
  OBVIOUS
<1>2. PICK m \in Nat : m = Len(t) /\ m = Len(u)
  BY Sizes DEF Pushed
<1>3. \A i \in 1 .. m : t[i] = u[i]
  <2>1. CASE n < KlogSize
    BY <1>1, <1>2, <2>1, Sizes DEF Pushed
  <2>2. CASE n = KlogSize
    BY <1>1, <1>2, <2>2, Sizes DEF Pushed
  <2> QED BY <1>1, <2>1, <2>2, Sizes
<1> QED BY <1>2, <1>3, SeqEqual

-----------------------------------------------------------------------------
(* The invariant.                                                          *)
Stages ==
  {"log", "log2", "log3", "log4", "x", "y", "draw", "col", "col2", "wrap", "home", "row", "row2",
   "end", "copy", "last", "first"}

ConTypes ==
  /\ con \in Consoles
  /\ main \in [pc : Stages, rest : Seq(Graphic), reg : Nat, x : Nat, y : Nat]
  /\ out \in Seq(Shown) /\ (~con.dmesg => out \in Seq(Chars))
  /\ logged \in Seq(Chars) /\ Len(logged) <= KlogSize
  /\ torn \in BOOLEAN /\ printed \in Nat
  /\ main.pc # "log" => main.rest # <<>>

(* Inside print_char main may leave a coordinate one too far; a handler    *)
(* that prints meanwhile leaves both on the screen, and so main's register *)
(* holds, when it is stored, a place that was on the screen.               *)
CursorInv ==
  /\ con.col <= Cols /\ con.row <= Rows
  /\ main.pc \notin {"wrap", "home"} => con.col < Cols
  /\ main.pc \notin {"end", "copy", "last"} => con.row < Rows
  /\ main.pc = "col2" => main.reg < Cols
  /\ main.pc = "row2" => main.reg < Rows
  /\ main.pc = "copy" => main.reg <= Rows - 1

(* What a handler has still to print is counted when it begins to print.   *)
OutInv ==
  printed + (IF con.dmesg THEN 0 ELSE Len(out))
    <= IF main.rest = <<>> THEN MaxText ELSE MaxDuring

(* A handler's print between main's two accesses to the index can set it   *)
(* back, never on: the log does not fill up while main prints its prompt.  *)
RoomInv ==
  /\ main.rest = <<>> => con.index < KlogSize
  /\ main.rest # <<>> =>
       /\ ~con.wrapped
       /\ con.index + Len(main.rest)
            <= printed + Len(Prompt) + IF main.pc \in {"log", "log2"} THEN 0 ELSE 1
       /\ main.pc \in {"log2", "log3"} => main.reg + Len(main.rest) <= printed + Len(Prompt)

(* What log_char has done of its work, if no handler printed meanwhile.    *)
LogInv ==
  ~torn =>
    /\ main.pc \notin {"log2", "log3"} => TextOf(con) = logged
    /\ main.pc = "log2" =>
         /\ main.reg = con.index /\ Len(logged) = con.index + 1
         /\ logged[con.index + 1] = Head(main.rest)
         /\ \A i \in 1 .. con.index : logged[i] = con.klog[i - 1]
    /\ main.pc = "log3" =>
         /\ con.index = main.reg + 1 /\ Len(logged) = con.index
         /\ logged[con.index] = Head(main.rest)
         /\ \A i \in 1 .. con.index - 1 : logged[i] = con.klog[i - 1]

(* The two texts end alike, as far as it was printed after the prompt.     *)
EndAlike(s, t, n) ==
  \A i \in 0 .. Len(s) - 1 : i < n => s[Len(s) - i] = t[Len(t) - i]
RecoverInv ==
  /\ printed <= Len(logged) \/ Len(logged) = KlogSize
  /\ main.rest = <<>> => EndAlike(TextOf(con), logged, printed - MaxDuring)

ConInv == ConTypes /\ CursorInv /\ OutInv /\ RoomInv /\ LogInv /\ RecoverInv

-----------------------------------------------------------------------------
LEMMA Limits ==
  /\ MaxDuring \in Nat /\ MaxText \in Nat /\ MaxDuring <= MaxText
  /\ Prompt \in Seq(Graphic) /\ Len(Prompt) \in Nat /\ MaxDuring + Len(Prompt) < KlogSize
  /\ \A text \in Texts : text \in Seq(Chars)
<1>1. Len(Prompt) \in Nat
  BY ConsoleAssumption
<1> QED BY <1>1, ConsoleAssumption, Sizes

LEMMA IndexInRange ==
  ASSUME ConTypes, OutInv, RoomInv
  PROVE  /\ con.index < KlogSize
         /\ main.rest # <<>> => Len(main.rest) \in Nat /\ 1 <= Len(main.rest)
         /\ Len(out) \in Nat
         /\ main.rest # <<>> /\ ~con.dmesg /\ out # <<>> => con.index + 1 < KlogSize
<1>1. Len(main.rest) \in Nat /\ (main.rest # <<>> => 1 <= Len(main.rest))
  BY DEF ConTypes
<1>2. Len(out) \in Nat /\ (out # <<>> => 1 <= Len(out))
  BY DEF ConTypes
<1>3. con.index \in Nat /\ printed \in Nat
  BY DEF ConTypes, Consoles
<1>4. ASSUME main.rest # <<>>
      PROVE  /\ printed + (IF con.dmesg THEN 0 ELSE Len(out)) <= MaxDuring
             /\ con.index + Len(main.rest) <= printed + Len(Prompt) + 1
  BY <1>1, <1>3, <1>4, Limits DEF OutInv, RoomInv
<1>5. main.rest # <<>> => con.index < KlogSize
  BY <1>1, <1>2, <1>3, <1>4, Limits, Sizes
<1>6. main.rest # <<>> /\ ~con.dmesg /\ out # <<>> => con.index + 1 < KlogSize
  BY <1>1, <1>2, <1>3, <1>4, Limits, Sizes
<1> QED BY <1>1, <1>2, <1>5, <1>6 DEF RoomInv

LEMMA TextKept ==
  ASSUME NEW k, NEW d, d.klog = k.klog, d.index = k.index, d.wrapped = k.wrapped
  PROVE  TextOf(d) = TextOf(k)
BY DEF TextOf

LEMMA PushedBack ==
  ASSUME NEW s \in Seq(Shown), NEW t \in Seq(Shown), Len(s) <= KlogSize, NEW c, Pushed(s, c, t),
         NEW i \in 1 .. Len(t) - 1
  PROVE  t[Len(t) - i] = s[Len(s) - (i - 1)]
<1>1. PICK m \in Nat, a \in Nat : m = Len(s) /\ a = Len(t) /\ m <= KlogSize
  OBVIOUS
<1>2. CASE m < KlogSize
  <2>1. a = m + 1 /\ \A q \in 1 .. m : t[q] = s[q]
    BY <1>1, <1>2 DEF Pushed
  <2>2. a - i \in 1 .. m /\ a - i = m - (i - 1)
    BY <1>1, <2>1
  <2> QED BY <1>1, <2>1, <2>2
<1>3. CASE m = KlogSize
  <2>1. a = m /\ \A q \in 1 .. m - 1 : t[q] = s[q + 1]
    BY <1>1, <1>3 DEF Pushed
  <2>2. a - i \in 1 .. m - 1 /\ a - i + 1 = m - (i - 1)
    BY <1>1, <2>1
  <2> QED BY <1>1, <2>1, <2>2
<1> QED BY <1>1, <1>2, <1>3, Sizes

LEMMA EndsStayAlike ==
  ASSUME NEW s \in Seq(Shown), NEW t \in Seq(Shown), NEW u \in Seq(Shown), NEW v \in Seq(Shown),
         Len(s) <= KlogSize, Len(u) <= KlogSize, NEW c, Pushed(s, c, t), Pushed(u, c, v),
         NEW p \in Int, p <= Len(u) \/ Len(u) = KlogSize, EndAlike(s, u, p)
  PROVE  EndAlike(t, v, p + 1)
<1>1. PICK m \in Nat, n \in Nat, a \in Nat, b \in Nat :
        m = Len(s) /\ n = Len(u) /\ a = Len(t) /\ b = Len(v) /\ m <= KlogSize /\ n <= KlogSize
  OBVIOUS
<1> SUFFICES ASSUME NEW i \in 0 .. a - 1, i < p + 1 PROVE t[a - i] = v[b - i]
  BY <1>1 DEF EndAlike
<1>2. t[a] = c /\ v[b] = c
  BY <1>1 DEF Pushed
<1>3. CASE i = 0
  BY <1>1, <1>2, <1>3
<1>4. CASE i # 0
  <2>1. PICK j \in Nat : j = i - 1 /\ j < p
    BY <1>4
  <2>2. a <= m + 1 /\ a <= KlogSize /\ j < m /\ j < KlogSize
    BY <1>1, <2>1, Sizes DEF Pushed
  <2>3. t[a - i] = s[m - j]
    <3>1. i \in 1 .. Len(t) - 1 /\ i - 1 = j
      BY <1>1, <1>4, <2>1
    <3>2. t[Len(t) - i] = s[Len(s) - (i - 1)]
      BY <3>1, PushedBack
    <3> QED BY <1>1, <3>1, <3>2
  <2>4. j < n
    BY <1>1, <2>1, <2>2
  <2>5. v[b - i] = u[n - j]
    <3>1. j < KlogSize - 1 \/ n < KlogSize
      BY <1>1, <2>1, <2>2, Sizes DEF Pushed
    <3>2. i \in 1 .. Len(v) - 1 /\ i - 1 = j
      BY <1>1, <1>4, <2>1, <2>4, <3>1, Sizes DEF Pushed
    <3>3. v[Len(v) - i] = u[Len(u) - (i - 1)]
      BY <3>2, PushedBack
    <3> QED BY <1>1, <3>2, <3>3
  <2>6. s[m - j] = u[n - j]
    <3>1. j \in 0 .. Len(s) - 1
      BY <1>1, <2>2
    <3>2. s[Len(s) - j] = u[Len(u) - j]
      BY <2>1, <3>1 DEF EndAlike
    <3> QED BY <1>1, <3>2
  <2> QED BY <2>3, <2>5, <2>6
<1> QED BY <1>3, <1>4

-----------------------------------------------------------------------------
(* The steps of main.  After log_char the log is left alone.               *)
Late == Stages \ {"log", "log2", "log3"}

LEMMA LogUntouched ==
  ASSUME ConInv, con'.klog = con.klog, con'.index = con.index, con'.wrapped = con.wrapped,
         UNCHANGED <<logged, torn, printed>>,
         \/ UNCHANGED main
         \/ main'.rest = main.rest /\ main.pc \in Late /\ main'.pc \in Late
  PROVE  RoomInv' /\ LogInv' /\ RecoverInv'
<1>1. TextOf(con') = TextOf(con)
  BY TextKept
<1>2. CASE UNCHANGED main
  <2>1. RoomInv'
    BY <1>2 DEF ConInv, RoomInv
  <2>2. LogInv'
    BY <1>1, <1>2 DEF ConInv, LogInv
  <2>3. RecoverInv'
    BY <1>1, <1>2 DEF ConInv, RecoverInv
  <2> QED BY <2>1, <2>2, <2>3
<1>3. CASE main'.rest = main.rest /\ main.pc \in Late /\ main'.pc \in Late
  <2>1. main.rest # <<>>
    BY <1>3 DEF ConInv, ConTypes, Late, Stages
  <2>2. RoomInv'
    BY <1>3, <2>1 DEF ConInv, RoomInv, Late, Stages
  <2>3. LogInv'
    BY <1>1, <1>3 DEF ConInv, LogInv, Late, Stages
  <2>4. RecoverInv'
    BY <1>3, <2>1 DEF ConInv, RecoverInv
  <2> QED BY <2>2, <2>3, <2>4
<1> QED BY <1>2, <1>3

LEMMA LoadIndexKeeps == ASSUME ConInv, LoadIndex PROVE ConInv'
<1>1. PICK n \in Nat : n = con.index /\ n < KlogSize
  BY IndexInRange DEF ConInv, ConTypes, Consoles
<1>2. /\ main' \in [pc : Stages, rest : Seq(Graphic), reg : Nat, x : Nat, y : Nat]
      /\ main'.pc = "log2" /\ main'.rest = main.rest /\ main'.reg = n /\ main.rest # <<>>
  BY <1>1 DEF ConInv, ConTypes, LoadIndex, Stages
<1>3. PICK h \in Chars : h = Head(main.rest)
  BY <1>2 DEF ConInv, ConTypes, Chars
<1>4. logged' \in Seq(Chars) /\ Len(logged') <= KlogSize /\ Pushed(logged, h, logged')
  BY <1>3, LastPushes DEF ConInv, ConTypes, LoadIndex
<1>5. UNCHANGED <<con, out, torn, printed>> /\ main.pc = "log"
  BY DEF LoadIndex
<1>6. ConTypes'
  BY <1>2, <1>4, <1>5 DEF ConInv, ConTypes
<1>7. CursorInv'
  BY <1>2, <1>5 DEF ConInv, CursorInv
<1>8. OutInv'
  BY <1>2, <1>5 DEF ConInv, OutInv
<1>9. RoomInv'
  <2>1. ~con.wrapped /\ n + Len(main.rest) <= printed + Len(Prompt)
    BY <1>1, <1>2, <1>5, Limits DEF ConInv, ConTypes, RoomInv
  <2>2. PICK l \in Nat : l = Len(main.rest)
    BY DEF ConInv, ConTypes
  <2>3. PICK p \in Nat : p = printed
    BY DEF ConInv, ConTypes
  <2>4. PICK q \in Nat : q = Len(Prompt)
    BY Limits
  <2> QED BY <1>1, <1>2, <1>5, <2>1, <2>2, <2>3, <2>4 DEF RoomInv
<1>10. LogInv'
  <2>1. SUFFICES ASSUME ~torn
                 PROVE  /\ Len(logged') = n + 1 /\ logged'[n + 1] = h
                        /\ \A i \in 1 .. n : logged'[i] = con.klog[i - 1]
    BY <1>1, <1>2, <1>3, <1>5 DEF LogInv
  <2>2. TextOf(con) = logged /\ ~con.wrapped
    BY <1>2, <1>5, <2>1 DEF ConInv, LogInv, RoomInv
  <2>3. TextLen(con) = n /\ \A i \in 1 .. n : TextAt(con, i) = con.klog[i - 1]
    BY <1>1, <2>2 DEF TextLen, TextAt, Older
  <2>4. Len(logged) = n /\ \A i \in 1 .. n : logged[i] = con.klog[i - 1]
    BY <1>1, <2>2, <2>3, TextIs, Sizes DEF ConInv, ConTypes
  <2> QED BY <1>1, <1>4, <2>4, Sizes DEF Pushed
<1>11. RecoverInv'
  <2>1. printed <= Len(logged') \/ Len(logged') = KlogSize
    BY <1>4, Sizes DEF ConInv, ConTypes, RecoverInv, Pushed
  <2> QED BY <1>2, <1>5, <2>1 DEF RecoverInv
<1> QED BY <1>6, <1>7, <1>8, <1>9, <1>10, <1>11 DEF ConInv

LEMMA StoreIndexKeeps == ASSUME ConInv, StoreIndex PROVE ConInv'
<1>1. PICK n \in Nat, r \in Nat : n = con.index /\ n < KlogSize /\ r = main.reg
  BY IndexInRange DEF ConInv, ConTypes, Consoles
<1>2. /\ main' \in [pc : Stages, rest : Seq(Graphic), reg : Nat, x : Nat, y : Nat]
      /\ main.pc = "log2" /\ main'.pc = "log3" /\ main'.rest = main.rest /\ main'.reg = r
      /\ main.rest # <<>>
  BY <1>1 DEF ConInv, ConTypes, StoreIndex, MainStep, Stages
<1>a. PICK q \in Nat : q = r + 1
  OBVIOUS
<1>b. con' = [con EXCEPT !.index = q]
  BY <1>1, <1>a DEF StoreIndex
<1>c. con' \in Consoles
  BY <1>b DEF ConInv, ConTypes, Consoles
<1>3. /\ SameCursor(con, con') /\ con'.klog = con.klog /\ con'.dmesg = con.dmesg
      /\ con'.wrapped = con.wrapped /\ con'.index = r + 1
  BY <1>a, <1>b DEF ConInv, ConTypes, Consoles, SameCursor
<1>5. UNCHANGED <<out, logged, torn, printed>>
  BY DEF StoreIndex
<1>6. ConTypes'
  BY <1>2, <1>c, <1>3, <1>5 DEF ConInv, ConTypes
<1>7. CursorInv'
  BY <1>2, <1>3 DEF ConInv, CursorInv, SameCursor
<1>8. OutInv'
  BY <1>2, <1>3, <1>5 DEF ConInv, OutInv
<1>9. RoomInv'
  <2>1. PICK l \in Nat : l = Len(main.rest) /\ r + l <= printed + Len(Prompt)
    BY <1>1, <1>2 DEF ConInv, ConTypes, RoomInv
  <2>2. r + 1 + l <= printed + Len(Prompt) + 1
    BY <2>1, Limits DEF ConInv, ConTypes
  <2>3. ~con.wrapped
    BY <1>2 DEF ConInv, RoomInv
  <2> QED BY <1>2, <1>3, <1>5, <2>1, <2>2, <2>3 DEF RoomInv
<1>10. LogInv'
  BY <1>1, <1>2, <1>3, <1>5 DEF ConInv, LogInv
<1>11. RecoverInv'
  BY <1>2, <1>5 DEF ConInv, RecoverInv
<1> QED BY <1>6, <1>7, <1>8, <1>9, <1>10, <1>11 DEF ConInv

LEMMA StoreCharKeeps == ASSUME ConInv, StoreChar PROVE ConInv'
<1>1. PICK n \in Nat, r \in Nat : n = con.index /\ n < KlogSize /\ r = main.reg
  BY IndexInRange DEF ConInv, ConTypes, Consoles
<1>2. /\ main' \in [pc : Stages, rest : Seq(Graphic), reg : Nat, x : Nat, y : Nat]
      /\ main.pc = "log3" /\ main'.pc = "log4" /\ main'.rest = main.rest
      /\ main.rest # <<>>
  BY <1>1 DEF ConInv, ConTypes, StoreChar, MainStep, Stages
<1>3. PICK h \in Shown : h = Head(main.rest)
  BY <1>2 DEF ConInv, ConTypes, Shown, Chars
<1>4. r < KlogSize
  <2>1. PICK l \in Nat : l = Len(main.rest) /\ r + l <= printed + Len(Prompt)
    BY <1>1, <1>2 DEF ConInv, ConTypes, RoomInv
  <2>2. printed <= MaxDuring
    BY <1>2, Limits DEF ConInv, ConTypes, OutInv
  <2> QED BY <2>1, <2>2, Limits, Sizes DEF ConInv, ConTypes
<1>a. PICK f \in Logs : f = con.klog
  BY DEF ConInv, ConTypes, Consoles
<1>b. PICK g \in Logs : g = [f EXCEPT ![r] = h]
  BY <1>4, Sizes DEF Logs
<1>c. con' = [con EXCEPT !.klog = g]
  BY <1>1, <1>3, <1>a, <1>b DEF StoreChar, ConInv, ConTypes, Consoles
<1>d. con' \in Consoles
  BY <1>c DEF ConInv, ConTypes, Consoles
<1>e. /\ SameCursor(con, con') /\ con'.klog = g /\ con'.dmesg = con.dmesg
      /\ con'.wrapped = con.wrapped /\ con'.index = n
  BY <1>1, <1>c DEF ConInv, ConTypes, Consoles, SameCursor
<1>5. UNCHANGED <<out, logged, torn, printed>>
  BY DEF StoreChar
<1>6. ConTypes'
  BY <1>2, <1>d, <1>e, <1>5 DEF ConInv, ConTypes
<1>7. CursorInv'
  BY <1>2, <1>e DEF ConInv, CursorInv, SameCursor
<1>8. OutInv'
  BY <1>2, <1>e, <1>5 DEF ConInv, OutInv
<1>9. RoomInv'
  BY <1>1, <1>2, <1>e, <1>5 DEF ConInv, RoomInv
<1>10. LogInv'
  <2>1. SUFFICES ASSUME ~torn PROVE TextOf(con') = logged
    BY <1>2, <1>5 DEF LogInv
  <2>2. /\ n = r + 1 /\ Len(logged) = n /\ logged[n] = h
        /\ \A i \in 1 .. n - 1 : logged[i] = f[i - 1]
    BY <1>1, <1>2, <1>3, <1>a, <2>1 DEF ConInv, LogInv
  <2>3. ~con'.wrapped
    BY <1>2, <1>e DEF ConInv, RoomInv
  <2>4. TextLen(con') = n /\ \A i \in 1 .. n : TextAt(con', i) = g[i - 1]
    BY <1>1, <1>e, <2>3 DEF TextLen, TextAt, Older
  <2>5. \A i \in 1 .. n : g[i - 1] = logged[i]
    <3>1. g[r] = h /\ \A j \in 0 .. KlogSize - 1 : j # r => g[j] = f[j]
      BY <1>4, <1>b, Sizes DEF Logs
    <3> QED BY <1>1, <2>2, <3>1, Sizes
  <2>6. /\ TextOf(con') \in Seq(Shown) /\ Len(TextOf(con')) = n
        /\ \A i \in 1 .. n : TextOf(con')[i] = logged[i]
    BY <1>1, <1>d, <1>e, <2>4, <2>5, TextIs, Sizes
  <2>7. logged \in Seq(Shown)
    BY DEF ConInv, ConTypes, Shown
  <2> QED BY <2>2, <2>6, <2>7, SeqEqual
<1>11. RecoverInv'
  BY <1>2, <1>5 DEF ConInv, RecoverInv
<1> QED BY <1>6, <1>7, <1>8, <1>9, <1>10, <1>11 DEF ConInv


(* The steps after log_char: what is left to show of each.                 *)
LEMMA LateStepKeeps ==
  ASSUME ConInv, main.pc \in Late, main'.pc \in Late, main'.rest = main.rest,
         main' \in [pc : Stages, rest : Seq(Graphic), reg : Nat, x : Nat, y : Nat],
         con' \in Consoles, SameLog(con, con'), CursorInv',
         UNCHANGED <<out, logged, torn, printed>>
  PROVE  ConInv'
<1>1. ConTypes'
  BY DEF ConInv, ConTypes, SameLog, Late, Stages
<1>2. OutInv'
  BY DEF ConInv, OutInv, SameLog
<1>3. RoomInv' /\ LogInv' /\ RecoverInv'
  BY LogUntouched DEF SameLog
<1> QED BY <1>1, <1>2, <1>3 DEF ConInv

LEMMA CheckIndexKeeps == ASSUME ConInv, CheckIndex PROVE ConInv'
<1>1. con \in Consoles /\ con.index < KlogSize
  BY IndexInRange DEF ConInv, ConTypes
<1>2. con' \in Consoles /\ SameCursor(con, con') /\ SameLog(con, con')
  BY <1>1, WrapLogIs DEF CheckIndex, SameLog
<1>3. /\ main' \in [pc : Stages, rest : Seq(Graphic), reg : Nat, x : Nat, y : Nat]
      /\ main.pc = "log4" /\ main'.pc = "x" /\ main'.rest = main.rest
  BY DEF ConInv, ConTypes, CheckIndex, MainStep, Stages
<1>4. CursorInv'
  BY <1>2, <1>3 DEF ConInv, CursorInv, SameCursor
<1>5. UNCHANGED <<out, logged, torn, printed>>
  BY DEF CheckIndex
<1> QED BY <1>2, <1>3, <1>4, <1>5, LateStepKeeps DEF Late, Stages

LEMMA LoadXKeeps == ASSUME ConInv, LoadX PROVE ConInv'
<1>1. con \in Consoles /\ con' = con
  BY DEF ConInv, ConTypes, LoadX
<1>2. SameLog(con, con')
  BY <1>1 DEF SameLog
<1>3. /\ main' \in [pc : Stages, rest : Seq(Graphic), reg : Nat, x : Nat, y : Nat]
      /\ main.pc = "x" /\ main'.pc = "y" /\ main'.rest = main.rest
  BY DEF ConInv, ConTypes, Consoles, LoadX, Stages
<1>4. CursorInv'
  BY <1>1, <1>3 DEF ConInv, CursorInv
<1>5. UNCHANGED <<out, logged, torn, printed>>
  BY DEF LoadX
<1> QED BY <1>1, <1>2, <1>3, <1>4, <1>5, LateStepKeeps DEF Late, Stages

LEMMA LoadYKeeps == ASSUME ConInv, LoadY PROVE ConInv'
<1>1. con \in Consoles /\ con' = con
  BY DEF ConInv, ConTypes, LoadY
<1>2. SameLog(con, con')
  BY <1>1 DEF SameLog
<1>3. /\ main' \in [pc : Stages, rest : Seq(Graphic), reg : Nat, x : Nat, y : Nat]
      /\ main.pc = "y" /\ main'.pc = "draw" /\ main'.rest = main.rest
  BY DEF ConInv, ConTypes, Consoles, LoadY, Stages
<1>4. CursorInv'
  BY <1>1, <1>3 DEF ConInv, CursorInv
<1>5. UNCHANGED <<out, logged, torn, printed>>
  BY DEF LoadY
<1> QED BY <1>1, <1>2, <1>3, <1>4, <1>5, LateStepKeeps DEF Late, Stages

LEMMA DrawAtKeeps == ASSUME ConInv, DrawAt PROVE ConInv'
<1>1. con \in Consoles /\ main.x \in Nat /\ main.y \in Nat
  BY DEF ConInv, ConTypes
<1>2. con' \in Consoles /\ SameLog(con, con') /\ con'.col = con.col /\ con'.row = con.row
  BY <1>1, DrawIs DEF DrawAt
<1>3. /\ main' \in [pc : Stages, rest : Seq(Graphic), reg : Nat, x : Nat, y : Nat]
      /\ main.pc = "draw" /\ main'.pc = "col" /\ main'.rest = main.rest
  BY DEF ConInv, ConTypes, DrawAt, MainStep, Stages
<1>4. CursorInv'
  BY <1>2, <1>3 DEF ConInv, CursorInv
<1>5. UNCHANGED <<out, logged, torn, printed>>
  BY DEF DrawAt
<1> QED BY <1>2, <1>3, <1>4, <1>5, LateStepKeeps DEF Late, Stages

LEMMA LoadColKeeps == ASSUME ConInv, LoadCol PROVE ConInv'
<1>1. con \in Consoles /\ con' = con
  BY DEF ConInv, ConTypes, LoadCol
<1>2. SameLog(con, con')
  BY <1>1 DEF SameLog
<1>3. /\ main' \in [pc : Stages, rest : Seq(Graphic), reg : Nat, x : Nat, y : Nat]
      /\ main.pc = "col" /\ main'.pc = "col2" /\ main'.rest = main.rest
      /\ main'.reg = con.col
  BY DEF ConInv, ConTypes, Consoles, LoadCol, MainLoads, Stages
<1>4. CursorInv'
  BY <1>1, <1>3 DEF ConInv, CursorInv
<1>5. UNCHANGED <<out, logged, torn, printed>>
  BY DEF LoadCol
<1> QED BY <1>1, <1>2, <1>3, <1>4, <1>5, LateStepKeeps DEF Late, Stages

LEMMA StoreColKeeps == ASSUME ConInv, StoreCol PROVE ConInv'
<1>1. PICK n \in Nat : n = main.reg + 1
  BY DEF ConInv, ConTypes
<1>2. con' = [con EXCEPT !.col = n]
  BY <1>1 DEF StoreCol
<1>3. con' \in Consoles
  BY <1>2 DEF ConInv, ConTypes, Consoles
<1>4. SameLog(con, con') /\ con'.col = n /\ con'.row = con.row
  BY <1>2 DEF ConInv, ConTypes, Consoles, SameLog
<1>5. /\ main' \in [pc : Stages, rest : Seq(Graphic), reg : Nat, x : Nat, y : Nat]
      /\ main.pc = "col2" /\ main'.pc = "wrap" /\ main'.rest = main.rest
  BY DEF ConInv, ConTypes, StoreCol, MainStep, Stages
<1>6. n <= Cols
  BY <1>1, <1>5, Sizes DEF ConInv, ConTypes, CursorInv
<1>7. CursorInv'
  BY <1>4, <1>5, <1>6 DEF ConInv, CursorInv
<1>8. UNCHANGED <<out, logged, torn, printed>>
  BY DEF StoreCol
<1> QED BY <1>3, <1>4, <1>5, <1>7, <1>8, LateStepKeeps DEF Late, Stages

LEMMA CheckColKeeps == ASSUME ConInv, CheckCol PROVE ConInv'
<1>1. con \in Consoles /\ con' = con
  BY DEF ConInv, ConTypes, CheckCol
<1>2. SameLog(con, con')
  BY <1>1 DEF SameLog
<1>3. /\ main' \in [pc : Stages, rest : Seq(Graphic), reg : Nat, x : Nat, y : Nat]
      /\ main.pc = "wrap" /\ main'.pc \in {"home", "end"} /\ main'.rest = main.rest
      /\ main'.pc = "end" => con.col < Cols
  <2>1. PICK pc : pc = IF con.col >= Cols THEN "home" ELSE "end"
    OBVIOUS
  <2>2. main.pc = "wrap" /\ main' = [main EXCEPT !.pc = pc]
    BY <2>1 DEF CheckCol, MainStep
  <2>3. pc \in {"home", "end"} /\ (pc = "end" => con.col < Cols)
    BY <1>1, <2>1, Sizes DEF Consoles
  <2> QED BY <2>2, <2>3 DEF ConInv, ConTypes, Stages
<1>4. CursorInv'
  BY <1>1, <1>3 DEF ConInv, CursorInv
<1>5. UNCHANGED <<out, logged, torn, printed>>
  BY DEF CheckCol
<1> QED BY <1>1, <1>2, <1>3, <1>4, <1>5, LateStepKeeps DEF Late, Stages

LEMMA ResetColKeeps == ASSUME ConInv, ResetCol PROVE ConInv'
<1>1. PICK n \in Nat : n = 0
  OBVIOUS
<1>2. con' = [con EXCEPT !.col = n]
  BY <1>1 DEF ResetCol
<1>3. con' \in Consoles
  BY <1>2 DEF ConInv, ConTypes, Consoles
<1>4. SameLog(con, con') /\ con'.col = n /\ con'.row = con.row
  BY <1>2 DEF ConInv, ConTypes, Consoles, SameLog
<1>5. /\ main' \in [pc : Stages, rest : Seq(Graphic), reg : Nat, x : Nat, y : Nat]
      /\ main.pc = "home" /\ main'.pc = "row" /\ main'.rest = main.rest
  BY DEF ConInv, ConTypes, ResetCol, MainStep, Stages
<1>6. n < Cols /\ n <= Cols
  BY <1>1, Sizes
<1>7. CursorInv'
  BY <1>4, <1>5, <1>6 DEF ConInv, CursorInv
<1>8. UNCHANGED <<out, logged, torn, printed>>
  BY DEF ResetCol
<1> QED BY <1>3, <1>4, <1>5, <1>7, <1>8, LateStepKeeps DEF Late, Stages

LEMMA LoadRowKeeps == ASSUME ConInv, LoadRow PROVE ConInv'
<1>1. con \in Consoles /\ con' = con
  BY DEF ConInv, ConTypes, LoadRow
<1>2. SameLog(con, con')
  BY <1>1 DEF SameLog
<1>3. /\ main' \in [pc : Stages, rest : Seq(Graphic), reg : Nat, x : Nat, y : Nat]
      /\ main.pc = "row" /\ main'.pc = "row2" /\ main'.rest = main.rest
      /\ main'.reg = con.row
  BY DEF ConInv, ConTypes, Consoles, LoadRow, MainLoads, Stages
<1>4. CursorInv'
  BY <1>1, <1>3 DEF ConInv, CursorInv
<1>5. UNCHANGED <<out, logged, torn, printed>>
  BY DEF LoadRow
<1> QED BY <1>1, <1>2, <1>3, <1>4, <1>5, LateStepKeeps DEF Late, Stages

LEMMA StoreRowKeeps == ASSUME ConInv, StoreRow PROVE ConInv'
<1>1. PICK n \in Nat : n = main.reg + 1
  BY DEF ConInv, ConTypes
<1>2. con' = [con EXCEPT !.row = n]
  BY <1>1 DEF StoreRow
<1>3. con' \in Consoles
  BY <1>2 DEF ConInv, ConTypes, Consoles
<1>4. SameLog(con, con') /\ con'.row = n /\ con'.col = con.col
  BY <1>2 DEF ConInv, ConTypes, Consoles, SameLog
<1>5. /\ main' \in [pc : Stages, rest : Seq(Graphic), reg : Nat, x : Nat, y : Nat]
      /\ main.pc = "row2" /\ main'.pc = "end" /\ main'.rest = main.rest
  BY DEF ConInv, ConTypes, StoreRow, MainStep, Stages
<1>6. n <= Rows
  BY <1>1, <1>5, Sizes DEF ConInv, ConTypes, CursorInv
<1>7. CursorInv'
  BY <1>4, <1>5, <1>6 DEF ConInv, CursorInv
<1>8. UNCHANGED <<out, logged, torn, printed>>
  BY DEF StoreRow
<1> QED BY <1>3, <1>4, <1>5, <1>7, <1>8, LateStepKeeps DEF Late, Stages

(* A line moved up, or the last one blanked. *)
LEMMA ScrollLineKeeps == ASSUME ConInv, ScrollLine PROVE ConInv'
<1>1. PICK n \in Nat : n = main.reg /\ n <= Rows - 1 /\ n \in 0 .. Rows - 1
  BY Sizes DEF ConInv, ConTypes, CursorInv, ScrollLine
<1>2. PICK line : line = IF n = Rows - 1 THEN BlankCells[n] ELSE con.cells[n + 1]
  OBVIOUS
<1>3. line \in [0 .. Cols - 1 -> Graphic \cup {Blank}]
  <2>1. CASE n = Rows - 1
    BY <1>1, <1>2, <2>1, BlankIsCells DEF Cells
  <2>2. CASE n # Rows - 1
    <3>1. n + 1 \in 0 .. Rows - 1
      BY <1>1, <2>2, Sizes
    <3> QED BY <1>2, <2>2, <3>1 DEF ConInv, ConTypes, Consoles, Cells
  <2> QED BY <2>1, <2>2
<1>4. PICK cells : cells = [con.cells EXCEPT ![n] = line]
  OBVIOUS
<1>5. cells \in Cells
  BY <1>1, <1>3, <1>4 DEF ConInv, ConTypes, Consoles, Cells
<1>6. con' = [con EXCEPT !.cells = cells]
  <2>1. con' = [con EXCEPT !.cells[n] = line]
    BY <1>1, <1>2 DEF ScrollLine
  <2> QED BY <1>4, <2>1 DEF ConInv, ConTypes, Consoles
<1>7. con' \in Consoles
  BY <1>5, <1>6 DEF ConInv, ConTypes, Consoles
<1>8. SameLog(con, con') /\ con'.col = con.col /\ con'.row = con.row
  BY <1>6 DEF ConInv, ConTypes, Consoles, SameLog
<1>9. PICK m \in Nat : m = n + 1
  OBVIOUS
<1>a. PICK pc : pc = IF n = Rows - 1 THEN "last" ELSE "copy"
  OBVIOUS
<1>10. main.pc = "copy" /\ main' = [main EXCEPT !.pc = pc, !.reg = m]
  BY <1>1, <1>9, <1>a DEF ScrollLine
<1>11. pc \in {"last", "copy"} /\ (pc = "copy" => m <= Rows - 1)
  BY <1>1, <1>9, <1>a, Sizes
<1>12. /\ main' \in [pc : Stages, rest : Seq(Graphic), reg : Nat, x : Nat, y : Nat]
       /\ main'.pc = pc /\ main'.reg = m /\ main'.rest = main.rest
  BY <1>10, <1>11 DEF ConInv, ConTypes, Stages
<1>13. CursorInv'
  BY <1>8, <1>10, <1>11, <1>12 DEF ConInv, CursorInv
<1>14. UNCHANGED <<out, logged, torn, printed>>
  BY DEF ScrollLine
<1> QED BY <1>7, <1>8, <1>10, <1>11, <1>12, <1>13, <1>14, LateStepKeeps DEF Late, Stages

LEMMA SetLastRowKeeps == ASSUME ConInv, SetLastRow PROVE ConInv'
<1>1. PICK n \in Nat : n = Rows - 1
  BY Sizes
<1>2. con' = [con EXCEPT !.row = n]
  BY <1>1 DEF SetLastRow
<1>3. con' \in Consoles
  BY <1>2 DEF ConInv, ConTypes, Consoles
<1>4. SameLog(con, con') /\ con'.row = n /\ con'.col = con.col
  BY <1>2 DEF ConInv, ConTypes, Consoles, SameLog
<1>5. /\ main' \in [pc : Stages, rest : Seq(Graphic), reg : Nat, x : Nat, y : Nat]
      /\ main.pc = "last" /\ main'.pc = "first" /\ main'.rest = main.rest
  BY DEF ConInv, ConTypes, SetLastRow, MainStep, Stages
<1>6. n < Rows /\ n <= Rows
  BY <1>1, Sizes
<1>7. CursorInv'
  BY <1>4, <1>5, <1>6 DEF ConInv, CursorInv
<1>8. UNCHANGED <<out, logged, torn, printed>>
  BY DEF SetLastRow
<1> QED BY <1>3, <1>4, <1>5, <1>7, <1>8, LateStepKeeps DEF Late, Stages

(* The last step of print_char, whichever it is: the next character.       *)
LEMMA ReturnKeeps ==
  ASSUME ConInv, main.pc \in {"end", "first"}, main' = Returned,
         con' \in Consoles, SameLog(con, con'), con'.row < Rows, con'.col < Cols,
         UNCHANGED <<out, logged, torn, printed>>
  PROVE  ConInv'
<1>1. con \in Consoles /\ con.index < KlogSize
  BY IndexInRange DEF ConInv, ConTypes
<1>2. /\ con' \in Consoles /\ SameLog(con, con') /\ con'.row < Rows /\ con'.col < Cols
  OBVIOUS
<1>3. PICK l \in Nat : l = Len(main.rest) /\ main.rest # <<>> /\ 1 <= l
  BY IndexInRange DEF ConInv, ConTypes
<1>a. PICK rest \in Seq(Graphic) : rest = Tail(main.rest) /\ Len(rest) = l - 1
  <2>1. PICK s \in Seq(Graphic) : s = main.rest /\ s # <<>> /\ l = Len(s)
    BY <1>3 DEF ConInv, ConTypes
  <2>2. Tail(s) \in Seq(Graphic) /\ Len(Tail(s)) = l - 1
    BY <2>1
  <2> QED BY <2>1, <2>2
<1>4. /\ main' \in [pc : Stages, rest : Seq(Graphic), reg : Nat, x : Nat, y : Nat]
      /\ main'.pc = "log" /\ main'.rest = rest
  BY <1>a DEF Returned, Stages
<1>5. UNCHANGED <<out, logged, torn, printed>>
  OBVIOUS
<1>b. PICK n \in Nat, p \in Nat : n = con.index /\ p = printed
  BY DEF ConInv, ConTypes, Consoles
<1>c. PICK q \in Nat : q = Len(Prompt)
  BY Limits
<1>d. p <= MaxDuring
  BY <1>3, <1>b, Limits DEF ConInv, ConTypes, OutInv
<1>6. ConTypes'
  BY <1>2, <1>4, <1>5 DEF ConInv, ConTypes, SameLog
<1>7. CursorInv'
  BY <1>2, <1>4, Sizes DEF CursorInv, Consoles
<1>8. OutInv'
  <2>1. printed + (IF con.dmesg THEN 0 ELSE Len(out)) <= MaxDuring
    BY <1>3 DEF ConInv, OutInv
  <2>2. printed + (IF con.dmesg THEN 0 ELSE Len(out)) <= MaxText
    BY <2>1, Limits DEF ConInv, ConTypes
  <2>3. con'.dmesg = con.dmesg
    BY <1>2 DEF SameLog
  <2> QED BY <1>5, <2>1, <2>2, <2>3 DEF OutInv
<1>9. RoomInv'
  <2>1. ~con.wrapped /\ n + l <= p + q + 1
    BY <1>3, <1>b, <1>c DEF ConInv, RoomInv
  <2>2. n + (l - 1) <= p + q
    BY <2>1
  <2>3. con'.index = n /\ con'.wrapped = con.wrapped
    BY <1>2, <1>b DEF SameLog
  <2> QED BY <1>1, <1>a, <1>b, <1>c, <1>4, <1>5, <2>1, <2>2, <2>3 DEF RoomInv
<1>10. LogInv'
  <2>1. TextOf(con') = TextOf(con)
    BY <1>2, TextKept DEF SameLog
  <2> QED BY <1>3, <1>4, <1>5, <2>1 DEF ConInv, LogInv
<1>11. RecoverInv'
  <2>1. \A i \in 0 .. Len(TextOf(con')) - 1 : ~(i < p - MaxDuring)
    BY <1>d, Limits
  <2>2. EndAlike(TextOf(con'), logged, p - MaxDuring)
    BY <2>1 DEF EndAlike
  <2> QED BY <1>b, <1>5, <2>2 DEF ConInv, RecoverInv
<1> QED BY <1>6, <1>7, <1>8, <1>9, <1>10, <1>11 DEF ConInv

LEMMA CheckRowKeeps == ASSUME ConInv, CheckRow PROVE ConInv'
<1>1. con \in Consoles /\ con' = con /\ main.pc = "end" /\ con.col < Cols
  BY DEF ConInv, ConTypes, CursorInv, CheckRow
<1>2. SameLog(con, con')
  BY <1>1 DEF SameLog
<1>3. UNCHANGED <<out, logged, torn, printed>>
  BY DEF CheckRow
<1>4. CASE con.row >= Rows
  <2>1. PICK z \in Nat : z = 0
    OBVIOUS
  <2>2. main' = [main EXCEPT !.pc = "copy", !.reg = z]
    BY <1>4, <2>1 DEF CheckRow
  <2>3. /\ main' \in [pc : Stages, rest : Seq(Graphic), reg : Nat, x : Nat, y : Nat]
        /\ main'.pc = "copy" /\ main'.rest = main.rest /\ main'.reg = z
    BY <2>2 DEF ConInv, ConTypes, Stages
  <2>4. z <= Rows - 1
    BY <2>1, Sizes
  <2>5. CursorInv'
    BY <1>1, <2>3, <2>4 DEF ConInv, CursorInv
  <2> QED BY <1>1, <1>2, <1>3, <2>3, <2>5, LateStepKeeps DEF Late, Stages
<1>5. CASE ~(con.row >= Rows)
  <2>1. con'.row < Rows /\ con'.col < Cols
    BY <1>1, <1>5, Sizes DEF Consoles
  <2>2. main' = Returned
    BY <1>5 DEF CheckRow
  <2> QED BY <1>1, <1>2, <1>3, <2>1, <2>2, ReturnKeeps
<1> QED BY <1>4, <1>5

LEMMA SetFirstColKeeps == ASSUME ConInv, SetFirstCol PROVE ConInv'
<1>1. PICK n \in Nat : n = 0 /\ n < Cols
  BY Sizes
<1>2. con' = [con EXCEPT !.col = n]
  BY <1>1 DEF SetFirstCol
<1>3. con' \in Consoles
  BY <1>2 DEF ConInv, ConTypes, Consoles
<1>4. SameLog(con, con') /\ con'.col = n /\ con'.row = con.row
  BY <1>2 DEF ConInv, ConTypes, Consoles, SameLog
<1>5. main.pc = "first" /\ main' = Returned /\ UNCHANGED <<out, logged, torn, printed>>
  BY DEF SetFirstCol
<1>6. con.row < Rows
  BY <1>5 DEF ConInv, CursorInv
<1> QED BY <1>1, <1>3, <1>4, <1>5, <1>6, ReturnKeeps
-----------------------------------------------------------------------------
(* The steps of a handler.                                                 *)
LEMMA HandlerPrintsKeeps ==
  ASSUME ConInv, NEW text \in Texts, HandlerPrints(text) PROVE ConInv'
<1>1. /\ out = <<>> /\ ~con.dmesg /\ out' = text
      /\ printed + Len(text) <= IF main.rest = <<>> THEN MaxText ELSE MaxDuring
      /\ UNCHANGED <<con, main, logged, torn, printed>>
  BY DEF HandlerPrints, Idle
<1>2. text \in Seq(Chars) /\ text \in Seq(Shown)
  BY Limits DEF Shown
<1>3. ConTypes'
  BY <1>1, <1>2 DEF ConInv, ConTypes
<1>4. CursorInv'
  BY <1>1 DEF ConInv, CursorInv
<1>5. OutInv'
  BY <1>1 DEF OutInv
<1>6. RoomInv' /\ LogInv' /\ RecoverInv'
  BY <1>1, LogUntouched
<1> QED BY <1>3, <1>4, <1>5, <1>6 DEF ConInv

LEMMA HandlerClearsKeeps == ASSUME ConInv, HandlerClears PROVE ConInv'
<1>1. con \in Consoles /\ con' = ClearScreen(con) /\ UNCHANGED <<main, out, logged, torn, printed>>
  BY DEF ConInv, ConTypes, HandlerClears
<1>2. con' \in Consoles /\ SameLog(con, con') /\ con'.col = 0 /\ con'.row = 0
  BY <1>1, ClearIs
<1>3. ConTypes'
  BY <1>1, <1>2 DEF ConInv, ConTypes, SameLog
<1>4. CursorInv'
  BY <1>1, <1>2, Sizes DEF ConInv, CursorInv
<1>5. OutInv'
  BY <1>1, <1>2 DEF ConInv, OutInv, SameLog
<1>6. RoomInv' /\ LogInv' /\ RecoverInv'
  BY <1>1, <1>2, LogUntouched DEF SameLog
<1> QED BY <1>3, <1>4, <1>5, <1>6 DEF ConInv

(* What kmsg prints is the log from its first place on, with the zeros of  *)
(* its last place if it has not been written: all of it may be printed.    *)
LEMMA DumpIsShown ==
  ASSUME NEW k \in Consoles, k.index <= KlogSize PROVE DumpText(k) \in Seq(Shown)
<1>1. PICK n \in Nat : n = k.index /\ n <= KlogSize
  BY DEF Consoles
<1>2. PICK f \in [0 .. KlogSize - 1 -> Shown] : f = k.klog
  BY DEF Consoles, Logs
<1>3. ASSUME NEW m \in Nat, m <= KlogSize PROVE [i \in 1 .. m |-> f[i - 1]] \in Seq(Shown)
  <2>1. \A i \in 1 .. m : i - 1 \in 0 .. KlogSize - 1
    BY <1>3, Sizes
  <2>2. PICK g : g = [i \in 1 .. m |-> f[i - 1]]
    OBVIOUS
  <2>3. g \in [1 .. m -> Shown]
    BY <2>1, <2>2
  <2> QED BY <2>2, <2>3, FunctionIsText
<1>4. PICK a : a = IF k.wrapped THEN [i \in 1 .. KlogSize |-> k.klog[i - 1]] ELSE <<>>
  OBVIOUS
<1>7. a \in Seq(Shown)
  <2>1. PICK g : g = [i \in 1 .. KlogSize |-> k.klog[i - 1]]
    OBVIOUS
  <2>3. g \in Seq(Shown)
    <3>1. g = [i \in 1 .. KlogSize |-> f[i - 1]]
      BY <1>2, <2>1
    <3> QED BY <1>3, <3>1, Sizes
  <2>2. a = IF k.wrapped THEN g ELSE <<>>
    BY <1>4, <2>1
  <2> QED BY <2>2, <2>3
<1>5. PICK b \in Seq(Shown) : b = [i \in 1 .. k.index |-> k.klog[i - 1]]
  BY <1>1, <1>2, <1>3
<1>6. a \o b \in Seq(Shown)
  BY <1>7, ConcatProperties
<1> QED BY <1>4, <1>5, <1>6 DEF DumpText

LEMMA HandlerDumpsKeeps == ASSUME ConInv, HandlerDumps PROVE ConInv'
<1>1. con \in Consoles /\ con.index <= KlogSize
  BY IndexInRange, Sizes DEF ConInv, ConTypes, Consoles
<1>2. out = <<>> /\ ~con.dmesg /\ UNCHANGED <<main, logged, torn, printed>> /\ out' = DumpText(con)
  BY DEF HandlerDumps, Idle
<1>3. con' \in Consoles
  BY <1>1 DEF HandlerDumps, Consoles
<1>4. /\ con'.klog = con.klog /\ con'.index = con.index /\ con'.wrapped = con.wrapped
      /\ SameCursor(con, con') /\ con'.dmesg
  BY <1>1 DEF HandlerDumps, Consoles, SameCursor
<1>5. ConTypes'
  BY <1>1, <1>2, <1>3, <1>4, DumpIsShown DEF ConInv, ConTypes
<1>6. CursorInv'
  BY <1>2, <1>4 DEF ConInv, CursorInv, SameCursor
<1>7. OutInv'
  <2>1. Len(out) = 0
    BY <1>2
  <2> QED BY <1>2, <1>4, <2>1 DEF ConInv, OutInv
<1>8. RoomInv' /\ LogInv' /\ RecoverInv'
  BY <1>2, <1>4, LogUntouched
<1> QED BY <1>5, <1>6, <1>7, <1>8 DEF ConInv

LEMMA DumpEndsKeeps == ASSUME ConInv, DumpEnds PROVE ConInv'
<1>1. con \in Consoles
  BY DEF ConInv, ConTypes
<1>2. out = <<>> /\ con.dmesg /\ UNCHANGED <<main, out, logged, torn, printed>>
  BY DEF DumpEnds
<1>3. con' \in Consoles
  BY <1>1 DEF DumpEnds, Consoles
<1>4. /\ con'.klog = con.klog /\ con'.index = con.index /\ con'.wrapped = con.wrapped
      /\ SameCursor(con, con')
  BY <1>1 DEF DumpEnds, Consoles, SameCursor
<1>d. ~con'.dmesg
  <2>1. PICK f \in BOOLEAN : f = FALSE
    OBVIOUS
  <2>2. con' = [con EXCEPT !.dmesg = f]
    BY <2>1 DEF DumpEnds
  <2>3. con'.dmesg = f
    BY <1>1, <2>2 DEF Consoles
  <2> QED BY <2>1, <2>3
<1>5. ConTypes'
  BY <1>2, <1>3 DEF ConInv, ConTypes
<1>6. CursorInv'
  BY <1>2, <1>4 DEF ConInv, CursorInv, SameCursor
<1>7. OutInv'
  <2>1. Len(out) = 0
    BY <1>2
  <2> QED BY <1>2, <1>d, <2>1 DEF ConInv, OutInv
<1>8. RoomInv' /\ LogInv' /\ RecoverInv'
  BY <1>2, <1>4, LogUntouched
<1> QED BY <1>5, <1>6, <1>7, <1>8 DEF ConInv


(* A character of a handler's text, or of the dump.                        *)
LEMMA DumpedCharKeeps ==
  ASSUME ConInv, out # <<>>, con.dmesg, con' = PrintChar(con, Head(out)), out' = Tail(out),
         UNCHANGED <<main, logged, torn, printed>>
  PROVE  ConInv'
<1>1. /\ con \in Consoles /\ Head(out) \in Shown /\ con.index < KlogSize
      /\ con.row <= Rows /\ con.col <= Cols /\ out' \in Seq(Shown)
  BY IndexInRange DEF ConInv, ConTypes, CursorInv
<1>2. /\ con' \in Consoles /\ con'.row < Rows /\ con'.col < Cols
      /\ SameLog(LogChar(con, Head(out)), con')
  BY <1>1, PrintCharIs
<1>3. SameLog(con, con')
  BY <1>1, <1>2, LogCharIs DEF SameLog
<1>4. ConTypes'
  BY <1>1, <1>2, <1>3 DEF ConInv, ConTypes, SameLog
<1>5. CursorInv'
  BY <1>2, Sizes DEF ConInv, CursorInv, Consoles
<1>6. OutInv'
  BY <1>3 DEF ConInv, OutInv, SameLog
<1>7. RoomInv' /\ LogInv' /\ RecoverInv'
  BY <1>3, LogUntouched DEF SameLog
<1> QED BY <1>4, <1>5, <1>6, <1>7 DEF ConInv

LEMMA LoggedCharKeeps ==
  ASSUME ConInv, out # <<>>, ~con.dmesg, con' = PrintChar(con, Head(out)), out' = Tail(out),
         logged' = LastOf(Append(logged, Head(out))), torn' = (torn \/ main.pc # "log"),
         printed' = printed + 1, UNCHANGED main
  PROVE  ConInv'
<1>1. PICK c \in Chars : c = Head(out) /\ c \in Shown
  BY DEF ConInv, ConTypes, Shown
<1>2. PICK n \in Nat, p \in Nat : n = con.index /\ p = printed /\ n < KlogSize
  BY IndexInRange DEF ConInv, ConTypes, Consoles
<1>3. PICK l \in Nat : l = Len(out) /\ 1 <= l
  BY DEF ConInv, ConTypes
<1>4. out' \in Seq(Chars) /\ out' \in Seq(Shown) /\ Len(out') = l - 1
  <2>1. PICK s \in Seq(Chars) : s = out /\ s # <<>> /\ l = Len(s)
    BY <1>3 DEF ConInv, ConTypes
  <2>2. Tail(s) \in Seq(Chars) /\ Len(Tail(s)) = l - 1
    BY <2>1
  <2> QED BY <2>1, <2>2 DEF Shown
<1>5. con \in Consoles /\ con.row <= Rows /\ con.col <= Cols
  BY DEF ConInv, ConTypes, CursorInv
<1>6. /\ con' \in Consoles /\ con'.row < Rows /\ con'.col < Cols
      /\ SameLog(LogChar(con, c), con')
  BY <1>1, <1>2, <1>5, PrintCharIs
<1>7. /\ ~con'.dmesg /\ con'.klog = [con.klog EXCEPT ![con.index] = c]
      /\ n + 1 < KlogSize => con'.index = n + 1 /\ con'.wrapped = con.wrapped
      /\ n + 1 = KlogSize => con'.index = 0 /\ con'.wrapped
  BY <1>1, <1>2, <1>5, <1>6, LogCharIs DEF SameLog
<1>8. Pushed(TextOf(con), c, TextOf(con'))
  BY <1>1, <1>2, <1>5, <1>6, <1>7, LogPushes
<1>9. logged' \in Seq(Chars) /\ Len(logged') <= KlogSize /\ Pushed(logged, c, logged')
  BY <1>1, LastPushes DEF ConInv, ConTypes
<1>a. /\ TextOf(con) \in Seq(Shown) /\ Len(TextOf(con)) <= KlogSize
      /\ TextOf(con') \in Seq(Shown)
  <2>1. con'.index <= KlogSize
    BY <1>2, <1>7, Sizes
  <2> QED BY <1>2, <1>5, <1>6, <2>1, TextIs, Sizes
<1>b. logged \in Seq(Shown) /\ logged' \in Seq(Shown) /\ Len(logged) <= KlogSize
  BY <1>9 DEF ConInv, ConTypes, Shown
<1>c. printed' = p + 1 /\ con'.index < KlogSize
  BY <1>2, <1>7, Sizes
<1>10. ConTypes'
  BY <1>4, <1>6, <1>9, <1>c DEF ConInv, ConTypes
<1>11. CursorInv'
  BY <1>6, Sizes DEF ConInv, CursorInv, Consoles
<1>12. OutInv'
  BY <1>2, <1>3, <1>4, <1>7, Limits DEF ConInv, OutInv
<1>13. RoomInv'
  <2>1. CASE main.rest = <<>>
    BY <1>c, <2>1 DEF RoomInv
  <2>2. CASE main.rest # <<>>
    <3>1. con'.index = n + 1 /\ con'.wrapped = con.wrapped
      BY <1>2, <1>7, <2>2, IndexInRange DEF ConInv
    <3>2. PICK m \in Nat, q \in Nat, r \in Nat : m = Len(main.rest) /\ q = Len(Prompt) /\ r = main.reg
      BY Limits DEF ConInv, ConTypes
    <3>3. /\ ~con.wrapped
          /\ n + m <= p + q + IF main.pc \in {"log", "log2"} THEN 0 ELSE 1
          /\ main.pc \in {"log2", "log3"} => r + m <= p + q
      BY <1>2, <2>2, <3>2 DEF ConInv, RoomInv
    <3>4. /\ n + 1 + m <= p + 1 + q + IF main.pc \in {"log", "log2"} THEN 0 ELSE 1
          /\ main.pc \in {"log2", "log3"} => r + m <= p + 1 + q
      BY <3>3
    <3> QED BY <1>c, <2>2, <3>1, <3>2, <3>3, <3>4 DEF RoomInv
  <2> QED BY <2>1, <2>2
<1>14. LogInv'
  <2>1. SUFFICES ASSUME ~torn, main.pc = "log" PROVE TextOf(con') = logged'
    BY DEF LogInv
  <2>2. TextOf(con) = logged
    BY <2>1 DEF ConInv, LogInv
  <2> QED BY <1>8, <1>9, <1>a, <1>b, <2>2, SamePushed
<1>15. RecoverInv'
  <2>1. p <= Len(logged) \/ Len(logged) = KlogSize
    BY <1>2 DEF ConInv, RecoverInv
  <2>2. printed' <= Len(logged') \/ Len(logged') = KlogSize
    BY <1>9, <1>b, <1>c, <2>1, Sizes DEF Pushed
  <2>3. ASSUME main.rest = <<>> PROVE EndAlike(TextOf(con'), logged', printed' - MaxDuring)
    <3>1. PICK e \in Int : e = p - MaxDuring /\ e + 1 = printed' - MaxDuring /\ e <= p
      BY <1>c, Limits
    <3>2. EndAlike(TextOf(con), logged, e)
      BY <1>2, <2>3, <3>1 DEF ConInv, RecoverInv
    <3>3. e <= Len(logged) \/ Len(logged) = KlogSize
      BY <1>b, <2>1, <3>1
    <3>4. EndAlike(TextOf(con'), logged', e + 1)
      BY <1>8, <1>9, <1>a, <1>b, <3>2, <3>3, EndsStayAlike
    <3> QED BY <3>1, <3>4
  <2> QED BY <2>2, <2>3 DEF RecoverInv
<1> QED BY <1>10, <1>11, <1>12, <1>13, <1>14, <1>15 DEF ConInv

LEMMA HandlerCharKeeps == ASSUME ConInv, HandlerChar PROVE ConInv'
BY DumpedCharKeeps, LoggedCharKeeps DEF HandlerChar

-----------------------------------------------------------------------------
LEMMA ConInvInit == Init => ConInv
<1> SUFFICES ASSUME Init PROVE ConInv
  OBVIOUS
<1>1. PICK z \in Nat, f \in BOOLEAN : z = 0 /\ f = FALSE
  OBVIOUS
<1>2. PICK b \in Logs : b = [i \in 0 .. KlogSize - 1 |-> Blank]
  BY DEF Logs, Shown
<1>3. con = [klog |-> b, index |-> z, wrapped |-> f, dmesg |-> f, col |-> z, row |-> z,
             cells |-> BlankCells]
  BY <1>1, <1>2 DEF Init, Reset
<1>4. con \in Consoles
  BY <1>3, BlankIsCells DEF Consoles
<1>5. con.index = z /\ con.col = z /\ con.row = z /\ (con.wrapped <=> f) /\ (con.dmesg <=> f)
  BY <1>3
<1>6. /\ main \in [pc : Stages, rest : Seq(Graphic), reg : Nat, x : Nat, y : Nat]
      /\ main.pc = "log" /\ main.rest = Prompt
  BY Limits DEF Init, Stages
<1>7. out = <<>> /\ logged = <<>> /\ torn = FALSE /\ printed = 0
  BY DEF Init
<1>8. ConTypes
  <2>1. out \in Seq(Shown) /\ out \in Seq(Chars)
    BY <1>7
  <2>2. logged \in Seq(Chars) /\ Len(logged) <= KlogSize
    BY <1>7, Sizes
  <2>3. torn \in BOOLEAN /\ printed \in Nat
    BY <1>7
  <2> QED BY <1>4, <1>6, <2>1, <2>2, <2>3 DEF ConTypes
<1>9. CursorInv
  BY <1>1, <1>5, <1>6, Sizes DEF CursorInv
<1>10. OutInv
  <2>1. Len(out) = 0
    BY <1>7
  <2> QED BY <1>1, <1>5, <1>7, <2>1, Limits DEF OutInv
<1>11. RoomInv
  BY <1>1, <1>5, <1>6, <1>7, Limits, Sizes DEF RoomInv
<1>a. TextOf(con) \in Seq(Shown) /\ Len(TextOf(con)) = 0
  <2>1. TextLen(con) = 0 /\ con.index <= KlogSize
    BY <1>1, <1>5, Sizes DEF TextLen
  <2> QED BY <1>4, <2>1, TextIs
<1>b. TextOf(con) = <<>>
  BY <1>a
<1>12. LogInv
  BY <1>6, <1>7, <1>b DEF LogInv
<1>13. RecoverInv
  <2>1. printed <= Len(logged)
    BY <1>7
  <2>2. EndAlike(TextOf(con), logged, printed - MaxDuring)
    BY <1>a DEF EndAlike
  <2> QED BY <2>1, <2>2 DEF RecoverInv
<1> QED BY <1>8, <1>9, <1>10, <1>11, <1>12, <1>13 DEF ConInv

LEMMA ConInvStep == ConInv /\ [Next]_vars => ConInv'
<1> SUFFICES ASSUME ConInv, [Next]_vars PROVE ConInv'
  OBVIOUS
<1>1. CASE MainNext
  BY <1>1, LoadIndexKeeps, StoreIndexKeeps, StoreCharKeeps, CheckIndexKeeps, LoadXKeeps, LoadYKeeps,
     DrawAtKeeps, LoadColKeeps, StoreColKeeps, CheckColKeeps, ResetColKeeps, LoadRowKeeps,
     StoreRowKeeps, CheckRowKeeps, ScrollLineKeeps, SetLastRowKeeps, SetFirstColKeeps
     DEF MainNext
<1>2. ASSUME NEW text \in Texts, HandlerPrints(text) PROVE ConInv'
  BY <1>2, HandlerPrintsKeeps
<1>3. CASE HandlerChar
  BY <1>3, HandlerCharKeeps
<1>4. CASE HandlerClears
  BY <1>4, HandlerClearsKeeps
<1>5. CASE HandlerDumps
  BY <1>5, HandlerDumpsKeeps
<1>6. CASE DumpEnds
  BY <1>6, DumpEndsKeeps
<1>7. CASE UNCHANGED vars
  <2>1. UNCHANGED <<con, main, out, logged, torn, printed>>
    BY <1>7 DEF vars
  <2>2. ConTypes' /\ CursorInv' /\ OutInv'
    BY <2>1 DEF ConInv, ConTypes, CursorInv, OutInv
  <2>3. RoomInv' /\ LogInv' /\ RecoverInv'
    BY <2>1, LogUntouched
  <2> QED BY <2>2, <2>3 DEF ConInv
<1> QED BY <1>1, <1>2, <1>3, <1>4, <1>5, <1>6, <1>7 DEF Next

THEOREM ConsoleInvariant == Spec => []ConInv
<1> QED BY ConInvInit, ConInvStep, PTL DEF Spec

LEMMA LogTextIs == LogText = TextOf(con)
BY DEF LogText, TextOf

(* Wherever between two loads and stores of main's print_char and of the   *)
(* lines of its scroll a handler prints, clears or dumps, nothing is       *)
(* stored outside the log and the cursor is back on the screen before the  *)
(* next character of either (screen.c 25-32, 43-56 and 74-96).             *)
THEOREM NothingOutside == Spec => []InBounds
<1>1. ConInv => InBounds
  <2> SUFFICES ASSUME ConInv PROVE InBounds
    OBVIOUS
  <2>1. con \in Consoles /\ torn \in BOOLEAN /\ printed \in Nat
    BY DEF ConInv, ConTypes
  <2>2. con.index < KlogSize /\ con.index \in 0 .. KlogSize
    BY <2>1, IndexInRange, Sizes DEF ConInv, Consoles
  <2>3. con.col \in 0 .. Cols /\ con.row \in 0 .. Rows
    BY <2>1, Sizes DEF ConInv, CursorInv, Consoles
  <2>4. printed \in 0 .. MaxText
    <3>1. PICK n \in Nat : n = IF con.dmesg THEN 0 ELSE Len(out)
      BY DEF ConInv, ConTypes
    <3>2. printed + n <= MaxText
      BY <2>1, <3>1, Limits DEF ConInv, OutInv
    <3> QED BY <2>1, <3>2, Limits
  <2>5. TypeOK
    BY <2>1, <2>2, <2>3, <2>4 DEF TypeOK, Consoles, Logs, Cells, Shown, Chars
  <2>6. RestInBounds
    BY <2>2 DEF ConInv, CursorInv, RestInBounds
  <2> QED BY <2>5, <2>6 DEF InBounds
<1> QED BY <1>1, ConsoleInvariant, PTL

(* Unless a handler printed while main was inside print_char, the kernel   *)
(* log read from its oldest place on is the last characters printed, none  *)
(* lost and none older (log_char, screen.c 25-32).                         *)
THEOREM LogAlwaysHoldsLast == Spec => []LogHoldsLast
<1>1. ConInv => LogHoldsLast
  BY LogTextIs DEF ConInv, LogInv, LogHoldsLast
<1> QED BY <1>1, ConsoleInvariant, PTL

(* What a handler prints after main's prompt is in the log, in order, even *)
(* if one printed in the middle of print_char before: the log recovers.    *)
THEOREM LogAlwaysRecovers == Spec => []LogRecovers
<1>1. ConInv => LogRecovers
  <2> SUFFICES ASSUME ConInv, main.rest = <<>>,
                      NEW i \in 0 .. Len(LogText) - 1,
                      i < IF printed > MaxDuring THEN printed - MaxDuring ELSE 0
               PROVE  LogText[Len(LogText) - i] = logged[Len(logged) - i]
    BY DEF LogRecovers
  <2>1. EndAlike(LogText, logged, printed - MaxDuring)
    BY LogTextIs DEF ConInv, RecoverInv
  <2>2. i < printed - MaxDuring
    BY Limits DEF ConInv, ConTypes
  <2> QED BY <2>1, <2>2 DEF EndAlike
<1> QED BY <1>1, ConsoleInvariant, PTL
===============================================================================

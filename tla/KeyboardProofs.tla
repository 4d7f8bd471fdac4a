---------------------------- MODULE KeyboardProofs ----------------------------
(***************************************************************************)
(* The keyboard and the line on the screen, for any size of screen, any    *)
(* length of line, any keys, prompt and commands: what the screen shows is *)
(* the line that Enter executes, and the buffers are a line editor.        *)
(***************************************************************************)
EXTENDS Keyboard, SequenceTheorems, WellFoundedInduction, TLAPS

-----------------------------------------------------------------------------
(* Texts that are printed character by character.                          *)
LEMMA SmallestOf == ASSUME NEW T, T \subseteq Nat, T # {}
                    PROVE  \E x \in T : \A y \in T : x <= y
<1> DEFINE R == OpToRel(<, Nat)
<1>1. IsWellFoundedOn(R, Nat)
  BY NatLessThanWellFounded
<1>2. \A x, y \in Nat : <<y, x>> \in R <=> y < x
  BY DEF OpToRel
<1> HIDE DEF R
<1>3. PICK x \in T : \A y \in T : ~(<<y, x>> \in R)
  BY <1>1, WFMin
<1>4. \A y \in T : x \in Nat /\ y \in Nat /\ ~(y < x)
  BY <1>2, <1>3
<1> QED BY <1>4

(* Induction, over a set of numbers.                                       *)
LEMMA SetInduction ==
  ASSUME NEW S, 0 \in S, \A n \in Nat : n \in S => n + 1 \in S
  PROVE  \A n \in Nat : n \in S
<1> SUFFICES ASSUME NEW m \in Nat, m \notin S PROVE FALSE
  OBVIOUS
<1>1. PICK x \in Nat \ S : \A y \in Nat \ S : x <= y
  BY SmallestOf
<1>2. x - 1 \in Nat /\ x = (x - 1) + 1
  BY <1>1
<1>3. x - 1 \in S
  BY <1>1, <1>2
<1> QED BY <1>1, <1>2, <1>3

(* If each character leads from one set of screens to the next, the text   *)
(* leads from the first to the last.                                       *)
LEMMA PrintTextLeads ==
  ASSUME NEW k, NEW text, NEW L \in Nat, L = Len(text), NEW S, k \in S[0],
         \A n \in 0 .. L - 1 : \A s \in S[n] : PrintChar(s, text[n + 1]) \in S[n + 1]
  PROVE  PrintText(k, text) \in S[L]
<1> DEFINE After(m, h) ==
             h = [n \in 0 .. m |-> IF n = 0 THEN k ELSE PrintChar(h[n - 1], text[n])]
           Good == {m \in Nat : m <= L =>
                      \E h : After(m, h) /\ \A n \in 0 .. m : h[n] \in S[n]}
<1>1. 0 \in Good
  <2>1. PICK h : h = [n \in 0 .. 0 |-> k]
    OBVIOUS
  <2>2. h[0] = k /\ h = [n \in 0 .. 0 |-> IF n = 0 THEN k ELSE PrintChar(h[n - 1], text[n])]
    BY <2>1
  <2>3. \A n \in 0 .. 0 : h[n] \in S[n]
    BY <2>2
  <2> QED BY <2>2, <2>3
<1>2. ASSUME NEW m \in Nat, m \in Good PROVE m + 1 \in Good
  <2> SUFFICES ASSUME m + 1 <= L
               PROVE  \E h : After(m + 1, h) /\ \A n \in 0 .. m + 1 : h[n] \in S[n]
    OBVIOUS
  <2>1. PICK g : After(m, g) /\ \A n \in 0 .. m : g[n] \in S[n]
    BY <1>2
  <2>2. PICK h : h = [n \in 0 .. m + 1 |-> IF n = m + 1 THEN PrintChar(g[m], text[m + 1]) ELSE g[n]]
    OBVIOUS
  <2>3. ASSUME NEW n \in 0 .. m + 1 PROVE h[n] = IF n = 0 THEN k ELSE PrintChar(h[n - 1], text[n])
    <3>1. CASE n = m + 1
      <4>1. m \in 0 .. m + 1 /\ m # m + 1 /\ n # 0 /\ n - 1 = m
        BY <3>1
      <4>2. h[m] = g[m]
        BY <2>2, <4>1
      <4> QED BY <2>2, <3>1, <4>1, <4>2
    <3>2. CASE n # m + 1 /\ n = 0
      <4>1. g[0] = k
        BY <2>1
      <4> QED BY <2>2, <3>2, <4>1
    <3>3. CASE n # m + 1 /\ n # 0
      <4>1. n \in 0 .. m /\ n - 1 \in 0 .. m + 1 /\ n - 1 # m + 1
        BY <3>3
      <4>2. g[n] = PrintChar(g[n - 1], text[n])
        BY <2>1, <3>3, <4>1
      <4>3. h[n] = g[n] /\ h[n - 1] = g[n - 1]
        BY <2>2, <3>3, <4>1
      <4> QED BY <3>3, <4>2, <4>3
    <3> QED BY <3>1, <3>2, <3>3
  <2>4. After(m + 1, h)
    <3>1. h = [n \in 0 .. m + 1 |-> h[n]]
      BY <2>2
    <3> QED BY <2>3, <3>1
  <2>5. ASSUME NEW n \in 0 .. m + 1 PROVE h[n] \in S[n]
    <3>1. CASE n = m + 1
      <4>1. m \in 0 .. L - 1 /\ g[m] \in S[m]
        BY <2>1
      <4>2. PrintChar(g[m], text[m + 1]) \in S[m + 1]
        BY <4>1
      <4> QED BY <2>2, <3>1, <4>2
    <3>2. CASE n # m + 1
      <4>1. n \in 0 .. m
        BY <3>2
      <4> QED BY <2>1, <2>2, <3>2, <4>1
    <3> QED BY <3>1, <3>2
  <2> QED BY <2>4, <2>5
<1>3. L \in Good
  <2> HIDE DEF Good
  <2> QED BY <1>1, <1>2, SetInduction
<1>4. PICK h : After(L, h) /\ \A n \in 0 .. L : h[n] \in S[n]
  BY <1>3
<1>5. PICK f : f = CHOOSE g : g = [n \in 0 .. Len(text) |->
                 IF n = 0 THEN k ELSE PrintChar(g[n - 1], text[n])]
  OBVIOUS
<1>6. f = [n \in 0 .. L |-> IF n = 0 THEN k ELSE PrintChar(f[n - 1], text[n])]
  BY <1>4, <1>5
<1>7. PrintText(k, text) = f[L]
  BY <1>5 DEF PrintText
<1>8. \A n \in Nat : n <= L => f[n] = h[n]
  <2>1. f[0] = h[0]
    BY <1>4, <1>6
  <2>2. ASSUME NEW n \in Nat, n <= L => f[n] = h[n], n + 1 <= L PROVE f[n + 1] = h[n + 1]
    <3>1. n + 1 \in 0 .. L /\ n + 1 # 0 /\ (n + 1) - 1 = n /\ n <= L
      BY <2>2
    <3>2. f[n + 1] = PrintChar(f[n], text[n + 1])
      BY <1>6, <3>1
    <3>3. h[n + 1] = PrintChar(h[n], text[n + 1])
      BY <1>4, <3>1
    <3> QED BY <2>2, <3>1, <3>2, <3>3
  <2>3. PICK I : I = {m \in Nat : m <= L => f[m] = h[m]}
    OBVIOUS
  <2>4. 0 \in I /\ \A n \in Nat : n \in I => n + 1 \in I
    BY <2>1, <2>2, <2>3
  <2>5. \A n \in Nat : n \in I
    BY <2>4, SetInduction
  <2> QED BY <2>3, <2>5
<1>9. L \in 0 .. L /\ L <= L
  OBVIOUS
<1> QED BY <1>4, <1>7, <1>8, <1>9

-----------------------------------------------------------------------------
(* The cells in a row, numbered one after the other.                       *)
LEMMA Sizes ==
  /\ Cols \in Nat \ {0} /\ Rows \in Nat \ {0} /\ KlogSize \in Nat \ {0}
  /\ NL # BS /\ NL \notin Graphic /\ BS \notin Graphic /\ Blank \notin Graphic
BY ScreenAssumption

LEMMA Division ==
  ASSUME NEW w \in Nat \ {0}, NEW x \in Nat
  PROVE  /\ x \div w \in Nat /\ x % w \in 0 .. w - 1
         /\ x = (x \div w) * w + (x % w)
<1>1. w \in Nat /\ w > 0
  OBVIOUS
<1>2. x \div w \in Nat /\ x % w \in Nat /\ x % w < w
  BY <1>1
<1>3. x = (x \div w) * w + (x % w)
  BY <1>1
<1> QED BY <1>2, <1>3

LEMMA Multiples ==
  ASSUME NEW w \in Nat, NEW a \in Nat, NEW b \in Nat, a < b
  PROVE  a * w \in Nat /\ b * w \in Nat /\ a * w + w <= b * w
<1>1. PICK d \in Nat : b = a + 1 + d
  <2>1. b - a - 1 \in Nat /\ b = a + 1 + (b - a - 1)
    OBVIOUS
  <2> QED BY <2>1
<1>2. b * w = a * w + w + d * w
  BY <1>1
<1>3. a * w \in Nat /\ d * w \in Nat /\ b * w \in Nat
  OBVIOUS
<1> QED BY <1>2, <1>3

LEMMA DivisionUnique ==
  ASSUME NEW w \in Nat \ {0}, NEW p \in Nat, NEW q \in Nat,
         NEW r \in 0 .. w - 1, NEW s \in 0 .. w - 1, p * w + r = q * w + s
  PROVE  p = q /\ r = s
<1>1. ~(p < q)
  <2> SUFFICES ASSUME p < q PROVE FALSE
    OBVIOUS
  <2>1. p * w \in Nat /\ q * w \in Nat /\ p * w + w <= q * w
    BY Multiples
  <2> QED BY <2>1
<1>2. ~(q < p)
  <2> SUFFICES ASSUME q < p PROVE FALSE
    OBVIOUS
  <2>1. p * w \in Nat /\ q * w \in Nat /\ q * w + w <= p * w
    BY Multiples
  <2> QED BY <2>1
<1>3. p = q
  BY <1>1, <1>2
<1>4. p * w \in Nat
  OBVIOUS
<1> QED BY <1>3, <1>4

(* The cell in row r and column c is cell number r * Cols + c.             *)
LEMMA NumberOf ==
  ASSUME NEW r \in Nat, NEW c \in 0 .. Cols - 1
  PROVE  /\ r * Cols + c \in Nat
         /\ (r * Cols + c) \div Cols = r /\ (r * Cols + c) % Cols = c
<1>1. PICK w \in Nat \ {0} : w = Cols
  BY Sizes
<1>2. PICK x \in Nat : x = r * w + c
  BY <1>1
<1>3. PICK q \in Nat, m \in 0 .. w - 1 : q = x \div w /\ m = x % w /\ x = q * w + m
  BY Division
<1>4. c \in 0 .. w - 1 /\ q * w + m = r * w + c
  BY <1>1, <1>2, <1>3
<1>5. q = r /\ m = c
  BY <1>4, DivisionUnique
<1> QED BY <1>1, <1>2, <1>3, <1>5

LEMMA RowOf ==
  ASSUME NEW n \in Nat
  PROVE  /\ n \div Cols \in Nat /\ n % Cols \in 0 .. Cols - 1
         /\ n = (n \div Cols) * Cols + (n % Cols)
         /\ n < Cols * Rows => n \div Cols \in 0 .. Rows - 1
         /\ n < Cols * (Rows - 1) => n \div Cols \in 0 .. Rows - 2
<1>1. PICK w \in Nat \ {0}, h \in Nat \ {0} : w = Cols /\ h = Rows
  BY Sizes
<1>2. PICK q \in Nat, m \in 0 .. w - 1 : q = n \div w /\ m = n % w /\ n = q * w + m
  BY Division
<1>3. ASSUME NEW k \in Nat, n < w * k PROVE q < k
  <2> SUFFICES ASSUME ~(q < k) PROVE FALSE
    OBVIOUS
  <2>1. k * w <= q * w /\ k * w \in Nat /\ q * w \in Nat
    <3>1. CASE k = q
      BY <3>1
    <3>2. CASE k # q
      <4>1. k < q
        BY <3>2
      <4> QED BY <4>1, Multiples
    <3> QED BY <3>1, <3>2
  <2> QED BY <1>2, <1>3, <2>1
<1>4. n < w * h => q < h
  BY <1>3
<1>5. n < w * (h - 1) => q < h - 1
  <2>1. h - 1 \in Nat
    OBVIOUS
  <2> QED BY <1>3, <2>1
<1>6. h - 1 \in Nat /\ (q < h => q \in 0 .. h - 1) /\ (q < h - 1 => q \in 0 .. h - 2)
  OBVIOUS
<1> QED BY <1>1, <1>2, <1>4, <1>5, <1>6

(* A row further down is Cols cells further on.                            *)
LEMMA RowBelow ==
  ASSUME NEW n \in Nat
  PROVE  (n + Cols) \div Cols = n \div Cols + 1 /\ (n + Cols) % Cols = n % Cols
<1>1. PICK w \in Nat \ {0} : w = Cols
  BY Sizes
<1>2. PICK q \in Nat, m \in 0 .. Cols - 1 : q = n \div Cols /\ m = n % Cols /\ n = q * Cols + m
  BY RowOf
<1>3. n + w = (q + 1) * w + m
  BY <1>1, <1>2
<1>4. q + 1 \in Nat
  OBVIOUS
<1>5. ((q + 1) * Cols + m) \div Cols = q + 1 /\ ((q + 1) * Cols + m) % Cols = m
  BY <1>4, NumberOf
<1> QED BY <1>1, <1>2, <1>3, <1>5

(* Where the cursor is among them.                                         *)
LEMMA CursorIn ==
  ASSUME NEW r \in 0 .. Rows - 1, NEW c \in 0 .. Cols - 1
  PROVE  /\ r * Cols + c \in 0 .. Cols * Rows - 1
         /\ r = Rows - 1 => r * Cols + c >= Cols * (Rows - 1)
         /\ r < Rows - 1 => r * Cols + c < Cols * (Rows - 1)
         /\ Cols * (Rows - 1) \in Nat /\ Cols * Rows = Cols * (Rows - 1) + Cols
<1>1. PICK w \in Nat \ {0}, h \in Nat \ {0} : w = Cols /\ h = Rows
  BY Sizes
<1>2. r \in Nat /\ c \in Nat /\ c < w /\ r < h
  BY <1>1
<1>3. PICK e \in Nat : e = h - 1 /\ r <= e
  BY <1>1
<1>4. w * h = e * w + w /\ w * (h - 1) = e * w /\ e * w \in Nat
  BY <1>3
<1>5. PICK p \in Nat : p = r * w
  OBVIOUS
<1>6. r # e => p + w <= e * w
  <2>1. r # e => r < e
    BY <1>3
  <2> QED BY <1>2, <1>5, <2>1, Multiples
<1>7. PICK z \in Nat : z = e * w
  BY <1>4
<1>8. r = e => p = z
  BY <1>5, <1>7
<1> QED BY <1>1, <1>2, <1>3, <1>4, <1>5, <1>6, <1>7, <1>8

-----------------------------------------------------------------------------
(* The functions of screen.c.  Between two steps of print_char the column  *)
(* or the row may be one too far.                                          *)
Glyphs == Graphic \cup {Blank}
Grids == [0 .. Rows - 1 -> [0 .. Cols - 1 -> Glyphs]]
Logs == [0 .. KlogSize - 1 -> Printed]
Loose ==
  [klog : Logs, index : 0 .. KlogSize - 1, wrapped : BOOLEAN, dmesg : BOOLEAN,
   col : Nat, row : Nat, cells : Grids]
Consoles ==
  [klog : Logs, index : 0 .. KlogSize - 1, wrapped : BOOLEAN, dmesg : BOOLEAN,
   col : 0 .. Cols - 1, row : 0 .. Rows - 1, cells : Grids]

LEMMA InRange ==
  /\ \A k \in Consoles : k \in Loose /\ k.row \in 0 .. Rows - 1 /\ k.col \in 0 .. Cols - 1
  /\ \A k \in Loose : k.row \in 0 .. Rows - 1 /\ k.col \in 0 .. Cols - 1 => k \in Consoles
<1>1. ASSUME NEW k \in Consoles
      PROVE  k \in Loose /\ k.row \in 0 .. Rows - 1 /\ k.col \in 0 .. Cols - 1
  <2>1. k.row \in Nat /\ k.col \in Nat
    BY Sizes DEF Consoles
  <2> QED BY <2>1 DEF Consoles, Loose
<1>2. ASSUME NEW k \in Loose, k.row \in 0 .. Rows - 1, k.col \in 0 .. Cols - 1
      PROVE  k \in Consoles
  BY <1>2 DEF Consoles, Loose
<1> QED BY <1>1, <1>2

LEMMA BlankGrid ==
  BlankCells \in Grids /\ \A r \in 0 .. Rows - 1, c \in 0 .. Cols - 1 : BlankCells[r][c] = Blank
BY DEF BlankCells, Grids, Glyphs

LEMMA LogCharIs ==
  ASSUME NEW k \in Loose, NEW c \in Printed
  PROVE  LET l == LogChar(k, c)
         IN  l \in Loose /\ l.col = k.col /\ l.row = k.row /\ l.cells = k.cells
<1>1. CASE k.dmesg
  BY <1>1 DEF LogChar
<1>2. CASE ~k.dmesg
  <2>1. PICK n \in Nat : n = k.index + 1 /\ n <= KlogSize
    BY Sizes DEF Loose
  <2>2. PICK g : g = [k.klog EXCEPT ![k.index] = c]
    OBVIOUS
  <2>3. g \in Logs
    BY <2>2 DEF Loose, Logs
  <2>4. PICK d : d = [k EXCEPT !.klog = g, !.index = n]
    OBVIOUS
  <2>5. LogChar(k, c) = WrapLog(d)
    <3>1. [k EXCEPT !.klog[k.index] = c, !.index = @ + 1] = d
      BY <2>1, <2>2, <2>4 DEF Loose
    <3> QED BY <1>2, <3>1 DEF LogChar
  <2>6. d.col = k.col /\ d.row = k.row /\ d.cells = k.cells /\ d.index = n
    BY <2>4 DEF Loose
  <2>7. CASE n < KlogSize
    <3>1. n \in 0 .. KlogSize - 1
      BY <2>7, Sizes
    <3>2. d \in Loose
      BY <2>3, <2>4, <3>1 DEF Loose
    <3>3. WrapLog(d) = d
      BY <2>6, <2>7, Sizes DEF WrapLog
    <3> QED BY <2>5, <2>6, <3>2, <3>3
  <2>8. CASE ~(n < KlogSize)
    <3>1. PICK z \in 0 .. KlogSize - 1 : z = 0
      BY Sizes
    <3>2. PICK e : e = [d EXCEPT !.index = z, !.wrapped = TRUE]
      OBVIOUS
    <3>3. WrapLog(d) = e
      BY <2>1, <2>6, <2>8, <3>1, <3>2, Sizes DEF WrapLog
    <3>4. e = [k EXCEPT !.klog = g, !.index = z, !.wrapped = TRUE]
      BY <2>4, <3>2 DEF Loose
    <3>5. e \in Loose /\ e.col = k.col /\ e.row = k.row /\ e.cells = k.cells
      BY <2>3, <3>4 DEF Loose
    <3> QED BY <2>5, <3>3, <3>5
  <2> QED BY <2>7, <2>8
<1> QED BY <1>1, <1>2

(* One cell changed. *)
LEMMA CellSet ==
  ASSUME NEW k \in Loose, NEW r \in 0 .. Rows - 1, NEW c \in 0 .. Cols - 1, NEW v \in Glyphs,
         NEW d, d = [k EXCEPT !.cells[r][c] = v]
  PROVE  /\ d \in Loose /\ d.col = k.col /\ d.row = k.row
         /\ CellAt(d, r * Cols + c) = v
         /\ \A n \in 0 .. Cols * Rows - 1 : n # r * Cols + c => CellAt(d, n) = CellAt(k, n)
<1>1. PICK g : g = [k.cells EXCEPT ![r] = [k.cells[r] EXCEPT ![c] = v]]
  OBVIOUS
<1>2. k.cells \in [0 .. Rows - 1 -> [0 .. Cols - 1 -> Glyphs]]
  BY DEF Loose, Grids
<1>3. g \in Grids
  BY <1>1, <1>2 DEF Grids
<1>4. d = [k EXCEPT !.cells = g]
  BY <1>1 DEF Loose
<1>5. d \in Loose /\ d.col = k.col /\ d.row = k.row /\ d.cells = g
  BY <1>3, <1>4 DEF Loose
<1>6. CellAt(d, r * Cols + c) = v
  <2>1. (r * Cols + c) \div Cols = r /\ (r * Cols + c) % Cols = c
    BY NumberOf
  <2>2. g[r][c] = v
    BY <1>1, <1>2
  <2> QED BY <1>5, <2>1, <2>2 DEF CellAt
<1>7. ASSUME NEW n \in 0 .. Cols * Rows - 1, n # r * Cols + c PROVE CellAt(d, n) = CellAt(k, n)
  <2>1. PICK q, m : q = n \div Cols /\ m = n % Cols
    OBVIOUS
  <2>2. n \in Nat /\ n < Cols * Rows
    BY Sizes
  <2>3. q \in 0 .. Rows - 1 /\ m \in 0 .. Cols - 1 /\ n = q * Cols + m
    BY <2>1, <2>2, RowOf
  <2>4. q # r \/ m # c
    BY <1>7, <2>3
  <2>5. g[q][m] = k.cells[q][m]
    BY <1>1, <1>2, <2>3, <2>4
  <2> QED BY <1>5, <2>1, <2>5 DEF CellAt
<1> QED BY <1>5, <1>6, <1>7

(* A screen whose cursor is one row too low scrolls; others do not.        *)
LEMMA ScrollIs ==
  ASSUME NEW k \in Loose, k.row \in 0 .. Rows, k.col \in 0 .. Cols - 1,
         k.row = Rows => k.col = 0, BlankAfter(k)
  PROVE  LET d == Scroll(k)
         IN  /\ d \in Consoles /\ BlankAfter(d)
             /\ k.row < Rows => d = k
             /\ k.row = Rows =>
                  /\ Cursor(k) = Cols * Rows /\ Cursor(d) = Cols * (Rows - 1)
                  /\ \A n \in 0 .. Cols * (Rows - 1) - 1 : CellAt(d, n) = CellAt(k, n + Cols)
<1>1. CASE k.row < Rows
  <2>1. k.row \in 0 .. Rows - 1
    BY <1>1, Sizes
  <2>2. Scroll(k) = k
    BY <1>1 DEF Scroll
  <2>3. k.row # Rows
    BY <1>1, Sizes
  <2> QED BY <2>1, <2>2, <2>3, InRange
<1>2. CASE ~(k.row < Rows)
  <2>1. k.row = Rows /\ k.col = 0
    BY <1>2, Sizes
  <2>2. PICK g : g = [r \in 0 .. Rows - 1 |-> IF r = Rows - 1 THEN BlankCells[r] ELSE k.cells[r + 1]]
    OBVIOUS
  <2>3. g \in Grids
    <3>1. \A r \in 0 .. Rows - 1 : r # Rows - 1 => r + 1 \in 0 .. Rows - 1
      BY Sizes
    <3>2. \A r \in 0 .. Rows - 1 :
            (IF r = Rows - 1 THEN BlankCells[r] ELSE k.cells[r + 1]) \in [0 .. Cols - 1 -> Glyphs]
      BY <3>1, BlankGrid DEF Loose, Grids
    <3> QED BY <2>2, <3>2 DEF Grids
  <2>4. PICK z \in Nat, r \in Nat : z = 0 /\ r = Rows - 1
    BY Sizes
  <2>5. PICK d : d = [k EXCEPT !.cells = g, !.row = r, !.col = z]
    OBVIOUS
  <2>6. Scroll(k) = d
    BY <1>2, <2>2, <2>4, <2>5 DEF Scroll
  <2>7. d \in Loose /\ d.cells = g /\ d.row = r /\ d.col = z
    BY <2>3, <2>5 DEF Loose
  <2>8. r \in 0 .. Rows - 1 /\ z \in 0 .. Cols - 1
    BY <2>4, Sizes
  <2>9. d \in Consoles
    BY <2>7, <2>8, InRange
  <2>10. Cursor(k) = Cols * Rows /\ Cursor(d) = Cols * (Rows - 1)
    BY <2>1, <2>4, <2>7, Sizes DEF Cursor
  <2>11. ASSUME NEW n \in 0 .. Cols * (Rows - 1) - 1 PROVE CellAt(d, n) = CellAt(k, n + Cols)
    <3>1. n \in Nat /\ n < Cols * (Rows - 1)
      BY <2>8, CursorIn
    <3>2. PICK q, m : q = n \div Cols /\ m = n % Cols
      OBVIOUS
    <3>3. q \in 0 .. Rows - 2 /\ m \in 0 .. Cols - 1
      BY <3>1, <3>2, RowOf
    <3>4. (n + Cols) \div Cols = q + 1 /\ (n + Cols) % Cols = m
      BY <3>1, <3>2, RowBelow
    <3>5. g[q] = k.cells[q + 1]
      BY <2>2, <3>3, Sizes
    <3> QED BY <2>7, <3>2, <3>4, <3>5 DEF CellAt
  <2>12. ASSUME NEW n \in Cursor(d) .. Cols * Rows - 1 PROVE CellAt(d, n) = Blank
    <3>1. PICK j \in 0 .. Cols - 1 : n = (Rows - 1) * Cols + j
      <4>1. Cols * (Rows - 1) \in Nat /\ Cols * Rows = Cols * (Rows - 1) + Cols
        BY <2>8, CursorIn
      <4>2. PICK e \in Nat : e = Cols * (Rows - 1) /\ e = (Rows - 1) * Cols /\ Cols * Rows = e + Cols
        BY <4>1, Sizes
      <4>3. n \in e .. e + Cols - 1
        <5>1. PICK y \in Nat, w \in Nat : y = Cols * Rows /\ w = Cols
          BY Sizes
        <5>2. n \in e .. y - 1 /\ y = e + w
          BY <2>10, <4>2, <5>1
        <5>3. n \in e .. e + w - 1
          BY <5>2
        <5> QED BY <5>1, <5>3
      <4>4. n - e \in 0 .. Cols - 1 /\ n = e + (n - e)
        BY <4>3, Sizes
      <4> QED BY <4>2, <4>4
    <3>2. n \div Cols = r /\ n % Cols = j
      BY <2>4, <3>1, NumberOf
    <3>3. g[r][j] = Blank
      BY <2>2, <2>4, <2>8, BlankGrid
    <3> QED BY <2>7, <3>2, <3>3 DEF CellAt
  <2>13. ~(k.row < Rows)
    BY <1>2
  <2>14. BlankAfter(d)
    BY <2>12 DEF BlankAfter
  <2> QED BY <2>6, <2>9, <2>10, <2>11, <2>13, <2>14
<1> QED BY <1>1, <1>2

(* The cursor a cell further on, at the end of a line in the next.         *)
LEMMA Advanced ==
  ASSUME NEW k \in Consoles
  PROVE  LET d == WrapLine([k EXCEPT !.col = @ + 1])
         IN  /\ d \in Loose /\ d.cells = k.cells /\ Cursor(d) = Cursor(k) + 1
             /\ d.row \in 0 .. Rows /\ d.col \in 0 .. Cols - 1 /\ (d.row = Rows => d.col = 0)
<1>1. PICK c \in Nat, r \in Nat : c = k.col /\ r = k.row /\ c < Cols /\ r < Rows /\ k \in Loose
  BY InRange, Sizes
<1>2. PICK n \in Nat, s \in Nat, z \in Nat : n = c + 1 /\ s = r + 1 /\ z = 0
  OBVIOUS
<1>3. PICK e : e = [k EXCEPT !.col = n]
  OBVIOUS
<1>4. e = [k EXCEPT !.col = @ + 1]
  BY <1>1, <1>2, <1>3
<1>5. e \in Loose /\ e.cells = k.cells /\ e.row = r /\ e.col = n
  BY <1>1, <1>3 DEF Loose
<1>6. Cursor(k) = r * Cols + c /\ r * Cols \in Nat
  BY <1>1, Sizes DEF Cursor
<1>7. CASE n < Cols
  <2>1. WrapLine(e) = e
    BY <1>5, <1>7, Sizes DEF WrapLine
  <2>2. Cursor(e) = Cursor(k) + 1
    BY <1>2, <1>5, <1>6, Sizes DEF Cursor
  <2>3. r \in 0 .. Rows /\ n \in 0 .. Cols - 1 /\ r # Rows
    BY <1>1, <1>7, Sizes
  <2> QED BY <1>4, <1>5, <2>1, <2>2, <2>3
<1>8. CASE ~(n < Cols)
  <2>1. n = Cols
    BY <1>1, <1>2, <1>8, Sizes
  <2>2. PICK d : d = [e EXCEPT !.col = z, !.row = s]
    OBVIOUS
  <2>3. WrapLine(e) = d
    BY <1>2, <1>5, <2>1, <2>2, Sizes DEF WrapLine
  <2>4. d \in Loose /\ d.cells = k.cells /\ d.row = s /\ d.col = z
    BY <1>5, <2>2 DEF Loose
  <2>5. Cursor(d) = s * Cols
    BY <1>2, <2>4, Sizes DEF Cursor
  <2>6. s * Cols = r * Cols + Cols
    BY <1>2, Sizes
  <2>7. Cursor(d) = Cursor(k) + 1
    BY <1>2, <1>6, <2>1, <2>5, <2>6, Sizes
  <2>8. s \in 0 .. Rows /\ z \in 0 .. Cols - 1
    BY <1>1, <1>2, Sizes
  <2> QED BY <1>2, <1>4, <2>3, <2>4, <2>7, <2>8
<1> QED BY <1>7, <1>8

-----------------------------------------------------------------------------
(* print_char, on a screen whose cursor is on it and has nothing after it. *)
Clean == {k \in Consoles : BlankAfter(k)}
Glyph(c) == IF c \in Graphic THEN c ELSE Blank

LEMMA Logged ==
  ASSUME NEW k \in Clean, NEW c \in Printed
  PROVE  \E l \in Clean :
           l = LogChar(k, c) /\ l.col = k.col /\ l.row = k.row /\ l.cells = k.cells
<1>1. k \in Loose /\ k.row \in 0 .. Rows - 1 /\ k.col \in 0 .. Cols - 1 /\ BlankAfter(k)
  BY InRange DEF Clean
<1>2. PICK l : l = LogChar(k, c)
  OBVIOUS
<1>3. l \in Loose /\ l.col = k.col /\ l.row = k.row /\ l.cells = k.cells
  BY <1>1, <1>2, LogCharIs
<1>4. l \in Consoles
  BY <1>1, <1>3, InRange
<1>5. BlankAfter(l)
  BY <1>1, <1>3 DEF BlankAfter, CellAt, Cursor
<1> QED BY <1>2, <1>3, <1>4, <1>5 DEF Clean

LEMMA CleanCursor ==
  ASSUME NEW k \in Clean
  PROVE  /\ k \in Consoles /\ k \in Loose /\ BlankAfter(k)
         /\ k.row \in 0 .. Rows - 1 /\ k.col \in 0 .. Cols - 1
         /\ Cursor(k) \in 0 .. Cols * Rows - 1
<1>1. k \in Consoles /\ BlankAfter(k)
  BY DEF Clean
<1>2. k \in Loose /\ k.row \in 0 .. Rows - 1 /\ k.col \in 0 .. Cols - 1
  BY <1>1, InRange
<1> QED BY <1>1, <1>2, CursorIn DEF Cursor

(* A character is drawn at the cursor, which goes on; if the screen        *)
(* scrolls, everything is Cols cells nearer to its start.                  *)
LEMMA CharDrawn ==
  ASSUME NEW k \in Clean, NEW c \in Printed, c # NL, c # BS
  PROVE  LET d == PrintChar(k, c)
         IN  /\ d \in Clean
             /\ \E up \in {0, Cols} :
                  /\ Cursor(d) = Cursor(k) + 1 - up
                  /\ up # 0 => Cursor(d) = Cols * (Rows - 1)
                  /\ \A n \in up .. Cursor(k) :
                       CellAt(d, n - up) = IF n = Cursor(k) THEN Glyph(c) ELSE CellAt(k, n)
<1>1. PICK l \in Clean :
        l = LogChar(k, c) /\ l.col = k.col /\ l.row = k.row /\ l.cells = k.cells
  BY Logged
<1>2. PICK p : p = Cursor(k)
  OBVIOUS
<1>3. p \in 0 .. Cols * Rows - 1 /\ Cursor(l) = p /\ p = l.row * Cols + l.col
  BY <1>1, <1>2, CleanCursor DEF Cursor
<1>4. /\ l \in Consoles /\ l \in Loose /\ BlankAfter(l)
      /\ l.row \in 0 .. Rows - 1 /\ l.col \in 0 .. Cols - 1
  BY CleanCursor
<1>5. \A n : CellAt(l, n) = CellAt(k, n)
  BY <1>1 DEF CellAt
<1>6. PICK a : a = DrawChar(l, c, l.row, l.col)
  OBVIOUS
<1>7. /\ a \in Loose /\ a.col = l.col /\ a.row = l.row
      /\ CellAt(a, p) = Glyph(c)
      /\ \A n \in 0 .. Cols * Rows - 1 : n # p => CellAt(a, n) = CellAt(k, n)
  <2>1. CASE c \in Graphic
    <3>1. l.row < Rows /\ l.col < Cols /\ c \in Glyphs
      BY <1>4, <2>1, Sizes DEF Glyphs
    <3>2. PICK r \in 0 .. Rows - 1, j \in 0 .. Cols - 1 : r = l.row /\ j = l.col
      BY <1>4
    <3>3. a = [l EXCEPT !.cells[r][j] = c]
      BY <1>6, <2>1, <3>1, <3>2 DEF DrawChar
    <3>4. /\ a \in Loose /\ a.col = l.col /\ a.row = l.row
          /\ CellAt(a, r * Cols + j) = c
          /\ \A n \in 0 .. Cols * Rows - 1 : n # r * Cols + j => CellAt(a, n) = CellAt(l, n)
      BY <1>4, <3>1, <3>3, CellSet
    <3>5. CellAt(a, p) = c /\ \A n \in 0 .. Cols * Rows - 1 : n # p => CellAt(a, n) = CellAt(k, n)
      BY <1>3, <1>5, <3>2, <3>4
    <3> QED BY <2>1, <3>4, <3>5 DEF Glyph
  <2>2. CASE c \notin Graphic
    <3>1. a = l
      BY <1>6, <2>2 DEF DrawChar
    <3>2. CellAt(l, p) = Blank
      BY <1>3, <1>4 DEF BlankAfter
    <3> QED BY <1>4, <1>5, <2>2, <3>1, <3>2 DEF Glyph
  <2> QED BY <2>1, <2>2
<1>8. a \in Consoles /\ Cursor(a) = p
  <2>1. a \in Consoles
    BY <1>4, <1>7, InRange
  <2> QED BY <1>3, <1>7, <2>1 DEF Cursor
<1>9. PICK b : b = WrapLine([a EXCEPT !.col = @ + 1])
  OBVIOUS
<1>10. /\ b \in Loose /\ b.cells = a.cells /\ Cursor(b) = p + 1
       /\ b.row \in 0 .. Rows /\ b.col \in 0 .. Cols - 1 /\ (b.row = Rows => b.col = 0)
  BY <1>8, <1>9, Advanced
<1>11. \A n : CellAt(b, n) = CellAt(a, n)
  BY <1>10 DEF CellAt
<1>12. BlankAfter(b)
  <2> SUFFICES ASSUME NEW n \in p + 1 .. Cols * Rows - 1 PROVE CellAt(b, n) = Blank
    BY <1>10 DEF BlankAfter
  <2>1. PICK z \in Int : z = Cols * Rows
    BY Sizes
  <2>2. n \in p .. Cols * Rows - 1 /\ n \in 0 .. Cols * Rows - 1 /\ n # p
    BY <1>3, <2>1
  <2>3. CellAt(l, n) = Blank
    BY <1>3, <1>4, <2>2 DEF BlankAfter
  <2> QED BY <1>5, <1>7, <1>11, <2>2, <2>3
<1>13. PICK d : d = Scroll(b)
  OBVIOUS
<1>14. PrintChar(k, c) = d
  BY <1>1, <1>6, <1>9, <1>13 DEF PrintChar
<1>15. /\ d \in Consoles /\ BlankAfter(d)
       /\ b.row < Rows => d = b
       /\ b.row = Rows =>
            /\ Cursor(b) = Cols * Rows /\ Cursor(d) = Cols * (Rows - 1)
            /\ \A n \in 0 .. Cols * (Rows - 1) - 1 : CellAt(d, n) = CellAt(b, n + Cols)
  BY <1>10, <1>12, <1>13, ScrollIs
<1>16. d \in Clean
  BY <1>15 DEF Clean
<1>17. ASSUME NEW n \in 0 .. p
       PROVE  CellAt(b, n) = IF n = p THEN Glyph(c) ELSE CellAt(k, n)
  <2>1. PICK z \in Int : z = Cols * Rows
    BY Sizes
  <2>2. n \in 0 .. Cols * Rows - 1
    BY <1>3, <2>1
  <2> QED BY <1>7, <1>11, <2>2
<1>18. \E up \in {0, Cols} :
         /\ Cursor(d) = p + 1 - up
         /\ up # 0 => Cursor(d) = Cols * (Rows - 1)
         /\ \A n \in up .. p : CellAt(d, n - up) = IF n = p THEN Glyph(c) ELSE CellAt(k, n)
  <2>1. CASE b.row < Rows
    <3>1. Cursor(d) = p + 1 - 0
      BY <1>3, <1>10, <1>15, <2>1
    <3>2. ASSUME NEW n \in 0 .. p
          PROVE  CellAt(d, n - 0) = IF n = p THEN Glyph(c) ELSE CellAt(k, n)
      <4>1. n - 0 = n
        OBVIOUS
      <4> QED BY <1>15, <1>17, <2>1, <4>1
    <3> QED BY <3>1, <3>2
  <2>2. CASE ~(b.row < Rows)
    <3>1. b.row = Rows
      BY <1>10, <2>2, Sizes
    <3>2. PICK w \in Nat, z \in Nat : w = Cols /\ z = Cols * (Rows - 1) /\ Cols * Rows = z + w
      BY <1>4, CursorIn, Sizes
    <3>3. Cursor(d) = z /\ p + 1 = z + w
      BY <1>10, <1>15, <3>1, <3>2
    <3>4. Cursor(d) = p + 1 - w
      BY <1>3, <3>2, <3>3
    <3>5. ASSUME NEW n \in w .. p
          PROVE  CellAt(d, n - w) = IF n = p THEN Glyph(c) ELSE CellAt(k, n)
      <4>1. n - w \in 0 .. z - 1 /\ (n - w) + w = n /\ n \in 0 .. p
        BY <1>3, <3>2, <3>3
      <4>2. CellAt(d, n - w) = CellAt(b, (n - w) + w)
        BY <1>15, <3>1, <3>2, <4>1
      <4> QED BY <1>17, <4>1, <4>2
    <3>6. w = Cols /\ Cursor(d) = Cols * (Rows - 1)
      BY <3>2, <3>3
    <3> QED BY <3>4, <3>5, <3>6
  <2> QED BY <2>1, <2>2
<1> QED BY <1>2, <1>14, <1>16, <1>18

(* \b takes the character before the cursor off the screen.                *)
LEMMA CharErased ==
  ASSUME NEW k \in Clean
  PROVE  LET d == PrintChar(k, BS)
         IN  /\ d \in Clean
             /\ Cursor(k) > 0 =>
                  /\ Cursor(d) = Cursor(k) - 1
                  /\ \A n \in 0 .. Cursor(d) - 1 : CellAt(d, n) = CellAt(k, n)
<1>1. PICK l \in Clean :
        l = LogChar(k, BS) /\ l.col = k.col /\ l.row = k.row /\ l.cells = k.cells
  BY Logged DEF Printed
<1>2. PICK p : p = Cursor(k)
  OBVIOUS
<1>3. p \in 0 .. Cols * Rows - 1 /\ Cursor(l) = p
  BY <1>1, <1>2, CleanCursor DEF Cursor
<1>4. /\ l \in Consoles /\ l \in Loose /\ BlankAfter(l)
      /\ l.row \in 0 .. Rows - 1 /\ l.col \in 0 .. Cols - 1
  BY CleanCursor
<1>5. PICK r \in 0 .. Rows - 1, c \in 0 .. Cols - 1 : r = l.row /\ c = l.col
  BY <1>4
<1>6. p = r * Cols + c /\ r * Cols \in Nat
  BY <1>3, <1>5, Sizes DEF Cursor
<1>7. PICK b : b = IF l.col > 0 THEN [l EXCEPT !.col = @ - 1]
              ELSE IF l.row > 0 THEN [l EXCEPT !.row = @ - 1, !.col = Cols - 1]
              ELSE l
  OBVIOUS
<1>8. /\ b \in Consoles /\ b.cells = l.cells /\ Cursor(b) = IF p > 0 THEN p - 1 ELSE 0
  <2>1. CASE c > 0
    <3>1. PICK j \in 0 .. Cols - 1 : j = c - 1
      BY <2>1, Sizes
    <3>2. b = [l EXCEPT !.col = j]
      BY <1>5, <1>7, <2>1, <3>1
    <3>3. b \in Consoles /\ b.cells = l.cells /\ b.col = j /\ b.row = r
      BY <1>4, <1>5, <3>2 DEF Consoles
    <3>4. Cursor(b) = r * Cols + j
      BY <3>3 DEF Cursor
    <3> QED BY <1>6, <2>1, <3>1, <3>3, <3>4, Sizes
  <2>2. CASE ~(c > 0) /\ r > 0
    <3>1. PICK i \in 0 .. Rows - 1, j \in 0 .. Cols - 1 : i = r - 1 /\ j = Cols - 1
      <4>1. r - 1 \in 0 .. Rows - 1 /\ Cols - 1 \in 0 .. Cols - 1
        BY <2>2, Sizes
      <4> QED BY <4>1
    <3>2. b = [l EXCEPT !.row = i, !.col = j]
      BY <1>5, <1>7, <2>2, <3>1
    <3>3. b \in Consoles /\ b.cells = l.cells /\ b.col = j /\ b.row = i
      BY <1>4, <3>2 DEF Consoles
    <3>4. Cursor(b) = i * Cols + j
      BY <3>3 DEF Cursor
    <3>5. r * Cols = i * Cols + Cols /\ i * Cols \in Nat
      BY <3>1, Sizes
    <3>6. c = 0
      BY <2>2, Sizes
    <3> QED BY <1>6, <3>1, <3>3, <3>4, <3>5, <3>6, Sizes
  <2>3. CASE ~(c > 0) /\ ~(r > 0)
    <3>1. b = l /\ c = 0 /\ r = 0
      BY <1>5, <1>7, <2>3, Sizes
    <3>2. p = 0
      BY <1>6, <3>1, Sizes
    <3> QED BY <1>3, <1>4, <3>1, <3>2
  <2> QED BY <2>1, <2>2, <2>3
<1>9. PICK q : q = Cursor(b)
  OBVIOUS
<1>10. b \in Loose /\ q \in 0 .. Cols * Rows - 1
  <2>1. PICK z \in Int : z = Cols * Rows
    BY Sizes
  <2> QED BY <1>3, <1>8, <1>9, <2>1, InRange
<1>11. PICK i \in 0 .. Rows - 1, j \in 0 .. Cols - 1 : i = b.row /\ j = b.col /\ q = i * Cols + j
  BY <1>8, <1>9, InRange DEF Cursor
<1>12. PICK d : d = [b EXCEPT !.cells[i][j] = Blank]
  OBVIOUS
<1>13. /\ d \in Loose /\ d.col = b.col /\ d.row = b.row
       /\ CellAt(d, i * Cols + j) = Blank
       /\ \A n \in 0 .. Cols * Rows - 1 : n # i * Cols + j => CellAt(d, n) = CellAt(b, n)
  <2>1. Blank \in Glyphs
    BY DEF Glyphs
  <2> QED BY <1>10, <1>12, <2>1, CellSet
<1>14. Backspace(l) = d
  <2>1. b.row < Rows
    BY <1>11, Sizes
  <2>2. Backspace(l) = IF b.row < Rows THEN [b EXCEPT !.cells[b.row][b.col] = Blank] ELSE b
    BY <1>7 DEF Backspace
  <2> QED BY <1>11, <1>12, <2>1, <2>2
<1>15. d \in Consoles /\ Cursor(d) = q /\ d.row < Rows
  <2>1. d \in Consoles
    BY <1>11, <1>13, InRange
  <2>2. Cursor(d) = q
    BY <1>9, <1>13 DEF Cursor
  <2>3. d.row < Rows
    BY <1>11, <1>13, Sizes
  <2> QED BY <2>1, <2>2, <2>3
<1>16. \A n : CellAt(b, n) = CellAt(k, n) /\ CellAt(l, n) = CellAt(k, n)
  BY <1>1, <1>8 DEF CellAt
<1>17. BlankAfter(d)
  <2> SUFFICES ASSUME NEW n \in q .. Cols * Rows - 1, n # q PROVE CellAt(d, n) = Blank
    BY <1>11, <1>13, <1>15 DEF BlankAfter
  <2>1. PICK z \in Int : z = Cols * Rows
    BY Sizes
  <2>2. n \in 0 .. Cols * Rows - 1 /\ n \in p .. Cols * Rows - 1
    BY <1>3, <1>8, <1>9, <2>1
  <2>3. CellAt(l, n) = Blank
    BY <1>3, <1>4, <2>2 DEF BlankAfter
  <2> QED BY <1>11, <1>13, <1>16, <2>2, <2>3
<1>18. PrintChar(k, BS) = d
  <2>1. PrintChar(k, BS) = Scroll(Backspace(l))
    BY <1>1, Sizes DEF PrintChar
  <2> QED BY <1>14, <1>15, <2>1 DEF Scroll
<1>19. p > 0 => /\ Cursor(d) = p - 1
                /\ \A n \in 0 .. Cursor(d) - 1 : CellAt(d, n) = CellAt(k, n)
  <2> SUFFICES ASSUME p > 0
               PROVE  Cursor(d) = p - 1 /\ \A n \in 0 .. Cursor(d) - 1 : CellAt(d, n) = CellAt(k, n)
    OBVIOUS
  <2>1. q = p - 1
    BY <1>8, <1>9
  <2>2. ASSUME NEW n \in 0 .. q - 1 PROVE CellAt(d, n) = CellAt(k, n)
    <3>1. PICK z \in Int : z = Cols * Rows
      BY Sizes
    <3>2. n \in 0 .. Cols * Rows - 1 /\ n # q
      BY <1>10, <3>1
    <3> QED BY <1>11, <1>13, <1>16, <3>2
  <2> QED BY <1>15, <2>1, <2>2
<1> QED BY <1>2, <1>15, <1>17, <1>18, <1>19 DEF Clean

LEMMA LineBroken == ASSUME NEW k \in Clean PROVE PrintChar(k, NL) \in Clean
<1>1. PICK l \in Clean :
        l = LogChar(k, NL) /\ l.col = k.col /\ l.row = k.row /\ l.cells = k.cells
  BY Logged DEF Printed
<1>2. /\ l \in Consoles /\ l \in Loose /\ BlankAfter(l)
      /\ l.row \in 0 .. Rows - 1 /\ l.col \in 0 .. Cols - 1
  BY CleanCursor
<1>3. PICK r \in Nat, c \in Nat, s \in Nat, z \in Nat :
        r = l.row /\ c = l.col /\ s = r + 1 /\ z = 0 /\ r < Rows /\ c < Cols
  BY <1>2, Sizes
<1>4. PICK e : e = [l EXCEPT !.row = s, !.col = z]
  OBVIOUS
<1>5. e \in Loose /\ e.cells = l.cells /\ e.row = s /\ e.col = z
  BY <1>2, <1>4 DEF Loose
<1>6. e.row \in 0 .. Rows /\ e.col \in 0 .. Cols - 1 /\ e.col = 0
  BY <1>3, <1>5, Sizes
<1>7. PICK p \in Nat, q \in Nat : p = Cursor(l) /\ q = Cursor(e) /\ p <= q
  <2>1. Cursor(l) = r * Cols + c /\ Cursor(e) = s * Cols + z
    BY <1>3, <1>5 DEF Cursor
  <2>2. s * Cols = r * Cols + Cols /\ r * Cols \in Nat
    BY <1>3, Sizes
  <2> QED BY <1>3, <2>1, <2>2, Sizes
<1>8. BlankAfter(e)
  <2> SUFFICES ASSUME NEW n \in q .. Cols * Rows - 1 PROVE CellAt(e, n) = Blank
    BY <1>7 DEF BlankAfter
  <2>1. PICK y \in Int : y = Cols * Rows
    BY Sizes
  <2>2. n \in p .. Cols * Rows - 1
    BY <1>7, <2>1
  <2>3. CellAt(l, n) = Blank
    BY <1>2, <1>7, <2>2 DEF BlankAfter
  <2> QED BY <1>5, <2>3 DEF CellAt
<1>9. PrintChar(k, NL) = Scroll(e)
  <2>1. [l EXCEPT !.row = @ + 1, !.col = 0] = e
    BY <1>3, <1>4
  <2> QED BY <1>1, <2>1, Sizes DEF PrintChar
<1> QED BY <1>5, <1>6, <1>8, <1>9, ScrollIs DEF Clean

LEMMA Cleared == ASSUME NEW k \in Clean PROVE ClearScreen(k) \in Clean
<1>1. PICK d : d = ClearScreen(k)
  OBVIOUS
<1>2. PICK g \in Grids, r \in 0 .. Rows - 1, c \in 0 .. Cols - 1 : g = BlankCells /\ r = 0 /\ c = 0
  BY BlankGrid, Sizes
<1>3. d = [k EXCEPT !.cells = g, !.col = c, !.row = r]
  BY <1>1, <1>2 DEF ClearScreen
<1>4. d \in Consoles /\ d.cells = g /\ Cursor(d) = 0
  <2>1. d \in Consoles /\ d.cells = g /\ d.row = r /\ d.col = c
    BY <1>3 DEF Clean, Consoles
  <2> QED BY <1>2, <2>1, Sizes DEF Cursor
<1>5. ASSUME NEW n \in 0 .. Cols * Rows - 1 PROVE CellAt(d, n) = Blank
  <2>1. n \in Nat /\ n < Cols * Rows
    BY Sizes
  <2>2. n \div Cols \in 0 .. Rows - 1 /\ n % Cols \in 0 .. Cols - 1
    BY <2>1, RowOf
  <2> QED BY <1>2, <1>4, <2>2, BlankGrid DEF CellAt
<1> QED BY <1>1, <1>4, <1>5 DEF Clean, BlankAfter


-----------------------------------------------------------------------------
(* Texts on the screen.                                                    *)
Visible == Graphic \cup Char

LEMMA Keyed ==
  /\ BufLimit \in Nat \ {0} /\ NL \notin Visible /\ BS \notin Visible /\ Space \in Graphic
  /\ Visible \subseteq Printed /\ NL \in Printed /\ BS \in Printed
BY KeyboardAssumption, ScreenAssumption DEF Visible, Printed

LEMMA Words ==
  /\ Prompt \in Seq(Graphic) /\ Unknown \in Seq(Graphic) /\ Commands \in Seq(Seq(Char))
  /\ \A i \in 1 .. Len(Commands) : Len(Commands[i]) <= BufLimit
  /\ BufLimit + Len(Prompt) <= Cols * (Rows - 1)
BY KeyboardAssumption

(* A character more.                                                       *)
LEMMA ShownMore ==
  ASSUME NEW k \in Clean, NEW t \in Seq(Visible), NEW c \in Visible, Shows(k, t),
         Len(t) + 1 <= Cols * (Rows - 1)
  PROVE  PrintChar(k, c) \in Clean /\ Shows(PrintChar(k, c), Append(t, c))
<1>1. PICK d : d = PrintChar(k, c)
  OBVIOUS
<1>2. c \in Printed /\ c # NL /\ c # BS
  BY Keyed
<1>3. PICK p \in Nat : p = Cursor(k)
  BY CleanCursor
<1>4. d \in Clean
  BY <1>1, <1>2, CharDrawn
<1>5. PICK up \in {0, Cols} :
        /\ Cursor(d) = p + 1 - up
        /\ up # 0 => Cursor(d) = Cols * (Rows - 1)
        /\ \A n \in up .. p : CellAt(d, n - up) = IF n = p THEN Glyph(c) ELSE CellAt(k, n)
  BY <1>1, <1>2, <1>3, CharDrawn
<1>6. PICK L \in Nat : L = Len(t) /\ L <= p
  BY <1>3, LenProperties DEF Shows
<1>7. PICK y \in Nat, e \in Nat : y = Cursor(d) /\ e = up /\ y = p + 1 - e
  <2>1. Cursor(d) \in Nat /\ up \in Nat
    BY <1>4, CleanCursor, Sizes
  <2> QED BY <1>5, <2>1
<1>8. L + 1 <= y
  <2>1. CASE up = 0
    BY <1>6, <1>7, <2>1
  <2>2. CASE up # 0
    BY <1>5, <1>6, <1>7, <2>2
  <2> QED BY <2>1, <2>2
<1>9. PICK u : u = Append(t, c)
  OBVIOUS
<1>10. Len(u) = L + 1 /\ (\A i \in 1 .. L : u[i] = t[i]) /\ u[L + 1] = c
  BY <1>6, <1>9, AppendProperties
<1>11. ASSUME NEW i \in 1 .. L + 1 PROVE CellAt(d, y - (L + 1) + i - 1) = Glyph(u[i])
  <2>1. PICK n \in Int : n = p - L + i - 1
    OBVIOUS
  <2>2. n \in e .. p /\ y - (L + 1) + i - 1 = n - e /\ (n = p <=> i = L + 1)
    BY <1>6, <1>7, <1>8, <2>1
  <2>3. CellAt(d, n - e) = IF n = p THEN Glyph(c) ELSE CellAt(k, n)
    BY <1>5, <1>7, <2>2
  <2>4. CASE i = L + 1
    BY <1>10, <2>2, <2>3, <2>4
  <2>5. CASE i # L + 1
    <3>1. i \in 1 .. L
      BY <2>5
    <3>2. CellAt(k, n) = Glyph(t[i])
      BY <1>3, <1>6, <2>1, <3>1 DEF Shows, Glyph
    <3> QED BY <1>10, <2>2, <2>3, <2>5, <3>1, <3>2
  <2> QED BY <2>4, <2>5
<1>12. Shows(d, u)
  BY <1>7, <1>8, <1>10, <1>11 DEF Shows, Glyph
<1> QED BY <1>1, <1>4, <1>9, <1>12

(* A character less.                                                       *)
LEMMA ShownLess ==
  ASSUME NEW k \in Clean, NEW t \in Seq(Visible), t # <<>>, Shows(k, t)
  PROVE  /\ PrintChar(k, BS) \in Clean
         /\ Shows(PrintChar(k, BS), SubSeq(t, 1, Len(t) - 1))
<1>1. PICK d : d = PrintChar(k, BS)
  OBVIOUS
<1>2. PICK p \in Nat : p = Cursor(k)
  BY CleanCursor
<1>3. PICK L \in Nat : L = Len(t) /\ L <= p /\ L > 0
  BY <1>2, EmptySeq, LenProperties DEF Shows
<1>4. /\ d \in Clean /\ Cursor(d) = p - 1
      /\ \A n \in 0 .. Cursor(d) - 1 : CellAt(d, n) = CellAt(k, n)
  BY <1>1, <1>2, <1>3, CharErased
<1>5. PICK u : u = SubSeq(t, 1, L - 1)
  OBVIOUS
<1>6. \A i \in 1 .. L - 1 : t[i] \in Visible
  BY <1>3, ElementOfSeq
<1>7. Len(u) = L - 1 /\ \A i \in 1 .. L - 1 : u[i] = t[i]
  <2>1. 1 \in Int /\ L - 1 \in Int
    OBVIOUS
  <2>2. Len(u) = IF 1 <= L - 1 THEN (L - 1) - 1 + 1 ELSE 0
    BY <1>5, <1>6, <2>1, SubSeqProperties
  <2>3. \A i \in 1 .. (L - 1) - 1 + 1 : u[i] = t[1 + i - 1]
    BY <1>5, <1>6, <2>1, SubSeqProperties
  <2>4. \A i \in 1 .. L - 1 : i \in 1 .. (L - 1) - 1 + 1 /\ 1 + i - 1 = i
    OBVIOUS
  <2> QED BY <1>3, <2>2, <2>3, <2>4
<1>8. ASSUME NEW i \in 1 .. L - 1 PROVE CellAt(d, p - 1 - (L - 1) + i - 1) = Glyph(u[i])
  <2>1. PICK n \in Int : n = p - L + i - 1
    OBVIOUS
  <2>2. n \in 0 .. p - 1 - 1 /\ p - 1 - (L - 1) + i - 1 = n /\ i \in 1 .. L
    BY <1>3, <2>1
  <2>3. CellAt(k, n) = Glyph(t[i])
    BY <1>2, <1>3, <2>1, <2>2 DEF Shows, Glyph
  <2> QED BY <1>4, <1>7, <2>2, <2>3
<1>9. Shows(d, u)
  BY <1>3, <1>4, <1>7, <1>8 DEF Shows, Glyph
<1> QED BY <1>1, <1>3, <1>4, <1>5, <1>9

LEMMA CharKeepsClean == ASSUME NEW k \in Clean, NEW c \in Printed PROVE PrintChar(k, c) \in Clean
<1>1. CASE c = NL
  BY <1>1, LineBroken
<1>2. CASE c = BS
  BY <1>2, CharErased
<1>3. CASE c # NL /\ c # BS
  BY <1>3, CharDrawn
<1> QED BY <1>1, <1>2, <1>3

LEMMA TextKeepsClean ==
  ASSUME NEW k \in Clean, NEW t \in Seq(Printed) PROVE PrintText(k, t) \in Clean
<1>1. PICK L \in Nat : L = Len(t)
  BY LenProperties
<1>2. PICK S : S = [n \in 0 .. L |-> Clean]
  OBVIOUS
<1>3. k \in S[0] /\ S[L] = Clean
  BY <1>2
<1>4. \A n \in 0 .. L - 1 : \A s \in S[n] : PrintChar(s, t[n + 1]) \in S[n + 1]
  <2> SUFFICES ASSUME NEW n \in 0 .. L - 1, NEW s \in S[n] PROVE PrintChar(s, t[n + 1]) \in S[n + 1]
    OBVIOUS
  <2>1. n \in 0 .. L /\ n + 1 \in 0 .. L /\ n + 1 \in 1 .. L
    OBVIOUS
  <2>2. s \in Clean /\ S[n + 1] = Clean /\ t[n + 1] \in Printed
    BY <1>1, <1>2, <2>1, ElementOfSeq
  <2> QED BY <2>2, CharKeepsClean
<1> QED BY <1>1, <1>3, <1>4, PrintTextLeads

(* The text printed takes the text shown through the texts w.              *)
Follows(w, n, c) ==
  \/ c \in Visible /\ Len(w[n]) + 1 <= Cols * (Rows - 1) /\ w[n + 1] = Append(w[n], c)
  \/ c = BS /\ w[n] # <<>> /\ w[n + 1] = SubSeq(w[n], 1, Len(w[n]) - 1)

LEMMA TextShown ==
  ASSUME NEW k \in Clean, NEW t, NEW L \in Nat, L = Len(t),
         NEW w \in [0 .. L -> Seq(Visible)], Shows(k, w[0]),
         \A n \in 0 .. L - 1 : Follows(w, n, t[n + 1])
  PROVE  PrintText(k, t) \in Clean /\ Shows(PrintText(k, t), w[L])
<1>1. PICK S : S = [n \in 0 .. L |-> {s \in Clean : Shows(s, w[n])}]
  OBVIOUS
<1>2. \A n \in 0 .. L : \A s : s \in S[n] <=> s \in Clean /\ Shows(s, w[n])
  BY <1>1
<1>3. k \in S[0]
  BY <1>2
<1>4. \A n \in 0 .. L - 1 : \A s \in S[n] : PrintChar(s, t[n + 1]) \in S[n + 1]
  <2> SUFFICES ASSUME NEW n \in 0 .. L - 1, NEW s \in S[n] PROVE PrintChar(s, t[n + 1]) \in S[n + 1]
    OBVIOUS
  <2>1. n \in 0 .. L /\ n + 1 \in 0 .. L
    OBVIOUS
  <2>2. s \in Clean /\ Shows(s, w[n]) /\ w[n] \in Seq(Visible)
    BY <1>2, <2>1
  <2>3. PICK c : c = t[n + 1] /\ Follows(w, n, c)
    OBVIOUS
  <2>4. CASE c \in Visible /\ Len(w[n]) + 1 <= Cols * (Rows - 1) /\ w[n + 1] = Append(w[n], c)
    <3>1. PrintChar(s, c) \in Clean /\ Shows(PrintChar(s, c), Append(w[n], c))
      BY <2>2, <2>4, ShownMore
    <3> QED BY <1>2, <2>1, <2>3, <2>4, <3>1
  <2>5. CASE c = BS /\ w[n] # <<>> /\ w[n + 1] = SubSeq(w[n], 1, Len(w[n]) - 1)
    <3>1. /\ PrintChar(s, BS) \in Clean
          /\ Shows(PrintChar(s, BS), SubSeq(w[n], 1, Len(w[n]) - 1))
      BY <2>2, <2>5, ShownLess
    <3> QED BY <1>2, <2>1, <2>3, <2>5, <3>1
  <2> QED BY <2>3, <2>4, <2>5 DEF Follows
<1>5. PrintText(k, t) \in S[L]
  <2> HIDE DEF Follows
  <2> QED BY <1>3, <1>4, PrintTextLeads
<1>6. L \in 0 .. L
  OBVIOUS
<1> QED BY <1>2, <1>5, <1>6

LEMMA FunctionIsText ==
  ASSUME NEW S, NEW n \in Nat, NEW f \in [1 .. n -> S]
  PROVE  f \in Seq(S) /\ Len(f) = n
<1>1. f \in Seq(S)
  BY SeqDef
<1>2. Len(f) \in Nat /\ DOMAIN f = 1 .. Len(f) /\ DOMAIN f = 1 .. n
  BY <1>1, LenProperties
<1> QED BY <1>1, <1>2

LEMMA Part ==
  ASSUME NEW S, NEW u \in Seq(S), NEW m \in Nat, NEW n \in Nat, m <= n, n <= Len(u)
  PROVE  /\ SubSeq(u, m + 1, n) \in Seq(S) /\ Len(SubSeq(u, m + 1, n)) = n - m
         /\ \A i \in 1 .. n - m : SubSeq(u, m + 1, n)[i] = u[m + i]
<1>1. PICK l \in Nat : l = Len(u)
  BY LenProperties
<1>2. PICK a \in Nat : a = m + 1 /\ l = Len(u)
  BY <1>1
<1>3. \A i \in a .. n : u[i] \in S
  BY <1>2, ElementOfSeq
<1>4. PICK v : v = SubSeq(u, a, n)
  OBVIOUS
<1>5. /\ v \in Seq(S) /\ Len(v) = IF a <= n THEN n - a + 1 ELSE 0
      /\ \A i \in 1 .. n - a + 1 : v[i] = u[a + i - 1]
  BY <1>2, <1>3, <1>4, SubSeqProperties
<1>6. n - a + 1 = n - m /\ (~(a <= n) => n - m = 0) /\ \A i \in 1 .. n - m : a + i - 1 = m + i
  BY <1>2
<1> QED BY <1>2, <1>4, <1>5, <1>6

LEMMA Prefix ==
  ASSUME NEW S, NEW u \in Seq(S), NEW n \in Nat, n <= Len(u)
  PROVE  /\ SubSeq(u, 1, n) \in Seq(S) /\ Len(SubSeq(u, 1, n)) = n
         /\ \A i \in 1 .. n : SubSeq(u, 1, n)[i] = u[i]
<1>1. PICK z \in Nat : z = 0
  OBVIOUS
<1>2. z <= n /\ z + 1 = 1 /\ n - z = n /\ \A i \in 1 .. n : z + i = i
  BY <1>1
<1>3. /\ SubSeq(u, z + 1, n) \in Seq(S) /\ Len(SubSeq(u, z + 1, n)) = n - z
      /\ \A i \in 1 .. n - z : SubSeq(u, z + 1, n)[i] = u[z + i]
  BY <1>2, Part
<1> QED BY <1>2, <1>3

LEMMA PartAppended ==
  ASSUME NEW S, NEW t \in Seq(S), NEW u \in Seq(S), NEW n \in Nat, n < Len(u)
  PROVE  t \o SubSeq(u, 1, n + 1) = Append(t \o SubSeq(u, 1, n), u[n + 1])
<1>1. PICK l, a, m : l = Len(u) /\ a = Len(t) /\ m = n + 1
  OBVIOUS
<1>2. l \in Nat /\ a \in Nat /\ m \in Nat /\ m <= l /\ n <= l
  BY <1>1, LenProperties
<1>3. PICK c, p, q : c = u[m] /\ p = SubSeq(u, 1, n) /\ q = SubSeq(u, 1, m)
  OBVIOUS
<1>4. c \in S
  <2>1. m \in 1 .. l
    BY <1>1, <1>2
  <2> QED BY <1>1, <1>3, <2>1, ElementOfSeq
<1>5. /\ p \in Seq(S) /\ Len(p) = n /\ \A i \in 1 .. n : p[i] = u[i]
      /\ q \in Seq(S) /\ Len(q) = m /\ \A i \in 1 .. m : q[i] = u[i]
  <2>1. p \in Seq(S) /\ Len(p) = n /\ \A i \in 1 .. n : p[i] = u[i]
    BY <1>1, <1>2, <1>3, Prefix
  <2>2. q \in Seq(S) /\ Len(q) = m /\ \A i \in 1 .. m : q[i] = u[i]
    BY <1>1, <1>2, <1>3, Prefix
  <2> QED BY <2>1, <2>2
<1>6. PICK x, y : x = t \o p /\ y = t \o q
  OBVIOUS
<1>7. /\ x \in Seq(S) /\ Len(x) = a + n
       /\ \A i \in 1 .. a + n : x[i] = IF i <= a THEN t[i] ELSE p[i - a]
  <2>1. p \in Seq(S) /\ Len(p) = n
    BY <1>5
  <2>2. /\ t \o p \in Seq(S) /\ Len(t \o p) = Len(t) + Len(p)
        /\ \A i \in 1 .. Len(t) + Len(p) : (t \o p)[i] = IF i <= Len(t) THEN t[i] ELSE p[i - Len(t)]
    BY <2>1, ConcatProperties
  <2> QED BY <1>1, <1>6, <2>1, <2>2
<1>8. /\ y \in Seq(S) /\ Len(y) = a + m
       /\ \A i \in 1 .. a + m : y[i] = IF i <= a THEN t[i] ELSE q[i - a]
  BY <1>1, <1>5, <1>6, ConcatProperties
<1>9. PICK z : z = Append(x, c)
  OBVIOUS
<1>10. /\ z \in Seq(S) /\ Len(z) = a + n + 1
       /\ (\A i \in 1 .. a + n : z[i] = x[i]) /\ z[a + n + 1] = c
  BY <1>4, <1>7, <1>9, AppendProperties
<1>11. ASSUME NEW i \in 1 .. a + m PROVE y[i] = z[i]
  <2>1. CASE i = a + n + 1
    <3>1. ~(i <= a) /\ i - a = m /\ m \in 1 .. m
      BY <1>1, <1>2, <2>1
    <3> QED BY <1>3, <1>5, <1>8, <1>10, <2>1, <3>1
  <2>2. CASE i # a + n + 1 /\ i <= a
    <3>1. i \in 1 .. a + n
      BY <1>2, <2>2
    <3> QED BY <1>7, <1>8, <1>10, <2>2, <3>1
  <2>3. CASE i # a + n + 1 /\ ~(i <= a)
    <3>1. i \in 1 .. a + n /\ i - a \in 1 .. n /\ i - a \in 1 .. m
      BY <1>1, <1>2, <2>3
    <3>2. y[i] = u[i - a] /\ x[i] = u[i - a]
      BY <1>5, <1>7, <1>8, <2>3, <3>1
    <3> QED BY <1>10, <3>1, <3>2
  <2> QED BY <2>1, <2>2, <2>3
<1>12. Len(y) = Len(z)
  BY <1>1, <1>2, <1>8, <1>10
<1>13. y = z
  BY <1>8, <1>10, <1>11, <1>12, SeqEqual
<1> QED BY <1>1, <1>3, <1>6, <1>9, <1>13

LEMMA LastErased ==
  ASSUME NEW S, NEW t \in Seq(S), NEW c \in S
  PROVE  Append(t, c) # <<>> /\ SubSeq(Append(t, c), 1, Len(Append(t, c)) - 1) = t
<1>1. PICK n \in Nat : n = Len(t)
  BY LenProperties
<1>2. PICK u : u = Append(t, c)
  OBVIOUS
<1>3. u \in Seq(S) /\ u # <<>> /\ Len(u) = n + 1 /\ \A i \in 1 .. n : u[i] = t[i]
  BY <1>1, <1>2, AppendProperties
<1>4. n <= Len(u) /\ Len(u) - 1 = n
  BY <1>1, <1>3
<1>5. /\ SubSeq(u, 1, n) \in Seq(S) /\ Len(SubSeq(u, 1, n)) = n
      /\ \A i \in 1 .. n : SubSeq(u, 1, n)[i] = u[i]
  BY <1>3, <1>4, Prefix
<1>6. SubSeq(u, 1, n) = t
  BY <1>1, <1>3, <1>5, SeqEqual
<1> QED BY <1>2, <1>3, <1>4, <1>6

LEMMA TextAppended ==
  ASSUME NEW k \in Clean, NEW t \in Seq(Visible), NEW u \in Seq(Visible), Shows(k, t),
         Len(t) + Len(u) <= Cols * (Rows - 1)
  PROVE  PrintText(k, u) \in Clean /\ Shows(PrintText(k, u), t \o u)
<1>1. PICK L \in Nat, a \in Nat : L = Len(u) /\ a = Len(t)
  BY LenProperties
<1>2. PICK w : w = [n \in 0 .. L |-> t \o SubSeq(u, 1, n)]
  OBVIOUS
<1>3. ASSUME NEW n \in 0 .. L
      PROVE  w[n] = t \o SubSeq(u, 1, n) /\ w[n] \in Seq(Visible) /\ Len(w[n]) = a + n
  <2>1. SubSeq(u, 1, n) \in Seq(Visible) /\ Len(SubSeq(u, 1, n)) = n
    BY <1>1, Prefix
  <2>2. w[n] = t \o SubSeq(u, 1, n)
    BY <1>2
  <2> QED BY <1>1, <2>1, <2>2, ConcatProperties
<1>4. w \in [0 .. L -> Seq(Visible)]
  BY <1>2, <1>3
<1>5. w[0] = t
  <2>1. 0 \in 0 .. L /\ 1 \in Int /\ 0 \in Int /\ 0 < 1
    OBVIOUS
  <2>2. SubSeq(u, 1, 0) = <<>>
    BY <2>1, SubSeqEmpty
  <2>3. t \o <<>> = t
    BY ConcatEmptySeq
  <2> QED BY <1>3, <2>1, <2>2, <2>3
<1>6. ASSUME NEW n \in 0 .. L - 1 PROVE Follows(w, n, u[n + 1])
  <2>1. n \in 0 .. L /\ n + 1 \in 0 .. L /\ n + 1 \in 1 .. L /\ n \in Nat /\ n < L
    OBVIOUS
  <2>2. u[n + 1] \in Visible
    BY <1>1, <2>1, ElementOfSeq
  <2>3. w[n + 1] = Append(w[n], u[n + 1])
    <3>1. t \o SubSeq(u, 1, n + 1) = Append(t \o SubSeq(u, 1, n), u[n + 1])
      BY <1>1, <2>1, PartAppended
    <3> QED BY <1>3, <2>1, <3>1
  <2>4. Len(w[n]) + 1 <= Cols * (Rows - 1)
    <3>1. PICK y : y = Cols * (Rows - 1) /\ a + L <= y
      BY <1>1
    <3>2. Len(w[n]) = a + n
      BY <1>3, <2>1
    <3>3. y \in Int
      BY <3>1, Sizes
    <3>4. a + n + 1 <= y
      BY <2>1, <3>1, <3>3
    <3> QED BY <3>1, <3>2, <3>4
  <2> QED BY <2>2, <2>3, <2>4 DEF Follows
<1>7. Shows(k, w[0])
  BY <1>5
<1>8. PrintText(k, u) \in Clean /\ Shows(PrintText(k, u), w[L])
  <2> HIDE DEF Follows
  <2> QED BY <1>1, <1>4, <1>6, <1>7, TextShown
<1>9. w[L] = t \o u
  <2>1. SubSeq(u, 1, L) = u
    BY <1>1, SubSeqFull
  <2>2. L \in 0 .. L
    OBVIOUS
  <2> QED BY <1>3, <2>1, <2>2
<1> QED BY <1>8, <1>9

LEMMA TextReplaced ==
  ASSUME NEW k \in Clean, NEW t \in Seq(Visible), NEW u \in Seq(Visible), NEW v \in Seq(Visible),
         Shows(k, t \o u), Len(t) + Len(v) <= Cols * (Rows - 1)
  PROVE  LET d == PrintText(k, Times(BS, Len(u)) \o v) IN d \in Clean /\ Shows(d, t \o v)
<1>1. PICK m \in Nat, l \in Nat, a \in Nat : m = Len(u) /\ l = Len(v) /\ a = Len(t)
  BY LenProperties
<1>2. PICK L \in Nat : L = m + l
  OBVIOUS
<1>3. PICK T \in Seq({BS} \cup Visible) :
        T = Times(BS, m) /\ Len(T) = m /\ \A i \in 1 .. m : T[i] = BS
  <2>1. PICK T : T = Times(BS, m)
    OBVIOUS
  <2>2. T \in [1 .. m -> {BS} \cup Visible] /\ \A i \in 1 .. m : T[i] = BS
    BY <2>1 DEF Times
  <2> QED BY <2>1, <2>2, FunctionIsText
<1>4. PICK x : x = T \o v
  OBVIOUS
<1>5. /\ Len(x) = L
      /\ \A i \in 1 .. L : x[i] = IF i <= m THEN T[i] ELSE v[i - m]
  <2>1. PICK V : V = {BS} \cup Visible
    OBVIOUS
  <2>2. T \in Seq(V) /\ v \in Seq(V)
    BY <1>3, <2>1, SeqMonotonic
  <2>3. /\ Len(x) = m + l
        /\ \A i \in 1 .. m + l : x[i] = IF i <= m THEN T[i] ELSE v[i - m]
    <3>1. /\ Len(T \o v) = Len(T) + Len(v)
          /\ \A i \in 1 .. Len(T) + Len(v) : (T \o v)[i] = IF i <= Len(T) THEN T[i] ELSE v[i - Len(T)]
      BY <2>2, ConcatProperties
    <3> QED BY <1>1, <1>3, <1>4, <3>1
  <2> QED BY <1>2, <2>3
<1>6. PICK w : w = [n \in 0 .. L |-> IF n <= m THEN t \o SubSeq(u, 1, m - n)
                                     ELSE t \o SubSeq(v, 1, n - m)]
  OBVIOUS
<1>7. ASSUME NEW n \in 0 .. m
      PROVE  w[n] = t \o SubSeq(u, 1, m - n) /\ w[n] \in Seq(Visible) /\ Len(w[n]) = a + m - n
  <2>1. n \in 0 .. L /\ n <= m
    BY <1>2
  <2>2. PICK j \in Nat : j = m - n /\ j <= m
    <3>1. m - n \in Nat /\ m - n <= m
      OBVIOUS
    <3> QED BY <3>1
  <2>3. SubSeq(u, 1, j) \in Seq(Visible) /\ Len(SubSeq(u, 1, j)) = j
    BY <1>1, <2>2, Prefix
  <2>4. w[n] = t \o SubSeq(u, 1, j)
    BY <1>6, <2>1, <2>2
  <2>5. w[n] \in Seq(Visible) /\ Len(w[n]) = a + j
    BY <1>1, <2>3, <2>4, ConcatProperties
  <2> QED BY <2>2, <2>4, <2>5
<1>8. ASSUME NEW n \in m .. L
      PROVE  w[n] = t \o SubSeq(v, 1, n - m) /\ w[n] \in Seq(Visible) /\ Len(w[n]) = a + n - m
  <2>1. n \in 0 .. L
    OBVIOUS
  <2>2. PICK j \in Nat : j = n - m /\ j <= l
    <3>1. n - m \in Nat /\ n - m <= l
      BY <1>2
    <3> QED BY <3>1
  <2>3. SubSeq(v, 1, j) \in Seq(Visible) /\ Len(SubSeq(v, 1, j)) = j
    BY <1>1, <2>2, Prefix
  <2>4. w[n] = t \o SubSeq(v, 1, j)
    <3>1. CASE n = m
      <4>1. 1 \in Int /\ 0 \in Int /\ 0 < 1 /\ m - n = 0 /\ j = 0 /\ n <= m
        BY <2>2, <3>1
      <4>2. SubSeq(u, 1, 0) = <<>> /\ SubSeq(v, 1, 0) = <<>>
        BY <4>1, SubSeqEmpty
      <4>3. w[n] = t \o SubSeq(u, 1, 0)
        BY <1>6, <2>1, <4>1
      <4> QED BY <4>1, <4>2, <4>3
    <3>2. CASE n # m
      <4>1. ~(n <= m)
        BY <3>2
      <4> QED BY <1>6, <2>1, <2>2, <4>1
    <3> QED BY <3>1, <3>2
  <2>5. w[n] \in Seq(Visible) /\ Len(w[n]) = a + j
    BY <1>1, <2>3, <2>4, ConcatProperties
  <2>6. a + j = a + n - m
    BY <2>2
  <2> QED BY <2>2, <2>4, <2>5, <2>6
<1>9. w \in [0 .. L -> Seq(Visible)]
  <2>1. \A n \in 0 .. L : n \in 0 .. m \/ n \in m .. L
    OBVIOUS
  <2>2. \A n \in 0 .. L : w[n] \in Seq(Visible)
    BY <1>7, <1>8, <2>1
  <2> QED BY <1>6, <2>2
<1>10. w[0] = t \o u
  <2>1. 0 \in 0 .. m /\ m - 0 = m
    OBVIOUS
  <2>2. SubSeq(u, 1, m) = u
    BY <1>1, SubSeqFull
  <2> QED BY <1>7, <2>1, <2>2
<1>11. ASSUME NEW n \in 0 .. L - 1 PROVE Follows(w, n, x[n + 1])
  <2>1. n + 1 \in 1 .. L
    OBVIOUS
  <2>2. CASE n < m
    <3>1. /\ n \in 0 .. m /\ n + 1 \in 0 .. m /\ n + 1 \in 1 .. m /\ n + 1 <= m
      BY <2>2
    <3>2. x[n + 1] = BS
      BY <1>3, <1>5, <2>1, <3>1
    <3>3. PICK j \in Nat : j = m - (n + 1) /\ j + 1 = m - n /\ j < m
      <4>1. m - (n + 1) \in Nat /\ m - (n + 1) + 1 = m - n /\ m - (n + 1) < m
        BY <2>2
      <4> QED BY <4>1
    <3>4. PICK c \in Visible : c = u[j + 1]
      <4>1. j + 1 \in 1 .. m
        BY <3>3
      <4> QED BY <1>1, <4>1, ElementOfSeq
    <3>5. w[n] = Append(w[n + 1], c)
      <4>1. w[n] = t \o SubSeq(u, 1, j + 1) /\ w[n + 1] = t \o SubSeq(u, 1, j)
        BY <1>7, <3>1, <3>3
      <4>2. t \o SubSeq(u, 1, j + 1) = Append(t \o SubSeq(u, 1, j), u[j + 1])
        <5>1. t \in Seq(Visible) /\ u \in Seq(Visible) /\ j < Len(u)
          BY <1>1, <3>3
        <5> QED BY <5>1, PartAppended
      <4> QED BY <3>4, <4>1, <4>2
    <3>6. w[n + 1] \in Seq(Visible)
      BY <1>7, <3>1
    <3>7. w[n] # <<>> /\ SubSeq(w[n], 1, Len(w[n]) - 1) = w[n + 1]
      <4>1. PICK p, q : q \in Seq(Visible) /\ p = w[n] /\ q = w[n + 1] /\ p = Append(q, c)
        BY <3>5, <3>6
      <4>2. Append(q, c) # <<>> /\ SubSeq(Append(q, c), 1, Len(Append(q, c)) - 1) = q
        BY <4>1, LastErased
      <4> QED BY <4>1, <4>2
    <3> QED BY <3>2, <3>7 DEF Follows
  <2>3. CASE ~(n < m)
    <3>1. /\ n \in m .. L /\ n + 1 \in m .. L /\ ~(n + 1 <= m)
      BY <2>3
    <3>2. PICK j \in Nat : j = n - m /\ n + 1 - m = j + 1 /\ j < l
      <4>1. n - m \in Nat /\ n + 1 - m = n - m + 1 /\ n - m < l
        BY <1>2, <2>3
      <4> QED BY <4>1
    <3>3. PICK c \in Visible : c = v[j + 1]
      <4>1. j + 1 \in 1 .. l
        BY <3>2
      <4> QED BY <1>1, <4>1, ElementOfSeq
    <3>4. x[n + 1] = c
      BY <1>5, <2>1, <3>1, <3>2, <3>3
    <3>5. w[n + 1] = Append(w[n], c)
      <4>1. w[n] = t \o SubSeq(v, 1, j)
        BY <1>8, <3>1, <3>2
      <4>2. w[n + 1] = t \o SubSeq(v, 1, j + 1)
        BY <1>8, <3>1, <3>2
      <4>3. t \o SubSeq(v, 1, j + 1) = Append(t \o SubSeq(v, 1, j), v[j + 1])
        <5>1. t \in Seq(Visible) /\ v \in Seq(Visible) /\ j < Len(v)
          BY <1>1, <3>2
        <5> QED BY <5>1, PartAppended
      <4> QED BY <3>3, <4>1, <4>2, <4>3
    <3>6. Len(w[n]) + 1 <= Cols * (Rows - 1)
      <4>1. PICK y : y = Cols * (Rows - 1) /\ a + l <= y
        BY <1>1
      <4>2. y \in Int
        BY <4>1, Sizes
      <4>3. Len(w[n]) = a + n - m
        BY <1>8, <3>1
      <4>4. a + n - m + 1 <= y
        BY <1>2, <4>1, <4>2
      <4> QED BY <4>1, <4>3, <4>4
    <3> QED BY <3>3, <3>4, <3>5, <3>6 DEF Follows
  <2> QED BY <2>2, <2>3
<1>12. Shows(k, w[0])
  BY <1>10
<1>13. PrintText(k, x) \in Clean /\ Shows(PrintText(k, x), w[L])
  <2> HIDE DEF Follows
  <2> QED BY <1>5, <1>9, <1>11, <1>12, TextShown
<1>14. w[L] = t \o v
  <2>1. L \in m .. L /\ L - m = l
    BY <1>2
  <2>2. SubSeq(v, 1, l) = v
    BY <1>1, SubSeqFull
  <2> QED BY <1>8, <2>1, <2>2
<1> QED BY <1>1, <1>3, <1>4, <1>13, <1>14

-----------------------------------------------------------------------------
(* What Enter does with the line.                                          *)
LEMMA FirstSpaceIs ==
  ASSUME NEW S, NEW line \in Seq(S)
  PROVE  FirstSpace(line) \in 1 .. Len(line) + 1
<1>1. PICK n \in Nat : n = Len(line)
  BY LenProperties
<1>2. PICK I : I = {i \in 1 .. Len(line) : line[i] = Space} \cup {Len(line) + 1}
  OBVIOUS
<1>3. I \subseteq 1 .. n + 1 /\ I \subseteq Nat /\ I # {}
  BY <1>1, <1>2
<1>4. \E i \in I : \A j \in I : i <= j
  BY <1>3, SmallestOf
<1>5. FirstSpace(line) = CHOOSE i \in I : \A j \in I : i <= j
  BY <1>2 DEF FirstSpace
<1>6. FirstSpace(line) \in I
  BY <1>4, <1>5
<1> QED BY <1>1, <1>3, <1>6

LEMMA FirstTokenIs ==
  ASSUME NEW S, NEW line \in Seq(S)
  PROVE  FirstToken(line) \in Seq(S)
<1>1. PICK n \in Nat : n = Len(line)
  BY LenProperties
<1>2. PICK m \in Nat : m = FirstSpace(line) - 1 /\ m <= n
  <2>1. PICK f : f = FirstSpace(line)
    OBVIOUS
  <2>2. f \in 1 .. n + 1
    BY <1>1, <2>1, FirstSpaceIs
  <2>3. f - 1 \in Nat /\ f - 1 <= n
    BY <2>2
  <2> QED BY <2>1, <2>3
<1>3. SubSeq(line, 1, m) \in Seq(S)
  BY <1>1, <1>2, Prefix
<1> QED BY <1>2, <1>3 DEF FirstToken

LEMMA EchoTextIs == ASSUME NEW line \in Seq(Char) PROVE EchoText(line) \in Seq(Printed)
<1>1. PICK n \in Nat : n = Len(line)
  BY LenProperties
<1>2. PICK m \in Nat : m = FirstSpace(line) /\ m \in 1 .. n + 1
  BY <1>1, FirstSpaceIs
<1>3. PICK f : f = SubSeq(line, FirstSpace(line) + 1, Len(line))
  OBVIOUS
<1>4. f \in Seq(Char)
  <2>1. CASE m <= n
    <3>1. SubSeq(line, m + 1, n) \in Seq(Char)
      BY <1>1, <2>1, Part
    <3> QED BY <1>1, <1>2, <1>3, <3>1
  <2>2. CASE ~(m <= n)
    <3>1. m + 1 \in Int /\ n \in Int /\ n < m + 1
      BY <2>2
    <3>2. SubSeq(line, m + 1, n) = <<>>
      BY <3>1, SubSeqEmpty
    <3> QED BY <1>1, <1>2, <1>3, <3>2, EmptySeq
  <2> QED BY <2>1, <2>2
<1>5. f \in Seq(Printed) /\ Space \in Printed /\ NL \in Printed
  <2>1. Char \subseteq Printed /\ Space \in Printed /\ NL \in Printed
    BY Keyed DEF Printed
  <2> QED BY <1>4, <2>1, SeqMonotonic
<1>6. PICK g : g = IF f = <<>> \/ f[Len(f)] = Space THEN f ELSE Append(f, Space)
  OBVIOUS
<1>7. Append(f, Space) \in Seq(Printed)
  BY <1>5, AppendProperties
<1>8. g \in Seq(Printed)
  BY <1>5, <1>6, <1>7
<1>9. Append(g, NL) \in Seq(Printed)
  BY <1>5, <1>8, AppendProperties
<1>10. EchoText(line) = Append(g, NL)
  BY <1>3, <1>6 DEF EchoText
<1> QED BY <1>9, <1>10

LEMMA CommandKeepsClean ==
  ASSUME NEW k \in Clean, NEW line \in Seq(Char) PROVE ExecuteCommand(k, line) \in Clean
<1>1. PrintText(k, EchoText(line)) \in Clean
  BY EchoTextIs, TextKeepsClean
<1>2. ClearScreen(k) \in Clean
  BY Cleared
<1>3. PrintText(k, Unknown \o FirstToken(line) \o <<NL>>) \in Clean
  <2>1. PICK P : P = Printed
    OBVIOUS
  <2>2. Char \subseteq P /\ Graphic \subseteq P /\ NL \in P
    BY <2>1 DEF Printed
  <2>3. Unknown \in Seq(P)
    BY <2>2, Words, SeqMonotonic
  <2>4. FirstToken(line) \in Seq(P)
    BY <2>2, FirstTokenIs, SeqMonotonic
  <2>5. Unknown \o FirstToken(line) \in Seq(P)
    BY <2>3, <2>4, ConcatProperties
  <2>6. <<NL>> \in Seq(P)
    BY <2>2
  <2>7. Unknown \o FirstToken(line) \o <<NL>> \in Seq(P)
    BY <2>5, <2>6, ConcatProperties
  <2> QED BY <2>1, <2>7, TextKeepsClean
<1>4. CASE line = <<>>
  BY <1>4 DEF ExecuteCommand
<1>5. CASE line # <<>> /\ FirstToken(line) = EchoWord
  <2>1. \/ ExecuteCommand(k, line) = PrintText(k, EchoText(line))
        \/ ExecuteCommand(k, line) = ClearScreen(k)
    BY <1>5 DEF ExecuteCommand
  <2> QED BY <1>1, <1>2, <2>1
<1>6. CASE line # <<>> /\ FirstToken(line) # EchoWord /\ FirstToken(line) = ClearWord
  BY <1>2, <1>6 DEF ExecuteCommand
<1>7. CASE line # <<>> /\ FirstToken(line) # EchoWord /\ FirstToken(line) # ClearWord
  BY <1>3, <1>7 DEF ExecuteCommand
<1> QED BY <1>4, <1>5, <1>6, <1>7

(* After Enter the screen shows the prompt.                                *)
LEMMA PromptShown ==
  ASSUME NEW k \in Clean, NEW line \in Seq(Char)
  PROVE  LET d == PrintText(ExecuteCommand(PrintChar(k, NL), line), Prompt)
         IN  d \in Clean /\ Shows(d, Prompt)
<1>1. PICK j : j = ExecuteCommand(PrintChar(k, NL), line)
  OBVIOUS
<1>2. j \in Clean
  BY <1>1, LineBroken, CommandKeepsClean
<1>3. Shows(j, <<>>)
  <2>1. Len(<<>>) = 0 /\ Cursor(j) \in Nat
    BY <1>2, CleanCursor, EmptySeq
  <2> QED BY <2>1 DEF Shows
<1>4. PICK V : V = Visible
  OBVIOUS
<1>5. Prompt \in Seq(V) /\ <<>> \in Seq(V)
  BY <1>4, Words, SeqMonotonic, EmptySeq DEF Visible
<1>6. Len(<<>>) + Len(Prompt) <= Cols * (Rows - 1)
  <2>1. PICK n \in Nat : n = Len(Prompt)
    BY <1>5, LenProperties
  <2>2. PICK y : y = Cols * (Rows - 1)
    OBVIOUS
  <2>3. y \in Int /\ Len(<<>>) = 0
    BY <2>2, Sizes, EmptySeq
  <2>4. BufLimit \in Nat /\ BufLimit + n <= y
    BY <2>1, <2>2, Keyed, Words
  <2>5. 0 + n <= y
    BY <2>3, <2>4
  <2> QED BY <2>1, <2>2, <2>3, <2>5
<1>7. PrintText(j, Prompt) \in Clean /\ Shows(PrintText(j, Prompt), <<>> \o Prompt)
  BY <1>2, <1>3, <1>4, <1>5, <1>6, TextAppended
<1>8. <<>> \o Prompt = Prompt
  BY <1>5, ConcatEmptySeq
<1> QED BY <1>1, <1>7, <1>8

-----------------------------------------------------------------------------
(* The buffers. *)
Buffers == [Places -> Char \cup {Nul}]
LastLine == Text(last_command, last_command_len)

LEMMA TextIs ==
  ASSUME NEW b \in Buffers, NEW n \in Places
  PROVE  /\ Text(b, n) \in Seq(Char \cup {Nul}) /\ Len(Text(b, n)) = n
         /\ \A i \in 1 .. n : Text(b, n)[i] = b[i - 1]
<1>1. PICK f : f = Text(b, n)
  OBVIOUS
<1>2. n \in Nat /\ \A i \in 1 .. n : i - 1 \in Places
  BY Keyed DEF Places
<1>3. PICK V : V = Char \cup {Nul}
  OBVIOUS
<1>4. f \in [1 .. n -> V] /\ \A i \in 1 .. n : f[i] = b[i - 1]
  BY <1>1, <1>2, <1>3 DEF Text, Buffers
<1>5. f \in Seq(V) /\ Len(f) = n
  BY <1>2, <1>4, FunctionIsText
<1> QED BY <1>1, <1>3, <1>4, <1>5

LEMMA TextEqual ==
  ASSUME NEW b, NEW S, NEW t \in Seq(S), NEW n, n = Len(t), \A i \in 1 .. n : b[i - 1] = t[i]
  PROVE  Text(b, n) = t
<1>1. n \in Nat
  BY LenProperties
<1>2. PICK f : f = Text(b, n)
  OBVIOUS
<1>3. \A i \in 1 .. n : f[i] = t[i] /\ t[i] \in S
  BY <1>2, ElementOfSeq DEF Text
<1>4. f \in [1 .. n -> S]
  BY <1>2, <1>3 DEF Text
<1>5. f \in Seq(S) /\ Len(f) = n
  BY <1>1, <1>4, FunctionIsText
<1>6. f = t
  BY <1>3, <1>5, SeqEqual
<1> QED BY <1>2, <1>6

LEMMA StoredIs ==
  ASSUME NEW b \in Buffers, NEW n \in Places, NEW t \in Seq(Char \cup {Nul})
  PROVE  /\ Stored(b, n, t) \in Buffers
         /\ \A i \in Places : i < n => Stored(b, n, t)[i] = b[i]
         /\ \A i \in 1 .. Len(t) : n + i - 1 \in Places => Stored(b, n, t)[n + i - 1] = t[i]
<1>1. PICK L \in Nat : L = Len(t)
  BY LenProperties
<1>2. PICK s : s = Stored(b, n, t)
  OBVIOUS
<1>3. n \in Nat /\ Places \subseteq Nat
  BY Keyed DEF Places
<1>4. s = [i \in Places |-> IF i - n \in 0 .. L - 1 THEN t[i - n + 1] ELSE b[i]]
  BY <1>1, <1>2 DEF Stored
<1>5. s \in Buffers
  <2>1. ASSUME NEW i \in Places
        PROVE  (IF i - n \in 0 .. L - 1 THEN t[i - n + 1] ELSE b[i]) \in Char \cup {Nul}
    <3>1. CASE i - n \in 0 .. L - 1
      <4>1. i - n + 1 \in 1 .. L
        BY <1>3, <3>1
      <4> QED BY <1>1, <3>1, <4>1, ElementOfSeq
    <3>2. CASE ~(i - n \in 0 .. L - 1)
      BY <3>2 DEF Buffers
    <3> QED BY <3>1, <3>2
  <2> QED BY <1>4, <2>1 DEF Buffers
<1>6. ASSUME NEW i \in Places, i < n PROVE s[i] = b[i]
  <2>1. ~(i - n \in 0 .. L - 1)
    BY <1>3, <1>6
  <2> QED BY <1>4, <2>1
<1>7. ASSUME NEW i \in 1 .. L, n + i - 1 \in Places PROVE s[n + i - 1] = t[i]
  <2>1. PICK j \in Places : j = n + i - 1
    BY <1>7
  <2>2. j - n \in 0 .. L - 1 /\ j - n + 1 = i
    BY <1>3, <2>1
  <2> QED BY <1>4, <2>1, <2>2
<1> QED BY <1>1, <1>2, <1>5, <1>6, <1>7

-----------------------------------------------------------------------------
(* The invariant, in the words of these lemmas, and what it says.          *)
Typed ==
  /\ key_buffer \in Buffers /\ buffer_index \in Places
  /\ last_command \in Buffers /\ last_command_len \in Places
  /\ shift_pressed \in BOOLEAN /\ caps_locks \in BOOLEAN /\ early \in BOOLEAN
RestOfPrompt == \E n \in 0 .. Len(Prompt) : rest = SubSeq(Prompt, n + 1, Len(Prompt))

LEMMA KeyInvIs ==
  KeyInv <=> /\ Typed /\ con \in Clean
             /\ ~early => Shows(con, Displayed)
             /\ Line \in Seq(Char) /\ LastLine \in Seq(Char)
             /\ RestOfPrompt
             /\ rest # <<>> /\ ~early => buffer_index = 0
<1>1. TypeOK <=> Typed /\ con \in Consoles
  BY DEF TypeOK, Typed, Buffers, Consoles, Logs, Grids, Glyphs
<1>2. con \in Clean <=> con \in Consoles /\ BlankAfter(con)
  BY DEF Clean
<1> QED BY <1>1, <1>2 DEF KeyInv, ScreenShowsLine, LineOnScreen, LastLine, RestOfPrompt

LEMMA WholePrompt == ASSUME NEW r, r = <<>> PROVE SubSeq(Prompt, 1, Len(Prompt) - Len(r)) = Prompt
<1>1. PICK n \in Nat : n = Len(Prompt)
  BY Words, LenProperties
<1>2. Len(r) = 0
  BY EmptySeq
<1>3. Len(Prompt) - Len(r) = Len(Prompt)
  BY <1>1, <1>2
<1> QED BY <1>3, Words, SubSeqFull

LEMMA LineIs ==
  ASSUME KeyInv
  PROVE  /\ Typed /\ con \in Clean /\ Line \in Seq(Char) /\ LastLine \in Seq(Char)
         /\ Len(Line) = buffer_index /\ \A i \in 1 .. buffer_index : Line[i] = key_buffer[i - 1]
         /\ Len(LastLine) = last_command_len
         /\ \A i \in 1 .. last_command_len : LastLine[i] = last_command[i - 1]
         /\ rest = <<>> /\ ~early => Shows(con, Prompt \o Line)
<1>1. /\ Typed /\ con \in Clean /\ Line \in Seq(Char) /\ LastLine \in Seq(Char)
      /\ ~early => Shows(con, Displayed)
  BY KeyInvIs
<1>2. Len(Line) = buffer_index /\ \A i \in 1 .. buffer_index : Line[i] = key_buffer[i - 1]
  BY <1>1, TextIs DEF Typed, Line
<1>3. /\ Len(LastLine) = last_command_len
      /\ \A i \in 1 .. last_command_len : LastLine[i] = last_command[i - 1]
  BY <1>1, TextIs DEF Typed, LastLine
<1>4. rest = <<>> => Displayed = Prompt \o Line
  BY WholePrompt DEF Displayed
<1> QED BY <1>1, <1>2, <1>3, <1>4

(* Lines and the prompt fit on the screen.                                 *)
LEMMA Fits ==
  ASSUME NEW t, Len(t) \in Nat, Len(t) <= BufLimit
  PROVE  Len(Prompt) + Len(t) <= Cols * (Rows - 1)
<1>1. PICK n \in Nat : n = Len(Prompt)
  BY Words, LenProperties
<1>2. PICK l \in Nat : l = Len(t)
  OBVIOUS
<1>3. PICK y : y = Cols * (Rows - 1)
  OBVIOUS
<1>4. y \in Int /\ BufLimit \in Nat /\ BufLimit + n <= y /\ l <= BufLimit
  BY <1>1, <1>2, <1>3, Sizes, Keyed, Words
<1>5. n + l <= y
  BY <1>4
<1> QED BY <1>1, <1>2, <1>3, <1>5

LEMMA SeenTexts ==
  /\ Prompt \in Seq(Visible)
  /\ \A t \in Seq(Char) : t \in Seq(Visible) /\ Prompt \o t \in Seq(Visible)
                          /\ Len(Prompt \o t) = Len(Prompt) + Len(t)
<1>1. PICK V : V = Visible
  OBVIOUS
<1>2. Char \subseteq V /\ Graphic \subseteq V
  BY <1>1 DEF Visible
<1>3. Prompt \in Seq(V)
  BY <1>2, Words, SeqMonotonic
<1>4. ASSUME NEW t \in Seq(Char)
      PROVE  t \in Seq(V) /\ Prompt \o t \in Seq(V) /\ Len(Prompt \o t) = Len(Prompt) + Len(t)
  <2>1. t \in Seq(V)
    BY <1>2, SeqMonotonic
  <2> QED BY <1>3, <2>1, ConcatProperties
<1> QED BY <1>1, <1>3, <1>4

(* A key that leaves a line in its buffer, and the prompt and the line on  *)
(* the screen if it comes after the prompt, keeps the invariant.           *)
LEMMA KeyKeeps ==
  ASSUME KeyInv, Handled,
         key_buffer' \in Buffers, buffer_index' \in Places,
         last_command' \in Buffers, last_command_len' \in Places,
         shift_pressed' \in BOOLEAN, caps_locks' \in BOOLEAN, con' \in Clean,
         Line' \in Seq(Char), LastLine' \in Seq(Char),
         rest = <<>> /\ ~early => Shows(con', Prompt \o Line')
  PROVE  KeyInv'
<1>1. Typed /\ RestOfPrompt
  BY KeyInvIs
<1>2. early' \in BOOLEAN /\ rest' = rest /\ (~early' => rest = <<>> /\ ~early)
  BY <1>1 DEF Handled, Typed
<1>3. Typed' /\ RestOfPrompt'
  BY <1>1, <1>2 DEF Typed, RestOfPrompt
<1>4. ~early' => Displayed' = Prompt \o Line'
  BY <1>2, WholePrompt DEF Displayed
<1>5. (~early => Shows(con, Displayed))'
  BY <1>2, <1>4
<1>6. TypeOK'
  BY <1>3, CleanCursor DEF TypeOK, Typed, Buffers, Consoles, Logs, Grids, Glyphs
<1>7. BlankAfter(con')
  BY CleanCursor
<1>8. (rest # <<>> /\ ~early => buffer_index = 0)'
  BY <1>2
<1> QED BY <1>3, <1>5, <1>6, <1>7, <1>8
        DEF KeyInv, ScreenShowsLine, LineOnScreen, LastLine, RestOfPrompt

-----------------------------------------------------------------------------
(* One lemma for each key: what it does to the line and to the line saved, *)
(* and that it keeps the invariant.                                        *)
LEMMA CharStep ==
  ASSUME KeyInv, NEW key \in Keys, CharKey(key)
  PROVE  /\ KeyInv'
         /\ LastLine' = LastLine
         /\ \E c \in Char : Len(Line) < BufLimit /\ Line' = Append(Line, c)
<1>1. PICK c \in Char : c = FinalChar(key)
  BY DEF FinalChar, Char
<1>2. PICK n \in Nat : n = buffer_index /\ n < BufLimit /\ n \in Places /\ n + 1 \in Places
  BY LineIs, Keyed DEF CharKey, Typed, Places
<1>3. PICK b, m : b = key_buffer' /\ m = buffer_index' /\ m = n + 1
  BY <1>2 DEF CharKey
<1>4. b \in Buffers /\ b[n] = c /\ \A i \in 1 .. n : b[i - 1] = key_buffer[i - 1]
  <2>1. b = [key_buffer EXCEPT ![n] = c] /\ key_buffer \in [Places -> Char \cup {Nul}]
    BY <1>1, <1>2, <1>3, LineIs DEF CharKey, Typed, Buffers
  <2>2. \A i \in 1 .. n : i - 1 \in Places /\ i - 1 # n
    BY <1>2, Keyed DEF Places
  <2> QED BY <1>2, <2>1, <2>2 DEF Buffers
<1>5. PICK t : t = Append(Line, c)
  OBVIOUS
<1>6. Line \in Seq(Char) /\ Len(Line) = n /\ \A i \in 1 .. n : Line[i] = key_buffer[i - 1]
  BY <1>2, LineIs
<1>7. t \in Seq(Char) /\ Len(t) = m /\ \A i \in 1 .. m : b[i - 1] = t[i]
  <2>1. /\ t \in Seq(Char) /\ Len(t) = n + 1
        /\ (\A i \in 1 .. n : t[i] = Line[i]) /\ t[n + 1] = c
    BY <1>5, <1>6, AppendProperties
  <2>2. ASSUME NEW i \in 1 .. n + 1 PROVE b[i - 1] = t[i]
    <3>1. CASE i = n + 1
      <4>1. i - 1 = n
        BY <3>1
      <4> QED BY <1>4, <2>1, <3>1, <4>1
    <3>2. CASE i # n + 1
      <4>1. i \in 1 .. n
        BY <3>2
      <4> QED BY <1>4, <1>6, <2>1, <4>1
    <3> QED BY <3>1, <3>2
  <2> QED BY <1>3, <2>1, <2>2
<1>8. Line' = t
  <2>1. Text(b, m) = t
    BY <1>7, TextEqual
  <2> QED BY <1>3, <2>1 DEF Line
<1>9. c \in Visible /\ c \in Printed
  BY Keyed DEF Visible
<1>10. con \in Clean /\ con' = PrintChar(con, c)
  BY <1>1, LineIs DEF CharKey
<1>11. con' \in Clean
  BY <1>9, <1>10, CharKeepsClean
<1>12. ASSUME rest = <<>> /\ ~early PROVE Shows(con', Prompt \o Line')
  <2>1. Shows(con, Prompt \o Line)
    BY <1>12, LineIs
  <2>2. PICK u : u = Prompt \o Line
    OBVIOUS
  <2>3. u \in Seq(Visible) /\ Len(u) = Len(Prompt) + n
    BY <1>6, <2>2, SeenTexts
  <2>4. Len(u) + 1 <= Cols * (Rows - 1)
    <3>1. Len(t) = n + 1 /\ n + 1 <= BufLimit /\ n + 1 \in Nat
      BY <1>2, <1>3, <1>7, Keyed
    <3>2. Len(Prompt) + (n + 1) <= Cols * (Rows - 1)
      BY <3>1, Fits
    <3>3. PICK l \in Nat : l = Len(Prompt)
      BY Words, LenProperties
    <3>4. l + n + 1 = l + (n + 1)
      OBVIOUS
    <3> QED BY <2>3, <3>2, <3>3, <3>4
  <2>5. Shows(PrintChar(con, c), Append(u, c))
    BY <1>9, <1>10, <2>1, <2>2, <2>3, <2>4, ShownMore
  <2>6. Prompt \o Append(Line, c) = Append(Prompt \o Line, c)
    <3>1. PICK V : V = Visible
      OBVIOUS
    <3>2. Prompt \in Seq(V) /\ Line \in Seq(V) /\ u \in Seq(V) /\ c \in V /\ <<c>> \in Seq(V)
      BY <1>6, <1>9, <2>3, <3>1, SeenTexts
    <3>3. Append(Line, c) = Line \o <<c>> /\ Append(u, c) = u \o <<c>>
      BY <3>2, AppendIsConcat
    <3>4. (Prompt \o Line) \o <<c>> = Prompt \o (Line \o <<c>>)
      BY <3>2, ConcatAssociative
    <3> QED BY <2>2, <3>3, <3>4
  <2> QED BY <1>5, <1>8, <1>10, <2>2, <2>5, <2>6
<1>13. LastLine' = LastLine /\ Handled
  BY DEF CharKey, LastLine
<1>14. KeyInv'
  <2>1. /\ last_command' \in Buffers /\ last_command_len' \in Places
        /\ shift_pressed' \in BOOLEAN /\ caps_locks' \in BOOLEAN
    BY LineIs DEF Typed, CharKey
  <2>2. LastLine' \in Seq(Char)
    BY <1>13, LineIs
  <2> QED BY <1>2, <1>3, <1>4, <1>7, <1>8, <1>11, <1>12, <1>13, <2>1, <2>2, KeyKeeps
<1> QED BY <1>2, <1>5, <1>6, <1>8, <1>13, <1>14

LEMMA BackspaceStep ==
  ASSUME KeyInv, BackspaceKey
  PROVE  /\ KeyInv'
         /\ LastLine' = LastLine
         /\ Line # <<>> /\ Line' = SubSeq(Line, 1, Len(Line) - 1)
<1>1. PICK n \in Nat : n = buffer_index /\ n > 0 /\ n <= BufLimit
  BY LineIs, Keyed DEF BackspaceKey, Typed, Places
<1>2. PICK m \in Nat : m = n - 1 /\ m \in Places /\ m + 1 = n
  <2>1. n - 1 \in Nat /\ n - 1 \in Places /\ n - 1 + 1 = n
    BY <1>1, Keyed DEF Places
  <2> QED BY <2>1
<1>3. PICK b, q : b = key_buffer' /\ q = buffer_index' /\ q = m
  BY <1>1, <1>2 DEF BackspaceKey
<1>4. b \in Buffers /\ \A i \in 1 .. m : b[i - 1] = key_buffer[i - 1]
  <2>1. b = [key_buffer EXCEPT ![m] = Nul] /\ key_buffer \in [Places -> Char \cup {Nul}]
    BY <1>1, <1>2, <1>3, LineIs DEF BackspaceKey, Typed, Buffers
  <2>2. \A i \in 1 .. m : i - 1 \in Places /\ i - 1 # m
    BY <1>2, Keyed DEF Places
  <2> QED BY <1>2, <2>1, <2>2 DEF Buffers
<1>5. Line \in Seq(Char) /\ Len(Line) = n /\ \A i \in 1 .. n : Line[i] = key_buffer[i - 1]
  BY <1>1, LineIs
<1>6. PICK t : t = SubSeq(Line, 1, m)
  OBVIOUS
<1>7. t \in Seq(Char) /\ Len(t) = m /\ \A i \in 1 .. m : b[i - 1] = t[i]
  <2>1. m <= Len(Line) /\ \A i \in 1 .. m : i \in 1 .. n
    BY <1>2, <1>5
  <2>2. t \in Seq(Char) /\ Len(t) = m /\ \A i \in 1 .. m : t[i] = Line[i]
    BY <1>5, <1>6, <2>1, Prefix
  <2> QED BY <1>4, <1>5, <2>1, <2>2
<1>8. Line' = t
  <2>1. Text(b, m) = t
    BY <1>7, TextEqual
  <2> QED BY <1>3, <2>1 DEF Line
<1>9. con \in Clean /\ con' = PrintChar(con, BS)
  BY LineIs DEF BackspaceKey
<1>10. con' \in Clean
  BY <1>9, Keyed, CharKeepsClean
<1>11. ASSUME rest = <<>> /\ ~early PROVE Shows(con', Prompt \o Line')
  <2>1. Shows(con, Prompt \o Line)
    BY <1>11, LineIs
  <2>2. PICK u, p : u = Prompt \o Line /\ p = Prompt \o t
    OBVIOUS
  <2>3. u \in Seq(Visible) /\ p \in Seq(Visible)
    BY <1>5, <1>7, <2>2, SeenTexts
  <2>4. PICK c \in Visible : u = Append(p, c)
    <3>1. Prompt \in Seq(Visible) /\ Line \in Seq(Visible) /\ m < Len(Line) /\ n \in 1 .. Len(Line)
      BY <1>1, <1>2, <1>5, SeenTexts
    <3>2. Prompt \o SubSeq(Line, 1, m + 1) = Append(Prompt \o SubSeq(Line, 1, m), Line[m + 1])
      BY <3>1, PartAppended
    <3>3. SubSeq(Line, 1, m + 1) = Line
      BY <1>2, <1>5, SubSeqFull
    <3>4. Line[n] \in Visible
      BY <3>1, ElementOfSeq
    <3> QED BY <1>2, <1>6, <2>2, <3>2, <3>3, <3>4
  <2>5. Append(p, c) # <<>> /\ SubSeq(Append(p, c), 1, Len(Append(p, c)) - 1) = p
    BY <2>3, LastErased
  <2>6. Shows(PrintChar(con, BS), SubSeq(u, 1, Len(u) - 1))
    BY <1>9, <2>1, <2>2, <2>3, <2>4, <2>5, ShownLess
  <2> QED BY <1>8, <1>9, <2>2, <2>4, <2>5, <2>6
<1>12. LastLine' = LastLine /\ Handled
  BY DEF BackspaceKey, LastLine
<1>13. KeyInv'
  <2>1. /\ last_command' \in Buffers /\ last_command_len' \in Places
        /\ shift_pressed' \in BOOLEAN /\ caps_locks' \in BOOLEAN
    BY LineIs DEF Typed, BackspaceKey
  <2>2. LastLine' \in Seq(Char)
    BY <1>12, LineIs
  <2> QED BY <1>2, <1>3, <1>4, <1>7, <1>8, <1>10, <1>11, <1>12, <2>1, <2>2, KeyKeeps
<1>14. Line # <<>>
  BY <1>1, <1>5, EmptySeq
<1> QED BY <1>1, <1>2, <1>5, <1>6, <1>8, <1>12, <1>13, <1>14

LEMMA ModifierStep ==
  ASSUME KeyInv, CapsKey \/ \E pressed \in BOOLEAN : ShiftKey(pressed)
  PROVE  KeyInv' /\ LastLine' = LastLine /\ Line' = Line
<1>1. /\ Handled /\ UNCHANGED <<con, lineVars>>
      /\ shift_pressed' \in BOOLEAN /\ caps_locks' \in BOOLEAN
  BY LineIs DEF CapsKey, ShiftKey, Typed
<1>2. LastLine' = LastLine /\ Line' = Line
  BY <1>1 DEF LastLine, Line, lineVars
<1>3. /\ key_buffer' \in Buffers /\ buffer_index' \in Places
      /\ last_command' \in Buffers /\ last_command_len' \in Places /\ con' \in Clean
      /\ rest = <<>> /\ ~early => Shows(con', Prompt \o Line)
  BY <1>1, LineIs DEF Typed, lineVars
<1> QED BY <1>1, <1>2, <1>3, LineIs, KeyKeeps

(* Tab: nothing, or the line becomes the first command it begins.          *)
LEMMA CommandIs ==
  ASSUME NEW i \in 1 .. Len(Commands)
  PROVE  Commands[i] \in Seq(Char) /\ Len(Commands[i]) \in Nat /\ Len(Commands[i]) <= BufLimit
<1>1. PICK V : V = Seq(Char)
  OBVIOUS
<1>2. Commands \in Seq(V)
  BY <1>1, Words
<1>3. Commands[i] \in V
  BY <1>2, ElementOfSeq
<1> QED BY <1>1, <1>3, Words, LenProperties

LEMMA CompletedText ==
  ASSUME NEW t \in Seq(Visible), NEW w \in Seq(Visible), NEW n \in Nat, n <= Len(w)
  PROVE  (t \o SubSeq(w, 1, n)) \o SubSeq(w, n + 1, Len(w)) = t \o w
<1>1. PICK V : V = Visible
  OBVIOUS
<1>2. PICK l \in Nat : l = Len(w)
  BY LenProperties
<1>3. PICK a, b : a = SubSeq(w, 1, n) /\ b = SubSeq(w, n + 1, l)
  OBVIOUS
<1>4. a \in Seq(V) /\ b \in Seq(V) /\ t \in Seq(V) /\ w \in Seq(V)
  <2>1. a \in Seq(Visible)
    BY <1>2, <1>3, Prefix
  <2>2. l <= Len(w)
    BY <1>2
  <2>3. b \in Seq(Visible)
    BY <1>2, <1>3, <2>2, Part
  <2> QED BY <1>1, <2>1, <2>3
<1>5. a \o b = w
  <2>1. 1 \in 1 .. Len(w) + 1 /\ n \in 1 - 1 .. Len(w) /\ l \in n .. Len(w)
    BY <1>2
  <2>2. SubSeq(w, 1, n) \o SubSeq(w, n + 1, l) = SubSeq(w, 1, l)
    BY <2>1, ConcatAdjacentSubSeq
  <2>3. SubSeq(w, 1, l) = w
    BY <1>2, SubSeqFull
  <2> QED BY <1>3, <2>2, <2>3
<1>6. (t \o a) \o b = t \o (a \o b)
  BY <1>4, ConcatAssociative
<1> QED BY <1>2, <1>3, <1>5, <1>6

LEMMA CompleteStep ==
  ASSUME KeyInv, Handled, NEW i \in 1 .. Len(Commands), buffer_index > 0, Completes(i),
         NEW missing, missing = SubSeq(Commands[i], buffer_index + 1, Len(Commands[i])),
         con' = PrintText(con, missing),
         key_buffer' = Stored([key_buffer EXCEPT ![buffer_index] = Nul], buffer_index, missing),
         buffer_index' = Len(Commands[i]),
         UNCHANGED <<last_command, last_command_len, shift_pressed, caps_locks>>
  PROVE  /\ KeyInv'
         /\ LastLine' = LastLine
         /\ Line # <<>> /\ Len(Line) <= Len(Commands[i])
         /\ Line = SubSeq(Commands[i], 1, Len(Line)) /\ Line' = Commands[i]
<1>1. PICK w : w = Commands[i]
  OBVIOUS
<1>2. PICK l \in Nat : l = Len(w) /\ l <= BufLimit /\ w \in Seq(Char)
  BY <1>1, CommandIs
<1>3. PICK n \in Nat : n = buffer_index /\ n > 0 /\ n \in Places /\ n <= l /\ SubSeq(w, 1, n) = Line
  BY <1>1, <1>2, LineIs, Keyed DEF Typed, Places, Completes
<1>4. missing \in Seq(Char) /\ Len(missing) = l - n /\ \A j \in 1 .. l - n : missing[j] = w[n + j]
  <2>1. missing = SubSeq(w, n + 1, l) /\ l <= Len(w)
    BY <1>1, <1>2, <1>3
  <2>2. w \in Seq(Char) /\ n \in Nat /\ l \in Nat /\ n <= l /\ l <= Len(w)
    BY <1>2, <1>3, <2>1
  <2>3. /\ SubSeq(w, n + 1, l) \in Seq(Char) /\ Len(SubSeq(w, n + 1, l)) = l - n
        /\ \A j \in 1 .. l - n : SubSeq(w, n + 1, l)[j] = w[n + j]
    BY <2>2, Part
  <2> QED BY <2>1, <2>3
<1>5. Line \in Seq(Char) /\ Len(Line) = n /\ \A j \in 1 .. n : Line[j] = key_buffer[j - 1] /\ Line[j] = w[j]
  <2>1. Line \in Seq(Char) /\ Len(Line) = n /\ \A j \in 1 .. n : Line[j] = key_buffer[j - 1]
    BY <1>3, LineIs
  <2>2. \A j \in 1 .. n : SubSeq(w, 1, n)[j] = w[j]
    BY <1>2, <1>3, Prefix
  <2> QED BY <1>3, <2>1, <2>2
<1>6. PICK a : a = [key_buffer EXCEPT ![n] = Nul]
  OBVIOUS
<1>7. a \in Buffers /\ \A j \in 1 .. n : a[j - 1] = key_buffer[j - 1]
  <2>1. key_buffer \in [Places -> Char \cup {Nul}]
    BY LineIs DEF Typed, Buffers
  <2>2. \A j \in 1 .. n : j - 1 \in Places /\ j - 1 # n
    BY <1>3, Keyed DEF Places
  <2> QED BY <1>6, <2>1, <2>2 DEF Buffers
<1>8. PICK b, m : b = key_buffer' /\ m = buffer_index' /\ b = Stored(a, n, missing) /\ m = l
  BY <1>1, <1>2, <1>3, <1>6
<1>9. /\ b \in Buffers
      /\ \A j \in Places : j < n => b[j] = a[j]
      /\ \A j \in 1 .. l - n : n + j - 1 \in Places => b[n + j - 1] = missing[j]
  <2>1. missing \in Seq(Char \cup {Nul})
    BY <1>4, SeqMonotonic
  <2>2. PICK s : s = Stored(a, n, missing)
    OBVIOUS
  <2>3. n \in Places
    BY <1>3
  <2>4. /\ s \in Buffers
        /\ \A j \in Places : j < n => s[j] = a[j]
        /\ \A j \in 1 .. Len(missing) : n + j - 1 \in Places => s[n + j - 1] = missing[j]
    <3>1. a \in Buffers
      BY <1>7
    <3>2. /\ Stored(a, n, missing) \in Buffers
          /\ \A j \in Places : j < n => Stored(a, n, missing)[j] = a[j]
          /\ \A j \in 1 .. Len(missing) :
               n + j - 1 \in Places => Stored(a, n, missing)[n + j - 1] = missing[j]
      BY <2>1, <2>3, <3>1, StoredIs
    <3> QED BY <2>2, <3>2
  <2> QED BY <1>4, <1>8, <2>2, <2>4
<1>10. ASSUME NEW j \in 1 .. l PROVE b[j - 1] = w[j]
  <2>1. j - 1 \in Places
    BY <1>2, Keyed DEF Places
  <2>2. CASE j <= n
    <3>1. j \in 1 .. n /\ j - 1 < n
      BY <2>2
    <3>2. b[j - 1] = a[j - 1]
      BY <1>9, <2>1, <3>1
    <3>3. a[j - 1] = key_buffer[j - 1]
      BY <1>7, <3>1
    <3>4. key_buffer[j - 1] = w[j]
      BY <1>5, <3>1
    <3> QED BY <3>2, <3>3, <3>4
  <2>3. CASE ~(j <= n)
    <3>1. PICK e \in 1 .. l - n : e = j - n
      <4>1. j - n \in 1 .. l - n
        BY <2>3
      <4> QED BY <4>1
    <3>2. n + e - 1 = j - 1 /\ n + e = j
      BY <3>1
    <3> QED BY <1>4, <1>9, <2>1, <3>2
  <2> QED BY <2>2, <2>3
<1>11. Line' = w
  <2>1. Text(b, m) = w
    BY <1>2, <1>8, <1>10, TextEqual
  <2> QED BY <1>8, <2>1 DEF Line
<1>12. con' \in Clean
  <2>1. missing \in Seq(Printed)
    <3>1. Char \subseteq Printed
      BY DEF Printed
    <3> QED BY <1>4, <3>1, SeqMonotonic
  <2> QED BY <2>1, LineIs, TextKeepsClean
<1>13. ASSUME rest = <<>> /\ ~early PROVE Shows(con', Prompt \o Line')
  <2>1. Shows(con, Prompt \o Line) /\ con \in Clean
    BY <1>13, LineIs
  <2>2. PICK u : u = Prompt \o Line
    OBVIOUS
  <2>3. /\ u \in Seq(Visible) /\ Len(u) = Len(Prompt) + n /\ missing \in Seq(Visible)
        /\ w \in Seq(Visible) /\ Prompt \in Seq(Visible)
    BY <1>2, <1>4, <1>5, <2>2, SeenTexts
  <2>4. Len(u) + Len(missing) <= Cols * (Rows - 1)
    <3>1. Len(Prompt) + Len(w) <= Cols * (Rows - 1)
      BY <1>2, Fits
    <3>2. PICK p \in Nat : p = Len(Prompt)
      BY Words, LenProperties
    <3>3. (p + n) + (l - n) = p + l
      OBVIOUS
    <3> QED BY <1>2, <1>4, <2>3, <3>1, <3>2, <3>3
  <2>5. Shows(PrintText(con, missing), u \o missing)
    BY <2>1, <2>2, <2>3, <2>4, TextAppended
  <2>6. u \o missing = Prompt \o w
    <3>1. (Prompt \o SubSeq(w, 1, n)) \o SubSeq(w, n + 1, Len(w)) = Prompt \o w
      BY <1>2, <1>3, <2>3, CompletedText
    <3> QED BY <1>1, <1>2, <1>3, <2>2, <3>1
  <2> QED BY <1>11, <2>5, <2>6
<1>14. LastLine' = LastLine
  BY DEF LastLine
<1>15. KeyInv'
  <2>1. m \in Places
    BY <1>2, <1>8, Keyed DEF Places
  <2>2. /\ last_command' \in Buffers /\ last_command_len' \in Places
        /\ shift_pressed' \in BOOLEAN /\ caps_locks' \in BOOLEAN
    BY LineIs DEF Typed
  <2>3. LastLine' \in Seq(Char)
    BY <1>14, LineIs
  <2> QED BY <1>2, <1>8, <1>9, <1>11, <1>12, <1>13, <2>1, <2>2, <2>3, KeyKeeps
<1>16. Line # <<>>
  BY <1>3, <1>5, EmptySeq
<1> QED BY <1>1, <1>2, <1>3, <1>5, <1>11, <1>14, <1>15, <1>16

LEMMA TabStep ==
  ASSUME KeyInv, TabKey
  PROVE  /\ KeyInv'
         /\ LastLine' = LastLine
         /\ \/ Line' = Line
            \/ \E i \in 1 .. Len(Commands) :
                 /\ Line # <<>> /\ Len(Line) <= Len(Commands[i])
                 /\ Line = SubSeq(Commands[i], 1, Len(Line)) /\ Line' = Commands[i]
<1>1. Handled /\ UNCHANGED <<last_command, last_command_len, shift_pressed, caps_locks>>
  BY DEF TabKey
<1>2. CASE \E i \in 1 .. Len(Commands) :
             /\ buffer_index > 0 /\ Completes(i)
             /\ LET missing == SubSeq(Commands[i], buffer_index + 1, Len(Commands[i]))
                IN  /\ con' = PrintText(con, missing)
                    /\ key_buffer' = Stored([key_buffer EXCEPT ![buffer_index] = Nul],
                                            buffer_index, missing)
                    /\ buffer_index' = Len(Commands[i])
  <2>1. PICK i \in 1 .. Len(Commands) :
          /\ buffer_index > 0 /\ Completes(i)
          /\ LET missing == SubSeq(Commands[i], buffer_index + 1, Len(Commands[i]))
             IN  /\ con' = PrintText(con, missing)
                 /\ key_buffer' = Stored([key_buffer EXCEPT ![buffer_index] = Nul],
                                         buffer_index, missing)
                 /\ buffer_index' = Len(Commands[i])
    BY <1>2
  <2>2. PICK missing : missing = SubSeq(Commands[i], buffer_index + 1, Len(Commands[i]))
    OBVIOUS
  <2> QED BY <1>1, <2>1, <2>2, CompleteStep
<1>3. CASE /\ con' = con /\ buffer_index' = buffer_index
           /\ key_buffer' = [key_buffer EXCEPT ![buffer_index] = Nul] \/ key_buffer' = key_buffer
  <2>1. PICK n, b : n \in Nat /\ n = buffer_index /\ n \in Places /\ b = key_buffer'
    BY LineIs, Keyed DEF Typed, Places
  <2>2. Line \in Seq(Char) /\ Len(Line) = n /\ \A i \in 1 .. n : Line[i] = key_buffer[i - 1]
    BY <2>1, LineIs
  <2>3. b \in Buffers /\ \A i \in 1 .. n : b[i - 1] = key_buffer[i - 1]
    <3>1. key_buffer \in [Places -> Char \cup {Nul}]
      BY LineIs DEF Typed, Buffers
    <3>2. \A i \in 1 .. n : i - 1 \in Places /\ i - 1 # n
      BY <2>1, Keyed DEF Places
    <3>3. b = [key_buffer EXCEPT ![n] = Nul] \/ b = key_buffer
      BY <1>3, <2>1
    <3> QED BY <2>1, <3>1, <3>2, <3>3 DEF Buffers
  <2>4. Line' = Line
    <3>1. PICK t \in Seq(Char) : t = Line
      BY <2>2
    <3>2. n = Len(t) /\ \A i \in 1 .. n : b[i - 1] = t[i]
      BY <2>2, <2>3, <3>1
    <3>3. Text(b, n) = t
      BY <3>2, TextEqual
    <3> QED BY <1>3, <2>1, <3>1, <3>3 DEF Line
  <2>5. LastLine' = LastLine
    BY <1>1 DEF LastLine
  <2>6. KeyInv'
    <3>1. /\ last_command' \in Buffers /\ last_command_len' \in Places /\ con' \in Clean
          /\ shift_pressed' \in BOOLEAN /\ caps_locks' \in BOOLEAN /\ buffer_index' \in Places
          /\ LastLine' \in Seq(Char) /\ Line' \in Seq(Char)
      BY <1>1, <1>3, <2>4, <2>5, LineIs DEF Typed
    <3>2. rest = <<>> /\ ~early => Shows(con', Prompt \o Line')
      BY <1>3, <2>4, LineIs
    <3> QED BY <1>1, <2>1, <2>3, <3>1, <3>2, KeyKeeps
  <2> QED BY <2>4, <2>5, <2>6
<1> QED BY <1>2, <1>3 DEF TabKey

(* Up.                                                                     *)
LEMMA UpStep ==
  ASSUME KeyInv, UpKey
  PROVE  KeyInv' /\ LastLine' = LastLine /\ LastLine # <<>> /\ Line' = LastLine
<1>1. PICK t : t = LastLine
  OBVIOUS
<1>2. PICK n \in Nat : n = last_command_len /\ n > 0 /\ n \in Places /\ n <= BufLimit
  BY LineIs, Keyed DEF Typed, Places, UpKey
<1>3. t \in Seq(Char) /\ Len(t) = n
  BY <1>1, <1>2, LineIs
<1>4. PICK s : s = Append(t, Nul)
  OBVIOUS
<1>5. PICK V : V = Char \cup {Nul}
  OBVIOUS
<1>6. s \in Seq(V) /\ Len(s) = n + 1 /\ \A i \in 1 .. n : s[i] = t[i]
  <2>1. t \in Seq(V) /\ Nul \in V
    BY <1>3, <1>5, SeqMonotonic
  <2> QED BY <1>3, <1>4, <2>1, AppendProperties
<1>7. PICK b, m, z : b = key_buffer' /\ m = buffer_index' /\ z = 0 /\ m = n /\ b = Stored(key_buffer, z, s)
  BY <1>1, <1>2, <1>4 DEF UpKey, LastLine
<1>8. /\ b \in Buffers
      /\ \A i \in 1 .. Len(s) : z + i - 1 \in Places => b[z + i - 1] = s[i]
  <2>1. z \in Places /\ key_buffer \in Buffers
    BY <1>7, Keyed, LineIs DEF Places, Typed
  <2> QED BY <1>5, <1>6, <1>7, <2>1, StoredIs
<1>9. ASSUME NEW i \in 1 .. n PROVE b[i - 1] = t[i]
  <2>1. i \in 1 .. Len(s) /\ z + i - 1 = i - 1 /\ i - 1 \in Places
    BY <1>2, <1>6, <1>7, Keyed DEF Places
  <2> QED BY <1>6, <1>8, <2>1
<1>10. Line' = t
  <2>1. Text(b, m) = t
    BY <1>3, <1>7, <1>9, TextEqual
  <2> QED BY <1>7, <2>1 DEF Line
<1>11. PICK e, j : e = con' /\ j = buffer_index /\ e = PrintText(con, Times(BS, j) \o t)
  BY <1>1 DEF UpKey, LastLine
<1>12. con \in Clean /\ Line \in Seq(Char) /\ Len(Line) = j /\ j \in Nat
  BY <1>11, LineIs, Keyed DEF Typed, Places
<1>13. e \in Clean
  <2>1. PICK P : P = Printed
    OBVIOUS
  <2>2. PICK T : T = Times(BS, j)
    OBVIOUS
  <2>3. T \in [1 .. j -> P]
    BY <2>1, <2>2, Keyed DEF Times
  <2>4. T \in Seq(P)
    BY <1>12, <2>3, FunctionIsText
  <2>5. t \in Seq(P)
    <3>1. Char \subseteq P
      BY <2>1 DEF Printed
    <3> QED BY <1>3, <3>1, SeqMonotonic
  <2>6. T \o t \in Seq(P)
    BY <2>4, <2>5, ConcatProperties
  <2> QED BY <1>11, <1>12, <2>1, <2>2, <2>6, TextKeepsClean
<1>14. ASSUME rest = <<>> /\ ~early PROVE Shows(e, Prompt \o t)
  <2>1. Shows(con, Prompt \o Line)
    BY <1>14, LineIs
  <2>2. Prompt \in Seq(Visible) /\ Line \in Seq(Visible) /\ t \in Seq(Visible)
    BY <1>3, <1>12, SeenTexts
  <2>3. Len(Prompt) + Len(t) <= Cols * (Rows - 1)
    BY <1>2, <1>3, Fits
  <2>4. Shows(PrintText(con, Times(BS, Len(Line)) \o t), Prompt \o t)
    BY <1>12, <2>1, <2>2, <2>3, TextReplaced
  <2> QED BY <1>11, <1>12, <2>4
<1>15. LastLine' = LastLine /\ Handled
  BY DEF UpKey, LastLine
<1>16. KeyInv'
  <2>1. /\ last_command' \in Buffers /\ last_command_len' \in Places
        /\ shift_pressed' \in BOOLEAN /\ caps_locks' \in BOOLEAN
    BY LineIs DEF Typed, UpKey
  <2>2. LastLine' \in Seq(Char)
    BY <1>15, LineIs
  <2> QED BY <1>2, <1>3, <1>7, <1>8, <1>10, <1>11, <1>13, <1>14, <1>15, <2>1, <2>2, KeyKeeps
<1>17. t # <<>>
  BY <1>2, <1>3, EmptySeq
<1> QED BY <1>1, <1>10, <1>15, <1>16, <1>17

(* Enter.                                                                  *)
LEMMA CutIs == ASSUME KeyInv PROVE Cut(key_buffer) \in Buffers
<1>1. PICK n \in Places : n = buffer_index
  BY LineIs DEF Typed
<1>2. PICK a : a = [key_buffer EXCEPT ![n] = Nul]
  OBVIOUS
<1>3. a \in [Places -> Char \cup {Nul}]
  BY <1>2, LineIs DEF Typed, Buffers
<1>4. PICK spaces : spaces = {i \in 0 .. n - 1 : key_buffer[i] = Space}
  OBVIOUS
<1>5. PICK seen : seen = IF n > 0 /\ FirstToken(Line) = EchoWord THEN spaces
                         ELSE {i \in spaces : \A j \in spaces : i <= j}
  OBVIOUS
<1>6. Cut(key_buffer) = [i \in Places |-> IF i \in seen THEN Nul ELSE a[i]]
  BY <1>1, <1>2, <1>4, <1>5 DEF Cut
<1> QED BY <1>3, <1>6 DEF Buffers

LEMMA EnterStep ==
  ASSUME KeyInv, EnterKey
  PROVE  KeyInv' /\ Line' = <<>> /\ LastLine' = IF Line = <<>> THEN LastLine ELSE Line
<1>1. PICK t, n : t = Line /\ n = buffer_index
  OBVIOUS
<1>2. /\ t \in Seq(Char) /\ Len(t) = n /\ n \in Nat /\ n <= BufLimit /\ n \in Places
      /\ con \in Clean
  BY <1>1, LineIs, Keyed DEF Typed, Places
<1>3. PICK b : b = key_buffer' /\ b = [Cut(key_buffer) EXCEPT ![0] = Nul]
  BY DEF EnterKey
<1>4. b \in Buffers
  <2>1. PICK c : c = Cut(key_buffer)
    OBVIOUS
  <2>2. c \in [Places -> Char \cup {Nul}]
    BY <2>1, CutIs DEF Buffers
  <2> QED BY <1>3, <2>1, <2>2 DEF Buffers
<1>5. PICK z : z = 0 /\ buffer_index' = z /\ z \in Places
  BY Keyed DEF EnterKey, Places
<1>6. Line' = <<>>
  <2>1. <<>> \in Seq(Char) /\ Len(<<>>) = z /\ \A i \in 1 .. z : b[i - 1] = <<>>[i]
    BY <1>5, EmptySeq
  <2>2. Text(b, z) = <<>>
    BY <2>1, TextEqual
  <2> QED BY <1>3, <1>5, <2>2 DEF Line
<1>7. /\ last_command' \in Buffers /\ last_command_len' \in Places
      /\ LastLine' = IF t = <<>> THEN LastLine ELSE t
  <2>1. CASE n > 0
    <3>1. PICK s, V : s = Append(t, Nul) /\ V = Char \cup {Nul}
      OBVIOUS
    <3>2. s \in Seq(V) /\ Len(s) = n + 1 /\ \A i \in 1 .. n : s[i] = t[i]
      <4>1. t \in Seq(V) /\ Nul \in V
        BY <1>2, <3>1, SeqMonotonic
      <4> QED BY <1>2, <3>1, <4>1, AppendProperties
    <3>3. PICK l, m : l = last_command' /\ m = last_command_len' /\ m = n
                      /\ l = Stored(last_command, z, s)
      BY <1>1, <1>5, <2>1, <3>1 DEF EnterKey
    <3>4. l \in Buffers /\ \A i \in 1 .. Len(s) : z + i - 1 \in Places => l[z + i - 1] = s[i]
      <4>1. last_command \in Buffers /\ s \in Seq(Char \cup {Nul})
        BY <3>1, <3>2, LineIs DEF Typed
      <4>2. PICK r : r = Stored(last_command, z, s)
        OBVIOUS
      <4>3. r \in Buffers /\ \A i \in 1 .. Len(s) : z + i - 1 \in Places => r[z + i - 1] = s[i]
        BY <1>5, <4>1, <4>2, StoredIs
      <4> QED BY <3>3, <4>2, <4>3
    <3>5. ASSUME NEW i \in 1 .. n PROVE l[i - 1] = t[i]
      <4>1. i \in 1 .. Len(s) /\ z + i - 1 = i - 1 /\ i - 1 \in Places
        BY <1>2, <1>5, <3>2, Keyed DEF Places
      <4> QED BY <3>2, <3>4, <4>1
    <3>6. Text(l, m) = t
      BY <1>2, <3>3, <3>5, TextEqual
    <3>7. LastLine' = t
      BY <3>3, <3>6 DEF LastLine
    <3>8. t # <<>>
      BY <1>2, <2>1, EmptySeq
    <3> QED BY <1>2, <3>3, <3>4, <3>7, <3>8
  <2>2. CASE ~(n > 0)
    <3>1. UNCHANGED <<last_command, last_command_len>>
      BY <1>1, <2>2 DEF EnterKey
    <3>2. LastLine' = LastLine
      BY <3>1 DEF LastLine
    <3>3. t = <<>>
      BY <1>2, <2>2, EmptySeq
    <3> QED BY <3>1, <3>2, <3>3, LineIs DEF Typed
  <2> QED BY <2>1, <2>2
<1>8. PICK e : e = con' /\ e = PrintText(ExecuteCommand(PrintChar(con, NL), t), Prompt)
  BY <1>1 DEF EnterKey
<1>9. e \in Clean /\ Shows(e, Prompt)
  BY <1>2, <1>8, PromptShown
<1>10. Prompt \o <<>> = Prompt
  BY Words, ConcatEmptySeq
<1>11. KeyInv'
  <2>1. Handled /\ shift_pressed' \in BOOLEAN /\ caps_locks' \in BOOLEAN
    BY LineIs DEF EnterKey, Typed
  <2>2. LastLine' \in Seq(Char) /\ <<>> \in Seq(Char)
    BY <1>2, <1>7, LineIs, EmptySeq
  <2> QED BY <1>3, <1>4, <1>5, <1>6, <1>7, <1>8, <1>9, <1>10, <2>1, <2>2, KeyKeeps
<1> QED BY <1>1, <1>6, <1>7, <1>11

(* main prints the next character of its prompt.                           *)
LEMMA PromptStep ==
  ASSUME KeyInv, MainPrompt
  PROVE  KeyInv' /\ LastLine' = LastLine /\ Line' = Line
<1>1. PICK p : p = Len(Prompt)
  OBVIOUS
<1>2. p \in Nat /\ Prompt \in Seq(Graphic)
  BY <1>1, Words, LenProperties
<1>3. Typed /\ con \in Clean /\ rest # <<>> /\ RestOfPrompt
  BY KeyInvIs DEF MainPrompt
<1>4. PICK n \in 0 .. p : rest = SubSeq(Prompt, n + 1, p)
  BY <1>1, <1>3 DEF RestOfPrompt
<1>5. n < p
  <2> SUFFICES ASSUME ~(n < p) PROVE FALSE
    OBVIOUS
  <2>1. n + 1 \in Int /\ p \in Int /\ p < n + 1
    BY <1>2
  <2> QED BY <1>3, <1>4, <2>1, SubSeqEmpty
<1>6. PICK c : c = Prompt[n + 1]
  OBVIOUS
<1>7. c \in Graphic /\ c \in Visible /\ c \in Printed
  <2>1. n + 1 \in 1 .. p
    BY <1>2, <1>5
  <2>2. c \in Graphic
    BY <1>1, <1>2, <1>6, <2>1, ElementOfSeq
  <2> QED BY <2>2 DEF Visible, Printed
<1>8. Head(rest) = c /\ Tail(rest) = SubSeq(Prompt, n + 1 + 1, p)
  <2>1. n + 1 \in 1 .. Len(Prompt) /\ p \in n + 1 .. Len(Prompt)
    BY <1>1, <1>2, <1>5
  <2> QED BY <1>2, <1>4, <1>6, <2>1, HeadTailOfSubSeq
<1>9. PICK e : e = con' /\ e = PrintChar(con, c)
  BY <1>8 DEF MainPrompt
<1>10. e \in Clean
  BY <1>3, <1>7, <1>9, CharKeepsClean
<1>11. PICK r : r = rest' /\ r = SubSeq(Prompt, n + 1 + 1, p)
  BY <1>8 DEF MainPrompt
<1>12. Len(rest) = p - n /\ Len(r) = p - (n + 1)
  <2>1. n <= p /\ n + 1 \in Nat /\ n + 1 <= p /\ p <= Len(Prompt)
    BY <1>1, <1>2, <1>5
  <2>2. Len(SubSeq(Prompt, n + 1, p)) = p - n
    BY <1>2, <2>1, Part
  <2>3. Len(SubSeq(Prompt, n + 1 + 1, p)) = p - (n + 1)
    BY <1>2, <2>1, Part
  <2> QED BY <1>4, <1>11, <2>2, <2>3
<1>13. LastLine' = LastLine /\ Line' = Line
  BY DEF MainPrompt, LastLine, Line, lineVars
<1>14. ASSUME ~early PROVE Shows(e, SubSeq(Prompt, 1, p - Len(r)) \o Line)
  <2>1. Shows(con, Displayed) /\ Line = <<>>
    <3>1. buffer_index = 0 /\ Shows(con, Displayed)
      BY <1>3, <1>14, KeyInvIs
    <3> QED BY <3>1, LineIs, EmptySeq
  <2>2. p - Len(rest) = n /\ p - Len(r) = n + 1 /\ n \in Nat /\ n + 1 \in Nat /\ n + 1 <= p
    BY <1>2, <1>5, <1>12
  <2>3. PICK V : V = Visible
    OBVIOUS
  <2>4. <<>> \in Seq(V) /\ Prompt \in Seq(V) /\ c \in V
    BY <1>7, <2>3, SeenTexts, EmptySeq
  <2>5. PICK a, b : a = SubSeq(Prompt, 1, n) /\ b = SubSeq(Prompt, 1, n + 1)
    OBVIOUS
  <2>6. a \in Seq(V) /\ Len(a) = n /\ b \in Seq(V)
    <3>1. n <= Len(Prompt) /\ n + 1 <= Len(Prompt)
      BY <1>1, <2>2
    <3>2. a \in Seq(V) /\ Len(a) = n
      BY <2>2, <2>4, <2>5, <3>1, Prefix
    <3>3. b \in Seq(V)
      BY <2>2, <2>4, <2>5, <3>1, Prefix
    <3> QED BY <3>2, <3>3
  <2>7. a \o <<>> = a /\ b \o <<>> = b /\ <<>> \o a = a /\ <<>> \o b = b
    BY <2>6, ConcatEmptySeq
  <2>8. b = Append(a, c)
    <3>1. <<>> \o SubSeq(Prompt, 1, n + 1) = Append(<<>> \o SubSeq(Prompt, 1, n), Prompt[n + 1])
      BY <1>1, <1>5, <2>2, <2>4, PartAppended
    <3> QED BY <1>6, <2>5, <2>7, <3>1
  <2>9. Shows(con, a)
    BY <1>1, <2>1, <2>2, <2>5, <2>7 DEF Displayed
  <2>10. Len(a) + 1 <= Cols * (Rows - 1)
    <3>1. PICK y : y = Cols * (Rows - 1)
      OBVIOUS
    <3>2. y \in Int /\ BufLimit \in Nat /\ BufLimit + p <= y
      BY <1>1, <3>1, Sizes, Keyed, Words
    <3>3. n + 1 <= y
      BY <2>2, <1>2, <3>2
    <3> QED BY <2>6, <3>1, <3>3
  <2>11. Shows(PrintChar(con, c), Append(a, c))
    BY <1>3, <1>7, <2>3, <2>6, <2>9, <2>10, ShownMore
  <2> QED BY <1>9, <2>1, <2>2, <2>5, <2>7, <2>8, <2>11
<1>15. KeyInv'
  <2>1. Typed' /\ early' = early /\ buffer_index' = buffer_index
    BY <1>3 DEF MainPrompt, Typed, lineVars
  <2>2. RestOfPrompt'
    <3>1. n + 1 \in 0 .. Len(Prompt)
      BY <1>1, <1>2, <1>5
    <3> QED BY <1>1, <1>11, <3>1 DEF RestOfPrompt
  <2>3. (~early => Shows(con, Displayed))'
    BY <1>1, <1>9, <1>11, <1>13, <1>14, <2>1 DEF Displayed
  <2>4. TypeOK'
    BY <1>9, <1>10, <2>1, CleanCursor DEF TypeOK, Typed, Buffers, Consoles, Logs, Grids, Glyphs
  <2>5. BlankAfter(con')
    BY <1>9, <1>10, CleanCursor
  <2>6. (rest # <<>> /\ ~early => buffer_index = 0)'
    BY <1>3, <2>1, KeyInvIs
  <2>7. Line' \in Seq(Char) /\ LastLine' \in Seq(Char)
    BY <1>13, LineIs
  <2> QED BY <2>2, <2>3, <2>4, <2>5, <2>6, <2>7
          DEF KeyInv, ScreenShowsLine, LineOnScreen, LastLine, RestOfPrompt
<1> QED BY <1>13, <1>15

-----------------------------------------------------------------------------
LEMMA InitClean == Reset \in Clean
<1>1. PICK z \in Nat, r \in Nat : z = 0 /\ r = 0
  OBVIOUS
<1>2. PICK k : k = Reset
  OBVIOUS
<1>3. k \in Consoles
  <2>1. 0 \in 0 .. KlogSize - 1 /\ 0 \in 0 .. Cols - 1 /\ 0 \in 0 .. Rows - 1
    BY Sizes
  <2>2. [i \in 0 .. KlogSize - 1 |-> Blank] \in Logs
    BY DEF Logs, Printed
  <2> QED BY <1>2, <2>1, <2>2, BlankGrid DEF Reset, Consoles
<1>4. k.cells = BlankCells
  BY <1>2 DEF Reset
<1>5. k \in Loose /\ Cursor(k) = 0
  BY <1>2, <1>3, InRange, Sizes DEF Reset, Cursor
<1>6. ASSUME NEW n \in 0 .. Cols * Rows - 1 PROVE CellAt(k, n) = Blank
  <2>1. n \in Nat /\ n < Cols * Rows
    BY Sizes
  <2>2. n \div Cols \in 0 .. Rows - 1 /\ n % Cols \in 0 .. Cols - 1
    BY <2>1, RowOf
  <2> QED BY <1>4, <2>2, BlankGrid DEF CellAt
<1> QED BY <1>2, <1>3, <1>5, <1>6 DEF Clean, BlankAfter

LEMMA InitStep == ASSUME Init PROVE KeyInv /\ Line = <<>> /\ LastLine = <<>>
<1>1. Typed
  <2>1. 0 \in Places
    BY Keyed DEF Places
  <2>2. [i \in Places |-> Nul] \in Buffers
    BY DEF Buffers
  <2> QED BY <2>1, <2>2 DEF Init, Typed
<1>2. Line = <<>> /\ LastLine = <<>>
  <2>1. PICK b, z : b = [i \in Places |-> Nul] /\ z = 0
    OBVIOUS
  <2>2. <<>> \in Seq(Char) /\ Len(<<>>) = z /\ \A i \in 1 .. z : b[i - 1] = <<>>[i]
    BY <2>1, EmptySeq
  <2>3. Text(b, z) = <<>>
    BY <2>2, TextEqual
  <2> QED BY <2>1, <2>3 DEF Init, Line, LastLine
<1>3. con \in Clean
  BY InitClean DEF Init
<1>4. PICK p \in Nat : p = Len(Prompt)
  BY Words, LenProperties
<1>5. RestOfPrompt
  <2>1. SubSeq(Prompt, 1, Len(Prompt)) = Prompt
    BY Words, SubSeqFull
  <2>2. 0 \in 0 .. p /\ 0 + 1 = 1
    OBVIOUS
  <2> QED BY <1>4, <2>1, <2>2 DEF Init, RestOfPrompt
<1>6. Shows(con, Displayed)
  <2>1. 1 \in Int /\ p - p \in Int /\ p - p < 1
    OBVIOUS
  <2>2. SubSeq(Prompt, 1, p - p) = <<>>
    BY <2>1, SubSeqEmpty
  <2>3. Displayed = <<>> \o <<>>
    BY <1>2, <1>4, <2>2 DEF Init, Displayed
  <2>4. PICK V : V = Char
    OBVIOUS
  <2>5. <<>> \in Seq(V)
    BY EmptySeq
  <2>6. <<>> \o <<>> = <<>>
    BY <2>5, ConcatEmptySeq
  <2>7. Len(<<>>) = 0 /\ Cursor(con) \in Nat
    BY <1>3, CleanCursor, EmptySeq
  <2>8. Shows(con, <<>>)
    BY <2>7 DEF Shows
  <2> QED BY <2>3, <2>6, <2>8
<1>7. buffer_index = 0 /\ <<>> \in Seq(Char)
  BY EmptySeq DEF Init
<1> QED BY <1>1, <1>2, <1>3, <1>5, <1>6, <1>7, KeyInvIs

(* What one step does. *)
LEMMA StepIs ==
  ASSUME KeyInv, [Next]_vars
  PROVE  /\ KeyInv'
         /\ \/ LastLine' = LastLine /\ Line' = Line
            \/ LastLine' = LastLine /\ \E c \in Char : Len(Line) < BufLimit /\ Line' = Append(Line, c)
            \/ LastLine' = LastLine /\ Line # <<>> /\ Line' = SubSeq(Line, 1, Len(Line) - 1)
            \/ /\ LastLine' = LastLine
               /\ \E i \in 1 .. Len(Commands) :
                    /\ Line # <<>> /\ Len(Line) <= Len(Commands[i])
                    /\ Line = SubSeq(Commands[i], 1, Len(Line)) /\ Line' = Commands[i]
            \/ Line' = <<>> /\ LastLine' = IF Line = <<>> THEN LastLine ELSE Line
            \/ LastLine' = LastLine /\ LastLine # <<>> /\ Line' = LastLine
<1>1. CASE \E key \in Keys : CharKey(key)
  BY <1>1, CharStep
<1>2. CASE TabKey
  BY <1>2, TabStep
<1>3. CASE UpKey
  BY <1>3, UpStep
<1>4. CASE BackspaceKey
  BY <1>4, BackspaceStep
<1>5. CASE EnterKey
  BY <1>5, EnterStep
<1>6. CASE CapsKey \/ \E pressed \in BOOLEAN : ShiftKey(pressed)
  BY <1>6, ModifierStep
<1>7. CASE MainPrompt
  BY <1>7, PromptStep
<1>8. CASE UNCHANGED vars
  <2>1. UNCHANGED <<con, key_buffer, buffer_index, last_command, last_command_len,
                    shift_pressed, caps_locks, rest, early>>
    BY <1>8 DEF vars
  <2>2. Line' = Line /\ LastLine' = LastLine
    BY <2>1 DEF Line, LastLine
  <2>3. KeyInv'
    BY <2>1, <2>2 DEF KeyInv, ScreenShowsLine, TypeOK, LineOnScreen, Displayed, LastLine
  <2> QED BY <2>2, <2>3
<1> QED BY <1>1, <1>2, <1>3, <1>4, <1>5, <1>6, <1>7, <1>8 DEF Next

(* Whatever is typed, the invariant holds.                                 *)
THEOREM KeyInvariant == Spec => []KeyInv
<1>1. Init => KeyInv
  BY InitStep
<1>2. KeyInv /\ [Next]_vars => KeyInv'
  BY StepIs
<1> QED BY <1>1, <1>2, PTL DEF Spec

(* What the screen shows at its end is the line that Enter executes, for   *)
(* any screen on which a line and the prompt fit (print_char,              *)
(* backspace_on_screen and scroll against keyboard.c's key_buffer).        *)
THEOREM ScreenAlwaysShowsLine == Spec => []ScreenShowsLine
<1>1. KeyInv => ScreenShowsLine
  BY DEF KeyInv
<1> QED BY <1>1, KeyInvariant, PTL

(* keyboard_callback's buffers and their lengths are a line editor.        *)
THEOREM EditorImplemented == Spec => ImplementsEditor
<1>1. Init => Editor!Init
  BY InitStep DEF Editor!Init, LastLine
<1>2. KeyInv /\ [Next]_vars => [Editor!Next]_<<Line, LastLine>>
  <2> SUFFICES ASSUME KeyInv, [Next]_vars PROVE [Editor!Next]_<<Line, LastLine>>
    OBVIOUS
  <2>1. CASE LastLine' = LastLine /\ Line' = Line
    BY <2>1
  <2>2. CASE LastLine' = LastLine /\ \E c \in Char : Len(Line) < BufLimit /\ Line' = Append(Line, c)
    BY <2>2 DEF Editor!Next, Editor!Type, LastLine
  <2>3. CASE LastLine' = LastLine /\ Line # <<>> /\ Line' = SubSeq(Line, 1, Len(Line) - 1)
    BY <2>3 DEF Editor!Next, Editor!Erase, LastLine
  <2>4. CASE /\ LastLine' = LastLine
             /\ \E i \in 1 .. Len(Commands) :
                  /\ Line # <<>> /\ Len(Line) <= Len(Commands[i])
                  /\ Line = SubSeq(Commands[i], 1, Len(Line)) /\ Line' = Commands[i]
    BY <2>4 DEF Editor!Next, Editor!Complete, LastLine
  <2>5. CASE Line' = <<>> /\ LastLine' = IF Line = <<>> THEN LastLine ELSE Line
    BY <2>5 DEF Editor!Next, Editor!Submit, LastLine
  <2>6. CASE LastLine' = LastLine /\ LastLine # <<>> /\ Line' = LastLine
    BY <2>6 DEF Editor!Next, Editor!Recall, LastLine
  <2> QED BY <2>1, <2>2, <2>3, <2>4, <2>5, <2>6, StepIs
<1> QED BY <1>1, <1>2, KeyInvariant, PTL DEF Spec, ImplementsEditor, Editor!Spec, LastLine
===============================================================================

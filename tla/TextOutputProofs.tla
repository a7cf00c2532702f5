-------------------------- MODULE TextOutputProofs --------------------------
(***************************************************************************)
(* Theorems about TextOutput, for every size of the screen and all         *)
(* strings: as long as no handler has cut into the main program's handling *)
(* of a character, the screen shows the text and the cursor in hardware    *)
(* follows, or is what a handler inside move_vga_cursor can make of it.    *)
(* Only the thread whose turn it is can then be inside a character, and At *)
(* says for each of its points what it still owes the screen.              *)
(***************************************************************************)
EXTENDS TextOutput, TLAPS, SequenceTheorems

Rest == {"idle", "loop"}
Chars == STRING \cup {Blank, NewLine, "bios"}
Line == [1 .. VGA_WIDTH -> Chars]
Columns == 0 .. VGA_WIDTH - 1
Rows == 0 .. 2 * VGA_HEIGHT - 1

Cell(r, c) == r * VGA_WIDTH + c
TextCell(t, r, c) == IF r < Len(t) THEN t[r + 1][c + 1] ELSE Blank

\* From row k on, memory shows the lines of t and blanks behind them.
ShowsFrom(m, t, k) ==
  \A r \in Rows, c \in Columns :
    r + k \in Rows => m[Cell(r + k, c)] = TextCell(t, r, c)

\* The text has gone to its next line and the screen has not: memory shows all
\* of it with the cursor a line above its end, or is the line behind that
\* falls out at the top.
OneBehind(m, t, row) ==
  \/ ShowsFrom(m, t, 0) /\ row = Len(t) - 2
  \/ ShowsFrom(m, t, 1) /\ Len(t) = VGA_HEIGHT /\ row = VGA_HEIGHT - 1

OnLastLine == ShowsFrom(mem, text, 0) /\ curs_row = Len(text) - 1
Settled == OnLastLine /\ curs_col = column

\* The place a thread has for the hardware is the cursor.
Current(t) == t = "isr" \/ ~overtaken

\* The low half of it, or of the cursor, is in the hardware.
LowWritten(t) ==
  IF Current(t) THEN at[t] = cursor /\ crtc.lo = Low(cursor)
                ELSE crtc.lo \in {Low(at[t]), Low(cursor)}

\* What a thread whose turn it is has still to do at its point p.
At(t, p) ==
  /\ p \in Rest => Settled
  /\ p = "put" => Settled /\ at[t] = cursor /\ string[t] # <<>>
  /\ p = "advance" =>
       \/ OnLastLine /\ column = curs_col + 1
       \/ OneBehind(mem, text, curs_row) /\ column = 0 /\ curs_col = VGA_WIDTH - 1
  /\ p = "column" => OnLastLine /\ column = curs_col + 1
  /\ p = "newline" => OneBehind(mem, text, curs_row) /\ column = 0
  /\ p = "scroll" =>
       /\ ShowsFrom(mem, text, 1) /\ Len(text) = VGA_HEIGHT /\ curs_row = VGA_HEIGHT - 1
       /\ column = 0
  /\ p = "row" => ShowsFrom(mem, text, 0) /\ curs_row = Len(text) - 2 /\ column = 0
  /\ p = "return" => OnLastLine /\ column = 0
  /\ p \in Moving => Settled
  /\ p = "index_lo" => (Current(t) => at[t] = cursor)
  /\ p = "data_lo" =>
       IF Current(t) THEN at[t] = cursor /\ crtc.index = "lo"
                     ELSE crtc.index = "lo" \/ crtc.lo = Low(cursor)
  /\ p = "index_hi" => LowWritten(t)
  /\ p = "data_hi" => LowWritten(t) /\ crtc.index = "hi"

Typed ==
  /\ curs_row \in 0 .. VGA_HEIGHT - 1 /\ curs_col \in Columns
  /\ mem \in [Cells -> Chars]
  /\ crtc \in [index : {"lo", "hi"}, lo : Nat, hi : Nat]
  /\ pc \in [Threads -> Points] /\ string \in [Threads -> Seq(Chars)]
  /\ at \in [Threads -> Nat \X Nat] /\ overtaken \in BOOLEAN
  /\ text \in Seq(Line) /\ Len(text) \in 1 .. VGA_HEIGHT /\ column \in Columns

\* What the hardware has when nobody prints.
Left ==
  IF overtaken
  THEN crtc.hi = High(at["main"]) /\ crtc.lo \in {Low(at["main"]), Low(cursor)}
  ELSE crtc.lo = Low(cursor) /\ crtc.hi = High(cursor)

\* A handler that runs has cut in between two characters or into
\* move_vga_cursor, and then the main program is overtaken.
CutIn == pc["main"] \in Rest \cup Moving /\ overtaken = (pc["main"] \in Moving)

\* Nothing cuts into a character, and the thread that runs is on its way.
Untorn ==
  /\ Typed
  /\ pc["isr"] # "idle" => CutIn /\ At("isr", pc["isr"])
  /\ pc["isr"] = "idle" => At("main", pc["main"])
  /\ (\A t \in Threads : pc[t] = "idle") => Left

IInv == torn \in BOOLEAN /\ (torn = FALSE => Untorn)

-----------------------------------------------------------------------------
(* The cells of the screen                                                 *)

\* What the arithmetic below needs of the screen's size.
LEMMA Size ==
  /\ VGA_WIDTH \in Nat /\ VGA_WIDTH >= 2 /\ VGA_HEIGHT \in Nat /\ VGA_HEIGHT >= 2
  /\ Columns = 0 .. VGA_WIDTH - 1 /\ Rows = 0 .. 2 * VGA_HEIGHT - 1
  /\ Byte \in Nat /\ VGA_WIDTH < Byte /\ VGA_HEIGHT < Byte
BY ScreenAssumption DEF Columns, Rows

\* Products of the screen's sizes grow with them.
LEMMA Product ==
  ASSUME NEW a \in Nat, NEW b \in Nat, NEW c \in Nat, a <= c
  PROVE  a * b \in Nat /\ b * a \in Nat /\ a * b <= c * b /\ b * a <= b * c
<1>1. a * b \in Nat /\ (c - a) * b \in Nat /\ b * a = a * b /\ b * c = c * b
  OBVIOUS
<1>2. (c - a) * b = c * b - a * b
  OBVIOUS
<1>3. a * b \in Int /\ c * b \in Int
  OBVIOUS
<1> QED BY <1>1, <1>2, <1>3

LEMMA QuotientRemainder ==
  ASSUME NEW n \in Nat, NEW b \in Nat \ {0}
  PROVE  n = (n \div b) * b + (n % b)
<1>1. n = b * (n \div b) + (n % b) /\ n \div b \in Int
  OBVIOUS
<1> QED BY <1>1

\* Each half is a number.
LEMMA Halves ==
  ASSUME NEW place \in Nat \X Nat
  PROVE  Low(place) \in Nat /\ High(place) \in Nat
<1> DEFINE n == CellAt(place) % (Byte * Byte)
<1>1. Byte \in Nat \ {0} /\ Byte * Byte \in Nat \ {0}
  BY Size
<1>2. CellAt(place) \in Nat
  <2>1. place[1] \in Nat /\ place[2] \in Nat /\ place[1] * VGA_WIDTH \in Nat
    BY Size
  <2> QED BY <2>1 DEF CellAt
<1>3. n \in Nat
  BY <1>1, <1>2
<1> HIDE DEF n
<1>4. n % Byte \in Nat /\ n \div Byte \in Nat
  BY <1>1, <1>3
<1> QED BY <1>4 DEF n, Low, High

\* Sixteen bits hold any place on the screen, so its halves make it again.
LEMMA HalvesMake ==
  ASSUME NEW r \in 0 .. VGA_HEIGHT - 1, NEW c \in Columns
  PROVE  High(<<r, c>>) * Byte + Low(<<r, c>>) = r * VGA_WIDTH + c
<1> DEFINE n == r * VGA_WIDTH + c
<1>1. /\ VGA_HEIGHT \in Nat /\ VGA_WIDTH \in Nat /\ Byte \in Nat \ {0} /\ r \in Nat /\ c \in Nat
      /\ c < VGA_WIDTH /\ VGA_WIDTH <= Byte /\ r + 1 <= Byte /\ r + 1 \in Nat
  BY Size
<1>2. n \in Nat /\ n < Byte * Byte
  <2>1. (r + 1) * VGA_WIDTH <= Byte * VGA_WIDTH /\ Byte * VGA_WIDTH <= Byte * Byte
    BY <1>1, Product
  <2>2. (r + 1) * VGA_WIDTH = r * VGA_WIDTH + VGA_WIDTH /\ r * VGA_WIDTH \in Nat
    BY <1>1, Product
  <2>3. Byte * VGA_WIDTH \in Nat /\ Byte * Byte \in Nat
    BY <1>1, Product
  <2> QED BY <1>1, <2>1, <2>2, <2>3
<1>3. CellAt(<<r, c>>) = n
  BY DEF CellAt
<1> HIDE DEF n
<1>4. n % (Byte * Byte) = n
  <2> DEFINE w == Byte * Byte
  <2>1. w \in Nat
    BY <1>1, Product
  <2>2. n < w
    BY <1>2
  <2> HIDE DEF w
  <2>3. n % w = n
    BY <1>2, <2>1, <2>2
  <2> QED BY <2>3 DEF w
<1>5. n = (n \div Byte) * Byte + (n % Byte)
  BY <1>1, <1>2, QuotientRemainder
<1>6. High(<<r, c>>) = n \div Byte /\ Low(<<r, c>>) = n % Byte
  BY <1>3, <1>4 DEF High, Low
<1> QED BY <1>5, <1>6 DEF n

LEMMA RowsNat == \A r \in Rows : r \in Nat /\ r + 0 = r
BY Size

\* A row ends before the next one starts.
LEMMA CellOrder ==
  ASSUME NEW r \in Nat, NEW s \in Nat, NEW c \in Columns, NEW d \in Columns, r < s
  PROVE  Cell(r, c) \in Nat /\ Cell(s, d) \in Nat /\ Cell(r, c) < Cell(s, d)
<1>1. /\ r * VGA_WIDTH \in Nat /\ s * VGA_WIDTH \in Nat /\ VGA_WIDTH \in Nat
      /\ c \in Nat /\ c < VGA_WIDTH /\ d \in Nat
  BY Size
<1>2. s * VGA_WIDTH >= r * VGA_WIDTH + VGA_WIDTH
  <2>1. s - r - 1 \in Nat
    OBVIOUS
  <2>2. (s - r - 1) * VGA_WIDTH >= 0
    BY <2>1, Size
  <2>3. (s - r - 1) * VGA_WIDTH = s * VGA_WIDTH - r * VGA_WIDTH - VGA_WIDTH
    BY Size
  <2> QED BY <1>1, <2>2, <2>3
<1> QED BY <1>1, <1>2 DEF Cell

\* No two places share a cell.
LEMMA CellOne ==
  ASSUME NEW r \in Nat, NEW s \in Nat, NEW c \in Columns, NEW d \in Columns,
         Cell(r, c) = Cell(s, d)
  PROVE  r = s /\ c = d
<1>1. r = s
  <2>1. ~(r < s) /\ ~(s < r)
    BY CellOrder
  <2> QED BY <2>1
<1>2. r * VGA_WIDTH \in Nat /\ c \in Nat /\ d \in Nat
  BY Size
<1> QED BY <1>1, <1>2 DEF Cell

LEMMA CellIn ==
  ASSUME NEW r \in Nat, NEW c \in Columns
  PROVE  /\ Cell(r, c) \in Nat
         /\ Cell(r, c) \in Cells <=> r \in Rows
         /\ Cell(r, c) + VGA_WIDTH = Cell(r + 1, c)
<1> DEFINE s == 2 * VGA_HEIGHT
<1>1. s \in Nat /\ 0 \in Columns /\ Cell(s, 0) = s * VGA_WIDTH
  BY Size DEF Cell
<1>2. Cell(s, 0) \in Nat /\ Cells = 0 .. Cell(s, 0) - 1
  <2>1. s * VGA_WIDTH \in Nat
    BY <1>1, Size
  <2> QED BY <1>1, <2>1 DEF Cells
<1>3. r * VGA_WIDTH \in Nat /\ c \in Nat /\ c < VGA_WIDTH /\ VGA_WIDTH \in Nat
  BY Size
<1>4. Cell(r, c) \in Nat
  BY <1>3 DEF Cell
<1>5. Cell(r, c) < Cell(s, 0) <=> r < s
  <2>1. CASE r < s
    <3>1. Cell(r, c) < Cell(s, 0)
      BY <1>1, <2>1, CellOrder
    <3> QED BY <2>1, <3>1
  <2>2. CASE r > s
    <3>1. Cell(s, 0) < Cell(r, c)
      BY <1>1, <2>2, CellOrder
    <3> QED BY <1>1, <1>2, <1>4, <2>2, <3>1
  <2>3. CASE r = s
    <3>1. Cell(r, c) >= Cell(s, 0)
      BY <1>1, <1>3, <2>3 DEF Cell
    <3> QED BY <1>1, <1>2, <1>4, <2>3, <3>1
  <2> QED BY <1>1, <2>1, <2>2, <2>3
<1>6. r \in Rows <=> r < s
  BY Size
<1>7. Cell(r, c) + VGA_WIDTH = Cell(r + 1, c)
  <2>1. (r + 1) * VGA_WIDTH = r * VGA_WIDTH + VGA_WIDTH
    BY Size
  <2> QED BY <1>3, <2>1 DEF Cell
<1> QED BY <1>2, <1>4, <1>5, <1>6, <1>7

-----------------------------------------------------------------------------
(* The text                                                                *)

LEMMA BlankIn == Blank \in Chars /\ BlankLine \in Line
<1>1. Blank \in Chars
  BY DEF Blank, Chars
<1> QED BY <1>1 DEF BlankLine, Line

\* A line that is added to a text leaves the screen one behind.
LEMMA LineAdded ==
  ASSUME NEW m, NEW t \in Seq(Line), Len(t) \in 1 .. VGA_HEIGHT, ShowsFrom(m, t, 0),
         NEW u, u = KeepLast(Append(t, BlankLine))
  PROVE  /\ u \in Seq(Line) /\ Len(u) \in 1 .. VGA_HEIGHT
         /\ OneBehind(m, u, Len(t) - 1)
<1> DEFINE a == Append(t, BlankLine)
<1>1. /\ a \in Seq(Line) /\ Len(a) = Len(t) + 1 /\ Len(t) \in Nat /\ a[Len(t) + 1] = BlankLine
      /\ \A i \in 1 .. Len(t) : a[i] = t[i]
  BY BlankIn
<1>2. \A c \in Columns : BlankLine[c + 1] = Blank
  BY Size DEF BlankLine
<1>3. \A r \in Rows, c \in Columns : TextCell(a, r, c) = TextCell(t, r, c)
  <2> SUFFICES ASSUME NEW r \in Rows, NEW c \in Columns
               PROVE  TextCell(a, r, c) = TextCell(t, r, c)
    OBVIOUS
  <2>1. r \in Nat
    BY Size
  <2>2. CASE r < Len(t)
    <3>1. r + 1 \in 1 .. Len(t) /\ r < Len(a)
      BY <1>1, <2>1, <2>2
    <3> QED BY <1>1, <2>2, <3>1 DEF TextCell
  <2>3. CASE r = Len(t)
    BY <1>1, <1>2, <2>3 DEF TextCell
  <2>4. CASE r > Len(t)
    BY <1>1, <2>1, <2>4 DEF TextCell
  <2> QED BY <1>1, <2>1, <2>2, <2>3, <2>4
<1>4. ShowsFrom(m, a, 0)
  BY <1>3 DEF ShowsFrom
<1> HIDE DEF a
<1>5. CASE Len(t) < VGA_HEIGHT
  <2>1. u = a
    BY <1>1, <1>5, Size DEF KeepLast, a
  <2> QED BY <1>1, <1>4, <1>5, <2>1, Size DEF OneBehind
<1>6. CASE Len(t) = VGA_HEIGHT
  <2>1. u = Tail(a)
    BY <1>1, <1>6, Size DEF KeepLast, a
  <2>2. u \in Seq(Line) /\ Len(u) = VGA_HEIGHT /\ \A i \in 1 .. VGA_HEIGHT : u[i] = a[i + 1]
    BY <1>1, <1>6, <2>1, Size
  <2>3. \A r \in Rows, c \in Columns : TextCell(u, r, c) = TextCell(a, r + 1, c)
    <3> SUFFICES ASSUME NEW r \in Rows, NEW c \in Columns
                 PROVE  TextCell(u, r, c) = TextCell(a, r + 1, c)
      OBVIOUS
    <3>1. r \in Nat
      BY Size
    <3>2. CASE r < VGA_HEIGHT
      <4>1. r + 1 \in 1 .. VGA_HEIGHT /\ r + 1 < Len(a)
        BY <1>1, <1>6, <3>1, <3>2, Size
      <4> QED BY <2>2, <3>2, <4>1 DEF TextCell
    <3>3. CASE ~(r < VGA_HEIGHT)
      BY <1>1, <1>6, <2>2, <3>1, <3>3, Size DEF TextCell
    <3> QED BY <3>2, <3>3
  <2>4. ShowsFrom(m, u, 1)
    <3> SUFFICES ASSUME NEW r \in Rows, NEW c \in Columns, r + 1 \in Rows
                 PROVE  m[Cell(r + 1, c)] = TextCell(u, r, c)
      BY DEF ShowsFrom
    <3>1. r + 1 + 0 = r + 1
      BY Size
    <3>2. m[Cell(r + 1, c)] = TextCell(a, r + 1, c)
      BY <1>4, <3>1 DEF ShowsFrom
    <3> QED BY <2>3, <3>2
  <2> QED BY <1>6, <2>2, <2>4, Size DEF OneBehind
<1> QED BY <1>5, <1>6, Size

\* What a character does to memory and to the last line of a text.
CellPut(m, x, ch) == [y \in Cells |-> IF y = x THEN ch ELSE m[y]]
LinePut(t, col, ch) == [t EXCEPT ![Len(t)][col + 1] = ch]

\* A character put where the text goes on appears there.
LEMMA CharPut ==
  ASSUME NEW m \in [Cells -> Chars], NEW t \in Seq(Line), Len(t) \in 1 .. VGA_HEIGHT,
         ShowsFrom(m, t, 0), NEW col \in Columns, NEW ch \in Chars, NEW m2, NEW u,
         m2 = CellPut(m, Cell(Len(t) - 1, col), ch), u = LinePut(t, col, ch)
  PROVE  u \in Seq(Line) /\ Len(u) = Len(t) /\ ShowsFrom(m2, u, 0) /\ m2 \in [Cells -> Chars]
<1> DEFINE n == Len(t)
<1>1. n \in Nat /\ n \in 1 .. n /\ t[n] \in Line /\ n - 1 \in Nat /\ col + 1 \in 1 .. VGA_WIDTH
  BY Size
<1>2. [t[n] EXCEPT ![col + 1] = ch] \in Line
  BY <1>1 DEF Line
<1>3. u = [t EXCEPT ![n] = [t[n] EXCEPT ![col + 1] = ch]]
  BY <1>1 DEF LinePut
<1>4. u \in Seq(Line) /\ Len(u) = n
  BY <1>1, <1>2, <1>3
<1>5. /\ u[n] = [t[n] EXCEPT ![col + 1] = ch]
      /\ \A i \in 1 .. n : i # n => u[i] = t[i]
  BY SMTT(30), <1>1, <1>3
<1> HIDE DEF n
<1>6. /\ m2 \in [Cells -> Chars]
      /\ \A x \in Cells : m2[x] = IF x = Cell(n - 1, col) THEN ch ELSE m[x]
  BY DEF CellPut, n
<1>7. ShowsFrom(m2, u, 0)
  <2> SUFFICES ASSUME NEW r \in Rows, NEW c \in Columns
               PROVE  m2[Cell(r, c)] = TextCell(u, r, c)
    BY RowsNat DEF ShowsFrom
  <2>1. r \in Nat /\ r + 0 = r /\ c \in Nat /\ c + 1 \in 1 .. VGA_WIDTH
    BY Size
  <2>2. Cell(r, c) \in Cells
    BY <2>1, CellIn
  <2>3. m[Cell(r, c)] = TextCell(t, r, c)
    BY <2>1 DEF ShowsFrom
  <2>4. CASE r = n - 1 /\ c = col
    <3>1. m2[Cell(r, c)] = ch
      BY <1>6, <2>2, <2>4
    <3>2. TextCell(u, r, c) = u[n][col + 1]
      BY <1>1, <1>4, <2>1, <2>4 DEF TextCell
    <3>3. u[n][col + 1] = ch
      BY <1>1, <1>5 DEF Line
    <3> QED BY <3>1, <3>2, <3>3
  <2>5. CASE ~(r = n - 1 /\ c = col)
    <3>1. Cell(r, c) # Cell(n - 1, col)
      BY <1>1, <2>1, <2>5, CellOne
    <3>2. m2[Cell(r, c)] = m[Cell(r, c)]
      BY <1>6, <2>2, <3>1
    <3>3. TextCell(u, r, c) = TextCell(t, r, c)
      <4>1. CASE r < n
        <5>1. r + 1 \in 1 .. n /\ TextCell(u, r, c) = u[r + 1][c + 1]
              /\ TextCell(t, r, c) = t[r + 1][c + 1]
          BY <1>1, <1>4, <2>1, <4>1 DEF TextCell, n
        <5>2. CASE r + 1 # n
          BY <1>5, <5>1, <5>2
        <5>3. CASE r + 1 = n
          <6>1. c + 1 # col + 1
            BY <1>1, <2>1, <2>5, <5>3, Size
          <6>2. u[n][c + 1] = t[n][c + 1]
            BY <1>1, <1>5, <2>1, <6>1 DEF Line
          <6> QED BY <5>1, <5>3, <6>2
        <5> QED BY <5>2, <5>3
      <4>2. CASE ~(r < n)
        BY <1>4, <4>2 DEF TextCell, n
      <4> QED BY <4>1, <4>2
    <3> QED BY <2>3, <3>2, <3>3
  <2> QED BY <2>4, <2>5
<1> QED BY <1>4, <1>6, <1>7 DEF n

\* What screen_scroll does to memory, which then has caught up.
Scroll(m) == [x \in Cells |-> IF x + VGA_WIDTH \in Cells THEN m[x + VGA_WIDTH] ELSE Blank]

LEMMA Scrolled ==
  ASSUME NEW m \in [Cells -> Chars], NEW t \in Seq(Line), Len(t) = VGA_HEIGHT,
         ShowsFrom(m, t, 1), NEW m2, m2 = Scroll(m)
  PROVE  ShowsFrom(m2, t, 0) /\ m2 \in [Cells -> Chars]
<1>1. /\ m2 \in [Cells -> Chars]
      /\ \A x \in Cells : m2[x] = IF x + VGA_WIDTH \in Cells THEN m[x + VGA_WIDTH] ELSE Blank
  BY BlankIn DEF Scroll
<1>2. ShowsFrom(m2, t, 0)
  <2> SUFFICES ASSUME NEW r \in Rows, NEW c \in Columns
               PROVE  m2[Cell(r, c)] = TextCell(t, r, c)
    BY RowsNat DEF ShowsFrom
  <2>1. r \in Nat /\ r + 1 \in Nat
    BY Size
  <2>2. /\ Cell(r, c) \in Cells /\ Cell(r, c) + VGA_WIDTH = Cell(r + 1, c)
        /\ Cell(r + 1, c) \in Cells <=> r + 1 \in Rows
    BY <2>1, CellIn
  <2>3. CASE r + 1 \in Rows
    BY <1>1, <2>2, <2>3 DEF ShowsFrom
  <2>4. CASE r + 1 \notin Rows
    <3>1. ~(r < Len(t))
      BY <2>1, <2>4, Size
    <3> QED BY <1>1, <2>2, <2>4, <3>1 DEF TextCell
  <2> QED BY <2>3, <2>4
<1> QED BY <1>1, <1>2

-----------------------------------------------------------------------------
(* Whose turn it is                                                        *)

\* The thread that runs, and whether the main program waits inside move_vga_cursor.
LEMMA Turn ==
  ASSUME Untorn, NEW t \in Threads, NEW p, Runs(t, p), p # "idle"
  PROVE  /\ pc[t] = p /\ At(t, p) /\ Typed
         /\ t = "isr" => CutIn
         /\ t = "main" => pc["isr"] = "idle"
<1>1. pc[t] = p /\ (t = "main" => pc["isr"] = "idle")
  BY DEF Runs
<1> QED BY <1>1 DEF Untorn, Threads

\* A thread takes a step to point q and has done there what it should; a handler
\* that ends has brought the hardware up to date.
LEMMA Moves ==
  ASSUME Untorn, NEW t \in Threads, NEW p, NEW q \in Points,
         Runs(t, p), p # "idle", Goto(t, q), Typed', At(t, q)',
         t = "isr" => overtaken' = overtaken,
         t = "main" /\ q = "idle" => Left',
         t = "isr" /\ q = "idle" =>
           crtc'.index = "hi" /\ crtc'.lo = Low(cursor)' /\ crtc'.hi = High(cursor)'
  PROVE  Untorn'
<1>1. pc[t] = p /\ (t = "isr" => CutIn) /\ (t = "main" => pc["isr"] = "idle")
  BY Turn
<1>2. pc' = [pc EXCEPT ![t] = q] /\ pc \in [Threads -> Points]
  BY DEF Goto, Untorn, Typed
<1>3. pc'[t] = q /\ \A u \in Threads \ {t} : pc'[u] = pc[u]
  BY <1>2
<1>4. CASE t = "main"
  <2>1. pc'["isr"] = "idle" /\ pc'["main"] = q
    BY <1>1, <1>3, <1>4 DEF Threads
  <2> QED BY <1>4, <2>1 DEF Untorn, Threads
<1>5. CASE t = "isr"
  <2>1. pc'["isr"] = q /\ pc'["main"] = pc["main"] /\ CutIn' /\ CutIn
    BY <1>1, <1>3, <1>5 DEF Threads, CutIn
  <2>2. CASE q # "idle"
    BY <1>5, <2>1, <2>2 DEF Untorn, Threads
  <2>3. CASE q = "idle"
    <3>1. Settled' /\ crtc'.index = "hi" /\ crtc'.lo = Low(cursor)' /\ crtc'.hi = High(cursor)'
      BY <1>5, <2>3 DEF At, Rest
    <3>2. At("main", pc["main"])'
      <4>1. CASE pc["main"] \in Rest
        BY <2>1, <3>1, <4>1 DEF At, Rest, Moving
      <4>2. CASE pc["main"] \in Moving
        <5>1. ~Current("main")'
          BY <2>1, <4>2 DEF Current, CutIn, Rest, Moving
        <5> QED BY <2>1, <3>1, <4>2, <5>1 DEF At, Rest, Moving, LowWritten
      <4> QED BY <2>1, <4>1, <4>2 DEF CutIn
    <3>3. (\A u \in Threads : pc'[u] = "idle") => Left'
      BY <2>1, <3>1 DEF Left, CutIn, Threads, Moving
    <3> QED BY <2>1, <2>3, <3>2, <3>3 DEF Untorn
  <2> QED BY <2>2, <2>3
<1> QED BY <1>4, <1>5 DEF Threads

LEMMA StringsIn == \A s \in MainStrings \cup IsrStrings : s \in Seq(Chars)
<1>1. STRING \subseteq Chars
  BY DEF Chars
<1> QED BY <1>1, ScreenAssumption, SeqMonotonic

\* Where nobody is inside a character the screen is settled.
LEMMA BetweenSettled ==
  ASSUME Untorn, Between
  PROVE  Settled
<1>1. pc["main"] \in Rest \cup Moving /\ pc["isr"] \in Rest \cup Moving
  BY DEF Between, Threads, Rest
<1> QED BY <1>1 DEF Untorn, At

\* A thread begins to print on a settled screen, whatever comes next.
LEMMA Starts ==
  ASSUME Untorn, NEW t \in Threads, pc[t] = "idle", NEW s \in Seq(Chars), Between,
         Goto(t, "loop"), string' = [string EXCEPT ![t] = s],
         t = "main" => pc["isr"] = "idle" /\ overtaken' = overtaken,
         t = "isr" => overtaken' = (pc["main"] \in Moving),
         UNCHANGED <<mem, cursor, crtc, at, reference>>
  PROVE  Untorn'
<1>1. Settled
  BY BetweenSettled
<1>2. Settled'
  BY <1>1 DEF Settled, OnLastLine, cursor, reference
<1>3. /\ pc' = [pc EXCEPT ![t] = "loop"] /\ pc \in [Threads -> Points]
      /\ string \in [Threads -> Seq(Chars)]
  BY DEF Goto, Untorn, Typed
<1>4. pc'[t] = "loop" /\ \A u \in Threads \ {t} : pc'[u] = pc[u]
  BY <1>3
<1>5. Typed'
  <2>1. pc' \in [Threads -> Points]
    BY <1>3 DEF Points
  <2>2. string' \in [Threads -> Seq(Chars)]
    BY <1>3
  <2>3. Typed
    BY DEF Untorn
  <2>4. overtaken' \in BOOLEAN
    <3>1. CASE t = "main"
      BY <2>3, <3>1 DEF Typed
    <3>2. CASE t = "isr"
      BY <3>2
    <3> QED BY <3>1, <3>2 DEF Threads
  <2> QED BY <2>1, <2>2, <2>3, <2>4 DEF Typed, cursor, reference
<1>6. At(t, "loop")'
  BY <1>2 DEF At, Rest, Moving
<1>7. CASE t = "main"
  <2>1. pc'["isr"] = "idle" /\ pc'["main"] = "loop"
    BY <1>4, <1>7 DEF Threads
  <2> QED BY <1>5, <1>6, <1>7, <2>1 DEF Untorn, Threads
<1>8. CASE t = "isr"
  <2>1. pc'["isr"] = "loop" /\ pc'["main"] = pc["main"]
    BY <1>4, <1>8 DEF Threads
  <2>2. CutIn'
    BY <1>8, <2>1, "main" # "isr" DEF CutIn, Between, Threads, Rest
  <2> QED BY <1>5, <1>6, <1>8, <2>1, <2>2 DEF Untorn, Threads
<1> QED BY <1>7, <1>8 DEF Threads

\* Types, where only the points change.
LEMMA PcTyped ==
  ASSUME Typed, NEW t \in Threads, NEW q \in Points, Goto(t, q)
  PROVE  pc' \in [Threads -> Points]
BY DEF Typed, Goto

-----------------------------------------------------------------------------
(* The steps                                                               *)

LEMMA FetchCharKeeps ==
  ASSUME Untorn, NEW t \in Threads, FetchChar(t)
  PROVE  Untorn'
<1>1. /\ Runs(t, "loop") /\ at' = [at EXCEPT ![t] = cursor] /\ Goto(t, "put")
      /\ UNCHANGED <<mem, cursor, crtc, string, reference, overtaken>>
      /\ string[t] # <<>>
  BY DEF FetchChar, history
<1>2. At(t, "loop") /\ "put" \in Points /\ Typed
  BY <1>1, Turn DEF Points, Untorn
<1>3. /\ Settled' /\ at'[t] = cursor' /\ cursor \in Nat \X Nat
  BY <1>1, <1>2, Size DEF At, Rest, Moving, Settled, OnLastLine, cursor, reference, Typed
<1>4. Typed'
  BY <1>1, <1>2, <1>3, PcTyped DEF Typed, cursor, reference
<1>5. At(t, "put")'
  BY <1>1, <1>3 DEF At, Rest, Moving
<1> QED BY <1>1, <1>2, <1>4, <1>5, Moves

LEMMA FetchNewLineKeeps ==
  ASSUME Untorn, NEW t \in Threads, FetchNewLine(t)
  PROVE  Untorn'
<1>1. /\ Runs(t, "loop") /\ string[t] # <<>> /\ string' = [string EXCEPT ![t] = Tail(@)]
      /\ Goto(t, "newline") /\ text' = KeepLast(Append(text, BlankLine)) /\ column' = 0
      /\ UNCHANGED <<mem, cursor, crtc, at, overtaken>>
  BY DEF FetchNewLine, TextNewLine, history
<1>2. At(t, "loop") /\ "newline" \in Points /\ Typed
  BY <1>1, Turn DEF Points, Untorn
<1>3. OnLastLine
  BY <1>2 DEF At, Rest, Moving, Settled
<1>4. /\ text' \in Seq(Line) /\ Len(text') \in 1 .. VGA_HEIGHT
      /\ OneBehind(mem, text', Len(text) - 1)
  BY <1>1, <1>2, <1>3, LineAdded DEF Typed, OnLastLine
<1>5. string' \in [Threads -> Seq(Chars)]
  BY <1>1, <1>2 DEF Typed
<1>6. Typed'
  <2>1. column' \in Columns
    BY <1>1, Size
  <2> QED BY <1>1, <1>2, <1>4, <1>5, <2>1, PcTyped DEF Typed, cursor
<1>7. At(t, "newline")'
  <2>1. OneBehind(mem', text', curs_row')
    BY <1>1, <1>3, <1>4 DEF OnLastLine, cursor
  <2> QED BY <1>1, <2>1 DEF At, Rest, Moving
<1> QED BY <1>1, <1>2, <1>6, <1>7, Moves

\* The cell the cursor was at is the one where the text goes on.
LEMMA PutCharKeeps ==
  ASSUME Untorn, NEW t \in Threads, PutChar(t)
  PROVE  Untorn'
<1> DEFINE ch == Head(string[t])
           line == LinePut(text, column, ch)
<1>1. /\ Runs(t, "put") /\ Goto(t, "advance")
      /\ mem' = [c \in Cells |-> IF c = CellAt(at[t]) THEN ch ELSE mem[c]]
      /\ string' = [string EXCEPT ![t] = Tail(@)] /\ TextPut(ch)
      /\ UNCHANGED <<cursor, crtc, at, overtaken>>
  BY DEF PutChar, history
<1>2. At(t, "put") /\ "advance" \in Points /\ Typed
  BY <1>1, Turn DEF Points, Untorn
<1>3. OnLastLine /\ curs_col = column /\ at[t] = cursor /\ string[t] # <<>>
  BY <1>2 DEF At, Settled
<1>4. ch \in Chars /\ string' \in [Threads -> Seq(Chars)]
  <2>1. string[t] \in Seq(Chars)
    BY <1>2 DEF Typed
  <2>2. Head(string[t]) \in Chars /\ Tail(string[t]) \in Seq(Chars)
    BY <1>3, <2>1
  <2> QED BY <1>1, <1>2, <2>2 DEF Typed
<1>5. mem' = CellPut(mem, Cell(Len(text) - 1, column), ch)
  <2>1. CellAt(at[t]) = Cell(curs_row, curs_col)
    BY <1>3 DEF CellAt, cursor, Cell
  <2>2. curs_row = Len(text) - 1
    BY <1>3 DEF OnLastLine
  <2> QED BY <1>1, <1>3, <2>1, <2>2 DEF CellPut
<1> HIDE DEF ch
<1>11. /\ line = LinePut(text, column, ch)
       /\ mem \in [Cells -> Chars] /\ text \in Seq(Line) /\ Len(text) \in 1 .. VGA_HEIGHT
       /\ column \in Columns /\ ShowsFrom(mem, text, 0)
  BY <1>2, <1>3 DEF Typed, OnLastLine
<1> HIDE DEF line
<1>6. /\ line \in Seq(Line) /\ Len(line) = Len(text) /\ ShowsFrom(mem', line, 0)
      /\ mem' \in [Cells -> Chars]
  BY ONLY <1>4, <1>5, <1>11, CharPut
<1>7. IF column + 1 = VGA_WIDTH
      THEN text' = KeepLast(Append(line, BlankLine)) /\ column' = 0
      ELSE text' = line /\ column' = column + 1
  BY <1>1 DEF TextPut, LinePut, line
<1>8. column \in Columns /\ curs_row = Len(text) - 1 /\ Len(text) \in 1 .. VGA_HEIGHT
  BY <1>2, <1>3 DEF Typed, OnLastLine
<1>9. CASE column + 1 = VGA_WIDTH
  <2>1. /\ text' \in Seq(Line) /\ Len(text') \in 1 .. VGA_HEIGHT
        /\ OneBehind(mem', text', Len(line) - 1)
    BY <1>6, <1>7, <1>8, <1>9, LineAdded
  <2>2. /\ column' = 0 /\ column' \in Columns
        /\ curs_col' = VGA_WIDTH - 1 /\ curs_row' = Len(line) - 1
    BY <1>1, <1>3, <1>6, <1>7, <1>8, <1>9, Size DEF cursor
  <2>3. Typed'
    BY <1>1, <1>2, <1>4, <1>6, <2>1, <2>2, PcTyped DEF Typed, cursor
  <2>4. At(t, "advance")'
    BY <2>1, <2>2 DEF At, Rest, Moving
  <2> QED BY <1>1, <1>2, <2>3, <2>4, Moves
<1>10. CASE column + 1 # VGA_WIDTH
  <2>1. text' \in Seq(Line) /\ Len(text') \in 1 .. VGA_HEIGHT /\ ShowsFrom(mem', text', 0)
    BY <1>6, <1>7, <1>8, <1>10
  <2>2. /\ column' = curs_col' + 1 /\ column' \in Columns /\ curs_row' = Len(text') - 1
    BY <1>1, <1>3, <1>6, <1>7, <1>8, <1>10, Size DEF cursor
  <2>3. Typed'
    BY <1>1, <1>2, <1>4, <1>6, <2>1, <2>2, PcTyped DEF Typed, cursor
  <2>4. At(t, "advance")'
    BY <2>1, <2>2 DEF At, Rest, Moving, OnLastLine
  <2> QED BY <1>1, <1>2, <2>3, <2>4, Moves
<1> QED BY <1>9, <1>10

\* The last column of the line wraps where the text has wrapped.
LEMMA TestColumnKeeps ==
  ASSUME Untorn, NEW t \in Threads, TestColumn(t)
  PROVE  Untorn'
<1> DEFINE q == IF curs_col + 1 = VGA_WIDTH THEN "newline" ELSE "column"
<1>1. /\ Runs(t, "advance") /\ Goto(t, q)
      /\ UNCHANGED <<mem, cursor, crtc, string, at, reference, overtaken>>
  BY DEF TestColumn, history
<1>2. At(t, "advance") /\ q \in Points /\ Typed /\ q # "idle"
  BY <1>1, Turn DEF Points, Untorn
<1>3. \/ OnLastLine /\ column = curs_col + 1
      \/ OneBehind(mem, text, curs_row) /\ column = 0 /\ curs_col = VGA_WIDTH - 1
  BY <1>2 DEF At
<1>4. curs_col \in Columns /\ column \in Columns
  BY <1>2 DEF Typed
<1>5. Typed'
  BY <1>1, <1>2, PcTyped DEF Typed, cursor, reference
<1>6. CASE curs_col + 1 = VGA_WIDTH
  <2>1. OneBehind(mem, text, curs_row) /\ column = 0
    BY <1>3, <1>4, <1>6, Size
  <2>2. At(t, "newline")'
    BY <1>1, <2>1 DEF At, Rest, Moving, cursor, reference
  <2> QED BY <1>1, <1>2, <1>5, <1>6, <2>2, Moves
<1>7. CASE curs_col + 1 # VGA_WIDTH
  <2>1. OnLastLine /\ column = curs_col + 1
    BY <1>3, <1>4, <1>7, Size
  <2>2. At(t, "column")'
    BY <1>1, <2>1 DEF At, Rest, Moving, OnLastLine, cursor, reference
  <2> QED BY <1>1, <1>2, <1>5, <1>7, <2>2, Moves
<1> QED BY <1>6, <1>7

LEMMA NextColumnKeeps ==
  ASSUME Untorn, NEW t \in Threads, NextColumn(t)
  PROVE  Untorn'
<1>1. /\ Runs(t, "column") /\ Goto(t, "loop") /\ curs_col' = curs_col + 1
      /\ UNCHANGED <<mem, curs_row, crtc, string, at, reference, overtaken>>
  BY DEF NextColumn, history
<1>2. At(t, "column") /\ "loop" \in Points /\ Typed
  BY <1>1, Turn DEF Points, Untorn
<1>3. OnLastLine /\ column = curs_col' /\ column \in Columns
  BY <1>1, <1>2 DEF At, Typed
<1>4. Typed'
  BY <1>1, <1>2, <1>3, PcTyped DEF Typed, reference
<1>5. At(t, "loop")'
  BY <1>1, <1>3 DEF At, Rest, Moving, Settled, OnLastLine, reference
<1> QED BY <1>1, <1>2, <1>4, <1>5, Moves

\* On the last row of the screen the text has as many lines as fit.
LEMMA TestRowKeeps ==
  ASSUME Untorn, NEW t \in Threads, TestRow(t)
  PROVE  Untorn'
<1> DEFINE q == IF curs_row + 1 = VGA_HEIGHT THEN "scroll" ELSE "row"
<1>1. /\ Runs(t, "newline") /\ Goto(t, q)
      /\ UNCHANGED <<mem, cursor, crtc, string, at, reference, overtaken>>
  BY DEF TestRow, history
<1>2. At(t, "newline") /\ q \in Points /\ Typed /\ q # "idle"
  BY <1>1, Turn DEF Points, Untorn
<1>3. /\ \/ ShowsFrom(mem, text, 0) /\ curs_row = Len(text) - 2
         \/ ShowsFrom(mem, text, 1) /\ Len(text) = VGA_HEIGHT /\ curs_row = VGA_HEIGHT - 1
      /\ column = 0
  BY <1>2 DEF At, OneBehind
<1>4. Len(text) \in 1 .. VGA_HEIGHT
  BY <1>2 DEF Typed
<1>5. Typed'
  BY <1>1, <1>2, PcTyped DEF Typed, cursor, reference
<1>6. CASE curs_row + 1 = VGA_HEIGHT
  <2>1. ShowsFrom(mem, text, 1) /\ Len(text) = VGA_HEIGHT /\ curs_row = VGA_HEIGHT - 1
    BY <1>3, <1>4, <1>6, Size
  <2>2. At(t, "scroll")'
    BY <1>1, <1>3, <2>1 DEF At, Rest, Moving, cursor, reference
  <2> QED BY <1>1, <1>2, <1>5, <1>6, <2>2, Moves
<1>7. CASE curs_row + 1 # VGA_HEIGHT
  <2>1. ShowsFrom(mem, text, 0) /\ curs_row = Len(text) - 2
    BY <1>3, <1>4, <1>7, Size
  <2>2. At(t, "row")'
    BY <1>1, <1>3, <2>1 DEF At, Rest, Moving, cursor, reference
  <2> QED BY <1>1, <1>2, <1>5, <1>7, <2>2, Moves
<1> QED BY <1>6, <1>7

LEMMA ScrollKeeps ==
  ASSUME Untorn, NEW t \in Threads, screen_scroll(t)
  PROVE  Untorn'
<1>1. /\ Runs(t, "scroll") /\ Goto(t, "return") /\ mem' = Scroll(mem)
      /\ UNCHANGED <<cursor, crtc, string, at, reference, overtaken>>
  BY DEF screen_scroll, Scroll, history
<1>2. At(t, "scroll") /\ "return" \in Points /\ Typed
  BY <1>1, Turn DEF Points, Untorn
<1>3. /\ ShowsFrom(mem, text, 1) /\ Len(text) = VGA_HEIGHT /\ curs_row = VGA_HEIGHT - 1
      /\ column = 0
  BY <1>2 DEF At
<1>4. ShowsFrom(mem', text, 0) /\ mem' \in [Cells -> Chars]
  BY <1>1, <1>2, <1>3, Scrolled DEF Typed
<1>5. Typed'
  BY <1>1, <1>2, <1>4, PcTyped DEF Typed, cursor, reference
<1>6. At(t, "return")'
  BY <1>1, <1>3, <1>4 DEF At, Rest, Moving, OnLastLine, cursor, reference
<1> QED BY <1>1, <1>2, <1>5, <1>6, Moves

LEMMA NextRowKeeps ==
  ASSUME Untorn, NEW t \in Threads, NextRow(t)
  PROVE  Untorn'
<1>1. /\ Runs(t, "row") /\ Goto(t, "return") /\ curs_row' = curs_row + 1
      /\ UNCHANGED <<mem, curs_col, crtc, string, at, reference, overtaken>>
  BY DEF NextRow, history
<1>2. At(t, "row") /\ "return" \in Points /\ Typed
  BY <1>1, Turn DEF Points, Untorn
<1>3. /\ ShowsFrom(mem, text, 0) /\ curs_row' = Len(text) - 1 /\ column = 0
      /\ curs_row' \in 0 .. VGA_HEIGHT - 1
  <2>1. ShowsFrom(mem, text, 0) /\ curs_row = Len(text) - 2 /\ column = 0
    BY <1>2 DEF At
  <2>2. Len(text) \in 1 .. VGA_HEIGHT
    BY <1>2 DEF Typed
  <2> QED BY <1>1, <2>1, <2>2, Size
<1>4. Typed'
  BY <1>1, <1>2, <1>3, PcTyped DEF Typed, reference
<1>5. At(t, "return")'
  BY <1>1, <1>3 DEF At, Rest, Moving, OnLastLine, reference
<1> QED BY <1>1, <1>2, <1>4, <1>5, Moves

LEMMA CarriageReturnKeeps ==
  ASSUME Untorn, NEW t \in Threads, CarriageReturn(t)
  PROVE  Untorn'
<1>1. /\ Runs(t, "return") /\ Goto(t, "loop") /\ curs_col' = 0
      /\ UNCHANGED <<mem, curs_row, crtc, string, at, reference, overtaken>>
  BY DEF CarriageReturn, history
<1>2. At(t, "return") /\ "loop" \in Points /\ Typed
  BY <1>1, Turn DEF Points, Untorn
<1>3. OnLastLine /\ column = curs_col' /\ column \in Columns
  BY <1>1, <1>2 DEF At, Typed
<1>4. Typed'
  BY <1>1, <1>2, <1>3, PcTyped DEF Typed, reference
<1>5. At(t, "loop")'
  BY <1>1, <1>3 DEF At, Rest, Moving, Settled, OnLastLine, reference
<1> QED BY <1>1, <1>2, <1>4, <1>5, Moves

LEMMA MoveCursorKeeps ==
  ASSUME Untorn, NEW t \in Threads, MoveCursor(t)
  PROVE  Untorn'
<1>1. /\ Runs(t, "loop") /\ at' = [at EXCEPT ![t] = cursor] /\ Goto(t, "index_lo")
      /\ overtaken' = (overtaken /\ t = "isr")
      /\ UNCHANGED <<mem, cursor, crtc, string, reference>>
  BY DEF MoveCursor
<1>2. At(t, "loop") /\ "index_lo" \in Points /\ Typed
  BY <1>1, Turn DEF Points
<1>3. Settled' /\ at'[t] = cursor' /\ cursor \in Nat \X Nat
  BY <1>1, <1>2, Size DEF At, Rest, Settled, OnLastLine, cursor, reference, Typed
<1>4. Typed'
  BY <1>1, <1>2, <1>3, PcTyped DEF Typed, cursor, reference
<1>5. At(t, "index_lo")'
  BY <1>3 DEF At, Rest, Moving
<1>6. t = "isr" => overtaken' = overtaken
  BY <1>1, <1>2 DEF Typed
<1> QED BY <1>1, <1>2, <1>4, <1>5, <1>6, Moves

\* Between the two writes the index register is a thread's own unless it is
\* overtaken.
LEMMA SelectLoKeeps ==
  ASSUME Untorn, NEW t \in Threads, SelectHalf(t, "lo", "index_lo", "data_lo")
  PROVE  Untorn'
<1>1. /\ Runs(t, "index_lo") /\ Goto(t, "data_lo") /\ crtc' = [crtc EXCEPT !.index = "lo"]
      /\ UNCHANGED <<mem, cursor, string, at, reference, overtaken>>
  BY DEF SelectHalf, history
<1>2. At(t, "index_lo") /\ "data_lo" \in Points /\ Typed
  BY <1>1, Turn DEF Points
<1>3. Settled' /\ (Current(t)' => at'[t] = cursor')
  BY <1>1, <1>2 DEF At, Settled, OnLastLine, cursor, reference, Moving, Current
<1>4. crtc' \in [index : {"lo", "hi"}, lo : Nat, hi : Nat] /\ crtc'.index = "lo"
  BY <1>1, <1>2 DEF Typed
<1>5. Typed'
  BY <1>1, <1>2, <1>4, PcTyped DEF Typed, cursor, reference
<1>6. At(t, "data_lo")'
  BY <1>3, <1>4 DEF At, Rest, Moving
<1> QED BY <1>1, <1>2, <1>5, <1>6, Moves

LEMMA SelectHiKeeps ==
  ASSUME Untorn, NEW t \in Threads, SelectHalf(t, "hi", "index_hi", "data_hi")
  PROVE  Untorn'
<1>1. /\ Runs(t, "index_hi") /\ Goto(t, "data_hi") /\ crtc' = [crtc EXCEPT !.index = "hi"]
      /\ UNCHANGED <<mem, cursor, string, at, reference, overtaken>>
  BY DEF SelectHalf, history
<1>2. At(t, "index_hi") /\ "data_hi" \in Points /\ Typed
  BY <1>1, Turn DEF Points
<1>3. Settled' /\ LowWritten(t)
  BY <1>1, <1>2 DEF At, Settled, OnLastLine, cursor, reference, Moving
<1>4. /\ crtc' \in [index : {"lo", "hi"}, lo : Nat, hi : Nat] /\ crtc'.index = "hi"
      /\ crtc'.lo = crtc.lo
  BY <1>1, <1>2 DEF Typed
<1>5. LowWritten(t)'
  BY <1>1, <1>3, <1>4 DEF LowWritten, Current, Low, CellAt, cursor
<1>6. Typed'
  BY <1>1, <1>2, <1>4, PcTyped DEF Typed, cursor, reference
<1>7. At(t, "data_hi")'
  BY <1>3, <1>4, <1>5 DEF At, Rest, Moving
<1> QED BY <1>1, <1>2, <1>6, <1>7, Moves

\* An overtaken thread finds the low half selected, or writes to the high one
\* and leaves the low half of the handler's place.
LEMMA WriteLoKeeps ==
  ASSUME Untorn, NEW t \in Threads, WriteHalf(t, Low(at[t]), "data_lo", "index_hi")
  PROVE  Untorn'
<1>1. /\ Runs(t, "data_lo") /\ Goto(t, "index_hi")
      /\ crtc' = IF crtc.index = "lo" THEN [crtc EXCEPT !.lo = Low(at[t])]
                                       ELSE [crtc EXCEPT !.hi = Low(at[t])]
      /\ UNCHANGED <<mem, cursor, string, at, reference, overtaken>>
  BY DEF WriteHalf, history
<1>2. At(t, "data_lo") /\ "index_hi" \in Points /\ Typed
  BY <1>1, Turn DEF Points
<1>3. Settled'
  BY <1>1, <1>2 DEF At, Settled, OnLastLine, cursor, reference, Moving
<1>4. Low(at[t]) \in Nat /\ Low(cursor)' = Low(cursor) /\ cursor' = cursor
  BY <1>1, <1>2, Halves DEF Typed, Low, CellAt
<1>5. crtc' \in [index : {"lo", "hi"}, lo : Nat, hi : Nat]
  BY <1>1, <1>2, <1>4 DEF Typed
<1>6. LowWritten(t)'
  <2>1. CASE Current(t)
    <3>1. at[t] = cursor /\ crtc.index = "lo" /\ at'[t] = at[t] /\ Current(t)'
      BY <1>1, <1>2, <2>1 DEF At, Current
    <3>2. crtc'.lo = Low(at[t])
      BY <1>1, <1>2, <3>1 DEF Typed
    <3> QED BY <1>4, <3>1, <3>2 DEF LowWritten
  <2>2. CASE ~Current(t)
    <3>1. crtc.index = "lo" \/ crtc.lo = Low(cursor)
      BY <1>2, <2>2 DEF At
    <3>2. crtc'.lo = IF crtc.index = "lo" THEN Low(at[t]) ELSE crtc.lo
      BY <1>1, <1>2 DEF Typed
    <3>3. at' = at /\ ~Current(t)' /\ Low(at[t])' = Low(at[t])
      BY <1>1, <2>2 DEF Current, Low, CellAt
    <3> QED BY <1>4, <3>1, <3>2, <3>3 DEF LowWritten
  <2> QED BY <2>1, <2>2
<1>7. Typed'
  BY <1>1, <1>2, <1>5, PcTyped DEF Typed, cursor, reference
<1>8. At(t, "index_hi")'
  BY <1>3, <1>6 DEF At, Rest, Moving
<1> QED BY <1>1, <1>2, <1>7, <1>8, Moves

LEMMA WriteHiKeeps ==
  ASSUME Untorn, NEW t \in Threads, WriteHalf(t, High(at[t]), "data_hi", "idle")
  PROVE  Untorn'
<1>1. /\ Runs(t, "data_hi") /\ Goto(t, "idle")
      /\ crtc.index # "lo" => crtc' = [crtc EXCEPT !.hi = High(at[t])]
      /\ UNCHANGED <<mem, cursor, string, at, reference, overtaken>>
  BY DEF WriteHalf, history
<1>2. At(t, "data_hi") /\ "idle" \in Points /\ Typed
  BY <1>1, Turn DEF Points
<1>3. Settled' /\ crtc.index = "hi" /\ LowWritten(t)
  BY <1>1, <1>2 DEF At, Settled, OnLastLine, cursor, reference, Moving
<1>4. /\ High(at[t]) \in Nat /\ cursor' = cursor /\ at' = at
      /\ Low(cursor)' = Low(cursor) /\ High(cursor)' = High(cursor)
      /\ Low(at["main"])' = Low(at["main"]) /\ High(at["main"])' = High(at["main"])
  BY <1>1, <1>2, Halves DEF Typed, Low, High, CellAt
<1>5. /\ crtc' \in [index : {"lo", "hi"}, lo : Nat, hi : Nat]
      /\ crtc'.index = "hi" /\ crtc'.lo = crtc.lo /\ crtc'.hi = High(at[t])
  BY <1>1, <1>2, <1>3, <1>4 DEF Typed
<1>6. t = "main" => Left'
  BY <1>1, <1>3, <1>4, <1>5 DEF Left, LowWritten, Current
<1>7. t = "isr" => crtc'.lo = Low(cursor)' /\ crtc'.hi = High(cursor)'
  BY <1>3, <1>4, <1>5 DEF LowWritten, Current
<1>8. Typed'
  BY <1>1, <1>2, <1>5, PcTyped DEF Typed, cursor, reference
<1>9. At(t, "idle")'
  BY <1>3 DEF At, Rest, Moving
<1> QED BY <1>1, <1>2, <1>5, <1>6, <1>7, <1>8, <1>9, Moves

\* A handler that starts where the main program is past its loop tears, so no
\* step of an untorn state leaves it but that one.
LEMMA NextKeeps == IInv /\ [Next]_vars => IInv'
<1> SUFFICES ASSUME IInv, [Next]_vars PROVE IInv'
  OBVIOUS
<1>1. CASE UNCHANGED vars
  <2>1. ASSUME Untorn PROVE Untorn'
    <3>1. /\ UNCHANGED <<mem, curs_row, curs_col, crtc, pc, string, at, text, column, overtaken>>
          /\ cursor' = cursor
      BY <1>1 DEF vars, cursor
    <3>2. Typed' /\ Left' = Left /\ CutIn' = CutIn
      BY <2>1, <3>1 DEF Untorn, Typed, Left, CutIn, Low, High, CellAt
    <3>3. ASSUME NEW t \in Threads, NEW p, At(t, p) PROVE At(t, p)'
      <4>1. LowWritten(t)' = LowWritten(t) /\ Current(t)' = Current(t)
        BY <3>1 DEF LowWritten, Current, Low, CellAt
      <4>2. Low(cursor)' = Low(cursor) /\ OnLastLine' = OnLastLine /\ Settled' = Settled
        BY <3>1 DEF Low, CellAt, OnLastLine, Settled
      <4> QED BY <3>1, <3>3, <4>1, <4>2 DEF At
    <3>5. pc["isr"] # "idle" => At("isr", pc["isr"])'
      BY <2>1, <3>1, <3>3 DEF Untorn, Threads
    <3>6. pc["isr"] = "idle" => At("main", pc["main"])'
      BY <2>1, <3>1, <3>3 DEF Untorn, Threads
    <3> QED BY <2>1, <3>1, <3>2, <3>5, <3>6 DEF Untorn
  <2> QED BY <1>1, <2>1 DEF IInv, vars
<1>2. ASSUME NEW s \in MainStrings, MainPrints(s) PROVE IInv'
  <2>1. torn' = torn
    BY <1>2 DEF MainPrints, history
  <2>2. ASSUME Untorn PROVE Untorn'
    <3>1. /\ pc["main"] = "idle" /\ pc["isr"] = "idle" /\ Goto("main", "loop")
          /\ string' = [string EXCEPT !["main"] = s]
          /\ UNCHANGED <<mem, cursor, crtc, at, reference, overtaken>>
      BY <1>2 DEF MainPrints, Runs, history
    <3>2. s \in Seq(Chars)
      BY StringsIn
    <3>3. Between /\ "main" \in Threads
      BY <3>1 DEF Between, Threads
    <3> QED BY <2>2, <3>1, <3>2, <3>3, Starts
  <2> QED BY <2>1, <2>2 DEF IInv
<1>3. ASSUME NEW s \in IsrStrings, IsrPrints(s) PROVE IInv'
  <2>1. /\ pc["isr"] = "idle" /\ Goto("isr", "loop") /\ string' = [string EXCEPT !["isr"] = s]
        /\ torn' = (torn \/ pc["main"] \notin Rest \cup Moving)
        /\ overtaken' = (pc["main"] \in Moving)
        /\ UNCHANGED <<mem, cursor, crtc, at, reference>>
    BY <1>3 DEF IsrPrints, Rest
  <2>2. torn \in BOOLEAN /\ torn' \in BOOLEAN
    BY <2>1 DEF IInv
  <2>3. ASSUME torn' = FALSE PROVE Untorn'
    <3>1. torn = FALSE /\ pc["main"] \in Rest \cup Moving
      BY <2>1, <2>2, <2>3
    <3>2. Untorn
      BY <3>1 DEF IInv
    <3>3. s \in Seq(Chars)
      BY StringsIn
    <3>4. Between /\ "isr" \in Threads /\ "isr" # "main"
      BY <2>1, <3>1 DEF Between, Threads, Rest
    <3> QED BY <2>1, <3>2, <3>3, <3>4, Starts
  <2> QED BY <2>2, <2>3 DEF IInv
<1>4. ASSUME NEW t \in Threads, Step(t) PROVE IInv'
  <2>1. torn' = torn
    BY <1>4 DEF Step, FetchChar, FetchNewLine, PutChar, TestColumn, NextColumn, TestRow,
                screen_scroll, NextRow, CarriageReturn, MoveCursor, SelectHalf, WriteHalf,
                history
  <2>2. ASSUME Untorn PROVE Untorn'
    <3>1. CASE FetchChar(t) \/ FetchNewLine(t) \/ PutChar(t)
      BY <2>2, <3>1, FetchCharKeeps, FetchNewLineKeeps, PutCharKeeps
    <3>2. CASE TestColumn(t) \/ NextColumn(t)
      BY <2>2, <3>2, TestColumnKeeps, NextColumnKeeps
    <3>3. CASE TestRow(t) \/ screen_scroll(t) \/ NextRow(t) \/ CarriageReturn(t)
      BY <2>2, <3>3, TestRowKeeps, ScrollKeeps, NextRowKeeps, CarriageReturnKeeps
    <3>4. CASE \/ MoveCursor(t)
               \/ SelectHalf(t, "lo", "index_lo", "data_lo")
               \/ WriteHalf(t, Low(at[t]), "data_lo", "index_hi")
               \/ SelectHalf(t, "hi", "index_hi", "data_hi")
               \/ WriteHalf(t, High(at[t]), "data_hi", "idle")
      BY <2>2, <3>4, MoveCursorKeeps, SelectLoKeeps, WriteLoKeeps, SelectHiKeeps, WriteHiKeeps
    <3> QED BY <1>4, <3>1, <3>2, <3>3, <3>4 DEF Step
  <2> QED BY <2>1, <2>2 DEF IInv
<1> QED BY <1>1, <1>2, <1>3, <1>4 DEF Next

-----------------------------------------------------------------------------
(* The screen the BIOS leaves                                              *)

LEMMA InitIInv == Init => IInv
<1> SUFFICES ASSUME Init PROVE IInv
  OBVIOUS
<1> DEFINE n == curs_row + 1
<1>1. /\ curs_row \in 0 .. VGA_HEIGHT - 1 /\ curs_col \in Columns
      /\ mem = [c \in Cells |-> IF c < Cell(curs_row, curs_col) THEN "bios" ELSE Blank]
      /\ crtc = [index |-> "hi", lo |-> Low(cursor), hi |-> High(cursor)]
      /\ text = [r \in 1 .. n |-> [c \in 1 .. VGA_WIDTH |-> mem[(r - 1) * VGA_WIDTH + c - 1]]]
      /\ column = curs_col /\ torn = FALSE /\ overtaken = FALSE
      /\ pc = [t \in Threads |-> IF t = "main" THEN "loop" ELSE "idle"]
      /\ string = [t \in Threads |-> IF t = "main" THEN <<NewLine>> ELSE <<>>]
      /\ at = [t \in Threads |-> <<0, 0>>]
  <2>1. CellAt(cursor) = Cell(curs_row, curs_col)
    BY DEF CellAt, cursor, Cell
  <2> QED BY <2>1 DEF Init, Columns
<1>2. curs_row \in Nat /\ n \in 1 .. VGA_HEIGHT /\ n \in Nat /\ curs_col \in Nat
  BY <1>1, Size
<1> HIDE DEF n
<1>3. mem \in [Cells -> Chars]
  BY <1>1 DEF Chars
<1>4. \A r \in 0 .. n - 1, c \in Columns : Cell(r, c) \in Cells /\ r \in Rows
  <2> SUFFICES ASSUME NEW r \in 0 .. n - 1, NEW c \in Columns
               PROVE  Cell(r, c) \in Cells /\ r \in Rows
    OBVIOUS
  <2>1. r \in Nat /\ r \in Rows
    BY <1>2, Size
  <2> QED BY <2>1, CellIn
<1>5. \A r \in 1 .. n, c \in 1 .. VGA_WIDTH :
        /\ r - 1 \in 0 .. n - 1 /\ c - 1 \in Columns
        /\ (r - 1) * VGA_WIDTH + c - 1 = Cell(r - 1, c - 1)
  <2> SUFFICES ASSUME NEW r \in 1 .. n, NEW c \in 1 .. VGA_WIDTH
               PROVE  /\ r - 1 \in 0 .. n - 1 /\ c - 1 \in Columns
                      /\ (r - 1) * VGA_WIDTH + c - 1 = Cell(r - 1, c - 1)
    OBVIOUS
  <2>1. (r - 1) * VGA_WIDTH \in Int
    BY <1>2, Size
  <2> QED BY <1>2, <2>1, Size DEF Cell
<1>6. text \in Seq(Line) /\ Len(text) = n
  <2>1. \A r \in 1 .. n : [c \in 1 .. VGA_WIDTH |-> mem[(r - 1) * VGA_WIDTH + c - 1]] \in Line
    BY <1>3, <1>4, <1>5 DEF Line
  <2>2. text \in [1 .. n -> Line]
    BY <1>1, <2>1
  <2>3. text \in Seq(Line)
    BY <1>2, <2>2, SeqDef
  <2> QED BY <1>2, <2>2, <2>3, LenProperties
<1>7. \A r \in 1 .. n, c \in 1 .. VGA_WIDTH : text[r][c] = mem[Cell(r - 1, c - 1)]
  BY <1>1, <1>5
<1>8. ShowsFrom(mem, text, 0)
  <2> SUFFICES ASSUME NEW r \in Rows, NEW c \in Columns
               PROVE  mem[Cell(r, c)] = TextCell(text, r, c)
    BY RowsNat DEF ShowsFrom
  <2>1. r \in Nat /\ c \in Nat /\ c + 1 \in 1 .. VGA_WIDTH /\ (c + 1) - 1 = c
        /\ (r + 1) - 1 = r
    BY Size
  <2>2. CASE r < n
    <3>1. r + 1 \in 1 .. n
      BY <1>2, <2>1, <2>2
    <3>2. text[r + 1][c + 1] = mem[Cell(r, c)]
      BY <1>7, <2>1, <3>1
    <3> QED BY <1>6, <2>2, <3>2 DEF TextCell
  <2>3. CASE ~(r < n)
    <3>1. curs_row < r
      BY <1>2, <2>1, <2>3 DEF n
    <3>2. Cell(curs_row, curs_col) < Cell(r, c) /\ Cell(curs_row, curs_col) \in Nat
          /\ Cell(r, c) \in Nat
      BY <1>1, <1>2, <2>1, <3>1, CellOrder
    <3>3. Cell(r, c) \in Cells
      BY <2>1, CellIn
    <3>4. mem[Cell(r, c)] = Blank
      BY <1>1, <3>2, <3>3
    <3> QED BY <1>6, <2>3, <3>4 DEF TextCell
  <2> QED BY <2>2, <2>3
<1>9. Settled
  <2>1. curs_row = Len(text) - 1
    BY <1>2, <1>6 DEF n
  <2> QED BY <1>1, <1>8, <2>1 DEF Settled, OnLastLine
<1>10. pc["main"] = "loop" /\ pc["isr"] = "idle" /\ pc \in [Threads -> Points]
  BY <1>1 DEF Threads, Points
<1>11. string \in [Threads -> Seq(Chars)]
  <2>1. <<NewLine>> \in Seq(Chars) /\ <<>> \in Seq(Chars)
    <3>1. NewLine \in Chars
      BY DEF Chars
    <3> QED BY <3>1
  <2> QED BY <1>1, <2>1
<1>12. Typed
  <2>1. cursor \in Nat \X Nat
    BY <1>2 DEF cursor
  <2>2. Low(cursor) \in Nat /\ High(cursor) \in Nat
    BY <2>1, Halves
  <2>3. crtc \in [index : {"lo", "hi"}, lo : Nat, hi : Nat] /\ at \in [Threads -> Nat \X Nat]
    BY <1>1, <2>2
  <2> QED BY <1>1, <1>2, <1>3, <1>6, <1>10, <1>11, <2>3 DEF Typed
<1>13. At("main", pc["main"])
  BY <1>9, <1>10 DEF At, Rest, Moving
<1>14. Untorn
  <2>1. ~(\A t \in Threads : pc[t] = "idle")
    BY <1>10 DEF Threads
  <2> QED BY <1>10, <1>12, <1>13, <2>1 DEF Untorn
<1> QED BY <1>1, <1>14 DEF IInv

THEOREM Invariance == Spec => []IInv
BY InitIInv, NextKeeps, PTL DEF Spec

-----------------------------------------------------------------------------
(* What follows                                                            *)

\* The cursor stays on the screen and the reference in its lines as long as
\* no handler has cut into a character.
THEOREM CursorOnScreen == Spec => [](~torn => TypeOK)
<1>1. IInv => (~torn => TypeOK)
  BY DEF IInv, Untorn, Typed, TypeOK, Columns
<1> QED BY <1>1, Invariance, PTL

\* What a settled screen shows.
LEMMA SettledShows ==
  ASSUME Typed, Settled
  PROVE  /\ SubSeq(Screen, 1, Len(text)) = text
         /\ \A r \in Len(text) + 1 .. VGA_HEIGHT : Screen[r] = BlankLine
<1> DEFINE n == Len(text)
<1>1. /\ text \in Seq(Line) /\ n \in 1 .. VGA_HEIGHT /\ n \in Nat /\ ShowsFrom(mem, text, 0)
      /\ VGA_HEIGHT \in Nat
  BY Size DEF Typed, Settled, OnLastLine
<1>2. \A r \in 1 .. VGA_HEIGHT, c \in 1 .. VGA_WIDTH :
        mem[(r - 1) * VGA_WIDTH + c - 1] = IF r <= n THEN text[r][c] ELSE Blank
  <2> SUFFICES ASSUME NEW r \in 1 .. VGA_HEIGHT, NEW c \in 1 .. VGA_WIDTH
               PROVE  mem[(r - 1) * VGA_WIDTH + c - 1] = IF r <= n THEN text[r][c] ELSE Blank
    OBVIOUS
  <2>1. /\ r - 1 \in Rows /\ c - 1 \in Columns /\ (r - 1) + 0 = r - 1
        /\ (r - 1) + 1 = r /\ (c - 1) + 1 = c /\ (r - 1 < n <=> r <= n)
    BY <1>1, Size
  <2>2. (r - 1) * VGA_WIDTH + c - 1 = Cell(r - 1, c - 1)
    <3>1. (r - 1) * VGA_WIDTH \in Int
      BY Size
    <3> QED BY <3>1, Size DEF Cell
  <2>3. mem[Cell(r - 1, c - 1)] = TextCell(text, r - 1, c - 1)
    BY <1>1, <2>1 DEF ShowsFrom
  <2> QED BY <2>1, <2>2, <2>3 DEF TextCell
<1>3. \A r \in 1 .. n : Screen[r] = text[r] /\ r \in 1 .. VGA_HEIGHT
  <2> SUFFICES ASSUME NEW r \in 1 .. n PROVE Screen[r] = text[r] /\ r \in 1 .. VGA_HEIGHT
    OBVIOUS
  <2>1. r \in 1 .. VGA_HEIGHT /\ r <= n
    BY <1>1
  <2>2. text[r] \in [1 .. VGA_WIDTH -> Chars]
    BY <1>1 DEF Line
  <2>3. text[r] = [c \in 1 .. VGA_WIDTH |-> text[r][c]]
    BY <2>2
  <2>4. Screen[r] = [c \in 1 .. VGA_WIDTH |-> mem[(r - 1) * VGA_WIDTH + c - 1]]
    BY <2>1 DEF Screen
  <2> HIDE DEF n
  <2>5. \A c \in 1 .. VGA_WIDTH : mem[(r - 1) * VGA_WIDTH + c - 1] = text[r][c]
    BY <1>2, <2>1
  <2>6. Screen[r] = [c \in 1 .. VGA_WIDTH |-> text[r][c]]
    BY <2>4, <2>5
  <2> QED BY <2>1, <2>3, <2>6
<1>4. \A r \in n + 1 .. VGA_HEIGHT : Screen[r] = BlankLine
  <2> SUFFICES ASSUME NEW r \in n + 1 .. VGA_HEIGHT PROVE Screen[r] = BlankLine
    OBVIOUS
  <2>1. r \in 1 .. VGA_HEIGHT /\ ~(r <= n)
    BY <1>1
  <2>2. Screen[r] = [c \in 1 .. VGA_WIDTH |-> mem[(r - 1) * VGA_WIDTH + c - 1]]
    BY <2>1 DEF Screen
  <2> HIDE DEF n
  <2>3. \A c \in 1 .. VGA_WIDTH : mem[(r - 1) * VGA_WIDTH + c - 1] = Blank
    BY <1>2, <2>1
  <2> QED BY <2>2, <2>3 DEF BlankLine
<1>5. SubSeq(Screen, 1, n) = text
  <2>1. SubSeq(Screen, 1, n) = [i \in 1 .. n |-> Screen[i]]
    BY <1>1
  <2>2. text = [i \in 1 .. n |-> text[i]]
    BY <1>1
  <2> HIDE DEF n
  <2>3. [i \in 1 .. n |-> Screen[i]] = [i \in 1 .. n |-> text[i]]
    BY <1>3
  <2> QED BY <2>1, <2>2, <2>3
<1> QED BY <1>4, <1>5

\* Between two characters the screen shows the last lines of everything that
\* was printed, for every size of the screen and all strings, with a handler
\* printing wherever it does not cut into a character.
THEOREM ScreenAlwaysShowsText == Spec => []ScreenShowsText
<1>1. IInv => ScreenShowsText
  <2> SUFFICES ASSUME IInv, torn = FALSE, Between
               PROVE  /\ curs_row = Len(text) - 1 /\ curs_col = column
                      /\ SubSeq(Screen, 1, Len(text)) = text
                      /\ \A r \in Len(text) + 1 .. VGA_HEIGHT : Screen[r] = BlankLine
    BY DEF ScreenShowsText, IInv
  <2>1. Untorn
    BY DEF IInv
  <2>2. Settled
    BY <2>1, BetweenSettled
  <2> QED BY <2>1, <2>2, SettledShows DEF Untorn, Settled, OnLastLine
<1> QED BY <1>1, Invariance, PTL

\* When nobody prints, the cursor in hardware is where the next character goes;
\* a handler that has cut into the main program's move_vga_cursor, at any of its
\* port writes, leaves at worst the main program's place or its high half with
\* the low half of the true one, until the next print.
THEOREM HardwareCursorFollows == Spec => []HardwareCursor
<1>1. ASSUME IInv PROVE HardwareCursor
  <2> SUFFICES ASSUME ~torn, \A t \in Threads : pc[t] = "idle"
               PROVE  IF overtaken
                      THEN crtc.hi = High(at["main"]) /\ crtc.lo \in {Low(at["main"]), Low(cursor)}
                      ELSE crtc.hi * Byte + crtc.lo = curs_row * VGA_WIDTH + curs_col
    BY DEF HardwareCursor
  <2>1. Typed /\ Left
    BY <1>1 DEF IInv, Untorn
  <2>2. CASE overtaken
    BY <2>1, <2>2 DEF Left
  <2>3. CASE ~overtaken
    <3>1. crtc.lo = Low(cursor) /\ crtc.hi = High(cursor)
      BY <2>1, <2>3 DEF Left
    <3>2. curs_row \in 0 .. VGA_HEIGHT - 1 /\ curs_col \in Columns /\ cursor = <<curs_row, curs_col>>
      BY <2>1 DEF Typed, cursor
    <3>3. High(cursor) * Byte + Low(cursor) = curs_row * VGA_WIDTH + curs_col
      BY <3>2, HalvesMake
    <3> QED BY <2>3, <3>1, <3>3
  <2> QED BY <2>2, <2>3
<1> QED BY <1>1, Invariance, PTL
=============================================================================

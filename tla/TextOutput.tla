----------------------------- MODULE TextOutput -----------------------------
(***************************************************************************)
(* drivers/display/print.c: print_string, which the main program and the   *)
(* interrupt handlers (idt_common_isr) share with its cursor. A handler    *)
(* runs to its end once it has started, but starts between any two steps   *)
(* of the main program. The reference is the text as a list of lines.      *)
(***************************************************************************)
EXTENDS Integers, Sequences

CONSTANTS
  VGA_WIDTH, VGA_HEIGHT,   \* 80, 25
  Byte,                    \* 256: uint8_t wraps here, uint16_t at its square
  MainStrings, IsrStrings  \* what the two print

Threads == {"main", "isr"}
NewLine == "nl"
Blank == " "

ASSUME ScreenAssumption ==
  /\ Byte \in Nat /\ VGA_WIDTH \in 2 .. Byte - 1 /\ VGA_HEIGHT \in 2 .. Byte - 1
  /\ MainStrings \cup IsrStrings \subseteq Seq(STRING)

VARIABLES
  mem,                  \* the cells of video memory, the screen comes first
  curs_row, curs_col,
  crtc,                 \* the cursor in hardware: [index, lo, hi]
  pc, string, at,       \* of each thread: its point in print_string, what is
                        \* left to print, and the place it has computed
  text, column,         \* reference: the last lines of the text, and the
                        \* column where it goes on
  torn,                 \* history: a handler cut into the main program's
                        \* handling of a character
  overtaken             \* history: the last to print was a handler that cut
                        \* into move_vga_cursor, or the main program after it

vars == <<mem, curs_row, curs_col, crtc, pc, string, at, text, column, torn, overtaken>>
cursor == <<curs_row, curs_col>>
reference == <<text, column>>
history == <<torn, overtaken>>

\* screen_scroll moves and clears within twice the height of the screen.
Cells == 0 .. 2 * VGA_HEIGHT * VGA_WIDTH - 1
BlankLine == [c \in 1 .. VGA_WIDTH |-> Blank]

\* The cell of a place <<row, column>>; the chip has it as a uint16_t in halves.
CellAt(place) == place[1] * VGA_WIDTH + place[2]
Low(place) == (CellAt(place) % (Byte * Byte)) % Byte
High(place) == (CellAt(place) % (Byte * Byte)) \div Byte

-----------------------------------------------------------------------------
(* The reference                                                           *)

KeepLast(t) == IF Len(t) > VGA_HEIGHT THEN Tail(t) ELSE t
TextNewLine == text' = KeepLast(Append(text, BlankLine)) /\ column' = 0
TextPut(ch) ==
  LET line == [text EXCEPT ![Len(text)][column + 1] = ch]
  IN  IF column + 1 = VGA_WIDTH
      THEN text' = KeepLast(Append(line, BlankLine)) /\ column' = 0
      ELSE text' = line /\ column' = column + 1

-----------------------------------------------------------------------------
\* get_vga_cursor takes over where the BIOS stopped; above the cursor is text
\* of the BIOS, below it and behind the screen nothing.
Init ==
  /\ curs_row \in 0 .. VGA_HEIGHT - 1 /\ curs_col \in 0 .. VGA_WIDTH - 1
  /\ mem = [c \in Cells |->
              IF c < CellAt(cursor) THEN "bios" ELSE Blank]
  /\ crtc = [index |-> "hi", lo |-> Low(cursor), hi |-> High(cursor)]
  /\ text = [r \in 1 .. curs_row + 1 |-> [c \in 1 .. VGA_WIDTH |->
               mem[(r - 1) * VGA_WIDTH + c - 1]]]
  /\ column = curs_col
  /\ pc = [t \in Threads |-> IF t = "main" THEN "loop" ELSE "idle"]
  /\ string = [t \in Threads |-> IF t = "main" THEN <<NewLine>> ELSE <<>>]
  /\ at = [t \in Threads |-> <<0, 0>>] /\ torn = FALSE /\ overtaken = FALSE

\* The main program runs while no handler does.
Runs(t, point) == pc[t] = point /\ (t = "main" => pc["isr"] = "idle")
Goto(t, point) == pc' = [pc EXCEPT ![t] = point]

MainPrints(s) ==
  /\ Runs("main", "idle") /\ Goto("main", "loop")
  /\ string' = [string EXCEPT !["main"] = s]
  /\ UNCHANGED <<mem, cursor, crtc, at, reference, history>>

\* The points of move_vga_cursor, which has its place and writes no cell.
Moving == {"index_lo", "data_lo", "index_hi", "data_hi"}

IsrPrints(s) ==
  /\ pc["isr"] = "idle" /\ Goto("isr", "loop")
  /\ string' = [string EXCEPT !["isr"] = s]
  /\ torn' = (torn \/ pc["main"] \notin {"idle", "loop"} \cup Moving)
  /\ overtaken' = (pc["main"] \in Moving)
  /\ UNCHANGED <<mem, cursor, crtc, at, reference>>

\* The place of the next character is computed before it is looked at.
FetchChar(t) ==
  /\ Runs(t, "loop") /\ string[t] # <<>> /\ Head(string[t]) # NewLine
  /\ at' = [at EXCEPT ![t] = cursor] /\ Goto(t, "put")
  /\ UNCHANGED <<mem, cursor, crtc, string, reference, history>>

FetchNewLine(t) ==
  /\ Runs(t, "loop") /\ string[t] # <<>> /\ Head(string[t]) = NewLine
  /\ string' = [string EXCEPT ![t] = Tail(@)] /\ Goto(t, "newline")
  /\ TextNewLine
  /\ UNCHANGED <<mem, cursor, crtc, at, history>>

PutChar(t) ==
  /\ Runs(t, "put") /\ Goto(t, "advance")
  /\ mem' = [c \in Cells |-> IF c = CellAt(at[t]) THEN Head(string[t]) ELSE mem[c]]
  /\ string' = [string EXCEPT ![t] = Tail(@)]
  /\ TextPut(Head(string[t]))
  /\ UNCHANGED <<cursor, crtc, at, history>>

\* A slip: the last column is taken for one past the line.
TestColumn_late(t) ==
  /\ Runs(t, "advance")
  /\ Goto(t, IF curs_col = VGA_WIDTH THEN "newline" ELSE "column")
  /\ UNCHANGED <<mem, cursor, crtc, string, at, reference, history>>

\* advance_cursor: the test and the step.
TestColumn(t) ==
  /\ Runs(t, "advance")
  /\ Goto(t, IF curs_col + 1 = VGA_WIDTH THEN "newline" ELSE "column")
  /\ UNCHANGED <<mem, cursor, crtc, string, at, reference, history>>

NextColumn(t) ==
  /\ Runs(t, "column") /\ Goto(t, "loop")
  /\ curs_col' = curs_col + 1
  /\ UNCHANGED <<mem, curs_row, crtc, string, at, reference, history>>

\* advance_cursor_newline
TestRow(t) ==
  /\ Runs(t, "newline")
  /\ Goto(t, IF curs_row + 1 = VGA_HEIGHT THEN "scroll" ELSE "row")
  /\ UNCHANGED <<mem, cursor, crtc, string, at, reference, history>>

\* A slip: the last line of the screen is not replaced.
screen_scroll_short(t) ==
  /\ Runs(t, "scroll") /\ Goto(t, "return")
  /\ mem' = [c \in Cells |-> IF c < (VGA_HEIGHT - 1) * VGA_WIDTH
                             THEN mem[c + VGA_WIDTH] ELSE mem[c]]
  /\ UNCHANGED <<cursor, crtc, string, at, reference, history>>

\* A handler inside the copy is one before or after it: both tear.
screen_scroll(t) ==
  /\ Runs(t, "scroll") /\ Goto(t, "return")
  /\ mem' = [c \in Cells |-> IF c + VGA_WIDTH \in Cells
                             THEN mem[c + VGA_WIDTH] ELSE Blank]
  /\ UNCHANGED <<cursor, crtc, string, at, reference, history>>

NextRow(t) ==
  /\ Runs(t, "row") /\ Goto(t, "return")
  /\ curs_row' = curs_row + 1
  /\ UNCHANGED <<mem, curs_col, crtc, string, at, reference, history>>

CarriageReturn(t) ==
  /\ Runs(t, "return") /\ Goto(t, "loop")
  /\ curs_col' = 0
  /\ UNCHANGED <<mem, curs_row, crtc, string, at, reference, history>>

\* A slip: only the main program moves the cursor in hardware.
MoveCursor_main(t) ==
  /\ Runs(t, "loop") /\ string[t] = <<>>
  /\ at' = [at EXCEPT ![t] = cursor] /\ Goto(t, IF t = "main" THEN "index_lo" ELSE "idle")
  /\ overtaken' = (overtaken /\ t = "isr")
  /\ UNCHANGED <<mem, cursor, crtc, string, reference, torn>>

\* move_vga_cursor gets the cursor by value and writes one half after the other.
MoveCursor(t) ==
  /\ Runs(t, "loop") /\ string[t] = <<>>
  /\ at' = [at EXCEPT ![t] = cursor] /\ Goto(t, "index_lo")
  /\ overtaken' = (overtaken /\ t = "isr")
  /\ UNCHANGED <<mem, cursor, crtc, string, reference, torn>>

SelectHalf(t, half, point, then) ==
  /\ Runs(t, point) /\ Goto(t, then)
  /\ crtc' = [crtc EXCEPT !.index = half]
  /\ UNCHANGED <<mem, cursor, string, at, reference, history>>

\* The data goes to the half the index register names.
WriteHalf(t, data, point, then) ==
  /\ Runs(t, point) /\ Goto(t, then)
  /\ crtc' = IF crtc.index = "lo" THEN [crtc EXCEPT !.lo = data]
                                  ELSE [crtc EXCEPT !.hi = data]
  /\ UNCHANGED <<mem, cursor, string, at, reference, history>>

Step(t) ==
  \/ FetchChar(t) \/ FetchNewLine(t) \/ PutChar(t)
  \/ TestColumn(t) \/ NextColumn(t)
  \/ TestRow(t) \/ screen_scroll(t) \/ NextRow(t) \/ CarriageReturn(t)
  \/ MoveCursor(t)
  \/ SelectHalf(t, "lo", "index_lo", "data_lo") \/ WriteHalf(t, Low(at[t]), "data_lo", "index_hi")
  \/ SelectHalf(t, "hi", "index_hi", "data_hi") \/ WriteHalf(t, High(at[t]), "data_hi", "idle")

Next ==
  \/ \E s \in MainStrings : MainPrints(s)
  \/ \E s \in IsrStrings : IsrPrints(s)
  \/ \E t \in Threads : Step(t)

Spec == Init /\ [][Next]_vars

-----------------------------------------------------------------------------
Points == {"idle", "loop", "put", "advance", "column", "newline", "scroll", "row",
           "return", "index_lo", "data_lo", "index_hi", "data_hi"}

\* The cursor is on the screen, the reference within its lines.
TypeOK ==
  /\ curs_row \in 0 .. VGA_HEIGHT - 1 /\ curs_col \in 0 .. VGA_WIDTH - 1
  /\ pc \in [Threads -> Points]
  /\ Len(text) \in 1 .. VGA_HEIGHT /\ column \in 0 .. VGA_WIDTH - 1
  /\ torn \in BOOLEAN /\ overtaken \in BOOLEAN

Screen == [r \in 1 .. VGA_HEIGHT |-> [c \in 1 .. VGA_WIDTH |->
             mem[(r - 1) * VGA_WIDTH + c - 1]]]

Between == \A t \in Threads : pc[t] \in {"idle", "loop"} \cup Moving

\* Between two characters the screen shows the last lines of everything that
\* was printed, whoever printed it, and the cursor stands behind it; only a
\* handler that cuts into the main program's handling of a character can break
\* this, one that cuts into move_vga_cursor cannot.
ScreenShowsText ==
  ~torn /\ Between =>
    /\ curs_row = Len(text) - 1 /\ curs_col = column
    /\ SubSeq(Screen, 1, Len(text)) = text
    /\ \A r \in Len(text) + 1 .. VGA_HEIGHT : Screen[r] = BlankLine

\* When nobody prints, the cursor in hardware is where the next character goes.
\* A handler that has cut into the main program's move_vga_cursor, at any of its
\* four port writes and however often, leaves the place the main program had, or
\* that place's high half with the low half of the true one; a half that went to
\* the wrong register does not stay there, and the next print puts it right. A
\* cut into a character voids the claim.
HardwareCursor ==
  ~torn /\ (\A t \in Threads : pc[t] = "idle") =>
    IF overtaken
    THEN /\ crtc.hi = High(at["main"])
         /\ crtc.lo \in {Low(at["main"]), Low(cursor)}
    ELSE crtc.hi * Byte + crtc.lo = curs_row * VGA_WIDTH + curs_col
=============================================================================

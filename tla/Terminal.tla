------------------------------- MODULE Terminal -------------------------------
(***************************************************************************)
(* The terminal behind console::write: the parser of control sequences     *)
(* (console/term.c) and the grid of cells with its queue of changes        *)
(* (console/gterm.c).  A call of term_write hands over any number of       *)
(* characters and flushes; console_lock makes it one step for others, so   *)
(* only its own order matters.                                             *)
(*                                                                         *)
(* A character that is received changes the parser and the context and     *)
(* leaves in `todo` what its handler does to the grid, in the handler's    *)
(* order; nothing else is received before that is done.  Cells are named   *)
(* by the index y * cols + x, and the pixels of a cell by the character    *)
(* they were last plotted for.                                             *)
(*                                                                         *)
(* term.runtime is FALSE and there is no callback: CAN and SUB are         *)
(* printed, reports and bells do nothing.  Of the flags escape, csi,       *)
(* control_sequence, discard_next and g_select at most one stage is active *)
(* at a time (`phase`), and of escape_offset only 2 is ever asked for      *)
(* (`first`).  esc_values of a finished sequence are not read again.       *)
(***************************************************************************)
EXTENDS Naturals, Sequences

CONSTANTS Rows, Cols,
          TabSize,    \* TERM_TABSIZE
          MaxValues,  \* MAX_ESC_VALUES
          MaxValue,   \* bound: no larger number is received
          Word,       \* number of values of a size_t
          Chars       \* what is received: printable characters, and names of others

ASSUME TerminalAssumption ==
  /\ Rows \in Nat \ {0} /\ Cols \in Nat \ {0} /\ TabSize \in Nat \ {0}
  /\ MaxValues \in Nat \ {0} /\ MaxValue \in Nat
  /\ Word \in Nat /\ Word > 2 * (Rows * Cols + MaxValue)

VARIABLES grid, queue, map,   \* the cells, the changes, and each cell's change
          cursor, old,        \* the cursor, and where it was last drawn
          visible, scrolling, \* cursor_status and scroll_enabled
          shown,              \* the frame buffer, by cells
          attr,               \* bold, reverse_video, current_primary and the colours
          parser, mode, margins,
          kept, saved,        \* the cursor and state that sequences save
          todo,               \* what is left to do for the last character
          defined,            \* FALSE: memory outside the arrays was used
          plain,              \* history: attr, had reverse never been asked for
          strayed,            \* history: colours that a reset left exchanged
          narrowed            \* history: a line was once left below the margins

buffers == <<grid, queue, map>>
display == <<old, shown>>
context == <<visible, attr, plain, strayed, mode, margins, narrowed, kept, saved>>
vars == <<buffers, display, context, cursor, scrolling, parser, todo, defined>>

-----------------------------------------------------------------------------
(***************************************************************************)
(* Cells, characters and colours                                           *)
(***************************************************************************)
Size == Rows * Cols
Cells == 0 .. (Size - 1)
NoCell == Size

Cell(x, y) == IF x < Cols /\ y < Rows THEN y * Cols + x ELSE NoCell
CursorCell == Cell(cursor.x, cursor.y)
OldCell == Cell(old.x, old.y)

At(x, y) == [x |-> x, y |-> y]
Home == At(0, 0)

\* Subtraction of a size_t.
Minus(a, b) == IF a >= b THEN a - b ELSE Word - (b - a)

\* Glyphs and colours.  The DEC set has line drawings for some characters.
Glyph(c) == <<"ascii", c>>
LineDrawing == {"GRAVE", "0", "-", ",", ".", "a", "f", "g", "h", "j", "k", "l", "m", "n", "q",
                "s", "t", "u", "v", "w", "x", "y", "z", "~", "_", "+", "{", "}"}
Special(c) == IF c \in LineDrawing THEN <<"dec", c>> ELSE Glyph(c)

Ansi(n) == <<"ansi", n>>
Bright(n) == <<"bright", n>>
DefaultFg == <<"default", 0>>
DefaultBg == <<"default", 1>> \* 0xFFFFFFFF: the background image shows
NoColour == 8               \* current_primary = -1

Char(g, a) == [c |-> g, fg |-> a.fg, bg |-> a.bg]
DefaultAttr == [bold |-> FALSE, reverse |-> FALSE, primary |-> NoColour,
                fg |-> DefaultFg, bg |-> DefaultBg]
Blank == Char(Glyph(" "), DefaultAttr)
Inverted(ch) == [ch EXCEPT !.fg = ch.bg, !.bg = ch.fg]

\* What the cell has once the queue is flushed.
Content(i) == IF map[i] # 0 THEN queue[map[i]].ch ELSE grid[i]

Text == [i \in Cells |-> Content(i)]
TS == INSTANCE TextScreen WITH text <- Text, cursor <- CursorCell, Home <- 0

-----------------------------------------------------------------------------
(***************************************************************************)
(* The grid and its queue (gterm.c)                                        *)
(***************************************************************************)
\* Mutant for ArraysHold: the cell does not learn of its change.
MutPush(i, ch) ==
  /\ UNCHANGED <<grid, map>>
  /\ IF i \notin Cells \/ (map[i] = 0 /\ grid[i] = ch) THEN UNCHANGED queue
     ELSE queue' = Append(queue, [at |-> i, ch |-> ch])

\* push_to_queue: a cell that has changed already has its change replaced.
Push(i, ch) ==
  /\ UNCHANGED grid
  /\ IF i \notin Cells \/ (map[i] = 0 /\ grid[i] = ch) THEN UNCHANGED <<queue, map>>
     ELSE IF map[i] # 0
          THEN queue' = [queue EXCEPT ![map[i]].ch = ch] /\ UNCHANGED map
          ELSE /\ queue' = Append(queue, [at |-> i, ch |-> ch])
               /\ map' = [map EXCEPT ![i] = Len(queue) + 1]

\* Parts of handlers.
Put(g) == [op |-> "put", c |-> g]
Set(x, y) == [op |-> "set", x |-> x, y |-> y]
Copy(to, from) == [op |-> "copy", to |-> to, from |-> from]
Clear(i) == [op |-> "clear", at |-> i]
Graphics(v) == [op |-> "graphics", v |-> v]
EnableScroll == [op |-> "enable"]

\* The passes of a loop from a up to b, and of one over a line of the grid.
Span(a, b) == IF a < b THEN b - a ELSE 0
Line == 1 .. Cols

\* gterm_scroll and gterm_revscroll: of the lines between the margins.
Scroll == LET first == (margins.top + 1) * Cols
              last == margins.bottom * Cols
          IN  IF margins.bottom = 0 THEN <<>>
              ELSE [k \in 1 .. Span(first, last) |-> Copy(first + k - 1 - Cols, first + k - 1)]
                   \o [k \in Line |-> Clear(last - Cols + k - 1)]

RevScroll == LET first == margins.top * Cols
                 last == (margins.bottom - 1) * Cols
             IN  [k \in 1 .. Span(first, last) |-> Copy(last - k + Cols, last - k)]
                 \o [k \in Line |-> Clear(first + k - 1)]

Part(op) == /\ defined /\ todo # <<>> /\ Head(todo).op = op
            /\ UNCHANGED <<display, parser, defined>>
            /\ UNCHANGED <<visible, mode, margins, narrowed, kept, saved>>

\* Mutant for CursorOnGrid: the margin is compared before the line is changed.
MutPutChar ==
  /\ Part("put")
  /\ Push(CursorCell, Char(Head(todo).c, attr))
  /\ LET wraps == cursor.x + 1 = Cols /\ (cursor.y < Minus(margins.bottom, 1) \/ scrolling)
         x == IF wraps THEN 0 ELSE cursor.x + 1
         y == IF wraps THEN (cursor.y + 1) % Word ELSE cursor.y
     IN  IF cursor.y = margins.bottom
         THEN cursor' = At(x, Minus(y, 1)) /\ todo' = Scroll \o Tail(todo)
         ELSE cursor' = At(x, y) /\ todo' = Tail(todo)
  /\ UNCHANGED <<attr, plain, strayed, scrolling>>

\* gterm_putchar: at the end of a line it goes on in the next one, and below
\* the bottom margin it scrolls.
PutChar ==
  /\ Part("put")
  /\ Push(CursorCell, Char(Head(todo).c, attr))
  /\ LET wraps == cursor.x + 1 = Cols /\ (cursor.y < Minus(margins.bottom, 1) \/ scrolling)
         x == IF wraps THEN 0 ELSE cursor.x + 1
         y == IF wraps THEN (cursor.y + 1) % Word ELSE cursor.y
     IN  IF y = margins.bottom
         THEN cursor' = At(x, Minus(y, 1)) /\ todo' = Scroll \o Tail(todo)
         ELSE cursor' = At(x, y) /\ todo' = Tail(todo)
  /\ UNCHANGED <<attr, plain, strayed, scrolling>>

\* gterm_set_cursor_pos: a position beyond the grid is the last one, a
\* negative one the first.
Clamp(v, n) == IF v < n THEN v ELSE IF v >= Word \div 2 THEN 0 ELSE n - 1

SetCursorPos ==
  /\ Part("set")
  /\ cursor' = At(Clamp(Head(todo).x, Cols), Clamp(Head(todo).y, Rows))
  /\ todo' = Tail(todo)
  /\ UNCHANGED <<buffers, attr, plain, strayed, scrolling>>

\* gterm_move_character, and the loops that copy lines.
MoveCharacter ==
  /\ Part("copy")
  /\ LET h == Head(todo)
     IN  IF h.from \in Cells THEN Push(h.to, Content(h.from)) ELSE UNCHANGED buffers
  /\ todo' = Tail(todo)
  /\ UNCHANGED <<cursor, attr, plain, strayed, scrolling>>

\* gterm_clear, and the line that scrolling leaves empty.
ClearCell ==
  /\ Part("clear")
  /\ Push(Head(todo).at, Char(Glyph(" "), attr))
  /\ todo' = Tail(todo)
  /\ UNCHANGED <<cursor, attr, plain, strayed, scrolling>>

ScrollEnable ==
  /\ Part("enable")
  /\ scrolling' = TRUE
  /\ todo' = Tail(todo)
  /\ UNCHANGED <<buffers, cursor, attr, plain, strayed>>

\* term_sgr, for one value: with reversed colours, what is asked for the text
\* is its background's, and the other way round.
ForText(a, colour) == IF a.reverse THEN [a EXCEPT !.bg = colour] ELSE [a EXCEPT !.fg = colour]
\* Mutant for PaletteAgrees: the background is set without regard to reversing.
MutForBack(a, colour) == [a EXCEPT !.bg = colour]
ForBack(a, colour) == IF a.reverse THEN [a EXCEPT !.fg = colour] ELSE [a EXCEPT !.bg = colour]
Swapped(a) == [a EXCEPT !.fg = a.bg, !.bg = a.fg]
TextColour(a) == IF a.reverse THEN a.bg ELSE a.fg
BackColour(a) == IF a.reverse THEN a.fg ELSE a.bg

Sgr(a, v) ==
  LET set(first) == v \in first .. (first + 7)
      primary(n) == [a EXCEPT !.primary = n]
      bolder(b) == [a EXCEPT !.bold = b]
  IN  CASE v = 0 -> DefaultAttr
        [] v = 1 -> IF a.primary = NoColour THEN bolder(TRUE)
                    ELSE ForText(bolder(TRUE), Bright(a.primary))
        [] v = 22 -> IF a.primary = NoColour THEN bolder(FALSE)
                     ELSE ForText(bolder(FALSE), Ansi(a.primary))
        [] set(30) -> ForText(primary(v - 30), IF a.bold THEN Bright(v - 30) ELSE Ansi(v - 30))
        [] set(90) -> ForText(primary(v - 90), Bright(v - 90))
        [] set(40) -> ForBack(a, Ansi(v - 40))
        [] set(100) -> ForBack(a, Bright(v - 100))
        [] v = 39 -> ForText(primary(NoColour), DefaultFg)
        [] v = 49 -> ForBack(a, DefaultBg)
        [] v = 7 /\ ~a.reverse -> Swapped([a EXCEPT !.reverse = TRUE])
        [] v = 27 /\ a.reverse -> Swapped([a EXCEPT !.reverse = FALSE])
        [] OTHER -> a

\* The colours that a value sets.
BothColours == {"text", "back"}
SetsText(a, v) == \/ v \in {0, 39} \cup (30 .. 37) \cup (90 .. 97)
                  \/ v \in {1, 22} /\ a.primary # NoColour
SetsBack(v) == v \in {0, 49} \cup (40 .. 47) \cup (100 .. 107)
SetBy(a, v) == { k \in BothColours : IF k = "text" THEN SetsText(a, v) ELSE SetsBack(v) }

\* `plain` does not see what reverses.
SelectGraphic ==
  /\ Part("graphics")
  /\ LET v == Head(todo).v
     IN  /\ attr' = Sgr(attr, v)
         /\ plain' = IF v \in {7, 27} THEN plain ELSE Sgr(plain, v)
         /\ strayed' = strayed \ SetBy(plain, v)
  /\ todo' = Tail(todo)
  /\ UNCHANGED <<buffers, cursor, scrolling>>

\* plot_char_fast leaves the pixels alone in which the glyphs agree: it is
\* right only if the cell shows `was`.
Mixed == [c |-> <<"mixed", "">>, fg |-> DefaultFg, bg |-> DefaultBg]
Plotted(pixels, was, ch) ==
  IF was.fg # ch.fg \/ was.bg # ch.bg THEN ch
  ELSE IF was.c = ch.c THEN pixels
  ELSE IF pixels = was THEN ch ELSE Mixed

\* Mutant for ImplementsTextScreen: a cursor that is hidden stays on the screen.
MutFlush ==
  /\ defined /\ todo = <<>>
  /\ visible => CursorCell \in Cells
  /\ grid' = Text
  /\ shown' = [i \in Cells |->
       IF visible /\ i = CursorCell THEN Inverted(Content(i))
       ELSE IF i = OldCell /\ old # cursor THEN Content(i)
       ELSE IF map[i] # 0 THEN Plotted(shown[i], grid[i], Content(i)) ELSE shown[i]]
  /\ queue' = <<>> /\ map' = [i \in Cells |-> 0]
  /\ old' = cursor
  /\ UNCHANGED <<context, cursor, scrolling, parser, todo, defined>>

\* gterm_double_buffer_flush, which ends term_write: the cursor's cell is
\* drawn first, then the changes are plotted, then the cell it was in.
Flush ==
  /\ defined /\ todo = <<>>
  /\ visible => CursorCell \in Cells
  /\ grid' = Text
  /\ shown' = [i \in Cells |->
       IF visible /\ i = CursorCell THEN Inverted(Content(i))
       ELSE IF i = OldCell /\ (old # cursor \/ ~visible) THEN Content(i)
       ELSE IF map[i] # 0 THEN Plotted(shown[i], grid[i], Content(i)) ELSE shown[i]]
  /\ queue' = <<>> /\ map' = [i \in Cells |-> 0]
  /\ old' = cursor
  /\ UNCHANGED <<context, cursor, scrolling, parser, todo, defined>>

\* draw_cursor reads behind the map and the grid if the cursor is off the grid.
FlushAstray ==
  /\ defined /\ todo = <<>>
  /\ visible /\ CursorCell \notin Cells
  /\ defined' = FALSE
  /\ UNCHANGED <<buffers, display, context, cursor, scrolling, parser, todo>>

-----------------------------------------------------------------------------
(***************************************************************************)
(* Characters outside of sequences (term_putchar).  NUL, DEL and BEL do    *)
(* nothing and are left out.                                               *)
(***************************************************************************)
Idle == [phase |-> "ground", first |-> FALSE, rrr |-> FALSE, private |-> FALSE,
         values |-> [k \in 1 .. MaxValues |-> 0], n |-> 0]

\* Abstraction: once the cursor has left the grid, the characters that follow
\* in the same write are not followed.
Receives(phase) == /\ defined /\ todo = <<>> /\ parser.phase = phase
                   /\ CursorCell \in Cells
                   /\ UNCHANGED <<buffers, display>>

\* Most characters change only some of the context.
Keep(rest) == UNCHANGED <<visible, attr, plain, strayed, narrowed, kept, saved>> /\ UNCHANGED rest

\* The next line, by scrolling if need be.
NextLine(x) == IF cursor.y = Minus(margins.bottom, 1) THEN Append(Scroll, Set(x, cursor.y))
               ELSE <<Set(x, cursor.y + 1)>>

Simple == {"TAB", "LF", "BS", "CR"}
Movement(c) ==
  LET x == cursor.x
      y == cursor.y
      stop == x \div TabSize + 1
  IN  CASE c = "TAB" -> <<Set(IF stop >= Cols THEN Cols - 1 ELSE stop * TabSize, y)>>
        [] c = "LF" -> NextLine(0)
        [] c = "BS" -> <<Set(Minus(x, 1), y)>>
        [] c = "CR" -> <<Set(0, y)>>

Move(c) ==
  /\ Receives("ground") /\ c \in Simple
  /\ todo' = Movement(c)
  /\ UNCHANGED <<context, cursor, scrolling, parser, defined>>

Shift(c) ==
  /\ Receives("ground") /\ c \in {"SO", "SI"}
  /\ mode' = [mode EXCEPT !.current = IF c = "SO" THEN 1 ELSE 0]
  /\ Keep(<<margins, cursor, scrolling, parser, todo, defined>>)

Introduce(c) ==
  /\ Receives("ground") /\ c \in {"ESC", "CSI"}
  /\ parser' = [Idle EXCEPT !.phase = IF c = "ESC" THEN "escape" ELSE "csi"]
  /\ UNCHANGED <<context, cursor, scrolling, todo, defined>>

\* In insert mode the rest of the line moves to the right.
Show(c) ==
  /\ Receives("ground") /\ c \notin Simple \cup {"SO", "SI", "ESC", "CSI"}
  /\ LET y == cursor.y
         shift == [k \in 1 .. Span(cursor.x, Cols) |->
                     Copy(Cell(Cols - k + 1, y), Cell(Cols - k, y))]
         glyph == IF mode.sets[mode.current] = "dec" THEN Special(c) ELSE Glyph(c)
     IN  todo' = Append(IF mode.insert THEN shift ELSE <<>>, Put(glyph))
  /\ UNCHANGED <<context, cursor, scrolling, parser, defined>>

\* Any other character ends what an earlier one began.
Ends(phase) == Receives(phase) /\ parser' = Idle

\* The character after ESC [[ is discarded, the one after ESC ( selects G0's
\* character set and the one after ESC ) G1's.
Discard(c) ==
  /\ Ends("discard")
  /\ UNCHANGED <<context, cursor, scrolling, todo, defined>>

SelectCharset(c) ==
  \E g \in {0, 1} :
    /\ Ends(IF g = 0 THEN "(" ELSE ")")
    /\ mode' = IF c \in {"B", "0"}
               THEN [mode EXCEPT !.sets[g] = IF c = "0" THEN "dec" ELSE "default"] ELSE mode
    /\ Keep(<<margins, cursor, scrolling, todo, defined>>)

-----------------------------------------------------------------------------
(***************************************************************************)
(* Escape sequences (term_escape_parse)                                    *)
(***************************************************************************)
\* ESC [ begins a control sequence, and so does any character after CSI.
Begin(c) ==
  /\ Receives("csi") \/ (Receives("escape") /\ c = "[")
  /\ parser' = [Idle EXCEPT !.phase = "control", !.first = TRUE]
  /\ UNCHANGED <<context, cursor, scrolling, todo, defined>>

SelectSet(c) ==
  /\ Receives("escape") /\ c \in {"(", ")"}
  /\ parser' = [Idle EXCEPT !.phase = c]
  /\ UNCHANGED <<context, cursor, scrolling, todo, defined>>

SaveState(c) ==
  /\ Ends("escape") /\ c = "7"
  /\ saved' = [cursor |-> cursor, attr |-> attr, plain |-> plain, strayed |-> strayed,
               current |-> mode.current]
  /\ UNCHANGED <<visible, attr, plain, strayed, mode, margins, narrowed, kept>>
  /\ UNCHANGED <<cursor, scrolling, todo, defined>>

RestoreState(c) ==
  /\ Ends("escape") /\ c = "8"
  /\ cursor' = saved.cursor /\ attr' = saved.attr
  /\ plain' = saved.plain /\ strayed' = saved.strayed
  /\ mode' = [mode EXCEPT !.current = saved.current]
  /\ UNCHANGED <<visible, margins, narrowed, kept, saved, scrolling, todo, defined>>

\* term_reinit: what ESC 7 saved stays, and the colours do, which are the
\* exchanged ones if they were reversed; reverse_video says that they are not.
DefaultMode == [insert |-> FALSE, current |-> 0,
                sets |-> [g \in {0, 1} |-> IF g = 0 THEN "default" ELSE "dec"]]
FullMargins == [top |-> 0, bottom |-> Rows]
ClearAll == [k \in 1 .. Size |-> Clear(k - 1)]

Reset(c) ==
  /\ Ends("escape") /\ c = "c"
  /\ attr' = [attr EXCEPT !.bold = FALSE, !.reverse = FALSE, !.primary = NoColour]
  /\ plain' = [plain EXCEPT !.bold = FALSE, !.primary = NoColour]
  /\ strayed' = IF attr.reverse THEN BothColours ELSE strayed
  /\ mode' = DefaultMode /\ margins' = FullMargins /\ kept' = Home
  /\ todo' = Append(ClearAll, Set(0, 0))
  /\ UNCHANGED <<visible, narrowed, saved, cursor, scrolling, defined>>

\* With a bottom margin of 0, gterm_revscroll does not end.
Lines == {"D", "E", "M", "ESC"}
EscapeLine(c) ==
  /\ Ends("escape") /\ c \in Lines
  /\ LET atTop == cursor.y = margins.top
     IN  /\ defined' = ~(c = "M" /\ atTop /\ margins.bottom = 0)
         /\ todo' = CASE c = "D" -> NextLine(cursor.x)
                      [] c = "E" -> NextLine(0)
                      [] c = "M" -> IF ~atTop THEN <<Set(0, Minus(cursor.y, 1))>>
                                    ELSE IF margins.bottom = 0 THEN <<>>
                                    ELSE Append(RevScroll, Set(0, cursor.y))
                      [] c = "ESC" -> <<Put(Glyph(c))>>
  /\ UNCHANGED <<context, cursor, scrolling>>

EscapeOther(c) ==
  /\ Ends("escape") /\ c \notin {"[", "(", ")", "7", "8", "c"} \cup Lines
  /\ UNCHANGED <<context, cursor, scrolling, todo, defined>>

-----------------------------------------------------------------------------
(***************************************************************************)
(* Control sequences (term_control_sequence_parse)                         *)
(***************************************************************************)
Digits == <<"0", "1", "2", "3", "4", "5", "6", "7", "8", "9">>
Digit == { Digits[k] : k \in DOMAIN Digits }
Number(c) == (CHOOSE k \in DOMAIN Digits : Digits[k] = c) - 1

\* Numbers separated by semicolons; those beyond the last of the array are
\* ignored.
Parses(c) ==
  \/ /\ parser.first /\ c = "["
     /\ parser' = [Idle EXCEPT !.phase = "discard"]
  \/ /\ parser.first /\ c = "?"
     /\ parser' = [parser EXCEPT !.first = FALSE, !.private = TRUE]
  \/ /\ c \in Digit /\ parser.n # MaxValues
     /\ LET v == parser.values[parser.n + 1] * 10 + Number(c)
        IN  /\ v <= MaxValue
            /\ parser' = [parser EXCEPT !.first = FALSE, !.rrr = TRUE, !.values[parser.n + 1] = v]
  \/ /\ c = ";" /\ parser.rrr
     /\ parser' = [parser EXCEPT !.first = FALSE, !.rrr = FALSE, !.n = @ + 1]
  \/ /\ c = ";" /\ ~parser.rrr /\ parser.n # MaxValues
     /\ parser' = [parser EXCEPT !.first = FALSE, !.values[parser.n + 1] = 0, !.n = @ + 1]
  \/ /\ c \in Digit \cup {";"} /\ ~parser.rrr /\ parser.n = MaxValues
     /\ parser' = [parser EXCEPT !.first = FALSE]

Parse(c) ==
  /\ Receives("control") /\ Parses(c)
  /\ UNCHANGED <<context, cursor, scrolling, todo, defined>>

\* The other characters end the sequence, with `count` values; those that
\* are missing have a default.
Final(c) == ~(parser.first /\ c \in {"[", "?"}) /\ c \notin Digit \cup {";"}
count == IF parser.rrr THEN parser.n + 1 ELSE parser.n
Value(c, k) == IF k <= count THEN parser.values[k]
               ELSE IF c \in {"J", "K", "q"} THEN 0 ELSE 1

\* ESC [ ? 25 h and l show and hide the cursor (term_dec_private_parse).
DecPrivate(c) ==
  /\ Ends("control") /\ parser.private /\ Final(c)
  /\ visible' = IF count # 0 /\ Value(c, 1) = 25 /\ c \in {"h", "l"} THEN c = "h" ELSE visible
  /\ UNCHANGED <<attr, plain, strayed, mode, margins, narrowed, kept, saved>>
  /\ UNCHANGED <<cursor, scrolling, todo, defined>>

\* All others run with scrolling disabled.
Finishes(c) == /\ Ends("control") /\ ~parser.private /\ Final(c)
               /\ scrolling' = FALSE
               /\ UNCHANGED <<attr, plain, strayed, cursor, saved, visible, defined>>

Lesser(a, b) == IF a < b THEN a ELSE b

\* Up and down, stopping at a margin that is crossed.
Crosses(margin, from, to) == from <= margin /\ margin <= to
Up(n) == LET y == cursor.y - Lesser(n, cursor.y)
         IN  IF /\ Crosses(margins.top, y, cursor.y) \/ Crosses(margins.bottom, y, cursor.y)
                /\ y < margins.top
             THEN margins.top ELSE y
Down(n) == LET y == cursor.y + Lesser(n, Rows - 1 - cursor.y)
           IN  IF /\ Crosses(margins.top, cursor.y, y) \/ Crosses(margins.bottom, cursor.y, y)
                  /\ y >= margins.bottom
               THEN Minus(margins.bottom, 1) ELSE y

\* A line or column that is received counts from 1.
Place(v, n) == Lesser(Minus(v, 1), n - 1)

Moves == {"A", "F", "B", "e", "E", "C", "a", "D", "d", "G", "GRAVE", "H", "f", "u"}
Position(c) ==
  LET x == cursor.x
      y == cursor.y
      n == Value(c, 1)
  IN  CASE c \in {"A", "F"} -> Set(IF c = "F" THEN 0 ELSE x, Up(n))
        [] c \in {"B", "e", "E"} -> Set(IF c = "E" THEN 0 ELSE x, Down(n))
        [] c \in {"C", "a"} -> Set(x + Lesser(n, Cols - 1 - x), y)
        [] c = "D" -> Set(x - Lesser(n, x), y)
        [] c = "d" -> Set(x, Place(n, Rows))
        [] c \in {"G", "GRAVE"} -> Set(Place(n, Cols), y)
        [] c \in {"H", "f"} -> Set(Place(Value(c, 2), Cols), Place(n, Rows))
        [] c = "u" -> Set(kept.x, kept.y)

MoveTo(c) ==
  /\ Finishes(c) /\ c \in Moves
  /\ todo' = <<Position(c), EnableScroll>>
  /\ UNCHANGED <<mode, margins, narrowed, kept>>

\* J, K, X, P and @: spaces are written and cells are moved.
Spaces(n) == [k \in 1 .. n |-> Put(Glyph(" "))]
Erases == {"J", "K", "X", "P", "@"}
Erasure(c) ==
  LET x == cursor.x
      y == cursor.y
      n == Value(c, 1)
      back == Set(x, y)
      toEnd == (Rows - (y + 1)) * Cols + (Cols - (x + 1))
      left == [k \in 1 .. Span(x + n, Cols) |-> Copy(Cell(x + k - 1, y), Cell(x + n + k - 1, y))]
      right(i) == <<Copy(Cell(i + n, y), Cell(i, y)), Set(i, y), Put(Glyph(" "))>>
      shift == [k \in 1 .. 3 * Span(x, Cols) |->
                  right(Cols - 1 - ((k - 1) \div 3))[((k - 1) % 3) + 1]]
  IN  CASE c = "J" /\ n = 0 -> Append(Spaces(toEnd), back)
        [] c = "J" /\ n = 1 -> <<Set(0, 0)>> \o Append(Spaces(y * Cols + x + 1), back)
        [] c = "J" /\ n \in {2, 3} -> ClearAll
        [] c = "K" /\ n = 0 -> Append(Spaces(Span(x, Cols)), back)
        [] c = "K" /\ n = 1 -> <<Set(0, y)>> \o Spaces(x)
        [] c = "K" /\ n = 2 -> <<Set(0, y)>> \o Append(Spaces(Cols), back)
        [] c = "X" -> Append(Spaces(n), back)
        [] c = "P" -> left \o <<Set(Minus(Cols, n), y)>> \o Append(Spaces(n), back)
        [] c = "@" -> Append(shift, back)
        [] OTHER -> <<>>

Erase(c) ==
  /\ Finishes(c) /\ c \in Erases
  /\ todo' = Append(Erasure(c), EnableScroll)
  /\ UNCHANGED <<mode, margins, narrowed, kept>>

\* m: each value is applied (term_sgr).
SelectGraphics(c) ==
  /\ Finishes(c) /\ c = "m"
  /\ todo' = Append(IF count = 0 THEN <<Graphics(0)>>
                    ELSE [k \in 1 .. count |-> Graphics(parser.values[k])], EnableScroll)
  /\ UNCHANGED <<mode, margins, narrowed, kept>>

\* r: a region that is not accepted is the whole grid.
SetMargins(c) ==
  /\ Finishes(c) /\ c = "r"
  /\ LET top == IF count > 0 THEN Minus(Value(c, 1), 1) ELSE 0
         bottom == IF count > 1 THEN Value(c, 2) ELSE Rows
     IN  margins' = IF top >= Rows \/ bottom > Rows \/ top >= Minus(bottom, 1)
                    THEN FullMargins ELSE [top |-> top, bottom |-> bottom]
  /\ narrowed' = (narrowed \/ margins'.bottom < Rows)
  /\ todo' = <<Set(0, 0), EnableScroll>>
  /\ UNCHANGED <<mode, kept>>

\* s keeps the cursor; 4h and 4l switch insertion; the rest is a callback's.
SetMode(c) ==
  /\ Finishes(c) /\ c \notin Moves \cup Erases \cup {"m", "r"}
  /\ kept' = IF c = "s" THEN cursor ELSE kept
  /\ mode' = IF c \in {"h", "l"} /\ count # 0 /\ Value(c, 1) = 4
             THEN [mode EXCEPT !.insert = c = "h"] ELSE mode
  /\ todo' = <<EnableScroll>>
  /\ UNCHANGED <<margins, narrowed>>

-----------------------------------------------------------------------------
\* After term_vbe: gterm_init clears the grid and flushes.  The state that
\* ESC 8 restores is zero until ESC 7.
Init ==
  /\ grid = [i \in Cells |-> Blank] /\ queue = <<>> /\ map = [i \in Cells |-> 0]
  /\ cursor = Home /\ old = Home /\ visible = TRUE /\ scrolling = TRUE
  /\ shown = [i \in Cells |-> IF i = 0 THEN Inverted(Blank) ELSE Blank]
  /\ attr = DefaultAttr /\ plain = DefaultAttr /\ strayed = {}
  /\ parser = Idle /\ mode = DefaultMode /\ margins = FullMargins /\ kept = Home
  /\ LET zero == [bold |-> FALSE, reverse |-> FALSE, primary |-> 0, fg |-> Ansi(0), bg |-> Ansi(0)]
     IN  saved = [cursor |-> Home, attr |-> zero, plain |-> zero, strayed |-> {}, current |-> 0]
  /\ todo = <<>> /\ defined = TRUE /\ narrowed = FALSE

Receive(c) ==
  \/ Move(c) \/ Shift(c) \/ Introduce(c) \/ Show(c) \/ Discard(c) \/ SelectCharset(c)
  \/ Begin(c) \/ SelectSet(c) \/ SaveState(c) \/ RestoreState(c) \/ Reset(c)
  \/ EscapeLine(c) \/ EscapeOther(c)
  \/ Parse(c) \/ DecPrivate(c) \/ MoveTo(c) \/ Erase(c) \/ SelectGraphics(c)
  \/ SetMargins(c) \/ SetMode(c)

Perform == PutChar \/ SetCursorPos \/ MoveCharacter \/ ClearCell \/ SelectGraphic \/ ScrollEnable

Next == (\E c \in Chars : Receive(c)) \/ Perform \/ Flush \/ FlushAstray

Spec == Init /\ [][Next]_vars

-----------------------------------------------------------------------------
(***************************************************************************)
(* Properties                                                              *)
(***************************************************************************)
Glyphs == {"ascii", "dec"} \X (Chars \cup {" ", "ESC"})
Colours == {"ansi", "bright", "default"} \X Nat
Character == [c : Glyphs, fg : Colours, bg : Colours]
Change == [at : Cells, ch : Character]
Place2 == [x : Nat, y : Nat]
Attr == [bold : BOOLEAN, reverse : BOOLEAN, primary : 0 .. NoColour, fg : Colours, bg : Colours]
Mode == [insert : BOOLEAN, current : {0, 1}, sets : [{0, 1} -> {"default", "dec"}]]
Phases == {"ground", "escape", "csi", "control", "discard", "(", ")"}
Parser == [phase : Phases, first : BOOLEAN, rrr : BOOLEAN, private : BOOLEAN,
           values : [1 .. MaxValues -> 0 .. MaxValue], n : Nat]
Parts == [op : {"put"}, c : Glyphs] \cup [op : {"set"}, x : Nat, y : Nat]
         \cup [op : {"copy"}, to : Nat, from : Nat] \cup [op : {"clear"}, at : Nat]
         \cup [op : {"graphics"}, v : Nat] \cup [op : {"enable"}]

\* The variables have their types: characters in the cells, colours the palette
\* has, margins that term_control_sequence_parse lets pass.
TypeOK ==
  /\ grid \in [Cells -> Character] /\ queue \in Seq(Change) /\ map \in [Cells -> Nat]
  /\ {cursor, old, kept} \subseteq Place2 /\ {attr, plain} \subseteq Attr /\ strayed \subseteq BothColours
  /\ saved \in [cursor : Place2, attr : Attr, plain : Attr, strayed : SUBSET BothColours,
               current : {0, 1}]
  /\ {visible, scrolling, defined, narrowed} \subseteq BOOLEAN
  /\ mode \in Mode /\ parser \in Parser
  /\ margins \in [top : 0 .. (Rows - 1), bottom : 0 .. Rows]
  /\ todo \in Seq(Parts)

\* No array is used beyond its end: the queue has room for every cell because
\* a cell that has a change gets no second one (push_to_queue), and the values
\* of a control sequence stop at the last (term_control_sequence_parse).
ArraysHold ==
  /\ Len(queue) <= Size
  /\ \A i \in Cells : map[i] # 0 => map[i] \in DOMAIN queue /\ queue[map[i]].at = i
  /\ \A k \in DOMAIN queue : map[queue[k].at] = k
  /\ parser.n <= MaxValues /\ (parser.rrr => parser.n < MaxValues)

\* A text on a screen: whatever is written, scrolled, moved and erased, and
\* wherever the cursor was and is, after every write the screen shows what the
\* cells have, with the cursor's colours exchanged, and nothing else changes it
\* (gterm_double_buffer_flush, draw_cursor, plot_char_fast).
ImplementsTextScreen == TS!Spec

\* Until a line is left below the bottom margin (or the margin is 0), the cursor
\* is on the grid after every character and no memory outside is used.
CursorOnGrid == ~narrowed => defined /\ (todo = <<>> => CursorCell \in Cells)

\* The inductive invariant behind it.  A character that is put may leave the
\* grid only while scrolling is disabled; then a position follows that brings
\* the cursor back, or the characters stay within their line (`K` with 1).
Ops(op) == { k \in DOMAIN todo : todo[k].op = op }
Ending(op) == todo # <<>> /\ todo[Len(todo)].op = op
OnGridAt(p) == p.x \in 0 .. (Cols - 1) /\ p.y \in 0 .. (Rows - 1)

ReturnsLater == \E k \in Ops("set") : \A j \in Ops("put") : j < k
StaysInLine == Ops("set") = {} /\ Ending("enable") /\ cursor.x + Len(todo) <= Cols
StartsLine == Ops("set") = {1} /\ Ending("enable") /\ todo[1].x = 0 /\ Len(todo) <= Cols + 1

FindsGrid == \/ OnGridAt(cursor) /\ (scrolling \/ Ops("put") = {} \/ StaysInLine)
             \/ StartsLine
             \/ ReturnsLater

GridInv == ~narrowed => /\ defined
                        /\ margins.bottom = Rows
                        /\ OnGridAt(saved.cursor)
                        /\ scrolling \/ Ending("enable")
                        /\ FindsGrid

\* Reversing exchanges two colours and nothing more: the colour of the text and
\* that behind it are those without it, whatever was selected before or since,
\* and saved and restored (term_sgr, term_save_state, term_restore_state), but
\* for a colour that was not set again after ESC c came while they were
\* reversed: term_reinit leaves them exchanged.
PaletteAgrees == /\ "text" \notin strayed => TextColour(attr) = plain.fg
                 /\ "back" \notin strayed => BackColour(attr) = plain.bg
=============================================================================

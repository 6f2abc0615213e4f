--------------------------- MODULE TerminalProofs ---------------------------
(***************************************************************************)
(* Proofs about Terminal for every size of the grid, every number of       *)
(* values and whatever is received.                                        *)
(***************************************************************************)
EXTENDS Terminal, SequenceTheorems, FiniteSetTheorems, TLAPS

-----------------------------------------------------------------------------
(***************************************************************************)
(* Numbers, cells and characters                                           *)
(***************************************************************************)
\* A product of natural numbers is one.
LEMMA Product == \A a, b \in Nat : a * b \in Nat
  OBVIOUS

\* One line more is as many cells more.
LEMMA NextRow == \A a, b \in Nat : (a + 1) * b = a * b + b
  OBVIOUS

\* There is a cell.
LEMMA SizePositive == Size \in Nat \ {0}
<1>1. \A a, b \in Nat \ {0} : a * b \in Nat \ {0}
  OBVIOUS
<1> QED BY <1>1, TerminalAssumption DEF TerminalAssumption, Size

\* A position has a cell, or none.
LEMMA CellIsNat == \A x, y \in Nat : Cell(x, y) \in Nat
  BY SizePositive, Product, TerminalAssumption DEF TerminalAssumption, Cell, NoCell, Size

\* What has a cell lies on the grid.
LEMMA OnGrid == \A x, y \in Nat : Cell(x, y) \in Cells => x < Cols /\ y < Rows
  BY SizePositive DEF Cell, NoCell, Cells

\* A difference that wraps is a natural number, if no more is subtracted than
\* there are values.
LEMMA MinusIsNat == \A a, b \in Nat : b <= Word => Minus(a, b) \in Nat
  BY TerminalAssumption DEF TerminalAssumption, Minus

\* The bounds of Word that are needed.
LEMMA WordIsLarge == Word \in Nat /\ Word > 1 /\ Word > MaxValue /\ Word > Size
<1>1. 2 * (Rows * Cols + MaxValue) \in Nat /\ Rows * Cols \in Nat /\ Rows * Cols > 0
  BY SizePositive, TerminalAssumption DEF TerminalAssumption, Size
<1> QED BY <1>1, TerminalAssumption DEF TerminalAssumption, Size

\* Colours and characters have their types.
LEMMA ColourTypes ==
  /\ \A n \in Nat : Ansi(n) \in Colours /\ Bright(n) \in Colours
  /\ DefaultFg \in Colours /\ DefaultBg \in Colours
  BY DEF Ansi, Bright, DefaultFg, DefaultBg, Colours

LEMMA GlyphTypes ==
  /\ \A c \in Chars : Glyph(c) \in Glyphs /\ Special(c) \in Glyphs
  /\ Glyph(" ") \in Glyphs /\ Glyph("ESC") \in Glyphs
  BY DEF Glyph, Special, Glyphs

LEMMA CharTypes ==
  /\ \A g \in Glyphs, a \in Attr : Char(g, a) \in Character
  /\ \A ch \in Character : Inverted(ch) \in Character
  BY DEF Char, Character, Attr, Inverted

LEMMA DefaultTypes == DefaultAttr \in Attr /\ Blank \in Character
<1>1. DefaultAttr \in Attr
  BY ColourTypes DEF DefaultAttr, Attr, NoColour
<1> QED BY <1>1, GlyphTypes, CharTypes DEF Blank

\* What each value does.
LEMMA SgrValues ==
  ASSUME NEW a, NEW v \in Nat
  PROVE  /\ v = 0 => Sgr(a, v) = DefaultAttr
         /\ v = 1 => Sgr(a, v) = IF a.primary = NoColour THEN [a EXCEPT !.bold = TRUE]
                                ELSE ForText([a EXCEPT !.bold = TRUE], Bright(a.primary))
         /\ v = 22 => Sgr(a, v) = IF a.primary = NoColour THEN [a EXCEPT !.bold = FALSE]
                                 ELSE ForText([a EXCEPT !.bold = FALSE], Ansi(a.primary))
         /\ v \in 30 .. 37 => Sgr(a, v) = ForText([a EXCEPT !.primary = v - 30],
                                           IF a.bold THEN Bright(v - 30) ELSE Ansi(v - 30))
         /\ v \in 90 .. 97 => Sgr(a, v) = ForText([a EXCEPT !.primary = v - 90], Bright(v - 90))
         /\ v \in 40 .. 47 => Sgr(a, v) = ForBack(a, Ansi(v - 40))
         /\ v \in 100 .. 107 => Sgr(a, v) = ForBack(a, Bright(v - 100))
         /\ v = 39 => Sgr(a, v) = ForText([a EXCEPT !.primary = NoColour], DefaultFg)
         /\ v = 49 => Sgr(a, v) = ForBack(a, DefaultBg)
         /\ v = 7 => Sgr(a, v) = IF a.reverse THEN a ELSE Swapped([a EXCEPT !.reverse = TRUE])
         /\ v = 27 => Sgr(a, v) = IF a.reverse THEN Swapped([a EXCEPT !.reverse = FALSE]) ELSE a
         /\ (/\ v \notin {0, 1, 22, 39, 49, 7, 27} /\ v \notin 30 .. 37 /\ v \notin 90 .. 97
             /\ v \notin 40 .. 47 /\ v \notin 100 .. 107) => Sgr(a, v) = a
  BY SMT DEF Sgr

\* The colours that one value selects are colours.
LEMMA SgrTypes == ASSUME NEW a \in Attr, NEW v \in Nat
                  PROVE  Sgr(a, v) \in Attr
<1>1. \A b \in Attr, c \in Colours : ForText(b, c) \in Attr /\ ForBack(b, c) \in Attr
  BY DEF ForText, ForBack, Attr
<1>2. \A b \in Attr : Swapped(b) \in Attr
  BY DEF Swapped, Attr
<1>3. /\ [a EXCEPT !.bold = TRUE] \in Attr /\ [a EXCEPT !.bold = FALSE] \in Attr
      /\ [a EXCEPT !.reverse = TRUE] \in Attr /\ [a EXCEPT !.reverse = FALSE] \in Attr
  BY DEF Attr
<1>4. \A n \in 0 .. NoColour : [a EXCEPT !.primary = n] \in Attr
  BY DEF Attr
<1>5. a.primary \in Nat /\ NoColour \in 0 .. NoColour /\ NoColour = 8
  BY DEF Attr, NoColour
<1>6. CASE v = 0
  <2>1. Sgr(a, v) = DefaultAttr
    BY <1>6, SgrValues, ZenonT(30)
  <2> QED BY <2>1, DefaultTypes
<1>7. CASE v = 1
  <2>1. Sgr(a, v) = IF a.primary = NoColour THEN [a EXCEPT !.bold = TRUE]
                    ELSE ForText([a EXCEPT !.bold = TRUE], Bright(a.primary))
    BY <1>7, SgrValues, ZenonT(30)
  <2> QED BY <2>1, <1>1, <1>3, <1>5, ColourTypes
<1>8. CASE v = 22
  <2>1. Sgr(a, v) = IF a.primary = NoColour THEN [a EXCEPT !.bold = FALSE]
                    ELSE ForText([a EXCEPT !.bold = FALSE], Ansi(a.primary))
    BY <1>8, SgrValues, ZenonT(30)
  <2> QED BY <2>1, <1>1, <1>3, <1>5, ColourTypes
<1>9. CASE v \in 30 .. 37
  <2>1. v - 30 \in 0 .. NoColour /\ v - 30 \in Nat
    BY <1>5, <1>9
  <2>2. [a EXCEPT !.primary = v - 30] \in Attr
    BY <2>1, <1>4
  <2>3. Sgr(a, v) = ForText([a EXCEPT !.primary = v - 30],
                            IF a.bold THEN Bright(v - 30) ELSE Ansi(v - 30))
    BY <1>9, SgrValues, ZenonT(30)
  <2> QED BY <2>3, <2>1, <2>2, <1>1, ColourTypes
<1>10. CASE v \in 90 .. 97
  <2>1. v - 90 \in 0 .. NoColour /\ v - 90 \in Nat
    BY <1>5, <1>10
  <2>2. [a EXCEPT !.primary = v - 90] \in Attr
    BY <2>1, <1>4
  <2>3. Sgr(a, v) = ForText([a EXCEPT !.primary = v - 90], Bright(v - 90))
    BY <1>10, SgrValues, ZenonT(30)
  <2> QED BY <2>3, <2>1, <2>2, <1>1, ColourTypes
<1>11. CASE v \in 40 .. 47
  <2>1. Sgr(a, v) = ForBack(a, Ansi(v - 40))
    BY <1>11, SgrValues, ZenonT(30)
  <2> QED BY <2>1, <1>1, <1>11, ColourTypes
<1>12. CASE v \in 100 .. 107
  <2>1. Sgr(a, v) = ForBack(a, Bright(v - 100))
    BY <1>12, SgrValues, ZenonT(30)
  <2> QED BY <2>1, <1>1, <1>12, ColourTypes
<1>13. CASE v = 39
  <2>1. Sgr(a, v) = ForText([a EXCEPT !.primary = NoColour], DefaultFg)
    BY <1>13, SgrValues, ZenonT(30)
  <2> QED BY <2>1, <1>1, <1>4, <1>5, ColourTypes
<1>14. CASE v = 49
  <2>1. Sgr(a, v) = ForBack(a, DefaultBg)
    BY <1>14, SgrValues, ZenonT(30)
  <2> QED BY <2>1, <1>1, ColourTypes
<1>15. CASE v = 7
  <2>1. Sgr(a, v) = IF a.reverse THEN a ELSE Swapped([a EXCEPT !.reverse = TRUE])
    BY <1>15, SgrValues, ZenonT(30)
  <2> QED BY <2>1, <1>2, <1>3
<1>16. CASE v = 27
  <2>1. Sgr(a, v) = IF a.reverse THEN Swapped([a EXCEPT !.reverse = FALSE]) ELSE a
    BY <1>16, SgrValues, ZenonT(30)
  <2> QED BY <2>1, <1>2, <1>3
<1>17. CASE /\ v \notin {0, 1, 22, 39, 49, 7, 27}
            /\ v \notin 30 .. 37 /\ v \notin 90 .. 97 /\ v \notin 40 .. 47 /\ v \notin 100 .. 107
  <2>1. Sgr(a, v) = a
    BY <1>17, SgrValues, ZenonT(30)
  <2> QED BY <2>1
<1> QED BY <1>6, <1>7, <1>8, <1>9, <1>10, <1>11, <1>12, <1>13, <1>14, <1>15, <1>16, <1>17

-----------------------------------------------------------------------------
(***************************************************************************)
(* Colours                                                                 *)
(***************************************************************************)
\* PaletteAgrees of any attributes, those without reversing, and the colours
\* that a reset left exchanged.
Agrees(a, p, s) == /\ a \in Attr /\ p \in Attr /\ s \subseteq BothColours
                   /\ p.reverse = FALSE /\ a.bold = p.bold /\ a.primary = p.primary
                   /\ "text" \notin s => TextColour(a) = p.fg
                   /\ "back" \notin s => BackColour(a) = p.bg

\* What a value other than 0 makes of each attribute: the colours of the text
\* and behind it depend on neither the other colour nor on reversing.
NewBold(b, v) == IF v = 1 THEN TRUE ELSE IF v = 22 THEN FALSE ELSE b
NewPrimary(n, v) == IF v \in 30 .. 37 THEN v - 30
                    ELSE IF v \in 90 .. 97 THEN v - 90
                    ELSE IF v = 39 THEN NoColour ELSE n
NewText(b, n, colour, v) ==
  IF v = 1 THEN IF n = NoColour THEN colour ELSE Bright(n)
  ELSE IF v = 22 THEN IF n = NoColour THEN colour ELSE Ansi(n)
  ELSE IF v \in 30 .. 37 THEN IF b THEN Bright(v - 30) ELSE Ansi(v - 30)
  ELSE IF v \in 90 .. 97 THEN Bright(v - 90)
  ELSE IF v = 39 THEN DefaultFg ELSE colour
NewBack(colour, v) == IF v \in 40 .. 47 THEN Ansi(v - 40)
                      ELSE IF v \in 100 .. 107 THEN Bright(v - 100)
                      ELSE IF v = 49 THEN DefaultBg ELSE colour
NewReverse(b, v) == IF v = 7 THEN TRUE ELSE IF v = 27 THEN FALSE ELSE b

Becomes(a, s, v) == /\ s.bold = NewBold(a.bold, v) /\ s.primary = NewPrimary(a.primary, v)
                    /\ s.reverse = NewReverse(a.reverse, v)
                    /\ TextColour(s) = NewText(a.bold, a.primary, TextColour(a), v)
                    /\ BackColour(s) = NewBack(BackColour(a), v)

Same(a, s) == TextColour(s) = TextColour(a) /\ BackColour(s) = BackColour(a)

LEMMA FieldParts ==
  ASSUME NEW a \in Attr
  PROVE  /\ \A b \in BOOLEAN : LET s == [a EXCEPT !.bold = b]
                              IN  /\ s \in Attr /\ s.bold = b /\ s.primary = a.primary
                                  /\ s.reverse = a.reverse /\ Same(a, s)
         /\ \A n \in 0 .. NoColour : LET s == [a EXCEPT !.primary = n]
                                    IN  /\ s \in Attr /\ s.bold = a.bold /\ s.primary = n
                                        /\ s.reverse = a.reverse /\ Same(a, s)
         /\ \A b \in BOOLEAN : LET s == Swapped([a EXCEPT !.reverse = b])
                              IN  /\ s.bold = a.bold /\ s.primary = a.primary
                                  /\ s.reverse = b /\ (a.reverse # b => Same(a, s))
  BY DEF Attr, Same, Swapped, TextColour, BackColour

LEMMA ColourParts ==
  ASSUME NEW a \in Attr, NEW c \in Colours
  PROVE  /\ LET s == ForText(a, c)
            IN  /\ s.bold = a.bold /\ s.primary = a.primary /\ s.reverse = a.reverse
                /\ TextColour(s) = c /\ BackColour(s) = BackColour(a)
         /\ LET s == ForBack(a, c)
            IN  /\ s.bold = a.bold /\ s.primary = a.primary /\ s.reverse = a.reverse
                /\ TextColour(s) = TextColour(a) /\ BackColour(s) = c
  BY DEF Attr, ForText, ForBack, TextColour, BackColour

LEMMA SgrParts ==
  ASSUME NEW a \in Attr, NEW v \in Nat, v # 0
  PROVE  Becomes(a, Sgr(a, v), v)
<1>0. /\ a.primary \in Nat /\ NoColour \in 0 .. NoColour /\ NoColour = 8 /\ a.bold \in BOOLEAN
      /\ a.reverse \in BOOLEAN
  BY DEF Attr, NoColour
<1>1. CASE v = 1
  <2>0. /\ NewBold(a.bold, v) = TRUE /\ NewPrimary(a.primary, v) = a.primary
        /\ NewText(a.bold, a.primary, TextColour(a), v) = IF a.primary = NoColour THEN TextColour(a) ELSE Bright(a.primary)
        /\ NewBack(BackColour(a), v) = BackColour(a) /\ NewReverse(a.reverse, v) = a.reverse
    <3>1. /\ v # 22 /\ v # 39 /\ v # 49 /\ v # 7 /\ v # 27
          /\ v \notin 30 .. 37 /\ v \notin 90 .. 97 /\ v \notin 40 .. 47 /\ v \notin 100 .. 107
      BY <1>1
    <3> QED BY <1>1, <3>1, ZenonT(30) DEF NewBold, NewPrimary, NewText, NewBack, NewReverse
  <2>1. Sgr(a, v) = IF a.primary = NoColour THEN [a EXCEPT !.bold = TRUE]
                    ELSE ForText([a EXCEPT !.bold = TRUE], Bright(a.primary))
    BY <1>1, SgrValues, ZenonT(30)
  <2> DEFINE d == [a EXCEPT !.bold = TRUE]
  <2>2. /\ d \in Attr /\ d.bold = TRUE /\ d.primary = a.primary /\ d.reverse = a.reverse
        /\ TextColour(d) = TextColour(a) /\ BackColour(d) = BackColour(a)
    BY FieldParts DEF Same
  <2>3. Bright(a.primary) \in Colours
    BY <1>0, ColourTypes
  <2> HIDE DEF d
  <2>4. CASE a.primary = NoColour
    <3>1. Sgr(a, v) = d
      BY <2>1, <2>4 DEF d
    <3> QED BY <2>0, <2>2, <2>4, <3>1 DEF Becomes
  <2>5. CASE a.primary # NoColour
    <3>1. Sgr(a, v) = ForText(d, Bright(a.primary))
      BY <2>1, <2>5 DEF d
    <3>2. /\ Sgr(a, v).bold = TRUE /\ Sgr(a, v).primary = a.primary /\ Sgr(a, v).reverse = a.reverse
          /\ TextColour(Sgr(a, v)) = Bright(a.primary) /\ BackColour(Sgr(a, v)) = BackColour(a)
      BY <2>2, <2>3, <3>1, ColourParts
    <3> QED BY <2>0, <2>5, <3>2, ZenonT(30) DEF Becomes
  <2> QED BY <2>4, <2>5
<1>2. CASE v = 22
  <2>0. /\ NewBold(a.bold, v) = FALSE /\ NewPrimary(a.primary, v) = a.primary
        /\ NewText(a.bold, a.primary, TextColour(a), v) = IF a.primary = NoColour THEN TextColour(a) ELSE Ansi(a.primary)
        /\ NewBack(BackColour(a), v) = BackColour(a) /\ NewReverse(a.reverse, v) = a.reverse
    <3>1. /\ v # 1 /\ v # 39 /\ v # 49 /\ v # 7 /\ v # 27
          /\ v \notin 30 .. 37 /\ v \notin 90 .. 97 /\ v \notin 40 .. 47 /\ v \notin 100 .. 107
      BY <1>2
    <3> QED BY <1>2, <3>1, ZenonT(30) DEF NewBold, NewPrimary, NewText, NewBack, NewReverse
  <2>1. Sgr(a, v) = IF a.primary = NoColour THEN [a EXCEPT !.bold = FALSE]
                    ELSE ForText([a EXCEPT !.bold = FALSE], Ansi(a.primary))
    BY <1>2, SgrValues, ZenonT(30)
  <2> DEFINE d == [a EXCEPT !.bold = FALSE]
  <2>2. /\ d \in Attr /\ d.bold = FALSE /\ d.primary = a.primary /\ d.reverse = a.reverse
        /\ TextColour(d) = TextColour(a) /\ BackColour(d) = BackColour(a)
    BY FieldParts DEF Same
  <2>3. Ansi(a.primary) \in Colours
    BY <1>0, ColourTypes
  <2> HIDE DEF d
  <2>4. CASE a.primary = NoColour
    <3>1. Sgr(a, v) = d
      BY <2>1, <2>4 DEF d
    <3> QED BY <2>0, <2>2, <2>4, <3>1 DEF Becomes
  <2>5. CASE a.primary # NoColour
    <3>1. Sgr(a, v) = ForText(d, Ansi(a.primary))
      BY <2>1, <2>5 DEF d
    <3>2. /\ Sgr(a, v).bold = FALSE /\ Sgr(a, v).primary = a.primary /\ Sgr(a, v).reverse = a.reverse
          /\ TextColour(Sgr(a, v)) = Ansi(a.primary) /\ BackColour(Sgr(a, v)) = BackColour(a)
      BY <2>2, <2>3, <3>1, ColourParts
    <3> QED BY <2>0, <2>5, <3>2, ZenonT(30) DEF Becomes
  <2> QED BY <2>4, <2>5
<1>3. CASE v \in 30 .. 37
  <2>0. /\ NewBold(a.bold, v) = a.bold /\ NewPrimary(a.primary, v) = v - 30
        /\ NewText(a.bold, a.primary, TextColour(a), v) = IF a.bold THEN Bright(v - 30) ELSE Ansi(v - 30)
        /\ NewBack(BackColour(a), v) = BackColour(a) /\ NewReverse(a.reverse, v) = a.reverse
    <3>1. /\ v # 1 /\ v # 22 /\ v # 39 /\ v # 49 /\ v # 7 /\ v # 27
          /\ v \in 30 .. 37 /\ v \notin 90 .. 97 /\ v \notin 40 .. 47 /\ v \notin 100 .. 107
      BY <1>3
    <3> QED BY <1>3, <3>1, ZenonT(30) DEF NewBold, NewPrimary, NewText, NewBack, NewReverse
  <2>1. Sgr(a, v) = ForText([a EXCEPT !.primary = v - 30],
                            IF a.bold THEN Bright(v - 30) ELSE Ansi(v - 30))
    BY <1>3, SgrValues, ZenonT(30)
  <2> DEFINE d == [a EXCEPT !.primary = v - 30]
             c == IF a.bold THEN Bright(v - 30) ELSE Ansi(v - 30)
  <2>2. /\ d \in Attr /\ d.bold = a.bold /\ d.primary = v - 30 /\ d.reverse = a.reverse
        /\ TextColour(d) = TextColour(a) /\ BackColour(d) = BackColour(a)
    <3>1. v - 30 \in 0 .. NoColour
      BY <1>0, <1>3
    <3> QED BY <3>1, FieldParts DEF Same
  <2>3. c \in Colours
    BY <1>0, <1>3, ColourTypes
  <2>4. Sgr(a, v) = ForText(d, c)
    BY <2>1
  <2>5. /\ ForText(d, c).bold = d.bold /\ ForText(d, c).primary = d.primary
        /\ ForText(d, c).reverse = d.reverse
        /\ TextColour(ForText(d, c)) = c /\ BackColour(ForText(d, c)) = BackColour(d)
    <3> HIDE DEF d, c
    <3> QED BY <2>2, <2>3, ColourParts
  <2>6. /\ Sgr(a, v).bold = a.bold /\ Sgr(a, v).primary = v - 30 /\ Sgr(a, v).reverse = a.reverse
        /\ TextColour(Sgr(a, v)) = c /\ BackColour(Sgr(a, v)) = BackColour(a)
    BY <2>2, <2>4, <2>5, ZenonT(30)
  <2> QED BY <2>0, <2>6, ZenonT(30) DEF Becomes, c
<1>4. CASE v \in 90 .. 97
  <2>0. /\ NewBold(a.bold, v) = a.bold /\ NewPrimary(a.primary, v) = v - 90
        /\ NewText(a.bold, a.primary, TextColour(a), v) = Bright(v - 90)
        /\ NewBack(BackColour(a), v) = BackColour(a) /\ NewReverse(a.reverse, v) = a.reverse
    <3>1. /\ v # 1 /\ v # 22 /\ v # 39 /\ v # 49 /\ v # 7 /\ v # 27
          /\ v \notin 30 .. 37 /\ v \in 90 .. 97 /\ v \notin 40 .. 47 /\ v \notin 100 .. 107
      BY <1>4
    <3> QED BY <1>4, <3>1, ZenonT(30) DEF NewBold, NewPrimary, NewText, NewBack, NewReverse
  <2>1. Sgr(a, v) = ForText([a EXCEPT !.primary = v - 90],
                            Bright(v - 90))
    BY <1>4, SgrValues, ZenonT(30)
  <2> DEFINE d == [a EXCEPT !.primary = v - 90]
             c == Bright(v - 90)
  <2>2. /\ d \in Attr /\ d.bold = a.bold /\ d.primary = v - 90 /\ d.reverse = a.reverse
        /\ TextColour(d) = TextColour(a) /\ BackColour(d) = BackColour(a)
    <3>1. v - 90 \in 0 .. NoColour
      BY <1>0, <1>4
    <3> QED BY <3>1, FieldParts DEF Same
  <2>3. c \in Colours
    BY <1>0, <1>4, ColourTypes
  <2>4. Sgr(a, v) = ForText(d, c)
    BY <2>1
  <2>5. /\ ForText(d, c).bold = d.bold /\ ForText(d, c).primary = d.primary
        /\ ForText(d, c).reverse = d.reverse
        /\ TextColour(ForText(d, c)) = c /\ BackColour(ForText(d, c)) = BackColour(d)
    <3> HIDE DEF d, c
    <3> QED BY <2>2, <2>3, ColourParts
  <2>6. /\ Sgr(a, v).bold = a.bold /\ Sgr(a, v).primary = v - 90 /\ Sgr(a, v).reverse = a.reverse
        /\ TextColour(Sgr(a, v)) = c /\ BackColour(Sgr(a, v)) = BackColour(a)
    BY <2>2, <2>4, <2>5, ZenonT(30)
  <2> QED BY <2>0, <2>6, ZenonT(30) DEF Becomes, c
<1>5. CASE v \in 40 .. 47
  <2>0. /\ NewBold(a.bold, v) = a.bold /\ NewPrimary(a.primary, v) = a.primary
        /\ NewText(a.bold, a.primary, TextColour(a), v) = TextColour(a)
        /\ NewBack(BackColour(a), v) = Ansi(v - 40) /\ NewReverse(a.reverse, v) = a.reverse
    <3>1. /\ v # 1 /\ v # 22 /\ v # 39 /\ v # 49 /\ v # 7 /\ v # 27
          /\ v \notin 30 .. 37 /\ v \notin 90 .. 97 /\ v \in 40 .. 47 /\ v \notin 100 .. 107
      BY <1>5
    <3> QED BY <1>5, <3>1, ZenonT(30) DEF NewBold, NewPrimary, NewText, NewBack, NewReverse
  <2>1. Sgr(a, v) = ForBack(a, Ansi(v - 40))
    BY <1>5, SgrValues, ZenonT(30)
  <2>2. Ansi(v - 40) \in Colours
    BY <1>5, ColourTypes
  <2>3. /\ Sgr(a, v).bold = a.bold /\ Sgr(a, v).primary = a.primary /\ Sgr(a, v).reverse = a.reverse
        /\ TextColour(Sgr(a, v)) = TextColour(a) /\ BackColour(Sgr(a, v)) = Ansi(v - 40)
    BY <2>1, <2>2, ColourParts
  <2> QED BY <2>0, <2>3, ZenonT(30) DEF Becomes
<1>6. CASE v \in 100 .. 107
  <2>0. /\ NewBold(a.bold, v) = a.bold /\ NewPrimary(a.primary, v) = a.primary
        /\ NewText(a.bold, a.primary, TextColour(a), v) = TextColour(a)
        /\ NewBack(BackColour(a), v) = Bright(v - 100) /\ NewReverse(a.reverse, v) = a.reverse
    <3>1. /\ v # 1 /\ v # 22 /\ v # 39 /\ v # 49 /\ v # 7 /\ v # 27
          /\ v \notin 30 .. 37 /\ v \notin 90 .. 97 /\ v \notin 40 .. 47 /\ v \in 100 .. 107
      BY <1>6
    <3> QED BY <1>6, <3>1, ZenonT(30) DEF NewBold, NewPrimary, NewText, NewBack, NewReverse
  <2>1. Sgr(a, v) = ForBack(a, Bright(v - 100))
    BY <1>6, SgrValues, ZenonT(30)
  <2>2. Bright(v - 100) \in Colours
    BY <1>6, ColourTypes
  <2>3. /\ Sgr(a, v).bold = a.bold /\ Sgr(a, v).primary = a.primary /\ Sgr(a, v).reverse = a.reverse
        /\ TextColour(Sgr(a, v)) = TextColour(a) /\ BackColour(Sgr(a, v)) = Bright(v - 100)
    BY <2>1, <2>2, ColourParts
  <2> QED BY <2>0, <2>3, ZenonT(30) DEF Becomes
<1>7. CASE v = 39
  <2>0. /\ NewBold(a.bold, v) = a.bold /\ NewPrimary(a.primary, v) = NoColour
        /\ NewText(a.bold, a.primary, TextColour(a), v) = DefaultFg
        /\ NewBack(BackColour(a), v) = BackColour(a) /\ NewReverse(a.reverse, v) = a.reverse
    <3>1. /\ v # 1 /\ v # 22 /\ v # 49 /\ v # 7 /\ v # 27
          /\ v \notin 30 .. 37 /\ v \notin 90 .. 97 /\ v \notin 40 .. 47 /\ v \notin 100 .. 107
      BY <1>7
    <3> QED BY <1>7, <3>1, ZenonT(30) DEF NewBold, NewPrimary, NewText, NewBack, NewReverse
  <2>1. Sgr(a, v) = ForText([a EXCEPT !.primary = NoColour],
                            DefaultFg)
    BY <1>7, SgrValues, ZenonT(30)
  <2> DEFINE d == [a EXCEPT !.primary = NoColour]
             c == DefaultFg
  <2>2. /\ d \in Attr /\ d.bold = a.bold /\ d.primary = NoColour /\ d.reverse = a.reverse
        /\ TextColour(d) = TextColour(a) /\ BackColour(d) = BackColour(a)
    <3>1. NoColour \in 0 .. NoColour
      BY <1>0, <1>7
    <3> QED BY <3>1, FieldParts DEF Same
  <2>3. c \in Colours
    BY <1>0, <1>7, ColourTypes
  <2>4. Sgr(a, v) = ForText(d, c)
    BY <2>1
  <2>5. /\ ForText(d, c).bold = d.bold /\ ForText(d, c).primary = d.primary
        /\ ForText(d, c).reverse = d.reverse
        /\ TextColour(ForText(d, c)) = c /\ BackColour(ForText(d, c)) = BackColour(d)
    <3> HIDE DEF d, c
    <3> QED BY <2>2, <2>3, ColourParts
  <2>6. /\ Sgr(a, v).bold = a.bold /\ Sgr(a, v).primary = NoColour /\ Sgr(a, v).reverse = a.reverse
        /\ TextColour(Sgr(a, v)) = c /\ BackColour(Sgr(a, v)) = BackColour(a)
    BY <2>2, <2>4, <2>5, ZenonT(30)
  <2> QED BY <2>0, <2>6, ZenonT(30) DEF Becomes, c
<1>8. CASE v = 49
  <2>0. /\ NewBold(a.bold, v) = a.bold /\ NewPrimary(a.primary, v) = a.primary
        /\ NewText(a.bold, a.primary, TextColour(a), v) = TextColour(a)
        /\ NewBack(BackColour(a), v) = DefaultBg /\ NewReverse(a.reverse, v) = a.reverse
    <3>1. /\ v # 1 /\ v # 22 /\ v # 39 /\ v # 7 /\ v # 27
          /\ v \notin 30 .. 37 /\ v \notin 90 .. 97 /\ v \notin 40 .. 47 /\ v \notin 100 .. 107
      BY <1>8
    <3> QED BY <1>8, <3>1, ZenonT(30) DEF NewBold, NewPrimary, NewText, NewBack, NewReverse
  <2>1. Sgr(a, v) = ForBack(a, DefaultBg)
    BY <1>8, SgrValues, ZenonT(30)
  <2>2. DefaultBg \in Colours
    BY <1>8, ColourTypes
  <2>3. /\ Sgr(a, v).bold = a.bold /\ Sgr(a, v).primary = a.primary /\ Sgr(a, v).reverse = a.reverse
        /\ TextColour(Sgr(a, v)) = TextColour(a) /\ BackColour(Sgr(a, v)) = DefaultBg
    BY <2>1, <2>2, ColourParts
  <2> QED BY <2>0, <2>3, ZenonT(30) DEF Becomes
<1>9. CASE v = 7
  <2>0. /\ NewBold(a.bold, v) = a.bold /\ NewPrimary(a.primary, v) = a.primary
        /\ NewText(a.bold, a.primary, TextColour(a), v) = TextColour(a)
        /\ NewBack(BackColour(a), v) = BackColour(a) /\ NewReverse(a.reverse, v) = TRUE
    <3>1. /\ v # 1 /\ v # 22 /\ v # 39 /\ v # 49 /\ v # 27
          /\ v \notin 30 .. 37 /\ v \notin 90 .. 97 /\ v \notin 40 .. 47 /\ v \notin 100 .. 107
      BY <1>9
    <3> QED BY <1>9, <3>1, ZenonT(30) DEF NewBold, NewPrimary, NewText, NewBack, NewReverse
  <2>1. Sgr(a, v) = IF a.reverse THEN a ELSE Swapped([a EXCEPT !.reverse = TRUE])
    BY <1>9, SgrValues, ZenonT(30)
  <2> DEFINE d == Swapped([a EXCEPT !.reverse = TRUE])
  <2>2. /\ d.bold = a.bold /\ d.primary = a.primary /\ d.reverse = TRUE /\ (a.reverse # TRUE => Same(a, d))
    BY FieldParts
  <2> HIDE DEF d
  <2>3. Sgr(a, v) = IF a.reverse THEN a ELSE d
    BY <2>1 DEF d
  <2>4. /\ Sgr(a, v).bold = a.bold /\ Sgr(a, v).primary = a.primary /\ Sgr(a, v).reverse = TRUE
        /\ Same(a, Sgr(a, v))
    <3>1. CASE a.reverse
      BY <1>0, <2>2, <2>3, <3>1 DEF Same
    <3>2. CASE ~ a.reverse
      BY <1>0, <2>2, <2>3, <3>2 DEF Same
    <3> QED BY <3>1, <3>2
  <2> QED BY <2>0, <2>4, ZenonT(30) DEF Same, Becomes
<1>10. CASE v = 27
  <2>0. /\ NewBold(a.bold, v) = a.bold /\ NewPrimary(a.primary, v) = a.primary
        /\ NewText(a.bold, a.primary, TextColour(a), v) = TextColour(a)
        /\ NewBack(BackColour(a), v) = BackColour(a) /\ NewReverse(a.reverse, v) = FALSE
    <3>1. /\ v # 1 /\ v # 22 /\ v # 39 /\ v # 49 /\ v # 7
          /\ v \notin 30 .. 37 /\ v \notin 90 .. 97 /\ v \notin 40 .. 47 /\ v \notin 100 .. 107
      BY <1>10
    <3> QED BY <1>10, <3>1, ZenonT(30) DEF NewBold, NewPrimary, NewText, NewBack, NewReverse
  <2>1. Sgr(a, v) = IF a.reverse THEN Swapped([a EXCEPT !.reverse = FALSE]) ELSE a
    BY <1>10, SgrValues, ZenonT(30)
  <2> DEFINE d == Swapped([a EXCEPT !.reverse = FALSE])
  <2>2. /\ d.bold = a.bold /\ d.primary = a.primary /\ d.reverse = FALSE /\ (a.reverse # FALSE => Same(a, d))
    BY FieldParts
  <2> HIDE DEF d
  <2>3. Sgr(a, v) = IF a.reverse THEN d ELSE a
    BY <2>1 DEF d
  <2>4. /\ Sgr(a, v).bold = a.bold /\ Sgr(a, v).primary = a.primary /\ Sgr(a, v).reverse = FALSE
        /\ Same(a, Sgr(a, v))
    <3>1. CASE a.reverse
      BY <1>0, <2>2, <2>3, <3>1 DEF Same
    <3>2. CASE ~ a.reverse
      BY <1>0, <2>2, <2>3, <3>2 DEF Same
    <3> QED BY <3>1, <3>2
  <2> QED BY <2>0, <2>4, ZenonT(30) DEF Same, Becomes
<1>11. CASE /\ v \notin {0, 1, 22, 39, 49, 7, 27}
            /\ v \notin 30 .. 37 /\ v \notin 90 .. 97 /\ v \notin 40 .. 47 /\ v \notin 100 .. 107
  <2>0. /\ NewBold(a.bold, v) = a.bold /\ NewPrimary(a.primary, v) = a.primary
        /\ NewText(a.bold, a.primary, TextColour(a), v) = TextColour(a)
        /\ NewBack(BackColour(a), v) = BackColour(a) /\ NewReverse(a.reverse, v) = a.reverse
    BY <1>11 DEF NewBold, NewPrimary, NewText, NewBack, NewReverse
  <2>1. Sgr(a, v) = a
    BY <1>11, SgrValues, ZenonT(30)
  <2> QED BY <2>0, <2>1 DEF Becomes
<1> QED BY <1>1, <1>2, <1>3, <1>4, <1>5, <1>6, <1>7, <1>8, <1>9, <1>10, <1>11

\* Every value keeps the agreement, and puts the colours right that it sets.
LEMMA AgreementKept ==
  ASSUME NEW a, NEW p, NEW s, NEW v \in Nat, Agrees(a, p, s)
  PROVE  Agrees(Sgr(a, v), IF v \in {7, 27} THEN p ELSE Sgr(p, v), s \ SetBy(p, v))
<1>1. /\ a \in Attr /\ p \in Attr /\ p.reverse = FALSE /\ s \subseteq BothColours
      /\ a.bold = p.bold /\ a.primary = p.primary
      /\ "text" \notin s => TextColour(a) = p.fg
      /\ "back" \notin s => BackColour(a) = p.bg
      /\ Sgr(a, v) \in Attr /\ Sgr(p, v) \in Attr /\ s \ SetBy(p, v) \subseteq BothColours
  BY SgrTypes DEF Agrees
<1>2. TextColour(p) = p.fg /\ BackColour(p) = p.bg
  BY <1>1 DEF TextColour, BackColour
<1>3. /\ "text" \in SetBy(p, v) <=> SetsText(p, v)
      /\ "back" \in SetBy(p, v) <=> SetsBack(v)
  BY DEF SetBy, BothColours
<1>4. CASE v = 0
  <2>1. Sgr(a, v) = DefaultAttr /\ Sgr(p, v) = DefaultAttr
    BY <1>4, SgrValues, ZenonT(30)
  <2>2. /\ DefaultAttr.reverse = FALSE /\ TextColour(DefaultAttr) = DefaultAttr.fg
        /\ BackColour(DefaultAttr) = DefaultAttr.bg
    BY DEF DefaultAttr, TextColour, BackColour
  <2> QED BY <1>1, <1>4, <2>1, <2>2 DEF Agrees
<1>5. CASE v \in {7, 27}
  <2>1. Becomes(a, Sgr(a, v), v)
    BY <1>1, <1>5, SgrParts
  <2>2. /\ Sgr(a, v).bold = a.bold /\ Sgr(a, v).primary = a.primary
        /\ TextColour(Sgr(a, v)) = TextColour(a) /\ BackColour(Sgr(a, v)) = BackColour(a)
    <3>1. /\ v # 1 /\ v # 22 /\ v # 39 /\ v # 49
          /\ v \notin 30 .. 37 /\ v \notin 90 .. 97 /\ v \notin 40 .. 47 /\ v \notin 100 .. 107
      BY <1>5
    <3> QED BY <2>1, <3>1, ZenonT(30) DEF Becomes, NewBold, NewPrimary, NewText, NewBack
  <2>3. ~ SetsText(p, v) /\ ~ SetsBack(v)
    BY <1>5 DEF SetsText, SetsBack
  <2> QED BY <1>1, <1>3, <1>5, <2>2, <2>3 DEF Agrees
<1>6. CASE v \notin {0, 7, 27}
  <2> DEFINE b == Sgr(a, v)
             q == Sgr(p, v)
  <2>1. Becomes(a, b, v) /\ Becomes(p, q, v)
    BY <1>1, <1>6, SgrParts
  <2> HIDE DEF b, q
  <2>2. b.bold = q.bold /\ b.primary = q.primary /\ q.reverse = FALSE
    BY <1>1, <1>6, <2>1 DEF Becomes, NewReverse
  <2>3. TextColour(q) = q.fg /\ BackColour(q) = q.bg
    BY <2>2 DEF TextColour, BackColour
  <2>4. "text" \notin s \ SetBy(p, v) => TextColour(b) = q.fg
    <3>1. CASE SetsText(p, v)
      <4>1. NewText(a.bold, a.primary, TextColour(a), v) = NewText(p.bold, p.primary, TextColour(p), v)
        BY <1>1, <1>6, <3>1 DEF SetsText, NewText
      <4> QED BY <2>1, <2>3, <4>1 DEF Becomes
    <3>2. CASE ~ SetsText(p, v)
      BY <1>1, <1>2, <1>3, <2>1, <2>3, <3>2 DEF Becomes
    <3> QED BY <3>1, <3>2
  <2>5. "back" \notin s \ SetBy(p, v) => BackColour(b) = q.bg
    <3>1. CASE SetsBack(v)
      <4>1. NewBack(BackColour(a), v) = NewBack(BackColour(p), v)
        BY <1>6, <3>1 DEF SetsBack, NewBack
      <4> QED BY <2>1, <2>3, <4>1 DEF Becomes
    <3>2. CASE ~ SetsBack(v)
      BY <1>1, <1>2, <1>3, <2>1, <2>3, <3>2 DEF Becomes
    <3> QED BY <3>1, <3>2
  <2> QED BY <1>1, <1>6, <2>2, <2>4, <2>5 DEF Agrees, b, q
<1> QED BY <1>4, <1>5, <1>6

-----------------------------------------------------------------------------
(***************************************************************************)
(* The queue                                                               *)
(***************************************************************************)
BufferTypes == grid \in [Cells -> Character] /\ queue \in Seq(Change) /\ map \in [Cells -> Nat]

\* ArraysHold of the queue: items and cells name each other.
Queued == /\ \A i \in Cells : map[i] # 0 => map[i] \in DOMAIN queue /\ queue[map[i]].at = i
          /\ \A k \in DOMAIN queue : map[queue[k].at] = k

\* Items are of cells.
LEMMA ChangedCells == ASSUME BufferTypes, NEW k \in DOMAIN queue
                      PROVE  queue[k] \in Change /\ queue[k].at \in Cells
<1>1. queue[k] \in Change
  BY DEF BufferTypes
<1> QED BY <1>1 DEF Change

\* No more items than cells, since no two items name the same cell.
LEMMA QueueFits == ASSUME BufferTypes, Queued
                   PROVE  Len(queue) <= Size
<1> DEFINE n == Len(queue)
           f == [k \in 1 .. n |-> queue[k].at]
<1>1. n \in Nat /\ DOMAIN queue = 1 .. n
  BY DEF BufferTypes
<1>2. \A k \in 1 .. n : queue[k].at \in Cells
  BY <1>1, ChangedCells
<1>3. f \in Injection(1 .. n, Cells)
  BY <1>1, <1>2 DEF Queued, Injection, IsInjective
<1>4. IsFiniteSet(Cells) /\ Cardinality(Cells) = Size
  <2>1. 0 \in Int /\ (Size - 1) \in Int /\ ~(0 > Size - 1) /\ (Size - 1) - 0 + 1 = Size
    BY SizePositive
  <2> QED BY <2>1, FS_Interval DEF Cells
<1>5. Cardinality(1 .. n) <= Size
  BY <1>3, <1>4, FS_Injection
<1>6. Cardinality(1 .. n) = n
  <2>1. 1 \in Int /\ n \in Int
    BY <1>1
  <2>2. Cardinality(1 .. n) = IF 1 > n THEN 0 ELSE n - 1 + 1
    BY <2>1, FS_Interval
  <2> QED BY <1>1, <2>2
<1> QED BY <1>5, <1>6

\* A change of a cell is what the cell has from then on, and no other cell's.
LEMMA PushKeeps ==
  ASSUME BufferTypes, Queued, NEW i \in Nat, NEW ch \in Character, Push(i, ch)
  PROVE  /\ BufferTypes' /\ Queued' /\ grid' = grid
         /\ \E j \in Cells : \A k \in Cells : k # j => Content(k)' = Content(k)
<1>1. CASE i \notin Cells \/ (map[i] = 0 /\ grid[i] = ch)
  <2>1. UNCHANGED <<grid, queue, map>>
    BY <1>1 DEF Push
  <2>2. 0 \in Cells
    BY SizePositive DEF Cells
  <2> QED BY <2>1, <2>2 DEF BufferTypes, Queued, Content
<1>2. CASE i \in Cells /\ map[i] # 0
  <2>1. /\ grid' = grid /\ map' = map
        /\ queue' = [queue EXCEPT ![map[i]].ch = ch]
    BY <1>2 DEF Push
  <2>2. map[i] \in DOMAIN queue /\ queue[map[i]] \in Change
    BY <1>2 DEF Queued, BufferTypes
  <2>3. [queue[map[i]] EXCEPT !.ch = ch] \in Change
    BY <2>2 DEF Change
  <2>4. queue' \in Seq(Change) /\ DOMAIN queue' = DOMAIN queue
    BY <2>1, <2>2, <2>3 DEF BufferTypes
  <2>5. \A k \in DOMAIN queue : k # map[i] => queue'[k] = queue[k]
    BY <2>1 DEF BufferTypes
  <2>6. queue'[map[i]].at = queue[map[i]].at
    BY <2>1, <2>2 DEF BufferTypes, Change
  <2>7. Queued'
    BY <2>1, <2>4, <2>5, <2>6 DEF Queued
  <2>8. \A k \in Cells : k # i => Content(k)' = Content(k)
    BY <1>2, <2>1, <2>5 DEF Queued, Content, BufferTypes
  <2> QED BY <1>2, <2>1, <2>4, <2>7, <2>8 DEF BufferTypes
<1>3. CASE i \in Cells /\ map[i] = 0 /\ grid[i] # ch
  <2> DEFINE n == Len(queue) + 1
             c == [at |-> i, ch |-> ch]
  <2>1. /\ grid' = grid /\ queue' = Append(queue, c)
        /\ map' = [map EXCEPT ![i] = n]
    BY <1>3 DEF Push
  <2>2. c \in Change /\ c.at = i
    BY <1>3 DEF Change
  <2>3. n \in Nat \ {0} /\ DOMAIN queue = 1 .. (n - 1)
    BY DEF BufferTypes
  <2> HIDE DEF c, n
  <2>4. queue' \in Seq(Change) /\ map' \in [Cells -> Nat]
    BY <1>3, <2>1, <2>2, <2>3 DEF BufferTypes
  <2>5. /\ DOMAIN queue' = 1 .. n /\ queue'[n] = c
        /\ \A k \in 1 .. (n - 1) : queue'[k] = queue[k]
    BY <2>1, <2>2, <2>3 DEF BufferTypes, n
  <2>6. map'[i] = n /\ \A k \in Cells : k # i => map'[k] = map[k]
    BY <1>3, <2>1 DEF BufferTypes
  <2>7. \A k \in DOMAIN queue : queue[k].at \in Cells /\ queue[k].at # i
    BY <1>3, <2>3, ChangedCells DEF Queued
  <2>8. \A k \in Cells : map'[k] # 0 => map'[k] \in DOMAIN queue' /\ queue'[map'[k]].at = k
    BY <2>2, <2>3, <2>5, <2>6 DEF Queued
  <2>9. \A k \in DOMAIN queue' : map'[queue'[k].at] = k
    BY <2>2, <2>3, <2>5, <2>6, <2>7 DEF Queued
  <2>10. \A k \in Cells : k # i => Content(k)' = Content(k)
    BY <2>1, <2>3, <2>5, <2>6 DEF Queued, Content
  <2> QED BY <1>3, <2>1, <2>4, <2>8, <2>9, <2>10 DEF BufferTypes, Queued
<1> QED BY <1>1, <1>2, <1>3

\* A cell has a character.
LEMMA ContentTypes == ASSUME BufferTypes, Queued, NEW i \in Cells
                      PROVE  Content(i) \in Character
<1>1. CASE map[i] # 0
  <2>1. map[i] \in DOMAIN queue
    BY <1>1 DEF Queued
  <2>2. queue[map[i]] \in Change
    BY <2>1, ChangedCells
  <2> QED BY <1>1, <2>2 DEF Content, Change
<1>2. CASE map[i] = 0
  BY <1>2 DEF Content, BufferTypes
<1> QED BY <1>1, <1>2

-----------------------------------------------------------------------------
(***************************************************************************)
(* The screen                                                              *)
(***************************************************************************)
\* The screen shows the grid, but for the cell in which the cursor was drawn.
Displayed == \A i \in Cells : i # OldCell => shown[i] = grid[i]

\* What is plotted on a cell that shows what it was is what it becomes.
LEMMA PlottedRight == \A was, ch \in Character : Plotted(was, was, ch) = ch
  BY DEF Plotted, Character

\* A flush shows the text, with the cursor.
LEMMA FlushShows ==
  ASSUME BufferTypes, Queued, Displayed, cursor \in Place2, old \in Place2, Flush
  PROVE  /\ BufferTypes' /\ Queued' /\ Displayed'
         /\ TS!Refresh
<1>1. /\ grid' = Text /\ queue' = <<>> /\ map' = [i \in Cells |-> 0] /\ old' = cursor
      /\ cursor' = cursor /\ visible' = visible
      /\ shown' = [i \in Cells |->
           IF visible /\ i = CursorCell THEN Inverted(Content(i))
           ELSE IF i = OldCell /\ (old # cursor \/ ~visible) THEN Content(i)
           ELSE IF map[i] # 0 THEN Plotted(shown[i], grid[i], Content(i)) ELSE shown[i]]
  BY DEF Flush, context
<1>2. \A i \in Cells : grid[i] \in Character /\ Content(i) \in Character
  BY ContentTypes DEF BufferTypes
<1>3. BufferTypes' /\ Queued'
  BY <1>1, <1>2 DEF BufferTypes, Queued, Text
<1>4. Text' = Text /\ CursorCell' = CursorCell /\ OldCell' = CursorCell
  BY <1>1 DEF Text, Content, CursorCell, OldCell
<1>5. ASSUME NEW i \in Cells, ~(visible /\ i = CursorCell)
      PROVE  shown'[i] = Content(i)
  <2>1. CASE i = OldCell /\ (old # cursor \/ ~visible)
    BY <1>1, <1>5, <2>1
  <2>2. CASE i = OldCell /\ old = cursor /\ visible
    BY <1>5, <2>2 DEF OldCell, CursorCell
  <2>3. CASE i # OldCell /\ map[i] # 0
    BY <1>1, <1>2, <1>5, <2>3, PlottedRight DEF Displayed
  <2>4. CASE i # OldCell /\ map[i] = 0
    BY <1>1, <1>5, <2>4 DEF Displayed, Content
  <2> QED BY <2>1, <2>2, <2>3, <2>4
<1>6. Displayed'
  BY <1>1, <1>4, <1>5 DEF Displayed, Text
<1>7. shown' = TS!Display(Text, CursorCell, visible)
  BY <1>1, <1>5 DEF TS!Display, TS!Inverted, Inverted, Text
<1> QED BY <1>1, <1>3, <1>4, <1>6, <1>7 DEF TS!Refresh

-----------------------------------------------------------------------------
(***************************************************************************)
(* What handlers leave to do                                               *)
(***************************************************************************)
PartSeqs == Seq(Parts)

LEMMA PartTypes ==
  /\ \A g \in Glyphs : Put(g) \in Parts
  /\ \A x, y \in Nat : Set(x, y) \in Parts /\ Copy(x, y) \in Parts
  /\ \A v \in Nat : Clear(v) \in Parts /\ Graphics(v) \in Parts
  /\ EnableScroll \in Parts
  BY DEF Put, Set, Copy, Clear, Graphics, EnableScroll, Parts

\* Sequences of parts.
LEMMA SeqTypes ==
  /\ \A n \in Nat : \A f \in [1 .. n -> Parts] : f \in PartSeqs
  /\ \A s, r \in PartSeqs : s \o r \in PartSeqs
  /\ \A s \in PartSeqs, p \in Parts : Append(s, p) \in PartSeqs
  /\ \A p \in Parts : <<p>> \in PartSeqs
  /\ <<>> \in PartSeqs
  /\ \A s \in PartSeqs : s # <<>> => Head(s) \in Parts /\ Tail(s) \in PartSeqs
  BY DEF PartSeqs

\* Loops run a number of times.
LEMMA SpanIsNat == \A a, b \in Nat : Span(a, b) \in Nat /\ (Span(a, b) > 0 => Span(a, b) = b - a)
  BY DEF Span

LEMMA SpacesTypes == \A n \in Nat : Spaces(n) \in PartSeqs
  BY GlyphTypes, PartTypes, SeqTypes DEF Spaces

LEMMA ClearAllTypes == ClearAll \in PartSeqs
<1>1. \A k \in 1 .. Size : k - 1 \in Nat
  BY SizePositive
<1> QED BY <1>1, SizePositive, PartTypes, SeqTypes DEF ClearAll

\* Scrolling copies and clears cells of the lines between the margins.
MarginTypes == margins \in [top : 0 .. (Rows - 1), bottom : 0 .. Rows]

LEMMA ScrollTypes == ASSUME MarginTypes PROVE Scroll \in PartSeqs
<1> DEFINE first == (margins.top + 1) * Cols
           last == margins.bottom * Cols
           copies == [k \in 1 .. Span(first, last) |-> Copy(first + k - 1 - Cols, first + k - 1)]
           clears == [k \in Line |-> Clear(last - Cols + k - 1)]
<1>1. margins.top \in Nat /\ margins.bottom \in Nat /\ Cols \in Nat /\ Cols > 0
  BY TerminalAssumption DEF TerminalAssumption, MarginTypes
<1>2. margins.top * Cols \in Nat /\ first = margins.top * Cols + Cols /\ last \in Nat
  BY <1>1, Product, NextRow
<1>3. CASE margins.bottom = 0
  BY <1>3, SeqTypes DEF Scroll
<1>4. CASE margins.bottom # 0
  <2>1. last - Cols \in Nat
    <3>1. (margins.bottom - 1) \in Nat /\ (margins.bottom - 1) + 1 = margins.bottom
      BY <1>1, <1>4
    <3>2. last = (margins.bottom - 1) * Cols + Cols /\ (margins.bottom - 1) * Cols \in Nat
      BY <1>1, <3>1, Product, NextRow
    <3> QED BY <1>1, <3>2
  <2> HIDE DEF first, last
  <2>2. first \in Nat /\ Span(first, last) \in Nat
    <3>1. first \in Nat
      BY <1>1, <1>2
    <3> QED BY <1>2, <3>1, SpanIsNat
  <2>3. \A k \in 1 .. Span(first, last) : Copy(first + k - 1 - Cols, first + k - 1) \in Parts
    <3> TAKE k \in 1 .. Span(first, last)
    <3>1. first + k - 1 - Cols \in Nat /\ first + k - 1 \in Nat
      BY <1>1, <1>2, <2>2
    <3> QED BY <3>1, PartTypes
  <2>4. \A k \in Line : Clear(last - Cols + k - 1) \in Parts
    <3> TAKE k \in Line
    <3>1. last - Cols + k - 1 \in Nat
      BY <1>1, <2>1 DEF Line
    <3> QED BY <3>1, PartTypes
  <2>5. copies \in PartSeqs /\ clears \in PartSeqs
    BY <1>1, <2>2, <2>3, <2>4, SeqTypes DEF Line
  <2>6. Scroll = copies \o clears
    BY <1>4 DEF Scroll, first, last
  <2> QED BY <2>5, <2>6, SeqTypes
<1> QED BY <1>3, <1>4

LEMMA RevScrollTypes == ASSUME MarginTypes, margins.bottom # 0 PROVE RevScroll \in PartSeqs
<1> DEFINE first == margins.top * Cols
           last == (margins.bottom - 1) * Cols
           copies == [k \in 1 .. Span(first, last) |-> Copy(last - k + Cols, last - k)]
           clears == [k \in Line |-> Clear(first + k - 1)]
<1>1. margins.top \in Nat /\ margins.bottom - 1 \in Nat /\ Cols \in Nat /\ Cols > 0
  BY TerminalAssumption DEF TerminalAssumption, MarginTypes
<1>2. first \in Nat /\ last \in Nat
  BY <1>1, Product
<1>3. RevScroll = copies \o clears
  BY DEF RevScroll
<1> HIDE DEF first, last
<1>4. Span(first, last) \in Nat
  BY <1>2, SpanIsNat
<1>5. \A k \in 1 .. Span(first, last) : Copy(last - k + Cols, last - k) \in Parts
  <2> TAKE k \in 1 .. Span(first, last)
  <2>1. last - k \in Nat
    <3>1. Span(first, last) = last - first
      <4>1. Span(first, last) > 0
        BY <1>4
      <4> QED BY <1>2, <4>1, SpanIsNat
    <3> QED BY <1>2, <3>1
  <2>2. last - k + Cols \in Nat
    BY <1>1, <1>2, <2>1
  <2> QED BY <2>1, <2>2, PartTypes
<1>6. \A k \in Line : Clear(first + k - 1) \in Parts
  <2> TAKE k \in Line
  <2>1. first + k - 1 \in Nat
    BY <1>1, <1>2 DEF Line
  <2> QED BY <2>1, PartTypes
<1>7. copies \in PartSeqs /\ clears \in PartSeqs
  BY <1>1, <1>4, <1>5, <1>6, SeqTypes DEF Line
<1> QED BY <1>3, <1>7, SeqTypes

\* The types that handlers rely on, and what a received character finds.
PlaceTypes == cursor \in Place2 /\ kept \in Place2 /\ MarginTypes

LEMMA NextLineTypes == ASSUME PlaceTypes, NEW x \in Nat PROVE NextLine(x) \in PartSeqs
<1>1. cursor.y \in Nat
  BY DEF PlaceTypes, Place2
<1>2. Set(x, cursor.y) \in Parts /\ Set(x, cursor.y + 1) \in Parts
  BY <1>1, PartTypes
<1> QED BY <1>2, ScrollTypes, SeqTypes DEF NextLine, PlaceTypes

LEMMA MovementTypes == ASSUME PlaceTypes, NEW c \in Simple PROVE Movement(c) \in PartSeqs
<1> DEFINE stop == cursor.x \div TabSize + 1
<1>1. cursor.x \in Nat /\ cursor.y \in Nat /\ Cols \in Nat \ {0} /\ TabSize \in Nat \ {0}
  BY TerminalAssumption DEF TerminalAssumption, PlaceTypes, Place2
<1>2. Movement("TAB") \in PartSeqs
  <2>1. stop \in Nat
    BY <1>1
  <2>2. stop * TabSize \in Nat /\ Cols - 1 \in Nat
    BY <1>1, <2>1, Product
  <2> HIDE DEF stop
  <2>3. Set(IF stop >= Cols THEN Cols - 1 ELSE stop * TabSize, cursor.y) \in Parts
    BY <1>1, <2>2, PartTypes
  <2> QED BY <2>3, SeqTypes DEF Movement, stop
<1>3. Movement("LF") \in PartSeqs
  BY NextLineTypes DEF Movement
<1>4. Movement("BS") \in PartSeqs
  <2>1. Minus(cursor.x, 1) \in Nat
    BY <1>1, MinusIsNat, WordIsLarge
  <2>2. Set(Minus(cursor.x, 1), cursor.y) \in Parts
    BY <1>1, <2>1, PartTypes
  <2> QED BY <2>2, SeqTypes DEF Movement
<1>5. Movement("CR") \in PartSeqs
  <2>1. Set(0, cursor.y) \in Parts
    BY <1>1, PartTypes
  <2> QED BY <2>1, SeqTypes DEF Movement
<1> QED BY <1>2, <1>3, <1>4, <1>5 DEF Simple

\* In the parser the number that is open has a place.
ParserHolds == /\ parser \in Parser
               /\ parser.n <= MaxValues /\ (parser.rrr => parser.n < MaxValues)

LEMMA ValueTypes ==
  ASSUME ParserHolds
  PROVE  /\ count \in 0 .. MaxValues
         /\ \A k \in 1 .. count : parser.values[k] \in Nat
         /\ \A c, k : k \in {1, 2} => Value(c, k) \in Nat /\ Value(c, k) <= Word
<1>1. parser.n \in Nat /\ MaxValues \in Nat /\ MaxValue \in Nat
      /\ parser.values \in [1 .. MaxValues -> 0 .. MaxValue]
  BY TerminalAssumption DEF TerminalAssumption, ParserHolds, Parser
<1>2. count \in 0 .. MaxValues
  BY <1>1 DEF ParserHolds, count
<1>3. \A k \in 1 .. count : parser.values[k] \in 0 .. MaxValue
  BY <1>1, <1>2
<1>4. ASSUME NEW c, NEW k \in {1, 2}
      PROVE  Value(c, k) \in Nat /\ Value(c, k) <= Word
  <2>1. CASE k <= count
    BY <1>1, <1>2, <1>3, <2>1, WordIsLarge DEF Value
  <2>2. CASE ~(k <= count)
    BY <2>2, WordIsLarge DEF Value
  <2> QED BY <2>1, <2>2
<1> QED BY <1>1, <1>2, <1>3, <1>4

\* The cursor is on the grid when a character is received.
LEMMA ReceivesOnGrid ==
  ASSUME PlaceTypes, CursorCell \in Cells
  PROVE  cursor.x \in 0 .. (Cols - 1) /\ cursor.y \in 0 .. (Rows - 1)
<1>1. cursor.x \in Nat /\ cursor.y \in Nat
  BY DEF PlaceTypes, Place2
<1>2. cursor.x < Cols /\ cursor.y < Rows
  BY <1>1, OnGrid DEF CursorCell
<1> QED BY <1>1, <1>2, TerminalAssumption DEF TerminalAssumption

LEMMA PositionTypes ==
  ASSUME PlaceTypes, ParserHolds, CursorCell \in Cells, NEW c \in Moves
  PROVE  Position(c) \in Parts
<1> DEFINE n == Value(c, 1)
           x == cursor.x
           y == cursor.y
<1>1. /\ x \in Nat /\ y \in Nat /\ x <= Cols - 1 /\ y <= Rows - 1
      /\ Cols \in Nat \ {0} /\ Rows \in Nat \ {0}
  BY ReceivesOnGrid, TerminalAssumption DEF TerminalAssumption
<1>2. n \in Nat /\ n <= Word /\ Value(c, 2) \in Nat
  BY ValueTypes
<1>3. margins.top \in Nat /\ margins.bottom \in Nat
  BY TerminalAssumption DEF TerminalAssumption, PlaceTypes, MarginTypes
<1>4. \A v \in Nat, m \in Nat \ {0} : Place(v, m) \in Nat
  <2> TAKE v \in Nat, m \in Nat \ {0}
  <2>1. Minus(v, 1) \in Nat
    BY MinusIsNat, WordIsLarge
  <2> QED BY <2>1 DEF Place, Lesser
<1> HIDE DEF n
<1>5. Up(n) \in Nat
  BY <1>1, <1>2, <1>3 DEF Up, Lesser
<1>6. Down(n) \in Nat
  <2>1. Minus(margins.bottom, 1) \in Nat
    BY <1>3, MinusIsNat, WordIsLarge
  <2> QED BY <1>1, <1>2, <2>1 DEF Down, Lesser
<1>7. x + Lesser(n, Cols - 1 - x) \in Nat /\ x - Lesser(n, x) \in Nat
  BY <1>1, <1>2 DEF Lesser
<1>8. kept.x \in Nat /\ kept.y \in Nat
  BY DEF PlaceTypes, Place2
<1>9. Place(n, Rows) \in Nat /\ Place(n, Cols) \in Nat /\ Place(Value(c, 2), Cols) \in Nat
  BY <1>1, <1>2, <1>4
<1>10. \E p, q \in Nat : Position(c) = Set(p, q)
  <2>1. CASE c \in {"A", "F"}
    <3>1. Position(c) = Set(IF c = "F" THEN 0 ELSE x, Up(n))
      BY <2>1 DEF Position, n
    <3> QED BY <1>1, <1>5, <3>1
  <2>2. CASE c \in {"B", "e", "E"}
    <3>1. Position(c) = Set(IF c = "E" THEN 0 ELSE x, Down(n))
      BY <2>2 DEF Position, n
    <3> QED BY <1>1, <1>6, <3>1
  <2>3. CASE c \in {"C", "a"}
    <3>1. Position(c) = Set(x + Lesser(n, Cols - 1 - x), y)
      BY <2>3 DEF Position, n
    <3> QED BY <1>1, <1>7, <3>1
  <2>4. CASE c = "D"
    <3>1. Position(c) = Set(x - Lesser(n, x), y)
      BY <2>4 DEF Position, n
    <3> QED BY <1>1, <1>7, <3>1
  <2>5. CASE c = "d"
    <3>1. Position(c) = Set(x, Place(n, Rows))
      BY <2>5 DEF Position, n
    <3> QED BY <1>1, <1>9, <3>1
  <2>6. CASE c \in {"G", "GRAVE"}
    <3>1. Position(c) = Set(Place(n, Cols), y)
      BY <2>6 DEF Position, n
    <3> QED BY <1>1, <1>9, <3>1
  <2>7. CASE c \in {"H", "f"}
    <3>1. Position(c) = Set(Place(Value(c, 2), Cols), Place(n, Rows))
      BY <2>7 DEF Position, n
    <3> QED BY <1>9, <3>1
  <2>8. CASE c = "u"
    <3>1. Position(c) = Set(kept.x, kept.y)
      BY <2>8 DEF Position
    <3> QED BY <1>8, <3>1
  <2> QED BY <2>1, <2>2, <2>3, <2>4, <2>5, <2>6, <2>7, <2>8 DEF Moves
<1> QED BY <1>10, PartTypes

LEMMA ErasureTypes ==
  ASSUME PlaceTypes, ParserHolds, CursorCell \in Cells, NEW c \in Erases
  PROVE  Erasure(c) \in PartSeqs
<1> DEFINE n == Value(c, 1)
           x == cursor.x
           y == cursor.y
           back == Set(x, y)
           toEnd == (Rows - (y + 1)) * Cols + (Cols - (x + 1))
           left == [k \in 1 .. Span(x + n, Cols) |-> Copy(Cell(x + k - 1, y), Cell(x + n + k - 1, y))]
           right(i) == <<Copy(Cell(i + n, y), Cell(i, y)), Set(i, y), Put(Glyph(" "))>>
           shift == [k \in 1 .. 3 * Span(x, Cols) |->
                       right(Cols - 1 - ((k - 1) \div 3))[((k - 1) % 3) + 1]]
<1>1. /\ x \in Nat /\ y \in Nat /\ x <= Cols - 1 /\ y <= Rows - 1
      /\ Cols \in Nat \ {0} /\ Rows \in Nat \ {0}
  BY ReceivesOnGrid, TerminalAssumption DEF TerminalAssumption
<1>2. n \in Nat /\ n <= Word
  BY ValueTypes
<1>3. back \in Parts /\ Set(0, 0) \in Parts /\ Set(0, y) \in Parts
  BY <1>1, PartTypes
<1>4. toEnd \in Nat /\ y * Cols + x + 1 \in Nat
  <2>1. Rows - (y + 1) \in Nat /\ Cols - (x + 1) \in Nat
    BY <1>1
  <2>2. (Rows - (y + 1)) * Cols \in Nat /\ y * Cols \in Nat
    BY <1>1, <2>1, Product
  <2> QED BY <1>1, <2>1, <2>2
<1>5. Span(x, Cols) \in Nat /\ Span(x, Cols) = Cols - x /\ Span(x + n, Cols) \in Nat
  BY <1>1, <1>2 DEF Span
<1> HIDE DEF n
<1>6. left \in PartSeqs
  <2>1. \A k \in 1 .. Span(x + n, Cols) :
          Copy(Cell(x + k - 1, y), Cell(x + n + k - 1, y)) \in Parts
    <3> TAKE k \in 1 .. Span(x + n, Cols)
    <3>1. x + k - 1 \in Nat /\ x + n + k - 1 \in Nat
      BY <1>1, <1>2, <1>5
    <3>2. Cell(x + k - 1, y) \in Nat /\ Cell(x + n + k - 1, y) \in Nat
      BY <1>1, <3>1, CellIsNat
    <3> QED BY <3>2, PartTypes
  <2> QED BY <1>5, <2>1, SeqTypes
<1>7. shift \in PartSeqs
  <2>1. ASSUME NEW k \in 1 .. 3 * Span(x, Cols)
        PROVE  right(Cols - 1 - ((k - 1) \div 3))[((k - 1) % 3) + 1] \in Parts
    <3> DEFINE i == Cols - 1 - ((k - 1) \div 3)
               m == ((k - 1) % 3) + 1
    <3>1. k - 1 \in Nat /\ k - 1 < 3 * (Cols - x)
      BY <1>1, <1>5
    <3>2. m \in 1 .. 3 /\ (k - 1) \div 3 \in Nat /\ (k - 1) \div 3 < Cols - x
      BY <1>1, <3>1
    <3>3. i \in Nat
      BY <1>1, <3>2
    <3> HIDE DEF i, m
    <3>4. Cell(i + n, y) \in Nat /\ Cell(i, y) \in Nat
      <4>1. i + n \in Nat
        BY <1>2, <3>3
      <4> QED BY <1>1, <3>3, <4>1, CellIsNat
    <3>5. /\ Copy(Cell(i + n, y), Cell(i, y)) \in Parts /\ Set(i, y) \in Parts
          /\ Put(Glyph(" ")) \in Parts
      BY <1>1, <3>3, <3>4, PartTypes, GlyphTypes
    <3>6. right(i)[m] \in Parts
      <4>1. \A r1, r2, r3 \in Parts : \A j \in 1 .. 3 : <<r1, r2, r3>>[j] \in Parts
        OBVIOUS
      <4> QED BY <3>2, <3>5, <4>1
    <3> QED BY <3>6 DEF i, m
  <2>2. 3 * Span(x, Cols) \in Nat
    BY <1>5
  <2> HIDE DEF right
  <2> QED BY <2>1, <2>2, SeqTypes
<1> HIDE DEF back, toEnd, left, shift
<1>8. CASE c = "J" /\ n = 0
  <2>1. Erasure(c) = Append(Spaces(toEnd), back)
    BY <1>8 DEF Erasure, n, toEnd, back
  <2> QED BY <1>3, <1>4, <2>1, SpacesTypes, SeqTypes
<1>9. CASE c = "J" /\ n = 1
  <2>1. Erasure(c) = <<Set(0, 0)>> \o Append(Spaces(y * Cols + x + 1), back)
    BY <1>9 DEF Erasure, n, back
  <2>2. Append(Spaces(y * Cols + x + 1), back) \in PartSeqs /\ <<Set(0, 0)>> \in PartSeqs
    BY <1>3, <1>4, SpacesTypes, SeqTypes
  <2> QED BY <2>1, <2>2, SeqTypes
<1>10. CASE c = "J" /\ n \in {2, 3}
  <2>1. Erasure(c) = ClearAll
    BY <1>10 DEF Erasure, n
  <2> QED BY <2>1, ClearAllTypes
<1>11. CASE c = "K" /\ n = 0
  <2>1. Erasure(c) = Append(Spaces(Span(x, Cols)), back)
    BY <1>11 DEF Erasure, n, back
  <2> QED BY <1>3, <1>5, <2>1, SpacesTypes, SeqTypes
<1>12. CASE c = "K" /\ n = 1
  <2>1. Erasure(c) = <<Set(0, y)>> \o Spaces(x)
    BY <1>12 DEF Erasure, n
  <2>2. <<Set(0, y)>> \in PartSeqs /\ Spaces(x) \in PartSeqs
    BY <1>1, <1>3, SpacesTypes, SeqTypes
  <2> QED BY <2>1, <2>2, SeqTypes
<1>13. CASE c = "K" /\ n = 2
  <2>1. Erasure(c) = <<Set(0, y)>> \o Append(Spaces(Cols), back)
    BY <1>13 DEF Erasure, n, back
  <2>2. <<Set(0, y)>> \in PartSeqs /\ Append(Spaces(Cols), back) \in PartSeqs
    BY <1>1, <1>3, SpacesTypes, SeqTypes
  <2> QED BY <2>1, <2>2, SeqTypes
<1>14. CASE c = "X"
  <2>1. Erasure(c) = Append(Spaces(n), back)
    BY <1>14 DEF Erasure, n, back
  <2> QED BY <1>2, <1>3, <2>1, SpacesTypes, SeqTypes
<1>15. CASE c = "P"
  <2>1. Erasure(c) = left \o <<Set(Minus(Cols, n), y)>> \o Append(Spaces(n), back)
    BY <1>15 DEF Erasure, n, left, back
  <2>2. Minus(Cols, n) \in Nat
    BY <1>1, <1>2, MinusIsNat
  <2>3. Set(Minus(Cols, n), y) \in Parts
    BY <1>1, <2>2, PartTypes
  <2>4. <<Set(Minus(Cols, n), y)>> \in PartSeqs /\ Append(Spaces(n), back) \in PartSeqs
    BY <1>2, <1>3, <2>3, SpacesTypes, SeqTypes
  <2> QED BY <1>6, <2>1, <2>4, SeqTypes
<1>16. CASE c = "@"
  <2>1. Erasure(c) = Append(shift, back)
    BY <1>16 DEF Erasure, n, shift, back
  <2> QED BY <1>3, <1>7, <2>1, SeqTypes
<1>17. CASE (c = "J" /\ n \notin {0, 1, 2, 3}) \/ (c = "K" /\ n \notin {0, 1, 2})
  <2>1. Erasure(c) = <<>>
    BY <1>17 DEF Erasure, n
  <2> QED BY <2>1, SeqTypes
<1> QED BY <1>8, <1>9, <1>10, <1>11, <1>12, <1>13, <1>14, <1>15, <1>16, <1>17 DEF Erases

-----------------------------------------------------------------------------
(***************************************************************************)
(* The invariant                                                           *)
(***************************************************************************)
ScreenInv == BufferTypes /\ Queued /\ Displayed /\ old \in Place2

FlagTypes == /\ visible \in BOOLEAN /\ scrolling \in BOOLEAN
             /\ defined \in BOOLEAN /\ narrowed \in BOOLEAN

SavedTypes == saved \in [cursor : Place2, attr : Attr, plain : Attr, strayed : SUBSET BothColours,
                       current : {0, 1}]

\* PaletteAgrees, also of what ESC 8 restores.
ColourInv == /\ mode \in Mode /\ SavedTypes
             /\ Agrees(attr, plain, strayed)
             /\ Agrees(saved.attr, saved.plain, saved.strayed)

IInv == /\ ScreenInv /\ PlaceTypes /\ FlagTypes /\ ColourInv /\ ParserHolds
        /\ todo \in PartSeqs

\* A step that leaves the buffers and the screen alone edits nothing.
LEMMA ScreenKept == ASSUME ScreenInv, UNCHANGED <<buffers, display>>
                    PROVE  ScreenInv' /\ TS!Edit
<1>1. UNCHANGED <<grid, queue, map, old, shown>>
  BY DEF buffers, display
<1>2. ScreenInv'
  BY <1>1 DEF ScreenInv, BufferTypes, Queued, Displayed, OldCell
<1>3. Text' = Text
  BY <1>1 DEF Text, Content
<1>4. 0 \in Cells
  BY SizePositive DEF Cells
<1>5. Text' = [Text EXCEPT ![0] = Text'[0]]
  BY <1>3 DEF Text
<1> QED BY <1>1, <1>2, <1>4, <1>5 DEF TS!Edit

\* A step that pushes a change edits one cell.
LEMMA ScreenPushed ==
  ASSUME ScreenInv, NEW i \in Nat, NEW ch \in Character, Push(i, ch), UNCHANGED display
  PROVE  ScreenInv' /\ TS!Edit
<1>1. UNCHANGED <<old, shown>>
  BY DEF display
<1>2. /\ BufferTypes' /\ Queued' /\ grid' = grid
      /\ \E j \in Cells : \A k \in Cells : k # j => Content(k)' = Content(k)
  BY PushKeeps DEF ScreenInv
<1>3. ScreenInv'
  BY <1>1, <1>2 DEF ScreenInv, Displayed, OldCell
<1>4. PICK j \in Cells : \A k \in Cells : k # j => Content(k)' = Content(k)
  BY <1>2
<1>5. Text' = [Text EXCEPT ![j] = Text'[j]]
  BY <1>4 DEF Text
<1> QED BY <1>1, <1>3, <1>5 DEF TS!Edit

LEMMA IdleTypes ==
  /\ Idle.n = 0 /\ Idle.rrr = FALSE /\ Idle \in Parser
  /\ \A p \in Phases : [Idle EXCEPT !.phase = p] \in Parser
  /\ [Idle EXCEPT !.phase = "control", !.first = TRUE] \in Parser
  /\ \A p \in Phases : [Idle EXCEPT !.phase = p].n = 0 /\ [Idle EXCEPT !.phase = p].rrr = FALSE
  /\ [Idle EXCEPT !.phase = "control", !.first = TRUE].n = 0
  /\ [Idle EXCEPT !.phase = "control", !.first = TRUE].rrr = FALSE
<1>1. /\ Idle \in Parser /\ Idle.n = 0 /\ Idle.rrr = FALSE
  <2>1. [k \in 1 .. MaxValues |-> 0] \in [1 .. MaxValues -> 0 .. MaxValue]
    BY TerminalAssumption DEF TerminalAssumption
  <2>2. "ground" \in Phases
    BY DEF Phases
  <2> QED BY <2>1, <2>2 DEF Idle, Parser
<1>2. ASSUME NEW p \in Phases
      PROVE  /\ [Idle EXCEPT !.phase = p] \in Parser
             /\ [Idle EXCEPT !.phase = p].n = 0 /\ [Idle EXCEPT !.phase = p].rrr = FALSE
  BY <1>1, <1>2 DEF Parser
<1>3. /\ [Idle EXCEPT !.phase = "control", !.first = TRUE] \in Parser
      /\ [Idle EXCEPT !.phase = "control", !.first = TRUE].n = 0
      /\ [Idle EXCEPT !.phase = "control", !.first = TRUE].rrr = FALSE
  <2>1. "control" \in Phases
    BY DEF Phases
  <2> QED BY <1>1, <2>1 DEF Parser
<1> QED BY <1>1, <1>2, <1>3

LEMMA Beginnings ==
  ASSUME \/ parser' = Idle
         \/ \E p \in Phases : parser' = [Idle EXCEPT !.phase = p]
         \/ parser' = [Idle EXCEPT !.phase = "control", !.first = TRUE]
  PROVE  ParserHolds'
<1>1. parser' \in Parser /\ parser'.n = 0 /\ parser'.rrr = FALSE
  BY IdleTypes
<1> QED BY <1>1, TerminalAssumption DEF TerminalAssumption, ParserHolds

\* A number stays in its place and below the bound.
LEMMA ParsesTypes == ASSUME ParserHolds, NEW c, Parses(c) PROVE ParserHolds'
<1>1. /\ parser \in Parser /\ parser.n \in Nat /\ parser.n <= MaxValues
      /\ (parser.rrr => parser.n < MaxValues) /\ parser.rrr \in BOOLEAN
      /\ parser.values \in [1 .. MaxValues -> 0 .. MaxValue]
      /\ MaxValues \in Nat \ {0} /\ MaxValue \in Nat
  BY TerminalAssumption DEF TerminalAssumption, ParserHolds, Parser
<1>2. CASE parser' = [Idle EXCEPT !.phase = "discard"]
  <2>1. "discard" \in Phases
    BY DEF Phases
  <2> QED BY <1>2, <2>1, Beginnings
<1>3. CASE parser' = [parser EXCEPT !.first = FALSE, !.private = TRUE]
  <2>1. parser' \in Parser /\ parser'.n = parser.n /\ parser'.rrr = parser.rrr
    BY <1>1, <1>3 DEF Parser
  <2> QED BY <1>1, <2>1 DEF ParserHolds
<1>4. ASSUME parser.n # MaxValues, NEW v \in Nat, v <= MaxValue,
             parser' = [parser EXCEPT !.first = FALSE, !.rrr = TRUE, !.values[parser.n + 1] = v]
      PROVE  ParserHolds'
  <2>1. parser.n + 1 \in 1 .. MaxValues /\ v \in 0 .. MaxValue
    BY <1>1, <1>4
  <2>2. [parser.values EXCEPT ![parser.n + 1] = v] \in [1 .. MaxValues -> 0 .. MaxValue]
    BY <1>1, <2>1
  <2>3. parser' \in Parser /\ parser'.n = parser.n
    BY <1>1, <1>4, <2>2 DEF Parser
  <2> QED BY <1>1, <1>4, <2>3 DEF ParserHolds
<1>5. CASE parser.rrr /\ parser' = [parser EXCEPT !.first = FALSE, !.rrr = FALSE, !.n = @ + 1]
  <2>1. parser.n + 1 \in Nat /\ parser.n + 1 <= MaxValues
    BY <1>1, <1>5
  <2>2. parser' \in Parser /\ parser'.n = parser.n + 1 /\ parser'.rrr = FALSE
    BY <1>1, <1>5, <2>1 DEF Parser
  <2> QED BY <2>1, <2>2 DEF ParserHolds
<1>6. CASE /\ ~parser.rrr /\ parser.n # MaxValues
           /\ parser' = [parser EXCEPT !.first = FALSE, !.values[parser.n + 1] = 0, !.n = @ + 1]
  <2>1. parser.n + 1 \in 1 .. MaxValues /\ parser.n + 1 \in Nat /\ 0 \in 0 .. MaxValue
    BY <1>1, <1>6
  <2>2. [parser.values EXCEPT ![parser.n + 1] = 0] \in [1 .. MaxValues -> 0 .. MaxValue]
    BY <1>1, <2>1
  <2>3. parser' \in Parser /\ parser'.n = parser.n + 1 /\ parser'.rrr = parser.rrr
    BY <1>1, <1>6, <2>1, <2>2 DEF Parser
  <2> QED BY <1>1, <1>6, <2>1, <2>3 DEF ParserHolds
<1>7. CASE parser' = [parser EXCEPT !.first = FALSE]
  <2>1. parser' \in Parser /\ parser'.n = parser.n /\ parser'.rrr = parser.rrr
    BY <1>1, <1>7 DEF Parser
  <2> QED BY <1>1, <2>1 DEF ParserHolds
<1>8. ASSUME c \in Digit PROVE Number(c) \in Nat
  <2>1. PICK k \in DOMAIN Digits : Digits[k] = c
    BY <1>8 DEF Digit
  <2>2. DOMAIN Digits \subseteq Nat \ {0}
    BY DEF Digits
  <2>3. (CHOOSE j \in DOMAIN Digits : Digits[j] = c) \in DOMAIN Digits
    BY <2>1
  <2>4. (CHOOSE j \in DOMAIN Digits : Digits[j] = c) \in Nat \ {0}
    BY <2>2, <2>3
  <2> QED BY <2>4 DEF Number
<1>9. CASE c \in Digit /\ parser.n # MaxValues
  <2> DEFINE v == parser.values[parser.n + 1] * 10 + Number(c)
  <2>1. parser.n + 1 \in 1 .. MaxValues
    BY <1>1, <1>9
  <2>2. parser.values[parser.n + 1] \in Nat
    BY <1>1, <2>1
  <2>3. v \in Nat
    BY <1>8, <1>9, <2>2
  <2>4. \/ parser' = [Idle EXCEPT !.phase = "discard"]
        \/ parser' = [parser EXCEPT !.first = FALSE, !.private = TRUE]
        \/ v <= MaxValue
            /\ parser' = [parser EXCEPT !.first = FALSE, !.rrr = TRUE, !.values[parser.n + 1] = v]
        \/ parser.rrr /\ parser' = [parser EXCEPT !.first = FALSE, !.rrr = FALSE, !.n = @ + 1]
        \/ /\ ~parser.rrr /\ parser.n # MaxValues
           /\ parser' = [parser EXCEPT !.first = FALSE, !.values[parser.n + 1] = 0, !.n = @ + 1]
        \/ parser' = [parser EXCEPT !.first = FALSE]
    BY DEF Parses
  <2> HIDE DEF v
  <2> QED BY <1>2, <1>3, <1>4, <1>5, <1>6, <1>7, <1>9, <2>3, <2>4
<1>10. CASE ~(c \in Digit /\ parser.n # MaxValues)
  BY <1>2, <1>3, <1>5, <1>6, <1>7, <1>10 DEF Parses
<1> QED BY <1>9, <1>10

-----------------------------------------------------------------------------
(***************************************************************************)
(* What is done to the grid                                                *)
(***************************************************************************)
LEMMA HeadTypes ==
  ASSUME NEW p \in Parts
  PROVE  /\ p.op = "put" => p.c \in Glyphs
         /\ p.op = "set" => p.x \in Nat /\ p.y \in Nat
         /\ p.op = "copy" => p.to \in Nat /\ p.from \in Nat
         /\ p.op = "clear" => p.at \in Nat
         /\ p.op = "graphics" => p.v \in Nat
  BY DEF Parts

\* What a part leaves alone.
LEMMA PartKeeps ==
  ASSUME IInv, NEW op, Part(op)
  PROVE  /\ Head(todo) \in Parts /\ Head(todo).op = op /\ Tail(todo) \in PartSeqs
         /\ UNCHANGED display /\ ParserHolds' /\ MarginTypes' /\ kept' \in Place2
         /\ mode' \in Mode /\ SavedTypes' /\ saved' = saved
         /\ visible' \in BOOLEAN /\ defined' \in BOOLEAN /\ narrowed' \in BOOLEAN
<1>1. /\ todo # <<>> /\ Head(todo).op = op
      /\ UNCHANGED <<display, parser, defined, visible, mode, margins, narrowed, kept, saved>>
  BY DEF Part
<1>2. Head(todo) \in Parts /\ Tail(todo) \in PartSeqs
  BY <1>1, SeqTypes DEF IInv
<1>3. ParserHolds'
  BY <1>1 DEF IInv, ParserHolds
<1> QED BY <1>1, <1>2, <1>3 DEF IInv, PlaceTypes, MarginTypes, ColourInv, SavedTypes, FlagTypes

LEMMA PutCharStep == ASSUME IInv, PutChar PROVE IInv' /\ TS!Edit
<1> DEFINE wraps == cursor.x + 1 = Cols /\ (cursor.y < Minus(margins.bottom, 1) \/ scrolling)
           x == IF wraps THEN 0 ELSE cursor.x + 1
           y == IF wraps THEN (cursor.y + 1) % Word ELSE cursor.y
<1>1. Part("put")
  BY DEF PutChar
<1>2. /\ Push(CursorCell, Char(Head(todo).c, attr))
      /\ UNCHANGED <<attr, plain, strayed, scrolling>>
      /\ IF y = margins.bottom
         THEN cursor' = At(x, Minus(y, 1)) /\ todo' = Scroll \o Tail(todo)
         ELSE cursor' = At(x, y) /\ todo' = Tail(todo)
  BY DEF PutChar
<1>3. cursor.x \in Nat /\ cursor.y \in Nat
  BY DEF IInv, PlaceTypes, Place2
<1>4. x \in Nat /\ y \in Nat
  BY <1>3, WordIsLarge
<1>5. CursorCell \in Nat /\ Char(Head(todo).c, attr) \in Character
  BY <1>1, <1>3, PartKeeps, HeadTypes, CharTypes, CellIsNat DEF CursorCell, IInv, ColourInv, Agrees
<1>6. ScreenInv' /\ TS!Edit
  BY <1>1, <1>2, <1>5, PartKeeps, ScreenPushed DEF IInv
<1> HIDE DEF x, y
<1>7. cursor' \in Place2
  <2>1. Minus(y, 1) \in Nat
    BY <1>4, MinusIsNat, WordIsLarge
  <2> QED BY <1>2, <1>4, <2>1 DEF At, Place2
<1>8. todo' \in PartSeqs
  BY <1>1, <1>2, PartKeeps, ScrollTypes, SeqTypes DEF IInv, PlaceTypes
<1> QED BY <1>1, <1>2, <1>6, <1>7, <1>8, PartKeeps DEF IInv, PlaceTypes, FlagTypes, ColourInv

LEMMA SetCursorPosStep == ASSUME IInv, SetCursorPos PROVE IInv' /\ TS!Edit
<1>1. /\ Part("set") /\ todo' = Tail(todo)
      /\ cursor' = At(Clamp(Head(todo).x, Cols), Clamp(Head(todo).y, Rows))
      /\ UNCHANGED <<buffers, attr, plain, strayed, scrolling>>
  BY DEF SetCursorPos
<1>2. Head(todo).x \in Nat /\ Head(todo).y \in Nat
  BY <1>1, PartKeeps, HeadTypes
<1>3. cursor' \in Place2
  <2>1. \A v \in Nat, n \in Nat \ {0} : Clamp(v, n) \in Nat
    BY DEF Clamp
  <2> QED BY <1>1, <1>2, <2>1, TerminalAssumption DEF TerminalAssumption, At, Place2
<1>4. UNCHANGED <<buffers, display>>
  BY <1>1, PartKeeps
<1>5. ScreenInv' /\ TS!Edit
  BY <1>4, ScreenKept DEF IInv
<1> QED BY <1>1, <1>3, <1>5, PartKeeps DEF IInv, PlaceTypes, FlagTypes, ColourInv

LEMMA MoveCharacterStep == ASSUME IInv, MoveCharacter PROVE IInv' /\ TS!Edit
<1> DEFINE h == Head(todo)
<1>1. /\ Part("copy") /\ todo' = Tail(todo)
      /\ IF h.from \in Cells THEN Push(h.to, Content(h.from)) ELSE UNCHANGED buffers
      /\ UNCHANGED <<cursor, attr, plain, strayed, scrolling>>
  BY DEF MoveCharacter
<1>2. h.to \in Nat
  BY <1>1, PartKeeps, HeadTypes
<1>3. CASE h.from \in Cells
  <2>1. Content(h.from) \in Character
    BY <1>3, ContentTypes DEF IInv, ScreenInv
  <2>2. ScreenInv' /\ TS!Edit
    BY <1>1, <1>2, <1>3, <2>1, PartKeeps, ScreenPushed DEF IInv
  <2> QED BY <1>1, <2>2, PartKeeps DEF IInv, PlaceTypes, FlagTypes, ColourInv
<1>4. CASE h.from \notin Cells
  <2>1. UNCHANGED <<buffers, display>>
    BY <1>1, <1>4, PartKeeps
  <2>2. ScreenInv' /\ TS!Edit
    BY <2>1, ScreenKept DEF IInv
  <2> QED BY <1>1, <2>2, PartKeeps DEF IInv, PlaceTypes, FlagTypes, ColourInv
<1> QED BY <1>3, <1>4

LEMMA ClearCellStep == ASSUME IInv, ClearCell PROVE IInv' /\ TS!Edit
<1>1. /\ Part("clear") /\ todo' = Tail(todo)
      /\ Push(Head(todo).at, Char(Glyph(" "), attr))
      /\ UNCHANGED <<cursor, attr, plain, strayed, scrolling>>
  BY DEF ClearCell
<1>2. Head(todo).at \in Nat /\ Char(Glyph(" "), attr) \in Character
  BY <1>1, PartKeeps, HeadTypes, GlyphTypes, CharTypes DEF IInv, ColourInv, Agrees
<1>3. ScreenInv' /\ TS!Edit
  BY <1>1, <1>2, PartKeeps, ScreenPushed DEF IInv
<1> QED BY <1>1, <1>3, PartKeeps DEF IInv, PlaceTypes, FlagTypes, ColourInv

LEMMA SelectGraphicStep == ASSUME IInv, SelectGraphic PROVE IInv' /\ TS!Edit
<1> DEFINE v == Head(todo).v
<1>1. /\ Part("graphics") /\ todo' = Tail(todo)
      /\ attr' = Sgr(attr, v) /\ plain' = IF v \in {7, 27} THEN plain ELSE Sgr(plain, v)
      /\ strayed' = strayed \ SetBy(plain, v)
      /\ UNCHANGED <<buffers, cursor, scrolling>>
  BY DEF SelectGraphic
<1>2. v \in Nat
  BY <1>1, PartKeeps, HeadTypes
<1> HIDE DEF v
<1>3. Agrees(attr', plain', strayed')
  BY <1>1, <1>2, AgreementKept DEF IInv, ColourInv
<1>4. UNCHANGED <<buffers, display>>
  BY <1>1, PartKeeps
<1>5. ScreenInv' /\ TS!Edit
  BY <1>4, ScreenKept DEF IInv
<1>6. ColourInv'
  BY <1>1, <1>3, PartKeeps DEF IInv, ColourInv, Agrees
<1> QED BY <1>1, <1>5, <1>6, PartKeeps DEF IInv, PlaceTypes, FlagTypes

LEMMA ScrollEnableStep == ASSUME IInv, ScrollEnable PROVE IInv' /\ TS!Edit
<1>1. /\ Part("enable") /\ todo' = Tail(todo) /\ scrolling' = TRUE
      /\ UNCHANGED <<buffers, cursor, attr, plain, strayed>>
  BY DEF ScrollEnable
<1>2. UNCHANGED <<buffers, display>>
  BY <1>1, PartKeeps
<1>3. ScreenInv' /\ TS!Edit
  BY <1>2, ScreenKept DEF IInv
<1> QED BY <1>1, <1>3, PartKeeps DEF IInv, PlaceTypes, FlagTypes, ColourInv

-----------------------------------------------------------------------------
(***************************************************************************)
(* What is received                                                        *)
(***************************************************************************)
LEMMA ReceiveKeeps == ASSUME IInv, NEW phase, Receives(phase)
                      PROVE  ScreenInv' /\ TS!Edit /\ CursorCell \in Cells
<1>1. UNCHANGED <<buffers, display>> /\ CursorCell \in Cells
  BY DEF Receives
<1> QED BY <1>1, ScreenKept DEF IInv

\* The types of what an action leaves alone.
LEMMA PlaceKept == ASSUME IInv, UNCHANGED <<cursor, kept, margins>>
                   PROVE  PlaceTypes'
  BY DEF IInv, PlaceTypes, MarginTypes

LEMMA FlagsKept == ASSUME IInv, UNCHANGED <<visible, scrolling, defined, narrowed>>
                   PROVE  FlagTypes'
  BY DEF IInv, FlagTypes

LEMMA ColoursKept == ASSUME IInv, UNCHANGED <<attr, plain, strayed, saved>>, mode' \in Mode
                     PROVE  ColourInv'
  BY DEF IInv, ColourInv, SavedTypes

LEMMA ParserKept == ASSUME IInv, UNCHANGED parser PROVE ParserHolds'
  BY DEF IInv, ParserHolds

\* Characters outside of sequences.
LEMMA MoveStep == ASSUME IInv, NEW c, Move(c) PROVE IInv' /\ TS!Edit
<1>1. /\ Receives("ground") /\ c \in Simple /\ todo' = Movement(c)
      /\ UNCHANGED <<context, cursor, scrolling, parser, defined>>
  BY DEF Move
<1>2. todo' \in PartSeqs
  BY <1>1, MovementTypes DEF IInv
<1>3. ScreenInv' /\ TS!Edit
  BY <1>1, ReceiveKeeps
<1>4. mode' \in Mode
  BY <1>1 DEF context, IInv, ColourInv
<1> QED BY <1>1, <1>2, <1>3, <1>4, PlaceKept, FlagsKept, ColoursKept, ParserKept DEF IInv, context

LEMMA ShiftStep == ASSUME IInv, NEW c, Shift(c) PROVE IInv' /\ TS!Edit
<1>1. /\ Receives("ground") /\ mode' = [mode EXCEPT !.current = IF c = "SO" THEN 1 ELSE 0]
      /\ UNCHANGED <<visible, attr, plain, strayed, narrowed, kept, saved>>
      /\ UNCHANGED <<margins, cursor, scrolling, parser, todo, defined>>
  BY DEF Shift, Keep
<1>2. mode' \in Mode
  BY <1>1 DEF IInv, ColourInv, Mode
<1>3. ScreenInv' /\ TS!Edit
  BY <1>1, ReceiveKeeps
<1> QED BY <1>1, <1>2, <1>3, PlaceKept, FlagsKept, ColoursKept, ParserKept DEF IInv

\* A step that changes the parser only.
LEMMA ParserStep ==
  ASSUME IInv, NEW phase, Receives(phase), ParserHolds',
         UNCHANGED <<context, cursor, scrolling, todo, defined>>
  PROVE  IInv' /\ TS!Edit
<1>1. ScreenInv' /\ TS!Edit
  BY ReceiveKeeps
<1>2. mode' \in Mode
  BY DEF context, IInv, ColourInv
<1> QED BY <1>1, <1>2, PlaceKept, FlagsKept, ColoursKept DEF IInv, context

LEMMA IntroduceStep == ASSUME IInv, NEW c, Introduce(c) PROVE IInv' /\ TS!Edit
<1>1. /\ Receives("ground") /\ UNCHANGED <<context, cursor, scrolling, todo, defined>>
      /\ parser' = [Idle EXCEPT !.phase = IF c = "ESC" THEN "escape" ELSE "csi"]
  BY DEF Introduce
<1>2. (IF c = "ESC" THEN "escape" ELSE "csi") \in Phases
  BY DEF Phases
<1> QED BY <1>1, <1>2, Beginnings, ParserStep

LEMMA ShowStep == ASSUME IInv, NEW c \in Chars, Show(c) PROVE IInv' /\ TS!Edit
<1> DEFINE y == cursor.y
           shift == [k \in 1 .. Span(cursor.x, Cols) |->
                       Copy(Cell(Cols - k + 1, y), Cell(Cols - k, y))]
           glyph == IF mode.sets[mode.current] = "dec" THEN Special(c) ELSE Glyph(c)
<1>1. /\ Receives("ground")
      /\ todo' = Append(IF mode.insert THEN shift ELSE <<>>, Put(glyph))
      /\ UNCHANGED <<context, cursor, scrolling, parser, defined>>
  BY DEF Show
<1>2. glyph \in Glyphs
  BY GlyphTypes
<1>3. /\ cursor.x \in Nat /\ y \in Nat /\ cursor.x <= Cols - 1 /\ Cols \in Nat \ {0}
  BY <1>1, ReceivesOnGrid, ReceiveKeeps, TerminalAssumption DEF TerminalAssumption, IInv
<1>4. Span(cursor.x, Cols) \in Nat /\ Span(cursor.x, Cols) <= Cols
  BY <1>3 DEF Span
<1>5. shift \in PartSeqs
  <2>1. ASSUME NEW k \in 1 .. Span(cursor.x, Cols)
        PROVE  Copy(Cell(Cols - k + 1, y), Cell(Cols - k, y)) \in Parts
    <3>1. Cols - k + 1 \in Nat /\ Cols - k \in Nat
      BY <1>3, <1>4
    <3>2. Cell(Cols - k + 1, y) \in Nat /\ Cell(Cols - k, y) \in Nat
      BY <1>3, <3>1, CellIsNat
    <3> QED BY <3>2, PartTypes
  <2> QED BY <1>4, <2>1, SeqTypes
<1> HIDE DEF shift, glyph
<1>6. todo' \in PartSeqs
  <2>1. (IF mode.insert THEN shift ELSE <<>>) \in PartSeqs /\ Put(glyph) \in Parts
    BY <1>2, <1>5, SeqTypes, PartTypes
  <2> QED BY <1>1, <2>1, SeqTypes
<1>7. ScreenInv' /\ TS!Edit
  BY <1>1, ReceiveKeeps
<1>8. mode' \in Mode
  BY <1>1 DEF context, IInv, ColourInv
<1> QED BY <1>1, <1>6, <1>7, <1>8, PlaceKept, FlagsKept, ColoursKept, ParserKept DEF IInv, context

LEMMA DiscardStep == ASSUME IInv, NEW c, Discard(c) PROVE IInv' /\ TS!Edit
<1>1. /\ Receives("discard") /\ parser' = Idle
      /\ UNCHANGED <<context, cursor, scrolling, todo, defined>>
  BY DEF Discard, Ends
<1> QED BY <1>1, Beginnings, ParserStep

LEMMA SelectCharsetStep == ASSUME IInv, NEW c, SelectCharset(c) PROVE IInv' /\ TS!Edit
<1>1. PICK g \in {0, 1} :
        /\ Ends(IF g = 0 THEN "(" ELSE ")")
        /\ mode' = IF c \in {"B", "0"}
                   THEN [mode EXCEPT !.sets[g] = IF c = "0" THEN "dec" ELSE "default"] ELSE mode
        /\ UNCHANGED <<visible, attr, plain, strayed, narrowed, kept, saved>>
        /\ UNCHANGED <<margins, cursor, scrolling, todo, defined>>
  BY DEF SelectCharset, Keep
<1>2. mode' \in Mode
  <2>1. mode \in Mode /\ mode.sets \in [{0, 1} -> {"default", "dec"}]
    BY DEF IInv, ColourInv, Mode
  <2>2. [mode.sets EXCEPT ![g] = IF c = "0" THEN "dec" ELSE "default"] \in [{0, 1} -> {"default", "dec"}]
    BY <2>1
  <2>3. [mode EXCEPT !.sets[g] = IF c = "0" THEN "dec" ELSE "default"] \in Mode
    BY <2>1, <2>2 DEF Mode
  <2> QED BY <1>1, <2>1, <2>3
<1>3. ScreenInv' /\ TS!Edit /\ ParserHolds'
  BY <1>1, ReceiveKeeps, Beginnings DEF Ends
<1> QED BY <1>1, <1>2, <1>3, PlaceKept, FlagsKept, ColoursKept DEF IInv

\* Escape sequences.
LEMMA BeginStep == ASSUME IInv, NEW c, Begin(c) PROVE IInv' /\ TS!Edit
<1>1. /\ Receives("csi") \/ Receives("escape")
      /\ parser' = [Idle EXCEPT !.phase = "control", !.first = TRUE]
      /\ UNCHANGED <<context, cursor, scrolling, todo, defined>>
  BY DEF Begin
<1>2. ParserHolds'
  BY <1>1, Beginnings
<1> QED BY <1>1, <1>2, ParserStep

LEMMA SelectSetStep == ASSUME IInv, NEW c, SelectSet(c) PROVE IInv' /\ TS!Edit
<1>1. /\ Receives("escape") /\ c \in {"(", ")"} /\ parser' = [Idle EXCEPT !.phase = c]
      /\ UNCHANGED <<context, cursor, scrolling, todo, defined>>
  BY DEF SelectSet
<1>2. c \in Phases
  BY <1>1 DEF Phases
<1> QED BY <1>1, <1>2, Beginnings, ParserStep

LEMMA EscapeOtherStep == ASSUME IInv, NEW c, EscapeOther(c) PROVE IInv' /\ TS!Edit
<1>1. /\ Receives("escape") /\ parser' = Idle
      /\ UNCHANGED <<context, cursor, scrolling, todo, defined>>
  BY DEF EscapeOther, Ends
<1> QED BY <1>1, Beginnings, ParserStep

LEMMA ParseStep == ASSUME IInv, NEW c, Parse(c) PROVE IInv' /\ TS!Edit
<1>1. /\ Receives("control") /\ Parses(c)
      /\ UNCHANGED <<context, cursor, scrolling, todo, defined>>
  BY DEF Parse
<1>2. ParserHolds'
  BY <1>1, ParsesTypes DEF IInv
<1> QED BY <1>1, <1>2, ParserStep

\* What every end of a sequence has in common.
LEMMA EndsStep == ASSUME IInv, NEW phase, Ends(phase)
                  PROVE  /\ ScreenInv' /\ TS!Edit /\ ParserHolds'
                         /\ CursorCell \in Cells /\ todo = <<>>
<1>1. Receives(phase) /\ parser' = Idle /\ todo = <<>>
  BY DEF Ends, Receives
<1> QED BY <1>1, ReceiveKeeps, Beginnings

LEMMA SaveStateStep == ASSUME IInv, NEW c, SaveState(c) PROVE IInv' /\ TS!Edit
<1>1. /\ Ends("escape")
      /\ saved' = [cursor |-> cursor, attr |-> attr, plain |-> plain, strayed |-> strayed,
                   current |-> mode.current]
      /\ UNCHANGED <<visible, attr, plain, strayed, mode, margins, narrowed, kept>>
      /\ UNCHANGED <<cursor, scrolling, todo, defined>>
  BY DEF SaveState
<1>2. /\ cursor \in Place2 /\ attr \in Attr /\ plain \in Attr /\ strayed \in SUBSET BothColours
      /\ mode \in Mode /\ Agrees(attr, plain, strayed)
  BY DEF IInv, PlaceTypes, ColourInv, Agrees
<1>3. mode.current \in {0, 1}
  BY <1>2 DEF Mode
<1>4. /\ saved' \in [cursor : Place2, attr : Attr, plain : Attr, strayed : SUBSET BothColours,
                       current : {0, 1}]
      /\ saved'.attr = attr /\ saved'.plain = plain /\ saved'.strayed = strayed
  BY <1>1, <1>2, <1>3
<1>5. ColourInv'
  BY <1>1, <1>2, <1>4 DEF ColourInv, SavedTypes
<1> QED BY <1>1, <1>5, EndsStep, PlaceKept, FlagsKept DEF IInv

LEMMA RestoreStateStep == ASSUME IInv, NEW c, RestoreState(c) PROVE IInv' /\ TS!Edit
<1>1. /\ Ends("escape")
      /\ cursor' = saved.cursor /\ attr' = saved.attr
      /\ plain' = saved.plain /\ strayed' = saved.strayed
      /\ mode' = [mode EXCEPT !.current = saved.current]
      /\ UNCHANGED <<visible, margins, narrowed, kept, saved, scrolling, todo, defined>>
  BY DEF RestoreState
<1>2. /\ saved \in [cursor : Place2, attr : Attr, plain : Attr, strayed : SUBSET BothColours,
                       current : {0, 1}]
      /\ Agrees(saved.attr, saved.plain, saved.strayed) /\ mode \in Mode
  BY DEF IInv, ColourInv, SavedTypes
<1>3. cursor' \in Place2 /\ saved.current \in {0, 1}
  BY <1>1, <1>2
<1>4. mode' \in Mode
  BY <1>1, <1>2, <1>3 DEF Mode
<1>5. ColourInv'
  BY <1>1, <1>2, <1>4 DEF ColourInv, SavedTypes
<1>6. PlaceTypes'
  BY <1>1, <1>3 DEF IInv, PlaceTypes, MarginTypes
<1> QED BY <1>1, <1>5, <1>6, EndsStep, FlagsKept DEF IInv

LEMMA ModeTypes == DefaultMode \in Mode /\ FullMargins \in [top : 0 .. (Rows - 1), bottom : 0 .. Rows]
<1>1. DefaultMode \in Mode
  BY DEF DefaultMode, Mode
<1>2. FullMargins \in [top : 0 .. (Rows - 1), bottom : 0 .. Rows]
  BY TerminalAssumption DEF TerminalAssumption, FullMargins
<1> QED BY <1>1, <1>2

LEMMA ResetStep == ASSUME IInv, NEW c, Reset(c) PROVE IInv' /\ TS!Edit
<1>1. /\ Ends("escape")
      /\ attr' = [attr EXCEPT !.bold = FALSE, !.reverse = FALSE, !.primary = NoColour]
      /\ plain' = [plain EXCEPT !.bold = FALSE, !.primary = NoColour]
      /\ strayed' = IF attr.reverse THEN BothColours ELSE strayed
      /\ mode' = DefaultMode /\ margins' = FullMargins /\ kept' = Home
      /\ todo' = Append(ClearAll, Set(0, 0))
      /\ UNCHANGED <<visible, narrowed, saved, cursor, scrolling, defined>>
  BY DEF Reset
<1>2. attr \in Attr /\ plain \in Attr /\ Agrees(attr, plain, strayed)
  BY DEF IInv, ColourInv, Agrees
<1>3. Agrees(attr', plain', strayed')
  <2>1. NoColour \in 0 .. NoColour
    BY DEF NoColour
  <2>2. /\ attr' \in Attr /\ attr'.bold = FALSE /\ attr'.primary = NoColour
        /\ attr'.reverse = FALSE /\ attr'.fg = attr.fg /\ attr'.bg = attr.bg
    BY <1>1, <1>2, <2>1 DEF Attr
  <2>3. /\ plain' \in Attr /\ plain'.bold = FALSE /\ plain'.primary = NoColour
        /\ plain'.reverse = plain.reverse /\ plain'.fg = plain.fg /\ plain'.bg = plain.bg
    BY <1>1, <1>2, <2>1 DEF Attr
  <2>4. strayed' \subseteq BothColours /\ (attr.reverse \/ strayed' = strayed)
    BY <1>1, <1>2 DEF Agrees
  <2>5. ~ attr.reverse => /\ TextColour(attr') = TextColour(attr)
                          /\ BackColour(attr') = BackColour(attr)
    BY <2>2 DEF TextColour, BackColour
  <2>6. attr.reverse => strayed' = BothColours /\ {"text", "back"} \subseteq strayed'
    BY <1>1 DEF BothColours
  <2> QED BY <1>2, <2>2, <2>3, <2>4, <2>5, <2>6 DEF Agrees
<1>4. ColourInv'
  BY <1>1, <1>3, ModeTypes DEF IInv, ColourInv, SavedTypes, Agrees
<1>5. PlaceTypes'
  BY <1>1, ModeTypes DEF IInv, PlaceTypes, MarginTypes, Home, At, Place2
<1>6. todo' \in PartSeqs
  BY <1>1, ClearAllTypes, PartTypes, SeqTypes
<1> QED BY <1>1, <1>4, <1>5, <1>6, EndsStep, FlagsKept DEF IInv

LEMMA EscapeLineStep == ASSUME IInv, NEW c, EscapeLine(c) PROVE IInv' /\ TS!Edit
<1> DEFINE atTop == cursor.y = margins.top
<1>1. /\ Ends("escape") /\ c \in Lines
      /\ defined' = ~(c = "M" /\ atTop /\ margins.bottom = 0)
      /\ todo' = CASE c = "D" -> NextLine(cursor.x)
                   [] c = "E" -> NextLine(0)
                   [] c = "M" -> IF ~atTop THEN <<Set(0, Minus(cursor.y, 1))>>
                                 ELSE IF margins.bottom = 0 THEN <<>>
                                 ELSE Append(RevScroll, Set(0, cursor.y))
                   [] c = "ESC" -> <<Put(Glyph(c))>>
      /\ UNCHANGED <<context, cursor, scrolling>>
  BY DEF EscapeLine
<1>2. cursor.x \in Nat /\ cursor.y \in Nat /\ PlaceTypes /\ MarginTypes
  BY DEF IInv, PlaceTypes, Place2
<1>3. ASSUME c = "M" PROVE todo' \in PartSeqs
  <2>1. Minus(cursor.y, 1) \in Nat
    BY <1>2, MinusIsNat, WordIsLarge
  <2>2. Set(0, Minus(cursor.y, 1)) \in Parts /\ Set(0, cursor.y) \in Parts
    BY <1>2, <2>1, PartTypes
  <2>3. todo' = IF ~atTop THEN <<Set(0, Minus(cursor.y, 1))>>
                ELSE IF margins.bottom = 0 THEN <<>>
                ELSE Append(RevScroll, Set(0, cursor.y))
    BY <1>1, <1>3
  <2> QED BY <1>2, <2>2, <2>3, RevScrollTypes, SeqTypes
<1>4. ASSUME c = "ESC" PROVE todo' \in PartSeqs
  <2>1. todo' = <<Put(Glyph("ESC"))>>
    BY <1>1, <1>4
  <2> QED BY <2>1, GlyphTypes, PartTypes, SeqTypes
<1>5. ASSUME c = "D" \/ c = "E" PROVE todo' \in PartSeqs
  BY <1>1, <1>2, <1>5, NextLineTypes
<1>6. todo' \in PartSeqs
  BY <1>1, <1>3, <1>4, <1>5 DEF Lines
<1>7. FlagTypes'
  BY <1>1 DEF IInv, FlagTypes, context
<1>8. mode' \in Mode
  BY <1>1 DEF context, IInv, ColourInv
<1> QED BY <1>1, <1>6, <1>7, <1>8, EndsStep, PlaceKept, ColoursKept DEF IInv, context

\* Control sequences.
LEMMA DecPrivateStep == ASSUME IInv, NEW c, DecPrivate(c) PROVE IInv' /\ TS!Edit
<1>1. /\ Ends("control")
      /\ visible' = IF count # 0 /\ Value(c, 1) = 25 /\ c \in {"h", "l"} THEN c = "h" ELSE visible
      /\ UNCHANGED <<attr, plain, strayed, mode, margins, narrowed, kept, saved>>
      /\ UNCHANGED <<cursor, scrolling, todo, defined>>
  BY DEF DecPrivate
<1>2. FlagTypes'
  <2>1. visible \in BOOLEAN
    BY DEF IInv, FlagTypes
  <2>2. visible' \in BOOLEAN
    BY <1>1, <2>1
  <2> QED BY <1>1, <2>2 DEF IInv, FlagTypes
<1>3. mode' \in Mode
  BY <1>1 DEF IInv, ColourInv
<1> QED BY <1>1, <1>2, <1>3, EndsStep, PlaceKept, ColoursKept DEF IInv

\* What all others have in common.
LEMMA FinishesStep ==
  ASSUME IInv, NEW c, Finishes(c), PlaceTypes', mode' \in Mode, narrowed' \in BOOLEAN,
         todo' \in PartSeqs
  PROVE  IInv' /\ TS!Edit
<1>1. /\ Ends("control") /\ scrolling' = FALSE
      /\ UNCHANGED <<attr, plain, strayed, cursor, saved, visible, defined>>
  BY DEF Finishes
<1>2. FlagTypes'
  BY <1>1 DEF IInv, FlagTypes
<1> QED BY <1>1, <1>2, EndsStep, ColoursKept DEF IInv

\* What is left alone by most of them.
LEMMA FinishesKeep ==
  ASSUME IInv, NEW c, Finishes(c), UNCHANGED <<mode, margins, narrowed, kept>>
  PROVE  /\ PlaceTypes' /\ mode' \in Mode /\ narrowed' \in BOOLEAN
         /\ CursorCell \in Cells
<1>1. Ends("control") /\ UNCHANGED cursor
  BY DEF Finishes
<1> QED BY <1>1, EndsStep, PlaceKept DEF IInv, ColourInv, FlagTypes

LEMMA MoveToStep == ASSUME IInv, NEW c, MoveTo(c) PROVE IInv' /\ TS!Edit
<1>1. /\ Finishes(c) /\ c \in Moves /\ todo' = <<Position(c), EnableScroll>>
      /\ UNCHANGED <<mode, margins, narrowed, kept>>
  BY DEF MoveTo
<1>2. Position(c) \in Parts
  BY <1>1, FinishesKeep, PositionTypes DEF IInv
<1>3. todo' \in PartSeqs
  BY <1>1, <1>2, PartTypes DEF PartSeqs
<1> QED BY <1>1, <1>3, FinishesKeep, FinishesStep

LEMMA EraseStep == ASSUME IInv, NEW c, Erase(c) PROVE IInv' /\ TS!Edit
<1>1. /\ Finishes(c) /\ c \in Erases /\ todo' = Append(Erasure(c), EnableScroll)
      /\ UNCHANGED <<mode, margins, narrowed, kept>>
  BY DEF Erase
<1>2. Erasure(c) \in PartSeqs
  BY <1>1, FinishesKeep, ErasureTypes DEF IInv
<1>3. todo' \in PartSeqs
  BY <1>1, <1>2, PartTypes, SeqTypes
<1> QED BY <1>1, <1>3, FinishesKeep, FinishesStep

LEMMA SelectGraphicsStep == ASSUME IInv, NEW c, SelectGraphics(c) PROVE IInv' /\ TS!Edit
<1> DEFINE each == [k \in 1 .. count |-> Graphics(parser.values[k])]
<1>1. /\ Finishes(c)
      /\ todo' = Append(IF count = 0 THEN <<Graphics(0)>> ELSE each, EnableScroll)
      /\ UNCHANGED <<mode, margins, narrowed, kept>>
  BY DEF SelectGraphics
<1>2. count \in Nat /\ \A k \in 1 .. count : parser.values[k] \in Nat
  BY ValueTypes DEF IInv
<1>3. each \in PartSeqs
  BY <1>2, PartTypes, SeqTypes
<1>4. <<Graphics(0)>> \in PartSeqs
  BY PartTypes, SeqTypes
<1> HIDE DEF each
<1>5. todo' \in PartSeqs
  BY <1>1, <1>3, <1>4, PartTypes, SeqTypes
<1> QED BY <1>1, <1>5, FinishesKeep, FinishesStep

LEMMA SetMarginsStep == ASSUME IInv, NEW c, SetMargins(c) PROVE IInv' /\ TS!Edit
<1> DEFINE top == IF count > 0 THEN Minus(Value(c, 1), 1) ELSE 0
           bottom == IF count > 1 THEN Value(c, 2) ELSE Rows
<1>1. /\ Finishes(c)
      /\ margins' = IF top >= Rows \/ bottom > Rows \/ top >= Minus(bottom, 1)
                    THEN FullMargins ELSE [top |-> top, bottom |-> bottom]
      /\ narrowed' = (narrowed \/ margins'.bottom < Rows)
      /\ todo' = <<Set(0, 0), EnableScroll>>
      /\ UNCHANGED <<mode, kept>>
  BY DEF SetMargins
<1>2. top \in Nat /\ bottom \in Nat /\ Rows \in Nat \ {0}
  <2>1. Value(c, 1) \in Nat /\ Value(c, 2) \in Nat
    BY ValueTypes DEF IInv
  <2>2. Minus(Value(c, 1), 1) \in Nat
    BY <2>1, MinusIsNat, WordIsLarge
  <2> QED BY <2>1, <2>2, TerminalAssumption DEF TerminalAssumption
<1> HIDE DEF top, bottom
<1>3. MarginTypes'
  <2>1. CASE top >= Rows \/ bottom > Rows \/ top >= Minus(bottom, 1)
    BY <1>1, <2>1, ModeTypes DEF MarginTypes
  <2>2. CASE ~(top >= Rows \/ bottom > Rows \/ top >= Minus(bottom, 1))
    <3>1. margins' = [top |-> top, bottom |-> bottom]
      BY <1>1, <2>2
    <3>2. top \in 0 .. (Rows - 1) /\ bottom \in 0 .. Rows
      BY <1>2, <2>2
    <3> QED BY <3>1, <3>2 DEF MarginTypes
  <2> QED BY <2>1, <2>2
<1>4. PlaceTypes' /\ mode' \in Mode
  BY <1>1, <1>3 DEF Finishes, IInv, PlaceTypes, ColourInv
<1>5. narrowed' \in BOOLEAN
  BY <1>1
<1>6. todo' \in PartSeqs
  BY <1>1, PartTypes DEF PartSeqs
<1> QED BY <1>1, <1>4, <1>5, <1>6, FinishesStep

LEMMA SetModeStep == ASSUME IInv, NEW c, SetMode(c) PROVE IInv' /\ TS!Edit
<1>1. /\ Finishes(c)
      /\ kept' = IF c = "s" THEN cursor ELSE kept
      /\ mode' = IF c \in {"h", "l"} /\ count # 0 /\ Value(c, 1) = 4
                 THEN [mode EXCEPT !.insert = c = "h"] ELSE mode
      /\ todo' = <<EnableScroll>>
      /\ UNCHANGED <<margins, narrowed>>
  BY DEF SetMode
<1>2. mode' \in Mode
  <2>1. mode \in Mode
    BY DEF IInv, ColourInv
  <2>2. \A b \in BOOLEAN : [mode EXCEPT !.insert = b] \in Mode
    BY <2>1 DEF Mode
  <2>3. (c = "h") \in BOOLEAN
    OBVIOUS
  <2> QED BY <1>1, <2>1, <2>2, <2>3
<1>3. PlaceTypes' /\ narrowed' \in BOOLEAN
  BY <1>1 DEF Finishes, IInv, PlaceTypes, MarginTypes, FlagTypes
<1>4. todo' \in PartSeqs
  BY <1>1, PartTypes, SeqTypes
<1> QED BY <1>1, <1>2, <1>3, <1>4, FinishesStep

-----------------------------------------------------------------------------
(***************************************************************************)
(* The invariant                                                           *)
(***************************************************************************)
LEMMA ReceiveStep == ASSUME IInv, NEW c \in Chars, Receive(c) PROVE IInv' /\ TS!Edit
<1>1. \/ Move(c) \/ Shift(c) \/ Introduce(c) \/ Show(c) \/ Discard(c) \/ SelectCharset(c)
      \/ Begin(c) \/ SelectSet(c) \/ SaveState(c) \/ RestoreState(c) \/ Reset(c)
      \/ EscapeLine(c) \/ EscapeOther(c)
      \/ Parse(c) \/ DecPrivate(c) \/ MoveTo(c) \/ Erase(c) \/ SelectGraphics(c)
      \/ SetMargins(c) \/ SetMode(c)
  BY DEF Receive
<1> QED BY <1>1, MoveStep, ShiftStep, IntroduceStep, ShowStep, DiscardStep, SelectCharsetStep,
           BeginStep, SelectSetStep, SaveStateStep, RestoreStateStep, ResetStep, EscapeLineStep,
           EscapeOtherStep, ParseStep, DecPrivateStep, MoveToStep, EraseStep,
           SelectGraphicsStep, SetMarginsStep, SetModeStep

LEMMA PerformStep == ASSUME IInv, Perform PROVE IInv' /\ TS!Edit
  BY PutCharStep, SetCursorPosStep, MoveCharacterStep, ClearCellStep, SelectGraphicStep,
     ScrollEnableStep DEF Perform

LEMMA FlushStep == ASSUME IInv, Flush PROVE IInv' /\ TS!Refresh
<1>1. /\ BufferTypes' /\ Queued' /\ Displayed' /\ TS!Refresh
  BY FlushShows DEF IInv, ScreenInv, PlaceTypes
<1>2. /\ old' = cursor
      /\ UNCHANGED <<context, cursor, scrolling, parser, todo, defined>>
  BY DEF Flush
<1>3. ScreenInv'
  BY <1>1, <1>2 DEF ScreenInv, IInv, PlaceTypes
<1>4. mode' \in Mode
  BY <1>2 DEF context, IInv, ColourInv
<1> QED BY <1>1, <1>2, <1>3, <1>4, PlaceKept, FlagsKept, ColoursKept, ParserKept DEF IInv, context

LEMMA FlushAstrayStep == ASSUME IInv, FlushAstray PROVE IInv' /\ TS!Edit
<1>1. /\ defined' = FALSE
      /\ UNCHANGED <<buffers, display, context, cursor, scrolling, parser, todo>>
  BY DEF FlushAstray
<1>2. ScreenInv' /\ TS!Edit
  BY <1>1, ScreenKept DEF IInv
<1>3. mode' \in Mode
  BY <1>1 DEF context, IInv, ColourInv
<1>4. FlagTypes'
  BY <1>1 DEF context, IInv, FlagTypes
<1> QED BY <1>1, <1>2, <1>3, <1>4, PlaceKept, ColoursKept, ParserKept DEF IInv, context

LEMMA StutterStep == ASSUME IInv, UNCHANGED vars PROVE IInv' /\ TS!Edit
<1>1. UNCHANGED <<buffers, display, context, cursor, scrolling, parser, todo, defined>>
  BY DEF vars
<1>2. ScreenInv' /\ TS!Edit
  BY <1>1, ScreenKept DEF IInv
<1>3. mode' \in Mode
  BY <1>1 DEF context, IInv, ColourInv
<1> QED BY <1>1, <1>2, <1>3, PlaceKept, FlagsKept, ColoursKept, ParserKept DEF IInv, context

\* Every step keeps the invariant, and is a step of a text on a screen.
LEMMA EveryStep == ASSUME IInv, [Next]_vars PROVE IInv' /\ TS!Next
  BY ReceiveStep, PerformStep, FlushStep, FlushAstrayStep, StutterStep DEF Next, TS!Next

LEMMA InitIsBlank == Init => Text = [i \in Cells |-> Blank] /\ CursorCell = 0
<1> SUFFICES ASSUME Init PROVE Text = [i \in Cells |-> Blank] /\ CursorCell = 0
  OBVIOUS
<1>1. grid = [i \in Cells |-> Blank] /\ map = [i \in Cells |-> 0] /\ cursor = At(0, 0)
  BY DEF Init, Home
<1>2. \A i \in Cells : Content(i) = Blank
  BY <1>1 DEF Content
<1>3. CursorCell = 0
  BY <1>1, TerminalAssumption DEF TerminalAssumption, CursorCell, Cell, At
<1> QED BY <1>2, <1>3 DEF Text

LEMMA InitHolds == Init => IInv
<1> SUFFICES ASSUME Init PROVE IInv
  OBVIOUS
<1> DEFINE zero == [bold |-> FALSE, reverse |-> FALSE, primary |-> 0,
                    fg |-> Ansi(0), bg |-> Ansi(0)]
<1>1. /\ grid = [i \in Cells |-> Blank] /\ queue = <<>> /\ map = [i \in Cells |-> 0]
      /\ cursor = Home /\ old = Home /\ visible = TRUE /\ scrolling = TRUE
      /\ shown = [i \in Cells |-> IF i = 0 THEN Inverted(Blank) ELSE Blank]
      /\ attr = DefaultAttr /\ plain = DefaultAttr /\ strayed = {}
      /\ parser = Idle /\ mode = DefaultMode /\ margins = FullMargins /\ kept = Home
      /\ saved = [cursor |-> Home, attr |-> zero, plain |-> zero, strayed |-> {}, current |-> 0]
      /\ todo = <<>> /\ defined = TRUE /\ narrowed = FALSE
  BY DEF Init
<1>2. Home \in Place2
  BY DEF Home, At, Place2
<1>3. BufferTypes /\ Queued
  BY <1>1, DefaultTypes DEF BufferTypes, Queued
<1>4. Displayed
  <2>1. OldCell = 0
    BY <1>1, TerminalAssumption DEF TerminalAssumption, OldCell, Cell, Home, At
  <2> QED BY <1>1, <2>1 DEF Displayed
<1>5. PlaceTypes
  BY <1>1, <1>2, ModeTypes DEF PlaceTypes, MarginTypes
<1>6. zero \in Attr /\ zero.reverse = FALSE
  BY ColourTypes DEF Attr, NoColour
<1>7. Agrees(zero, zero, {}) /\ Agrees(DefaultAttr, DefaultAttr, {})
  BY <1>6, DefaultTypes DEF DefaultAttr, Agrees, TextColour, BackColour
<1> HIDE DEF zero
<1>8. ColourInv
  <2>1. /\ saved \in [cursor : Place2, attr : Attr, plain : Attr, strayed : SUBSET BothColours,
                       current : {0, 1}]
        /\ saved.attr = zero /\ saved.plain = zero /\ saved.strayed = {}
    BY <1>1, <1>2, <1>6
  <2> QED BY <1>1, <1>7, <2>1, ModeTypes DEF ColourInv, SavedTypes
<1>9. ParserHolds
  BY <1>1, IdleTypes, TerminalAssumption DEF TerminalAssumption, ParserHolds
<1> QED BY <1>1, <1>2, <1>3, <1>4, <1>5, <1>8, <1>9, SeqTypes DEF IInv, ScreenInv, FlagTypes

LEMMA Invariance == Spec => []IInv
<1>1. IInv /\ [Next]_vars => IInv'
  BY EveryStep
<1> QED BY InitHolds, <1>1, PTL DEF Spec

-----------------------------------------------------------------------------
(***************************************************************************)
(* The cursor                                                              *)
(***************************************************************************)
\* A position on the grid has a cell.
LEMMA CellOnGrid == OnGridAt(cursor) => CursorCell \in Cells
<1> SUFFICES ASSUME OnGridAt(cursor) PROVE CursorCell \in Cells
  OBVIOUS
<1>1. PICK x, y \in Nat : x = cursor.x /\ y = cursor.y /\ x < Cols /\ y < Rows
  BY TerminalAssumption DEF TerminalAssumption, OnGridAt
<1>2. Rows \in Nat /\ Cols \in Nat /\ Size \in Nat
  BY SizePositive, TerminalAssumption DEF TerminalAssumption
<1>3. (y + 1) * Cols <= Rows * Cols
  <2>1. \A a, b, c \in Nat : a <= b => a * c <= b * c
    OBVIOUS
  <2> QED BY <1>1, <1>2, <2>1
<1>4. y * Cols \in Nat /\ (y + 1) * Cols = y * Cols + Cols
  BY <1>1, <1>2, Product, NextRow
<1>5. y * Cols + x \in Cells
  BY <1>1, <1>2, <1>3, <1>4 DEF Cells, Size
<1>6. CursorCell = y * Cols + x
  BY <1>1 DEF CursorCell, Cell
<1> QED BY <1>5, <1>6

LEMMA ClampOnGrid == \A v \in Nat, n \in Nat \ {0} : Clamp(v, n) \in 0 .. (n - 1)
  BY DEF Clamp

LEMMA OpNames ==
  /\ \A g : Put(g).op = "put"
  /\ \A x, y : Set(x, y).op = "set" /\ Set(x, y).x = x /\ Copy(x, y).op = "copy"
  /\ \A v : Clear(v).op = "clear" /\ Graphics(v).op = "graphics"
  /\ EnableScroll.op = "enable"
  BY DEF Put, Set, Copy, Clear, Graphics, EnableScroll

\* Sequences that are taken apart and put together.
LEMMA TailElements ==
  ASSUME NEW s \in PartSeqs, s # <<>>
  PROVE  /\ Len(s) \in Nat \ {0} /\ Head(s) = s[1] /\ Len(Tail(s)) = Len(s) - 1
         /\ DOMAIN s = 1 .. Len(s) /\ DOMAIN Tail(s) = 1 .. (Len(s) - 1)
         /\ \A k \in 1 .. (Len(s) - 1) : Tail(s)[k] = s[k + 1]
  BY DEF PartSeqs

LEMMA JoinElements ==
  ASSUME NEW s \in PartSeqs, NEW r \in PartSeqs
  PROVE  /\ Len(s) \in Nat /\ Len(r) \in Nat /\ Len(s \o r) = Len(s) + Len(r)
         /\ DOMAIN (s \o r) = 1 .. (Len(s) + Len(r))
         /\ \A k \in 1 .. Len(s) : (s \o r)[k] = s[k]
         /\ \A k \in 1 .. Len(r) : (s \o r)[Len(s) + k] = r[k]
  BY DEF PartSeqs

LEMMA AppendElements ==
  ASSUME NEW s \in PartSeqs, NEW p \in Parts
  PROVE  /\ Len(s) \in Nat /\ Len(Append(s, p)) = Len(s) + 1
         /\ DOMAIN Append(s, p) = 1 .. (Len(s) + 1)
         /\ \A k \in 1 .. Len(s) : Append(s, p)[k] = s[k]
         /\ Append(s, p)[Len(s) + 1] = p
  BY DEF PartSeqs

\* What is left to do when its first part is done.
LEMMA Later ==
  ASSUME todo \in PartSeqs, todo # <<>>, todo' = Tail(todo), NEW op
  PROVE  /\ \A k : k \in Ops(op)' <=> k \in 1 .. (Len(todo) - 1) /\ k + 1 \in Ops(op)
         /\ Ending(op) /\ Head(todo).op # op => Ending(op)'
         /\ Len(todo') = Len(todo) - 1
<1>1. /\ Len(todo) \in Nat \ {0} /\ Head(todo) = todo[1] /\ Len(todo') = Len(todo) - 1
      /\ DOMAIN todo = 1 .. Len(todo) /\ DOMAIN todo' = 1 .. (Len(todo) - 1)
      /\ \A k \in 1 .. (Len(todo) - 1) : todo'[k] = todo[k + 1]
  BY TailElements
<1>2. \A k : k \in Ops(op)' <=> k \in 1 .. (Len(todo) - 1) /\ k + 1 \in Ops(op)
  BY <1>1 DEF Ops
<1>3. ASSUME Ending(op), Head(todo).op # op PROVE Ending(op)'
  <2>1. Len(todo) # 1
    BY <1>1, <1>3 DEF Ending
  <2>2. Len(todo) - 1 \in 1 .. (Len(todo) - 1) /\ (Len(todo) - 1) + 1 = Len(todo)
    BY <1>1, <2>1
  <2>3. todo' # <<>> /\ todo'[Len(todo')] = todo[Len(todo)]
    BY <1>1, <2>2
  <2> QED BY <1>3, <2>3 DEF Ending
<1> QED BY <1>1, <1>2, <1>3

\* The position that is still to come stays behind all that is put.
LEMMA ReturnsStays ==
  ASSUME todo \in PartSeqs, todo # <<>>, NEW s \in PartSeqs, todo' = s \o Tail(todo),
         \E k \in Ops("set") : k # 1 /\ \A j \in Ops("put") : j < k
  PROVE  ReturnsLater'
<1>1. PICK k \in Ops("set") : k # 1 /\ \A j \in Ops("put") : j < k
  OBVIOUS
<1>2. Tail(todo) \in PartSeqs
  BY SeqTypes
<1>3. /\ Len(todo) \in Nat \ {0} /\ Len(Tail(todo)) = Len(todo) - 1 /\ DOMAIN todo = 1 .. Len(todo)
      /\ \A i \in 1 .. (Len(todo) - 1) : Tail(todo)[i] = todo[i + 1]
  BY TailElements
<1>4. /\ Len(s) \in Nat /\ DOMAIN todo' = 1 .. (Len(s) + Len(Tail(todo)))
      /\ \A i \in 1 .. Len(Tail(todo)) : todo'[Len(s) + i] = Tail(todo)[i]
  BY <1>2, JoinElements
<1>5. \A i \in 2 .. Len(todo) : todo'[Len(s) + (i - 1)] = todo[i]
  <2> TAKE i \in 2 .. Len(todo)
  <2>1. i - 1 \in 1 .. (Len(todo) - 1) /\ (i - 1) + 1 = i
    BY <1>3
  <2> QED BY <1>3, <1>4, <2>1
<1>6. k \in 2 .. Len(todo) /\ todo[k].op = "set"
  BY <1>1, <1>3 DEF Ops
<1>7. Len(s) + (k - 1) \in Ops("set")'
  <2>1. Len(s) + (k - 1) \in DOMAIN todo'
    BY <1>3, <1>4, <1>6
  <2> QED BY <1>5, <1>6, <2>1 DEF Ops
<1>8. ASSUME NEW j \in Ops("put")' PROVE j < Len(s) + (k - 1)
  <2>1. j \in DOMAIN todo' /\ todo'[j].op = "put"
    BY DEF Ops
  <2>2. CASE j <= Len(s)
    BY <1>4, <1>6, <2>1, <2>2
  <2>3. CASE j > Len(s)
    <3> DEFINE i == j - Len(s) + 1
    <3>1. i \in 2 .. Len(todo) /\ j = Len(s) + (i - 1)
      BY <1>3, <1>4, <2>1, <2>3
    <3>2. todo[i].op = "put"
      BY <1>5, <2>1, <3>1
    <3>3. i \in Ops("put")
      BY <1>3, <3>1, <3>2 DEF Ops
    <3>4. i < k
      BY <1>1, <3>3
    <3> QED BY <1>4, <1>6, <3>1, <3>4
  <2> QED BY <1>4, <2>1, <2>2, <2>3
<1> QED BY <1>7, <1>8 DEF ReturnsLater

\* A part that neither puts nor positions.
LEMMA OtherPart ==
  ASSUME todo \in PartSeqs, todo # <<>>, todo' = Tail(todo), Head(todo).op \notin {"put", "set"},
         cursor \in Place2, cursor' = cursor, scrolling' \in {scrolling, TRUE}, scrolling \in BOOLEAN,
         FindsGrid
  PROVE  FindsGrid'
<1>1. OnGridAt(cursor) => OnGridAt(cursor)'
  BY DEF OnGridAt
<1>2. 1 \notin Ops("put") /\ 1 \notin Ops("set")
  BY TailElements DEF Ops
<1>3. CASE OnGridAt(cursor) /\ scrolling
  BY <1>1, <1>3 DEF FindsGrid
<1>4. CASE OnGridAt(cursor) /\ Ops("put") = {}
  BY <1>1, <1>4, Later DEF FindsGrid
<1>5. CASE OnGridAt(cursor) /\ StaysInLine
  <2>1. CASE Len(todo) = 1
    BY <1>1, <1>5, <2>1, Later DEF FindsGrid
  <2>2. CASE Len(todo) # 1
    <3>1. /\ Len(todo) \in Nat \ {0, 1} /\ DOMAIN todo' = 1 .. (Len(todo) - 1) /\ Len(todo') = Len(todo) - 1
          /\ \A k \in 1 .. (Len(todo) - 1) : todo'[k] = todo[k + 1]
      BY <2>2, TailElements
    <3>2. Ending("enable")'
      <4>1. Len(todo) - 1 \in 1 .. (Len(todo) - 1) /\ (Len(todo) - 1) + 1 = Len(todo)
        BY <3>1
      <4>2. todo' # <<>> /\ todo'[Len(todo')] = todo[Len(todo)]
        BY <3>1, <4>1
      <4> QED BY <1>5, <4>2 DEF StaysInLine, Ending
    <3>3. Ops("set")' = {}
      BY <1>5, Later DEF StaysInLine
    <3>4. cursor'.x + Len(todo') <= Cols
      <4>1. cursor.x \in Nat /\ cursor.x + Len(todo) <= Cols /\ cursor'.x = cursor.x /\ Cols \in Nat
        BY <1>5, TerminalAssumption DEF TerminalAssumption, StaysInLine, Place2
      <4> QED BY <3>1, <4>1
    <3> QED BY <1>1, <1>5, <3>2, <3>3, <3>4 DEF FindsGrid, StaysInLine
  <2> QED BY <2>1, <2>2
<1>6. CASE StartsLine
  BY <1>2, <1>6 DEF StartsLine
<1>7. CASE ReturnsLater
  <2>1. todo' = <<>> \o Tail(todo) /\ <<>> \in PartSeqs
    BY SeqTypes DEF PartSeqs
  <2>2. \E k \in Ops("set") : k # 1 /\ \A j \in Ops("put") : j < k
    BY <1>2, <1>7 DEF ReturnsLater
  <2> QED BY <2>1, <2>2, ReturnsStays DEF FindsGrid
<1> QED BY <1>3, <1>4, <1>5, <1>6, <1>7 DEF FindsGrid

\* gterm_putchar.
LEMMA PutCharGrid ==
  ASSUME IInv, PutChar, ~narrowed, margins.bottom = Rows, scrolling \/ Ending("enable"), FindsGrid
  PROVE  FindsGrid' /\ (scrolling \/ Ending("enable"))'
<1> DEFINE wraps == cursor.x + 1 = Cols /\ (cursor.y < Minus(margins.bottom, 1) \/ scrolling)
           x == IF wraps THEN 0 ELSE cursor.x + 1
           y == IF wraps THEN (cursor.y + 1) % Word ELSE cursor.y
<1>1. /\ Part("put") /\ scrolling' = scrolling
      /\ IF y = margins.bottom
         THEN cursor' = At(x, Minus(y, 1)) /\ todo' = Scroll \o Tail(todo)
         ELSE cursor' = At(x, y) /\ todo' = Tail(todo)
  BY DEF PutChar
<1>2. /\ todo \in PartSeqs /\ todo # <<>> /\ Head(todo).op = "put" /\ 1 \in Ops("put") /\ 1 \notin Ops("set")
      /\ Tail(todo) \in PartSeqs
  <2>1. todo \in PartSeqs /\ todo # <<>> /\ Head(todo).op = "put"
    BY <1>1 DEF Part, IInv
  <2> QED BY <2>1, SeqTypes, TailElements DEF Ops
<1>3. PICK s \in PartSeqs : todo' = s \o Tail(todo) /\ (y # margins.bottom => todo' = Tail(todo))
  <2>1. CASE y = margins.bottom
    BY <1>1, <2>1, ScrollTypes DEF IInv, PlaceTypes
  <2>2. CASE y # margins.bottom
    <3>1. <<>> \in PartSeqs /\ <<>> \o Tail(todo) = Tail(todo)
      BY <1>2, SeqTypes DEF PartSeqs
    <3> QED BY <1>1, <2>2, <3>1
  <2> QED BY <2>1, <2>2
<1>4. (scrolling \/ Ending("enable"))'
  <2> SUFFICES ASSUME Ending("enable") PROVE Ending("enable")'
    BY <1>1 DEF Ending
  <2>1. /\ Len(todo) \in Nat \ {0} /\ todo[1].op = "put" /\ Len(Tail(todo)) = Len(todo) - 1
        /\ \A k \in 1 .. (Len(todo) - 1) : Tail(todo)[k] = todo[k + 1]
    BY <1>2, TailElements
  <2>2. Len(todo) # 1
    BY <2>1 DEF Ending
  <2>3. Len(todo) - 1 \in 1 .. (Len(todo) - 1) /\ (Len(todo) - 1) + 1 = Len(todo)
    BY <2>1, <2>2
  <2>4. /\ Len(s) \in Nat /\ Len(todo') = Len(s) + (Len(todo) - 1)
        /\ \A k \in 1 .. (Len(todo) - 1) : todo'[Len(s) + k] = Tail(todo)[k]
    <3>1. todo' = s \o Tail(todo) /\ Tail(todo) \in PartSeqs
      BY <1>2, <1>3
    <3> QED BY <2>1, <3>1, JoinElements
  <2>5. todo'[Len(todo')] = todo[Len(todo)] /\ Len(todo') > 0
    <3>1. todo'[Len(s) + (Len(todo) - 1)] = Tail(todo)[Len(todo) - 1]
      BY <2>3, <2>4
    <3>2. Tail(todo)[Len(todo) - 1] = todo[Len(todo)]
      BY <2>1, <2>3
    <3>3. Len(s) + (Len(todo) - 1) > 0
      BY <2>1, <2>3, <2>4
    <3> QED BY <2>4, <3>1, <3>2, <3>3
  <2>6. todo' # <<>>
    BY <2>4, <2>5
  <2> QED BY <2>5, <2>6 DEF Ending
<1>5. /\ Rows \in Nat \ {0} /\ Cols \in Nat \ {0} /\ Word \in Nat /\ Word > Rows
      /\ Minus(margins.bottom, 1) = Rows - 1
  <2>1. Rows \in Nat \ {0} /\ Cols \in Nat \ {0} /\ Word \in Nat /\ MaxValue \in Nat
        /\ Word > 2 * (Rows * Cols + MaxValue)
    BY TerminalAssumption DEF TerminalAssumption
  <2>2. Rows * Cols >= Rows
    <3>1. \A a, b \in Nat \ {0} : a * b >= a
      OBVIOUS
    <3> QED BY <2>1, <3>1
  <2>3. Word > Rows
    <3>1. Rows * Cols \in Nat
      BY <2>1
    <3> QED BY <2>1, <2>2, <3>1
  <2>4. Minus(Rows, 1) = Rows - 1
    BY <2>1 DEF Minus
  <2> QED BY <2>1, <2>3, <2>4
<1>6. CASE OnGridAt(cursor) /\ scrolling
  <2>1. cursor.x \in 0 .. (Cols - 1) /\ cursor.y \in 0 .. (Rows - 1)
    BY <1>6 DEF OnGridAt
  <2>2. x \in 0 .. (Cols - 1)
    BY <1>5, <1>6, <2>1
  <2>3. y \in 0 .. Rows
    <3>1. (cursor.y + 1) % Word = cursor.y + 1
      BY <1>5, <2>1
    <3> QED BY <1>5, <2>1, <3>1
  <2>4. y = Rows => Minus(y, 1) = Rows - 1
    BY <1>5
  <2> HIDE DEF x, y
  <2>5. \/ y = Rows /\ cursor' = At(x, Rows - 1)
        \/ y # Rows /\ cursor' = At(x, y)
    BY <1>1, <2>4
  <2>6. cursor'.x \in 0 .. (Cols - 1) /\ cursor'.y \in 0 .. (Rows - 1)
    BY <1>5, <2>2, <2>3, <2>5 DEF At
  <2> QED BY <1>1, <1>6, <2>6 DEF FindsGrid, OnGridAt
<1>7. CASE OnGridAt(cursor) /\ ~scrolling /\ StaysInLine
  <2>1. cursor.x \in 0 .. (Cols - 1) /\ cursor.y \in 0 .. (Rows - 1)
    BY <1>7 DEF OnGridAt
  <2>2. /\ Len(todo) \in Nat \ {0} /\ todo[1].op = "put" /\ Len(Tail(todo)) = Len(todo) - 1
    BY <1>2, TailElements
  <2>3. Len(todo) # 1 /\ cursor.x + Len(todo) <= Cols
    BY <1>7, <2>2 DEF StaysInLine, Ending
  <2>4. x = cursor.x + 1 /\ y = cursor.y /\ x < Cols /\ y < Rows
    BY <1>5, <2>1, <2>2, <2>3
  <2>5. y # margins.bottom
    BY <1>5, <2>1, <2>4
  <2>6. todo' = Tail(todo) /\ cursor' = At(cursor.x + 1, cursor.y)
    BY <1>1, <2>4, <2>5
  <2>7. Ops("set")' = {} /\ Ending("enable")'
    BY <1>2, <1>7, <2>6, Later DEF StaysInLine
  <2>8. cursor'.x = cursor.x + 1 /\ cursor'.y = cursor.y
    BY <2>6 DEF At
  <2>9. cursor'.x + Len(todo') <= Cols
    BY <1>5, <2>1, <2>2, <2>3, <2>6, <2>8
  <2>10. OnGridAt(cursor)'
    BY <1>5, <2>1, <2>4, <2>8 DEF OnGridAt
  <2> QED BY <2>7, <2>9, <2>10 DEF FindsGrid, StaysInLine
<1>8. CASE StartsLine
  BY <1>2, <1>8 DEF StartsLine
<1>9. CASE ReturnsLater
  <2>1. \E k \in Ops("set") : k # 1 /\ \A j \in Ops("put") : j < k
    BY <1>2, <1>9 DEF ReturnsLater
  <2> QED BY <1>2, <1>3, <1>4, <2>1, ReturnsStays DEF FindsGrid
<1> QED BY <1>2, <1>4, <1>6, <1>7, <1>8, <1>9 DEF FindsGrid

\* gterm_set_cursor_pos.
LEMMA SetCursorPosGrid ==
  ASSUME IInv, SetCursorPos, scrolling \/ Ending("enable"), FindsGrid
  PROVE  FindsGrid' /\ (scrolling \/ Ending("enable"))'
<1>1. /\ todo \in PartSeqs /\ todo # <<>> /\ Head(todo).op = "set" /\ todo' = Tail(todo)
      /\ cursor' = At(Clamp(Head(todo).x, Cols), Clamp(Head(todo).y, Rows))
      /\ scrolling' = scrolling /\ scrolling \in BOOLEAN
  BY DEF SetCursorPos, Part, IInv, FlagTypes
<1>2. (scrolling \/ Ending("enable"))'
  BY <1>1, Later DEF Ending
<1>3. Head(todo) \in Parts /\ Head(todo) = todo[1] /\ 1 \in Ops("set")
  BY <1>1, SeqTypes, TailElements DEF Ops
<1>4. Head(todo).x \in Nat /\ Head(todo).y \in Nat
  BY <1>1, <1>3, HeadTypes
<1>5. OnGridAt(cursor)'
  <2>1. cursor'.x = Clamp(Head(todo).x, Cols) /\ cursor'.y = Clamp(Head(todo).y, Rows)
    BY <1>1 DEF At
  <2>2. Clamp(Head(todo).x, Cols) \in 0 .. (Cols - 1) /\ Clamp(Head(todo).y, Rows) \in 0 .. (Rows - 1)
    BY <1>4, ClampOnGrid, TerminalAssumption DEF TerminalAssumption
  <2> QED BY <2>1, <2>2 DEF OnGridAt
<1>6. CASE scrolling
  BY <1>1, <1>5, <1>6 DEF FindsGrid
<1>7. CASE Ops("put") = {}
  <2>1. Ops("put")' = {}
    BY <1>1, <1>7, Later
  <2> QED BY <1>2, <1>5, <2>1 DEF FindsGrid
<1>8. CASE StaysInLine
  BY <1>3, <1>8 DEF StaysInLine
<1>9. CASE StartsLine
  <2>1. Ops("set")' = {}
    <3>1. \A k : k \in Ops("set")' <=> k \in 1 .. (Len(todo) - 1) /\ k + 1 \in Ops("set")
      BY <1>1, Later
    <3>2. \A k \in 1 .. (Len(todo) - 1) : k + 1 # 1
      BY <1>1, TailElements
    <3> QED BY <1>9, <3>1, <3>2 DEF StartsLine
  <2>2. Ending("enable")' /\ Len(todo') = Len(todo) - 1
    BY <1>1, <1>9, Later DEF StartsLine
  <2>3. cursor'.x = 0
    BY <1>1, <1>3, <1>9, TerminalAssumption DEF TerminalAssumption, StartsLine, At, Clamp
  <2>4. cursor'.x + Len(todo') <= Cols
    <3>1. Len(todo) \in Nat /\ Len(todo) <= Cols + 1 /\ Cols \in Nat
      BY <1>1, <1>9, TailElements, TerminalAssumption DEF TerminalAssumption, StartsLine
    <3> QED BY <2>2, <2>3, <3>1
  <2> QED BY <1>5, <2>1, <2>2, <2>4 DEF FindsGrid, StaysInLine
<1>10. CASE ReturnsLater
  <2>1. PICK k \in Ops("set") : \A j \in Ops("put") : j < k
    BY <1>10 DEF ReturnsLater
  <2>2. CASE k = 1
    <3>1. \A j : j \in Ops("put")' => j \in Nat /\ j + 1 \in Ops("put")
      BY <1>1, Later
    <3>2. \A j : j \in Ops("put")' => j > 0
      BY <1>1, TailElements DEF Ops
    <3>3. Ops("put")' = {}
      BY <2>1, <2>2, <3>1, <3>2
    <3> QED BY <1>2, <1>5, <3>3 DEF FindsGrid
  <2>3. CASE k # 1
    <3>1. <<>> \in PartSeqs /\ <<>> \o Tail(todo) = Tail(todo)
      BY <1>1, SeqTypes DEF PartSeqs
    <3>2. \E i \in Ops("set") : i # 1 /\ \A j \in Ops("put") : j < i
      BY <2>1, <2>3
    <3>3. todo' = <<>> \o Tail(todo)
      BY <1>1, <3>1
    <3>4. ReturnsLater'
      BY <1>1, <3>1, <3>2, <3>3, ReturnsStays
    <3> QED BY <1>2, <3>4 DEF FindsGrid
  <2> QED BY <2>2, <2>3
<1> QED BY <1>2, <1>6, <1>7, <1>8, <1>9, <1>10 DEF FindsGrid

\* All that is done to the grid for a character that was received.
LEMMA PerformGrid ==
  ASSUME IInv, GridInv, Perform, ~narrowed'
  PROVE  GridInv'
<1>1. PICK op : Part(op)
  BY DEF Perform, PutChar, SetCursorPos, MoveCharacter, ClearCell, SelectGraphic, ScrollEnable
<1>2. /\ UNCHANGED <<defined, margins, narrowed, saved>>
      /\ todo \in PartSeqs /\ todo # <<>>
  BY <1>1 DEF Part, IInv
<1>3. /\ ~narrowed /\ defined /\ margins.bottom = Rows /\ OnGridAt(saved.cursor)
      /\ scrolling \/ Ending("enable")
      /\ FindsGrid
  BY <1>2 DEF GridInv
<1>4. OnGridAt(saved.cursor)' /\ margins'.bottom = Rows /\ defined'
  BY <1>2, <1>3 DEF OnGridAt
<1> SUFFICES FindsGrid' /\ (scrolling \/ Ending("enable"))'
  BY <1>4 DEF GridInv
<1>5. scrolling \/ Ending("enable")
  BY <1>3
<1>6. CASE PutChar
  BY <1>3, <1>5, <1>6, PutCharGrid
<1>7. CASE SetCursorPos
  BY <1>3, <1>5, <1>7, SetCursorPosGrid
<1>8. CASE MoveCharacter \/ ClearCell \/ SelectGraphic \/ ScrollEnable
  <2>1. /\ todo' = Tail(todo) /\ cursor' = cursor
        /\ Head(todo).op \in {"copy", "clear", "graphics", "enable"}
        /\ \/ scrolling' = scrolling /\ Head(todo).op # "enable"
           \/ scrolling' = TRUE
    BY <1>8 DEF MoveCharacter, ClearCell, SelectGraphic, ScrollEnable, Part
  <2>2. cursor \in Place2 /\ scrolling \in BOOLEAN
    BY DEF IInv, PlaceTypes, FlagTypes
  <2>3. FindsGrid'
    <3>1. Head(todo).op \notin {"put", "set"} /\ scrolling' \in {scrolling, TRUE}
      BY <2>1
    <3> QED BY <1>2, <1>3, <2>1, <2>2, <3>1, OtherPart
  <2>4. (scrolling \/ Ending("enable"))'
    BY <1>2, <1>5, <2>1, Later
  <2> QED BY <2>3, <2>4
<1> QED BY <1>6, <1>7, <1>8 DEF Perform

\* A character is received on the grid, with scrolling enabled.
LEMMA ReceivesReady ==
  ASSUME IInv, GridInv, ~narrowed, NEW phase, Receives(phase)
  PROVE  /\ todo = <<>> /\ OnGridAt(cursor) /\ scrolling = TRUE
         /\ defined /\ margins.bottom = Rows /\ OnGridAt(saved.cursor)
<1>1. todo = <<>> /\ CursorCell \in Cells
  BY DEF Receives
<1>2. OnGridAt(cursor)
  BY <1>1, ReceivesOnGrid DEF IInv, OnGridAt
<1> QED BY <1>1, <1>2 DEF GridInv, Ending, IInv, FlagTypes

\* As long as scrolling is enabled, nothing that is left to do leaves the grid.
LEMMA GridReady ==
  ASSUME scrolling', OnGridAt(cursor)', defined', margins'.bottom = Rows, OnGridAt(saved.cursor)'
  PROVE  GridInv'
  BY DEF GridInv, FindsGrid

\* What ends a sequence leaves what brings the cursor back.
LEMMA GridFinished ==
  ASSUME IInv, GridInv, ~narrowed, NEW c, Finishes(c), margins'.bottom = Rows,
         NEW s \in PartSeqs, todo' = Append(s, EnableScroll),
         \/ \A k \in DOMAIN s : s[k].op # "put"
         \/ s # <<>> /\ s[Len(s)].op = "set"
         \/ /\ Len(s) \in 1 .. Cols /\ s[1].op = "set" /\ s[1].x = 0
            /\ \A k \in 2 .. Len(s) : s[k].op = "put"
  PROVE  GridInv'
<1>1. Receives("control") /\ UNCHANGED <<cursor, saved, defined>>
  BY DEF Finishes, Ends
<1>2. OnGridAt(cursor)' /\ OnGridAt(saved.cursor)' /\ defined'
  BY <1>1, ReceivesReady DEF OnGridAt
<1>3. /\ Len(s) \in Nat /\ Len(todo') = Len(s) + 1 /\ DOMAIN todo' = 1 .. (Len(s) + 1)
      /\ \A k \in 1 .. Len(s) : todo'[k] = s[k]
      /\ todo'[Len(s) + 1].op = "enable" /\ DOMAIN s = 1 .. Len(s)
  BY AppendElements, PartTypes, OpNames DEF PartSeqs
<1>4. Ending("enable")'
  <2>1. todo' # <<>>
    BY <1>3
  <2> QED BY <1>3, <2>1 DEF Ending
<1>5. \A op : \A k : k \in Ops(op)' <=> (k \in 1 .. Len(s) /\ s[k].op = op)
                                        \/ (k = Len(s) + 1 /\ op = "enable")
  <2> TAKE op
  <2> TAKE k
  <2>1. k \in 1 .. (Len(s) + 1) <=> k \in 1 .. Len(s) \/ k = Len(s) + 1
    BY <1>3
  <2>2. Len(s) + 1 \notin 1 .. Len(s)
    BY <1>3
  <2> QED BY <1>3, <2>1, <2>2 DEF Ops
<1>6. CASE \A k \in DOMAIN s : s[k].op # "put"
  <2>1. Ops("put")' = {}
    BY <1>3, <1>5, <1>6
  <2> QED BY <1>2, <1>4, <2>1 DEF GridInv, FindsGrid
<1>7. CASE s # <<>> /\ s[Len(s)].op = "set"
  <2>1. Len(s) \in 1 .. Len(s)
    BY <1>3, <1>7 DEF PartSeqs
  <2>2. Len(s) \in Ops("set")'
    BY <1>5, <1>7, <2>1
  <2>3. ASSUME NEW j \in Ops("put")' PROVE j < Len(s)
    <3>1. j \in 1 .. Len(s) /\ s[j].op = "put"
      BY <1>5
    <3>2. j # Len(s)
      BY <1>7, <3>1
    <3> QED BY <1>3, <3>1, <3>2
  <2>4. ReturnsLater'
    BY <2>2, <2>3 DEF ReturnsLater
  <2> QED BY <1>2, <1>4, <2>4 DEF GridInv, FindsGrid
<1>8. CASE /\ Len(s) \in 1 .. Cols /\ s[1].op = "set" /\ s[1].x = 0
           /\ \A k \in 2 .. Len(s) : s[k].op = "put"
  <2>1. 1 \in 1 .. Len(s)
    BY <1>8
  <2>2. 1 \in Ops("set")' /\ todo'[1].x = 0
    BY <1>3, <1>5, <1>8, <2>1
  <2>3. ASSUME NEW k \in Ops("set")' PROVE k = 1
    <3>1. k \in 1 .. Len(s) /\ s[k].op = "set"
      BY <1>5
    <3>2. k \notin 2 .. Len(s)
      BY <1>8, <3>1
    <3> QED BY <1>3, <3>1, <3>2
  <2>4. Len(todo') <= Cols + 1
    BY <1>3, <1>8, TerminalAssumption DEF TerminalAssumption
  <2> QED BY <1>2, <1>4, <2>2, <2>3, <2>4 DEF GridInv, FindsGrid, StartsLine
<1> QED BY <1>6, <1>7, <1>8

\* J, K, X, P and @ end with the position they began at, or put no more than
\* the line has room for.
LEMMA ErasureReturns ==
  ASSUME PlaceTypes, ParserHolds, CursorCell \in Cells, NEW c \in Erases
  PROVE  LET s == Erasure(c)
         IN  \/ \A k \in DOMAIN s : s[k].op # "put"
             \/ s # <<>> /\ s[Len(s)].op = "set"
             \/ /\ Len(s) \in 1 .. Cols /\ s[1].op = "set" /\ s[1].x = 0
                /\ \A k \in 2 .. Len(s) : s[k].op = "put"
<1> DEFINE s == Erasure(c)
           n == Value(c, 1)
           x == cursor.x
           y == cursor.y
           back == Set(x, y)
           Returns(r) == r # <<>> /\ r[Len(r)].op = "set"
<1>1. /\ x \in Nat /\ y \in Nat /\ x <= Cols - 1 /\ y <= Rows - 1
      /\ Cols \in Nat \ {0} /\ Rows \in Nat \ {0}
  BY ReceivesOnGrid, TerminalAssumption DEF TerminalAssumption
<1>2. n \in Nat /\ n <= Word
  BY ValueTypes
<1>3. back \in Parts /\ Set(0, 0) \in Parts /\ Set(0, y) \in Parts /\ back.op = "set"
  BY <1>1, PartTypes, OpNames
<1> HIDE DEF n, back
<1>4. \A r \in PartSeqs : Returns(Append(r, back)) /\ Append(r, back) \in PartSeqs
  <2> TAKE r \in PartSeqs
  <2>1. Append(r, back) # <<>> /\ Append(r, back)[Len(Append(r, back))] = back
    BY <1>3, AppendElements
  <2> QED BY <1>3, <2>1, SeqTypes
<1>5. \A q, r \in PartSeqs : Returns(r) => Returns(q \o r)
  <2> TAKE q, r \in PartSeqs
  <2> HAVE Returns(r)
  <2>1. Len(r) \in 1 .. Len(r)
    BY DEF PartSeqs
  <2>2. (q \o r)[Len(q \o r)] = r[Len(r)] /\ Len(q \o r) > 0
    BY <2>1, JoinElements
  <2>3. q \o r # <<>>
    <3>1. Len(<<>>) = 0
      OBVIOUS
    <3> QED BY <2>2, <3>1
  <2> QED BY <2>2, <2>3
<1>6. \A v \in Nat : Spaces(v) \in PartSeqs
  BY SpacesTypes
<1>7. CASE c = "J" /\ n = 0
  <2> DEFINE toEnd == (Rows - (y + 1)) * Cols + (Cols - (x + 1))
  <2>1. toEnd \in Nat
    <3>1. Rows - (y + 1) \in Nat /\ Cols - (x + 1) \in Nat
      BY <1>1
    <3>2. (Rows - (y + 1)) * Cols \in Nat
      BY <1>1, <3>1, Product
    <3> QED BY <3>1, <3>2
  <2> HIDE DEF toEnd
  <2>2. s = Append(Spaces(toEnd), back)
    BY <1>7 DEF Erasure, n, toEnd, back
  <2> QED BY <1>4, <1>6, <2>1, <2>2
<1>8. CASE c = "J" /\ n = 1
  <2>1. s = <<Set(0, 0)>> \o Append(Spaces(y * Cols + x + 1), back)
    BY <1>8 DEF Erasure, n, back
  <2>2. y * Cols + x + 1 \in Nat
    <3>1. y * Cols \in Nat
      BY <1>1, Product
    <3> QED BY <1>1, <3>1
  <2>3. <<Set(0, 0)>> \in PartSeqs
    BY <1>3, SeqTypes
  <2> QED BY <1>4, <1>5, <1>6, <2>1, <2>2, <2>3
<1>9. CASE c = "J" /\ n \in {2, 3}
  <2>1. s = ClearAll
    BY <1>9 DEF Erasure, n
  <2>2. \A k \in DOMAIN ClearAll : ClearAll[k].op = "clear"
    BY OpNames DEF ClearAll
  <2> QED BY <2>1, <2>2
<1>10. CASE c = "K" /\ n = 0
  <2>1. s = Append(Spaces(Span(x, Cols)), back)
    BY <1>10 DEF Erasure, n, back
  <2>2. Span(x, Cols) \in Nat
    BY <1>1, SpanIsNat
  <2> QED BY <1>4, <1>6, <2>1, <2>2
<1>11. CASE c = "K" /\ n = 1
  <2>1. s = <<Set(0, y)>> \o Spaces(x)
    BY <1>11 DEF Erasure, n
  <2>2. <<Set(0, y)>> \in PartSeqs /\ Len(<<Set(0, y)>>) = 1 /\ <<Set(0, y)>>[1] = Set(0, y)
    BY <1>3, SeqTypes
  <2>3. /\ Spaces(x) \in PartSeqs /\ Len(Spaces(x)) = x
        /\ \A k \in 1 .. x : Spaces(x)[k].op = "put"
    <3>1. Spaces(x) = [k \in 1 .. x |-> Put(Glyph(" "))] /\ Spaces(x) \in Seq(Parts)
      BY <1>1, <1>6 DEF Spaces, PartSeqs
    <3>2. DOMAIN Spaces(x) = 1 .. x /\ Len(Spaces(x)) \in Nat
      <4>1. DOMAIN Spaces(x) = 1 .. x
        BY <3>1
      <4>2. Len(Spaces(x)) \in Nat
        BY <3>1, LenProperties
      <4> QED BY <4>1, <4>2
    <3>3. Len(Spaces(x)) = x
      <4>1. \A a, b \in Nat : 1 .. a = 1 .. b => a = b
        <5> TAKE a, b \in Nat
        <5>1. (a \in 1 .. a <=> a > 0) /\ (b \in 1 .. b <=> b > 0)
          OBVIOUS
        <5>2. (a \in 1 .. b <=> a > 0 /\ a <= b) /\ (b \in 1 .. a <=> b > 0 /\ b <= a)
          OBVIOUS
        <5> QED BY <5>1, <5>2
      <4>2. DOMAIN Spaces(x) = 1 .. Len(Spaces(x))
        BY <3>1, LenProperties
      <4> QED BY <1>1, <3>2, <4>1, <4>2
    <3>4. \A k \in 1 .. x : Spaces(x)[k] = Put(Glyph(" "))
      BY <3>1
    <3> QED BY <3>1, <3>3, <3>4, OpNames DEF PartSeqs
  <2>4. /\ Len(s) = 1 + x /\ s[1] = Set(0, y)
        /\ \A k \in 1 .. x : s[1 + k] = Spaces(x)[k]
    <3> HIDE DEF s
    <3> QED BY <1>1, <2>1, <2>2, <2>3, JoinElements
  <2>5. \A k \in 2 .. Len(s) : s[k].op = "put"
    <3> TAKE k \in 2 .. Len(s)
    <3>1. k - 1 \in 1 .. x /\ 1 + (k - 1) = k
      <4>1. \A m \in Nat : \A j \in 2 .. (1 + m) : j - 1 \in 1 .. m /\ 1 + (j - 1) = j
        OBVIOUS
      <4>2. x \in Nat /\ k \in 2 .. (1 + x)
        <5> HIDE DEF s
        <5> QED BY <1>1, <2>4
      <4> HIDE DEF s, x
      <4> QED BY <4>1, <4>2
    <3> QED BY <2>3, <2>4, <3>1
  <2>6. Len(s) \in 1 .. Cols /\ s[1].op = "set" /\ s[1].x = 0
    BY <1>1, <2>4, OpNames
  <2> QED BY <2>5, <2>6
<1>12. CASE c = "K" /\ n = 2
  <2>1. s = <<Set(0, y)>> \o Append(Spaces(Cols), back)
    BY <1>12 DEF Erasure, n, back
  <2>2. <<Set(0, y)>> \in PartSeqs
    BY <1>3, SeqTypes
  <2> QED BY <1>1, <1>4, <1>5, <1>6, <2>1, <2>2
<1>13. CASE c = "X"
  <2>1. s = Append(Spaces(n), back)
    BY <1>13 DEF Erasure, n, back
  <2> QED BY <1>2, <1>4, <1>6, <2>1
<1>14. CASE c = "P"
  <2> DEFINE left == [k \in 1 .. Span(x + n, Cols) |-> Copy(Cell(x + k - 1, y), Cell(x + n + k - 1, y))]
             at == <<Set(Minus(Cols, n), y)>>
  <2>1. s = left \o at \o Append(Spaces(n), back)
    BY <1>14 DEF Erasure, n, back
  <2>2. at \in PartSeqs
    <3>1. Minus(Cols, n) \in Nat
      BY <1>1, <1>2, MinusIsNat
    <3> QED BY <1>1, <3>1, PartTypes, SeqTypes
  <2>3. left \in PartSeqs
    <3>1. Span(x + n, Cols) \in Nat
      <4>1. x + n \in Nat /\ Cols \in Nat
        BY <1>1, <1>2
      <4> QED BY <4>1, SpanIsNat
    <3>2. \A k \in 1 .. Span(x + n, Cols) :
            Copy(Cell(x + k - 1, y), Cell(x + n + k - 1, y)) \in Parts
      <4> TAKE k \in 1 .. Span(x + n, Cols)
      <4>1. x + k - 1 \in Nat /\ x + n + k - 1 \in Nat
        BY <1>1, <1>2, <3>1
      <4>2. Cell(x + k - 1, y) \in Nat /\ Cell(x + n + k - 1, y) \in Nat
        BY <1>1, <4>1, CellIsNat
      <4> QED BY <4>2, PartTypes
    <3> QED BY <3>1, <3>2, SeqTypes
  <2> HIDE DEF left, at
  <2>4. left \o at \in PartSeqs
    BY <2>2, <2>3, SeqTypes
  <2> QED BY <1>2, <1>4, <1>5, <1>6, <2>1, <2>4
<1>15. CASE c = "@"
  <2>1. Erasure(c) \in PartSeqs
    BY ErasureTypes
  <2>2. PICK shift : s = Append(shift, back)
    BY <1>15 DEF Erasure, back
  <2> QED BY <1>4, <2>1, <2>2
<1>16. CASE (c = "J" /\ n \notin {0, 1, 2, 3}) \/ (c = "K" /\ n \notin {0, 1, 2})
  <2>1. s = <<>>
    BY <1>16 DEF Erasure, n
  <2> QED BY <2>1
<1> QED BY <1>7, <1>8, <1>9, <1>10, <1>11, <1>12, <1>13, <1>14, <1>15, <1>16 DEF Erases

\* Every character.
LEMMA ReceiveGrid ==
  ASSUME IInv, GridInv, NEW c, Receive(c), ~narrowed'
  PROVE  GridInv'
<1>1. PICK phase : Receives(phase)
  BY DEF Receive, Move, Shift, Introduce, Show, Discard, SelectCharset, Begin, SelectSet, SaveState,
         RestoreState, Reset, EscapeLine, EscapeOther, Parse, DecPrivate, MoveTo, Erase,
         SelectGraphics, SetMargins, SetMode, Ends, Finishes
<1>2. ~narrowed
  BY DEF Receive, Move, Shift, Introduce, Show, Discard, SelectCharset, Begin, SelectSet, SaveState,
         RestoreState, Reset, EscapeLine, EscapeOther, Parse, DecPrivate, MoveTo, Erase,
         SelectGraphics, SetMargins, SetMode, Keep, context
<1>3. /\ todo = <<>> /\ OnGridAt(cursor) /\ scrolling = TRUE
      /\ defined /\ margins.bottom = Rows /\ OnGridAt(saved.cursor)
  BY <1>1, <1>2, ReceivesReady
<1>4. CASE Move(c) \/ Introduce(c) \/ Show(c) \/ Discard(c) \/ Begin(c) \/ SelectSet(c)
           \/ EscapeOther(c) \/ Parse(c) \/ Shift(c) \/ SelectCharset(c) \/ DecPrivate(c)
  <2>1. UNCHANGED <<cursor, scrolling, defined, margins, saved>>
    BY <1>4 DEF Move, Introduce, Show, Discard, Begin, SelectSet, EscapeOther, Parse, Shift,
                SelectCharset, DecPrivate, Keep, context
  <2> QED BY <1>3, <2>1, GridReady DEF OnGridAt
<1>5. CASE SaveState(c)
  <2>1. UNCHANGED <<cursor, scrolling, defined, margins>> /\ saved'.cursor = cursor
    BY <1>5 DEF SaveState
  <2> QED BY <1>3, <2>1, GridReady DEF OnGridAt
<1>6. CASE RestoreState(c)
  <2>1. UNCHANGED <<scrolling, defined, margins, saved>> /\ cursor' = saved.cursor
    BY <1>6 DEF RestoreState
  <2> QED BY <1>3, <2>1, GridReady DEF OnGridAt
<1>7. CASE Reset(c)
  <2>1. UNCHANGED <<cursor, scrolling, defined, saved>> /\ margins'.bottom = Rows
    BY <1>7 DEF Reset, FullMargins
  <2> QED BY <1>3, <2>1, GridReady DEF OnGridAt
<1>8. CASE EscapeLine(c)
  <2>1. UNCHANGED <<cursor, scrolling, margins, saved>>
    BY <1>8 DEF EscapeLine, context
  <2>2. defined'
    BY <1>3, <1>8, TerminalAssumption DEF TerminalAssumption, EscapeLine
  <2> QED BY <1>3, <2>1, <2>2, GridReady DEF OnGridAt
<1>9. CASE MoveTo(c)
  <2>1. /\ Finishes(c) /\ c \in Moves /\ todo' = <<Position(c), EnableScroll>> /\ margins' = margins
    BY <1>9 DEF MoveTo
  <2>2. Position(c) \in Parts /\ <<Position(c)>> \in PartSeqs
    BY <1>9, <2>1, PositionTypes, SeqTypes DEF IInv, Finishes, Ends, Receives
  <2>3. todo' = Append(<<Position(c)>>, EnableScroll)
    BY <2>1, <2>2
  <2>4. Position(c).op = "set"
    BY <2>1, OpNames DEF Position, Moves
  <2>5. <<Position(c)>> # <<>> /\ <<Position(c)>>[Len(<<Position(c)>>)].op = "set"
    BY <2>4
  <2> QED BY <1>2, <1>3, <2>1, <2>2, <2>3, <2>5, GridFinished
<1>10. CASE Erase(c)
  <2>1. /\ Finishes(c) /\ c \in Erases /\ todo' = Append(Erasure(c), EnableScroll) /\ margins' = margins
        /\ CursorCell \in Cells
    BY <1>10 DEF Erase, Finishes, Ends, Receives
  <2>2. Erasure(c) \in PartSeqs
    BY <2>1, ErasureTypes DEF IInv
  <2>3. PICK s : s = Erasure(c)
    OBVIOUS
  <2>4. \/ \A k \in DOMAIN s : s[k].op # "put"
        \/ s # <<>> /\ s[Len(s)].op = "set"
        \/ /\ Len(s) \in 1 .. Cols /\ s[1].op = "set" /\ s[1].x = 0
           /\ \A k \in 2 .. Len(s) : s[k].op = "put"
    BY <2>1, <2>3, ErasureReturns DEF IInv
  <2> QED BY <1>2, <1>3, <2>1, <2>2, <2>3, <2>4, GridFinished
<1>11. CASE SelectGraphics(c)
  <2> DEFINE each == [k \in 1 .. count |-> Graphics(parser.values[k])]
  <2>1. /\ Finishes(c) /\ margins' = margins
        /\ todo' = Append(IF count = 0 THEN <<Graphics(0)>> ELSE each, EnableScroll)
    BY <1>11 DEF SelectGraphics
  <2>2. count \in Nat /\ \A k \in 1 .. count : parser.values[k] \in Nat
    BY ValueTypes DEF IInv
  <2>3. each \in PartSeqs /\ <<Graphics(0)>> \in PartSeqs
    BY <2>2, PartTypes, SeqTypes
  <2>4. PICK s \in PartSeqs : /\ todo' = Append(s, EnableScroll)
                              /\ \A k \in DOMAIN s : s[k].op # "put"
    <3>1. \A k \in DOMAIN each : each[k].op # "put"
      BY OpNames
    <3>2. \A k \in DOMAIN <<Graphics(0)>> : <<Graphics(0)>>[k].op # "put"
      BY OpNames
    <3> HIDE DEF each
    <3> QED BY <2>1, <2>3, <3>1, <3>2
  <2> QED BY <1>2, <1>3, <2>1, <2>4, GridFinished
<1>12. CASE SetMargins(c)
  <2>1. /\ Finishes(c) /\ todo' = <<Set(0, 0), EnableScroll>>
        /\ narrowed' = (narrowed \/ margins'.bottom < Rows)
    BY <1>12 DEF SetMargins
  <2>2. margins'.bottom = Rows
    <3>1. MarginTypes'
      BY <1>12, SetMarginsStep DEF IInv, PlaceTypes
    <3>2. margins'.bottom \in 0 .. Rows /\ ~(margins'.bottom < Rows)
      BY <2>1, <3>1 DEF MarginTypes
    <3> QED BY <3>2, TerminalAssumption DEF TerminalAssumption
  <2>3. Set(0, 0) \in Parts /\ <<Set(0, 0)>> \in PartSeqs
    BY PartTypes, SeqTypes
  <2>4. todo' = Append(<<Set(0, 0)>>, EnableScroll)
    BY <2>1, <2>3
  <2>5. <<Set(0, 0)>> # <<>> /\ <<Set(0, 0)>>[Len(<<Set(0, 0)>>)].op = "set"
    BY OpNames
  <2> QED BY <1>2, <2>1, <2>2, <2>3, <2>4, <2>5, GridFinished
<1>13. CASE SetMode(c)
  <2>1. Finishes(c) /\ todo' = <<EnableScroll>> /\ margins' = margins
    BY <1>13 DEF SetMode
  <2>2. <<>> \in PartSeqs /\ todo' = Append(<<>>, EnableScroll)
    BY <2>1, SeqTypes
  <2>3. \A k \in DOMAIN <<>> : <<>>[k].op # "put"
    OBVIOUS
  <2> QED BY <1>2, <1>3, <2>1, <2>2, <2>3, GridFinished
<1> QED BY <1>4, <1>5, <1>6, <1>7, <1>8, <1>9, <1>10, <1>11, <1>12, <1>13 DEF Receive

LEMMA GridStep == ASSUME IInv, GridInv, [Next]_vars PROVE GridInv'
<1> SUFFICES ASSUME ~narrowed' PROVE GridInv'
  BY DEF GridInv
<1>1. ASSUME NEW c \in Chars, Receive(c) PROVE GridInv'
  BY <1>1, ReceiveGrid
<1>2. CASE Perform
  BY <1>2, PerformGrid
<1>3. CASE Flush \/ UNCHANGED vars
  <2>1. UNCHANGED <<context, cursor, scrolling, todo, defined>>
    BY <1>3 DEF Flush, vars
  <2>2. UNCHANGED <<narrowed, margins, saved>>
    BY <2>1 DEF context
  <2> QED BY <2>1, <2>2 DEF GridInv, FindsGrid, OnGridAt, Ops, Ending, StaysInLine, StartsLine, ReturnsLater
<1>4. CASE FlushAstray
  <2>1. todo = <<>> /\ CursorCell \notin Cells /\ ~narrowed
    BY <1>4 DEF FlushAstray, context
  <2>2. OnGridAt(cursor)
    BY <2>1 DEF GridInv, FindsGrid, Ending, StartsLine, ReturnsLater, Ops
  <2> QED BY <2>1, <2>2, CellOnGrid
<1> QED BY <1>1, <1>2, <1>3, <1>4 DEF Next

LEMMA InitGrid == Init => GridInv
<1> SUFFICES ASSUME Init PROVE GridInv
  OBVIOUS
<1>1. /\ defined = TRUE /\ margins.bottom = Rows /\ scrolling = TRUE
      /\ cursor = Home /\ saved.cursor = Home
  BY DEF Init, FullMargins
<1>2. Home.x = 0 /\ Home.y = 0
  BY DEF Home, At
<1>3. OnGridAt(cursor) /\ OnGridAt(saved.cursor)
  BY <1>1, <1>2, TerminalAssumption DEF TerminalAssumption, OnGridAt
<1> QED BY <1>1, <1>3 DEF GridInv, FindsGrid

-----------------------------------------------------------------------------
(***************************************************************************)
(* The theorems                                                            *)
(***************************************************************************)
\* Every variable has its type after whatever is received, and the margins
\* that term_control_sequence_parse lets pass are of the grid.
THEOREM TypeCorrect == Spec => []TypeOK
<1>1. IInv => TypeOK
  BY DEF IInv, ScreenInv, BufferTypes, PlaceTypes, MarginTypes, FlagTypes, ColourInv, SavedTypes,
         Agrees, ParserHolds, PartSeqs, TypeOK
<1> QED BY Invariance, <1>1, PTL

\* Until `r` leaves a line below the bottom margin, the cursor is on the grid
\* after every character, however long the sequences that run with scrolling
\* disabled write, so that draw_cursor never reads outside of the arrays.
THEOREM CursorStaysOnGrid == Spec => []CursorOnGrid
<1>1. IInv /\ GridInv /\ [Next]_vars => GridInv'
  BY GridStep
<1>2. GridInv => CursorOnGrid
  <2> SUFFICES ASSUME GridInv, ~narrowed
               PROVE  defined /\ (todo = <<>> => CursorCell \in Cells)
    BY DEF CursorOnGrid
  <2>1. todo = <<>> => OnGridAt(cursor)
    BY DEF GridInv, FindsGrid, StartsLine, ReturnsLater, Ops, Ending
  <2> QED BY <2>1, CellOnGrid DEF GridInv
<1> QED BY Invariance, InitGrid, <1>1, <1>2, PTL DEF Spec

\* push_to_queue never writes beyond the queue, which has one item for every
\* cell, and term_control_sequence_parse never beyond esc_values, for grids of
\* every size: the items name cells that name them, so none is named twice.
THEOREM ArraysNeverOverrun == Spec => []ArraysHold
<1>1. IInv => ArraysHold
  BY QueueFits DEF IInv, ScreenInv, Queued, ParserHolds, ArraysHold
<1> QED BY Invariance, <1>1, PTL

\* Whatever term_sgr is asked for, with reversed colours or without, between
\* saving and restoring, the colour of the text and that behind it are those
\* without reversing, except for one that ESC c left exchanged because it came
\* while they were reversed (term.c:39), until it is set again.
THEOREM ColoursAgree == Spec => []PaletteAgrees
<1>1. IInv => PaletteAgrees
  BY DEF IInv, ColourInv, Agrees, PaletteAgrees
<1> QED BY Invariance, <1>1, PTL

\* The terminal implements a text on a screen: every step edits one cell at
\* most and leaves the screen alone, but for gterm_double_buffer_flush, which
\* makes the screen show the text although it plots only what has changed.
THEOREM Refinement == Spec => ImplementsTextScreen
<1>1. Init => TS!Init
  <2> SUFFICES ASSUME Init PROVE TS!Init
    OBVIOUS
  <2>1. Text = [i \in Cells |-> Blank] /\ CursorCell = 0
    BY InitIsBlank
  <2>2. /\ visible = TRUE
        /\ shown = [i \in Cells |-> IF i = 0 THEN Inverted(Blank) ELSE Blank]
    BY DEF Init
  <2>3. TS!Inverted(Blank) = Inverted(Blank)
    BY DEF TS!Inverted, Inverted
  <2>4. shown = TS!Display(Text, CursorCell, visible)
    BY <2>1, <2>2, <2>3 DEF TS!Display
  <2> QED BY <2>1, <2>2, <2>4 DEF TS!Init
<1>2. IInv /\ [Next]_vars => [TS!Next]_(TS!vars)
  BY EveryStep
<1> QED BY Invariance, <1>1, <1>2, PTL DEF Spec, ImplementsTextScreen, TS!Spec
=============================================================================

------------------------------ MODULE TextScreen ------------------------------
(***************************************************************************)
(* What the user of the terminal is promised: a text is edited one cell at *)
(* a time while the screen stays as it is, and a refresh makes the screen  *)
(* show the text, with the colours of the cursor's cell exchanged.         *)
(***************************************************************************)
CONSTANTS Cells,  \* the positions of the grid
          Blank,  \* what every cell has at first
          Home    \* where the cursor is at first

VARIABLES text,    \* [Cells -> characters with their colours]
          cursor,  \* the cursor's cell, or anything else if it is off the grid
          visible, \* whether the cursor is drawn
          shown    \* what the screen shows

vars == <<text, cursor, visible, shown>>

Inverted(ch) == [ch EXCEPT !.fg = ch.bg, !.bg = ch.fg]

Display(t, k, v) == [i \in Cells |-> IF v /\ i = k THEN Inverted(t[i]) ELSE t[i]]

Init == /\ text = [i \in Cells |-> Blank]
        /\ cursor = Home /\ visible = TRUE
        /\ shown = Display(text, cursor, visible)

\* The cursor may move and be hidden or shown as a character is written.
Edit == /\ \E i \in Cells : text' = [text EXCEPT ![i] = text'[i]]
        /\ UNCHANGED shown

Refresh == /\ shown' = Display(text, cursor, visible)
           /\ UNCHANGED <<text, cursor, visible>>

Next == Edit \/ Refresh

Spec == Init /\ [][Next]_vars
=============================================================================

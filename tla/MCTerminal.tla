------------------------------ MODULE MCTerminal ------------------------------
(***************************************************************************)
(* The instance of Terminal for TLC.  What is written consists of phrases, *)
(* characters and sequences; a behaviour takes at most MaxPhrases of them  *)
(* from one of several sets, chosen for what they exercise together, and   *)
(* flushes wherever it likes.                                              *)
(***************************************************************************)
EXTENDS Terminal

CONSTANT MaxPhrases

VARIABLES phrases,  \* the set this behaviour takes its phrases from
          rest,     \* what is left of the last phrase
          taken     \* how many phrases were taken

Csi(s) == <<"ESC", "[">> \o s
Esc(c) == <<"ESC", c>>
Plain(C) == { <<c>> : c \in C }

MCPhrases == {
  \* text, tabs and scrolling, with the cursor hidden and shown
  Plain({"a", "q", "LF", "CR", "BS", "TAB"}),
  Plain({"a", "LF", "CR"}) \cup { Csi(<<"?", "2", "5", "h">>), Csi(<<"?", "2", "5", "l">>), Esc("M") },
  \* margins, also unusable ones, and lines that scroll between them
  Plain({"a", "LF"}) \cup { Csi(<<"2", ";", "3", "r">>), Csi(<<"r">>), Esc("M"), Esc("D"),
                            Csi(<<"3", ";", "1", "H">>) },
  Plain({"a", "LF"}) \cup { Csi(<<"1", ";", "2", "r">>), Csi(<<"2", ";", "2", "r">>), Esc("E"),
                            Csi(<<"3", "d">>), Csi(<<"X">>), Esc("c") },
  Plain({"a", "LF"}) \cup { Csi(<<";", "0", "r">>), Csi(<<"2", ";", "9", "r">>), Esc("M"), Csi(<<"9", "B">>), Csi(<<"J">>) },
  \* movements
  { Csi(<<"1", ";", "2", "r">>), Csi(<<"2", "A">>), Csi(<<"F">>), Csi(<<"B">>), Csi(<<"2", "E">>),
    Csi(<<"0", "C">>), Csi(<<"2", "D">>) } \cup Plain({"a"}),
  { Csi(<<"H">>), Csi(<<"3", ";", "9", "f">>), Csi(<<"0", "G">>), Csi(<<"2", "GRAVE">>),
    Csi(<<"s">>), Csi(<<"u">>), Csi(<<"2", "d">>), Csi(<<"a">>) } \cup Plain({"a"}),
  \* erasing and moving cells
  { Csi(<<"J">>), Csi(<<"1", "J">>), Csi(<<"2", "J">>), Csi(<<"3", ";", "2", "H">>) } \cup Plain({"a", "LF"}),
  { Csi(<<"K">>), Csi(<<"1", "K">>), Csi(<<"2", "K">>) } \cup Plain({"a", "BS", "LF"}),
  { Csi(<<"9", "X">>), Csi(<<"P">>), Csi(<<"3", "P">>), Csi(<<"@">>), Csi(<<"D">>),
    Csi(<<"2", ";", "1", "H">>) } \cup Plain({"a"}),
  { Csi(<<"4", "h">>), Csi(<<"4", "l">>), Esc("c"), Csi(<<"2", "h">>) } \cup Plain({"a", "q", "CR"}),
  \* colours, and what is saved
  { Csi(<<"m">>), Csi(<<"1", "m">>), Csi(<<"2", "2", "m">>), Csi(<<"7", "m">>),
    Csi(<<"2", "7", "m">>), Csi(<<"3", "1", "m">>), Csi(<<"4", "2", "m">>), Csi(<<"9", "3", "m">>),
    Csi(<<"1", "0", "4", "m">>), Csi(<<"3", "9", "m">>), Csi(<<"4", "9", "m">>),
    Csi(<<"7", ";", "1", "m">>), Csi(<<"3", "2", ";", ";", "0", ";", "1", "m">>), Esc("7"), Esc("8"), Esc("c") },
  { Csi(<<"7", "m">>), Csi(<<"3", "1", "m">>), Esc("7"), Esc("8"), Csi(<<"J">>) } \cup Plain({"a", "LF"}),
  \* character sets
  { <<"ESC", "(", "0">>, <<"ESC", "(", "B">>, <<"ESC", ")", "B">>, <<"ESC", ")", "x">>,
    Esc("7"), Esc("8") } \cup Plain({"SO", "SI", "q"}),
  \* sequences in pieces
  Plain({"ESC", "[", "CSI", "?", ";", "1", "h"})
}

MCChars == UNION { { p[k] : k \in DOMAIN p } : p \in UNION MCPhrases }

MCInit == Init /\ phrases \in MCPhrases /\ rest = <<>> /\ taken = 0

Take == /\ rest = <<>> /\ todo = <<>> /\ taken < MaxPhrases
        /\ \E p \in phrases : rest' = p
        /\ taken' = taken + 1
        /\ UNCHANGED <<vars, phrases>>

MCNext ==
  \/ Take
  \/ rest # <<>> /\ Receive(Head(rest)) /\ rest' = Tail(rest) /\ UNCHANGED <<phrases, taken>>
  \/ (Perform \/ Flush \/ FlushAstray) /\ UNCHANGED <<phrases, rest, taken>>

MCSpec == MCInit /\ [][MCNext]_<<vars, phrases, rest, taken>>
=============================================================================

------------------------------- MODULE MCLogger -------------------------------
(***************************************************************************)
(* The instance of Logger for TLC: two short lines of text and a line with *)
(* numbers, one of them longer than itoa() converts.                       *)
(***************************************************************************)
EXTENDS Logger

MCChar == {"p", "q", "r"} \cup { Digit[k] : k \in DOMAIN Digit }
MCProgram == << <<Str(<<"p", "q">>), Num(6), Endl, Str(<<"r">>), Endl>>,
                <<Base(2), Num(10), Endl>> >>
===============================================================================

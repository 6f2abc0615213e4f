------------------------------ MODULE MCBuddyFree ------------------------------
(***************************************************************************)
(* Instances of BuddyFree for TLC: regions of four pages.                  *)
(***************************************************************************)
EXTENDS BuddyFree

MCSize == [k \in 0 .. MaxK |-> 2^k]

\* Memory full of what looks like a link to the first page.
MCBoot == {[p \in Page |-> 0]}

\* Blocks of one page and of the whole region.
MCSizes == {4096, 16384}
===============================================================================

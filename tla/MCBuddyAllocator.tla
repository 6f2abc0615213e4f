--------------------------- MODULE MCBuddyAllocator ---------------------------
(***************************************************************************)
(* Instances of BuddyAllocator for TLC.                                    *)
(***************************************************************************)
EXTENDS BuddyAllocator

MCSize == [k \in 0 .. MaxK |-> 2^k]

\* Memory full of what looks like a link to the first page.
MCBoot == {[p \in Page |-> 0]}

\* One page; three pages, which are rounded up to four.
MCSizes == {4096, 12288}

\* Sizes just above a power of two.
MCOddSizes == {4096, 4097, 8200}
===============================================================================

------------------------------ MODULE PageSource ------------------------------
(***************************************************************************)
(* What a caller of BuddyAllocator::alloc may rely on (buddy.hpp:78-137),  *)
(* with no free lists, no splitting and no lock: a source of aligned       *)
(* power-of-two blocks of one region of memory.  A request is answered     *)
(* with a block nobody has, or with a null pointer when no aligned block   *)
(* of that order is left.                                                  *)
(***************************************************************************)
EXTENDS Integers

CONSTANTS CPU,      \* the processors that call alloc
          MaxK,     \* the region is one block of order MaxK
          Size,     \* Size[k]: the pages of a block of order k
          Orders,   \* the orders that are asked for
          None      \* no request pending

VARIABLES owned,    \* the blocks handed out: pairs <<first page, order>>
          pending   \* pending[c]: the order CPU c waits for, or None

vars == <<owned, pending>>

Span(b, k) == b .. (b + Size[k] - 1)

Taken == UNION { Span(x[1], x[2]) : x \in owned }

\* The aligned blocks of order k that touch nothing handed out.
Fits(k) == IF k > MaxK THEN {}
           ELSE { b \in 0 .. (Size[MaxK] - 1) :
                    b % Size[k] = 0 /\ Span(b, k) \cap Taken = {} }

Init == /\ owned = {}
        /\ pending = [c \in CPU |-> None]

Request(c) == /\ pending[c] = None
              /\ \E k \in Orders : pending' = [pending EXCEPT ![c] = k]
              /\ UNCHANGED owned

Grant(c) == /\ pending[c] # None
            /\ pending' = [pending EXCEPT ![c] = None]
            /\ \E b \in Fits(pending[c]) : owned' = owned \cup {<<b, pending[c]>>}

Refuse(c) == /\ pending[c] # None
             /\ pending' = [pending EXCEPT ![c] = None]
             /\ UNCHANGED owned
             /\ Fits(pending[c]) = {}

Next == \E c \in CPU : Request(c) \/ Grant(c) \/ Refuse(c)

Spec == Init /\ [][Next]_vars
===============================================================================

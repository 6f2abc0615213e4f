------------------------------ MODULE StackTrace -------------------------------
(***************************************************************************)
(* What a panic prints of the calls that led to it (strace.cpp,            *)
(* symbols.cpp): the return addresses found along the frame pointers, each *)
(* with the function that the table of symbols says it is in.              *)
(*                                                                         *)
(* A chain is the sequence of those return addresses, innermost first.     *)
(* What lies behind the last frame is zero.                                *)
(***************************************************************************)
EXTENDS Integers, SequencesExt

CONSTANTS symbol_table, \* [addr, name], in the order of objdump, without the end mark
          ReturnTo      \* the return addresses that calls in a function leave

Symbols == [addr : Nat \ {0}, name : STRING]

ASSUME StackTraceAssumption ==
  /\ symbol_table \in Seq(Symbols) /\ symbol_table # <<>>
  /\ \A f \in DOMAIN ReturnTo : ReturnTo[f] \subseteq Nat

\* The chains of calls whose return addresses are those of the callers.
Called(chains, f) == { Append(c, a) : c \in chains, a \in ReturnTo[f] }
Chains(callers) ==
  LET chains[n \in 0 .. Len(callers)] ==
        IF n = 0 THEN {<<>>} ELSE Called(chains[n - 1], callers[n])
  IN  chains[Len(callers)]

Symbol(addresses) == IF addresses = {} THEN symbol_table[1].name
                     ELSE symbol_table[Min({ k \in DOMAIN symbol_table :
                                               symbol_table[k].addr = Max(addresses) })].name

Addresses == { symbol_table[k].addr : k \in DOMAIN symbol_table }
Returns == UNION { ReturnTo[f] : f \in DOMAIN ReturnTo }

\* Mutant: a symbol at the address itself counts.
Mutlookup == [addr \in Returns |-> Symbol({ a \in Addresses : a <= addr })]

\* The first of the symbols with the largest address below.  For the address 0
\* the loop never comes to the end mark.
lookup == [addr \in Returns |-> Symbol({ a \in Addresses : a < addr })]

\* What the linker does: functions do not overlap, and a return address lies
\* behind the beginning of its function.  Interrupts enter through code that
\* has no symbol, and is not placed right behind kernel_init().
ASSUME LinkAssumption ==
  /\ {"panic", "interrupt_handler", "irq_handler", "kernel_init",
      "interrupt_wrapper", "irq_wrapper", "nothing"} \subseteq DOMAIN ReturnTo
  /\ \A f \in {"panic", "interrupt_handler", "irq_handler", "kernel_init"} : \A a \in ReturnTo[f] :
       \E k \in DOMAIN symbol_table :
         /\ symbol_table[k].name = f /\ symbol_table[k].addr < a
         /\ \A j \in DOMAIN symbol_table :
              \/ symbol_table[j].addr >= a
              \/ symbol_table[j].addr < symbol_table[k].addr
              \/ symbol_table[j].addr = symbol_table[k].addr /\ j >= k
  /\ \A f \in {"interrupt_wrapper", "irq_wrapper"} : \A a \in ReturnTo[f] :
       a # 0 /\ lookup[a] # "kernel_init"
  /\ ReturnTo["nothing"] = {0}

\* trace_callstack(): at most ten lines, the last that of kernel_init.
Lines(chain) == Min({ k \in DOMAIN chain : lookup[chain[k]] = "kernel_init" } \cup {10})
Trace(chain) == [k \in 1 .. Min({Lines(chain), Len(chain)}) |-> lookup[chain[k]]]
Endless(chain) == ~ \A k \in 1 .. Lines(chain) : k <= Len(chain) /\ chain[k] # 0
===============================================================================

----------------------------- MODULE MCKernelSpace -----------------------------
(***************************************************************************)
(* The instance of KernelSpace for TLC: tables of four entries, so that a  *)
(* GiB has 16 pages.  The memory map ends at page 60.  The last two pools  *)
(* are used up by the heap, and by the tables of the first range.          *)
(***************************************************************************)
EXTENDS KernelSpace, FiniteSetsExt, TLC

MCIndex == 0 .. 3
MCFrame == 0 .. 79

\* The boot loader maps the first four GiB to themselves.
MCBootTables ==
  1 :> [i \in Index |-> IF i = 0 THEN [addr |-> 2, ps |-> FALSE] ELSE None]
  @@ 2 :> [i \in Index |-> [addr |-> i * GiB, ps |-> TRUE]]

MCBootPlace == 1 :> Place("boot", 4, None) @@ 2 :> Place("boot", 3, ToPage(0))
MCBootMapped == { [space |-> "boot", virt |-> ToPage(i * GiB), size |-> 3, phys |-> i * GiB] :
                    i \in Index }

MCPools == { [boot |-> 4 .. 7, kernel |-> 8 .. n] : n \in {59, 40, 20} }

\* An instance of the allocator gives its lowest block.
MCAnswer(S, f) == f = Min(S)
=============================================================================

-------------------------------- MODULE MCBoot --------------------------------
(***************************************************************************)
(* The instance of Boot for TLC: one machine that conforms, and machines   *)
(* that differ from it in one respect each.                                *)
(***************************************************************************)
EXTENDS Boot

Record(type, len, source, gsi) == [type |-> type, len |-> len, source |-> source, gsi |-> gsi, base |-> 0]

Processor0 == Record(lApic, 8, 0, 1)
TheIoApic == Record(ioApic, 12, 0, 0)
Override(source, gsi) == Record(sourceOverride, 10, source, gsi)
Nmi == Record(4, 6, 255, 0)

Standard == <<Processor0, TheIoApic, Override(0, 2), Override(5, 5), Nmi>>

\* What lies behind: the header of the next table ("HPET"), or zeros.
NextTable == <<Record(72, 80, 84, 56)>>
Zeros == <<Record(0, 0, 0, 0)>>

NoMadt == [records |-> <<>>, behind |-> <<>>]
Table(signature, sum, body) == [signature |-> signature, sum |-> sum, body |-> body]
Apic(records, behind) == Table("APIC", 0, [records |-> records, behind |-> behind])
Hpet == Table("HPET", 0, NoMadt)

Good == [revision |-> 2, sum |-> 0]
Machine(rsdp, rsdt, xsdt) == [rsdp |-> rsdp, rsdt |-> rsdt, xsdt |-> xsdt, stray |-> Nothing]
Straying(m, what) == [m EXCEPT !.stray = what]
With(records, behind) == Machine(Good, <<Hpet>>, <<Apic(records, behind), Hpet>>)

Usual == With(Standard, NextTable)
Seven == [k \in 1 .. 7 |-> Override(IF k = 7 THEN 1 ELSE 8 + k, 9)]

\* Without an override, booting stops before the tasks start.
Clocks == With(<<Processor0, TheIoApic>>, NextTable)

\* On one machine shift and caps lock are used, and nothing else happens.
Typed == With(<<Processor0, TheIoApic, Override(0, 2)>>, NextTable)

\* Machines with a frame buffer stop after the console's initialization.
Bgrt(bmp, width, height, bpp) ==
  [valid |-> TRUE, picture |-> [bmp |-> bmp, width |-> width, height |-> height, bpp |-> bpp]]
Pictured(bgrt) == Machine(Good, <<>>, <<Hpet, Table("BGRT", 0, bgrt)>>)
Pictures == { Bgrt(TRUE, 3, 2, 24), Bgrt(TRUE, 5, 9, 24), Bgrt(TRUE, 12, 3, 32), Bgrt(TRUE, 11, 8, 24),
              Bgrt(FALSE, 3, 2, 32), [Bgrt(TRUE, 3, 2, 24) EXCEPT !.valid = FALSE] }
MCFrames == { [width |-> 10, height |-> 7, pitch |-> 10], [width |-> 9, height |-> 5, pitch |-> 12] }

\* IRQ 1 on pin 1 of the GSIs from 128 on, and beyond a byte.
Wired(gsi) == With(Standard \o <<Override(1, gsi)>>, NextTable)

MCRequests == { LVT_BASE + pin : pin \in (0 .. (Pins - 1)) \cup (128 .. (127 + Pins)) }

MCMachines ==
  { Usual,
    With(Standard, Zeros),
    Clocks, Typed,
    With(<<Processor0, Override(0, 2)>>, NextTable),
    Wired(1), Wired(9), Wired(16), Wired(30), Wired(120), Wired(129), Wired(257),
    Straying(Usual, 9), Straying(Usual, Unmapped), Straying(Wired(1), Unmapped),
    Straying(With(<<TheIoApic>> \o [Seven EXCEPT ![7] = Override(15, 15)], NextTable), 9),
    With(<<TheIoApic>> \o Seven, NextTable),
    With(Standard, <<Override(1, 9)>> \o NextTable),
    Machine([Good EXCEPT !.sum = 1], <<Apic(Standard, NextTable), Hpet>>, <<>>),
    Machine([revision |-> 0, sum |-> 1], <<Apic(Standard, NextTable), Hpet>>, <<>>),
    Machine(Good, <<>>, <<Table("APIC", 1, NoMadt), Apic(Standard, NextTable), Hpet>>),
    Machine(Good, <<>>, <<Table("APIC", 1, NoMadt), Hpet>>),
    Machine(Good, <<>>, <<Apic(Standard, NextTable)>>) } \cup
  { Pictured(b) : b \in Pictures }

\* The table of symbols is not sorted, and has none of interrupt.asm.  panic() and
\* kernel_main() do not return: what calls them may end with the call.
MCSymbols == << [addr |-> 30, name |-> "irq_handler"], [addr |-> 10, name |-> "panic"],
                [addr |-> 50, name |-> "kernel_main"],
                [addr |-> 20, name |-> "interrupt_handler"],
                [addr |-> 40, name |-> "kernel_init"] >>
MCReturnTo == [f \in {"panic", "interrupt_handler", "irq_handler", "kernel_init",
                      "interrupt_wrapper", "irq_wrapper", "nothing"} |->
                 CASE f = "panic" -> {15} [] f = "interrupt_handler" -> {30}
                   [] f = "irq_handler" -> {35} [] f = "kernel_init" -> {50}
                   [] f = "nothing" -> {0} [] OTHER -> {60}]

\* On one machine only the code is held up; the firmware leaves anything in the
\* HPET of two.
MCInit == /\ BootInit
          /\ frame # NoFrame <=> machine \in { Pictured(b) : b \in Pictures }
          /\ machine # Clocks => phase = 0
          /\ machine # Typed => held = {}
          /\ machine \notin {Clocks, Usual} => periodic /\ enabled /\ counter = 0

MCNext == /\ Next
          /\ machine # Clocks => delay' = 0
          /\ IF machine = Typed THEN entry'.raised \notin Exceptions /\ LVT_BASE \notin irr'
                                ELSE held' = {} /\ ~caps' /\ ~astray'

MCSpec == /\ MCInit /\ [][MCNext]_bootVars
          /\ WF_bootVars(BootStep) /\ WF_bootVars(OthersStart)
          /\ WF_bootVars(Interrupt) /\ WF_bootVars(Processor)
===============================================================================

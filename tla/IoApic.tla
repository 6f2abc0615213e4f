-------------------------------- MODULE IoApic --------------------------------
(***************************************************************************)
(* The I/O APIC (ioapic.cpp): which of its pins raises which vector.       *)
(* initAll() takes the first I/O APIC of the MADT; enableIRQ() asks the    *)
(* MADT which global interrupt (GSI) an ISA interrupt was wired to and     *)
(* writes that pin's redirection entry.                                    *)
(***************************************************************************)
EXTENDS Acpi

CONSTANT Pins  \* the pins of the I/O APIC

VARIABLES ioapics,     \* ioapicsSingleton: the interrupt bases
          redirection  \* the vector each pin raises, None while it is masked

ioVars == <<acpiVars, ioapics, redirection>>

None == -1
Masked == [pin \in 0 .. (Pins - 1) |-> None]
LVT_BASE == 32

IoInit == AcpiStart /\ ioapics = <<>> /\ redirection = Masked

Madt == root[Find("APIC")].body

Stops(how) == halted' = how /\ UNCHANGED <<ioapics, redirection>>

\* IOApic::initAll().  The elements of an empty vector are read through a null
\* pointer, and the first page is not mapped.
InitAll == /\ CASE Find("APIC") = 0 -> Stops("panic")
                [] Find("APIC") # 0 /\ ~Terminates(Madt) -> Stops("loop")
                [] OTHER -> LET found == Enumerate(Madt, ioApic)
                            IN  IF found = <<>> THEN Stops("fault")
                                ELSE /\ ioapics' = <<GlobalInterruptBase(Madt, found[1])>>
                                     /\ UNCHANGED <<redirection, halted>>
           /\ UNCHANGED <<machine, root>>

\* Mutant: the vector's second element is where the search begins.
MutOverrides == LET found == Enumerate(Madt, sourceOverride)
                IN  [k \in 1 .. (Len(found) - 1) |-> Memory(Madt)[found[k + 1]]]

Overrides == LET found == Enumerate(Madt, sourceOverride)
             IN  [k \in DOMAIN found |-> Memory(Madt)[found[k]]]

\* getGSI() looks at six elements, however many there are, and answers with the
\* low byte of what it finds.
GetGSI(irq) ==
  LET six == SubSeq(Overrides, 1, IF Len(Overrides) < 6 THEN Len(Overrides) ELSE 6)
      own == SelectInSeq(six, LAMBDA r : r.source = irq)
  IN  CASE own # 0 -> six[own].gsi % 256
        [] own = 0 /\ Len(six) < 6 /\ machine.stray \in Nat -> machine.stray % 256
        [] OTHER -> irq

\* It reads through an element that is no address; those of an empty vector are
\* read through a null pointer.
Faults(irq) == \/ Overrides = <<>>
               \/ /\ Len(Overrides) < 6 /\ machine.stray = Unmapped
                  /\ \A k \in DOMAIN Overrides : Overrides[k].source # irq

\* IOAPIC_REDTBL_BASE.  A pin's entry is two registers, of which the lower has the
\* vector.  The offset has 8 bits: from 120 on a GSI comes round to the chip's
\* first registers, which nothing reads again, and from 128 on to the pins; a
\* register in between that the chip does not have is ignored.
Offset(pin) == 16 + 2 * pin

\* updateIRQ().
UpdateIRQ(irq) == redirection' = [pin \in DOMAIN redirection |->
                    IF Offset(irq) % 256 = Offset(pin) THEN (LVT_BASE + irq) % 256
                                                       ELSE redirection[pin]]

\* enableIRQ().  The comparison asks for a base above the GSI, where one at or
\* below it is meant; what makes it true is the width of the base.
EnableIRQ(irq) ==
  /\ IF Faults(irq) THEN Stops("fault")
     ELSE \E gsi \in {GetGSI(irq)} :
            IF \E k \in DOMAIN ioapics : gsi < ioapics[k]
            THEN UpdateIRQ(gsi) /\ UNCHANGED <<ioapics, halted>>
            ELSE Stops("panic")
  /\ UNCHANGED <<machine, root>>
===============================================================================

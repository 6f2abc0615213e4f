--------------------------------- MODULE Acpi ---------------------------------
(***************************************************************************)
(* The firmware's tables as the kernel reads them (acpi.cpp, madt.hpp).    *)
(*                                                                         *)
(* A machine is what its firmware provides: the RSDP, the two root tables, *)
(* each a sequence of tables with a signature, a checksum and a body: the  *)
(* records of the MADT with the memory behind it.  A record is what the    *)
(* kernel looks at: its type and length, the byte and the 32 bits that a   *)
(* source override keeps its source and GSI in, and an I/O APIC's          *)
(* interrupt base.  `stray' is what lies behind the elements of a vector   *)
(* of less than six, in memory of the heap that nobody cleared: null       *)
(* pointers and records of no interest, an address that is not mapped, or  *)
(* a pointer to what is read as an override of IRQ 1, with this GSI.       *)
(***************************************************************************)
EXTENDS Integers, Sequences, SequencesExt

CONSTANT Machines

Nothing == -1
Unmapped == -2

Records == [type : Nat, len : Nat, source : Nat, gsi : Nat, base : Nat]

ASSUME AcpiAssumption ==
  \A m \in Machines :
    /\ m.stray \in Nat \cup {Nothing, Unmapped}
    /\ \A tables \in {m.rsdt, m.xsdt} :
         /\ Len(tables) \in Nat /\ DOMAIN tables = 1 .. Len(tables)
         /\ \A k \in DOMAIN tables : tables[k].signature = "APIC" =>
              tables[k].body.records \in Seq(Records) /\ tables[k].body.behind \in Seq(Records)

VARIABLES machine,  \* constant over a behavior
          root,     \* the tables of the root table in use, <<>> before init()
          halted    \* how booting ended early: "panic", "loop", or "no"

acpiVars == <<machine, root, halted>>

AcpiStart == machine \in Machines /\ root = <<>> /\ halted = "no"

(***************************************************************************)
(* Acpi                                                                    *)
(***************************************************************************)

\* The XSDT for revision 2 and above (acpi.cpp:37-46).
RootTable == IF machine.rsdp.revision >= 2 THEN machine.xsdt ELSE machine.rsdt

\* What validateOrPanic() may find.  The checksum runs over `length` bytes, a
\* field that an RSDP of revision 0 does not have: what lies there is anything.
Valid == IF machine.rsdp.revision >= 2 THEN {machine.rsdp.sum = 0} ELSE BOOLEAN

\* Acpi::init().
AcpiInit == /\ \E valid \in Valid :
                 /\ root' = IF valid THEN RootTable ELSE <<>>
                 /\ halted' = IF valid THEN "no" ELSE "panic"
            /\ UNCHANGED machine

\* compareSignature() and validate().
Matches(table, identifier) == table.signature = identifier /\ table.sum = 0

\* find(): the first table that matches; 0 stands for the null pointer.
Find(identifier) == SelectInSeq(root, LAMBDA t : Matches(t, identifier))

(***************************************************************************)
(* AcpiMadt::enumerate()                                                   *)
(***************************************************************************)
lApic == 0
ioApic == 1
sourceOverride == 2

\* sizeof(AcpiSdt) and the two fields before the records.
MadtHeader == 44

Memory(madt) == madt.records \o madt.behind

\* The bytes of the first n records, for each n.
Bytes(mem) ==
  LET total[n \in 0 .. Len(mem)] == IF n = 0 THEN 0 ELSE total[n - 1] + mem[n].len
  IN  total

\* The loop starts at the records but counts the length of the whole table from
\* there, and so reads as many bytes behind the table as it has before them.
End(madt) == Bytes(madt.records)[Len(madt.records)] + MadtHeader

\* The loop is at record n.  A record of length 0 is one that it never leaves.
Reached(madt, n) == /\ Bytes(Memory(madt))[n - 1] < End(madt)
                    /\ \A k \in 1 .. (n - 1) : Memory(madt)[k].len > 0

Terminates(madt) == \A n \in DOMAIN Memory(madt) : Reached(madt, n) => Memory(madt)[n].len > 0

\* The records of one type, by their index, as the loop pushes them.
Enumerate(madt, type) ==
  LET pushed[n \in 0 .. Len(Memory(madt))] ==
        IF n = 0 THEN <<>>
        ELSE IF Reached(madt, n) /\ Memory(madt)[n].type = type THEN Append(pushed[n - 1], n)
        ELSE pushed[n - 1]
  IN  pushed[Len(Memory(madt))]

\* More than any GSI: a byte is all that is kept of one.
Huge == 256

\* The field is declared with 64 bits where the record has 32: the upper half is
\* the beginning of what follows the record.
GlobalInterruptBase(madt, n) ==
  Memory(madt)[n].base + IF Memory(madt)[n + 1].len = 0 THEN 0 ELSE Huge
===============================================================================

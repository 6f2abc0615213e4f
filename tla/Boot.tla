--------------------------------- MODULE Boot ---------------------------------
(***************************************************************************)
(* The boot processor from the firmware's tables to the keyboard's         *)
(* handler: Acpi::init(), console::init(), initializeThisCpu(), the start  *)
(* of the other processors, IOApic::initAll(), timer::init() and           *)
(* ps2::init(), in the order of init.cpp and kernel.cpp, and from then on  *)
(* the tasks, the timer and the keyboard.                                  *)
(*                                                                         *)
(* It composes IoApic (which extends Acpi), Canvas, Clock, Keyboard and    *)
(* Interrupts (which extends StackTrace).                                  *)
(***************************************************************************)
EXTENDS IoApic, Canvas, Clock, Keyboard, Interrupts

\* The vectors that a pin may be given, the first of which is the timer's too,
\* have their places: its own, and that of the GSI 128 above it.
ASSUME BootAssumption ==
  /\ Pins \in 1 .. 96
  /\ \A pin \in 0 .. (Pins - 1) : {LVT_BASE + pin, LVT_BASE + pin + 128} \subseteq Requests

ASSUME SplashAssumption ==
  \A m \in Machines : \A tables \in {m.rsdt, m.xsdt} : \A k \in DOMAIN tables :
    tables[k].signature = "BGRT" /\ tables[k].body.picture.bmp => tables[k].body.picture \in BmpPictures

VARIABLE stage \* what the boot processor does next

others == <<canvasVars, clockVars>>
bootVars == <<ioVars, canvasVars, clockVars, cpuVars, keyVars, stage>>

\* Which machines come with which clock is left to the instance.
BootInit == /\ IoInit /\ CanvasInit /\ ClockInit /\ InterruptsInit
            /\ KeyboardInit /\ stage = "acpi"

\* A step of booting is taken by code outside handlers.  Booting goes on unless
\* it panics, loops or faults.
Boots(from) == stage = from /\ halted = "no" /\ InterruptsOn
Then(to) == stage' = IF halted' = "no" THEN to ELSE "stopped"

PanicIf(condition) == /\ halted' = IF condition THEN "panic" ELSE "no"
                      /\ UNCHANGED <<machine, root, ioapics, redirection>>

\* Acpi::init().
InitAcpi == /\ Boots("acpi") /\ AcpiInit
            /\ Then("console")
            /\ UNCHANGED <<ioapics, redirection, others, cpuVars, keyVars>>

\* console::init(): without a picture that the firmware no longer shows, there is
\* none behind the text.  What image_open() returns is not looked at: for a file
\* that is not a BMP, an uninitialized structure is drawn.
Splash == LET bgrt == Find("BGRT")
          IN  IF bgrt = 0 THEN NoPicture
              ELSE IF root[bgrt].body.valid THEN root[bgrt].body.picture ELSE NoPicture

InitConsole == /\ Boots("console")
               /\ CASE frame = NoFrame -> PanicIf(FALSE) /\ UNCHANGED canvasVars
                    [] frame # NoFrame /\ Splash # NoPicture /\ ~Splash.bmp ->
                         halted' = "undefined" /\ UNCHANGED <<machine, root, ioapics, redirection, canvasVars>>
                    [] OTHER -> PanicIf(FALSE) /\ ConsoleInit(Splash)
               /\ Then("assign")
               /\ UNCHANGED <<clockVars, cpuVars, keyVars>>

\* initializeThisCpu(): interrupt::init(), and Apic::init(), which finds the
\* address of the local APIC in the MADT.
AssignGates == /\ Boots("assign") /\ PanicIf(FALSE) /\ Assign
               /\ Then("ist")
               /\ UNCHANGED <<inits, regs, current, saved, stack, irr, isr, handlers, entry,
                              reports, others, keyVars>>

SetStacks == /\ Boots("ist") /\ PanicIf(FALSE) /\ SetIst
             /\ Then("lapic")
             /\ UNCHANGED <<inits, regs, current, saved, stack, irr, isr, handlers, entry,
                            reports, others, keyVars>>

InitLocalApic == /\ Boots("lapic") /\ PanicIf(Find("APIC") = 0)
                 /\ Then("smp")
                 /\ UNCHANGED <<others, cpuVars, keyVars>>

\* startAllCores() waits for the other processors, which run interrupt::init().
OthersStart == /\ stage = "smp" /\ (OtherAssigns \/ OtherSetsIst)
               /\ UNCHANGED <<ioVars, others, stage, keyVars>>

StartAllCores == /\ Boots("smp") /\ ~inits.busy /\ PanicIf(FALSE)
                 /\ Then("ioapic")
                 /\ UNCHANGED <<others, cpuVars, keyVars>>

\* Reading through a null pointer is a page fault.
MayFault == IF halted' = "fault"
            THEN /\ Deliver(PageFault)
                 /\ UNCHANGED <<idt, inits, current, saved, irr, isr, handlers, reports>>
            ELSE UNCHANGED cpuVars

InitIoApic == /\ Boots("ioapic") /\ InitAll /\ MayFault
              /\ Then("hpet")
              /\ UNCHANGED <<others, keyVars>>

\* timer::init().
InitHpet == /\ Boots("hpet")
            /\ IF Find("HPET") = 0 THEN UNCHANGED clockVars ELSE HpetInit
            /\ PanicIf(Find("HPET") = 0 \/ ~periodic)
            /\ Then("timer")
            /\ UNCHANGED <<canvasVars, cpuVars, keyVars>>

RegisterHandler(no, handler) ==
  /\ PanicIf(~Free(no))
  /\ IF Free(no) THEN Register(no, handler) ELSE UNCHANGED handlers
  /\ UNCHANGED <<idt, inits, regs, current, saved, stack, irr, isr, entry, reports, others, keyVars>>

RegisterTimer == Boots("timer") /\ RegisterHandler(0, "timer") /\ Then("calibrate")

CalibrateTimer == /\ stage = "calibrate" /\ ClockNext /\ UNCHANGED canvasVars
                  /\ stage' = IF step' = "done" THEN "keyboard" ELSE stage
                  /\ UNCHANGED <<ioVars, cpuVars, keyVars>>

\* ps2::init(): the handler, the pin, and the scancodes that wait are dropped.
RegisterKeyboard == Boots("keyboard") /\ RegisterHandler(1, "ps2") /\ Then("route")

RouteKeyboard == /\ Boots("route") /\ EnableIRQ(1) /\ MayFault
                 /\ Then("clear")
                 /\ UNCHANGED <<others, keyVars>>

ClearBuffer == /\ Boots("clear") /\ PanicIf(FALSE) /\ Drop
               /\ Then("run")
               /\ UNCHANGED <<others, cpuVars>>

(***************************************************************************)
(* Devices and interrupts                                                  *)
(***************************************************************************)

\* The pin the firmware says an ISA interrupt is wired to, all 32 bits of it.
FirmwareGSI(no) == LET own == SelectInSeq(Madt.records, LAMBDA r : /\ r.type = sourceOverride
                                                                   /\ r.source = no)
                   IN  IF own = 0 THEN no ELSE Madt.records[own].gsi

\* The controller requests an interrupt when its buffer fills; the edge is lost
\* on a pin that is masked or that another I/O APIC has.
KeyPress == /\ stage \in {"keyboard", "route", "clear", "run"}
            /\ Strike
            /\ LET pin == FirmwareGSI(1)
               IN  IF pin \in DOMAIN redirection /\ redirection[pin] # None
                   THEN Request(redirection[pin]) ELSE UNCHANGED cpuVars
            /\ UNCHANGED <<ioVars, others, stage>>

TimerFires == /\ stage = "run" /\ ~masked /\ LVT_BASE \notin irr \cup isr
              /\ Request(LVT_BASE)
              /\ UNCHANGED <<ioVars, others, stage, keyVars>>

Exception == /\ stage \in {"smp", "run"} /\ \E v \in Exceptions : Raise(v)
             /\ UNCHANGED <<ioVars, others, stage, keyVars>>

Interrupt == TakeRequest /\ UNCHANGED <<ioVars, others, stage, keyVars>>

\* The keyboard's handler takes the scancode.  A panic is the end of booting.
Processor == /\ Step
             /\ IF Place = "handler" /\ Handler(stack) = "ps2" THEN TakeScancode ELSE UNCHANGED keyVars
             /\ stage' = IF Len(reports') > Len(reports) /\ stage # "run" THEN "stopped" ELSE stage
             /\ UNCHANGED <<ioVars, others>>

BootStep == \/ InitAcpi \/ InitConsole \/ AssignGates \/ SetStacks \/ InitLocalApic
            \/ StartAllCores \/ InitIoApic \/ InitHpet \/ RegisterTimer
            \/ CalibrateTimer \/ RegisterKeyboard \/ RouteKeyboard \/ ClearBuffer

Next == BootStep \/ OthersStart \/ KeyPress \/ TimerFires \/ Exception \/ Interrupt \/ Processor

Spec == BootInit /\ [][Next]_bootVars
FairSpec == Spec /\ WF_bootVars(BootStep) /\ WF_bootVars(OthersStart)
                 /\ WF_bootVars(Interrupt) /\ WF_bootVars(Processor)

(***************************************************************************)
(* Properties                                                              *)
(***************************************************************************)
PictureShown == bg_canvas # <<>> => Shows(Splash)

\* The overrides in the table itself, the one of IRQ 1, if any, and how many there
\* are up to it.
TableOverrides == { n \in DOMAIN Madt.records : Madt.records[n].type = sourceOverride }
OwnOverride == SelectInSeq(Madt.records, LAMBDA r : r.type = sourceOverride /\ r.source = 1)
OwnPlace == Cardinality({ n \in TableOverrides : n <= OwnOverride })

\* The GSI may be another than the firmware's.
Misread == \/ OwnOverride = 0 /\ Cardinality(TableOverrides) < 6
           \/ OwnOverride # 0 /\ OwnPlace <= 6 /\ FirmwareGSI(1) >= 120

Only(gsi) == [pin \in 0 .. (Pins - 1) |-> IF pin = gsi THEN LVT_BASE + pin ELSE None]

\* Once the keyboard is set up, the pin that the firmware wired IRQ 1 to raises
\* the vector of that pin, and all others are masked (ioapic.cpp:41-81), if the
\* override is among the first six and its GSI is below 120, or if there are six
\* or more and none is IRQ 1's.  A seventh is not seen, and the pin is the first
\* then.  A GSI of more comes round to other registers, and if the table has less
\* than six memory behind it, or behind their vector, may be taken for one: that
\* no more than one pin has a vector is all there is to say of these.
RoutedAsFirmwareSays ==
  stage = "run" =>
    IF Misread
    THEN \A p, q \in 0 .. (Pins - 1) : redirection[p] # None /\ redirection[q] # None => p = q
    ELSE redirection = Only(IF OwnPlace > 6 THEN 1 ELSE FirmwareGSI(1))

\* What the firmware has to provide for the keyboard to work.
Conforming ==
  { m \in Machines :
      /\ m.rsdp = [revision |-> 2, sum |-> 0]
      /\ LET good == { t \in ToSet(m.xsdt) : t.sum = 0 }
             apics == { t \in good : t.signature = "APIC" }
         IN  /\ \E t \in good : t.signature = "HPET"
             /\ Cardinality(apics) = 1
             /\ \A t \in apics :
                  LET overrides == SelectSeq(t.body.records, LAMBDA r : r.type = sourceOverride)
                      own == SelectInSeq(overrides, LAMBDA r : r.source = 1)
                      records == ToSet(t.body.records)
                  IN  /\ \A r \in records : r.len > 0
                      /\ t.body.behind[1].len > MadtHeader
                      /\ t.body.behind[1].type \notin {ioApic, sourceOverride}
                      /\ \E r \in records : r.type = ioApic
                      /\ overrides # <<>>
                      /\ IF own = 0 THEN Len(overrides) >= 6 \/ m.stray = Nothing
                                    ELSE own <= 6 /\ overrides[own].gsi = 1 }

\* A panic ends booting, leaves the interrupt unacknowledged in a handler, and may
\* never end in a task.
Stalled == stage = "stopped" \/ \E k \in DOMAIN reports : reports[k].inHandler \/ reports[k].endless

\* On a machine that conforms booting reaches the end of ps2::init(), and from
\* then on every key is taken by the keyboard's handler: through the pin, its
\* vector, gate, entry code and handler, each acknowledged (apic.cpp:51).
KeyHeard == (machine \in Conforming /\ periodic /\ full) ~> (~full \/ Stalled)
===============================================================================

------------------------------ MODULE Interrupts ------------------------------
(***************************************************************************)
(* How a processor enters and leaves the kernel's handlers: the interrupt  *)
(* table (interrupt.cpp), the entry code (interrupt.asm), the dispatcher   *)
(* and the acknowledgement to the local APIC (apic.cpp).                   *)
(*                                                                         *)
(* A register's value is <<owner, register>>: what the code it belongs to  *)
(* left there.  The value of rip is <<owner, place>>.  A context is the    *)
(* code outside handlers: kernel_main or a task.  The stack holds what is  *)
(* pushed from the delivery of an interrupt on, its top last.              *)
(***************************************************************************)
EXTENDS StackTrace, FiniteSets

CONSTANTS Contexts,   \* kernel_main and the tasks
          First,      \* the context that boots
          Exceptions, \* the exceptions that may be raised
          Requests,   \* the vectors the local APIC may be asked for
          MaxInits,   \* bound: other processors that start
          MaxExceptions \* bound: exceptions that are raised

\* The exceptions whose entry code does not expect what the processor pushes:
\* the first is not raised any more, the others need user mode or are off.
Unraised == {9, 17, 21, 29, 30}

ASSUME InterruptsAssumption ==
  /\ First \in Contexts /\ MaxInits \in Nat /\ MaxExceptions \in Nat
  /\ Exceptions \subseteq (0 .. 31) \ Unraised /\ Requests \subseteq 32 .. 255
  /\ "kernel" \notin Contexts

VARIABLES idt,      \* the table all processors share: each vector's entry code and stack
          inits,    \* other processors between the two loops of interrupt::init(), and done
          regs,     \* the registers
          current,  \* whose context the processor is in
          saved,    \* the registers each task keeps
          stack,    \* what was pushed since the interrupt was delivered
          irr, isr, \* the local APIC: vectors requested, and those in service
          handlers, \* irqHandlers
          entry,    \* what was interrupted and why, for the properties
          reports   \* the exceptions reported

apic == <<irr, isr>>
cpuVars == <<idt, inits, regs, current, saved, stack, irr, isr, handlers, entry, reports>>

(***************************************************************************)
(* Registers and frames                                                    *)
(***************************************************************************)

\* The order of pusha64, and of the fields of InterruptFrame.
Pushed == <<"rax", "rbx", "rcx", "rdx", "rsi", "rdi", "rbp",
            "r8", "r9", "r10", "r11", "r12", "r13", "r14", "r15">>
InterruptFrame == <<"r15", "r14", "r13", "r12", "r11", "r10", "r9", "r8",
                    "rdi", "rsi", "rbp", "rdx", "rcx", "rbx", "rax",
                    "int_no", "err", "rip", "cs", "rflags", "rsp", "ss">>
Fields == ToSet(InterruptFrame)
\* Where a field is, from the pointer to the frame on.
Slot == [f \in Fields |-> SelectInSeq(InterruptFrame, LAMBDA g : g = f)]

\* The order of popa64, add rsp, 16 and iretq.
Popped == <<"r15", "r14", "r13", "r12", "r11", "r10", "r9", "r8",
            "rbp", "rdi", "rsi", "rdx", "rcx", "rbx", "rax",
            "int_no", "err", "rip", "cs", "rflags", "rsp", "ss">>

\* What a new task keeps (context.hpp:16-32).
Context(c) == [f \in Fields |->
                 CASE f = "rip" -> <<c, "start">>
                   [] f \in {"rsp", "rflags", "cs", "ss"} -> <<c, f>>
                   [] f = "rbp" -> <<c, "stack">>
                   [] OTHER -> <<c, "zero">>]

\* What the processor pushes, and what iretq pops.
ByProcessor == <<"ss", "rsp", "rflags", "cs", "rip">>
Registers == ToSet(Pushed) \cup ToSet(ByProcessor)

Num(n) == <<"number", n>>
Kernel == "kernel"
Own(c) == [r \in Registers |-> IF r = "rip" THEN <<c, "run">> ELSE <<c, r>>]

Place == regs["rip"][2]
Goto(place) == [regs EXCEPT !["rip"] = <<Kernel, place>>]
InHandler == regs["rip"][1] = Kernel
InterruptsOn == ~InHandler
Tasks == Contexts \ {First}

Push(values) == stack' = stack \o values
Values(from, names) == [k \in DOMAIN names |-> from[names[k]]]

\* The frame a pointer to the top of the stack is read as.
FrameAt(s) == [f \in Fields |-> s[Len(s) + 1 - Slot[f]]]
\* The stack after a frame was stored over the one at its top.
WithFrame(s, frame) ==
  [k \in DOMAIN s |-> IF Len(s) + 1 - k \in DOMAIN InterruptFrame
                      THEN frame[InterruptFrame[Len(s) + 1 - k]] ELSE s[k]]

(***************************************************************************)
(* The table                                                               *)
(***************************************************************************)
PageFault == 14
DoubleFault == 8
GeneralProtection == 13

NoGate == [code |-> "none", ist |-> 0]

\* Mutant: the double fault's entry code pushes a code of its own.
MutEntryCode(vector) == IF vector \in (0 .. 8) \cup (15 .. 31) THEN "intr"
                        ELSE IF vector \in 9 .. 13 THEN "err"
                        ELSE IF vector \in 32 .. 47 THEN "irq" ELSE "none"

\* Mutant: the last loop is too short.
MutShortLoop(vector) == IF vector \in (0 .. 7) \cup (15 .. 17) THEN "intr"
                        ELSE IF vector \in 8 .. 13 THEN "err"
                        ELSE IF vector \in 32 .. 47 THEN "irq" ELSE "none"

\* The loops of interrupt.asm: 0 to 7, then six from 8 on, then 17 from 15 on,
\* so that the entry code of vector 14 is never registered.
EntryCode(vector) == IF vector \in (0 .. 7) \cup (15 .. 31) THEN "intr"
                     ELSE IF vector \in 8 .. 13 THEN "err"
                     ELSE IF vector \in 32 .. 47 THEN "irq" ELSE "none"

\* assign_cpu_exceptions() and assign_irq_handlers(): update() clears ist.
Assign == idt' = [v \in DOMAIN idt |-> [code |-> EntryCode(v), ist |-> 0]]

Ist(vector) == CASE vector = 8 -> 1 [] vector = 2 -> 2 [] vector = 1 -> 3
                 [] vector = 18 -> 4 [] OTHER -> 0

SetIst == idt' = [v \in DOMAIN idt |-> [idt[v] EXCEPT !.ist = IF Ist(v) # 0 THEN Ist(v) ELSE @]]

Vectors == Exceptions \cup Requests \cup {PageFault, DoubleFault, GeneralProtection}

InterruptsInit == /\ idt = [v \in Vectors |-> NoGate]
                  /\ inits = [busy |-> FALSE, done |-> 0]
                  /\ regs = Own(First) /\ current = First
                  /\ saved = [c \in Tasks |-> Context(c)]
                  /\ stack = <<>> /\ irr = {} /\ isr = {}
                  /\ handlers = [k \in 0 .. 23 |-> "none"]
                  /\ entry = [regs |-> regs, raised |-> 0, no |-> 0, err |-> Num(0), ist |-> 0, others |-> FALSE]
                  /\ reports = <<>>

\* Another processor runs interrupt::init() on the shared table.
OtherAssigns == /\ ~inits.busy /\ inits.done < MaxInits
                /\ Assign /\ inits' = [inits EXCEPT !.busy = TRUE]
                /\ UNCHANGED <<regs, current, saved, stack, apic, handlers, entry, reports>>

OtherSetsIst == /\ inits.busy
                /\ SetIst /\ inits' = [busy |-> FALSE, done |-> inits.done + 1]
                /\ UNCHANGED <<regs, current, saved, stack, apic, handlers, entry, reports>>

(***************************************************************************)
(* Delivery, by the processor and its local APIC                           *)
(***************************************************************************)
HasErrorCode(vector) == vector \in {8, 10, 11, 12, 13, 14, 17, 21, 29, 30}

\* A vector without a gate is a general protection fault, its error code the gate
\* and that an interrupt met it, and a double fault when it was a page fault that could not be delivered.
Taken(vector) == IF idt[vector].code # "none" THEN vector
                 ELSE IF vector = PageFault THEN DoubleFault ELSE GeneralProtection

Deliver(vector) ==
  LET taken == Taken(vector)
      code == IF ~HasErrorCode(taken) THEN <<>>
              ELSE <<Num(IF taken # vector /\ taken # DoubleFault THEN vector * 8 + 3 ELSE 0)>>
  IN  /\ Push(Values(regs, ByProcessor) \o code)
      /\ regs' = [r \in Registers |->
                    CASE r = "rip" -> <<Kernel, idt[taken].code>>
                      [] r \in {"rsp", "rflags", "cs", "ss"} -> <<Kernel, r>>
                      [] OTHER -> regs[r]]
      /\ entry' = [regs |-> regs, raised |-> vector, no |-> taken,
                   err |-> IF code = <<>> THEN Num(255) ELSE code[1],
                   ist |-> idt[taken].ist, others |-> inits.busy]

\* Code outside handlers or in one raises an exception.
Raise(vector) == /\ Place \in {"start", "run", "handler"} /\ Len(reports) < MaxExceptions
                 /\ Deliver(vector)
                 /\ UNCHANGED <<idt, inits, current, saved, apic, handlers, reports>>

\* A new task sets its registers.
Begin == /\ Place = "start"
         /\ regs' = Own(current)
         /\ UNCHANGED <<idt, inits, current, saved, stack, apic, handlers, entry, reports>>

Request(vector) == /\ irr' = irr \cup {vector}
                   /\ UNCHANGED <<idt, inits, regs, current, saved, stack, isr, handlers, entry, reports>>

Highest(s) == CHOOSE v \in s : \A w \in s : v >= w

\* A vector is accepted only above the class of those in service.
Accepts(vector) == \A v \in isr : vector \div 16 > v \div 16

TakeRequest == /\ InterruptsOn /\ irr # {} /\ Accepts(Highest(irr))
               /\ Deliver(Highest(irr))
               /\ irr' = irr \ {Highest(irr)} /\ isr' = isr \cup {Highest(irr)}
               /\ UNCHANGED <<idt, inits, current, saved, handlers, reports>>

(***************************************************************************)
(* The entry code                                                          *)
(***************************************************************************)

\* CPU_INTR, CPU_INTR_ERR and CPU_IRQ: the error code of the others is made up.
Stub == /\ Place \in {"intr", "err", "irq"}
        /\ Push((IF Place = "err" THEN <<>> ELSE <<Num(255)>>) \o <<Num(entry.no)>>)
        /\ regs' = Goto(IF Place = "irq" THEN "irq_wrapper" ELSE "interrupt_wrapper")
        /\ UNCHANGED <<idt, inits, current, saved, apic, handlers, entry, reports>>

\* cld, pusha64 and the call.
Wrapper == /\ Place \in {"irq_wrapper", "interrupt_wrapper"}
           /\ Push(Values(regs, Pushed))
           /\ regs' = Goto(IF Place = "irq_wrapper" THEN "irq_handler" ELSE "interrupt_handler")
           /\ UNCHANGED <<idt, inits, current, saved, apic, handlers, entry, reports>>

\* Whatever a function leaves in the registers.
Clobbered(place) == [r \in Registers |-> IF r = "rip" THEN <<Kernel, place>> ELSE <<Kernel, r>>]

irq(s) == s[Len(s) + 1 - Slot["int_no"]][2] - 32
Handler(s) == handlers[irq(s)]

\* Whose code the frames return to, from trace_callstack() on.  The entry
\* code leaves rbp alone, so that its frames are followed by those of the code it
\* interrupted; a task was called by nothing.
Callers ==
  LET handler == SubSeq(stack, 1, Len(stack) - Len(InterruptFrame))
  IN  <<"panic", "interrupt_handler", "interrupt_wrapper">>
      \o (IF entry.regs["rip"][1] # Kernel THEN <<>>
          ELSE (IF Handler(handler) = "none" THEN <<>> ELSE <<"irq_handler">>) \o <<"irq_wrapper">>)
      \o (IF current = First THEN <<"kernel_init">> ELSE <<"nothing">>)

\* interrupt_handler() prints the frame and panics; panic() prints the trace,
\* enables interrupts and halts, and so becomes what the context does from now
\* on.  A loop without an end is undefined: it stays in it, or goes on.
Report == /\ Place = "interrupt_handler"
          /\ \E chain \in Chains(Callers) :
               /\ reports' = Append(reports, [raised |-> entry.raised,
                                              int_no |-> FrameAt(stack)["int_no"],
                                              inHandler |-> entry.regs["rip"][1] = Kernel,
                                              callers |-> Callers, lines |-> Trace(chain),
                                              endless |-> Endless(chain)])
               /\ \/ regs' = Own(current) /\ stack' = <<>>
                  \/ Endless(chain) /\ regs' = Goto("trace") /\ UNCHANGED stack
          /\ UNCHANGED <<idt, inits, current, saved, apic, handlers, entry>>

\* irq_handler() calls the handler, if there is one.
Dispatch == /\ Place = "irq_handler"
            /\ regs' = Clobbered("handler")
            /\ UNCHANGED <<idt, inits, current, saved, stack, apic, handlers, entry, reports>>

\* Mutant: the frame is loaded before it is saved.
MutSwitchTo(c) == /\ stack' = WithFrame(stack, saved[c])
                  /\ saved' = IF current = First THEN saved ELSE [saved EXCEPT ![current] = saved[c]]
                  /\ current' = c

\* timer_irq() saves the frame into the task that runs, unless none does yet,
\* and loads the next one's.
SwitchTo(c) == /\ saved' = IF current = First THEN saved
                           ELSE [saved EXCEPT ![current] = FrameAt(stack)]
               /\ stack' = WithFrame(stack, saved'[c])
               /\ current' = c

\* Mutant: only what has a handler is acknowledged.
MutHandle == /\ Place = "handler"
             /\ IF Handler(stack) = "timer" THEN \E c \in Tasks : SwitchTo(c)
                                     ELSE UNCHANGED <<stack, saved, current>>
             /\ isr' = IF Handler(stack) = "timer" THEN isr \ {Highest(isr)} ELSE isr
             /\ regs' = Clobbered("popa64")
             /\ UNCHANGED <<idt, inits, irr, handlers, entry, reports>>

\* The handler, and sendEOI(): the local APIC takes the highest vector out of
\* service, whichever was handled.
Handle == /\ Place = "handler"
          /\ IF Handler(stack) = "timer" THEN \E c \in Tasks : SwitchTo(c)
                                  ELSE UNCHANGED <<stack, saved, current>>
          /\ isr' = isr \ {Highest(isr)}
          /\ regs' = Clobbered("popa64")
          /\ UNCHANGED <<idt, inits, irr, handlers, entry, reports>>

\* Where each register is popped from.
Popping == [r \in Registers |-> SelectInSeq(Popped, LAMBDA p : p = r)]

Return == /\ Place = "popa64"
          /\ regs' = [r \in Registers |-> stack[Len(stack) + 1 - Popping[r]]]
          /\ stack' = SubSeq(stack, 1, Len(stack) - Len(InterruptFrame))
          /\ UNCHANGED <<idt, inits, current, saved, apic, handlers, entry, reports>>

\* registerIRQHandler(): its assertion keeps a handler from being overwritten.
Free(no) == handlers[no] = "none"
Register(no, handler) == handlers' = [handlers EXCEPT ![no] = handler]

Step == Stub \/ Wrapper \/ Report \/ Dispatch \/ Handle \/ Return \/ Begin

(***************************************************************************)
(* Properties                                                              *)
(***************************************************************************)

\* Three registers are pushed in another order than their fields have.
Held(field) == CASE field = "rdi" -> "rbp" [] field = "rsi" -> "rdi" [] field = "rbp" -> "rsi"
                 [] OTHER -> field

\* irq_handler() and interrupt_handler() find the interrupted registers, but for
\* the order of those three, the vector taken and its error code in the fields
\* of InterruptFrame (cpu.hpp:8-33, interrupt.asm:10-65); the exceptions that
\* have a stack of their own are taken on it, unless another processor is
\* between the two loops of interrupt::init().
FrameAgrees ==
  Place \in {"irq_handler", "interrupt_handler"} =>
    LET frame == FrameAt(stack)
    IN  /\ \A f \in Registers : frame[f] = entry.regs[Held(f)]
        /\ frame["int_no"] = Num(entry.no) /\ frame["err"] = entry.err
        /\ (entry.ist # 0) = (entry.no \in {1, 2, 8, 18}) \/ entry.others

\* Outside handlers the registers, and the stack, are those the context left
\* there, whichever interrupts and exchanges of tasks came in between
\* (interrupt.asm:146-156, timer.cpp:24-34).  A new task has its own stack, but
\* what its constructor put into rbp arrives in rsi.
ContextRestored ==
  InterruptsOn =>
    /\ stack = <<>>
    /\ IF Place = "run" THEN regs = Own(current)
       ELSE regs = [r \in Registers |-> IF r \in ToSet(ByProcessor) THEN Context(current)[r]
                                        ELSE <<current, IF r = "rsi" THEN "stack" ELSE "zero">>]

\* What is printed is the exception that was raised, but for a page fault, which
\* has no gate and is printed as a double fault (interrupt.asm:105), and for
\* interrupts above the 48th gate, which are printed as protection faults.
ReportedAsRaised ==
  \A k \in DOMAIN reports :
    reports[k].int_no = Num(CASE reports[k].raised = PageFault -> DoubleFault
                              [] reports[k].raised \in 48 .. 255 -> GeneralProtection
                              [] OTHER -> reports[k].raised)

\* The trace names the functions that were called, innermost first, up to
\* kernel_init(), also for a call that was the last instruction of its function,
\* as that of a function that does not return may be.  Only entry code, which
\* has no symbols, appears under the name of the function in front of it
\* (symbols.cpp:20-31); and the trace of a task comes to the address 0.
TraceNamesCallers ==
  \A k \in DOMAIN reports :
    LET r == reports[k]
    IN  /\ r.endless = (Last(r.callers) = "nothing")
        /\ \A i \in DOMAIN r.lines : r.callers[i] \in {"interrupt_wrapper", "irq_wrapper", "nothing"}
                                     \/ r.lines[i] = r.callers[i]
        /\ Len(r.lines) = Len(r.callers)
===============================================================================

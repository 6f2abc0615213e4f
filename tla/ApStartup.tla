------------------------------ MODULE ApStartup -------------------------------
(***************************************************************************)
(* The boot processor starts the others (ap.cpp), and each initializes     *)
(* itself (cpu.cpp:37-59): it takes its CpuData from the heap, enters it   *)
(* in allCpuContexts and points its GS base at it, with no lock around     *)
(* either.  What keeps the processors apart is initLock, used as a         *)
(* semaphore: startAllCores() locks once for every entry of the            *)
(* bootloader's list, and each processor it starts unlocks.                *)
(*                                                                         *)
(* The list is 0 .. N - 1 in its order, and the boot processor may be      *)
(* anywhere in it.  An object of the heap is a number.                     *)
(***************************************************************************)
EXTENDS Integers, FiniteSets

CONSTANTS N,           \* processors in the bootloader's list
          CpuIndexes,  \* values of the uint8_t cpuIndex: 256
          Storages     \* how many pointers the heap's largest storage may hold: {64}

ASSUME ApAssumption == N \in Nat \ {0}
ASSUME WidthAssumption == CpuIndexes \in Nat \ {0} /\ Storages \subseteq Nat

CPU == 0 .. (N - 1)
Object == 0 .. (N - 1)
None == -1

VARIABLES boot,        \* the boot processor's place in the list
          i,           \* startAllCores()'s index
          loop,        \* where it is in the loop
          ticket,      \* the ticket it drew
          next_ticket, serving_ticket,  \* initLock
          at,          \* where each processor is in smp_main()
          reg,         \* what a processor has read and is about to use
          head,        \* the first free object of the heap's slab
          data,        \* each processor's cpuData
          cpuIndex,    \* the field of each object
          elements, size, capacity,     \* allCpuContexts
          copy,        \* the storage a processor has moved them to
          gs,          \* each processor's GS base
          largest,     \* what the heap's largest storage holds
          overrun      \* history: a cache behind the heap's last was used

vars == <<boot, i, loop, ticket, next_ticket, serving_ticket, at, reg, head, data,
          cpuIndex, elements, size, capacity, copy, gs, largest, overrun>>

bsp == <<boot, i, loop, ticket, next_ticket>>
heap == <<head, data, largest, overrun>>
contexts == <<elements, size, capacity, copy>>

\* The boot processor has initialized itself, alone (init.cpp:65).
Init == /\ boot \in CPU
        /\ i = 0 /\ loop = "goto" /\ ticket = None
        /\ next_ticket = 0 /\ serving_ticket = 0
        /\ at = [c \in CPU |-> IF c = boot THEN "hlt" ELSE "off"]
        /\ reg = [c \in CPU |-> None]
        /\ head = 1
        /\ data = [c \in CPU |-> IF c = boot THEN 0 ELSE None]
        /\ cpuIndex = [o \in Object |-> IF o = 0 THEN 0 ELSE None]
        /\ elements = [k \in CPU |-> IF k = 0 THEN 0 ELSE None]
        /\ size = 1 /\ capacity = 2
        /\ copy = [c \in CPU |-> elements]
        /\ gs = [c \in CPU |-> IF c = boot THEN 0 ELSE None]
        /\ largest \in Storages
        /\ overrun = FALSE

(***************************************************************************)
(* startAllCores()                                                         *)
(***************************************************************************)

\* Mutant: the last processor is not waited for.
MutGoto == /\ loop = "goto" /\ i < N
           /\ at' = IF i = boot THEN at ELSE [at EXCEPT ![i] = "heap"]
           /\ IF i = N - 1 THEN loop' = "done" ELSE loop' = "lock"
           /\ UNCHANGED <<boot, i, ticket, next_ticket, serving_ticket, reg, heap,
                          cpuIndex, contexts, gs>>

\* A processor runs smp_main() once its goto_address is written; the boot
\* processor's is never looked at.  Its stack comes from the page allocator,
\* which locks.
Goto == /\ loop = "goto" /\ i < N
        /\ at' = IF i = boot THEN at ELSE [at EXCEPT ![i] = "heap"]
        /\ loop' = "lock"
        /\ UNCHANGED <<boot, i, ticket, next_ticket, serving_ticket, reg, heap,
                       cpuIndex, contexts, gs>>

\* initLock.lock() draws a ticket ...
Lock == /\ loop = "lock"
        /\ ticket' = next_ticket
        /\ next_ticket' = next_ticket + 1
        /\ loop' = "wait"
        /\ UNCHANGED <<boot, i, serving_ticket, at, reg, heap, cpuIndex, contexts, gs>>

\* ... and waits until exactly that one is served.
Served == /\ loop = "wait" /\ serving_ticket = ticket
          /\ i' = i + 1
          /\ loop' = IF i + 1 = N THEN "done" ELSE "goto"
          /\ UNCHANGED <<boot, ticket, next_ticket, serving_ticket, at, reg, heap,
                         cpuIndex, contexts, gs>>

(***************************************************************************)
(* initializeThisCpu() and the unlock                                      *)
(***************************************************************************)
Step(c, from, to) == /\ at[c] = from
                     /\ at' = [at EXCEPT ![c] = to]

Read(c, value) == reg' = [reg EXCEPT ![c] = value]

\* heap->allocate(): the slab's first free object is read and then unlinked
\* (slab.hpp:113-116).
Allocate(c) == /\ Step(c, "heap", "unlink")
               /\ Read(c, head)
               /\ UNCHANGED <<bsp, serving_ticket, heap, cpuIndex, contexts, gs>>

Unlink(c) == /\ Step(c, "unlink", "index")
             /\ head' = reg[c] + 1
             /\ data' = [data EXCEPT ![c] = reg[c]]
             /\ UNCHANGED <<bsp, serving_ticket, reg, cpuIndex, contexts, gs, largest, overrun>>

\* Mutant: the index is that of the next element.
MutIndex(c) == /\ Step(c, "index", "push")
               /\ cpuIndex' = [cpuIndex EXCEPT ![data[c]] = (size + 1) % CpuIndexes]
               /\ UNCHANGED <<bsp, serving_ticket, reg, heap, contexts, gs>>

\* allCpuContextsLock is held for size() only (cpu.cpp:41-43), which is cut to
\* the width of the field.
Index(c) == /\ Step(c, "index", "push")
            /\ cpuIndex' = [cpuIndex EXCEPT ![data[c]] = size % CpuIndexes]
            /\ UNCHANGED <<bsp, serving_ticket, reg, heap, contexts, gs>>

\* push(): the size is read; a full vector's elements are copied to a storage
\* of twice the new size, which replaces the old one.
Push(c) == /\ Step(c, "push", IF size = capacity THEN "move" ELSE "store")
           /\ Read(c, size)
           /\ copy' = [copy EXCEPT ![c] = elements]
           /\ UNCHANGED <<bsp, serving_ticket, heap, cpuIndex, elements, size, capacity, gs>>

Grown(c) == 2 * (reg[c] + 1)

Move(c) == /\ Step(c, "move", "store")
           /\ Grown(c) <= largest
           /\ elements' = copy[c]
           /\ capacity' = Grown(c)
           /\ UNCHANGED <<bsp, serving_ticket, reg, heap, cpuIndex, size, copy, gs>>

\* For more than that, kernelHeap::allocate() uses what is behind the last of
\* its caches as one (heap.cpp:67).  Nothing is known of what follows.
Overrun(c) == /\ at[c] = "move"
              /\ Grown(c) > largest
              /\ overrun' = TRUE
              /\ UNCHANGED <<bsp, serving_ticket, at, reg, head, data, cpuIndex, contexts, gs, largest>>

Store(c) == /\ Step(c, "store", "count")
            /\ elements' = [elements EXCEPT ![reg[c]] = data[c]]
            /\ UNCHANGED <<bsp, serving_ticket, reg, heap, cpuIndex, size, capacity, copy, gs>>

Count(c) == /\ Step(c, "count", "gs")
            /\ size' = reg[c] + 1
            /\ UNCHANGED <<bsp, serving_ticket, reg, heap, cpuIndex, elements, capacity, copy, gs>>

\* The descriptor tables, the GS base, the interrupt table and the APIC.
SetGsBase(c) == /\ Step(c, "gs", "unlock")
                /\ gs' = [gs EXCEPT ![c] = data[c]]
                /\ UNCHANGED <<bsp, serving_ticket, reg, heap, cpuIndex, contexts>>

\* initLock.unlock() reads serving_ticket and writes its successor; the
\* processor then halts.
Unlock(c) == /\ Step(c, "unlock", "serve")
             /\ Read(c, serving_ticket)
             /\ UNCHANGED <<bsp, serving_ticket, heap, cpuIndex, contexts, gs>>

\* Mutant: the lock is not released.
MutServe(c) == /\ Step(c, "serve", "hlt")
               /\ UNCHANGED <<bsp, serving_ticket, reg, heap, cpuIndex, contexts, gs>>

Serve(c) == /\ Step(c, "serve", "hlt")
            /\ serving_ticket' = reg[c] + 1
            /\ UNCHANGED <<bsp, reg, heap, cpuIndex, contexts, gs>>

Started(c) == \/ Allocate(c) \/ Unlink(c) \/ Index(c) \/ Push(c) \/ Move(c) \/ Overrun(c)
              \/ Store(c) \/ Count(c) \/ SetGsBase(c) \/ Unlock(c) \/ Serve(c)

StartAllCores == Goto \/ Lock \/ Served

Next == ~overrun /\ (StartAllCores \/ \E c \in CPU : Started(c))

Spec == Init /\ [][Next]_vars

\* Every processor runs.
FairSpec == /\ Spec
            /\ WF_vars(~overrun /\ StartAllCores)
            /\ \A c \in CPU : WF_vars(~overrun /\ Started(c))

(***************************************************************************)
(* Properties                                                              *)
(***************************************************************************)
\* Wherever the boot processor is in the list: when startAllCores() returns,
\* every processor has finished its initialization, so the kernel may use the
\* heap and the contexts without a lock from then on.  Once the vector is too
\* large for the heap, nothing is said.
ReturnsAfterAll == loop = "done" /\ ~overrun => \A c \in CPU : at[c] = "hlt"

\* If the boot processor is listed first, each processor that finished has a
\* context of its own, its GS base points at it, and getCpuData() finds it at
\* its cpuIndex, if it is one of the first 256 of the list (cpu.hpp:75):
\* without that order two processors initialize themselves at a time, on one
\* object or one element.  The vector is too large for the heap (heap.cpp:67)
\* only if there are more processors than it holds, and twice as many and two
\* are more than the heap's largest storage does.
ContextsAgree ==
  boot = 0 =>
    IF overrun THEN capacity < N /\ 2 * (capacity + 1) > largest
    ELSE \A c \in CPU : at[c] = "hlt" =>
           /\ gs[c] = data[c]
           /\ \A d \in CPU \ {c} : data[d] # data[c]
           /\ c < CpuIndexes => /\ cpuIndex[data[c]] \in 0 .. (size - 1)
                               /\ elements[cpuIndex[data[c]]] = data[c]

\* If the boot processor is listed first, startAllCores() returns, unless the
\* vector is too large for the heap.  In other places the ticket it is about to
\* draw may have been served and passed.
StartupReturns == boot = 0 ~> loop = "done" \/ overrun
=============================================================================

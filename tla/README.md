# Firefly kernel: specifications, model checking and proofs

This directory holds TLA+ modules for the parts of the Firefly kernel that
carry its own logic: the physical page allocator, the kernel heap, the page
tables, the scheduler with its interrupts and locks, the startup of the other
processors, the terminal, the logger, and the way of the boot processor from
the firmware's tables to the first key, with interrupts register by register.  Each module is translated from the C++ sources; `PROJECT.json`
names, for every definition, the lines it stands for.  TLC checks small
instances, and TLAPS proves the most important properties for every value of
the constants.

Run the tools in this directory:

    tlc -workers 2 -config Buddy.cfg MCBuddyAllocator
    tlapm BuddyProofs.tla

`PROJECT.json` ("runs") pairs each `.cfg` with its `MC` module.

## 1. The system

Firefly is a 64-bit kernel started by Limine.  `kernel_init` (init/init.cpp)
brings up, in this order, the boot page tables, the page allocator, the
kernel's page tables, the heap, ACPI, the console, the boot processor's
descriptor tables and interrupts, the other processors and the timer;
`kernel_main` (kernel.cpp) then starts the keyboard and three tasks that are
switched by the timer.

| Part | State it keeps | Operations | Interacts with |
|---|---|---|---|
| `BuddyAllocator` (primary/buddy.hpp:40-252) | free list heads, links inside free blocks, ticket lock | `init`, `alloc`, `free`, `coalesce` | the memory of its callers: links share pages with what callers write |
| `BuddyManager` (buddy.hpp:254-449, primary_phys.cpp, page.hpp) | array of instances, page list (refcount, order, index per page), `buddyLock` | `init`, `alloc`, `must_alloc`, `free` | the boot loader's memory map; every client of `mm::Physical` |
| `kernelHeap`, `slabCache` (secondary/heap.cpp, slab.hpp) | trees of slabs by state, intrusive queues of objects, page marks | `init`, `allocate`, `deallocate` | `vm_buddy` for slabs; tasks, vectors and `CpuData` live in it |
| Page tables (paging.cpp, page_flags.hpp, vspace.hpp, virtual.cpp, boot_mem.cpp) | the tables of two address spaces, CR3 | `map`, `mapRange`, `loadAddressSpace`, `bootMapExtraRegion` | page allocators for new tables; every access to memory |
| Scheduler, tasks, timer (tasks/, timer.cpp) | vector of tasks with their saved registers, `currentTask`, `n` | `addTask`, `schedule`, `timer_irq`, `start` | the interrupt frame; the heap through the vector |
| PS/2, serial port, console lock (drivers/, console.cpp) | the controller's buffer, `stdin`, two ticket locks | `init`, `handle_input`, `append_cin`, `send_chars`, `write` | interrupts at any instruction |
| Processor startup (cpu/ap/ap.cpp, cpu.cpp) | `initLock`, `allCpuContexts`, GS bases | `startAllCores`, `smp_main`, `initializeThisCpu` | heap and vector, both without a lock |
| Terminal (term.c, gterm.c) | parser, cursor, margins, grid, queue and map of changed cells | `term_write`, escape sequences, flush | the frame buffer; `console::write` |
| Logger, formatting (logger.hpp, libk++/fmt) | a buffer, a position and a base per stream, shared by all tasks | `<<`, `endl`, `flush` | the serial port and its lock; preemption |
| ACPI, I/O APIC (acpi/, ioapic.cpp, madt.hpp) | the root table, the list of I/O APICs, the redirection entries | `init`, `find`, `enumerate`, `initAll`, `getGSI`, `enableIRQ` | the firmware's tables and what lies behind them; the keyboard |
| HPET, APIC timer (hpet.cpp, apic.cpp, timer.cpp) | the counter, the current count, `ticks_20ms` | `init`, `usleep`, `calibrate`, `oneShotTimer` | two clocks that run on their own |
| Interrupts (interrupt.cpp, interrupt.asm, apic.cpp) | the table of gates all processors share, `irqHandlers`, frames on the stack | `init`, entry and exit, `irq_handler`, `interrupt_handler`, `sendEOI` | whatever is interrupted; the scheduler, which exchanges frames |
| Panic and trace (panic.hpp, strace.cpp, symbols.cpp) | the table of symbols | `panic`, `trace_callstack`, `lookup` | frames and interrupts |
| Console's first picture (console.cpp, image.c, gterm.c) | `bg_canvas`, the frame buffer | `init`, `bmp_open_image`, `generate_canvas`, `plot_char` | the firmware's picture; the terminal draws over it |
| GDT/TSS, sanitizers, libk++ | written once at boot, or nothing | | see section 7 |

What is hard here:

* *Concurrency*: processors compete for an allocator's ticket lock; the timer
  preempts tasks while they hold `serial_lock`; the keyboard handler takes a
  lock that the interrupted code may hold; starting processors use the heap and
  a vector that have no lock; tasks share the stream they print to; the table
  of gates is rewritten by each starting processor while others use it.
* *Orders that must agree*: fifteen registers are pushed, named as fields and
  popped in three places, and handlers exchange whole frames in between.
* *What the firmware says*: tables that are absent, wrong or end elsewhere decide
  which pin the keyboard is on, and whether a loop over them ends.
* *Shared memory as data structure*: the links of free blocks and free objects
  lie in memory that callers write to, so a wrong block is a corrupt list later.
* *Ordering*: calls at boot are only right in one order (cutting the boot
  memory off the map, mapping before loading CR3, the timer counting since its
  calibration, the keyboard's interrupt enabled after its buffer was drained).
* *Exhaustion and boundaries*: rounding of sizes, memory maps and slabs; what
  happens when memory is used up in the middle of a page walk.
* *Long legal call sequences* that reach a bad state: free and merge, a slab
  that was once full.

`PROJECT.json` lists these as "hazards" with their lines and the properties
that would catch them; a hazard without a property says why.

## 2. Modules

| Module | Models | Composition |
|---|---|---|
| `PageSource` | the promise of `alloc()` to its callers: aligned blocks that nobody has, or null when no such block is left | abstract |
| `BuddyAllocator` | one instance as `pageAllocator` and `vm_buddy` are used: alloc only, step by step, several processors | implements `PageSource` |
| `BuddyFree` | the same instance with `free()` and the recursive `coalesce()` | EXTENDS `BuddyAllocator`; its alloc steps are reused unchanged |
| `BuddyManager` | the carving of the memory map and the calls of the page allocator | instances take calls as whole steps; their steps are the two modules above |
| `KernelHeap` | caches, slabs and their queues laid out in memory | |
| `PageTables` | the two walks, entry by entry, over any sequence of calls of `map()` | |
| `KernelSpace` | the calls booting makes, in their order | EXTENDS `PageTables`, whose `Programs` it supplies |
| `Scheduler` | kernel_main's last steps, tasks, timer and keyboard interrupts, console and serial locks | one module, because what is checked are their interleavings |
| `TextScreen` | the promise of the terminal: a text is edited cell by cell, and a refresh makes the screen show it | abstract |
| `Terminal` | `term_write`: the parser of control sequences, what their handlers do to the grid, and the queue of changes with its flush | implements `TextScreen` |
| `ApStartup` | `startAllCores`, and each started processor up to `hlt`, with the heap's and the vector's steps | |
| `Logger` | the stream that tasks share, access by access | |
| `Acpi` | the choice of the root table, `find()`, and the walk over the MADT | |
| `IoApic` | `initAll()`, `getGSI()`, `enableIRQ()` | EXTENDS `Acpi` |
| `Clock` | the HPET, `usleep()` and the calibration of the APIC timer | |
| `Keyboard` | the keyboard, the controller's buffer and `shift_pressed` | |
| `Canvas` | the picture behind the text, down to its pixels | |
| `StackTrace` | the lines a panic prints of its callers | |
| `Interrupts` | delivery, entry code, frames, dispatch, exchange of tasks, acknowledgement, and the report of exceptions | EXTENDS `StackTrace` |
| `Boot` | the boot processor from `Acpi::init()` to the tasks, in the order of init.cpp and kernel.cpp | EXTENDS `IoApic`, `Canvas`, `Clock`, `Keyboard`, `Interrupts` |
| `BuddyManagerProofs`, `KernelHeapProofs`, `ApStartupProofs`, `KernelSpaceProofs`, `TerminalProofs` | theorems | EXTEND the module they are named for and TLAPS |
| `TaskProofs` | theorems about the tasks and the lines they print | EXTENDS `Scheduler` and `Logger` |
| `BuddyProofs` | theorems about one instance: `BuddyAllocator`, then with `free()` | EXTENDS `BuddyFree` |
| `BootProofs` | theorems about the parts of `Boot`: `Clock`, `Keyboard`, `Canvas` on their own, `Interrupts` as part of it; and about the composition | EXTENDS `Boot` |

`MC*` modules give the constants their values.  Operators named `Mut...` are
mutants: a plausible bug in one definition.  Each stands before the definition
it would replace, with the property it must break listed in `PROJECT.json`.

### How states and actions correspond to the code

**BuddyAllocator.** Memory is counted in pages and an order from `min_order`.
`word` is the first word of each page, which is the link of a free block and
the data of an owned one.  `pc` is where a processor is in `alloc()`: `Call`
draws a ticket (buddy.hpp:78-79), `Acquire` is served and looks at the first
list, `SearchOn` and `Found` are the loop over the lists (95-117), `Split` adds
one half and keeps the other (118), `Finish` zeroes and returns (119-137),
`Fail` is the null pointer.  `Write` is an owner storing into its block,
between any two steps.  The page tables written by the boot loader's walk are
the owners in the case of `pageAllocator`.

**BuddyFree.** `frames` is the stack of `coalesce()`; `FindNext` is one step of
`Freelist::find`; `Merge` removes with the list index the code uses, which is
the order instead of the order minus `min_order` (239), and leaves any lists where
that index lies behind the array (`LastList`: merges of 32 MiB and more); `FreeWhole` is the
return of lines 146-149 that leaves the lock locked, modelled as a ticket of
nobody.  Owners may store and free while others allocate.

**BuddyManager.** `Init` is `init()`: `Sorted` is the sort of the map, comparison
by comparison (`Sorting`), `Host` and `Reserved` the place of the array of
instances, `Carve` the split of each entry into powers of two, round by round of
its two loops (`Carving`).  `MemoryMap` is what the boot loader promises and what
`init()` asserts; where the array of instances outgrows its pages (`ArrayFits`)
nothing is said beyond `init()` itself.  `Pagelist::init()` is part of `Init`: it
sets up as many entries as the map has pages, and one more per entry of the map
(`Counted`), from the first on, while entries are looked up by address; what the
others hold is whatever the memory held (`Found`), and `unset` remembers the pages
whose reference count nobody ever set.  The loop that sorts the instances has no effect
because their copy and move operations do nothing; the model leaves it out.
A call is `CallAlloc`/`CallFree` (a
ticket for `buddyLock`) and `Serve` (the whole call).  `Mark` and `Reset` are
the page list's updates, `FreeAsserts` the failing assertion.

**KernelHeap.** A unit is 8 bytes.  A slab lies at its page, its header in the
first units, its objects behind; `link` is the first word of each unit.
The page marks start as what the memory of the page list held (`Stale`), because
`RawPage::operator=` leaves `slab_size` out.
`NewSlab`/`NewLinks`/`NewMarks` are the constructor of a slab, including the loop
that runs past the end of the slab and the marks set only for pages on which an
object begins; `Overrun` are the slabs behind whose header its links overwrite.  `AllocFree`, `AllocPartial`, `AllocLast` are the paths of
`allocate()`, the last with its retry; `FreeObject`, `FreeIgnored`,
`FreeAsserts` those of `deallocate()`; `Store` is an owner writing to its
object.  When the code follows a link that was overwritten the model stops with
`status = "undefined"`.

**PageTables.** A page is four indices.  `Map` is the call, `Descend` and
`Create` are `Pml::next()` and the corresponding lines of the boot walk,
`SetEntry` writes the lowest entry, `MakeRoot` and `Load` are the first and the
last step of `kernelPageSpace::init()`, `OutOfMemory` the panic of the boot walk
and the null pointer of the other.  `mapped` and `place` are history variables:
what was mapped, and which part of which address space each table was made for.
`Translation` is the processor's own walk.

**Scheduler.** `regs` says whose code runs and where in it.  kernel_main's steps
are `Log`, `Logged`, `Unmask`, `ReadStatus`, `ReadData`, `InitScheduler`,
`AddTask`, `Start`; a task's are `Ticket`, `Served`, `Send` and `hlt`.  A push
into a full vector asks the heap for storage, which has it (`AddTask`), makes a
slab and logs that (`MakeSlab`, `SlabMade`), or, for more than the largest of its
caches gives (`Largest`: 512 bytes, two tasks), uses memory behind its caches:
that may do as storage all the same, or nothing is known any more (`AddBeyond`).
`TimerIrq` saves the frame into the current task, schedules and loads the next;
`TimerIrqLost` is the tick that finds no scheduler or no task (the timer counts
since its calibration).  `KeyPressed`, `EdgeArrives`, `KeyboardIrq` and
`HandleInput` take a scancode through the controller, the I/O APIC and the
handler, which may have to wait for the console: for ever (`Stuck`), if the line
that holds it is the interrupted code's, or kernel_main's when the first tick
came.  `lost` means that nothing is known of the system any more.

**ApStartup.** `Goto`, `Lock`, `Served` are the loop of `startAllCores()`, in
which `initLock` is a ticket lock used as a semaphore; `Allocate` and `Unlink`
are the two halves of the heap's dequeue, `Index`, `Push`, `Move`, `Store`,
`Count` the vector's push, `SetGsBase` the rest of `initializeThisCpu`, `Unlock`
and `Serve` the two halves of `unlock()`.  `Index` cuts the size to the width of
`cpuIndex` (`CpuIndexes`, 256 in the code).  A vector that needs more than the
heap's largest storage (`largest`: 512 bytes, 64 pointers) makes the heap use
memory behind its caches (`Overrun`, heap.cpp:67); nothing is said of what
follows.  As the vector grows to 2, 6, 14, 30, 62, 126 elements, that happens
with the 63rd processor, before the index wraps.

**Terminal.** `grid`, `queue` and `map` are gterm's arrays, with a cell named by
its index and an item of the queue by its number (0 is the null pointer);
`cursor`, `old`, `visible`, `scrolling` and `attr` are the context of gterm,
`parser`, `mode`, `margins`, `kept` (ESC [s) and `saved` (ESC 7) that of term.
A character is received by one of the actions of `Receive`, one per case of
`term_putchar`, `term_escape_parse` and `term_control_sequence_parse`; it changes
the parser and the context at once and leaves in `todo` what its handler does to
the grid: characters to put, cursor positions, cells to copy and to clear.
`Perform` does these one by one (`PutChar` is `gterm_putchar`, which may put a
scroll in front of what is left), so that every intermediate cursor position and
every order of handlers is that of the code.  `Flush` ends a write and may come
after any character, also inside a sequence.  `shown` stands for the pixels:
`Plotted` says what `plot_char_fast` makes of a cell, which is right only if the
screen showed what the grid had.  `plain` (the colours as they would be had
reversing never been asked for), `strayed` (which of the two a reset left
exchanged and nothing set since) and `narrowed` are history variables.

The flags of the parser exclude each other and are one `phase`.  Where the code
computes with a negative `size_t`, `Minus` wraps.  When the cursor has left the
grid, the rest of that write is not followed, and a flush that draws the cursor
there ends the behaviour with `defined = FALSE`.  Left out are NUL, DEL and BEL,
which do nothing, and the callback, which the kernel does not set.

**Logger.** A writer's steps are the accesses to the shared stream: `Begin` (an
operator<<, which converts a number first), `Load`, `Bump`, `Store` (the three
accesses of `appendToBuffer()`), `Lock`, `Measure`, `SendChars`, `Empty`, `Reset`
(`endl`).  `inside`, `said` and `overlapped` are history: who is inside a line,
what the operations ask to be sent (for a number its `Numeral`, defined by the
weights of its digits and not by `itoa()`'s loop), and whether two ever were
inside a line at once.

**Boot.** `stage` is what the boot processor does next; each value is one call of
init.cpp or kernel.cpp, and `halted` says how it ended early: by a panic, by a
loop, by a page fault, or by something undefined.  A *machine* is what the
firmware provides: the RSDP, the tables with their checksums, the MADT's records
with the memory behind the table (`Memory`), and the picture; to it belongs what
the heap's memory holds behind a short vector of overrides (`stray`).  `UpdateIRQ`
writes the register at the offset of eight bits (`Offset`).  A *frame* is what
the boot loader reports.  `AssignGates` and `SetStacks` are the two halves of
`interrupt::init()`, which the other processors run on the same table
(`OthersStart`) while `startAllCores()` waits.  `KeyPress` is the keyboard, its
controller and the I/O APIC; `TimerFires` the timer once tasks run;
`Exception` anything that faults.

**Interrupts.** A register's value names who left it there, so that a register
that comes back to another context, or another register, is seen.  `Deliver`
pushes what the processor does, by the gate it finds (`Taken`: none is a
protection fault, and a double fault if it was a page fault); `Stub`, `Wrapper`,
`Dispatch`, `Handle`, `Return` are the pieces of interrupt.asm and the C++
handler between them, each list of registers in the order of its source.
`Report` is `interrupt_handler()` and `panic()`: a panic enables interrupts and
halts, and so becomes what the context does from then on, unless the trace never
ends.  The chain of return addresses a panic follows is chosen from what calls
leave (`ReturnTo`): the last instruction of a function may be a call.

**Clock.** `Tick` is the passage of time in ticks of the APIC timer; the HPET
ticks once in `Ratio` of them.  `delay` lets any time pass between two steps of
the code, up to `MaxDelay`.

**Keyboard.** `held` and `caps` are the keys as their user means them, `astray`
is the parity of the scancodes that were repeated by a held key, sent by one of the
keys between the blocks (`FakeShift`), or lost before the handler was there.

**Canvas.** The colour of a pixel is its place in the picture, so that the
frame buffer shows whether every pixel is where it belongs.  `Opened` is
`bmp_open_image()`, `Centered` the case CENTERED of `genloop()`, `Regions` and
`Drawn` `generate_canvas()`, `Plotted` the cells.

## 3. What is checked

| Run | Question and result | Bounds, and why they are enough |
|---|---|---|
| `Buddy` | Two processors allocate from one instance while owners store: no overlap, no page lost, and it implements `PageSource`; each call returns | 8 pages, orders 0-3, requests of one and of three (rounded to four) pages: every list is split into, found empty and exhausted. Two processors suffice for the lock; more only lengthen the queue |
| `BuddyFree` | With `free()`: what still holds until the first merge and until `remove()` drops a list; calls return | 4 pages, unlimited calls: both merges and the release of the whole region occur |
| `BuddyManager` | Distinct instances of usable memory, page list agrees with owners, the assertion fails before a merge only for a block with a page whose entry nobody set up | four maps: without a hole and with reserved memory behind the array's host; two with holes below the instances that serve, one of which is handed out and freed as a whole; one whose array outgrows its pages; memory of the page list that was zero or looks used; calls bounded by `MaxCalls`, `MaxFrees` |
| `KernelHeap` | Sharing and overwritten links come only from objects that reach past their slab; until then every object is accounted for | two caches, one of small and one of large slabs, six pages: slabs become partial, full and the heap is used up; the page list's memory zero or not |
| `Scheduler` | Registers stay with their task, no handler waits for the code it interrupted but in the line of one slab, the keyboard does not fall silent, only the named causes end the system, tasks take turns and print unless the keyboard's handler is stuck | the kernel's three tasks, for the third of which the vector moves beyond what the heap has; two keys, `stdin` of one character: one more key than is needed to fill it |
| `ApStartup` | `startAllCores()` returns only after all processors finished; contexts agree | four processors, boot processor at every place; the vector moves once, to a storage the heap has or to one it has not; the index tells three processors apart, so that the fourth's wraps |
| `Terminal` | After every flush the screen shows the text; the queue and the parser's values stay in their arrays; the cursor leaves the grid only after a line was left below the bottom margin; reversed colours are the plain ones exchanged, except for those that ESC c left exchanged until they are set again | a grid of 3 x 3 with tabs of 2, two values per sequence, up to five phrases (a character or a sequence) of one of 15 sets: each set holds what interacts (margins with scrolling, reversing with saving, insertion with movement), five phrases fill a line, leave it, return and write over it, and every case of the parser is taken; a row of the grid can be the first, the last or inside the margins |
| `KernelSpace` | After every step of booting each page is found where it was put, nothing else is mapped, tables and page list stay in reach | tables of 4 entries instead of 512 (a "GiB" has 16 pages), with and without 1 GiB pages, three amounts of memory of which two run out |
| `Logger` | Lines of tasks that do not overlap arrive whole and leave the stream clean; the assertion fails only after an overlap; every task gets through | two tasks with three lines, texts and numbers in two bases, one number longer than `itoa()` converts; a buffer of 5: the shortest in which lines fit and overlapping ones do not |
| `Boot` | Frames agree with the registers and come back; exceptions are reported as raised, with their callers; the timer is not too short; the keyboard's pin is the firmware's, its keys are heard, and shift is what it seems; the picture is in the middle | 29 machines: one that conforms, and the others different in one respect each (no overrides, no I/O APIC, seven overrides, the keyboard on another pin, beyond the 16 that have gates, or on a GSI whose register wraps or that is cut to a byte, memory behind a short vector that is taken for an override or faults, bad checksums, missing tables, records behind the table, six pictures); two frames, one smaller than a picture; kernel_main and two tasks; one other processor; one exception of each kind (with an error code, without a gate, with a stack of its own), at any instruction outside handlers or in one. The code is held up on one machine only, and shift and caps lock are used on one |

Two runs are expected to be violated; each is a disagreement between the code
and what its comments or assertions say ("findings" in `PROJECT.json`):

* `BuddyOddSize`: `size >> 3` drops the remainder before rounding up, so 4097
  bytes get a block of 4096 (buddy.hpp:80 against 122).
* `HeapFree`: giving an object back to a slab that has become full trips the
  assertion "Tried to free non-allocated address" (slab.hpp:143).

Two more disagreements are part of passing runs, as the exceptions their
properties name.  A merged buddy stays on its free list, because the merge
removes from list `order` where all others use `order - min_order`
(buddy.hpp:239 against 223-224): `SharedOnlyAfterMerge`.  The page-size bit of a
large page is left out when its *index* is 1, where its *depth* is meant
(paging.cpp:64 against 62): `MapsTakeEffect`.  With 1 GiB pages this concerns
the second GiB of the direct map, without them the second 2 MiB of each GiB.

Every property of a passing run has a mutant that breaks it: a bug of the kind
one could write into the definition it replaces.

### Fairness

* `Buddy`, `BuddyFree`: weak fairness of each processor's steps inside a call.
  The lock is a FIFO ticket lock and processors run independently; nothing is
  assumed about how often they call.
* `Scheduler`: weak fairness for kernel_main, the devices (timer, I/O APIC) and
  the handlers, which run with interrupts off.  A task only runs in its time
  slices, which is what strong fairness of its steps says: it is not enabled all
  the time, but again and again, and a slice (20 ms) is long enough for a step.
  Keys need not be pressed.
* `ApStartup`: weak fairness of each processor that has been started.
* `Logger`: weak fairness of each task's steps: the timer gives each its turns.
* `Boot`: weak fairness of booting, of the other processors' start, of the
  delivery of interrupts and of the handlers' code.  Neither keys, ticks nor
  exceptions need to come; `KeyHeard` is about keys that did, on machines that
  conform.
* The other runs check safety only.

`CHECK_DEADLOCK FALSE` is set where the system really stops: calls are used up
(bounds; in `Terminal` the phrases, in `Logger` the lines), the lock is lost (`BuddyFree`), the kernel panicked, booting is over
or all processors are halted.

## 4. What is proved

All proofs are checked by TLAPS (SMT, Zenon, LS4) with no step left open.

**BuddyProofs**, alloc (any region of any order, any number of processors, any
request sizes, anything owners store).  `IInv` is inductive:

* `HolderFirst`: who is inside is at the head of the queue, which gives
  `MutualExclusion`;
* `AllInPlace`: blocks are aligned and inside the region, without which halves
  of different blocks could not be told apart;
* `NoSharedMemory`, `OnePerList`, `NothingLost`: they need each other: that
  `remove()` empties the whole list is harmless only because a list never has a
  second block, and that is so because a split happens only when all lists below
  are empty (`PassedEmpty`);
* `FreeIsListed`: every aligned unused block lies in a listed one, so that an
  empty search means that nothing is left.

From it follow `TypeCorrect`, `BlocksDisjoint`, `PagesKept`, `ListsAreShort`,
`Exclusion`, `Zeroed` and `Refinement` (`Spec => PageSource`: `Return` grants a
new block, `Fail` refuses because of `FreeIsListed`, every other step
stutters).  Assumptions: `SizeAssumption` (the powers of two, with their
divisibility), `RequestAssumption`, `BootAssumption`, `NullAssumption`.

**BuddyProofs**, free (the same, with any calls of `free()`, until two buddies are
merged for the first time).  A block has a *holder*: an owner, the free lists, or
the processor that works on it.  `FreeIInv` says that holders have no memory in
common (`HeldApart`) and that together they have all of it (`HeldCovers`), unless
`remove()` emptied a list of several blocks (`dropped`).  Each step hands a block,
or its halves, from one holder to another; it can, because only the head of the
queue is past the lock (`HeadWorks`) and `coalesce()` has one frame until it calls
itself (`OneFrame`).  The links of free blocks need no part of their own: what a
list has is what can be reached from its head, nothing else points into it as
long as blocks are apart, and so removing its head drops just that one or, with
it, all behind (`ReachedFollows`, `ReachedLeast`).  Theorems: `FreeInvariance`,
`BlocksDisjointUnmerged`, `PagesKeptUndropped`.

**BuddyManagerProofs** (any memory map that is a `MemoryMap`, any number of
processors and any calls).  What `init()` computes is a recursion over the map,
which the library's induction theorems do not reach; the module gets its own
induction, over sets of numbers instead of predicates (`SetInduction`), from the
fact that numbers are well founded.  `MemoryStaysOwned` then follows the code:
the sort permutes the map (`Sorting`); the pieces of an entry are the bits of its
length, small ones first, and the piece of a bit begins where the remainder of
the length by that bit ends, so that pieces follow one another and cover their
entry; the host's base is rounded up by what its length is rounded down, which
leaves one page too many, and that page is nobody's since usable entries do not
touch.

`Instances` keeps the instances as `init()` made them, and `UnmergedInv` is
inductive until two blocks are merged; its parts need each other:

* `Accounted`: every block has one holder, a caller, a waiting call of `free()`
  or a free list, and holders have no memory in common;
* `Marked`: the blocks of callers and waiting calls are marked in the page list,
  with a reference count of one unless nobody ever set it, and no other page is
  whose entry was ever set;
* `Waiting`: who calls has a ticket, and a `free()` that comes too late finds
  the lock free, so that it is served before anything marks its page again.

Before the first merge a list may hold several blocks, of which `alloc()` takes
one and drops the others; as no holder gains by that, nothing is claimed of
pages that get lost.  Theorems: `MemoryStaysOwned`, `UnmergedInvariance`,
`PageListStaysRight`, `AssertionStaysTrue`.  Assumptions: `MapAssumption` (see
section 5; it does not say that the array fits), `PowerAssumption` (powers of two double), `SizesAssumption` (no
request of more than 2^30 words).

**KernelHeapProofs** (any number of caches, any sizes of units, pages, slabs and
headers, any order of calls and of what owners store).  `HeapInv` is inductive;
the objects of a slab are its *grid*, which reaches past the end of the slab:

* `QueuesWhole`: a slab's queue runs through the objects of its grid that nobody
  has, and every link of one inside the slab leads to another, to none from two.
  So the last in the queue is one beyond the slab, since it is the only kind
  that may have no link (`LastIsPast`), and until such an object is handed out
  a slab is never full and no queue is empty;
* `SlabsCounted`: the count of the queue is what is left of the grid;
* `TakenApart`: an object has one owner, and lies in its slab;
* `SlabsApart`, `OnGrids`, `MarksBehind`: slabs share no page, only places of
  objects circulate as heads and links, and `deallocate()` finds a size that a slab
  has written only on pages behind small slabs, the one where an object of the slab
  in front begins.  A size that nobody wrote leads to another slab only from behind
  the first page of a large one (`Misled`);
* `Booting`: a new slab made by `init()` lies above all others, which is why the
  links it writes beyond its end overwrite none of them.  Those made by
  `allocate()` may (`Overrun`), but then it hands out an object beyond its slab
  in the same call.

A store by an owner, or a new slab, reaches another slab's memory only from
beyond its own, so that all this holds until `past`.  Theorems: `HeapInvariance`,
`HarmIsPastEnd`, `ObjectsKept`.  Assumption: `GeometryAssumption` (sizes divide a
page, a header fits into one and is smaller than a large object).

**TaskProofs**, first of `Scheduler` (any number of tasks and keys, and any
largest storage of the heap).  The invariant says which parts of booting are done at each place of kernel_main
(`BootInv`), that saved contexts are their task's and `currentTask` points into
the current storage (`SchedInv`), and where a scancode is on its way (`KeyInv`).
`BootInv` also says which of kernel_main's lines can hold the console: `enableIRQ()`'s
only before the keyboard is unmasked, so that what is left for a handler to wait
for is a slab's.  Theorems: `RegistersStayOwn`, `HandlerNeverWaits`,
`KeyboardLives`, `OnlyNamedCauses`.

Then of `Logger` (any number of tasks that print any texts and numbers in any
bases, buffers and numerals of any size).  What its properties say alone is not
inductive; `LogInv` is:

* `StreamInv`: types, and where each writer is: in which operation, with how much
  of its text left (`Position`).
* `LineInv`: up to the first overlap at most one writer is inside a line, and what
  was said is what was sent, followed by the buffer up to the position, followed
  by what that writer has left to append (`Told`); behind the position there are
  terminators, so that `strlen()` finds the position (`StrlenIs`).  While a
  position is counted up and not yet stored, and while the buffer is emptied, the
  same holds of the value in `reg` (`Alone`).
* `FitInv`: the position and the text that is left stay within the `Column` of the
  operation: a writer that is alone with a line that fits reaches no assertion.
* `CountInv`: positions, and those that were read, never exceed what all writers
  together have counted (`AllSpent`).  That is what remains true when they overlap:
  a position may be restored after somebody's flush, but each increment is paid by
  a character of a text (`AllSpentGrows`).

That the characters of a number are its numeral is `ItoaIsNumeral`: after k rounds
of `itoa()`'s loop the number is divided by the k-th weight (`LoopDigits`), and
`reverse()` exchanges the ends up to the middle (`ReverseReverses`).  These
loops, and the sums of widths, are recursive functions, and what they compute is
proved by induction in the form of sets: a set of numbers that has 0 and with each
number the next has all of them, because otherwise there were a least one that is
missing (`SetInduction`, from the library's `WFMin`); `Recursion` gives the
functions.  Theorems: `LogInvariant`, `LinesAreWhole`, `AssertionFails`,
`ItoaIsNumeral`.  Assumption: `LoggerAssumption` (texts are strings without a
terminator inside, bases lie between 2 and 16, numbers are not negative, as
`itoa()` takes a `size_t`; the sizes are not 0).

**ApStartupProofs** (any number of processors, of values of an index, any size of
the heap's largest storage).  `SInv` counts locks against
unlocks to show that the last `lock()` waits for the last processor
(`StartupComplete`, wherever the boot processor is listed); if it is listed
first, `FirstInv` shows that one processor initializes itself at a time, hence
`ContextsCorrect`.  Both speak of what happens until the vector outgrows the heap;
`ContextsCorrect` also says when it may.

**KernelSpaceProofs**, first of `PageTables` (any number of entries per table, any sequence of calls that
map different pages, any order in which the allocators answer, any tables of
the boot loader that are trees).  `IInv` is inductive: `TreeInv` says that each
entry leads to a table made for its part of the address space or belongs to a
completed map, that each map has its entry, that each table has its parent and
serves some map; `WalkInv` places the walk in progress; `CallInv` keeps the
calls to come apart from what is mapped.  That no call overlaps another is what
makes following a present entry right (`OnTheWay`), and that tables serve some
map is what excludes that a large page replaces a table (`EntryAbsent`).
Theorems: `TreesInvariant`, `MapsStay`, `NothingElseMapped`.

Then of `KernelSpace` (any size of tables and memory, any layout that meets
`LayoutAssumption`).  `ProgramsProper`: the calls of booting meet
`ProgramAssumption`.  It needs that a page's indices are as good as its number
(`SameAbove`, `SameBelow`, from division alone), that a call maps the numbers
from its beginning on (`Cells`, `CellsOf`), that a range is a row of such calls
(`RangeRow`, `RowFits`), and that calls with disjoint numbers can be joined
(`FitsJoin`).  `Staged` keeps the order of booting: boot maps, root, kernel
maps, load, heap.  `ReachStays` (`MemoryInReach`): `HistoryInv` says that every
call before `step` has its map, that the kernel's tables are in use only after
the load, and that every table and free frame is in memory the boot loader maps
to itself; with the order of booting, what a program maps (`BootingShows`) is
then mapped when it is used.  `KernelSpace`'s run evaluates the assumptions for
its instance.

**TerminalProofs** (any grid, any number of values of a sequence, whatever is
received).  Each action has a lemma of its own that says that it keeps `IInv` and
what step of `TextScreen` it is (`Edit` for all but `Flush`, which is `Refresh`).
`IInv` consists of the types of the variables and

* `Queued`: an item of the queue and the cell it names name each other, so that
  no cell has two and the queue never needs more items than there are cells
  (`QueueFits`, by an injection into the cells);
* `Displayed`: the screen shows the grid except where the cursor was drawn last.
  That is what makes plotting only the differences right (`FlushShows`), and the
  reason why that cell is always plotted whole;
* `Agrees`, of the current and of the saved colours: each of the two is the plain
  one, unless it is in `strayed`.  What a value of `term_sgr` makes of one of them
  depends neither on the other nor on reversing (`SgrParts`), so that each value
  keeps the agreement, and one that sets a colour puts it right (`AgreementKept`);
* `ParserHolds`: an open number still has its place in the array.

A second invariant, `GridInv`, holds until a line is left below the bottom margin
(`narrowed`).  Sequences write with scrolling disabled, so that a character in the
last cell moves the cursor off the grid.  `GridInv` says what is then left to do:
a position behind every character that is put (`ReturnsLater`), or at most as many
characters as the line has room for (`StaysInLine`, and `StartsLine` before its
position is set).  Each sequence leaves one of these (`GridFinished`) and each
piece keeps one; at the end nothing is left, so that the cursor is on the grid.

Theorems: `TypeCorrect`, `ArraysNeverOverrun`, `ColoursAgree`, `CursorStaysOnGrid`,
`Refinement`.
Assumption: `TerminalAssumption` (sizes are positive, and a `size_t` is wider
than twice what is counted, so that the wrapping of `Minus` cannot reach a valid
index).

**BootProofs**, the clock (any two clocks, any widths of their counters, any delays).
`ClockInv` counts: while `usleep()` waits, the timer's ticks since `calibrate()`
are at least those of the HPET since it was looked at (`Seen`), also if the
HPET's counter wraps, which only makes it smaller; after the wait they are
enough and only grow; and a count that has reached 0 makes the product longer
than 32 bits, which `TicksEnough` excludes.  Assumption: `ClockAssumption`.

**BootProofs**, the keyboard (keys, interrupts and the clearing of the buffer in any
order).  While a scancode waits, `shift_pressed` is behind by it; `KeyboardInv`
says so, and `ShiftFollows` follows for the empty buffer.  It has no assumption.

**BootProofs**, the canvas (pictures and frames of any size, both depths).
`BmpLines`: the bytes of a line that `bmp_open_image()` computes are those of the
file, and the pixels fit into them; `Divides`: so an offset falls apart into its
line and its pixel again; `ReadsPixel` and `PictureCentered` follow.  The loops
plot a pixel in several of their overlapping regions: `LastRegion` says that the
last one that reaches it is given by its distance from the edge, `DrawnRight`
what is left there, `CanvasShows` that it is what belongs there.  `PictureInv`
follows this through booting, and `PictureIsShown` is the result.  Assumptions:
`CanvasAssumption`, and `SplashAssumption`: a BGRT that says it holds a BMP does.

**BootProofs**, routing (any tables, whatever lies behind them).  A walk over the
MADT that comes to an end has met all of the table's records, in their order
(`EnumerateInOrder`), and perhaps some that lie behind it.  `Counted`: the place of the
firmware's override in that order is the number of overrides in the table up to
it.  So the search finds it if that is six or less, and otherwise, or if the table
has six others, answers pin 1; if it has fewer, what the search meets is unknown.
`RightOrMisread` says so of `getGSI()`, and that the byte is the GSI if that is
below 120; `OffsetsWrap` which entry a byte writes, its own or that of the pin 128
below; so that `Routes` has at most one written, whatever was found.  `RouteInv` says of
each stage of booting which entries are written; `RoutedRight` follows.  Assumptions:
`AcpiAssumption`, the shape of the tables, and `BootAssumption`.

**BootProofs**, traces (any table of symbols, any return addresses).  `LookupRight`:
the first of the symbols with the largest address below a return address is its
function; `ChainsFollow`, by induction over the calls, and `CallersLed`: every
chain that can be found on the stack names the handler and who led to it;
`TraceOfChain`: hence its ten lines do, and end unless a task was interrupted.
`TraceInv` and `TraceRight` follow.  Assumption: `LinkAssumption`, what linkers do.

**BootProofs**, interrupts (any tables, tasks, exceptions and vectors, any number of other
processors that start, exceptions at any place outside the entry code).
`BootInv` is the inductive invariant of `Boot`; its parts:

* `StackInv` follows the stack from delivery to dispatch: the processor's five
  values, then the error code, pushed or made up, then the vector, then the
  other registers, each step adding a layer over what was interrupted, which is
  kept in the registers until it is pushed (`Kept`).  What `popa64`, `add` and
  `iretq` would load (`Loaded`) is therefore what was interrupted: each register
  is popped from the place it was pushed to (`PopFacts`), while three fields of
  `InterruptFrame` are read from another's place (`HeldFacts`).
* `IrqInv`: an interrupt is only taken outside handlers, so that below its frame
  there is nothing, and what would be loaded is what a context left: its own
  registers, or those of a task that has not run (`Left`).  `SavedInv` says the
  same of what each task keeps.  `timer_irq()` exchanges the one for the other
  (`SwitchKeeps`), and returning leaves the context as it was.
* `GateInv`: before the table has its gates nothing is requested, raised or
  handled; from then on each vector has the gate of `EntryCode`, also while
  another processor is between the two loops of `interrupt::init()`, and only
  its stack may be missing then (`IstInv`).  What is taken instead of a vector
  without a gate has one, and its entry code expects an error code exactly if
  the processor pushes one (`TakenFacts`).
* `ReportInv`: the vector in service follows from the one raised (`Taking`).

Theorems: `FramesAgree`, `ContextsRestored`, `ReportsFollow`; and `BootKeepsClock`
and `BootKeepsKeyboard`: booting implements the specifications of `Clock` and
`Keyboard`, so that what is proved of them holds in the composition.
Assumptions: `InterruptsAssumption` (the exceptions are not those of
`Unraised`, see section 6) and `BootAssumption` (the I/O APIC has at most 96
pins, and the vectors they may get are among those the local APIC may be asked
for), with those of the parts.

Only model-checked: liveness, which needs fairness and is out of TLAPS's reach.
Each invariant and each action property that a run checks is a theorem.
`ReturnedZeroed` of `BuddyAllocator` is proved and no longer checked.

## 5. Assumptions about what is outside src/

* frigg's ticket lock is FIFO; its vector moves its elements when full, to
  storage for twice as many as it then has; its
  manual boxes do nothing but construct.  These sources are vendored and not
  part of the repository; definitions that stand for them are marked external.
* The boot loader maps the first 4 GiB of physical memory, and what it offers
  beyond, to themselves, as the walks require (`MemoryAssumption`), none of it
  in the part for the page list (`FrameAssumption`).  It gives a memory map whose usable entries neither
  overlap nor touch (neighbours of one type are one entry), none with page 0.
* The I/O APIC delivers an edge that arrives while its entry is unmasked and
  drops one that arrives before; the PS/2 controller raises its line when its
  buffer fills and not again until it was read.
* The processor delivers interrupts and exceptions as Intel describes; the local
  APIC accepts a vector only above the class of those in service, and an end of
  interrupt takes the highest out of service.
* A key that is held repeats its scancode; the controller takes a scancode when
  its buffer is empty.
* What follows a task's stack is zero: the trace of a task finds the address 0.
* Functions do not overlap, a return address lies behind its function's beginning,
  and the entry code, which has no symbol, is not placed right behind kernel_init.
* A BGRT whose image type is that of a BMP holds one of 24 or 32 bits (ACPI 5.2.22).
* The memory of tables and what lies behind them is what the machine says; the
  memory at the first page is not mapped.
* The parts of the address space lie apart and below one another in the order of
  `AddressLayout` (mm.hpp:6-10), and the page list, 512 MiB into its part
  (linker_x86_64.ld:24), ends before that part does: with more memory than the
  remaining 512 MiB have room for pages, `LayoutAssumption` does not hold.
* The processor's page walk follows Intel's rules for the page-size bit.

## 6. Observations beside the findings

* `startAllCores()` may wait for ever if the boot processor is not the first of
  the boot loader's list: an unlock may pass the ticket before it is drawn
  (`StartupReturns` therefore assumes that it is first, as ACPI recommends).
* `calibrate()` leaves the timer unmasked and counting: booting that takes
  longer than its period (about a minute) is interrupted before a task exists.
* A task's saved flags are indeterminate except for two bits (context.hpp:21).
* If usable entries did touch, the surplus page of the array's host would belong
  to two instances (buddy.hpp:420).
* `buddies_required()` counts the bits of the lengths before the host is
  shortened by the array (buddy.hpp:421), and a shorter length may have more of
  them: one of 2^20 pages has one bit, one page less has twenty.  Then `init()`
  makes more instances than it reserved room for, and the last ones may lie in
  memory that is managed.  That takes an array of a page or more; `BuddyManager`
  halts there (`ArrayFits`).
* `Pagelist::init()` sets up entries by count (page.hpp:56-65), `phys_to_page()`
  looks them up by address (page.hpp:88).  With a hole in the memory map the pages
  above it have entries that nobody set up: `refcount++` (buddy.hpp:333) need not
  give 1, and then an owner's `free()` fails the assertion "This pages refcount is
  not 1" (buddy.hpp:367), although there was no "attempt to free an actively used
  block"; `AssertionHolds` has exactly that exception.
* `slab_size` of a page is never initialized: `RawPage::operator=` leaves it out
  (page.hpp:29-34).  On a page that no slab has marked, `deallocate()` decides by
  what the memory held whether it ignores the object, and follows the address of a
  slab that is not there for an object behind the first page of a large slab
  (heap.cpp:76-80); for the heap's first page it reads in front of the list
  (page.hpp:88).
* The page list lies at physical 512 MiB and above, and nothing takes that
  memory out of the memory map.
* The entry code of the exceptions 9, 17, 21, 29 and 30 does not expect what the
  processor pushes: 9 has no error code any more, the others have one
  (interrupt.asm:77-95).  Their frames would be off by 8 bytes; nothing in this
  kernel raises them, and `Interrupts` leaves them out (`Unraised`).
* `cpuHugePages()` asks for bit 26 of CPUID leaf 1, which is SSE2.
* Bit 7 of a 4 KiB entry, set for all indices but 1, is the PAT bit, so the
  memory type of these pages depends on the boot loader's PAT.
* `init()` leaves the instances in carving order: the loop that should sort them
  "from largest to smallest order" (buddy.hpp:323) swaps objects whose copy and
  move operations do nothing (buddy.hpp:53-64, 296).
* `suitable_buddy` compares an order of bytes with orders of words and leaves out
  index 0 and the last index: the largest instance never serves (buddy.hpp:428-443).
* Below the bottom margin (ESC [1;2r, ESC [3d), the end of the last line moves the
  cursor off the grid, since its row never equals the margin (gterm.c:553-558);
  the flush then reads behind the map.
* A bottom margin of 0 (ESC [;0r) passes the check, which subtracts one from it
  (term.c:826): the next character moves the cursor to row 2^64 - 1, and ESC M
  never ends.
* After 0x9B the next character is swallowed (term.c:860-864).
* ESC c clears `reverse_video` and leaves the colours exchanged; ESC 8 without
  ESC 7 gives black on black.
* ESC [J leaves the last cell of the screen, ESC [X and ESC [P go on in the next
  lines; ESC [0d, ESC [0G and ESC [0H go to the last line and column.
* `free()` of a block of the largest order returns with the lock held; the null
  block does the same.
* `sanity_checks` is off: a region whose order exceeds `largest_allowed_order + 3`
  would index past the free lists (buddy.hpp:75).
* `Heap::allocate()` takes the cache of index log2(size) - 1 (heap.cpp:67), which
  for more than 512 bytes is behind the last of nine: the vector of contexts gets
  there with the 63rd processor, that of tasks with the third task.  The heap's
  locks are empty (heap.cpp:31), although starting processors allocate.
* A slab logs its address whenever one is made (slab.hpp:217), with console_lock
  held and interrupts on: one made by `addTask()` may be interrupted by the
  keyboard, which is on by then, and whose handler waits for that lock for ever;
  or by the first tick, and the next key that prints does the same.
* `next()` may return a null pointer when memory is short, and the walk goes on
  with it (paging.cpp:54).
* Vectors without a gate: the page fault's, since the loop of exceptions with an
  error code ends one early (interrupt.asm:105), the spurious vector 255, and
  those of pins from 16 on, as the gates of interrupts end at vector 47.  What
  happens there is reported as a protection fault.  IST1 to IST4 get the lowest
  address of their pages (tss.cpp:17), so these stacks grow into what lies before.
* `getGSI()` answers with a byte where the table has 32 bits (madt.hpp:59), and
  `write()` takes an offset of eight (ioapic.cpp:28, 62): a GSI of 120 is written
  over the I/O APIC's id, one of 128 to 151 to the entry of the pin 128 below, with a
  vector that has no gate; one of 257 is taken for pin 1.
* The first pin of an I/O APIC is read from a field declared with 64 bits
  where the table has 32 (madt.hpp:53).  A machine without overrides or I/O APIC
  leads to a null reference; the PIT is reached by nobody, because a kernel
  without a local APIC panics before.
* The RSDP of revision 0 is summed up over the length of the later one
  (acpi_rsdp.hpp:25); the walk over the MADT ends at the length without its
  header and reads records behind the table (madt.hpp:87).
* The logger's base is sticky across lines, numerals end after 20 digits, which
  binary needs more of, and a failing assertion inside `logLine` reports itself
  through `logLine`.
* For an address that is not above any symbol, such as the 0 at a task's bottom,
  `SymbolTable::lookup()` never ends (symbols.cpp:19).  `panic()` halts with
  interrupts on, so handlers go on and may panic in turn (panic.hpp:16).
* Shift is toggled by both of its scancodes (ps2.cpp:114): a held key's repeats,
  the shifts that other keys send behind 0xE0 (numeric pad and cursor keys), and a
  break that is dropped when the buffer is cleared leave it the wrong way
  round.  The right shift key is no shift: it prints a character of its own.
  Scancodes from 59 on index behind `sc_ascii`.
* The result of `image_open()` is ignored (console.cpp:86), and the canvas keeps
  the address of a local image; the last pixel of a picture of 24 bits is read
  with one byte behind the file.

## 7. Not modelled

* GDT and TSS: data structures of the processor, written once; loading them is
  one step of `ApStartup`.
* The list of kernel stacks is written and never read; nobody makes a `PageFrame`.
* The PIT, which no execution reaches, and the interprocessor registers of the
  local APIC, which nobody uses.
* Of the terminal: fonts, glyphs, `term_deinit`; saving, restoring and refreshing
  the whole context, which the kernel does not call.
* Of pictures: the tiled and the stretched style, which nobody selects, and
  blending.
* Of the keyboard: which character a scancode stands for.
* Of the serial port: setting the line, and reading, which nobody does.
* A heap without a block for a slab that `addTask()` needs, which ends in a panic
  (heap.cpp:25): `KernelHeap` has it, `Scheduler` has not.
* What `kernel_main` allocates and prints to try the heap, and the texts of
  reports and dumps.
* Sanitizers: off in the default build.
* libk++ helpers: inlined where their arithmetic matters.
* Access rights, memory types and TLB invalidation in the page tables; `unmap()`
  only panics.
* Concurrent calls of the heap by starting processors beyond what `ApStartup`
  has of it.

## 8. Plan

1. *Page list*: the pages of the page list itself against the memory
   `BuddyManager` hands out.

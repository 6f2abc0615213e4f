------------------------------ MODULE KernelSpace ------------------------------
(***************************************************************************)
(* The calls of map() that booting makes, in their order: PageData in the  *)
(* boot loader's tables (boot_mem.cpp:74-100), the kernel's own tables     *)
(* (virtual.cpp:25-47), and the heap (heap.cpp:45-51).  Addresses are page *)
(* numbers.  A table has F entries, so that a GiB has F * F pages.         *)
(***************************************************************************)
EXTENDS PageTables, FiniteSets

CONSTANTS High, PageData, SlabHeap, Code, \* AddressLayout
          PageArray,  \* GLOB_PAGE_ARRAY, relative to PageData
          ArrayPages, \* pages the page list has
          HighestAddresses, \* the ends of the memory map
          Bases       \* where the boot loader may have put the kernel

F == Cardinality(Index)
PagesOf(size) == <<1, F, F * F, F * F * F>>[size]
GiB == PagesOf(3)

\* getPmlOffset() at each depth (paging.cpp:22-25, boot_mem.cpp:15-18).
ToPage(n) == [d \in Depth |-> (n \div PagesOf(d)) % F]

\* What four indices reach.
Top == PagesOf(4) * F
Reachable == 0 .. (Top - 1)

\* The parts of the address space lie apart, are reached by four indices, and
\* those with large pages begin at a multiple of a GiB.  The page list is inside
\* the part that is mapped for it, not in the 2 MiB whose entry lacks its bit.
ASSUME LayoutAssumption ==
  /\ F \in Nat \ {0} /\ Index = 0 .. (F - 1)
  /\ HighestAddresses \subseteq Nat /\ Bases \subseteq Nat
  /\ {High, PageData, SlabHeap, Code, PageArray, ArrayPages} \subseteq Nat
  /\ \A highest \in HighestAddresses : highest < High
  /\ High + 4 * GiB <= PageData /\ PageData + GiB <= SlabHeap
  /\ SlabHeap + GiB <= Code /\ Code + GiB <= Top
  /\ High % GiB = 0 /\ PageData % GiB = 0
  /\ ToPage(PageData)[3] # 1
  /\ PageArray + ArrayPages <= GiB
  /\ \A n \in PageArray .. (PageArray + ArrayPages - 1) : n \div F # 1

MapCall(space, virt, to, size) ==
  [op |-> "map", space |-> space, virt |-> ToPage(virt), phys |-> to, size |-> size]

\* mapRange() (vspace.hpp:59-62), and the loop of bootMapExtraRegion().
MapRange(space, base, len, offset, size) ==
  LET pages == PagesOf(size)
  IN  [k \in 1 .. ((len + pages - 1) \div pages) |->
         MapCall(space, base + (k - 1) * pages + offset, base + (k - 1) * pages, size)]

\* bootMapExtraRegion(): what the page list needs, in the boot loader's tables.
BootMap(hugePages) ==
  IF hugePages THEN <<MapCall("boot", PageData, 0, 3)>>
  ELSE MapRange("boot", 0, GiB, PageData, 2)

Direct(hugePages) ==
  IF hugePages
  THEN MapRange("kernel", 0, 4 * GiB, High, 3) \o <<MapCall("kernel", PageData, 0, 3)>>
  ELSE MapRange("kernel", 0, 4 * GiB, High, 2) \o MapRange("kernel", 0, GiB, PageData, 2)

Kernel(base) == [k \in 1 .. GiB |-> MapCall("kernel", Code + k - 1, base + k - 1, 1)]

\* Mutant: the tables are loaded before they are complete.
MutPageSpaceInit(hugePages, highest, base) ==
  <<[op |-> "root"], [op |-> "load"]>> \o MapRange("kernel", 1, highest, 0, 1)
  \o Direct(hugePages) \o Kernel(base)

\* kernelPageSpace::init().
PageSpaceInit(hugePages, highest, base) ==
  <<[op |-> "root"]>> \o MapRange("kernel", 1, highest, 0, 1)
  \o Direct(hugePages) \o Kernel(base) \o <<[op |-> "load"]>>

\* kernelHeap::init() maps a page of its own at each address.
HeapInit == [k \in 1 .. GiB |-> MapCall("kernel", SlabHeap + k - 1, None, 1)]

\* cpuHugePages() asks for bit 26 of CPUID's leaf 1, which is SSE2, so that
\* processors without 1 GiB pages may be taken to have them; both branches
\* are kept.
KernelPrograms ==
  { BootMap(h) \o PageSpaceInit(h, highest, base) \o HeapInit :
      h \in BOOLEAN, highest \in HighestAddresses, base \in Bases }

\* What is mapped are frames, and the boot loader's pages lie outside the part
\* for the page list.
ASSUME FrameAssumption ==
  /\ Programs \subseteq KernelPrograms
  /\ 0 .. (4 * GiB - 1) \subseteq Frame
  /\ \A highest \in HighestAddresses : 1 .. highest \subseteq Frame
  /\ \A base \in Bases : base .. (base + GiB - 1) \subseteq Frame
  /\ \A f \in Frame, d \in 1 .. 3 : None # [phys |-> f, size |-> d]
  /\ \A m \in BootMapped :
       /\ m.space = "boot"
       /\ \E n \in 0 .. (Top - PagesOf(m.size)) :
            /\ m.virt = ToPage(n) /\ n % PagesOf(m.size) = 0
            /\ n + PagesOf(m.size) <= PageData \/ PageData + GiB <= n

\* The boot loader has mapped all memory to itself, and none that may become
\* a table lies at page 0 or beyond the end of the memory map.
ASSUME MemoryAssumption ==
  \A p \in Pools : \A f \in DOMAIN BootTables \cup p["boot"] \cup p["kernel"] :
    /\ \A highest \in HighestAddresses : f \in 1 .. highest
    /\ \E m \in BootMapped : /\ Within(ToPage(f), m.virt, m.size)
                            /\ f = m.phys + (f % PagesOf(m.size))

\* Where an access to page n ends up under the tables in use.
Lands(n) == LET found == Translation(cr3, ToPage(n))
            IN  IF found \in {None, Astray} THEN None
                ELSE found.phys + (n % PagesOf(found.size))

\* The walks find a table under its physical address, before and after the
\* kernel's tables replace the boot loader's, and from the first map on the
\* page list stays the same memory: map() would edit other memory, or the
\* allocator lose what it knows of its pages.
MemoryInReach ==
  /\ \A t \in DOMAIN tables : Lands(t) = t
  /\ root["kernel"] # None =>
       \A n \in PageArray .. (PageArray + ArrayPages - 1) : Lands(PageData + n) = n
=============================================================================

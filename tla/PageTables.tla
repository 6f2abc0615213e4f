------------------------------ MODULE PageTables ------------------------------
(***************************************************************************)
(* The page tables of the boot loader and of the kernel and the two walks  *)
(* that edit them: traverse_page_tables (boot/boot_mem.cpp:29-64) in the   *)
(* boot loader's space and traversePageTables (intel64/paging.cpp:48-67)   *)
(* in the kernel's, with Pml::next (page_flags.hpp:69-82).  A program is   *)
(* the sequence of calls that booting makes; KernelSpace has the kernel's. *)
(*                                                                         *)
(* A virtual page is the four indices the code cuts out of an address      *)
(* (getPmlOffset), the one of depth 4 being the top.  The size of a page   *)
(* is the depth at which its walk ends: 1, 2 and 3 for 4 KiB, 2 MiB and    *)
(* 1 GiB (depthOf).  Of an entry only the address and bit 7 are kept, of a *)
(* frame only whether it is a table.  Every call reads and writes tables   *)
(* under their physical addresses, which the tables in use must map.       *)
(***************************************************************************)
EXTENDS Integers, Sequences

CONSTANTS Index,      \* 0 .. 511
          Frame,      \* physical pages
          Programs,   \* what the kernel may have to do: sequences of calls
          Pools,      \* the frames the two allocators have at first
          Answer(_, _), \* Answer(S, f): with S free, f may be handed out
          BootRoot, BootTables, \* the tables the boot loader made
          BootPlace, BootMapped, \* and what they are for
          None

Depth == 1 .. 4
Page == [Depth -> Index]
Space == {"boot", "kernel"}

\* `phys` None: the caller allocates the frame that is mapped.
Call == [op : {"map"}, space : Space, virt : Page, phys : Frame \cup {None}, size : 1 .. 3]
        \cup [op : {"root", "load"}]

\* The pages a large page contains differ in the indices below its depth.
Within(v, page, size) == \A d \in size .. 4 : v[d] = page[d]

\* The calls do not map the same address.
Separate(a, b) == a.space = b.space => /\ ~Within(a.virt, b.virt, a.size)
                                       /\ ~Within(a.virt, b.virt, b.size)

MapCalls(calls) == { k \in DOMAIN calls : calls[k].op = "map" }

\* The calls map different pages, and the kernel's root is made once, before
\* its maps.
Proper(calls) ==
  /\ calls \in Seq(Call)
  /\ \A j, k \in MapCalls(calls) : j # k => Separate(calls[j], calls[k])
  /\ \A k \in MapCalls(calls), m \in BootMapped : Separate(m, calls[k])
  /\ \A j, k \in DOMAIN calls : calls[j].op = "root" =>
       /\ calls[k].op = "root" => j = k
       /\ calls[k].op = "map" /\ calls[k].space = "kernel" => j < k
  /\ \A k \in MapCalls(calls) : calls[k].space = "kernel" =>
       \E j \in DOMAIN calls : calls[j].op = "root"

ASSUME ProgramAssumption == \A calls \in Programs : Proper(calls)

ASSUME PoolAssumption ==
  /\ Index \subseteq Nat
  /\ Pools \subseteq [Space -> SUBSET (Frame \ DOMAIN BootTables)]
  /\ \A p \in Pools : p["boot"] \cap p["kernel"] = {}
  /\ None \notin Frame
  /\ \A a \in Frame, b \in BOOLEAN : None # [addr |-> a, ps |-> b]

\* Bit 7 of a lowest entry.  The boot walk sets it in entries of large pages
\* (boot_mem.cpp:43, 53).  The other one sets it unless the entry's index
\* (not its depth) is 1 (paging.cpp:62-64); for 4 KiB pages it selects a
\* memory type.
PageSizeBit(call) == IF call.space = "boot" THEN call.size # 1 ELSE call.virt[call.size] # 1

Leaf(m) == [addr |-> m.phys, ps |-> PageSizeBit(m)]

Above(v, w, d) == \A e \in (d + 1) .. 4 : v[e] = w[e]

\* Tables T are trees: each entry leads to a table made for its part of the
\* address space, or is the lowest one of a map in M; each map has its entry
\* and each table its parent.  P says what the tables were made for, R which
\* are the roots, and `made` which pages they serve.
Link(T, P, t, i) == LET u == T[t][i].addr
                    IN  /\ i \in Index /\ T[t][i] # None /\ ~T[t][i].ps
                        /\ u \in DOMAIN T
                        /\ P[u].space = P[t].space
                        /\ P[t].depth > 1 /\ P[u].depth = P[t].depth - 1
                        /\ P[u].page[P[t].depth] = i
                        /\ Above(P[u].page, P[t].page, P[t].depth)

For(P, t, m) == /\ P[t].space = m.space /\ P[t].depth = m.size
                /\ Above(P[t].page, m.virt, m.size)

Serves(P, t, m) == /\ P[t].space = m.space /\ m.size <= P[t].depth
                   /\ Above(P[t].page, m.virt, P[t].depth)

EntriesLead(T, P, M) ==
  \A t \in DOMAIN T, i \in Index : T[t][i] # None =>
    \/ Link(T, P, t, i)
    \/ \E m \in M : For(P, t, m) /\ m.virt[m.size] = i /\ T[t][i] = Leaf(m)

MapsHaveEntries(T, P, M) ==
  \A m \in M : \E t \in DOMAIN T : For(P, t, m) /\ T[t][m.virt[m.size]] = Leaf(m)

Parent(T, P, t, u) == LET i == P[t].page[P[t].depth + 1]
                      IN  Link(T, P, u, i) /\ T[u][i].addr = t

TablesServe(T, P, R, made) ==
  \A t \in DOMAIN T :
    IF P[t].depth = 4 THEN t = R[P[t].space]
    ELSE /\ \E u \in DOMAIN T : Parent(T, P, t, u)
         /\ \E m \in made : Serves(P, t, m)

RootsOnTop(T, P, R) ==
  \A s \in Space : R[s] # None => R[s] \in DOMAIN T /\ P[R[s]].space = s /\ P[R[s]].depth = 4

Trees(T, P, M, R, made) == /\ EntriesLead(T, P, M)
                           /\ MapsHaveEntries(T, P, M)
                           /\ TablesServe(T, P, R, made)
                           /\ RootsOnTop(T, P, R)

ASSUME BootAssumption ==
  /\ BootRoot \in Frame
  /\ BootMapped \subseteq [space : Space, virt : Page, size : 1 .. 3, phys : Frame]
  /\ DOMAIN BootTables \subseteq Frame /\ DOMAIN BootPlace = DOMAIN BootTables
  /\ BootTables \in [DOMAIN BootTables -> [Index -> [addr : Frame, ps : BOOLEAN] \cup {None}]]
  /\ \A t \in DOMAIN BootPlace : BootPlace[t] \in [space : Space, depth : Depth,
                                                   page : Page \cup {None}]
  /\ Trees(BootTables, BootPlace, BootMapped,
           [s \in Space |-> IF s = "boot" THEN BootRoot ELSE None], BootMapped)

VARIABLES program, \* the calls
          step,    \* the next one
          root,    \* the root table of each space
          cr3,     \* the space in use
          tables,  \* the entries of each table
          pool,    \* the free frames of each space's allocator
          phys,    \* the frame that is being mapped, None between calls
          pml,     \* the table the walk is at
          depth,   \* and its depth
          mapped,  \* history: the maps completed
          place,   \* history: the space, depth and page each table was made for
          status   \* "ok", "panic", or "lost" if a null pointer is followed

walk == <<phys, pml, depth>>
vars == <<program, step, root, cr3, tables, pool, walk, mapped, place, status>>

Place(s, d, v) == [space |-> s, depth |-> d, page |-> v]

\* Mutant: new tables are not cleared, and their last entry is an old one.
MutNewTable == [i \in Index |-> IF \A j \in Index : j <= i
                                THEN [addr |-> CHOOSE f \in Frame : TRUE, ps |-> TRUE] ELSE None]

NewTable == [i \in Index |-> None]

\* T with x for the frame f.
With(T, f, x) == [t \in DOMAIN T \cup {f} |-> IF t = f THEN x ELSE T[t]]

Init == /\ program \in Programs
        /\ step = 1
        /\ root = [s \in Space |-> IF s = "boot" THEN BootRoot ELSE None]
        /\ cr3 = "boot"
        /\ tables = BootTables
        /\ pool \in Pools
        /\ phys = None /\ pml = BootRoot /\ depth = 4
        /\ mapped = BootMapped
        /\ place = BootPlace
        /\ status = "ok"

Calls(op) == /\ status = "ok" /\ phys = None
             /\ step \in DOMAIN program
             /\ program[step].op = op

Allocated(s, f) == /\ f \in pool[s] /\ Answer(pool[s], f)
                   /\ pool' = [pool EXCEPT ![s] = @ \ {f}]

\* kernelPageSpace::init(): the root is a page of zeroes (virtual.cpp:26-27).
MakeRoot == /\ Calls("root")
            /\ \E f \in Frame : /\ Allocated("kernel", f)
                                /\ root' = [root EXCEPT !["kernel"] = f]
                                /\ tables' = With(tables, f, NewTable)
                                /\ place' = With(place, f, Place("kernel", 4, None))
            /\ step' = step + 1
            /\ UNCHANGED <<program, cr3, walk, mapped, status>>

\* loadAddressSpace().
Load == /\ Calls("load")
        /\ cr3' = "kernel"
        /\ step' = step + 1
        /\ UNCHANGED <<program, root, tables, pool, walk, mapped, place, status>>

\* map() is called and starts at the root.
Map == /\ Calls("map")
       /\ \/ /\ program[step].phys # None
             /\ phys' = program[step].phys
             /\ UNCHANGED pool
          \/ /\ program[step].phys = None
             /\ \E f \in Frame : Allocated("kernel", f) /\ phys' = f
       /\ pml' = root[program[step].space]
       /\ depth' = 4
       /\ UNCHANGED <<program, step, root, cr3, tables, mapped, place, status>>

Walks == status = "ok" /\ phys # None

Here == program[step].virt[depth]

\* Mutant: the present bit is not looked at.
MutEntry == None

Entry == tables[pml][Here]

\* A present entry is followed.  It would be followed if it mapped a large
\* page, too, but no call maps a part of a page that another one maps.
Descend == /\ Walks /\ depth # program[step].size
           /\ Entry # None
           /\ pml' = Entry.addr
           /\ depth' = depth - 1
           /\ UNCHANGED <<program, step, root, cr3, tables, pool, phys, mapped, place, status>>

\* An absent one gets a new table.
Create == /\ Walks /\ depth # program[step].size
          /\ Entry = None
          /\ \E f \in Frame :
               /\ Allocated(program[step].space, f)
               /\ tables' = With([tables EXCEPT ![pml][Here] = [addr |-> f, ps |-> FALSE]],
                                 f, NewTable)
               /\ pml' = f
               /\ place' = With(place, f, Place(program[step].space, depth - 1,
                                                program[step].virt))
          /\ depth' = depth - 1
          /\ UNCHANGED <<program, step, root, cr3, phys, mapped, status>>

\* The boot walk panics if there is no page for a table, as must_allocate()
\* does for the root and the heap; Pml::next() returns a null pointer, which
\* the walk follows.
OutOfMemory ==
  /\ step \in DOMAIN program /\ status = "ok"
  /\ \/ /\ Walks /\ depth # program[step].size /\ Entry = None
        /\ pool[program[step].space] = {}
        /\ status' = IF program[step].space = "boot" THEN "panic" ELSE "lost"
     \/ /\ phys = None /\ pool["kernel"] = {}
        /\ \/ program[step].op = "root"
           \/ program[step].op = "map" /\ program[step].phys = None
        /\ status' = "panic"
  /\ UNCHANGED <<program, step, root, cr3, tables, pool, walk, mapped, place>>

Done(call) == [space |-> call.space, virt |-> call.virt, size |-> call.size, phys |-> phys]

\* The lowest entry is written, and the call returns.
SetEntry == /\ Walks /\ depth = program[step].size
            /\ tables' = [tables EXCEPT ![pml][Here] =
                            [addr |-> phys, ps |-> PageSizeBit(program[step])]]
            /\ mapped' = mapped \cup {Done(program[step])}
            /\ phys' = None
            /\ step' = step + 1
            /\ UNCHANGED <<program, root, cr3, pool, pml, depth, place, status>>

Next == \/ MakeRoot \/ Load \/ Map \/ Descend \/ Create \/ OutOfMemory
        \/ SetEntry

Spec == Init /\ [][Next]_vars
(***************************************************************************)
(* What the processor makes of the tables                                  *)
(***************************************************************************)
\* The frame it takes for the next table, None if there is no next table.
Follow(t, i) == IF t \in DOMAIN tables /\ tables[t][i] # None /\ ~tables[t][i].ps
                THEN tables[t][i].addr ELSE None

\* The tables it consults for a page, by their depth.
Consulted(s, v) == LET t4 == root[s]
                       t3 == Follow(t4, v[4])
                       t2 == Follow(t3, v[3])
                       t1 == Follow(t2, v[2])
                   IN  <<t1, t2, t3, t4>>

\* The page and its size, None for a page fault, or `astray` if the processor
\* takes for a table what is none of the kernel's.
Astray == [phys |-> None, size |-> 0]

Translation(s, v) ==
  LET t == Consulted(s, v)
      d == CHOOSE e \in Depth : t[e] # None /\ \A b \in 1 .. (e - 1) : t[b] = None
      entry == tables[t[d]][v[d]]
  IN  IF t[d] \notin DOMAIN tables THEN Astray
      ELSE IF entry = None THEN None
      ELSE [phys |-> entry.addr, size |-> d]

(***************************************************************************)
(* Properties                                                              *)
(***************************************************************************)
\* The entry of a large page lacks its bit.
Unsized(m) == m.space = "kernel" /\ m.size # 1 /\ m.virt[m.size] = 1

TakesEffect(m) ==
  IF Unsized(m) THEN Consulted(m.space, m.virt)[m.size - 1] = m.phys
  ELSE Translation(m.space, m.virt) = [phys |-> m.phys, size |-> m.size]

\* The processor finds each page where the call that mapped it put it,
\* whatever was mapped before and after; for the large pages at index 1 it
\* takes the mapped memory for a table.
MapsTakeEffect == \A m \in mapped : TakesEffect(m)

\* In the kernel's space it finds nothing else.
NothingElse ==
  root["kernel"] # None =>
    \A v \in Page : Translation("kernel", v) = None
                    \/ \E m \in mapped : m.space = "kernel" /\ Within(v, m.virt, m.size)
=============================================================================

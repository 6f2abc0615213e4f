--------------------------- MODULE KernelSpaceProofs ---------------------------
(***************************************************************************)
(* Proofs about PageTables for every program of calls whose pages are      *)
(* separate, every number of entries in a table, every order in which the  *)
(* allocators answer and every tables of the boot loader that are trees;   *)
(* then that the calls which booting makes are such a program, and that    *)
(* what they need is mapped when they need it.                             *)
(***************************************************************************)
EXTENDS KernelSpace, TLAPS

Now == program[step]

\* What the tables serve: the maps completed and the one in progress.
Made == mapped \cup (IF phys = None THEN {} ELSE {Now})

Map1 == [space : Space, virt : Page, size : 1 .. 3, phys : Frame]
Entries == [addr : Frame, ps : BOOLEAN] \cup {None}

TypeInv ==
  /\ program \in Programs /\ step \in Nat \ {0}
  /\ root \in [Space -> Frame \cup {None}]
  /\ root["boot"] # None
  /\ tables \in [DOMAIN tables -> [Index -> Entries]]
  /\ DOMAIN tables \subseteq Frame /\ DOMAIN place = DOMAIN tables
  /\ \A t \in DOMAIN tables : place[t] \in [space : Space, depth : Depth,
                                           page : Page \cup {None}]
  /\ pool \in [Space -> SUBSET (Frame \ DOMAIN tables)]
  /\ pool["boot"] \cap pool["kernel"] = {}
  /\ mapped \subseteq Map1
  /\ phys \in Frame \cup {None}

\* The maps completed and the calls to come are separate, and the kernel's
\* root is made once, before it is used.
CallInv ==
  /\ \A m \in mapped : \A k \in MapCalls(program) : k >= step => Separate(m, program[k])
  /\ root["kernel"] = None <=>
       \A k \in DOMAIN program : program[k].op = "root" => k >= step

\* The walk is at a table for the page it maps.
WalkInv ==
  phys # None =>
    /\ step \in MapCalls(program)
    /\ pml \in DOMAIN tables
    /\ depth \in Depth /\ Now.size <= depth
    /\ place[pml].space = Now.space /\ place[pml].depth = depth
    /\ Above(place[pml].page, Now.virt, depth)

TreeInv == Trees(tables, place, mapped, root, Made)

IInv == TypeInv /\ CallInv /\ WalkInv /\ TreeInv
-----------------------------------------------------------------------------
(* Init. *)

LEMMA InitIInv == Init => IInv
<1> SUFFICES ASSUME Init PROVE IInv
  OBVIOUS
<1> USE DEF Init
<1>1. TypeInv
  BY BootAssumption, PoolAssumption DEF TypeInv, Space, Map1, Entries
<1>2. CallInv
  BY ProgramAssumption, PoolAssumption DEF Proper, CallInv, Space
<1>3. WalkInv
  BY DEF WalkInv
<1>4. TreeInv
  <2>1. Made = BootMapped
    BY DEF Made
  <2> QED BY <2>1, BootAssumption DEF TreeInv
<1> QED BY <1>1, <1>2, <1>3, <1>4 DEF IInv
-----------------------------------------------------------------------------
(* Steps that leave the tables alone. *)

\* A call of map().
LEMMA CallFacts ==
  ASSUME TypeInv, NEW k \in MapCalls(program)
  PROVE  /\ program[k].op = "map" /\ program[k].space \in Space
         /\ program[k].virt \in Page /\ program[k].size \in 1 .. 3
         /\ program[k].phys \in Frame \cup {None}
<1>1. program \in Seq(Call) /\ k \in DOMAIN program /\ program[k].op = "map"
  BY ProgramAssumption DEF Proper, TypeInv, MapCalls
<1>2. program[k] \in Call
  BY <1>1
<1> QED BY <1>1, <1>2 DEF Call

LEMMA QuietTrees ==
  ASSUME TreeInv, UNCHANGED <<tables, place, mapped, root>>, Made \subseteq Made'
  PROVE  TreeInv'
<1>1. TablesServe(tables, place, root, Made) => TablesServe(tables, place, root, Made')
  BY DEF TablesServe
<1>2. TreeInv' <=> Trees(tables, place, mapped, root, Made')
  BY DEF TreeInv
<1> QED BY <1>1, <1>2 DEF TreeInv, Trees

LEMMA LoadStep == IInv /\ Load => IInv'
<1> SUFFICES ASSUME IInv, Load PROVE IInv'
  OBVIOUS
<1> USE DEF IInv, Load, Calls
<1>1. TypeInv'
  BY DEF TypeInv, walk, Entries
<1>2. CallInv'
  <2>1. step \in DOMAIN program /\ program[step].op = "load"
    OBVIOUS
  <2>2. \A k \in DOMAIN program : program[k].op = "root" => (k >= step <=> k >= step')
    BY <2>1, ProgramAssumption DEF Proper, TypeInv
  <2>3. \A k \in MapCalls(program) : k >= step' => k >= step
    BY ProgramAssumption DEF Proper, TypeInv, MapCalls
  <2> QED BY <2>2, <2>3 DEF CallInv
<1>3. WalkInv'
  BY DEF WalkInv, walk
<1>4. TreeInv'
  BY QuietTrees DEF Made, walk
<1> QED BY <1>1, <1>2, <1>3, <1>4

LEMMA OutOfMemoryStep == IInv /\ OutOfMemory => IInv'
<1> SUFFICES ASSUME IInv, OutOfMemory PROVE IInv'
  OBVIOUS
<1> USE DEF IInv, walk
<1>0. UNCHANGED <<program, step, root, cr3, tables, pool, walk, mapped, place>>
  BY DEF OutOfMemory
<1>1. TypeInv'
  BY <1>0 DEF TypeInv, Entries
<1>2. CallInv'
  BY <1>0 DEF CallInv, MapCalls
<1>3. WalkInv'
  BY <1>0 DEF WalkInv, MapCalls, Now
<1>4. TreeInv'
  BY <1>0, QuietTrees DEF Made, Now
<1> QED BY <1>1, <1>2, <1>3, <1>4

LEMMA MapStep == IInv /\ Map => IInv'
<1> SUFFICES ASSUME IInv, Map PROVE IInv'
  OBVIOUS
<1> USE DEF IInv, Calls
<1>1. /\ phys = None /\ step \in MapCalls(program)
      /\ pml' = root[Now.space] /\ depth' = 4
      /\ UNCHANGED <<program, step, root, cr3, tables, mapped, place, status>>
  BY DEF Map, MapCalls, Now
<1>2. Now.space \in Space /\ Now.size \in 1 .. 3
  BY <1>1, CallFacts DEF Now
<1>3. /\ phys' \in Frame
      /\ \A s \in Space : pool'[s] \subseteq pool[s]
      /\ pool' \in [Space -> SUBSET (Frame \ DOMAIN tables)]
  <2>1. CASE program[step].phys # None /\ phys' = program[step].phys /\ UNCHANGED pool
    BY <1>1, <2>1, CallFacts DEF TypeInv
  <2>2. CASE \E f \in Frame : Allocated("kernel", f) /\ phys' = f
    BY <2>2 DEF TypeInv, Allocated, Space
  <2> QED BY <2>1, <2>2 DEF Map
<1>4. TypeInv'
  BY <1>1, <1>3 DEF TypeInv, Entries, Space
<1>5. CallInv'
  BY <1>1 DEF CallInv, MapCalls
<1>6. root[Now.space] # None
  <2>1. CASE Now.space = "boot"
    BY <2>1 DEF TypeInv
  <2>2. CASE Now.space = "kernel"
    <3>1. PICK j \in DOMAIN program : program[j].op = "root"
      BY <1>1, <2>2, ProgramAssumption DEF Proper, TypeInv, Now
    <3>2. j < step
      BY <1>1, <2>2, <3>1, ProgramAssumption DEF Proper, TypeInv, Now, MapCalls
    <3> QED BY <2>2, <3>1, <3>2, ProgramAssumption DEF Proper, CallInv, TypeInv
  <2> QED BY <1>2, <2>1, <2>2 DEF Space
<1>7. WalkInv'
  <2>1. Now' = Now
    BY <1>1 DEF Now
  <2>2. /\ root[Now.space] \in DOMAIN tables /\ place[root[Now.space]].space = Now.space
        /\ place[root[Now.space]].depth = 4
    BY <1>2, <1>6 DEF TreeInv, Trees, RootsOnTop
  <2> QED BY <1>1, <1>2, <2>1, <2>2 DEF WalkInv, MapCalls, Above, Depth
<1>8. TreeInv'
  BY <1>1, QuietTrees DEF Made
<1> QED BY <1>4, <1>5, <1>7, <1>8

\* The lowest entry of a map is present.
LEMMA LeafFacts ==
  ASSUME TypeInv, NEW m \in mapped
  PROVE  Leaf(m) # None /\ m.virt[m.size] \in Index /\ m.size \in 1 .. 3
<1>1. m.virt \in Page /\ m.size \in 1 .. 3 /\ m.phys \in Frame
  BY DEF TypeInv, Map1
<1>2. PageSizeBit(m) \in BOOLEAN
  BY DEF PageSizeBit
<1>3. Leaf(m) # None
  BY <1>1, <1>2, PoolAssumption DEF Leaf
<1> QED BY <1>1, <1>3 DEF Page, Depth

\* The walk is at a table, and its call is what CallFacts says.
LEMMA WalkFacts ==
  ASSUME IInv, phys # None
  PROVE  /\ Now.virt \in Page /\ Now.size \in 1 .. 3 /\ Now.space \in Space
         /\ Now.op = "map" /\ step \in MapCalls(program)
         /\ pml \in DOMAIN tables /\ depth \in Depth /\ Now.size <= depth
         /\ place[pml].space = Now.space /\ place[pml].depth = depth
         /\ Above(place[pml].page, Now.virt, depth)
         /\ Now.virt[depth] \in Index
<1>1. step \in MapCalls(program) /\ pml \in DOMAIN tables /\ depth \in Depth
  BY DEF IInv, WalkInv
<1>2. Now.virt \in Page /\ Now.size \in 1 .. 3 /\ Now.space \in Space /\ Now.op = "map"
  BY <1>1, CallFacts DEF IInv, Now
<1>3. Now.virt[depth] \in Index
  BY <1>1, <1>2 DEF Page
<1> QED BY <1>1, <1>2, <1>3 DEF IInv, WalkInv

\* Maps overlap, which separate calls do not, if their entries are in one
\* place or one's is on the other's way.
LEMMA OnTheWay ==
  ASSUME IInv, phys # None, NEW m \in mapped, m.space = Now.space,
         NEW d \in Depth, d \in {m.size, Now.size},
         \A e \in d .. 4 : m.virt[e] = Now.virt[e]
  PROVE  FALSE
<1>1. Separate(m, Now)
  BY DEF IInv, CallInv, WalkInv, TypeInv, Now, MapCalls
<1> QED BY <1>1 DEF Separate, Within

LEMMA DescendStep == IInv /\ Descend => IInv'
<1> SUFFICES ASSUME IInv, Descend PROVE IInv'
  OBVIOUS
<1> USE DEF IInv, Walks
<1>1. /\ phys # None /\ depth # Now.size /\ tables[pml][Now.virt[depth]] # None
      /\ pml' = tables[pml][Now.virt[depth]].addr /\ depth' = depth - 1
  BY DEF Descend, Entry, Here, Now
<1>0. UNCHANGED <<program, step, root, cr3, tables, pool, phys, mapped, place, status>>
  BY DEF Descend
<1>2. /\ Now.virt \in Page /\ Now.size \in 1 .. 3 /\ Now.space \in Space
  BY <1>1, WalkFacts
<1>3. /\ pml \in DOMAIN tables /\ depth \in Depth /\ Now.size < depth
      /\ place[pml].space = Now.space /\ place[pml].depth = depth
      /\ Above(place[pml].page, Now.virt, depth)
  BY <1>1, WalkFacts DEF Depth
<1>4. TypeInv'
  BY <1>0 DEF TypeInv, Entries
<1>5. CallInv'
  BY <1>0 DEF CallInv, MapCalls
<1>6. Link(tables, place, pml, Now.virt[depth])
  <2>1. Now.virt[depth] \in Index
    BY <1>2, <1>3 DEF Page
  <2>2. ASSUME NEW m \in mapped, For(place, pml, m), m.virt[m.size] = Now.virt[depth]
        PROVE  FALSE
    <3>1. /\ m.size = depth /\ m.space = Now.space
          /\ Above(place[pml].page, m.virt, depth)
      BY <1>3, <2>2 DEF For
    <3>2. \A e \in m.size .. 4 : m.virt[e] = Now.virt[e]
      <4>1. \A e \in depth .. 4 : e = depth \/ e \in (depth + 1) .. 4
        BY <1>3 DEF Depth
      <4> QED BY <1>3, <2>2, <3>1, <4>1 DEF Above
    <3> QED BY <1>1, <1>3, <3>1, <3>2, OnTheWay DEF Depth
  <2> QED BY <1>1, <1>3, <2>1, <2>2 DEF TreeInv, Trees, EntriesLead
<1>7. WalkInv'
  <2>1. Now' = Now
    BY <1>0 DEF Now
  <2>2. /\ pml' \in DOMAIN tables /\ place[pml'].space = Now.space /\ place[pml'].depth = depth - 1
        /\ place[pml'].page[depth] = Now.virt[depth] /\ Above(place[pml'].page, place[pml].page, depth)
    BY <1>1, <1>3, <1>6 DEF Link
  <2>3. Above(place[pml'].page, Now.virt, depth - 1)
    BY <1>3, <2>2 DEF Above, Depth
  <2>4. depth - 1 \in Depth /\ Now.size <= depth - 1
    BY <1>2, <1>3 DEF Depth
  <2>5. step' \in MapCalls(program') /\ place' = place
    BY <1>0, <1>1, WalkFacts DEF MapCalls
  <2>6. pml' \in DOMAIN tables'
    BY <1>0, <2>2
  <2>7. depth' = depth - 1
    BY <1>1
  <2> QED BY <2>1, <2>2, <2>3, <2>4, <2>5, <2>6, <2>7 DEF WalkInv
<1>8. TreeInv'
  BY <1>0, QuietTrees DEF Made, Now
<1> QED BY <1>4, <1>5, <1>7, <1>8
-----------------------------------------------------------------------------
(* New tables. *)

\* A frame that is handed out was free in one allocator only.
LEMMA AllocatedFacts ==
  ASSUME TypeInv, NEW s \in Space, NEW f, Allocated(s, f)
  PROVE  /\ f \in Frame /\ f \notin DOMAIN tables /\ f # None
         /\ pool' \in [Space -> SUBSET (Frame \ (DOMAIN tables \cup {f}))]
         /\ pool'["boot"] \cap pool'["kernel"] = {}
<1>1. /\ pool \in [Space -> SUBSET (Frame \ DOMAIN tables)]
      /\ pool["boot"] \cap pool["kernel"] = {} /\ f \in pool[s]
      /\ pool' = [pool EXCEPT ![s] = @ \ {f}]
  BY DEF TypeInv, Allocated
<1>2. \A r \in Space : f \notin pool'[r] /\ pool'[r] \subseteq pool[r]
  BY <1>1 DEF Space
<1>3. pool' \in [Space -> SUBSET (Frame \ (DOMAIN tables \cup {f}))]
  BY <1>1, <1>2
<1>4. pool'["boot"] \cap pool'["kernel"] = {}
  BY <1>1, <1>2 DEF Space
<1> QED BY <1>1, <1>3, <1>4, PoolAssumption

LEMMA MakeRootStep == IInv /\ MakeRoot => IInv'
<1> SUFFICES ASSUME IInv, MakeRoot PROVE IInv'
  OBVIOUS
<1> USE DEF IInv
<1>1. PICK f \in Frame : /\ Allocated("kernel", f)
                         /\ root' = [root EXCEPT !["kernel"] = f]
                         /\ tables' = With(tables, f, NewTable)
                         /\ place' = With(place, f, Place("kernel", 4, None))
  BY DEF MakeRoot
<1>2. /\ phys = None /\ step \in DOMAIN program /\ program[step].op = "root"
      /\ step' = step + 1
      /\ UNCHANGED <<program, cr3, phys, pml, depth, mapped, status>>
  BY DEF MakeRoot, Calls, walk
<1>3. f \notin DOMAIN tables /\ f # None /\ DOMAIN place = DOMAIN tables
  BY <1>1, AllocatedFacts DEF TypeInv, Space
<1>4. /\ DOMAIN tables' = DOMAIN tables \cup {f} /\ tables'[f] = NewTable
      /\ \A t \in DOMAIN tables : tables'[t] = tables[t]
      /\ tables' = [t \in DOMAIN tables \cup {f} |-> tables'[t]]
  BY <1>1, <1>3 DEF With
<1>5. /\ DOMAIN place' = DOMAIN tables \cup {f} /\ place'[f] = Place("kernel", 4, None)
      /\ \A t \in DOMAIN tables : place'[t] = place[t]
  BY <1>1, <1>3 DEF With
<1>6. /\ root["kernel"] = None /\ root'["kernel"] = f /\ root'["boot"] = root["boot"]
  BY <1>1, <1>2, ProgramAssumption DEF Proper, TypeInv, CallInv, Space
<1>7. TypeInv'
  <2>1. NewTable \in [Index -> Entries]
    BY DEF NewTable, Entries
  <2>2. tables' \in [DOMAIN tables' -> [Index -> Entries]]
    BY <1>4, <2>1 DEF TypeInv
  <2>3. \A t \in DOMAIN tables' : place'[t] \in [space : Space, depth : Depth,
                                                 page : Page \cup {None}]
    BY <1>4, <1>5 DEF TypeInv, Place, Space, Depth
  <2>4. /\ pool' \in [Space -> SUBSET (Frame \ DOMAIN tables')]
        /\ pool'["boot"] \cap pool'["kernel"] = {}
    BY <1>1, <1>4, AllocatedFacts DEF Space
  <2>5. root' \in [Space -> Frame \cup {None}] /\ root'["boot"] # None
    BY <1>1, <1>6 DEF TypeInv, Space
  <2>6. DOMAIN tables' \subseteq Frame /\ DOMAIN place' = DOMAIN tables'
    BY <1>1, <1>4, <1>5 DEF TypeInv
  <2> QED BY <1>2, <2>2, <2>3, <2>4, <2>5, <2>6 DEF TypeInv
<1>8. CallInv'
  <2>1. \A k \in MapCalls(program) : k >= step' => k >= step
    BY <1>2, ProgramAssumption DEF Proper, TypeInv, MapCalls
  <2>2. ~(step >= step')
    BY <1>2 DEF TypeInv
  <2> QED BY <1>2, <1>3, <1>6, <2>1, <2>2 DEF CallInv
<1>9. WalkInv'
  BY <1>2 DEF WalkInv
<1>10. TreeInv'
  <2>1. Made' = Made
    BY <1>2 DEF Made
  <2>2. \A t \in DOMAIN tables :
          \A i : Link(tables, place, t, i) => Link(tables', place', t, i)
    BY <1>4, <1>5 DEF Link
  <2>3. EntriesLead(tables', place', mapped')
    <3>1. ASSUME NEW t \in DOMAIN tables', NEW i \in Index, tables'[t][i] # None
          PROVE  t \in DOMAIN tables /\ tables[t][i] # None
      BY <1>4, <3>1 DEF NewTable
    <3>2. ASSUME NEW t \in DOMAIN tables, NEW i \in Index, tables[t][i] # None
          PROVE  \/ Link(tables', place', t, i)
                 \/ \E m \in mapped : /\ For(place', t, m) /\ m.virt[m.size] = i
                                      /\ tables'[t][i] = Leaf(m)
      BY <1>4, <1>5, <2>2, <3>2 DEF EntriesLead, TreeInv, Trees, For
    <3> QED BY <1>2, <3>1, <3>2 DEF EntriesLead
  <2>4. MapsHaveEntries(tables', place', mapped')
    BY <1>2, <1>4, <1>5 DEF MapsHaveEntries, TreeInv, Trees, For
  <2>5. TablesServe(tables', place', root', Made')
    <3>1. ASSUME NEW t \in DOMAIN tables, place[t].depth = 4
          PROVE  t = root'[place[t].space]
      BY <1>6, <3>1, PoolAssumption DEF TreeInv, Trees, TablesServe, TypeInv, Space
    <3>2. ASSUME NEW t \in DOMAIN tables, place[t].depth # 4
          PROVE  /\ \E u \in DOMAIN tables' : Parent(tables', place', t, u)
                 /\ \E m \in Made : Serves(place', t, m)
      <4>1. PICK u \in DOMAIN tables : Parent(tables, place, t, u)
        BY <3>2 DEF TreeInv, Trees, TablesServe
      <4>2. Parent(tables', place', t, u)
        BY <1>4, <1>5, <2>2, <4>1 DEF Parent
      <4>3. PICK m \in Made : Serves(place, t, m)
        BY <3>2 DEF TreeInv, Trees, TablesServe
      <4> QED BY <1>4, <1>5, <4>2, <4>3 DEF Serves
    <3>3. place'[f].depth = 4 /\ f = root'[place'[f].space]
      BY <1>5, <1>6 DEF Place
    <3> QED BY <1>4, <1>5, <2>1, <3>1, <3>2, <3>3 DEF TablesServe
  <2>6. RootsOnTop(tables', place', root')
    BY <1>4, <1>5, <1>6 DEF RootsOnTop, TreeInv, Trees, Place, Space
  <2> QED BY <2>3, <2>4, <2>5, <2>6 DEF TreeInv, Trees
<1> QED BY <1>7, <1>8, <1>9, <1>10
LEMMA CreateStep == IInv /\ Create => IInv'
<1> SUFFICES ASSUME IInv, Create PROVE IInv'
  OBVIOUS
<1> DEFINE here == Now.virt[depth]
           entry(f) == [addr |-> f, ps |-> FALSE]
<1>1. PICK f \in Frame :
        /\ Allocated(Now.space, f)
        /\ tables' = With([tables EXCEPT ![pml][here] = entry(f)], f, NewTable)
        /\ pml' = f
        /\ place' = With(place, f, Place(Now.space, depth - 1, Now.virt))
  BY DEF Create, Now, Here
<1>2. /\ phys # None /\ depth # Now.size /\ tables[pml][here] = None /\ depth' = depth - 1
      /\ UNCHANGED <<program, step, root, cr3, phys, mapped, status>>
  BY DEF Create, Walks, Entry, Here, Now
<1>3. /\ Now.virt \in Page /\ Now.size \in 1 .. 3 /\ Now.space \in Space
      /\ pml \in DOMAIN tables /\ depth \in Depth /\ Now.size < depth
      /\ place[pml].space = Now.space /\ place[pml].depth = depth
      /\ Above(place[pml].page, Now.virt, depth) /\ here \in Index
  BY <1>2, WalkFacts DEF Depth
<1>4. f \notin DOMAIN tables /\ f # None /\ DOMAIN place = DOMAIN tables
  BY <1>1, <1>3, AllocatedFacts DEF IInv, TypeInv
<1> DEFINE T == [tables EXCEPT ![pml][here] = entry(f)]
<1>5. /\ DOMAIN T = DOMAIN tables /\ DOMAIN T[pml] = Index /\ T[pml][here] = entry(f)
      /\ \A t \in DOMAIN tables : t # pml => T[t] = tables[t]
      /\ \A i \in Index : i # here => T[pml][i] = tables[pml][i]
      /\ T \in [DOMAIN tables -> [Index -> Entries]]
  BY <1>3 DEF IInv, TypeInv, Entries
<1> HIDE DEF T
<1>6. /\ DOMAIN tables' = DOMAIN tables \cup {f} /\ tables'[f] = NewTable
      /\ \A t \in DOMAIN tables : tables'[t] = T[t]
      /\ tables' = [t \in DOMAIN tables \cup {f} |-> tables'[t]]
  BY <1>1, <1>4, <1>5 DEF With, T
<1>7. /\ DOMAIN place' = DOMAIN tables \cup {f}
      /\ place'[f] = Place(Now.space, depth - 1, Now.virt)
      /\ \A t \in DOMAIN tables : place'[t] = place[t]
  BY <1>1, <1>4 DEF With
<1>8. \A t \in DOMAIN tables, i \in Index :
        tables[t][i] # None => tables'[t][i] = tables[t][i]
  BY <1>2, <1>5, <1>6
<1>9. TypeInv'
  <2>1. NewTable \in [Index -> Entries]
    BY DEF NewTable, Entries
  <2>2. tables' \in [DOMAIN tables' -> [Index -> Entries]]
    BY <1>5, <1>6, <2>1
  <2>3. \A t \in DOMAIN tables' : place'[t] \in [space : Space, depth : Depth,
                                                 page : Page \cup {None}]
    <3>1. place'[f] \in [space : Space, depth : Depth, page : Page \cup {None}]
      BY <1>3, <1>7 DEF Place, Depth
    <3> QED BY <1>6, <1>7, <3>1 DEF IInv, TypeInv
  <2>4. /\ pool' \in [Space -> SUBSET (Frame \ DOMAIN tables')]
        /\ pool'["boot"] \cap pool'["kernel"] = {}
    BY <1>1, <1>3, <1>6, AllocatedFacts DEF IInv
  <2>5. DOMAIN tables' \subseteq Frame /\ DOMAIN place' = DOMAIN tables'
    BY <1>1, <1>6, <1>7 DEF IInv, TypeInv
  <2> QED BY <1>2, <2>2, <2>3, <2>4, <2>5 DEF IInv, TypeInv
<1>10. CallInv'
  BY <1>2 DEF IInv, CallInv, MapCalls
<1>11. WalkInv'
  <2>1. Now' = Now /\ step' \in MapCalls(program')
    BY <1>2, WalkFacts DEF Now, MapCalls
  <2>2. /\ pml' \in DOMAIN tables' /\ place'[pml'].space = Now.space
        /\ place'[pml'].depth = depth - 1 /\ Above(place'[pml'].page, Now.virt, depth - 1)
    BY <1>1, <1>6, <1>7 DEF Place, Above
  <2>3. depth - 1 \in Depth /\ Now.size <= depth - 1
    BY <1>3 DEF Depth
  <2> QED BY <1>2, <2>1, <2>2, <2>3 DEF WalkInv
<1>12. TreeInv'
  <2>1. Made' = Made /\ Now \in Made
    BY <1>2 DEF Made, Now
  <2>2. ASSUME NEW t \in DOMAIN tables, NEW i \in Index, Link(tables, place, t, i)
        PROVE  Link(tables', place', t, i) /\ tables'[t][i] = tables[t][i]
    <3>1. tables'[t][i] = tables[t][i]
      BY <1>8, <2>2 DEF Link
    <3> QED BY <1>6, <1>7, <2>2, <3>1 DEF Link
  <2>3. Link(tables', place', pml, here) /\ tables'[pml][here].addr = f
    <3>1. tables'[pml][here] = entry(f) /\ entry(f) # None /\ f \in DOMAIN tables'
      BY <1>1, <1>3, <1>5, <1>6, PoolAssumption
    <3>2. /\ place'[pml] = place[pml] /\ place'[f].space = Now.space
          /\ place'[f].depth = depth - 1 /\ place'[f].page = Now.virt
      BY <1>3, <1>7 DEF Place
    <3>3. entry(f).addr = f /\ ~entry(f).ps
      OBVIOUS
    <3>4. Above(Now.virt, place[pml].page, depth) /\ depth > 1
      BY <1>3 DEF Above, Depth
    <3> HIDE DEF entry
    <3> QED BY <1>3, <3>1, <3>2, <3>3, <3>4 DEF Link
  <2>4. EntriesLead(tables', place', mapped')
    <3> SUFFICES ASSUME NEW t \in DOMAIN tables', NEW i \in Index, tables'[t][i] # None
                 PROVE  \/ Link(tables', place', t, i)
                        \/ \E m \in mapped : /\ For(place', t, m) /\ m.virt[m.size] = i
                                             /\ tables'[t][i] = Leaf(m)
      BY <1>2 DEF EntriesLead
    <3>1. t \in DOMAIN tables
      BY <1>6 DEF NewTable
    <3>2. CASE t = pml /\ i = here
      BY <2>3, <3>2
    <3>3. CASE ~(t = pml /\ i = here)
      <4>1. tables'[t][i] = tables[t][i]
        BY <1>5, <1>6, <3>1, <3>3
      <4>2. \/ Link(tables, place, t, i)
            \/ \E m \in mapped : /\ For(place, t, m) /\ m.virt[m.size] = i
                                 /\ tables[t][i] = Leaf(m)
        BY <3>1, <4>1 DEF IInv, TreeInv, Trees, EntriesLead
      <4> QED BY <1>7, <2>2, <3>1, <4>1, <4>2 DEF For
    <3> QED BY <3>2, <3>3
  <2>5. MapsHaveEntries(tables', place', mapped')
    <3> SUFFICES ASSUME NEW m \in mapped
                 PROVE  \E t \in DOMAIN tables' : /\ For(place', t, m)
                                                  /\ tables'[t][m.virt[m.size]] = Leaf(m)
      BY <1>2 DEF MapsHaveEntries
    <3>1. PICK t \in DOMAIN tables : For(place, t, m) /\ tables[t][m.virt[m.size]] = Leaf(m)
      BY DEF IInv, TreeInv, Trees, MapsHaveEntries
    <3>2. Leaf(m) # None /\ m.virt[m.size] \in Index
      BY LeafFacts DEF IInv
    <3> QED BY <1>6, <1>7, <1>8, <3>1, <3>2 DEF For
  <2>6. TablesServe(tables', place', root', Made')
    <3>1. ASSUME NEW t \in DOMAIN tables, place[t].depth = 4
          PROVE  t = root'[place[t].space]
      BY <1>2, <3>1 DEF IInv, TreeInv, Trees, TablesServe
    <3>2. ASSUME NEW t \in DOMAIN tables, place[t].depth # 4
          PROVE  /\ \E u \in DOMAIN tables' : Parent(tables', place', t, u)
                 /\ \E m \in Made : Serves(place', t, m)
      <4>1. PICK u \in DOMAIN tables : Parent(tables, place, t, u)
        BY <3>2 DEF IInv, TreeInv, Trees, TablesServe
      <4>2. place[t].page[place[t].depth + 1] \in Index
        BY <4>1 DEF Parent, Link
      <4>3. Parent(tables', place', t, u)
        BY <1>7, <2>2, <4>1, <4>2 DEF Parent
      <4>4. PICK m \in Made : Serves(place, t, m)
        BY <3>2 DEF IInv, TreeInv, Trees, TablesServe
      <4> QED BY <1>6, <1>7, <4>3, <4>4 DEF Serves
    <3>3. place'[f].depth # 4 /\ Parent(tables', place', f, pml) /\ Serves(place', f, Now)
      BY <1>3, <1>7, <2>3 DEF Place, Parent, Serves, Above, Depth
    <3> QED BY <1>3, <1>6, <1>7, <2>1, <3>1, <3>2, <3>3 DEF TablesServe
  <2>7. RootsOnTop(tables', place', root')
    BY <1>2, <1>6, <1>7 DEF IInv, RootsOnTop, TreeInv, Trees
  <2> QED BY <2>4, <2>5, <2>6, <2>7 DEF TreeInv, Trees
<1> QED BY <1>9, <1>10, <1>11, <1>12 DEF IInv
-----------------------------------------------------------------------------
(* The lowest entry. *)

\* Nothing was mapped at, above or below the place of a map's lowest entry.
LEMMA EntryAbsent ==
  ASSUME IInv, phys # None, depth = Now.size
  PROVE  tables[pml][Now.virt[depth]] = None
<1> DEFINE i == Now.virt[depth]
<1> SUFFICES ASSUME tables[pml][i] # None PROVE FALSE
  OBVIOUS
<1>1. /\ Now.size \in 1 .. 3 /\ Now.space \in Space /\ pml \in DOMAIN tables
      /\ depth \in Depth /\ i \in Index
      /\ place[pml].space = Now.space /\ place[pml].depth = depth
      /\ Above(place[pml].page, Now.virt, depth)
  BY WalkFacts
<1>2. \A e \in depth .. 4 : e = depth \/ e \in (depth + 1) .. 4
  BY <1>1 DEF Depth
<1>3. CASE Link(tables, place, pml, i)
  <2> DEFINE u == tables[pml][i].addr
  <2>1. /\ u \in DOMAIN tables /\ place[u].space = Now.space
        /\ place[u].depth = depth - 1 /\ place[u].page[depth] = i
        /\ Above(place[u].page, place[pml].page, depth)
    <3> HIDE DEF i
    <3> QED BY <1>1, <1>3 DEF Link
  <2> HIDE DEF u
  <2>2. PICK m \in Made : Serves(place, u, m)
    <3>1. place[u].depth # 4
      BY <1>1, <2>1 DEF Depth
    <3> QED BY <2>1, <3>1 DEF IInv, TreeInv, Trees, TablesServe
  <2>3. /\ m.space = Now.space /\ m.size <= depth - 1
        /\ Above(place[u].page, m.virt, depth - 1)
    BY <2>1, <2>2 DEF Serves
  <2>4. m \in mapped
    BY <1>1, <2>3 DEF Made
  <2>5. \A e \in depth .. 4 : m.virt[e] = Now.virt[e]
    <3>1. \A e \in depth .. 4 : m.virt[e] = place[u].page[e]
      BY <1>1, <2>3 DEF Above, Depth
    <3> QED BY <1>1, <1>2, <2>1, <3>1 DEF Above
  <2> QED BY <1>1, <2>3, <2>4, <2>5, OnTheWay
<1>4. CASE \E m \in mapped : For(place, pml, m) /\ m.virt[m.size] = i
  <2>1. PICK m \in mapped : For(place, pml, m) /\ m.virt[m.size] = i
    BY <1>4
  <2>2. m.size = depth /\ m.space = Now.space /\ Above(place[pml].page, m.virt, depth)
    BY <1>1, <2>1 DEF For
  <2>3. \A e \in depth .. 4 : m.virt[e] = Now.virt[e]
    BY <1>1, <1>2, <2>1, <2>2 DEF Above
  <2> QED BY <1>1, <2>2, <2>3, OnTheWay
<1> QED BY <1>1, <1>3, <1>4 DEF IInv, TreeInv, Trees, EntriesLead

LEMMA SetEntryStep == IInv /\ SetEntry => IInv'
<1> SUFFICES ASSUME IInv, SetEntry PROVE IInv'
  OBVIOUS
<1> DEFINE i == Now.virt[depth]
           new == Done(Now)
<1>1. /\ phys # None /\ depth = Now.size
      /\ tables' = [tables EXCEPT ![pml][i] = [addr |-> phys, ps |-> PageSizeBit(Now)]]
      /\ mapped' = mapped \cup {new} /\ phys' = None /\ step' = step + 1
  BY DEF SetEntry, Walks, Here, Now
<1>2. UNCHANGED <<program, root, pool, pml, place>>
  BY DEF SetEntry
<1>3. /\ Now.virt \in Page /\ Now.size \in 1 .. 3 /\ Now.space \in Space
      /\ Now.op = "map" /\ step \in MapCalls(program) /\ pml \in DOMAIN tables
      /\ place[pml].space = Now.space /\ place[pml].depth = Now.size
      /\ Above(place[pml].page, Now.virt, Now.size) /\ i \in Index
  BY <1>1, WalkFacts
<1>4. /\ new \in Map1 /\ new.space = Now.space /\ new.virt = Now.virt
      /\ new.size = Now.size /\ new.phys = phys
  BY <1>1, <1>3 DEF Done, Map1, IInv, TypeInv
<1>5. Leaf(new) = [addr |-> phys, ps |-> PageSizeBit(Now)] /\ PageSizeBit(Now) \in BOOLEAN
  BY <1>4 DEF Leaf, PageSizeBit
<1> HIDE DEF new
<1>6. /\ DOMAIN tables' = DOMAIN tables /\ tables'[pml][i] = Leaf(new)
      /\ \A t \in DOMAIN tables, j \in Index :
           ~(t = pml /\ j = i) => tables'[t][j] = tables[t][j]
      /\ tables' \in [DOMAIN tables -> [Index -> Entries]]
  <2>1. tables \in [DOMAIN tables -> [Index -> Entries]] /\ phys \in Frame
    BY <1>1 DEF IInv, TypeInv
  <2> HIDE DEF i
  <2> QED BY <1>1, <1>3, <1>5, <2>1 DEF Entries
<1>7. \A t \in DOMAIN tables, j \in Index :
        tables[t][j] # None => tables'[t][j] = tables[t][j]
  BY <1>1, <1>6, EntryAbsent
<1>8. TypeInv'
  <2>1. mapped' \subseteq Map1 /\ phys' \in Frame \cup {None} /\ step' \in Nat \ {0}
    BY <1>1, <1>4 DEF IInv, TypeInv
  <2> QED BY <1>2, <1>6, <2>1 DEF IInv, TypeInv
<1>9. CallInv'
  <2>1. \A k \in MapCalls(program) : k >= step' => k >= step /\ k # step
    BY <1>1, ProgramAssumption DEF Proper, IInv, TypeInv, MapCalls
  <2>2. \A k \in MapCalls(program) : k >= step' => Separate(new, program[k])
    <3>1. \A k \in MapCalls(program) : k # step => Separate(Now, program[k])
      BY <1>3, ProgramAssumption DEF Proper, IInv, TypeInv, Now
    <3> QED BY <1>4, <2>1, <3>1 DEF Separate
  <2>3. \A k \in DOMAIN program : program[k].op = "root" => (k >= step <=> k >= step')
    BY <1>1, <1>3, ProgramAssumption DEF Proper, IInv, TypeInv, Now
  <2> QED BY <1>1, <1>2, <2>1, <2>2, <2>3 DEF IInv, CallInv, MapCalls
<1>10. WalkInv'
  BY <1>1 DEF WalkInv
<1>11. TreeInv'
  <2>1. ASSUME NEW t \in DOMAIN tables, NEW j, Link(tables, place, t, j)
        PROVE  Link(tables', place', t, j) /\ tables'[t][j] = tables[t][j]
    <3>1. tables'[t][j] = tables[t][j]
      BY <1>7, <2>1 DEF Link
    <3> QED BY <1>2, <1>6, <2>1, <3>1 DEF Link
  <2>2. EntriesLead(tables', place', mapped')
    <3> SUFFICES ASSUME NEW t \in DOMAIN tables, NEW j \in Index, tables'[t][j] # None
                 PROVE  \/ Link(tables', place', t, j)
                        \/ \E m \in mapped' : /\ For(place', t, m) /\ m.virt[m.size] = j
                                              /\ tables'[t][j] = Leaf(m)
      BY <1>6 DEF EntriesLead
    <3>1. CASE t = pml /\ j = i
      <4>1. For(place', pml, new) /\ new.virt[new.size] = i
        BY <1>1, <1>2, <1>3, <1>4 DEF For
      <4> QED BY <1>1, <1>6, <3>1, <4>1
    <3>2. CASE ~(t = pml /\ j = i)
      <4>1. tables'[t][j] = tables[t][j]
        BY <1>6, <3>2
      <4>2. \/ Link(tables, place, t, j)
            \/ \E m \in mapped : /\ For(place, t, m) /\ m.virt[m.size] = j
                                 /\ tables[t][j] = Leaf(m)
        BY <4>1 DEF IInv, TreeInv, Trees, EntriesLead
      <4> QED BY <1>1, <1>2, <2>1, <4>1, <4>2
    <3> QED BY <3>1, <3>2
  <2>3. MapsHaveEntries(tables', place', mapped')
    <3> SUFFICES ASSUME NEW m \in mapped'
                 PROVE  \E t \in DOMAIN tables : /\ For(place, t, m)
                                                 /\ tables'[t][m.virt[m.size]] = Leaf(m)
      BY <1>2, <1>6 DEF MapsHaveEntries
    <3>1. CASE m = new
      BY <1>1, <1>3, <1>4, <1>6, <3>1 DEF For
    <3>2. CASE m \in mapped
      <4>1. PICK t \in DOMAIN tables : For(place, t, m) /\ tables[t][m.virt[m.size]] = Leaf(m)
        BY <3>2 DEF IInv, TreeInv, Trees, MapsHaveEntries
      <4>2. Leaf(m) # None /\ m.virt[m.size] \in Index
        BY <3>2, LeafFacts DEF IInv
      <4> QED BY <1>7, <4>1, <4>2
    <3> QED BY <1>1, <3>1, <3>2
  <2>4. TablesServe(tables', place', root', Made')
    <3> SUFFICES ASSUME NEW t \in DOMAIN tables
                 PROVE  IF place[t].depth = 4 THEN t = root[place[t].space]
                        ELSE /\ \E u \in DOMAIN tables : Parent(tables', place', t, u)
                             /\ \E m \in Made' : Serves(place', t, m)
      BY <1>2, <1>6 DEF TablesServe
    <3>1. CASE place[t].depth = 4
      BY <3>1 DEF IInv, TreeInv, Trees, TablesServe
    <3>2. CASE place[t].depth # 4
      <4>1. PICK u \in DOMAIN tables : Parent(tables, place, t, u)
        BY <3>2 DEF IInv, TreeInv, Trees, TablesServe
      <4>2. Parent(tables', place', t, u)
        BY <1>2, <2>1, <4>1 DEF Parent
      <4>3. PICK m \in Made : Serves(place, t, m)
        BY <3>2 DEF IInv, TreeInv, Trees, TablesServe
      <4>4. \E n \in Made' : Serves(place', t, n)
        <5>1. CASE m = Now
          BY <1>1, <1>2, <1>4, <4>3, <5>1 DEF Serves, Made
        <5>2. CASE m \in mapped
          BY <1>1, <1>2, <4>3, <5>2 DEF Made
        <5> QED BY <1>1, <5>1, <5>2 DEF Made
      <4> QED BY <3>2, <4>2, <4>4
    <3> QED BY <3>1, <3>2
  <2>5. RootsOnTop(tables', place', root')
    BY <1>2, <1>6 DEF IInv, RootsOnTop, TreeInv, Trees
  <2> QED BY <2>2, <2>3, <2>4, <2>5 DEF TreeInv, Trees
<1> QED BY <1>8, <1>9, <1>10, <1>11 DEF IInv
-----------------------------------------------------------------------------
LEMMA NextIInv == IInv /\ [Next]_vars => IInv'
<1> SUFFICES ASSUME IInv, [Next]_vars PROVE IInv'
  OBVIOUS
<1>1. CASE Next
  BY <1>1, MakeRootStep, LoadStep, MapStep, DescendStep, CreateStep, OutOfMemoryStep,
     SetEntryStep DEF Next
<1>2. CASE UNCHANGED vars
  <2>1. TypeInv' /\ CallInv' /\ WalkInv'
    BY <1>2 DEF IInv, TypeInv, CallInv, WalkInv, MapCalls, Now, vars, walk, Entries
  <2>2. TreeInv'
    BY <1>2, QuietTrees DEF IInv, vars, walk, Made, Now
  <2> QED BY <2>1, <2>2 DEF IInv
<1> QED BY <1>1, <1>2

\* The tables of both spaces are trees in every state, and the walk in
\* progress stands at a table made for the page it maps.
THEOREM TreesInvariant == Spec => []IInv
<1> QED BY InitIInv, NextIInv, PTL DEF Spec
-----------------------------------------------------------------------------
(* What the processor makes of the trees. *)

\* Table t was made for page v, and v's next index is looked up in it.
At(s, v, d, t) == /\ t \in DOMAIN tables
                  /\ place[t].space = s /\ place[t].depth = d
                  /\ Above(place[t].page, v, d)

LEMMA NoneIsNoTable ==
  ASSUME TypeInv
  PROVE  None \notin DOMAIN tables /\ \A i : Follow(None, i) = None
BY PoolAssumption DEF TypeInv, Follow

\* The table above one for a page leads to it and is for the page, too.
LEMMA Climb ==
  ASSUME IInv, NEW s \in Space, NEW v \in Page, NEW d \in 1 .. 3, NEW t, At(s, v, d, t)
  PROVE  \E u : At(s, v, d + 1, u) /\ Follow(u, v[d + 1]) = t
<1>1. PICK u \in DOMAIN tables : Parent(tables, place, t, u)
  BY DEF At, IInv, TreeInv, Trees, TablesServe
<1>2. place[t].page[d + 1] = v[d + 1]
  BY DEF At, Above
<1>3. Link(tables, place, u, v[d + 1]) /\ tables[u][v[d + 1]].addr = t
  BY <1>1, <1>2 DEF Parent, At
<1>4. /\ tables[u][v[d + 1]] # None /\ ~tables[u][v[d + 1]].ps
      /\ place[u].space = s /\ place[u].depth = d + 1
      /\ Above(place[t].page, place[u].page, d + 1)
  <2>1. place[u].depth \in Depth
    BY DEF IInv, TypeInv
  <2> QED BY <1>3, <2>1 DEF Link, At, Depth
<1>5. Above(place[u].page, v, d + 1)
  BY <1>4 DEF Above, At
<1>6. Follow(u, v[d + 1]) = t
  BY <1>1, <1>3, <1>4 DEF Follow
<1> QED BY <1>1, <1>4, <1>5, <1>6 DEF At

\* So the processor consults the tables made for a page.
LEMMA ConsultedTable ==
  ASSUME IInv, NEW s \in Space, NEW v \in Page, NEW d \in Depth, NEW t, At(s, v, d, t)
  PROVE  Consulted(s, v)[d] = t
<1>1. ASSUME NEW u, At(s, v, 4, u)
      PROVE  Consulted(s, v)[4] = u
  BY <1>1 DEF At, IInv, TreeInv, Trees, TablesServe, Consulted
<1>2. ASSUME NEW u, At(s, v, 3, u)
      PROVE  Consulted(s, v)[3] = u
  <2>1. PICK w : At(s, v, 4, w) /\ Follow(w, v[4]) = u
    BY <1>2, Climb
  <2> QED BY <1>1, <2>1 DEF Consulted
<1>3. ASSUME NEW u, At(s, v, 2, u)
      PROVE  Consulted(s, v)[2] = u
  <2>1. PICK w : At(s, v, 3, w) /\ Follow(w, v[3]) = u
    BY <1>3, Climb
  <2> QED BY <1>2, <2>1 DEF Consulted
<1>4. ASSUME NEW u, At(s, v, 1, u)
      PROVE  Consulted(s, v)[1] = u
  <2>1. PICK w : At(s, v, 2, w) /\ Follow(w, v[2]) = u
    BY <1>4, Climb
  <2> QED BY <1>3, <2>1 DEF Consulted
<1> QED BY <1>1, <1>2, <1>3, <1>4 DEF Depth

\* If a table's entry leads nowhere, the entry is the translation.
LEMMA LastEntry ==
  ASSUME IInv, NEW s \in Space, NEW v \in Page, NEW d \in Depth, NEW t, At(s, v, d, t),
         d > 1 => Follow(t, v[d]) = None
  PROVE  Translation(s, v) = IF tables[t][v[d]] = None THEN None
                             ELSE [phys |-> tables[t][v[d]].addr, size |-> d]
<1> DEFINE c == Consulted(s, v)
<1>1. c[d] = t /\ t # None /\ t \in DOMAIN tables
  BY ConsultedTable, NoneIsNoTable DEF At, IInv
<1>2. \A b \in 1 .. (d - 1) : c[b] = None
  <2>1. /\ c[3] = Follow(c[4], v[4]) /\ c[2] = Follow(c[3], v[3])
        /\ c[1] = Follow(c[2], v[2])
    BY DEF Consulted
  <2> HIDE DEF c
  <2> QED BY <1>1, <2>1, NoneIsNoTable DEF Depth, IInv
<1> HIDE DEF c
<1>3. d = CHOOSE e \in Depth : c[e] # None /\ \A b \in 1 .. (e - 1) : c[b] = None
  <2>1. \A e \in Depth : c[e] # None /\ (\A b \in 1 .. (e - 1) : c[b] = None) => e = d
    BY <1>1, <1>2 DEF Depth
  <2> QED BY <1>1, <1>2, <2>1
<1> DEFINE result(e) == IF c[e] \notin DOMAIN tables THEN Astray
                        ELSE IF tables[c[e]][v[e]] = None THEN None
                        ELSE [phys |-> tables[c[e]][v[e]].addr, size |-> e]
<1>4. Translation(s, v) =
        result(CHOOSE e \in Depth : c[e] # None /\ \A b \in 1 .. (e - 1) : c[b] = None)
  BY DEF Translation, c
<1>5. result(d) = IF tables[t][v[d]] = None THEN None
                  ELSE [phys |-> tables[t][v[d]].addr, size |-> d]
  BY <1>1
<1> HIDE DEF result
<1> QED BY <1>3, <1>4, <1>5

LEMMA MapTakesEffect ==
  ASSUME IInv, NEW m \in mapped
  PROVE  TakesEffect(m)
<1>1. m.space \in Space /\ m.virt \in Page /\ m.size \in 1 .. 3
  BY DEF IInv, TypeInv, Map1
<1>2. PICK t \in DOMAIN tables : For(place, t, m) /\ tables[t][m.virt[m.size]] = Leaf(m)
  BY DEF IInv, TreeInv, Trees, MapsHaveEntries
<1>3. At(m.space, m.virt, m.size, t)
  BY <1>2 DEF For, At
<1>4. /\ Leaf(m) # None /\ Leaf(m).addr = m.phys
      /\ m.size # 1 => (Leaf(m).ps <=> ~Unsized(m))
  <2>1. m.size # 1 => (PageSizeBit(m) <=> ~Unsized(m))
    BY <1>1 DEF PageSizeBit, Unsized, Space
  <2> QED BY <2>1, LeafFacts DEF Leaf, IInv
<1>5. CASE Unsized(m)
  <2>1. m.size \in {2, 3} /\ Follow(t, m.virt[m.size]) = m.phys
    BY <1>1, <1>2, <1>4, <1>5 DEF Unsized, Follow
  <2>2. Consulted(m.space, m.virt)[m.size] = t
    BY <1>1, <1>3, ConsultedTable DEF Depth
  <2>3. Consulted(m.space, m.virt)[m.size - 1] = Follow(t, m.virt[m.size])
    BY <2>1, <2>2 DEF Consulted
  <2> QED BY <1>5, <2>1, <2>3 DEF TakesEffect
<1>6. CASE ~Unsized(m)
  <2>1. m.size > 1 => Follow(t, m.virt[m.size]) = None
    BY <1>1, <1>2, <1>4, <1>6 DEF Follow
  <2>2. Translation(m.space, m.virt) = [phys |-> m.phys, size |-> m.size]
    BY <1>1, <1>2, <1>3, <1>4, <2>1, LastEntry DEF Depth
  <2> QED BY <1>6, <2>2 DEF TakesEffect
<1> QED BY <1>5, <1>6

\* The pages an entry leads to: a table below, a map, or nothing.
LEMMA Lookup ==
  ASSUME IInv, NEW s \in Space, NEW v \in Page, NEW d \in Depth, NEW t, At(s, v, d, t)
  PROVE  \/ tables[t][v[d]] = None
         \/ d > 1 /\ \E u : At(s, v, d - 1, u)
         \/ \E m \in mapped : m.space = s /\ Within(v, m.virt, m.size)
<1>1. v[d] \in Index
  BY DEF Page
<1>2. CASE Link(tables, place, t, v[d])
  <2> DEFINE u == tables[t][v[d]].addr
  <2>1. /\ u \in DOMAIN tables /\ place[u].space = s /\ d > 1 /\ place[u].depth = d - 1
        /\ place[u].page[d] = v[d] /\ Above(place[u].page, place[t].page, d)
    BY <1>2 DEF Link, At
  <2> HIDE DEF u
  <2>2. Above(place[u].page, v, d - 1)
    BY <2>1 DEF Above, At, Depth
  <2> QED BY <2>1, <2>2 DEF At
<1>3. ASSUME NEW m \in mapped, For(place, t, m), m.virt[m.size] = v[d]
      PROVE  m.space = s /\ Within(v, m.virt, m.size)
  <2>1. m.space = s /\ m.size = d /\ Above(place[t].page, m.virt, d)
    BY <1>3 DEF For, At
  <2> QED BY <1>3, <2>1 DEF Within, Above, At, Depth
<1> QED BY <1>1, <1>2, <1>3 DEF At, IInv, TreeInv, Trees, EntriesLead

LEMMA NothingElseFound ==
  ASSUME IInv, root["kernel"] # None, NEW v \in Page
  PROVE  \/ Translation("kernel", v) = None
         \/ \E m \in mapped : m.space = "kernel" /\ Within(v, m.virt, m.size)
<1> SUFFICES ASSUME ~\E m \in mapped : m.space = "kernel" /\ Within(v, m.virt, m.size)
             PROVE  Translation("kernel", v) = None
  OBVIOUS
<1> DEFINE Found(d) == \E t : At("kernel", v, d, t)
<1>1. Found(4)
  BY DEF At, Above, IInv, TreeInv, Trees, RootsOnTop, Space
<1>2. ASSUME NEW d \in Depth, Found(d)
      PROVE  Translation("kernel", v) = None \/ (d > 1 /\ Found(d - 1))
  <2>1. PICK t : At("kernel", v, d, t)
    BY <1>2
  <2>2. "kernel" \in Space
    BY DEF Space
  <2>3. CASE tables[t][v[d]] = None
    <3>1. Follow(t, v[d]) = None
      BY <2>3 DEF Follow
    <3> QED BY <2>1, <2>2, <2>3, <3>1, LastEntry
  <2> QED BY <2>1, <2>2, <2>3, Lookup
<1> HIDE DEF Found
<1>3. Translation("kernel", v) = None \/ Found(3)
  BY <1>1, <1>2 DEF Depth
<1>4. Translation("kernel", v) = None \/ Found(2)
  BY <1>2, <1>3 DEF Depth
<1>5. Translation("kernel", v) = None \/ Found(1)
  BY <1>2, <1>4 DEF Depth
<1> QED BY <1>2, <1>5 DEF Depth

\* The processor finds each page where map() put it (paging.cpp:48-67,
\* page_flags.hpp:69-82), whatever else is mapped in whatever order, except
\* for the large pages at index 1, whose bit paging.cpp:64 leaves out.
THEOREM MapsStay == Spec => []MapsTakeEffect
<1>1. ASSUME IInv PROVE MapsTakeEffect
  BY <1>1, MapTakesEffect DEF MapsTakeEffect
<1> QED BY <1>1, TreesInvariant, PTL

\* The kernel's tables lead to what was mapped and to nothing else: no walk
\* leaves an entry of another page behind, and new tables start empty.
THEOREM NothingElseMapped == Spec => []NothingElse
<1>1. IInv => NothingElse
  BY NothingElseFound DEF NothingElse
<1> QED BY <1>1, TreesInvariant, PTL
-----------------------------------------------------------------------------
(* Addresses. *)

\* The whole and the rest of a division are the only ones that fit.
LEMMA Quotient ==
  ASSUME NEW p \in Nat \ {0}, NEW q \in Nat, NEW r \in 0 .. (p - 1)
  PROVE  (p * q + r) \div p = q /\ (p * q + r) % p = r
<1> DEFINE x == p * q + r
<1>1. x \in Nat /\ x = p * (x \div p) + (x % p) /\ x % p \in 0 .. (p - 1) /\ x \div p \in Nat
  <2>1. p * q \in Nat
    OBVIOUS
  <2>2. x \in Nat
    BY <2>1
  <2> HIDE DEF x
  <2> QED BY <2>2
<1> DEFINE y == x \div p
           z == x % p
<1>2. y \in Nat /\ z \in 0 .. (p - 1) /\ p * y + z = p * q + r
  BY <1>1
<1> HIDE DEF x, y, z
<1>3. p * (y - q) = r - z
  BY <1>2
<1>4. ~(y - q >= 1)
  <2> SUFFICES ASSUME y - q >= 1 PROVE FALSE
    OBVIOUS
  <2>1. p * (y - q) >= p
    BY <1>2
  <2> QED BY <1>2, <1>3, <2>1
<1>5. ~(q - y >= 1)
  <2> SUFFICES ASSUME q - y >= 1 PROVE FALSE
    OBVIOUS
  <2>1. p * (q - y) >= p
    BY <1>2
  <2>2. p * (q - y) = z - r
    BY <1>2
  <2> QED BY <1>2, <2>1, <2>2
<1>6. y = q
  BY <1>2, <1>4, <1>5
<1>7. z = r
  BY <1>2, <1>3, <1>6
<1> QED BY <1>6, <1>7 DEF x, y, z

LEMMA Division ==
  ASSUME NEW p \in Nat \ {0}, NEW x \in Nat
  PROVE  x \div p \in Nat /\ x % p \in 0 .. (p - 1) /\ x = p * (x \div p) + (x % p)
OBVIOUS

\* Dividing twice.
LEMMA DivideTwice ==
  ASSUME NEW a \in Nat \ {0}, NEW b \in Nat \ {0}, NEW x \in Nat
  PROVE  (x \div a) \div b = x \div (a * b)
<1> DEFINE y == x \div a
           r == x % a
           z == y \div b
           s == y % b
<1>1. y \in Nat /\ r \in 0 .. (a - 1) /\ x = a * y + r
  BY Division
<1> HIDE DEF y, r
<1>2. z \in Nat /\ s \in 0 .. (b - 1) /\ y = b * z + s
  BY <1>1, Division
<1> HIDE DEF z, s
<1>3. a * b \in Nat \ {0}
  OBVIOUS
<1>4. a * s + r \in 0 .. (a * b - 1)
  <2>1. a * s <= a * (b - 1)
    BY <1>2
  <2>2. a * (b - 1) = a * b - a
    OBVIOUS
  <2>3. a * s \in Nat
    BY <1>2
  <2> QED BY <1>1, <1>3, <2>1, <2>2, <2>3
<1>5. x = (a * b) * z + (a * s + r)
  BY <1>1, <1>2
<1>6. x \div (a * b) = z
  <2> DEFINE p == a * b
             t == a * s + r
  <2>1. p \in Nat \ {0} /\ t \in 0 .. (p - 1) /\ x = p * z + t
    BY <1>3, <1>4, <1>5
  <2> HIDE DEF p, t
  <2>2. x \div p = z
    BY <1>2, <2>1, Quotient
  <2> QED BY <2>2 DEF p
<1> QED BY <1>6 DEF y, z

\* The pages of each size: one of the next size has F of them.
LEMMA Pages ==
  /\ F \in Nat \ {0} /\ Index = 0 .. (F - 1) /\ GiB \in Nat \ {0}
  /\ \A d \in Depth : PagesOf(d) \in Nat \ {0}
  /\ \A d \in 1 .. 3 : PagesOf(d + 1) = PagesOf(d) * F
  /\ PagesOf(1) = 1 /\ PagesOf(2) = F /\ PagesOf(3) = GiB /\ Top \in Nat /\ Top = PagesOf(4) * F
<1>1. F \in Nat \ {0} /\ Index = 0 .. (F - 1)
  BY LayoutAssumption
<1> DEFINE g == F * F
           h == F * F * F
<1>2. g \in Nat \ {0} /\ h \in Nat \ {0}
  BY <1>1
<1>3. PagesOf(1) = 1 /\ PagesOf(2) = F /\ PagesOf(3) = g /\ PagesOf(4) = h
  BY DEF PagesOf
<1>4. GiB = g
  BY <1>3 DEF GiB
<1>5. \A d \in Depth : PagesOf(d) \in Nat \ {0}
  BY <1>1, <1>2, <1>3 DEF Depth
<1>6. \A d \in 1 .. 3 : PagesOf(d + 1) = PagesOf(d) * F
  BY <1>1, <1>3
<1>7. Top \in Nat /\ Top = PagesOf(4) * F
  <2>1. h * F \in Nat
    <3> HIDE DEF h
    <3> QED BY <1>1, <1>2
  <2> QED BY <1>3, <2>1 DEF Top
<1> QED BY <1>1, <1>2, <1>3, <1>4, <1>5, <1>6, <1>7

LEMMA PagePages == ASSUME NEW d \in 1 .. 3 PROVE d \in Depth /\ PagesOf(d) \in Nat \ {0}
<1>1. d \in Depth
  BY DEF Depth
<1> QED BY <1>1, Pages

\* Each size is a number of pages of a smaller one.
LEMMA NextQuotient ==
  ASSUME NEW n \in Nat, NEW d \in 1 .. 3
  PROVE  n \div PagesOf(d + 1) = (n \div PagesOf(d)) \div F
<1> DEFINE p == PagesOf(d)
<1>1. p \in Nat \ {0} /\ F \in Nat \ {0} /\ PagesOf(d + 1) = p * F
  <2>1. d \in Depth
    BY DEF Depth
  <2> QED BY <2>1, Pages
<1> HIDE DEF p
<1>2. (n \div p) \div F = n \div (p * F)
  BY <1>1, DivideTwice
<1> QED BY <1>1, <1>2 DEF p

LEMMA ToPageIsPage == ASSUME NEW n \in Nat PROVE ToPage(n) \in Page
<1> SUFFICES ASSUME NEW d \in Depth PROVE (n \div PagesOf(d)) % F \in Index
  BY DEF ToPage, Page
<1>1. n \div PagesOf(d) \in Nat
  BY Pages, Division
<1> DEFINE q == n \div PagesOf(d)
<1>2. q \in Nat /\ F \in Nat \ {0} /\ Index = 0 .. (F - 1)
  BY <1>1, Pages
<1> HIDE DEF q
<1>3. q % F \in Index
  BY <1>2, Division
<1> QED BY <1>3 DEF q

\* Pages that are in one page of size d have the same indices from d on.
LEMMA SameAbove ==
  ASSUME NEW x \in Nat, NEW y \in Nat, NEW d \in Depth, x \div PagesOf(d) = y \div PagesOf(d)
  PROVE  Within(ToPage(x), ToPage(y), d)
<1> DEFINE Same(e) == x \div PagesOf(e) = y \div PagesOf(e)
<1>1. \A e \in 1 .. 3 : Same(e) => Same(e + 1)
  BY NextQuotient
<1>2. \A e \in d .. 4 : Same(e)
  <2>1. Same(d)
    OBVIOUS
  <2> HIDE DEF Same
  <2> QED BY <1>1, <2>1 DEF Depth
<1> QED BY <1>2 DEF Within, ToPage, Depth

\* And the other way round.
LEMMA SameBelow ==
  ASSUME NEW x \in Reachable, NEW y \in Reachable, NEW d \in Depth,
         Within(ToPage(x), ToPage(y), d)
  PROVE  x \div PagesOf(d) = y \div PagesOf(d)
<1> DEFINE Same(e) == x \div PagesOf(e) = y \div PagesOf(e)
<1>0. x \in Nat /\ y \in Nat
  BY Pages DEF Reachable
<1>1. \A e \in d .. 4 : (x \div PagesOf(e)) % F = (y \div PagesOf(e)) % F
  <2> TAKE e \in d .. 4
  <2>1. e \in Depth /\ ToPage(x)[e] = ToPage(y)[e]
    BY DEF Within, Depth
  <2> QED BY <2>1 DEF ToPage
<1>2. ASSUME NEW n \in Reachable
      PROVE  (n \div PagesOf(4)) % F = n \div PagesOf(4)
  <2> DEFINE p == PagesOf(4)
             q == n \div p
  <2>0. p \in Nat \ {0} /\ F \in Nat \ {0} /\ p * F = Top
    BY Pages DEF Depth
  <2>1. n \in Nat /\ p \in Nat \ {0} /\ F \in Nat \ {0} /\ n < p * F
    <3> HIDE DEF p
    <3> QED BY <2>0, Pages DEF Reachable
  <2>2. q \in Nat /\ n >= p * q
    <3> HIDE DEF p
    <3>1. q \in Nat /\ n % p \in 0 .. (p - 1) /\ n = p * q + (n % p)
      BY <2>1, Division
    <3> HIDE DEF q
    <3> QED BY <2>1, <3>1
  <2> HIDE DEF q, p
  <2>3. q < F
    <3> SUFFICES ASSUME q >= F PROVE FALSE
      BY <2>1, <2>2
    <3>1. p * q >= p * F
      BY <2>1, <2>2
    <3>2. p * F \in Nat /\ p * q \in Nat
      BY <2>1, <2>2
    <3> QED BY <2>1, <2>2, <3>1, <3>2
  <2> QED BY <2>1, <2>2, <2>3 DEF p, q
<1>3. Same(4)
  BY <1>1, <1>2 DEF Depth
<1>4. \A e \in 1 .. 3 : e \in d .. 4 /\ Same(e + 1) => Same(e)
  <2> TAKE e \in 1 .. 3
  <2> HAVE e \in d .. 4 /\ Same(e + 1)
  <2> DEFINE u == x \div PagesOf(e)
             v == y \div PagesOf(e)
  <2>1. u \div F = v \div F
    <3>1. u \div F = x \div PagesOf(e + 1) /\ v \div F = y \div PagesOf(e + 1)
      BY <1>0, NextQuotient
    <3>2. x \div PagesOf(e + 1) = y \div PagesOf(e + 1)
      OBVIOUS
    <3> QED BY <3>1, <3>2
  <2>2. u % F = v % F
    BY <1>1
  <2>3. u \in Nat /\ v \in Nat
    <3>1. e \in Depth
      BY DEF Depth
    <3>2. PagesOf(e) \in Nat \ {0}
      BY <3>1, Pages
    <3> QED BY <1>0, <3>2, Division
  <2>4. u = F * (u \div F) + (u % F) /\ v = F * (v \div F) + (v % F)
    BY <2>3, Pages, Division
  <2> QED BY <2>1, <2>2, <2>4
<1> HIDE DEF Same
<1>5. Same(d)
  BY <1>3, <1>4 DEF Depth
<1> QED BY <1>5 DEF Same
-----------------------------------------------------------------------------
(* The calls that booting makes. *)

\* The place of a call in the order of booting: the boot loader's tables, the
\* kernel's root, its maps, loading them, the heap.
Stage(call) == IF call.op = "root" THEN 2 ELSE IF call.op = "load" THEN 4
               ELSE IF call.space = "boot" THEN 1 ELSE IF call.phys # None THEN 3 ELSE 5

Staged(calls, first, last) ==
  /\ calls \in Seq(Call)
  /\ \A k \in DOMAIN calls : Stage(calls[k]) \in first .. last
  /\ \A j, k \in DOMAIN calls : j < k =>
       /\ Stage(calls[j]) <= Stage(calls[k])
       /\ Stage(calls[j]) # 2 \/ Stage(calls[k]) # 2

LEMMA Joined ==
  ASSUME NEW X, NEW s \in Seq(X), NEW t \in Seq(X)
  PROVE  /\ s \o t \in Seq(X)
         /\ \A k \in DOMAIN s : k \in DOMAIN (s \o t) /\ (s \o t)[k] = s[k]
         /\ \A k \in DOMAIN t : k + Len(s) \in DOMAIN (s \o t) /\ (s \o t)[k + Len(s)] = t[k]
         /\ \A k \in DOMAIN (s \o t) :
              \/ k \in DOMAIN s /\ (s \o t)[k] = s[k]
              \/ k - Len(s) \in DOMAIN t /\ (s \o t)[k] = t[k - Len(s)] /\ k > Len(s)
OBVIOUS

LEMMA StagedJoin ==
  ASSUME NEW s, NEW t, NEW a \in Nat, NEW b \in Nat, NEW c \in Nat, NEW d \in Nat,
         Staged(s, a, b), Staged(t, c, d), a <= b, b <= c, c <= d, b # 2 \/ c # 2
  PROVE  Staged(s \o t, a, d)
<1> DEFINE u == s \o t
<1>1. s \in Seq(Call) /\ t \in Seq(Call)
  BY DEF Staged
<1>2. /\ u \in Seq(Call)
      /\ \A k \in DOMAIN u :
           \/ k \in DOMAIN s /\ u[k] = s[k]
           \/ k - Len(s) \in DOMAIN t /\ u[k] = t[k - Len(s)] /\ k > Len(s)
  BY <1>1, Joined
<1> HIDE DEF u
<1>3. \A k \in DOMAIN u : Stage(u[k]) \in a .. d
  BY <1>2 DEF Staged
<1>4. ASSUME NEW j \in DOMAIN u, NEW k \in DOMAIN u, j < k
      PROVE  Stage(u[j]) <= Stage(u[k]) /\ (Stage(u[j]) # 2 \/ Stage(u[k]) # 2)
  <2>0. DOMAIN s = 1 .. Len(s) /\ Len(s) \in Nat /\ j \in Nat /\ k \in Nat
    BY <1>1, <1>2
  <2>1. CASE j \in DOMAIN s /\ u[j] = s[j] /\ k \in DOMAIN s /\ u[k] = s[k]
    BY <1>4, <2>1 DEF Staged
  <2>2. CASE /\ j \in DOMAIN s /\ u[j] = s[j]
             /\ k - Len(s) \in DOMAIN t /\ u[k] = t[k - Len(s)]
    BY <2>2 DEF Staged
  <2>3. CASE /\ j - Len(s) \in DOMAIN t /\ u[j] = t[j - Len(s)]
             /\ k - Len(s) \in DOMAIN t /\ u[k] = t[k - Len(s)]
    <3>1. j - Len(s) < k - Len(s)
      BY <1>4, <2>0
    <3> QED BY <2>3, <3>1 DEF Staged
  <2>4. CASE j > Len(s) /\ k \in DOMAIN s
    BY <1>4, <2>0, <2>4
  <2> QED BY <1>2, <2>1, <2>2, <2>3, <2>4
<1>5. Staged(u, a, d)
  BY <1>2, <1>3, <1>4 DEF Staged
<1> QED BY <1>5 DEF u

\* The pages that a call maps, by number.
Cells(call) == { cell \in Space \X Reachable :
                   cell[1] = call.space /\ Within(ToPage(cell[2]), call.virt, call.size) }

\* The calls map different pages, all in Z.
Fits(calls, Z) ==
  /\ calls \in Seq(Call)
  /\ \A k \in MapCalls(calls) : /\ Cells(calls[k]) \subseteq Z
                                /\ \E n \in Reachable : calls[k].virt = ToPage(n)
  /\ \A j, k \in MapCalls(calls) : j # k => Cells(calls[j]) \cap Cells(calls[k]) = {}

LEMMA FitsJoin ==
  ASSUME NEW s, NEW t, NEW Y, NEW Z, Fits(s, Y), Fits(t, Z), Y \cap Z = {}
  PROVE  Fits(s \o t, Y \cup Z)
<1> DEFINE u == s \o t
<1>1. s \in Seq(Call) /\ t \in Seq(Call)
  BY DEF Fits
<1>2. /\ u \in Seq(Call)
      /\ \A k \in DOMAIN u :
           \/ k \in DOMAIN s /\ u[k] = s[k]
           \/ k - Len(s) \in DOMAIN t /\ u[k] = t[k - Len(s)] /\ k > Len(s)
  BY <1>1, Joined
<1> HIDE DEF u
<1>3. \A k \in MapCalls(u) : \/ k \in MapCalls(s) /\ u[k] = s[k]
                             \/ k - Len(s) \in MapCalls(t) /\ u[k] = t[k - Len(s)]
  BY <1>2 DEF MapCalls
<1>4. \A k \in MapCalls(u) : /\ Cells(u[k]) \subseteq Y \cup Z
                             /\ \E n \in Reachable : u[k].virt = ToPage(n)
  BY <1>3 DEF Fits
<1>5. ASSUME NEW j \in MapCalls(u), NEW k \in MapCalls(u), j # k
      PROVE  Cells(u[j]) \cap Cells(u[k]) = {}
  <2>1. CASE j \in MapCalls(s) /\ u[j] = s[j] /\ k \in MapCalls(s) /\ u[k] = s[k]
    BY <1>5, <2>1 DEF Fits
  <2>2. CASE /\ j - Len(s) \in MapCalls(t) /\ u[j] = t[j - Len(s)]
             /\ k - Len(s) \in MapCalls(t) /\ u[k] = t[k - Len(s)]
    <3>1. j - Len(s) # k - Len(s)
      BY <1>1, <1>2, <1>5 DEF MapCalls
    <3> HIDE DEF Cells
    <3> QED BY <2>2, <3>1 DEF Fits
  <2>3. CASE /\ j \in MapCalls(s) /\ u[j] = s[j]
             /\ k - Len(s) \in MapCalls(t) /\ u[k] = t[k - Len(s)]
    <3>1. Cells(u[j]) \subseteq Y /\ Cells(u[k]) \subseteq Z
      BY <2>3 DEF Fits
    <3> QED BY <3>1
  <2>4. CASE /\ k \in MapCalls(s) /\ u[k] = s[k]
             /\ j - Len(s) \in MapCalls(t) /\ u[j] = t[j - Len(s)]
    <3>1. Cells(u[k]) \subseteq Y /\ Cells(u[j]) \subseteq Z
      BY <2>4 DEF Fits
    <3> QED BY <3>1
  <2> QED BY <1>3, <2>1, <2>2, <2>3, <2>4
<1>6. Fits(u, Y \cup Z)
  BY <1>2, <1>4, <1>5 DEF Fits
<1> QED BY <1>6 DEF u

\* Calls that map different numbers map different pages.
LEMMA CellsApart ==
  ASSUME NEW a, NEW b, a.space \in Space, Cells(a) \cap Cells(b) = {},
         NEW m \in Reachable, a.virt = ToPage(m), NEW n \in Reachable, b.virt = ToPage(n)
  PROVE  Separate(a, b)
<1>1. Within(a.virt, a.virt, a.size) /\ Within(b.virt, b.virt, b.size)
  BY DEF Within
<1>2. /\ <<a.space, m>> \in Cells(a)
      /\ a.space = b.space => <<b.space, n>> \in Cells(b)
  BY <1>1 DEF Cells
<1>3. ASSUME a.space = b.space, Within(a.virt, b.virt, b.size) PROVE FALSE
  <2>1. <<a.space, m>> \in Cells(b)
    BY <1>3 DEF Cells
  <2> QED BY <1>2, <2>1
<1>4. ASSUME a.space = b.space, Within(a.virt, b.virt, a.size) PROVE FALSE
  <2>1. Within(b.virt, a.virt, a.size)
    BY <1>4 DEF Within
  <2>2. <<b.space, n>> \in Cells(a)
    BY <1>4, <2>1 DEF Cells
  <2> QED BY <1>2, <1>4, <2>2
<1> QED BY <1>3, <1>4 DEF Separate

\* A page that begins at a multiple of its size holds the numbers from there.
LEMMA CellsOf ==
  ASSUME NEW a, a.space \in Space, NEW n \in Reachable, a.virt = ToPage(n), a.size \in 1 .. 3,
         n % PagesOf(a.size) = 0
  PROVE  Cells(a) \subseteq {a.space} \X (n .. (n + PagesOf(a.size) - 1))
<1> SUFFICES ASSUME NEW m \in Reachable, Within(ToPage(m), a.virt, a.size)
             PROVE  m \in n .. (n + PagesOf(a.size) - 1)
  BY DEF Cells
<1> DEFINE p == PagesOf(a.size)
<1>1. p \in Nat \ {0} /\ m \in Nat /\ n \in Nat /\ a.size \in Depth
  <2>1. a.size \in Depth
    BY DEF Depth
  <2>2. m \in Nat /\ n \in Nat
    BY DEF Reachable
  <2> QED BY <2>1, <2>2, Pages
<1>2. m \div p = n \div p
  BY <1>1, SameBelow
<1> HIDE DEF p
<1>3. m % p \in 0 .. (p - 1) /\ m = p * (m \div p) + (m % p) /\ m \div p \in Nat
  BY <1>1, Division
<1>4. n = p * (n \div p) + (n % p)
  BY <1>1, Division
<1>5. n % p = 0
  BY DEF p
<1> DEFINE w == p * (n \div p)
           r == m % p
<1>6. m = w + r /\ n = w + 0 /\ r \in 0 .. (p - 1) /\ w \in Nat
  BY <1>1, <1>2, <1>3, <1>4, <1>5
<1> HIDE DEF w, r
<1>7. m \in n .. (n + p - 1)
  BY <1>1, <1>6
<1> QED BY <1>7 DEF p

LEMMA OneCall ==
  ASSUME NEW sp \in Space, NEW x \in Nat, NEW to \in Frame \cup {None}, NEW d \in 1 .. 3
  PROVE  /\ MapCall(sp, x, to, d) \in Call
         /\ MapCall(sp, x, to, d).op = "map" /\ MapCall(sp, x, to, d).space = sp
         /\ MapCall(sp, x, to, d).virt = ToPage(x) /\ MapCall(sp, x, to, d).phys = to
         /\ MapCall(sp, x, to, d).size = d
BY ToPageIsPage DEF MapCall, Call

\* The beginnings of pages that lie one after the other.
LEMMA RowOfPages ==
  ASSUME NEW p \in Nat \ {0}, NEW n \in Nat, NEW x \in Nat, NEW k \in 1 .. n
  PROVE  /\ x + (k - 1) * p \in Nat /\ x + (k - 1) * p >= x
         /\ x + (k - 1) * p + p <= x + n * p
         /\ x % p = 0 => (x + (k - 1) * p) % p = 0
         /\ \A j \in 1 .. n : j < k => x + (j - 1) * p + p <= x + (k - 1) * p
<1> DEFINE y == (k - 1) * p
           z == n * p
<1>1. y \in Nat /\ y + p <= z
  <2>1. k * p + (n - k) * p = z /\ (n - k) * p \in Nat /\ k * p \in Nat
    OBVIOUS
  <2>2. y \in Nat /\ y + p = k * p
    OBVIOUS
  <2> HIDE DEF y, z
  <2> QED BY <2>1, <2>2
<1>2. ASSUME x % p = 0
      PROVE  (x + y) % p = 0
  <2> DEFINE w == x \div p
  <2>1. w \in Nat /\ x = p * w + 0
    BY <1>2, Division
  <2> HIDE DEF w
  <2> DEFINE q == w + k - 1
  <2>2. q \in Nat /\ x + y = p * q + 0 /\ 0 \in 0 .. (p - 1)
    BY <2>1
  <2> HIDE DEF q, y
  <2>3. (p * q + 0) % p = 0
    BY <2>2, Quotient
  <2> QED BY <2>2, <2>3
<1>3. ASSUME NEW j \in 1 .. n, j < k
      PROVE  x + (j - 1) * p + p <= x + y
  <2> DEFINE u == (j - 1) * p
  <2>1. u + p = j * p /\ u \in Nat
    OBVIOUS
  <2>2. y - j * p = (k - 1 - j) * p
    OBVIOUS
  <2>3. (k - 1 - j) * p >= 0 /\ j * p \in Nat
    BY <1>3
  <2> HIDE DEF y, u
  <2>4. u + p <= y
    BY <1>1, <2>1, <2>2, <2>3
  <2> QED BY <1>1, <2>1, <2>4 DEF u
<1>4. x + y \in Nat /\ x + y >= x /\ x + y + p <= x + z
  <2> HIDE DEF y, z
  <2>1. z \in Int
    BY DEF z
  <2> QED BY <1>1, <2>1
<1> QED BY <1>2, <1>3, <1>4

\* The n calls of s map one page of size d after the other, from x on, which
\* are len pages of 4 KiB.
Row(s, sp, x, n, d) ==
  /\ sp \in Space /\ x \in Nat /\ n \in Nat /\ d \in 1 .. 3
  /\ s \in [1 .. n -> Call]
  /\ \A k \in 1 .. n : /\ s[k].space = sp /\ s[k].size = d
                       /\ s[k].virt = ToPage(x + (k - 1) * PagesOf(d))

Extent(x, n, d, len) == /\ len \in Nat /\ len = n * PagesOf(d)
                        /\ x % PagesOf(d) = 0 /\ x + len <= Top

LEMMA RowFits ==
  ASSUME NEW s, NEW sp, NEW x, NEW n, NEW d, NEW len, Row(s, sp, x, n, d), Extent(x, n, d, len)
  PROVE  Fits(s, {sp} \X (x .. (x + len - 1)))
<1> DEFINE p == PagesOf(d)
           from(k) == x + (k - 1) * p
<1>1. p \in Nat \ {0} /\ Top \in Nat /\ x \in Nat /\ n \in Nat /\ len \in Nat
  BY PagePages, Pages DEF Row, Extent
<1>2. s \in Seq(Call) /\ DOMAIN s = 1 .. n /\ sp \in Space /\ d \in 1 .. 3
  BY DEF Row
<1>3. ASSUME NEW k \in 1 .. n
      PROVE  /\ from(k) \in Nat /\ from(k) >= x /\ from(k) + p <= x + len
             /\ from(k) % p = 0
             /\ \A j \in 1 .. n : j < k => from(j) + p <= from(k)
  <2> DEFINE z == n * p
  <2>1. len = z /\ x % p = 0
    BY DEF Extent
  <2> HIDE DEF p
  <2>2. /\ from(k) \in Nat /\ from(k) >= x /\ from(k) + p <= x + z
        /\ x % p = 0 => from(k) % p = 0
        /\ \A j \in 1 .. n : j < k => from(j) + p <= from(k)
    BY <1>1, RowOfPages
  <2> HIDE DEF z, from
  <2> QED BY <2>1, <2>2
<1>4. ASSUME NEW k \in 1 .. n
      PROVE  /\ s[k].space = sp /\ s[k].size = d /\ s[k].virt = ToPage(from(k))
  BY DEF Row
<1>5. x + len <= Top /\ p = PagesOf(d)
  BY DEF Extent
<1> HIDE DEF from, p
<1>6. ASSUME NEW k \in 1 .. n
      PROVE  /\ from(k) \in Reachable /\ s[k].virt = ToPage(from(k))
             /\ Cells(s[k]) \subseteq {sp} \X (from(k) .. (from(k) + p - 1))
  <2> DEFINE a == from(k)
             c == s[k]
  <2>1. a \in Nat /\ a + p <= x + len
    BY <1>3
  <2>2. a \in 0 .. (Top - 1)
    <3> HIDE DEF a
    <3> QED BY <1>1, <1>5, <2>1
  <2>5. a % PagesOf(d) = 0
    BY <1>3, <1>5
  <2>3. c.space = sp /\ c.size = d /\ c.virt = ToPage(a)
    BY <1>4
  <2> HIDE DEF a, c
  <2>4. Cells(c) \subseteq {sp} \X (a .. (a + PagesOf(d) - 1))
    BY <1>2, <2>2, <2>3, <2>5, CellsOf DEF Reachable
  <2> QED BY <1>5, <2>2, <2>3, <2>4 DEF a, c, Reachable
<1>7. ASSUME NEW k \in 1 .. n
      PROVE  Cells(s[k]) \subseteq {sp} \X (x .. (x + len - 1))
  <2> DEFINE a == from(k)
  <2>1. a \in Nat /\ a >= x /\ a + p <= x + len
    BY <1>3
  <2>2. Cells(s[k]) \subseteq {sp} \X (a .. (a + p - 1))
    BY <1>6
  <2> HIDE DEF a
  <2>3. \A m \in a .. (a + p - 1) : m \in x .. (x + len - 1)
    BY <1>1, <2>1
  <2> QED BY <2>2, <2>3
<1>8. ASSUME NEW j \in 1 .. n, NEW k \in 1 .. n, j < k
      PROVE  Cells(s[j]) \cap Cells(s[k]) = {}
  <2> DEFINE a == from(j)
             b == from(k)
  <2>1. a + p <= b /\ a \in Nat /\ b \in Nat
    BY <1>3, <1>8
  <2>2. /\ Cells(s[j]) \subseteq {sp} \X (a .. (a + p - 1))
        /\ Cells(s[k]) \subseteq {sp} \X (b .. (b + p - 1))
    BY <1>6
  <2> HIDE DEF a, b
  <2>3. ~\E m : m \in (a .. (a + p - 1)) /\ m \in (b .. (b + p - 1))
    BY <1>1, <2>1
  <2> QED BY <2>2, <2>3
<1>9. \A j, k \in 1 .. n : j # k => Cells(s[j]) \cap Cells(s[k]) = {}
  <2> TAKE j, k \in 1 .. n
  <2>1. j < k \/ k < j \/ j = k
    OBVIOUS
  <2> QED BY <1>8, <2>1
<1>10. \A k \in 1 .. n : \E m \in Reachable : s[k].virt = ToPage(m)
  BY <1>6
<1> QED BY <1>2, <1>7, <1>9, <1>10 DEF Fits, MapCalls

\* All calls of a row are of one stage.
LEMMA RowStaged ==
  ASSUME NEW n \in Nat, NEW s \in [1 .. n -> Call], NEW i \in {1, 3, 5},
         \A k \in 1 .. n : Stage(s[k]) = i
  PROVE  Staged(s, i, i)
<1>1. s \in Seq(Call) /\ DOMAIN s = 1 .. n
  OBVIOUS
<1> QED BY <1>1 DEF Staged

\* The frames that n pages of size d need.
Framed(base, n, d) == \A k \in 1 .. n : base + (k - 1) * PagesOf(d) \in Frame

StageOf(sp) == IF sp = "boot" THEN 1 ELSE 3

\* mapRange() of a number of whole pages.
LEMMA RangeRow ==
  ASSUME NEW sp \in Space, NEW base \in Nat, NEW n \in Nat, NEW offset \in Nat, NEW d \in 1 .. 3,
         NEW len, Extent(base + offset, n, d, len), Framed(base, n, d),
         NEW s, s = MapRange(sp, base, len, offset, d)
  PROVE  /\ Row(s, sp, base + offset, n, d)
         /\ \A k \in 1 .. n :
              /\ s[k] = MapCall(sp, base + (k - 1) * PagesOf(d) + offset,
                                base + (k - 1) * PagesOf(d), d)
              /\ Stage(s[k]) = StageOf(sp)
<1> DEFINE p == PagesOf(d)
           call(k) == MapCall(sp, base + (k - 1) * p + offset, base + (k - 1) * p, d)
<1>1. p \in Nat \ {0} /\ len \in Nat
  BY PagePages DEF Extent
<1>2. (len + p - 1) \div p = n
  <2> DEFINE z == p * n
  <2>1. len = z
    BY <1>1 DEF Extent
  <2> HIDE DEF p
  <2>2. z + (p - 1) = len + p - 1 /\ p - 1 \in 0 .. (p - 1)
    <3> HIDE DEF z
    <3> QED BY <1>1, <2>1
  <2>3. (z + (p - 1)) \div p = n
    BY <1>1, <2>2, Quotient
  <2> HIDE DEF z
  <2> QED BY <2>2, <2>3
<1>3. s = [k \in 1 .. n |-> call(k)]
  <2>1. s = [k \in 1 .. ((len + p - 1) \div p) |-> call(k)]
    BY DEF MapRange
  <2> QED BY <1>2, <2>1
<1>4. ASSUME NEW k \in 1 .. n
      PROVE  /\ call(k) \in Call /\ call(k).op = "map" /\ call(k).space = sp /\ call(k).size = d
             /\ call(k).virt = ToPage(base + offset + (k - 1) * p)
             /\ call(k).phys \in Frame
  <2> DEFINE y == (k - 1) * p
  <2>1. y \in Nat
    <3> HIDE DEF p
    <3> QED BY <1>1
  <2>2. base + y \in Frame
    BY DEF Framed
  <2> HIDE DEF y
  <2>3. base + y + offset \in Nat /\ base + y + offset = base + offset + y /\ base + y \in Nat
    BY <2>1
  <2> QED BY <2>2, <2>3, OneCall DEF y
<1> HIDE DEF call
<1>5. \A k \in 1 .. n : s[k] = call(k)
  BY <1>3
<1>6. \A k \in 1 .. n : Stage(s[k]) = StageOf(sp)
  BY <1>4, <1>5, PoolAssumption DEF Stage, StageOf
<1>7. s \in [1 .. n -> Call]
  BY <1>3, <1>4
<1>8. \A k \in 1 .. n : /\ s[k].space = sp /\ s[k].size = d
                        /\ s[k].virt = ToPage(base + offset + (k - 1) * PagesOf(d))
  BY <1>4, <1>5
<1>9. Row(s, sp, base + offset, n, d)
  BY <1>7, <1>8 DEF Row
<1> QED BY <1>5, <1>6, <1>9 DEF call

LEMMA RangeFits ==
  ASSUME NEW sp \in Space, NEW base \in Nat, NEW n \in Nat, NEW offset \in Nat, NEW d \in 1 .. 3,
         NEW len, Extent(base + offset, n, d, len), Framed(base, n, d),
         NEW s, s = MapRange(sp, base, len, offset, d)
  PROVE  /\ Fits(s, {sp} \X ((base + offset) .. (base + offset + len - 1)))
         /\ Staged(s, StageOf(sp), StageOf(sp))
<1> DEFINE x == base + offset
<1>1. Row(s, sp, x, n, d) /\ \A k \in 1 .. n : Stage(s[k]) = StageOf(sp)
  BY RangeRow
<1>2. Extent(x, n, d, len)
  OBVIOUS
<1> HIDE DEF x
<1>3. Fits(s, {sp} \X (x .. (x + len - 1)))
  BY <1>1, <1>2, RowFits
<1>4. Staged(s, StageOf(sp), StageOf(sp))
  <2>1. s \in [1 .. n -> Call] /\ StageOf(sp) \in {1, 3, 5}
    BY <1>1 DEF Row, StageOf
  <2> QED BY <1>1, <2>1, RowStaged
<1> QED BY <1>3, <1>4 DEF x

LEMMA OneFits ==
  ASSUME NEW sp \in Space, NEW x \in Nat, NEW to \in Frame, NEW d \in 1 .. 3,
         Extent(x, 1, d, PagesOf(d)), NEW s, s = << MapCall(sp, x, to, d) >>
  PROVE  /\ Fits(s, {sp} \X (x .. (x + PagesOf(d) - 1)))
         /\ Staged(s, StageOf(sp), StageOf(sp))
<1> DEFINE c == MapCall(sp, x, to, d)
<1>1. /\ c \in Call /\ c.op = "map" /\ c.space = sp /\ c.virt = ToPage(x) /\ c.size = d
      /\ c.phys \in Frame
  BY OneCall
<1>2. Stage(c) = StageOf(sp)
  BY <1>1, PoolAssumption DEF Stage, StageOf
<1>3. s = << c >>
  OBVIOUS
<1> HIDE DEF c
<1>4. s \in [1 .. 1 -> Call] /\ \A k \in 1 .. 1 : s[k] = c /\ k = 1
  BY <1>1, <1>3
<1>5. x + (1 - 1) * PagesOf(d) = x
  BY PagePages
<1>6. Row(s, sp, x, 1, d)
  BY <1>1, <1>4, <1>5 DEF Row
<1>7. Fits(s, {sp} \X (x .. (x + PagesOf(d) - 1)))
  BY <1>6, RowFits
<1>8. Staged(s, StageOf(sp), StageOf(sp))
  <2>1. \A k \in 1 .. 1 : Stage(s[k]) = StageOf(sp)
    BY <1>2, <1>4
  <2>2. StageOf(sp) \in {1, 3, 5}
    BY DEF StageOf
  <2> QED BY <1>4, <2>1, <2>2, RowStaged
<1> QED BY <1>7, <1>8

\* The calls that map nothing.
LEMMA NoMap ==
  ASSUME NEW op \in {"root", "load"}
  PROVE  LET i == IF op = "root" THEN 2 ELSE 4
         IN  Fits(<< [op |-> op] >>, {}) /\ Staged(<< [op |-> op] >>, i, i)
<1> DEFINE c == [op |-> op]
           s == << c >>
<1>1. s \in Seq(Call) /\ DOMAIN s = {1} /\ s[1] = c
  BY DEF Call
<1>2. c.op = op
  OBVIOUS
<1>3. MapCalls(s) = {}
  BY <1>1, <1>2 DEF MapCalls
<1>4. Fits(s, {})
  BY <1>1, <1>3 DEF Fits
<1>5. Stage(c) = IF op = "root" THEN 2 ELSE 4
  BY <1>2 DEF Stage
<1> HIDE DEF c, s
<1>6. Staged(s, IF op = "root" THEN 2 ELSE 4, IF op = "root" THEN 2 ELSE 4)
  BY <1>1, <1>5 DEF Staged
<1> QED BY <1>4, <1>6 DEF c, s

\* The sizes and places of the parts.
LEMMA Places ==
  /\ GiB \in Nat \ {0} /\ GiB = F * F /\ Top \in Nat
  /\ High \in Nat /\ PageData \in Nat /\ SlabHeap \in Nat /\ Code \in Nat
  /\ High + 4 * GiB <= PageData /\ PageData + GiB <= SlabHeap
  /\ SlabHeap + GiB <= Code /\ Code + GiB <= Top
  /\ High % F = 0 /\ PageData % F = 0 /\ High % GiB = 0 /\ PageData % GiB = 0
<1>1. \A x \in Nat : x % GiB = 0 => x % F = 0
  <2> TAKE x \in Nat
  <2> HAVE x % GiB = 0
  <2> DEFINE w == x \div GiB
  <2>1. w \in Nat /\ x = GiB * w + 0
    BY Pages, Division
  <2>2. F * w \in Nat /\ GiB = F * F
    <3>1. GiB = F * F
      BY DEF GiB, PagesOf
    <3> HIDE DEF w
    <3> QED BY <2>1, <3>1, Pages
  <2> HIDE DEF w
  <2>3. x = F * (F * w) + 0
    BY <2>1, <2>2, Pages
  <2> DEFINE q == F * w
  <2>4. q \in Nat /\ x = F * q + 0 /\ F \in Nat \ {0} /\ 0 \in 0 .. (F - 1)
    BY <2>2, <2>3, Pages
  <2> HIDE DEF q
  <2>5. (F * q + 0) % F = 0
    BY <2>4, Quotient
  <2> QED BY <2>4, <2>5
<1>2. GiB = F * F
  BY DEF GiB, PagesOf
<1> QED BY <1>1, <1>2, Pages, LayoutAssumption

LEMMA Spaces == "boot" \in Space /\ "kernel" \in Space
BY DEF Space

\* The frames of the large pages.
LEMMA LargeFrames ==
  ASSUME NEW d \in 2 .. 3, NEW n \in Nat, n * PagesOf(d) <= 4 * GiB
  PROVE  \A k \in 1 .. n : 0 + (k - 1) * PagesOf(d) \in Frame
<1> TAKE k \in 1 .. n
<1> DEFINE p == PagesOf(d)
           y == (k - 1) * p
           z == n * p
           w == 4 * GiB
<1>1. p \in Nat \ {0}
  BY PagePages
<1> HIDE DEF p
<1>2. y \in Nat /\ y + p <= z /\ z \in Nat
  <2>1. y + p = k * p
    BY <1>1
  <2>2. k * p + (n - k) * p = z /\ (n - k) * p \in Nat /\ k * p \in Nat
    BY <1>1
  <2>3. y \in Nat /\ z \in Nat
    BY <1>1
  <2> HIDE DEF y, z
  <2> QED BY <1>1, <2>1, <2>2, <2>3
<1>3. w \in Nat /\ z <= w
  BY Places DEF p
<1>4. 0 .. (w - 1) \subseteq Frame
  BY FrameAssumption
<1> HIDE DEF y, z, w
<1>5. y \in Frame
  BY <1>1, <1>2, <1>3, <1>4
<1> QED BY <1>2, <1>5 DEF y, p

\* The pages of the space from a on.
Part(sp, a, len) == {sp} \X (a .. (a + len - 1))

LEMMA Extents ==
  /\ Extent(PageData, 1, 3, GiB) /\ Extent(PageData, F, 2, GiB)
  /\ Extent(High, 4, 3, 4 * GiB) /\ Extent(High, 4 * F, 2, 4 * GiB)
  /\ Framed(0, 1, 3) /\ Framed(0, F, 2) /\ Framed(0, 4, 3) /\ Framed(0, 4 * F, 2)
<1>1. /\ GiB \in Nat /\ PagesOf(3) = GiB /\ PagesOf(2) = F /\ F \in Nat /\ GiB = F * PagesOf(2)
      /\ 4 * F \in Nat /\ 4 * GiB = (4 * F) * PagesOf(2)
  BY Pages, Places
<1>2. GiB \in Nat /\ GiB = 1 * PagesOf(3) /\ 4 * GiB = 4 * PagesOf(3) /\ GiB <= 4 * GiB
  BY <1>1
<1>3. PageData + GiB <= Top /\ High + 4 * GiB <= Top
  BY Places
<1>4. /\ Framed(0, 1, 3) /\ Framed(0, F, 2) /\ Framed(0, 4, 3) /\ Framed(0, 4 * F, 2)
  <2>1. \A d \in 2 .. 3, n \in Nat : n * PagesOf(d) <= 4 * GiB => Framed(0, n, d)
    BY LargeFrames DEF Framed
  <2> QED BY <1>1, <1>2, <2>1
<1> QED BY <1>1, <1>2, <1>3, <1>4, Places DEF Extent

LEMMA RangePart ==
  ASSUME NEW sp \in Space, NEW n \in Nat, NEW offset \in Nat, NEW d \in 1 .. 3, NEW len,
         Extent(offset, n, d, len), Framed(0, n, d)
  PROVE  /\ Fits(MapRange(sp, 0, len, offset, d), Part(sp, offset, len))
         /\ Staged(MapRange(sp, 0, len, offset, d), StageOf(sp), StageOf(sp))
<1> DEFINE s == MapRange(sp, 0, len, offset, d)
<1>1. 0 + offset = offset /\ 0 \in Nat
  OBVIOUS
<1>2. Extent(0 + offset, n, d, len)
  BY <1>1
<1>3. s = MapRange(sp, 0, len, offset, d)
  OBVIOUS
<1> HIDE DEF s
<1>4. /\ Fits(s, {sp} \X ((0 + offset) .. (0 + offset + len - 1)))
      /\ Staged(s, StageOf(sp), StageOf(sp))
  BY <1>1, <1>2, <1>3, RangeFits
<1>5. Fits(s, {sp} \X (offset .. (offset + len - 1)))
  BY <1>1, <1>4
<1> QED BY <1>4, <1>5 DEF s, Part

LEMMA OnePart ==
  ASSUME NEW sp \in Space
  PROVE  /\ Fits(<< MapCall(sp, PageData, 0, 3) >>, Part(sp, PageData, GiB))
         /\ Staged(<< MapCall(sp, PageData, 0, 3) >>, StageOf(sp), StageOf(sp))
<1> DEFINE s == << MapCall(sp, PageData, 0, 3) >>
<1>1. /\ 0 \in Frame /\ PagesOf(3) = GiB /\ PageData \in Nat /\ 3 \in 1 .. 3
      /\ Extent(PageData, 1, 3, PagesOf(3))
  <2>1. PagesOf(3) = GiB
    BY DEF GiB
  <2> QED BY <2>1, FrameAssumption, Places, Extents
<1>2. s = << MapCall(sp, PageData, 0, 3) >>
  OBVIOUS
<1> HIDE DEF s
<1>3. /\ Fits(s, {sp} \X (PageData .. (PageData + PagesOf(3) - 1)))
      /\ Staged(s, StageOf(sp), StageOf(sp))
  BY <1>1, <1>2, OneFits
<1> QED BY <1>1, <1>3 DEF s, Part

LEMMA BootMapFits ==
  ASSUME NEW h \in BOOLEAN
  PROVE  Fits(BootMap(h), Part("boot", PageData, GiB)) /\ Staged(BootMap(h), 1, 1)
<1>1. StageOf("boot") = 1
  BY DEF StageOf
<1>2. CASE h
  BY <1>1, <1>2, OnePart, Spaces DEF BootMap
<1>3. CASE ~h
  <2>1. F \in Nat /\ 2 \in 1 .. 3
    BY Pages
  <2> QED BY <1>1, <1>3, <2>1, Extents, Spaces, Places, RangePart DEF BootMap
<1> QED BY <1>2, <1>3

LEMMA DirectFits ==
  ASSUME NEW h \in BOOLEAN
  PROVE  /\ Fits(Direct(h), Part("kernel", High, 4 * GiB) \cup Part("kernel", PageData, GiB))
         /\ Staged(Direct(h), 3, 3)
<1>1. StageOf("kernel") = 3
  BY DEF StageOf
<1>2. Part("kernel", High, 4 * GiB) \cap Part("kernel", PageData, GiB) = {}
  BY Places DEF Part
<1>3. \E s, t : /\ Direct(h) = s \o t
                /\ Fits(s, Part("kernel", High, 4 * GiB)) /\ Staged(s, 3, 3)
                /\ Fits(t, Part("kernel", PageData, GiB)) /\ Staged(t, 3, 3)
  <2>1. CASE h
    <3> DEFINE s == MapRange("kernel", 0, 4 * GiB, High, 3)
               t == << MapCall("kernel", PageData, 0, 3) >>
    <3>1. Direct(h) = s \o t
      BY <2>1 DEF Direct
    <3>2. 4 \in Nat /\ 3 \in 1 .. 3
      OBVIOUS
    <3>3. Fits(s, Part("kernel", High, 4 * GiB)) /\ Staged(s, 3, 3)
      BY <1>1, <3>2, Extents, Spaces, Places, RangePart
    <3>4. Fits(t, Part("kernel", PageData, GiB)) /\ Staged(t, 3, 3)
      BY <1>1, Spaces, OnePart
    <3> QED BY <3>1, <3>3, <3>4
  <2>2. CASE ~h
    <3> DEFINE s == MapRange("kernel", 0, 4 * GiB, High, 2)
               t == MapRange("kernel", 0, GiB, PageData, 2)
    <3>1. Direct(h) = s \o t
      BY <2>2 DEF Direct
    <3>2. 2 \in 1 .. 3 /\ F \in Nat /\ 4 * F \in Nat
      BY Pages
    <3>3. Fits(s, Part("kernel", High, 4 * GiB)) /\ Staged(s, 3, 3)
      BY <1>1, <3>2, Extents, Spaces, Places, RangePart
    <3>4. Fits(t, Part("kernel", PageData, GiB)) /\ Staged(t, 3, 3)
      BY <1>1, <3>2, Extents, Spaces, Places, RangePart
    <3> QED BY <3>1, <3>3, <3>4
  <2> QED BY <2>1, <2>2
<1>4. PICK s, t : /\ Direct(h) = s \o t
                  /\ Fits(s, Part("kernel", High, 4 * GiB)) /\ Staged(s, 3, 3)
                  /\ Fits(t, Part("kernel", PageData, GiB)) /\ Staged(t, 3, 3)
  BY <1>3
<1>5. Fits(s \o t, Part("kernel", High, 4 * GiB) \cup Part("kernel", PageData, GiB))
  BY <1>2, <1>4, FitsJoin
<1>6. Staged(s \o t, 3, 3)
  BY <1>4, StagedJoin
<1> QED BY <1>4, <1>5, <1>6

LEMMA LowFits ==
  ASSUME NEW highest \in HighestAddresses
  PROVE  LET s == MapRange("kernel", 1, highest, 0, 1)
         IN  Fits(s, Part("kernel", 1, highest)) /\ Staged(s, 3, 3)
<1>1. highest \in Nat /\ 1 .. highest \subseteq Frame /\ 1 + highest <= Top /\ 1 + 0 = 1
  BY LayoutAssumption, FrameAssumption, Places
<1>2. PagesOf(1) = 1 /\ StageOf("kernel") = 3
  BY Pages DEF StageOf
<1>3. Extent(1 + 0, highest, 1, highest) /\ Framed(1, highest, 1)
  BY <1>1, <1>2 DEF Extent, Framed
<1> DEFINE s == MapRange("kernel", 1, highest, 0, 1)
<1>4. s = MapRange("kernel", 1, highest, 0, 1) /\ 1 \in Nat /\ 0 \in Nat /\ 1 \in 1 .. 3
  OBVIOUS
<1> HIDE DEF s
<1>5. /\ Fits(s, {"kernel"} \X ((1 + 0) .. (1 + 0 + highest - 1)))
      /\ Staged(s, StageOf("kernel"), StageOf("kernel"))
  BY <1>1, <1>3, <1>4, Spaces, RangeFits
<1>6. (1 + 0) .. (1 + 0 + highest - 1) = 1 .. (1 + highest - 1)
  BY <1>1
<1>7. Fits(s, {"kernel"} \X (1 .. (1 + highest - 1)))
  BY <1>5, <1>6
<1> QED BY <1>2, <1>5, <1>7 DEF Part, s

\* Single pages in a row.
LEMMA CodeFits ==
  ASSUME NEW base \in Bases
  PROVE  Fits(Kernel(base), Part("kernel", Code, GiB)) /\ Staged(Kernel(base), 3, 3)
<1> DEFINE s == Kernel(base)
           call(k) == MapCall("kernel", Code + k - 1, base + k - 1, 1)
<1>1. GiB \in Nat /\ Code \in Nat /\ base \in Nat /\ Code + GiB <= Top /\ PagesOf(1) = 1
  BY Places, Pages, LayoutAssumption
<1>2. ASSUME NEW k \in 1 .. GiB
      PROVE  /\ call(k) \in Call /\ call(k).op = "map" /\ call(k).space = "kernel"
             /\ call(k).virt = ToPage(Code + (k - 1) * PagesOf(1)) /\ call(k).size = 1
             /\ call(k).phys \in Frame
  <2>1. base + k - 1 \in Frame
    BY <1>1, FrameAssumption
  <2>2. Code + k - 1 \in Nat /\ Code + (k - 1) * PagesOf(1) = Code + k - 1
    BY <1>1
  <2> QED BY <2>1, <2>2, OneCall, Spaces
<1>3. s = [k \in 1 .. GiB |-> call(k)]
  BY DEF Kernel
<1> HIDE DEF call, s
<1>4. s \in [1 .. GiB -> Call] /\ \A k \in 1 .. GiB : s[k] = call(k)
  BY <1>2, <1>3
<1>5. Row(s, "kernel", Code, GiB, 1)
  BY <1>1, <1>2, <1>4, Spaces DEF Row
<1>6. Extent(Code, GiB, 1, GiB)
  BY <1>1 DEF Extent
<1>7. \A k \in 1 .. GiB : Stage(s[k]) = 3
  BY <1>2, <1>4, PoolAssumption DEF Stage
<1> QED BY <1>1, <1>4, <1>5, <1>6, <1>7, RowFits, RowStaged DEF s, Part

LEMMA HeapFits ==
  Fits(HeapInit, Part("kernel", SlabHeap, GiB)) /\ Staged(HeapInit, 5, 5)
<1> DEFINE s == HeapInit
           call(k) == MapCall("kernel", SlabHeap + k - 1, None, 1)
<1>1. GiB \in Nat /\ SlabHeap \in Nat /\ SlabHeap + GiB <= Top /\ PagesOf(1) = 1
  BY Places, Pages
<1>2. ASSUME NEW k \in 1 .. GiB
      PROVE  /\ call(k) \in Call /\ call(k).op = "map" /\ call(k).space = "kernel"
             /\ call(k).virt = ToPage(SlabHeap + (k - 1) * PagesOf(1)) /\ call(k).size = 1
             /\ call(k).phys = None
  <2>1. SlabHeap + k - 1 \in Nat /\ SlabHeap + (k - 1) * PagesOf(1) = SlabHeap + k - 1
    BY <1>1
  <2> QED BY <2>1, OneCall, Spaces
<1>3. s = [k \in 1 .. GiB |-> call(k)]
  BY DEF HeapInit
<1> HIDE DEF call, s
<1>4. s \in [1 .. GiB -> Call] /\ \A k \in 1 .. GiB : s[k] = call(k)
  BY <1>2, <1>3
<1>5. Row(s, "kernel", SlabHeap, GiB, 1)
  BY <1>1, <1>2, <1>4, Spaces DEF Row
<1>6. Extent(SlabHeap, GiB, 1, GiB)
  BY <1>1 DEF Extent
<1>7. \A k \in 1 .. GiB : Stage(s[k]) = 5
  BY <1>2, <1>4, PoolAssumption DEF Stage
<1> QED BY <1>1, <1>4, <1>5, <1>6, <1>7, RowFits, RowStaged DEF s, Part
-----------------------------------------------------------------------------
(* The program of calls. *)

\* kernelPageSpace::init() maps four parts, the root first and the load last.
LEMMA PageSpaceFits ==
  ASSUME NEW h \in BOOLEAN, NEW highest \in HighestAddresses, NEW base \in Bases
  PROVE  LET s == PageSpaceInit(h, highest, base)
         IN  /\ Fits(s, Part("kernel", 1, highest)
                        \cup (Part("kernel", High, 4 * GiB) \cup Part("kernel", PageData, GiB))
                        \cup Part("kernel", Code, GiB))
             /\ Staged(s, 2, 4)
<1> DEFINE a == << [op |-> "root"] >>
           b == MapRange("kernel", 1, highest, 0, 1)
           c == Direct(h)
           d == Kernel(base)
           e == << [op |-> "load"] >>
           B == Part("kernel", 1, highest)
           C == Part("kernel", High, 4 * GiB) \cup Part("kernel", PageData, GiB)
           D == Part("kernel", Code, GiB)
<1>1. Fits(a, {}) /\ Staged(a, 2, 2) /\ Fits(e, {}) /\ Staged(e, 4, 4)
  BY NoMap
<1>2. Fits(b, B) /\ Staged(b, 3, 3)
  BY LowFits
<1>3. Fits(c, C) /\ Staged(c, 3, 3)
  BY DirectFits
<1>4. Fits(d, D) /\ Staged(d, 3, 3)
  BY CodeFits
<1>5. B \cap C = {} /\ D \cap C = {} /\ D \cap B = {}
  <2>1. highest \in Nat /\ highest < High
    BY LayoutAssumption
  <2> QED BY <2>1, Places DEF Part
<1>6. PageSpaceInit(h, highest, base) = (((a \o b) \o c) \o d) \o e
  BY DEF PageSpaceInit
<1> HIDE DEF a, b, c, d, e, B, C, D
<1>7. Fits(a \o b, {} \cup B) /\ Staged(a \o b, 2, 3)
  BY <1>1, <1>2, FitsJoin, StagedJoin
<1>8. Fits((a \o b) \o c, ({} \cup B) \cup C) /\ Staged((a \o b) \o c, 2, 3)
  <2>1. ({} \cup B) \cap C = {}
    BY <1>5
  <2> QED BY <1>3, <1>7, <2>1, FitsJoin, StagedJoin
<1>9. /\ Fits(((a \o b) \o c) \o d, (({} \cup B) \cup C) \cup D)
      /\ Staged(((a \o b) \o c) \o d, 2, 3)
  <2>1. (({} \cup B) \cup C) \cap D = {}
    BY <1>5
  <2> QED BY <1>4, <1>8, <2>1, FitsJoin, StagedJoin
<1>10. /\ Fits((((a \o b) \o c) \o d) \o e, ((({} \cup B) \cup C) \cup D) \cup {})
       /\ Staged((((a \o b) \o c) \o d) \o e, 2, 4)
  BY <1>1, <1>9, FitsJoin, StagedJoin
<1>11. ((({} \cup B) \cup C) \cup D) \cup {} = B \cup C \cup D
  OBVIOUS
<1>12. Fits((((a \o b) \o c) \o d) \o e, B \cup C \cup D)
  BY <1>10, <1>11
<1> QED BY <1>6, <1>10, <1>12 DEF B, C, D

LEMMA ProgramFits ==
  ASSUME NEW h \in BOOLEAN, NEW highest \in HighestAddresses, NEW base \in Bases
  PROVE  LET p == BootMap(h) \o PageSpaceInit(h, highest, base) \o HeapInit
         IN  /\ \E Z \in SUBSET ({"kernel"} \X Nat) : Fits(p, Part("boot", PageData, GiB) \cup Z)
             /\ Staged(p, 1, 5)
<1> DEFINE a == BootMap(h)
           b == PageSpaceInit(h, highest, base)
           c == HeapInit
           A == Part("boot", PageData, GiB)
           B == Part("kernel", 1, highest)
                \cup (Part("kernel", High, 4 * GiB) \cup Part("kernel", PageData, GiB))
                \cup Part("kernel", Code, GiB)
           C == Part("kernel", SlabHeap, GiB)
<1>1. Fits(a, A) /\ Staged(a, 1, 1)
  BY BootMapFits
<1>2. Fits(b, B) /\ Staged(b, 2, 4)
  BY PageSpaceFits
<1>3. Fits(c, C) /\ Staged(c, 5, 5)
  BY HeapFits
<1>4. A \cap B = {} /\ A \cap C = {} /\ B \cap C = {}
  <2>1. highest \in Nat /\ highest < High
    BY LayoutAssumption
  <2>2. A \cap B = {} /\ A \cap C = {}
    BY DEF Part
  <2>3. B \cap C = {}
    BY <2>1, Places DEF Part
  <2> QED BY <2>2, <2>3
<1>5. B \cup C \in SUBSET ({"kernel"} \X Nat)
  <2>1. highest \in Nat
    BY LayoutAssumption
  <2> QED BY <2>1, Places DEF Part
<1> HIDE DEF a, b, c, A, B, C
<1>6. Fits(a \o b, A \cup B) /\ Staged(a \o b, 1, 4)
  BY <1>1, <1>2, <1>4, FitsJoin, StagedJoin
<1>7. Fits((a \o b) \o c, (A \cup B) \cup C) /\ Staged((a \o b) \o c, 1, 5)
  <2>1. (A \cup B) \cap C = {}
    BY <1>4
  <2> QED BY <1>3, <1>6, <2>1, FitsJoin, StagedJoin
<1>8. (A \cup B) \cup C = A \cup (B \cup C)
  OBVIOUS
<1> DEFINE p == (a \o b) \o c
           Z == B \cup C
<1>9. Fits(p, A \cup Z) /\ Staged(p, 1, 5) /\ Z \in SUBSET ({"kernel"} \X Nat)
  BY <1>5, <1>7, <1>8
<1> HIDE DEF p, Z
<1>10. \E Y \in SUBSET ({"kernel"} \X Nat) : Fits(p, A \cup Y)
  BY <1>9
<1> QED BY <1>9, <1>10 DEF a, b, c, p, A

\* A call that s makes.
Makes(s, call) == \E k \in DOMAIN s : s[k] = call

LEMMA MakesJoin ==
  ASSUME NEW s \in Seq(Call), NEW t \in Seq(Call), NEW c, Makes(s, c) \/ Makes(t, c)
  PROVE  Makes(s \o t, c)
<1> DEFINE u == s \o t
<1>1. /\ \A k \in DOMAIN s : k \in DOMAIN u /\ u[k] = s[k]
      /\ \A k \in DOMAIN t : k + Len(s) \in DOMAIN u /\ u[k + Len(s)] = t[k]
  BY Joined
<1> HIDE DEF u
<1>2. Makes(u, c)
  BY <1>1 DEF Makes
<1> QED BY <1>2 DEF u

\* A program makes the calls of its parts.
LEMMA ProgramMakes ==
  ASSUME NEW h \in BOOLEAN, NEW highest \in HighestAddresses, NEW base \in Bases
  PROVE  LET p == BootMap(h) \o PageSpaceInit(h, highest, base) \o HeapInit
         IN  \A c : \/ Makes(BootMap(h), c)
                    \/ Makes(MapRange("kernel", 1, highest, 0, 1), c)
                    \/ Makes(Direct(h), c)
                    \/ c = [op |-> "root"]
                    => Makes(p, c)
<1> DEFINE i == BootMap(h)
           a == << [op |-> "root"] >>
           b == MapRange("kernel", 1, highest, 0, 1)
           c == Direct(h)
           d == Kernel(base)
           e == << [op |-> "load"] >>
           j == HeapInit
<1>1. /\ i \in Seq(Call) /\ a \in Seq(Call) /\ b \in Seq(Call) /\ c \in Seq(Call)
      /\ d \in Seq(Call) /\ e \in Seq(Call) /\ j \in Seq(Call)
  BY BootMapFits, NoMap, LowFits, DirectFits, CodeFits, HeapFits DEF Staged
<1>2. PageSpaceInit(h, highest, base) = (((a \o b) \o c) \o d) \o e
  BY DEF PageSpaceInit
<1>3. Makes(a, [op |-> "root"])
  BY DEF Makes
<1> HIDE DEF a, b, c, d, e, i, j
<1> DEFINE f == (((a \o b) \o c) \o d) \o e
<1>4. a \o b \in Seq(Call) /\ (a \o b) \o c \in Seq(Call) /\ ((a \o b) \o c) \o d \in Seq(Call)
      /\ f \in Seq(Call) /\ i \o f \in Seq(Call)
  BY <1>1
<1>5. \A x : Makes(a, x) \/ Makes(b, x) \/ Makes(c, x) => Makes(f, x)
  BY <1>1, <1>4, MakesJoin
<1> HIDE DEF f
<1>6. \A x : Makes(i, x) \/ Makes(f, x) => Makes((i \o f) \o j, x)
  BY <1>1, <1>4, MakesJoin
<1> QED BY <1>2, <1>3, <1>5, <1>6 DEF i, a, b, c, f, j

\* The calls of booting map different pages, none that the boot loader has
\* mapped, and the kernel's root is made once, before its maps.
LEMMA ProperProgram ==
  ASSUME NEW h \in BOOLEAN, NEW highest \in HighestAddresses, NEW base \in Bases,
         NEW p, p = BootMap(h) \o PageSpaceInit(h, highest, base) \o HeapInit
  PROVE  Proper(p)
<1>1. PICK Z \in SUBSET ({"kernel"} \X Nat) : Fits(p, Part("boot", PageData, GiB) \cup Z)
  BY ProgramFits
<1>2. Staged(p, 1, 5) /\ p \in Seq(Call)
  BY ProgramFits DEF Staged
<1>3. \E j \in DOMAIN p : p[j].op = "root"
  <2>1. Makes(p, [op |-> "root"])
    BY ProgramMakes
  <2> QED BY <2>1 DEF Makes
<1>4. \A k \in MapCalls(p) : /\ p[k].op = "map" /\ p[k].space \in Space
                             /\ k \in DOMAIN p /\ p[k].size \in 1 .. 3
  <2> TAKE k \in MapCalls(p)
  <2>1. k \in DOMAIN p /\ p[k].op = "map"
    BY DEF MapCalls
  <2>2. p[k] \in Call
    BY <1>2, <2>1
  <2> QED BY <2>1, <2>2 DEF Call
<1>5. ASSUME NEW j \in MapCalls(p), NEW k \in MapCalls(p), j # k
      PROVE  Separate(p[j], p[k])
  <2>1. Cells(p[j]) \cap Cells(p[k]) = {} /\ p[j].space \in Space
        /\ p[j].size \in 1 .. 3 /\ p[k].size \in 1 .. 3
    BY <1>1, <1>4, <1>5 DEF Fits
  <2>2. PICK m \in Reachable, n \in Reachable : p[j].virt = ToPage(m) /\ p[k].virt = ToPage(n)
    BY <1>1 DEF Fits
  <2> QED BY <2>1, <2>2, CellsApart
<1>6. ASSUME NEW k \in MapCalls(p), NEW m \in BootMapped
      PROVE  Separate(m, p[k])
  <2>1. m.space = "boot" /\ m.size \in 1 .. 3
    BY FrameAssumption, BootAssumption
  <2>2. CASE p[k].space # "boot"
    BY <2>1, <2>2 DEF Separate
  <2>3. CASE p[k].space = "boot"
    <3>1. PICK n \in 0 .. (Top - PagesOf(m.size)) :
                 /\ m.virt = ToPage(n) /\ n % PagesOf(m.size) = 0
                 /\ n + PagesOf(m.size) <= PageData \/ PageData + GiB <= n
      BY FrameAssumption
    <3> DEFINE q == PagesOf(m.size)
    <3>2. q \in Nat \ {0} /\ Top \in Nat /\ PageData \in Nat /\ GiB \in Nat
      BY <2>1, PagePages, Places
    <3>3. n + q <= PageData \/ PageData + GiB <= n
      BY <3>1
    <3>4. n \in Reachable
      <4>1. n \in 0 .. (Top - q)
        OBVIOUS
      <4> HIDE DEF q
      <4> QED BY <3>2, <4>1 DEF Reachable
    <3>5. Cells(m) \subseteq {"boot"} \X (n .. (n + q - 1))
      BY <2>1, <3>1, <3>4, Spaces, CellsOf
    <3> HIDE DEF q
    <3>6. Cells(p[k]) \subseteq {"boot"} \X (PageData .. (PageData + GiB - 1))
      <4>1. Cells(p[k]) \subseteq Part("boot", PageData, GiB) \cup Z
        BY <1>1 DEF Fits
      <4>2. \A cell \in Cells(p[k]) : cell[1] = "boot"
        BY <2>3 DEF Cells
      <4> QED BY <4>1, <4>2 DEF Part
    <3>7. Cells(m) \cap Cells(p[k]) = {}
      <4>1. \A i \in n .. (n + q - 1) : i \notin PageData .. (PageData + GiB - 1)
        BY <3>2, <3>3, <3>4 DEF Reachable
      <4> QED BY <3>5, <3>6, <4>1
    <3>8. PICK i \in Reachable : p[k].virt = ToPage(i)
      BY <1>1 DEF Fits
    <3> QED BY <1>4, <2>1, <3>1, <3>4, <3>7, <3>8, Spaces, CellsApart
  <2> QED BY <2>2, <2>3
<1>7. ASSUME NEW j \in DOMAIN p, NEW k \in DOMAIN p, p[j].op = "root"
      PROVE  /\ p[k].op = "root" => j = k
             /\ p[k].op = "map" /\ p[k].space = "kernel" => j < k
  <2>1. Stage(p[j]) = 2 /\ j \in Nat /\ k \in Nat
    BY <1>2, <1>7 DEF Stage
  <2>2. j < k \/ k < j \/ j = k
    BY <2>1
  <2>3. p[k].op = "root" => Stage(p[k]) = 2
    BY DEF Stage
  <2>4. p[k].op = "map" /\ p[k].space = "kernel" => Stage(p[k]) \in {3, 5}
    BY DEF Stage
  <2>5. /\ j < k => Stage(p[j]) <= Stage(p[k]) /\ (Stage(p[j]) # 2 \/ Stage(p[k]) # 2)
        /\ k < j => Stage(p[k]) <= Stage(p[j]) /\ (Stage(p[k]) # 2 \/ Stage(p[j]) # 2)
    BY <1>2 DEF Staged
  <2>6. p[k].op = "root" => j = k
    BY <2>1, <2>2, <2>3, <2>5
  <2>7. p[k].op = "map" /\ p[k].space = "kernel" => j < k
    <3> HAVE p[k].op = "map" /\ p[k].space = "kernel"
    <3>1. j # k
      BY <1>7
    <3>2. ~(k < j)
      BY <2>1, <2>4, <2>5
    <3> QED BY <2>2, <3>1, <3>2
  <2> QED BY <2>6, <2>7
<1> QED BY <1>2, <1>3, <1>5, <1>6, <1>7 DEF Proper

\* Whatever the size of memory, of the tables and of the pages, the calls that
\* booting makes (boot_mem.cpp:93-100, virtual.cpp:25-47, heap.cpp:45-51) map
\* each address once, and the kernel's root is made once and before it is used:
\* ProgramAssumption of PageTables holds of them.
THEOREM ProgramsProper == \A p \in KernelPrograms : Proper(p)
BY ProperProgram DEF KernelPrograms
-----------------------------------------------------------------------------
(* What booting maps. *)

\* A map shows y at x.
Reaches(m, x, y) == /\ Within(ToPage(x), m.virt, m.size)
                    /\ y = m.phys + (x % PagesOf(m.size))
                    /\ ~Unsized(m)

Shows(p, sp, x, y) == \E k \in MapCalls(p) : /\ p[k].space = sp /\ p[k].phys # None
                                             /\ Reaches(p[k], x, y)

LEMMA MadeShows ==
  ASSUME NEW p, NEW sp \in Space, NEW from \in Nat, NEW to \in Frame, NEW d \in 1 .. 3,
         NEW c, c = MapCall(sp, from, to, d), Makes(p, c)
  PROVE  \A x, y : Reaches(c, x, y) => Shows(p, sp, x, y)
<1>1. c.op = "map" /\ c.space = sp /\ c.phys # None
  BY OneCall, PoolAssumption
<1> QED BY <1>1 DEF Shows, Makes, MapCalls

\* All memory is mapped to itself.
LEMMA LowShows ==
  ASSUME NEW highest \in HighestAddresses, NEW f \in 1 .. highest,
         NEW c, c = MapCall("kernel", f, f, 1)
  PROVE  Makes(MapRange("kernel", 1, highest, 0, 1), c) /\ Reaches(c, f, f)
<1> DEFINE s == MapRange("kernel", 1, highest, 0, 1)
<1>1. highest \in Nat /\ 1 .. highest \subseteq Frame /\ 1 + highest <= Top /\ 1 + 0 = 1
  BY LayoutAssumption, FrameAssumption, Places
<1>2. PagesOf(1) = 1 /\ f \in Nat /\ f \in Frame
  BY <1>1, Pages
<1>3. Extent(1 + 0, highest, 1, highest) /\ Framed(1, highest, 1)
  BY <1>1, <1>2 DEF Extent, Framed
<1>4. s = MapRange("kernel", 1, highest, 0, 1)
  OBVIOUS
<1> HIDE DEF s
<1>5. /\ Row(s, "kernel", 1 + 0, highest, 1)
      /\ s[f] = MapCall("kernel", 1 + (f - 1) * PagesOf(1) + 0, 1 + (f - 1) * PagesOf(1), 1)
  BY <1>1, <1>3, <1>4, Spaces, RangeRow
<1>6. 1 + (f - 1) * PagesOf(1) + 0 = f /\ 1 + (f - 1) * PagesOf(1) = f
  BY <1>2
<1>7. s[f] = c /\ f \in DOMAIN s
  BY <1>5, <1>6 DEF Row
<1>8. /\ c.space = "kernel" /\ c.virt = ToPage(f) /\ c.phys = f /\ c.size = 1
  BY <1>2, OneCall, Spaces
<1>9. Reaches(c, f, f)
  <2>1. f = f + (f % PagesOf(1))
    BY <1>2
  <2> QED BY <1>8, <2>1 DEF Reaches, Within, Unsized
<1> QED BY <1>4, <1>7, <1>9 DEF Makes

\* A part of a page of size d that begins at a multiple of it.
LEMMA InPage ==
  ASSUME NEW p \in Nat \ {0}, NEW w \in Nat, NEW r \in Nat, w % p = 0
  PROVE  /\ (w + r) % p = r % p
         /\ (w + (r \div p) * p) \div p = (w + r) \div p
         /\ (w + r) \div p = (w \div p) + (r \div p)
<1> DEFINE a == w \div p
           b == r \div p
           z == r % p
<1>1. a \in Nat /\ w = p * a + 0
  BY Division
<1>2. b \in Nat /\ z \in 0 .. (p - 1) /\ r = p * b + z
  BY Division
<1> HIDE DEF a, b, z
<1> DEFINE q == a + b
<1>3. q \in Nat /\ w + r = p * q + z /\ w + b * p = p * q + 0 /\ 0 \in 0 .. (p - 1)
  BY <1>1, <1>2
<1>4. q = a + b
  OBVIOUS
<1> HIDE DEF q
<1>5. (p * q + z) \div p = q /\ (p * q + z) % p = z /\ (p * q + 0) \div p = q
  BY <1>2, <1>3, Quotient
<1>6. (w + r) \div p = q /\ (w + r) % p = z /\ (w + b * p) \div p = q
  BY <1>3, <1>5
<1> QED BY <1>4, <1>6 DEF a, b, z

LEMMA ListPages ==
  ASSUME NEW n \in PageArray .. (PageArray + ArrayPages - 1)
  PROVE  n \in Nat /\ n < GiB /\ n \div F # 1
<1>1. PageArray \in Nat /\ ArrayPages \in Nat /\ PageArray + ArrayPages <= GiB
  BY LayoutAssumption
<1>2. n \div F # 1
  BY LayoutAssumption
<1> QED BY <1>1, <1>2, Places

\* The page list is mapped, in large pages that have their bit.
LEMMA LargeShows ==
  ASSUME NEW sp \in Space, NEW n \in PageArray .. (PageArray + ArrayPages - 1),
         NEW c, c = MapCall(sp, PageData, 0, 3)
  PROVE  Reaches(c, PageData + n, n)
<1>1. n \in Nat /\ n < GiB /\ GiB \in Nat \ {0} /\ PageData \in Nat /\ PageData % GiB = 0
  BY ListPages, Places
<1>2. n % GiB = n /\ n \div GiB = 0
  <2>1. n = GiB * 0 + n /\ n \in 0 .. (GiB - 1)
    BY <1>1
  <2> QED BY <1>1, <2>1, Quotient
<1>3. (PageData + n) % GiB = n /\ (PageData + n) \div GiB = PageData \div GiB
  <2>1. PageData \div GiB \in Nat
    BY <1>1, Division
  <2>2. /\ (PageData + n) % GiB = n % GiB
        /\ (PageData + n) \div GiB = (PageData \div GiB) + (n \div GiB)
    BY <1>1, InPage
  <2> DEFINE u == PageData \div GiB
  <2> HIDE DEF u
  <2>3. (PageData + n) \div GiB = u + 0 /\ u \in Nat
    BY <1>2, <2>1, <2>2 DEF u
  <2> QED BY <1>2, <2>2, <2>3 DEF u
<1>4. 0 \in Frame /\ PagesOf(3) = GiB
  BY FrameAssumption, Places, Pages
<1>5. /\ c.space = sp /\ c.virt = ToPage(PageData) /\ c.phys = 0 /\ c.size = 3
  BY <1>1, <1>4, OneCall
<1>6. Within(ToPage(PageData + n), ToPage(PageData), 3)
  BY <1>1, <1>3, <1>4, SameAbove DEF Depth
<1>7. ~Unsized(c)
  BY <1>5, LayoutAssumption DEF Unsized
<1> QED BY <1>1, <1>3, <1>4, <1>5, <1>6, <1>7 DEF Reaches

LEMMA SmallShows ==
  ASSUME NEW sp \in Space, NEW n \in PageArray .. (PageArray + ArrayPages - 1),
         NEW y, y = (n \div F) * F, NEW c, c = MapCall(sp, y + PageData, y, 2)
  PROVE  Makes(MapRange(sp, 0, GiB, PageData, 2), c) /\ Reaches(c, PageData + n, n) /\ y \in Frame
         /\ y \in Nat
<1> DEFINE b == n \div F
           z == n % F
           s == MapRange(sp, 0, GiB, PageData, 2)
<1>1. /\ n \in Nat /\ n < GiB /\ GiB \in Nat \ {0} /\ PageData \in Nat /\ PageData % F = 0
      /\ GiB = F * F /\ F \in Nat \ {0} /\ PagesOf(2) = F /\ PageData % GiB = 0
  BY ListPages, Places, Pages
<1>2. b \in Nat /\ z \in 0 .. (F - 1) /\ n = F * b + z /\ b # 1
  BY <1>1, Division, ListPages
<1>3. y = b * F
  OBVIOUS
<1>4. Extent(PageData, F, 2, GiB) /\ Framed(0, F, 2)
  BY Extents
<1>5. s = MapRange(sp, 0, GiB, PageData, 2)
  OBVIOUS
<1>6. (PageData + n) % F = z /\ (PageData + b * F) \div F = (PageData + n) \div F
  BY <1>1, InPage
<1> HIDE DEF b, z, s
<1>7. b < F /\ y \in Nat
  <2> HIDE DEF F, GiB
  <2>1. F * b <= n
    BY <1>1, <1>2
  <2>2. F * b < F * F
    BY <1>1, <1>2, <2>1
  <2>3. SUFFICES ASSUME b >= F PROVE FALSE
    BY <1>1, <1>2, <1>3
  <2>4. F * b >= F * F
    BY <1>1, <1>2, <2>3
  <2> QED BY <1>1, <1>2, <2>2, <2>4
<1>8. s[b + 1] = c /\ b + 1 \in DOMAIN s /\ y \in Frame
  <2> DEFINE k == b + 1
  <2>1. k \in 1 .. F /\ k - 1 = b
    BY <1>1, <1>2, <1>7
  <2>2. 0 + PageData = PageData /\ 0 \in Nat /\ 2 \in 1 .. 3
    BY <1>1
  <2>3. Extent(0 + PageData, F, 2, GiB)
    BY <1>4, <2>2
  <2> HIDE DEF k
  <2>4. /\ Row(s, sp, 0 + PageData, F, 2)
        /\ s[k] = MapCall(sp, 0 + (k - 1) * PagesOf(2) + PageData, 0 + (k - 1) * PagesOf(2), 2)
    BY <1>1, <1>4, <1>5, <2>1, <2>2, <2>3, RangeRow
  <2>5. 0 + (k - 1) * PagesOf(2) = y
    BY <1>1, <1>3, <1>7, <2>1
  <2>6. 0 + (k - 1) * PagesOf(2) \in Frame
    BY <1>4, <2>1 DEF Framed
  <2> QED BY <2>1, <2>4, <2>5, <2>6 DEF Row, k
<1>9. y + PageData \in Nat /\ y + PageData = PageData + b * F
  BY <1>1, <1>3, <1>7
<1>10. /\ c.space = sp /\ c.virt = ToPage(y + PageData) /\ c.phys = y /\ c.size = 2
  BY <1>8, <1>9, OneCall
<1>11. (y + PageData) \div F = (PageData + n) \div F
  BY <1>6, <1>9
<1>12. Within(ToPage(PageData + n), ToPage(y + PageData), 2)
  <2>1. (PageData + n) \div PagesOf(2) = (y + PageData) \div PagesOf(2)
    BY <1>1, <1>11
  <2>2. PageData + n \in Nat /\ 2 \in Depth
    BY <1>1 DEF Depth
  <2> QED BY <1>9, <2>1, <2>2, SameAbove
<1>13. n = y + ((PageData + n) % F)
  BY <1>1, <1>2, <1>3, <1>6
<1>14. ToPage(y + PageData)[2] # 1
  <2>1. ToPage(y + PageData)[2] = ((PageData + n) \div F) % F
    BY <1>1, <1>11 DEF ToPage, Depth
  <2>2. (PageData + n) \div F = (PageData \div F) + b
    BY <1>1, InPage DEF b
  <2> DEFINE w == PageData \div GiB
             v == PageData \div F
  <2>3. w \in Nat /\ PageData = GiB * w + 0
    <3>1. PageData = GiB * (PageData \div GiB) + (PageData % GiB)
      BY <1>1, Division
    <3>2. PageData \div GiB \in Nat
      BY <1>1, Division
    <3> QED BY <1>1, <3>1, <3>2
  <2> HIDE DEF w
  <2>4. F * w \in Nat /\ PageData = F * (F * w) + 0 /\ 0 \in 0 .. (F - 1)
    <3> HIDE DEF F, GiB
    <3>1. GiB * w = F * (F * w)
      BY <1>1, <2>3
    <3>2. 0 \in 0 .. (F - 1) /\ F * w \in Nat
      BY <1>1, <2>3
    <3> QED BY <2>3, <3>1, <3>2
  <2>5. v = F * w
    <3> DEFINE q == F * w
    <3>1. q \in Nat /\ PageData = F * q + 0 /\ 0 \in 0 .. (F - 1)
      BY <2>4
    <3> HIDE DEF q
    <3>2. (F * q + 0) \div F = q
      BY <1>1, <3>1, Quotient
    <3> QED BY <3>1, <3>2 DEF q
  <2> HIDE DEF v
  <2>6. (F * w + b) % F = b
    <3>1. b \in 0 .. (F - 1)
      BY <1>1, <1>2, <1>7
    <3> QED BY <1>1, <2>3, <3>1, Quotient
  <2> QED BY <1>2, <2>1, <2>2, <2>5, <2>6 DEF v
<1>15. ~Unsized(c)
  BY <1>10, <1>14 DEF Unsized
<1> QED BY <1>1, <1>5, <1>7, <1>8, <1>10, <1>12, <1>13, <1>15 DEF Reaches, Makes

ListShown(p, sp) ==
  \A n \in PageArray .. (PageArray + ArrayPages - 1) : Shows(p, sp, PageData + n, n)

\* The page list is mapped in both spaces.
LEMMA BootShows ==
  ASSUME NEW h \in BOOLEAN, NEW p, \A c : Makes(BootMap(h), c) => Makes(p, c)
  PROVE  ListShown(p, "boot")
<1> SUFFICES ASSUME NEW n \in PageArray .. (PageArray + ArrayPages - 1)
             PROVE  Shows(p, "boot", PageData + n, n)
  BY DEF ListShown
<1>1. CASE h
  <2> DEFINE c == MapCall("boot", PageData, 0, 3)
  <2>1. BootMap(h) = << c >>
    BY <1>1 DEF BootMap
  <2> HIDE DEF c
  <2>2. Makes(p, c)
    BY <2>1 DEF Makes
  <2>3. Reaches(c, PageData + n, n)
    BY Spaces, LargeShows DEF c
  <2>4. 0 \in Frame /\ PageData \in Nat
    BY FrameAssumption, Places
  <2>7. \A x, y : Reaches(c, x, y) => Shows(p, "boot", x, y)
    <3>1. 3 \in 1 .. 3 /\ c = MapCall("boot", PageData, 0, 3)
      BY DEF c
    <3> QED BY <2>2, <2>4, <3>1, Spaces, MadeShows
  <2> QED BY <2>3, <2>7
<1>2. CASE ~h
  <2> DEFINE y == (n \div F) * F
             c == MapCall("boot", y + PageData, y, 2)
  <2>1. BootMap(h) = MapRange("boot", 0, GiB, PageData, 2)
    BY <1>2 DEF BootMap
  <2>2. /\ Makes(MapRange("boot", 0, GiB, PageData, 2), c) /\ Reaches(c, PageData + n, n)
        /\ y \in Frame /\ y \in Nat
    BY Spaces, SmallShows
  <2>3. c = MapCall("boot", y + PageData, y, 2)
    OBVIOUS
  <2> HIDE DEF c, y
  <2>4. Makes(p, c)
    BY <2>1, <2>2
  <2>5. y + PageData \in Nat
    BY <2>2, Places
  <2>7. \A x, z : Reaches(c, x, z) => Shows(p, "boot", x, z)
    <3>1. 2 \in 1 .. 3
      OBVIOUS
    <3> QED BY <2>2, <2>3, <2>4, <2>5, <3>1, Spaces, MadeShows
  <2> QED BY <2>2, <2>7
<1> QED BY <1>1, <1>2

LEMMA DirectShows ==
  ASSUME NEW h \in BOOLEAN, NEW p, \A c : Makes(Direct(h), c) => Makes(p, c)
  PROVE  ListShown(p, "kernel")
<1> SUFFICES ASSUME NEW n \in PageArray .. (PageArray + ArrayPages - 1)
             PROVE  Shows(p, "kernel", PageData + n, n)
  BY DEF ListShown
<1>1. CASE h
  <2> DEFINE c == MapCall("kernel", PageData, 0, 3)
             s == MapRange("kernel", 0, 4 * GiB, High, 3)
  <2>1. Direct(h) = s \o << c >>
    BY <1>1 DEF Direct
  <2>2. s \in Seq(Call) /\ << c >> \in Seq(Call)
    <3>1. Extent(High, 4, 3, 4 * GiB) /\ Framed(0, 4, 3) /\ 4 \in Nat /\ 3 \in 1 .. 3
      BY Extents
    <3>2. Staged(s, StageOf("kernel"), StageOf("kernel"))
      BY <3>1, Spaces, Places, RangePart
    <3>3. Staged(<< c >>, StageOf("kernel"), StageOf("kernel"))
      BY Spaces, OnePart
    <3> QED BY <3>2, <3>3 DEF Staged
  <2> HIDE DEF c, s
  <2>3. Makes(<< c >>, c)
    BY DEF Makes
  <2>4. Makes(p, c)
    BY <2>1, <2>2, <2>3, MakesJoin
  <2>5. Reaches(c, PageData + n, n)
    BY Spaces, LargeShows DEF c
  <2>6. 0 \in Frame /\ PageData \in Nat
    BY FrameAssumption, Places
  <2>7. \A x, y : Reaches(c, x, y) => Shows(p, "kernel", x, y)
    <3>1. 3 \in 1 .. 3 /\ c = MapCall("kernel", PageData, 0, 3)
      BY DEF c
    <3> QED BY <2>4, <2>6, <3>1, Spaces, MadeShows
  <2> QED BY <2>5, <2>7
<1>2. CASE ~h
  <2> DEFINE y == (n \div F) * F
             c == MapCall("kernel", y + PageData, y, 2)
             s == MapRange("kernel", 0, 4 * GiB, High, 2)
             t == MapRange("kernel", 0, GiB, PageData, 2)
  <2>1. Direct(h) = s \o t
    BY <1>2 DEF Direct
  <2>2. s \in Seq(Call) /\ t \in Seq(Call)
    <3>1. /\ Extent(High, 4 * F, 2, 4 * GiB) /\ Framed(0, 4 * F, 2)
          /\ Extent(PageData, F, 2, GiB) /\ Framed(0, F, 2)
          /\ 4 * F \in Nat /\ F \in Nat /\ 2 \in 1 .. 3
      BY Extents, Pages
    <3>2. /\ Staged(s, StageOf("kernel"), StageOf("kernel"))
          /\ Staged(t, StageOf("kernel"), StageOf("kernel"))
      BY <3>1, Spaces, Places, RangePart
    <3> QED BY <3>2 DEF Staged
  <2>3. Makes(t, c) /\ Reaches(c, PageData + n, n) /\ y \in Frame /\ y \in Nat
    BY Spaces, SmallShows
  <2>4. c = MapCall("kernel", y + PageData, y, 2)
    OBVIOUS
  <2> HIDE DEF c, y, s, t
  <2>5. Makes(p, c)
    BY <2>1, <2>2, <2>3, MakesJoin
  <2>6. y + PageData \in Nat
    BY <2>3, Places
  <2>7. \A x, z : Reaches(c, x, z) => Shows(p, "kernel", x, z)
    <3>1. 2 \in 1 .. 3
      OBVIOUS
    <3> QED BY <2>3, <2>4, <2>5, <2>6, <3>1, Spaces, MadeShows
  <2> QED BY <2>3, <2>7
<1> QED BY <1>1, <1>2

\* What is used of a program: it loads the kernel's tables after their maps
\* and makes their root after the boot loader's, it maps all memory to itself
\* and the page list in both spaces.
LEMMA BootingShows ==
  ASSUME NEW p \in KernelPrograms
  PROVE  /\ Staged(p, 1, 5) /\ ListShown(p, "boot") /\ ListShown(p, "kernel")
         /\ \E highest \in HighestAddresses : \A f \in 1 .. highest : Shows(p, "kernel", f, f)
<1>1. PICK h \in BOOLEAN, highest \in HighestAddresses, base \in Bases :
             p = BootMap(h) \o PageSpaceInit(h, highest, base) \o HeapInit
  BY DEF KernelPrograms
<1>2. Staged(p, 1, 5)
  BY <1>1, ProgramFits
<1>3. /\ \A c : Makes(BootMap(h), c) => Makes(p, c)
      /\ \A c : Makes(Direct(h), c) => Makes(p, c)
      /\ \A c : Makes(MapRange("kernel", 1, highest, 0, 1), c) => Makes(p, c)
  BY <1>1, ProgramMakes
<1>4. ASSUME NEW f \in 1 .. highest PROVE Shows(p, "kernel", f, f)
  <2> DEFINE c == MapCall("kernel", f, f, 1)
  <2>1. f \in Nat /\ f \in Frame /\ 1 \in 1 .. 3
    BY FrameAssumption, LayoutAssumption
  <2>2. c = MapCall("kernel", f, f, 1)
    OBVIOUS
  <2> HIDE DEF c
  <2>3. Makes(p, c) /\ Reaches(c, f, f)
    BY <1>3, <2>2, LowShows
  <2> QED BY <2>1, <2>2, <2>3, Spaces, MadeShows
<1> QED BY <1>2, <1>3, <1>4, BootShows, DirectShows
-----------------------------------------------------------------------------
(* What is mapped at each time. *)

Result(call) == [space |-> call.space, virt |-> call.virt, size |-> call.size,
                 phys |-> call.phys]

\* The boot loader maps the frame to itself, and every kernel does.
InMemory(t) ==
  /\ \A highest \in HighestAddresses : t \in 1 .. highest
  /\ \E m \in BootMapped : /\ Within(ToPage(t), m.virt, m.size)
                          /\ t = m.phys + (t % PagesOf(m.size))

\* The calls made are mapped, and the kernel's tables are in use once loaded.
HistoryInv ==
  /\ \A k \in MapCalls(program) : k < step /\ program[k].phys # None => Result(program[k]) \in mapped
  /\ phys # None /\ Now.phys # None => phys = Now.phys
  /\ BootMapped \subseteq mapped
  /\ cr3 \in Space
  /\ cr3 = "kernel" => \E k \in DOMAIN program : k < step /\ program[k].op = "load"
  /\ \A t \in DOMAIN tables \cup pool["boot"] \cup pool["kernel"] : InMemory(t)

LEMMA InitHistory == Init => HistoryInv
<1> SUFFICES ASSUME Init PROVE HistoryInv
  OBVIOUS
<1>1. \A k \in MapCalls(program) : ~(k < step)
  BY ProgramAssumption DEF Init, Proper, MapCalls
<1>2. \A t \in DOMAIN tables \cup pool["boot"] \cup pool["kernel"] : InMemory(t)
  BY MemoryAssumption DEF Init, InMemory
<1> QED BY <1>1, <1>2 DEF Init, HistoryInv, Space

\* A step that goes on to the next call, none being mapped.
LEMMA QuietHistory ==
  ASSUME TypeInv, HistoryInv, phys = None, step \in DOMAIN program, program[step].op # "map",
         step' = step + 1, UNCHANGED <<program, phys, mapped>>
  PROVE  /\ \A k \in MapCalls(program') :
              k < step' /\ program'[k].phys # None => Result(program'[k]) \in mapped'
         /\ phys' = None /\ BootMapped \subseteq mapped'
         /\ \A k \in DOMAIN program : k < step => k \in DOMAIN program' /\ k < step'
<1>1. program \in Seq(Call) /\ step \in Nat
  BY ProgramAssumption DEF Proper, TypeInv
<1>2. \A k \in MapCalls(program) : k < step' => k < step
  BY <1>1 DEF MapCalls
<1> QED BY <1>1, <1>2 DEF HistoryInv

LEMMA NextHistory == IInv /\ HistoryInv /\ [Next]_vars => HistoryInv'
<1> SUFFICES ASSUME IInv, HistoryInv, [Next]_vars PROVE HistoryInv'
  OBVIOUS
<1> DEFINE Frames == DOMAIN tables \cup pool["boot"] \cup pool["kernel"]
<1>0. TypeInv /\ \A t \in Frames : InMemory(t)
  BY DEF IInv, HistoryInv
<1>1. CASE MakeRoot
  <2>1. PICK f \in Frame : /\ Allocated("kernel", f) /\ tables' = With(tables, f, NewTable)
    BY <1>1 DEF MakeRoot
  <2>2. /\ phys = None /\ step \in DOMAIN program /\ program[step].op # "map"
        /\ step' = step + 1 /\ UNCHANGED <<program, cr3, phys, mapped>>
    BY <1>1 DEF MakeRoot, Calls, walk
  <2>3. /\ f \in pool["kernel"] /\ pool'["boot"] \subseteq pool["boot"]
        /\ pool'["kernel"] \subseteq pool["kernel"] /\ DOMAIN tables' = DOMAIN tables \cup {f}
    BY <1>0, <2>1 DEF Allocated, With, TypeInv, Space
  <2>4. \A t \in Frames' : InMemory(t)
    BY <1>0, <2>3
  <2> HIDE DEF Frames
  <2> QED BY <1>0, <2>2, <2>4, QuietHistory DEF HistoryInv, Frames
<1>2. CASE Load
  <2>1. /\ phys = None /\ step \in DOMAIN program /\ program[step].op = "load" /\ cr3' = "kernel"
        /\ step' = step + 1 /\ UNCHANGED <<program, phys, tables, pool, mapped>>
    BY <1>2 DEF Load, Calls, walk
  <2>2. \E k \in DOMAIN program' : k < step' /\ program'[k].op = "load"
    BY <1>0, <2>1 DEF TypeInv
  <2>3. \A t \in Frames' : InMemory(t)
    BY <1>0, <2>1
  <2> QED BY <1>0, <2>1, <2>2, <2>3, QuietHistory DEF HistoryInv, Space
<1>3. CASE Map
  <2>1. /\ phys = None /\ UNCHANGED <<program, step, cr3, tables, mapped>>
    BY <1>3 DEF Map, Calls
  <2>2. /\ phys' # None /\ Now.phys # None => phys' = Now.phys
        /\ pool'["boot"] \subseteq pool["boot"] /\ pool'["kernel"] \subseteq pool["kernel"]
    <3>1. CASE program[step].phys # None /\ phys' = program[step].phys /\ UNCHANGED pool
      BY <3>1 DEF Now
    <3>2. CASE program[step].phys = None /\ \E f \in Frame : Allocated("kernel", f) /\ phys' = f
      BY <1>0, <3>2 DEF Allocated, TypeInv, Space, Now
    <3> QED BY <1>3, <3>1, <3>2 DEF Map
  <2>3. \A t \in Frames' : InMemory(t)
    BY <1>0, <2>1, <2>2
  <2>4. Now' = Now /\ MapCalls(program') = MapCalls(program)
    BY <2>1 DEF Now
  <2> QED BY <2>1, <2>2, <2>3, <2>4 DEF HistoryInv
<1>4. CASE Descend \/ OutOfMemory \/ UNCHANGED vars
  <2>1. UNCHANGED <<program, step, cr3, tables, pool, phys, mapped>>
    BY <1>4 DEF Descend, OutOfMemory, vars, walk
  <2> QED BY <2>1 DEF HistoryInv, Now, MapCalls
<1>5. CASE Create
  <2>1. PICK f \in Frame :
               /\ Allocated(program[step].space, f)
               /\ tables' = With([tables EXCEPT ![pml][Here] = [addr |-> f, ps |-> FALSE]],
                                 f, NewTable)
    BY <1>5 DEF Create
  <2>2. phys # None /\ UNCHANGED <<program, step, cr3, phys, mapped>>
    BY <1>5 DEF Create, Walks
  <2>3. Now.space \in Space
    BY <2>2, WalkFacts
  <2>4. /\ f \in pool["boot"] \cup pool["kernel"] /\ pool'["boot"] \subseteq pool["boot"]
        /\ pool'["kernel"] \subseteq pool["kernel"]
    BY <1>0, <2>1, <2>3 DEF Allocated, TypeInv, Space, Now
  <2>5. DOMAIN tables' = DOMAIN tables \cup {f}
    BY <2>1 DEF With
  <2>6. \A t \in Frames' : InMemory(t)
    BY <1>0, <2>4, <2>5
  <2> QED BY <2>2, <2>6 DEF HistoryInv, Now, MapCalls
<1>6. CASE SetEntry
  <2>1. /\ phys # None /\ phys' = None /\ step' = step + 1 /\ DOMAIN tables' = DOMAIN tables
        /\ mapped' = mapped \cup {Done(Now)} /\ UNCHANGED <<program, cr3, pool>>
    BY <1>6 DEF SetEntry, Walks, Now
  <2>2. program \in Seq(Call) /\ step \in Nat
    BY <1>0, ProgramAssumption DEF Proper, TypeInv
  <2>3. ASSUME NEW k \in MapCalls(program), k < step', program[k].phys # None
        PROVE  Result(program[k]) \in mapped'
    <3>1. k < step \/ k = step
      BY <2>1, <2>2, <2>3 DEF MapCalls
    <3>2. CASE k = step
      <4>1. phys = Now.phys
        BY <2>1, <2>3, <3>2 DEF HistoryInv, Now
      <4> QED BY <2>1, <3>2, <4>1 DEF Done, Result, Now
    <3>3. CASE k < step
      BY <2>1, <2>3, <3>3 DEF HistoryInv
    <3> QED BY <3>1, <3>2, <3>3
  <2>4. \A k \in MapCalls(program') :
          k < step' /\ program'[k].phys # None => Result(program'[k]) \in mapped'
    BY <2>1, <2>3 DEF MapCalls
  <2>5. \A t \in Frames' : InMemory(t)
    BY <1>0, <2>1
  <2>6. cr3' = "kernel" => \E k \in DOMAIN program' : k < step' /\ program'[k].op = "load"
    BY <2>1, <2>2 DEF HistoryInv
  <2> QED BY <2>1, <2>4, <2>5, <2>6 DEF HistoryInv
<1> QED BY <1>1, <1>2, <1>3, <1>4, <1>5, <1>6 DEF Next

LEMMA HistoryInvariant == Spec => [](IInv /\ HistoryInv)
<1>1. Init => IInv /\ HistoryInv
  BY InitIInv, InitHistory
<1>2. IInv /\ HistoryInv /\ [Next]_vars => IInv' /\ HistoryInv'
  BY NextIInv, NextHistory
<1> QED BY <1>1, <1>2, PTL DEF Spec
-----------------------------------------------------------------------------
(* What is in reach. *)

\* Every page of a map is found, not only its first.
LEMMA PageFound ==
  ASSUME IInv, NEW m \in mapped, NEW v \in Page, Within(v, m.virt, m.size), ~Unsized(m)
  PROVE  Translation(m.space, v) = [phys |-> m.phys, size |-> m.size]
<1>1. m.space \in Space /\ m.virt \in Page /\ m.size \in 1 .. 3 /\ m.size \in Depth
  BY DEF IInv, TypeInv, Map1, Depth
<1>2. PICK t \in DOMAIN tables : For(place, t, m) /\ tables[t][m.virt[m.size]] = Leaf(m)
  BY DEF IInv, TreeInv, Trees, MapsHaveEntries
<1>3. v[m.size] = m.virt[m.size] /\ Above(m.virt, v, m.size)
  BY <1>1 DEF Within, Above
<1>4. At(m.space, v, m.size, t)
  BY <1>1, <1>2, <1>3 DEF For, At, Above
<1>5. /\ Leaf(m) # None /\ Leaf(m).addr = m.phys
      /\ m.size # 1 => Leaf(m).ps
  <2>1. m.size # 1 => PageSizeBit(m)
    BY <1>1 DEF PageSizeBit, Unsized, Space
  <2> QED BY <2>1, LeafFacts DEF Leaf, IInv
<1>6. m.size > 1 => Follow(t, v[m.size]) = None
  BY <1>1, <1>2, <1>3, <1>5 DEF Follow
<1> QED BY <1>1, <1>2, <1>3, <1>4, <1>5, <1>6, LastEntry

\* An access to a page that a map shows ends up there.
LEMMA ReachedLands ==
  ASSUME IInv, NEW m \in mapped, m.space = cr3, NEW x \in Nat, NEW y, Reaches(m, x, y)
  PROVE  Lands(x) = y
<1>1. Translation(cr3, ToPage(x)) = [phys |-> m.phys, size |-> m.size]
  BY ToPageIsPage, PageFound DEF Reaches
<1>2. m.phys \in Frame /\ m.size \in 1 .. 3
  BY DEF IInv, TypeInv, Map1
<1> DEFINE found == [phys |-> m.phys, size |-> m.size]
<1>3. found # None /\ found # Astray
  <2>1. found # None
    BY <1>2, FrameAssumption
  <2>2. found.size # Astray.size
    BY <1>2 DEF Astray
  <2> QED BY <2>1, <2>2
<1>4. found.phys = m.phys /\ found.size = m.size
  OBVIOUS
<1> HIDE DEF found
<1>5. Lands(x) = found.phys + (x % PagesOf(found.size))
  BY <1>1, <1>3 DEF Lands, found
<1> QED BY <1>4, <1>5 DEF Reaches

\* What the program shows is found once the calls before `last` are made.
LEMMA ShownLands ==
  ASSUME IInv, HistoryInv, NEW last \in DOMAIN program, last < step,
         StageOf(cr3) < Stage(program[last]), Staged(program, 1, 5),
         NEW x \in Nat, NEW y, Shows(program, cr3, x, y)
  PROVE  Lands(x) = y
<1>1. PICK k \in MapCalls(program) : /\ program[k].space = cr3 /\ program[k].phys # None
                                     /\ Reaches(program[k], x, y)
  BY DEF Shows
<1>2. k \in DOMAIN program /\ program[k].op = "map" /\ k \in Nat /\ last \in Nat /\ step \in Nat
  BY DEF MapCalls, Staged, IInv, TypeInv
<1>3. Stage(program[k]) = StageOf(cr3)
  BY <1>1, <1>2 DEF Stage, StageOf
<1>4. k < last
  <2>1. Stage(program[k]) \in Nat /\ Stage(program[last]) \in Nat
    BY <1>2 DEF Staged
  <2>2. last < k => Stage(program[last]) <= Stage(program[k])
    BY <1>2 DEF Staged
  <2>3. k # last
    BY <1>3, <2>1
  <2>4. ~(last < k)
    BY <1>3, <2>1, <2>2
  <2> QED BY <1>2, <2>3, <2>4
<1> DEFINE m == Result(program[k])
<1>5. m \in mapped
  BY <1>1, <1>2, <1>4 DEF HistoryInv
<1>6. m.space = cr3 /\ Reaches(m, x, y)
  BY <1>1 DEF Result, Reaches, Unsized
<1> HIDE DEF m
<1> QED BY <1>5, <1>6, ReachedLands

\* Once the kernel's tables are in use, all its maps are made.
LEMMA LoadedLands ==
  ASSUME IInv, HistoryInv, cr3 = "kernel", NEW x \in Nat, NEW y, Shows(program, "kernel", x, y)
  PROVE  Lands(x) = y
<1>1. PICK last \in DOMAIN program : last < step /\ program[last].op = "load"
  BY DEF HistoryInv
<1>2. Staged(program, 1, 5)
  BY FrameAssumption, BootingShows DEF IInv, TypeInv
<1>3. StageOf(cr3) < Stage(program[last])
  BY <1>1 DEF Stage, StageOf
<1> QED BY <1>1, <1>2, <1>3, ShownLands

LEMMA TablesInReach ==
  ASSUME IInv, HistoryInv, NEW t \in DOMAIN tables
  PROVE  Lands(t) = t
<1>1. InMemory(t) /\ cr3 \in Space
  BY DEF HistoryInv
<1>2. program \in KernelPrograms
  BY FrameAssumption DEF IInv, TypeInv
<1>3. PICK highest \in HighestAddresses : \A f \in 1 .. highest : Shows(program, "kernel", f, f)
  BY <1>2, BootingShows
<1>4. t \in 1 .. highest /\ t \in Nat
  BY <1>1, LayoutAssumption DEF InMemory
<1>5. CASE cr3 = "kernel"
  BY <1>3, <1>4, <1>5, LoadedLands
<1>6. CASE cr3 = "boot"
  <2>1. PICK m \in BootMapped : /\ Within(ToPage(t), m.virt, m.size)
                               /\ t = m.phys + (t % PagesOf(m.size))
    BY <1>1 DEF InMemory
  <2>2. m \in mapped /\ m.space = "boot"
    BY FrameAssumption DEF HistoryInv
  <2>3. Reaches(m, t, t)
    BY <2>1, <2>2 DEF Reaches, Unsized
  <2> QED BY <1>4, <1>6, <2>2, <2>3, ReachedLands
<1> QED BY <1>1, <1>5, <1>6 DEF Space

LEMMA ListInReach ==
  ASSUME IInv, HistoryInv, root["kernel"] # None,
         NEW n \in PageArray .. (PageArray + ArrayPages - 1)
  PROVE  Lands(PageData + n) = n
<1>1. cr3 \in Space /\ PageData + n \in Nat
  BY ListPages, Places DEF HistoryInv
<1>2. program \in KernelPrograms
  BY FrameAssumption DEF IInv, TypeInv
<1> DEFINE x == PageData + n
<1>3. /\ Staged(program, 1, 5) /\ Shows(program, "boot", x, n)
      /\ Shows(program, "kernel", x, n)
  BY <1>2, BootingShows DEF ListShown
<1> HIDE DEF x
<1>4. x \in Nat
  BY <1>1 DEF x
<1>5. CASE cr3 = "kernel"
  BY <1>3, <1>4, <1>5, LoadedLands DEF x
<1>6. CASE cr3 = "boot"
  <2>1. PICK last \in DOMAIN program : last < step /\ program[last].op = "root"
    <3>1. PICK j \in DOMAIN program : program[j].op = "root" /\ ~(j >= step)
      BY DEF IInv, CallInv
    <3>2. j \in Nat /\ step \in Nat
      BY <1>3 DEF Staged, IInv, TypeInv
    <3> QED BY <3>1, <3>2
  <2>2. StageOf(cr3) < Stage(program[last])
    BY <1>6, <2>1 DEF Stage, StageOf
  <2>3. Lands(x) = n
    BY <1>3, <1>4, <1>6, <2>1, <2>2, ShownLands
  <2> QED BY <2>3 DEF x
<1> QED BY <1>1, <1>5, <1>6 DEF Space

\* The walks, which read and write tables under their physical addresses
\* (paging.cpp:48-67), find every table before and after loadAddressSpace()
\* (virtual.cpp:47), and from the making of the kernel's root on the page list
\* stays the same memory (boot_mem.cpp:74-100, virtual.cpp:32-41).
THEOREM ReachStays == Spec => []MemoryInReach
<1>1. IInv /\ HistoryInv => MemoryInReach
  BY TablesInReach, ListInReach DEF MemoryInReach
<1> QED BY <1>1, HistoryInvariant, PTL
=============================================================================

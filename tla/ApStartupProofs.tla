--------------------------- MODULE ApStartupProofs ----------------------------
(***************************************************************************)
(* Proofs about ApStartup for every number of processors, every width of   *)
(* cpuIndex, every size of the heap's largest storage and, where the       *)
(* property does not name it, every place of the boot processor.           *)
(***************************************************************************)
EXTENDS ApStartup, FiniteSetTheorems, TLAPS

\* The processors that have unlocked.
Unlocked == {c \in CPU \ {boot} : at[c] = "hlt"}

At == {"off", "heap", "unlink", "index", "push", "move", "store", "count", "gs",
       "unlock", "serve", "hlt"}
Loop == {"goto", "lock", "wait", "done"}

\* What the loop's position says of the tickets and of the list's rest.
LoopInv == /\ boot \in CPU /\ i \in Nat /\ loop \in Loop
           /\ at \in [CPU -> At] /\ at[boot] = "hlt"
           /\ IF loop = "done" THEN i = N ELSE i < N
           /\ loop \in {"goto", "lock"} => next_ticket = i
           /\ loop = "wait" => ticket = i /\ next_ticket = i + 1
           /\ \A c \in CPU \ {boot} :
                (c > i \/ (c = i /\ loop = "goto")) => at[c] = "off"

\* No ticket is served for which nobody has unlocked: the lock counts.
CountInv == /\ serving_ticket \in Int /\ reg \in [CPU -> Int]
            /\ head \in Int /\ size \in Int /\ capacity \in Int /\ largest \in Int
            /\ serving_ticket <= Cardinality(Unlocked)
            /\ \A c \in CPU : at[c] = "serve" => reg[c] <= Cardinality(Unlocked)
            /\ loop = "done" => N - 1 <= Cardinality(Unlocked)

SInv == LoopInv /\ CountInv

-----------------------------------------------------------------------------
\* The processors other than the boot processor.
LEMMA Others ==
  ASSUME boot \in CPU
  PROVE  /\ IsFiniteSet(CPU \ {boot})
         /\ Cardinality(CPU \ {boot}) = N - 1
<1>1. IsFiniteSet(CPU) /\ Cardinality(CPU) = N
  BY FS_Interval, ApAssumption DEF CPU
<1> QED BY <1>1, FS_RemoveElement

\* Unlocked is finite and has at most N - 1 elements.
LEMMA UnlockedFinite ==
  ASSUME boot \in CPU
  PROVE  /\ IsFiniteSet(Unlocked)
         /\ Cardinality(Unlocked) \in Nat
         /\ Cardinality(Unlocked) <= N - 1
         /\ Cardinality(Unlocked) = N - 1 => Unlocked = CPU \ {boot}
<1>1. Unlocked \subseteq CPU \ {boot}
  BY DEF Unlocked
<1>2. QED
  BY <1>1, Others, FS_Subset, FS_CardinalityType

LEMMA LoopInit == Init => LoopInv
  BY ApAssumption DEF Init, LoopInv, CPU, At, Loop

LEMMA CountInit == Init => CountInv
<1> SUFFICES ASSUME Init PROVE CountInv
  OBVIOUS
<1>1. Unlocked = {}
  BY DEF Init, Unlocked, CPU
<1>2. Cardinality(Unlocked) = 0
  BY <1>1, FS_EmptySet
<1> QED BY <1>2, WidthAssumption DEF Init, CountInv, CPU, None

\* The loop's position is kept by the loop ...
LEMMA LoopStart == LoopInv /\ StartAllCores => LoopInv'
<1> SUFFICES ASSUME LoopInv, StartAllCores PROVE LoopInv'
  OBVIOUS
<1> USE ApAssumption DEF LoopInv, CPU, At, Loop
<1>1. CASE Goto
  BY <1>1 DEF Goto
<1>2. CASE Lock
  BY <1>2 DEF Lock
<1>3. CASE Served
  BY <1>3 DEF Served
<1> QED BY <1>1, <1>2, <1>3 DEF StartAllCores

\* ... and by the processors, which have been started.
LEMMA LoopStep ==
  ASSUME LoopInv, NEW c \in CPU, NEW from \in At \ {"off", "hlt"}, NEW to \in At \ {"off"},
         Step(c, from, to), UNCHANGED <<boot, i, loop, ticket, next_ticket>>
  PROVE  LoopInv'
  BY DEF LoopInv, CPU, At, Step, Loop

\* A processor's step that is not the last leaves Unlocked alone.
LEMMA UnlockedSame ==
  ASSUME LoopInv, NEW c \in CPU, NEW from \in At \ {"hlt"}, NEW to \in At \ {"hlt"},
         Step(c, from, to), boot' = boot
  PROVE  Unlocked' = Unlocked
  BY DEF LoopInv, Unlocked, Step

LEMMA CountStart == SInv /\ StartAllCores => CountInv'
<1> SUFFICES ASSUME SInv, StartAllCores PROVE CountInv'
  OBVIOUS
<1>u. Unlocked' = Unlocked
  BY ApAssumption DEF SInv, LoopInv, StartAllCores, Goto, Lock, Served, Unlocked, CPU
<1>1. CASE Goto
  BY <1>1, <1>u, ApAssumption DEF Goto, heap, contexts, SInv, LoopInv, CountInv, CPU
<1>2. CASE Lock
  BY <1>2, <1>u DEF Lock, heap, contexts, SInv, CountInv
<1>3. CASE Served
  <2>1. loop' = "done" => i + 1 = N /\ serving_ticket = i
    BY <1>3, ApAssumption DEF Served, SInv, LoopInv
  <2> QED BY <1>3, <1>u, <2>1, ApAssumption DEF Served, heap, contexts, SInv, LoopInv, CountInv
<1> QED BY <1>1, <1>2, <1>3 DEF StartAllCores

LEMMA CountProcessor ==
  ASSUME SInv, NEW c \in CPU, Started(c)
  PROVE  LoopInv' /\ CountInv'
<1> USE DEF SInv, bsp
<1>n. Cardinality(Unlocked) \in Nat
  BY UnlockedFinite DEF LoopInv
<1>1. CASE Allocate(c)
  <2>1. Unlocked' = Unlocked
    BY <1>1, UnlockedSame DEF Allocate, At
  <2>2. LoopInv'
    BY <1>1, LoopStep DEF Allocate, At
  <2> QED BY <1>1, <2>1, <2>2 DEF Allocate, Step, Read, heap, contexts, CountInv, LoopInv
<1>2. CASE Unlink(c)
  <2>1. Unlocked' = Unlocked
    BY <1>2, UnlockedSame DEF Unlink, At
  <2>2. LoopInv'
    BY <1>2, LoopStep DEF Unlink, At
  <2> QED BY <1>2, <2>1, <2>2 DEF Unlink, Step, contexts, CountInv, LoopInv
<1>3. CASE Index(c)
  <2>1. Unlocked' = Unlocked
    BY <1>3, UnlockedSame DEF Index, At
  <2>2. LoopInv'
    BY <1>3, LoopStep DEF Index, At
  <2> QED BY <1>3, <2>1, <2>2 DEF Index, Step, heap, contexts, CountInv, LoopInv
<1>4. CASE Push(c)
  <2>1. Unlocked' = Unlocked
    BY <1>4, UnlockedSame DEF Push, At
  <2>2. LoopInv'
    BY <1>4, LoopStep DEF Push, At
  <2> QED BY <1>4, <2>1, <2>2 DEF Push, Step, Read, heap, CountInv, LoopInv
<1>5. CASE Move(c)
  <2>1. Unlocked' = Unlocked
    BY <1>5, UnlockedSame DEF Move, At
  <2>2. LoopInv'
    BY <1>5, LoopStep DEF Move, At
  <2> QED BY <1>5, <2>1, <2>2 DEF Move, Grown, Step, heap, CountInv, LoopInv
<1>6. CASE Store(c)
  <2>1. Unlocked' = Unlocked
    BY <1>6, UnlockedSame DEF Store, At
  <2>2. LoopInv'
    BY <1>6, LoopStep DEF Store, At
  <2> QED BY <1>6, <2>1, <2>2 DEF Store, Step, heap, CountInv, LoopInv
<1>7. CASE Count(c)
  <2>1. Unlocked' = Unlocked
    BY <1>7, UnlockedSame DEF Count, At
  <2>2. LoopInv'
    BY <1>7, LoopStep DEF Count, At
  <2> QED BY <1>7, <2>1, <2>2 DEF Count, Step, heap, CountInv, LoopInv
<1>8. CASE SetGsBase(c)
  <2>1. Unlocked' = Unlocked
    BY <1>8, UnlockedSame DEF SetGsBase, At
  <2>2. LoopInv'
    BY <1>8, LoopStep DEF SetGsBase, At
  <2> QED BY <1>8, <2>1, <2>2 DEF SetGsBase, Step, heap, contexts, CountInv, LoopInv
<1>9. CASE Unlock(c)
  <2>1. Unlocked' = Unlocked
    BY <1>9, UnlockedSame DEF Unlock, At
  <2>2. LoopInv'
    BY <1>9, LoopStep DEF Unlock, At
  <2> QED BY <1>9, <2>1, <2>2 DEF Unlock, Step, Read, heap, contexts, CountInv, LoopInv
<1>10. CASE Serve(c)
  <2>1. LoopInv'
    BY <1>10, LoopStep DEF Serve, At
  <2>2. c # boot /\ c \notin Unlocked
    BY <1>10 DEF Serve, Step, LoopInv, Unlocked
  <2>3. Unlocked' = Unlocked \cup {c}
    BY <1>10, <2>2 DEF Serve, Step, LoopInv, Unlocked
  <2>4. Cardinality(Unlocked') = Cardinality(Unlocked) + 1
    BY <2>2, <2>3, FS_AddElement, UnlockedFinite DEF LoopInv
  <2>5. reg[c] <= Cardinality(Unlocked)
    BY <1>10 DEF Serve, Step, CountInv
  <2> QED BY <1>n, <1>10, <2>1, <2>4, <2>5, ApAssumption DEF Serve, Step, heap, contexts, CountInv, LoopInv
<1>11. CASE Overrun(c)
  <2>1. UNCHANGED <<boot, i, loop, ticket, next_ticket, serving_ticket, at, reg, head, size, capacity, largest>>
    BY <1>11 DEF Overrun, contexts
  <2>2. Unlocked' = Unlocked
    BY <2>1 DEF Unlocked
  <2> QED BY <2>1, <2>2 DEF CountInv, LoopInv
<1> QED BY <1>1, <1>2, <1>3, <1>4, <1>5, <1>6, <1>7, <1>8, <1>9, <1>10, <1>11 DEF Started

LEMMA SInvStep == SInv /\ [Next]_vars => SInv'
<1> SUFFICES ASSUME SInv, [Next]_vars PROVE SInv'
  OBVIOUS
<1>1. CASE StartAllCores
  BY <1>1, LoopStart, CountStart DEF SInv
<1>2. CASE \E c \in CPU : Started(c)
  BY <1>2, CountProcessor DEF SInv
<1>3. CASE UNCHANGED vars
  BY <1>3 DEF SInv, LoopInv, CountInv, vars, Unlocked
<1> QED BY <1>1, <1>2, <1>3 DEF Next

LEMMA SInvHolds == Spec => []SInv
<1>1. Init => SInv
  BY LoopInit, CountInit DEF SInv
<1> QED BY <1>1, SInvStep, PTL DEF Spec

\* For every number of processors and every place of the boot processor:
\* when startAllCores() returns, all processors have finished (ap.cpp:39-49),
\* unless the vector of contexts became too large for the heap.
THEOREM StartupComplete == Spec => []ReturnsAfterAll
<1>1. SInv => ReturnsAfterAll
  <2> SUFFICES ASSUME SInv, loop = "done", ~overrun, NEW c \in CPU PROVE at[c] = "hlt"
    BY DEF ReturnsAfterAll
  <2>1. Cardinality(Unlocked) = N - 1
    BY UnlockedFinite, ApAssumption DEF SInv, LoopInv, CountInv
  <2>2. Unlocked = CPU \ {boot}
    BY <2>1, UnlockedFinite DEF SInv, LoopInv
  <2> QED BY <2>2 DEF Unlocked, SInv, LoopInv
<1> QED BY <1>1, SInvHolds, PTL

-----------------------------------------------------------------------------
(***************************************************************************)
(* The boot processor listed first: one processor at a time                *)
(***************************************************************************)
\* A processor that has entered its context: everything about it has its
\* place in the list as number, but the index is cut to its width.
Cut(c) == c % CpuIndexes
Entered(c) == data[c] = c /\ cpuIndex[c] = Cut(c) /\ elements[c] = c /\ gs[c] = c

LEMMA CutTypes == ASSUME NEW c \in Nat
                  PROVE  Cut(c) \in Int /\ (c < CpuIndexes => Cut(c) = c)
  BY WidthAssumption DEF Cut

\* How far the one processor is that is started.
Progress(c) ==
  /\ at[c] # "off"
  /\ head = IF at[c] \in {"heap", "unlink"} THEN c ELSE c + 1
  /\ size = IF at[c] \in {"gs", "unlock", "serve", "hlt"} THEN c + 1 ELSE c
  /\ serving_ticket = IF at[c] = "hlt" THEN c ELSE c - 1
  /\ at[c] \in {"unlink", "move", "store", "count"} => reg[c] = c
  /\ at[c] = "serve" => reg[c] = c - 1
  /\ at[c] = "move" => capacity = c /\ \A d \in CPU : d < c => copy[c][d] = d
  /\ at[c] \notin {"heap", "unlink"} => data[c] = c
  /\ at[c] \notin {"heap", "unlink", "index"} => cpuIndex[c] = Cut(c)
  /\ at[c] \in {"count", "gs", "unlock", "serve", "hlt"} => elements[c] = c
  /\ at[c] \in {"unlock", "serve", "hlt"} => gs[c] = c

\* Functions are functions.
TypeInv == /\ data \in [CPU -> Int] /\ gs \in [CPU -> Int]
           /\ cpuIndex \in [Object -> Int]
           /\ elements \in [CPU -> Int]
           /\ copy \in [CPU -> [CPU -> Int]]

\* Those before have finished, and between two nothing is under way.
FirstInv ==
  /\ overrun => capacity < N /\ 2 * (capacity + 1) > largest
  /\ Entered(0)
  /\ \A c \in CPU : c < i => at[c] = "hlt" /\ Entered(c)
  /\ \A c \in CPU : at[c] \in {"off", "heap", "unlink"} => data[c] = None
  /\ i > 0 /\ loop \in {"lock", "wait"} => Progress(i)
  /\ i > 0 /\ loop \in {"goto", "done"} => head = i /\ size = i /\ serving_ticket = i - 1
  /\ i = 0 => head = 1 /\ size = 1 /\ serving_ticket = 0

IInv == SInv /\ TypeInv /\ (boot = 0 => FirstInv)

LEMMA IInvInit == Init => IInv
<1> SUFFICES ASSUME Init PROVE IInv
  OBVIOUS
<1>1. SInv
  BY LoopInit, CountInit DEF SInv
<1>2. TypeInv
  BY ApAssumption DEF Init, TypeInv, CPU, Object, None
<1>3. boot = 0 => FirstInv
  <2>1. Cut(0) = 0
    BY CutTypes, WidthAssumption
  <2> QED BY <2>1, ApAssumption DEF Init, FirstInv, Entered, CPU, Object, None
<1> QED BY <1>1, <1>2, <1>3 DEF IInv

LEMMA TypeStep == IInv /\ [Next]_vars => TypeInv'
<1> SUFFICES ASSUME IInv, [Next]_vars PROVE TypeInv'
  OBVIOUS
<1> USE DEF IInv, SInv, CountInv, TypeInv, heap, contexts
<1>1. CASE StartAllCores
  BY <1>1 DEF StartAllCores, Goto, Lock, Served
<1>2. ASSUME NEW c \in CPU, Started(c) PROVE TypeInv'
  <2>1. CASE Allocate(c)
    BY <2>1 DEF Allocate
  <2>2. CASE Unlink(c)
    BY <2>2 DEF Unlink
  <2>3. CASE Index(c)
    <3>1. size % CpuIndexes \in Int
      BY WidthAssumption
    <3> QED BY <2>3, <3>1 DEF Index
  <2>4. CASE Push(c)
    BY <2>4 DEF Push
  <2>5. CASE Move(c)
    BY <2>5 DEF Move, Grown
  <2>6. CASE Store(c)
    BY <2>6 DEF Store
  <2>7. CASE Count(c)
    BY <2>7 DEF Count
  <2>8. CASE SetGsBase(c)
    BY <2>8 DEF SetGsBase
  <2>9. CASE Unlock(c)
    BY <2>9 DEF Unlock
  <2>10. CASE Serve(c)
    BY <2>10 DEF Serve
  <2>11. CASE Overrun(c)
    BY <2>11 DEF Overrun
  <2> QED BY <1>2, <2>1, <2>2, <2>3, <2>4, <2>5, <2>6, <2>7, <2>8, <2>9, <2>10, <2>11 DEF Started
<1>3. CASE UNCHANGED vars
  BY <1>3 DEF vars
<1> QED BY <1>1, <1>2, <1>3 DEF Next

\* The loop keeps FirstInv.
LEMMA FirstStart == IInv /\ boot = 0 /\ ~overrun /\ StartAllCores => FirstInv'
<1> SUFFICES ASSUME IInv, boot = 0, ~overrun, StartAllCores PROVE FirstInv'
  OBVIOUS
<1> USE ApAssumption DEF IInv, SInv, LoopInv, CPU, heap, contexts, FirstInv
<1>1. CASE Goto
  <2>1. i > 0 => Progress(i)'
    BY <1>1 DEF Goto, Progress
  <2>2. \A c \in CPU : c < i => at'[c] = "hlt" /\ Entered(c)'
    BY <1>1 DEF Goto, Entered
  <2> QED BY <1>1, <2>1, <2>2 DEF Goto, Entered
<1>2. CASE Lock
  <2>1. i > 0 => Progress(i)'
    BY <1>2 DEF Lock, Progress
  <2> QED BY <1>2, <2>1 DEF Lock, Entered
<1>3. CASE Served
  <2>1. i > 0 => Progress(i) /\ at[i] = "hlt"
    BY <1>3 DEF Served, Progress
  <2>2. at[i] = "hlt" /\ Entered(i)
    BY <2>1, <1>3 DEF Progress, Entered, Served
  <2>3. \A c \in CPU : c < i' => at'[c] = "hlt" /\ Entered(c)'
    BY <1>3, <2>2 DEF Served, Entered
  <2> QED BY <1>3, <2>1, <2>3 DEF Served, Entered, Progress
<1> QED BY <1>1, <1>2, <1>3 DEF StartAllCores

\* Only one processor is under way, the one the loop waits for.
LEMMA OnlyOne ==
  ASSUME IInv, boot = 0, NEW c \in CPU, at[c] \notin {"off", "hlt"}
  PROVE  c = i /\ i > 0 /\ loop \in {"lock", "wait"} /\ Progress(c)
<1> USE ApAssumption DEF IInv, SInv, LoopInv, CPU, FirstInv, Loop
<1>1. c # 0 /\ ~(c < i) /\ ~(c > i)
  OBVIOUS
<1>2. c = i /\ loop \notin {"goto", "done"}
  BY <1>1
<1> QED BY <1>1, <1>2

\* The processor keeps FirstInv: what others have entered it does not touch.
LEMMA FirstProcessor ==
  ASSUME IInv, boot = 0, ~overrun, NEW c \in CPU, Started(c)
  PROVE  FirstInv'
<1>1. c = i /\ i > 0 /\ loop \in {"lock", "wait"} /\ Progress(c)
  <2>1. at[c] \notin {"off", "hlt"}
    BY DEF Started, Allocate, Unlink, Index, Push, Move, Overrun, Store, Count, SetGsBase,
           Unlock, Serve, Step
  <2> QED BY <2>1, OnlyOne
<1>2. UNCHANGED <<boot, i, loop>>
  BY DEF Started, Allocate, Unlink, Index, Push, Move, Overrun, Store, Count, SetGsBase,
         Unlock, Serve, bsp
<1>3. SUFFICES /\ Progress(c)'
               /\ overrun' => capacity' < N /\ 2 * (capacity' + 1) > largest'
               /\ \A d \in CPU : d < c => at'[d] = at[d] /\ Entered(d)'
               /\ \A d \in CPU : at'[d] \in {"off", "heap", "unlink"} => data'[d] = None
  BY <1>1, <1>2, <1>3, ApAssumption DEF FirstInv, IInv, SInv, LoopInv, CPU
<1>4. \A d \in CPU : d < c => Entered(d)
  BY <1>1 DEF IInv, FirstInv
<1>a. \A d \in CPU : at[d] \in {"off", "heap", "unlink"} => data[d] = None
  BY DEF IInv, FirstInv
<1>b. \/ Allocate(c) \/ Unlink(c) \/ Index(c) \/ Push(c) \/ Move(c) \/ Overrun(c)
      \/ Store(c) \/ Count(c) \/ SetGsBase(c) \/ Unlock(c) \/ Serve(c)
  BY DEF Started
<1> USE ApAssumption DEF IInv, SInv, LoopInv, CountInv, TypeInv, CPU, Object, heap, contexts
<1>5. CASE Allocate(c)
  <2>1. /\ at[c] = "heap" /\ head = c /\ reg'[c] = c /\ at' = [at EXCEPT ![c] = "unlink"]
        /\ UNCHANGED <<head, data, elements, size, capacity, copy, cpuIndex, gs, serving_ticket, overrun>>
    BY <1>1, <1>5 DEF Allocate, Step, Read, Progress
  <2>2. Progress(c)'
    BY <1>1, <2>1 DEF Progress
  <2>3. \A d \in CPU : d < c => at'[d] = at[d] /\ Entered(d)'
    <3>1. \A d \in CPU : d < c => d # c
      OBVIOUS
    <3>2. \A d \in CPU : d # c => at'[d] = at[d] /\ elements'[d] = elements[d]
      BY <2>1
    <3> HIDE DEF IInv, SInv, LoopInv, CountInv, TypeInv, CPU, Object
    <3> QED BY <1>4, <2>1, <3>1, <3>2 DEF Entered
  <2>4. overrun' = FALSE /\ \A d \in CPU : at'[d] \in {"off", "heap", "unlink"} => data'[d] = None
    BY <1>a, <2>1
  <2> HIDE DEF IInv, SInv, LoopInv, CountInv, TypeInv, CPU, Object
  <2> QED BY <2>2, <2>3, <2>4
<1>6. CASE Unlink(c)
  BY <1>1, <1>4, <1>a, <1>6 DEF Unlink, Step, Read, Progress, Entered
<1>7. CASE Index(c)
  <2>1. size % CpuIndexes = Cut(c) /\ data[c] = c
    BY <1>1, <1>7 DEF Index, Step, Progress, Cut
  <2> QED BY <1>1, <1>4, <1>a, <1>7, <2>1 DEF Index, Step, Progress, Entered
<1>8. CASE Push(c)
  BY <1>1, <1>4, <1>a, <1>8 DEF Push, Step, Read, Progress, Entered
<1>9. CASE Move(c)
  BY <1>1, <1>4, <1>a, <1>9 DEF Move, Grown, Step, Read, Progress, Entered
<1>10. CASE Store(c)
  <2>1. /\ at[c] = "store" /\ at' = [at EXCEPT ![c] = "count"]
        /\ data[c] = c /\ elements' = [elements EXCEPT ![c] = c]
        /\ UNCHANGED <<reg, head, data, size, capacity, copy, cpuIndex, gs, serving_ticket, overrun>>
    BY <1>1, <1>10 DEF Store, Step, Progress
  <2>2. Progress(c)'
    BY <1>1, <2>1 DEF Progress
  <2>3. \A d \in CPU : d < c => at'[d] = at[d] /\ Entered(d)'
    <3>1. \A d \in CPU : d < c => d # c
      OBVIOUS
    <3>2. \A d \in CPU : d # c => at'[d] = at[d] /\ elements'[d] = elements[d]
      BY <2>1
    <3> HIDE DEF IInv, SInv, LoopInv, CountInv, TypeInv, CPU, Object
    <3> QED BY <1>4, <2>1, <3>1, <3>2 DEF Entered
  <2>4. overrun' = FALSE /\ \A d \in CPU : at'[d] \in {"off", "heap", "unlink"} => data'[d] = None
    BY <1>a, <2>1
  <2> HIDE DEF IInv, SInv, LoopInv, CountInv, TypeInv, CPU, Object
  <2> QED BY <2>2, <2>3, <2>4
<1>11. CASE Count(c)
  BY <1>1, <1>4, <1>a, <1>11 DEF Count, Step, Read, Progress, Entered
<1>12. CASE SetGsBase(c)
  BY <1>1, <1>4, <1>a, <1>12 DEF SetGsBase, Step, Read, Progress, Entered
<1>13. CASE Unlock(c)
  BY <1>1, <1>4, <1>a, <1>13 DEF Unlock, Step, Read, Progress, Entered
<1>14. CASE Serve(c)
  <2>1. at[c] = "serve" /\ reg[c] = c - 1
    BY <1>1, <1>14 DEF Serve, Step, Progress
  <2>2. /\ at' = [at EXCEPT ![c] = "hlt"] /\ serving_ticket' = c
        /\ UNCHANGED <<head, data, elements, size, capacity, copy, cpuIndex, gs, largest, overrun>>
    BY <1>14, <2>1 DEF Serve, Step
  <2>3. Progress(c)'
    BY <1>1, <2>1, <2>2 DEF Progress
  <2>4. \A d \in CPU : at'[d] = IF d = c THEN "hlt" ELSE at[d]
    BY <2>2
  <2>5. \A d \in CPU : d < c => at'[d] = at[d]
    <3> HIDE DEF IInv
    <3>1. \A d \in CPU : d < c => d # c
      OBVIOUS
    <3> QED BY <2>4, <3>1
  <2>6. \A d \in CPU : d < c => Entered(d)'
    BY <1>4, <2>2 DEF Entered
  <2>7. \A d \in CPU : at'[d] \in {"off", "heap", "unlink"} => data'[d] = None
    BY <1>a, <2>2, <2>4
  <2>8. overrun' = FALSE
    BY <2>2
  <2> QED BY <2>3, <2>5, <2>6, <2>7, <2>8
<1>15. CASE Overrun(c)
  <2>1. /\ at[c] = "move" /\ reg[c] = c /\ capacity = c
    BY <1>1, <1>15 DEF Overrun, Progress
  <2>2. /\ 2 * (c + 1) > largest
        /\ UNCHANGED <<at, reg, head, data, size, capacity, largest, copy, elements, cpuIndex, gs, serving_ticket>>
    BY <1>15, <2>1 DEF Overrun, Grown
  <2>3. Progress(c)' /\ \A d \in CPU : d < c => Entered(d)'
    BY <1>1, <1>4, <2>2 DEF Progress, Entered
  <2> QED BY <1>a, <2>1, <2>2, <2>3
<1> HIDE DEF IInv, SInv, LoopInv, CountInv, TypeInv, CPU, Object
<1> QED BY <1>b, <1>5, <1>6, <1>7, <1>8, <1>9, <1>10, <1>11, <1>12, <1>13, <1>14, <1>15

LEMMA IInvStep == IInv /\ [Next]_vars => IInv'
<1> SUFFICES ASSUME IInv, [Next]_vars PROVE IInv'
  OBVIOUS
<1>1. SInv'
  BY SInvStep DEF IInv
<1>2. TypeInv'
  BY TypeStep
<1>3. ASSUME boot' = 0 PROVE FirstInv'
  <2>1. boot = 0
    BY <1>3 DEF Next, vars, StartAllCores, Goto, Lock, Served, Started, Allocate, Unlink,
                Index, Push, Move, Overrun, Store, Count, SetGsBase, Unlock, Serve, bsp
  <2>2. CASE ~overrun /\ StartAllCores
    BY <2>1, <2>2, FirstStart
  <2>3. CASE ~overrun /\ \E c \in CPU : Started(c)
    BY <2>1, <2>3, FirstProcessor
  <2>4. CASE UNCHANGED vars
    BY <2>1, <2>4 DEF IInv, FirstInv, Progress, Entered, vars
  <2> QED BY <2>2, <2>3, <2>4 DEF Next
<1> QED BY <1>1, <1>2, <1>3 DEF IInv

\* If the boot processor is listed first: each processor has a context of its
\* own where its GS base finds it and, for as many as cpuIndex can tell apart
\* (cpu.hpp:75), getCpuData(), although neither the heap nor allCpuContexts is
\* locked (cpu.cpp:37-59); and the vector gets too large for the heap only if
\* the list is longer than the storage it has and the next is too large.
THEOREM ContextsCorrect == Spec => []ContextsAgree
<1>1. IInv => ContextsAgree
  <2> SUFFICES ASSUME IInv, boot = 0, ~overrun, NEW c \in CPU, at[c] = "hlt"
               PROVE  /\ gs[c] = data[c]
                      /\ \A d \in CPU \ {c} : data[d] # data[c]
                      /\ c < CpuIndexes => /\ cpuIndex[data[c]] \in 0 .. (size - 1)
                                          /\ elements[cpuIndex[data[c]]] = data[c]
    BY DEF ContextsAgree, IInv, FirstInv
  <2> USE ApAssumption DEF IInv, SInv, LoopInv, CountInv, FirstInv, CPU, Loop
  <2>1. \A d \in CPU : at[d] = "hlt" => Entered(d) /\ d < size
    <3> SUFFICES ASSUME NEW d \in CPU, at[d] = "hlt" PROVE Entered(d) /\ d < size
      OBVIOUS
    <3>1. CASE d < i
      <4>1. size >= i
        BY <3>1 DEF Progress
      <4> QED BY <3>1, <4>1
    <3>2. CASE d = i /\ i > 0
      <4>1. Progress(i)
        BY <3>2
      <4> QED BY <3>2, <4>1 DEF Progress, Entered
    <3>3. CASE d = i /\ i = 0
      BY <3>3
    <3>4. CASE d > i
      BY <3>4
    <3> QED BY <3>1, <3>2, <3>3, <3>4
  <2>2. \A d \in CPU : data[d] \in {d, None}
    BY <2>1 DEF Progress, Entered, None
  <2>3. Entered(c) /\ c < size
    BY <2>1
  <2>4. c \in 0 .. (N - 1) /\ (c < CpuIndexes => Cut(c) = c)
    BY CutTypes
  <2>5. data[c] = c /\ gs[c] = c /\ elements[c] = c /\ cpuIndex[c] = Cut(c)
    BY <2>3 DEF Entered
  <2>6. c \in 0 .. (size - 1)
    BY <2>3, <2>4
  <2>7. \A d \in CPU \ {c} : data[d] # data[c]
    <3> SUFFICES ASSUME NEW d \in CPU \ {c} PROVE data[d] # data[c]
      OBVIOUS
    <3>1. d # c /\ d # -1 /\ c # -1
      OBVIOUS
    <3>2. data[d] = d \/ data[d] = -1
      BY <2>2 DEF None
    <3> HIDE DEF IInv, SInv, LoopInv, CountInv, FirstInv, CPU, Loop
    <3> QED BY <2>5, <3>1, <3>2
  <2> HIDE DEF IInv, SInv, LoopInv, CountInv, FirstInv, CPU, Loop
  <2>8. ASSUME c < CpuIndexes
        PROVE  cpuIndex[data[c]] \in 0 .. (size - 1) /\ elements[cpuIndex[data[c]]] = data[c]
    <3>1. cpuIndex[data[c]] = c
      BY <2>4, <2>5, <2>8
    <3> QED BY <2>5, <2>6, <3>1
  <2> QED BY <2>5, <2>7, <2>8
<1> QED BY <1>1, IInvInit, IInvStep, PTL DEF Spec
=============================================================================
